-------------------------- MODULE StatusViewsProofs --------------------------
(***************************************************************************)
(* What the views that read a status say of the object it was written for, *)
(* for any object and any order of edits, syncs and losses; and what a     *)
(* command line of any words is taken for, those completion offers or not. *)
(***************************************************************************)
EXTENDS Views, ListsProofs

(* A list that was read. *)
Known(l) == l \notin {Unread, Failed}

(* A view keeps to its own steps. *)
LEMMA OneView ==
  ASSUME [Next]_vars
  PROVE  /\ UNCHANGED view
         /\ view = "pdb" => PD!Next \/ UNCHANGED viewVars
         /\ view = "hpa" => HP!Next \/ UNCHANGED viewVars
         /\ view = "rollouts" => RO!Next \/ UNCHANGED rolloutVars
         /\ view = "terminating" => TM!Next \/ UNCHANGED viewVars
         /\ view = "pvc-resize" => RE!Next \/ UNCHANGED viewVars
         /\ view = "arguments" => AR!Next \/ UNCHANGED viewVars
BY DEF Next, vars

-----------------------------------------------------------------------------
(* pdb. *)

BudgetTypes ==
  /\ cluster = [replicas |-> cluster.replicas, policy |-> cluster.policy,
                generation |-> cluster.generation, healthy |-> cluster.healthy,
                unhealthy |-> cluster.unhealthy, status |-> cluster.status,
                changes |-> cluster.changes]
  /\ cluster.policy \in PD!Policies /\ cluster.replicas \in 0..Pdb.replicas
  /\ cluster.generation \in Nat /\ cluster.healthy \in Nat /\ cluster.unhealthy \in Nat
  /\ cluster.status \in [observed : Nat, expected : Nat, desired : Nat, healthy : Nat,
                         allowed : Nat]
  /\ cluster.status.observed <= cluster.generation

(* An eviction that is allowed was allowed by the controller, and those     *)
(* since then have only made the allowance smaller.                         *)
BudgetKept ==
  LET s == cluster.status IN
    s.allowed > 0 => s.expected > 0 /\ s.allowed <= s.healthy - s.desired

BudgetInv == BudgetTypes /\ BudgetKept

LEMMA BudgetBegins == PD!Init => BudgetInv
<1> SUFFICES ASSUME PD!Init PROVE BudgetInv
  OBVIOUS
<1>1. PICK r \in 0..Pdb.replicas, p \in PD!Policies :
        cluster = [replicas |-> r, policy |-> p, generation |-> 1, healthy |-> r, unhealthy |-> 0,
                   status |-> PD!Unobserved, changes |-> 0]
  BY DEF PD!Init
<1>2. BudgetTypes
  BY <1>1 DEF BudgetTypes, PD!Unobserved
<1>3. BudgetKept
  BY <1>1 DEF BudgetKept, PD!Unobserved
<1>4. QED
  BY <1>2, <1>3 DEF BudgetInv

(* The cluster after a step. *)
BudgetNow(r, p, g, h, u, st, n) ==
  [replicas |-> r, policy |-> p, generation |-> g, healthy |-> h, unhealthy |-> u,
   status |-> st, changes |-> n]

(* Users and pods leave the status alone. *)
LEMMA BudgetMoves ==
  ASSUME BudgetInv, NEW r \in 0..Pdb.replicas, NEW p \in PD!Policies, NEW g \in Nat,
         g >= cluster.generation, NEW h \in Nat, NEW u \in Nat, NEW n,
         cluster' = BudgetNow(r, p, g, h, u, cluster.status, n)
  PROVE  BudgetInv'
<1>1. BudgetTypes'
  BY DEF BudgetInv, BudgetTypes, BudgetNow
<1>2. BudgetKept'
  BY DEF BudgetInv, BudgetKept, BudgetNow
<1>3. QED
  BY <1>1, <1>2 DEF BudgetInv

LEMMA BudgetSteps ==
  ASSUME BudgetInv, PD!Next \/ UNCHANGED viewVars
  PROVE  BudgetInv'
<1> DEFINE r == cluster.replicas
           p == cluster.policy
           g == cluster.generation
           h == cluster.healthy
           u == cluster.unhealthy
           st == cluster.status
           n == cluster.changes + 1
<1>1. BudgetTypes
  BY DEF BudgetInv
<1>a. /\ r \in 0..Pdb.replicas /\ p \in PD!Policies
      /\ g \in Nat /\ g + 1 \in Nat /\ g + 1 >= g /\ g >= g
      /\ h \in Nat /\ h + 1 \in Nat /\ (h > 0 => h - 1 \in Nat)
      /\ u \in Nat /\ u + 1 \in Nat /\ (u > 0 => u - 1 \in Nat)
  BY <1>1 DEF BudgetTypes
<1>2. CASE PD!EditPolicy
  <2>1. PICK q \in PD!Policies :
          PD!Step([cluster EXCEPT !.policy = q, !.generation = @ + 1])
    BY <1>2, Zenon DEF PD!EditPolicy
  <2>2. cluster' = BudgetNow(r, q, g + 1, h, u, st, n)
    BY <1>1, <2>1, Zenon DEF BudgetTypes, BudgetNow, PD!Step
  <2>3. QED
    BY <1>a, <2>2, BudgetMoves
<1>3. CASE PD!Scale
  <2>1. PICK m \in 0..Pdb.replicas : PD!Step([cluster EXCEPT !.replicas = m])
    BY <1>3 DEF PD!Scale
  <2>2. cluster' = BudgetNow(m, p, g, h, u, st, n)
    BY <1>1, <2>1, Zenon DEF BudgetTypes, BudgetNow, PD!Step
  <2>3. QED
    BY <1>a, <2>2, BudgetMoves
<1>4. CASE PD!Start
  <2>1. cluster' = BudgetNow(r, p, g, h, u + 1, st, n)
    BY <1>1, <1>4, Zenon DEF BudgetTypes, BudgetNow, PD!Start, PD!Step
  <2>2. QED
    BY <1>a, <2>1, BudgetMoves
<1>5. CASE PD!Stop
  <2>1. h > 0 /\ cluster' = BudgetNow(r, p, g, h - 1, u, st, n)
    BY <1>1, <1>5, Zenon DEF BudgetTypes, BudgetNow, PD!Stop, PD!Step
  <2>2. QED
    BY <1>a, <2>1, BudgetMoves
<1>6. CASE PD!BecomeHealthy
  <2>1. u > 0 /\ cluster' = BudgetNow(r, p, g, h + 1, u - 1, st, n)
    BY <1>1, <1>6, Zenon DEF BudgetTypes, BudgetNow, PD!BecomeHealthy, PD!Step
  <2>2. QED
    BY <1>a, <2>1, BudgetMoves
<1>7. CASE PD!Fail
  <2>1. h > 0 /\ cluster' = BudgetNow(r, p, g, h - 1, u + 1, st, n)
    BY <1>1, <1>7, Zenon DEF BudgetTypes, BudgetNow, PD!Fail, PD!Step
  <2>2. QED
    BY <1>a, <2>1, BudgetMoves
<1>8. CASE PD!Sync
  <2> DEFINE expected == IF p.type = "minAvailable" THEN PD!Pods ELSE r
             floor == IF p.type = "minAvailable" THEN p.n ELSE PD!Larger(0, expected - p.n)
             allowed == IF expected = 0 THEN 0 ELSE PD!Larger(0, h - floor)
             new == [observed |-> g, expected |-> expected, desired |-> floor,
                     healthy |-> h, allowed |-> allowed]
  <2>1. cluster' = [cluster EXCEPT !.status = new]
    BY <1>8 DEF PD!Sync
  <2>2. cluster' = BudgetNow(r, p, g, h, u, new, cluster.changes)
    BY <1>1, <2>1 DEF BudgetTypes, BudgetNow
  <2>3. expected \in Nat /\ p.n \in Nat /\ h \in Nat
    BY <1>1 DEF PD!Pods, PD!Policies, BudgetTypes
  <2>4. floor \in Nat /\ allowed \in Nat
    BY <2>3 DEF PD!Larger
  <2>5. allowed > 0 => expected > 0 /\ allowed <= h - floor
    BY <2>3, <2>4 DEF PD!Larger
  <2> HIDE DEF expected, floor, allowed
  <2>6. BudgetTypes'
    BY <1>1, <2>2, <2>3, <2>4 DEF BudgetTypes, BudgetNow
  <2>7. BudgetKept'
    BY <2>2, <2>5 DEF BudgetKept, BudgetNow
  <2>8. QED
    BY <2>6, <2>7 DEF BudgetInv
<1>9. CASE PD!Evict
  <2> DEFINE new == [observed |-> st.observed, expected |-> st.expected, desired |-> st.desired,
                     healthy |-> st.healthy, allowed |-> st.allowed - 1]
  <2>1. st.allowed > 0 /\ h > 0
    BY <1>9 DEF PD!Evict, PD!Evictable
  <2>2. cluster' = BudgetNow(r, p, g, h - 1, u, new, n)
    BY <1>1, <1>9, Zenon DEF PD!Evict, PD!Step, BudgetTypes, BudgetNow
  <2>3. BudgetTypes'
    BY <1>1, <2>1, <2>2 DEF BudgetTypes, BudgetNow
  <2>4. BudgetKept'
    BY <1>1, <2>1, <2>2 DEF BudgetKept, BudgetTypes, BudgetInv, BudgetNow
  <2>5. QED
    BY <2>3, <2>4 DEF BudgetInv
<1>10. CASE PD!Idle \/ UNCHANGED viewVars
  <2>1. UNCHANGED cluster
    BY <1>10 DEF PD!Idle, PD!vars, viewVars
  <2>2. QED
    BY <2>1 DEF BudgetInv, BudgetTypes, BudgetKept
<1>11. QED
  BY <1>2, <1>3, <1>4, <1>5, <1>6, <1>7, <1>8, <1>9, <1>10 DEF PD!Next

LEMMA DrainShown == BudgetInv => PD!DrainForetold
<1> SUFFICES ASSUME BudgetInv PROVE PD!DrainForetold
  OBVIOUS
<1> DEFINE s == cluster.status
<1>1. /\ s.observed \in Nat /\ s.expected \in Nat /\ s.desired \in Nat /\ s.healthy \in Nat
      /\ s.allowed \in Nat
      /\ s.allowed > 0 => s.expected > 0 /\ s.allowed <= s.healthy - s.desired
  BY DEF BudgetInv, BudgetTypes, BudgetKept
<1>2. ASSUME PD!Evictable, s.healthy <= s.expected
      PROVE  PD!Verdict \in {"OK", "NO-GUARD"}
  BY <1>1, <1>2 DEF PD!Evictable, PD!Verdict, PD!PdbVerdict, PD!Permablock
<1>3. ASSUME PD!Verdict = "OK", s.observed = cluster.generation
      PROVE  PD!Evictable
  BY <1>1, <1>3 DEF PD!Evictable, PD!Verdict, PD!PdbVerdict
<1>4. QED
  BY <1>2, <1>3 DEF PD!DrainForetold

LEMMA BudgetInvariance == Spec => [](view = "pdb" => BudgetInv)
<1>1. Init => (view = "pdb" => BudgetInv)
  BY BudgetBegins DEF Init
<1>2. (view = "pdb" => BudgetInv) /\ [Next]_vars => (view = "pdb" => BudgetInv)'
  BY OneView, BudgetSteps
<1>3. QED
  BY <1>1, <1>2, PTL DEF Spec

(* A drain goes the way pdb's verdict says, however edits, restarts, syncs  *)
(* and evictions interleave and however many replicas there are.            *)
THEOREM DrainsForetold == Spec => []DrainForetold
<1>1. (view = "pdb" => BudgetInv) => DrainForetold
  BY DrainShown DEF DrainForetold
<1>2. QED
  BY <1>1, BudgetInvariance, PTL

-----------------------------------------------------------------------------
(* hpa. *)

(* What the autoscaler reports of a metric it read r of. *)
Reported(m, r) ==
  IF r = None THEN [source |-> None, value |-> None] ELSE [source |-> m.source, value |-> r]

ScalerTypes ==
  /\ cluster = [spec |-> cluster.spec, generation |-> cluster.generation,
                readings |-> cluster.readings, replicas |-> cluster.replicas,
                status |-> cluster.status, changes |-> cluster.changes]
  /\ past = [generation |-> past.generation, readings |-> past.readings,
             replicas |-> past.replicas]
  /\ cluster.spec \in Hpa.specs /\ cluster.generation \in Nat
  /\ cluster.readings \in [Hpa.metrics -> Hpa.values \cup {None}]
  /\ cluster.replicas \in HP!Replicas /\ past.replicas \in HP!Replicas
  /\ cluster.status.current \in HP!Replicas /\ cluster.status.desired \in 0..Hpa.replicas
  /\ past.generation \in Nat /\ past.generation <= cluster.generation

(* A status of the current spec is what the last sync made of it. *)
ScalerSynced ==
  past.generation = cluster.generation =>
    LET spec == cluster.spec
        st == cluster.status
    IN
      IF past.replicas = 0 THEN st.active = "False" /\ st.metrics = <<>>
      ELSE IF past.replicas > Hpa.replicas
      THEN st.current = past.replicas /\ st.metrics = <<>>
      ELSE /\ st.metrics = [i \in DOMAIN spec |-> Reported(spec[i], past.readings[spec[i]])]
           /\ (\A i \in DOMAIN spec : past.readings[spec[i]] = None) => st.active = "False"
           /\ st.active = "False" => \E i \in DOMAIN spec : past.readings[spec[i]] = None

ScalerInv == ScalerTypes /\ ScalerSynced

LEMMA ScalerBegins == HP!Init => ScalerInv
<1> SUFFICES ASSUME HP!Init PROVE ScalerInv
  OBVIOUS
<1>1. PICK s \in Hpa.specs, r \in [Hpa.metrics -> Hpa.values \cup {None}], n \in HP!Replicas :
        cluster = [spec |-> s, generation |-> 1, readings |-> r, replicas |-> n,
                   status |-> HP!NewStatus, changes |-> 0]
  BY DEF HP!Init
<1>2. past = [generation |-> 0, readings |-> cluster.readings, replicas |-> 0]
  BY DEF HP!Init
<1>3. Hpa.replicas \in Nat
  BY HpaWellFormed
<1>4. ScalerTypes
  BY <1>1, <1>2, <1>3 DEF ScalerTypes, HP!NewStatus, HP!Replicas
<1>5. ScalerSynced
  BY <1>1, <1>2 DEF ScalerSynced
<1>6. QED
  BY <1>4, <1>5 DEF ScalerInv

LEMMA ScalerSteps ==
  ASSUME ScalerInv, HP!Next \/ UNCHANGED viewVars
  PROVE  ScalerInv'
<1> USE DEF ScalerInv
<1>1. CASE HP!EditSpec
  <2>1. PICK s \in Hpa.specs : HP!Step([cluster EXCEPT !.spec = s, !.generation = @ + 1])
    BY <1>1, Zenon DEF HP!EditSpec
  <2>2. /\ cluster' = [spec |-> s, generation |-> cluster.generation + 1,
                       readings |-> cluster.readings, replicas |-> cluster.replicas,
                       status |-> cluster.status, changes |-> cluster.changes + 1]
        /\ past' = past
    BY <2>1, Zenon DEF HP!Step, ScalerTypes
  <2>3. ScalerTypes'
    BY <2>2 DEF ScalerTypes
  <2>4. ScalerSynced'
    BY <2>2 DEF ScalerTypes, ScalerSynced
  <2>5. QED
    BY <2>3, <2>4
<1>2. CASE HP!Measure \/ HP!Rescale
  <2>1. PICK r \in [Hpa.metrics -> Hpa.values \cup {None}], n \in HP!Replicas :
          HP!Step([cluster EXCEPT !.readings = r, !.replicas = n])
    <3>1. CASE HP!Measure
      <4>1. PICK m \in Hpa.metrics, v \in Hpa.values \cup {None} :
              HP!Step([cluster EXCEPT !.readings[m] = v])
        BY <3>1 DEF HP!Measure
      <4>2. [cluster EXCEPT !.readings[m] = v] =
              [cluster EXCEPT !.readings = [cluster.readings EXCEPT ![m] = v],
                              !.replicas = cluster.replicas]
        BY Zenon DEF ScalerTypes
      <4>3. QED
        BY <4>1, <4>2, Zenon DEF ScalerTypes
    <3>2. CASE HP!Rescale
      <4>1. PICK n \in HP!Replicas : HP!Step([cluster EXCEPT !.replicas = n])
        BY <3>2 DEF HP!Rescale
      <4>2. [cluster EXCEPT !.replicas = n] =
              [cluster EXCEPT !.readings = cluster.readings, !.replicas = n]
        BY Zenon DEF ScalerTypes
      <4>3. QED
        BY <4>1, <4>2, Zenon DEF ScalerTypes
    <3>3. QED
      BY <1>2, <3>1, <3>2, Zenon
  <2>2. /\ cluster' = [spec |-> cluster.spec, generation |-> cluster.generation,
                       readings |-> r, replicas |-> n,
                       status |-> cluster.status, changes |-> cluster.changes + 1]
        /\ past' = past
    BY <2>1, Zenon DEF HP!Step, ScalerTypes
  <2>3. ScalerTypes' /\ ScalerSynced'
    BY <2>2 DEF ScalerTypes, ScalerSynced
  <2>4. QED
    BY <2>3
<1>3. CASE HP!Sync
  <2> DEFINE spec == cluster.spec
             n == cluster.replicas
  <2>1. PICK fewer \in BOOLEAN, d \in 1..Hpa.replicas :
          cluster' = [cluster EXCEPT !.status = HP!Synced(fewer, d)]
    BY <1>3 DEF HP!Sync
  <2>2. PICK st : st = HP!Synced(fewer, d)
    OBVIOUS
  <2>3. /\ cluster' = [spec |-> spec, generation |-> cluster.generation,
                       readings |-> cluster.readings, replicas |-> n,
                       status |-> st, changes |-> cluster.changes]
        /\ past' = [generation |-> cluster.generation, readings |-> cluster.readings,
                    replicas |-> n]
    BY <1>3, <2>1, <2>2, Zenon DEF HP!Sync, ScalerTypes
  <2>4. Hpa.replicas \in Nat /\ DOMAIN spec # {} /\ n \in 0..(Hpa.replicas + 1)
    BY HpaWellFormed DEF ScalerTypes, HP!Replicas
  <2>5. st.current \in HP!Replicas /\ st.desired \in 0..Hpa.replicas
    BY <2>2, <2>4 DEF HP!Synced, HP!Replicas, ScalerTypes
  <2>6. ScalerTypes'
    BY <2>3, <2>5 DEF ScalerTypes
  <2>7. \A m : HP!Entry(m) = Reported(m, cluster.readings[m])
    BY DEF HP!Entry, Reported
  <2>8. ASSUME n = 0 PROVE ScalerSynced'
    BY <2>2, <2>3, <2>8 DEF HP!Synced, ScalerSynced
  <2>9. ASSUME n > Hpa.replicas PROVE ScalerSynced'
    <3>1. n # 0
      BY <2>4, <2>9
    <3>2. QED
      BY <2>2, <2>3, <2>9, <3>1 DEF HP!Synced, ScalerSynced
  <2>10. ASSUME n # 0 /\ ~(n > Hpa.replicas) PROVE ScalerSynced'
    <3>1. /\ st.active = IF HP!GivesUp(fewer) THEN "False" ELSE "True"
          /\ st.metrics = [i \in DOMAIN spec |-> HP!Entry(spec[i])]
      BY <2>2, <2>10 DEF HP!Synced
    <3>2. st.metrics = [i \in DOMAIN spec |-> Reported(spec[i], cluster.readings[spec[i]])]
      BY <2>7, <3>1
    <3>3. (\A i \in DOMAIN spec : cluster.readings[spec[i]] = None) => st.active = "False"
      BY <3>1 DEF HP!GivesUp, HP!Readable
    <3>4. st.active = "False" => \E i \in DOMAIN spec : cluster.readings[spec[i]] = None
      BY <2>4, <3>1 DEF HP!GivesUp, HP!Readable
    <3>5. QED
      BY <2>3, <2>10, <3>2, <3>3, <3>4 DEF ScalerSynced
  <2>11. QED
    BY <2>6, <2>8, <2>9, <2>10
<1>4. CASE UNCHANGED viewVars
  BY <1>4 DEF viewVars, ScalerTypes, ScalerSynced
<1>5. QED
  BY <1>1, <1>2, <1>3, <1>4 DEF HP!Next

LEMMA BlindnessSeen == ScalerInv => HP!BlindnessShown
<1> SUFFICES ASSUME ScalerInv, past.generation = cluster.generation
             PROVE  /\ \A i \in DOMAIN HP!Targets :
                         LET m == cluster.spec[i] IN
                           HP!Targets[i] =
                             IF m.auto \/ i \notin HP!Seen THEN None ELSE past.readings[m]
                    /\ past.replicas = 0 \/ (HP!Tried /\ HP!Seen = {}) => HP!Verdict = "NO-METRICS"
                    /\ HP!Tried /\ HP!Verdict = "NO-METRICS" => HP!Seen # DOMAIN cluster.spec
                    /\ past.replicas > Hpa.replicas => HP!Verdict \in {"NO-METRICS", "MAXED"}
  BY DEF HP!BlindnessShown
<1> DEFINE spec == cluster.spec
           st == cluster.status
<1>1. HP!Verdict = IF st.active = "False" THEN "NO-METRICS"
                   ELSE IF st.current >= Hpa.replicas THEN "MAXED"
                   ELSE IF st.current # st.desired THEN "SCALING"
                   ELSE IF st.current <= HP!HpaMinReplicas THEN "AT-MIN" ELSE "OK"
  BY DEF HP!Verdict, HP!HpaVerdict, HP!ScalingInactive
<1>2. HP!Verdict = "NO-METRICS" <=> st.active = "False"
  BY <1>1
<1>3. HP!Seen = {i \in DOMAIN spec : HP!Tried /\ past.readings[spec[i]] # None}
  BY DEF HP!Seen
<1>4. Hpa.replicas \in Nat /\ past.replicas \in 0..(Hpa.replicas + 1)
  BY HpaWellFormed DEF ScalerInv, ScalerTypes, HP!Replicas
<1>5. HP!Tried <=> past.replicas # 0 /\ ~(past.replicas > Hpa.replicas)
  BY <1>4 DEF HP!Tried
<1>6. past.replicas = 0 \/ (HP!Tried /\ HP!Seen = {}) => HP!Verdict = "NO-METRICS"
  <2>1. CASE past.replicas = 0
    BY <1>2, <2>1 DEF ScalerInv, ScalerSynced
  <2>2. CASE HP!Tried /\ HP!Seen = {}
    <3>1. \A i \in DOMAIN spec : past.readings[spec[i]] = None
      BY <1>3, <2>2
    <3>2. QED
      BY <1>2, <1>5, <2>2, <3>1 DEF ScalerInv, ScalerSynced
  <2>3. QED
    BY <2>1, <2>2
<1>7. ASSUME HP!Tried, HP!Verdict = "NO-METRICS" PROVE HP!Seen # DOMAIN spec
  <2>1. \E i \in DOMAIN spec : past.readings[spec[i]] = None
    BY <1>2, <1>5, <1>7 DEF ScalerInv, ScalerSynced
  <2>2. QED
    BY <1>3, <2>1
<1>8. ASSUME past.replicas > Hpa.replicas PROVE HP!Verdict \in {"NO-METRICS", "MAXED"}
  <2>1. past.replicas # 0
    BY <1>4, <1>8
  <2>2. st.current = past.replicas
    BY <1>8, <2>1 DEF ScalerInv, ScalerSynced
  <2>3. st.current >= Hpa.replicas
    BY <1>4, <1>8, <2>2
  <2>4. QED
    BY <1>1, <2>3
<1>9. ASSUME NEW i \in DOMAIN HP!Targets
      PROVE  HP!Targets[i] = IF spec[i].auto \/ i \notin HP!Seen THEN None ELSE past.readings[spec[i]]
  <2>1. i \in DOMAIN spec
    BY <1>9 DEF HP!Targets, HP!HpaTargets
  <2>2. HP!Targets[i] = HP!Current(spec[i], HP!StatusAt(st, i))
    BY <2>1 DEF HP!Targets, HP!HpaTargets
  <2>3. CASE HP!Tried
    <3>1. HP!StatusAt(st, i) = Reported(spec[i], past.readings[spec[i]])
      BY <1>5, <2>1, <2>3 DEF HP!StatusAt, ScalerInv, ScalerSynced
    <3>2. QED
      BY <1>3, <2>1, <2>2, <2>3, <3>1 DEF HP!Current, Reported
  <2>4. CASE ~HP!Tried
    <3>1. st.metrics = <<>>
      BY <1>5, <2>4 DEF ScalerInv, ScalerSynced
    <3>2. HP!StatusAt(st, i).value = None
      BY <3>1 DEF HP!StatusAt
    <3>3. QED
      BY <1>3, <2>1, <2>2, <2>4, <3>2 DEF HP!Current
  <2>5. QED
    BY <2>3, <2>4
<1>10. QED
  BY <1>6, <1>7, <1>8, <1>9

LEMMA ScalerInvariance == Spec => [](view = "hpa" => ScalerInv)
<1>1. Init => (view = "hpa" => ScalerInv)
  BY ScalerBegins DEF Init
<1>2. (view = "hpa" => ScalerInv) /\ [Next]_vars => (view = "hpa" => ScalerInv)'
  BY OneView, ScalerSteps
<1>3. QED
  BY <1>1, <1>2, PTL DEF Spec

(* hpa shows which metrics the autoscaler could not read, and what it read  *)
(* of the others, for any metrics in any order, duplicates of a source type *)
(* included, and however many replicas there are; it says NO-METRICS when   *)
(* none could be read and, of a target within range, only when one could    *)
(* not.                                                                     *)
THEOREM BlindnessAlwaysShown == Spec => []BlindnessShown
<1>1. (view = "hpa" => ScalerInv) => BlindnessShown
  BY BlindnessSeen DEF BlindnessShown
<1>2. QED
  BY <1>1, ScalerInvariance, PTL

-----------------------------------------------------------------------------
(* rollouts. *)

(* Pods, by template. *)
Count == [RO!Templates -> Nat]

RolloutTypes ==
  /\ desired \in Nat /\ generation \in Nat \ {0}
  /\ paused \in BOOLEAN /\ shrunk \in BOOLEAN
  /\ ready \in Count /\ unready \in Count
  /\ status \in [observed : Nat, desired : Nat, ready : Nat, updated : Nat, available : Nat,
                 failed : BOOLEAN, paused : BOOLEAN]
  /\ truth \in [generation : Nat, finished : BOOLEAN]

(* What the last sync saw; of it the verdict reads the status alone. *)
Synced ==
  /\ truth.generation = status.observed /\ status.observed <= generation
  /\ truth.finished =>
       ~status.failed /\ status.ready = status.desired /\ status.updated = status.desired
  /\ status.observed = generation => status.paused = paused

(* The kinds that replace in place never have a pod too many, unless they   *)
(* are scaled down: as many ready pods as desired are all the pods.         *)
InPlace ==
  kind \notin RO!Surging =>
    /\ ~status.failed
    /\ status.observed = generation /\ kind # "DaemonSet" => status.desired = desired
    /\ ~shrunk =>
         /\ RO!Pods <= desired
         /\ status.observed > 0 /\ status.ready >= status.desired
              /\ status.updated >= status.desired => truth.finished

RolloutInv == RolloutTypes /\ Synced /\ InPlace

LEMMA RolloutBegins == RO!Init => RolloutInv
<1> SUFFICES ASSUME RO!Init PROVE RolloutInv
  OBVIOUS
<1> DEFINE new(n) == [RO!NoPods EXCEPT !.new = n]
<1>1. desired \in Nat \ {0} /\ generation = 1 /\ paused = FALSE /\ shrunk = FALSE
      /\ unready = RO!NoPods
  BY DEF RO!Init
<1>a. paused \in BOOLEAN /\ shrunk \in BOOLEAN
  BY <1>1, Zenon
<1>2. /\ new(desired) \in Count /\ new(desired).new = desired /\ new(desired).old = 0
      /\ RO!NoPods \in Count /\ RO!NoPods.new = 0 /\ RO!NoPods.old = 0
  BY <1>1 DEF Count, RO!Templates, RO!NoPods
<1> HIDE DEF new
<1>3. CASE ready = RO!NoPods /\ status = RO!Unobserved
           /\ truth = [generation |-> 0, finished |-> FALSE]
  <2>1. status \in [observed : Nat, desired : Nat, ready : Nat, updated : Nat, available : Nat,
                    failed : BOOLEAN, paused : BOOLEAN]
    BY <1>3 DEF RO!Unobserved
  <2>2. truth \in [generation : Nat, finished : BOOLEAN]
    BY <1>3
  <2>3. RolloutTypes
    BY <1>a, <1>1, <1>2, <1>3, <2>1, <2>2 DEF RolloutTypes
  <2>4. RO!Pods = 0
    BY <1>1, <1>2, <1>3 DEF RO!Pods, RO!Ready, RO!Unready
  <2>5. Synced /\ InPlace
    BY <1>1, <1>3, <2>4 DEF Synced, InPlace, RO!Unobserved
  <2>6. QED
    BY <2>3, <2>5 DEF RolloutInv
<1>4. CASE /\ ready = new(desired)
           /\ status = [RO!Unobserved EXCEPT !.observed = 1, !.desired = desired,
                          !.ready = desired, !.updated = desired, !.available = desired]
           /\ truth = [generation |-> 1, finished |-> TRUE]
  <2>1. status = [observed |-> 1, desired |-> desired, ready |-> desired, updated |-> desired,
                  available |-> desired, failed |-> FALSE, paused |-> FALSE]
    BY <1>4, Zenon DEF RO!Unobserved
  <2>2. status \in [observed : Nat, desired : Nat, ready : Nat, updated : Nat, available : Nat,
                    failed : BOOLEAN, paused : BOOLEAN]
    BY <1>1, <2>1
  <2>3. truth \in [generation : Nat, finished : BOOLEAN]
    BY <1>4
  <2>4. RO!Pods = desired /\ ready \in Count /\ unready \in Count
    BY <1>1, <1>2, <1>4 DEF RO!Pods, RO!Ready, RO!Unready
  <2>5. RolloutTypes
    BY <1>a, <1>1, <2>2, <2>3, <2>4 DEF RolloutTypes
  <2>6. Synced /\ InPlace
    <3>1. status.paused = paused
      BY <1>1, <2>1, Zenon
    <3>2. /\ status.observed = 1 /\ ~status.failed
          /\ status.ready = desired /\ status.updated = desired /\ status.desired = desired
      BY <2>1
    <3>3. truth.generation = 1 /\ truth.finished
      BY <1>4, Zenon
    <3>4. QED
      BY <1>1, <2>4, <3>1, <3>2, <3>3 DEF Synced, InPlace
  <2>7. QED
    BY <2>5, <2>6 DEF RolloutInv
<1>5. QED
  BY <1>3, <1>4 DEF RO!Init, new

(* An edit that bumps the generation leaves the last sync behind. *)
LEMMA RolloutEdited ==
  ASSUME RolloutInv, UNCHANGED <<kind, status, truth>>,
         generation' = generation + 1, paused' \in BOOLEAN, shrunk' \in BOOLEAN,
         desired' \in Nat, ready' \in Count, unready' \in Count,
         ~shrunk' => ~shrunk /\ desired <= desired',
         RO!Pods' = RO!Pods
  PROVE  RolloutInv'
<1>1. RolloutTypes'
  BY DEF RolloutInv, RolloutTypes
<1>2. status.observed \in Nat /\ generation \in Nat /\ desired \in Nat /\ RO!Pods \in Nat
  BY DEF RolloutInv, RolloutTypes, Count, RO!Templates, RO!Pods, RO!Ready, RO!Unready
<1>3. Synced'
  BY <1>2 DEF RolloutInv, Synced
<1>4. InPlace'
  BY <1>2 DEF RolloutInv, InPlace, Synced, RO!Surging
<1>5. QED
  BY <1>1, <1>3, <1>4 DEF RolloutInv

(* The controller and the kubelet change the pods alone, and where pods are *)
(* replaced in place never beyond what is desired.                          *)
LEMMA RolloutControlled ==
  ASSUME RolloutInv, NEW r \in Count, NEW u \in Count, RO!Controller(r, u),
         r.new + r.old + u.new + u.old <= RO!Pods \/ (kind \notin RO!Surging =>
           r.new + r.old + u.new + u.old <= desired)
  PROVE  RolloutInv'
<1>1. /\ ready' = r /\ unready' = u
      /\ UNCHANGED <<kind, desired, paused, generation, edits, shrunk, status, truth>>
  BY DEF RO!Controller, RO!specVars
<1>2. RolloutTypes' /\ Synced'
  BY <1>1 DEF RolloutInv, RolloutTypes, Synced
<1>3. RO!Pods' = r.new + r.old + u.new + u.old /\ RO!Pods' \in Nat
  BY <1>1 DEF Count, RO!Templates, RO!Pods, RO!Ready, RO!Unready
<1>4. RO!Pods \in Nat /\ desired \in Nat
  BY DEF RolloutInv, RolloutTypes, Count, RO!Templates, RO!Pods, RO!Ready, RO!Unready
<1>5. InPlace'
  BY <1>1, <1>3, <1>4 DEF RolloutInv, InPlace, RO!Surging
<1>6. QED
  BY <1>2, <1>5 DEF RolloutInv

LEMMA RolloutSteps ==
  ASSUME RolloutInv, RO!Next \/ UNCHANGED rolloutVars
  PROVE  RolloutInv'
<1> DEFINE rn == ready.new
           rr == ready.old
           un == unready.new
           ur == unready.old
<1>1. /\ rn \in Nat /\ rr \in Nat /\ un \in Nat /\ ur \in Nat
      /\ desired \in Nat /\ generation \in Nat
      /\ RO!Pods = rn + rr + un + ur
  BY DEF RolloutInv, RolloutTypes, Count, RO!Templates, RO!Pods, RO!Ready, RO!Unready
<1>2. CASE RO!EditTemplate
  <2>1. PICK r \in 0..rr, u \in 0..ur :
          /\ ready' = [new |-> r, old |-> RO!Ready - r]
          /\ unready' = [new |-> u, old |-> RO!Unready - u]
    BY <1>2 DEF RO!EditTemplate
  <2>2. /\ ready' \in Count /\ unready' \in Count
        /\ RO!Pods' = rn + rr + un + ur
    BY <1>1, <2>1 DEF Count, RO!Templates, RO!Pods, RO!Ready, RO!Unready
  <2>3. QED
    BY <1>1, <1>2, <2>2, RolloutEdited
    DEF RO!EditTemplate, RO!Edited, RolloutInv, RolloutTypes
<1>3. CASE RO!Scale
  <2>1. PICK n \in 0..MaxDesired : desired' = n /\ shrunk' = (shrunk \/ n < desired)
    BY <1>3 DEF RO!Scale
  <2>2. /\ desired' \in Nat /\ shrunk' \in BOOLEAN /\ (~shrunk' => ~shrunk /\ desired <= desired')
        /\ UNCHANGED <<kind, status, truth, paused, ready, unready>>
    <3>1. n \in Nat /\ (~(n < desired) => desired <= n) /\ shrunk \in BOOLEAN
      BY <1>1 DEF RolloutInv, RolloutTypes
    <3>2. UNCHANGED <<kind, status, truth, paused, ready, unready>>
      BY <1>3 DEF RO!Scale, RO!Edited, RO!podVars
    <3>3. QED
      BY <2>1, <3>1, <3>2, Zenon
  <2>3. CASE kind = "DaemonSet"
    <3>1. generation' = generation
      BY <1>3, <2>3 DEF RO!Scale
    <3>2. RolloutTypes' /\ Synced'
      BY <2>2, <3>1 DEF RolloutInv, RolloutTypes, Synced
    <3>3. InPlace'
      BY <1>1, <2>2, <2>3, <3>1
      DEF RolloutInv, InPlace, RO!Surging, RO!Pods, RO!Ready, RO!Unready
    <3>4. QED
      BY <3>2, <3>3 DEF RolloutInv
  <2>4. CASE kind # "DaemonSet"
    <3>1. generation' = generation + 1 /\ RO!Pods' = RO!Pods
      BY <1>3, <2>2, <2>4 DEF RO!Scale, RO!Pods, RO!Ready, RO!Unready
    <3>2. QED
      BY <2>2, <3>1, RolloutEdited DEF RolloutInv, RolloutTypes
  <2>5. QED
    BY <2>3, <2>4
<1>4. CASE RO!PauseResume
  <2>1. /\ generation' = generation + 1 /\ paused' \in BOOLEAN
        /\ UNCHANGED <<kind, status, truth, ready, unready, desired, shrunk>>
    BY <1>4 DEF RO!PauseResume, RO!Edited, RO!podVars, RolloutInv, RolloutTypes
  <2>2. RO!Pods' = RO!Pods
    BY <2>1 DEF RO!Pods, RO!Ready, RO!Unready
  <2>3. QED
    BY <1>1, <2>1, <2>2, RolloutEdited DEF RolloutInv, RolloutTypes
<1>5. CASE RO!Create
  <2> DEFINE u == [unready EXCEPT !.new = @ + 1]
  <2>1. RO!Controller(ready, u)
    BY <1>5 DEF RO!Create
  <2>2. ready \in Count /\ u \in Count /\ u.new = un + 1 /\ u.old = ur
    BY DEF RolloutInv, RolloutTypes, Count, RO!Templates
  <2>3. kind \notin RO!Surging => rn + rr + u.new + u.old <= desired
    BY <1>1, <1>5, <2>2 DEF RO!Create
  <2> HIDE DEF u
  <2>4. QED
    BY <2>1, <2>2, <2>3, RolloutControlled
<1>6. ASSUME NEW t \in RO!Templates,
             RO!RemoveReady(t) \/ RO!RemoveUnready(t) \/ RO!BecomeReady(t) \/ RO!Crash(t)
      PROVE  RolloutInv'
  <2> DEFINE less(x) == [x EXCEPT ![t] = @ - 1]
             more(x) == [x EXCEPT ![t] = @ + 1]
  <2>a. ASSUME NEW x \in Count, x[t] > 0
        PROVE  less(x) \in Count /\ less(x).new + less(x).old = x.new + x.old - 1
    BY <2>a DEF Count, RO!Templates
  <2>b. ASSUME NEW x \in Count
        PROVE  more(x) \in Count /\ more(x).new + more(x).old = x.new + x.old + 1
    BY DEF Count, RO!Templates
  <2>c. ready \in Count /\ unready \in Count
    BY DEF RolloutInv, RolloutTypes
  <2>d. \A x \in Count : x.new \in Nat /\ x.old \in Nat
    BY DEF Count, RO!Templates
  <2>1. PICK r \in Count, u \in Count :
          RO!Controller(r, u) /\ r.new + r.old + u.new + u.old <= RO!Pods
    <3>1. CASE RO!RemoveReady(t)
      <4>1. ready[t] > 0 /\ RO!Controller(less(ready), unready)
        BY <3>1 DEF RO!RemoveReady
      <4> HIDE DEF less, more
      <4>2. QED
        BY <1>1, <2>a, <2>c, <2>d, <4>1
    <3>2. CASE RO!RemoveUnready(t)
      <4>1. unready[t] > 0 /\ RO!Controller(ready, less(unready))
        BY <3>2 DEF RO!RemoveUnready
      <4> HIDE DEF less, more
      <4>2. QED
        BY <1>1, <2>a, <2>c, <2>d, <4>1
    <3>3. CASE RO!BecomeReady(t)
      <4>1. unready[t] > 0 /\ RO!Controller(more(ready), less(unready))
        BY <3>3 DEF RO!BecomeReady
      <4> HIDE DEF less, more
      <4>2. QED
        BY <1>1, <2>a, <2>b, <2>c, <2>d, <4>1
    <3>4. CASE RO!Crash(t)
      <4>1. ready[t] > 0 /\ RO!Controller(less(ready), more(unready))
        BY <3>4 DEF RO!Crash
      <4> HIDE DEF less, more
      <4>2. QED
        BY <1>1, <2>a, <2>b, <2>c, <2>d, <4>1
    <3>5. QED
      BY <1>6, <3>1, <3>2, <3>3, <3>4
  <2>2. QED
    BY <2>1, RolloutControlled
<1>7. CASE RO!Sync
  <2>1. PICK a \in {0, RO!Ready}, f \in BOOLEAN :
          /\ f => kind \in RO!Surging /\ ~RO!Finished
          /\ status' = [observed |-> generation, desired |-> desired,
                        ready |-> RO!Ready, updated |-> rn + un,
                        available |-> a, failed |-> f, paused |-> paused]
    BY <1>7 DEF RO!Sync
  <2>2. truth' = [generation |-> generation, finished |-> RO!Finished]
        /\ UNCHANGED <<kind, desired, paused, generation, edits, shrunk, ready, unready>>
    BY <1>7 DEF RO!Sync, RO!specVars, RO!podVars
  <2>3. RO!Ready = rn + rr /\ RO!Ready \in Nat /\ RO!Finished \in BOOLEAN
        /\ (RO!Finished <=> rn = desired /\ rn + rr + un + ur = desired)
    BY <1>1 DEF RO!Ready, RO!Finished
  <2>4. RolloutTypes'
    BY <1>1, <2>1, <2>2, <2>3 DEF RolloutInv, RolloutTypes
  <2>5. Synced'
    BY <1>1, <2>1, <2>2, <2>3 DEF Synced
  <2>6. UNCHANGED RO!Pods
    BY <2>2 DEF RO!Pods, RO!Ready, RO!Unready
  <2>7. InPlace'
    BY <1>1, <2>1, <2>2, <2>3, <2>6 DEF RolloutInv, InPlace
  <2>8. QED
    BY <2>4, <2>5, <2>7 DEF RolloutInv
<1>8. CASE UNCHANGED rolloutVars
  BY <1>8
  DEF rolloutVars, RolloutInv, RolloutTypes, Synced, InPlace, RO!Pods, RO!Ready, RO!Unready
<1>9. QED
  BY <1>2, <1>3, <1>4, <1>5, <1>6, <1>7, <1>8 DEF RO!Next

LEMMA VerdictTrue == RolloutInv => RO!VerdictMeansFinished
<1> SUFFICES ASSUME RolloutInv PROVE RO!VerdictMeansFinished
  OBVIOUS
<1> DEFINE current == truth = [generation |-> generation, finished |-> TRUE]
           row == RO!Row
<1>1. /\ generation \in Nat \ {0} /\ desired \in Nat /\ truth.finished \in BOOLEAN
      /\ status.observed \in Nat /\ status.desired \in Nat /\ status.ready \in Nat
      /\ status.updated \in Nat /\ status.available \in Nat
      /\ truth = [generation |-> truth.generation, finished |-> truth.finished]
  BY DEF RolloutInv, RolloutTypes
<1>2. ASSUME current, ~paused, desired > 0, status.desired = desired, status.available > 0
      PROVE  RO!Verdict(row) = "OK"
  <2>1. /\ ~status.failed /\ status.observed = generation /\ ~status.paused
        /\ status.ready = desired /\ status.updated = desired
    BY <1>1, <1>2 DEF RolloutInv, Synced
  <2>2. /\ row.desired = desired /\ row.ready = desired /\ row.updated = desired
        /\ row.available = status.available
    BY <1>2, <2>1 DEF RO!Row
  <2>3. ~row.paused /\ ~row.degraded
    BY <1>2, <2>1, Zenon DEF RO!Row
  <2>4. RO!Observed
    BY <1>1, <2>1 DEF RO!Observed
  <2>5. row.observed
    BY <2>4, Zenon DEF RO!Row
  <2>6. QED
    BY <1>1, <1>2, <2>2, <2>3, <2>5 DEF RO!Verdict, RO!Rolling
<1>3. ASSUME kind \notin RO!Surging, ~shrunk, RO!Verdict(row) = "OK"
      PROVE  current
  <2>1. row.observed /\ row.ready >= row.desired /\ row.updated >= row.desired
    <3>1. row.ready \in Nat /\ row.desired \in Nat /\ row.updated \in Nat
      BY <1>1 DEF RO!Row
    <3>2. QED
      BY <1>3, <3>1 DEF RO!Verdict, RO!Rolling
  <2>2. status.observed = generation
    <3>1. row.observed <=> RO!Observed
      BY Zenon DEF RO!Row
    <3>2. QED
      BY <1>1, <1>3, <2>1, <3>1 DEF RO!Observed, RO!Surging, RolloutInv, Synced
  <2>3. row.desired = status.desired /\ row.ready = status.ready /\ row.updated = status.updated
    BY <1>3, <2>2 DEF RO!Row, RolloutInv, InPlace
  <2>4. truth.finished
    BY <1>1, <1>3, <2>1, <2>2, <2>3 DEF RolloutInv, InPlace
  <2>5. QED
    BY <1>1, <2>2, <2>4 DEF RolloutInv, Synced
<1>4. QED
  BY <1>2, <1>3 DEF RO!VerdictMeansFinished

LEMMA RolloutInvariance == Spec => [](view = "rollouts" => RolloutInv)
<1>1. Init => (view = "rollouts" => RolloutInv)
  BY RolloutBegins DEF Init
<1>2. (view = "rollouts" => RolloutInv) /\ [Next]_vars => (view = "rollouts" => RolloutInv)'
  BY OneView, RolloutSteps
<1>3. QED
  BY <1>1, <1>2, PTL DEF Spec

(* rollouts raises no false alarm, and for the kinds that replace in place  *)
(* OK means the current spec is rolled out to the last pod, for any number  *)
(* of replicas, edits, syncs and crashes.                                   *)
THEOREM VerdictsMeanFinished == Spec => []VerdictMeansFinished
<1>1. (view = "rollouts" => RolloutInv) => VerdictMeansFinished
  BY VerdictTrue DEF VerdictMeansFinished
<1>2. QED
  BY <1>1, RolloutInvariance, PTL

-----------------------------------------------------------------------------
(* terminating. *)

(* An object that may be being deleted, asked for by time now. *)
Dated(x, now) ==
  /\ x = [phase |-> x.phase, asked |-> x.asked, grace |-> x.grace, finalizer |-> x.finalizer,
          scheduled |-> x.scheduled, condition |-> x.condition]
  /\ x.asked \in 0..now /\ x.grace \in Terminating.graces \cup {None}

DeletionTypes ==
  /\ cluster = [now |-> cluster.now, changes |-> cluster.changes,
                nodeReady |-> cluster.nodeReady, pod |-> cluster.pod,
                namespace |-> cluster.namespace]
  /\ cluster.now \in 0..Terminating.time /\ cluster.nodeReady \in BOOLEAN
  /\ Dated(cluster.pod, cluster.now) /\ Dated(cluster.namespace, cluster.now)
  /\ lists = [pods |-> lists.pods, nodes |-> lists.nodes, namespaces |-> lists.namespaces,
              rows |-> lists.rows]

(* What was read was asked for before now, and a node read as not ready was *)
(* so at some moment.                                                       *)
DeletionReads ==
  /\ past.nodeDown \in BOOLEAN
  /\ ~cluster.nodeReady => past.nodeDown
  /\ Known(lists.pods) => Dated(lists.pods, cluster.now)
  /\ Known(lists.namespaces) => Dated(lists.namespaces, cluster.now)
  /\ Known(lists.nodes) /\ lists.nodes = "not ready" => past.nodeDown

DeletionInv == DeletionTypes /\ DeletionReads /\ TM!DeletionsGraded

(* The cluster, by its parts. *)
DeletionNow(t, n, up, pod, namespace) ==
  [now |-> t, changes |-> n, nodeReady |-> up, pod |-> pod, namespace |-> namespace]

LEMMA DeletionBegins == TM!Init => DeletionInv
<1> SUFFICES ASSUME TM!Init PROVE DeletionInv
  OBVIOUS
<1>1. PICK s \in BOOLEAN, up \in BOOLEAN, f \in BOOLEAN :
        cluster = [now |-> 0, changes |-> 0, nodeReady |-> up,
                   pod |-> [TM!Alive EXCEPT !.scheduled = s, !.finalizer = f],
                   namespace |-> [TM!Alive EXCEPT !.finalizer = f]]
  BY Zenon DEF TM!Init
<1>2. /\ lists = [pods |-> Unread, nodes |-> Unread, namespaces |-> Unread, rows |-> Unread]
      /\ past = [nodeDown |-> ~cluster.nodeReady]
  BY DEF TM!Init
<1>3. Dated(cluster.pod, 0) /\ Dated(cluster.namespace, 0)
  <2>1. cluster.pod = [phase |-> "alive", asked |-> 0, grace |-> None, finalizer |-> f,
                       scheduled |-> s, condition |-> FALSE]
    BY <1>1, Zenon DEF TM!Alive
  <2>2. cluster.namespace = [phase |-> "alive", asked |-> 0, grace |-> None, finalizer |-> f,
                             scheduled |-> FALSE, condition |-> FALSE]
    BY <1>1, Zenon DEF TM!Alive
  <2>3. Dated(cluster.pod, 0)
    BY <2>1 DEF Dated
  <2>4. Dated(cluster.namespace, 0)
    BY <2>2 DEF Dated
  <2>5. QED
    BY <2>3, <2>4
<1>4. DeletionTypes
  BY <1>1, <1>2, <1>3, TerminatingWellFormed DEF DeletionTypes
<1>5. past.nodeDown \in BOOLEAN /\ (~cluster.nodeReady => past.nodeDown)
  BY <1>2, Zenon
<1>6. DeletionReads /\ TM!DeletionsGraded
  BY <1>2, <1>5 DEF DeletionReads, TM!DeletionsGraded, Known
<1>7. QED
  BY <1>4, <1>6 DEF DeletionInv

(* Time passes over what was asked for. *)
LEMMA DatedLater ==
  ASSUME NEW t \in Nat, NEW x, Dated(x, t)
  PROVE  Dated(x, t + 1)
BY DEF Dated

(* What it takes to be one, and the edits that leave it one. *)
LEMMA DatedRow ==
  ASSUME NEW t \in Nat, NEW ph, NEW a \in 0..t, NEW g \in Terminating.graces \cup {None},
         NEW f, NEW s, NEW c, NEW y,
         y = [phase |-> ph, asked |-> a, grace |-> g, finalizer |-> f, scheduled |-> s,
              condition |-> c]
  PROVE  Dated(y, t)
<1>1. y.phase = ph /\ y.asked = a /\ y.grace = g /\ y.finalizer = f /\ y.scheduled = s
      /\ y.condition = c
  OBVIOUS
<1>2. QED
  BY <1>1, Zenon DEF Dated

LEMMA DatedEdits ==
  ASSUME NEW t \in Nat, NEW x, Dated(x, t),
         NEW g \in Terminating.graces \cup {None}, NEW y,
         \/ y = [x EXCEPT !.phase = "deleting", !.asked = t, !.grace = g]
         \/ y = [x EXCEPT !.phase = "deleting", !.asked = t]
         \/ y = [x EXCEPT !.grace = g]
         \/ y = [x EXCEPT !.phase = "gone"]
         \/ y = [x EXCEPT !.finalizer = FALSE]
         \/ y = [x EXCEPT !.condition = ~x.condition]
  PROVE  Dated(y, t)
<1>1. x = [phase |-> x.phase, asked |-> x.asked, grace |-> x.grace, finalizer |-> x.finalizer,
           scheduled |-> x.scheduled, condition |-> x.condition]
      /\ x.asked \in 0..t /\ x.grace \in Terminating.graces \cup {None}
  BY DEF Dated
<1>2. t \in 0..t
  OBVIOUS
<1>3. PICK ph, a, h, f, c :
        /\ y = [phase |-> ph, asked |-> a, grace |-> h, finalizer |-> f,
                scheduled |-> x.scheduled, condition |-> c]
        /\ a \in {x.asked, t} /\ h \in {x.grace, g}
  <2>1. CASE y = [x EXCEPT !.phase = "deleting", !.asked = t, !.grace = g]
    <3>1. y = [phase |-> "deleting", asked |-> t, grace |-> g,
             finalizer |-> x.finalizer, scheduled |-> x.scheduled, condition |-> x.condition]
      BY <1>1, <2>1, Zenon
    <3>2. QED
      BY <3>1, Zenon
  <2>2. CASE y = [x EXCEPT !.phase = "deleting", !.asked = t]
    <3>1. y = [phase |-> "deleting", asked |-> t, grace |-> x.grace,
             finalizer |-> x.finalizer, scheduled |-> x.scheduled, condition |-> x.condition]
      BY <1>1, <2>2, Zenon
    <3>2. QED
      BY <3>1, Zenon
  <2>3. CASE y = [x EXCEPT !.grace = g]
    <3>1. y = [phase |-> x.phase, asked |-> x.asked, grace |-> g,
             finalizer |-> x.finalizer, scheduled |-> x.scheduled, condition |-> x.condition]
      BY <1>1, <2>3
    <3>2. QED
      BY <3>1, Zenon
  <2>4. CASE y = [x EXCEPT !.phase = "gone"]
    <3>1. y = [phase |-> "gone", asked |-> x.asked, grace |-> x.grace,
             finalizer |-> x.finalizer, scheduled |-> x.scheduled, condition |-> x.condition]
      BY <1>1, <2>4
    <3>2. QED
      BY <3>1, Zenon
  <2>5. CASE y = [x EXCEPT !.finalizer = FALSE]
    <3>1. y = [phase |-> x.phase, asked |-> x.asked, grace |-> x.grace,
             finalizer |-> FALSE, scheduled |-> x.scheduled, condition |-> x.condition]
      BY <1>1, <2>5, Zenon
    <3>2. QED
      BY <3>1, Zenon
  <2>6. CASE y = [x EXCEPT !.condition = ~x.condition]
    <3>1. y = [phase |-> x.phase, asked |-> x.asked, grace |-> x.grace,
             finalizer |-> x.finalizer, scheduled |-> x.scheduled, condition |-> ~x.condition]
      BY <1>1, <2>6
    <3>2. QED
      BY <3>1, Zenon
  <2>7. QED
    BY <2>1, <2>2, <2>3, <2>4, <2>5, <2>6
<1>4. a \in 0..t /\ h \in Terminating.graces \cup {None}
  BY <1>1, <1>2, <1>3, Zenon
<1>5. QED
  BY <1>3, <1>4, DatedRow

(* The world changes, at one time. *)
LEMMA DeletionMoves ==
  ASSUME DeletionInv, NEW pod, Dated(pod, cluster.now), NEW namespace,
         Dated(namespace, cluster.now), NEW up \in BOOLEAN, NEW n,
         NEW c, c = DeletionNow(cluster.now, n, up, pod, namespace), TM!World(c)
  PROVE  DeletionInv'
<1>1. cluster' = DeletionNow(cluster.now, cluster.changes + 1, up, pod, namespace)
  BY DEF TM!World, DeletionNow
<1>2. past' = [nodeDown |-> past.nodeDown \/ ~up] /\ lists' = lists
  BY DEF TM!World, DeletionNow
<1>3. DeletionTypes'
  BY <1>1, <1>2 DEF DeletionInv, DeletionTypes, DeletionNow
<1>4. /\ past'.nodeDown \in BOOLEAN
      /\ (past.nodeDown => past'.nodeDown) /\ (~up => past'.nodeDown)
  BY <1>2, Zenon
<1>5. DeletionReads'
  BY <1>1, <1>2, <1>4, Zenon DEF DeletionInv, DeletionReads, DeletionNow, Known
<1>6. TM!DeletionsGraded'
  BY <1>2, <1>4, Zenon DEF DeletionInv, TM!DeletionsGraded, TM!Age, TM!Grace
<1>7. QED
  BY <1>3, <1>5, <1>6 DEF DeletionInv

(* A list is read. *)
LEMMA DeletionListed ==
  ASSUME DeletionInv, UNCHANGED <<cluster, past>>, NEW p, NEW n, NEW s,
         lists' = [pods |-> p, nodes |-> n, namespaces |-> s, rows |-> lists.rows],
         Known(p) => Dated(p, cluster.now), Known(s) => Dated(s, cluster.now),
         Known(n) /\ n = "not ready" => past.nodeDown
  PROVE  DeletionInv'
<1>1. DeletionTypes'
  BY Zenon DEF DeletionInv, DeletionTypes
<1>2. DeletionReads'
  BY Zenon DEF DeletionInv, DeletionReads
<1>3. TM!DeletionsGraded'
  BY Zenon DEF DeletionInv, TM!DeletionsGraded, TM!Age, TM!Grace
<1>4. QED
  BY <1>1, <1>2, <1>3, Zenon DEF DeletionInv

(* The grades, of one deletion. *)
LEMMA GradesTrue ==
  ASSUME NEW x, NEW t \in Nat, cluster.now = t, Dated(x, t)
  PROVE  LET pending == t - x.asked
             grace == IF x.grace = None THEN 0 ELSE x.grace
             verdict == TM!TerminatingVerdict(x)
         IN  /\ pending < grace => verdict = "GRACE"
             /\ verdict = "STUCK" => pending >= grace + Terminating.stuckAfter
             /\ pending >= 2 * grace + Terminating.stuckAfter => verdict = "STUCK"
<1> DEFINE a == x.asked
           g == x.grace
           S == Terminating.stuckAfter
           v == TM!TerminatingVerdict(x)
<1>1. a \in Nat /\ a <= t /\ S \in Nat
  BY TerminatingWellFormed DEF Dated
<1>2. CASE g = None
  <2>1. v = IF t - a < S THEN "DELETING" ELSE "STUCK"
    BY <1>2 DEF TM!TerminatingVerdict, TM!InGrace, TM!Elapsed, TM!Stamp
  <2> HIDE DEF a, g, S, v
  <2>2. (v = "STUCK" => t - a >= S) /\ (t - a >= S => v = "STUCK") /\ t - a >= 0
    BY <1>1, <2>1
  <2>3. QED
    BY <1>1, <1>2, <2>2 DEF a, g, S, v
<1>3. CASE g # None
  <2>1. g \in Nat
    BY <1>3, TerminatingWellFormed DEF Dated
  <2>2. v = IF t - (a + g) < g THEN "GRACE"
            ELSE IF t - (a + g) < S THEN "DELETING" ELSE "STUCK"
    BY <1>3 DEF TM!TerminatingVerdict, TM!InGrace, TM!Elapsed, TM!Stamp
  <2> HIDE DEF a, g, S, v
  <2>3. /\ t - a < g => v = "GRACE"
        /\ v = "STUCK" => t - a >= g + S
        /\ t - a >= 2 * g + S => v = "STUCK"
    BY <1>1, <2>1, <2>2
  <2>4. QED
    BY <1>3, <2>3 DEF a, g, S, v
<1>4. QED
  BY <1>2, <1>3

LEMMA DeletionRenders == DeletionInv /\ TM!Render => DeletionInv'
<1> SUFFICES ASSUME DeletionInv, TM!Render PROVE DeletionInv'
  OBVIOUS
<1> DEFINE out == IF TM!AnyFailed THEN Failed ELSE TM!Rows
<1>1. /\ lists' = [pods |-> lists.pods, nodes |-> lists.nodes,
                   namespaces |-> lists.namespaces, rows |-> out]
      /\ UNCHANGED <<cluster, past>>
  BY DEF TM!Render, DeletionInv, DeletionTypes
<1>2. DeletionTypes' /\ DeletionReads'
  BY <1>1, Zenon DEF DeletionInv, DeletionTypes, DeletionReads
<1>3. ASSUME ~TM!AnyFailed, NEW r \in TM!Rows
      PROVE  /\ TM!Age(r) < TM!Grace(r) => r.verdict = "GRACE"
             /\ r.verdict = "STUCK" => TM!Age(r) >= TM!Grace(r) + Terminating.stuckAfter
             /\ TM!Age(r) >= 2 * TM!Grace(r) + Terminating.stuckAfter => r.verdict = "STUCK"
             /\ r.blocker = "node not ready" => r.of.scheduled /\ past.nodeDown
  <2>1. Known(lists.pods) /\ Known(lists.nodes) /\ Known(lists.namespaces)
    BY <1>3 DEF TM!Render, TM!AllRead, TM!AnyFailed, Known
  <2>2. PICK x : /\ Dated(x, cluster.now)
                 /\ r.of = x /\ r.at = cluster.now /\ r.verdict = TM!TerminatingVerdict(x)
                 /\ r.blocker = "node not ready" => x.scheduled /\ lists.nodes = "not ready"
    <3>1. CASE \E x \in {lists.pods} :
                 r = [kind |-> "Pod", of |-> x, at |-> cluster.now,
                      verdict |-> TM!TerminatingVerdict(x), blocker |-> TM!PodBlocker(x)]
      <4>1. r.blocker = TM!PodBlocker(lists.pods)
        BY <3>1
      <4>2. r.blocker = "node not ready" => lists.pods.scheduled /\ lists.nodes = "not ready"
        BY <4>1, Zenon DEF TM!PodBlocker
      <4>3. r.of = lists.pods /\ r.at = cluster.now
            /\ r.verdict = TM!TerminatingVerdict(lists.pods)
        BY <3>1
      <4>4. Dated(lists.pods, cluster.now)
        BY <2>1, Zenon DEF DeletionInv, DeletionReads
      <4>5. QED
        BY <4>2, <4>3, <4>4, Zenon
    <3>2. CASE \E x \in {lists.namespaces} :
                 r = [kind |-> "Namespace", of |-> x, at |-> cluster.now,
                      verdict |-> TM!TerminatingVerdict(x), blocker |-> TM!NamespaceBlocker(x)]
      <4>1. r.blocker = TM!NamespaceBlocker(lists.namespaces)
        BY <3>2
      <4>2. r.blocker # "node not ready"
        BY <4>1 DEF TM!NamespaceBlocker
      <4>3. r.of = lists.namespaces /\ r.at = cluster.now
            /\ r.verdict = TM!TerminatingVerdict(lists.namespaces)
        BY <3>2
      <4>4. Dated(lists.namespaces, cluster.now)
        BY <2>1, Zenon DEF DeletionInv, DeletionReads
      <4>5. QED
        BY <4>2, <4>3, <4>4, Zenon
    <3>3. QED
      BY <3>1, <3>2, Zenon DEF TM!Rows
  <2>3. cluster.now \in Nat
    BY DEF DeletionInv, DeletionTypes
  <2>4. TM!Age(r) = cluster.now - x.asked
        /\ TM!Grace(r) = IF x.grace = None THEN 0 ELSE x.grace
    BY <2>2, Zenon DEF TM!Age, TM!Grace
  <2>5. r.blocker = "node not ready" => r.of.scheduled /\ past.nodeDown
    BY <2>1, <2>2, Zenon DEF DeletionInv, DeletionReads
  <2>6. QED
    BY <2>2, <2>3, <2>4, <2>5, GradesTrue, Zenon
<1>4. TM!DeletionsGraded'
  <2>1. lists'.rows = out /\ past' = past
    BY <1>1
  <2>2. \A r : TM!Age(r)' = TM!Age(r) /\ TM!Grace(r)' = TM!Grace(r)
    BY DEF TM!Age, TM!Grace
  <2>3. QED
    BY <1>3, <2>1, <2>2, Zenon DEF TM!DeletionsGraded
<1>5. QED
  BY <1>2, <1>4 DEF DeletionInv

LEMMA DeletionSteps ==
  ASSUME DeletionInv, TM!Next \/ UNCHANGED viewVars
  PROVE  DeletionInv'
<1> DEFINE now == cluster.now
           pod == cluster.pod
           space == cluster.namespace
           up == cluster.nodeReady
           n == cluster.changes
<1>1. DeletionTypes
  BY DEF DeletionInv
<1>a. /\ now \in Nat /\ up \in BOOLEAN /\ (~up) \in BOOLEAN
      /\ Dated(pod, now) /\ Dated(space, now)
      /\ cluster = DeletionNow(now, n, up, pod, space)
  BY <1>1 DEF DeletionTypes, DeletionNow
<1>2. CASE TM!Tick
  <2>1. /\ cluster' = DeletionNow(now + 1, n, up, pod, space) /\ UNCHANGED <<lists, past>>
        /\ now < Terminating.time
    BY <1>1, <1>2 DEF TM!Tick, DeletionTypes, DeletionNow
  <2>2. \A x : Dated(x, now) => Dated(x, now + 1)
    BY <1>a, DatedLater
  <2>3. DeletionTypes'
    BY <1>1, <1>a, <2>1, <2>2, TerminatingWellFormed DEF DeletionTypes, DeletionNow
  <2>4. DeletionReads' /\ TM!DeletionsGraded'
    BY Zenon, <2>1, <2>2
    DEF DeletionInv, DeletionReads, DeletionNow, TM!DeletionsGraded, TM!Age, TM!Grace
  <2>5. QED
    BY <2>3, <2>4 DEF DeletionInv
<1>3. ASSUME NEW p, Dated(p, now), TM!Pod(p) PROVE DeletionInv'
  <2>1. [cluster EXCEPT !.pod = p] = DeletionNow(now, n, up, p, space)
    BY <1>a DEF DeletionNow
  <2>2. QED
    BY <1>3, <1>a, <2>1, DeletionMoves DEF TM!Pod
<1>4. ASSUME NEW s, Dated(s, now), TM!Namespace(s) PROVE DeletionInv'
  <2>1. [cluster EXCEPT !.namespace = s] = DeletionNow(now, n, up, pod, s)
    BY <1>a DEF DeletionNow
  <2>2. QED
    BY <1>4, <1>a, <2>1, DeletionMoves DEF TM!Namespace
<1>5. CASE TM!DeletePod \/ TM!HurryPod \/ TM!PodGone \/ TM!ClearFinalizer
  <2>1. CASE TM!DeletePod
    <3>1. PICK g \in Terminating.graces :
            TM!Pod([pod EXCEPT !.phase = "deleting", !.asked = now, !.grace = g])
      BY <2>1, Zenon DEF TM!DeletePod
    <3> DEFINE p == [pod EXCEPT !.phase = "deleting", !.asked = now, !.grace = g]
    <3>2. Dated(p, now)
      BY <1>a, DatedEdits, Zenon
    <3>3. QED
      BY <1>3, <3>1, <3>2
  <2>2. CASE TM!HurryPod
    <3>1. PICK g \in Terminating.graces : TM!Pod([pod EXCEPT !.grace = g])
      BY <2>2 DEF TM!HurryPod
    <3> DEFINE p == [pod EXCEPT !.grace = g]
    <3>2. Dated(p, now)
      BY <1>a, DatedEdits, Zenon
    <3>3. QED
      BY <1>3, <3>1, <3>2
  <2>3. CASE TM!PodGone
    <3> DEFINE p == [pod EXCEPT !.phase = "gone"]
    <3>1. Dated(p, now)
      BY <1>a, DatedEdits, Zenon
    <3>2. QED
      BY <1>3, <2>3, <3>1 DEF TM!PodGone
  <2>4. CASE TM!ClearFinalizer
    <3> DEFINE p == [pod EXCEPT !.finalizer = FALSE]
    <3>1. Dated(p, now)
      BY <1>a, DatedEdits, Zenon
    <3>2. QED
      BY <1>3, <2>4, <3>1 DEF TM!ClearFinalizer
  <2>5. QED
    BY <1>5, <2>1, <2>2, <2>3, <2>4
<1>6. CASE TM!DeleteNamespace \/ TM!Diagnose \/ TM!NamespaceGone
  <2>1. CASE TM!DeleteNamespace
    <3> DEFINE s == [space EXCEPT !.phase = "deleting", !.asked = now]
    <3>1. Dated(s, now)
      BY <1>a, DatedEdits, Zenon
    <3>2. QED
      BY <1>4, <2>1, <3>1 DEF TM!DeleteNamespace
  <2>2. CASE TM!Diagnose
    <3> DEFINE s == [space EXCEPT !.condition = ~space.condition]
    <3>1. Dated(s, now)
      BY <1>a, DatedEdits, Zenon
    <3>2. QED
      BY <1>4, <2>2, <3>1 DEF TM!Diagnose
  <2>3. CASE TM!NamespaceGone
    <3> DEFINE s == [space EXCEPT !.phase = "gone"]
    <3>1. Dated(s, now)
      BY <1>a, DatedEdits, Zenon
    <3>2. QED
      BY <1>4, <2>3, <3>1 DEF TM!NamespaceGone
  <2>4. QED
    BY <1>6, <2>1, <2>2, <2>3
<1>8. CASE TM!NodeFlips
  <2> DEFINE c == DeletionNow(now, n, ~up, pod, space)
  <2>1. [cluster EXCEPT !.nodeReady = ~up] = c
    BY <1>a DEF DeletionNow
  <2>2. TM!World(c)
    BY <1>8, <2>1 DEF TM!NodeFlips
  <2>3. QED
    BY <1>a, <2>2, DeletionMoves, Zenon
<1>12. CASE TM!ReadPods \/ TM!ReadNodes \/ TM!ReadNamespaces
  <2>1. PICK p, d, s :
          /\ lists' = [pods |-> p, nodes |-> d, namespaces |-> s, rows |-> lists.rows]
          /\ p \in {lists.pods, cluster.pod, Failed}
          /\ d \in {lists.nodes, IF up THEN "ready" ELSE "not ready", Failed}
          /\ s \in {lists.namespaces, cluster.namespace, Failed}
    <3>1. CASE TM!ReadPods
      BY <1>1, <3>1, Zenon DEF TM!ReadPods, TM!Read, DeletionTypes
    <3>2. CASE TM!ReadNodes
      BY <1>1, <3>2, Zenon DEF TM!ReadNodes, TM!Read, DeletionTypes
    <3>3. CASE TM!ReadNamespaces
      BY <1>1, <3>3, Zenon DEF TM!ReadNamespaces, TM!Read, DeletionTypes
    <3>4. QED
      BY <1>12, <3>1, <3>2, <3>3, Zenon
  <2>2. UNCHANGED <<cluster, past>>
    BY <1>12, Zenon DEF TM!ReadPods, TM!ReadNodes, TM!ReadNamespaces, TM!Read
  <2>3. /\ Known(p) => Dated(p, now)
        /\ Known(s) => Dated(s, now)
        /\ Known(d) /\ d = "not ready" => past.nodeDown
    BY <1>a, <2>1, Zenon DEF DeletionInv, DeletionReads, Known
  <2>4. QED
    BY <2>1, <2>2, <2>3, DeletionListed, Zenon
<1>13. CASE TM!Over \/ UNCHANGED viewVars
  <2>1. UNCHANGED viewVars
    BY <1>13 DEF TM!Over, TM!vars, viewVars
  <2>2. QED
    BY Zenon, <2>1
    DEF viewVars, DeletionInv, DeletionTypes, DeletionReads, TM!DeletionsGraded, TM!Age, TM!Grace
<1>14. QED
  BY <1>2, <1>5, <1>6, <1>8, <1>12, <1>13, DeletionRenders
  DEF TM!Next

LEMMA DeletionInvariance == Spec => [](view = "terminating" => DeletionInv)
<1>1. Init => (view = "terminating" => DeletionInv)
  BY DeletionBegins DEF Init
<1>2. (view = "terminating" => DeletionInv) /\ [Next]_vars
        => (view = "terminating" => DeletionInv)'
  BY OneView, DeletionSteps
<1>3. QED
  BY <1>1, <1>2, PTL DEF Spec

(* terminating says STUCK of a deletion no sooner than Grace + StuckAfter   *)
(* after it was asked for and no later than 2 * Grace + StuckAfter, whose   *)
(* second grace is terminating.go:127's, for any graces and any time the    *)
(* lists and the clock are apart.                                           *)
THEOREM DeletionsAreGraded == Spec => []DeletionsGraded
<1>1. (view = "terminating" => DeletionInv) => DeletionsGraded
  BY DEF DeletionInv, DeletionsGraded
<1>2. QED
  BY <1>1, DeletionInvariance, PTL

-----------------------------------------------------------------------------
(* pvc-resize. *)

ResizeTypes ==
  /\ cluster = [claims |-> cluster.claims, class |-> cluster.class, pods |-> cluster.pods,
                changes |-> cluster.changes]
  /\ cluster.claims \in [PvcResize.namespaces -> RE!Claim]
  /\ cluster.class \in {"allowed", "refused", "gone"}
  /\ lists = [scope |-> lists.scope, claims |-> lists.claims, classes |-> lists.classes,
              pods |-> lists.pods]
  /\ lists.scope \in PvcResize.scopes
  /\ past = [short |-> past.short, settled |-> past.settled, refused |-> past.refused,
             stayed |-> past.stayed, ever |-> past.ever]

(* What was so all along is so of a claim. *)
ClaimKept(n, c) ==
  /\ c \in RE!Claim
  /\ n \in past.short => RE!Short(c)
  /\ n \in past.settled => RE!Settled(c)

ResizePast ==
  /\ \A n \in PvcResize.namespaces : ClaimKept(n, cluster.claims[n])
  /\ past.short \subseteq PvcResize.namespaces /\ past.settled \subseteq PvcResize.namespaces
  /\ cluster.class = "refused" => past.refused
  /\ past.stayed \subseteq cluster.pods /\ cluster.pods \subseteq past.ever

ResizeClaimsRead ==
  Known(lists.claims) =>
    /\ DOMAIN lists.claims = {n \in PvcResize.namespaces : RE!InScope(n)}
    /\ \A n \in DOMAIN lists.claims : ClaimKept(n, lists.claims[n])

ResizePodsRead ==
  Known(lists.pods) =>
    /\ RE!Judged
    /\ {p \in past.stayed : p.ns \in RE!Asked} \subseteq lists.pods /\ lists.pods \subseteq past.ever

ResizeInv ==
  /\ ResizeTypes /\ ResizePast /\ ResizeClaimsRead /\ ResizePodsRead
  /\ lists.classes # Unread /\ lists.classes = "refused" => past.refused

LEMMA ResizeBegins == RE!Init => ResizeInv
<1> SUFFICES ASSUME RE!Init PROVE ResizeInv
  OBVIOUS
<1>1. PICK s \in PvcResize.starts :
        cluster = [claims |-> s.claims, class |-> s.class, pods |-> PvcResize.pods, changes |-> 0]
  BY Zenon DEF RE!Init
<1>2. PICK scope \in PvcResize.scopes : lists = [scope |-> scope, claims |-> Unread, classes |-> Unread, pods |-> Unread]
  BY Zenon DEF RE!Init
<1>3. past = [short |-> {n \in PvcResize.namespaces : RE!Short(cluster.claims[n])},
              settled |-> {n \in PvcResize.namespaces : RE!Settled(cluster.claims[n])},
              refused |-> cluster.class = "refused",
              stayed |-> cluster.pods, ever |-> cluster.pods]
  BY DEF RE!Init
<1>4. s.claims \in [PvcResize.namespaces -> RE!Claim] /\ s.class \in {"allowed", "refused", "gone"}
  BY PvcResizeWellFormed
<1>5. ResizeTypes
  BY <1>1, <1>2, <1>3, <1>4 DEF ResizeTypes
<1>6. \A n \in PvcResize.namespaces : cluster.claims[n] \in RE!Claim
  BY <1>1, <1>4
<1>7. ResizePast
  <2>1. past.refused = (cluster.class = "refused")
    BY <1>3, Zenon
  <2>2. QED
    BY <1>3, <1>6, <2>1, Zenon DEF ResizePast, ClaimKept
<1>8. lists.claims = Unread /\ lists.classes = Unread /\ lists.pods = Unread
  BY <1>2
<1>9. ResizeClaimsRead /\ ResizePodsRead
  BY <1>8 DEF ResizeClaimsRead, ResizePodsRead, Known
<1>10. QED
  BY <1>5, <1>7, <1>8, <1>9 DEF ResizeInv

(* What the controller, the node and the users make of a claim is a claim. *)
LEMMA ClaimEdits ==
  ASSUME NEW c \in RE!Claim, NEW q \in PvcResize.sizes, NEW k \in Nat, NEW d,
         \/ d = [c EXCEPT !.requested = q]
         \/ d = [c EXCEPT !.capacity = k, !.status = None, !.conditions = {}]
         \/ d = [c EXCEPT !.status = "ControllerResizeInProgress", !.conditions = {"Resizing"}]
         \/ d = [c EXCEPT !.conditions = c.conditions \cup {"ControllerResizeError"}]
         \/ d = [c EXCEPT !.status = "ControllerResizeInfeasible"]
         \/ d = [c EXCEPT !.status = "NodeResizePending",
                          !.conditions = {"FileSystemResizePending"}]
         \/ d = [c EXCEPT !.status = "NodeResizeInProgress"]
         \/ d = [c EXCEPT !.conditions = c.conditions \cup {"NodeResizeError"}]
         \/ d = [c EXCEPT !.status = "NodeResizeInfeasible"]
  PROVE  d \in RE!Claim
BY ZenonT(60) DEF RE!Claim

(* The cluster changes, and what was always so is what still is. *)
LEMMA ResizeMoves ==
  ASSUME ResizeInv, NEW claims \in [PvcResize.namespaces -> RE!Claim],
         NEW class \in {"allowed", "refused", "gone"}, NEW pods, NEW n, NEW c, c = [claims |-> claims, class |-> class, pods |-> pods, changes |-> n],
         RE!World(c)
  PROVE  ResizeInv'
<1>1. /\ cluster' = [claims |-> claims, class |-> class, pods |-> pods,
                     changes |-> cluster.changes + 1]
      /\ past' = [short |-> {m \in past.short : RE!Short(claims[m])},
                  settled |-> {m \in past.settled : RE!Settled(claims[m])},
                  refused |-> past.refused \/ class = "refused",
                  stayed |-> past.stayed \cap pods, ever |-> past.ever \cup pods]
      /\ UNCHANGED lists
  BY DEF RE!World
<1>2. ResizeTypes'
  BY <1>1 DEF ResizeInv, ResizeTypes
<1>3. (past.refused => past'.refused) /\ (class = "refused" => past'.refused)
  BY <1>1, Zenon
<1>4. ResizePast'
  BY <1>1, <1>3 DEF ResizeInv, ResizePast, ClaimKept
<1>5. ResizeClaimsRead'
  BY <1>1 DEF ResizeInv, ResizeClaimsRead, ClaimKept, Known, RE!InScope
<1>6. RE!Asked' = RE!Asked /\ RE!Judged' = RE!Judged
  BY <1>1 DEF RE!Asked, RE!Judged, RE!Listed, RE!ResizeVerdict, RE!Refused, RE!Known, RE!Allowed
<1>7. ResizePodsRead'
  BY <1>1, <1>6 DEF ResizeInv, ResizePodsRead, Known
<1>8. QED
  BY <1>1, <1>2, <1>3, <1>4, <1>5, <1>7 DEF ResizeInv

LEMMA ResizeClaimMoves ==
  ASSUME ResizeInv, NEW n \in PvcResize.namespaces, NEW d \in RE!Claim, RE!Becomes(n, d)
  PROVE  ResizeInv'
<1> DEFINE claims == [cluster.claims EXCEPT ![n] = d]
           c == [cluster EXCEPT !.claims = claims]
<1>1. /\ cluster = [claims |-> cluster.claims, class |-> cluster.class, pods |-> cluster.pods,
                    changes |-> cluster.changes]
      /\ cluster.claims \in [PvcResize.namespaces -> RE!Claim]
      /\ cluster.class \in {"allowed", "refused", "gone"}
  BY DEF ResizeInv, ResizeTypes
<1>2. claims \in [PvcResize.namespaces -> RE!Claim]
  BY <1>1
<1> HIDE DEF claims
<1>3. c = [claims |-> claims, class |-> cluster.class, pods |-> cluster.pods,
           changes |-> cluster.changes]
  BY <1>1
<1>4. RE!World(c)
  BY DEF RE!Becomes, claims
<1>5. QED
  BY <1>1, <1>2, <1>3, <1>4, ResizeMoves

LEMMA ResizeClaimSteps ==
  ASSUME ResizeInv, NEW n \in PvcResize.namespaces, RE!ClaimStep(n)
  PROVE  ResizeInv'
<1> DEFINE at == cluster.claims[n]
<1>1. at \in RE!Claim
  BY DEF ResizeInv, ResizeTypes
<1>2. RE!At(n) = at
  BY DEF RE!At
<1>3. at.requested \in PvcResize.sizes /\ at.requested \in Nat
  BY <1>1, PvcResizeWellFormed, Zenon DEF RE!Claim
<1> HIDE DEF at
<1>4. ASSUME NEW q \in PvcResize.sizes, RE!Becomes(n, [at EXCEPT !.requested = q])
      PROVE  ResizeInv'
  <2> DEFINE d == [at EXCEPT !.requested = q]
  <2>1. d \in RE!Claim
    BY <1>1, <1>3, ClaimEdits, Zenon
  <2>2. QED
    BY <1>4, <2>1, ResizeClaimMoves
<1>5. ASSUME RE!Fitted(n, at) PROVE ResizeInv'
  <2>1. PICK k \in {at.requested, at.requested + 1} :
          RE!Becomes(n, [at EXCEPT !.capacity = k, !.status = None, !.conditions = {}])
    BY <1>5, Zenon DEF RE!Fitted
  <2> DEFINE d == [at EXCEPT !.capacity = k, !.status = None, !.conditions = {}]
  <2>2. k \in Nat
    BY <1>3, <2>1
  <2>3. d \in RE!Claim
    BY <1>1, <1>3, <2>2, ClaimEdits, Zenon
  <2>4. QED
    BY <2>1, <2>3, ResizeClaimMoves
<1>6. ASSUME NEW d, RE!Becomes(n, d),
             \/ d = [at EXCEPT !.status = "ControllerResizeInProgress", !.conditions = {"Resizing"}]
             \/ d = [at EXCEPT !.conditions = at.conditions \cup {"ControllerResizeError"}]
             \/ d = [at EXCEPT !.status = "ControllerResizeInfeasible"]
             \/ d = [at EXCEPT !.status = "NodeResizePending",
                               !.conditions = {"FileSystemResizePending"}]
             \/ d = [at EXCEPT !.status = "NodeResizeInProgress"]
             \/ d = [at EXCEPT !.conditions = at.conditions \cup {"NodeResizeError"}]
             \/ d = [at EXCEPT !.status = "NodeResizeInfeasible"]
      PROVE  ResizeInv'
  <2>1. d \in RE!Claim
    BY <1>1, <1>3, <1>6, ClaimEdits, Zenon
  <2>2. QED
    BY <1>6, <2>1, ResizeClaimMoves, SMTT(30)
<1>7. CASE RE!Grow(n) \/ RE!Recover(n)
  BY <1>2, <1>4, <1>7, Zenon DEF RE!Grow, RE!Recover
<1>8. CASE RE!Provision(n)
  BY <1>2, <1>5, <1>8 DEF RE!Provision
<1>9. CASE RE!ControllerStart(n) \/ RE!NodeStart(n)
  BY <1>2, <1>6, <1>9 DEF RE!ControllerStart, RE!NodeStart
<1>10. CASE RE!ControllerEnds(n)
  BY <1>2, <1>5, <1>6, <1>10 DEF RE!ControllerEnds
<1>11. CASE RE!NodeEnds(n)
  BY <1>2, <1>5, <1>6, <1>11 DEF RE!NodeEnds
<1>12. QED
  BY <1>7, <1>8, <1>9, <1>10, <1>11 DEF RE!ClaimStep

LEMMA ResizeSteps ==
  ASSUME ResizeInv, RE!Next \/ UNCHANGED viewVars
  PROVE  ResizeInv'
<1>1. /\ cluster = [claims |-> cluster.claims, class |-> cluster.class, pods |-> cluster.pods,
                    changes |-> cluster.changes]
      /\ cluster.claims \in [PvcResize.namespaces -> RE!Claim]
      /\ cluster.class \in {"allowed", "refused", "gone"}
      /\ lists = [scope |-> lists.scope, claims |-> lists.claims, classes |-> lists.classes,
                  pods |-> lists.pods]
  BY DEF ResizeInv, ResizeTypes
<1>2. CASE RE!ClassChanges
  <2>1. PICK a \in {"allowed", "refused", "gone"} : RE!World([cluster EXCEPT !.class = a])
    BY <1>2, Zenon DEF RE!ClassChanges
  <2> DEFINE c == [cluster EXCEPT !.class = a]
  <2>2. c = [claims |-> cluster.claims, class |-> a, pods |-> cluster.pods,
             changes |-> cluster.changes]
    BY <1>1
  <2>3. QED
    BY <1>1, <2>1, <2>2, ResizeMoves
<1>3. CASE RE!PodChanges
  <2>1. PICK p : RE!World([cluster EXCEPT !.pods = p])
    BY <1>3, Zenon DEF RE!PodChanges
  <2> DEFINE c == [cluster EXCEPT !.pods = p]
  <2>2. c = [claims |-> cluster.claims, class |-> cluster.class, pods |-> p,
             changes |-> cluster.changes]
    BY <1>1
  <2>3. QED
    BY <1>1, <2>1, <2>2, ResizeMoves
<1>4. CASE RE!ReadClaims
  <2> DEFINE all == [n \in {n \in PvcResize.namespaces : RE!InScope(n)} |-> cluster.claims[n]]
  <2>1. PICK l \in {all, Failed} :
          lists' = [scope |-> lists.scope, claims |-> l, classes |-> lists.classes,
                    pods |-> lists.pods]
    BY <1>1, <1>4 DEF RE!ReadClaims
  <2>2. lists.claims = Unread /\ UNCHANGED <<cluster, past>>
    BY <1>4 DEF RE!ReadClaims
  <2>3. ~Known(lists.pods)
    BY <2>2 DEF ResizeInv, ResizePodsRead, RE!Judged
  <2>4. ResizeTypes' /\ ResizePast'
    BY <2>1, <2>2 DEF ResizeInv, ResizeTypes, ResizePast, ClaimKept
  <2>5. ResizeClaimsRead'
    BY <2>1, <2>2 DEF ResizeInv, ResizePast, ResizeClaimsRead, ClaimKept, Known, RE!InScope
  <2>6. ResizePodsRead'
    BY <2>1, <2>3 DEF ResizePodsRead, Known
  <2>7. QED
    BY <2>1, <2>2, <2>4, <2>5, <2>6 DEF ResizeInv
<1>5. CASE RE!ReadClasses
  <2>1. PICK l \in {cluster.class, "unknown"} :
          lists' = [scope |-> lists.scope, claims |-> lists.claims, classes |-> l,
                    pods |-> lists.pods]
    BY <1>1, <1>5 DEF RE!ReadClasses
  <2>2. lists.classes = Unread /\ UNCHANGED <<cluster, past>>
    BY <1>5 DEF RE!ReadClasses
  <2>3. ~Known(lists.pods)
    BY <2>2 DEF ResizeInv, ResizePodsRead, RE!Judged
  <2>4. ResizeTypes' /\ ResizePast'
    BY <2>1, <2>2 DEF ResizeInv, ResizeTypes, ResizePast, ClaimKept
  <2>5. ResizeClaimsRead'
    BY <2>1, <2>2 DEF ResizeInv, ResizeClaimsRead, ClaimKept, Known, RE!InScope
  <2>6. ResizePodsRead'
    BY <2>1, <2>3 DEF ResizePodsRead, Known
  <2>7. lists'.classes = "refused" => past'.refused
    BY <2>1, <2>2 DEF ResizeInv, ResizePast
  <2>8. QED
    BY <2>4, <2>5, <2>6, <2>7 DEF ResizeInv
<1>6. CASE RE!ReadPods
  <2>1. PICK l \in {{p \in cluster.pods : p.ns \in RE!Asked}, Failed} :
          lists' = [scope |-> lists.scope, claims |-> lists.claims, classes |-> lists.classes,
                    pods |-> l]
    BY <1>1, <1>6, Zenon DEF RE!ReadPods
  <2>2. RE!Judged /\ UNCHANGED <<cluster, past>>
    BY <1>6, SMTT(30) DEF RE!ReadPods
  <2>3. RE!Asked' = RE!Asked /\ RE!Judged' = RE!Judged
    BY <2>1
    DEF RE!Asked, RE!Judged, RE!Listed, RE!ResizeVerdict, RE!Refused, RE!Known, RE!Allowed
  <2>4. ResizeTypes' /\ ResizePast'
    BY <2>1, <2>2 DEF ResizeInv, ResizeTypes, ResizePast, ClaimKept
  <2>5. ResizeClaimsRead'
    BY <2>1, <2>2 DEF ResizeInv, ResizeClaimsRead, ClaimKept, Known, RE!InScope
  <2>6. ResizePodsRead'
    BY <2>1, <2>2, <2>3 DEF ResizeInv, ResizePast, ResizePodsRead, Known
  <2>7. QED
    BY <2>1, <2>2, <2>4, <2>5, <2>6 DEF ResizeInv
<1>7. CASE RE!Over \/ UNCHANGED viewVars
  <2>1. UNCHANGED <<cluster, lists, past>>
    BY <1>7 DEF RE!Over, RE!vars, viewVars
  <2>2. RE!Asked' = RE!Asked /\ RE!Judged' = RE!Judged
    BY <2>1
    DEF RE!Asked, RE!Judged, RE!Listed, RE!ResizeVerdict, RE!Refused, RE!Known, RE!Allowed
  <2>3. QED
    BY <2>1, <2>2 DEF ResizeInv, ResizeTypes, ResizePast, ResizeClaimsRead, ResizePodsRead,
                      ClaimKept, Known, RE!InScope
<1>8. QED
  BY <1>2, <1>3, <1>4, <1>5, <1>6, <1>7, ResizeClaimSteps DEF RE!Next

(* What the invariant is for. *)
LEMMA ExpansionsTrue == ResizeInv => RE!ExpansionTold
<1> SUFFICES ASSUME ResizeInv, RE!Printed PROVE RE!ExpansionTold
  BY DEF RE!ExpansionTold
<1>1. RE!Judged /\ Known(lists.claims)
  BY DEF RE!Printed, RE!Judged, Known
<1>2. /\ DOMAIN lists.claims = {n \in PvcResize.namespaces : RE!InScope(n)}
      /\ \A n \in DOMAIN lists.claims : ClaimKept(n, lists.claims[n])
  BY <1>1 DEF ResizeInv, ResizeClaimsRead
<1>3. ASSUME NEW n \in past.short, RE!InScope(n)
      PROVE  n \in RE!Listed /\ RE!ResizeVerdict(lists.claims[n]) # "SHRINK"
  <2> DEFINE c == lists.claims[n]
  <2>1. n \in DOMAIN lists.claims /\ c \in RE!Claim /\ RE!Short(c)
    BY <1>2, <1>3 DEF ResizeInv, ResizePast, ClaimKept
  <2> HIDE DEF c
  <2>2. c.capacity \in Nat /\ c.requested \in Nat
    BY <2>1, PvcResizeWellFormed, Zenon DEF RE!Claim
  <2>3. c.capacity # 0 /\ RE!Growing(c)
    BY <2>1, <2>2 DEF RE!Short
  <2>4. RE!ResizeVerdict(c) \in {"INFEASIBLE", "FAILED", "SC-NO-EXPAND", "FS-PENDING", "RESIZING",
                                "PENDING"}
    BY <2>3, Zenon DEF RE!ResizeVerdict
  <2>5. RE!ResizeVerdict(c) \notin {None, "SHRINK"}
    BY <2>4, PvcResizeWellFormed
  <2>6. QED
    BY <2>1, <2>5 DEF RE!Listed, c
<1>4. ASSUME NEW n \in RE!Listed
      PROVE  /\ n \notin past.settled
             /\ RE!ResizeVerdict(lists.claims[n]) = "SC-NO-EXPAND" => past.refused
             /\ {p \in past.stayed : p.ns = n} \subseteq RE!PodCell(n)
             /\ RE!PodCell(n) \subseteq past.ever
  <2> DEFINE c == lists.claims[n]
  <2>1. n \in DOMAIN lists.claims /\ RE!ResizeVerdict(c) # None /\ c \in RE!Claim
    BY <1>2 DEF RE!Listed, ClaimKept
  <2> HIDE DEF c
  <2>2. ~RE!Settled(c)
    <3>1. SUFFICES ASSUME RE!Settled(c) PROVE FALSE
      OBVIOUS
    <3>2. c.capacity \in Nat /\ c.requested = c.capacity /\ c.status = None /\ c.conditions = {}
      BY <2>1, <3>1, Zenon DEF RE!Settled, RE!Claim
    <3>3. ~RE!Growing(c) /\ ~(c.requested < c.capacity)
      BY <3>2 DEF RE!Growing
    <3>4. c.status \notin {"ControllerResizeInProgress", "ControllerResizeInfeasible",
                          "NodeResizePending", "NodeResizeInProgress", "NodeResizeInfeasible"}
      BY <3>2, PvcResizeWellFormed
    <3>5. QED
      BY <2>1, <3>2, <3>3, <3>4 DEF RE!ResizeVerdict
  <2>3. RE!ResizeVerdict(c) = "SC-NO-EXPAND" => past.refused
    <3>1. RE!ResizeVerdict(c) = "SC-NO-EXPAND" => RE!Refused(c)
      BY <2>1 DEF RE!ResizeVerdict
    <3>2. QED
      BY <1>1, <3>1 DEF ResizeInv, RE!Judged, RE!Refused, RE!Known, RE!Allowed
  <2>4. Known(lists.pods) /\ n \in RE!Asked
    BY <1>2, <2>1 DEF RE!Printed, RE!Asked, RE!InScope, Known
  <2>5. QED
    BY <1>2, <2>1, <2>2, <2>3, <2>4 DEF ResizeInv, ResizePodsRead, RE!PodCell, ClaimKept, c
<1>5. QED
  BY <1>3, <1>4 DEF RE!ExpansionTold

LEMMA ResizeInvariance == Spec => [](view = "pvc-resize" => ResizeInv)
<1>1. Init => (view = "pvc-resize" => ResizeInv)
  BY ResizeBegins DEF Init
<1>2. (view = "pvc-resize" => ResizeInv) /\ [Next]_vars
        => (view = "pvc-resize" => ResizeInv)'
  BY OneView, ResizeSteps
<1>3. QED
  BY <1>1, <1>2, PTL DEF Spec

(* An expansion that never landed has its row, and nobody is sent to        *)
(* migrate or restart for nothing, for any claims, classes and pods.        *)
THEOREM ExpansionsTold == Spec => []ExpansionTold
<1>1. (view = "pvc-resize" => ResizeInv) => ExpansionTold
  BY ExpansionsTrue DEF ExpansionTold
<1>2. QED
  BY <1>1, ResizeInvariance, PTL

-----------------------------------------------------------------------------
(* Command lines. *)

(* Roles, of any line. *)
RolesOf(words) ==
  LET role[i \in DOMAIN words] ==
        IF i = 1 THEN "command"
        ELSE IF role[i - 1] \in {"end", "rest"} THEN "rest"
        ELSE IF role[i - 1] = "flag" /\ AR!TakesValue(words[i - 1]) THEN "value"
        ELSE IF words[i] = "--" THEN "end"
        ELSE IF AR!IsFlag(words[i]) THEN "flag" ELSE "name"
  IN  role

(* The role of a word, from that of the word before it.                     *)
RoleAfter(words, i, before) ==
  IF before \in {"end", "rest"} THEN "rest"
  ELSE IF before = "flag" /\ AR!TakesValue(words[i - 1]) THEN "value"
  ELSE IF words[i] = "--" THEN "end"
  ELSE IF AR!IsFlag(words[i]) THEN "flag" ELSE "name"

Playing(words, role, D) ==
  role = [i \in D |-> IF i = 1 THEN "command" ELSE RoleAfter(words, i, role[i - 1])]

(* Roles is defined for every line. *)
LEMMA RolesAre ==
  ASSUME NEW S, NEW words \in Seq(S)
  PROVE  \A i \in DOMAIN words :
           RolesOf(words)[i] = IF i = 1 THEN "command" ELSE RoleAfter(words, i, RolesOf(words)[i - 1])
<1> DEFINE n == Len(words)
           Good == {m \in 0..n : m = 0 \/ \E r : Playing(words, r, 1..m)}
<1>1. n \in Nat /\ DOMAIN words = 1..n
  OBVIOUS
<1> HIDE DEF n
<1>2. 0 \in Good
  BY <1>1
<1>3. ASSUME NEW i \in 1..n, i - 1 \in Good PROVE i \in Good
  <2>1. CASE i = 1
    <3>1. Playing(words, [m \in 1..1 |-> "command"], 1..1)
      BY DEF Playing
    <3>2. QED
      BY <1>1, <2>1, <3>1
  <2>2. CASE i # 1
    <3>1. PICK f : Playing(words, f, 1..i-1)
      BY <1>3, <2>2
    <3> DEFINE g == [m \in 1..i |-> IF m < i THEN f[m] ELSE RoleAfter(words, i, f[i - 1])]
    <3>2. \A m \in 1..i-1 : g[m] = f[m]
      BY <1>1
    <3>3. \A m \in 1..i : g[m] = (IF m = 1 THEN "command" ELSE RoleAfter(words, m, g[m - 1]))
      <4>1. TAKE m \in 1..i
      <4>2. CASE m = i
        <5>1. g[i] = RoleAfter(words, i, f[i - 1])
          BY <1>1
        <5>2. i - 1 \in 1..i-1
          BY <1>1, <2>2
        <5>3. g[i - 1] = f[i - 1]
          BY <3>2, <5>2, Zenon
        <5> HIDE DEF g
        <5>4. QED
          BY <2>2, <4>2, <5>1, <5>3
      <4>3. CASE m < i
        <5>1. m \in 1..i-1
          BY <1>1, <4>3
        <5>2. f[m] = (IF m = 1 THEN "command" ELSE RoleAfter(words, m, f[m - 1]))
          BY <3>1, <5>1 DEF Playing
        <5>3. m # 1 => m - 1 \in 1..i-1
          BY <1>1, <5>1
        <5> HIDE DEF g
        <5>4. QED
          BY <3>2, <5>1, <5>2, <5>3
      <4>4. QED
        BY <1>1, <4>2, <4>3
    <3>4. g = [m \in 1..i |-> g[m]]
      OBVIOUS
    <3> HIDE DEF g
    <3>5. Playing(words, g, 1..i)
      BY <3>3, <3>4, Zenon DEF Playing
    <3>6. QED
      BY <1>1, <3>5
  <2>3. QED
    BY <2>1, <2>2
<1>4. Good = 0..n
  <2> HIDE DEF Good
  <2>1. Good \in SUBSET (0..n)
    BY DEF Good
  <2>2. QED
    BY <1>1, <1>2, <1>3, <2>1, UpTo
<1>5. CASE n = 0
  BY <1>1, <1>5
<1>6. CASE n # 0
  <2>1. PICK some : Playing(words, some, 1..n)
    <3>1. n \in 0..n
      BY <1>1
    <3>2. n \in Good
      BY <1>4, <3>1, Zenon
    <3>3. QED
      BY <1>6, <3>2, Zenon
  <2>2. RolesOf(words) = CHOOSE r : Playing(words, r, DOMAIN words)
    BY Zenon DEF RolesOf, Playing, RoleAfter
  <2>3. Playing(words, some, DOMAIN words)
    BY <1>1, <2>1, Zenon
  <2>4. Playing(words, RolesOf(words), DOMAIN words)
    BY <2>2, <2>3, Zenon
  <2>5. QED
    BY <2>4, Zenon DEF Playing
<1>7. QED
  BY <1>5, <1>6

(* All positions from one on are kept as they are. *)
LEMMA RunKept ==
  ASSUME NEW n \in Nat, NEW i \in 1..n
  PROVE  Kept([j \in 1..n |-> j], i..n) = [j \in 1..(n - i + 1) |-> i + j - 1]
<1> DEFINE ids == [j \in 1..n |-> j]
           run(p) == [j \in 1..p |-> i + j - 1]
<1>1. ids \in Seq(Nat) /\ Len(ids) = n /\ \A m \in 1..n : ids[m] = m
  OBVIOUS
<1> HIDE DEF ids
<1>2. PICK k : /\ k[0] = <<>>
               /\ \A m \in 1..Len(ids) :
                    k[m] = IF ids[m] \in i..n THEN Append(k[m - 1], ids[m]) ELSE k[m - 1]
               /\ Kept(ids, i..n) = k[Len(ids)]
  BY <1>1, KeptSteps, Zenon
<1>3. \A m \in 1..n : k[m] = IF m >= i THEN Append(k[m - 1], m) ELSE k[m - 1]
  BY <1>1, <1>2
<1>4. run(0) = <<>>
  OBVIOUS
<1>5. \A p \in Nat : Append(run(p), i + p) = run(p + 1)
  OBVIOUS
<1> HIDE DEF run
<1> DEFINE Good == {m \in 0..n : k[m] = IF m < i THEN <<>> ELSE run(m - i + 1)}
<1>6. 0 \in Good
  BY <1>2
<1>7. ASSUME NEW m \in 1..n, m - 1 \in Good PROVE m \in Good
  <2>1. CASE m < i
    BY <1>3, <1>7, <2>1
  <2>2. CASE m >= i
    <3>1. PICK p \in Nat : p = m - i
      BY <2>2
    <3>2. k[m - 1] = run(p)
      <4>1. CASE m = i
        BY <1>4, <1>7, <3>1, <4>1
      <4>2. CASE m # i
        <5>1. (m - 1) - i + 1 = p /\ ~(m - 1 < i)
          BY <2>2, <3>1, <4>2
        <5>2. k[m - 1] = run((m - 1) - i + 1)
          BY <1>7, <5>1
        <5>3. QED
          BY <5>1, <5>2
      <4>3. QED
        BY <4>1, <4>2
    <3>3. k[m] = Append(run(p), m)
      BY <1>3, <2>2, <3>2, Zenon
    <3>4. m = i + p /\ p + 1 = m - i + 1
      BY <3>1
    <3>5. k[m] = run(m - i + 1)
      BY <1>5, <3>3, <3>4, Zenon
    <3>6. QED
      BY <2>2, <3>5
  <2>3. QED
    BY <2>1, <2>2
<1>8. Good = 0..n
  <2>1. Good \in SUBSET (0..n)
    OBVIOUS
  <2> HIDE DEF Good
  <2>2. QED
    BY <1>6, <1>7, <2>1, UpTo
<1>9. k[n] = run(n - i + 1)
  <2>1. n \in Good
    <3>1. n \in 0..n
      OBVIOUS
    <3>2. QED
      BY <1>8, <3>1, Zenon
  <2>2. QED
    BY <2>1
<1>10. QED
  BY <1>1, <1>2, <1>9 DEF ids, run

-----------------------------------------------------------------------------
(* What a run knows of its line. *)

Positions(words) == [j \in DOMAIN words |-> j]

(* No flag's value is "--". *)
NoneBare(words) == \A i \in DOMAIN words : words[i] = "--" => RolesOf(words)[i] # "value"

(* The names among the first words, up to i. *)
NamesTo(words, i) ==
  {j \in DOMAIN words : j < i /\ RolesOf(words)[j] \in {"name", "rest"}}

(* The flags among them are set, each to its last value, and nothing else is. *)
FlagsSet(words, set, i) ==
  /\ \A f \in DOMAIN set :
       set[f].by \in DOMAIN words /\ set[f].by < i /\ RolesOf(words)[set[f].by] \in {"flag", "value"}
  /\ \A j \in DOMAIN words : j < i /\ RolesOf(words)[j] = "flag" =>
       LET f == AR!Canonical(CommandLine.flag[words[j]].name) IN f \in DOMAIN set /\ set[f].by >= j

(* Nothing before word i has a say in what it is. *)
Unbound(words, i) ==
  /\ RolesOf(words)[i - 1] \notin {"end", "rest"}
  /\ RolesOf(words)[i - 1] = "flag" => ~AR!TakesValue(words[i - 1])

WordsParsed(words, r) ==
  r.phase = "parsing" /\ NoneBare(words) =>
    /\ Unbound(words, r.at)
    /\ \A j \in r.from..(r.at - 1) : RolesOf(words)[j] \in {"flag", "value"}
    /\ r.pos = Kept(Positions(words), NamesTo(words, r.at))
    /\ FlagsSet(words, r.set, r.at)

WordsChecked(words, r) ==
  (r.phase = "checking" \/ (r.phase = "over" /\ r.code = None)) /\ NoneBare(words) =>
    /\ r.pos = Kept(Positions(words), NamesTo(words, Len(words) + 1))
    /\ FlagsSet(words, r.set, Len(words) + 1)

WordsTold(words, r) ==
  /\ r.phase = "typing" => r.pos = <<>> /\ r.set = <<>>
  /\ r.phase = "parsing" => r.at \in 2..(Len(words) + 1) /\ r.from \in 2..r.at
  /\ WordsParsed(words, r) /\ WordsChecked(words, r)

(* What is known of the word the parser is at. *)
LEMMA RoleHere ==
  ASSUME NEW S, NEW words \in Seq(S), NEW i \in 2..Len(words), Unbound(words, i)
  PROVE  RolesOf(words)[i] = IF words[i] = "--" THEN "end"
                             ELSE IF AR!IsFlag(words[i]) THEN "flag" ELSE "name"
<1>1. i \in DOMAIN words /\ i # 1
  OBVIOUS
<1>2. RolesOf(words)[i] = RoleAfter(words, i, RolesOf(words)[i - 1])
  BY <1>1, RolesAre
<1>3. QED
  BY <1>2, Zenon DEF RoleAfter, Unbound

(* A flag is no "--". *)
LEMMA FlagWord ==
  ASSUME NEW S, NEW words \in Seq(S), NEW i \in 1..Len(words), RolesOf(words)[i] = "flag"
  PROVE  AR!IsFlag(words[i]) /\ words[i] # "--"
<1>1. i \in DOMAIN words
  OBVIOUS
<1>2. i # 1
  BY <1>1, RolesAre
<1>3. RolesOf(words)[i] = RoleAfter(words, i, RolesOf(words)[i - 1])
  BY <1>1, <1>2, RolesAre
<1>4. QED
  BY <1>3 DEF RoleAfter

(* What Sets makes of the flags set so far. *)
SetTo(set, f, v, by) ==
  [g \in DOMAIN set \cup {f} |-> IF g = f THEN [value |-> v, by |-> by] ELSE set[g]]

(* The word the value of the flag at i is in. *)
ValueAt(words, i, by) ==
  \/ by = i /\ ~AR!TakesValue(words[i])
  \/ by = i + 1 /\ i < Len(words) /\ AR!TakesValue(words[i])

FlagAt(words, i) == AR!Canonical(CommandLine.flag[words[i]].name)

(* One more flag. *)
LEMMA FlagTold ==
  ASSUME NEW S, NEW words \in Seq(S), NEW i \in 2..Len(words), NEW by, NEW v, NEW set,
         Unbound(words, i), FlagsSet(words, set, i), AR!IsFlag(words[i]), ValueAt(words, i, by)
  PROVE  /\ by + 1 \in 2..(Len(words) + 1) /\ Unbound(words, by + 1)
         /\ \A j \in i..by : RolesOf(words)[j] \in {"flag", "value"}
         /\ NamesTo(words, by + 1) = NamesTo(words, i)
         /\ FlagsSet(words, SetTo(set, FlagAt(words, i), v, by), by + 1)
<1> DEFINE role == RolesOf(words)
           n == Len(words)
           f == FlagAt(words, i)
           next == SetTo(set, f, v, by)
<1>1. /\ n \in Nat /\ DOMAIN words = 1..n /\ i \in 2..n /\ by \in i..n /\ by \in {i, i + 1}
      /\ words[i] # "--"
  BY CommandLineWellFormed DEF AR!IsFlag, ValueAt
<1>2. role[i] = "flag"
  BY <1>1, RoleHere
<1>3. by # i => role[by] = "value"
  <2>1. SUFFICES ASSUME by # i PROVE role[by] = "value"
    OBVIOUS
  <2>2. by = i + 1 /\ AR!TakesValue(words[i]) /\ by \in DOMAIN words /\ by # 1 /\ by - 1 = i
    BY <1>1, <2>1 DEF ValueAt
  <2>3. role[by] = RoleAfter(words, by, role[i])
    BY <2>2, RolesAre
  <2>4. QED
    BY <1>2, <2>2, <2>3 DEF RoleAfter
<1> HIDE DEF role, n, f, next
<1>4. \A j \in i..by : role[j] \in {"flag", "value"}
  BY <1>1, <1>2, <1>3
<1>5. Unbound(words, by + 1)
  <2>1. by + 1 - 1 = by
    BY <1>1
  <2>2. by = i => ~AR!TakesValue(words[i])
    BY <1>1 DEF ValueAt
  <2>3. role[by] \notin {"end", "rest"} /\ (role[by] = "flag" => ~AR!TakesValue(words[by]))
    <3>1. CASE by = i
      BY <1>2, <2>2, <3>1
    <3>2. CASE by # i
      BY <1>3, <3>2
    <3>3. QED
      BY <3>1, <3>2
  <2>4. QED
    BY <1>1, <2>1, <2>3 DEF Unbound, role
<1>6. NamesTo(words, by + 1) = NamesTo(words, i)
  BY <1>1, <1>4 DEF NamesTo, role
<1>7. FlagsSet(words, next, by + 1)
  <2>1. DOMAIN next = DOMAIN set \cup {f} /\ next[f].by = by
    BY DEF SetTo, next
  <2>2. \A g \in DOMAIN set : g # f => next[g] = set[g]
    BY DEF SetTo, next
  <2>3. \A g \in DOMAIN next : next[g].by \in DOMAIN words /\ next[g].by < by + 1
                               /\ role[next[g].by] \in {"flag", "value"}
    BY <1>1, <1>4, <2>1, <2>2 DEF FlagsSet, role
  <2>4. ASSUME NEW j \in DOMAIN words, j < by + 1, role[j] = "flag"
        PROVE  LET g == AR!Canonical(CommandLine.flag[words[j]].name) IN
                 g \in DOMAIN next /\ next[g].by >= j
    <3> DEFINE g == AR!Canonical(CommandLine.flag[words[j]].name)
    <3>1. j <= i
      BY <1>1, <1>3, <2>4
    <3>2. CASE g = f
      BY <1>1, <2>1, <2>4, <3>2
    <3>3. CASE g # f
      <4>1. j < i
        BY <1>1, <3>1, <3>3 DEF f, FlagAt
      <4>2. g \in DOMAIN set /\ set[g].by >= j
        BY <2>4, <4>1 DEF FlagsSet, role
      <4>3. QED
        BY <2>1, <2>2, <3>3, <4>2
    <3>4. QED
      BY <3>2, <3>3
  <2>5. QED
    BY <2>3, <2>4 DEF FlagsSet, role
<1>8. QED
  BY <1>1, <1>4, <1>5, <1>6, <1>7 DEF role, n, f, next

(* One more name. *)
LEMMA NameTold ==
  ASSUME NEW S, NEW words \in Seq(S), NEW i \in 2..Len(words), NEW set,
         Unbound(words, i), FlagsSet(words, set, i), ~AR!IsFlag(words[i]), words[i] # "--"
  PROVE  /\ Unbound(words, i + 1) /\ FlagsSet(words, set, i + 1)
         /\ Kept(Positions(words), NamesTo(words, i + 1))
              = Append(Kept(Positions(words), NamesTo(words, i)), i)
<1> DEFINE n == Len(words)
           ids == Positions(words)
<1>1. n \in Nat /\ DOMAIN words = 1..n /\ i \in 2..n /\ i + 1 - 1 = i
  OBVIOUS
<1>2. RolesOf(words)[i] = "name"
  BY RoleHere
<1>3. Unbound(words, i + 1)
  BY <1>1, <1>2 DEF Unbound
<1>4. FlagsSet(words, set, i + 1)
  BY <1>1, <1>2 DEF FlagsSet
<1>5. NamesTo(words, i + 1) = NamesTo(words, i) \cup {i}
  BY <1>1, <1>2 DEF NamesTo
<1>6. ids = [j \in 1..n |-> j] /\ ids \in Seq(Nat)
  BY <1>1 DEF Positions
<1>7. Kept(ids, {i}) = <<i>>
  <2>1. i \in 1..n
    BY <1>1
  <2>2. Kept([j \in 1..n |-> j], {i}) = <<i>>
    BY <1>1, <2>1, OneKept
  <2>3. QED
    BY <1>6, <2>2
<1>8. \A g, j \in DOMAIN ids : ids[g] \in NamesTo(words, i) /\ ids[j] \in {i} => g < j
  BY <1>1, <1>6 DEF NamesTo
<1> HIDE DEF ids, n
<1>9. Kept(ids, NamesTo(words, i) \cup {i}) = Kept(ids, NamesTo(words, i)) \o Kept(ids, {i})
  BY <1>6, <1>8, KeptSplit, Zenon
<1>10. Kept(ids, NamesTo(words, i)) \in Seq(Nat)
  BY <1>6, KeptIs
<1>11. \A s \in Seq(Nat) : s \o <<i>> = Append(s, i)
  BY <1>1
<1>12. Kept(ids, NamesTo(words, i + 1)) = Append(Kept(ids, NamesTo(words, i)), i)
  BY <1>5, <1>7, <1>9, <1>10, <1>11, Zenon
<1>13. QED
  BY <1>3, <1>4, <1>12 DEF ids

(* Past a "--" everything is a name. *)
LEMMA RestTold ==
  ASSUME NEW S, NEW words \in Seq(S), NEW i \in 2..Len(words), NEW set,
         Unbound(words, i), FlagsSet(words, set, i), words[i] = "--"
  PROVE  /\ FlagsSet(words, set, Len(words) + 1)
         /\ i = Len(words) =>
              NamesTo(words, Len(words) + 1) = NamesTo(words, i)
         /\ i < Len(words) =>
              Kept(Positions(words), NamesTo(words, Len(words) + 1))
                = Kept(Positions(words), NamesTo(words, i))
                    \o [j \in 1..(Len(words) - i) |-> i + j]
<1> DEFINE n == Len(words)
           ids == Positions(words)
           role == RolesOf(words)
           Good == {m \in 0..n : m <= i \/ role[m] = "rest"}
<1>1. n \in Nat /\ DOMAIN words = 1..n /\ i \in 2..n
  OBVIOUS
<1>2. role[i] = "end"
  BY RoleHere
<1>3. ASSUME NEW m \in 1..n, m - 1 \in Good PROVE m \in Good
  <2>1. CASE m <= i
    BY <2>1
  <2>2. CASE m > i
    <3>1. m \in DOMAIN words /\ m # 1
      BY <1>1, <2>2
    <3>2. role[m] = RoleAfter(words, m, role[m - 1])
      BY <3>1, RolesAre
    <3>3. role[m - 1] \in {"end", "rest"}
      <4>1. m - 1 = i \/ m - 1 > i
        BY <1>1, <2>2
      <4> HIDE DEF role
      <4>2. QED
        BY <1>1, <1>2, <1>3, <4>1
    <3>4. role[m] = "rest"
      BY <3>2, <3>3 DEF RoleAfter
    <3>5. QED
      BY <3>4
  <2>3. QED
    BY <1>1, <2>1, <2>2
<1> HIDE DEF role, n
<1>4. Good = 0..n
  <2>1. Good \in SUBSET (0..n) /\ 0 \in Good
    BY <1>1
  <2> HIDE DEF Good
  <2>2. QED
    BY <1>1, <1>3, <2>1, UpTo
<1>5. \A m \in (i + 1)..n : role[m] = "rest"
  <2>1. TAKE m \in (i + 1)..n
  <2>2. m \in 0..n /\ ~(m <= i)
    BY <1>1
  <2>3. m \in Good
    BY <1>4, <2>2, Zenon
  <2>4. QED
    BY <2>2, <2>3
<1> HIDE DEF Good
<1>6. FlagsSet(words, set, n + 1)
  <2>1. \A j \in DOMAIN words : role[j] = "flag" => j < i
    BY <1>1, <1>2, <1>5
  <2>2. QED
    BY <1>1, <2>1 DEF FlagsSet, role
<1>7. NamesTo(words, n + 1) = NamesTo(words, i) \cup ((i + 1)..n)
  BY <1>1, <1>2, <1>5 DEF NamesTo, role
<1>8. i = n => NamesTo(words, n + 1) = NamesTo(words, i)
  <2>1. i = n => (i + 1)..n = {}
    BY <1>1
  <2>2. QED
    BY <1>7, <2>1, Zenon
<1>9. ASSUME i < n
      PROVE  Kept(ids, NamesTo(words, n + 1))
               = Kept(ids, NamesTo(words, i)) \o [j \in 1..(n - i) |-> i + j]
  <2>1. ids = [j \in 1..n |-> j] /\ ids \in Seq(Nat)
    BY <1>1 DEF Positions
  <2>2. i + 1 \in 1..n
    BY <1>1, <1>9
  <2>3. Kept([j \in 1..n |-> j], (i + 1)..n) = [j \in 1..(n - (i + 1) + 1) |-> (i + 1) + j - 1]
    BY <1>1, <2>2, RunKept
  <2>4. [j \in 1..(n - (i + 1) + 1) |-> (i + 1) + j - 1] = [j \in 1..(n - i) |-> i + j]
    BY <1>1
  <2>5. \A g, j \in DOMAIN ids : ids[g] \in NamesTo(words, i) /\ ids[j] \in (i + 1)..n => g < j
    BY <1>1, <2>1 DEF NamesTo
  <2> HIDE DEF ids
  <2>6. Kept(ids, NamesTo(words, i) \cup ((i + 1)..n))
          = Kept(ids, NamesTo(words, i)) \o Kept(ids, (i + 1)..n)
    BY <2>1, <2>5, KeptSplit, Zenon
  <2>7. QED
    BY <1>7, <2>1, <2>3, <2>4, <2>6, Zenon
<1>10. QED
  BY <1>6, <1>8, <1>9, Zenon DEF n

(* The end of the line. *)
LEMMA AllTold ==
  ASSUME NEW S, NEW words \in Seq(S)
  PROVE  NamesTo(words, Len(words) + 1)
           = {j \in DOMAIN words : RolesOf(words)[j] \in {"name", "rest"}}
<1>1. \A j \in DOMAIN words : j < Len(words) + 1
  OBVIOUS
<1>2. QED
  BY <1>1 DEF NamesTo

(* Nothing is kept by no set. *)
LEMMA NothingKept ==
  ASSUME NEW S, NEW words \in Seq(S)
  PROVE  Kept(Positions(words), {}) = <<>>
<1>1. Positions(words) \in Seq(Nat)
  BY DEF Positions
<1>2. QED
  BY <1>1, NoneKept

-----------------------------------------------------------------------------
(* The steps of a run. *)

LineInv ==
  /\ \E S : cluster \in Seq(S)
  /\ past = [phase |-> past.phase, left |-> past.left, at |-> past.at, from |-> past.from,
             pos |-> past.pos, set |-> past.set, code |-> past.code, blame |-> past.blame]
  /\ WordsTold(cluster, past)

LEMMA LineBegins == AR!Init => LineInv
<1> SUFFICES ASSUME AR!Init PROVE LineInv
  OBVIOUS
<1>1. cluster \in Seq(STRING)
  BY CommandLineWellFormed DEF AR!Init
<1>2. past = [phase |-> "typing", left |-> CommandLine.maxWords, at |-> 1, from |-> 1, pos |-> <<>>,
              set |-> <<>>, code |-> None, blame |-> 0]
  BY DEF AR!Init, AR!Idle
<1>3. past.phase = "typing" /\ past.pos = <<>> /\ past.set = <<>>
  BY <1>2
<1>4. WordsTold(cluster, past)
  BY <1>3 DEF WordsTold, WordsParsed, WordsChecked
<1>5. QED
  BY <1>1, <1>2, <1>4 DEF LineInv

(* A run that ends in a refusal, or with a text. *)
LEMMA LineEnds ==
  ASSUME LineInv, NEW c \in {0, 1}, NEW b, AR!Ends(c, b)
  PROVE  LineInv'
<1>1. cluster' = cluster /\ past' = [past EXCEPT !.phase = "over", !.code = c, !.blame = b]
  BY DEF AR!Ends, AR!Step
<1>2. past' = [phase |-> "over", left |-> past.left, at |-> past.at, from |-> past.from,
               pos |-> past.pos, set |-> past.set, code |-> c, blame |-> b]
  BY <1>1, Zenon DEF LineInv
<1>3. past'.phase = "over" /\ past'.code = c /\ c # None
  BY <1>2, CommandLineWellFormed
<1>4. WordsTold(cluster', past')
  BY <1>3 DEF WordsTold, WordsParsed, WordsChecked
<1>5. QED
  BY <1>1, <1>2, <1>4, Zenon DEF LineInv

LEMMA LineTyped ==
  ASSUME LineInv, NEW w, AR!Adds(w)
  PROVE  LineInv'
<1>1. PICK S : cluster \in Seq(S)
  BY DEF LineInv
<1>2. cluster' \in Seq(S \cup {w})
  BY <1>1 DEF AR!Adds
<1>3. past.phase = "typing" /\ past' = [past EXCEPT !.left = past.left - 1]
  BY DEF AR!Adds
<1>4. PICK l : past' = [past EXCEPT !.left = l]
  BY <1>3, Zenon
<1>5. past' = [phase |-> "typing", left |-> l, at |-> past.at, from |-> past.from,
               pos |-> past.pos, set |-> past.set, code |-> past.code, blame |-> past.blame]
  BY <1>3, <1>4 DEF LineInv
<1>6. past'.phase = "typing" /\ past'.pos = <<>> /\ past'.set = <<>>
  BY <1>3, <1>5 DEF LineInv, WordsTold
<1>7. WordsTold(cluster', past')
  BY <1>6 DEF WordsTold, WordsParsed, WordsChecked
<1>8. QED
  BY <1>2, <1>5, <1>7 DEF LineInv

LEMMA LineEntered == LineInv /\ AR!Enter => LineInv'
<1> SUFFICES ASSUME LineInv, AR!Enter PROVE LineInv'
  OBVIOUS
<1>1. \/ \E c \in {0, 1} : \E b : AR!Ends(c, b)
      \/ cluster # <<>> /\ AR!Step([past EXCEPT !.phase = "parsing", !.at = 2, !.from = 2])
  BY DEF AR!Enter
<1>2. CASE \E c \in {0, 1} : \E b : AR!Ends(c, b)
  BY <1>2, LineEnds
<1>3. CASE cluster # <<>> /\ AR!Step([past EXCEPT !.phase = "parsing", !.at = 2, !.from = 2])
  <2>1. PICK S : cluster \in Seq(S)
    BY DEF LineInv
  <2>2. cluster' = cluster /\ past' = [past EXCEPT !.phase = "parsing", !.at = 2, !.from = 2]
    BY <1>3 DEF AR!Step
  <2>3. past' = [phase |-> "parsing", left |-> past.left, at |-> 2, from |-> 2,
                 pos |-> past.pos, set |-> past.set, code |-> past.code, blame |-> past.blame]
    BY <2>2, Zenon DEF LineInv
  <2>4. past.pos = <<>> /\ past.set = <<>>
    BY DEF LineInv, WordsTold, AR!Enter
  <2>5. past'.phase = "parsing" /\ past'.at = 2 /\ past'.from = 2 /\ past'.pos = <<>> /\ past'.set = <<>>
    BY <2>3, <2>4
  <2>6. Len(cluster) \in Nat \ {0} /\ 1 \in DOMAIN cluster
    BY <1>3, <2>1
  <2>7. RolesOf(cluster)[1] = "command"
    BY <2>1, <2>6, RolesAre
  <2>8. Unbound(cluster, 2)
    BY <2>7 DEF Unbound
  <2>9. NamesTo(cluster, 2) = {}
    <3>1. \A j \in DOMAIN cluster : j < 2 => j = 1
      BY <2>1
    <3>2. QED
      BY <2>7, <3>1 DEF NamesTo
  <2>10. Kept(Positions(cluster), {}) = <<>>
    BY <2>1, NothingKept
  <2>11. FlagsSet(cluster, <<>>, 2)
    <3>1. \A j \in DOMAIN cluster : j < 2 => j = 1
      BY <2>1
    <3>2. DOMAIN <<>> = {}
      OBVIOUS
    <3>3. QED
      BY <2>7, <3>1, <3>2 DEF FlagsSet
  <2>12. WordsTold(cluster, past')
    <3>1. 2 \in 2..2 /\ 2..(2 - 1) = {} /\ 2 \in 2..(Len(cluster) + 1)
      BY <2>6
    <3>2. WordsParsed(cluster, past')
      BY <2>5, <2>8, <2>9, <2>10, <2>11, <3>1, Zenon DEF WordsParsed
    <3>3. WordsChecked(cluster, past')
      BY <2>5 DEF WordsChecked
    <3>4. QED
      BY <2>5, <3>1, <3>2, <3>3 DEF WordsTold
  <2>13. QED
    BY <2>1, <2>2, <2>3, <2>12, Zenon DEF LineInv
<1>4. QED
  BY <1>1, <1>2, <1>3

(* A flag of a command is a switch, or it has a value. *)
LEMMA KindOf ==
  ASSUME NEW c, NEW f \in AR!Registered(c)
  PROVE  AR!Kind(f) \in {"bool", "string"}
BY CommandLineWellFormed DEF AR!Registered, AR!Kind

LEMMA LineFlagParsed == LineInv /\ AR!ParseFlag => LineInv'
<1> SUFFICES ASSUME LineInv, AR!ParseFlag PROVE LineInv'
  OBVIOUS
<1> DEFINE i == past.at
           w == cluster[i]
           f == CommandLine.flag[w].name
<1>1. PICK S : cluster \in Seq(S)
  BY DEF LineInv
<1>2. past.phase = "parsing" /\ i \in 2..Len(cluster) /\ past.from \in 2..i /\ AR!IsFlag(w)
  <2>1. i \in 2..(Len(cluster) + 1) /\ past.from \in 2..i
    BY DEF LineInv, WordsTold, AR!ParseFlag, AR!More, AR!Parsing
  <2>2. i <= Len(cluster)
    BY DEF AR!ParseFlag, AR!More
  <2>3. QED
    BY <1>1, <2>1, <2>2 DEF AR!ParseFlag, AR!More, AR!Parsing, AR!Here
<1>3. \/ \E c \in {0, 1} : \E b : AR!Ends(c, b)
      \/ ~AR!TakesValue(w) /\ \E v : AR!Sets(f, v, i, i + 1)
      \/ AR!TakesValue(w) /\ i # Len(cluster) /\ \E v : AR!Sets(f, v, i + 1, i + 2)
  <2>1. CASE f \notin AR!Registered(AR!Command)
    BY <2>1 DEF AR!ParseFlag, AR!Here
  <2>2. CASE f \in AR!Registered(AR!Command) /\ AR!Kind(f) = "bool"
    <3>1. ~AR!TakesValue(w)
      BY <2>2 DEF AR!TakesValue
    <3>2. QED
      BY <2>2, <3>1 DEF AR!ParseFlag, AR!Here
  <2>3. CASE f \in AR!Registered(AR!Command) /\ AR!Kind(f) # "bool"
    <3>1. AR!Kind(f) = "string"
      BY <2>3, KindOf
    <3>2. AR!TakesValue(w) <=> ~AR!Inline(w)
      BY <1>2, <3>1 DEF AR!TakesValue
    <3>3. QED
      BY <2>3, <3>2 DEF AR!ParseFlag, AR!Here
  <2>4. QED
    BY <2>1, <2>2, <2>3
<1>4. CASE \E c \in {0, 1} : \E b : AR!Ends(c, b)
  BY <1>4, LineEnds
<1>5. ASSUME NEW by, NEW v, AR!Sets(f, v, by, by + 1),
             ValueAt(cluster, i, by)
      PROVE  LineInv'
  <2>1. PICK set : set = SetTo(past.set, FlagAt(cluster, i), v, by)
    OBVIOUS
  <2>2. PICK at : at = by + 1
    OBVIOUS
  <2>3. cluster' = cluster /\ past' = [past EXCEPT !.at = at, !.set = set]
    BY <1>5, <2>1, <2>2 DEF AR!Sets, AR!Step, SetTo, FlagAt
  <2>4. past' = [phase |-> past.phase, left |-> past.left, at |-> at, from |-> past.from,
                 pos |-> past.pos, set |-> set, code |-> past.code, blame |-> past.blame]
    BY <2>3, Zenon DEF LineInv
  <2>5. past'.phase = "parsing" /\ past'.at = at /\ past'.from = past.from
        /\ past'.pos = past.pos /\ past'.set = set
    BY <1>2, <2>4
  <2>6. by \in Nat /\ by \in {i, i + 1} /\ at \in 2..(Len(cluster) + 1) /\ past.from \in 2..at
    BY <1>1, <1>2, <1>5, <2>2 DEF ValueAt
  <2>7. WordsParsed(cluster, past')
    <3>1. SUFFICES ASSUME NoneBare(cluster) PROVE WordsParsed(cluster, past')
      BY DEF WordsParsed
    <3>2. /\ Unbound(cluster, i)
          /\ \A j \in past.from..(i - 1) : RolesOf(cluster)[j] \in {"flag", "value"}
          /\ past.pos = Kept(Positions(cluster), NamesTo(cluster, i))
          /\ FlagsSet(cluster, past.set, i)
      BY <1>2, <3>1 DEF LineInv, WordsTold, WordsParsed
    <3> HIDE DEF i
    <3>3. /\ Unbound(cluster, by + 1)
          /\ \A j \in i..by : RolesOf(cluster)[j] \in {"flag", "value"}
          /\ NamesTo(cluster, by + 1) = NamesTo(cluster, i)
          /\ FlagsSet(cluster, set, by + 1)
      <4>1. FlagsSet(cluster, SetTo(past.set, FlagAt(cluster, i), v, by), by + 1)
        BY <1>1, <1>2, <1>5, <3>2, FlagTold
      <4>2. /\ Unbound(cluster, by + 1)
            /\ \A j \in i..by : RolesOf(cluster)[j] \in {"flag", "value"}
            /\ NamesTo(cluster, by + 1) = NamesTo(cluster, i)
        BY <1>1, <1>2, <1>5, <3>2, FlagTold, Zenon
      <4>3. QED
        BY <2>1, <4>1, <4>2
    <3>4. \A j \in past.from..(at - 1) : j \in past.from..(i - 1) \/ j \in i..by
      BY <1>1, <1>2, <1>5, <2>2, <2>6, <3>2
    <3>5. \A j \in past.from..(at - 1) : RolesOf(cluster)[j] \in {"flag", "value"}
      BY <3>2, <3>3, <3>4
    <3>6. QED
      BY <2>2, <2>5, <3>2, <3>3, <3>4, <3>5 DEF WordsParsed
  <2>8. WordsChecked(cluster, past')
    BY <2>5 DEF WordsChecked
  <2>9. WordsTold(cluster, past')
    BY <2>5, <2>6, <2>7, <2>8 DEF WordsTold
  <2>10. QED
    BY <1>1, <2>3, <2>4, <2>9, Zenon DEF LineInv
<1>6. CASE ~AR!TakesValue(w) /\ \E v : AR!Sets(f, v, i, i + 1)
  <2>1. PICK v : AR!Sets(f, v, i, i + 1)
    BY <1>6
  <2>2. ValueAt(cluster, i, i)
    BY <1>6 DEF ValueAt
  <2>3. QED
    BY <1>5, <2>1, <2>2
<1>7. CASE AR!TakesValue(w) /\ i # Len(cluster) /\ \E v : AR!Sets(f, v, i + 1, i + 2)
  <2>1. i < Len(cluster) /\ i + 1 + 1 = i + 2
    BY <1>1, <1>2, <1>7
  <2>2. PICK v : AR!Sets(f, v, i + 1, i + 1 + 1)
    BY <1>7, <2>1
  <2>3. ValueAt(cluster, i, i + 1)
    BY <1>7, <2>1 DEF ValueAt
  <2>4. QED
    BY <1>5, <2>2, <2>3
<1>8. QED
  BY <1>3, <1>4, <1>6, <1>7

(* What is known before word i, once a round ended there. *)
RoundTold(words, set, pos, i) ==
  NoneBare(words) => Unbound(words, i) /\ FlagsSet(words, set, i)
                     /\ pos = Kept(Positions(words), NamesTo(words, i))

DoneTold(words, set, pos) ==
  NoneBare(words) => /\ FlagsSet(words, set, Len(words) + 1)
                     /\ pos = Kept(Positions(words), NamesTo(words, Len(words) + 1))

(* A round is over, and the next begins. *)
LEMMA LineRound ==
  ASSUME LineInv, past.phase = "parsing", NEW at \in 2..(Len(cluster) + 1), NEW pos,
         RoundTold(cluster, past.set, pos, at),
         AR!Step([past EXCEPT !.pos = pos, !.at = at, !.from = at])
  PROVE  LineInv'
<1>1. PICK S : cluster \in Seq(S)
  BY DEF LineInv
<1>2. cluster' = cluster /\ past' = [past EXCEPT !.pos = pos, !.at = at, !.from = at]
  BY DEF AR!Step
<1>3. past' = [phase |-> past.phase, left |-> past.left, at |-> at, from |-> at,
               pos |-> pos, set |-> past.set, code |-> past.code, blame |-> past.blame]
  BY <1>2, Zenon DEF LineInv
<1>4. past'.phase = "parsing" /\ past'.at = at /\ past'.from = at /\ past'.pos = pos
      /\ past'.set = past.set
  BY <1>3
<1>5. at \in 2..at /\ at..(at - 1) = {}
  BY <1>1
<1>6. WordsParsed(cluster, past')
  BY <1>4, <1>5 DEF WordsParsed, RoundTold
<1>7. WordsChecked(cluster, past')
  BY <1>4 DEF WordsChecked
<1>8. WordsTold(cluster, past')
  BY <1>4, <1>5, <1>6, <1>7 DEF WordsTold
<1>9. QED
  BY <1>1, <1>2, <1>3, <1>8, Zenon DEF LineInv

(* The parsing is over. *)
LEMMA LineDone ==
  ASSUME LineInv, NEW pos, DoneTold(cluster, past.set, pos), AR!Checking(pos)
  PROVE  LineInv'
<1>1. PICK S : cluster \in Seq(S)
  BY DEF LineInv
<1>2. cluster' = cluster /\ past' = [past EXCEPT !.phase = "checking", !.pos = pos]
  BY DEF AR!Step, AR!Checking
<1>3. past' = [phase |-> "checking", left |-> past.left, at |-> past.at, from |-> past.from,
               pos |-> pos, set |-> past.set, code |-> past.code, blame |-> past.blame]
  BY <1>2, Zenon DEF LineInv
<1>4. past'.phase = "checking" /\ past'.pos = pos /\ past'.set = past.set
  BY <1>3
<1>5. WordsTold(cluster, past')
  BY <1>4 DEF WordsTold, WordsParsed, WordsChecked, DoneTold
<1>6. QED
  BY <1>1, <1>2, <1>3, <1>5, Zenon DEF LineInv

LEMMA LineStopped == LineInv /\ AR!ParseStops => LineInv'
<1> SUFFICES ASSUME LineInv, AR!ParseStops PROVE LineInv'
  OBVIOUS
<1> DEFINE at == past.at
           n == Len(cluster)
<1>1. PICK S : cluster \in Seq(S)
  BY DEF LineInv
<1>2. /\ n \in Nat /\ DOMAIN cluster = 1..n /\ at \in 2..(n + 1) /\ past.from \in 2..at
      /\ past.phase = "parsing"
      /\ at <= n => ~AR!IsFlag(cluster[at])
  BY <1>1 DEF LineInv, WordsTold, AR!ParseStops, AR!Parsing, AR!Here
<1>3. ASSUME NoneBare(cluster)
      PROVE  /\ Unbound(cluster, at)
             /\ \A j \in past.from..(at - 1) : RolesOf(cluster)[j] \in {"flag", "value"}
             /\ past.pos = Kept(Positions(cluster), NamesTo(cluster, at))
             /\ FlagsSet(cluster, past.set, at)
  BY <1>2, <1>3 DEF LineInv, WordsTold, WordsParsed
<1> HIDE DEF at, n
<1> DEFINE i == IF at <= n /\ cluster[at] = "--" THEN at + 1 ELSE at
           rest == [j \in 1..(n - i + 1) |-> i + j - 1]
<1>4. /\ rest = <<>> => AR!Checking(past.pos)
      /\ rest # <<>> /\ AR!AfterTerminator(i) => AR!Checking(past.pos \o rest)
      /\ rest # <<>> /\ ~AR!AfterTerminator(i) =>
           AR!Step([past EXCEPT !.pos = Append(past.pos, i), !.at = i + 1, !.from = i + 1])
  BY DEF AR!ParseStops, AR!Here, at, n
<1>5. i \in 2..(n + 1) /\ (rest = <<>> <=> i = n + 1)
  <2>1. i \in 2..(n + 1)
    BY <1>2
  <2> HIDE DEF i
  <2>2. PICK k \in Nat : k = n - i + 1
    BY <1>2, <2>1
  <2>3. rest = [j \in 1..k |-> i + j - 1]
    BY <2>2
  <2>4. rest = <<>> <=> k = 0
    BY <2>2, <2>3
  <2> HIDE DEF rest, i
  <2>5. QED
    BY <1>2, <2>1, <2>2, <2>4
<1> HIDE DEF rest
<1>6. CASE at = n + 1
  <2>1. i = n + 1
    BY <1>2, <1>6
  <2>2. AR!Checking(past.pos)
    BY <1>4, <1>5, <2>1
  <2>3. DoneTold(cluster, past.set, past.pos)
    BY <1>3, <1>6 DEF DoneTold, n
  <2>4. QED
    BY <2>2, <2>3, LineDone
<1>7. CASE at <= n /\ cluster[at] = "--"
  <2>1. i = at + 1 /\ at \in 2..n
    BY <1>2, <1>7
  <2>2. ASSUME NoneBare(cluster)
        PROVE  /\ FlagsSet(cluster, past.set, n + 1)
               /\ at = n => NamesTo(cluster, n + 1) = NamesTo(cluster, at)
               /\ at < n => Kept(Positions(cluster), NamesTo(cluster, n + 1))
                              = Kept(Positions(cluster), NamesTo(cluster, at))
                                  \o [j \in 1..(n - at) |-> at + j]
    BY <1>1, <1>3, <1>7, <2>1, <2>2, RestTold, ZenonT(60) DEF n
  <2>3. CASE at = n
    <3>1. AR!Checking(past.pos)
      BY <1>4, <1>5, <2>1, <2>3
    <3>2. DoneTold(cluster, past.set, past.pos)
      BY <1>3, <2>2, <2>3 DEF DoneTold, n
    <3>3. QED
      BY <3>1, <3>2, LineDone
  <2>4. CASE at < n
    <3>1. AR!AfterTerminator(i)
      <4>1. i > past.from
        BY <1>2, <2>1
      <4>2. i - 1 = at
        BY <1>2, <2>1
      <4>3. QED
        BY <1>7, <4>1, <4>2 DEF AR!AfterTerminator
    <3>2. rest # <<>>
      BY <1>2, <1>5, <2>1, <2>4
    <3>3. AR!Checking(past.pos \o rest)
      BY <1>4, <3>1, <3>2
    <3>4. rest = [j \in 1..(n - at) |-> at + j]
      <4>1. n - i + 1 = n - at /\ \A j \in 1..(n - at) : i + j - 1 = at + j
        BY <1>2, <2>1
      <4> HIDE DEF i
      <4>2. QED
        BY <4>1 DEF rest
    <3>5. DoneTold(cluster, past.set, past.pos \o rest)
      BY <1>3, <2>2, <2>4, <3>4, Zenon DEF DoneTold, n
    <3>6. QED
      BY <3>3, <3>5, LineDone
  <2>5. QED
    BY <1>2, <2>1, <2>3, <2>4
<1>8. CASE at <= n /\ cluster[at] # "--"
  <2>1. i = at /\ at \in 2..n
    BY <1>2, <1>8
  <2>2. rest # <<>>
    BY <1>2, <1>5, <2>1
  <2>3. CASE AR!AfterTerminator(i)
    <3>1. at > past.from /\ cluster[at - 1] = "--"
      BY <2>1, <2>3 DEF AR!AfterTerminator
    <3>2. ASSUME NoneBare(cluster) PROVE FALSE
      <4>1. at - 1 \in past.from..(at - 1) /\ at - 1 \in 1..n
        BY <1>2, <1>3, <2>1, <3>1, <3>2
      <4>2. RolesOf(cluster)[at - 1] # "value"
        BY <1>2, <3>1, <3>2, <4>1 DEF NoneBare
      <4>3. RolesOf(cluster)[at - 1] = "flag"
        BY <1>3, <3>2, <4>1, <4>2
      <4>4. QED
        BY <1>1, <3>1, <4>1, <4>3, FlagWord DEF n
    <3>3. AR!Checking(past.pos \o rest)
      BY <1>4, <2>2, <2>3
    <3>4. DoneTold(cluster, past.set, past.pos \o rest)
      BY <3>2 DEF DoneTold
    <3>5. QED
      BY <3>3, <3>4, LineDone
  <2>4. CASE ~AR!AfterTerminator(i)
    <3>1. PICK next : next = at + 1
      OBVIOUS
    <3>2. PICK pos : pos = Append(past.pos, at)
      BY Zenon
    <3>3. AR!Step([past EXCEPT !.pos = pos, !.at = next, !.from = next])
      BY <1>4, <2>1, <2>2, <2>4, <3>1, <3>2, Zenon
    <3>4. RoundTold(cluster, past.set, pos, next)
      <4>1. SUFFICES ASSUME NoneBare(cluster)
                     PROVE  /\ Unbound(cluster, next) /\ FlagsSet(cluster, past.set, next)
                            /\ pos = Kept(Positions(cluster), NamesTo(cluster, next))
        BY DEF RoundTold
      <4>2. /\ Unbound(cluster, at + 1) /\ FlagsSet(cluster, past.set, at + 1)
            /\ Kept(Positions(cluster), NamesTo(cluster, at + 1))
                 = Append(Kept(Positions(cluster), NamesTo(cluster, at)), at)
        BY <1>1, <1>2, <1>3, <1>8, <2>1, <4>1, NameTold DEF n
      <4>3. QED
        BY <1>3, <3>1, <3>2, <4>1, <4>2
    <3>5. next \in 2..(n + 1)
      BY <1>2, <2>1, <3>1
    <3>6. QED
      BY <1>2, <3>3, <3>4, <3>5, LineRound, Zenon DEF n
  <2>5. QED
    BY <2>3, <2>4
<1>9. QED
  BY <1>2, <1>6, <1>7, <1>8

LEMMA LineChecked == LineInv /\ AR!Check => LineInv'
<1> SUFFICES ASSUME LineInv, AR!Check PROVE LineInv'
  OBVIOUS
<1>1. (\E c \in {0, 1} : \E b : AR!Ends(c, b)) \/ AR!Ends(None, 0)
  BY DEF AR!Check
<1>2. CASE \E c \in {0, 1} : \E b : AR!Ends(c, b)
  BY <1>2, LineEnds
<1>3. CASE AR!Ends(None, 0)
  <2>1. PICK S : cluster \in Seq(S)
    BY DEF LineInv
  <2>2. cluster' = cluster /\ past' = [past EXCEPT !.phase = "over", !.code = None, !.blame = 0]
    BY <1>3 DEF AR!Ends, AR!Step
  <2>3. past' = [phase |-> "over", left |-> past.left, at |-> past.at, from |-> past.from,
                 pos |-> past.pos, set |-> past.set, code |-> None, blame |-> 0]
    BY <2>2, Zenon DEF LineInv
  <2>4. past'.phase = "over" /\ past'.code = None /\ past'.pos = past.pos /\ past'.set = past.set
    BY <2>3
  <2>5. past.phase = "checking"
    BY DEF AR!Check
  <2>6. WordsTold(cluster, past')
    BY <2>4, <2>5 DEF LineInv, WordsTold, WordsParsed, WordsChecked
  <2>7. QED
    BY <2>1, <2>2, <2>3, <2>6, Zenon DEF LineInv
<1>4. QED
  BY <1>1, <1>2, <1>3

LEMMA LineSteps == LineInv /\ (AR!Next \/ UNCHANGED viewVars) => LineInv'
<1> SUFFICES ASSUME LineInv, AR!Next \/ UNCHANGED viewVars PROVE LineInv'
  OBVIOUS
<1>1. CASE UNCHANGED viewVars
  BY <1>1 DEF LineInv, viewVars
<1>2. ASSUME NEW w \in CommandLine.words, AR!Type(w) PROVE LineInv'
  BY <1>2, LineTyped DEF AR!Type
<1>3. ASSUME NEW dash \in BOOLEAN, AR!Tab(dash) PROVE LineInv'
  BY <1>3, LineTyped DEF AR!Tab
<1>4. CASE AR!Over
  BY <1>4 DEF LineInv, AR!Over, AR!vars
<1>5. QED
  BY <1>1, <1>2, <1>3, <1>4, LineEntered, LineFlagParsed, LineStopped, LineChecked DEF AR!Next

(* What WordsRead says, from the invariant. *)
LEMMA WordsShown == LineInv => AR!WordsRead
<1> SUFFICES ASSUME LineInv, AR!Accepted,
                    \A i \in DOMAIN cluster : cluster[i] = "--" => AR!Roles[i] # "value"
             PROVE  /\ past.pos = AR!Named
                    /\ \A f \in DOMAIN past.set : AR!Roles[past.set[f].by] \in {"flag", "value"}
                    /\ \A i \in DOMAIN cluster : AR!Roles[i] = "flag" =>
                         LET f == AR!Canonical(CommandLine.flag[cluster[i]].name)
                         IN  f \in DOMAIN past.set /\ past.set[f].by >= i
  BY DEF AR!WordsRead
<1>1. PICK S : cluster \in Seq(S)
  BY DEF LineInv
<1>2. AR!Roles = RolesOf(cluster)
  BY Zenon DEF AR!Roles, RolesOf
<1>3. NoneBare(cluster)
  BY <1>2 DEF NoneBare
<1>4. /\ past.pos = Kept(Positions(cluster), NamesTo(cluster, Len(cluster) + 1))
      /\ FlagsSet(cluster, past.set, Len(cluster) + 1)
  BY <1>3 DEF LineInv, WordsTold, WordsChecked, AR!Accepted
<1>5. \A list, set : AR!Kept(list, set) = Kept(list, set)
  BY Zenon DEF AR!Kept, Kept
<1>6. AR!Named = Kept(Positions(cluster),
                      {j \in DOMAIN cluster : RolesOf(cluster)[j] \in {"name", "rest"}})
  BY <1>2, <1>5, Zenon DEF AR!Named, Positions
<1>7. past.pos = AR!Named
  BY <1>1, <1>4, <1>6, AllTold, Zenon
<1>8. \A j \in DOMAIN cluster : j < Len(cluster) + 1
  BY <1>1
<1>9. QED
  BY <1>2, <1>4, <1>7, <1>8 DEF FlagsSet

LEMMA LineInvariance == Spec => [](view = "arguments" => LineInv)
<1>1. Init => (view = "arguments" => LineInv)
  BY LineBegins DEF Init
<1>2. (view = "arguments" => LineInv) /\ [Next]_vars => (view = "arguments" => LineInv)'
  BY OneView, LineSteps
<1>3. QED
  BY <1>1, <1>2, PTL DEF Spec

(* Parsing in rounds, each as the flag package does it, gives a line of any *)
(* length the names and the flags that one pass gives it (parseInterspersed),*)
(* unless a flag's value is "--".                                           *)
THEOREM AllWordsRead == Spec => []WordsRead
<1>1. (view = "arguments" => LineInv) => WordsRead
  BY WordsShown DEF WordsRead
<1>2. QED
  BY <1>1, LineInvariance, PTL

-----------------------------------------------------------------------------
(* Completion: what it offers, and what the parse makes of it. *)

Excused == {"--version", "--help", "-h", "--dir"}

(* Each word offered was offered after the words before it. *)
OfferedFrom(words, given) ==
  \A i \in given :
    /\ i \in DOMAIN words
    /\ \E dash \in BOOLEAN : words[i] \in AR!Offers(SubSeq(words, 1, i - 1), dash)

(* A line that starts with the command it is about. *)
Entered(words) ==
  words # <<>> /\ words[1] # "completion" /\ AR!Lookup(words[1]) # None

(* What is set comes from a flag, and its value from that word or the next. *)
TextAt(words, i, by) ==
  IF by # i THEN words[by] ELSE IF AR!Inline(words[i]) THEN CommandLine.flag[words[i]].value ELSE "true"

SetFrom(words, set) ==
  \A f \in DOMAIN set : \E i \in 2..Len(words) :
    /\ AR!IsFlag(words[i]) /\ FlagAt(words, i) = f
    /\ ValueAt(words, i, set[f].by) /\ set[f].value = TextAt(words, i, set[f].by)

(* No value looks like a flag. *)
ValuesPlain(words) ==
  \A j \in DOMAIN words : RolesOf(words)[j] = "value" => ~AR!IsFlag(words[j]) /\ words[j] # "--"

PlainAt(words, i) ==
  /\ IF i = 1 THEN ~AR!IsFlag(words[1]) ELSE AR!Lookup(words[1]) # None \/ words[1] = "completion"
  /\ RolesOf(words)[i] \notin {"rest", "end"}
  /\ ValuesPlain(words)
  /\ \A j \in DOMAIN words :
       AR!IsFlag(words[j]) /\ CommandLine.flag[words[j]].name = "context" =>
         CommandLine.flag[words[j]].dashes = 2

(* No refusal blames what was offered. *)
BlameFair(words, given, b) ==
  b \in given /\ PlainAt(words, b) => words[b] \in Excused

(* A namespace that was offered is one of the cluster asked. *)
NamespaceFair(words, given, set) ==
  "namespace" \in DOMAIN set =>
    LET i == set["namespace"].by
        context == IF "context" \in DOMAIN set THEN set["context"].value ELSE None
    IN  i \in given /\ (context # None => set["context"].by < i) /\ PlainAt(words, i) =>
          words[i] \in CommandLine.clusters[IF context = None THEN "" ELSE context]

-----------------------------------------------------------------------------
(* Roles. *)

(* After the end of the flags there are only names. *)
LEMMA RestLasts ==
  ASSUME NEW S, NEW words \in Seq(S), NEW i \in 1..Len(words),
         RolesOf(words)[i] \notin {"end", "rest"}, NEW j \in 1..i
  PROVE  RolesOf(words)[j] \notin {"end", "rest"}
<1> DEFINE n == Len(words)
           role == RolesOf(words)
           Good == {m \in 0..n : m < j \/ role[m] \in {"end", "rest"}}
<1>1. n \in Nat /\ DOMAIN words = 1..n /\ i \in 1..n /\ j \in 1..i
  OBVIOUS
<1>2. SUFFICES ASSUME role[j] \in {"end", "rest"} PROVE FALSE
  OBVIOUS
<1>3. ASSUME NEW m \in 1..n, m - 1 \in Good PROVE m \in Good
  <2>1. CASE m < j
    BY <2>1
  <2>2. CASE m = j
    BY <1>2, <2>2
  <2>3. CASE m > j
    <3>1. m \in DOMAIN words /\ m # 1
      BY <1>1, <2>3
    <3>2. role[m] = RoleAfter(words, m, role[m - 1])
      BY <3>1, RolesAre
    <3>3. role[m - 1] \in {"end", "rest"}
      <4>1. ~(m - 1 < j)
        BY <1>1, <2>3
      <4> HIDE DEF role
      <4>2. QED
        BY <1>3, <4>1
    <3>4. role[m] = "rest"
      BY <3>2, <3>3 DEF RoleAfter
    <3>5. QED
      BY <3>4
  <2>4. QED
    BY <1>1, <2>1, <2>2, <2>3
<1> HIDE DEF role, n
<1>4. Good = 0..n
  <2>1. Good \in SUBSET (0..n) /\ 0 \in Good
    BY <1>1
  <2> HIDE DEF Good
  <2>2. QED
    BY <1>1, <1>3, <2>1, UpTo
<1>5. i \in 0..n /\ ~(i < j)
  BY <1>1
<1>6. i \in Good
  BY <1>4, <1>5, Zenon
<1>7. QED
  BY <1>5, <1>6 DEF role

(* Where no value looks like a flag, what looks like a flag is one. *)
LEMMA FlagThere ==
  ASSUME NEW S, NEW words \in Seq(S), NEW i \in 2..Len(words),
         RolesOf(words)[i] \notin {"end", "rest"}, ValuesPlain(words),
         NEW j \in 2..i, AR!IsFlag(words[j])
  PROVE  RolesOf(words)[j] = "flag"
<1>1. /\ j \in DOMAIN words /\ j # 1 /\ i \in 1..Len(words) /\ j \in 1..i /\ j - 1 \in 1..i
  OBVIOUS
<1>2. RolesOf(words)[j - 1] \notin {"end", "rest"}
  BY <1>1, RestLasts
<1>3. RolesOf(words)[j] = RoleAfter(words, j, RolesOf(words)[j - 1])
  BY <1>1, RolesAre
<1>4. RolesOf(words)[j] # "value"
  BY <1>1 DEF ValuesPlain
<1>5. words[j] # "--"
  BY CommandLineWellFormed DEF AR!IsFlag
<1>6. QED
  BY <1>2, <1>3, <1>4, <1>5 DEF RoleAfter

(* What follows a flag that takes a value is its value. *)
LEMMA ValueThere ==
  ASSUME NEW S, NEW words \in Seq(S), NEW i \in 2..Len(words),
         RolesOf(words)[i - 1] = "flag", AR!TakesValue(words[i - 1])
  PROVE  RolesOf(words)[i] = "value"
<1>1. i \in DOMAIN words /\ i # 1
  OBVIOUS
<1>2. RolesOf(words)[i] = RoleAfter(words, i, RolesOf(words)[i - 1])
  BY <1>1, RolesAre
<1>3. QED
  BY <1>2 DEF RoleAfter

-----------------------------------------------------------------------------
(* What completion offers. *)

(* A command's name is a string, and no flag is one. *)
LEMMA LookedUp ==
  ASSUME NEW w, AR!Lookup(w) # None
  PROVE  AR!Lookup(w) \in DOMAIN CommandLine.commands /\ ~AR!IsFlag(w)
<1>1. ~AR!IsFlag(w)
  BY CompletionWellFormed DEF AR!IsFlag
<1>2. AR!Lookup(w) \in DOMAIN CommandLine.commands
  BY DEF AR!Lookup
<1>3. QED
  BY <1>1, <1>2

(* On a line that starts with a command, that one is chosen. *)
LEMMA FirstChosen ==
  ASSUME NEW S, NEW prior \in Seq(S), Entered(prior)
  PROVE  AR!Chosen(prior) = AR!Lookup(prior[1])
<1> DEFINE at == {i \in DOMAIN prior : AR!Lookup(prior[i]) # None}
<1>1. 1 \in DOMAIN prior /\ \A i \in DOMAIN prior : i \in Nat /\ 1 <= i
  BY DEF Entered
<1>2. 1 \in at
  BY <1>1 DEF Entered
<1>3. PICK k : k = CHOOSE i \in at : \A j \in at : i <= j
  OBVIOUS
<1>4. k \in at /\ \A j \in at : k <= j
  BY <1>1, <1>2, <1>3
<1>5. k = 1
  BY <1>1, <1>2, <1>4
<1>6. AR!Chosen(prior) = AR!Lookup(prior[k])
  BY <1>2, <1>3, Zenon DEF AR!Chosen
<1>7. QED
  BY <1>5, <1>6

(* The words before one. *)
LEMMA PriorIs ==
  ASSUME NEW S, NEW words \in Seq(S), NEW i \in 2..Len(words), Entered(words)
  PROVE  /\ SubSeq(words, 1, i - 1) \in Seq(S) /\ Len(SubSeq(words, 1, i - 1)) = i - 1
         /\ \A j \in 1..(i - 1) : SubSeq(words, 1, i - 1)[j] = words[j]
         /\ Entered(SubSeq(words, 1, i - 1))
<1> DEFINE prior == SubSeq(words, 1, i - 1)
<1>1. /\ prior \in Seq(S) /\ Len(prior) = i - 1 /\ \A j \in 1..(i - 1) : prior[j] = words[j]
  OBVIOUS
<1>2. prior # <<>> /\ prior[1] = words[1]
  <2>1. 1 \in 1..(i - 1) /\ i - 1 # 0
    OBVIOUS
  <2>2. prior[1] = words[1]
    BY <1>1, <2>1
  <2> HIDE DEF prior
  <2>3. prior # <<>>
    BY <1>1, <2>1
  <2>4. QED
    BY <2>2, <2>3
<1> HIDE DEF prior
<1>3. Entered(prior)
  BY <1>2 DEF Entered
<1>4. QED
  BY <1>1, <1>3 DEF prior

(* After the command, flags are offered, or the values of the flag before. *)
ValueOffered(words, i) ==
  \/ words[i - 1] = "--sort" /\ words[i] \in CommandLine.commands[AR!Lookup(words[1])].sort
  \/ words[i - 1] = "--color" /\ words[i] \in CommandLine.colorModes
  \/ /\ words[i - 1] \in {"-n", "--namespace"}
     /\ AR!AskedContext(SubSeq(words, 1, i - 1)) \in DOMAIN CommandLine.clusters
     /\ words[i] \in CommandLine.clusters[AR!AskedContext(SubSeq(words, 1, i - 1))]

FlagOffered(words, i) ==
  \/ words[i] \in CommandLine.tokens
  \/ \E f \in DOMAIN CommandLine.optionalTokens :
       AR!On(AR!Lookup(words[1]), f) /\ words[i] \in CommandLine.optionalTokens[f]

LEMMA OfferIs ==
  ASSUME NEW S, NEW words \in Seq(S), NEW i \in 2..Len(words), Entered(words),
         NEW dash \in BOOLEAN, words[i] \in AR!Offers(SubSeq(words, 1, i - 1), dash)
  PROVE  ValueOffered(words, i) \/ FlagOffered(words, i)
<1> DEFINE prior == SubSeq(words, 1, i - 1)
           cmd == AR!Lookup(words[1])
<1>1. /\ prior \in Seq(S) /\ Len(prior) = i - 1 /\ Entered(prior)
      /\ \A j \in 1..(i - 1) : prior[j] = words[j]
  BY PriorIs
<1>2. prior[1] = words[1] /\ prior[i - 1] = words[i - 1]
  BY <1>1
<1> HIDE DEF prior
<1>3. prior # <<>> /\ prior[1] # "completion"
  BY <1>1 DEF Entered
<1>4. AR!Chosen(prior) = cmd /\ cmd # None
  BY <1>1, <1>2, FirstChosen DEF Entered
<1>5. words[i] \in AR!Offers(prior, dash)
  BY DEF prior
<1> HIDE DEF cmd
<1>6. CASE words[i - 1] = "--sort"
  <2>1. AR!Offers(prior, dash) = IF dash \/ cmd = None THEN {} ELSE CommandLine.commands[cmd].sort
    BY <1>1, <1>2, <1>3, <1>4, <1>6 DEF AR!Offers
  <2>2. QED
    BY <1>5, <1>6, <2>1 DEF ValueOffered, cmd
<1>7. CASE words[i - 1] = "--color"
  <2>1. AR!Offers(prior, dash) = IF dash THEN {} ELSE CommandLine.colorModes
    BY <1>1, <1>2, <1>3, <1>7 DEF AR!Offers
  <2>2. QED
    BY <1>5, <1>7, <2>1 DEF ValueOffered
<1>8. CASE words[i - 1] \in {"-n", "--namespace"}
  <2>1. AR!Offers(prior, dash) = IF dash \/ AR!AskedContext(prior) \notin DOMAIN CommandLine.clusters
                                 THEN {} ELSE CommandLine.clusters[AR!AskedContext(prior)]
    BY <1>1, <1>2, <1>3, <1>8 DEF AR!Offers
  <2>2. QED
    BY <1>5, <1>8, <2>1 DEF ValueOffered, prior
<1>9. CASE words[i - 1] \notin {"--sort", "--color", "-n", "--namespace"}
  <2> DEFINE on == {g \in DOMAIN CommandLine.optionalTokens : AR!On(cmd, g)}
  <2>1. AR!Offers(prior, dash)
          = IF dash THEN CommandLine.tokens
                         \cup (IF cmd = None THEN {} ELSE UNION {CommandLine.optionalTokens[f] : f \in on})
            ELSE IF cmd # None THEN {} ELSE DOMAIN CommandLine.commands \cup {"completion"}
    BY <1>1, <1>2, <1>3, <1>4, <1>9 DEF AR!Offers
  <2>2. words[i] \in CommandLine.tokens \/ \E f \in on : words[i] \in CommandLine.optionalTokens[f]
    BY <1>4, <1>5, <2>1
  <2>3. QED
    BY <2>2 DEF FlagOffered, cmd
<1>10. QED
  BY <1>6, <1>7, <1>8, <1>9

(* What is offered is a flag of the command, without a value, or a value,   *)
(* after its flag.                                                          *)
LEMMA FlagOfferedIs ==
  ASSUME NEW S, NEW words \in Seq(S), NEW i \in 2..Len(words), Entered(words), FlagOffered(words, i)
  PROVE  /\ AR!IsFlag(words[i]) /\ ~AR!Inline(words[i])
         /\ \/ words[i] \in Excused
            \/ CommandLine.flag[words[i]].name \in AR!Registered(AR!Lookup(words[1]))
<1> DEFINE cmd == AR!Lookup(words[1])
<1>1. cmd \in DOMAIN CommandLine.commands
  BY LookedUp DEF Entered
<1>2. CASE words[i] \in CommandLine.tokens
  BY <1>2, CompletionWellFormed DEF AR!IsFlag, AR!Registered, Excused
<1>3. CASE \E f \in DOMAIN CommandLine.optionalTokens :
             AR!On(cmd, f) /\ words[i] \in CommandLine.optionalTokens[f]
  <2>1. PICK f \in DOMAIN CommandLine.optionalTokens :
           AR!On(cmd, f) /\ words[i] \in CommandLine.optionalTokens[f]
    BY <1>3
  <2>2. AR!IsFlag(words[i]) /\ ~AR!Inline(words[i])
    BY <2>1, CompletionWellFormed DEF AR!IsFlag
  <2>3. CommandLine.flag[words[i]].name \in AR!Registered(cmd)
    BY <1>1, <2>1, CompletionWellFormed
  <2>4. QED
    BY <2>2, <2>3
<1>4. QED
  BY <1>2, <1>3 DEF FlagOffered

LEMMA ValueOfferedIs ==
  ASSUME NEW S, NEW words \in Seq(S), NEW i \in 2..Len(words), Entered(words), ValueOffered(words, i)
  PROVE  ~AR!IsFlag(words[i]) /\ AR!IsFlag(words[i - 1]) /\ AR!TakesValue(words[i - 1])
<1> DEFINE cmd == AR!Lookup(words[1])
           w == words[i - 1]
           special == {"-n", "--namespace", "--sort", "--color"}
<1>1. cmd \in DOMAIN CommandLine.commands
  BY LookedUp DEF Entered
<1>2. w \in special
  BY DEF ValueOffered
<1>3. AR!IsFlag(w) /\ ~AR!Inline(w)
  BY <1>2, CompletionWellFormed DEF AR!IsFlag
<1>4. CommandLine.flag[w].name \in {"n", "namespace", "sort", "color"}
  BY <1>2, CompletionWellFormed
<1>5. AR!Kind(CommandLine.flag[w].name) = "string"
  BY <1>4, CompletionWellFormed
<1>6. ~AR!IsFlag(words[i])
  BY <1>1, CompletionWellFormed DEF ValueOffered, AR!IsFlag
<1>7. QED
  BY <1>3, <1>5, <1>6 DEF AR!TakesValue

(* A value that was offered and is set is one of its flag's.                *)
LEMMA SettingOffered ==
  ASSUME NEW S, NEW words \in Seq(S), NEW given, NEW set, Entered(words), OfferedFrom(words, given),
         SetFrom(words, set), NEW f \in DOMAIN set \cap {"sort", "color", "interval", "namespace"},
         NEW b, b = set[f].by, b \in given, PlainAt(words, b)
  PROVE  /\ b \in 3..Len(words) /\ set[f].value = words[b] /\ ValueOffered(words, b)
         /\ FlagAt(words, b - 1) = f
<1>1. PICK i \in 2..Len(words) :
        /\ AR!IsFlag(words[i]) /\ FlagAt(words, i) = f
        /\ ValueAt(words, i, b) /\ set[f].value = TextAt(words, i, b)
  BY DEF SetFrom
<1>2. AR!Kind(CommandLine.flag[words[i]].name) = "string"
  <2>1. CommandLine.flag[words[i]].name \in {"n", "namespace", "sort", "color", "interval"}
    BY <1>1 DEF FlagAt, AR!Canonical
  <2>2. QED
    BY <2>1, CompletionWellFormed
<1>3. b \in 2..Len(words) /\ b \in DOMAIN words
  BY <1>1 DEF ValueAt
<1>4. ValueOffered(words, b) \/ FlagOffered(words, b)
  <2>1. PICK dash \in BOOLEAN : words[b] \in AR!Offers(SubSeq(words, 1, b - 1), dash)
    BY DEF OfferedFrom
  <2>2. QED
    BY <1>3, <2>1, OfferIs
<1>5. b # i
  <2>1. SUFFICES ASSUME b = i PROVE FALSE
    OBVIOUS
  <2>2. ~AR!TakesValue(words[i])
    BY <2>1, <1>1 DEF ValueAt
  <2>3. AR!Inline(words[b]) /\ AR!IsFlag(words[b])
    BY <1>1, <1>2, <2>1, <2>2 DEF AR!TakesValue
  <2>4. QED
    BY <1>3, <1>4, <2>3, FlagOfferedIs, ValueOfferedIs
<1>6. b = i + 1 /\ AR!TakesValue(words[i]) /\ b - 1 = i /\ i \in 2..b
  BY <1>1, <1>5 DEF ValueAt
<1>7. ~AR!IsFlag(words[b])
  <2>1. RolesOf(words)[b] \notin {"end", "rest"} /\ ValuesPlain(words)
    BY DEF PlainAt
  <2>2. RolesOf(words)[i] = "flag"
    BY <1>1, <1>3, <1>6, <2>1, FlagThere
  <2>3. RolesOf(words)[b] = "value"
    BY <1>3, <1>6, <2>2, ValueThere
  <2>4. QED
    BY <1>3, <2>1, <2>3 DEF ValuesPlain
<1>8. ValueOffered(words, b)
  BY <1>3, <1>4, <1>7, FlagOfferedIs
<1>9. QED
  BY <1>1, <1>3, <1>6, <1>8 DEF TextAt

(* The cluster completion asks is the one the parser finds. *)
LEMMA ContextAsked ==
  ASSUME NEW words \in Seq(STRING), NEW set, NEW i \in 3..Len(words), Entered(words),
         SetFrom(words, set), FlagsSet(words, set, Len(words) + 1), PlainAt(words, i),
         "context" \in DOMAIN set =>
           (set["context"].value # None => set["context"].by < i)
  PROVE  AR!AskedContext(SubSeq(words, 1, i - 1))
           = IF "context" \in DOMAIN set THEN set["context"].value ELSE ""
<1> DEFINE prior == SubSeq(words, 1, i - 1)
           found == {j \in 1..(i - 1) :
                       /\ AR!IsFlag(words[j]) /\ CommandLine.flag[words[j]].dashes = 2
                       /\ CommandLine.flag[words[j]].name = "context"
                       /\ AR!Inline(words[j]) \/ j < i - 1}
<1>1. /\ Len(prior) = i - 1 /\ DOMAIN prior = 1..(i - 1) /\ \A j \in 1..(i - 1) : prior[j] = words[j]
  <2>1. i \in 2..Len(words)
    OBVIOUS
  <2>2. /\ prior \in Seq(STRING) /\ Len(prior) = i - 1 /\ \A j \in 1..(i - 1) : prior[j] = words[j]
    BY <2>1, PriorIs
  <2>3. QED
    BY <2>2
<1>2. AR!Contexts(prior) = found
  <2> HIDE DEF prior
  <2>1. QED
    BY <1>1 DEF AR!Contexts
<1>3. /\ RolesOf(words)[i] \notin {"end", "rest"} /\ ValuesPlain(words) /\ ~AR!IsFlag(words[1])
      /\ \A j \in DOMAIN words :
           AR!IsFlag(words[j]) /\ CommandLine.flag[words[j]].name = "context" =>
             CommandLine.flag[words[j]].dashes = 2
  BY LookedUp DEF PlainAt, Entered
<1>4. \A j \in found :
        /\ j \in 2..(i - 1) /\ j \in DOMAIN words /\ RolesOf(words)[j] = "flag"
        /\ "context" \in DOMAIN set /\ set["context"].by >= j
  <2>1. TAKE j \in found
  <2>2. j # 1 /\ j \in 2..i /\ i \in 2..Len(words) /\ j \in DOMAIN words /\ j < Len(words) + 1
    BY <1>3
  <2>3. RolesOf(words)[j] = "flag"
    BY <1>3, <2>2, FlagThere
  <2>4. AR!Canonical(CommandLine.flag[words[j]].name) = "context"
    BY DEF AR!Canonical
  <2>5. QED
    BY <2>2, <2>3, <2>4 DEF FlagsSet
<1>5. CASE "context" \notin DOMAIN set
  <2>1. found = {}
    BY <1>4, <1>5
  <2>2. QED
    BY <1>2, <1>5, <2>1, Zenon DEF AR!AskedContext
<1>6. CASE "context" \in DOMAIN set
  <2> DEFINE by == set["context"].by
             value == set["context"].value
  <2>1. PICK k \in 2..Len(words) :
          /\ AR!IsFlag(words[k]) /\ FlagAt(words, k) = "context"
          /\ ValueAt(words, k, by) /\ value = TextAt(words, k, by)
    BY <1>6 DEF SetFrom
  <2>2. CommandLine.flag[words[k]].name = "context"
    BY <2>1 DEF FlagAt, AR!Canonical
  <2>3. AR!TakesValue(words[k]) \/ AR!Inline(words[k])
    BY <2>1, <2>2, CompletionWellFormed DEF AR!TakesValue
  <2>4. \/ by = k /\ AR!Inline(words[k]) /\ value = CommandLine.flag[words[k]].value
        \/ /\ by = k + 1 /\ by \in DOMAIN words /\ AR!TakesValue(words[k]) /\ ~AR!Inline(words[k])
           /\ value = words[by]
    BY <2>1, <2>3 DEF ValueAt, TextAt, AR!TakesValue
  <2> HIDE DEF by, value
  <2>5. value # None
    BY <2>4, CompletionWellFormed DEF AR!Inline
  <2>6. by < i
    BY <1>6, <2>5 DEF by, value
  <2>7. k \in found
    <3>1. k \in DOMAIN words /\ k \in 1..(i - 1) /\ (by = k \/ k < i - 1)
      BY <2>4, <2>6
    <3>2. CommandLine.flag[words[k]].dashes = 2
      BY <1>3, <2>1, <2>2, <3>1
    <3>3. QED
      BY <2>1, <2>2, <2>4, <3>1, <3>2
  <2>8. \A j \in found : j <= k
    <3>1. TAKE j \in found
    <3>2. j <= by /\ j \in Nat
      BY <1>4 DEF by
    <3>3. SUFFICES ASSUME j = k + 1 PROVE FALSE
      BY <2>4, <3>2
    <3>4. by = k + 1 /\ AR!TakesValue(words[k]) /\ j - 1 = k /\ j \in 2..Len(words)
      BY <1>4, <2>4, <3>2, <3>3
    <3>5. RolesOf(words)[k] = "flag"
      BY <1>4, <2>7
    <3>6. RolesOf(words)[j] = "value"
      BY <3>4, <3>5, ValueThere
    <3>7. QED
      BY <1>4, <3>6
  <2> HIDE DEF found, prior
  <2>9. PICK m : m = CHOOSE l \in found : \A j \in found : j <= l
    OBVIOUS
  <2>10. m \in found /\ \A j \in found : j <= m
    BY <2>7, <2>8, <2>9, Zenon
  <2>11. m = k
    BY <1>4, <2>7, <2>8, <2>10
  <2>12. AR!AskedContext(prior) = IF AR!Inline(prior[m]) THEN CommandLine.flag[prior[m]].value ELSE prior[m + 1]
    <3>1. AR!Contexts(prior) # {} /\ m = CHOOSE l \in AR!Contexts(prior) : \A j \in AR!Contexts(prior) : j <= l
      BY <1>2, <2>7, <2>9, Zenon
    <3>2. AR!Inline(prior[m]) => AR!AskedContext(prior) = CommandLine.flag[prior[m]].value
      BY <3>1, Zenon DEF AR!AskedContext
    <3>3. ~AR!Inline(prior[m]) => AR!AskedContext(prior) = prior[m + 1]
      BY <3>1, Zenon DEF AR!AskedContext
    <3>4. QED
      BY <3>2, <3>3
  <2>13. prior[k] = words[k] /\ (by = k + 1 => prior[k + 1] = words[by])
    BY <1>1, <1>4, <2>6, <2>7
  <2>14. AR!AskedContext(prior) = value
    BY <2>4, <2>11, <2>12, <2>13
  <2>15. QED
    BY <1>6, <2>14 DEF value, prior
<1>7. QED
  BY <1>5, <1>6, Zenon

(* A namespace that was offered. *)
LEMMA NamespaceTold ==
  ASSUME NEW words \in Seq(STRING), NEW given, NEW set, Entered(words), OfferedFrom(words, given),
         SetFrom(words, set), ValuesPlain(words) => FlagsSet(words, set, Len(words) + 1)
  PROVE  NamespaceFair(words, given, set)
<1> DEFINE i == set["namespace"].by
           context == IF "context" \in DOMAIN set THEN set["context"].value ELSE None
<1>1. SUFFICES ASSUME "namespace" \in DOMAIN set, i \in given, PlainAt(words, i),
                      context # None => set["context"].by < i
               PROVE  words[i] \in CommandLine.clusters[IF context = None THEN "" ELSE context]
  BY Zenon DEF NamespaceFair
<1>2. /\ i \in 3..Len(words) /\ ValueOffered(words, i) /\ FlagAt(words, i - 1) = "namespace"
  BY <1>1, SettingOffered
<1>3. words[i] \in CommandLine.clusters[AR!AskedContext(SubSeq(words, 1, i - 1))]
  BY <1>2, CompletionWellFormed DEF ValueOffered, FlagAt, AR!Canonical
<1>4. FlagsSet(words, set, Len(words) + 1)
  BY <1>1 DEF PlainAt
<1>5. AR!AskedContext(SubSeq(words, 1, i - 1))
        = IF "context" \in DOMAIN set THEN set["context"].value ELSE ""
  BY <1>1, <1>2, <1>4, ContextAsked, Zenon
<1>6. "context" \in DOMAIN set => set["context"].value # None
  <2>1. SUFFICES ASSUME "context" \in DOMAIN set PROVE set["context"].value # None
    OBVIOUS
  <2>2. PICK k \in 2..Len(words) :
          /\ AR!IsFlag(words[k]) /\ FlagAt(words, k) = "context"
          /\ ValueAt(words, k, set["context"].by)
          /\ set["context"].value = TextAt(words, k, set["context"].by)
    BY <2>1 DEF SetFrom
  <2>3. CommandLine.flag[words[k]].name = "context"
    BY <2>2 DEF FlagAt, AR!Canonical
  <2>4. AR!TakesValue(words[k]) \/ AR!Inline(words[k])
    BY <2>2, <2>3, CompletionWellFormed DEF AR!TakesValue
  <2>5. CASE set["context"].by = k
    <3>1. AR!Inline(words[k])
      BY <2>2, <2>4, <2>5 DEF ValueAt
    <3>2. QED
      BY <2>2, <2>5, <3>1 DEF TextAt, AR!Inline
  <2>6. CASE set["context"].by # k
    <3>1. set["context"].by \in DOMAIN words
      BY <2>2, <2>6 DEF ValueAt
    <3>2. QED
      BY <2>2, <2>6, <3>1, CompletionWellFormed DEF TextAt
  <2>7. QED
    BY <2>5, <2>6
<1>7. (IF context = None THEN "" ELSE context)
        = IF "context" \in DOMAIN set THEN set["context"].value ELSE ""
  BY <1>6, Zenon
<1>8. QED
  BY <1>3, <1>5, <1>7, Zenon

-----------------------------------------------------------------------------
(* The steps of a line that is completed. *)

OfferInv ==
  /\ cluster \in Seq(STRING)
  /\ OfferedFrom(cluster, lists)
  /\ past.phase \in {"parsing", "checking"} => Entered(cluster) /\ SetFrom(cluster, past.set)
  /\ past.phase = "over" /\ past.code = 1 => BlameFair(cluster, lists, past.blame)
  /\ past.phase = "over" /\ past.code = None => NamespaceFair(cluster, lists, past.set)

LEMMA OfferBegins == AR!Init => OfferInv
BY CommandLineWellFormed DEF AR!Init, AR!Idle, OfferInv, OfferedFrom

LEMMA OffersWords ==
  ASSUME NEW prior, NEW dash \in BOOLEAN
  PROVE  AR!Offers(prior, dash) \subseteq STRING
<1> DEFINE cmd == AR!Chosen(prior)
           on == {g \in DOMAIN CommandLine.optionalTokens : AR!On(cmd, g)}
<1>1. cmd # None => cmd \in DOMAIN CommandLine.commands
  <2>1. SUFFICES ASSUME cmd # None PROVE cmd \in DOMAIN CommandLine.commands
    OBVIOUS
  <2>2. PICK w : cmd = AR!Lookup(w)
    BY <2>1, Zenon DEF AR!Chosen
  <2>3. QED
    BY <2>1, <2>2, LookedUp
<1>2. \A f \in on : CommandLine.optionalTokens[f] \subseteq STRING
  BY CompletionWellFormed
<1>3. CommandLine.tokens \subseteq STRING
  BY CompletionWellFormed
<1>4. cmd # None => CommandLine.commands[cmd].sort \subseteq STRING
  BY <1>1, CompletionWellFormed
<1>5. \A x \in DOMAIN CommandLine.clusters : CommandLine.clusters[x] \subseteq STRING
  BY CompletionWellFormed
<1>6. {"--dir", "completion", "install"} \subseteq STRING /\ DOMAIN CommandLine.commands \subseteq STRING
      /\ CommandLine.colorModes \subseteq STRING
  BY CompletionWellFormed
<1>7. UNION {CommandLine.optionalTokens[f] : f \in on} \subseteq STRING
  BY <1>2
<1> HIDE DEF cmd
<1>8. QED
  BY <1>3, <1>4, <1>5, <1>6, <1>7 DEF AR!Offers, cmd

(* A word more: what was offered before it still was. *)
LEMMA OfferTyped ==
  ASSUME LineInv, OfferInv, NEW w \in STRING, AR!Adds(w),
         \/ lists' = lists
         \/ /\ lists' = lists \cup {Len(cluster) + 1}
            /\ \E dash \in BOOLEAN : w \in AR!Offers(cluster, dash)
  PROVE  OfferInv'
<1> DEFINE n == Len(cluster)
<1>1. cluster \in Seq(STRING) /\ n \in Nat /\ DOMAIN cluster = 1..n
  BY DEF OfferInv
<1>2. cluster' = Append(cluster, w) /\ past.phase = "typing"
  BY DEF AR!Adds
<1>3. past'.phase = "typing"
  <2>1. PICK l : past' = [past EXCEPT !.left = l]
    BY Zenon DEF AR!Adds
  <2>2. past' = [phase |-> past.phase, left |-> l, at |-> past.at, from |-> past.from,
                 pos |-> past.pos, set |-> past.set, code |-> past.code, blame |-> past.blame]
    BY <2>1 DEF LineInv
  <2>3. QED
    BY <1>2, <2>2
<1>4. cluster' \in Seq(STRING) /\ DOMAIN cluster' = 1..n+1 /\ cluster'[n + 1] = w
      /\ \A i \in 1..n : cluster'[i] = cluster[i]
  BY <1>1, <1>2
<1>5. \A i \in 1..n : SubSeq(cluster', 1, i - 1) = SubSeq(cluster, 1, i - 1)
  BY <1>1, <1>2
<1>6. SubSeq(cluster', 1, (n + 1) - 1) = cluster
  BY <1>1, <1>2
<1>7. ASSUME NEW i \in lists'
      PROVE  /\ i \in DOMAIN cluster'
             /\ \E dash \in BOOLEAN : cluster'[i] \in AR!Offers(SubSeq(cluster', 1, i - 1), dash)
  <2>1. CASE i \in lists
    <3>1. i \in 1..n /\ \E dash \in BOOLEAN : cluster[i] \in AR!Offers(SubSeq(cluster, 1, i - 1), dash)
      BY <1>1, <2>1 DEF OfferInv, OfferedFrom
    <3>2. cluster'[i] = cluster[i] /\ SubSeq(cluster', 1, i - 1) = SubSeq(cluster, 1, i - 1)
      BY <1>4, <1>5, <3>1
    <3>3. i \in DOMAIN cluster'
      BY <1>1, <1>4, <3>1
    <3> HIDE DEF n
    <3>4. QED
      BY <3>1, <3>2, <3>3, Zenon
  <2>2. CASE i \notin lists
    <3>1. i = n + 1 /\ \E dash \in BOOLEAN : w \in AR!Offers(cluster, dash)
      BY <1>7, <2>2, Zenon
    <3>2. n + 1 \in DOMAIN cluster'
      BY <1>1, <1>4
    <3> HIDE DEF n
    <3>3. QED
      BY <1>4, <1>6, <3>1, <3>2, Zenon
  <2>3. QED
    BY <2>1, <2>2
<1>8. OfferedFrom(cluster', lists')
  BY <1>7 DEF OfferedFrom
<1>9. QED
  BY <1>3, <1>4, <1>8 DEF OfferInv

LEMMA OfferEnds ==
  ASSUME LineInv, OfferInv, NEW c \in {0, 1}, NEW b, AR!Ends(c, b),
         c = 1 => BlameFair(cluster, lists, b)
  PROVE  OfferInv'
<1>1. UNCHANGED <<cluster, lists>> /\ past' = [past EXCEPT !.phase = "over", !.code = c, !.blame = b]
  BY DEF AR!Ends, AR!Step
<1>2. past' = [phase |-> "over", left |-> past.left, at |-> past.at, from |-> past.from,
               pos |-> past.pos, set |-> past.set, code |-> c, blame |-> b]
  BY <1>1, Zenon DEF LineInv
<1>3. past'.phase = "over" /\ past'.code = c /\ c # None /\ past'.blame = b
  BY <1>2, CommandLineWellFormed
<1>4. QED
  BY <1>1, <1>3 DEF OfferInv

(* The line is taken on, with what is set. *)
LEMMA OfferGoes ==
  ASSUME LineInv, OfferInv, UNCHANGED <<cluster, lists>>, Entered(cluster),
         past'.phase \in {"parsing", "checking"}, SetFrom(cluster, past'.set)
  PROVE  OfferInv'
BY DEF OfferInv

(* No word is nobody's. *)
LEMMA NobodyBlamed ==
  ASSUME OfferInv
  PROVE  BlameFair(cluster, lists, 0)
<1>1. cluster \in Seq(STRING) /\ 0 \notin DOMAIN cluster
  BY DEF OfferInv
<1>2. QED
  BY <1>1 DEF OfferInv, OfferedFrom, BlameFair

(* A word that was offered, after the command. *)
LEMMA OfferedAt ==
  ASSUME OfferInv, Entered(cluster), NEW i \in lists \cap (2..Len(cluster))
  PROVE  ValueOffered(cluster, i) \/ FlagOffered(cluster, i)
<1>1. PICK dash \in BOOLEAN : cluster[i] \in AR!Offers(SubSeq(cluster, 1, i - 1), dash)
  BY DEF OfferInv, OfferedFrom
<1>2. cluster \in Seq(STRING)
  BY DEF OfferInv
<1>3. QED
  BY <1>1, <1>2, OfferIs

LEMMA FlagOfferedAt ==
  ASSUME OfferInv, Entered(cluster), NEW i \in lists \cap (2..Len(cluster)), AR!IsFlag(cluster[i])
  PROVE  /\ ~AR!Inline(cluster[i])
         /\ \/ cluster[i] \in Excused
            \/ CommandLine.flag[cluster[i]].name \in AR!Registered(AR!Lookup(cluster[1]))
<1>1. cluster \in Seq(STRING)
  BY DEF OfferInv
<1>2. ValueOffered(cluster, i) \/ FlagOffered(cluster, i)
  BY OfferedAt
<1>3. QED
  BY <1>1, <1>2, ValueOfferedIs, FlagOfferedIs

LEMMA OfferEntered == LineInv /\ OfferInv /\ AR!Enter => OfferInv'
<1> SUFFICES ASSUME LineInv, OfferInv, AR!Enter PROVE OfferInv'
  OBVIOUS
<1> DEFINE w == cluster[1]
           cmd == AR!Lookup(w)
           Watching == {i \in DOMAIN cluster : AR!WantsWatch(i)}
<1>1. cluster \in Seq(STRING) /\ past.phase = "typing" /\ past.set = <<>>
  BY DEF OfferInv, AR!Enter, LineInv, WordsTold
<1>2. CASE AR!Ends(1, 0) \/ AR!Ends(0, 0)
  BY <1>2, OfferEnds, NobodyBlamed
<1>3. CASE /\ cluster # <<>> /\ w = "completion" /\ Len(cluster) # 1
           /\ AR!Ends(IF cluster[2] = "install" THEN 0 ELSE 1, 2)
  <2>1. CASE cluster[2] = "install"
    BY <1>3, <2>1, OfferEnds
  <2>2. CASE cluster[2] # "install"
    <3>1. BlameFair(cluster, lists, 2)
      <4>1. SUFFICES ASSUME 2 \in lists PROVE cluster[2] = "--dir"
        BY DEF BlameFair, Excused
      <4>2. PICK dash \in BOOLEAN : cluster[2] \in AR!Offers(SubSeq(cluster, 1, 2 - 1), dash)
        BY <4>1 DEF OfferInv, OfferedFrom
      <4>3. PICK prior : prior = SubSeq(cluster, 1, 2 - 1)
        BY Zenon
      <4>4. prior # <<>> /\ prior[1] = "completion"
        BY <1>1, <1>3, <4>3
      <4>5. AR!Offers(prior, dash) = IF dash THEN {"--dir"} ELSE {"install"}
        BY <4>4 DEF AR!Offers
      <4>6. QED
        BY <2>2, <4>2, <4>3, <4>5
    <3>2. QED
      BY <1>3, <2>2, <3>1, OfferEnds
  <2>3. QED
    BY <2>1, <2>2
<1>4. CASE cluster # <<>> /\ w # "completion" /\ cmd = None /\ AR!Ends(1, 1)
  <2>1. BlameFair(cluster, lists, 1)
    <3>1. SUFFICES ASSUME 1 \in lists, ~AR!IsFlag(w) PROVE FALSE
      BY DEF BlameFair, PlainAt
    <3>2. PICK dash \in BOOLEAN : w \in AR!Offers(SubSeq(cluster, 1, 1 - 1), dash)
      BY <3>1 DEF OfferInv, OfferedFrom
    <3>3. SubSeq(cluster, 1, 1 - 1) = <<>>
      BY <1>1
    <3>4. AR!Chosen(<<>>) = None
      BY DEF AR!Chosen
    <3>5. AR!Offers(<<>>, dash) = IF dash THEN CommandLine.tokens
                                  ELSE DOMAIN CommandLine.commands \cup {"completion"}
      BY <3>4 DEF AR!Offers
    <3>6. w \in DOMAIN CommandLine.commands
      BY <1>4, <3>1, <3>2, <3>3, <3>5, CompletionWellFormed, Zenon DEF AR!IsFlag
    <3>7. cmd = w
      BY <3>6 DEF AR!Lookup
    <3>8. QED
      BY <1>4, <3>6, <3>7, CompletionWellFormed
  <2>2. QED
    BY <1>4, <2>1, OfferEnds
<1>5. CASE /\ Entered(cluster) /\ ~CommandLine.commands[cmd].watch /\ Watching # {}
           /\ AR!Ends(1, CHOOSE i \in DOMAIN cluster : AR!WantsWatch(i))
  <2>1. PICK b : b = CHOOSE i \in DOMAIN cluster : AR!WantsWatch(i)
    OBVIOUS
  <2>2. b \in DOMAIN cluster /\ AR!WantsWatch(b)
    BY <1>5, <2>1
  <2>3. BlameFair(cluster, lists, b)
    <3>1. SUFFICES ASSUME b \in lists, cluster[b] \notin Excused PROVE FALSE
      BY DEF BlameFair
    <3>2. b \in 2..Len(cluster) /\ AR!IsFlag(cluster[b])
          /\ CommandLine.flag[cluster[b]].name \in {"watch", "w"}
      BY <1>1, <2>2 DEF AR!WantsWatch, AR!Canonical
    <3>3. CommandLine.flag[cluster[b]].name \in AR!Registered(cmd)
      BY <1>5, <3>1, <3>2, FlagOfferedAt
    <3>4. ~AR!On(cmd, "watch") /\ ~AR!On(cmd, "w")
      BY <1>5 DEF AR!On
    <3>5. QED
      BY <3>2, <3>3, <3>4, CompletionWellFormed DEF AR!Registered
  <2>4. QED
    BY <1>5, <2>1, <2>3, OfferEnds
<1>6. CASE Entered(cluster) /\ AR!Step([past EXCEPT !.phase = "parsing", !.at = 2, !.from = 2])
  <2>1. UNCHANGED <<cluster, lists>> /\ past' = [past EXCEPT !.phase = "parsing", !.at = 2, !.from = 2]
    BY <1>6 DEF AR!Step
  <2>2. past' = [phase |-> "parsing", left |-> past.left, at |-> 2, from |-> 2,
                 pos |-> past.pos, set |-> past.set, code |-> past.code, blame |-> past.blame]
    BY <2>1, Zenon DEF LineInv
  <2>3. past'.phase = "parsing" /\ past'.set = <<>>
    BY <1>1, <2>2
  <2>4. SetFrom(cluster, <<>>)
    BY DEF SetFrom
  <2>5. QED
    BY <1>6, <2>1, <2>3, <2>4, OfferGoes
<1>7. QED
  BY <1>2, <1>3, <1>4, <1>5, <1>6 DEF AR!Enter, AR!Command, Entered

(* No word is offered for a duration. *)
LEMMA NoDurationOffered ==
  ASSUME OfferInv, Entered(cluster), NEW i \in 2..Len(cluster), i + 1 \in 2..Len(cluster),
         AR!IsFlag(cluster[i]), AR!TakesValue(cluster[i]),
         CommandLine.flag[cluster[i]].name \in {"interval", "request-timeout"}
  PROVE  BlameFair(cluster, lists, i + 1)
<1>1. cluster \in Seq(STRING)
  BY DEF OfferInv
<1>2. SUFFICES ASSUME i + 1 \in lists, PlainAt(cluster, i + 1) PROVE FALSE
  BY DEF BlameFair
<1>3. PICK j : j = i + 1 /\ j - 1 = i /\ j \in 2..Len(cluster) /\ i \in 2..j
  OBVIOUS
<1>4. RolesOf(cluster)[j] \notin {"end", "rest"} /\ ValuesPlain(cluster)
  BY <1>2, <1>3 DEF PlainAt
<1>5. RolesOf(cluster)[i] = "flag"
  BY <1>1, <1>3, <1>4, FlagThere
<1>6. RolesOf(cluster)[j] = "value"
  BY <1>1, <1>3, <1>5, ValueThere
<1>7. ~AR!IsFlag(cluster[j])
  BY <1>3, <1>4, <1>6 DEF ValuesPlain
<1>8. ValueOffered(cluster, j)
  BY <1>1, <1>2, <1>3, <1>7, OfferedAt, FlagOfferedIs
<1>9. cluster[i] \in {"-n", "--namespace", "--sort", "--color"}
  BY <1>3, <1>8 DEF ValueOffered
<1>10. CommandLine.flag[cluster[i]].name \in {"n", "namespace", "sort", "color"}
  BY <1>9, CompletionWellFormed
<1>11. QED
  BY <1>10

LEMMA OfferFlagParsed == LineInv /\ OfferInv /\ AR!ParseFlag => OfferInv'
<1> SUFFICES ASSUME LineInv, OfferInv, AR!ParseFlag PROVE OfferInv'
  OBVIOUS
<1> DEFINE i == past.at
           w == cluster[i]
           f == CommandLine.flag[w].name
<1>1. cluster \in Seq(STRING) /\ past.phase = "parsing" /\ Entered(cluster) /\ SetFrom(cluster, past.set)
  BY DEF OfferInv, AR!ParseFlag, AR!More, AR!Parsing
<1>2. i \in 2..Len(cluster) /\ AR!IsFlag(w)
  <2>1. i \in 2..(Len(cluster) + 1)
    BY <1>1 DEF LineInv, WordsTold
  <2>2. i <= Len(cluster)
    BY DEF AR!ParseFlag, AR!More
  <2>3. QED
    BY <1>1, <2>1, <2>2 DEF AR!ParseFlag, AR!Here
<1>3. \/ AR!Ends(1, i) /\ (f \notin AR!Registered(AR!Command) \/ AR!Inline(w))
      \/ AR!Ends(1, 0)
      \/ /\ AR!Ends(1, i + 1) /\ i + 1 \in 2..Len(cluster) /\ AR!TakesValue(w)
         /\ f \in {"interval", "request-timeout"}
      \/ \E by, v : AR!Sets(f, v, by, by + 1) /\ ValueAt(cluster, i, by) /\ v = TextAt(cluster, i, by)
  <2>1. CASE f \notin AR!Registered(AR!Command)
    BY <2>1 DEF AR!ParseFlag, AR!Here
  <2>2. CASE f \in AR!Registered(AR!Command) /\ AR!Kind(f) = "bool"
    <3>1. ValueAt(cluster, i, i)
      BY <2>2 DEF ValueAt, AR!TakesValue
    <3>2. TextAt(cluster, i, i) = IF AR!Inline(w) THEN CommandLine.flag[w].value ELSE "true"
      BY DEF TextAt
    <3>3. \/ AR!Inline(w) /\ AR!Ends(1, i)
          \/ AR!Sets(f, IF AR!Inline(w) THEN CommandLine.flag[w].value ELSE "true", i, i + 1)
      BY <2>2 DEF AR!ParseFlag, AR!Here
    <3>4. QED
      BY <3>1, <3>2, <3>3
  <2>3. CASE f \in AR!Registered(AR!Command) /\ AR!Kind(f) # "bool"
    <3>1. AR!Kind(f) = "string"
      BY <2>3, KindOf
    <3>2. CASE AR!Inline(w)
      <4>1. AR!Ends(1, i) \/ AR!Sets(f, CommandLine.flag[w].value, i, i + 1)
        BY <2>3, <3>2 DEF AR!ParseFlag, AR!Here
      <4>2. ValueAt(cluster, i, i) /\ TextAt(cluster, i, i) = CommandLine.flag[w].value
        BY <3>2 DEF ValueAt, AR!TakesValue, TextAt
      <4>3. QED
        BY <3>2, <4>1, <4>2
    <3>3. CASE ~AR!Inline(w)
      <4>1. \/ AR!Ends(1, 0)
            \/ i # Len(cluster) /\ AR!Rejects(f, cluster[i + 1]) /\ AR!Ends(1, i + 1)
            \/ i # Len(cluster) /\ AR!Sets(f, cluster[i + 1], i + 1, i + 2)
        BY <2>3, <3>1, <3>3 DEF AR!ParseFlag, AR!Here
      <4>2. i # Len(cluster) => ValueAt(cluster, i, i + 1) /\ TextAt(cluster, i, i + 1) = cluster[i + 1]
        BY <1>1, <1>2, <3>1, <3>3 DEF ValueAt, AR!TakesValue, TextAt
      <4>3. i + 2 = (i + 1) + 1 /\ (i # Len(cluster) => i + 1 \in 2..Len(cluster))
        BY <1>1, <1>2
      <4>4. AR!Rejects(f, cluster[i + 1]) => f \in {"interval", "request-timeout"}
        BY <3>1 DEF AR!Rejects
      <4>5. AR!TakesValue(w)
        BY <1>2, <3>1, <3>3 DEF AR!TakesValue
      <4>6. QED
        BY <4>1, <4>2, <4>3, <4>4, <4>5
    <3>4. QED
      BY <3>2, <3>3
  <2>4. QED
    BY <2>1, <2>2, <2>3
<1>4. CASE AR!Ends(1, i) /\ (f \notin AR!Registered(AR!Command) \/ AR!Inline(w))
  <2>1. i \in lists => ~AR!Inline(w) /\ (w \in Excused \/ f \in AR!Registered(AR!Command))
    BY <1>1, <1>2, FlagOfferedAt DEF AR!Command
  <2>2. BlameFair(cluster, lists, i)
    BY <1>4, <2>1 DEF BlameFair
  <2>3. QED
    BY <1>4, <2>2, OfferEnds
<1>5. CASE AR!Ends(1, 0)
  BY <1>5, OfferEnds, NobodyBlamed
<1>6. ASSUME NEW by, NEW v, AR!Sets(f, v, by, by + 1), ValueAt(cluster, i, by), v = TextAt(cluster, i, by)
      PROVE  OfferInv'
  <2>1. PICK set : set = SetTo(past.set, FlagAt(cluster, i), v, by)
    OBVIOUS
  <2>2. PICK at : at = by + 1
    OBVIOUS
  <2>3. UNCHANGED <<cluster, lists>> /\ past' = [past EXCEPT !.at = at, !.set = set]
    BY <1>6, <2>1, <2>2 DEF AR!Sets, AR!Step, SetTo, FlagAt
  <2>4. past' = [phase |-> past.phase, left |-> past.left, at |-> at, from |-> past.from,
                 pos |-> past.pos, set |-> set, code |-> past.code, blame |-> past.blame]
    BY <2>3, Zenon DEF LineInv
  <2>5. past'.phase = "parsing" /\ past'.set = set
    BY <1>1, <2>4
  <2>6. SetFrom(cluster, set)
    <3>1. \A g \in DOMAIN set : \/ g = FlagAt(cluster, i) /\ set[g].by = by /\ set[g].value = v
                                \/ g \in DOMAIN past.set /\ set[g] = past.set[g]
      BY <2>1 DEF SetTo
    <3> HIDE DEF i
    <3>2. QED
      BY <1>1, <1>2, <1>6, <3>1 DEF SetFrom
  <2>7. QED
    BY <1>1, <2>3, <2>5, <2>6, OfferGoes, SMTT(30)
<1>7. CASE /\ AR!Ends(1, i + 1) /\ i + 1 \in 2..Len(cluster) /\ AR!TakesValue(w)
           /\ f \in {"interval", "request-timeout"}
  <2>1. BlameFair(cluster, lists, i + 1)
    BY <1>1, <1>2, <1>7, NoDurationOffered
  <2>2. QED
    BY <1>7, <2>1, OfferEnds
<1>8. QED
  BY <1>3, <1>4, <1>5, <1>6, <1>7

LEMMA OfferStopped == LineInv /\ OfferInv /\ AR!ParseStops => OfferInv'
<1> SUFFICES ASSUME LineInv, OfferInv, AR!ParseStops PROVE OfferInv'
  OBVIOUS
<1>1. past.phase = "parsing" /\ Entered(cluster) /\ SetFrom(cluster, past.set)
  BY DEF OfferInv, AR!ParseStops, AR!Parsing
<1>2. \/ \E pos : AR!Checking(pos)
      \/ \E pos, at, from : AR!Step([past EXCEPT !.pos = pos, !.at = at, !.from = from])
  BY Zenon DEF AR!ParseStops
<1>3. CASE \E pos : AR!Checking(pos)
  <2>1. PICK pos : UNCHANGED <<cluster, lists>> /\ past' = [past EXCEPT !.phase = "checking", !.pos = pos]
    BY <1>3, Zenon DEF AR!Checking, AR!Step
  <2>2. past' = [phase |-> "checking", left |-> past.left, at |-> past.at, from |-> past.from,
                 pos |-> pos, set |-> past.set, code |-> past.code, blame |-> past.blame]
    BY <2>1, Zenon DEF LineInv
  <2>3. past'.phase = "checking" /\ past'.set = past.set
    BY <2>2
  <2>4. QED
    BY <1>1, <2>1, <2>3, OfferGoes
<1>4. CASE \E pos, at, from : AR!Step([past EXCEPT !.pos = pos, !.at = at, !.from = from])
  <2>1. PICK pos, at, from : /\ UNCHANGED <<cluster, lists>>
                             /\ past' = [past EXCEPT !.pos = pos, !.at = at, !.from = from]
    BY <1>4, Zenon DEF AR!Step
  <2>2. past' = [phase |-> past.phase, left |-> past.left, at |-> at, from |-> from,
                 pos |-> pos, set |-> past.set, code |-> past.code, blame |-> past.blame]
    BY <2>1, Zenon DEF LineInv
  <2>3. past'.phase = "parsing" /\ past'.set = past.set
    BY <1>1, <2>2
  <2>4. QED
    BY <1>1, <2>1, <2>3, OfferGoes
<1>5. QED
  BY <1>2, <1>3, <1>4, Zenon

(* No positional word was offered. *)
LEMMA NoNameOffered ==
  ASSUME LineInv, OfferInv, past.phase = "checking", NEW i \in AR!Range(past.pos),
         i \in lists, PlainAt(cluster, i)
  PROVE  FALSE
<1>1. cluster \in Seq(STRING) /\ Entered(cluster) /\ ValuesPlain(cluster)
      /\ RolesOf(cluster)[i] \notin {"end", "rest"} /\ ~AR!IsFlag(cluster[1])
  BY LookedUp DEF OfferInv, PlainAt, Entered
<1>2. i \in DOMAIN cluster /\ RolesOf(cluster)[i] \in {"name", "rest"}
  <2>1. NoneBare(cluster)
    BY <1>1 DEF NoneBare, ValuesPlain
  <2>2. past.pos = Kept(Positions(cluster), NamesTo(cluster, Len(cluster) + 1))
    BY <2>1 DEF LineInv, WordsTold, WordsChecked
  <2>3. Positions(cluster) \in Seq(Nat)
    BY <1>1 DEF Positions
  <2>4. Range(past.pos) = {x \in Range(Positions(cluster)) : x \in NamesTo(cluster, Len(cluster) + 1)}
    BY <2>2, <2>3, KeptIs
  <2>5. i \in Range(past.pos)
    BY DEF AR!Range, Range
  <2>6. QED
    BY <2>4, <2>5 DEF NamesTo
<1>3. RolesOf(cluster)[i] = "name"
  BY <1>1, <1>2
<1>4. i \in 2..Len(cluster)
  <2>1. i # 1
    BY <1>1, <1>2, <1>3, RolesAre
  <2>2. QED
    BY <1>1, <1>2, <2>1
<1>5. ~AR!IsFlag(cluster[i])
  <2>1. i \in 2..i
    BY <1>4
  <2>2. AR!IsFlag(cluster[i]) => RolesOf(cluster)[i] = "flag"
    BY <1>1, <1>4, <2>1, FlagThere
  <2>3. QED
    BY <1>3, <2>2
<1>6. ValueOffered(cluster, i)
  BY <1>1, <1>4, <1>5, OfferedAt, FlagOfferedIs
<1>7. AR!IsFlag(cluster[i - 1]) /\ AR!TakesValue(cluster[i - 1])
  BY <1>1, <1>4, <1>6, ValueOfferedIs
<1>8. i - 1 \in 2..i
  <2>1. i - 1 # 1
    BY <1>1, <1>7
  <2>2. QED
    BY <1>4, <2>1
<1>9. RolesOf(cluster)[i - 1] = "flag"
  BY <1>1, <1>4, <1>7, <1>8, FlagThere
<1>10. RolesOf(cluster)[i] = "value"
  BY <1>1, <1>4, <1>7, <1>9, ValueThere
<1>11. QED
  BY <1>3, <1>10

(* No setting that was offered is refused. *)
LEMMA NoSettingRefused ==
  ASSUME OfferInv, past.phase = "checking", NEW f \in {"sort", "color", "interval"},
         NEW bad, AR!Value(f) \in bad, None \notin bad,
         f = "sort" => CommandLine.commands[AR!Command].sort \cap bad = {},
         f = "color" => CommandLine.colorModes \cap bad = {}
  PROVE  BlameFair(cluster, lists, past.set[f].by)
<1> DEFINE b == past.set[f].by
<1>1. cluster \in Seq(STRING) /\ Entered(cluster) /\ SetFrom(cluster, past.set)
      /\ OfferedFrom(cluster, lists)
  BY DEF OfferInv
<1>2. f \in DOMAIN past.set /\ past.set[f].value \in bad
  BY DEF AR!Value
<1>3. SUFFICES ASSUME b \in lists, PlainAt(cluster, b) PROVE FALSE
  BY DEF BlameFair
<1>4. /\ b \in 3..Len(cluster) /\ past.set[f].value = cluster[b] /\ ValueOffered(cluster, b)
      /\ FlagAt(cluster, b - 1) = f
  <2>1. f \in DOMAIN past.set \cap {"sort", "color", "interval", "namespace"}
    BY <1>2, SMTT(30)
  <2>2. QED
    BY <1>1, <1>3, <2>1, SettingOffered
<1>5. \/ f = "sort" /\ cluster[b] \in CommandLine.commands[AR!Command].sort
      \/ f = "color" /\ cluster[b] \in CommandLine.colorModes
  BY <1>4, CompletionWellFormed DEF ValueOffered, FlagAt, AR!Canonical, AR!Command
<1>6. QED
  BY <1>2, <1>4, <1>5

LEMMA OfferChecked == LineInv /\ OfferInv /\ AR!Check => OfferInv'
<1> SUFFICES ASSUME LineInv, OfferInv, AR!Check PROVE OfferInv'
  OBVIOUS
<1>1. past.phase = "checking" /\ Entered(cluster) /\ SetFrom(cluster, past.set)
      /\ cluster \in Seq(STRING) /\ OfferedFrom(cluster, lists)
  BY DEF OfferInv, AR!Check
<1>2. CASE AR!Wrong # {} /\ AR!Ends(1, CHOOSE i \in AR!Wrong : \A j \in AR!Wrong : i <= j)
  <2>1. PICK b : b = CHOOSE i \in AR!Wrong : \A j \in AR!Wrong : i <= j
    OBVIOUS
  <2>2. AR!Wrong \subseteq AR!Range(past.pos)
    BY DEF AR!Wrong
  <2>3. ASSUME PlainAt(cluster, b) PROVE b \in AR!Wrong
    <3>1. NoneBare(cluster)
      BY <2>3 DEF NoneBare, PlainAt, ValuesPlain
    <3>2. past.pos = Kept(Positions(cluster), NamesTo(cluster, Len(cluster) + 1))
      BY <1>1, <3>1 DEF LineInv, WordsTold, WordsChecked
    <3>3. Positions(cluster) \in Seq(Nat)
      BY <1>1 DEF Positions
    <3>4. past.pos \in Seq(Nat)
      BY <3>2, <3>3, KeptIs
    <3>5. AR!Wrong \in SUBSET Nat
      BY <2>2, <3>4 DEF AR!Range
    <3>6. \E m \in AR!Wrong : \A k \in AR!Wrong : m <= k
      BY <1>2, <3>5, SmallestElement
    <3>7. QED
      BY <2>1, <3>6, Zenon
  <2>4. BlameFair(cluster, lists, b)
    BY <1>1, <2>2, <2>3, NoNameOffered DEF BlameFair
  <2>5. QED
    BY <1>2, <2>1, <2>4, OfferEnds
<1>3. CASE AR!BadSort /\ AR!Ends(1, past.set["sort"].by)
  <2> DEFINE bad == {AR!Value("sort")} \ ({None, ""} \cup CommandLine.commands[AR!Command].sort)
  <2>1. AR!Value("sort") \in bad /\ None \notin bad /\ CommandLine.commands[AR!Command].sort \cap bad = {}
    BY <1>3, Zenon DEF AR!BadSort
  <2> HIDE DEF bad
  <2>2. BlameFair(cluster, lists, past.set["sort"].by)
    BY <1>1, <2>1, NoSettingRefused
  <2>3. QED
    BY <1>3, <2>2, OfferEnds
<1>4. CASE AR!BadInterval /\ AR!Ends(1, past.set["interval"].by)
  <2>1. AR!Value("interval") \in CommandLine.lowIntervals /\ None \notin CommandLine.lowIntervals
    BY <1>4, CompletionWellFormed DEF AR!BadInterval
  <2>2. BlameFair(cluster, lists, past.set["interval"].by)
    BY <1>1, <2>1, NoSettingRefused
  <2>3. QED
    BY <1>4, <2>2, OfferEnds
<1>5. CASE AR!BadColor /\ AR!Ends(1, past.set["color"].by)
  <2> DEFINE bad == {AR!Value("color")} \ ({None, ""} \cup CommandLine.colorModes)
  <2>1. AR!Value("color") \in bad /\ None \notin bad /\ CommandLine.colorModes \cap bad = {}
    BY <1>5, Zenon DEF AR!BadColor
  <2> HIDE DEF bad
  <2>2. BlameFair(cluster, lists, past.set["color"].by)
    BY <1>1, <2>1, NoSettingRefused
  <2>3. QED
    BY <1>5, <2>2, OfferEnds
<1>6. CASE AR!Ends(None, 0)
  <2>1. UNCHANGED <<cluster, lists>> /\ past' = [past EXCEPT !.phase = "over", !.code = None, !.blame = 0]
    BY <1>6 DEF AR!Ends, AR!Step
  <2>2. past' = [phase |-> "over", left |-> past.left, at |-> past.at, from |-> past.from,
                 pos |-> past.pos, set |-> past.set, code |-> None, blame |-> 0]
    BY <2>1, Zenon DEF LineInv
  <2>3. past'.phase = "over" /\ past'.code = None /\ past'.set = past.set /\ None # 1
    BY <2>2, CommandLineWellFormed
  <2>4. ValuesPlain(cluster) => FlagsSet(cluster, past.set, Len(cluster) + 1)
    BY <1>1 DEF LineInv, WordsTold, WordsChecked, NoneBare, ValuesPlain
  <2>5. NamespaceFair(cluster, lists, past.set)
    BY <1>1, <2>4, NamespaceTold
  <2>6. QED
    BY <2>1, <2>3, <2>5 DEF OfferInv
<1>7. QED
  BY <1>2, <1>3, <1>4, <1>5, <1>6 DEF AR!Check

LEMMA OfferSteps == LineInv /\ OfferInv /\ (AR!Next \/ UNCHANGED viewVars) => OfferInv'
<1> SUFFICES ASSUME LineInv, OfferInv, AR!Next \/ UNCHANGED viewVars PROVE OfferInv'
  OBVIOUS
<1>1. CASE UNCHANGED viewVars
  BY <1>1 DEF OfferInv, viewVars
<1>2. ASSUME NEW w \in CommandLine.words, AR!Type(w) PROVE OfferInv'
  <2>1. w \in STRING
    BY CompletionWellFormed
  <2>2. QED
    BY <1>2, <2>1, OfferTyped DEF AR!Type
<1>3. ASSUME NEW dash \in BOOLEAN, AR!Tab(dash) PROVE OfferInv'
  <2>1. PICK w \in AR!Offers(cluster, dash) : AR!Adds(w)
    BY <1>3 DEF AR!Tab
  <2>2. w \in STRING
    BY OffersWords
  <2>3. lists' = lists \cup {Len(cluster) + 1}
    BY <1>3 DEF AR!Tab
  <2>4. QED
    BY <2>1, <2>2, <2>3, OfferTyped, Zenon
<1>4. CASE AR!Over
  BY <1>4 DEF OfferInv, AR!Over, AR!vars
<1>5. QED
  BY <1>1, <1>2, <1>3, <1>4, OfferEntered, OfferFlagParsed, OfferStopped, OfferChecked DEF AR!Next

(* What OffersAccepted says, from the invariant. *)
LEMMA OffersShown == OfferInv => AR!OffersAccepted
<1> SUFFICES ASSUME OfferInv PROVE AR!OffersAccepted
  OBVIOUS
<1>1. AR!Roles = RolesOf(cluster)
  BY Zenon DEF AR!Roles, RolesOf
<1>2. \A i : AR!Plain(i) <=> PlainAt(cluster, i)
  BY <1>1 DEF AR!Plain, PlainAt, ValuesPlain
<1>3. past.phase = "over" /\ past.code = 1 /\ past.blame \in lists =>
        cluster[past.blame] \in {"--version", "--help", "-h", "--dir"} \/ ~AR!Plain(past.blame)
  BY <1>2 DEF OfferInv, BlameFair, Excused
<1>4. AR!Accepted => NamespaceFair(cluster, lists, past.set)
  BY DEF AR!Accepted, OfferInv
<1>5. ASSUME AR!Accepted, "namespace" \in DOMAIN past.set
      PROVE  LET i == past.set["namespace"].by
                 context == AR!Value("context")
             IN  i \in lists /\ (context # None => past.set["context"].by < i) /\ AR!Plain(i) =>
                   cluster[i] \in CommandLine.clusters[IF context = None THEN "" ELSE context]
  BY <1>2, <1>4, <1>5, Zenon DEF NamespaceFair, AR!Value
<1>6. QED
  BY <1>3, <1>5, Zenon DEF AR!OffersAccepted

LEMMA OfferInvariance == Spec => [](view = "arguments" => LineInv /\ OfferInv)
<1>1. Init => (view = "arguments" => LineInv /\ OfferInv)
  BY LineBegins, OfferBegins DEF Init
<1>2. (view = "arguments" => LineInv /\ OfferInv) /\ [Next]_vars =>
        (view = "arguments" => LineInv /\ OfferInv)'
  BY OneView, LineSteps, OfferSteps
<1>3. QED
  BY <1>1, <1>2, PTL DEF Spec

(* Whatever a line is completed to, in any order of typing and completing,  *)
(* dispatch refuses no word that was offered, but for --version, --help and *)
(* -h after a command and --dir without install, which completion offers    *)
(* where nothing takes them; and a namespace offered is one of the cluster  *)
(* that --context names (cli/complete.go, cli/cli.go). The line starts with *)
(* its command and no flag's value looks like a flag, see Plain.            *)
THEOREM OffersAlwaysAccepted == Spec => []OffersAccepted
<1>1. (view = "arguments" => LineInv /\ OfferInv) => OffersAccepted
  BY OffersShown DEF OffersAccepted
<1>2. QED
  BY <1>1, OfferInvariance, PTL

-----------------------------------------------------------------------------
(* Types, and the bounds of a run. *)

LEMMA BudgetTyped == BudgetInv => PD!TypeOK
BY DEF BudgetInv, BudgetTypes, PD!TypeOK

LEMMA ScalerTyped == ScalerInv => HP!TypeOK
BY DEF ScalerInv, ScalerTypes, HP!TypeOK

(* A status never counts more available pods than ready ones. *)
RolloutBounds ==
  /\ kind \in Kinds /\ desired \in 0..MaxDesired
  /\ edits \in 0..MaxEdits /\ generation <= edits + 1
  /\ status.available <= status.ready

LEMMA RolloutBounded ==
  /\ RO!Init => RolloutBounds
  /\ RolloutInv /\ RolloutBounds /\ (RO!Next \/ UNCHANGED rolloutVars) => RolloutBounds'
<1>1. ASSUME RO!Init PROVE RolloutBounds
  <2>1. kind \in Kinds /\ desired \in 1..MaxDesired /\ edits = 0 /\ generation = 1
    BY <1>1 DEF RO!Init
  <2>2. \/ status = RO!Unobserved
        \/ status = [RO!Unobserved EXCEPT !.observed = 1, !.desired = desired,
                       !.ready = desired, !.updated = desired, !.available = desired]
    BY <1>1, Zenon DEF RO!Init
  <2>3. CASE status = RO!Unobserved
    BY <2>1, <2>3, RolloutsWellFormed DEF RO!Unobserved, RolloutBounds
  <2>4. CASE status # RO!Unobserved
    <3>1. status = [observed |-> 1, desired |-> desired, ready |-> desired, updated |-> desired,
                    available |-> desired, failed |-> FALSE, paused |-> FALSE]
      BY <2>2, <2>4, Zenon DEF RO!Unobserved
    <3>2. status.available = desired /\ status.ready = desired
      BY <3>1
    <3>3. QED
      BY <2>1, <3>2, RolloutsWellFormed DEF RolloutBounds
  <2>5. QED
    BY <2>3, <2>4
<1>2. ASSUME RolloutInv, RolloutBounds, RO!Next \/ UNCHANGED rolloutVars PROVE RolloutBounds'
  <2>1. RO!Ready \in Nat /\ generation \in Nat
    BY <1>2 DEF RolloutInv, RolloutTypes, Count, RO!Templates, RO!Ready
  <2>2. ASSUME RO!Edited, desired' \in 0..MaxDesired, generation' \in {generation, generation + 1}
        PROVE  RolloutBounds'
    BY <1>2, <2>1, <2>2, RolloutsWellFormed DEF RO!Edited, RolloutBounds
  <2>3. CASE RO!EditTemplate \/ RO!PauseResume
    <3>1. RO!Edited /\ desired' = desired /\ generation' = generation + 1
      BY <2>3, Zenon DEF RO!EditTemplate, RO!PauseResume
    <3>2. QED
      BY <1>2, <2>2, <3>1 DEF RolloutBounds
  <2>4. CASE RO!Scale
    <3>1. RO!Edited /\ desired' \in 0..MaxDesired
      BY <2>4 DEF RO!Scale
    <3>2. generation' \in {generation, generation + 1}
      BY <2>4 DEF RO!Scale
    <3>3. QED
      BY <2>2, <3>1, <3>2
  <2>5. CASE RO!Sync
    <3>1. PICK a \in {0, RO!Ready}, f \in BOOLEAN :
            status' = [observed |-> generation, desired |-> desired, ready |-> RO!Ready,
                       updated |-> ready.new + unready.new, available |-> a, failed |-> f,
                       paused |-> paused]
      BY <2>5, Zenon DEF RO!Sync
    <3>2. UNCHANGED <<kind, desired, generation, edits>>
      BY <2>5, Zenon DEF RO!Sync, RO!specVars
    <3>3. status'.available = a /\ status'.ready = RO!Ready
      BY <3>1, Zenon
    <3>4. QED
      BY <1>2, <2>1, <3>1, <3>2, <3>3 DEF RolloutBounds
  <2>6. CASE \E r, u : RO!Controller(r, u)
    BY <1>2, <2>6, Zenon DEF RO!Controller, RO!specVars, RolloutBounds
  <2>7. CASE UNCHANGED rolloutVars
    BY <1>2, <2>7, Zenon DEF rolloutVars, RolloutBounds
  <2>8. RO!Create \/ (\E t \in RO!Templates : RO!RemoveReady(t) \/ RO!RemoveUnready(t)
                                              \/ RO!BecomeReady(t) \/ RO!Crash(t))
          => \E r, u : RO!Controller(r, u)
    BY Zenon DEF RO!Create, RO!RemoveReady, RO!RemoveUnready, RO!BecomeReady, RO!Crash
  <2>9. QED
    BY <1>2, <2>3, <2>4, <2>5, <2>6, <2>7, <2>8, Zenon DEF RO!Next
<1>3. QED
  BY <1>1, <1>2

LEMMA RolloutTyped == RolloutInv /\ RolloutBounds => RO!TypeOK
<1> SUFFICES ASSUME RolloutInv, RolloutBounds PROVE RO!TypeOK
  OBVIOUS
<1>1. \A t \in RO!Templates : ready[t] >= 0 /\ unready[t] >= 0
  BY DEF RolloutInv, RolloutTypes, Count
<1>2. generation \in 1..(MaxEdits + 1) /\ status.observed <= generation
  BY RolloutsWellFormed DEF RolloutInv, RolloutTypes, Synced, RolloutBounds
<1>3. RO!Verdict(RO!Row) \in {"SCALED-ZERO", "STALLED", "DOWN", "NOT-OBSERVED", "PAUSED",
                               "PROGRESSING", "OK"}
  BY Zenon DEF RO!Verdict
<1>4. QED
  BY <1>1, <1>2, <1>3 DEF RO!TypeOK, RolloutBounds

LEMMA DeletionTyped == DeletionInv => TM!TypeOK
BY DEF DeletionInv, DeletionTypes, DeletionReads, Dated, TM!TypeOK

LEMMA ResizeTyped == ResizeInv => RE!TypeOK
BY DEF ResizeInv, ResizeTypes, ResizePast, RE!TypeOK

(* The positions a run keeps are of words of the line. *)
RunPlaced ==
  /\ past.code \in {0, 1, None} /\ past.blame \in {0} \cup 1..Len(cluster)
  /\ past.pos \in Seq(1..Len(cluster))
  /\ \A f \in DOMAIN past.set : past.set[f].by \in 1..Len(cluster)

LEMMA RunEnds ==
  ASSUME LineInv, RunPlaced, NEW c \in {0, 1, None}, NEW b \in {0} \cup 1..Len(cluster), AR!Ends(c, b)
  PROVE  RunPlaced'
<1>1. cluster' = cluster /\ past' = [past EXCEPT !.phase = "over", !.code = c, !.blame = b]
  BY DEF AR!Ends, AR!Step
<1>2. past' = [phase |-> "over", left |-> past.left, at |-> past.at, from |-> past.from,
               pos |-> past.pos, set |-> past.set, code |-> c, blame |-> b]
  BY <1>1, Zenon DEF LineInv
<1>3. past'.pos = past.pos /\ past'.set = past.set /\ past'.code = c /\ past'.blame = b
  BY <1>2
<1>4. QED
  BY <1>1, <1>3 DEF RunPlaced

LEMMA RunAdds ==
  ASSUME LineInv, RunPlaced, NEW w, AR!Adds(w)
  PROVE  RunPlaced'
<1>1. PICK S : cluster \in Seq(S)
  BY DEF LineInv
<1>2. Len(cluster) \in Nat /\ Len(cluster') = Len(cluster) + 1
  BY <1>1 DEF AR!Adds
<1>3. PICK l : past' = [past EXCEPT !.left = l]
  BY Zenon DEF AR!Adds
<1>4. past' = [phase |-> past.phase, left |-> l, at |-> past.at, from |-> past.from,
               pos |-> past.pos, set |-> past.set, code |-> past.code, blame |-> past.blame]
  BY <1>3, Zenon DEF LineInv
<1>5. past'.pos = <<>> /\ past'.set = <<>> /\ past'.code = past.code /\ past'.blame = past.blame
  BY <1>4 DEF AR!Adds, LineInv, WordsTold
<1>6. past'.pos \in Seq(1..Len(cluster')) /\ DOMAIN past'.set = {}
  BY <1>5
<1>7. QED
  BY <1>2, <1>5, <1>6 DEF RunPlaced

LEMMA RunEntered == LineInv /\ RunPlaced /\ AR!Enter => RunPlaced'
<1> SUFFICES ASSUME LineInv, RunPlaced, AR!Enter PROVE RunPlaced'
  OBVIOUS
<1>1. PICK S : cluster \in Seq(S)
  BY DEF LineInv
<1>2. Len(cluster) \in Nat /\ DOMAIN cluster = 1..Len(cluster)
      /\ (cluster # <<>> => Len(cluster) >= 1)
  BY <1>1
<1>3. CASE AR!Ends(1, 0) \/ AR!Ends(0, 0)
  BY <1>3, RunEnds
<1>4. CASE cluster # <<>> /\ AR!Ends(1, 1)
  BY <1>2, <1>4, RunEnds
<1>5. CASE cluster # <<>> /\ Len(cluster) # 1 /\ (AR!Ends(0, 2) \/ AR!Ends(1, 2))
  BY <1>2, <1>5, RunEnds
<1>6. CASE (\E i \in DOMAIN cluster : AR!WantsWatch(i))
           /\ AR!Ends(1, CHOOSE i \in DOMAIN cluster : AR!WantsWatch(i))
  <2>1. PICK b : b = CHOOSE i \in DOMAIN cluster : AR!WantsWatch(i)
    OBVIOUS
  <2>2. b \in DOMAIN cluster
    BY <1>6, <2>1, Zenon
  <2>3. QED
    BY <1>2, <1>6, <2>1, <2>2, RunEnds
<1>7. CASE AR!Step([past EXCEPT !.phase = "parsing", !.at = 2, !.from = 2])
  <2>1. cluster' = cluster
        /\ past' = [phase |-> "parsing", left |-> past.left, at |-> 2, from |-> 2,
                    pos |-> past.pos, set |-> past.set, code |-> past.code, blame |-> past.blame]
    BY <1>7, Zenon DEF AR!Step, LineInv
  <2>2. past'.pos = past.pos /\ past'.set = past.set /\ past'.code = past.code
        /\ past'.blame = past.blame
    BY <2>1
  <2>3. QED
    BY <2>1, <2>2 DEF RunPlaced
<1>8. QED
  BY <1>3, <1>4, <1>5, <1>6, <1>7 DEF AR!Enter

LEMMA RunFlagParsed == LineInv /\ RunPlaced /\ AR!ParseFlag => RunPlaced'
<1> SUFFICES ASSUME LineInv, RunPlaced, AR!ParseFlag PROVE RunPlaced'
  OBVIOUS
<1> DEFINE i == past.at
           n == Len(cluster)
<1>1. n \in Nat /\ i \in 2..n
  <2>1. PICK S : cluster \in Seq(S)
    BY DEF LineInv
  <2>2. i \in 2..(n + 1) /\ i <= n
    BY DEF LineInv, WordsTold, AR!ParseFlag, AR!More, AR!Parsing
  <2>3. QED
    BY <2>1, <2>2
<1>2. ASSUME NEW f, NEW v, NEW by \in 1..n, NEW next, AR!Sets(f, v, by, next) PROVE RunPlaced'
  <2>1. PICK set : set = [g \in DOMAIN past.set \cup {AR!Canonical(f)} |->
                           IF g = AR!Canonical(f) THEN [value |-> v, by |-> by] ELSE past.set[g]]
    OBVIOUS
  <2>2. cluster' = cluster /\ past' = [past EXCEPT !.at = next, !.set = set]
    BY <1>2, <2>1, Zenon DEF AR!Sets, AR!Step
  <2>3. past' = [phase |-> past.phase, left |-> past.left, at |-> next, from |-> past.from,
                 pos |-> past.pos, set |-> set, code |-> past.code, blame |-> past.blame]
    BY <2>2, Zenon DEF LineInv
  <2>4. past'.pos = past.pos /\ past'.set = set /\ past'.code = past.code
        /\ past'.blame = past.blame
    BY <2>3
  <2>5. \A g \in DOMAIN set : set[g].by \in 1..n
    BY <2>1 DEF RunPlaced
  <2>6. QED
    BY <2>2, <2>4, <2>5 DEF RunPlaced
<1>3. \/ AR!Ends(1, i) \/ AR!Ends(1, 0)
      \/ i # n /\ AR!Ends(1, i + 1)
      \/ \E f, v : AR!Sets(f, v, i, i + 1)
      \/ i # n /\ \E f, v : AR!Sets(f, v, i + 1, i + 2)
  BY Zenon DEF AR!ParseFlag
<1>4. CASE AR!Ends(1, i) \/ AR!Ends(1, 0)
  BY <1>1, <1>4, RunEnds
<1>5. CASE \E f, v : AR!Sets(f, v, i, i + 1)
  BY <1>1, <1>2, <1>5
<1>6. CASE i # n /\ \E f, v : AR!Sets(f, v, i + 1, i + 2)
  <2>1. i + 1 \in 1..n
    BY <1>1, <1>6
  <2>2. QED
    BY <1>2, <1>6, <2>1
<1>7. CASE i # n /\ AR!Ends(1, i + 1)
  <2>1. i + 1 \in 1..n
    BY <1>1, <1>7
  <2>2. QED
    BY <1>7, <2>1, RunEnds
<1>8. QED
  BY <1>3, <1>4, <1>5, <1>6, <1>7

LEMMA RunStopped == LineInv /\ RunPlaced /\ AR!ParseStops => RunPlaced'
<1> SUFFICES ASSUME LineInv, RunPlaced, AR!ParseStops PROVE RunPlaced'
  OBVIOUS
<1> DEFINE n == Len(cluster)
<1>1. n \in Nat /\ past.at \in 2..(n + 1) /\ past.pos \in Seq(1..n)
  <2>1. PICK S : cluster \in Seq(S)
    BY DEF LineInv
  <2>2. past.at \in 2..(n + 1)
    BY DEF LineInv, WordsTold, AR!ParseStops, AR!Parsing
  <2>3. QED
    BY <2>1, <2>2 DEF RunPlaced
<1>2. PICK i : i = IF past.at <= n /\ AR!Here = "--" THEN past.at + 1 ELSE past.at
  OBVIOUS
<1>3. i \in 2..(n + 1)
  BY <1>1, <1>2
<1>4. PICK rest : rest = [j \in 1..(n - i + 1) |-> i + j - 1]
  OBVIOUS
<1>5. \/ AR!Checking(past.pos)
      \/ AR!Checking(past.pos \o rest)
      \/ rest # <<>> /\ AR!Step([past EXCEPT !.pos = Append(past.pos, i), !.at = i + 1, !.from = i + 1])
  BY <1>2, <1>4, Zenon DEF AR!ParseStops
<1>6. rest \in Seq(1..n) /\ (rest # <<>> => i \in 1..n)
  <2>1. n - i + 1 \in Nat /\ \A j \in 1..(n - i + 1) : i + j - 1 \in 1..n
    BY <1>1, <1>3
  <2>2. rest \in [1..(n - i + 1) -> 1..n]
    BY <1>4, <2>1
  <2>3. rest \in Seq(1..n)
    BY <2>1, <2>2
  <2>4. ASSUME rest # <<>> PROVE i \in 1..n
    <3>1. n - i + 1 # 0
      BY <1>4, <2>3, <2>4
    <3>2. QED
      BY <1>1, <1>3, <3>1
  <2>5. QED
    BY <2>3, <2>4
<1>7. ASSUME NEW phase, NEW at, NEW from, NEW pos \in Seq(1..n), cluster' = cluster,
             past' = [phase |-> phase, left |-> past.left, at |-> at, from |-> from,
                      pos |-> pos, set |-> past.set, code |-> past.code, blame |-> past.blame]
      PROVE  RunPlaced'
  <2>1. past'.pos = pos /\ past'.set = past.set /\ past'.code = past.code
        /\ past'.blame = past.blame
    BY <1>7
  <2>2. QED
    BY <1>7, <2>1 DEF RunPlaced
<1>8. ASSUME NEW pos \in Seq(1..n), AR!Checking(pos) PROVE RunPlaced'
  <2>1. cluster' = cluster
        /\ past' = [phase |-> "checking", left |-> past.left, at |-> past.at, from |-> past.from,
                    pos |-> pos, set |-> past.set, code |-> past.code, blame |-> past.blame]
    BY <1>8, Zenon DEF AR!Checking, AR!Step, LineInv
  <2>2. QED
    BY <1>7, <2>1
<1>9. CASE rest # <<>>
           /\ AR!Step([past EXCEPT !.pos = Append(past.pos, i), !.at = i + 1, !.from = i + 1])
  <2>1. PICK pos : pos = Append(past.pos, i)
    OBVIOUS
  <2>2. PICK at : at = i + 1
    OBVIOUS
  <2>3. cluster' = cluster
        /\ past' = [phase |-> past.phase, left |-> past.left, at |-> at, from |-> at,
                    pos |-> pos, set |-> past.set, code |-> past.code, blame |-> past.blame]
    BY <1>9, <2>1, <2>2, Zenon DEF AR!Step, LineInv
  <2>4. pos \in Seq(1..n)
    BY <1>1, <1>6, <1>9, <2>1
  <2>5. QED
    BY <1>7, <2>3, <2>4
<1>10. past.pos \o rest \in Seq(1..n)
  BY <1>1, <1>6
<1>11. QED
  BY <1>1, <1>5, <1>8, <1>9, <1>10

LEMMA RunChecked == LineInv /\ RunPlaced /\ AR!Check => RunPlaced'
<1> SUFFICES ASSUME LineInv, RunPlaced, AR!Check PROVE RunPlaced'
  OBVIOUS
<1> DEFINE n == Len(cluster)
<1>1. \A f : AR!Value(f) # None => f \in DOMAIN past.set
  BY Zenon DEF AR!Value
<1>2. \A f : AR!Value(f) # None => past.set[f].by \in 1..n
  BY <1>1 DEF RunPlaced
<1>3. CASE AR!Wrong # {} /\ AR!Ends(1, CHOOSE i \in AR!Wrong : \A j \in AR!Wrong : i <= j)
  <2>1. PICK b : b = CHOOSE i \in AR!Wrong : \A j \in AR!Wrong : i <= j
    OBVIOUS
  <2>2. AR!Wrong \subseteq 1..n
    BY DEF AR!Wrong, AR!Range, RunPlaced
  <2>3. \E m \in AR!Wrong : \A k \in AR!Wrong : m <= k
    BY <1>3, <2>2, SmallestElement
  <2>4. b \in 1..n
    BY <2>1, <2>2, <2>3, Zenon
  <2>5. QED
    BY <1>3, <2>1, <2>4, RunEnds
<1>4. CASE AR!BadSort /\ AR!Ends(1, past.set["sort"].by)
  <2>1. AR!Value("sort") # None
    BY <1>4, Zenon DEF AR!BadSort
  <2>2. QED
    BY <1>2, <1>4, <2>1, RunEnds
<1>5. CASE AR!BadInterval /\ AR!Ends(1, past.set["interval"].by)
  <2>1. AR!Value("interval") \in CommandLine.lowIntervals /\ None \notin CommandLine.lowIntervals
    BY <1>5, CompletionWellFormed DEF AR!BadInterval
  <2>2. QED
    BY <1>2, <1>5, <2>1, RunEnds
<1>6. CASE AR!BadColor /\ AR!Ends(1, past.set["color"].by)
  <2>1. AR!Value("color") # None
    BY <1>6, Zenon DEF AR!BadColor
  <2>2. QED
    BY <1>2, <1>6, <2>1, RunEnds
<1>7. CASE AR!Ends(None, 0)
  BY <1>7, RunEnds
<1>8. QED
  BY <1>3, <1>4, <1>5, <1>6, <1>7 DEF AR!Check

LEMMA RunSteps == LineInv /\ RunPlaced /\ (AR!Next \/ UNCHANGED viewVars) => RunPlaced'
<1> SUFFICES ASSUME LineInv, RunPlaced, AR!Next \/ UNCHANGED viewVars PROVE RunPlaced'
  OBVIOUS
<1>1. CASE AR!Over \/ UNCHANGED viewVars
  BY <1>1 DEF RunPlaced, AR!Over, AR!vars, viewVars
<1>2. CASE \E w : AR!Adds(w)
  BY <1>2, RunAdds
<1>3. (\E w \in CommandLine.words : AR!Type(w)) \/ (\E dash \in BOOLEAN : AR!Tab(dash))
        => \E w : AR!Adds(w)
  BY Zenon DEF AR!Type, AR!Tab
<1>4. QED
  BY <1>1, <1>2, <1>3, RunEntered, RunFlagParsed, RunStopped, RunChecked DEF AR!Next

LEMMA RunBegins == AR!Init => RunPlaced
<1> SUFFICES ASSUME AR!Init PROVE RunPlaced
  OBVIOUS
<1>1. past.code = None /\ past.blame = 0 /\ past.pos = <<>> /\ past.set = <<>>
  BY DEF AR!Init, AR!Idle
<1>2. past.pos \in Seq(1..Len(cluster)) /\ DOMAIN past.set = {}
  BY <1>1
<1>3. QED
  BY <1>1, <1>2 DEF RunPlaced

LEMMA LineRead == LineInv /\ OfferInv /\ RunPlaced => AR!TypeOK
BY DEF OfferInv, OfferedFrom, RunPlaced, AR!Range, AR!TypeOK

(* All of a line's run. *)
LEMMA RunInvariance == Spec => [](view = "arguments" => LineInv /\ OfferInv /\ RunPlaced)
<1>1. Init => (view = "arguments" => RunPlaced)
  BY RunBegins DEF Init
<1>2. (view = "arguments" => LineInv /\ OfferInv) /\ (view = "arguments" => RunPlaced)
        /\ [Next]_vars => (view = "arguments" => RunPlaced)'
  BY OneView, RunSteps
<1>3. QED
  BY <1>1, <1>2, OfferInvariance, PTL DEF Spec

LEMMA RolloutRun == Spec => [](view = "rollouts" => RolloutInv /\ RolloutBounds)
<1>1. Init => (view = "rollouts" => RolloutBounds)
  BY RolloutBounded DEF Init
<1>2. (view = "rollouts" => RolloutInv) /\ (view = "rollouts" => RolloutBounds)
        /\ [Next]_vars => (view = "rollouts" => RolloutBounds)'
  BY OneView, RolloutBounded
<1>3. QED
  BY <1>1, <1>2, RolloutInvariance, PTL DEF Spec

(* The views whose types are proved here; ListViewsProofs has the others'.  *)
StatusViews == {"pdb", "hpa", "rollouts", "terminating", "pvc-resize", "arguments"}

(* These views keep their types: rollouts always has a verdict, a status    *)
(* never counts more available pods than ready ones, and dispatch blames    *)
(* no word that is not on the line (view/rollouts.go, cli/cli.go).          *)
THEOREM StatusTypesKept == Spec => [](view \in StatusViews => TypeOK)
<1>1. (/\ (view = "pdb" => BudgetInv) /\ (view = "hpa" => ScalerInv)
       /\ (view = "rollouts" => RolloutInv /\ RolloutBounds)
       /\ (view = "terminating" => DeletionInv) /\ (view = "pvc-resize" => ResizeInv)
       /\ (view = "arguments" => LineInv /\ OfferInv /\ RunPlaced))
      => (view \in StatusViews => TypeOK)
  <2>1. view = "pdb" /\ PD!TypeOK => TypeOK
    BY DEF TypeOK
  <2>2. view = "hpa" /\ HP!TypeOK => TypeOK
    BY DEF TypeOK
  <2>3. view = "rollouts" /\ RO!TypeOK => TypeOK
    BY DEF TypeOK
  <2>4. view = "terminating" /\ TM!TypeOK => TypeOK
    BY DEF TypeOK
  <2>5. view = "pvc-resize" /\ RE!TypeOK => TypeOK
    BY DEF TypeOK
  <2>6. view = "arguments" /\ AR!TypeOK => TypeOK
    BY DEF TypeOK
  <2>7. QED
    BY <2>1, <2>2, <2>3, <2>4, <2>5, <2>6, BudgetTyped, ScalerTyped, RolloutTyped, DeletionTyped,
       ResizeTyped, LineRead, Zenon
       DEF StatusViews
<1>2. QED
  BY <1>1, BudgetInvariance, ScalerInvariance, RolloutRun, DeletionInvariance,
     ResizeInvariance, RunInvariance, PTL
=============================================================================
