---------------------------- MODULE Autoscaling -----------------------------
(***************************************************************************)
(* The hpa command (view/hpa.go): a verdict and a current/target cell per  *)
(* metric, from the spec a user edits and the status the autoscaler writes *)
(* back later; one list and so one instant.                                *)
(*                                                                         *)
(* External: the autoscaler leaves a target scaled to zero alone and takes *)
(* one above the ceiling down to it, reading no metric either time.  Of    *)
(* any other it reads every metric it can and reports each at the index of *)
(* its spec; it sets ScalingActive to False when it could read none, or    *)
(* not all and those it read would scale down.                             *)
(***************************************************************************)
EXTENDS Integers, Sequences

CONSTANTS
  Metrics,      \* the metrics a spec may drive on: [name, source, auto]
  Specs,        \* the sequences of metrics a spec may have, none of them empty
  Values,       \* what a metric can read
  Unknown,      \* no current value; nil
  MaxReplicas,  \* spec.maxReplicas; spec.minReplicas is unset
  MaxChanges    \* bound: steps of users and of the workload

VARIABLES
  cluster,   \* [spec, generation, readings, replicas, status, changes]
  lists,     \* unused: the row is read off the cluster in one instant
  past       \* what the autoscaler saw at its last sync: [generation, readings, replicas]

vars == <<cluster, lists, past>>

-----------------------------------------------------------------------------
(* The code. *)

(* hpaConditionFalse on ScalingActive, which a new object does not have. *)
ScalingInactive(st) == st.active = "False"

HpaMinReplicas == 1

HpaVerdict(st) ==
  IF ScalingInactive(st) THEN "NO-METRICS"
  ELSE IF st.current >= MaxReplicas THEN "MAXED"
  ELSE IF st.current # st.desired THEN "SCALING"
  ELSE IF st.current <= HpaMinReplicas THEN "AT-MIN"
  ELSE "OK"

(* A slip for the mutants: the statuses taken from 0. *)
StatusAtShifted(st, i) == IF i + 1 \in DOMAIN st.metrics THEN st.metrics[i + 1] ELSE [source |-> Unknown, value |-> Unknown]

(* hpaTargets: the status entry at the index of the spec, if there is one. *)
StatusAt(st, i) == IF i \in DOMAIN st.metrics THEN st.metrics[i] ELSE [source |-> Unknown, value |-> Unknown]

(* hpaMetricTarget and hpaMetricValues: an entry counts when it is of the   *)
(* spec's own source type; a metric without a target has no current value.  *)
Current(m, entry) == IF m.auto \/ entry.source # m.source THEN Unknown ELSE entry.value

HpaTargets(spec, st) == [i \in DOMAIN spec |-> Current(spec[i], StatusAt(st, i))]

Verdict == HpaVerdict(cluster.status)
Targets == HpaTargets(cluster.spec, cluster.status)

-----------------------------------------------------------------------------
(* External. *)

(* Scaled by hand, a workload may be above the ceiling. *)
Replicas == 0..MaxReplicas + 1

NewStatus == [active |-> "absent", current |-> 0, desired |-> 0, metrics |-> <<>>]

Init ==
  /\ \E s \in Specs, r \in [Metrics -> Values \cup {Unknown}], n \in Replicas :
       cluster = [spec |-> s, generation |-> 1, readings |-> r, replicas |-> n,
                  status |-> NewStatus, changes |-> 0]
  /\ lists = <<>>
  /\ past = [generation |-> 0, readings |-> cluster.readings, replicas |-> 0]

Step(c) ==
  /\ cluster.changes < MaxChanges
  /\ cluster' = [c EXCEPT !.changes = cluster.changes + 1]
  /\ UNCHANGED <<lists, past>>

EditSpec ==
  \E s \in Specs :
    s # cluster.spec /\ Step([cluster EXCEPT !.spec = s, !.generation = @ + 1])

Measure ==
  \E m \in Metrics, v \in Values \cup {Unknown} :
    v # cluster.readings[m] /\ Step([cluster EXCEPT !.readings[m] = v])

Rescale == \E n \in Replicas : n # cluster.replicas /\ Step([cluster EXCEPT !.replicas = n])

(* The autoscaler's sync. *)
Readable == {i \in DOMAIN cluster.spec : cluster.readings[cluster.spec[i]] # Unknown}
Entry(m) ==
  IF cluster.readings[m] = Unknown THEN [source |-> Unknown, value |-> Unknown]
  ELSE [source |-> m.source, value |-> cluster.readings[m]]

(* Whether it gives up, if what it could read asks for fewer replicas or not. *)
GivesUp(fewer) == Readable = {} \/ (fewer /\ Readable # DOMAIN cluster.spec)

Synced(fewer, desired) ==
  IF cluster.replicas = 0
  THEN [active |-> "False", current |-> 0, desired |-> 0, metrics |-> <<>>]
  ELSE IF cluster.replicas > MaxReplicas
  THEN [active |-> cluster.status.active, current |-> cluster.replicas,
        desired |-> MaxReplicas, metrics |-> <<>>]
  ELSE [active  |-> IF GivesUp(fewer) THEN "False" ELSE "True",
        current |-> cluster.replicas,
        desired |-> IF GivesUp(fewer) THEN cluster.status.desired ELSE desired,
        metrics |-> [i \in DOMAIN cluster.spec |-> Entry(cluster.spec[i])]]

Sync ==
  /\ \E fewer \in BOOLEAN, desired \in 1..MaxReplicas :
       cluster' = [cluster EXCEPT !.status = Synced(fewer, desired)]
  /\ past' = [generation |-> cluster.generation, readings |-> cluster.readings,
              replicas |-> cluster.replicas]
  /\ UNCHANGED lists

Next == EditSpec \/ Measure \/ Rescale \/ Sync

Spec == Init /\ [][Next]_vars

-----------------------------------------------------------------------------
(* Properties. *)

TypeOK ==
  /\ cluster.spec \in Specs
  /\ cluster.readings \in [Metrics -> Values \cup {Unknown}]
  /\ cluster.status.current \in Replicas /\ cluster.status.desired \in 0..MaxReplicas
  /\ past.generation <= cluster.generation

(* What the autoscaler read at its last sync of the current spec, if it tried. *)
Tried == past.replicas \in 1..MaxReplicas
Seen == {i \in DOMAIN cluster.spec : Tried /\ past.readings[cluster.spec[i]] # Unknown}

(* Blindness shows: once the autoscaler has synced the current spec, each   *)
(* cell holds what it read of that very metric, or unknown if it could not  *)
(* or did not try; the verdict is NO-METRICS if the target is scaled to     *)
(* zero or it could read none, and after a try only if it missed one; and a *)
(* workload above the ceiling never reads OK or SCALING.                    *)
BlindnessShown ==
  past.generation = cluster.generation =>
    /\ \A i \in DOMAIN Targets :
         LET m == cluster.spec[i] IN
           Targets[i] = (IF m.auto \/ i \notin Seen THEN Unknown ELSE past.readings[m])
    /\ past.replicas = 0 \/ (Tried /\ Seen = {}) => Verdict = "NO-METRICS"
    /\ Tried /\ Verdict = "NO-METRICS" => Seen # DOMAIN cluster.spec
    /\ past.replicas > MaxReplicas => Verdict \in {"NO-METRICS", "MAXED"}
=============================================================================
