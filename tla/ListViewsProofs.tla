--------------------------- MODULE ListViewsProofs ---------------------------
(***************************************************************************)
(* What the views that read the cluster's objects say of them, for any     *)
(* objects, any command line and any number of changes before, between and *)
(* after the lists.                                                        *)
(***************************************************************************)
EXTENDS Views, ListsProofs

(* A list that was read. *)
Known(l) == l \notin {Unread, Failed}

(* A view keeps to its own steps. *)
LEMMA OneView ==
  ASSUME [Next]_vars
  PROVE  /\ UNCHANGED view
         /\ view = "netpol" => NP!Next \/ UNCHANGED viewVars
         /\ view = "placements" => PL!Next \/ UNCHANGED viewVars
         /\ view = "ingress" => IG!Next \/ UNCHANGED viewVars
         /\ view = "svc-backends" => BE!Next \/ UNCHANGED viewVars
         /\ view = "certs" => CE!Next \/ UNCHANGED viewVars
         /\ view = "pending" => SC!Next \/ UNCHANGED viewVars
         /\ view = "autoscaler" => NG!Next \/ UNCHANGED viewVars
BY DEF Next, vars

-----------------------------------------------------------------------------
(* netpol. *)

(* The policies that were read, as a cluster of their own. *)
AsRead == [policies |-> lists.policies]


NetTypes ==
  /\ cluster.pods \subseteq Netpol.pods /\ cluster.policies \subseteq Netpol.policies
  /\ lists.scope \in Netpol.scopes
  /\ lists = [scope |-> lists.scope, pods |-> lists.pods, policies |-> lists.policies]
  /\ past = [stayed |-> past.stayed, open |-> past.open, blocked |-> past.blocked]
  /\ Known(lists.policies) => lists.policies \subseteq Netpol.policies

(* What lasted is true now, and what is true now was true at some moment.   *)
NetPast ==
  /\ past.stayed \subseteq cluster.pods
  /\ past.open \subseteq past.stayed \X NP!Directions
  /\ past.open \subseteq NP!Observe(cluster).open
  /\ NP!Observe(cluster).blocked \subseteq past.blocked

(* A list agrees with what lasted over its own instant. *)
NetReads ==
  /\ Known(lists.pods) => \A p \in past.stayed : NP!Asked(p) => p \in lists.pods
  /\ Known(lists.policies) =>
       /\ \A x \in past.open :
            x[1].ns \in lists.scope => NP!Admitted(AsRead, x[1], x[2]) = NP!Traffic
       /\ \A p \in past.stayed : \A d \in NP!Directions :
            p.ns \in lists.scope /\ NP!Admitted(AsRead, p, d) = {} => <<p, d>> \in past.blocked

NetInv == NetTypes /\ NetPast /\ NetReads

-----------------------------------------------------------------------------
(* The words against the traffic. *)

(* A policy selects a pod for a direction exactly when it isolates it.      *)
LEMMA SelectingIsolates ==
  ASSUME NEW P \in SUBSET Netpol.policies, NEW p, NEW d \in NP!Directions
  PROVE  NP!Selecting(P, p, d) = NP!Isolating([policies |-> P], p, d)
<1>1. \A q \in P : NP!PolicyTypes(q) = q.types
  BY NetpolWellFormed DEF NP!PolicyTypes
<1>2. QED
  BY <1>1 DEF NP!Selecting, NP!Isolating

(* Only a rule without ports and for all of IPv4 admits the far end of the  *)
(* IPv4 internet on a port nobody listed: where everything is admitted, one *)
(* such rule is there.                                                      *)
LEMMA AnyPeerAdmitted ==
  ASSUME NEW r \in NP!Rule, NP!Admits(r, <<"v4", "other port">>)
  PROVE  NP!AllowsAnyPeer(r)
<1>1. ~r.ports
  BY DEF NP!Admits
<1>2. CASE r.peers = {}
  BY <1>1, <1>2, Zenon DEF NP!AllowsAnyPeer
<1>3. CASE \E q \in r.peers : NP!Covers(q, "v4")
  <2>1. PICK q \in r.peers : NP!Covers(q, "v4")
    BY <1>3, Zenon
  <2>2. q \in {"any4", "any6", "narrow"}
    BY Zenon DEF NP!Rule, NP!Peers
  <2>3. q = "any4"
    BY <2>1, <2>2, Zenon DEF NP!Covers
  <2>4. QED
    BY <1>1, <2>3, Zenon DEF NP!AllowsAnyPeer
<1>4. QED
  BY <1>2, <1>3 DEF NP!Admits

LEMMA OpenReads ==
  ASSUME NEW P \in SUBSET Netpol.policies, NEW p, NEW d \in NP!Directions,
         NP!Admitted([policies |-> P], p, d) = NP!Traffic
  PROVE  NP!PodCoverage(P, p, d) \in {"OPEN", "ALLOW-ALL"}
<1> DEFINE sel == NP!Selecting(P, p, d)
<1>1. sel = NP!Isolating([policies |-> P], p, d)
  BY SelectingIsolates
<1>2. CASE sel = {}
  BY <1>2 DEF NP!PodCoverage
<1>3. CASE sel # {}
  <2>1. <<"v4", "other port">> \in NP!Traffic
    BY Zenon DEF NP!Traffic
  <2>2. PICK q \in sel : \E r \in q.rules[d] : NP!Admits(r, <<"v4", "other port">>)
    BY <1>1, <1>3, <2>1, Zenon DEF NP!Admitted
  <2>3. PICK r \in q.rules[d] : NP!Admits(r, <<"v4", "other port">>)
    BY <2>2, Zenon
  <2>4. r \in NP!Rule
    BY <2>3, NetpolWellFormed, Zenon DEF NP!Selecting
  <2>5. NP!AllowsAnyPeer(r)
    BY <2>3, <2>4, AnyPeerAdmitted, Zenon
  <2>6. QED
    BY <1>3, <2>3, <2>5, Zenon DEF NP!PodCoverage
<1>4. QED
  BY <1>2, <1>3

LEMMA DenyReads ==
  ASSUME NEW P \in SUBSET Netpol.policies, NEW p, NEW d \in NP!Directions,
         NP!PodCoverage(P, p, d) = "DENY"
  PROVE  NP!Admitted([policies |-> P], p, d) = {}
<1> DEFINE sel == NP!Selecting(P, p, d)
<1>1. sel = NP!Isolating([policies |-> P], p, d)
  BY SelectingIsolates
<1>2. sel # {} /\ \A q \in sel : q.rules[d] = {}
  BY DEF NP!PodCoverage, NP!AllDeny
<1>3. QED
  BY <1>1, <1>2 DEF NP!Admitted

-----------------------------------------------------------------------------
(* A pair's second half is among the second halves.                         *)
LEMMA SecondIn ==
  ASSUME NEW S, NEW a, NEW b, <<a, b>> \in S
  PROVE  b \in {c[2] : c \in S}
<1>1. <<a, b>>[2] = b
  OBVIOUS
<1>2. QED
  BY <1>1, Zenon

(* What a cell says, from the invariant. *)

LEMMA NetGapShown == NetInv => NP!GapTold
<1> SUFFICES ASSUME NetInv, NP!Printed, NEW x \in past.open,
                    x[1].ns \in lists.scope, NP!Eligible(x[1])
             PROVE  /\ NP!RowOf(x[1]) \in NP!Rows
                    /\ NP!Cell(NP!RowOf(x[1]), x[2])
                         \in {"OPEN", "ALLOW-ALL"} \cup (IF NP!PerPod THEN {} ELSE {"PARTIAL"})
  BY DEF NP!GapTold
<1> DEFINE p == x[1]
           d == x[2]
           said == NP!PodCoverage(lists.policies, p, d)
<1>1. Known(lists.pods) /\ Known(lists.policies)
  BY DEF NP!Printed, NP!AllRead, Known
<1>2. p \in past.stayed /\ d \in NP!Directions
  BY DEF NetInv, NetPast
<1>3. p \in lists.pods /\ ~NP!Finished(p) /\ ~p.hostNetwork
  BY <1>1, <1>2 DEF NetInv, NetReads, NP!Asked, NP!Eligible
<1>4. said \in {"OPEN", "ALLOW-ALL"}
  BY <1>1, <1>2, OpenReads DEF NetInv, NetTypes, NetReads, AsRead
<1>5. CASE NP!PerPod
  BY <1>3, <1>4, <1>5 DEF NP!RowOf, NP!Rows, NP!Cell
<1>6. CASE ~NP!PerPod
  <2> DEFINE covered == {<<y, NP!PodCoverage(lists.policies, y, d)>> :
                           y \in {z \in lists.pods : z.ns = p.ns /\ NP!Eligible(z)}}
             words == {c[2] : c \in covered}
  <2>1. <<p, said>> \in covered
    BY <1>3
  <2>2. said \in words /\ covered # {}
    BY <2>1, SecondIn, Zenon
  <2>3. NP!Rollup(covered) \in {"OPEN", "ALLOW-ALL", "PARTIAL"}
    BY <1>4, <2>2 DEF NP!Rollup
  <2>4. NP!RowOf(p) = p.ns /\ NP!Cell(p.ns, d) = NP!Rollup(covered)
    BY <1>6 DEF NP!RowOf, NP!Cell
  <2>5. p.ns \in NP!Rows
    BY <1>3, <1>6 DEF NP!Rows
  <2>6. QED
    BY <1>6, <2>3, <2>4, <2>5
<1>7. QED
  BY <1>5, <1>6

LEMMA NetDenyShown == NetInv => NP!DenyTold
<1> SUFFICES ASSUME NetInv, NP!Printed, NEW p \in past.stayed, NEW d \in NP!Directions,
                    p.ns \in lists.scope, NP!Eligible(p),
                    NP!Cell(NP!RowOf(p), d) \in {"DENY", "DEFAULT-DENY"}
             PROVE  <<p, d>> \in past.blocked
  BY DEF NP!DenyTold
<1> DEFINE said == NP!PodCoverage(lists.policies, p, d)
<1>1. Known(lists.pods) /\ Known(lists.policies)
  BY DEF NP!Printed, NP!AllRead, Known
<1>2. p \in lists.pods /\ ~NP!Finished(p) /\ ~p.hostNetwork
  BY <1>1 DEF NetInv, NetReads, NP!Asked, NP!Eligible
<1>3. said = "DENY"
  <2>1. CASE NP!PerPod
    <3>1. NP!Cell(NP!RowOf(p), d) = said
      BY <1>2, <2>1 DEF NP!RowOf, NP!Cell
    <3>2. said # "DEFAULT-DENY"
      BY DEF NP!PodCoverage
    <3>3. QED
      BY <3>1, <3>2
  <2>2. CASE ~NP!PerPod
    <3> DEFINE covered == {<<y, NP!PodCoverage(lists.policies, y, d)>> :
                             y \in {z \in lists.pods : z.ns = p.ns /\ NP!Eligible(z)}}
               words == {c[2] : c \in covered}
    <3>1. <<p, said>> \in covered
      BY <1>2
    <3>2. said \in words
      BY <3>1, SecondIn, Zenon
    <3>3. NP!Rollup(covered) \in {"DENY", "DEFAULT-DENY"}
      BY <2>2 DEF NP!RowOf, NP!Cell
    <3>4. words = {"DENY"}
      BY <3>3 DEF NP!Rollup
    <3>5. QED
      BY <3>2, <3>4
  <2>3. QED
    BY <2>1, <2>2
<1>4. NP!Admitted(AsRead, p, d) = {}
  BY <1>1, <1>3, DenyReads DEF NetInv, NetTypes, AsRead
<1>5. QED
  BY <1>1, <1>4 DEF NetInv, NetReads

-----------------------------------------------------------------------------
(* The steps. *)

(* The policies of a scope admit to its pods what all policies do.          *)
LEMMA ScopeAdmits ==
  ASSUME NEW c, NEW S, NEW p, p.ns \in S, NEW d
  PROVE  NP!Admitted([policies |-> {q \in c.policies : q.ns \in S}], p, d) = NP!Admitted(c, p, d)
<1>1. NP!Isolating([policies |-> {q \in c.policies : q.ns \in S}], p, d) = NP!Isolating(c, p, d)
  BY DEF NP!Isolating
<1>2. QED
  BY <1>1, Zenon DEF NP!Admitted

LEMMA NetChangeKeeps ==
  ASSUME NetInv, NEW pods \in SUBSET Netpol.pods, NEW policies \in SUBSET Netpol.policies,
         NP!Change(pods, policies)
  PROVE  NetInv'
<1>1. cluster' = [pods |-> pods, policies |-> policies, changes |-> cluster.changes + 1]
  BY DEF NP!Change
<1>2. /\ past'.stayed = past.stayed \cap cluster'.pods
      /\ past'.open = past.open \cap NP!Observe(cluster').open
      /\ past'.blocked = past.blocked \cup NP!Observe(cluster').blocked
      /\ past' = [stayed |-> past'.stayed, open |-> past'.open, blocked |-> past'.blocked]
      /\ lists' = lists
  BY DEF NP!Change, NP!Moment
<1>3. NetTypes'
  BY <1>1, <1>2 DEF NetInv, NetTypes, Known
<1>4. NP!Observe(cluster').open \subseteq cluster'.pods \X NP!Directions
  BY DEF NP!Observe
<1>5. NetPast'
  BY <1>2, <1>4 DEF NetInv, NetPast
<1>6. NetReads'
  BY <1>2 DEF NetInv, NetReads, Known, NP!Asked, NP!PerPod, AsRead, NP!Eligible, NP!Finished
<1>7. QED
  BY <1>3, <1>5, <1>6 DEF NetInv

LEMMA NetReadPodsKeeps == NetInv /\ NP!ReadPods => NetInv'
<1> SUFFICES ASSUME NetInv, NP!ReadPods PROVE NetInv'
  OBVIOUS
<1>1. /\ lists'.scope = lists.scope /\ lists'.policies = lists.policies
      /\ lists' = [scope |-> lists'.scope, pods |-> lists'.pods, policies |-> lists'.policies]
      /\ lists'.pods \in {{p \in cluster.pods : NP!Asked(p)}, Failed}
      /\ UNCHANGED <<cluster, past>>
  BY DEF NP!ReadPods, NetInv, NetTypes
<1>2. NetTypes' /\ NetPast'
  BY <1>1 DEF NetInv, NetTypes, NetPast, Known
<1>3. \A p : NP!Asked(p)' <=> NP!Asked(p)
  BY <1>1 DEF NP!Asked, NP!PerPod, NP!Eligible, NP!Finished
<1>4. AsRead' = AsRead /\ Known(lists.policies)' = Known(lists.policies)
  BY <1>1 DEF AsRead, Known
<1>5. Known(lists.pods)' => \A p \in past'.stayed : NP!Asked(p)' => p \in lists'.pods
  BY <1>1, <1>3 DEF NetInv, NetPast, Known
<1>6. NetReads'
  BY <1>1, <1>4, <1>5 DEF NetInv, NetReads
<1>7. QED
  BY <1>2, <1>6 DEF NetInv

LEMMA NetReadPoliciesKeeps == NetInv /\ NP!ReadPolicies => NetInv'
<1> SUFFICES ASSUME NetInv, NP!ReadPolicies PROVE NetInv'
  OBVIOUS
<1> DEFINE found == {q \in cluster.policies : q.ns \in lists.scope}
<1>1. /\ lists'.scope = lists.scope /\ lists'.pods = lists.pods
      /\ lists' = [scope |-> lists'.scope, pods |-> lists'.pods, policies |-> lists'.policies]
      /\ lists'.policies \in {found, Failed}
      /\ UNCHANGED <<cluster, past>>
  BY DEF NP!ReadPolicies, NetInv, NetTypes
<1>2. NetTypes' /\ NetPast'
  BY <1>1 DEF NetInv, NetTypes, NetPast, Known
<1>3. Known(lists.pods)' => \A p \in past'.stayed : NP!Asked(p)' => p \in lists'.pods
  BY <1>1 DEF NetInv, NetReads, Known, NP!Asked, NP!PerPod, NP!Eligible, NP!Finished
<1>4. ASSUME Known(lists.policies)', NEW p, p.ns \in lists.scope, NEW d
      PROVE  NP!Admitted(AsRead', p, d) = NP!Admitted(cluster, p, d)
  <2>1. AsRead' = [policies |-> found]
    BY <1>1, <1>4 DEF AsRead, Known
  <2>2. QED
    BY <1>4, <2>1, ScopeAdmits
<1>5. Known(lists.policies)' => \A x \in past'.open :
        x[1].ns \in lists'.scope => NP!Admitted(AsRead', x[1], x[2]) = NP!Traffic
  <2>1. \A x \in past.open : NP!Admitted(cluster, x[1], x[2]) = NP!Traffic
    BY DEF NetInv, NetPast, NP!Observe
  <2>2. QED
    BY <1>1, <1>4, <2>1
<1>6. Known(lists.policies)' => \A p \in past'.stayed : \A d \in NP!Directions :
        p.ns \in lists'.scope /\ NP!Admitted(AsRead', p, d) = {} => <<p, d>> \in past'.blocked
  <2>1. \A p \in past.stayed : \A d \in NP!Directions :
          NP!Admitted(cluster, p, d) = {} => <<p, d>> \in past.blocked
    BY DEF NetInv, NetPast, NP!Observe
  <2>2. QED
    BY <1>1, <1>4, <2>1
<1>7. NetReads'
  BY <1>3, <1>5, <1>6, Zenon DEF NetReads, NP!Admitted, NP!Isolating, NP!Traffic
<1>8. QED
  BY <1>2, <1>7 DEF NetInv

LEMMA NetBegins == NP!Init => NetInv
<1> SUFFICES ASSUME NP!Init PROVE NetInv
  OBVIOUS
<1>1. /\ cluster.pods \subseteq Netpol.pods /\ cluster.policies \subseteq Netpol.policies
      /\ past = NP!Observe(cluster)
      /\ lists = [scope |-> lists.scope, pods |-> Unread, policies |-> Unread]
      /\ lists.scope \in Netpol.scopes
  BY NetpolWellFormed DEF NP!Init
<1>2. NetTypes
  BY <1>1 DEF NetTypes, NP!Observe, Known
<1>3. NetPast
  BY <1>1 DEF NetPast, NP!Observe
<1>4. NetReads
  BY <1>1 DEF NetReads, Known
<1>5. QED
  BY <1>2, <1>3, <1>4 DEF NetInv

LEMMA NetSteps ==
  ASSUME NetInv, NP!Next \/ UNCHANGED viewVars
  PROVE  NetInv'
<1>1. CASE NP!PodChange
  <2>1. PICK p \in Netpol.pods : NP!Change(NP!Toggled(cluster.pods, p), cluster.policies)
    BY <1>1 DEF NP!PodChange
  <2>2. NP!Toggled(cluster.pods, p) \in SUBSET Netpol.pods /\ cluster.policies \in SUBSET Netpol.policies
    BY DEF NetInv, NetTypes, NP!Toggled
  <2>3. QED
    BY <2>1, <2>2, NetChangeKeeps
<1>2. CASE NP!PolicyChange
  <2>1. PICK q \in Netpol.policies : NP!Change(cluster.pods, NP!Toggled(cluster.policies, q))
    BY <1>2 DEF NP!PolicyChange
  <2>2. cluster.pods \in SUBSET Netpol.pods /\ NP!Toggled(cluster.policies, q) \in SUBSET Netpol.policies
    BY DEF NetInv, NetTypes, NP!Toggled
  <2>3. QED
    BY <2>1, <2>2, NetChangeKeeps
<1>3. CASE NP!ReadPods
  BY <1>3, NetReadPodsKeeps
<1>4. CASE NP!ReadPolicies
  BY <1>4, NetReadPoliciesKeeps
<1>5. CASE NP!Over \/ UNCHANGED viewVars
  <2>1. UNCHANGED <<cluster, lists, past>>
    BY <1>5 DEF NP!Over, NP!vars, viewVars
  <2>2. NetTypes' /\ NetPast'
    BY <2>1 DEF NetInv, NetTypes, NetPast, Known
  <2>3. NetReads'
    BY <2>1 DEF NetInv, NetReads, Known, AsRead, NP!Asked, NP!PerPod
  <2>4. QED
    BY <2>2, <2>3 DEF NetInv
<1>6. QED
  BY <1>1, <1>2, <1>3, <1>4, <1>5 DEF NP!Next

LEMMA NetInvariance == Spec => [](view = "netpol" => NetInv)
<1>1. Init => (view = "netpol" => NetInv)
  BY NetBegins DEF Init
<1>2. (view = "netpol" => NetInv) /\ [Next]_vars => (view = "netpol" => NetInv)'
  BY OneView, NetSteps
<1>3. QED
  BY <1>1, <1>2, PTL DEF Spec

LEMMA NetTyped == NetInv => NP!TypeOK
BY NetpolWellFormed DEF NetInv, NetTypes, NetPast, NP!TypeOK

(* No gap is hidden: a pod that admitted everything all along never shows   *)
(* as covered, nor its namespace, whatever came and went between the lists. *)
THEOREM GapsTold == Spec => []GapTold
<1>1. (view = "netpol" => NetInv) => GapTold
  BY NetGapShown DEF GapTold
<1>2. QED
  BY <1>1, NetInvariance, PTL

(* DENY and DEFAULT-DENY are true: at some moment of the command nothing    *)
(* reached the pod, or any pod the namespace had all along.                 *)
THEOREM DeniesTold == Spec => []DenyTold
<1>1. (view = "netpol" => NetInv) => DenyTold
  BY NetDenyShown DEF DenyTold
<1>2. QED
  BY <1>1, NetInvariance, PTL
-----------------------------------------------------------------------------
(* spread and max-pods. *)

Stage == [node : PL!Nodes \cup {None}, finished : BOOLEAN]

(* Pods, of the cluster or of the list, within the ceilings.                *)
PodsFit(pods) ==
  /\ pods \in [DOMAIN pods -> Stage]
  /\ DOMAIN pods \subseteq Placement.pods /\ IsFiniteSet(DOMAIN pods)
  /\ \A n \in PL!Nodes : Cardinality(PL!Live([pods |-> pods], n)) <= Placement.ceiling[n]

(* Nodes, likewise: a label is the zone.                                    *)
NodesFit(nodes) ==
  /\ nodes = [n \in DOMAIN nodes |-> nodes[n]] /\ DOMAIN nodes \subseteq PL!Nodes
  /\ \A n \in DOMAIN nodes : nodes[n] \in {None, Placement.zone[n]}

PlaceTypes ==
  /\ cluster = [pods |-> cluster.pods, nodes |-> cluster.nodes, changes |-> cluster.changes]
  /\ lists = [command |-> lists.command, pods |-> lists.pods, nodes |-> lists.nodes]
  /\ lists.command \in {"spread", "max-pods"}
  /\ PodsFit(cluster.pods) /\ NodesFit(cluster.nodes)

Facts == {"words", "placed", "free", "there", "labelled"}

(* What was always true is true now, and what is true now was true at some  *)
(* moment.                                                                  *)
PlacePast ==
  /\ past = [always |-> past.always, ever |-> past.ever]
  /\ DOMAIN past.always = Facts /\ DOMAIN past.ever = Facts
  /\ \A f \in Facts :
       past.always[f] \subseteq PL!Moment(cluster)[f] /\ PL!Moment(cluster)[f] \subseteq past.ever[f]

(* A list tells of its own instant. *)
Alone(pods) == [pods |-> pods, nodes |-> <<>>]

PodsTell(pods) ==
  /\ PodsFit(pods)
  /\ PL!Moment(Alone(pods))["words"] \subseteq past.ever["words"]
  /\ PL!Moment(Alone(pods))["free"] \subseteq past.ever["free"]
  /\ past.always["placed"] \subseteq PL!Moment(Alone(pods))["placed"]

NodesTell(nodes) ==
  /\ NodesFit(nodes)
  /\ past.always["there"] \subseteq DOMAIN nodes
  /\ past.always["labelled"] \subseteq {n \in DOMAIN nodes : nodes[n] # None}

PlaceReads ==
  /\ Known(lists.pods) => PodsTell(lists.pods)
  /\ Known(lists.nodes) => NodesTell(lists.nodes)

PlaceInv == PlaceTypes /\ PlacePast /\ PlaceReads

-----------------------------------------------------------------------------

(* A pod has a key exactly when it is a replica of something, and pods share *)
(* theirs exactly when they are replicas of the same.                       *)
LEMMA KeyTells ==
  ASSUME NEW p \in Placement.pods, NEW q \in Placement.pods
  PROVE  /\ PL!WorkloadKey(p) # None <=> p.of # None
         /\ p.of # None /\ q.of # None =>
              (PL!WorkloadKey(p) = PL!WorkloadKey(q) <=> p.of = q.of)
<1> DEFINE owned == {"ReplicaSet", "StatefulSet", "ReplicationController"}
           name(x) == IF x.kind = "ReplicaSet" THEN PL!Front(x.owner) ELSE x.owner
           known(x) == IF x.kind = "ReplicaSet" THEN "Deployment" ELSE x.kind
<1>1. ASSUME NEW x \in Placement.pods
      PROVE  /\ x.of # None <=> x.kind \in owned
             /\ x.of # None => PL!WorkloadKey(x) # None
             /\ x.kind = "ReplicaSet" => Len(x.owner) > 1
  BY PlacementWellFormed
<1>2. ASSUME NEW x \in Placement.pods
      PROVE  PL!WorkloadKey(x) = IF x.kind \in owned THEN <<known(x), name(x)>> ELSE None
  BY <1>1 DEF PL!WorkloadKey, PL!TrimHash
<1>3. PL!WorkloadKey(p) # None <=> p.of # None
  BY <1>1, <1>2
<1>4. ASSUME p.of # None, q.of # None
      PROVE  PL!WorkloadKey(p) = PL!WorkloadKey(q) <=> p.of = q.of
  <2>1. p.kind \in owned /\ q.kind \in owned
    BY <1>1, <1>4
  <2>2. PL!WorkloadKey(p) = PL!WorkloadKey(q) <=> known(p) = known(q) /\ name(p) = name(q)
    BY <1>2, <2>1
  <2>3. known(p) = known(q) <=> p.kind = q.kind
    BY <2>1
  <2>4. p.of = q.of <=> p.kind = q.kind /\ name(p) = name(q)
    BY <1>4, PlacementWellFormed
  <2>5. QED
    BY <2>2, <2>3, <2>4
<1>5. QED
  BY <1>3, <1>4

LEMMA MomentFields ==
  ASSUME NEW c
  PROVE  /\ DOMAIN PL!Moment(c) = Facts
         /\ PL!Moment(c)["words"] =
              {<<p.of, PL!Deserved(c, p.of)>> : p \in {q \in Placement.pods : q.of # None}}
         /\ PL!Moment(c)["placed"] =
              {p.of : p \in {q \in DOMAIN c.pods : q.of # None /\ c.pods[q].node # None}}
         /\ PL!Moment(c)["free"] =
              {<<n, Placement.ceiling[n] - PL!Cardinality(PL!Live(c, n))>> : n \in PL!Nodes}
         /\ PL!Moment(c)["there"] = DOMAIN c.nodes
         /\ PL!Moment(c)["labelled"] = {n \in DOMAIN c.nodes : c.nodes[n] # None}
<1>1. DOMAIN PL!Moment(c) = Facts
  BY DEF PL!Moment, Facts
<1>2. PL!Moment(c)["words"] =
        {<<p.of, PL!Deserved(c, p.of)>> : p \in {q \in Placement.pods : q.of # None}}
  BY Zenon DEF PL!Moment
<1>3. PL!Moment(c)["free"] =
        {<<n, Placement.ceiling[n] - PL!Cardinality(PL!Live(c, n))>> : n \in PL!Nodes}
  BY Zenon DEF PL!Moment
<1>4. PL!Moment(c)["placed"] =
        {p.of : p \in {q \in DOMAIN c.pods : q.of # None /\ c.pods[q].node # None}}
  BY Zenon DEF PL!Moment
<1>5. /\ PL!Moment(c)["there"] = DOMAIN c.nodes
      /\ PL!Moment(c)["labelled"] = {n \in DOMAIN c.nodes : c.nodes[n] # None}
  BY Zenon DEF PL!Moment
<1>6. QED
  BY <1>1, <1>2, <1>3, <1>4, <1>5

(* What a moment tells of pods does not depend on the nodes there are.      *)
LEMMA PodsAlone ==
  ASSUME NEW c, NEW b, c.pods = b.pods
  PROVE  \A f \in {"words", "placed", "free"} : PL!Moment(b)[f] = PL!Moment(c)[f]
<1>1. \A n : PL!Live(b, n) = PL!Live(c, n)
  BY DEF PL!Live
<1>2. ASSUME NEW w PROVE PL!Deserved(b, w) = PL!Deserved(c, w)
  <2> DEFINE at(x) == {n \in PL!Nodes : \E p \in PL!Live(x, n) : p.of = w}
             replicas(x) == {p \in UNION {PL!Live(x, n) : n \in at(x)} : p.of = w}
  <2>1. at(b) = at(c)
    BY <1>1
  <2>2. {PL!Live(b, n) : n \in at(b)} = {PL!Live(c, n) : n \in at(c)}
    BY <1>1, <2>1
  <2>3. replicas(b) = replicas(c)
    BY <2>2
  <2>4. QED
    BY <2>1, <2>3, Zenon DEF PL!Deserved
<1>3. PL!Moment(b)["words"] = PL!Moment(c)["words"]
  BY <1>2, Zenon DEF PL!Moment
<1>4. PL!Moment(b)["free"] = PL!Moment(c)["free"]
  <2> DEFINE left(x, n) == Placement.ceiling[n] - PL!Cardinality(PL!Live(x, n))
  <2>1. \A n : left(b, n) = left(c, n)
    BY <1>1
  <2>2. \A x \in {b, c} : PL!Moment(x)["free"] = {<<n, left(x, n)>> : n \in PL!Nodes}
    BY MomentFields
  <2> HIDE DEF left
  <2>3. QED
    BY <2>1, <2>2
<1>5. PL!Moment(b)["placed"] = PL!Moment(c)["placed"]
  BY Zenon DEF PL!Moment
<1>6. QED
  BY <1>3, <1>4, <1>5
(* The image of a finite set is no larger. *)
LEMMA ImageFinite ==
  ASSUME NEW S, IsFiniteSet(S), NEW f, f = [x \in S |-> f[x]]
  PROVE  /\ IsFiniteSet({f[x] : x \in S})
         /\ Cardinality({f[x] : x \in S}) <= Cardinality(S)
<1> DEFINE T == {f[x] : x \in S}
<1>1. f \in [S -> T] /\ \A t \in T : \E x \in S : f[x] = t
  OBVIOUS
<1>2. f \in Surjection(S, T)
  BY <1>1, Fun_IsSurj
<1>3. QED
  BY <1>2, FS_Surjection

(* Finite sets are those of the view's own module. *)
LEMMA PlaceSizes == \A S : PL!Cardinality(S) = Cardinality(S)
BY DEF PL!Cardinality, Cardinality

-----------------------------------------------------------------------------
(* The steps of the cluster keep its pods and nodes fit. *)

LEMMA LiveOf ==
  ASSUME NEW c, NEW n
  PROVE  PL!Live(c, n) = {p \in DOMAIN c.pods : c.pods[p].node = n /\ ~c.pods[p].finished}
BY DEF PL!Live

(* A pod that takes a slot finds one. *)
LEMMA PodBecomes ==
  ASSUME NEW pods, PodsFit(pods), NEW p \in Placement.pods, NEW s \in Stage,
         s.node \in PL!Nodes /\ ~s.finished =>
           Cardinality(PL!Live([pods |-> pods], s.node)) < Placement.ceiling[s.node]
  PROVE  PodsFit([q \in DOMAIN pods \cup {p} |-> IF q = p THEN s ELSE pods[q]])
<1> DEFINE new == [q \in DOMAIN pods \cup {p} |-> IF q = p THEN s ELSE pods[q]]
           before(n) == PL!Live([pods |-> pods], n)
           after(n) == PL!Live([pods |-> new], n)
<1>1. /\ new \in [DOMAIN new -> Stage]
      /\ DOMAIN new \subseteq Placement.pods
      /\ DOMAIN new = DOMAIN pods \cup {p}
  BY DEF PodsFit
<1>2. IsFiniteSet(DOMAIN new)
  BY <1>1, FS_AddElement DEF PodsFit
<1>3. ASSUME NEW n \in PL!Nodes
      PROVE  Cardinality(after(n)) <= Placement.ceiling[n]
  <2>1. /\ IsFiniteSet(before(n)) /\ Cardinality(before(n)) \in Nat
        /\ Cardinality(before(n)) <= Placement.ceiling[n] /\ Placement.ceiling[n] \in Nat
    <3>1. before(n) \subseteq DOMAIN pods
      BY LiveOf
    <3>2. QED
      BY <3>1, FS_Subset, FS_CardinalityType, PlacementWellFormed DEF PodsFit
  <2>2. CASE s.node = n /\ ~s.finished
    <3>1. after(n) \subseteq before(n) \cup {p}
      BY LiveOf
    <3>2. /\ IsFiniteSet(before(n) \cup {p})
          /\ Cardinality(before(n) \cup {p}) <= Cardinality(before(n)) + 1
      <4> HIDE DEF before
      <4>1. /\ IsFiniteSet(before(n) \cup {p})
            /\ \/ Cardinality(before(n) \cup {p}) = Cardinality(before(n))
               \/ Cardinality(before(n) \cup {p}) = Cardinality(before(n)) + 1
        BY <2>1, FS_AddElement
      <4>2. QED
        BY <2>1, <4>1
    <3>3. Cardinality(after(n)) <= Cardinality(before(n) \cup {p})
      BY <3>1, <3>2, FS_Subset, Zenon
    <3>4. Cardinality(after(n)) \in Nat /\ Cardinality(before(n) \cup {p}) \in Nat
      BY <3>1, <3>2, FS_Subset, FS_CardinalityType, Zenon
    <3>5. QED
      BY <2>1, <2>2, <3>2, <3>3, <3>4
  <2>3. CASE ~(s.node = n /\ ~s.finished)
    <3>1. after(n) \subseteq before(n)
      BY <2>3, LiveOf
    <3>2. Cardinality(after(n)) <= Cardinality(before(n)) /\ Cardinality(after(n)) \in Nat
      BY <2>1, <3>1, FS_Subset, FS_CardinalityType, Zenon
    <3>3. QED
      BY <2>1, <3>2
  <2>4. QED
    BY <2>2, <2>3
<1>4. QED
  BY <1>1, <1>2, <1>3 DEF PodsFit

LEMMA PodGoes ==
  ASSUME NEW pods, PodsFit(pods), NEW p
  PROVE  PodsFit([q \in DOMAIN pods \ {p} |-> pods[q]])
<1> DEFINE new == [q \in DOMAIN pods \ {p} |-> pods[q]]
<1>1. /\ new \in [DOMAIN new -> Stage]
      /\ DOMAIN new \subseteq Placement.pods
      /\ DOMAIN new \subseteq DOMAIN pods
  BY DEF PodsFit
<1>2. IsFiniteSet(DOMAIN pods) /\ IsFiniteSet(DOMAIN new)
  BY <1>1, FS_Subset DEF PodsFit
<1>3. ASSUME NEW n \in PL!Nodes
      PROVE  Cardinality(PL!Live([pods |-> new], n)) <= Placement.ceiling[n]
  <2> DEFINE before == PL!Live([pods |-> pods], n)
             after == PL!Live([pods |-> new], n)
  <2>1. before \subseteq DOMAIN pods /\ after \subseteq before
    BY LiveOf
  <2>2. IsFiniteSet(before) /\ IsFiniteSet(after) /\ Cardinality(after) <= Cardinality(before)
    BY <1>2, <2>1, FS_Subset, Zenon
  <2>3. Cardinality(before) \in Nat /\ Cardinality(after) \in Nat
    BY <2>2, FS_CardinalityType
  <2>4. Cardinality(before) <= Placement.ceiling[n] /\ Placement.ceiling[n] \in Nat
    BY PlacementWellFormed DEF PodsFit
  <2>5. QED
    BY <2>2, <2>3, <2>4
<1>4. QED
  BY <1>1, <1>2, <1>3, Zenon DEF PodsFit

LEMMA PlaceWorldKeeps ==
  ASSUME PlaceInv, NEW c, PL!World(c),
         c = [pods |-> c.pods, nodes |-> c.nodes, changes |-> c.changes],
         PodsFit(c.pods), NodesFit(c.nodes)
  PROVE  PlaceInv'
<1>1. /\ cluster' = [pods |-> c.pods, nodes |-> c.nodes, changes |-> cluster.changes + 1]
      /\ lists' = lists
  BY DEF PL!World
<1>2. /\ past' = [always |-> past'.always, ever |-> past'.ever]
      /\ DOMAIN past'.always = Facts /\ DOMAIN past'.ever = Facts
      /\ \A f \in Facts :
           /\ past'.always[f] = past.always[f] \cap PL!Moment(cluster')[f]
           /\ past'.ever[f] = past.ever[f] \cup PL!Moment(cluster')[f]
  BY DEF PL!World, PL!Observe, PlaceInv, PlacePast
<1>3. PlaceTypes'
  BY <1>1 DEF PlaceInv, PlaceTypes, PodsFit, NodesFit
<1>4. PlacePast'
  BY <1>2 DEF PlacePast
<1>5. ASSUME NEW pods, PodsTell(pods) PROVE PodsTell(pods)'
  BY <1>2, <1>5 DEF PodsTell, PodsFit, Facts
<1>6. ASSUME NEW nodes, NodesTell(nodes) PROVE NodesTell(nodes)'
  BY <1>2, <1>6 DEF NodesTell, NodesFit, Facts
<1>7. PlaceReads'
  BY <1>1, <1>5, <1>6 DEF PlaceInv, PlaceReads, Known
<1>8. QED
  BY <1>3, <1>4, <1>7 DEF PlaceInv

LEMMA PlaceReadPods == PlaceInv /\ PL!ReadPods => PlaceInv'
<1> SUFFICES ASSUME PlaceInv, PL!ReadPods PROVE PlaceInv'
  OBVIOUS
<1>1. /\ lists' = [command |-> lists.command, pods |-> lists'.pods, nodes |-> lists.nodes]
      /\ lists'.pods \in {cluster.pods, Failed}
      /\ UNCHANGED <<cluster, past>>
  BY DEF PL!ReadPods, PlaceInv, PlaceTypes
<1>2. PlaceTypes' /\ PlacePast'
  BY <1>1 DEF PlaceInv, PlaceTypes, PlacePast, PodsFit, NodesFit
<1>3. PodsTell(cluster.pods)
  <2>1. \A f \in {"words", "placed", "free"} :
          PL!Moment(Alone(cluster.pods))[f] = PL!Moment(cluster)[f]
    BY PodsAlone DEF Alone
  <2>2. QED
    BY <2>1 DEF PodsTell, PlaceInv, PlaceTypes, PlacePast, Facts
<1>4. \A l : PodsTell(l)' = PodsTell(l) /\ NodesTell(l)' = NodesTell(l)
  BY <1>1 DEF PodsTell, NodesTell, PodsFit, NodesFit
<1>5. PlaceReads'
  BY <1>1, <1>3, <1>4 DEF PlaceInv, PlaceReads, Known
<1>6. QED
  BY <1>2, <1>5 DEF PlaceInv

LEMMA PlaceReadNodes == PlaceInv /\ PL!ReadNodes => PlaceInv'
<1> SUFFICES ASSUME PlaceInv, PL!ReadNodes PROVE PlaceInv'
  OBVIOUS
<1>1. /\ lists' = [command |-> lists.command, pods |-> lists.pods, nodes |-> lists'.nodes]
      /\ lists'.nodes \in {cluster.nodes, Failed}
      /\ UNCHANGED <<cluster, past>>
  BY DEF PL!ReadNodes, PlaceInv, PlaceTypes
<1>2. PlaceTypes' /\ PlacePast'
  BY <1>1 DEF PlaceInv, PlaceTypes, PlacePast, PodsFit, NodesFit
<1>3. NodesTell(cluster.nodes)
  BY MomentFields DEF NodesTell, PlaceInv, PlaceTypes, PlacePast, Facts
<1>4. \A l : PodsTell(l)' = PodsTell(l) /\ NodesTell(l)' = NodesTell(l)
  BY <1>1 DEF PodsTell, NodesTell, PodsFit, NodesFit
<1>5. PlaceReads'
  BY <1>1, <1>3, <1>4 DEF PlaceInv, PlaceReads, Known
<1>6. QED
  BY <1>2, <1>5 DEF PlaceInv

LEMMA PlaceBegins == PL!Init => PlaceInv
<1> SUFFICES ASSUME PL!Init PROVE PlaceInv
  OBVIOUS
<1>1. PICK s \in Placement.starts : cluster = [pods |-> s.pods, nodes |-> s.nodes, changes |-> 0]
  BY DEF PL!Init
<1>2. PodsFit(s.pods) /\ NodesFit(s.nodes)
  <2>1. \A n : PL!Live([pods |-> s.pods], n) = PL!Live(s, n)
    BY LiveOf, Zenon
  <2>2. QED
    BY <2>1, PlacementWellFormed DEF PodsFit, NodesFit, Stage
<1>3. \E command \in {"spread", "max-pods"} :
        lists = [command |-> command, pods |-> Unread, nodes |-> Unread]
  BY DEF PL!Init
<1>4. PlaceTypes
  BY <1>1, <1>2, <1>3 DEF PlaceTypes
<1>5. past = [always |-> PL!Moment(cluster), ever |-> PL!Moment(cluster)]
  BY DEF PL!Init
<1>6. PlacePast
  BY <1>5, MomentFields DEF PlacePast
<1>7. PlaceReads
  BY <1>3 DEF PlaceReads, Known
<1>8. QED
  BY <1>4, <1>6, <1>7 DEF PlaceInv

LEMMA PlaceSteps ==
  ASSUME PlaceInv, PL!Next \/ UNCHANGED viewVars
  PROVE  PlaceInv'
<1> DEFINE pods == cluster.pods
           nodes == cluster.nodes
<1>1. /\ cluster = [pods |-> pods, nodes |-> nodes, changes |-> cluster.changes]
      /\ PodsFit(pods) /\ NodesFit(nodes)
  BY DEF PlaceInv, PlaceTypes
<1>2. \A n : PL!Live([pods |-> pods], n) = PL!Live(cluster, n)
  BY LiveOf
<1>3. ASSUME NEW p \in Placement.pods, NEW s \in Stage, PL!Becomes(p, s),
             s.node \in PL!Nodes /\ ~s.finished =>
               Cardinality(PL!Live(cluster, s.node)) < Placement.ceiling[s.node]
      PROVE  PlaceInv'
  <2> DEFINE new == [q \in DOMAIN pods \cup {p} |-> IF q = p THEN s ELSE pods[q]]
             c == [cluster EXCEPT !.pods = new]
  <2>1. PodsFit(new)
    BY <1>1, <1>2, <1>3, PodBecomes
  <2>2. c = [pods |-> new, nodes |-> nodes, changes |-> cluster.changes]
    BY <1>1
  <2>3. PL!World(c)
    BY <1>3 DEF PL!Becomes
  <2>4. QED
    BY <1>1, <2>1, <2>2, <2>3, PlaceWorldKeeps
<1>4. CASE \E p \in Placement.pods : PL!Create(p)
  <2>1. PICK p \in Placement.pods : PL!Becomes(p, [node |-> None, finished |-> FALSE])
    BY <1>4 DEF PL!Create
  <2>2. [node |-> None, finished |-> FALSE] \in Stage
    BY DEF Stage
  <2>3. QED
    BY <1>3, <2>1, <2>2, PlacementWellFormed
<1>5. CASE \E p \in Placement.pods : PL!Finish(p)
  <2>1. PICK p \in Placement.pods : /\ p \in DOMAIN pods
                                    /\ PL!Becomes(p, [pods[p] EXCEPT !.finished = TRUE])
    BY <1>5, Zenon DEF PL!Finish
  <2>2. [pods[p] EXCEPT !.finished = TRUE] \in Stage
    BY <1>1, <2>1, Zenon DEF PodsFit, Stage
  <2>3. [pods[p] EXCEPT !.finished = TRUE].finished
    BY <1>1, <2>1 DEF PodsFit, Stage
  <2>4. QED
    BY <1>3, <2>1, <2>2, <2>3, Zenon
<1>6. CASE \E p \in Placement.pods : \E n \in PL!Nodes : PL!Bind(p, n)
  <2>1. PICK p \in Placement.pods, n \in PL!Nodes : PL!Bind(p, n)
    BY <1>6
  <2>2. /\ PL!Becomes(p, [node |-> n, finished |-> FALSE])
        /\ Cardinality(PL!Live(cluster, n)) < Placement.ceiling[n]
    BY <2>1, PlaceSizes DEF PL!Bind
  <2>3. [node |-> n, finished |-> FALSE] \in Stage
    BY DEF Stage
  <2>4. QED
    BY <1>3, <2>2, <2>3
<1>7. CASE \E p \in Placement.pods : PL!Delete(p)
  <2>1. PICK p \in Placement.pods :
          PL!World([cluster EXCEPT !.pods = [q \in DOMAIN pods \ {p} |-> pods[q]]])
    BY <1>7 DEF PL!Delete
  <2> DEFINE new == [q \in DOMAIN pods \ {p} |-> pods[q]]
             c == [cluster EXCEPT !.pods = new]
  <2>2. PodsFit(new)
    BY <1>1, PodGoes
  <2>3. c = [pods |-> new, nodes |-> nodes, changes |-> cluster.changes]
    BY <1>1
  <2>4. QED
    BY <1>1, <2>1, <2>2, <2>3, PlaceWorldKeeps
<1>8. ASSUME NEW new, NodesFit(new), PL!World([cluster EXCEPT !.nodes = new])
      PROVE  PlaceInv'
  <2> DEFINE c == [cluster EXCEPT !.nodes = new]
  <2>1. c = [pods |-> pods, nodes |-> new, changes |-> cluster.changes]
    BY <1>1
  <2>2. QED
    BY <1>1, <1>8, <2>1, PlaceWorldKeeps
<1>9. CASE \E n \in PL!Nodes : PL!Join(n)
  <2>1. PICK n \in PL!Nodes :
          PL!World([cluster EXCEPT !.nodes =
            [m \in DOMAIN nodes \cup {n} |-> IF m = n THEN None ELSE nodes[m]]])
    BY <1>9 DEF PL!Join
  <2>2. NodesFit([m \in DOMAIN nodes \cup {n} |-> IF m = n THEN None ELSE nodes[m]])
    BY <1>1 DEF NodesFit
  <2>3. QED
    BY <1>8, <2>1, <2>2
<1>10. CASE \E n \in PL!Nodes : PL!Label(n)
  <2>1. PICK n \in PL!Nodes :
          PL!World([cluster EXCEPT !.nodes = [nodes EXCEPT ![n] = Placement.zone[n]]])
    BY <1>1, <1>10, Zenon DEF PL!Label
  <2>2. NodesFit([nodes EXCEPT ![n] = Placement.zone[n]])
    BY <1>1 DEF NodesFit
  <2>3. QED
    BY <1>8, <2>1, <2>2
<1>11. CASE \E n \in PL!Nodes : PL!Leave(n)
  <2>1. PICK n \in PL!Nodes :
          PL!World([cluster EXCEPT !.nodes = [m \in DOMAIN nodes \ {n} |-> nodes[m]]])
    BY <1>11 DEF PL!Leave
  <2>2. NodesFit([m \in DOMAIN nodes \ {n} |-> nodes[m]])
    BY <1>1 DEF NodesFit
  <2>3. QED
    BY <1>8, <2>1, <2>2
<1>12. CASE PL!ReadPods
  BY <1>12, PlaceReadPods
<1>13. CASE PL!ReadNodes
  BY <1>13, PlaceReadNodes
<1>14. CASE PL!Over \/ UNCHANGED viewVars
  <2>1. UNCHANGED <<cluster, lists, past>>
    BY <1>14 DEF PL!Over, PL!vars, viewVars
  <2>2. PlaceTypes' /\ PlacePast'
    BY <2>1 DEF PlaceInv, PlaceTypes, PlacePast, PodsFit, NodesFit
  <2>3. PlaceReads'
    BY <2>1 DEF PlaceInv, PlaceReads, PodsTell, NodesTell, PodsFit, NodesFit, Known
  <2>4. QED
    BY <2>2, <2>3 DEF PlaceInv
<1>15. QED
  BY <1>4, <1>5, <1>6, <1>7, <1>9, <1>10, <1>11, <1>12, <1>13, <1>14 DEF PL!Next

-----------------------------------------------------------------------------
(* What is printed. *)

LEMMA SlotsShown ==
  ASSUME PlaceInv, PL!Printed
  PROVE  PL!SlotsTold
<1>1. PodsTell(lists.pods) /\ NodesTell(lists.nodes)
  BY Zenon DEF PL!Printed, PlaceInv, PlaceReads, Known
<1>2. past.always.there \subseteq DOMAIN lists.nodes
  BY <1>1 DEF NodesTell
<1>3. ASSUME NEW n \in DOMAIN lists.nodes
      PROVE  PL!Free(n) >= 0 /\ <<n, PL!Free(n)>> \in past.ever.free
  <2> DEFINE live == PL!Live(Alone(lists.pods), n)
  <2>1. n \in PL!Nodes
    BY <1>1, <1>3 DEF NodesTell, NodesFit
  <2>2. live = {p \in DOMAIN lists.pods : lists.pods[p].node = n /\ ~lists.pods[p].finished}
    BY DEF PL!Live, Alone
  <2>3. PL!Free(n) = Placement.ceiling[n] - PL!Cardinality(live)
    BY <2>2 DEF PL!Free, PL!Used
  <2>4. <<n, PL!Free(n)>> \in PL!Moment(Alone(lists.pods))["free"]
    BY <2>1, <2>3, MomentFields
  <2>5. Cardinality(live) <= Placement.ceiling[n]
    <3>1. PL!Live([pods |-> lists.pods], n) = live
      BY DEF PL!Live, Alone
    <3>2. QED
      BY <1>1, <2>1, <3>1 DEF PodsTell, PodsFit
  <2>6. IsFiniteSet(live) /\ Cardinality(live) \in Nat /\ Placement.ceiling[n] \in Nat
    BY <1>1, <2>1, <2>2, FS_Subset, FS_CardinalityType, PlacementWellFormed DEF PodsTell, PodsFit
  <2>7. PL!Free(n) >= 0
    BY <2>3, <2>5, <2>6, PlaceSizes
  <2>8. QED
    BY <1>1, <2>4, <2>7 DEF PodsTell
<1>4. QED
  BY <1>2, <1>3 DEF PL!SlotsTold

(* The replicas of a key are those of the workload.                         *)
LEMMA GroupTrue ==
  ASSUME PodsFit(lists.pods), NEW p \in PL!Placed
  PROVE  /\ p.of # None
         /\ PL!Replicas(PL!WorkloadKey(p)) =
              {q \in DOMAIN lists.pods : lists.pods[q].node # None /\ q.of = p.of}
<1>1. \A q \in DOMAIN lists.pods : q \in Placement.pods
  BY DEF PodsFit
<1>2. p \in DOMAIN lists.pods /\ PL!WorkloadKey(p) # None
  BY DEF PL!Placed
<1>3. p.of # None
  BY <1>1, <1>2, KeyTells
<1>4. \A q \in DOMAIN lists.pods :
        PL!WorkloadKey(q) # None /\ PL!WorkloadKey(q) = PL!WorkloadKey(p) <=> q.of = p.of
  BY <1>1, <1>2, <1>3, KeyTells
<1>5. QED
  BY <1>2, <1>3, <1>4 DEF PL!Replicas, PL!Placed

(* The word deserved, from the sets the code counts.                        *)
LEMMA DeservedOf ==
  ASSUME PodsFit(lists.pods), NEW p \in PL!Placed,
         \A q \in PL!Replicas(PL!WorkloadKey(p)) : ~lists.pods[q].finished
  PROVE  LET w == PL!WorkloadKey(p) IN
           PL!Deserved(Alone(lists.pods), p.of) =
             PL!SpreadVerdict(PL!Cardinality(PL!Replicas(w)), PL!Cardinality(PL!NodesOf(w)),
                              PL!Cardinality({Placement.zone[n] : n \in PL!NodesOf(w)}))
<1> DEFINE c == Alone(lists.pods)
           w == PL!WorkloadKey(p)
           at == {n \in PL!Nodes : \E q \in PL!Live(c, n) : q.of = p.of}
           replicas == {q \in UNION {PL!Live(c, n) : n \in at} : q.of = p.of}
<1>1. \A n : PL!Live(c, n) = {q \in DOMAIN lists.pods :
                                lists.pods[q].node = n /\ ~lists.pods[q].finished}
  BY DEF PL!Live, Alone
<1>2. \A q \in DOMAIN lists.pods : lists.pods[q].node \in PL!Nodes \cup {None}
  BY DEF PodsFit, Stage
<1>3. None \notin PL!Nodes
  BY PlacementWellFormed
<1>4. PL!Replicas(w) = {q \in DOMAIN lists.pods : lists.pods[q].node # None /\ q.of = p.of}
  BY GroupTrue
<1>5. at = PL!NodesOf(w)
  <2>1. ASSUME NEW n \in at PROVE n \in PL!NodesOf(w)
    <3>1. PICK q \in PL!Live(c, n) : q.of = p.of
      OBVIOUS
    <3>2. q \in PL!Replicas(w) /\ lists.pods[q].node = n
      BY <1>1, <1>3, <1>4, <3>1
    <3>3. QED
      BY <3>2 DEF PL!NodesOf
  <2>2. ASSUME NEW n \in PL!NodesOf(w) PROVE n \in at
    <3>1. PICK q \in PL!Replicas(w) : lists.pods[q].node = n
      BY DEF PL!NodesOf
    <3>2. q \in PL!Live(c, n) /\ q.of = p.of /\ n \in PL!Nodes
      BY <1>1, <1>2, <1>4, <3>1
    <3>3. QED
      BY <3>2
  <2>3. QED
    BY <2>1, <2>2
<1>6. replicas = PL!Replicas(w)
  <2>1. ASSUME NEW q \in replicas PROVE q \in PL!Replicas(w)
    BY <1>1, <1>3, <1>4
  <2>2. ASSUME NEW q \in PL!Replicas(w) PROVE q \in replicas
    <3>1. /\ lists.pods[q].node \in PL!Nodes /\ q.of = p.of
          /\ q \in PL!Live(c, lists.pods[q].node)
      BY <1>1, <1>2, <1>4
    <3>2. lists.pods[q].node \in at
      BY <3>1
    <3>3. QED
      BY <3>1, <3>2
  <2>3. QED
    BY <2>1, <2>2
<1>7. QED
  BY <1>5, <1>6, Zenon DEF PL!Deserved

LEMMA SpreadShown ==
  ASSUME PlaceInv, PL!Printed
  PROVE  PL!SpreadTold
<1> DEFINE spoken(w) == {p \in Placement.pods : p.of = w /\ PL!WorkloadKey(p) \in PL!Groups}
<1>1. PodsTell(lists.pods) /\ NodesTell(lists.nodes)
  BY Zenon DEF PL!Printed, PlaceInv, PlaceReads, Known
<1>2. PodsFit(lists.pods) /\ NodesFit(lists.nodes)
  BY <1>1 DEF PodsTell, NodesTell
<1>3. ASSUME NEW w \in past.always.placed PROVE spoken(w) # {}
  <2>1. w \in PL!Moment(Alone(lists.pods))["placed"]
    BY <1>1 DEF PodsTell
  <2>2. PICK p \in DOMAIN lists.pods : p.of # None /\ lists.pods[p].node # None /\ p.of = w
    <3> DEFINE c == Alone(lists.pods)
    <3>1. c.pods = lists.pods
      BY DEF Alone
    <3>2. w \in {p.of : p \in {q \in DOMAIN c.pods : q.of # None /\ c.pods[q].node # None}}
      BY <2>1, MomentFields
    <3>3. QED
      BY <3>1, <3>2
  <2>3. p \in Placement.pods
    BY <1>2 DEF PodsFit
  <2>4. p \in PL!Placed
    BY <2>2, <2>3, KeyTells DEF PL!Placed
  <2>5. p \in spoken(w)
    BY <2>2, <2>3, <2>4 DEF PL!Groups
  <2>6. QED
    BY <2>5
<1>4. ASSUME NEW p \in PL!Placed,
             \A q \in PL!Replicas(PL!WorkloadKey(p)) : ~lists.pods[q].finished
      PROVE  LET w == PL!WorkloadKey(p)
                 word == PL!Verdict(w)
                 deserved(v) == <<p.of, v>> \in past.ever.words
             IN  /\ word \in {"SPREAD", "SPOF-NODE", "SINGLE"} => deserved(word)
                 /\ word \in {"SPOF-ZONE", "MULTI-NODE"} =>
                      deserved("SPREAD") \/ deserved("SPOF-ZONE")
                 /\ word = "SPOF-ZONE" /\ PL!NodesOf(w) \subseteq past.always.labelled =>
                      deserved(word)
                 /\ PL!NodesOf(w) \subseteq past.always.labelled => word # "MULTI-NODE"
  <2> DEFINE w == PL!WorkloadKey(p)
             nodes == PL!NodesOf(w)
             told == PL!ZonesOf(w)
             true == {Placement.zone[n] : n \in nodes}
             R == Cardinality(PL!Replicas(w))
             N == Cardinality(nodes)
             Z == Cardinality(told)
             T == Cardinality(true)
             word == PL!SpreadVerdict(R, N, Z)
             right == PL!SpreadVerdict(R, N, T)
  <2>1. PL!Verdict(w) = word
    BY PlaceSizes DEF PL!Verdict
  <2>2. <<p.of, right>> \in past.ever.words
    <3>1. right = PL!Deserved(Alone(lists.pods), p.of)
      BY <1>2, <1>4, DeservedOf, PlaceSizes
    <3>2. p \in Placement.pods /\ p.of # None
      BY <1>2, GroupTrue DEF PL!Placed, PodsFit
    <3>3. <<p.of, right>> \in PL!Moment(Alone(lists.pods))["words"]
      BY <3>1, <3>2, MomentFields
    <3>4. QED
      BY <1>1, <3>3 DEF PodsTell
  <2>3. /\ nodes \subseteq PL!Nodes /\ nodes # {}
        /\ IsFiniteSet(PL!Replicas(w)) /\ IsFiniteSet(nodes)
    <3>1. PL!Replicas(w) \subseteq DOMAIN lists.pods /\ p \in PL!Replicas(w)
      BY DEF PL!Replicas, PL!Placed
    <3>2. IsFiniteSet(PL!Replicas(w))
      BY <1>2, <3>1, FS_Subset DEF PodsFit
    <3>3. nodes = {lists.pods[q].node : q \in PL!Replicas(w)}
      BY DEF PL!NodesOf
    <3>4. IsFiniteSet(nodes)
      <4> DEFINE f == [q \in PL!Replicas(w) |-> lists.pods[q].node]
      <4>1. IsFiniteSet({f[q] : q \in PL!Replicas(w)})
        BY <3>2, ImageFinite, Zenon
      <4>2. nodes = {f[q] : q \in PL!Replicas(w)}
        BY <3>3
      <4>3. QED
        BY <4>1, <4>2
    <3>5. nodes \subseteq PL!Nodes
      BY <1>2, <3>1, <3>3 DEF PL!Replicas, PL!Placed, PodsFit, Stage
    <3>6. QED
      BY <3>1, <3>2, <3>3, <3>4, <3>5
  <2>4. told \subseteq true
    <3>1. ASSUME NEW z \in told PROVE z \in true
      <4>1. PICK n \in nodes : z = PL!ZoneOf(n) /\ z # None
        BY DEF PL!ZonesOf
      <4>2. z = Placement.zone[n]
        BY <1>2, <4>1 DEF PL!ZoneOf, NodesFit
      <4>3. QED
        BY <4>2
    <3>2. QED
      BY <3>1
  <2>5. IsFiniteSet(true) /\ IsFiniteSet(told) /\ Z <= T
    <3>1. IsFiniteSet(true)
      <4> DEFINE f == [n \in nodes |-> Placement.zone[n]]
      <4>1. IsFiniteSet({f[n] : n \in nodes})
        BY <2>3, ImageFinite, Zenon
      <4>2. true = {f[n] : n \in nodes}
        OBVIOUS
      <4>3. QED
        BY <4>1, <4>2
    <3>2. QED
      BY <2>4, <3>1, FS_Subset
  <2>6. R \in Nat /\ N \in Nat /\ Z \in Nat /\ T \in Nat
    BY <2>3, <2>5, FS_CardinalityType
  <2>7. T >= 1
    <3>1. true # {}
      BY <2>3
    <3>2. T # 0
      BY <2>5, <3>1, FS_EmptySet
    <3>3. QED
      BY <2>6, <3>2
  <2>8. ASSUME nodes \subseteq past.always.labelled PROVE Z = T
    <3>1. \A n \in nodes : PL!ZoneOf(n) # None /\ PL!ZoneOf(n) = Placement.zone[n]
      BY <1>1, <2>8 DEF NodesTell, NodesFit, PL!ZoneOf
    <3>2. true \subseteq told
      BY <3>1 DEF PL!ZonesOf
    <3>3. told = true
      BY <2>4, <3>2
    <3>4. QED
      BY <3>3
  <2> HIDE DEF R, N, Z, T
  <2>9. word \in {"SPREAD", "SPOF-NODE", "SINGLE"} => word = right
    BY <2>5, <2>6, <2>7 DEF PL!SpreadVerdict
  <2>10. word \in {"SPOF-ZONE", "MULTI-NODE"} => right \in {"SPREAD", "SPOF-ZONE"}
    BY <2>5, <2>6, <2>7 DEF PL!SpreadVerdict
  <2>11. Z = T => word = right /\ word # "MULTI-NODE"
    BY <2>6, <2>7 DEF PL!SpreadVerdict
  <2>12. QED
    BY <2>1, <2>2, <2>8, <2>9, <2>10, <2>11
<1>5. QED
  BY <1>3, <1>4 DEF PL!SpreadTold

LEMMA PlaceTyped == PlaceInv => PL!TypeOK
<1> SUFFICES ASSUME PlaceInv PROVE PL!TypeOK
  OBVIOUS
<1>1. \A n \in PL!Nodes : PL!Cardinality(PL!Live(cluster, n)) <= Placement.ceiling[n]
  <2>1. \A n : PL!Live([pods |-> cluster.pods], n) = PL!Live(cluster, n)
    BY LiveOf, Zenon
  <2>2. QED
    BY <2>1, PlaceSizes DEF PlaceInv, PlaceTypes, PodsFit
<1>2. DOMAIN cluster.pods \subseteq Placement.pods /\ DOMAIN cluster.nodes \subseteq PL!Nodes
  BY DEF PlaceInv, PlaceTypes, PodsFit, NodesFit
<1>3. \A f \in DOMAIN past.ever : past.always[f] \subseteq past.ever[f]
  BY DEF PlaceInv, PlacePast
<1>4. QED
  BY <1>1, <1>2, <1>3 DEF PL!TypeOK, PlaceInv, PlaceTypes

LEMMA PlaceInvariance == Spec => [](view = "placements" => PlaceInv)
<1>1. Init => (view = "placements" => PlaceInv)
  BY PlaceBegins DEF Init
<1>2. (view = "placements" => PlaceInv) /\ [Next]_vars => (view = "placements" => PlaceInv)'
  BY OneView, PlaceSteps
<1>3. QED
  BY <1>1, <1>2, PTL DEF Spec

(* What spread says of a workload was so at some moment, whether or not its *)
(* nodes are known, and a node there all along shows a number of free slots *)
(* it had at some moment, whatever came and went between the lists.         *)
THEOREM PlacementsTold == Spec => []PlacementTold
<1>1. (view = "placements" => PlaceInv) => PlacementTold
  BY SlotsShown, SpreadShown DEF PlacementTold, PL!PlacementTold
<1>2. QED
  BY <1>1, PlaceInvariance, PTL

-----------------------------------------------------------------------------
(* ingress. *)

(* The facts of services, and of secrets. *)
ServiceFacts(S) ==
  {<<"service", s.ns, s.name>> : s \in S}
  \cup (UNION {{<<"port", s.ns, s.name, p>> : p \in s.ports} : s \in S})
SecretFacts(C) == {IG!SecretFact(s.ns, s.name) : s \in C}

LEMMA FactsSplit ==
  ASSUME NEW c
  PROVE  /\ IG!Facts(c) = ServiceFacts(c.services) \cup SecretFacts(c.secrets)
         /\ \A f \in ServiceFacts(c.services) : f[1] # "secret"
         /\ \A f \in SecretFacts(c.secrets) : f[1] = "secret"
<1>1. IG!Facts(c) = ServiceFacts(c.services) \cup SecretFacts(c.secrets)
  BY DEF ServiceFacts, SecretFacts, IG!Facts
<1>2. \A f \in ServiceFacts(c.services) : f[1] # "secret"
  BY DEF ServiceFacts
<1>3. \A f \in SecretFacts(c.secrets) : f[1] = "secret"
  BY DEF SecretFacts, IG!SecretFact
<1>4. QED
  BY <1>1, <1>2, <1>3

SiteTypes ==
  /\ cluster = [ingresses |-> cluster.ingresses, services |-> cluster.services,
                secrets |-> cluster.secrets, granted |-> cluster.granted,
                changes |-> cluster.changes]
  /\ cluster.ingresses \subseteq Ingress.ingresses
  /\ cluster.services \subseteq Ingress.services /\ cluster.secrets \subseteq Ingress.secrets
  /\ lists = [ingresses |-> lists.ingresses, services |-> lists.services,
              secrets |-> lists.secrets]
  /\ past = [always |-> past.always, ever |-> past.ever]
  /\ Known(lists.ingresses) => lists.ingresses \subseteq Ingress.ingresses

(* What lasted is true now, and what is true now was true at some moment.   *)
SitePast == past.always \subseteq IG!Facts(cluster) /\ IG!Facts(cluster) \subseteq past.ever

(* A list holds what lasted, and only what was there at some moment.        *)
SiteReads ==
  /\ Known(lists.services) =>
       /\ \A f \in past.always : f[1] # "secret" => f \in ServiceFacts(lists.services)
       /\ ServiceFacts(lists.services) \subseteq past.ever
  /\ Known(lists.secrets) /\ lists.secrets # Forbidden =>
       /\ lists.secrets \subseteq Ingress.secrets
       /\ \A f \in past.always : f[1] = "secret" => f \in SecretFacts(lists.secrets)
       /\ SecretFacts(lists.secrets) \subseteq past.ever

SiteInv == SiteTypes /\ SitePast /\ SiteReads

-----------------------------------------------------------------------------
(* Hosts. *)

(* Two tails are equal when the sequences are, but for their first element. *)
LEMMA TailsEqual ==
  ASSUME NEW s \in Seq(STRING), NEW t \in Seq(STRING), s # <<>>, t # <<>>
  PROVE  Tail(s) = Tail(t) <=> Len(s) = Len(t) /\ \A k \in 2..Len(s) : s[k] = t[k]
<1>1. /\ Len(s) \in Nat \ {0} /\ Len(t) \in Nat \ {0}
      /\ Tail(s) \in Seq(STRING) /\ Tail(t) \in Seq(STRING)
      /\ Len(Tail(s)) = Len(s) - 1 /\ Len(Tail(t)) = Len(t) - 1
      /\ \A k \in 1..Len(s) - 1 : Tail(s)[k] = s[k + 1]
      /\ \A k \in 1..Len(t) - 1 : Tail(t)[k] = t[k + 1]
  OBVIOUS
<1>a. ASSUME Tail(s) = Tail(t) PROVE Len(s) = Len(t)
  <2>1. Len(s) - 1 = Len(t) - 1
    BY <1>1, <1>a, Zenon
  <2>2. Len(s) \in Int /\ Len(t) \in Int
    OBVIOUS
  <2>3. QED
    BY <2>1, <2>2, SMTT(30)
<1>2. ASSUME Tail(s) = Tail(t), NEW k \in 2..Len(s)
      PROVE  s[k] = t[k]
  <2>1. Len(s) = Len(t)
    BY <1>2, <1>a
  <2>2. k - 1 \in 1..Len(s) - 1 /\ k - 1 + 1 = k
    BY <1>1
  <2>3. QED
    BY <1>1, <1>2, <2>1, <2>2, Zenon
<1>3. ASSUME Len(s) = Len(t), \A k \in 2..Len(s) : s[k] = t[k]
      PROVE  Tail(s) = Tail(t)
  <2>1. ASSUME NEW k \in 1..Len(s) - 1 PROVE Tail(s)[k] = Tail(t)[k]
    <3>1. k + 1 \in 2..Len(s)
      BY <1>1
    <3>2. QED
      BY <1>1, <1>3, <3>1
  <2>2. QED
    BY <1>1, <1>3, <2>1, SeqEqual
<1>4. QED
  BY <1>a, <1>2, <1>3

(* The code's match of hosts is TLS's match of all the names they stand for. *)
LEMMA HostMatchesCovers ==
  ASSUME NEW i \in Ingress.ingresses, NEW p \in IG!Patterns(i), NEW host,
         host = IG!Any \/ host \in IG!Patterns(i)
  PROVE  IG!HostMatches(p, host) <=> IG!Covers(p, host)
<1> DEFINE wild(q) == Len(q) > 1 /\ q[1] = "*" /\ \E m, n \in Ingress.hosts :
                        m # n /\ IG!CertCovers(q, m) /\ IG!CertCovers(q, n)
<1>1. ASSUME NEW n \in Ingress.hosts PROVE n \in Seq(STRING) /\ n # <<>> /\ n[1] # "*"
  BY IngressWellFormed, Zenon
<1>2. ASSUME NEW q \in IG!Patterns(i)
      PROVE  q \in Seq(STRING) /\ q # <<>> /\ q # IG!Any /\ (q \in Ingress.hosts \/ wild(q))
  <2>1. q \in Ingress.hosts \/ (q \in Seq(STRING) /\ wild(q))
    BY IngressWellFormed, Zenon
  <2>2. CASE q \in Ingress.hosts
    BY <1>1, <2>2 DEF IG!Any
  <2>3. CASE q \in Seq(STRING) /\ wild(q)
    <3>1. Len(IG!Any) = 1 /\ Len(<<>>) = 0
      BY DEF IG!Any
    <3>2. Len(q) # 0 /\ Len(q) # 1
      <4>1. Len(q) \in Nat
        BY <2>3
      <4>2. Len(q) > 1
        BY <2>3, Zenon
      <4>3. QED
        BY <4>1, <4>2
    <3>3. q # <<>> /\ q # IG!Any
      BY <3>1, <3>2, Zenon
    <3>4. QED
      BY <2>3, <3>3
  <2>4. QED
    BY <2>1, <2>2, <2>3
<1>3. ASSUME NEW n \in Ingress.hosts PROVE IG!CertCovers(n, n)
  BY <1>1 DEF IG!CertCovers
<1>4. ASSUME NEW n \in Ingress.hosts, NEW m \in Ingress.hosts, IG!CertCovers(m, n) PROVE m = n
  <2>1. Len(m) = Len(n) /\ \A k \in 1..Len(m) : m[k] = n[k]
    BY <1>1, <1>4 DEF IG!CertCovers
  <2>2. QED
    BY <1>1, <2>1, SeqEqual
<1>5. CASE host = IG!Any
  <2>1. \E n \in Ingress.hosts : IG!CertCovers(p, n)
    BY <1>2, <1>3
  <2>2. QED
    BY <1>5, <2>1 DEF IG!HostMatches, IG!Covers
<1>6. CASE host # IG!Any
  <2>1. host \in Seq(STRING) /\ host # <<>> /\ (host \in Ingress.hosts \/ wild(host))
    BY <1>2, <1>6
  <2>2. p \in Seq(STRING) /\ p # <<>> /\ (p \in Ingress.hosts \/ wild(p))
    BY <1>2
  <2>3. ASSUME Len(p) > 1, p[1] = "*", Tail(host) = Tail(p), NEW n \in Ingress.hosts,
               IG!CertCovers(host, n)
        PROVE  IG!CertCovers(p, n)
    <3>1. Len(host) = Len(p) /\ \A k \in 2..Len(host) : host[k] = p[k]
      BY <2>1, <2>2, <2>3, TailsEqual
    <3>2. QED
      BY <1>1, <2>1, <2>2, <2>3, <3>1, SMTT(30) DEF IG!CertCovers
  <2>4. IG!HostMatches(p, host) => IG!Covers(p, host)
    BY <1>6, <2>3 DEF IG!HostMatches, IG!Covers
  <2>5. ASSUME IG!Covers(p, host) PROVE IG!HostMatches(p, host)
    <3>1. ASSUME NEW n \in Ingress.hosts, IG!CertCovers(host, n) PROVE IG!CertCovers(p, n)
      BY <1>6, <2>5, <3>1 DEF IG!Covers
    <3>2. CASE host \in Ingress.hosts
      <4>1. IG!CertCovers(p, host)
        BY <1>3, <3>1, <3>2
      <4>2. CASE p \in Ingress.hosts
        BY <1>4, <3>2, <4>1, <4>2 DEF IG!HostMatches
      <4>3. CASE wild(p)
        <5>1. Len(host) = Len(p) /\ \A k \in 2..Len(host) : host[k] = p[k]
          BY <2>1, <2>2, <4>1 DEF IG!CertCovers
        <5>2. Tail(host) = Tail(p)
          BY <2>1, <2>2, <5>1, TailsEqual
        <5>3. QED
          BY <2>1, <4>3, <5>2 DEF IG!HostMatches
      <4>4. QED
        BY <2>2, <4>2, <4>3
    <3>3. CASE wild(host)
      <4>1. PICK m, n \in Ingress.hosts : m # n /\ IG!CertCovers(host, m) /\ IG!CertCovers(host, n)
        BY <3>3
      <4>2. IG!CertCovers(p, m) /\ IG!CertCovers(p, n)
        BY <3>1, <4>1
      <4>3. wild(p)
        <5>1. p \notin Ingress.hosts
          BY <1>4, <4>1, <4>2
        <5>2. QED
          BY <2>2, <5>1
      <4>4. Len(host) = Len(p) /\ \A k \in 2..Len(host) : host[k] = p[k]
        BY <2>1, <2>2, <4>1, <4>2 DEF IG!CertCovers
      <4>5. Tail(host) = Tail(p)
        BY <2>1, <2>2, <4>4, TailsEqual
      <4>6. QED
        BY <2>1, <4>3, <4>5 DEF IG!HostMatches
    <3>4. QED
      BY <2>1, <3>2, <3>3
  <2>6. QED
    BY <2>4, <2>5
<1>7. QED
  BY <1>5, <1>6

(* A rule has TLS by the code's words exactly when it has. *)
LEMMA CoveredSecured ==
  ASSUME NEW i \in Ingress.ingresses, NEW rule \in IG!IngressRules(i)
  PROVE  IG!TlsSecretFor(i, rule.host).covered <=> IG!Secured(i, rule.host)
<1> DEFINE host == rule.host
           blocks == IG!TlsBlocks(i, host)
<1>1. host = IG!Any \/ host \in IG!Patterns(i)
  <2>1. CASE \E r \in i.rules : host = IF r.host = <<>> THEN IG!Any ELSE r.host
    BY <2>1 DEF IG!Patterns
  <2>2. CASE host = IG!Any
    BY <2>2
  <2>3. QED
    BY <2>1, <2>2 DEF IG!IngressRules
<1>2. IG!TlsSecretFor(i, host).covered <=> blocks # {}
  BY Zenon DEF IG!TlsSecretFor
<1>3. \A k \in DOMAIN i.tls : i.tls[k].hosts \subseteq IG!Patterns(i)
  BY DEF IG!Patterns
<1>4. ASSUME NEW k \in DOMAIN i.tls, NEW p \in i.tls[k].hosts
      PROVE  IG!HostMatches(p, host) <=> IG!Covers(p, host)
  <2>1. p \in IG!Patterns(i)
    BY <1>3
  <2>2. QED
    BY <1>1, <2>1, HostMatchesCovers
<1>5. blocks # {} <=> IG!Secured(i, host)
  BY <1>4 DEF IG!TlsBlocks, IG!Secured
<1>6. QED
  BY <1>2, <1>5

-----------------------------------------------------------------------------
(* The steps. *)

LEMMA SiteBegins == IG!Init => SiteInv
<1> SUFFICES ASSUME IG!Init PROVE SiteInv
  OBVIOUS
<1>1. PICK s \in Ingress.starts, g \in BOOLEAN :
        cluster = [ingresses |-> s.ingresses, services |-> s.services, secrets |-> s.secrets,
                   granted |-> g, changes |-> 0]
  BY DEF IG!Init
<1>2. /\ lists = [ingresses |-> Unread, services |-> Unread, secrets |-> Unread]
      /\ past = [always |-> IG!Facts(cluster), ever |-> IG!Facts(cluster)]
  BY DEF IG!Init
<1>3. /\ s.ingresses \subseteq Ingress.ingresses /\ s.services \subseteq Ingress.services
      /\ s.secrets \subseteq Ingress.secrets
  BY IngressWellFormed, Zenon
<1>4. SiteTypes
  BY <1>1, <1>2, <1>3 DEF SiteTypes, Known
<1>5. SitePast /\ SiteReads
  BY <1>2 DEF SitePast, SiteReads, Known
<1>6. QED
  BY <1>4, <1>5 DEF SiteInv

(* The cluster changes: less has lasted, more was there. *)
LEMMA SiteChanges ==
  ASSUME SiteInv, NEW is \in SUBSET Ingress.ingresses, NEW S \in SUBSET Ingress.services,
         NEW C \in SUBSET Ingress.secrets,
         NEW c, c = [ingresses |-> is, services |-> S, secrets |-> C,
                     granted |-> cluster.granted, changes |-> cluster.changes],
         IG!Change(c)
  PROVE  SiteInv'
<1>1. cluster' = [ingresses |-> is, services |-> S, secrets |-> C,
                  granted |-> cluster.granted, changes |-> cluster.changes + 1]
  BY DEF IG!Change
<1>2. IG!Facts(cluster)' = IG!Facts(c)
  <2>1. c.services = cluster'.services /\ c.secrets = cluster'.secrets
    BY <1>1
  <2>2. QED
    BY <2>1 DEF IG!Facts
<1>3. /\ past'.always = past.always \cap IG!Facts(c) /\ past'.ever = past.ever \cup IG!Facts(c)
      /\ past' = [always |-> past'.always, ever |-> past'.ever]
      /\ lists' = lists
  BY DEF IG!Change
<1>4. SiteTypes'
  BY <1>1, <1>3 DEF SiteInv, SiteTypes, Known
<1>5. SitePast'
  BY <1>2, <1>3 DEF SitePast
<1>6. SiteReads'
  BY <1>3 DEF SiteInv, SiteReads, Known
<1>7. QED
  BY <1>4, <1>5, <1>6 DEF SiteInv

LEMMA SiteReadServices == SiteInv /\ IG!ReadServices => SiteInv'
<1> SUFFICES ASSUME SiteInv, IG!ReadServices PROVE SiteInv'
  OBVIOUS
<1>1. PICK l \in {cluster.services, Failed} : lists' = [lists EXCEPT !.services = l]
  BY DEF IG!ReadServices
<1>2. /\ lists' = [ingresses |-> lists.ingresses, services |-> l, secrets |-> lists.secrets]
      /\ UNCHANGED <<cluster, past>>
  BY <1>1 DEF IG!ReadServices, SiteInv, SiteTypes
<1>3. SiteTypes' /\ SitePast'
  BY <1>2 DEF SiteInv, SiteTypes, SitePast, Known
<1>4. /\ \A f \in past.always : f[1] # "secret" => f \in ServiceFacts(cluster.services)
      /\ ServiceFacts(cluster.services) \subseteq past.ever
  BY FactsSplit DEF SiteInv, SitePast
<1>5. SiteReads'
  BY <1>2, <1>4 DEF SiteInv, SiteReads, Known
<1>6. QED
  BY <1>3, <1>5 DEF SiteInv

LEMMA SiteReadSecrets == SiteInv /\ IG!ReadSecrets => SiteInv'
<1> SUFFICES ASSUME SiteInv, IG!ReadSecrets PROVE SiteInv'
  OBVIOUS
<1>1. PICK l \in {IF cluster.granted THEN cluster.secrets ELSE Forbidden, Failed} :
        lists' = [lists EXCEPT !.secrets = l]
  BY DEF IG!ReadSecrets
<1>2. /\ lists' = [ingresses |-> lists.ingresses, services |-> lists.services, secrets |-> l]
      /\ UNCHANGED <<cluster, past>>
  BY <1>1 DEF IG!ReadSecrets, SiteInv, SiteTypes
<1>3. SiteTypes' /\ SitePast'
  BY <1>2 DEF SiteInv, SiteTypes, SitePast, Known
<1>4. /\ \A f \in past.always : f[1] = "secret" => f \in SecretFacts(cluster.secrets)
      /\ SecretFacts(cluster.secrets) \subseteq past.ever
      /\ cluster.secrets \subseteq Ingress.secrets
  BY FactsSplit DEF SiteInv, SitePast, SiteTypes
<1>5. SiteReads'
  BY <1>2, <1>4 DEF SiteInv, SiteReads, Known
<1>6. QED
  BY <1>3, <1>5 DEF SiteInv

LEMMA SiteSteps ==
  ASSUME SiteInv, IG!Next \/ UNCHANGED viewVars
  PROVE  SiteInv'
<1> DEFINE changed(is, S, C) == [ingresses |-> is, services |-> S, secrets |-> C,
                                 granted |-> cluster.granted, changes |-> cluster.changes]
<1>1. SiteTypes
  BY DEF SiteInv
<1>a. /\ cluster.ingresses \in SUBSET Ingress.ingresses
      /\ cluster.services \in SUBSET Ingress.services
      /\ cluster.secrets \in SUBSET Ingress.secrets
  BY <1>1 DEF SiteTypes
<1>2. CASE IG!IngressChange
  <2>1. PICK is \in {{}} \cup {{i} : i \in Ingress.ingresses} :
          IG!Change([cluster EXCEPT !.ingresses = is])
    BY <1>2, Zenon DEF IG!IngressChange
  <2>2. [cluster EXCEPT !.ingresses = is] = changed(is, cluster.services, cluster.secrets)
    BY <1>1 DEF SiteTypes
  <2>3. is \in SUBSET Ingress.ingresses
    OBVIOUS
  <2>4. QED
    BY <1>a, <2>1, <2>2, <2>3, SiteChanges
<1>3. CASE IG!ServiceChange
  <2>1. PICK S \in SUBSET Ingress.services : IG!Change([cluster EXCEPT !.services = S])
    <3>1. PICK s \in Ingress.services :
            LET others == {t \in cluster.services : <<t.ns, t.name>> # <<s.ns, s.name>>} IN
              IG!Change([cluster EXCEPT !.services = IF s \in @ THEN others ELSE others \cup {s}])
      BY <1>3, Zenon DEF IG!ServiceChange
    <3> DEFINE others == {t \in cluster.services : <<t.ns, t.name>> # <<s.ns, s.name>>}
    <3>2. (IF s \in cluster.services THEN others ELSE others \cup {s})
            \in SUBSET Ingress.services
      BY <1>a
    <3>3. QED
      BY <3>1, <3>2, Zenon
  <2>2. [cluster EXCEPT !.services = S] = changed(cluster.ingresses, S, cluster.secrets)
    BY <1>1 DEF SiteTypes
  <2>3. QED
    BY <1>a, <2>1, <2>2, SiteChanges
<1>4. CASE IG!SecretChange
  <2>1. PICK C \in SUBSET Ingress.secrets : IG!Change([cluster EXCEPT !.secrets = C])
    <3>1. PICK s \in Ingress.secrets :
            IG!Change([cluster EXCEPT !.secrets = IF s \in @ THEN @ \ {s} ELSE @ \cup {s}])
      BY <1>4 DEF IG!SecretChange
    <3>2. (IF s \in cluster.secrets THEN cluster.secrets \ {s} ELSE cluster.secrets \cup {s})
            \in SUBSET Ingress.secrets
      BY <1>a
    <3>3. QED
      BY <3>1, <3>2, Zenon
  <2>2. [cluster EXCEPT !.secrets = C] = changed(cluster.ingresses, cluster.services, C)
    BY <1>1 DEF SiteTypes
  <2>3. QED
    BY <1>a, <2>1, <2>2, SiteChanges
<1>5. CASE IG!ReadIngresses
  <2>1. PICK l \in {cluster.ingresses, Failed} : lists' = [lists EXCEPT !.ingresses = l]
    BY <1>5 DEF IG!ReadIngresses
  <2>2. /\ lists' = [ingresses |-> l, services |-> lists.services, secrets |-> lists.secrets]
        /\ UNCHANGED <<cluster, past>>
    BY <1>1, <1>5, <2>1 DEF IG!ReadIngresses, SiteTypes
  <2>3. SiteTypes'
    BY <1>1, <2>2 DEF SiteTypes, Known
  <2>4. SitePast' /\ SiteReads'
    BY <2>2 DEF SiteInv, SitePast, SiteReads, Known
  <2>5. QED
    BY <2>3, <2>4 DEF SiteInv
<1>6. CASE IG!Over \/ UNCHANGED viewVars
  <2>1. UNCHANGED viewVars
    BY <1>6 DEF IG!Over, IG!vars, viewVars
  <2>2. QED
    BY <2>1 DEF viewVars, SiteInv, SiteTypes, SitePast, SiteReads, Known
<1>7. QED
  BY <1>2, <1>3, <1>4, <1>5, <1>6, SiteReadServices, SiteReadSecrets DEF IG!Next

LEMMA SiteTyped == SiteInv => IG!TypeOK
BY IngressWellFormed DEF SiteInv, SiteTypes, SitePast, IG!TypeOK

LEMMA SiteInvariance == Spec => [](view = "ingress" => SiteInv)
<1>1. Init => (view = "ingress" => SiteInv)
  BY SiteBegins DEF Init
<1>2. (view = "ingress" => SiteInv) /\ [Next]_vars => (view = "ingress" => SiteInv)'
  BY OneView, SiteSteps
<1>3. QED
  BY <1>1, <1>2, PTL DEF Spec

-----------------------------------------------------------------------------
(* The rows. *)

(* What a list says of a fact. *)
LEMMA ServiceFactRead ==
  ASSUME NEW S, NEW ns, NEW b
  PROVE  /\ IG!ServiceFact(ns, b) \in ServiceFacts(S) <=> IG!ServicesNamed(S, ns, b) # {}
         /\ IG!PortFact(ns, b) \in ServiceFacts(S)
              <=> \E s \in IG!ServicesNamed(S, ns, b) : b.port \in s.ports
<1> DEFINE services == {<<"service", s.ns, s.name>> : s \in S}
           ports == UNION {{<<"port", s.ns, s.name, p>> : p \in s.ports} : s \in S}
<1>1. ServiceFacts(S) = services \cup ports
  BY DEF ServiceFacts
<1>2. IG!ServiceFact(ns, b) \notin ports
  BY DEF IG!ServiceFact
<1>3. IG!PortFact(ns, b) \notin services
  BY DEF IG!PortFact
<1>4. IG!ServiceFact(ns, b) \in services <=> \E s \in S : s.ns = ns /\ s.name = b.name
  BY DEF IG!ServiceFact
<1>5. IG!PortFact(ns, b) \in ports
        <=> \E s \in S : s.ns = ns /\ s.name = b.name /\ b.port \in s.ports
  BY DEF IG!PortFact
<1>6. QED
  BY <1>1, <1>2, <1>3, <1>4, <1>5 DEF IG!ServicesNamed

LEMMA SecretFactRead ==
  ASSUME NEW C \in SUBSET Ingress.secrets, NEW ns, NEW name
  PROVE  IG!SecretFact(ns, name) \in SecretFacts(C) <=> [ns |-> ns, name |-> name] \in C
<1>1. IG!SecretFact(ns, name) \in SecretFacts(C) <=> \E s \in C : s.ns = ns /\ s.name = name
  BY DEF SecretFacts, IG!SecretFact
<1>2. \A s \in C : s = [ns |-> s.ns, name |-> s.name]
  BY IngressWellFormed, Zenon
<1>3. QED
  BY <1>1, <1>2

LEMMA RowsTrue ==
  ASSUME SiteInv, IG!Printed, NEW x \in IG!Rows
  PROVE  /\ x.ing \in Ingress.ingresses /\ x.rule \in IG!IngressRules(x.ing)
         /\ x.verdict = IG!Verdict(x.ing, x.rule)
         /\ Known(lists.services) /\ Known(lists.secrets)
<1>1. lists.ingresses # {}
  BY DEF IG!Rows
<1>2. Known(lists.ingresses) /\ Known(lists.services) /\ Known(lists.secrets)
  BY <1>1 DEF IG!Printed, IG!Done, IG!IngressesRead, Known
<1>3. PICK i \in lists.ingresses : \E r \in IG!IngressRules(i) :
        x = [ing |-> i, rule |-> r, verdict |-> IG!Verdict(i, r)]
  BY <1>1 DEF IG!Rows
<1>4. PICK r \in IG!IngressRules(i) :
        x = [ing |-> i, rule |-> r, verdict |-> IG!Verdict(i, r)]
  BY <1>3
<1>5. x.ing = i /\ x.rule = r /\ x.verdict = IG!Verdict(i, r)
  BY <1>4
<1>6. i \in Ingress.ingresses
  BY <1>2 DEF SiteInv, SiteTypes
<1>7. QED
  BY <1>2, <1>5, <1>6

LEMMA FaultShown == SiteInv => IG!FaultTrue
<1> SUFFICES ASSUME SiteInv, IG!Printed, NEW x \in IG!Rows
             PROVE  /\ x.verdict = "NO-SERVICE" =>
                         IG!ServiceFact(x.ing.ns, x.rule.backend) \notin past.always
                    /\ x.verdict = "NO-PORT" =>
                         IG!PortFact(x.ing.ns, x.rule.backend) \notin past.always
                    /\ x.verdict = "NO-SECRET" =>
                         IG!SecretFact(x.ing.ns, IG!TlsSecretFor(x.ing, x.rule.host).secret)
                           \notin past.always
                    /\ x.verdict = "NO-TLS" => ~IG!Secured(x.ing, x.rule.host)
  BY DEF IG!FaultTrue
<1> DEFINE ns == x.ing.ns
           b == x.rule.backend
           t == IG!TlsSecretFor(x.ing, x.rule.host)
           found == IG!ServicesNamed(lists.services, ns, b)
<1>1. /\ Known(lists.services) /\ Known(lists.secrets)
      /\ x.ing \in Ingress.ingresses /\ x.rule \in IG!IngressRules(x.ing)
      /\ x.verdict = IG!Verdict(x.ing, x.rule)
  BY RowsTrue
<1>2. /\ IG!ServiceFact(ns, b) \in past.always => found # {}
      /\ IG!PortFact(ns, b) \in past.always => \E s \in found : b.port \in s.ports
  <2>1. IG!ServiceFact(ns, b)[1] # "secret" /\ IG!PortFact(ns, b)[1] # "secret"
    BY DEF IG!ServiceFact, IG!PortFact
  <2>2. QED
    BY <1>1, <2>1, ServiceFactRead DEF SiteInv, SiteReads
<1>3. IG!SecretFact(ns, t.secret) \in past.always => IG!HaveSecret(ns, t.secret)
  <2>1. IG!SecretFact(ns, t.secret)[1] = "secret"
    BY DEF IG!SecretFact
  <2>2. QED
    BY <1>1, <2>1, SecretFactRead DEF SiteInv, SiteReads, IG!HaveSecret, IG!SecretsKnown
<1>4. x.verdict = "NO-SERVICE" => b.kind = "empty" \/ found = {}
  BY <1>1, Zenon DEF IG!Verdict
<1>5. x.verdict = "NO-PORT" => \A s \in found : b.port \notin s.ports
  BY <1>1, Zenon DEF IG!Verdict
<1>6. x.verdict = "NO-SECRET" => ~IG!HaveSecret(ns, t.secret)
  BY <1>1, Zenon DEF IG!Verdict
<1>7. x.verdict = "NO-TLS" => ~t.covered
  BY <1>1, Zenon DEF IG!Verdict
<1>8. t.covered <=> IG!Secured(x.ing, x.rule.host)
  BY <1>1, CoveredSecured
<1>9. b.kind = "empty" => IG!ServiceFact(ns, b) \notin past.always
  <2>1. SUFFICES ASSUME b.kind = "empty", IG!ServiceFact(ns, b) \in past.always PROVE FALSE
    OBVIOUS
  <2>2. IG!ServiceFact(ns, b) \in ServiceFacts(cluster.services)
    <3>1. IG!ServiceFact(ns, b)[1] # "secret"
      BY DEF IG!ServiceFact
    <3>2. QED
      BY <2>1, <3>1, FactsSplit DEF SiteInv, SitePast
  <2>3. PICK s \in cluster.services : s.name = b.name
    BY <2>2, ServiceFactRead DEF IG!ServicesNamed
  <2>4. s.name # ""
    BY IngressWellFormed, Zenon DEF SiteInv, SiteTypes
  <2>5. b.name = ""
    BY <1>1, <2>1, IngressWellFormed, Zenon
  <2>6. QED
    BY <2>3, <2>4, <2>5, Zenon
<1>10. QED
  BY <1>2, <1>3, <1>4, <1>5, <1>6, <1>7, <1>8, <1>9

LEMMA OKShown == SiteInv => IG!OKTrue
<1> SUFFICES ASSUME SiteInv, IG!Printed, NEW x \in IG!Rows, x.verdict = "OK"
             PROVE  LET secret == IG!TlsSecretFor(x.ing, x.rule.host).secret IN
                      /\ IG!PortFact(x.ing.ns, x.rule.backend) \in past.ever
                      /\ IG!Secured(x.ing, x.rule.host)
                      /\ secret = "" \/ lists.secrets = Forbidden
                         \/ IG!SecretFact(x.ing.ns, secret) \in past.ever
  BY Zenon DEF IG!OKTrue
<1> DEFINE ns == x.ing.ns
           b == x.rule.backend
           t == IG!TlsSecretFor(x.ing, x.rule.host)
           found == IG!ServicesNamed(lists.services, ns, b)
<1>1. /\ Known(lists.services) /\ Known(lists.secrets)
      /\ x.ing \in Ingress.ingresses /\ x.rule \in IG!IngressRules(x.ing)
      /\ x.verdict = IG!Verdict(x.ing, x.rule)
  BY RowsTrue
<1>2. /\ \E s \in found : b.port \in s.ports
      /\ t.covered
      /\ t.secret = "" \/ IG!HaveSecret(ns, t.secret)
  BY <1>1, Zenon DEF IG!Verdict
<1>3. IG!PortFact(ns, b) \in past.ever
  BY <1>1, <1>2, ServiceFactRead, Zenon DEF SiteInv, SiteReads
<1>4. IG!HaveSecret(ns, t.secret) /\ lists.secrets # Forbidden
        => IG!SecretFact(ns, t.secret) \in past.ever
  BY <1>1, SecretFactRead DEF SiteInv, SiteReads, IG!HaveSecret, IG!SecretsKnown
<1>5. IG!Secured(x.ing, x.rule.host)
  BY <1>1, <1>2, CoveredSecured, Zenon
<1>6. QED
  BY <1>2, <1>3, <1>4, <1>5, Zenon

(* ingress never makes up a fault, for any ingresses, services and secrets, *)
(* any pattern of hosts and any edits between the three lists.              *)
THEOREM FaultsTrue == Spec => []FaultTrue
<1>1. (view = "ingress" => SiteInv) => FaultTrue
  BY FaultShown DEF FaultTrue
<1>2. QED
  BY <1>1, SiteInvariance, PTL

(* ... nor says OK of a rule that never was. *)
THEOREM OKsTrue == Spec => []OKTrue
<1>1. (view = "ingress" => SiteInv) => OKTrue
  BY OKShown DEF OKTrue
<1>2. QED
  BY <1>1, SiteInvariance, PTL

-----------------------------------------------------------------------------
(* svc-backends. *)

(* Slices that say what was so all along, and nothing that never was.       *)
Held(slices) ==
  /\ \A e \in past.ready, i \in BE!Owned : slices[i][e] \in {"true", "nil"}
  /\ \A e \in past.unready, i \in BE!Owned : slices[i][e] = "false"
  /\ \A e \in past.absent, i \in BE!Owned : slices[i][e] = "absent"
  /\ (\E e \in SvcBackends.endpoints, i \in BE!Owned : slices[i][e] # "absent") => past.wired
  /\ (\A e \in SvcBackends.endpoints, i \in BE!Owned : slices[i][e] = "absent") => past.unwired

(* What the service, its pods and its slices may be. *)
PodsOf == [SvcBackends.endpoints -> BE!PodStates]
SlicesOf == [BE!Slices -> [SvcBackends.endpoints -> BE!Conditions]]

BackendInv ==
  /\ cluster.kind \in SvcBackends.kinds /\ cluster.pods \in PodsOf /\ cluster.slices \in SlicesOf
  /\ cluster = [kind |-> cluster.kind, pods |-> cluster.pods, slices |-> cluster.slices,
                changes |-> cluster.changes]
  /\ lists = [services |-> lists.services, slices |-> lists.slices]
  /\ past.ready \subseteq SvcBackends.endpoints /\ past.unready \subseteq SvcBackends.endpoints
  /\ Held(cluster.slices)
  /\ Known(lists.slices) => Held(lists.slices)

LEMMA BackendBegins == BE!Init => BackendInv
<1> SUFFICES ASSUME BE!Init PROVE BackendInv
  OBVIOUS
<1>1. PICK k \in SvcBackends.kinds, p \in PodsOf, s \in SlicesOf :
        cluster = [kind |-> k, pods |-> p, changes |-> 0, slices |-> s]
  <2>1. PICK k \in SvcBackends.kinds, p \in PodsOf :
          cluster = [kind |-> k, pods |-> p, changes |-> 0,
                     slices |-> [i \in BE!Slices |-> IF i \in BE!Owned THEN p
                                                    ELSE [e \in SvcBackends.endpoints |-> "nil"]]]
    BY Zenon DEF BE!Init, PodsOf
  <2>2. [i \in BE!Slices |-> IF i \in BE!Owned THEN p
                            ELSE [e \in SvcBackends.endpoints |-> "nil"]] \in SlicesOf
    BY DEF PodsOf, SlicesOf, BE!Conditions
  <2>3. QED
    BY <2>1, <2>2, Zenon
<1>2. lists = [services |-> Unread, slices |-> Unread] /\ past = BE!Observe(cluster)
  BY DEF BE!Init
<1>3. Held(cluster.slices)
  BY <1>2 DEF Held, BE!Observe
<1>4. QED
  BY <1>1, <1>2, <1>3 DEF BackendInv, BE!Observe, Known

LEMMA BackendMoves ==
  ASSUME BackendInv, NEW p \in PodsOf, NEW s \in SlicesOf,
         NEW c, c = [kind |-> cluster.kind, pods |-> p, slices |-> s, changes |-> cluster.changes],
         BE!Change(c)
  PROVE  BackendInv'
<1> DEFINE now == BE!Observe(c)
<1>1. /\ cluster' = [kind |-> cluster.kind, pods |-> p, slices |-> s,
                     changes |-> cluster.changes + 1]
      /\ UNCHANGED lists
  BY DEF BE!Change
<1>2. past' = [ready |-> past.ready \cap now.ready, unready |-> past.unready \cap now.unready,
               absent |-> past.absent \cap now.absent,
               wired |-> past.wired \/ now.wired, unwired |-> past.unwired \/ now.unwired]
  BY DEF BE!Change, BE!Moment
<1>3. /\ now.wired = \E e \in SvcBackends.endpoints, i \in BE!Owned : s[i][e] # "absent"
      /\ now.unwired = \A e \in SvcBackends.endpoints, i \in BE!Owned : s[i][e] = "absent"
  BY Zenon DEF BE!Observe
<1>4. /\ \A e \in now.ready, i \in BE!Owned : s[i][e] \in {"true", "nil"}
      /\ \A e \in now.unready, i \in BE!Owned : s[i][e] = "false"
      /\ \A e \in now.absent, i \in BE!Owned : s[i][e] = "absent"
  BY DEF BE!Observe
<1> HIDE DEF now
<1>5. /\ past'.ready \subseteq past.ready \cap now.ready
      /\ past'.unready \subseteq past.unready \cap now.unready
      /\ past'.absent \subseteq past.absent \cap now.absent
  BY <1>2
<1>6. /\ past.wired \/ now.wired => past'.wired
      /\ past.unwired \/ now.unwired => past'.unwired
  BY <1>2, Zenon
<1>7. Held(s)' /\ (Held(lists.slices) => Held(lists.slices)')
  BY <1>1, <1>3, <1>4, <1>5, <1>6 DEF Held
<1>8. QED
  BY <1>1, <1>5, <1>7 DEF BackendInv, Known

LEMMA BackendSteps ==
  ASSUME BackendInv, BE!Next \/ UNCHANGED viewVars
  PROVE  BackendInv'
<1>1. /\ cluster = [kind |-> cluster.kind, pods |-> cluster.pods, slices |-> cluster.slices,
                    changes |-> cluster.changes]
      /\ lists = [services |-> lists.services, slices |-> lists.slices]
      /\ cluster.pods \in PodsOf /\ cluster.slices \in SlicesOf
  BY DEF BackendInv
<1>2. ASSUME NEW p \in PodsOf, BE!Pods(p) PROVE BackendInv'
  <2> DEFINE c == [cluster EXCEPT !.pods = p]
  <2>1. c = [kind |-> cluster.kind, pods |-> p, slices |-> cluster.slices,
             changes |-> cluster.changes]
    BY <1>1
  <2>2. QED
    BY <1>1, <1>2, <2>1, BackendMoves DEF BE!Pods
<1>3. ASSUME NEW s \in SlicesOf, BE!Written(s) PROVE BackendInv'
  <2> DEFINE c == [cluster EXCEPT !.slices = s]
  <2>1. c = [kind |-> cluster.kind, pods |-> cluster.pods, slices |-> s,
             changes |-> cluster.changes]
    BY <1>1
  <2>2. QED
    BY <1>1, <1>3, <2>1, BackendMoves DEF BE!Written
<1>4. CASE BE!PodStep \/ BE!Sync \/ BE!Write
  <2>1. \A e \in SvcBackends.endpoints, s \in BE!PodStates : [cluster.pods EXCEPT ![e] = s] \in PodsOf
    BY <1>1 DEF PodsOf
  <2>2. \A i \in BE!Owned, s \in [SvcBackends.endpoints -> BE!Conditions] :
          [cluster.slices EXCEPT ![i] = s] \in SlicesOf
    BY <1>1 DEF SlicesOf
  <2>3. cluster.pods \in [SvcBackends.endpoints -> BE!Conditions]
    BY <1>1 DEF PodsOf, BE!Conditions
  <2>4. QED
    BY <1>2, <1>3, <1>4, <2>1, <2>2, <2>3, Zenon DEF BE!PodStep, BE!Sync, BE!Write
<1>5. CASE BE!ReadServices
  BY <1>1, <1>5 DEF BE!ReadServices, BackendInv, Held, Known
<1>6. CASE BE!ReadSlices
  BY <1>1, <1>6 DEF BE!ReadSlices, BackendInv, Held, Known
<1>7. CASE BE!Over \/ UNCHANGED viewVars
  <2>1. UNCHANGED <<cluster, lists, past>>
    BY <1>7 DEF BE!Over, BE!vars, viewVars
  <2>2. QED
    BY <2>1 DEF BackendInv, Held, Known
<1>8. QED
  BY <1>4, <1>5, <1>6, <1>7 DEF BE!Next

(* A set of naturals that is not empty has a smallest element. *)
LEMMA Smallest ==
  ASSUME NEW T \in SUBSET Nat, T # {}
  PROVE  BE!Min(T) \in T /\ \A k \in T : BE!Min(T) <= k
<1>1. PICK m \in T : \A k \in T : ~(<<k, m>> \in OpToRel(<, Nat))
  BY NatLessThanWellFounded, WFMin, Zenon
<1>2. \A k \in T : m <= k
  <2>1. TAKE k \in T
  <2>2. <<k, m>> \in OpToRel(<, Nat) <=> k < m
    BY DEF OpToRel
  <2>3. ~(k < m)
    BY <1>1, <2>2, Zenon
  <2>4. k \in Nat /\ m \in Nat
    OBVIOUS
  <2>5. QED
    BY <2>3, <2>4
<1>3. QED
  BY <1>2, Zenon DEF BE!Min

(* A set of pairs, one for each element, is as large as the set. *)
LEMMA PairsCounted ==
  ASSUME NEW S, IsFiniteSet(S), NEW f, NEW P, P = {<<x, f[x]>> : x \in S}
  PROVE  IsFiniteSet(P) /\ BE!Cardinality(P) = Cardinality(S) /\ Cardinality(S) \in Nat
<1> DEFINE g == [x \in S |-> <<x, f[x]>>]
<1>1. /\ g \in [S -> P] /\ \A p \in P : \E x \in S : g[x] = p
      /\ \A x, y \in S : g[x] = g[y] => x = y
  OBVIOUS
<1>2. g \in Surjection(S, P)
  BY <1>1, Fun_IsSurj
<1>3. g \in Injection(S, P)
  BY <1>1, Fun_IsInj
<1>4. IsFiniteSet(P) /\ Cardinality(P) = Cardinality(S)
  BY <1>2, <1>3, FS_Surjection
<1>5. BE!Cardinality(P) = Cardinality(P)
  BY DEF BE!Cardinality, Cardinality
<1>6. QED
  BY <1>4, <1>5, FS_CardinalityType

(* What was there all along is counted once, as what it was. *)
LEMMA CountsTrue ==
  ASSUME BackendInv, Known(lists.slices)
  PROVE  /\ BE!Eps.ready \in Nat /\ BE!Eps.notReady \in Nat
         /\ BE!Eps.ready >= BE!Cardinality(past.ready)
         /\ BE!Eps.notReady >= BE!Cardinality(past.unready)
         /\ BE!Eps.ready + BE!Eps.notReady
              <= BE!Cardinality(SvcBackends.endpoints \ past.absent)
         /\ BE!Eps.ready = 0 => past.ready = {}
         /\ BE!Eps.ready + BE!Eps.notReady = 0 => past.unwired
         /\ BE!Eps.ready + BE!Eps.notReady # 0 => past.wired
<1> DEFINE S == lists.slices
           E == SvcBackends.endpoints
           in(e) == {i \in BE!Owned : S[i][e] # "absent"}
           X == {e \in E : in(e) # {}}
           v == [e \in X |-> S[BE!Min(in(e))][e]]
           Up == {e \in X : BE!EndpointReady(v[e])}
           Down == {e \in X : ~BE!EndpointReady(v[e])}
           one == {c \in BE!Counted(S) : BE!EndpointReady(c[2])}
           two == {c \in BE!Counted(S) : ~BE!EndpointReady(c[2])}
<1>1. Held(S) /\ past.ready \subseteq E /\ past.unready \subseteq E
  BY DEF BackendInv
<1>2. IsFiniteSet(E) /\ BE!Owned \subseteq Nat /\ BE!Owned # {}
  BY SvcBackendsWellFormed DEF BE!Owned, BE!Slices
<1>3. \A e \in X : v[e] = S[BE!Min(in(e))][e] /\ BE!Min(in(e)) \in BE!Owned /\ v[e] # "absent"
  <2>1. TAKE e \in X
  <2>2. in(e) \in SUBSET Nat /\ in(e) # {}
    BY <1>2, Zenon
  <2>3. BE!Min(in(e)) \in in(e)
    BY <2>2, Smallest
  <2>4. QED
    BY <2>3
<1>4. BE!Counted(S) = {<<e, v[e]>> : e \in X}
  BY Zenon DEF BE!Counted
<1>5. past.ready \subseteq Up /\ past.unready \subseteq Down
  <2>1. ASSUME NEW e \in past.ready PROVE e \in Up
    <3>1. e \in X
      BY <1>1, <1>2, Zenon DEF Held
    <3>2. v[e] \in {"true", "nil"}
      BY <1>1, <1>3, <3>1, Zenon DEF Held
    <3>3. QED
      BY <3>1, <3>2 DEF BE!EndpointReady
  <2>2. ASSUME NEW e \in past.unready PROVE e \in Down
    <3>1. e \in X
      BY <1>1, <1>2, Zenon DEF Held
    <3>2. v[e] = "false"
      BY <1>1, <1>3, <3>1, Zenon DEF Held
    <3>3. QED
      BY <3>1, <3>2 DEF BE!EndpointReady
  <2>3. QED
    BY <2>1, <2>2, Zenon
<1>6. X \subseteq E \ past.absent
  BY <1>1 DEF Held
<1>7. (X = {} => past.unwired) /\ (X # {} => past.wired)
  BY <1>1 DEF Held
<1>8. one = {<<e, v[e]>> : e \in Up} /\ two = {<<e, v[e]>> : e \in Down}
  <2> HIDE DEF X, v
  <2>1. \A e \in X : <<e, v[e]>>[2] = v[e]
    OBVIOUS
  <2>2. /\ \A c \in one : \E e \in Up : c = <<e, v[e]>>
        /\ \A c \in two : \E e \in Down : c = <<e, v[e]>>
    BY <1>4, <2>1, Zenon
  <2>3. /\ \A e \in Up : <<e, v[e]>> \in one
        /\ \A e \in Down : <<e, v[e]>> \in two
    BY <1>4, <2>1, ZenonT(60)
  <2> HIDE DEF one, two, Up, Down
  <2>4. QED
    BY <2>2, <2>3
<1>9. Up \cup Down = X /\ Up \cap Down = {} /\ Up \subseteq E /\ Down \subseteq E
  OBVIOUS
<1> HIDE DEF X, v, Up, Down, one, two, E, S
<1>10. /\ IsFiniteSet(Up) /\ IsFiniteSet(Down) /\ IsFiniteSet(past.ready)
       /\ IsFiniteSet(past.unready) /\ IsFiniteSet(E \ past.absent) /\ IsFiniteSet(X)
  BY <1>1, <1>2, <1>6, <1>9, FS_Subset
<1>11. /\ BE!Cardinality(one) = Cardinality(Up) /\ Cardinality(Up) \in Nat
       /\ BE!Cardinality(two) = Cardinality(Down) /\ Cardinality(Down) \in Nat
  BY <1>8, <1>10, PairsCounted, Zenon
<1>12. BE!Eps = [ready |-> Cardinality(Up), notReady |-> Cardinality(Down)]
  BY <1>11 DEF BE!Eps, BE!CountEndpoints, one, two, S
<1>13. \A T : BE!Cardinality(T) = Cardinality(T)
  BY DEF BE!Cardinality, Cardinality
<1>14. Cardinality(past.ready) <= Cardinality(Up) /\ Cardinality(past.unready) <= Cardinality(Down)
  BY <1>5, <1>10, FS_Subset
<1>15. Cardinality(Up) + Cardinality(Down) = Cardinality(X)
  <2>1. Cardinality(X) = Cardinality(Up) + Cardinality(Down) - Cardinality({})
    BY <1>9, <1>10, FS_Union
  <2>2. Cardinality({}) = 0
    BY FS_EmptySet
  <2>3. QED
    BY <1>11, <2>1, <2>2
<1>16. Cardinality(X) <= Cardinality(E \ past.absent)
  BY <1>6, <1>10, FS_Subset
<1>17. (Cardinality(Up) = 0 <=> Up = {}) /\ (Cardinality(X) = 0 <=> X = {})
  BY <1>10, FS_EmptySet
<1>18. Cardinality(Up) = 0 => past.ready = {}
  BY <1>5, <1>17
<1>19. QED
  BY <1>7, <1>11, <1>12, <1>13, <1>14, <1>15, <1>16, <1>17, <1>18 DEF E

LEMMA RowTrue == BackendInv => BE!BackendsCounted
<1> SUFFICES ASSUME BackendInv, BE!Printed PROVE BE!BackendsCounted
  BY DEF BE!BackendsCounted
<1>1. Known(lists.slices)
  BY DEF BE!Printed, BE!AllRead, Known
<1> DEFINE up == BE!Eps.ready
           down == BE!Eps.notReady
           word == BE!SvcVerdict(lists.services, BE!Eps)
<1>2. BE!Row.ready = up /\ BE!Row.notReady = down /\ BE!Row.verdict = word
  BY DEF BE!Row
<1>3. /\ up \in Nat /\ down \in Nat
      /\ up >= BE!Cardinality(past.ready) /\ down >= BE!Cardinality(past.unready)
      /\ up + down <= BE!Cardinality(SvcBackends.endpoints \ past.absent)
      /\ up = 0 => past.ready = {}
      /\ up + down = 0 => past.unwired
      /\ up + down # 0 => past.wired
  BY <1>1, CountsTrue
<1>4. /\ word = "UNWIRED" => ~(up + down > 0)
      /\ word = "MANUAL" => up + down > 0
      /\ word \in {"NO-PODS", "NO-READY"} => up + down = 0 \/ up = 0
  BY Zenon DEF BE!SvcVerdict
<1> HIDE DEF up, down, word
<1>5. /\ word = "UNWIRED" => past.unwired
      /\ word = "MANUAL" => past.wired
      /\ word \in {"NO-PODS", "NO-READY"} => past.ready = {}
  BY <1>3, <1>4
<1>6. QED
  BY <1>2, <1>3, <1>5 DEF BE!BackendsCounted

LEMMA BackendTyped == BackendInv => BE!TypeOK
<1> SUFFICES ASSUME BackendInv PROVE BE!TypeOK
  OBVIOUS
<1>1. PICK i \in BE!Slices : i \in BE!Owned
  BY SvcBackendsWellFormed DEF BE!Slices, BE!Owned
<1>2. past.ready \cap past.unready = {}
  BY <1>1 DEF BackendInv, Held
<1>3. QED
  BY <1>2, SvcBackendsWellFormed DEF BackendInv, PodsOf, SlicesOf, BE!TypeOK

LEMMA BackendInvariance == Spec => [](view = "svc-backends" => BackendInv)
<1>1. Init => (view = "svc-backends" => BackendInv)
  BY BackendBegins DEF Init
<1>2. (view = "svc-backends" => BackendInv) /\ [Next]_vars
        => (view = "svc-backends" => BackendInv)'
  BY OneView, BackendSteps
<1>3. QED
  BY <1>1, <1>2, PTL DEF Spec

(* svc-backends counts pods and not entries, for any number of slices and   *)
(* endpoints and whatever the controller does between the lists.            *)
THEOREM AllBackendsCounted == Spec => []BackendsCounted
<1>1. (view = "svc-backends" => BackendInv) => BackendsCounted
  BY RowTrue DEF BackendsCounted
<1>2. QED
  BY <1>1, BackendInvariance, PTL

-----------------------------------------------------------------------------
(* certs. *)

(* A bundle that does not work any more, and one with time enough. *)
Expired(days, now) == days # <<>> /\ \E i \in DOMAIN days : days[i] - now <= 0
Sound(days, now) == days # <<>> /\ \A i \in DOMAIN days : days[i] - now >= Certificate.renewDue

CertTypes ==
  /\ cluster = [now |-> cluster.now, secrets |-> cluster.secrets, certs |-> cluster.certs,
                changes |-> cluster.changes]
  /\ cluster.now \in Nat /\ cluster.now <= Certificate.time
  /\ lists.arg \in Certificate.args
  /\ cluster.secrets = [s \in Certificate.secrets |-> cluster.secrets[s]]
  /\ \A s \in Certificate.secrets :
       cluster.secrets[s] # None => cluster.secrets[s].days \in Seq(Int)
  /\ DOMAIN cluster.certs \subseteq Certificate.certs
  /\ lists = [arg |-> lists.arg, secrets |-> lists.secrets, certs |-> lists.certs,
              rows |-> lists.rows]

CertFacts == {"absent", "expired", "sound", "certs", "failing"}

(* What was so all along is so now, and what is so now was so at some time. *)
CertPast ==
  /\ past = [always |-> past.always, ever |-> past.ever]
  /\ DOMAIN past.always = CertFacts /\ DOMAIN past.ever = CertFacts
  /\ \A f \in CertFacts :
       past.always[f] \subseteq CE!Moment(cluster)[f] /\ CE!Moment(cluster)[f] \subseteq past.ever[f]

CertSecretsRead ==
  Known(lists.secrets) =>
    /\ DOMAIN lists.secrets \subseteq Certificate.secrets
    /\ \A s \in DOMAIN lists.secrets :
         LET days == lists.secrets[s].days IN
           /\ days \in Seq(Int)
           /\ s \notin past.always.absent
           /\ s \in past.always.expired => Expired(days, cluster.now)
           /\ Sound(days, cluster.now) => s \in past.ever.sound
    /\ \A s \in Certificate.secrets \ DOMAIN lists.secrets :
         s \in past.ever.absent /\ s \notin past.always.expired

CertOwnersRead ==
  Known(lists.certs) /\ lists.certs # Forbidden =>
    /\ DOMAIN lists.certs \subseteq Certificate.certs /\ DOMAIN lists.certs \subseteq past.ever.certs
    /\ past.always.certs \subseteq DOMAIN lists.certs
    /\ \A c \in past.always.failing : c \in DOMAIN lists.certs /\ lists.certs[c] # "True"

CertInv ==
  /\ CertTypes /\ CertPast /\ CertSecretsRead /\ CertOwnersRead
  /\ Known(lists.rows) => Unread \notin {lists.secrets, lists.certs}
  /\ CE!RenewalTold

(* A moment, in terms of its bundles. *)
LEMMA CertMoment ==
  ASSUME NEW c
  PROVE  LET M == CE!Moment(c)
             x(s) == c.secrets[s]
         IN  /\ M = [absent |-> M.absent, expired |-> M.expired, sound |-> M.sound,
                     certs |-> M.certs, failing |-> M.failing]
             /\ M.absent = {s \in Certificate.secrets : ~CE!Tls(x(s))}
             /\ M.expired = {s \in Certificate.secrets :
                               CE!Tls(x(s)) /\ Expired(x(s).days, c.now)}
             /\ M.sound = {s \in Certificate.secrets : CE!Tls(x(s)) /\ Sound(x(s).days, c.now)}
             /\ M.certs = DOMAIN c.certs
             /\ M.failing = {y \in DOMAIN c.certs : c.certs[y] # "True"}
BY DEF CE!Moment, Expired, Sound

(* Time wears a bundle out. *)
LEMMA CertWear ==
  ASSUME NEW days \in Seq(Int), NEW t \in Nat, NEW u \in Nat, t <= u
  PROVE  /\ Expired(days, t) => Expired(days, u)
         /\ Sound(days, u) => Sound(days, t)
<1>1. DOMAIN days = 1..Len(days) /\ \A i \in DOMAIN days : days[i] \in Int
  OBVIOUS
<1>2. Certificate.renewDue \in Int
  BY CertificateWellFormed, Zenon
<1> DEFINE due == Certificate.renewDue
<1> HIDE DEF due
<1>3. ASSUME NEW i \in DOMAIN days, due \in Int
      PROVE  /\ days[i] - t <= 0 => days[i] - u <= 0
             /\ days[i] - u >= due => days[i] - t >= due
  <2>1. days[i] \in Int
    BY <1>1
  <2> DEFINE d == days[i]
  <2> HIDE DEF d
  <2>2. QED
    BY <1>3, <2>1 DEF d
<1>4. QED
  BY <1>2, <1>3, Zenon DEF Expired, Sound, due

LEMMA CertClock == Certificate.time \in Nat
BY CertificateWellFormed, Zenon

LEMMA CertBegins == CE!Init => CertInv
<1> SUFFICES ASSUME CE!Init PROVE CertInv
  OBVIOUS
<1>1. PICK s \in Certificate.starts :
        cluster = [now |-> 0, secrets |-> s.secrets, certs |-> s.certs, changes |-> 0]
  BY DEF CE!Init
<1>2. PICK a \in Certificate.args :
        lists = [arg |-> a, secrets |-> Unread, certs |-> Unread, rows |-> Unread]
  BY DEF CE!Init
<1> DEFINE M == CE!Moment(cluster)
<1>3. past = [always |-> M, ever |-> M]
  BY DEF CE!Init
<1>4. CertTypes
  <2>1. 0 \in Nat /\ 0 <= Certificate.time
    BY CertClock
  <2>2. QED
    BY <1>1, <1>2, <2>1, CertificateWellFormed, Zenon DEF CertTypes
<1>5. DOMAIN M = CertFacts
  BY CertMoment DEF CertFacts
<1> HIDE DEF M
<1>6. CertPast
  BY <1>3, <1>5 DEF CertPast, M
<1>7. QED
  BY <1>2, <1>4, <1>6
  DEF CertInv, CertSecretsRead, CertOwnersRead, CE!RenewalTold, Known

(* The clock or the cluster moves on while there is no output yet. *)
LEMMA CertMoves ==
  ASSUME CertInv, NEW now \in Nat, cluster.now <= now,
         now <= Certificate.time, NEW secrets, NEW certs, NEW n,
         secrets = [s \in Certificate.secrets |-> secrets[s]],
         \A s \in Certificate.secrets : secrets[s] # None => secrets[s].days \in Seq(Int),
         DOMAIN certs \subseteq Certificate.certs,
         cluster' = [now |-> now, secrets |-> secrets, certs |-> certs, changes |-> n],
         CE!Observe(cluster'), UNCHANGED lists, ~Known(lists.rows)
  PROVE  CertInv'
<1> DEFINE M == CE!Moment(cluster')
<1>1. CertTypes'
  BY Zenon DEF CertInv, CertTypes
<1>2. /\ past' = [always |-> [f \in CertFacts |-> past.always[f] \cap M[f]],
                  ever |-> [f \in CertFacts |-> past.ever[f] \cup M[f]]]
  BY DEF CertInv, CertPast, CE!Observe
<1>3. CE!Moment(cluster)' = M
  BY DEF CE!Moment
<1> HIDE DEF M
<1>4. /\ past'.always = [f \in CertFacts |-> past.always[f] \cap M[f]]
      /\ past'.ever = [f \in CertFacts |-> past.ever[f] \cup M[f]]
  BY <1>2
<1>5. CertPast'
  BY <1>2, <1>3 DEF CertPast
<1>6. {"absent", "expired", "sound", "certs", "failing"} \subseteq CertFacts
  BY DEF CertFacts
<1>7. /\ past'.always.absent \subseteq past.always.absent
      /\ past'.always.expired \subseteq past.always.expired
      /\ past'.always.certs \subseteq past.always.certs
      /\ past'.always.failing \subseteq past.always.failing
      /\ past.ever.absent \subseteq past'.ever.absent
      /\ past.ever.sound \subseteq past'.ever.sound
      /\ past.ever.certs \subseteq past'.ever.certs
  BY <1>4, <1>6
<1>8. CertSecretsRead'
  <2>1. SUFFICES ASSUME Known(lists.secrets) PROVE CertSecretsRead'
    BY DEF CertSecretsRead, Known
  <2>2. ASSUME NEW s \in DOMAIN lists.secrets
        PROVE  LET days == lists.secrets[s].days IN
                 /\ days \in Seq(Int)
                 /\ s \notin past'.always.absent
                 /\ s \in past'.always.expired => Expired(days, now)
                 /\ Sound(days, now) => s \in past'.ever.sound
    <3> DEFINE days == lists.secrets[s].days
    <3>1. /\ days \in Seq(Int)
          /\ s \notin past.always.absent
          /\ s \in past.always.expired => Expired(days, cluster.now)
          /\ Sound(days, cluster.now) => s \in past.ever.sound
      BY <2>1 DEF CertInv, CertSecretsRead
    <3>2. cluster.now \in Nat
      BY DEF CertInv, CertTypes
    <3> HIDE DEF days
    <3>3. (Expired(days, cluster.now) => Expired(days, now))
          /\ (Sound(days, now) => Sound(days, cluster.now))
      BY <3>1, <3>2, CertWear
    <3>4. QED
      BY <1>7, <3>1, <3>3 DEF days
  <2>3. cluster'.now = now
    OBVIOUS
  <2>4. QED
    BY <1>7, <2>1, <2>2, <2>3 DEF CertInv, CertSecretsRead, Known
<1>9. CertOwnersRead'
  BY <1>7 DEF CertInv, CertOwnersRead, Known
<1>10. QED
  BY <1>1, <1>5, <1>8, <1>9, Zenon DEF CertInv, CE!RenewalTold, Known

(* A finite set of numbers that is not empty has a smallest element: the    *)
(* one with the fewest below it.                                            *)
LEMMA SmallestNumber ==
  ASSUME NEW T \in SUBSET Int, IsFiniteSet(T), T # {}
  PROVE  \E m \in T : \A k \in T : m <= k
<1> DEFINE below == [x \in T |-> {y \in T : y < x}]
           rank == [x \in T |-> Cardinality(below[x])]
           N == {rank[x] : x \in T}
<1>1. \A x \in T : below[x] = {y \in T : y < x} /\ below[x] \in SUBSET T
  OBVIOUS
<1> HIDE DEF below
<1>2. \A x \in T : IsFiniteSet(below[x]) /\ rank[x] = Cardinality(below[x]) /\ rank[x] \in Nat
  BY <1>1, FS_Subset, FS_CardinalityType, Zenon
<1> HIDE DEF rank
<1>3. N \in SUBSET Nat /\ N # {}
  BY <1>2, Zenon
<1>4. BE!Min(N) \in N /\ \A k \in N : BE!Min(N) <= k
  BY <1>3, Smallest, Zenon
<1>5. PICK m \in T : \A x \in T : rank[m] <= rank[x]
  BY <1>4, Zenon
<1> HIDE DEF N
<1>6. ASSUME NEW k \in T, k < m PROVE FALSE
  <2>1. k \in Int /\ m \in Int /\ \A y \in T : y \in Int
    OBVIOUS
  <2>2. ~(k < k) /\ \A y \in T : y < k => y < m
    BY <1>6, <2>1
  <2>3. \A y : (y \in below[k] <=> y \in T /\ y < k) /\ (y \in below[m] <=> y \in T /\ y < m)
    BY <1>1, Zenon
  <2>4. below[k] \in SUBSET below[m] /\ k \in below[m] /\ k \notin below[k]
    BY <1>6, <2>2, <2>3, Zenon
  <2>5. IsFiniteSet(below[m])
    BY <1>2
  <2>6. /\ Cardinality(below[k]) <= Cardinality(below[m])
        /\ Cardinality(below[m]) = Cardinality(below[k]) => below[m] = below[k]
    BY <2>4, <2>5, FS_Subset
  <2>7. Cardinality(below[m]) # Cardinality(below[k])
    BY <2>4, <2>6, Zenon
  <2>8. rank[m] = Cardinality(below[m]) /\ rank[k] = Cardinality(below[k])
    BY <1>2, Zenon
  <2>9. rank[m] \in Nat /\ rank[k] \in Nat /\ rank[m] <= rank[k]
    BY <1>2, <1>5, Zenon
  <2>10. rank[k] <= rank[m] /\ rank[m] # rank[k]
    BY <2>6, <2>7, <2>8
  <2>11. QED
    BY <2>9, <2>10
<1>7. QED
  BY <1>6

(* earliestExpiry, of a bundle with a certificate in it. *)
LEMMA EarliestLeast ==
  ASSUME NEW days \in Seq(Int), days # <<>>
  PROVE  /\ \E i \in DOMAIN days : CE!EarliestExpiry(days) = days[i]
         /\ \A i \in DOMAIN days : CE!EarliestExpiry(days) <= days[i]
         /\ CE!EarliestExpiry(days) \in Int
<1> DEFINE T == {days[i] : i \in DOMAIN days}
<1>1. /\ Len(days) \in Nat /\ Len(days) # 0 /\ DOMAIN days = 1..Len(days)
      /\ \A i \in DOMAIN days : days[i] \in Int
  BY EmptySeq
<1>2. IsFiniteSet(DOMAIN days)
  BY <1>1, FS_Interval
<1>3. IsFiniteSet(T)
  BY <1>1, <1>2, ImageFinite
<1>4. T \in SUBSET Int /\ T # {}
  BY <1>1
<1>5. \E m \in T : \A k \in T : m <= k
  BY <1>3, <1>4, SmallestNumber, Zenon
<1>6. \E m \in T : \A i \in DOMAIN days : m <= days[i]
  BY <1>5
<1>7. CE!EarliestExpiry(days) \in T /\ \A i \in DOMAIN days : CE!EarliestExpiry(days) <= days[i]
  BY <1>6, Zenon DEF CE!EarliestExpiry
<1>8. QED
  BY <1>4, <1>7

(* certVerdictsWorstFirst, by rank. *)
LEMMA CertRanks ==
  /\ CE!Rank("EXPIRED") = 1 /\ CE!Rank("EXPIRING") = 4 /\ CE!Rank("NOT-READY") = 5
  /\ CE!Rank("RENEW-DUE") = 6 /\ CE!Rank("OK") = 7
<1>1. /\ DOMAIN CE!WorstFirst = 1..7
      /\ CE!WorstFirst[1] = "EXPIRED" /\ CE!WorstFirst[2] = "MISSING"
      /\ CE!WorstFirst[3] = "INVALID" /\ CE!WorstFirst[4] = "EXPIRING"
      /\ CE!WorstFirst[5] = "NOT-READY" /\ CE!WorstFirst[6] = "RENEW-DUE"
      /\ CE!WorstFirst[7] = "OK"
  BY DEF CE!WorstFirst
<1>2. \A i \in 1..7 : i \in {1, 2, 3, 4, 5, 6, 7}
  OBVIOUS
<1>3. QED
  BY <1>1, <1>2 DEF CE!Rank

(* The verdict of a bundle, by what it held when it was read. *)
LEMMA CertGraded ==
  ASSUME NEW s, CertInv, Known(lists.secrets), s \in DOMAIN lists.secrets
  PROVE  /\ CE!Verdict(s) = "OK" => s \in past.ever.sound
         /\ CE!Verdict(s) # "MISSING"
         /\ s \in past.always.expired => CE!Verdict(s) = "EXPIRED"
         /\ CE!Stuck(s) => CE!Verdict(s) \notin {"OK", "RENEW-DUE"}
<1> DEFINE days == lists.secrets[s].days
           now == cluster.now
           first == CE!EarliestExpiry(days)
           left == first - now
           word == CE!CertVerdict(left)
           due == Certificate.renewDue
<1>1. /\ days \in Seq(Int) /\ now \in Nat /\ due \in Int
      /\ s \in past.always.expired => Expired(days, now)
      /\ Sound(days, now) => s \in past.ever.sound
  BY CertificateWellFormed, Zenon DEF CertInv, CertTypes, CertSecretsRead
<1>2. CE!Verdict(s) = IF days = <<>> THEN "INVALID"
                      ELSE IF CE!Stuck(s) THEN CE!Worst(word, "NOT-READY") ELSE word
  BY DEF CE!Verdict
<1>3. CASE days = <<>>
  BY <1>1, <1>2, <1>3 DEF Expired
<1>4. CASE days # <<>>
  <2>1. /\ \E i \in DOMAIN days : first = days[i]
        /\ \A i \in DOMAIN days : first <= days[i] /\ days[i] \in Int
        /\ first \in Int
    BY <1>1, <1>4, EarliestLeast
  <2>2. /\ word \in {"EXPIRED", "EXPIRING", "RENEW-DUE", "OK"}
        /\ word = "EXPIRED" <=> left <= 0
        /\ word = "OK" => ~(left < due)
    BY DEF CE!CertVerdict
  <2>3. /\ CE!Worst(word, "NOT-READY") \in {"EXPIRED", "EXPIRING", "NOT-READY"}
        /\ word = "EXPIRED" => CE!Worst(word, "NOT-READY") = "EXPIRED"
    BY <2>2, CertRanks DEF CE!Worst
  <2> HIDE DEF days, first, word, due, now
  <2>4. word = "OK" => Sound(days, now)
    <3>1. SUFFICES ASSUME word = "OK", NEW i \in DOMAIN days PROVE days[i] - now >= due
      BY <1>4 DEF Sound, due
    <3>2. days[i] \in Int /\ first <= days[i] /\ ~(first - now < due)
      BY <2>1, <2>2, <3>1
    <3>3. QED
      BY <1>1, <2>1, <3>2
  <2>5. Expired(days, now) => left <= 0
    <3>1. SUFFICES ASSUME NEW i \in DOMAIN days, days[i] - now <= 0 PROVE first - now <= 0
      BY DEF Expired
    <3>2. days[i] \in Int /\ first <= days[i]
      BY <2>1
    <3>3. QED
      BY <1>1, <2>1, <3>1, <3>2
  <2>6. QED
    BY <1>1, <1>2, <1>4, <2>2, <2>3, <2>4, <2>5
<1>5. QED
  BY <1>3, <1>4

(* The rows, told from lists that were read. *)
LEMMA CertRendered ==
  ASSUME CertInv, CE!Render
  PROVE  CE!RenewalTold'
<1>1. /\ lists' = [arg |-> lists.arg, secrets |-> lists.secrets, certs |-> lists.certs,
                   rows |-> IF Failed \in {lists.secrets, lists.certs} THEN Failed ELSE CE!Rows]
      /\ UNCHANGED <<cluster, past>>
      /\ Unread \notin {lists.secrets, lists.certs}
  BY DEF CertInv, CertTypes, CE!Render
<1>2. CASE Failed \in {lists.secrets, lists.certs}
  BY <1>1, <1>2, Zenon DEF CE!RenewalTold
<1>3. CASE Failed \notin {lists.secrets, lists.certs}
  <2>1. Known(lists.secrets) /\ Known(lists.certs)
    BY <1>1, <1>3 DEF Known
  <2>2. lists'.rows = CE!Rows /\ lists'.certs = lists.certs
    BY <1>1, <1>3
  <2>3. /\ DOMAIN lists.secrets \subseteq Certificate.secrets
        /\ \A s \in DOMAIN lists.secrets : s \notin past.always.absent
        /\ \A s \in Certificate.secrets \ DOMAIN lists.secrets :
             s \in past.ever.absent /\ s \notin past.always.expired
    BY <2>1 DEF CertInv, CertSecretsRead
  <2>4. /\ DOMAIN CE!CertsKnown \subseteq Certificate.certs
        /\ DOMAIN CE!CertsKnown \subseteq past.ever.certs
        /\ lists.certs # Forbidden =>
             /\ CE!CertsKnown = lists.certs /\ past.always.certs \subseteq DOMAIN lists.certs
             /\ \A c \in past.always.failing : c \in DOMAIN lists.certs /\ lists.certs[c] # "True"
    BY <2>1 DEF CertInv, CertOwnersRead, CE!CertsKnown
  <2>5. \A c \in CE!Missing :
          /\ c \in past.ever.certs /\ CE!Asked(CE!Owned(c)) /\ CE!Owned(c) \notin CE!Shown
          /\ CE!Owned(c) \in Certificate.secrets \ DOMAIN lists.secrets
    BY <2>4, CertificateWellFormed, Zenon DEF CE!Missing, CE!Shown
  <2>6. ASSUME NEW r \in CE!Rows
        PROVE  \/ r.secret \in CE!Shown /\ r.verdict = CE!Verdict(r.secret)
               \/ \E c \in CE!Missing : r.secret = CE!Owned(c) /\ r.verdict = "MISSING"
    BY DEF CE!Rows
  <2>7. CE!Shown \subseteq DOMAIN lists.secrets
    BY DEF CE!Shown
  <2>8. ASSUME NEW r \in CE!Rows
        PROVE  /\ r.verdict = "OK" => r.secret \in past.ever.sound
               /\ r.verdict = "MISSING" =>
                    /\ r.secret \in past.ever.absent
                    /\ \E c \in past.ever.certs : CE!Owned(c) = r.secret
               /\ r.secret \in past.always.expired => r.verdict = "EXPIRED"
    <3>1. CASE r.secret \in CE!Shown /\ r.verdict = CE!Verdict(r.secret)
      BY <2>1, <2>7, <3>1, CertGraded
    <3>2. CASE \E c \in CE!Missing : r.secret = CE!Owned(c) /\ r.verdict = "MISSING"
      BY <2>3, <2>5, <3>2
    <3>3. QED
      BY <2>6, <3>1, <3>2
  <2>9. ASSUME lists.certs # Forbidden, NEW c \in past.always.certs, c.secret # "",
               CE!Asked(CE!Owned(c))
        PROVE  /\ \E r \in CE!Rows : r.secret = CE!Owned(c)
               /\ \A r \in CE!Rows : r.secret = CE!Owned(c) =>
                    /\ c \in past.always.failing => r.verdict \notin {"OK", "RENEW-DUE"}
                    /\ r.secret \in past.always.absent => r.verdict = "MISSING"
    <3> DEFINE s == CE!Owned(c)
    <3>1. c \in DOMAIN CE!CertsKnown
      BY <2>4, <2>9, Zenon
    <3>2. s \in CE!Shown \/ c \in CE!Missing
      BY <2>9, <3>1, Zenon DEF CE!Missing
    <3>3. \E r \in CE!Rows : r.secret = s
      <4>1. CASE s \in CE!Shown
        <5> DEFINE r == [secret |-> s, verdict |-> CE!Verdict(s)]
        <5>1. r \in CE!Rows /\ r.secret = s
          BY <4>1 DEF CE!Rows
        <5>2. QED
          BY <5>1
      <4>2. CASE c \in CE!Missing
        <5> DEFINE r == [secret |-> s, verdict |-> "MISSING"]
        <5>1. r \in CE!Rows /\ r.secret = s
          BY <4>2 DEF CE!Rows
        <5>2. QED
          BY <5>1
      <4>3. QED
        BY <3>2, <4>1, <4>2
    <3>4. ASSUME NEW r \in CE!Rows, r.secret = s
          PROVE  /\ c \in past.always.failing => r.verdict \notin {"OK", "RENEW-DUE"}
                 /\ s \in past.always.absent => r.verdict = "MISSING"
      <4>1. CASE s \in CE!Shown /\ r.verdict = CE!Verdict(s)
        <5>1. c \in past.always.failing => CE!Stuck(s)
          BY <2>4, <2>9, <3>1, Zenon DEF CE!Stuck
        <5>2. QED
          BY <2>1, <2>3, <2>7, <4>1, <5>1, CertGraded
      <4>2. CASE r.verdict = "MISSING"
        BY <4>2
      <4>3. QED
        BY <2>6, <3>4, <4>1, <4>2
    <3>5. QED
      BY <3>3, <3>4
  <2>10. /\ \A c : CE!Asked(CE!Owned(c))' = CE!Asked(CE!Owned(c))
         /\ UNCHANGED past
    BY <1>1 DEF CE!Asked, CE!Owned
  <2>11. QED
    BY <2>2, <2>8, <2>9, <2>10, Zenon DEF CE!RenewalTold
<1>4. QED
  BY <1>2, <1>3

LEMMA CertSteps ==
  ASSUME CertInv, CE!Next \/ UNCHANGED viewVars
  PROVE  CertInv'
<1> DEFINE now == cluster.now
           Dated(v) == v # None => v.days \in Seq(Int)
<1>1. CertTypes
  BY DEF CertInv
<1>2. CASE CE!Tick
  <2>1. cluster' = [now |-> now + 1, secrets |-> cluster.secrets, certs |-> cluster.certs,
                    changes |-> cluster.changes]
    BY <1>1, <1>2 DEF CE!Tick, CertTypes
  <2>2. CE!Observe(cluster') /\ UNCHANGED lists /\ ~Known(lists.rows)
    BY <1>2 DEF CE!Tick, CE!Going, Known
  <2>3. now + 1 \in Nat /\ now <= now + 1 /\ now + 1 <= Certificate.time
    BY <1>1, <1>2, CertClock DEF CertTypes, CE!Tick
  <2>4. QED
    BY <1>1, <2>1, <2>2, <2>3, CertMoves, Zenon DEF CertTypes
<1>3. ASSUME NEW secrets, NEW certs, NEW n,
             secrets = [s \in Certificate.secrets |-> secrets[s]],
             \A s \in Certificate.secrets : Dated(secrets[s]),
             DOMAIN certs \subseteq Certificate.certs,
             NEW c, c = [now |-> now, secrets |-> secrets, certs |-> certs, changes |-> n],
             CE!World(c)
      PROVE  CertInv'
  <2>1. cluster' = [now |-> now, secrets |-> secrets, certs |-> certs,
                    changes |-> cluster.changes + 1]
    BY <1>3 DEF CE!World
  <2>2. CE!Observe(cluster') /\ UNCHANGED lists /\ ~Known(lists.rows)
    BY <1>3 DEF CE!World, CertInv
  <2>3. now \in Nat /\ now <= now /\ now <= Certificate.time
    BY <1>1 DEF CertTypes
  <2>4. QED
    BY <1>3, <2>1, <2>2, <2>3, CertMoves, Zenon
<1>4. ASSUME NEW s \in Certificate.secrets, NEW v, Dated(v), CE!Secret(s, v)
      PROVE  CertInv'
  <2> DEFINE secrets == [cluster.secrets EXCEPT ![s] = v]
             c == [cluster EXCEPT !.secrets = secrets]
  <2>1. /\ secrets = [x \in Certificate.secrets |-> secrets[x]]
        /\ \A x \in Certificate.secrets : Dated(secrets[x])
    BY <1>1, <1>4, Zenon DEF CertTypes
  <2> HIDE DEF secrets
  <2>2. c = [now |-> now, secrets |-> secrets, certs |-> cluster.certs,
             changes |-> cluster.changes]
    BY <1>1 DEF CertTypes
  <2>3. CE!World(c)
    BY <1>4 DEF CE!Secret, secrets
  <2>4. QED
    BY <1>1, <1>3, <2>1, <2>2, <2>3, ZenonT(60) DEF CertTypes
<1>5. ASSUME NEW certs, DOMAIN certs \subseteq Certificate.certs, CE!Owners(certs)
      PROVE  CertInv'
  <2> DEFINE c == [cluster EXCEPT !.certs = certs]
  <2>1. c = [now |-> now, secrets |-> cluster.secrets, certs |-> certs,
             changes |-> cluster.changes]
    BY <1>1 DEF CertTypes
  <2>2. QED
    BY <1>1, <1>3, <1>5, <2>1, Zenon DEF CertTypes, CE!Owners
<1>6. ASSUME NEW s \in Certificate.secrets, CE!WriteSecret(s) \/ CE!DeleteSecret(s)
      PROVE  CertInv'
  <2>1. CASE CE!WriteSecret(s)
    <3>1. PICK chain \in Certificate.chains :
            CE!Secret(s, [tls |-> TRUE, days |-> [i \in DOMAIN chain |-> now + chain[i]]])
      BY <2>1, Zenon DEF CE!WriteSecret
    <3> DEFINE days == [i \in DOMAIN chain |-> now + chain[i]]
               v == [tls |-> TRUE, days |-> days]
    <3>2. chain \in Seq(Int) /\ now \in Nat
      BY <1>1, CertificateWellFormed, Zenon DEF CertTypes
    <3>3. Len(chain) \in Nat /\ DOMAIN chain = 1..Len(chain)
          /\ \A i \in DOMAIN chain : now + chain[i] \in Int
      BY <3>2
    <3>4. days \in [1..Len(chain) -> Int]
      BY <3>3
    <3>5. days \in Seq(Int)
      BY <3>3, <3>4, SeqDef
    <3> HIDE DEF days
    <3>6. Dated(v)
      BY <3>5
    <3>7. QED
      BY <1>4, <3>1, <3>6, Zenon DEF days
  <2>2. CASE CE!DeleteSecret(s)
    BY <1>4, <2>2 DEF CE!DeleteSecret
  <2>3. QED
    BY <1>6, <2>1, <2>2
<1>7. ASSUME NEW c \in Certificate.certs,
             CE!CreateCert(c) \/ CE!DeleteCert(c) \/ CE!SetReady(c)
      PROVE  CertInv'
  <2>1. DOMAIN cluster.certs \subseteq Certificate.certs
    BY <1>1 DEF CertTypes
  <2>2. CASE CE!CreateCert(c)
    <3> DEFINE certs == [x \in DOMAIN cluster.certs \cup {c} |->
                           IF x = c THEN None ELSE cluster.certs[x]]
    <3>1. DOMAIN certs \subseteq Certificate.certs
      BY <2>1
    <3>2. CE!Owners(certs)
      BY <2>2 DEF CE!CreateCert
    <3>3. QED
      BY <1>5, <3>1, <3>2
  <2>3. CASE CE!DeleteCert(c)
    <3> DEFINE certs == [x \in DOMAIN cluster.certs \ {c} |-> cluster.certs[x]]
    <3>1. DOMAIN certs \subseteq Certificate.certs
      BY <2>1
    <3>2. CE!Owners(certs)
      BY <2>3 DEF CE!DeleteCert
    <3>3. QED
      BY <1>5, <3>1, <3>2
  <2>4. CASE CE!SetReady(c)
    <3>1. PICK r : CE!Owners([cluster.certs EXCEPT ![c] = r])
      BY <2>4, Zenon DEF CE!SetReady
    <3>2. DOMAIN [cluster.certs EXCEPT ![c] = r] \subseteq Certificate.certs
      BY <2>1
    <3>3. QED
      BY <1>5, <3>1, <3>2
  <2>5. QED
    BY <1>7, <2>2, <2>3, <2>4
<1>8. CASE CE!ReadSecrets
  <2> DEFINE all == [s \in {s \in Certificate.secrets : CE!Tls(cluster.secrets[s])} |->
                       cluster.secrets[s]]
  <2>1. PICK l \in {all, Failed} :
          lists' = [arg |-> lists.arg, secrets |-> l, certs |-> lists.certs, rows |-> lists.rows]
    BY <1>1, <1>8, Zenon DEF CE!ReadSecrets, CertTypes
  <2>2. lists.secrets = Unread /\ UNCHANGED <<cluster, past>>
    BY <1>8 DEF CE!ReadSecrets
  <2>3. CE!Moment(cluster)' = CE!Moment(cluster)
    BY <2>2 DEF CE!Moment
  <2>4. CertTypes' /\ CertPast'
    BY <2>1, <2>2, <2>3, Zenon DEF CertInv, CertTypes, CertPast
  <2>5. CertSecretsRead'
    <3>1. CASE l = all
      <4>1. /\ DOMAIN all \subseteq Certificate.secrets
            /\ \A s \in DOMAIN all : all[s] = cluster.secrets[s] /\ CE!Tls(cluster.secrets[s])
            /\ \A s \in Certificate.secrets \ DOMAIN all : ~CE!Tls(cluster.secrets[s])
        OBVIOUS
      <4> HIDE DEF all
      <4>2. \A s \in DOMAIN all : cluster.secrets[s] # None
        BY <4>1 DEF CE!Tls
      <4>3. /\ past.always.absent \subseteq CE!Moment(cluster).absent
            /\ past.always.expired \subseteq CE!Moment(cluster).expired
            /\ CE!Moment(cluster).absent \subseteq past.ever.absent
            /\ CE!Moment(cluster).sound \subseteq past.ever.sound
        BY DEF CertInv, CertPast, CertFacts
      <4>4. \A s \in Certificate.secrets :
              /\ s \in past.always.absent => ~CE!Tls(cluster.secrets[s])
              /\ s \in past.always.expired =>
                   CE!Tls(cluster.secrets[s]) /\ Expired(cluster.secrets[s].days, now)
              /\ ~CE!Tls(cluster.secrets[s]) => s \in past.ever.absent
              /\ CE!Tls(cluster.secrets[s]) /\ Sound(cluster.secrets[s].days, now)
                   => s \in past.ever.sound
        BY <4>3, CertMoment, ZenonT(60)
      <4>5. \A s \in DOMAIN all : all[s].days \in Seq(Int)
        BY <1>1, <4>1, <4>2, Zenon DEF CertTypes
      <4>6. lists'.secrets = all /\ cluster' = cluster /\ past' = past
        BY <2>1, <2>2, <3>1
      <4>7. QED
        BY <4>1, <4>4, <4>5, <4>6 DEF CertSecretsRead
    <3>2. CASE l = Failed
      BY <2>1, <3>2 DEF CertSecretsRead, Known
    <3>3. QED
      BY <2>1, <3>1, <3>2
  <2>6. CertOwnersRead'
    BY <2>1, <2>2 DEF CertInv, CertOwnersRead, Known
  <2>7. ~Known(lists.rows)
    BY <2>2 DEF CertInv
  <2>8. QED
    BY <2>1, <2>4, <2>5, <2>6, <2>7, Zenon DEF CertInv, CE!RenewalTold, Known
<1>9. CASE CE!ReadCerts
  <2>1. PICK l \in {cluster.certs, Forbidden, Failed} :
          lists' = [arg |-> lists.arg, secrets |-> lists.secrets, certs |-> l, rows |-> lists.rows]
    BY <1>1, <1>9 DEF CE!ReadCerts, CertTypes
  <2>2. lists.certs = Unread /\ UNCHANGED <<cluster, past>>
    BY <1>9 DEF CE!ReadCerts
  <2>3. CE!Moment(cluster)' = CE!Moment(cluster)
    BY <2>2 DEF CE!Moment
  <2>4. CertTypes' /\ CertPast'
    BY <2>1, <2>2, <2>3, Zenon DEF CertInv, CertTypes, CertPast
  <2>5. CertSecretsRead'
    BY <2>1, <2>2 DEF CertInv, CertSecretsRead, Known
  <2>6. CertOwnersRead'
    <3>1. /\ past.always.certs \subseteq CE!Moment(cluster).certs
          /\ past.always.failing \subseteq CE!Moment(cluster).failing
          /\ CE!Moment(cluster).certs \subseteq past.ever.certs
      BY DEF CertInv, CertPast, CertFacts
    <3>2. /\ CE!Moment(cluster).certs = DOMAIN cluster.certs
          /\ CE!Moment(cluster).failing =
               {y \in DOMAIN cluster.certs : cluster.certs[y] # "True"}
      BY CertMoment
    <3>3. QED
      BY <1>1, <2>1, <2>2, <3>1, <3>2 DEF CertTypes, CertOwnersRead, Known
  <2>7. ~Known(lists.rows)
    BY <2>2 DEF CertInv
  <2>8. QED
    BY <2>1, <2>4, <2>5, <2>6, <2>7, Zenon DEF CertInv, CE!RenewalTold, Known
<1>10. CASE CE!Render
  <2>1. /\ \E l : lists' = [arg |-> lists.arg, secrets |-> lists.secrets, certs |-> lists.certs,
                            rows |-> l]
        /\ UNCHANGED <<cluster, past>>
        /\ Unread \notin {lists.secrets, lists.certs}
    BY <1>1, <1>10, Zenon DEF CertTypes, CE!Render
  <2>2. CE!Moment(cluster)' = CE!Moment(cluster) /\ lists'.arg = lists.arg
    BY <2>1 DEF CE!Moment
  <2>3. CertTypes' /\ CertPast'
    BY <2>1, <2>2, Zenon DEF CertInv, CertTypes, CertPast
  <2>4. CertSecretsRead' /\ CertOwnersRead'
    BY <2>1 DEF CertInv, CertSecretsRead, CertOwnersRead, Known
  <2>5. QED
    BY <1>10, <2>1, <2>3, <2>4, CertRendered DEF CertInv
<1>11. CASE CE!Over \/ UNCHANGED viewVars
  <2>1. UNCHANGED <<cluster, lists, past>>
    BY <1>11 DEF CE!Over, CE!vars, viewVars
  <2>2. CE!Moment(cluster)' = CE!Moment(cluster)
    BY <2>1 DEF CE!Moment
  <2>3. CE!RenewalTold' = CE!RenewalTold
    BY <2>1 DEF CE!RenewalTold, CE!Asked, CE!Owned
  <2>4. QED
    BY <2>1, <2>2, <2>3, Zenon DEF CertInv, CertTypes, CertPast, CertSecretsRead, CertOwnersRead, Known
<1>12. QED
  BY <1>2, <1>6, <1>7, <1>8, <1>9, <1>10, <1>11 DEF CE!Next

LEMMA CertTyped == CertInv => CE!TypeOK
<1> SUFFICES ASSUME CertInv PROVE CE!TypeOK
  OBVIOUS
<1>1. cluster.now \in 0..Certificate.time
  <2>1. cluster.now \in Nat /\ cluster.now <= Certificate.time
    BY DEF CertInv, CertTypes
  <2>2. QED
    BY <2>1, CertClock
<1>2. \A f \in DOMAIN past.ever : past.always[f] \subseteq past.ever[f]
  BY DEF CertInv, CertPast
<1>3. DOMAIN cluster.secrets = Certificate.secrets
  BY Zenon DEF CertInv, CertTypes
<1>4. QED
  BY <1>1, <1>2, <1>3 DEF CE!TypeOK, CertInv, CertTypes

LEMMA CertInvariance == Spec => [](view = "certs" => CertInv)
<1>1. Init => (view = "certs" => CertInv)
  BY CertBegins DEF Init
<1>2. (view = "certs" => CertInv) /\ [Next]_vars => (view = "certs" => CertInv)'
  BY OneView, CertSteps
<1>3. QED
  BY <1>1, <1>2, PTL DEF Spec

(* certs calls nothing fine that cannot renew, and makes up no verdict, for *)
(* any bundles, any Certificates and any time between the lists.            *)
THEOREM RenewalsTold == Spec => []RenewalTold
<1>1. (view = "certs" => CertInv) => RenewalTold
  BY DEF CertInv, RenewalTold
<1>2. QED
  BY <1>1, CertInvariance, PTL

-----------------------------------------------------------------------------
(* pending. *)

(* The clauses of a message say what the last attempt found.                *)
Faithful(clauses) ==
  /\ clauses # None /\ DOMAIN clauses = 1..Len(clauses) /\ Len(clauses) \in Nat \ {0}
  /\ {clauses[i] : i \in DOMAIN clauses} = SC!Clauses(past)

(* A pod pinned to a node was turned down by the others for that alone. *)
Pinned(pin) ==
  pin \in Pending.nodes =>
    /\ past[pin] # {} /\ \A r \in past[pin] : r[1] # "affinity"
    /\ \A n \in Pending.nodes \ {pin} : past[n] = {<<"affinity", None>>}

PodTold(p) ==
  /\ p = [pin |-> p.pin, bound |-> p.bound, condition |-> p.condition, init |-> p.init,
          app |-> p.app, phase |-> p.phase]
  /\ p.init \in {None, "PodInitializing", "ImagePullBackOff", "CrashLoopBackOff"}
  /\ p.app \in {None, "PodInitializing", "ContainerCreating", "ErrImagePull"}
  /\ p.bound => p.condition = None
  /\ ~p.bound => p.init = None /\ p.app = None
  /\ p.condition # None =>
       \/ p.condition.reason = "SchedulerError" /\ p.condition.clauses = None
       \/ /\ p.condition.reason = "Unschedulable"
          /\ Faithful(p.condition.clauses) /\ Pinned(p.pin)

PendingInv ==
  /\ cluster = [nodes |-> cluster.nodes, pod |-> cluster.pod, changes |-> cluster.changes]
  /\ cluster.nodes \in [Pending.nodes -> Pending.conditions]
  /\ PodTold(cluster.pod) /\ DOMAIN past = Pending.nodes
  /\ lists \notin {Unread, Failed, None} => PodTold(lists)

(* What a node may say of a pod. *)
Given ==
  {<<"affinity", None>>} \cup {<<"taint", c.taint>> : c \in Pending.conditions}
  \cup (UNION {{<<l, None>> : l \in c.lacks} : c \in Pending.conditions})

LEMMA GivenReasons ==
  ASSUME NEW n \in Pending.nodes, NEW p, cluster.nodes \in [Pending.nodes -> Pending.conditions]
  PROVE  /\ SC!Reasons(n, p) \subseteq Given /\ IsFiniteSet(SC!Reasons(n, p))
         /\ p.pin \notin {None, n} => SC!Reasons(n, p) = {<<"affinity", None>>}
         /\ p.pin = n => \A r \in SC!Reasons(n, p) : r[1] # "affinity"
<1> DEFINE c == cluster.nodes[n]
           lacked == {<<l, None>> : l \in c.lacks}
<1>1. c \in Pending.conditions
  OBVIOUS
<1>2. IsFiniteSet(c.lacks) /\ "affinity" \notin c.lacks
  BY <1>1, PendingWellFormed
<1>3. SC!Reasons(n, p) = IF p.pin \notin {None, n} THEN {<<"affinity", None>>}
                         ELSE IF c.taint # None THEN {<<"taint", c.taint>>} ELSE lacked
  BY DEF SC!Reasons
<1>4. IsFiniteSet(lacked)
  <2> DEFINE f == [l \in c.lacks |-> <<l, None>>]
  <2>1. {f[l] : l \in c.lacks} = lacked /\ f = [l \in c.lacks |-> f[l]]
    BY Zenon
  <2> HIDE DEF f, lacked, c
  <2>2. IsFiniteSet({f[l] : l \in c.lacks})
    BY <1>2, <2>1, ImageFinite
  <2>3. QED
    BY <2>1, <2>2, Zenon
<1>5. \A x : IsFiniteSet({x})
  BY FS_Singleton
<1>6. lacked \subseteq Given /\ <<"taint", c.taint>> \in Given /\ <<"affinity", None>> \in Given
  BY <1>1 DEF Given
<1>7. (\A r \in lacked : r[1] # "affinity") /\ <<"taint", c.taint>>[1] # "affinity"
  BY <1>2
<1> HIDE DEF lacked, c
<1>8. SC!Reasons(n, p) \subseteq Given /\ IsFiniteSet(SC!Reasons(n, p))
  BY <1>3, <1>4, <1>5, <1>6, Zenon
<1>9. p.pin = n => \A r \in SC!Reasons(n, p) : r[1] # "affinity"
  BY <1>3, <1>7
<1>10. QED
  BY <1>3, <1>8, <1>9

(* The scheduler's message names each reason once, with its count. *)
LEMMA ClausesWritten ==
  ASSUME NEW reasons,
         \A n \in Pending.nodes :
           reasons[n] \subseteq Given /\ IsFiniteSet(reasons[n]) /\ reasons[n] # {}
  PROVE  LET C == SC!Clauses(reasons)
             q == SC!SetToSeq(C)
         IN  /\ q # None /\ DOMAIN q = 1..Len(q) /\ Len(q) \in Nat \ {0}
             /\ {q[i] : i \in DOMAIN q} = C
<1> DEFINE C == SC!Clauses(reasons)
           q == SC!SetToSeq(C)
           Reason == UNION {reasons[n] : n \in Pending.nodes}
           against(r) == {n \in Pending.nodes : r \in reasons[n]}
           f == [r \in Reason |-> [reason |-> r, count |-> SC!Cardinality(against(r))]]
           R == [reason : Given, count : Nat]
<1>1. IsFiniteSet(Pending.nodes) /\ Pending.nodes # {}
  BY PendingWellFormed
<1>2. IsFiniteSet(Reason) /\ Reason # {} /\ Reason \subseteq Given
  <2> DEFINE g == [n \in Pending.nodes |-> reasons[n]]
             G == {g[n] : n \in Pending.nodes}
  <2>1. G = {reasons[n] : n \in Pending.nodes}
    BY Zenon
  <2>2. IsFiniteSet(G)
    BY <1>1, ImageFinite, ZenonT(60)
  <2>3. \A T \in G : IsFiniteSet(T)
    BY Zenon
  <2> HIDE DEF G
  <2>4. IsFiniteSet(UNION G)
    BY <2>2, <2>3, FS_UNION
  <2>5. Reason # {} /\ Reason \subseteq Given
    BY <1>1
  <2>6. QED
    BY <2>1, <2>4, <2>5
<1>3. C = {f[r] : r \in Reason}
  BY Zenon DEF SC!Clauses
<1>4. \A r : SC!Cardinality(against(r)) \in Nat
  <2>1. TAKE r
  <2>2. IsFiniteSet(against(r))
    BY <1>1, FS_Subset
  <2>3. Cardinality(against(r)) \in Nat
    BY <2>2, FS_CardinalityType
  <2>4. SC!Cardinality(against(r)) = Cardinality(against(r))
    BY DEF SC!Cardinality, Cardinality
  <2>5. QED
    BY <2>3, <2>4
<1>5. /\ f = [r \in Reason |-> f[r]]
      /\ \A r \in Reason : f[r] = [reason |-> r, count |-> SC!Cardinality(against(r))]
  OBVIOUS
<1>a. \A r \in Reason : f[r] \in R
  BY <1>2, <1>4, <1>5, Zenon
<1> HIDE DEF f, R, C, Reason
<1>6. IsFiniteSet(C) /\ C \subseteq R /\ C # {}
  BY <1>2, <1>3, <1>5, <1>a, ImageFinite
<1> DEFINE k == Cardinality(C)
<1>7. k \in Nat /\ k # 0 /\ ExistsBijection(1..k, C)
  BY <1>6, FS_CardinalityType, FS_EmptySet
<1>8. q \in [1..k -> C] /\ \A a, b \in 1..k : q[a] = q[b] => a = b
  <2>1. PICK g \in [1..k -> C] : \A a, b \in 1..k : g[a] = g[b] => a = b
    BY <1>7 DEF ExistsBijection, Bijection, Injection, IsInjective
  <2>2. SC!IsInjective(g)
    BY <2>1 DEF SC!IsInjective
  <2>3. SC!Cardinality(C) = k
    BY DEF SC!Cardinality, Cardinality
  <2>4. q \in [1..k -> C] /\ SC!IsInjective(q)
    BY <2>1, <2>2, <2>3 DEF SC!SetToSeq
  <2>5. QED
    BY <2>4 DEF SC!IsInjective
<1> HIDE DEF q
<1>9. IsFiniteSet(1..k) /\ Cardinality(1..k) = k
  BY <1>7, FS_Interval
<1>10. q \in Injection(1..k, C)
  BY <1>8, Fun_IsInj, Zenon
<1>11. q \in Surjection(1..k, C)
  BY <1>6, <1>9, <1>10, FS_Injection
<1>12. \A c \in C : \E i \in 1..k : q[i] = c
  BY <1>11, Fun_IsSurj DEF Surjection
<1>13. q \in Seq(C) /\ Len(q) = k /\ DOMAIN q = 1..k
  BY <1>7, <1>8, SeqDef
<1>14. q \in Seq(R)
  BY <1>6, <1>13
<1>15. q # None
  BY <1>14, PendingWellFormed DEF R, Given
<1>16. {q[i] : i \in DOMAIN q} = C
  BY <1>8, <1>12, <1>13
<1>17. QED
  BY <1>7, <1>13, <1>15, <1>16 DEF q, C

(* schedulerCause picks a clause that no other outnumbers. *)
LEMMA LargestIs ==
  ASSUME NEW q, NEW k \in Nat \ {0}, DOMAIN q = 1..k, \A i \in 1..k : q[i].count \in Nat
  PROVE  \E i \in 1..k : /\ SC!LargestClause(q) = q[i]
                         /\ \A j \in 1..k : q[j].count <= q[i].count
<1> DEFINE neg == [i \in 1..k |-> 0 - q[i].count]
           T == {neg[i] : i \in 1..k}
<1>1. IsFiniteSet(1..k) /\ 1 \in 1..k
  <2>1. 1 \in Int /\ k \in Int /\ 1 \in 1..k
    OBVIOUS
  <2>2. QED
    BY <2>1, FS_Interval, Zenon
<1>2. IsFiniteSet(T)
  BY <1>1, ImageFinite, Zenon
<1>3. T \in SUBSET Int /\ T # {}
  BY <1>1
<1>4. PICK m \in T : \A t \in T : m <= t
  BY <1>2, <1>3, SmallestNumber, Zenon
<1>5. PICK a \in 1..k : m = neg[a]
  BY <1>4
<1>6. \A j \in 1..k : q[j].count <= q[a].count
  <2>1. TAKE j \in 1..k
  <2>2. neg[a] <= neg[j] /\ q[a].count \in Nat /\ q[j].count \in Nat
    BY <1>4, <1>5
  <2>3. neg[a] = 0 - q[a].count /\ neg[j] = 0 - q[j].count
    OBVIOUS
  <2> HIDE DEF neg
  <2>4. QED
    BY <2>2, <2>3
<1> HIDE DEF T, neg
<1> DEFINE best(i) == /\ \A j \in 1..k : q[j].count <= q[i].count
                      /\ \A j \in 1..(i - 1) : q[j].count < q[i].count
           I == {i \in 1..k : q[i].count = q[a].count}
<1>7. I \in SUBSET Nat /\ I # {}
  OBVIOUS
<1>8. BE!Min(I) \in I /\ \A i \in I : BE!Min(I) <= i
  BY <1>7, Smallest, Zenon
<1>9. PICK b \in I : \A i \in I : b <= i
  BY <1>8, Zenon
<1>10. best(b)
  <2>1. b \in 1..k /\ q[b].count = q[a].count
    OBVIOUS
  <2>2. ASSUME NEW j \in 1..(b - 1) PROVE q[j].count < q[b].count
    <3>1. j \in 1..k /\ ~(b <= j)
      BY <2>1
    <3>2. q[j].count # q[a].count
      BY <1>9, <3>1
    <3>3. q[j].count \in Nat /\ q[a].count \in Nat /\ q[j].count <= q[a].count
      BY <1>6, <3>1
    <3>4. QED
      BY <2>1, <3>2, <3>3
  <2>3. QED
    BY <1>6, <2>1, <2>2
<1>11. SC!LargestClause(q) = q[CHOOSE i \in 1..k : best(i)]
  BY Zenon DEF SC!LargestClause
<1>12. \E i \in 1..k : best(i)
  BY <1>10
<1> DEFINE c == CHOOSE i \in 1..k : best(i)
<1>13. c \in 1..k /\ best(c)
  BY <1>12, Zenon
<1>14. QED
  BY <1>11, <1>13, Zenon

LEMMA PendingBegins == SC!Init => PendingInv
<1> SUFFICES ASSUME SC!Init PROVE PendingInv
  OBVIOUS
<1>1. PICK pin \in Pending.pins, f \in [Pending.nodes -> Pending.conditions] :
        cluster = [nodes |-> f, pod |-> SC!NewPod(pin), changes |-> 0]
  BY DEF SC!Init
<1>2. lists = Unread /\ DOMAIN past = Pending.nodes
  BY DEF SC!Init
<1>3. PodTold(cluster.pod)
  BY <1>1 DEF PodTold, SC!NewPod
<1>4. QED
  BY <1>1, <1>2, <1>3 DEF PendingInv

(* A pod that changes while nothing has been read. *)
LEMMA PendingMoves ==
  ASSUME PendingInv, NEW p, PodTold(p)', SC!Becomes(p), DOMAIN past' = Pending.nodes
  PROVE  PendingInv'
<1>1. cluster' = [nodes |-> cluster.nodes, pod |-> p, changes |-> cluster.changes + 1]
  BY Zenon DEF PendingInv, SC!Becomes, SC!World
<1>2. lists = Unread /\ UNCHANGED lists
  BY DEF SC!Becomes, SC!World
<1>3. QED
  BY <1>1, <1>2 DEF PendingInv

(* An attempt that turns every node down. *)
LEMMA PendingRefused ==
  ASSUME PendingInv, NEW reasons, past' = reasons, ~cluster.pod.bound,
         reasons = [n \in Pending.nodes |-> SC!Reasons(n, cluster.pod)],
         \A n \in Pending.nodes : reasons[n] # {},
         SC!Becomes([cluster.pod EXCEPT !.condition =
                       [reason |-> "Unschedulable",
                        clauses |-> SC!SetToSeq(SC!Clauses(reasons))]])
  PROVE  PendingInv'
<1> DEFINE q == SC!SetToSeq(SC!Clauses(reasons))
           pod == cluster.pod
           condition == [reason |-> "Unschedulable", clauses |-> q]
<1>1. /\ cluster.nodes \in [Pending.nodes -> Pending.conditions]
      /\ PodTold(pod)
  BY DEF PendingInv
<1>2. \A n \in Pending.nodes :
        /\ reasons[n] \subseteq Given /\ IsFiniteSet(reasons[n]) /\ reasons[n] # {}
        /\ pod.pin \notin {None, n} => reasons[n] = {<<"affinity", None>>}
        /\ pod.pin = n => \A r \in reasons[n] : r[1] # "affinity"
  BY <1>1, GivenReasons
<1>3. /\ q # None /\ DOMAIN q = 1..Len(q) /\ Len(q) \in Nat \ {0}
      /\ {q[i] : i \in DOMAIN q} = SC!Clauses(reasons)
  BY <1>2, ClausesWritten, Zenon
<1>4. PICK pin, clauses : pin = pod.pin /\ clauses = q
  OBVIOUS
<1> HIDE DEF q
<1>a. Faithful(clauses)'
  BY <1>3, <1>4 DEF Faithful
<1>5. Pinned(pin)'
  <2>1. SUFFICES ASSUME pin \in Pending.nodes
                 PROVE  /\ reasons[pin] # {} /\ \A r \in reasons[pin] : r[1] # "affinity"
                        /\ \A n \in Pending.nodes \ {pin} : reasons[n] = {<<"affinity", None>>}
    BY DEF Pinned
  <2>2. pin # None
    BY <2>1, PendingWellFormed
  <2>3. QED
    BY <1>2, <1>4, <2>1, <2>2, Zenon
<1>6. PICK p : p = [pod EXCEPT !.condition = condition]
  BY Zenon
<1>7. p = [pin |-> pod.pin, bound |-> pod.bound, condition |-> condition, init |-> pod.init,
           app |-> pod.app, phase |-> pod.phase]
  BY <1>1, <1>6 DEF PodTold
<1>8. PodTold(p)'
  <2>1. p.pin = pin /\ p.condition.clauses = clauses /\ p.condition.reason = "Unschedulable"
    BY <1>4, <1>7
  <2>2. Pinned(p.pin)' /\ Faithful(p.condition.clauses)'
    BY <1>a, <1>5, <2>1
  <2>3. QED
    BY <1>1, <1>7, <2>1, <2>2 DEF PodTold
<1>9. SC!Becomes(p)
  BY <1>6 DEF q
<1>10. DOMAIN past' = Pending.nodes
  OBVIOUS
<1>11. QED
  BY <1>8, <1>9, <1>10, PendingMoves

(* What was told of a pod holds while no attempt is made. *)
LEMMA PodKept ==
  ASSUME UNCHANGED past
  PROVE  \A p : PodTold(p) => PodTold(p)'
<1>1. SC!Clauses(past)' = SC!Clauses(past)
  BY DEF SC!Clauses
<1>2. \A q : Faithful(q)' = Faithful(q)
  BY <1>1 DEF Faithful
<1>3. \A n : Pinned(n)' = Pinned(n)
  BY DEF Pinned
<1>4. QED
  BY <1>2, <1>3 DEF PodTold

(* A pod whose message, if any, says nothing of nodes. *)
LEMMA PodSilent ==
  ASSUME NEW pin, NEW b, NEW c, NEW i, NEW a, NEW ph, NEW p,
         p = [pin |-> pin, bound |-> b, condition |-> c, init |-> i, app |-> a, phase |-> ph],
         i \in {None, "PodInitializing", "ImagePullBackOff", "CrashLoopBackOff"},
         a \in {None, "PodInitializing", "ContainerCreating", "ErrImagePull"},
         b => c = None, ~b => i = None /\ a = None,
         c # None => c.reason = "SchedulerError" /\ c.clauses = None
  PROVE  PodTold(p)'
BY DEF PodTold

LEMMA PendingSteps ==
  ASSUME PendingInv, SC!Next \/ UNCHANGED viewVars
  PROVE  PendingInv'
<1> DEFINE pod == cluster.pod
<1>1. /\ cluster = [nodes |-> cluster.nodes, pod |-> pod, changes |-> cluster.changes]
      /\ cluster.nodes \in [Pending.nodes -> Pending.conditions]
      /\ PodTold(pod) /\ DOMAIN past = Pending.nodes
  BY DEF PendingInv
<1>2. /\ pod = [pin |-> pod.pin, bound |-> pod.bound, condition |-> pod.condition,
                init |-> pod.init, app |-> pod.app, phase |-> pod.phase]
      /\ pod.init \in {None, "PodInitializing", "ImagePullBackOff", "CrashLoopBackOff"}
      /\ pod.app \in {None, "PodInitializing", "ContainerCreating", "ErrImagePull"}
      /\ pod.bound => pod.condition = None
      /\ ~pod.bound => pod.init = None /\ pod.app = None
  BY <1>1 DEF PodTold
<1>3. CASE SC!Attempt
  <2>1. PICK reasons : /\ reasons = [n \in Pending.nodes |-> SC!Reasons(n, pod)]
                       /\ past' = reasons
    BY <1>3 DEF SC!Attempt, SC!Pod
  <2>2. ~pod.bound
    BY <1>3 DEF SC!Attempt, SC!Pod
  <2>3. CASE \E n \in Pending.nodes : reasons[n] = {}
    <3>1. PICK p : p = [pod EXCEPT !.bound = TRUE, !.condition = None,
                                   !.init = "PodInitializing", !.app = "PodInitializing"]
      OBVIOUS
    <3>2. SC!Becomes(p)
      BY <1>3, <2>1, <2>3, <3>1 DEF SC!Attempt, SC!Pod
    <3>3. p = [pin |-> pod.pin, bound |-> TRUE, condition |-> None, init |-> "PodInitializing",
               app |-> "PodInitializing", phase |-> pod.phase]
      BY <1>2, <3>1, Zenon
    <3> HIDE DEF pod
    <3>4. PodTold(p)'
      BY <3>3 DEF PodTold
    <3>5. DOMAIN past' = Pending.nodes
      BY <2>1
    <3>6. QED
      BY <3>2, <3>4, <3>5, PendingMoves
  <2>4. CASE ~\E n \in Pending.nodes : reasons[n] = {}
    <3>1. SC!Becomes([pod EXCEPT !.condition =
                        [reason |-> "Unschedulable",
                         clauses |-> SC!SetToSeq(SC!Clauses(reasons))]])
      BY <1>3, <2>1, <2>4 DEF SC!Attempt, SC!Pod
    <3>2. QED
      BY <2>1, <2>2, <2>4, <3>1, PendingRefused
  <2>5. QED
    BY <2>3, <2>4
<1>4. CASE SC!AttemptFails
  <2> DEFINE c == [reason |-> "SchedulerError", clauses |-> None]
  <2>1. PICK p : p = [pod EXCEPT !.condition = c]
    BY Zenon
  <2>2. SC!Becomes(p) /\ ~pod.bound /\ DOMAIN past' = Pending.nodes
    BY <1>4, <2>1 DEF SC!AttemptFails, SC!Pod
  <2>3. p = [pin |-> pod.pin, bound |-> pod.bound, condition |-> c, init |-> pod.init,
             app |-> pod.app, phase |-> pod.phase]
    BY <1>2, <2>1
  <2>4. PodTold(p)'
    BY <1>2, <2>2, <2>3 DEF PodTold
  <2>5. QED
    BY <2>2, <2>4, PendingMoves
<1>5. CASE SC!Kubelet
  <2>1. PICK i, a, ph, p :
          /\ p = [pin |-> pod.pin, bound |-> pod.bound, condition |-> pod.condition, init |-> i,
                  app |-> a, phase |-> ph]
          /\ i \in {None, "PodInitializing", "ImagePullBackOff", "CrashLoopBackOff"}
          /\ a \in {None, "PodInitializing", "ContainerCreating", "ErrImagePull"}
          /\ SC!Becomes(p)
    <3>1. CASE \E r \in {"ImagePullBackOff", "CrashLoopBackOff", None} :
                 SC!Becomes([pod EXCEPT !.init = r])
      <4>1. PICK r \in {"ImagePullBackOff", "CrashLoopBackOff", None} :
              SC!Becomes([pod EXCEPT !.init = r])
        BY <3>1
      <4> DEFINE p == [pod EXCEPT !.init = r]
      <4>2. p = [pin |-> pod.pin, bound |-> pod.bound, condition |-> pod.condition, init |-> r,
                 app |-> pod.app, phase |-> pod.phase]
        BY <1>2
      <4> HIDE DEF p
      <4>3. SC!Becomes(p)
        BY <4>1 DEF p
      <4>4. QED
        BY <1>2, <4>2, <4>3
    <3>2. CASE \E r \in {"ContainerCreating", "ErrImagePull"} : SC!Becomes([pod EXCEPT !.app = r])
      <4>1. PICK r \in {"ContainerCreating", "ErrImagePull"} : SC!Becomes([pod EXCEPT !.app = r])
        BY <3>2
      <4> DEFINE p == [pod EXCEPT !.app = r]
      <4>2. p = [pin |-> pod.pin, bound |-> pod.bound, condition |-> pod.condition,
                 init |-> pod.init, app |-> r, phase |-> pod.phase]
        BY <1>2
      <4> HIDE DEF p
      <4>3. SC!Becomes(p)
        BY <4>1 DEF p
      <4>4. QED
        BY <1>2, <4>2, <4>3
    <3>3. CASE SC!Becomes([pod EXCEPT !.app = None, !.phase = "Running"])
      <4>0. PICK p : p = [pod EXCEPT !.app = None, !.phase = "Running"]
        OBVIOUS
      <4>1. p = [pin |-> pod.pin, bound |-> pod.bound, condition |-> pod.condition,
                 init |-> pod.init, app |-> None, phase |-> "Running"]
        BY <1>2, <4>0, Zenon
      <4>2. SC!Becomes(p)
        BY <3>3, <4>0
      <4>3. QED
        BY <1>2, <4>1, <4>2
    <3>4. QED
      BY <1>5, <3>1, <3>2, <3>3 DEF SC!Kubelet, SC!Pod
  <2>2. (pod.bound = TRUE \/ pod.bound) /\ DOMAIN past' = Pending.nodes
    BY <1>1, <1>5 DEF SC!Kubelet, SC!Pod
  <2>3. PodTold(p)'
    BY <1>2, <2>1, <2>2, PodSilent
  <2>4. QED
    BY <2>1, <2>2, <2>3, PendingMoves
<1>6. ASSUME NEW n \in Pending.nodes, SC!NodeChanges(n) PROVE PendingInv'
  <2>1. PICK c \in Pending.conditions :
          SC!World([cluster EXCEPT !.nodes = [cluster.nodes EXCEPT ![n] = c]])
    BY <1>6 DEF SC!NodeChanges
  <2> DEFINE nodes == [cluster.nodes EXCEPT ![n] = c]
  <2>2. nodes \in [Pending.nodes -> Pending.conditions]
    BY <1>1
  <2> HIDE DEF nodes
  <2>3. cluster' = [nodes |-> nodes, pod |-> pod, changes |-> cluster.changes + 1]
    BY <1>1, <2>1, Zenon DEF SC!World, nodes
  <2>4. lists = Unread /\ UNCHANGED <<lists, past>>
    BY <1>6, <2>1 DEF SC!World, SC!NodeChanges
  <2>5. PodTold(pod)'
    <3>1. cluster'.pod = cluster.pod
      BY <2>3
    <3>2. \A p : p = cluster.pod => PodTold(p)'
      BY <1>1, <2>4, PodKept
    <3>3. QED
      BY <3>1, <3>2, Zenon DEF PodTold, Faithful, Pinned, SC!Clauses
  <2>6. QED
    BY <1>1, <2>2, <2>3, <2>4, <2>5 DEF PendingInv
<1>7. CASE SC!ReadPods
  <2>1. lists' \in {pod, None, Failed} /\ UNCHANGED <<cluster, past>>
    BY <1>7 DEF SC!ReadPods, SC!Pod
  <2>2. PICK p, l : p = pod /\ l = lists'
    OBVIOUS
  <2>3. PodTold(p)' /\ (l \notin {Unread, Failed, None} => PodTold(l)')
    BY <1>1, <2>1, <2>2, PodKept
  <2>4. cluster' = cluster /\ cluster'.pod = p /\ lists' = l
    BY <2>1, <2>2
  <2>5. PodTold(cluster.pod)'
    <3>1. cluster'.pod = cluster.pod
      BY <2>1
    <3>2. \A x : x = cluster.pod => PodTold(x)'
      BY <1>1, <2>1, PodKept
    <3>3. QED
      BY <3>1, <3>2, Zenon DEF PodTold, Faithful, Pinned, SC!Clauses
  <2>6. (lists \notin {Unread, Failed, None} => PodTold(lists))'
    BY <2>3, <2>4, ZenonT(60) DEF PodTold, Faithful, Pinned, SC!Clauses
  <2>7. QED
    BY <1>1, <2>1, <2>4, <2>5, <2>6 DEF PendingInv
<1>8. CASE SC!Over \/ UNCHANGED viewVars
  <2>1. UNCHANGED <<cluster, lists, past>>
    BY <1>8 DEF SC!Over, SC!vars, viewVars
  <2>2. PICK p, l : p = pod /\ l = lists
    OBVIOUS
  <2>3. PodTold(p)' /\ (l \notin {Unread, Failed, None} => PodTold(l)')
    BY <1>1, <2>1, <2>2, PodKept DEF PendingInv
  <2>4. cluster' = cluster /\ cluster'.pod = p /\ lists' = l
    BY <2>1, <2>2
  <2>5. PodTold(cluster.pod)'
    <3>1. cluster'.pod = cluster.pod
      BY <2>1
    <3>2. \A x : x = cluster.pod => PodTold(x)'
      BY <1>1, <2>1, PodKept
    <3>3. QED
      BY <3>1, <3>2, Zenon DEF PodTold, Faithful, Pinned, SC!Clauses
  <2>6. (lists \notin {Unread, Failed, None} => PodTold(lists))'
    BY <2>3, <2>4, ZenonT(60) DEF PodTold, Faithful, Pinned, SC!Clauses
  <2>7. QED
    BY <1>1, <2>1, <2>4, <2>5, <2>6 DEF PendingInv
<1>9. QED
  BY <1>3, <1>4, <1>5, <1>6, <1>7, <1>8 DEF SC!Next

(* The clauses, as what the nodes said. *)
LEMMA ClausesRead ==
  ASSUME NEW q, Faithful(q)
  PROVE  LET given == UNION {past[n] : n \in Pending.nodes}
             against(r) == SC!Cardinality({n \in Pending.nodes : r \in past[n]})
             best == SC!LargestClause(q)
         IN  /\ {SC!Phrase(q[i]) : i \in DOMAIN q} = {r[1] : r \in given}
             /\ \E r \in given : /\ best.reason = r /\ best.count = against(r)
                                 /\ \A s \in given : against(s) <= against(r)
<1> DEFINE given == UNION {past[n] : n \in Pending.nodes}
           who(r) == {n \in Pending.nodes : r \in past[n]}
           against(r) == SC!Cardinality(who(r))
           C == {[reason |-> r, count |-> against(r)] : r \in given}
           k == Len(q)
           best == SC!LargestClause(q)
<1>1. /\ DOMAIN q = 1..k /\ k \in Nat \ {0}
      /\ {q[i] : i \in DOMAIN q} = SC!Clauses(past)
  BY DEF Faithful
<1>2. SC!Clauses(past) = C
  BY DEF SC!Clauses
<1>3. \A r : against(r) \in Nat
  <2>1. TAKE r
  <2>2. IsFiniteSet(who(r))
    BY PendingWellFormed, FS_Subset
  <2>3. Cardinality(who(r)) \in Nat
    BY <2>2, FS_CardinalityType
  <2>4. against(r) = Cardinality(who(r))
    BY DEF SC!Cardinality, Cardinality
  <2>5. QED
    BY <2>3, <2>4
<1> HIDE DEF against, given, k
<1>4. /\ \A i \in 1..k : \E r \in given : q[i] = [reason |-> r, count |-> against(r)]
      /\ \A r \in given : \E i \in 1..k : q[i] = [reason |-> r, count |-> against(r)]
  <2>1. {q[i] : i \in 1..k} = C
    BY <1>1, <1>2
  <2>2. QED
    BY <2>1, Zenon
<1>5. /\ \A i \in 1..k : \E r \in given : q[i].reason = r /\ q[i].count = against(r)
      /\ \A r \in given : \E i \in 1..k : q[i].reason = r /\ q[i].count = against(r)
  <2>1. \A i, r : q[i] = [reason |-> r, count |-> against(r)] =>
                     q[i].reason = r /\ q[i].count = against(r)
    OBVIOUS
  <2>2. QED
    BY <1>4, <2>1, ZenonT(60)
<1>6. \A i \in 1..k : q[i].count \in Nat
  BY <1>3, <1>5
<1>7. PICK b \in 1..k : best = q[b] /\ \A j \in 1..k : q[j].count <= q[b].count
  BY <1>1, <1>6, LargestIs
<1>8. PICK g \in given : q[b].reason = g /\ q[b].count = against(g)
  BY <1>5
<1>9. \A s \in given : against(s) <= against(g)
  BY <1>5, <1>7, <1>8
<1>10. {SC!Phrase(q[i]) : i \in DOMAIN q} = {x[1] : x \in given}
  <2>1. \A i : SC!Phrase(q[i]) = q[i].reason[1]
    BY Zenon DEF SC!Phrase
  <2>2. \A i \in 1..k : \E r \in given : SC!Phrase(q[i]) = r[1]
    BY <1>5, <2>1
  <2>3. \A r \in given : \E i \in 1..k : SC!Phrase(q[i]) = r[1]
    BY <1>5, <2>1
  <2>4. ASSUME NEW y
        PROVE  y \in {SC!Phrase(q[i]) : i \in 1..k} <=> y \in {x[1] : x \in given}
    <3>1. y \in {SC!Phrase(q[i]) : i \in 1..k} <=> \E i \in 1..k : y = SC!Phrase(q[i])
      BY Zenon
    <3>2. y \in {x[1] : x \in given} <=> \E x \in given : y = x[1]
      BY Zenon
    <3>3. QED
      BY <2>2, <2>3, <3>1, <3>2
  <2>5. {SC!Phrase(q[i]) : i \in 1..k} = {x[1] : x \in given}
    BY <2>4
  <2>6. QED
    BY <1>1, <2>5, Zenon
<1>11. QED
  BY <1>7, <1>8, <1>9, <1>10, Zenon DEF given, against

(* What is shown of a pod that was read. *)
LEMMA CauseShown ==
  ASSUME NEW p, PodTold(p)
  PROVE  LET shown == SC!PendingReason(p)
             given == UNION {past[n] : n \in Pending.nodes}
             against(r) == SC!Cardinality({n \in Pending.nodes : r \in past[n]})
         IN  /\ shown.nodes # None => \E r \in given :
                  /\ shown.causes = {r[1]} /\ shown.nodes = against(r)
                  /\ \A q \in given : against(q) <= against(r)
             /\ shown.reason = "Unschedulable" /\ p.pin \in Pending.nodes =>
                  shown.causes = {r[1] : r \in past[p.pin]}
             /\ p.bound => shown.reason \notin {"Unschedulable", "SchedulerError"}
             /\ p.bound /\ p.init # None => shown.reason = p.init
             /\ shown.causes = {"app"} => p.init = None
<1> DEFINE shown == SC!PendingReason(p)
           c == p.condition
           given == UNION {past[n] : n \in Pending.nodes}
           against(r) == SC!Cardinality({n \in Pending.nodes : r \in past[n]})
           best == SC!LargestClause(c.clauses)
<1>1. /\ p.init \in {None, "PodInitializing", "ImagePullBackOff", "CrashLoopBackOff"}
      /\ p.app \in {None, "PodInitializing", "ContainerCreating", "ErrImagePull"}
      /\ p.bound => c = None
      /\ ~p.bound => p.init = None
  BY DEF PodTold
<1>2. CASE c = None
  <2>1. CASE p.init # None
    <3>1. SC!Waiting(p) # <<>> /\ SC!Waiting(p)[1] = [name |-> "init", reason |-> p.init]
      BY <2>1 DEF SC!Waiting
    <3>2. shown = [reason |-> p.init, nodes |-> None,
                   causes |-> IF p.init \in SC!ImageReasons THEN {"init"} ELSE {}]
      BY <1>2, <3>1 DEF SC!PendingReason, SC!Shows
    <3>3. p.init \notin {"Unschedulable", "SchedulerError"}
      BY <1>1, <2>1
    <3>4. shown.causes # {"app"}
      BY <3>2
    <3> HIDE DEF shown
    <3>5. QED
      BY <3>2, <3>3, <3>4 DEF shown
  <2>2. CASE p.init = None /\ p.app # None
    <3>1. SC!Waiting(p) # <<>> /\ SC!Waiting(p)[1] = [name |-> "app", reason |-> p.app]
      BY <2>2 DEF SC!Waiting
    <3>2. shown = [reason |-> p.app, nodes |-> None,
                   causes |-> IF p.app \in SC!ImageReasons THEN {"app"} ELSE {}]
      BY <1>2, <3>1 DEF SC!PendingReason, SC!Shows
    <3>3. p.app \notin {"Unschedulable", "SchedulerError"}
      BY <1>1, <2>2
    <3> HIDE DEF shown
    <3>4. QED
      BY <2>2, <3>2, <3>3 DEF shown
  <2>3. CASE p.init = None /\ p.app = None
    <3>1. SC!Waiting(p) = <<>>
      BY <2>3 DEF SC!Waiting
    <3>2. shown = [reason |-> "Pending", causes |-> {}, nodes |-> None]
      BY <1>2, <3>1 DEF SC!PendingReason, SC!Shows
    <3> HIDE DEF shown
    <3>3. QED
      BY <2>3, <3>2 DEF shown
  <2>4. QED
    BY <2>1, <2>2, <2>3, Zenon
<1>3. CASE c # None
  <2>1. ~p.bound /\ p.init = None
    BY <1>1, <1>3
  <2>2. CASE c.reason = "SchedulerError" /\ c.clauses = None
    <3>1. shown = [reason |-> "SchedulerError", causes |-> {"message"}, nodes |-> None]
      BY <1>3, <2>2 DEF SC!PendingReason, SC!SchedulerCause, SC!PinnedCause, SC!Shows
    <3> HIDE DEF shown
    <3>2. QED
      BY <2>1, <3>1 DEF shown
  <2>3. CASE c.reason = "Unschedulable" /\ Faithful(c.clauses) /\ Pinned(p.pin)
    <3>1. /\ {SC!Phrase(c.clauses[i]) : i \in DOMAIN c.clauses} = {r[1] : r \in given}
          /\ \E r \in given : /\ best.reason = r /\ best.count = against(r)
                              /\ \A s \in given : against(s) <= against(r)
      BY <2>3, ClausesRead, Zenon
    <3>2. c.clauses # None
      BY <2>3 DEF Faithful
    <3>3. SC!PinnedCause(c) = {r[1] : r \in given} \ {"affinity"}
      BY <3>1, <3>2, Zenon DEF SC!PinnedCause
    <3>4. SC!SchedulerCause(c) = [reason |-> "Unschedulable", causes |-> {best.reason[1]},
                                  nodes |-> best.count]
      BY <2>3, <3>2 DEF SC!SchedulerCause, SC!Shows, SC!Phrase
    <3>5. ASSUME p.pin \in Pending.nodes
          PROVE  /\ p.pin # None /\ SC!PinnedCause(c) = {r[1] : r \in past[p.pin]}
                 /\ SC!PinnedCause(c) # {}
      <4>1. /\ past[p.pin] # {} /\ \A r \in past[p.pin] : r[1] # "affinity"
            /\ \A n \in Pending.nodes \ {p.pin} : past[n] = {<<"affinity", None>>}
        BY <2>3, <3>5 DEF Pinned
      <4>2. \A r \in given : r \in past[p.pin] \/ r[1] = "affinity"
        BY <4>1
      <4>3. past[p.pin] \subseteq given
        BY <3>5
      <4> HIDE DEF given
      <4>4. QED
        BY <3>3, <3>5, <4>1, <4>2, <4>3, PendingWellFormed
    <3>6. shown = IF p.pin # None /\ SC!PinnedCause(c) # {}
                    THEN [reason |-> "Unschedulable", causes |-> SC!PinnedCause(c), nodes |-> None]
                    ELSE SC!SchedulerCause(c)
      BY <1>3, <2>3 DEF SC!PendingReason, SC!Shows
    <3> HIDE DEF shown, best, against, given
    <3>7. CASE p.pin # None /\ SC!PinnedCause(c) # {}
      BY <2>1, <3>5, <3>6, <3>7 DEF shown
    <3>8. CASE ~(p.pin # None /\ SC!PinnedCause(c) # {})
      <4>1. p.pin \notin Pending.nodes
        BY <3>5, <3>8
      <4>2. shown.causes = {best.reason[1]} /\ shown.nodes = best.count
        BY <3>4, <3>6, <3>8
      <4>3. \E r \in given : /\ shown.causes = {r[1]} /\ shown.nodes = against(r)
                             /\ \A q \in given : against(q) <= against(r)
        BY <3>1, <4>2
      <4>4. QED
        BY <2>1, <4>1, <4>3, Zenon DEF shown, given, against
    <3>9. QED
      BY <3>7, <3>8, Zenon
  <2>4. QED
    BY <1>3, <2>2, <2>3, Zenon DEF PodTold
<1>4. QED
  BY <1>2, <1>3

LEMMA PendingTyped == PendingInv => SC!TypeOK
BY DEF PendingInv, PodTold, SC!TypeOK, SC!Pod

LEMMA PendingInvariance == Spec => [](view = "pending" => PendingInv)
<1>1. Init => (view = "pending" => PendingInv)
  BY PendingBegins DEF Init
<1>2. (view = "pending" => PendingInv) /\ [Next]_vars => (view = "pending" => PendingInv)'
  BY OneView, PendingSteps
<1>3. QED
  BY <1>1, <1>2, PTL DEF Spec

(* The one reason pending shows is a true one and the one that matters, for *)
(* any nodes, any pins and any number of attempts before the list.          *)
THEOREM CausesTrue == Spec => []CauseTrue
<1>1. (view = "pending" => PendingInv) => CauseTrue
  BY CauseShown, Zenon DEF PendingInv, CauseTrue, SC!CauseTrue
<1>2. QED
  BY <1>1, PendingInvariance, PTL

-----------------------------------------------------------------------------
(* autoscaler: lines, and what they say. *)

(* A section's report is a function over the sections. *)
Over(g) == g = [l \in NG!Sections |-> g[l]]

(* What the lines from i to j say of the sections, and all they say. *)
Says(lines, i, j, g) ==
  /\ \A l \in NG!Sections, k \in i..j :
       lines[k].label = l => lines[k].value = g[l] /\ g[l] # None
  /\ \A l \in NG!Sections : g[l] # None => \E k \in i..j : lines[k].label = l

Inner == NG!Sections \cup {"LastProbeTime"}

(* The lines of a group, after e and up to f.                               *)
GroupLaid(lines, e, f, group) ==
  /\ e < f
  /\ lines[e + 1] = [label |-> "Name", value |-> group.name]
  /\ \A p \in (e + 2)..f : lines[p].label \in Inner
  /\ Says(lines, e + 2, f, group.has)

(* The lines of a whole status: a heading, the cluster's lines, a heading,  *)
(* and the groups', group i after ends[i - 1] and up to ends[i].            *)
Laid(lines, w, groups, n, b, ends) ==
  /\ ends[0] = b + 2 /\ Len(lines) = ends[n]
  /\ \A p \in (b + 3)..ends[n] : \E i \in 1..n : p \in (ends[i - 1] + 1)..ends[i]
  /\ lines[1].label = "Cluster-wide:" /\ lines[b + 2].label = "NodeGroups:"
  /\ \A p \in 2..(b + 1) : lines[p].label \in Inner
  /\ Says(lines, 2, b + 1, w)
  /\ \A i \in 1..n : GroupLaid(lines, ends[i - 1], ends[i], groups[i])

-----------------------------------------------------------------------------
LEMMA ListsSame ==
  /\ \A list, set : NG!Kept(list, set) = Kept(list, set)
  /\ \A seqs : NG!FlattenSeq(seqs) = FlattenSeq(seqs)
<1>1. \A list, set : NG!Kept(list, set) = Kept(list, set)
  BY Zenon DEF NG!Kept, Kept
<1>2. \A seqs : NG!FlattenSeq(seqs) = FlattenSeq(seqs)
  BY Zenon DEF NG!FlattenSeq, FlattenSeq
<1>3. QED
  BY <1>1, <1>2

(* The lines of a report say it.                                            *)
LEMMA SectionsSaid ==
  ASSUME NEW g, NEW V, None \in V, \A l \in NG!Sections : g[l] \in V
  PROVE  LET ls == NG!SectionLines(g) IN
           /\ ls \in Seq([label : Inner, value : V])
           /\ Says(ls, 1, Len(ls), g)
<1> DEFINE kept == {l \in NG!Sections : g[l] # None}
           shown == Kept(<<"Health", "ScaleUp", "ScaleDown">>, kept)
           probe == NG!Line("LastProbeTime", None)
           told(l) == NG!Line(l, g[l])
           seqs == [i \in DOMAIN shown |-> <<told(shown[i]), probe>>]
           S == [label : Inner, value : V]
<1>1. NG!SectionLines(g) = FlattenSeq(seqs)
  BY ListsSame, Zenon DEF NG!SectionLines
<1>2. <<"Health", "ScaleUp", "ScaleDown">> \in Seq(NG!Sections)
      /\ Range(<<"Health", "ScaleUp", "ScaleDown">>) = NG!Sections
  BY DEF NG!Sections, Range
<1>3. shown \in Seq(NG!Sections) /\ Range(shown) = kept
  <2> DEFINE all == <<"Health", "ScaleUp", "ScaleDown">>
  <2>1. all \in Seq(NG!Sections) /\ Range(all) = NG!Sections
    BY <1>2
  <2> HIDE DEF all, kept
  <2>2. Kept(all, kept) \in Seq(NG!Sections) /\ Range(Kept(all, kept)) = {x \in Range(all) : x \in kept}
    BY <2>1, KeptIs
  <2>3. {x \in NG!Sections : x \in kept} = kept
    BY DEF kept
  <2>4. QED
    BY <2>1, <2>2, <2>3, Zenon DEF all
<1> HIDE DEF shown
<1>4. PICK n \in Nat : n = Len(shown) /\ DOMAIN shown = 1..n
  BY <1>3
<1>5. \A i \in 1..n : shown[i] \in kept
  BY <1>3, <1>4 DEF Range
<1>6. \A l \in kept : \E i \in 1..n : shown[i] = l
  BY <1>3, <1>4 DEF Range
<1>7. probe \in S /\ \A l \in NG!Sections : told(l) \in S
  BY DEF NG!Line, Inner
<1>8. \A i \in 1..n : seqs[i] = <<told(shown[i]), probe>>
  BY <1>4
<1>9. Len(seqs) = n /\ (n = 0 => seqs = <<>>)
  BY <1>4
<1> HIDE DEF probe, S, seqs, told
<1>10. \A i \in 1..n : seqs[i] \in Seq(S) /\ Range(seqs[i]) = {told(shown[i]), probe}
  <2>1. TAKE i \in 1..n
  <2>2. told(shown[i]) \in S /\ probe \in S
    BY <1>5, <1>7
  <2>3. \A x, y \in S : <<x, y>> \in Seq(S) /\ Range(<<x, y>>) = {x, y}
    BY DEF Range
  <2>4. QED
    BY <1>8, <2>2, <2>3, ZenonT(60)
<1> DEFINE ls == FlattenSeq(seqs)
<1>11. /\ ls \in Seq(S)
       /\ \A x : x \in Range(ls) <=> \E i \in 1..n : x \in Range(seqs[i])
  BY <1>9, <1>10, FlattenIs, Zenon
<1> HIDE DEF ls
<1>12. PICK m \in Nat : m = Len(ls) /\ DOMAIN ls = 1..m
  BY <1>11
<1>13. probe.label = "LastProbeTime" /\ \A l : told(l).label = l /\ told(l).value = g[l]
  BY DEF probe, told, NG!Line
<1>14. "LastProbeTime" \notin NG!Sections
  BY DEF NG!Sections
<1>15. ASSUME NEW l \in NG!Sections, NEW k \in 1..m, ls[k].label = l
       PROVE  ls[k].value = g[l] /\ g[l] # None
  <2>1. ls[k] \in Range(ls)
    BY <1>12 DEF Range
  <2>2. PICK i \in 1..n : ls[k] \in {told(shown[i]), probe}
    BY <1>10, <1>11, <2>1, ZenonT(60)
  <2>3. ls[k] = told(shown[i])
    BY <1>13, <1>14, <1>15, <2>2
  <2>4. shown[i] = l
    BY <1>13, <1>15, <2>3
  <2>5. QED
    BY <1>5, <1>13, <2>3, <2>4
<1>16. ASSUME NEW l \in NG!Sections, g[l] # None PROVE \E k \in 1..m : ls[k].label = l
  <2>1. PICK i \in 1..n : shown[i] = l
    BY <1>6, <1>16
  <2>2. told(l) \in Range(ls)
    BY <1>10, <1>11, <2>1, Zenon
  <2>3. PICK k \in 1..m : ls[k] = told(l)
    BY <1>12, <2>2 DEF Range
  <2>4. QED
    BY <1>13, <2>3
<1>17. QED
  BY <1>1, <1>11, <1>12, <1>15, <1>16 DEF Says, S, ls

-----------------------------------------------------------------------------
(* What the code reads of such lines. *)

(* A set of integers up to j that is not empty has a greatest.              *)
LEMMA Greatest ==
  ASSUME NEW j \in Int, NEW T \in SUBSET {k \in Int : k <= j}, T # {}
  PROVE  \E m \in T : \A k \in T : k <= m
<1> DEFINE D == {j - k : k \in T}
<1>1. D \in SUBSET Nat /\ D # {}
  OBVIOUS
<1>2. PICK d \in D : \A e \in D : d <= e
  BY <1>1, SmallestElement, Zenon
<1>3. PICK m \in T : d = j - m
  OBVIOUS
<1>4. ASSUME NEW k \in T PROVE k <= m
  <2>1. j - k \in D /\ k \in Int /\ m \in Int
    OBVIOUS
  <2>2. d <= j - k
    BY <1>2, <2>1
  <2>3. QED
    BY <1>3, <2>1, <2>2
<1>5. QED
  BY <1>4

(* The fields of lines that say g are g's.                                  *)
LEMMA FieldsAre ==
  ASSUME NEW lines, NEW i \in Int, NEW j \in Int, NEW g, Over(g), Says(lines, i, j, g)
  PROVE  NG!Fields(lines, i, j) = g
<1> DEFINE at(l) == {k \in i..j : lines[k].label = l}
           field(l) == IF at(l) = {} THEN None
                       ELSE lines[CHOOSE k \in at(l) : \A m \in at(l) : m <= k].value
<1>1. ASSUME NEW l \in NG!Sections PROVE field(l) = g[l]
  <2>1. CASE at(l) = {}
    <3>1. g[l] = None
      BY <2>1 DEF Says
    <3>2. QED
      BY <2>1, <3>1
  <2>2. CASE at(l) # {}
    <3>1. at(l) \in SUBSET {k \in Int : k <= j}
      OBVIOUS
    <3>2. \E k \in at(l) : \A m \in at(l) : m <= k
      <4> HIDE DEF at
      <4>1. QED
        BY <2>2, <3>1, Greatest, Zenon
    <3>3. PICK c : c = CHOOSE k \in at(l) : \A m \in at(l) : m <= k
      OBVIOUS
    <3>4. c \in at(l)
      <4> HIDE DEF at
      <4>1. QED
        BY <3>2, <3>3
    <3>5. lines[c].value = g[l]
      BY <3>4 DEF Says
    <3>6. field(l) = lines[c].value
      BY <2>2, <3>3
    <3>7. QED
      BY <3>5, <3>6
  <2>3. QED
    BY <2>1, <2>2
<1>2. NG!Fields(lines, i, j) = [l \in NG!Sections |-> field(l)]
  BY DEF NG!Fields
<1> HIDE DEF field
<1>3. QED
  BY <1>1, <1>2 DEF Over

LEMMA HeadingIs ==
  ASSUME NEW lines, NEW label, NEW n \in Nat, Len(lines) = n, NEW i \in 1..n,
         lines[i].label = label, \A j \in (i + 1)..n : lines[j].label # label
  PROVE  NG!Heading(lines, label) = i
<1> DEFINE Latest(h) == /\ h # 0 => lines[h].label = label
                      /\ \A j \in (h + 1)..n : lines[j].label # label
<1>1. i \in 0..n /\ Latest(i)
  OBVIOUS
<1>2. \A h \in 0..n : Latest(h) => h = i
  <2>1. TAKE h \in 0..n
  <2>2. ASSUME Latest(h), h < i PROVE FALSE
    <3>1. i \in (h + 1)..n
      BY <2>2
    <3>2. QED
      BY <2>2, <3>1
  <2>3. ASSUME Latest(h), h > i PROVE FALSE
    <3>1. h \in (i + 1)..n /\ h # 0
      BY <2>3
    <3>2. QED
      BY <2>3, <3>1
  <2>4. QED
    BY <2>2, <2>3
<1>3. NG!Heading(lines, label) = CHOOSE h \in 0..n : Latest(h)
  BY DEF NG!Heading
<1> HIDE DEF Latest
<1>4. QED
  BY <1>1, <1>2, <1>3

LEMMA HeadingNone ==
  ASSUME NEW lines, NEW label, NEW n \in Nat, Len(lines) = n,
         \A j \in 1..n : lines[j].label # label
  PROVE  NG!Heading(lines, label) = 0
<1> DEFINE Latest(h) == /\ h # 0 => lines[h].label = label
                      /\ \A j \in (h + 1)..n : lines[j].label # label
<1>1. 0 \in 0..n /\ Latest(0)
  OBVIOUS
<1>2. \A h \in 0..n : Latest(h) => h = 0
  OBVIOUS
<1>3. NG!Heading(lines, label) = CHOOSE h \in 0..n : Latest(h)
  BY DEF NG!Heading
<1> HIDE DEF Latest
<1>4. QED
  BY <1>1, <1>2, <1>3

LEMMA NextIs ==
  ASSUME NEW lines, NEW n \in Nat, Len(lines) = n, NEW i \in 1..n, NEW j \in i..n,
         j # n => lines[j + 1].label = "Name",
         \A k \in (i + 1)..j : lines[k].label # "Name"
  PROVE  NG!NextName(lines, i) = j
<1> DEFINE Ends(h) == /\ h # n => lines[h + 1].label = "Name"
                      /\ \A k \in (i + 1)..h : lines[k].label # "Name"
<1>1. j \in i..n /\ Ends(j)
  OBVIOUS
<1>2. \A h \in i..n : Ends(h) => h = j
  <2>1. TAKE h \in i..n
  <2>2. ASSUME Ends(h), h < j PROVE FALSE
    <3>1. h + 1 \in (i + 1)..j /\ h # n
      BY <2>2
    <3>2. QED
      BY <2>2, <3>1
  <2>3. ASSUME Ends(h), h > j PROVE FALSE
    <3>1. j + 1 \in (i + 1)..h /\ j # n
      BY <2>3
    <3>2. QED
      BY <2>3, <3>1
  <2>4. QED
    BY <2>2, <2>3
<1>3. NG!NextName(lines, i) = CHOOSE h \in i..n : Ends(h)
  BY DEF NG!NextName
<1> HIDE DEF Ends
<1>4. QED
  BY <1>1, <1>2, <1>3

(* A group's end is after those before it.                                  *)
LEMMA EndsRise ==
  ASSUME NEW n \in Nat, NEW ends \in [0..n -> Nat], \A i \in 1..n : ends[i - 1] < ends[i]
  PROVE  \A j \in 0..n : \A i \in 0..j : ends[i] <= ends[j]
<1> DEFINE Good == {j \in 0..n : \A i \in 0..j : ends[i] <= ends[j]}
<1>1. Good \in SUBSET (0..n) /\ 0 \in Good
  OBVIOUS
<1>2. ASSUME NEW j \in 1..n, j - 1 \in Good PROVE j \in Good
  <2>1. \A i \in 0..(j - 1) : ends[i] <= ends[j - 1]
    BY <1>2
  <2>2. ends[j - 1] < ends[j] /\ ends[j - 1] \in Nat /\ ends[j] \in Nat /\ j \in 0..n
    OBVIOUS
  <2>3. \A i \in 0..j : (i \in 0..(j - 1) \/ i = j) /\ ends[i] \in Nat
    OBVIOUS
  <2>4. \A i \in 0..j : ends[i] <= ends[j]
    BY <2>1, <2>2, <2>3
  <2>5. QED
    BY <2>2, <2>4
<1> HIDE DEF Good
<1>3. Good = 0..n
  BY <1>1, <1>2, UpTo, Zenon
<1>4. QED
  BY <1>3, Zenon DEF Good

(* Which lines are names.                                                   *)
LEMMA NamesLaid ==
  ASSUME NEW S, NEW lines \in Seq(S), NEW w, NEW groups, NEW n \in Nat, NEW b \in Nat,
         NEW ends \in [0..n -> Nat], Laid(lines, w, groups, n, b, ends)
  PROVE  /\ \A i \in 1..n : ends[i - 1] + 1 \in (b + 3)..ends[n]
         /\ \A p \in (b + 3)..ends[n] :
              \/ lines[p].label \in Inner
              \/ lines[p].label = "Name" /\ \E i \in 1..n : p = ends[i - 1] + 1
         /\ b + 2 <= ends[n]
<1> DEFINE Group(i) == GroupLaid(lines, ends[i - 1], ends[i], groups[i])
<1>laid. \A i \in 1..n : Group(i)
  BY DEF Laid
<1>rise. \A i \in 1..n : ends[i - 1] < ends[i]
  BY <1>laid, Zenon DEF GroupLaid
<1>1. \A j \in 0..n : \A i \in 0..j : ends[i] <= ends[j]
  BY <1>rise, EndsRise, Zenon
<1>2. ends[0] = b + 2 /\ \A i \in 0..n : ends[i] \in Nat
  BY DEF Laid
<1>3. ASSUME NEW i \in 1..n PROVE ends[i - 1] + 1 \in (b + 3)..ends[n]
  <2>1. i - 1 \in 0..n /\ i \in 0..n /\ n \in 0..n /\ 0 \in 0..(i - 1) /\ i \in 0..n
    OBVIOUS
  <2>2. ends[0] <= ends[i - 1] /\ ends[i] <= ends[n]
    BY <1>1, <2>1
  <2>3. ends[i - 1] < ends[i]
    BY <1>rise
  <2>4. QED
    BY <1>2, <2>1, <2>2, <2>3
<1>4. ASSUME NEW p \in (b + 3)..ends[n]
      PROVE  \/ lines[p].label \in Inner
             \/ lines[p].label = "Name" /\ \E i \in 1..n : p = ends[i - 1] + 1
  <2>1. PICK i \in 1..n : p \in (ends[i - 1] + 1)..ends[i]
    BY DEF Laid
  <2>laid. Group(i)
    BY <1>laid
  <2>2. CASE p = ends[i - 1] + 1
    <3>1. lines[p].label = "Name"
      BY <2>2, <2>laid DEF GroupLaid
    <3>2. QED
      BY <2>2, <3>1
  <2>3. CASE p # ends[i - 1] + 1
    <3>1. i - 1 \in 0..n /\ i \in 0..n
      OBVIOUS
    <3>2. PICK e \in Nat, f \in Nat : e = ends[i - 1] /\ f = ends[i]
      BY <1>2, <3>1, Zenon
    <3>3. p \in (e + 2)..f
      <4>1. p \in (e + 1)..f /\ p # e + 1
        BY <2>1, <2>3, <3>2
      <4>2. QED
        BY <4>1
    <3>4. lines[p].label \in Inner
      BY <2>laid, <3>2, <3>3 DEF GroupLaid
    <3>5. QED
      BY <3>4
  <2>4. QED
    BY <2>2, <2>3
<1>5. ends[0] <= ends[n]
  BY <1>1
<1>6. QED
  BY <1>2, <1>3, <1>4, <1>5

(* The names of such lines, in their order.                                 *)
NamesAfter(lines, b) ==
  Kept([k \in DOMAIN lines |-> k], {k \in DOMAIN lines : k > b + 2 /\ lines[k].label = "Name"})

LEMMA NamesListed ==
  ASSUME NEW S, NEW lines \in Seq(S), NEW w, NEW groups, NEW n \in Nat, NEW b \in Nat,
         NEW ends \in [0..n -> Nat], Laid(lines, w, groups, n, b, ends)
  PROVE  NamesAfter(lines, b) = [i \in 1..n |-> ends[i - 1] + 1]
<1> DEFINE m == ends[n]
           ids == [k \in 1..m |-> k]
           x == [i \in 1..n |-> ends[i - 1] + 1]
           A == [i \in 1..n |-> {x[i]}]
           named == {k \in 1..m : k > b + 2 /\ lines[k].label = "Name"}
<1>1. m \in Nat /\ DOMAIN lines = 1..m
  BY DEF Laid
<1>named. /\ \A i \in 1..n : ends[i - 1] + 1 \in (b + 3)..m
          /\ \A p \in (b + 3)..m :
               \/ lines[p].label \in Inner
               \/ lines[p].label = "Name" /\ \E i \in 1..n : p = ends[i - 1] + 1
          /\ b + 2 <= m
  BY NamesLaid, Zenon
<1>2. /\ \A i \in 1..n : x[i] \in (b + 3)..m
      /\ \A p \in (b + 3)..m : lines[p].label \in Inner \/ \E i \in 1..n : p = x[i]
  BY <1>named, Zenon
<1>laid. \A i \in 1..n : GroupLaid(lines, ends[i - 1], ends[i], groups[i])
  BY Zenon DEF Laid
<1>rise. \A i \in 1..n : ends[i - 1] < ends[i]
  BY <1>laid, Zenon DEF GroupLaid
<1>3. ASSUME NEW i \in 1..n PROVE lines[x[i]].label = "Name"
  <2>1. GroupLaid(lines, ends[i - 1], ends[i], groups[i]) /\ x[i] = ends[i - 1] + 1
    BY <1>laid
  <2>2. lines[ends[i - 1] + 1].label = "Name"
    BY <2>1 DEF GroupLaid
  <2>3. QED
    BY <2>1, <2>2
<1>4. "Name" \notin Inner
  BY DEF Inner, NG!Sections
<1>5. \A h, k \in 1..n : h < k => x[h] < x[k]
  <2>1. TAKE h, k \in 1..n
  <2>2. HAVE h < k
  <2>3. h \in 1..n /\ h - 1 \in 0..n /\ h \in 0..n /\ k - 1 \in 0..n /\ h \in 0..(k - 1)
    BY <2>2
  <2>4. ends[h - 1] < ends[h] /\ ends[h] <= ends[k - 1]
    BY <1>rise, <2>3, EndsRise, Zenon
  <2>5. QED
    BY <2>3, <2>4
<1>6. x \in [1..n -> 1..m]
  BY <1>2
<1>7. \A i \in 1..n : x[i] \in 1..m /\ A[i] = {x[i]}
  BY <1>6
<1>8. ids \in Seq(Nat) /\ DOMAIN ids = 1..m /\ \A k \in 1..m : ids[k] = k
  BY <1>1
<1> HIDE DEF m, ids, x, A
<1>9. OfAny(A, n) = named
  <2>1. ASSUME NEW k \in OfAny(A, n) PROVE k \in named
    <3>1. PICK i \in 1..n : k = x[i]
      BY <1>7, <2>1 DEF OfAny
    <3>2. QED
      BY <1>2, <1>3, <1>7, <3>1
  <2>2. ASSUME NEW k \in named PROVE k \in OfAny(A, n)
    <3>1. k \in (b + 3)..m
      BY <1>1
    <3>2. PICK i \in 1..n : k = x[i]
      BY <1>2, <1>4, <3>1
    <3>3. QED
      BY <1>7, <3>2, Zenon DEF OfAny
  <2>3. QED
    BY <2>1, <2>2
<1>10. InTurn(ids, A, n)
  <2>1. \A h \in 1..n : \A i \in 1..m : ids[i] \in A[h] => i = x[h]
    BY <1>7, <1>8
  <2>2. ASSUME NEW h \in 1..n, NEW k \in 1..n, NEW i \in 1..m, NEW j \in 1..m,
               h < k, ids[i] \in A[h], ids[j] \in A[k]
        PROVE  i < j
    <3>1. i = x[h] /\ j = x[k]
      BY <2>1, <2>2
    <3>2. QED
      BY <1>5, <2>2, <3>1
  <2>3. QED
    BY <1>8, <2>2, Zenon DEF InTurn
<1>11. FlattenSeq(KeptBySet(ids, A, n)) = Kept(ids, OfAny(A, n))
  BY <1>8, <1>10, KeptInTurn
<1>12. KeptBySet(ids, A, n) = [i \in 1..n |-> <<x[i]>>]
  <2>1. ASSUME NEW i \in 1..n PROVE Kept(ids, A[i]) = <<x[i]>>
    BY <1>1, <1>7, OneKept, Zenon DEF ids
  <2>2. QED
    BY <2>1 DEF KeptBySet
<1>13. FlattenSeq([i \in 1..n |-> <<x[i]>>]) = [i \in 1..n |-> x[i]]
  BY <1>6, FlattenSingles, ZenonT(60)
<1>14. Kept(ids, named) = x
  BY <1>6, <1>9, <1>11, <1>12, <1>13
<1>15. QED
  BY <1>1, <1>14, Zenon DEF ids, x, NamesAfter

(* What the code makes of the lines of a status is the status.              *)
LEMMA LaidParsed ==
  ASSUME NEW S, NEW lines \in Seq(S), NEW w, NEW groups, NEW n \in Nat, NEW b \in Nat,
         NEW ends \in [0..n -> Nat], Laid(lines, w, groups, n, b, ends), Over(w),
         groups = [i \in 1..n |-> groups[i]],
         \A i \in 1..n : /\ groups[i] = [name |-> groups[i].name, has |-> groups[i].has]
                         /\ Over(groups[i].has)
  PROVE  NG!LegacyWide(lines) = w /\ NG!LegacyGroups(lines) = groups
<1> DEFINE m == ends[n]
<1>1. m \in Nat /\ DOMAIN lines = 1..m /\ Len(lines) = m
  BY DEF Laid
<1>named. /\ \A i \in 1..n : ends[i - 1] + 1 \in (b + 3)..m
          /\ \A p \in (b + 3)..m :
               \/ lines[p].label \in Inner
               \/ lines[p].label = "Name" /\ \E i \in 1..n : p = ends[i - 1] + 1
          /\ b + 2 <= m
  BY NamesLaid, Zenon
<1>2. /\ \A i \in 1..n : ends[i - 1] + 1 \in (b + 3)..m
      /\ \A p \in (b + 3)..m : lines[p].label \in Inner \cup {"Name"}
      /\ b + 2 <= m
  BY <1>named
<1>laid. \A i \in 1..n : GroupLaid(lines, ends[i - 1], ends[i], groups[i])
  BY DEF Laid
<1>rise. \A i \in 1..n : ends[i - 1] < ends[i]
  BY <1>laid, Zenon DEF GroupLaid
<1>3. /\ lines[1].label = "Cluster-wide:" /\ lines[b + 2].label = "NodeGroups:"
      /\ \A p \in 2..(b + 1) : lines[p].label \in Inner
  BY DEF Laid
<1>4. {"Cluster-wide:", "NodeGroups:", "Name"} \cap Inner = {}
  BY DEF Inner, NG!Sections
<1> HIDE DEF m
<1>5. NG!Heading(lines, "Cluster-wide:") = 1
  <2>1. 1 \in 1..m
    BY <1>1, <1>2
  <2>2. ASSUME NEW j \in 2..m PROVE lines[j].label # "Cluster-wide:"
    <3>1. j \in 2..(b + 1) \/ j = b + 2 \/ j \in (b + 3)..m
      BY <1>1
    <3>2. QED
      BY <1>2, <1>3, <1>4, <3>1, Zenon
  <2>3. \A j \in (1 + 1)..m : lines[j].label # "Cluster-wide:"
    BY <2>2
  <2>4. QED
    BY <1>1, <1>3, <2>1, <2>3, HeadingIs, SMTT(30)
<1>6. NG!Heading(lines, "NodeGroups:") = b + 2
  <2>1. b + 2 \in 1..m
    BY <1>1, <1>2
  <2>2. \A j \in ((b + 2) + 1)..m : lines[j].label # "NodeGroups:"
    <3>1. TAKE j \in ((b + 2) + 1)..m
    <3>2. j \in (b + 3)..m
      BY <1>1
    <3>3. QED
      BY <1>2, <1>4, <3>2, Zenon
  <2>3. QED
    BY <1>1, <1>3, <2>1, <2>2, HeadingIs, SMTT(30)
<1>7. NG!LegacyWide(lines) = w
  <2>1. Says(lines, 2, b + 1, w)
    BY DEF Laid
  <2>2. \A k \in 1..(b + 1) : k = 1 \/ k \in 2..(b + 1)
    OBVIOUS
  <2>3. \A k \in 2..(b + 1) : k \in 1..(b + 1)
    OBVIOUS
  <2>4. NG!Sections \subseteq Inner
    BY DEF Inner
  <2>5. Says(lines, 1, b + 1, w)
    BY <1>3, <1>4, <2>1, <2>2, <2>3, <2>4, Zenon DEF Says
  <2>6. NG!Fields(lines, 1, b + 1) = w
    BY <2>5, FieldsAre
  <2>7. NG!LegacyWide(lines) = NG!Fields(lines, 1, b + 2 - 1)
    BY <1>5, <1>6 DEF NG!LegacyWide
  <2>8. b + 2 - 1 = b + 1
    OBVIOUS
  <2>9. QED
    BY <2>6, <2>7, <2>8
<1> DEFINE names == [i \in 1..n |-> ends[i - 1] + 1]
           start == b + 2
           row(k) == [name |-> lines[names[k]].value,
                      has |-> NG!Fields(lines, names[k], NG!NextName(lines, names[k]))]
<1>8. NG!LegacyGroups(lines) = [k \in 1..n |-> row(k)]
  <2>1. start # 0 /\ \A k \in DOMAIN lines : k > start <=> start # 0 /\ k > start
    OBVIOUS
  <2>2. {k \in DOMAIN lines : start # 0 /\ k > start /\ lines[k].label = "Name"}
          = {k \in DOMAIN lines : k > start /\ lines[k].label = "Name"}
    BY <2>1
  <2>listed. NamesAfter(lines, b) = names
    BY NamesListed
  <2>3. Kept([k \in DOMAIN lines |-> k],
             {k \in DOMAIN lines : start # 0 /\ k > start /\ lines[k].label = "Name"}) = names
    BY <2>2, <2>listed, Zenon DEF NamesAfter, start
  <2>4. NG!Kept([k \in DOMAIN lines |-> k],
                {k \in DOMAIN lines : start # 0 /\ k > start /\ lines[k].label = "Name"}) = names
    BY <2>3, ListsSame, Zenon
  <2>5. DOMAIN names = 1..n
    OBVIOUS
  <2> HIDE DEF names, start
  <2>6. NG!Heading(lines, "NodeGroups:") = start
    BY <1>6 DEF start
  <2>7. QED
    BY <2>4, <2>5, <2>6, Zenon DEF NG!LegacyGroups, NG!GroupLines
<1>9. ASSUME NEW i \in 1..n PROVE row(i) = groups[i]
  <2>1. names[i] = ends[i - 1] + 1 /\ i \in 0..n /\ i - 1 \in 0..n
    OBVIOUS
  <2>2. lines[names[i]] = [label |-> "Name", value |-> groups[i].name]
    BY <1>laid, <2>1 DEF GroupLaid
  <2>3. /\ \A p \in (ends[i - 1] + 2)..ends[i] : lines[p].label \in Inner
        /\ Says(lines, ends[i - 1] + 2, ends[i], groups[i].has)
        /\ ends[i - 1] < ends[i]
    BY <1>laid, Zenon DEF GroupLaid
  <2>4. PICK e \in Nat, f \in Nat : e = ends[i - 1] /\ f = ends[i]
    BY <2>1
  <2>5. e + 1 \in 1..m /\ f \in (e + 1)..m
    <3>0. n \in 0..n /\ i \in 0..n
      OBVIOUS
    <3>1. ends[i] <= ends[n]
      BY <1>rise, <3>0, EndsRise, Zenon
    <3>2. QED
      BY <1>1, <2>3, <2>4, <3>1 DEF m
  <2>6. f # m => lines[f + 1].label = "Name"
    <3>1. HAVE f # m
    <3>2. i + 1 \in 1..n /\ (i + 1) - 1 = i
      BY <2>4, <3>1 DEF m
    <3>3. GroupLaid(lines, ends[(i + 1) - 1], ends[i + 1], groups[i + 1])
      BY <1>laid, <3>2
    <3>4. lines[ends[(i + 1) - 1] + 1].label = "Name"
      BY <3>3 DEF GroupLaid
    <3>5. QED
      BY <2>4, <3>2, <3>4
  <2>7. \A k \in ((e + 1) + 1)..f : lines[k].label # "Name"
    <3>1. (e + 1) + 1 = e + 2
      OBVIOUS
    <3>2. QED
      BY <1>4, <2>3, <2>4, <3>1, Zenon
  <2>8. NG!NextName(lines, e + 1) = f
    BY <1>1, <2>5, <2>6, <2>7, NextIs, Zenon
  <2>9. Says(lines, e + 1, f, groups[i].has)
    <3>1. Says(lines, e + 2, f, groups[i].has)
      BY <2>3, <2>4
    <3>2. /\ \A k \in (e + 1)..f : k = e + 1 \/ k \in (e + 2)..f
          /\ \A k \in (e + 2)..f : k \in (e + 1)..f
      BY SMTT(30)
    <3>3. lines[e + 1].label = "Name" /\ "Name" \notin NG!Sections
      BY <1>4, <2>1, <2>2, <2>4 DEF Inner
    <3>4. QED
      BY <3>1, <3>2, <3>3 DEF Says
  <2>10. NG!Fields(lines, e + 1, f) = groups[i].has
    BY <2>9, FieldsAre
  <2>11. row(i) = [name |-> groups[i].name, has |-> groups[i].has]
    BY <2>1, <2>2, <2>4, <2>8, <2>10
  <2>12. QED
    BY <2>11, Zenon
<1> HIDE DEF row
<1>10. QED
  BY <1>7, <1>8, <1>9

-----------------------------------------------------------------------------
(* What the autoscaler writes. *)

(* Lines say the same where they stand in others.                           *)
LEMMA SaysMoved ==
  ASSUME NEW ls, NEW m \in Nat, NEW g, Says(ls, 1, m, g), NEW lines, NEW e \in Nat,
         \A k \in 1..m : lines[e + k] = ls[k]
  PROVE  Says(lines, e + 1, e + m, g)
<1>1. ASSUME NEW k \in (e + 1)..(e + m) PROVE k - e \in 1..m /\ lines[k] = ls[k - e]
  <2>1. k - e \in 1..m /\ e + (k - e) = k
    OBVIOUS
  <2>2. lines[e + (k - e)] = ls[k - e]
    BY <2>1
  <2>3. QED
    BY <2>1, <2>2
<1>2. ASSUME NEW l \in NG!Sections, g[l] # None
      PROVE  \E k \in (e + 1)..(e + m) : lines[k].label = l
  <2>1. PICK k \in 1..m : ls[k].label = l
    BY <1>2 DEF Says
  <2>2. e + k \in (e + 1)..(e + m) /\ lines[e + k].label = l
    BY <2>1
  <2>3. QED
    BY <2>2
<1>3. \A l \in NG!Sections, k \in (e + 1)..(e + m) :
        lines[k].label = l => lines[k].value = g[l] /\ g[l] # None
  BY <1>1 DEF Says
<1>4. QED
  BY <1>2, <1>3 DEF Says

(* A line, a list, a line and a list.                                       *)
LEMMA JoinedFour ==
  ASSUME NEW S, NEW x \in S, NEW y \in S, NEW B \in Seq(S), NEW D \in Seq(S), NEW t,
         t = <<x>> \o B \o <<y>> \o D
  PROVE  /\ t \in Seq(S) /\ Len(t) = Len(B) + 2 + Len(D)
         /\ t[1] = x /\ t[Len(B) + 2] = y
         /\ \A k \in 1..Len(B) : t[1 + k] = B[k]
         /\ \A k \in 1..Len(D) : t[Len(B) + 2 + k] = D[k]
<1> DEFINE b == Len(B)
           d == Len(D)
<1>1. b \in Nat /\ d \in Nat
  OBVIOUS
<1>2. \A u, v \in Seq(S) :
        /\ u \o v \in Seq(S) /\ Len(u \o v) = Len(u) + Len(v)
        /\ \A k \in 1..Len(u) : (u \o v)[k] = u[k]
        /\ \A k \in 1..Len(v) : (u \o v)[Len(u) + k] = v[k]
  OBVIOUS
<1>3. PICK p : p = <<x>> \o B
  BY Zenon
<1>4. <<x>> \in Seq(S) /\ Len(<<x>>) = 1 /\ <<x>>[1] = x /\ <<y>> \in Seq(S) /\ Len(<<y>>) = 1 /\ <<y>>[1] = y
  OBVIOUS
<1>5. /\ p \in Seq(S) /\ Len(p) = 1 + b /\ p[1] = x
      /\ \A k \in 1..b : p[1 + k] = B[k]
  <2>1. 1 \in 1..1
    OBVIOUS
  <2>2. QED
    BY <1>2, <1>3, <1>4, <2>1
<1>6. PICK q : q = p \o <<y>>
  BY Zenon
<1>7. /\ q \in Seq(S) /\ Len(q) = b + 2 /\ q[1] = x /\ q[b + 2] = y
      /\ \A k \in 1..b : q[1 + k] = B[k]
  <2>1. /\ q \in Seq(S) /\ Len(q) = Len(p) + 1
        /\ \A k \in 1..Len(p) : q[k] = p[k]
        /\ \A k \in 1..1 : q[Len(p) + k] = <<y>>[k]
    BY <1>2, <1>4, <1>5, <1>6
  <2>2. 1 \in 1..1 /\ 1 \in 1..(1 + b) /\ \A k \in 1..b : 1 + k \in 1..(1 + b)
    BY <1>1
  <2>3. (1 + b) + 1 = b + 2
    BY <1>1
  <2>4. QED
    BY <1>4, <1>5, <2>1, <2>2, <2>3
<1>8. /\ t \in Seq(S) /\ Len(t) = Len(q) + d
      /\ \A k \in 1..Len(q) : t[k] = q[k]
      /\ \A k \in 1..d : t[Len(q) + k] = D[k]
  <2>1. t = q \o D
    BY <1>3, <1>6
  <2>2. q \in Seq(S)
    BY <1>7
  <2>3. /\ q \o D \in Seq(S) /\ Len(q \o D) = Len(q) + Len(D)
        /\ \A k \in 1..Len(q) : (q \o D)[k] = q[k]
        /\ \A k \in 1..Len(D) : (q \o D)[Len(q) + k] = D[k]
    BY <1>2, <2>2
  <2>4. QED
    BY <2>1, <2>3, Zenon
<1>9. 1 \in 1..(b + 2) /\ b + 2 \in 1..(b + 2) /\ \A k \in 1..b : 1 + k \in 1..(b + 2)
  BY <1>1
<1> HIDE DEF b, d
<1>10. /\ t \in Seq(S) /\ Len(t) = b + 2 + d
       /\ t[1] = x /\ t[b + 2] = y
       /\ \A k \in 1..b : t[1 + k] = B[k]
       /\ \A k \in 1..d : t[b + 2 + k] = D[k]
  BY <1>7, <1>8, <1>9, Zenon
<1>11. QED
  BY <1>10 DEF b, d

Lines(V) == [label : Inner \cup {"Cluster-wide:", "NodeGroups:", "Name"}, value : V]

GroupText(group) == <<NG!Line("Name", group.name)>> \o NG!SectionLines(group.has)

(* The lines of a group, wherever they stand.                               *)
LEMMA GroupTold ==
  ASSUME NEW V, NEW group, None \in V, group.name \in V, \A l \in NG!Sections : group.has[l] \in V
  PROVE  /\ GroupText(group) \in Seq(Lines(V))
         /\ \A lines : \A e \in Nat :
              (\A k \in 1..Len(GroupText(group)) : lines[e + k] = GroupText(group)[k]) =>
                GroupLaid(lines, e, e + Len(GroupText(group)), group)
<1> DEFINE name == NG!Line("Name", group.name)
           own == NG!SectionLines(group.has)
           ls == <<name>> \o own
           S == Lines(V)
<1>1. own \in Seq([label : Inner, value : V]) /\ Says(own, 1, Len(own), group.has)
  BY SectionsSaid
<1>2. [label : Inner, value : V] \subseteq S
  BY DEF Lines
<1>3. own \in Seq(S)
  <2>1. \A T, U : T \subseteq U => Seq(T) \subseteq Seq(U)
    OBVIOUS
  <2> HIDE DEF own, S
  <2>2. QED
    BY <1>1, <1>2, <2>1, Zenon
<1>4. name \in S /\ name = [label |-> "Name", value |-> group.name]
  BY DEF NG!Line, Lines
<1> HIDE DEF own, name, S
<1>5. PICK m \in Nat : m = Len(own)
  BY <1>3
<1>6. /\ ls \in Seq(S) /\ Len(ls) = m + 1 /\ ls[1] = name
      /\ \A k \in 1..m : ls[1 + k] = own[k]
  BY <1>3, <1>4, <1>5
<1> HIDE DEF ls
<1>7. \A k \in 1..m : own[k].label \in Inner
  <2> DEFINE T == [label : Inner, value : V]
  <2>1. \A x \in T : x.label \in Inner
    OBVIOUS
  <2> HIDE DEF T
  <2>2. own \in Seq(T)
    BY <1>1 DEF T
  <2>3. \A k \in 1..m : own[k] \in T
    BY <1>5, <2>2
  <2>4. QED
    BY <2>1, <2>3
<1>8. ASSUME NEW lines, NEW e \in Nat, \A k \in 1..Len(ls) : lines[e + k] = ls[k]
      PROVE  GroupLaid(lines, e, e + Len(ls), group)
  <2>1. \A k \in 1..(m + 1) : lines[e + k] = ls[k]
    BY <1>6, <1>8
  <2>2. \A k \in 1..m : lines[(e + 1) + k] = own[k]
    <3>1. TAKE k \in 1..m
    <3>2. 1 + k \in 1..(m + 1) /\ e + (1 + k) = (e + 1) + k
      OBVIOUS
    <3>3. lines[e + (1 + k)] = ls[1 + k]
      BY <2>1, <3>2
    <3>4. QED
      BY <1>6, <3>2, <3>3
  <2>3. Says(lines, (e + 1) + 1, (e + 1) + m, group.has)
    <3>1. e + 1 \in Nat
      OBVIOUS
    <3>2. QED
      BY <1>1, <1>5, <2>2, <3>1, SaysMoved, Zenon
  <2>4. ASSUME NEW p \in (e + 2)..(e + (m + 1)) PROVE lines[p].label \in Inner
    <3>1. p - (e + 1) \in 1..m /\ (e + 1) + (p - (e + 1)) = p
      OBVIOUS
    <3>2. lines[(e + 1) + (p - (e + 1))] = own[p - (e + 1)]
      BY <2>2, <3>1
    <3>3. QED
      BY <1>7, <3>1, <3>2
  <2>5. lines[e + 1] = name
    <3>1. 1 \in 1..(m + 1)
      OBVIOUS
    <3>2. QED
      BY <1>6, <2>1, <3>1
  <2>6. (e + 1) + 1 = e + 2 /\ (e + 1) + m = e + (m + 1) /\ e < e + (m + 1)
    OBVIOUS
  <2>7. QED
    BY <1>4, <1>6, <2>3, <2>4, <2>5, <2>6 DEF GroupLaid
<1>9. GroupText(group) = ls
  BY Zenon DEF GroupText, ls, own, name
<1>10. \A lines : \A e \in Nat :
         (\A k \in 1..Len(ls) : lines[e + k] = ls[k]) => GroupLaid(lines, e, e + Len(ls), group)
  BY <1>8, Zenon
<1>11. QED
  BY <1>6, <1>9, <1>10, Zenon DEF S

(* A status with something in it. *)
Filled(s) ==
  /\ s.wide # None /\ Over(s.wide) /\ s.wide["Health"] # None
  /\ Len(s.groups) \in Nat /\ s.groups = [i \in 1..Len(s.groups) |-> s.groups[i]]
  /\ \A i \in 1..Len(s.groups) :
       /\ s.groups[i] = [name |-> s.groups[i].name, has |-> s.groups[i].has]
       /\ Over(s.groups[i].has)

(* The text of a status is laid out as its sections and groups are.         *)
LEMMA TextLaid ==
  ASSUME NEW s, Filled(s)
  PROVE  \E S : /\ NG!Text(s) \in Seq(S)
                /\ \E b \in Nat : \E ends \in [0..Len(s.groups) -> Nat] :
                     Laid(NG!Text(s), s.wide, s.groups, Len(s.groups), b, ends)
<1> DEFINE w == s.wide
           groups == s.groups
           n == Len(groups)
           V == {None} \cup {w[l] : l \in NG!Sections} \cup {groups[i].name : i \in 1..n}
                \cup UNION {{groups[i].has[l] : l \in NG!Sections} : i \in 1..n}
           S == Lines(V)
           x == NG!Line("Cluster-wide:", None)
           y == NG!Line("NodeGroups:", None)
           B == NG!SectionLines(w)
           seqs == [i \in 1..n |-> GroupText(groups[i])]
           D == FlattenSeq(seqs)
           lines == NG!Text(s)
<1>1. lines = <<x>> \o B \o <<y>> \o D
  <2>1. DOMAIN groups = 1..n /\ w # None
    BY DEF Filled
  <2>2. seqs = [i \in DOMAIN groups |-> <<NG!Line("Name", groups[i].name)>> \o NG!SectionLines(groups[i].has)]
    BY <2>1, Zenon DEF GroupText
  <2>3. QED
    BY <2>1, <2>2, ListsSame, Zenon DEF NG!Text
<1>2. n \in Nat /\ Over(w)
  BY DEF Filled
<1>3. /\ None \in V /\ \A l \in NG!Sections : w[l] \in V
      /\ \A i \in 1..n : groups[i].name \in V /\ \A l \in NG!Sections : groups[i].has[l] \in V
  OBVIOUS
<1> HIDE DEF V
<1>4. x \in S /\ y \in S /\ x.label = "Cluster-wide:" /\ y.label = "NodeGroups:"
  BY <1>3 DEF NG!Line, Lines
<1>5. B \in Seq([label : Inner, value : V]) /\ Says(B, 1, Len(B), w)
  BY <1>3, SectionsSaid
<1>6. B \in Seq(S) /\ \A k \in 1..Len(B) : B[k].label \in Inner
  <2> DEFINE T == [label : Inner, value : V]
  <2>1. T \subseteq S /\ \A z \in T : z.label \in Inner
    BY DEF Lines
  <2> HIDE DEF T, S
  <2>2. B \in Seq(T)
    BY <1>5 DEF T
  <2>3. QED
    BY <2>1, <2>2
<1>7. \A i \in 1..n :
        /\ seqs[i] = GroupText(groups[i]) /\ seqs[i] \in Seq(S)
        /\ \A ls : \A e \in Nat :
             (\A k \in 1..Len(seqs[i]) : ls[e + k] = seqs[i][k]) =>
               GroupLaid(ls, e, e + Len(seqs[i]), groups[i])
  <2>1. TAKE i \in 1..n
  <2>2. seqs[i] = GroupText(groups[i])
    OBVIOUS
  <2> HIDE DEF seqs, groups, n
  <2>3. QED
    BY <1>3, <2>2, GroupTold, Zenon
<1>8. Len(seqs) = n /\ (n = 0 => seqs = <<>>)
  BY <1>2
<1> HIDE DEF seqs, S, B, x, y, w, groups, n, lines
<1>9. PICK off \in [0..n -> Nat] :
        /\ off[0] = 0 /\ \A i \in 1..n : off[i] = off[i - 1] + Len(seqs[i])
        /\ Places(off, seqs, n, D)
  BY <1>2, <1>7, <1>8, FlattenPlaces, Zenon
<1>10. D \in Seq(S)
  BY <1>2, <1>7, <1>8, FlattenIs, Zenon
<1> HIDE DEF D
<1>11. PICK b \in Nat : b = Len(B)
  BY <1>6
<1> DEFINE ends == [i \in 0..n |-> b + 2 + off[i]]
<1>12. /\ lines \in Seq(S) /\ Len(lines) = b + 2 + Len(D)
       /\ lines[1] = x /\ lines[b + 2] = y
       /\ \A k \in 1..b : lines[1 + k] = B[k]
       /\ \A k \in 1..Len(D) : lines[b + 2 + k] = D[k]
  BY <1>1, <1>4, <1>6, <1>10, <1>11, JoinedFour
<1>13. /\ ends \in [0..n -> Nat] /\ \A i \in 0..n : ends[i] = b + 2 + off[i] /\ off[i] \in Nat
  OBVIOUS
<1> HIDE DEF ends
<1>14. Len(D) = off[n]
  BY <1>9 DEF Places
<1>15. ends[0] = b + 2 /\ Len(lines) = ends[n]
  BY <1>2, <1>9, <1>12, <1>13, <1>14, SMTT(30)
<1>16. ASSUME NEW p \in 2..(b + 1) PROVE lines[p].label \in Inner
  <2>1. p - 1 \in 1..b /\ 1 + (p - 1) = p
    OBVIOUS
  <2>2. lines[1 + (p - 1)] = B[p - 1]
    BY <1>12, <2>1
  <2>3. QED
    BY <1>6, <1>11, <2>1, <2>2
<1>17. Says(lines, 2, b + 1, w)
  <2>1. Says(lines, 1 + 1, 1 + b, w)
    BY <1>5, <1>11, <1>12, SaysMoved, Zenon
  <2>2. 1 + 1 = 2 /\ 1 + b = b + 1
    OBVIOUS
  <2>3. QED
    BY <2>1, <2>2
<1>18. ASSUME NEW i \in 1..n
       PROVE  /\ ends[i - 1] \in Nat /\ Len(seqs[i]) \in Nat /\ ends[i] = ends[i - 1] + Len(seqs[i])
              /\ off[i - 1] \in Nat /\ ends[i - 1] = b + 2 + off[i - 1]
  <2>1. i - 1 \in 0..n /\ i \in 0..n
    BY <1>2
  <2>2. Len(seqs[i]) \in Nat
    BY <1>7
  <2>3. off[i] = off[i - 1] + Len(seqs[i])
    BY <1>9
  <2>4. QED
    BY <1>13, <2>1, <2>2, <2>3, SMTT(30)
<1>19. ASSUME NEW i \in 1..n PROVE GroupLaid(lines, ends[i - 1], ends[i], groups[i])
  <2>1. ASSUME NEW k \in 1..Len(seqs[i]) PROVE lines[ends[i - 1] + k] = seqs[i][k]
    <3>1. off[i - 1] + k \in 1..off[n] /\ D[off[i - 1] + k] = seqs[i][k]
      BY <1>9 DEF Places
    <3>2. lines[b + 2 + (off[i - 1] + k)] = D[off[i - 1] + k]
      BY <1>12, <1>14, <3>1, Zenon
    <3>3. b + 2 + (off[i - 1] + k) = ends[i - 1] + k
      BY <1>18
    <3>4. QED
      BY <3>1, <3>2, <3>3
  <2>2. GroupLaid(lines, ends[i - 1], ends[i - 1] + Len(seqs[i]), groups[i])
    BY <1>7, <1>18, <2>1, Zenon
  <2>3. QED
    BY <1>18, <2>2
<1>20. ASSUME NEW p \in (b + 3)..ends[n]
       PROVE  \E i \in 1..n : p \in (ends[i - 1] + 1)..ends[i]
  <2>1. p - (b + 2) \in 1..off[n]
    BY <1>2, <1>13
  <2>2. PICK i \in 1..n : \E k \in 1..Len(seqs[i]) : p - (b + 2) = off[i - 1] + k
    BY <1>9, <2>1, Zenon DEF Places
  <2>3. PICK k \in 1..Len(seqs[i]) : p - (b + 2) = off[i - 1] + k
    BY <2>2
  <2>4. p = ends[i - 1] + k
    <3>1. PICK o \in Nat, e \in Nat : o = off[i - 1] /\ e = ends[i - 1] /\ e = b + 2 + o
      BY <1>18, Zenon
    <3>2. p \in Int /\ k \in Int /\ p - (b + 2) = o + k
      BY <2>3, <3>1
    <3>3. p = e + k
      <4>1. \A x1, x2 \in Int : \A x3 \in Nat : x1 - (b + 2) = x3 + x2 => x1 = (b + 2 + x3) + x2
        OBVIOUS
      <4>2. p = (b + 2 + o) + k
        BY <3>1, <3>2, <4>1, Zenon
      <4>3. QED
        BY <3>1, <4>2, Zenon
    <3>4. QED
      BY <3>1, <3>3
  <2>5. p \in (ends[i - 1] + 1)..ends[i]
    BY <1>18, <2>4
  <2>6. QED
    BY <2>5
<1>21. Laid(lines, w, groups, n, b, ends)
  BY <1>4, <1>12, <1>15, <1>16, <1>17, <1>19, <1>20, ZenonT(60) DEF Laid
<1>22. QED
  BY <1>12, <1>13, <1>21 DEF lines, w, groups, n

-----------------------------------------------------------------------------
(* What is printed of a status. *)

(* A status the autoscaler writes: when it starts, or after a round.        *)
Written(s) ==
  /\ s = [wide |-> s.wide, groups |-> s.groups]
  /\ Filled(s) \/ (s.wide = None /\ s.groups = <<>>)

ToldAs(p, s) ==
  IF p.verbatim THEN s.wide = None
  ELSE /\ p.wide = (IF s.wide = None THEN NG!Unknown ELSE s.wide)
       /\ p.groups = s.groups

(* A text with neither headings nor groups tells nothing.                   *)
LEMMA NothingParsed ==
  ASSUME NEW line, line.label = "Initializing"
  PROVE  NG!LegacyWide(<<line>>) = NG!Unknown /\ NG!LegacyGroups(<<line>>) = <<>>
<1> DEFINE lines == <<line>>
<1>1. Len(lines) = 1 /\ DOMAIN lines = 1..1 /\ \A j \in 1..1 : lines[j].label = "Initializing"
  OBVIOUS
<1> HIDE DEF lines
<1>2. NG!Heading(lines, "Cluster-wide:") = 0
  <2>1. \A j \in 1..1 : lines[j].label # "Cluster-wide:"
    BY <1>1
  <2>2. QED
    BY <1>1, <2>1, HeadingNone, Zenon
<1>3. NG!Heading(lines, "NodeGroups:") = 0
  <2>1. \A j \in 1..1 : lines[j].label # "NodeGroups:"
    BY <1>1
  <2>2. QED
    BY <1>1, <2>1, HeadingNone, Zenon
<1>4. NG!LegacyWide(lines) = NG!Unknown
  BY <1>2, <1>3, Zenon DEF NG!LegacyWide
<1>5. NG!LegacyGroups(lines) = <<>>
  <2> DEFINE start == NG!Heading(lines, "NodeGroups:")
             ids == [k \in DOMAIN lines |-> k]
             names == NG!Kept(ids, {k \in DOMAIN lines : start # 0 /\ k > start /\ lines[k].label = "Name"})
  <2>1. {k \in DOMAIN lines : start # 0 /\ k > start /\ lines[k].label = "Name"} = {}
    BY <1>3
  <2>2. ids \in Seq(Nat)
    BY <1>1
  <2> HIDE DEF ids
  <2>3. Kept(ids, {}) = <<>>
    BY <2>2, NoneKept
  <2>4. names = <<>>
    BY <2>1, <2>3, ListsSame, Zenon
  <2> HIDE DEF names, start
  <2>5. PICK row : NG!LegacyGroups(lines) = [k \in DOMAIN names |-> row[k]]
    <3> DEFINE r(k) == [name |-> lines[names[k]].value,
                        has |-> NG!Fields(lines, names[k], NG!NextName(lines, names[k]))]
    <3>1. NG!LegacyGroups(lines) = [k \in DOMAIN names |-> r(k)]
      BY Zenon DEF NG!LegacyGroups, NG!GroupLines, names, start, ids
    <3> HIDE DEF r
    <3>2. [k \in DOMAIN names |-> r(k)] = [k \in DOMAIN names |-> [h \in DOMAIN names |-> r(h)][k]]
      OBVIOUS
    <3>3. QED
      BY <3>1, <3>2
  <2>6. QED
    BY <2>4, <2>5
<1>6. QED
  BY <1>4, <1>5 DEF lines

(* Either format tells a status as it is.                                   *)
LEMMA EitherTold ==
  ASSUME NEW s, Written(s), NEW v
  PROVE  ToldAs(NG!Parsed(NG!Document(v, s)), s)
<1>1. CASE v # "text"
  <2>1. NG!Document(v, s) = [yaml |-> TRUE, lines |-> <<>>, body |-> s]
    BY <1>1 DEF NG!Document
  <2>2. NG!Parsed(NG!Document(v, s)) =
          [verbatim |-> FALSE, wide |-> IF s.wide = None THEN NG!Unknown ELSE s.wide, groups |-> s.groups]
    BY <2>1 DEF NG!Parsed
  <2>3. QED
    BY <2>2 DEF ToldAs
<1>2. CASE v = "text"
  <2> DEFINE lines == NG!Text(s)
             wide == NG!LegacyWide(lines)
             groups == NG!LegacyGroups(lines)
  <2>1. NG!Document(v, s) = [yaml |-> FALSE, lines |-> lines, body |-> None]
    BY <1>2, Zenon DEF NG!Document
  <2>2. NG!Parsed(NG!Document(v, s)) =
          [verbatim |-> wide["Health"] = None /\ groups = <<>>, wide |-> wide, groups |-> groups]
    <3> HIDE DEF lines
    <3>1. QED
      BY <2>1 DEF NG!Parsed
  <2>3. CASE Filled(s)
    <3>1. PICK S : /\ lines \in Seq(S)
                   /\ \E b \in Nat : \E ends \in [0..Len(s.groups) -> Nat] :
                        Laid(lines, s.wide, s.groups, Len(s.groups), b, ends)
      BY <2>3, TextLaid
    <3>2. PICK b \in Nat : \E ends \in [0..Len(s.groups) -> Nat] :
                               Laid(lines, s.wide, s.groups, Len(s.groups), b, ends)
      BY <3>1
    <3>3. PICK ends \in [0..Len(s.groups) -> Nat] : Laid(lines, s.wide, s.groups, Len(s.groups), b, ends)
      BY <3>2
    <3> HIDE DEF lines
    <3>4. wide = s.wide /\ groups = s.groups
      <4>1. PICK n, w, gs : n = Len(s.groups) /\ n \in Nat /\ w = s.wide /\ gs = s.groups
        BY <2>3 DEF Filled
      <4>2. /\ gs = [i \in 1..n |-> gs[i]] /\ Over(w)
            /\ \A i \in 1..n : gs[i] = [name |-> gs[i].name, has |-> gs[i].has] /\ Over(gs[i].has)
        BY <2>3, <4>1 DEF Filled
      <4>3. ends \in [0..n -> Nat] /\ Laid(lines, w, gs, n, b, ends)
        BY <3>3, <4>1
      <4>4. NG!LegacyWide(lines) = w /\ NG!LegacyGroups(lines) = gs
        <5>1. n \in Nat
          BY <4>1
        <5>2. QED
          BY <3>1, <4>2, <4>3, <5>1, LaidParsed
      <4>5. QED
        BY <4>1, <4>4
    <3>5. s.wide # None /\ s.wide["Health"] # None
      BY <2>3 DEF Filled
    <3> HIDE DEF wide, groups
    <3>6. (wide["Health"] = None /\ groups = <<>>) = FALSE
      BY <3>4, <3>5
    <3>7. NG!Parsed(NG!Document(v, s)) = [verbatim |-> FALSE, wide |-> wide, groups |-> groups]
      BY <2>2, <3>6, Zenon
    <3>8. QED
      BY <3>4, <3>5, <3>7 DEF ToldAs
  <2>4. CASE s.wide = None /\ s.groups = <<>>
    <3>1. lines = <<NG!Line("Initializing", None)>>
      BY <2>4, Zenon DEF NG!Text
    <3>2. NG!Line("Initializing", None).label = "Initializing"
      BY DEF NG!Line
    <3>3. wide = NG!Unknown /\ groups = <<>>
      BY <3>1, <3>2, NothingParsed
    <3>4. NG!Unknown["Health"] = None
      BY DEF NG!Unknown, NG!Sections
    <3> HIDE DEF wide, groups, lines
    <3>5. QED
      BY <2>2, <2>4, <3>3, <3>4 DEF ToldAs
  <2>5. QED
    BY <2>3, <2>4 DEF Written
<1>3. QED
  BY <1>1, <1>2

-----------------------------------------------------------------------------
(* The autoscaler and the command. *)

(* The ConfigMap holds the status that was last written, in one of the      *)
(* formats, and what was read is it: nothing is written after that.         *)
StatusInv ==
  /\ cluster = [version |-> cluster.version, wide |-> cluster.wide, groups |-> cluster.groups,
                map |-> cluster.map, changes |-> cluster.changes]
  /\ cluster.version \in {"text", "yaml"} /\ cluster.changes \in 0..Autoscaler.changes
  /\ cluster.map = None <=> past = None
  /\ cluster.map # None => Written(past) /\ \E v : cluster.map = NG!Document(v, past)
  /\ lists \notin {Unread, Failed} => Written(past) /\ \E v : lists = NG!Document(v, past)

LEMMA StatusBegins == NG!Init => StatusInv
BY AutoscalerWellFormed DEF NG!Init, StatusInv

(* A status, and what is written of it, are there.                          *)
Something(s) == s # None /\ \A v \in {"text", "yaml"} : NG!Document(v, s) # None

LEMMA StatusThere ==
  ASSUME NEW n \in 0..Len(Autoscaler.names), NEW w \in Autoscaler.reports \cup {None},
         NEW u \in [1..n -> Autoscaler.reports], NEW groups,
         groups = [i \in 1..n |-> [name |-> Autoscaler.names[i], has |-> u[i]]]
  PROVE  Something([wide |-> w, groups |-> groups])
<1>1. /\ None # [wide |-> w, groups |-> groups]
      /\ \A v \in {"text", "yaml"} : None # NG!Document(v, [wide |-> w, groups |-> groups])
  BY AutoscalerWellFormed, Zenon
<1>2. QED
  BY <1>1, Zenon DEF Something

(* A round writes what it found of each group.                              *)
LEMMA RoundWritten ==
  ASSUME NEW n \in 0..Len(Autoscaler.names), NEW w \in Autoscaler.reports, w["Health"] # None,
         NEW u \in [1..n -> Autoscaler.reports]
  PROVE  LET s == [wide |-> w, groups |-> [i \in 1..n |-> [name |-> Autoscaler.names[i], has |-> u[i]]]]
         IN  Written(s) /\ Something(s)
<1>1. n \in Nat
  BY AutoscalerWellFormed
<1>2. ASSUME NEW g \in Autoscaler.reports PROVE g # None /\ Over(g)
  BY AutoscalerWellFormed DEF Over
<1> DEFINE gs == [i \in 1..n |-> [name |-> Autoscaler.names[i], has |-> u[i]]]
<1>3. Len(gs) = n /\ \A i \in 1..n : gs[i] = [name |-> Autoscaler.names[i], has |-> u[i]]
  BY <1>1
<1>4. \A i \in 1..n : u[i] \in Autoscaler.reports
  OBVIOUS
<1>5. gs = [i \in 1..n |-> gs[i]]
  OBVIOUS
<1>a. Something([wide |-> w, groups |-> gs])
  BY StatusThere
<1> HIDE DEF gs
<1>6. Filled([wide |-> w, groups |-> gs])
  BY <1>1, <1>2, <1>3, <1>4, <1>5 DEF Filled
<1>7. QED
  BY <1>6, <1>a DEF Written, gs

(* So is the status of an autoscaler that starts.                           *)
LEMMA StartWritten ==
  LET s == [wide |-> None, groups |-> <<>>] IN Written(s) /\ Something(s)
<1>1. Len(Autoscaler.names) \in Nat
  BY AutoscalerWellFormed
<1>2. 0 \in 0..Len(Autoscaler.names)
  BY <1>1
<1> DEFINE u == [i \in 1..0 |-> None]
<1>3. u \in [1..0 -> Autoscaler.reports]
  OBVIOUS
<1>4. <<>> = [i \in 1..0 |-> [name |-> Autoscaler.names[i], has |-> u[i]]]
  OBVIOUS
<1> HIDE DEF u
<1>5. Something([wide |-> None, groups |-> <<>>])
  BY <1>2, <1>3, <1>4, StatusThere, Zenon
<1>6. QED
  BY <1>5 DEF Written

LEMMA StatusSynced ==
  ASSUME StatusInv, NEW w, NEW groups, NG!Sync(w, groups),
         Written([wide |-> w, groups |-> groups]), Something([wide |-> w, groups |-> groups])
  PROVE  StatusInv'
<1>1. PICK s : s = [wide |-> w, groups |-> groups]
  OBVIOUS
<1>2. /\ cluster' = [[cluster EXCEPT !.wide = w, !.groups = groups,
                                     !.map = NG!Document(cluster.version, s)]
                       EXCEPT !.changes = cluster.changes + 1]
      /\ past' = s /\ lists = Unread /\ lists' = lists
  BY <1>1 DEF NG!Sync, NG!World
<1>3. PICK d : d = NG!Document(cluster.version, s)
  OBVIOUS
<1>4. cluster' = [version |-> cluster.version, wide |-> w, groups |-> groups, map |-> d,
                  changes |-> cluster.changes + 1]
  BY <1>2, <1>3, Zenon DEF StatusInv
<1>5. Written(past') /\ cluster'.map = NG!Document(cluster.version, past')
  BY <1>1, <1>2, <1>3, <1>4
<1>6. cluster.version \in {"text", "yaml"} /\ cluster.changes + 1 \in 0..Autoscaler.changes
  BY AutoscalerWellFormed DEF StatusInv, NG!Sync, NG!World
<1>7. cluster'.map # None /\ past' # None
  BY <1>1, <1>2, <1>3, <1>4, <1>6, Zenon DEF Something
<1>8. cluster'.version = cluster.version /\ cluster'.changes = cluster.changes + 1
  BY <1>4
<1>9. QED
  BY <1>2, <1>4, <1>5, <1>6, <1>7, <1>8, Zenon DEF StatusInv

LEMMA StatusSteps == StatusInv /\ (NG!Next \/ UNCHANGED viewVars) => StatusInv'
<1> SUFFICES ASSUME StatusInv, NG!Next \/ UNCHANGED viewVars PROVE StatusInv'
  OBVIOUS
<1>1. CASE NG!Round
  <2>1. PICK n \in 0..Len(Autoscaler.names), w \in {x \in Autoscaler.reports : x["Health"] # None} :
          \E u \in [1..n -> Autoscaler.reports] :
            NG!Sync(w, [i \in 1..n |-> [name |-> Autoscaler.names[i], has |-> u[i]]])
    BY <1>1, Zenon DEF NG!Round
  <2>2. PICK u \in [1..n -> Autoscaler.reports] :
          NG!Sync(w, [i \in 1..n |-> [name |-> Autoscaler.names[i], has |-> u[i]]])
    BY <2>1, Zenon
  <2>3. w \in Autoscaler.reports /\ w["Health"] # None
    OBVIOUS
  <2> DEFINE gs == [i \in 1..n |-> [name |-> Autoscaler.names[i], has |-> u[i]]]
  <2>4. Written([wide |-> w, groups |-> gs]) /\ Something([wide |-> w, groups |-> gs])
    BY <2>3, RoundWritten
  <2>5. NG!Sync(w, gs)
    BY <2>2
  <2> HIDE DEF gs
  <2>6. QED
    BY <2>4, <2>5, StatusSynced
<1>2. CASE NG!Starts
  <2>1. NG!Sync(None, <<>>)
    BY <1>2 DEF NG!Starts
  <2>2. QED
    BY <2>1, StartWritten, StatusSynced
<1>3. CASE NG!Upgrade
  <2>1. PICK v \in {"text", "yaml"} :
          /\ cluster' = [[cluster EXCEPT !.version = v] EXCEPT !.changes = cluster.changes + 1]
          /\ lists' = lists /\ past' = past
    BY <1>3, Zenon DEF NG!Upgrade, NG!World
  <2>2. cluster' = [version |-> v, wide |-> cluster.wide, groups |-> cluster.groups,
                    map |-> cluster.map, changes |-> cluster.changes + 1]
    BY <2>1, Zenon DEF StatusInv
  <2>3. cluster.changes + 1 \in 0..Autoscaler.changes
    BY <1>3, AutoscalerWellFormed DEF StatusInv, NG!Upgrade, NG!World
  <2>4. /\ cluster'.version = v /\ cluster'.wide = cluster.wide /\ cluster'.groups = cluster.groups
        /\ cluster'.map = cluster.map /\ cluster'.changes = cluster.changes + 1
    BY <2>2
  <2>5. QED
    BY <2>1, <2>2, <2>3, <2>4, Zenon DEF StatusInv
<1>4. CASE NG!Get
  <2>1. /\ cluster' = cluster /\ past' = past
        /\ lists' = Failed \/ (cluster.map # None /\ lists' = cluster.map)
    BY <1>4 DEF NG!Get
  <2>2. QED
    BY <2>1 DEF StatusInv
<1>5. CASE NG!Over \/ UNCHANGED viewVars
  <2>1. cluster' = cluster /\ lists' = lists /\ past' = past
    BY <1>5 DEF NG!Over, NG!vars, viewVars
  <2>2. QED
    BY <2>1 DEF StatusInv
<1>6. QED
  BY <1>1, <1>2, <1>3, <1>4, <1>5 DEF NG!Next

LEMMA StatusTold == StatusInv => NG!FormatsAgree
<1> SUFFICES ASSUME StatusInv, lists \notin {Unread, Failed} PROVE ToldAs(NG!Parsed(lists), past)
  BY Zenon DEF NG!FormatsAgree, ToldAs
<1>1. PICK v : Written(past) /\ lists = NG!Document(v, past)
  BY DEF StatusInv
<1>2. QED
  BY <1>1, EitherTold

LEMMA StatusTyped == StatusInv => NG!TypeOK
BY DEF StatusInv, NG!TypeOK

LEMMA StatusInvariance == Spec => [](view = "autoscaler" => StatusInv)
<1>1. Init => (view = "autoscaler" => StatusInv)
  BY StatusBegins DEF Init
<1>2. (view = "autoscaler" => StatusInv) /\ [Next]_vars => (view = "autoscaler" => StatusInv)'
  BY OneView, StatusSteps
<1>3. QED
  BY <1>1, <1>2, PTL DEF Spec

(* autoscaler tells the same of a status of any number of groups, with any  *)
(* sections, in either format and across any upgrades.                      *)
THEOREM FormatsAlwaysAgree == Spec => []FormatsAgree
<1>1. (view = "autoscaler" => StatusInv) => FormatsAgree
  BY StatusTold DEF FormatsAgree
<1>2. QED
  BY <1>1, StatusInvariance, PTL

-----------------------------------------------------------------------------
(* Types, and the bounds of a run. *)

ListViews ==
  {"netpol", "placements", "ingress", "svc-backends", "certs", "pending", "autoscaler"}

(* Every view that reads lists keeps its types: what was read and what      *)
(* lasted stay within what may exist, slots within ceilings, the clock and  *)
(* the rounds of the autoscaler within a run, and what always was so is     *)
(* among what ever was.                                                     *)
THEOREM ListTypesKept == Spec => [](view \in ListViews => TypeOK)
<1>1. view = "netpol" /\ NP!TypeOK => TypeOK
  BY DEF TypeOK
<1>2. view = "placements" /\ PL!TypeOK => TypeOK
  BY DEF TypeOK
<1>3. view = "ingress" /\ IG!TypeOK => TypeOK
  BY DEF TypeOK
<1>4. view = "svc-backends" /\ BE!TypeOK => TypeOK
  BY DEF TypeOK
<1>5. view = "certs" /\ CE!TypeOK => TypeOK
  BY DEF TypeOK
<1>6. view = "pending" /\ SC!TypeOK => TypeOK
  BY DEF TypeOK
<1>7. view = "autoscaler" /\ NG!TypeOK => TypeOK
  BY DEF TypeOK
<1>8. (/\ view = "netpol" => NetInv
       /\ view = "placements" => PlaceInv
       /\ view = "ingress" => SiteInv
       /\ view = "svc-backends" => BackendInv
       /\ view = "certs" => CertInv
       /\ view = "pending" => PendingInv
       /\ view = "autoscaler" => StatusInv)
      => (view \in ListViews => TypeOK)
  BY <1>1, <1>2, <1>3, <1>4, <1>5, <1>6, <1>7, NetTyped, PlaceTyped, SiteTyped, BackendTyped,
     CertTyped, PendingTyped, StatusTyped, Zenon DEF ListViews
<1>9. QED
  BY <1>8, NetInvariance, PlaceInvariance, SiteInvariance, BackendInvariance, CertInvariance,
     PendingInvariance, StatusInvariance, PTL
=============================================================================
