----------------------------- MODULE Placements -----------------------------
(***************************************************************************)
(* Two commands that join pods with nodes (view/spread.go, view/maxpods.go *)
(* and bothLists of view/view.go): where a workload's replicas stand, and  *)
(* how many pods a node still takes, from two lists read side by side.     *)
(*                                                                         *)
(* External: the scheduler, which fills no node past its ceiling, counting *)
(* what has not finished; the kubelet, whose evicted pods stay as finished *)
(* objects; the cloud's controller, which labels a node some time after it *)
(* has joined; autoscaling.                                                *)
(***************************************************************************)
EXTENDS Integers, Sequences, FiniteSets, SequencesExt

CONSTANTS
  PodSet,       \* pods that may exist: [name, kind, owner, of]
  Zone,         \* node -> the zone it stands in
  Ceiling,      \* node -> the pods it takes
  Starts,       \* where to start from: [pods, nodes]
  Unread,       \* a list not read yet
  Failed,       \* a list that ended in an error
  None,         \* nil
  MaxChanges    \* bound: changes to the cluster

VARIABLES
  cluster,   \* [pods, nodes, changes]
  lists,     \* [command, pods, nodes]: what the command read
  past       \* history of the command: see Observe

vars == <<cluster, lists, past>>

(* pods maps those that exist to [node, finished], node None before it is   *)
(* bound; nodes maps those that exist to their zone label, None without.    *)
(* kind and owner are those of the controller, a name being its words       *)
(* between dashes; of is the workload the pod is really a replica of, None  *)
(* for one of no replicated workload.                                       *)
Nodes == DOMAIN Zone

-----------------------------------------------------------------------------
(* The code. *)

(* The last word of a ReplicaSet's name is the hash of its template. *)
TrimHash(name) == IF Len(name) > 1 THEN Front(name) ELSE name

WorkloadKey(p) ==
  CASE p.kind = "ReplicaSet" -> <<"Deployment", TrimHash(p.owner)>>
    [] p.kind \in {"StatefulSet", "ReplicationController"} -> <<p.kind, p.owner>>
    [] OTHER -> None

(* The pods of a group, their nodes and zones; a pod that is not bound is   *)
(* in no group.                                                             *)
Placed == {p \in DOMAIN lists.pods : lists.pods[p].node # None /\ WorkloadKey(p) # None}
Groups == {WorkloadKey(p) : p \in Placed}
Replicas(w) == {p \in Placed : WorkloadKey(p) = w}
NodesOf(w) == {lists.pods[p].node : p \in Replicas(w)}

ZoneOf(n) == IF n \in DOMAIN lists.nodes THEN lists.nodes[n] ELSE None

(* A slip for the mutants: no label taken for a zone of its own. *)
AnyZone(w) == {ZoneOf(n) : n \in NodesOf(w)}

ZonesOf(w) == {ZoneOf(n) : n \in NodesOf(w)} \ {None}

(* spreadVerdict. *)
SpreadVerdict(replicas, nodes, zones) ==
  IF replicas <= 1 THEN "SINGLE" ELSE IF nodes <= 1 THEN "SPOF-NODE"
  ELSE IF zones >= 2 THEN "SPREAD" ELSE IF zones = 1 THEN "SPOF-ZONE" ELSE "MULTI-NODE"

Verdict(w) ==
  SpreadVerdict(Cardinality(Replicas(w)), Cardinality(NodesOf(w)), Cardinality(ZonesOf(w)))

(* MaxPods: finished pods hold no slot. *)
Used(n) == Cardinality({p \in DOMAIN lists.pods : lists.pods[p].node = n /\ ~lists.pods[p].finished})
Free(n) == Ceiling[n] - Used(n)

Printed == {Unread, Failed} \cap {lists.pods, lists.nodes} = {}

-----------------------------------------------------------------------------
(* What is true of a moment: the word each workload deserves by the pods    *)
(* that run and the zones their nodes stand in; the slots left; the nodes   *)
(* there and those with a label.                                            *)
Live(c, n) == {p \in DOMAIN c.pods : c.pods[p].node = n /\ ~c.pods[p].finished}

Deserved(c, w) ==
  LET at == {n \in Nodes : \E p \in Live(c, n) : p.of = w}
      replicas == {p \in UNION {Live(c, n) : n \in at} : p.of = w}
  IN  SpreadVerdict(Cardinality(replicas), Cardinality(at), Cardinality({Zone[n] : n \in at}))

Moment(c) ==
  [words |-> {<<p.of, Deserved(c, p.of)>> : p \in {q \in PodSet : q.of # None}},
   placed |-> {p.of : p \in {q \in DOMAIN c.pods : q.of # None /\ c.pods[q].node # None}},
   free |-> {<<n, Ceiling[n] - Cardinality(Live(c, n))>> : n \in Nodes},
   there |-> DOMAIN c.nodes,
   labelled |-> {n \in DOMAIN c.nodes : c.nodes[n] # None}]

(* always and ever: what was true at every moment and at some. *)
Observe(c) ==
  past' = [always |-> [f \in DOMAIN past.always |-> past.always[f] \cap Moment(c)[f]],
           ever |-> [f \in DOMAIN past.ever |-> past.ever[f] \cup Moment(c)[f]]]

Init ==
  /\ \E s \in Starts : cluster = [pods |-> s.pods, nodes |-> s.nodes, changes |-> 0]
  /\ \E command \in {"spread", "max-pods"} :
       lists = [command |-> command, pods |-> Unread, nodes |-> Unread]
  /\ past = [always |-> Moment(cluster), ever |-> Moment(cluster)]

World(c) ==
  /\ Unread \in {lists.pods, lists.nodes} /\ cluster.changes < MaxChanges
  /\ cluster' = [c EXCEPT !.changes = cluster.changes + 1]
  /\ Observe(cluster') /\ UNCHANGED lists

Becomes(p, s) ==
  World([cluster EXCEPT !.pods = [q \in DOMAIN @ \cup {p} |-> IF q = p THEN s ELSE @[q]]])

Create(p) == p \notin DOMAIN cluster.pods /\ Becomes(p, [node |-> None, finished |-> FALSE])

Bind(p, n) ==
  /\ p \in DOMAIN cluster.pods /\ cluster.pods[p].node = None
  /\ n \in DOMAIN cluster.nodes /\ Cardinality(Live(cluster, n)) < Ceiling[n]
  /\ Becomes(p, [node |-> n, finished |-> FALSE])

(* Evicted, or done. *)
Finish(p) ==
  /\ p \in DOMAIN cluster.pods /\ cluster.pods[p].node # None /\ ~cluster.pods[p].finished
  /\ Becomes(p, [cluster.pods[p] EXCEPT !.finished = TRUE])

Delete(p) ==
  /\ p \in DOMAIN cluster.pods
  /\ World([cluster EXCEPT !.pods = [q \in DOMAIN @ \ {p} |-> @[q]]])

Join(n) ==
  /\ n \notin DOMAIN cluster.nodes
  /\ World([cluster EXCEPT !.nodes = [m \in DOMAIN @ \cup {n} |-> IF m = n THEN None ELSE @[m]]])

Label(n) ==
  /\ n \in DOMAIN cluster.nodes /\ cluster.nodes[n] = None
  /\ World([cluster EXCEPT !.nodes[n] = Zone[n]])

(* The pods of a node that leaves are collected later. *)
Leave(n) ==
  /\ n \in DOMAIN cluster.nodes
  /\ World([cluster EXCEPT !.nodes = [m \in DOMAIN @ \ {n} |-> @[m]]])

-----------------------------------------------------------------------------
(* bothLists. *)

ReadPods ==
  /\ lists.pods = Unread
  /\ \E l \in {cluster.pods, Failed} : lists' = [lists EXCEPT !.pods = l]
  /\ UNCHANGED <<cluster, past>>

ReadNodes ==
  /\ lists.nodes = Unread
  /\ \E l \in {cluster.nodes, Failed} : lists' = [lists EXCEPT !.nodes = l]
  /\ UNCHANGED <<cluster, past>>

Over == Unread \notin {lists.pods, lists.nodes} /\ UNCHANGED vars

Next ==
  \/ \E p \in PodSet : Create(p) \/ Finish(p) \/ Delete(p) \/ \E n \in Nodes : Bind(p, n)
  \/ \E n \in Nodes : Join(n) \/ Label(n) \/ Leave(n)
  \/ ReadPods \/ ReadNodes \/ Over

Spec == Init /\ [][Next]_vars

-----------------------------------------------------------------------------
(* Properties. *)

TypeOK ==
  /\ DOMAIN cluster.pods \subseteq PodSet /\ DOMAIN cluster.nodes \subseteq Nodes
  /\ lists.command \in {"spread", "max-pods"}
  /\ \A n \in Nodes : Cardinality(Live(cluster, n)) <= Ceiling[n]
  /\ \A f \in DOMAIN past.ever : past.always[f] \subseteq past.ever[f]

(* Placement is told as it was at some moment, whatever pods and nodes come *)
(* and go between the lists. SPREAD, SPOF-NODE and SINGLE are true whether  *)
(* or not the nodes are known; MULTI-NODE and SPOF-ZONE of several nodes,   *)
(* and SPOF-ZONE of their zones too if these nodes had their labels all     *)
(* along; workloads stay apart, across a rollout, and one that was placed   *)
(* all along has a row. All this of a workload without finished pods, which *)
(* the code counts as replicas. A node there all along shows a number of    *)
(* free slots it had at some moment.                                        *)
SpreadTold ==
  LET told(w) == {p \in PodSet : p.of = w /\ WorkloadKey(p) \in Groups} IN
    /\ \A w \in past.always.placed : told(w) # {}
    /\ \A p \in Placed :
         LET w == WorkloadKey(p)
             word == Verdict(w)
             deserved(v) == <<p.of, v>> \in past.ever.words
         IN  (\A q \in Replicas(w) : ~lists.pods[q].finished) =>
               /\ word \in {"SPREAD", "SPOF-NODE", "SINGLE"} => deserved(word)
               /\ word \in {"SPOF-ZONE", "MULTI-NODE"} => deserved("SPREAD") \/ deserved("SPOF-ZONE")
               /\ word = "SPOF-ZONE" /\ NodesOf(w) \subseteq past.always.labelled => deserved(word)
               /\ NodesOf(w) \subseteq past.always.labelled => word # "MULTI-NODE"

SlotsTold ==
  /\ past.always.there \subseteq DOMAIN lists.nodes
  /\ \A n \in DOMAIN lists.nodes : Free(n) >= 0 /\ <<n, Free(n)>> \in past.ever.free

PlacementTold ==
  Printed => IF lists.command = "spread" THEN SpreadTold ELSE SlotsTold
=============================================================================
