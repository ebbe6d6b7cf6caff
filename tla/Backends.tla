------------------------------ MODULE Backends ------------------------------
(***************************************************************************)
(* The svc-backends command (view/svcbackends.go): a service with the      *)
(* endpoints behind it, from services and EndpointSlices that are read at  *)
(* two instants.  The pods, and the controller that copies them into one   *)
(* slice per address family whenever it gets round to it, are external.    *)
(***************************************************************************)
EXTENDS Integers, Sequences, FiniteSets, FiniteSetsExt

CONSTANTS
  Service,      \* the service looked at
  Kinds,        \* the kinds it may be of
  SliceOf,      \* the slices in list order: the service each is labelled with, or ""
  Endpoints,    \* pods, or addresses of a service without a selector
  Unread,       \* a list not read yet
  Failed,       \* a list that ended in an error
  MaxChanges    \* bound: changes to the cluster meanwhile

VARIABLES
  cluster,   \* [kind, pods, slices, changes]
  lists,     \* [services, slices]: what the command read
  past       \* history: see Observe

vars == <<cluster, lists, past>>

(* What the service is backed by: pods it selects, endpoints somebody       *)
(* writes, or a DNS name.                                                   *)
AllKinds == {"selector", "manual", "external"}

PodStates == {"absent", "true", "false"}

(* The ready condition of an endpoint, which a slice may leave out. *)
Conditions == PodStates \cup {"nil"}

Slices == DOMAIN SliceOf
Owned == {i \in Slices : SliceOf[i] = Service}

-----------------------------------------------------------------------------
(* The code. *)

EndpointReady(condition) == condition \in {"true", "nil"}

(* A slip for the mutants: every entry of every slice counts. *)
CountedTwice(slices) ==
  {<<e, slices[i][e], i>> : e \in Endpoints, i \in Owned} \
    {<<e, "absent", i>> : e \in Endpoints, i \in Owned}

(* The endpoints of a slice list, as the code counts them: an endpoint in   *)
(* several slices is one, and the first slice says whether it is ready.     *)
Counted(slices) ==
  LET in(e) == {i \in Owned : slices[i][e] # "absent"} IN
    {<<e, slices[Min(in(e))][e]>> : e \in {x \in Endpoints : in(x) # {}}}

CountEndpoints(slices) ==
  [ready    |-> Cardinality({c \in Counted(slices) : EndpointReady(c[2])}),
   notReady |-> Cardinality({c \in Counted(slices) : ~EndpointReady(c[2])})]

SvcVerdict(kind, eps) ==
  LET total == eps.ready + eps.notReady IN
    IF kind = "external" THEN "EXTERNAL"
    ELSE IF kind = "manual" THEN IF total > 0 THEN "MANUAL" ELSE "UNWIRED"
    ELSE IF total = 0 THEN "NO-PODS"
    ELSE IF eps.ready = 0 THEN "NO-READY"
    ELSE IF eps.notReady > 0 THEN "DEGRADED"
    ELSE "OK"

AllRead == lists.services # Unread /\ lists.slices # Unread
Printed == AllRead /\ Failed \notin {lists.services, lists.slices}

(* The row of the service. *)
Eps == CountEndpoints(lists.slices)
Row == [ready |-> Eps.ready, notReady |-> Eps.notReady, verdict |-> SvcVerdict(lists.services, Eps)]

-----------------------------------------------------------------------------
(* What pods and slices agree on, for good or at some moment: the endpoints *)
(* that were ready, unready or absent in all of them all along, and whether *)
(* the slices ever held none, or one.                                       *)
Observe(c) ==
  LET all(e, S) == c.pods[e] \in S /\ \A i \in Owned : c.slices[i][e] \in S IN
    [ready   |-> {e \in Endpoints : all(e, {"true", "nil"})},
     unready |-> {e \in Endpoints : all(e, {"false"})},
     absent  |-> {e \in Endpoints : all(e, {"absent"})},
     wired   |-> \E e \in Endpoints, i \in Owned : c.slices[i][e] # "absent",
     unwired |-> \A e \in Endpoints, i \in Owned : c.slices[i][e] = "absent"]

Moment(c) ==
  LET now == Observe(c) IN
    past' = [ready |-> past.ready \cap now.ready, unready |-> past.unready \cap now.unready,
             absent |-> past.absent \cap now.absent,
             wired |-> past.wired \/ now.wired, unwired |-> past.unwired \/ now.unwired]

(* A service whose slices are up to date; an orphan slice holds an endpoint *)
(* of nobody's.                                                             *)
Init ==
  /\ \E k \in Kinds, p \in [Endpoints -> PodStates] :
       /\ k = "external" => \A e \in Endpoints : p[e] = "absent"
       /\ cluster = [kind |-> k, pods |-> p, changes |-> 0,
                     slices |-> [i \in Slices |-> IF i \in Owned THEN p
                                                  ELSE [e \in Endpoints |-> "nil"]]]
  /\ lists = [services |-> Unread, slices |-> Unread]
  /\ past = Observe(cluster)

(* What happens once the command has read both lists does not matter. *)
Change(c) ==
  /\ ~AllRead /\ cluster.changes < MaxChanges
  /\ cluster' = [c EXCEPT !.changes = cluster.changes + 1]
  /\ Moment(c)
  /\ UNCHANGED lists

Pods(p) == Change([cluster EXCEPT !.pods = p])
Written(s) == Change([cluster EXCEPT !.slices = s])

(* External: a pod starts, becomes ready, fails or goes. *)
PodStep ==
  \E e \in Endpoints, s \in PodStates :
    cluster.kind = "selector" /\ s # cluster.pods[e] /\ Pods([cluster.pods EXCEPT ![e] = s])

(* External: the endpoint slice controller, one slice at a time. *)
Sync ==
  \E i \in Owned :
    cluster.kind = "selector" /\ cluster.slices[i] # cluster.pods
    /\ Written([cluster.slices EXCEPT ![i] = cluster.pods])

(* External: somebody fills in a slice by hand, conditions or not. *)
Write ==
  \E i \in Owned, s \in [Endpoints -> Conditions] :
    cluster.kind = "manual" /\ s # cluster.slices[i] /\ Written([cluster.slices EXCEPT ![i] = s])

ReadServices ==
  /\ lists.services = Unread
  /\ \E l \in {cluster.kind, Failed} : lists' = [lists EXCEPT !.services = l]
  /\ UNCHANGED <<cluster, past>>

ReadSlices ==
  /\ lists.slices = Unread
  /\ \E l \in {cluster.slices, Failed} : lists' = [lists EXCEPT !.slices = l]
  /\ UNCHANGED <<cluster, past>>

Over == AllRead /\ UNCHANGED vars

Next == PodStep \/ Sync \/ Write \/ ReadServices \/ ReadSlices \/ Over

Spec == Init /\ [][Next]_vars

-----------------------------------------------------------------------------
(* Properties. *)

TypeOK ==
  /\ cluster.kind \in Kinds /\ Kinds \subseteq AllKinds
  /\ cluster.pods \in [Endpoints -> PodStates]
  /\ cluster.slices \in [Slices -> [Endpoints -> Conditions]]
  /\ past.ready \cap past.unready = {}

(* The counts are of pods: one that was ready, not ready or gone all along  *)
(* is counted once, as that, however many slices hold it and whatever the   *)
(* controller does between the lists; and a service is never called unwired *)
(* or wired by hand that was not at some moment.                            *)
BackendsCounted ==
  Printed =>
    /\ Row.ready >= Cardinality(past.ready) /\ Row.notReady >= Cardinality(past.unready)
    /\ Row.ready + Row.notReady <= Cardinality(Endpoints \ past.absent)
    /\ Row.verdict = "UNWIRED" => past.unwired
    /\ Row.verdict = "MANUAL" => past.wired
    /\ Row.verdict \in {"NO-PODS", "NO-READY"} => past.ready = {}
=============================================================================
