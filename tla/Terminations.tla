---------------------------- MODULE Terminations ----------------------------
(***************************************************************************)
(* The terminating command (view/terminating.go): what is being deleted    *)
(* and is not gone, graded by how long it has been pending, from three     *)
(* lists read at three instants and a clock read after them.               *)
(*                                                                         *)
(* External: the apiserver, which stamps a deletion with the time it is    *)
(* DUE - the request plus the grace period - and not the time it was       *)
(* asked for; kubelets, finalizers and the namespace controller.           *)
(***************************************************************************)
EXTENDS Integers

CONSTANTS
  Graces,       \* grace periods a pod may be deleted with
  StuckAfter,   \* stuckAfter
  MaxTime,      \* bound: the clock
  Unread,       \* a list not read yet
  Failed,       \* a list that ended in an error
  None,         \* nil
  MaxChanges    \* bound: changes to the cluster

VARIABLES
  cluster,   \* [now, pod, nodeReady, namespace, changes]
  lists,     \* [pods, nodes, namespaces, rows]: what the command read, and printed
  past       \* [nodeDown]: the node was not ready at some moment of the command

vars == <<cluster, lists, past>>

(* A deletion is pending since asked, with a grace of its own; a namespace  *)
(* has none.                                                                *)
Alive == [phase |-> "alive", asked |-> 0, grace |-> None, finalizer |-> FALSE, scheduled |-> FALSE,
          condition |-> FALSE]

Deleting(x) == x.phase = "deleting"

-----------------------------------------------------------------------------
(* The code. *)

(* deletionTimestamp. *)
Stamp(x) == IF x.grace = None THEN x.asked ELSE x.asked + x.grace

Elapsed(x) == cluster.now - Stamp(x)

(* A slip for the mutants: only a deletion past its stamp has a grace left. *)
InGracePast(x) == x.grace # None /\ Elapsed(x) >= 0 /\ Elapsed(x) < x.grace

InGrace(x) == x.grace # None /\ Elapsed(x) < x.grace

TerminatingVerdict(x) ==
  IF InGrace(x) THEN "GRACE" ELSE IF Elapsed(x) < StuckAfter THEN "DELETING" ELSE "STUCK"

PodBlocker(p) ==
  IF p.scheduled /\ lists.nodes = "not ready" THEN "node not ready"
  ELSE IF p.finalizer THEN "finalizer"
  ELSE IF ~p.scheduled THEN "never scheduled"
  ELSE "kubelet"

NamespaceBlocker(n) ==
  IF n.condition THEN "condition" ELSE IF n.finalizer THEN "finalizer" ELSE "unknown"

AllRead == Unread \notin {lists.pods, lists.nodes, lists.namespaces}
AnyFailed == Failed \in {lists.pods, lists.nodes, lists.namespaces}

Rows ==
  { [kind |-> "Pod", of |-> x, at |-> cluster.now, verdict |-> TerminatingVerdict(x),
     blocker |-> PodBlocker(x)] : x \in {y \in {lists.pods} : Deleting(y)} }
  \cup
  { [kind |-> "Namespace", of |-> x, at |-> cluster.now, verdict |-> TerminatingVerdict(x),
     blocker |-> NamespaceBlocker(x)] : x \in {y \in {lists.namespaces} : Deleting(y)} }

-----------------------------------------------------------------------------

Init ==
  /\ \E s \in BOOLEAN, ready \in BOOLEAN, f \in BOOLEAN :
       cluster = [now |-> 0, changes |-> 0, nodeReady |-> ready,
                  pod |-> [Alive EXCEPT !.scheduled = s, !.finalizer = f],
                  namespace |-> [Alive EXCEPT !.finalizer = f]]
  /\ lists = [pods |-> Unread, nodes |-> Unread, namespaces |-> Unread, rows |-> Unread]
  /\ past = [nodeDown |-> ~cluster.nodeReady]

Tick ==
  /\ cluster.now < MaxTime /\ lists.rows = Unread
  /\ cluster' = [cluster EXCEPT !.now = @ + 1]
  /\ UNCHANGED <<lists, past>>

(* What happens once the command has read its lists does not matter. *)
World(c) ==
  /\ ~AllRead /\ cluster.changes < MaxChanges
  /\ cluster' = [c EXCEPT !.changes = cluster.changes + 1]
  /\ past' = [nodeDown |-> past.nodeDown \/ ~c.nodeReady]
  /\ UNCHANGED lists

Pod(p) == World([cluster EXCEPT !.pod = p])
Namespace(n) == World([cluster EXCEPT !.namespace = n])

(* A deletion of a pod that was never scheduled has no grace. *)
DeletePod ==
  \E g \in Graces :
    /\ cluster.pod.phase = "alive"
    /\ ~cluster.pod.scheduled => g = 0
    /\ Pod([cluster.pod EXCEPT !.phase = "deleting", !.asked = cluster.now, !.grace = g])

(* Asking again can only shorten the grace. *)
HurryPod ==
  \E g \in Graces :
    Deleting(cluster.pod) /\ g < cluster.pod.grace /\ Pod([cluster.pod EXCEPT !.grace = g])

PodGone ==
  /\ Deleting(cluster.pod) /\ ~cluster.pod.finalizer
  /\ Pod([cluster.pod EXCEPT !.phase = "gone"])

ClearFinalizer == cluster.pod.finalizer /\ Pod([cluster.pod EXCEPT !.finalizer = FALSE])

NodeFlips == World([cluster EXCEPT !.nodeReady = ~@])

DeleteNamespace ==
  cluster.namespace.phase = "alive"
  /\ Namespace([cluster.namespace EXCEPT !.phase = "deleting", !.asked = cluster.now])

(* The namespace controller records why it cannot finish. *)
Diagnose ==
  Deleting(cluster.namespace) /\ Namespace([cluster.namespace EXCEPT !.condition = ~@])

NamespaceGone ==
  Deleting(cluster.namespace) /\ Namespace([cluster.namespace EXCEPT !.phase = "gone"])

(* Terminating: the three concurrent lists, then the rows by the clock. *)
Read(k, present) ==
  /\ lists[k] = Unread
  /\ \E l \in {present, Failed} : lists' = [lists EXCEPT ![k] = l]
  /\ UNCHANGED <<cluster, past>>

ReadPods == Read("pods", cluster.pod)
ReadNodes == Read("nodes", IF cluster.nodeReady THEN "ready" ELSE "not ready")
ReadNamespaces == Read("namespaces", cluster.namespace)

Render ==
  /\ AllRead /\ lists.rows = Unread
  /\ lists' = [lists EXCEPT !.rows = IF AnyFailed THEN Failed ELSE Rows]
  /\ UNCHANGED <<cluster, past>>

Over == lists.rows # Unread /\ UNCHANGED vars

Next ==
  \/ Tick \/ DeletePod \/ HurryPod \/ PodGone \/ ClearFinalizer \/ NodeFlips
  \/ DeleteNamespace \/ Diagnose \/ NamespaceGone
  \/ ReadPods \/ ReadNodes \/ ReadNamespaces \/ Render \/ Over

Spec == Init /\ [][Next]_vars

-----------------------------------------------------------------------------
(* Properties. *)

TypeOK ==
  /\ cluster.now \in 0..MaxTime
  /\ cluster.pod.asked \in 0..cluster.now /\ cluster.pod.grace \in Graces \cup {None}
  /\ cluster.namespace.asked \in 0..cluster.now
  /\ past.nodeDown \in BOOLEAN

Age(r) == r.at - r.of.asked
Grace(r) == IF r.of.grace = None THEN 0 ELSE r.of.grace

(* Nobody is alarmed early, and at most one grace late: a deletion still    *)
(* within its grace reads GRACE, one pending for less than its grace and    *)
(* stuckAfter is not STUCK, one pending for twice its grace and stuckAfter  *)
(* is; and a pod blamed on its node had a node that was not ready at some   *)
(* moment of the command.                                                   *)
DeletionsGraded ==
  lists.rows \notin {Unread, Failed} => \A r \in lists.rows :
    /\ Age(r) < Grace(r) => r.verdict = "GRACE"
    /\ r.verdict = "STUCK" => Age(r) >= Grace(r) + StuckAfter
    /\ Age(r) >= 2 * Grace(r) + StuckAfter => r.verdict = "STUCK"
    /\ r.blocker = "node not ready" => r.of.scheduled /\ past.nodeDown
=============================================================================
