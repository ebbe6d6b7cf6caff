----------------------------- MODULE Schedulings ----------------------------
(***************************************************************************)
(* The pending command (view/pending.go): one list of the pods in phase    *)
(* Pending, and for each the one reason it waits for, worked out of the    *)
(* message of the scheduler's last attempt or of its containers.           *)
(*                                                                         *)
(* External: the scheduler, which counts nodes by the reason each gave,    *)
(* and for a pod of a DaemonSet tries only the node it is pinned to; the   *)
(* kubelet; and nodes that change without the scheduler trying again.      *)
(***************************************************************************)
EXTENDS Integers, Sequences, FiniteSets, SequencesExt, FiniteSetsExt

CONSTANTS
  Nodes,
  Conditions,   \* what a node may lack: [taint, lacks], taint None without
  Pins,         \* node the pod may be pinned to, None for none
  Unread,       \* the list not read yet
  Failed,       \* it ended in an error
  None,         \* nil
  MaxChanges    \* bound: changes to the cluster

VARIABLES
  cluster,   \* [nodes, pod, changes]
  lists,     \* what the command read: the pod, or None when it is not Pending
  past       \* the reasons of each node at the scheduler's last attempt: a
             \* phrase and the taint in braces that may follow it

vars == <<cluster, lists, past>>

(* condition is PodScheduled when it is False: [reason, clauses], clauses   *)
(* None for a message in another form. init and app are the waiting reasons *)
(* of two containers, None when they wait for nothing.                      *)
NewPod(pin) ==
  [pin |-> pin, bound |-> FALSE, condition |-> None, init |-> None, app |-> None, phase |-> "Pending"]

-----------------------------------------------------------------------------
(* The code. What it prints is [reason, causes, nodes]: the causes in       *)
(* DETAIL, and how many nodes it says, None when it does not. For an image  *)
(* that cannot be pulled the cause is the container.                        *)

Shows(reason, causes, nodes) == [reason |-> reason, causes |-> causes, nodes |-> nodes]

(* A slip for the mutants: the first clause. *)
FirstClause(clauses) == clauses[1]

(* Of a clause, what comes before its "{key: value}" is shown.              *)
Phrase(clause) == clause.reason[1]

(* schedulerCause: the clause with the largest count, the first of equals.  *)
LargestClause(clauses) ==
  clauses[CHOOSE i \in DOMAIN clauses :
            /\ \A j \in DOMAIN clauses : clauses[j].count <= clauses[i].count
            /\ \A j \in 1..(i - 1) : clauses[j].count < clauses[i].count]

SchedulerCause(c) ==
  IF c.clauses = None THEN Shows(c.reason, {"message"}, None)
  ELSE LET best == LargestClause(c.clauses) IN Shows(c.reason, {Phrase(best)}, best.count)

(* pinnedCause: the clauses left without those about affinity. *)
PinnedCause(c) ==
  IF c.clauses = None THEN {}
  ELSE {Phrase(c.clauses[i]) : i \in DOMAIN c.clauses} \ {"affinity"}

ImageReasons == {"ImagePullBackOff", "ErrImagePull", "InvalidImageName"}

(* podContainerStatuses: the init containers come first. *)
Waiting(p) ==
  (IF p.init = None THEN <<>> ELSE <<[name |-> "init", reason |-> p.init]>>)
  \o (IF p.app = None THEN <<>> ELSE <<[name |-> "app", reason |-> p.app]>>)

PendingReason(p) ==
  IF p.condition # None
    THEN IF p.pin # None /\ PinnedCause(p.condition) # {}
           THEN Shows(p.condition.reason, PinnedCause(p.condition), None)
           ELSE SchedulerCause(p.condition)
  ELSE IF Waiting(p) # <<>>
    THEN LET s == Waiting(p)[1]
         IN  Shows(s.reason, IF s.reason \in ImageReasons THEN {s.name} ELSE {}, None)
  ELSE Shows("Pending", {}, None)

-----------------------------------------------------------------------------
(* The scheduler's own view of a node: its reasons for a pod. *)

Reasons(n, p) ==
  LET c == cluster.nodes[n] IN
    IF p.pin \notin {None, n} THEN {<<"affinity", None>>}
    ELSE IF c.taint # None THEN {<<"taint", c.taint>>}
    ELSE {<<l, None>> : l \in c.lacks}

Clauses(reasons) ==
  {[reason |-> r, count |-> Cardinality({n \in Nodes : r \in reasons[n]})] :
     r \in UNION {reasons[n] : n \in Nodes}}

Init ==
  /\ \E pin \in Pins, f \in [Nodes -> Conditions] :
       cluster = [nodes |-> f, pod |-> NewPod(pin), changes |-> 0]
  /\ lists = Unread
  /\ past = [n \in Nodes |-> {}]

World(c) ==
  /\ lists = Unread /\ cluster.changes < MaxChanges
  /\ cluster' = [c EXCEPT !.changes = cluster.changes + 1]
  /\ UNCHANGED lists

Pod == cluster.pod

Becomes(p) == World([cluster EXCEPT !.pod = p])

(* An attempt binds the pod to a node with no reason against it, or writes  *)
(* the condition.                                                           *)
Attempt ==
  /\ ~Pod.bound
  /\ LET reasons == [n \in Nodes |-> Reasons(n, Pod)] IN
       /\ IF \E n \in Nodes : reasons[n] = {}
            THEN Becomes([Pod EXCEPT !.bound = TRUE, !.condition = None,
                                     !.init = "PodInitializing", !.app = "PodInitializing"])
            ELSE Becomes([Pod EXCEPT !.condition =
                            [reason |-> "Unschedulable", clauses |-> SetToSeq(Clauses(reasons))]])
       /\ past' = reasons

(* An attempt that fails in a plugin leaves a message in another form. *)
AttemptFails ==
  /\ ~Pod.bound
  /\ Becomes([Pod EXCEPT !.condition = [reason |-> "SchedulerError", clauses |-> None]])
  /\ past' = [n \in Nodes |-> {}]

NodeChanges(n) ==
  /\ \E c \in Conditions \ {cluster.nodes[n]} : World([cluster EXCEPT !.nodes = [cluster.nodes EXCEPT ![n] = c]])
  /\ UNCHANGED past

(* The kubelet: the app containers wait until init is over. *)
Kubelet ==
  /\ Pod.bound /\ Pod.phase = "Pending"
  /\ \/ \E r \in {"ImagePullBackOff", "CrashLoopBackOff", None} :
          Pod.init # None /\ Becomes([Pod EXCEPT !.init = r])
     \/ \E r \in {"ContainerCreating", "ErrImagePull"} :
          Pod.init = None /\ Becomes([Pod EXCEPT !.app = r])
     \/ Pod.init = None /\ Becomes([Pod EXCEPT !.app = None, !.phase = "Running"])
  /\ UNCHANGED past

(* Pending: one list, filtered on the phase by the apiserver. *)
ReadPods ==
  /\ lists = Unread
  /\ lists' \in {IF Pod.phase = "Pending" THEN Pod ELSE None, Failed}
  /\ UNCHANGED <<cluster, past>>

Over == lists # Unread /\ UNCHANGED vars

Next ==
  \/ Attempt \/ AttemptFails \/ Kubelet \/ ReadPods \/ Over
  \/ \E n \in Nodes : NodeChanges(n)

Spec == Init /\ [][Next]_vars

-----------------------------------------------------------------------------
(* Properties. *)

TypeOK ==
  /\ cluster.nodes \in [Nodes -> Conditions]
  /\ Pod.bound => Pod.condition = None
  /\ DOMAIN past = Nodes

(* The one reason is a true one, and the one that matters: a count of nodes *)
(* is what the last attempt found of one reason, and no other turned down   *)
(* more of them; a pinned pod shows all that its own node lacked and        *)
(* nothing of others, unless its node gave no reason; and a pod that was    *)
(* placed is never said to wait for a node, nor its app for an init         *)
(* container that is the one stuck.                                         *)
CauseTrue ==
  lists \notin {Unread, Failed, None} =>
    LET shown == PendingReason(lists)
        given == UNION {past[n] : n \in Nodes}
        against(r) == Cardinality({n \in Nodes : r \in past[n]})
    IN  /\ shown.nodes # None => \E r \in given :
             /\ shown.causes = {r[1]} /\ shown.nodes = against(r)
             /\ \A q \in given : against(q) <= against(r)
        /\ shown.reason = "Unschedulable" /\ lists.pin \in Nodes =>
             shown.causes = {r[1] : r \in past[lists.pin]}
        /\ lists.bound => shown.reason \notin {"Unschedulable", "SchedulerError"}
        /\ lists.bound /\ lists.init # None => shown.reason = lists.init
        /\ shown.causes = {"app"} => lists.init = None
=============================================================================
