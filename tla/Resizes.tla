------------------------------ MODULE Resizes -------------------------------
(***************************************************************************)
(* The pvc-resize command (view/pvcresize.go): claims whose capacity is    *)
(* not what their spec asks for, graded from three lists read at three     *)
(* instants: the claims and the storage classes, side by side, and then    *)
(* the pods, only if there is a row and only where the rows are.           *)
(*                                                                         *)
(* External: the apiserver, which admits a bigger request only if the      *)
(* class allows expansion and a smaller one only down to the capacity; the *)
(* controller and the node that carry an expansion out; pods.              *)
(***************************************************************************)
EXTENDS Integers, FiniteSets

CONSTANTS
  NS,            \* namespaces, each with one claim of the same name
  Sizes,         \* sizes that may be asked for
  Starts,        \* claims and class to start from: [claims, class]
  PodSet,        \* pods that may exist, each mounting its namespace's claim
  Scopes,        \* the scopes of the command lines; {} is all namespaces
  MaxNamespaceFanout,
  Unread,        \* a list not read yet
  Failed,        \* a list that ended in an error
  None,          \* nil
  MaxChanges     \* bound: changes to the cluster

VARIABLES
  cluster,   \* [claims, class, pods, changes]: class is whether it allows expansion
  lists,     \* [scope, claims, classes, pods]: what the command asked for and read
  past       \* history of the command: see Moment

vars == <<cluster, lists, past>>

(* A capacity of 0 is none: the claim was never provisioned. conditions are *)
(* those whose status is True.                                              *)
Claim ==
  [class : {"disk", ""}, requested : Sizes, capacity : Nat,
   status : {None, "ControllerResizeInProgress", "ControllerResizeInfeasible",
             "NodeResizePending", "NodeResizeInProgress", "NodeResizeInfeasible"},
   conditions : SUBSET {"Resizing", "FileSystemResizePending", "ControllerResizeError",
                        "NodeResizeError"}]

-----------------------------------------------------------------------------
(* The code. *)

(* expansionPolicies and the lookup by className: known and allowed. A list *)
(* that failed, a class that is gone and a claim without one know nothing.  *)
Known(c) == c.class = "disk" /\ lists.classes \in {"allowed", "refused"}
Allowed(c) == Known(c) /\ lists.classes = "allowed"

(* A slip for the mutants: the map's zero value read as a refusal. *)
RefusedUnknown(c) == ~Allowed(c)

Refused(c) == Known(c) /\ ~Allowed(c)

Growing(c) == c.requested > c.capacity

(* resizeVerdict: None is the empty verdict. *)
ResizeVerdict(c) ==
  IF c.capacity = 0 THEN None
  ELSE IF c.status \in {"ControllerResizeInfeasible", "NodeResizeInfeasible"} THEN "INFEASIBLE"
  ELSE IF c.conditions \cap {"ControllerResizeError", "NodeResizeError"} # {} THEN "FAILED"
  ELSE IF Growing(c) /\ Refused(c) THEN "SC-NO-EXPAND"
  ELSE IF "FileSystemResizePending" \in c.conditions \/ c.status = "NodeResizePending"
    THEN "FS-PENDING"
  ELSE IF "Resizing" \in c.conditions
          \/ c.status \in {"ControllerResizeInProgress", "NodeResizeInProgress"} THEN "RESIZING"
  ELSE IF Growing(c) THEN "PENDING"
  ELSE IF c.requested < c.capacity THEN "SHRINK"
  ELSE None

Judged == lists.claims # Unread /\ lists.classes # Unread /\ lists.claims # Failed

(* The namespaces with a row. *)
Listed == {n \in DOMAIN lists.claims : ResizeVerdict(lists.claims[n]) # None}

InScope(n) == lists.scope = {} \/ n \in lists.scope

(* podsForClaims: the namespaces whose pods are asked for. *)
Asked ==
  IF lists.scope # {} THEN lists.scope
  ELSE IF Cardinality(Listed) > MaxNamespaceFanout THEN NS
  ELSE Listed

(* Without a row the pods are never read. *)
Printed == Judged /\ (Listed = {} \/ lists.pods \notin {Unread, Failed})
Ended == Printed \/ lists.pods = Failed
         \/ (lists.claims = Failed /\ lists.classes # Unread)

(* The POD cell: claimMounts, looked up by namespace and name. *)
PodCell(n) == {p \in lists.pods : p.ns = n}

-----------------------------------------------------------------------------
(* What was true all along, or at some moment, since the command began.     *)

Short(c) == c.capacity > 0 /\ Growing(c)
Settled(c) == c.capacity = c.requested /\ c.status = None /\ c.conditions = {}

Init ==
  /\ \E s \in Starts : cluster = [claims |-> s.claims, class |-> s.class, pods |-> PodSet, changes |-> 0]
  /\ \E s \in Scopes : lists = [scope |-> s, claims |-> Unread, classes |-> Unread, pods |-> Unread]
  /\ past = [short |-> {n \in NS : Short(cluster.claims[n])},
             settled |-> {n \in NS : Settled(cluster.claims[n])},
             refused |-> cluster.class = "refused",
             stayed |-> cluster.pods, ever |-> cluster.pods]

World(c) ==
  /\ ~Ended /\ cluster.changes < MaxChanges
  /\ cluster' = [c EXCEPT !.changes = cluster.changes + 1]
  /\ past' = [short |-> {n \in past.short : Short(c.claims[n])},
              settled |-> {n \in past.settled : Settled(c.claims[n])},
              refused |-> past.refused \/ c.class = "refused",
              stayed |-> past.stayed \cap c.pods, ever |-> past.ever \cup c.pods]
  /\ UNCHANGED lists

Becomes(n, c) == World([cluster EXCEPT !.claims = [cluster.claims EXCEPT ![n] = c]])

At(n) == cluster.claims[n]

(* Users: a bigger request, or one taken back to recover. *)
Grow(n) ==
  \E s \in Sizes :
    /\ At(n).capacity > 0 /\ s > At(n).requested /\ At(n).class = "disk" /\ cluster.class = "allowed"
    /\ Becomes(n, [At(n) EXCEPT !.requested = s])

Recover(n) ==
  \E s \in Sizes :
    s < At(n).requested /\ s >= At(n).capacity /\ Becomes(n, [At(n) EXCEPT !.requested = s])

(* Volumes come no smaller than asked, and may be rounded up. *)
Fitted(n, c) == \E s \in {c.requested, c.requested + 1} :
  Becomes(n, [c EXCEPT !.capacity = s, !.status = None, !.conditions = {}])

Provision(n) == At(n).capacity = 0 /\ Fitted(n, At(n))

ControllerStart(n) ==
  /\ Short(At(n)) /\ At(n).status \in {None, "ControllerResizeInfeasible"}
  /\ Becomes(n, [At(n) EXCEPT !.status = "ControllerResizeInProgress", !.conditions = {"Resizing"}])

ControllerEnds(n) ==
  /\ At(n).status = "ControllerResizeInProgress"
  /\ \/ Becomes(n, [At(n) EXCEPT !.conditions = At(n).conditions \cup {"ControllerResizeError"}])
     \/ Becomes(n, [At(n) EXCEPT !.status = "ControllerResizeInfeasible"])
     \/ Becomes(n, [At(n) EXCEPT !.status = "NodeResizePending",
                                 !.conditions = {"FileSystemResizePending"}])
     \/ Fitted(n, At(n))

NodeStart(n) ==
  /\ At(n).status = "NodeResizePending"
  /\ Becomes(n, [At(n) EXCEPT !.status = "NodeResizeInProgress"])

NodeEnds(n) ==
  /\ At(n).status = "NodeResizeInProgress"
  /\ \/ Becomes(n, [At(n) EXCEPT !.conditions = At(n).conditions \cup {"NodeResizeError"}])
     \/ Becomes(n, [At(n) EXCEPT !.status = "NodeResizeInfeasible"])
     \/ Fitted(n, At(n))

ClassChanges ==
  \E a \in {"allowed", "refused", "gone"} \ {cluster.class} : World([cluster EXCEPT !.class = a])

PodChanges ==
  \E p \in PodSet :
    World([cluster EXCEPT !.pods = IF p \in @ THEN @ \ {p} ELSE @ \cup {p}])

ClaimStep(n) ==
  \/ Grow(n) \/ Recover(n) \/ Provision(n)
  \/ ControllerStart(n) \/ ControllerEnds(n) \/ NodeStart(n) \/ NodeEnds(n)

-----------------------------------------------------------------------------
(* PvcResize. *)

ReadClaims ==
  /\ lists.claims = Unread
  /\ \E l \in {[n \in {n \in NS : InScope(n)} |-> cluster.claims[n]], Failed} :
       lists' = [lists EXCEPT !.claims = l]
  /\ UNCHANGED <<cluster, past>>

(* An error is dropped: the policies stay unknown. *)
ReadClasses ==
  /\ lists.classes = Unread
  /\ \E l \in {cluster.class, "unknown"} : lists' = [lists EXCEPT !.classes = l]
  /\ UNCHANGED <<cluster, past>>

ReadPods ==
  /\ Judged /\ Listed # {} /\ lists.pods = Unread
  /\ \E l \in {{p \in cluster.pods : p.ns \in Asked}, Failed} : lists' = [lists EXCEPT !.pods = l]
  /\ UNCHANGED <<cluster, past>>

Over == Ended /\ UNCHANGED vars

Next ==
  \/ \E n \in NS : ClaimStep(n)
  \/ ClassChanges \/ PodChanges
  \/ ReadClaims \/ ReadClasses \/ ReadPods \/ Over

Spec == Init /\ [][Next]_vars

-----------------------------------------------------------------------------
(* Properties. *)

TypeOK ==
  /\ cluster.claims \in [NS -> Claim] /\ cluster.class \in {"allowed", "refused", "gone"}
  /\ lists.scope \in Scopes
  /\ past.short \subseteq NS /\ past.settled \subseteq NS /\ past.stayed \subseteq past.ever

(* An expansion that never landed is never taken for one that did: a claim  *)
(* short of its request all along has a row, and not the one that says the  *)
(* spec was lowered; a claim at rest all along has none. Nobody is told to  *)
(* migrate for nothing: SC-NO-EXPAND means the class did refuse at some     *)
(* moment, and a list of classes that failed accuses none. And the pods to  *)
(* restart are the claim's own, whichever route listed them.                *)
ExpansionTold ==
  Printed =>
    /\ \A n \in past.short : InScope(n) =>
         n \in Listed /\ ResizeVerdict(lists.claims[n]) # "SHRINK"
    /\ \A n \in Listed :
         /\ n \notin past.settled
         /\ ResizeVerdict(lists.claims[n]) = "SC-NO-EXPAND" => past.refused
         /\ {p \in past.stayed : p.ns = n} \subseteq PodCell(n)
         /\ PodCell(n) \subseteq past.ever
=============================================================================
