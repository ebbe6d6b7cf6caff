---------------------------- MODULE Disruptions -----------------------------
(***************************************************************************)
(* The pdb command (view/pdb.go): a drain-safety verdict from the status   *)
(* of a PodDisruptionBudget, one list and so one instant.                  *)
(*                                                                         *)
(* External: the disruption controller that writes the status, and the     *)
(* eviction API that admits a drain by it, while pods and the budget       *)
(* change.  With an absolute minAvailable the controller's expectedPods    *)
(* counts the pods there are, with maxUnavailable the replicas wanted.     *)
(***************************************************************************)
EXTENDS Integers

CONSTANTS
  MaxReplicas,  \* bound: replicas of the workload
  MaxChanges    \* bound: steps of users, pods and evictions

VARIABLES
  cluster,   \* [replicas, policy, generation, healthy, unhealthy, status, changes]
  lists,     \* unused: the verdict is read off the cluster in one instant
  past       \* unused

vars == <<cluster, lists, past>>

Policies == [type : {"minAvailable", "maxUnavailable"}, n : 0..MaxReplicas]

Unobserved == [observed |-> 0, expected |-> 0, desired |-> 0, healthy |-> 0, allowed |-> 0]

Larger(a, b) == IF a > b THEN a ELSE b

-----------------------------------------------------------------------------
(* The code. *)

(* A slip for the mutants: the floor compared the wrong way round. *)
PermablockSwapped(s) == s.expected >= s.desired

Permablock(s) == s.desired >= s.expected

PdbVerdict(s) ==
  IF s.expected = 0 THEN "ORPHAN"
  ELSE IF s.desired = 0 /\ s.expected >= 2 THEN "NO-GUARD"
  ELSE IF Permablock(s) THEN "PERMABLOCK"
  ELSE IF s.allowed = 0 /\ s.healthy < s.desired THEN "BLOCKED"
  ELSE IF s.allowed = 0 THEN "AT-FLOOR"
  ELSE "OK"

Verdict == PdbVerdict(cluster.status)

-----------------------------------------------------------------------------
(* External. *)

Init ==
  /\ \E r \in 0..MaxReplicas, p \in Policies :
       cluster = [replicas |-> r, policy |-> p, generation |-> 1, healthy |-> r, unhealthy |-> 0,
                  status |-> Unobserved, changes |-> 0]
  /\ lists = <<>> /\ past = <<>>

Step(c) ==
  /\ cluster.changes < MaxChanges
  /\ cluster' = [c EXCEPT !.changes = cluster.changes + 1]
  /\ UNCHANGED <<lists, past>>

EditPolicy ==
  \E p \in Policies :
    p # cluster.policy /\ Step([cluster EXCEPT !.policy = p, !.generation = @ + 1])

Scale == \E r \in 0..MaxReplicas : r # cluster.replicas /\ Step([cluster EXCEPT !.replicas = r])

Pods == cluster.healthy + cluster.unhealthy

Start == Pods < cluster.replicas /\ Step([cluster EXCEPT !.unhealthy = @ + 1])

Stop == Pods > cluster.replicas /\ cluster.healthy > 0 /\ Step([cluster EXCEPT !.healthy = @ - 1])

BecomeHealthy ==
  cluster.unhealthy > 0 /\ Step([cluster EXCEPT !.unhealthy = @ - 1, !.healthy = @ + 1])

Fail == cluster.healthy > 0 /\ Step([cluster EXCEPT !.unhealthy = @ + 1, !.healthy = @ - 1])

(* The disruption controller writes the status. *)
Sync ==
  LET p == cluster.policy
      expected == IF p.type = "minAvailable" THEN Pods ELSE cluster.replicas
      desired == IF p.type = "minAvailable" THEN p.n ELSE Larger(0, expected - p.n)
      status == [observed |-> cluster.generation, expected |-> expected, desired |-> desired,
                 healthy |-> cluster.healthy,
                 allowed |-> IF expected = 0 THEN 0 ELSE Larger(0, cluster.healthy - desired)]
  IN
    /\ status # cluster.status
    /\ cluster' = [cluster EXCEPT !.status = status]
    /\ UNCHANGED <<lists, past>>

(* The eviction API on a healthy pod: refused on a status it does not trust *)
(* or with nothing allowed; else the allowance is taken at once and the pod *)
(* goes.                                                                    *)
Evictable == cluster.status.observed = cluster.generation /\ cluster.status.allowed > 0

Evict ==
  /\ Evictable /\ cluster.healthy > 0
  /\ Step([cluster EXCEPT !.healthy = @ - 1, !.status.allowed = @ - 1])

Idle == cluster.changes = MaxChanges /\ UNCHANGED vars

Next ==
  \/ EditPolicy \/ Scale \/ Start \/ Stop \/ BecomeHealthy \/ Fail \/ Sync \/ Evict \/ Idle

Spec == Init /\ [][Next]_vars

-----------------------------------------------------------------------------
(* Properties. *)

TypeOK ==
  /\ cluster.policy \in Policies
  /\ cluster.replicas \in 0..MaxReplicas
  /\ cluster.healthy >= 0 /\ cluster.unhealthy >= 0
  /\ cluster.status.allowed >= 0 /\ cluster.status.observed <= cluster.generation

(* A drain goes the way the verdict says: no healthy pod can be evicted     *)
(* while the budget reads ORPHAN, PERMABLOCK, BLOCKED or AT-FLOOR, save the *)
(* surplus of a scale-down in progress, and OK on an observed budget means  *)
(* the next eviction is admitted.                                           *)
DrainForetold ==
  /\ Evictable /\ cluster.status.healthy <= cluster.status.expected => Verdict \in {"OK", "NO-GUARD"}
  /\ Verdict = "OK" /\ cluster.status.observed = cluster.generation => Evictable
=============================================================================
