-------------------------- MODULE NetworkPolicies ---------------------------
(***************************************************************************)
(* The netpol command (view/netpol.go): per direction, how the policies of *)
(* a namespace cover its pods, from a list of pods and a list of policies  *)
(* that are read at two instants.                                          *)
(*                                                                         *)
(* What the policies do to traffic is external, and modelled from the      *)
(* NetworkPolicy API: a pod no policy selects for a direction is open, one *)
(* that is selected admits what some rule of a selecting policy admits.    *)
(***************************************************************************)
EXTENDS Integers, FiniteSets

CONSTANTS
  PodSet,       \* the pods that may exist, see Pod
  PolicySet,    \* the policies that may exist, see Policy
  Scopes,       \* the scopes of the command lines: sets of namespaces
  Starts,       \* what may exist at the start: [pods, policies]
  Unread,       \* a list not read yet
  Failed,       \* a list that ended in an error
  MaxChanges    \* bound: changes to the cluster meanwhile

VARIABLES
  cluster,   \* [pods, policies, changes]: what exists
  lists,     \* [scope, pods, policies]: what the command asked for and read
  past       \* history of the command: see Observe

vars == <<cluster, lists, past>>

Directions == {"ingress", "egress"}

(* The peers of a rule: an IPv4 or IPv6 block with everything in it, or     *)
(* something narrower - a selector, a smaller block, one with exceptions.   *)
Peers == {"any4", "any6", "narrow"}

Rule == [peers : SUBSET Peers, ports : BOOLEAN]

(* What the code reads of a pod and of a policy; selects is what the        *)
(* podSelector matches, among the label sets pods carry.                    *)
PodFields == {"ns", "name", "labels", "hostNetwork", "finished"}
PolicyFields == {"ns", "name", "selects", "types", "rules"}

-----------------------------------------------------------------------------
(* External: what reaches a pod. *)

Traffic == {"v4", "v4 inside", "v6"} \X {"listed port", "other port"}

Covers(peer, source) ==
  CASE peer = "any4" -> source # "v6"
    [] peer = "any6" -> source = "v6"
    [] peer = "narrow" -> source = "v4 inside"

Admits(r, t) ==
  /\ r.peers = {} \/ \E p \in r.peers : Covers(p, t[1])
  /\ r.ports => t[2] = "listed port"

Isolating(c, p, d) == {q \in c.policies : q.ns = p.ns /\ p.labels \in q.selects /\ d \in q.types}

Admitted(c, p, d) ==
  IF Isolating(c, p, d) = {} THEN Traffic
  ELSE {t \in Traffic : \E q \in Isolating(c, p, d) : \E r \in q.rules[d] : Admits(r, t)}

-----------------------------------------------------------------------------
(* The code. *)

(* A slip for the mutants: a policy governs both directions. *)
PolicyTypesBoth(q) == Directions

(* policyTypes. *)
PolicyTypes(q) ==
  IF q.types # {} THEN q.types
  ELSE {"ingress"} \cup (IF q.rules["egress"] = {} THEN {} ELSE {"egress"})

AllowsAnyPeer(r) == ~r.ports /\ (r.peers = {} \/ r.peers \cap {"any4", "any6"} # {})

Selecting(pols, p, d) ==
  {q \in pols : q.ns = p.ns /\ d \in PolicyTypes(q) /\ p.labels \in q.selects}

(* A slip for the mutants: one policy without rules is enough. *)
AnyDeny(sel, d) == \E q \in sel : q.rules[d] = {}

AllDeny(sel, d) == \A q \in sel : q.rules[d] = {}

PodCoverage(pols, p, d) ==
  LET sel == Selecting(pols, p, d) IN
    IF sel = {} THEN "OPEN"
    ELSE IF \E q \in sel : \E r \in q.rules[d] : AllowsAnyPeer(r) THEN "ALLOW-ALL"
    ELSE IF AllDeny(sel, d) THEN "DENY"
    ELSE "RESTRICTED"

Finished(p) == p.finished

(* npEligible. *)
Eligible(p) == ~p.hostNetwork /\ ~Finished(p)

(* npTally and its verdict; PARTIAL's counts are left out. *)
Rollup(covered) ==
  LET said == {c[2] : c \in covered} IN
    IF covered = {} THEN "NO-PODS"
    ELSE IF said = {"OPEN"} THEN "OPEN"
    ELSE IF "ALLOW-ALL" \in said THEN "ALLOW-ALL"
    ELSE IF "OPEN" \in said THEN "PARTIAL"
    ELSE IF said = {"DENY"} THEN "DEFAULT-DENY"
    ELSE "RESTRICTED"

(* Netpol: a scope of one namespace is shown pod by pod. *)
PerPod == Cardinality(lists.scope) = 1

(* The pods asked for: both field selectors leave out the finished ones. *)
Asked(p) == p.ns \in lists.scope /\ (IF PerPod THEN ~Finished(p) ELSE Eligible(p))

AllRead == lists.pods # Unread /\ lists.policies # Unread
Printed == AllRead /\ lists.pods # Failed /\ lists.policies # Failed

(* The rows: one per pod, or one per namespace with a pod or a policy. *)
Rows ==
  IF PerPod THEN {p \in lists.pods : ~Finished(p)}
  ELSE {p.ns : p \in lists.pods} \cup {q.ns : q \in lists.policies}

(* netpolPods and netpolNamespaces: the cell of a row in one direction. *)
Cell(row, d) ==
  IF PerPod
  THEN IF row.hostNetwork THEN "HOST-NETWORK" ELSE PodCoverage(lists.policies, row, d)
  ELSE Rollup({<<p, PodCoverage(lists.policies, p, d)>> :
                 p \in {x \in lists.pods : x.ns = row /\ Eligible(x)}})

RowOf(p) == IF PerPod THEN p ELSE p.ns

-----------------------------------------------------------------------------
(* What was true at every moment of the command, or at one: the pods there  *)
(* all along, those of them that admitted everything all along, and those   *)
(* that some moment saw admit nothing.                                      *)
Observe(c) ==
  [stayed  |-> c.pods,
   open    |-> {x \in c.pods \X Directions : Admitted(c, x[1], x[2]) = Traffic},
   blocked |-> {x \in c.pods \X Directions : Admitted(c, x[1], x[2]) = {}}]

Moment(c) ==
  past' = [stayed  |-> past.stayed \cap c.pods,
           open    |-> past.open \cap Observe(c).open,
           blocked |-> past.blocked \cup Observe(c).blocked]

Init ==
  /\ \E s \in Starts : cluster = [pods |-> s.pods, policies |-> s.policies, changes |-> 0]
  /\ \E s \in Scopes : lists = [scope |-> s, pods |-> Unread, policies |-> Unread]
  /\ past = Observe(cluster)

(* External: pods and policies come and go, until both lists are read: what *)
(* happens later does not matter.                                           *)
Toggled(S, x) == IF x \in S THEN S \ {x} ELSE S \cup {x}

Change(pods, policies) ==
  /\ ~AllRead /\ cluster.changes < MaxChanges
  /\ cluster' = [pods |-> pods, policies |-> policies, changes |-> cluster.changes + 1]
  /\ Moment(cluster')
  /\ UNCHANGED lists

PodChange == \E p \in PodSet : Change(Toggled(cluster.pods, p), cluster.policies)

PolicyChange == \E q \in PolicySet : Change(cluster.pods, Toggled(cluster.policies, q))

ReadPods ==
  /\ lists.pods = Unread
  /\ \E l \in {{p \in cluster.pods : Asked(p)}, Failed} : lists' = [lists EXCEPT !.pods = l]
  /\ UNCHANGED <<cluster, past>>

ReadPolicies ==
  /\ lists.policies = Unread
  /\ \E l \in {{q \in cluster.policies : q.ns \in lists.scope}, Failed} :
       lists' = [lists EXCEPT !.policies = l]
  /\ UNCHANGED <<cluster, past>>

Over == AllRead /\ UNCHANGED vars

Next == PodChange \/ PolicyChange \/ ReadPods \/ ReadPolicies \/ Over

Spec == Init /\ [][Next]_vars

-----------------------------------------------------------------------------
(* Properties. *)

TypeOK ==
  /\ cluster.pods \subseteq PodSet /\ cluster.policies \subseteq PolicySet
  /\ lists.scope \in Scopes
  /\ past.open \subseteq past.stayed \X Directions
  /\ \A p \in PodSet : DOMAIN p = PodFields
  /\ \A q \in PolicySet : DOMAIN q = PolicyFields /\ q.types # {} /\ \A d \in Directions : q.rules[d] \subseteq Rule

(* No gap is hidden: a pod that admitted everything all along shows as      *)
(* OPEN or ALLOW-ALL, and a namespace with one as those or PARTIAL,         *)
(* whatever came and went between the two lists.                            *)
GapTold ==
  Printed => \A x \in past.open :
    x[1].ns \in lists.scope /\ Eligible(x[1]) =>
      /\ RowOf(x[1]) \in Rows
      /\ Cell(RowOf(x[1]), x[2]) \in {"OPEN", "ALLOW-ALL"} \cup (IF PerPod THEN {} ELSE {"PARTIAL"})

(* DENY and DEFAULT-DENY are true: at some moment of the command nothing    *)
(* reached the pod, or any pod the namespace had all along.                 *)
DenyTold ==
  Printed => \A p \in past.stayed : \A d \in Directions :
    p.ns \in lists.scope /\ Eligible(p) /\ Cell(RowOf(p), d) \in {"DENY", "DEFAULT-DENY"} =>
      <<p, d>> \in past.blocked
=============================================================================
