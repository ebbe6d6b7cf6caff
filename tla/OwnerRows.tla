----------------------------- MODULE OwnerRows ------------------------------
(***************************************************************************)
(* --by-owner (view/byowner.go): one row per workload instead of per pod,  *)
(* from the built-in controllers, which must be readable, and from custom  *)
(* resources that may be missing, forbidden, or served in an old version.  *)
(*                                                                         *)
(* A list over a scope is one read per namespace here, each at its own     *)
(* instant, and fails with its first error in scope order: what ListAtomic *)
(* promises and ListFetch is shown to keep.                                *)
(***************************************************************************)
EXTENDS FiniteSets, Lists

CONSTANTS
  Closures,     \* kinds in the order workloadPods hands them to Concurrent
  BuiltIn,      \* those of them every apiserver serves
  Strimzi,      \* the kind read at v1, then at v1beta2
  Namespaces,   \* the scope, in order; a cluster-wide list is one entry
  Failures,     \* errors a read can end in whatever the cluster holds
  Objects,      \* the workloads that may exist, see Object
  Clusters,     \* what may exist at the start: subsets of Objects
  Denials,      \* what the user may be denied: sets of <<kind, namespace>>
  None,         \* nil
  Unread,       \* a namespace not read yet
  MaxChanges    \* bound: changes to the cluster meanwhile

Kinds == Range(Closures)
NS == Range(Namespaces)
Versions == {"v1", "v1beta2"}

(* The apiserver refuses a kind it does not serve or the user may not list. *)
Errors == Failures \cup {"notfound", "forbidden"}

(* How an object's pod spec can read: see Readable. *)
Shapes == {"template", "empty", "malformed"}

Object == [kind : Kinds, ns : NS, shape : Shapes]

ASSUME RowsAssumption ==
  /\ Closures \in Seq(Kinds) /\ Namespaces \in Seq(NS)
  /\ BuiltIn \subseteq Kinds /\ Strimzi \in Kinds \ BuiltIn
  /\ \A i, j \in DOMAIN Closures : Closures[i] = Closures[j] => i = j
  /\ \A i, j \in DOMAIN Namespaces : Namespaces[i] = Namespaces[j] => i = j
  /\ Objects \subseteq Object /\ IsFiniteSet(Objects) /\ Clusters \subseteq SUBSET Objects
  /\ \A o \in Objects : o.kind \in BuiltIn => o.shape = "template"
  /\ Denials \subseteq SUBSET (Kinds \X NS)
  /\ None \notin Errors /\ MaxChanges \in Nat
  /\ Failures \cap {"notfound", "forbidden"} = {}

VARIABLES
  objects,   \* the workloads that exist
  served,    \* kind -> versions of it the apiserver serves
  denied,    \* <<kind, namespace>> pairs the user may not list
  version,   \* the version each closure lists
  reads,     \* kind -> namespace -> Unread, or [err, items]
  ret,       \* kind -> [done, err, items]: what its closure left behind
  answer,    \* what workloadPods returned
  changes,   \* how often the cluster changed (bound)
  stayed,    \* workloads that existed all along (history)
  ever,      \* workloads that existed at some point (history)
  steady     \* <<kind, version>> pairs served all along (history)

cluster == <<objects, served, denied>>
history == <<changes, stayed, ever, steady>>
vars == <<cluster, version, reads, ret, answer, history>>

Served(k, v) == v \in served[k]

Init ==
  /\ objects \in Clusters
  /\ served \in [Kinds -> SUBSET Versions]
  /\ \A k \in Kinds : k \in BuiltIn => served[k] = {"v1"}
  /\ \A k \in Kinds \ BuiltIn : k # Strimzi => served[k] \subseteq {"v1"}
  /\ denied \in Denials
  /\ version = [k \in Kinds |-> "v1"]
  /\ reads = [k \in Kinds |-> [n \in NS |-> Unread]]
  /\ ret = [k \in Kinds |-> [done |-> FALSE, err |-> None, items |-> <<>>]]
  /\ answer = [done |-> FALSE, err |-> None, rows |-> <<>>]
  /\ changes = 0
  /\ stayed = objects
  /\ ever = objects
  /\ steady = {p \in Kinds \X Versions : Served(p[1], p[2])}

-----------------------------------------------------------------------------
(* External: the cluster moves on while the closures read.                  *)

ClusterStep ==
  /\ changes < MaxChanges
  /\ changes' = changes + 1
  /\ UNCHANGED <<denied, version, reads, ret, answer>>

Create(o) ==
  /\ o \notin objects
  /\ ClusterStep
  /\ objects' = objects \cup {o}
  /\ ever' = ever \cup {o}
  /\ UNCHANGED <<served, stayed, steady>>

Delete(o) ==
  /\ o \in objects
  /\ ClusterStep
  /\ objects' = objects \ {o}
  /\ stayed' = stayed \ {o}
  /\ UNCHANGED <<served, ever, steady>>

(* An operator upgrade adds v1, then retires v1beta2; an uninstall drops a  *)
(* version that was the last one.                                           *)
Upgrade(k, v) ==
  /\ k \notin BuiltIn
  /\ v = "v1" \/ k = Strimzi
  /\ ClusterStep
  /\ served' = [served EXCEPT ![k] = IF v \in @ THEN @ \ {v} ELSE @ \cup {v}]
  /\ steady' = steady \ {<<k, v>>}
  /\ UNCHANGED <<objects, stayed, ever>>

-----------------------------------------------------------------------------
(* The closures. *)

Answered(items) == [err |-> None, items |-> items]
Failed(e) == [err |-> e, items |-> <<>>]

Listing(k, n) == SetToSeq({o \in objects : o.kind = k /\ o.ns = n})

(* One namespace of a closure's list, read at this instant. *)
Outcomes(k, n) ==
  {Failed(e) : e \in Failures} \cup
    {IF ~Served(k, version[k]) THEN Failed("notfound")
     ELSE IF <<k, n>> \in denied THEN Failed("forbidden")
     ELSE Answered(Listing(k, n))}

Read(k, n) ==
  /\ ~ret[k].done
  /\ reads[k][n] = Unread
  /\ \E r \in Outcomes(k, n) : reads' = [reads EXCEPT ![k][n] = r]
  /\ UNCHANGED <<cluster, version, ret, answer, history>>

(* listScoped's result: the first error in scope order, else everything.    *)
AllRead(k) == \A n \in NS : reads[k][n] # Unread

Least(S) == CHOOSE i \in S : \A j \in S : i <= j

ListError(k) ==
  LET bad == {i \in DOMAIN Namespaces : reads[k][Namespaces[i]].err # None}
  IN  IF bad = {} THEN None ELSE reads[k][Namespaces[Least(bad)]].err

Listed(k) ==
  FlattenSeq([i \in DOMAIN Namespaces |-> reads[k][Namespaces[i]].items])

Absent(e) == e \in {"notfound", "forbidden"}

Settle(k, e, items) ==
  /\ ret' = [ret EXCEPT ![k] = [done |-> TRUE, err |-> e, items |-> items]]
  /\ UNCHANGED <<cluster, version, reads, answer, history>>

(* What a list call returned: its items, or nothing and its error. *)
SettleListed(k) ==
  Settle(k, ListError(k), IF ListError(k) = None THEN Listed(k) ELSE <<>>)

(* A slip for the mutants: a built-in kind read like an optional one. *)
ReturnLenient(k) ==
  /\ k \in BuiltIn
  /\ ~ret[k].done /\ AllRead(k)
  /\ IF Absent(ListError(k)) THEN Settle(k, None, <<>>) ELSE SettleListed(k)

(* builtinWorkloads.listers: every error counts. *)
ReturnBuiltIn(k) ==
  /\ k \in BuiltIn
  /\ ~ret[k].done /\ AllRead(k)
  /\ SettleListed(k)

(* optionalCRD: a kind that cannot be read leaves its rows out. *)
ReturnOptional(k) ==
  /\ k \notin BuiltIn \cup {Strimzi}
  /\ ~ret[k].done /\ AllRead(k)
  /\ IF Absent(ListError(k)) THEN Settle(k, None, <<>>) ELSE SettleListed(k)

(* listStrimziPodSets, first half: v1 is not there, so v1beta2 is listed.   *)
FallBack ==
  /\ version[Strimzi] = "v1"
  /\ ~ret[Strimzi].done /\ AllRead(Strimzi)
  /\ Absent(ListError(Strimzi))
  /\ version' = [version EXCEPT ![Strimzi] = "v1beta2"]
  /\ reads' = [reads EXCEPT ![Strimzi] = [n \in NS |-> Unread]]
  /\ UNCHANGED <<cluster, ret, answer, history>>

(* ... and the answer of whichever version: neither there is no error.      *)
ReturnStrimzi ==
  /\ ~ret[Strimzi].done /\ AllRead(Strimzi)
  /\ IF Absent(ListError(Strimzi))
       THEN version[Strimzi] = "v1beta2" /\ Settle(Strimzi, None, <<>>)
       ELSE SettleListed(Strimzi)

-----------------------------------------------------------------------------
(* workloadPods, once Concurrent is back. *)

(* Which objects become a synthetic pod.  A malformed custom resource is    *)
(* skipped, and so is a PodSet whose spec.pods is empty; a Rollout with no  *)
(* template and a Cluster with no resources still make one.                 *)
Readable(o) ==
  \/ o.kind \in BuiltIn
  \/ o.shape = "template"
  \/ o.shape = "empty" /\ o.kind # Strimzi

(* A slip for the mutants: one malformed object ends the loop. *)
RowsUntilBad(items) ==
  LET n == SelectInSeq(items, LAMBDA o : ~Readable(o))
  IN  IF n = 0 THEN items ELSE SubSeq(items, 1, n - 1)

Rows(items) == Kept(items, {o \in Range(items) : Readable(o)})

FirstFailure ==
  LET bad == {i \in DOMAIN Closures : ret[Closures[i]].err # None}
  IN  IF bad = {} THEN None ELSE ret[Closures[Least(bad)]].err

Return ==
  /\ ~answer.done
  /\ \A k \in Kinds : ret[k].done
  /\ answer' = [done |-> TRUE, err |-> FirstFailure,
                rows |-> IF FirstFailure # None THEN <<>>
                         ELSE Rows(FlattenSeq([i \in DOMAIN Closures |->
                                                 ret[Closures[i]].items]))]
  /\ UNCHANGED <<cluster, version, reads, ret, history>>

Returned == answer.done /\ UNCHANGED vars

Next ==
  \/ \E o \in Objects : Create(o) \/ Delete(o)
  \/ \E k \in Kinds, v \in Versions : Upgrade(k, v)
  \/ \E k \in Kinds, n \in NS : Read(k, n)
  \/ \E k \in Kinds : ReturnBuiltIn(k) \/ ReturnOptional(k)
  \/ FallBack \/ ReturnStrimzi \/ Return \/ Returned

Spec == Init /\ [][Next]_vars

-----------------------------------------------------------------------------
(* Properties. *)

TypeOK ==
  /\ objects \subseteq Objects /\ stayed \subseteq objects
  /\ served \in [Kinds -> SUBSET Versions]
  /\ version \in [Kinds -> Versions]
  /\ DOMAIN reads = Kinds /\ DOMAIN ret = Kinds
  /\ \A k \in Kinds : DOMAIN reads[k] = NS
  /\ \A k \in Kinds, n \in NS :
       reads[k][n] = Unread \/ reads[k][n].err \in Errors \cup {None}
  /\ \A k \in Kinds : ret[k].done \in BOOLEAN /\ ret[k].err \in Errors \cup {None}
  /\ answer.done \in BOOLEAN /\ answer.err \in Errors \cup {None}

Good == answer.done /\ answer.err = None

Times(o) == Cardinality({i \in DOMAIN answer.rows : answer.rows[i] = o})

(* A kind the user could have listed at any time, at one version, in every  *)
(* namespace of the scope.                                                  *)
Listable(k) ==
  /\ \A n \in NS : <<k, n>> \notin denied
  /\ \E v \in Versions : <<k, v>> \in steady

(* A table that comes back has one row for every workload that was there    *)
(* all along, whatever the neighbours' shapes and whichever version of the  *)
(* PodSets is served while an operator upgrade is under way: none missing,  *)
(* none twice.  Only a kind refused in some namespace of the scope is left  *)
(* out (workloadPods, listStrimziPodSets, optionalCRD).                     *)
(* And no row is without an object: every row is a workload that existed    *)
(* while the command ran, and none appears twice.                           *)
RowsExact ==
  /\ Good => \A o \in stayed : Listable(o.kind) /\ Readable(o) => Times(o) = 1
  /\ \A i \in DOMAIN answer.rows :
       answer.rows[i] \in ever /\ Times(answer.rows[i]) = 1

(* A custom resource that is missing or forbidden never costs the user the  *)
(* table (absentCRD): only a built-in kind can fail it that way. And a      *)
(* built-in kind that could not be read whole never passes for an empty     *)
(* one: the table without its rows is not shown, and no table comes with an *)
(* error.                                                                   *)
ErrorsWeighed ==
  /\ answer.err \in {"notfound", "forbidden"} =>
       \E k \in BuiltIn, n \in NS : reads[k][n].err = answer.err
  /\ Good => \A k \in BuiltIn, n \in NS : reads[k][n].err = None
  /\ answer.err # None => answer.rows = <<>>

(* What listAll's comment promises of a list cut short by the server: it    *)
(* surfaces as an error, not as a silent short read.  Kinds the apiserver   *)
(* does not serve have no rows to lose.                                     *)
NoSilentShortRead ==
  Good => \A k \in Kinds, n \in NS :
            reads[k][n].err \in Failures => \A v \in Versions : <<k, v>> \notin steady
=============================================================================
