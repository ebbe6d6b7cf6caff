------------------------------ MODULE ListDefs ------------------------------
(***************************************************************************)
(* Vocabulary shared by the specifications of kube/list.go: which walks a  *)
(* list call is made of, what each one asks the apiserver for, and how the *)
(* results of a call's walks are put together.                             *)
(*                                                                         *)
(* A view hands Concurrent one closure per kind it reads; those closures   *)
(* are the calls 1..NumCalls, in argument order.  A call is split by       *)
(* listScoped into walks <<c, i>>, one per goroutine that drains one       *)
(* paginated collection.                                                   *)
(***************************************************************************)
EXTENDS Integers, Sequences, FiniteSets, SequencesExt, Lists

CONSTANTS
  NumCalls,           \* closures handed to the view's Concurrent
  ClusterScoped,      \* calls that list a cluster-scoped kind (nodes, PVs...)
  Names,              \* Scope.Names(): <<>> is the whole cluster
  AllNamespaces,      \* the namespace argument "", a cluster-wide List
  MaxNamespaceFanout, \* widest scope that is still fanned out
  ServerStates,       \* what a kind can look like to the apiserver: a List
                      \* response, complete and in key order, per target
  ServerErrors,       \* failures the apiserver can answer a List with
  None                \* a nil error

(* Each one is a List wrapper bound to its client: scoped or cluster.       *)
Calls == 1..NumCalls

(* Every error a List can return.  client-go and the transport add three    *)
(* of their own to those of the server.                                     *)
Errors == ServerErrors \cup {"gone", "timeout", "canceled"}

FansOut(c) == c \notin ClusterScoped /\ Len(Names) \in 2..MaxNamespaceFanout

(* listWideFiltered: too wide to fan out, one cluster-wide List filtered. *)
Filters(c) == c \notin ClusterScoped /\ Len(Names) > MaxNamespaceFanout

Width(c) == IF FansOut(c) THEN Len(Names) ELSE 1

Walks == UNION { {c} \X (1..Width(c)) : c \in Calls }

(* The namespace a walk binds its page function to. *)
Target(w) ==
  IF FansOut(w[1]) THEN Names[w[2]]
  ELSE IF w[1] \notin ClusterScoped /\ Len(Names) = 1 THEN Names[1]
  ELSE AllNamespaces

InScope(item) == item.ns \in Range(Names)

(* The loop of listWideFiltered, which compacts in place. *)
Filtered(items) == Kept(items, {o \in Range(items) : InScope(o)})

(* Slips of Assemble and of FirstError, for the mutants: the filter         *)
(* forgotten, the parts as they finished, the last error instead.           *)
AssembleUnfiltered(c, parts) == FlattenSeq(parts)
AssembleBackwards(c, parts) == FlattenSeq(Reverse(parts))
LastError(errs, n) ==
  IF \E i \in 1..n : errs[i] # None
    THEN errs[CHOOSE i \in 1..n : /\ errs[i] # None
                                  /\ \A j \in i+1..n : errs[j] = None]
    ELSE None

(* What listScoped returns, given what each walk of the call returned. *)
Assemble(c, parts) ==
  IF Filters(c) THEN Filtered(parts[1]) ELSE FlattenSeq(parts)

(* cmp.Or over the errors of 1..n: the first non-nil one, in order. *)
FirstError(errs, n) ==
  IF \E i \in 1..n : errs[i] # None
    THEN errs[CHOOSE i \in 1..n : /\ errs[i] # None
                                  /\ \A j \in 1..i-1 : errs[j] = None]
    ELSE None

Targets == Range(Names) \cup {AllNamespaces}

Items == UNION { UNION { Range(s[t]) : t \in Targets } : s \in ServerStates }

ASSUME ScopeAssumption ==
  /\ NumCalls \in Nat \ {0}
  /\ MaxNamespaceFanout \in Nat \ {0}
  /\ Names \in Seq(Range(Names))
  /\ AllNamespaces \notin Range(Names)
  /\ None \notin Errors
  /\ \A s \in ServerStates, t \in Targets : s[t] \in Seq(Items)

(* ResolveScope lists a namespace once, and the apiserver an object: a List *)
(* of a namespace is the cluster-wide one without the others.               *)
ASSUME ListingAssumption ==
  /\ IsInjective(Names)
  /\ \A s \in ServerStates : LET all == s[AllNamespaces] IN
       /\ IsInjective(all)
       /\ \A n \in Range(Names) : s[n] = Kept(all, {o \in Range(all) : o.ns = n})
=============================================================================
