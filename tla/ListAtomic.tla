----------------------------- MODULE ListAtomic -----------------------------
(***************************************************************************)
(* What kube.Concurrent over list calls promises a view, with the paging,  *)
(* the semaphore and the goroutines left out.                              *)
(*                                                                         *)
(* Each collection is read in ONE instant.  The view then gets either a    *)
(* complete result for every call, or the first failure in argument order  *)
(* and nothing else.  Different collections may be read at different       *)
(* instants: that much tearing is part of the promise.                     *)
(***************************************************************************)
EXTENDS Integers

CONSTANTS
  Calls,            \* the calls of a view, in argument order
  Walks,            \* <<c, i>>: the i-th collection call c reads
  Width(_),         \* how many collections a call reads
  Target(_),        \* what a walk asks the apiserver for
  Assemble(_, _),   \* what a call makes of what its collections held
  ServerStates, Errors, None,
  NotRead           \* a collection nobody has read yet

VARIABLES
  store,    \* the cluster: [Calls -> ServerStates], one kind per call
  seen,     \* what each collection looked like when it was read
  failed,   \* the error each collection's read ended in, or None
  answer    \* [done, err, lists]: what Concurrent gave the view

vars == <<store, seen, failed, answer>>

Pending == [done |-> FALSE, err |-> None, lists |-> <<>>]

Read(c) == [i \in 1..Width(c) |-> seen[<<c, i>>]]

Init ==
  /\ store \in [Calls -> ServerStates]
  /\ seen = [w \in Walks |-> NotRead]
  /\ failed = [w \in Walks |-> None]
  /\ answer = Pending

(* The cluster moves on, in no order related to the reads. *)
Change(c) ==
  /\ \E s \in ServerStates : store' = [store EXCEPT ![c] = s]
  /\ UNCHANGED <<seen, failed, answer>>

ReadOnce(w) ==
  /\ ~answer.done
  /\ seen[w] = NotRead
  /\ seen' = [seen EXCEPT ![w] = store[w[1]][Target(w)]]
  /\ UNCHANGED <<store, failed, answer>>

(* A read can still fail after its instant: the answer was lost on its way. *)
Fail(w) ==
  /\ ~answer.done
  /\ failed[w] = None
  /\ \E e \in Errors : failed' = [failed EXCEPT ![w] = e]
  /\ UNCHANGED <<store, seen, answer>>

(* Argument order of the nested Concurrents: calls first, then namespaces. *)
Before(v, w) == v[1] < w[1] \/ (v[1] = w[1] /\ v[2] < w[2])

Succeed ==
  /\ ~answer.done
  /\ \A w \in Walks : seen[w] # NotRead /\ failed[w] = None
  /\ answer' = [done |-> TRUE, err |-> None,
                lists |-> [c \in Calls |-> Assemble(c, Read(c))]]
  /\ UNCHANGED <<store, seen, failed>>

Refuse(w) ==
  /\ ~answer.done
  /\ failed[w] # None
  /\ \A v \in Walks : failed[v] # None \/ seen[v] # NotRead
  /\ \A v \in Walks : Before(v, w) => failed[v] = None
  /\ answer' = [done |-> TRUE, err |-> failed[w], lists |-> <<>>]
  /\ UNCHANGED <<store, seen, failed>>

Next ==
  \/ \E c \in Calls : Change(c)
  \/ \E w \in Walks : ReadOnce(w) \/ Fail(w) \/ Refuse(w)
  \/ Succeed

Spec == Init /\ [][Next]_vars
=============================================================================
