----------------------------- MODULE ListFetch ------------------------------
(***************************************************************************)
(* kube/list.go as it runs: one goroutine per walk, every page request     *)
(* bounded by the inFlight semaphore, continue tokens followed to the end, *)
(* errors collected by the two nested Concurrents.                         *)
(*                                                                         *)
(* The apiserver is external.  It answers a first page from the present,   *)
(* and every later page from the resource version its continue token       *)
(* names, until that version is compacted away (410 Gone).                 *)
(***************************************************************************)
EXTENDS ListDefs

CONSTANTS
  MaxInFlight,     \* capacity of the inFlight channel
  ChunkSize,       \* ListOptions.Limit of every request
  MayCancel,       \* the context can be cancelled (the signal handler is in)
  MaxChanges,      \* bound: cluster changes during the call
  NotRead

ASSUME BoundAssumption ==
  /\ MaxInFlight \in Nat \ {0}
  /\ ChunkSize \in Nat \ {0}
  /\ MaxChanges \in Nat
  /\ MayCancel \in BOOLEAN
  /\ \A s \in ServerStates, t \in Targets : s[t] # NotRead

VARIABLES
  store,      \* the cluster, one kind per call
  changes,    \* how many times the cluster changed (bound)
  cancelled,  \* ctx.Done() is closed
  deadline,   \* --request-timeout is not 0 (client.go: cfg.Timeout)
  pc,         \* where each walk's goroutine stands
  slots,      \* len(inFlight)
  token,      \* opts.Continue of the walk's next request; 0 is ""
  snap,       \* the list at the resource version the walk is served from
  resp,       \* the response on its way to the walk
  got,        \* the walk's accumulator `all`
  err,        \* the walk's error
  ret,        \* per call: [done, err, items], what its closure returned
  answer      \* what the view's Concurrent returned

walkVars == <<pc, slots, token, snap, resp, got, err>>
vars == <<store, changes, cancelled, deadline, walkVars, ret, answer>>

NoResp == [items |-> <<>>, cont |-> 0, err |-> None]
Pending == [done |-> FALSE, err |-> None, lists |-> <<>>]
Unreturned == [done |-> FALSE, err |-> None, items |-> <<>>]

Settled(w) == pc[w] \in {"done", "failed"}

(* Between acquiring a slot and the deferred release. *)
Holding == {"sent", "served", "doomed"}

Init ==
  /\ store \in [Calls -> ServerStates]
  /\ changes = 0
  /\ cancelled = FALSE
  /\ deadline \in BOOLEAN
  /\ pc = [w \in Walks |-> "acquire"]
  /\ slots = 0
  /\ token = [w \in Walks |-> 0]
  /\ snap = [w \in Walks |-> NotRead]
  /\ resp = [w \in Walks |-> NoResp]
  /\ got = [w \in Walks |-> <<>>]
  /\ err = [w \in Walks |-> None]
  /\ ret = [c \in Calls |-> Unreturned]
  /\ answer = Pending

-----------------------------------------------------------------------------
(* The environment: other clients of the cluster, and Ctrl-C. *)

Change(c) ==
  /\ changes < MaxChanges
  /\ changes' = changes + 1
  /\ \E s \in ServerStates : store' = [store EXCEPT ![c] = s]
  /\ UNCHANGED <<cancelled, deadline, walkVars, ret, answer>>

Cancel ==
  /\ MayCancel
  /\ ~cancelled
  /\ cancelled' = TRUE
  /\ UNCHANGED <<store, changes, deadline, walkVars, ret, answer>>

-----------------------------------------------------------------------------
(* A walk: pageBounded in the loop of listAll. *)

(* Slips for the mutants: no semaphore, a release missing on the error      *)
(* path, the accumulator overwritten, the context not handed to List, and   *)
(* a group that returns on its first error.                                 *)
Unbounded == TRUE
SlotKept == slots
PageOnly(w) == resp[w].items
OnlyUnsent == {"doomed"}
FirstFailure(c) ==
  \/ \A i \in 1..Width(c) : Settled(<<c, i>>)
  \/ \E i \in 1..Width(c) : err[<<c, i>>] # None

SlotFree == slots < MaxInFlight
SlotReleased == slots - 1
Extended(w) == got[w] \o resp[w].items
Abortable == Holding
CallDone(c) == \A i \in 1..Width(c) : Settled(<<c, i>>)

(* inFlight <- struct{}{}, then the request goes out.  The send does not    *)
(* watch the context: a cancelled walk still waits for its slot, and the    *)
(* transport refuses the request it then makes.                             *)
Acquire(w) ==
  /\ pc[w] = "acquire"
  /\ SlotFree
  /\ slots' = slots + 1
  /\ pc' = [pc EXCEPT ![w] = IF cancelled THEN "doomed" ELSE "sent"]
  /\ UNCHANGED <<store, changes, cancelled, deadline, token, snap, resp, got, err, ret, answer>>

(* External: the apiserver serves one page.  A request without a token      *)
(* reads the present; a token is good for the version the walk began at.    *)
Serve(w) ==
  /\ pc[w] = "sent"
  /\ LET list == IF token[w] = 0 THEN store[w[1]][Target(w)] ELSE snap[w]
         next == token[w] + ChunkSize
     IN  /\ snap' = [snap EXCEPT ![w] = list]
         /\ resp' = [resp EXCEPT ![w] =
              IF next < Len(list)
                THEN [items |-> SubSeq(list, token[w] + 1, next),
                      cont |-> next, err |-> None]
                ELSE [items |-> SubSeq(list, token[w] + 1, Len(list)),
                      cont |-> 0, err |-> None]]
  /\ pc' = [pc EXCEPT ![w] = "served"]
  /\ UNCHANGED <<store, changes, cancelled, deadline, slots, token, got, err, ret, answer>>

(* External: the apiserver answers with an error, 410 Gone among them once  *)
(* the walk holds a token.                                                  *)
ServeError(w) ==
  /\ pc[w] = "sent"
  /\ \E e \in ServerErrors \cup (IF token[w] = 0 THEN {} ELSE {"gone"}) :
       resp' = [resp EXCEPT ![w] = [items |-> <<>>, cont |-> 0, err |-> e]]
  /\ pc' = [pc EXCEPT ![w] = "served"]
  /\ UNCHANGED <<store, changes, cancelled, deadline, slots, token, snap, got, err, ret, answer>>

(* A walk leaves listAll with an error: the slot goes back and whatever it  *)
(* had accumulated is dropped (return nil, err).                            *)
GiveUp(w, e) ==
  /\ slots' = SlotReleased
  /\ pc' = [pc EXCEPT ![w] = "failed"]
  /\ got' = [got EXCEPT ![w] = <<>>]
  /\ err' = [err EXCEPT ![w] = e]
  /\ UNCHANGED <<store, changes, cancelled, deadline, token, snap, resp, ret, answer>>

(* The page arrives: release, append, and either ask for the next page or   *)
(* return the whole collection.                                             *)
Receive(w) ==
  /\ pc[w] = "served"
  /\ resp[w].err = None
  /\ slots' = slots - 1
  /\ got' = [got EXCEPT ![w] = Extended(w)]
  /\ token' = [token EXCEPT ![w] = resp[w].cont]
  /\ pc' = [pc EXCEPT ![w] = IF resp[w].cont = 0 THEN "done" ELSE "acquire"]
  /\ UNCHANGED <<store, changes, cancelled, deadline, snap, resp, err, ret, answer>>

ReceiveError(w) ==
  /\ pc[w] = "served"
  /\ resp[w].err # None
  /\ GiveUp(w, resp[w].err)

(* http.Client.Timeout, for the request alone: it does not run while the    *)
(* walk waits for a slot, and it can beat a response already on its way.    *)
Timeout(w) ==
  /\ deadline
  /\ pc[w] \in {"sent", "served"}
  /\ GiveUp(w, "timeout")

(* The cancelled context fails the request; a response may still win. *)
Abort(w) ==
  /\ cancelled
  /\ pc[w] \in Abortable
  /\ GiveUp(w, "canceled")

-----------------------------------------------------------------------------
(* The two nested Concurrents. *)

WalkErrors(c) == [i \in 1..Width(c) |-> err[<<c, i>>]]
Parts(c) == [i \in 1..Width(c) |-> got[<<c, i>>]]

(* listScoped returns once wg.Wait has seen every walk of the call. *)
CallReturn(c) ==
  /\ ~ret[c].done
  /\ CallDone(c)
  /\ LET e == FirstError(WalkErrors(c), Width(c))
     IN  ret' = [ret EXCEPT ![c] =
                   [done |-> TRUE, err |-> e,
                    items |-> IF e = None THEN Assemble(c, Parts(c)) ELSE <<>>]]
  /\ UNCHANGED <<store, changes, cancelled, deadline, walkVars, answer>>

(* The view's Concurrent returns; on an error the view returns it at once. *)
Return ==
  /\ ~answer.done
  /\ \A c \in Calls : ret[c].done
  /\ LET e == FirstError([c \in Calls |-> ret[c].err], NumCalls)
     IN  answer' = [done |-> TRUE, err |-> e,
                    lists |-> IF e = None THEN [c \in Calls |-> ret[c].items]
                                          ELSE <<>>]
  /\ UNCHANGED <<store, changes, cancelled, deadline, walkVars, ret>>

-----------------------------------------------------------------------------
(* The process runs on: the view renders what it was given. *)
Returned == answer.done /\ UNCHANGED vars

WalkStep(w) ==
  \/ Acquire(w) \/ Serve(w) \/ ServeError(w)
  \/ Receive(w) \/ ReceiveError(w) \/ Timeout(w) \/ Abort(w)

Next ==
  \/ \E c \in Calls : Change(c) \/ CallReturn(c)
  \/ \E w \in Walks : WalkStep(w)
  \/ Cancel \/ Return \/ Returned

Spec == Init /\ [][Next]_vars

(* Goroutines are scheduled, a response that arrived is read, the client's  *)
(* own timer and the context fire.  Nothing is assumed of the apiserver.    *)
Fairness ==
  /\ \A w \in Walks : /\ WF_vars(Acquire(w))
                      /\ WF_vars(Receive(w) \/ ReceiveError(w))
                      /\ WF_vars(Timeout(w))
                      /\ WF_vars(Abort(w))
  /\ \A c \in Calls : WF_vars(CallReturn(c))
  /\ WF_vars(Return)

FairSpec == Spec /\ Fairness

-----------------------------------------------------------------------------
(* Properties. *)

(* Every variable keeps its type; in particular the channel never holds     *)
(* more than its capacity and never goes below empty (pageBounded).         *)
TypeOK ==
  /\ store \in [Calls -> ServerStates]
  /\ changes \in 0..MaxChanges
  /\ cancelled \in BOOLEAN
  /\ deadline \in BOOLEAN
  /\ pc \in [Walks -> Holding \cup {"acquire", "done", "failed"}]
  /\ slots \in 0..MaxInFlight
  /\ token \in [Walks -> Nat]
  /\ snap \in [Walks -> Seq(Items) \cup {NotRead}]
  /\ resp \in [Walks -> [items : Seq(Items), cont : Nat, err : Errors \cup {None}]]
  /\ got \in [Walks -> Seq(Items)]
  /\ err \in [Walks -> Errors \cup {None}]
  /\ DOMAIN ret = Calls
  /\ \A c \in Calls : ret[c].done \in BOOLEAN /\ ret[c].err \in Errors \cup {None}
  /\ answer.done \in BOOLEAN /\ answer.err \in Errors \cup {None}

(* The semaphore counts the requests on the wire: every path out of         *)
(* pageBounded gives back exactly the slot it took, errors, timeouts and    *)
(* cancellation included, so no slot leaks across the nested fan-out.       *)
SlotsAccounted == slots = Cardinality({w \in Walks : pc[w] \in Holding})

(* A walk that returns data returns one version of its collection, whole:   *)
(* no page skipped or repeated at a chunk boundary, no pages of two         *)
(* versions spliced; a walk that fails returns nothing (listAll).           *)
NoShortRead ==
  \A w \in Walks : /\ pc[w] = "done" => got[w] = snap[w] /\ err[w] = None
                   /\ pc[w] = "failed" => got[w] = <<>> /\ err[w] # None

(* The view resumes only once every goroutine under it has ended: nothing   *)
(* is on the wire, no slot is held and no walk can still write its result   *)
(* (wg.Wait in Concurrent, at both levels).                                 *)
QuietAtReturn ==
  answer.done => slots = 0 /\ \A w \in Walks : pc[w] \in {"done", "failed"}

(* Which route listScoped took, fan-out, one List, or one List filtered,    *)
(* cannot be told from the result: with the cluster at rest a scope's       *)
(* objects come back once each, and in the cluster-wide order.  That of a   *)
(* fan-out is the scope's, by name; the apiserver's is by key, where the    *)
(* objects of "a-b" come before those of "a".                               *)
InNameOrder(list) ==
  \A i, j \in DOMAIN list : \A g, h \in DOMAIN Names :
    i < j /\ list[i].ns = Names[g] /\ list[j].ns = Names[h] => g <= h

RouteInvisible ==
  \A c \in Calls :
    changes = 0 /\ ret[c].done /\ ret[c].err = None =>
      LET all == store[c][AllNamespaces]
          scoped == IF c \in ClusterScoped \/ Names = <<>> THEN all ELSE Filtered(all)
      IN  /\ IsInjective(ret[c].items) /\ Range(ret[c].items) = Range(scoped)
          /\ ~FansOut(c) \/ InNameOrder(all) => ret[c].items = scoped

(* listAll and Concurrent implement the one-instant reads of ListAtomic. *)
Atomic == INSTANCE ListAtomic WITH seen <- snap, failed <- err
ImplementsAtomic == Atomic!Spec

(* With a request timeout the view gets its answer even when the apiserver  *)
(* never replies and every slot is contended.                               *)
TimeoutEnds == deadline ~> answer.done

(* Ctrl-C ends the call with no timeout and a silent apiserver, although    *)
(* goroutines queued on inFlight do not watch the context.                  *)
CancelEnds == cancelled ~> answer.done
=============================================================================
