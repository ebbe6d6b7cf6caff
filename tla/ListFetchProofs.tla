--------------------------- MODULE ListFetchProofs --------------------------
(***************************************************************************)
(* Proofs about kube/list.go, for every number of calls, every scope,      *)
(* every chunk size and every capacity of the semaphore.                   *)
(*                                                                         *)
(* The inductive invariant adds to the properties what each goroutine has  *)
(* achieved between two pages (WalkInv) and what has to be over before a   *)
(* Concurrent returns (JoinInv); RestInv adds what the reads of a cluster  *)
(* at rest have in common.  The last section is the refinement: a first    *)
(* page's answer is the instant a collection is read, giving up is its     *)
(* failure, and Concurrent answers what the abstract reads say.            *)
(***************************************************************************)
EXTENDS ListFetch, ListsProofs

-----------------------------------------------------------------------------
(* The vocabulary of ListDefs. *)

(* A walk is a pair of a call and an index within the call's width.        *)
LEMMA WalkParts ==
  ASSUME NEW w \in Walks
  PROVE  /\ w[1] \in Calls
         /\ w[2] \in 1..Width(w[1])
         /\ w = <<w[1], w[2]>>
BY DEF Walks

(* Conversely every index within a call's width is a walk of it.           *)
LEMMA WalkOf ==
  ASSUME NEW c \in Calls, NEW i \in 1..Width(c)
  PROVE  <<c, i>> \in Walks
<1>1. <<c, i>> \in {c} \X (1..Width(c))
  OBVIOUS
<1>2. QED
  BY <1>1 DEF Walks

(* The width of a call is a positive natural number.                       *)
LEMMA WidthType ==
  ASSUME NEW c \in Calls
  PROVE  Width(c) \in Nat \ {0}
BY ScopeAssumption DEF Width, FansOut

(* listScoped asks for a namespace of the scope, or for all of them.       *)
LEMMA TargetType ==
  ASSUME NEW w \in Walks
  PROVE  Target(w) \in Targets
<1>1. Names \in Seq(Range(Names))
  BY ScopeAssumption
<1>2. DOMAIN Names = 1..Len(Names) /\ Len(Names) \in Nat
  BY <1>1, LenProperties
<1>3. \A i \in 1..Len(Names) : Names[i] \in Range(Names)
  BY <1>2 DEF Range
<1>4. CASE FansOut(w[1])
  BY <1>3, <1>4, WalkParts DEF Target, Targets, Width
<1>5. CASE ~FansOut(w[1])
  BY <1>2, <1>3, <1>5 DEF Target, Targets
<1>6. QED
  BY <1>4, <1>5

(* What the apiserver holds for a target is a sequence of objects.         *)
LEMMA ListingType ==
  ASSUME NEW s \in ServerStates, NEW w \in Walks
  PROVE  s[Target(w)] \in Seq(Items)
BY TargetType, ScopeAssumption

(* cmp.Or returns nil exactly when no error is set, and otherwise the one   *)
(* with the smallest index.                                                *)
LEMMA FirstErrorIs ==
  ASSUME NEW n \in Nat, NEW errs
  PROVE  \/ /\ \A i \in 1..n : errs[i] = None
            /\ FirstError(errs, n) = None
         \/ \E i \in 1..n : /\ errs[i] # None
                            /\ \A j \in 1..i-1 : errs[j] = None
                            /\ FirstError(errs, n) = errs[i]
<1>1. CASE \A i \in 1..n : errs[i] = None
  BY <1>1 DEF FirstError
<1>2. CASE \E i \in 1..n : errs[i] # None
  <2> DEFINE T == {i \in 1..n : errs[i] # None}
             First(i) == errs[i] # None /\ \A j \in 1..i-1 : errs[j] = None
  <2>1. T \in SUBSET Nat /\ T # {}
    BY <1>2
  <2>2. PICK m \in T : \A k \in T : m <= k
    BY <2>1, SmallestElement
  <2>3. m \in 1..n /\ First(m)
    BY <2>2
  <2>4. DEFINE f == CHOOSE i \in 1..n : First(i)
  <2>5. f \in 1..n /\ First(f)
    BY <2>3
  <2>6. FirstError(errs, n) = errs[f]
    BY <1>2 DEF FirstError
  <2>7. QED
    BY <2>5, <2>6
<1>3. QED
  BY <1>1, <1>2

-----------------------------------------------------------------------------
(* The invariant. *)

(* The walks that hold a slot of the inFlight channel. *)
Held == {w \in Walks : pc[w] \in Holding}

SlotInv == IsFiniteSet(Held) /\ slots = Cardinality(Held)

(* Before its next request a walk holds the first token[w] objects of the   *)
(* version it is served from, and that version goes on.                     *)
Prefix(w) ==
  \/ token[w] = 0 /\ got[w] = <<>>
  \/ /\ snap[w] # NotRead
     /\ token[w] \in 1..(Len(snap[w]) - 1)
     /\ got[w] = SubSeq(snap[w], 1, token[w])

(* The response on its way is the rest of that version, or its next page.   *)
Page(w) ==
  /\ snap[w] # NotRead
  /\ token[w] <= Len(snap[w])
  /\ \/ /\ resp[w].cont = 0
        /\ resp[w].items = SubSeq(snap[w], token[w] + 1, Len(snap[w]))
     \/ /\ resp[w].cont \in (token[w] + 1)..(Len(snap[w]) - 1)
        /\ resp[w].items = SubSeq(snap[w], token[w] + 1, resp[w].cont)

WalkInv(w) ==
  /\ ~Settled(w) => err[w] = None /\ Prefix(w)
  /\ ~Settled(w) /\ pc[w] # "served" /\ token[w] = 0 => snap[w] = NotRead
  /\ pc[w] = "served" /\ resp[w].err = None => Page(w)
  /\ pc[w] = "done" => snap[w] # NotRead /\ got[w] = snap[w] /\ err[w] = None
  /\ pc[w] = "failed" => got[w] = <<>> /\ err[w] # None

(* A call that returned has only settled walks, whose results it still      *)
(* holds, and the view resumes only when all its calls returned.            *)
Joined(c) ==
  LET e == FirstError(WalkErrors(c), Width(c))
  IN  /\ CallDone(c)
      /\ ret[c].err = e
      /\ ret[c].items = IF e = None THEN Assemble(c, Parts(c)) ELSE <<>>

JoinInv ==
  /\ \A c \in Calls : ret[c].done => Joined(c)
  /\ answer.done => \A c \in Calls : ret[c].done

IInv == TypeOK /\ SlotInv /\ (\A w \in Walks : WalkInv(w)) /\ JoinInv

-----------------------------------------------------------------------------
(* What the definitions of a state give to a proof. *)

LEMMA WalkTypes ==
  ASSUME TypeOK, NEW w \in Walks
  PROVE  /\ pc[w] \in Holding \cup {"acquire", "done", "failed"}
         /\ token[w] \in Nat
         /\ snap[w] # NotRead => snap[w] \in Seq(Items)
         /\ resp[w].items \in Seq(Items)
         /\ resp[w].cont \in Nat
         /\ resp[w].err \in Errors \cup {None}
         /\ got[w] \in Seq(Items)
         /\ err[w] \in Errors \cup {None}
         /\ store[w[1]][Target(w)] \in Seq(Items)
         /\ store[w[1]][Target(w)] # NotRead
<1>1. w[1] \in Calls
  BY WalkParts
<1>2. store[w[1]] \in ServerStates
  BY <1>1 DEF TypeOK
<1>3. store[w[1]][Target(w)] \in Seq(Items)
  BY <1>2, ListingType
<1>4. store[w[1]][Target(w)] # NotRead
  BY <1>2, TargetType, BoundAssumption
<1>5. QED
  BY <1>3, <1>4 DEF TypeOK

(* A page of a sequence of objects is a sequence of objects, and the first  *)
(* page appended to the next is the prefix that covers both.                *)
LEMMA PageType ==
  ASSUME NEW l \in Seq(Items), NEW m \in Nat, NEW n \in 0..Len(l)
  PROVE  SubSeq(l, m + 1, n) \in Seq(Items)
<1>1. Len(l) \in Nat
  BY LenProperties
<1>2. \A i \in (m + 1)..n : l[i] \in Items
  BY <1>1, ElementOfSeq
<1>3. m + 1 \in Int /\ n \in Int
  BY <1>1
<1>4. QED
  BY <1>2, <1>3, SubSeqProperties

LEMMA PageAppended ==
  ASSUME NEW l \in Seq(Items), NEW m \in Nat, NEW n \in m..Len(l)
  PROVE  SubSeq(l, 1, m) \o SubSeq(l, m + 1, n) = SubSeq(l, 1, n)
<1>1. Len(l) \in Nat
  BY LenProperties
<1>2. 1 \in 1..(Len(l) + 1) /\ m \in (1 - 1)..Len(l)
  BY <1>1
<1>3. QED
  BY <1>2, ConcatAdjacentSubSeq

(* Taking a slot adds the walk to those that hold one; giving it back       *)
(* removes it.                                                              *)
LEMMA SlotTaken ==
  ASSUME TypeOK, SlotInv, NEW w \in Walks, pc[w] \notin Holding,
         NEW state \in Holding, pc' = [pc EXCEPT ![w] = state], slots' = slots + 1
  PROVE  SlotInv'
<1>1. Held' = Held \cup {w}
  BY DEF Held, TypeOK
<1>2. w \notin Held
  BY DEF Held
<1>3. QED
  BY <1>1, <1>2, FS_AddElement DEF SlotInv

LEMMA SlotGivenBack ==
  ASSUME TypeOK, SlotInv, NEW w \in Walks, pc[w] \in Holding,
         NEW state, state \notin Holding,
         pc' = [pc EXCEPT ![w] = state], slots' = slots - 1
  PROVE  SlotInv' /\ slots' \in 0..MaxInFlight
<1>1. Held' = Held \ {w}
  BY DEF Held, TypeOK
<1>2. w \in Held
  BY DEF Held
<1>3. SlotInv'
  BY <1>1, <1>2, FS_RemoveElement DEF SlotInv
<1>4. slots' \in Nat
  BY <1>3, FS_CardinalityType DEF SlotInv
<1>5. QED
  BY <1>3, <1>4, BoundAssumption DEF TypeOK

LEMMA SlotUntouched ==
  ASSUME TypeOK, SlotInv, NEW w \in Walks,
         NEW state, state \in Holding <=> pc[w] \in Holding,
         pc' = [pc EXCEPT ![w] = state], slots' = slots
  PROVE  SlotInv'
<1>1. Held' = Held
  BY DEF Held, TypeOK
<1>2. QED
  BY <1>1 DEF SlotInv

(* A step of one walk leaves the others as they were. *)
LEMMA OthersKept ==
  ASSUME \A v \in Walks : WalkInv(v), NEW w \in Walks, WalkInv(w)',
         \A v \in Walks \ {w} :
           /\ pc'[v] = pc[v] /\ token'[v] = token[v] /\ snap'[v] = snap[v]
           /\ resp'[v] = resp[v] /\ got'[v] = got[v] /\ err'[v] = err[v]
  PROVE  \A v \in Walks : WalkInv(v)'
<1>1. SUFFICES ASSUME NEW v \in Walks \ {w} PROVE WalkInv(v)'
  OBVIOUS
<1>2. WalkInv(v)
  OBVIOUS
<1>3. QED
  BY <1>2 DEF WalkInv, Prefix, Page, Settled

(* A walk that still runs belongs to a call that has not returned. *)
LEMMA JoinKept ==
  ASSUME TypeOK, JoinInv, NEW w \in Walks, ~Settled(w),
         \A v \in Walks \ {w} :
           pc'[v] = pc[v] /\ got'[v] = got[v] /\ err'[v] = err[v],
         UNCHANGED <<ret, answer>>
  PROVE  JoinInv'
<1>1. ASSUME NEW c \in Calls, ret[c].done
      PROVE  Joined(c)'
  <2>1. Joined(c)
    BY <1>1 DEF JoinInv
  <2>2. ASSUME NEW i \in 1..Width(c)
        PROVE  /\ Settled(<<c, i>>)'
               /\ got'[<<c, i>>] = got[<<c, i>>]
               /\ err'[<<c, i>>] = err[<<c, i>>]
    <3>1. <<c, i>> \in Walks /\ Settled(<<c, i>>)
      BY <2>1, WalkOf DEF Joined, CallDone
    <3>2. <<c, i>> \in Walks \ {w}
      BY <3>1
    <3>3. QED
      BY <3>1, <3>2 DEF Settled
  <2>3. CallDone(c)'
    BY <2>2 DEF CallDone
  <2>4. WalkErrors(c)' = WalkErrors(c) /\ Parts(c)' = Parts(c)
    BY <2>2 DEF WalkErrors, Parts
  <2>5. QED
    BY <2>1, <2>3, <2>4 DEF Joined
<1>2. QED
  BY <1>1 DEF JoinInv

-----------------------------------------------------------------------------
(* One lemma per step. *)

LEMMA InitIInv == Init => IInv
<1> SUFFICES ASSUME Init PROVE IInv
  OBVIOUS
<1> USE DEF Init
<1>1. TypeOK
  <2>1. <<>> \in Seq(Items)
    BY EmptySeq
  <2>2. answer.done = FALSE /\ answer.err = None
    BY DEF Pending
  <2>3. \A c \in Calls : ret[c].done = FALSE /\ ret[c].err = None
    BY DEF Unreturned
  <2>4. NoResp \in [items : Seq(Items), cont : Nat, err : Errors \cup {None}]
    BY <2>1 DEF NoResp
  <2>5. slots \in 0..MaxInFlight /\ changes \in 0..MaxChanges
    BY BoundAssumption
  <2>6. QED
    BY <2>1, <2>2, <2>3, <2>4, <2>5 DEF TypeOK
<1>2. SlotInv
  <2>1. Held = {}
    BY DEF Held, Holding
  <2>2. QED
    BY <2>1, FS_EmptySet DEF SlotInv
<1>3. \A w \in Walks : WalkInv(w)
  BY DEF WalkInv, Prefix, Settled
<1>4. JoinInv
  BY DEF JoinInv, Pending, Unreturned
<1>5. QED
  BY <1>1, <1>2, <1>3, <1>4 DEF IInv

LEMMA AcquireKeeps ==
  ASSUME IInv, NEW w \in Walks, Acquire(w)
  PROVE  IInv'
<1> DEFINE state == IF cancelled THEN "doomed" ELSE "sent"
<1> USE DEF IInv
<1>1. pc[w] = "acquire" /\ pc' = [pc EXCEPT ![w] = state]
  BY DEF Acquire
<1>2. TypeOK'
  <2>1. slots' \in 0..MaxInFlight
    BY BoundAssumption DEF Acquire, SlotFree, TypeOK
  <2>2. pc' \in [Walks -> Holding \cup {"acquire", "done", "failed"}]
    BY <1>1 DEF TypeOK, Holding
  <2>3. QED
    BY <2>1, <2>2 DEF Acquire, TypeOK
<1>3. SlotInv'
  <2>1. state \in Holding /\ pc[w] \notin Holding
    BY <1>1 DEF Holding
  <2>2. slots' = slots + 1
    BY DEF Acquire
  <2>3. QED
    BY <1>1, <2>1, <2>2, SlotTaken
<1>4. WalkInv(w)'
  <2>1. WalkInv(w) /\ pc'[w] = state
    BY <1>1 DEF TypeOK
  <2>2. QED
    BY <1>1, <2>1 DEF Acquire, WalkInv, Prefix, Settled
<1>5. \A v \in Walks : WalkInv(v)'
  BY <1>4, OthersKept DEF Acquire, TypeOK
<1>6. JoinInv'
  BY <1>1, JoinKept DEF Acquire, Settled, TypeOK
<1>7. QED
  BY <1>2, <1>3, <1>5, <1>6

LEMMA ServeKeeps ==
  ASSUME IInv, NEW w \in Walks, Serve(w)
  PROVE  IInv'
<1> DEFINE list == IF token[w] = 0 THEN store[w[1]][Target(w)] ELSE snap[w]
           next == token[w] + ChunkSize
           more == next < Len(list)
           last == IF more THEN next ELSE Len(list)
           page == [items |-> SubSeq(list, token[w] + 1, last),
                    cont |-> IF more THEN next ELSE 0, err |-> None]
<1> USE DEF IInv
<1>1. pc[w] = "sent" /\ pc' = [pc EXCEPT ![w] = "served"]
  BY DEF Serve
<1>2. WalkInv(w) /\ Prefix(w)
  BY <1>1 DEF WalkInv, Settled
<1>3. list \in Seq(Items) /\ list # NotRead
  BY <1>2, WalkTypes DEF Prefix
<1>4. Len(list) \in Nat /\ token[w] \in 0..Len(list) /\ next \in Nat /\ next > token[w]
  <2>1. Len(list) \in Nat /\ token[w] \in Nat
    BY <1>3, WalkTypes, LenProperties
  <2>2. token[w] <= Len(list)
    <3>1. CASE token[w] = 0
      BY <2>1, <3>1
    <3>2. CASE token[w] # 0
      BY <1>2, <2>1, <3>2 DEF Prefix
    <3>3. QED
      BY <3>1, <3>2
  <2>3. QED
    BY <2>1, <2>2, BoundAssumption
<1>5. snap' = [snap EXCEPT ![w] = list] /\ resp' = [resp EXCEPT ![w] = page]
  BY DEF Serve
<1>6. last \in 0..Len(list) /\ last >= token[w]
  BY <1>4
<1>7. page \in [items : Seq(Items), cont : Nat, err : Errors \cup {None}]
  BY <1>3, <1>4, <1>6, PageType
<1>8. TypeOK'
  <2>1. snap' \in [Walks -> Seq(Items) \cup {NotRead}]
    BY <1>3, <1>5 DEF TypeOK
  <2>2. resp' \in [Walks -> [items : Seq(Items), cont : Nat, err : Errors \cup {None}]]
    BY <1>5, <1>7 DEF TypeOK
  <2>3. pc' \in [Walks -> Holding \cup {"acquire", "done", "failed"}]
    BY <1>1 DEF TypeOK, Holding
  <2>4. QED
    BY <2>1, <2>2, <2>3 DEF Serve, TypeOK
<1>9. SlotInv'
  BY <1>1, SlotUntouched DEF Serve, Holding
<1>10. WalkInv(w)'
  <2>1. /\ pc'[w] = "served" /\ snap'[w] = list /\ resp'[w] = page
        /\ token'[w] = token[w] /\ got'[w] = got[w] /\ err'[w] = err[w]
    BY <1>1, <1>5 DEF Serve, TypeOK
  <2>2. err[w] = None
    BY <1>1, <1>2 DEF WalkInv, Settled
  <2>3. Prefix(w)'
    BY <1>2, <2>1 DEF Prefix
  <2>4. Page(w)'
    <3>1. resp'[w].items = SubSeq(list, token[w] + 1, last)
      <4>1. page.items = SubSeq(list, token[w] + 1, last)
        BY Zenon
      <4>2. QED
        BY <2>1, <4>1, Zenon
    <3>2. resp'[w].cont = IF more THEN next ELSE 0
      BY <2>1
    <3>3. snap'[w] # NotRead /\ token'[w] <= Len(snap'[w])
      BY <1>3, <1>4, <2>1
    <3>4. CASE more
      <4>1. resp'[w].cont = next /\ last = next
        BY <3>2, <3>4
      <4>2. resp'[w].items = SubSeq(snap'[w], token'[w] + 1, resp'[w].cont)
        BY <2>1, <3>1, <4>1, Zenon
      <4>3. next \in (token[w] + 1)..(Len(list) - 1)
        BY <1>4, <3>4
      <4>4. resp'[w].cont \in (token'[w] + 1)..(Len(snap'[w]) - 1)
        BY <2>1, <4>1, <4>3, Zenon
      <4>5. QED
        BY <3>3, <4>2, <4>4, Zenon DEF Page
    <3>5. CASE ~more
      <4>1. resp'[w].cont = 0 /\ last = Len(list)
        BY <3>2, <3>5
      <4>2. resp'[w].items = SubSeq(snap'[w], token'[w] + 1, Len(snap'[w]))
        BY <2>1, <3>1, <4>1, Zenon
      <4>3. QED
        BY <3>3, <4>1, <4>2, Zenon DEF Page
    <3>6. QED
      BY <3>4, <3>5
  <2>5. QED
    BY <2>1, <2>2, <2>3, <2>4 DEF WalkInv, Settled
<1>11. \A v \in Walks : WalkInv(v)'
  BY <1>10, OthersKept DEF Serve, TypeOK
<1>12. JoinInv'
  BY <1>1, JoinKept DEF Serve, Settled, TypeOK
<1>13. QED
  BY <1>8, <1>9, <1>11, <1>12

LEMMA ServeErrorKeeps ==
  ASSUME IInv, NEW w \in Walks, ServeError(w)
  PROVE  IInv'
<1> USE DEF IInv
<1>1. pc[w] = "sent" /\ pc' = [pc EXCEPT ![w] = "served"]
  BY DEF ServeError
<1>2. PICK e \in Errors : resp' = [resp EXCEPT ![w] = [items |-> <<>>, cont |-> 0, err |-> e]]
  BY DEF ServeError, Errors
<1>3. e # None
  BY ScopeAssumption
<1>4. TypeOK'
  <2>1. resp' \in [Walks -> [items : Seq(Items), cont : Nat, err : Errors \cup {None}]]
    BY <1>2, EmptySeq DEF TypeOK
  <2>2. pc' \in [Walks -> Holding \cup {"acquire", "done", "failed"}]
    BY <1>1 DEF TypeOK, Holding
  <2>3. QED
    BY <2>1, <2>2 DEF ServeError, TypeOK
<1>5. SlotInv'
  BY <1>1, SlotUntouched DEF ServeError, Holding
<1>6. WalkInv(w)'
  <2>1. /\ pc'[w] = "served" /\ resp'[w].err # None
        /\ UNCHANGED <<token, snap, got, err>>
    BY <1>1, <1>2, <1>3 DEF ServeError, TypeOK
  <2>2. err[w] = None /\ Prefix(w)
    BY <1>1 DEF WalkInv, Settled
  <2>3. QED
    BY <2>1, <2>2 DEF WalkInv, Prefix, Settled
<1>7. \A v \in Walks : WalkInv(v)'
  BY <1>2, <1>6, OthersKept DEF ServeError, TypeOK
<1>8. JoinInv'
  BY <1>1, JoinKept DEF ServeError, Settled, TypeOK
<1>9. QED
  BY <1>4, <1>5, <1>7, <1>8

(* Every way out of listAll with an error. *)
LEMMA GiveUpKeeps ==
  ASSUME IInv, NEW w \in Walks, pc[w] \in Holding,
         NEW e \in Errors, GiveUp(w, e)
  PROVE  IInv'
<1> USE DEF IInv
<1>1. pc' = [pc EXCEPT ![w] = "failed"] /\ slots' = slots - 1
  BY DEF GiveUp, SlotReleased
<1>2. "failed" \notin Holding
  BY DEF Holding
<1>3. SlotInv' /\ slots' \in 0..MaxInFlight
  BY <1>1, <1>2, SlotGivenBack
<1>4. TypeOK'
  <2>1. got' \in [Walks -> Seq(Items)]
    BY EmptySeq DEF GiveUp, TypeOK
  <2>2. err' \in [Walks -> Errors \cup {None}]
    BY DEF GiveUp, TypeOK
  <2>3. pc' \in [Walks -> Holding \cup {"acquire", "done", "failed"}]
    BY <1>1 DEF TypeOK
  <2>4. QED
    BY <1>3, <2>1, <2>2, <2>3 DEF GiveUp, TypeOK
<1>5. WalkInv(w)'
  <2>1. pc'[w] = "failed" /\ got'[w] = <<>> /\ err'[w] = e
    BY DEF GiveUp, TypeOK
  <2>2. e # None
    BY ScopeAssumption
  <2>3. QED
    BY <2>1, <2>2 DEF WalkInv, Settled
<1>6. \A v \in Walks : WalkInv(v)'
  BY <1>5, OthersKept DEF GiveUp, TypeOK
<1>7. JoinInv'
  BY <1>1, JoinKept DEF GiveUp, Settled, Holding, TypeOK
<1>8. QED
  BY <1>3, <1>4, <1>6, <1>7

LEMMA ReceiveKeeps ==
  ASSUME IInv, NEW w \in Walks, Receive(w)
  PROVE  IInv'
<1> DEFINE state == IF resp[w].cont = 0 THEN "done" ELSE "acquire"
           cont == resp[w].cont
           list == snap[w]
<1> USE DEF IInv
<1>1. /\ pc[w] = "served" /\ resp[w].err = None
      /\ pc' = [pc EXCEPT ![w] = state] /\ slots' = slots - 1
      /\ got' = [got EXCEPT ![w] = got[w] \o resp[w].items]
      /\ token' = [token EXCEPT ![w] = cont]
      /\ UNCHANGED <<snap, err>>
  BY DEF Receive, Extended
<1>2. SlotInv' /\ slots' \in 0..MaxInFlight
  <2>1. pc[w] \in Holding /\ state \notin Holding
    BY <1>1 DEF Holding
  <2>2. pc' = [pc EXCEPT ![w] = state] /\ slots' = slots - 1
    BY <1>1
  <2>3. QED
    BY <2>1, <2>2, SlotGivenBack
<1>3. Prefix(w) /\ Page(w) /\ err[w] = None
  BY <1>1 DEF WalkInv, Settled
<1>4. list # NotRead /\ list \in Seq(Items) /\ Len(list) \in Nat /\ token[w] \in 0..Len(list)
  <2>1. list # NotRead /\ list \in Seq(Items) /\ token[w] \in Nat
    BY <1>3, WalkTypes DEF Page
  <2>2. Len(list) \in Nat
    BY <2>1, LenProperties
  <2>3. QED
    BY <1>3, <2>1, <2>2 DEF Page
<1>5. got[w] = SubSeq(list, 1, token[w])
  <2>1. CASE token[w] = 0
    <3>1. SubSeq(list, 1, 0) = <<>>
      BY SubSeqEmpty
    <3>2. QED
      BY <1>3, <2>1, <3>1 DEF Prefix
  <2>2. CASE token[w] # 0
    BY <1>3, <2>2 DEF Prefix
  <2>3. QED
    BY <2>1, <2>2
<1>6. got'[w] = IF cont = 0 THEN list ELSE SubSeq(list, 1, cont)
  <2>1. got'[w] = got[w] \o resp[w].items
    BY <1>1 DEF TypeOK
  <2>2. CASE cont = 0
    <3>1. resp[w].items = SubSeq(list, token[w] + 1, Len(list))
      BY <1>3, <1>4, <2>2 DEF Page
    <3>2. got'[w] = SubSeq(list, 1, Len(list))
      <4>1. Len(list) \in token[w]..Len(list) /\ token[w] \in Nat
        BY <1>4
      <4>2. QED
        BY <1>4, <1>5, <2>1, <3>1, <4>1, PageAppended
    <3>3. QED
      BY <1>4, <2>2, <3>2, SubSeqFull
  <2>3. CASE cont # 0
    <3>1. /\ cont \in token[w]..Len(list)
          /\ resp[w].items = SubSeq(list, token[w] + 1, cont)
      BY <1>3, <1>4, <2>3 DEF Page
    <3>2. token[w] \in Nat
      BY <1>4
    <3>3. got'[w] = SubSeq(list, 1, cont)
      BY <1>4, <1>5, <2>1, <3>1, <3>2, PageAppended
    <3>4. QED
      BY <2>3, <3>3
  <2>4. QED
    BY <2>2, <2>3
<1>7. cont = 0 \/ cont \in 1..(Len(list) - 1)
  BY <1>3, <1>4 DEF Page
<1>8. TypeOK'
  <2>1. got[w] \in Seq(Items) /\ resp[w].items \in Seq(Items) /\ cont \in Nat
    BY WalkTypes
  <2>2. got[w] \o resp[w].items \in Seq(Items)
    BY <2>1, ConcatProperties
  <2>3. got' \in [Walks -> Seq(Items)]
    BY <1>1, <2>2 DEF TypeOK
  <2>4. token' \in [Walks -> Nat]
    BY <1>1, <2>1 DEF TypeOK
  <2>5. pc' \in [Walks -> Holding \cup {"acquire", "done", "failed"}]
    BY <1>1 DEF TypeOK
  <2>6. QED
    BY <1>2, <2>3, <2>4, <2>5 DEF Receive, TypeOK
<1>9. WalkInv(w)'
  <2>1. /\ pc'[w] = state /\ token'[w] = cont
        /\ snap'[w] = list /\ err'[w] = None
    BY <1>1, <1>3 DEF TypeOK
  <2>2. CASE cont = 0
    BY <1>4, <1>6, <2>1, <2>2 DEF WalkInv, Settled
  <2>3. CASE cont # 0
    <3>1. Prefix(w)'
      BY <1>4, <1>6, <1>7, <2>1, <2>3 DEF Prefix
    <3>2. QED
      BY <2>1, <2>3, <3>1 DEF WalkInv, Settled
  <2>4. QED
    BY <2>2, <2>3
<1>10. \A v \in Walks : WalkInv(v)'
  BY <1>9, OthersKept DEF Receive, TypeOK
<1>11. JoinInv'
  BY <1>1, JoinKept DEF Receive, Settled, TypeOK
<1>12. QED
  BY <1>2, <1>8, <1>10, <1>11

LEMMA CallReturnKeeps ==
  ASSUME IInv, NEW c \in Calls, CallReturn(c)
  PROVE  IInv'
<1> DEFINE e == FirstError(WalkErrors(c), Width(c))
<1> USE DEF IInv
<1>1. CallDone(c)
  BY DEF CallReturn
<1>2. /\ DOMAIN ret' = Calls
      /\ ret'[c].done /\ ret'[c].err = e
      /\ \A d \in Calls \ {c} : ret'[d] = ret[d]
  BY DEF CallReturn, TypeOK
<1>3. e \in Errors \cup {None}
  <2>1. \A i \in 1..Width(c) : WalkErrors(c)[i] \in Errors \cup {None}
    BY WalkOf, WalkTypes DEF WalkErrors
  <2>2. QED
    BY <2>1, WidthType, FirstErrorIs
<1>4. UNCHANGED <<store, changes, cancelled, deadline, walkVars, answer>>
  BY DEF CallReturn
<1>5. TypeOK'
  <2>1. \A d \in Calls : ret'[d].done \in BOOLEAN /\ ret'[d].err \in Errors \cup {None}
    <3>1. ret'[c].done = TRUE
      BY DEF CallReturn, TypeOK
    <3>2. QED
      BY <1>2, <1>3, <3>1 DEF TypeOK
  <2>2. QED
    BY <1>2, <1>4, <2>1 DEF TypeOK, walkVars
<1>6. SlotInv'
  BY <1>4 DEF SlotInv, Held, walkVars
<1>7. \A w \in Walks : WalkInv(w)'
  BY <1>4 DEF WalkInv, Prefix, Page, Settled, walkVars
<1>8. JoinInv'
  <2>1. \A d \in Calls : /\ CallDone(d)' <=> CallDone(d)
                        /\ WalkErrors(d)' = WalkErrors(d) /\ Parts(d)' = Parts(d)
    BY <1>4 DEF CallDone, Settled, WalkErrors, Parts, walkVars
  <2>2. Joined(c)'
    <3>1. ret'[c] = [done |-> TRUE, err |-> e,
                     items |-> IF e = None THEN Assemble(c, Parts(c)) ELSE <<>>]
      BY DEF CallReturn, TypeOK
    <3>2. QED
      BY <1>1, <2>1, <3>1 DEF Joined
  <2>3. ASSUME NEW d \in Calls \ {c}, ret[d].done
        PROVE  Joined(d)'
    BY <1>2, <2>1, <2>3 DEF JoinInv, Joined
  <2>4. \A d \in Calls : ret'[d].done => Joined(d)'
    BY <1>2, <2>2, <2>3
  <2>5. answer.done => \A d \in Calls : ret'[d].done
    BY <1>2 DEF JoinInv
  <2>6. QED
    BY <1>4, <2>4, <2>5 DEF JoinInv
<1>9. QED
  BY <1>5, <1>6, <1>7, <1>8

LEMMA ReturnKeeps ==
  ASSUME IInv, Return
  PROVE  IInv'
<1> DEFINE e == FirstError([c \in Calls |-> ret[c].err], NumCalls)
<1> USE DEF IInv
<1>1. UNCHANGED <<store, changes, cancelled, deadline, walkVars, ret>>
  BY DEF Return
<1>2. answer'.done = TRUE /\ answer'.err = e
  BY DEF Return
<1>3. e \in Errors \cup {None}
  <2>1. \A c \in Calls : ret[c].err \in Errors \cup {None}
    BY DEF TypeOK
  <2>2. NumCalls \in Nat /\ Calls = 1..NumCalls
    BY ScopeAssumption DEF Calls
  <2>3. \A i \in 1..NumCalls :
          [c \in Calls |-> ret[c].err][i] \in Errors \cup {None}
    BY <2>1, <2>2
  <2>4. QED
    BY <2>2, <2>3, FirstErrorIs
<1>4. TypeOK'
  BY <1>1, <1>2, <1>3 DEF TypeOK, walkVars
<1>5. SlotInv'
  BY <1>1 DEF SlotInv, Held, walkVars
<1>6. \A w \in Walks : WalkInv(w)'
  BY <1>1 DEF WalkInv, Prefix, Page, Settled, walkVars
<1>7. JoinInv'
  BY <1>1 DEF Return, JoinInv, Joined, CallDone, Settled, WalkErrors, Parts, walkVars
<1>8. QED
  BY <1>4, <1>5, <1>6, <1>7

(* The environment's steps and a stutter leave the walks and the results.   *)
LEMMA EnvironmentKeeps ==
  ASSUME IInv, UNCHANGED <<walkVars, ret, answer>>,
         (\E c \in Calls : Change(c)) \/ Cancel \/ UNCHANGED vars
  PROVE  IInv'
<1> USE DEF IInv
<1>1. TypeOK'
  <2>1. CASE \E c \in Calls : Change(c)
    <3>1. PICK c \in Calls : Change(c)
      BY <2>1
    <3>2. PICK s \in ServerStates : store' = [store EXCEPT ![c] = s]
      BY <3>1 DEF Change
    <3>3. store' \in [Calls -> ServerStates]
      BY <3>2 DEF TypeOK
    <3>4. changes' \in 0..MaxChanges
      BY <3>1, BoundAssumption DEF Change, TypeOK
    <3>5. QED
      BY <3>1, <3>3, <3>4 DEF TypeOK, Change, walkVars
  <2>2. CASE Cancel
    BY <2>2 DEF TypeOK, Cancel, walkVars
  <2>3. CASE UNCHANGED vars
    BY <2>3 DEF TypeOK, vars, walkVars
  <2>4. QED
    BY <2>1, <2>2, <2>3
<1>2. SlotInv' /\ JoinInv'
  BY DEF SlotInv, Held, JoinInv, Joined, CallDone, Settled, WalkErrors, Parts, walkVars
<1>3. \A w \in Walks : WalkInv(w)'
  BY DEF WalkInv, Prefix, Page, Settled, walkVars
<1>4. QED
  BY <1>1, <1>2, <1>3

LEMMA NextKeeps == IInv /\ [Next]_vars => IInv'
<1> SUFFICES ASSUME IInv, [Next]_vars PROVE IInv'
  OBVIOUS
<1>1. ASSUME NEW w \in Walks, WalkStep(w)
      PROVE  IInv'
  <2>1. CASE Acquire(w)
    BY <2>1, AcquireKeeps
  <2>2. CASE Serve(w)
    BY <2>2, ServeKeeps
  <2>3. CASE ServeError(w)
    BY <2>3, ServeErrorKeeps
  <2>4. CASE Receive(w)
    BY <2>4, ReceiveKeeps
  <2>5. CASE ReceiveError(w)
    <3>1. resp[w].err \in Errors
      BY <2>5, WalkTypes DEF ReceiveError, IInv
    <3>2. QED
      BY <2>5, <3>1, GiveUpKeeps DEF ReceiveError, Holding
  <2>6. CASE Timeout(w)
    <3>1. "timeout" \in Errors
      BY DEF Errors
    <3>2. QED
      BY <2>6, <3>1, GiveUpKeeps DEF Timeout, Holding
  <2>7. CASE Abort(w)
    <3>1. "canceled" \in Errors
      BY DEF Errors
    <3>2. QED
      BY <2>7, <3>1, GiveUpKeeps DEF Abort, Abortable
  <2>8. QED
    BY <1>1, <2>1, <2>2, <2>3, <2>4, <2>5, <2>6, <2>7 DEF WalkStep
<1>2. ASSUME NEW c \in Calls, Change(c)
      PROVE  IInv'
  BY <1>2, EnvironmentKeeps DEF Change
<1>3. ASSUME NEW c \in Calls, CallReturn(c)
      PROVE  IInv'
  BY <1>3, CallReturnKeeps
<1>4. CASE Cancel
  BY <1>4, EnvironmentKeeps DEF Cancel
<1>5. CASE Return
  BY <1>5, ReturnKeeps
<1>6. CASE UNCHANGED vars
  BY <1>6, EnvironmentKeeps DEF vars
<1>7. QED
  BY <1>1, <1>2, <1>3, <1>4, <1>5, <1>6 DEF Next, Returned

THEOREM Invariance == Spec => []IInv
BY InitIInv, NextKeeps, PTL DEF Spec

-----------------------------------------------------------------------------
(* Whatever the fan-out, the semaphore is never over its capacity nor below *)
(* empty, and every variable keeps its type (pageBounded, listAll).         *)
THEOREM TypeCorrect == Spec => []TypeOK
<1>1. IInv => TypeOK
  BY DEF IInv
<1>2. QED
  BY <1>1, Invariance, PTL

(* The channel holds exactly one token per request on the wire, so no path  *)
(* out of pageBounded leaks a slot and none gives one back twice.           *)
THEOREM SemaphoreExact == Spec => []SlotsAccounted
<1>1. IInv => SlotsAccounted
  BY DEF IInv, SlotInv, Held, SlotsAccounted
<1>2. QED
  BY <1>1, Invariance, PTL

(* listAll returns one version of its collection, whole, or an error and    *)
(* nothing, whatever the chunk size and however the cluster moves between   *)
(* the pages.                                                               *)
THEOREM WholeOrNothing == Spec => []NoShortRead
<1>1. IInv => NoShortRead
  BY DEF IInv, WalkInv, NoShortRead
<1>2. QED
  BY <1>1, Invariance, PTL

(* Nothing the view started still runs when Concurrent hands it a result.   *)
THEOREM JoinedAtReturn == Spec => []QuietAtReturn
<1>1. ASSUME IInv, answer.done
      PROVE  slots = 0 /\ \A w \in Walks : pc[w] \in {"done", "failed"}
  <2>1. ASSUME NEW w \in Walks
        PROVE  Settled(w)
    <3>1. CallDone(w[1])
      BY <1>1, WalkParts DEF IInv, JoinInv, Joined
    <3>2. QED
      BY <3>1, WalkParts DEF CallDone
  <2>2. Held = {}
    BY <2>1 DEF Held, Holding, Settled
  <2>3. slots = 0
    BY <1>1, <2>2, FS_EmptySet DEF IInv, SlotInv
  <2>4. QED
    BY <2>1, <2>3 DEF Settled
<1>2. IInv => QuietAtReturn
  BY <1>1 DEF QuietAtReturn
<1>3. QED
  BY <1>2, Invariance, PTL

-----------------------------------------------------------------------------
(* The route of listScoped. *)

(* With the cluster at rest every walk is served from what is there.        *)
RestInv ==
  changes = 0 =>
    \A w \in Walks : snap[w] # NotRead => snap[w] = store[w[1]][Target(w)]

LEMMA RestKept == IInv /\ RestInv /\ [Next]_vars => RestInv'
<1> SUFFICES ASSUME IInv, RestInv, [Next]_vars PROVE RestInv'
  OBVIOUS
<1>1. ASSUME UNCHANGED <<store, changes, snap>> PROVE RestInv'
  BY <1>1 DEF RestInv
<1>2. ASSUME NEW c \in Calls, Change(c) PROVE RestInv'
  <2>1. changes' # 0
    BY <1>2, BoundAssumption DEF Change, IInv, TypeOK
  <2>2. QED
    BY <2>1 DEF RestInv
<1>3. ASSUME NEW w \in Walks, Serve(w) PROVE RestInv'
  <2> DEFINE list == IF token[w] = 0 THEN store[w[1]][Target(w)] ELSE snap[w]
  <2>1. /\ snap' = [snap EXCEPT ![w] = list] /\ store' = store /\ changes' = changes
        /\ pc[w] = "sent"
    BY <1>3 DEF Serve
  <2>2. token[w] # 0 => snap[w] # NotRead
    BY <2>1 DEF IInv, WalkInv, Settled, Prefix
  <2>3. changes = 0 => list = store[w[1]][Target(w)]
    BY <2>2 DEF RestInv
  <2> HIDE DEF list
  <2>4. snap \in [Walks -> Seq(Items) \cup {NotRead}]
    BY DEF IInv, TypeOK
  <2>5. \A v \in Walks : snap'[v] = IF v = w THEN list ELSE snap[v]
    BY <2>1, <2>4
  <2>6. QED
    BY <2>1, <2>3, <2>5 DEF RestInv
<1>4. ASSUME NEW w \in Walks, WalkStep(w) PROVE RestInv'
  <2>1. CASE Acquire(w) \/ ServeError(w) \/ Receive(w)
    BY <1>1, <2>1 DEF Acquire, ServeError, Receive
  <2>2. CASE ReceiveError(w) \/ Timeout(w) \/ Abort(w)
    BY <1>1, <2>2 DEF ReceiveError, Timeout, Abort, GiveUp
  <2>3. QED
    BY <1>3, <1>4, <2>1, <2>2 DEF WalkStep
<1>5. ASSUME NEW c \in Calls, CallReturn(c) PROVE RestInv'
  BY <1>1, <1>5 DEF CallReturn, walkVars
<1>6. CASE Cancel \/ Return \/ UNCHANGED vars
  BY <1>1, <1>6 DEF Cancel, Return, vars, walkVars
<1>7. QED
  BY <1>2, <1>4, <1>5, <1>6 DEF Next, Returned

(* A call that returned without an error put together what is there.        *)
LEMMA RestRead ==
  ASSUME IInv, RestInv, changes = 0, NEW c \in Calls, ret[c].done, ret[c].err = None
  PROVE  ret[c].items =
           Assemble(c, [i \in 1..Width(c) |-> store[c][Target(<<c, i>>)]])
<1>1. /\ CallDone(c) /\ FirstError(WalkErrors(c), Width(c)) = None
      /\ ret[c].items = Assemble(c, Parts(c))
  BY DEF IInv, JoinInv, Joined
<1>2. Width(c) \in Nat
  BY WidthType
<1>3. ASSUME NEW i \in 1..Width(c) PROVE got[<<c, i>>] = store[c][Target(<<c, i>>)]
  <2>1. <<c, i>> \in Walks
    BY WalkOf
  <2>2. \A j \in 1..Width(c) : WalkErrors(c)[j] = err[<<c, j>>]
    BY DEF WalkErrors
  <2>3. err[<<c, i>>] = None
    BY <1>1, <1>2, <2>2, FirstErrorIs
  <2>4. pc[<<c, i>>] \in {"done", "failed"}
    BY <1>1 DEF CallDone, Settled
  <2>5. got[<<c, i>>] = snap[<<c, i>>] /\ snap[<<c, i>>] # NotRead
    BY <2>1, <2>3, <2>4 DEF IInv, WalkInv
  <2>6. snap[<<c, i>>] = store[<<c, i>>[1]][Target(<<c, i>>)]
    BY <2>1, <2>5 DEF RestInv
  <2>7. QED
    BY <2>5, <2>6
<1>4. Parts(c) = [i \in 1..Width(c) |-> store[c][Target(<<c, i>>)]]
  BY <1>3 DEF Parts
<1>5. QED
  BY <1>1, <1>4

(* A list of one part is that part. *)
LEMMA OnePart ==
  ASSUME NEW S, NEW list \in Seq(S)
  PROVE  FlattenSeq([i \in 1..1 |-> list]) = list
<1> DEFINE seqs == [i \in 1..1 |-> list]
<1>1. Len(seqs) = 1 /\ \A i \in 1..1 : seqs[i] = list
  OBVIOUS
<1> HIDE DEF seqs
<1>2. PICK n : n = 1
  OBVIOUS
<1>3. n \in Nat /\ Len(seqs) = n /\ (n = 0 => seqs = <<>>) /\ \A i \in 1..n : seqs[i] \in Seq(S)
  BY <1>1, <1>2
<1>4. PICK f : f[0] = <<>> /\ (\A i \in 1..n : f[i] = f[i - 1] \o seqs[i]) /\ FlattenSeq(seqs) = f[n]
  BY <1>3, FlattenSteps, ZenonT(60)
<1>5. f[1] = <<>> \o list
  <2>1. 1 \in 1..n /\ 1 - 1 = 0
    BY <1>2
  <2>2. f[1] = f[1 - 1] \o seqs[1]
    BY <1>4, <2>1, Zenon
  <2>3. 1 \in 1..1
    OBVIOUS
  <2>4. QED
    BY <1>1, <1>4, <2>1, <2>2, <2>3
<1>6. <<>> \o list = list
  BY ConcatEmptySeq
<1>7. QED
  BY <1>2, <1>4, <1>5, <1>6 DEF seqs

(* What the scope of a call is in a cluster. *)
Scoped(c, all) == IF c \in ClusterScoped \/ Names = <<>> THEN all ELSE Filtered(all)

RouteTold(c, all, items) ==
  /\ IsInjective(items) /\ Range(items) = Range(Scoped(c, all))
  /\ ~FansOut(c) \/ InNameOrder(all) => items = Scoped(c, all)

(* The lists of the apiserver. *)
LEMMA Listings ==
  ASSUME NEW s \in ServerStates
  PROVE  /\ s[AllNamespaces] \in Seq(Items) /\ IsInjective(s[AllNamespaces])
         /\ \A i \in 1..Len(Names) :
              s[Names[i]] = Kept(s[AllNamespaces], {o \in Range(s[AllNamespaces]) : o.ns = Names[i]})
         /\ Len(Names) \in Nat /\ DOMAIN Names = 1..Len(Names) /\ (Names = <<>> <=> Len(Names) = 0)
         /\ \A n : n \in Range(Names) <=> \E i \in 1..Len(Names) : Names[i] = n
<1>1. /\ Names \in Seq(Range(Names)) /\ AllNamespaces \in Targets
      /\ Len(Names) \in Nat /\ DOMAIN Names = 1..Len(Names) /\ (Names = <<>> <=> Len(Names) = 0)
  BY ScopeAssumption DEF Targets
<1>2. \A n : n \in Range(Names) <=> \E i \in 1..Len(Names) : Names[i] = n
  BY <1>1 DEF Range
<1>3. \A n \in Range(Names) :
        s[n] = Kept(s[AllNamespaces], {o \in Range(s[AllNamespaces]) : o.ns = n})
  BY Zenon, ListingAssumption
<1>4. s[AllNamespaces] \in Seq(Items) /\ IsInjective(s[AllNamespaces])
  BY <1>1, ScopeAssumption, ListingAssumption
<1>5. \A i \in 1..Len(Names) : Names[i] \in Range(Names)
  BY <1>2
<1>6. QED
  BY <1>1, <1>2, <1>3, <1>4, <1>5, Zenon

(* The three routes, from what the apiserver lists to what the view gets.   *)
LEMMA FilteredRoute ==
  ASSUME NEW s \in ServerStates, NEW c \in Calls, Filters(c)
  PROVE  RouteTold(c, s[AllNamespaces],
                   Assemble(c, [i \in 1..Width(c) |-> s[Target(<<c, i>>)]]))
<1> DEFINE all == s[AllNamespaces]
           parts == [i \in 1..Width(c) |-> s[Target(<<c, i>>)]]
<1>1. /\ Len(Names) \in Nat /\ Len(Names) > MaxNamespaceFanout /\ MaxNamespaceFanout \in Nat \ {0}
      /\ c \notin ClusterScoped /\ (Names = <<>> <=> Len(Names) = 0)
  BY Listings, ScopeAssumption DEF Filters
<1>2. ~FansOut(c) /\ Names # <<>> /\ Len(Names) # 1
  <2>1. PICK k : k = Len(Names)
    OBVIOUS
  <2>2. /\ k \in Nat /\ k > MaxNamespaceFanout /\ MaxNamespaceFanout \in Nat \ {0}
        /\ (Names = <<>> <=> k = 0) /\ (FansOut(c) => k \in 2..MaxNamespaceFanout)
    BY <1>1, <2>1 DEF FansOut
  <2>3. k \notin 2..MaxNamespaceFanout /\ k # 0 /\ k # 1
    BY <2>2
  <2>4. QED
    BY <2>1, <2>2, <2>3, Zenon
<1>3. Width(c) = 1 /\ Target(<<c, 1>>) = AllNamespaces
  BY <1>2 DEF Width, Target
<1>4. parts[1] = all
  BY <1>3
<1> HIDE DEF parts
<1>5. Assemble(c, parts) = Filtered(all)
  BY <1>4 DEF Assemble
<1>6. all \in Seq(Items) /\ IsInjective(all)
  BY Listings
<1> HIDE DEF all
<1>7. IsInjective(Filtered(all))
  BY <1>6, KeptIs DEF Filtered
<1>8. Scoped(c, all) = Filtered(all)
  BY <1>1, <1>2 DEF Scoped
<1>9. RouteTold(c, all, Assemble(c, parts))
  BY <1>5, <1>7, <1>8 DEF RouteTold
<1>10. QED
  BY <1>9 DEF parts, all

LEMMA SingleRoute ==
  ASSUME NEW s \in ServerStates, NEW c \in Calls, ~Filters(c), ~FansOut(c)
  PROVE  RouteTold(c, s[AllNamespaces],
                   Assemble(c, [i \in 1..Width(c) |-> s[Target(<<c, i>>)]]))
<1> DEFINE all == s[AllNamespaces]
           parts == [i \in 1..Width(c) |-> s[Target(<<c, i>>)]]
           one == s[Target(<<c, 1>>)]
           inside == {o \in Range(all) : o.ns = Names[1]}
<1>1. /\ Len(Names) \in Nat /\ MaxNamespaceFanout \in Nat \ {0}
      /\ (Names = <<>> <=> Len(Names) = 0)
  BY Listings, ScopeAssumption
<1>2. c \in ClusterScoped \/ Names = <<>> \/ Len(Names) = 1
  <2>1. PICK k : k = Len(Names)
    OBVIOUS
  <2>2. /\ k \in Nat /\ MaxNamespaceFanout \in Nat \ {0} /\ (Names = <<>> <=> k = 0)
        /\ (c \in ClusterScoped \/ (~(k \in 2..MaxNamespaceFanout) /\ ~(k > MaxNamespaceFanout)))
    BY <1>1, <2>1 DEF FansOut, Filters
  <2>3. c \in ClusterScoped \/ k = 0 \/ k = 1
    BY <2>2
  <2>4. QED
    BY <2>1, <2>2, <2>3, Zenon
<1>3. /\ Width(c) = 1
      /\ one = IF c \notin ClusterScoped /\ Len(Names) = 1 THEN s[Names[1]] ELSE all
  BY DEF Width, Target
<1>4. all \in Seq(Items) /\ IsInjective(all)
  BY Listings
<1>5. Kept(all, inside) \in Seq(Items) /\ IsInjective(Kept(all, inside))
  BY <1>4, KeptIs
<1>6. Len(Names) = 1 => s[Names[1]] = Kept(all, inside)
  <2>1. \A i \in 1..Len(Names) : s[Names[i]] = Kept(all, {o \in Range(all) : o.ns = Names[i]})
    BY Listings, Zenon
  <2>2. Len(Names) = 1 => 1 \in 1..Len(Names)
    OBVIOUS
  <2>3. QED
    BY <2>1, <2>2, Zenon
<1>7. Len(Names) = 1 => Filtered(all) = Kept(all, inside)
  <2>1. SUFFICES ASSUME Len(Names) = 1 PROVE Filtered(all) = Kept(all, inside)
    OBVIOUS
  <2>2. \A n : n \in Range(Names) <=> \E i \in 1..Len(Names) : Names[i] = n
    BY Listings
  <2>3. \A n : n \in Range(Names) <=> n = Names[1]
    BY <2>1, <2>2
  <2>4. {o \in Range(all) : InScope(o)} = inside
    BY <2>3 DEF InScope
  <2>5. QED
    BY <2>4 DEF Filtered
<1>8. one \in Seq(Items) /\ IsInjective(one) /\ one = Scoped(c, all)
  <2> HIDE DEF all, one, inside
  <2>1. QED
    BY <1>1, <1>2, <1>3, <1>4, <1>5, <1>6, <1>7 DEF Scoped
<1>9. parts = [i \in 1..1 |-> one]
  <2>1. \A i \in 1..1 : i = 1
    OBVIOUS
  <2>2. QED
    BY <1>3, <2>1
<1>10. Assemble(c, parts) = one
  <2> HIDE DEF one
  <2>1. FlattenSeq([i \in 1..1 |-> one]) = one
    BY <1>8, OnePart
  <2>2. QED
    BY <1>9, <2>1 DEF Assemble
<1>11. RouteTold(c, all, Assemble(c, parts))
  BY <1>8, <1>10 DEF RouteTold
<1>12. QED
  BY <1>11

LEMMA FannedRoute ==
  ASSUME NEW s \in ServerStates, NEW c \in Calls, FansOut(c)
  PROVE  RouteTold(c, s[AllNamespaces],
                   Assemble(c, [i \in 1..Width(c) |-> s[Target(<<c, i>>)]]))
<1> DEFINE all == s[AllNamespaces]
           n == Len(Names)
           In == [i \in 1..n |-> {o \in Range(all) : o.ns = Names[i]}]
           parts == [i \in 1..Width(c) |-> s[Target(<<c, i>>)]]
<1>1. /\ all \in Seq(Items) /\ IsInjective(all)
      /\ n \in Nat /\ DOMAIN Names = 1..n /\ (Names = <<>> <=> n = 0)
      /\ \A x : x \in Range(Names) <=> \E i \in 1..n : Names[i] = x
  BY Listings
<1>2. /\ c \notin ClusterScoped /\ n > 1 /\ n <= MaxNamespaceFanout /\ MaxNamespaceFanout \in Nat
      /\ Width(c) = n
  BY <1>1, ScopeAssumption DEF FansOut, Width
<1>3. ~Filters(c) /\ Names # <<>>
  BY <1>1, <1>2 DEF Filters
<1>4. \A i \in 1..n : In[i] = {o \in Range(all) : o.ns = Names[i]}
  OBVIOUS
<1>5. \A i \in 1..n : s[Target(<<c, i>>)] = Kept(all, In[i])
  <2>1. \A i \in 1..n : s[Names[i]] = Kept(all, {o \in Range(all) : o.ns = Names[i]})
    BY Listings, Zenon
  <2>2. \A i \in 1..n : Target(<<c, i>>) = Names[i]
    BY DEF Target
  <2>3. QED
    BY <1>4, <2>1, <2>2, Zenon
<1> HIDE DEF In
<1>6. parts = [i \in 1..n |-> Kept(all, In[i])]
  BY <1>2, <1>5
<1>7. Len(parts) = n /\ (n = 0 => parts = <<>>)
  BY <1>1, <1>2
<1>8. \A i \in 1..n : parts[i] = Kept(all, In[i])
  BY <1>6
<1> HIDE DEF all, n, parts
<1>9. \A i \in 1..n : /\ parts[i] \in Seq(Items) /\ IsInjective(parts[i])
                      /\ Range(parts[i]) = {x \in Range(all) : x \in In[i]}
  BY <1>1, <1>8, KeptIs
<1>10. \A i \in 1..n : \A x : x \in Range(parts[i]) <=> x \in Range(all) /\ x.ns = Names[i]
  <2>1. \A i \in 1..n : \A x : x \in In[i] <=> x \in Range(all) /\ x.ns = Names[i]
    BY <1>4
  <2>2. QED
    BY <1>9, <2>1
<1>11. \A i, j \in 1..n : i # j => Range(parts[i]) \cap Range(parts[j]) = {}
  <2>1. \A i, j \in 1..n : Names[i] = Names[j] => i = j
    BY <1>1, ListingAssumption DEF IsInjective
  <2>2. QED
    BY <1>10, <2>1
<1>12. Assemble(c, parts) = FlattenSeq(parts)
  BY <1>3 DEF Assemble
<1>13. /\ IsInjective(FlattenSeq(parts))
       /\ \A x : x \in Range(FlattenSeq(parts)) <=> \E i \in 1..n : x \in Range(parts[i])
  <2>1. \A i \in 1..n : parts[i] \in Seq(Items) /\ IsInjective(parts[i])
    BY <1>9
  <2>2. Apart(parts, n)
    BY <1>11, <2>1 DEF Apart
  <2>3. QED
    BY <1>1, <1>7, <2>1, <2>2, FlattenIs, ZenonT(60)
<1>14. Scoped(c, all) = Filtered(all)
  BY <1>2, <1>3 DEF Scoped
<1> DEFINE within == {o \in Range(all) : InScope(o)}
<1>15. \A x : x \in within <=> x \in Range(all) /\ \E i \in 1..n : Names[i] = x.ns
  BY <1>1 DEF InScope
<1> HIDE DEF within
<1>16. Range(Kept(all, within)) = {x \in Range(all) : x \in within}
  BY <1>1, KeptIs
<1>17. Range(FlattenSeq(parts)) = Range(Kept(all, within))
  BY <1>10, <1>13, <1>15, <1>16
<1>18. ASSUME InNameOrder(all) PROVE FlattenSeq(parts) = Kept(all, within)
  <2>1. ASSUME NEW h \in 1..n, NEW k \in 1..n, NEW i \in DOMAIN all, NEW j \in DOMAIN all,
               h < k, all[i] \in In[h], all[j] \in In[k]
        PROVE  i < j
    <3>1. all[i].ns = Names[h] /\ all[j].ns = Names[k]
      BY <1>4, <2>1
    <3>2. j < i => k <= h
      BY <1>1, <1>18, <3>1 DEF InNameOrder
    <3>3. i # j
      <4>1. \A a, b \in 1..n : Names[a] = Names[b] => a = b
        BY <1>1, ListingAssumption DEF IsInjective
      <4>2. i = j => h = k
        BY <3>1, <4>1
      <4>3. QED
        BY <1>1, <2>1, <4>2
    <3>4. i \in Nat /\ j \in Nat /\ h \in Nat /\ k \in Nat
      BY <1>1
    <3>5. QED
      BY <2>1, <3>2, <3>3, <3>4
  <2>2. FlattenSeq(KeptBySet(all, In, n)) = Kept(all, OfAny(In, n))
    <3>1. InTurn(all, In, n)
      BY <2>1, Zenon DEF InTurn
    <3>2. all \in Seq(Items) /\ n \in Nat
      BY <1>1
    <3>3. QED
      BY <3>1, <3>2, KeptInTurn, Zenon
  <2>3. \A x : x \in OfAny(In, n) <=> \E i \in 1..n : x \in In[i]
    BY Zenon DEF OfAny
  <2>4. \A x : x \in within <=> \E i \in 1..n : x \in In[i]
    BY <1>4, <1>15
  <2>5. OfAny(In, n) = within
    BY <2>3, <2>4
  <2>6. parts = KeptBySet(all, In, n)
    BY <1>6 DEF KeptBySet
  <2>7. QED
    BY <2>2, <2>5, <2>6, Zenon
<1>19. RouteTold(c, all, Assemble(c, parts))
  BY <1>12, <1>13, <1>14, <1>17, <1>18 DEF RouteTold, Filtered, within
<1>20. QED
  BY <1>19 DEF all, parts

(* Which route listScoped took cannot be told from the result: the scope's  *)
(* objects once each, in the cluster-wide order unless a fan-out's          *)
(* namespaces have another, for any scope, chunk size, number of slots and  *)
(* interleaving of the requests (listScoped, listWideFiltered).             *)
THEOREM RouteUnseen == Spec => []RouteInvisible
<1>1. Init => RestInv
  BY DEF Init, RestInv
<1>2. ASSUME IInv, RestInv PROVE RouteInvisible
  <2>1. ASSUME NEW c \in Calls, changes = 0, ret[c].done, ret[c].err = None
        PROVE  RouteTold(c, store[c][AllNamespaces], ret[c].items)
    <3>1. store[c] \in ServerStates
      BY <1>2 DEF IInv, TypeOK
    <3>2. ret[c].items = Assemble(c, [i \in 1..Width(c) |-> store[c][Target(<<c, i>>)]])
      BY <1>2, <2>1, RestRead
    <3>3. QED
      BY <3>1, <3>2, FilteredRoute, SingleRoute, FannedRoute
  <2>2. QED
    BY <2>1 DEF RouteInvisible, RouteTold, Scoped
<1>3. QED
  BY <1>1, <1>2, RestKept, InitIInv, NextKeeps, PTL DEF Spec

-----------------------------------------------------------------------------
(* ListFetch implements ListAtomic: a step is a step of it or a stutter.    *)

LEMMA InitRefines == Init => Atomic!Init
<1> SUFFICES ASSUME Init PROVE Atomic!Init
  OBVIOUS
<1>1. store \in [Calls -> ServerStates] /\ snap = [w \in Walks |-> NotRead]
  BY DEF Init
<1>2. err = [w \in Walks |-> None] /\ answer = Atomic!Pending
  BY DEF Init, Pending, Atomic!Pending
<1>3. QED
  BY <1>1, <1>2 DEF Atomic!Init

(* A call still has a walk on its way, so the view is still waiting. *)
LEMMA Unanswered ==
  ASSUME IInv, NEW w \in Walks, ~Settled(w)
  PROVE  ~answer.done
<1>1. ~CallDone(w[1])
  BY WalkParts DEF CallDone
<1>2. ~ret[w[1]].done
  BY <1>1, WalkParts DEF IInv, JoinInv, Joined
<1>3. QED
  BY <1>2, WalkParts DEF IInv, JoinInv

(* The first page fixes the instant; a later one adds nothing to it. *)
LEMMA ServeRefines ==
  ASSUME IInv, NEW w \in Walks, Serve(w)
  PROVE  Atomic!ReadOnce(w) \/ UNCHANGED Atomic!vars
<1>1. pc[w] = "sent" /\ UNCHANGED <<store, err, answer>>
  BY DEF Serve
<1>2. ~answer.done
  BY <1>1, Unanswered DEF Settled
<1>3. CASE token[w] = 0
  <2>1. snap[w] = NotRead
    BY <1>1, <1>3 DEF IInv, WalkInv, Settled
  <2>2. snap' = [snap EXCEPT ![w] = store[w[1]][Target(w)]]
    BY <1>3 DEF Serve
  <2>3. QED
    BY <1>1, <1>2, <2>1, <2>2 DEF Atomic!ReadOnce
<1>4. CASE token[w] # 0
  <2>1. snap' = [snap EXCEPT ![w] = snap[w]]
    BY <1>4 DEF Serve
  <2>2. snap' = snap
    BY <2>1 DEF IInv, TypeOK
  <2>3. QED
    BY <1>1, <2>2 DEF Atomic!vars
<1>5. QED
  BY <1>3, <1>4

(* Every way out of listAll with an error is the failure of a read. *)
LEMMA GiveUpRefines ==
  ASSUME IInv, NEW w \in Walks, pc[w] \in Holding, NEW e \in Errors, GiveUp(w, e)
  PROVE  Atomic!Fail(w)
<1>1. ~answer.done
  BY Unanswered DEF Settled, Holding
<1>2. err[w] = None
  BY DEF IInv, WalkInv, Settled, Holding
<1>3. err' = [err EXCEPT ![w] = e] /\ UNCHANGED <<store, snap, answer>>
  BY DEF GiveUp
<1>4. QED
  BY <1>1, <1>2, <1>3 DEF Atomic!Fail

(* A call that returned an error returned that of its first failed walk.    *)
LEMMA JoinedError ==
  ASSUME IInv, NEW c \in Calls, ret[c].done
  PROVE  \/ /\ ret[c].err = None
            /\ \A i \in 1..Width(c) : err[<<c, i>>] = None
         \/ \E i \in 1..Width(c) : /\ err[<<c, i>>] # None
                                   /\ \A j \in 1..i-1 : err[<<c, j>>] = None
                                   /\ ret[c].err = err[<<c, i>>]
<1>1. ret[c].err = FirstError(WalkErrors(c), Width(c))
  BY DEF IInv, JoinInv, Joined
<1>2. Width(c) \in Nat
  BY WidthType
<1>3. \A i \in 1..Width(c) : WalkErrors(c)[i] = err[<<c, i>>]
  BY DEF WalkErrors
<1>4. CASE \A i \in 1..Width(c) : WalkErrors(c)[i] = None
  <2>1. FirstError(WalkErrors(c), Width(c)) = None
    BY <1>2, <1>4, FirstErrorIs
  <2>2. QED
    BY <1>1, <1>3, <1>4, <2>1
<1>5. CASE \E i \in 1..Width(c) : WalkErrors(c)[i] # None
  <2>1. PICK i \in 1..Width(c) :
          /\ WalkErrors(c)[i] # None
          /\ \A j \in 1..i-1 : WalkErrors(c)[j] = None
          /\ FirstError(WalkErrors(c), Width(c)) = WalkErrors(c)[i]
    BY <1>2, <1>5, FirstErrorIs
  <2>2. \A j \in 1..i-1 : j \in 1..Width(c)
    BY <1>2
  <2>3. QED
    BY <1>1, <1>3, <2>1, <2>2
<1>6. QED
  BY <1>4, <1>5

(* The view resumes with every list, or with the first failure in argument  *)
(* order: of the first call that failed, its first namespace that did.      *)
LEMMA ReturnRefines ==
  ASSUME IInv, Return
  PROVE  Atomic!Succeed \/ \E w \in Walks : Atomic!Refuse(w)
<1> DEFINE errs == [c \in Calls |-> ret[c].err]
           e == FirstError(errs, NumCalls)
<1>1. /\ ~answer.done /\ \A c \in Calls : ret[c].done
      /\ UNCHANGED <<store, snap, err>>
  BY DEF Return, walkVars
<1>2. answer' = [done |-> TRUE, err |-> e,
                 lists |-> IF e = None THEN [c \in Calls |-> ret[c].items] ELSE <<>>]
  BY DEF Return
<1>3. NumCalls \in Nat /\ Calls = 1..NumCalls
  BY ScopeAssumption DEF Calls
<1>4. \A w \in Walks : /\ Settled(w)
                       /\ err[w] # None \/ (snap[w] # NotRead /\ got[w] = snap[w])
  <2>1. TAKE w \in Walks
  <2>2. Settled(w)
    BY <1>1, WalkParts DEF IInv, JoinInv, Joined, CallDone
  <2>3. QED
    BY <2>2 DEF IInv, WalkInv, Settled
<1>5. CASE \A c \in Calls : errs[c] = None
  <2>1. e = None
    BY <1>3, <1>5, FirstErrorIs
  <2>2. \A w \in Walks : err[w] = None
    <3>1. TAKE w \in Walks
    <3>2. w[1] \in Calls /\ w[2] \in 1..Width(w[1]) /\ w = <<w[1], w[2]>>
      BY WalkParts
    <3>3. ret[w[1]].done /\ ret[w[1]].err = None
      BY <1>1, <1>5, <3>2
    <3>4. Width(w[1]) \in Nat
      BY <3>2, WidthType
    <3>5. \A i \in 1..Width(w[1]) : err[<<w[1], i>>] = None
      <4>1. \A i \in 1..Width(w[1]) : err[<<w[1], i>>] # None => ret[w[1]].err # None
        BY <3>2, <3>3, <3>4, JoinedError
      <4>2. QED
        BY <3>3, <4>1
    <3>6. QED
      BY <3>2, <3>5
  <2>3. \A w \in Walks : snap[w] # NotRead /\ got[w] = snap[w]
    BY <1>4, <2>2
  <2>4. \A c \in Calls : ret[c].items = Assemble(c, Atomic!Read(c))
    <3>1. TAKE c \in Calls
    <3>2. ret[c].items = Assemble(c, Parts(c))
      BY <1>1, <1>5 DEF IInv, JoinInv, Joined
    <3>3. Parts(c) = Atomic!Read(c)
      BY <2>3, WalkOf DEF Parts, Atomic!Read
    <3>4. QED
      BY <3>2, <3>3
  <2>5. [c \in Calls |-> ret[c].items] = [c \in Calls |-> Assemble(c, Atomic!Read(c))]
    BY <2>4
  <2>6. QED
    BY <1>1, <1>2, <2>1, <2>2, <2>3, <2>5 DEF Atomic!Succeed
<1>6. CASE \E c \in Calls : errs[c] # None
  <2>1. PICK c \in Calls : /\ errs[c] # None
                           /\ \A d \in 1..c-1 : errs[d] = None
                           /\ e = errs[c]
    <3>1. ~ \A c \in 1..NumCalls : errs[c] = None
      BY <1>3, <1>6, Zenon
    <3>2. \E c \in 1..NumCalls : /\ errs[c] # None
                                 /\ \A d \in 1..c-1 : errs[d] = None
                                 /\ FirstError(errs, NumCalls) = errs[c]
      BY <1>3, <3>1, FirstErrorIs, Zenon
    <3>3. QED
      BY <1>3, <3>2, Zenon
  <2>2. PICK i \in 1..Width(c) : /\ err[<<c, i>>] # None
                                 /\ \A j \in 1..i-1 : err[<<c, j>>] = None
                                 /\ ret[c].err = err[<<c, i>>]
    BY <1>1, <2>1, JoinedError
  <2>3. e = err[<<c, i>>] /\ e # None
    BY <2>1, <2>2
  <2>4. ASSUME NEW v \in Walks, Atomic!Before(v, <<c, i>>)
        PROVE  err[v] = None
    <3>1. /\ v[1] \in Calls /\ v[2] \in 1..Width(v[1]) /\ v = <<v[1], v[2]>>
          /\ Width(v[1]) \in Nat
      BY WalkParts, WidthType
    <3>2. CASE v[1] < c
      <4>1. v[1] \in 1..c-1
        BY <1>3, <3>1, <3>2
      <4>2. ret[v[1]].err = None
        BY <2>1, <3>1, <4>1
      <4>3. ret[v[1]].done
        BY <1>1, <3>1
      <4>4. \A j \in 1..Width(v[1]) : err[<<v[1], j>>] = None
        BY <3>1, <4>2, <4>3, JoinedError
      <4>5. QED
        BY <3>1, <4>4
    <3>3. CASE v[1] = c /\ v[2] < i
      <4>1. v[2] \in 1..i-1
        BY <3>1, <3>3
      <4>2. QED
        BY <2>2, <3>1, <3>3, <4>1
    <3>4. QED
      BY <2>4, <3>2, <3>3 DEF Atomic!Before
  <2>5. <<c, i>> \in Walks
    BY WalkOf
  <2>6. answer' = [done |-> TRUE, err |-> err[<<c, i>>], lists |-> <<>>]
    BY <1>2, <2>3
  <2>7. \A v \in Walks : err[v] # None \/ snap[v] # NotRead
    BY <1>4
  <2>8. Atomic!Refuse(<<c, i>>)
    BY <1>1, <2>2, <2>4, <2>6, <2>7 DEF Atomic!Refuse
  <2>9. QED
    BY <2>5, <2>8
<1>7. QED
  BY <1>5, <1>6

LEMMA NextRefines == IInv /\ [Next]_vars => [Atomic!Next]_(Atomic!vars)
<1> SUFFICES ASSUME IInv, [Next]_vars
             PROVE  Atomic!Next \/ UNCHANGED Atomic!vars
  OBVIOUS
<1>1. ASSUME NEW w \in Walks, WalkStep(w)
      PROVE  Atomic!ReadOnce(w) \/ Atomic!Fail(w) \/ UNCHANGED Atomic!vars
  <2>1. CASE Acquire(w) \/ ServeError(w) \/ Receive(w)
    BY <2>1 DEF Acquire, ServeError, Receive, Atomic!vars
  <2>2. CASE Serve(w)
    BY <2>2, ServeRefines
  <2>3. CASE ReceiveError(w)
    <3>1. resp[w].err \in Errors
      BY <2>3, WalkTypes DEF ReceiveError, IInv
    <3>2. QED
      BY <2>3, <3>1, GiveUpRefines DEF ReceiveError, Holding
  <2>4. CASE Timeout(w)
    <3>1. "timeout" \in Errors
      BY DEF Errors
    <3>2. QED
      BY <2>4, <3>1, GiveUpRefines DEF Timeout, Holding
  <2>5. CASE Abort(w)
    <3>1. "canceled" \in Errors
      BY DEF Errors
    <3>2. QED
      BY <2>5, <3>1, GiveUpRefines DEF Abort, Abortable
  <2>6. QED
    BY <1>1, <2>1, <2>2, <2>3, <2>4, <2>5 DEF WalkStep
<1>2. ASSUME NEW c \in Calls, Change(c)
      PROVE  Atomic!Change(c)
  BY <1>2 DEF Change, walkVars, Atomic!Change
<1>3. ASSUME NEW c \in Calls, CallReturn(c)
      PROVE  UNCHANGED Atomic!vars
  BY <1>3 DEF CallReturn, walkVars, Atomic!vars
<1>4. CASE Cancel \/ UNCHANGED vars
  BY <1>4 DEF Cancel, vars, walkVars, Atomic!vars
<1>5. CASE Return
  BY <1>5, ReturnRefines DEF Atomic!Next
<1>6. QED
  BY <1>1, <1>2, <1>3, <1>4, <1>5 DEF Next, Returned, Atomic!Next

(* Concurrent over paginated, throttled, cancellable lists gives a view     *)
(* nothing that one-instant reads of whole collections could not have given *)
(* it: for any scope, page size, semaphore and course of the cluster.       *)
THEOREM Refinement == Spec => ImplementsAtomic
BY InitRefines, NextRefines, Invariance, PTL DEF Spec, ImplementsAtomic, Atomic!Spec
=============================================================================
