--------------------------- MODULE OwnerRowsProofs ---------------------------
(***************************************************************************)
(* How --by-owner weighs the errors of its reads and which workloads make  *)
(* its rows, for any number of kinds, namespaces, workloads and denials,   *)
(* and any changes to the cluster while the closures read.                 *)
(***************************************************************************)
EXTENDS OwnerRows, ListsProofs, NaturalsInduction

(* What a closure left behind is true of its reads: a built-in kind without *)
(* an error was read whole, and with one some read ended in it; any other   *)
(* kind kept no error that means it is absent.                              *)
SettledInv ==
  \A k \in Kinds : ret[k].done =>
    IF k \in BuiltIn
      THEN /\ ret[k].err = None => \A n \in NS : reads[k][n].err = None
           /\ ret[k].err # None => \E n \in NS : reads[k][n].err = ret[k].err
      ELSE ~Absent(ret[k].err)

(* workloadPods answers after every closure, with an error of theirs and no *)
(* rows, or with no error at all.                                           *)
AnswerInv ==
  IF answer.done
    THEN /\ \A k \in Kinds : ret[k].done
         /\ answer.err = None => \A k \in Kinds : ret[k].err = None
         /\ answer.err # None =>
              answer.rows = <<>> /\ \E k \in Kinds : ret[k].err = answer.err
    ELSE answer.err = None

IInv == TypeOK /\ SettledInv /\ AnswerInv

-----------------------------------------------------------------------------
(* The errors of a sequence of results. *)

(* The least of some natural numbers is one of them.                        *)
LEMMA LeastIn ==
  ASSUME NEW S \in SUBSET Nat, S # {}
  PROVE  Least(S) \in S
<1>1. PICK m \in S : \A k \in S : ~(<<k, m>> \in OpToRel(<, Nat))
  BY NatLessThanWellFounded, WFMin, Zenon
<1>2. \A k \in S : m <= k
  <2>1. TAKE k \in S
  <2>2. <<k, m>> \in OpToRel(<, Nat) <=> k < m
    BY DEF OpToRel
  <2>3. ~(k < m)
    BY <1>1, <2>2, Zenon
  <2>4. QED
    BY <2>3, k \in Nat /\ m \in Nat
<1>3. QED
  BY <1>2 DEF Least

(* A list without an error had none in any namespace; a list with one took  *)
(* it from a namespace.                                                     *)
LEMMA ListErrorIs ==
  ASSUME NEW k \in Kinds
  PROVE  /\ ListError(k) = None => \A n \in NS : reads[k][n].err = None
         /\ ListError(k) # None => \E n \in NS : reads[k][n].err = ListError(k)
<1> DEFINE bad == {i \in DOMAIN Namespaces : reads[k][Namespaces[i]].err # None}
<1>1. DOMAIN Namespaces \subseteq Nat
  BY RowsAssumption
<1>2. \A n \in NS : \E i \in DOMAIN Namespaces : Namespaces[i] = n
  BY DEF NS, Range
<1>3. CASE bad = {}
  <2>1. \A n \in NS : reads[k][n].err = None
    BY <1>2, <1>3
  <2>2. ListError(k) = None
    BY <1>3 DEF ListError
  <2>3. QED
    BY <2>1, <2>2
<1>4. CASE bad # {}
  <2>1. Least(bad) \in bad
    BY <1>1, <1>4, LeastIn
  <2>2. ListError(k) = reads[k][Namespaces[Least(bad)]].err
    BY <1>4 DEF ListError
  <2>3. Namespaces[Least(bad)] \in NS
    BY <2>1 DEF NS, Range
  <2>4. QED
    BY <2>1, <2>2, <2>3
<1>5. QED
  BY <1>3, <1>4

(* Concurrent's error, likewise, over the closures.                         *)
LEMMA FirstFailureIs ==
  /\ FirstFailure = None => \A k \in Kinds : ret[k].err = None
  /\ FirstFailure # None => \E k \in Kinds : ret[k].err = FirstFailure
<1> DEFINE bad == {i \in DOMAIN Closures : ret[Closures[i]].err # None}
<1>1. DOMAIN Closures \subseteq Nat
  BY RowsAssumption
<1>2. \A k \in Kinds : \E i \in DOMAIN Closures : Closures[i] = k
  BY DEF Kinds, Range
<1>3. CASE bad = {}
  <2>1. \A k \in Kinds : ret[k].err = None
    BY <1>2, <1>3
  <2>2. FirstFailure = None
    BY <1>3 DEF FirstFailure
  <2>3. QED
    BY <2>1, <2>2
<1>4. CASE bad # {}
  <2>1. Least(bad) \in bad
    BY <1>1, <1>4, LeastIn
  <2>2. FirstFailure = ret[Closures[Least(bad)]].err
    BY <1>4 DEF FirstFailure
  <2>3. Closures[Least(bad)] \in Kinds
    BY <2>1 DEF Kinds, Range
  <2>4. QED
    BY <2>1, <2>2, <2>3
<1>5. QED
  BY <1>3, <1>4

-----------------------------------------------------------------------------
(* The steps. *)

(* A change of the cluster leaves what was read and returned alone.         *)
LEMMA ClusterKeeps ==
  ASSUME IInv, ClusterStep,
         objects' \subseteq Objects, stayed' \subseteq objects',
         served' \in [Kinds -> SUBSET Versions]
  PROVE  IInv'
<1>1. TypeOK'
  BY DEF IInv, TypeOK, ClusterStep
<1>2. SettledInv' /\ AnswerInv'
  BY DEF IInv, SettledInv, AnswerInv, ClusterStep
<1>3. QED
  BY <1>1, <1>2 DEF IInv

(* A closure that has read every namespace may leave an error of theirs     *)
(* behind, or none.                                                         *)
LEMMA SettleKeeps ==
  ASSUME IInv, NEW k \in Kinds, NEW e, NEW items, Settle(k, e, items),
         ~ret[k].done, e \in Errors \cup {None},
         IF k \in BuiltIn
           THEN /\ e = None => \A n \in NS : reads[k][n].err = None
                /\ e # None => \E n \in NS : reads[k][n].err = e
           ELSE ~Absent(e)
  PROVE  IInv'
<1>1. /\ \A j \in Kinds \ {k} : ret'[j] = ret[j]
      /\ ret'[k] = [done |-> TRUE, err |-> e, items |-> items]
      /\ DOMAIN ret' = Kinds
      /\ UNCHANGED <<cluster, version, reads, answer, stayed>>
  BY DEF Settle, IInv, TypeOK, history
<1>2. TypeOK'
  <2>1. UNCHANGED <<objects, stayed, served, version, reads, answer>>
    BY <1>1 DEF cluster
  <2>2. \A j \in Kinds : ret'[j].done \in BOOLEAN /\ ret'[j].err \in Errors \cup {None}
    <3>1. TAKE j \in Kinds
    <3>2. CASE j = k
      <4>1. ret'[j].done = TRUE
        BY <1>1, <3>2
      <4>2. ret'[j].done \in BOOLEAN
        BY <4>1, Zenon
      <4>3. ret'[j].err = e
        BY <1>1, <3>2
      <4>4. QED
        BY <4>2, <4>3
    <3>3. CASE j # k
      <4>1. ret'[j] = ret[j]
        BY <1>1, <3>3
      <4>2. ret[j].done \in BOOLEAN /\ ret[j].err \in Errors \cup {None}
        BY DEF IInv, TypeOK
      <4>3. QED
        BY <4>1, <4>2, Zenon
    <3>4. QED
      BY <3>2, <3>3
  <2>3. QED
    BY <1>1, <2>1, <2>2 DEF IInv, TypeOK
<1>3. SettledInv'
  BY <1>1 DEF IInv, SettledInv
<1>4. AnswerInv'
  <2>1. ~answer.done /\ answer.err = None
    BY DEF IInv, AnswerInv
  <2>2. QED
    BY <1>1, <2>1 DEF AnswerInv
<1>5. QED
  BY <1>2, <1>3, <1>4 DEF IInv

(* A closure that has read every namespace leaves an error of a known type. *)
LEMMA ListErrorType ==
  ASSUME TypeOK, NEW k \in Kinds, AllRead(k)
  PROVE  ListError(k) \in Errors \cup {None}
BY ListErrorIs DEF TypeOK, AllRead

LEMMA ReturnKeeps ==
  ASSUME IInv, NEW k \in Kinds, ReturnBuiltIn(k) \/ ReturnOptional(k)
  PROVE  IInv'
<1>1. ~ret[k].done /\ ListError(k) \in Errors \cup {None}
  BY ListErrorType DEF IInv, ReturnBuiltIn, ReturnOptional
<1>2. CASE ReturnBuiltIn(k)
  <2>1. k \in BuiltIn /\ SettleListed(k)
    BY <1>2 DEF ReturnBuiltIn
  <2>2. QED
    BY <1>1, <2>1, ListErrorIs, SettleKeeps DEF SettleListed
<1>3. CASE ReturnOptional(k) /\ Absent(ListError(k))
  <2>1. k \notin BuiltIn /\ Settle(k, None, <<>>)
    BY <1>3 DEF ReturnOptional
  <2>2. ~Absent(None)
    BY RowsAssumption DEF Absent, Errors
  <2>3. QED
    BY <1>1, <2>1, <2>2, SettleKeeps
<1>4. CASE ReturnOptional(k) /\ ~Absent(ListError(k))
  <2>1. k \notin BuiltIn /\ SettleListed(k)
    BY <1>4 DEF ReturnOptional
  <2>2. QED
    BY <1>1, <1>4, <2>1, SettleKeeps DEF SettleListed
<1>5. QED
  BY <1>2, <1>3, <1>4

LEMMA StrimziKeeps == IInv /\ ReturnStrimzi => IInv'
<1> SUFFICES ASSUME IInv, ReturnStrimzi PROVE IInv'
  OBVIOUS
<1>1. Strimzi \in Kinds /\ Strimzi \notin BuiltIn
  BY RowsAssumption
<1>2. ~ret[Strimzi].done /\ ListError(Strimzi) \in Errors \cup {None}
  BY <1>1, ListErrorType DEF IInv, ReturnStrimzi
<1>3. CASE Absent(ListError(Strimzi))
  <2>1. Settle(Strimzi, None, <<>>)
    BY <1>3 DEF ReturnStrimzi
  <2>2. ~Absent(None)
    BY RowsAssumption DEF Absent, Errors
  <2>3. QED
    BY <1>1, <1>2, <2>1, <2>2, SettleKeeps
<1>4. CASE ~Absent(ListError(Strimzi))
  <2>1. SettleListed(Strimzi)
    BY <1>4 DEF ReturnStrimzi
  <2>2. QED
    BY <1>1, <1>2, <1>4, <2>1, SettleKeeps DEF SettleListed
<1>5. QED
  BY <1>3, <1>4

(* Only a closure that is still open reads, at whichever version.           *)
LEMMA OpenKeeps ==
  ASSUME IInv, NEW k \in Kinds, ~ret[k].done,
         UNCHANGED <<cluster, ret, answer, history>>,
         version' \in [Kinds -> Versions],
         DOMAIN reads' = Kinds, DOMAIN reads'[k] = NS,
         \A j \in Kinds \ {k} : reads'[j] = reads[j],
         \A n \in NS : reads'[k][n] = Unread \/ reads'[k][n].err \in Errors \cup {None}
  PROVE  IInv'
<1>1. TypeOK'
  BY ZenonT(60) DEF IInv, TypeOK, cluster, history
<1>2. SettledInv'
  BY DEF IInv, SettledInv
<1>3. AnswerInv'
  BY DEF IInv, AnswerInv
<1>4. QED
  BY <1>1, <1>2, <1>3 DEF IInv

LEMMA ReadKeeps ==
  ASSUME IInv, NEW k \in Kinds, NEW n \in NS, Read(k, n)
  PROVE  IInv'
<1>1. PICK r \in Outcomes(k, n) : reads' = [reads EXCEPT ![k][n] = r]
  BY DEF Read
<1>2. r.err \in Errors \cup {None}
  BY <1>1 DEF Outcomes, Failed, Answered, Errors
<1>3. /\ DOMAIN reads' = Kinds /\ DOMAIN reads'[k] = NS
      /\ \A j \in Kinds \ {k} : reads'[j] = reads[j]
      /\ \A m \in NS : reads'[k][m] = IF m = n THEN r ELSE reads[k][m]
  BY <1>1 DEF IInv, TypeOK
<1>4. ~ret[k].done /\ UNCHANGED <<cluster, ret, answer, history>>
  BY DEF Read
<1>5. version' \in [Kinds -> Versions]
  BY DEF Read, IInv, TypeOK
<1>6. \A m \in NS : reads'[k][m] = Unread \/ reads'[k][m].err \in Errors \cup {None}
  BY <1>2, <1>3 DEF IInv, TypeOK
<1>7. QED
  BY <1>3, <1>4, <1>5, <1>6, OpenKeeps

LEMMA FallBackKeeps == IInv /\ FallBack => IInv'
<1> SUFFICES ASSUME IInv, FallBack PROVE IInv'
  OBVIOUS
<1>1. Strimzi \in Kinds
  BY RowsAssumption
<1>2. /\ DOMAIN reads' = Kinds
      /\ reads'[Strimzi] = [n \in NS |-> Unread]
      /\ \A j \in Kinds \ {Strimzi} : reads'[j] = reads[j]
      /\ version' \in [Kinds -> Versions]
  BY <1>1 DEF FallBack, IInv, TypeOK, Versions
<1>3. ~ret[Strimzi].done /\ UNCHANGED <<cluster, ret, answer, history>>
  BY DEF FallBack
<1>4. QED
  BY <1>1, <1>2, <1>3, OpenKeeps

LEMMA AnswerKeeps == IInv /\ Return => IInv'
<1> SUFFICES ASSUME IInv, Return PROVE IInv'
  OBVIOUS
<1>1. /\ answer'.done = TRUE /\ answer'.err = FirstFailure
      /\ FirstFailure # None => answer'.rows = <<>>
      /\ UNCHANGED <<cluster, version, reads, ret, history>>
  BY DEF Return
<1>2. FirstFailure \in Errors \cup {None}
  BY FirstFailureIs DEF IInv, TypeOK
<1>3. TypeOK'
  BY <1>1, <1>2 DEF IInv, TypeOK, cluster, history
<1>4. SettledInv'
  BY <1>1 DEF IInv, SettledInv
<1>5. AnswerInv'
  BY <1>1, FirstFailureIs DEF AnswerInv, Return
<1>6. QED
  BY <1>3, <1>4, <1>5 DEF IInv

-----------------------------------------------------------------------------
LEMMA Starts == Init => IInv
<1> SUFFICES ASSUME Init PROVE IInv
  OBVIOUS
<1>1. objects \subseteq Objects
  BY RowsAssumption DEF Init
<1>2. TypeOK
  BY <1>1 DEF Init, TypeOK, Versions
<1>3. SettledInv /\ AnswerInv
  BY DEF Init, SettledInv, AnswerInv
<1>4. QED
  BY <1>2, <1>3 DEF IInv

LEMMA Steps == IInv /\ [Next]_vars => IInv'
<1> SUFFICES ASSUME IInv, [Next]_vars PROVE IInv'
  OBVIOUS
<1>1. CASE \E o \in Objects : Create(o)
  <2>1. PICK o \in Objects : Create(o)
    BY <1>1
  <2>2. /\ ClusterStep /\ objects' = objects \cup {o}
        /\ UNCHANGED <<served, stayed>>
    BY <2>1 DEF Create
  <2>3. QED
    BY <2>2, ClusterKeeps DEF IInv, TypeOK
<1>2. CASE \E o \in Objects : Delete(o)
  <2>1. PICK o \in Objects : Delete(o)
    BY <1>2
  <2>2. /\ ClusterStep /\ objects' = objects \ {o} /\ stayed' = stayed \ {o}
        /\ UNCHANGED served
    BY <2>1 DEF Delete
  <2>3. QED
    BY <2>2, ClusterKeeps DEF IInv, TypeOK
<1>3. CASE \E k \in Kinds, v \in Versions : Upgrade(k, v)
  <2>1. PICK k \in Kinds, v \in Versions : Upgrade(k, v)
    BY <1>3
  <2>2. /\ ClusterStep /\ UNCHANGED <<objects, stayed>>
        /\ served' \in [Kinds -> SUBSET Versions]
    BY <2>1 DEF Upgrade, IInv, TypeOK
  <2>3. QED
    BY <2>2, ClusterKeeps DEF IInv, TypeOK
<1>4. CASE \E k \in Kinds, n \in NS : Read(k, n)
  BY <1>4, ReadKeeps
<1>5. CASE \E k \in Kinds : ReturnBuiltIn(k) \/ ReturnOptional(k)
  BY <1>5, ReturnKeeps
<1>6. CASE FallBack
  BY <1>6, FallBackKeeps
<1>7. CASE ReturnStrimzi
  BY <1>7, StrimziKeeps
<1>8. CASE Return
  BY <1>8, AnswerKeeps
<1>9. CASE Returned \/ UNCHANGED vars
  <2>1. UNCHANGED vars
    BY <1>9 DEF Returned
  <2>2. QED
    BY <2>1 DEF vars, cluster, history, IInv, TypeOK, SettledInv, AnswerInv, Absent
<1>10. QED
  BY <1>1, <1>2, <1>3, <1>4, <1>5, <1>6, <1>7, <1>8, <1>9 DEF Next

(* The error of a table is that of a built-in kind when it says a kind is   *)
(* absent, and a table without one had every built-in kind read whole.      *)
LEMMA Weighed == IInv => ErrorsWeighed
<1> SUFFICES ASSUME IInv PROVE ErrorsWeighed
  OBVIOUS
<1>1. ASSUME answer.err \in {"notfound", "forbidden"}
      PROVE  \E k \in BuiltIn, n \in NS : reads[k][n].err = answer.err
  <2>1. answer.err # None
    BY <1>1, RowsAssumption DEF Errors
  <2>2. answer.done
    BY <2>1 DEF IInv, AnswerInv
  <2>3. PICK k \in Kinds : ret[k].err = answer.err /\ ret[k].done
    BY <2>1, <2>2 DEF IInv, AnswerInv
  <2>4. k \in BuiltIn
    BY <1>1, <2>3 DEF IInv, SettledInv, Absent
  <2>5. QED
    BY <2>1, <2>3, <2>4 DEF IInv, SettledInv
<1>2. ASSUME Good
      PROVE  \A k \in BuiltIn, n \in NS : reads[k][n].err = None
  <2>1. \A k \in Kinds : ret[k].done /\ ret[k].err = None
    BY <1>2 DEF Good, IInv, AnswerInv
  <2>2. QED
    BY <2>1, RowsAssumption DEF IInv, SettledInv
<1>3. answer.err # None => answer.rows = <<>>
  BY DEF IInv, AnswerInv
<1>4. QED
  BY <1>1, <1>2, <1>3 DEF ErrorsWeighed

LEMMA Invariance == Spec => []IInv
BY Starts, Steps, PTL DEF Spec

(* Every variable of workloadPods keeps its type, for any kinds and scope.  *)
THEOREM TypeCorrect == Spec => []TypeOK
<1>1. IInv => TypeOK
  BY DEF IInv
<1>2. QED
  BY <1>1, Invariance, PTL

(* A missing or forbidden custom resource never costs the table, and a      *)
(* built-in kind that could not be read whole never passes for an empty     *)
(* one, for any kinds, scope, denials and changes to the cluster.           *)
THEOREM ErrorsTold == Spec => []ErrorsWeighed
BY Weighed, Invariance, PTL

-----------------------------------------------------------------------------
(* The rows.  What a namespace's read says of the workloads that have been  *)
(* there since, what a closure then leaves behind, and what is in a table:  *)
(* nothing that never was, nothing twice, and all that lasted of a kind the *)
(* user could list, at the version that was there.                          *)
ReadTrue(k, n) ==
  LET r == reads[k][n] IN
    /\ r.items \in Seq(Objects) /\ IsInjective(r.items)
    /\ \A o \in Range(r.items) : o.kind = k /\ o.ns = n /\ o \in ever
    /\ r.err = None => \A o \in stayed : o.kind = k /\ o.ns = n => o \in Range(r.items)
    /\ r.err = "notfound" => <<k, version[k]>> \notin steady
    /\ r.err = "forbidden" => <<k, n>> \in denied

LeftTrue(k) ==
  LET items == ret[k].items IN
    /\ items \in Seq(Objects) /\ IsInjective(items)
    /\ \A o \in Range(items) : o.kind = k /\ o \in ever
    /\ ret[k].err = None /\ Listable(k) => \A o \in stayed : o.kind = k => o \in Range(items)

TableTrue ==
  /\ answer.rows \in Seq(Objects) /\ IsInjective(answer.rows) /\ Range(answer.rows) \subseteq ever
  /\ Good => \A o \in stayed : Listable(o.kind) /\ Readable(o) => o \in Range(answer.rows)

(* Only PodSets have an old version, and it is listed once v1 was refused.  *)
VersionInv ==
  /\ \A k \in Kinds, v \in Versions : <<k, v>> \in steady => Served(k, v) /\ (v = "v1" \/ k = Strimzi)
  /\ \A k \in Kinds \ {Strimzi} : version[k] = "v1"
  /\ version[Strimzi] = "v1" \/ <<Strimzi, "v1">> \notin steady
                             \/ \E n \in NS : <<Strimzi, n>> \in denied

RowsInv ==
  /\ stayed \subseteq objects /\ objects \subseteq ever /\ ever \subseteq Objects
  /\ VersionInv
  /\ \A k \in Kinds, n \in NS : reads[k][n] # Unread => ReadTrue(k, n)
  /\ \A k \in Kinds : ret[k].done => LeftTrue(k)
  /\ TableTrue
-----------------------------------------------------------------------------
(* What a list call returns, from its reads.                                *)
LEMMA ListedIs ==
  ASSUME TypeOK, RowsInv, NEW k \in Kinds, AllRead(k)
  PROVE  /\ Listed(k) \in Seq(Objects) /\ IsInjective(Listed(k))
         /\ \A o \in Range(Listed(k)) : o.kind = k /\ o \in ever
         /\ ListError(k) = None => \A o \in stayed : o.kind = k => o \in Range(Listed(k))
<1> DEFINE seqs == [i \in DOMAIN Namespaces |-> reads[k][Namespaces[i]].items]
           m == Len(Namespaces)
<1>1. m \in Nat /\ DOMAIN Namespaces = 1..m
  BY RowsAssumption
<1>2. /\ \A i \in 1..m : Namespaces[i] \in NS
      /\ \A n \in NS : \E i \in 1..m : Namespaces[i] = n
  BY <1>1 DEF NS, Range
<1>3. \A i, j \in 1..m : Namespaces[i] = Namespaces[j] => i = j
  BY <1>1, RowsAssumption, Zenon
<1>4. \A i \in 1..m : seqs[i] = reads[k][Namespaces[i]].items
  BY <1>1
<1>5. Len(seqs) = m /\ (m = 0 => seqs = <<>>)
  BY <1>1
<1>6. Listed(k) = FlattenSeq(seqs)
  BY DEF Listed
<1> HIDE DEF seqs, m
<1>7. \A n \in NS : ReadTrue(k, n)
  BY DEF AllRead, RowsInv
<1>8. \A i \in 1..m : /\ seqs[i] \in Seq(Objects) /\ IsInjective(seqs[i])
                      /\ \A o \in Range(seqs[i]) : o.kind = k /\ o.ns = Namespaces[i] /\ o \in ever
  BY <1>2, <1>4, <1>7 DEF ReadTrue
<1>9. Apart(seqs, m)
  <2>1. ASSUME NEW i \in 1..m, NEW j \in 1..m, i # j
        PROVE  Range(seqs[i]) \cap Range(seqs[j]) = {}
    BY <1>3, <1>8, <2>1, ZenonT(60)
  <2>2. QED
    BY <1>8, <2>1 DEF Apart
<1>10. /\ FlattenSeq(seqs) \in Seq(Objects) /\ IsInjective(FlattenSeq(seqs))
       /\ \A o : o \in Range(FlattenSeq(seqs)) <=> \E i \in 1..m : o \in Range(seqs[i])
  BY <1>1, <1>5, <1>8, <1>9, FlattenIs
<1>11. ASSUME ListError(k) = None, NEW o \in stayed, o.kind = k
       PROVE  o \in Range(FlattenSeq(seqs))
  <2>1. o.ns \in NS
    BY RowsAssumption DEF RowsInv, Object
  <2>2. PICK i \in 1..m : Namespaces[i] = o.ns
    BY <1>2, <2>1
  <2>3. reads[k][o.ns].err = None
    BY <1>11, <2>1, ListErrorIs
  <2>4. o \in Range(reads[k][o.ns].items)
    BY <1>7, <1>11, <2>1, <2>3 DEF ReadTrue
  <2>5. QED
    BY <1>4, <1>10, <2>2, <2>4
<1>12. QED
  BY <1>6, <1>8, <1>10, <1>11

(* A kind that is absent was refused somewhere, or its version was once not *)
(* served.                                                                  *)
LEMMA AbsentMeans ==
  ASSUME RowsInv, NEW k \in Kinds, AllRead(k), Absent(ListError(k))
  PROVE  <<k, version[k]>> \notin steady \/ \E n \in NS : <<k, n>> \in denied
<1>1. ListError(k) # None
  BY RowsAssumption DEF Absent, Errors
<1>2. PICK n \in NS : reads[k][n].err = ListError(k)
  BY <1>1, ListErrorIs
<1>3. ReadTrue(k, n)
  BY DEF AllRead, RowsInv
<1>4. QED
  BY <1>2, <1>3 DEF ReadTrue, Absent

(* Time only takes from what stayed and was served, and adds to what ever   *)
(* was.                                                                     *)
LEMMA RowsFade ==
  ASSUME RowsInv, UNCHANGED <<denied, version, reads, ret, answer>>,
         stayed' \subseteq objects', objects' \subseteq ever', ever' \subseteq Objects,
         stayed' \subseteq stayed, ever \subseteq ever', steady' \subseteq steady,
         \A k \in Kinds, v \in Versions :
           <<k, v>> \in steady' => v \in served'[k]
  PROVE  RowsInv'
<1>1. VersionInv'
  BY DEF RowsInv, VersionInv, Served
<1>2. \A k \in Kinds : Listable(k)' => Listable(k)
  BY DEF Listable
<1>3. ASSUME NEW k \in Kinds, NEW n \in NS, reads[k][n] # Unread
      PROVE  ReadTrue(k, n)'
  <2>1. ReadTrue(k, n)
    BY <1>3 DEF RowsInv
  <2>2. QED
    BY <2>1 DEF ReadTrue
<1>4. ASSUME NEW k \in Kinds, ret[k].done
      PROVE  LeftTrue(k)'
  <2>1. LeftTrue(k)
    BY <1>4 DEF RowsInv
  <2>2. QED
    BY <1>2, <2>1 DEF LeftTrue
<1>5. TableTrue'
  <2>1. \A o \in stayed : o.kind \in Kinds
    BY RowsAssumption DEF RowsInv, Object
  <2>2. QED
    BY <1>2, <2>1 DEF RowsInv, TableTrue, Good, Readable
<1>6. QED
  BY <1>1, <1>3, <1>4, <1>5 DEF RowsInv

LEMMA ClusterRows ==
  ASSUME TypeOK, RowsInv,
         \/ \E o \in Objects : Create(o) \/ Delete(o)
         \/ \E k \in Kinds, v \in Versions : Upgrade(k, v)
  PROVE  RowsInv'
<1>1. \A k \in Kinds, v \in Versions : <<k, v>> \in steady => v \in served[k]
  BY DEF RowsInv, VersionInv, Served
<1>2. CASE \E o \in Objects : Create(o)
  BY <1>1, <1>2, RowsFade DEF Create, ClusterStep, RowsInv
<1>3. CASE \E o \in Objects : Delete(o)
  BY <1>1, <1>3, RowsFade DEF Delete, ClusterStep, RowsInv
<1>4. CASE \E k \in Kinds, v \in Versions : Upgrade(k, v)
  <2>1. PICK k \in Kinds, v \in Versions : Upgrade(k, v)
    BY <1>4
  <2>2. /\ served' = [served EXCEPT ![k] = IF v \in @ THEN @ \ {v} ELSE @ \cup {v}]
        /\ steady' = steady \ {<<k, v>>}
        /\ UNCHANGED <<objects, stayed, ever, denied, version, reads, ret, answer>>
    BY <2>1 DEF Upgrade, ClusterStep
  <2>3. \A j \in Kinds, w \in Versions : <<j, w>> \in steady' => w \in served'[j]
    BY <1>1, <2>2 DEF TypeOK
  <2>4. QED
    BY <2>2, <2>3, RowsFade DEF RowsInv
<1>5. QED
  BY <1>2, <1>3, <1>4

(* A read is of this moment.                                                *)
LEMMA ReadRows ==
  ASSUME TypeOK, RowsInv, NEW k \in Kinds, NEW n \in NS, Read(k, n)
  PROVE  RowsInv'
<1>1. PICK r \in Outcomes(k, n) : reads' = [reads EXCEPT ![k][n] = r]
  BY DEF Read
<1>2. UNCHANGED <<objects, served, denied, version, ret, answer, stayed, ever, steady>>
  BY DEF Read, cluster, history
<1>3. \A j \in Kinds, m \in NS : reads'[j][m] = IF j = k /\ m = n THEN r ELSE reads[j][m]
  BY <1>1 DEF TypeOK
<1> DEFINE there == {o \in objects : o.kind = k /\ o.ns = n}
<1>4. /\ Listing(k, n) \in Seq(Objects) /\ IsInjective(Listing(k, n))
      /\ Range(Listing(k, n)) = there
  <2>1. there \in SUBSET Objects
    BY DEF TypeOK
  <2>2. IsFiniteSet(there)
    BY <2>1, RowsAssumption, FS_Subset
  <2>3. Seq(there) \subseteq Seq(Objects)
    BY <2>1
  <2> HIDE DEF there
  <2>4. SetToSeq(there) \in Seq(there) /\ IsInjective(SetToSeq(there)) /\ Range(SetToSeq(there)) = there
    BY <2>2, SetListed
  <2>5. QED
    BY <2>3, <2>4 DEF Listing, there
<1>5. <<>> \in Seq(Objects) /\ Range(<<>>) = {} /\ IsInjective(<<>>)
  BY DEF Range, IsInjective
<1>6. /\ r.items \in Seq(Objects) /\ IsInjective(r.items)
      /\ \A o \in Range(r.items) : o.kind = k /\ o.ns = n /\ o \in ever
      /\ r.err = None => \A o \in stayed : o.kind = k /\ o.ns = n => o \in Range(r.items)
      /\ r.err = "notfound" => <<k, version[k]>> \notin steady
      /\ r.err = "forbidden" => <<k, n>> \in denied
  <2>1. None \notin Failures /\ None # "notfound" /\ None # "forbidden"
    BY RowsAssumption DEF Errors
  <2>2. ASSUME NEW e \in Failures, r = Failed(e) PROVE r.items = <<>> /\ r.err = e
    BY <2>2 DEF Failed
  <2>3. CASE \E e \in Failures : r = Failed(e)
    BY <1>5, <2>1, <2>2, <2>3, RowsAssumption
  <2>4. CASE ~Served(k, version[k]) /\ r = Failed("notfound")
    <3>1. r.items = <<>> /\ r.err = "notfound"
      BY <2>4 DEF Failed
    <3>2. version[k] \in Versions
      BY DEF TypeOK
    <3>3. <<k, version[k]>> \notin steady
      BY <2>4, <3>2 DEF RowsInv, VersionInv
    <3>4. QED
      BY <1>5, <2>1, <3>1, <3>3
  <2>5. CASE <<k, n>> \in denied /\ r = Failed("forbidden")
    <3>1. r.items = <<>> /\ r.err = "forbidden"
      BY <2>5 DEF Failed
    <3>2. QED
      BY <1>5, <2>1, <2>5, <3>1
  <2>6. CASE r = Answered(Listing(k, n))
    <3>1. r.items = Listing(k, n) /\ r.err = None
      BY <2>6 DEF Answered
    <3>2. \A o \in there : o.kind = k /\ o.ns = n /\ o \in ever
      BY DEF RowsInv
    <3>3. \A o \in stayed : o.kind = k /\ o.ns = n => o \in there
      BY DEF RowsInv
    <3> HIDE DEF there
    <3>4. QED
      BY <1>4, <2>1, <3>1, <3>2, <3>3
  <2>7. QED
    BY <1>1, <2>3, <2>4, <2>5, <2>6 DEF Outcomes
<1>7. \A j \in Kinds, m \in NS : reads'[j][m] # Unread => ReadTrue(j, m)'
  <2>1. TAKE j \in Kinds, m \in NS
  <2>2. CASE j = k /\ m = n
    BY <1>2, <1>3, <1>6, <2>2 DEF ReadTrue
  <2>3. CASE ~(j = k /\ m = n)
    BY <1>2, <1>3, <2>3 DEF RowsInv, ReadTrue
  <2>4. QED
    BY <2>2, <2>3
<1>8. QED
  BY <1>2, <1>7 DEF RowsInv, VersionInv, Served, LeftTrue, TableTrue, Listable, Good

(* A closure returns what is true of its kind.                              *)
LEMMA SettleRows ==
  ASSUME TypeOK, RowsInv, NEW k \in Kinds, NEW e, NEW items, Settle(k, e, items),
         items \in Seq(Objects), IsInjective(items),
         \A o \in Range(items) : o.kind = k /\ o \in ever,
         e = None /\ Listable(k) => \A o \in stayed : o.kind = k => o \in Range(items)
  PROVE  RowsInv'
<1>1. /\ \A j \in Kinds \ {k} : ret'[j] = ret[j]
      /\ ret'[k].err = e /\ ret'[k].items = items
      /\ UNCHANGED <<objects, served, denied, version, reads, answer, stayed, ever, steady>>
  BY DEF Settle, TypeOK, cluster, history
<1>2. \A j \in Kinds : ret'[j].done => LeftTrue(j)'
  <2>1. TAKE j \in Kinds
  <2>2. CASE j = k
    BY <1>1, <2>2 DEF LeftTrue, Listable
  <2>3. CASE j # k
    BY <1>1, <2>3 DEF RowsInv, LeftTrue, Listable
  <2>4. QED
    BY <2>2, <2>3
<1>3. VersionInv'
  BY <1>1 DEF RowsInv, VersionInv, Served
<1>4. \A j \in Kinds, n \in NS : reads'[j][n] # Unread => ReadTrue(j, n)'
  BY <1>1 DEF RowsInv, ReadTrue
<1>5. TableTrue'
  BY <1>1 DEF RowsInv, TableTrue, Listable, Good
<1>6. QED
  BY <1>1, <1>2, <1>3, <1>4, <1>5 DEF RowsInv

LEMMA ListedRows ==
  ASSUME TypeOK, RowsInv, NEW k \in Kinds, AllRead(k), SettleListed(k)
  PROVE  RowsInv'
<1>1. <<>> \in Seq(Objects) /\ Range(<<>>) = {} /\ IsInjective(<<>>)
  BY DEF Range, IsInjective
<1>2. CASE ListError(k) = None
  <2>1. Settle(k, None, Listed(k))
    BY <1>2 DEF SettleListed
  <2>2. QED
    BY <1>2, <2>1, ListedIs, SettleRows
<1>3. CASE ListError(k) # None
  <2>1. Settle(k, ListError(k), <<>>)
    BY <1>3 DEF SettleListed
  <2>2. QED
    BY <1>1, <1>3, <2>1, SettleRows
<1>4. QED
  BY <1>2, <1>3

(* An absent kind has no rows that should be there: no version of it was    *)
(* served throughout, or the user may not list all of it.                   *)
LEMMA AbsentRows ==
  ASSUME TypeOK, RowsInv, NEW k \in Kinds, AllRead(k), Absent(ListError(k)),
         k = Strimzi => version[k] = "v1beta2", Settle(k, None, <<>>)
  PROVE  RowsInv'
<1>1. <<>> \in Seq(Objects) /\ Range(<<>>) = {} /\ IsInjective(<<>>)
  BY DEF Range, IsInjective
<1>2. <<k, version[k]>> \notin steady \/ \E n \in NS : <<k, n>> \in denied
  BY AbsentMeans
<1>3. ~Listable(k)
  <2>1. CASE k = Strimzi
    <3>1. <<k, "v1">> \notin steady \/ \E n \in NS : <<k, n>> \in denied
      BY <2>1 DEF RowsInv, VersionInv
    <3>2. QED
      BY <1>2, <2>1, <3>1 DEF Listable, Versions
  <2>2. CASE k # Strimzi
    <3>1. version[k] = "v1" /\ \A v \in Versions : <<k, v>> \in steady => v = "v1"
      BY <2>2 DEF RowsInv, VersionInv
    <3>2. QED
      BY <1>2, <3>1 DEF Listable
  <2>3. QED
    BY <2>1, <2>2
<1>4. QED
  BY <1>1, <1>3, SettleRows

(* A read of PodSets at v1 that was refused starts over at v1beta2.         *)
LEMMA FallBackRows == TypeOK /\ RowsInv /\ FallBack => RowsInv'
<1> SUFFICES ASSUME TypeOK, RowsInv, FallBack PROVE RowsInv'
  OBVIOUS
<1>1. Strimzi \in Kinds
  BY RowsAssumption
<1>2. /\ \A j \in Kinds \ {Strimzi} : reads'[j] = reads[j] /\ version'[j] = version[j]
      /\ \A n \in NS : reads'[Strimzi][n] = Unread
      /\ UNCHANGED <<objects, served, denied, ret, answer, stayed, ever, steady>>
  BY <1>1 DEF FallBack, TypeOK, cluster, history
<1>3. <<Strimzi, "v1">> \notin steady \/ \E n \in NS : <<Strimzi, n>> \in denied
  <2>1. version[Strimzi] = "v1" /\ AllRead(Strimzi) /\ Absent(ListError(Strimzi))
    BY DEF FallBack
  <2>2. QED
    BY <1>1, <2>1, AbsentMeans
<1>4. VersionInv'
  BY <1>2, <1>3 DEF RowsInv, VersionInv, Served
<1>5. \A j \in Kinds, n \in NS : reads'[j][n] # Unread => ReadTrue(j, n)'
  BY <1>2 DEF RowsInv, ReadTrue
<1>6. \A j \in Kinds : ret'[j].done => LeftTrue(j)'
  BY <1>2 DEF RowsInv, LeftTrue, Listable
<1>7. TableTrue'
  BY <1>2 DEF RowsInv, TableTrue, Listable, Good
<1>8. QED
  BY <1>2, <1>4, <1>5, <1>6, <1>7 DEF RowsInv

LEMMA ReturnRows ==
  ASSUME TypeOK, RowsInv,
         (\E k \in Kinds : ReturnBuiltIn(k) \/ ReturnOptional(k)) \/ ReturnStrimzi
  PROVE  RowsInv'
<1>1. ASSUME NEW k \in Kinds, ReturnBuiltIn(k) PROVE RowsInv'
  BY <1>1, ListedRows DEF ReturnBuiltIn
<1>2. ASSUME NEW k \in Kinds, ReturnOptional(k) PROVE RowsInv'
  <2>1. AllRead(k) /\ k # Strimzi
    BY <1>2 DEF ReturnOptional
  <2>2. CASE Absent(ListError(k))
    BY <1>2, <2>1, <2>2, AbsentRows DEF ReturnOptional
  <2>3. CASE ~Absent(ListError(k))
    BY <1>2, <2>1, <2>3, ListedRows DEF ReturnOptional
  <2>4. QED
    BY <2>2, <2>3
<1>3. CASE ReturnStrimzi
  <2>1. Strimzi \in Kinds /\ AllRead(Strimzi)
    BY <1>3, RowsAssumption DEF ReturnStrimzi
  <2>2. CASE Absent(ListError(Strimzi))
    BY <1>3, <2>1, <2>2, AbsentRows DEF ReturnStrimzi
  <2>3. CASE ~Absent(ListError(Strimzi))
    BY <1>3, <2>1, <2>3, ListedRows DEF ReturnStrimzi
  <2>4. QED
    BY <2>2, <2>3
<1>4. QED
  BY <1>1, <1>2, <1>3

(* The table is the readable part of what the closures left behind.         *)
LEMMA AnswerRows == TypeOK /\ RowsInv /\ Return => RowsInv'
<1> SUFFICES ASSUME TypeOK, RowsInv, Return PROVE RowsInv'
  OBVIOUS
<1> DEFINE seqs == [i \in DOMAIN Closures |-> ret[Closures[i]].items]
           m == Len(Closures)
           all == FlattenSeq(seqs)
           readable == {o \in Range(all) : Readable(o)}
<1>1. m \in Nat /\ DOMAIN Closures = 1..m
  BY RowsAssumption
<1>2. /\ \A i \in 1..m : Closures[i] \in Kinds
      /\ \A k \in Kinds : \E i \in 1..m : Closures[i] = k
  BY <1>1 DEF Kinds, Range
<1>3. \A i, j \in 1..m : Closures[i] = Closures[j] => i = j
  BY <1>1, RowsAssumption, Zenon
<1>4. \A i \in 1..m : seqs[i] = ret[Closures[i]].items
  BY <1>1
<1>5. Len(seqs) = m /\ (m = 0 => seqs = <<>>)
  BY <1>1
<1>6. /\ answer'.err = FirstFailure
      /\ answer'.rows = IF FirstFailure # None THEN <<>> ELSE Kept(all, readable)
      /\ UNCHANGED <<objects, served, denied, version, reads, ret, stayed, ever, steady>>
  BY DEF Return, Rows, cluster, history
<1> HIDE DEF seqs, m
<1>7. \A k \in Kinds : LeftTrue(k)
  BY DEF Return, RowsInv
<1>8. \A i \in 1..m : /\ seqs[i] \in Seq(Objects) /\ IsInjective(seqs[i])
                      /\ \A o \in Range(seqs[i]) : o.kind = Closures[i] /\ o \in ever
  BY <1>2, <1>4, <1>7 DEF LeftTrue
<1>9. Apart(seqs, m)
  <2>1. ASSUME NEW i \in 1..m, NEW j \in 1..m, i # j
        PROVE  Range(seqs[i]) \cap Range(seqs[j]) = {}
    BY <1>3, <1>8, <2>1
  <2>2. QED
    BY <1>8, <2>1 DEF Apart
<1>10. /\ all \in Seq(Objects) /\ IsInjective(all)
       /\ \A o : o \in Range(all) <=> \E i \in 1..m : o \in Range(seqs[i])
  BY <1>1, <1>5, <1>8, <1>9, FlattenIs
<1> HIDE DEF all
<1>11. \A o : o \in readable <=> o \in Range(all) /\ Readable(o)
  OBVIOUS
<1> HIDE DEF readable
<1>12. /\ Kept(all, readable) \in Seq(Objects) /\ IsInjective(Kept(all, readable))
       /\ Range(Kept(all, readable)) = {o \in Range(all) : o \in readable}
  BY <1>10, KeptIs
<1>13. <<>> \in Seq(Objects) /\ Range(<<>>) = {} /\ IsInjective(<<>>)
  BY DEF Range, IsInjective
<1>14. /\ answer'.rows \in Seq(Objects) /\ IsInjective(answer'.rows)
       /\ \A o \in Range(answer'.rows) : o \in ever
  <2>1. CASE FirstFailure # None
    BY <1>6, <1>13, <2>1
  <2>2. CASE FirstFailure = None
    BY <1>6, <1>8, <1>10, <1>12, <2>2
  <2>3. QED
    BY <2>1, <2>2
<1>15. ASSUME answer'.err = None, NEW o \in stayed, Listable(o.kind), Readable(o)
       PROVE  o \in Range(answer'.rows)
  <2>1. o.kind \in Kinds
    BY RowsAssumption DEF RowsInv, Object
  <2>2. PICK i \in 1..m : Closures[i] = o.kind
    BY <1>2, <2>1
  <2>3. ret[o.kind].err = None
    BY <1>6, <1>15, <2>1, FirstFailureIs
  <2>4. o \in Range(seqs[i])
    BY <1>4, <1>7, <1>15, <2>1, <2>2, <2>3 DEF LeftTrue
  <2>5. o \in Range(all) /\ o \in readable
    BY <1>10, <1>11, <1>15, <2>4
  <2>6. QED
    BY <1>6, <1>12, <1>15, <2>5
<1>16. TableTrue'
  BY <1>6, <1>14, <1>15 DEF TableTrue, Good, Listable, Readable
<1>17. /\ VersionInv'
       /\ \A j \in Kinds, n \in NS : reads'[j][n] # Unread => ReadTrue(j, n)'
       /\ \A j \in Kinds : ret'[j].done => LeftTrue(j)'
  BY <1>6 DEF RowsInv, VersionInv, Served, ReadTrue, LeftTrue, Listable
<1>18. QED
  BY <1>6, <1>16, <1>17 DEF RowsInv

LEMMA RowsStart == Init => RowsInv
<1> SUFFICES ASSUME Init PROVE RowsInv
  OBVIOUS
<1>1. stayed = objects /\ ever = objects /\ objects \subseteq Objects
  BY RowsAssumption DEF Init
<1>2. VersionInv
  <2>1. \A k \in Kinds : version[k] = "v1"
    BY DEF Init
  <2>2. Strimzi \in Kinds
    BY RowsAssumption
  <2>3. ASSUME NEW k \in Kinds, NEW v \in Versions, <<k, v>> \in steady
        PROVE  v \in served[k] /\ (v = "v1" \/ k = Strimzi)
    <3>1. v \in served[k]
      BY <2>3 DEF Init, Served
    <3>2. k # Strimzi => served[k] \subseteq {"v1"}
      BY DEF Init
    <3>3. QED
      BY <3>1, <3>2
  <2>4. QED
    BY <2>1, <2>2, <2>3 DEF VersionInv, Served
<1>3. \A k \in Kinds, n \in NS : reads[k][n] = Unread
  BY DEF Init
<1>4. \A k \in Kinds : ~ret[k].done
  BY DEF Init
<1>5. TableTrue
  <2>1. answer.rows = <<>> /\ ~answer.done
    BY DEF Init
  <2>2. QED
    BY <2>1 DEF TableTrue, Good, Range, IsInjective
<1>6. QED
  BY <1>1, <1>2, <1>3, <1>4, <1>5 DEF RowsInv

LEMMA RowsKept == TypeOK /\ RowsInv /\ [Next]_vars => RowsInv'
<1> SUFFICES ASSUME TypeOK, RowsInv, [Next]_vars PROVE RowsInv'
  OBVIOUS
<1>1. CASE \/ \E o \in Objects : Create(o) \/ Delete(o)
           \/ \E k \in Kinds, v \in Versions : Upgrade(k, v)
  BY <1>1, ClusterRows
<1>2. CASE \E k \in Kinds, n \in NS : Read(k, n)
  BY <1>2, ReadRows
<1>3. CASE (\E k \in Kinds : ReturnBuiltIn(k) \/ ReturnOptional(k)) \/ ReturnStrimzi
  BY <1>3, ReturnRows
<1>4. CASE FallBack
  BY <1>4, FallBackRows
<1>5. CASE Return
  BY <1>5, AnswerRows
<1>6. CASE Returned \/ UNCHANGED vars
  <2>1. UNCHANGED <<objects, served, denied, version, reads, ret, answer, stayed, ever, steady>>
    BY <1>6 DEF Returned, vars, cluster, history
  <2>2. \A k \in Kinds, v \in Versions : <<k, v>> \in steady => v \in served[k]
    BY DEF RowsInv, VersionInv, Served
  <2>3. QED
    BY <2>1, <2>2, RowsFade DEF RowsInv
<1>7. QED
  BY <1>1, <1>2, <1>3, <1>4, <1>5, <1>6 DEF Next

(* One row for every workload that lasted of a kind the user could list, at *)
(* whichever version it was served, and no other row than a workload that   *)
(* was there, once: for any kinds, scope, denials and objects, and however  *)
(* the cluster and an operator upgrade move between the reads.              *)
THEOREM RowsTrue == Spec => []RowsExact
<1>1. ASSUME RowsInv PROVE RowsExact
  <2>1. IsInjective(answer.rows) /\ Range(answer.rows) \subseteq ever
    BY <1>1 DEF RowsInv, TableTrue
  <2>2. \A o \in Range(answer.rows) : Times(o) = 1
    BY <2>1, OncePlaced DEF Times
  <2>3. \A i \in DOMAIN answer.rows : answer.rows[i] \in Range(answer.rows)
    BY DEF Range
  <2>4. Good => \A o \in stayed : Listable(o.kind) /\ Readable(o) => o \in Range(answer.rows)
    BY <1>1 DEF RowsInv, TableTrue
  <2>5. QED
    BY <2>1, <2>2, <2>3, <2>4 DEF RowsExact
<1>2. RowsInv => RowsExact
  BY <1>1
<1>3. QED
  BY <1>2, RowsStart, RowsKept, TypeCorrect, PTL DEF Spec
=============================================================================
