----------------------------- MODULE ListsProofs ----------------------------
(***************************************************************************)
(* Lemmas about Kept and FlattenSeq.  Both are recursive functions: each   *)
(* lemma is an induction on how far the loop has come, carried out by      *)
(* looking at the smallest length for which it would fail.                 *)
(***************************************************************************)
EXTENDS Lists, FiniteSetTheorems, FunctionTheorems, SequenceTheorems, WellFoundedInduction, TLAPS

(* A set of naturals that is not empty has a smallest element.             *)
LEMMA SmallestElement ==
  ASSUME NEW T \in SUBSET Nat, T # {}
  PROVE  \E m \in T : \A k \in T : m <= k
<1>1. PICK m \in T : \A k \in T : ~(<<k, m>> \in OpToRel(<, Nat))
  BY NatLessThanWellFounded, WFMin, Zenon
<1>2. \A k \in T : m <= k
  <2>1. TAKE k \in T
  <2>2. <<k, m>> \in OpToRel(<, Nat) <=> k < m
    BY DEF OpToRel
  <2>3. ~(k < m)
    BY <1>1, <2>2, Zenon
  <2>4. k \in Nat /\ m \in Nat
    OBVIOUS
  <2>5. QED
    BY <2>3, <2>4
<1>3. QED
  BY <1>2

(* Induction up to a bound, for a set of the numbers that are good.        *)
LEMMA UpTo ==
  ASSUME NEW n \in Nat, NEW Good \in SUBSET (0..n),
         0 \in Good, \A i \in 1..n : i - 1 \in Good => i \in Good
  PROVE  Good = 0..n
<1> DEFINE Bad == (0..n) \ Good
<1>1. ASSUME Bad # {} PROVE FALSE
  <2>1. Bad \in SUBSET Nat
    OBVIOUS
  <2>2. PICK m \in Bad : \A k \in Bad : m <= k
    BY <1>1, <2>1, SmallestElement
  <2>3. m \in 1..n
    OBVIOUS
  <2>4. m - 1 \notin Bad /\ m - 1 \in 0..n
    BY <2>2, <2>3
  <2>5. QED
    BY <2>3, <2>4
<1>2. QED
  BY <1>1

-----------------------------------------------------------------------------
(* Kept. *)

(* One step of the loop: what k holds after the i-th element. *)
Keeping(k, list, set, n) ==
  k = [i \in 0..n |->
         IF i = 0 THEN <<>>
         ELSE IF list[i] \in set THEN Append(k[i - 1], list[i])
         ELSE k[i - 1]]

(* The loop is defined for every list: Kept is where it ends. *)
LEMMA KeptLoop ==
  ASSUME NEW S, NEW list \in Seq(S), NEW set
  PROVE  \E k : Keeping(k, list, set, Len(list)) /\ Kept(list, set) = k[Len(list)]
<1> DEFINE n == Len(list)
           Good == {m \in 0..n : \E k : Keeping(k, list, set, m)}
<1>1. n \in Nat
  OBVIOUS
<1> HIDE DEF n
<1>2. 0 \in Good
  <2>1. Keeping([i \in 0..0 |-> <<>>], list, set, 0)
    BY DEF Keeping
  <2>2. 0 \in 0..n
    BY <1>1
  <2>3. QED
    BY <2>1, <2>2, Zenon
<1>3. ASSUME NEW i \in 1..n, i - 1 \in Good PROVE i \in Good
  <2>1. PICK k : Keeping(k, list, set, i - 1)
    BY <1>3
  <2> DEFINE j == [m \in 0..i |->
                     IF m < i THEN k[m]
                     ELSE IF list[i] \in set THEN Append(k[i - 1], list[i]) ELSE k[i - 1]]
  <2>2. \A m \in 0..i-1 : j[m] = k[m]
    OBVIOUS
  <2>3. \A m \in 0..i : j[m] =
          (IF m = 0 THEN <<>>
           ELSE IF list[m] \in set THEN Append(j[m - 1], list[m]) ELSE j[m - 1])
    <3>1. TAKE m \in 0..i
    <3>2. CASE m = i
      BY <1>1, <2>2, <3>2
    <3>3. CASE m < i
      <4>1. m \in 0..i-1
        BY <1>1, <3>3
      <4>2. k[m] = (IF m = 0 THEN <<>>
                    ELSE IF list[m] \in set THEN Append(k[m - 1], list[m]) ELSE k[m - 1])
        BY <2>1, <4>1 DEF Keeping
      <4>3. m # 0 => m - 1 \in 0..i-1
        BY <1>1, <4>1
      <4>4. QED
        BY <2>2, <4>1, <4>2, <4>3
    <3>4. QED
      BY <1>1, <3>2, <3>3
  <2>4. j = [m \in 0..i |-> j[m]]
    OBVIOUS
  <2> HIDE DEF j
  <2>5. Keeping(j, list, set, i)
    BY <2>3, <2>4 DEF Keeping
  <2>6. i \in 0..n
    BY <1>1
  <2>7. QED
    BY <2>5, <2>6
<1>4. Good = 0..n
  <2> HIDE DEF Good
  <2>1. Good \in SUBSET (0..n)
    BY DEF Good
  <2>2. QED
    BY <1>1, <1>2, <1>3, <2>1, UpTo
<1>5. PICK some : Keeping(some, list, set, n)
  <2>1. n \in 0..n
    BY <1>1
  <2>2. n \in Good
    BY <1>4, <2>1, Zenon
  <2>3. QED
    BY <2>2, Zenon
<1> DEFINE kept == CHOOSE k : Keeping(k, list, set, n)
<1>6. Keeping(kept, list, set, n)
  BY <1>5, Zenon
<1>7. Kept(list, set) = kept[n]
  BY Zenon DEF Kept, Keeping, n
<1>8. QED
  BY <1>6, <1>7 DEF n

(* What is kept after the i-th element, in terms of what was before it. *)
LEMMA KeptSteps ==
  ASSUME NEW S, NEW list \in Seq(S), NEW set
  PROVE  \E k : /\ k[0] = <<>>
                /\ \A i \in 1..Len(list) :
                     k[i] = IF list[i] \in set THEN Append(k[i - 1], list[i]) ELSE k[i - 1]
                /\ Kept(list, set) = k[Len(list)]
<1> DEFINE n == Len(list)
<1>1. n \in Nat
  OBVIOUS
<1>2. PICK k : Keeping(k, list, set, n) /\ Kept(list, set) = k[n]
  BY KeptLoop
<1> HIDE DEF n
<1>3. \A i \in 0..n : k[i] = (IF i = 0 THEN <<>>
                              ELSE IF list[i] \in set THEN Append(k[i - 1], list[i])
                              ELSE k[i - 1])
  BY <1>2, Zenon DEF Keeping
<1>4. k[0] = <<>>
  BY <1>1, <1>3
<1>5. \A i \in 1..n : k[i] = IF list[i] \in set THEN Append(k[i - 1], list[i]) ELSE k[i - 1]
  BY <1>1, <1>3
<1>6. QED
  BY <1>2, <1>4, <1>5 DEF n

(* Appending adds one element, and repeats none if it was not there.       *)
LEMMA Appended ==
  ASSUME NEW S, NEW list \in Seq(S), NEW x \in S
  PROVE  /\ Append(list, x) \in Seq(S)
         /\ \A y : y \in Range(Append(list, x)) <=> y \in Range(list) \/ y = x
         /\ IsInjective(list) /\ x \notin Range(list) => IsInjective(Append(list, x))
<1> DEFINE a == Append(list, x)
           n == Len(list)
<1>1. /\ n \in Nat /\ DOMAIN list = 1..n /\ a \in Seq(S) /\ DOMAIN a = 1..n+1
      /\ a[n + 1] = x /\ \A i \in 1..n : a[i] = list[i]
  OBVIOUS
<1> HIDE DEF a, n
<1>2. \A y : y \in Range(list) <=> \E i \in 1..n : list[i] = y
  BY <1>1 DEF Range
<1>3. \A y : y \in Range(a) <=> \E i \in 1..n+1 : a[i] = y
  BY <1>1 DEF Range
<1>4. ASSUME NEW y PROVE y \in Range(a) <=> y \in Range(list) \/ y = x
  <2>1. \A i \in 1..n+1 : i \in 1..n \/ i = n + 1
    BY <1>1
  <2>2. 1..n \subseteq 1..n+1 /\ n + 1 \in 1..n+1
    BY <1>1
  <2>3. QED
    BY <1>1, <1>2, <1>3, <2>1, <2>2
<1>5. ASSUME IsInjective(list), x \notin Range(list) PROVE IsInjective(a)
  <2>1. \A i \in 1..n : list[i] # x
    BY <1>2, <1>5
  <2>2. \A i, j \in 1..n : list[i] = list[j] => i = j
    BY <1>1, <1>5 DEF IsInjective
  <2>3. \A i, j \in 1..n+1 : a[i] = a[j] => i = j
    BY <1>1, <2>1, <2>2
  <2>4. QED
    BY <1>1, <2>3 DEF IsInjective
<1>6. QED
  BY <1>1, <1>4, <1>5 DEF a

(* Kept is a list of the elements of list that are in set, each once if    *)
(* list has it once.                                                       *)
LEMMA KeptIs ==
  ASSUME NEW S, NEW list \in Seq(S), NEW set
  PROVE  /\ Kept(list, set) \in Seq(S)
         /\ Range(Kept(list, set)) = {x \in Range(list) : x \in set}
         /\ IsInjective(list) => IsInjective(Kept(list, set))
<1> DEFINE n == Len(list)
<1>1. n \in Nat /\ DOMAIN list = 1..n /\ \A i \in 1..n : list[i] \in S
  OBVIOUS
<1>2. PICK k : /\ k[0] = <<>>
               /\ \A i \in 1..n :
                    k[i] = IF list[i] \in set THEN Append(k[i - 1], list[i]) ELSE k[i - 1]
               /\ Kept(list, set) = k[n]
  BY KeptSteps
<1> DEFINE Sound(i) ==
             /\ k[i] \in Seq(S)
             /\ \A x : x \in Range(k[i]) <=> x \in set /\ \E j \in 1..i : list[j] = x
             /\ IsInjective(list) => IsInjective(k[i])
           Good == {i \in 0..n : Sound(i)}
<1> HIDE DEF n
<1>3. Sound(0)
  <2>1. <<>> \in Seq(S) /\ Range(<<>>) = {} /\ IsInjective(<<>>)
    BY DEF Range, IsInjective
  <2>2. 1..0 = {}
    OBVIOUS
  <2>3. QED
    BY <1>2, <2>1, <2>2
<1>4. ASSUME NEW i \in 1..n, Sound(i - 1) PROVE Sound(i)
  <2>1. \A x : (\E j \in 1..i : list[j] = x) <=> (\E j \in 1..i-1 : list[j] = x) \/ list[i] = x
    <3>1. \A j : j \in 1..i <=> j \in 1..i-1 \/ j = i
      BY <1>1
    <3>2. QED
      BY <3>1
  <2>2. CASE list[i] \notin set
    <3>1. k[i] = k[i - 1]
      BY <1>2, <2>2
    <3>2. QED
      BY <1>4, <2>1, <2>2, <3>1
  <2>3. CASE list[i] \in set
    <3>1. k[i] = Append(k[i - 1], list[i])
      BY <1>2, <2>3
    <3>2. ASSUME IsInjective(list) PROVE list[i] \notin Range(k[i - 1])
      <4>1. \A j \in 1..i-1 : list[j] # list[i]
        BY <1>1, <3>2 DEF IsInjective
      <4>2. QED
        BY <1>4, <4>1
    <3>3. /\ k[i] \in Seq(S)
          /\ \A y : y \in Range(k[i]) <=> y \in Range(k[i - 1]) \/ y = list[i]
          /\ IsInjective(k[i - 1]) /\ list[i] \notin Range(k[i - 1]) => IsInjective(k[i])
      BY <1>1, <1>4, <3>1, Appended
    <3>4. QED
      BY <1>4, <2>1, <2>3, <3>2, <3>3
  <2>4. QED
    BY <2>2, <2>3
<1> HIDE DEF Sound
<1>5. Good = 0..n
  <2>1. Good \in SUBSET (0..n)
    OBVIOUS
  <2>2. 0 \in Good
    BY <1>1, <1>3
  <2>3. \A i \in 1..n : i - 1 \in Good => i \in Good
    BY <1>1, <1>4
  <2> HIDE DEF Good
  <2>4. QED
    BY <1>1, <2>1, <2>2, <2>3, UpTo
<1>6. Sound(n)
  <2>1. n \in 0..n
    BY <1>1
  <2>2. n \in Good
    BY <1>5, <2>1, Zenon
  <2>3. QED
    BY <2>2
<1>7. \A x : x \in Range(list) <=> \E j \in 1..n : list[j] = x
  BY <1>1 DEF Range
<1>8. QED
  BY <1>2, <1>6, <1>7 DEF Sound

(* When all of A comes before all of B, keeping both is keeping A and then  *)
(* keeping B.                                                              *)
LEMMA KeptSplit ==
  ASSUME NEW S, NEW list \in Seq(S), NEW A, NEW B,
         \A i, j \in DOMAIN list : list[i] \in A /\ list[j] \in B => i < j
  PROVE  Kept(list, A \cup B) = Kept(list, A) \o Kept(list, B)
<1> DEFINE n == Len(list)
<1>1. n \in Nat /\ DOMAIN list = 1..n /\ \A i \in 1..n : list[i] \in S
  OBVIOUS
<1>2. PICK a : /\ a[0] = <<>>
               /\ \A i \in 1..n :
                    a[i] = IF list[i] \in A THEN Append(a[i - 1], list[i]) ELSE a[i - 1]
               /\ Kept(list, A) = a[n]
  BY KeptSteps
<1>3. PICK b : /\ b[0] = <<>>
               /\ \A i \in 1..n :
                    b[i] = IF list[i] \in B THEN Append(b[i - 1], list[i]) ELSE b[i - 1]
               /\ Kept(list, B) = b[n]
  BY KeptSteps
<1>4. PICK u : /\ u[0] = <<>>
               /\ \A i \in 1..n :
                    u[i] = IF list[i] \in A \cup B THEN Append(u[i - 1], list[i]) ELSE u[i - 1]
               /\ Kept(list, A \cup B) = u[n]
  BY KeptSteps
<1> DEFINE Split(i) == /\ a[i] \in Seq(S) /\ b[i] \in Seq(S)
                       /\ u[i] = a[i] \o b[i]
                       /\ b[i] = <<>> \/ \E j \in 1..i : list[j] \in B
           Good == {i \in 0..n : Split(i)}
<1> HIDE DEF n
<1>5. Split(0)
  BY <1>2, <1>3, <1>4
<1>6. ASSUME NEW i \in 1..n, Split(i - 1) PROVE Split(i)
  <2>1. ~(list[i] \in A /\ list[i] \in B)
    BY <1>1
  <2>2. \A j \in 1..i-1 : j \in 1..n /\ j < i /\ j \in 1..i
    BY <1>1
  <2>3. /\ list[i] \in S /\ i \in 1..i
        /\ a[i - 1] \in Seq(S) /\ b[i - 1] \in Seq(S) /\ u[i - 1] = a[i - 1] \o b[i - 1]
    BY <1>1, <1>6
  <2>4. CASE list[i] \in A
    <3>1. b[i - 1] = <<>>
      BY <1>1, <1>6, <2>2, <2>4, SMTT(30)
    <3>2. a[i] = Append(a[i - 1], list[i]) /\ b[i] = b[i - 1] /\ u[i] = Append(u[i - 1], list[i])
      BY <1>2, <1>3, <1>4, <2>1, <2>4
    <3>3. a[i] \in Seq(S) /\ b[i] = <<>>
      BY <2>3, <3>1, <3>2
    <3>4. a[i - 1] \o b[i - 1] = a[i - 1] /\ a[i] \o b[i] = a[i]
      BY <2>3, <3>1, <3>3, ConcatEmptySeq
    <3>5. QED
      BY <2>3, <3>2, <3>3, <3>4
  <2>5. CASE list[i] \in B
    <3>1. a[i] = a[i - 1] /\ b[i] = Append(b[i - 1], list[i]) /\ u[i] = Append(u[i - 1], list[i])
      BY <1>2, <1>3, <1>4, <2>1, <2>5
    <3>2. a[i] \in Seq(S) /\ b[i] \in Seq(S)
      BY <2>3, <3>1
    <3>3. Append(a[i - 1] \o b[i - 1], list[i]) = a[i - 1] \o Append(b[i - 1], list[i])
      <4>1. <<list[i]>> \in Seq(S) /\ a[i - 1] \o b[i - 1] \in Seq(S)
        BY <2>3
      <4>2. /\ Append(a[i - 1] \o b[i - 1], list[i]) = (a[i - 1] \o b[i - 1]) \o <<list[i]>>
            /\ Append(b[i - 1], list[i]) = b[i - 1] \o <<list[i]>>
        BY <2>3, <4>1, AppendIsConcat
      <4>3. \A r, t, w \in Seq(S) : (r \o t) \o w = r \o (t \o w)
        BY ConcatAssociative, SMTT(30)
      <4>4. (a[i - 1] \o b[i - 1]) \o <<list[i]>> = a[i - 1] \o (b[i - 1] \o <<list[i]>>)
        BY <2>3, <4>1, <4>3, ZenonT(60)
      <4>5. QED
        BY <4>2, <4>4, Zenon
    <3>4. QED
      BY <2>3, <2>5, <3>1, <3>2, <3>3
  <2>6. CASE list[i] \notin A \cup B
    <3>1. a[i] = a[i - 1] /\ b[i] = b[i - 1] /\ u[i] = u[i - 1]
      BY <1>2, <1>3, <1>4, <2>6
    <3>2. QED
      BY <1>6, <2>2, <2>3, <3>1
  <2>7. QED
    BY <2>4, <2>5, <2>6
<1> HIDE DEF Split
<1>7. Good = 0..n
  <2>1. Good \in SUBSET (0..n)
    OBVIOUS
  <2>2. 0 \in Good
    BY <1>1, <1>5
  <2>3. \A i \in 1..n : i - 1 \in Good => i \in Good
    BY <1>1, <1>6
  <2> HIDE DEF Good
  <2>4. QED
    BY <1>1, <2>1, <2>2, <2>3, UpTo
<1>8. Split(n)
  <2>1. n \in 0..n
    BY <1>1
  <2>2. n \in Good
    BY <1>7, <2>1, Zenon
  <2>3. QED
    BY <2>2
<1>9. QED
  BY <1>2, <1>3, <1>4, <1>8 DEF Split

-----------------------------------------------------------------------------
(* FlattenSeq, the library's. *)

Flattening(f, seqs, n) ==
  f = [i \in 1..n |-> IF i = 1 THEN seqs[i] ELSE f[i - 1] \o seqs[i]]

(* The parts put one after the other, from the first to the last. *)
LEMMA FlattenLoop ==
  ASSUME NEW seqs, NEW n \in Nat \ {0}, Len(seqs) = n
  PROVE  \E f : Flattening(f, seqs, n) /\ FlattenSeq(seqs) = f[n]
<1> DEFINE Good == {m \in 0..n : m = 0 \/ \E f : Flattening(f, seqs, m)}
<1>1. 0 \in Good
  OBVIOUS
<1>2. ASSUME NEW i \in 1..n, i - 1 \in Good PROVE i \in Good
  <2>1. CASE i = 1
    <3>1. Flattening([m \in 1..1 |-> seqs[m]], seqs, 1)
      BY DEF Flattening
    <3>2. QED
      BY <2>1, <3>1
  <2>2. CASE i # 1
    <3>1. PICK f : Flattening(f, seqs, i - 1)
      BY <1>2, <2>2
    <3> DEFINE g == [m \in 1..i |-> IF m < i THEN f[m] ELSE f[i - 1] \o seqs[i]]
    <3>2. \A m \in 1..i-1 : g[m] = f[m]
      OBVIOUS
    <3>3. \A m \in 1..i : g[m] = (IF m = 1 THEN seqs[m] ELSE g[m - 1] \o seqs[m])
      <4>1. TAKE m \in 1..i
      <4>2. CASE m = i
        <5>1. g[i] = f[i - 1] \o seqs[i]
          OBVIOUS
        <5>2. i - 1 \in 1..i-1
          BY <2>2
        <5>3. g[i - 1] = f[i - 1]
          BY <3>2, <5>2, Zenon
        <5> HIDE DEF g
        <5>4. QED
          BY <2>2, <4>2, <5>1, <5>3
      <4>3. CASE m < i
        <5>1. m \in 1..i-1
          BY <4>3
        <5>2. f[m] = (IF m = 1 THEN seqs[m] ELSE f[m - 1] \o seqs[m])
          BY <3>1, <5>1 DEF Flattening
        <5>3. m # 1 => m - 1 \in 1..i-1
          BY <5>1
        <5>4. QED
          BY <3>2, <5>1, <5>2, <5>3
      <4>4. QED
        BY <4>2, <4>3
    <3>4. g = [m \in 1..i |-> g[m]]
      OBVIOUS
    <3> HIDE DEF g
    <3>5. Flattening(g, seqs, i)
      BY <3>3, <3>4 DEF Flattening
    <3>6. QED
      BY <3>5
  <2>3. QED
    BY <2>1, <2>2
<1>3. Good = 0..n
  <2> HIDE DEF Good
  <2>1. Good \in SUBSET (0..n)
    BY DEF Good
  <2>2. QED
    BY <1>1, <1>2, <2>1, UpTo
<1>4. PICK some : Flattening(some, seqs, n)
  <2>1. n \in 0..n /\ n # 0
    OBVIOUS
  <2>2. n \in Good
    BY <1>3, <2>1, Zenon
  <2>3. QED
    BY <2>1, <2>2, Zenon
<1> DEFINE flat == CHOOSE f : Flattening(f, seqs, n)
<1>5. Flattening(flat, seqs, n)
  BY <1>4, Zenon
<1>6. n # 0
  OBVIOUS
<1>7. FlattenSeq(seqs) = flat[n]
  BY <1>6, Zenon DEF FlattenSeq, Flattening
<1>8. QED
  BY <1>5, <1>7, Zenon

(* What is flattened after the i-th part. *)
LEMMA FlattenSteps ==
  ASSUME NEW seqs, NEW n \in Nat, Len(seqs) = n, n = 0 => seqs = <<>>,
         NEW S, \A i \in 1..n : seqs[i] \in Seq(S)
  PROVE  \E f : /\ f[0] = <<>>
                /\ \A i \in 1..n : f[i] = f[i - 1] \o seqs[i]
                /\ FlattenSeq(seqs) = f[n]
<1>1. CASE n = 0
  <2> DEFINE f == [i \in {0} |-> <<>>]
  <2>1. FlattenSeq(seqs) = <<>>
    BY <1>1 DEF FlattenSeq
  <2>2. f[0] = <<>> /\ 1..n = {}
    BY <1>1
  <2>3. QED
    BY <1>1, <2>1, <2>2
<1>2. CASE n # 0
  <2>1. PICK f : Flattening(f, seqs, n) /\ FlattenSeq(seqs) = f[n]
    BY <1>2, FlattenLoop
  <2> DEFINE g == [i \in 0..n |-> IF i = 0 THEN <<>> ELSE f[i]]
  <2>2. \A i \in 1..n : g[i] = f[i]
    OBVIOUS
  <2>3. g[0] = <<>> /\ n \in 1..n /\ 1 \in 1..n
    BY <1>2
  <2> HIDE DEF g
  <2>4. \A i \in 1..n : f[i] = IF i = 1 THEN seqs[i] ELSE f[i - 1] \o seqs[i]
    BY <2>1, Zenon DEF Flattening
  <2>5. ASSUME NEW i \in 1..n PROVE g[i] = g[i - 1] \o seqs[i]
    <3>1. CASE i = 1
      <4>1. seqs[1] \in Seq(S)
        BY <2>3
      <4>2. <<>> \o seqs[1] = seqs[1]
        BY <4>1, ConcatEmptySeq
      <4>3. f[1] = seqs[1]
        BY <2>3, <2>4
      <4>4. QED
        BY <2>2, <2>3, <3>1, <4>2, <4>3, SMTT(30)
    <3>2. CASE i # 1
      <4>1. i - 1 \in 1..n
        BY <3>2
      <4>2. QED
        BY <2>2, <2>4, <3>2, <4>1
    <3>3. QED
      BY <3>1, <3>2
  <2>6. FlattenSeq(seqs) = g[n]
    BY <2>1, <2>2, <2>3
  <2>7. QED
    BY <2>3, <2>5, <2>6
<1>3. QED
  BY <1>1, <1>2

(* The elements of two lists one after the other. *)
LEMMA Joined2 ==
  ASSUME NEW S, NEW s \in Seq(S), NEW t \in Seq(S)
  PROVE  /\ s \o t \in Seq(S)
         /\ \A x : x \in Range(s \o t) <=> x \in Range(s) \/ x \in Range(t)
         /\ IsInjective(s) /\ IsInjective(t) /\ Range(s) \cap Range(t) = {} => IsInjective(s \o t)
<1> DEFINE u == s \o t
           m == Len(s)
           n == Len(t)
<1>1. /\ m \in Nat /\ n \in Nat /\ u \in Seq(S) /\ DOMAIN s = 1..m /\ DOMAIN t = 1..n
      /\ DOMAIN u = 1..m+n
      /\ \A i \in 1..m+n : u[i] = IF i <= m THEN s[i] ELSE t[i - m]
  BY ConcatProperties
<1> HIDE DEF m, n, u
<1>2. /\ \A x : x \in Range(s) <=> \E i \in 1..m : s[i] = x
      /\ \A x : x \in Range(t) <=> \E i \in 1..n : t[i] = x
      /\ \A x : x \in Range(u) <=> \E i \in 1..m+n : u[i] = x
  BY <1>1 DEF Range
<1>3. /\ \A i \in 1..m : i \in 1..m+n /\ u[i] = s[i]
      /\ \A i \in 1..n : m + i \in 1..m+n /\ u[m + i] = t[i]
      /\ \A i \in 1..m+n : i \in 1..m \/ (i - m \in 1..n /\ u[i] = t[i - m])
  BY <1>1
<1>4. \A x : x \in Range(u) <=> x \in Range(s) \/ x \in Range(t)
  BY <1>2, <1>3
<1>5. ASSUME IsInjective(s), IsInjective(t), Range(s) \cap Range(t) = {} PROVE IsInjective(u)
  <2>1. \A i \in 1..m, j \in 1..n : s[i] # t[j]
    BY <1>2, <1>5
  <2>2. /\ \A i, j \in 1..m : s[i] = s[j] => i = j
        /\ \A i, j \in 1..n : t[i] = t[j] => i = j
    BY <1>1, <1>5 DEF IsInjective
  <2>3. ASSUME NEW i \in 1..m+n, NEW j \in 1..m+n, u[i] = u[j] PROVE i = j
    <3>1. (i \in 1..m /\ u[i] = s[i]) \/ (i - m \in 1..n /\ u[i] = t[i - m])
      BY <1>3
    <3>2. (j \in 1..m /\ u[j] = s[j]) \/ (j - m \in 1..n /\ u[j] = t[j - m])
      BY <1>3
    <3>3. i - m = j - m => i = j
      BY <1>1
    <3>4. QED
      BY <2>1, <2>2, <2>3, <3>1, <3>2, <3>3
  <2>4. QED
    BY <1>1, <2>3 DEF IsInjective
<1>6. QED
  BY <1>1, <1>4, <1>5 DEF u

(* No part has an element twice, nor two of them the same.                  *)
Apart(seqs, n) ==
  /\ \A i \in 1..n : IsInjective(seqs[i])
  /\ \A i, j \in 1..n : i # j => Range(seqs[i]) \cap Range(seqs[j]) = {}

(* A flattened list has the elements of its parts, each once if the parts  *)
(* have it once and in one of them.                                        *)
LEMMA FlattenIs ==
  ASSUME NEW S, NEW seqs, NEW n \in Nat, Len(seqs) = n, n = 0 => seqs = <<>>,
         \A i \in 1..n : seqs[i] \in Seq(S)
  PROVE  /\ FlattenSeq(seqs) \in Seq(S)
         /\ \A x : x \in Range(FlattenSeq(seqs)) <=> \E i \in 1..n : x \in Range(seqs[i])
         /\ Apart(seqs, n) => IsInjective(FlattenSeq(seqs))
<1>1. PICK f : /\ f[0] = <<>>
               /\ \A i \in 1..n : f[i] = f[i - 1] \o seqs[i]
               /\ FlattenSeq(seqs) = f[n]
  BY FlattenSteps
<1> DEFINE Sound(i) == /\ f[i] \in Seq(S)
                       /\ \A x : x \in Range(f[i]) <=> \E j \in 1..i : x \in Range(seqs[j])
                       /\ Apart(seqs, n) => IsInjective(f[i])
           Good == {i \in 0..n : Sound(i)}
<1>2. Sound(0)
  <2>1. <<>> \in Seq(S) /\ Range(<<>>) = {} /\ IsInjective(<<>>)
    BY DEF Range, IsInjective
  <2>2. 1..0 = {}
    OBVIOUS
  <2>3. QED
    BY <1>1, <2>1, <2>2
<1>3. ASSUME NEW i \in 1..n, Sound(i - 1) PROVE Sound(i)
  <2>1. \A j : j \in 1..i <=> j \in 1..i-1 \/ j = i
    OBVIOUS
  <2>2. f[i - 1] \in Seq(S) /\ seqs[i] \in Seq(S) /\ f[i] = f[i - 1] \o seqs[i]
    BY <1>1, <1>3
  <2>3. /\ f[i] \in Seq(S)
        /\ \A x : x \in Range(f[i]) <=> x \in Range(f[i - 1]) \/ x \in Range(seqs[i])
        /\ /\ IsInjective(f[i - 1]) /\ IsInjective(seqs[i])
           /\ Range(f[i - 1]) \cap Range(seqs[i]) = {}
           => IsInjective(f[i])
    BY <2>2, Joined2
  <2>4. ASSUME Apart(seqs, n) PROVE Range(f[i - 1]) \cap Range(seqs[i]) = {}
    <3>1. \A j \in 1..i-1 : j \in 1..n /\ j # i
      OBVIOUS
    <3>2. QED
      BY <1>3, <2>4, <3>1 DEF Apart
  <2>5. \A x : x \in Range(f[i]) <=> \E j \in 1..i : x \in Range(seqs[j])
    BY <1>3, <2>1, <2>3
  <2>6. QED
    BY <1>3, <2>3, <2>4, <2>5 DEF Apart
<1> HIDE DEF Sound
<1>4. Good = 0..n
  <2>1. Good \in SUBSET (0..n)
    OBVIOUS
  <2>2. 0 \in Good
    BY <1>2
  <2>3. \A i \in 1..n : i - 1 \in Good => i \in Good
    BY <1>3
  <2> HIDE DEF Good
  <2>4. QED
    BY <2>1, <2>2, <2>3, UpTo
<1>5. Sound(n)
  <2>1. n \in 0..n
    OBVIOUS
  <2>2. n \in Good
    BY <1>4, <2>1, Zenon
  <2>3. QED
    BY <2>2
<1>6. QED
  BY <1>1, <1>5 DEF Sound

(* The members of the sets follow each other through the list, set by set. *)
InTurn(list, A, n) ==
  \A h, k \in 1..n : \A i, j \in DOMAIN list :
    h < k /\ list[i] \in A[h] /\ list[j] \in A[k] => i < j

(* What is kept of the list by each of the sets.                           *)
KeptBySet(list, A, n) == [i \in 1..n |-> Kept(list, A[i])]

(* The members of any of the sets.                                         *)
OfAny(A, n) == UNION {A[i] : i \in 1..n}

(* Keeping the members of such sets one after the other is keeping the     *)
(* members of any of them.                                                 *)
LEMMA KeptInTurn ==
  ASSUME NEW S, NEW list \in Seq(S), NEW n \in Nat, NEW A, InTurn(list, A, n)
  PROVE  FlattenSeq(KeptBySet(list, A, n)) = Kept(list, OfAny(A, n))
<1> DEFINE seqs == KeptBySet(list, A, n)
           U(i) == OfAny(A, i)
<1>1. \A set : Kept(list, set) \in Seq(S) /\ Range(Kept(list, set)) = {x \in Range(list) : x \in set}
  BY KeptIs
<1>2. Len(seqs) = n /\ (n = 0 => seqs = <<>>) /\ \A i \in 1..n : seqs[i] \in Seq(S)
  <2>1. \A i \in 1..n : seqs[i] = Kept(list, A[i])
    BY DEF KeptBySet
  <2> HIDE DEF seqs
  <2>2. \A i \in 1..n : seqs[i] \in Seq(S)
    BY <1>1, <2>1
  <2>3. Len(seqs) = n /\ (n = 0 => seqs = <<>>)
    BY DEF seqs, KeptBySet
  <2>4. QED
    BY <2>2, <2>3
<1>3. PICK f : /\ f[0] = <<>>
               /\ \A i \in 1..n : f[i] = f[i - 1] \o seqs[i]
               /\ FlattenSeq(seqs) = f[n]
  BY <1>2, FlattenSteps
<1>4. \A i \in 1..n : seqs[i] = Kept(list, A[i])
  BY DEF KeptBySet
<1> HIDE DEF seqs
<1>5. Kept(list, U(0)) = <<>>
  <2>1. U(0) = {}
    BY DEF OfAny
  <2>2. Kept(list, {}) \in Seq(S) /\ Range(Kept(list, {})) = {}
    BY <1>1
  <2>3. \A s \in Seq(S) : Range(s) = {} => s = <<>>
    <3>1. TAKE s \in Seq(S)
    <3>2. \A i \in 1..Len(s) : s[i] \in Range(s)
      BY DEF Range
    <3>3. Range(s) = {} => Len(s) = 0
      BY <3>2
    <3>4. QED
      BY <3>3
  <2>4. QED
    BY <2>1, <2>2, <2>3
<1>6. ASSUME NEW i \in 1..n PROVE Kept(list, U(i)) = Kept(list, U(i - 1)) \o Kept(list, A[i])
  <2>1. \A h : h \in 1..i <=> h \in 1..i-1 \/ h = i
    OBVIOUS
  <2>2. U(i) = U(i - 1) \cup A[i]
    <3>1. ASSUME NEW x PROVE x \in U(i) <=> x \in U(i - 1) \cup A[i]
      <4>1. \A k : x \in U(k) <=> \E h \in 1..k : x \in A[h]
        BY Zenon DEF OfAny
      <4> HIDE DEF U
      <4>2. QED
        BY <2>1, <4>1
    <3> HIDE DEF U
    <3>2. QED
      BY <3>1
  <2>3. ASSUME NEW g \in DOMAIN list, NEW j \in DOMAIN list, list[g] \in U(i - 1), list[j] \in A[i]
        PROVE  g < j
    <3>1. PICK h \in 1..i-1 : list[g] \in A[h]
      BY <2>3, Zenon DEF OfAny
    <3>2. h \in 1..n /\ h < i
      OBVIOUS
    <3>3. QED
      BY <2>3, <3>1, <3>2 DEF InTurn
  <2> HIDE DEF U
  <2>4. QED
    <3>1. \A g, j \in DOMAIN list : list[g] \in U(i - 1) /\ list[j] \in A[i] => g < j
      BY <2>3, Zenon
    <3>2. Kept(list, U(i - 1) \cup A[i]) = Kept(list, U(i - 1)) \o Kept(list, A[i])
      BY <3>1, KeptSplit
    <3>3. QED
      BY <2>2, <3>2, Zenon
<1> DEFINE Same == {i \in 0..n : f[i] = Kept(list, U(i))}
<1>7. Same = 0..n
  <2> HIDE DEF U
  <2>1. Same \in SUBSET (0..n)
    OBVIOUS
  <2>2. 0 \in Same
    BY <1>3, <1>5
  <2>3. ASSUME NEW i \in 1..n, i - 1 \in Same PROVE i \in Same
    <3>1. f[i - 1] = Kept(list, U(i - 1)) /\ i \in 0..n
      BY <2>3
    <3>2. f[i] = Kept(list, U(i))
      BY <1>3, <1>4, <1>6, <3>1
    <3>3. QED
      BY <3>1, <3>2
  <2> HIDE DEF Same
  <2>4. QED
    BY <2>1, <2>2, <2>3, UpTo
<1>8. f[n] = Kept(list, U(n))
  <2>1. n \in 0..n
    OBVIOUS
  <2>2. n \in Same
    BY <1>7, <2>1, Zenon
  <2>3. QED
    BY <2>2, Zenon
<1>9. QED
  BY <1>3, <1>8 DEF seqs

-----------------------------------------------------------------------------
(* Counting the elements of a list. *)

(* A finite set can be listed.                                             *)
LEMMA SetListed ==
  ASSUME NEW set, IsFiniteSet(set)
  PROVE  /\ SetToSeq(set) \in Seq(set) /\ IsInjective(SetToSeq(set))
         /\ Range(SetToSeq(set)) = set
<1> DEFINE n == Cardinality(set)
           s == SetToSeq(set)
<1>1. n \in Nat /\ IsFiniteSet(1..n) /\ Cardinality(1..n) = n
  BY FS_CardinalityType, FS_Interval
<1>2. \E f \in [1..n -> set] : IsInjective(f)
  BY FS_CardinalityType DEF ExistsBijection, Bijection, Injection
<1>3. s \in [1..n -> set] /\ IsInjective(s)
  BY <1>2 DEF SetToSeq
<1> HIDE DEF s
<1>4. s \in Injection(1..n, set)
  BY <1>3 DEF Injection
<1>5. s \in Surjection(1..n, set)
  BY <1>1, <1>4, FS_Injection
<1>6. Range(s) = set
  BY <1>3, <1>5 DEF Surjection, Range
<1>7. s \in Seq(set)
  BY <1>1, <1>3
<1>8. QED
  BY <1>3, <1>6, <1>7 DEF s

(* A list without repetition is as long as the set of its elements.        *)
LEMMA LengthIs ==
  ASSUME NEW S, NEW list \in Seq(S), IsInjective(list)
  PROVE  IsFiniteSet(Range(list)) /\ Cardinality(Range(list)) = Len(list)
<1> DEFINE n == Len(list)
<1>1. n \in Nat /\ DOMAIN list = 1..n
  OBVIOUS
<1> HIDE DEF n
<1>2. IsFiniteSet(1..n) /\ Cardinality(1..n) = n
  BY <1>1, FS_Interval
<1>3. list \in [1..n -> Range(list)]
  BY <1>1 DEF Range
<1>4. list \in Injection(1..n, Range(list)) /\ list \in Surjection(1..n, Range(list))
  BY <1>1, <1>3 DEF Injection, Surjection, Range
<1>5. IsFiniteSet(Range(list)) /\ Cardinality(Range(list)) = n
  BY <1>2, <1>4, FS_Surjection
<1>6. QED
  BY <1>5 DEF n

(* ... and has each of them at one place.                                  *)
LEMMA OncePlaced ==
  ASSUME NEW list, IsInjective(list), NEW x \in Range(list)
  PROVE  Cardinality({i \in DOMAIN list : list[i] = x}) = 1
<1>1. PICK j \in DOMAIN list : list[j] = x
  BY DEF Range
<1>2. {i \in DOMAIN list : list[i] = x} = {j}
  BY <1>1 DEF IsInjective
<1>3. QED
  BY <1>2, FS_Singleton

(* A position is kept as it is. *)
LEMMA OneKept ==
  ASSUME NEW n \in Nat, NEW i \in 1..n
  PROVE  Kept([j \in 1..n |-> j], {i}) = <<i>>
<1> DEFINE ids == [j \in 1..n |-> j]
           kept == Kept(ids, {i})
<1>1. ids \in Seq(Nat) /\ IsInjective(ids) /\ i \in Range(ids)
  BY DEF IsInjective, Range
<1> HIDE DEF ids
<1>2. kept \in Seq(Nat) /\ IsInjective(kept) /\ Range(kept) = {i}
  BY <1>1, KeptIs
<1> HIDE DEF kept
<1>3. PICK m \in Nat : m = Len(kept) /\ DOMAIN kept = 1..m
  BY <1>2
<1>4. \A j \in 1..m : kept[j] = i
  BY <1>2, <1>3 DEF Range
<1>5. m # 0
  <2>1. i \in Range(kept)
    BY <1>2
  <2>2. \E j \in 1..m : kept[j] = i
    BY <1>3, <2>1 DEF Range
  <2>3. QED
    BY <2>2
<1>6. m = 1
  <2>1. ASSUME m > 1 PROVE FALSE
    <3>1. 1 \in 1..m /\ 2 \in 1..m
      BY <2>1
    <3>2. kept[1] = kept[2]
      BY <1>4, <3>1
    <3>3. QED
      BY <1>2, <1>3, <3>1, <3>2 DEF IsInjective
  <2>2. QED
    BY <1>5, <2>1
<1>7. kept = <<i>>
  BY <1>2, <1>3, <1>4, <1>6
<1>8. QED
  BY <1>7 DEF kept, ids

(* Nothing is kept of a list by the empty set.                              *)
LEMMA NoneKept ==
  ASSUME NEW S, NEW list \in Seq(S)
  PROVE  Kept(list, {}) = <<>>
<1>1. Kept(list, {}) \in Seq(S) /\ Range(Kept(list, {})) = {}
  BY KeptIs
<1>2. \A s \in Seq(S) : Range(s) = {} => s = <<>>
  <2>1. TAKE s \in Seq(S)
  <2>2. \A j \in 1..Len(s) : s[j] \in Range(s)
    BY DEF Range
  <2>3. Range(s) = {} => Len(s) = 0
    BY <2>2
  <2>4. QED
    BY <2>3
<1>3. QED
  BY <1>1, <1>2

-----------------------------------------------------------------------------
(* Where the parts lie in what is flattened: off[i] is where part i ends.   *)
Places(off, seqs, n, flat) ==
  /\ Len(flat) = off[n]
  /\ \A i \in 1..n : \A k \in 1..Len(seqs[i]) :
       off[i - 1] + k \in 1..off[n] /\ flat[off[i - 1] + k] = seqs[i][k]
  /\ \A p \in 1..off[n] : \E i \in 1..n : \E k \in 1..Len(seqs[i]) : p = off[i - 1] + k

LEMMA FlattenPlaces ==
  ASSUME NEW S, NEW seqs, NEW n \in Nat, Len(seqs) = n, n = 0 => seqs = <<>>,
         \A i \in 1..n : seqs[i] \in Seq(S)
  PROVE  \E off \in [0..n -> Nat] :
           /\ off[0] = 0 /\ \A i \in 1..n : off[i] = off[i - 1] + Len(seqs[i])
           /\ Places(off, seqs, n, FlattenSeq(seqs))
<1>1. PICK f : /\ f[0] = <<>>
               /\ \A i \in 1..n : f[i] = f[i - 1] \o seqs[i]
               /\ FlattenSeq(seqs) = f[n]
  BY FlattenSteps
<1> DEFINE Good == {i \in 0..n : f[i] \in Seq(S)}
<1>2. Good = 0..n
  <2>1. Good \in SUBSET (0..n) /\ 0 \in Good
    <3>1. 0 \in 0..n /\ <<>> \in Seq(S)
      OBVIOUS
    <3>2. QED
      BY <1>1, <3>1
  <2>2. ASSUME NEW i \in 1..n, i - 1 \in Good PROVE i \in Good
    <3>1. i \in 0..n /\ f[i - 1] \in Seq(S) /\ seqs[i] \in Seq(S)
      BY <2>2
    <3>2. \A a, b \in Seq(S) : a \o b \in Seq(S)
      OBVIOUS
    <3>3. f[i] \in Seq(S)
      BY <1>1, <3>1, <3>2, Zenon
    <3>4. QED
      BY <3>1, <3>3
  <2> HIDE DEF Good
  <2>3. QED
    BY <2>1, <2>2, UpTo
<1>3. \A i \in 0..n : f[i] \in Seq(S)
  BY <1>2
<1> HIDE DEF Good
<1> DEFINE off == [i \in 0..n |-> Len(f[i])]
<1>4. off \in [0..n -> Nat] /\ \A i \in 0..n : off[i] = Len(f[i]) /\ off[i] \in Nat
  BY <1>3
<1>5. off[0] = 0
  BY <1>1
<1> HIDE DEF off
<1>6. ASSUME NEW i \in 1..n
      PROVE  /\ off[i - 1] \in Nat /\ Len(seqs[i]) \in Nat /\ off[i] = off[i - 1] + Len(seqs[i])
             /\ \A p \in 1..off[i - 1] : f[i][p] = f[i - 1][p]
             /\ \A k \in 1..Len(seqs[i]) : f[i][off[i - 1] + k] = seqs[i][k]
  <2>1. i - 1 \in 0..n /\ i \in 0..n
    OBVIOUS
  <2>2. f[i - 1] \in Seq(S) /\ seqs[i] \in Seq(S) /\ f[i] = f[i - 1] \o seqs[i]
        /\ off[i - 1] = Len(f[i - 1]) /\ off[i] = Len(f[i])
    BY <1>1, <1>3, <1>4, <2>1
  <2>3. PICK a, b : a = f[i - 1] /\ b = seqs[i]
    OBVIOUS
  <2>4. /\ Len(a) \in Nat /\ Len(b) \in Nat /\ Len(a \o b) = Len(a) + Len(b)
        /\ \A p \in 1..Len(a) : (a \o b)[p] = a[p]
        /\ \A k \in 1..Len(b) : (a \o b)[Len(a) + k] = b[k]
    BY <2>2, <2>3
  <2>5. QED
    BY <2>2, <2>3, <2>4
<1> DEFINE Sound == {m \in 0..n : Places(off, seqs, m, f[m])}
<1>7. 0 \in Sound
  <2>1. Len(f[0]) = off[0]
    BY <1>4
  <2>2. QED
    BY <1>5, <2>1 DEF Places
<1>8. ASSUME NEW m \in 1..n, m - 1 \in Sound PROVE m \in Sound
  <2>1. Places(off, seqs, m - 1, f[m - 1])
    BY <1>8
  <2>2. /\ off[m - 1] \in Nat /\ Len(seqs[m]) \in Nat /\ off[m] = off[m - 1] + Len(seqs[m])
        /\ \A p \in 1..off[m - 1] : f[m][p] = f[m - 1][p]
        /\ \A k \in 1..Len(seqs[m]) : f[m][off[m - 1] + k] = seqs[m][k]
    BY <1>6
  <2>3. Len(f[m]) = off[m]
    BY <1>4
  <2>4. ASSUME NEW i \in 1..m, NEW k \in 1..Len(seqs[i])
        PROVE  off[i - 1] + k \in 1..off[m] /\ f[m][off[i - 1] + k] = seqs[i][k]
    <3>1. CASE i = m
      BY <2>2, <2>4, <3>1
    <3>2. CASE i # m
      <4>1. i \in 1..m-1
        BY <3>2
      <4>2. off[i - 1] + k \in 1..off[m - 1] /\ f[m - 1][off[i - 1] + k] = seqs[i][k]
        BY <2>1, <4>1 DEF Places
      <4>3. off[i - 1] + k \in 1..off[m]
        BY <2>2, <4>2, SMTT(30)
      <4>4. QED
        BY <2>2, <4>2, <4>3
    <3>3. QED
      BY <3>1, <3>2
  <2>5. ASSUME NEW p \in 1..off[m] PROVE \E i \in 1..m : \E k \in 1..Len(seqs[i]) : p = off[i - 1] + k
    <3>1. CASE p <= off[m - 1]
      <4>1. p \in 1..off[m - 1]
        BY <2>2, <3>1
      <4>2. PICK i \in 1..m-1 : \E k \in 1..Len(seqs[i]) : p = off[i - 1] + k
        BY <2>1, <4>1 DEF Places
      <4>3. i \in 1..m
        OBVIOUS
      <4>4. QED
        BY <4>2, <4>3
    <3>2. CASE p > off[m - 1]
      <4>1. p - off[m - 1] \in 1..Len(seqs[m]) /\ p = off[m - 1] + (p - off[m - 1]) /\ m \in 1..m
        BY <2>2, <3>2
      <4>2. QED
        BY <4>1
    <3>3. QED
      BY <2>2, <3>1, <3>2
  <2>6. Places(off, seqs, m, f[m])
    BY <2>3, <2>4, <2>5 DEF Places
  <2>7. QED
    BY <2>6
<1>9. Places(off, seqs, n, f[n])
  <2>1. Sound \in SUBSET (0..n)
    OBVIOUS
  <2> HIDE DEF Sound
  <2>2. Sound = 0..n
    BY <1>7, <1>8, <2>1, UpTo
  <2>3. n \in 0..n
    OBVIOUS
  <2>4. n \in Sound
    BY <2>2, <2>3, Zenon
  <2>5. QED
    BY <2>4 DEF Sound
<1>10. \A i \in 1..n : off[i] = off[i - 1] + Len(seqs[i])
  BY <1>6
<1>11. QED
  BY <1>1, <1>4, <1>5, <1>9, <1>10

(* Parts of one element each are a list of those elements.                  *)
LEMMA FlattenSingles ==
  ASSUME NEW n \in Nat, NEW S, NEW x \in [1..n -> S]
  PROVE  FlattenSeq([i \in 1..n |-> <<x[i]>>]) = [i \in 1..n |-> x[i]]
<1> DEFINE seqs == [i \in 1..n |-> <<x[i]>>]
           flat == FlattenSeq(seqs)
<1>1. \A i \in 1..n : x[i] \in S
  OBVIOUS
<1>2. Len(seqs) = n /\ (n = 0 => seqs = <<>>)
  OBVIOUS
<1>3. \A i \in 1..n : seqs[i] = <<x[i]>> /\ seqs[i] \in Seq(S) /\ Len(seqs[i]) = 1
  BY <1>1
<1> HIDE DEF seqs
<1>4. PICK off \in [0..n -> Nat] :
        /\ off[0] = 0 /\ \A i \in 1..n : off[i] = off[i - 1] + Len(seqs[i])
        /\ Places(off, seqs, n, flat)
  BY <1>2, <1>3, FlattenPlaces
<1>5. flat \in Seq(S)
  BY <1>2, <1>3, FlattenIs
<1> HIDE DEF flat
<1> DEFINE Good == {i \in 0..n : off[i] = i}
<1>6. Good = 0..n
  <2>1. Good \in SUBSET (0..n) /\ 0 \in Good
    BY <1>4
  <2>2. ASSUME NEW i \in 1..n, i - 1 \in Good PROVE i \in Good
    <3>1. i \in 0..n /\ off[i - 1] = i - 1
      BY <2>2
    <3>2. Len(seqs[i]) = 1
      BY <1>3
    <3>3. off[i] = off[i - 1] + Len(seqs[i])
      BY <1>4
    <3>4. off[i] = i
      BY <3>1, <3>2, <3>3
    <3>5. QED
      BY <3>1, <3>4
  <2> HIDE DEF Good
  <2>3. QED
    BY <2>1, <2>2, UpTo
<1>7. \A i \in 0..n : off[i] = i
  BY <1>6
<1> HIDE DEF Good
<1>8. Len(flat) = n
  BY <1>4, <1>7 DEF Places
<1>9. ASSUME NEW i \in 1..n PROVE flat[i] = x[i]
  <2>1. off[i - 1] = i - 1 /\ 1 \in 1..Len(seqs[i])
    <3>1. i - 1 \in 0..n /\ 1 \in 1..1
      OBVIOUS
    <3>2. QED
      BY <1>3, <1>7, <3>1
  <2>2. flat[off[i - 1] + 1] = seqs[i][1]
    BY <1>4, <2>1 DEF Places
  <2>3. off[i - 1] + 1 = i
    BY <2>1
  <2>4. QED
    BY <1>3, <2>2, <2>3
<1>10. QED
  BY <1>5, <1>8, <1>9 DEF flat, seqs
=============================================================================
