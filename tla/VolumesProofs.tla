---------------------------- MODULE VolumesProofs ----------------------------
(***************************************************************************)
(* What pvc-unused and pv-orphan say of claims and disks, for any number   *)
(* of claims, volumes and StatefulSets and any number of changes to the    *)
(* cluster while they read.                                                *)
(***************************************************************************)
EXTENDS Volumes, TLAPS, SequenceTheorems, WellFoundedInduction, NaturalsInduction

USE VolumesAssumption

TypeInv == TypeOK /\ held \subseteq Claims /\ free \subseteq Claims /\ idle \subseteq Vols

(* Until it prints, what pvc-unused has read agrees with the histories.     *)
UseInv ==
  /\ stage = "unused" =>
       /\ rows = None
       /\ \A c \in held : Held(c) /\ ("pods" \in read => podsRead[c] # "none")
       /\ \A c \in free : /\ Free(c)
                          /\ "pods" \in read => podsRead[c] = "none"
                          /\ "claims" \in read => claimsRead[c].phase # "Absent"
  /\ UseTold

(* An idle disk that still has its claim had it when the claims were read,  *)
(* and then it has a row.                                                   *)
DiskInv ==
  /\ stage # "done" => disks = None /\ \A v \in idle : Idle(v)
  /\ stage = "unused" =>
       \A v \in idle, c \in Claims : claim[c].volume = v =>
         /\ "pods" \in read => podsRead[c] = "none"
         /\ "claims" \in read => claimsRead[c].volume = v
  /\ stage = "orphan" =>
       \A v \in idle : Claimed(v) => \E r \in rows : r.volume = v
  /\ PictureCloses

IInv == TypeInv /\ UseInv /\ DiskInv

(* A change of the cluster, seen from the command. *)
LEMMA ClusterLeaves ==
  ASSUME ClusterStep
  PROVE  /\ UNCHANGED command
         /\ stage # "done"
         /\ held' \subseteq held /\ free' \subseteq free /\ idle' \subseteq idle
         /\ stage = "unused" => (\A c \in held' : Held(c)') /\ (\A c \in free' : Free(c)')
         /\ \A v \in idle' : Idle(v)' /\ (Claimed(v)' => Claimed(v))
BY DEF ClusterStep, Held, Free, Idle, Claimed

(* The cluster's own types. *)
WorldOK ==
  /\ replicas \in [Sets -> Counts] /\ claim \in [Claims -> ClaimStates]
  /\ pods \in [Claims -> PodStates] /\ vol \in [Vols -> VolStates]

LEMMA ClusterTypes == WorldOK /\ ClusterNext => WorldOK' /\ ClusterStep
<1> SUFFICES ASSUME WorldOK, ClusterNext PROVE WorldOK' /\ ClusterStep
  OBVIOUS
<1> USE DEF WorldOK, ClaimStates, Absent, PodStates, VolStates
<1>1. CASE \E c \in Claims : CreateClaim(c)
  BY <1>1 DEF CreateClaim
<1>2. CASE \E c \in Claims : DeleteClaim(c)
  BY <1>2 DEF DeleteClaim
<1>3. CASE \E c \in Claims : PodStep(c)
  BY <1>3 DEF PodStep
<1>4. CASE \E c \in Claims, v \in Vols : Bind(c, v)
  BY <1>4 DEF Bind
<1>5. CASE \E v \in Vols : CreateVolume(v)
  BY <1>5 DEF CreateVolume
<1>6. CASE \E v \in Vols : DeleteVolume(v)
  <2>1. PICK v \in Vols : DeleteVolume(v)
    BY <1>6
  <2>2. \A c \in Claims : claim'[c] \in ClaimStates
    BY <2>1 DEF DeleteVolume
  <2> QED
    BY <2>1, <2>2 DEF DeleteVolume
<1>7. CASE \E v \in Vols : Release(v)
  BY <1>7 DEF Release
<1>8. CASE \E v \in Vols : Reclaim(v)
  BY <1>8 DEF Reclaim
<1>9. CASE \E s \in Sets : Scale(s)
  BY <1>9 DEF Scale, Counts
<1> QED
  BY <1>1, <1>2, <1>3, <1>4, <1>5, <1>6, <1>7, <1>8, <1>9 DEF ClusterNext

(* A volume gets a claim only where it had none. *)
LEMMA ClaimAnew ==
  ASSUME WorldOK, ClusterNext, NEW v \in Vols, NEW c \in Claims,
         claim'[c].volume = v, Claimed(v)
  PROVE  claim[c].volume = v
<1> USE DEF WorldOK, ClaimStates, Absent, Claimed
<1>1. CASE \E d \in Claims : CreateClaim(d)
  BY <1>1 DEF CreateClaim
<1>2. CASE \E d \in Claims : DeleteClaim(d)
  BY <1>2 DEF DeleteClaim
<1>3. CASE \E d \in Claims, w \in Vols : Bind(d, w)
  BY <1>3 DEF Bind
<1>4. CASE \E w \in Vols : DeleteVolume(w)
  BY <1>4 DEF DeleteVolume
<1>5. CASE UNCHANGED claim
  BY <1>5
<1> QED
  BY <1>1, <1>2, <1>3, <1>4, <1>5
  DEF ClusterNext, PodStep, CreateVolume, Release, Reclaim, Scale

LEMMA WorldTyped == TypeOK => WorldOK
BY DEF TypeOK, WorldOK

(* A row of pvc-unused, and of pv-orphan, is of the type of the table. *)
LEMMA RowTyped ==
  ASSUME TypeOK, NEW c \in Claims
  PROVE  Row(c) \in [claim : Claims, volume : Vols \cup {None},
                     verdict : {"LOST", "UNBOUND", "ORPHAN", "SCALED-DOWN", "STS-RESERVED"}]
<1>1. claimsRead[c].volume \in Vols \cup {None}
  BY DEF TypeOK, ClaimStates, Absent
<1>2. Verdict(c) \in {"LOST", "UNBOUND", "ORPHAN", "SCALED-DOWN", "STS-RESERVED"}
  BY DEF Verdict
<1> QED
  BY <1>1, <1>2 DEF Row

LEMMA DiskTyped ==
  ASSUME NEW v \in Vols, Reported(v)
  PROVE  PvVerdict(v) \in {"FAILED", "RETAINED", "RECLAIMING", "UNCLAIMED"}
BY DEF PvVerdict, Reported

LEMMA TypeStep == TypeInv /\ [Next]_vars => TypeInv'
<1> SUFFICES ASSUME TypeInv, [Next]_vars PROVE TypeInv'
  OBVIOUS
<1> USE DEF TypeInv, TypeOK
<1>1. CASE ClusterNext
  <2>1. WorldOK' /\ ClusterStep
    BY <1>1, WorldTyped, ClusterTypes
  <2> QED
    BY <2>1, ClusterLeaves DEF WorldOK, command
<1>2. CASE \E k \in Kinds : Read(k)
  BY <1>2 DEF Read, cluster, history
<1>3. CASE \E k \in Kinds : ReadFails(k)
  BY <1>3 DEF ReadFails, cluster, history
<1>4. CASE PvcUnused
  <2>1. rows' \subseteq [claim : Claims, volume : Vols \cup {None},
                         verdict : {"LOST", "UNBOUND", "ORPHAN", "SCALED-DOWN", "STS-RESERVED"}]
    BY <1>4, RowTyped DEF PvcUnused
  <2> QED
    BY <1>4, <2>1 DEF PvcUnused, cluster, history
<1>5. CASE PvOrphan
  <2>1. disks' # None => disks' = disks \/ disks' \subseteq
          [volume : Vols, verdict : {"FAILED", "RETAINED", "RECLAIMING", "UNCLAIMED"}]
    BY <1>5, DiskTyped DEF PvOrphan
  <2> QED
    BY <1>5, <2>1 DEF PvOrphan, cluster, history
<1>6. CASE UNCHANGED vars
  BY <1>6 DEF vars, cluster, command, history
<1> QED
  BY <1>1, <1>2, <1>3, <1>4, <1>5, <1>6 DEF Next, Done

(* Held and Free speak of the cluster alone. *)
LEMMA UseStep == TypeInv /\ UseInv /\ [Next]_vars => UseInv'
<1> SUFFICES ASSUME TypeInv, UseInv, [Next]_vars PROVE UseInv'
  OBVIOUS
<1> USE DEF TypeInv, UseInv, UseTold, Held, Free
<1>1. CASE ClusterNext
  <2>1. ClusterStep
    BY <1>1, WorldTyped, ClusterTypes DEF TypeInv
  <2>2. stage = "unused" => (\A c \in held' : Held(c)') /\ (\A c \in free' : Free(c)')
    BY <2>1, ClusterLeaves
  <2>3. held' \subseteq held /\ free' \subseteq free /\ UNCHANGED command
    BY <2>1, ClusterLeaves
  <2>4. UseTold'
    BY <2>3 DEF command
  <2> QED
    BY <2>2, <2>3, <2>4 DEF command
<1>2. CASE \E k \in Kinds : Read(k)
  <2>1. PICK k \in Kinds : Read(k)
    BY <1>2
  <2>2. UNCHANGED <<cluster, history, rows, stage>>
    BY <2>1 DEF Read
  <2>3. UseTold'
    BY <2>2 DEF history
  <2> QED
    BY <2>1, <2>2, <2>3 DEF Read, cluster, history, Kinds
<1>3. CASE \E k \in Kinds : ReadFails(k)
  BY <1>3 DEF ReadFails, cluster, history
<1>4. CASE PvcUnused
  <2> DEFINE printed == {c \in Claims : claimsRead[c].phase # "Absent" /\ ~Mounted(c)}
  <2>1. rows' = {Row(c) : c \in printed} /\ stage' = "orphan" /\ UNCHANGED <<held, free>>
    BY <1>4 DEF PvcUnused, history
  <2>2. \A c \in held : c \notin printed
    BY <1>4 DEF PvcUnused, Kinds, Mounted
  <2>3. \A c \in free : c \in printed
    BY <1>4 DEF PvcUnused, Kinds, Mounted
  <2>4. \A c \in printed : Row(c).claim = c
    BY DEF Row
  <2>5. UseTold'
    <3> HIDE DEF printed
    <3> QED
      BY <2>1, <2>2, <2>3, <2>4
  <2> QED
    BY <2>1, <2>5
<1>5. CASE PvOrphan
  BY <1>5 DEF PvOrphan, cluster, history
<1>6. CASE UNCHANGED vars
  BY <1>6 DEF vars, cluster, command, history
<1> QED
  BY <1>1, <1>2, <1>3, <1>4, <1>5, <1>6 DEF Next, Done

LEMMA DiskStep == IInv /\ [Next]_vars => DiskInv'
<1> SUFFICES ASSUME IInv, [Next]_vars PROVE DiskInv'
  OBVIOUS
<1> USE DEF IInv, TypeInv, DiskInv
<1>1. CASE ClusterNext
  <2>1. ClusterStep /\ WorldOK
    BY <1>1, WorldTyped, ClusterTypes
  <2>2. UNCHANGED command /\ stage # "done" /\ idle' \subseteq idle
    BY <2>1, ClusterLeaves
  <2>3. \A v \in idle' : Idle(v)' /\ (Claimed(v)' => Claimed(v))
    BY <2>1, ClusterLeaves
  <2>4. \A v \in idle', c \in Claims : claim'[c].volume = v => claim[c].volume = v
    BY <1>1, <2>1, <2>2, <2>3, ClaimAnew DEF Claimed
  <2>5. PictureCloses'
    BY <2>2 DEF PictureCloses, command
  <2> QED
    BY <2>2, <2>3, <2>4, <2>5 DEF command
<1>2. CASE \E k \in Kinds : Read(k)
  <2>1. PICK k \in Kinds : Read(k)
    BY <1>2
  <2>2. UNCHANGED <<cluster, history, rows, stage, disks, limbo>> /\ stage = "unused"
    BY <2>1 DEF Read
  <2>3. \A v \in idle : Idle(v) /\ Idle(v)'
    BY <2>2 DEF Idle, Held, cluster
  <2>4. \A v \in idle, c \in Claims : claim[c].volume = v => pods[c] = "none"
    BY <2>3 DEF Idle, Held
  <2>5. PictureCloses'
    BY <2>2 DEF PictureCloses, history
  <2>6. \A v \in idle', c \in Claims : claim'[c].volume = v =>
          /\ "pods" \in read' => podsRead'[c] = "none"
          /\ "claims" \in read' => claimsRead'[c].volume = v
    BY <2>1, <2>2, <2>4 DEF Read, cluster, history
  <2> QED
    BY <2>2, <2>3, <2>5, <2>6 DEF history
<1>3. CASE \E k \in Kinds : ReadFails(k)
  BY <1>3 DEF ReadFails, cluster, history, PictureCloses
<1>4. CASE PvcUnused
  <2>1. UNCHANGED <<cluster, history, disks>> /\ stage' = "orphan" /\ stage = "unused" /\ read = Kinds
    BY <1>4 DEF PvcUnused
  <2>2. \A v \in idle : Idle(v)'
    BY <2>1 DEF Idle, Held, cluster
  <2>3. ASSUME NEW v \in idle, Claimed(v)' PROVE \E r \in rows' : r.volume = v
    <3>1. PICK c \in Claims : claim[c].volume = v
      BY <2>1, <2>3 DEF Claimed, cluster
    <3>2. podsRead[c] = "none" /\ claimsRead[c].volume = v
      BY <2>1, <3>1 DEF Kinds
    <3>3. claimsRead[c].phase # "Absent"
      BY <3>2 DEF TypeOK, ClaimStates, Absent
    <3>4. Row(c) \in rows'
      BY <1>4, <3>2, <3>3 DEF PvcUnused, Mounted
    <3> QED
      BY <3>2, <3>4 DEF Row
  <2> QED
    BY <2>1, <2>2, <2>3 DEF history, PictureCloses
<1>5. CASE PvOrphan
  <2>1. stage = "orphan" /\ stage' = "done" /\ disks = None /\ UNCHANGED <<history, rows>>
    BY <1>5 DEF PvOrphan
  <2>2. ASSUME disks' # None, NEW v \in idle \ limbo'
        PROVE  (\E d \in disks' : d.volume = v) \/ (\E r \in rows : r.volume = v)
    <3>1. /\ disks' = {[volume |-> w, verdict |-> PvVerdict(w)] : w \in {w \in Vols : Reported(w)}}
          /\ limbo' = {w \in Vols : vol[w] = "Bound" /\ ~Claimed(w)}
      BY <1>5, <2>1, <2>2 DEF PvOrphan
    <3>2. CASE Claimed(v)
      BY <2>1, <3>2
    <3>3. CASE ~Claimed(v)
      <4>1. vol[v] \in VolStates \ {"none", "Bound"}
        BY <2>1, <2>2, <3>1, <3>3 DEF Idle, TypeOK
      <4>2. Reported(v)
        BY <4>1 DEF VolStates, Reported
      <4>3. [volume |-> v, verdict |-> PvVerdict(v)] \in disks'
        BY <3>1, <4>2
      <4> QED
        BY <4>3
    <3> QED
      BY <3>2, <3>3
  <2> QED
    BY <2>1, <2>2 DEF history, PictureCloses
<1>6. CASE UNCHANGED vars
  BY <1>6 DEF vars, cluster, command, history, PictureCloses, Idle, Held, Claimed
<1> QED
  BY <1>1, <1>2, <1>3, <1>4, <1>5, <1>6 DEF Next, Done

LEMMA InitInv == Init => IInv
<1> SUFFICES ASSUME Init PROVE IInv
  OBVIOUS
<1>1. WorldOK
  BY DEF Init, Start, WorldOK
<1>2. TypeInv
  BY <1>1 DEF Init, TypeInv, TypeOK, WorldOK
<1>3. UseInv
  BY DEF Init, UseInv, UseTold, Held, Free
<1>4. DiskInv
  BY DEF Init, DiskInv, PictureCloses, Idle
<1> QED
  BY <1>2, <1>3, <1>4 DEF IInv

(* The inductive invariant holds in every reachable state. *)
THEOREM Invariance == Spec => []IInv
<1>1. IInv /\ [Next]_vars => IInv'
  BY TypeStep, UseStep, DiskStep DEF IInv
<1> QED
  BY InitInv, <1>1, PTL DEF Spec

(* Types, for any claims, volumes and StatefulSets. *)
THEOREM TypeCorrect == Spec => []TypeOK
<1>1. IInv => TypeOK
  BY DEF IInv, TypeInv
<1> QED
  BY Invariance, <1>1, PTL

(* pvc-unused reads claims and pods at two instants and still tells use from *)
(* disuse.                                                                   *)
THEOREM UseTrue == Spec => []UseTold
<1>1. IInv => UseTold
  BY DEF IInv, UseInv
<1> QED
  BY Invariance, <1>1, PTL

(* Reading pvc-unused and then pv-orphan misses no idle disk. *)
THEOREM NoDiskMissed == Spec => []PictureCloses
<1>1. IInv => PictureCloses
  BY DEF IInv, DiskInv
<1> QED
  BY Invariance, <1>1, PTL
-----------------------------------------------------------------------------
(* The slots of StatefulSets. *)

(* Ordinals start at 0 where spec.ordinals is not set. *)
ZeroBased == \A s \in Sets : s.start = 0

(* Of each StatefulSet a count it had is what was read; a row's verdict is  *)
(* weighed against those counts.                                            *)
SlotInv ==
  /\ stage = "unused" => \A s \in Sets : replicas[s] \in seen[s]
  /\ \A s \in Sets : setsRead[s] \in seen[s]
  /\ SlotTold

(* A claim's name without its last word is its template's and set's names.  *)
LEMMA NameCut ==
  ASSUME NEW p \in Seq(STRING), NEW w \in STRING
  PROVE  Front(p \o <<w>>) = p /\ Last(p \o <<w>>) = w
<1> DEFINE q == p \o <<w>>
<1>1. q \in Seq(STRING) /\ Len(q) = Len(p) + 1 /\ q[Len(p) + 1] = w
  OBVIOUS
<1>2. \A i \in 1..Len(p) : q[i] = p[i]
  OBVIOUS
<1>3. Last(q) = w
  BY <1>1 DEF Last
<1>4. Front(q) = SubSeq(q, 1, Len(p))
  BY <1>1 DEF Front
<1>5. SubSeq(q, 1, Len(p)) = p
  <2>1. \A i \in 1..Len(p) : q[i] \in STRING
    BY <1>2
  <2>2. /\ SubSeq(q, 1, Len(p)) \in Seq(STRING)
        /\ Len(SubSeq(q, 1, Len(p))) = Len(p)
        /\ \A i \in 1..Len(p) : SubSeq(q, 1, Len(p))[i] = p[i]
    BY <1>2, <2>1, SubSeqProperties
  <2>3. QED
    BY <2>2, SeqEqual
<1>6. QED
  BY <1>3, <1>4, <1>5

(* And a name is what is before its last dash, and its last word.           *)
LEMMA NameJoined ==
  ASSUME NEW q \in Seq(STRING), q # <<>>
  PROVE  q = Front(q) \o <<Last(q)>>
<1>1. PICK n \in Nat : Len(q) = n + 1
  <2>1. Len(q) \in Nat \ {0}
    BY EmptySeq
  <2>2. Len(q) - 1 \in Nat /\ Len(q) = (Len(q) - 1) + 1
    BY <2>1
  <2>3. QED
    BY <2>2
<1>2. Front(q) = SubSeq(q, 1, n)
  BY <1>1 DEF Front
<1>3. /\ Front(q) \in Seq(STRING) /\ Len(Front(q)) = n
      /\ \A i \in 1..n : Front(q)[i] = q[i]
  <2>1. \A i \in 1..n : q[i] \in STRING
    BY <1>1
  <2>2. /\ SubSeq(q, 1, n) \in Seq(STRING)
        /\ Len(SubSeq(q, 1, n)) = IF 1 <= n THEN n - 1 + 1 ELSE 0
        /\ \A i \in 1..n - 1 + 1 : SubSeq(q, 1, n)[i] = q[1 + i - 1]
    BY <2>1, SubSeqProperties
  <2>3. QED
    BY <1>2, <2>2
<1>4. Last(q) = q[n + 1] /\ Last(q) \in STRING
  BY <1>1 DEF Last
<1>5. QED
  BY <1>1, <1>3, <1>4, SMTT(30)

(* A set of naturals that is not empty has a least element, and a greatest  *)
(* one when it is bounded.                                                  *)
LEMMA LeastOf ==
  ASSUME NEW T \in SUBSET Nat, T # {}
  PROVE  \E m \in T : \A k \in T : m <= k
<1>1. PICK m \in T : \A k \in T : ~(<<k, m>> \in OpToRel(<, Nat))
  BY NatLessThanWellFounded, WFMin, Zenon
<1>2. \A k \in T : m <= k
  <2>1. TAKE k \in T
  <2>2. <<k, m>> \in OpToRel(<, Nat) <=> k < m
    BY DEF OpToRel
  <2>3. ~(k < m)
    BY <1>1, <2>2, Zenon
  <2>4. k \in Nat /\ m \in Nat
    OBVIOUS
  <2>5. QED
    BY <2>3, <2>4
<1>3. QED
  BY <1>2

LEMMA GreatestOf ==
  ASSUME NEW n \in Nat, NEW T \in SUBSET (1..n), T # {}
  PROVE  \E m \in T : \A k \in T : k <= m
<1> DEFINE U == {n - i : i \in T}
<1>1. U \in SUBSET Nat /\ U # {}
  <2>1. \A i \in T : i \in 1..n /\ n - i \in Nat
    OBVIOUS
  <2>2. QED
    BY <2>1
<1>2. \E u \in U : \A k \in U : u <= k
  <2> HIDE DEF U
  <2> QED
    BY <1>1, LeastOf
<1>3. PICK u \in U : \A k \in U : u <= k
  BY <1>2
<1>4. PICK m \in T : u = n - m
  OBVIOUS
<1>5. ASSUME NEW k \in T PROVE k <= m
  <2>1. n - k \in U
    OBVIOUS
  <2>2. n - m <= n - k
    BY <1>3, <1>4, <2>1
  <2>3. n \in Int /\ k \in Int /\ m \in Int
    OBVIOUS
  <2>4. QED
    BY <2>2, <2>3
<1>6. QED
  BY <1>5

(* Of several owners the last one listed is one of them.                    *)
LEMMA OwnerIs ==
  ASSUME NEW c \in Claims, Owners(c) # {}
  PROVE  \E i \in Owners(c) : Owner(c) = StatefulSets[i]
<1>1. DOMAIN StatefulSets = 1..Len(StatefulSets) /\ Len(StatefulSets) \in Nat
  BY NamesAssumption, LenProperties
<1>2. Owners(c) \in SUBSET (1..Len(StatefulSets))
  BY <1>1 DEF Owners
<1>3. \E i \in Owners(c) : \A j \in Owners(c) : j <= i
  BY <1>1, <1>2, GreatestOf
<1>4. QED
  BY <1>3 DEF Owner

(* A verdict on a slot was true of some count its set had.                  *)
LEMMA RowSlot ==
  ASSUME ZeroBased, TypeOK, SlotInv, NEW c \in Claims
  PROVE  /\ Verdict(c) = "ORPHAN" =>
              \A s \in Sets : Gone \in seen[s] \/ c \notin AllSlots(s)
         /\ Verdict(c) = "STS-RESERVED" =>
              \E s \in Sets : \E n \in seen[s] \ {Gone} : c \in Reserved(s, n)
         /\ Verdict(c) = "SCALED-DOWN" =>
              \E s \in Sets : \E n \in seen[s] \ {Gone} : c \in AllSlots(s) \ Reserved(s, n)
<1>1. c.name \in Seq(STRING) /\ c.name # <<>>
  BY NamesAssumption DEF Claim
<1>2. \A s \in Sets : s.name \in Seq(STRING) /\ s.templates \subseteq Seq(STRING)
  BY NamesAssumption DEF StatefulSet
<1>3. \A i \in DOMAIN StatefulSets : StatefulSets[i] \in Sets
  BY DEF Sets, Range
<1>4. ASSUME Verdict(c) = "ORPHAN", NEW s \in Sets, Gone \notin seen[s], c \in AllSlots(s)
      PROVE  FALSE
  <2>1. PICK t \in s.templates, w \in DOMAIN Number :
          c.ns = s.ns /\ c.name = t \o s.name \o <<w>>
    BY <1>4 DEF AllSlots, Slots
  <2>2. t \o s.name \in Seq(STRING) /\ w \in STRING
    BY <1>2, ConcatProperties, NamesAssumption
  <2>3. Front(c.name) = t \o s.name /\ Last(c.name) = w
    BY <2>1, <2>2, NameCut
  <2>4. PICK i \in DOMAIN StatefulSets : StatefulSets[i] = s
    BY DEF Sets, Range
  <2>5. i \in Owners(c)
    BY <1>4, <2>1, <2>3, <2>4 DEF Owners, SlotInv
  <2>6. Owned(c)
    BY <2>3, <2>5 DEF Owned
  <2>7. QED
    BY <1>4, <2>6 DEF Verdict
<1>5. ASSUME Verdict(c) \in {"STS-RESERVED", "SCALED-DOWN"}
      PROVE  \E s \in Sets : /\ setsRead[s] \in seen[s] \ {Gone}
                             /\ c \in AllSlots(s)
                             /\ ~BeyondScale(c) => c \in Reserved(s, setsRead[s])
                             /\ BeyondScale(c) => c \notin Reserved(s, setsRead[s])
  <2>1. Owned(c)
    BY <1>5 DEF Verdict
  <2>2. PICK i \in Owners(c) : Owner(c) = StatefulSets[i]
    BY <2>1, OwnerIs DEF Owned
  <2> DEFINE s == StatefulSets[i]
             w == Last(c.name)
  <2>3. s \in Sets /\ setsRead[s] # Gone /\ s.ns = c.ns
    BY <1>3, <2>2 DEF Owners
  <2>4. PICK t \in s.templates : t \o s.name = Front(c.name)
    BY <2>2 DEF Owners
  <2>5. c.name = t \o s.name \o <<w>>
    BY <1>1, <2>4, NameJoined
  <2>6. w \in DOMAIN Number /\ Number[w] \in Nat
    BY <2>1 DEF Owned
  <2>7. c \in AllSlots(s)
    BY <2>3, <2>5, <2>6 DEF AllSlots, Slots
  <2>8. setsRead[s] \in Nat
    BY <2>3 DEF TypeOK, Counts
  <2>9. BeyondScale(c) <=> Number[w] >= setsRead[s]
    BY <2>2 DEF BeyondScale
  <2>10. \A x \in s.templates, v \in DOMAIN Number :
           c.name = x \o s.name \o <<v>> => v = w
    <3>1. TAKE x \in s.templates, v \in DOMAIN Number
    <3>2. x \o s.name \in Seq(STRING) /\ v \in STRING
      BY <1>2, <2>3, ConcatProperties, NamesAssumption
    <3>3. QED
      BY <3>2, NameCut
  <2>11. c \in Reserved(s, setsRead[s]) <=> Number[w] < setsRead[s]
    <3>1. s.start = 0
      BY <2>3 DEF ZeroBased
    <3>2. Number[w] \in s.start..s.start + setsRead[s] - 1 <=> Number[w] < setsRead[s]
      BY <2>6, <2>8, <3>1
    <3>3. QED
      BY <2>3, <2>4, <2>5, <2>6, <2>10, <3>2 DEF Reserved, Slots
  <2>12. QED
    BY <2>3, <2>6, <2>7, <2>8, <2>9, <2>11 DEF SlotInv
<1>6. Verdict(c) = "STS-RESERVED" => ~BeyondScale(c)
  BY DEF Verdict
<1>7. Verdict(c) = "SCALED-DOWN" => BeyondScale(c)
  BY DEF Verdict
<1>8. ASSUME Verdict(c) = "STS-RESERVED"
      PROVE  \E s \in Sets : \E n \in seen[s] \ {Gone} : c \in Reserved(s, n)
  <2>1. PICK s \in Sets : /\ setsRead[s] \in seen[s] \ {Gone}
                          /\ ~BeyondScale(c) => c \in Reserved(s, setsRead[s])
    BY <1>5, <1>8
  <2>2. QED
    BY <1>6, <1>8, <2>1
<1>9. ASSUME Verdict(c) = "SCALED-DOWN"
      PROVE  \E s \in Sets : \E n \in seen[s] \ {Gone} : c \in AllSlots(s) \ Reserved(s, n)
  <2>1. PICK s \in Sets : /\ setsRead[s] \in seen[s] \ {Gone}
                          /\ c \in AllSlots(s)
                          /\ BeyondScale(c) => c \notin Reserved(s, setsRead[s])
    BY <1>5, <1>9
  <2>2. QED
    BY <1>7, <1>9, <2>1
<1>10. QED
  BY <1>4, <1>8, <1>9

LEMMA SlotStep == ZeroBased /\ IInv /\ SlotInv /\ [Next]_vars => SlotInv'
<1> SUFFICES ASSUME ZeroBased, IInv, SlotInv, [Next]_vars PROVE SlotInv'
  OBVIOUS
<1>1. CASE ClusterNext
  <2>1. ClusterStep /\ UNCHANGED command
    BY <1>1, WorldTyped, ClusterTypes, ClusterLeaves DEF IInv, TypeInv
  <2>2. CASE stage = "unused"
    <3>1. seen' = [s \in Sets |-> seen[s] \cup {replicas'[s]}] /\ rows' = None
      BY <2>1, <2>2 DEF ClusterStep, command, IInv, UseInv
    <3>2. QED
      BY <2>1, <3>1 DEF SlotInv, SlotTold, command
  <2>3. CASE stage # "unused"
    <3>1. seen' = seen
      BY <2>1, <2>3 DEF ClusterStep
    <3>2. SlotTold'
      BY <2>1, <3>1 DEF SlotInv, SlotTold, command
    <3>3. QED
      BY <2>1, <2>3, <3>1, <3>2 DEF SlotInv, command
  <2>4. QED
    BY <2>2, <2>3
<1>2. CASE \E k \in Kinds : Read(k)
  <2>1. UNCHANGED <<replicas, seen, rows, stage>> /\ setsRead' \in {replicas, setsRead}
        /\ stage = "unused"
    BY <1>2 DEF Read, cluster, history
  <2>2. SlotTold'
    BY <2>1 DEF SlotInv, SlotTold
  <2>3. QED
    BY <2>1, <2>2 DEF SlotInv
<1>3. CASE PvcUnused
  <2> DEFINE printed == {c \in Claims : claimsRead[c].phase # "Absent" /\ ~Mounted(c)}
  <2>1. /\ rows' = {Row(c) : c \in printed} /\ stage' = "orphan"
        /\ UNCHANGED <<replicas, seen, setsRead>>
    BY <1>3 DEF PvcUnused, cluster, history
  <2>2. ASSUME NEW r \in rows'
        PROVE  \E c \in Claims : r.claim = c /\ r.verdict = Verdict(c)
    BY <2>1 DEF Row
  <2>3. SlotTold'
    <3> SUFFICES ASSUME NEW r \in rows'
                 PROVE  /\ r.verdict = "ORPHAN" =>
                             \A s \in Sets : Gone \in seen[s] \/ r.claim \notin AllSlots(s)
                        /\ r.verdict = "STS-RESERVED" =>
                             \E s \in Sets : \E n \in seen[s] \ {Gone} : r.claim \in Reserved(s, n)
                        /\ r.verdict = "SCALED-DOWN" =>
                             \E s \in Sets : \E n \in seen[s] \ {Gone} :
                               r.claim \in AllSlots(s) \ Reserved(s, n)
      BY <2>1 DEF SlotTold
    <3>1. PICK c \in Claims : r.claim = c /\ r.verdict = Verdict(c)
      BY <2>2
    <3>2. QED
      BY <3>1, RowSlot DEF IInv, TypeInv
  <2>4. QED
    BY <2>1, <2>3 DEF SlotInv
<1>4. CASE (\E k \in Kinds : ReadFails(k)) \/ PvOrphan \/ UNCHANGED vars
  <2>1. UNCHANGED <<replicas, seen, setsRead, rows>> /\ (stage' = "unused" => stage = "unused")
    BY <1>4 DEF ReadFails, PvOrphan, vars, cluster, command, history
  <2>2. SlotTold'
    BY <2>1 DEF SlotInv, SlotTold
  <2>3. QED
    BY <2>1, <2>2 DEF SlotInv
<1>5. QED
  BY <1>1, <1>2, <1>3, <1>4 DEF Next, Done

(* Where ordinals start at 0, no slot of a set that was there all along is   *)
(* called an orphan, and one is called reserved or left behind only if it    *)
(* was at some moment, for any names, however their words nest.              *)
THEOREM SlotsTrue == ZeroBased => (Spec => []SlotTold)
<1> SUFFICES ASSUME ZeroBased PROVE Spec => []SlotTold
  OBVIOUS
<1>1. Init => SlotInv
  BY DEF Init, SlotInv, SlotTold
<1>2. IInv /\ SlotInv /\ [Next]_vars => SlotInv'
  BY SlotStep
<1>3. SlotInv => SlotTold
  BY DEF SlotInv
<1>4. QED
  BY Invariance, <1>1, <1>2, <1>3, PTL DEF Spec
=============================================================================
