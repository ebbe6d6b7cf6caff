-------------------------- MODULE ReferencesProofs --------------------------
(***************************************************************************)
(* unused-config, for any workloads, objects and command line and any      *)
(* number of changes between its ten lists: what its table proposes for    *)
(* deletion is nothing that some kind referenced all along, and a leftover *)
(* is in it or counted under it.  The scan is followed through the table's *)
(* filter, hiding and sorts.                                               *)
(***************************************************************************)
EXTENDS References, ListsProofs

(* What is pinned is followed now; what is read was, and is in scope.       *)
ScanInv ==
  /\ referrers \subseteq Referrers /\ got \subseteq Referrers
  /\ pinned \subseteq Objects \X Kinds
  /\ \A p \in pinned : Pinning(p[1], p[2])
  /\ \A o \in found : InScope(o.ns)
  /\ \A p \in pinned : p[2] \in read /\ InScope(p[1].ns) => \E r \in got : Follows(r, p[1])

(* No object that some kind referenced all along is in the scan's result.   *)
ScanTrue == read = Kinds => \A p \in pinned : p[1] \notin Unused

-----------------------------------------------------------------------------
(* The scan gathers the fields that are not of OtherVolumes, each under the *)
(* kind that the API gives it.                                              *)
LEMMA UnderIs ==
  ASSUME NEW r, NEW fields, NEW n
  PROVE  n \in Under(r, fields) <=> \E s \in r.refs : s.field \in fields /\ s.name = n
BY DEF Under

LEMMA FieldIs ==
  ASSUME NEW r \in Referrers, NEW s \in r.refs
  PROVE  s.field \in FieldsOf(r.kind)
BY ReferencesAssumption, Zenon

LEMMA PodSpecGathers ==
  ASSUME NEW r \in Referrers, r.kind \in PodSpecs, NEW k, NEW n
  PROVE  <<k, n>> \in AddPodSpec(r) <=>
           \E s \in r.refs : s.field \notin OtherVolumes /\ s.name = n /\ KindOf(s.field) = k
<1> DEFINE cm == ConfigMapFields
           se == SecretFields
<1>1. FieldsOf(r.kind) = cm \cup se \cup OtherVolumes
  <2>1. r.kind \notin {"serviceaccounts", "ingresses"}
    BY ReferencesAssumption
  <2>2. QED
    BY <2>1 DEF FieldsOf
<1>2. \A s \in r.refs : s.field \in cm \cup se \cup OtherVolumes
  BY <1>1, FieldIs
<1>3. <<k, n>> \in AddPodSpec(r) <=>
        \/ k = "configmaps" /\ \E s \in r.refs : s.field \in cm /\ s.name = n
        \/ k = "secrets" /\ \E s \in r.refs : s.field \in se /\ s.name = n
  BY UnderIs DEF AddPodSpec, AddVolume, AddContainer, ConfigMapFields, SecretFields
<1>4. \A f \in cm : f \notin OtherVolumes /\ KindOf(f) = "configmaps"
  BY DEF ConfigMapFields, OtherVolumes, KindOf
<1>5. \A f \in se : f \notin OtherVolumes /\ KindOf(f) = "secrets"
  BY DEF SecretFields, ConfigMapFields, OtherVolumes, KindOf
<1> HIDE DEF cm, se
<1>6. QED
  BY <1>2, <1>3, <1>4, <1>5

LEMMA AddedIs ==
  ASSUME NEW r \in Referrers, NEW k, NEW n
  PROVE  <<k, n>> \in Added(r) <=>
           \E s \in r.refs : s.field \notin OtherVolumes /\ s.name = n /\ KindOf(s.field) = k
<1>1. CASE r.kind \in PodSpecs
  <2>1. Added(r) = AddPodSpec(r)
    BY <1>1, ReferencesAssumption DEF Added
  <2>2. QED
    BY <1>1, <2>1, PodSpecGathers
<1>2. CASE r.kind = "serviceaccounts"
  <2>1. Added(r) = {"secrets"} \X Under(r, {"secrets", "imagePullSecrets"})
    BY <1>2, ReferencesAssumption DEF Added, AddServiceAccount
  <2>2. \A s \in r.refs : s.field \in {"secrets", "imagePullSecrets"}
    BY <1>2, FieldIs DEF FieldsOf
  <2>3. \A f \in {"secrets", "imagePullSecrets"} : f \notin OtherVolumes /\ KindOf(f) = "secrets"
    BY DEF OtherVolumes, KindOf, ConfigMapFields
  <2>4. QED
    BY <2>1, <2>2, <2>3, UnderIs
<1>3. CASE r.kind = "ingresses"
  <2>1. Added(r) = {"secrets"} \X Under(r, {"tls"})
    BY <1>3, ReferencesAssumption DEF Added, AddIngress
  <2>2. \A s \in r.refs : s.field \in {"tls"}
    BY <1>3, FieldIs DEF FieldsOf
  <2>3. \A f \in {"tls"} : f \notin OtherVolumes /\ KindOf(f) = "secrets"
    BY DEF OtherVolumes, KindOf, ConfigMapFields
  <2>4. QED
    BY <2>1, <2>2, <2>3, UnderIs
<1>4. r.kind \in PodSpecs \cup {"serviceaccounts", "ingresses"}
  BY ReferencesAssumption DEF Referrer, ReferrerKinds
<1>5. QED
  BY <1>1, <1>2, <1>3, <1>4

(* A reference stays within its namespace, and the scan finds it there.     *)
LEMMA FollowsWithin ==
  ASSUME NEW r, NEW o, Follows(r, o)
  PROVE  r.ns = o.ns
BY DEF Follows, Holds

LEMMA ReferenceFound ==
  ASSUME got \subseteq Referrers, NEW r \in got, NEW o, Follows(r, o)
  PROVE  Has(o)
<1>1. r.ns = o.ns
  BY FollowsWithin
<1>2. CASE \E s \in r.refs : Holds(r, s, o) /\ s.field \notin OtherVolumes
  <2>1. <<o.kind, o.name>> \in Added(r)
    BY <1>2, AddedIs DEF Holds
  <2>2. <<<<o.kind, o.name>>[1], r.ns, <<o.kind, o.name>>[2]>> \in {<<m[1], r.ns, m[2]>> : m \in Added(r)}
    BY <2>1
  <2>3. <<o.kind, o.ns, o.name>> \in {<<m[1], r.ns, m[2]>> : m \in Added(r)}
    BY <1>1, <2>2
  <2>4. <<o.kind, o.ns, o.name>> \in Seen
    BY <2>3 DEF Seen
  <2>5. QED
    BY <1>1, <2>4 DEF Has
<1>3. CASE Cites(r, o)
  <2>1. o.name \in Tokens(r)
    BY <1>3 DEF Tokens, Cites
  <2>2. <<o.ns, o.name>> \in {<<r.ns, t>> : t \in Tokens(r)}
    BY <1>1, <2>1
  <2>3. <<o.ns, o.name>> \in Args
    BY <2>2 DEF Args
  <2>4. QED
    BY <1>1, <2>3 DEF Has
<1>4. QED
  BY <1>2, <1>3 DEF Follows

-----------------------------------------------------------------------------
(* The table. *)

(* A stable sort gives every row a place of its own.                        *)
LEMMA PlaceIs ==
  ASSUME NEW n \in Nat, NEW keys \in [1..n -> Int]
  PROVE  /\ \A i \in 1..n : Place(keys, i) \in 1..n
         /\ \A i, j \in 1..n : Place(keys, i) = Place(keys, j) => i = j
         /\ \A p \in 1..n : \E i \in 1..n : Place(keys, i) = p
<1> DEFINE Before(i) == {j \in 1..n : keys[j] < keys[i] \/ (keys[j] = keys[i] /\ j <= i)}
           f == [i \in 1..n |-> Place(keys, i)]
<1>1. IsFiniteSet(1..n) /\ Cardinality(1..n) = n
  BY FS_Interval
<1>2. \A i \in 1..n : Place(keys, i) = Cardinality(Before(i))
  BY DEF Place
<1>3. \A i, j \in 1..n : j \in Before(i) <=> keys[j] < keys[i] \/ (keys[j] = keys[i] /\ j <= i)
  OBVIOUS
<1>4. \A i \in 1..n : Before(i) \in SUBSET (1..n)
  OBVIOUS
<1>5. \A i \in 1..n : keys[i] \in Int
  OBVIOUS
<1> HIDE DEF Before
<1>6. \A i \in 1..n : IsFiniteSet(Before(i)) /\ Cardinality(Before(i)) \in Nat /\ Cardinality(Before(i)) <= n
  BY <1>1, <1>4, FS_Subset, FS_CardinalityType
<1>7. ASSUME NEW i \in 1..n PROVE Place(keys, i) \in 1..n
  <2>1. i \in Before(i)
    BY <1>3, <1>5
  <2>2. Cardinality(Before(i)) # 0
    BY <1>6, <2>1, FS_EmptySet
  <2>3. QED
    BY <1>2, <1>6, <2>2
<1>8. ASSUME NEW i \in 1..n, NEW j \in 1..n, i \in Before(j), i # j
      PROVE  Place(keys, i) # Place(keys, j)
  <2>1. j \notin Before(i)
    BY <1>3, <1>5, <1>8
  <2>2. \A k \in 1..n : k \in Before(i) => k \in Before(j)
    BY <1>3, <1>5, <1>8
  <2>3. Before(i) \in SUBSET Before(j)
    BY <1>4, <2>2
  <2>4. j \in Before(j)
    BY <1>3, <1>5
  <2>5. Cardinality(Before(i)) # Cardinality(Before(j))
    BY <1>6, <2>1, <2>3, <2>4, FS_Subset
  <2>6. QED
    BY <1>2, <2>5
<1>9. \A i, j \in 1..n : Place(keys, i) = Place(keys, j) => i = j
  <2>1. \A i, j \in 1..n : i \in Before(j) \/ j \in Before(i)
    BY <1>3, <1>5
  <2>2. QED
    BY <1>8, <2>1
<1>10. f \in Injection(1..n, 1..n)
  <2>1. f \in [1..n -> 1..n]
    BY <1>7
  <2>2. IsInjective(f)
    BY <1>9 DEF IsInjective
  <2>3. QED
    BY <2>1, <2>2 DEF Injection
<1>11. f \in Surjection(1..n, 1..n)
  <2> HIDE DEF f
  <2>1. QED
    BY <1>1, <1>10, FS_Injection
<1>12. \A p \in 1..n : \E i \in 1..n : f[i] = p
  <2> HIDE DEF f
  <2>1. QED
    BY <1>11 DEF Surjection
<1>13. QED
  BY <1>7, <1>9, <1>12

(* Sorting only moves the rows.                                             *)
LEMMA SortIs ==
  ASSUME NEW S, NEW rows \in Seq(S), NEW keys \in [DOMAIN rows -> Int]
  PROVE  /\ StableSort(rows, keys) \in Seq(S)
         /\ Range(StableSort(rows, keys)) = Range(rows)
         /\ IsInjective(rows) => IsInjective(StableSort(rows, keys))
<1> DEFINE n == Len(rows)
           at(p) == CHOOSE i \in DOMAIN rows : Place(keys, i) = p
           sorted == StableSort(rows, keys)
<1>1. n \in Nat /\ DOMAIN rows = 1..n /\ \A i \in 1..n : rows[i] \in S
  OBVIOUS
<1> HIDE DEF n
<1>2. /\ \A i \in 1..n : Place(keys, i) \in 1..n
      /\ \A i, j \in 1..n : Place(keys, i) = Place(keys, j) => i = j
      /\ \A p \in 1..n : \E i \in 1..n : Place(keys, i) = p
  BY <1>1, PlaceIs
<1>3. \A p \in 1..n : at(p) \in 1..n /\ Place(keys, at(p)) = p
  BY <1>1, <1>2
<1>4. sorted = [p \in 1..n |-> rows[at(p)]]
  BY <1>1 DEF StableSort
<1> HIDE DEF at, sorted
<1>5. DOMAIN sorted = 1..n /\ \A p \in 1..n : sorted[p] = rows[at(p)]
  BY <1>4
<1>6. sorted \in Seq(S)
  BY <1>1, <1>3, <1>4
<1>7. \A x : x \in Range(sorted) => x \in Range(rows)
  BY <1>1, <1>3, <1>5 DEF Range
<1>8. ASSUME NEW x \in Range(rows) PROVE x \in Range(sorted)
  <2>1. PICK i \in 1..n : rows[i] = x
    BY <1>1 DEF Range
  <2>2. Place(keys, i) \in 1..n /\ at(Place(keys, i)) = i
    BY <1>2, <1>3
  <2>3. sorted[Place(keys, i)] = x
    BY <1>5, <2>1, <2>2
  <2>4. QED
    BY <1>5, <2>2, <2>3 DEF Range
<1>9. ASSUME IsInjective(rows) PROVE IsInjective(sorted)
  <2>1. \A p, q \in 1..n : at(p) = at(q) => p = q
    BY <1>3
  <2>2. QED
    BY <1>1, <1>3, <1>5, <1>9, <2>1 DEF IsInjective
<1>10. QED
  BY <1>6, <1>7, <1>8, <1>9 DEF sorted

(* What hideRows takes away is what it counts.                              *)
LEMMA HideIs ==
  ASSUME NEW S, NEW rows \in Seq(S), IsInjective(rows), NEW set
  PROVE  /\ IsFiniteSet(Range(rows) \ set)
         /\ Len(rows) - Len(Kept(rows, set)) = Cardinality(Range(rows) \ set)
<1> DEFINE kept == Kept(rows, set)
<1>1. /\ kept \in Seq(S) /\ IsInjective(kept)
      /\ Range(kept) = {r \in Range(rows) : r \in set}
  BY KeptIs
<1> HIDE DEF kept
<1>2. Range(kept) = Range(rows) \cap set
  BY <1>1
<1>3. IsFiniteSet(Range(rows)) /\ Cardinality(Range(rows)) = Len(rows)
  BY LengthIs
<1>4. Cardinality(Range(kept)) = Len(kept)
  BY <1>1, LengthIs
<1>5. /\ IsFiniteSet(Range(rows) \ set)
      /\ Cardinality(Range(rows) \ set) = Len(rows) - Cardinality(Range(rows) \cap set)
  BY <1>3, FS_Difference
<1>6. QED
  BY <1>2, <1>4, <1>5 DEF kept

(* The rows unused-config hands to the table, and those that come out.      *)
Asked(o) == inv.names = {} \/ MatchesAny(inv.names, o.name)

LEMMA NamedIs ==
  /\ Named \in Seq(Objects) /\ IsInjective(Named)
  /\ Range(Named) = {o \in Objects : o \in Unused /\ Asked(o)}
<1> DEFINE rows == Kept(Listing, Unused)
           keys == [i \in DOMAIN rows |-> -Size[rows[i]]]
           sorted == StableSort(rows, keys)
           named == {r \in Range(sorted) : \E c \in {"name"} : MatchesAny(inv.names, r[c])}
<1>1. /\ rows \in Seq(Objects) /\ IsInjective(rows)
      /\ Range(rows) = {o \in Objects : o \in Unused}
  <2>1. Listing \in Seq(Objects) /\ IsInjective(Listing) /\ Range(Listing) = Objects
    BY ReferencesAssumption DEF Objects
  <2>2. QED
    BY <2>1, KeptIs
<1>2. Named = FilterRows(sorted, {"name"}, inv.names)
  BY DEF Named
<1> HIDE DEF rows
<1>3. keys \in [DOMAIN rows -> Int]
  <2>1. \A i \in DOMAIN rows : rows[i] \in Objects
    BY <1>1
  <2>2. \A o \in Objects : -Size[o] \in Int
    BY ReferencesAssumption
  <2>3. QED
    BY <2>1, <2>2
<1> HIDE DEF keys
<1>4. /\ sorted \in Seq(Objects) /\ IsInjective(sorted)
      /\ Range(sorted) = {o \in Objects : o \in Unused}
  BY <1>1, <1>3, SortIs
<1> HIDE DEF sorted
<1>5. CASE sorted = <<>>
  <2>1. Headers(sorted) = {}
    BY <1>5 DEF Headers
  <2>2. Named = sorted
    BY <1>2, <2>1 DEF FilterRows
  <2>3. Range(sorted) = {}
    BY <1>5 DEF Range
  <2>4. QED
    BY <1>4, <2>2, <2>3
<1>6. CASE sorted # <<>> /\ inv.names = {}
  <2>1. Named = sorted
    BY <1>2, <1>6 DEF FilterRows
  <2>2. QED
    BY <1>4, <1>6, <2>1 DEF Asked
<1>7. CASE sorted # <<>> /\ inv.names # {}
  <2>1. sorted[1] \in Object
    BY <1>4, <1>7, ReferencesAssumption
  <2>2. {"name"} \cap Headers(sorted) = {"name"}
    BY <1>7, <2>1 DEF Headers, Object
  <2>3. Named = Kept(sorted, named)
    BY <1>2, <1>7, <2>2 DEF FilterRows
  <2>4. \A r \in Range(sorted) : r \in named <=> Asked(r)
    BY <1>7 DEF Asked
  <2> HIDE DEF named
  <2>5. /\ Named \in Seq(Objects) /\ IsInjective(Named)
        /\ Range(Named) = {r \in Range(sorted) : r \in named}
    BY <1>4, <2>3, KeptIs
  <2>6. QED
    BY <1>4, <2>4, <2>5
<1>8. QED
  BY <1>5, <1>6, <1>7

LEMMA PrintedIs ==
  ASSUME inv \in Invocations
  PROVE  /\ Range(Printed.rows) = {o \in Range(Named) : o.ns \notin Hidden}
         /\ IsFiniteSet({o \in Range(Named) : o.ns \in Hidden})
         /\ Printed.hidden = Cardinality({o \in Range(Named) : o.ns \in Hidden})
<1> DEFINE rows == Named
           shown == {r \in Range(rows) : r["ns"] \notin Hidden}
           visible == HideRows(rows, "ns", Hidden)
           keys == [i \in DOMAIN visible |-> Text[visible[i][inv.sort]]]
<1>1. rows \in Seq(Objects) /\ IsInjective(rows)
  BY NamedIs
<1>2. /\ Printed.rows = SortRows(visible, inv.sort, <<>>, <<>>, Text)
      /\ Printed.hidden = Len(rows) - Len(visible)
  BY DEF Printed, HiddenCount
<1> HIDE DEF rows
<1>3. \A r : r \in shown <=> r \in Range(rows) /\ r.ns \notin Hidden
  OBVIOUS
<1>4. /\ visible \in Seq(Objects)
      /\ Range(visible) = {r \in Range(rows) : r \in shown}
      /\ IsFiniteSet(Range(rows) \ shown)
      /\ Len(rows) - Len(visible) = Cardinality(Range(rows) \ shown)
  <2>1. CASE rows = <<>>
    <3>1. visible = rows
      BY <2>1 DEF HideRows, Headers
    <3>2. Range(rows) = {}
      BY <2>1 DEF Range
    <3> HIDE DEF shown, visible
    <3>3. Len(rows) = 0
      BY <2>1
    <3>4. Range(rows) \ shown = {} /\ Range(visible) = {r \in Range(rows) : r \in shown}
      BY <3>1, <3>2
    <3>5. QED
      BY <1>1, <3>1, <3>3, <3>4, FS_EmptySet
  <2>2. CASE rows # <<>>
    <3>1. rows[1] \in Object
      BY <1>1, <2>2, ReferencesAssumption
    <3>2. "ns" \in Headers(rows)
      BY <2>2, <3>1 DEF Headers, Object
    <3>3. visible = Kept(rows, shown)
      BY <3>2 DEF HideRows
    <3> HIDE DEF shown, visible
    <3>4. /\ Kept(rows, shown) \in Seq(Objects)
          /\ Range(Kept(rows, shown)) = {r \in Range(rows) : r \in shown}
      BY <1>1, KeptIs
    <3>5. /\ IsFiniteSet(Range(rows) \ shown)
          /\ Len(rows) - Len(Kept(rows, shown)) = Cardinality(Range(rows) \ shown)
      BY <1>1, HideIs
    <3>6. QED
      BY <3>3, <3>4, <3>5
  <2>3. QED
    BY <2>1, <2>2
<1> HIDE DEF visible, shown
<1>5. Range(SortRows(visible, inv.sort, <<>>, <<>>, Text)) = Range(visible)
  <2>1. CASE inv.sort \notin Headers(visible)
    BY <2>1 DEF SortRows
  <2>2. CASE inv.sort \in Headers(visible)
    <3>1. visible # <<>>
      BY <2>2 DEF Headers
    <3>2. 1 \in DOMAIN visible /\ visible[1] \in Object
      BY <1>4, <3>1, ReferencesAssumption
    <3>3. inv.sort \in {"kind", "ns", "name", "platform"}
      BY <2>2, <3>1, <3>2 DEF Headers, Object
    <3>4. inv.sort \in {"kind", "ns", "name"}
      BY <3>3, ReferencesAssumption DEF Invocation
    <3>5. \A o \in Objects : o[inv.sort] \in NS \cup ObjectKinds \cup Names
      BY <3>4, ReferencesAssumption DEF Object, Names
    <3>6. \A i \in DOMAIN visible : visible[i] \in Objects
      BY <1>4
    <3>7. keys \in [DOMAIN visible -> Int]
      BY <3>5, <3>6, ReferencesAssumption
    <3>8. DOMAIN <<>> = {}
      OBVIOUS
    <3>9. SortRows(visible, inv.sort, <<>>, <<>>, Text) = StableSort(visible, keys)
      BY <2>2, <3>2, <3>8 DEF SortRows
    <3> HIDE DEF keys
    <3>10. QED
      BY <1>4, <3>7, <3>9, SortIs
  <2>3. QED
    BY <2>1, <2>2
<1>6. Range(rows) \ shown = {o \in Range(rows) : o.ns \in Hidden}
  BY <1>3
<1>7. Range(visible) = {o \in Range(rows) : o.ns \notin Hidden}
  BY <1>3, <1>4
<1>8. QED
  BY <1>2, <1>4, <1>5, <1>6, <1>7 DEF rows

-----------------------------------------------------------------------------
(* The steps. *)

(* A change of the cluster only ends what was pinned.                       *)
LEMMA ClusterKeeps ==
  ASSUME ScanInv, ClusterStep, referrers' \subseteq Referrers
  PROVE  ScanInv'
<1>1. pinned' = {p \in pinned : Pinning(p[1], p[2])'} /\ UNCHANGED <<inv, read, got, found>>
  BY DEF ClusterStep
<1>2. \A p \in pinned' : p \in pinned /\ Pinning(p[1], p[2])'
  BY <1>1
<1>3. \A o \in found' : InScope(o.ns)'
  BY <1>1 DEF ScanInv, InScope
<1>4. \A p \in pinned' : p[2] \in read' /\ InScope(p[1].ns)' => \E r \in got' : Follows(r, p[1])
  BY <1>1, <1>2 DEF ScanInv, InScope
<1>5. QED
  BY <1>1, <1>2, <1>3, <1>4 DEF ScanInv, Follows, Holds, Cites

(* A list finds every reference of its kind that lasts.                     *)
LEMMA ReadKeeps ==
  ASSUME ScanInv, NEW k \in Kinds, Read(k)
  PROVE  ScanInv'
<1>1. /\ read' = read \cup {k}
      /\ got' = got \cup {r \in referrers : r.kind = k /\ InScope(r.ns)}
      /\ found' = found \cup {o \in objects : o.kind = k /\ InScope(o.ns)}
      /\ UNCHANGED <<inv, referrers, pinned>>
  BY DEF Read, cluster, history
<1>2. referrers' \subseteq Referrers /\ got' \subseteq Referrers /\ pinned' \subseteq Objects \X Kinds
  BY <1>1 DEF ScanInv
<1>3. \A p \in pinned' : Pinning(p[1], p[2])'
  BY <1>1 DEF ScanInv, Pinning, Follows, Holds, Cites
<1>4. \A o \in found' : InScope(o.ns)'
  BY <1>1 DEF ScanInv, InScope
<1>5. ASSUME NEW p \in pinned, p[2] \in read', InScope(p[1].ns)
      PROVE  \E r \in got' : Follows(r, p[1])
  <2>1. CASE p[2] \in read
    BY <1>1, <1>5, <2>1 DEF ScanInv
  <2>2. CASE p[2] = k
    <3>1. PICK r \in referrers : r.kind = k /\ Follows(r, p[1])
      BY <2>2 DEF ScanInv, Pinning
    <3>2. InScope(r.ns)
      BY <1>5, <3>1, FollowsWithin DEF ScanInv
    <3>3. QED
      BY <1>1, <3>1, <3>2
  <2>3. QED
    BY <1>1, <1>5, <2>1, <2>2
<1>6. \A p \in pinned' : p[2] \in read' /\ InScope(p[1].ns)' => \E r \in got' : Follows(r, p[1])
  BY <1>1, <1>5 DEF InScope
<1>7. QED
  BY <1>2, <1>3, <1>4, <1>6 DEF ScanInv, Follows, Holds, Cites

LEMMA Begins == Init => ScanInv
<1> SUFFICES ASSUME Init PROVE ScanInv
  OBVIOUS
<1>1. referrers \subseteq Referrers /\ got = {} /\ found = {} /\ read = {}
  BY ReferencesAssumption DEF Init
<1>2. pinned = {p \in Objects \X Kinds : Pinning(p[1], p[2])}
  BY DEF Init
<1>3. QED
  BY <1>1, <1>2 DEF ScanInv

LEMMA Steps == ScanInv /\ [Next]_vars => ScanInv'
<1> SUFFICES ASSUME ScanInv, [Next]_vars PROVE ScanInv'
  OBVIOUS
<1>1. CASE \E r \in Referrers : Create(r) \/ Delete(r) \/ \E s \in Referrers : Edit(r, s)
  <2>1. ClusterStep /\ referrers' \subseteq Referrers
    BY <1>1 DEF Create, Delete, Edit, ScanInv
  <2>2. QED
    BY <2>1, ClusterKeeps
<1>2. CASE \E o \in Objects : ObjectStep(o)
  <2>1. ClusterStep /\ referrers' \subseteq Referrers
    BY <1>2 DEF ObjectStep, ScanInv
  <2>2. QED
    BY <2>1, ClusterKeeps
<1>3. CASE \E k \in Kinds : Read(k)
  BY <1>3, ReadKeeps
<1>4. CASE (\E k \in Kinds : ReadFails(k)) \/ UnusedConfig \/ UNCHANGED vars
  <2>1. UNCHANGED <<inv, referrers, read, got, found, pinned>>
    BY <1>4 DEF ReadFails, UnusedConfig, vars, cluster, history
  <2>2. QED
    BY <2>1 DEF ScanInv, Pinning, Follows, Holds, Cites, InScope
<1>5. QED
  BY <1>1, <1>2, <1>3, <1>4 DEF Next, Done

LEMMA ScanFinds == ScanInv => ScanTrue
<1> SUFFICES ASSUME ScanInv, read = Kinds,
                    NEW p \in pinned, p[1] \in Unused
             PROVE  FALSE
  BY DEF ScanTrue
<1>1. p[1] \in found /\ ~Has(p[1])
  BY DEF Unused
<1>2. p[2] \in read
  BY DEF ScanInv
<1>3. PICK r \in got : Follows(r, p[1])
  BY <1>1, <1>2 DEF ScanInv
<1>4. QED
  BY <1>1, <1>3, ReferenceFound DEF ScanInv

-----------------------------------------------------------------------------
(* What is printed. *)

(* Nothing is printed before the end.                                       *)
AnswerInv ==
  /\ inv \in Invocations /\ (answer.done \/ answer.rows = <<>>)
  /\ answer = [done |-> answer.done, err |-> answer.err,
               rows |-> answer.rows, hidden |-> answer.hidden]

LEMMA AnswerBegins == Init => AnswerInv
BY DEF Init, AnswerInv

(* No change follows the answer: the last moment is that of the table.      *)
LEMMA Ended == answer.done /\ [Next]_vars => UNCHANGED vars
BY DEF Next, Done, Create, Delete, Edit, ObjectStep, ClusterStep, Read, ReadFails, UnusedConfig

(* Any other step than the last prints nothing.                             *)
LEMMA Silent ==
  ASSUME AnswerInv, [Next]_vars, ~answer.done, ~UnusedConfig
  PROVE  AnswerInv' /\ answer'.rows = <<>> /\ ~Complete'
<1>1. CASE \E k \in Kinds : ReadFails(k)
  <2>1. PICK e \in Errors : answer' = [answer EXCEPT !.done = TRUE, !.err = e] /\ inv' = inv
    BY <1>1 DEF ReadFails
  <2>2. e # None
    BY ReferencesAssumption
  <2>3. answer' = [done |-> TRUE, err |-> e, rows |-> answer.rows, hidden |-> answer.hidden]
    BY <2>1 DEF AnswerInv
  <2>4. QED
    BY <2>1, <2>2, <2>3 DEF Complete, AnswerInv
<1>2. CASE inv' = inv /\ answer' = answer
  BY <1>2 DEF AnswerInv, Complete
<1>3. CASE \/ \E r \in Referrers : Create(r) \/ Delete(r) \/ \E s \in Referrers : Edit(r, s)
           \/ \E o \in Objects : ObjectStep(o)
  BY <1>2, <1>3 DEF Create, Delete, Edit, ObjectStep, ClusterStep
<1>4. CASE \E k \in Kinds : Read(k)
  BY <1>2, <1>4 DEF Read
<1>5. CASE UNCHANGED vars
  BY <1>2, <1>5 DEF vars
<1>6. QED
  BY <1>1, <1>3, <1>4, <1>5 DEF Next, Done

LEMMA AnswerKept == AnswerInv /\ [Next]_vars => AnswerInv'
<1> SUFFICES ASSUME AnswerInv, [Next]_vars PROVE AnswerInv'
  OBVIOUS
<1>1. CASE answer.done
  <2>1. UNCHANGED <<inv, answer>>
    BY <1>1, Ended DEF vars
  <2>2. QED
    BY <2>1 DEF AnswerInv
<1>2. CASE ~answer.done /\ ~UnusedConfig
  BY <1>2, Silent
<1>3. CASE UnusedConfig
  <2>1. inv' = inv /\ answer' = Printed
    BY <1>3 DEF UnusedConfig
  <2>2. QED
    BY <2>1 DEF AnswerInv, Printed
<1>4. QED
  BY <1>1, <1>2, <1>3

LEMMA AnswerAlways == Spec => []AnswerInv
BY AnswerBegins, AnswerKept, PTL DEF Spec

(* Nothing in use is printed.                                               *)
LEMMA SafeSteps ==
  ASSUME AnswerInv, ScanInv, InUseNeverListed, [Next]_vars
  PROVE  InUseNeverListed'
<1>1. CASE answer.done
  <2>1. UNCHANGED <<pinned, answer>>
    BY <1>1, Ended DEF vars, history
  <2>2. QED
    BY <2>1 DEF InUseNeverListed
<1>2. CASE ~answer.done /\ ~UnusedConfig
  <2>1. Range(answer'.rows) = {}
    BY <1>2, Silent DEF Range
  <2>2. QED
    BY <2>1 DEF InUseNeverListed
<1>3. CASE UnusedConfig
  <2>1. answer' = Printed /\ pinned' = pinned /\ read = Kinds
    BY <1>3 DEF UnusedConfig, history
  <2>2. \A p \in pinned : p[1] \notin Unused
    BY <2>1, ScanFinds DEF ScanTrue
  <2>3. Range(Printed.rows) \subseteq Unused
    BY NamedIs, PrintedIs DEF AnswerInv
  <2>4. QED
    BY <2>1, <2>2, <2>3 DEF InUseNeverListed
<1>4. QED
  BY <1>1, <1>2, <1>3

(* No object that one kind referenced throughout is proposed for deletion,  *)
(* whatever is asked for, hidden and sorted, whichever list fails, and      *)
(* whatever is edited, created and deleted between the ten lists - but for  *)
(* a reference by one of OtherVolumes, or by an argument that names another *)
(* namespace (unusedconfig.go:172-278).                                     *)
THEOREM InUseSafe == Spec => []InUseNeverListed
<1>1. Init => InUseNeverListed
  <2> SUFFICES ASSUME Init PROVE InUseNeverListed
    OBVIOUS
  <2>1. answer.rows = <<>>
    BY DEF Init
  <2>2. QED
    BY <2>1 DEF InUseNeverListed, Range
<1>2. AnswerInv /\ ScanInv /\ InUseNeverListed /\ [Next]_vars => InUseNeverListed'
  BY SafeSteps
<1>3. ScanInv /\ [Next]_vars => ScanInv'
  BY Steps
<1>4. QED
  BY <1>1, <1>2, <1>3, Begins, AnswerAlways, PTL DEF Spec

-----------------------------------------------------------------------------
(* Leftovers. *)

(* What nothing mentioned all along is there now, is mentioned by nothing   *)
(* that was read, and was found by the list of its kind.                    *)
LeftInv ==
  /\ referrers \subseteq Referrers /\ got \subseteq Referrers
  /\ objects \subseteq Objects /\ left \subseteq objects
  /\ \A o \in left : ~Mentioned(o)
  /\ \A o \in left, r \in got : ~Mentions(r, o)
  /\ \A o \in left : o.kind \in read /\ InScope(o.ns) => o \in found

LEMMA LeftBegins == Init => LeftInv
<1> SUFFICES ASSUME Init PROVE LeftInv
  OBVIOUS
<1>1. referrers \subseteq Referrers /\ objects \subseteq Objects /\ got = {} /\ read = {}
  BY ReferencesAssumption DEF Init
<1>2. left = {o \in objects : ~Mentioned(o)}
  BY DEF Init
<1>3. QED
  BY <1>1, <1>2 DEF LeftInv

LEMMA LeftCluster ==
  ASSUME LeftInv, ClusterStep, referrers' \subseteq Referrers, objects' \subseteq Objects
  PROVE  LeftInv'
<1>1. /\ left' = {o \in left : o \in objects' /\ ~Mentioned(o)'}
      /\ UNCHANGED <<inv, read, got, found>>
  BY DEF ClusterStep
<1>2. left' \subseteq objects' /\ left' \subseteq left /\ \A o \in left' : ~Mentioned(o)'
  BY <1>1
<1>3. \A o \in left' : \A r \in got' : ~Mentions(r, o)
  BY <1>1, <1>2 DEF LeftInv
<1>4. \A o \in left' : o.kind \in read' /\ InScope(o.ns)' => o \in found'
  BY <1>1, <1>2 DEF LeftInv, InScope
<1>5. QED
  BY <1>1, <1>2, <1>3, <1>4 DEF LeftInv, Mentions, PointsAt, Holds, Cites, Tokens

LEMMA LeftSteps == LeftInv /\ [Next]_vars => LeftInv'
<1> SUFFICES ASSUME LeftInv, [Next]_vars PROVE LeftInv'
  OBVIOUS
<1>1. CASE \E r \in Referrers : Create(r) \/ Delete(r) \/ \E s \in Referrers : Edit(r, s)
  <2>1. ClusterStep /\ referrers' \subseteq Referrers /\ objects' \subseteq Objects
    BY <1>1 DEF Create, Delete, Edit, LeftInv
  <2>2. QED
    BY <2>1, LeftCluster
<1>2. CASE \E o \in Objects : ObjectStep(o)
  <2>1. ClusterStep /\ referrers' \subseteq Referrers /\ objects' \subseteq Objects
    BY <1>2 DEF ObjectStep, LeftInv
  <2>2. QED
    BY <2>1, LeftCluster
<1>3. CASE \E k \in Kinds : Read(k)
  <2>1. PICK k \in Kinds : Read(k)
    BY <1>3
  <2>2. /\ read' = read \cup {k}
        /\ got' = got \cup {r \in referrers : r.kind = k /\ InScope(r.ns)}
        /\ found' = found \cup {o \in objects : o.kind = k /\ InScope(o.ns)}
        /\ UNCHANGED <<inv, referrers, objects, left>>
    BY <2>1 DEF Read, cluster, history
  <2>3. \A o \in left : \A r \in got' : ~Mentions(r, o)
    BY <2>2 DEF LeftInv, Mentioned
  <2>4. \A o \in left : o.kind \in read' /\ InScope(o.ns) => o \in found'
    BY <2>2 DEF LeftInv
  <2>5. \A o \in left : ~Mentioned(o)'
    BY <2>2 DEF LeftInv, Mentioned, Mentions, PointsAt, Holds, Cites, Tokens
  <2>6. QED
    BY <2>2, <2>3, <2>4, <2>5 DEF LeftInv, InScope, Mentions, PointsAt, Holds, Cites, Tokens
<1>4. CASE (\E k \in Kinds : ReadFails(k)) \/ UnusedConfig \/ UNCHANGED vars
  <2>1. UNCHANGED <<inv, referrers, objects, read, got, found, left>>
    BY <1>4 DEF ReadFails, UnusedConfig, vars, cluster, history
  <2>2. QED
    BY <2>1 DEF LeftInv, Mentioned, Mentions, PointsAt, Holds, Cites, Tokens, InScope
<1>5. QED
  BY <1>1, <1>2, <1>3, <1>4 DEF Next, Done

(* What the scan has, something that was read mentions.                     *)
LEMMA HasMeans ==
  ASSUME got \subseteq Referrers, NEW o, Has(o)
  PROVE  \E r \in got : Mentions(r, o)
<1>1. CASE <<o.kind, o.ns, o.name>> \in Seen
  <2>1. PICK r \in got : <<o.kind, o.ns, o.name>> \in {<<m[1], r.ns, m[2]>> : m \in Added(r)}
    BY <1>1 DEF Seen
  <2>2. PICK m \in Added(r) : <<o.kind, o.ns, o.name>> = <<m[1], r.ns, m[2]>>
    BY <2>1
  <2>3. PICK k, n : m = <<k, n>>
    <3>1. CASE r.kind \in PodSpecs
      <4>1. Added(r) = AddPodSpec(r)
        BY <3>1, ReferencesAssumption DEF Added
      <4> DEFINE S1 == Under(r, {"volume.configMap", "projected.configMap"})
                 S2 == Under(r, {"volume.secret", "projected.secret", "csi.nodePublishSecretRef"})
                 S3 == Under(r, {"imagePullSecrets"})
                 S4 == Under(r, {"envFrom.configMapRef", "env.configMapKeyRef"})
                 S5 == Under(r, {"envFrom.secretRef", "env.secretKeyRef"})
      <4>2. m \in ({"configmaps"} \X (S1 \cup S4)) \cup ({"secrets"} \X (S2 \cup S3 \cup S5))
        BY <4>1 DEF AddPodSpec, AddVolume, AddContainer
      <4> HIDE DEF S1, S2, S3, S4, S5
      <4>3. QED
        BY <4>2
    <3>2. CASE r.kind \notin PodSpecs /\ r.kind = "serviceaccounts"
      BY <3>2 DEF Added, AddServiceAccount
    <3>3. CASE r.kind \notin PodSpecs /\ r.kind # "serviceaccounts" /\ r.kind = "ingresses"
      BY <3>3 DEF Added, AddIngress
    <3>4. r.kind \in PodSpecs \cup {"serviceaccounts", "ingresses"}
      BY ReferencesAssumption DEF Referrer, ReferrerKinds
    <3>5. QED
      BY <3>1, <3>2, <3>3, <3>4
  <2>4. k = o.kind /\ n = o.name /\ r.ns = o.ns
    BY <2>2, <2>3
  <2>5. \E s \in r.refs : Holds(r, s, o)
    BY <2>3, <2>4, AddedIs DEF Holds
  <2>6. QED
    BY <2>5 DEF Mentions, PointsAt
<1>2. CASE <<o.ns, o.name>> \in Args
  <2>1. PICK r \in got : <<o.ns, o.name>> \in {<<r.ns, t>> : t \in Tokens(r)}
    BY <1>2 DEF Args
  <2>2. PICK t \in Tokens(r) : <<o.ns, o.name>> = <<r.ns, t>>
    BY <2>1
  <2>3. QED
    BY <2>2 DEF Mentions
<1>3. QED
  BY <1>1, <1>2 DEF Has

(* A leftover that is asked for is in the table before hiding.              *)
LEMMA LeftNamed ==
  ASSUME LeftInv, read = Kinds, NEW o \in left, Expected(o)
  PROVE  o \in Range(Named)
<1>1. o \in Objects /\ o.kind \in read
  BY ReferencesAssumption DEF LeftInv, Kinds, Object
<1>2. o \in found /\ ~o.platform
  BY <1>1 DEF LeftInv, Expected
<1>3. ~Has(o)
  BY HasMeans DEF LeftInv
<1>4. QED
  BY <1>1, <1>2, <1>3, NamedIs DEF Unused, Expected, Asked

LEMMA ToldSteps ==
  ASSUME AnswerInv, LeftInv, LeftoversTold, [Next]_vars
  PROVE  LeftoversTold'
<1>1. CASE answer.done
  <2>1. UNCHANGED <<inv, left, answer>>
    BY <1>1, Ended DEF vars, history
  <2>2. QED
    BY <2>1 DEF LeftoversTold, Complete, Expected, InScope
<1>2. CASE ~answer.done /\ ~UnusedConfig
  BY <1>2, Silent DEF LeftoversTold
<1>3. CASE UnusedConfig
  <2> DEFINE away == {o \in Range(Named) : o.ns \in Hidden}
             missed == {o \in left : Expected(o)} \ Range(Printed.rows)
  <2>1. answer' = Printed /\ inv' = inv /\ left' = left /\ read = Kinds
    BY <1>3 DEF UnusedConfig, history
  <2>2. /\ Range(Printed.rows) = {o \in Range(Named) : o.ns \notin Hidden}
        /\ IsFiniteSet(away) /\ Printed.hidden = Cardinality(away)
    BY PrintedIs DEF AnswerInv
  <2>3. \A o \in left : Expected(o) => o \in Range(Printed.rows) \/ o \in away
    BY <2>1, <2>2, LeftNamed
  <2>4. \A o \in away : inv.scope = {} /\ o.ns \in SystemNS
    BY DEF Hidden
  <2>5. missed \in SUBSET away
    BY <2>3
  <2> HIDE DEF away
  <2>6. IsFiniteSet(missed) /\ Cardinality(missed) <= Cardinality(away)
    BY <2>2, <2>5, FS_Subset
  <2>7. Cardinality(away) \in Nat /\ Cardinality(missed) \in Nat
    BY <2>2, <2>6, FS_CardinalityType
  <2>8. Printed.hidden >= Cardinality(missed)
    BY <2>2, <2>6, <2>7
  <2>9. QED
    BY <2>1, <2>3, <2>4, <2>8 DEF LeftoversTold, Expected, InScope
<1>4. QED
  BY <1>1, <1>2, <1>3

(* Every leftover that was there throughout, in scope and asked for, is in  *)
(* the table or in the number under it, and only the system namespaces of   *)
(* an unrestricted listing are in that number.                              *)
THEOREM LeftoversShown == Spec => []LeftoversTold
<1>1. Init => LeftoversTold
  BY DEF Init, LeftoversTold, Complete
<1>2. AnswerInv /\ LeftInv /\ LeftoversTold /\ [Next]_vars => LeftoversTold'
  BY ToldSteps
<1>3. QED
  BY <1>1, <1>2, LeftBegins, LeftSteps, AnswerAlways, PTL DEF Spec
=============================================================================
