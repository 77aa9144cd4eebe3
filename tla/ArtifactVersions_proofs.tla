------------------------ MODULE ArtifactVersions_proofs ------------------------
(***************************************************************************)
(* Proofs about ArtifactVersions: in every state that is stored or on its  *)
(* way to being stored, the history of each artifact is numbered without a *)
(* gap and with no number twice, and its newest record says what its list  *)
(* says unless it was written without one, for any number of overlapping   *)
(* requests.                                                               *)
(***************************************************************************)
EXTENDS ArtifactVersions, FiniteSetTheorems, FunctionTheorems, TLAPS

-----------------------------------------------------------------------------
(* Counting *)

(* Records that are numbered 1, 2, ..., v, no number twice, are v records.  *)
LEMMA CountedByVersion ==
  ASSUME NEW R, IsFiniteSet(R), NEW v \in Nat,
         \A q, r \in R : q.version = r.version => q = r,
         { r.version : r \in R } = 1..v
  PROVE  Cardinality(R) = v
  <1> DEFINE f == [r \in R |-> r.version]
  <1>1. f \in [R -> 1..v]
    OBVIOUS
  <1>2. \A q, r \in R : f[q] = f[r] => q = r
    OBVIOUS
  <1>3. \A k \in 1..v : \E r \in R : f[r] = k
    OBVIOUS
  <1>4. ExistsBijection(R, 1..v)
    <2>1. f \in Bijection(R, 1..v)
      <3> HIDE DEF f
      <3> QED
        BY <1>1, <1>2, <1>3, Fun_IsBij
    <2> QED
      BY <2>1, Fun_ExistsBij
  <1>5. Cardinality(R) = Cardinality(1..v)
    BY <1>4, FS_Bijection
  <1>6. Cardinality(1..v) = v
    BY FS_Interval
  <1> QED
    BY <1>5, <1>6

(* The members of a set of numbers up to one of its members                *)
Rank(P, i) == { j \in P : j <= i }

(* Ranked in their order, k numbers have the ranks 1, 2, ..., k.            *)
LEMMA Ranks ==
  ASSUME NEW n \in Nat, NEW P \in SUBSET (1..n)
  PROVE  /\ IsFiniteSet(P)
         /\ \A i \in P : IsFiniteSet(Rank(P, i)) /\ Cardinality(Rank(P, i)) \in 1..Cardinality(P)
         /\ \A i, k \in P : i < k => Cardinality(Rank(P, i)) < Cardinality(Rank(P, k))
         /\ { Cardinality(Rank(P, i)) : i \in P } = 1..Cardinality(P)
  <1>1. IsFiniteSet(P) /\ Cardinality(P) \in Nat
    <2>1. IsFiniteSet(1..n)
      BY FS_Interval
    <2> QED
      BY <2>1, FS_Subset, FS_CardinalityType
  <1>2. ASSUME NEW i \in P
        PROVE  IsFiniteSet(Rank(P, i)) /\ Cardinality(Rank(P, i)) \in 1..Cardinality(P)
    <2>1. Rank(P, i) \in SUBSET P /\ i \in Rank(P, i)
      BY DEF Rank
    <2>2. IsFiniteSet(Rank(P, i)) /\ Cardinality(Rank(P, i)) <= Cardinality(P)
      BY <1>1, <2>1, FS_Subset
    <2>3. Cardinality(Rank(P, i)) \in Nat /\ Cardinality(Rank(P, i)) # 0
      BY <2>1, <2>2, FS_EmptySet, FS_CardinalityType
    <2>4. Cardinality(Rank(P, i)) \in 1..Cardinality(P)
      BY <1>1, <2>2, <2>3
    <2> QED
      BY <2>2, <2>4
  <1>3. ASSUME NEW i \in P, NEW k \in P, i < k
        PROVE  Cardinality(Rank(P, i)) < Cardinality(Rank(P, k))
    <2> i \in Nat /\ k \in Nat /\ P \subseteq Nat
      OBVIOUS
    <2>1. Rank(P, i) \in SUBSET Rank(P, k) /\ k \in Rank(P, k) /\ k \notin Rank(P, i)
      <3>1. \A j \in P : j <= i => j <= k
        BY <1>3
      <3>2. k <= k /\ ~(k <= i)
        BY <1>3
      <3> QED
        BY <3>1, <3>2 DEF Rank
    <2>2. Cardinality(Rank(P, i)) <= Cardinality(Rank(P, k))
          /\ Cardinality(Rank(P, i)) # Cardinality(Rank(P, k))
      BY <1>2, <2>1, FS_Subset
    <2> QED
      BY <1>1, <1>2, <2>2
  <1>4. { Cardinality(Rank(P, i)) : i \in P } = 1..Cardinality(P)
    <2> DEFINE f == [i \in P |-> Cardinality(Rank(P, i))]
    <2>1. f \in [P -> 1..Cardinality(P)]
      BY <1>2
    <2>2. \A i, k \in P : f[i] = f[k] => i = k
      <3>1. \A i, k \in P : i < k \/ k < i \/ i = k
        OBVIOUS
      <3>2. \A i \in P : f[i] \in Nat
        BY <1>1, <2>1
      <3> QED
        BY <1>3, <3>1, <3>2
    <2>3. f \in Injection(P, 1..Cardinality(P))
      <3> HIDE DEF f
      <3> QED
        BY <2>1, <2>2, Fun_IsInj
    <2>4. IsFiniteSet(1..Cardinality(P)) /\ Cardinality(1..Cardinality(P)) = Cardinality(P)
      BY <1>1, FS_Interval
    <2>5. f \in Surjection(P, 1..Cardinality(P))
      <3> HIDE DEF f
      <3> QED
        BY <2>3, <2>4, FS_Injection
    <2>6. \A v \in 1..Cardinality(P) : \E i \in P : f[i] = v
      <3> HIDE DEF f
      <3> QED
        BY <2>5, Fun_SurjectionProperties
    <2> QED
      BY <1>2, <2>6
  <1> QED
    BY <1>1, <1>2, <1>3, <1>4

(* So there is a last one.                                                 *)
LEMMA LastPlace ==
  ASSUME NEW n \in Nat, NEW P \in SUBSET (1..n), P # {}
  PROVE  \E i \in P : \A k \in P : k <= i
  <1>1. IsFiniteSet(P) /\ Cardinality(P) \in Nat \ {0}
    <2>1. IsFiniteSet(P)
      BY Ranks
    <2> QED
      BY <2>1, FS_EmptySet, FS_CardinalityType
  <1>2. Cardinality(P) \in { Cardinality(Rank(P, i)) : i \in P }
    <2>1. Cardinality(P) \in 1..Cardinality(P)
      BY <1>1
    <2> QED
      BY <2>1, Ranks
  <1>3. PICK i \in P : Cardinality(P) = Cardinality(Rank(P, i))
    BY <1>2
  <1>4. Rank(P, i) \in SUBSET P
    BY DEF Rank
  <1>5. Rank(P, i) = P
    BY <1>1, <1>3, <1>4, FS_Subset
  <1> QED
    BY <1>5 DEF Rank

(* The first of them                                                       *)
LEMMA FirstPlace ==
  ASSUME NEW n \in Nat, NEW P \in SUBSET (1..n), P # {}
  PROVE  \E i \in P : \A k \in P : i <= k
  <1> DEFINE Q == { n + 1 - i : i \in P }
  <1>1. Q \in SUBSET (1..n) /\ Q # {}
    <2>1. \A i \in P : n + 1 - i \in 1..n
      OBVIOUS
    <2> QED
      BY <2>1
  <1> HIDE DEF Q
  <1>2. PICK q \in Q : \A k \in Q : k <= q
    BY <1>1, LastPlace
  <1>3. PICK i \in P : q = n + 1 - i
    BY DEF Q
  <1>4. ASSUME NEW k \in P PROVE i <= k
    <2>1. n + 1 - k <= q
      BY <1>2 DEF Q
    <2> QED
      BY <1>3, <2>1
  <1> QED
    BY <1>4

-----------------------------------------------------------------------------
(* States whose histories are well numbered *)

Good(s) ==
    /\ s \in States
    /\ IsFiniteSet(s.records)
    /\ \A x \in Entities : Numbered(s, x)

LEMMA FiniteHistory ==
  ASSUME NEW s \in States, IsFiniteSet(s.records), NEW x \in Entities
  PROVE  IsFiniteSet(RecordsOf(s, x)) /\ Cardinality(RecordsOf(s, x)) \in Nat
  <1>1. RecordsOf(s, x) \in SUBSET s.records
    BY DEF RecordsOf
  <1>2. IsFiniteSet(RecordsOf(s, x))
    BY <1>1, FS_Subset
  <1> QED
    BY <1>2, FS_CardinalityType

(* A history is well numbered as soon as its numbers are 1, 2, ..., v.      *)
LEMMA NumberedUpTo ==
  ASSUME NEW s \in States, IsFiniteSet(s.records), NEW x \in Entities, NEW v \in Nat,
         \A q, r \in RecordsOf(s, x) : q.version = r.version => q = r,
         { r.version : r \in RecordsOf(s, x) } = 1..v
  PROVE  Numbered(s, x)
  <1>1. IsFiniteSet(RecordsOf(s, x))
    BY FiniteHistory
  <1>2. Cardinality(RecordsOf(s, x)) = v
    BY <1>1, CountedByVersion
  <1> QED
    BY <1>2 DEF Numbered

(* The same records, with other lists and other edits                      *)
LEMMA SameRecords ==
  ASSUME NEW s, Good(s), NEW t \in States, t.records = s.records
  PROVE  Good(t)
  <1>1. IsFiniteSet(t.records)
    BY DEF Good
  <1>2. \A x \in Entities : Numbered(t, x)
    BY DEF Good, Numbered, RecordsOf
  <1> QED
    BY <1>1, <1>2 DEF Good

LEMMA BlankIsGood == Good(Blank)
  <1>1. Blank \in States
    BY DEF Blank, States, Lists
  <1>2. IsFiniteSet(Blank.records)
    BY FS_EmptySet DEF Blank
  <1>3. ASSUME NEW x \in Entities PROVE Numbered(Blank, x)
    <2>1. RecordsOf(Blank, x) = {}
      BY DEF Blank, RecordsOf
    <2>2. { r.version : r \in RecordsOf(Blank, x) } = 1..0
      BY <2>1
    <2> QED
      BY <1>1, <1>2, <2>1, <2>2, NumberedUpTo
  <1> QED
    BY <1>1, <1>2, <1>3 DEF Good

-----------------------------------------------------------------------------
(* What the helpers do with a good state *)

LEMMA StateFields ==
  ASSUME NEW s \in States
  PROVE  /\ s.lists \in Lists
         /\ s.records \in SUBSET Records
         /\ s.edited \in SUBSET Entities
         /\ \A kind \in Kinds : s.lists[kind] \in Seq(Artifacts)
  BY DEF States, Lists

LEMMA ListReplaced ==
  ASSUME NEW s \in States, NEW kind \in Kinds, NEW list \in Seq(Artifacts)
  PROVE  /\ WithList(s, kind, list) \in States
         /\ WithList(s, kind, list).lists[kind] = list
         /\ WithList(s, kind, list).records = s.records
         /\ WithList(s, kind, list).edited = s.edited
         /\ \A other \in Kinds \ {kind} : WithList(s, kind, list).lists[other] = s.lists[other]
  <1>1. WithList(s, kind, list) = [s EXCEPT !.lists = [s.lists EXCEPT ![kind] = list]]
    BY StateFields DEF WithList, States
  <1>2. /\ [s.lists EXCEPT ![kind] = list] \in Lists /\ [s.lists EXCEPT ![kind] = list][kind] = list
        /\ \A other \in Kinds \ {kind} : [s.lists EXCEPT ![kind] = list][other] = s.lists[other]
    BY StateFields DEF Lists
  <1>3. /\ WithList(s, kind, list) \in States
        /\ WithList(s, kind, list).records = s.records
        /\ WithList(s, kind, list).edited = s.edited
        /\ WithList(s, kind, list).lists = [s.lists EXCEPT ![kind] = list]
    BY <1>1, <1>2 DEF States
  <1> QED
    BY <1>2, <1>3

LEMMA WithListIsGood ==
  ASSUME NEW s, Good(s), NEW kind \in Kinds, NEW list \in Seq(Artifacts)
  PROVE  /\ Good(WithList(s, kind, list))
         /\ WithList(s, kind, list).lists[kind] = list
         /\ WithList(s, kind, list).records = s.records
  <1>1. s \in States
    BY DEF Good
  <1> QED
    BY <1>1, ListReplaced, SameRecords

LEMMA UnrecordedIsGood ==
  ASSUME NEW s, Good(s), NEW kind \in Kinds, NEW list \in Seq(Artifacts)
  PROVE  Good(Unrecorded(s, kind, list)) /\ Unrecorded(s, kind, list).lists[kind] = list
  <1> DEFINE w == WithList(s, kind, list)
  <1>1. Good(w) /\ w.lists[kind] = list
    BY WithListIsGood
  <1>2. w \in States
    BY <1>1 DEF Good
  <1>3. IdsOfKind(kind) \subseteq Entities
    BY DEF IdsOfKind, Entities
  <1>4. Unrecorded(s, kind, list) = [w EXCEPT !.edited = w.edited \cup IdsOfKind(kind)]
    BY DEF Unrecorded
  <1> HIDE DEF w
  <1>5. /\ Unrecorded(s, kind, list) \in States
        /\ Unrecorded(s, kind, list).records = w.records
        /\ Unrecorded(s, kind, list).lists = w.lists
    BY <1>2, <1>3, <1>4 DEF States
  <1> QED
    BY <1>1, <1>5, SameRecords

LEMMA PutType ==
  ASSUME NEW list \in Seq(Artifacts), NEW a \in Artifacts
  PROVE  Put(list, a) \in Seq(Artifacts)
  <1>1. list \in [1..Len(list) -> Artifacts] /\ Len(list) \in Nat /\ DOMAIN list = 1..Len(list)
    OBVIOUS
  <1>2. [list EXCEPT ![First(list, a.id)] = a] \in [1..Len(list) -> Artifacts]
    BY <1>1
  <1>3. [1..Len(list) -> Artifacts] \subseteq Seq(Artifacts)
    BY <1>1
  <1> QED
    BY <1>2, <1>3 DEF Put

LEMMA WithArtifactIsGood ==
  ASSUME NEW s, Good(s), NEW a \in Artifacts
  PROVE  Good(WithArtifact(s, a)) /\ WithArtifact(s, a).records = s.records
  <1>1. KindOf(a.id) \in Kinds
    BY DEF KindOf, Kinds
  <1>2. s.lists[KindOf(a.id)] \in Seq(Artifacts)
    BY <1>1, StateFields DEF Good
  <1>3. Put(s.lists[KindOf(a.id)], a) \in Seq(Artifacts)
    BY <1>2, PutType
  <1> QED
    BY <1>1, <1>3, WithListIsGood DEF WithArtifact

-----------------------------------------------------------------------------
(* Recording and undoing *)

(* The artifacts that are recorded under one id are numbered on from the   *)
(* records it has.                                                         *)
LEMMA RecordedIsGood ==
  ASSUME NEW s, Good(s), NEW list \in Seq(Artifacts), NEW ids
  PROVE  Good(Recorded(s, list, ids))
  <1> DEFINE t == Recorded(s, list, ids)
             new == NewRecords(s, list, ids)
             here(x) == { i \in Places(list, ids) : list[i].id = x }
             count(x) == Cardinality(RecordsOf(s, x))
             rank(x, i) == Cardinality(Rank(here(x), i))
             rec(x, i) == [entity |-> x, version |-> count(x) + rank(x, i), snapshot |-> list[i].says]
  <1>1. /\ s \in States /\ IsFiniteSet(s.records)
        /\ s.records \in SUBSET Records /\ s.edited \in SUBSET Entities
    BY StateFields DEF Good
  <1>2. /\ Len(list) \in Nat /\ DOMAIN list = 1..Len(list)
        /\ \A i \in DOMAIN list : list[i] \in Artifacts
    OBVIOUS
  <1>3. \A i \in DOMAIN list : list[i].id \in Entities /\ list[i].says \in Nat
    BY <1>2 DEF Artifacts
  <1>4. Places(list, ids) \in SUBSET (1..Len(list))
    BY <1>2 DEF Places
  <1>5. \A x : here(x) \in SUBSET (1..Len(list))
    BY <1>4
  <1>6. \A x \in Entities : count(x) \in Nat /\ IsFiniteSet(RecordsOf(s, x))
    BY <1>1, FiniteHistory
  <1>7. ASSUME NEW x, NEW i \in here(x)
        PROVE  UpTo(list, i) = Rank(here(x), i)
    <2>1. i \in 1..Len(list) /\ list[i].id = x /\ x \in ids
      BY <1>2 DEF Places
    <2>2. \A j : j \in 1..i <=> j \in 1..Len(list) /\ j <= i
      BY <1>2, <2>1
    <2> QED
      BY <1>2, <2>1, <2>2 DEF UpTo, Rank, Places
  <1>8. \A x \in Entities : \A i \in here(x) : rank(x, i) \in 1..Cardinality(here(x))
    BY <1>2, <1>5, Ranks
  <1>9. \A x : Cardinality(here(x)) \in Nat
    BY <1>2, <1>5, Ranks, FS_CardinalityType
  <1>10. ASSUME NEW x \in Entities
         PROVE  { r \in new : r.entity = x } = { rec(x, i) : i \in here(x) }
    <2>1. \A i \in here(x) : NextVersion(s, list, i) = count(x) + rank(x, i) /\ list[i].id = x
      BY <1>7 DEF NextVersion
    <2>2. \A i \in Places(list, ids) : list[i].id = x <=> i \in here(x)
      OBVIOUS
    <2> HIDE DEF here, count, rank
    <2>3. new = { [ entity   |-> list[i].id,
                    version  |-> NextVersion(s, list, i),
                    snapshot |-> list[i].says ] : i \in Places(list, ids) }
      BY DEF NewRecords
    <2>4. here(x) \subseteq Places(list, ids)
      BY DEF here
    <2> QED
      BY <2>1, <2>2, <2>3, <2>4
  <1>11. new \in SUBSET Records
    <2> SUFFICES ASSUME NEW i \in Places(list, ids)
                 PROVE  [ entity   |-> list[i].id,
                          version  |-> NextVersion(s, list, i),
                          snapshot |-> list[i].says ] \in Records
      BY DEF NewRecords
    <2>1. i \in DOMAIN list /\ list[i].id \in Entities /\ list[i].says \in Nat
      BY <1>3 DEF Places
    <2>2. i \in here(list[i].id)
      OBVIOUS
    <2>3. UpTo(list, i) = Rank(here(list[i].id), i)
      BY <1>7, <2>2
    <2>4. rank(list[i].id, i) \in Nat
      <3>1. rank(list[i].id, i) \in 1..Cardinality(here(list[i].id))
        BY <1>8, <2>1, <2>2
      <3> QED
        BY <1>9, <3>1
    <2>5. NextVersion(s, list, i) \in Nat
      BY <1>6, <2>1, <2>3, <2>4 DEF NextVersion
    <2> QED
      BY <2>1, <2>5 DEF Records
  <1>12. IsFiniteSet(new)
    <2> DEFINE f == [ i \in Places(list, ids) |->
                        [ entity   |-> list[i].id,
                          version  |-> NextVersion(s, list, i),
                          snapshot |-> list[i].says ] ]
    <2>1. IsFiniteSet(Places(list, ids))
      BY <1>2, <1>4, Ranks
    <2>2. f \in [Places(list, ids) -> new]
      BY DEF NewRecords
    <2>3. \A r \in new : \E i \in Places(list, ids) : f[i] = r
      BY DEF NewRecords
    <2> HIDE DEF f
    <2>4. f \in Surjection(Places(list, ids), new)
      BY <2>2, <2>3, Fun_IsSurj
    <2> QED
      BY <2>1, <2>4, FS_Surjection
  <1>13. /\ t \in States
         /\ t.records = s.records \cup new
    <2>1. t = [[s EXCEPT !.records = s.records \cup new]
                 EXCEPT !.edited = s.edited \ (ids \cap Ids(list))]
      BY <1>1 DEF Recorded, States
    <2> HIDE DEF t, new
    <2>2. s.records \cup new \in SUBSET Records
          /\ s.edited \ (ids \cap Ids(list)) \in SUBSET Entities
      BY <1>1, <1>11
    <2> QED
      BY <1>1, <2>1, <2>2 DEF States
  <1>14. IsFiniteSet(t.records)
    BY <1>1, <1>12, <1>13, FS_Union
  <1>15. ASSUME NEW x \in Entities
         PROVE  Numbered(t, x)
    <2>1. RecordsOf(t, x) = RecordsOf(s, x) \cup { rec(x, i) : i \in here(x) }
      <3>1. RecordsOf(t, x) = RecordsOf(s, x) \cup { r \in new : r.entity = x }
        BY <1>13 DEF RecordsOf
      <3> QED
        BY <1>10, <3>1
    <2> DEFINE c == count(x)
               p == Cardinality(here(x))
               old == RecordsOf(s, x)
               added == { rec(x, i) : i \in here(x) }
    <2>2. c \in Nat /\ p \in Nat
      BY <1>6, <1>9
    <2>3. /\ \A q, r \in old : q.version = r.version => q = r
          /\ { r.version : r \in old } = 1..c
      BY DEF Good, Numbered
    <2>4. { rank(x, i) : i \in here(x) } = 1..p
      BY <1>2, <1>5, Ranks
    <2>5. \A i, k \in here(x) : rank(x, i) = rank(x, k) => i = k
      <3>1. \A i, k \in here(x) : i < k => rank(x, i) < rank(x, k)
        BY <1>2, <1>5, Ranks
      <3>2. \A i \in here(x) : i \in Nat /\ rank(x, i) \in Nat
        <4>1. \A i \in here(x) : i \in Nat
          BY <1>5
        <4>2. \A i \in here(x) : rank(x, i) \in 1..p
          BY <2>4
        <4> HIDE DEF here, rank, p
        <4> QED
          BY <2>2, <4>1, <4>2
      <3> QED
        BY <3>1, <3>2
    <2>6. \A r \in old : r.version \in 1..c
      BY <2>3
    <2>7. \A i \in here(x) : rank(x, i) \in 1..p /\ rec(x, i).version = c + rank(x, i)
      BY <2>4
    <2>8. \A q, r \in old \cup added : q.version = r.version => q = r
      <3>1. ASSUME NEW q \in added, NEW r \in added, q.version = r.version
            PROVE  q = r
        <4>1. PICK i \in here(x), k \in here(x) : q = rec(x, i) /\ r = rec(x, k)
          OBVIOUS
        <4>2. rank(x, i) = rank(x, k)
          <5> HIDE DEF rec, rank, here, count
          <5> QED
            BY <2>2, <2>7, <3>1, <4>1
        <4> QED
          BY <2>5, <4>1, <4>2
      <3>2. \A q \in old, r \in added : q.version # r.version
        <4> HIDE DEF rec, rank, here, count
        <4> QED
          BY <2>2, <2>6, <2>7
      <3> HIDE DEF added, old
      <3> QED
        BY <2>3, <3>1, <3>2
    <2>9. { r.version : r \in old \cup added } = 1..(c + p)
      <3>1. ASSUME NEW r \in old \cup added PROVE r.version \in 1..(c + p)
        <4> HIDE DEF rec, rank, here, count
        <4> QED
          BY <2>2, <2>6, <2>7
      <3>2. ASSUME NEW v \in 1..(c + p) PROVE \E r \in old \cup added : r.version = v
        <4>1. CASE v \in 1..c
          BY <2>3, <4>1
        <4>2. CASE v \notin 1..c
          <5>1. v - c \in 1..p
            BY <2>2, <4>2
          <5>2. PICK i \in here(x) : rank(x, i) = v - c
            BY <2>4, <5>1
          <5>3. rec(x, i) \in added
            OBVIOUS
          <5>4. rec(x, i).version = c + rank(x, i)
            BY <2>7
          <5>5. c + rank(x, i) = v
            <6> HIDE DEF c, p, rank
            <6> QED
              BY <2>2, <5>2
          <5> HIDE DEF rec, added
          <5> QED
            BY <5>3, <5>4, <5>5
        <4> QED
          BY <4>1, <4>2
      <3> HIDE DEF added, old, c, p
      <3> QED
        BY <3>1, <3>2
    <2>10. c + p \in Nat
      BY <2>2
    <2> HIDE DEF c, p, t, added, old
    <2>11. RecordsOf(t, x) = old \cup added
      BY <2>1 DEF old, added
    <2> QED
      BY <1>13, <1>14, <2>8, <2>9, <2>10, <2>11, NumberedUpTo
  <1> QED
    BY <1>13, <1>14, <1>15 DEF Good

(* Undo keeps the records 1, 2, ..., v of the artifact, v the one returned *)
(* to, and those of the others.                                            *)
LEMMA UndoneIsGood ==
  ASSUME NEW s, Good(s), NEW r \in s.records
  PROVE  Good(UndoneTo(s, r))
  <1> DEFINE a == [id |-> r.entity, says |-> r.snapshot]
             w == WithArtifact(s, a)
             t == UndoneTo(s, r)
             kept == { q \in s.records : q.entity = r.entity => q.version <= r.version }
  <1>1. s \in States /\ IsFiniteSet(s.records) /\ s.records \in SUBSET Records
    BY StateFields DEF Good
  <1>2. r \in Records /\ r.entity \in Entities /\ r.version \in Nat /\ a \in Artifacts
    BY <1>1 DEF Records, Artifacts
  <1>3. w \in States /\ w.records = s.records /\ w.edited \in SUBSET Entities
    BY <1>2, WithArtifactIsGood, StateFields DEF Good
  <1>4. t \in States /\ t.records = kept
    <2>1. t = [[w EXCEPT !.records = kept] EXCEPT !.edited = w.edited \ {r.entity}]
      BY <1>3 DEF UndoneTo, States
    <2>2. kept \in SUBSET Records
      BY <1>1
    <2> HIDE DEF w, t, kept
    <2> QED
      BY <1>3, <2>1, <2>2 DEF States
  <1>5. IsFiniteSet(t.records)
    BY <1>1, <1>4, FS_Subset
  <1>6. ASSUME NEW x \in Entities
        PROVE  Numbered(t, x)
    <2>1. RecordsOf(t, x) = { q \in RecordsOf(s, x) : x = r.entity => q.version <= r.version }
      BY <1>4 DEF RecordsOf
    <2>2. /\ \A q, o \in RecordsOf(s, x) : q.version = o.version => q = o
          /\ { q.version : q \in RecordsOf(s, x) } = 1..Cardinality(RecordsOf(s, x))
      BY DEF Good, Numbered
    <2>3. CASE x = r.entity
      <3>1. r \in RecordsOf(s, x)
        BY <2>3 DEF RecordsOf
      <3>2. r.version \in 1..Cardinality(RecordsOf(s, x))
        BY <2>2, <3>1
      <3>3. Cardinality(RecordsOf(s, x)) \in Nat
        BY <1>1, FiniteHistory
      <3>4. { q.version : q \in RecordsOf(t, x) } = 1..r.version
        <4> DEFINE old == RecordsOf(s, x)
                   n == Cardinality(old)
                   v == r.version
        <4>1. \A k \in 1..v : k \in 1..n
          BY <1>2, <3>2, <3>3
        <4>2. \A k : k \in 1..v <=> k \in 1..n /\ k <= v
          BY <1>2, <3>2, <3>3
        <4>3. RecordsOf(t, x) = { q \in old : q.version <= v }
          BY <2>1, <2>3
        <4>4. { q.version : q \in old } = 1..n
          BY <2>2
        <4> HIDE DEF old, n, v, t
        <4> QED
          BY <4>2, <4>3, <4>4 DEF v
      <3> QED
        BY <1>2, <1>4, <1>5, <2>1, <2>2, <3>4, NumberedUpTo
    <2>4. CASE x # r.entity
      <3>1. RecordsOf(t, x) = RecordsOf(s, x)
        BY <2>1, <2>4
      <3> QED
        BY <2>2, <3>1 DEF Numbered
    <2> QED
      BY <2>3, <2>4
  <1> QED
    BY <1>4, <1>5, <1>6 DEF Good

-----------------------------------------------------------------------------
(* The lists that a request makes *)

LEMMA MadeType ==
  ASSUME NEW ids \in {Epics, Stories}, NEW n \in Nat
  PROVE  Made(ids, n) \subseteq Seq(Artifacts)
  <1> SUFFICES ASSUME NEW list \in Made(ids, n) PROVE list \in Seq(Artifacts)
    OBVIOUS
  <1>1. Cardinality(ids) \in Nat
    BY EntitiesAssumption, FS_CardinalityType
  <1>2. PICK k \in 0..Cardinality(ids) : list \in [1..k -> [id : ids, says : {n}]]
    BY DEF Made
  <1>3. k \in Nat
    BY <1>1, <1>2
  <1>4. [id : ids, says : {n}] \subseteq Artifacts
    BY DEF Artifacts, Entities
  <1>5. list \in [1..k -> Artifacts]
    BY <1>2, <1>4
  <1> QED
    BY <1>3, <1>5

LEMMA LastIsReplaced ==
  ASSUME NEW list \in Seq(Artifacts), NEW replaced \in SUBSET DOMAIN list, NEW i \in replaced
  PROVE  LastOfFeature(list, replaced, i) \in replaced
  <1> DEFINE P == { j \in replaced : FeatureOf[list[j].id] = FeatureOf[list[i].id] }
  <1>1. Len(list) \in Nat /\ P \in SUBSET (1..Len(list)) /\ i \in P
    OBVIOUS
  <1>2. PICK j \in P : \A k \in P : k <= j
    BY <1>1, LastPlace
  <1> QED
    BY <1>2 DEF LastOfFeature

LEMMA RegeneratedType ==
  ASSUME NEW c \in Clients, number[c] \in Nat, NEW list \in Seq(Artifacts),
         NEW replaced \in SUBSET DOMAIN list, NEW given
  PROVE  Regenerated(c, list, replaced, given) \in Seq(Artifacts)
  <1>1. /\ Len(list) \in Nat /\ DOMAIN list = 1..Len(list)
        /\ \A i \in DOMAIN list : list[i] \in Artifacts
    OBVIOUS
  <1>2. \A i \in replaced : LastOfFeature(list, replaced, i) \in DOMAIN list
    BY LastIsReplaced
  <1>3. ASSUME NEW i \in DOMAIN list
        PROVE  Regenerated(c, list, replaced, given)[i] \in Artifacts
    <2>1. CASE i \in replaced
      <3>1. list[LastOfFeature(list, replaced, i)].id \in Entities
        BY <1>1, <1>2, <2>1 DEF Artifacts
      <3> QED
        BY <2>1, <3>1 DEF Regenerated, Artifacts
    <2>2. CASE i \notin replaced /\ i \in given
      <3>1. [list[i] EXCEPT !.says = number[c]] \in Artifacts
        BY <1>1 DEF Artifacts
      <3> QED
        BY <2>2, <3>1 DEF Regenerated
    <2>3. CASE i \notin replaced /\ i \notin given
      BY <1>1, <2>3 DEF Regenerated
    <2> QED
      BY <2>1, <2>2, <2>3
  <1>4. DOMAIN Regenerated(c, list, replaced, given) = 1..Len(list)
    BY <1>1 DEF Regenerated
  <1>5. Regenerated(c, list, replaced, given) \in [1..Len(list) -> Artifacts]
    BY <1>1, <1>3, <1>4 DEF Regenerated
  <1> QED
    BY <1>1, <1>5

-----------------------------------------------------------------------------
(* States whose lists match their records as well *)

(* The lists of one kind                                                   *)
Filed(kind) == { list \in Seq(Artifacts) : Ids(list) \subseteq IdsOfKind(kind) }

MatchedAt(s, list, x) ==
    \A r \in RecordsOf(s, x) :
        r.version = Cardinality(RecordsOf(s, x)) =>
            \E i \in DOMAIN list : list[i] = [id |-> x, says |-> r.snapshot]

Sound(s) ==
    /\ Good(s)
    /\ \A kind \in Kinds : s.lists[kind] \in Filed(kind)
    /\ \A kind \in Kinds : \A x \in Ids(s.lists[kind]) \ s.edited : MatchedAt(s, s.lists[kind], x)

LEMMA KindsApart ==
  /\ \A kind \in Kinds : IdsOfKind(kind) \subseteq Entities
  /\ \A kind, other \in Kinds : kind # other => IdsOfKind(kind) \cap IdsOfKind(other) = {}
  /\ \A x \in Entities : KindOf(x) \in Kinds /\ x \in IdsOfKind(KindOf(x))
  BY EntitiesAssumption DEF Kinds, IdsOfKind, KindOf, Entities

(* A change of the list of one kind, and of what is known of its artifacts *)
LEMMA SoundAfter ==
  ASSUME NEW s, Sound(s), NEW t, Good(t), NEW kind \in Kinds,
         t.lists[kind] \in Filed(kind),
         \A other \in Kinds \ {kind} : t.lists[other] = s.lists[other],
         \A x \in Entities \ IdsOfKind(kind) :
            RecordsOf(t, x) = RecordsOf(s, x) /\ (x \in s.edited => x \in t.edited),
         \A x \in Ids(t.lists[kind]) \ t.edited : MatchedAt(t, t.lists[kind], x)
  PROVE  Sound(t)
  <1>1. ASSUME NEW other \in Kinds, other # kind, NEW x \in Ids(t.lists[other]) \ t.edited
        PROVE  MatchedAt(t, t.lists[other], x)
    <2>1. x \in IdsOfKind(other)
      BY <1>1 DEF Sound, Filed
    <2>2. x \in Entities \ IdsOfKind(kind)
      BY <1>1, <2>1, KindsApart
    <2>3. RecordsOf(t, x) = RecordsOf(s, x) /\ x \notin s.edited /\ t.lists[other] = s.lists[other]
      BY <1>1, <2>2
    <2>4. MatchedAt(s, s.lists[other], x)
      BY <1>1, <2>3 DEF Sound
    <2> QED
      BY <2>3, <2>4 DEF MatchedAt
  <1>2. \A other \in Kinds : t.lists[other] \in Filed(other)
    BY DEF Sound
  <1> QED
    BY <1>1, <1>2 DEF Sound

LEMMA BlankIsSound == Sound(Blank)
  <1>1. \A kind \in Kinds : Blank.lists[kind] = << >>
    BY DEF Blank
  <1>2. << >> \in Seq(Artifacts) /\ Ids(<< >>) = {}
    BY DEF Ids
  <1> QED
    BY <1>1, <1>2, BlankIsGood DEF Sound, Filed

LEMMA UnrecordedIsSound ==
  ASSUME NEW s, Sound(s), NEW kind \in Kinds, NEW list \in Filed(kind)
  PROVE  Sound(Unrecorded(s, kind, list))
  <1> DEFINE t == Unrecorded(s, kind, list)
             w == WithList(s, kind, list)
  <1>1. Good(s) /\ s \in States /\ list \in Seq(Artifacts)
    BY DEF Sound, Good, Filed
  <1>2. Good(t) /\ t.lists[kind] = list
    BY <1>1, UnrecordedIsGood
  <1>3. /\ w.records = s.records /\ w.edited = s.edited /\ w \in States
        /\ \A other \in Kinds \ {kind} : w.lists[other] = s.lists[other]
    BY <1>1, ListReplaced
  <1>4. /\ t.records = s.records /\ t.edited = s.edited \cup IdsOfKind(kind)
        /\ t.lists = w.lists
    <2>1. t = [w EXCEPT !.edited = w.edited \cup IdsOfKind(kind)]
      BY DEF Unrecorded
    <2> HIDE DEF w, t
    <2> QED
      BY <1>3, <2>1 DEF States
  <1> HIDE DEF t, w
  <1>5. \A x \in Entities : RecordsOf(t, x) = RecordsOf(s, x)
    BY <1>4 DEF RecordsOf
  <1>6. Ids(t.lists[kind]) \ t.edited = {}
    BY <1>2, <1>4 DEF Filed
  <1>7. Sound(t)
    BY <1>2, <1>3, <1>4, <1>5, <1>6, SoundAfter
  <1> QED
    BY <1>7 DEF t

(* What Recorded leaves alone, and the newest record it leaves             *)
LEMMA RecordedParts ==
  ASSUME NEW s, Good(s), NEW list \in Seq(Artifacts), NEW ids
  PROVE  /\ Recorded(s, list, ids).lists = s.lists
         /\ Recorded(s, list, ids).edited = s.edited \ (ids \cap Ids(list))
         /\ Recorded(s, list, ids).records = s.records \cup NewRecords(s, list, ids)
  BY DEF Good, States, Recorded

LEMMA RecordedElsewhere ==
  ASSUME NEW s, Good(s), NEW list \in Seq(Artifacts), NEW ids,
         NEW x, x \notin ids \/ x \notin Ids(list)
  PROVE  RecordsOf(Recorded(s, list, ids), x) = RecordsOf(s, x)
  <1>1. \A r \in NewRecords(s, list, ids) : r.entity \in ids \cap Ids(list)
    BY DEF NewRecords, Places, Ids
  <1> QED
    BY <1>1, RecordedParts DEF RecordsOf

LEMMA RecordedNewest ==
  ASSUME NEW s, Good(s), NEW list \in Seq(Artifacts), NEW ids,
         NEW x \in Entities, x \in ids, x \in Ids(list)
  PROVE  MatchedAt(Recorded(s, list, ids), list, x)
  <1> DEFINE t == Recorded(s, list, ids)
             c == Cardinality(RecordsOf(s, x))
  <1>1. Good(t)
    BY RecordedIsGood
  <1>2. c \in Nat /\ Cardinality(RecordsOf(t, x)) \in Nat
    BY <1>1, FiniteHistory DEF Good
  <1>3. t.records = s.records \cup NewRecords(s, list, ids)
    BY RecordedParts
  <1> SUFFICES ASSUME NEW r \in RecordsOf(t, x), r.version = Cardinality(RecordsOf(t, x))
               PROVE  \E i \in DOMAIN list : list[i] = [id |-> x, says |-> r.snapshot]
    BY DEF MatchedAt
  <1>4. CASE r \in NewRecords(s, list, ids)
    <2>1. PICK i \in Places(list, ids) : r.entity = list[i].id /\ r.snapshot = list[i].says
      BY <1>4 DEF NewRecords
    <2>2. i \in DOMAIN list /\ list[i] \in Artifacts /\ list[i].id = x
      BY <2>1 DEF Places, RecordsOf
    <2> QED
      BY <2>1, <2>2 DEF Artifacts
  <1>5. CASE r \in s.records
    <2>1. r.version \in 1..c
      BY <1>5 DEF RecordsOf, Good, Numbered
    <2>2. PICK i \in DOMAIN list : list[i].id = x
      BY DEF Ids
    <2> DEFINE q == [entity |-> x, version |-> NextVersion(s, list, i), snapshot |-> list[i].says]
    <2>3. q \in RecordsOf(t, x)
      BY <1>3, <2>2 DEF NewRecords, Places, RecordsOf
    <2>4. NextVersion(s, list, i) > c
      <3>1. i \in 1..Len(list) /\ Len(list) \in Nat
        OBVIOUS
      <3>2. UpTo(list, i) \in SUBSET (1..i) /\ i \in UpTo(list, i) /\ IsFiniteSet(1..i)
        BY <3>1, FS_Interval DEF UpTo
      <3>3. IsFiniteSet(UpTo(list, i)) /\ UpTo(list, i) # {}
        BY <3>2, FS_Subset
      <3>4. Cardinality(UpTo(list, i)) \in Nat \ {0}
        BY <3>3, FS_EmptySet, FS_CardinalityType
      <3>5. NextVersion(s, list, i) = c + Cardinality(UpTo(list, i))
        BY <2>2 DEF NextVersion
      <3> HIDE DEF c
      <3> QED
        BY <1>2, <3>4, <3>5
    <2>5. q.version \in 1..Cardinality(RecordsOf(t, x))
      BY <1>1, <2>3 DEF Good, Numbered
    <2> HIDE DEF c, t
    <2> QED
      BY <1>2, <2>1, <2>4, <2>5
  <1> QED
    BY <1>3, <1>4, <1>5 DEF RecordsOf

(* Artifacts that are in the new list of a state are recorded; the others  *)
(* of the list have not changed since their newest record.                 *)
LEMMA RecordedIsSound ==
  ASSUME NEW s, Sound(s), NEW kind \in Kinds, NEW w, Good(w),
         w.records = s.records, w.edited = s.edited, w.lists[kind] \in Filed(kind),
         \A other \in Kinds \ {kind} : w.lists[other] = s.lists[other],
         NEW list \in Filed(kind), NEW ids,
         \A i \in DOMAIN list : list[i].id \in Ids(w.lists[kind]) =>
            \E j \in DOMAIN w.lists[kind] : w.lists[kind][j] = list[i],
         \A x \in Ids(w.lists[kind]) \ s.edited :
            x \in ids \cap Ids(list) \/ MatchedAt(s, w.lists[kind], x)
  PROVE  Sound(Recorded(w, list, ids))
  <1> DEFINE t == Recorded(w, list, ids)
  <1>1. list \in Seq(Artifacts)
    BY DEF Filed
  <1>2. Good(t) /\ t.lists = w.lists /\ t.edited = w.edited \ (ids \cap Ids(list))
    BY <1>1, RecordedIsGood, RecordedParts
  <1>3. ASSUME NEW x, x \notin ids \cap Ids(list)
        PROVE  RecordsOf(t, x) = RecordsOf(s, x)
    <2>1. RecordsOf(t, x) = RecordsOf(w, x)
      BY <1>1, <1>3, RecordedElsewhere
    <2> QED
      BY <2>1 DEF RecordsOf
  <1>4. ASSUME NEW x \in Ids(w.lists[kind]), x \in ids \cap Ids(list)
        PROVE  MatchedAt(t, w.lists[kind], x)
    <2>1. x \in Entities
      BY KindsApart DEF Filed
    <2>2. MatchedAt(t, list, x)
      BY <1>1, <1>4, <2>1, RecordedNewest
    <2> HIDE DEF t
    <2>3. ASSUME NEW r \in RecordsOf(t, x), r.version = Cardinality(RecordsOf(t, x))
          PROVE  \E j \in DOMAIN w.lists[kind] : w.lists[kind][j] = [id |-> x, says |-> r.snapshot]
      <3>1. PICK i \in DOMAIN list : list[i] = [id |-> x, says |-> r.snapshot]
        BY <2>2, <2>3 DEF MatchedAt
      <3>2. list[i].id \in Ids(w.lists[kind])
        BY <3>1
      <3> QED
        BY <3>1, <3>2
    <2> QED
      BY <2>3 DEF MatchedAt
  <1> HIDE DEF t
  <1>5. ASSUME NEW x \in Ids(w.lists[kind]) \ t.edited
        PROVE  MatchedAt(t, w.lists[kind], x)
    <2>1. CASE x \in ids \cap Ids(list)
      BY <1>4, <2>1
    <2>2. CASE x \notin ids \cap Ids(list)
      <3>1. x \notin s.edited
        BY <1>2, <1>5, <2>2
      <3>2. MatchedAt(s, w.lists[kind], x)
        BY <1>5, <2>2, <3>1
      <3>3. RecordsOf(t, x) = RecordsOf(s, x)
        BY <1>3, <2>2
      <3> QED
        BY <3>2, <3>3 DEF MatchedAt
    <2> QED
      BY <2>1, <2>2
  <1>6. \A x \in Entities \ IdsOfKind(kind) :
          RecordsOf(t, x) = RecordsOf(s, x) /\ (x \in s.edited => x \in t.edited)
    BY <1>2, <1>3 DEF Filed
  <1>7. t.lists[kind] \in Filed(kind) /\ \A other \in Kinds \ {kind} : t.lists[other] = s.lists[other]
    BY <1>2
  <1>8. Sound(t)
    BY <1>2, <1>5, <1>6, <1>7, SoundAfter
  <1> QED
    BY <1>8 DEF t

(* What Put changes                                                        *)
LEMMA PutParts ==
  ASSUME NEW list \in Seq(Artifacts), NEW a \in Artifacts
  PROVE  /\ DOMAIN Put(list, a) = DOMAIN list
         /\ \A i \in DOMAIN list : Put(list, a)[i] \in {list[i], a}
         /\ \A i \in DOMAIN list : list[i].id # a.id => Put(list, a)[i] = list[i]
         /\ a.id \in Ids(list) => \E i \in DOMAIN list : Put(list, a)[i] = a
         /\ Ids(Put(list, a)) = Ids(list)
  <1> DEFINE P == { i \in DOMAIN list : list[i].id = a.id }
             f == First(list, a.id)
  <1>1. Len(list) \in Nat /\ DOMAIN list = 1..Len(list)
    OBVIOUS
  <1>2. CASE a.id \notin Ids(list)
    BY <1>2 DEF Put
  <1>3. CASE a.id \in Ids(list)
    <2>1. P \in SUBSET (1..Len(list)) /\ P # {}
      BY <1>1, <1>3 DEF Ids
    <2>2. PICK i \in P : \A k \in P : i <= k
      BY <1>1, <2>1, FirstPlace
    <2>3. f \in DOMAIN list /\ list[f].id = a.id
      BY <2>2 DEF First
    <2>4. Put(list, a) = [list EXCEPT ![f] = a]
      BY <1>3 DEF Put
    <2> HIDE DEF f
    <2>5. /\ DOMAIN Put(list, a) = DOMAIN list
          /\ Put(list, a)[f] = a
          /\ \A j \in DOMAIN list : j # f => Put(list, a)[j] = list[j]
      BY <2>3, <2>4
    <2>6. \A j \in DOMAIN list : Put(list, a)[j].id = list[j].id
      BY <2>3, <2>5
    <2>7. Ids(Put(list, a)) = Ids(list)
      BY <2>5, <2>6 DEF Ids
    <2> QED
      BY <2>3, <2>5, <2>7
  <1> QED
    BY <1>2, <1>3

(* An artifact that is not the one put in place is matched as before.      *)
LEMMA PutKeepsMatch ==
  ASSUME NEW s, NEW list \in Seq(Artifacts), NEW a \in Artifacts,
         NEW x, x # a.id, MatchedAt(s, list, x)
  PROVE  MatchedAt(s, Put(list, a), x)
  <1> SUFFICES ASSUME NEW r \in RecordsOf(s, x), r.version = Cardinality(RecordsOf(s, x))
               PROVE  \E i \in DOMAIN Put(list, a) : Put(list, a)[i] = [id |-> x, says |-> r.snapshot]
    BY DEF MatchedAt
  <1>1. PICK i \in DOMAIN list : list[i] = [id |-> x, says |-> r.snapshot]
    BY DEF MatchedAt
  <1>2. i \in DOMAIN Put(list, a) /\ Put(list, a)[i] = list[i]
    BY <1>1, PutParts
  <1> QED
    BY <1>1, <1>2

LEMMA ArtifactReplaced ==
  ASSUME NEW s, Sound(s), NEW a \in Artifacts, NEW kind, kind = KindOf(a.id)
  PROVE  /\ kind \in Kinds /\ a.id \in IdsOfKind(kind)
         /\ s.lists[kind] \in Seq(Artifacts)
         /\ Good(WithArtifact(s, a))
         /\ WithArtifact(s, a).records = s.records
         /\ WithArtifact(s, a).edited = s.edited
         /\ WithArtifact(s, a).lists[kind] = Put(s.lists[kind], a)
         /\ Put(s.lists[kind], a) \in Filed(kind)
         /\ \A other \in Kinds \ {kind} : WithArtifact(s, a).lists[other] = s.lists[other]
  <1>1. a.id \in Entities
    BY DEF Artifacts
  <1>2. kind \in Kinds /\ a.id \in IdsOfKind(kind)
    BY <1>1, KindsApart
  <1>3. s \in States /\ s.lists[kind] \in Filed(kind) /\ s.lists[kind] \in Seq(Artifacts)
    BY <1>2 DEF Sound, Good, Filed
  <1>4. Put(s.lists[kind], a) \in Seq(Artifacts) /\ Ids(Put(s.lists[kind], a)) = Ids(s.lists[kind])
    BY <1>3, PutType, PutParts
  <1>5. Put(s.lists[kind], a) \in Filed(kind)
    BY <1>3, <1>4 DEF Filed
  <1>6. WithArtifact(s, a) = WithList(s, kind, Put(s.lists[kind], a))
    BY DEF WithArtifact
  <1> QED
    BY <1>2, <1>3, <1>4, <1>5, <1>6, ListReplaced, WithArtifactIsGood DEF Sound

(* One artifact, written and recorded                                      *)
LEMMA WrittenIsSound ==
  ASSUME NEW s, Sound(s), NEW a \in Artifacts
  PROVE  Sound(Recorded(WithArtifact(s, a), <<a>>, {a.id}))
  <1> DEFINE w == WithArtifact(s, a)
  <1>1. PICK kind : kind = KindOf(a.id)
    OBVIOUS
  <1>2. /\ kind \in Kinds /\ a.id \in IdsOfKind(kind)
        /\ s.lists[kind] \in Seq(Artifacts)
        /\ Good(w) /\ w.records = s.records /\ w.edited = s.edited
        /\ w.lists[kind] = Put(s.lists[kind], a)
        /\ w.lists[kind] \in Filed(kind)
        /\ \A other \in Kinds \ {kind} : w.lists[other] = s.lists[other]
    BY <1>1, ArtifactReplaced
  <1> HIDE DEF w
  <1>3. <<a>> \in Filed(kind) /\ Ids(<<a>>) = {a.id}
    <2>1. <<a>> \in Seq(Artifacts) /\ Ids(<<a>>) = {a.id}
      BY DEF Ids
    <2> QED
      BY <1>2, <2>1 DEF Filed
  <1>4. ASSUME NEW i \in DOMAIN <<a>>, <<a>>[i].id \in Ids(w.lists[kind])
        PROVE  \E j \in DOMAIN w.lists[kind] : w.lists[kind][j] = <<a>>[i]
    <2>1. <<a>>[i] = a
      OBVIOUS
    <2>2. a.id \in Ids(s.lists[kind])
      BY <1>2, <1>4, <2>1, PutParts
    <2> QED
      BY <1>2, <2>1, <2>2, PutParts
  <1>5. ASSUME NEW x \in Ids(w.lists[kind]) \ s.edited
        PROVE  x \in {a.id} \cap Ids(<<a>>) \/ MatchedAt(s, w.lists[kind], x)
    <2>1. CASE x = a.id
      BY <1>3, <2>1
    <2>2. CASE x # a.id
      <3>1. x \in Ids(s.lists[kind]) \ s.edited
        BY <1>2, <1>5, PutParts
      <3>2. MatchedAt(s, s.lists[kind], x)
        BY <1>2, <3>1 DEF Sound
      <3> QED
        BY <1>2, <2>2, <3>2, PutKeepsMatch
    <2> QED
      BY <2>1, <2>2
  <1> QED
    BY <1>2, <1>3, <1>4, <1>5, RecordedIsSound DEF w

(* The record that undo returns to is the newest of its artifact then.     *)
LEMMA UndoneIsSound ==
  ASSUME NEW s, Sound(s), NEW r \in s.records
  PROVE  Sound(UndoneTo(s, r))
  <1> DEFINE a == [id |-> r.entity, says |-> r.snapshot]
             w == WithArtifact(s, a)
             t == UndoneTo(s, r)
             kept == { q \in s.records : q.entity = r.entity => q.version <= r.version }
  <1>1. Good(s) /\ s \in States /\ s.records \in SUBSET Records
    BY StateFields DEF Sound, Good
  <1>2. r \in Records /\ r.entity \in Entities /\ r.version \in Nat /\ a \in Artifacts
    BY <1>1 DEF Records, Artifacts
  <1>3. PICK kind : kind = KindOf(a.id)
    OBVIOUS
  <1>4. /\ kind \in Kinds /\ a.id \in IdsOfKind(kind)
        /\ s.lists[kind] \in Seq(Artifacts)
        /\ Good(w) /\ w.records = s.records /\ w.edited = s.edited
        /\ w.lists[kind] = Put(s.lists[kind], a)
        /\ w.lists[kind] \in Filed(kind)
        /\ \A other \in Kinds \ {kind} : w.lists[other] = s.lists[other]
    BY <1>2, <1>3, ArtifactReplaced
  <1>5. Good(t)
    BY <1>1, UndoneIsGood
  <1>6. t.lists = w.lists /\ t.records = kept /\ t.edited = s.edited \ {r.entity}
    <2>1. w \in States
      BY <1>4 DEF Good
    <2>2. t = [w EXCEPT !.records = kept, !.edited = w.edited \ {r.entity}]
      BY <1>4, <2>1 DEF UndoneTo, States
    <2> HIDE DEF w, t, kept
    <2> QED
      BY <1>4, <2>1, <2>2 DEF States
  <1>7. \A x : x # r.entity => RecordsOf(t, x) = RecordsOf(s, x)
    BY <1>6 DEF RecordsOf
  <1>8. a.id = r.entity /\ a = [id |-> r.entity, says |-> r.snapshot]
    OBVIOUS
  <1>9. r \in RecordsOf(t, r.entity) /\ \A q \in RecordsOf(t, r.entity) : q.version <= r.version
    BY <1>2, <1>6 DEF RecordsOf
  <1> HIDE DEF w, t, kept, a
  <1>10. ASSUME NEW x \in Ids(t.lists[kind]) \ t.edited
         PROVE  MatchedAt(t, t.lists[kind], x)
    <2>1. CASE x = r.entity
      <3>1. a.id \in Ids(s.lists[kind])
        BY <1>2, <1>4, <1>6, <1>8, <1>10, <2>1, PutParts
      <3>2. PICK i \in DOMAIN s.lists[kind] : Put(s.lists[kind], a)[i] = a
        BY <1>2, <1>4, <3>1, PutParts
      <3>3. i \in DOMAIN t.lists[kind] /\ t.lists[kind][i] = [id |-> x, says |-> r.snapshot]
        BY <1>2, <1>4, <1>6, <1>8, <2>1, <3>2, PutParts
      <3>4. ASSUME NEW q \in RecordsOf(t, x), q.version = Cardinality(RecordsOf(t, x))
            PROVE  q = r
        <4>1. /\ \A o, p \in RecordsOf(t, x) : o.version = p.version => o = p
              /\ { p.version : p \in RecordsOf(t, x) } = 1..Cardinality(RecordsOf(t, x))
          BY <1>2, <1>5, <2>1 DEF Good, Numbered
        <4>2. r.version \in 1..Cardinality(RecordsOf(t, x))
          BY <1>9, <2>1, <4>1
        <4>3. q.version <= r.version
          BY <1>9, <2>1
        <4>4. Cardinality(RecordsOf(t, x)) \in Nat
          BY <1>2, <1>5, <2>1, FiniteHistory DEF Good
        <4>5. q.version = r.version
          BY <3>4, <4>2, <4>3, <4>4
        <4> QED
          BY <1>9, <2>1, <4>1, <4>5
      <3> QED
        BY <3>3, <3>4 DEF MatchedAt
    <2>2. CASE x # r.entity
      <3>1. x \in Ids(s.lists[kind]) \ s.edited
        BY <1>2, <1>4, <1>6, <1>10, <2>2, PutParts
      <3>2. MatchedAt(s, s.lists[kind], x)
        BY <1>4, <3>1 DEF Sound
      <3>3. MatchedAt(s, t.lists[kind], x)
        BY <1>2, <1>4, <1>6, <1>8, <2>2, <3>2, PutKeepsMatch
      <3> QED
        BY <1>7, <2>2, <3>3 DEF MatchedAt
    <2> QED
      BY <2>1, <2>2
  <1>11. \A x \in Entities \ IdsOfKind(kind) :
           RecordsOf(t, x) = RecordsOf(s, x) /\ (x \in s.edited => x \in t.edited)
    BY <1>4, <1>6, <1>7, <1>8
  <1>12. Sound(t)
    BY <1>4, <1>5, <1>6, <1>10, <1>11, SoundAfter
  <1> QED
    BY <1>12 DEF t

(* A list that takes the place of another and is recorded whole            *)
LEMMA ReplacedIsSound ==
  ASSUME NEW s, Sound(s), NEW kind \in Kinds, NEW list \in Filed(kind)
  PROVE  Sound(Recorded(WithList(s, kind, list), list, IdsOfKind(kind)))
  <1> DEFINE w == WithList(s, kind, list)
  <1>1. Good(s) /\ s \in States /\ list \in Seq(Artifacts) /\ Ids(list) \subseteq IdsOfKind(kind)
    BY DEF Sound, Good, Filed
  <1>2. /\ Good(w) /\ w.records = s.records /\ w.edited = s.edited /\ w.lists[kind] = list
        /\ \A other \in Kinds \ {kind} : w.lists[other] = s.lists[other]
    BY <1>1, ListReplaced, WithListIsGood
  <1> HIDE DEF w
  <1> QED
    BY <1>1, <1>2, RecordedIsSound DEF w

(* A list that is recorded whole where it is                               *)
LEMMA RecordedInPlace ==
  ASSUME NEW s, Sound(s)
  PROVE  Sound(Recorded(s, s.lists["stories"], Stories))
  <1>1. "stories" \in Kinds /\ IdsOfKind("stories") = Stories
    BY DEF Kinds, IdsOfKind
  <1>2. Good(s) /\ s.lists["stories"] \in Filed("stories")
    BY <1>1 DEF Sound
  <1>3. Ids(s.lists["stories"]) \subseteq Stories
    BY <1>1, <1>2 DEF Filed
  <1> QED
    BY <1>1, <1>2, <1>3, RecordedIsSound

LEMMA MadeFiled ==
  ASSUME NEW n \in Nat
  PROVE  /\ Made(Epics, n) \subseteq Filed("epics")
         /\ Made(Stories, n) \subseteq Filed("stories")
  <1>1. ASSUME NEW ids \in {Epics, Stories}, NEW list \in Made(ids, n)
        PROVE  list \in Seq(Artifacts) /\ Ids(list) \subseteq ids
    <2>1. list \in Seq(Artifacts)
      BY MadeType
    <2>2. PICK k \in 0..Cardinality(ids) : list \in [1..k -> [id : ids, says : {n}]]
      BY DEF Made
    <2>3. \A i \in DOMAIN list : list[i].id \in ids
      BY <2>2
    <2> QED
      BY <2>1, <2>3 DEF Ids
  <1> QED
    BY <1>1 DEF Filed, IdsOfKind

(* A retry changes the stories that have failed, and no others.            *)
LEMMA RegeneratedParts ==
  ASSUME NEW c \in Clients, number[c] \in Nat, NEW list \in Filed("stories"),
         NEW replaced \in SUBSET DOMAIN list, NEW given \in SUBSET DOMAIN list
  PROVE  /\ Regenerated(c, list, replaced, given) \in Filed("stories")
         /\ DOMAIN Regenerated(c, list, replaced, given) = DOMAIN list
         /\ Ids(Regenerated(c, list, replaced, given)) \subseteq Ids(list)
         /\ \A i \in DOMAIN list \ (replaced \cup given) :
               Regenerated(c, list, replaced, given)[i] = list[i]
  <1> DEFINE new == Regenerated(c, list, replaced, given)
  <1>1. list \in Seq(Artifacts) /\ Ids(list) \subseteq IdsOfKind("stories")
    BY DEF Filed
  <1>2. new \in Seq(Artifacts) /\ DOMAIN new = DOMAIN list
    BY <1>1, RegeneratedType DEF Regenerated
  <1>3. \A i \in DOMAIN list \ (replaced \cup given) : new[i] = list[i]
    BY DEF Regenerated
  <1>4. ASSUME NEW i \in DOMAIN list PROVE \E j \in DOMAIN list : new[i].id = list[j].id
    <2>1. CASE i \in replaced
      <3>1. LastOfFeature(list, replaced, i) \in DOMAIN list
        BY <1>1, <2>1, LastIsReplaced
      <3>2. new[i].id = list[LastOfFeature(list, replaced, i)].id
        BY <2>1 DEF Regenerated
      <3> QED
        BY <3>1, <3>2
    <2>2. CASE i \notin replaced
      <3>1. new[i].id = list[i].id
        BY <1>1, <2>2 DEF Regenerated, Artifacts
      <3> QED
        BY <3>1
    <2> QED
      BY <2>1, <2>2
  <1> HIDE DEF new
  <1>5. Ids(new) \subseteq Ids(list)
    <2> SUFFICES ASSUME NEW x \in Ids(new) PROVE x \in Ids(list)
      OBVIOUS
    <2>1. PICK i \in DOMAIN list : x = new[i].id
      BY <1>2 DEF Ids
    <2>2. PICK j \in DOMAIN list : new[i].id = list[j].id
      BY <1>4
    <2> QED
      BY <2>1, <2>2 DEF Ids
  <1>6. new \in Filed("stories")
    BY <1>1, <1>2, <1>5 DEF Filed
  <1> QED
    BY <1>2, <1>3, <1>5, <1>6 DEF new

LEMMA RetriedIsSound ==
  ASSUME NEW c \in Clients, number[c] \in Nat, NEW s, Sound(s),
         NEW failed,
         NEW replaced \in SUBSET Places(s.lists["stories"], failed),
         NEW given \in SUBSET Places(s.lists["stories"], failed)
  PROVE  LET new == Regenerated(c, s.lists["stories"], replaced, given)
         IN  Sound(Recorded(WithList(s, "stories", new), new, failed))
  <1> DEFINE old == s.lists["stories"]
             new == Regenerated(c, old, replaced, given)
             w == WithList(s, "stories", new)
  <1>1. "stories" \in Kinds
    BY DEF Kinds
  <1>2. Good(s) /\ s \in States /\ old \in Filed("stories") /\ old \in Seq(Artifacts)
    BY <1>1 DEF Sound, Good, Filed
  <1>3. /\ replaced \cup given \subseteq Places(old, failed)
        /\ replaced \in SUBSET DOMAIN old /\ given \in SUBSET DOMAIN old
    BY DEF Places
  <1>4. /\ new \in Filed("stories") /\ new \in Seq(Artifacts)
        /\ DOMAIN new = DOMAIN old /\ Ids(new) \subseteq Ids(old)
        /\ \A i \in DOMAIN old \ (replaced \cup given) : new[i] = old[i]
    <2>1. /\ new \in Filed("stories")
          /\ DOMAIN new = DOMAIN old /\ Ids(new) \subseteq Ids(old)
          /\ \A i \in DOMAIN old \ (replaced \cup given) : new[i] = old[i]
      <3> HIDE DEF old
      <3> QED
        BY <1>2, <1>3, RegeneratedParts
    <2>2. new \in Seq(Artifacts)
      BY <2>1 DEF Filed
    <2> QED
      BY <2>1, <2>2
  <1> HIDE DEF new
  <1>5. /\ Good(w) /\ w.records = s.records /\ w.edited = s.edited /\ w.lists["stories"] = new
        /\ \A other \in Kinds \ {"stories"} : w.lists[other] = s.lists[other]
    BY <1>1, <1>2, <1>4, ListReplaced, WithListIsGood
  <1> HIDE DEF w, old
  <1>6. ASSUME NEW x \in Ids(new) \ s.edited, x \notin failed
        PROVE  MatchedAt(s, new, x)
    <2>1. MatchedAt(s, old, x)
      BY <1>1, <1>4, <1>6 DEF Sound, old
    <2>2. ASSUME NEW r \in RecordsOf(s, x), r.version = Cardinality(RecordsOf(s, x))
          PROVE  \E i \in DOMAIN new : new[i] = [id |-> x, says |-> r.snapshot]
      <3>1. PICK i \in DOMAIN old : old[i] = [id |-> x, says |-> r.snapshot]
        BY <2>1, <2>2 DEF MatchedAt
      <3>2. i \notin Places(old, failed)
        BY <1>6, <3>1 DEF Places
      <3> QED
        BY <1>3, <1>4, <3>1, <3>2
    <2> QED
      BY <2>2 DEF MatchedAt
  <1> QED
    BY <1>1, <1>4, <1>5, <1>6, RecordedIsSound DEF w, new, old

(* What a run of the graph hands back has no records to be wrong.          *)
LEMMA ReturnedIsSound ==
  ASSUME NEW s, Sound(s), NEW stories \in Filed("stories")
  PROVE  Sound(Returned(s, stories))
  <1> DEFINE w == WithList(s, "stories", stories)
             t == Returned(s, stories)
  <1>1. "stories" \in Kinds
    BY DEF Kinds
  <1>2. Good(s) /\ s \in States /\ stories \in Seq(Artifacts)
    BY DEF Sound, Good, Filed
  <1>3. /\ w \in States /\ w.lists["stories"] = stories
        /\ \A other \in Kinds \ {"stories"} : w.lists[other] = s.lists[other]
    BY <1>1, <1>2, ListReplaced, WithListIsGood DEF Good
  <1> HIDE DEF w
  <1>4. t = [w EXCEPT !.records = {}, !.edited = {}]
    BY DEF Returned, w
  <1> HIDE DEF t
  <1>5. t \in States /\ t.records = {} /\ t.lists = w.lists
    BY <1>3, <1>4 DEF States
  <1>6. \A x : RecordsOf(t, x) = {}
    BY <1>5 DEF RecordsOf
  <1>7. Good(t)
    <2>1. IsFiniteSet(t.records)
      BY <1>5, FS_EmptySet
    <2>2. ASSUME NEW x \in Entities PROVE Numbered(t, x)
      <3>1. Cardinality(RecordsOf(t, x)) = 0
        BY <1>6, FS_EmptySet
      <3>2. { r.version : r \in RecordsOf(t, x) } = {}
        BY <1>6
      <3> QED
        BY <1>6, <3>1, <3>2 DEF Numbered
    <2> QED
      BY <1>5, <2>1, <2>2 DEF Good
  <1>8. \A kind \in Kinds : t.lists[kind] \in Filed(kind)
    BY <1>3, <1>5 DEF Sound
  <1>9. \A kind \in Kinds : \A x \in Ids(t.lists[kind]) \ t.edited : MatchedAt(t, t.lists[kind], x)
    BY <1>6 DEF MatchedAt
  <1> QED
    BY <1>7, <1>8, <1>9 DEF Sound, t

-----------------------------------------------------------------------------
(* The invariant, state by state, and how each kind of step keeps it       *)

Spots == { "idle", "running", "merged", "generating", "recording", "saving",
           "retrying", "planning", "replacing", "caching" }

FiledLists == { lists \in Lists : \A kind \in Kinds : lists[kind] \in Filed(kind) }

Shape ==
    /\ Sound(stored)
    /\ longest \in Filed("stories")
    /\ plan \in {Nothing} \cup Filed("epics")
    /\ browser \in {Nothing} \cup FiledLists
    /\ requests \in 0..MaxRequests
    /\ pc \in [Clients -> Spots]
    /\ number \in [Clients -> 0..MaxRequests]
    /\ local \in [Clients -> States]
    /\ \A c \in Clients : Sound(local[c])
    /\ target \in [Clients -> {Nothing} \cup Entities]
    /\ \A c \in Clients : pc[c] = "replacing" => target[c] \in Entities

LEMMA InitShape == Init => Shape
  <1> SUFFICES ASSUME Init PROVE Shape
    OBVIOUS
  <1>1. Sound(stored) /\ \A c \in Clients : Sound(local[c])
    BY BlankIsSound DEF Init
  <1>2. local \in [Clients -> States]
    BY BlankIsGood DEF Init, Good
  <1>3. /\ requests \in 0..MaxRequests
        /\ pc \in [Clients -> Spots]
        /\ number \in [Clients -> 0..MaxRequests]
        /\ target \in [Clients -> {Nothing} \cup Entities]
        /\ \A c \in Clients : pc[c] = "replacing" => target[c] \in Entities
    BY MaxRequestsAssumption DEF Init, Spots
  <1>4. /\ longest \in Filed("stories")
        /\ plan \in {Nothing} \cup Filed("epics")
        /\ browser \in {Nothing} \cup FiledLists
    BY DEF Init, Filed, Ids
  <1> QED
    BY <1>1, <1>2, <1>3, <1>4 DEF Shape

(* What is saved is a sound state.                                         *)
LEMMA SaveKeeps ==
  ASSUME Shape, NEW s, Sound(s), Save(s)
  PROVE  Sound(stored') /\ longest' \in Filed("stories")
  <1>1. s.lists["stories"] \in Filed("stories")
    BY DEF Sound, Kinds
  <1> QED
    BY <1>1 DEF Shape, Save

(* What a client leaves behind                                             *)
Behind ==
    /\ Sound(stored')
    /\ longest' \in Filed("stories")
    /\ plan' \in {Nothing} \cup Filed("epics")

LEMMA LocalKeeps ==
  ASSUME Shape, NEW c \in Clients, NEW s, Sound(s), local' = [local EXCEPT ![c] = s]
  PROVE  local' \in [Clients -> States] /\ \A d \in Clients : Sound(local[d])'
  <1>1. local \in [Clients -> States] /\ s \in States
    BY DEF Shape, Sound, Good
  <1>2. ASSUME NEW d \in Clients PROVE Sound(local'[d])
    <2>1. local'[d] = IF d = c THEN s ELSE local[d]
      BY <1>1
    <2> QED
      BY <2>1 DEF Shape
  <1>3. local' \in [Clients -> States]
    BY <1>1
  <1> QED
    BY <1>2, <1>3

LEMMA BeginKeeps ==
  ASSUME Shape, NEW c \in Clients, NEW place \in Spots \ {"replacing"}, NEW s, Sound(s),
         Begin(c, place, s), Sound(stored'), longest' \in Filed("stories")
  PROVE  Shape'
  <1>1. local' \in [Clients -> States] /\ \A d \in Clients : Sound(local[d])'
    BY LocalKeeps DEF Begin
  <1>2. /\ pc' \in [Clients -> Spots]
        /\ \A d \in Clients : pc'[d] = "replacing" => target'[d] \in Entities
    BY DEF Begin, Shape
  <1>3. requests' \in 0..MaxRequests /\ number' \in [Clients -> 0..MaxRequests]
    <2>1. requests + 1 \in 0..MaxRequests
      BY MaxRequestsAssumption DEF Begin, Shape
    <2> QED
      BY <2>1 DEF Begin, Shape
  <1>4. /\ plan' \in {Nothing} \cup Filed("epics")
        /\ browser' \in {Nothing} \cup FiledLists
        /\ target' \in [Clients -> {Nothing} \cup Entities]
    BY DEF Begin, Shape
  <1> QED
    BY <1>1, <1>2, <1>3, <1>4 DEF Shape

LEMMA ContinueKeeps ==
  ASSUME Shape, NEW c \in Clients, NEW from, NEW to \in Spots, NEW s, Sound(s),
         Continue(c, from, to, s), Behind,
         target' \in [Clients -> {Nothing} \cup Entities],
         \A d \in Clients : target'[d] = target[d] \/ target'[d] \in Entities,
         to = "replacing" => target'[c] \in Entities
  PROVE  Shape'
  <1>1. local' \in [Clients -> States] /\ \A d \in Clients : Sound(local[d])'
    BY LocalKeeps DEF Continue
  <1>2. pc' \in [Clients -> Spots]
    BY DEF Continue, Shape
  <1>3. ASSUME NEW d \in Clients, pc'[d] = "replacing"
        PROVE  target'[d] \in Entities
    <2>1. pc'[d] = IF d = c THEN to ELSE pc[d]
      BY DEF Continue, Shape
    <2> QED
      BY <1>3, <2>1 DEF Shape
  <1>4. /\ browser' \in {Nothing} \cup FiledLists
        /\ requests' \in 0..MaxRequests
        /\ number' \in [Clients -> 0..MaxRequests]
    BY DEF Continue, Shape
  <1> QED
    BY <1>1, <1>2, <1>3, <1>4 DEF Shape, Behind

LEMMA EndKeeps ==
  ASSUME Shape, NEW c \in Clients, NEW from, End(c, from), Behind
  PROVE  Shape'
  <1>1. local' \in [Clients -> States] /\ \A d \in Clients : Sound(local[d])'
    BY LocalKeeps, BlankIsSound DEF End
  <1>2. pc' \in [Clients -> Spots]
    BY DEF End, Shape, Spots
  <1>3. target' \in [Clients -> {Nothing} \cup Entities]
    BY DEF End, Shape
  <1>4. ASSUME NEW d \in Clients, pc'[d] = "replacing"
        PROVE  target'[d] \in Entities
    <2>1. d # c /\ pc[d] = "replacing" /\ target'[d] = target[d]
      BY <1>4 DEF End, Shape
    <2> QED
      BY <2>1 DEF Shape
  <1>5. number' \in [Clients -> 0..MaxRequests]
    <2>1. 0 \in 0..MaxRequests
      BY MaxRequestsAssumption
    <2> QED
      BY <2>1 DEF End, Shape
  <1>6. browser' \in {Nothing} \cup FiledLists /\ requests' \in 0..MaxRequests
    BY DEF End, Shape
  <1> QED
    BY <1>1, <1>2, <1>3, <1>4, <1>5, <1>6 DEF Shape, Behind

-----------------------------------------------------------------------------
(* The steps *)

LEMMA Facts ==
  ASSUME Shape, NEW c \in Clients
  PROVE  /\ Sound(stored) /\ Sound(local[c])
         /\ stored \in States /\ local[c] \in States
         /\ number[c] \in Nat /\ requests + 1 \in Nat
         /\ \A kind \in Kinds : /\ stored.lists[kind] \in Seq(Artifacts)
                                /\ local[c].lists[kind] \in Seq(Artifacts)
                                /\ stored.lists[kind] \in Filed(kind)
                                /\ local[c].lists[kind] \in Filed(kind)
  <1>1. Sound(stored) /\ Sound(local[c]) /\ stored \in States /\ local[c] \in States
    BY DEF Shape, Sound, Good
  <1>2. number[c] \in Nat /\ requests + 1 \in Nat
    BY MaxRequestsAssumption DEF Shape
  <1> QED
    BY <1>1, <1>2, StateFields DEF Sound

LEMMA IdsType ==
  ASSUME NEW list \in Seq(Artifacts)
  PROVE  Ids(list) \subseteq Entities
  <1>1. \A i \in DOMAIN list : list[i] \in Artifacts
    OBVIOUS
  <1> QED
    BY <1>1 DEF Ids, Artifacts

LEMMA RunKeeps ==
  ASSUME Shape, NEW c \in Clients, Start(c) \/ RunReturns(c) \/ RunFails(c)
  PROVE  Shape'
  <1> USE Facts
  <1>1. CASE Start(c)
    <2>1. Sound(stored') /\ longest' \in Filed("stories")
      BY <1>1, BlankIsSound, SaveKeeps DEF Start
    <2> QED
      BY <1>1, <2>1, BlankIsSound, BeginKeeps DEF Start, Spots
  <1>2. CASE RunReturns(c)
    <2>1. PICK epics \in Made(Epics, number[c]), stories \in Made(Stories, number[c]) :
            LET planned == Recorded(WithList(local[c], "epics", epics), epics, Epics)
            IN  Save(Recorded(WithList(planned, "stories", stories), stories, Stories))
      BY <1>2 DEF RunReturns
    <2>2. epics \in Filed("epics") /\ stories \in Filed("stories")
      BY MadeFiled
    <2> DEFINE planned == Recorded(WithList(local[c], "epics", epics), epics, Epics)
    <2>3. Sound(planned)
      BY <2>2, ReplacedIsSound DEF Kinds, IdsOfKind
    <2> HIDE DEF planned
    <2>4. Sound(Recorded(WithList(planned, "stories", stories), stories, Stories))
      BY <2>2, <2>3, ReplacedIsSound DEF Kinds, IdsOfKind
    <2>5. Sound(stored') /\ longest' \in Filed("stories")
      BY <2>1, <2>4, SaveKeeps DEF planned
    <2>6. Behind
      BY <1>2, <2>5 DEF RunReturns, Behind, Shape
    <2> QED
      BY <1>2, <2>6, EndKeeps DEF RunReturns
  <1>3. CASE RunFails(c)
    <2>1. Sound(stored') /\ longest' \in Filed("stories")
      BY <1>3, SaveKeeps DEF RunFails
    <2>2. Behind
      BY <1>3, <2>1 DEF RunFails, Behind, Shape
    <2> QED
      BY <1>3, <2>2, EndKeeps DEF RunFails
  <1> QED
    BY <1>1, <1>2, <1>3

LEMMA GenerationKeeps ==
  ASSUME Shape, NEW c \in Clients,
         Merge(c) \/ Announce(c) \/ StoriesReturn(c) \/ RecordStories(c) \/ StoriesFail(c)
  PROVE  Shape'
  <1> USE Facts
  <1>1. CASE Merge(c)
    <2>1. PICK s \in {stored} \cup
                     { Unrecorded(stored, kind, browser[kind]) :
                         kind \in { k \in Kinds : browser # Nothing /\ browser[k] # <<>> } } :
            Begin(c, "merged", s) /\ UNCHANGED <<stored, longest>>
      BY <1>1 DEF Merge
    <2>2. CASE s = stored
      BY <2>1, <2>2, BeginKeeps DEF Shape, Spots
    <2>3. CASE s # stored
      <3>1. PICK kind \in Kinds : browser # Nothing /\ s = Unrecorded(stored, kind, browser[kind])
        BY <2>1, <2>3
      <3>2. browser[kind] \in Filed(kind)
        BY <3>1 DEF Shape, FiledLists
      <3>3. Sound(s)
        BY <3>1, <3>2, UnrecordedIsSound
      <3> QED
        BY <2>1, <3>3, BeginKeeps DEF Shape, Spots
    <2> QED
      BY <2>2, <2>3
  <1>2. CASE Announce(c)
    <2>1. Sound(stored') /\ longest' \in Filed("stories")
      BY <1>2, SaveKeeps DEF Announce
    <2>2. Behind
      BY <1>2, <2>1 DEF Announce, Behind, Shape
    <2>3. target' \in [Clients -> {Nothing} \cup Entities] /\ target' = target
      BY <1>2 DEF Announce, Shape
    <2> QED
      BY <1>2, <2>2, <2>3, ContinueKeeps DEF Announce, Spots
  <1>3. CASE StoriesReturn(c)
    <2> DEFINE held == local[c].lists["stories"]
               s(stories) == Returned(local[c], stories)
    <2>1. PICK stories \in IF held = <<>> THEN Made(Stories, number[c]) ELSE {held} :
            /\ Save(s(stories))
            /\ \/ Continue(c, "generating", "recording", s(stories)) /\ UNCHANGED target
               \/ End(c, "generating")
            /\ UNCHANGED plan
      BY <1>3 DEF StoriesReturn
    <2>2. stories \in Filed("stories")
      BY <2>1, MadeFiled DEF Kinds, Sound
    <2>3. Sound(s(stories))
      BY <2>2, ReturnedIsSound
    <2> HIDE DEF s
    <2>4. Sound(stored') /\ longest' \in Filed("stories")
      BY <2>1, <2>3, SaveKeeps
    <2>5. Behind
      BY <2>1, <2>4 DEF Behind, Shape
    <2>6. CASE End(c, "generating")
      BY <2>5, <2>6, EndKeeps
    <2>7. CASE Continue(c, "generating", "recording", s(stories)) /\ UNCHANGED target
      <3>1. target' \in [Clients -> {Nothing} \cup Entities] /\ target' = target
        BY <2>7 DEF Shape
      <3> QED
        BY <2>3, <2>5, <2>7, <3>1, ContinueKeeps DEF Spots
    <2> QED
      BY <2>1, <2>6, <2>7
  <1>4. CASE RecordStories(c)
    <2>1. Sound(Recorded(local[c], local[c].lists["stories"], Stories))
      BY RecordedInPlace
    <2>2. Sound(stored') /\ longest' \in Filed("stories")
      BY <1>4, <2>1, SaveKeeps DEF RecordStories
    <2>3. Behind
      BY <1>4, <2>2 DEF RecordStories, Behind, Shape
    <2> QED
      BY <1>4, <2>3, EndKeeps DEF RecordStories
  <1>5. CASE StoriesFail(c)
    <2>1. Sound(stored') /\ longest' \in Filed("stories")
      BY <1>5, SaveKeeps DEF StoriesFail
    <2>2. Behind
      BY <1>5, <2>1 DEF StoriesFail, Behind, Shape
    <2> QED
      BY <1>5, <2>2, EndKeeps DEF StoriesFail
  <1> QED
    BY <1>1, <1>2, <1>3, <1>4, <1>5

LEMMA EditKeeps ==
  ASSUME Shape, NEW c \in Clients, Undo(c) \/ Modify(c) \/ Patch(c) \/ SaveHeld(c)
  PROVE  Shape'
  <1> USE Facts
  <1>1. CASE Undo(c)
    <2>1. PICK r \in stored.records :
            Begin(c, "saving", UndoneTo(stored, r)) /\ UNCHANGED <<stored, longest>>
      BY <1>1 DEF Undo
    <2>2. Sound(UndoneTo(stored, r))
      BY UndoneIsSound
    <2> QED
      BY <2>1, <2>2, BeginKeeps DEF Shape, Spots
  <1>2. CASE Modify(c)
    <2> DEFINE a(x) == [id |-> x, says |-> requests + 1]
               s(x) == Recorded(WithArtifact(stored, a(x)), <<a(x)>>, {x})
    <2>1. PICK x \in Ids(stored.lists["stories"]) :
            Begin(c, "saving", s(x)) /\ UNCHANGED <<stored, longest>>
      BY <1>2 DEF Modify
    <2>2. x \in Entities
      BY IdsType DEF Kinds
    <2>3. a(x) \in Artifacts
      BY <2>2 DEF Artifacts
    <2>4. Sound(s(x))
      BY <2>3, WrittenIsSound
    <2> QED
      BY <2>1, <2>4, BeginKeeps DEF Shape, Spots
  <1>3. CASE Patch(c)
    <2> DEFINE a(x) == [id |-> x, says |-> requests + 1]
               s(kind, x) == Unrecorded(stored, kind, Put(browser[kind], a(x)))
    <2>1. PICK kind \in Kinds : \E x \in Ids(browser[kind]) : Begin(c, "saving", s(kind, x))
      BY <1>3 DEF Patch
    <2>2. PICK x \in Ids(browser[kind]) : Begin(c, "saving", s(kind, x))
      BY <2>1
    <2>3. browser[kind] \in Filed(kind) /\ browser[kind] \in Seq(Artifacts)
      BY <1>3 DEF Patch, Shape, FiledLists, Filed
    <2>4. a(x) \in Artifacts
      BY <2>3, IdsType DEF Artifacts
    <2>5. Sound(s(kind, x))
      <3>1. Put(browser[kind], a(x)) \in Filed(kind)
        BY <2>3, <2>4, PutType, PutParts DEF Filed
      <3> QED
        BY <3>1, UnrecordedIsSound
    <2>6. UNCHANGED <<stored, longest>>
      BY <1>3 DEF Patch
    <2> HIDE DEF s
    <2> QED
      BY <2>2, <2>5, <2>6, BeginKeeps DEF Shape, Spots
  <1>4. CASE SaveHeld(c)
    <2>1. Sound(stored') /\ longest' \in Filed("stories")
      BY <1>4, SaveKeeps DEF SaveHeld
    <2>2. Behind
      BY <1>4, <2>1 DEF SaveHeld, Behind, Shape
    <2> QED
      BY <1>4, <2>2, EndKeeps DEF SaveHeld
  <1> QED
    BY <1>1, <1>2, <1>3, <1>4

LEMMA RetryKeeps ==
  ASSUME Shape, NEW c \in Clients, ReadForRetry(c) \/ Retry(c)
  PROVE  Shape'
  <1> USE Facts
  <1>1. CASE ReadForRetry(c)
    BY <1>1, BeginKeeps DEF ReadForRetry, Shape, Spots
  <1>2. CASE Retry(c)
    <2>1. PICK base \in RetryBases(c) :
            LET old == base.lists["stories"]
            IN  \E failed \in SUBSET Ids(old) :
                \E replaced \in SUBSET Places(old, failed) :
                \E given \in SUBSET (Places(old, failed) \ replaced) :
                    LET new == Regenerated(c, old, replaced, given)
                    IN  /\ Continue(c, "retrying", "saving",
                                    Recorded(WithList(base, "stories", new), new, failed))
                        /\ UNCHANGED <<stored, longest, plan, target>>
      BY <1>2 DEF Retry
    <2>2. Sound(base)
      <3>1. CASE base = local[c]
        BY <3>1
      <3>2. CASE base = Unrecorded(local[c], "stories", longest)
        BY <3>2, UnrecordedIsSound DEF Shape, Kinds
      <3>3. CASE base \in { Unrecorded(local[c], "stories", stories) : stories \in Made(Stories, number[c]) }
        <4>1. PICK stories \in Made(Stories, number[c]) : base = Unrecorded(local[c], "stories", stories)
          BY <3>3
        <4>2. stories \in Filed("stories")
          BY MadeFiled
        <4> QED
          BY <4>1, <4>2, UnrecordedIsSound DEF Kinds
      <3> QED
        BY <3>1, <3>2, <3>3 DEF RetryBases
    <2> DEFINE old == base.lists["stories"]
    <2>3. old = base.lists["stories"]
      OBVIOUS
    <2> HIDE DEF old
    <2>4. PICK failed \in SUBSET Ids(old) :
          \E replaced \in SUBSET Places(old, failed) :
          \E given \in SUBSET (Places(old, failed) \ replaced) :
              LET new == Regenerated(c, old, replaced, given)
              IN  /\ Continue(c, "retrying", "saving",
                              Recorded(WithList(base, "stories", new), new, failed))
                  /\ UNCHANGED <<stored, longest, plan, target>>
      BY <2>1 DEF old
    <2>5. PICK replaced \in SUBSET Places(old, failed), given \in SUBSET Places(old, failed) :
              LET new == Regenerated(c, old, replaced, given)
              IN  /\ Continue(c, "retrying", "saving",
                              Recorded(WithList(base, "stories", new), new, failed))
                  /\ UNCHANGED <<stored, longest, plan, target>>
      BY <2>4
    <2> DEFINE new == Regenerated(c, old, replaced, given)
               s == Recorded(WithList(base, "stories", new), new, failed)
    <2>6. Sound(s)
      BY <2>2, <2>3, RetriedIsSound
    <2>7. Continue(c, "retrying", "saving", s) /\ UNCHANGED <<stored, longest, plan, target>>
      BY <2>5
    <2> HIDE DEF new, s
    <2>8. Behind /\ target' \in [Clients -> {Nothing} \cup Entities] /\ target' = target
      BY <2>7 DEF Behind, Shape
    <2> QED
      BY <2>6, <2>7, <2>8, ContinueKeeps DEF Spots
  <1> QED
    BY <1>1, <1>2

LEMMA EpicKeeps ==
  ASSUME Shape, NEW c \in Clients,
         \/ ReadForEpic(c) \/ ReadPlan(c) \/ SaveEpic(c)
         \/ AgentRaises(c) \/ CachePlan(c) \/ EpicNotFound(c)
  PROVE  Shape'
  <1> USE Facts
  <1>1. CASE ReadForEpic(c)
    BY <1>1, BeginKeeps DEF ReadForEpic, Shape, Spots
  <1>2. CASE ReadPlan(c)
    <2> DEFINE s(fresh) == IF fresh THEN Unrecorded(local[c], "epics", plan) ELSE local[c]
    <2>1. PICK reached \in BOOLEAN :
            LET fresh == reached /\ plan \notin {Nothing, <<>>}
            IN  /\ Continue(c, "planning", "replacing", s(fresh))
                /\ plan' = IF reached /\ ~fresh THEN s(fresh).lists["epics"] ELSE plan
                /\ \E e \in Ids(s(fresh).lists["epics"]) : target' = [target EXCEPT ![c] = e]
                /\ UNCHANGED <<stored, longest>>
      BY <1>2 DEF ReadPlan
    <2> DEFINE fresh == reached /\ plan \notin {Nothing, <<>>}
               t == s(fresh)
    <2>2. Sound(t)
      <3>1. CASE fresh
        BY <3>1, UnrecordedIsSound DEF Shape, Kinds
      <3>2. CASE ~fresh
        BY <3>2
      <3> QED
        BY <3>1, <3>2
    <2>3. /\ Continue(c, "planning", "replacing", t)
          /\ plan' = t.lists["epics"] \/ plan' = plan
          /\ \E e \in Ids(t.lists["epics"]) : target' = [target EXCEPT ![c] = e]
          /\ UNCHANGED <<stored, longest>>
      BY <2>1
    <2> HIDE DEF t, fresh, s
    <2>4. t.lists["epics"] \in Filed("epics") /\ t.lists["epics"] \in Seq(Artifacts)
      BY <2>2 DEF Sound, Kinds, Filed
    <2>5. Behind
      BY <2>3, <2>4 DEF Behind, Shape
    <2>6. PICK e \in Entities : target' = [target EXCEPT ![c] = e]
      BY <2>3, <2>4, IdsType
    <2>7. /\ target' \in [Clients -> {Nothing} \cup Entities]
          /\ \A d \in Clients : target'[d] = target[d] \/ target'[d] \in Entities
          /\ target'[c] \in Entities
      BY <2>6 DEF Shape
    <2> QED
      BY <2>2, <2>3, <2>5, <2>7, ContinueKeeps DEF Spots
  <1>3. CASE SaveEpic(c)
    <2> DEFINE epics == local[c].lists["epics"]
               s(a) == Recorded(WithArtifact(local[c], a), <<a>>, {target[c]})
    <2>1. PICK a \in [id : {target[c]}, says : {number[c]}] \cup
                     { b \in { epics[i] : i \in DOMAIN epics } : b.id = target[c] } :
            /\ Continue(c, "replacing", "caching", s(a))
            /\ Save(s(a))
            /\ UNCHANGED <<plan, target>>
      BY <1>3 DEF SaveEpic
    <2>2. epics \in Seq(Artifacts)
      BY DEF Kinds
    <2>3. target[c] \in Entities
      BY <2>1 DEF Continue, Shape
    <2>4. a \in Artifacts
      <3>1. CASE a \in [id : {target[c]}, says : {number[c]}]
        BY <2>3, <3>1 DEF Artifacts
      <3>2. CASE a \in { epics[i] : i \in DOMAIN epics }
        BY <2>2, <3>2
      <3> QED
        BY <2>1, <3>1, <3>2
    <2>5. a.id = target[c]
      BY <2>1
    <2>6. Sound(s(a))
      BY <2>4, <2>5, WrittenIsSound
    <2> HIDE DEF s
    <2>7. Sound(stored') /\ longest' \in Filed("stories")
      BY <2>1, <2>6, SaveKeeps
    <2>8. Behind /\ target' \in [Clients -> {Nothing} \cup Entities] /\ target' = target
      BY <2>1, <2>7 DEF Behind, Shape
    <2> QED
      BY <2>1, <2>6, <2>8, ContinueKeeps DEF Spots
  <1>4. CASE AgentRaises(c)
    <2>1. Behind
      BY <1>4 DEF AgentRaises, Behind, Shape
    <2> QED
      BY <1>4, <2>1, EndKeeps DEF AgentRaises
  <1>5. CASE CachePlan(c)
    <2>1. plan' \in {Nothing} \cup Filed("epics")
      <3>1. local[c].lists["epics"] \in Filed("epics")
        BY DEF Kinds
      <3> QED
        BY <1>5, <3>1 DEF CachePlan, Shape
    <2>2. Behind
      BY <1>5, <2>1 DEF CachePlan, Behind, Shape
    <2> QED
      BY <1>5, <2>2, EndKeeps DEF CachePlan
  <1>6. CASE EpicNotFound(c)
    <2>1. Behind
      BY <1>6 DEF EpicNotFound, Behind, Shape
    <2> QED
      BY <1>6, <2>1, EndKeeps DEF EpicNotFound
  <1> QED
    BY <1>1, <1>2, <1>3, <1>4, <1>5, <1>6

LEMMA NextShape == Shape /\ [Next]_vars => Shape'
  <1> SUFFICES ASSUME Shape, [Next]_vars PROVE Shape'
    OBVIOUS
  <1>1. CASE Show
    <2>1. browser' \in FiledLists
      BY <1>1, StateFields DEF Show, Shape, Sound, Good, FiledLists
    <2> QED
      BY <1>1, <2>1 DEF Show, Shape
  <1>2. CASE PlanExpires
    BY <1>2 DEF PlanExpires, Shape
  <1>3. ASSUME NEW c \in Clients, ClientStep(c)
        PROVE  Shape'
    BY <1>3, RunKeeps, GenerationKeeps, EditKeeps, RetryKeeps, EpicKeeps DEF ClientStep
  <1>4. CASE UNCHANGED vars
    BY <1>4 DEF vars, Shape
  <1> QED
    BY <1>1, <1>2, <1>3, <1>4 DEF Next

-----------------------------------------------------------------------------
(* Theorems *)

LEMMA ShapeImplies == Shape => VersionInvariant /\ ListsMatchRecords
  <1> SUFFICES ASSUME Shape PROVE VersionInvariant /\ ListsMatchRecords
    OBVIOUS
  <1>1. \A s \in Around : Sound(s) /\ Good(s)
    BY DEF Shape, Around, Sound
  <1>2. TypeOK
    <2>1. /\ stored \in States
          /\ longest \in Seq(Artifacts)
          /\ plan \in {Nothing} \cup Seq(Artifacts)
          /\ browser \in {Nothing} \cup Lists
      BY DEF Shape, Sound, Good, Filed, FiledLists
    <2> QED
      BY <2>1 DEF Shape, TypeOK, Spots
  <1>3. VersionInvariant
    BY <1>1, <1>2 DEF VersionInvariant, VersionsNumbered, Good
  <1>4. ListsMatchRecords
    BY <1>1 DEF ListsMatchRecords, Sound, MatchedAt
  <1> QED
    BY <1>3, <1>4

(* Every reachable state, whatever requests overlap, has the shape above,  *)
(* and all histories around are well numbered.                             *)
THEOREM VersionInvariantHolds == Spec => []VersionInvariant
  BY InitShape, NextShape, ShapeImplies, PTL DEF Spec

(* The history of each artifact is numbered without a gap or a double.     *)
THEOREM VersionsAreNumbered == Spec => []VersionsNumbered
  <1>1. VersionInvariant => VersionsNumbered
    BY DEF VersionInvariant
  <1> QED
    BY <1>1, VersionInvariantHolds, PTL

(* The newest record of an artifact says what its list says, in every      *)
(* state that is stored or on its way there and whatever requests overlap, *)
(* unless the artifact was last written by a path that records nothing.    *)
THEOREM ListsMatchRecordsHolds == Spec => []ListsMatchRecords
  BY InitShape, NextShape, ShapeImplies, PTL DEF Spec
=============================================================================
