----------------------------- MODULE Documents_proofs -----------------------------
(***************************************************************************)
(* The way of documents: what holds of RagIndex, Connectors, Preprocessing *)
(* and Delivery for any number of requests, files, chunks, batches,        *)
(* stories and attempts.                                                   *)
(***************************************************************************)
EXTENDS RagIndex, Preprocessing, Delivery, Connectors, FiniteSetTheorems, SequenceTheorems, TLAPS

-----------------------------------------------------------------------------
(***************************************************************************)
(* RagIndex: ReportedIsStored and PoolsAreShared                           *)
(***************************************************************************)
(***************************************************************************)
(* Requests whose chunks have been upserted: until one is lost, the        *)
(* collection has the right size and holds them.                           *)
(***************************************************************************)
Upserted == {"stamp", "open pool", "update rows", "report"}

StoredInvariant ==
    ~lost => /\ reported \subseteq vectors
             /\ \A c \in Callers : call[c].pc \in Upserted => call[c].todo \subseteq vectors
             /\ collection # "right size" =>
                    reported = {} /\ \A c \in Callers : call[c].pc \notin Upserted

\* The requests that have found no pool and are about to open one
Opens(r, p) ==
    \/ p = "indexing" /\ r.pc = "open pool"
    \/ p = "bm25" /\ r.pc = "retrieve" /\ r.sparse = "open pool"
Opening(p) == { c \in Callers : Opens(call[c], p) }

PoolInvariant ==
    \A p \in Pools : /\ ~pool[p] => opened[p] = 0
                     /\ opened[p] + Cardinality(Opening(p)) <= Cardinality(Callers)

RagInvariant == RagTypes /\ StoredInvariant /\ PoolInvariant

-----------------------------------------------------------------------------
LEMMA InitInvariant == ASSUME RagInit PROVE RagInvariant
<1>1. AtRest \in CallRecords
  BY DEF AtRest, CallRecords, Phases
<1>2. call \in [Callers -> CallRecords]
  BY <1>1 DEF RagInit
<1>3. vectors \subseteq Chunks /\ collection \in {"absent", "other size", "right size"}
  <2>1. collection \in {"absent", "other size", "right size"}
    BY RagAssumption DEF RagAssumption, RagInit
  <2>2. CASE collection = "absent"
    BY <2>1, <2>2 DEF RagInit
  <2>3. CASE collection # "absent"
    BY <2>1, <2>3 DEF RagInit
  <2> QED
    BY <2>2, <2>3
<1>4. pool \in [Pools -> BOOLEAN] /\ opened \in [Pools -> Nat]
  BY DEF RagInit
<1>5. begun \in 0..MaxRequests
  <2>1. begun = 0
    BY DEF RagInit
  <2>2. MaxRequests \in Nat
    BY RagAssumption
  <2> QED
    BY <2>1, <2>2
<1>6. RagTypes
  BY <1>2, <1>3, <1>4, <1>5 DEF RagInit, RagTypes
<1>7. \A c \in Callers : call[c] = AtRest
  BY DEF RagInit
<1>8. AtRest.pc = "idle"
  BY DEF AtRest
<1>9. StoredInvariant
  BY <1>7, <1>8 DEF StoredInvariant, RagInit, Upserted
<1>10. \A p \in Pools : Opening(p) = {} /\ opened[p] = 0
  BY <1>7, <1>8 DEF Opening, Opens, RagInit
<1>11. Cardinality({}) = 0 /\ Cardinality(Callers) \in Nat
  BY FS_EmptySet, FS_CardinalityType, CallersAssumption
<1>12. PoolInvariant
  BY <1>10, <1>11 DEF PoolInvariant
<1> QED
  BY <1>6, <1>9, <1>12 DEF RagInvariant

\* What a request becomes is all that changes in call.
LEMMA Becoming ==
    ASSUME RagTypes, NEW c \in Callers, NEW n \in CallRecords, Become(c, n)
    PROVE  /\ call' \in [Callers -> CallRecords]
           /\ call'[c] = n
           /\ \A d \in Callers \ {c} : call'[d] = call[d]
  BY DEF Become, RagTypes

\* The two parts that only some actions disturb, for all others
LEMMA StoredStays ==
    ASSUME RagTypes, StoredInvariant, NEW c \in Callers, NEW n \in CallRecords, Become(c, n),
           n.pc \in Upserted => call[c].pc \in Upserted /\ n.todo = call[c].todo,
           UNCHANGED <<collection, vectors, reported, lost>>
    PROVE  StoredInvariant'
  BY Becoming DEF StoredInvariant

LEMMA PoolsStay ==
    ASSUME RagTypes, PoolInvariant, NEW c \in Callers, NEW n \in CallRecords, Become(c, n),
           \A p \in Pools : Opens(n, p) => Opens(call[c], p),
           UNCHANGED <<pool, opened>>
    PROVE  PoolInvariant'
<1> SUFFICES ASSUME NEW p \in Pools
             PROVE  /\ ~pool[p] => opened[p] = 0
                    /\ opened[p] + Cardinality(Opening(p)') <= Cardinality(Callers)
  BY DEF PoolInvariant
<1>1. Opening(p)' \subseteq Opening(p)
  BY Becoming DEF Opening
<1>2. IsFiniteSet(Opening(p))
  BY CallersAssumption, FS_Subset DEF Opening
<1>3. /\ Cardinality(Opening(p)') <= Cardinality(Opening(p))
      /\ Cardinality(Opening(p)') \in Nat /\ Cardinality(Opening(p)) \in Nat
  BY <1>1, <1>2, FS_Subset, FS_CardinalityType
<1>4. opened[p] \in Nat /\ Cardinality(Callers) \in Nat
  BY CallersAssumption, FS_CardinalityType DEF RagTypes
<1> QED
  BY <1>3, <1>4 DEF PoolInvariant

\* A step of a request that touches no store
LEMMA Quiet ==
    ASSUME RagInvariant, NEW c \in Callers, NEW n \in CallRecords, Become(c, n),
           n.pc \in Upserted => call[c].pc \in Upserted /\ n.todo = call[c].todo,
           \A p \in Pools : Opens(n, p) => Opens(call[c], p),
           UNCHANGED stores
    PROVE  RagInvariant'
<1>1. RagTypes'
  BY Becoming DEF RagInvariant, RagTypes, stores
<1>2. StoredInvariant' /\ PoolInvariant'
  BY StoredStays, PoolsStay DEF RagInvariant, stores
<1> QED
  BY <1>1, <1>2 DEF RagInvariant

\* A request that moves on and keeps its chunks
LEMMA Moving ==
    ASSUME RagTypes, NEW c \in Callers, NEW pc \in Phases, Goto(c, pc)
    PROVE  \E n \in CallRecords :
             /\ Become(c, n)
             /\ n.pc = pc /\ n.todo = call[c].todo /\ n.sparse = call[c].sparse
<1> DEFINE n == [call[c] EXCEPT !.pc = pc]
<1>1. call[c] \in CallRecords
  BY DEF RagTypes
<1>2. n \in CallRecords /\ n.pc = pc /\ n.todo = call[c].todo /\ n.sparse = call[c].sparse
  BY <1>1 DEF CallRecords
<1> QED
  BY <1>2 DEF Goto

LEMMA QuietMove ==
    ASSUME RagInvariant, NEW c \in Callers, NEW pc \in Phases, Goto(c, pc),
           pc \notin {"open pool", "retrieve"},
           pc \in Upserted => call[c].pc \in Upserted,
           UNCHANGED stores
    PROVE  RagInvariant'
<1>1. PICK n \in CallRecords : Become(c, n) /\ n.pc = pc /\ n.todo = call[c].todo
  BY Moving DEF RagInvariant
<1>2. \A p \in Pools : Opens(n, p) => Opens(call[c], p)
  BY <1>1 DEF Opens
<1> QED
  BY <1>1, <1>2, Quiet

-----------------------------------------------------------------------------
\* Looking for a collection, dropping and creating one

LEMMA Ensures == ASSUME RagInvariant, NEW c \in Callers, EnsureCollection(c) PROVE RagInvariant'
<1>1. CASE ListCollections(c)
  BY <1>1, QuietMove DEF ListCollections, Phases, Upserted
<1>2. CASE InspectCollection(c)
  BY <1>2, QuietMove DEF InspectCollection, Phases, Upserted
<1>3. CASE DropCollection(c)
  <2>1. CASE Goto(c, "look up") /\ UNCHANGED <<collection, vectors>>
    <3>1. "look up" \in Phases /\ "look up" \notin Upserted
      BY DEF Phases, Upserted
    <3>2. UNCHANGED stores
      BY <1>3, <2>1 DEF DropCollection, stores, RagInvariant, RagTypes
    <3> QED
      BY <2>1, <3>1, <3>2, QuietMove
  <2>2. CASE Goto(c, "create") /\ collection' = "absent" /\ vectors' = {}
    <3>1. "create" \in Phases /\ "create" \notin Upserted
      BY DEF Phases, Upserted
    <3>2. PICK n \in CallRecords : Become(c, n) /\ n.pc = "create"
      BY <2>2, <3>1, Moving DEF RagInvariant
    <3>3. /\ call' \in [Callers -> CallRecords]
          /\ call'[c] = n
          /\ \A d \in Callers \ {c} : call'[d] = call[d]
      BY <3>2, Becoming DEF RagInvariant
    <3>4. RagTypes'
      BY <1>3, <2>2, <3>3 DEF DropCollection, RagInvariant, RagTypes
    <3>5. StoredInvariant'
      <4>1. SUFFICES ASSUME ~lost' PROVE StoredInvariant'
        BY DEF StoredInvariant
      <4>2. ~lost /\ collection # "right size"
        BY <1>3, <2>2, <4>1 DEF DropCollection
      <4>3. reported = {} /\ \A d \in Callers : call[d].pc \notin Upserted
        BY <4>2 DEF RagInvariant, StoredInvariant
      <4> QED
        BY <1>3, <3>1, <3>2, <3>3, <4>3 DEF DropCollection, StoredInvariant
    <3>6. PoolInvariant'
      BY <1>3, <3>2, PoolsStay DEF DropCollection, RagInvariant, Opens
    <3> QED
      BY <3>4, <3>5, <3>6 DEF RagInvariant
  <2> QED
    BY <1>3, <2>1, <2>2 DEF DropCollection
<1>4. CASE CreateCollection(c)
  <2>1. PICK pc \in {"look up", "refused"} : Goto(c, pc)
    BY <1>4 DEF CreateCollection
  <2>2. pc \in Phases /\ pc \notin Upserted
    BY <2>1 DEF Phases, Upserted
  <2>3. PICK n \in CallRecords : Become(c, n) /\ n.pc = pc
    BY <2>1, <2>2, Moving DEF RagInvariant
  <2>4. /\ call' \in [Callers -> CallRecords]
        /\ call'[c] = n
        /\ \A d \in Callers \ {c} : call'[d] = call[d]
    BY <2>3, Becoming DEF RagInvariant
  <2>5. collection' \in {collection, "right size"}
    BY <1>4 DEF CreateCollection
  <2>6. UNCHANGED <<vectors, rows, stamped, pool, opened, found, begun, reported, lost>>
    BY <1>4 DEF CreateCollection
  <2>7. RagTypes'
    BY <2>4, <2>5, <2>6 DEF RagInvariant, RagTypes
  <2>8. StoredInvariant'
    BY <2>2, <2>3, <2>4, <2>5, <2>6 DEF RagInvariant, StoredInvariant
  <2>9. PoolInvariant'
    BY <2>1, <2>3, <2>6, PoolsStay DEF RagInvariant, Opens
  <2> QED
    BY <2>7, <2>8, <2>9 DEF RagInvariant
<1> QED
  BY <1>1, <1>2, <1>3, <1>4 DEF EnsureCollection

LEMMA LooksUp == ASSUME RagInvariant, NEW c \in Callers, LookUp(c) PROVE RagInvariant'
<1> DEFINE chunk == CHOOSE k \in call[c].left : TRUE
           stored == [call[c] EXCEPT !.left = @ \ {chunk}]
           missing == [call[c] EXCEPT !.left = @ \ {chunk}, !.todo = @ \cup {chunk}]
<1>1. Become(c, stored) \/ Become(c, missing)
  BY DEF LookUp
<1>2. call[c] \in CallRecords /\ call[c].pc = "look up" /\ UNCHANGED stores
  BY DEF LookUp, At, RagInvariant, RagTypes
<1>3. chunk \in call[c].left
  BY DEF LookUp
<1> HIDE DEF chunk
<1>4. stored \in CallRecords /\ stored.pc = "look up"
  BY <1>2, <1>3 DEF CallRecords
<1>5. missing \in CallRecords /\ missing.pc = "look up"
  BY <1>2, <1>3 DEF CallRecords
<1> HIDE DEF stored, missing
<1>6. PICK n \in CallRecords : Become(c, n) /\ n.pc = "look up"
  BY <1>1, <1>4, <1>5
<1> QED
  BY <1>2, <1>6, Quiet DEF Upserted, Opens

LEMMA HasLookedUp == ASSUME RagInvariant, NEW c \in Callers, LookedUp(c) PROVE RagInvariant'
  BY QuietMove DEF LookedUp, Phases, Upserted

-----------------------------------------------------------------------------
\* Embedding, storing and stamping

\* A step that ends the request, or puts off its end
LEMMA Embeds == ASSUME RagInvariant, NEW c \in Callers, Embed(c) PROVE RagInvariant'
<1>1. call[c] \in CallRecords /\ call[c].pc = "embed" /\ UNCHANGED stores
  BY DEF Embed, At, RagInvariant, RagTypes
<1>2. CASE Goto(c, "upsert")
  BY <1>1, <1>2, QuietMove DEF Phases, Upserted
<1>3. CASE Become(c, [call[c] EXCEPT !.tries = @ + 1])
  <2> DEFINE t == call[c].tries + 1
             n == [call[c] EXCEPT !.tries = t]
  <2>1. Become(c, n)
    BY <1>3
  <2>2. t \in Nat
    <3>1. call[c].tries \in Nat
      BY <1>1 DEF CallRecords
    <3> QED
      BY <3>1
  <2> HIDE DEF t
  <2>3. n \in CallRecords /\ n.pc = "embed"
    BY <1>1, <2>2 DEF CallRecords
  <2> HIDE DEF n
  <2> QED
    BY <1>1, <2>1, <2>3, Quiet DEF Upserted, Opens
<1>4. CASE Become(c, [call[c] EXCEPT !.pc = "answered", !.failed = call[c].todo])
  <2> DEFINE n == [call[c] EXCEPT !.pc = "answered", !.failed = call[c].todo]
  <2>1. n \in CallRecords /\ n.pc = "answered"
    BY <1>1 DEF CallRecords, Phases
  <2> HIDE DEF n
  <2>2. Become(c, n)
    BY <1>4 DEF n
  <2> QED
    BY <1>1, <2>1, <2>2, Quiet DEF Upserted, Opens
<1> QED
  BY <1>2, <1>3, <1>4 DEF Embed

LEMMA Upserts == ASSUME RagInvariant, NEW c \in Callers, Upsert(c) PROVE RagInvariant'
<1>1. call[c] \in CallRecords /\ call[c].pc = "upsert"
  BY DEF Upsert, At, RagInvariant, RagTypes
<1>2. CASE /\ Become(c, [call[c] EXCEPT !.pc = "answered", !.failed = call[c].todo])
           /\ UNCHANGED vectors
  <2> DEFINE n == [call[c] EXCEPT !.pc = "answered", !.failed = call[c].todo]
  <2>1. n \in CallRecords /\ n.pc = "answered"
    BY <1>1 DEF CallRecords, Phases
  <2> HIDE DEF n
  <2>2. Become(c, n) /\ UNCHANGED stores
    BY <1>2 DEF n, Upsert, stores
  <2> QED
    BY <2>1, <2>2, Quiet DEF Upserted, Opens
<1>3. CASE /\ collection = "right size"
           /\ vectors' = vectors \cup call[c].todo
           /\ Become(c, [call[c] EXCEPT !.pc = "stamp", !.left = call[c].todo])
  <2> DEFINE n == [call[c] EXCEPT !.pc = "stamp", !.left = call[c].todo]
  <2>1. n \in CallRecords /\ n.pc = "stamp" /\ n.todo = call[c].todo /\ call[c].todo \subseteq Chunks
    BY <1>1 DEF CallRecords, Phases
  <2> HIDE DEF n
  <2>2. Become(c, n)
    BY <1>3 DEF n
  <2>3. /\ call' \in [Callers -> CallRecords]
        /\ call'[c] = n
        /\ \A d \in Callers \ {c} : call'[d] = call[d]
    BY <2>1, <2>2, Becoming DEF RagInvariant
  <2>4. UNCHANGED <<collection, rows, stamped, pool, opened, found, begun, reported, lost>>
    BY DEF Upsert
  <2>5. RagTypes'
    BY <1>3, <2>1, <2>3, <2>4 DEF RagInvariant, RagTypes
  <2>6. StoredInvariant'
    BY <1>3, <2>1, <2>3, <2>4 DEF RagInvariant, StoredInvariant
  <2>7. PoolInvariant'
    BY <2>1, <2>2, <2>4, PoolsStay DEF RagInvariant, Opens
  <2> QED
    BY <2>5, <2>6, <2>7 DEF RagInvariant
<1> QED
  BY <1>2, <1>3 DEF Upsert

\* Of the requests that found no pool, one opens its own.
LEMMA PoolOpens ==
    ASSUME RagTypes, PoolInvariant, NEW c \in Callers, NEW n \in CallRecords, Become(c, n),
           NEW p \in Pools, Opens(call[c], p), \A q \in Pools : ~Opens(n, q), Opened(p)
    PROVE  PoolInvariant' /\ pool' \in [Pools -> BOOLEAN] /\ opened' \in [Pools -> Nat]
<1>1. /\ call'[c] = n
      /\ \A d \in Callers \ {c} : call'[d] = call[d]
  BY Becoming
<1>2. pool' \in [Pools -> BOOLEAN] /\ pool'[p] /\ \A q \in Pools \ {p} : pool'[q] = pool[q]
  BY DEF Opened, RagTypes
<1>3. /\ opened' \in [Pools -> Nat] /\ opened \in [Pools -> Nat]
      /\ opened'[p] = opened[p] + 1 /\ \A q \in Pools \ {p} : opened'[q] = opened[q]
  <2>1. opened \in [Pools -> Nat] /\ opened' = [opened EXCEPT ![p] = opened[p] + 1]
    BY DEF Opened, RagTypes
  <2> QED
    BY <2>1
<1>4. \A q \in Pools : IsFiniteSet(Opening(q)) /\ Opening(q)' = Opening(q) \ {c}
  BY <1>1, CallersAssumption, FS_Subset DEF Opening
<1>5. ASSUME NEW q \in Pools
      PROVE  /\ Cardinality(Opening(q)) \in Nat /\ Cardinality(Opening(q)') \in Nat
             /\ Cardinality(Opening(q)') <= Cardinality(Opening(q))
             /\ c \in Opening(q) => Cardinality(Opening(q)') = Cardinality(Opening(q)) - 1
  <2>1. Cardinality(Opening(q)) \in Nat
    BY <1>4, FS_CardinalityType
  <2>2. /\ IsFiniteSet(Opening(q) \ {c})
        /\ Cardinality(Opening(q) \ {c})
             = IF c \in Opening(q) THEN Cardinality(Opening(q)) - 1 ELSE Cardinality(Opening(q))
    BY <1>4, FS_RemoveElement
  <2>3. Cardinality(Opening(q) \ {c}) \in Nat
    BY <2>2, FS_CardinalityType
  <2>4. Opening(q)' = Opening(q) \ {c}
    BY <1>4
  <2>5. CASE c \in Opening(q)
    BY <2>1, <2>2, <2>3, <2>4, <2>5
  <2>6. CASE c \notin Opening(q)
    BY <2>1, <2>2, <2>3, <2>4, <2>6
  <2> QED
    BY <2>5, <2>6
<1>6. c \in Opening(p) /\ Cardinality(Callers) \in Nat
  BY CallersAssumption, FS_CardinalityType DEF Opening
<1>7. \A q \in Pools : ~pool'[q] => opened'[q] = 0
  BY <1>2, <1>3 DEF PoolInvariant
<1>8. \A q \in Pools : opened[q] + Cardinality(Opening(q)) <= Cardinality(Callers)
  BY DEF PoolInvariant
<1>9. \A q \in Pools : opened'[q] + Cardinality(Opening(q)') <= Cardinality(Callers)
  BY <1>3, <1>5, <1>6, <1>8
<1> QED
  BY <1>2, <1>3, <1>7, <1>9 DEF PoolInvariant

\* A request that has found no pool: until the first is opened, no more can be opening one than there are.
LEMMA PoolIsMissed ==
    ASSUME RagTypes, PoolInvariant, NEW c \in Callers, NEW n \in CallRecords, Become(c, n),
           NEW p \in Pools, ~pool[p], \A q \in Pools : Opens(n, q) => q = p,
           UNCHANGED <<pool, opened>>
    PROVE  PoolInvariant'
<1>1. /\ call'[c] = n
      /\ \A d \in Callers \ {c} : call'[d] = call[d]
  BY Becoming
<1>2. \A q \in Pools : opened[q] \in Nat
  BY DEF RagTypes
<1>3. \A q \in Pools : opened[q] + Cardinality(Opening(q)) <= Cardinality(Callers)
  BY DEF PoolInvariant
<1>4. opened[p] + Cardinality(Opening(p)') <= Cardinality(Callers)
  <2>1. opened[p] = 0
    BY DEF PoolInvariant
  <2>2. Opening(p)' \in SUBSET Callers
    BY DEF Opening
  <2>3. Cardinality(Opening(p)') <= Cardinality(Callers) /\ IsFiniteSet(Opening(p)')
    BY <2>2, CallersAssumption, FS_Subset
  <2>4. Cardinality(Opening(p)') \in Nat
    BY <2>3, FS_CardinalityType
  <2> QED
    BY <2>1, <2>3, <2>4
<1>5. ASSUME NEW q \in Pools, q # p
      PROVE  opened[q] + Cardinality(Opening(q)') <= Cardinality(Callers)
  <2>1. Opening(q)' \in SUBSET Opening(q) /\ Opening(q) \in SUBSET Callers
    BY <1>1, <1>5 DEF Opening
  <2>2. IsFiniteSet(Opening(q)) /\ IsFiniteSet(Opening(q)')
    BY <2>1, CallersAssumption, FS_Subset
  <2>3. Cardinality(Opening(q)') <= Cardinality(Opening(q))
    BY <2>1, <2>2, FS_Subset
  <2>4. /\ Cardinality(Opening(q)') \in Nat /\ Cardinality(Opening(q)) \in Nat
        /\ Cardinality(Callers) \in Nat
    BY <2>2, CallersAssumption, FS_CardinalityType
  <2> QED
    BY <1>2, <1>3, <2>3, <2>4
<1>6. \A q \in Pools : opened[q] + Cardinality(Opening(q)') <= Cardinality(Callers)
  BY <1>4, <1>5
<1>7. \A q \in Pools : ~pool'[q] => opened'[q] = 0
  BY DEF PoolInvariant
<1> QED
  BY <1>6, <1>7 DEF PoolInvariant

\* Steps after the upsert: what they change is the pools and the stamps.
LEMMA AsksForAPool == ASSUME RagInvariant, NEW c \in Callers, PoolForStamps(c) PROVE RagInvariant'
<1>1. call[c].pc = "stamp" /\ UNCHANGED stores
  BY DEF PoolForStamps, At
<1>2. CASE pool["indexing"]
  BY <1>1, <1>2, QuietMove DEF PoolForStamps, AskForPool, Phases, Upserted
<1>3. CASE ~pool["indexing"]
  <2>1. Goto(c, "open pool") /\ "open pool" \in Phases
    BY <1>3 DEF PoolForStamps, AskForPool, Phases
  <2>2. PICK n \in CallRecords : Become(c, n) /\ n.pc = "open pool" /\ n.todo = call[c].todo
    BY <2>1, Moving DEF RagInvariant
  <2>3. RagTypes'
    BY <1>1, <2>2, Becoming DEF RagInvariant, RagTypes, stores
  <2>4. StoredInvariant'
    BY <1>1, <2>2, StoredStays DEF RagInvariant, stores, Upserted
  <2>5. PoolInvariant'
    BY <1>1, <1>3, <2>2, PoolIsMissed DEF RagInvariant, stores, Opens, Pools
  <2> QED
    BY <2>3, <2>4, <2>5 DEF RagInvariant
<1> QED
  BY <1>2, <1>3

LEMMA OpensAPool == ASSUME RagInvariant, NEW c \in Callers, OpenPoolForStamps(c) PROVE RagInvariant'
<1>1. call[c] \in CallRecords /\ call[c].pc = "open pool"
  BY DEF OpenPoolForStamps, At, RagInvariant, RagTypes
<1>2. UNCHANGED <<collection, vectors, rows, stamped, found, begun, reported, lost>>
  BY DEF OpenPoolForStamps
<1>3. CASE Opened("indexing") /\ Goto(c, "update rows")
  <2>1. PICK n \in CallRecords : Become(c, n) /\ n.pc = "update rows" /\ n.todo = call[c].todo
    <3>1. "update rows" \in Phases
      BY DEF Phases
    <3> QED
      BY <1>3, <3>1, Moving DEF RagInvariant
  <2>2. PoolInvariant' /\ pool' \in [Pools -> BOOLEAN] /\ opened' \in [Pools -> Nat]
    BY <1>1, <1>3, <2>1, PoolOpens DEF RagInvariant, Opens, Pools
  <2>3. RagTypes'
    BY <1>2, <2>1, <2>2, Becoming DEF RagInvariant, RagTypes
  <2>4. StoredInvariant'
    BY <1>1, <1>2, <2>1, StoredStays DEF RagInvariant, Upserted
  <2> QED
    BY <2>2, <2>3, <2>4 DEF RagInvariant
<1>4. CASE /\ Become(c, [call[c] EXCEPT !.pc = "report", !.failed = call[c].todo])
           /\ UNCHANGED <<pool, opened>>
  <2> DEFINE n == [call[c] EXCEPT !.pc = "report", !.failed = call[c].todo]
  <2>1. n \in CallRecords /\ n.pc = "report" /\ n.todo = call[c].todo
    BY <1>1 DEF CallRecords, Phases
  <2> HIDE DEF n
  <2>2. Become(c, n) /\ UNCHANGED stores
    BY <1>2, <1>4 DEF n, stores
  <2> QED
    BY <1>1, <2>1, <2>2, Quiet DEF Upserted, Opens
<1> QED
  BY <1>3, <1>4 DEF OpenPoolForStamps

LEMMA UpdatesARow == ASSUME RagInvariant, NEW c \in Callers, UpdateRow(c) PROVE RagInvariant'
<1> DEFINE chunk == CHOOSE k \in call[c].left : TRUE
           done == [call[c] EXCEPT !.left = @ \ {chunk}]
           failed == [call[c] EXCEPT !.left = @ \ {chunk}, !.failed = @ \cup {chunk}]
<1>1. /\ Become(c, done) \/ Become(c, failed)
      /\ stamped' \in {stamped, stamped \cup ({chunk} \cap rows)}
  BY DEF UpdateRow
<1>2. call[c] \in CallRecords /\ call[c].pc = "update rows"
  BY DEF UpdateRow, At, RagInvariant, RagTypes
<1>3. UNCHANGED <<collection, vectors, rows, pool, opened, found, begun, reported, lost>>
  BY DEF UpdateRow
<1>4. chunk \in call[c].left
  BY DEF UpdateRow
<1> HIDE DEF chunk
<1>5. done \in CallRecords /\ done.pc = "update rows" /\ done.todo = call[c].todo
  BY <1>2, <1>4 DEF CallRecords
<1>6. failed \in CallRecords /\ failed.pc = "update rows" /\ failed.todo = call[c].todo
  BY <1>2, <1>4 DEF CallRecords
<1> HIDE DEF done, failed
<1>7. PICK n \in CallRecords : Become(c, n) /\ n.pc = "update rows" /\ n.todo = call[c].todo
  BY <1>1, <1>5, <1>6
<1>8. RagTypes'
  BY <1>1, <1>3, <1>7, Becoming DEF RagInvariant, RagTypes
<1>9. StoredInvariant'
  BY <1>2, <1>3, <1>7, StoredStays DEF RagInvariant, Upserted
<1>10. PoolInvariant'
  BY <1>3, <1>7, PoolsStay DEF RagInvariant, Opens
<1> QED
  BY <1>8, <1>9, <1>10 DEF RagInvariant

\* What is reported has been upserted by the request that reports it.
LEMMA AnswersIndex == ASSUME RagInvariant, NEW c \in Callers, AnswerIndex(c) PROVE RagInvariant'
<1>1. call[c] \in CallRecords /\ call[c].pc \in Upserted
  BY DEF AnswerIndex, At, RagInvariant, RagTypes, Upserted
<1>2. UNCHANGED <<collection, vectors, rows, stamped, pool, opened, found, begun, lost>>
  BY DEF AnswerIndex
<1>3. PICK n \in CallRecords : Become(c, n) /\ n.pc = "answered"
  <2>1. Goto(c, "answered") /\ "answered" \in Phases
    BY DEF AnswerIndex, Phases
  <2> QED
    BY <2>1, Moving DEF RagInvariant
<1>4. /\ call' \in [Callers -> CallRecords]
      /\ call'[c] = n
      /\ \A d \in Callers \ {c} : call'[d] = call[d]
  BY <1>3, Becoming DEF RagInvariant
<1>5. reported' \subseteq reported \cup call[c].todo /\ call[c].todo \subseteq Chunks
  BY <1>1 DEF AnswerIndex, Report, CallRecords
<1>6. RagTypes'
  BY <1>2, <1>4, <1>5 DEF RagInvariant, RagTypes
<1>7. StoredInvariant'
  <2>1. n.pc \notin Upserted
    BY <1>3 DEF Upserted
  <2> QED
    BY <1>1, <1>2, <1>4, <1>5, <2>1 DEF RagInvariant, StoredInvariant
<1>8. PoolInvariant'
  BY <1>2, <1>3, PoolsStay DEF RagInvariant, Opens
<1> QED
  BY <1>6, <1>7, <1>8 DEF RagInvariant

LEMMA RunsPipeline == ASSUME RagInvariant, NEW c \in Callers, RunPipeline(c) PROVE RagInvariant'
  BY Embeds, Upserts, AsksForAPool, OpensAPool, UpdatesARow, AnswersIndex DEF RunPipeline

-----------------------------------------------------------------------------
\* Searches, and requests that begin

LEMMA ReadsCache == ASSUME RagInvariant, NEW c \in Callers, ReadCachedAnswer(c) PROVE RagInvariant'
<1> DEFINE hit == [call[c] EXCEPT !.pc = "answered", !.answer = found]
           miss == [call[c] EXCEPT !.pc = "retrieve", !.sparse = "pool", !.dense = "embed"]
<1>1. call[c] \in CallRecords /\ UNCHANGED stores
  BY DEF ReadCachedAnswer, RagInvariant, RagTypes
<1>2. (found # NoAnswer /\ Become(c, hit)) \/ Become(c, miss)
  BY DEF ReadCachedAnswer
<1>3. found # NoAnswer => hit \in CallRecords /\ hit.pc = "answered"
  <2>1. found # NoAnswer => found \in SUBSET Chunks
    BY DEF RagInvariant, RagTypes
  <2> QED
    BY <1>1, <2>1 DEF CallRecords, Phases
<1>4. miss \in CallRecords /\ miss.pc = "retrieve" /\ miss.sparse = "pool"
  BY <1>1 DEF CallRecords, Phases
<1> HIDE DEF hit, miss
<1>5. PICK n \in CallRecords : Become(c, n) /\ (n.pc = "answered" \/ (n.pc = "retrieve" /\ n.sparse = "pool"))
  <2>1. CASE found # NoAnswer /\ Become(c, hit)
    <3>1. hit \in CallRecords
      BY <1>3, <2>1
    <3>2. hit.pc = "answered"
      BY <1>3, <2>1
    <3> QED
      BY <2>1, <3>1, <3>2
  <2>2. CASE Become(c, miss)
    BY <1>4, <2>2
  <2> QED
    BY <1>2, <2>1, <2>2
<1> QED
  BY <1>1, <1>5, Quiet DEF Upserted, Opens

\* A search stays at "retrieve", and opens no pool that it was not about to open.
LEMMA ArmMoves ==
    ASSUME RagInvariant, NEW c \in Callers, NEW n \in CallRecords, Become(c, n), At(c, "retrieve"),
           n.pc = "retrieve", n.sparse # "open pool" \/ n.sparse = call[c].sparse,
           UNCHANGED stores
    PROVE  RagInvariant'
  BY Quiet DEF At, Upserted, Opens

LEMMA ArmFailsKeeps == ASSUME RagInvariant, NEW c \in Callers, ArmFails(c) PROVE RagInvariant'
<1> DEFINE t == call[c].tries + 1
           sparse == [call[c] EXCEPT !.sparse = "done"]
           dense == [call[c] EXCEPT !.dense = "done"]
           again == [call[c] EXCEPT !.tries = t]
<1>1. call[c] \in CallRecords /\ call[c].pc = "retrieve" /\ At(c, "retrieve") /\ UNCHANGED stores
  BY DEF ArmFails, At, RagInvariant, RagTypes
<1>2. Become(c, sparse) \/ Become(c, dense) \/ Become(c, again)
  BY DEF ArmFails
<1>3. t \in Nat
  <2>1. call[c].tries \in Nat
    BY <1>1 DEF CallRecords
  <2> QED
    BY <2>1
<1> HIDE DEF t
<1>4. sparse \in CallRecords /\ sparse.pc = "retrieve" /\ sparse.sparse = "done"
  BY <1>1 DEF CallRecords
<1>5. dense \in CallRecords /\ dense.pc = "retrieve" /\ dense.sparse = call[c].sparse
  BY <1>1 DEF CallRecords
<1>6. again \in CallRecords /\ again.pc = "retrieve" /\ again.sparse = call[c].sparse
  BY <1>1, <1>3 DEF CallRecords
<1> HIDE DEF sparse, dense, again
<1> QED
  BY <1>1, <1>2, <1>4, <1>5, <1>6, ArmMoves

LEMMA SearchAsksForAPool == ASSUME RagInvariant, NEW c \in Callers, PoolForSearch(c) PROVE RagInvariant'
<1> DEFINE opens == [call[c] EXCEPT !.sparse = "open pool"]
           searches == [call[c] EXCEPT !.sparse = "search"]
<1>1. call[c] \in CallRecords /\ call[c].pc = "retrieve" /\ At(c, "retrieve") /\ UNCHANGED stores
  BY DEF PoolForSearch, At, RagInvariant, RagTypes
<1>2. (~pool["bm25"] /\ Become(c, opens)) \/ Become(c, searches)
  BY DEF PoolForSearch, AskForPool
<1>3. opens \in CallRecords /\ opens.pc = "retrieve" /\ opens.sparse = "open pool"
  BY <1>1 DEF CallRecords
<1>4. searches \in CallRecords /\ searches.pc = "retrieve" /\ searches.sparse = "search"
  BY <1>1 DEF CallRecords
<1> HIDE DEF opens, searches
<1>5. CASE ~pool["bm25"] /\ Become(c, opens)
  <2>1. RagTypes'
    BY <1>1, <1>3, <1>5, Becoming DEF RagInvariant, RagTypes, stores
  <2>2. StoredInvariant'
    BY <1>1, <1>3, <1>5, StoredStays DEF RagInvariant, stores, Upserted
  <2>3. PoolInvariant'
    BY <1>1, <1>3, <1>5, PoolIsMissed DEF RagInvariant, stores, Opens, Pools
  <2> QED
    BY <2>1, <2>2, <2>3 DEF RagInvariant
<1>6. CASE Become(c, searches)
  BY <1>1, <1>4, <1>6, ArmMoves
<1> QED
  BY <1>2, <1>5, <1>6

LEMMA SearchOpensAPool == ASSUME RagInvariant, NEW c \in Callers, OpenPoolForSearch(c) PROVE RagInvariant'
<1> DEFINE n == [call[c] EXCEPT !.sparse = "search"]
<1>1. call[c] \in CallRecords /\ call[c].pc = "retrieve" /\ call[c].sparse = "open pool"
  BY DEF OpenPoolForSearch, At, RagInvariant, RagTypes
<1>2. Become(c, n) /\ Opened("bm25")
  BY DEF OpenPoolForSearch
<1>3. UNCHANGED <<collection, vectors, rows, stamped, found, begun, reported, lost>>
  BY DEF OpenPoolForSearch
<1>4. n \in CallRecords /\ n.pc = "retrieve" /\ n.sparse = "search"
  BY <1>1 DEF CallRecords
<1> HIDE DEF n
<1>5. PoolInvariant' /\ pool' \in [Pools -> BOOLEAN] /\ opened' \in [Pools -> Nat]
  BY <1>1, <1>2, <1>4, PoolOpens DEF RagInvariant, Opens, Pools
<1>6. RagTypes'
  BY <1>2, <1>3, <1>4, <1>5, Becoming DEF RagInvariant, RagTypes
<1>7. StoredInvariant'
  BY <1>2, <1>3, <1>4, StoredStays DEF RagInvariant, Upserted
<1> QED
  BY <1>5, <1>6, <1>7 DEF RagInvariant

LEMMA ArmsSearch ==
    ASSUME RagInvariant, NEW c \in Callers, SearchRows(c) \/ EmbedQuery(c) \/ SearchVectors(c)
    PROVE  RagInvariant'
<1> DEFINE ofRows == [call[c] EXCEPT !.sparse = "done", !.answer = @ \cup rows]
           embedded == [call[c] EXCEPT !.dense = "search"]
           ofVectors == [call[c] EXCEPT !.dense = "done", !.answer = @ \cup vectors]
<1>1. call[c] \in CallRecords /\ call[c].pc = "retrieve" /\ At(c, "retrieve") /\ UNCHANGED stores
  BY DEF SearchRows, EmbedQuery, SearchVectors, At, RagInvariant, RagTypes
<1>2. Become(c, ofRows) \/ Become(c, embedded) \/ Become(c, ofVectors)
  BY DEF SearchRows, EmbedQuery, SearchVectors
<1>3. rows \subseteq Chunks /\ vectors \subseteq Chunks
  BY DEF RagInvariant, RagTypes
<1>4. ofRows \in CallRecords /\ ofRows.pc = "retrieve" /\ ofRows.sparse = "done"
  BY <1>1, <1>3 DEF CallRecords
<1>5. embedded \in CallRecords /\ embedded.pc = "retrieve" /\ embedded.sparse = call[c].sparse
  BY <1>1 DEF CallRecords
<1>6. ofVectors \in CallRecords /\ ofVectors.pc = "retrieve" /\ ofVectors.sparse = call[c].sparse
  BY <1>1, <1>3 DEF CallRecords
<1> HIDE DEF ofRows, embedded, ofVectors
<1> QED
  BY <1>1, <1>2, <1>4, <1>5, <1>6, ArmMoves

LEMMA CachesAnswer == ASSUME RagInvariant, NEW c \in Callers, CacheAnswer(c) PROVE RagInvariant'
<1>1. call[c] \in CallRecords
  BY DEF RagInvariant, RagTypes
<1>2. call[c].answer \subseteq Chunks
  BY <1>1 DEF CallRecords
<1>3. Goto(c, "answered") /\ "answered" \in Phases
  BY DEF CacheAnswer, Phases
<1>4. PICK n \in CallRecords : Become(c, n) /\ n.pc = "answered"
  BY <1>3, Moving DEF RagInvariant
<1>5. /\ UNCHANGED <<collection, vectors, rows, stamped, pool, opened, begun, reported, lost>>
      /\ found' \in {found, call[c].answer}
  BY DEF CacheAnswer
<1>6. RagTypes'
  BY <1>2, <1>4, <1>5, Becoming DEF RagInvariant, RagTypes
<1>7. StoredInvariant'
  BY <1>4, <1>5, StoredStays DEF RagInvariant, Upserted
<1>8. PoolInvariant'
  BY <1>4, <1>5, PoolsStay DEF RagInvariant, Opens
<1> QED
  BY <1>6, <1>7, <1>8 DEF RagInvariant

LEMMA Searches == ASSUME RagInvariant, NEW c \in Callers, Retrieve(c) PROVE RagInvariant'
  BY ArmFailsKeeps, SearchAsksForAPool, SearchOpensAPool, ArmsSearch, CachesAnswer DEF Retrieve

LEMMA Begins ==
    ASSUME RagInvariant, NEW c \in Callers, BeginIndex(c) \/ BeginSearch(c)
    PROVE  RagInvariant'
<1>1. AtRest \in CallRecords
  BY DEF AtRest, CallRecords, Phases
<1>2. PICK n \in CallRecords : Become(c, n) /\ n.pc \in {"list", "read cache"}
  <2>1. CASE BeginIndex(c)
    <3>1. PICK wanted \in SUBSET Chunks, reindex \in BOOLEAN :
             Become(c, [AtRest EXCEPT !.pc = "list", !.wanted = wanted,
                                      !.left = IF reindex THEN {} ELSE wanted,
                                      !.todo = IF reindex THEN wanted ELSE {}])
      BY <2>1 DEF BeginIndex
    <3> DEFINE left == IF reindex THEN {} ELSE wanted
               todo == IF reindex THEN wanted ELSE {}
               n == [AtRest EXCEPT !.pc = "list", !.wanted = wanted,
                                   !.left = left, !.todo = todo]
    <3>2. left \in SUBSET Chunks /\ todo \in SUBSET Chunks
      OBVIOUS
    <3>3. Become(c, n)
      BY <3>1
    <3> HIDE DEF left, todo
    <3>4. n \in CallRecords /\ n.pc = "list"
      BY <1>1, <3>2 DEF CallRecords, Phases
    <3> HIDE DEF n
    <3> QED
      BY <3>3, <3>4
  <2>2. CASE BeginSearch(c)
    <3> DEFINE n == [AtRest EXCEPT !.pc = "read cache"]
    <3>1. Become(c, n)
      BY <2>2 DEF BeginSearch
    <3>2. n \in CallRecords /\ n.pc = "read cache"
      BY <1>1 DEF CallRecords, Phases
    <3> HIDE DEF n
    <3> QED
      BY <3>1, <3>2
  <2> QED
    BY <2>1, <2>2
<1>3. /\ UNCHANGED <<collection, vectors, rows, stamped, pool, opened, found, reported, lost>>
      /\ begun < MaxRequests /\ begun' = begun + 1
  BY DEF BeginIndex, BeginSearch
<1>4. begun' \in 0..MaxRequests
  <2>1. MaxRequests \in Nat /\ begun \in 0..MaxRequests
    BY RagAssumption DEF RagInvariant, RagTypes
  <2> QED
    BY <1>3, <2>1
<1>5. RagTypes'
  BY <1>2, <1>3, <1>4, Becoming DEF RagInvariant, RagTypes
<1>6. StoredInvariant'
  BY <1>2, <1>3, StoredStays DEF RagInvariant, Upserted
<1>7. PoolInvariant'
  BY <1>2, <1>3, PoolsStay DEF RagInvariant, Opens
<1> QED
  BY <1>5, <1>6, <1>7 DEF RagInvariant

-----------------------------------------------------------------------------
LEMMA NextInvariant == ASSUME RagInvariant, [RagNext]_ragVars PROVE RagInvariant'
<1>1. ASSUME NEW c \in Callers, BeginIndex(c) \/ BeginSearch(c) \/ CallStep(c)
      PROVE  RagInvariant'
  <2>1. CASE BeginIndex(c) \/ BeginSearch(c)
    BY <2>1, Begins
  <2>2. CASE CallStep(c)
    BY <2>2, Ensures, LooksUp, HasLookedUp, RunsPipeline, ReadsCache, Searches DEF CallStep
  <2> QED
    BY <1>1, <2>1, <2>2
<1>2. CASE AnswerExpires
  BY <1>2 DEF AnswerExpires, RagInvariant, RagTypes, StoredInvariant, PoolInvariant, Opening
<1>3. CASE UNCHANGED ragVars
  BY <1>3 DEF ragVars, RagInvariant, RagTypes, StoredInvariant, PoolInvariant, Opening
<1> QED
  BY <1>1, <1>2, <1>3 DEF RagNext

(***************************************************************************)
(* For any requests under way together: what was reported as indexed stays *)
(* stored, but for a collection that is dropped after it was recreated,    *)
(* and the pools of a service are at most as many as those requests.       *)
(***************************************************************************)
THEOREM RagInvariantHolds == RagSpec => []RagInvariant
<1>1. RagInit => RagInvariant
  BY InitInvariant
<1>2. RagInvariant /\ [RagNext]_ragVars => RagInvariant'
  BY NextInvariant
<1> QED
  BY <1>1, <1>2, PTL DEF RagSpec

\* What an answer counted as indexed has its vectors.
THEOREM ReportedIsStoredHolds == RagSpec => []ReportedIsStored
<1>1. RagInvariant => ReportedIsStored
  BY DEF RagInvariant, StoredInvariant, ReportedIsStored
<1> QED
  BY <1>1, RagInvariantHolds, PTL

\* A service opens no more pools than there are requests together.
THEOREM PoolsAreSharedHolds == RagSpec => []PoolsAreShared
<1>1. ASSUME RagInvariant PROVE PoolsAreShared
  <2> SUFFICES ASSUME NEW p \in Pools PROVE opened[p] <= Cardinality(Callers)
    BY DEF PoolsAreShared
  <2>1. opened[p] \in Nat /\ opened[p] + Cardinality(Opening(p)) <= Cardinality(Callers)
    BY <1>1 DEF RagInvariant, RagTypes, PoolInvariant
  <2>2. IsFiniteSet(Opening(p))
    BY CallersAssumption, FS_Subset DEF Opening
  <2>3. Cardinality(Opening(p)) \in Nat /\ Cardinality(Callers) \in Nat
    BY <2>2, CallersAssumption, FS_CardinalityType
  <2> QED
    BY <2>1, <2>3
<1> QED
  BY <1>1, RagInvariantHolds, PTL

-----------------------------------------------------------------------------
(***************************************************************************)
(* Connectors: AnswersComeOneWay.  What is there of a fetch while a way is *)
(* tried came in that way; the next one is tried with nothing in hand, and *)
(* a fetch with nothing in hand is never answered.                         *)
(***************************************************************************)
Origins == Folders \cup {LoginPage, NoFile}
Ways == {"graph", "http", "directory", "anywhere"}
Texts == [file : FileNames, from : Origins, way : Ways]

FetchRecords ==
    [pc : {"unasked", "connector", "construct", "ask", "audit", "verify", "graph", "parse graph", "http",
           "parse http", "directory", "anywhere", "answered", "refused"},
     source : Sources \cup {""}, folder : Folders \cup {""}, target : Targets \cup {NoFile}, token : BOOLEAN,
     listed : SUBSET FileNames, left : SUBSET FileNames, urls : Nat, texts : SUBSET Texts]

FetchTypes ==
    /\ fetch \in [Fetches -> FetchRecords]
    /\ temporary \in [FileNames -> Origins]
    /\ constructed \in [Cached -> Nat]

Came(r, way) == \A t \in r.texts : t.way = way

InOneWay(r) ==
    /\ r.pc \in {"parse graph", "parse http"} => r.left # {}
    /\ r.pc \in {"connector", "construct", "ask", "audit"} => r.source # "sharepoint"
    /\ r.pc \in {"connector", "construct"} => r.source \in Cached
    /\ r.pc \in {"verify", "graph", "parse graph", "http", "parse http", "directory", "anywhere"} =>
           r.folder \in Folders
    /\ r.pc \in {"verify", "directory", "anywhere"} => r.texts = {}
    /\ r.pc \in {"graph", "parse graph"} => Came(r, "graph")
    /\ r.pc \in {"http", "parse http"} => Came(r, "http")
    /\ r.pc = "answered" /\ r.source = "sharepoint" => r.texts # {} /\ \E way \in Ways : Came(r, way)

FetchInvariant == FetchTypes /\ \A f \in Fetches : InOneWay(fetch[f])

LEMMA FetchInitially == FetchInit => FetchInvariant
<1>1. SUFFICES ASSUME FetchInit PROVE FetchInvariant
  OBVIOUS
<1>2. Unasked \in FetchRecords
  BY DEF Unasked, FetchRecords
<1>3. InOneWay(Unasked)
  BY DEF InOneWay, Unasked
<1> QED
  BY <1>1, <1>2, <1>3 DEF FetchInit, FetchInvariant, FetchTypes, Origins

\* A step that makes something good of its own fetch keeps all of them good.
LEMMA OthersStay ==
    ASSUME FetchInvariant, NEW f \in Fetches, NEW new, Update(f, new), new \in FetchRecords, InOneWay(new),
           temporary' \in [FileNames -> Origins], constructed' \in [Cached -> Nat]
    PROVE  FetchInvariant'
<1>1. fetch' \in [Fetches -> FetchRecords] /\ \A g \in Fetches : fetch'[g] = IF g = f THEN new ELSE fetch[g]
  BY DEF FetchInvariant, FetchTypes, Update
<1>2. \A g \in Fetches : InOneWay(fetch'[g])
  BY <1>1 DEF FetchInvariant
<1> QED
  BY <1>1, <1>2 DEF FetchInvariant, FetchTypes

LEMMA Refusals ==
    ASSUME FetchInvariant, NEW f \in Fetches, Refuse(f), temporary' = temporary, constructed' = constructed
    PROVE  FetchInvariant'
<1> DEFINE new == [fetch[f] EXCEPT !.pc = "refused", !.texts = {}]
<1>1. new \in FetchRecords
  BY DEF FetchInvariant, FetchTypes, FetchRecords
<1>2. InOneWay(new)
  <2>1. new.pc = "refused"
    BY DEF FetchInvariant, FetchTypes, FetchRecords
  <2> QED
    BY <2>1 DEF InOneWay
<1> QED
  BY <1>1, <1>2, OthersStay DEF Refuse, FetchInvariant, FetchTypes

LEMMA AskingSources ==
    ASSUME FetchInvariant, NEW f \in Fetches,
           Dispatch(f) \/ LookUpConnector(f) \/ ConstructConnector(f) \/ AskSource(f) \/ StoreMetadata(f)
    PROVE  FetchInvariant'
<1> USE ConnectorsAssumption
<1>0. fetch[f] \in FetchRecords /\ InOneWay(fetch[f])
  BY DEF FetchInvariant, FetchTypes
<1>t. temporary' = temporary
  BY DEF Dispatch, LookUpConnector, ConstructConnector, AskSource, StoreMetadata
<1>1. CASE Dispatch(f)
  <2>1. PICK s \in Sources, folder \in Folders, target \in Targets, token \in BOOLEAN :
          Update(f, [Unasked EXCEPT !.source = s, !.folder = folder, !.target = target, !.token = token,
                                    !.pc = CASE s \in Cached -> "connector"
                                             [] s = "ado" -> "ask"
                                             [] s = "sharepoint" -> "verify"])
    BY <1>1 DEF Dispatch
  <2> DEFINE pc == CASE s \in Cached -> "connector"
                     [] s = "ado" -> "ask"
                     [] s = "sharepoint" -> "verify"
             new == [Unasked EXCEPT !.source = s, !.folder = folder, !.target = target, !.token = token, !.pc = pc]
  <2>2. \/ pc = "connector" /\ s \in Cached
        \/ pc = "ask" /\ s = "ado"
        \/ pc = "verify" /\ s = "sharepoint"
    BY DEF Cached
  <2> HIDE DEF pc
  <2>3. new \in FetchRecords
    BY <2>2 DEF FetchRecords, Unasked
  <2>4. InOneWay(new)
    BY <2>2 DEF InOneWay, Unasked, Cached
  <2> QED
    BY <2>1, <2>3, <2>4, <1>1, <1>t, OthersStay DEF pc, Dispatch, cacheOfConnectors, FetchInvariant, FetchTypes
<1> DEFINE Gone(pc) == [fetch[f] EXCEPT !.pc = pc]
<1>2. CASE LookUpConnector(f)
  <2>1. PICK pc \in {"ask", "construct"} : Update(f, Gone(pc))
    BY <1>2 DEF LookUpConnector, GoTo
  <2>2. Gone(pc) \in FetchRecords
    BY <1>0 DEF FetchRecords
  <2>3. InOneWay(Gone(pc))
    BY <1>0, <1>2 DEF InOneWay, FetchRecords, LookUpConnector, In
  <2> QED
    BY <2>1, <2>2, <2>3, <1>2, <1>t, OthersStay DEF LookUpConnector, cacheOfConnectors, FetchInvariant, FetchTypes
<1>3. CASE ConstructConnector(f)
  <2>1. CASE Refuse(f) /\ UNCHANGED cacheOfConnectors
    BY <2>1, <1>t, Refusals DEF cacheOfConnectors
  <2>2. CASE constructed' = [constructed EXCEPT ![fetch[f].source] = @ + 1] /\ GoTo(f, "ask")
    <3>1. Gone("ask") \in FetchRecords
      BY <1>0 DEF FetchRecords
    <3>2. InOneWay(Gone("ask"))
      BY <1>0, <1>3 DEF InOneWay, FetchRecords, ConstructConnector, In
    <3>3. constructed' \in [Cached -> Nat]
      <4>1. fetch[f].source \in Cached
        BY <1>0, <1>3 DEF InOneWay, ConstructConnector, In
      <4>2. constructed \in [Cached -> Nat]
        BY DEF FetchInvariant, FetchTypes
      <4> QED
        BY <4>1, <4>2, <2>2
    <3>4. temporary' \in [FileNames -> Origins]
      BY <1>t DEF FetchInvariant, FetchTypes
    <3>5. Update(f, Gone("ask"))
      BY <2>2 DEF GoTo
    <3> HIDE DEF Gone
    <3> QED
      BY <3>1, <3>2, <3>3, <3>4, <3>5, OthersStay
  <2> QED
    BY <1>3, <2>1, <2>2 DEF ConstructConnector
<1>4. CASE AskSource(f)
  <2>1. CASE Refuse(f)
    BY <2>1, <1>4, <1>t, Refusals DEF AskSource, cacheOfConnectors
  <2>2. CASE GoTo(f, IF fetch[f].source \in Cached THEN "audit" ELSE "answered")
    <3>1. PICK pc \in {"audit", "answered"} : Update(f, Gone(pc))
      BY <2>2 DEF GoTo
    <3>2. Gone(pc) \in FetchRecords
      BY <1>0 DEF FetchRecords
    <3>3. InOneWay(Gone(pc))
      BY <1>0, <1>4 DEF InOneWay, FetchRecords, AskSource, In
    <3> QED
      BY <3>1, <3>2, <3>3, <1>4, <1>t, OthersStay DEF AskSource, cacheOfConnectors, FetchInvariant, FetchTypes
  <2> QED
    BY <1>4, <2>1, <2>2 DEF AskSource
<1>5. CASE StoreMetadata(f)
  <2>1. Update(f, Gone("answered"))
    BY <1>5 DEF StoreMetadata, GoTo
  <2>2. Gone("answered") \in FetchRecords
    BY <1>0 DEF FetchRecords
  <2>3. InOneWay(Gone("answered"))
    BY <1>0, <1>5 DEF InOneWay, FetchRecords, StoreMetadata, In
  <2> QED
    BY <2>1, <2>2, <2>3, <1>5, <1>t, OthersStay DEF StoreMetadata, cacheOfConnectors, FetchInvariant, FetchTypes
<1> QED
  BY <1>1, <1>2, <1>3, <1>4, <1>5

LEMMA Verifying ==
    ASSUME FetchInvariant, NEW f \in Fetches, Verify(f)
    PROVE  FetchInvariant'
<1> USE ConnectorsAssumption
<1>0. fetch[f] \in FetchRecords /\ InOneWay(fetch[f]) /\ fetch[f].pc = "verify" /\ fetch[f].folder \in Folders
  BY DEF FetchInvariant, FetchTypes, Verify, VerifyByGraph, VerifyByRest, VerifyByDirectory, In, InOneWay
<1>t. temporary' = temporary /\ constructed' = constructed
  BY DEF Verify, VerifyByGraph, VerifyByRest, VerifyByDirectory, cacheOfConnectors
<1>1. CASE Refuse(f)
  BY <1>1, <1>t, Refusals
<1>2. ASSUME NEW files \in SUBSET FileNames, NEW way \in {"graph", "http"}, Found(f, files, way)
      PROVE  FetchInvariant'
  <2> DEFINE new == [fetch[f] EXCEPT !.listed = files, !.left = files, !.pc = way]
  <2>1. new \in FetchRecords
    BY <1>0 DEF FetchRecords
  <2>2. InOneWay(new)
    BY <1>0 DEF InOneWay, FetchRecords, Came
  <2> QED
    BY <1>2, <2>1, <2>2, <1>t, OthersStay DEF Found, FetchInvariant, FetchTypes
<1>3. /\ Wanted(f, remote[fetch[f].folder]) \subseteq FileNames
      /\ Wanted(f, uploaded[fetch[f].folder]) \subseteq FileNames
  BY <1>0 DEF Wanted
<1> QED
  BY <1>1, <1>2, <1>3 DEF Verify, VerifyByGraph, VerifyByRest, VerifyByDirectory

LEMMA Texting ==
    ASSUME NEW r \in FetchRecords, NEW t \in Texts
    PROVE  [r EXCEPT !.texts = @ \cup {t}] \in FetchRecords
BY DEF FetchRecords

LEMMA FetchingDocuments ==
    ASSUME FetchInvariant, NEW f \in Fetches, FetchDocuments(f)
    PROVE  FetchInvariant'
<1> USE ConnectorsAssumption
<1>0. fetch[f] \in FetchRecords /\ InOneWay(fetch[f]) /\ fetch[f].left \subseteq FileNames
  BY DEF FetchInvariant, FetchTypes, FetchRecords
<1>c. constructed' = constructed /\ constructed \in [Cached -> Nat] /\ temporary \in [FileNames -> Origins]
  BY DEF FetchDocuments, DownloadByGraph, ParseFromGraph, EndOfGraph, DownloadByHttp, ParseFromHttp,
         EndOfHttp, ReadDirectory, SearchUploads, cacheOfConnectors, FetchInvariant, FetchTypes
<1> DEFINE Gone(pc) == [fetch[f] EXCEPT !.pc = pc]
           Going(pc) == [Skipped(f) EXCEPT !.pc = pc]
<1>s. ASSUME NEW pc \in {"graph", "http"}, fetch[f].pc \in {pc, "parse graph", "parse http"},
             Came(fetch[f], pc), fetch[f].folder \in Folders
      PROVE  Going(pc) \in FetchRecords /\ InOneWay(Going(pc))
  <2>1. Going(pc) \in FetchRecords
    BY <1>0 DEF Skipped, FetchRecords
  <2>2. Going(pc).pc = pc /\ Going(pc).texts = fetch[f].texts /\ Going(pc).folder = fetch[f].folder
    BY <1>0 DEF Skipped, FetchRecords
  <2> HIDE DEF Going
  <2> QED
    BY <2>1, <2>2, <1>s DEF InOneWay, Came
<1>k. ASSUME temporary' = temporary, NEW new, Update(f, new), new \in FetchRecords, InOneWay(new)
      PROVE  FetchInvariant'
  BY <1>k, <1>c, OthersStay
<1>p. ASSUME fetch[f].left # {}, NEW from \in Origins, NEW pc \in {"parse graph", "parse http"},
             Save(f, from, pc), fetch[f].folder \in Folders,
             Came(fetch[f], IF pc = "parse graph" THEN "graph" ELSE "http")
      PROVE  FetchInvariant'
  <2>1. File(f) \in FileNames
    BY <1>0, <1>p DEF File
  <2>2. temporary' \in [FileNames -> Origins]
    BY <2>1, <1>c, <1>p DEF Save
  <2>3. Gone(pc) \in FetchRecords
    BY <1>0, <1>p DEF FetchRecords
  <2>4. Gone(pc).pc = pc /\ Gone(pc).texts = fetch[f].texts /\ Gone(pc).folder = fetch[f].folder
        /\ Gone(pc).left = fetch[f].left
    BY <1>0 DEF FetchRecords
  <2>5. Update(f, Gone(pc))
    BY <1>p DEF Save, GoTo
  <2> HIDE DEF Gone
  <2>6. InOneWay(Gone(pc))
    BY <2>4, <1>p DEF InOneWay, Came
  <2> QED
    BY <2>2, <2>3, <2>5, <2>6, <1>c, OthersStay
<1>x. ASSUME NEW way \in {"graph", "http"}, fetch[f].left # {}, fetch[f].folder \in Folders, Came(fetch[f], way),
             fetch[f].pc \in {"parse graph", "parse http"}
      PROVE  Parsed(f, way) \in FetchRecords /\ InOneWay(Parsed(f, way))
  <2> DEFINE t == [file |-> File(f), from |-> temporary[File(f)], way |-> way]
  <2>1. t \in Texts
    BY <1>0, <1>c, <1>x DEF File, Texts, Ways
  <2>2. Parsed(f, way) = [Going(way) EXCEPT !.texts = @ \cup {t}]
    BY <1>0 DEF Parsed, Skipped, FetchRecords
  <2>3. Going(way) \in FetchRecords
    BY <1>s, <1>x
  <2>4. Parsed(f, way) \in FetchRecords
    <3> HIDE DEF t, Going
    <3> QED
      BY <2>1, <2>2, <2>3, Texting, Zenon
  <2>5. /\ Parsed(f, way).pc = way /\ Parsed(f, way).texts = fetch[f].texts \cup {t}
        /\ Parsed(f, way).folder = fetch[f].folder
    BY <1>0 DEF Parsed, Skipped, FetchRecords
  <2>6. InOneWay(Parsed(f, way))
    <3>1. t.way = way
      OBVIOUS
    <3> HIDE DEF t
    <3> QED
      BY <2>5, <1>x, <3>1 DEF InOneWay, Came
  <2> QED
    BY <2>4, <2>6
<1>1. CASE DownloadByGraph(f)
  <2>1. fetch[f].pc = "graph" /\ fetch[f].left # {} /\ Came(fetch[f], "graph") /\ fetch[f].folder \in Folders
    BY <1>0, <1>1 DEF DownloadByGraph, In, InOneWay
  <2>2. CASE Save(f, fetch[f].folder, "parse graph")
    BY <2>1, <2>2, <1>p DEF Origins
  <2>3. CASE Update(f, Skipped(f)) /\ UNCHANGED temporary
    <3>1. Skipped(f) = Going("graph")
      BY <2>1, <1>0 DEF Skipped, FetchRecords
    <3> QED
      BY <3>1, <2>1, <2>3, <1>s, <1>k
  <2> QED
    BY <1>1, <2>2, <2>3 DEF DownloadByGraph
<1>2. CASE ParseFromGraph(f)
  <2>1. fetch[f].pc = "parse graph" /\ fetch[f].left # {} /\ Came(fetch[f], "graph") /\ fetch[f].folder \in Folders
    BY <1>0, <1>2 DEF ParseFromGraph, In, InOneWay
  <2>2. Update(f, Parsed(f, "graph")) \/ Update(f, Going("graph"))
    BY <1>2 DEF ParseFromGraph
  <2> QED
    BY <2>1, <2>2, <1>2, <1>s, <1>x, <1>k DEF ParseFromGraph
<1>h. ASSUME fetch[f].folder \in Folders, Came(fetch[f], "http"), fetch[f].pc \in {"http", "parse http"}
      PROVE  NextUrl(f) \in FetchRecords /\ InOneWay(NextUrl(f))
  <2> DEFINE again == [fetch[f] EXCEPT !.urls = @ + 1, !.pc = "http"]
  <2>1. again \in FetchRecords /\ InOneWay(again)
    <3>1. again \in FetchRecords
      <4>0. fetch[f].urls \in Nat
        BY <1>0 DEF FetchRecords
      <4>1. fetch[f].urls + 1 \in Nat
        BY <4>0
      <4> DEFINE more == fetch[f].urls + 1
      <4> HIDE DEF more
      <4>2. [fetch[f] EXCEPT !.urls = more, !.pc = "http"] \in FetchRecords
        BY <1>0, <4>1 DEF FetchRecords, more
      <4> QED
        BY <4>2 DEF more
    <3>2. again.pc = "http" /\ again.texts = fetch[f].texts /\ again.folder = fetch[f].folder
      BY <1>0 DEF FetchRecords
    <3> HIDE DEF again
    <3> QED
      BY <3>1, <3>2, <1>h DEF InOneWay, Came
  <2>2. Going("http") \in FetchRecords /\ InOneWay(Going("http"))
    BY <1>h, <1>s
  <2>3. NextUrl(f) = again \/ NextUrl(f) = Going("http")
    BY DEF NextUrl
  <2> QED
    BY <2>1, <2>2, <2>3
<1>3. CASE DownloadByHttp(f)
  <2>1. fetch[f].pc = "http" /\ fetch[f].left # {} /\ Came(fetch[f], "http") /\ fetch[f].folder \in Folders
    BY <1>0, <1>3 DEF DownloadByHttp, In, InOneWay
  <2>2. CASE \E from \in Served(f) : Save(f, from, "parse http")
    BY <2>1, <2>2, <1>p DEF Origins, Served
  <2>3. CASE Update(f, NextUrl(f)) /\ UNCHANGED temporary
    BY <2>1, <2>3, <1>h, <1>k
  <2>4. CASE Update(f, Skipped(f)) /\ UNCHANGED temporary
    <3>1. Skipped(f) = Going("http")
      BY <2>1, <1>0 DEF Skipped, FetchRecords
    <3> QED
      BY <3>1, <2>1, <2>4, <1>s, <1>k
  <2> QED
    BY <1>3, <2>2, <2>3, <2>4 DEF DownloadByHttp
<1>4. CASE ParseFromHttp(f)
  <2>1. fetch[f].pc = "parse http" /\ fetch[f].left # {} /\ Came(fetch[f], "http") /\ fetch[f].folder \in Folders
    BY <1>0, <1>4 DEF ParseFromHttp, In, InOneWay
  <2> QED
    BY <2>1, <1>4, <1>h, <1>x, <1>k DEF ParseFromHttp
<1>5. CASE EndOfGraph(f)
  <2> DEFINE new == [fetch[f] EXCEPT !.pc = Way(f, "http"), !.left = fetch[f].listed]
  <2>1. fetch[f].pc = "graph" /\ Came(fetch[f], "graph") /\ fetch[f].folder \in Folders
    BY <1>0, <1>5 DEF EndOfGraph, In, InOneWay
  <2>2. new \in FetchRecords
    BY <1>0 DEF FetchRecords, Way
  <2>3. new.pc = Way(f, "http") /\ new.texts = fetch[f].texts /\ new.folder = fetch[f].folder
    BY <1>0 DEF FetchRecords
  <2>5. Update(f, new) /\ temporary' = temporary
    BY <1>5 DEF EndOfGraph
  <2> HIDE DEF new
  <2>4. InOneWay(new)
    BY <2>1, <2>3 DEF InOneWay, Came, Way, Ways
  <2> QED
    BY <2>2, <2>4, <2>5, <1>k
<1>6. CASE EndOfHttp(f)
  <2>1. fetch[f].pc = "http" /\ Came(fetch[f], "http") /\ fetch[f].folder \in Folders
    BY <1>0, <1>6 DEF EndOfHttp, In, InOneWay
  <2>2. Gone(Way(f, "directory")) \in FetchRecords
    BY <1>0 DEF FetchRecords, Way
  <2>3. /\ Gone(Way(f, "directory")).pc = Way(f, "directory") /\ Gone(Way(f, "directory")).texts = fetch[f].texts
        /\ Gone(Way(f, "directory")).folder = fetch[f].folder
    BY <1>0 DEF FetchRecords
  <2>4. Update(f, Gone(Way(f, "directory"))) /\ temporary' = temporary
    BY <1>6 DEF EndOfHttp, GoTo
  <2> HIDE DEF Gone
  <2>5. InOneWay(Gone(Way(f, "directory")))
    BY <2>1, <2>3 DEF InOneWay, Came, Way, Ways
  <2> QED
    BY <2>2, <2>4, <2>5, <1>k
<1>7. CASE ReadDirectory(f)
  <2>1. fetch[f].pc = "directory" /\ fetch[f].folder \in Folders
    BY <1>0, <1>7 DEF ReadDirectory, In, InOneWay
  <2> DEFINE Read(files) == {[file |-> name, from |-> fetch[f].folder, way |-> "directory"] : name \in files}
             new(files) == [fetch[f] EXCEPT !.pc = IF files = {} THEN "anywhere" ELSE "answered",
                                            !.texts = Read(files)]
  <2>2. PICK files \in SUBSET Wanted(f, uploaded[fetch[f].folder]) : Update(f, new(files))
    BY <1>7 DEF ReadDirectory
  <2>3. files \subseteq FileNames
    BY <2>1, <2>2 DEF Wanted
  <2>4. Read(files) \subseteq Texts
    BY <2>3, <2>1 DEF Texts, Origins, Ways
  <2>5. (\A t \in Read(files) : t.way = "directory") /\ (Read(files) = {} <=> files = {})
    <3>1. \A name \in files : [file |-> name, from |-> fetch[f].folder, way |-> "directory"] \in Read(files)
      OBVIOUS
    <3>2. \A t \in Read(files) : t.way = "directory" /\ \E name \in files : TRUE
      OBVIOUS
    <3> HIDE DEF Read
    <3> QED
      BY <3>1, <3>2
  <2> HIDE DEF Read
  <2>6. new(files) \in FetchRecords
    BY <1>0, <2>4 DEF FetchRecords
  <2>7. /\ new(files).pc = (IF files = {} THEN "anywhere" ELSE "answered")
        /\ new(files).texts = Read(files) /\ new(files).folder = fetch[f].folder
    BY <1>0 DEF FetchRecords
  <2> HIDE DEF new
  <2>8. InOneWay(new(files))
    BY <2>1, <2>5, <2>7 DEF InOneWay, Came, Ways
  <2> QED
    BY <2>2, <2>6, <2>8, <1>7, <1>k DEF ReadDirectory
<1>8. CASE SearchUploads(f)
  <2>1. CASE Refuse(f)
    BY <2>1, <1>8, <1>c, Refusals DEF SearchUploads
  <2> DEFINE text(from) == [file |-> fetch[f].target, from |-> from, way |-> "anywhere"]
             new(from) == [fetch[f] EXCEPT !.pc = "answered", !.texts = {text(from)}]
  <2>2. CASE fetch[f].target # NoFile /\ \E from \in NamedLike(fetch[f].target) : Update(f, new(from))
    <3>1. PICK from \in NamedLike(fetch[f].target) : Update(f, new(from))
      BY <2>2
    <3>2. fetch[f].target \in FileNames /\ fetch[f].target \in Targets
      BY <2>2, <1>0 DEF FetchRecords
    <3>3. from \in Origins
      BY <3>1, <3>2, <1>c DEF NamedLike, Origins
    <3>4. text(from) \in Texts /\ text(from).way = "anywhere"
      BY <3>2, <3>3 DEF Texts, Ways
    <3> HIDE DEF text
    <3>5. new(from) \in FetchRecords
      BY <1>0, <3>4 DEF FetchRecords
    <3>6. new(from).pc = "answered" /\ new(from).texts = {text(from)}
      BY <1>0 DEF FetchRecords
    <3> HIDE DEF new
    <3>7. InOneWay(new(from))
      BY <3>4, <3>6 DEF InOneWay, Came, Ways
    <3>8. Update(f, new(from)) /\ temporary' = temporary
      BY <3>1, <1>8 DEF SearchUploads
    <3> QED
      BY <3>5, <3>7, <3>8, <1>k
  <2> QED
    BY <1>8, <2>1, <2>2 DEF SearchUploads
<1> QED
  BY <1>1, <1>2, <1>3, <1>4, <1>5, <1>6, <1>7, <1>8 DEF FetchDocuments

LEMMA FetchInvariantKept == FetchInvariant /\ [FetchNext]_fetchVars => FetchInvariant'
<1>1. CASE UNCHANGED fetchVars
  BY <1>1 DEF fetchVars, FetchInvariant, FetchTypes
<1>2. ASSUME FetchInvariant, FetchNext PROVE FetchInvariant'
  BY <1>2, AskingSources, Verifying, FetchingDocuments DEF FetchNext, FetchStep
<1> QED
  BY <1>1, <1>2

LEMMA OneWayFollows == FetchInvariant => AnswersComeOneWay
<1> SUFFICES ASSUME FetchInvariant, NEW f \in Fetches, In(f, "answered"), fetch[f].source = "sharepoint"
             PROVE  Cardinality({t.way : t \in fetch[f].texts}) = 1
  BY DEF AnswersComeOneWay
<1>1. PICK way : Came(fetch[f], way) /\ fetch[f].texts # {}
  BY DEF FetchInvariant, InOneWay, In
<1>2. {t.way : t \in fetch[f].texts} = {way}
  BY <1>1 DEF Came
<1> QED
  BY <1>2, FS_Singleton

(***************************************************************************)
(* For any number of fetches, folders and files, and whatever the tries    *)
(* come to: an answer from SharePoint has documents, and all of them were  *)
(* got at in the same way.                                                 *)
(***************************************************************************)
THEOREM AnswersComeOneWayHolds == FetchSpec => []AnswersComeOneWay
<1>1. FetchSpec => []FetchInvariant
  BY FetchInitially, FetchInvariantKept, PTL DEF FetchSpec
<1> QED
  BY <1>1, OneWayFollows, PTL


-----------------------------------------------------------------------------
(***************************************************************************)
(* Preprocessing: ResultsAreWhole.  A run at work has labelled its chunks  *)
(* up to the end of a batch; what a batch was given and what is still to   *)
(* be asked of it make up the batch, however often it was halved; and what *)
(* the run has, or found in the cache, is from a run that began before the *)
(* text was read.                                                          *)
(***************************************************************************)
Givers == {"model", "fallback model", "local"}
Ranges == [first : Int, last : Int]

RunRecords ==
    [pc : {"idle", "look up", "download", "import", "label", "ask", "fall back", "store", "returned", "failed"},
     begin : Nat, text : Nat, owner : SUBSET Runs, length : Nat, start : Nat,
     asks : Seq(Ranges), given : Seq(Givers), labels : Seq(Givers)]

Uniform(labels) == \A i, j \in 1..Len(labels) : BatchOf(i) = BatchOf(j) => labels[i] = labels[j]
FullBatches(labels) == \E k \in Nat : Len(labels) = k * BatchSize

\* Of a run that began; runs: the function run.
MadeBy(e, runs) == \E s \in Runs : e.owner = {s} /\ runs[s].pc # "idle" /\ runs[s].begin <= e.text
WholeEntry(e) == Len(e.labels) = e.length /\ Uniform(e.labels)

EndOf(e) == IF e.start + BatchSize - 1 < e.length THEN e.start + BatchSize - 1 ELSE e.length

\* The ranges lie one behind the other, from one place to another.
Tiles(asks, from, end) ==
    /\ asks = << >> => from = end + 1
    /\ asks # << >> => asks[1].first = from /\ asks[Len(asks)].last = end
    /\ \A i \in 1..Len(asks) : asks[i].first <= asks[i].last
    /\ \A i \in 1..(Len(asks) - 1) : asks[i].last + 1 = asks[i + 1].first

OfModel(given) == \A i \in 1..Len(given) : given[i] = "model"
AskedFor(e) == OfModel(e.given) /\ Tiles(e.asks, e.start + Len(e.given), EndOf(e))

OfRun(r, e) ==
    /\ e.begin <= edition
    /\ e.pc \in {"idle", "look up", "download", "import"} => e.labels = << >> /\ e.start = 1
    /\ e.pc = "import" /\ kind = "onedrive" => e.begin <= e.text
    /\ e.pc \in {"label", "ask", "fall back", "store"} =>
           /\ e.owner = {r} /\ e.begin <= e.text
           /\ Uniform(e.labels) /\ e.start = Len(e.labels) + 1 /\ Len(e.labels) <= e.length
    /\ e.pc \in {"label", "ask", "fall back"} => Len(e.labels) = e.length \/ FullBatches(e.labels)
    /\ e.pc \in {"ask", "fall back"} => Len(e.labels) < e.length
    /\ e.pc = "ask" => AskedFor(e)
    /\ e.pc = "store" => Len(e.labels) = e.length

Entries == [text : Nat, owner : SUBSET Runs, length : Nat, labels : Seq(Givers)]

PreTypes == edition \in Nat /\ run \in [Runs -> RunRecords]
EntryInvariant == cached # NoEntry => cached \in Entries /\ WholeEntry(cached) /\ MadeBy(cached, run)
ReturnedInvariant == \A r \in Runs : run[r].pc = "returned" => WholeEntry(run[r]) /\ MadeBy(run[r], run)

PreInvariant == PreTypes /\ EntryInvariant /\ ReturnedInvariant /\ \A r \in Runs : OfRun(r, run[r])

LEMMA Nothing == ASSUME NEW S PROVE << >> \in Seq(S)
OBVIOUS

LEMMA FreshRecord == Fresh \in RunRecords
<1>1. << >> \in Seq(Ranges)
  BY Nothing
<1>2. << >> \in Seq(Givers)
  BY Nothing
<1> QED
  BY <1>1, <1>2 DEF Fresh, RunRecords

LEMMA FreshRecords ==
    ASSUME NEW pc \in {"idle", "look up", "failed"}, NEW n \in Nat
    PROVE  [Fresh EXCEPT !.pc = pc] \in RunRecords /\ [Fresh EXCEPT !.begin = n] \in RunRecords
BY FreshRecord DEF RunRecords

LEMMA PreInitially == PreInit => PreInvariant
<1> SUFFICES ASSUME PreInit PROVE PreInvariant
  OBVIOUS
<1> DEFINE idle == [Fresh EXCEPT !.pc = "idle"]
<1>1. idle \in RunRecords
  BY FreshRecords
<1>2. idle.pc = "idle" /\ idle.begin = 0 /\ idle.labels = << >> /\ idle.start = 1
  BY DEF Fresh
<1> HIDE DEF idle
<1>3. run = [r \in Runs |-> idle] /\ edition = 0 /\ cached = NoEntry
  BY DEF PreInit, idle
<1>4. \A r \in Runs : OfRun(r, run[r])
  <2>1. \A r \in Runs : OfRun(r, idle)
    BY <1>2, <1>3 DEF OfRun
  <2> QED
    BY <1>3, <2>1
<1> QED
  BY <1>1, <1>2, <1>3, <1>4 DEF PreInvariant, PreTypes, EntryInvariant, ReturnedInvariant

\* A step that leaves the source alone makes something good of one run, and maybe an entry.
LEMMA OtherRunsStay ==
    ASSUME PreInvariant, NEW r \in Runs, NEW new \in RunRecords, Set(r, new), UNCHANGED <<kind, edition>>,
           new.pc # "idle", run[r].pc = "idle" \/ new.begin <= run[r].begin, OfRun(r, new),
           new.pc = "returned" => WholeEntry(new) /\ MadeBy(new, run'),
           \/ cached' \in {cached, NoEntry}
           \/ cached' \in Entries /\ WholeEntry(cached') /\ MadeBy(cached', run')
    PROVE  PreInvariant'
<1>1. run \in [Runs -> RunRecords] /\ edition \in Nat
  BY DEF PreInvariant, PreTypes
<1>2. run' \in [Runs -> RunRecords] /\ \A s \in Runs : run'[s] = IF s = r THEN new ELSE run[s]
  BY <1>1 DEF Set
<1>3. ASSUME NEW e, MadeBy(e, run), e.text \in Nat PROVE MadeBy(e, run')
  <2>1. PICK s \in Runs : e.owner = {s} /\ run[s].pc # "idle" /\ run[s].begin <= e.text
    BY <1>3 DEF MadeBy
  <2>2. run'[s].pc # "idle" /\ run'[s].begin <= run[s].begin
    <3>1. \A q \in RunRecords : q.begin \in Nat
      BY DEF RunRecords
    <3>2. CASE s = r
      BY <1>2, <2>1, <3>2
    <3>3. CASE s # r
      BY <1>1, <1>2, <2>1, <3>1, <3>3
    <3> QED
      BY <3>2, <3>3
  <2>3. run'[s].begin \in Nat /\ run[s].begin \in Nat
    BY <1>1, <1>2 DEF RunRecords
  <2>4. run'[s].begin <= e.text
    BY <2>1, <2>2, <2>3, <1>3
  <2> QED
    BY <2>1, <2>2, <2>4 DEF MadeBy
<1>4. PICK entry : entry = cached'
  OBVIOUS
<1>5. entry # NoEntry => entry \in Entries /\ WholeEntry(entry) /\ MadeBy(entry, run')
  <2>1. CASE cached' \in {cached, NoEntry}
    <3>1. ASSUME entry = cached, cached # NoEntry
          PROVE  entry \in Entries /\ WholeEntry(entry) /\ MadeBy(entry, run')
      <4>1. cached \in Entries /\ WholeEntry(cached) /\ MadeBy(cached, run)
        BY <3>1 DEF PreInvariant, EntryInvariant
      <4>2. cached.text \in Nat
        BY <4>1 DEF Entries
      <4> QED
        BY <3>1, <4>1, <4>2, <1>3
    <3> QED
      BY <2>1, <1>4, <3>1
  <2>2. CASE cached' \in Entries /\ WholeEntry(cached') /\ MadeBy(cached', run')
    BY <2>2, <1>4
  <2> QED
    BY <2>1, <2>2
<1>6. EntryInvariant'
  BY <1>4, <1>5 DEF EntryInvariant, MadeBy, WholeEntry, Uniform
<1>7. \A s \in Runs : run'[s].pc = "returned" => WholeEntry(run'[s]) /\ MadeBy(run'[s], run')
  <2> TAKE s \in Runs
  <2>1. CASE s = r
    BY <2>1, <1>2
  <2>2. CASE s # r
    <3>1. run'[s] = run[s] /\ run[s].text \in Nat
      BY <1>1, <1>2, <2>2 DEF RunRecords
    <3> QED
      BY <3>1, <1>3 DEF PreInvariant, ReturnedInvariant
  <2> QED
    BY <2>1, <2>2
<1>8. \A s \in Runs : OfRun(s, run'[s])
  BY <1>2 DEF PreInvariant
<1>9. ReturnedInvariant'
  BY <1>7 DEF ReturnedInvariant, MadeBy, WholeEntry, Uniform
<1>10. (\A s \in Runs : OfRun(s, run[s]))'
  BY <1>8 DEF OfRun, Uniform, FullBatches
<1> QED
  BY <1>1, <1>2, <1>6, <1>9, <1>10 DEF PreInvariant, PreTypes

LEMMA Failing ==
    ASSUME PreInvariant, NEW r \in Runs, Fail(r)
    PROVE  PreInvariant'
<1> DEFINE new == [Fresh EXCEPT !.pc = "failed"]
<1>1. new \in RunRecords
  BY FreshRecords
<1>2. new.pc = "failed" /\ new.begin = 0
  BY DEF Fresh
<1>3. Set(r, new) /\ UNCHANGED <<kind, edition, cached>>
  BY DEF Fail
<1> HIDE DEF new
<1>4. edition \in Nat /\ run[r].begin \in Nat
  BY DEF PreInvariant, PreTypes, RunRecords
<1>5. OfRun(r, new)
  BY <1>2, <1>4 DEF OfRun
<1> QED
  BY <1>1, <1>2, <1>3, <1>4, <1>5, OtherRunsStay

LEMMA EditsAndExpiry ==
    ASSUME PreInvariant, Edit \/ EntryExpires
    PROVE  PreInvariant'
<1>1. run' = run /\ kind' = kind /\ edition \in Nat /\ edition' \in Nat /\ edition <= edition'
  BY DEF Edit, EntryExpires, PreInvariant, PreTypes
<1>2. EntryInvariant'
  <2>1. cached' = cached \/ cached' = NoEntry
    BY DEF Edit, EntryExpires
  <2> QED
    BY <1>1, <2>1 DEF PreInvariant, EntryInvariant, MadeBy, WholeEntry, Uniform
<1>3. ReturnedInvariant'
  BY <1>1 DEF PreInvariant, ReturnedInvariant, MadeBy, WholeEntry, Uniform
<1>4. ASSUME NEW s \in Runs PROVE OfRun(s, run[s])'
  <2>1. OfRun(s, run[s]) /\ run[s].begin \in Nat
    BY DEF PreInvariant, PreTypes, RunRecords
  <2>2. run[s].begin <= edition'
    <3>1. run[s].begin <= edition
      BY <2>1 DEF OfRun
    <3> QED
      BY <1>1, <2>1, <3>1
  <2> QED
    BY <1>1, <2>1, <2>2 DEF OfRun, Uniform, FullBatches
<1> QED
  BY <1>1, <1>2, <1>3, <1>4 DEF PreInvariant, PreTypes

\* A step of a run that neither begins, returns nor labels
LEMMA Moves ==
    ASSUME PreInvariant, NEW r \in Runs, NEW new \in RunRecords, Set(r, new), UNCHANGED <<kind, edition, cached>>,
           new.pc \notin {"idle", "returned"}, new.begin = run[r].begin, OfRun(r, new)
    PROVE  PreInvariant'
<1>1. new.begin \in Nat
  BY DEF RunRecords
<1> QED
  BY <1>1, OtherRunsStay

\* Chunks on the two sides of the end of a batch are of different batches.
LEMMA BatchesApart ==
    ASSUME NEW k \in Nat, NEW i \in Nat, NEW j \in Nat, 0 < i, i <= k * BatchSize, k * BatchSize < j
    PROVE  BatchOf(i) # BatchOf(j)
<1> DEFINE b == BatchSize
           p == (i - 1) \div b
           q == (j - 1) \div b
<1>1. b \in Nat /\ b > 0
  BY PreprocessingAssumption
<1>2. p \in Int /\ p * b <= i - 1
  BY <1>1
<1>3. q \in Int /\ j - 1 < (q + 1) * b
  BY <1>1
<1>4. BatchOf(i) = p /\ BatchOf(j) = q
  BY DEF BatchOf
<1> HIDE DEF b, p, q
<1>5. p < k
  <2>1. SUFFICES ASSUME p >= k PROVE FALSE
    BY <1>2
  <2>2. k * b <= p * b
    BY <2>1, <1>1, <1>2
  <2>3. k * b \in Int /\ p * b \in Int /\ i <= k * b
    BY <1>1, <1>2 DEF b
  <2> QED
    BY <2>2, <2>3, <1>2
<1>6. q + 1 > k
  <2>1. SUFFICES ASSUME q + 1 <= k PROVE FALSE
    BY <1>3
  <2>2. (q + 1) * b <= k * b
    BY <2>1, <1>1, <1>3
  <2>3. k * b \in Int /\ (q + 1) * b \in Int /\ k * b < j
    BY <1>1, <1>3 DEF b
  <2> QED
    BY <2>2, <2>3, <1>3
<1> QED
  BY <1>2, <1>3, <1>4, <1>5, <1>6

LEMMA OneMoreBatch ==
    ASSUME NEW labels \in Seq(Givers), Uniform(labels), FullBatches(labels),
           NEW new \in Seq(Givers), Len(new) <= BatchSize, NEW giver, \A i \in 1..Len(new) : new[i] = giver
    PROVE  /\ labels \o new \in Seq(Givers) /\ Len(labels \o new) = Len(labels) + Len(new)
           /\ Uniform(labels \o new)
           /\ Len(new) = BatchSize => FullBatches(labels \o new)
<1> DEFINE n == Len(labels)
           m == Len(new)
           more == labels \o new
<1>1. m \in Nat /\ m <= BatchSize /\ new \in Seq(Givers) /\ Len(new) = m /\ \A i \in 1..m : new[i] = giver
  OBVIOUS
<1>2. /\ more \in Seq(Givers) /\ Len(more) = n + m /\ n \in Nat
      /\ \A i \in 1..(n + m) : more[i] = IF i <= n THEN labels[i] ELSE new[i - n]
  <2>1. n \in Nat
    OBVIOUS
  <2> QED
    BY <2>1, ConcatProperties
<1> HIDE DEF n, m, more
<1>3. PICK k \in Nat : n = k * BatchSize
  BY DEF FullBatches, n
<1>4. Uniform(more)
  <2>1. ASSUME NEW i \in 1..(n + m), NEW j \in 1..(n + m), BatchOf(i) = BatchOf(j)
        PROVE  more[i] = more[j]
    <3>1. CASE i <= n /\ j <= n
      <4>1. i \in 1..Len(labels) /\ j \in 1..Len(labels)
        BY <3>1, <1>2 DEF n
      <4>2. labels[i] = labels[j]
        BY <4>1, <2>1 DEF Uniform
      <4> QED
        BY <4>2, <3>1, <1>2
    <3>2. CASE i > n /\ j > n
      <4>1. i - n \in 1..m /\ j - n \in 1..m
        BY <3>2, <1>1, <1>2
      <4>2. more[i] = new[i - n] /\ more[j] = new[j - n]
        BY <3>2, <1>2
      <4> QED
        BY <4>1, <4>2, <1>1
    <3>3. CASE i <= n /\ j > n
      BY <3>3, <2>1, <1>1, <1>2, <1>3, BatchesApart
    <3>4. CASE i > n /\ j <= n
      BY <3>4, <2>1, <1>1, <1>2, <1>3, BatchesApart
    <3> QED
      BY <3>1, <3>2, <3>3, <3>4, <1>2
  <2> QED
    BY <2>1, <1>2 DEF Uniform
<1>5. m = BatchSize => FullBatches(more)
  <2>1. (k + 1) * BatchSize = k * BatchSize + BatchSize /\ k + 1 \in Nat
    BY PreprocessingAssumption
  <2> QED
    BY <2>1, <1>2, <1>3 DEF FullBatches
<1> QED
  BY <1>2, <1>4, <1>5 DEF n, m, more

LEMMA RunFields ==
    ASSUME NEW e \in RunRecords
    PROVE  /\ e.begin \in Nat /\ e.text \in Nat /\ e.length \in Nat /\ e.start \in Nat
           /\ e.labels \in Seq(Givers) /\ e.asks \in Seq(Ranges) /\ Len(e.labels) \in Nat
           /\ BatchSize \in Nat /\ BatchSize > 0
<1>1. /\ e.begin \in Nat /\ e.text \in Nat /\ e.length \in Nat /\ e.start \in Nat
      /\ e.labels \in Seq(Givers) /\ e.asks \in Seq(Ranges)
  BY DEF RunRecords
<1>2. Len(e.labels) \in Nat
  BY <1>1
<1> QED
  BY <1>1, <1>2, PreprocessingAssumption

AtBatch(r) == run[r].pc \in {"ask", "fall back"}

LEMMA FirstAsk ==
    ASSUME NEW S, NEW asks \in Seq(S), asks # << >>
    PROVE  asks[1] \in S /\ Tail(asks) \in Seq(S)
OBVIOUS

\* The first range answered
LEMMA TilesDropped ==
    ASSUME NEW asks \in Seq(Ranges), asks # << >>, NEW from \in Int, NEW end \in Int, Tiles(asks, from, end)
    PROVE  Tiles(Tail(asks), asks[1].last + 1, end)
<1> DEFINE n == Len(asks)
           rest == Tail(asks)
<1>1. n \in Nat /\ n > 0 /\ rest \in Seq(Ranges) /\ Len(rest) = n - 1
      /\ \A i \in 1..(n - 1) : rest[i] = asks[i + 1]
  OBVIOUS
<1>2. /\ asks[n].last = end /\ \A i \in 1..n : asks[i].first <= asks[i].last
      /\ \A i \in 1..(n - 1) : asks[i].last + 1 = asks[i + 1].first
  BY DEF Tiles
<1>3. asks[1] \in Ranges
  BY <1>1
<1> HIDE DEF n, rest
<1>4. CASE n = 1
  <2>1. rest = << >> /\ Len(rest) = 0
    BY <1>1, <1>4
  <2> QED
    BY <1>2, <1>4, <2>1 DEF Tiles, rest
<1>5. CASE n > 1
  <2>1. rest # << >> /\ Len(rest) \in 1..(n - 1)
    BY <1>1, <1>5
  <2>2. rest[1] = asks[2] /\ rest[Len(rest)] = asks[n]
    BY <1>1, <1>5
  <2>3. asks[1].last + 1 = asks[2].first
    BY <1>1, <1>2, <1>5
  <2>4. \A i \in 1..Len(rest) : rest[i].first <= rest[i].last
    BY <1>1, <1>2
  <2>5. \A i \in 1..(Len(rest) - 1) : rest[i].last + 1 = rest[i + 1].first
    <3> SUFFICES ASSUME NEW i \in 1..(Len(rest) - 1) PROVE rest[i].last + 1 = rest[i + 1].first
      OBVIOUS
    <3>1. rest[i] = asks[i + 1] /\ rest[i + 1] = asks[(i + 1) + 1] /\ i + 1 \in 1..(n - 1)
      BY <1>1
    <3> QED
      BY <1>2, <3>1
  <2> QED
    BY <1>2, <2>1, <2>2, <2>3, <2>4, <2>5 DEF Tiles, rest
<1> QED
  BY <1>1, <1>4, <1>5

\* The first range asked for in two
LEMMA TilesHalved ==
    ASSUME NEW asks \in Seq(Ranges), asks # << >>, NEW from \in Int, NEW end \in Int, Tiles(asks, from, end),
           NEW middle \in Int, asks[1].first < middle, middle <= asks[1].last, NEW new,
           new = <<[first |-> asks[1].first, last |-> middle - 1],
                   [first |-> middle, last |-> asks[1].last]>> \o Tail(asks)
    PROVE  new \in Seq(Ranges) /\ Tiles(new, from, end)
<1> DEFINE n == Len(asks)
           a == [first |-> asks[1].first, last |-> middle - 1]
           b == [first |-> middle, last |-> asks[1].last]
<1>1. n \in Nat /\ n > 0 /\ asks[1] \in Ranges
  OBVIOUS
<1>2. asks[1].first \in Int /\ asks[1].last \in Int
  BY <1>1 DEF Ranges
<1>3. a \in Ranges /\ b \in Ranges
  BY <1>2 DEF Ranges
<1>4. /\ a.first = asks[1].first /\ a.last = middle - 1 /\ b.first = middle /\ b.last = asks[1].last
  OBVIOUS
<1>5. /\ Tail(asks) \in Seq(Ranges) /\ Len(Tail(asks)) = n - 1
      /\ \A i \in 1..(n - 1) : Tail(asks)[i] = asks[i + 1]
  OBVIOUS
<1> HIDE DEF a, b
<1>6. <<a, b>> \in Seq(Ranges)
  BY <1>3
<1>7. new = <<a, b>> \o Tail(asks)
  BY DEF a, b
<1> DEFINE rest == Tail(asks)
<1> HIDE DEF n, rest
<1>8. /\ new \in Seq(Ranges) /\ Len(new) = n + 1 /\ new[1] = a /\ new[2] = b
      /\ \A i \in 3..(n + 1) : new[i] = rest[i - 2]
  BY <1>1, <1>5, <1>6, <1>7 DEF rest
<1>9. \A i \in 3..(n + 1) : new[i] = asks[i - 1]
  <2> SUFFICES ASSUME NEW i \in 3..(n + 1) PROVE new[i] = asks[i - 1]
    OBVIOUS
  <2>1. i - 2 \in 1..(n - 1) /\ (i - 2) + 1 = i - 1
    BY <1>1
  <2> QED
    BY <1>5, <1>8, <2>1 DEF rest
<1>10. /\ asks[1].first = from /\ asks[n].last = end /\ \A i \in 1..n : asks[i].first <= asks[i].last
       /\ \A i \in 1..(n - 1) : asks[i].last + 1 = asks[i + 1].first
  BY DEF Tiles, n
<1>11. new # << >> /\ new[1].first = from
  BY <1>1, <1>4, <1>8, <1>10
<1>12. new[Len(new)].last = end
  <2>1. CASE n = 1
    BY <2>1, <1>4, <1>8, <1>10
  <2>2. CASE n > 1
    <3>1. n + 1 \in 3..(n + 1) /\ (n + 1) - 1 = n
      BY <2>2, <1>1
    <3> QED
      BY <3>1, <1>8, <1>9, <1>10
  <2> QED
    BY <2>1, <2>2, <1>1
<1>13. \A i \in 1..Len(new) : new[i].first <= new[i].last
  <2> SUFFICES ASSUME NEW i \in 1..Len(new) PROVE new[i].first <= new[i].last
    OBVIOUS
  <2>1. CASE i = 1
    BY <2>1, <1>2, <1>4, <1>8
  <2>2. CASE i = 2
    BY <2>2, <1>2, <1>4, <1>8
  <2>3. CASE i \in 3..(n + 1)
    <3>1. PICK j \in 1..n : j = i - 1
      BY <2>3, <1>1
    <3>2. new[i] = asks[j]
      BY <2>3, <3>1, <1>9
    <3> QED
      BY <3>2, <1>10
  <2> QED
    BY <2>1, <2>2, <2>3, <1>1, <1>8
<1>14. \A i \in 1..(Len(new) - 1) : new[i].last + 1 = new[i + 1].first
  <2> SUFFICES ASSUME NEW i \in 1..(Len(new) - 1) PROVE new[i].last + 1 = new[i + 1].first
    OBVIOUS
  <2>1. CASE i = 1
    BY <2>1, <1>4, <1>8
  <2>2. CASE i = 2
    <3>1. 3 \in 3..(n + 1) /\ 1 \in 1..(n - 1)
      BY <2>2, <1>1, <1>8
    <3>2. 3 - 1 = 2 /\ 1 + 1 = 2 /\ i + 1 = 3
      BY <2>2
    <3>3. new[3] = asks[3 - 1]
      BY <3>1, <1>9
    <3>4. asks[1].last + 1 = asks[1 + 1].first
      BY <3>1, <1>10
    <3>5. new[3] = asks[2] /\ asks[1].last + 1 = asks[2].first
      BY <3>2, <3>3, <3>4
    <3> QED
      BY <2>2, <3>2, <3>5, <1>4, <1>8
  <2>3. CASE i \in 3..n
    <3> DEFINE j == i - 1
    <3>a. j \in Int /\ i = j + 1 /\ (i + 1) - 1 = j + 1
      BY <2>3, SMTT(30)
    <3>b. i \in 3..(n + 1) /\ i + 1 \in 3..(n + 1)
      BY <2>3, <1>1, SMTT(30)
    <3>c. j \in 1..(n - 1)
      BY <2>3, <1>1, SMTT(30)
    <3>1. i \in 3..(n + 1) /\ i + 1 \in 3..(n + 1) /\ (i + 1) - 1 = (i - 1) + 1 /\ i - 1 \in 1..(n - 1)
      BY <3>a, <3>b, <3>c
    <3>2. new[i] = asks[i - 1] /\ new[i + 1] = asks[(i - 1) + 1]
      BY <3>1, <1>9
    <3> QED
      BY <3>1, <3>2, <1>10
  <2> QED
    BY <2>1, <2>2, <2>3, <1>1, <1>8
<1> QED
  BY <1>8, <1>11, <1>12, <1>13, <1>14 DEF Tiles

LEMMA Labelling ==
    ASSUME PreInvariant, NEW r \in Runs, AtBatch(r), NEW given \in Seq(Givers),
           Len(given) = BatchEnd(r) - run[r].start + 1, NEW giver, \A i \in 1..Len(given) : given[i] = giver,
           Set(r, Labelled(r, given)), UNCHANGED <<kind, edition, cached>>
    PROVE  PreInvariant'
<1> DEFINE e == run[r]
           m == BatchEnd(r) - e.start + 1
           more == e.labels \o given
           new == Labelled(r, given)
<1>1. e \in RunRecords /\ OfRun(r, e)
  BY DEF PreInvariant, PreTypes
<1>2. /\ e.labels \in Seq(Givers) /\ Len(e.labels) \in Nat /\ e.length \in Nat /\ e.start \in Nat
      /\ BatchSize \in Nat /\ BatchSize > 0
  BY <1>1, RunFields
<1> HIDE DEF e
<1>3. /\ e.start = Len(e.labels) + 1 /\ Len(e.labels) < e.length /\ FullBatches(e.labels) /\ Uniform(e.labels)
      /\ e.owner = {r} /\ e.begin <= e.text /\ e.begin <= edition
  <2>1. Len(e.labels) < e.length /\ (Len(e.labels) = e.length \/ FullBatches(e.labels))
    BY <1>1 DEF OfRun, AtBatch, e
  <2>2. FullBatches(e.labels)
    <3> DEFINE l == Len(e.labels)
               n == e.length
    <3>1. l < n /\ l \in Nat /\ n \in Nat
      BY <2>1, <1>2
    <3> HIDE DEF l, n
    <3>2. l # n
      BY <3>1
    <3> QED
      BY <2>1, <3>2 DEF l, n
  <2> QED
    BY <2>1, <2>2, <1>1 DEF OfRun, AtBatch, e
<1>4. m \in Nat /\ m <= BatchSize /\ Len(e.labels) + m <= e.length /\ BatchEnd(r) = Len(e.labels) + m
      /\ (m = BatchSize \/ Len(e.labels) + m = e.length)
  <2> DEFINE l == Len(e.labels)
             n == e.length
             end == BatchEnd(r)
  <2>1. /\ e.start \in Nat /\ l \in Nat /\ n \in Nat /\ BatchSize \in Nat /\ BatchSize > 0
        /\ e.start = l + 1 /\ l < n
    BY <1>2, <1>3
  <2>2. end = IF e.start + BatchSize - 1 < n THEN e.start + BatchSize - 1 ELSE n
    BY DEF BatchEnd, e
  <2>3. m = end - e.start + 1
    OBVIOUS
  <2> HIDE DEF l, n, end, m
  <2>4. m \in Nat /\ m <= BatchSize /\ l + m <= n /\ end = l + m /\ (m = BatchSize \/ l + m = n)
    BY <2>1, <2>2, <2>3
  <2> QED
    BY <2>4 DEF l, n, end
<1> HIDE DEF m
<1>5. /\ more \in Seq(Givers) /\ Len(more) = Len(e.labels) + m /\ Uniform(more)
      /\ m = BatchSize => FullBatches(more)
  <2>1. Len(given) = m /\ \A i \in 1..m : given[i] = giver
    BY DEF m, e
  <2>2. m \in Nat /\ m <= BatchSize
    BY <1>4
  <2>3. e.labels \in Seq(Givers) /\ FullBatches(e.labels) /\ Uniform(e.labels)
    BY <1>2, <1>3
  <2>4. PICK joined : joined = e.labels \o given
    OBVIOUS
  <2>5. PICK labels : labels = e.labels
    OBVIOUS
  <2>6. /\ joined \in Seq(Givers) /\ Len(joined) = Len(labels) + m /\ Uniform(joined)
        /\ m = BatchSize => FullBatches(joined)
    <3>1. labels \in Seq(Givers) /\ FullBatches(labels) /\ Uniform(labels) /\ joined = labels \o given
      BY <2>3, <2>4, <2>5
    <3>2. Len(given) <= BatchSize
      BY <2>1, <2>2
    <3>3. /\ labels \o given \in Seq(Givers) /\ Len(labels \o given) = Len(labels) + Len(given)
          /\ Uniform(labels \o given)
          /\ Len(given) = BatchSize => FullBatches(labels \o given)
      BY <3>1, <3>2, OneMoreBatch
    <3> QED
      BY <3>1, <3>3, <2>1
  <2> QED
    BY <2>4, <2>5, <2>6
<1>6. new = [e EXCEPT !.pc = "label", !.start = BatchEnd(r) + 1, !.labels = more]
  BY DEF Labelled, e
<1> HIDE DEF more, new
<1>7. BatchEnd(r) + 1 \in Nat /\ BatchEnd(r) + 1 = Len(more) + 1
  <2>1. BatchEnd(r) = Len(more) /\ Len(more) \in Nat
    BY <1>4, <1>5
  <2> QED
    BY <2>1
<1> DEFINE next == BatchEnd(r) + 1
<1> HIDE DEF next
<1>8. new \in RunRecords
  BY <1>1, <1>5, <1>6, <1>7 DEF RunRecords, next
<1>9. /\ new.pc = "label" /\ new.start = Len(more) + 1 /\ new.labels = more /\ new.begin = e.begin
      /\ new.owner = e.owner /\ new.text = e.text /\ new.length = e.length
  BY <1>1, <1>6, <1>7 DEF RunRecords
<1>10. Len(more) = new.length \/ FullBatches(more)
  BY <1>4, <1>5, <1>9
<1>11. Len(new.labels) <= new.length
  <2> DEFINE l == Len(e.labels)
             n == e.length
  <2>1. l \in Nat /\ n \in Nat /\ l < n /\ m \in Nat /\ l + m <= n /\ Len(more) = l + m
    BY <1>2, <1>3, <1>4, <1>5
  <2> HIDE DEF l, n
  <2>2. Len(more) <= n
    BY <2>1
  <2> QED
    BY <2>2, <1>9 DEF n
<1>12. OfRun(r, new)
  BY <1>3, <1>5, <1>9, <1>10, <1>11 DEF OfRun
<1> QED
  BY <1>8, <1>9, <1>12, Moves DEF new, e

LEMMA RunSteps ==
    ASSUME PreInvariant, NEW r \in Runs, Start(r) \/ RunStep(r)
    PROVE  PreInvariant'
<1> DEFINE e == run[r]
           Gone(pc) == [run[r] EXCEPT !.pc = pc]
           Asks == Seq(Ranges)
<1>0. e \in RunRecords /\ OfRun(r, e) /\ edition \in Nat /\ e.begin \in Nat /\ e.length \in Nat
  BY DEF PreInvariant, PreTypes, RunRecords
<1>j. ASSUME NEW pc \in {"download", "import", "fall back", "store"}
      PROVE  /\ Gone(pc) \in RunRecords /\ Gone(pc).pc = pc /\ Gone(pc).begin = e.begin /\ Gone(pc).text = e.text
             /\ Gone(pc).owner = e.owner /\ Gone(pc).length = e.length /\ Gone(pc).labels = e.labels
             /\ Gone(pc).start = e.start
  BY <1>0 DEF RunRecords
<1>1. CASE Start(r)
  <2> DEFINE new == [Fresh EXCEPT !.begin = edition]
  <2>1. new \in RunRecords
    BY <1>0, FreshRecords
  <2>2. new.pc = "look up" /\ new.begin = edition /\ new.labels = << >> /\ new.start = 1
    BY DEF Fresh
  <2>3. Set(r, new) /\ UNCHANGED <<kind, edition, cached>> /\ run[r].pc = "idle"
    BY <1>1 DEF Start, On
  <2> HIDE DEF new
  <2>4. OfRun(r, new)
    <3>1. edition <= edition
      BY <1>0
    <3> QED
      BY <2>2, <3>1 DEF OfRun
  <2> QED
    BY <2>1, <2>2, <2>3, <2>4, OtherRunsStay
<1>2. CASE LookUpResult(r)
  <2>1. e.pc = "look up" /\ UNCHANGED <<kind, edition, cached>>
    BY <1>2 DEF LookUpResult, On
  <2>2. CASE Jump(r, IF kind = "onedrive" THEN "download" ELSE "import")
    <3>1. PICK pc \in {"download", "import"} : Set(r, Gone(pc)) /\ (pc = "import" => kind # "onedrive")
      BY <2>2 DEF Jump
    <3>2. OfRun(r, Gone(pc))
      <4> HIDE DEF Gone
      <4> QED
        BY <1>0, <1>j, <2>1, <3>1 DEF OfRun
    <3> HIDE DEF Gone
    <3> QED
      BY <3>1, <3>2, <2>1, <1>j, Moves
  <2>3. CASE cached # NoEntry /\ Set(r, [run[r] EXCEPT !.pc = "returned", !.text = cached.text,
                              !.owner = cached.owner, !.length = cached.length, !.labels = cached.labels])
    <3> DEFINE new == [run[r] EXCEPT !.pc = "returned", !.text = cached.text,
                              !.owner = cached.owner, !.length = cached.length, !.labels = cached.labels]
    <3>1. cached \in Entries /\ WholeEntry(cached) /\ MadeBy(cached, run)
      BY <2>3 DEF PreInvariant, EntryInvariant
    <3>2. new \in RunRecords
      BY <3>1, <1>0 DEF RunRecords, Entries
    <3>3. /\ new.pc = "returned" /\ new.begin = e.begin /\ new.text = cached.text /\ new.owner = cached.owner
          /\ new.length = cached.length /\ new.labels = cached.labels
      BY <1>0 DEF RunRecords
    <3>4. Set(r, new)
      BY <2>3
    <3> HIDE DEF new
    <3>5. OfRun(r, new)
      BY <3>3, <1>0 DEF OfRun
    <3>6. \A s \in Runs : run[s].pc # "idle" => run'[s].pc # "idle" /\ run'[s].begin = run[s].begin
      BY <3>3, <3>4 DEF Set, PreInvariant, PreTypes
    <3>7. WholeEntry(new) /\ MadeBy(new, run')
      BY <3>1, <3>3, <3>6 DEF WholeEntry, MadeBy
    <3> QED
      <4>1. new.begin <= run[r].begin
        BY <3>3, <1>0
      <4> HIDE DEF e
      <4> QED
        BY <3>2, <3>3, <3>4, <3>5, <3>7, <4>1, <2>1, OtherRunsStay
  <2> QED
    BY <1>2, <2>2, <2>3 DEF LookUpResult
<1>3. CASE Fail(r)
  BY <1>3, Failing
<1>4. CASE Download(r)
  <2> DEFINE new == [run[r] EXCEPT !.pc = "import", !.text = edition]
  <2>1. CASE Set(r, new) /\ UNCHANGED <<kind, edition, cached>>
    <3>1. new \in RunRecords
      BY <1>0 DEF RunRecords
    <3>2. /\ new.pc = "import" /\ new.begin = e.begin /\ new.text = edition /\ new.start = e.start
          /\ new.labels = e.labels
      BY <1>0 DEF RunRecords
    <3>3. Set(r, new) /\ e.pc = "download"
      BY <2>1, <1>4 DEF Download, On
    <3> HIDE DEF new
    <3>4. OfRun(r, new)
      BY <3>2, <3>3, <1>0 DEF OfRun
    <3> QED
      BY <3>1, <3>2, <3>3, <3>4, <2>1, Moves
  <2> QED
    BY <1>3, <1>4, <2>1 DEF Download
<1>5. CASE Import(r)
  <2>1. ASSUME NEW n \in Lengths, UNCHANGED <<kind, edition, cached>>, e.pc = "import",
               Set(r, [run[r] EXCEPT !.pc = "label", !.length = n, !.owner = {r},
                                     !.text = IF kind = "onedrive" THEN @ ELSE edition])
        PROVE  PreInvariant'
    <3> DEFINE text == IF kind = "onedrive" THEN e.text ELSE edition
               new == [run[r] EXCEPT !.pc = "label", !.length = n, !.owner = {r}, !.text = text]
    <3>1. n \in Nat
      BY PreprocessingAssumption
    <3>2. text \in Nat /\ e.begin <= text
      BY <1>0, <2>1 DEF RunRecords, OfRun
    <3>3. Set(r, new)
      BY <2>1
    <3> HIDE DEF text
    <3>4. new \in RunRecords
      BY <1>0, <3>1, <3>2 DEF RunRecords
    <3>5. /\ new.pc = "label" /\ new.begin = e.begin /\ new.text = text /\ new.start = e.start
          /\ new.labels = e.labels /\ new.length = n /\ new.owner = {r}
      BY <1>0 DEF RunRecords
    <3> HIDE DEF new
    <3>6. e.labels = << >> /\ e.start = 1 /\ e.begin <= edition
      BY <1>0, <2>1 DEF OfRun
    <3>7. Len(new.labels) = 0 /\ FullBatches(new.labels) /\ Uniform(new.labels)
      <4>1. Len(new.labels) = 0
        BY <3>5, <3>6
      <4>2. 0 = 0 * BatchSize
        BY PreprocessingAssumption
      <4>3. FullBatches(new.labels)
        BY <4>1, <4>2 DEF FullBatches
      <4>4. 1..0 = {}
        OBVIOUS
      <4> QED
        BY <4>1, <4>3, <4>4 DEF Uniform
    <3>8. OfRun(r, new)
      <4>1. /\ new.begin <= edition /\ new.begin <= new.text
            /\ new.start = Len(new.labels) + 1 /\ Len(new.labels) <= new.length
        BY <3>1, <3>2, <3>5, <3>6, <3>7
      <4>2. new.pc = "label" /\ new.owner = {r} /\ FullBatches(new.labels) /\ Uniform(new.labels)
        BY <3>5, <3>7
      <4> QED
        BY <4>1, <4>2, Zenon DEF OfRun
    <3> QED
      BY <2>1, <3>3, <3>4, <3>5, <3>8, Moves
  <2> QED
    BY <1>3, <1>5, <2>1 DEF Import, On
<1>a. e.asks \in Asks /\ e.given \in Seq(Givers) /\ Len(e.given) \in Nat
  <2>1. e.asks \in Asks /\ e.given \in Seq(Givers)
    BY <1>0 DEF RunRecords
  <2> HIDE DEF e, Asks
  <2> QED
    BY <2>1
<1>e. /\ e.start \in Int /\ EndOf(e) \in Int /\ BatchEnd(r) = EndOf(e)
  <2>1. e.start \in Int /\ BatchSize \in Int
    BY <1>0, RunFields
  <2> QED
    BY <2>1, <1>0 DEF BatchEnd, EndOf
<1>6. ASSUME NEW asks \in Asks, NEW given \in Seq(Givers), UNCHANGED <<kind, edition, cached>>,
             e.pc \in {"label", "ask"}, Len(e.labels) < e.length,
             OfModel(given), Tiles(asks, e.start + Len(given), EndOf(e)),
             Set(r, [run[r] EXCEPT !.pc = "ask", !.asks = asks, !.given = given])
      PROVE  PreInvariant'
  <2> DEFINE new == [run[r] EXCEPT !.pc = "ask", !.asks = asks, !.given = given]
  <2>1. new \in RunRecords
    BY <1>0 DEF RunRecords
  <2>2. /\ new.pc = "ask" /\ new.begin = e.begin /\ new.text = e.text /\ new.start = e.start
        /\ new.labels = e.labels /\ new.length = e.length /\ new.owner = e.owner
        /\ new.asks = asks /\ new.given = given
    BY <1>0 DEF RunRecords
  <2>3. Set(r, new)
    BY <1>6
  <2> HIDE DEF new
  <2>4. AskedFor(new)
    BY <2>2, <1>6 DEF AskedFor, EndOf
  <2>5. OfRun(r, new)
    BY <2>2, <2>4, <1>0, <1>6 DEF OfRun
  <2> QED
    BY <2>1, <2>2, <2>3, <2>5, <1>6, Moves
<1>7. CASE BeginBatch(r)
  <2>1. e.pc = "label" /\ e.start <= e.length /\ Len(e.labels) \in Nat
    BY <1>0, <1>7, RunFields DEF BeginBatch, On
  <2>2. Len(e.labels) < e.length /\ e.start <= EndOf(e)
    <3>1. e.start = Len(e.labels) + 1
      BY <1>0, <2>1 DEF OfRun
    <3>2. BatchSize \in Nat /\ BatchSize > 0
      BY PreprocessingAssumption
    <3> QED
      BY <2>1, <3>1, <3>2, <1>0 DEF EndOf
  <2> DEFINE ask == [first |-> e.start, last |-> EndOf(e)]
  <2>3. ask \in Ranges /\ ask.first = e.start /\ ask.last = EndOf(e)
    BY <1>e DEF Ranges
  <2>4. /\ Set(r, [run[r] EXCEPT !.pc = "ask", !.asks = <<ask>>, !.given = << >>])
        /\ UNCHANGED <<kind, edition, cached>>
    BY <1>7, <1>e DEF BeginBatch
  <2> HIDE DEF ask
  <2>5. <<ask>> \in Asks
    BY <2>3
  <2>6. << >> \in Seq(Givers) /\ OfModel(<< >>) /\ Len(<< >>) = 0
    <3>1. << >> \in Seq(Givers) /\ Len(<< >>) = 0 /\ 1..0 = {}
      BY Nothing
    <3> QED
      BY <3>1 DEF OfModel
  <2>7. Tiles(<<ask>>, e.start + 0, EndOf(e))
    <3>1. /\ Len(<<ask>>) = 1 /\ <<ask>>[1] = ask /\ <<ask>> # << >> /\ 1..1 = {1} /\ 1..(1 - 1) = {}
          /\ e.start + 0 = e.start
      BY <1>e
    <3> HIDE DEF e
    <3> QED
      BY <2>2, <2>3, <3>1 DEF Tiles
  <2> HIDE DEF Asks, e
  <2> QED
    BY <2>1, <2>2, <2>4, <2>5, <2>6, <2>7, <1>6
<1>b. ASSUME Asking(r)
      PROVE  /\ e.pc = "ask" /\ e.asks # << >> /\ Len(e.labels) < e.length
             /\ Tail(e.asks) \in Asks /\ Asked(r) = e.asks[1] /\ Asked(r) \in Ranges
             /\ Asked(r).first \in Int /\ Asked(r).last \in Int
             /\ OfModel(e.given) /\ Tiles(e.asks, e.start + Len(e.given), EndOf(e))
  <2>1. e.pc = "ask" /\ e.asks # << >> /\ Asked(r) = e.asks[1]
    BY <1>b DEF Asking, On, Asked
  <2>2. Len(e.labels) < e.length /\ AskedFor(e)
    BY <2>1, <1>0 DEF OfRun
  <2>3. Asked(r) \in Ranges /\ Tail(e.asks) \in Asks
    BY <2>1, <1>a, FirstAsk
  <2>4. Asked(r).first \in Int /\ Asked(r).last \in Int
    BY <2>3 DEF Ranges
  <2> QED
    BY <2>1, <2>2, <2>3, <2>4 DEF AskedFor
<1>8. CASE Answered(r)
  <2>1. CASE /\ Asking(r) /\ UNCHANGED <<kind, edition, cached>>
             /\ Set(r, [run[r] EXCEPT !.asks = Tail(@),
                                      !.given = @ \o Same("model", Asked(r).last - Asked(r).first + 1)])
    <3> DEFINE m == Asked(r).last - Asked(r).first + 1
               more == Same("model", m)
               given == e.given \o more
    <3>1. Asked(r).first <= Asked(r).last /\ Asked(r).first = e.start + Len(e.given)
      <4>1. 1 \in 1..Len(e.asks)
        BY <2>1, <1>a, <1>b
      <4> QED
        BY <2>1, <4>1, <1>b DEF Tiles
    <3>2. m \in Nat /\ Asked(r).last + 1 = e.start + (Len(e.given) + m)
      <4>1. PICK first \in Int, last \in Int : first = Asked(r).first /\ last = Asked(r).last
        BY <2>1, <1>b
      <4>2. PICK start \in Int, n \in Nat : start = e.start /\ n = Len(e.given)
        BY <1>a, <1>e
      <4>3. first <= last /\ first = start + n /\ m = last - first + 1
        BY <3>1, <4>1, <4>2
      <4> HIDE DEF m, e
      <4>4. m \in Nat /\ last + 1 = start + (n + m)
        BY <4>3
      <4> QED
        BY <4>1, <4>2, <4>4
    <3> HIDE DEF m
    <3>3. more \in Seq(Givers) /\ Len(more) = m /\ \A i \in 1..m : more[i] = "model"
      BY <3>2 DEF Same, Givers
    <3> HIDE DEF more
    <3>4. given \in Seq(Givers) /\ Len(given) = Len(e.given) + m /\ OfModel(given)
      <4> DEFINE l == Len(e.given)
      <4>1. l \in Nat /\ \A i \in 1..l : e.given[i] = "model"
        BY <2>1, <1>a, <1>b DEF OfModel
      <4>2. /\ given \in Seq(Givers) /\ Len(given) = l + m
            /\ \A i \in 1..(l + m) : given[i] = IF i <= l THEN e.given[i] ELSE more[i - l]
        <5>1. e.given \in Seq(Givers) /\ more \in Seq(Givers) /\ Len(more) = m
          BY <3>3, <1>a
        <5> QED
          BY <5>1, ConcatProperties
      <4> HIDE DEF l, given
      <4>3. ASSUME NEW i \in 1..(l + m) PROVE given[i] = "model"
        <5>1. CASE i <= l
          BY <5>1, <4>1, <4>2
        <5>2. CASE i > l
          <6>1. i - l \in 1..m
            BY <5>2, <4>1, <3>2
          <6>2. given[i] = more[i - l]
            BY <5>2, <4>1, <4>2
          <6> QED
            BY <6>1, <6>2, <3>3
        <5> QED
          BY <5>1, <5>2, <4>1
      <4> QED
        BY <4>2, <4>3 DEF OfModel, l
    <3>5. Tiles(Tail(e.asks), Asked(r).last + 1, EndOf(e))
      <4>1. e.start + Len(e.given) \in Int
        BY <1>a, <1>e
      <4> HIDE DEF e
      <4> QED
        BY <2>1, <4>1, <1>a, <1>b, <1>e, TilesDropped
    <3>6. Tiles(Tail(e.asks), e.start + Len(given), EndOf(e))
      BY <3>2, <3>4, <3>5
    <3>7. Set(r, [run[r] EXCEPT !.pc = "ask", !.asks = Tail(e.asks), !.given = given])
      <4>1. [run[r] EXCEPT !.asks = Tail(e.asks), !.given = given]
              = [run[r] EXCEPT !.pc = "ask", !.asks = Tail(e.asks), !.given = given]
        BY <2>1, <1>0, <1>b DEF RunRecords
      <4> QED
        BY <2>1, <4>1 DEF more, m
    <3> HIDE DEF e, Asks, given
    <3> QED
      BY <2>1, <3>4, <3>6, <3>7, <1>b, <1>6
  <2> QED
    BY <1>3, <1>8, <2>1 DEF Answered
<1>9. CASE InvalidJSON(r)
  <2> DEFINE middle == Asked(r).first + (Asked(r).last - Asked(r).first + 1) \div 2
             asks == <<[first |-> Asked(r).first, last |-> middle - 1],
                       [first |-> middle, last |-> Asked(r).last]>> \o Tail(e.asks)
  <2>1. /\ Set(r, [run[r] EXCEPT !.asks = asks]) /\ UNCHANGED <<kind, edition, cached>>
        /\ Asking(r) /\ Asked(r).first < Asked(r).last
    BY <1>9 DEF InvalidJSON
  <2>2. Asked(r).first \in Int /\ Asked(r).last \in Int
    BY <2>1, <1>b
  <2>3. middle \in Int /\ Asked(r).first < middle /\ middle <= Asked(r).last
    BY <2>1, <2>2
  <2> HIDE DEF middle
  <2>4. asks \in Asks /\ Tiles(asks, e.start + Len(e.given), EndOf(e))
    <3>1. e.start + Len(e.given) \in Int
      BY <1>a, <1>e
    <3> HIDE DEF e
    <3> QED
      BY <2>1, <2>3, <3>1, <1>a, <1>b, <1>e, TilesHalved
  <2> HIDE DEF asks
  <2>5. Set(r, [run[r] EXCEPT !.pc = "ask", !.asks = asks, !.given = e.given])
    <3>1. [run[r] EXCEPT !.asks = asks] = [run[r] EXCEPT !.pc = "ask", !.asks = asks, !.given = e.given]
      BY <2>1, <1>0, <1>b DEF RunRecords
    <3> QED
      BY <2>1, <3>1
  <2> HIDE DEF Asks, e
  <2> QED
    BY <2>1, <2>4, <2>5, <1>a, <1>b, <1>6
<1>10. CASE CallFails(r)
  <2>1. Set(r, Gone("fall back")) /\ UNCHANGED <<kind, edition, cached>> /\ Asking(r)
    BY <1>10 DEF CallFails, Jump
  <2> HIDE DEF Gone
  <2>2. OfRun(r, Gone("fall back"))
    BY <2>1, <1>0, <1>b, <1>j DEF OfRun
  <2> QED
    BY <2>1, <2>2, <1>j, Moves
<1>11. CASE ApplyLabels(r)
  <2>1. /\ e.pc = "ask" /\ e.asks = << >> /\ Set(r, Labelled(r, e.given))
        /\ UNCHANGED <<kind, edition, cached>>
    BY <1>11 DEF ApplyLabels, On
  <2>2. AskedFor(e)
    BY <2>1, <1>0 DEF OfRun
  <2>3. OfModel(e.given) /\ e.start + Len(e.given) = EndOf(e) + 1
    BY <2>1, <2>2 DEF AskedFor, Tiles
  <2>4. Len(e.given) = BatchEnd(r) - e.start + 1
    BY <2>3, <1>a, <1>e
  <2> QED
    BY <2>1, <2>3, <2>4, <1>a, Labelling DEF AtBatch, OfModel
<1>12. CASE FallBack(r)
  <2>1. CASE \E giver \in {"fallback model", "local"} :
                /\ e.pc = "fall back" /\ UNCHANGED <<kind, edition, cached>>
                /\ Set(r, Labelled(r, Same(giver, BatchEnd(r) - e.start + 1)))
    <3>1. PICK giver \in Givers :
             /\ e.pc = "fall back" /\ UNCHANGED <<kind, edition, cached>>
             /\ Set(r, Labelled(r, Same(giver, BatchEnd(r) - e.start + 1)))
      BY <2>1 DEF Givers
    <3> DEFINE m == BatchEnd(r) - e.start + 1
               given == Same(giver, m)
    <3>2. m \in Nat
      <4>1. e.start = Len(e.labels) + 1 /\ Len(e.labels) < e.length
        BY <1>0, <3>1, Zenon DEF OfRun
      <4>2. BatchSize \in Nat /\ BatchSize > 0 /\ Len(e.labels) \in Nat /\ e.length \in Nat
        BY <1>0, RunFields
      <4>3. PICK l \in Nat, n \in Nat, start \in Int : l = Len(e.labels) /\ n = e.length /\ start = e.start
        BY <4>2, <1>e
      <4>4. EndOf(e) = IF start + BatchSize - 1 < n THEN start + BatchSize - 1 ELSE n
        BY <4>3 DEF EndOf
      <4>5. start = l + 1 /\ l < n /\ m = EndOf(e) - start + 1
        BY <4>1, <4>3, <1>e
      <4> HIDE DEF e, m
      <4> QED
        BY <4>2, <4>4, <4>5
    <3> HIDE DEF m
    <3>3. given \in Seq(Givers) /\ Len(given) = m /\ \A i \in 1..Len(given) : given[i] = giver
      BY <3>2 DEF Same
    <3>4. Set(r, Labelled(r, given))
      BY <3>1 DEF m
    <3> HIDE DEF given
    <3> QED
      BY <3>1, <3>3, <3>4, Labelling DEF AtBatch, m
  <2> QED
    BY <1>3, <1>12, <2>1 DEF FallBack, On
<1>13. CASE Analyse(r)
  <2>1. e.pc = "label" /\ e.start > e.length /\ Len(e.labels) \in Nat
    BY <1>0, <1>13, RunFields DEF Analyse, On
  <2>2. Len(e.labels) = e.length
    <3>1. e.start = Len(e.labels) + 1 /\ Len(e.labels) <= e.length
      BY <1>0, <2>1 DEF OfRun
    <3> QED
      BY <2>1, <3>1, <1>0
  <2>3. CASE Jump(r, "store") /\ UNCHANGED <<kind, edition, cached>>
    <3>1. Set(r, Gone("store"))
      BY <2>3 DEF Jump
    <3> HIDE DEF Gone
    <3>2. OfRun(r, Gone("store"))
      BY <1>0, <1>j, <2>1, <2>2 DEF OfRun
    <3> QED
      BY <2>3, <3>1, <3>2, <1>j, Moves
  <2> QED
    BY <1>3, <1>13, <2>3 DEF Analyse
<1>14. CASE StoreResult(r)
  <2> DEFINE new == Gone("returned")
  <2>1. new \in RunRecords
    BY <1>0 DEF RunRecords
  <2>2. /\ new.pc = "returned" /\ new.begin = e.begin /\ new.text = e.text /\ new.labels = e.labels
        /\ new.length = e.length /\ new.owner = e.owner
    BY <1>0 DEF RunRecords
  <2>3. Set(r, new) /\ UNCHANGED <<kind, edition>> /\ e.pc = "store"
    BY <1>14 DEF StoreResult, On, Jump
  <2> HIDE DEF new
  <2>4. OfRun(r, new)
    BY <2>2, <1>0 DEF OfRun
  <2>5. WholeEntry(e) /\ e.owner = {r} /\ e.begin <= e.text
    BY <1>0, <2>3 DEF OfRun, WholeEntry
  <2>6. run'[r] = new
    BY <2>3 DEF Set, PreInvariant, PreTypes
  <2>7. WholeEntry(new) /\ MadeBy(new, run')
    BY <2>2, <2>5, <2>6 DEF WholeEntry, MadeBy
  <2> DEFINE entry == [text |-> e.text, owner |-> e.owner, length |-> e.length, labels |-> e.labels]
  <2>8. cached' = entry \/ cached' = cached
    BY <1>14 DEF StoreResult
  <2>9. entry \in Entries
    BY <1>0 DEF RunRecords, Entries
  <2>10. entry.text = e.text /\ entry.owner = e.owner /\ entry.length = e.length /\ entry.labels = e.labels
    OBVIOUS
  <2> HIDE DEF entry
  <2>11. WholeEntry(entry) /\ MadeBy(entry, run')
    BY <2>2, <2>5, <2>6, <2>10 DEF WholeEntry, MadeBy
  <2>12. \/ cached' \in {cached, NoEntry}
         \/ cached' \in Entries /\ WholeEntry(cached') /\ MadeBy(cached', run')
    BY <2>8, <2>9, <2>11
  <2> QED
    BY <2>1, <2>2, <2>3, <2>4, <2>7, <2>12, <1>0, OtherRunsStay
<1> HIDE DEF e, Gone, Asks
<1> QED
  BY <1>1, <1>2, <1>4, <1>5, <1>7, <1>8, <1>9, <1>10, <1>11, <1>12, <1>13, <1>14 DEF RunStep

LEMMA PreInvariantKept == PreInvariant /\ [PreNext]_preVars => PreInvariant'
<1>1. CASE UNCHANGED preVars
  <2>1. kind' = kind /\ edition' = edition /\ cached' = cached /\ run' = run
    BY <1>1 DEF preVars
  <2>2. PreTypes => PreTypes'
    BY <2>1 DEF PreTypes
  <2>3. EntryInvariant => EntryInvariant'
    BY <2>1 DEF EntryInvariant, MadeBy, WholeEntry, Uniform
  <2>4. ReturnedInvariant => ReturnedInvariant'
    BY <2>1 DEF ReturnedInvariant, MadeBy, WholeEntry, Uniform
  <2>5. ASSUME NEW r \in Runs, OfRun(r, run[r]) PROVE OfRun(r, run[r])'
    BY <2>1, <2>5 DEF OfRun, Uniform, FullBatches
  <2> QED
    BY <2>2, <2>3, <2>4, <2>5 DEF PreInvariant
<1>2. ASSUME PreInvariant, PreNext PROVE PreInvariant'
  BY <1>2, EditsAndExpiry, RunSteps DEF PreNext
<1> QED
  BY <1>1, <1>2

LEMMA WholeFollows == PreInvariant => ResultsAreWhole
<1> SUFFICES ASSUME PreInvariant, NEW r \in Runs, run[r].pc = "returned"
             PROVE  /\ Len(run[r].labels) = run[r].length
                    /\ \A i, j \in 1..run[r].length :
                           BatchOf(i) = BatchOf(j) => run[r].labels[i] = run[r].labels[j]
                    /\ \E s \in Runs : run[r].owner = {s} /\ run[r].text >= run[s].begin
  BY DEF ResultsAreWhole, On
<1>1. WholeEntry(run[r]) /\ MadeBy(run[r], run)
  BY DEF PreInvariant, ReturnedInvariant
<1>2. \A s \in Runs : run[s].begin \in Nat /\ run[s].text \in Nat
  BY DEF PreInvariant, PreTypes, RunRecords
<1>3. PICK s \in Runs : run[r].owner = {s} /\ run[s].begin <= run[r].text
  BY <1>1 DEF MadeBy
<1>4. run[r].text >= run[s].begin
  BY <1>2, <1>3
<1> QED
  BY <1>1, <1>3, <1>4 DEF WholeEntry, Uniform

(***************************************************************************)
(* For any number of runs and edits, any batch size and any number of      *)
(* chunks, and however often a batch was asked for in halves before a call *)
(* failed: what a run returns is whole, and comes from one run.            *)
(***************************************************************************)
THEOREM ResultsAreWholeHolds == PreSpec => []ResultsAreWhole
<1>1. PreSpec => []PreInvariant
  BY PreInitially, PreInvariantKept, PTL DEF PreSpec
<1> QED
  BY <1>1, WholeFollows, PTL


-----------------------------------------------------------------------------
(***************************************************************************)
(* Delivery: NothingTwice and CompletedIsWhole.  While a tracker is filled *)
(* the issues of the export are those of the stories before "place", in    *)
(* Jira also of that one; one of each was answered, as was one epic for    *)
(* each name in created_epics, and all of a story are under its epic.      *)
(***************************************************************************)
Issues == [export : Nat, system : Systems \cup {"file"}, epic : EpicNames, story : Nat, parent : Nat,
           answered : BOOLEAN]
Requests == [to : Systems \cup {"file"}, epics : Seq(EpicNames), linked : BOOLEAN]

DeliveryTypes ==
    /\ issues \in Seq(Issues) /\ exports \in Nat /\ request \in Requests
    /\ place \in Nat \ {0} /\ stories \in Seq(Nat) /\ errors \in Nat

PastIssues == \A i \in DOMAIN issues : issues[i].export <= exports
NoneBeyond(n) == \A i \in DOMAIN issues : issues[i].export = exports => issues[i].story <= n

EpicsFiled ==
    /\ \A i \in AnsweredOf(0) : issues[i].epic \in DOMAIN epics
    /\ \A name \in DOMAIN epics : {i \in AnsweredOf(0) : issues[i].epic = name} = {epics[name]}
StoriesFiled == \A s \in 1..Len(stories) : AnsweredOf(s) = {stories[s]}
UnderEpic(x, filed) == request.epics[x.story] \in DOMAIN filed /\ x.parent = filed[request.epics[x.story]]
ParentsFiled ==
    \A i \in DOMAIN issues : issues[i].export = exports /\ issues[i].story # 0 => UnderEpic(issues[i], epics)
ItemsFiled == \A s \in 1..Len(stories) : IssuesOf(s) = {stories[s]} /\ AnsweredOf(s) = {stories[s]}

AtEpic == step = "epic"
AtStory == step \in {"story", "story again"}
AtLink == step = "link"
AtItem == step = "work item"
AtPaper == step \in {"page", "format", "verify"}

Filed == EpicsFiled /\ StoriesFiled /\ ParentsFiled /\ request.to = "jira"

JiraInvariant ==
    /\ AtEpic => Filed /\ NoneBeyond(Len(stories)) /\ Len(stories) = place - 1 /\ place <= Size + 1
    /\ AtStory => /\ Filed /\ NoneBeyond(place) /\ AnsweredOf(place) = {}
                  /\ Len(stories) = place - 1 /\ place <= Size /\ Epic \in DOMAIN epics
    /\ AtLink => Filed /\ NoneBeyond(Len(stories)) /\ Len(stories) = place /\ place <= Size

ItemInvariant ==
    AtItem => /\ request.to = "ado" /\ Len(stories) + errors = place - 1 /\ place <= Size + 1
              /\ NoneBeyond(place - 1) /\ (errors = 0 => ItemsFiled)

BeginInvariant ==
    /\ step = "connect" => /\ request.to # "ado"
                           /\ stories = << >> /\ epics = << >> /\ place = 1
                           /\ \A i \in DOMAIN issues : issues[i].export # exports
    /\ AtPaper => request.to \notin Trackers

DeliveryInvariant ==
    /\ DeliveryTypes /\ PastIssues /\ NothingTwice /\ JiraInvariant /\ ItemInvariant /\ BeginInvariant
    /\ CompletedIsWhole

LEMMA DeliveryInitially == DeliveryInit => DeliveryInvariant
<1> SUFFICES ASSUME DeliveryInit PROVE DeliveryInvariant
  OBVIOUS
<1>1. DOMAIN issues = {} /\ step = "reported" /\ report.status = "none"
  BY DEF DeliveryInit, NoReport
<1>2. DeliveryTypes
  <2>1. issues \in Seq(Issues)
    BY DEF DeliveryInit
  <2>2. stories \in Seq(Nat)
    BY DEF DeliveryInit
  <2>3. << >> \in Seq(EpicNames)
    OBVIOUS
  <2>4. request \in Requests
    BY <2>3 DEF DeliveryInit, Requests
  <2> QED
    BY <2>1, <2>2, <2>4 DEF DeliveryInit, DeliveryTypes
<1> QED
  BY <1>1, <1>2 DEF DeliveryInvariant, PastIssues, NothingTwice, JiraInvariant, ItemInvariant, BeginInvariant,
     CompletedIsWhole, AtEpic, AtStory, AtLink, AtItem, AtPaper

\* One more issue, in Jira of a story, or an epic, of which the exporter knows none yet
LEMMA OneMoreIssue ==
    ASSUME DeliveryTypes, PastIssues, NothingTwice, NEW x \in Issues, x.export = exports,
           \A i \in DOMAIN issues :
               issues[i].export = exports /\ issues[i].story = x.story /\ issues[i].epic = x.epic
                   => x.system = "jira" /\ ~issues[i].answered,
           issues' = Append(issues, x), exports' = exports
    PROVE  /\ issues' \in Seq(Issues) /\ PastIssues' /\ NothingTwice'
           /\ Newest \in Nat /\ Newest \notin DOMAIN issues /\ issues'[Newest] = x
           /\ DOMAIN issues' = DOMAIN issues \cup {Newest}
           /\ \A i \in DOMAIN issues : issues'[i] = issues[i] /\ i \in Nat
           /\ \A s \in Nat : IssuesOf(s)' = IssuesOf(s) \cup (IF s = x.story THEN {Newest} ELSE {})
           /\ \A s \in Nat :
                 AnsweredOf(s)' = AnsweredOf(s) \cup (IF s = x.story /\ x.answered THEN {Newest} ELSE {})
           /\ \A k \in Nat : NoneBeyond(k) /\ x.story <= k => NoneBeyond(k)'
<1>1. issues \in Seq(Issues) /\ exports \in Nat /\ Newest \in Nat
  BY DEF DeliveryTypes, Newest
<1>2. /\ issues' \in Seq(Issues) /\ DOMAIN issues' = DOMAIN issues \cup {Newest}
      /\ issues'[Newest] = x /\ Newest \notin DOMAIN issues
      /\ \A i \in DOMAIN issues : issues'[i] = issues[i] /\ i \in Nat /\ i < Newest
  BY <1>1 DEF Newest
<1> HIDE DEF Newest
<1>3. PastIssues'
  BY <1>1, <1>2 DEF PastIssues
<1>4. NothingTwice'
  <2>1. SUFFICES ASSUME NEW i \in DOMAIN issues', NEW j \in DOMAIN issues', i < j,
                        issues'[i].export = issues'[j].export, issues'[i].story = issues'[j].story,
                        issues'[i].epic = issues'[j].epic
                 PROVE  issues'[j].system = "jira" /\ ~issues'[i].answered
    BY DEF NothingTwice, SameThing
  <2>2. CASE i \in DOMAIN issues /\ j \in DOMAIN issues
    BY <2>1, <2>2, <1>2 DEF NothingTwice, SameThing
  <2>3. CASE i = Newest /\ j \in DOMAIN issues
    BY <2>1, <2>3, <1>1, <1>2
  <2>4. CASE j = Newest /\ i \in DOMAIN issues
    BY <2>1, <2>4, <1>2
  <2>5. CASE i = Newest /\ j = Newest
    BY <2>1, <2>5, <1>1
  <2> QED
    BY <1>2, <2>2, <2>3, <2>4, <2>5
<1>5. ASSUME NEW s \in Nat
      PROVE  /\ IssuesOf(s)' = IssuesOf(s) \cup (IF s = x.story THEN {Newest} ELSE {})
             /\ AnsweredOf(s)' = AnsweredOf(s) \cup (IF s = x.story /\ x.answered THEN {Newest} ELSE {})
  <2>1. IssuesOf(s)' = IssuesOf(s) \cup (IF s = x.story THEN {Newest} ELSE {})
    BY <1>2 DEF IssuesOf
  <2>2. \A i \in IssuesOf(s) : i \in DOMAIN issues
    BY DEF IssuesOf
  <2> QED
    BY <2>1, <2>2, <1>2 DEF AnsweredOf
<1>6. ASSUME NEW k \in Nat, NoneBeyond(k), x.story <= k PROVE NoneBeyond(k)'
  <2>1. PICK new : new = issues'
    OBVIOUS
  <2>2. \A i \in DOMAIN new : new[i].export = exports => new[i].story <= k
    BY <2>1, <1>2, <1>6 DEF NoneBeyond
  <2> QED
    BY <2>1, <2>2 DEF NoneBeyond
<1> QED
  BY <1>1, <1>2, <1>3, <1>4, <1>5, <1>6

\* A new request: nothing of it is there.
LEMMA Receiving ==
    ASSUME DeliveryInvariant, Receive
    PROVE  DeliveryInvariant'
<1>0. PICK to \in Systems, n \in 1..MaxStories, linked \in BOOLEAN :
        /\ \E names \in [1..n -> EpicNames] : request' = [to |-> to, epics |-> names, linked |-> linked]
        /\ step' = CASE to \in {"jira", "confluence"} -> "connect"
                     [] to = "ado" -> "work item"
                     [] OTHER -> "format"
  BY DEF Receive
<1>1. PICK names \in [1..n -> EpicNames] : request' = [to |-> to, epics |-> names, linked |-> linked]
  BY <1>0
<1>2. /\ exports' = exports + 1 /\ exports \in Nat /\ exports' \in Nat /\ issues' = issues /\ issues \in Seq(Issues)
      /\ place' = 1 /\ epics' = << >> /\ stories' = << >> /\ errors' = 0 /\ report' = NoReport
  <2>1. /\ exports' = exports + 1 /\ issues' = issues
        /\ place' = 1 /\ epics' = << >> /\ stories' = << >> /\ errors' = 0 /\ report' = NoReport
    BY DEF Receive, targets
  <2>2. exports \in Nat /\ issues \in Seq(Issues)
    BY DEF DeliveryInvariant, DeliveryTypes
  <2> QED
    BY <2>1, <2>2
<1>3. n \in Nat /\ n > 0 /\ names \in Seq(EpicNames) /\ Len(names) = n
  BY DeliveryAssumption
<1>4. DeliveryTypes'
  <2>1. request' \in Requests
    BY <1>1, <1>3 DEF Requests
  <2>2. << >> \in Seq(Nat)
    OBVIOUS
  <2> QED
    BY <1>2, <2>1, <2>2 DEF DeliveryTypes
<1>5. \A i \in DOMAIN issues : issues[i].export \in Nat /\ issues[i].export <= exports
  <2>1. \A i \in DOMAIN issues : issues[i] \in Issues
    BY <1>2
  <2> QED
    BY <2>1 DEF DeliveryInvariant, PastIssues, Issues
<1>6. \A i \in DOMAIN issues' : issues'[i].export # exports' /\ issues'[i].export <= exports'
  BY <1>2, <1>5
<1>7. PastIssues' /\ NothingTwice'
  BY <1>2, <1>6 DEF PastIssues, NothingTwice, SameThing, DeliveryInvariant
<1>8. Size' = n /\ request'.to = to
  BY <1>1, <1>3 DEF Size
<1>9. JiraInvariant' /\ BeginInvariant'
  BY <1>0, <1>2, <1>6, <1>8 DEF JiraInvariant, BeginInvariant, AtEpic, AtStory, AtLink, AtPaper, Trackers
<1>10. ItemInvariant'
  <2>1. AtItem' => to = "ado"
    BY <1>0 DEF AtItem
  <2>2. Len(stories') = 0 /\ NoneBeyond(place - 1)' /\ ItemsFiled'
    <3>1. Len(stories') = 0 /\ 1..0 = {}
      BY <1>2
    <3> QED
      BY <1>6, <3>1 DEF NoneBeyond, ItemsFiled
  <2>3. Len(stories') + errors' = place' - 1 /\ place' <= Size' + 1
    BY <2>2, <1>2, <1>3, <1>8
  <2> QED
    BY <2>1, <2>2, <2>3, <1>8 DEF ItemInvariant
<1>11. CompletedIsWhole'
  BY <1>2 DEF CompletedIsWhole, NoReport
<1> QED
  BY <1>4, <1>7, <1>9, <1>10, <1>11 DEF DeliveryInvariant

\* An export that ends without "completed" has only to keep what is in the tracker in order.
LEMMA EndsFailed ==
    ASSUME DeliveryTypes', PastIssues', NothingTwice', step' = "reported", report'.status # "completed"
    PROVE  DeliveryInvariant'
BY DEF DeliveryInvariant, JiraInvariant, ItemInvariant, BeginInvariant, CompletedIsWhole,
       AtEpic, AtStory, AtLink, AtItem, AtPaper

LEMMA SameTarget ==
    ASSUME DeliveryInvariant, issues' = issues, exports' = exports
    PROVE  PastIssues' /\ NothingTwice' /\ \A s : IssuesOf(s)' = IssuesOf(s) /\ AnsweredOf(s)' = AnsweredOf(s)
BY DEF DeliveryInvariant, PastIssues, NothingTwice, SameThing, IssuesOf, AnsweredOf

\* Confluence, SharePoint and files
LEMMA OtherExports ==
    ASSUME DeliveryInvariant, Connect \/ WritePage \/ Format \/ VerifyFolder
    PROVE  DeliveryInvariant'
<1>1. /\ issues' = issues /\ exports' = exports /\ request' = request /\ place' = place /\ stories' = stories
      /\ errors' = errors /\ epics' = epics
  BY DEF Connect, WritePage, Format, VerifyFolder, targets, progress
<1>2. PastIssues' /\ NothingTwice' /\ DeliveryTypes'
  BY <1>1, SameTarget DEF DeliveryInvariant, DeliveryTypes
<1>3. CASE step' = "reported" /\ (request.to \notin Trackers \/ report'.status = "failed")
  BY <1>1, <1>2, <1>3 DEF DeliveryInvariant, JiraInvariant, ItemInvariant, BeginInvariant, CompletedIsWhole,
       AtEpic, AtStory, AtLink, AtItem, AtPaper
<1>4. CASE step' = "page" /\ request.to \notin Trackers
  BY <1>1, <1>2, <1>4 DEF DeliveryInvariant, JiraInvariant, ItemInvariant, BeginInvariant, CompletedIsWhole,
       AtEpic, AtStory, AtLink, AtItem, AtPaper
<1>5. CASE step' = "verify" /\ request.to \notin Trackers
  BY <1>1, <1>2, <1>5 DEF DeliveryInvariant, JiraInvariant, ItemInvariant, BeginInvariant, CompletedIsWhole,
       AtEpic, AtStory, AtLink, AtItem, AtPaper
<1>6. CASE step = "connect" /\ step' = "epic" /\ request.to = "jira"
  <2>1. /\ stories = << >> /\ epics = << >> /\ place = 1
        /\ \A i \in DOMAIN issues : issues[i].export # exports
    BY <1>6 DEF DeliveryInvariant, BeginInvariant
  <2>2. Len(stories) = 0 /\ 1..0 = {} /\ DOMAIN epics = {}
    BY <2>1
  <2>3. Filed' /\ NoneBeyond(Len(stories))'
    BY <1>1, <1>6, <2>1, <2>2 DEF Filed, EpicsFiled, StoriesFiled, ParentsFiled, NoneBeyond, IssuesOf, AnsweredOf
  <2>4. Len(stories') = place' - 1 /\ place' <= Size' + 1
    <3>1. Size' \in Nat
      BY <1>1 DEF Size, DeliveryInvariant, DeliveryTypes, Requests
    <3> QED
      <4>1. Len(stories') = 0 /\ place' = 1
        BY <1>1, <2>1, <2>2
      <4> QED
        BY <3>1, <4>1 DEF Size
  <2> QED
    BY <1>2, <1>6, <2>3, <2>4 DEF DeliveryInvariant, JiraInvariant, ItemInvariant, BeginInvariant, CompletedIsWhole,
       AtEpic, AtStory, AtLink, AtItem, AtPaper
<1>7. CASE Connect
  <2>1. step = "connect" /\ request.to # "ado"
    BY <1>7 DEF Connect, DeliveryInvariant, BeginInvariant
  <2>2. request.to \notin Trackers \/ request.to = "jira"
    BY <2>1 DEF Trackers
  <2> QED
    BY <1>7, <2>1, <2>2, <1>3, <1>4, <1>6 DEF Connect, Respond, Trackers
<1>8. CASE WritePage \/ Format \/ VerifyFolder
  <2>1. request.to \notin Trackers
    BY <1>8 DEF WritePage, Format, VerifyFolder, DeliveryInvariant, BeginInvariant, AtPaper
  <2> QED
    BY <1>8, <2>1, <1>3, <1>5 DEF WritePage, Format, VerifyFolder, Respond
<1> QED
  BY <1>7, <1>8

\* What is filed stays so when an issue of another kind is added.
LEMMA FiledTypes ==
    ASSUME DeliveryTypes
    PROVE  /\ Size \in Nat /\ Len(stories) \in Nat /\ issues \in Seq(Issues)
           /\ \A s \in 1..Size : request.epics[s] \in EpicNames
           /\ \A s : \A i \in IssuesOf(s) : i \in DOMAIN issues /\ i \in Nat
<1>1. request.epics \in Seq(EpicNames) /\ stories \in Seq(Nat) /\ issues \in Seq(Issues)
  BY DEF DeliveryTypes, Requests
<1> QED
  BY <1>1 DEF Size, IssuesOf

\* Before the turn of a story nothing of it is there.
LEMMA BeforeItsTurn ==
    ASSUME DeliveryTypes, NoneBeyond(Len(stories)), Len(stories) = place - 1
    PROVE  NoneBeyond(place) /\ AnsweredOf(place) = {}
<1>1. \A i \in DOMAIN issues : issues[i].story \in Nat
  <2>1. \A i \in DOMAIN issues : issues[i] \in Issues
    BY DEF DeliveryTypes
  <2> QED
    BY <2>1 DEF Issues
<1>2. PICK p \in Nat : p = place /\ p > 0
  BY DEF DeliveryTypes
<1>3. \A i \in DOMAIN issues : issues[i].export = exports => issues[i].story <= p - 1
  BY <1>2 DEF NoneBeyond
<1>4. \A i \in DOMAIN issues : issues[i].export = exports => issues[i].story <= p /\ issues[i].story # p
  BY <1>1, <1>2, <1>3
<1> QED
  BY <1>2, <1>4 DEF NoneBeyond, AnsweredOf, IssuesOf

\* A POST to Jira that was carried out
LEMMA Posting ==
    ASSUME DeliveryTypes, PastIssues, NothingTwice, request.to = "jira", Epic \in EpicNames,
           NEW story \in Nat, NEW parent \in Nat, NEW answered \in BOOLEAN,
           \A i \in AnsweredOf(story) : issues[i].epic # Epic,
           Created(story, parent, answered), exports' = exports
    PROVE  /\ issues' \in Seq(Issues) /\ PastIssues' /\ NothingTwice'
           /\ Newest \in Nat /\ Newest \notin DOMAIN issues
           /\ issues'[Newest].epic = Epic /\ issues'[Newest].story = story /\ issues'[Newest].parent = parent
           /\ DOMAIN issues' = DOMAIN issues \cup {Newest}
           /\ \A i \in DOMAIN issues : issues'[i] = issues[i] /\ i \in Nat
           /\ \A s \in Nat : AnsweredOf(s)' = AnsweredOf(s) \cup (IF s = story /\ answered THEN {Newest} ELSE {})
           /\ \A k \in Nat : NoneBeyond(k) /\ story <= k => NoneBeyond(k)'
<1> DEFINE x == Issue(story, parent, answered)
<1>1. /\ x \in Issues /\ x.export = exports /\ x.system = "jira" /\ x.epic = Epic
      /\ x.story = story /\ x.parent = parent /\ x.answered = answered
  BY DEF Issue, Issues, DeliveryTypes, Requests
<1>2. issues' = Append(issues, x)
  BY DEF Created
<1> HIDE DEF x
<1>3. \A i \in DOMAIN issues :
        issues[i].export = exports /\ issues[i].story = x.story /\ issues[i].epic = x.epic
            => x.system = "jira" /\ ~issues[i].answered
  BY <1>1 DEF AnsweredOf, IssuesOf
<1> QED
  BY <1>1, <1>2, <1>3, OneMoreIssue

LEMMA ParentsStay ==
    ASSUME ParentsFiled, exports' = exports, request' = request, NEW n, NEW story, NEW parent,
           DOMAIN issues' = DOMAIN issues \cup {n}, \A i \in DOMAIN issues : issues'[i] = issues[i],
           issues'[n].story = story, issues'[n].parent = parent,
           \A name \in DOMAIN epics : name \in DOMAIN epics' /\ epics'[name] = epics[name],
           story # 0 => request.epics[story] \in DOMAIN epics /\ parent = epics[request.epics[story]]
    PROVE  ParentsFiled'
<1>1. PICK new : new = issues'
  OBVIOUS
<1>2. PICK filed : filed = epics'
  OBVIOUS
<1>3. ASSUME NEW i \in DOMAIN new, new[i].export = exports, new[i].story # 0
      PROVE  request.epics[new[i].story] \in DOMAIN filed /\ new[i].parent = filed[request.epics[new[i].story]]
  <2>1. CASE i = n
    BY <1>1, <1>2, <1>3, <2>1
  <2>2. CASE i \in DOMAIN issues
    BY <1>1, <1>2, <1>3, <2>2 DEF ParentsFiled, UnderEpic
  <2> QED
    BY <1>1, <2>1, <2>2
<1> QED
  BY <1>1, <1>2, <1>3 DEF ParentsFiled, UnderEpic

\* A POST without an answer leaves no more than an issue the exporter does not know.
LEMMA Unanswered ==
    ASSUME DeliveryTypes, PastIssues, NothingTwice, Filed, Epic \in EpicNames,
           NEW story \in Nat, NEW parent \in Nat, \A i \in AnsweredOf(story) : issues[i].epic # Epic,
           story # 0 => story = place /\ Epic \in DOMAIN epics /\ parent = epics[Epic],
           Created(story, parent, FALSE) \/ UNCHANGED issues,
           UNCHANGED <<request, place, errors, exports, epics, stories>>
    PROVE  /\ DeliveryTypes' /\ PastIssues' /\ NothingTwice' /\ Filed'
           /\ \A s \in Nat : AnsweredOf(s)' = AnsweredOf(s)
           /\ \A k \in Nat : NoneBeyond(k) /\ story <= k => NoneBeyond(k)'
<1>1. CASE UNCHANGED issues
  <2>1. DeliveryTypes' /\ PastIssues' /\ NothingTwice'
    BY <1>1 DEF DeliveryTypes, PastIssues, NothingTwice, SameThing
  <2>2. /\ \A s \in Nat : AnsweredOf(s)' = AnsweredOf(s)
        /\ \A k \in Nat : NoneBeyond(k) => NoneBeyond(k)'
    BY <1>1 DEF NoneBeyond, AnsweredOf, IssuesOf
  <2>3. Filed'
    BY <1>1 DEF Filed, EpicsFiled, StoriesFiled, ParentsFiled, UnderEpic, AnsweredOf, IssuesOf
  <2> QED
    BY <2>1, <2>2, <2>3
<1>2. CASE Created(story, parent, FALSE)
  <2>1. request.to = "jira"
    BY DEF Filed
  <2>2. /\ issues' \in Seq(Issues) /\ PastIssues' /\ NothingTwice' /\ Newest \notin DOMAIN issues
        /\ issues'[Newest].story = story /\ issues'[Newest].parent = parent
        /\ DOMAIN issues' = DOMAIN issues \cup {Newest}
        /\ \A i \in DOMAIN issues : issues'[i] = issues[i]
        /\ \A s \in Nat : AnsweredOf(s)' = AnsweredOf(s)
        /\ \A k \in Nat : NoneBeyond(k) /\ story <= k => NoneBeyond(k)'
    <3>1. \A s \in Nat : AnsweredOf(s)' = AnsweredOf(s) \cup (IF s = story /\ FALSE THEN {Newest} ELSE {})
      BY <1>2, <2>1, Posting, Zenon
    <3>2. /\ issues' \in Seq(Issues) /\ PastIssues' /\ NothingTwice' /\ Newest \notin DOMAIN issues
          /\ issues'[Newest].story = story /\ issues'[Newest].parent = parent
          /\ DOMAIN issues' = DOMAIN issues \cup {Newest}
          /\ \A i \in DOMAIN issues : issues'[i] = issues[i]
          /\ \A k \in Nat : NoneBeyond(k) /\ story <= k => NoneBeyond(k)'
      BY <1>2, <2>1, Posting, Zenon
    <3> QED
      BY <3>1, <3>2
  <2>3. DeliveryTypes'
    BY <2>2 DEF DeliveryTypes
  <2>4. ParentsFiled'
    <3>1. story # 0 => request.epics[story] \in DOMAIN epics /\ parent = epics[request.epics[story]]
      BY DEF Epic
    <3>2. ParentsFiled
      BY DEF Filed
    <3> QED
      BY <2>2, <3>1, <3>2, ParentsStay
  <2>5. StoriesFiled'
    <3>1. \A s \in 1..Len(stories) : s \in Nat
      BY DEF DeliveryTypes
    <3> QED
      BY <2>2, <3>1 DEF Filed, StoriesFiled
  <2>6. EpicsFiled'
    <3>1. PICK new : new = issues'
      OBVIOUS
    <3>2. \A i \in AnsweredOf(0) : new[i] = issues[i]
      BY <2>2, <3>1 DEF AnsweredOf, IssuesOf
    <3>3. \A i \in AnsweredOf(0) : new[i].epic \in DOMAIN epics
      BY <3>2 DEF Filed, EpicsFiled
    <3>4. \A name \in DOMAIN epics : {i \in AnsweredOf(0) : new[i].epic = name} = {epics[name]}
      BY <3>2 DEF Filed, EpicsFiled
    <3> QED
      BY <2>2, <3>1, <3>3, <3>4 DEF EpicsFiled
  <2> QED
    BY <2>1, <2>2, <2>3, <2>4, <2>5, <2>6 DEF Filed
<1> QED
  BY <1>1, <1>2

LEMMA CreatingEpic ==
    ASSUME DeliveryInvariant, CreateEpic
    PROVE  DeliveryInvariant'
<1>1. /\ AtEpic /\ Filed /\ NoneBeyond(Len(stories)) /\ Len(stories) = place - 1
      /\ place <= Size /\ Epic \notin DOMAIN epics
      /\ UNCHANGED <<request, place, errors, exports>>
  BY DEF CreateEpic, DeliveryInvariant, JiraInvariant, AtEpic
<1>2. DeliveryTypes /\ PastIssues /\ NothingTwice /\ place \in Nat /\ place > 0
  BY DEF DeliveryInvariant, DeliveryTypes
<1>3. /\ Size \in Nat /\ Len(stories) \in Nat /\ Epic \in EpicNames
      /\ \A s : \A i \in IssuesOf(s) : i \in DOMAIN issues /\ i \in Nat
  <2>1. Size \in Nat /\ place \in 1..Size
    BY <1>1, <1>2, FiledTypes
  <2> QED
    BY <1>2, <2>1, FiledTypes DEF Epic
<1>4. \A i \in AnsweredOf(0) : issues[i].epic # Epic
  BY <1>1 DEF Filed, EpicsFiled
<1>5. CASE JiraFails(0, 0)
  <2>1. /\ Created(0, 0, FALSE) \/ UNCHANGED issues
        /\ UNCHANGED <<epics, stories>> /\ step' = "reported" /\ report'.status = "failed"
    BY <1>5 DEF JiraFails, Respond
  <2>2. DeliveryTypes' /\ PastIssues' /\ NothingTwice'
    BY <1>1, <1>2, <1>3, <1>4, <2>1, Unanswered
  <2> QED
    BY <2>1, <2>2, EndsFailed
<1>6. CASE Resend(0, 0)
  <2>1. /\ Created(0, 0, FALSE) \/ UNCHANGED issues
        /\ UNCHANGED <<epics, stories, report>> /\ step' = "epic"
    BY <1>1, <1>6 DEF Resend, AtEpic
  <2>2. /\ DeliveryTypes' /\ PastIssues' /\ NothingTwice' /\ Filed'
        /\ \A k \in Nat : NoneBeyond(k) /\ 0 <= k => NoneBeyond(k)'
    BY <1>1, <1>2, <1>3, <1>4, <2>1, Unanswered
  <2>3. PICK k \in Nat : k = Len(stories)
    BY <1>3
  <2>4. NoneBeyond(k)'
    BY <1>1, <2>2, <2>3
  <2>5. NoneBeyond(Len(stories))'
    BY <2>1, <2>3, <2>4 DEF NoneBeyond
  <2>6. Len(stories') = place' - 1 /\ place' <= Size' + 1
    BY <1>1, <1>2, <1>3, <2>1 DEF Size
  <2> QED
    BY <2>1, <2>2, <2>5, <2>6 DEF DeliveryInvariant, JiraInvariant, ItemInvariant, BeginInvariant, AtEpic, AtStory,
                                  AtLink, AtItem, AtPaper, CompletedIsWhole
<1>7. CASE EpicCreated
  <2> DEFINE D == DOMAIN epics
  <2>1. /\ Created(0, 0, TRUE)
        /\ epics' = [name \in D \cup {Epic} |-> IF name = Epic THEN Newest ELSE epics[name]]
        /\ step' = "story" /\ UNCHANGED <<stories, report>>
    BY <1>7 DEF EpicCreated
  <2>2. request.to = "jira"
    BY <1>1 DEF Filed
  <2>3. /\ issues' \in Seq(Issues) /\ PastIssues' /\ NothingTwice' /\ Newest \notin DOMAIN issues
        /\ issues'[Newest].epic = Epic /\ issues'[Newest].story = 0 /\ issues'[Newest].parent = 0
        /\ DOMAIN issues' = DOMAIN issues \cup {Newest}
        /\ \A i \in DOMAIN issues : issues'[i] = issues[i]
        /\ \A s \in Nat : AnsweredOf(s)' = AnsweredOf(s) \cup (IF s = 0 THEN {Newest} ELSE {})
        /\ \A k \in Nat : NoneBeyond(k) /\ 0 <= k => NoneBeyond(k)'
    <3>1. 0 \in Nat /\ TRUE \in BOOLEAN
      OBVIOUS
    <3>2. \A s \in Nat : AnsweredOf(s)' = AnsweredOf(s) \cup (IF s = 0 /\ TRUE THEN {Newest} ELSE {})
      BY <1>1, <1>2, <1>3, <1>4, <2>1, <2>2, <3>1, Posting, Zenon
    <3>3. /\ issues' \in Seq(Issues) /\ PastIssues' /\ NothingTwice' /\ Newest \notin DOMAIN issues
          /\ issues'[Newest].epic = Epic /\ issues'[Newest].story = 0 /\ issues'[Newest].parent = 0
          /\ DOMAIN issues' = DOMAIN issues \cup {Newest}
          /\ \A i \in DOMAIN issues : issues'[i] = issues[i]
          /\ \A k \in Nat : NoneBeyond(k) /\ 0 <= k => NoneBeyond(k)'
      BY <1>1, <1>2, <1>3, <1>4, <2>1, <2>2, <3>1, Posting, Zenon
    <3> QED
      BY <3>2, <3>3
  <2>4. DeliveryTypes'
    BY <1>1, <1>2, <2>1, <2>3 DEF DeliveryTypes
  <2>5. PICK n : n = Newest
    OBVIOUS
  <2>6. PICK new : new = issues'
    OBVIOUS
  <2>7. /\ DOMAIN epics' = D \cup {Epic} /\ epics'[Epic] = n /\ \A name \in D : epics'[name] = epics[name]
    BY <1>1, <2>1, <2>5
  <2>8. AnsweredOf(0)' = AnsweredOf(0) \cup {n} /\ \A s \in Nat \ {0} : AnsweredOf(s)' = AnsweredOf(s)
    <3>1. \A s \in Nat : AnsweredOf(s)' = AnsweredOf(s) \cup (IF s = 0 THEN {n} ELSE {})
      BY <2>3, <2>5
    <3>2. AnsweredOf(0)' = AnsweredOf(0) \cup (IF 0 = 0 THEN {n} ELSE {})
      BY <3>1
    <3>3. ASSUME NEW s \in Nat, s # 0 PROVE AnsweredOf(s)' = AnsweredOf(s)
      BY <3>1, <3>3
    <3> QED
      BY <3>2, <3>3
  <2>9. EpicsFiled'
    <3>1. new[n].epic = Epic /\ \A i \in AnsweredOf(0) : new[i] = issues[i]
      BY <2>3, <2>5, <2>6 DEF AnsweredOf, IssuesOf
    <3>2. \A i \in AnsweredOf(0)' : new[i].epic \in DOMAIN epics'
      BY <1>1, <2>7, <2>8, <3>1 DEF Filed, EpicsFiled
    <3>3. ASSUME NEW name \in D PROVE {i \in AnsweredOf(0)' : new[i].epic = name} = {epics'[name]}
      <4>1. {i \in AnsweredOf(0)' : new[i].epic = name} = {i \in AnsweredOf(0) : issues[i].epic = name}
        BY <1>1, <2>8, <3>1
      <4> QED
        BY <4>1, <2>7, <1>1 DEF Filed, EpicsFiled
    <3>4. {i \in AnsweredOf(0)' : new[i].epic = Epic} = {epics'[Epic]}
      BY <1>4, <2>7, <2>8, <3>1
    <3> QED
      BY <2>6, <2>7, <3>2, <3>3, <3>4 DEF EpicsFiled
  <2>10. Len(stories') = Len(stories) /\ \A s \in 1..Len(stories) : s \in Nat \ {0} /\ stories'[s] = stories[s]
    BY <1>3, <2>1
  <2>11. StoriesFiled'
    BY <2>8, <2>10, <1>1 DEF Filed, StoriesFiled
  <2>12. ParentsFiled'
    <3>1. ParentsFiled
      BY <1>1 DEF Filed
    <3> QED
      BY <1>1, <2>3, <2>7, <3>1, ParentsStay
  <2>13. NoneBeyond(place)' /\ AnsweredOf(place)' = {}
    <3>1. PICK p \in Nat : p = place /\ p > 0
      BY <1>2
    <3>2. NoneBeyond(p) /\ AnsweredOf(p) = {}
      BY <1>1, <1>2, <3>1, BeforeItsTurn
    <3>3. NoneBeyond(p)' /\ AnsweredOf(p)' = {}
      BY <2>3, <2>8, <3>1, <3>2
    <3> QED
      BY <1>1, <3>1, <3>3 DEF NoneBeyond, AnsweredOf, IssuesOf
  <2>14. Filed'
    BY <1>1, <2>9, <2>11, <2>12 DEF Filed
  <2>15. Size' = Size /\ (Epic \in DOMAIN epics)'
    BY <1>1, <2>7 DEF Size, Epic
  <2>16. JiraInvariant'
    BY <1>1, <2>1, <2>10, <2>13, <2>14, <2>15 DEF JiraInvariant, AtEpic, AtStory, AtLink
  <2> QED
    BY <2>1, <2>3, <2>4, <2>16 DEF DeliveryInvariant, ItemInvariant, BeginInvariant, AtItem, AtPaper, CompletedIsWhole
<1> QED
  BY <1>5, <1>6, <1>7 DEF CreateEpic

LEMMA CreatingStory ==
    ASSUME DeliveryInvariant, CreateStory \/ CreateStoryAgain
    PROVE  DeliveryInvariant'
<1>1. /\ AtStory /\ Filed /\ NoneBeyond(place) /\ AnsweredOf(place) = {}
      /\ Len(stories) = place - 1 /\ place <= Size /\ Epic \in DOMAIN epics
      /\ UNCHANGED <<request, place, errors, exports>>
  BY DEF CreateStory, CreateStoryAgain, DeliveryInvariant, JiraInvariant, AtStory
<1>2. DeliveryTypes /\ PastIssues /\ NothingTwice /\ place \in Nat /\ place > 0
  BY DEF DeliveryInvariant, DeliveryTypes
<1>3. /\ Size \in Nat /\ Len(stories) \in Nat /\ Epic \in EpicNames /\ stories \in Seq(Nat)
      /\ \A s : \A i \in IssuesOf(s) : i \in DOMAIN issues /\ i \in Nat
  <2>1. Size \in Nat /\ place \in 1..Size
    BY <1>1, <1>2, FiledTypes
  <2> QED
    BY <1>2, <2>1, FiledTypes DEF Epic, DeliveryTypes
<1>4. epics[Epic] \in Nat
  BY <1>1, <1>3 DEF Filed, EpicsFiled, AnsweredOf
<1>p. PICK p \in Nat : p = place /\ p > 0
  BY <1>2
<1>5. ASSUME Created(place, epics[Epic], FALSE) \/ UNCHANGED issues, UNCHANGED <<epics, stories>>
      PROVE  /\ DeliveryTypes' /\ PastIssues' /\ NothingTwice' /\ Filed'
             /\ NoneBeyond(place)' /\ AnsweredOf(place)' = {}
  <2>1. \A i \in AnsweredOf(place) : issues[i].epic # Epic
    BY <1>1
  <2>2. /\ DeliveryTypes' /\ PastIssues' /\ NothingTwice' /\ Filed'
        /\ \A s \in Nat : AnsweredOf(s)' = AnsweredOf(s)
        /\ \A k \in Nat : NoneBeyond(k) /\ place <= k => NoneBeyond(k)'
    BY <1>1, <1>2, <1>3, <1>4, <1>5, <2>1, Unanswered
  <2>3. NoneBeyond(p)' /\ AnsweredOf(p)' = {}
    BY <1>1, <1>p, <2>2
  <2> QED
    BY <1>1, <1>p, <2>2, <2>3 DEF NoneBeyond, AnsweredOf, IssuesOf
<1>6. CASE JiraFails(place, epics[Epic])
  <2>1. /\ Created(place, epics[Epic], FALSE) \/ UNCHANGED issues
        /\ UNCHANGED <<epics, stories>> /\ step' = "reported" /\ report'.status = "failed"
    BY <1>6 DEF JiraFails, Respond
  <2> QED
    BY <1>5, <2>1, EndsFailed
<1>7. CASE Resend(place, epics[Epic]) \/ (step' = "story again" /\ UNCHANGED <<issues, epics, stories, report>>)
  <2>1. /\ Created(place, epics[Epic], FALSE) \/ UNCHANGED issues
        /\ UNCHANGED <<epics, stories, report>> /\ step' \in {"story", "story again"}
    BY <1>1, <1>7 DEF Resend, AtStory
  <2>2. Size' = Size /\ Epic' = Epic
    BY <1>1 DEF Size, Epic
  <2>3. JiraInvariant'
    BY <1>1, <1>5, <2>1, <2>2 DEF JiraInvariant, AtEpic, AtStory, AtLink
  <2> QED
    BY <1>5, <2>1, <2>3 DEF DeliveryInvariant, ItemInvariant, BeginInvariant, AtItem, AtPaper, CompletedIsWhole
<1>8. CASE StoryCreated
  <2>1. /\ Created(place, epics[Epic], TRUE) /\ stories' = Append(stories, Newest) /\ step' = "link"
        /\ epics' = epics /\ report' = report
    BY <1>8 DEF StoryCreated
  <2>2. request.to = "jira" /\ \A i \in AnsweredOf(place) : issues[i].epic # Epic
    BY <1>1 DEF Filed
  <2>3. /\ issues' \in Seq(Issues) /\ PastIssues' /\ NothingTwice'
        /\ Newest \in Nat /\ Newest \notin DOMAIN issues
        /\ issues'[Newest].epic = Epic /\ issues'[Newest].story = place /\ issues'[Newest].parent = epics[Epic]
        /\ DOMAIN issues' = DOMAIN issues \cup {Newest}
        /\ \A i \in DOMAIN issues : issues'[i] = issues[i]
        /\ \A s \in Nat : AnsweredOf(s)' = AnsweredOf(s) \cup (IF s = place THEN {Newest} ELSE {})
        /\ \A k \in Nat : NoneBeyond(k) /\ place <= k => NoneBeyond(k)'
    BY <1>1, <1>2, <1>3, <1>4, <2>1, <2>2, Posting
  <2>4. DeliveryTypes'
    BY <1>1, <1>2, <1>3, <2>1, <2>3 DEF DeliveryTypes
  <2>5. PICK n : n = Newest
    OBVIOUS
  <2>6. PICK new : new = issues'
    OBVIOUS
  <2>7. PICK more : more = stories'
    OBVIOUS
  <2>8. /\ Len(more) = place /\ more[place] = n /\ 1..Len(more) = (1..Len(stories)) \cup {place}
        /\ \A s \in 1..Len(stories) : more[s] = stories[s] /\ s # place /\ s \in Nat \ {0}
    <3>1. n \in Nat /\ more = Append(stories, n)
      BY <2>1, <2>3, <2>5, <2>7
    <3>2. Len(more) = Len(stories) + 1 /\ more[Len(stories) + 1] = n
          /\ \A s \in 1..Len(stories) : more[s] = stories[s]
      BY <3>1, <1>3
    <3>3. Len(stories) + 1 = place
      BY <1>1, <1>2, <1>3
    <3> QED
      BY <3>2, <3>3, <1>2, <1>3
  <2>9. /\ AnsweredOf(p)' = {n} /\ \A s \in Nat : s # p => AnsweredOf(s)' = AnsweredOf(s)
    <3>1. \A s \in Nat : AnsweredOf(s)' = AnsweredOf(s) \cup (IF s = p THEN {n} ELSE {})
      BY <2>3, <2>5, <1>p
    <3> QED
      BY <1>1, <1>p, <3>1
  <2>10. EpicsFiled'
    <3>1. AnsweredOf(0)' = AnsweredOf(0)
      BY <2>9, <1>p
    <3>2. \A i \in AnsweredOf(0) : new[i] = issues[i]
      BY <2>3, <2>6 DEF AnsweredOf, IssuesOf
    <3>3. \A i \in AnsweredOf(0) : new[i].epic \in DOMAIN epics
      BY <1>1, <3>2 DEF Filed, EpicsFiled
    <3>4. \A name \in DOMAIN epics : {i \in AnsweredOf(0) : new[i].epic = name} = {epics[name]}
      BY <1>1, <3>2 DEF Filed, EpicsFiled
    <3> QED
      BY <2>1, <2>6, <3>1, <3>3, <3>4 DEF EpicsFiled
  <2>11. \A s \in 1..Len(more) : AnsweredOf(s)' = {more[s]}
    <3>1. \A s \in 1..Len(stories) : AnsweredOf(s)' = {more[s]}
      BY <2>8, <2>9, <1>p, <1>1 DEF Filed, StoriesFiled
    <3>2. AnsweredOf(p)' = {more[p]}
      BY <2>8, <2>9, <1>p
    <3> QED
      BY <3>1, <3>2, <2>8, <1>p
  <2>12. StoriesFiled'
    BY <2>7, <2>11 DEF StoriesFiled
  <2>13. ParentsFiled'
    <3>1. ParentsFiled
      BY <1>1 DEF Filed
    <3>2. request.epics[place] \in DOMAIN epics /\ epics[Epic] = epics[request.epics[place]]
      BY <1>1 DEF Epic
    <3> QED
      BY <1>1, <2>1, <2>3, <3>1, <3>2, ParentsStay
  <2>14. NoneBeyond(Len(stories))'
    <3>1. NoneBeyond(p)'
      BY <1>1, <1>p, <2>3
    <3> QED
      BY <3>1, <1>p, <2>7, <2>8 DEF NoneBeyond
  <2>15. Filed'
    BY <1>1, <2>10, <2>12, <2>13 DEF Filed
  <2>16. Size' = Size /\ Len(stories') = place' /\ place' <= Size
    BY <1>1, <2>7, <2>8 DEF Size
  <2>17. JiraInvariant'
    BY <2>1, <2>14, <2>15, <2>16 DEF JiraInvariant, AtEpic, AtStory, AtLink
  <2> QED
    BY <2>1, <2>3, <2>4, <2>17 DEF DeliveryInvariant, ItemInvariant, BeginInvariant, AtItem, AtPaper, CompletedIsWhole
<1> QED
  BY <1>6, <1>7, <1>8 DEF CreateStory, CreateStoryAgain

LEMMA OtherJiraSteps ==
    ASSUME DeliveryInvariant, FindEpic \/ Link \/ JiraCompletes
    PROVE  DeliveryInvariant'
<1>1. /\ issues' = issues /\ exports' = exports /\ request' = request /\ stories' = stories /\ errors' = errors
      /\ epics' = epics
  BY DEF FindEpic, Link, JiraCompletes, targets, progress
<1>2. place \in Nat /\ place > 0 /\ Size \in Nat /\ Size' = Size /\ Len(stories) \in Nat
  BY <1>1, FiledTypes DEF DeliveryInvariant, DeliveryTypes, Size
<1>3. /\ Filed => Filed'
      /\ NoneBeyond(Len(stories)) => NoneBeyond(Len(stories))'
  BY <1>1 DEF Filed, EpicsFiled, StoriesFiled, ParentsFiled, UnderEpic, NoneBeyond, IssuesOf, AnsweredOf
<1>4. PastIssues' /\ NothingTwice'
  BY <1>1, SameTarget
<1>5. CASE FindEpic
  <2>1. AtEpic /\ step' = "story" /\ place' = place /\ place <= Size /\ Epic \in DOMAIN epics /\ report' = report
    BY <1>5 DEF FindEpic, AtEpic, progress
  <2>2. DeliveryTypes' /\ Epic' = Epic
    BY <1>1, <2>1 DEF DeliveryInvariant, DeliveryTypes, Epic
  <2>3. Filed /\ NoneBeyond(Len(stories)) /\ Len(stories) = place - 1
    BY <2>1 DEF DeliveryInvariant, JiraInvariant
  <2>4. NoneBeyond(place) /\ AnsweredOf(place) = {}
    BY <1>2, <2>3, BeforeItsTurn DEF DeliveryInvariant
  <2>5. NoneBeyond(place)' /\ AnsweredOf(place)' = {}
    BY <1>1, <2>1, <2>4 DEF NoneBeyond, AnsweredOf, IssuesOf
  <2>6. JiraInvariant'
    BY <1>1, <1>2, <1>3, <2>1, <2>2, <2>3, <2>5 DEF JiraInvariant, AtEpic, AtStory, AtLink
  <2> QED
    BY <2>1, <2>2, <2>6, <1>4 DEF DeliveryInvariant, ItemInvariant, BeginInvariant, AtItem, AtPaper, CompletedIsWhole
<1>6. CASE Link
  <2>1. AtLink /\ report' = report
    BY <1>6 DEF Link, AtLink
  <2>2. Filed /\ NoneBeyond(Len(stories)) /\ Len(stories) = place /\ place <= Size
    BY <2>1 DEF DeliveryInvariant, JiraInvariant
  <2>3. CASE MoveOn
    <3>1. step' = "epic" /\ place' = place + 1
      BY <2>3 DEF MoveOn
    <3>2. place' \in Nat \ {0} /\ Len(stories') = place' - 1 /\ place' <= Size + 1
      BY <3>1, <2>2, <1>1, <1>2
    <3>3. DeliveryTypes'
      BY <3>2, <1>1 DEF DeliveryInvariant, DeliveryTypes
    <3>4. JiraInvariant'
      BY <1>2, <1>3, <2>2, <3>1, <3>2 DEF JiraInvariant, AtEpic, AtStory, AtLink
    <3> QED
      BY <3>1, <3>3, <3>4, <1>4 DEF DeliveryInvariant, ItemInvariant, BeginInvariant, AtItem, AtPaper, CompletedIsWhole
  <2>4. CASE UNCHANGED <<place, step>>
    <3>1. step' = "link" /\ place' = place
      BY <2>1, <2>4 DEF AtLink
    <3>2. DeliveryTypes'
      BY <3>1, <1>1 DEF DeliveryInvariant, DeliveryTypes
    <3>3. JiraInvariant'
      BY <1>1, <1>2, <1>3, <2>2, <3>1 DEF JiraInvariant, AtEpic, AtStory, AtLink
    <3> QED
      BY <3>1, <3>2, <3>3, <1>4 DEF DeliveryInvariant, ItemInvariant, BeginInvariant, AtItem, AtPaper, CompletedIsWhole
  <2> QED
    BY <1>6, <2>3, <2>4 DEF Link
<1>7. CASE JiraCompletes
  <2>1. AtEpic /\ place > Size /\ step' = "reported" /\ report' = [status |-> "completed", count |-> Len(stories)]
        /\ place' = place
    BY <1>7 DEF JiraCompletes, AtEpic, Respond, progress
  <2>2. Filed /\ Len(stories) = place - 1 /\ place <= Size + 1
    BY <2>1 DEF DeliveryInvariant, JiraInvariant
  <2>3. Len(stories) = Size
    BY <2>1, <2>2, <1>2
  <2>4. DeliveryTypes'
    BY <1>1, <2>1 DEF DeliveryInvariant, DeliveryTypes
  <2>5. report'.count = Size /\ Len(stories') = Size'
    BY <1>1, <1>2, <2>1, <2>3
  <2>6. \A s \in 1..Size : AnsweredOf(s) = {stories[s]}
    BY <2>2, <2>3 DEF Filed, StoriesFiled
  <2>7. ASSUME NEW s \in 1..Size
        PROVE  \E e \in DOMAIN issues : /\ {i \in AnsweredOf(0) : issues[i].epic = request.epics[s]} = {e}
                                        /\ \A i \in IssuesOf(s) : issues[i].parent = e
    <3>1. stories[s] \in DOMAIN issues /\ issues[stories[s]].export = exports /\ issues[stories[s]].story = s
      BY <2>6 DEF AnsweredOf, IssuesOf
    <3>2. s # 0
      BY <1>2
    <3>3. request.epics[s] \in DOMAIN epics
      BY <2>2, <3>1, <3>2 DEF Filed, ParentsFiled, UnderEpic
    <3>4. {i \in AnsweredOf(0) : issues[i].epic = request.epics[s]} = {epics[request.epics[s]]}
      BY <2>2, <3>3 DEF Filed, EpicsFiled
    <3>5. epics[request.epics[s]] \in DOMAIN issues
      BY <3>4 DEF AnsweredOf, IssuesOf
    <3>6. \A i \in IssuesOf(s) : issues[i].parent = epics[request.epics[s]]
      BY <2>2, <3>2 DEF Filed, ParentsFiled, UnderEpic, IssuesOf
    <3> QED
      BY <3>4, <3>5, <3>6
  <2>8. CompletedIsWhole'
    <3>1. \A s : IssuesOf(s)' = IssuesOf(s) /\ AnsweredOf(s)' = AnsweredOf(s)
      BY SameTarget, <1>1
    <3>2. (\A s \in 1..Size : AnsweredOf(s) = {stories[s]})'
      BY <1>1, <1>2, <2>6, <3>1
    <3>3. (\A s \in 1..Size : \E e \in DOMAIN issues :
              /\ {i \in AnsweredOf(0) : issues[i].epic = request.epics[s]} = {e}
              /\ \A i \in IssuesOf(s) : issues[i].parent = e)'
      BY <1>1, <1>2, <2>7, <3>1
    <3>4. request'.to # "ado"
      BY <1>1, <2>2 DEF Filed
    <3> QED
      BY <1>2, <2>5, <3>2, <3>3, <3>4 DEF CompletedIsWhole
  <2> QED
    BY <2>1, <2>4, <2>8, <1>4 DEF DeliveryInvariant, JiraInvariant, ItemInvariant, BeginInvariant,
                                  AtEpic, AtStory, AtLink, AtItem, AtPaper
<1> QED
  BY <1>5, <1>6, <1>7

LEMMA CreatingItem ==
    ASSUME DeliveryInvariant, CreateWorkItem
    PROVE  DeliveryInvariant'
<1>1. /\ AtItem /\ request.to = "ado" /\ Len(stories) + errors = place - 1 /\ place <= Size
      /\ NoneBeyond(place - 1) /\ (errors = 0 => ItemsFiled)
      /\ UNCHANGED <<request, step, report, exports>> /\ place' = place + 1
  BY DEF CreateWorkItem, DeliveryInvariant, ItemInvariant, AtItem
<1>2. /\ DeliveryTypes /\ PastIssues /\ NothingTwice /\ place \in Nat /\ place > 0 /\ errors \in Nat
      /\ stories \in Seq(Nat) /\ Len(stories) \in Nat /\ Size \in Nat
  BY FiledTypes DEF DeliveryInvariant, DeliveryTypes
<1>3. Epic \in EpicNames
  <2>1. place \in 1..Size
    BY <1>1, <1>2
  <2> QED
    BY <1>2, <2>1, FiledTypes DEF Epic
<1>p. PICK p \in Nat : p = place /\ p > 0
  BY <1>2
<1>4. \A i \in DOMAIN issues : issues[i].story \in Nat /\ (issues[i].export = exports => issues[i].story < p)
  <2>1. \A i \in DOMAIN issues : issues[i].story \in Nat
    <3>1. \A i \in DOMAIN issues : issues[i] \in Issues
      BY <1>2 DEF DeliveryTypes
    <3> QED
      BY <3>1 DEF Issues
  <2>2. \A i \in DOMAIN issues : issues[i].export = exports => issues[i].story <= p - 1
    BY <1>1, <1>p DEF NoneBeyond
  <2> QED
    BY <2>1, <2>2
<1>5. ASSUME NEW answered \in BOOLEAN, Created(place, 0, answered)
      PROVE  /\ issues' \in Seq(Issues) /\ PastIssues' /\ NothingTwice' /\ Newest \in Nat /\ NoneBeyond(p)'
             /\ \A s \in Nat : IssuesOf(s)' = IssuesOf(s) \cup (IF s = p THEN {Newest} ELSE {})
             /\ \A s \in Nat : AnsweredOf(s)' = AnsweredOf(s) \cup (IF s = p /\ answered THEN {Newest} ELSE {})
  <2> DEFINE x == Issue(place, 0, answered)
  <2>1. x \in Issues /\ x.export = exports /\ x.story = p /\ x.answered = answered
    BY <1>2, <1>3, <1>p DEF Issue, Issues, DeliveryTypes, Requests
  <2>2. issues' = Append(issues, x)
    BY <1>5 DEF Created
  <2> HIDE DEF x
  <2>3. NoneBeyond(p)
    BY <1>4, <1>p DEF NoneBeyond
  <2>4. \A i \in DOMAIN issues : ~(issues[i].export = exports /\ issues[i].story = x.story)
    BY <1>4, <1>p, <2>1
  <2> QED
    <3>1. /\ issues' \in Seq(Issues) /\ PastIssues' /\ NothingTwice' /\ Newest \in Nat
          /\ \A s \in Nat : IssuesOf(s)' = IssuesOf(s) \cup (IF s = x.story THEN {Newest} ELSE {})
          /\ \A s \in Nat :
                AnsweredOf(s)' = AnsweredOf(s) \cup (IF s = x.story /\ x.answered THEN {Newest} ELSE {})
          /\ \A k \in Nat : NoneBeyond(k) /\ x.story <= k => NoneBeyond(k)'
      BY <1>1, <1>2, <2>1, <2>2, <2>4, OneMoreIssue, Zenon
    <3>2. p <= p
      BY <1>p
    <3> QED
      BY <2>1, <2>3, <3>1, <3>2
<1>8. ASSUME UNCHANGED issues
      PROVE  issues' \in Seq(Issues) /\ PastIssues' /\ NothingTwice' /\ NoneBeyond(p)'
  BY <1>1, <1>2, <1>4, <1>p, <1>8 DEF DeliveryTypes, PastIssues, NothingTwice, SameThing, NoneBeyond
<1>9. issues' \in Seq(Issues) /\ PastIssues' /\ NothingTwice' /\ NoneBeyond(p)'
  BY <1>5, <1>8 DEF CreateWorkItem
<1>10. place' = p + 1 /\ NoneBeyond(place - 1)'
  <2>1. PICK q : q = place' - 1
    OBVIOUS
  <2>2. q = p /\ place' = p + 1
    BY <2>1, <1>1, <1>p
  <2> QED
    BY <2>1, <2>2, <1>9 DEF NoneBeyond
<1>11. /\ errors' \in Nat /\ stories' \in Seq(Nat) /\ Len(stories') + errors' = place' - 1 /\ (errors' = 0 => ItemsFiled')
  <2>1. CASE Created(place, 0, TRUE) /\ stories' = Append(stories, Newest) /\ UNCHANGED errors
    <3>1. /\ Newest \in Nat
          /\ \A s \in Nat : IssuesOf(s)' = IssuesOf(s) \cup (IF s = p THEN {Newest} ELSE {})
          /\ \A s \in Nat : AnsweredOf(s)' = AnsweredOf(s) \cup (IF s = p THEN {Newest} ELSE {})
      BY <2>1, <1>5
    <3>2. PICK n \in Nat : n = Newest
      BY <3>1
    <3>3. PICK more : more = stories' /\ more = Append(stories, n)
      BY <2>1, <3>2
    <3>4. /\ more \in Seq(Nat) /\ Len(more) = Len(stories) + 1 /\ more[Len(stories) + 1] = n
          /\ \A s \in 1..Len(stories) : more[s] = stories[s]
      BY <3>3, <1>2
    <3>5. Len(more) + errors = (p + 1) - 1
      BY <3>4, <1>1, <1>2, <1>p
    <3>6. ASSUME errors = 0, NEW s \in 1..Len(more)
          PROVE  IssuesOf(s)' = {more[s]} /\ AnsweredOf(s)' = {more[s]}
      <4>1. Len(more) = p /\ Len(stories) = p - 1 /\ s \in Nat
        BY <3>4, <3>5, <3>6, <1>2
      <4>2. \A t \in Nat : /\ IssuesOf(t)' = IssuesOf(t) \cup (IF t = p THEN {n} ELSE {})
                           /\ AnsweredOf(t)' = AnsweredOf(t) \cup (IF t = p THEN {n} ELSE {})
        BY <3>1, <3>2
      <4>3. CASE s = p
        <5>1. IssuesOf(s) = {} /\ AnsweredOf(s) = {}
          BY <4>3, <1>4, <1>p DEF IssuesOf, AnsweredOf
        <5> QED
          BY <4>1, <4>2, <4>3, <5>1, <3>4
      <4>4. CASE s \in 1..Len(stories)
        <5>1. IssuesOf(s) = {stories[s]} /\ AnsweredOf(s) = {stories[s]} /\ s # p
          BY <4>1, <4>4, <3>6, <1>1 DEF ItemsFiled
        <5> QED
          BY <4>1, <4>2, <4>4, <5>1, <3>4
      <4> QED
        BY <4>1, <4>3, <4>4
    <3>7. errors = 0 => ItemsFiled'
      BY <3>3, <3>6 DEF ItemsFiled
    <3> QED
      BY <2>1, <3>3, <3>4, <3>5, <3>7, <1>2, <1>10
  <2>2. CASE errors' = errors + 1 /\ UNCHANGED stories
    BY <2>2, <1>1, <1>2, <1>10, <1>p
  <2> QED
    BY <2>1, <2>2 DEF CreateWorkItem
<1>12. DeliveryTypes'
  BY <1>1, <1>2, <1>9, <1>10, <1>11 DEF DeliveryTypes
<1>13. place' <= Size' + 1
  BY <1>1, <1>2 DEF Size
<1>14. ItemInvariant'
  BY <1>1, <1>10, <1>11, <1>13 DEF ItemInvariant
<1>15. JiraInvariant' /\ BeginInvariant' /\ CompletedIsWhole'
  BY <1>1 DEF AtItem, JiraInvariant, BeginInvariant, CompletedIsWhole, AtEpic, AtStory, AtLink, AtPaper
<1> QED
  BY <1>9, <1>12, <1>14, <1>15 DEF DeliveryInvariant

LEMMA ReportingItems ==
    ASSUME DeliveryInvariant, AzureReports
    PROVE  DeliveryInvariant'
<1>1. /\ issues' = issues /\ exports' = exports /\ request' = request /\ stories' = stories /\ errors' = errors
      /\ epics' = epics /\ place' = place /\ step' = "reported"
      /\ report' = [status |-> AzureStatus, count |-> Len(stories)] /\ place > Size
  BY DEF AzureReports, targets, progress, Respond
<1>2. /\ request.to = "ado" /\ Len(stories) + errors = place - 1 /\ place <= Size + 1 /\ (errors = 0 => ItemsFiled)
  BY DEF AzureReports, DeliveryInvariant, ItemInvariant, AtItem
<1>3. /\ place \in Nat /\ errors \in Nat /\ Len(stories) \in Nat /\ Size \in Nat /\ Size' = Size
  BY <1>1, FiledTypes DEF DeliveryInvariant, DeliveryTypes, Size
<1>4. PastIssues' /\ NothingTwice' /\ DeliveryTypes'
  BY <1>1, SameTarget DEF DeliveryInvariant, DeliveryTypes
<1>5. ASSUME report'.status = "completed"
      PROVE  /\ report'.count = Size' /\ Len(stories') = Size'
             /\ (\A s \in 1..Size : IssuesOf(s) = {stories[s]} /\ AnsweredOf(s) = {stories[s]})'
  <2>1. errors = 0
    BY <1>1, <1>5 DEF AzureStatus
  <2>2. Len(stories) = Size
    BY <2>1, <1>1, <1>2, <1>3
  <2>3. \A s \in 1..Size : IssuesOf(s) = {stories[s]} /\ AnsweredOf(s) = {stories[s]}
    BY <2>1, <2>2, <1>2 DEF ItemsFiled
  <2>4. \A s : IssuesOf(s)' = IssuesOf(s) /\ AnsweredOf(s)' = AnsweredOf(s)
    BY SameTarget, <1>1
  <2> QED
    BY <2>2, <2>3, <2>4, <1>1, <1>3
<1>6. CompletedIsWhole'
  BY <1>1, <1>2, <1>3, <1>5 DEF CompletedIsWhole
<1> QED
  BY <1>1, <1>4, <1>6 DEF DeliveryInvariant, JiraInvariant, ItemInvariant, BeginInvariant,
                          AtEpic, AtStory, AtLink, AtItem, AtPaper

LEMMA DeliveryInvariantKept == DeliveryInvariant /\ [DeliveryNext]_deliveryVars => DeliveryInvariant'
<1>1. CASE UNCHANGED deliveryVars
  <2>1. /\ issues' = issues /\ exports' = exports /\ request' = request /\ stories' = stories /\ errors' = errors
        /\ epics' = epics /\ place' = place /\ step' = step /\ report' = report
    BY <1>1 DEF deliveryVars
  <2>2. DeliveryTypes /\ PastIssues /\ NothingTwice => (DeliveryTypes /\ PastIssues /\ NothingTwice)'
    BY <2>1 DEF DeliveryTypes, PastIssues, NothingTwice, SameThing
  <2>3. JiraInvariant => JiraInvariant'
    BY <2>1 DEF JiraInvariant, AtEpic, AtStory, AtLink, Filed, EpicsFiled, StoriesFiled, ParentsFiled, UnderEpic,
                NoneBeyond, IssuesOf, AnsweredOf, Size, Epic
  <2>4. ItemInvariant => ItemInvariant'
    BY <2>1 DEF ItemInvariant, AtItem, NoneBeyond, ItemsFiled, IssuesOf, AnsweredOf, Size
  <2>5. BeginInvariant => BeginInvariant'
    BY <2>1 DEF BeginInvariant, AtPaper
  <2>6. CompletedIsWhole => CompletedIsWhole'
    BY <2>1 DEF CompletedIsWhole, IssuesOf, AnsweredOf, Size
  <2> QED
    BY <2>2, <2>3, <2>4, <2>5, <2>6 DEF DeliveryInvariant
<1>2. ASSUME DeliveryInvariant, DeliveryNext PROVE DeliveryInvariant'
  BY <1>2, Receiving, OtherExports, CreatingEpic, CreatingStory, OtherJiraSteps, CreatingItem, ReportingItems
     DEF DeliveryNext, ExportStep
<1> QED
  BY <1>1, <1>2

LEMMA DeliveryInvariantHolds == DeliverySpec => []DeliveryInvariant
BY DeliveryInitially, DeliveryInvariantKept, PTL DEF DeliverySpec

(***************************************************************************)
(* Whatever the other systems reject or lose, however many stories, epics  *)
(* and exports there are and however often the client of Jira sends a POST *)
(* again: no export creates again what it was told is created, and in      *)
(* Azure DevOps none creates anything twice.                               *)
(***************************************************************************)
THEOREM NothingTwiceHolds == DeliverySpec => []NothingTwice
<1>1. DeliveryInvariant => NothingTwice
  BY DEF DeliveryInvariant
<1> QED
  BY <1>1, DeliveryInvariantHolds, PTL

(***************************************************************************)
(* And an export to a tracker that is reported as completed has answered   *)
(* one issue for each story, in Azure DevOps the only one, in Jira with    *)
(* every other of the story under the one answered epic of its name.       *)
(***************************************************************************)
THEOREM CompletedIsWholeHolds == DeliverySpec => []CompletedIsWhole
<1>1. DeliveryInvariant => CompletedIsWhole
  BY DEF DeliveryInvariant
<1> QED
  BY <1>1, DeliveryInvariantHolds, PTL

=============================================================================
