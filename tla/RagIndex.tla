------------------------------- MODULE RagIndex -------------------------------
(***************************************************************************)
(* The stores of retrieval and the requests that race on them: POST        *)
(* /api/rag/index writes vectors to a Qdrant collection and stamps the     *)
(* rows of document_chunks in PostgreSQL, POST /api/rag/search asks both   *)
(* and keeps its answer in Redis.  The services behind the router are      *)
(* singletons, so that requests share their connection pools, and every    *)
(* await is a step at which another request may run.  A chunk is a model   *)
(* value; embeddings, scores and the texts are left out (RankFusion has    *)
(* what is done with the two result lists).                                *)
(***************************************************************************)
EXTENDS Naturals, FiniteSets

CONSTANTS
    Callers,        \* requests that may be under way at the same time
    Chunks,         \* chunks that are indexed
    Collections,    \* the states in which the collection may be found
    MaxRequests,    \* bound: requests begun in a behaviour
    MaxRetries,     \* attempts of EmbeddingService
    NoAnswer        \* nothing in the cache

ASSUME CallersAssumption == IsFiniteSet(Callers)
ASSUME RagAssumption ==
    /\ Collections \subseteq {"absent", "other size", "right size"}
    /\ MaxRequests \in Nat
    /\ MaxRetries \in Nat \ {0}

VARIABLES
    collection,     \* the Qdrant collection brd_chunks
    vectors,        \* chunks with a point in it
    rows,           \* chunks with a row in document_chunks
    stamped,        \* rows with embedding_indexed_at
    pool,           \* Pools -> whether the service holds a pool
    opened,         \* Pools -> pools created so far
    found,          \* the cached answer to the query, or NoAnswer
    call,           \* Callers -> the request under way
    begun,          \* requests begun
    reported,       \* chunks that some answer counted as indexed
    lost            \* history: a collection of the right size has been dropped

ragVars == <<collection, vectors, rows, stamped, pool, opened, found, call, begun, reported, lost>>
stores  == <<collection, vectors, rows, stamped, pool, opened, found, begun, reported, lost>>

\* IndexingService._db_pool and BM25Service._pool
Pools == {"indexing", "bm25"}

AtRest ==
    [pc |-> "idle", wanted |-> {}, left |-> {}, todo |-> {}, failed |-> {},
     tries |-> 0, sparse |-> "idle", dense |-> "idle", answer |-> {}]

RagInit ==
    /\ collection \in Collections
    /\ vectors \in IF collection = "absent" THEN {{}} ELSE SUBSET Chunks
    /\ rows \in SUBSET Chunks
    /\ stamped = {}
    /\ pool = [p \in Pools |-> FALSE]
    /\ opened = [p \in Pools |-> 0]
    /\ found = NoAnswer
    /\ call = [c \in Callers |-> AtRest]
    /\ begun = 0
    /\ reported = {}
    /\ lost = FALSE

At(c, pc) == call[c].pc = pc
Become(c, new) == call' = [call EXCEPT ![c] = new]
Goto(c, pc) == Become(c, [call[c] EXCEPT !.pc = pc])

-----------------------------------------------------------------------------
\* POST /api/rag/index

BeginIndex(c) ==
    /\ call[c].pc \in {"idle", "answered", "refused"}
    /\ begun < MaxRequests
    /\ begun' = begun + 1
    /\ \E wanted \in SUBSET Chunks \ {{}}, reindex \in BOOLEAN :
          Become(c, [AtRest EXCEPT !.pc = "list", !.wanted = wanted,
                                   !.left = IF reindex THEN {} ELSE wanted,
                                   !.todo = IF reindex THEN wanted ELSE {}])
    /\ UNCHANGED <<collection, vectors, rows, stamped, pool, opened, found, reported, lost>>

\* ensure_collection: is there a collection of that name?
ListCollections(c) ==
    /\ At(c, "list")
    /\ Goto(c, IF collection = "absent" THEN "create" ELSE "inspect") \/ Goto(c, "refused")
    /\ UNCHANGED stores

\* Of the right size?  An error here, also that it is gone, means: no need to recreate it.
InspectCollection(c) ==
    /\ At(c, "inspect")
    /\ \/ collection = "other size" /\ Goto(c, "drop")
       \/ Goto(c, "look up")
    /\ UNCHANGED stores

DropCollection(c) ==
    /\ At(c, "drop")
    /\ \/ Goto(c, "create") /\ collection' = "absent" /\ vectors' = {}
       \/ Goto(c, "look up") /\ UNCHANGED <<collection, vectors>>       \* the error is logged
    /\ lost' = (lost \/ (collection = "right size" /\ collection' = "absent"))
    /\ UNCHANGED <<rows, stamped, pool, opened, found, begun, reported>>

\* Creating a collection that is there is an error.
CreateCollection(c) ==
    /\ At(c, "create")
    /\ \/ /\ collection = "absent"
          /\ collection' = "right size"
          /\ Goto(c, "look up")
       \/ Goto(c, "refused") /\ UNCHANGED collection
    /\ UNCHANGED <<vectors, rows, stamped, pool, opened, found, begun, reported, lost>>

\* _is_indexed, chunk by chunk; an error counts as not indexed.
LookUp(c) ==
    /\ At(c, "look up") /\ call[c].left # {}
    /\ LET chunk == CHOOSE k \in call[c].left : TRUE
       IN  \/ /\ chunk \in vectors
              /\ Become(c, [call[c] EXCEPT !.left = @ \ {chunk}])
           \/ Become(c, [call[c] EXCEPT !.left = @ \ {chunk}, !.todo = @ \cup {chunk}])
    /\ UNCHANGED stores

LookedUp(c) ==
    /\ At(c, "look up") /\ call[c].left = {}
    /\ Goto(c, IF call[c].todo = {} THEN "answered" ELSE "embed")
    /\ UNCHANGED stores

\* A bug: a failed attempt starts over, and nobody counts.
Embed_StartsOver(c) ==
    /\ At(c, "embed")
    /\ Goto(c, "upsert") \/ Goto(c, "look up")
    /\ UNCHANGED stores

\* _encode_with_retry; when every attempt fails, so does every chunk.
Embed(c) ==
    /\ At(c, "embed")
    /\ \/ Goto(c, "upsert")
       \/ /\ call[c].tries + 1 < MaxRetries
          /\ Become(c, [call[c] EXCEPT !.tries = @ + 1])
       \/ /\ call[c].tries + 1 >= MaxRetries
          /\ Become(c, [call[c] EXCEPT !.pc = "answered", !.failed = call[c].todo])
    /\ UNCHANGED stores

\* A bug: the failure is logged and nothing else.
Upsert_LogsOnly(c) ==
    /\ At(c, "upsert")
    /\ Become(c, [call[c] EXCEPT !.pc = "stamp", !.left = call[c].todo])
    /\ vectors' = (IF collection = "right size" THEN vectors \cup call[c].todo ELSE vectors)
    /\ UNCHANGED <<collection, rows, stamped, pool, opened, found, begun, reported, lost>>

\* upsert_batch: all the points or none; the sizes have to agree.
Upsert(c) ==
    /\ At(c, "upsert")
    /\ \/ /\ collection = "right size"
          /\ vectors' = vectors \cup call[c].todo
          /\ Become(c, [call[c] EXCEPT !.pc = "stamp", !.left = call[c].todo])
       \/ /\ Become(c, [call[c] EXCEPT !.pc = "answered", !.failed = call[c].todo])
          /\ UNCHANGED vectors
    /\ UNCHANGED <<collection, rows, stamped, pool, opened, found, begun, reported, lost>>

\* _get_db_pool looks for a pool, and stores the one it has awaited without a second look.
AskForPool_Anew(p) == TRUE
AskForPool(p) == ~pool[p]

PoolForStamps(c) ==
    /\ At(c, "stamp")
    /\ Goto(c, IF AskForPool("indexing") THEN "open pool" ELSE "update rows")
    /\ UNCHANGED stores

Opened(p) ==
    /\ pool' = [pool EXCEPT ![p] = TRUE]
    /\ opened' = [opened EXCEPT ![p] = @ + 1]

OpenPoolForStamps(c) ==
    /\ At(c, "open pool")
    /\ \/ Opened("indexing") /\ Goto(c, "update rows")
       \/ /\ Become(c, [call[c] EXCEPT !.pc = "report", !.failed = call[c].todo])
          /\ UNCHANGED <<pool, opened>>
    /\ UNCHANGED <<collection, vectors, rows, stamped, found, begun, reported, lost>>

\* UPDATE ... WHERE id = chunk: a missing row is no error, and a failed row leaves the next to be tried.
UpdateRow(c) ==
    /\ At(c, "update rows") /\ call[c].left # {}
    /\ LET chunk == CHOOSE k \in call[c].left : TRUE
       IN  \/ /\ stamped' = stamped \cup ({chunk} \cap rows)
              /\ Become(c, [call[c] EXCEPT !.left = @ \ {chunk}])
           \/ /\ Become(c, [call[c] EXCEPT !.left = @ \ {chunk}, !.failed = @ \cup {chunk}])
              /\ UNCHANGED stamped
    /\ UNCHANGED <<collection, vectors, rows, pool, opened, found, begun, reported, lost>>

\* indexed_count: what was upserted and not reported failed.
Report(c) == reported \cup (call[c].todo \ call[c].failed)

AnswerIndex(c) ==
    /\ \/ At(c, "report")
       \/ At(c, "update rows") /\ call[c].left = {}
    /\ reported' = Report(c)
    /\ Goto(c, "answered")
    /\ UNCHANGED <<collection, vectors, rows, stamped, pool, opened, found, begun, lost>>

-----------------------------------------------------------------------------
\* POST /api/rag/search, and the retrieval in /context and /traceability

BeginSearch(c) ==
    /\ call[c].pc \in {"idle", "answered", "refused"}
    /\ begun < MaxRequests
    /\ begun' = begun + 1
    /\ Become(c, [AtRest EXCEPT !.pc = "read cache"])
    /\ UNCHANGED <<collection, vectors, rows, stamped, pool, opened, found, reported, lost>>

\* An error of Redis counts as a miss.
ReadCachedAnswer(c) ==
    /\ At(c, "read cache")
    /\ \/ found # NoAnswer /\ Become(c, [call[c] EXCEPT !.pc = "answered", !.answer = found])
       \/ Become(c, [call[c] EXCEPT !.pc = "retrieve", !.sparse = "pool", !.dense = "embed"])
    /\ UNCHANGED stores

\* The arms run concurrently; one that fails gives an empty list.
ArmFails(c) ==
    /\ At(c, "retrieve")
    /\ \/ call[c].sparse # "done" /\ Become(c, [call[c] EXCEPT !.sparse = "done"])
       \/ call[c].dense = "search" /\ Become(c, [call[c] EXCEPT !.dense = "done"])
       \/ /\ call[c].dense = "embed"
          /\ Become(c, IF call[c].tries + 1 < MaxRetries THEN [call[c] EXCEPT !.tries = @ + 1]
                                                         ELSE [call[c] EXCEPT !.dense = "done"])
    /\ UNCHANGED stores

PoolForSearch(c) ==
    /\ At(c, "retrieve") /\ call[c].sparse = "pool"
    /\ Become(c, [call[c] EXCEPT !.sparse = IF AskForPool("bm25") THEN "open pool" ELSE "search"])
    /\ UNCHANGED stores

OpenPoolForSearch(c) ==
    /\ At(c, "retrieve") /\ call[c].sparse = "open pool"
    /\ Opened("bm25")
    /\ Become(c, [call[c] EXCEPT !.sparse = "search"])
    /\ UNCHANGED <<collection, vectors, rows, stamped, found, begun, reported, lost>>

SearchRows(c) ==
    /\ At(c, "retrieve") /\ call[c].sparse = "search"
    /\ Become(c, [call[c] EXCEPT !.sparse = "done", !.answer = @ \cup rows])
    /\ UNCHANGED stores

EmbedQuery(c) ==
    /\ At(c, "retrieve") /\ call[c].dense = "embed"
    /\ Become(c, [call[c] EXCEPT !.dense = "search"])
    /\ UNCHANGED stores

SearchVectors(c) ==
    /\ At(c, "retrieve") /\ call[c].dense = "search"
    /\ collection = "right size"
    /\ Become(c, [call[c] EXCEPT !.dense = "done", !.answer = @ \cup vectors])
    /\ UNCHANGED stores

Retrieved(c) == At(c, "retrieve") /\ call[c].sparse = "done" /\ call[c].dense = "done"

\* The fused answer is cached whether or not an arm failed; an error of Redis is ignored.
CacheAnswer(c) ==
    /\ Retrieved(c)
    /\ found' = call[c].answer \/ UNCHANGED found
    /\ Goto(c, "answered")
    /\ UNCHANGED <<collection, vectors, rows, stamped, pool, opened, begun, reported, lost>>

AnswerExpires ==
    /\ found # NoAnswer
    /\ found' = NoAnswer
    /\ UNCHANGED <<collection, vectors, rows, stamped, pool, opened, call, begun, reported, lost>>

-----------------------------------------------------------------------------
EnsureCollection(c) == ListCollections(c) \/ InspectCollection(c) \/ DropCollection(c) \/ CreateCollection(c)
RunPipeline(c) ==
    \/ Embed(c) \/ Upsert(c) \/ PoolForStamps(c) \/ OpenPoolForStamps(c) \/ UpdateRow(c) \/ AnswerIndex(c)
Retrieve(c) ==
    \/ ArmFails(c) \/ PoolForSearch(c) \/ OpenPoolForSearch(c) \/ SearchRows(c) \/ EmbedQuery(c)
    \/ SearchVectors(c) \/ CacheAnswer(c)

CallStep(c) ==
    EnsureCollection(c) \/ LookUp(c) \/ LookedUp(c) \/ RunPipeline(c) \/ ReadCachedAnswer(c) \/ Retrieve(c)

RagNext ==
    \/ \E c \in Callers : BeginIndex(c) \/ BeginSearch(c) \/ CallStep(c)
    \/ AnswerExpires

RagSpec == RagInit /\ [][RagNext]_ragVars

\* Qdrant, PostgreSQL and Redis answer or time out (30 s each), so a request that is under way goes on.
RagFairness == \A c \in Callers : WF_ragVars(CallStep(c))

-----------------------------------------------------------------------------
Phases ==
    {"idle", "list", "inspect", "drop", "create", "look up", "embed", "upsert", "stamp", "open pool",
     "update rows", "report", "read cache", "retrieve", "answered", "refused"}

CallRecords ==
    [pc : Phases, wanted : SUBSET Chunks, left : SUBSET Chunks, todo : SUBSET Chunks, failed : SUBSET Chunks,
     tries : Nat, answer : SUBSET Chunks,
     sparse : {"idle", "pool", "open pool", "search", "done"}, dense : {"idle", "embed", "search", "done"}]

RagTypes ==
    /\ call \in [Callers -> CallRecords]
    /\ collection \in {"absent", "other size", "right size"}
    /\ vectors \subseteq Chunks /\ rows \subseteq Chunks /\ stamped \subseteq rows /\ reported \subseteq Chunks
    /\ pool \in [Pools -> BOOLEAN] /\ opened \in [Pools -> Nat]
    /\ found = NoAnswer \/ found \subseteq Chunks
    /\ begun \in 0..MaxRequests
    /\ lost \in BOOLEAN

(***************************************************************************)
(* A chunk that some answer counted as indexed has its vector, unless a    *)
(* request that had found vectors of another size dropped the collection   *)
(* after another request had recreated it: no other order of the calls of  *)
(* ensure_collection, upsert_batch and the updates, and no failure of one  *)
(* of them, loses it.                                                      *)
(***************************************************************************)
ReportedIsStored == lost \/ reported \subseteq vectors

(***************************************************************************)
(* However many requests are served, a service opens at most one pool for  *)
(* each request that may be under way together: only those that asked      *)
(* before the first pool was there open one of their own (_get_db_pool,    *)
(* _get_pool).                                                             *)
(***************************************************************************)
PoolsAreShared == \A p \in Pools : opened[p] <= Cardinality(Callers)

\* Every request is answered or refused, with each of the three stores failing at any call.
RequestsEnd == []<>(\A c \in Callers : call[c].pc \in {"idle", "answered", "refused"})

(***************************************************************************)
(* ensure_collection recreates the collection "if it does not exist or has *)
(* mismatched dimensions": one of the right size is never dropped.         *)
(***************************************************************************)
RecreatesOnlyMismatched == [][collection = "right size" => collection' = "right size"]_ragVars

(***************************************************************************)
(* The update of PostgreSQL is there "so BM25 search and the               *)
(* chunk_search_view stay consistent": when a request is answered without  *)
(* a failed chunk, each of its chunks that has a row carries the stamp.    *)
(***************************************************************************)
AnsweredIsStamped ==
    \A c \in Callers : At(c, "answered") /\ call[c].failed = {} => call[c].wanted \cap rows \subseteq stamped
=============================================================================
