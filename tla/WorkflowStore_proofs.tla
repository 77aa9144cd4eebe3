------------------------- MODULE WorkflowStore_proofs -------------------------
(***************************************************************************)
(* Proofs about WorkflowStore: the inductive invariant of the store, for   *)
(* any number of requests, outages and crashes, what follows from it, and  *)
(* that the store implements StateLog.                                     *)
(***************************************************************************)
EXTENDS WorkflowStore, TLAPS

(* The top of an unbroken range of versions is its length.                 *)
LEMMA TopOfRange ==
  ASSUME NEW n \in Nat
  PROVE  (CHOOSE k \in (1..n) \cup {0} : \A m \in 1..n : m <= k) = n
  <1> DEFINE Top(k) == \A m \in 1..n : m <= k
  <1>1. n \in (1..n) \cup {0} /\ Top(n)
    OBVIOUS
  <1>2. ASSUME NEW k \in (1..n) \cup {0}, Top(k)
        PROVE  k = n
    BY <1>2
  <1> QED
    BY <1>1, <1>2

LEMMA MaxVersionIs ==
  ASSUME NEW n \in Nat, Versions = 1..n
  PROVE  MaxVersion = n
  BY TopOfRange DEF MaxVersion

(* While versions are contiguous, the largest one is 0 exactly where there *)
(* is no row.                                                              *)
LEMMA MaxVersionRange ==
  ASSUME TypeOK, NEW n \in Nat, Versions = 1..n
  PROVE  n = 0 <=> rows = << >>
  <1>1. CASE rows = << >>
    <2>1. Versions = {}
      BY <1>1 DEF Versions
    <2> QED
      BY <1>1, <2>1
  <1>2. CASE rows # << >>
    <2>1. 1 \in DOMAIN rows /\ rows[1].version \in Versions
      BY <1>2 DEF TypeOK, Versions
    <2> QED
      BY <1>2, <2>1
  <1> QED
    BY <1>1, <1>2

LEMMA InitStore == Init => StoreInvariant
  <1> SUFFICES ASSUME Init PROVE StoreInvariant
    OBVIOUS
  <1>1. TypeOK
    BY OutagesAssumption, CrashesAssumption DEF Init, TypeOK, Row, Waiting, Ended
  <1>2. VersionsContiguous
    <2>1. Versions = {} /\ 1..0 = {}
      BY DEF Init, Versions
    <2> QED
      BY <2>1, MaxVersionIs DEF VersionsContiguous
  <1> QED
    BY <1>1, <1>2, NoneAssumption
    DEF Init, StoreInvariant, OneFirstVersion, CachedIsCommitted, AnsweredIsCommitted,
        CreatorHolds, Knows

-----------------------------------------------------------------------------
(* What a step of one client leaves alone. *)

(* Everything read off the rows stays while they do.                       *)
LEMMA SameRows ==
  ASSUME rows' = rows
  PROVE  /\ Versions' = Versions
         /\ MaxVersion' = MaxVersion
         /\ CommittedStates' = CommittedStates
         /\ WorkflowExists' = WorkflowExists
  <1>1. Versions' = Versions
    BY DEF Versions
  <1> QED
    BY <1>1 DEF MaxVersion, CommittedStates, WorkflowExists

(* A client that does not hold an INSERT moves on without touching the     *)
(* rows: the invariant is up to what it now knows, and to the caches and   *)
(* answers.                                                                *)
LEMMA ClientMoves ==
  ASSUME StoreInvariant, TypeOK', NEW c \in Clients,
         pc[c] # "inserting",
         UNCHANGED database,
         \A d \in Clients \ {c} : pc'[d] = pc[d] /\ local'[d] = local[d]
                                                /\ version'[d] = version[d],
         CachedIsCommitted', AnsweredIsCommitted', Knows(c)'
  PROVE  StoreInvariant'
  <1> USE DEF database
  <1>1. VersionsContiguous' /\ OneFirstVersion'
    BY SameRows DEF StoreInvariant, VersionsContiguous, OneFirstVersion
  <1>2. CreatorHolds'
    BY DEF StoreInvariant, CreatorHolds, TypeOK
  <1>3. ASSUME NEW d \in Clients \ {c}
        PROVE  Knows(d)'
    <2>1. Knows(d)
      BY DEF StoreInvariant
    <2> QED
      BY <1>3, <2>1, SameRows DEF Knows
  <1> QED
    BY <1>1, <1>2, <1>3 DEF StoreInvariant

(* What the caches hold and clients were told stays committed.             *)
LEMMA CachesKept ==
  ASSUME CachedIsCommitted, rows' = rows, UNCHANGED cache
  PROVE  CachedIsCommitted'
  BY SameRows DEF CachedIsCommitted, cache

LEMMA AnswersKept ==
  ASSUME AnsweredIsCommitted, rows' = rows, UNCHANGED answers
  PROVE  AnsweredIsCommitted'
  BY SameRows DEF AnsweredIsCommitted

(* A committed state may be put into whichever cache the client reaches.   *)
LEMMA CacheSetKeeps ==
  ASSUME StoreInvariant, rows' = rows, NEW c \in Clients, NEW state \in CommittedStates,
         CacheSet(c, state)
  PROVE  CachedIsCommitted'
  BY SameRows DEF CachedIsCommitted, CacheSet, StoreInvariant

LEMMA CommittedAreStates ==
  ASSUME TypeOK
  PROVE  CommittedStates \subseteq States /\ LatestStates \subseteq CommittedStates
  <1>1. \A i \in DOMAIN rows : rows[i] \in Row
    BY DEF TypeOK
  <1>2. \A i \in DOMAIN rows : rows[i].state \in States
    BY <1>1 DEF Row
  <1> QED
    BY <1>2 DEF CommittedStates, LatestStates

LEMMA CacheSetTyped ==
  ASSUME TypeOK, NEW c \in Clients, NEW state \in States, CacheSet(c, state)
  PROVE  /\ redis' \in {None} \cup States
         /\ memory' \in {None} \cup States
         /\ useRedis' \in [Clients -> BOOLEAN]
  BY DEF TypeOK, CacheSet, NoteReach, Reaches

LEMMA StatesAreNotNone ==
  \A s \in States : s # None /\ s # NoAnswer
  BY NoneAssumption DEF States

-----------------------------------------------------------------------------
(* One lemma per action of a client. *)

LEMMA BeginKeeps ==
  ASSUME StoreInvariant, NEW c \in Clients, Begin(c)
  PROVE  StoreInvariant'
  <1> USE DEF cache, database, environment
  <1>1. TypeOK'
    BY DEF Begin, Goto, StoreInvariant, TypeOK, Waiting, States
  <1>2. Knows(c)'
    <2>1. CASE op[c] = "start"
      <3>1. pc'[c] = "saving" /\ local'[c] = {}
        BY <2>1 DEF Begin, Goto, StoreInvariant, TypeOK
      <3> QED
        BY <3>1, StatesAreNotNone DEF Knows, States
    <2>2. CASE op[c] # "start"
      <3>1. pc'[c] = "reading" /\ local'[c] = local[c] /\ local[c] = None
        BY <2>2 DEF Begin, Goto, StoreInvariant, TypeOK, Knows
      <3> QED
        BY <3>1 DEF Knows
    <2> QED
      BY <2>1, <2>2
  <1>3. \A d \in Clients \ {c} : pc'[d] = pc[d] /\ local'[d] = local[d]
                                               /\ version'[d] = version[d]
    BY DEF Begin, Goto, StoreInvariant, TypeOK
  <1>4. CachedIsCommitted' /\ AnsweredIsCommitted'
    BY CachesKept, AnswersKept DEF Begin, StoreInvariant
  <1>5. pc[c] # "inserting" /\ UNCHANGED database
    BY DEF Begin
  <1> QED
    BY <1>1, <1>2, <1>3, <1>4, <1>5, ClientMoves

LEMMA ReadCacheKeeps ==
  ASSUME StoreInvariant, NEW c \in Clients, ReadCache(c)
  PROVE  StoreInvariant'
  <1> USE DEF cache, database, environment
  <1>1. CacheGet(c) \in {None} \cup CommittedStates /\ CacheGet(c) \in {None} \cup States
    BY CommittedAreStates DEF CacheGet, StoreInvariant, CachedIsCommitted
  <1>2. TypeOK'
    BY <1>1 DEF ReadCache, NoteReach, Reaches, Goto, StoreInvariant, TypeOK, Waiting
  <1>3. Knows(c)'
    <2>1. pc'[c] \in {"read", "querying"}
      BY DEF ReadCache, Goto, StoreInvariant, TypeOK
    <2>2. pc'[c] = "read" => local'[c] \in CommittedStates
      BY <1>1 DEF ReadCache, Goto, StoreInvariant, TypeOK
    <2>3. pc'[c] = "querying" => local'[c] = None
      BY DEF ReadCache, Goto, StoreInvariant, TypeOK, Knows
    <2> QED
      BY <2>1, <2>2, <2>3, SameRows DEF ReadCache, Knows
  <1>4. \A d \in Clients \ {c} : pc'[d] = pc[d] /\ local'[d] = local[d]
                                               /\ version'[d] = version[d]
    BY DEF ReadCache, Goto, StoreInvariant, TypeOK
  <1>5. CachedIsCommitted' /\ AnsweredIsCommitted'
    BY CachesKept, AnswersKept DEF ReadCache, StoreInvariant
  <1>6. pc[c] # "inserting" /\ UNCHANGED database
    BY DEF ReadCache
  <1> QED
    BY <1>2, <1>3, <1>4, <1>5, <1>6, ClientMoves

LEMMA QueryDatabaseKeeps ==
  ASSUME StoreInvariant, NEW c \in Clients, QueryDatabase(c)
  PROVE  StoreInvariant'
  <1> USE DEF cache, database, environment
  <1>1. LatestStates \subseteq CommittedStates /\ CommittedStates \subseteq States
    BY CommittedAreStates DEF StoreInvariant
  <1>2. TypeOK'
    BY <1>1 DEF QueryDatabase, Goto, StoreInvariant, TypeOK, Waiting
  <1>3. Knows(c)'
    <2>1. CASE rows = << >>
      <3>1. pc'[c] = "read" /\ local'[c] = local[c]
        BY <2>1 DEF QueryDatabase, Goto, StoreInvariant, TypeOK
      <3>2. local[c] = None
        BY DEF QueryDatabase, StoreInvariant, Knows
      <3> QED
        BY <3>1, <3>2 DEF Knows
    <2>2. CASE rows # << >>
      <3>1. pc'[c] = "refilling" /\ local'[c] \in CommittedStates
        BY <1>1, <2>2 DEF QueryDatabase, Goto, StoreInvariant, TypeOK
      <3> QED
        BY <1>1, <3>1, StatesAreNotNone, SameRows DEF QueryDatabase, Knows
    <2> QED
      BY <2>1, <2>2
  <1>4. \A d \in Clients \ {c} : pc'[d] = pc[d] /\ local'[d] = local[d]
                                               /\ version'[d] = version[d]
    BY DEF QueryDatabase, Goto, StoreInvariant, TypeOK
  <1>5. CachedIsCommitted' /\ AnsweredIsCommitted'
    BY CachesKept, AnswersKept DEF QueryDatabase, StoreInvariant
  <1>6. pc[c] # "inserting" /\ UNCHANGED database
    BY DEF QueryDatabase
  <1> QED
    BY <1>2, <1>3, <1>4, <1>5, <1>6, ClientMoves

LEMMA ModifyKeeps ==
  ASSUME StoreInvariant, NEW c \in Clients, Modify(c)
  PROVE  StoreInvariant'
  <1> USE DEF cache, database, environment, request
  <1>1. TypeOK'
    BY DEF Modify, Step, Goto, Released, Held, StoreInvariant, TypeOK, Waiting, Ended, States
  <1>2. Knows(c)'
    <2>1. pc'[c] = "saving" /\ local'[c] \in States
      BY DEF Modify, Step, Goto, Held, StoreInvariant, TypeOK, States
    <2> QED
      BY <2>1, StatesAreNotNone DEF Knows
  <1>3. \A d \in Clients \ {c} : pc'[d] = pc[d] /\ local'[d] = local[d]
                                               /\ version'[d] = version[d]
    BY DEF Modify, Step, Goto, StoreInvariant, TypeOK
  <1>4. CachedIsCommitted' /\ AnsweredIsCommitted'
    BY CachesKept, AnswersKept DEF Modify, StoreInvariant
  <1>5. pc[c] # "inserting" /\ UNCHANGED database
    BY DEF Modify, Step
  <1> QED
    BY <1>1, <1>2, <1>3, <1>4, <1>5, ClientMoves

LEMMA AnnounceKeeps ==
  ASSUME StoreInvariant, NEW c \in Clients, Announce(c)
  PROVE  StoreInvariant'
  <1> USE DEF cache, database, environment, request
  <1>1. TypeOK'
    BY DEF Announce, Step, Goto, Released, Held, StoreInvariant, TypeOK, Waiting, Ended, States
  <1>2. Knows(c)'
    <2>1. pc'[c] = "saving" /\ local'[c] \in States
      BY DEF Announce, Step, Goto, Held, StoreInvariant, TypeOK, States
    <2> QED
      BY <2>1, StatesAreNotNone DEF Knows
  <1>3. \A d \in Clients \ {c} : pc'[d] = pc[d] /\ local'[d] = local[d]
                                               /\ version'[d] = version[d]
    BY DEF Announce, Step, Goto, StoreInvariant, TypeOK
  <1>4. CachedIsCommitted' /\ AnsweredIsCommitted'
    BY CachesKept, AnswersKept DEF Announce, StoreInvariant
  <1>5. pc[c] # "inserting" /\ UNCHANGED database
    BY DEF Announce, Step
  <1> QED
    BY <1>1, <1>2, <1>3, <1>4, <1>5, ClientMoves

LEMMA PipelineReturnsKeeps ==
  ASSUME StoreInvariant, NEW c \in Clients, PipelineReturns(c)
  PROVE  StoreInvariant'
  <1> USE DEF cache, database, environment, request
  <1>1. TypeOK'
    BY DEF PipelineReturns, Step, Goto, Released, Held, StoreInvariant, TypeOK, Waiting, Ended, States
  <1>2. Knows(c)'
    <2>1. pc'[c] = "saving" /\ local'[c] \in States
      BY DEF PipelineReturns, Step, Goto, Held, StoreInvariant, TypeOK, States
    <2> QED
      BY <2>1, StatesAreNotNone DEF Knows
  <1>3. \A d \in Clients \ {c} : pc'[d] = pc[d] /\ local'[d] = local[d]
                                               /\ version'[d] = version[d]
    BY DEF PipelineReturns, Step, Goto, StoreInvariant, TypeOK
  <1>4. CachedIsCommitted' /\ AnsweredIsCommitted'
    BY CachesKept, AnswersKept DEF PipelineReturns, StoreInvariant
  <1>5. pc[c] # "inserting" /\ UNCHANGED database
    BY DEF PipelineReturns, Step
  <1> QED
    BY <1>1, <1>2, <1>3, <1>4, <1>5, ClientMoves

LEMMA PipelineRaisesKeeps ==
  ASSUME StoreInvariant, NEW c \in Clients, PipelineRaises(c)
  PROVE  StoreInvariant'
  <1> USE DEF cache, database, environment, request
  <1>1. TypeOK'
    BY DEF PipelineRaises, Step, Goto, Released, Held, StoreInvariant, TypeOK, Waiting, Ended, States
  <1>2. Knows(c)'
    <2>1. pc'[c] = "saving" /\ local'[c] = local[c] /\ local[c] # None
      BY DEF PipelineRaises, Step, Goto, StoreInvariant, TypeOK, Knows
    <2> QED
      BY <2>1 DEF Knows
  <1>3. \A d \in Clients \ {c} : pc'[d] = pc[d] /\ local'[d] = local[d]
                                               /\ version'[d] = version[d]
    BY DEF PipelineRaises, Step, Goto, StoreInvariant, TypeOK
  <1>4. CachedIsCommitted' /\ AnsweredIsCommitted'
    BY CachesKept, AnswersKept DEF PipelineRaises, StoreInvariant
  <1>5. pc[c] # "inserting" /\ UNCHANGED database
    BY DEF PipelineRaises, Step
  <1> QED
    BY <1>1, <1>2, <1>3, <1>4, <1>5, ClientMoves

LEMMA PipelineCancelledKeeps ==
  ASSUME StoreInvariant, NEW c \in Clients, PipelineCancelled(c)
  PROVE  StoreInvariant'
  <1> USE DEF cache, database, environment, request
  <1>1. TypeOK'
    BY DEF PipelineCancelled, Step, Goto, Released, Held, StoreInvariant, TypeOK, Waiting, Ended, States
  <1>2. Knows(c)'
    <2>1. /\ pc'[c] \in {"saving", "cancelled"}
          /\ local'[c] = local[c] /\ local[c] # None
      BY DEF PipelineCancelled, Goto, StoreInvariant, TypeOK, Knows
    <2> QED
      BY <2>1 DEF Knows
  <1>3. \A d \in Clients \ {c} : pc'[d] = pc[d] /\ local'[d] = local[d]
                                               /\ version'[d] = version[d]
    BY DEF PipelineCancelled, Step, Goto, StoreInvariant, TypeOK
  <1>4. CachedIsCommitted' /\ AnsweredIsCommitted'
    BY CachesKept, AnswersKept DEF PipelineCancelled, StoreInvariant
  <1>5. pc[c] # "inserting" /\ UNCHANGED database
    BY DEF PipelineCancelled, Step
  <1> QED
    BY <1>1, <1>2, <1>3, <1>4, <1>5, ClientMoves

LEMMA LookUpWorkflowKeeps ==
  ASSUME StoreInvariant, NEW c \in Clients, LookUpWorkflow(c)
  PROVE  StoreInvariant'
  <1> USE DEF cache, database, environment, request
  <1>1. TypeOK'
    BY DEF LookUpWorkflow, Step, Goto, Released, Held, StoreInvariant, TypeOK, Waiting, Ended, States
  <1>2. Knows(c)'
    <2>1. /\ pc'[c] = IF rows # << >> THEN "numbering" ELSE "creating"
          /\ local'[c] = local[c] /\ local[c] # None /\ rows' = rows
      BY DEF LookUpWorkflow, WorkflowExists, Step, Goto, StoreInvariant, TypeOK, Knows
    <2> QED
      BY <2>1 DEF Knows
  <1>3. \A d \in Clients \ {c} : pc'[d] = pc[d] /\ local'[d] = local[d]
                                               /\ version'[d] = version[d]
    BY DEF LookUpWorkflow, Step, Goto, StoreInvariant, TypeOK
  <1>4. CachedIsCommitted' /\ AnsweredIsCommitted'
    BY CachesKept, AnswersKept DEF LookUpWorkflow, StoreInvariant
  <1>5. pc[c] # "inserting" /\ UNCHANGED database
    BY DEF LookUpWorkflow, Step
  <1> QED
    BY <1>1, <1>2, <1>3, <1>4, <1>5, ClientMoves

LEMMA NumberRowKeeps ==
  ASSUME StoreInvariant, NEW c \in Clients, NumberRow(c)
  PROVE  StoreInvariant'
  <1> USE DEF cache, database, environment, request
  <1>0. MaxVersion \in Nat /\ (rows # << >> => MaxVersion >= 1)
    BY MaxVersionRange DEF StoreInvariant, VersionsContiguous
  <1>1. TypeOK'
    BY <1>0 DEF NumberRow, Step, Goto, Released, Held, StoreInvariant, TypeOK, Waiting, Ended, States
  <1>2. Knows(c)'
    <2>1. /\ pc'[c] = "inserting" /\ local'[c] = local[c] /\ local[c] # None
          /\ version'[c] = MaxVersion + 1 /\ rows # << >>
      BY DEF NumberRow, Step, Goto, StoreInvariant, TypeOK, Knows
    <2>2. creator # c
      BY NoneAssumption DEF NumberRow, Step, StoreInvariant, CreatorHolds
    <2>3. MaxVersion' = MaxVersion /\ creator' = creator /\ rows' = rows
      BY SameRows DEF NumberRow
    <2> QED
      BY <1>0, <2>1, <2>2, <2>3 DEF Knows
  <1>3. \A d \in Clients \ {c} : pc'[d] = pc[d] /\ local'[d] = local[d]
                                               /\ version'[d] = version[d]
    BY DEF NumberRow, Step, Goto, StoreInvariant, TypeOK
  <1>4. CachedIsCommitted' /\ AnsweredIsCommitted'
    BY CachesKept, AnswersKept DEF NumberRow, StoreInvariant
  <1>5. pc[c] # "inserting" /\ UNCHANGED database
    BY DEF NumberRow, Step
  <1> QED
    BY <1>1, <1>2, <1>3, <1>4, <1>5, ClientMoves

(* The steps that write a cache, or answer *)

LEMMA RefillCacheKeeps ==
  ASSUME StoreInvariant, NEW c \in Clients, RefillCache(c)
  PROVE  StoreInvariant'
  <1> USE DEF database, environment, request
  <1>1. local[c] \in CommittedStates /\ local[c] \in States
    BY CommittedAreStates DEF RefillCache, Step, StoreInvariant, Knows
  <1>2. TypeOK'
    BY <1>1, CacheSetTyped DEF RefillCache, Step, Goto, StoreInvariant, TypeOK, Waiting
  <1>3. Knows(c)'
    <2>1. pc'[c] = "read" /\ local'[c] = local[c]
      BY DEF RefillCache, Step, Goto, StoreInvariant, TypeOK
    <2> QED
      BY <1>1, <2>1, SameRows DEF RefillCache, Knows
  <1>4. \A d \in Clients \ {c} : pc'[d] = pc[d] /\ local'[d] = local[d]
                                               /\ version'[d] = version[d]
    BY DEF RefillCache, Step, Goto, StoreInvariant, TypeOK
  <1>5. CachedIsCommitted' /\ AnsweredIsCommitted'
    BY <1>1, CacheSetKeeps, AnswersKept DEF RefillCache, StoreInvariant
  <1>6. pc[c] # "inserting" /\ UNCHANGED database
    BY DEF RefillCache, Step
  <1> QED
    BY <1>2, <1>3, <1>4, <1>5, <1>6, ClientMoves

LEMMA RespondKeeps ==
  ASSUME StoreInvariant, NEW c \in Clients, Respond(c)
  PROVE  StoreInvariant'
  <1> USE DEF cache, database, environment
  <1>1. local[c] = None \/ (local[c] \in CommittedStates /\ local[c] \in States)
    BY CommittedAreStates DEF Respond, StoreInvariant, Knows
  <1>2. TypeOK'
    BY <1>1 DEF Respond, Goto, StoreInvariant, TypeOK, Ended
  <1>3. Knows(c)'
    <2>1. pc'[c] \in {"done", "failed"}
      BY DEF Respond, Goto, StoreInvariant, TypeOK
    <2> QED
      BY <2>1 DEF Knows
  <1>4. \A d \in Clients \ {c} : pc'[d] = pc[d] /\ local'[d] = local[d]
                                               /\ version'[d] = version[d]
    BY DEF Respond, Goto, StoreInvariant, TypeOK
  <1>5. CachedIsCommitted'
    BY CachesKept DEF Respond, StoreInvariant
  <1>6. AnsweredIsCommitted'
    <2>1. CommittedStates' = CommittedStates
      BY SameRows DEF Respond
    <2>2. \A d \in Clients : answers'[d] = IF d = c THEN local[c] ELSE answers[d]
      BY DEF Respond, StoreInvariant, TypeOK
    <2> QED
      BY <1>1, <2>1, <2>2 DEF StoreInvariant, AnsweredIsCommitted
  <1>7. pc[c] # "inserting" /\ UNCHANGED database
    BY DEF Respond
  <1> QED
    BY <1>2, <1>3, <1>4, <1>5, <1>6, <1>7, ClientMoves

LEMMA UpdateCacheKeeps ==
  ASSUME StoreInvariant, NEW c \in Clients, UpdateCache(c)
  PROVE  StoreInvariant'
  <1> USE DEF database, environment
  <1>1. local[c] \in CommittedStates /\ local[c] \in States
    BY CommittedAreStates DEF UpdateCache, Step, StoreInvariant, Knows
  <1>2. after[c] \in {"saving", "running", "done", "failed", "cancelled"}
    BY DEF StoreInvariant, TypeOK
  <1>3. TypeOK'
    BY <1>1, <1>2, CacheSetTyped
    DEF UpdateCache, Step, Goto, StoreInvariant, TypeOK, Waiting, Ended
  <1>4. Knows(c)'
    <2>1. pc'[c] = after[c] /\ local'[c] = local[c]
      BY DEF UpdateCache, Step, Goto, StoreInvariant, TypeOK
    <2> QED
      BY <1>1, <1>2, <2>1, StatesAreNotNone DEF Knows
  <1>5. \A d \in Clients \ {c} : pc'[d] = pc[d] /\ local'[d] = local[d]
                                               /\ version'[d] = version[d]
    BY DEF UpdateCache, Step, Goto, StoreInvariant, TypeOK
  <1>6. CachedIsCommitted'
    BY <1>1, CacheSetKeeps DEF UpdateCache
  <1>7. AnsweredIsCommitted'
    <2>1. CommittedStates' = CommittedStates
      BY SameRows DEF UpdateCache
    <2>2. \A d \in Clients : answers'[d] \in {answers[d], local[c]}
                             /\ (d # c => answers'[d] = answers[d])
      BY DEF UpdateCache, StoreInvariant, TypeOK
    <2> QED
      BY <1>1, <2>1, <2>2 DEF StoreInvariant, AnsweredIsCommitted
  <1>8. pc[c] # "inserting" /\ UNCHANGED database
    BY DEF UpdateCache, Step
  <1> QED
    BY <1>3, <1>4, <1>5, <1>6, <1>7, <1>8, ClientMoves

-----------------------------------------------------------------------------
(* The steps that change what the database holds *)

LEMMA CreateWorkflowKeeps ==
  ASSUME StoreInvariant, NEW c \in Clients, CreateWorkflow(c)
  PROVE  StoreInvariant'
  <1> USE DEF cache, environment
  <1>1. TypeOK'
    <2>1. UNCHANGED <<rows, redis, memory, redisUp, outages, crashes, calm, op, local, after,
                      answers, useRedis>>
      BY DEF CreateWorkflow
    <2>2. pc' \in [Clients -> Waiting \cup Ended \cup {"idle"}]
      <3>1. \/ pc' = [pc EXCEPT ![c] = "failed"]
            \/ pc' = [pc EXCEPT ![c] = "inserting"]
        BY DEF CreateWorkflow, Goto
      <3>2. pc \in [Clients -> Waiting \cup Ended \cup {"idle"}]
        BY DEF StoreInvariant, TypeOK
      <3> QED
        BY <3>1, <3>2 DEF Waiting, Ended
    <2>3. creator' \in Clients \cup {None} /\ version' \in [Clients -> Nat]
      <3>1. \/ UNCHANGED <<creator, version>>
            \/ creator' = c /\ version' = [version EXCEPT ![c] = 1]
        BY DEF CreateWorkflow
      <3>2. creator \in Clients \cup {None} /\ version \in [Clients -> Nat]
        BY DEF StoreInvariant, TypeOK
      <3> QED
        BY <3>1, <3>2
    <2> QED
      BY <2>1, <2>2, <2>3 DEF StoreInvariant, TypeOK
  <1>2. VersionsContiguous' /\ OneFirstVersion'
    BY SameRows DEF CreateWorkflow, StoreInvariant, VersionsContiguous, OneFirstVersion
  <1>3. CachedIsCommitted' /\ AnsweredIsCommitted'
    BY CachesKept, AnswersKept DEF CreateWorkflow, StoreInvariant
  <1>4. CASE WorkflowExists
    <2>1. /\ creator' = creator /\ rows' = rows /\ pc' = [pc EXCEPT ![c] = "failed"]
          /\ local' = local /\ version' = version
          /\ creator = None
      BY <1>4 DEF CreateWorkflow, Goto
    <2>2. CreatorHolds'
      BY <2>1 DEF CreatorHolds
    <2>3. ASSUME NEW d \in Clients
          PROVE  Knows(d)'
      <3>1. Knows(d) /\ pc'[d] \in {pc[d], "failed"}
        BY <2>1 DEF StoreInvariant, TypeOK
      <3> QED
        BY <2>1, <3>1, SameRows DEF Knows
    <2> QED
      BY <1>1, <1>2, <1>3, <2>2, <2>3 DEF StoreInvariant
  <1>5. CASE ~WorkflowExists
    <2>1. /\ creator' = c /\ rows' = rows /\ rows = << >> /\ creator = None
          /\ pc' = [pc EXCEPT ![c] = "inserting"]
          /\ version' = [version EXCEPT ![c] = 1] /\ local' = local
      BY <1>5 DEF CreateWorkflow, Goto, WorkflowExists
    <2>2. CreatorHolds'
      BY <2>1 DEF CreatorHolds, StoreInvariant, TypeOK
    <2>3. Knows(c)'
      <3>1. /\ pc'[c] = "inserting" /\ version'[c] = 1 /\ local'[c] = local[c]
            /\ local[c] # None
        BY <2>1 DEF CreateWorkflow, StoreInvariant, TypeOK, Knows
      <3> QED
        BY <2>1, <3>1 DEF Knows
    <2>4. ASSUME NEW d \in Clients \ {c}
          PROVE  Knows(d)'
      <3>1. Knows(d) /\ pc'[d] = pc[d] /\ version'[d] = version[d]
        BY <2>1 DEF StoreInvariant, TypeOK
      <3>2. pc[d] # "inserting"
        BY <2>1, <3>1, NoneAssumption DEF Knows
      <3> QED
        BY <2>1, <3>1, <3>2, SameRows DEF Knows
    <2> QED
      BY <1>1, <1>2, <1>3, <2>2, <2>3, <2>4 DEF StoreInvariant
  <1> QED
    BY <1>4, <1>5

(* A commit adds the version that its request knows to be next, or to be   *)
(* one of those that are there already.                                    *)
LEMMA InsertAndCommitKeeps ==
  ASSUME StoreInvariant, NEW c \in Clients, InsertAndCommit(c)
  PROVE  StoreInvariant'
  <1> USE DEF cache, environment, request
  <1>1. /\ pc[c] = "inserting" /\ local[c] \in States /\ local[c] # None
        /\ version[c] \in Nat
        /\ pc' = [pc EXCEPT ![c] = "caching"]
        /\ rows' = Append(rows, [version |-> version[c], state |-> local[c]])
        /\ local' = local /\ version' = version /\ answers' = answers
        /\ redis' = redis /\ memory' = memory
    BY DEF InsertAndCommit, Step, Goto, StoreInvariant, TypeOK, Knows
  <1> DEFINE r == [version |-> version[c], state |-> local[c]]
  <1>2. /\ r \in Row /\ rows \in Seq(Row)
        /\ Len(rows') = Len(rows) + 1 /\ DOMAIN rows' = 1..(Len(rows) + 1)
        /\ DOMAIN rows = 1..Len(rows) /\ Len(rows) \in Nat
        /\ \A i \in DOMAIN rows : rows'[i] = rows[i]
        /\ rows'[Len(rows) + 1] = r
    BY <1>1 DEF Row, StoreInvariant, TypeOK
  <1>3. /\ Versions' = Versions \cup {version[c]}
        /\ CommittedStates' = CommittedStates \cup {local[c]}
    BY <1>2 DEF Versions, CommittedStates
  <1>4. PICK n \in Nat : n = MaxVersion /\ Versions = 1..n /\ (n = 0 <=> rows = << >>)
    BY MaxVersionRange DEF StoreInvariant, VersionsContiguous
  <1>5. /\ creator = c => version[c] = 1 /\ rows = << >>
        /\ creator # c => rows # << >> /\ version[c] \in 2..(n + 1)
    BY <1>1, <1>4, NoneAssumption DEF StoreInvariant, CreatorHolds, Knows
  <1>6. \E m \in {n, n + 1} : Versions' = 1..m
    <2>1. version[c] \in 1..(n + 1)
      BY <1>4, <1>5
    <2>2. CASE version[c] = n + 1
      BY <1>3, <1>4, <2>2
    <2>3. CASE version[c] \in 1..n
      BY <1>3, <1>4, <2>3
    <2> QED
      BY <2>1, <2>2, <2>3
  <1>7. PICK m \in {n, n + 1} : Versions' = 1..m
    BY <1>6
  <1>8. MaxVersion' = m
    <2>1. MaxVersion' = CHOOSE k \in (1..m) \cup {0} : \A j \in 1..m : j <= k
      BY <1>7 DEF MaxVersion
    <2> QED
      BY <1>7, <2>1, TopOfRange
  <1>9. TypeOK'
    <2>1. rows' \in Seq(Row)
      BY <1>1, <1>2
    <2> QED
      BY <1>1, <2>1 DEF InsertAndCommit, Released, StoreInvariant, TypeOK, Waiting
  <1>10. VersionsContiguous'
    BY <1>7, <1>8 DEF VersionsContiguous
  <1>11. OneFirstVersion'
    <2>1. version[c] = 1 => rows = << >>
      BY <1>5
    <2>2. OneFirstVersion
      BY DEF StoreInvariant
    <2> QED
      BY <1>2, <2>1, <2>2 DEF OneFirstVersion
  <1>12. CachedIsCommitted' /\ AnsweredIsCommitted'
    BY <1>1, <1>3 DEF StoreInvariant, CachedIsCommitted, AnsweredIsCommitted
  <1>13. creator' = None /\ CreatorHolds'
    <2>1. creator \in {None, c}
      BY <1>1, <1>5 DEF StoreInvariant, CreatorHolds
    <2>2. creator' = None
      BY <2>1 DEF InsertAndCommit, Released
    <2> QED
      BY <2>2 DEF CreatorHolds
  <1>14. rows' # << >>
    BY <1>2
  <1>15. Knows(c)'
    <2>1. pc'[c] = "caching" /\ local'[c] = local[c] /\ local[c] \in CommittedStates'
      BY <1>1, <1>3 DEF StoreInvariant, TypeOK
    <2> QED
      BY <1>1, <2>1 DEF Knows
  <1>16. ASSUME NEW d \in Clients \ {c}
         PROVE  Knows(d)'
    <2>1. /\ Knows(d) /\ pc'[d] = pc[d] /\ local'[d] = local[d]
          /\ version'[d] = version[d]
      BY <1>1 DEF StoreInvariant, TypeOK
    <2>2. pc[d] = "inserting" => creator # d
      BY <1>1, <1>5, NoneAssumption DEF StoreInvariant, CreatorHolds
    <2>3. pc[d] = "inserting" => version[d] \in 2..(MaxVersion' + 1)
      BY <1>4, <1>7, <1>8, <2>1, <2>2 DEF Knows
    <2>4. d # None
      BY NoneAssumption
    <2> QED
      BY <1>3, <1>13, <1>14, <2>1, <2>3, <2>4 DEF Knows
  <1> QED
    BY <1>9, <1>10, <1>11, <1>12, <1>13, <1>15, <1>16 DEF StoreInvariant

LEMMA CommitFailsKeeps ==
  ASSUME StoreInvariant, NEW c \in Clients, CommitFails(c)
  PROVE  StoreInvariant'
  <1> USE DEF cache, environment, request
  <1>1. /\ pc[c] = "inserting" /\ pc' = [pc EXCEPT ![c] = "failed"]
        /\ rows' = rows /\ local' = local /\ version' = version
    BY DEF CommitFails, Step, Goto
  <1>2. TypeOK'
    BY DEF CommitFails, Step, Goto, Released, StoreInvariant, TypeOK, Ended
  <1>3. VersionsContiguous' /\ OneFirstVersion'
    BY <1>1, SameRows DEF StoreInvariant, VersionsContiguous, OneFirstVersion
  <1>4. CachedIsCommitted' /\ AnsweredIsCommitted'
    BY <1>1, CachesKept, AnswersKept DEF CommitFails, StoreInvariant
  <1>5. creator' = IF creator = c THEN None ELSE creator
    BY DEF CommitFails, Released
  <1>6. CreatorHolds'
    BY <1>1, <1>5 DEF StoreInvariant, CreatorHolds, TypeOK
  <1>7. ASSUME NEW d \in Clients
        PROVE  Knows(d)'
    <2>1. /\ Knows(d) /\ pc'[d] = IF d = c THEN "failed" ELSE pc[d]
          /\ local'[d] = local[d] /\ version'[d] = version[d]
      BY <1>1 DEF StoreInvariant, TypeOK
    <2>2. d # c => (creator' = d <=> creator = d)
      BY <1>5, NoneAssumption
    <2> QED
      BY <1>1, <2>1, <2>2, SameRows DEF Knows
  <1> QED
    BY <1>2, <1>3, <1>4, <1>6, <1>7 DEF StoreInvariant

-----------------------------------------------------------------------------
(* The environment *)

LEMMA EnvironmentKeeps ==
  ASSUME StoreInvariant, Expire \/ RedisFails \/ RedisReturns
  PROVE  StoreInvariant'
  <1> USE DEF database, cache, request
  <1>1. /\ UNCHANGED <<rows, creator, memory, local, version, answers, pc>>
        /\ redis' \in {None, redis}
    BY DEF Expire, RedisFails, RedisReturns
  <1>2. TypeOK'
    <2>1. CASE Expire
      BY <2>1 DEF Expire, environment, StoreInvariant, TypeOK
    <2>2. CASE RedisFails
      <3>1. outages' \in 0..MaxOutages /\ redisUp' \in BOOLEAN /\ calm' \in BOOLEAN
        <4>1. /\ outages \in 0..MaxOutages /\ outages < MaxOutages /\ outages' = outages + 1
              /\ redisUp' = FALSE /\ calm' = FALSE
          BY <2>2 DEF RedisFails, StoreInvariant, TypeOK
        <4>2. MaxOutages \in Nat
          BY OutagesAssumption
        <4>3. outages' \in 0..MaxOutages
          BY <4>1, <4>2
        <4> QED
          BY <4>1, <4>3, Zenon
      <3>2. UNCHANGED <<rows, creator, redis, memory, pc, op, useRedis, local, version, after,
                        answers, crashes>>
        BY <2>2 DEF RedisFails
      <3> QED
        BY <3>1, <3>2 DEF StoreInvariant, TypeOK
    <2>3. CASE RedisReturns
      BY <2>3 DEF RedisReturns, StoreInvariant, TypeOK
    <2> QED
      BY <2>1, <2>2, <2>3
  <1>3. VersionsContiguous' /\ OneFirstVersion' /\ AnsweredIsCommitted'
    BY <1>1, SameRows, AnswersKept
    DEF StoreInvariant, VersionsContiguous, OneFirstVersion
  <1>4. CachedIsCommitted'
    BY <1>1, SameRows DEF StoreInvariant, CachedIsCommitted
  <1>5. CreatorHolds' /\ \A c \in Clients : Knows(c)'
    BY <1>1, SameRows DEF StoreInvariant, CreatorHolds, Knows
  <1> QED
    BY <1>2, <1>3, <1>4, <1>5 DEF StoreInvariant

LEMMA CrashKeeps ==
  ASSUME StoreInvariant, Crash
  PROVE  StoreInvariant'
  <1> USE DEF request
  <1>1. /\ rows' = rows /\ redis' = redis /\ memory' = None /\ creator' = None
        /\ local' = local /\ version' = version /\ answers' = answers
    BY DEF Crash
  <1>2. TypeOK'
    <2>1. UNCHANGED <<rows, redis, redisUp, outages, op, local, version, after, answers,
                      useRedis>>
      BY DEF Crash
    <2>2. pc' \in [Clients -> Waiting \cup Ended \cup {"idle"}]
      BY DEF Crash, StoreInvariant, TypeOK, Ended
    <2>3. crashes' \in 0..MaxCrashes
      BY CrashesAssumption DEF Crash, StoreInvariant, TypeOK
    <2>4. calm' = FALSE /\ creator' = None /\ memory' = None
      BY DEF Crash
    <2>5. calm' \in BOOLEAN
      BY <2>4, Zenon
    <2> QED
      BY <2>1, <2>2, <2>3, <2>4, <2>5 DEF StoreInvariant, TypeOK
  <1>3. VersionsContiguous' /\ OneFirstVersion' /\ AnsweredIsCommitted' /\ CreatorHolds'
    BY <1>1, SameRows, AnswersKept
    DEF StoreInvariant, VersionsContiguous, OneFirstVersion, CreatorHolds
  <1>4. CachedIsCommitted'
    BY <1>1, SameRows DEF StoreInvariant, CachedIsCommitted
  <1>5. ASSUME NEW c \in Clients
        PROVE  Knows(c)'
    <2>1. Knows(c) /\ pc'[c] = IF pc[c] \in Waiting THEN "lost" ELSE pc[c]
      BY DEF StoreInvariant, Crash
    <2>2. pc'[c] \in Ended \cup {"idle"} /\ (pc'[c] = "idle" => pc[c] = "idle")
      BY <2>1 DEF StoreInvariant, TypeOK, Ended
    <2> QED
      BY <1>1, <2>1, <2>2 DEF Knows, Ended
  <1> QED
    BY <1>2, <1>3, <1>4, <1>5 DEF StoreInvariant

LEMMA NextKeepsStore ==
  StoreInvariant /\ [Next]_vars => StoreInvariant'
  <1> SUFFICES ASSUME StoreInvariant, [Next]_vars
               PROVE  StoreInvariant'
    OBVIOUS
  <1>1. ASSUME NEW c \in Clients, Begin(c) \/ ClientStep(c) \/ PipelineCancelled(c)
        PROVE  StoreInvariant'
    BY <1>1, BeginKeeps, PipelineCancelledKeeps, ReadCacheKeeps, QueryDatabaseKeeps,
       RefillCacheKeeps, RespondKeeps, ModifyKeeps, AnnounceKeeps, PipelineReturnsKeeps,
       PipelineRaisesKeeps, LookUpWorkflowKeeps, CreateWorkflowKeeps, NumberRowKeeps,
       InsertAndCommitKeeps, CommitFailsKeeps, UpdateCacheKeeps
    DEF ClientStep
  <1>2. CASE Expire \/ RedisFails \/ RedisReturns
    BY <1>2, EnvironmentKeeps
  <1>3. CASE Crash
    BY <1>3, CrashKeeps
  <1>4. CASE UNCHANGED vars
    <2>1. UNCHANGED <<rows, creator, redis, memory, redisUp, outages, crashes, calm, op, local,
                      version, after, answers, pc, useRedis>>
      BY <1>4 DEF vars, database, cache, environment, request
    <2> QED
      BY <2>1, SameRows
      DEF StoreInvariant, TypeOK, VersionsContiguous, OneFirstVersion, CachedIsCommitted,
          AnsweredIsCommitted, CreatorHolds, Knows
  <1> QED
    BY <1>1, <1>2, <1>3, <1>4 DEF Next

-----------------------------------------------------------------------------
(* The theorems, for every number of requests, outages and crashes *)

(* The invariant of the store holds in every reachable state.              *)
THEOREM StoreInvariantHolds == Spec => []StoreInvariant
  BY InitStore, NextKeepsStore, PTL DEF Spec

(* max(version) + 1 never leaves a gap, however requests race.             *)
THEOREM VersionsHaveNoGap == Spec => []VersionsContiguous
  BY StoreInvariantHolds, PTL DEF StoreInvariant

(* No two requests both create the workflow.                               *)
THEOREM FirstVersionIsUnique == Spec => []OneFirstVersion
  BY StoreInvariantHolds, PTL DEF StoreInvariant

(* Neither cache ever holds a state that the database has not committed.   *)
THEOREM CachesHoldCommittedStates == Spec => []CachedIsCommitted
  BY StoreInvariantHolds, PTL DEF StoreInvariant

(* No client is told of a state that the database has not committed.       *)
THEOREM AnswersAreDurable == Spec => []AnsweredIsCommitted
  BY StoreInvariantHolds, PTL DEF StoreInvariant

-----------------------------------------------------------------------------
(* That the store implements StateLog, step by step *)

(* Where a request is says what StateLog would let it have read: what it   *)
(* may be told, or what it may save.                                       *)
Saveable(c) ==
    \E base \in (Log!Readable \cup {{}}) \ {None}, work \in SUBSET {c} : local[c] = base \cup work

Serves(c) ==
    /\ pc[c] \in {"read", "refilling", "caching", "running"} => local[c] \in Log!Readable
    /\ pc[c] \in {"saving", "creating", "numbering", "inserting"} => Saveable(c)

(* As long as the store is left in peace, one request at a time reaches    *)
(* Redis, which is behind the rows only until the request that has         *)
(* committed the last one writes it there.                                 *)
Peace ==
    /\ redisUp /\ \A c \in Clients : useRedis[c]
    /\ \A c, d \in Clients : pc[c] \in Waiting /\ pc[d] \in Waiting => c = d
    /\ \A i \in DOMAIN rows : rows[i].version = i
    /\ \A c \in Clients : pc[c] = "inserting" => version[c] = Len(rows) + 1
    /\ (\A c \in Clients : pc[c] # "caching") => redis \in {None} \cup Log!Readable

LogInvariant ==
    /\ StoreInvariant
    /\ calm => Peace
    /\ \A c \in Clients : Serves(c)

(* The rows, read as the log of StateLog                                   *)
LEMMA LogOfRows ==
  ASSUME TypeOK
  PROVE  /\ Len(rows) \in Nat /\ DOMAIN rows = 1..Len(rows)
         /\ \A i \in DOMAIN rows : rows[i].state \in States
         /\ [i \in DOMAIN rows |-> rows[i].state] \in Seq(States)
         /\ Len([i \in DOMAIN rows |-> rows[i].state]) = Len(rows)
         /\ [i \in DOMAIN rows |-> rows[i].state] = << >> <=> rows = << >>
  <1> DEFINE log == [i \in DOMAIN rows |-> rows[i].state]
  <1>1. /\ Len(rows) \in Nat /\ DOMAIN rows = 1..Len(rows) /\ rows \in Seq(Row)
        /\ \A i \in DOMAIN rows : rows[i] \in Row
    BY DEF TypeOK
  <1>2. \A i \in DOMAIN rows : rows[i].state \in States
    BY <1>1 DEF Row
  <1>3. log \in [1..Len(rows) -> States]
    BY <1>1, <1>2
  <1>4. log \in Seq(States) /\ Len(log) = Len(rows) /\ DOMAIN log = 1..Len(rows)
    BY <1>1, <1>3
  <1>5. log = << >> <=> rows = << >>
    BY <1>1, <1>4
  <1> QED
    BY <1>1, <1>2, <1>4, <1>5

(* What may be read of it                                                  *)
LEMMA ReadableIs ==
  ASSUME TypeOK
  PROVE  /\ rows = << >> => Log!Readable = {None}
         /\ rows # << >> /\ calm => Log!Readable = {rows[Len(rows)].state}
         /\ rows # << >> /\ ~calm => Log!Readable = CommittedStates \cup {None}
  <1> DEFINE log == [i \in DOMAIN rows |-> rows[i].state]
  <1>1. /\ Len(rows) \in Nat /\ DOMAIN rows = 1..Len(rows)
        /\ Len(log) = Len(rows) /\ (log = << >> <=> rows = << >>)
    BY LogOfRows
  <1>2. rows # << >> => log[Len(log)] = rows[Len(rows)].state
    BY <1>1
  <1>3. Log!Range(log) = CommittedStates
    BY DEF Log!Range, CommittedStates
  <1>4. Log!Last(log) = log[Len(log)]
    BY DEF Log!Last
  <1>5. Log!Readable = IF log = << >> THEN {None}
                       ELSE IF calm THEN {Log!Last(log)} ELSE Log!Range(log) \cup {None}
    BY DEF Log!Readable
  <1> HIDE DEF log
  <1> QED
    BY <1>1, <1>2, <1>3, <1>4, <1>5

LEMMA ReadableNext ==
  TypeOK' => /\ rows' = << >> => Log!Readable' = {None}
             /\ rows' # << >> /\ calm' => Log!Readable' = {rows'[Len(rows')].state}
             /\ rows' # << >> /\ ~calm' => Log!Readable' = CommittedStates' \cup {None}
  <1> DEFINE Is == TypeOK => /\ rows = << >> => Log!Readable = {None}
                             /\ rows # << >> /\ calm => Log!Readable = {rows[Len(rows)].state}
                             /\ rows # << >> /\ ~calm => Log!Readable = CommittedStates \cup {None}
  <1>1. Is
    BY ReadableIs
  <1>2. Is'
    <2> HIDE DEF Is
    <2> QED
      BY <1>1, PTL
  <1> QED
    BY <1>2

(* What may be read may be read later, unless the store, left in peace,    *)
(* has saved something else.                                               *)
LEMMA ReadableStays ==
  ASSUME TypeOK, TypeOK', rows' = rows, calm' => calm
  PROVE  /\ Log!Readable \subseteq Log!Readable'
         /\ calm' = calm => Log!Readable' = Log!Readable
  <1>1. CommittedStates' = CommittedStates
    BY SameRows
  <1>2. CASE rows = << >>
    BY <1>2, ReadableIs, ReadableNext
  <1>3. CASE rows # << >>
    <2>1. rows[Len(rows)].state \in CommittedStates
      BY <1>3, LogOfRows DEF CommittedStates
    <2> QED
      BY <1>1, <1>3, <2>1, ReadableIs, ReadableNext DEF TypeOK
  <1> QED
    BY <1>2, <1>3

(* Committed states may be read once the store has been disturbed.         *)
LEMMA CommittedIsReadable ==
  ASSUME TypeOK, ~calm
  PROVE  CommittedStates \subseteq Log!Readable
  <1>1. rows = << >> => CommittedStates = {}
    BY DEF CommittedStates
  <1> QED
    BY <1>1, ReadableIs

(* In peace the latest state in the database is the last one saved.        *)
LEMMA LatestInPeace ==
  ASSUME TypeOK, Peace, calm
  PROVE  /\ MaxVersion = Len(rows)
         /\ rows # << >> => LatestStates \subseteq Log!Readable
  <1>1. Len(rows) \in Nat /\ DOMAIN rows = 1..Len(rows)
    BY LogOfRows
  <1>2. Versions = 1..Len(rows)
    BY <1>1 DEF Peace, Versions
  <1>3. MaxVersion = Len(rows)
    BY <1>1, <1>2, MaxVersionIs
  <1>4. ASSUME rows # << >>, NEW state \in LatestStates
        PROVE  state \in Log!Readable
    <2>1. PICK i \in DOMAIN rows : state = rows[i].state /\ rows[i].version = MaxVersion
      BY DEF LatestStates
    <2>2. i = Len(rows)
      BY <1>3, <2>1 DEF Peace
    <2> QED
      BY <1>4, <2>1, <2>2, ReadableIs
  <1> QED
    BY <1>3, <1>4

-----------------------------------------------------------------------------
(* How the steps keep it *)

LEMMA ServesStays ==
  ASSUME NEW d \in Clients, Serves(d), Log!Readable \subseteq Log!Readable',
         pc'[d] = pc[d], local'[d] = local[d]
  PROVE  Serves(d)'
  <1>1. Saveable(d) => Saveable(d)'
    BY DEF Saveable
  <1> QED
    BY <1>1 DEF Serves

(* A state that may be read may be saved, with or without the client's     *)
(* work.                                                                   *)
LEMMA HeldIsSaveable ==
  ASSUME NEW c \in Clients, local[c] = None \/ local[c] \in Log!Readable,
         NEW work \in SUBSET {c}, local'[c] = Held(c) \cup work,
         Log!Readable \subseteq Log!Readable'
  PROVE  Saveable(c)'
  <1>1. Held(c) \in (Log!Readable \cup {{}}) \ {None}
    <2>1. {} # None
      BY NoneAssumption
    <2> QED
      BY <2>1 DEF Held
  <1>2. Held(c) \in (Log!Readable' \cup {{}}) \ {None}
    BY <1>1
  <1> QED
    BY <1>2 DEF Saveable

(* A client that is under way moves on without saving.                     *)
LEMMA OthersServed ==
  ASSUME LogInvariant, StoreInvariant', NEW c \in Clients, pc[c] \in Waiting,
         UNCHANGED <<rows, calm, redisUp>>,
         useRedis' = useRedis \/ NoteReach(c),
         \A d \in Clients \ {c} : /\ pc'[d] = pc[d] /\ local'[d] = local[d]
                                  /\ version'[d] = version[d],
         calm /\ pc'[c] = "inserting" => version'[c] = Len(rows) + 1,
         calm => \/ redis' \in {None} \cup Log!Readable
                 \/ redis' = redis /\ pc[c] # "caching",
         Serves(c)'
  PROVE  LogInvariant'
  <1>1. TypeOK /\ TypeOK' /\ Log!Readable' = Log!Readable
    BY ReadableStays DEF LogInvariant, StoreInvariant
  <1>2. \A d \in Clients \ {c} : Serves(d)'
    BY <1>1, ServesStays DEF LogInvariant
  <1>3. ASSUME calm' PROVE Peace'
    <2>1. calm /\ Peace
      BY <1>3 DEF LogInvariant
    <2>2. redisUp' /\ \A d \in Clients : useRedis'[d]
      BY <1>1, <2>1 DEF Peace, NoteReach, Reaches, TypeOK
    <2>3. \A d \in Clients \ {c} : pc[d] \notin Waiting
      BY <2>1 DEF Peace
    <2>4. \A d, e \in Clients : pc'[d] \in Waiting /\ pc'[e] \in Waiting => d = e
      BY <2>3
    <2>5. \A i \in DOMAIN rows' : rows'[i].version = i
      BY <2>1 DEF Peace
    <2>6. \A d \in Clients : pc'[d] = "inserting" => version'[d] = Len(rows') + 1
      BY <2>1, <2>3 DEF Waiting
    <2>7. (\A d \in Clients : pc'[d] # "caching") => redis' \in {None} \cup Log!Readable'
      <3>1. \A d \in Clients \ {c} : pc[d] # "caching"
        BY <2>3 DEF Waiting
      <3> QED
        BY <1>1, <2>1, <3>1 DEF Peace
    <2> QED
      BY <2>2, <2>4, <2>5, <2>6, <2>7 DEF Peace
  <1> QED
    BY <1>2, <1>3 DEF LogInvariant

LEMMA StepKeepsStore ==
  ASSUME LogInvariant, NEW c \in Clients, Begin(c) \/ ClientStep(c) \/ PipelineCancelled(c)
  PROVE  StoreInvariant'
  BY NextKeepsStore DEF LogInvariant, Next

LEMMA NothingSaid ==
  ASSUME UNCHANGED <<rows, calm, answers>>
  PROVE  UNCHANGED Log!lvars
  BY DEF Log!lvars

LEMMA Told ==
  ASSUME UNCHANGED <<rows, calm>>, NEW c \in Clients, NEW told \in Log!Readable,
         answers' = [answers EXCEPT ![c] = told]
  PROVE  Log!LogNext
  BY DEF Log!LogNext, Log!Answer

LEMMA ReadingServed ==
  ASSUME LogInvariant, NEW c \in Clients, ReadCache(c) \/ QueryDatabase(c) \/ RefillCache(c)
  PROVE  LogInvariant' /\ UNCHANGED Log!lvars
  <1> USE DEF database, cache, environment, request
  <1>1. StoreInvariant'
    BY StepKeepsStore DEF ClientStep
  <1>2. /\ TypeOK /\ TypeOK' /\ CachedIsCommitted /\ Knows(c) /\ Serves(c)
        /\ pc \in [Clients -> Waiting \cup Ended \cup {"idle"}]
        /\ local \in [Clients -> {None} \cup States]
    BY <1>1 DEF LogInvariant, StoreInvariant, TypeOK
  <1>3. /\ UNCHANGED <<rows, calm, redisUp, answers, version>>
        /\ pc[c] \in {"reading", "querying", "refilling"}
        /\ \A d \in Clients \ {c} : pc'[d] = pc[d] /\ local'[d] = local[d]
        /\ useRedis' = useRedis \/ NoteReach(c)
        /\ pc'[c] \in {"read", "querying", "refilling"}
    BY <1>2 DEF ReadCache, QueryDatabase, RefillCache, CacheSet, Step, Goto
  <1>4. Log!Readable' = Log!Readable
    BY <1>2, <1>3, ReadableStays
  <1>5. calm => \/ redis' \in {None} \cup Log!Readable
                \/ redis' = redis /\ pc[c] # "caching"
    <2>1. CASE ReadCache(c) \/ QueryDatabase(c)
      BY <1>3, <2>1 DEF ReadCache, QueryDatabase
    <2>2. CASE RefillCache(c)
      <3>1. local[c] \in Log!Readable
        BY <1>2, <2>2 DEF RefillCache, Step, Serves
      <3> QED
        BY <1>3, <2>2, <3>1 DEF RefillCache, CacheSet
    <2> QED
      BY <2>1, <2>2
  <1>6. pc'[c] \in {"read", "refilling"} => local'[c] \in Log!Readable
    <2>1. CASE ReadCache(c)
      <3>1. CacheGet(c) # None => CacheGet(c) \in Log!Readable
        <4>1. CASE calm
          <5>1. Peace /\ \A d \in Clients : pc[d] # "caching"
            BY <1>3, <4>1 DEF LogInvariant, Peace, Waiting
          <5> QED
            BY <5>1 DEF Peace, CacheGet, Reaches
        <4>2. CASE ~calm
          BY <1>2, <4>2, CommittedIsReadable DEF CacheGet, CachedIsCommitted
        <4> QED
          BY <4>1, <4>2
      <3> QED
        BY <1>2, <2>1, <3>1 DEF ReadCache, Goto
    <2>2. CASE QueryDatabase(c)
      <3>1. rows = << >> => local'[c] = local[c] /\ local[c] = None
        BY <1>2, <2>2 DEF QueryDatabase, Knows
      <3>2. rows # << >> => local'[c] \in LatestStates
        BY <1>2, <2>2 DEF QueryDatabase
      <3>3. rows # << >> => LatestStates \subseteq Log!Readable
        BY <1>2, LatestInPeace, CommittedIsReadable, CommittedAreStates DEF LogInvariant, TypeOK
      <3> QED
        BY <1>2, <3>1, <3>2, <3>3, ReadableIs
    <2>3. CASE RefillCache(c)
      BY <1>2, <2>3 DEF RefillCache, Step, Serves
    <2> QED
      BY <2>1, <2>2, <2>3
  <1>7. Serves(c)'
    BY <1>3, <1>4, <1>6 DEF Serves
  <1>8. LogInvariant'
    BY <1>1, <1>3, <1>5, <1>7, OthersServed DEF Waiting
  <1> QED
    BY <1>3, <1>8, NothingSaid

(* An answer is one that StateLog allows.                                  *)
LEMMA RespondServed ==
  ASSUME LogInvariant, NEW c \in Clients, Respond(c)
  PROVE  LogInvariant' /\ Log!LogNext
  <1> USE DEF database, cache, environment
  <1>1. StoreInvariant'
    BY StepKeepsStore DEF ClientStep
  <1>2. TypeOK /\ Serves(c) /\ pc \in [Clients -> Waiting \cup Ended \cup {"idle"}]
    BY DEF LogInvariant, StoreInvariant, TypeOK
  <1>3. /\ UNCHANGED <<rows, calm, redisUp, version, local, redis, useRedis>>
        /\ pc[c] = "read" /\ local[c] \in Log!Readable
        /\ answers' = [answers EXCEPT ![c] = local[c]]
        /\ \A d \in Clients \ {c} : pc'[d] = pc[d]
        /\ pc'[c] \in {"done", "failed"}
    BY <1>2 DEF Respond, Goto, Serves
  <1>4. Serves(c)'
    BY <1>3 DEF Serves
  <1>5. LogInvariant'
    BY <1>1, <1>3, <1>4, OthersServed DEF Waiting
  <1> QED
    BY <1>3, <1>5, Told

LEMMA WorkServed ==
  ASSUME LogInvariant, NEW c \in Clients,
         \/ Modify(c) \/ Announce(c)
         \/ PipelineReturns(c) \/ PipelineRaises(c) \/ PipelineCancelled(c)
  PROVE  LogInvariant' /\ UNCHANGED Log!lvars
  <1> USE DEF database, cache, environment, request
  <1>1. StoreInvariant'
    BY StepKeepsStore DEF ClientStep
  <1>2. /\ TypeOK /\ TypeOK' /\ Serves(c) /\ Knows(c)
        /\ pc \in [Clients -> Waiting \cup Ended \cup {"idle"}]
        /\ local \in [Clients -> {None} \cup States]
    BY <1>1 DEF LogInvariant, StoreInvariant, TypeOK
  <1>3. /\ UNCHANGED <<rows, calm, redisUp, answers, version, redis, useRedis>>
        /\ pc[c] \in {"read", "running"}
        /\ \A d \in Clients \ {c} : pc'[d] = pc[d] /\ local'[d] = local[d]
        /\ pc'[c] \in {"saving", "cancelled"}
    BY <1>2 DEF Modify, Announce, PipelineReturns, PipelineRaises, PipelineCancelled, Step, Goto
  <1>4. local[c] \in Log!Readable /\ Log!Readable' = Log!Readable
    BY <1>2, <1>3, ReadableStays DEF Serves
  <1>5. \E work \in SUBSET {c} : local'[c] = Held(c) \cup work
    <2>1. CASE Modify(c) \/ PipelineReturns(c)
      BY <1>2, <2>1 DEF Modify, PipelineReturns
    <2>2. CASE Announce(c)
      <3>1. local'[c] = Held(c) \cup {}
        BY <1>2, <2>2 DEF Announce
      <3> QED
        BY <3>1
    <2>3. CASE PipelineRaises(c) \/ PipelineCancelled(c)
      <3>1. local'[c] = local[c] /\ local[c] # None
        BY <1>2, <2>3 DEF PipelineRaises, PipelineCancelled, Step, Knows
      <3>2. local'[c] = Held(c) \cup {}
        BY <3>1 DEF Held
      <3> QED
        BY <3>2
    <2> QED
      BY <2>1, <2>2, <2>3
  <1>6. Saveable(c)'
    BY <1>4, <1>5, HeldIsSaveable
  <1>7. Serves(c)'
    BY <1>3, <1>6 DEF Serves
  <1>8. LogInvariant'
    BY <1>1, <1>3, <1>7, OthersServed DEF Waiting
  <1> QED
    BY <1>3, <1>8, NothingSaid

(* What leads up to a commit, or away from it                              *)
LEMMA SavingServed ==
  ASSUME LogInvariant, NEW c \in Clients,
         LookUpWorkflow(c) \/ CreateWorkflow(c) \/ NumberRow(c) \/ CommitFails(c)
  PROVE  LogInvariant' /\ UNCHANGED Log!lvars
  <1> USE DEF database, cache, environment, request
  <1>1. StoreInvariant'
    BY StepKeepsStore DEF ClientStep
  <1>2. /\ TypeOK /\ TypeOK' /\ Serves(c)
        /\ pc \in [Clients -> Waiting \cup Ended \cup {"idle"}]
        /\ version \in [Clients -> Nat]
    BY <1>1 DEF LogInvariant, StoreInvariant, TypeOK
  <1>3. /\ UNCHANGED <<rows, calm, redisUp, answers, local, redis, useRedis>>
        /\ pc[c] \in {"saving", "creating", "numbering", "inserting"}
        /\ \A d \in Clients \ {c} : pc'[d] = pc[d] /\ version'[d] = version[d]
        /\ pc'[c] \in {"creating", "numbering", "inserting", "failed"}
    BY <1>2 DEF LookUpWorkflow, CreateWorkflow, NumberRow, CommitFails, Step, Goto
  <1>4. Log!Readable' = Log!Readable
    BY <1>2, <1>3, ReadableStays
  <1>5. Serves(c)'
    BY <1>2, <1>3, <1>4 DEF Serves, Saveable
  <1>6. ASSUME calm, pc'[c] = "inserting"
        PROVE  version'[c] = Len(rows) + 1
    <2>1. CASE CreateWorkflow(c)
      <3>1. version'[c] = 1 /\ rows = << >>
        BY <1>2, <1>6, <2>1 DEF CreateWorkflow, Goto, WorkflowExists
      <3> QED
        BY <3>1
    <2>2. CASE NumberRow(c)
      <3>1. version'[c] = MaxVersion + 1
        BY <1>2, <2>2 DEF NumberRow
      <3> QED
        BY <1>2, <1>6, <3>1, LatestInPeace DEF LogInvariant
    <2>3. CASE LookUpWorkflow(c) \/ CommitFails(c)
      BY <1>2, <1>6, <2>3 DEF LookUpWorkflow, CommitFails, Step, Goto
    <2> QED
      BY <2>1, <2>2, <2>3
  <1>7. LogInvariant'
    BY <1>1, <1>3, <1>5, <1>6, OthersServed DEF Waiting
  <1> QED
    BY <1>3, <1>7, NothingSaid

LEMMA UpdateCacheServed ==
  ASSUME LogInvariant, NEW c \in Clients, UpdateCache(c)
  PROVE  LogInvariant' /\ (Log!LogNext \/ UNCHANGED Log!lvars)
  <1> USE DEF database, environment
  <1>1. StoreInvariant'
    BY StepKeepsStore DEF ClientStep
  <1>2. /\ TypeOK /\ TypeOK' /\ Serves(c) /\ Knows(c)
        /\ pc \in [Clients -> Waiting \cup Ended \cup {"idle"}]
        /\ after[c] \in {"saving", "running", "done", "failed", "cancelled"}
    BY <1>1 DEF LogInvariant, StoreInvariant, TypeOK
  <1>3. /\ UNCHANGED <<rows, calm, redisUp, local, version>>
        /\ NoteReach(c)
        /\ pc[c] = "caching" /\ pc'[c] = after[c]
        /\ \A d \in Clients \ {c} : pc'[d] = pc[d]
    BY <1>2 DEF UpdateCache, CacheSet, Step, Goto
  <1>4. /\ local[c] \in Log!Readable /\ local[c] # None
        /\ Log!Readable' = Log!Readable
    BY <1>2, <1>3, ReadableStays DEF Serves, Knows
  <1>5. calm => redis' \in {None} \cup Log!Readable
    BY <1>3, <1>4 DEF UpdateCache, CacheSet, LogInvariant, Peace, Reaches
  <1>6. Saveable(c)'
    <2>1. \E work \in SUBSET {c} : local'[c] = Held(c) \cup work
      <3>1. local'[c] = Held(c) \cup {}
        BY <1>3, <1>4 DEF Held
      <3> QED
        BY <3>1
    <2> QED
      BY <1>4, <2>1, HeldIsSaveable
  <1>7. Serves(c)'
    BY <1>2, <1>3, <1>4, <1>6 DEF Serves
  <1>8. LogInvariant'
    BY <1>1, <1>2, <1>3, <1>5, <1>7, OthersServed DEF Waiting
  <1>9. CASE after[c] = "done"
    BY <1>3, <1>4, <1>8, <1>9, Told DEF UpdateCache
  <1>10. CASE after[c] # "done"
    BY <1>3, <1>8, <1>10, NothingSaid DEF UpdateCache
  <1> QED
    BY <1>9, <1>10

(* A commit saves what StateLog would let it save.                         *)
LEMMA CommitServed ==
  ASSUME LogInvariant, NEW c \in Clients, InsertAndCommit(c)
  PROVE  LogInvariant' /\ Log!LogNext
  <1> USE DEF cache, environment, request
  <1> DEFINE r == [version |-> version[c], state |-> local[c]]
             log == [i \in DOMAIN rows |-> rows[i].state]
             n == Len(rows)
  <1>1. StoreInvariant'
    BY StepKeepsStore DEF ClientStep
  <1>2. /\ TypeOK /\ TypeOK' /\ Serves(c) /\ Knows(c)
        /\ pc \in [Clients -> Waiting \cup Ended \cup {"idle"}]
        /\ version[c] \in Nat /\ local[c] \in {None} \cup States
    BY <1>1 DEF LogInvariant, StoreInvariant, TypeOK
  <1>3. /\ UNCHANGED <<redis, calm, redisUp, useRedis, answers, local, version>>
        /\ pc[c] = "inserting" /\ pc'[c] = "caching" /\ rows' = Append(rows, r)
        /\ \A d \in Clients \ {c} : pc'[d] = pc[d]
    BY <1>2 DEF InsertAndCommit, Step, Goto
  <1>4. local[c] # None /\ local[c] \in States /\ r \in Row
    BY <1>2, <1>3 DEF Knows, Row
  <1>5. /\ n \in Nat /\ DOMAIN rows = 1..n
        /\ Len(rows') = n + 1 /\ DOMAIN rows' = 1..(n + 1)
        /\ \A i \in 1..n : rows'[i] = rows[i]
        /\ rows'[n + 1] = r /\ rows' # << >>
    <2>1. rows \in Seq(Row)
      BY <1>2 DEF TypeOK
    <2> QED
      BY <1>3, <1>4, <2>1
  <1>6. CommittedStates' = CommittedStates \cup {local[c]}
    BY <1>5 DEF CommittedStates
  <1>7. local[c] \in Log!Readable'
    <2>1. rows'[Len(rows')].state = local[c]
      BY <1>5
    <2> QED
      BY <1>2, <1>5, <1>6, <2>1, ReadableNext DEF TypeOK
  <1>8. ASSUME ~calm PROVE Log!Readable \subseteq Log!Readable'
    BY <1>2, <1>3, <1>5, <1>6, <1>8, ReadableIs, ReadableNext
  <1>9. ASSUME NEW d \in Clients PROVE Serves(d)'
    <2>1. CASE d = c
      BY <1>3, <1>7, <2>1 DEF Serves
    <2>2. CASE d # c /\ ~calm
      BY <1>3, <1>8, <2>2, ServesStays DEF LogInvariant
    <2>3. CASE d # c /\ calm
      <3>1. pc[d] \notin Waiting
        BY <1>3, <2>3 DEF LogInvariant, Peace, Waiting
      <3> QED
        BY <1>3, <2>3, <3>1 DEF Serves, Waiting
    <2> QED
      BY <2>1, <2>2, <2>3
  <1>10. ASSUME calm' PROVE Peace'
    <2>1. Peace
      BY <1>3, <1>10 DEF LogInvariant
    <2>2. \A d \in Clients \ {c} : pc[d] \notin Waiting
      BY <1>3, <2>1 DEF Peace, Waiting
    <2>3. \A i \in DOMAIN rows' : rows'[i].version = i
      BY <1>3, <1>5, <2>1 DEF Peace
    <2>4. \A d \in Clients : pc'[d] # "inserting"
      BY <1>3, <2>2 DEF Waiting
    <2>5. ~(\A d \in Clients : pc'[d] # "caching")
      BY <1>3
    <2>6. \A d, e \in Clients : pc'[d] \in Waiting /\ pc'[e] \in Waiting => d = e
      BY <1>3, <2>2
    <2>7. redisUp' /\ \A d \in Clients : useRedis'[d]
      BY <1>3, <2>1 DEF Peace
    <2> QED
      BY <2>3, <2>4, <2>5, <2>6, <2>7 DEF Peace
  <1>11. log' = Append(log, local[c])
    <2>1. log \in Seq(States) /\ Len(log) = n
      BY <1>2, LogOfRows
    <2>2. /\ DOMAIN log' = 1..(n + 1)
          /\ \A i \in 1..n : log'[i] = log[i]
          /\ log'[n + 1] = local[c]
      BY <1>5
    <2>3. log' = [i \in 1..(n + 1) |-> log'[i]]
      BY <1>5
    <2> HIDE DEF log, n
    <2> QED
      BY <1>4, <1>5, <2>1, <2>2, <2>3
  <1>12. Log!Save(c)
    <2>1. PICK base \in (Log!Readable \cup {{}}) \ {None}, work \in SUBSET {c} :
             local[c] = base \cup work
      BY <1>2, <1>3 DEF Serves, Saveable
    <2>2. log' = Append(log, base \cup work) /\ UNCHANGED <<calm, answers>>
      BY <1>3, <1>11, <2>1
    <2> QED
      BY <2>1, <2>2 DEF Log!Save
  <1> QED
    BY <1>1, <1>9, <1>10, <1>12 DEF LogInvariant, Log!LogNext

(* A request that begins while another is under way is a disturbance.      *)
LEMMA BeginServed ==
  ASSUME LogInvariant, NEW c \in Clients, Begin(c)
  PROVE  LogInvariant' /\ [Log!LogNext]_(Log!lvars)
  <1> USE DEF database, cache
  <1>1. StoreInvariant'
    BY StepKeepsStore
  <1>2. /\ TypeOK /\ TypeOK'
        /\ pc \in [Clients -> Waiting \cup Ended \cup {"idle"}]
        /\ local \in [Clients -> {None} \cup States]
        /\ calm \in BOOLEAN
    BY <1>1 DEF LogInvariant, StoreInvariant, TypeOK
  <1>3. /\ UNCHANGED <<rows, redis, redisUp, useRedis, answers, version>>
        /\ pc[c] = "idle" /\ pc'[c] \in {"saving", "reading"}
        /\ pc'[c] = "saving" => local'[c] = {}
        /\ \A d \in Clients \ {c} : pc'[d] = pc[d] /\ local'[d] = local[d]
        /\ calm' = (calm /\ NoneUnderWay)
    BY <1>2 DEF Begin, Goto
  <1>4. Log!Readable \subseteq Log!Readable'
    BY <1>2, <1>3, ReadableStays
  <1>5. ASSUME NEW d \in Clients PROVE Serves(d)'
    <2>1. CASE d # c
      BY <1>3, <1>4, <2>1, ServesStays DEF LogInvariant
    <2>2. CASE d = c
      <3>1. pc'[c] = "saving" => Saveable(c)'
        <4>1. {} # None
          BY NoneAssumption
        <4> QED
          BY <1>3, <4>1 DEF Saveable
      <3> QED
        BY <1>3, <2>2, <3>1 DEF Serves
    <2> QED
      BY <2>1, <2>2
  <1>6. ASSUME calm' PROVE Peace'
    <2>1. calm /\ Peace /\ \A d \in Clients : pc[d] \notin Waiting
      BY <1>3, <1>6 DEF LogInvariant, NoneUnderWay
    <2>2. Log!Readable' = Log!Readable
      BY <1>2, <1>3, <1>6, <2>1, ReadableStays
    <2>3. \A d \in Clients : pc[d] # "caching"
      BY <2>1 DEF Waiting
    <2>4. \A d, e \in Clients : pc'[d] \in Waiting /\ pc'[e] \in Waiting => d = e
      BY <1>3, <2>1
    <2>5. \A d \in Clients : pc'[d] # "inserting"
      BY <1>3, <2>1 DEF Waiting
    <2> QED
      BY <1>3, <2>1, <2>2, <2>3, <2>4, <2>5 DEF Peace
  <1>7. Log!Disturb \/ UNCHANGED Log!lvars
    <2>1. CASE calm' = calm
      BY <1>3, <2>1, NothingSaid
    <2>2. CASE calm' # calm
      <3>1. calm /\ calm' = FALSE
        BY <1>2, <1>3, <2>2
      <3> QED
        BY <1>3, <3>1 DEF Log!Disturb
    <2> QED
      BY <2>1, <2>2
  <1> QED
    BY <1>1, <1>5, <1>6, <1>7 DEF LogInvariant, Log!LogNext

(* So is an outage of Redis, and so is a crash.                            *)
LEMMA EnvironmentServed ==
  ASSUME LogInvariant, Expire \/ RedisFails \/ RedisReturns \/ Crash
  PROVE  LogInvariant' /\ [Log!LogNext]_(Log!lvars)
  <1> USE DEF database, cache, request
  <1>1. StoreInvariant'
    BY NextKeepsStore DEF LogInvariant, Next
  <1>2. TypeOK /\ TypeOK' /\ calm \in BOOLEAN
    BY <1>1 DEF LogInvariant, StoreInvariant, TypeOK
  <1>3. UNCHANGED <<rows, local, answers>> /\ (calm' => calm)
    BY DEF Expire, RedisFails, RedisReturns, Crash, environment
  <1>4. Log!Readable \subseteq Log!Readable'
    BY <1>2, <1>3, ReadableStays
  <1>5. ASSUME NEW d \in Clients PROVE Serves(d)'
    <2>1. CASE pc'[d] = pc[d]
      BY <1>3, <1>4, <2>1, ServesStays DEF LogInvariant
    <2>2. CASE pc'[d] # pc[d]
      <3>1. pc'[d] = "lost"
        BY <2>2 DEF Expire, RedisFails, RedisReturns, Crash
      <3> QED
        BY <3>1 DEF Serves
    <2> QED
      BY <2>1, <2>2
  <1>6. ASSUME calm' PROVE Peace'
    <2>1. calm /\ Peace /\ redisUp
      BY <1>3, <1>6 DEF LogInvariant, Peace
    <2>2. Expire
      BY <1>6, <2>1 DEF RedisFails, RedisReturns, Crash
    <2>3. UNCHANGED <<pc, useRedis, redisUp, version, calm>> /\ redis' = None
      BY <2>2 DEF Expire, environment
    <2> QED
      BY <1>3, <2>1, <2>3 DEF Peace
  <1>7. Log!Disturb \/ UNCHANGED Log!lvars
    <2>1. CASE Expire \/ RedisReturns
      BY <1>3, <2>1, NothingSaid DEF Expire, RedisReturns, environment
    <2>2. CASE RedisFails \/ Crash
      <3>1. calm' = FALSE
        BY <2>2 DEF RedisFails, Crash
      <3>2. CASE calm
        BY <1>3, <3>1, <3>2 DEF Log!Disturb
      <3>3. CASE ~calm
        BY <1>2, <1>3, <3>1, <3>3, NothingSaid
      <3> QED
        BY <3>2, <3>3
    <2> QED
      BY <2>1, <2>2
  <1> QED
    BY <1>1, <1>5, <1>6, <1>7 DEF LogInvariant, Log!LogNext

LEMMA InitLog == Init => LogInvariant /\ Log!LogInit
  <1> SUFFICES ASSUME Init PROVE LogInvariant /\ Log!LogInit
    OBVIOUS
  <1>1. StoreInvariant
    BY InitStore
  <1>2. Peace /\ \A c \in Clients : Serves(c)
    BY DEF Init, Peace, Serves, Waiting
  <1>3. Log!LogInit
    BY DEF Init, Log!LogInit
  <1> QED
    BY <1>1, <1>2, <1>3 DEF LogInvariant

LEMMA NextKeepsLog ==
  LogInvariant /\ [Next]_vars => LogInvariant' /\ [Log!LogNext]_(Log!lvars)
  <1> SUFFICES ASSUME LogInvariant, [Next]_vars
               PROVE  LogInvariant' /\ [Log!LogNext]_(Log!lvars)
    OBVIOUS
  <1>1. ASSUME NEW c \in Clients, Begin(c) \/ ClientStep(c) \/ PipelineCancelled(c)
        PROVE  LogInvariant' /\ [Log!LogNext]_(Log!lvars)
    BY <1>1, BeginServed, ReadingServed, RespondServed, WorkServed, SavingServed,
       CommitServed, UpdateCacheServed
    DEF ClientStep
  <1>2. CASE Expire \/ RedisFails \/ RedisReturns \/ Crash
    BY <1>2, EnvironmentServed
  <1>3. CASE UNCHANGED vars
    <2>1. StoreInvariant'
      BY <1>3, NextKeepsStore DEF LogInvariant
    <2>2. UNCHANGED <<rows, redis, redisUp, calm, local, version, answers, pc, useRedis>>
      BY <1>3 DEF vars, database, cache, environment, request
    <2>3. Log!Readable' = Log!Readable
      BY <2>1, <2>2, ReadableStays DEF LogInvariant, StoreInvariant
    <2>4. \A c \in Clients : Serves(c)'
      BY <2>2, <2>3, ServesStays DEF LogInvariant
    <2>5. calm' => Peace'
      BY <2>2, <2>3 DEF LogInvariant, Peace
    <2> QED
      BY <2>1, <2>2, <2>4, <2>5, NothingSaid DEF LogInvariant
  <1> QED
    BY <1>1, <1>2, <1>3 DEF Next

(* The database with its two caches implements StateLog: every answer and  *)
(* every state that a save builds on was saved before, and is the latest   *)
(* one as long as no requests overlap, Redis stays up and nothing crashes. *)
THEOREM StoreKeepsLog == Spec => KeepsLog
  BY InitLog, NextKeepsLog, PTL DEF Spec, KeepsLog, Log!LogSpec
=============================================================================
