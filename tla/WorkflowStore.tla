---------------------------- MODULE WorkflowStore ----------------------------
(***************************************************************************)
(* The stored state of one workflow: WorkflowApiService._get_state_data    *)
(* and _save_state (backend/app/services/workflow_service.py) over         *)
(* PostgreSQL, the cache of CacheManager (backend/app/cache) and the       *)
(* handlers that read and write through them.                              *)
(*                                                                         *)
(* A client is one HTTP request: it has a database session, a service and  *)
(* a CacheManager of its own (api/deps.py).  The requests of the single    *)
(* uvicorn process interleave at every await, and share Redis and the      *)
(* class-level _memory_cache.  A step of the specification is what a       *)
(* request does from one await to the next.                                *)
(*                                                                         *)
(* A state is abstracted to the set of the clients whose work it contains. *)
(* PostgreSQL runs at READ COMMITTED: a select sees what is committed.     *)
(***************************************************************************)
EXTENDS Integers, FiniteSets, Sequences

CONSTANTS
    Clients,       \* the requests made over the time considered
    OneAtATime,    \* TRUE: no request starts while another is under way
    MaxOutages,    \* times Redis becomes unreachable
    MaxCrashes,    \* times the process dies
    None,          \* no state, no cache entry, no client
    NoAnswer       \* a request that has not been answered

ASSUME NoneAssumption ==
    /\ None \notin Clients
    /\ \A s \in SUBSET Clients : s # None /\ s # NoAnswer
    /\ NoAnswer # None
ASSUME OneAtATimeAssumption == OneAtATime \in BOOLEAN
ASSUME OutagesAssumption == MaxOutages \in Nat
ASSUME CrashesAssumption == MaxCrashes \in Nat

(* "get": get, status, get_story_generation.  "edit": a read-modify-write  *)
(* that needs a stored state (execute_story_modify, update_state_partial,  *)
(* undo_artifact, regenerate_epic).  "set": set_state and                  *)
(* execute_story_retry, which make one up.  "run":                         *)
(* _execute_story_workflow, which the orchestrator brackets by two "set"s. *)
(* "start": start.                                                         *)
Operations == {"get", "edit", "set", "run", "start"}

States == SUBSET Clients

Waiting == { "reading", "querying", "refilling", "read", "saving", "creating",
             "numbering", "inserting", "caching", "running" }
Ended == { "done", "failed", "cancelled", "lost" }

VARIABLES
    rows,        \* committed workflow_states rows, in the order of commits
    creator,     \* who holds the uncommitted INSERT of the workflows row
    redis,       \* the entry of the workflow in Redis
    memory,      \* ... and in CacheManager._memory_cache
    redisUp,     \* Redis can be reached
    pc,          \* client -> where its request is
    op,          \* client -> its operation
    useRedis,    \* client -> CacheManager._use_redis
    local,       \* client -> the state dictionary its request works on
    version,     \* client -> the version its row is to have
    after,       \* client -> where it goes after the save under way
    answers,     \* client -> the state it was last answered with
    outages,     \* Redis outages so far
    crashes,     \* crashes so far
    calm         \* history variable: no two requests have overlapped, Redis has
                 \* not failed and the process has not died

database == <<rows, creator>>
cache == <<redis, memory>>
environment == <<redisUp, outages, crashes, calm>>
request == <<op, local, version, after, answers>>
vars == <<database, cache, environment, request, pc, useRedis>>

Row == [version : Nat, state : States]

(* The workflows row is committed together with the first state.           *)
WorkflowExists == rows # << >>

Versions == { rows[i].version : i \in DOMAIN rows }

(* select max(version); 0 if there is none *)
MaxVersion == CHOOSE n \in Versions \cup {0} : \A m \in Versions : m <= n

(* order_by(version.desc()).limit(1): any of the rows with the top version *)
LatestStates ==
    { rows[i].state : i \in { j \in DOMAIN rows : rows[j].version = MaxVersion } }

Init ==
    /\ rows = << >>
    /\ creator = None
    /\ redis = None
    /\ memory = None
    /\ redisUp = TRUE
    /\ pc = [c \in Clients |-> "idle"]
    /\ op \in [Clients -> Operations]
    /\ useRedis = [c \in Clients |-> TRUE]
    /\ local = [c \in Clients |-> None]
    /\ version = [c \in Clients |-> 0]
    /\ after = [c \in Clients |-> "done"]
    /\ answers = [c \in Clients |-> NoAnswer]
    /\ outages = 0
    /\ crashes = 0
    /\ calm = TRUE

Goto(c, place) == pc' = [pc EXCEPT ![c] = place]
Step(c, from, to) == pc[c] = from /\ Goto(c, to)

-----------------------------------------------------------------------------
(* CacheManager *)

(* The first Redis error of a request turns it to the memory cache for     *)
(* the rest of it, whether or not Redis comes back.                        *)
Reaches(c) == useRedis[c] /\ redisUp
NoteReach(c) == useRedis' = [useRedis EXCEPT ![c] = Reaches(c)]

CacheGet(c) == IF Reaches(c) THEN redis ELSE memory

CacheSet(c, state) ==
    /\ NoteReach(c)
    /\ IF Reaches(c) THEN redis' = state /\ UNCHANGED memory
                     ELSE memory' = state /\ UNCHANGED redis

-----------------------------------------------------------------------------
(* _get_state_data *)

NoneUnderWay == \A d \in Clients : pc[d] \notin Waiting

Begin(c) ==
    /\ pc[c] = "idle"
    /\ OneAtATime => NoneUnderWay
    /\ calm' = (calm /\ NoneUnderWay)
    /\ IF op[c] = "start"
       THEN /\ Goto(c, "saving")
            /\ local' = [local EXCEPT ![c] = {}]
            /\ after' = [after EXCEPT ![c] = "running"]
       ELSE /\ Goto(c, "reading")
            /\ UNCHANGED <<local, after>>
    /\ UNCHANGED <<database, cache, redisUp, outages, crashes, op, version, answers,
                   useRedis>>

ReadCache(c) ==
    /\ pc[c] = "reading"
    /\ NoteReach(c)
    /\ IF CacheGet(c) # None
       THEN /\ local' = [local EXCEPT ![c] = CacheGet(c)]
            /\ Goto(c, "read")
       ELSE /\ Goto(c, "querying")
            /\ UNCHANGED local
    /\ UNCHANGED <<database, cache, environment, op, version, after, answers>>

QueryDatabase(c) ==
    /\ pc[c] = "querying"
    /\ IF rows = << >>
       THEN /\ Goto(c, "read")
            /\ UNCHANGED local
       ELSE /\ \E state \in LatestStates : local' = [local EXCEPT ![c] = state]
            /\ Goto(c, "refilling")
    /\ UNCHANGED <<database, cache, environment, op, version, after, answers, useRedis>>

RefillCache(c) ==
    /\ Step(c, "refilling", "read")
    /\ CacheSet(c, local[c])
    /\ UNCHANGED <<database, environment, request>>

-----------------------------------------------------------------------------
(* What the handlers do with what they have read *)

Respond(c) ==
    /\ pc[c] = "read"
    /\ op[c] = "get" \/ (op[c] = "edit" /\ local[c] = None)
    /\ answers' = [answers EXCEPT ![c] = local[c]]
    /\ Goto(c, IF local[c] = None THEN "failed" ELSE "done")
    /\ UNCHANGED <<database, cache, environment, op, local, version, after, useRedis>>

Held(c) == IF local[c] = None THEN {} ELSE local[c]

Modify(c) ==
    /\ Step(c, "read", "saving")
    /\ op[c] = "set" \/ (op[c] = "edit" /\ local[c] # None)
    /\ local' = [local EXCEPT ![c] = Held(c) \cup {c}]
    /\ after' = [after EXCEPT ![c] = "done"]
    /\ UNCHANGED <<database, cache, environment, op, version, answers, useRedis>>

(* The request is merged and RUNNING is saved before the pipeline runs.    *)
Announce(c) ==
    /\ Step(c, "read", "saving")
    /\ op[c] = "run"
    /\ local' = [local EXCEPT ![c] = Held(c)]
    /\ after' = [after EXCEPT ![c] = "running"]
    /\ UNCHANGED <<database, cache, environment, op, version, answers, useRedis>>

(* A generation saves what it returns once more, with artifact versions.   *)
PipelineReturns(c) ==
    /\ Step(c, "running", "saving")
    /\ local' = [local EXCEPT ![c] = Held(c) \cup {c}]
    /\ \E place \in {"done"} \cup IF op[c] = "run" THEN {"saving"} ELSE {} :
           after' = [after EXCEPT ![c] = place]
    /\ UNCHANGED <<database, cache, environment, op, version, answers, useRedis>>

(* The dictionary from before the run is saved again.                      *)
PipelineRaises(c) ==
    /\ Step(c, "running", "saving")
    /\ after' = [after EXCEPT ![c] = "failed"]
    /\ UNCHANGED <<database, cache, environment, op, local, version, answers, useRedis>>

(* start saves CANCELLED and re-raises; _execute_story_workflow catches    *)
(* Exception only, which CancelledError is not.                            *)
PipelineCancelled(c) ==
    /\ pc[c] = "running"
    /\ IF op[c] = "start"
       THEN /\ Goto(c, "saving")
            /\ after' = [after EXCEPT ![c] = "cancelled"]
       ELSE /\ Goto(c, "cancelled")
            /\ UNCHANGED after
    /\ UNCHANGED <<database, cache, environment, op, local, version, answers, useRedis>>

-----------------------------------------------------------------------------
(* _save_state *)

LookUpWorkflow(c) ==
    /\ Step(c, "saving", IF WorkflowExists THEN "numbering" ELSE "creating")
    /\ UNCHANGED <<database, cache, environment, request, useRedis>>

(* A fault: nothing keeps two requests from creating the workflow.         *)
CreateWorkflow_Unguarded(c) ==
    /\ Step(c, "creating", "inserting")
    /\ creator' = c
    /\ version' = [version EXCEPT ![c] = 1]
    /\ UNCHANGED <<rows, cache, environment, op, local, after, answers, useRedis>>

(* The INSERT waits for an uncommitted one of the same id, and is refused  *)
(* once that is committed.                                                 *)
CreateWorkflow(c) ==
    /\ pc[c] = "creating"
    /\ creator = None
    /\ IF WorkflowExists
       THEN /\ Goto(c, "failed")
            /\ UNCHANGED <<creator, version>>
       ELSE /\ Goto(c, "inserting")
            /\ creator' = c
            /\ version' = [version EXCEPT ![c] = 1]
    /\ UNCHANGED <<rows, cache, environment, op, local, after, answers, useRedis>>

NumberRow(c) ==
    /\ Step(c, "numbering", "inserting")
    /\ version' = [version EXCEPT ![c] = MaxVersion + 1]
    /\ UNCHANGED <<database, cache, environment, op, local, after, answers, useRedis>>

Released(c) == IF creator = c THEN None ELSE creator

(* A fault: only the latest state is kept.                                 *)
InsertAndCommit_Overwrites(c) ==
    /\ Step(c, "inserting", "caching")
    /\ rows' = << [version |-> version[c], state |-> local[c]] >>
    /\ creator' = Released(c)
    /\ UNCHANGED <<cache, environment, request, useRedis>>

InsertAndCommit(c) ==
    /\ Step(c, "inserting", "caching")
    /\ rows' = Append(rows, [version |-> version[c], state |-> local[c]])
    /\ creator' = Released(c)
    /\ UNCHANGED <<cache, environment, request, useRedis>>

(* Faults: the failure is swallowed; the transaction is left open.         *)
CommitFails_Swallowed(c) ==
    /\ Step(c, "inserting", "caching")
    /\ creator' = Released(c)
    /\ UNCHANGED <<rows, cache, environment, request, useRedis>>
CommitFails_NoRollback(c) ==
    /\ Step(c, "inserting", "failed")
    /\ UNCHANGED <<database, cache, environment, request, useRedis>>

(* The session of the request is rolled back.                              *)
CommitFails(c) ==
    /\ Step(c, "inserting", "failed")
    /\ creator' = Released(c)
    /\ UNCHANGED <<rows, cache, environment, request, useRedis>>

UpdateCache(c) ==
    /\ Step(c, "caching", after[c])
    /\ CacheSet(c, local[c])
    /\ after' = [after EXCEPT ![c] = IF @ = "saving" THEN "done" ELSE @]
    /\ answers' = IF after[c] = "done" THEN [answers EXCEPT ![c] = local[c]] ELSE answers
    /\ UNCHANGED <<database, environment, op, local, version>>

-----------------------------------------------------------------------------
(* The environment *)

(* Entries in Redis expire; those of the memory cache never do.            *)
Expire ==
    /\ redis # None
    /\ redis' = None
    /\ UNCHANGED <<database, memory, environment, request, pc, useRedis>>

RedisFails ==
    /\ redisUp /\ outages < MaxOutages
    /\ redisUp' = FALSE
    /\ outages' = outages + 1
    /\ calm' = FALSE
    /\ UNCHANGED <<database, cache, crashes, request, pc, useRedis>>

RedisReturns ==
    /\ ~redisUp
    /\ redisUp' = TRUE
    /\ UNCHANGED <<database, cache, outages, crashes, calm, request, pc, useRedis>>

Crash ==
    /\ crashes < MaxCrashes
    /\ crashes' = crashes + 1
    /\ pc' = [c \in Clients |-> IF pc[c] \in Waiting THEN "lost" ELSE pc[c]]
    /\ creator' = None
    /\ memory' = None
    /\ calm' = FALSE
    /\ UNCHANGED <<rows, redis, redisUp, outages, request, useRedis>>

(* What a request does of its own accord *)
ClientStep(c) ==
    \/ ReadCache(c)
    \/ QueryDatabase(c)
    \/ RefillCache(c)
    \/ Respond(c)
    \/ Modify(c)
    \/ Announce(c)
    \/ PipelineReturns(c)
    \/ PipelineRaises(c)
    \/ LookUpWorkflow(c)
    \/ CreateWorkflow(c)
    \/ NumberRow(c)
    \/ InsertAndCommit(c)
    \/ CommitFails(c)
    \/ UpdateCache(c)

Next ==
    \/ \E c \in Clients : Begin(c) \/ ClientStep(c) \/ PipelineCancelled(c)
    \/ Expire
    \/ RedisFails
    \/ RedisReturns
    \/ Crash

Spec == Init /\ [][Next]_vars

(* Every await of a request ends: Redis calls and connections time out     *)
(* after five seconds, LLM calls by their own timeout, and the database    *)
(* answers or its connection breaks.                                       *)
Fairness == \A c \in Clients : WF_vars(ClientStep(c))

FairSpec == Spec /\ Fairness

-----------------------------------------------------------------------------
(* Properties *)

TypeOK ==
    /\ rows \in Seq(Row)
    /\ creator \in Clients \cup {None}
    /\ redis \in {None} \cup States
    /\ memory \in {None} \cup States
    /\ redisUp \in BOOLEAN
    /\ pc \in [Clients -> Waiting \cup Ended \cup {"idle"}]
    /\ op \in [Clients -> Operations]
    /\ useRedis \in [Clients -> BOOLEAN]
    /\ local \in [Clients -> {None} \cup States]
    /\ version \in [Clients -> Nat]
    /\ after \in [Clients -> {"saving", "running", "done", "failed", "cancelled"}]
    /\ answers \in [Clients -> {None, NoAnswer} \cup States]
    /\ outages \in 0..MaxOutages
    /\ crashes \in 0..MaxCrashes
    /\ calm \in BOOLEAN

CommittedStates == { rows[i].state : i \in DOMAIN rows }

(* Versions are numbered 1, 2, ... without a gap, however requests race:   *)
(* a number is one more than one that is committed, and rows stay.         *)
VersionsContiguous == MaxVersion \in Nat /\ Versions = 1..MaxVersion

(* Rows may share a version, for nothing makes max(version) + 1 unique -   *)
(* but not the first one: the primary key of workflows admits one creator. *)
OneFirstVersion ==
    \A i, j \in DOMAIN rows : rows[i].version = 1 /\ rows[j].version = 1 => i = j

(* "Update Cache ONLY after successful database commit" (521): neither     *)
(* cache ever holds a state that was not committed, whatever crashes,      *)
(* fails to commit or races.                                               *)
CachedIsCommitted ==
    /\ redis # None => redis \in CommittedStates
    /\ memory # None => memory \in CommittedStates

(* What a client has been answered with is in the database: a crash right  *)
(* after the answer loses nothing.                                         *)
AnsweredIsCommitted ==
    \A c \in Clients : answers[c] \notin {None, NoAnswer} => answers[c] \in CommittedStates

(* Where a request is says what it knows of the database.                  *)
Knows(c) ==
    /\ pc[c] \in {"idle", "reading", "querying"} => local[c] = None
    /\ pc[c] = "numbering" => rows # << >>
    /\ pc[c] = "inserting" =>
           IF creator = c THEN version[c] = 1
                          ELSE rows # << >> /\ version[c] \in 2..(MaxVersion + 1)
    /\ pc[c] \in {"read", "refilling"} /\ local[c] # None => local[c] \in CommittedStates
    /\ pc[c] \in { "refilling", "saving", "creating", "numbering", "inserting",
                   "caching", "running" } => local[c] # None
    /\ pc[c] = "caching" => local[c] \in CommittedStates

(* An uncommitted workflows row is the first, and its creator goes on.     *)
CreatorHolds ==
    creator # None => rows = << >> /\ pc[creator] = "inserting"

(* The inductive invariant behind the four.                                *)
StoreInvariant ==
    /\ TypeOK
    /\ VersionsContiguous
    /\ OneFirstVersion
    /\ CachedIsCommitted
    /\ AnsweredIsCommitted
    /\ CreatorHolds
    /\ \A c \in Clients : Knows(c)

(* The store keeps the promise of StateLog: as long as requests do not     *)
(* overlap, Redis stays up and the process does not die, every answer, and *)
(* every state that a save builds on, is the latest one; and it is always  *)
(* one that was saved.                                                     *)
Log == INSTANCE StateLog WITH
    log <- [i \in DOMAIN rows |-> rows[i].state]

KeepsLog == Log!LogSpec

(* Every request that is begun ends, also the one that waits for another's *)
(* INSERT.                                                                 *)
EveryRequestEnds ==
    \A c \in Clients : pc[c] \in Waiting ~> pc[c] \in Ended

(* workflow_service.py:483, "PostgreSQL is the ONLY source of truth": with *)
(* no request under way, what the next one is told is the latest row.      *)
SourceOfTruth ==
    NoneUnderWay =>
        (IF redisUp THEN redis ELSE memory) \in {None} \cup LatestStates
=============================================================================
