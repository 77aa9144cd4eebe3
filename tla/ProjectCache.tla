------------------------------ MODULE ProjectCache ------------------------------
(***************************************************************************)
(* The helpers of backend/app/database/redis/cache.py and the keys of      *)
(* cache_keys.py: what Redis keeps for one user and one project of theirs. *)
(* The keys of other users and projects are other keys (only the status of *)
(* a job leaves the project out), so one pair stands for all.  Every       *)
(* helper is one command, or one MULTI, except the purge of the version    *)
(* histories, which reads the registry first and deletes afterwards.       *)
(* Payloads are numbered by the order of writing; a key with a TTL may be  *)
(* gone at any time.                                                       *)
(***************************************************************************)
EXTENDS Naturals, Sequences

CONSTANTS
    DocumentKeys,   \* global:*, by the hash of a document
    WorkflowKeys,   \* user:*:project:*: workflow, generation, iteration, confidence, review
    PlanningKeys,   \* ...:planning:*:current
    StoryKeys,      \* ...:stories:one_line:current and detailed:current
    SessionKeys,    \* user:*:session
    AnswerKeys,     \* answers of models and searches, the index status of a project: only time removes them
    IndexKeys,      \* rag:*: the flags of chunks and the index status of documents
    Histories,      \* stories with a history; one-line and detailed ones alike
    MaxWrites,      \* bound: attempts and versions written
    NoPurge         \* no purge is under way

ProjectKeys == WorkflowKeys \cup PlanningKeys \cup StoryKeys
CurrentKeys == DocumentKeys \cup ProjectKeys \cup SessionKeys \cup AnswerKeys \cup IndexKeys

ASSUME CacheAssumption == MaxWrites \in Nat

VARIABLES
    live,           \* the current keys that hold a value
    attempts,       \* the attempts of a job
    latest,         \* its latest output; 0: no key
    validated,      \* it has a validation result
    status,         \* it has a status
    versions,       \* Histories -> the versions of the story
    registry,       \* version_keys: the stories with a history
    purge,          \* the keys that invalidate_user_story_version_history has read
    raced,          \* stories that got a version while a purge was under way
    doomed,         \* versions that were there when the last purge began
    writes          \* attempts and versions written

jobVars == <<attempts, latest, validated, status>>
historyVars == <<versions, registry, purge, raced, doomed>>
cacheVars == <<live, attempts, latest, validated, status, versions, registry, purge, raced, doomed, writes>>

CacheInit ==
    /\ live = {}
    /\ attempts = << >> /\ latest = 0 /\ validated = FALSE /\ status = FALSE
    /\ versions = [s \in Histories |-> << >>] /\ registry = {}
    /\ purge = NoPurge /\ raced = {} /\ doomed = {}
    /\ writes = 0

-----------------------------------------------------------------------------
\* Current values: SET with a TTL

Cache(keys) == live' = live \cup keys /\ UNCHANGED <<jobVars, historyVars, writes>>
Forget(keys) == live' = live \ keys /\ UNCHANGED <<jobVars, historyVars, writes>>

CacheDocument == \E k \in DocumentKeys : Cache({k})
CacheWorkflow == \E k \in WorkflowKeys : Cache({k})
CachePlanning == \E k \in PlanningKeys : Cache({k})
CacheStories  == \E k \in StoryKeys : Cache({k})
CacheSession  == \E k \in SessionKeys : Cache({k})
CacheResponse == \E k \in AnswerKeys : Cache({k})
MarkIndexed   == \E k \in IndexKeys : Cache({k})

\* One MULTI with what was given of the artifacts.
CachePlanningArtifacts == \E given \in SUBSET PlanningKeys : Cache(given)

InvalidateDocument == Forget(DocumentKeys)
InvalidateProject == Forget(ProjectKeys)
InvalidateSession == \E k \in SessionKeys : Forget({k})
\* invalidate_rag_chunk, invalidate_rag_document_cache: one key
InvalidateIndex == \E k \in IndexKeys : Forget({k})

-----------------------------------------------------------------------------
\* Attempts of a generation job: one MULTI with the list and the latest output

Write == writes < MaxWrites /\ writes' = writes + 1

AppendAttempt ==
    /\ Write
    /\ attempts' = Append(attempts, writes')
    /\ latest' = writes'
    /\ UNCHANGED <<live, validated, status, historyVars>>

CacheValidation == validated' = TRUE /\ UNCHANGED <<live, attempts, latest, status, historyVars, writes>>
SetJobStatus == status' = TRUE /\ UNCHANGED <<live, attempts, latest, validated, historyVars, writes>>

InvalidateGeneration ==
    /\ attempts' = << >> /\ latest' = 0 /\ validated' = FALSE /\ status' = FALSE
    /\ UNCHANGED <<live, historyVars, writes>>

\* Each key has a TTL of its own, which an append renews.
KeyExpires ==
    /\ \/ live # {} /\ (\E k \in live : live' = live \ {k}) /\ UNCHANGED jobVars
       \/ attempts # << >> /\ attempts' = << >> /\ UNCHANGED <<live, latest, validated, status>>
       \/ latest # 0 /\ latest' = 0 /\ UNCHANGED <<live, attempts, validated, status>>
       \/ validated /\ validated' = FALSE /\ UNCHANGED <<live, attempts, latest, status>>
       \/ status /\ status' = FALSE /\ UNCHANGED <<live, attempts, latest, validated>>
    /\ UNCHANGED <<historyVars, writes>>

-----------------------------------------------------------------------------
\* Version histories.  A ttl would add an EXPIRE of the history and of the registry to the MULTI; the
\* helpers' own, CacheTTL.USER_STORY_VERSIONS, is None and no caller names another: it is left out.

AppendVersion_Unregistered(s) ==
    /\ Write
    /\ versions' = [versions EXCEPT ![s] = Append(@, writes')]
    /\ registry' = IF versions[s] = << >> THEN registry ELSE registry \cup {s}
    /\ raced' = IF purge = NoPurge THEN raced ELSE raced \cup {s}
    /\ UNCHANGED <<live, jobVars, purge, doomed>>
\* One MULTI: RPUSH to the history, SADD to the registry.
AppendVersion(s) ==
    /\ Write
    /\ versions' = [versions EXCEPT ![s] = Append(@, writes')]
    /\ registry' = registry \cup {s}
    /\ raced' = IF purge = NoPurge THEN raced ELSE raced \cup {s}
    /\ UNCHANGED <<live, jobVars, purge, doomed>>

Elements(s) == {versions[s][i] : i \in DOMAIN versions[s]}

\* SMEMBERS of the registry ...
BeginPurge ==
    /\ purge = NoPurge
    /\ purge' = registry
    /\ doomed' = UNION {Elements(s) : s \in Histories}
    /\ UNCHANGED <<live, jobVars, versions, registry, raced, writes>>

\* ... and DELETE of it and of what was read.
EndPurge ==
    /\ purge # NoPurge
    /\ versions' = [s \in Histories |-> IF s \in purge THEN << >> ELSE versions[s]]
    /\ registry' = {}
    /\ purge' = NoPurge
    /\ UNCHANGED <<live, jobVars, raced, doomed, writes>>

CacheNext ==
    \/ CacheDocument \/ CacheWorkflow \/ CachePlanning \/ CacheStories \/ CachePlanningArtifacts
    \/ CacheSession \/ CacheResponse \/ MarkIndexed
    \/ InvalidateDocument \/ InvalidateProject \/ InvalidateSession \/ InvalidateIndex
    \/ AppendAttempt \/ CacheValidation \/ SetJobStatus \/ InvalidateGeneration \/ KeyExpires
    \/ (\E s \in Histories : AppendVersion(s)) \/ BeginPurge \/ EndPurge

CacheSpec == CacheInit /\ [][CacheNext]_cacheVars

-----------------------------------------------------------------------------
(***************************************************************************)
(* The registry leads the purge to every history, but for those that got a *)
(* version while a purge was between its two commands                      *)
(* (append_*_user_story_version, invalidate_user_story_version_history).   *)
(***************************************************************************)
OnlyRacesHideHistories == \A s \in Histories : versions[s] # << >> => s \in registry \cup raced

(***************************************************************************)
(* invalidate_user_story_version_history is to "Remove story rollback      *)
(* history when the owning project or document is purged": when it is      *)
(* done, no version is left that was there when it began.                  *)
(***************************************************************************)
PurgedIsGone == purge = NoPurge => \A s \in Histories : Elements(s) \cap doomed = {}
=============================================================================
