# BA Accelerator: specifications and proofs

A verification project for the BA Accelerator (FastAPI backend, LangGraph
pipeline, PostgreSQL and Redis, Next.js frontend): TLA+ modules of its core, TLC
configurations that check them on small instances, and TLAPS proofs of what
matters most for every value of the constants.  `PROJECT.json` maps each
definition to the lines it models, names a fault for each property, and lists
hazards and findings at their lines.  Paths below are relative to
`src/backend/app/` unless they say otherwise.

Check a module with `tlc -config MCWorkflowGraph.cfg MCWorkflowGraph.tla` (the
runs are listed below) and its proofs with `tlapm WorkflowGraph_proofs.tla`.

## 1. The system

A user uploads a document to a project.  A *workflow* (its id is the project's)
takes it through seven stages - preprocessing, requirement analysis (Agent 1),
epic generation (Agent 2), feature generation, one-line stories, user stories
(Agent 3), validation (Agent 4) - and ends either released or parked for a
business analyst, who then edits, regenerates, undoes, reviews and exports.

| Component | State it keeps | Operations | What makes it hard |
|---|---|---|---|
| Pipeline graph (`orchestrator/langgraph_*.py`) | the `WorkflowState` dictionary of one run | seven stages, three hooks, retry routing | status fields overwritten by the wrapper around every node; a retry loop; failures inside LangGraph's copy of the state |
| Validation and retry policy (`validations/`, `regeneration/`) | none: a verdict from stories and issues | validate, target of regeneration, `should_retry` | the order of checks decides who owns a failed story |
| Workflow state store (`services/workflow_service.py`, `cache/`, `database/`) | `workflows` and `workflow_states` rows; a Redis entry; a process-wide memory cache | `_get_state_data`, `_save_state` | races at every await, cache and database out of step, crash between commit and cache, failing commits |
| Artifacts and versions (`services/workflow_service.py`, `database/redis/cache.py`, `src/frontend/services/api.ts`) | epics, stories and `artifact_versions` inside the stored state; a Redis planning snapshot; what the browser was shown | start, generate, validate, retry, modify, regenerate epic, undo, PATCH | whole-state read-modify-write; reused version numbers; a second copy of the epics; a list written back that was read earlier |
| Story service (`orchestrator/user_story_orchestrator.py`, `api/story_router.py`, `api/workflow_router.py`) | the stored status, the review flag, the verdict | start, generate, validate, retry, review, modify, approve an outline, edit | status bracketing around a run that may fail or be cut off; overlapping requests that save whole copies; a change that must not be shown as judged |
| Project cache (`database/redis/cache.py`, `cache_keys.py`) | Redis keys of a user's project: current values, job attempts, version histories with a registry | cache, invalidate, append, purge | a purge in two commands; keys that expire one by one |
| Story generation, Agent 3 (`agents/user_story_agent.py`, `agents/shared_intelligence.py`) | the stories of one run | batching, quality gate, failure records, deduplication | too large batches are halved recursively; all of a batch or nothing; answers kept from an earlier run |
| Agents 1 and 2 (`agents/requirement_analysis_agent.py`, `agents/epic_agent_2.py`) | none | prompting, parsing | response formats |
| LLM client (`shared/llm_client.py`, `cache/cache_service.py`) | the response cache, the audit log | lookup, attempts, fallback, audit, fill the cache | a deadline over attempts and waits; `execute` calls itself from its exception handler; entries of an earlier release |
| Model routing (`config/model_routing.py`) | cooldowns | choose a model | not wired into the client at this commit |
| Preprocessing (`services/preprocessing_pipeline_service.py`, `chunking/`, `labeling/`, `parsers/`) | a cached result per source | import, chunk, label, analyse, store | token windows at their limits; batches asked for in halves and then from a second model; a cached result of an edited source |
| Retrieval (`rag/`, `api/rag_router.py`) | a Qdrant collection, rows in PostgreSQL, an answer in Redis, connection pools | index, search, context, traceability | three stores that fail separately; a collection that is recreated under another request; pools opened twice; the two arms of a search |
| Export (`src/backend/export`) | issues, pages and files elsewhere | Jira, Azure DevOps, Confluence, SharePoint, files | any of many calls fails, or is carried out and its answer lost |
| MCP server (`src/backend/mcp_server`) | a cache of connectors, temporary files | fetch from Jira, Confluence, Azure DevOps, SharePoint | threads that share files and connectors; four ways to a document, one after the other |
| designlab_core framework (`src/framework`) | none of the workflow's | a second LLM client and pipeline | a separate package |
| Frontend (`src/frontend`) | what it was shown | GET, POST, PATCH | polls; writes back whole lists |

**How they interact.**  A router builds, per HTTP request, a database session, a
`CacheManager`, a `WorkflowApiService` and, for stories, an orchestrator
(`api/deps.py`).  The service reads the stored state, runs the graph or edits the
dictionary, and saves the whole dictionary.  Requests of the one uvicorn process
interleave at every `await`; they share PostgreSQL, Redis and the class-level
`_memory_cache`.  The graph calls the agents, which call the LLM client; it
changes nothing but its dictionary, and the service saves that at the end.
Preprocessing is the graph's first stage and asks the MCP server for documents
that are not uploads; retrieval and export have routers of their own and share
neither tables nor keys with the workflow's state.  The services of retrieval and
the connectors of the MCP server are singletons of the process.

**What makes each correct.**  The graph: stories that did not pass are released
only by an end-to-end request; retries stay within the request's budget; a run
ends.  The policy: an additional problem never relaxes the verdict, no failed
story is without an owner.  The store: no committed state is lost, nothing
uncommitted is shown or cached, what is read is the latest state unless requests
overlap or Redis fails.  The artifacts: the history of each artifact is numbered
without gap or double, and agrees with the artifact.  The LLM client: a call ends,
asks no provider too often, and neither returns nor keeps what does not parse.
Agent 3: each planned story is asked for within the limits, in one batch, and has
a story or a failure record in the end.  The story service: a RUNNING that nobody
is behind is never left, and a change is not shown as passed before it is judged.
Preprocessing: each chunk has one label, no token is lost, a run ends.  Retrieval:
what was reported as indexed can be found, pools are shared, what is answered was
retrieved.  The project cache: a purge finds every history.  Export: "completed"
means every story, and none twice.  The MCP server: an answer is got at in one way,
and a fetch ends.

## 2. Modules

| Module | Models | About |
|---|---|---|
| `Validation` | `story_validator.py` verdict, `_regeneration_target`, `retry_service.py` | operators |
| `Assessing` | issues found one after the other | a behaviour over `Validation` |
| `WorkflowGraph` | `langgraph_workflow.py`, `langgraph_nodes.py`, `langgraph_adapters.py`, `langgraph_state.py` | one run, one action per node |
| `PipelineRun` | | abstract specification of a run |
| `WorkflowGraph_proofs` | | types, review gate, budgets of retries and of supersteps, loops, refinement |
| `WorkflowStore` | `_get_state_data`, `_save_state`, `CacheManager`, sessions | requests that interleave |
| `StateLog` | | abstract specification of the store |
| `WorkflowStore_proofs` | | versions, uniqueness, durability, refinement |
| `ArtifactVersions` | the handlers that write epics, stories and version records | requests over one latest state |
| `ArtifactVersions_proofs` | | numbering of histories, lists and their newest records |
| `LLMService` | `llm_client.py` `execute`, `_is_retryable_exception`, the AI half of `cache_service.py` | calls that share a cache |
| `LLMService_proofs` | | types, bounded requests, malformed entries, audit |
| `StoryBatching` | Agent 3's `execute`, `_build_batches`, `_execute_batch`, `_quality_gate_or_fallback`, `_dedupe_stories` | runs of the agent over one list of packs |
| `StoryBatching_proofs` | | the partition into batches, limits, bounded requests, what is lost |
| `StoryService` | `user_story_orchestrator.py`, the status half of `workflow_service.py`, the endpoints of `story_router.py` and `workflow_router.py` | requests of several users over one saved status |
| `ProjectCache` | the helpers of `database/redis/cache.py` | commands over the keys of one project |
| `ProjectState_proofs` | | of `StoryService`: RUNNING has an owner, changes are reviewed; of `ProjectCache`: what hides a history |
| `Preprocessing` | `DocumentPreprocessingPipelineService.run`, `context_labeler.py` | runs over one source |
| `Chunking` | `chunk_service.py` | one document, sentence by sentence |
| `RagIndex` | `indexing_service.py`, `bm25_service.py`, `vector_store_service.py`, `dense_retrieval_service.py`, `embedding_service.py`, `hybrid_retrieval_service.py`, `rag_router.py` | requests over three stores |
| `RankFusion` | `rrf_service.py`, `reranker_service.py`, `context_builder.py` | one search |
| `Delivery` | `src/backend/export` | exports, one after the other |
| `Connectors` | `src/backend/mcp_server` | fetches in threads |
| `Computations_proofs` | | of `Assessing`: verdicts never relax, and are among those the graph is given; of `Chunking`: chunks are a partition, small ones stay where nothing fits; of `RankFusion`: the order, the package |
| `Documents_proofs` | | of `RagIndex`: reported chunks are stored, pools are shared; of `Preprocessing`, `Delivery` and `Connectors`: whole results, no double, one way |
| `MCComputations` | | the sum of `Assessing`, `StoryBatching`, `Chunking`, `RankFusion` |
| `MCProjectState` | | the sum of `ArtifactVersions`, `StoryService`, `ProjectCache` |
| `MCDocuments` | | the sum of `Preprocessing`, `RagIndex`, `Delivery`, `Connectors` |
| other `MC...` | | definitions for TLC: model values, symmetry |

`WorkflowGraph` EXTENDS `Validation`: the verdict a validation node may get is one
of `FeasibleVerdicts`, and `VerdictsAreFeasible` proves that this closed form
covers every verdict of a well-formed assessment.  The graph is shown to
implement `PipelineRun`, the store to implement `StateLog`; `ArtifactVersions`
takes the store as its latest row, which is what `StateLog` promises of an
undisturbed one, and so does `StoryService`.  `StoryBatching` takes the LLM client as what `LLMService` does for one
prompt: an answer from the cache, an answer that may be kept, or an exception.
`StoryService` takes a run of the graph as one of the ends that `WorkflowGraph` has
for it, `Preprocessing` the chunks of a text as what `Chunking` cuts, and `RankFusion`
works on what `RagIndex` finds.

The three sums compose modules that share no variable.  A behaviour of a sum picks
a module at its start (`turn`) and leaves the others at rest or as they begin, so
that a run over the sum checks each module with all of its requests, and the sum
has the states of its parts added and not multiplied.

### Validation

Issues are records of severity, category and story; the text checks that raise
them, and the scores, are abstracted to arbitrary sets of issues and of weak
stories.  `Verdict` is the result of `UserStoryValidator.validate` (lines 23-103),
`RegenerationTarget` the cascade of 552-566, `ShouldRetry` the comparison of
`retry_service.py`.

### WorkflowGraph

A step is one superstep of LangGraph: the node runs in the wrapper of
`_with_error_handling` (start status, body, completion, transition after
validation) and the edge behind it is taken.  `Preprocessing` ... `ValidationNode`
and the three hooks are one action each; `NodeRaises`, `Cancelled` and
`RecursionExceeded` are the other ways in which a superstep ends.  `StartInit` and
`StoryInit` are the two ways in which a run begins: a fresh state, or a story
request merged over a stored state whose counters and flags it carries over.  What is
stored may be any of `StoredStates`: the marks of a run that passed, was released
without passing, was parked or never got to a verdict, reopened by a retry or a
modification or not, with a retry counter and a history that need not agree, because
`execute_story_retry` (`workflow_service.py:155-166`) sets the one and leaves the
other, and a PATCH sets either.  So the budget of a run is what the request allows
beyond the counter it starts with (`carried`), and what it has spent is what it added
to the history it starts with (`noted`); the refinement of `PipelineRun` counts with
these two.  Only
the coroutine of the run touches its dictionary, so nothing inside a superstep is
visible to anyone.  `SharedDict` tells LangGraph, which hands every node a copy,
from the doubles of the repository's tests, which hand it the caller's dictionary.
Agents are abstracted to the artifacts they may add, a possibly empty list
included; logs and timings are left out.

### WorkflowStore

A client is one request; a step is what it does from one `await` to the next:
`ReadCache`, `QueryDatabase`, `RefillCache`, `Respond` for a read; `LookUpWorkflow`,
`CreateWorkflow`, `NumberRow`, `InsertAndCommit` or `CommitFails`, `UpdateCache`
for a save, as separate steps.  `Announce`, `PipelineReturns`, `PipelineRaises` and
`PipelineCancelled` bracket a run.  A state is the set of the clients whose work it
contains.  `Expire`, `RedisFails`, `RedisReturns` and `Crash` are the environment.
An operation is one of get, edit, set, run and start, which differ in whether they
need a stored state, how often they save and what they do when they fail.

### ArtifactVersions

The state is the list of epics, the list of stories - in which an id may occur
twice - and the version records.  An artifact says the number of the request that
wrote it.  A handler that only awaits its read and its save is a step that reads
and computes (`Undo`, `Modify`, `Patch`) and the step `SaveHeld`; the others have a
step per await that matters: the run of `start`, the announcement, run and second
save of a story run, the SQL of a retry (`Retry`), the planning snapshot, the agent
and the save of `regenerate_epic`.  `Recorded` is `_record_artifact_versions` in
closed form: the i-th artifact of a list takes the number of the records its id
has, plus its rank among the artifacts of the list with that id.  `LastOfFeature`
is the aliasing of `regenerate_failed_stories`: one new object per feature replaces
every failed story of that feature, so that all of them end up with the last one's
id.  `edited` is a history variable: artifacts that were last written without a
record.  `Returned` is what LangGraph does to the records: `artifact_versions` is no key
of `WorkflowState` (`langgraph_state.py:21-75`), so that the graph hands back a state
without them.  Every generate, validate or review saves it so (`StoriesReturn`), and the
records that a generation then adds start again from version 1 (`RecordStories`); a run
that fails saves the dictionary it was given, with its records (`StoriesFail`).  Left out:
records of features, which no handler reads or undoes, the
status fields (`WorkflowGraph`), and a modify request for a story with an id that
the list lacks, which changes nothing.

### LLMService

A call is one `execute`; a step is what it does from one `await` to the next.
`Call`, `CacheHit` and `CacheMiss` are the lookup; `Answered`, `ModelMissing`,
`RateLimited`, `Disconnected` and `Refused` what a provider may do to a request;
`BackOff` and `TryAgain` tenacity's wait; `TimesOut` the `asyncio.timeout` around all
attempts; `Store` the filling of the cache in the finally block.  The fallback from
Groq to Cerebras is an `execute` inside an exception handler of `execute`: the call
starts again at the lookup with `viaGroq` set, and `OuterRecord` is what the outer
finally block audits after everything else.  `stale` is the `success` variable that
a malformed cache entry leaves set.  Three providers stand for all: one with a
fallback, one with a second model, one with neither.  Left out: the texts of
requests and answers (whether an answer fits is all that matters), latencies and
token counts, and the repeats that the providers' own client libraries make.

### StoryBatching

A batch is a stretch of consecutive packs, because batches are built in order and
halved in place.  `AddPack` is one turn of the loop of `_build_batches`; then the head
of `todo` is asked for: `AnsweredFromCache`, `AnsweredByProvider`, `TooLarge` (the
recursion of `_execute_batch`: the halves take its place, left first) or `CallFails`.
`Gated` is the quality gate, all of a batch or failure records, and `Merged` what
`_dedupe_stories` leaves.  A pack is its source (feature and one-line story, which two
packs may share) and its tokens.  `Retry` is the node of the graph running the agent
again because of failure records; it drops what it had.

### StoryService

The saved state is cut down to its status, the review flag, the verdict, where the
stories come from (`generated`, `brought` by `/validate`, `changed` by a modification
or a retry, `edited`) and whether the verdict is about them.  A request is a record
with its own copy and the place it is at; each `await` of the code that reads or saves
is a step: `ReadStatus` and `SaveStatus` are `set_state` of the orchestrator, before an
operation and after it; `Read`, `SaveRun`, `GraphReturns`, `GraphRaises`,
`GraphIsCancelled`, `SaveFailure`, `SaveResult` and `SaveVersions` are
`_execute_story_workflow` and `start`; `Change` and `Edit` the read-modify-writes.
`CutOff` ends a request anywhere with nothing saved: a crash, or a cancelled task.
`Shown` is `_pipeline_status_for`.  A read and a save are single steps that succeed;
what they are made of, and how they fail, is `WorkflowStore`'s.  `orphaned` and `alone`
are history variables that name the exceptions.

### Preprocessing and Chunking

`Preprocessing` is the pipeline from the cached result to the stored one: a run looks
the result up by the hash of the path, downloads or imports, gets chunks, labels them
batch by batch, analyses and stores.  `asks` is the recursion of the labeler, as the
list of the stretches still to be asked for, and `given` what its answers gave so far;
a failing call drops that and turns to the second model for the whole batch, then to
local labels.  A text may have no chunk (`0 \in Lengths`: a blank file, a PDF of images),
and its empty result is returned and kept like any other.  `edition` counts the edits of
the source, so that a text says when it was read.

`Chunking` numbers the tokens of a document; sentences, pieces and chunks are stretches
of them.  Its actions are the turns of the loops of `_split_group_by_token_limit` (a
sentence is added, the piece is cut before it, or an oversized sentence is cut into
windows) and of `_merge_small_chunks` (merge with the left, with the right, move on).
Which neighbours are similar is arbitrary.

### RagIndex and RankFusion

`RagIndex` has the three stores of retrieval and every request of the router that
reads or writes them, one step per `await`: `ensure_collection` in its four calls, the
look-up of what is indexed, embedding with its attempts, the upsert, the pool that is
looked for and opened in two steps, the update of the rows one by one; for a search the
cache, both arms, which proceed independently, and the filling of the cache.  Each step
may fail the way the code handles it.  `lost` is a history variable: a collection of
the right size was dropped.

`RankFusion` is what one request computes: `Fuse` is reciprocal rank fusion in whole
numbers with the order of insertion among equals (`Ranking` is the one arrangement of
what was found along `Precedes`), `Rerank` any order of the candidates
or the fused one, `Build` the requirements of the package, for every text the passages
may have.  Dependencies and business rules, which are collected like the requirements,
are left out.

### ProjectCache

A helper is one action, as it is one Redis command or one MULTI; the purge of histories
is two, because it reads the registry and deletes afterwards.  Helpers that touch the
same group of keys are one action.  Any key with a time to live may go at any time.
Only the helpers for epics and for retrieval's answers have callers in the program
besides tests; the module has all of them, as the file is written to be used whole.
The `ttl` that the append helpers accept is left out: their own is None, and no caller
names another.

### Delivery and Connectors

`Delivery` goes through the stories of a request with the exporters' loops, a step per
call of another system; a call is carried out, rejected, or carried out with its answer
lost.  The Jira client is made with its defaults (`tools/jira.py:52-55`), and its session
sends a POST again after a lost connection, a 429 or a 503: `Resend` leaves an issue
behind or does not, at most `Resends` times per POST, and the export goes on.  So a story
may have two issues in Jira, and a name two epics although "One Epic per unique
story.epic_mapping[0].name" (`jira_export.py:5`); what holds, and is checked, is that this
takes an answer that was lost, that the response names the issue whose creation was
answered, and that every story is under that epic.  `answered` is a history field.  Azure
DevOps is called with plain `requests`, which repeats nothing.  The pages, the folder and
the files (`pages`, `library`, `documents`) are modelled for the order of the steps and
for `UploadIsReal`, which section 3 lists as refuted; no property of a passing run is
about them, as these exporters make one call and report.  Exporters run synchronously on the event loop, so exports follow each other and
what one leaves stays for the next.  `Connectors` has fetches in threads: the cache of
connectors in two steps, and SharePoint's ways to a document (Graph, plain HTTP with
several addresses, the directory `uploads/sharepoint`, any upload of that name), with
the temporary file that all fetches share between the download and the parse.  The
second request for a token and the formats of files are abstracted.

## 3. Runs

| Run | Question | Bounds |
|---|---|---|
| `graph` | Is the review gate closed, is a run never cut short within the limit, does the retry loop end by itself, is each loop counted, and does the run implement `PipelineRun`, however it starts? | retry budgets 0-2, stored counters and histories of 0 or 1 each, recursion limit 12, all hooks on or off, every stage as entry |
| `store` | Are versions contiguous, caches and answers committed, the log kept, and does every request end, when requests race? | two requests of any kind, one outage, one crash |
| `project_state` | Are histories well numbered and in line with the lists; has RUNNING an owner and is every change reviewed; does the registry lead to every history? | two overlapping of three requests, one epic, two stories; two users, three requests; two histories, two writes |
| `llm` | Are requests bounded, answers audited once, malformed entries misses, and does every call end? | two calls for one prompt, two attempts, at most one old entry |
| `computations` | Do verdicts only get stricter, batches and chunks partition their input within the limits, does fusion agree with its lists, is the package grounded, and do the loops end? | two stories; three packs of cost 1 or 9, budget 7, batches of two or three, one retry; four sentences of 1, 2, 3, 6 or 9 tokens, limits 5 and 3; three passages |
| `documents` | Is what was reported stored, are pools shared, results and exports whole, nothing exported twice, answers got at in one way, and does every run, request and fetch end? | two runs, texts of no or three chunks, batches of two, one edit; two callers, three requests, one chunk, two attempts; two stories, two exports, one re-sent POST per call; two fetches, two folders, two addresses |
| `failure_reaches_caller` | (violated) does the caller's dictionary say that its run failed? | as `graph`, smaller |
| `retry_regenerates` | (violated) does a retry generate stories again? | as `graph`, smaller |
| `source_of_truth` | (violated) is what the next request is told in line with the database? | two requests one after the other, one outage |
| `plan_preserved` | (violated) does regenerating an epic leave the others as stored? | four requests one after the other, two epics |
| `no_answer_no_success` | (violated) is a request that failed after a malformed entry audited as failed? | one call, two attempts |
| `approved_is_not_parked` | (violated) do approved stories no longer wait for a review? | two users, three requests |

**Why the bounds are enough.**  The graph's recursion limit of 12 stands to a
budget of one retry as LangGraph's 25 does to seven: `NeverCutShort` states the
relation `10 + 2 * retries <= limit`, and a budget of two overruns the
limit in the run, so both sides happen.  A stored counter and history of 0 or 1 each are
in step, ahead of and behind each other, with a budget that is above, at or below the
counter.  The API allows five retries, so 25 is
enough for its requests; the SharePoint request (`api/workflow_router.py:357`) puts
no bound on them.  In the store, two requests are what it takes to race for the
workflow row, for a version and for the cache.  In `project_state`, three requests
of `ArtifactVersions` are a run and two that overlap or follow each other - retry and
then modify of a doubled story, undo against PATCH; those of `StoryService` are two
that overlap and one before or after them, which finds what they left; two writes and
two histories are one history that a purge finds and one that it misses.  Requests are
bounded by `MaxRequests` and `MaxAsked`, writes by `MaxWrites`, crashes and outages by
`MaxCrashes` and `MaxOutages`.  In `llm`, two calls are what it takes to share an
entry, and two attempts are a first and a last one, at Groq and again at Cerebras;
`MCInit` lets calls begin with one provider and prompt, as calls for different ones
share nothing.

In `computations`, three packs make a batch that is halved unevenly and halved again,
next to one that is not; a cost of 9 is beyond the budget alone, three packs of cost 1
are beyond it together, two are not.  The sizes of sentences are below the minimum of
three tokens, at it, and beyond the maximum of five with a remainder that is small (6)
and one that is not (9); four sentences are a piece with neighbours on both sides, one
of which has merged.  Three passages and lists of up to three give every relation of
two rankings, ties included, with candidates and results cut shorter than the list.
Retries of the agent are bounded by `MaxRetries`, packs by `MaxPacks`, sentences by
`MaxSentences`.  In `documents`, three chunks in batches of two are a full batch that
can be halved and a rest; two requests of retrieval race for the collection, the pool
and the cache, and a third comes after both, when the pools are there; one edit comes
before, within or after each run; two stories share an epic or do not, and the second
export meets what the first has left; a POST that is sent again once leaves none, one or two
issues; a text of no chunks is the boundary of every loop over them; two fetches share the temporary file and the
connector.  Edits are bounded by `MaxEdits`, exports by `MaxExports`.
`NamesInOrder` gives the epic of the first story of an export always the same name, as
names only matter for which stories share an epic.

**Symmetry** is declared where the permuted model values are interchangeable
(clients; epics, and stories when they share their feature; users) and never in a run
with a liveness property: `store` takes the two requests in the order of their kinds
instead (`MCInit`).  Deadlock checking is off where the program stops: a run of
the graph, a set of requests that have all ended.

**Fairness.**  `WorkflowGraph!FairSpec` assumes that a running graph goes on: each
await of a node ends because the LLM client bounds a call by an overall timeout.
`WorkflowStore!FairSpec` assumes it of every request: Redis calls and connections
time out after five seconds, and the database answers or its connection breaks.
Nothing is assumed of cancellations, crashes, outages or expiring entries.
`LLMService!Fairness` assumes that the cache answers or its connection times out,
that tenacity's timer wakes a waiting call, and that `asyncio.timeout` fires; of the
providers it assumes nothing, so `EveryCallEnds` holds with one that never answers.
`StoryBatching!FairSpec` assumes that the agent goes on and that a call of the client
ends, which is what `EveryCallEnds` promises.
`ComputationsSpec` and `FairDocumentsSpec` restate, each in one formula, the fairness of
the modules they are the sum of: `FairChunkSpec` and `FairFusionSpec` assume that a
synchronous computation goes on and that both arms of a search report or fail;
`PreFairness` that the awaits of a run end, as reads and model calls have timeouts;
`RagFairness` that Qdrant, PostgreSQL and Redis answer or time out (30 s each);
`FetchFairness` that threads are scheduled and calls of other systems time out, but for
Jira: its client has no timeout (`tools/jira.py:52-55`), so nothing is assumed of a fetch
that waits for it (`WaitsForJira`).  `FetchesEnd` says that such a fetch is the only one
that need not end, and that it holds up no other; `PreFairness` leaves out a run of
Preprocessing that waits for a connector for the same reason.  The
three modules of `MCDocuments` name their requests alike (`SameNames`), so that one
weak fairness per name is the fairness of whichever module has the turn.  `RunsEnd`,
`RequestsEnd` and `FetchesEnd` say that again and again nothing is under way; whether a
caller asks once more is up to it.
`ArtifactVersions`, `StoryService`, `ProjectCache` and `Delivery` have no liveness
property and no fairness: a request of theirs may be cut off anywhere.

### Disagreements with the source

Six runs check something that the repository says and the code does not do.

- `FailureReachesCaller`: the wrapper notes a node's failure in the copy that
  LangGraph hands to the node and raises; what the service then saves is its own
  dictionary, which still says PENDING or RUNNING.
- `RetryRegenerates`: a retry "is looping back to user story generation", which
  finds stories and returns; the same stories are judged again until the budget is
  spent.  Stories are generated again only if one carries a failure marker, and
  then all of them.
- `SourceOfTruth`: "PostgreSQL is the ONLY source of truth", but the cache is asked
  first; after an outage Redis serves the entry it had before it.
- `PlanPreserved`: regenerating one epic takes the others from the planning
  snapshot, which no other handler writes, and so reverts what was done to them.

- `NoAnswerNoSuccess`: "A malformed cached value must be treated as a cache miss", but
  it leaves `success` set, and a request that then fails is audited as a success.
- `ApprovedIsNotParked`: the approval of a review answers "User stories approved.",
  but nothing reads the decision: the pipeline runs again over the same stories, and
  where its verdict is as before it parks them again.

Some modules state more promises of the repository that their behaviours break; TLC
refutes each of them under the module's specification, and none is among the runs
above.

| Statement | The repository says | The code |
|---|---|---|
| `FileResultsAreCurrent` (`Preprocessing`) | the hash is of "the file path and modification time if it's a file" | it is of the path: an edited file gets the old chunks for a day |
| `RecreatesOnlyMismatched` (`RagIndex`) | a collection is recreated if its size differs | a request that saw the old size drops what another has recreated meanwhile |
| `AnsweredIsStamped` (`RagIndex`) | the stamp keeps rows and vectors consistent | a chunk found to be indexed is left out, also if its stamp failed before |
| `SupportsCodes` (`RankFusion`) | requirement codes are extracted | `findall` returns the group of the pattern, which is the prefix |
| `PurgedIsGone` (`ProjectCache`) | a purge removes the histories | a version that comes between the two commands hides its history |
| `UploadIsReal` (`Delivery`) | stories are exported to a SharePoint folder | the folder is looked at; nothing is uploaded |
| `TextsAreOfThePath` (`Connectors`) | the text of the files in the path | two fetches of files of one name share a temporary file, and the last way takes any upload of that name |
| `InitialisedOnce` (`Connectors`) | a connector is initialised once per process | two fetches that find none both construct one |

Met while reading, and not given runs: an answer that parses but is rejected by the
quality gate stays in the response cache for a day, so a retry of its batch gets
the same answer without asking a provider; the labels of the context labeler
(`labeling/context_labeler.py:165`) are asked for without a schema, so a malformed
answer is kept as well; `retry_count` of the audit is never incremented
(`llm_client.py:204`); a story that is weak without an issue of its
own fails without being named (`story_validator.py:576`); a resumed run expects an
object where a reloaded state holds a dictionary (`langgraph_workflow.py:121`,
`EpicOneLineStoryAdapter`); the warning of an exhausted retry budget is also given
where no retry was asked for (`langgraph_workflow.py:375`); a retry starts from the
longest story list ever saved for the workflow, which a rerun keeps
(`workflow_service.py:91-102`); two failed stories of one feature become one story
twice (`user_story_agent.py:416-426`); the planning snapshot belongs to a user and
a project, not to a workflow.

## 4. Proofs

All theorems hold for every value of the constants, under the named assumptions of
the modules: bounds are natural numbers, the recursion limit is positive, the
values for "nothing" differ from states and clients, epics and stories are finite
and disjoint.

- **`WorkflowGraph_proofs`**: the inductive invariant is `RunInvariant`.
  `ReviewGate` is not inductive: it needs that a running graph has no passed
  verdict, that its counter has grown by as much as its retry history since the start
  (wherever the two started), and that the
  review hook is entered only with a parked state, whose status is all that the
  start of the hook overwrites.  From it follow `TypeCorrect`, `ReviewGateHolds`,
  `RetryBudgetHolds`, `LoopsAreCountedAlways` and
  `ImplementsPipelineRun`, the safety part of the refinement: one step of the graph
  is `Rework`, `Release`, `Park`, `Abort` or a stutter.  `NeverCutShortHolds` needs
  `StepInvariant` on top: the supersteps of a run are paid for by the place of the
  next node (`StepsBefore`, at most nine) and by two for each retry of this run.
- **`WorkflowStore_proofs`**: the inductive invariant is `StoreInvariant`.  That
  versions are contiguous needs to know, of each request, what it learned of the
  database (`Knows`): one about to insert has a version between 2 and the top plus
  one, or is the creator, which `CreatorHolds` ties to an empty table.  From it
  follow `VersionsHaveNoGap`, `FirstVersionIsUnique`, `CachesHoldCommittedStates`
  and `AnswersAreDurable`.  `StoreKeepsLog` is the refinement of `StateLog`, with the
  rows as its log.  `LogInvariant` adds what the mapping needs: what each request
  carries may be answered (`Serves`), and, as long as it is calm, `Peace`: one request
  at most is between its awaits, Redis is up and holds nothing that is not the latest
  state, unless it is about to be written.
- **`ArtifactVersions_proofs`**: the invariant of the histories is that every state
  around is `Good` - typed, with finitely many records, each history numbered 1 to
  its size.  `Ranks` and `CountedByVersion` are the counting arguments: ranks of k
  numbers are 1..k, and records numbered 1..v without a double are v.
  `RecordedIsGood` and `UndoneIsGood` are the two operations that change records;
  the rest of the proof is that every handler saves a good state.  The theorems
  are `VersionInvariantHolds` and `VersionsAreNumbered`.  `ListsMatchRecordsHolds`
  has `Shape`, which strengthens `Good` to `Sound`: in what is stored and in the copy
  of every request, each artifact of a list that was not last written without a
  record is what its newest record says, if it has one.  It has to hold of every copy, because any
  may be saved over any other.

- **`LLMService_proofs`**: the inductive invariant is `CallInvariant`.  That requests are
  bounded is not inductive: it needs, of each call, what `MayHaveAsked` says of the
  attempt it is at and of the model it asks, that only a call that came from Groq
  has asked two providers, and that one waits only while it has an attempt left.
  A step changes one call (`StepIsOfOne`); `StaysAccounted` and `SendAccounted` are
  the two ways in which it stays within its account.  The theorems are
  `CallInvariantHolds`, `RequestsAreBounded`, `MalformedIsNeverKept` and
  `MalformedEntriesAreMisses`.  `AnswersAreAuditedOnce` adds `Settled`: a call has one
  record of an answer that it was paid for from the moment it has one, and none before,
  unless a malformed entry has left `success` set.
- **`StoryBatching_proofs`**: the inductive invariant is `Counted`, which has the
  partition and the bound on requests together: a request is paid for by the packs
  that it leaves behind or by the batch that it splits, and only a partition into
  batches that are not empty makes the packs left behind at least one.
  `HalvesMeet` is the arithmetic of the midpoint; `AddPackCounted`, `TakeCounted`
  and `SplitCounted` are the three ways in which a step changes the list.  The
  theorems are `BatchesAreAPartition`, `AsksAreBounded` and, with `Kept` for the types,
  `BatchInvariantHolds`.  `SentIsWithinLimits` has `Limited`: what waits to be sent fits
  as what was sent does; a half fits because part of a sum weighs no more than all of
  it (`WeightGrows`), which is proved of the sum as it is defined, from the existence of
  the recursive function behind it (`WeigherExists`) and its independence of the order
  (`AnyIsPicked`).  `LostToDoublesOnly` has `Covered`: the sources with a record are those
  of the packs that are done, until the first answer that has a story twice.

- **`Computations_proofs`**: `IssuesNeverRelax` (a further issue never relaxes a verdict)
  and `VerdictsAreFeasible`, from the definitions of Agent 4's policy.
  `ChunkInvariantHolds` and `SmallStaysOnlyWhereNothingFits` have `CutInOrder`: the chunks,
  then the pieces, then the piece being filled tile what was read (`Tiles`), each not
  empty and within the limit; nothing is being filled while pieces are merged, and no
  piece behind the index is small with room for it next to it.  `MergedTiles` and
  `PartsTile` are the two operations: two neighbours become one, an oversized sentence
  becomes windows.
  `FusionAlwaysAgrees` and `PackagesAreGrounded` have `FusionInvariant`: what is fused is
  a head of the ranking.  That there is a ranking at all is `Sortable`, by giving each
  passage the place after those before it; `PrecedesIsAnOrder` is what it needs.  That
  the scores agree with the ranks needs every rank to divide the whole they are parts of
  (`WholeDivides`, of the product as it is defined), `SmallerQuotient` and `TwoAreMore`,
  where the bound on K comes in.
- **`ProjectState_proofs`**: of `StoryService`, the inductive invariant is
  `ServiceInvariant`.  That RUNNING is owned is strengthened to an owner of a kind that
  saves another status at its end: a modification or an operation of the orchestrator.
  For the other kinds the invariant says that they save no RUNNING, and where each kind
  may be.  That changes are reviewed needs the same of every copy under way as of the
  saved state: each copy may be saved over any other, so that one changed, unjudged and
  unflagged copy would be enough.  A rerun keeps the flag until it has judged.  The
  theorems are `RunningIsOwnedHolds` and `ChangesAreReviewedHolds`.  Of `ProjectCache`,
  `OnlyRacesHideHistoriesHolds` has `HistoryInvariant`: between the commands of a purge,
  every history is known to it or was written to since.
- **`Documents_proofs`**: of `RagIndex`, the inductive invariant is `RagInvariant`.
  `StoredInvariant` adds to `ReportedIsStored` that, before a collection of the right size
  was dropped, what a request has upserted and not reported failed has its vector, and
  that only a collection of the right size holds what was reported.  `PoolInvariant`
  counts: the pools that were opened and the callers that have found none and are about
  to open one are together no more than the callers, and none was opened before one is
  there.  The theorems are `ReportedIsStoredHolds` and `PoolsAreSharedHolds`.
  `ResultsAreWholeHolds` has `PreInvariant`: a run has as many labels as the chunks it is
  beyond, in full batches until the last, each batch from one giver (`OfRun`;
  `BatchesApart` keeps two batches from sharing a chunk), and what is cached or returned
  was made by one run from a text that is not older than its beginning.  Of a batch
  that is being asked for, `AskedFor` says that the stretches still to be asked for begin
  where the labels `given` so far end, which makes the labels of a batch as many as its
  chunks however it was halved; a text may have no chunk at all.
  `NothingTwiceHolds` and `CompletedIsWholeHolds` have `DeliveryInvariant`: at each step of
  an export, the answered issues are those of the stories before its place, each under the
  answered epic of its name; any others of those stories were sent again, came first, and
  are in Jira.  `AnswersComeOneWayHolds` has `FetchInvariant`: at each place
  of a fetch, which ways its texts may have come.

**Induction.**  The library's theorems of induction take an operator as a parameter,
which the provers here cannot instantiate.  Where an argument needs one - a sum, a
product, the subsets of a finite set, the recursion behind a fold - the proofs take the
least counterexample instead, of a set that is named in the proof: `LeastOf` (from
`WFMin`) and `SubsetInduction`, which take a set and no operator.

**Only model-checked**: liveness (`LoopEndsByItself`, `EveryRequestEnds`, `EveryCallEnds`,
`EveryRunEnds`, `EveryTextIsChunked`, `RunsEnd`, `RequestsEnd`, `FetchesEnd`) and the
fairness half of `KeepsPromise`, because ENABLED and liveness under fairness are out
of the prover's reach.  Every invariant and every action property of the passing runs is
a theorem.  Conversely, some theorems have no run of their own property because a stronger
invariant is run or proved instead: `RunInvariant`, `RetryBudget` and `TypeOK` of the
graph, `CallInvariant` and `MalformedIsNotKept` of the LLM client, `Counted` of the
batches.  A theorem is about the specification of its own module; that the behaviours of
the three sums are those of their parts is by their definition, and the runs over the sums
check the parts with it.

## 5. Not modelled

- **Agents 1 and 2**: each is one prompt and the parsing of its answer.  What they add to
  the state is in `WorkflowGraph`, what a call may do in `LLMService`.
- **Model routing**: `config/model_routing.py` is used by nothing but a test at this
  commit; the LLM client has an order of providers of its own.
- **Traceability**: formatting of rows without state.
- **designlab_core** (`src/framework`): a separate package, which the backend does not call
  for its workflow.
- **SQL scripts** of `database/` that the application does not use for workflow state.
- **Frontend**, but for what it reads and writes back (`Show` and `Patch`): rendering and
  polling.
- Of the modelled components: the text checks of Agent 4 and all scores; prompts and
  parsers; embeddings, similarity and SQL of retrieval, and its deletes and
  `reindex_chunk`, which have no caller; the layout of PDF, Word and text documents; the
  searches of the connectors and the Google Drive client, which have no caller.

## 6. Plan

What further work would add, in order:

1. Proofs across modules: that `MCProjectState`, `MCDocuments` and `MCComputations` have
   the invariants of their parts, from the theorems above; that a run of the graph, as
   `StoryService` takes it, is one of `PipelineRun`.
2. `StoryService` over `WorkflowStore`, so that its saves fail and race as the store's do.
3. The retries of designlab_core's LLM client, if the backend comes to use it, and
   `ModelRouting`, once the client does.
