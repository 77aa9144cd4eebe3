---------------------------- MODULE WorkflowGraph ----------------------------
(***************************************************************************)
(* One run of the generation pipeline: LangGraphWorkflow                   *)
(* (backend/app/orchestrator/langgraph_workflow.py) over WorkflowNodes     *)
(* (langgraph_nodes.py) and the default adapters (langgraph_adapters.py).  *)
(*                                                                         *)
(* A step of the specification is one superstep of the graph: a node runs  *)
(* inside the wrapper of _with_error_handling, and the edge after it is    *)
(* taken.  Only the coroutine of the run touches its dictionary, so what   *)
(* happens inside a superstep is not visible to anyone else.  A node may   *)
(* also raise, be cancelled at its await, or be refused by LangGraph's     *)
(* recursion limit.                                                        *)
(*                                                                         *)
(* Agents, retrieval and the LLM are abstracted to what they may add to    *)
(* the state: a node that calls one either adds its artifact (possibly an  *)
(* empty list) or raises.  execution_history, audit_log, warnings and      *)
(* timings are logs and are left out.                                      *)
(***************************************************************************)
EXTENDS Validation, Sequences

CONSTANTS
    MaxRetryAttempts,   \* the largest max_retry_attempts a request may ask for
    StoredCounts,       \* retry counts and history lengths a stored state may have
    RecursionLimit,     \* LangGraph's bound on the supersteps of a run
    SharedDict          \* TRUE: nodes work on the caller's own dictionary (the
                        \* doubles of the tests); FALSE: on a copy (LangGraph)

ASSUME MaxRetryAssumption == MaxRetryAttempts \in Nat
ASSUME StoredCountsAssumption == StoredCounts \subseteq Nat
ASSUME RecursionAssumption == RecursionLimit \in Nat \ {0}
ASSUME SharedDictAssumption == SharedDict \in BOOLEAN

CoreNodes == { "preprocessing", "requirement_analysis", "epic_generation",
               "feature_generation", "one_line_story_generation",
               "user_story_generation", "validation" }
Hooks == { "guardrails_hook", "nlp_rag_hook", "human_review_hook" }
Nodes == CoreNodes \cup Hooks
End == "END"

Statuses == { "PENDING", "RUNNING", "RETRY_REQUIRED", "REVIEW_REQUIRED",
              "COMPLETED", "FAILED" }
ReviewStatuses == { "unset", "NOT_REQUIRED", "RETRY_PENDING", "PENDING" }
ApprovalStatuses == { "unset", "NOT_REQUIRED", "PENDING" }
RetryStatuses == { "unset", "RETRY_REQUIRED", "RETRIES_EXHAUSTED" }

(* "live_epics" is the EpicGenerationOutput object under epic_generation:  *)
(* it is never supplied by a caller, and a state reloaded from JSON holds  *)
(* a plain dict there, which has no attribute "epics".                     *)
SuppliedArtifacts == { "chunks", "agent1_output", "requirement_analysis", "epics",
                       "features", "one_line_stories", "agent2_output" }
Artifacts == SuppliedArtifacts \cup { "live_epics" }

(* "failed": at least one placeholder of generation_status FAILED among    *)
(* UserStory objects.  Stories reloaded from JSON are dicts, whose         *)
(* "metadata" getattr never finds: "reloaded" whatever they hold.          *)
StoryKinds == { "none", "generated", "failed", "reloaded" }
(* Agent 3 returns an empty list when every evidence pack is rejected.     *)
Generations == { "none", "generated", "failed" }

VARIABLES
    request,     \* what the caller asked for; never changes
    state,       \* the WorkflowState dictionary the nodes work on
    artifacts,   \* the planning artifacts the state holds
    stories,     \* what state["user_stories"] holds
    next,        \* the node the graph runs next, or End
    outcome,     \* how run_workflow ended, or "running"
    caller,      \* workflow_status in the dictionary the caller passed in
    steps,       \* supersteps so far
    generations  \* history variable: times Agent 3 was executed

vars == <<request, state, artifacts, stories, next, outcome, caller, steps, generations>>

Requests == [ final      : BOOLEAN,               \* metadata.validationMode = "final"
              max_retry  : 0..MaxRetryAttempts,   \* max_retry_attempts
              rag        : BOOLEAN,               \* enable_nlp_rag_hook
              guardrails : BOOLEAN,               \* enable_guardrails_hook
              has_file   : BOOLEAN,               \* file_path
              carried    : Nat,                   \* retry_count at the start
              noted      : Nat ]                  \* entries of retry_history then

NoVerdict == [passed |-> FALSE, retry_required |-> FALSE, review_required |-> FALSE]

States == [ workflow_status : Statuses,
            current_node    : Nodes \cup {"START"},
            completed_nodes : SUBSET Nodes,
            failed_node     : Nodes \cup {"none"},
            retry_count     : Nat,
            retry_history   : Seq(Nat),
            retry_status    : RetryStatuses,
            review_required : BOOLEAN,
            review_status   : ReviewStatuses,
            approval_status : ApprovalStatuses,
            judged          : BOOLEAN,       \* this run has set validation_result ...
            verdict         : VerdictType ]  \* ... and what it says

FreshState(status) ==
    [ workflow_status |-> status,  current_node    |-> "START",
      completed_nodes |-> {},      failed_node     |-> "none",
      retry_count     |-> 0,       retry_history   |-> << >>,
      retry_status    |-> "unset", review_required |-> FALSE,
      review_status   |-> "unset", approval_status |-> "unset",
      judged          |-> FALSE,   verdict         |-> NoVerdict ]

(* What _execute_story_workflow carries over from a stored state: every    *)
(* falsy default of the new request leaves the stored value in place.  The *)
(* marks are those of an earlier run that passed, was released without     *)
(* passing, was parked, or never got to a verdict; execute_story_retry and *)
(* execute_story_modify reopen any of them.  Nothing ties the counter to   *)
(* the history: execute_story_retry sets one and leaves the other, a PATCH *)
(* sets either.                                                            *)
Marks == { [retry |-> "unset",             review |-> "NOT_REQUIRED", approval |-> "NOT_REQUIRED"],
           [retry |-> "RETRIES_EXHAUSTED", review |-> "NOT_REQUIRED", approval |-> "NOT_REQUIRED"],
           [retry |-> "RETRIES_EXHAUSTED", review |-> "PENDING",      approval |-> "PENDING"],
           [retry |-> "unset",             review |-> "unset",        approval |-> "unset"] }

StoredState(mark, count, noted, reopened) ==
    [ FreshState("RUNNING") EXCEPT
        !.completed_nodes = IF mark.review = "unset" THEN {} ELSE CoreNodes,
        !.retry_count     = count,
        !.retry_history   = [i \in 1..noted |-> i],
        !.retry_status    = mark.retry,
        !.review_required = reopened \/ mark.review = "PENDING",
        !.review_status   = mark.review,
        !.approval_status = mark.approval ]

StoredStates ==
    { StoredState(mark, count, noted, reopened) :
          mark \in Marks, count \in StoredCounts, noted \in StoredCounts, reopened \in BOOLEAN }

-----------------------------------------------------------------------------
(* Entry *)

RouteInitialNode ==
    IF artifacts \cap {"one_line_stories", "agent2_output"} # {}
    THEN "user_story_generation"
    ELSE IF "features" \in artifacts THEN "one_line_story_generation"
    ELSE IF "epics" \in artifacts THEN "feature_generation"
    ELSE IF artifacts \cap {"agent1_output", "requirement_analysis"} # {}
    THEN "epic_generation"
    ELSE IF "chunks" \in artifacts THEN "requirement_analysis"
    ELSE "preprocessing"

(* What a request can supply: Agent 2's output is complete and comes with  *)
(* its parts, an agent output needs chunks (the validator of               *)
(* GenerateUserStoriesRequest), and requirement_analysis is only found in  *)
(* a stored state, next to agent1_output.                                  *)
Suppliable(supplied) ==
    /\ "agent2_output" \in supplied =>
           {"epics", "features", "one_line_stories"} \subseteq supplied
    /\ "agent1_output" \in supplied => "chunks" \in supplied
    /\ "requirement_analysis" \in supplied => "agent1_output" \in supplied

(* WorkflowApiService.start *)
StartInit ==
    /\ state = FreshState("PENDING")
    /\ artifacts = {}
    /\ stories = "none"

(* WorkflowApiService._execute_story_workflow: a new workflow or one that  *)
(* is stored already                                                       *)
StoryInit ==
    /\ artifacts \in { a \in SUBSET SuppliedArtifacts : Suppliable(a) }
    /\ \/ /\ state = FreshState("RUNNING")
          /\ stories \in {"none", "generated", "failed"}
          /\ ~request.has_file
       \/ /\ state \in StoredStates
          /\ stories \in StoryKinds

Init ==
    /\ request \in [ final : BOOLEAN, max_retry : 0..MaxRetryAttempts, rag : BOOLEAN,
                     guardrails : BOOLEAN, has_file : BOOLEAN,
                     carried : StoredCounts \cup {0}, noted : StoredCounts \cup {0} ]
    /\ StartInit \/ StoryInit
    /\ request.carried = state.retry_count
    /\ request.noted = Len(state.retry_history)
    /\ next = RouteInitialNode
    /\ outcome = "running"
    /\ caller = state.workflow_status
    /\ steps = 0
    /\ generations = 0

-----------------------------------------------------------------------------
(* The wrapper around every node *)

(* _mark_node_started, the node, _mark_node_completed: a node that sets no *)
(* workflow_status leaves the RUNNING of its start.                        *)
Ran(s, node) ==
    [ s EXCEPT !.current_node    = node,
               !.workflow_status = "RUNNING",
               !.completed_nodes = @ \cup {node} ]

CallerSees(s) == IF SharedDict THEN s.workflow_status ELSE caller

Superstep(node) ==
    /\ outcome = "running"
    /\ next = node
    /\ steps < RecursionLimit
    /\ steps' = steps + 1
    /\ UNCHANGED request

(* The node's own update is merged and the edge to its successor taken.    *)
Proceed(s, successor) ==
    /\ state' = s
    /\ caller' = CallerSees(s)
    /\ next' = successor
    /\ outcome' = IF successor = End THEN "returned" ELSE "running"

(* A node without a decision of its own *)
Stage(node, successor) ==
    /\ Superstep(node)
    /\ Proceed(Ran(state, node), successor)

-----------------------------------------------------------------------------
(* The nodes *)

Preprocessing ==
    /\ Stage("preprocessing", IF request.guardrails THEN "guardrails_hook"
                                                    ELSE "requirement_analysis")
    /\ request.has_file
    /\ \E parsed \in SUBSET {"chunks"} : artifacts' = artifacts \cup parsed
    /\ UNCHANGED <<stories, generations>>

GuardrailsHook ==
    /\ Stage("guardrails_hook", "requirement_analysis")
    /\ UNCHANGED <<artifacts, stories, generations>>

RequirementAnalysis ==
    /\ Stage("requirement_analysis", "epic_generation")
    /\ artifacts' = IF artifacts \cap {"requirement_analysis", "agent1_output"} # {}
                    THEN artifacts
                    ELSE artifacts \cup {"requirement_analysis", "agent1_output"}
    /\ UNCHANGED <<stories, generations>>

EpicGeneration ==
    /\ Stage("epic_generation", "feature_generation")
    /\ IF artifacts \cap {"epics", "agent2_output"} # {}
       THEN UNCHANGED artifacts
       ELSE \E planned \in SUBSET {"epics"} :
                artifacts' = artifacts \cup {"live_epics"} \cup planned
    /\ UNCHANGED <<stories, generations>>

(* EpicFeatureAdapter reads the live epic_generation object, not "epics".  *)
FeatureGeneration ==
    /\ Stage("feature_generation", "one_line_story_generation")
    /\ IF "features" \in artifacts \/ ~({"live_epics", "epics"} \subseteq artifacts)
       THEN UNCHANGED artifacts
       ELSE \E planned \in SUBSET {"features"} : artifacts' = artifacts \cup planned
    /\ UNCHANGED <<stories, generations>>

(* EpicOneLineStoryAdapter: one story per feature of a live epic; Agent    *)
(* 2's output is assembled even from an empty list.                        *)
OneLineStoryGeneration ==
    /\ Stage("one_line_story_generation",
             IF request.rag THEN "nlp_rag_hook" ELSE "user_story_generation")
    /\ artifacts' =
           CASE "one_line_stories" \in artifacts -> artifacts
             [] "one_line_stories" \notin artifacts
                /\ {"live_epics", "features"} \subseteq artifacts ->
                    artifacts \cup {"one_line_stories", "agent2_output"}
             [] OTHER -> artifacts \cup {"agent2_output"}
    /\ UNCHANGED <<stories, generations>>

(* Retrieval failures are swallowed: the run goes on without context.      *)
NlpRagHook ==
    /\ Stage("nlp_rag_hook", "user_story_generation")
    /\ UNCHANGED <<artifacts, stories, generations>>

(* EvidencePackBuilder._validate_payload, and the request's own validator, *)
(* which demands chunks.                                                   *)
GenerationInputsReady ==
    {"chunks", "epics", "features", "one_line_stories"} \subseteq artifacts

(* Agent 3 runs only without stories, or when a UserStory object is marked *)
(* as failed, and then replaces the whole list.                            *)
MustGenerate == stories \in {"none", "failed"}

UserStoryGeneration ==
    /\ Stage("user_story_generation", "validation")
    /\ IF MustGenerate
       THEN /\ GenerationInputsReady
            /\ stories' \in Generations
            /\ generations' = generations + 1
       ELSE UNCHANGED <<stories, generations>>
    /\ UNCHANGED artifacts

(* A placeholder has no acceptance criteria, which is an issue that names  *)
(* it: a failed story, and no verdict that passes.                         *)
Verdicts ==
    CASE stories = "none"   -> FeasibleVerdicts(FALSE, FALSE)
      [] stories = "failed" -> { v \in FeasibleVerdicts(TRUE, TRUE) : ~v.passed }
      [] OTHER              -> FeasibleVerdicts(TRUE, FALSE)

(* The node's own update: it counts the retry before anyone knows whether  *)
(* there will be one.                                                      *)
NodeRetryCount(s, v) ==
    IF ShouldRetry(v, s.retry_count, request.max_retry)
    THEN s.retry_count + 1 ELSE s.retry_count

Judged(s, v) ==
    [s EXCEPT !.judged = TRUE, !.verdict = v, !.retry_count = NodeRetryCount(s, v)]

(* The four updates of _validation_transition *)
StoriesPassed(s) ==
    [ s EXCEPT !.workflow_status = "COMPLETED",
               !.retry_status    = "unset",
               !.review_required = FALSE,
               !.review_status   = "NOT_REQUIRED",
               !.approval_status = "NOT_REQUIRED" ]

RetryRequested(s, count) ==
    [ s EXCEPT !.workflow_status = "RETRY_REQUIRED",
               !.retry_count     = count,
               !.retry_status    = "RETRY_REQUIRED",
               !.retry_history   = Append(@, count),
               !.review_required = FALSE,
               !.review_status   = "RETRY_PENDING",
               !.approval_status = "NOT_REQUIRED" ]

PassedUnresolved(s) ==
    [ s EXCEPT !.workflow_status = "COMPLETED",
               !.retry_status    = "RETRIES_EXHAUSTED",
               !.review_required = FALSE,
               !.review_status   = "NOT_REQUIRED",
               !.approval_status = "NOT_REQUIRED" ]

SentToReview(s) ==
    [ s EXCEPT !.workflow_status = "REVIEW_REQUIRED",
               !.retry_status    = "RETRIES_EXHAUSTED",
               !.review_required = TRUE,
               !.review_status   = "PENDING",
               !.approval_status = "PENDING" ]

(* A fault: unresolved stories are released without asking for the mode. *)
ValidationTransition_AlwaysFinal(s, v) ==
    IF v.passed THEN StoriesPassed(Judged(s, v))
    ELSE IF ShouldRetry(v, s.retry_count, request.max_retry)
    THEN RetryRequested(Judged(s, v), s.retry_count + 1)
    ELSE PassedUnresolved(Judged(s, v))

(* _validation_transition, merged over the node's own update *)
ValidationTransition(s, v) ==
    IF v.passed THEN StoriesPassed(Judged(s, v))
    ELSE IF ShouldRetry(v, s.retry_count, request.max_retry)
    THEN RetryRequested(Judged(s, v), s.retry_count + 1)
    ELSE IF request.final THEN PassedUnresolved(Judged(s, v))
    ELSE SentToReview(Judged(s, v))

(* A fault: the edge reads the verdict instead of the status. *)
RouteAfterValidation_ByVerdict(s) ==
    IF s.verdict.passed THEN End
    ELSE IF s.verdict.retry_required THEN "user_story_generation"
    ELSE IF ~request.final /\ (s.review_required \/ s.workflow_status = "REVIEW_REQUIRED")
    THEN "human_review_hook"
    ELSE End

RouteAfterValidation(s) ==
    IF s.verdict.passed THEN End
    ELSE IF ~request.final /\ (s.review_required \/ s.workflow_status = "REVIEW_REQUIRED")
    THEN "human_review_hook"
    ELSE IF s.workflow_status = "RETRY_REQUIRED" THEN "user_story_generation"
    ELSE End

(* validation_request_from_state needs chunks, as generation does.         *)
ValidationNode ==
    /\ Superstep("validation")
    /\ "chunks" \in artifacts
    /\ \E v \in Verdicts :
          LET judged == ValidationTransition(Ran(state, "validation"), v)
          IN  Proceed(judged, RouteAfterValidation(judged))
    /\ UNCHANGED <<artifacts, stories, generations>>

(* A fault: the status is left as the start of the hook has set it. *)
HumanReviewHook_StaysRunning ==
    /\ Superstep("human_review_hook")
    /\ Proceed(Ran(state, "human_review_hook"), End)
    /\ UNCHANGED <<artifacts, stories, generations>>

(* The hook is not configured: the wrapper only restores the status that   *)
(* starting the node has overwritten.                                      *)
HumanReviewHook ==
    /\ Superstep("human_review_hook")
    /\ LET ran == Ran(state, "human_review_hook")
       IN  Proceed(IF ran.review_required /\ ~request.final
                   THEN [ran EXCEPT !.workflow_status = "REVIEW_REQUIRED"] ELSE ran,
                   End)
    /\ UNCHANGED <<artifacts, stories, generations>>

-----------------------------------------------------------------------------
(* How a node can fail *)

(* The hooks call nothing that raises past them.                           *)
NodeRaises ==
    /\ outcome = "running"
    /\ next \in CoreNodes
    /\ steps < RecursionLimit
    /\ steps' = steps + 1
    /\ state' = [ state EXCEPT !.current_node    = next,
                               !.workflow_status = "FAILED",
                               !.failed_node     = next ]
    /\ caller' = CallerSees(state')
    /\ outcome' = "raised"
    /\ UNCHANGED <<request, artifacts, stories, next, generations>>

(* asyncio.CancelledError is not an Exception: the wrapper lets it pass.   *)
Cancelled ==
    /\ outcome = "running"
    /\ steps < RecursionLimit
    /\ steps' = steps + 1
    /\ state' = [ state EXCEPT !.current_node    = next,
                               !.workflow_status = "RUNNING" ]
    /\ caller' = CallerSees(state')
    /\ outcome' = "cancelled"
    /\ UNCHANGED <<request, artifacts, stories, next, generations>>

RecursionExceeded ==
    /\ outcome = "running"
    /\ steps >= RecursionLimit
    /\ outcome' = "recursion_limit"
    /\ UNCHANGED <<request, state, artifacts, stories, next, caller, steps, generations>>

(* What the run does of its own accord *)
RunStep ==
    \/ Preprocessing
    \/ GuardrailsHook
    \/ RequirementAnalysis
    \/ EpicGeneration
    \/ FeatureGeneration
    \/ OneLineStoryGeneration
    \/ NlpRagHook
    \/ UserStoryGeneration
    \/ ValidationNode
    \/ HumanReviewHook
    \/ NodeRaises
    \/ RecursionExceeded

Next == RunStep \/ Cancelled

Spec == Init /\ [][Next]_vars

(* Every await of a node ends: the LLM client bounds a call by a timeout   *)
(* over all its attempts, and the coroutine of the run is then resumed.    *)
(* Nothing is assumed of a cancellation.                                   *)
FairSpec == Spec /\ WF_vars(RunStep)

-----------------------------------------------------------------------------
(* Properties *)

(* Every variable keeps its shape, and a running graph has a next node.    *)
TypeOK ==
    /\ request \in Requests
    /\ state \in States
    /\ artifacts \subseteq Artifacts
    /\ stories \in StoryKinds
    /\ next \in Nodes \cup {End}
    /\ outcome \in {"running", "returned", "raised", "cancelled", "recursion_limit"}
    /\ caller \in Statuses
    /\ steps \in 0..RecursionLimit
    /\ generations \in Nat
    /\ outcome = "running" => next # End

Parked(s) ==
    /\ s.workflow_status = "REVIEW_REQUIRED"
    /\ s.review_required
    /\ s.review_status = "PENDING"
    /\ s.approval_status = "PENDING"

Released(s) ==
    /\ s.workflow_status = "COMPLETED"
    /\ ~s.review_required
    /\ s.review_status = "NOT_REQUIRED"
    /\ s.approval_status = "NOT_REQUIRED"

(* The human gate: a run that returns has been judged, and has released    *)
(* its stories only if the judgement passed or the request is end-to-end   *)
(* ("final"); otherwise it is parked for a human, with the status that the *)
(* start of the review hook overwrites put back (171-173, 296-377).        *)
ReviewGate ==
    outcome = "returned" =>
        /\ state.judged
        /\ IF state.verdict.passed \/ request.final THEN Released(state)
                                                     ELSE Parked(state)

Larger(m, n) == IF m > n THEN m ELSE n

(* No run spends more retries than its request allows, whatever it carries *)
(* over from an earlier run.                                               *)
RetryBudget == state.retry_count <= Larger(request.carried, request.max_retry)

(* The inductive invariant behind ReviewGate, RetryBudget and KeepsPromise: *)
(* while the graph runs no verdict has passed, the counter has grown with    *)
(* the history, wherever the two began, and the review hook is entered only *)
(* with a parked state, whose status alone the start of the hook overwrites.*)
RunInvariant ==
    /\ TypeOK
    /\ ReviewGate
    /\ RetryBudget
    /\ outcome = "running" =>
           /\ ~state.verdict.passed
           /\ state.retry_count - request.carried = Len(state.retry_history) - request.noted
    /\ outcome = "running" /\ next = "human_review_hook" =>
           state.judged /\ ~request.final /\ Parked(state)

(* LangGraph's recursion limit cuts no run short that it leaves room for   *)
(* all seven stages and hooks before generation, a generation and a        *)
(* validation for the first pass and for each retry, and the review hook:  *)
(* with its 25 supersteps, no request within the API's five retries.       *)
HasRoom == 10 + 2 * request.max_retry <= RecursionLimit
NeverCutShort == HasRoom => outcome # "recursion_limit"

(* Validation loops back only on a verdict that asks for it, below the     *)
(* budget, and each such loop leaves exactly one entry in the history.     *)
LoopsAreCounted ==
    [][ next = "validation" /\ next' = "user_story_generation" =>
          /\ ~state'.verdict.passed /\ state'.verdict.retry_required
          /\ state.retry_count < request.max_retry
          /\ Len(state'.retry_history) = Len(state.retry_history) + 1 ]_vars

(* Every run ends, and one for which the recursion limit leaves room ends  *)
(* of its own accord or by a failure in a node or a cancellation: the loop *)
(* back from validation stops because each pass spends a retry (276), and  *)
(* not because LangGraph stops it.                                         *)
OwnEnds == {"returned", "raised", "cancelled"}
LoopEndsByItself ==
    <>(outcome \in IF HasRoom THEN OwnEnds ELSE OwnEnds \cup {"recursion_limit"})

(* The run keeps the promise of PipelineRun: it maps a returned run to     *)
(* released or parked by the stored status, and the rework still allowed   *)
(* to what was left at the start less what this run has noted.  (Not to    *)
(* retry_count, which also counts a retry that a passing verdict asks for  *)
(* and that never happens.)                                                *)
Gate == IF request.final THEN "none" ELSE "human"
Phase ==
    IF outcome = "running" THEN "working"
    ELSE IF outcome # "returned" THEN "aborted"
    ELSE IF state.workflow_status = "COMPLETED" THEN "released"
    ELSE "parked"
RetriesLeft ==
    Larger(0, request.max_retry - request.carried - (Len(state.retry_history) - request.noted))

Promise == INSTANCE PipelineRun WITH
    gate <- Gate, phase <- Phase, retriesLeft <- RetriesLeft,
    accepted <- state.verdict.passed

KeepsPromise == Promise!FairRunSpec

(* What the source claims and the code does not do; see the README.        *)

(* test_langgraph_orchestration.py:517 expects the dictionary passed to    *)
(* run_workflow to say FAILED after a node has raised.                     *)
FailureReachesCaller == outcome = "raised" => caller = "FAILED"

(* langgraph_workflow.py:349, "workflow is looping back to user story      *)
(* generation": a retry generates stories again.                           *)
RetryRegenerates ==
    [][ /\ next = "user_story_generation"
        /\ state.workflow_status = "RETRY_REQUIRED"
        /\ next' = "validation"
        => generations' = generations + 1 ]_vars

=============================================================================
