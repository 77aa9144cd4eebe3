------------------------------ MODULE StoryService ------------------------------
(***************************************************************************)
(* The status of one workflow under the requests of its users: the         *)
(* endpoints of story_router and workflow_router over UserStoryOrchestrator*)
(* and WorkflowApiService.  Requests overlap at every await; each reads    *)
(* the saved state, works on its own copy and saves the whole of it.       *)
(* Reading and saving are single steps here (WorkflowStore has what is     *)
(* underneath, ArtifactVersions the lists and their versions), and a run   *)
(* of the graph ends as WorkflowGraph says it may.  Of the stories the     *)
(* model has where they came from and whether the verdict is about them.   *)
(***************************************************************************)
EXTENDS Naturals

CONSTANTS
    Users,          \* who may have a request under way
    MaxAsked,       \* bound: requests
    NoState         \* nothing is saved

ASSUME StoryServiceAssumption == MaxAsked \in Nat

VARIABLES
    saved,          \* the latest state of the workflow
    call,           \* Users -> the request under way, or the last one
    asked,          \* requests so far
    orphaned        \* history: a request was cut off, or an edit has put a RUNNING back

serviceVars == <<saved, call, asked, orphaned>>

\* PipelineStatus, after the words of the workflow
StoryStatuses == {"VALIDATION_PASSED", "VALIDATION_FAILED", "RETRY_REQUIRED", "REVIEW_REQUIRED"}
WorkflowStatuses ==
    {"PENDING", "RUNNING", "COMPLETED", "FAILED", "CANCELLED", "OUTLINE_APPROVED"} \cup StoryStatuses

\* A run of the graph behind UserStoryOrchestrator, a change of stories, a change of anything else
Operations == {"generate", "validate", "approve"}
Changes == {"modify", "retry"}
Edits == {"edit", "outline"}
RequestKinds == {"start"} \cup Operations \cup Changes \cup Edits

\* workflow_status, review_required, the verdict, the stories and those it is about, validationMode
StoredStates ==
    [status : WorkflowStatuses, review : BOOLEAN,
     verdict : {"none", "passed", "failed", "retry", "review"},
     stories : {"none", "generated", "brought", "changed", "edited"}, judged : BOOLEAN, final : BOOLEAN]

ASSUME NoStateAssumption == NoState \notin StoredStates

Unset(status) ==
    [status |-> status, review |-> FALSE, verdict |-> "none", stories |-> "none", judged |-> FALSE,
     final |-> FALSE]

ServiceInit ==
    /\ saved = NoState
    /\ call = [u \in Users |-> [kind |-> "edit", pc |-> "ended", local |-> Unset("PENDING"),
                                status |-> "PENDING", alone |-> FALSE]]
    /\ asked = 0
    /\ orphaned = FALSE

Is(u, pc) == call[u].pc = pc
UnderWay(u) == ~Is(u, "ended")
Local(u) == call[u].local
Becomes(u, request) == call' = [call EXCEPT ![u] = request]
Work(u, local, pc) == Becomes(u, [call[u] EXCEPT !.local = local, !.pc = pc])
Finish(u, status) == Becomes(u, [call[u] EXCEPT !.pc = "ended", !.status = status, !.local = Unset("PENDING")])
Step(u, pc) == Becomes(u, [call[u] EXCEPT !.pc = pc])

\* _pipeline_status_for, which GET /user-stories/{id} shows: no verdict counts as passed.
Shown(s) ==
    CASE s.status = "RETRY_REQUIRED"                    -> "RETRY_REQUIRED"
      [] s.status # "RETRY_REQUIRED" /\ (s.review \/ s.verdict = "review") -> "REVIEW_REQUIRED"
      [] s.status # "RETRY_REQUIRED" /\ ~s.review /\ s.verdict = "retry"   -> "RETRY_REQUIRED"
      [] s.status # "RETRY_REQUIRED" /\ ~s.review /\ s.verdict = "failed"  -> "VALIDATION_FAILED"
      [] OTHER                                          -> "VALIDATION_PASSED"

-----------------------------------------------------------------------------
\* The endpoints.  Every decision of a review is an "approve": nothing reads `approved`.

Request(u, kind, final) ==
    [kind |-> kind, status |-> "RUNNING",
     alone |-> saved # NoState /\ saved.review /\ \A v \in Users : ~UnderWay(v),
     local |-> [Unset("PENDING") EXCEPT !.final = final],
     pc |-> CASE kind = "start"                          -> "save run"
              [] kind \in Operations \cup {"modify"}     -> "read status"
              [] OTHER                                   -> "read"]

\* alone: stories wait for a review and nothing is under way as it begins, and nothing begins after it.
Ask(u) ==
    /\ ~UnderWay(u) /\ asked < MaxAsked
    /\ asked' = asked + 1
    /\ \E kind \in RequestKinds, final \in BOOLEAN :
          /\ final => kind = "start"
          /\ call' = [v \in Users |-> IF v = u THEN Request(u, kind, final) ELSE [call[v] EXCEPT !.alone = FALSE]]
    /\ UNCHANGED <<saved, orphaned>>

-----------------------------------------------------------------------------
\* set_state, around the operations: it makes up a state if there is none.

ReadStatus(u) ==
    /\ Is(u, "read status")
    /\ Work(u, IF saved = NoState THEN Unset("PENDING") ELSE saved, "save status")
    /\ UNCHANGED <<saved, asked, orphaned>>

\* RUNNING before the operation; after it, what it has answered, or FAILED.
SaveStatus(u) ==
    /\ Is(u, "save status")
    /\ saved' = [Local(u) EXCEPT !.status = call[u].status]
    /\ IF call[u].status = "RUNNING" THEN Step(u, "read") ELSE Finish(u, call[u].status)
    /\ UNCHANGED <<asked, orphaned>>

Answer(u, status, pc) == Becomes(u, [call[u] EXCEPT !.status = status, !.pc = pc])

\* An exception reaches the orchestrator; retry has one like the others.
Fails(u) == Answer(u, "FAILED", "read status")

-----------------------------------------------------------------------------
\* The operations

\* The defaults of a request leave what is saved in place, but /validate brings its stories.
RunOn(u) ==
    [(IF saved = NoState THEN Unset("RUNNING") ELSE saved) EXCEPT
        !.status = "RUNNING",
        !.stories = IF call[u].kind = "validate" THEN "brought" ELSE @,
        !.judged = IF call[u].kind = "validate" THEN FALSE ELSE @]

Modified_NotFlagged(s) ==
    [s EXCEPT !.status = "REVIEW_REQUIRED", !.stories = "changed", !.judged = FALSE]
\* What a modification or a retry saves
Modified(s) ==
    [s EXCEPT !.status = "REVIEW_REQUIRED", !.review = TRUE, !.stories = "changed", !.judged = FALSE]

Read(u) ==
    /\ Is(u, "read")
    /\ \/ call[u].kind \in Operations /\ Work(u, RunOn(u), "save run")
       \/ /\ call[u].kind = "retry"
          /\ Work(u, IF saved = NoState THEN Unset("PENDING") ELSE saved, "change")
       \/ /\ call[u].kind = "modify"
          /\ IF saved = NoState THEN Fails(u) ELSE Work(u, saved, "change")
       \/ /\ call[u].kind \in Edits
          /\ IF saved = NoState THEN Finish(u, "FAILED") ELSE Work(u, saved, "change")
    /\ UNCHANGED <<saved, asked, orphaned>>

\* Agent 3, or the search for the story, may fail.
Change(u) ==
    /\ Is(u, "change") /\ call[u].kind \in Changes
    /\ Work(u, Modified(Local(u)), "save result") \/ Fails(u)
    /\ UNCHANGED <<saved, asked, orphaned>>

\* PATCH, undo and the regeneration of an epic leave the status as they read it.
Edit(u) ==
    /\ Is(u, "change") /\ call[u].kind \in Edits
    /\ \/ call[u].kind = "outline" /\ Work(u, [Local(u) EXCEPT !.status = "OUTLINE_APPROVED"], "save result")
       \/ /\ call[u].kind = "edit"
          /\ \/ Step(u, "save result")
             \/ Work(u, [Local(u) EXCEPT !.stories = "edited", !.judged = FALSE], "save result")
       \/ Finish(u, "FAILED")
    /\ UNCHANGED <<saved, asked, orphaned>>

SaveRun(u) ==
    /\ Is(u, "save run")
    /\ saved' = Local(u)
    /\ Step(u, "running")
    /\ UNCHANGED <<asked, orphaned>>

\* Agent 3 generates only what is not there; see WorkflowGraph for the ends of a run.
Ends(u) ==
    LET base == [Local(u) EXCEPT !.stories = IF @ = "none" THEN "generated" ELSE @, !.judged = TRUE]
    IN  {[base EXCEPT !.status = "COMPLETED", !.review = FALSE, !.verdict = "passed"]} \cup
        {[base EXCEPT !.status = IF base.final THEN "COMPLETED" ELSE "REVIEW_REQUIRED",
                      !.review = ~base.final, !.verdict = v] : v \in {"failed", "retry", "review"}}

GraphReturns(u) ==
    /\ Is(u, "running")
    /\ \E end \in Ends(u) : Work(u, end, "save result")
    /\ UNCHANGED <<saved, asked, orphaned>>

\* The dictionary passed to the run is saved as it was.
GraphRaises(u) ==
    /\ Is(u, "running")
    /\ Step(u, "save failure")
    /\ UNCHANGED <<saved, asked, orphaned>>

\* Only start looks for a cancellation.
GraphIsCancelled(u) ==
    /\ Is(u, "running") /\ call[u].kind = "start"
    /\ Work(u, [Local(u) EXCEPT !.status = "CANCELLED"], "save failure")
    /\ UNCHANGED <<saved, asked, orphaned>>

SaveFailure_Unrecorded(u) ==
    /\ Is(u, "save failure")
    /\ saved' = Local(u)
    /\ Finish(u, "FAILED")
    /\ UNCHANGED <<asked, orphaned>>
SaveFailure(u) ==
    /\ Is(u, "save failure")
    /\ saved' = Local(u)
    /\ IF call[u].kind = "start" THEN Finish(u, "FAILED") ELSE Fails(u)
    /\ UNCHANGED <<asked, orphaned>>

\* What the orchestrator records: /validate answers with the verdict alone.
Reported(u) ==
    IF call[u].kind = "validate"
    THEN IF Local(u).verdict = "passed" THEN "VALIDATION_PASSED" ELSE "VALIDATION_FAILED"
    ELSE Shown(Local(u))

\* generate saves once more, with the versions of its stories.
SaveResult(u) ==
    /\ Is(u, "save result")
    /\ saved' = Local(u)
    /\ orphaned' = (orphaned \/ (call[u].kind = "edit" /\ Local(u).status = "RUNNING"))
    /\ \/ call[u].kind = "generate" /\ Step(u, "save versions")
       \/ call[u].kind \in (Operations \ {"generate"}) \cup {"modify"} /\ Answer(u, Reported(u), "read status")
       \/ call[u].kind \in {"start", "retry"} \cup Edits /\ Finish(u, Shown(Local(u)))
    /\ UNCHANGED asked

SaveVersions(u) ==
    /\ Is(u, "save versions")
    /\ saved' = Local(u)
    /\ Answer(u, Reported(u), "read status")
    /\ UNCHANGED <<asked, orphaned>>

\* The process dies, or the request is cancelled: nothing is saved any more.
CutOff(u) ==
    /\ UnderWay(u)
    /\ Finish(u, "FAILED")
    /\ orphaned' = TRUE
    /\ UNCHANGED <<saved, asked>>

-----------------------------------------------------------------------------
Operate(u) ==
    \/ ReadStatus(u) \/ SaveStatus(u) \/ Read(u) \/ Change(u) \/ Edit(u)
    \/ SaveRun(u) \/ GraphReturns(u) \/ GraphRaises(u) \/ GraphIsCancelled(u)
    \/ SaveFailure(u) \/ SaveResult(u) \/ SaveVersions(u)

ServiceNext == \E u \in Users : Ask(u) \/ Operate(u) \/ CutOff(u)

ServiceSpec == ServiceInit /\ [][ServiceNext]_serviceVars

-----------------------------------------------------------------------------
Positions ==
    {"read status", "save status", "read", "change", "save run", "running", "save failure",
     "save result", "save versions", "ended"}
RequestRecords ==
    [kind : RequestKinds, status : WorkflowStatuses, alone : BOOLEAN, local : StoredStates, pc : Positions]

ServiceTypes ==
    /\ saved \in StoredStates \cup {NoState}
    /\ call \in [Users -> RequestRecords]
    /\ asked \in 0..MaxAsked
    /\ orphaned \in BOOLEAN

(***************************************************************************)
(* RUNNING has an owner: while nothing is under way, the saved status is   *)
(* not RUNNING, in whatever order overlapping requests saved their copies  *)
(* and however they failed - unless one was cut off, or an edit that read  *)
(* RUNNING has saved it back over the end of a run (_record_story_workflow *)
(* around the operations of UserStoryOrchestrator).                        *)
(***************************************************************************)
RunningIsOwned ==
    saved # NoState /\ saved.status = "RUNNING" => orphaned \/ \E u \in Users : UnderWay(u)

(***************************************************************************)
(* What a modification or a retry has put in the place of judged stories   *)
(* is flagged for review until a run judges it, whatever requests overlap, *)
(* fail or are cut off in between: GET /user-stories never shows it as     *)
(* passed (execute_story_modify, execute_story_retry,                      *)
(* _execute_story_workflow, which keeps the flag of the saved state).      *)
(***************************************************************************)
ChangesAreReviewed ==
    saved # NoState /\ saved.stories = "changed" /\ ~saved.judged => Shown(saved) # "VALIDATION_PASSED"

(***************************************************************************)
(* POST /user-stories/review/approve answers "User stories approved.": if  *)
(* stories waited for a review, it came last, nothing overlapped it and it *)
(* did not fail, they no longer wait.                                      *)
(***************************************************************************)
ApprovedIsNotParked ==
    \A u \in Users :
        Is(u, "ended") /\ call[u].kind = "approve" /\ call[u].status # "FAILED" /\ call[u].alone => ~saved.review
=============================================================================
