------------------------- MODULE WorkflowGraph_proofs -------------------------
(***************************************************************************)
(* Theorems about WorkflowGraph, for every set of stories, every bound on  *)
(* the retries a request may ask for and every recursion limit.            *)
(***************************************************************************)
EXTENDS WorkflowGraph, TLAPS

(* Agent 4 answers with a verdict, whatever the stories.                   *)
LEMMA VerdictsTyped == \A v \in Verdicts : v \in VerdictType
  BY DEF Verdicts, FeasibleVerdicts

(* The labels the code writes are labels the state may hold.               *)
LEMMA Labels ==
  /\ \A l \in {"RUNNING", "RETRY_REQUIRED", "REVIEW_REQUIRED", "COMPLETED", "FAILED"} :
        l \in Statuses
  /\ \A l \in {"NOT_REQUIRED", "RETRY_PENDING", "PENDING"} : l \in ReviewStatuses
  /\ \A l \in {"NOT_REQUIRED", "PENDING"} : l \in ApprovalStatuses
  /\ \A l \in {"unset", "RETRY_REQUIRED", "RETRIES_EXHAUSTED"} : l \in RetryStatuses
  BY DEF Statuses, ReviewStatuses, ApprovalStatuses, RetryStatuses

(* The wrapper around a node keeps the shape of the state.                 *)
LEMMA RanTyped ==
  ASSUME NEW s \in States, NEW node \in Nodes
  PROVE  Ran(s, node) \in States
  BY Labels DEF Ran, States

(* So does every decision taken on a verdict.                              *)
LEMMA TransitionTyped ==
  ASSUME NEW s \in States, NEW v \in VerdictType, request \in Requests
  PROVE  ValidationTransition(s, v) \in States
  <1>1. s.retry_count \in Nat /\ s.retry_count + 1 \in Nat
    BY DEF States
  <1>2. NodeRetryCount(s, v) \in Nat
    BY <1>1 DEF NodeRetryCount
  <1>3. Judged(s, v) \in States
    BY <1>2 DEF Judged, States
  <1>4. \A j \in States : StoriesPassed(j) \in States
    BY Labels DEF StoriesPassed, States
  <1>5. \A j \in States : RetryRequested(j, s.retry_count + 1) \in States
    <2> TAKE j \in States
    <2>1. Append(j.retry_history, s.retry_count + 1) \in Seq(Nat)
      BY <1>1 DEF States
    <2> QED
      BY Labels, <1>1, <2>1
      DEF RetryRequested, States
  <1>6. \A j \in States : PassedUnresolved(j) \in States
    BY Labels DEF PassedUnresolved, States
  <1>7. \A j \in States : SentToReview(j) \in States
    BY Labels DEF SentToReview, States
  <1> QED
    BY <1>3, <1>4, <1>5, <1>6, <1>7 DEF ValidationTransition

(* What every superstep keeps, given that the node leaves a proper state.  *)
LEMMA ProceedTyped ==
  ASSUME TypeOK, NEW s \in States, NEW successor \in Nodes \cup {End},
         Proceed(s, successor), steps < RecursionLimit, steps' = steps + 1
  PROVE  /\ state' \in States
         /\ next' \in Nodes \cup {End}
         /\ outcome' \in {"running", "returned", "raised", "cancelled", "recursion_limit"}
         /\ caller' \in Statuses
         /\ steps' \in 0..RecursionLimit
         /\ outcome' = "running" => next' # End
  <1>1. s.workflow_status \in Statuses
    BY DEF States
  <1>2. steps' \in 0..RecursionLimit
    BY RecursionAssumption DEF TypeOK
  <1> QED
    BY <1>1, <1>2 DEF TypeOK, Proceed, CallerSees

LEMMA StageTyped ==
  ASSUME TypeOK, NEW node \in Nodes, NEW successor \in Nodes \cup {End},
         Stage(node, successor)
  PROVE  /\ request' \in Requests
         /\ state' \in States
         /\ next' \in Nodes \cup {End}
         /\ outcome' \in {"running", "returned", "raised", "cancelled", "recursion_limit"}
         /\ caller' \in Statuses
         /\ steps' \in 0..RecursionLimit
         /\ outcome' = "running" => next' # End
  <1>1. Ran(state, node) \in States
    BY RanTyped DEF TypeOK
  <1>2. Superstep(node) /\ Proceed(Ran(state, node), successor)
    BY DEF Stage
  <1>3. request' \in Requests
    BY <1>2 DEF Superstep, TypeOK
  <1> QED
    BY <1>1, <1>2, <1>3, ProceedTyped DEF Superstep

(* Names of the graph's nodes                                              *)
LEMMA NodeNames ==
  /\ CoreNodes \subseteq Nodes /\ Hooks \subseteq Nodes
  /\ "preprocessing" \in CoreNodes /\ "requirement_analysis" \in CoreNodes
  /\ "epic_generation" \in CoreNodes /\ "feature_generation" \in CoreNodes
  /\ "one_line_story_generation" \in CoreNodes
  /\ "user_story_generation" \in CoreNodes /\ "validation" \in CoreNodes
  /\ "guardrails_hook" \in Hooks /\ "nlp_rag_hook" \in Hooks
  /\ "human_review_hook" \in Hooks
  BY DEF Nodes, CoreNodes, Hooks

(* Whatever a stored state carries into a run, it is a proper state to     *)
(* start from, and has no verdict of this run.                             *)
LEMMA StoredTyped ==
  \A s \in StoredStates : s \in States /\ ~s.verdict.passed
  <1> SUFFICES ASSUME NEW mark \in Marks, NEW count \in StoredCounts, NEW noted \in StoredCounts,
                      NEW reopened \in BOOLEAN
               PROVE  /\ StoredState(mark, count, noted, reopened) \in States
                      /\ ~StoredState(mark, count, noted, reopened).verdict.passed
    BY DEF StoredStates
  <1>1. FreshState("RUNNING") \in States /\ ~FreshState("RUNNING").verdict.passed
    BY DEF NoVerdict, VerdictType, FreshState, States, Statuses, RetryStatuses, ReviewStatuses,
           ApprovalStatuses
  <1>2. count \in Nat /\ noted \in Nat /\ [i \in 1..noted |-> i] \in Seq(Nat)
    BY StoredCountsAssumption
  <1>3. /\ mark.retry \in RetryStatuses /\ mark.review \in ReviewStatuses
        /\ mark.approval \in ApprovalStatuses
    BY DEF Marks, RetryStatuses, ReviewStatuses, ApprovalStatuses
  <1>4. (IF mark.review = "unset" THEN {} ELSE CoreNodes) \in SUBSET Nodes
    BY NodeNames
  <1>5. (reopened \/ mark.review = "PENDING") \in BOOLEAN
    OBVIOUS
  <1> QED
    BY <1>1, <1>2, <1>3, <1>4, <1>5 DEF StoredState, States

(* Every run keeps its variables in shape: the initial states of both      *)
(* entry points are proper states and no superstep leaves them.            *)
THEOREM TypeCorrect == Spec => []TypeOK
  <1>1. Init => TypeOK
    <2> SUFFICES ASSUME Init PROVE TypeOK
      OBVIOUS
    <2>1. request \in Requests
      <3>1. StoredCounts \cup {0} \subseteq Nat
        BY StoredCountsAssumption
      <3>2. /\ request \in [ final : BOOLEAN, max_retry : 0..MaxRetryAttempts, rag : BOOLEAN,
                              guardrails : BOOLEAN, has_file : BOOLEAN,
                              carried : StoredCounts \cup {0}, noted : StoredCounts \cup {0} ]
        BY DEF Init
      <3> QED
        BY <3>1, <3>2 DEF Requests
    <2>2. \A l \in {"PENDING", "RUNNING"} : FreshState(l) \in States
      BY DEF NoVerdict, VerdictType, FreshState, States, Statuses, RetryStatuses, ReviewStatuses, ApprovalStatuses
    <2>3. StoredStates \subseteq States
      BY StoredTyped
    <2>4. state \in States
      BY <2>2, <2>3 DEF Init, StartInit, StoryInit
    <2>5. artifacts \subseteq Artifacts /\ stories \in StoryKinds
      BY DEF Init, StartInit, StoryInit, Artifacts, SuppliedArtifacts, StoryKinds
    <2>6. next \in Nodes /\ next # End
      BY NodeNames DEF End, Init, RouteInitialNode
    <2>7. caller \in Statuses
      BY <2>4 DEF Init, States
    <2> QED
      BY <2>1, <2>4, <2>5, <2>6, <2>7, RecursionAssumption DEF TypeOK, Init
  <1>2. TypeOK /\ [Next]_vars => TypeOK'
    <2> SUFFICES ASSUME TypeOK, [Next]_vars PROVE TypeOK'
      OBVIOUS
    <2> USE NodeNames
    <2>1. CASE Preprocessing
      <3>1. artifacts' \subseteq Artifacts
        BY <2>1 DEF Preprocessing, TypeOK, Artifacts, SuppliedArtifacts
      <3> QED
        BY <2>1, <3>1, StageTyped DEF Preprocessing, TypeOK
    <2>2. CASE GuardrailsHook
      BY <2>2, StageTyped DEF GuardrailsHook, TypeOK
    <2>3. CASE RequirementAnalysis
      <3>1. artifacts' \subseteq Artifacts
        BY <2>3 DEF RequirementAnalysis, TypeOK, Artifacts, SuppliedArtifacts
      <3> QED
        BY <2>3, <3>1, StageTyped DEF RequirementAnalysis, TypeOK
    <2>4. CASE EpicGeneration
      <3>1. artifacts' \subseteq Artifacts
        BY <2>4 DEF EpicGeneration, TypeOK, Artifacts, SuppliedArtifacts
      <3> QED
        BY <2>4, <3>1, StageTyped DEF EpicGeneration, TypeOK
    <2>5. CASE FeatureGeneration
      <3>1. artifacts' \subseteq Artifacts
        BY <2>5 DEF FeatureGeneration, TypeOK, Artifacts, SuppliedArtifacts
      <3> QED
        BY <2>5, <3>1, StageTyped DEF FeatureGeneration, TypeOK
    <2>6. CASE OneLineStoryGeneration
      <3>1. artifacts' \subseteq Artifacts
        BY <2>6 DEF OneLineStoryGeneration, TypeOK, Artifacts, SuppliedArtifacts
      <3> QED
        BY <2>6, <3>1, StageTyped DEF OneLineStoryGeneration, TypeOK
    <2>7. CASE NlpRagHook
      BY <2>7, StageTyped DEF NlpRagHook, TypeOK
    <2>8. CASE UserStoryGeneration
      <3>1. stories' \in StoryKinds /\ generations' \in Nat
        BY <2>8 DEF UserStoryGeneration, TypeOK, StoryKinds, Generations
      <3> QED
        BY <2>8, <3>1, StageTyped DEF UserStoryGeneration, TypeOK
    <2>9. CASE ValidationNode
      <3>1. PICK v \in Verdicts :
              LET s == ValidationTransition(Ran(state, "validation"), v)
              IN  Proceed(s, RouteAfterValidation(s))
        BY <2>9 DEF ValidationNode
      <3>2. ValidationTransition(Ran(state, "validation"), v) \in States
        BY VerdictsTyped, RanTyped, TransitionTyped DEF TypeOK
      <3>3. \A s \in States : RouteAfterValidation(s) \in Nodes \cup {End}
        BY DEF RouteAfterValidation
      <3>4. steps < RecursionLimit /\ steps' = steps + 1 /\ request' = request
        BY <2>9 DEF ValidationNode, Superstep
      <3> QED
        BY <2>9, <3>1, <3>2, <3>3, <3>4, ProceedTyped DEF ValidationNode, TypeOK
    <2>10. CASE HumanReviewHook
      <3> DEFINE ran == Ran(state, "human_review_hook")
                 s == IF ran.review_required /\ ~request.final
                      THEN [ran EXCEPT !.workflow_status = "REVIEW_REQUIRED"] ELSE ran
      <3>1. ran \in States
        BY RanTyped DEF TypeOK
      <3>2. s \in States
        BY <3>1, Labels DEF States
      <3>3. Proceed(s, End) /\ steps < RecursionLimit /\ steps' = steps + 1
            /\ request' = request
        BY <2>10 DEF HumanReviewHook, Superstep
      <3> QED
        BY <2>10, <3>2, <3>3, ProceedTyped DEF HumanReviewHook, TypeOK
    <2>11. CASE NodeRaises
      <3>1. state' \in States
        BY <2>11, Labels DEF NodeRaises, TypeOK, States
      <3>2. caller' \in Statuses
        BY <2>11, <3>1 DEF NodeRaises, CallerSees, TypeOK, States
      <3> QED
        BY <2>11, <3>1, <3>2, RecursionAssumption DEF NodeRaises, TypeOK
    <2>12. CASE Cancelled
      <3>1. state' \in States /\ caller' \in Statuses
        BY <2>12, Labels DEF Cancelled, TypeOK, States, CallerSees
      <3> QED
        BY <2>12, <3>1, RecursionAssumption DEF Cancelled, TypeOK
    <2>13. CASE RecursionExceeded
      BY <2>13 DEF RecursionExceeded, TypeOK
    <2>14. CASE UNCHANGED vars
      BY <2>14 DEF vars, TypeOK
    <2> QED
      BY <2>1, <2>2, <2>3, <2>4, <2>5, <2>6, <2>7, <2>8, <2>9, <2>10, <2>11,
         <2>12, <2>13, <2>14 DEF Next, RunStep
  <1> QED
    BY <1>1, <1>2, PTL DEF Spec

-----------------------------------------------------------------------------

(* A stage without a decision of its own hands on a run as it found it.    *)
LEMMA StageKeepsRun ==
  ASSUME RunInvariant, TypeOK', NEW node \in Nodes,
         NEW successor \in Nodes \ {"human_review_hook"},
         Stage(node, successor)
  PROVE  RunInvariant'
  <1>1. /\ outcome = "running" /\ outcome' = "running" /\ next' = successor
        /\ state' = Ran(state, node) /\ request' = request
    BY DEF Stage, Superstep, Proceed, Nodes, CoreNodes, Hooks, End
  <1>2. /\ state'.verdict = state.verdict
        /\ state'.retry_history = state.retry_history
        /\ state'.retry_count = state.retry_count
    BY <1>1 DEF Ran, RunInvariant, TypeOK, States
  <1> QED
    BY <1>1, <1>2 DEF RunInvariant, ReviewGate, RetryBudget, Larger

(* The three ways in which the validation node leaves the graph running or *)
(* ends it, read off the merged state.                                     *)
LEMMA TransitionOutcome ==
  ASSUME NEW s \in States, NEW v \in VerdictType, request \in Requests,
         NEW t, t = ValidationTransition(s, v)
  PROVE  /\ t.judged /\ t.verdict = v
         /\ t.retry_count \in {s.retry_count, s.retry_count + 1}
         /\ t.retry_count = s.retry_count + 1 => s.retry_count < request.max_retry
         /\ \/ /\ v.passed
               /\ Released(t)
               /\ t.retry_history = s.retry_history
               /\ RouteAfterValidation(t) = End
            \/ /\ ~v.passed
               /\ s.retry_count < request.max_retry
               /\ v.retry_required
               /\ t.retry_count = s.retry_count + 1
               /\ t.retry_history = Append(s.retry_history, s.retry_count + 1)
               /\ RouteAfterValidation(t) = "user_story_generation"
            \/ /\ ~v.passed /\ request.final
               /\ Released(t)
               /\ t.retry_history = s.retry_history
               /\ RouteAfterValidation(t) = End
            \/ /\ ~v.passed /\ ~request.final
               /\ Parked(t)
               /\ t.retry_count = s.retry_count
               /\ t.retry_history = s.retry_history
               /\ RouteAfterValidation(t) = "human_review_hook"
  <1> DEFINE j == Judged(s, v)
  <1>1. s.retry_count \in Nat
    BY DEF States
  <1>2. /\ j.judged /\ j.verdict = v /\ j.retry_history = s.retry_history
        /\ j.retry_count = NodeRetryCount(s, v)
        /\ DOMAIN j = DOMAIN s
    BY DEF Judged, States
  <1>3. /\ NodeRetryCount(s, v) \in {s.retry_count, s.retry_count + 1}
        /\ NodeRetryCount(s, v) = s.retry_count + 1 => s.retry_count < request.max_retry
        /\ ~ShouldRetry(v, s.retry_count, request.max_retry) =>
               NodeRetryCount(s, v) = s.retry_count
    BY <1>1 DEF NodeRetryCount, ShouldRetry
  <1>4. j \in States
    <2>1. NodeRetryCount(s, v) \in Nat
      BY <1>1, <1>3
    <2> QED
      BY <2>1 DEF Judged, States
  <1>5. CASE v.passed
    <2>1. t = StoriesPassed(j)
      BY <1>5 DEF ValidationTransition
    <2>2. /\ t.judged /\ t.verdict = v /\ t.retry_history = s.retry_history
          /\ t.retry_count = NodeRetryCount(s, v) /\ Released(t)
      BY <1>2, <1>4, <2>1 DEF StoriesPassed, States, Released
    <2> QED
      BY <1>3, <1>5, <2>2 DEF RouteAfterValidation
  <1>6. CASE ~v.passed /\ ShouldRetry(v, s.retry_count, request.max_retry)
    <2>1. t = RetryRequested(j, s.retry_count + 1)
      BY <1>6 DEF ValidationTransition
    <2>2. /\ t.judged /\ t.verdict = v /\ t.retry_count = s.retry_count + 1
          /\ t.retry_history = Append(s.retry_history, s.retry_count + 1)
          /\ t.workflow_status = "RETRY_REQUIRED" /\ ~t.review_required
      BY <1>2, <1>4, <2>1 DEF RetryRequested, States
    <2>3. s.retry_count < request.max_retry /\ v.retry_required
      BY <1>6 DEF ShouldRetry
    <2> QED
      BY <1>6, <2>2, <2>3 DEF RouteAfterValidation
  <1>7. CASE ~v.passed /\ ~ShouldRetry(v, s.retry_count, request.max_retry) /\ request.final
    <2>1. t = PassedUnresolved(j)
      BY <1>7 DEF ValidationTransition
    <2>2. /\ t.judged /\ t.verdict = v /\ t.retry_history = s.retry_history
          /\ t.retry_count = s.retry_count /\ Released(t)
      BY <1>2, <1>3, <1>4, <1>7, <2>1 DEF PassedUnresolved, States, Released
    <2> QED
      BY <1>1, <1>7, <2>2 DEF RouteAfterValidation, Released
  <1>8. CASE ~v.passed /\ ~ShouldRetry(v, s.retry_count, request.max_retry) /\ ~request.final
    <2>1. t = SentToReview(j)
      BY <1>8 DEF ValidationTransition
    <2>2. /\ t.judged /\ t.verdict = v /\ t.retry_history = s.retry_history
          /\ t.retry_count = s.retry_count /\ Parked(t)
      BY <1>2, <1>3, <1>4, <1>8, <2>1 DEF SentToReview, States, Parked
    <2> QED
      BY <1>1, <1>8, <2>2 DEF RouteAfterValidation, Parked
  <1> QED
    BY <1>5, <1>6, <1>7, <1>8

(* No run breaks the inductive invariant.                                  *)
THEOREM RunInvariantHolds == Spec => []RunInvariant
  <1>1. Init /\ TypeOK => RunInvariant
    <2> SUFFICES ASSUME Init, TypeOK PROVE RunInvariant
      OBVIOUS
    <2>1. /\ ~state.verdict.passed
          /\ state.retry_count - request.carried = Len(state.retry_history) - request.noted
      <3>1. \A l \in {"PENDING", "RUNNING"} : ~FreshState(l).verdict.passed
        BY DEF FreshState, NoVerdict
      <3>2. state.retry_count \in Nat /\ Len(state.retry_history) \in Nat
        BY DEF TypeOK, States
      <3> QED
        BY <3>1, <3>2, StoredTyped DEF Init, StartInit, StoryInit
    <2>2. state.retry_count <= Larger(request.carried, request.max_retry)
      BY DEF Init, Larger, TypeOK, Requests
    <2>3. next # "human_review_hook"
      BY DEF Init, RouteInitialNode
    <2> QED
      BY <2>1, <2>2, <2>3 DEF Init, RunInvariant, ReviewGate, RetryBudget
  <1>2. RunInvariant /\ TypeOK' /\ [Next]_vars => RunInvariant'
    <2> SUFFICES ASSUME RunInvariant, TypeOK', [Next]_vars PROVE RunInvariant'
      OBVIOUS
    <2>0. TypeOK
      BY DEF RunInvariant
    <2>1. CASE Preprocessing
      BY <2>1, StageKeepsRun DEF Preprocessing, Nodes, CoreNodes, Hooks
    <2>2. CASE GuardrailsHook
      BY <2>2, StageKeepsRun DEF GuardrailsHook, Nodes, CoreNodes, Hooks
    <2>3. CASE RequirementAnalysis
      BY <2>3, StageKeepsRun DEF RequirementAnalysis, Nodes, CoreNodes, Hooks
    <2>4. CASE EpicGeneration
      BY <2>4, StageKeepsRun DEF EpicGeneration, Nodes, CoreNodes, Hooks
    <2>5. CASE FeatureGeneration
      BY <2>5, StageKeepsRun DEF FeatureGeneration, Nodes, CoreNodes, Hooks
    <2>6. CASE OneLineStoryGeneration
      BY <2>6, StageKeepsRun DEF OneLineStoryGeneration, Nodes, CoreNodes, Hooks
    <2>7. CASE NlpRagHook
      BY <2>7, StageKeepsRun DEF NlpRagHook, Nodes, CoreNodes, Hooks
    <2>8. CASE UserStoryGeneration
      BY <2>8, StageKeepsRun DEF UserStoryGeneration, Nodes, CoreNodes, Hooks
    <2>9. CASE ValidationNode
      <3> DEFINE ran == Ran(state, "validation")
      <3>1. PICK v \in Verdicts :
              LET s == ValidationTransition(ran, v)
              IN  Proceed(s, RouteAfterValidation(s))
        BY <2>9 DEF ValidationNode
      <3> DEFINE t == ValidationTransition(ran, v)
      <3>2. v \in VerdictType /\ ran \in States /\ request \in Requests
        BY <2>0, VerdictsTyped, RanTyped, NodeNames DEF TypeOK
      <3>3. /\ state' = t /\ next' = RouteAfterValidation(t) /\ request' = request
            /\ outcome' = IF RouteAfterValidation(t) = End THEN "returned" ELSE "running"
            /\ outcome = "running"
        BY <2>9, <3>1 DEF ValidationNode, Superstep, Proceed
      <3>4. /\ ran.retry_count = state.retry_count
            /\ ran.retry_history = state.retry_history
        BY <2>0 DEF Ran, TypeOK, States
      <3>5. state.retry_count - request.carried = Len(state.retry_history) - request.noted
        BY <3>3 DEF RunInvariant
      <3>6. /\ state.retry_history \in Seq(Nat) /\ state.retry_count \in Nat
            /\ request.max_retry \in Nat /\ request.carried \in Nat /\ request.noted \in Nat
        BY <2>0, MaxRetryAssumption DEF TypeOK, States, Requests
      <3>7. /\ t.judged /\ t.verdict = v
            /\ t.retry_count \in {state.retry_count, state.retry_count + 1}
            /\ t.retry_count = state.retry_count + 1 =>
                   state.retry_count < request.max_retry
        BY <3>2, <3>4, TransitionOutcome
      <3>8. RetryBudget'
        BY <3>3, <3>6, <3>7 DEF RunInvariant, RetryBudget, Larger
      <3>9. CASE RouteAfterValidation(t) = End
        <4>1. IF v.passed \/ request.final THEN Released(t) ELSE Parked(t)
          BY <3>2, <3>9, TransitionOutcome DEF End
        <4> QED
          BY <3>3, <3>7, <3>8, <3>9, <4>1 DEF RunInvariant, ReviewGate, End, Released, Parked
      <3>10. CASE RouteAfterValidation(t) = "user_story_generation"
        <4>1. /\ ~v.passed
              /\ t.retry_count = ran.retry_count + 1
              /\ t.retry_history = Append(ran.retry_history, ran.retry_count + 1)
          BY <3>2, <3>10, TransitionOutcome DEF End
        <4>2. t.retry_count - request.carried = Len(t.retry_history) - request.noted
          <5> HIDE DEF ran, t
          <5>1. /\ t.retry_history = Append(state.retry_history, state.retry_count + 1)
                /\ t.retry_count = state.retry_count + 1
            BY <3>4, <4>1
          <5>2. /\ Len(t.retry_history) = Len(state.retry_history) + 1
                /\ Len(state.retry_history) \in Nat
            BY <3>6, <5>1
          <5> DEFINE l == Len(state.retry_history)
                     a == state.retry_count
          <5>3. a \in Nat /\ l \in Nat /\ a - request.carried = l - request.noted
            BY <3>5, <3>6, <5>2
          <5> HIDE DEF l, a
          <5>4. (a + 1) - request.carried = (l + 1) - request.noted
            BY <3>6, <5>3
          <5> QED
            BY <5>1, <5>2, <5>4 DEF l, a
        <4> QED
          BY <3>3, <3>7, <3>8, <3>10, <4>1, <4>2 DEF RunInvariant, ReviewGate, End
      <3>11. CASE RouteAfterValidation(t) = "human_review_hook"
        <4>1. /\ ~v.passed /\ ~request.final /\ Parked(t)
              /\ t.retry_count = ran.retry_count
              /\ t.retry_history = ran.retry_history
          BY <3>2, <3>11, TransitionOutcome DEF End
        <4> QED
          BY <3>3, <3>4, <3>5, <3>7, <3>8, <3>11, <4>1
          DEF RunInvariant, ReviewGate, End, Parked
      <3> QED
        BY <3>2, <3>9, <3>10, <3>11, TransitionOutcome
    <2>10. CASE HumanReviewHook
      <3> DEFINE ran == Ran(state, "human_review_hook")
                 s == IF ran.review_required /\ ~request.final
                      THEN [ran EXCEPT !.workflow_status = "REVIEW_REQUIRED"] ELSE ran
      <3>1. state' = s /\ outcome' = "returned" /\ request' = request
        BY <2>10 DEF HumanReviewHook, Superstep, Proceed
      <3>2. /\ state.judged /\ ~request.final /\ Parked(state) /\ ~state.verdict.passed
        BY <2>10 DEF HumanReviewHook, Superstep, RunInvariant
      <3>3. /\ ran.review_required = state.review_required
            /\ ran.review_status = state.review_status
            /\ ran.approval_status = state.approval_status
            /\ ran.judged = state.judged /\ ran.verdict = state.verdict
            /\ ran.retry_count = state.retry_count
            /\ ran.workflow_status = "RUNNING"
        BY <2>0 DEF Ran, TypeOK, States
      <3>4. ran \in States
        BY <2>0, RanTyped, NodeNames DEF TypeOK
      <3>5. /\ s.workflow_status = "REVIEW_REQUIRED" /\ s.review_required
            /\ s.review_status = "PENDING" /\ s.approval_status = "PENDING"
            /\ s.judged /\ ~s.verdict.passed /\ s.retry_count = state.retry_count
        BY <3>2, <3>3, <3>4 DEF Parked, States
      <3> QED
        BY <3>1, <3>2, <3>5 DEF RunInvariant, ReviewGate, RetryBudget, Parked
    <2>11. CASE NodeRaises
      BY <2>0, <2>11 DEF NodeRaises, RunInvariant, ReviewGate, RetryBudget, TypeOK, States
    <2>12. CASE Cancelled
      BY <2>0, <2>12 DEF Cancelled, RunInvariant, ReviewGate, RetryBudget, TypeOK, States
    <2>13. CASE RecursionExceeded
      BY <2>13 DEF RecursionExceeded, RunInvariant, ReviewGate, RetryBudget
    <2>14. CASE UNCHANGED vars
      BY <2>14 DEF vars, RunInvariant, ReviewGate, RetryBudget, Parked, Released
    <2> QED
      BY <2>1, <2>2, <2>3, <2>4, <2>5, <2>6, <2>7, <2>8, <2>9, <2>10, <2>11,
         <2>12, <2>13, <2>14 DEF Next, RunStep
  <1> QED
    BY <1>1, <1>2, TypeCorrect, PTL DEF Spec

(* Nobody's stories are released without a passing verdict, except where   *)
(* the request asked for an end-to-end run.                                *)
COROLLARY ReviewGateHolds == Spec => []ReviewGate
  <1>1. RunInvariant => ReviewGate
    BY DEF RunInvariant
  <1> QED
    BY <1>1, RunInvariantHolds, PTL

(* No run spends more retries than its request allows.                     *)
COROLLARY RetryBudgetHolds == Spec => []RetryBudget
  <1>1. RunInvariant => RetryBudget
    BY DEF RunInvariant
  <1> QED
    BY <1>1, RunInvariantHolds, PTL

-----------------------------------------------------------------------------

(* A superstep that leaves the graph running and neither judges nor is     *)
(* about the request is no step of the promise.                            *)
LEMMA StageStutters ==
  ASSUME RunInvariant, NEW node \in Nodes,
         NEW successor \in Nodes \ {"human_review_hook"},
         Stage(node, successor)
  PROVE  UNCHANGED Promise!avars
  <1>1. /\ outcome = "running" /\ outcome' = "running"
        /\ state' = Ran(state, node) /\ request' = request
    BY DEF Stage, Superstep, Proceed, Nodes, CoreNodes, Hooks, End
  <1>2. /\ state'.verdict = state.verdict
        /\ state'.retry_history = state.retry_history
    BY <1>1 DEF Ran, RunInvariant, TypeOK, States
  <1> QED
    BY <1>1, <1>2 DEF Promise!avars, Gate, Phase, RetriesLeft

(* The graph with its nodes, routes and state keeps the promise of         *)
(* PipelineRun: its initial states are initial states there, and each      *)
(* superstep is a step there or none.                                      *)
THEOREM ImplementsPipelineRun == Spec => Promise!RunSpec
  <1>1. Init /\ TypeOK => Promise!RunInit
    <2> SUFFICES ASSUME Init, TypeOK PROVE Promise!RunInit
      OBVIOUS
    <2>1. state.verdict.passed = FALSE
      <3>1. \A l \in {"PENDING", "RUNNING"} : ~FreshState(l).verdict.passed
        BY DEF FreshState, NoVerdict
      <3>2. state.verdict.passed \in BOOLEAN
        BY DEF TypeOK, States, VerdictType
      <3> QED
        BY <3>1, <3>2, StoredTyped DEF Init, StartInit, StoryInit
    <2>2. /\ request.max_retry \in 0..MaxRetryAttempts /\ request.carried \in Nat
          /\ request.noted \in Nat /\ Len(state.retry_history) = request.noted
      BY DEF TypeOK, Requests, Init
    <2>3. RetriesLeft \in 0..MaxRetryAttempts
      BY <2>2, MaxRetryAssumption DEF RetriesLeft, Larger
    <2> QED
      BY <2>1, <2>3 DEF Init, Promise!RunInit, Gate, Phase
  <1>2. RunInvariant /\ RunInvariant' /\ [Next]_vars => [Promise!RunNext]_(Promise!avars)
    <2> SUFFICES ASSUME RunInvariant, RunInvariant', [Next]_vars
                 PROVE  [Promise!RunNext]_(Promise!avars)
      OBVIOUS
    <2>0. TypeOK /\ TypeOK'
      BY DEF RunInvariant
    <2> USE DEF Nodes, CoreNodes, Hooks
    <2>1. CASE Preprocessing
      BY <2>1, StageStutters DEF Preprocessing
    <2>2. CASE GuardrailsHook
      BY <2>2, StageStutters DEF GuardrailsHook
    <2>3. CASE RequirementAnalysis
      BY <2>3, StageStutters DEF RequirementAnalysis
    <2>4. CASE EpicGeneration
      BY <2>4, StageStutters DEF EpicGeneration
    <2>5. CASE FeatureGeneration
      BY <2>5, StageStutters DEF FeatureGeneration
    <2>6. CASE OneLineStoryGeneration
      BY <2>6, StageStutters DEF OneLineStoryGeneration
    <2>7. CASE NlpRagHook
      BY <2>7, StageStutters DEF NlpRagHook
    <2>8. CASE UserStoryGeneration
      BY <2>8, StageStutters DEF UserStoryGeneration
    <2>9. CASE ValidationNode
      <3> DEFINE ran == Ran(state, "validation")
      <3>1. PICK v \in Verdicts :
              LET s == ValidationTransition(ran, v)
              IN  Proceed(s, RouteAfterValidation(s))
        BY <2>9 DEF ValidationNode
      <3> DEFINE t == ValidationTransition(ran, v)
      <3>2. v \in VerdictType /\ ran \in States /\ request \in Requests
        BY <2>0, VerdictsTyped, RanTyped DEF TypeOK
      <3>3. /\ state' = t /\ request' = request /\ outcome = "running"
            /\ outcome' = IF RouteAfterValidation(t) = End THEN "returned" ELSE "running"
        BY <2>9, <3>1 DEF ValidationNode, Superstep, Proceed
      <3>4. /\ ran.retry_count = state.retry_count
            /\ ran.retry_history = state.retry_history
        BY <2>0 DEF Ran, TypeOK, States
      <3>5. /\ ~state.verdict.passed
            /\ state.retry_count - request.carried = Len(state.retry_history) - request.noted
        BY <3>3 DEF RunInvariant
      <3>6. /\ state.retry_history \in Seq(Nat) /\ state.retry_count \in Nat
            /\ request.max_retry \in Nat /\ request.carried \in Nat /\ request.noted \in Nat
            /\ state.verdict.passed \in BOOLEAN /\ v.passed \in BOOLEAN
        BY <2>0, <3>2, MaxRetryAssumption DEF TypeOK, States, Requests, VerdictType
      <3>7. t.verdict = v
        BY <3>2, TransitionOutcome
      <3>8. CASE RouteAfterValidation(t) = End
        <4>1. /\ v.passed \/ request.final
              /\ Released(t)
              /\ t.retry_history = state.retry_history
          BY <3>2, <3>4, <3>8, TransitionOutcome DEF End
        <4>2. Promise!Release
          BY <3>3, <3>6, <3>7, <3>8, <4>1
          DEF Promise!Release, Gate, Phase, RetriesLeft, Released
        <4> QED
          BY <4>2 DEF Promise!RunNext
      <3>9. CASE RouteAfterValidation(t) = "user_story_generation"
        <4>1. /\ ~v.passed /\ state.retry_count < request.max_retry
              /\ t.retry_history = Append(state.retry_history, state.retry_count + 1)
          BY <3>2, <3>4, <3>9, TransitionOutcome DEF End
        <4>2. Len(t.retry_history) = Len(state.retry_history) + 1
          BY <3>6, <4>1
        <4>3. RetriesLeft' = RetriesLeft - 1 /\ RetriesLeft > 0
          <5> DEFINE c == request.carried
                     n == request.noted
                     l == Len(state.retry_history)
          <5>1. /\ RetriesLeft = Larger(0, request.max_retry - c - (l - n))
                /\ RetriesLeft' = Larger(0, request.max_retry - c - ((l + 1) - n))
            BY <3>3, <4>2 DEF RetriesLeft
          <5>2. l \in Nat
            BY <3>6
          <5> HIDE DEF c, n, l
          <5>3. c \in Nat /\ n \in Nat /\ state.retry_count - c = l - n
            BY <3>5, <3>6 DEF c, n, l
          <5> QED
            BY <3>6, <4>1, <5>1, <5>2, <5>3 DEF Larger
        <4>4. outcome' = "running"
          BY <3>3, <3>9 DEF End
        <4>5. state'.verdict.passed = state.verdict.passed
          BY <3>3, <3>5, <3>6, <3>7, <4>1
        <4>6. Promise!Rework
          BY <3>3, <3>5, <4>3, <4>4, <4>5 DEF Promise!Rework, Gate, Phase
        <4> QED
          BY <4>6 DEF Promise!RunNext
      <3>10. CASE RouteAfterValidation(t) = "human_review_hook"
        <4>1. ~v.passed /\ t.retry_history = state.retry_history
          BY <3>2, <3>4, <3>10, TransitionOutcome DEF End
        <4>2. outcome' = "running"
          BY <3>3, <3>10 DEF End
        <4>3. state'.verdict.passed = state.verdict.passed
          BY <3>3, <3>5, <3>6, <3>7, <4>1
        <4> QED
          BY <3>3, <4>1, <4>2, <4>3 DEF Promise!avars, Gate, Phase, RetriesLeft
      <3> QED
        BY <3>2, <3>8, <3>9, <3>10, TransitionOutcome
    <2>10. CASE HumanReviewHook
      <3> DEFINE ran == Ran(state, "human_review_hook")
                 s == IF ran.review_required /\ ~request.final
                      THEN [ran EXCEPT !.workflow_status = "REVIEW_REQUIRED"] ELSE ran
      <3>1. /\ state' = s /\ outcome = "running" /\ outcome' = "returned"
            /\ request' = request
        BY <2>10 DEF HumanReviewHook, Superstep, Proceed
      <3>2. ran \in States /\ ran.workflow_status = "RUNNING"
            /\ ran.verdict = state.verdict /\ ran.retry_history = state.retry_history
        BY <2>0, RanTyped DEF TypeOK, Ran, States
      <3>3. /\ s.verdict = state.verdict /\ s.retry_history = state.retry_history
            /\ s.workflow_status # "COMPLETED"
        BY <3>2 DEF States
      <3>4. ~request.final /\ ~state.verdict.passed
        BY <2>10, <3>1 DEF HumanReviewHook, Superstep, RunInvariant
      <3>5. Promise!Park
        BY <3>1, <3>3, <3>4 DEF Promise!Park, Gate, Phase, RetriesLeft
      <3> QED
        BY <3>5 DEF Promise!RunNext
    <2>11. CASE NodeRaises
      <3>1. /\ outcome = "running" /\ outcome' = "raised" /\ request' = request
            /\ ~state.verdict.passed /\ state'.verdict = state.verdict
            /\ state'.retry_history = state.retry_history
        BY <2>0, <2>11 DEF NodeRaises, RunInvariant, TypeOK, States
      <3>2. Promise!Abort
        BY <3>1 DEF Promise!Abort, Gate, Phase, RetriesLeft
      <3> QED
        BY <3>2 DEF Promise!RunNext
    <2>12. CASE Cancelled
      <3>1. /\ outcome = "running" /\ outcome' = "cancelled" /\ request' = request
            /\ ~state.verdict.passed /\ state'.verdict = state.verdict
            /\ state'.retry_history = state.retry_history
        BY <2>0, <2>12 DEF Cancelled, RunInvariant, TypeOK, States
      <3>2. Promise!Abort
        BY <3>1 DEF Promise!Abort, Gate, Phase, RetriesLeft
      <3> QED
        BY <3>2 DEF Promise!RunNext
    <2>13. CASE RecursionExceeded
      <3>1. /\ outcome = "running" /\ outcome' = "recursion_limit"
            /\ ~state.verdict.passed /\ request' = request /\ state' = state
        BY <2>13 DEF RecursionExceeded, RunInvariant
      <3>2. Promise!Abort
        BY <3>1 DEF Promise!Abort, Gate, Phase, RetriesLeft
      <3> QED
        BY <3>2 DEF Promise!RunNext
    <2>14. CASE UNCHANGED vars
      BY <2>14 DEF vars, Promise!avars, Gate, Phase, RetriesLeft
    <2> QED
      BY <2>1, <2>2, <2>3, <2>4, <2>5, <2>6, <2>7, <2>8, <2>9, <2>10, <2>11,
         <2>12, <2>13, <2>14 DEF Next, RunStep
  <1> QED
    BY <1>1, <1>2, TypeCorrect, RunInvariantHolds, PTL DEF Spec, Promise!RunSpec


-----------------------------------------------------------------------------

(* The supersteps that may have been spent when a node is next, in a run   *)
(* without retries.  Each retry adds two.                                  *)
StepsBefore(node) ==
  CASE node = "preprocessing"             -> 0
    [] node = "guardrails_hook"           -> 1
    [] node = "requirement_analysis"      -> 2
    [] node = "epic_generation"           -> 3
    [] node = "feature_generation"        -> 4
    [] node = "one_line_story_generation" -> 5
    [] node = "nlp_rag_hook"              -> 6
    [] node = "user_story_generation"     -> 7
    [] node = "validation"                -> 8
    [] node = "human_review_hook"         -> 9

(* The inductive invariant behind NeverCutShort: supersteps are paid for   *)
(* by the place of the next node and by the retries of this run.           *)
StepInvariant ==
  /\ NeverCutShort
  /\ outcome = "running" =>
         /\ request.carried <= state.retry_count
         /\ steps <= StepsBefore(next) + 2 * (state.retry_count - request.carried)

LEMMA StepsBeforeNodes == \A node \in Nodes : StepsBefore(node) \in 0..9
  BY DEF StepsBefore, Nodes, CoreNodes, Hooks

(* A stage without a decision takes the one superstep it is allowed.       *)
LEMMA StageSpends ==
  ASSUME RunInvariant, StepInvariant, NEW node \in Nodes, NEW successor \in Nodes,
         StepsBefore(node) + 1 <= StepsBefore(successor), Stage(node, successor)
  PROVE  StepInvariant'
  <1>1. /\ outcome = "running" /\ outcome' = "running" /\ next' = successor /\ next = node
        /\ state' = Ran(state, node) /\ request' = request /\ steps' = steps + 1
    BY DEF Stage, Superstep, Proceed, Nodes, CoreNodes, Hooks, End
  <1>2. state'.retry_count = state.retry_count
    BY <1>1 DEF Ran, RunInvariant, TypeOK, States
  <1>3. /\ state.retry_count \in Nat /\ request.carried \in Nat /\ steps \in Nat
        /\ StepsBefore(node) \in Nat /\ StepsBefore(successor) \in Nat
    <2>1. steps \in 0..RecursionLimit /\ 0..RecursionLimit \subseteq Nat /\ 0..9 \subseteq Nat
      BY RecursionAssumption DEF RunInvariant, TypeOK
    <2>2. state.retry_count \in Nat /\ request.carried \in Nat
      BY DEF RunInvariant, TypeOK, States, Requests
    <2>3. StepsBefore(node) \in 0..9 /\ StepsBefore(successor) \in 0..9
      BY StepsBeforeNodes
    <2> QED
      BY <2>1, <2>2, <2>3
  <1>4. request.carried <= state.retry_count
        /\ steps <= StepsBefore(node) + 2 * (state.retry_count - request.carried)
    BY <1>1 DEF StepInvariant
  <1>5. steps + 1 <= StepsBefore(successor) + 2 * (state.retry_count - request.carried)
    BY <1>3, <1>4
  <1> QED
    BY <1>1, <1>2, <1>4, <1>5 DEF StepInvariant, NeverCutShort, HasRoom

(* While the graph runs there is a superstep left, if there is room for    *)
(* the retries of the request.                                             *)
LEMMA RoomLeft ==
  ASSUME RunInvariant, StepInvariant, outcome = "running",
         10 + 2 * request.max_retry <= RecursionLimit
  PROVE  steps < RecursionLimit
  <1> DEFINE count   == state.retry_count
             carried == request.carried
             allowed == request.max_retry
             before  == StepsBefore(next)
  <1>1. /\ count \in Nat /\ carried \in Nat /\ allowed \in Nat
        /\ RecursionLimit \in Nat /\ steps \in Nat
    <2>1. 0..MaxRetryAttempts \subseteq Nat /\ 0..RecursionLimit \subseteq Nat
      BY MaxRetryAssumption, RecursionAssumption
    <2> QED
      BY <2>1, RecursionAssumption DEF RunInvariant, TypeOK, States, Requests
  <1>2. before \in 0..9
    BY StepsBeforeNodes DEF RunInvariant, TypeOK
  <1>3. carried <= count /\ steps <= before + 2 * (count - carried)
    BY DEF StepInvariant
  <1>4. count <= carried \/ count <= allowed
    BY <1>1 DEF RunInvariant, RetryBudget, Larger
  <1>5. 10 + 2 * allowed <= RecursionLimit
    OBVIOUS
  <1> HIDE DEF count, carried, allowed, before
  <1> QED
    BY <1>1, <1>2, <1>3, <1>4, <1>5

LEMMA StepInvariantHolds == Spec => []StepInvariant
  <1>1. Init /\ TypeOK => StepInvariant
    <2> SUFFICES ASSUME Init, TypeOK PROVE StepInvariant
      OBVIOUS
    <2>1. state.retry_count \in Nat /\ request.carried = state.retry_count /\ steps = 0 /\ outcome = "running"
      BY DEF Init, TypeOK, States
    <2>2. StepsBefore(next) \in 0..9
      <3>1. next \in Nodes
        BY DEF Init, RouteInitialNode, Nodes, CoreNodes
      <3> QED
        BY <3>1, StepsBeforeNodes
    <2>3. /\ request.carried <= state.retry_count
          /\ steps <= StepsBefore(next) + 2 * (state.retry_count - request.carried)
      BY <2>1, <2>2
    <2> QED
      BY <2>1, <2>3 DEF StepInvariant, NeverCutShort, HasRoom
  <1>2. RunInvariant /\ StepInvariant /\ [Next]_vars => StepInvariant'
    <2> SUFFICES ASSUME RunInvariant, StepInvariant, [Next]_vars PROVE StepInvariant'
      OBVIOUS
    <2>0. TypeOK
      BY DEF RunInvariant
    <2>s. /\ CoreNodes \subseteq Nodes /\ Hooks \subseteq Nodes
          /\ StepsBefore("preprocessing") + 1 <= StepsBefore("guardrails_hook")
          /\ StepsBefore("preprocessing") + 1 <= StepsBefore("requirement_analysis")
          /\ StepsBefore("guardrails_hook") + 1 <= StepsBefore("requirement_analysis")
          /\ StepsBefore("requirement_analysis") + 1 <= StepsBefore("epic_generation")
          /\ StepsBefore("epic_generation") + 1 <= StepsBefore("feature_generation")
          /\ StepsBefore("feature_generation") + 1 <= StepsBefore("one_line_story_generation")
          /\ StepsBefore("one_line_story_generation") + 1 <= StepsBefore("nlp_rag_hook")
          /\ StepsBefore("one_line_story_generation") + 1 <= StepsBefore("user_story_generation")
          /\ StepsBefore("nlp_rag_hook") + 1 <= StepsBefore("user_story_generation")
          /\ StepsBefore("user_story_generation") + 1 <= StepsBefore("validation")
      BY NodeNames DEF StepsBefore
    <2>1. CASE Preprocessing
      <3>1. PICK successor \in {"guardrails_hook", "requirement_analysis"} : Stage("preprocessing", successor)
        BY <2>1 DEF Preprocessing
      <3> QED
        BY <3>1, <2>s, NodeNames, StageSpends
    <2>2. CASE GuardrailsHook
      BY <2>2, <2>s, NodeNames, StageSpends DEF GuardrailsHook
    <2>3. CASE RequirementAnalysis
      BY <2>3, <2>s, NodeNames, StageSpends DEF RequirementAnalysis
    <2>4. CASE EpicGeneration
      BY <2>4, <2>s, NodeNames, StageSpends DEF EpicGeneration
    <2>5. CASE FeatureGeneration
      BY <2>5, <2>s, NodeNames, StageSpends DEF FeatureGeneration
    <2>6. CASE OneLineStoryGeneration
      <3>1. PICK successor \in {"nlp_rag_hook", "user_story_generation"} :
              Stage("one_line_story_generation", successor)
        BY <2>6 DEF OneLineStoryGeneration
      <3> QED
        BY <3>1, <2>s, NodeNames, StageSpends
    <2>7. CASE NlpRagHook
      BY <2>7, <2>s, NodeNames, StageSpends DEF NlpRagHook
    <2>8. CASE UserStoryGeneration
      BY <2>8, <2>s, NodeNames, StageSpends DEF UserStoryGeneration
    <2>9. CASE ValidationNode
      <3> DEFINE ran == Ran(state, "validation")
      <3>1. PICK v \in Verdicts :
              LET s == ValidationTransition(ran, v)
              IN  Proceed(s, RouteAfterValidation(s))
        BY <2>9 DEF ValidationNode
      <3>2. PICK t : t = ValidationTransition(ran, v)
        OBVIOUS
      <3>3. v \in VerdictType /\ ran \in States /\ request \in Requests
        BY <2>0, VerdictsTyped, RanTyped, NodeNames DEF TypeOK
      <3>4. /\ state' = t /\ next' = RouteAfterValidation(t) /\ request' = request /\ steps' = steps + 1
            /\ outcome' = (IF RouteAfterValidation(t) = End THEN "returned" ELSE "running")
            /\ outcome = "running" /\ next = "validation"
        BY <2>9, <3>1, <3>2 DEF ValidationNode, Superstep, Proceed
      <3>5. ran.retry_count = state.retry_count
        BY <2>0 DEF Ran, TypeOK, States
      <3>6. /\ state.retry_count \in Nat /\ request.carried \in Nat /\ steps \in Nat
        <4>1. steps \in Nat
          BY <2>0, RecursionAssumption DEF TypeOK
        <4> QED
          BY <2>0, <4>1 DEF TypeOK, States, Requests
      <3>7. /\ request.carried <= state.retry_count
            /\ steps <= 8 + 2 * (state.retry_count - request.carried)
        BY <3>4 DEF StepInvariant, StepsBefore
      <3>8. CASE RouteAfterValidation(t) = End
        BY <3>4, <3>8 DEF StepInvariant, NeverCutShort, HasRoom
      <3>9. CASE RouteAfterValidation(t) = "user_story_generation"
        <4>1. t.retry_count = state.retry_count + 1
          BY <3>2, <3>3, <3>5, <3>9, TransitionOutcome DEF End
        <4>2. StepsBefore("user_story_generation") = 7
          BY DEF StepsBefore
        <4>3. /\ request.carried <= t.retry_count
              /\ steps + 1 <= 7 + 2 * (t.retry_count - request.carried)
          BY <3>6, <3>7, <4>1
        <4> QED
          BY <3>4, <3>9, <4>2, <4>3 DEF StepInvariant, NeverCutShort, HasRoom, End
      <3>10. CASE RouteAfterValidation(t) = "human_review_hook"
        <4>1. t.retry_count = state.retry_count
          BY <3>2, <3>3, <3>5, <3>10, TransitionOutcome DEF End
        <4>2. StepsBefore("human_review_hook") = 9
          BY DEF StepsBefore
        <4>3. /\ request.carried <= t.retry_count
              /\ steps + 1 <= 9 + 2 * (t.retry_count - request.carried)
          BY <3>6, <3>7, <4>1
        <4> QED
          BY <3>4, <3>10, <4>2, <4>3 DEF StepInvariant, NeverCutShort, HasRoom, End
      <3> QED
        BY <3>2, <3>3, <3>8, <3>9, <3>10, TransitionOutcome
    <2>10. CASE HumanReviewHook
      <3>1. outcome' = "returned"
        BY <2>10 DEF HumanReviewHook, Superstep, Proceed
      <3> QED
        BY <3>1 DEF StepInvariant, NeverCutShort, HasRoom
    <2>11. CASE NodeRaises \/ Cancelled
      <3>1. outcome' \in {"raised", "cancelled"}
        BY <2>11 DEF NodeRaises, Cancelled
      <3> QED
        BY <3>1 DEF StepInvariant, NeverCutShort, HasRoom
    <2>13. CASE RecursionExceeded
      <3>1. /\ outcome = "running" /\ outcome' = "recursion_limit" /\ request' = request
            /\ steps >= RecursionLimit
        BY <2>13 DEF RecursionExceeded
      <3>2. steps \in Nat /\ RecursionLimit \in Nat
        BY <2>0, RecursionAssumption DEF TypeOK
      <3>3. ~(10 + 2 * request.max_retry <= RecursionLimit)
        BY <3>1, <3>2, RoomLeft
      <3> QED
        BY <3>1, <3>3 DEF StepInvariant, NeverCutShort, HasRoom
    <2>14. CASE UNCHANGED vars
      BY <2>14 DEF vars, StepInvariant, NeverCutShort, HasRoom
    <2> QED
      BY <2>1, <2>2, <2>3, <2>4, <2>5, <2>6, <2>7, <2>8, <2>9, <2>10, <2>11,
         <2>13, <2>14 DEF Next, RunStep
  <1> QED
    BY <1>1, <1>2, TypeCorrect, RunInvariantHolds, PTL DEF Spec

(* A run is never cut short by a limit that leaves room for its stages and *)
(* its retries, whatever both are.                                         *)
THEOREM NeverCutShortHolds == Spec => []NeverCutShort
  <1>1. StepInvariant => NeverCutShort
    BY DEF StepInvariant
  <1> QED
    BY <1>1, StepInvariantHolds, PTL

(* The step of a loop, as LoopsAreCounted has it                           *)
CountedLoop ==
  next = "validation" /\ next' = "user_story_generation" =>
      /\ ~state'.verdict.passed /\ state'.verdict.retry_required
      /\ state.retry_count < request.max_retry
      /\ Len(state'.retry_history) = Len(state.retry_history) + 1

(* Every loop back from validation was asked for, is within the budget of  *)
(* the request and is recorded once.                                       *)
THEOREM LoopsAreCountedAlways == Spec => LoopsAreCounted
  <1>1. RunInvariant /\ [Next]_vars => [CountedLoop]_vars
    <2> SUFFICES ASSUME RunInvariant, [Next]_vars, next = "validation", next' = "user_story_generation"
                 PROVE  /\ ~state'.verdict.passed /\ state'.verdict.retry_required
                        /\ state.retry_count < request.max_retry
                        /\ Len(state'.retry_history) = Len(state.retry_history) + 1
      BY DEF CountedLoop
    <2>0. TypeOK
      BY DEF RunInvariant
    <2>1. ValidationNode
      <3>1. ~(\/ Preprocessing \/ GuardrailsHook \/ RequirementAnalysis \/ EpicGeneration
              \/ FeatureGeneration \/ OneLineStoryGeneration \/ NlpRagHook \/ UserStoryGeneration
              \/ HumanReviewHook)
        BY DEF Preprocessing, GuardrailsHook, RequirementAnalysis, EpicGeneration, FeatureGeneration,
               OneLineStoryGeneration, NlpRagHook, UserStoryGeneration, HumanReviewHook, Stage, Superstep
      <3>2. ~(NodeRaises \/ RecursionExceeded \/ Cancelled \/ UNCHANGED vars)
        BY DEF NodeRaises, RecursionExceeded, Cancelled, vars
      <3> QED
        BY <3>1, <3>2 DEF Next, RunStep
    <2> DEFINE ran == Ran(state, "validation")
    <2>2. PICK v \in Verdicts :
            LET s == ValidationTransition(ran, v)
            IN  Proceed(s, RouteAfterValidation(s))
      BY <2>1 DEF ValidationNode
    <2>3. PICK t : t = ValidationTransition(ran, v)
      OBVIOUS
    <2>4. v \in VerdictType /\ ran \in States /\ request \in Requests
      BY <2>0, VerdictsTyped, RanTyped, NodeNames DEF TypeOK
    <2>5. state' = t /\ RouteAfterValidation(t) = "user_story_generation"
      BY <2>2, <2>3 DEF Proceed
    <2>6. /\ ran.retry_count = state.retry_count /\ ran.retry_history = state.retry_history
          /\ state.retry_history \in Seq(Nat) /\ state.retry_count \in Nat
      BY <2>0 DEF Ran, TypeOK, States
    <2>7. /\ ~v.passed /\ v.retry_required /\ t.verdict = v /\ ran.retry_count < request.max_retry
          /\ t.retry_history = Append(ran.retry_history, ran.retry_count + 1)
      BY <2>3, <2>4, <2>5, TransitionOutcome DEF End
    <2>8. Len(t.retry_history) = Len(state.retry_history) + 1
      BY <2>6, <2>7
    <2> QED
      BY <2>5, <2>6, <2>7, <2>8
  <1>2. LoopsAreCounted <=> [][CountedLoop]_vars
    BY DEF LoopsAreCounted, CountedLoop
  <1> QED
    BY <1>1, <1>2, RunInvariantHolds, PTL DEF Spec

===============================================================================
