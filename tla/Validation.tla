------------------------------ MODULE Validation ------------------------------
(***************************************************************************)
(* Agent 4's verdict on a set of generated stories, and the retry policy   *)
(* that reads it: UserStoryValidator.validate, _build_story_results,       *)
(* _regeneration_target (backend/app/validations/story_validator.py) and   *)
(* RetryService.should_retry (backend/app/regeneration/retry_service.py).  *)
(*                                                                         *)
(* The text checks that raise issues are external to this module: an       *)
(* assessment is any set of issues together with the stories whose         *)
(* confidence score is below the threshold.  A story's score is lowered by *)
(* story points, short descriptions or the per-id variation as well as by  *)
(* its issues, so a story may be weak without any issue naming it          *)
(* (confidence_service.py, calculate_story).                               *)
(***************************************************************************)
EXTENDS Integers, FiniteSets

CONSTANT Stories    \* ids of the stories under validation

NoStory == "no story"      \* ValidationIssue.story_id = None

(* Categories that _regeneration_target tells apart.  "Planning": Halluci- *)
(* nation Detection and Business Rules; "Source": Coverage, Traceability;  *)
(* "Chunk": Retrieved Chunk Evidence; "Local": every category that is not  *)
(* an upstream one.                                                        *)
UpstreamCategories == {"Planning", "Source", "Chunk"}
Categories == UpstreamCategories \cup {"Local"}

Issues == [category : Categories, story : Stories \cup {NoStory}]

(* story.retry_attempts >= 3: the story has used up its own retries.       *)
Assessments ==
    [ stories   : SUBSET Stories,      \* generated_user_stories
      issues    : SUBSET Issues,
      weak      : SUBSET Stories,      \* confidence_score < threshold
      exhausted : SUBSET Stories ]     \* retry_attempts >= 3

FailedStories(a) ==
    { s \in a.stories : s \in a.weak \/ \E i \in a.issues : i.story = s }

HasCategory(a, c) == \E i \in a.issues : i.category = c

(* A fault: the planning issues are looked at before the exhausted stories. *)
RegenerationTarget_PlanningFirst(a) ==
    IF FailedStories(a) = {} /\ ~ \E c \in UpstreamCategories : HasCategory(a, c)
    THEN "NONE"
    ELSE IF HasCategory(a, "Planning")             THEN "AGENT_2_PLANNING"
    ELSE IF FailedStories(a) \cap a.exhausted # {} THEN "HUMAN_REVIEW"
    ELSE IF HasCategory(a, "Source")               THEN "AGENT_1_REQUIREMENT_ANALYSIS"
    ELSE "AGENT_3_USER_STORY"

RegenerationTarget(a) ==
    IF FailedStories(a) = {} /\ ~ \E c \in UpstreamCategories : HasCategory(a, c)
    THEN "NONE"
    ELSE IF FailedStories(a) \cap a.exhausted # {} THEN "HUMAN_REVIEW"
    ELSE IF HasCategory(a, "Planning")             THEN "AGENT_2_PLANNING"
    ELSE IF HasCategory(a, "Source")               THEN "AGENT_1_REQUIREMENT_ANALYSIS"
    ELSE "AGENT_3_USER_STORY"

AgentTargets == { "AGENT_1_REQUIREMENT_ANALYSIS", "AGENT_2_PLANNING",
                  "AGENT_3_USER_STORY" }

(* With no issue every criterion has its full score, so the aggregate      *)
(* confidence is 1 and meets any threshold in [0, 1].                      *)
Passed(a) == a.issues = {}

Verdict(a) ==
    [ passed          |-> Passed(a),
      retry_required  |-> RegenerationTarget(a) \in AgentTargets,
      review_required |-> RegenerationTarget(a) = "HUMAN_REVIEW" ]

(* No story at all is itself an issue ("At least one user story is         *)
(* required."), and issues name a story of the assessment or none.         *)
WellFormed(a) ==
    /\ a.stories = {} => a.issues # {}
    /\ \A i \in a.issues : i.story \in a.stories \cup {NoStory}
    /\ a.weak \subseteq a.stories
    /\ a.exhausted \subseteq a.stories

VerdictsOn(stories) ==
    { Verdict(a) : a \in { b \in Assessments : b.stories = stories /\ WellFormed(b) } }

VerdictType == [passed : BOOLEAN, retry_required : BOOLEAN, review_required : BOOLEAN]

(* A fault: no bound. *)
ShouldRetry_Unbounded(verdict, retryAttempt, maxAttempts) ==
    verdict.retry_required

ShouldRetry(verdict, retryAttempt, maxAttempts) ==
    verdict.retry_required /\ retryAttempt < maxAttempts

(* The verdicts an assessment can lead to, in closed form: Verdict leads to  *)
(* no other (Computations_proofs).  Only an upstream issue or a              *)
(* failed story asks for a retry, and only a failed story for a review.      *)
FeasibleVerdicts(hasStories, hasFailedStory) ==
    { v \in VerdictType :
        /\ ~(v.retry_required /\ v.review_required)
        /\ ~hasStories => ~v.passed /\ ~v.review_required
        /\ hasFailedStory => v.retry_required \/ v.review_required }

=============================================================================
