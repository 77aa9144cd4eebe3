------------------------------ MODULE Assessing ------------------------------
(***************************************************************************)
(* UserStoryValidator.validate as a process: the issues Agent 4 got from   *)
(* the LLM and the independent checks are there first (extra_issues), each *)
(* check then adds its own, and the verdict is read off what has           *)
(* accumulated.  Every prefix is itself the assessment some other set of   *)
(* checks would have ended with, so the properties compare verdicts.       *)
(***************************************************************************)
EXTENDS Validation

VARIABLE assessment

AssessInit ==
    /\ assessment \in Assessments
    /\ assessment.issues \subseteq [category : {"Planning", "Local"}, story : {NoStory}]
    /\ WellFormed(assessment)

(* One more issue, about a story of the assessment or about none           *)
AddIssue ==
    \E c \in Categories, s \in assessment.stories \cup {NoStory} :
        /\ [category |-> c, story |-> s] \notin assessment.issues
        /\ assessment' = [assessment EXCEPT !.issues = @ \cup {[category |-> c, story |-> s]}]

AssessSpec == AssessInit /\ [][AddIssue]_assessment

Severity(v) ==
    CASE v.review_required                     -> 2
      [] v.retry_required /\ ~v.review_required -> 1
      [] OTHER                                 -> 0

-----------------------------------------------------------------------------

(* Finding one more problem never relaxes the verdict: what was to be      *)
(* retried or reviewed still is, and what did not pass does not pass.      *)
MoreIssuesNeverRelax ==
    [][ /\ Severity(Verdict(assessment')) >= Severity(Verdict(assessment))
        /\ Verdict(assessment').passed => Verdict(assessment).passed ]_assessment
=============================================================================
