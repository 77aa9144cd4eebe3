----------------------------- MODULE PipelineRun -----------------------------
(***************************************************************************)
(* What one run of the pipeline promises whoever started it, apart from    *)
(* nodes, edges and the state dictionary: stories are reworked at most as  *)
(* often as the budget allows, and the run then releases its stories,      *)
(* parks them for a human, or is aborted without a result.  Unaccepted     *)
(* stories are released only where no human gate was asked for.            *)
(***************************************************************************)
EXTENDS Integers

CONSTANT MaxRetryAttempts

VARIABLES
    gate,         \* "human", or "none" for an end-to-end run
    phase,        \* "working", "released", "parked" or "aborted"
    retriesLeft,  \* rounds of rework the run may still ask for
    accepted      \* the last judgement accepted the stories

avars == <<gate, phase, retriesLeft, accepted>>

RunInit ==
    /\ gate \in {"human", "none"}
    /\ phase = "working"
    /\ retriesLeft \in 0..MaxRetryAttempts
    /\ accepted = FALSE

Rework ==
    /\ phase = "working" /\ ~accepted
    /\ retriesLeft > 0
    /\ retriesLeft' = retriesLeft - 1
    /\ UNCHANGED <<gate, phase, accepted>>

Release ==
    /\ phase = "working"
    /\ phase' = "released"
    /\ accepted' \in BOOLEAN
    /\ accepted' \/ gate = "none"
    /\ UNCHANGED <<gate, retriesLeft>>

Park ==
    /\ phase = "working" /\ ~accepted
    /\ gate = "human"
    /\ phase' = "parked"
    /\ UNCHANGED <<gate, retriesLeft, accepted>>

Abort ==
    /\ phase = "working" /\ ~accepted
    /\ phase' = "aborted"
    /\ UNCHANGED <<gate, retriesLeft, accepted>>

RunNext == Rework \/ Release \/ Park \/ Abort

RunSpec == RunInit /\ [][RunNext]_avars

FairRunSpec == RunSpec /\ WF_avars(RunNext)
=============================================================================
