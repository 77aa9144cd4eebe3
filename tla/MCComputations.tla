----------------------------- MODULE MCComputations -----------------------------
(***************************************************************************)
(* Four computations that share nothing and keep nothing: the verdict of   *)
(* Agent 4, the batches of Agent 3, the chunks of a document and the       *)
(* ranking of what a search found.  A behaviour looks at one of them and   *)
(* leaves the others at a state where they have nothing to do.             *)
(***************************************************************************)
EXTENDS Assessing, StoryBatching, Chunking, RankFusion

VARIABLE turn

computationVars == <<assessment, batchingVars, chunkVars, fusionVars, turn>>

AssessRest == assessment = [stories |-> Stories, issues |-> {}, weak |-> {}, exhausted |-> {}]
BatchingRest ==
    /\ limit = CHOOSE l \in Limits : TRUE
    /\ packs = <<[source |-> 1, cost |-> CHOOSE c \in Costs : TRUE]>>
    /\ stories = <<[pack |-> 1, failed |-> FALSE]>>
    /\ built = 1 /\ todo = << >> /\ cache = [b \in Batch |-> None]
    /\ retries = 0 /\ sent = {} /\ asks = 0 /\ doubled = FALSE
ChunkRest ==
    /\ text = << >> /\ next = 1 /\ read = 0 /\ current = NoPiece
    /\ pieces = << >> /\ index = 0 /\ chunks = << >>
FusionRest ==
    /\ endpoint = "search" /\ sparse = << >> /\ dense = << >> /\ fused = << >> /\ top = << >>
    /\ support = {} /\ stage = "done"

Assesses == turn = "assess" /\ AddIssue /\ UNCHANGED <<batchingVars, chunkVars, fusionVars, turn>>
AddsPack == turn = "batch" /\ AddPack /\ UNCHANGED <<assessment, chunkVars, fusionVars, turn>>
Executes(b) == turn = "batch" /\ Execute(b) /\ UNCHANGED <<assessment, chunkVars, fusionVars, turn>>
RunsAgain == turn = "batch" /\ Retry /\ UNCHANGED <<assessment, chunkVars, fusionVars, turn>>
Chunks == turn = "chunk" /\ ChunkNext /\ UNCHANGED <<assessment, batchingVars, fusionVars, turn>>
Ranks == turn = "rank" /\ FusionNext /\ UNCHANGED <<assessment, batchingVars, chunkVars, turn>>

ComputationsInit ==
    \/ turn = "assess" /\ AssessInit /\ BatchingRest /\ ChunkRest /\ FusionRest
    \/ turn = "batch" /\ AssessRest /\ BatchingInit /\ ChunkRest /\ FusionRest
    \/ turn = "chunk" /\ AssessRest /\ BatchingRest /\ ChunkInit /\ FusionRest
    \/ turn = "rank" /\ AssessRest /\ BatchingRest /\ ChunkRest /\ FusionInit

ComputationsNext == Assesses \/ AddsPack \/ (\E b \in Batch : Executes(b)) \/ RunsAgain \/ Chunks \/ Ranks

\* The fairness of the modules
ComputationsSpec ==
    /\ ComputationsInit /\ [][ComputationsNext]_computationVars
    /\ WF_computationVars(AddsPack) /\ WF_computationVars(\E b \in Batch : Executes(b))
    /\ WF_computationVars(Chunks)
    /\ WF_computationVars(Ranks)

\* Requirement codes as texts: "FR-1" is part of "FR-12", and an extracted kind of the code.
Kind(code) == IF code = "NFR-1" THEN "NFR" ELSE "FR"
Occurs(part, code) ==
    \/ part = code
    \/ part = "FR"
    \/ part = "FR-1" /\ code \in {"FR-12", "NFR-1"}
    \/ part = "NFR" /\ code = "NFR-1"
=============================================================================
