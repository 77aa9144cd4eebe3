------------------------------- MODULE RankFusion -------------------------------
(***************************************************************************)
(* What one request to /api/rag/search, /context or /traceability does     *)
(* with what it finds: the two arms of HybridRetrievalService report in    *)
(* either order or fail, RRFService fuses their lists, RerankerService     *)
(* orders the best again or falls back to the fused order, and             *)
(* ContextBuilder lists the requirements the passages support.  A passage  *)
(* is a model value; its text is the set of requirement codes it mentions, *)
(* chosen when it is read.  Dependencies and business rules, which are     *)
(* collected passage by passage in the same way, are left out.             *)
(***************************************************************************)
EXTENDS Integers, FiniteSets, SequencesExt

CONSTANTS
    Passages,           \* chunks that may be found
    Codes,              \* requirement codes that passages and requests name
    KindOf(_),          \* the letters of a code: "FR" of "FR-1"
    OccursIn(_, _),     \* is the first text part of the second?
    K,                  \* rrf_k
    TopK,               \* bm25_top_k and dense_top_k
    CandidateCount,     \* reranker_candidates; top_k * 2 in /traceability
    FinalCount,         \* reranker_final; top_k in /traceability
    Awaited             \* an arm has not reported

ASSUME FusionAssumption ==
    /\ \A n \in {K, TopK, CandidateCount, FinalCount} : n \in Nat \ {0}
    /\ Awaited \notin Seq(Passages)

VARIABLES
    endpoint,   \* where the request came in
    sparse,     \* results of the BM25 arm
    dense,      \* results of the dense arm
    fused,      \* the ranking of both
    top,        \* the passages of the answer
    support,    \* the requirements of the package: [id, source]
    stage

fusionVars == <<endpoint, sparse, dense, fused, top, support, stage>>

\* Each passage is found once, by its chunk_id.
Rankings == {s \in UNION {[1..n -> Passages] : n \in 0..TopK} : IsInjective(s)}

FusionInit ==
    /\ endpoint \in {"search", "context", "traceability"}
    /\ sparse = Awaited /\ dense = Awaited
    /\ fused = << >> /\ top = << >> /\ support = {}
    /\ stage = "retrieve"

-----------------------------------------------------------------------------
\* _timed_bm25, _timed_dense: an arm that fails has found nothing.
SparseReports ==
    /\ sparse = Awaited
    /\ sparse' \in Rankings
    /\ UNCHANGED <<endpoint, dense, fused, top, support, stage>>

DenseReports ==
    /\ dense = Awaited
    /\ dense' \in Rankings
    /\ UNCHANGED <<endpoint, sparse, fused, top, support, stage>>

RankIn(list, p) == SelectInSeq(list, LAMBDA q : q = p)      \* 0: not found

\* The product of all K + rank: 1 / (K + rank), counted in parts of it, is a whole number.
Whole == FoldFunction(LAMBDA a, b : a * b, 1, [r \in 1..TopK |-> K + r])
Share(list, p) == IF RankIn(list, p) = 0 THEN 0 ELSE Whole \div (K + RankIn(list, p))
Score_BestArmOnly(p) ==
    IF Share(sparse, p) > Share(dense, p) THEN Share(sparse, p) ELSE Share(dense, p)
Score(p) == Share(sparse, p) + Share(dense, p)

RanksAhead(list, p, q) == RankIn(list, p) > 0 /\ (RankIn(list, q) = 0 \/ RankIn(list, p) < RankIn(list, q))

\* The keys of rrf_scores in the order of insertion, which the stable sort keeps among equals.
Found == ToSet(sparse) \cup ToSet(dense)
InsertedBefore(p, q) ==
    \/ RanksAhead(sparse, p, q)
    \/ RankIn(sparse, q) = 0 /\ RanksAhead(dense, p, q)
Precedes(p, q) ==
    \/ Score(p) > Score(q)
    \/ Score(p) = Score(q) /\ InsertedBefore(p, q)
Ranking == CHOOSE s \in SetToSeqs(Found) : \A i, j \in DOMAIN s : i < j => Precedes(s[i], s[j])

First(s, n) == SubSeq(s, 1, IF n < Len(s) THEN n ELSE Len(s))

\* gather waits for both arms.  /search keeps all and is done.
Fuse ==
    /\ stage = "retrieve" /\ sparse # Awaited /\ dense # Awaited
    /\ IF endpoint = "search"
       THEN fused' = Ranking /\ top' = Ranking /\ stage' = "done"
       ELSE fused' = First(Ranking, CandidateCount) /\ UNCHANGED top /\ stage' = "rerank"
    /\ UNCHANGED <<endpoint, sparse, dense, support>>

\* The cross-encoder puts the candidates in any order, or fails: then they stay in the fused order.
Rerank ==
    /\ stage = "rerank"
    /\ LET pool == First(fused, CandidateCount)
       IN  \/ \E order \in SetToSeqs(ToSet(pool)) : top' = First(order, FinalCount)
           \/ top' = First(fused, FinalCount)
    /\ stage' = "package"
    /\ UNCHANGED <<endpoint, sparse, dense, fused, support>>

\* The library is not installed: RerankerError is not caught, and the request is refused.
RerankRefuses ==
    /\ stage = "rerank" /\ fused # << >>
    /\ stage' = "refused"
    /\ UNCHANGED <<endpoint, sparse, dense, fused, top, support>>

Mentions(text, id) == \E code \in text : OccursIn(id, code)

\* _extract_requirement_ids: findall returns the group of the pattern, which is the kind alone.
Extracted(text) == {KindOf(code) : code \in text}

SourceOf_LooksBeyond(id, texts) ==
    LET holds == {i \in DOMAIN fused : \E q \in DOMAIN texts : Mentions(texts[q], id)}
    IN  IF holds = {} THEN {} ELSE {fused[CHOOSE i \in holds : \A j \in holds : i >= j]}
\* _find_source_for_req: the first passage whose text has the id in it.
SourceOf(id, texts) ==
    LET holds == {i \in DOMAIN top : Mentions(texts[top[i]], id)}
    IN  IF holds = {} THEN {} ELSE {top[CHOOSE i \in holds : \A j \in holds : i <= j]}

Requirements(asked, texts) ==
    {[id |-> id, source |-> SourceOf(id, texts)] :
        id \in asked \cup UNION {Extracted(texts[p]) : p \in ToSet(top)}}

Build ==
    /\ stage = "package"
    /\ \E asked \in SUBSET Codes, texts \in [ToSet(top) -> SUBSET Codes] :
          support' = Requirements(asked, texts)
    /\ stage' = "done"
    /\ UNCHANGED <<endpoint, sparse, dense, fused, top>>

FusionNext == SparseReports \/ DenseReports \/ Fuse \/ Rerank \/ RerankRefuses \/ Build

FusionSpec == FusionInit /\ [][FusionNext]_fusionVars
FairFusionSpec == FusionSpec /\ WF_fusionVars(FusionNext)

RequestIsAnswered == stage \in {"done", "refused"}

-----------------------------------------------------------------------------
Known == ToSet(sparse) \cap ToSet(dense)
IsAhead(p, q) == p \in ToSet(fused) /\ RankIn(fused, p) < RankIn(fused, q)

(***************************************************************************)
(* fuse: a passage that neither arm ranks behind another (an arm that does *)
(* not find a passage ranks it last), and one of them ranks ahead, is      *)
(* ahead of it in the fused ranking, wherever that is cut; and if K is     *)
(* large for the length of the lists, as 60 is for 20, what both arms      *)
(* found is ahead of all that only one found.                              *)
(***************************************************************************)
NotBehind(list, p, q) == RanksAhead(list, p, q) \/ RankIn(list, q) = 0
FusionAgrees ==
    stage \in {"rerank", "package", "done"} =>
        \A p \in Passages, q \in ToSet(fused) :
            \/ /\ NotBehind(sparse, p, q) /\ NotBehind(dense, p, q)
               /\ RanksAhead(sparse, p, q) \/ RanksAhead(dense, p, q)
            \/ K > TopK - 2 /\ p \in Known /\ q \notin Known
            => IsAhead(p, q)

(***************************************************************************)
(* The package is grounded in what was retrieved: no passage twice, none   *)
(* beyond the limits, none that no arm found, none from behind the         *)
(* candidates; and each requirement that names a source names a passage of *)
(* the package.                                                            *)
(***************************************************************************)
PackageIsGrounded ==
    stage = "done" =>
        /\ IsInjective(top)
        /\ ToSet(top) \subseteq ToSet(fused)
        /\ endpoint # "search" => Len(top) = IF FinalCount < Len(fused) THEN FinalCount ELSE Len(fused)
        /\ \A r \in support : r.source \subseteq ToSet(top)

(***************************************************************************)
(* _extract_requirement_ids promises to "Extract requirement codes like    *)
(* FR-001, NFR-002 from text": every requirement of a package is a code.   *)
(***************************************************************************)
SupportsCodes == \A r \in support : r.id \in Codes
=============================================================================
