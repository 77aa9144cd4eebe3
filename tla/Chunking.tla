------------------------------- MODULE Chunking -------------------------------
(***************************************************************************)
(* ChunkService.chunk_text (backend/app/chunking/chunk_service.py): the    *)
(* sentences of a document are grouped by the similarity of neighbours,    *)
(* each group is split where it exceeds the limit of tokens, and pieces    *)
(* below the minimum are merged with a neighbour of their group.           *)
(*                                                                         *)
(* The tokens of a document are numbered, so that a sentence, a piece or a *)
(* chunk is a stretch of tokens; joining texts by a blank, and attaching   *)
(* punctuation in _untokenize, leaves their number as it is.  A group is   *)
(* read, split and merged before the next one, where the code builds the   *)
(* list of all groups first: groups do not influence each other.           *)
(***************************************************************************)
EXTENDS Integers, Sequences

CONSTANTS
    MaxSentences,   \* bound on the sentences of a document
    SentenceSizes,  \* the tokens a sentence may have
    MaxTokens,            \* maximum_chunk_tokens
    MinTokens,            \* minimum_chunk_tokens
    NoPiece         \* no sentence is waiting for its piece to be complete

Stretches == [first : Nat, last : Nat]

(* The checks of __init__; a sentence that is kept has a token.            *)
ASSUME SentencesAssumption == MaxSentences \in Nat /\ SentenceSizes \subseteq Nat \ {0}
ASSUME ChunkLimitsAssumption == MaxTokens \in Nat \ {0} /\ MinTokens \in 0..MaxTokens
ASSUME NoPieceAssumption == NoPiece \notin Stretches

Sentences == [tokens : SentenceSizes, similar : BOOLEAN]

VARIABLES
    text,     \* the sentences; similar: to the one before it (fast mode: all are)
    next,     \* the first sentence that is not in a piece yet
    read,     \* the tokens before it
    current,  \* current_sentences of _split_group_by_token_limit
    pieces,   \* the pieces of the group, later merged in place
    index,    \* where _merge_small_chunks is, 0 before it starts
    chunks    \* the chunks of the groups before this one

chunkVars == <<text, next, read, current, pieces, index, chunks>>

Tokens(s) == s.last - s.first + 1
Join(left, right) == [first |-> left.first, last |-> right.last]

(* The first sentence counts as unlike the nothing before it.              *)
ChunkInit ==
    /\ \E n \in 0..MaxSentences : text \in [1..n -> Sentences]
    /\ text # << >> => ~text[1].similar
    /\ next = 1 /\ read = 0
    /\ current = NoPiece
    /\ pieces = << >> /\ index = 0
    /\ chunks = << >>

-----------------------------------------------------------------------------
(* Splitting a group by the limit                                          *)

GroupIsEmpty == pieces = << >> /\ current = NoPiece

(* _group_sentences_by_similarity: a sentence unlike its predecessor opens *)
(* a group.                                                                *)
GroupGoesOn == next <= Len(text) /\ (GroupIsEmpty \/ text[next].similar)

Flushed == IF current = NoPiece THEN pieces ELSE Append(pieces, current)

Sentence == [first |-> read + 1, last |-> read + text[next].tokens]

(* _split_oversized_sentence: full pieces, and a last one with the rest    *)
Parts(s) ==
    [k \in 1..((Tokens(s) + MaxTokens - 1) \div MaxTokens) |->
        [first |-> s.first + (k - 1) * MaxTokens,
         last |-> IF s.first + k * MaxTokens - 1 < s.last THEN s.first + k * MaxTokens - 1 ELSE s.last]]

Read ==
    /\ index = 0 /\ GroupGoesOn
    /\ next' = next + 1
    /\ read' = read + text[next].tokens
    /\ UNCHANGED <<text, index, chunks>>

ReadOversized ==
    /\ Read
    /\ Tokens(Sentence) > MaxTokens
    /\ pieces' = Flushed \o Parts(Sentence)
    /\ current' = NoPiece

ReadOverflowing ==
    /\ Read
    /\ Tokens(Sentence) <= MaxTokens
    /\ current # NoPiece /\ Tokens(current) + Tokens(Sentence) > MaxTokens
    /\ pieces' = Append(pieces, current)
    /\ current' = Sentence

ReadFitting ==
    /\ Read
    /\ Tokens(Sentence) <= MaxTokens
    /\ current # NoPiece => Tokens(current) + Tokens(Sentence) <= MaxTokens
    /\ current' = IF current = NoPiece THEN Sentence ELSE Join(current, Sentence)
    /\ UNCHANGED pieces

EndGroup ==
    /\ index = 0 /\ ~GroupGoesOn /\ ~GroupIsEmpty
    /\ pieces' = Flushed
    /\ current' = NoPiece
    /\ index' = 1
    /\ UNCHANGED <<text, next, read, chunks>>

-----------------------------------------------------------------------------
(* Merging: one step per turn of the loop of _merge_small_chunks.  With a  *)
(* minimum of zero, or one piece, every turn only moves on, as if the loop *)
(* were not entered.                                                       *)

(* A bug: the limit of a text with a separator between the pieces.         *)
MayMerge_OneOver(i, j) ==
    j \in DOMAIN pieces /\ Tokens(pieces[i]) + Tokens(pieces[j]) <= MaxTokens + 1

MayMerge(i, j) ==
    j \in DOMAIN pieces /\ Tokens(pieces[i]) + Tokens(pieces[j]) <= MaxTokens

(* _best_adjacent_merge_index prefers the smaller neighbour, then the left *)
GoesLeft(i) ==
    /\ MayMerge(i, i - 1)
    /\ MayMerge(i, i + 1) => Tokens(pieces[i - 1]) <= Tokens(pieces[i + 1])

(* A bug: the last piece is not seen as a neighbour.                       *)
GoesRight_NotTheLast(i) == i + 1 < Len(pieces) /\ MayMerge(i, i + 1) /\ ~GoesLeft(i)

GoesRight(i) == MayMerge(i, i + 1) /\ ~GoesLeft(i)

IsSmall(i) == Tokens(pieces[i]) < MinTokens

(* The pieces with piece i + 1 taken into piece i                          *)
MergedAt(i) ==
    [k \in 1..(Len(pieces) - 1) |->
        CASE k < i -> pieces[k]
          [] k = i -> Join(pieces[i], pieces[i + 1])
          [] k > i -> pieces[k + 1]]

Merging == index \in DOMAIN pieces /\ UNCHANGED <<text, next, read, current, chunks>>

(* A bug: the loop stays at a small piece that nothing has room for.       *)
MoveOn_OnlyFromLarge ==
    /\ Merging
    /\ ~IsSmall(index)
    /\ index' = index + 1
    /\ UNCHANGED pieces

MoveOn ==
    /\ Merging
    /\ ~IsSmall(index) \/ ~(GoesLeft(index) \/ GoesRight(index))
    /\ index' = index + 1
    /\ UNCHANGED pieces

(* The merged piece is index - 1; the loop resumes one before it.          *)
MergeLeft ==
    /\ Merging
    /\ IsSmall(index) /\ GoesLeft(index)
    /\ pieces' = MergedAt(index - 1)
    /\ index' = IF index > 2 THEN index - 2 ELSE 1

MergeRight ==
    /\ Merging
    /\ IsSmall(index) /\ GoesRight(index)
    /\ pieces' = MergedAt(index)
    /\ UNCHANGED index

AppendChunks ==
    /\ index > Len(pieces)
    /\ chunks' = chunks \o pieces
    /\ pieces' = << >>
    /\ index' = 0
    /\ UNCHANGED <<text, next, read, current>>

ChunkNext ==
    \/ ReadOversized \/ ReadOverflowing \/ ReadFitting \/ EndGroup
    \/ MoveOn \/ MergeLeft \/ MergeRight \/ AppendChunks

ChunkSpec == ChunkInit /\ [][ChunkNext]_chunkVars

(* chunk_text is one synchronous call: it runs to its end.                 *)
FairChunkSpec == ChunkSpec /\ WF_chunkVars(ChunkNext)

Chunked == next > Len(text) /\ GroupIsEmpty

-----------------------------------------------------------------------------
(* All stretches around, in the order of the document                      *)
Cut == chunks \o Flushed

ChunkTypes ==
    /\ text \in Seq(Sentences)
    /\ next \in 1..(Len(text) + 1)
    /\ read \in Nat
    /\ current \in Stretches \cup {NoPiece}
    /\ pieces \in Seq(Stretches)
    /\ index \in 0..(Len(pieces) + 1)
    /\ chunks \in Seq(Stretches)

(* Chunking neither loses a token of the document, nor repeats one, nor    *)
(* changes their order, through any splitting and merging: what is cut so  *)
(* far is a partition of what is read.                                     *)
ChunksPartition ==
    /\ Cut = << >> <=> read = 0
    /\ Cut # << >> => Cut[1].first = 1 /\ Cut[Len(Cut)].last = read
    /\ \A i \in 2..Len(Cut) : Cut[i].first = Cut[i - 1].last + 1

(* No chunk is empty, and none exceeds the limit of tokens, whatever the   *)
(* sentences are and however often pieces were merged.                     *)
WithinLimit == \A i \in DOMAIN Cut : Tokens(Cut[i]) \in 1..MaxTokens

ChunkInvariant == ChunkTypes /\ ChunksPartition /\ WithinLimit

(* Merging leaves a small piece behind only if no neighbour has room for   *)
(* it, although the loop moves on from a piece and its neighbours merge    *)
(* later.                                                                  *)
SmallOnlyWhereNothingFits ==
    \A i \in 1..(index - 1) :
        i \in DOMAIN pieces /\ IsSmall(i) => ~MayMerge(i, i - 1) /\ ~MayMerge(i, i + 1)

(* The loop, which goes back after a merge, ends for every document.       *)
EveryTextIsChunked == <>Chunked
=============================================================================
