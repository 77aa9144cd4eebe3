----------------------------- MODULE Preprocessing -----------------------------
(***************************************************************************)
(* DocumentPreprocessingPipelineService.run: a document is imported,       *)
(* chunked, labelled and analysed, and the result is kept in Redis for a   *)
(* day.  Several runs over one source may be under way for different       *)
(* projects while the source is edited.  Of a text the model has the       *)
(* edition, of a chunk its place (Chunking has how they are cut), of a     *)
(* label who gave it.                                                      *)
(***************************************************************************)
EXTENDS Naturals, Sequences

CONSTANTS
    Runs,           \* runs that may be under way together; a run stands for its document and project too
    Lengths,        \* the numbers of chunks a text may have; none for a blank file or scanned pages
    Kinds,          \* what the source may be
    BatchSize,      \* context_labeling_batch_size
    MaxEdits,       \* bound: edits of the source
    NoEntry         \* no cached result

ASSUME PreprocessingAssumption ==
    /\ Lengths \subseteq Nat
    /\ Kinds \subseteq {"file", "connector", "onedrive"}
    /\ BatchSize \in Nat \ {0}
    /\ MaxEdits \in Nat

VARIABLES
    kind,       \* what the source is
    edition,    \* of the source
    cached,     \* Redis: doc:hash of the source
    run         \* Runs -> the run

preVars == <<kind, edition, cached, run>>

Fresh == [pc |-> "look up", begin |-> 0, text |-> 0, owner |-> {}, length |-> 0,
          start |-> 1, asks |-> << >>, given |-> << >>, labels |-> << >>]

PreInit ==
    /\ kind \in Kinds
    /\ edition = 0
    /\ cached = NoEntry
    /\ run = [r \in Runs |-> [Fresh EXCEPT !.pc = "idle"]]

On(r, pc) == run[r].pc = pc
Set(r, new) == run' = [run EXCEPT ![r] = new]
Jump(r, pc) == Set(r, [run[r] EXCEPT !.pc = pc])

Edit ==
    /\ edition < MaxEdits
    /\ edition' = edition + 1
    /\ UNCHANGED <<kind, cached, run>>

Start(r) ==
    /\ On(r, "idle")
    /\ Set(r, [Fresh EXCEPT !.begin = edition])
    /\ UNCHANGED <<kind, edition, cached>>

\* The key is the hash of the path alone; an error of Redis is a miss.  The chunks keep the ids they
\* were cached with.
LookUpResult(r) ==
    /\ On(r, "look up")
    /\ \/ /\ cached # NoEntry
          /\ Set(r, [run[r] EXCEPT !.pc = "returned", !.text = cached.text, !.owner = cached.owner,
                                   !.length = cached.length, !.labels = cached.labels])
       \/ Jump(r, IF kind = "onedrive" THEN "download" ELSE "import")
    /\ UNCHANGED <<kind, edition, cached>>

EntryExpires ==
    /\ cached # NoEntry
    /\ cached' = NoEntry
    /\ UNCHANGED <<kind, edition, run>>

-----------------------------------------------------------------------------
\* Import and chunking

Fail(r) ==
    /\ Set(r, [Fresh EXCEPT !.pc = "failed"])
    /\ UNCHANGED <<kind, edition, cached>>

\* A shared link: the bytes are fetched and stored under a new name in uploads, unless a login page
\* comes back or the status is not 200.
Download(r) ==
    /\ On(r, "download")
    /\ \/ /\ Set(r, [run[r] EXCEPT !.pc = "import", !.text = edition])
          /\ UNCHANGED <<kind, edition, cached>>
       \/ Fail(r)

\* Parsing the file (it exists, and its type has a parser), what was downloaded, or what a connector
\* returned; then the chunks, which carry the ids of this run.  A text without a sentence has none,
\* and what follows finds nothing to do.
Import(r) ==
    /\ On(r, "import")
    /\ \/ /\ \E n \in Lengths :
                Set(r, [run[r] EXCEPT !.pc = "label", !.length = n, !.owner = {r},
                                      !.text = IF kind = "onedrive" THEN @ ELSE edition])
          /\ UNCHANGED <<kind, edition, cached>>
       \/ Fail(r)

-----------------------------------------------------------------------------
\* Labelling, batch by batch.  A batch that was answered with invalid JSON is asked for in halves.

BatchEnd(r) == IF run[r].start + BatchSize - 1 < run[r].length THEN run[r].start + BatchSize - 1
                                                               ELSE run[r].length
Same(giver, n) == [i \in 1..n |-> giver]

BeginBatch(r) ==
    /\ On(r, "label") /\ run[r].start <= run[r].length
    /\ Set(r, [run[r] EXCEPT !.pc = "ask", !.given = << >>,
                             !.asks = <<[first |-> run[r].start, last |-> BatchEnd(r)]>>])
    /\ UNCHANGED <<kind, edition, cached>>

Asked(r) == run[r].asks[1]
Asking(r) == On(r, "ask") /\ run[r].asks # << >>

\* An answer has a label for every chunk asked about, or the run fails, as it does when a label is empty.
Answered(r) ==
    /\ Asking(r)
    /\ \/ /\ Set(r, [run[r] EXCEPT !.asks = Tail(@),
                                   !.given = @ \o Same("model", Asked(r).last - Asked(r).first + 1)])
          /\ UNCHANGED <<kind, edition, cached>>
       \/ Fail(r)

InvalidJSON(r) ==
    /\ Asking(r) /\ Asked(r).first < Asked(r).last
    /\ LET middle == Asked(r).first + (Asked(r).last - Asked(r).first + 1) \div 2
       IN  Set(r, [run[r] EXCEPT
                      !.asks = <<[first |-> Asked(r).first, last |-> middle - 1],
                                 [first |-> middle, last |-> Asked(r).last]>> \o Tail(@)])
    /\ UNCHANGED <<kind, edition, cached>>

\* "invoking the LLM" is in the message.
CallFails(r) ==
    /\ Asking(r)
    /\ Jump(r, "fall back")
    /\ UNCHANGED <<kind, edition, cached>>

\* The labels of the batch go to its chunks together.
Labelled(r, labels) ==
    [run[r] EXCEPT !.pc = "label", !.start = BatchEnd(r) + 1, !.labels = @ \o labels]

ApplyLabels(r) ==
    /\ On(r, "ask") /\ run[r].asks = << >>
    /\ Set(r, Labelled(r, run[r].given))
    /\ UNCHANGED <<kind, edition, cached>>

\* A fault: what half of the batch was given before the call that failed is kept.
FallBack_KeepsHalf(r) ==
    /\ On(r, "fall back")
    /\ \E giver \in {"fallback model", "local"} :
          Set(r, Labelled(r, run[r].given
                                 \o Same(giver, BatchEnd(r) - run[r].start + 1 - Len(run[r].given))))
    /\ UNCHANGED <<kind, edition, cached>>
\* One call of the other model for the whole batch, its first half again included; whatever goes
\* wrong, local labels, of which one may turn out empty.
FallBack(r) ==
    /\ On(r, "fall back")
    /\ \/ /\ \E giver \in {"fallback model", "local"} :
                Set(r, Labelled(r, Same(giver, BatchEnd(r) - run[r].start + 1)))
          /\ UNCHANGED <<kind, edition, cached>>
       \/ Fail(r)

Analyse_OffByOne(r) ==
    /\ On(r, "label") /\ run[r].start = run[r].length
    /\ Jump(r, "store") /\ UNCHANGED <<kind, edition, cached>>
\* Requirement analysis of all chunks, by the no-op analyser when the graph runs the pipeline.
Analyse(r) ==
    /\ On(r, "label") /\ run[r].start > run[r].length
    /\ \/ Jump(r, "store") /\ UNCHANGED <<kind, edition, cached>>
       \/ Fail(r)

\* An error of Redis is ignored.
StoreResult(r) ==
    /\ On(r, "store")
    /\ \/ cached' = [text |-> run[r].text, owner |-> run[r].owner, length |-> run[r].length,
                     labels |-> run[r].labels]
       \/ UNCHANGED cached
    /\ Jump(r, "returned")
    /\ UNCHANGED <<kind, edition>>

RunStep(r) ==
    \/ LookUpResult(r) \/ Download(r) \/ Import(r) \/ BeginBatch(r) \/ Answered(r) \/ InvalidJSON(r)
    \/ CallFails(r) \/ ApplyLabels(r) \/ FallBack(r) \/ Analyse(r) \/ StoreResult(r)

PreNext == Edit \/ EntryExpires \/ \E r \in Runs : Start(r) \/ RunStep(r)

PreSpec == PreInit /\ [][PreNext]_preVars
\* The calls of models and Redis end or time out; a connector may wait for Jira for ever.
PreFairness == \A r \in Runs : WF_preVars(~(kind = "connector" /\ On(r, "import")) /\ RunStep(r))

-----------------------------------------------------------------------------
BatchOf(i) == (i - 1) \div BatchSize

(***************************************************************************)
(* What a run returns, from the cache or not, is whole: every chunk has a  *)
(* label, in however many pieces a batch was asked for; all chunks of a    *)
(* batch got theirs in one way, also when half of the batch was labelled   *)
(* before a call failed (label_chunks); and all of it comes from one run.  *)
(***************************************************************************)
ResultsAreWhole ==
    \A r \in Runs : On(r, "returned") =>
        /\ Len(run[r].labels) = run[r].length
        /\ \A i, j \in 1..run[r].length : BatchOf(i) = BatchOf(j) => run[r].labels[i] = run[r].labels[j]
        /\ \E s \in Runs : run[r].owner = {s} /\ run[r].text >= run[s].begin

\* Every run that began returns or fails, however often an answer is cut off and asked for in halves.
RunsEnd == []<>(\A r \in Runs : run[r].pc \in {"idle", "returned", "failed"})

(***************************************************************************)
(* The comment at the hash says "hashing the file path and modification    *)
(* time if it's a file": the result for a file is not older than the run   *)
(* that is given it.                                                       *)
(***************************************************************************)
FileResultsAreCurrent ==
    \A r \in Runs : kind = "file" /\ On(r, "returned") => run[r].text >= run[r].begin
=============================================================================
