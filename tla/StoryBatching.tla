---------------------------- MODULE StoryBatching ----------------------------
(***************************************************************************)
(* Agent 3, UserStoryGenerationAgent.execute                               *)
(* (backend/app/agents/user_story_agent.py): the evidence packs of a       *)
(* request are batched by tokens and by number, each batch is one call of  *)
(* the LLM client, a batch that is too large for the provider is halved,   *)
(* and what comes back passes the quality gate or is replaced by failure   *)
(* records.  The validation loop runs the agent again, on the same packs,  *)
(* while there are failure records and retries left.                       *)
(*                                                                         *)
(* A batch is a stretch of consecutive packs.  The client is taken as what *)
(* LLMService does for one prompt: it answers from the cache, or asks a    *)
(* provider and may keep what parses, or raises.  The stories so far map   *)
(* the source of each (feature and one-line story) to its first record,    *)
(* which is what _dedupe_stories leaves of the list.                       *)
(***************************************************************************)
EXTENDS Integers, Sequences, FiniteSets, FiniteSetsExt

CONSTANTS
    MaxPacks,      \* bound on the packs of a request
    Costs,         \* what packs may add to a prompt, in tokens
    PromptCost,    \* the tokens of a prompt without packs
    Budget,        \* _batch_token_budget
    Limits,        \* the settings considered of USER_STORY_BATCH_MAX_STORIES
    PerStory,      \* USER_STORY_OUTPUT_TOKENS_PER_STORY
    MinOutput,     \* USER_STORY_MIN_OUTPUT_TOKENS
    OutputCap,     \* 8192 in the code
    MaxRetries,    \* bound on the runs of the agent after the first
    None           \* no cache entry

ASSUME PacksAssumption == MaxPacks \in Nat \ {0}
ASSUME CostsAssumption ==
    /\ Costs \subseteq Nat
    /\ {PromptCost, Budget, PerStory, MinOutput, OutputCap, MaxRetries} \subseteq Nat
ASSUME LimitsAssumption == Limits \subseteq Nat \ {0}

(* Sources are numbered as they first occur: two packs may share one.      *)
Packs == [source : 1..MaxPacks, cost : Costs]
Batch == { b \in [first : 1..MaxPacks, last : 1..MaxPacks] : b.first <= b.last }
StoryRecords == [pack : 1..MaxPacks, failed : BOOLEAN]

VARIABLES
    limit,     \* the most stories of a batch
    packs,     \* the evidence packs of the request
    built,     \* the packs that are in a batch so far
    todo,      \* the batches to be sent
    stories,   \* source -> its record so far
    cache,     \* batch -> the answer kept for it
    retries,   \* runs of the agent after the first
    sent,      \* history variable: the batches sent to a provider in this run
    asks,      \* history variable: how often a provider was asked in this run
    doubled    \* history variable: the gate let a source through twice

batchingVars == <<limit, packs, built, todo, stories, cache, retries, sent, asks, doubled>>

Size(b) == b.last - b.first + 1
PacksOf(b) == b.first..b.last
SourcesOf(b) == { packs[p].source : p \in PacksOf(b) }

BatchingInit ==
    /\ limit \in Limits
    /\ \E n \in 1..MaxPacks : packs \in [1..n -> Packs]
    /\ \A p \in DOMAIN packs :
        \A s \in 1..(packs[p].source - 1) : \E q \in 1..(p - 1) : packs[q].source = s
    /\ built = 0
    /\ todo = << >>
    /\ stories = << >>
    /\ cache = [b \in Batch |-> None]
    /\ retries = 0
    /\ sent = {}
    /\ asks = 0
    /\ doubled = FALSE

-----------------------------------------------------------------------------
(* Batching: one step per turn of the loop of _build_batches               *)

OutputAllowance(n) == Min({OutputCap, Max({MinOutput, n * PerStory})})

Estimated(b) ==
    PromptCost + MapThenSumSet(LAMBDA p : packs[p].cost, PacksOf(b)) + OutputAllowance(Size(b))

Admissible_BeforeAdding(b) ==
    LET current == [b EXCEPT !.last = @ - 1] IN
    /\ Estimated(current) <= Budget
    /\ Size(current) <= limit

Admissible(b) == Estimated(b) <= Budget /\ Size(b) <= limit

(* Without the test for a batch's first pack                               *)
AddPack_OnlyIfAdmissible ==
    /\ built < Len(packs)
    /\ LET p == built + 1
           alone == [first |-> p, last |-> p]
           widened == [todo[Len(todo)] EXCEPT !.last = p]
       IN  /\ Admissible(alone)
           /\ todo' = IF todo # << >> /\ Admissible(widened)
                      THEN [todo EXCEPT ![Len(todo)] = widened]
                      ELSE Append(todo, alone)
    /\ built' = built + 1
    /\ UNCHANGED <<limit, packs, stories, cache, retries, sent, asks, doubled>>

(* The last batch is the current one: it is closed if the pack would make  *)
(* it inadmissible.  A batch's first pack is not looked at.                *)
AddPack ==
    /\ built < Len(packs)
    /\ LET p == built + 1
           widened == [todo[Len(todo)] EXCEPT !.last = p]
       IN  todo' = IF todo # << >> /\ Admissible(widened)
                   THEN [todo EXCEPT ![Len(todo)] = widened]
                   ELSE Append(todo, [first |-> p, last |-> p])
    /\ built' = built + 1
    /\ UNCHANGED <<limit, packs, stories, cache, retries, sent, asks, doubled>>

-----------------------------------------------------------------------------
(* One batch                                                               *)

(* The first record of a source stays.                                     *)
Merged(earlier, later) ==
    [ s \in DOMAIN earlier \cup DOMAIN later |->
        IF s \in DOMAIN earlier THEN earlier[s] ELSE later[s] ]

PacksFor(b, s) == { p \in PacksOf(b) : packs[p].source = s }

FailureRecords(b) ==
    [s \in SourcesOf(b) |-> [pack |-> Min(PacksFor(b, s)), failed |-> TRUE]]

(* A structured answer holds no stories, not as many as asked for, one     *)
(* that belongs to no pack of the batch or contradicts its pack, or a      *)
(* story for some source of the batch in each place.                       *)
Listed(b) == [1..Size(b) -> SourcesOf(b)]
Unusable == {"none", "miscounted", "foreign"}
Answers(b) ==
    [kind : Unusable, list : {<< >>}] \cup [kind : {"listed"}, list : Listed(b)]
Listing(answer) == { answer.list[i] : i \in DOMAIN answer.list }

Gated_IgnoresCount(b, answer) ==
    IF answer.kind = "miscounted"
    THEN [ s \in { packs[p].source : p \in PacksOf(b) \ {b.last} } |->
             [pack |-> Max(PacksFor(b, s)), failed |-> FALSE] ]
    ELSE IF answer.kind \in Unusable
    THEN FailureRecords(b)
    ELSE [ s \in Listing(answer) |->
             [pack |-> Max(PacksFor(b, s)), failed |-> FALSE] ]

(* All of a batch or nothing.  A source is looked up, and the last pack    *)
(* that has it gives the story its id.                                     *)
Gated(b, answer) ==
    IF answer.kind \in Unusable
    THEN FailureRecords(b)
    ELSE [ s \in Listing(answer) |->
             [pack |-> Max(PacksFor(b, s)), failed |-> FALSE] ]

Doubles(b, answer) ==
    \E s \in SourcesOf(b) :
        Cardinality({ i \in DOMAIN answer.list : answer.list[i] = s })
            > Cardinality(PacksFor(b, s))

IsNext(b) == built = Len(packs) /\ todo # << >> /\ b = Head(todo)

Take(records) ==
    /\ stories' = Merged(stories, records)
    /\ todo' = Tail(todo)

Ask(b) ==
    /\ sent' = sent \cup {b}
    /\ asks' = asks + 1

AnsweredFromCache(b) ==
    /\ IsNext(b)
    /\ cache[b] # None
    /\ Take(Gated(b, cache[b]))
    /\ doubled' = (doubled \/ Doubles(b, cache[b]))
    /\ UNCHANGED <<limit, packs, built, cache, retries, sent, asks>>

(* The cache is empty, expired or out of reach, or it takes the answer.    *)
AnsweredByProvider(b) ==
    /\ IsNext(b)
    /\ Ask(b)
    /\ \E answer \in Answers(b) :
        /\ Take(Gated(b, answer))
        /\ doubled' = (doubled \/ Doubles(b, answer))
        /\ cache' \in {cache, [cache EXCEPT ![b] = answer]}
    /\ UNCHANGED <<limit, packs, built, retries>>

Halves_Overlapping(b) ==
    LET middle == b.first + Max({1, Size(b) \div 2}) IN
    << [b EXCEPT !.last = middle], [b EXCEPT !.first = middle] >>

Halves_Whole(b) == << b >>

Halves(b) ==
    LET middle == b.first + Max({1, Size(b) \div 2}) IN
    << [b EXCEPT !.last = middle - 1], [b EXCEPT !.first = middle] >>

(* Left half first, each as a batch of its own                             *)
TooLarge(b) ==
    /\ IsNext(b)
    /\ Ask(b)
    /\ IF Size(b) > 1
       THEN todo' = Halves(b) \o Tail(todo) /\ UNCHANGED stories
       ELSE Take(FailureRecords(b))
    /\ UNCHANGED <<limit, packs, built, cache, retries, doubled>>

CallFails(b) ==
    /\ IsNext(b)
    /\ Ask(b)
    /\ Take(FailureRecords(b))
    /\ UNCHANGED <<limit, packs, built, cache, retries, doubled>>

-----------------------------------------------------------------------------
(* The agent again                                                         *)

Returned == built = Len(packs) /\ todo = << >>
HasFailures == \E s \in DOMAIN stories : stories[s].failed

(* WorkflowNodes.user_story_generation drops what it had.                  *)
Retry ==
    /\ Returned /\ HasFailures /\ retries < MaxRetries
    /\ retries' = retries + 1
    /\ built' = 0
    /\ stories' = << >>
    /\ sent' = {}
    /\ asks' = 0
    /\ doubled' = FALSE
    /\ UNCHANGED <<limit, packs, todo, cache>>

Execute(b) == AnsweredFromCache(b) \/ AnsweredByProvider(b) \/ TooLarge(b) \/ CallFails(b)

BatchingNext == AddPack \/ (\E b \in Batch : Execute(b)) \/ Retry

BatchingSpec == BatchingInit /\ [][BatchingNext]_batchingVars

(* A call of the client ends by its own deadline.                          *)
FairBatchingSpec == BatchingSpec /\ WF_batchingVars(AddPack) /\ WF_batchingVars(\E b \in Batch : Execute(b))

-----------------------------------------------------------------------------
(* Properties *)

BatchingTypes ==
    /\ limit \in Limits
    /\ packs \in Seq(Packs) /\ Len(packs) \in 1..MaxPacks
    /\ built \in 0..Len(packs)
    /\ todo \in Seq(Batch)
    /\ DOMAIN stories \subseteq 1..MaxPacks
    /\ \A s \in DOMAIN stories : stories[s] \in StoryRecords
    /\ \A b \in Batch : b.last <= Len(packs) =>
           cache[b] \in Answers(b) \cup {None}
    /\ retries \in 0..MaxRetries
    /\ sent \subseteq Batch
    /\ asks \in Nat
    /\ doubled \in BOOLEAN

(* The packs that are behind the agent                                     *)
Done == IF todo = << >> THEN built ELSE Head(todo).first - 1

(* The batches are a partition of what is left, in order, through any      *)
(* number of halvings: no pack is sent twice in a run, or forgotten.       *)
BatchesPartition ==
    /\ \A i \in DOMAIN todo :
        /\ todo[i].first <= todo[i].last
        /\ todo[i].last = IF i = Len(todo) THEN built ELSE todo[i + 1].first - 1
    /\ 0 <= Done

BatchInvariant == BatchingTypes /\ BatchesPartition

(* What is sent keeps to both limits, halves included; only a single pack  *)
(* may be beyond the tokens.                                               *)
SentWithinLimits ==
    \A b \in sent : Size(b) <= limit /\ (Size(b) = 1 \/ Estimated(b) <= Budget)

(* Halving costs: a run asks a provider less than twice for every pack.    *)
AsksBounded == built > 0 => asks < 2 * Done + Len(todo)

(* Every source of the request has a story or a failure record in the end, *)
(* unless the model answered another source twice: the quality gate counts *)
(* stories, and _dedupe_stories then drops one without a record.           *)
LostOnlyToDoubles ==
    Returned => doubled \/ DOMAIN stories = { packs[p].source : p \in DOMAIN packs }

(* A run of the agent ends, however large its batches are found to be.     *)
EveryRunEnds == [](built < Len(packs) => <>Returned)

=============================================================================
