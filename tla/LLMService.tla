------------------------------ MODULE LLMService ------------------------------
(***************************************************************************)
(* LLMService.execute (backend/app/shared/llm_client.py), the one way to a *)
(* model provider: the response cache, the attempts of one request with    *)
(* their waits and their common deadline, the second model of Cerebras,    *)
(* the fallback from a rate-limited Groq to Cerebras - execute calling     *)
(* itself from its own exception handler - and the finally block that      *)
(* audits the request and fills the cache.                                 *)
(*                                                                         *)
(* A prompt stands for everything the cache key is made of apart from the  *)
(* provider: texts, schema, limits and versions.  What comes back is       *)
(* abstracted to whether it is what the caller asked for.                  *)
(***************************************************************************)
EXTENDS Integers, Sequences, FiniteSets

CONSTANTS
    Calls,        \* calls of execute, each made once
    Prompts,
    Structured,   \* the prompts that come with a response schema
    MaxAttempts,  \* MODEL_MAX_RETRIES
    None          \* no cache entry, no content, no error

ASSUME PromptsAssumption == Structured \subseteq Prompts
ASSUME AttemptsAssumption == MaxAttempts \in Nat \ {0}

(* "openai" stands for every provider without a fallback.                  *)
Providers == {"groq", "cerebras", "openai"}
Contents == {"wellformed", "malformed"}

(* Without a schema any text will do.                                      *)
Fits(prompt, content) == prompt \in Structured => content = "wellformed"

(* "provider": whatever the provider, its client or the way to it reports, *)
(* a refused key (401) and an unexpected exception included.               *)
Errors == {"configuration", "timeout", "provider", "cancelled", "json"}
Records == [provider : Providers, success : BOOLEAN, cached : BOOLEAN]

ASSUME NoneAssumption == None \notin Contents \cup Errors \cup {"cache", "provider"}

VARIABLES
    keys,       \* the providers with an API key
    cache,      \* provider, prompt -> the cached content
    pc,         \* where a call is
    provider,   \* the provider it is for: changed by the fallback
    prompt,     \* what it asks
    viaGroq,    \* it is the inner execute of a rate-limited Groq request
    attempt,    \* the attempts made at the provider
    tries,      \* the models an attempt has: two at Cerebras, unless the same
    candidate,  \* the one of them that is asked
    content,    \* what it has got
    source,     \* from where: "cache" or "provider"
    stale,      \* the providers for whom it found a malformed entry: execute
                \* takes that for its success, and only a cancellation
                \* takes it back
    raised,     \* the error it has ended with
    audit,      \* the records it has written, oldest first
    asked       \* history variable: requests made, by provider (a client may
                \* repeat one of its own accord, the one for Cerebras does not)

request == <<provider, prompt, viaGroq>>
trial == <<attempt, tries, candidate>>
vars ==
    <<keys, cache, pc, request, trial, content, source, stale, raised, audit, asked>>

(* Waiting in "asking" for the provider, in "backoff" for the next attempt *)
Started == {"lookup", "asking", "backoff", "storing"}

Init ==
    /\ keys \in SUBSET Providers
    \* Entries a day old at most: an earlier release may have had another schema.
    /\ cache \in [Providers -> [Prompts -> Contents \cup {None}]]
    /\ \A p \in Providers, q \in Prompts \ Structured : cache[p][q] = None
    /\ pc = [c \in Calls |-> "idle"]
    /\ provider \in [Calls -> Providers]
    /\ prompt \in [Calls -> Prompts]
    /\ viaGroq = [c \in Calls |-> FALSE]
    /\ attempt = [c \in Calls |-> 0]
    /\ tries = [c \in Calls |-> 1]
    /\ candidate = [c \in Calls |-> 0]
    /\ content = [c \in Calls |-> None]
    /\ source = [c \in Calls |-> None]
    /\ stale = [c \in Calls |-> {}]
    /\ raised = [c \in Calls |-> None]
    /\ audit = [c \in Calls |-> << >>]
    /\ asked = [c \in Calls |-> [p \in Providers |-> 0]]

-----------------------------------------------------------------------------
(* Records of the finally block                                            *)

Recorded(c, success, cached) ==
    [provider |-> provider[c], success |-> success, cached |-> cached]

OuterRecord_Succeeds(c) ==
    IF viaGroq[c]
    THEN << [provider |-> "groq", success |-> TRUE, cached |-> FALSE] >>
    ELSE << >>

(* The finally block of the Groq request around an inner execute comes     *)
(* last: it has failed, whatever the inner one returns.                    *)
OuterRecord(c) ==
    IF viaGroq[c]
    THEN << [provider |-> "groq", success |-> "groq" \in stale[c], cached |-> FALSE] >>
    ELSE << >>

(* The call leaves execute by an exception, inside the try or before it.   *)
Leave(c, error, records) ==
    /\ pc' = [pc EXCEPT ![c] = "done"]
    /\ raised' = [raised EXCEPT ![c] = error]
    /\ audit' = [audit EXCEPT ![c] = @ \o records \o OuterRecord(c)]

Raise(c, error) ==
    /\ Leave(c, error, << Recorded(c, provider[c] \in stale[c], FALSE) >>)
    /\ UNCHANGED <<keys, cache, request, trial, content, source, stale, asked>>

-----------------------------------------------------------------------------
(* Before the provider                                                     *)

Call(c) ==
    /\ pc[c] = "idle"
    /\ pc' = [pc EXCEPT ![c] = "lookup"]
    /\ UNCHANGED <<keys, cache, request, trial, content, source, stale, raised, audit, asked>>

(* The entry, or a miss for want of one or of a reachable cache            *)
ReadCache(c) == { cache[provider[c]][prompt[c]], None }

CacheHit(c) ==
    /\ pc[c] = "lookup"
    /\ \E found \in ReadCache(c) \ {None} :
        /\ Fits(prompt[c], found)
        /\ content' = [content EXCEPT ![c] = found]
        /\ source' = [source EXCEPT ![c] = "cache"]
        /\ Leave(c, None, << Recorded(c, TRUE, TRUE) >>)
    /\ UNCHANGED <<keys, cache, request, trial, stale, asked>>

Send(c, n, model) ==
    /\ attempt' = [attempt EXCEPT ![c] = n]
    /\ candidate' = [candidate EXCEPT ![c] = model]
    /\ asked' = [asked EXCEPT ![c][provider[c]] = @ + 1]

CacheMiss_RaisesOnMalformed(c) ==
    /\ pc[c] = "lookup"
    /\ \E found \in ReadCache(c) :
        /\ found # None => ~Fits(prompt[c], found)
        /\ IF found # None
           THEN /\ Leave(c, "json", << Recorded(c, TRUE, TRUE) >>)
                /\ UNCHANGED <<trial, asked>>
           ELSE IF provider[c] \in keys
           THEN /\ pc' = [pc EXCEPT ![c] = "asking"]
                /\ tries' = [tries EXCEPT ![c] = 1]
                /\ Send(c, 1, 1)
                /\ UNCHANGED <<raised, audit>>
           ELSE /\ Leave(c, "configuration", << >>)
                /\ UNCHANGED <<trial, asked>>
    /\ UNCHANGED <<keys, cache, request, content, source, stale>>

(* How many models there may be to try                                     *)
Models(p) == IF p = "cerebras" THEN {1, 2} ELSE {1}

(* A miss, or an entry that does not parse: it is audited, then ignored.   *)
CacheMiss(c) ==
    /\ pc[c] = "lookup"
    /\ \E found \in ReadCache(c) :
        LET seen == IF found = None THEN << >> ELSE << Recorded(c, TRUE, TRUE) >> IN
        /\ found # None => ~Fits(prompt[c], found)
        /\ stale' = IF found = None THEN stale ELSE [stale EXCEPT ![c] = @ \cup {provider[c]}]
        /\ IF provider[c] \in keys
           THEN /\ pc' = [pc EXCEPT ![c] = "asking"]
                /\ \E n \in Models(provider[c]) : tries' = [tries EXCEPT ![c] = n]
                /\ Send(c, 1, 1)
                /\ audit' = [audit EXCEPT ![c] = @ \o seen]
                /\ UNCHANGED raised
           ELSE /\ Leave(c, "configuration", seen)
                /\ UNCHANGED <<trial, asked>>
    /\ UNCHANGED <<keys, cache, request, content, source>>

-----------------------------------------------------------------------------
(* What a provider does to a request                                       *)

Answered(c) ==
    /\ pc[c] = "asking"
    /\ \E got \in Contents :
        /\ content' = [content EXCEPT ![c] = got]
        /\ source' = [source EXCEPT ![c] = "provider"]
        /\ IF Fits(prompt[c], got)
           THEN /\ pc' = [pc EXCEPT ![c] = "storing"]
                /\ audit' = [audit EXCEPT ![c] = Append(@, Recorded(c, TRUE, FALSE))]
                /\ UNCHANGED raised
           ELSE Leave(c, "json", << Recorded(c, TRUE, FALSE) >>)
    /\ UNCHANGED <<keys, cache, request, trial, stale, asked>>

(* The cache is filled, if it can be reached, before the caller hears.     *)
Store(c) ==
    /\ pc[c] = "storing"
    /\ \E kept \in { content[c], cache[provider[c]][prompt[c]] } :
           cache' = [cache EXCEPT ![provider[c]][prompt[c]] = kept]
    /\ Leave(c, None, << >>)
    /\ UNCHANGED <<keys, request, trial, content, source, stale, asked>>

ModelMissing(c) ==
    /\ pc[c] = "asking"
    /\ IF provider[c] = "cerebras" /\ candidate[c] < tries[c]
       THEN /\ Send(c, attempt[c], candidate[c] + 1)
            /\ UNCHANGED <<keys, cache, pc, request, tries, content, source, stale, raised, audit>>
       ELSE Raise(c, "provider")

(* tenacity waits before it tries once more.                               *)
MayRetry(c) == attempt[c] < MaxAttempts

BackOff(c) ==
    /\ pc' = [pc EXCEPT ![c] = "backoff"]
    /\ UNCHANGED <<keys, cache, request, trial, content, source, stale, raised, audit, asked>>

(* execute calls itself: another cache key, attempts and a deadline anew   *)
FallBack(c) ==
    /\ provider' = [provider EXCEPT ![c] = "cerebras"]
    /\ viaGroq' = [viaGroq EXCEPT ![c] = TRUE]
    /\ pc' = [pc EXCEPT ![c] = "lookup"]
    /\ attempt' = [attempt EXCEPT ![c] = 0]
    /\ candidate' = [candidate EXCEPT ![c] = 0]
    /\ UNCHANGED <<keys, cache, prompt, tries, content, source, stale, raised, audit, asked>>

GiveUpOnLimit_AnyProvider(c) ==
    IF "cerebras" \in keys THEN FallBack(c) ELSE Raise(c, "provider")

GiveUpOnLimit(c) ==
    IF provider[c] = "groq" /\ "cerebras" \in keys THEN FallBack(c) ELSE Raise(c, "provider")

(* A rate limit passes, an exhausted quota does not.                       *)
RateLimited(c) ==
    /\ pc[c] = "asking"
    /\ \E passing \in BOOLEAN :
           IF passing /\ MayRetry(c) THEN BackOff(c) ELSE GiveUpOnLimit(c)

Disconnected(c) ==
    /\ pc[c] = "asking"
    /\ IF MayRetry(c) THEN BackOff(c) ELSE Raise(c, "provider")

Refused(c) ==
    /\ pc[c] = "asking"
    /\ Raise(c, "provider")

TryAgain(c) ==
    /\ pc[c] = "backoff"
    /\ pc' = [pc EXCEPT ![c] = "asking"]
    /\ Send(c, attempt[c] + 1, 1)
    /\ UNCHANGED <<keys, cache, request, tries, content, source, stale, raised, audit>>

TimesOut_BetweenAttempts(c) ==
    /\ pc[c] = "backoff"
    /\ Raise(c, "timeout")

(* asyncio.timeout covers all attempts of one execute and their waits.     *)
TimesOut(c) ==
    /\ pc[c] \in {"asking", "backoff"}
    /\ Raise(c, "timeout")

(* The client has gone, or the server shuts down.  Nothing is audited for  *)
(* an execute that has not reached its try block, nothing twice for one    *)
(* that was filling the cache.                                             *)
Cancelled(c) ==
    /\ pc[c] \in Started
    /\ Leave(c, "cancelled",
             IF pc[c] \in {"asking", "backoff"} THEN << Recorded(c, FALSE, FALSE) >> ELSE << >>)
    /\ UNCHANGED <<keys, cache, request, trial, content, source, stale, asked>>

Expire ==
    /\ \E p \in Providers, q \in Prompts :
        /\ cache[p][q] # None
        /\ cache' = [cache EXCEPT ![p][q] = None]
    /\ UNCHANGED <<keys, pc, request, trial, content, source, stale, raised, audit, asked>>

-----------------------------------------------------------------------------

OnItsOwn(c) == CacheHit(c) \/ CacheMiss(c) \/ Store(c) \/ TryAgain(c)

ProviderDoes(c) ==
    Answered(c) \/ ModelMissing(c) \/ RateLimited(c) \/ Disconnected(c) \/ Refused(c)

Next ==
    \/ \E c \in Calls : Call(c) \/ OnItsOwn(c) \/ ProviderDoes(c) \/ TimesOut(c) \/ Cancelled(c)
    \/ Expire

Spec == Init /\ [][Next]_vars

(* The cache answers or its connection times out, tenacity wakes up, and   *)
(* asyncio.timeout fires.  Nothing is assumed of the provider.             *)
Fairness == \A c \in Calls : WF_vars(OnItsOwn(c)) /\ WF_vars(TimesOut(c))

FairSpec == Spec /\ Fairness

-----------------------------------------------------------------------------
(* Properties *)

TypeOK ==
    /\ keys \in SUBSET Providers
    /\ cache \in [Providers -> [Prompts -> Contents \cup {None}]]
    /\ pc \in [Calls -> Started \cup {"idle", "done"}]
    /\ provider \in [Calls -> Providers]
    /\ prompt \in [Calls -> Prompts]
    /\ viaGroq \in [Calls -> BOOLEAN]
    /\ attempt \in [Calls -> 0..MaxAttempts]
    /\ tries \in [Calls -> 1..2]
    /\ candidate \in [Calls -> 0..2]
    /\ content \in [Calls -> Contents \cup {None}]
    /\ source \in [Calls -> {"cache", "provider", None}]
    /\ stale \in [Calls -> SUBSET Providers]
    /\ raised \in [Calls -> Errors \cup {None}]
    /\ audit \in [Calls -> Seq(Records)]
    /\ asked \in [Calls -> [Providers -> Nat]]

(* What a call may have sent to a provider, as things stand with it        *)
MayHaveAsked(c, p) ==
    IF p = provider[c]
    THEN IF p # "cerebras" THEN attempt[c]
         ELSE IF pc[c] = "asking" THEN 2 * (attempt[c] - 1) + candidate[c]
         ELSE 2 * attempt[c]
    ELSE IF p = "groq" /\ viaGroq[c] THEN MaxAttempts
    ELSE 0

Accounted(c) == \A p \in Providers : asked[c][p] <= MayHaveAsked(c, p)

CallInOrder(c) ==
    /\ viaGroq[c] => provider[c] = "cerebras"
    /\ pc[c] \in {"idle", "lookup"} => attempt[c] = 0
    /\ pc[c] = "backoff" => attempt[c] < MaxAttempts
    /\ pc[c] = "storing" => Fits(prompt[c], content[c])
    /\ pc[c] # "done" => raised[c] = None

(* The inductive invariant: the requests a call has sent are accounted for *)
(* by the attempt it is at and by where it came from, what waits to be     *)
(* kept parses, and an error ends the call.                                *)
CallInvariant == TypeOK /\ \A c \in Calls : Accounted(c) /\ CallInOrder(c)

(* However limits, lost connections, missing models and the fallback come  *)
(* together, a call sends no provider more than its attempts, Cerebras one *)
(* more for each because of the second model, and asks one provider only   *)
(* or Groq and Cerebras.                                                   *)
RequestsBounded ==
    \A c \in Calls :
        /\ asked[c]["groq"] <= MaxAttempts
        /\ asked[c]["openai"] <= MaxAttempts
        /\ asked[c]["cerebras"] <= 2 * MaxAttempts
        /\ asked[c]["openai"] > 0 => asked[c]["groq"] = 0 /\ asked[c]["cerebras"] = 0

Successes(c) == { i \in DOMAIN audit[c] : audit[c][i].success /\ ~audit[c][i].cached }

(* An answer a provider was paid for is audited as a success once, also    *)
(* when it came by the fallback; no failed or cached one is.  Calls that   *)
(* found a malformed entry are left to NoAnswerNoSuccess.                  *)
AnswersAuditedOnce ==
    \A c \in Calls : stale[c] = {} =>
        IF source[c] = "provider"
        THEN \E i \in DOMAIN audit[c] : Successes(c) = {i}
        ELSE Successes(c) = {}

(* "A malformed cached value must be treated as a cache miss" (246): a     *)
(* call that comes to nothing for malformed content has asked a provider.  *)
MalformedEntryIsAMiss ==
    \A c \in Calls : raised[c] = "json" => source[c] = "provider" /\ content[c] = "malformed"

(* What does not parse is not kept, whatever order calls with one prompt   *)
(* take: a malformed entry for a schema is an old one.                     *)
MalformedIsNotKept ==
    [][\A p \in Providers, q \in Structured :
           cache'[p][q] = "malformed" => cache[p][q] = "malformed"]_vars

(* "A malformed cached value must be treated as a cache miss" (246): then  *)
(* a call without an answer is not audited as one that got it.             *)
NoAnswerNoSuccess ==
    \A c \in Calls : source[c] # "provider" => Successes(c) = {}

(* A call ends, even if no provider ever answers.                          *)
EveryCallEnds == \A c \in Calls : pc[c] = "lookup" ~> pc[c] = "done"

=============================================================================
