-------------------------- MODULE LLMService_proofs --------------------------
(***************************************************************************)
(* Proofs about LLMService, for any number of calls, prompts and attempts: *)
(* its variables keep their types, the requests of a call are bounded, a   *)
(* malformed entry is a miss, none is made, and an answer is audited as a  *)
(* success once.                                                           *)
(***************************************************************************)
EXTENDS LLMService, TLAPS

-----------------------------------------------------------------------------
(* Types *)

(* Adding a record to a list of records makes another.                     *)
LEMMA AppendType ==
    ASSUME NEW list \in Seq(Records), NEW one \in Records
    PROVE  Append(list, one) \in Seq(Records)
OBVIOUS

(* The record of the outer request is a list of records.                   *)
LEMMA OuterRecordType ==
    ASSUME TypeOK, NEW c \in Calls
    PROVE  OuterRecord(c) \in Seq(Records)
<1>1. ("groq" \in stale[c]) \in BOOLEAN
  OBVIOUS
<1>2. [provider |-> "groq", success |-> "groq" \in stale[c], cached |-> FALSE] \in Records
  BY <1>1 DEF Records, Providers
<1>3. << [provider |-> "groq", success |-> "groq" \in stale[c], cached |-> FALSE] >> \in Seq(Records)
  BY <1>2
<1>4. << >> \in Seq(Records)
  OBVIOUS
<1> QED
  BY <1>3, <1>4 DEF OuterRecord

(* So is a list of one record of the own request.                          *)
LEMMA RecordedType ==
    ASSUME TypeOK, NEW c \in Calls, NEW success \in BOOLEAN, NEW cached \in BOOLEAN
    PROVE  /\ Recorded(c, success, cached) \in Records
           /\ << Recorded(c, success, cached) >> \in Seq(Records)
<1>1. Recorded(c, success, cached) \in Records
  BY DEF TypeOK, Recorded, Records
<1> QED
  BY <1>1

(* A call that leaves ends with what it is said to have raised and audited. *)
LEMMA LeaveType ==
    ASSUME TypeOK, NEW c \in Calls, NEW error \in Errors \cup {None},
           NEW records \in Seq(Records), Leave(c, error, records)
    PROVE  /\ pc' \in [Calls -> Started \cup {"idle", "done"}]
           /\ raised' \in [Calls -> Errors \cup {None}]
           /\ audit' \in [Calls -> Seq(Records)]
<1>1. audit[c] \o records \o OuterRecord(c) \in Seq(Records)
  BY OuterRecordType DEF TypeOK
<1> QED
  BY <1>1 DEF TypeOK, Leave

(* Sending a request keeps the types.                                      *)
LEMMA SendType ==
    ASSUME TypeOK, NEW c \in Calls, NEW n \in 0..MaxAttempts, NEW model \in 0..2,
           Send(c, n, model)
    PROVE  /\ attempt' \in [Calls -> 0..MaxAttempts]
           /\ candidate' \in [Calls -> 0..2]
           /\ asked' \in [Calls -> [Providers -> Nat]]
<1>1. [asked[c] EXCEPT ![provider[c]] = @ + 1] \in [Providers -> Nat]
  BY DEF TypeOK
<1> QED
  BY <1>1 DEF TypeOK, Send

(* So does raising.                                                        *)
LEMMA RaiseType ==
    ASSUME TypeOK, NEW c \in Calls, NEW error \in Errors, Raise(c, error)
    PROVE  TypeOK'
<1> DEFINE success == provider[c] \in stale[c]
<1>0. success \in BOOLEAN
  OBVIOUS
<1> HIDE DEF success
<1>1. << Recorded(c, success, FALSE) >> \in Seq(Records)
  BY <1>0, RecordedType
<1>2. Leave(c, error, << Recorded(c, success, FALSE) >>)
  BY DEF Raise, success
<1>3. /\ pc' \in [Calls -> Started \cup {"idle", "done"}]
      /\ raised' \in [Calls -> Errors \cup {None}]
      /\ audit' \in [Calls -> Seq(Records)]
  BY <1>1, <1>2, LeaveType
<1>4. UNCHANGED <<keys, cache, provider, prompt, viaGroq, attempt, tries, candidate, content,
                  source, stale, asked>>
  BY DEF Raise, request, trial
<1> QED
  BY <1>3, <1>4 DEF TypeOK

(* And the steps of a call, one by one.                                    *)
LEMMA CallType ==
    ASSUME TypeOK, NEW c \in Calls, Call(c)
    PROVE  TypeOK'
BY DEF TypeOK, Call, request, trial, Started

(* An entry that fits ends the call with it.                               *)
LEMMA CacheHitType ==
    ASSUME TypeOK, NEW c \in Calls, CacheHit(c)
    PROVE  TypeOK'
<1>1. Leave(c, None, << Recorded(c, TRUE, TRUE) >>)
  BY DEF CacheHit
<1>2. /\ pc' \in [Calls -> Started \cup {"idle", "done"}]
      /\ raised' \in [Calls -> Errors \cup {None}]
      /\ audit' \in [Calls -> Seq(Records)]
  BY <1>1, RecordedType, LeaveType
<1>3. cache[provider[c]][prompt[c]] \in Contents \cup {None}
  BY DEF TypeOK
<1>4. content' \in [Calls -> Contents \cup {None}] /\ source' \in [Calls -> {"cache", "provider", None}]
  BY <1>3 DEF TypeOK, CacheHit, ReadCache
<1>5. UNCHANGED <<keys, cache, provider, prompt, viaGroq, attempt, tries, candidate, stale, asked>>
  BY DEF CacheHit, request, trial
<1> QED
  BY <1>2, <1>4, <1>5 DEF TypeOK

(* A miss leads to the first request or to a missing key.                  *)
LEMMA CacheMissType ==
    ASSUME TypeOK, NEW c \in Calls, CacheMiss(c)
    PROVE  TypeOK'
<1> DEFINE Seen(found) == IF found = None THEN << >> ELSE << Recorded(c, TRUE, TRUE) >>
<1>1. UNCHANGED <<keys, cache, provider, prompt, viaGroq, content, source>>
  BY DEF CacheMiss, request
<1>2. PICK found \in ReadCache(c) :
        IF provider[c] \in keys
        THEN /\ pc' = [pc EXCEPT ![c] = "asking"]
             /\ \E n \in Models(provider[c]) : tries' = [tries EXCEPT ![c] = n]
             /\ Send(c, 1, 1)
             /\ audit' = [audit EXCEPT ![c] = @ \o Seen(found)]
             /\ UNCHANGED raised
        ELSE /\ Leave(c, "configuration", Seen(found))
             /\ UNCHANGED <<trial, asked>>
  BY DEF CacheMiss
<1>3. << Recorded(c, TRUE, TRUE) >> \in Seq(Records)
  BY RecordedType
<1>4. Seen(found) \in Seq(Records)
  <2>1. CASE found = None
    BY <2>1
  <2>2. CASE found # None
    BY <1>3, <2>2
  <2> QED
    BY <2>1, <2>2
<1> HIDE DEF Seen
<1>7. stale' \in [Calls -> SUBSET Providers]
  <2>1. PICK f : stale' = IF f = None THEN stale ELSE [stale EXCEPT ![c] = @ \cup {provider[c]}]
    BY DEF CacheMiss
  <2>2. stale[c] \cup {provider[c]} \in SUBSET Providers
    BY DEF TypeOK
  <2> QED
    BY <2>1, <2>2 DEF TypeOK
<1>5. CASE provider[c] \in keys
  <2>1. audit' \in [Calls -> Seq(Records)]
    <3>1. audit[c] \in Seq(Records)
      BY DEF TypeOK
    <3>2. audit[c] \o Seen(found) \in Seq(Records)
      BY <1>4, <3>1
    <3> QED
      BY <1>2, <1>5, <3>2 DEF TypeOK
  <2>2. Send(c, 1, 1) /\ 1 \in 0..MaxAttempts /\ 1 \in 0..2
    BY <1>2, <1>5, AttemptsAssumption
  <2>3. /\ attempt' \in [Calls -> 0..MaxAttempts]
        /\ candidate' \in [Calls -> 0..2]
        /\ asked' \in [Calls -> [Providers -> Nat]]
    BY <2>2, SendType
  <2>4. raised' = raised /\ pc' = [pc EXCEPT ![c] = "asking"]
    BY <1>2, <1>5
  <2>5. tries' \in [Calls -> 1..2]
    <3>1. PICK n \in Models(provider[c]) : tries' = [tries EXCEPT ![c] = n]
      BY <1>2, <1>5
    <3>2. n \in 1..2
      BY DEF Models
    <3> QED
      BY <3>1, <3>2 DEF TypeOK
  <2> QED
    BY <1>1, <1>7, <2>1, <2>3, <2>4, <2>5 DEF TypeOK, Started
<1>6. CASE provider[c] \notin keys
  <2>1. Leave(c, "configuration", Seen(found)) /\ UNCHANGED <<attempt, tries, candidate, asked>>
    BY <1>2, <1>6 DEF trial
  <2>2. "configuration" \in Errors \cup {None}
    BY DEF Errors
  <2>3. /\ pc' \in [Calls -> Started \cup {"idle", "done"}]
        /\ raised' \in [Calls -> Errors \cup {None}]
        /\ audit' \in [Calls -> Seq(Records)]
    BY <1>4, <2>1, <2>2, LeaveType
  <2> QED
    BY <1>1, <1>7, <2>1, <2>3 DEF TypeOK
<1> QED
  BY <1>5, <1>6

(* An answer is to be stored, or it does not fit.                          *)
LEMMA AnsweredType ==
    ASSUME TypeOK, NEW c \in Calls, Answered(c)
    PROVE  TypeOK'
<1>1. PICK got \in Contents :
        /\ content' = [content EXCEPT ![c] = got]
        /\ source' = [source EXCEPT ![c] = "provider"]
        /\ IF Fits(prompt[c], got)
           THEN /\ pc' = [pc EXCEPT ![c] = "storing"]
                /\ audit' = [audit EXCEPT ![c] = Append(@, Recorded(c, TRUE, FALSE))]
                /\ UNCHANGED raised
           ELSE Leave(c, "json", << Recorded(c, TRUE, FALSE) >>)
  BY DEF Answered
<1>2. UNCHANGED <<keys, cache, provider, prompt, viaGroq, attempt, tries, candidate, stale, asked>>
  BY DEF Answered, request, trial
<1>3. /\ Recorded(c, TRUE, FALSE) \in Records
      /\ << Recorded(c, TRUE, FALSE) >> \in Seq(Records)
  BY RecordedType
<1>4. /\ pc' \in [Calls -> Started \cup {"idle", "done"}]
      /\ raised' \in [Calls -> Errors \cup {None}]
      /\ audit' \in [Calls -> Seq(Records)]
  <2>1. CASE Fits(prompt[c], got)
    <3>1. audit[c] \in Seq(Records)
      BY DEF TypeOK
    <3>2. Append(audit[c], Recorded(c, TRUE, FALSE)) \in Seq(Records)
      BY <1>3, <3>1, AppendType
    <3>3. audit' \in [Calls -> Seq(Records)]
      BY <1>1, <2>1, <3>2 DEF TypeOK
    <3> QED
      BY <1>1, <2>1, <3>3 DEF TypeOK, Started
  <2>2. CASE ~Fits(prompt[c], got)
    <3>1. "json" \in Errors \cup {None}
      BY DEF Errors
    <3> QED
      BY <1>1, <1>3, <2>2, <3>1, LeaveType
  <2> QED
    BY <2>1, <2>2
<1>5. /\ content' \in [Calls -> Contents \cup {None}]
      /\ source' \in [Calls -> {"cache", "provider", None}]
  BY <1>1 DEF TypeOK
<1> QED
  BY <1>2, <1>4, <1>5 DEF TypeOK

(* Storing it changes one entry.                                           *)
LEMMA StoreType ==
    ASSUME TypeOK, NEW c \in Calls, Store(c)
    PROVE  TypeOK'
<1>1. Leave(c, None, << >>) /\ << >> \in Seq(Records)
  BY DEF Store
<1>2. /\ pc' \in [Calls -> Started \cup {"idle", "done"}]
      /\ raised' \in [Calls -> Errors \cup {None}]
      /\ audit' \in [Calls -> Seq(Records)]
  BY <1>1, LeaveType
<1>3. PICK kept \in { content[c], cache[provider[c]][prompt[c]] } :
        cache' = [cache EXCEPT ![provider[c]][prompt[c]] = kept]
  BY DEF Store
<1>4. cache[provider[c]] \in [Prompts -> Contents \cup {None}] /\ prompt[c] \in Prompts
  BY DEF TypeOK
<1>5. kept \in Contents \cup {None}
  BY <1>4 DEF TypeOK
<1>6. [cache[provider[c]] EXCEPT ![prompt[c]] = kept] \in [Prompts -> Contents \cup {None}]
  BY <1>4, <1>5
<1>7. cache' \in [Providers -> [Prompts -> Contents \cup {None}]]
  BY <1>3, <1>6 DEF TypeOK
<1>8. UNCHANGED <<keys, provider, prompt, viaGroq, attempt, tries, candidate, content, source, stale, asked>>
  BY DEF Store, request, trial
<1> QED
  BY <1>2, <1>7, <1>8 DEF TypeOK

(* The second model is asked, or the call fails.                           *)
LEMMA ModelMissingType ==
    ASSUME TypeOK, NEW c \in Calls, ModelMissing(c)
    PROVE  TypeOK'
<1>1. CASE provider[c] = "cerebras" /\ candidate[c] < tries[c]
  <2>1. /\ Send(c, attempt[c], candidate[c] + 1)
        /\ UNCHANGED <<keys, cache, pc, provider, prompt, viaGroq, tries, content, source,
                        stale, raised, audit>>
    BY <1>1 DEF ModelMissing, request
  <2>2. attempt[c] \in 0..MaxAttempts /\ candidate[c] \in 0..2 /\ tries[c] \in 1..2
    BY DEF TypeOK
  <2>3. candidate[c] + 1 \in 0..2
    BY <1>1, <2>2
  <2>4. /\ attempt' \in [Calls -> 0..MaxAttempts]
        /\ candidate' \in [Calls -> 0..2]
        /\ asked' \in [Calls -> [Providers -> Nat]]
    BY <2>1, <2>2, <2>3, SendType
  <2> QED
    BY <2>1, <2>4 DEF TypeOK
<1>2. CASE ~(provider[c] = "cerebras" /\ candidate[c] < tries[c])
  BY <1>2, RaiseType DEF ModelMissing, Errors
<1> QED
  BY <1>1, <1>2

(* A call may wait.                                                        *)
LEMMA BackOffType ==
    ASSUME TypeOK, NEW c \in Calls, BackOff(c)
    PROVE  TypeOK'
BY DEF TypeOK, BackOff, request, trial, Started

(* It may start again at Cerebras.                                         *)
LEMMA FallBackType ==
    ASSUME TypeOK, NEW c \in Calls, FallBack(c)
    PROVE  TypeOK'
BY AttemptsAssumption DEF TypeOK, FallBack, Started, Providers

(* It may make a further attempt, if it has one.                           *)
LEMMA TryAgainType ==
    ASSUME TypeOK, NEW c \in Calls, attempt[c] < MaxAttempts, TryAgain(c)
    PROVE  TypeOK'
<1>1. /\ Send(c, attempt[c] + 1, 1)
      /\ pc' = [pc EXCEPT ![c] = "asking"]
      /\ UNCHANGED <<keys, cache, provider, prompt, viaGroq, tries, content, source, stale, raised, audit>>
  BY DEF TryAgain, request
<1>2. attempt[c] + 1 \in 0..MaxAttempts /\ 1 \in 0..2
  BY AttemptsAssumption DEF TypeOK
<1>3. /\ attempt' \in [Calls -> 0..MaxAttempts]
      /\ candidate' \in [Calls -> 0..2]
      /\ asked' \in [Calls -> [Providers -> Nat]]
  BY <1>1, <1>2, SendType
<1> QED
  BY <1>1, <1>3 DEF TypeOK, Started

(* It may be cancelled.                                                    *)
LEMMA CancelledType ==
    ASSUME TypeOK, NEW c \in Calls, Cancelled(c)
    PROVE  TypeOK'
<1> DEFINE Last == IF pc[c] \in {"asking", "backoff"} THEN << Recorded(c, FALSE, FALSE) >> ELSE << >>
<1>1. << Recorded(c, FALSE, FALSE) >> \in Seq(Records)
  BY RecordedType
<1>2. Last \in Seq(Records)
  <2>1. CASE pc[c] \in {"asking", "backoff"}
    BY <1>1, <2>1
  <2>2. CASE pc[c] \notin {"asking", "backoff"}
    BY <2>2
  <2> QED
    BY <2>1, <2>2
<1>3. Leave(c, "cancelled", Last)
  BY DEF Cancelled
<1> HIDE DEF Last
<1>4. "cancelled" \in Errors \cup {None}
  BY DEF Errors
<1>5. /\ pc' \in [Calls -> Started \cup {"idle", "done"}]
      /\ raised' \in [Calls -> Errors \cup {None}]
      /\ audit' \in [Calls -> Seq(Records)]
  BY <1>2, <1>3, <1>4, LeaveType
<1>6. UNCHANGED <<keys, cache, provider, prompt, viaGroq, attempt, tries, candidate, content,
                  source, stale, asked>>
  BY DEF Cancelled, request, trial
<1> QED
  BY <1>5, <1>6 DEF TypeOK

(* Entries expire.                                                         *)
LEMMA ExpireType ==
    ASSUME TypeOK, Expire
    PROVE  TypeOK'
<1>1. PICK p \in Providers, q \in Prompts : cache' = [cache EXCEPT ![p][q] = None]
  BY DEF Expire
<1>2. cache' \in [Providers -> [Prompts -> Contents \cup {None}]]
  BY <1>1 DEF TypeOK
<1> QED
  BY <1>2 DEF TypeOK, Expire, request, trial

(* No step changes a type.                                                 *)
LEMMA TypeKept ==
    ASSUME CallInvariant, [Next]_vars
    PROVE  TypeOK'
<1>0. TypeOK
  BY DEF CallInvariant
<1>1. ASSUME NEW c \in Calls,
             Call(c) \/ OnItsOwn(c) \/ ProviderDoes(c) \/ TimesOut(c) \/ Cancelled(c)
      PROVE  TypeOK'
  <2>1. CASE Call(c)
    BY <1>0, <2>1, CallType
  <2>2. CASE CacheHit(c)
    BY <1>0, <2>2, CacheHitType
  <2>3. CASE CacheMiss(c)
    BY <1>0, <2>3, CacheMissType
  <2>4. CASE Store(c)
    BY <1>0, <2>4, StoreType
  <2>5. CASE TryAgain(c)
    <3>1. attempt[c] < MaxAttempts
      BY <2>5 DEF CallInvariant, CallInOrder, TryAgain
    <3> QED
      BY <1>0, <2>5, <3>1, TryAgainType
  <2>6. CASE Answered(c)
    BY <1>0, <2>6, AnsweredType
  <2>7. CASE ModelMissing(c)
    BY <1>0, <2>7, ModelMissingType
  <2>8. CASE RateLimited(c)
    <3>1. BackOff(c) \/ FallBack(c) \/ Raise(c, "provider")
      BY <2>8 DEF RateLimited, GiveUpOnLimit
    <3> QED
      BY <1>0, <3>1, BackOffType, FallBackType, RaiseType DEF Errors
  <2>9. CASE Disconnected(c)
    <3>1. BackOff(c) \/ Raise(c, "provider")
      BY <2>9 DEF Disconnected
    <3> QED
      BY <1>0, <3>1, BackOffType, RaiseType DEF Errors
  <2>10. CASE Refused(c)
    BY <1>0, <2>10, RaiseType DEF Refused, Errors
  <2>11. CASE TimesOut(c)
    BY <1>0, <2>11, RaiseType DEF TimesOut, Errors
  <2>12. CASE Cancelled(c)
    BY <1>0, <2>12, CancelledType
  <2> QED
    BY <1>1, <2>1, <2>2, <2>3, <2>4, <2>5, <2>6, <2>7, <2>8, <2>9, <2>10, <2>11, <2>12
       DEF OnItsOwn, ProviderDoes
<1>2. CASE Expire
  BY <1>0, <1>2, ExpireType
<1>3. CASE UNCHANGED vars
  BY <1>0, <1>3 DEF TypeOK, vars, request, trial
<1> QED
  BY <1>1, <1>2, <1>3 DEF Next

-----------------------------------------------------------------------------
(* The requests of a call                                                  *)

Untouched(d) ==
    /\ pc'[d] = pc[d] /\ provider'[d] = provider[d] /\ prompt'[d] = prompt[d]
    /\ viaGroq'[d] = viaGroq[d] /\ attempt'[d] = attempt[d] /\ candidate'[d] = candidate[d]
    /\ content'[d] = content[d] /\ source'[d] = source[d] /\ raised'[d] = raised[d]
    /\ asked'[d] = asked[d]

(* What a step leaves alone stays accounted for.                           *)
LEMMA UntouchedKept ==
    ASSUME NEW d \in Calls, Accounted(d), CallInOrder(d), Untouched(d)
    PROVE  Accounted(d)' /\ CallInOrder(d)'
<1>1. CallInOrder(d)'
  BY DEF CallInOrder, Untouched, Fits
<1>2. ASSUME NEW p \in Providers
      PROVE  MayHaveAsked(d, p)' = MayHaveAsked(d, p)
  BY DEF MayHaveAsked, Untouched
<1>3. Accounted(d)'
  BY <1>2 DEF Accounted, Untouched
<1> QED
  BY <1>1, <1>3

Stays(c) == UNCHANGED <<provider[c], prompt[c], viaGroq[c], attempt[c], candidate[c], asked[c]>>

(* A call that ends, or waits for its next attempt, has sent no more.      *)
LEMMA StaysAccounted ==
    ASSUME TypeOK, NEW c \in Calls, Accounted(c), Stays(c), pc'[c] # "asking"
    PROVE  Accounted(c)'
<1> SUFFICES ASSUME NEW p \in Providers
             PROVE  asked[c][p]' <= MayHaveAsked(c, p)'
  BY DEF Accounted
<1>1. asked[c][p] <= MayHaveAsked(c, p) /\ asked[c][p] \in Nat
  BY DEF Accounted, TypeOK
<1>2. attempt[c] \in Nat /\ candidate[c] \in 0..2
  BY AttemptsAssumption DEF TypeOK
<1>3. asked[c]'[p] = asked[c][p]
  BY DEF Stays
<1>4. CASE p # provider[c]
  BY <1>1, <1>3, <1>4 DEF MayHaveAsked, Stays
<1>5. CASE p = provider[c] /\ p # "cerebras"
  BY <1>1, <1>3, <1>5 DEF MayHaveAsked, Stays
<1>6. CASE p = provider[c] /\ p = "cerebras"
  <2>1. asked[c][p] <= 2 * attempt[c]
    BY <1>1, <1>2, <1>6 DEF MayHaveAsked
  <2>2. MayHaveAsked(c, p)' = 2 * attempt[c]
    BY <1>6 DEF MayHaveAsked, Stays
  <2> QED
    BY <1>3, <2>1, <2>2
<1> QED
  BY <1>4, <1>5, <1>6

(* Leaving ends a call without a further request.                          *)
LEMMA LeaveInOrder ==
    ASSUME CallInvariant, NEW c \in Calls, NEW error, NEW records, Leave(c, error, records),
           UNCHANGED <<provider, prompt, viaGroq, attempt, candidate, asked>>
    PROVE  Accounted(c)' /\ CallInOrder(c)'
<1>1. TypeOK /\ Accounted(c) /\ CallInOrder(c)
  BY DEF CallInvariant
<1>2. pc'[c] = "done" /\ Stays(c)
  BY <1>1 DEF Leave, TypeOK, Stays
<1>3. Accounted(c)'
  BY <1>1, <1>2, StaysAccounted
<1>4. CallInOrder(c)'
  BY <1>1, <1>2 DEF CallInOrder, Stays
<1> QED
  BY <1>3, <1>4

(* A request is accounted for when it is the first of an attempt, or the   *)
(* one to the second model of Cerebras.                                    *)
LEMMA SendAccounted ==
    ASSUME TypeOK, NEW c \in Calls, Accounted(c), pc[c] \in Started,
           NEW n \in Nat, NEW model \in Nat, Send(c, n, model),
           UNCHANGED <<provider, viaGroq>>, pc'[c] = "asking",
           \/ pc[c] # "asking" /\ n = attempt[c] + 1 /\ model = 1
           \/ /\ pc[c] = "asking" /\ provider[c] = "cerebras"
              /\ n = attempt[c] /\ model = candidate[c] + 1
    PROVE  Accounted(c)'
<1> SUFFICES ASSUME NEW p \in Providers
             PROVE  asked[c][p]' <= MayHaveAsked(c, p)'
  BY DEF Accounted
<1>1. asked[c][p] <= MayHaveAsked(c, p) /\ asked[c][p] \in Nat
  BY DEF Accounted, TypeOK
<1>2. attempt[c] \in Nat /\ candidate[c] \in Nat /\ provider[c] \in Providers
  <2>1. attempt[c] \in 0..MaxAttempts /\ candidate[c] \in 0..2 /\ provider[c] \in Providers
    BY DEF TypeOK
  <2> QED
    BY <2>1, AttemptsAssumption
<1>3. asked[c]'[p] = IF p = provider[c] THEN asked[c][p] + 1 ELSE asked[c][p]
  <2>1. asked[c] \in [Providers -> Nat] /\ asked \in [Calls -> [Providers -> Nat]]
    BY DEF TypeOK
  <2>2. asked'[c] = [asked[c] EXCEPT ![provider[c]] = @ + 1]
    BY <2>1 DEF Send
  <2> QED
    BY <1>2, <2>1, <2>2
<1>4. attempt'[c] = n /\ candidate'[c] = model
  BY DEF Send, TypeOK
<1>5. provider'[c] = provider[c] /\ viaGroq'[c] = viaGroq[c]
  OBVIOUS
<1>6. CASE p # provider[c]
  BY <1>1, <1>3, <1>5, <1>6 DEF MayHaveAsked
<1>7. CASE p = provider[c] /\ p # "cerebras"
  BY <1>1, <1>2, <1>3, <1>4, <1>5, <1>7 DEF MayHaveAsked
<1>8. CASE p = provider[c] /\ p = "cerebras"
  <2>1. MayHaveAsked(c, p)' = 2 * (n - 1) + model
    BY <1>4, <1>5, <1>8 DEF MayHaveAsked
  <2>2. asked[c][p] + 1 <= 2 * (n - 1) + model
    BY <1>1, <1>2, <1>8 DEF MayHaveAsked
  <2> QED
    BY <1>3, <1>8, <2>1, <2>2
<1> QED
  BY <1>6, <1>7, <1>8

(* Each step of a call keeps it in order and leaves the others alone.      *)
LEMMA CallStep ==
    ASSUME CallInvariant, NEW c \in Calls, Call(c)
    PROVE  /\ Accounted(c)' /\ CallInOrder(c)'
           /\ \A d \in Calls \ {c} : Untouched(d)
<1>1. TypeOK /\ Accounted(c) /\ CallInOrder(c)
  BY DEF CallInvariant
<1>2. pc'[c] = "lookup" /\ Stays(c)
  BY <1>1 DEF Call, TypeOK, Stays, request, trial
<1>3. Accounted(c)'
  BY <1>1, <1>2, StaysAccounted
<1>4. CallInOrder(c)'
  BY <1>1, <1>2 DEF CallInOrder, Stays, Call
<1>5. \A d \in Calls \ {c} : Untouched(d)
  BY <1>1 DEF Call, TypeOK, Untouched, request, trial
<1> QED
  BY <1>3, <1>4, <1>5

(* A call that raises has ended.                                           *)
LEMMA RaiseStep ==
    ASSUME CallInvariant, NEW c \in Calls, NEW error, Raise(c, error)
    PROVE  /\ Accounted(c)' /\ CallInOrder(c)'
           /\ \A d \in Calls \ {c} : Untouched(d)
<1>1. Leave(c, error, << Recorded(c, provider[c] \in stale[c], FALSE) >>)
  BY DEF Raise
<1>2. UNCHANGED <<provider, prompt, viaGroq, attempt, candidate, content, source, asked>>
  BY DEF Raise, request, trial
<1>3. Accounted(c)' /\ CallInOrder(c)'
  BY <1>1, <1>2, LeaveInOrder
<1>4. \A d \in Calls \ {c} : Untouched(d)
  BY <1>1, <1>2 DEF Leave, CallInvariant, TypeOK, Untouched
<1> QED
  BY <1>3, <1>4

(* So has one that is answered from the cache.                             *)
LEMMA CacheHitStep ==
    ASSUME CallInvariant, NEW c \in Calls, CacheHit(c)
    PROVE  /\ Accounted(c)' /\ CallInOrder(c)'
           /\ \A d \in Calls \ {c} : Untouched(d)
<1>1. Leave(c, None, << Recorded(c, TRUE, TRUE) >>)
  BY DEF CacheHit
<1>2. UNCHANGED <<provider, prompt, viaGroq, attempt, candidate, asked>>
  BY DEF CacheHit, request, trial
<1>3. Accounted(c)' /\ CallInOrder(c)'
  BY <1>1, <1>2, LeaveInOrder
<1>4. PICK found : content' = [content EXCEPT ![c] = found] /\ source' = [source EXCEPT ![c] = "cache"]
  BY DEF CacheHit
<1>5. \A d \in Calls \ {c} : Untouched(d)
  BY <1>1, <1>2, <1>4 DEF Leave, CallInvariant, TypeOK, Untouched
<1> QED
  BY <1>3, <1>5

(* One that sends is at its next attempt, or at the second model.          *)
LEMMA SendStep ==
    ASSUME CallInvariant, NEW c \in Calls, pc[c] \in Started,
           NEW n \in Nat, NEW model \in Nat, Send(c, n, model),
           UNCHANGED <<provider, prompt, viaGroq, content, source, raised>>,
           pc' = [pc EXCEPT ![c] = "asking"],
           \/ pc[c] # "asking" /\ n = attempt[c] + 1 /\ model = 1
           \/ /\ pc[c] = "asking" /\ provider[c] = "cerebras"
              /\ n = attempt[c] /\ model = candidate[c] + 1
    PROVE  /\ Accounted(c)' /\ CallInOrder(c)'
           /\ \A d \in Calls \ {c} : Untouched(d)
<1>1. TypeOK /\ Accounted(c) /\ CallInOrder(c)
  BY DEF CallInvariant
<1>2. pc'[c] = "asking"
  BY <1>1 DEF TypeOK
<1>3. Accounted(c)'
  BY <1>1, <1>2, SendAccounted
<1>4. CallInOrder(c)'
  BY <1>1, <1>2 DEF CallInOrder, Started
<1>5. \A d \in Calls \ {c} : Untouched(d)
  BY <1>1 DEF Send, TypeOK, Untouched
<1> QED
  BY <1>3, <1>4, <1>5

(* A miss is the first request, or the end for want of a key.              *)
LEMMA CacheMissStep ==
    ASSUME CallInvariant, NEW c \in Calls, CacheMiss(c)
    PROVE  /\ Accounted(c)' /\ CallInOrder(c)'
           /\ \A d \in Calls \ {c} : Untouched(d)
<1>1. UNCHANGED <<provider, prompt, viaGroq, content, source>> /\ pc[c] = "lookup"
  BY DEF CacheMiss, request
<1>2. CASE provider[c] \in keys
  <2>1. Send(c, 1, 1) /\ pc' = [pc EXCEPT ![c] = "asking"] /\ UNCHANGED raised
    BY <1>2 DEF CacheMiss
  <2>2. attempt[c] = 0
    BY <1>1 DEF CallInvariant, CallInOrder
  <2>3. pc[c] # "asking" /\ 1 = attempt[c] + 1 /\ pc[c] \in Started
    BY <1>1, <2>2 DEF Started
  <2> QED
    BY <1>1, <2>1, <2>3, SendStep
<1>3. CASE provider[c] \notin keys
  <2>1. PICK records : Leave(c, "configuration", records)
    BY <1>3 DEF CacheMiss
  <2>2. UNCHANGED <<attempt, candidate, asked>>
    BY <1>3 DEF CacheMiss, trial
  <2>3. Accounted(c)' /\ CallInOrder(c)'
    BY <1>1, <2>1, <2>2, LeaveInOrder
  <2>4. \A d \in Calls \ {c} : Untouched(d)
    BY <1>1, <2>1, <2>2 DEF Leave, CallInvariant, TypeOK, Untouched
  <2> QED
    BY <2>3, <2>4
<1> QED
  BY <1>2, <1>3

(* An answer waits to be stored only if it fits.                           *)
LEMMA AnsweredStep ==
    ASSUME CallInvariant, NEW c \in Calls, Answered(c)
    PROVE  /\ Accounted(c)' /\ CallInOrder(c)'
           /\ \A d \in Calls \ {c} : Untouched(d)
<1>1. PICK got \in Contents :
        /\ content' = [content EXCEPT ![c] = got]
        /\ source' = [source EXCEPT ![c] = "provider"]
        /\ IF Fits(prompt[c], got)
           THEN /\ pc' = [pc EXCEPT ![c] = "storing"]
                /\ audit' = [audit EXCEPT ![c] = Append(@, Recorded(c, TRUE, FALSE))]
                /\ UNCHANGED raised
           ELSE Leave(c, "json", << Recorded(c, TRUE, FALSE) >>)
  BY DEF Answered
<1>2. UNCHANGED <<provider, prompt, viaGroq, attempt, candidate, asked>> /\ pc[c] = "asking"
  BY DEF Answered, request, trial
<1>3. TypeOK /\ Accounted(c) /\ CallInOrder(c)
  BY DEF CallInvariant
<1>4. CASE Fits(prompt[c], got)
  <2>1. pc'[c] = "storing" /\ content'[c] = got /\ UNCHANGED raised
    BY <1>1, <1>3, <1>4 DEF TypeOK
  <2>2. Stays(c)
    BY <1>2 DEF Stays
  <2>3. Accounted(c)'
    BY <1>3, <2>1, <2>2, StaysAccounted
  <2>4. Fits(prompt'[c], content'[c])
    BY <1>2, <1>4, <2>1
  <2>5. CallInOrder(c)'
    BY <1>2, <1>3, <2>1, <2>4 DEF CallInOrder, Fits
  <2>6. \A d \in Calls \ {c} : Untouched(d)
    BY <1>1, <1>2, <1>3, <1>4 DEF TypeOK, Untouched
  <2> QED
    BY <2>3, <2>5, <2>6
<1>5. CASE ~Fits(prompt[c], got)
  <2>1. Leave(c, "json", << Recorded(c, TRUE, FALSE) >>)
    BY <1>1, <1>5
  <2>2. Accounted(c)' /\ CallInOrder(c)'
    BY <1>2, <2>1, LeaveInOrder
  <2>3. \A d \in Calls \ {c} : Untouched(d)
    BY <1>1, <1>2, <1>3, <2>1 DEF Leave, TypeOK, Untouched
  <2> QED
    BY <2>2, <2>3
<1> QED
  BY <1>4, <1>5

(* Storing is the end of a call.                                           *)
LEMMA StoreStep ==
    ASSUME CallInvariant, NEW c \in Calls, Store(c)
    PROVE  /\ Accounted(c)' /\ CallInOrder(c)'
           /\ \A d \in Calls \ {c} : Untouched(d)
<1>1. Leave(c, None, << >>)
  BY DEF Store
<1>2. UNCHANGED <<provider, prompt, viaGroq, attempt, candidate, content, source, asked>>
  BY DEF Store, request, trial
<1>3. Accounted(c)' /\ CallInOrder(c)'
  BY <1>1, <1>2, LeaveInOrder
<1>4. \A d \in Calls \ {c} : Untouched(d)
  BY <1>1, <1>2 DEF Leave, CallInvariant, TypeOK, Untouched
<1> QED
  BY <1>3, <1>4

(* A missing model is one more request, or the end.                        *)
LEMMA ModelMissingStep ==
    ASSUME CallInvariant, NEW c \in Calls, ModelMissing(c)
    PROVE  /\ Accounted(c)' /\ CallInOrder(c)'
           /\ \A d \in Calls \ {c} : Untouched(d)
<1>1. CASE provider[c] = "cerebras" /\ candidate[c] < tries[c]
  <2>1. /\ Send(c, attempt[c], candidate[c] + 1) /\ pc[c] = "asking"
        /\ UNCHANGED <<pc, provider, prompt, viaGroq, content, source, raised>>
    BY <1>1 DEF ModelMissing, request
  <2>2. TypeOK
    BY DEF CallInvariant
  <2>3. attempt[c] \in 0..MaxAttempts /\ candidate[c] \in 0..2
    BY <2>2 DEF TypeOK
  <2>4. attempt[c] \in Nat /\ candidate[c] + 1 \in Nat
    BY <2>3, AttemptsAssumption
  <2>5. pc' = [pc EXCEPT ![c] = "asking"] /\ pc[c] \in Started
    BY <2>1, <2>2 DEF TypeOK, Started
  <2> QED
    BY <1>1, <2>1, <2>4, <2>5, SendStep
<1>2. CASE ~(provider[c] = "cerebras" /\ candidate[c] < tries[c])
  BY <1>2, RaiseStep DEF ModelMissing
<1> QED
  BY <1>1, <1>2

(* A call waits only while it has an attempt left.                         *)
LEMMA BackOffStep ==
    ASSUME CallInvariant, NEW c \in Calls, pc[c] = "asking", MayRetry(c), BackOff(c)
    PROVE  /\ Accounted(c)' /\ CallInOrder(c)'
           /\ \A d \in Calls \ {c} : Untouched(d)
<1>1. TypeOK /\ Accounted(c) /\ CallInOrder(c)
  BY DEF CallInvariant
<1>2. UNCHANGED <<provider, prompt, viaGroq, attempt, candidate, content, source, raised, asked>>
  BY DEF BackOff, request, trial
<1>3. pc'[c] = "backoff" /\ Stays(c)
  BY <1>1, <1>2 DEF BackOff, TypeOK, Stays
<1>4. Accounted(c)'
  BY <1>1, <1>3, StaysAccounted
<1>5. CallInOrder(c)'
  BY <1>1, <1>2, <1>3 DEF CallInOrder, MayRetry
<1>6. \A d \in Calls \ {c} : Untouched(d)
  BY <1>1, <1>2 DEF BackOff, TypeOK, Untouched
<1> QED
  BY <1>4, <1>5, <1>6

(* What Groq was asked before the fallback is all that it will be asked.   *)
LEMMA FallBackStep ==
    ASSUME CallInvariant, NEW c \in Calls, pc[c] = "asking", provider[c] = "groq", FallBack(c)
    PROVE  /\ Accounted(c)' /\ CallInOrder(c)'
           /\ \A d \in Calls \ {c} : Untouched(d)
<1>1. TypeOK /\ Accounted(c) /\ CallInOrder(c)
  BY DEF CallInvariant
<1>2. UNCHANGED <<prompt, content, source, raised, asked>>
  BY DEF FallBack
<1>3. /\ provider'[c] = "cerebras" /\ viaGroq'[c] = TRUE /\ pc'[c] = "lookup"
      /\ attempt'[c] = 0
  BY <1>1 DEF FallBack, TypeOK
<1>4. ~viaGroq[c]
  BY <1>1 DEF CallInOrder
<1>5. attempt[c] \in Nat /\ attempt[c] <= MaxAttempts
  <2>1. attempt[c] \in 0..MaxAttempts
    BY <1>1 DEF TypeOK
  <2> QED
    BY <2>1, AttemptsAssumption
<1>6. Accounted(c)'
  <2> SUFFICES ASSUME NEW p \in Providers
               PROVE  asked'[c][p] <= MayHaveAsked(c, p)'
    BY DEF Accounted
  <2>1. asked[c][p] <= MayHaveAsked(c, p) /\ asked[c][p] \in Nat
    BY <1>1 DEF Accounted, TypeOK
  <2>2. MayHaveAsked(c, p)' = IF p = "groq" THEN MaxAttempts ELSE 0
    BY <1>3 DEF MayHaveAsked
  <2>3. MayHaveAsked(c, p) = IF p = "groq" THEN attempt[c] ELSE 0
    BY <1>4 DEF MayHaveAsked
  <2> QED
    BY <1>2, <1>5, <2>1, <2>2, <2>3, AttemptsAssumption
<1>7. CallInOrder(c)'
  BY <1>1, <1>2, <1>3 DEF CallInOrder
<1>8. \A d \in Calls \ {c} : Untouched(d)
  BY <1>1, <1>2 DEF FallBack, TypeOK, Untouched
<1> QED
  BY <1>6, <1>7, <1>8

(* A rate limit means waiting, falling back or giving up.                  *)
LEMMA RateLimitedStep ==
    ASSUME CallInvariant, NEW c \in Calls, RateLimited(c)
    PROVE  /\ Accounted(c)' /\ CallInOrder(c)'
           /\ \A d \in Calls \ {c} : Untouched(d)
<1>1. pc[c] = "asking"
  BY DEF RateLimited
<1>2. \/ MayRetry(c) /\ BackOff(c)
      \/ provider[c] = "groq" /\ FallBack(c)
      \/ Raise(c, "provider")
  BY DEF RateLimited, GiveUpOnLimit
<1> QED
  BY <1>1, <1>2, BackOffStep, FallBackStep, RaiseStep

(* A lost connection means waiting or giving up.                           *)
LEMMA DisconnectedStep ==
    ASSUME CallInvariant, NEW c \in Calls, Disconnected(c)
    PROVE  /\ Accounted(c)' /\ CallInOrder(c)'
           /\ \A d \in Calls \ {c} : Untouched(d)
<1>1. pc[c] = "asking" /\ ((MayRetry(c) /\ BackOff(c)) \/ Raise(c, "provider"))
  BY DEF Disconnected
<1> QED
  BY <1>1, BackOffStep, RaiseStep

(* The next attempt begins with the first model.                           *)
LEMMA TryAgainStep ==
    ASSUME CallInvariant, NEW c \in Calls, TryAgain(c)
    PROVE  /\ Accounted(c)' /\ CallInOrder(c)'
           /\ \A d \in Calls \ {c} : Untouched(d)
<1>1. /\ Send(c, attempt[c] + 1, 1) /\ pc[c] = "backoff"
      /\ pc' = [pc EXCEPT ![c] = "asking"]
      /\ UNCHANGED <<provider, prompt, viaGroq, content, source, raised>>
  BY DEF TryAgain, request
<1>2. attempt[c] \in 0..MaxAttempts
  BY DEF CallInvariant, TypeOK
<1>3. attempt[c] + 1 \in Nat /\ pc[c] \in Started /\ pc[c] # "asking"
  BY <1>1, <1>2, AttemptsAssumption DEF Started
<1> QED
  BY <1>1, <1>3, SendStep

(* A cancelled call has ended.                                             *)
LEMMA CancelledStep ==
    ASSUME CallInvariant, NEW c \in Calls, Cancelled(c)
    PROVE  /\ Accounted(c)' /\ CallInOrder(c)'
           /\ \A d \in Calls \ {c} : Untouched(d)
<1>1. PICK records : Leave(c, "cancelled", records)
  BY DEF Cancelled
<1>2. UNCHANGED <<provider, prompt, viaGroq, attempt, candidate, content, source, asked>>
  BY DEF Cancelled, request, trial
<1>3. Accounted(c)' /\ CallInOrder(c)'
  BY <1>1, <1>2, LeaveInOrder
<1>4. \A d \in Calls \ {c} : Untouched(d)
  BY <1>1, <1>2 DEF Leave, CallInvariant, TypeOK, Untouched
<1> QED
  BY <1>3, <1>4

(* A step of a call keeps it in order and leaves the others alone.         *)
LEMMA StepIsOfOne ==
    ASSUME CallInvariant, NEW c \in Calls,
           Call(c) \/ OnItsOwn(c) \/ ProviderDoes(c) \/ TimesOut(c) \/ Cancelled(c)
    PROVE  /\ Accounted(c)' /\ CallInOrder(c)'
           /\ \A d \in Calls \ {c} : Untouched(d)
<1>1. CASE Call(c)
  BY <1>1, CallStep
<1>2. CASE CacheHit(c)
  BY <1>2, CacheHitStep
<1>3. CASE CacheMiss(c)
  BY <1>3, CacheMissStep
<1>4. CASE Store(c)
  BY <1>4, StoreStep
<1>5. CASE TryAgain(c)
  BY <1>5, TryAgainStep
<1>6. CASE Answered(c)
  BY <1>6, AnsweredStep
<1>7. CASE ModelMissing(c)
  BY <1>7, ModelMissingStep
<1>8. CASE RateLimited(c)
  BY <1>8, RateLimitedStep
<1>9. CASE Disconnected(c)
  BY <1>9, DisconnectedStep
<1>10. CASE Refused(c)
  BY <1>10, RaiseStep DEF Refused
<1>11. CASE TimesOut(c)
  BY <1>11, RaiseStep DEF TimesOut
<1>12. CASE Cancelled(c)
  BY <1>12, CancelledStep
<1> QED
  BY <1>1, <1>2, <1>3, <1>4, <1>5, <1>6, <1>7, <1>8, <1>9, <1>10, <1>11, <1>12
     DEF OnItsOwn, ProviderDoes

(* Every step keeps the inductive invariant.                               *)
LEMMA InvariantKept ==
    ASSUME CallInvariant, [Next]_vars
    PROVE  CallInvariant'
<1>1. TypeOK'
  BY TypeKept
<1>2. \A d \in Calls : Accounted(d) /\ CallInOrder(d)
  BY DEF CallInvariant
<1>3. CASE \E c \in Calls :
             Call(c) \/ OnItsOwn(c) \/ ProviderDoes(c) \/ TimesOut(c) \/ Cancelled(c)
  <2>1. PICK c \in Calls : /\ Accounted(c)' /\ CallInOrder(c)'
                          /\ \A d \in Calls \ {c} : Untouched(d)
    BY <1>3, StepIsOfOne
  <2>2. ASSUME NEW d \in Calls
        PROVE  Accounted(d)' /\ CallInOrder(d)'
    BY <1>2, <2>1, UntouchedKept
  <2> QED
    BY <1>1, <2>2 DEF CallInvariant
<1>4. CASE Expire \/ UNCHANGED vars
  <2>1. \A d \in Calls : Untouched(d)
    BY <1>4 DEF Expire, vars, request, trial, Untouched
  <2>2. \A d \in Calls : Accounted(d)' /\ CallInOrder(d)'
    BY <1>2, <2>1, UntouchedKept
  <2> QED
    BY <1>1, <2>2 DEF CallInvariant
<1> QED
  BY <1>3, <1>4 DEF Next

-----------------------------------------------------------------------------
(* Theorems *)

(* The inductive invariant of execute, for any number of calls that share  *)
(* prompts, any cache to begin with, and any number of attempts.           *)
THEOREM CallInvariantHolds == Spec => []CallInvariant
<1>1. Init => CallInvariant
  <2> SUFFICES ASSUME Init PROVE CallInvariant
    OBVIOUS
  <2>1. << >> \in Seq(Records) /\ 0 \in 0..MaxAttempts /\ 1 \in 1..2 /\ 0 \in 0..2
    BY AttemptsAssumption
  <2>2. TypeOK
    BY <2>1 DEF Init, TypeOK
  <2>3. \A c \in Calls : CallInOrder(c)
    BY DEF Init, CallInOrder
  <2>4. ASSUME NEW c \in Calls, NEW p \in Providers
        PROVE  asked[c][p] <= MayHaveAsked(c, p)
    BY AttemptsAssumption DEF Init, MayHaveAsked
  <2> QED
    BY <2>2, <2>3, <2>4 DEF CallInvariant, Accounted
<1> QED
  BY <1>1, InvariantKept, PTL DEF Spec

(* No call sends a provider more than its attempts allow, whatever limits, *)
(* lost connections, missing models and the fallback do.                   *)
THEOREM RequestsAreBounded == Spec => []RequestsBounded
<1>1. CallInvariant => RequestsBounded
  <2> SUFFICES ASSUME CallInvariant, NEW c \in Calls
               PROVE  /\ asked[c]["groq"] <= MaxAttempts
                      /\ asked[c]["openai"] <= MaxAttempts
                      /\ asked[c]["cerebras"] <= 2 * MaxAttempts
                      /\ asked[c]["openai"] > 0 => /\ asked[c]["groq"] = 0
                                                  /\ asked[c]["cerebras"] = 0
    BY DEF RequestsBounded
  <2>1. TypeOK /\ Accounted(c) /\ CallInOrder(c)
    BY DEF CallInvariant
  <2>2. attempt[c] \in 0..MaxAttempts /\ candidate[c] \in 0..2
    BY <2>1 DEF TypeOK
  <2>3. \A p \in Providers : asked[c][p] \in Nat
    BY <2>1 DEF TypeOK
  <2>4. asked[c]["groq"] <= MayHaveAsked(c, "groq") /\ asked[c]["groq"] \in Nat
    BY <2>1, <2>3 DEF Accounted, Providers
  <2>5. asked[c]["openai"] <= MayHaveAsked(c, "openai") /\ asked[c]["openai"] \in Nat
    BY <2>1, <2>3 DEF Accounted, Providers
  <2>6. asked[c]["cerebras"] <= MayHaveAsked(c, "cerebras") /\ asked[c]["cerebras"] \in Nat
    BY <2>1, <2>3 DEF Accounted, Providers
  <2>7. asked[c]["groq"] <= MaxAttempts
    BY <2>2, <2>4, AttemptsAssumption DEF MayHaveAsked
  <2>8. asked[c]["openai"] <= MaxAttempts
    BY <2>2, <2>5, AttemptsAssumption DEF MayHaveAsked
  <2>9. asked[c]["cerebras"] <= 2 * MaxAttempts
    BY <2>2, <2>6, AttemptsAssumption DEF MayHaveAsked
  <2>10. ASSUME asked[c]["openai"] > 0
         PROVE  asked[c]["groq"] = 0 /\ asked[c]["cerebras"] = 0
    <3>1. provider[c] = "openai"
      BY <2>5, <2>10 DEF MayHaveAsked
    <3>2. ~viaGroq[c]
      BY <2>1, <3>1 DEF CallInOrder
    <3>3. MayHaveAsked(c, "groq") = 0 /\ MayHaveAsked(c, "cerebras") = 0
      BY <3>1, <3>2 DEF MayHaveAsked
    <3> QED
      BY <2>4, <2>6, <3>3
  <2> QED
    BY <2>7, <2>8, <2>9, <2>10
<1> QED
  BY <1>1, CallInvariantHolds, PTL

(* No call makes a malformed entry for a prompt with a schema.             *)
THEOREM MalformedIsNeverKept == Spec => MalformedIsNotKept
<1> DEFINE Kept == \A p \in Providers, q \in Structured :
                       cache'[p][q] = "malformed" => cache[p][q] = "malformed"
<1>1. ASSUME CallInvariant, NEW c \in Calls, Store(c)
      PROVE  Kept
  <2> SUFFICES ASSUME NEW p \in Providers, NEW q \in Structured, cache'[p][q] = "malformed"
               PROVE  cache[p][q] = "malformed"
    OBVIOUS
  <2>1. TypeOK /\ CallInOrder(c) /\ pc[c] = "storing"
    BY <1>1 DEF CallInvariant, Store
  <2>2. PICK kept \in { content[c], cache[provider[c]][prompt[c]] } :
          cache' = [cache EXCEPT ![provider[c]][prompt[c]] = kept]
    BY <1>1 DEF Store
  <2>3. /\ cache \in [Providers -> [Prompts -> Contents \cup {None}]]
        /\ provider[c] \in Providers /\ prompt[c] \in Prompts /\ q \in Prompts
    BY <2>1, PromptsAssumption DEF TypeOK
  <2>4. CASE p = provider[c] /\ q = prompt[c]
    <3>1. cache'[p][q] = kept
      BY <2>2, <2>3, <2>4
    <3>2. content[c] = "wellformed"
      BY <2>1, <2>4 DEF CallInOrder, Fits
    <3> QED
      BY <2>2, <2>4, <3>1, <3>2
  <2>5. CASE ~(p = provider[c] /\ q = prompt[c])
    <3>1. cache'[p][q] = cache[p][q]
      BY <2>2, <2>3, <2>5
    <3> QED
      BY <3>1
  <2> QED
    BY <2>4, <2>5
<1>2. ASSUME CallInvariant, Expire
      PROVE  Kept
  <2> SUFFICES ASSUME NEW p \in Providers, NEW q \in Structured, cache'[p][q] = "malformed"
               PROVE  cache[p][q] = "malformed"
    OBVIOUS
  <2>1. PICK pp \in Providers, qq \in Prompts : cache' = [cache EXCEPT ![pp][qq] = None]
    BY <1>2 DEF Expire
  <2>2. cache \in [Providers -> [Prompts -> Contents \cup {None}]] /\ q \in Prompts
    BY <1>2, PromptsAssumption DEF CallInvariant, TypeOK
  <2>3. None # "malformed"
    BY NoneAssumption DEF Contents
  <2>4. CASE p = pp /\ q = qq
    BY <2>1, <2>2, <2>3, <2>4
  <2>5. CASE ~(p = pp /\ q = qq)
    <3>1. cache'[p][q] = cache[p][q]
      BY <2>1, <2>2, <2>5
    <3> QED
      BY <3>1
  <2> QED
    BY <2>4, <2>5
<1>3. ASSUME NEW c \in Calls,
             \/ Call(c) \/ CacheHit(c) \/ CacheMiss(c) \/ TryAgain(c)
             \/ ProviderDoes(c) \/ TimesOut(c) \/ Cancelled(c)
      PROVE  UNCHANGED cache
  BY <1>3 DEF Call, CacheHit, CacheMiss, TryAgain, ProviderDoes, TimesOut, Cancelled, Answered,
       ModelMissing, RateLimited, GiveUpOnLimit, FallBack, BackOff, Disconnected, Refused, Raise
<1>4. CallInvariant /\ [Next]_vars => [Kept]_vars
  <2> SUFFICES ASSUME CallInvariant, Next PROVE Kept
    OBVIOUS
  <2>1. UNCHANGED cache => Kept
    OBVIOUS
  <2> QED
    BY <1>1, <1>2, <1>3, <2>1 DEF Next, OnItsOwn
<1> QED
  BY <1>4, CallInvariantHolds, PTL DEF Spec, MalformedIsNotKept

(* Only an answer of a provider ends a call for its content; an entry of   *)
(* the cache never does.                                                   *)
LEMMA OnlyAnswersAreMalformed ==
    ASSUME CallInvariant, NEW c \in Calls, raised'[c] = "json",
           Call(c) \/ OnItsOwn(c) \/ ProviderDoes(c) \/ TimesOut(c) \/ Cancelled(c)
    PROVE  source'[c] = "provider" /\ content'[c] = "malformed"
<1>1. TypeOK /\ CallInOrder(c) /\ None # "json"
  BY NoneAssumption DEF CallInvariant, Errors
<1>2. pc[c] # "done"
  BY DEF Call, OnItsOwn, ProviderDoes, TimesOut, Cancelled, CacheHit, CacheMiss, Store, TryAgain,
       Answered, ModelMissing, RateLimited, Disconnected, Refused, Started
<1>3. raised[c] # "json"
  BY <1>1, <1>2 DEF CallInOrder
<1>4. ASSUME NEW error, NEW records, Leave(c, error, records)
      PROVE  error = "json"
  BY <1>1, <1>4 DEF Leave, TypeOK
<1>5. ~Call(c) /\ ~TryAgain(c)
  BY <1>3 DEF Call, TryAgain
<1>6. \A error : Raise(c, error) => error = "json"
  BY <1>4 DEF Raise
<1>7. ~TimesOut(c) /\ ~Refused(c) /\ ~Disconnected(c)
  BY <1>3, <1>6 DEF TimesOut, Refused, Disconnected, BackOff
<1>8. ~ModelMissing(c)
  BY <1>3, <1>6 DEF ModelMissing
<1>9. ~RateLimited(c)
  BY <1>3, <1>6 DEF RateLimited, GiveUpOnLimit, BackOff, FallBack
<1>10. ~Cancelled(c) /\ ~Store(c) /\ ~CacheHit(c)
  BY <1>1, <1>4 DEF Cancelled, Store, CacheHit
<1>11. ~CacheMiss(c)
  <2>1. ASSUME CacheMiss(c), provider[c] \in keys
        PROVE  raised'[c] = raised[c]
    BY <2>1 DEF CacheMiss
  <2>2. ASSUME CacheMiss(c), provider[c] \notin keys
        PROVE  \E records : Leave(c, "configuration", records)
    BY <2>2 DEF CacheMiss
  <2> QED
    BY <1>3, <1>4, <2>1, <2>2
<1>12. Answered(c)
  BY <1>5, <1>7, <1>8, <1>9, <1>10, <1>11 DEF OnItsOwn, ProviderDoes
<1>13. PICK got \in Contents :
         /\ content' = [content EXCEPT ![c] = got]
         /\ source' = [source EXCEPT ![c] = "provider"]
         /\ Fits(prompt[c], got) => UNCHANGED raised
  BY <1>12 DEF Answered
<1>14. got = "malformed"
  BY <1>3, <1>13 DEF Fits, Contents
<1> QED
  BY <1>1, <1>13, <1>14 DEF TypeOK

(* A malformed entry is a cache miss: a call that ends for its content has *)
(* asked a provider for it.                                                *)
THEOREM MalformedEntriesAreMisses == Spec => []MalformedEntryIsAMiss
<1>1. Init => MalformedEntryIsAMiss
  BY NoneAssumption DEF Init, MalformedEntryIsAMiss, Errors
<1>2. ASSUME CallInvariant, MalformedEntryIsAMiss, [Next]_vars
      PROVE  MalformedEntryIsAMiss'
  <2> SUFFICES ASSUME NEW d \in Calls, raised'[d] = "json"
               PROVE  source'[d] = "provider" /\ content'[d] = "malformed"
    BY DEF MalformedEntryIsAMiss
  <2>1. CASE Untouched(d)
    BY <1>2, <2>1 DEF Untouched, MalformedEntryIsAMiss
  <2>2. CASE ~Untouched(d)
    <3>1. ~Expire /\ ~UNCHANGED vars
      BY <2>2 DEF Expire, vars, request, trial, Untouched
    <3>2. PICK c \in Calls :
            Call(c) \/ OnItsOwn(c) \/ ProviderDoes(c) \/ TimesOut(c) \/ Cancelled(c)
      BY <1>2, <3>1 DEF Next
    <3>3. c = d
      BY <1>2, <2>2, <3>2, StepIsOfOne
    <3> QED
      BY <1>2, <3>2, <3>3, OnlyAnswersAreMalformed
  <2> QED
    BY <2>1, <2>2
<1> QED
  BY <1>1, <1>2, CallInvariantHolds, PTL DEF Spec

-----------------------------------------------------------------------------
(* What a call audits                                                      *)

(* The records of answers that a provider was paid for                     *)
Paid(list) == { i \in DOMAIN list : list[i].success /\ ~list[i].cached }

Settled(c) ==
    stale[c] = {} =>
        IF source[c] = "provider"
        THEN pc[c] \in {"storing", "done"} /\ \E i \in DOMAIN audit[c] : Paid(audit[c]) = {i}
        ELSE pc[c] # "storing" /\ Paid(audit[c]) = {}

(* Records of other things do not change which answers are audited.        *)
LEMMA PaidJoined ==
    ASSUME NEW list \in Seq(Records), NEW more \in Seq(Records), Paid(more) = {}
    PROVE  list \o more \in Seq(Records) /\ Paid(list \o more) = Paid(list)
           /\ DOMAIN list \subseteq DOMAIN (list \o more)
<1>1. /\ Len(list) \in Nat /\ Len(more) \in Nat
      /\ DOMAIN list = 1..Len(list) /\ DOMAIN more = 1..Len(more)
      /\ list \o more \in Seq(Records)
      /\ DOMAIN (list \o more) = 1..(Len(list) + Len(more))
      /\ \A i \in DOMAIN list : (list \o more)[i] = list[i]
  OBVIOUS
<1>2. ASSUME NEW i \in DOMAIN (list \o more), i \notin DOMAIN list
      PROVE  (i - Len(list)) \in DOMAIN more /\ (list \o more)[i] = more[i - Len(list)]
  BY <1>1, <1>2
<1>3. \A i \in DOMAIN more : ~(more[i].success /\ ~more[i].cached)
  BY DEF Paid
<1>4. DOMAIN list \subseteq DOMAIN (list \o more)
  BY <1>1
<1>5. ASSUME NEW i \in DOMAIN (list \o more)
      PROVE  i \in Paid(list \o more) <=> i \in Paid(list)
  <2>1. CASE i \in DOMAIN list
    BY <1>1, <2>1 DEF Paid
  <2>2. CASE i \notin DOMAIN list
    BY <1>2, <1>3, <2>2 DEF Paid
  <2> QED
    BY <2>1, <2>2
<1> QED
  BY <1>1, <1>4, <1>5 DEF Paid

(* The record of an answer is the one there is.                            *)
LEMMA PaidAppended ==
    ASSUME NEW list \in Seq(Records), NEW one \in Records, one.success, ~one.cached,
           Paid(list) = {}
    PROVE  \E i \in DOMAIN Append(list, one) : Paid(Append(list, one)) = {i}
<1> DEFINE n == Len(list) + 1
           new == Append(list, one)
<1>1. /\ n \in Nat /\ DOMAIN list = 1..(n - 1) /\ DOMAIN new = 1..n
      /\ new[n] = one
      /\ \A i \in DOMAIN list : new[i] = list[i]
  OBVIOUS
<1>2. \A i \in DOMAIN list : ~(list[i].success /\ ~list[i].cached)
  BY DEF Paid
<1>3. n \in DOMAIN new /\ \A i \in DOMAIN new : i = n \/ i \in DOMAIN list
  BY <1>1
<1> HIDE DEF new, n
<1>4. \A i \in DOMAIN new : new[i].success /\ ~new[i].cached <=> i = n
  <2>1. new[n].success /\ ~new[n].cached
    BY <1>1
  <2>2. \A i \in DOMAIN list : ~(new[i].success /\ ~new[i].cached)
    BY <1>1, <1>2
  <2> QED
    BY <1>3, <2>1, <2>2
<1>5. Paid(new) = {n}
  BY <1>3, <1>4 DEF Paid
<1> QED
  BY <1>3, <1>5 DEF new

LEMMA PaidOnce ==
    ASSUME NEW one \in Records, ~one.success \/ one.cached
    PROVE  <<one>> \in Seq(Records) /\ Paid(<<one>>) = {}
<1>1. <<one>> \in Seq(Records) /\ DOMAIN <<one>> = {1} /\ <<one>>[1] = one
  OBVIOUS
<1> QED
  BY <1>1 DEF Paid

LEMMA NothingPaid == << >> \in Seq(Records) /\ Paid(<< >>) = {}
<1>1. << >> \in Seq(Records) /\ DOMAIN << >> = {}
  OBVIOUS
<1> QED
  BY <1>1 DEF Paid

(* A call that has found no malformed entry leaves with the records given, *)
(* and with a failure of the Groq request around it.                       *)
LEMMA LeavePaid ==
    ASSUME TypeOK, NEW c \in Calls, NEW error, NEW records \in Seq(Records),
           Leave(c, error, records), stale[c] = {}
    PROVE  /\ pc'[c] = "done"
           /\ Paid(records) = {} => Paid(audit'[c]) = Paid(audit[c])
                                    /\ DOMAIN audit[c] \subseteq DOMAIN audit'[c]
           /\ \A one \in Records :
                 /\ records = <<one>> /\ one.success /\ ~one.cached
                 /\ Paid(audit[c]) = {}
                 => \E i \in DOMAIN audit'[c] : Paid(audit'[c]) = {i}
<1> DEFINE outer == [provider |-> "groq", success |-> "groq" \in stale[c], cached |-> FALSE]
<1>1. outer \in Records /\ ~outer.success
  <2>1. ("groq" \in stale[c]) = FALSE
    OBVIOUS
  <2>2. outer = [provider |-> "groq", success |-> FALSE, cached |-> FALSE]
    BY <2>1, Zenon
  <2>3. [provider |-> "groq", success |-> FALSE, cached |-> FALSE] \in Records
    BY DEF Records, Providers
  <2> QED
    BY <2>2, <2>3
<1>2. OuterRecord(c) \in Seq(Records) /\ Paid(OuterRecord(c)) = {}
  BY <1>1, PaidOnce, NothingPaid DEF OuterRecord
<1>3. /\ pc'[c] = "done" /\ audit[c] \in Seq(Records)
      /\ audit'[c] = (audit[c] \o records) \o OuterRecord(c)
  BY DEF Leave, TypeOK
<1>4. audit[c] \o records \in Seq(Records)
  BY <1>3
<1>5. /\ Paid(audit'[c]) = Paid(audit[c] \o records)
      /\ DOMAIN (audit[c] \o records) \subseteq DOMAIN audit'[c]
  BY <1>2, <1>3, <1>4, PaidJoined
<1>6. ASSUME Paid(records) = {}
      PROVE  Paid(audit'[c]) = Paid(audit[c]) /\ DOMAIN audit[c] \subseteq DOMAIN audit'[c]
  BY <1>3, <1>5, <1>6, PaidJoined
<1>7. ASSUME NEW one \in Records, records = <<one>>, one.success, ~one.cached,
             Paid(audit[c]) = {}
      PROVE  \E i \in DOMAIN audit'[c] : Paid(audit'[c]) = {i}
  <2>1. audit[c] \o records = Append(audit[c], one)
    BY <1>3, <1>7
  <2>2. PICK i \in DOMAIN Append(audit[c], one) : Paid(Append(audit[c], one)) = {i}
    BY <1>3, <1>7, PaidAppended
  <2>3. i \in DOMAIN audit'[c] /\ Paid(audit'[c]) = {i}
    BY <1>5, <2>1, <2>2, Zenon
  <2> QED
    BY <2>3
<1> QED
  BY <1>3, <1>6, <1>7

(* An error audits the failure.                                            *)
LEMMA RaiseSettled ==
    ASSUME CallInvariant, NEW c \in Calls, Settled(c), pc[c] # "storing", pc[c] # "done",
           NEW error, Raise(c, error)
    PROVE  Settled(c)'
<1>1. TypeOK /\ stale' = stale /\ source' = source
  BY DEF CallInvariant, Raise
<1> SUFFICES ASSUME stale[c] = {} PROVE Settled(c)'
  BY <1>1 DEF Settled
<1> DEFINE one == Recorded(c, provider[c] \in stale[c], FALSE)
<1>2. one \in Records /\ ~one.success
  <2>1. (provider[c] \in stale[c]) = FALSE
    OBVIOUS
  <2>2. one = Recorded(c, FALSE, FALSE)
    BY <2>1, Zenon
  <2>3. Recorded(c, FALSE, FALSE) \in Records /\ ~Recorded(c, FALSE, FALSE).success
    BY <1>1 DEF Recorded, Records, TypeOK
  <2> QED
    BY <2>2, <2>3, Zenon
<1>3. Leave(c, error, <<one>>)
  BY DEF Raise
<1> HIDE DEF one
<1>4. Paid(<<one>>) = {} /\ <<one>> \in Seq(Records)
  BY <1>2, PaidOnce
<1>5. pc'[c] = "done" /\ Paid(audit'[c]) = Paid(audit[c])
  BY <1>1, <1>3, <1>4, LeavePaid
<1> QED
  BY <1>1, <1>5 DEF Settled

(* Steps that audit nothing and do not answer.                             *)
LEMMA QuietSettled ==
    ASSUME NEW c \in Calls, Settled(c), pc[c] \notin {"storing", "done"}, pc'[c] # "storing",
           audit'[c] = audit[c], source'[c] = source[c], stale'[c] = stale[c]
    PROVE  Settled(c)'
BY DEF Settled

LEMMA CacheSettled ==
    ASSUME CallInvariant, NEW c \in Calls, Settled(c), CacheHit(c) \/ CacheMiss(c)
    PROVE  Settled(c)'
<1>1. TypeOK /\ pc[c] = "lookup"
  BY DEF CallInvariant, CacheHit, CacheMiss
<1> DEFINE hit == Recorded(c, TRUE, TRUE)
<1>2. hit \in Records /\ hit.cached
  BY <1>1 DEF Recorded, Records, TypeOK
<1> HIDE DEF hit
<1>3. <<hit>> \in Seq(Records) /\ Paid(<<hit>>) = {}
  BY <1>2, PaidOnce
<1>4. CASE CacheHit(c)
  <2>1. stale' = stale /\ source'[c] = "cache" /\ \E error : Leave(c, error, <<hit>>)
    BY <1>1, <1>4 DEF CacheHit, TypeOK, hit
  <2>2. ASSUME stale[c] = {} PROVE pc'[c] = "done" /\ Paid(audit'[c]) = Paid(audit[c])
    BY <1>1, <1>3, <2>1, <2>2, LeavePaid
  <2> QED
    BY <1>1, <2>1, <2>2 DEF Settled
<1>5. CASE CacheMiss(c)
  <2> DEFINE Seen(found) == IF found = None THEN << >> ELSE <<hit>>
  <2>1. PICK found :
          /\ stale' = IF found = None THEN stale ELSE [stale EXCEPT ![c] = @ \cup {provider[c]}]
          /\ IF provider[c] \in keys
             THEN pc' = [pc EXCEPT ![c] = "asking"] /\ audit' = [audit EXCEPT ![c] = @ \o Seen(found)]
             ELSE Leave(c, "configuration", Seen(found))
    BY <1>5 DEF CacheMiss, hit
  <2>2. source' = source
    BY <1>5 DEF CacheMiss
  <2>3. ASSUME stale'[c] = {} PROVE stale[c] = {} /\ found = None
    BY <1>1, <2>1, <2>3 DEF TypeOK
  <2>4. ASSUME stale'[c] = {}, provider[c] \in keys
        PROVE  pc'[c] = "asking" /\ audit'[c] = audit[c]
    <3>1. pc' = [pc EXCEPT ![c] = "asking"] /\ audit' = [audit EXCEPT ![c] = @ \o Seen(found)]
      BY <2>1, <2>4
    <3>2. Seen(found) = << >>
      BY <2>3, <2>4
    <3>3. audit[c] \in Seq(Records) /\ audit[c] \o << >> = audit[c]
      BY <1>1 DEF TypeOK
    <3>4. audit'[c] = audit[c] \o Seen(found)
      BY <1>1, <3>1 DEF TypeOK
    <3> QED
      BY <1>1, <3>1, <3>2, <3>3, <3>4 DEF TypeOK
  <2>5. ASSUME stale'[c] = {}, provider[c] \notin keys
        PROVE  pc'[c] = "done" /\ Paid(audit'[c]) = Paid(audit[c])
    <3>1. Leave(c, "configuration", << >>) /\ stale[c] = {}
      BY <2>1, <2>3, <2>5
    <3> QED
      BY <1>1, <3>1, NothingPaid, LeavePaid
  <2>6. ASSUME stale'[c] = {} PROVE source[c] # "provider" /\ Paid(audit[c]) = {}
    BY <1>1, <2>3, <2>6 DEF Settled
  <2> QED
    BY <2>2, <2>4, <2>5, <2>6 DEF Settled
<1> QED
  BY <1>4, <1>5

LEMMA AnsweredSettled ==
    ASSUME CallInvariant, NEW c \in Calls, Settled(c), Answered(c)
    PROVE  Settled(c)'
<1>1. TypeOK /\ pc[c] = "asking" /\ stale' = stale /\ source'[c] = "provider"
  BY DEF CallInvariant, Answered, TypeOK
<1> DEFINE one == Recorded(c, TRUE, FALSE)
<1>2. one \in Records /\ one.success /\ ~one.cached
  BY <1>1 DEF Recorded, Records, TypeOK
<1>3. \/ pc' = [pc EXCEPT ![c] = "storing"] /\ audit' = [audit EXCEPT ![c] = Append(@, one)]
      \/ Leave(c, "json", <<one>>)
  BY DEF Answered
<1> HIDE DEF one
<1> SUFFICES ASSUME stale[c] = {} PROVE Settled(c)'
  BY <1>1 DEF Settled
<1>4. Paid(audit[c]) = {} /\ audit[c] \in Seq(Records) /\ <<one>> \in Seq(Records)
  BY <1>1, <1>2 DEF Settled, TypeOK
<1>5. CASE pc' = [pc EXCEPT ![c] = "storing"] /\ audit' = [audit EXCEPT ![c] = Append(@, one)]
  <2>1. pc'[c] = "storing" /\ audit'[c] = Append(audit[c], one)
    BY <1>1, <1>5 DEF TypeOK
  <2>2. \E i \in DOMAIN audit'[c] : Paid(audit'[c]) = {i}
    BY <1>2, <1>4, <2>1, PaidAppended
  <2> QED
    BY <1>1, <2>1, <2>2 DEF Settled
<1>6. CASE Leave(c, "json", <<one>>)
  <2>1. pc'[c] = "done" /\ \E i \in DOMAIN audit'[c] : Paid(audit'[c]) = {i}
    BY <1>1, <1>2, <1>4, <1>6, LeavePaid
  <2> QED
    BY <1>1, <2>1 DEF Settled
<1> QED
  BY <1>3, <1>5, <1>6

(* A call that is filling the cache has audited its answer already.        *)
LEMMA StoreSettled ==
    ASSUME CallInvariant, NEW c \in Calls, Settled(c),
           Store(c) \/ (Cancelled(c) /\ pc[c] \in {"storing", "lookup"})
    PROVE  Settled(c)'
<1>1. /\ TypeOK /\ pc[c] \in {"storing", "lookup"}
      /\ stale' = stale /\ source' = source /\ \E error : Leave(c, error, << >>)
  BY DEF CallInvariant, Store, Cancelled
<1> SUFFICES ASSUME stale[c] = {} PROVE Settled(c)'
  BY <1>1 DEF Settled
<1>2. /\ pc'[c] = "done" /\ Paid(audit'[c]) = Paid(audit[c])
      /\ DOMAIN audit[c] \subseteq DOMAIN audit'[c]
  BY <1>1, NothingPaid, LeavePaid
<1> QED
  BY <1>1, <1>2 DEF Settled

LEMMA CancelledSettled ==
    ASSUME CallInvariant, NEW c \in Calls, Settled(c), Cancelled(c),
           pc[c] \in {"asking", "backoff"}
    PROVE  Settled(c)'
<1>1. TypeOK /\ stale' = stale /\ source' = source
  BY DEF CallInvariant, Cancelled
<1> SUFFICES ASSUME stale[c] = {} PROVE Settled(c)'
  BY <1>1 DEF Settled
<1> DEFINE one == Recorded(c, FALSE, FALSE)
<1>2. one \in Records /\ ~one.success
  BY <1>1 DEF Recorded, Records, TypeOK
<1>3. Leave(c, "cancelled", <<one>>)
  BY DEF Cancelled
<1> HIDE DEF one
<1>4. Paid(<<one>>) = {} /\ <<one>> \in Seq(Records)
  BY <1>2, PaidOnce
<1>5. pc'[c] = "done" /\ Paid(audit'[c]) = Paid(audit[c])
  BY <1>1, <1>3, <1>4, LeavePaid
<1> QED
  BY <1>1, <1>5 DEF Settled

LEMMA WaitingSettled ==
    ASSUME CallInvariant, NEW c \in Calls, Settled(c),
           \/ Call(c) \/ TryAgain(c) \/ ModelMissing(c) \/ RateLimited(c)
           \/ Disconnected(c) \/ Refused(c) \/ TimesOut(c)
    PROVE  Settled(c)'
<1>1. TypeOK /\ pc[c] \in {"idle", "asking", "backoff"}
  BY DEF CallInvariant, Call, TryAgain, ModelMissing, RateLimited, Disconnected, Refused, TimesOut
<1>2. CASE \E error : Raise(c, error)
  BY <1>1, <1>2, RaiseSettled
<1>3. CASE ~\E error : Raise(c, error)
  <2>1. \/ Call(c) \/ TryAgain(c) \/ BackOff(c) \/ FallBack(c)
        \/ pc' = pc /\ UNCHANGED <<audit, source, stale>>
    BY <1>3 DEF ModelMissing, RateLimited, GiveUpOnLimit, Disconnected, Refused, TimesOut
  <2>2. pc'[c] # "storing" /\ audit' = audit /\ source' = source /\ stale' = stale
    BY <1>1, <2>1 DEF Call, TryAgain, BackOff, FallBack, TypeOK
  <2> QED
    BY <1>1, <2>2, QuietSettled
<1> QED
  BY <1>2, <1>3

(* The records of a call are its own.                                      *)
LEMMA AuditIsOfOne ==
    ASSUME TypeOK, NEW c \in Calls,
           Call(c) \/ OnItsOwn(c) \/ ProviderDoes(c) \/ TimesOut(c) \/ Cancelled(c),
           NEW d \in Calls \ {c}
    PROVE  audit'[d] = audit[d] /\ stale'[d] = stale[d]
<1>1. \A error, records : Leave(c, error, records) => audit'[d] = audit[d]
  BY DEF Leave, TypeOK
<1>2. \A error : Raise(c, error) => audit'[d] = audit[d] /\ stale' = stale
  BY <1>1 DEF Raise
<1>3. CASE Call(c) \/ TryAgain(c)
  BY <1>3 DEF Call, TryAgain
<1>4. CASE CacheHit(c) \/ Store(c) \/ Cancelled(c)
  BY <1>1, <1>4 DEF CacheHit, Store, Cancelled
<1>5. CASE CacheMiss(c)
  BY <1>1, <1>5 DEF CacheMiss, TypeOK
<1>6. CASE Answered(c)
  BY <1>1, <1>6 DEF Answered, TypeOK
<1>7. CASE \/ ModelMissing(c) \/ RateLimited(c) \/ Disconnected(c) \/ Refused(c) \/ TimesOut(c)
  BY <1>2, <1>7
  DEF ModelMissing, RateLimited, GiveUpOnLimit, BackOff, FallBack, Disconnected, Refused, TimesOut
<1> QED
  BY <1>3, <1>4, <1>5, <1>6, <1>7 DEF OnItsOwn, ProviderDoes

(* An answer is audited as a success once, however the call came by it,    *)
(* and nothing else is.                                                    *)
THEOREM AnswersAreAuditedOnce == Spec => []AnswersAuditedOnce
<1> DEFINE Settling == \A c \in Calls : Settled(c)
<1>1. Init => Settling
  <2> SUFFICES ASSUME Init, NEW c \in Calls PROVE Settled(c)
    OBVIOUS
  <2>1. source[c] = None /\ pc[c] = "idle" /\ audit[c] = << >> /\ None # "provider"
    BY NoneAssumption DEF Init
  <2> QED
    BY <2>1, NothingPaid DEF Settled
<1>2. ASSUME CallInvariant, Settling, [Next]_vars
      PROVE  Settling'
  <2> SUFFICES ASSUME NEW d \in Calls PROVE Settled(d)'
    OBVIOUS
  <2>1. ASSUME NEW c \in Calls,
               Call(c) \/ OnItsOwn(c) \/ ProviderDoes(c) \/ TimesOut(c) \/ Cancelled(c)
        PROVE  Settled(d)'
    <3>1. CASE d = c
      <4>1. pc[c] \in {"storing", "lookup"} \/ pc[c] \in {"asking", "backoff"} \/ ~Cancelled(c)
        BY DEF Cancelled, Started
      <4> QED
        BY <1>2, <2>1, <3>1, <4>1, CacheSettled, AnsweredSettled, StoreSettled, CancelledSettled,
           WaitingSettled
        DEF OnItsOwn, ProviderDoes
    <3>2. CASE d # c
      <4>1. Untouched(d)
        BY <1>2, <2>1, <3>2, StepIsOfOne
      <4>2. audit'[d] = audit[d] /\ stale'[d] = stale[d]
        BY <1>2, <2>1, <3>2, AuditIsOfOne DEF CallInvariant
      <4> QED
        BY <1>2, <4>1, <4>2 DEF Settled, Untouched
    <3> QED
      BY <3>1, <3>2
  <2>2. CASE Expire \/ UNCHANGED vars
    BY <1>2, <2>2 DEF Expire, vars, Settled
  <2> QED
    BY <1>2, <2>1, <2>2 DEF Next
<1>3. Settling => AnswersAuditedOnce
  BY DEF Settled, AnswersAuditedOnce, Successes, Paid
<1> HIDE DEF Settling
<1> QED
  BY <1>1, <1>2, <1>3, CallInvariantHolds, PTL DEF Spec

=============================================================================
