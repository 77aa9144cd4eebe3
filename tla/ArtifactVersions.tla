--------------------------- MODULE ArtifactVersions ---------------------------
(***************************************************************************)
(* The artifacts of one workflow and their version history, through the    *)
(* handlers of WorkflowApiService that write them                          *)
(* (backend/app/services/workflow_service.py): start, generation and       *)
(* validation, story retry, story modification, epic regeneration, undo,   *)
(* and the PATCH with which the browser writes back a list it read before. *)
(*                                                                         *)
(* Every handler reads the whole state, awaits, and saves the whole state. *)
(* The store under it is taken as its latest row (StateLog is what it      *)
(* promises).  Epics are also kept in a Redis planning snapshot of the     *)
(* project, which regenerate_epic prefers to the stored ones.              *)
(*                                                                         *)
(* What an artifact says is the number of the request that has written it. *)
(* A handler that finds nothing to work on answers 404 and takes no step.  *)
(***************************************************************************)
EXTENDS Integers, Sequences, FiniteSets

CONSTANTS
    Clients,      \* places for the requests that are under way at a time
    Epics,        \* ids of the epics of the plan
    Stories,      \* ids of the stories
    FeatureOf,    \* story -> its feature
    MaxRequests,  \* bound on the requests that write the state
    OneAtATime,   \* TRUE: no request starts while another is under way
    Nothing       \* no planning snapshot, nothing read by the browser, no epic

ASSUME EntitiesAssumption ==
    /\ IsFiniteSet(Epics) /\ IsFiniteSet(Stories)
    /\ Epics \cap Stories = {}
    /\ DOMAIN FeatureOf = Stories
ASSUME MaxRequestsAssumption == MaxRequests \in Nat
ASSUME OneAtATimeAssumption == OneAtATime \in BOOLEAN

Entities == Epics \cup Stories
Kinds == {"epics", "stories"}
IdsOfKind(kind) == IF kind = "epics" THEN Epics ELSE Stories
KindOf(x) == IF x \in Epics THEN "epics" ELSE "stories"

Artifacts == [id : Entities, says : Nat]
Lists == [Kinds -> Seq(Artifacts)]
Records == [entity : Entities, version : Nat, snapshot : Nat]
States == [ lists   : Lists,
            records : SUBSET Records,       \* artifact_versions
            edited  : SUBSET Entities ]     \* history variable: written without
                                            \* a record since their last one

Blank == [lists |-> [kind \in Kinds |-> <<>>], records |-> {}, edited |-> {}]

VARIABLES
    stored,    \* the latest saved state
    longest,   \* the longest story list saved so far, the latest of those
    plan,      \* the planning snapshot: a list of epics, or Nothing
    browser,   \* the lists the browser has last been shown, or Nothing
    requests,  \* the requests so far
    pc,        \* client -> where its request is
    number,    \* client -> the number of its request
    local,     \* client -> the state dictionary its request works on
    target     \* client -> the epic it regenerates, or Nothing

vars == <<stored, longest, plan, browser, requests, pc, number, local, target>>

Init ==
    /\ stored = Blank
    /\ longest = <<>>
    /\ plan = Nothing
    /\ browser = Nothing
    /\ requests = 0
    /\ pc = [c \in Clients |-> "idle"]
    /\ number = [c \in Clients |-> 0]
    /\ local = [c \in Clients |-> Blank]
    /\ target = [c \in Clients |-> Nothing]

-----------------------------------------------------------------------------
(* Lists of artifacts *)

Ids(list) == { list[i].id : i \in DOMAIN list }

(* The handlers that replace one artifact replace the first with its id.   *)
First(list, x) ==
    CHOOSE i \in DOMAIN list :
        list[i].id = x /\ \A j \in DOMAIN list : list[j].id = x => i <= j
Put(list, a) == IF a.id \in Ids(list) THEN [list EXCEPT ![First(list, a.id)] = a] ELSE list

(* What request n can make of artifacts with these ids, each at most once  *)
Made(ids, n) ==
    { list \in UNION { [1..k -> [id : ids, says : {n}]] : k \in 0..Cardinality(ids) } :
        \A i, j \in DOMAIN list : list[i].id = list[j].id => i = j }

WithList(s, kind, list) == [s EXCEPT !.lists[kind] = list]
WithArtifact(s, a) == WithList(s, KindOf(a.id), Put(s.lists[KindOf(a.id)], a))

(* A list that comes from elsewhere, in the place of the one held          *)
Unrecorded(s, kind, list) ==
    [WithList(s, kind, list) EXCEPT !.edited = @ \cup IdsOfKind(kind)]

-----------------------------------------------------------------------------
(* Version records *)

RecordsOf(s, x) == { r \in s.records : r.entity = x }

(* The positions up to i of artifacts with the id of the i-th              *)
UpTo(list, i) == { j \in 1..i : list[j].id = list[i].id }

(* A fault: all records are counted, not those of the artifact. *)
NextVersion_CountsAll(s, list, i) == Cardinality(s.records) + Cardinality(UpTo(list, i))

(* The artifacts of a list are recorded one after the other. *)
NextVersion(s, list, i) == Cardinality(RecordsOf(s, list[i].id)) + Cardinality(UpTo(list, i))

Places(list, ids) == { i \in DOMAIN list : list[i].id \in ids }

(* _record_artifact_versions, for those of the list with one of the ids    *)
NewRecords(s, list, ids) ==
    { [ entity   |-> list[i].id,
        version  |-> NextVersion(s, list, i),
        snapshot |-> list[i].says ] : i \in Places(list, ids) }
Recorded(s, list, ids) ==
    [s EXCEPT !.records = @ \cup NewRecords(s, list, ids), !.edited = @ \ (ids \cap Ids(list))]

-----------------------------------------------------------------------------
(* _save_state, with what the SQL of execute_story_retry will find         *)
Save(s) ==
    /\ stored' = s
    /\ longest' = IF Len(s.lists["stories"]) >= Len(longest) THEN s.lists["stories"] ELSE longest

(* How a request begins, goes on with a dictionary, and ends               *)
Begin(c, place, s) ==
    /\ pc[c] = "idle"
    /\ OneAtATime => \A d \in Clients : pc[d] = "idle"
    /\ requests < MaxRequests
    /\ requests' = requests + 1
    /\ number' = [number EXCEPT ![c] = requests + 1]
    /\ pc' = [pc EXCEPT ![c] = place]
    /\ local' = [local EXCEPT ![c] = s]
    /\ UNCHANGED <<plan, browser, target>>

Continue(c, from, to, s) ==
    /\ pc[c] = from
    /\ pc' = [pc EXCEPT ![c] = to]
    /\ local' = [local EXCEPT ![c] = s]
    /\ UNCHANGED <<browser, requests, number>>

End(c, from) ==
    /\ pc[c] = from
    /\ pc' = [pc EXCEPT ![c] = "idle"]
    /\ number' = [number EXCEPT ![c] = 0]
    /\ local' = [local EXCEPT ![c] = Blank]
    /\ target' = [target EXCEPT ![c] = Nothing]
    /\ UNCHANGED <<browser, requests>>

(* GET by the browser *)
Show ==
    /\ browser' = stored.lists
    /\ UNCHANGED <<stored, longest, plan, requests, pc, number, local, target>>

-----------------------------------------------------------------------------
(* WorkflowApiService.start: the initial state is saved over what is there *)

Start(c) ==
    /\ Begin(c, "running", Blank)
    /\ Save(Blank)

(* Agent 3 may return any part of the stories. *)
RunReturns(c) ==
    /\ End(c, "running")
    /\ \E epics \in Made(Epics, number[c]), stories \in Made(Stories, number[c]) :
        /\ Ids(epics) = Epics
        /\ LET planned == Recorded(WithList(local[c], "epics", epics), epics, Epics)
           IN  Save(Recorded(WithList(planned, "stories", stories), stories, Stories))
    /\ UNCHANGED plan

(* The initial state is saved again, as CANCELLED or as it was. *)
RunFails(c) ==
    /\ End(c, "running")
    /\ Save(local[c])
    /\ UNCHANGED plan

-----------------------------------------------------------------------------
(* _execute_story_workflow for a generation, a validation or a review      *)

(* The request is merged over the state that was read; an empty list       *)
(* replaces nothing.                                                       *)
Merge(c) ==
    \E s \in {stored} \cup
              { Unrecorded(stored, kind, browser[kind]) :
                    kind \in { k \in Kinds : browser # Nothing /\ browser[k] # <<>> } } :
        /\ Begin(c, "merged", s)
        /\ UNCHANGED <<stored, longest>>

(* It is announced RUNNING. *)
Announce(c) ==
    /\ Continue(c, "merged", "generating", local[c])
    /\ Save(local[c])
    /\ UNCHANGED <<plan, target>>

(* The state graph has no channel for artifact_versions, so the state that *)
(* the run hands back has lost every record.                               *)
Returned(s, stories) ==
    [WithList(s, "stories", stories) EXCEPT !.records = {}, !.edited = {}]

(* Stories are generated where there are none.  Only a generation goes on  *)
(* to record what is returned.                                             *)
StoriesReturn(c) ==
    \E stories \in IF local[c].lists["stories"] = <<>> THEN Made(Stories, number[c])
                   ELSE {local[c].lists["stories"]} :
        /\ Save(Returned(local[c], stories))
        /\ \/ Continue(c, "generating", "recording", Returned(local[c], stories)) /\ UNCHANGED target
           \/ End(c, "generating")
        /\ UNCHANGED plan

(* The records start again from version 1. *)
RecordStories(c) ==
    /\ End(c, "recording")
    /\ Save(Recorded(local[c], local[c].lists["stories"], Stories))
    /\ UNCHANGED plan

(* What is saved then is the dictionary the run was given, records and all. *)
StoriesFail(c) ==
    /\ End(c, "generating")
    /\ Save(local[c])
    /\ UNCHANGED plan

-----------------------------------------------------------------------------
(* Handlers that save what they have read, changed                         *)

(* A fault: the records above the one returned to are kept. *)
UndoneTo_KeepsNewer(s, r) ==
    [ WithArtifact(s, [id |-> r.entity, says |-> r.snapshot]) EXCEPT
        !.edited = @ \ {r.entity} ]

(* An artifact that the list has lost stays out of it. *)
UndoneTo(s, r) ==
    [ WithArtifact(s, [id |-> r.entity, says |-> r.snapshot]) EXCEPT
        !.records = { q \in @ : q.entity = r.entity => q.version <= r.version },
        !.edited  = @ \ {r.entity} ]

(* undo_artifact *)
Undo(c) ==
    \E r \in stored.records :
        /\ Begin(c, "saving", UndoneTo(stored, r))
        /\ UNCHANGED <<stored, longest>>

(* execute_story_modify *)
Modify(c) ==
    \E x \in Ids(stored.lists["stories"]) :
        LET a == [id |-> x, says |-> requests + 1]
        IN  /\ Begin(c, "saving", Recorded(WithArtifact(stored, a), <<a>>, {x}))
            /\ UNCHANGED <<stored, longest>>

(* update_state_partial with the list of epics or stories that the browser *)
(* was shown, one of them edited                                           *)
Patch(c) ==
    /\ browser # Nothing
    /\ \E kind \in Kinds : \E x \in Ids(browser[kind]) :
          Begin(c, "saving",
                Unrecorded(stored, kind, Put(browser[kind], [id |-> x, says |-> requests + 1])))
    /\ UNCHANGED <<stored, longest>>

SaveHeld(c) ==
    /\ End(c, "saving")
    /\ Save(local[c])
    /\ UNCHANGED plan

-----------------------------------------------------------------------------
(* execute_story_retry *)

ReadForRetry(c) ==
    /\ Begin(c, "retrying", stored)
    /\ UNCHANGED <<stored, longest>>

(* A longer list of the past comes first, then the one held; a workflow    *)
(* without stories takes those of the request.                             *)
RetryBases(c) ==
    LET held == local[c].lists["stories"]
    IN  IF Len(longest) > Len(held) THEN { Unrecorded(local[c], "stories", longest) }
        ELSE IF held # <<>> THEN {local[c]}
        ELSE { Unrecorded(local[c], "stories", stories) : stories \in Made(Stories, number[c]) }

(* regenerate_failed_stories makes one story per feature, an object that   *)
(* every story it replaces shares and that ends up with the last one's id. *)
LastOfFeature(list, replaced, i) ==
    CHOOSE j \in replaced :
        /\ FeatureOf[list[j].id] = FeatureOf[list[i].id]
        /\ \A k \in replaced : FeatureOf[list[k].id] = FeatureOf[list[i].id] => k <= j

(* Failed stories without a retry left, or without a planned story, are    *)
(* not replaced, but may come with the text of the request.                *)
Regenerated(c, list, replaced, given) ==
    [ i \in DOMAIN list |->
        IF i \in replaced THEN [id |-> list[LastOfFeature(list, replaced, i)].id, says |-> number[c]]
        ELSE IF i \in given THEN [list[i] EXCEPT !.says = number[c]]
        ELSE list[i] ]

Retry(c) ==
    \E base \in RetryBases(c) :
    LET old == base.lists["stories"]
    IN  \E failed \in SUBSET Ids(old) :
        \E replaced \in SUBSET Places(old, failed) :
        \E given \in SUBSET (Places(old, failed) \ replaced) :
            LET new == Regenerated(c, old, replaced, given)
            IN  /\ Continue(c, "retrying", "saving",
                            Recorded(WithList(base, "stories", new), new, failed))
                /\ UNCHANGED <<stored, longest, plan, target>>

-----------------------------------------------------------------------------
(* regenerate_epic *)

ReadForEpic(c) ==
    /\ Begin(c, "planning", stored)
    /\ UNCHANGED <<stored, longest>>

(* The snapshot comes first; an empty one is warmed from the stored epics. *)
(* Without Redis the stored epics are taken.                               *)
ReadPlan(c) ==
    \E reached \in BOOLEAN :
        LET fresh == reached /\ plan \notin {Nothing, <<>>}
            s == IF fresh THEN Unrecorded(local[c], "epics", plan) ELSE local[c]
        IN  /\ Continue(c, "planning", "replacing", s)
            /\ plan' = IF reached /\ ~fresh THEN s.lists["epics"] ELSE plan
            /\ \E e \in Ids(s.lists["epics"]) : target' = [target EXCEPT ![c] = e]
            /\ UNCHANGED <<stored, longest>>

(* Both attempts of the agent may fail to give an alternative.             *)
SaveEpic(c) ==
    \E a \in [id : {target[c]}, says : {number[c]}] \cup
             { b \in { local[c].lists["epics"][i] : i \in DOMAIN local[c].lists["epics"] } :
                 b.id = target[c] } :
        LET s == Recorded(WithArtifact(local[c], a), <<a>>, {target[c]})
        IN  /\ Continue(c, "replacing", "caching", s)
            /\ Save(s)
            /\ UNCHANGED <<plan, target>>

AgentRaises(c) ==
    /\ End(c, "replacing")
    /\ UNCHANGED <<stored, longest, plan>>

(* A failing Redis is only logged. *)
CachePlan(c) ==
    /\ End(c, "caching")
    /\ plan' \in { local[c].lists["epics"], plan }
    /\ UNCHANGED <<stored, longest>>

PlanExpires ==
    /\ plan # Nothing
    /\ plan' = Nothing
    /\ UNCHANGED <<stored, longest, browser, requests, pc, number, local, target>>

(* The epic asked for is not in the plan. *)
EpicNotFound(c) ==
    /\ End(c, "planning")
    /\ UNCHANGED <<stored, longest, plan>>

ClientStep(c) ==
    \/ Start(c)
    \/ RunReturns(c)
    \/ RunFails(c)
    \/ Merge(c)
    \/ Announce(c)
    \/ StoriesReturn(c)
    \/ RecordStories(c)
    \/ StoriesFail(c)
    \/ Undo(c)
    \/ Modify(c)
    \/ Patch(c)
    \/ SaveHeld(c)
    \/ ReadForRetry(c)
    \/ Retry(c)
    \/ ReadForEpic(c)
    \/ ReadPlan(c)
    \/ SaveEpic(c)
    \/ AgentRaises(c)
    \/ CachePlan(c)
    \/ EpicNotFound(c)

Next ==
    \/ Show
    \/ PlanExpires
    \/ \E c \in Clients : ClientStep(c)

Spec == Init /\ [][Next]_vars

-----------------------------------------------------------------------------
(* Properties *)

TypeOK ==
    /\ stored \in States
    /\ longest \in Seq(Artifacts)
    /\ plan \in {Nothing} \cup Seq(Artifacts)
    /\ browser \in {Nothing} \cup Lists
    /\ requests \in 0..MaxRequests
    /\ pc \in [Clients -> { "idle", "running", "merged", "generating", "recording", "saving",
                            "retrying", "planning", "replacing", "caching" }]
    /\ number \in [Clients -> 0..MaxRequests]
    /\ local \in [Clients -> States]
    /\ target \in [Clients -> {Nothing} \cup Entities]
    /\ \A c \in Clients : pc[c] = "replacing" => target[c] \in Entities

(* The states that are around: stored, or on their way to being stored     *)
Around == {stored} \cup { local[c] : c \in Clients }

(* The history of an artifact is numbered 1, 2, ... without a gap and with *)
(* no number twice, in every state around - whatever requests overlap,     *)
(* although undo drops records and reuses their numbers (674-704, 418-428),*)
(* a list may hold an artifact twice, and every run of the graph drops all *)
(* the records and starts the numbers anew (545-555, 75-79).               *)
Numbered(s, x) ==
    /\ \A q, r \in RecordsOf(s, x) : q.version = r.version => q = r
    /\ { r.version : r \in RecordsOf(s, x) } = 1..Cardinality(RecordsOf(s, x))

VersionsNumbered == \A s \in Around, x \in Entities : Numbered(s, x)

(* The inductive invariant behind it                                       *)
VersionInvariant ==
    /\ TypeOK
    /\ \A s \in Around : IsFiniteSet(s.records)
    /\ VersionsNumbered

(* The newest record of an artifact, if a run of the graph has left one,   *)
(* says what one of its name in the list says, unless it was last written  *)
(* without a record: by a list of the browser's, from a longer list of the *)
(* past or from the planning snapshot.                                     *)
ListsMatchRecords ==
    \A s \in Around, kind \in Kinds : \A x \in Ids(s.lists[kind]) \ s.edited :
        \A r \in RecordsOf(s, x) :
            r.version = Cardinality(RecordsOf(s, x)) =>
                \E i \in DOMAIN s.lists[kind] : s.lists[kind][i] = [id |-> x, says |-> r.snapshot]

(* workflow_service.py:294, "Regenerate one epic while preserving the      *)
(* remainder of the plan".                                                 *)
PlanPreserved ==
    [][ \A c \in Clients : pc[c] = "replacing" /\ pc'[c] = "caching" =>
            \A i \in DOMAIN stored.lists["epics"] :
                stored.lists["epics"][i].id # target[c] =>
                    stored'.lists["epics"][i] = stored.lists["epics"][i] ]_vars
=============================================================================
