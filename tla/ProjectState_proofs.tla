--------------------------- MODULE ProjectState_proofs ---------------------------
(***************************************************************************)
(* What is kept of a project: what holds of StoryService for any number of *)
(* users and requests, and of ProjectCache for any number of stories and   *)
(* versions.                                                               *)
(***************************************************************************)
EXTENDS StoryService, ProjectCache, TLAPS

-----------------------------------------------------------------------------
(***************************************************************************)
(* StoryService: RunningIsOwned and ChangesAreReviewed                     *)
(***************************************************************************)
\* Around these, set_state saves a status that is not RUNNING at last.
Owners == Operations \cup {"modify"}

\* Changed stories carry the flag, in what is saved and in every copy.
Reviewed(s) == s.stories = "changed" /\ ~s.judged => s.review

\* Where a request of each kind may be, and which of them may be about to save a RUNNING
RequestOk(r) ==
    /\ Reviewed(r.local)
    /\ r.kind = "start" =>
         r.pc \in {"save run", "running", "save failure", "save result", "ended"} /\ r.local.status # "RUNNING"
    /\ r.kind \in Edits => r.pc \in {"read", "change", "save result", "ended"}
    /\ r.kind \in {"retry", "outline"} /\ r.pc = "save result" => r.local.status # "RUNNING"
    /\ r.pc \in {"save run", "running", "save failure"} => r.kind \in Operations \cup {"start"}
    /\ r.pc = "save versions" => r.kind = "generate"
    /\ r.pc \in {"read status", "save status"} /\ r.status = "RUNNING" => r.kind \in Owners

Owned ==
    saved # NoState /\ saved.status = "RUNNING" =>
        orphaned \/ \E u \in Users : UnderWay(u) /\ call[u].kind \in Owners

ServiceInvariant ==
    /\ ServiceTypes
    /\ \A u \in Users : RequestOk(call[u])
    /\ saved # NoState => Reviewed(saved)
    /\ Owned

USE NoStateAssumption

-----------------------------------------------------------------------------
\* Records

LEMMA UnsetIsAState ==
    ASSUME NEW newStatus \in WorkflowStatuses
    PROVE  /\ Unset(newStatus) \in StoredStates /\ Unset(newStatus).status = newStatus
           /\ Unset(newStatus).stories = "none" /\ ~Unset(newStatus).review
  BY DEF Unset, StoredStates

LEMMA StatusesAreKnown ==
    {"PENDING", "RUNNING", "COMPLETED", "FAILED", "CANCELLED", "OUTLINE_APPROVED", "REVIEW_REQUIRED"}
        \subseteq WorkflowStatuses
  BY DEF WorkflowStatuses, StoryStatuses

\* What a request becomes is all that changes in call.
LEMMA Becoming ==
    ASSUME call \in [Users -> RequestRecords], NEW u \in Users, NEW r \in RequestRecords, Becomes(u, r)
    PROVE  /\ call' \in [Users -> RequestRecords]
           /\ call'[u] = r
           /\ \A v \in Users \ {u} : call'[v] = call[v]
  BY DEF Becomes

Turns(u, r, newStatus, local, pc) ==
    /\ Becomes(u, r)
    /\ r.kind = call[u].kind /\ r.status = newStatus /\ r.local = local /\ r.pc = pc

LEMMA Fields ==
    ASSUME ServiceTypes, NEW u \in Users
    PROVE  /\ call \in [Users -> RequestRecords] /\ call[u] \in RequestRecords
           /\ call[u].status \in WorkflowStatuses /\ call[u].local \in StoredStates
           /\ call[u].kind \in RequestKinds /\ call[u].pc \in Positions
<1>1. call \in [Users -> RequestRecords] /\ call[u] \in RequestRecords
  BY DEF ServiceTypes
<1> QED
  BY <1>1 DEF RequestRecords

LEMMA Working ==
    ASSUME ServiceTypes, NEW u \in Users, NEW local \in StoredStates, NEW pc \in Positions, Work(u, local, pc)
    PROVE  \E r \in RequestRecords : Turns(u, r, call[u].status, local, pc)
<1> DEFINE r == [call[u] EXCEPT !.local = local, !.pc = pc]
<1>1. Becomes(u, r)
  BY DEF Work
<1>2. r \in RequestRecords /\ r.kind = call[u].kind /\ r.status = call[u].status /\ r.local = local /\ r.pc = pc
  BY Fields DEF RequestRecords
<1> QED
  BY <1>1, <1>2 DEF Turns

LEMMA Stepping ==
    ASSUME ServiceTypes, NEW u \in Users, NEW pc \in Positions, Step(u, pc)
    PROVE  \E r \in RequestRecords : Turns(u, r, call[u].status, call[u].local, pc)
<1> DEFINE r == [call[u] EXCEPT !.pc = pc]
<1>1. Becomes(u, r)
  BY DEF Step
<1>2. /\ r \in RequestRecords /\ r.kind = call[u].kind /\ r.status = call[u].status
      /\ r.local = call[u].local /\ r.pc = pc
  BY Fields DEF RequestRecords
<1> QED
  BY <1>1, <1>2 DEF Turns

LEMMA Answering ==
    ASSUME ServiceTypes, NEW u \in Users, NEW newStatus \in WorkflowStatuses, NEW pc \in Positions, Answer(u, newStatus, pc)
    PROVE  \E r \in RequestRecords : Turns(u, r, newStatus, call[u].local, pc)
<1> DEFINE r == [call[u] EXCEPT !.status = newStatus, !.pc = pc]
<1>1. Becomes(u, r)
  BY DEF Answer
<1>2. r \in RequestRecords /\ r.kind = call[u].kind /\ r.status = newStatus /\ r.local = call[u].local /\ r.pc = pc
  BY Fields DEF RequestRecords
<1> QED
  BY <1>1, <1>2 DEF Turns

LEMMA Finishing ==
    ASSUME ServiceTypes, NEW u \in Users, NEW newStatus \in WorkflowStatuses, Finish(u, newStatus)
    PROVE  \E r \in RequestRecords : Turns(u, r, newStatus, Unset("PENDING"), "ended")
<1> DEFINE r == [call[u] EXCEPT !.pc = "ended", !.status = newStatus, !.local = Unset("PENDING")]
<1>1. Becomes(u, r)
  BY DEF Finish
<1>2. Unset("PENDING") \in StoredStates /\ "ended" \in Positions
  BY UnsetIsAState, StatusesAreKnown DEF Positions
<1>3. /\ r \in RequestRecords /\ r.kind = call[u].kind /\ r.status = newStatus
      /\ r.local = Unset("PENDING") /\ r.pc = "ended"
  BY <1>2, Fields DEF RequestRecords
<1> QED
  BY <1>1, <1>3 DEF Turns

\* A request that has ended is as it should be.
LEMMA EndedIsOk ==
    ASSUME NEW r, r.local = Unset("PENDING"), r.pc = "ended"
    PROVE  RequestOk(r)
  BY UnsetIsAState, StatusesAreKnown DEF RequestOk, Reviewed

-----------------------------------------------------------------------------
(***************************************************************************)
(* A step of a request keeps the invariant if what it leaves is in order   *)
(* and, as to RUNNING: nothing is saved and no owner ends; or what is      *)
(* saved is not RUNNING; or its owner saves it and stays.                  *)
(***************************************************************************)
LEMMA Keeps ==
    ASSUME ServiceInvariant, NEW u \in Users, NEW r \in RequestRecords, NEW newStatus, NEW local, NEW pc,
           Turns(u, r, newStatus, local, pc), RequestOk(r),
           saved' \in StoredStates \cup {NoState}, saved' # NoState => Reviewed(saved'),
           orphaned' \in BOOLEAN, orphaned => orphaned', UNCHANGED asked,
           \/ UNCHANGED saved /\ (pc # "ended" \/ call[u].kind \notin Owners)
           \/ saved'.status # "RUNNING"
           \/ call[u].kind \in Owners /\ pc # "ended"
           \/ orphaned'
    PROVE  ServiceInvariant'
<1>1. call \in [Users -> RequestRecords]
  BY DEF ServiceInvariant, ServiceTypes
<1>2. /\ call' \in [Users -> RequestRecords]
      /\ call'[u] = r
      /\ \A v \in Users \ {u} : call'[v] = call[v]
  BY <1>1, Becoming DEF Turns
<1>3. ServiceTypes'
  BY <1>2 DEF ServiceInvariant, ServiceTypes
<1>4. \A v \in Users : RequestOk(call[v])'
  <2>1. ASSUME NEW v \in Users PROVE RequestOk(call'[v])
    BY <1>2 DEF ServiceInvariant
  <2> QED
    BY <2>1 DEF RequestOk, Reviewed
<1>5. (saved # NoState => Reviewed(saved))'
  BY DEF Reviewed
<1>6. Owned'
  <2> SUFFICES ASSUME saved' # NoState, saved'.status = "RUNNING", ~orphaned'
               PROVE  \E v \in Users : call'[v].pc # "ended" /\ call'[v].kind \in Owners
    BY DEF Owned, UnderWay, Is
  <2>1. r.kind = call[u].kind /\ r.pc = pc
    BY DEF Turns
  <2>2. CASE call[u].kind \in Owners /\ pc # "ended"
    BY <1>2, <2>1, <2>2
  <2>3. CASE UNCHANGED saved /\ (pc # "ended" \/ call[u].kind \notin Owners)
    <3>1. PICK v \in Users : call[v].pc # "ended" /\ call[v].kind \in Owners
      BY <2>3 DEF ServiceInvariant, Owned, UnderWay, Is
    <3> QED
      BY <1>2, <2>1, <2>3, <3>1
  <2> QED
    BY <2>2, <2>3
<1> QED
  BY <1>3, <1>4, <1>5, <1>6 DEF ServiceInvariant

LEMMA Quiet ==
    ASSUME ServiceInvariant, NEW u \in Users, NEW r \in RequestRecords, NEW newStatus, NEW local, NEW pc,
           Turns(u, r, newStatus, local, pc), RequestOk(r),
           UNCHANGED <<saved, asked, orphaned>>, pc # "ended" \/ call[u].kind \notin Owners
    PROVE  ServiceInvariant'
<1>1. /\ saved' \in StoredStates \cup {NoState}
      /\ saved' # NoState => Reviewed(saved')
      /\ orphaned' \in BOOLEAN
  BY DEF ServiceInvariant, ServiceTypes, Reviewed
<1> QED
  BY <1>1, Keeps

\* Saving a copy
LEMMA Saves ==
    ASSUME ServiceInvariant, NEW u \in Users, NEW r \in RequestRecords, NEW newStatus, NEW local, NEW pc,
           Turns(u, r, newStatus, local, pc), RequestOk(r),
           NEW s \in StoredStates, saved' = s, Reviewed(s),
           orphaned' \in BOOLEAN, orphaned => orphaned', UNCHANGED asked,
           s.status # "RUNNING" \/ (call[u].kind \in Owners /\ pc # "ended") \/ orphaned'
    PROVE  ServiceInvariant'
<1>1. saved' \in StoredStates \cup {NoState} /\ (saved' # NoState => Reviewed(saved'))
  OBVIOUS
<1> QED
  BY <1>1, Keeps

LEMMA OwnerSaves ==
    ASSUME ServiceInvariant, NEW u \in Users, NEW r \in RequestRecords, NEW newStatus, NEW local, NEW pc,
           Turns(u, r, newStatus, local, pc), RequestOk(r), saved' = call[u].local,
           orphaned' \in BOOLEAN, orphaned => orphaned', UNCHANGED asked,
           call[u].kind \in Owners, pc # "ended"
    PROVE  ServiceInvariant'
<1>1. call[u].local \in StoredStates /\ Reviewed(call[u].local)
  BY Fields DEF ServiceInvariant, RequestOk
<1> QED
  BY <1>1, Saves

LEMMA Kinds ==
    /\ Operations \cap Changes = {} /\ Operations \cap Edits = {} /\ Changes \cap Edits = {}
    /\ "start" \notin Operations \cup Changes \cup Edits
    /\ Owners = {"generate", "validate", "approve", "modify"}
    /\ RequestKinds = {"start", "generate", "validate", "approve", "modify", "retry", "edit", "outline"}
  BY DEF Operations, Changes, Edits, Owners, RequestKinds

-----------------------------------------------------------------------------
\* set_state

LEMMA ReadsStatus == ASSUME ServiceInvariant, NEW u \in Users, ReadStatus(u) PROVE ServiceInvariant'
<1> DEFINE s == IF saved = NoState THEN Unset("PENDING") ELSE saved
<1>1. s \in StoredStates /\ Reviewed(s)
  BY UnsetIsAState, StatusesAreKnown DEF ServiceInvariant, ServiceTypes, Reviewed
<1>2. Work(u, s, "save status") /\ call[u].pc = "read status" /\ UNCHANGED <<saved, asked, orphaned>>
  BY DEF ReadStatus, Is
<1> HIDE DEF s
<1>3. ServiceTypes /\ RequestOk(call[u])
  BY DEF ServiceInvariant
<1>4. PICK r \in RequestRecords : Turns(u, r, call[u].status, s, "save status")
  <2>1. "save status" \in Positions
    BY DEF Positions
  <2> QED
    BY <1>1, <1>2, <1>3, <2>1, Working
<1>5. RequestOk(r)
  BY <1>1, <1>2, <1>3, <1>4, Kinds DEF Turns, RequestOk, Edits
<1> QED
  BY <1>2, <1>4, <1>5, Quiet

LEMMA SavesStatus == ASSUME ServiceInvariant, NEW u \in Users, SaveStatus(u) PROVE ServiceInvariant'
<1> DEFINE s == [call[u].local EXCEPT !.status = call[u].status]
<1>1. ServiceTypes /\ RequestOk(call[u]) /\ call[u].pc = "save status"
  BY DEF ServiceInvariant, SaveStatus, Is
<1>2. call[u].local \in StoredStates /\ call[u].status \in WorkflowStatuses /\ call[u].kind \in RequestKinds
  BY <1>1, Fields
<1>3. s \in StoredStates /\ s.status = call[u].status /\ Reviewed(s)
  <2>1. Reviewed(call[u].local)
    BY <1>1 DEF RequestOk
  <2> QED
    BY <1>2, <2>1 DEF StoredStates, Reviewed
<1>4. saved' = s /\ UNCHANGED <<asked, orphaned>> /\ orphaned \in BOOLEAN
  BY <1>1 DEF SaveStatus, Local, ServiceTypes
<1> HIDE DEF s
<1>5. CASE call[u].status = "RUNNING"
  <2>1. Step(u, "read") /\ "read" \in Positions
    BY <1>5 DEF SaveStatus, Positions
  <2>2. PICK r \in RequestRecords : Turns(u, r, call[u].status, call[u].local, "read")
    BY <1>1, <2>1, Stepping
  <2>3. call[u].kind \in Owners
    BY <1>1, <1>5 DEF RequestOk
  <2>4. RequestOk(r)
    BY <1>1, <2>2, <2>3, Kinds DEF Turns, RequestOk, Edits
  <2> QED
    BY <1>3, <1>4, <2>2, <2>3, <2>4, Saves
<1>6. CASE call[u].status # "RUNNING"
  <2>1. Finish(u, call[u].status)
    BY <1>6 DEF SaveStatus
  <2>2. PICK r \in RequestRecords : Turns(u, r, call[u].status, Unset("PENDING"), "ended")
    BY <1>1, <1>2, <2>1, Finishing
  <2>3. RequestOk(r)
    BY <2>2, EndedIsOk DEF Turns
  <2> QED
    BY <1>3, <1>4, <1>6, <2>2, <2>3, Saves
<1> QED
  BY <1>5, <1>6

-----------------------------------------------------------------------------
\* The operations

\* What every step of an operation starts from
LEMMA Known ==
    ASSUME ServiceInvariant, NEW u \in Users
    PROVE  /\ ServiceTypes /\ RequestOk(call[u]) /\ orphaned \in BOOLEAN
           /\ call[u].status \in WorkflowStatuses /\ call[u].local \in StoredStates
           /\ call[u].kind \in RequestKinds /\ call[u].pc \in Positions
           /\ Reviewed(call[u].local)
<1>1. ServiceTypes /\ RequestOk(call[u])
  BY DEF ServiceInvariant
<1> QED
  BY <1>1, Fields DEF ServiceTypes, RequestOk

LEMMA RunsOnAState ==
    ASSUME ServiceInvariant, NEW u \in Users
    PROVE  RunOn(u) \in StoredStates /\ Reviewed(RunOn(u))
<1> DEFINE base == IF saved = NoState THEN Unset("RUNNING") ELSE saved
<1>1. base \in StoredStates /\ Reviewed(base)
  BY UnsetIsAState, StatusesAreKnown DEF ServiceInvariant, ServiceTypes, Reviewed
<1>2. RunOn(u) = [base EXCEPT
        !.status = "RUNNING",
        !.stories = IF call[u].kind = "validate" THEN "brought" ELSE @,
        !.judged = IF call[u].kind = "validate" THEN FALSE ELSE @]
  BY DEF RunOn
<1> HIDE DEF base
<1>3. CASE call[u].kind = "validate"
  <2>1. RunOn(u) = [base EXCEPT !.status = "RUNNING", !.stories = "brought", !.judged = FALSE]
    BY <1>2, <1>3
  <2> QED
    BY <1>1, <2>1, StatusesAreKnown DEF StoredStates, Reviewed
<1>4. CASE call[u].kind # "validate"
  <2>1. RunOn(u) = [base EXCEPT !.status = "RUNNING", !.stories = base.stories, !.judged = base.judged]
    BY <1>2, <1>4
  <2> QED
    BY <1>1, <2>1, StatusesAreKnown DEF StoredStates, Reviewed
<1> QED
  BY <1>3, <1>4

\* A failure leaves it to set_state to record it; edits and start have none.
LEMMA FailsOk ==
    ASSUME ServiceInvariant, NEW u \in Users, Fails(u), call[u].kind \notin Edits \cup {"start"}
    PROVE  \E r \in RequestRecords : Turns(u, r, "FAILED", call[u].local, "read status") /\ RequestOk(r)
<1>1. Answer(u, "FAILED", "read status") /\ "read status" \in Positions /\ "FAILED" \in WorkflowStatuses
  BY StatusesAreKnown DEF Fails, Positions
<1>2. PICK r \in RequestRecords : Turns(u, r, "FAILED", call[u].local, "read status")
  BY <1>1, Answering DEF ServiceInvariant
<1>3. RequestOk(r)
  BY <1>2, Known DEF Turns, RequestOk
<1> QED
  BY <1>2, <1>3

LEMMA Reads == ASSUME ServiceInvariant, NEW u \in Users, Read(u) PROVE ServiceInvariant'
<1>1. call[u].pc = "read" /\ UNCHANGED <<saved, asked, orphaned>>
  BY DEF Read, Is
<1>2. {"save run", "change"} \subseteq Positions
  BY DEF Positions
<1>3. call[u].kind # "start"
  BY <1>1, Known DEF RequestOk
<1>4. CASE call[u].kind \in Operations
  <2>1. Work(u, RunOn(u), "save run")
    BY <1>4 DEF Read, Operations, Edits
  <2>2. PICK r \in RequestRecords : Turns(u, r, call[u].status, RunOn(u), "save run")
    BY <1>2, <2>1, RunsOnAState, Known, Working
  <2>3. RequestOk(r)
    BY <1>4, <2>2, RunsOnAState, Kinds DEF Turns, RequestOk
  <2> QED
    BY <1>1, <2>2, <2>3, Quiet
<1>5. ASSUME NEW s \in StoredStates, Reviewed(s), Work(u, s, "change")
      PROVE  ServiceInvariant'
  <2>1. PICK r \in RequestRecords : Turns(u, r, call[u].status, s, "change")
    BY <1>2, <1>5, Known, Working
  <2>2. RequestOk(r)
    BY <1>3, <1>5, <2>1 DEF Turns, RequestOk
  <2> QED
    BY <1>1, <2>1, <2>2, Quiet
<1>6. saved # NoState => saved \in StoredStates /\ Reviewed(saved)
  BY DEF ServiceInvariant, ServiceTypes
<1>7. CASE call[u].kind = "retry"
  <2> DEFINE s == IF saved = NoState THEN Unset("PENDING") ELSE saved
  <2>1. s \in StoredStates /\ Reviewed(s)
    BY <1>6, UnsetIsAState, StatusesAreKnown DEF Reviewed
  <2>2. Work(u, s, "change")
    BY <1>7 DEF Read, Operations, Edits
  <2> HIDE DEF s
  <2> QED
    BY <1>5, <2>1, <2>2
<1>8. CASE call[u].kind = "modify"
  <2>1. CASE saved # NoState
    <3>1. Work(u, saved, "change")
      BY <1>8, <2>1 DEF Read, Operations, Edits
    <3> QED
      BY <1>5, <1>6, <2>1, <3>1
  <2>2. CASE saved = NoState
    <3>1. Fails(u)
      BY <1>8, <2>2 DEF Read, Operations, Edits
    <3>2. PICK r \in RequestRecords : Turns(u, r, "FAILED", call[u].local, "read status") /\ RequestOk(r)
      BY <1>8, <3>1, FailsOk DEF Edits
    <3> QED
      BY <1>1, <3>2, Quiet
  <2> QED
    BY <2>1, <2>2
<1>9. CASE call[u].kind \in Edits
  <2>1. CASE saved # NoState
    <3>1. Work(u, saved, "change")
      BY <1>9, <2>1 DEF Read, Operations, Edits
    <3> QED
      BY <1>5, <1>6, <2>1, <3>1
  <2>2. CASE saved = NoState
    <3>1. Finish(u, "FAILED") /\ "FAILED" \in WorkflowStatuses
      BY <1>9, <2>2, StatusesAreKnown DEF Read, Operations, Edits
    <3>2. PICK r \in RequestRecords : Turns(u, r, "FAILED", Unset("PENDING"), "ended")
      BY <3>1, Known, Finishing
    <3>3. RequestOk(r)
      BY <3>2, EndedIsOk DEF Turns
    <3>4. call[u].kind \notin Owners
      BY <1>9, Kinds DEF Edits
    <3> QED
      BY <1>1, <3>2, <3>3, <3>4, Quiet
  <2> QED
    BY <2>1, <2>2
<1> QED
  BY <1>3, <1>4, <1>7, <1>8, <1>9, Known DEF RequestKinds, Changes

LEMMA ModifiedIsFlagged ==
    ASSUME NEW s \in StoredStates
    PROVE  Modified(s) \in StoredStates /\ Reviewed(Modified(s)) /\ Modified(s).status = "REVIEW_REQUIRED"
  BY StatusesAreKnown DEF Modified, StoredStates, Reviewed

LEMMA ChangesKeep == ASSUME ServiceInvariant, NEW u \in Users, Change(u) PROVE ServiceInvariant'
<1>1. call[u].pc = "change" /\ call[u].kind \in Changes /\ UNCHANGED <<saved, asked, orphaned>>
  BY DEF Change, Is
<1>2. CASE Fails(u)
  <2>1. PICK r \in RequestRecords : Turns(u, r, "FAILED", call[u].local, "read status") /\ RequestOk(r)
    BY <1>1, <1>2, FailsOk, Kinds DEF Changes, Edits
  <2> QED
    BY <1>1, <2>1, Quiet
<1>3. CASE Work(u, Modified(call[u].local), "save result")
  <2> DEFINE s == Modified(call[u].local)
  <2>1. s \in StoredStates /\ Reviewed(s) /\ s.status = "REVIEW_REQUIRED"
    BY Known, ModifiedIsFlagged
  <2>2. Work(u, s, "save result") /\ "save result" \in Positions
    BY <1>3 DEF Positions
  <2> HIDE DEF s
  <2>3. PICK r \in RequestRecords : Turns(u, r, call[u].status, s, "save result")
    BY <2>1, <2>2, Known, Working
  <2>4. RequestOk(r)
    BY <1>1, <2>1, <2>3, Kinds DEF Turns, RequestOk, Changes, Edits
  <2> QED
    BY <1>1, <2>3, <2>4, Quiet
<1> QED
  BY <1>2, <1>3 DEF Change, Local

LEMMA EditsKeep == ASSUME ServiceInvariant, NEW u \in Users, Edit(u) PROVE ServiceInvariant'
<1>1. call[u].pc = "change" /\ call[u].kind \in Edits /\ UNCHANGED <<saved, asked, orphaned>>
  BY DEF Edit, Is
<1>2. "save result" \in Positions /\ call[u].kind \notin Owners /\ call[u].kind # "start" /\ call[u].kind # "retry"
  BY <1>1, Kinds DEF Positions, Edits
<1>3. CASE Finish(u, "FAILED")
  <2>1. PICK r \in RequestRecords : Turns(u, r, "FAILED", Unset("PENDING"), "ended")
    BY <1>3, Known, StatusesAreKnown, Finishing
  <2>2. RequestOk(r)
    BY <2>1, EndedIsOk DEF Turns
  <2> QED
    BY <1>1, <1>2, <2>1, <2>2, Quiet
<1>4. ASSUME NEW s \in StoredStates, Reviewed(s), call[u].kind = "outline" => s.status # "RUNNING",
             NEW r \in RequestRecords, Turns(u, r, call[u].status, s, "save result")
      PROVE  ServiceInvariant'
  <2>1. RequestOk(r)
    BY <1>1, <1>2, <1>4 DEF Turns, RequestOk
  <2> QED
    BY <1>1, <1>4, <2>1, Quiet
<1>5. CASE call[u].kind = "edit" /\ Step(u, "save result")
  <2>1. PICK r \in RequestRecords : Turns(u, r, call[u].status, call[u].local, "save result")
    BY <1>2, <1>5, Known, Stepping
  <2> QED
    BY <1>4, <1>5, <2>1, Known
<1>6. CASE call[u].kind = "outline" /\ Work(u, [Local(u) EXCEPT !.status = "OUTLINE_APPROVED"], "save result")
  <2> DEFINE s == [Local(u) EXCEPT !.status = "OUTLINE_APPROVED"]
  <2>1. s \in StoredStates /\ Reviewed(s) /\ s.status = "OUTLINE_APPROVED"
    BY Known, StatusesAreKnown DEF Local, StoredStates, Reviewed
  <2>2. Work(u, s, "save result")
    BY <1>6
  <2> HIDE DEF s
  <2>3. PICK r \in RequestRecords : Turns(u, r, call[u].status, s, "save result")
    BY <1>2, <2>1, <2>2, Known, Working
  <2> QED
    BY <1>4, <2>1, <2>3
<1>7. CASE /\ call[u].kind = "edit"
           /\ Work(u, [Local(u) EXCEPT !.stories = "edited", !.judged = FALSE], "save result")
  <2> DEFINE s == [Local(u) EXCEPT !.stories = "edited", !.judged = FALSE]
  <2>1. s \in StoredStates /\ Reviewed(s)
    BY Known DEF Local, StoredStates, Reviewed
  <2>2. Work(u, s, "save result")
    BY <1>7
  <2> HIDE DEF s
  <2>3. PICK r \in RequestRecords : Turns(u, r, call[u].status, s, "save result")
    BY <1>2, <2>1, <2>2, Known, Working
  <2> QED
    BY <1>4, <1>7, <2>1, <2>3
<1> QED
  BY <1>3, <1>5, <1>6, <1>7 DEF Edit

-----------------------------------------------------------------------------
\* Runs of the graph

LEMMA SavesRun == ASSUME ServiceInvariant, NEW u \in Users, SaveRun(u) PROVE ServiceInvariant'
<1>1. /\ call[u].pc = "save run" /\ UNCHANGED <<asked, orphaned>>
      /\ saved' = call[u].local /\ Step(u, "running") /\ "running" \in Positions
  BY DEF SaveRun, Is, Local, Positions
<1>2. PICK r \in RequestRecords : Turns(u, r, call[u].status, call[u].local, "running")
  BY <1>1, Known, Stepping
<1>3. call[u].kind \in Operations \cup {"start"} /\ RequestOk(r)
  BY <1>1, <1>2, Known, Kinds DEF Turns, RequestOk, Edits, Operations
<1>4. call[u].kind = "start" => call[u].local.status # "RUNNING"
  BY Known DEF RequestOk
<1>5. call[u].local.status # "RUNNING" \/ call[u].kind \in Owners
  BY <1>3, <1>4 DEF Owners
<1>6. call[u].local \in StoredStates /\ Reviewed(call[u].local) /\ orphaned' \in BOOLEAN
  BY <1>1, Known
<1>7. CASE call[u].kind \in Owners
  BY <1>1, <1>2, <1>3, <1>6, <1>7, OwnerSaves
<1>8. CASE call[u].local.status # "RUNNING"
  BY <1>1, <1>2, <1>3, <1>6, <1>8, Saves
<1> QED
  BY <1>5, <1>7, <1>8

LEMMA EndsAreStates ==
    ASSUME ServiceInvariant, NEW u \in Users, NEW end \in Ends(u)
    PROVE  end \in StoredStates /\ Reviewed(end) /\ end.status # "RUNNING"
<1> DEFINE base == [Local(u) EXCEPT !.stories = IF @ = "none" THEN "generated" ELSE @, !.judged = TRUE]
<1>1. base \in StoredStates /\ base.judged
  <2>1. Local(u) \in StoredStates
    BY Known DEF Local
  <2>2. CASE Local(u).stories = "none"
    <3>1. base = [Local(u) EXCEPT !.stories = "generated", !.judged = TRUE]
      BY <2>2
    <3> QED
      BY <2>1, <3>1 DEF StoredStates
  <2>3. CASE Local(u).stories # "none"
    <3>1. base = [Local(u) EXCEPT !.stories = Local(u).stories, !.judged = TRUE]
      BY <2>3
    <3> QED
      BY <2>1, <3>1 DEF StoredStates
  <2> QED
    BY <2>2, <2>3
<1>2. \/ end = [base EXCEPT !.status = "COMPLETED", !.review = FALSE, !.verdict = "passed"]
      \/ \E v \in {"failed", "retry", "review"} :
            end = [base EXCEPT !.status = IF base.final THEN "COMPLETED" ELSE "REVIEW_REQUIRED",
                               !.review = ~base.final, !.verdict = v]
  BY DEF Ends
<1> HIDE DEF base
<1>3. CASE end = [base EXCEPT !.status = "COMPLETED", !.review = FALSE, !.verdict = "passed"]
  BY <1>1, <1>3, StatusesAreKnown DEF StoredStates, Reviewed
<1>4. ASSUME NEW v \in {"failed", "retry", "review"},
             end = [base EXCEPT !.status = IF base.final THEN "COMPLETED" ELSE "REVIEW_REQUIRED",
                                !.review = ~base.final, !.verdict = v]
      PROVE  end \in StoredStates /\ Reviewed(end) /\ end.status # "RUNNING"
  <2>1. base.final \in BOOLEAN
    BY <1>1 DEF StoredStates
  <2>2. CASE base.final
    <3>1. end = [base EXCEPT !.status = "COMPLETED", !.review = FALSE, !.verdict = v]
      BY <1>4, <2>2
    <3> QED
      BY <1>1, <3>1, StatusesAreKnown DEF StoredStates, Reviewed
  <2>3. CASE ~base.final
    <3>1. end = [base EXCEPT !.status = "REVIEW_REQUIRED", !.review = TRUE, !.verdict = v]
      BY <1>4, <2>3
    <3> QED
      BY <1>1, <3>1, StatusesAreKnown DEF StoredStates, Reviewed
  <2> QED
    BY <2>1, <2>2, <2>3
<1> QED
  BY <1>2, <1>3, <1>4

LEMMA GraphEnds ==
    ASSUME ServiceInvariant, NEW u \in Users, GraphReturns(u) \/ GraphRaises(u) \/ GraphIsCancelled(u)
    PROVE  ServiceInvariant'
<1>1. call[u].pc = "running" /\ UNCHANGED <<saved, asked, orphaned>>
  BY DEF GraphReturns, GraphRaises, GraphIsCancelled, Is
<1>2. call[u].kind \in Operations \cup {"start"} /\ {"save result", "save failure"} \subseteq Positions
  BY <1>1, Known DEF RequestOk, Positions
<1>3. ASSUME NEW pc \in {"save result", "save failure"}, NEW s \in StoredStates, Reviewed(s),
             s.status # "RUNNING" \/ (s = call[u].local /\ pc = "save failure"),
             NEW r \in RequestRecords, Turns(u, r, call[u].status, s, pc)
      PROVE  ServiceInvariant'
  <2>1. call[u].kind = "start" => s.status # "RUNNING"
    BY <1>3, Known DEF RequestOk
  <2>2. call[u].kind \notin Edits /\ call[u].kind \notin {"retry", "outline"}
    BY <1>2, Kinds DEF Operations, Edits
  <2>3. RequestOk(r)
    BY <1>2, <1>3, <2>1, <2>2 DEF Turns, RequestOk
  <2> QED
    BY <1>1, <1>3, <2>3, Quiet
<1>4. CASE GraphReturns(u)
  <2>1. PICK end \in Ends(u) : Work(u, end, "save result")
    BY <1>4 DEF GraphReturns
  <2>2. end \in StoredStates /\ Reviewed(end) /\ end.status # "RUNNING"
    BY EndsAreStates
  <2>3. PICK r \in RequestRecords : Turns(u, r, call[u].status, end, "save result")
    BY <1>2, <2>1, <2>2, Known, Working
  <2> QED
    BY <1>3, <2>2, <2>3
<1>5. CASE GraphRaises(u)
  <2>1. PICK r \in RequestRecords : Turns(u, r, call[u].status, call[u].local, "save failure")
    BY <1>2, <1>5, Known, Stepping DEF GraphRaises
  <2> QED
    BY <1>3, <2>1, Known
<1>6. CASE GraphIsCancelled(u)
  <2> DEFINE s == [Local(u) EXCEPT !.status = "CANCELLED"]
  <2>1. s \in StoredStates /\ Reviewed(s) /\ s.status = "CANCELLED"
    BY Known, StatusesAreKnown DEF Local, StoredStates, Reviewed
  <2>2. Work(u, s, "save failure")
    BY <1>6 DEF GraphIsCancelled
  <2> HIDE DEF s
  <2>3. PICK r \in RequestRecords : Turns(u, r, call[u].status, s, "save failure")
    BY <1>2, <2>1, <2>2, Known, Working
  <2> QED
    BY <1>3, <2>1, <2>3
<1> QED
  BY <1>4, <1>5, <1>6

LEMMA SavesFailure == ASSUME ServiceInvariant, NEW u \in Users, SaveFailure(u) PROVE ServiceInvariant'
<1>1. call[u].pc = "save failure" /\ saved' = call[u].local /\ UNCHANGED <<asked, orphaned>>
  BY DEF SaveFailure, Is, Local
<1>2. CASE call[u].kind = "start"
  <2>1. Finish(u, "FAILED") /\ call[u].local.status # "RUNNING"
    BY <1>2, Known DEF SaveFailure, RequestOk
  <2>2. PICK r \in RequestRecords : Turns(u, r, "FAILED", Unset("PENDING"), "ended")
    BY <2>1, Known, StatusesAreKnown, Finishing
  <2>3. RequestOk(r)
    BY <2>2, EndedIsOk DEF Turns
  <2> QED
    BY <1>1, <2>1, <2>2, <2>3, Known, Saves
<1>3. CASE call[u].kind # "start"
  <2>1. call[u].kind \in Operations /\ Fails(u)
    BY <1>1, <1>3, Known DEF SaveFailure, RequestOk
  <2>2. PICK r \in RequestRecords : Turns(u, r, "FAILED", call[u].local, "read status") /\ RequestOk(r)
    BY <2>1, FailsOk, Kinds DEF Operations, Edits
  <2>3. call[u].kind \in Owners
    BY <2>1 DEF Owners
  <2> QED
    BY <1>1, <2>2, <2>3, Known, OwnerSaves
<1> QED
  BY <1>2, <1>3

\* What is reported, and what is shown, is a status other than RUNNING.
LEMMA ShownIsAStatus ==
    ASSUME NEW s
    PROVE  Shown(s) \in StoryStatuses
<1>1. CASE s.status = "RETRY_REQUIRED"
  BY <1>1 DEF Shown, StoryStatuses
<1>2. CASE s.status # "RETRY_REQUIRED" /\ (s.review \/ s.verdict = "review")
  BY <1>2 DEF Shown, StoryStatuses
<1>3. CASE s.status # "RETRY_REQUIRED" /\ ~(s.review \/ s.verdict = "review") /\ s.verdict \in {"retry", "failed"}
  BY <1>3 DEF Shown, StoryStatuses
<1>4. CASE s.status # "RETRY_REQUIRED" /\ ~(s.review \/ s.verdict = "review") /\ s.verdict \notin {"retry", "failed"}
  BY <1>4 DEF Shown, StoryStatuses
<1> QED
  BY <1>1, <1>2, <1>3, <1>4

LEMMA ReportedIsAStatus ==
    ASSUME NEW u \in Users
    PROVE  Reported(u) \in WorkflowStatuses /\ Reported(u) # "RUNNING" /\ Shown(Local(u)) \in WorkflowStatuses
<1>1. Reported(u) \in StoryStatuses /\ Shown(Local(u)) \in StoryStatuses
  BY ShownIsAStatus DEF Reported, StoryStatuses
<1> QED
  BY <1>1 DEF WorkflowStatuses, StoryStatuses

-----------------------------------------------------------------------------
\* Results

\* What the operations record last
LEMMA Reports ==
    ASSUME ServiceInvariant, NEW u \in Users, Answer(u, Reported(u), "read status"),
           call[u].kind \in Owners, saved' = call[u].local,
           orphaned' \in BOOLEAN, orphaned => orphaned', UNCHANGED asked
    PROVE  ServiceInvariant'
<1>1. Reported(u) \in WorkflowStatuses /\ Reported(u) # "RUNNING" /\ "read status" \in Positions
  BY ReportedIsAStatus DEF Positions
<1>2. PICK r \in RequestRecords : Turns(u, r, Reported(u), call[u].local, "read status")
  BY <1>1, Known, Answering
<1>3. RequestOk(r)
  BY <1>2, Known, Kinds DEF Turns, RequestOk, Edits
<1> QED
  BY <1>2, <1>3, OwnerSaves

LEMMA SavesResult == ASSUME ServiceInvariant, NEW u \in Users, SaveResult(u) PROVE ServiceInvariant'
<1>1. call[u].pc = "save result" /\ saved' = call[u].local /\ UNCHANGED asked
  BY DEF SaveResult, Is, Local
<1>2. orphaned' = (orphaned \/ (call[u].kind = "edit" /\ call[u].local.status = "RUNNING"))
  BY DEF SaveResult, Local
<1>3. orphaned' \in BOOLEAN /\ (orphaned => orphaned')
  BY <1>2, Known
<1>4. call[u].local \in StoredStates /\ Reviewed(call[u].local)
  BY Known
<1>5. CASE call[u].kind = "generate" /\ Step(u, "save versions")
  <2>1. "save versions" \in Positions /\ call[u].kind \in Owners
    BY <1>5, Kinds DEF Positions
  <2>2. PICK r \in RequestRecords : Turns(u, r, call[u].status, call[u].local, "save versions")
    BY <1>5, <2>1, Known, Stepping
  <2>3. RequestOk(r)
    BY <1>4, <1>5, <2>2 DEF Turns, RequestOk, Edits
  <2> QED
    BY <1>1, <1>3, <2>1, <2>2, <2>3, OwnerSaves
<1>6. CASE call[u].kind \in (Operations \ {"generate"}) \cup {"modify"} /\ Answer(u, Reported(u), "read status")
  <2>1. call[u].kind \in Owners
    BY <1>6 DEF Owners
  <2> QED
    BY <1>1, <1>3, <1>6, <2>1, Reports
<1>7. CASE call[u].kind \in {"start", "retry"} \cup Edits /\ Finish(u, Shown(Local(u)))
  <2>1. PICK r \in RequestRecords : Turns(u, r, Shown(Local(u)), Unset("PENDING"), "ended")
    BY <1>7, Known, ReportedIsAStatus, Finishing
  <2>2. RequestOk(r)
    BY <2>1, EndedIsOk DEF Turns
  <2>3. call[u].kind \in {"start", "retry", "outline"} => call[u].local.status # "RUNNING"
    BY <1>1, Known DEF RequestOk
  <2>4. call[u].local.status # "RUNNING" \/ orphaned'
    BY <1>2, <1>7, <2>3 DEF Edits
  <2> QED
    BY <1>1, <1>3, <1>4, <2>1, <2>2, <2>4, Saves
<1> QED
  BY <1>5, <1>6, <1>7 DEF SaveResult

LEMMA SavesVersions == ASSUME ServiceInvariant, NEW u \in Users, SaveVersions(u) PROVE ServiceInvariant'
<1>1. /\ call[u].pc = "save versions" /\ saved' = call[u].local /\ UNCHANGED <<asked, orphaned>>
      /\ Answer(u, Reported(u), "read status")
  BY DEF SaveVersions, Is, Local
<1>2. call[u].kind \in Owners
  BY <1>1, Known, Kinds DEF RequestOk
<1> QED
  BY <1>1, <1>2, Known, Reports

LEMMA CutsOff == ASSUME ServiceInvariant, NEW u \in Users, CutOff(u) PROVE ServiceInvariant'
<1>1. Finish(u, "FAILED") /\ orphaned' /\ orphaned' \in BOOLEAN /\ UNCHANGED <<saved, asked>>
  BY DEF CutOff
<1>2. PICK r \in RequestRecords : Turns(u, r, "FAILED", Unset("PENDING"), "ended")
  BY <1>1, Known, StatusesAreKnown, Finishing
<1>3. RequestOk(r)
  BY <1>2, EndedIsOk DEF Turns
<1>4. saved' \in StoredStates \cup {NoState}
  BY <1>1 DEF ServiceInvariant, ServiceTypes
<1>5. saved' # NoState => Reviewed(saved')
  BY <1>1 DEF ServiceInvariant, Reviewed
<1> QED
  BY <1>1, <1>2, <1>3, <1>4, <1>5, Keeps

-----------------------------------------------------------------------------
\* A request that begins

LEMMA BegunIsOk ==
    ASSUME ServiceInvariant, NEW u \in Users, NEW kind \in RequestKinds, NEW final \in BOOLEAN
    PROVE  /\ Request(u, kind, final) \in RequestRecords /\ RequestOk(Request(u, kind, final))
           /\ Request(u, kind, final).kind = kind
<1> DEFINE alone == saved # NoState /\ saved.review /\ \A v \in Users : ~UnderWay(v)
           local == [Unset("PENDING") EXCEPT !.final = final]
           pc == CASE kind = "start"                      -> "save run"
                   [] kind \in Operations \cup {"modify"} -> "read status"
                   [] OTHER                               -> "read"
           r == [kind |-> kind, status |-> "RUNNING", alone |-> alone, local |-> local, pc |-> pc]
<1>1. Request(u, kind, final) = r
  BY DEF Request
<1>2. alone \in BOOLEAN
  OBVIOUS
<1>3. local \in StoredStates /\ local.status = "PENDING" /\ local.stories = "none"
  BY UnsetIsAState, StatusesAreKnown DEF StoredStates
<1>4. /\ kind = "start" => pc = "save run"
      /\ kind \in Owners => pc = "read status"
      /\ kind \notin Owners \cup {"start"} => pc = "read"
  <2>1. "start" \notin Operations \cup {"modify"}
    BY DEF Operations
  <2> QED
    BY <2>1 DEF Owners
<1> HIDE DEF alone, local, pc
<1>5. pc \in Positions
  BY <1>4 DEF Positions
<1>6. r \in RequestRecords
  BY <1>2, <1>3, <1>5, StatusesAreKnown DEF RequestRecords
<1>7. RequestOk(r)
  BY <1>3, <1>4, Kinds DEF RequestOk, Reviewed, Edits
<1> QED
  BY <1>1, <1>6, <1>7

LEMMA Asks == ASSUME ServiceInvariant, NEW u \in Users, Ask(u), StoryServiceAssumption PROVE ServiceInvariant'
<1>1. PICK kind \in RequestKinds, final \in BOOLEAN :
        call' = [v \in Users |-> IF v = u THEN Request(u, kind, final) ELSE [call[v] EXCEPT !.alone = FALSE]]
  BY DEF Ask
<1>2. /\ ~UnderWay(u) /\ asked < MaxAsked /\ asked' = asked + 1 /\ UNCHANGED <<saved, orphaned>>
  BY DEF Ask
<1>3. ASSUME NEW v \in Users, v # u
      PROVE  /\ call'[v] \in RequestRecords /\ RequestOk(call'[v])
             /\ call'[v].pc = call[v].pc /\ call'[v].kind = call[v].kind
  <2> DEFINE r == [call[v] EXCEPT !.alone = FALSE]
  <2>1. call'[v] = r
    BY <1>1, <1>3
  <2>2. call[v] \in RequestRecords /\ RequestOk(call[v])
    BY Fields DEF ServiceInvariant
  <2>3. /\ r \in RequestRecords /\ r.pc = call[v].pc /\ r.kind = call[v].kind
        /\ r.status = call[v].status /\ r.local = call[v].local
    BY <2>2 DEF RequestRecords
  <2> HIDE DEF r
  <2>4. RequestOk(r)
    BY <2>2, <2>3 DEF RequestOk
  <2> QED
    BY <2>1, <2>3, <2>4
<1>4. call'[u] = Request(u, kind, final)
  BY <1>1
<1>5. call'[u] \in RequestRecords /\ RequestOk(call'[u])
  BY <1>4, BegunIsOk
<1>6. DOMAIN call' = Users /\ call' = [v \in Users |-> call'[v]]
  BY <1>1
<1>7. call' \in [Users -> RequestRecords]
  BY <1>3, <1>5, <1>6
<1>8. asked' \in 0..MaxAsked
  <2>1. asked \in 0..MaxAsked /\ MaxAsked \in Nat
    BY StoryServiceAssumption DEF ServiceInvariant, ServiceTypes
  <2> QED
    BY <1>2, <2>1
<1>9. ServiceTypes'
  BY <1>2, <1>7, <1>8 DEF ServiceInvariant, ServiceTypes
<1>10. (\A v \in Users : RequestOk(call[v]))'
  BY <1>3, <1>5 DEF RequestOk, Reviewed
<1>11. Owned'
  BY <1>2, <1>3 DEF ServiceInvariant, Owned, UnderWay, Is
<1>12. (saved # NoState => Reviewed(saved))'
  BY <1>2 DEF ServiceInvariant, Reviewed
<1> QED
  BY <1>9, <1>10, <1>11, <1>12 DEF ServiceInvariant

-----------------------------------------------------------------------------
LEMMA InitHolds == ASSUME ServiceInit PROVE ServiceInvariant
<1> DEFINE r == [kind |-> "edit", pc |-> "ended", local |-> Unset("PENDING"), status |-> "PENDING", alone |-> FALSE]
<1>1. r \in RequestRecords /\ RequestOk(r)
  <2>1. r \in RequestRecords
    BY UnsetIsAState, StatusesAreKnown, Kinds DEF RequestRecords, Positions
  <2>2. r.local = Unset("PENDING") /\ r.pc = "ended"
    OBVIOUS
  <2> QED
    BY <2>1, <2>2, EndedIsOk
<1>2. call = [u \in Users |-> r]
  BY DEF ServiceInit
<1> HIDE DEF r
<1>3. asked \in 0..MaxAsked
  <2>1. asked = 0 /\ MaxAsked \in Nat
    BY StoryServiceAssumption DEF ServiceInit
  <2> QED
    BY <2>1
<1> QED
  BY <1>1, <1>2, <1>3 DEF ServiceInit, ServiceInvariant, ServiceTypes, Owned

LEMMA NextHolds == ASSUME ServiceInvariant, [ServiceNext]_serviceVars PROVE ServiceInvariant'
<1>1. ASSUME NEW u \in Users, Operate(u)
      PROVE  ServiceInvariant'
  BY <1>1, ReadsStatus, SavesStatus, Reads, ChangesKeep, EditsKeep, SavesRun, GraphEnds, SavesFailure,
     SavesResult, SavesVersions DEF Operate
<1>2. CASE UNCHANGED serviceVars
  BY <1>2 DEF serviceVars, ServiceInvariant, ServiceTypes, RequestOk, Reviewed, Owned, UnderWay, Is
<1> QED
  BY <1>1, <1>2, Asks, CutsOff, StoryServiceAssumption DEF ServiceNext

(***************************************************************************)
(* For any number of users and requests: a RUNNING that was saved has a    *)
(* request under way that will save another status, and changed stories    *)
(* keep their flag in what is saved and in every copy of it.               *)
(***************************************************************************)
THEOREM ServiceInvariantHolds == ServiceSpec => []ServiceInvariant
<1>1. ServiceInit => ServiceInvariant
  BY InitHolds
<1>2. ServiceInvariant /\ [ServiceNext]_serviceVars => ServiceInvariant'
  BY NextHolds
<1> QED
  BY <1>1, <1>2, PTL DEF ServiceSpec

\* RUNNING has an owner, but for requests cut off and edits of what was RUNNING.
THEOREM RunningIsOwnedHolds == ServiceSpec => []RunningIsOwned
<1>1. ServiceInvariant => RunningIsOwned
  BY DEF ServiceInvariant, Owned, RunningIsOwned
<1> QED
  BY <1>1, ServiceInvariantHolds, PTL

\* Changed stories are not shown as passed before a run has judged them.
THEOREM ChangesAreReviewedHolds == ServiceSpec => []ChangesAreReviewed
<1>1. ASSUME ServiceInvariant, saved # NoState, saved.stories = "changed", ~saved.judged
      PROVE  Shown(saved) # "VALIDATION_PASSED"
  <2>1. saved.review
    BY <1>1 DEF ServiceInvariant, Reviewed
  <2>2. CASE saved.status = "RETRY_REQUIRED"
    BY <2>2 DEF Shown
  <2>3. CASE saved.status # "RETRY_REQUIRED"
    BY <2>1, <2>3 DEF Shown
  <2> QED
    BY <2>2, <2>3
<1>2. ServiceInvariant => ChangesAreReviewed
  BY <1>1 DEF ChangesAreReviewed
<1> QED
  BY <1>2, ServiceInvariantHolds, PTL

-----------------------------------------------------------------------------
(***************************************************************************)
(* ProjectCache: OnlyRacesHideHistories.  What a purge has read leads to   *)
(* every history that no version was appended to since: that is what its   *)
(* second command needs when it deletes the registry.                      *)
(***************************************************************************)
HistoryInvariant ==
    /\ versions = [s \in Histories |-> versions[s]]
    /\ OnlyRacesHideHistories
    /\ purge # NoPurge => \A s \in Histories : versions[s] # << >> => s \in purge \cup raced

LEMMA HistoriesInitially == CacheInit => HistoryInvariant
BY DEF CacheInit, HistoryInvariant, OnlyRacesHideHistories

LEMMA AppendingVersion ==
    ASSUME HistoryInvariant, NEW s \in Histories, AppendVersion(s)
    PROVE  HistoryInvariant'
<1>1. /\ registry' = registry \cup {s} /\ purge' = purge
      /\ raced \subseteq raced' /\ (purge # NoPurge => s \in raced')
  BY DEF AppendVersion
<1>2. PICK more : versions' = [versions EXCEPT ![s] = more]
  BY DEF AppendVersion
<1>3. /\ versions' = [t \in Histories |-> versions'[t]]
      /\ \A t \in Histories \ {s} : versions'[t] = versions[t]
  BY <1>2 DEF HistoryInvariant
<1> QED
  BY <1>1, <1>3 DEF HistoryInvariant, OnlyRacesHideHistories

LEMMA Purging ==
    ASSUME HistoryInvariant, BeginPurge \/ EndPurge
    PROVE  HistoryInvariant'
<1>1. CASE BeginPurge
  BY <1>1 DEF BeginPurge, HistoryInvariant, OnlyRacesHideHistories
<1>2. CASE EndPurge
  BY <1>2 DEF EndPurge, HistoryInvariant, OnlyRacesHideHistories
<1> QED
  BY <1>1, <1>2

LEMMA OtherCommands ==
    ASSUME HistoryInvariant, UNCHANGED historyVars
    PROVE  HistoryInvariant'
BY DEF HistoryInvariant, OnlyRacesHideHistories, historyVars

LEMMA HistoryInvariantKept == HistoryInvariant /\ [CacheNext]_cacheVars => HistoryInvariant'
<1>1. CASE UNCHANGED cacheVars
  BY <1>1, OtherCommands DEF cacheVars, historyVars
<1>2. CASE \/ CacheDocument \/ CacheWorkflow \/ CachePlanning \/ CacheStories \/ CachePlanningArtifacts
           \/ CacheSession \/ CacheResponse \/ MarkIndexed
  BY <1>2, OtherCommands DEF CacheDocument, CacheWorkflow, CachePlanning, CacheStories, CachePlanningArtifacts,
                             CacheSession, CacheResponse, MarkIndexed, Cache
<1>3. CASE InvalidateDocument \/ InvalidateProject \/ InvalidateSession \/ InvalidateIndex
  BY <1>3, OtherCommands DEF InvalidateDocument, InvalidateProject, InvalidateSession, InvalidateIndex, Forget
<1>4. CASE AppendAttempt \/ CacheValidation \/ SetJobStatus \/ InvalidateGeneration \/ KeyExpires
  BY <1>4, OtherCommands DEF AppendAttempt, CacheValidation, SetJobStatus, InvalidateGeneration, KeyExpires
<1> QED
  BY <1>1, <1>2, <1>3, <1>4, AppendingVersion, Purging DEF CacheNext

(***************************************************************************)
(* For any number of stories, versions and purges: only a version that     *)
(* came between the two commands of a purge can hide a history from the    *)
(* purges to come.                                                         *)
(***************************************************************************)
THEOREM OnlyRacesHideHistoriesHolds == CacheSpec => []OnlyRacesHideHistories
<1>1. CacheSpec => []HistoryInvariant
  BY HistoriesInitially, HistoryInvariantKept, PTL DEF CacheSpec
<1>2. HistoryInvariant => OnlyRacesHideHistories
  BY DEF HistoryInvariant
<1> QED
  BY <1>1, <1>2, PTL

=============================================================================
