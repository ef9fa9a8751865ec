------------------------ MODULE TurnLifecycleProofs ------------------------
(***************************************************************************)
(* Theorems about TurnLifecycle, for every set of calls, Turn ids, resumes *)
(* and shutdowns, any limits and any number of store failures.             *)
(***************************************************************************)
EXTENDS TurnLifecycle, ApplicationRuntimeProofs

-----------------------------------------------------------------------------
(***************************************************************************)
(* The inductive invariant                                                 *)
(***************************************************************************)

\* The states of a call whose Turn is accepted and still executes.
Executing == {"queued", "running", "staged", "persisting", "persisted", "unpersisted"}

\* The states of a call that never committed its acceptance.
Undelivered == {"idle", "admitted", "registered", "refused", "rejected"}

\* A terminal is there from stage_terminal on.
StagedKept ==
    \A c \in Calls :
        call[c] \in {"staged", "persisting", "persisted", "unpersisted", "publishing",
                     "failing"} => staged[c] # None

\* A delivery row belongs to the call that committed it, and to no other call of
\* the same Turn id.
DeliveryOwned ==
    /\ \A c \in Calls : deliveries[TurnOf[c]] = c <=> call[c] \notin Undelivered
    /\ \A t \in Turns : deliveries[t] # None => TurnOf[deliveries[t]] = t

\* A slot belongs to a call of its Turn id that is where the slot's phase says.
SlotOf(t) ==
    /\ turns[t] = "absent" <=> slot_call[t] = None
    /\ slot_call[t] # None => TurnOf[slot_call[t]] = t
    /\ turns[t] = "pendingAcceptance" => call[slot_call[t]] \in {"registered", "committed"}
    /\ turns[t] = "active" =>
          /\ deliveries[t] = slot_call[t]
          /\ call[slot_call[t]] \in Executing \cup {"blocked", "aborted"}
    /\ turns[t] = "pendingTerminal" =>
          /\ deliveries[t] = slot_call[t]
          /\ call[slot_call[t]] \in {"failing", "done"}
          /\ pending_terminal[t] # None
SlotOwned == \A t \in Turns : SlotOf(t)

\* A call whose acceptance can still commit, or did and is not public, has its
\* slot and its lane entry; a call that can only be rejected leaves nobody's slot
\* to remove but one that is not accepted either; an executing one has its slot.
HoldsSlot(c) ==
    /\ call[c] = "committed" \/ (call[c] = "registered" /\ deliveries[TurnOf[c]] = None) =>
          /\ turns[TurnOf[c]] = "pendingAcceptance"
          /\ slot_call[TurnOf[c]] = c
          /\ Has(ThreadOf[c], {TurnOf[c]})
    /\ call[c] = "registered" =>
          /\ turns[TurnOf[c]] \in {"absent", "pendingAcceptance"}
          /\ \A other \in Calls : TurnOf[other] = TurnOf[c] => call[other] # "committed"
    /\ call[c] \in Executing => turns[TurnOf[c]] = "active" /\ slot_call[TurnOf[c]] = c
CallHoldsSlot == \A c \in Calls : HoldsSlot(c)

\* A resume_turn that holds a terminal cloned it from a Turn whose task is over.
ResumeHolds ==
    \A r \in Resumes :
        /\ resume[r].at # "idle" => resume[r].turn # None
        /\ resume[r].at \in {"persisting", "persisted"} =>
              /\ resume[r].terminal # None
              /\ deliveries[resume[r].turn] # None
              /\ call[deliveries[resume[r].turn]] \in {"failing", "done"}

\* Once admission is closed no call is being admitted, and a shutdown goes on
\* only with admission closed and for a caller that owns it.
AdmissionClosed ==
    /\ ~open => Admitting = {}
    /\ stage # "none" \/ ~store_open => ~open
    /\ \A s \in Shutdowns : shutdown[s] \in {"locking", "owner"} => ~open
    /\ \A c \in Calls : call[c] \in {"blocked", "aborted"} => ~open
    /\ stage \notin {"none", "complete"} => \E s \in Shutdowns : shutdown[s] = "owner"

\* What the shutdown has waited for is over: no task works from the drain on (nor
\* before, once the store is closed), no slot is left behind the drain, and only
\* the persisting stage holds slots.
TasksJoined ==
    /\ stage \in {"drain", "persist", "close", "complete"} \/ ~store_open =>
          \A c \in Calls : call[c] \in Live => call[c] = "blocked"
    /\ stage = "adapter" /\ ~report.forced => NoLiveTask
    /\ stage \in {"persist", "close", "complete"} \/ ~store_open =>
          \A t \in Turns : turns[t] = "absent"
    /\ work # {} => stage = "persist" /\ store_open
    /\ inflight # None => inflight \in work

TurnInvariant ==
    /\ TypeOK
    /\ StagedKept
    /\ DeliveryOwned
    /\ SlotOwned
    /\ CallHoldsSlot
    /\ ResumeHolds
    /\ AdmissionClosed
    /\ TasksJoined

\* The calls, Turns and lanes a call names.
LEMMA Names ==
    /\ \A c \in Calls : TurnOf[c] \in Turns /\ TurnOf[c] \in Operations /\ ThreadOf[c] \in Lanes
    /\ None \notin Calls
    /\ Turns \subseteq Operations
    /\ None \notin Turns
  BY CallsAssumption, OperationKindsDisjoint DEF Operations, Lanes

\* None is no outcome.
LEMMA NoneIsNoOutcome == None \notin Outcome
  BY CallsAssumption DEF Outcome

\* A resume_turn and what it holds.
ResumeRecord == [at : ResumeState, turn : Turns \cup {None}, terminal : Outcome \cup {None}]

LEMMA ResumeTyped ==
    ASSUME NEW x \in ResumeRecord
    PROVE  x.at \in ResumeState /\ x.turn \in Turns \cup {None} /\ x.terminal \in Outcome \cup {None}
  BY DEF ResumeRecord

LEMMA ResumeMoves ==
    ASSUME NEW f \in [Resumes -> ResumeRecord], NEW r \in Resumes, NEW a \in ResumeState
    PROVE  /\ [f EXCEPT ![r].at = a] \in [Resumes -> ResumeRecord]
           /\ \A q \in Resumes \ {r} : [f EXCEPT ![r].at = a][q] = f[q]
           /\ [f EXCEPT ![r].at = a][r].at = a
           /\ [f EXCEPT ![r].at = a][r].turn = f[r].turn
           /\ [f EXCEPT ![r].at = a][r].terminal = f[r].terminal
  BY DEF ResumeRecord

\* What the type invariant says of the state a proof reads.
LEMMA Typed ==
    ASSUME TypeOK
    PROVE  /\ RuntimeTypeOK
           /\ turns \in [Turns -> TurnPhase]
           /\ call \in [Calls -> CallState]
           /\ staged \in [Calls -> Outcome \cup {None}]
           /\ completion \in [Calls -> Completion]
           /\ published \in [Calls -> Seq(Outcome)]
           /\ slot_call \in [Turns -> Calls \cup {None}]
           /\ pending_terminal \in [Turns -> Outcome \cup {None}]
           /\ deliveries \in [Turns -> Calls \cup {None}]
           /\ terminals \in [Turns -> Outcome \cup {None}]
           /\ store_failures \in 0..MaxStoreFailures
           /\ resume \in [Resumes -> ResumeRecord]
           /\ shutdown \in [Shutdowns -> ShutdownState]
  BY DEF TypeOK, RuntimeTypeOK, ResumeRecord

\* A failed transaction is counted within its bound.
LEMMA FailureTyped ==
    ASSUME TypeOK, StoreFails
    PROVE  store_failures' \in 0..MaxStoreFailures
<1>1. store_failures \in 0..MaxStoreFailures /\ MaxStoreFailures \in Nat
  BY CallsAssumption DEF TypeOK
<1>2. CASE store_open
  BY <1>1, <1>2 DEF StoreFails
<1>3. CASE ~store_open
  BY <1>1, <1>3 DEF StoreFails
<1> QED
  BY <1>2, <1>3

\* A step that leaves the runtime alone.
LEMMA RuntimeKept ==
    ASSUME UNCHANGED runtimeVars
    PROVE  /\ UNCHANGED open /\ UNCHANGED turns /\ UNCHANGED cells
           /\ RuntimeTypeOK => RuntimeTypeOK'
           /\ \A l \in Lanes, o \in Operations : Has(l, {o}) => Has(l, {o})'
  BY DEF runtimeVars, RuntimeTypeOK, Has

\* The steps of a task between its slot and its end, and of a call that is
\* refused: nothing but the call itself moves.
LEMMA CallMoves ==
    ASSUME TurnInvariant, NEW c \in Calls, NEW b,
           call' = [call EXCEPT ![c] = b],
           \/ call[c] = "idle" /\ (b = "refused" \/ (b = "admitted" /\ open))
           \/ call[c] = "admitted" /\ b = "refused"
           \/ call[c] \in Executing /\ b \in Executing
           \/ call[c] = "blocked" /\ b = "aborted"
           \/ call[c] \in {"publishing", "failing"} /\ b = "done",
           UNCHANGED <<runtimeVars, slot_call, pending_terminal, deliveries, store_open,
                       resume, shutdownVars>>
    PROVE  /\ DeliveryOwned' /\ SlotOwned' /\ CallHoldsSlot' /\ ResumeHolds'
           /\ AdmissionClosed' /\ TasksJoined'
<1>1. /\ UNCHANGED <<open, turns, cells>>
      /\ \A l \in Lanes, o \in Operations : Has(l, {o}) => Has(l, {o})'
  BY RuntimeKept
<1>2. UNCHANGED <<stage, work, inflight, report, shutdown>>
  BY DEF shutdownVars
<1>3. /\ turns \in [Turns -> TurnPhase]
      /\ call \in [Calls -> CallState]
      /\ slot_call \in [Turns -> Calls \cup {None}]
      /\ deliveries \in [Turns -> Calls \cup {None}]
      /\ resume \in [Resumes -> ResumeRecord]
  BY Typed DEF TurnInvariant
<1>4. \A d \in Calls : call'[d] = IF d = c THEN b ELSE call[d]
  BY <1>3
<1>5. DeliveryOwned'
  BY <1>4, <1>3, Names DEF TurnInvariant, DeliveryOwned, Undelivered, Executing
<1>6. SlotOwned'
  BY <1>1, <1>4, <1>3, Names DEF TurnInvariant, SlotOwned, SlotOf, Executing
<1>7. CallHoldsSlot'
  <2> SUFFICES ASSUME NEW d \in Calls PROVE HoldsSlot(d)'
    BY DEF CallHoldsSlot
  <2>1. HoldsSlot(d)
    BY DEF TurnInvariant, CallHoldsSlot
  <2>2. /\ call'[d] \in {"committed", "registered"} => call'[d] = call[d]
        /\ call'[d] \in Executing => call[d] \in Executing
        /\ \A e \in Calls : call'[e] = "committed" => call[e] = "committed"
    BY <1>4 DEF Executing
  <2>3. Has(ThreadOf[d], {TurnOf[d]}) => Has(ThreadOf[d], {TurnOf[d]})'
    BY <1>1, Names
  <2> QED
    BY <1>1, <2>1, <2>2, <2>3 DEF HoldsSlot
<1>8. ResumeHolds'
  <2>1. \A r \in Resumes : resume[r].turn \in Turns \cup {None}
    BY <1>3, ResumeTyped
  <2> QED
    BY <2>1, <1>4, <1>3, Names DEF TurnInvariant, ResumeHolds, Executing
<1>9. AdmissionClosed'
  BY <1>1, <1>2, <1>4 DEF TurnInvariant, AdmissionClosed, Admitting, Executing
<1>10. TasksJoined'
  BY <1>1, <1>2, <1>4 DEF TurnInvariant, TasksJoined, NoLiveTask, Live, Executing
<1> QED
  BY <1>5, <1>6, <1>7, <1>8, <1>9, <1>10

\* begin_admission, prepare_turn, the Adapter, stage_terminal, finalize_terminal
\* and the store's answers.
LEMMA CallMoveSteps ==
    ASSUME TurnInvariant, NEW c \in Calls, NEW outcome \in Outcome,
           \/ BeginAdmission(c) \/ GiveUpAdmission(c) \/ InvokeTurn(c)
           \/ StageTerminal(c, outcome) \/ TakeStagedTerminal(c) \/ CommitTerminal(c)
           \/ FailTerminal(c) \/ PublishTerminal(c) \/ UnblockTurn(c)
    PROVE  TurnInvariant'
<1>1. TypeOK /\ StagedKept
  BY DEF TurnInvariant
<1>2. /\ RuntimeTypeOK
      /\ call \in [Calls -> CallState]
      /\ staged \in [Calls -> Outcome \cup {None}]
      /\ completion \in [Calls -> Completion]
      /\ published \in [Calls -> Seq(Outcome)]
      /\ terminals \in [Turns -> Outcome \cup {None}]
      /\ store_failures \in 0..MaxStoreFailures
  BY <1>1, Typed
<1>3. PICK b \in CallState :
         /\ call' = [call EXCEPT ![c] = b]
         /\ \/ call[c] = "idle" /\ (b = "refused" \/ (b = "admitted" /\ open))
            \/ call[c] = "admitted" /\ b = "refused"
            \/ call[c] \in Executing /\ b \in Executing
            \/ call[c] = "blocked" /\ b = "aborted"
            \/ call[c] \in {"publishing", "failing"} /\ b = "done"
         /\ b \in {"staged", "persisting", "persisted", "unpersisted"} =>
               \/ staged'[c] # None
               \/ /\ call[c] \in {"staged", "persisting", "persisted", "unpersisted"}
                  /\ UNCHANGED staged
  <2> USE DEF Goto, CallState, Live, Executing
  <2>1. CASE BeginAdmission(c)
    <3>1. CASE open
      BY <2>1, <3>1 DEF BeginAdmission
    <3>2. CASE ~open
      BY <2>1, <3>2 DEF BeginAdmission
    <3> QED
      BY <3>1, <3>2
  <2>2. CASE GiveUpAdmission(c)
    BY <2>2 DEF GiveUpAdmission
  <2>3. CASE InvokeTurn(c)
    BY <2>3 DEF InvokeTurn
  <2>4. CASE StageTerminal(c, outcome)
    <3>1. outcome # None /\ staged'[c] = outcome
      BY <2>4, <1>2, NoneIsNoOutcome DEF StageTerminal
    <3> QED
      BY <2>4, <3>1 DEF StageTerminal
  <2>5. CASE TakeStagedTerminal(c)
    BY <2>5 DEF TakeStagedTerminal
  <2>6. CASE CommitTerminal(c)
    BY <2>6 DEF CommitTerminal
  <2>7. CASE FailTerminal(c)
    BY <2>7 DEF FailTerminal
  <2>8. CASE PublishTerminal(c)
    BY <2>8 DEF PublishTerminal
  <2>9. CASE UnblockTurn(c)
    BY <2>9 DEF UnblockTurn
  <2> QED
    BY <2>1, <2>2, <2>3, <2>4, <2>5, <2>6, <2>7, <2>8, <2>9
<1>4. UNCHANGED <<runtimeVars, slot_call, pending_terminal, deliveries, store_open, resume,
                  shutdownVars, panics>>
  BY DEF BeginAdmission, GiveUpAdmission, InvokeTurn, StageTerminal, TakeStagedTerminal,
         CommitTerminal, FailTerminal, PublishTerminal, UnblockTurn, slotVars, storeVars
<1>5. /\ DeliveryOwned' /\ SlotOwned' /\ CallHoldsSlot' /\ ResumeHolds'
      /\ AdmissionClosed' /\ TasksJoined'
  BY <1>3, <1>4, CallMoves
<1>6. StagedKept'
  <2>1. \A d \in Calls \ {c} : staged'[d] = staged[d]
    BY <1>2 DEF BeginAdmission, GiveUpAdmission, InvokeTurn, StageTerminal, TakeStagedTerminal,
         CommitTerminal, FailTerminal, PublishTerminal, UnblockTurn
  <2>2. \A d \in Calls : call'[d] = IF d = c THEN b ELSE call[d]
    BY <1>2, <1>3
  <2> QED
    BY <1>1, <1>3, <2>1, <2>2 DEF StagedKept, Executing
<1>7. /\ RuntimeTypeOK'
      /\ call' \in [Calls -> CallState]
      /\ staged' \in [Calls -> Outcome \cup {None}]
  BY <1>2, <1>3, <1>4, RuntimeKept
     DEF BeginAdmission, GiveUpAdmission, InvokeTurn, StageTerminal, TakeStagedTerminal,
         CommitTerminal, FailTerminal, PublishTerminal, UnblockTurn
<1>8. /\ completion' \in [Calls -> Completion]
      /\ published' \in [Calls -> Seq(Outcome)]
  <2>1. CASE PublishTerminal(c)
    <3>1. call[c] \in {"publishing", "failing"} /\ staged[c] \in Outcome
      BY <2>1, <1>1, <1>2 DEF StagedKept, PublishTerminal
    <3>2. Append(published[c], staged[c]) \in Seq(Outcome)
      BY <1>2, <3>1
    <3>3. published' \in [Calls -> Seq(Outcome)]
      BY <1>2, <2>1, <3>2 DEF PublishTerminal
    <3> QED
      BY <1>2, <2>1, <3>1, <3>3 DEF PublishTerminal, SettleCompletion, Settled, Completion
  <2>2. CASE ~PublishTerminal(c)
    BY <2>2, <1>2 DEF BeginAdmission, GiveUpAdmission, InvokeTurn, StageTerminal,
         TakeStagedTerminal, CommitTerminal, FailTerminal, UnblockTurn
  <2> QED
    BY <2>1, <2>2
<1>9. /\ terminals' \in [Turns -> Outcome \cup {None}]
      /\ store_failures' \in 0..MaxStoreFailures
  <2>1. CASE CommitTerminal(c)
    BY <2>1, <1>2 DEF CommitTerminal
  <2>2. CASE FailTerminal(c) \/ StageTerminal(c, outcome)
    BY <2>2, <1>1, <1>2, FailureTyped DEF FailTerminal, StageTerminal
  <2>3. CASE ~CommitTerminal(c) /\ ~FailTerminal(c) /\ ~StageTerminal(c, outcome)
    BY <2>3, <1>2 DEF BeginAdmission, GiveUpAdmission, InvokeTurn, TakeStagedTerminal,
         PublishTerminal, UnblockTurn, storeVars
  <2> QED
    BY <2>1, <2>2, <2>3
<1>10. TypeOK'
  BY <1>1, <1>4, <1>7, <1>8, <1>9 DEF TypeOK, shutdownVars
<1> QED
  BY <1>5, <1>6, <1>10 DEF TurnInvariant

\* Admission and shutdown exclude each other: while a call is being admitted
\* nothing of a shutdown has begun.
LEMMA AdmittingAlone ==
    ASSUME TurnInvariant, NEW c \in Calls, c \in Admitting
    PROVE  /\ open
           /\ stage = "none"
           /\ store_open
           /\ work = {}
           /\ inflight = None
           /\ \A d \in Calls : call[d] \notin {"blocked", "aborted"}
  BY DEF TurnInvariant, AdmissionClosed, TasksJoined

\* register_turn.
LEMMA RegisterStep ==
    ASSUME TurnInvariant, NEW c \in Calls, Register(c)
    PROVE  TurnInvariant'
<1> DEFINE t == TurnOf[c]
<1>1. /\ t \in Turns /\ t \in Operations /\ ThreadOf[c] \in Lanes
      /\ \A d \in Calls : TurnOf[d] \in Turns /\ TurnOf[d] \in Operations /\ ThreadOf[d] \in Lanes
      /\ None \notin Calls
  BY Names
<1>2. /\ TypeOK /\ StagedKept /\ DeliveryOwned /\ SlotOwned /\ CallHoldsSlot
      /\ ResumeHolds /\ AdmissionClosed /\ TasksJoined
  BY DEF TurnInvariant
<1>3. /\ RuntimeTypeOK
      /\ turns \in [Turns -> TurnPhase]
      /\ call \in [Calls -> CallState]
      /\ slot_call \in [Turns -> Calls \cup {None}]
      /\ pending_terminal \in [Turns -> Outcome \cup {None}]
      /\ deliveries \in [Turns -> Calls \cup {None}]
      /\ resume \in [Resumes -> ResumeRecord]
  BY <1>2, Typed
<1>4. /\ call[c] = "admitted"
      /\ turns[t] = "absent"
      /\ Reserve(ThreadOf[c], t, FALSE)
      /\ turns' = [turns EXCEPT ![t] = "pendingAcceptance"]
      /\ slot_call' = [slot_call EXCEPT ![t] = c]
      /\ pending_terminal' = [pending_terminal EXCEPT ![t] = None]
      /\ call' = [call EXCEPT ![c] = "registered"]
      /\ UNCHANGED <<open, activity_revision, staged, completion, published, storeVars, resume,
                     shutdownVars, panics>>
  BY DEF Register, RegisterTurn, Goto
<1> HIDE DEF t
<1>5. /\ cells' \in [Lanes -> Seq(Operations)]
      /\ ready' \in [Operations -> Signal]
      /\ durable_accepted' \subseteq Operations
      /\ accepted_operations' \in Nat
      /\ Has(ThreadOf[c], {t})'
      /\ \A k \in Lanes, o \in Operations : Has(k, {o}) => Has(k, {o})'
  BY <1>1, <1>3, <1>4, ReserveTyped
<1>6. /\ \A d \in Calls : call'[d] = IF d = c THEN "registered" ELSE call[d]
      /\ \A u \in Turns : turns'[u] = IF u = t THEN "pendingAcceptance" ELSE turns[u]
      /\ \A u \in Turns : slot_call'[u] = IF u = t THEN c ELSE slot_call[u]
      /\ \A u \in Turns \ {t} : pending_terminal'[u] = pending_terminal[u]
  BY <1>1, <1>3, <1>4
<1>7. UNCHANGED <<open, deliveries, terminals, store_open, store_failures, staged, completion,
                  published, resume, shutdown, force_requested, stage, work, inflight, report,
                  panics>>
  BY <1>4 DEF storeVars, shutdownVars
<1>8. /\ open
      /\ stage = "none" /\ store_open /\ work = {} /\ inflight = None
      /\ \A d \in Calls : call[d] \notin {"blocked", "aborted"}
  BY <1>2, <1>4, AdmittingAlone DEF Admitting
<1>9. TypeOK'
  <2>1. RuntimeTypeOK'
    BY <1>1, <1>3, <1>4, <1>5 DEF RuntimeTypeOK, TurnPhase
  <2>2. /\ call' \in [Calls -> CallState]
        /\ slot_call' \in [Turns -> Calls \cup {None}]
        /\ pending_terminal' \in [Turns -> Outcome \cup {None}]
    BY <1>1, <1>3, <1>4 DEF CallState, Live
  <2> QED
    BY <1>2, <1>7, <2>1, <2>2 DEF TypeOK
<1>10. StagedKept'
  BY <1>2, <1>6, <1>7 DEF StagedKept
<1>11. DeliveryOwned'
  BY <1>2, <1>4, <1>6, <1>7 DEF DeliveryOwned, Undelivered
<1>12. SlotOwned'
  <2> SUFFICES ASSUME NEW u \in Turns PROVE SlotOf(u)'
    BY DEF SlotOwned
  <2>1. CASE u = t
    BY <2>1, <1>1, <1>6 DEF SlotOf, t
  <2>2. CASE u # t
    <3>1. SlotOf(u)
      BY <1>2 DEF SlotOwned
    <3> QED
      BY <2>2, <3>1, <1>3, <1>4, <1>6, <1>7 DEF SlotOf, Executing
  <2> QED
    BY <2>1, <2>2
<1>13. CallHoldsSlot'
  <2> SUFFICES ASSUME NEW d \in Calls PROVE HoldsSlot(d)'
    BY DEF CallHoldsSlot
  <2>1. HoldsSlot(d) /\ (\A e \in Calls : HoldsSlot(e))
    BY <1>2 DEF CallHoldsSlot
  <2>2. \A e \in Calls : TurnOf[e] = t =>
           call[e] \notin Executing \cup {"committed"} /\ (call[e] = "registered" => deliveries[t] # None)
    BY <2>1, <1>4 DEF HoldsSlot
  <2>3. CASE d = c
    BY <2>2, <2>3, <1>1, <1>5, <1>6, <1>7 DEF HoldsSlot, Executing, t
  <2>4. CASE d # c /\ TurnOf[d] = t
    BY <2>1, <2>2, <2>4, <1>1, <1>6, <1>7 DEF HoldsSlot
  <2>5. CASE d # c /\ TurnOf[d] # t
    <3>1. Has(ThreadOf[d], {TurnOf[d]}) => Has(ThreadOf[d], {TurnOf[d]})'
      BY <1>1, <1>5
    <3> QED
      BY <2>1, <2>5, <3>1, <1>1, <1>6, <1>7 DEF HoldsSlot
  <2> QED
    BY <2>3, <2>4, <2>5
<1>14. ResumeHolds'
  <2>1. \A r \in Resumes : resume[r].turn \in Turns \cup {None}
    BY <1>3, ResumeTyped
  <2> QED
    BY <2>1, <1>2, <1>3, <1>4, <1>6, <1>7 DEF ResumeHolds
<1>15. AdmissionClosed'
  BY <1>2, <1>6, <1>7, <1>8 DEF AdmissionClosed
<1>16. TasksJoined'
  BY <1>7, <1>8 DEF TasksJoined
<1> QED
  BY <1>9, <1>10, <1>11, <1>12, <1>13, <1>14, <1>15, <1>16 DEF TurnInvariant

\* settle_turn, as every module that calls it sees it.
LEMMA SettleEffect ==
    ASSUME TypeOK, NEW c \in Calls, NEW retained \in BOOLEAN,
           SettleTurn(ThreadOf[c], TurnOf[c], retained)
    PROVE  /\ RuntimeTypeOK'
           /\ UNCHANGED open
           /\ \A u \in Turns : turns'[u] = IF u # TurnOf[c] THEN turns[u]
                                           ELSE IF ~retained \/ turns[u] = "absent" THEN "absent"
                                           ELSE "pendingTerminal"
           /\ \A k \in Lanes, o \in Operations \ {TurnOf[c]} : Has(k, {o}) => Has(k, {o})'
<1>1. /\ TurnOf[c] \in Turns /\ TurnOf[c] \in Operations /\ ThreadOf[c] \in Lanes
      /\ RuntimeTypeOK
      /\ turns \in [Turns -> TurnPhase]
      /\ activity_revision \in Nat
  BY Names, Typed DEF RuntimeTypeOK
<1>2. /\ cells' \in [Lanes -> Seq(Operations)]
      /\ ready' \in [Operations -> Signal]
      /\ accepted_operations' \in Nat
      /\ \A k \in Lanes, o \in Operations \ {TurnOf[c]} : Has(k, {o}) => Has(k, {o})'
  BY <1>1, ReleaseTyped DEF SettleTurn
<1>3. activity_revision' \in Nat
  BY <1>1, RecordActivityType DEF SettleTurn
<1>4. \A u \in Turns : turns'[u] = IF u # TurnOf[c] THEN turns[u]
                                   ELSE IF ~retained \/ turns[u] = "absent" THEN "absent"
                                   ELSE "pendingTerminal"
  BY <1>1 DEF SettleTurn
<1>5. turns' \in [Turns -> TurnPhase]
  BY <1>1 DEF SettleTurn, TurnPhase
<1>6. UNCHANGED open /\ UNCHANGED durable_accepted
  BY DEF SettleTurn
<1> QED
  BY <1>1, <1>2, <1>3, <1>4, <1>5, <1>6 DEF RuntimeTypeOK

\* A call leaves together with its slot: rejected, or after its terminal is
\* durable.
LEMMA SlotRemoved ==
    ASSUME TurnInvariant, NEW c \in Calls, NEW b,
           SettleTurn(ThreadOf[c], TurnOf[c], FALSE),
           slot_call' = [slot_call EXCEPT ![TurnOf[c]] = None],
           pending_terminal' = pending_terminal,
           call' = [call EXCEPT ![c] = b],
           \/ call[c] = "registered" /\ b = "rejected"
           \/ call[c] = "persisted" /\ b = "publishing",
           UNCHANGED <<deliveries, store_open, resume, shutdownVars>>
    PROVE  /\ DeliveryOwned' /\ SlotOwned' /\ CallHoldsSlot' /\ ResumeHolds'
           /\ AdmissionClosed' /\ TasksJoined'
<1> DEFINE t == TurnOf[c]
<1>1. /\ t \in Turns
      /\ \A d \in Calls : TurnOf[d] \in Turns /\ TurnOf[d] \in Operations /\ ThreadOf[d] \in Lanes
      /\ None \notin Calls
  BY Names
<1>2. /\ TypeOK /\ DeliveryOwned /\ SlotOwned /\ CallHoldsSlot
      /\ ResumeHolds /\ AdmissionClosed /\ TasksJoined
  BY DEF TurnInvariant
<1>3. /\ turns \in [Turns -> TurnPhase]
      /\ call \in [Calls -> CallState]
      /\ slot_call \in [Turns -> Calls \cup {None}]
      /\ deliveries \in [Turns -> Calls \cup {None}]
      /\ resume \in [Resumes -> ResumeRecord]
  BY <1>2, Typed
<1>4. /\ UNCHANGED open
      /\ \A u \in Turns : turns'[u] = IF u = t THEN "absent" ELSE turns[u]
      /\ \A k \in Lanes, o \in Operations \ {t} : Has(k, {o}) => Has(k, {o})'
  BY <1>2, SettleEffect
<1>5. ASSUME NEW d \in Calls \ {c}, TurnOf[d] = t
      PROVE  /\ call[d] \notin Executing \cup {"committed"}
             /\ call[d] = "registered" => deliveries[t] # None
  <2>1. HoldsSlot(c) /\ HoldsSlot(d)
    BY <1>2 DEF CallHoldsSlot
  <2>2. CASE call[c] = "registered"
    BY <1>5, <2>1, <2>2 DEF HoldsSlot, Executing
  <2>3. CASE call[c] = "persisted"
    BY <1>5, <2>1, <2>3 DEF HoldsSlot, Executing
  <2> QED
    BY <2>2, <2>3
<1> HIDE DEF t
<1>6. /\ \A d \in Calls : call'[d] = IF d = c THEN b ELSE call[d]
      /\ \A u \in Turns : slot_call'[u] = IF u = t THEN None ELSE slot_call[u]
  BY <1>1, <1>3 DEF t
<1>7. UNCHANGED <<stage, work, inflight, report, shutdown>>
  BY DEF shutdownVars
<1>8. DeliveryOwned'
  BY <1>2, <1>6 DEF DeliveryOwned, Undelivered
<1>9. SlotOwned'
  <2> SUFFICES ASSUME NEW u \in Turns PROVE SlotOf(u)'
    BY DEF SlotOwned
  <2>1. CASE u = t
    BY <2>1, <1>1, <1>4, <1>6 DEF SlotOf
  <2>2. CASE u # t
    <3>1. SlotOf(u)
      BY <1>2 DEF SlotOwned
    <3>2. slot_call[u] # c
      BY <2>2, <3>1, <1>1 DEF SlotOf, t
    <3> QED
      BY <2>2, <3>1, <3>2, <1>1, <1>3, <1>4, <1>6 DEF SlotOf
  <2> QED
    BY <2>1, <2>2
<1>10. CallHoldsSlot'
  <2> SUFFICES ASSUME NEW d \in Calls PROVE HoldsSlot(d)'
    BY DEF CallHoldsSlot
  <2>1. HoldsSlot(d)
    BY <1>2 DEF CallHoldsSlot
  <2>2. CASE d = c
    BY <2>2, <1>6 DEF HoldsSlot, Executing
  <2>3. CASE d # c /\ TurnOf[d] = t
    BY <2>1, <2>3, <1>1, <1>4, <1>5, <1>6 DEF HoldsSlot
  <2>4. CASE d # c /\ TurnOf[d] # t
    <3>1. Has(ThreadOf[d], {TurnOf[d]}) => Has(ThreadOf[d], {TurnOf[d]})'
      BY <1>1, <1>4, <2>4
    <3> QED
      BY <2>1, <2>4, <3>1, <1>1, <1>4, <1>6 DEF HoldsSlot
  <2> QED
    BY <2>2, <2>3, <2>4
<1>11. ResumeHolds'
  <2>1. \A r \in Resumes : resume[r].turn \in Turns \cup {None}
    BY <1>3, ResumeTyped
  <2> QED
    BY <2>1, <1>2, <1>3, <1>6 DEF ResumeHolds
<1>12. AdmissionClosed'
  BY <1>2, <1>4, <1>6, <1>7 DEF AdmissionClosed, Admitting
<1>13. TasksJoined'
  BY <1>2, <1>4, <1>6, <1>7 DEF TasksJoined, NoLiveTask, Live
<1> QED
  BY <1>8, <1>9, <1>10, <1>11, <1>12, <1>13

\* The slot of a call whose task ends without a durable terminal is still its own,
\* unless the shutdown has taken it.
LEMMA OwnSlot ==
    ASSUME TurnInvariant, NEW c \in Calls,
           call[c] \in {"unpersisted", "running", "staged", "persisting", "blocked"}
    PROVE  /\ deliveries[TurnOf[c]] = c
           /\ \/ turns[TurnOf[c]] = "absent"
              \/ turns[TurnOf[c]] = "active" /\ slot_call[TurnOf[c]] = c
           /\ call[c] = "blocked" =>
                 \A d \in Calls : call[d] \notin {"admitted", "registered", "committed"}
<1> DEFINE t == TurnOf[c]
<1>1. t \in Turns /\ None \notin Calls
  BY Names
<1>2. TypeOK /\ DeliveryOwned /\ SlotOwned /\ CallHoldsSlot /\ AdmissionClosed
  BY DEF TurnInvariant
<1>3. turns \in [Turns -> TurnPhase] /\ slot_call \in [Turns -> Calls \cup {None}]
  BY <1>2, Typed
<1>5. deliveries[t] = c
  BY <1>2 DEF DeliveryOwned, Undelivered
<1>6. call[c] = "blocked" =>
         \A d \in Calls : call[d] \notin {"admitted", "registered", "committed"}
  BY <1>2 DEF AdmissionClosed, Admitting
<1>7. turns[t] = "absent" \/ (turns[t] = "active" /\ slot_call[t] = c)
  <2>1. CASE call[c] # "blocked"
    BY <1>2, <2>1 DEF CallHoldsSlot, HoldsSlot, Executing
  <2>2. CASE call[c] = "blocked"
    <3>1. SlotOf(t)
      BY <1>1, <1>2 DEF SlotOwned
    <3>2. turns[t] \in {"absent", "pendingAcceptance", "active", "pendingTerminal"}
      BY <1>1, <1>3 DEF TurnPhase
    <3> QED
      BY <2>2, <3>1, <3>2, <1>1, <1>3, <1>5, <1>6 DEF SlotOf
  <2> QED
    BY <2>1, <2>2
<1> QED
  BY <1>5, <1>6, <1>7

\* The task of a call ends and its slot, if the shutdown has not taken it, keeps
\* the terminal o.
LEMMA SlotRetained ==
    ASSUME TurnInvariant, NEW c \in Calls, NEW b, NEW o \in Outcome,
           SettleTurn(ThreadOf[c], TurnOf[c], TRUE),
           slot_call' = slot_call,
           pending_terminal' = [pending_terminal EXCEPT ![TurnOf[c]] =
                                  IF turns[TurnOf[c]] # "absent" THEN o ELSE @],
           call' = [call EXCEPT ![c] = b],
           \/ call[c] = "unpersisted" /\ b = "failing"
           \/ call[c] \in {"running", "staged", "persisting", "blocked"} /\ b = "done",
           UNCHANGED <<deliveries, store_open, resume, shutdownVars>>
    PROVE  /\ DeliveryOwned' /\ SlotOwned' /\ CallHoldsSlot' /\ ResumeHolds'
           /\ AdmissionClosed' /\ TasksJoined'
<1> DEFINE t == TurnOf[c]
<1>1. /\ t \in Turns
      /\ \A d \in Calls : TurnOf[d] \in Turns /\ TurnOf[d] \in Operations /\ ThreadOf[d] \in Lanes
      /\ None \notin Calls
      /\ None \notin Outcome
  BY Names, NoneIsNoOutcome
<1>2. /\ TypeOK /\ DeliveryOwned /\ SlotOwned /\ CallHoldsSlot
      /\ ResumeHolds /\ AdmissionClosed /\ TasksJoined
  BY DEF TurnInvariant
<1>3. /\ turns \in [Turns -> TurnPhase]
      /\ call \in [Calls -> CallState]
      /\ slot_call \in [Turns -> Calls \cup {None}]
      /\ pending_terminal \in [Turns -> Outcome \cup {None}]
      /\ deliveries \in [Turns -> Calls \cup {None}]
      /\ resume \in [Resumes -> ResumeRecord]
  BY <1>2, Typed
<1>4. /\ UNCHANGED open
      /\ \A u \in Turns : turns'[u] = IF u # t THEN turns[u]
                                      ELSE IF turns[u] = "absent" THEN "absent"
                                      ELSE "pendingTerminal"
      /\ \A k \in Lanes, op \in Operations \ {t} : Has(k, {op}) => Has(k, {op})'
  BY <1>2, SettleEffect
<1>5. deliveries[t] = c
  BY OwnSlot
<1>6. call[c] = "blocked" =>
         \A d \in Calls : call[d] \notin {"admitted", "registered", "committed"}
  BY OwnSlot
<1>7. turns[t] = "absent" \/ (turns[t] = "active" /\ slot_call[t] = c)
  BY OwnSlot
<1>8. ASSUME NEW d \in Calls \ {c}, TurnOf[d] = t
      PROVE  call[d] \notin Executing \cup {"committed", "registered"}
  <2>0. HoldsSlot(c) /\ HoldsSlot(d)
    BY <1>2 DEF CallHoldsSlot
  <2>1. CASE call[c] = "blocked"
    BY <2>0, <2>1, <1>6, <1>7, <1>8 DEF HoldsSlot, Executing
  <2>2. CASE call[c] # "blocked"
    BY <2>0, <2>2, <1>7, <1>8 DEF HoldsSlot, Executing
  <2> QED
    BY <2>1, <2>2
<1> HIDE DEF t
<1>9. /\ \A d \in Calls : call'[d] = IF d = c THEN b ELSE call[d]
      /\ \A u \in Turns : pending_terminal'[u] = IF u = t /\ turns[t] # "absent" THEN o
                                                 ELSE pending_terminal[u]
  BY <1>1, <1>3 DEF t
<1>10. UNCHANGED <<stage, work, inflight, report, shutdown>>
  BY DEF shutdownVars
<1>11. DeliveryOwned'
  BY <1>2, <1>9 DEF DeliveryOwned, Undelivered
<1>12. SlotOwned'
  <2> SUFFICES ASSUME NEW u \in Turns PROVE SlotOf(u)'
    BY DEF SlotOwned
  <2>0. SlotOf(u)
    BY <1>2 DEF SlotOwned
  <2>1. CASE u = t
    BY <2>0, <2>1, <1>1, <1>4, <1>5, <1>7, <1>9 DEF SlotOf, t
  <2>2. CASE u # t
    <3>1. slot_call[u] # c
      BY <2>0, <2>2, <1>1 DEF SlotOf, t
    <3> QED
      BY <2>0, <2>2, <3>1, <1>1, <1>3, <1>4, <1>9 DEF SlotOf
  <2> QED
    BY <2>1, <2>2
<1>13. CallHoldsSlot'
  <2> SUFFICES ASSUME NEW d \in Calls PROVE HoldsSlot(d)'
    BY DEF CallHoldsSlot
  <2>1. HoldsSlot(d)
    BY <1>2 DEF CallHoldsSlot
  <2>2. CASE d = c
    BY <2>2, <1>9 DEF HoldsSlot, Executing
  <2>3. CASE d # c /\ TurnOf[d] = t
    BY <2>3, <1>8, <1>9 DEF HoldsSlot
  <2>4. CASE d # c /\ TurnOf[d] # t
    <3>1. Has(ThreadOf[d], {TurnOf[d]}) => Has(ThreadOf[d], {TurnOf[d]})'
      BY <1>1, <1>4, <2>4
    <3> QED
      BY <2>1, <2>4, <3>1, <1>1, <1>4, <1>9 DEF HoldsSlot
  <2> QED
    BY <2>2, <2>3, <2>4
<1>14. ResumeHolds'
  <2>1. \A r \in Resumes : resume[r].turn \in Turns \cup {None}
    BY <1>3, ResumeTyped
  <2> QED
    BY <2>1, <1>2, <1>3, <1>9 DEF ResumeHolds
<1>15. AdmissionClosed'
  BY <1>2, <1>4, <1>9, <1>10 DEF AdmissionClosed, Admitting
<1>16. TasksJoined'
  BY <1>2, <1>4, <1>9, <1>10 DEF TasksJoined, NoLiveTask, Live
<1> QED
  BY <1>11, <1>12, <1>13, <1>14, <1>15, <1>16

\* accept_framework_turn commits.
LEMMA CommitAcceptanceStep ==
    ASSUME TurnInvariant, NEW c \in Calls, CommitAcceptance(c)
    PROVE  TurnInvariant'
<1> DEFINE t == TurnOf[c]
<1>1. /\ t \in Turns
      /\ \A d \in Calls : TurnOf[d] \in Turns /\ TurnOf[d] \in Operations /\ ThreadOf[d] \in Lanes
      /\ None \notin Calls
  BY Names
<1>2. /\ TypeOK /\ StagedKept /\ DeliveryOwned /\ SlotOwned /\ CallHoldsSlot
      /\ ResumeHolds /\ AdmissionClosed /\ TasksJoined
  BY DEF TurnInvariant
<1>3. /\ RuntimeTypeOK
      /\ turns \in [Turns -> TurnPhase]
      /\ call \in [Calls -> CallState]
      /\ slot_call \in [Turns -> Calls \cup {None}]
      /\ deliveries \in [Turns -> Calls \cup {None}]
      /\ resume \in [Resumes -> ResumeRecord]
  BY <1>2, Typed
<1>4. /\ call[c] = "registered"
      /\ deliveries[t] = None
      /\ deliveries' = [deliveries EXCEPT ![t] = c]
      /\ call' = [call EXCEPT ![c] = "committed"]
      /\ UNCHANGED <<runtimeVars, staged, completion, published, slot_call, pending_terminal,
                     terminals, store_open, store_failures, resume, shutdown, force_requested,
                     stage, work, inflight, report, panics>>
  BY DEF CommitAcceptance, Goto, slotVars, shutdownVars
<1>5. ASSUME NEW d \in Calls \ {c}, TurnOf[d] = t
      PROVE  call[d] \notin Executing \cup {"committed", "registered"}
  <2>1. HoldsSlot(c) /\ HoldsSlot(d)
    BY <1>2 DEF CallHoldsSlot
  <2> QED
    BY <1>4, <1>5, <2>1 DEF HoldsSlot, Executing
<1>6. /\ turns[t] = "pendingAcceptance" /\ slot_call[t] = c
      /\ Has(ThreadOf[c], {TurnOf[c]})
  BY <1>2, <1>4 DEF CallHoldsSlot, HoldsSlot
<1> HIDE DEF t
<1>7. /\ UNCHANGED <<open, turns>>
      /\ RuntimeTypeOK'
      /\ \A k \in Lanes, o \in Operations : Has(k, {o}) => Has(k, {o})'
  BY <1>3, <1>4, RuntimeKept
<1>8. /\ \A d \in Calls : call'[d] = IF d = c THEN "committed" ELSE call[d]
      /\ \A u \in Turns : deliveries'[u] = IF u = t THEN c ELSE deliveries[u]
  BY <1>1, <1>3, <1>4
<1>9. TypeOK'
  <2>1. call' \in [Calls -> CallState] /\ deliveries' \in [Turns -> Calls \cup {None}]
    BY <1>1, <1>3, <1>4 DEF CallState, Live
  <2> QED
    BY <1>2, <1>4, <1>7, <2>1 DEF TypeOK
<1>10. StagedKept'
  BY <1>2, <1>4, <1>8 DEF StagedKept
<1>11. DeliveryOwned'
  <2>1. ASSUME NEW d \in Calls
        PROVE  deliveries'[TurnOf[d]] = d <=> call'[d] \notin Undelivered
    <3>1. CASE d = c
      BY <3>1, <1>1, <1>8 DEF Undelivered, t
    <3>2. CASE d # c /\ TurnOf[d] = t
      BY <3>2, <1>1, <1>2, <1>4, <1>8 DEF DeliveryOwned, Undelivered
    <3>3. CASE d # c /\ TurnOf[d] # t
      BY <3>3, <1>1, <1>2, <1>8 DEF DeliveryOwned
    <3> QED
      BY <3>1, <3>2, <3>3
  <2>2. \A u \in Turns : deliveries'[u] # None => TurnOf[deliveries'[u]] = u
    BY <1>2, <1>8 DEF DeliveryOwned, t
  <2> QED
    BY <2>1, <2>2 DEF DeliveryOwned
<1>12. SlotOwned'
  <2> SUFFICES ASSUME NEW u \in Turns PROVE SlotOf(u)'
    BY DEF SlotOwned
  <2>0. SlotOf(u)
    BY <1>2 DEF SlotOwned
  <2>1. CASE u = t
    BY <2>0, <2>1, <1>1, <1>4, <1>6, <1>7, <1>8 DEF SlotOf
  <2>2. CASE u # t
    <3>1. slot_call[u] # c
      BY <2>0, <2>2, <1>1 DEF SlotOf, t
    <3> QED
      BY <2>0, <2>2, <3>1, <1>1, <1>3, <1>4, <1>7, <1>8 DEF SlotOf
  <2> QED
    BY <2>1, <2>2
<1>13. CallHoldsSlot'
  <2> SUFFICES ASSUME NEW d \in Calls PROVE HoldsSlot(d)'
    BY DEF CallHoldsSlot
  <2>1. HoldsSlot(d)
    BY <1>2 DEF CallHoldsSlot
  <2>2. Has(ThreadOf[d], {TurnOf[d]}) => Has(ThreadOf[d], {TurnOf[d]})'
    BY <1>1, <1>7
  <2>3. CASE d = c
    BY <2>1, <2>2, <2>3, <1>1, <1>4, <1>6, <1>7, <1>8 DEF HoldsSlot, Executing, t
  <2>4. CASE d # c /\ TurnOf[d] = t
    BY <2>4, <1>5, <1>8 DEF HoldsSlot
  <2>5. CASE d # c /\ TurnOf[d] # t
    BY <2>1, <2>2, <2>5, <1>1, <1>4, <1>7, <1>8 DEF HoldsSlot, t
  <2> QED
    BY <2>3, <2>4, <2>5
<1>14. ResumeHolds'
  <2>1. \A r \in Resumes : resume[r].turn \in Turns \cup {None}
    BY <1>3, ResumeTyped
  <2> QED
    BY <2>1, <1>1, <1>2, <1>3, <1>4, <1>8 DEF ResumeHolds
<1>15. AdmissionClosed'
  BY <1>2, <1>4, <1>7, <1>8 DEF AdmissionClosed, Admitting
<1>16. TasksJoined'
  BY <1>2, <1>4, <1>7, <1>8 DEF TasksJoined, NoLiveTask, Live
<1> QED
  BY <1>9, <1>10, <1>11, <1>12, <1>13, <1>14, <1>15, <1>16 DEF TurnInvariant

\* mark_turn_accepted.
LEMMA AcceptTurnStep ==
    ASSUME TurnInvariant, NEW c \in Calls, AcceptTurn(c)
    PROVE  TurnInvariant'
<1> DEFINE t == TurnOf[c]
<1>1. /\ t \in Turns /\ t \in Operations
      /\ \A d \in Calls : TurnOf[d] \in Turns /\ TurnOf[d] \in Operations /\ ThreadOf[d] \in Lanes
      /\ None \notin Calls
  BY Names
<1>2. /\ TypeOK /\ StagedKept /\ DeliveryOwned /\ SlotOwned /\ CallHoldsSlot
      /\ ResumeHolds /\ AdmissionClosed /\ TasksJoined
  BY DEF TurnInvariant
<1>3. /\ RuntimeTypeOK
      /\ turns \in [Turns -> TurnPhase]
      /\ call \in [Calls -> CallState]
      /\ slot_call \in [Turns -> Calls \cup {None}]
      /\ deliveries \in [Turns -> Calls \cup {None}]
      /\ resume \in [Resumes -> ResumeRecord]
  BY <1>2, Typed
<1>4. /\ call[c] = "committed"
      /\ MarkTurnAccepted(ThreadOf[c], t)
      /\ call' = [call EXCEPT ![c] = "queued"]
      /\ UNCHANGED <<staged, completion, published, slot_call, pending_terminal, deliveries,
                     terminals, store_open, store_failures, resume, shutdown, force_requested,
                     stage, work, inflight, report, panics>>
  BY DEF AcceptTurn, Goto, slotVars, storeVars, shutdownVars
<1>5. ASSUME NEW d \in Calls \ {c}, TurnOf[d] = t
      PROVE  call[d] \notin Executing \cup {"committed", "registered"}
  <2>1. HoldsSlot(c) /\ HoldsSlot(d)
    BY <1>2 DEF CallHoldsSlot
  <2> QED
    BY <1>4, <1>5, <2>1 DEF HoldsSlot, Executing
<1>6. turns[t] = "pendingAcceptance" /\ slot_call[t] = c /\ deliveries[t] = c
  BY <1>2, <1>4 DEF CallHoldsSlot, HoldsSlot, DeliveryOwned, Undelivered
<1> HIDE DEF t
<1>7. /\ turns' = [turns EXCEPT ![t] = "active"]
      /\ UNCHANGED <<open, accepted_operations, cells, ready>>
      /\ durable_accepted' = durable_accepted \cup {t}
      /\ activity_revision' \in Nat
  <2>1. activity_revision \in Nat
    BY <1>3 DEF RuntimeTypeOK
  <2>2. activity_revision' \in Nat
    BY <1>4, <2>1, RecordActivityType DEF MarkTurnAccepted
  <2> QED
    BY <1>4, <2>2 DEF MarkTurnAccepted
<1>8. /\ \A d \in Calls : call'[d] = IF d = c THEN "queued" ELSE call[d]
      /\ \A u \in Turns : turns'[u] = IF u = t THEN "active" ELSE turns[u]
      /\ \A k \in Lanes, o \in Operations : Has(k, {o}) => Has(k, {o})'
  BY <1>1, <1>3, <1>4, <1>7 DEF Has
<1>9. TypeOK'
  <2>1. RuntimeTypeOK'
    BY <1>1, <1>3, <1>7 DEF RuntimeTypeOK, TurnPhase
  <2>2. call' \in [Calls -> CallState]
    BY <1>3, <1>4 DEF CallState, Live
  <2> QED
    BY <1>2, <1>4, <2>1, <2>2 DEF TypeOK
<1>10. StagedKept'
  BY <1>2, <1>4, <1>8 DEF StagedKept
<1>11. DeliveryOwned'
  BY <1>2, <1>4, <1>8 DEF DeliveryOwned, Undelivered
<1>12. SlotOwned'
  <2> SUFFICES ASSUME NEW u \in Turns PROVE SlotOf(u)'
    BY DEF SlotOwned
  <2>0. SlotOf(u)
    BY <1>2 DEF SlotOwned
  <2>1. CASE u = t
    BY <2>0, <2>1, <1>1, <1>4, <1>6, <1>8 DEF SlotOf, Executing
  <2>2. CASE u # t
    <3>1. slot_call[u] # c
      BY <2>0, <2>2, <1>1 DEF SlotOf, t
    <3> QED
      BY <2>0, <2>2, <3>1, <1>1, <1>3, <1>4, <1>8 DEF SlotOf
  <2> QED
    BY <2>1, <2>2
<1>13. CallHoldsSlot'
  <2> SUFFICES ASSUME NEW d \in Calls PROVE HoldsSlot(d)'
    BY DEF CallHoldsSlot
  <2>1. HoldsSlot(d)
    BY <1>2 DEF CallHoldsSlot
  <2>2. Has(ThreadOf[d], {TurnOf[d]}) => Has(ThreadOf[d], {TurnOf[d]})'
    BY <1>1, <1>8
  <2>3. CASE d = c
    BY <2>3, <1>1, <1>4, <1>6, <1>8 DEF HoldsSlot, Executing, t
  <2>4. CASE d # c /\ TurnOf[d] = t
    BY <2>4, <1>5, <1>8 DEF HoldsSlot
  <2>5. CASE d # c /\ TurnOf[d] # t
    BY <2>1, <2>2, <2>5, <1>1, <1>4, <1>8 DEF HoldsSlot
  <2> QED
    BY <2>3, <2>4, <2>5
<1>14. ResumeHolds'
  <2>1. \A r \in Resumes : resume[r].turn \in Turns \cup {None}
    BY <1>3, ResumeTyped
  <2> QED
    BY <2>1, <1>2, <1>3, <1>4, <1>8 DEF ResumeHolds
<1>15. AdmissionClosed'
  BY <1>2, <1>4, <1>7, <1>8 DEF AdmissionClosed, Admitting
<1>16. TasksJoined'
  BY <1>2, <1>4, <1>8, AdmittingAlone DEF TasksJoined, NoLiveTask, Live, Admitting
<1> QED
  BY <1>9, <1>10, <1>11, <1>12, <1>13, <1>14, <1>15, <1>16 DEF TurnInvariant

\* The ways a call settles: its slot is removed, or retained with the terminal o.
SettleForm(c, b, o, retained) ==
    /\ call' = [call EXCEPT ![c] = b]
    /\ SettleTurn(ThreadOf[c], TurnOf[c], retained)
    /\ retained =>
         /\ slot_call' = slot_call
         /\ pending_terminal' = [pending_terminal EXCEPT ![TurnOf[c]] =
                                   IF turns[TurnOf[c]] # "absent" THEN o ELSE @]
         /\ \/ call[c] = "unpersisted" /\ b = "failing"
            \/ call[c] \in {"running", "staged", "persisting", "blocked"} /\ b = "done"
    /\ ~retained =>
         /\ slot_call' = [slot_call EXCEPT ![TurnOf[c]] = None]
         /\ pending_terminal' = pending_terminal
         /\ \/ call[c] = "registered" /\ b = "rejected"
            \/ call[c] = "persisted" /\ b = "publishing"

\* TurnTaskGuard::reject, settle_turn and TurnTaskGuard::drop settle in these ways.
LEMMA SettleForms ==
    ASSUME TurnInvariant, NEW c \in Calls,
           RejectAcceptance(c) \/ SettleSlot(c) \/ PanicTurn(c)
    PROVE  \E b \in CallState, o \in Outcome, retained \in BOOLEAN : SettleForm(c, b, o, retained)
<1>a. TypeOK /\ StagedKept
  BY DEF TurnInvariant
<1>b. /\ TurnOf[c] \in Turns
      /\ call \in [Calls -> CallState]
      /\ staged \in [Calls -> Outcome \cup {None}]
      /\ slot_call \in [Turns -> Calls \cup {None}]
      /\ pending_terminal \in [Turns -> Outcome \cup {None}]
  BY <1>a, Typed, Names
<1> USE DEF Goto, CallState, Live, SettleForm
<1>1. CASE RejectAcceptance(c)
  <2>1. "failed" \in Outcome /\ "rejected" \in CallState
    BY DEF Outcome
  <2> QED
    BY <1>1, <2>1 DEF RejectAcceptance
<1>2. CASE SettleSlot(c) /\ call[c] = "persisted"
  <2>1. "failed" \in Outcome /\ "publishing" \in CallState
    BY DEF Outcome
  <2>2. /\ SettleTurn(ThreadOf[c], TurnOf[c], FALSE)
        /\ slot_call' = [slot_call EXCEPT ![TurnOf[c]] = None]
        /\ pending_terminal' = pending_terminal
        /\ call' = [call EXCEPT ![c] = "publishing"]
    BY <1>2, <1>b DEF SettleSlot
  <2> QED
    BY <1>2, <2>1, <2>2
<1>3. CASE SettleSlot(c) /\ call[c] = "unpersisted"
  <2>1. staged[c] \in Outcome /\ "failing" \in CallState
    BY <1>3, <1>a, <1>b DEF StagedKept
  <2>2. turns[TurnOf[c]] # "absent"
    BY <1>3 DEF TurnInvariant, CallHoldsSlot, HoldsSlot, Executing
  <2>3. /\ SettleTurn(ThreadOf[c], TurnOf[c], TRUE)
        /\ slot_call' = slot_call
        /\ pending_terminal' = [pending_terminal EXCEPT ![TurnOf[c]] = staged[c]]
        /\ call' = [call EXCEPT ![c] = "failing"]
    BY <1>3, <1>b DEF SettleSlot
  <2> QED
    BY <1>3, <2>1, <2>2, <2>3
<1>4. CASE PanicTurn(c) /\ call[c] = "registered"
  <2>1. "failed" \in Outcome /\ "rejected" \in CallState
    BY DEF Outcome
  <2>2. /\ SettleTurn(ThreadOf[c], TurnOf[c], FALSE)
        /\ slot_call' = [slot_call EXCEPT ![TurnOf[c]] = None]
        /\ pending_terminal' = pending_terminal
        /\ call' = [call EXCEPT ![c] = "rejected"]
    BY <1>4, <1>b DEF PanicTurn
  <2> QED
    BY <1>4, <2>1, <2>2
<1>5. CASE PanicTurn(c) /\ call[c] # "registered"
  <2> DEFINE kept == IF call[c] = "staged" THEN staged[c] ELSE "failed"
  <2>1. kept \in Outcome /\ "done" \in CallState
    BY <1>a, <1>b DEF StagedKept, Outcome
  <2>2. /\ SettleTurn(ThreadOf[c], TurnOf[c], TRUE)
        /\ slot_call' = slot_call
        /\ pending_terminal' = [pending_terminal EXCEPT ![TurnOf[c]] =
                                   IF turns[TurnOf[c]] # "absent" THEN kept ELSE @]
        /\ call' = [call EXCEPT ![c] = "done"]
        /\ call[c] \in {"running", "staged", "persisting", "blocked"}
    BY <1>5, <1>b DEF PanicTurn
  <2> HIDE DEF kept
  <2> QED
    BY <2>1, <2>2
<1> QED
  BY <1>1, <1>2, <1>3, <1>4, <1>5 DEF SettleSlot

\* TurnTaskGuard::reject, settle_turn and TurnTaskGuard::drop.
LEMMA SettleSteps ==
    ASSUME TurnInvariant, NEW c \in Calls,
           RejectAcceptance(c) \/ SettleSlot(c) \/ PanicTurn(c)
    PROVE  TurnInvariant'
<1>1. TypeOK /\ StagedKept
  BY DEF TurnInvariant
<1>2. /\ RuntimeTypeOK
      /\ TurnOf[c] \in Turns
      /\ call \in [Calls -> CallState]
      /\ staged \in [Calls -> Outcome \cup {None}]
      /\ completion \in [Calls -> Completion]
      /\ slot_call \in [Turns -> Calls \cup {None}]
      /\ pending_terminal \in [Turns -> Outcome \cup {None}]
      /\ store_failures \in 0..MaxStoreFailures
      /\ panics \in BOOLEAN
  BY <1>1, Typed, Names DEF TypeOK
<1>3. PICK b \in CallState, o \in Outcome, retained \in BOOLEAN : SettleForm(c, b, o, retained)
  BY SettleForms
<1>4. UNCHANGED <<staged, published, deliveries, terminals, store_open, resume, shutdownVars>>
  BY DEF RejectAcceptance, SettleSlot, PanicTurn, storeVars
<1>5. /\ DeliveryOwned' /\ SlotOwned' /\ CallHoldsSlot' /\ ResumeHolds'
      /\ AdmissionClosed' /\ TasksJoined'
  <2>1. CASE retained
    BY <2>1, <1>3, <1>4, SlotRetained DEF SettleForm
  <2>2. CASE ~retained
    BY <2>2, <1>3, <1>4, SlotRemoved DEF SettleForm
  <2> QED
    BY <2>1, <2>2
<1>6. StagedKept'
  BY <1>1, <1>2, <1>3, <1>4 DEF StagedKept, SettleForm
<1>7. /\ RuntimeTypeOK'
      /\ call' \in [Calls -> CallState]
      /\ slot_call' \in [Turns -> Calls \cup {None}]
      /\ pending_terminal' \in [Turns -> Outcome \cup {None}]
  BY <1>1, <1>2, <1>3, SettleEffect DEF SettleForm
<1>8. /\ completion' \in [Calls -> Completion]
      /\ store_failures' \in 0..MaxStoreFailures
      /\ panics' \in BOOLEAN
  <2>1. CASE RejectAcceptance(c)
    BY <2>1, <1>1, <1>2, FailureTyped
       DEF RejectAcceptance, SettleCompletion, Settled, Completion
  <2>2. CASE SettleSlot(c)
    BY <2>2, <1>2 DEF SettleSlot, storeVars
  <2>3. CASE PanicTurn(c)
    BY <2>3, <1>2 DEF PanicTurn, SettleCompletion, Settled, Completion, storeVars
  <2> QED
    BY <2>1, <2>2, <2>3
<1>9. TypeOK'
  BY <1>1, <1>4, <1>7, <1>8 DEF TypeOK, shutdownVars
<1> QED
  BY <1>5, <1>6, <1>9 DEF TurnInvariant

-----------------------------------------------------------------------------
(* resume_turn *)

\* A step that leaves the calls and their slots alone.
LEMMA TurnsKept ==
    ASSUME TurnInvariant,
           UNCHANGED <<turns, cells, call, staged, slot_call, pending_terminal, deliveries>>
    PROVE  StagedKept' /\ DeliveryOwned' /\ SlotOwned' /\ CallHoldsSlot'
<1>1. StagedKept'
  BY DEF TurnInvariant, StagedKept
<1>2. DeliveryOwned'
  BY DEF TurnInvariant, DeliveryOwned
<1>3. SlotOwned'
  BY DEF TurnInvariant, SlotOwned, SlotOf
<1>4. CallHoldsSlot'
  BY DEF TurnInvariant, CallHoldsSlot, HoldsSlot, Has
<1> QED
  BY <1>1, <1>2, <1>3, <1>4

\* The other resumes are not concerned.
LEMMA ResumeAlone ==
    ASSUME TurnInvariant, NEW r \in Resumes,
           \A q \in Resumes \ {r} : resume'[q] = resume[q],
           resume'[r].at # "idle" => resume'[r].turn # None,
           resume'[r].at \in {"persisting", "persisted"} =>
              /\ resume'[r].terminal # None
              /\ deliveries[resume'[r].turn] # None
              /\ call[deliveries[resume'[r].turn]] \in {"failing", "done"},
           UNCHANGED <<deliveries, call>>
    PROVE  ResumeHolds'
  BY DEF TurnInvariant, ResumeHolds

\* What shutdown and admission look at stays.
LEMMA ShutdownKept ==
    ASSUME TurnInvariant, UNCHANGED <<open, call, turns, store_open, shutdownVars>>
    PROVE  AdmissionClosed' /\ TasksJoined'
<1>1. UNCHANGED <<stage, work, inflight, report, shutdown>>
  BY DEF shutdownVars
<1>2. AdmissionClosed'
  BY <1>1 DEF TurnInvariant, AdmissionClosed, Admitting
<1>3. TasksJoined'
  BY <1>1 DEF TurnInvariant, TasksJoined, NoLiveTask
<1> QED
  BY <1>2, <1>3

\* The reads and writes of resume_turn before it removes the slot.
LEMMA ResumeSteps ==
    ASSUME TurnInvariant, NEW r \in Resumes, NEW t \in Turns,
           \/ ResumeOpen(r, t) \/ ResumePending(r) \/ ResumeLive(r) \/ ResumeRead(r)
           \/ ResumeCommit(r) \/ ResumeFail(r)
    PROVE  TurnInvariant'
<1> DEFINE u == resume[r].turn
<1>1. TypeOK /\ ResumeHolds /\ SlotOwned
  BY DEF TurnInvariant
<1>2. /\ RuntimeTypeOK
      /\ turns \in [Turns -> TurnPhase]
      /\ pending_terminal \in [Turns -> Outcome \cup {None}]
      /\ deliveries \in [Turns -> Calls \cup {None}]
      /\ terminals \in [Turns -> Outcome \cup {None}]
      /\ store_failures \in 0..MaxStoreFailures
      /\ resume \in [Resumes -> ResumeRecord]
      /\ slot_call \in [Turns -> Calls \cup {None}]
  BY <1>1, Typed
<1>3. /\ resume[r].at \in ResumeState
      /\ u \in Turns \cup {None}
      /\ resume[r].terminal \in Outcome \cup {None}
      /\ resume[r] \in ResumeRecord
  BY <1>2, ResumeTyped
<1>4. UNCHANGED <<runtimeVars, turnVars, slotVars, deliveries, store_open, shutdownVars, panics>>
  BY DEF ResumeOpen, ResumePending, ResumeLive, ResumeRead, ResumeCommit, ResumeFail, storeVars
<1>5. /\ UNCHANGED <<open, turns, cells>> /\ RuntimeTypeOK'
      /\ UNCHANGED <<call, staged, completion, published, slot_call, pending_terminal>>
  BY <1>2, <1>4, RuntimeKept DEF turnVars, slotVars
<1>6. resume[r].at # "idle" => u \in Turns
  BY <1>1, <1>3 DEF ResumeHolds
<1> HIDE DEF u
<1>7. /\ resume' \in [Resumes -> ResumeRecord]
      /\ \A q \in Resumes \ {r} : resume'[q] = resume[q]
      /\ resume'[r].at # "idle" => resume'[r].turn # None
      /\ resume'[r].at \in {"persisting", "persisted"} =>
              /\ resume'[r].terminal # None
              /\ deliveries[resume'[r].turn] # None
              /\ call[deliveries[resume'[r].turn]] \in {"failing", "done"}
  <2>1. CASE ResumeOpen(r, t)
    <3>1. PICK a \in {"checked", "refused"} :
             resume' = [resume EXCEPT ![r].at = a, ![r].turn = t]
      BY <2>1 DEF ResumeOpen
    <3>2. a \in ResumeState /\ a \notin {"persisting", "persisted"}
      BY DEF ResumeState, ResumeResult
    <3>3. /\ resume' \in [Resumes -> ResumeRecord]
          /\ \A q \in Resumes \ {r} : resume'[q] = resume[q]
          /\ resume'[r].at = a
          /\ resume'[r].turn = t
      BY <1>2, <3>1, <3>2 DEF ResumeRecord
    <3> QED
      BY <3>2, <3>3, Names
  <2>2. CASE ResumePending(r)
    <3>1. resume[r].at = "checked" /\ u \in Turns /\ u # None
      BY <2>2, <1>6, Names DEF ResumePending
    <3>2. CASE turns[u] = "pendingTerminal"
      <4>1. resume' = [resume EXCEPT ![r].at = "persisting", ![r].terminal = pending_terminal[u]]
        BY <2>2, <3>2 DEF ResumePending, u
      <4>2. /\ "persisting" \in ResumeState
            /\ pending_terminal[u] \in Outcome \cup {None}
        BY <1>2, <3>1 DEF ResumeState
      <4>3. /\ resume' \in [Resumes -> ResumeRecord]
            /\ \A q \in Resumes \ {r} : resume'[q] = resume[q]
            /\ resume'[r].at = "persisting"
            /\ resume'[r].turn = u
            /\ resume'[r].terminal = pending_terminal[u]
        BY <1>2, <4>1, <4>2 DEF ResumeRecord, u
      <4>4. /\ pending_terminal[u] # None
            /\ deliveries[u] # None
            /\ call[deliveries[u]] \in {"failing", "done"}
        BY <1>1, <3>1, <3>2, Names DEF SlotOwned, SlotOf
      <4> QED
        BY <3>1, <4>3, <4>4
    <3>3. CASE turns[u] # "pendingTerminal"
      <4>1. resume' = [resume EXCEPT ![r].at = "looking", ![r].terminal = resume[r].terminal]
        BY <2>2, <3>3 DEF ResumePending, u
      <4>2. "looking" \in ResumeState
        BY DEF ResumeState
      <4>3. /\ resume' \in [Resumes -> ResumeRecord]
            /\ \A q \in Resumes \ {r} : resume'[q] = resume[q]
            /\ resume'[r].at = "looking"
            /\ resume'[r].turn = u
        BY <1>2, <1>3, <4>1, <4>2 DEF ResumeRecord, u
      <4> QED
        BY <3>1, <4>3
    <3> QED
      BY <3>2, <3>3
  <2>3. CASE ResumeLive(r) \/ ResumeRead(r) \/ ResumeCommit(r) \/ ResumeFail(r)
    <3>1. PICK a \in ResumeState :
             /\ resume' = [resume EXCEPT ![r].at = a]
             /\ resume[r].at # "idle"
             /\ \/ a = "persisted" /\ resume[r].at = "persisting"
                \/ a \notin {"persisting", "persisted", "idle"}
      <4>1. CASE ResumeLive(r)
        <5>1. {"live", "reading"} \subseteq ResumeState
          BY DEF ResumeState, ResumeResult
        <5> QED
          BY <4>1, <5>1 DEF ResumeLive, ResumeGoto
      <4>2. CASE ResumeRead(r)
        <5>1. /\ {"readingDelivery", "indeterminate", "notFound"} \cup Outcome \subseteq ResumeState
              /\ Outcome \cap {"persisting", "persisted", "idle"} = {}
          BY DEF ResumeState, ResumeResult, Outcome
        <5>2. u \in Turns /\ terminals[u] \in Outcome \cup {None}
          BY <4>2, <1>2, <1>6 DEF ResumeRead
        <5>3. CASE resume[r].at = "reading" /\ terminals[u] # None
          BY <4>2, <5>1, <5>2, <5>3 DEF ResumeRead, ResumeGoto, u
        <5>4. CASE resume[r].at = "reading" /\ terminals[u] = None
          BY <4>2, <5>1, <5>4 DEF ResumeRead, ResumeGoto, u
        <5>5. CASE resume[r].at = "readingDelivery"
          BY <4>2, <5>1, <5>5 DEF ResumeRead, ResumeGoto, u
        <5> QED
          BY <4>2, <5>3, <5>4, <5>5 DEF ResumeRead
      <4>3. CASE ResumeCommit(r)
        <5>1. "persisted" \in ResumeState
          BY DEF ResumeState
        <5> QED
          BY <4>3, <5>1 DEF ResumeCommit, ResumeGoto
      <4>4. CASE ResumeFail(r)
        <5>1. {"persistence", "storeError"} \subseteq ResumeState
          BY DEF ResumeState, ResumeResult
        <5> QED
          BY <4>4, <5>1 DEF ResumeFail, ResumeGoto
      <4> QED
        BY <2>3, <4>1, <4>2, <4>3, <4>4
    <3>2. /\ resume' \in [Resumes -> ResumeRecord]
          /\ \A q \in Resumes \ {r} : resume'[q] = resume[q]
          /\ resume'[r].at = a
          /\ resume'[r].turn = u
          /\ resume'[r].terminal = resume[r].terminal
      BY <1>2, <3>1, ResumeMoves DEF u
    <3> QED
      BY <1>1, <1>6, <3>1, <3>2, Names DEF ResumeHolds, u
  <2> QED
    BY <2>1, <2>2, <2>3
<1>8. ResumeHolds'
  BY <1>4, <1>5, <1>7, ResumeAlone
<1>9. StagedKept' /\ DeliveryOwned' /\ SlotOwned' /\ CallHoldsSlot'
  BY <1>4, <1>5, TurnsKept
<1>10. AdmissionClosed' /\ TasksJoined'
  BY <1>4, <1>5, ShutdownKept
<1>11. /\ terminals' \in [Turns -> Outcome \cup {None}]
       /\ store_failures' \in 0..MaxStoreFailures
  <2>1. CASE ResumeCommit(r)
    BY <2>1, <1>2, <1>3 DEF ResumeCommit
  <2>2. CASE ResumeFail(r)
    BY <2>2, <1>1, <1>2, FailureTyped DEF ResumeFail
  <2>3. CASE ResumeOpen(r, t) \/ ResumePending(r) \/ ResumeLive(r) \/ ResumeRead(r)
    BY <2>3, <1>2 DEF ResumeOpen, ResumePending, ResumeLive, ResumeRead, storeVars
  <2> QED
    BY <2>1, <2>2, <2>3
<1>12. TypeOK'
  BY <1>1, <1>4, <1>5, <1>7, <1>11 DEF TypeOK, shutdownVars, ResumeRecord
<1> QED
  BY <1>8, <1>9, <1>10, <1>12 DEF TurnInvariant

\* remove_pending_terminal: it takes no slot of a Turn that can still be accepted.
LEMMA ResumeRemoveStep ==
    ASSUME TurnInvariant, NEW r \in Resumes, ResumeRemove(r)
    PROVE  TurnInvariant'
<1> DEFINE t == resume[r].turn
<1>1. /\ TypeOK /\ StagedKept /\ DeliveryOwned /\ SlotOwned /\ CallHoldsSlot
      /\ ResumeHolds /\ AdmissionClosed /\ TasksJoined
  BY DEF TurnInvariant
<1>2. /\ RuntimeTypeOK
      /\ turns \in [Turns -> TurnPhase]
      /\ call \in [Calls -> CallState]
      /\ slot_call \in [Turns -> Calls \cup {None}]
      /\ deliveries \in [Turns -> Calls \cup {None}]
      /\ resume \in [Resumes -> ResumeRecord]
  BY <1>1, Typed
<1>3. /\ resume[r].terminal \in Outcome
      /\ t \in Turns
      /\ deliveries[t] \in Calls
      /\ call[deliveries[t]] \in {"failing", "done"}
  <2>1. t \in Turns \cup {None} /\ resume[r].terminal \in Outcome \cup {None}
    BY <1>2, ResumeTyped
  <2>2. resume[r].at = "persisted"
    BY DEF ResumeRemove
  <2>3. t \in Turns
    BY <1>1, <2>1, <2>2 DEF ResumeHolds
  <2> QED
    BY <1>1, <1>2, <2>1, <2>2, <2>3 DEF ResumeHolds
<1>4. /\ turns' = [turns EXCEPT ![t] = "absent"]
      /\ slot_call' = [slot_call EXCEPT ![t] = None]
      /\ resume' = [resume EXCEPT ![r].at = resume[r].terminal]
      /\ UNCHANGED <<open, accepted_operations, activity_revision, cells, ready, durable_accepted,
                     call, staged, completion, published, pending_terminal, deliveries, terminals,
                     store_open, store_failures, shutdown, force_requested, stage, work, inflight,
                     report, panics>>
  BY DEF ResumeRemove, RemovePendingTerminal, ResumeGoto, turnVars, storeVars, shutdownVars
<1> HIDE DEF t
<1>5. /\ \A u \in Turns : turns'[u] = IF u = t THEN "absent" ELSE turns[u]
      /\ \A u \in Turns : slot_call'[u] = IF u = t THEN None ELSE slot_call[u]
  BY <1>2, <1>3, <1>4
<1>6. /\ resume' \in [Resumes -> ResumeRecord]
      /\ \A q \in Resumes \ {r} : resume'[q] = resume[q]
      /\ resume'[r].at = resume[r].terminal
      /\ resume'[r].turn = t
  <2>1. resume[r].terminal \in ResumeState
    BY <1>3 DEF ResumeState, ResumeResult
  <2> QED
    BY <1>2, <1>4, <2>1, ResumeMoves DEF t
<1>7. StagedKept' /\ DeliveryOwned'
  BY <1>1, <1>4 DEF StagedKept, DeliveryOwned
<1>8. SlotOwned'
  BY <1>1, <1>2, <1>4, <1>5 DEF SlotOwned, SlotOf
<1>9. CallHoldsSlot'
  <2> SUFFICES ASSUME NEW d \in Calls PROVE HoldsSlot(d)'
    BY DEF CallHoldsSlot
  <2>1. HoldsSlot(d) /\ TurnOf[d] \in Turns
    BY <1>1, Names DEF CallHoldsSlot
  <2>2. TurnOf[d] = t => call[d] \notin Executing \cup {"committed"}
    BY <1>1, <1>3 DEF DeliveryOwned, Undelivered, Executing
  <2>3. TurnOf[d] = t => deliveries[TurnOf[d]] # None
    BY <1>3, Names
  <2> QED
    BY <2>1, <2>2, <2>3, <1>4, <1>5 DEF HoldsSlot, Has
<1>10. ResumeHolds'
  <2>1. resume'[r].at \notin {"persisting", "persisted", "idle"} /\ t # None
    BY <1>3, <1>6, Names DEF Outcome
  <2> QED
    BY <1>4, <1>6, <2>1, ResumeAlone
<1>11. AdmissionClosed'
  BY <1>1, <1>4 DEF AdmissionClosed, Admitting
<1>12. TasksJoined'
  BY <1>1, <1>4, <1>5 DEF TasksJoined, NoLiveTask
<1>13. TypeOK'
  <2>1. RuntimeTypeOK'
    BY <1>2, <1>3, <1>4 DEF RuntimeTypeOK, TurnPhase
  <2>2. slot_call' \in [Turns -> Calls \cup {None}]
    BY <1>2, <1>3, <1>4
  <2> QED
    BY <1>1, <1>4, <1>6, <2>1, <2>2 DEF TypeOK, ResumeRecord
<1> QED
  BY <1>7, <1>8, <1>9, <1>10, <1>11, <1>12, <1>13 DEF TurnInvariant

-----------------------------------------------------------------------------
(* shutdown_inner *)

ReportRecord ==
    [forced : BOOLEAN, aborted : BOOLEAN,
     adapter : {"completed", "failed", "contractViolation"},
     state_close : {"closed", "timedOut"}, failures : SUBSET Turns]

LEMMA ReportUpdates ==
    ASSUME NEW x \in ReportRecord
    PROVE  /\ x.forced \in BOOLEAN /\ x.aborted \in BOOLEAN
           /\ x.failures \subseteq Turns
           /\ \A a \in {"completed", "failed", "contractViolation"} :
                 [x EXCEPT !.adapter = a] \in ReportRecord
           /\ \A a \in {"completed", "failed", "contractViolation"} :
                 [x EXCEPT !.aborted = TRUE, !.adapter = a] \in ReportRecord
           /\ \A a \in {"closed", "timedOut"} : [x EXCEPT !.state_close = a] \in ReportRecord
           /\ \A t \in Turns : [x EXCEPT !.failures = @ \cup {t}] \in ReportRecord
           /\ [x EXCEPT !.forced = TRUE] \in ReportRecord
  BY DEF ReportRecord

LEMMA ReportNew ==
    ASSUME NEW force \in BOOLEAN
    PROVE  NewReport(force) \in ReportRecord /\ NewReport(force).forced = force
  BY DEF NewReport, ReportRecord

LEMMA SlotTyped ==
    ASSUME NEW w \in Slot
    PROVE  w.turn \in Turns /\ w.call \in Calls /\ w.terminal \in Outcome
           /\ w.phase \in {"active", "pendingTerminal"}
  BY DEF Slot

\* What the type invariant says of a shutdown.
LEMMA ShutdownTyped ==
    ASSUME TypeOK
    PROVE  /\ shutdown \in [Shutdowns -> ShutdownState]
           /\ force_requested \in BOOLEAN
           /\ stage \in Stage
           /\ work \subseteq Slot
           /\ inflight \in Slot \cup {None}
           /\ report \in ReportRecord
           /\ store_open \in BOOLEAN
  BY DEF TypeOK, ReportRecord

\* A step of a shutdown that leaves the calls and the slots alone.
LEMMA OnlyShutdown ==
    ASSUME TurnInvariant,
           UNCHANGED <<accepted_operations, activity_revision, cells, ready, durable_accepted, turns,
                       call, staged, slot_call, pending_terminal, deliveries, resume, panics>>,
           open' \in BOOLEAN,
           completion' \in [Calls -> Completion],
           published' \in [Calls -> Seq(Outcome)],
           terminals' \in [Turns -> Outcome \cup {None}],
           store_open' \in BOOLEAN,
           store_failures' \in 0..MaxStoreFailures,
           shutdown' \in [Shutdowns -> ShutdownState],
           force_requested' \in BOOLEAN,
           stage' \in Stage,
           work' \subseteq Slot,
           inflight' \in Slot \cup {None},
           report' \in ReportRecord,
           AdmissionClosed', TasksJoined'
    PROVE  TurnInvariant'
<1>1. StagedKept' /\ DeliveryOwned' /\ SlotOwned' /\ CallHoldsSlot'
  BY TurnsKept
<1>2. ResumeHolds'
  BY DEF TurnInvariant, ResumeHolds
<1>3. RuntimeTypeOK'
  BY DEF TurnInvariant, TypeOK, RuntimeTypeOK
<1>4. TypeOK'
  BY <1>3 DEF TurnInvariant, TypeOK, ReportRecord
<1> QED
  BY <1>1, <1>2, <1>4 DEF TurnInvariant

\* The callers, and the owner of the shutdown outside the drain.
LEMMA CallerSteps ==
    ASSUME TurnInvariant, NEW s \in Shutdowns,
           \/ CallShutdown(s) \/ CloseForShutdown(s) \/ OwnShutdown(s) \/ AbandonShutdown(s)
           \/ CloseState(s)
    PROVE  TurnInvariant'
<1>1. TypeOK /\ AdmissionClosed /\ TasksJoined
  BY DEF TurnInvariant
<1>2. /\ shutdown \in [Shutdowns -> ShutdownState]
      /\ force_requested \in BOOLEAN
      /\ stage \in Stage
      /\ work \subseteq Slot
      /\ inflight \in Slot \cup {None}
      /\ report \in ReportRecord
      /\ store_open \in BOOLEAN
      /\ open \in BOOLEAN
  BY <1>1, ShutdownTyped DEF TypeOK, RuntimeTypeOK
<1>3. UNCHANGED <<accepted_operations, activity_revision, cells, ready, durable_accepted, turns,
                  call, staged, completion, published, slot_call, pending_terminal, deliveries,
                  terminals, store_open, store_failures, resume, panics>>
  BY DEF CallShutdown, CloseForShutdown, CloseAdmission, OwnShutdown, AbandonShutdown, CloseState,
         runtimeVars, turnVars, slotVars, storeVars
<1>4. PICK a \in ShutdownState :
         /\ shutdown' = [shutdown EXCEPT ![s] = a]
         /\ a \in {"locking", "owner"} => ~open'
  <2>1. CASE CallShutdown(s)
    <3>1. {"done", "closing"} \subseteq ShutdownState
      BY DEF ShutdownState
    <3> QED
      BY <2>1, <3>1 DEF CallShutdown
  <2>2. CASE CloseForShutdown(s)
    <3>1. "locking" \in ShutdownState
      BY DEF ShutdownState
    <3> QED
      BY <2>2, <3>1 DEF CloseForShutdown, CloseAdmission
  <2>3. CASE OwnShutdown(s)
    <3>1. {"done", "owner"} \subseteq ShutdownState
      BY DEF ShutdownState
    <3>2. ~open /\ open' = open
      BY <2>3, <1>1 DEF OwnShutdown, AdmissionClosed, runtimeVars
    <3> QED
      BY <2>3, <3>1, <3>2 DEF OwnShutdown
  <2>4. CASE AbandonShutdown(s)
    <3>1. "abandoned" \in ShutdownState
      BY DEF ShutdownState
    <3> QED
      BY <2>4, <3>1 DEF AbandonShutdown
  <2>5. CASE CloseState(s)
    <3>1. "done" \in ShutdownState
      BY DEF ShutdownState
    <3> QED
      BY <2>5, <3>1 DEF CloseState
  <2> QED
    BY <2>1, <2>2, <2>3, <2>4, <2>5
<1>5. /\ open' \in BOOLEAN
      /\ ~open' => Admitting = {}
      /\ open' => open
      /\ stage' # "none" => ~open'
  <2>1. CASE CloseForShutdown(s)
    BY <2>1, <1>1 DEF CloseForShutdown, CloseAdmission
  <2>2. CASE ~CloseForShutdown(s)
    <3>1. open' = open
      BY <2>2 DEF CallShutdown, OwnShutdown, AbandonShutdown, CloseState, runtimeVars
    <3>2. stage' # "none" => ~open
      BY <2>2, <1>1 DEF CallShutdown, OwnShutdown, AbandonShutdown, CloseState, AdmissionClosed
    <3> QED
      BY <3>1, <3>2, <1>1, <1>2 DEF AdmissionClosed
  <2> QED
    BY <2>1, <2>2
<1>6. /\ force_requested' \in BOOLEAN
      /\ stage' \in Stage
      /\ report' \in ReportRecord
      /\ \/ /\ UNCHANGED <<stage, work, inflight>>
            /\ report'.forced = report.forced
         \/ /\ stage' = "none" /\ work' = {} /\ inflight' = None
         \/ /\ OwnShutdown(s) /\ UNCHANGED <<work, inflight>>
            /\ stage # "complete"
            /\ stage' = "join" \/ (stage' = "adapter" /\ report'.forced)
         \/ /\ stage = "close" /\ stage' = "complete" /\ UNCHANGED <<work, inflight>>
            /\ report'.forced = report.forced
  <2>1. CASE CallShutdown(s) \/ CloseForShutdown(s)
    BY <2>1, <1>2 DEF CallShutdown, CloseForShutdown
  <2>2. CASE OwnShutdown(s)
    <3>1. {"adapter", "join"} \subseteq Stage
      BY DEF Stage
    <3>2. CASE stage = "complete"
      BY <2>2, <3>2, <1>2 DEF OwnShutdown
    <3>3. CASE stage # "complete"
      BY <2>2, <3>1, <3>3, <1>2, ReportNew DEF OwnShutdown
    <3> QED
      BY <3>2, <3>3
  <2>3. CASE AbandonShutdown(s)
    BY <2>3, <1>2 DEF AbandonShutdown, Stage
  <2>4. CASE CloseState(s)
    <3>1. PICK b \in {"closed", "timedOut"} : report' = [report EXCEPT !.state_close = b]
      BY <2>4 DEF CloseState
    <3>2. report' \in ReportRecord
      BY <1>2, <3>1, ReportUpdates
    <3>3. report'.forced = report.forced
      BY <1>2, <3>1 DEF ReportRecord
    <3> QED
      BY <2>4, <3>3, <3>2, <1>2 DEF CloseState, Stage
  <2> QED
    BY <2>1, <2>2, <2>3, <2>4
<1>7. AdmissionClosed'
  <2>1. \A q \in Shutdowns : shutdown'[q] \in {"locking", "owner"} => ~open'
    BY <1>1, <1>2, <1>4, <1>5 DEF AdmissionClosed
  <2>2. ASSUME stage' \notin {"none", "complete"}
        PROVE  \E q \in Shutdowns : shutdown'[q] = "owner"
    <3>1. CASE OwnShutdown(s) /\ stage # "complete"
      BY <3>1, <1>2 DEF OwnShutdown
    <3>2. CASE AbandonShutdown(s)
      <4>1. shutdown[s] # "owner" /\ UNCHANGED stage
        BY <2>2, <3>2 DEF AbandonShutdown
      <4> QED
        BY <1>1, <1>2, <1>4, <2>2, <4>1 DEF AdmissionClosed
    <3>3. CASE CallShutdown(s) \/ CloseForShutdown(s)
      <4>1. shutdown[s] # "owner" /\ UNCHANGED stage
        BY <3>3 DEF CallShutdown, CloseForShutdown
      <4> QED
        BY <1>1, <1>2, <1>4, <2>2, <4>1 DEF AdmissionClosed
    <3>4. CASE CloseState(s) \/ (OwnShutdown(s) /\ stage = "complete")
      BY <2>2, <3>4 DEF CloseState, OwnShutdown
    <3> QED
      BY <3>1, <3>2, <3>3, <3>4
  <2> QED
    BY <1>1, <1>3, <1>5, <2>1, <2>2 DEF AdmissionClosed, Admitting
<1>8. TasksJoined'
  <2>1. CASE OwnShutdown(s) /\ stage # "complete" /\ UNCHANGED <<work, inflight>>
             /\ (stage' = "join" \/ (stage' = "adapter" /\ report'.forced))
    <3>1. stage = "none"
      BY <1>1, <2>1 DEF OwnShutdown, AdmissionClosed
    <3>2. work = {} /\ inflight = None
      BY <1>1, <3>1 DEF TasksJoined
    <3> QED
      BY <1>1, <1>3, <2>1, <3>2 DEF TasksJoined, NoLiveTask
  <2>2. CASE UNCHANGED <<stage, work, inflight>> /\ report'.forced = report.forced
    BY <1>1, <1>3, <2>2 DEF TasksJoined, NoLiveTask
  <2>3. CASE stage' = "none" /\ work' = {} /\ inflight' = None
    BY <1>1, <1>3, <2>3 DEF TasksJoined, NoLiveTask
  <2>4. CASE stage = "close" /\ stage' = "complete" /\ UNCHANGED <<work, inflight>>
             /\ report'.forced = report.forced
    BY <1>1, <1>3, <2>4 DEF TasksJoined, NoLiveTask
  <2> QED
    BY <1>6, <2>1, <2>2, <2>3, <2>4
<1>9. /\ work' \subseteq Slot /\ inflight' \in Slot \cup {None}
      /\ shutdown' \in [Shutdowns -> ShutdownState]
  BY <1>2, <1>4, <1>6
<1>10. /\ completion' \in [Calls -> Completion]
       /\ published' \in [Calls -> Seq(Outcome)]
       /\ terminals' \in [Turns -> Outcome \cup {None}]
       /\ store_open' \in BOOLEAN
       /\ store_failures' \in 0..MaxStoreFailures
  BY <1>1, <1>2, <1>3, Typed
<1> QED
  BY <1>3, <1>5, <1>6, <1>7, <1>8, <1>9, <1>10, OnlyShutdown

\* The owner joins the tasks, shuts the Adapter down and settles the slots it took.
LEMMA OwnerSteps ==
    ASSUME TurnInvariant,
           \/ JoinTasks \/ ShutdownAdapter \/ FinishSlot \/ SlotsSettled \/ UpgradeShutdown
           \/ \E w \in work : CommitSlot(w) \/ FailSlot(w)
    PROVE  TurnInvariant'
<1>1. TypeOK /\ AdmissionClosed /\ TasksJoined
  BY DEF TurnInvariant
<1>2. /\ shutdown \in [Shutdowns -> ShutdownState]
      /\ force_requested \in BOOLEAN
      /\ stage \in Stage
      /\ work \subseteq Slot
      /\ inflight \in Slot \cup {None}
      /\ report \in ReportRecord
      /\ store_open \in BOOLEAN
      /\ open \in BOOLEAN
      /\ completion \in [Calls -> Completion]
      /\ published \in [Calls -> Seq(Outcome)]
      /\ terminals \in [Turns -> Outcome \cup {None}]
      /\ store_failures \in 0..MaxStoreFailures
  BY <1>1, ShutdownTyped, Typed DEF TypeOK, RuntimeTypeOK
<1>3. UNCHANGED <<runtimeVars, call, staged, slotVars, deliveries, resume, shutdown,
                  force_requested, panics>>
  BY DEF JoinTasks, ShutdownAdapter, FinishSlot, SlotsSettled, UpgradeShutdown, CommitSlot, FailSlot,
         turnVars, storeVars
<1>4. /\ UNCHANGED <<accepted_operations, activity_revision, cells, ready, durable_accepted, turns>>
      /\ UNCHANGED <<slot_call, pending_terminal, open>>
  BY <1>3 DEF runtimeVars, slotVars
<1>5. CASE JoinTasks
  <2>1. /\ stage = "join" /\ NoLiveTask
        /\ stage' = IF report.forced THEN "drain" ELSE "adapter"
        /\ UNCHANGED <<completion, published, terminals, store_open, store_failures, work, inflight,
                       report>>
    BY <1>5 DEF JoinTasks, turnVars, storeVars
  <2>2. stage' \in Stage
    BY <2>1 DEF Stage
  <2>3. AdmissionClosed'
    BY <1>1, <1>3, <1>4, <2>1 DEF AdmissionClosed, Admitting
  <2>4. TasksJoined'
    BY <1>1, <1>3, <1>4, <2>1 DEF TasksJoined, NoLiveTask
  <2> QED
    BY <1>2, <1>3, <1>4, <2>1, <2>2, <2>3, <2>4, OnlyShutdown
<1>6. CASE ShutdownAdapter
  <2>1. PICK status \in {"completed", "failed"} : report' = [report EXCEPT !.adapter = status]
    BY <1>6 DEF ShutdownAdapter
  <2>2. /\ stage = "adapter"
        /\ stage' = IF report.forced THEN "join" ELSE "drain"
        /\ UNCHANGED <<completion, published, terminals, store_open, store_failures, work, inflight>>
    BY <1>6 DEF ShutdownAdapter, turnVars, storeVars
  <2>3. stage' \in Stage /\ report' \in ReportRecord
    BY <1>2, <2>1, <2>2, ReportUpdates DEF Stage
  <2>4. AdmissionClosed'
    BY <1>1, <1>3, <1>4, <2>2 DEF AdmissionClosed, Admitting
  <2>5. TasksJoined'
    BY <1>1, <1>3, <1>4, <2>2 DEF TasksJoined, NoLiveTask
  <2> QED
    BY <1>2, <1>3, <1>4, <2>2, <2>3, <2>4, <2>5, OnlyShutdown
<1>7. CASE FinishSlot
  <2>1. /\ stage = "persist" /\ inflight # None
        /\ work' = work \ {inflight} /\ inflight' = None
        /\ UNCHANGED <<terminals, store_open, store_failures, stage, report>>
    BY <1>7 DEF FinishSlot, storeVars
  <2>2. inflight.call \in Calls /\ inflight.terminal \in Outcome
    BY <1>2, <2>1, SlotTyped
  <2>3. published' \in [Calls -> Seq(Outcome)]
    <3>1. Append(published[inflight.call], inflight.terminal) \in Seq(Outcome)
      BY <1>2, <2>2
    <3> QED
      BY <1>2, <1>7, <2>2, <3>1 DEF FinishSlot
  <2>4. completion' \in [Calls -> Completion]
    BY <1>2, <1>7, <2>2 DEF FinishSlot, SettleCompletion, Settled, Completion
  <2>5. AdmissionClosed'
    BY <1>1, <1>3, <1>4, <2>1 DEF AdmissionClosed, Admitting
  <2>6. TasksJoined'
    BY <1>1, <1>3, <1>4, <2>1 DEF TasksJoined, NoLiveTask
  <2> QED
    BY <1>2, <1>3, <1>4, <2>1, <2>3, <2>4, <2>5, <2>6, OnlyShutdown
<1>8. CASE SlotsSettled
  <2>1. /\ stage = "persist" /\ work = {} /\ stage' = "close" /\ store_open' = FALSE
        /\ UNCHANGED <<completion, published, terminals, store_failures, work, inflight, report>>
    BY <1>8 DEF SlotsSettled, turnVars
  <2>2. stage' \in Stage
    BY <2>1 DEF Stage
  <2>3. AdmissionClosed'
    BY <1>1, <1>3, <1>4, <2>1 DEF AdmissionClosed, Admitting
  <2>4. TasksJoined'
    BY <1>1, <1>3, <1>4, <2>1 DEF TasksJoined, NoLiveTask
  <2> QED
    BY <1>2, <1>3, <1>4, <2>1, <2>2, <2>3, <2>4, OnlyShutdown
<1>9. CASE UpgradeShutdown
  <2>1. /\ stage \in {"join", "adapter", "drain", "persist", "close"}
        /\ report' = [report EXCEPT !.forced = TRUE]
        /\ stage' = "adapter" /\ work' = {} /\ inflight' = None
        /\ UNCHANGED <<completion, published, terminals, store_open, store_failures>>
    BY <1>9 DEF UpgradeShutdown, turnVars, storeVars
  <2>2. report' \in ReportRecord /\ report'.forced = TRUE /\ stage' \in Stage
    <3>1. report' \in ReportRecord
      BY <1>2, <2>1, ReportUpdates
    <3>2. report'.forced = TRUE
      BY <1>2, <2>1 DEF ReportRecord
    <3> QED
      BY <3>1, <3>2, <2>1 DEF Stage
  <2>3. AdmissionClosed'
    BY <1>1, <1>3, <1>4, <2>1 DEF AdmissionClosed, Admitting
  <2>4. TasksJoined'
    BY <1>1, <1>3, <1>4, <2>1, <2>2 DEF TasksJoined, NoLiveTask
  <2> QED
    BY <1>2, <1>3, <1>4, <2>1, <2>2, <2>3, <2>4, OnlyShutdown
<1>10. ASSUME NEW w \in work, CommitSlot(w)
       PROVE  TurnInvariant'
  <2>1. w \in Slot /\ w.turn \in Turns /\ w.terminal \in Outcome
    BY <1>2, SlotTyped
  <2>2. /\ stage = "persist"
        /\ terminals' = [terminals EXCEPT ![w.turn] = w.terminal]
        /\ inflight' = w
        /\ UNCHANGED <<completion, published, store_open, store_failures, work, stage, report>>
    BY <1>10 DEF CommitSlot, turnVars
  <2>3. terminals' \in [Turns -> Outcome \cup {None}]
    BY <1>2, <2>1, <2>2
  <2>4. AdmissionClosed'
    BY <1>1, <1>3, <1>4, <2>2 DEF AdmissionClosed, Admitting
  <2>5. TasksJoined'
    BY <1>1, <1>3, <1>4, <2>2 DEF TasksJoined, NoLiveTask
  <2> QED
    BY <1>2, <1>3, <1>4, <2>1, <2>2, <2>3, <2>4, <2>5, OnlyShutdown
<1>11. ASSUME NEW w \in work, FailSlot(w)
       PROVE  TurnInvariant'
  <2>1. w \in Slot /\ w.turn \in Turns /\ w.terminal \in Outcome /\ w.call \in Calls
    BY <1>2, SlotTyped
  <2>2. /\ stage = "persist" /\ inflight = None
        /\ report' = [report EXCEPT !.failures = @ \cup {w.turn}]
        /\ work' = work \ {w}
        /\ UNCHANGED <<published, store_open, stage, inflight>>
    BY <1>11 DEF FailSlot
  <2>3. report' \in ReportRecord /\ report'.forced = report.forced
    <3>1. report' \in ReportRecord
      BY <1>2, <2>1, <2>2, ReportUpdates
    <3>2. report'.forced = report.forced
      BY <1>2, <2>2 DEF ReportRecord
    <3> QED
      BY <3>1, <3>2
  <2>4. terminals' \in [Turns -> Outcome \cup {None}]
    BY <1>2, <1>11, <2>1 DEF FailSlot
  <2>5. completion' \in [Calls -> Completion]
    <3>1. Settled(w.call, "persistence") \in Completion
      BY <1>2, <2>1 DEF Settled, Completion
    <3>2. \/ completion' = completion
          \/ completion' = [completion EXCEPT ![w.call] = Settled(w.call, "persistence")]
      BY <1>11 DEF FailSlot, SettleCompletion
    <3> QED
      BY <1>2, <3>1, <3>2, <2>1
  <2>6. store_failures' \in 0..MaxStoreFailures
    BY <1>1, <1>11, FailureTyped DEF FailSlot
  <2>7. AdmissionClosed'
    BY <1>1, <1>3, <1>4, <2>2 DEF AdmissionClosed, Admitting
  <2>8. TasksJoined'
    BY <1>1, <1>3, <1>4, <2>2, <2>3 DEF TasksJoined, NoLiveTask
  <2> QED
    BY <1>2, <1>3, <1>4, <2>2, <2>3, <2>4, <2>5, <2>6, <2>7, <2>8, OnlyShutdown
<1> QED
  BY <1>5, <1>6, <1>7, <1>8, <1>9, <1>10, <1>11

\* The forced join deadline: everything that executes is dropped at its await, but
\* for the tasks that block.
LEMMA AbortStep ==
    ASSUME TurnInvariant, AbortTasks
    PROVE  TurnInvariant'
<1>1. /\ TypeOK /\ StagedKept /\ DeliveryOwned /\ SlotOwned /\ CallHoldsSlot
      /\ ResumeHolds /\ AdmissionClosed /\ TasksJoined
  BY DEF TurnInvariant
<1>2. /\ RuntimeTypeOK
      /\ call \in [Calls -> CallState]
      /\ slot_call \in [Turns -> Calls \cup {None}]
      /\ deliveries \in [Turns -> Calls \cup {None}]
      /\ resume \in [Resumes -> ResumeRecord]
      /\ report \in ReportRecord
  BY <1>1, Typed, ShutdownTyped
<1>3. PICK stuck \in SUBSET {c \in Calls : call[c] \in {"running", "blocked"}} :
         /\ call' = [c \in Calls |-> IF c \in stuck THEN "blocked"
                                     ELSE IF call[c] \in Live THEN "aborted"
                                     ELSE call[c]]
         /\ report' = [report EXCEPT !.aborted = TRUE,
                           !.adapter = IF stuck = {} THEN @ ELSE "contractViolation"]
  BY DEF AbortTasks
<1>4. /\ stage = "join" /\ stage' = "drain"
      /\ \A c \in Calls : call[c] \notin {"publishing", "failing"}
      /\ UNCHANGED <<runtimeVars, staged, completion, published, slot_call, pending_terminal,
                     deliveries, terminals, store_open, store_failures, resume, shutdown,
                     force_requested, work, inflight, panics>>
  BY DEF AbortTasks, slotVars, storeVars
<1>5. UNCHANGED <<open, turns, cells>> /\ RuntimeTypeOK'
  BY <1>2, <1>4, RuntimeKept
<1>6. ~open /\ \A c \in Calls : call[c] \notin {"admitted", "registered", "committed"}
  BY <1>1, <1>4 DEF AdmissionClosed, Admitting
<1>7. ASSUME NEW c \in Calls
      PROVE  \/ call[c] \in Executing \cup {"blocked"} /\ call'[c] \in {"blocked", "aborted"}
             \/ call[c] \notin Live /\ call'[c] = call[c]
  <2>1. call[c] \in Live => call[c] \in Executing \cup {"blocked"}
    BY <1>4, <1>6 DEF Live, Executing
  <2>2. CASE c \in stuck
    BY <2>2, <1>3 DEF Executing
  <2>3. CASE c \notin stuck
    BY <2>1, <2>3, <1>3
  <2> QED
    BY <2>2, <2>3
<1>8. TypeOK'
  <2>1. call' \in [Calls -> CallState]
    <3>1. {"blocked", "aborted"} \subseteq CallState
      BY DEF CallState, Live
    <3> QED
      BY <3>1, <1>2, <1>3
  <2>2. report' \in ReportRecord
    <3>1. report.adapter \in {"completed", "failed", "contractViolation"}
      BY <1>2 DEF ReportRecord
    <3> QED
      BY <3>1, <1>2, <1>3, ReportUpdates
  <2>3. stage' \in Stage
    BY <1>4 DEF Stage
  <2> QED
    BY <1>1, <1>4, <1>5, <2>1, <2>2, <2>3 DEF TypeOK, ReportRecord
<1>9. StagedKept'
  BY <1>1, <1>4, <1>7 DEF StagedKept
<1>10. DeliveryOwned'
  <2>1. \A c \in Calls : call'[c] \in Undelivered <=> call[c] \in Undelivered
    BY <1>7 DEF Undelivered, Executing
  <2> QED
    BY <1>1, <1>4, <2>1 DEF DeliveryOwned
<1>11. SlotOwned'
  <2> SUFFICES ASSUME NEW t \in Turns PROVE SlotOf(t)'
    BY DEF SlotOwned
  <2>1. SlotOf(t) /\ slot_call[t] \in Calls \cup {None}
    BY <1>1, <1>2 DEF SlotOwned
  <2>2. CASE slot_call[t] \in Calls
    <3>1. \/ call[slot_call[t]] \in Executing \cup {"blocked"}
             /\ call'[slot_call[t]] \in {"blocked", "aborted"}
          \/ call[slot_call[t]] \notin Live /\ call'[slot_call[t]] = call[slot_call[t]]
      BY <1>7, <2>2
    <3>2. call[slot_call[t]] \notin {"registered", "committed", "failing"}
      BY <1>4, <1>6, <2>2
    <3> QED
      BY <2>1, <3>1, <3>2, <1>4, <1>5 DEF SlotOf, Executing
  <2>3. CASE slot_call[t] = None
    BY <2>1, <2>3, <1>4, <1>5 DEF SlotOf
  <2> QED
    BY <2>1, <2>2, <2>3
<1>12. CallHoldsSlot'
  <2> SUFFICES ASSUME NEW d \in Calls PROVE HoldsSlot(d)'
    BY DEF CallHoldsSlot
  <2>1. call'[d] \notin Executing \cup {"committed", "registered"}
    BY <1>6, <1>7 DEF Executing, Live
  <2> QED
    BY <2>1 DEF HoldsSlot
<1>13. ResumeHolds'
  <2>1. \A r \in Resumes : resume[r].turn \in Turns \cup {None}
    BY <1>2, ResumeTyped
  <2>2. \A c \in Calls : call[c] \in {"failing", "done"} => call'[c] \in {"failing", "done"}
    BY <1>7 DEF Executing
  <2> QED
    BY <2>1, <2>2, <1>1, <1>2, <1>4 DEF ResumeHolds
<1>14. AdmissionClosed'
  <2>1. \A c \in Calls : call'[c] \notin {"admitted", "registered", "committed"}
    BY <1>6, <1>7
  <2>2. Admitting' = {}
    BY <2>1 DEF Admitting
  <2> QED
    BY <1>1, <1>4, <1>5, <1>6, <2>2 DEF AdmissionClosed
<1>15. TasksJoined'
  <2>1. \A c \in Calls : call'[c] \in Live => call'[c] = "blocked"
    BY <1>7 DEF Live
  <2> QED
    BY <1>1, <1>4, <1>5, <2>1 DEF TasksJoined
<1> QED
  BY <1>8, <1>9, <1>10, <1>11, <1>12, <1>13, <1>14, <1>15 DEF TurnInvariant

\* take_turn_slots and the bookkeeping of the slots the shutdown now holds.
LEMMA DrainStep ==
    ASSUME TurnInvariant, DrainSlots
    PROVE  TurnInvariant'
<1>1. /\ TypeOK /\ StagedKept /\ DeliveryOwned /\ SlotOwned /\ CallHoldsSlot
      /\ ResumeHolds /\ AdmissionClosed /\ TasksJoined
  BY DEF TurnInvariant
<1>2. /\ RuntimeTypeOK
      /\ turns \in [Turns -> TurnPhase]
      /\ call \in [Calls -> CallState]
      /\ completion \in [Calls -> Completion]
      /\ slot_call \in [Turns -> Calls \cup {None}]
      /\ pending_terminal \in [Turns -> Outcome \cup {None}]
  BY <1>1, Typed
<1>3. /\ stage = "drain" /\ stage' = "persist"
      /\ turns' = [t \in Turns |-> "absent"]
      /\ slot_call' = [t \in Turns |-> None]
      /\ pending_terminal' = [t \in Turns |-> None]
      /\ UNCHANGED <<call, staged, published, deliveries, terminals, store_open, store_failures,
                     resume, shutdown, force_requested, inflight, report, panics>>
      /\ TakeTurnSlots
      /\ UNCHANGED open
  BY DEF DrainSlots, TakeTurnSlots, storeVars
<1>4. \A c \in Calls : call[c] \notin Executing \cup {"registered", "committed"}
  BY <1>1, <1>3 DEF TasksJoined, Executing, Live
<1>5. work' = {[turn |-> t, call |-> slot_call[t], phase |-> turns[t],
                terminal |-> IF pending_terminal[t] = None THEN "interrupted"
                             ELSE pending_terminal[t]] :
                  t \in {u \in Turns : turns[u] \in {"active", "pendingTerminal"}}}
  BY DEF DrainSlots
<1>6. work' \subseteq Slot
  <2>1. ASSUME NEW t \in Turns, turns[t] \in {"active", "pendingTerminal"}
        PROVE  /\ slot_call[t] \in Calls
               /\ (IF pending_terminal[t] = None THEN "interrupted" ELSE pending_terminal[t]) \in Outcome
    BY <1>1, <1>2, <2>1 DEF SlotOwned, SlotOf, Outcome
  <2> QED
    BY <1>5, <2>1 DEF Slot
<1>7. completion' \in [Calls -> Completion]
  BY <1>2 DEF DrainSlots, Settled, Completion
<1>8. RuntimeTypeOK'
  <2>1. cells' \in [Lanes -> Seq(Operations)]
    BY <1>3, EmptySeq DEF TakeTurnSlots
  <2>2. ready' \in [Operations -> Signal]
    BY <1>2, <1>3 DEF TakeTurnSlots, RuntimeTypeOK, Signal
  <2>3. turns' \in [Turns -> TurnPhase]
    BY <1>3 DEF TurnPhase
  <2> QED
    BY <1>2, <1>3, <2>1, <2>2, <2>3 DEF TakeTurnSlots, RuntimeTypeOK
<1>9. TypeOK'
  BY <1>1, <1>3, <1>6, <1>7, <1>8 DEF TypeOK, Stage
<1>10. StagedKept' /\ DeliveryOwned'
  BY <1>1, <1>3 DEF StagedKept, DeliveryOwned
<1>11. SlotOwned'
  BY <1>3 DEF SlotOwned, SlotOf
<1>12. CallHoldsSlot'
  BY <1>3, <1>4 DEF CallHoldsSlot, HoldsSlot
<1>13. ResumeHolds'
  BY <1>1, <1>3 DEF ResumeHolds
<1>14. AdmissionClosed'
  BY <1>1, <1>3 DEF AdmissionClosed, Admitting
<1>15. TasksJoined'
  <2>1. ~store_open => work' = {}
    BY <1>1, <1>5 DEF TasksJoined
  <2>2. work = {} /\ inflight = None
    BY <1>1, <1>3 DEF TasksJoined
  <2> QED
    BY <1>1, <1>3, <2>1, <2>2, ShutdownTyped DEF TasksJoined
<1> QED
  BY <1>9, <1>10, <1>11, <1>12, <1>13, <1>14, <1>15 DEF TurnInvariant

-----------------------------------------------------------------------------
(* The theorems about acceptance and the store *)

\* The new Application satisfies the invariant.
LEMMA InitTurnInvariant == Init => TurnInvariant
<1> SUFFICES ASSUME Init PROVE TurnInvariant
  OBVIOUS
<1>1. /\ RuntimeInit
      /\ call = [c \in Calls |-> "idle"]
      /\ staged = [c \in Calls |-> None]
      /\ completion = [c \in Calls |-> "pending"]
      /\ published = [c \in Calls |-> <<>>]
      /\ slot_call = [t \in Turns |-> None]
      /\ pending_terminal = [t \in Turns |-> None]
      /\ deliveries = [t \in Turns |-> None]
      /\ terminals = [t \in Turns |-> None]
      /\ store_open = TRUE
      /\ store_failures = 0
      /\ resume = [r \in Resumes |-> [at |-> "idle", turn |-> None, terminal |-> None]]
      /\ shutdown = [s \in Shutdowns |-> "idle"]
      /\ force_requested = FALSE
      /\ stage = "none"
      /\ work = {}
      /\ inflight = None
      /\ report = NewReport(FALSE)
      /\ panics = FALSE
  BY DEF Init
<1>2. RuntimeTypeOK /\ open /\ turns = [t \in Turns |-> "absent"]
  BY <1>1, EmptySeq DEF RuntimeInit, RuntimeTypeOK, Signal, TurnPhase
<1>3. TypeOK
  <2>1. report \in ReportRecord
    BY <1>1, ReportNew
  <2>2. resume \in [Resumes -> ResumeRecord]
    BY <1>1 DEF ResumeRecord, ResumeState
  <2>3. published \in [Calls -> Seq(Outcome)]
    BY <1>1, EmptySeq
  <2>4. store_failures \in 0..MaxStoreFailures
    BY <1>1, CallsAssumption
  <2>5. /\ call \in [Calls -> CallState]
        /\ completion \in [Calls -> Completion]
        /\ shutdown \in [Shutdowns -> ShutdownState]
        /\ stage \in Stage
    BY <1>1 DEF CallState, Completion, ShutdownState, Stage
  <2> QED
    BY <1>1, <1>2, <2>1, <2>2, <2>3, <2>4, <2>5 DEF TypeOK, ReportRecord, ResumeRecord
<1>4. StagedKept /\ DeliveryOwned /\ CallHoldsSlot
  BY <1>1, Names DEF StagedKept, DeliveryOwned, CallHoldsSlot, HoldsSlot, Undelivered, Executing
<1>5. SlotOwned
  BY <1>1, <1>2 DEF SlotOwned, SlotOf
<1>6. ResumeHolds
  BY <1>1 DEF ResumeHolds
<1>7. AdmissionClosed /\ TasksJoined
  BY <1>1, <1>2 DEF AdmissionClosed, TasksJoined
<1> QED
  BY <1>3, <1>4, <1>5, <1>6, <1>7 DEF TurnInvariant

\* Nothing happens.
LEMMA StutterTurnInvariant == TurnInvariant /\ UNCHANGED vars => TurnInvariant'
<1> SUFFICES ASSUME TurnInvariant, UNCHANGED vars PROVE TurnInvariant'
  OBVIOUS
<1>1. UNCHANGED <<runtimeVars, turnVars, slotVars, storeVars, resume, shutdownVars, panics>>
  BY DEF vars
<1>2. /\ UNCHANGED <<open, accepted_operations, activity_revision, cells, ready, durable_accepted, turns>>
      /\ UNCHANGED <<call, staged, completion, published, slot_call, pending_terminal>>
      /\ UNCHANGED <<deliveries, terminals, store_open, store_failures>>
      /\ UNCHANGED <<shutdown, force_requested, stage, work, inflight, report>>
  BY <1>1 DEF runtimeVars, turnVars, slotVars, storeVars, shutdownVars
<1>3. TypeOK /\ AdmissionClosed /\ TasksJoined
  BY DEF TurnInvariant
<1>4. AdmissionClosed' /\ TasksJoined'
  BY <1>1, <1>2, ShutdownKept
<1> QED
  BY <1>1, <1>2, <1>3, <1>4, Typed, ShutdownTyped, OnlyShutdown DEF RuntimeTypeOK

\* Every step keeps the invariant.
LEMMA NextTurnInvariant == TurnInvariant /\ [Next]_vars => TurnInvariant'
<1> SUFFICES ASSUME TurnInvariant, [Next]_vars PROVE TurnInvariant'
  OBVIOUS
<1>1. ASSUME NEW c \in Calls, StartTurnStep(c) PROVE TurnInvariant'
  <2>1. CASE \E outcome \in Outcome : StageTerminal(c, outcome)
    BY <2>1, CallMoveSteps
  <2>2. CASE \/ BeginAdmission(c) \/ GiveUpAdmission(c) \/ InvokeTurn(c) \/ TakeStagedTerminal(c)
             \/ CommitTerminal(c) \/ FailTerminal(c) \/ PublishTerminal(c)
    <3>1. "failed" \in Outcome
      BY DEF Outcome
    <3> QED
      BY <2>2, <3>1, CallMoveSteps
  <2> QED
    BY <1>1, <2>1, <2>2, RegisterStep, CommitAcceptanceStep, AcceptTurnStep, SettleSteps
       DEF StartTurnStep
<1>2. ASSUME NEW c \in Calls, UnblockTurn(c) PROVE TurnInvariant'
  <2>1. "failed" \in Outcome
    BY DEF Outcome
  <2> QED
    BY <1>2, <2>1, CallMoveSteps
<1>3. ASSUME NEW r \in Resumes, ResumeStep(r) PROVE TurnInvariant'
  <2>1. CASE \E t \in Turns : ResumeOpen(r, t)
    BY <2>1, ResumeSteps
  <2>2. CASE ResumeRemove(r)
    BY <2>2, ResumeRemoveStep
  <2>3. CASE ResumePending(r) \/ ResumeLive(r) \/ ResumeRead(r) \/ ResumeCommit(r) \/ ResumeFail(r)
    <3>1. resume[r].turn \in Turns
      <4>1. resume[r].at # "idle"
        BY <2>3 DEF ResumePending, ResumeLive, ResumeRead, ResumeCommit, ResumeFail
      <4>2. resume[r].turn \in Turns \cup {None}
        BY Typed, ResumeTyped DEF TurnInvariant
      <4> QED
        BY <4>1, <4>2 DEF TurnInvariant, ResumeHolds
    <3> QED
      BY <2>3, <3>1, ResumeSteps
  <2> QED
    BY <1>3, <2>1, <2>2, <2>3 DEF ResumeStep
<1>4. ASSUME NEW s \in Shutdowns,
             CallShutdown(s) \/ CloseForShutdown(s) \/ OwnShutdown(s) \/ AbandonShutdown(s)
      PROVE  TurnInvariant'
  BY <1>4, CallerSteps
<1>5. CASE OwnerStep
  BY <1>5, CallerSteps, OwnerSteps, AbortStep, DrainStep DEF OwnerStep
<1>6. CASE Finished \/ UNCHANGED vars
  BY <1>6, StutterTurnInvariant DEF Finished
<1> QED
  BY <1>1, <1>2, <1>3, <1>4, <1>5, <1>6 DEF Next

LEMMA TurnInvariantHolds == Spec => []TurnInvariant
<1> QED
  BY InitTurnInvariant, NextTurnInvariant, PTL DEF Spec

\* The calls, slots, rows, resumes and reports keep their types, for every set of
\* calls and whatever the callers and the store do.
THEOREM TurnTypeOK == Spec => []TypeOK
<1>1. TurnInvariant => TypeOK
  BY DEF TurnInvariant
<1> QED
  BY <1>1, TurnInvariantHolds, PTL

\* A call whose acceptance is durable owns its slot and lane entry until it is
\* public, and a refused or rejected call has no delivery row, for any number of
\* calls of the same Turn id and any resume_turn and shutdown beside them.
THEOREM AcceptanceOwned == Spec => []AcceptanceNeverOrphaned
<1>1. TurnInvariant => AcceptanceNeverOrphaned
  BY DEF TurnInvariant, CallHoldsSlot, HoldsSlot, DeliveryOwned, Undelivered,
         AcceptanceNeverOrphaned
<1> QED
  BY <1>1, TurnInvariantHolds, PTL

-----------------------------------------------------------------------------
(* The store is closed last *)

\* Only a forced shutdown leaves a task that blocks, every owner after it is forced
\* too, and each of them finds the task again before it takes the slots.
ReportKept ==
    /\ \A c \in Calls : call[c] = "blocked" =>
          /\ force_requested
          /\ stage \in {"drain", "persist", "close", "complete"} =>
                report.adapter = "contractViolation"
    /\ report.forced => force_requested
    /\ force_requested => ForceCallers # {}

\* A task moves itself, and never to a poll that blocks.
LEMMA TaskMoves ==
    ASSUME NEW c \in Calls, StartTurnStep(c) \/ UnblockTurn(c)
    PROVE  \E b \in CallState \ {"blocked"} : call' = [call EXCEPT ![c] = b]
<1> USE DEF Goto, CallState, Live
<1>1. CASE BeginAdmission(c) \/ GiveUpAdmission(c) \/ Register(c)
  BY <1>1 DEF BeginAdmission, GiveUpAdmission, Register
<1>2. CASE CommitAcceptance(c) \/ RejectAcceptance(c) \/ AcceptTurn(c)
  BY <1>2 DEF CommitAcceptance, RejectAcceptance, AcceptTurn
<1>3. CASE InvokeTurn(c) \/ TakeStagedTerminal(c) \/ (\E o \in Outcome : StageTerminal(c, o))
  BY <1>3 DEF InvokeTurn, StageTerminal, TakeStagedTerminal
<1>4. CASE CommitTerminal(c) \/ FailTerminal(c) \/ SettleSlot(c)
  BY <1>4 DEF CommitTerminal, FailTerminal, SettleSlot
<1>5. CASE PublishTerminal(c) \/ PanicTurn(c) \/ UnblockTurn(c)
  BY <1>5 DEF PublishTerminal, PanicTurn, UnblockTurn
<1> QED
  BY <1>1, <1>2, <1>3, <1>4, <1>5 DEF StartTurnStep

\* Only the abort of a forced shutdown finds a task that blocks.
LEMMA NobodyBlocks ==
    ASSUME TurnInvariant, NEW c \in Calls,
           StartTurnStep(c) \/ UnblockTurn(c)
    PROVE  /\ UNCHANGED shutdownVars
           /\ \A d \in Calls : call'[d] = "blocked" => call[d] = "blocked"
<1>1. call \in [Calls -> CallState]
  BY Typed DEF TurnInvariant
<1>2. UNCHANGED shutdownVars
  BY DEF StartTurnStep, UnblockTurn, BeginAdmission, GiveUpAdmission, Register, CommitAcceptance,
         RejectAcceptance, AcceptTurn, InvokeTurn, StageTerminal, TakeStagedTerminal, CommitTerminal,
         FailTerminal, SettleSlot, PublishTerminal, PanicTurn
<1>3. \E b \in CallState \ {"blocked"} : call' = [call EXCEPT ![c] = b]
  BY TaskMoves
<1> QED
  BY <1>1, <1>2, <1>3

\* A resume_turn leaves calls and shutdowns alone.
LEMMA ResumeAside ==
    ASSUME NEW r \in Resumes, ResumeStep(r)
    PROVE  UNCHANGED <<turnVars, shutdownVars, deliveries, store_open, panics, pending_terminal>>
  BY DEF ResumeStep, ResumeOpen, ResumePending, ResumeLive, ResumeRead, ResumeCommit, ResumeFail,
         ResumeRemove, slotVars, storeVars

LEMMA NextReportKept ==
    ASSUME TurnInvariant, ReportKept, [Next]_vars
    PROVE  ReportKept'
<1>1. TypeOK /\ AdmissionClosed /\ TasksJoined
  BY DEF TurnInvariant
<1>2. /\ report \in ReportRecord
      /\ stage \in Stage
      /\ force_requested \in BOOLEAN
      /\ call \in [Calls -> CallState]
  BY <1>1, ShutdownTyped, Typed
<1>3. ASSUME NEW c \in Calls, StartTurnStep(c) \/ UnblockTurn(c) PROVE ReportKept'
  BY <1>3, NobodyBlocks DEF ReportKept, shutdownVars
<1>4. ASSUME NEW r \in Resumes, ResumeStep(r) PROVE ReportKept'
  BY <1>4, ResumeAside DEF ReportKept, shutdownVars, turnVars
<1>5. ASSUME NEW s \in Shutdowns, CallShutdown(s) \/ CloseForShutdown(s) PROVE ReportKept'
  <2>1. /\ UNCHANGED <<call, report, stage>>
        /\ force_requested => force_requested'
        /\ force_requested' => force_requested \/ s \in ForceCallers
    BY <1>5, <1>2 DEF CallShutdown, CloseForShutdown, turnVars
  <2> QED
    BY <2>1 DEF ReportKept
<1>6. ASSUME NEW s \in Shutdowns, OwnShutdown(s) PROVE ReportKept'
  <2>1. UNCHANGED <<call, force_requested>>
    BY <1>6 DEF OwnShutdown, turnVars
  <2>2. CASE stage = "complete"
    BY <1>6, <2>1, <2>2 DEF OwnShutdown, ReportKept
  <2>3. CASE stage # "complete"
    <3>1. report'.forced = force_requested /\ stage' \in {"adapter", "join"}
      BY <1>6, <2>3 DEF OwnShutdown, NewReport
    <3> QED
      BY <2>1, <3>1 DEF ReportKept
  <2> QED
    BY <2>2, <2>3
<1>7. ASSUME NEW s \in Shutdowns, AbandonShutdown(s) PROVE ReportKept'
  <2>1. UNCHANGED <<call, force_requested, report>> /\ (stage' = stage \/ stage' = "none")
    BY <1>7 DEF AbandonShutdown, turnVars
  <2> QED
    BY <2>1 DEF ReportKept
<1>8. ASSUME NEW s \in Shutdowns, CloseState(s) PROVE ReportKept'
  <2>1. PICK a : report' = [report EXCEPT !.state_close = a]
    BY <1>8 DEF CloseState
  <2>2. report'.adapter = report.adapter /\ report'.forced = report.forced
    BY <1>2, <2>1 DEF ReportRecord
  <2>3. UNCHANGED <<call, force_requested>> /\ stage = "close"
    BY <1>8 DEF CloseState, turnVars
  <2> QED
    BY <2>2, <2>3 DEF ReportKept
<1>9. CASE ShutdownAdapter
  <2>1. PICK status \in {"completed", "failed"} : report' = [report EXCEPT !.adapter = status]
    BY <1>9 DEF ShutdownAdapter
  <2>2. report'.forced = report.forced
    BY <1>2, <2>1 DEF ReportRecord
  <2>3. /\ UNCHANGED <<call, force_requested>>
        /\ stage = "adapter"
        /\ stage' = IF report.forced THEN "join" ELSE "drain"
    BY <1>9 DEF ShutdownAdapter, turnVars
  <2>4. ~report.forced => \A c \in Calls : call[c] # "blocked"
    BY <1>1, <2>3 DEF TasksJoined, NoLiveTask, Live
  <2> QED
    BY <2>2, <2>3, <2>4 DEF ReportKept
<1>10. CASE AbortTasks
  <2>1. PICK stuck \in SUBSET {c \in Calls : call[c] \in {"running", "blocked"}} :
           /\ call' = [c \in Calls |-> IF c \in stuck THEN "blocked"
                                       ELSE IF call[c] \in Live THEN "aborted"
                                       ELSE call[c]]
           /\ report' = [report EXCEPT !.aborted = TRUE,
                             !.adapter = IF stuck = {} THEN @ ELSE "contractViolation"]
    BY <1>10 DEF AbortTasks
  <2>2. report.forced /\ UNCHANGED force_requested
    BY <1>10 DEF AbortTasks
  <2>3. /\ report'.forced = report.forced
        /\ report'.adapter = IF stuck = {} THEN report.adapter ELSE "contractViolation"
    BY <1>2, <2>1 DEF ReportRecord
  <2>4. \A c \in Calls : call'[c] = "blocked" => c \in stuck
    BY <2>1 DEF Live
  <2> QED
    BY <2>2, <2>3, <2>4 DEF ReportKept
<1>11. CASE UpgradeShutdown
  <2>1. force_requested /\ stage' = "adapter" /\ UNCHANGED <<call, force_requested>>
    BY <1>11 DEF UpgradeShutdown, turnVars
  <2> QED
    BY <2>1 DEF ReportKept
<1>12. ASSUME NEW w \in work, FailSlot(w) PROVE ReportKept'
  <2>1. report' = [report EXCEPT !.failures = @ \cup {w.turn}]
        /\ UNCHANGED <<call, force_requested, stage>>
    BY <1>12 DEF FailSlot
  <2>2. report'.adapter = report.adapter /\ report'.forced = report.forced
    BY <1>2, <2>1 DEF ReportRecord
  <2> QED
    BY <2>1, <2>2 DEF ReportKept
<1>13. CASE \/ DrainSlots \/ FinishSlot \/ SlotsSettled \/ \E w \in work : CommitSlot(w)
  <2>1. UNCHANGED <<call, force_requested, report>> /\ stage \in {"drain", "persist"}
    BY <1>13 DEF DrainSlots, FinishSlot, SlotsSettled, CommitSlot, turnVars
  <2> QED
    BY <2>1 DEF ReportKept
<1>14. CASE JoinTasks
  <2>1. UNCHANGED <<call, force_requested, report>> /\ \A c \in Calls : call[c] # "blocked"
    BY <1>14 DEF JoinTasks, NoLiveTask, Live, turnVars
  <2> QED
    BY <2>1 DEF ReportKept
<1>15. CASE Finished \/ UNCHANGED vars
  BY <1>15 DEF Finished, vars, turnVars, shutdownVars, ReportKept
<1> QED
  BY <1>3, <1>4, <1>5, <1>6, <1>7, <1>8, <1>9, <1>10, <1>11, <1>12, <1>13, <1>14, <1>15
     DEF Next, OwnerStep

LEMMA InitReportKept == Init => ReportKept
  BY DEF Init, NewReport, ReportKept

LEMMA ReportKeptHolds == Spec => [](TurnInvariant /\ ReportKept)
<1>1. Init => ReportKept
  BY InitReportKept
<1>2. TurnInvariant /\ ReportKept /\ [Next]_vars => ReportKept'
  BY NextReportKept
<1> QED
  BY <1>1, <1>2, TurnInvariantHolds, NextTurnInvariant, PTL DEF Spec

\* When the store is closed no task is left that could still persist something, but
\* for those a forced shutdown could not stop and reports, and no slot waits for its
\* retry: for any number of graceful, forced and deadline callers, shutdowns that
\* were upgraded or given up included.
THEOREM StoreClosesLast == Spec => []StoreClosedLast
<1>1. TurnInvariant /\ ReportKept => StoreClosedLast
  BY DEF TurnInvariant, TasksJoined, ReportKept, StoreClosedLast
<1> QED
  BY <1>1, ReportKeptHolds, PTL

-----------------------------------------------------------------------------
(* What observers were told is durable *)

\* A resume_turn holds a terminal of the Turn.
Resuming(t) ==
    \E r \in Resumes : resume[r].at \in {"persisting", "persisted"} /\ resume[r].turn = t

\* The states of a call that nobody was told the end of.
Untold == (Live \ {"blocked"}) \cup {"idle", "admitted"}

\* Nobody is left who would write the terminal row of the Turn again.
Frozen(t) ==
    /\ turns[t] \in {"absent", "pendingAcceptance"}
    /\ \A w \in work : w.turn # t
    /\ ~Resuming(t)

\* The published terminal is the row, and the row stays.
TerminalFrozen(c) ==
    /\ published[c] # <<>> => published[c] = <<terminals[TurnOf[c]]>>
    /\ published[c] # <<>> \/ call[c] = "publishing" => Frozen(TurnOf[c])
    /\ call[c] \in Undelivered \cup Untold => published[c] = <<>>
    /\ call[c] \in Untold => completion[c] = "pending"
    /\ call[c] \in {"persisted", "publishing"} => terminals[TurnOf[c]] = staged[c]

\* The waiter is told the published terminal.
WaiterTold(c) ==
    /\ published[c] # <<>> =>
          \/ completion[c] = terminals[TurnOf[c]]
          \/ completion[c] = "panicked" /\ force_requested
    /\ completion[c] \in Outcome => published[c] # <<>>

\* The slots a shutdown took: one for a Turn, of the call that was accepted, whose
\* terminal nobody published.
WorkSlot(w) ==
    /\ deliveries[w.turn] = w.call
    /\ published[w.call] = <<>>
    /\ w.phase = "active" =>
          /\ ~Resuming(w.turn)
          /\ \/ completion[w.call] = "pending"
             \/ completion[w.call] = "panicked" /\ force_requested

SlotsUnpublished ==
    /\ \A t \in Turns : turns[t] = "active" => completion[slot_call[t]] = "pending"
    /\ \A w \in work : WorkSlot(w)
    /\ \A v, w \in work : v.turn = w.turn => v = w
    /\ inflight # None /\ inflight.phase = "active" =>
          terminals[inflight.turn] = inflight.terminal

PublishInvariant ==
    /\ \A c \in Calls : TerminalFrozen(c)
    /\ \A c \in Calls : WaiterTold(c)
    /\ SlotsUnpublished

\* Two calls that were accepted under one Turn id are one call.
LEMMA OneDelivered ==
    ASSUME TurnInvariant, NEW c \in Calls, NEW d \in Calls, TurnOf[c] = TurnOf[d],
           call[c] \notin Undelivered, call[d] \notin Undelivered
    PROVE  c = d
  BY DEF TurnInvariant, DeliveryOwned

\* While a task that does not block is left, no shutdown holds slots.
LEMMA LiveNoWork ==
    ASSUME TurnInvariant, NEW c \in Calls, call[c] \in Live \ {"blocked"}
    PROVE  /\ work = {} /\ inflight = None
           /\ stage \notin {"drain", "persist", "close", "complete"}
  BY DEF TurnInvariant, TasksJoined

\* The slots of a shutdown are gone from the runtime, their calls at rest.
LEMMA WorkFacts ==
    ASSUME TurnInvariant, NEW w \in work, WorkSlot(w)
    PROVE  /\ w \in Slot /\ w.turn \in Turns /\ w.call \in Calls /\ w.terminal \in Outcome
           /\ TurnOf[w.call] = w.turn
           /\ \A t \in Turns : turns[t] = "absent"
           /\ \A c \in Calls : call[c] \in Live => call[c] = "blocked"
           /\ call[w.call] \notin Undelivered \cup Untold
<1>1. TypeOK /\ TasksJoined /\ DeliveryOwned
  BY DEF TurnInvariant
<1>2. w \in Slot /\ w.turn \in Turns /\ w.call \in Calls /\ w.terminal \in Outcome
  BY <1>1, ShutdownTyped, SlotTyped
<1>3. /\ \A t \in Turns : turns[t] = "absent"
      /\ \A c \in Calls : call[c] \in Live => call[c] = "blocked"
  BY <1>1 DEF TasksJoined
<1>4. TurnOf[w.call] = w.turn
  BY <1>1, <1>2, Names DEF DeliveryOwned, WorkSlot
<1>5. call[w.call] \notin Undelivered
  BY <1>1, <1>2, <1>4 DEF DeliveryOwned, WorkSlot
<1> QED
  BY <1>2, <1>3, <1>4, <1>5 DEF Untold, Undelivered

\* Steps of a call before anything is told: nothing that was published, stored or
\* taken by a shutdown changes.
LEMMA PublishQuiet ==
    ASSUME TurnInvariant, PublishInvariant, NEW c \in Calls,
           UNCHANGED <<published, completion, terminals, work, inflight, resume, force_requested>>,
           \A d \in Calls \ {c} : call'[d] = call[d] /\ staged'[d] = staged[d],
           call'[c] \in Untold => call[c] \in Untold,
           call'[c] \in Undelivered => call[c] \in Undelivered,
           call'[c] \notin {"persisted", "publishing"},
           \A u \in Turns :
              \/ turns'[u] = turns[u] /\ slot_call'[u] = slot_call[u]
              \/ turns'[u] = "pendingAcceptance"
              \/ turns'[u] = "active" /\ slot_call'[u] = c /\ u = TurnOf[c]
                 /\ call[c] = "committed",
           deliveries' = deliveries \/ work = {}
    PROVE  PublishInvariant'
<1>1. \A t : Resuming(t)' <=> Resuming(t)
  BY DEF Resuming
<1>2. \A d \in Calls : TerminalFrozen(d) /\ WaiterTold(d) /\ TurnOf[d] \in Turns
  BY Names DEF PublishInvariant
<1>3. ASSUME NEW d \in Calls PROVE TerminalFrozen(d)'
  <2>1. published[d] # <<>> \/ call'[d] = "publishing" => call[d] \notin Undelivered
                                                         /\ call[d] # "committed"
    BY <1>2 DEF TerminalFrozen, Untold, Live, Undelivered
  <2>2. published[d] # <<>> \/ call'[d] = "publishing" => turns'[TurnOf[d]] # "active"
                                                         \/ turns'[TurnOf[d]] = turns[TurnOf[d]]
    <3>1. CASE call[c] = "committed" /\ TurnOf[c] = TurnOf[d]
      <4>1. call[c] \notin Undelivered
        BY <3>1 DEF Undelivered
      <4> QED
        BY <2>1, <3>1, <4>1, OneDelivered
    <3>2. CASE ~(call[c] = "committed" /\ TurnOf[c] = TurnOf[d])
      BY <1>2, <3>2
    <3> QED
      BY <3>1, <3>2
  <2>3. published[d] # <<>> \/ call'[d] = "publishing" => Frozen(TurnOf[d])
    BY <1>2 DEF TerminalFrozen
  <2>4. published[d] # <<>> \/ call'[d] = "publishing" => Frozen(TurnOf[d])'
    BY <1>1, <1>2, <2>2, <2>3 DEF Frozen
  <2> QED
    BY <1>2, <2>4 DEF TerminalFrozen
<1>4. ASSUME NEW d \in Calls PROVE WaiterTold(d)'
  BY <1>2 DEF WaiterTold
<1>5. SlotsUnpublished'
  <2>1. SlotsUnpublished
    BY DEF PublishInvariant
  <2>2. \A u \in Turns : turns'[u] = "active" => completion[slot_call'[u]] = "pending"
    BY <1>2, <2>1 DEF SlotsUnpublished, TerminalFrozen, Untold, Live
  <2>3. \A w \in work : WorkSlot(w)'
    BY <1>1, <2>1 DEF SlotsUnpublished, WorkSlot
  <2> QED
    BY <2>1, <2>2, <2>3 DEF SlotsUnpublished
<1> QED
  BY <1>3, <1>4, <1>5 DEF PublishInvariant

\* The actions of that kind.
LEMMA PublishQuietSteps ==
    ASSUME TurnInvariant, PublishInvariant, NEW c \in Calls, NEW outcome \in Outcome,
           \/ BeginAdmission(c) \/ GiveUpAdmission(c) \/ Register(c) \/ CommitAcceptance(c)
           \/ AcceptTurn(c) \/ InvokeTurn(c) \/ StageTerminal(c, outcome) \/ TakeStagedTerminal(c)
           \/ FailTerminal(c) \/ UnblockTurn(c)
    PROVE  PublishInvariant'
<1>1. /\ call \in [Calls -> CallState]
      /\ staged \in [Calls -> Outcome \cup {None}]
      /\ turns \in [Turns -> TurnPhase]
      /\ slot_call \in [Turns -> Calls \cup {None}]
      /\ TurnOf[c] \in Turns
  BY Typed, Names DEF TurnInvariant
<1>2. UNCHANGED <<published, completion, terminals, work, inflight, resume, force_requested>>
  BY DEF BeginAdmission, GiveUpAdmission, Register, CommitAcceptance, AcceptTurn, InvokeTurn,
         StageTerminal, TakeStagedTerminal, FailTerminal, UnblockTurn, storeVars, shutdownVars
<1>3. \A d \in Calls \ {c} : call'[d] = call[d] /\ staged'[d] = staged[d]
  BY <1>1 DEF BeginAdmission, GiveUpAdmission, Register, CommitAcceptance, AcceptTurn, InvokeTurn,
         StageTerminal, TakeStagedTerminal, FailTerminal, UnblockTurn, Goto
<1>4. /\ call'[c] \in Untold => call[c] \in Untold
      /\ call'[c] \in Undelivered => call[c] \in Undelivered
      /\ call'[c] \notin {"persisted", "publishing"}
  <2> USE <1>1 DEF Goto, Untold, Live, Undelivered
  <2>1. CASE BeginAdmission(c) \/ GiveUpAdmission(c) \/ Register(c)
    BY <2>1 DEF BeginAdmission, GiveUpAdmission, Register
  <2>2. CASE CommitAcceptance(c) \/ AcceptTurn(c) \/ InvokeTurn(c)
    BY <2>2 DEF CommitAcceptance, AcceptTurn, InvokeTurn
  <2>3. CASE StageTerminal(c, outcome) \/ TakeStagedTerminal(c)
    BY <2>3 DEF StageTerminal, TakeStagedTerminal
  <2>4. CASE FailTerminal(c) \/ UnblockTurn(c)
    BY <2>4 DEF FailTerminal, UnblockTurn
  <2> QED
    BY <2>1, <2>2, <2>3, <2>4
<1>5. \A u \in Turns :
         \/ turns'[u] = turns[u] /\ slot_call'[u] = slot_call[u]
         \/ turns'[u] = "pendingAcceptance"
         \/ turns'[u] = "active" /\ slot_call'[u] = c /\ u = TurnOf[c] /\ call[c] = "committed"
  <2>1. CASE Register(c)
    BY <1>1, <2>1 DEF Register, RegisterTurn
  <2>2. CASE AcceptTurn(c)
    <3>1. slot_call[TurnOf[c]] = c
      BY <2>2 DEF AcceptTurn, TurnInvariant, CallHoldsSlot, HoldsSlot
    <3> QED
      BY <1>1, <2>2, <3>1 DEF AcceptTurn, MarkTurnAccepted, slotVars
  <2>3. CASE ~Register(c) /\ ~AcceptTurn(c)
    BY <2>3 DEF BeginAdmission, GiveUpAdmission, CommitAcceptance, InvokeTurn,
         StageTerminal, TakeStagedTerminal, FailTerminal, UnblockTurn, runtimeVars, slotVars
  <2> QED
    BY <2>1, <2>2, <2>3
<1>6. deliveries' = deliveries \/ work = {}
  <2>1. CASE CommitAcceptance(c)
    BY <2>1, AdmittingAlone DEF CommitAcceptance, Admitting
  <2>2. CASE ~CommitAcceptance(c)
    BY <2>2 DEF BeginAdmission, GiveUpAdmission, Register, AcceptTurn, InvokeTurn,
         StageTerminal, TakeStagedTerminal, FailTerminal, UnblockTurn, storeVars
  <2> QED
    BY <2>1, <2>2
<1> QED
  BY <1>2, <1>3, <1>4, <1>5, <1>6, PublishQuiet

\* A call settles: rejected, to be published, or with its terminal retained.
LEMMA PublishSettleSteps ==
    ASSUME TurnInvariant, ReportKept, PublishInvariant, NEW c \in Calls,
           RejectAcceptance(c) \/ SettleSlot(c) \/ PanicTurn(c)
    PROVE  PublishInvariant'
<1> DEFINE t == TurnOf[c]
<1>1. /\ TypeOK
      /\ call \in [Calls -> CallState]
      /\ completion \in [Calls -> Completion]
      /\ published \in [Calls -> Seq(Outcome)]
      /\ turns \in [Turns -> TurnPhase]
      /\ slot_call \in [Turns -> Calls \cup {None}]
      /\ t \in Turns
      /\ \A d \in Calls : TurnOf[d] \in Turns
      /\ None \notin Calls
  BY Typed, Names DEF TurnInvariant
<1>2. PICK b \in CallState, o \in Outcome, retained \in BOOLEAN : SettleForm(c, b, o, retained)
  BY SettleForms
<1>3. UNCHANGED <<staged, published, deliveries, terminals, resume, work, inflight,
                  force_requested>>
  BY DEF RejectAcceptance, SettleSlot, PanicTurn, storeVars, shutdownVars
<1>4. /\ \A d \in Calls : call'[d] = IF d = c THEN b ELSE call[d]
      /\ \/ call[c] = "registered" /\ b = "rejected"
         \/ call[c] = "persisted" /\ b = "publishing"
         \/ call[c] = "unpersisted" /\ b = "failing"
         \/ call[c] \in {"running", "staged", "persisting", "blocked"} /\ b = "done"
  BY <1>1, <1>2 DEF SettleForm
<1>5. /\ \A d \in Calls \ {c} : completion'[d] = completion[d]
      /\ \/ completion'[c] = completion[c]
         \/ /\ completion[c] = "pending" /\ completion'[c] \in {"rejected", "panicked"}
            /\ b \in {"rejected", "done"}
            /\ b = "done" => completion'[c] = "panicked"
  <2>1. CASE RejectAcceptance(c)
    <3>1. b = "rejected"
      BY <1>4, <2>1 DEF RejectAcceptance
    <3> QED
      BY <1>1, <2>1, <3>1 DEF RejectAcceptance, SettleCompletion, Settled
  <2>2. CASE SettleSlot(c)
    BY <2>2 DEF SettleSlot
  <2>3. CASE PanicTurn(c)
    <3>1. b \in {"rejected", "done"}
      BY <1>4, <2>3 DEF PanicTurn
    <3> QED
      BY <1>1, <2>3, <3>1 DEF PanicTurn, SettleCompletion, Settled
  <2> QED
    BY <2>1, <2>2, <2>3
<1>6. \A u \in Turns : turns'[u] = IF u # t THEN turns[u]
                                   ELSE IF ~retained \/ turns[u] = "absent" THEN "absent"
                                   ELSE "pendingTerminal"
  BY <1>1, <1>2, SettleEffect DEF SettleForm
<1>7. retained => turns[t] \in {"absent", "active"}
  BY <1>2, OwnSlot DEF SettleForm
<1>8. call[c] # "blocked" => work = {}
  BY <1>4, LiveNoWork DEF Live
<1>9. \A u : Resuming(u)' <=> Resuming(u)
  BY <1>3 DEF Resuming
<1>10. b = "publishing" => ~Resuming(t)
  <2>1. b = "publishing" => call[c] = "persisted" /\ deliveries[t] = c
    BY <1>4 DEF TurnInvariant, DeliveryOwned, Undelivered
  <2> QED
    BY <2>1 DEF Resuming, TurnInvariant, ResumeHolds
<1>11. \A d \in Calls : TerminalFrozen(d) /\ WaiterTold(d)
  BY DEF PublishInvariant
<1>12. b = "publishing" => ~retained
  BY <1>2 DEF SettleForm
<1> HIDE DEF t
<1>13. ASSUME NEW d \in Calls PROVE TerminalFrozen(d)'
  <2>1. published[d] # <<>> => Frozen(TurnOf[d])'
    <3>1. published[d] # <<>> => Frozen(TurnOf[d])
      BY <1>11 DEF TerminalFrozen
    <3> QED
      BY <3>1, <1>1, <1>3, <1>6, <1>7, <1>9 DEF Frozen
  <2>2. call'[d] = "publishing" => Frozen(TurnOf[d])'
    <3>1. CASE d = c
      BY <3>1, <1>1, <1>3, <1>4, <1>6, <1>8, <1>9, <1>10, <1>12 DEF Frozen, t
    <3>2. CASE d # c
      <4>1. call'[d] = "publishing" => Frozen(TurnOf[d])
        BY <3>2, <1>4, <1>11 DEF TerminalFrozen
      <4> QED
        BY <4>1, <1>1, <1>3, <1>6, <1>7, <1>9 DEF Frozen
    <3> QED
      BY <3>1, <3>2
  <2>3. /\ call'[d] \in Undelivered \cup Untold => call[d] \in Undelivered \cup Untold
        /\ call'[d] \in Untold => call[d] \in Untold /\ completion'[d] = completion[d]
        /\ call'[d] \in {"persisted", "publishing"} => call[d] \in {"persisted", "publishing"}
    BY <1>4, <1>5 DEF Untold, Live, Undelivered
  <2> QED
    BY <1>3, <1>11, <2>1, <2>2, <2>3 DEF TerminalFrozen
<1>14. ASSUME NEW d \in Calls PROVE WaiterTold(d)'
  <2>1. published[d] # <<>> => completion[d] # "pending"
    <3>1. ASSUME published[d] # <<>> PROVE terminals[TurnOf[d]] \in Outcome
      <4>1. published[d] = <<terminals[TurnOf[d]]>> /\ published[d] \in Seq(Outcome)
        BY <1>1, <1>11, <3>1 DEF TerminalFrozen
      <4> QED
        BY <4>1
    <3> QED
      BY <3>1, <1>11 DEF WaiterTold, Outcome
  <2>2. CASE completion'[d] = completion[d]
    BY <1>3, <1>11, <2>2 DEF WaiterTold
  <2>3. CASE completion'[d] # completion[d]
    <3>1. completion[d] = "pending" /\ completion'[d] \in {"rejected", "panicked"}
      BY <1>5, <2>3
    <3> QED
      BY <1>3, <2>1, <3>1 DEF WaiterTold, Outcome
  <2> QED
    BY <2>2, <2>3
<1>15. SlotsUnpublished'
  <2>1. SlotsUnpublished
    BY DEF PublishInvariant
  <2>2. ASSUME NEW u \in Turns, turns'[u] = "active"
        PROVE  completion'[slot_call'[u]] = "pending"
    <3>1. u # t /\ turns[u] = "active"
      BY <1>6, <2>2
    <3>2. slot_call'[u] = slot_call[u]
      BY <1>1, <1>2, <3>1 DEF SettleForm, t
    <3>3. TurnOf[slot_call[u]] = u /\ slot_call[u] \in Calls
      BY <1>1, <3>1 DEF TurnInvariant, SlotOwned, SlotOf
    <3> QED
      BY <1>5, <2>1, <3>1, <3>2, <3>3 DEF SlotsUnpublished, t
  <2>3. ASSUME NEW w \in work PROVE WorkSlot(w)'
    <3>1. WorkSlot(w) /\ call[c] = "blocked"
      BY <1>8, <2>1 DEF SlotsUnpublished
    <3>2. force_requested /\ b = "done"
      BY <3>1, <1>4 DEF ReportKept
    <3>3. w.call \in Calls
      BY <3>1, WorkFacts
    <3>4. CASE w.call = c
      BY <3>1, <3>2, <3>4, <1>3, <1>5, <1>9 DEF WorkSlot
    <3>5. CASE w.call # c
      BY <3>1, <3>3, <3>5, <1>3, <1>5, <1>9 DEF WorkSlot
    <3> QED
      BY <3>4, <3>5
  <2> QED
    BY <1>3, <2>1, <2>2, <2>3 DEF SlotsUnpublished
<1> QED
  BY <1>13, <1>14, <1>15 DEF PublishInvariant

\* finalize_framework_turn commits: nobody was told another terminal of the Turn.
LEMMA PublishCommitStep ==
    ASSUME TurnInvariant, PublishInvariant, NEW c \in Calls, CommitTerminal(c)
    PROVE  PublishInvariant'
<1>1. /\ call \in [Calls -> CallState]
      /\ terminals \in [Turns -> Outcome \cup {None}]
      /\ \A d \in Calls : TurnOf[d] \in Turns
  BY Typed, Names DEF TurnInvariant
<1>2. /\ call[c] = "persisting"
      /\ terminals' = [terminals EXCEPT ![TurnOf[c]] = staged[c]]
      /\ call' = [call EXCEPT ![c] = "persisted"]
      /\ UNCHANGED <<turns, staged, completion, published, slot_call, deliveries, resume, work,
                     inflight, force_requested>>
  BY DEF CommitTerminal, Goto, runtimeVars, slotVars, shutdownVars
<1>3. work = {} /\ inflight = None
  BY <1>2, LiveNoWork DEF Live
<1>4. /\ \A d \in Calls : call'[d] = IF d = c THEN "persisted" ELSE call[d]
      /\ \A u \in Turns : terminals'[u] = IF u = TurnOf[c] THEN staged[c] ELSE terminals[u]
  BY <1>1, <1>2
<1>5. \A d \in Calls : TerminalFrozen(d) /\ WaiterTold(d)
  BY DEF PublishInvariant
<1>6. \A u : Resuming(u)' <=> Resuming(u)
  BY <1>2 DEF Resuming
<1>7. \A u : Frozen(u)' <=> Frozen(u)
  BY <1>2, <1>6 DEF Frozen
<1>8. published[c] = <<>>
  BY <1>2, <1>5 DEF TerminalFrozen, Untold, Live
<1>9. ASSUME NEW d \in Calls \ {c},
             published[d] # <<>> \/ call[d] \in {"persisted", "publishing"}
      PROVE  TurnOf[d] # TurnOf[c]
  <2>1. call[d] \notin Undelivered /\ call[c] \notin Undelivered
    BY <1>2, <1>5, <1>9 DEF TerminalFrozen, Undelivered
  <2> QED
    BY <2>1, OneDelivered
<1>10. ASSUME NEW d \in Calls PROVE TerminalFrozen(d)'
  <2>1. CASE d = c
    BY <2>1, <1>1, <1>2, <1>4, <1>5, <1>8 DEF TerminalFrozen, Untold, Live, Undelivered
  <2>2. CASE d # c
    BY <2>2, <1>1, <1>2, <1>4, <1>5, <1>7, <1>9 DEF TerminalFrozen
  <2> QED
    BY <2>1, <2>2
<1>11. ASSUME NEW d \in Calls PROVE WaiterTold(d)'
  BY <1>1, <1>2, <1>4, <1>5, <1>8, <1>9 DEF WaiterTold
<1>12. SlotsUnpublished'
  BY <1>2, <1>3 DEF PublishInvariant, SlotsUnpublished
<1> QED
  BY <1>10, <1>11, <1>12 DEF PublishInvariant

\* The terminal event is pushed and the waiter settled, or the waiter is told that
\* there is none.
LEMMA PublishTerminalStep ==
    ASSUME TurnInvariant, PublishInvariant, NEW c \in Calls, PublishTerminal(c)
    PROVE  PublishInvariant'
<1>1. /\ call \in [Calls -> CallState]
      /\ completion \in [Calls -> Completion]
      /\ published \in [Calls -> Seq(Outcome)]
      /\ terminals \in [Turns -> Outcome \cup {None}]
      /\ staged \in [Calls -> Outcome \cup {None}]
      /\ slot_call \in [Turns -> Calls \cup {None}]
      /\ \A d \in Calls : TurnOf[d] \in Turns
  BY Typed, Names DEF TurnInvariant
<1>2. /\ call[c] \in {"publishing", "failing"}
      /\ call' = [call EXCEPT ![c] = "done"]
      /\ UNCHANGED <<turns, staged, terminals, slot_call, deliveries, resume, work,
                     inflight, force_requested>>
  BY DEF PublishTerminal, Goto, runtimeVars, slotVars, shutdownVars, storeVars
<1>3. work = {} /\ inflight = None
  BY <1>2, LiveNoWork DEF Live
<1>4. \A d \in Calls : TerminalFrozen(d) /\ WaiterTold(d)
  BY DEF PublishInvariant
<1>5. published[c] = <<>> /\ completion[c] = "pending"
  BY <1>2, <1>4 DEF TerminalFrozen, Untold, Live
<1>6. /\ \A d \in Calls : call'[d] = IF d = c THEN "done" ELSE call[d]
      /\ \A d \in Calls \ {c} : published'[d] = published[d] /\ completion'[d] = completion[d]
      /\ call[c] = "publishing" => published'[c] = <<staged[c]>> /\ completion'[c] = staged[c]
      /\ call[c] = "failing" => published'[c] = <<>> /\ completion'[c] = "persistence"
  BY <1>1, <1>2, <1>5 DEF PublishTerminal, SettleCompletion, Settled
<1>7. call[c] = "publishing" => terminals[TurnOf[c]] = staged[c] /\ Frozen(TurnOf[c])
  BY <1>4 DEF TerminalFrozen
<1>8. \A u : Resuming(u)' <=> Resuming(u)
  BY <1>2 DEF Resuming
<1>9. \A u : Frozen(u)' <=> Frozen(u)
  BY <1>2, <1>8 DEF Frozen
<1>10. ASSUME NEW d \in Calls PROVE TerminalFrozen(d)'
  <2>1. CASE d = c
    BY <2>1, <1>2, <1>6, <1>7, <1>9 DEF TerminalFrozen, Untold, Live, Undelivered
  <2>2. CASE d # c
    BY <2>2, <1>2, <1>4, <1>6, <1>9 DEF TerminalFrozen
  <2> QED
    BY <2>1, <2>2
<1>11. ASSUME NEW d \in Calls PROVE WaiterTold(d)'
  <2>1. CASE d = c
    <3>1. CASE call[c] = "publishing"
      <4>1. published'[c] # <<>>
        BY <1>6, <3>1
      <4> QED
        BY <2>1, <3>1, <4>1, <1>2, <1>6, <1>7 DEF WaiterTold
    <3>2. CASE call[c] = "failing"
      BY <2>1, <3>2, <1>6 DEF WaiterTold, Outcome
    <3> QED
      BY <1>2, <3>1, <3>2
  <2>2. CASE d # c
    BY <2>2, <1>2, <1>4, <1>6 DEF WaiterTold
  <2> QED
    BY <2>1, <2>2
<1>12. SlotsUnpublished'
  <2>1. ASSUME NEW u \in Turns, turns[u] = "active"
        PROVE  slot_call[u] \in Calls \ {c}
    <3>1. /\ slot_call[u] # None
          /\ call[slot_call[u]] \in Executing \cup {"blocked", "aborted"}
      BY <2>1 DEF TurnInvariant, SlotOwned, SlotOf
    <3> QED
      BY <1>1, <1>2, <3>1 DEF Executing
  <2> QED
    BY <2>1, <1>2, <1>3, <1>6 DEF PublishInvariant, SlotsUnpublished
<1> QED
  BY <1>10, <1>11, <1>12 DEF PublishInvariant

\* What one step of a resume_turn does to it: the terminal it holds comes from the
\* slot that retains it, and an outcome it answers is the row, or was just written.
LEMMA ResumeEffect ==
    ASSUME TurnInvariant, NEW r \in Resumes, ResumeStep(r), NEW u, u = resume[r].turn
    PROVE  /\ \A q \in Resumes \ {r} : resume'[q] = resume[q]
           /\ u \in Turns \/ resume[r].at = "idle"
           /\ resume'[r].at \in {"persisting", "persisted"} \cup Outcome =>
                 u \in Turns /\ resume'[r].turn = u
           /\ resume'[r].at \in {"persisting", "persisted"} =>
                 \/ /\ resume[r].at \in {"persisting", "persisted"}
                    /\ resume'[r].terminal = resume[r].terminal
                 \/ turns[u] = "pendingTerminal" /\ resume'[r].terminal = pending_terminal[u]
           /\ resume'[r].at = "persisted" => terminals'[u] = resume'[r].terminal
           /\ resume'[r].at \in Outcome =>
                 \/ resume'[r].at = terminals[u]
                 \/ resume[r].at = "persisted" /\ resume'[r].at = resume[r].terminal
           /\ \A t \in Turns :
                 \/ terminals'[t] = terminals[t]
                 \/ /\ t = u /\ resume[r].at = "persisting"
                    /\ terminals'[t] = resume[r].terminal
<1>1. /\ resume \in [Resumes -> ResumeRecord]
      /\ terminals \in [Turns -> Outcome \cup {None}]
      /\ resume[r].turn \in Turns \cup {None}
      /\ ResumeHolds
  BY Typed, ResumeTyped DEF TurnInvariant
<1>2. \A q \in Resumes \ {r} : resume'[q] = resume[q]
  BY <1>1 DEF ResumeStep, ResumeOpen, ResumePending, ResumeLive, ResumeRead, ResumeCommit,
         ResumeFail, ResumeRemove, ResumeGoto
<1>3. u \in Turns \/ resume[r].at = "idle"
  BY <1>1 DEF ResumeHolds
<1> USE DEF Outcome
<1>4. CASE \E t \in Turns : ResumeOpen(r, t)
  <2>1. PICK t \in Turns, a \in {"checked", "refused"} :
           resume' = [resume EXCEPT ![r].at = a, ![r].turn = t]
    BY <1>4 DEF ResumeOpen
  <2>2. resume'[r].at = a /\ UNCHANGED terminals
    BY <1>1, <1>4, <2>1 DEF ResumeRecord, ResumeOpen, storeVars
  <2> QED
    BY <1>2, <1>3, <2>1, <2>2
<1>5. CASE ResumePending(r)
  <2>1. u \in Turns /\ UNCHANGED terminals
    BY <1>3, <1>5 DEF ResumePending, storeVars
  <2>2. CASE turns[u] = "pendingTerminal"
    <3>1. resume' = [resume EXCEPT ![r].at = "persisting", ![r].terminal = pending_terminal[u]]
      BY <1>5, <2>2 DEF ResumePending
    <3>2. /\ resume'[r].turn = u /\ resume'[r].at = "persisting"
          /\ resume'[r].terminal = pending_terminal[u]
      BY <1>1, <3>1 DEF ResumeRecord
    <3> QED
      BY <1>2, <2>1, <2>2, <3>2
  <2>3. CASE turns[u] # "pendingTerminal"
    <3>1. resume' = [resume EXCEPT ![r].at = "looking", ![r].terminal = resume[r].terminal]
      BY <1>5, <2>3 DEF ResumePending
    <3>2. resume'[r].at = "looking"
      BY <1>1, <3>1 DEF ResumeRecord
    <3> QED
      BY <1>2, <2>1, <3>2
  <2> QED
    BY <2>2, <2>3
<1>6. CASE ResumeLive(r)
  <2>1. PICK a \in {"live", "reading"} : resume' = [resume EXCEPT ![r].at = a]
    BY <1>6 DEF ResumeLive, ResumeGoto
  <2>2. resume'[r].at = a /\ UNCHANGED terminals
    BY <1>1, <1>6, <2>1 DEF ResumeRecord, ResumeLive, storeVars
  <2> QED
    BY <1>2, <1>3, <2>1, <2>2
<1>7. CASE ResumeRead(r)
  <2>1. u \in Turns /\ terminals[u] \in Outcome \cup {None} /\ UNCHANGED terminals
    BY <1>1, <1>3, <1>7 DEF ResumeRead, storeVars
  <2>2. CASE resume[r].at = "reading" /\ terminals[u] # None
    <3>1. resume' = [resume EXCEPT ![r].at = terminals[u]]
      BY <1>7, <2>2 DEF ResumeRead, ResumeGoto
    <3>2. resume'[r].at = terminals[u] /\ resume'[r].turn = u
      BY <1>1, <3>1 DEF ResumeRecord
    <3> QED
      BY <1>2, <2>1, <2>2, <3>2
  <2>3. CASE ~(resume[r].at = "reading" /\ terminals[u] # None)
    <3>1. PICK a \in {"readingDelivery", "indeterminate", "notFound"} :
             resume' = [resume EXCEPT ![r].at = a]
      BY <1>7, <2>3 DEF ResumeRead, ResumeGoto
    <3>2. resume'[r].at = a
      BY <1>1, <3>1 DEF ResumeRecord
    <3> QED
      BY <1>2, <2>1, <3>1, <3>2
  <2> QED
    BY <2>2, <2>3
<1>8. CASE ResumeCommit(r)
  <2>1. /\ resume' = [resume EXCEPT ![r].at = "persisted"] /\ resume[r].at = "persisting"
        /\ terminals' = [terminals EXCEPT ![u] = resume[r].terminal]
    BY <1>8 DEF ResumeCommit, ResumeGoto
  <2>2. /\ resume'[r].turn = u /\ resume'[r].at = "persisted"
        /\ resume'[r].terminal = resume[r].terminal
    BY <1>1, <2>1 DEF ResumeRecord
  <2>3. u \in Turns
    BY <1>3, <2>1
  <2> QED
    BY <1>1, <1>2, <2>1, <2>2, <2>3
<1>9. CASE ResumeFail(r)
  <2>1. PICK a \in {"persistence", "storeError"} : resume' = [resume EXCEPT ![r].at = a]
    BY <1>9 DEF ResumeFail, ResumeGoto
  <2>2. resume'[r].at = a /\ UNCHANGED terminals
    BY <1>1, <1>9, <2>1 DEF ResumeRecord, ResumeFail
  <2> QED
    BY <1>2, <1>3, <2>1, <2>2
<1>10. CASE ResumeRemove(r)
  <2>1. /\ resume' = [resume EXCEPT ![r].at = resume[r].terminal]
        /\ resume[r].at = "persisted" /\ UNCHANGED terminals
    BY <1>10 DEF ResumeRemove, ResumeGoto, storeVars
  <2>2. resume'[r].at = resume[r].terminal /\ resume'[r].turn = u
    BY <1>1, <2>1 DEF ResumeRecord
  <2>3. resume[r].terminal \in Outcome
    BY <1>1, <2>1, ResumeTyped DEF ResumeHolds
  <2> QED
    BY <1>2, <1>3, <2>1, <2>2, <2>3
<1> QED
  BY <1>4, <1>5, <1>6, <1>7, <1>8, <1>9, <1>10 DEF ResumeStep

\* resume_turn: it starts to hold a terminal only while the slot retains it, and
\* what it writes was told to nobody.
LEMMA PublishResumeSteps ==
    ASSUME TurnInvariant, PublishInvariant, NEW r \in Resumes, ResumeStep(r)
    PROVE  PublishInvariant'
<1>1. /\ TypeOK /\ ResumeHolds
      /\ resume \in [Resumes -> ResumeRecord]
      /\ terminals \in [Turns -> Outcome \cup {None}]
      /\ turns \in [Turns -> TurnPhase]
      /\ slot_call \in [Turns -> Calls \cup {None}]
      /\ \A d \in Calls : TurnOf[d] \in Turns
      /\ work \subseteq Slot /\ inflight \in Slot \cup {None}
  BY Typed, ShutdownTyped, Names DEF TurnInvariant
<1>2. UNCHANGED <<call, staged, completion, published, deliveries, work, inflight, force_requested>>
  BY ResumeAside DEF turnVars, shutdownVars
<1>3. \A d \in Calls : TerminalFrozen(d) /\ WaiterTold(d)
  BY DEF PublishInvariant
<1> DEFINE u == resume[r].turn
<1>4. /\ \A q \in Resumes \ {r} : resume'[q] = resume[q]
      /\ u \in Turns \/ resume[r].at = "idle"
      /\ resume'[r].at \in {"persisting", "persisted"} =>
            /\ u \in Turns /\ resume'[r].turn = u
            /\ resume[r].at \in {"persisting", "persisted"} \/ turns[u] = "pendingTerminal"
      /\ \A t \in Turns : terminals'[t] = terminals[t] \/ (t = u /\ resume[r].at = "persisting")
  BY ResumeEffect
<1> HIDE DEF u
<1>5. \A t : Resuming(t)' => Resuming(t) \/ (t = u /\ u \in Turns /\ turns[u] = "pendingTerminal")
  BY <1>4 DEF Resuming, u
<1>6. \A t \in Turns : /\ turns'[t] = turns[t] /\ slot_call'[t] = slot_call[t]
                       \/ turns'[t] = "absent"
  <2>1. CASE ResumeRemove(r)
    <3>1. u \in Turns
      BY <2>1, <1>4 DEF ResumeRemove, u
    <3> QED
      BY <2>1, <3>1, <1>1 DEF ResumeRemove, RemovePendingTerminal, u
  <2>2. CASE ~ResumeRemove(r)
    BY <2>2 DEF ResumeStep, ResumeOpen, ResumePending, ResumeLive, ResumeRead, ResumeCommit,
         ResumeFail, runtimeVars, slotVars
  <2> QED
    BY <2>1, <2>2
<1>7. \A t \in Turns : Frozen(t) => Frozen(t)'
  BY <1>2, <1>5, <1>6 DEF Frozen
<1>8. \A t \in Turns : terminals'[t] = terminals[t]
                        \/ (/\ Resuming(t) /\ deliveries[t] # None
                            /\ call[deliveries[t]] \in {"failing", "done"})
  BY <1>1, <1>4 DEF Resuming, ResumeHolds, u
<1>9. ASSUME NEW d \in Calls, published[d] # <<>> \/ call[d] \in {"persisted", "publishing"}
       PROVE  terminals'[TurnOf[d]] = terminals[TurnOf[d]]
  <2>1. CASE published[d] # <<>> \/ call[d] = "publishing"
    BY <2>1, <1>1, <1>3, <1>8 DEF TerminalFrozen, Frozen
  <2>2. CASE call[d] = "persisted"
    <3>1. deliveries[TurnOf[d]] = d
      BY <2>2 DEF TurnInvariant, DeliveryOwned, Undelivered
    <3> QED
      BY <2>2, <3>1, <1>1, <1>8
  <2> QED
    BY <1>9, <2>1, <2>2
<1>10. ASSUME NEW d \in Calls PROVE TerminalFrozen(d)'
  BY <1>1, <1>2, <1>3, <1>7, <1>9 DEF TerminalFrozen
<1>11. ASSUME NEW d \in Calls PROVE WaiterTold(d)'
  BY <1>2, <1>3, <1>9 DEF WaiterTold
<1>12. SlotsUnpublished'
  <2>1. SlotsUnpublished
    BY DEF PublishInvariant
  <2>2. \A t \in Turns : turns'[t] = "active" => completion'[slot_call'[t]] = "pending"
    BY <1>2, <1>6, <2>1 DEF SlotsUnpublished
  <2>3. ASSUME NEW w \in work PROVE WorkSlot(w)' /\ (w.phase = "active" => ~Resuming(w.turn))
    <3>1. WorkSlot(w) /\ w.turn \in Turns
      BY <1>1, <2>1, SlotTyped DEF SlotsUnpublished
    <3>2. \A t \in Turns : turns[t] = "absent"
      BY <3>1, WorkFacts
    <3>3. Resuming(w.turn)' => Resuming(w.turn)
      BY <1>5, <3>1, <3>2
    <3> QED
      BY <3>1, <3>3, <1>2 DEF WorkSlot
  <2>4. inflight # None /\ inflight.phase = "active" => terminals'[inflight.turn] = inflight.terminal
    <3>1. inflight # None => inflight \in work /\ inflight.turn \in Turns
      BY <1>1, SlotTyped DEF TurnInvariant, TasksJoined
    <3> QED
      BY <1>8, <2>1, <2>3, <3>1 DEF SlotsUnpublished
  <2> QED
    BY <1>2, <2>1, <2>2, <2>3, <2>4 DEF SlotsUnpublished
<1> QED
  BY <1>10, <1>11, <1>12 DEF PublishInvariant

\* The callers of a shutdown and the steps of its owner that settle no slot: a
\* request for force stays and slots are only let go.
LEMMA PublishAside ==
    ASSUME TurnInvariant, PublishInvariant,
           UNCHANGED <<turns, call, staged, completion, published, slot_call, deliveries, terminals,
                       resume>>,
           work' = work \/ work' = {},
           inflight' = inflight \/ inflight' = None,
           force_requested => force_requested'
    PROVE  PublishInvariant'
<1>1. \A t : Resuming(t)' <=> Resuming(t)
  BY DEF Resuming
<1>2. \A t : Frozen(t) => Frozen(t)'
  BY <1>1 DEF Frozen
<1>3. \A d \in Calls : TerminalFrozen(d)'
  BY <1>2 DEF PublishInvariant, TerminalFrozen
<1>4. \A d \in Calls : WaiterTold(d)'
  BY DEF PublishInvariant, WaiterTold
<1>5. SlotsUnpublished'
  <2>1. \A w \in work : WorkSlot(w)'
    BY <1>1 DEF PublishInvariant, SlotsUnpublished, WorkSlot
  <2> QED
    BY <2>1 DEF PublishInvariant, SlotsUnpublished
<1> QED
  BY <1>3, <1>4, <1>5 DEF PublishInvariant

LEMMA PublishAsideSteps ==
    ASSUME TurnInvariant, ReportKept, PublishInvariant,
           \/ \E s \in Shutdowns : \/ CallShutdown(s) \/ CloseForShutdown(s) \/ OwnShutdown(s)
                                   \/ AbandonShutdown(s) \/ CloseState(s)
           \/ JoinTasks \/ ShutdownAdapter \/ SlotsSettled \/ UpgradeShutdown \/ UNCHANGED vars
    PROVE  PublishInvariant'
<1>1. UNCHANGED <<turns, call, staged, completion, published, slot_call, deliveries, terminals,
                  resume>>
  BY DEF CallShutdown, CloseForShutdown, CloseAdmission, OwnShutdown, AbandonShutdown, CloseState,
         JoinTasks, ShutdownAdapter, SlotsSettled, UpgradeShutdown, vars,
         runtimeVars, turnVars, slotVars, storeVars
<1>2. (work' = work \/ work' = {}) /\ (inflight' = inflight \/ inflight' = None)
  BY DEF CallShutdown, CloseForShutdown, OwnShutdown, AbandonShutdown, CloseState,
         JoinTasks, ShutdownAdapter, SlotsSettled, UpgradeShutdown, vars, shutdownVars
<1>3. force_requested => force_requested'
  BY DEF CallShutdown, CloseForShutdown, OwnShutdown, AbandonShutdown, CloseState,
         JoinTasks, ShutdownAdapter, SlotsSettled, UpgradeShutdown, vars, shutdownVars
<1> QED
  BY <1>1, <1>2, <1>3, PublishAside

\* The forced join deadline tells nobody anything.
LEMMA PublishAbortStep ==
    ASSUME TurnInvariant, PublishInvariant, AbortTasks
    PROVE  PublishInvariant'
<1>1. call \in [Calls -> CallState]
  BY Typed DEF TurnInvariant
<1>2. PICK stuck \in SUBSET {c \in Calls : call[c] \in {"running", "blocked"}} :
         call' = [c \in Calls |-> IF c \in stuck THEN "blocked"
                                   ELSE IF call[c] \in Live THEN "aborted"
                                   ELSE call[c]]
  BY DEF AbortTasks
<1>3. UNCHANGED <<turns, staged, completion, published, slot_call, deliveries, terminals, resume,
                  work, inflight>>
  BY DEF AbortTasks, runtimeVars, slotVars, storeVars
<1>4. UNCHANGED force_requested
  BY DEF AbortTasks
<1>5. \A c \in Calls : call'[c] = call[c] \/ call'[c] \in {"blocked", "aborted"}
  BY <1>2
<1>6. \A t : Resuming(t)' <=> Resuming(t)
  BY <1>3 DEF Resuming
<1>7. \A t : Frozen(t)' <=> Frozen(t)
  BY <1>3, <1>6 DEF Frozen
<1>8. \A d \in Calls : TerminalFrozen(d)'
  BY <1>3, <1>5, <1>7 DEF PublishInvariant, TerminalFrozen, Untold, Live, Undelivered
<1>9. \A d \in Calls : WaiterTold(d)'
  BY <1>3, <1>4 DEF PublishInvariant, WaiterTold
<1>10. SlotsUnpublished'
  <2>1. \A w \in work : WorkSlot(w)'
    BY <1>3, <1>4, <1>6 DEF PublishInvariant, SlotsUnpublished, WorkSlot
  <2> QED
    BY <2>1, <1>3 DEF PublishInvariant, SlotsUnpublished
<1> QED
  BY <1>8, <1>9, <1>10 DEF PublishInvariant

\* The slots change hands: nobody was told their terminals.
LEMMA PublishDrainStep ==
    ASSUME TurnInvariant, PublishInvariant, DrainSlots
    PROVE  PublishInvariant'
<1>1. /\ TypeOK /\ SlotOwned /\ TasksJoined /\ ResumeHolds /\ SlotsUnpublished
      /\ turns \in [Turns -> TurnPhase]
      /\ completion \in [Calls -> Completion]
      /\ slot_call \in [Turns -> Calls \cup {None}]
      /\ \A d \in Calls : TurnOf[d] \in Turns
  BY Typed, Names DEF TurnInvariant, PublishInvariant
<1>2. /\ stage = "drain"
      /\ turns' = [t \in Turns |-> "absent"]
      /\ UNCHANGED <<call, staged, published, deliveries, terminals, resume, inflight, force_requested>>
  BY DEF DrainSlots, TakeTurnSlots, storeVars
<1>3. work' = {[turn |-> t, call |-> slot_call[t], phase |-> turns[t],
                terminal |-> IF pending_terminal[t] = None THEN "interrupted"
                             ELSE pending_terminal[t]] :
                  t \in {u \in Turns : turns[u] \in {"active", "pendingTerminal"}}}
  BY DEF DrainSlots
<1>4. work = {} /\ inflight = None
  BY <1>1, <1>2 DEF TasksJoined
<1>5. \A c \in Calls : call[c] \notin {"registered", "committed"}
  BY <1>1, <1>2 DEF TasksJoined, Live
<1>6. \A d \in Calls : completion'[d] = completion[d]
  <2>1. \A d \in Calls : ~(slot_call[TurnOf[d]] = d /\ turns[TurnOf[d]] = "pendingAcceptance")
    BY <1>1, <1>5 DEF SlotOwned, SlotOf
  <2> QED
    BY <2>1 DEF DrainSlots
<1>7. \A t : Resuming(t)' <=> Resuming(t)
  BY <1>2 DEF Resuming
<1>8. \A d \in Calls : TerminalFrozen(d) /\ WaiterTold(d)
  BY DEF PublishInvariant
<1>9. \A t \in Turns : Frozen(t) => Frozen(t)'
  <2> SUFFICES ASSUME NEW t \in Turns, Frozen(t) PROVE Frozen(t)'
    OBVIOUS
  <2>1. turns'[t] = "absent" /\ turns[t] \notin {"active", "pendingTerminal"}
    BY <1>2 DEF Frozen
  <2>2. \A w \in work' : w.turn # t
    BY <1>3, <2>1
  <2> QED
    BY <1>7, <2>1, <2>2 DEF Frozen
<1>10. \A d \in Calls : TerminalFrozen(d)'
  BY <1>1, <1>2, <1>6, <1>8, <1>9 DEF TerminalFrozen
<1>11. \A d \in Calls : WaiterTold(d)'
  BY <1>2, <1>6, <1>8 DEF WaiterTold
<1>12. ASSUME NEW w \in work' PROVE WorkSlot(w)'
  <2>1. PICK t \in Turns : /\ turns[t] \in {"active", "pendingTerminal"}
                           /\ w.turn = t /\ w.call = slot_call[t] /\ w.phase = turns[t]
    BY <1>3
  <2>2. SlotOf(t) /\ slot_call[t] \in Calls
    BY <1>1, <2>1 DEF SlotOwned, SlotOf
  <2>3. deliveries[t] = slot_call[t] /\ TurnOf[slot_call[t]] = t
    BY <2>1, <2>2, <1>1 DEF SlotOf
  <2>4. published[slot_call[t]] = <<>>
    BY <1>8, <2>1, <2>2, <2>3 DEF TerminalFrozen, Frozen
  <2>5. turns[t] = "active" => completion'[slot_call[t]] = "pending"
    BY <1>1, <1>6, <2>1, <2>2 DEF SlotsUnpublished
  <2>6. turns[t] = "active" => ~Resuming(t)
    <3>1. turns[t] = "active" => call[deliveries[t]] \notin {"failing", "done"}
      BY <2>2, <2>3 DEF SlotOf, Executing
    <3> QED
      BY <3>1, <1>1 DEF Resuming, ResumeHolds
  <2> QED
    BY <1>2, <1>7, <2>1, <2>3, <2>4, <2>5, <2>6 DEF WorkSlot
<1>13. \A v, w \in work' : v.turn = w.turn => v = w
  BY <1>3
<1>14. SlotsUnpublished'
  BY <1>2, <1>4, <1>12, <1>13 DEF SlotsUnpublished
<1> QED
  BY <1>10, <1>11, <1>14 DEF PublishInvariant

\* The shutdown commits the terminal of a slot it holds: nobody was told another.
LEMMA PublishCommitSlotStep ==
    ASSUME TurnInvariant, PublishInvariant, NEW w \in work,
           \A t \in Turns : terminals'[t] = terminals[t] \/ t = w.turn,
           terminals' \in [Turns -> Outcome \cup {None}],
           UNCHANGED <<turns, call, staged, published, slot_call, deliveries, resume>>,
           \A d \in Calls : \/ completion'[d] = completion[d]
                            \/ /\ d = w.call /\ completion[d] = "pending"
                               /\ completion'[d] = "persistence",
           \/ /\ work' = work /\ inflight' = w /\ terminals'[w.turn] = w.terminal
              /\ UNCHANGED completion
           \/ work' = work \ {w} /\ inflight' = None,
           UNCHANGED force_requested
    PROVE  PublishInvariant'
<1>1. SlotsUnpublished /\ WorkSlot(w)
  BY DEF PublishInvariant, SlotsUnpublished
<1>2. /\ w.turn \in Turns /\ w.call \in Calls /\ TurnOf[w.call] = w.turn
      /\ \A t \in Turns : turns[t] = "absent"
      /\ \A c \in Calls : call[c] \in Live => call[c] = "blocked"
      /\ call[w.call] \notin Undelivered \cup Untold
      /\ \A d \in Calls : TurnOf[d] \in Turns
      /\ work \subseteq Slot
  BY <1>1, WorkFacts, Names, ShutdownTyped DEF TurnInvariant
<1>3. \A t : Resuming(t)' <=> Resuming(t)
  BY DEF Resuming
<1>4. \A t \in Turns : Frozen(t) => Frozen(t)'
  BY <1>3 DEF Frozen
<1>5. \A d \in Calls : TerminalFrozen(d) /\ WaiterTold(d)
  BY DEF PublishInvariant
<1>6. ASSUME NEW d \in Calls, published[d] # <<>>
      PROVE  terminals'[TurnOf[d]] = terminals[TurnOf[d]] /\ d # w.call
  BY <1>1, <1>2, <1>5, <1>6 DEF TerminalFrozen, Frozen, WorkSlot
<1>7. ASSUME NEW d \in Calls PROVE TerminalFrozen(d)'
  <2>1. call[d] \notin {"persisted", "publishing"}
    BY <1>2 DEF Live
  <2>2. call[d] \in Untold => d # w.call
    BY <1>2
  <2> QED
    BY <1>2, <1>4, <1>5, <1>6, <2>1, <2>2 DEF TerminalFrozen
<1>8. ASSUME NEW d \in Calls PROVE WaiterTold(d)'
  BY <1>5, <1>6 DEF WaiterTold, Outcome
<1>9. SlotsUnpublished'
  <2>1. \A t \in Turns : turns'[t] # "active"
    BY <1>2
  <2>2. \A v, x \in work : v.turn = x.turn => v = x
    BY <1>1 DEF SlotsUnpublished
  <2>3. ASSUME NEW v \in work' PROVE WorkSlot(v)'
    <3>1. v \in work /\ WorkSlot(v)
      BY <1>1 DEF SlotsUnpublished
    <3>2. v.call \in Calls /\ TurnOf[v.call] = v.turn
      BY <3>1, WorkFacts
    <3>3. CASE completion'[v.call] = completion[v.call]
      BY <3>1, <3>3, <1>3 DEF WorkSlot
    <3>4. CASE completion'[v.call] # completion[v.call]
      <4>1. v.call = w.call /\ work' = work \ {w}
        BY <3>2, <3>4
      <4>2. v = w
        BY <4>1, <3>1, <3>2, <1>2, <2>2
      <4> QED
        BY <4>1, <4>2
    <3> QED
      BY <3>3, <3>4
  <2>4. \A v, x \in work' : v.turn = x.turn => v = x
    BY <2>2
  <2>5. inflight' # None => terminals'[inflight'.turn] = inflight'.terminal
    OBVIOUS
  <2> QED
    BY <2>1, <2>3, <2>4, <2>5 DEF SlotsUnpublished
<1> QED
  BY <1>7, <1>8, <1>9 DEF PublishInvariant

\* The steps of the shutdown that persist a slot, or fail to.
LEMMA PublishSlotSteps ==
    ASSUME TurnInvariant, PublishInvariant, NEW w \in work,
           CommitSlot(w) \/ FailSlot(w)
    PROVE  PublishInvariant'
<1>1. /\ terminals \in [Turns -> Outcome \cup {None}]
      /\ completion \in [Calls -> Completion]
      /\ w.turn \in Turns /\ w.call \in Calls /\ w.terminal \in Outcome
  BY Typed, ShutdownTyped, SlotTyped DEF TurnInvariant
<1>2. UNCHANGED <<turns, call, staged, published, slot_call, deliveries, resume>>
  BY DEF CommitSlot, FailSlot, runtimeVars, turnVars, slotVars
<1>3. /\ \A t \in Turns : terminals'[t] = terminals[t] \/ t = w.turn
      /\ terminals' \in [Turns -> Outcome \cup {None}]
  BY <1>1 DEF CommitSlot, FailSlot
<1>4. CASE CommitSlot(w)
  <2>1. /\ UNCHANGED <<completion, work, force_requested>> /\ inflight' = w
        /\ terminals'[w.turn] = w.terminal
    BY <1>1, <1>4 DEF CommitSlot, turnVars
  <2> QED
    BY <1>2, <1>3, <2>1, PublishCommitSlotStep
<1>5. CASE FailSlot(w)
  <2>1. work' = work \ {w} /\ inflight' = None
    BY <1>5 DEF FailSlot
  <2>2. \A d \in Calls : \/ completion'[d] = completion[d]
                         \/ /\ d = w.call /\ completion[d] = "pending"
                            /\ completion'[d] = "persistence"
    BY <1>1, <1>5 DEF FailSlot, SettleCompletion, Settled
  <2>3. UNCHANGED force_requested
    BY <1>5 DEF FailSlot
  <2> QED
    BY <1>2, <1>3, <2>1, <2>2, <2>3, PublishCommitSlotStep
<1> QED
  BY <1>4, <1>5

\* The shutdown publishes the terminal it has committed, for a Turn whose own task
\* never did.
LEMMA PublishFinishSlotStep ==
    ASSUME TurnInvariant, PublishInvariant, FinishSlot
    PROVE  PublishInvariant'
<1>1. /\ TypeOK /\ TasksJoined /\ SlotsUnpublished
      /\ published \in [Calls -> Seq(Outcome)]
      /\ completion \in [Calls -> Completion]
      /\ terminals \in [Turns -> Outcome \cup {None}]
  BY Typed DEF TurnInvariant, PublishInvariant
<1>2. PICK w \in work : w = inflight /\ work' = work \ {w} /\ inflight' = None
  BY <1>1 DEF FinishSlot, TasksJoined
<1>3. WorkSlot(w)
  BY <1>1, <1>2 DEF SlotsUnpublished
<1>4. /\ w.turn \in Turns /\ w.call \in Calls /\ TurnOf[w.call] = w.turn /\ w.terminal \in Outcome
      /\ \A t \in Turns : turns[t] = "absent"
      /\ \A c \in Calls : call[c] \in Live => call[c] = "blocked"
      /\ call[w.call] \notin Undelivered \cup Untold
      /\ \A d \in Calls : TurnOf[d] \in Turns
  BY <1>2, <1>3, WorkFacts, Names
<1>5. UNCHANGED <<turns, call, staged, slot_call, deliveries, terminals, resume, force_requested>>
  BY DEF FinishSlot, runtimeVars, slotVars, storeVars
<1>6. /\ \A d \in Calls \ {w.call} : published'[d] = published[d] /\ completion'[d] = completion[d]
      /\ w.phase # "active" => published' = published /\ completion' = completion
      /\ w.phase = "active" =>
            /\ published'[w.call] = <<w.terminal>>
            /\ completion'[w.call] = Settled(w.call, w.terminal)
  <2>1. published[w.call] = <<>>
    BY <1>3 DEF WorkSlot
  <2> QED
    BY <1>1, <1>2, <1>4, <2>1 DEF FinishSlot, SettleCompletion
<1>7. w.phase = "active" => terminals[w.turn] = w.terminal /\ ~Resuming(w.turn)
  BY <1>1, <1>2, <1>3 DEF SlotsUnpublished, WorkSlot, TasksJoined, FinishSlot
<1>8. \A t : Resuming(t)' <=> Resuming(t)
  BY <1>5 DEF Resuming
<1>9. \A t \in Turns : Frozen(t) => Frozen(t)'
  BY <1>2, <1>5, <1>8 DEF Frozen
<1>10. w.phase = "active" => Frozen(w.turn)'
  <2>1. \A v \in work' : v.turn # w.turn
    BY <1>1, <1>2 DEF SlotsUnpublished
  <2> QED
    BY <1>4, <1>5, <1>7, <1>8, <2>1 DEF Frozen
<1>11. \A d \in Calls : TerminalFrozen(d) /\ WaiterTold(d)
  BY DEF PublishInvariant
<1>12. ASSUME NEW d \in Calls PROVE TerminalFrozen(d)'
  <2>1. CASE d = w.call /\ w.phase = "active"
    <3>1. call[d] \notin {"persisted", "publishing"}
      BY <1>4 DEF Live
    <3> QED
      BY <2>1, <3>1, <1>4, <1>5, <1>6, <1>7, <1>10 DEF TerminalFrozen
  <2>2. CASE ~(d = w.call /\ w.phase = "active")
    <3>1. published'[d] = published[d] /\ completion'[d] = completion[d]
      BY <1>6, <2>2
    <3> QED
      BY <3>1, <1>4, <1>5, <1>9, <1>11 DEF TerminalFrozen
  <2> QED
    BY <2>1, <2>2
<1>13. ASSUME NEW d \in Calls PROVE WaiterTold(d)'
  <2>1. CASE d = w.call /\ w.phase = "active"
    <3>1. \/ completion[d] = "pending" /\ completion'[d] = w.terminal
          \/ /\ completion[d] = "panicked" /\ completion'[d] = "panicked"
             /\ force_requested
      BY <1>3, <1>6, <2>1 DEF WorkSlot, Settled
    <3>2. published'[d] = <<w.terminal>>
      BY <1>6, <2>1
    <3>3. published'[d] # <<>>
      BY <3>2
    <3> QED
      BY <3>1, <3>3, <2>1, <1>4, <1>5, <1>7 DEF WaiterTold
  <2>2. CASE ~(d = w.call /\ w.phase = "active")
    <3>1. published'[d] = published[d] /\ completion'[d] = completion[d]
      BY <1>6, <2>2
    <3> QED
      BY <3>1, <1>5, <1>11 DEF WaiterTold
  <2> QED
    BY <2>1, <2>2
<1>14. SlotsUnpublished'
  <2>1. ASSUME NEW v \in work' PROVE WorkSlot(v)'
    <3>1. v \in work /\ v # w /\ WorkSlot(v)
      BY <1>1, <1>2 DEF SlotsUnpublished
    <3>2. v.call \in Calls /\ TurnOf[v.call] = v.turn
      BY <3>1, WorkFacts
    <3>3. v.call # w.call
      BY <1>1, <1>2, <1>4, <3>1, <3>2 DEF SlotsUnpublished
    <3> QED
      BY <3>1, <3>2, <3>3, <1>5, <1>6, <1>8 DEF WorkSlot
  <2>2. \A t \in Turns : turns'[t] # "active"
    BY <1>4, <1>5
  <2> QED
    BY <1>1, <1>2, <2>1, <2>2 DEF SlotsUnpublished
<1> QED
  BY <1>12, <1>13, <1>14 DEF PublishInvariant

LEMMA InitPublishInvariant == Init => PublishInvariant
<1> SUFFICES ASSUME Init PROVE PublishInvariant
  OBVIOUS
<1>1. /\ turns = [t \in Turns |-> "absent"]
      /\ call = [c \in Calls |-> "idle"]
      /\ completion = [c \in Calls |-> "pending"]
      /\ published = [c \in Calls |-> <<>>]
      /\ work = {} /\ inflight = None
  BY DEF Init, RuntimeInit
<1> QED
  BY <1>1 DEF PublishInvariant, TerminalFrozen, WaiterTold, SlotsUnpublished, Outcome

LEMMA NextPublishInvariant ==
    ASSUME TurnInvariant, ReportKept, PublishInvariant, [Next]_vars
    PROVE  PublishInvariant'
<1>1. ASSUME NEW c \in Calls, StartTurnStep(c) \/ UnblockTurn(c) PROVE PublishInvariant'
  <2>1. CASE \E outcome \in Outcome : StageTerminal(c, outcome)
    BY <2>1, PublishQuietSteps
  <2>2. CASE \/ BeginAdmission(c) \/ GiveUpAdmission(c) \/ Register(c) \/ CommitAcceptance(c)
             \/ AcceptTurn(c) \/ InvokeTurn(c) \/ TakeStagedTerminal(c)
             \/ FailTerminal(c) \/ UnblockTurn(c)
    <3>1. "failed" \in Outcome
      BY DEF Outcome
    <3> QED
      BY <2>2, <3>1, PublishQuietSteps
  <2> QED
    BY <1>1, <2>1, <2>2, PublishSettleSteps, PublishCommitStep, PublishTerminalStep
       DEF StartTurnStep
<1>2. CASE OwnerStep
  BY <1>2, PublishAsideSteps, PublishAbortStep, PublishDrainStep, PublishSlotSteps,
     PublishFinishSlotStep DEF OwnerStep
<1>3. CASE Finished \/ UNCHANGED vars
  BY <1>3, PublishAsideSteps DEF Finished
<1> QED
  BY <1>1, <1>2, <1>3, PublishResumeSteps, PublishAsideSteps DEF Next

LEMMA PublishInvariantHolds ==
    Spec => [](TurnInvariant /\ ReportKept /\ PublishInvariant)
<1>1. Init => PublishInvariant
  BY InitPublishInvariant
<1>2. TurnInvariant /\ ReportKept /\ PublishInvariant /\ [Next]_vars => PublishInvariant'
  BY NextPublishInvariant
<1>3. Spec => [](TurnInvariant /\ ReportKept)
  BY ReportKeptHolds
<1> QED
  BY <1>1, <1>2, <1>3, PTL DEF Spec

\* What observers of a Turn were told is what the store says, for ever: for any
\* number of calls of one Turn id, resume_turn calls and shutdowns, forced, upgraded
\* or given up, and any failures of the store.
THEOREM PublishedDurable == Spec => []PublishedTerminalDurable
<1>1. PublishInvariant => PublishedTerminalDurable
  BY DEF PublishInvariant, TerminalFrozen, WaiterTold, PublishedTerminalDurable
<1> QED
  BY <1>1, PublishInvariantHolds, PTL

-----------------------------------------------------------------------------
(* A committed terminal stays, when no shutdown is forced *)

\* The states of an accepted call whose terminal nobody has written.
Unwritten == {"committed", "queued", "running", "staged", "persisting", "unpersisted"}

\* o is the durable terminal of the Turn, or one that somebody may still write.
Retains(t, o) ==
    \/ turns[t] = "pendingTerminal" /\ o = pending_terminal[t]
    \/ \E r \in Resumes : /\ resume[r].at \in {"persisting", "persisted"}
                          /\ resume[r].turn = t
                          /\ o = resume[r].terminal
    \/ \E w \in work : w.turn = t /\ o = w.terminal
    \/ terminals[t] # None /\ o = terminals[t]

\* The slot, the resume_turn calls, the shutdown and the row do not disagree.
RetainedAgree == \A t \in Turns : \A o, p \in Outcome : Retains(t, o) /\ Retains(t, p) => o = p

\* There is a row only for a Turn that was accepted and whose terminal was staged.
NotYetTerminal ==
    /\ \A t \in Turns : deliveries[t] = None => terminals[t] = None
    /\ \A c \in Calls : call[c] \in Unwritten => terminals[TurnOf[c]] = None

\* What a resume_turn wrote or answered is the row.
ResumeTold ==
    \A r \in Resumes :
        /\ resume[r].at = "persisted" => terminals[resume[r].turn] = resume[r].terminal
        /\ resume[r].at \in Outcome => terminals[resume[r].turn] = resume[r].at

StableInvariant ==
    /\ \A c \in Calls : call[c] # "aborted"
    /\ RetainedAgree
    /\ NotYetTerminal
    /\ ResumeTold

\* Without a forced caller nothing is forced, upgraded or aborted.
LEMMA Unforced ==
    ASSUME ForceCallers = {}, ReportKept, StableInvariant
    PROVE  /\ ~force_requested /\ ~report.forced
           /\ \A c \in Calls : call[c] \notin {"blocked", "aborted"}
           /\ ~AbortTasks /\ ~UpgradeShutdown
           /\ \A c \in Calls : ~UnblockTurn(c)
  BY DEF ReportKept, StableInvariant, AbortTasks, UpgradeShutdown, UnblockTurn

\* Who changes a terminal row: the Turn's own task when there is none, or somebody
\* who holds a retained terminal.
LEMMA RowWritten ==
    ASSUME ForceCallers = {}, TurnInvariant, ReportKept, PublishInvariant, StableInvariant,
           [Next]_vars, NEW t \in Turns, terminals'[t] # terminals[t]
    PROVE  /\ terminals[t] = None
           /\ terminals'[t] \in Outcome
           /\ deliveries[t] # None
           /\ deliveries' = deliveries
           /\ call'[deliveries[t]] \notin Unwritten
<1>1. /\ terminals \in [Turns -> Outcome \cup {None}]
      /\ staged \in [Calls -> Outcome \cup {None}]
      /\ call \in [Calls -> CallState]
      /\ deliveries \in [Turns -> Calls \cup {None}]
      /\ work \subseteq Slot
      /\ \A c \in Calls : TurnOf[c] \in Turns
      /\ None \notin Calls
  BY Typed, ShutdownTyped, Names DEF TurnInvariant
<1>2. \/ \E c \in Calls : CommitTerminal(c)
      \/ \E r \in Resumes : ResumeStep(r)
      \/ \E w \in work : CommitSlot(w)
  <2>1. ~report.forced
    BY Unforced
  <2>2. \A c \in Calls : StartTurnStep(c) \/ UnblockTurn(c) => CommitTerminal(c) \/ UNCHANGED terminals
    BY DEF StartTurnStep, UnblockTurn, BeginAdmission, GiveUpAdmission, Register, CommitAcceptance,
         RejectAcceptance, AcceptTurn, InvokeTurn, StageTerminal, TakeStagedTerminal,
         FailTerminal, SettleSlot, PublishTerminal, PanicTurn, storeVars
  <2>3. \A s \in Shutdowns :
           CallShutdown(s) \/ CloseForShutdown(s) \/ OwnShutdown(s) \/ AbandonShutdown(s)
           \/ CloseState(s) => UNCHANGED terminals
    BY DEF CallShutdown, CloseForShutdown, OwnShutdown, AbandonShutdown, CloseState, storeVars
  <2>4. OwnerStep => (\E w \in work : CommitSlot(w)) \/ UNCHANGED terminals
    BY <2>1, <2>3 DEF OwnerStep, JoinTasks, ShutdownAdapter, AbortTasks, DrainSlots, FailSlot,
         FinishSlot, SlotsSettled, UpgradeShutdown, storeVars
  <2>5. Finished \/ UNCHANGED vars => UNCHANGED terminals
    BY DEF Finished, vars, storeVars
  <2> QED
    BY <2>2, <2>3, <2>4, <2>5 DEF Next
<1>3. ASSUME NEW o \in Outcome, Retains(t, o), terminals'[t] = o PROVE terminals[t] = None
  <2>1. terminals[t] # None => terminals[t] \in Outcome /\ Retains(t, terminals[t])
    BY <1>1 DEF Retains
  <2> QED
    BY <1>3, <2>1 DEF StableInvariant, RetainedAgree
<1>4. ASSUME NEW c \in Calls, CommitTerminal(c)
      PROVE  /\ terminals[t] = None
             /\ terminals'[t] \in Outcome
             /\ deliveries[t] # None
             /\ deliveries' = deliveries
             /\ call'[deliveries[t]] \notin Unwritten
  <2>1. /\ call[c] = "persisting"
        /\ terminals' = [terminals EXCEPT ![TurnOf[c]] = staged[c]]
        /\ call' = [call EXCEPT ![c] = "persisted"]
        /\ deliveries' = deliveries
    BY <1>4 DEF CommitTerminal, Goto
  <2>2. t = TurnOf[c]
    BY <1>1, <2>1
  <2>3. deliveries[t] = c
    BY <2>1, <2>2 DEF TurnInvariant, DeliveryOwned, Undelivered
  <2>4. terminals[t] = None
    BY <2>1, <2>2 DEF StableInvariant, NotYetTerminal, Unwritten
  <2>5. staged[c] \in Outcome
    BY <1>1, <2>1 DEF TurnInvariant, StagedKept
  <2> QED
    BY <1>1, <2>1, <2>2, <2>3, <2>4, <2>5 DEF Unwritten
<1>5. ASSUME NEW r \in Resumes, ResumeStep(r)
      PROVE  /\ terminals[t] = None
             /\ terminals'[t] \in Outcome
             /\ deliveries[t] # None
             /\ deliveries' = deliveries
             /\ call'[deliveries[t]] \notin Unwritten
  <2>1. /\ t = resume[r].turn /\ resume[r].at = "persisting"
        /\ terminals'[t] = resume[r].terminal
    BY <1>5, ResumeEffect
  <2>2. /\ resume[r].terminal \in Outcome
        /\ deliveries[t] # None
        /\ call[deliveries[t]] \in {"failing", "done"}
    BY <2>1, Typed, ResumeTyped DEF TurnInvariant, ResumeHolds
  <2>3. Retains(t, resume[r].terminal)
    BY <2>1 DEF Retains
  <2>4. UNCHANGED <<call, deliveries>>
    BY <1>5, ResumeAside DEF turnVars
  <2> QED
    BY <1>3, <2>1, <2>2, <2>3, <2>4 DEF Unwritten
<1>6. ASSUME NEW w \in work, CommitSlot(w)
      PROVE  /\ terminals[t] = None
             /\ terminals'[t] \in Outcome
             /\ deliveries[t] # None
             /\ deliveries' = deliveries
             /\ call'[deliveries[t]] \notin Unwritten
  <2>1. /\ terminals' = [terminals EXCEPT ![w.turn] = w.terminal]
        /\ UNCHANGED <<call, deliveries>>
    BY <1>6 DEF CommitSlot, turnVars
  <2>2. WorkSlot(w)
    BY DEF PublishInvariant, SlotsUnpublished
  <2>3. /\ w.turn \in Turns /\ w.terminal \in Outcome /\ w.call \in Calls
        /\ \A c \in Calls : call[c] \in Live => call[c] = "blocked"
    BY <2>2, WorkFacts
  <2>4. t = w.turn /\ terminals'[t] = w.terminal
    BY <1>1, <2>1, <2>3
  <2>5. Retains(t, w.terminal)
    BY <2>4 DEF Retains
  <2>6. deliveries[t] = w.call
    BY <2>2, <2>4 DEF WorkSlot
  <2> QED
    BY <1>1, <1>3, <2>1, <2>3, <2>4, <2>5, <2>6 DEF Unwritten, Live
<1> QED
  BY <1>2, <1>4, <1>5, <1>6

\* Only an acceptance changes the delivery rows.
LEMMA NewDelivery ==
    ASSUME [Next]_vars
    PROVE  deliveries' = deliveries \/ \E c \in Calls : CommitAcceptance(c)
<1>1. ASSUME NEW c \in Calls, StartTurnStep(c) \/ UnblockTurn(c)
      PROVE  UNCHANGED deliveries \/ CommitAcceptance(c)
  BY <1>1 DEF StartTurnStep, UnblockTurn, BeginAdmission, GiveUpAdmission, Register,
         RejectAcceptance, AcceptTurn, InvokeTurn, StageTerminal, TakeStagedTerminal, CommitTerminal,
         FailTerminal, SettleSlot, PublishTerminal, PanicTurn, storeVars
<1>2. ASSUME NEW s \in Shutdowns,
             CallShutdown(s) \/ CloseForShutdown(s) \/ OwnShutdown(s) \/ AbandonShutdown(s)
             \/ CloseState(s)
      PROVE  UNCHANGED deliveries
  BY <1>2 DEF CallShutdown, CloseForShutdown, OwnShutdown, AbandonShutdown, CloseState, storeVars
<1>3. CASE OwnerStep
  BY <1>2, <1>3 DEF OwnerStep, JoinTasks, ShutdownAdapter, AbortTasks, DrainSlots, CommitSlot,
         FailSlot, FinishSlot, SlotsSettled, UpgradeShutdown, storeVars
<1>4. CASE Finished \/ UNCHANGED vars
  BY <1>4 DEF Finished, vars, storeVars
<1> QED
  BY <1>1, <1>2, <1>3, <1>4, ResumeAside DEF Next

\* No delivery is taken back.
LEMMA RowsStay ==
    ASSUME TurnInvariant, [Next]_vars, NEW t \in Turns, deliveries[t] # None
    PROVE  deliveries'[t] = deliveries[t]
<1>1. deliveries \in [Turns -> Calls \cup {None}]
  BY Typed DEF TurnInvariant
<1>2. ASSUME NEW c \in Calls, CommitAcceptance(c) PROVE deliveries'[t] = deliveries[t]
  <2>1. /\ deliveries[TurnOf[c]] = None
        /\ deliveries' = [deliveries EXCEPT ![TurnOf[c]] = c]
    BY <1>2 DEF CommitAcceptance
  <2> QED
    BY <1>1, <2>1
<1> QED
  BY <1>2, NewDelivery

\* A call comes to an unwritten state only by its acceptance.
LEMMA BecomesUnwritten ==
    ASSUME TurnInvariant, [Next]_vars, ~AbortTasks, NEW c \in Calls, call'[c] \in Unwritten
    PROVE  call[c] \in Unwritten \/ deliveries[TurnOf[c]] = None
<1>1. call \in [Calls -> CallState]
  BY Typed DEF TurnInvariant
<1>2. ASSUME NEW d \in Calls, StartTurnStep(d) \/ UnblockTurn(d)
      PROVE  call[c] \in Unwritten \/ deliveries[TurnOf[c]] = None
  <2> USE <1>1 DEF Goto, Unwritten
  <2>1. CASE BeginAdmission(d) \/ GiveUpAdmission(d) \/ Register(d)
    BY <2>1 DEF BeginAdmission, GiveUpAdmission, Register
  <2>2. CASE CommitAcceptance(d) \/ RejectAcceptance(d) \/ AcceptTurn(d)
    BY <2>2 DEF CommitAcceptance, RejectAcceptance, AcceptTurn
  <2>3. CASE InvokeTurn(d) \/ TakeStagedTerminal(d) \/ (\E o \in Outcome : StageTerminal(d, o))
    BY <2>3 DEF InvokeTurn, StageTerminal, TakeStagedTerminal
  <2>4. CASE CommitTerminal(d) \/ FailTerminal(d) \/ SettleSlot(d)
    BY <2>4 DEF CommitTerminal, FailTerminal, SettleSlot
  <2>5. CASE PublishTerminal(d) \/ PanicTurn(d) \/ UnblockTurn(d)
    BY <2>5 DEF PublishTerminal, PanicTurn, UnblockTurn
  <2> QED
    BY <1>2, <2>1, <2>2, <2>3, <2>4, <2>5 DEF StartTurnStep
<1>3. ASSUME NEW s \in Shutdowns,
             CallShutdown(s) \/ CloseForShutdown(s) \/ OwnShutdown(s) \/ AbandonShutdown(s)
             \/ CloseState(s)
      PROVE  UNCHANGED call
  BY <1>3 DEF CallShutdown, CloseForShutdown, OwnShutdown, AbandonShutdown, CloseState, turnVars
<1>4. CASE OwnerStep
  BY <1>3, <1>4 DEF OwnerStep, JoinTasks, ShutdownAdapter, DrainSlots, CommitSlot,
         FailSlot, FinishSlot, SlotsSettled, UpgradeShutdown, turnVars
<1>5. CASE Finished \/ UNCHANGED vars
  BY <1>5 DEF Finished, vars, turnVars
<1>6. ASSUME NEW r \in Resumes, ResumeStep(r) PROVE UNCHANGED call
  BY <1>6, ResumeAside DEF turnVars
<1> QED
  BY <1>2, <1>3, <1>4, <1>5, <1>6 DEF Next

LEMMA NextNotYetTerminal ==
    ASSUME ForceCallers = {}, TurnInvariant, ReportKept, PublishInvariant, StableInvariant,
           [Next]_vars
    PROVE  NotYetTerminal'
<1>1. TurnInvariant' /\ ~AbortTasks
  BY NextTurnInvariant, Unforced
<1>2. NotYetTerminal
  BY DEF StableInvariant
<1>3. ASSUME NEW t \in Turns, deliveries'[t] = None PROVE terminals'[t] = None
  <2>1. deliveries[t] = None
    BY <1>3, RowsStay
  <2> QED
    BY <1>2, <2>1, RowWritten DEF NotYetTerminal
<1>4. ASSUME NEW c \in Calls, call'[c] \in Unwritten PROVE terminals'[TurnOf[c]] = None
  <2>1. TurnOf[c] \in Turns /\ None \notin Calls
    BY Names
  <2>2. terminals[TurnOf[c]] = None
    BY <1>1, <1>2, <1>4, <2>1, BecomesUnwritten DEF NotYetTerminal
  <2>3. deliveries'[TurnOf[c]] = c
    BY <1>1, <1>4 DEF TurnInvariant, DeliveryOwned, Undelivered, Unwritten
  <2>4. terminals'[TurnOf[c]] # terminals[TurnOf[c]] => c = deliveries[TurnOf[c]] /\ call'[c] \notin Unwritten
    BY <2>1, <2>3, RowWritten
  <2> QED
    BY <1>4, <2>2, <2>4
<1> QED
  BY <1>3, <1>4 DEF NotYetTerminal

\* Where slot, resumes, shutdown and row are as before, or gone, nothing new is
\* retained.
LEMMA RetainsKept ==
    ASSUME NEW t \in Turns, NEW o \in Outcome, Retains(t, o)',
           terminals'[t] = terminals[t],
           resume' = resume,
           \A w \in work' : w \in work,
           turns'[t] = "pendingTerminal" =>
              turns[t] = "pendingTerminal" /\ pending_terminal'[t] = pending_terminal[t]
    PROVE  Retains(t, o)
  BY DEF Retains

\* Nobody holds a terminal of a Turn that still executes.
LEMMA NothingRetained ==
    ASSUME TurnInvariant, StableInvariant, NEW c \in Calls, call[c] \in Unwritten \ {"committed"},
           NEW o, Retains(TurnOf[c], o)
    PROVE  FALSE
<1>1. /\ terminals[TurnOf[c]] = None
      /\ turns[TurnOf[c]] = "active"
      /\ work = {}
      /\ deliveries[TurnOf[c]] = c
  <2>1. terminals[TurnOf[c]] = None
    BY DEF StableInvariant, NotYetTerminal
  <2>2. turns[TurnOf[c]] = "active"
    BY DEF TurnInvariant, CallHoldsSlot, HoldsSlot, Executing, Unwritten
  <2>3. work = {}
    BY LiveNoWork DEF Live, Unwritten
  <2>4. deliveries[TurnOf[c]] = c
    BY DEF TurnInvariant, DeliveryOwned, Undelivered, Unwritten
  <2> QED
    BY <2>1, <2>2, <2>3, <2>4
<1>2. ~Resuming(TurnOf[c])
  BY <1>1 DEF Resuming, TurnInvariant, ResumeHolds, Unwritten
<1> QED
  BY <1>1, <1>2 DEF Retains, Resuming

\* The steps that put no terminal anywhere.
LEMMA RetainedAside ==
    ASSUME ForceCallers = {}, TurnInvariant, ReportKept, StableInvariant,
           \/ \E c \in Calls :
                 \/ BeginAdmission(c) \/ GiveUpAdmission(c) \/ Register(c) \/ CommitAcceptance(c)
                 \/ AcceptTurn(c) \/ InvokeTurn(c) \/ TakeStagedTerminal(c)
                 \/ \E o \in Outcome : StageTerminal(c, o)
                 \/ FailTerminal(c) \/ PublishTerminal(c)
           \/ \E s \in Shutdowns : \/ CallShutdown(s) \/ CloseForShutdown(s) \/ OwnShutdown(s)
                                   \/ AbandonShutdown(s) \/ CloseState(s)
           \/ JoinTasks \/ ShutdownAdapter \/ FinishSlot \/ SlotsSettled
           \/ \E w \in work : FailSlot(w)
           \/ UNCHANGED vars
    PROVE  RetainedAgree'
<1>1. /\ turns \in [Turns -> TurnPhase]
      /\ pending_terminal \in [Turns -> Outcome \cup {None}]
      /\ ~report.forced
  BY Typed, Unforced DEF TurnInvariant
<1> SUFFICES ASSUME NEW t \in Turns, NEW o \in Outcome, Retains(t, o)' PROVE Retains(t, o)
  BY DEF StableInvariant, RetainedAgree
<1>2. CASE \E c \in Calls :
             \/ BeginAdmission(c) \/ GiveUpAdmission(c) \/ Register(c) \/ CommitAcceptance(c)
             \/ AcceptTurn(c) \/ InvokeTurn(c) \/ TakeStagedTerminal(c)
             \/ \E p \in Outcome : StageTerminal(c, p)
             \/ FailTerminal(c) \/ PublishTerminal(c)
  <2>1. PICK c \in Calls :
             \/ BeginAdmission(c) \/ GiveUpAdmission(c) \/ Register(c) \/ CommitAcceptance(c)
             \/ AcceptTurn(c) \/ InvokeTurn(c) \/ TakeStagedTerminal(c)
             \/ \E p \in Outcome : StageTerminal(c, p)
             \/ FailTerminal(c) \/ PublishTerminal(c)
    BY <1>2
  <2>2. UNCHANGED <<terminals, resume, work>>
    BY <2>1 DEF BeginAdmission, GiveUpAdmission, Register, CommitAcceptance, AcceptTurn, InvokeTurn,
         StageTerminal, TakeStagedTerminal, FailTerminal, PublishTerminal, storeVars, shutdownVars
  <2>3. turns'[t] = "pendingTerminal" =>
           turns[t] = "pendingTerminal" /\ pending_terminal'[t] = pending_terminal[t]
    <3>0. TurnOf[c] \in Turns
      BY Names
    <3>1. CASE Register(c)
      BY <1>1, <3>0, <3>1 DEF Register, RegisterTurn
    <3>2. CASE AcceptTurn(c)
      BY <1>1, <3>0, <3>2 DEF AcceptTurn, MarkTurnAccepted, slotVars
    <3>3. CASE ~Register(c) /\ ~AcceptTurn(c)
      BY <2>1, <3>3 DEF BeginAdmission, GiveUpAdmission, CommitAcceptance, InvokeTurn,
         StageTerminal, TakeStagedTerminal, FailTerminal, PublishTerminal, runtimeVars, slotVars
    <3> QED
      BY <3>1, <3>2, <3>3
  <2> QED
    BY <2>2, <2>3, RetainsKept
<1>3. CASE ~(\E c \in Calls :
               \/ BeginAdmission(c) \/ GiveUpAdmission(c) \/ Register(c) \/ CommitAcceptance(c)
               \/ AcceptTurn(c) \/ InvokeTurn(c) \/ TakeStagedTerminal(c)
               \/ \E p \in Outcome : StageTerminal(c, p)
               \/ FailTerminal(c) \/ PublishTerminal(c))
  <2>1. UNCHANGED <<terminals, resume, turns, pending_terminal>>
    BY <1>1, <1>3 DEF CallShutdown, CloseForShutdown, CloseAdmission, OwnShutdown, AbandonShutdown,
         CloseState, JoinTasks, ShutdownAdapter, FinishSlot, SlotsSettled, FailSlot, vars,
         runtimeVars, slotVars, storeVars
  <2>2. \A w \in work' : w \in work
    BY <1>3 DEF CallShutdown, CloseForShutdown, OwnShutdown, AbandonShutdown, CloseState, JoinTasks,
         ShutdownAdapter, FinishSlot, SlotsSettled, FailSlot, vars, shutdownVars
  <2> QED
    BY <2>1, <2>2, RetainsKept
<1> QED
  BY <1>2, <1>3

\* A task settles: its slot goes, or retains the only terminal of the Turn.
LEMMA RetainedSettle ==
    ASSUME ForceCallers = {}, TurnInvariant, ReportKept, StableInvariant, NEW c \in Calls,
           RejectAcceptance(c) \/ SettleSlot(c) \/ PanicTurn(c)
    PROVE  RetainedAgree'
<1>1. /\ TypeOK /\ TurnOf[c] \in Turns
      /\ pending_terminal \in [Turns -> Outcome \cup {None}]
      /\ call[c] # "blocked"
  BY Names, Typed, Unforced DEF TurnInvariant
<1>2. PICK b \in CallState, x \in Outcome, retained \in BOOLEAN : SettleForm(c, b, x, retained)
  BY SettleForms
<1>3. UNCHANGED <<terminals, resume, work>>
  BY DEF RejectAcceptance, SettleSlot, PanicTurn, storeVars, shutdownVars
<1>4. \A u \in Turns : turns'[u] = IF u # TurnOf[c] THEN turns[u]
                                   ELSE IF ~retained \/ turns[u] = "absent" THEN "absent"
                                   ELSE "pendingTerminal"
  BY <1>1, <1>2, SettleEffect DEF SettleForm
<1>5. ASSUME NEW t \in Turns, t # TurnOf[c] \/ ~retained, NEW o \in Outcome, Retains(t, o)'
      PROVE  Retains(t, o)
  <2>1. turns'[t] = "pendingTerminal" =>
           turns[t] = "pendingTerminal" /\ pending_terminal'[t] = pending_terminal[t]
    BY <1>1, <1>2, <1>4, <1>5 DEF SettleForm
  <2> QED
    BY <1>3, <1>5, <2>1, RetainsKept
<1>6. ASSUME retained, NEW o \in Outcome, Retains(TurnOf[c], o)'
      PROVE  o = x
  <2>1. call[c] \in Unwritten \ {"committed"}
    BY <1>1, <1>2, <1>6 DEF SettleForm, Unwritten
  <2>2. turns[TurnOf[c]] = "active"
    BY <2>1 DEF TurnInvariant, CallHoldsSlot, HoldsSlot, Executing, Unwritten
  <2>3. pending_terminal'[TurnOf[c]] = x
    BY <1>1, <1>2, <1>6, <2>2 DEF SettleForm
  <2>4. ~Retains(TurnOf[c], o)
    BY <2>1, NothingRetained
  <2> QED
    BY <1>3, <1>6, <2>3, <2>4 DEF Retains
<1>7. ASSUME NEW t \in Turns, NEW o \in Outcome, NEW p \in Outcome, Retains(t, o)', Retains(t, p)'
      PROVE  o = p
  <2>1. CASE t # TurnOf[c] \/ ~retained
    BY <1>5, <1>7, <2>1 DEF StableInvariant, RetainedAgree
  <2>2. CASE t = TurnOf[c] /\ retained
    BY <1>6, <1>7, <2>2
  <2> QED
    BY <2>1, <2>2
<1> QED
  BY <1>7 DEF RetainedAgree

\* A commit makes durable what was retained, or the first terminal there is.
LEMMA RetainedCommit ==
    ASSUME TurnInvariant, PublishInvariant, StableInvariant,
           \/ \E c \in Calls : CommitTerminal(c)
           \/ \E w \in work : CommitSlot(w)
    PROVE  RetainedAgree'
<1>1. /\ terminals \in [Turns -> Outcome \cup {None}]
      /\ work \subseteq Slot
      /\ \A c \in Calls : TurnOf[c] \in Turns
  BY Typed, ShutdownTyped, Names DEF TurnInvariant
<1>2. UNCHANGED <<turns, pending_terminal, resume, work>>
  BY DEF CommitTerminal, CommitSlot, runtimeVars, slotVars, shutdownVars
<1>3. CASE \E w \in work : CommitSlot(w)
  <2>1. PICK w \in work : CommitSlot(w)
    BY <1>3
  <2>2. w.turn \in Turns /\ terminals' = [terminals EXCEPT ![w.turn] = w.terminal]
    BY <1>1, <2>1, SlotTyped DEF CommitSlot
  <2>3. \A t \in Turns : terminals'[t] # terminals[t] => t = w.turn /\ terminals'[t] = w.terminal
    BY <1>1, <2>2
  <2>4. ASSUME NEW t \in Turns, NEW o \in Outcome, Retains(t, o)' PROVE Retains(t, o)
    BY <1>2, <2>3, <2>4 DEF Retains
  <2> QED
    BY <2>4 DEF StableInvariant, RetainedAgree
<1>4. CASE \E c \in Calls : CommitTerminal(c)
  <2>1. PICK c \in Calls : CommitTerminal(c)
    BY <1>4
  <2>2. call[c] \in Unwritten \ {"committed"}
    BY <2>1 DEF CommitTerminal, Unwritten
  <2>3. \A t \in Turns : terminals'[t] = IF t = TurnOf[c] THEN staged[c] ELSE terminals[t]
    BY <1>1, <2>1 DEF CommitTerminal
  <2>4. ASSUME NEW o \in Outcome, Retains(TurnOf[c], o)' PROVE o = staged[c]
    <3>1. ~Retains(TurnOf[c], o)
      BY <2>2, NothingRetained
    <3> QED
      BY <1>1, <1>2, <2>3, <2>4, <3>1 DEF Retains
  <2>5. ASSUME NEW t \in Turns, t # TurnOf[c], NEW o \in Outcome, Retains(t, o)'
        PROVE  Retains(t, o)
    BY <1>2, <2>3, <2>5 DEF Retains
  <2> QED
    BY <2>4, <2>5 DEF StableInvariant, RetainedAgree
<1> QED
  BY <1>3, <1>4

\* A resume_turn clones what the slot retains and writes what it cloned.
LEMMA RetainedResume ==
    ASSUME TurnInvariant, StableInvariant, NEW r \in Resumes, ResumeStep(r)
    PROVE  RetainedAgree'
<1> DEFINE u == resume[r].turn
<1>1. /\ \A q \in Resumes \ {r} : resume'[q] = resume[q]
      /\ u \in Turns \/ resume[r].at = "idle"
      /\ resume'[r].at \in {"persisting", "persisted"} =>
            /\ u \in Turns /\ resume'[r].turn = u
            /\ \/ /\ resume[r].at \in {"persisting", "persisted"}
                  /\ resume'[r].terminal = resume[r].terminal
               \/ turns[u] = "pendingTerminal" /\ resume'[r].terminal = pending_terminal[u]
      /\ \A t \in Turns :
            \/ terminals'[t] = terminals[t]
            \/ /\ t = u /\ resume[r].at = "persisting"
               /\ terminals'[t] = resume[r].terminal
  BY ResumeEffect
<1>2. UNCHANGED <<work, pending_terminal>> /\ turns \in [Turns -> TurnPhase]
  BY ResumeAside, Typed DEF shutdownVars, TurnInvariant
<1>3. \A t \in Turns : turns'[t] = turns[t] \/ turns'[t] = "absent"
  <2>1. CASE ResumeRemove(r)
    <3>1. u \in Turns
      BY <2>1, <1>1 DEF ResumeRemove
    <3> QED
      BY <2>1, <3>1, <1>2 DEF ResumeRemove, RemovePendingTerminal
  <2>2. CASE ~ResumeRemove(r)
    BY <2>2 DEF ResumeStep, ResumeOpen, ResumePending, ResumeLive, ResumeRead, ResumeCommit,
         ResumeFail, runtimeVars
  <2> QED
    BY <2>1, <2>2
<1>4. ASSUME NEW t \in Turns, NEW o \in Outcome, Retains(t, o)' PROVE Retains(t, o)
  <2>1. CASE turns'[t] = "pendingTerminal" /\ o = pending_terminal'[t]
    BY <2>1, <1>2, <1>3 DEF Retains
  <2>2. CASE \E q \in Resumes : /\ resume'[q].at \in {"persisting", "persisted"}
                                /\ resume'[q].turn = t
                                /\ o = resume'[q].terminal
    <3>1. PICK q \in Resumes : /\ resume'[q].at \in {"persisting", "persisted"}
                               /\ resume'[q].turn = t
                               /\ o = resume'[q].terminal
      BY <2>2
    <3>2. CASE q = r
      BY <3>1, <3>2, <1>1 DEF Retains
    <3>3. CASE q # r
      BY <3>1, <3>3, <1>1 DEF Retains
    <3> QED
      BY <3>2, <3>3
  <2>3. CASE \E w \in work' : w.turn = t /\ o = w.terminal
    BY <2>3, <1>2 DEF Retains
  <2>4. CASE terminals'[t] # None /\ o = terminals'[t]
    BY <2>4, <1>1 DEF Retains
  <2> QED
    BY <1>4, <2>1, <2>2, <2>3, <2>4 DEF Retains
<1> QED
  BY <1>4 DEF StableInvariant, RetainedAgree

\* The drain of a graceful shutdown finds no Turn that never reached a terminal:
\* what it takes is what the slots retain.
LEMMA RetainedDrain ==
    ASSUME ForceCallers = {}, TurnInvariant, ReportKept, StableInvariant, DrainSlots
    PROVE  RetainedAgree'
<1>1. /\ TasksJoined /\ SlotOwned
      /\ slot_call \in [Turns -> Calls \cup {None}]
      /\ \A c \in Calls : call[c] \notin {"blocked", "aborted"}
  BY Typed, Unforced DEF TurnInvariant
<1>2. /\ stage = "drain"
      /\ turns' = [t \in Turns |-> "absent"]
      /\ UNCHANGED <<terminals, resume>>
      /\ work' = {[turn |-> t, call |-> slot_call[t], phase |-> turns[t],
                   terminal |-> IF pending_terminal[t] = None THEN "interrupted"
                                ELSE pending_terminal[t]] :
                     t \in {u \in Turns : turns[u] \in {"active", "pendingTerminal"}}}
  BY DEF DrainSlots, TakeTurnSlots, storeVars
<1>3. \A t \in Turns : turns[t] # "active"
  <2> SUFFICES ASSUME NEW t \in Turns, turns[t] = "active" PROVE FALSE
    OBVIOUS
  <2>1. slot_call[t] \in Calls /\ call[slot_call[t]] \in Executing \cup {"blocked", "aborted"}
    BY <1>1 DEF SlotOwned, SlotOf
  <2> QED
    BY <1>1, <1>2, <2>1 DEF TasksJoined, Executing, Live
<1>4. ASSUME NEW w \in work'
      PROVE  turns[w.turn] = "pendingTerminal" /\ w.terminal = pending_terminal[w.turn]
  <2>1. PICK t \in Turns : /\ turns[t] \in {"active", "pendingTerminal"} /\ w.turn = t
                           /\ w.terminal = IF pending_terminal[t] = None THEN "interrupted"
                                           ELSE pending_terminal[t]
    BY <1>2
  <2>2. turns[t] = "pendingTerminal" /\ pending_terminal[t] # None
    BY <1>1, <1>3, <2>1 DEF SlotOwned, SlotOf
  <2> QED
    BY <2>1, <2>2
<1>5. ASSUME NEW t \in Turns, NEW o \in Outcome, Retains(t, o)' PROVE Retains(t, o)
  BY <1>2, <1>4, <1>5 DEF Retains
<1> QED
  BY <1>5 DEF StableInvariant, RetainedAgree

LEMMA NextRetainedAgree ==
    ASSUME ForceCallers = {}, TurnInvariant, ReportKept, PublishInvariant, StableInvariant,
           [Next]_vars
    PROVE  RetainedAgree'
<1>1. /\ ~AbortTasks /\ ~UpgradeShutdown
      /\ \A c \in Calls : ~UnblockTurn(c)
  BY Unforced
<1>2. ASSUME NEW c \in Calls, StartTurnStep(c) PROVE RetainedAgree'
  BY <1>2, RetainedAside, RetainedSettle, RetainedCommit DEF StartTurnStep
<1>3. ASSUME NEW s \in Shutdowns,
             CallShutdown(s) \/ CloseForShutdown(s) \/ OwnShutdown(s) \/ AbandonShutdown(s)
      PROVE  RetainedAgree'
  BY <1>3, RetainedAside
<1>4. CASE OwnerStep
  BY <1>1, <1>4, RetainedAside, RetainedCommit, RetainedDrain DEF OwnerStep
<1>5. CASE Finished \/ UNCHANGED vars
  BY <1>5, RetainedAside DEF Finished
<1> QED
  BY <1>1, <1>2, <1>3, <1>4, <1>5, RetainedResume DEF Next

LEMMA NextResumeTold ==
    ASSUME ForceCallers = {}, TurnInvariant, ReportKept, PublishInvariant, StableInvariant,
           [Next]_vars
    PROVE  ResumeTold'
<1>1. /\ ResumeTold
      /\ None \notin Outcome
      /\ resume \in [Resumes -> ResumeRecord]
      /\ terminals \in [Turns -> Outcome \cup {None}]
  BY Typed, NoneIsNoOutcome DEF StableInvariant, TurnInvariant
<1>2. ASSUME NEW q \in Resumes, resume'[q] = resume[q]
      PROVE  /\ resume[q].at = "persisted" => terminals'[resume[q].turn] = resume[q].terminal
             /\ resume[q].at \in Outcome => terminals'[resume[q].turn] = resume[q].at
  <2>1. resume[q].at = "persisted" \/ resume[q].at \in Outcome => resume[q].turn \in Turns
    BY <1>1, ResumeTyped DEF TurnInvariant, ResumeHolds, Outcome
  <2>2. resume[q].at = "persisted" => resume[q].terminal # None
    BY DEF TurnInvariant, ResumeHolds
  <2> QED
    BY <1>1, <2>1, <2>2, RowWritten DEF ResumeTold
<1>3. ASSUME NEW r \in Resumes, ResumeStep(r)
      PROVE  ResumeTold'
  <2> DEFINE u == resume[r].turn
  <2>1. /\ \A q \in Resumes \ {r} : resume'[q] = resume[q]
        /\ resume'[r].at \in {"persisting", "persisted"} \cup Outcome =>
              u \in Turns /\ resume'[r].turn = u
        /\ resume'[r].at = "persisted" => terminals'[u] = resume'[r].terminal
        /\ resume'[r].at \in Outcome =>
              \/ resume'[r].at = terminals[u]
              \/ resume[r].at = "persisted" /\ resume'[r].at = resume[r].terminal
    BY <1>3, ResumeEffect
  <2> HIDE DEF u
  <2>2. resume'[r].at \in Outcome => resume'[r].at = terminals[u]
    BY <2>1, <1>1 DEF ResumeTold, u
  <2>3. resume'[r].at \in Outcome => resume'[r].at = terminals'[u]
    BY <1>1, <2>1, <2>2, RowWritten
  <2> QED
    BY <1>2, <2>1, <2>3 DEF ResumeTold
<1>4. CASE UNCHANGED resume
  BY <1>2, <1>4 DEF ResumeTold
<1>5. ASSUME NEW s \in Shutdowns,
             CallShutdown(s) \/ CloseForShutdown(s) \/ OwnShutdown(s) \/ AbandonShutdown(s)
             \/ CloseState(s)
      PROVE  UNCHANGED resume
  BY <1>5 DEF CallShutdown, CloseForShutdown, OwnShutdown, AbandonShutdown, CloseState
<1>6. ASSUME NEW c \in Calls, StartTurnStep(c) \/ UnblockTurn(c)
      PROVE  UNCHANGED resume
  BY <1>6 DEF StartTurnStep, UnblockTurn, BeginAdmission, GiveUpAdmission, Register, CommitAcceptance,
         RejectAcceptance, AcceptTurn, InvokeTurn, StageTerminal, TakeStagedTerminal, CommitTerminal,
         FailTerminal, SettleSlot, PublishTerminal, PanicTurn
<1>7. OwnerStep \/ Finished \/ UNCHANGED vars => UNCHANGED resume
  BY <1>5 DEF OwnerStep, JoinTasks, ShutdownAdapter, AbortTasks, DrainSlots, CommitSlot,
         FailSlot, FinishSlot, SlotsSettled, UpgradeShutdown, Finished, vars
<1> QED
  BY <1>3, <1>4, <1>5, <1>6, <1>7 DEF Next

LEMMA NextNobodyAborted ==
    ASSUME ForceCallers = {}, TurnInvariant, ReportKept, StableInvariant, [Next]_vars,
           NEW c \in Calls
    PROVE  call'[c] # "aborted"
<1>1. /\ ~AbortTasks /\ ~UpgradeShutdown /\ call \in [Calls -> CallState]
      /\ \A d \in Calls : ~UnblockTurn(d)
      /\ call[c] # "aborted"
  BY Unforced, Typed DEF TurnInvariant
<1>2. ASSUME NEW d \in Calls, StartTurnStep(d)
      PROVE  call'[c] # "aborted"
  <2> USE <1>1 DEF Goto
  <2>1. CASE BeginAdmission(d) \/ GiveUpAdmission(d) \/ Register(d)
    BY <2>1 DEF BeginAdmission, GiveUpAdmission, Register
  <2>2. CASE CommitAcceptance(d) \/ RejectAcceptance(d) \/ AcceptTurn(d)
    BY <2>2 DEF CommitAcceptance, RejectAcceptance, AcceptTurn
  <2>3. CASE InvokeTurn(d) \/ TakeStagedTerminal(d) \/ (\E o \in Outcome : StageTerminal(d, o))
    BY <2>3 DEF InvokeTurn, StageTerminal, TakeStagedTerminal
  <2>4. CASE CommitTerminal(d) \/ FailTerminal(d) \/ SettleSlot(d)
    BY <2>4 DEF CommitTerminal, FailTerminal, SettleSlot
  <2>5. CASE PublishTerminal(d) \/ PanicTurn(d)
    BY <2>5 DEF PublishTerminal, PanicTurn
  <2> QED
    BY <1>2, <2>1, <2>2, <2>3, <2>4, <2>5 DEF StartTurnStep
<1>3. ASSUME NEW s \in Shutdowns,
             CallShutdown(s) \/ CloseForShutdown(s) \/ OwnShutdown(s) \/ AbandonShutdown(s)
             \/ CloseState(s)
      PROVE  UNCHANGED call
  BY <1>3 DEF CallShutdown, CloseForShutdown, OwnShutdown, AbandonShutdown, CloseState, turnVars
<1>4. OwnerStep \/ Finished \/ UNCHANGED vars => UNCHANGED call
  BY <1>1, <1>3 DEF OwnerStep, JoinTasks, ShutdownAdapter, DrainSlots, CommitSlot,
         FailSlot, FinishSlot, SlotsSettled, Finished, vars, turnVars
<1>5. ASSUME NEW r \in Resumes, ResumeStep(r) PROVE UNCHANGED call
  BY <1>5, ResumeAside DEF turnVars
<1> QED
  BY <1>1, <1>2, <1>3, <1>4, <1>5 DEF Next

LEMMA InitStableInvariant == Init => StableInvariant
<1> SUFFICES ASSUME Init PROVE StableInvariant
  OBVIOUS
<1>1. /\ turns = [t \in Turns |-> "absent"]
      /\ call = [c \in Calls |-> "idle"]
      /\ deliveries = [t \in Turns |-> None]
      /\ terminals = [t \in Turns |-> None]
      /\ resume = [r \in Resumes |-> [at |-> "idle", turn |-> None, terminal |-> None]]
      /\ work = {}
  BY DEF Init, RuntimeInit
<1>2. \A r \in Resumes : resume[r].at = "idle"
  BY <1>1
<1>3. \A t \in Turns, o \in Outcome : ~Retains(t, o)
  BY <1>1, <1>2 DEF Retains
<1>4. NotYetTerminal
  BY <1>1, Names DEF NotYetTerminal
<1>5. ResumeTold
  BY <1>2 DEF ResumeTold, Outcome
<1> QED
  BY <1>1, <1>3, <1>4, <1>5 DEF StableInvariant, RetainedAgree

LEMMA StableInvariantHolds ==
    ASSUME ForceCallers = {}
    PROVE  Spec => [](TurnInvariant /\ ReportKept /\ PublishInvariant /\ StableInvariant)
<1>1. Init => StableInvariant
  BY InitStableInvariant
<1>2. TurnInvariant /\ ReportKept /\ PublishInvariant /\ StableInvariant /\ [Next]_vars
         => StableInvariant'
  <2> SUFFICES ASSUME TurnInvariant, ReportKept, PublishInvariant, StableInvariant, [Next]_vars
               PROVE  StableInvariant'
    OBVIOUS
  <2>1. \A c \in Calls : call'[c] # "aborted"
    BY NextNobodyAborted
  <2> QED
    BY <2>1, NextRetainedAgree, NextNotYetTerminal, NextResumeTold DEF StableInvariant
<1>3. Spec => [](TurnInvariant /\ ReportKept /\ PublishInvariant)
  BY PublishInvariantHolds
<1> QED
  BY <1>1, <1>2, <1>3, PTL DEF Spec

\* Without a forced shutdown a committed terminal row is never changed, whichever
\* retries of resume_turn and of graceful shutdowns meet, given up ones included.
\* (With one it is: the run ForcedAbort shows how.)
THEOREM TerminalStable ==
    ASSUME ForceCallers = {}
    PROVE  Spec => CommittedTerminalStable
<1>1. TurnInvariant /\ ReportKept /\ PublishInvariant /\ StableInvariant /\ [Next]_vars
         => [\A t \in Turns : terminals[t] # None => terminals'[t] = terminals[t]]_vars
  BY RowWritten
<1> QED
  BY <1>1, StableInvariantHolds, PTL DEF Spec, CommittedTerminalStable

\* Without a forced shutdown an outcome that resume_turn answered is the durable
\* row, and stays it.
THEOREM ResumeAnswersDurable ==
    ASSUME ForceCallers = {}
    PROVE  Spec => []ResumedOutcomeDurable
<1>1. StableInvariant => ResumedOutcomeDurable
  BY DEF StableInvariant, ResumeTold, ResumedOutcomeDurable
<1> QED
  BY <1>1, StableInvariantHolds, PTL

-----------------------------------------------------------------------------
(* A clean shutdown left no accepted Turn without its terminal *)

\* No shutdown is begun anew: nobody forces one, and one that a caller gives up at
\* its deadline was the only one.  A shutdown that is given up, or upgraded, drops
\* the slots it has taken, and the next one does not find them.
NotRestarted == ForceCallers = {} /\ (DeadlineCallers = {} \/ \A s, q \in Shutdowns : s = q)

\* Somebody has, or will have, the terminal of an accepted Turn.
Covered(t) ==
    \/ terminals[t] # None
    \/ call[deliveries[t]] = "committed"
    \/ turns[t] \in {"active", "pendingTerminal"}
    \/ \E w \in work : w.turn = t
    \/ t \in report.failures
    \/ GivenUp

CoverInvariant ==
    /\ \A t \in Turns : deliveries[t] # None => Covered(t)
    /\ stage \in {"none", "join", "adapter"} => report.failures = {} \/ GivenUp
    /\ inflight # None => terminals[inflight.turn] # None
    /\ \A s \in Shutdowns : shutdown[s] = "abandoned" => s \in DeadlineCallers /\ stage = "none"
    /\ stage = "complete" => \E s \in Shutdowns : shutdown[s] = "done"

\* The steps of calls and resumes leave shutdowns alone.
LEMMA ShutdownAside ==
    ASSUME TurnInvariant,
           \/ \E c \in Calls : StartTurnStep(c) \/ UnblockTurn(c)
           \/ \E r \in Resumes : ResumeStep(r)
           \/ Finished \/ UNCHANGED vars
    PROVE  UNCHANGED <<shutdown, stage, work, inflight, report>>
<1>1. CASE \E c \in Calls : StartTurnStep(c) \/ UnblockTurn(c)
  BY <1>1, NobodyBlocks DEF shutdownVars
<1>2. CASE \E r \in Resumes : ResumeStep(r)
  BY <1>2, ResumeAside DEF shutdownVars
<1>3. CASE Finished \/ UNCHANGED vars
  BY <1>3 DEF Finished, vars, shutdownVars
<1> QED
  BY <1>1, <1>2, <1>3

\* The steps of callers and owners leave the calls and the slots alone, but for the
\* abort and the drain.
LEMMA TurnsAside ==
    ASSUME \/ \E s \in Shutdowns :
                 CallShutdown(s) \/ CloseForShutdown(s) \/ OwnShutdown(s) \/ AbandonShutdown(s)
           \/ OwnerStep,
           ~AbortTasks
    PROVE  /\ UNCHANGED <<call, deliveries, resume>>
           /\ UNCHANGED turns \/ DrainSlots
<1>1. UNCHANGED <<call, deliveries, resume>>
  BY DEF CallShutdown, CloseForShutdown, OwnShutdown, AbandonShutdown, OwnerStep, JoinTasks,
         ShutdownAdapter, DrainSlots, CommitSlot, FailSlot, FinishSlot, SlotsSettled, CloseState,
         UpgradeShutdown, turnVars, storeVars
<1>2. UNCHANGED turns \/ DrainSlots
  BY DEF CallShutdown, CloseForShutdown, CloseAdmission, OwnShutdown, AbandonShutdown, OwnerStep,
         JoinTasks, ShutdownAdapter, CommitSlot, FailSlot, FinishSlot, SlotsSettled, CloseState,
         UpgradeShutdown, runtimeVars
<1> QED
  BY <1>1, <1>2

\* What a step of a shutdown does to it: a slot it lets go is in the report, was
\* committed, or the shutdown is given up.
ShutdownGoes ==
    /\ GivenUp => GivenUp'
    /\ report.failures \subseteq report'.failures \/ GivenUp'
    /\ \A w \in work : \/ w \in work' \/ (w = inflight /\ inflight # None)
                       \/ w.turn \in report'.failures \/ GivenUp'
    /\ stage' \in {"none", "join", "adapter"} => report'.failures = {} \/ GivenUp'
    /\ \/ inflight' \in {inflight, None}
       \/ \E w \in work : inflight' = w /\ terminals'[w.turn] # None
    /\ \A s \in Shutdowns : shutdown'[s] = "abandoned" => s \in DeadlineCallers /\ stage' = "none"
    /\ stage' = "complete" => \E s \in Shutdowns : shutdown'[s] = "done"

\* A shutdown that was given up was the last.
LEMMA GivenUpLast ==
    ASSUME NotRestarted, CoverInvariant, GivenUp
    PROVE  /\ \A s \in Shutdowns : ~CallShutdown(s) /\ ~CloseForShutdown(s) /\ ~OwnShutdown(s)
                                   /\ ~AbandonShutdown(s)
           /\ ~OwnerStep
<1>1. \A s \in Shutdowns : shutdown[s] = "abandoned"
  BY DEF NotRestarted, CoverInvariant, GivenUp
<1>2. stage = "none"
  BY DEF CoverInvariant, GivenUp
<1>3. \A s \in Shutdowns : ~CallShutdown(s) /\ ~CloseForShutdown(s) /\ ~OwnShutdown(s)
                           /\ ~AbandonShutdown(s)
  BY <1>1 DEF CallShutdown, CloseForShutdown, OwnShutdown, AbandonShutdown
<1>4. ~OwnerStep
  BY <1>2 DEF OwnerStep, JoinTasks, ShutdownAdapter, AbortTasks, DrainSlots, CommitSlot, FailSlot,
         FinishSlot, SlotsSettled, CloseState, UpgradeShutdown
<1> QED
  BY <1>3, <1>4

LEMMA CallerGoes ==
    ASSUME NotRestarted, TurnInvariant, ReportKept, StableInvariant, CoverInvariant,
           NEW s \in Shutdowns,
           CallShutdown(s) \/ CloseForShutdown(s) \/ OwnShutdown(s) \/ AbandonShutdown(s)
    PROVE  ShutdownGoes
<1>1. /\ shutdown \in [Shutdowns -> ShutdownState]
      /\ AdmissionClosed
      /\ ~force_requested
  BY Typed, Unforced DEF TurnInvariant, NotRestarted
<1>2. \A q \in Shutdowns : shutdown[q] # "abandoned"
  BY GivenUpLast DEF GivenUp
<1>3. CASE CallShutdown(s) \/ CloseForShutdown(s)
  <2>1. UNCHANGED <<stage, work, inflight, report>>
    BY <1>3 DEF CallShutdown, CloseForShutdown
  <2>2. /\ \A q \in Shutdowns \ {s} : shutdown'[q] = shutdown[q]
        /\ shutdown[s] # "done" /\ shutdown'[s] # "abandoned"
    BY <1>1, <1>3 DEF CallShutdown, CloseForShutdown
  <2> QED
    BY <1>2, <2>1, <2>2 DEF ShutdownGoes, CoverInvariant, GivenUp
<1>4. CASE OwnShutdown(s)
  <2>1. UNCHANGED <<work, inflight>>
    BY <1>4 DEF OwnShutdown
  <2>2. /\ \A q \in Shutdowns \ {s} : shutdown'[q] = shutdown[q]
        /\ shutdown[s] # "done" /\ shutdown'[s] # "abandoned"
    BY <1>1, <1>4 DEF OwnShutdown
  <2>3. CASE stage = "complete"
    <3>1. UNCHANGED <<stage, report>>
      BY <1>4, <2>3 DEF OwnShutdown
    <3> QED
      BY <1>2, <2>1, <2>2, <3>1 DEF ShutdownGoes, CoverInvariant, GivenUp
  <2>4. CASE stage # "complete"
    <3>1. stage = "none"
      BY <1>1, <1>4, <2>4 DEF OwnShutdown, AdmissionClosed
    <3>2. report.failures = {}
      BY <1>2, <3>1 DEF CoverInvariant, GivenUp
    <3>3. report' = NewReport(force_requested) /\ stage' = "join"
      BY <1>1, <1>4, <2>4 DEF OwnShutdown
    <3>4. report'.failures = {}
      BY <3>3 DEF NewReport
    <3> QED
      BY <1>2, <2>1, <2>2, <3>2, <3>3, <3>4 DEF ShutdownGoes, GivenUp
  <2> QED
    BY <2>3, <2>4
<1>5. CASE AbandonShutdown(s)
  <2>1. /\ s \in DeadlineCallers /\ shutdown[s] \in {"closing", "locking", "owner"}
        /\ shutdown' = [shutdown EXCEPT ![s] = "abandoned"]
    BY <1>5 DEF AbandonShutdown
  <2>2. GivenUp'
    BY <1>1, <2>1 DEF GivenUp
  <2>3. \A q \in Shutdowns : q = s
    BY <2>1 DEF NotRestarted
  <2>4. stage' = "none"
    <3>1. CASE shutdown[s] = "owner"
      BY <1>5, <3>1 DEF AbandonShutdown
    <3>2. CASE shutdown[s] # "owner"
      <4>1. stage = "none"
        BY <1>1, <2>1, <2>3, <3>2 DEF AdmissionClosed, CoverInvariant
      <4> QED
        BY <1>5, <3>2, <4>1 DEF AbandonShutdown
    <3> QED
      BY <3>1, <3>2
  <2>5. inflight' \in {inflight, None}
    BY <1>5 DEF AbandonShutdown
  <2> QED
    BY <2>1, <2>2, <2>3, <2>4, <2>5 DEF ShutdownGoes
<1> QED
  BY <1>3, <1>4, <1>5

LEMMA OwnerGoes ==
    ASSUME NotRestarted, TurnInvariant, ReportKept, StableInvariant, CoverInvariant, OwnerStep
    PROVE  ShutdownGoes
<1>1. /\ shutdown \in [Shutdowns -> ShutdownState]
      /\ report \in ReportRecord
      /\ work \subseteq Slot
      /\ terminals \in [Turns -> Outcome \cup {None}]
      /\ TasksJoined
      /\ None \notin Outcome
      /\ ~AbortTasks /\ ~UpgradeShutdown /\ ~report.forced
  BY ShutdownTyped, Typed, Unforced, NoneIsNoOutcome DEF TurnInvariant, NotRestarted
<1>2. \A q \in Shutdowns : shutdown[q] # "abandoned"
  BY GivenUpLast DEF GivenUp
<1>3. ASSUME NEW q \in Shutdowns, CloseState(q) PROVE ShutdownGoes
  <2>1. PICK a : report' = [report EXCEPT !.state_close = a]
    BY <1>3 DEF CloseState
  <2>2. report'.failures = report.failures
    BY <1>1, <2>1 DEF ReportRecord
  <2>3. /\ stage' = "complete" /\ UNCHANGED <<work, inflight>>
        /\ shutdown' = [shutdown EXCEPT ![q] = "done"]
    BY <1>3 DEF CloseState
  <2> QED
    BY <1>1, <1>2, <2>2, <2>3 DEF ShutdownGoes, GivenUp
<1>4. ASSUME NEW w \in work, FailSlot(w) PROVE ShutdownGoes
  <2>1. /\ report' = [report EXCEPT !.failures = @ \cup {w.turn}]
        /\ work' = work \ {w} /\ UNCHANGED <<stage, shutdown, inflight>> /\ stage = "persist"
    BY <1>4 DEF FailSlot
  <2>2. report'.failures = report.failures \cup {w.turn}
    BY <1>1, <2>1 DEF ReportRecord
  <2> QED
    BY <1>2, <2>1, <2>2 DEF ShutdownGoes, GivenUp
<1>5. ASSUME NEW w \in work, CommitSlot(w) PROVE ShutdownGoes
  <2>1. /\ inflight' = w /\ UNCHANGED <<stage, shutdown, work, report>> /\ stage = "persist"
        /\ terminals' = [terminals EXCEPT ![w.turn] = w.terminal]
    BY <1>5 DEF CommitSlot
  <2>2. terminals'[w.turn] # None
    BY <1>1, <2>1, SlotTyped
  <2> QED
    BY <1>2, <2>1, <2>2 DEF ShutdownGoes, GivenUp
<1>6. CASE ShutdownAdapter
  <2>1. PICK a : report' = [report EXCEPT !.adapter = a]
    BY <1>6 DEF ShutdownAdapter
  <2>2. report'.failures = report.failures
    BY <1>1, <2>1 DEF ReportRecord
  <2>3. /\ stage' = "drain" /\ UNCHANGED <<shutdown, work, inflight>>
    BY <1>1, <1>6 DEF ShutdownAdapter
  <2> QED
    BY <1>2, <2>2, <2>3 DEF ShutdownGoes, GivenUp
<1>7. CASE FinishSlot
  <2>1. /\ work' = work \ {inflight} /\ inflight' = None /\ inflight # None /\ stage = "persist"
        /\ UNCHANGED <<stage, shutdown, report>>
    BY <1>7 DEF FinishSlot
  <2> QED
    BY <1>2, <2>1 DEF ShutdownGoes, GivenUp
<1>8. CASE DrainSlots
  <2>1. stage = "drain" /\ stage' = "persist" /\ UNCHANGED <<shutdown, report, inflight>>
    BY <1>8 DEF DrainSlots
  <2>2. work = {}
    BY <1>1, <2>1 DEF TasksJoined
  <2> QED
    BY <1>2, <2>1, <2>2 DEF ShutdownGoes, GivenUp
<1>9. CASE JoinTasks \/ SlotsSettled
  <2>1. /\ UNCHANGED <<shutdown, work, inflight, report>>
        /\ \/ stage = "join" /\ stage' = "adapter"
           \/ stage' = "close"
    BY <1>1, <1>9 DEF JoinTasks, SlotsSettled
  <2> QED
    BY <1>2, <2>1 DEF ShutdownGoes, CoverInvariant, GivenUp
<1> QED
  BY <1>1, <1>3, <1>4, <1>5, <1>6, <1>7, <1>8, <1>9 DEF OwnerStep

\* The slot of an accepted Turn goes only when its terminal is durable, or with the
\* drain.
LEMMA SlotLeft ==
    ASSUME TurnInvariant, PublishInvariant, StableInvariant, [Next]_vars, ~AbortTasks, ~DrainSlots,
           NEW t \in Turns, turns[t] \in {"active", "pendingTerminal"}
    PROVE  turns'[t] \in {"active", "pendingTerminal"} \/ terminals[t] # None
<1>1. /\ TypeOK /\ turns \in [Turns -> TurnPhase]
      /\ \A c \in Calls : TurnOf[c] \in Turns
  BY Typed, Names DEF TurnInvariant
<1>2. ASSUME NEW c \in Calls, RejectAcceptance(c) \/ SettleSlot(c) \/ PanicTurn(c)
      PROVE  turns'[t] \in {"active", "pendingTerminal"} \/ terminals[t] # None
  <2>1. PICK b \in CallState, o \in Outcome, retained \in BOOLEAN : SettleForm(c, b, o, retained)
    BY <1>2, SettleForms
  <2>2. \A u \in Turns : turns'[u] = IF u # TurnOf[c] THEN turns[u]
                                     ELSE IF ~retained \/ turns[u] = "absent" THEN "absent"
                                     ELSE "pendingTerminal"
    BY <1>1, <2>1, SettleEffect DEF SettleForm
  <2>3. CASE t # TurnOf[c] \/ retained
    BY <2>2, <2>3
  <2>4. CASE t = TurnOf[c] /\ ~retained
    <3>1. call[c] \in {"registered", "persisted"}
      BY <2>1, <2>4 DEF SettleForm
    <3>2. call[c] # "registered"
      BY <2>4 DEF TurnInvariant, CallHoldsSlot, HoldsSlot
    <3>3. staged[c] # None /\ terminals[t] = staged[c]
      BY <2>4, <3>1, <3>2 DEF TurnInvariant, StagedKept, PublishInvariant, TerminalFrozen
    <3> QED
      BY <3>3
  <2> QED
    BY <2>3, <2>4
<1>3. ASSUME NEW c \in Calls, StartTurnStep(c) \/ UnblockTurn(c)
      PROVE  turns'[t] \in {"active", "pendingTerminal"} \/ terminals[t] # None
  <2>1. CASE Register(c)
    BY <1>1, <2>1 DEF Register, RegisterTurn
  <2>2. CASE AcceptTurn(c)
    BY <1>1, <2>2 DEF AcceptTurn, MarkTurnAccepted
  <2>3. CASE ~(Register(c) \/ AcceptTurn(c) \/ RejectAcceptance(c) \/ SettleSlot(c) \/ PanicTurn(c))
    BY <1>3, <2>3 DEF StartTurnStep, UnblockTurn, BeginAdmission, GiveUpAdmission, CommitAcceptance,
         InvokeTurn, StageTerminal, TakeStagedTerminal, CommitTerminal, FailTerminal,
         PublishTerminal, runtimeVars
  <2> QED
    BY <1>2, <2>1, <2>2, <2>3
<1>4. ASSUME NEW r \in Resumes, ResumeStep(r)
      PROVE  turns'[t] \in {"active", "pendingTerminal"} \/ terminals[t] # None
  <2>1. CASE ResumeRemove(r)
    <3>1. resume[r].terminal # None /\ terminals[resume[r].turn] = resume[r].terminal
      BY <2>1 DEF ResumeRemove, TurnInvariant, ResumeHolds, StableInvariant, ResumeTold
    <3>2. t # resume[r].turn => turns'[t] = turns[t]
      BY <1>1, <2>1 DEF ResumeRemove, RemovePendingTerminal
    <3> QED
      BY <3>1, <3>2
  <2>2. CASE ~ResumeRemove(r)
    BY <1>4, <2>2 DEF ResumeStep, ResumeOpen, ResumePending, ResumeLive, ResumeRead, ResumeCommit,
         ResumeFail, runtimeVars
  <2> QED
    BY <2>1, <2>2
<1>5. CASE \/ \E s \in Shutdowns :
                 CallShutdown(s) \/ CloseForShutdown(s) \/ OwnShutdown(s) \/ AbandonShutdown(s)
           \/ OwnerStep
  BY <1>5, TurnsAside
<1>6. CASE Finished \/ UNCHANGED vars
  BY <1>6 DEF Finished, vars, runtimeVars
<1> QED
  BY <1>3, <1>4, <1>5, <1>6 DEF Next

\* A committed acceptance becomes public.
LEMMA CommittedLeft ==
    ASSUME TurnInvariant, [Next]_vars, ~AbortTasks,
           NEW t \in Turns, deliveries[t] # None, call[deliveries[t]] = "committed"
    PROVE  call'[deliveries[t]] = "committed" \/ turns'[t] = "active"
<1> DEFINE c == deliveries[t]
<1>1. /\ call \in [Calls -> CallState] /\ turns \in [Turns -> TurnPhase]
      /\ c \in Calls /\ TurnOf[c] = t
  BY Typed DEF TurnInvariant, DeliveryOwned
<1> HIDE DEF c
<1>2. ASSUME NEW d \in Calls, StartTurnStep(d) \/ UnblockTurn(d)
      PROVE  call'[c] = "committed" \/ turns'[t] = "active"
  <2>1. CASE d # c
    <3>1. \E b \in CallState \ {"blocked"} : call' = [call EXCEPT ![d] = b]
      BY <1>2, TaskMoves
    <3> QED
      BY <1>1, <2>1, <3>1 DEF c
  <2>2. CASE d = c
    <3>1. AcceptTurn(c)
      BY <1>2, <2>2 DEF c, StartTurnStep, UnblockTurn, BeginAdmission, GiveUpAdmission, Register,
         CommitAcceptance, RejectAcceptance, InvokeTurn, StageTerminal, TakeStagedTerminal,
         CommitTerminal, FailTerminal, SettleSlot, PublishTerminal, PanicTurn
    <3> QED
      BY <1>1, <3>1 DEF AcceptTurn, MarkTurnAccepted
  <2> QED
    BY <2>1, <2>2
<1>3. ASSUME NEW r \in Resumes, ResumeStep(r) PROVE UNCHANGED call
  BY <1>3, ResumeAside DEF turnVars
<1>4. CASE \/ \E s \in Shutdowns :
                 CallShutdown(s) \/ CloseForShutdown(s) \/ OwnShutdown(s) \/ AbandonShutdown(s)
           \/ OwnerStep
  BY <1>4, TurnsAside DEF c
<1>5. CASE Finished \/ UNCHANGED vars
  BY <1>5 DEF Finished, vars, turnVars, c
<1> QED
  BY <1>2, <1>3, <1>4, <1>5 DEF Next, c

LEMMA NextCoverInvariant ==
    ASSUME NotRestarted, TurnInvariant, ReportKept, PublishInvariant, StableInvariant,
           CoverInvariant, [Next]_vars
    PROVE  CoverInvariant'
<1>1. /\ ForceCallers = {} /\ ~AbortTasks /\ TasksJoined
      /\ work \subseteq Slot /\ inflight \in Slot \cup {None}
      /\ deliveries \in [Turns -> Calls \cup {None}]
      /\ None \notin Outcome
  BY Unforced, ShutdownTyped, Typed, NoneIsNoOutcome DEF NotRestarted, TurnInvariant
<1>2. ShutdownGoes \/ UNCHANGED <<shutdown, stage, work, inflight, report>>
  BY CallerGoes, OwnerGoes, ShutdownAside DEF Next
<1>3. ShutdownGoes
  BY <1>2 DEF ShutdownGoes, CoverInvariant, GivenUp
<1>4. \A t \in Turns : terminals[t] # None => terminals'[t] # None
  BY <1>1, RowWritten
<1>5. inflight' # None => terminals'[inflight'.turn] # None
  <2>1. CASE inflight' \in {inflight, None}
    <3>1. inflight # None => inflight.turn \in Turns /\ terminals[inflight.turn] # None
      BY <1>1, SlotTyped DEF CoverInvariant
    <3> QED
      BY <2>1, <3>1, <1>4
  <2>2. CASE ~(inflight' \in {inflight, None})
    BY <1>3, <2>2 DEF ShutdownGoes
  <2> QED
    BY <2>1, <2>2
<1>6. ASSUME NEW t \in Turns, deliveries'[t] # None PROVE Covered(t)'
  <2>1. CASE deliveries[t] = None
    <3>1. PICK c \in Calls : CommitAcceptance(c)
      BY <1>6, <2>1, NewDelivery
    <3>2. deliveries'[t] = c /\ call'[c] = "committed"
      BY <3>1, <1>1, <1>6, <2>1, Typed DEF CommitAcceptance, Goto, TurnInvariant
    <3> QED
      BY <3>2 DEF Covered
  <2>2. CASE deliveries[t] # None
    <3>1. Covered(t) /\ deliveries'[t] = deliveries[t]
      BY <2>2, RowsStay DEF CoverInvariant
    <3>2. CASE terminals[t] # None
      BY <3>2, <1>4 DEF Covered
    <3>3. CASE call[deliveries[t]] = "committed"
      BY <1>1, <2>2, <3>1, <3>3, CommittedLeft DEF Covered
    <3>4. CASE turns[t] \in {"active", "pendingTerminal"} /\ ~DrainSlots
      BY <1>1, <1>4, <3>4, SlotLeft DEF Covered
    <3>5. CASE turns[t] \in {"active", "pendingTerminal"} /\ DrainSlots
      <4>1. \E w \in work' : w.turn = t
        <5> DEFINE x == [turn |-> t, call |-> slot_call[t], phase |-> turns[t],
                         terminal |-> IF pending_terminal[t] = None THEN "interrupted"
                                      ELSE pending_terminal[t]]
        <5>1. x \in work'
          BY <3>5 DEF DrainSlots
        <5>2. x.turn = t
          OBVIOUS
        <5> QED
          BY <5>1, <5>2
      <4> QED
        BY <4>1 DEF Covered
    <3>6. CASE \E w \in work : w.turn = t
      <4>1. PICK w \in work : w.turn = t
        BY <3>6
      <4>2. w = inflight /\ inflight # None => terminals[t] # None
        BY <4>1 DEF CoverInvariant
      <4> QED
        BY <1>3, <1>4, <4>1, <4>2 DEF ShutdownGoes, Covered
    <3>7. CASE t \in report.failures \/ GivenUp
      BY <1>3, <3>7 DEF ShutdownGoes, Covered
    <3> QED
      BY <3>1, <3>2, <3>3, <3>4, <3>5, <3>6, <3>7 DEF Covered
  <2> QED
    BY <2>1, <2>2
<1> QED
  BY <1>3, <1>5, <1>6 DEF ShutdownGoes, CoverInvariant

LEMMA InitCoverInvariant == Init => CoverInvariant
  BY DEF Init, NewReport, CoverInvariant, GivenUp

LEMMA CoverInvariantHolds ==
    ASSUME NotRestarted
    PROVE  Spec => [](TurnInvariant /\ CoverInvariant)
<1>1. TurnInvariant /\ ReportKept /\ PublishInvariant /\ StableInvariant /\ CoverInvariant /\ [Next]_vars
         => CoverInvariant'
  BY NextCoverInvariant
<1>2. Spec => [](TurnInvariant /\ ReportKept /\ PublishInvariant /\ StableInvariant)
  <2>1. ForceCallers = {}
    BY DEF NotRestarted
  <2> QED
    BY <2>1, StableInvariantHolds
<1> QED
  BY <1>1, <1>2, InitCoverInvariant, PTL DEF Spec

\* A shutdown that nobody forces, and that is not begun anew, reports itself clean
\* only when every accepted Turn has its durable terminal: for any number of
\* callers, calls, panics and failures of the store.
THEOREM CleanMeansDurable ==
    ASSUME NotRestarted
    PROVE  Spec => []CleanShutdownDurable
<1>1. TurnInvariant /\ CoverInvariant => CleanShutdownDurable
  <2> SUFFICES ASSUME TurnInvariant, CoverInvariant, stage = "complete", IsClean,
                      NEW t \in Turns, deliveries[t] # None
               PROVE  terminals[t] # None
    BY DEF CleanShutdownDurable
  <2>1. deliveries[t] \in Calls
    BY Typed DEF TurnInvariant
  <2>2. call[deliveries[t]] # "committed"
    BY <2>1 DEF TurnInvariant, TasksJoined, Live
  <2>3. turns[t] = "absent" /\ work = {}
    BY DEF TurnInvariant, TasksJoined
  <2>4. t \notin report.failures /\ ~GivenUp
    BY DEF IsClean, CoverInvariant, GivenUp
  <2> QED
    BY <2>2, <2>3, <2>4 DEF CoverInvariant, Covered
<1> QED
  BY <1>1, CoverInvariantHolds, PTL
=============================================================================
