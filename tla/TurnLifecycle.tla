---------------------------- MODULE TurnLifecycle ----------------------------
(***************************************************************************)
(* A Framework Turn from start_turn to its authoritative terminal          *)
(* (crates/psychevo/src/application/turn.rs, turn_completion.rs), the      *)
(* durable rows it leaves in the store, resume_turn, and graceful and      *)
(* forced shutdown of the Application (lifecycle.rs).                      *)
(*                                                                         *)
(* An async method is cut where another task can run: at its awaits and    *)
(* between two acquisitions of the runtime lock.  A store transaction and  *)
(* the step that uses its result are two actions, because a forced abort   *)
(* or a shutdown upgrade can drop the waiting future after the commit.     *)
(***************************************************************************)
EXTENDS ApplicationRuntime

CONSTANTS
    Calls,            \* start_turn calls, each with the receipt it will carry
    TurnOf,           \* [Calls -> Turns]: requested_turn_id; two calls may collide
    ThreadOf,         \* [Calls -> Threads]
    Resumes,          \* resume_turn calls
    Shutdowns,        \* callers of shutdown and shutdown_force
    ForceCallers,     \* the callers of shutdown_force
    DeadlineCallers,  \* the graceful callers that give up after a deadline
    Invocations,      \* how an Adapter invocation may end
    MaxStoreFailures  \* bound on store transactions that fail

ASSUME CallsAssumption ==
    /\ TurnOf \in [Calls -> Turns]
    /\ ThreadOf \in [Calls -> Threads]
    /\ ForceCallers \cup DeadlineCallers \subseteq Shutdowns
    /\ ForceCallers \cap DeadlineCallers = {}
    /\ Invocations \subseteq {"completed", "failed", "interrupted"}
    /\ MaxStoreFailures \in Nat
    /\ None \notin Calls \cup Shutdowns \cup {"completed", "failed", "interrupted"}

VARIABLES
    call,             \* [Calls -> CallState]
    staged,           \* [Calls -> Outcome \cup {None}]: the task's PendingTerminal
    completion,       \* [Calls -> Completion]: TurnCompletion
    published,        \* [Calls -> Seq(Outcome)]: terminal events pushed
    slot_call,        \* [Turns -> Calls \cup {None}]: whose handle the slot holds
    pending_terminal, \* [Turns -> Outcome \cup {None}]: TurnSlot.pending_terminal
    deliveries,       \* [Turns -> Calls \cup {None}]: who inserted the delivery row
    terminals,        \* [Turns -> Outcome \cup {None}]: gateway_turn_terminals
    store_open,       \* StateRuntime is not closed
    store_failures,   \* failed transactions so far
    resume,           \* [Resumes -> [at, turn, terminal]]
    shutdown,         \* [Shutdowns -> ShutdownState]
    force_requested,  \* force_shutdown_requested and its Notify permit
    stage,            \* what the owner of shutdown_finalizer is doing
    work,             \* the TurnSlots it has taken and not yet settled
    inflight,         \* the one whose terminal it has just committed
    report,           \* ShutdownReport
    panics            \* some tracked task panicked

turnVars     == <<call, staged, completion, published>>
slotVars     == <<slot_call, pending_terminal>>
storeVars    == <<deliveries, terminals, store_open, store_failures>>
shutdownVars == <<shutdown, force_requested, stage, work, inflight, report>>
vars == <<runtimeVars, turnVars, slotVars, storeVars, resume, shutdownVars, panics>>

Outcome == {"completed", "failed", "interrupted"}

\* pending until settled; then a semantic outcome, or why there is none.
Completion == Outcome \cup {"pending", "rejected", "panicked", "persistence"}

(***************************************************************************)
(* idle .. admitted   as in LaneScheduling; refused: returned an error     *)
(* registered         slot and lane reserved, acceptance transaction runs  *)
(* committed          acceptance is durable and not yet public             *)
(* queued, running    awaits its lane; the Adapter is invoked              *)
(* staged             the terminal is staged in the TurnTaskGuard          *)
(* persisting         finalize_terminal took it and persists it            *)
(* persisted,         the store answered, the task was not polled since    *)
(*   unpersisted                                                           *)
(* publishing, failing  slot and lane are settled, events and waiter not   *)
(* blocked            aborted inside a poll of the Adapter that blocks     *)
(* done, rejected     settled; aborted: dropped by a forced abort          *)
(***************************************************************************)
Live == {"registered", "committed", "queued", "running", "staged", "persisting",
         "persisted", "unpersisted", "publishing", "failing", "blocked"}
CallState == Live \cup {"idle", "admitted", "refused", "done", "rejected", "aborted"}

ResumeResult == Outcome \cup {"refused", "live", "notFound", "indeterminate",
                             "persistence", "storeError"}
ResumeState == {"idle", "checked", "looking", "reading", "readingDelivery",
                "persisting", "persisted"} \cup ResumeResult

ShutdownState == {"idle", "closing", "locking", "owner", "done", "abandoned"}
Stage == {"none", "join", "adapter", "drain", "persist", "close", "complete"}

Slot == [turn : Turns, call : Calls, phase : {"active", "pendingTerminal"},
         terminal : Outcome]

TypeOK ==
    /\ RuntimeTypeOK
    /\ call \in [Calls -> CallState]
    /\ staged \in [Calls -> Outcome \cup {None}]
    /\ completion \in [Calls -> Completion]
    /\ published \in [Calls -> Seq(Outcome)]
    /\ slot_call \in [Turns -> Calls \cup {None}]
    /\ pending_terminal \in [Turns -> Outcome \cup {None}]
    /\ deliveries \in [Turns -> Calls \cup {None}]
    /\ terminals \in [Turns -> Outcome \cup {None}]
    /\ store_open \in BOOLEAN
    /\ store_failures \in 0..MaxStoreFailures
    /\ resume \in [Resumes -> [at : ResumeState, turn : Turns \cup {None},
                               terminal : Outcome \cup {None}]]
    /\ shutdown \in [Shutdowns -> ShutdownState]
    /\ force_requested \in BOOLEAN
    /\ stage \in Stage
    /\ work \subseteq Slot
    /\ inflight \in Slot \cup {None}
    /\ report \in [forced : BOOLEAN, aborted : BOOLEAN,
                   adapter : {"completed", "failed", "contractViolation"},
                   state_close : {"closed", "timedOut"}, failures : SUBSET Turns]
    /\ panics \in BOOLEAN

NewReport(force) ==
    [forced |-> force, aborted |-> FALSE, adapter |-> "completed",
     state_close |-> "closed", failures |-> {}]

Init ==
    /\ RuntimeInit
    /\ call = [c \in Calls |-> "idle"]
    /\ staged = [c \in Calls |-> None]
    /\ completion = [c \in Calls |-> "pending"]
    /\ published = [c \in Calls |-> <<>>]
    /\ slot_call = [t \in Turns |-> None]
    /\ pending_terminal = [t \in Turns |-> None]
    /\ deliveries = [t \in Turns |-> None]
    /\ terminals = [t \in Turns |-> None]
    /\ store_open = TRUE
    /\ store_failures = 0
    /\ resume = [r \in Resumes |-> [at |-> "idle", turn |-> None, terminal |-> None]]
    /\ shutdown = [s \in Shutdowns |-> "idle"]
    /\ force_requested = FALSE
    /\ stage = "none"
    /\ work = {}
    /\ inflight = None
    /\ report = NewReport(FALSE)
    /\ panics = FALSE

Goto(c, state) == call' = [call EXCEPT ![c] = state]

\* TurnCompletion::settle keeps the first value.
Settled(c, value) == IF completion[c] = "pending" THEN value ELSE completion[c]
SettleCompletion(c, value) == completion' = [completion EXCEPT ![c] = Settled(c, value)]

\* A store transaction fails: a transient error, or the store is closed.
StoreFails ==
    IF store_open
    THEN store_failures < MaxStoreFailures /\ store_failures' = store_failures + 1
    ELSE UNCHANGED store_failures

\* The read side of admission_gate is held until acceptance is decided, and
\* a read waits behind a waiting write.
Admitting == {c \in Calls : call[c] \in {"admitted", "registered", "committed"}}
Closing == \E s \in Shutdowns : shutdown[s] = "closing"

-----------------------------------------------------------------------------
(* start_turn *)

BeginAdmission(c) ==
    /\ call[c] = "idle"
    /\ Closing => ~open
    /\ Goto(c, IF open THEN "admitted" ELSE "refused")
    /\ UNCHANGED <<runtimeVars, staged, completion, published, slotVars, storeVars,
                   resume, shutdownVars, panics>>

\* Every return between begin_admission and register_turn, register_turn's own
\* rejections included: an error, a duplicate Turn id, overload, cancellation.
GiveUpAdmission(c) ==
    /\ call[c] = "admitted"
    /\ Goto(c, "refused")
    /\ UNCHANGED <<runtimeVars, staged, completion, published, slotVars, storeVars,
                   resume, shutdownVars, panics>>

Register(c) ==
    /\ call[c] = "admitted"
    /\ RegisterTurn(ThreadOf[c], TurnOf[c])
    /\ slot_call' = [slot_call EXCEPT ![TurnOf[c]] = c]
    /\ pending_terminal' = [pending_terminal EXCEPT ![TurnOf[c]] = None]
    /\ Goto(c, "registered")
    /\ UNCHANGED <<staged, completion, published, storeVars, resume, shutdownVars, panics>>

\* accept_framework_turn commits: turn_id is the primary key of the deliveries.
CommitAcceptance(c) ==
    /\ call[c] = "registered"
    /\ store_open
    /\ deliveries[TurnOf[c]] = None
    /\ deliveries' = [deliveries EXCEPT ![TurnOf[c]] = c]
    /\ Goto(c, "committed")
    /\ UNCHANGED <<runtimeVars, staged, completion, published, slotVars, terminals,
                   store_open, store_failures, resume, shutdownVars, panics>>

\* It fails, or finds the Turn id delivered before: TurnTaskGuard::reject.
RejectAcceptance(c) ==
    /\ call[c] = "registered"
    /\ IF deliveries[TurnOf[c]] # None THEN UNCHANGED store_failures ELSE StoreFails
    /\ SettleTurn(ThreadOf[c], TurnOf[c], FALSE)
    /\ slot_call' = [slot_call EXCEPT ![TurnOf[c]] = None]
    /\ SettleCompletion(c, "rejected")
    /\ Goto(c, "rejected")
    /\ UNCHANGED <<staged, published, pending_terminal, deliveries, terminals,
                   store_open, resume, shutdownVars, panics>>

\* mark_turn_accepted, and the gate is given back.  It always finds the slot and
\* the lane entry: AcceptanceNeverOrphaned.
AcceptTurn(c) ==
    /\ call[c] = "committed"
    /\ MarkTurnAccepted(ThreadOf[c], TurnOf[c])
    /\ Goto(c, "queued")
    /\ UNCHANGED <<staged, completion, published, slotVars, storeVars, resume,
                   shutdownVars, panics>>

\* The lane is ours (its sender is not dropped under a queued task: the slots are
\* taken only when no task is left) and the boundary sequence was read: the Adapter is invoked.
InvokeTurn(c) ==
    /\ call[c] = "queued"
    /\ ready[TurnOf[c]] = "sent"
    /\ store_open
    /\ Goto(c, "running")
    /\ UNCHANGED <<runtimeVars, staged, completion, published, slotVars, storeVars,
                   resume, shutdownVars, panics>>

\* stage_terminal, with the result of the invocation, or Failed when the boundary
\* sequence could not be read.
StageTerminal(c, outcome) ==
    /\ \/ call[c] = "running" /\ outcome \in Invocations /\ UNCHANGED store_failures
       \/ /\ call[c] = "queued"
          /\ ready[TurnOf[c]] = "sent"
          /\ outcome = "failed"
          /\ StoreFails
    /\ staged' = [staged EXCEPT ![c] = outcome]
    /\ Goto(c, "staged")
    /\ UNCHANGED <<runtimeVars, completion, published, slotVars, deliveries, terminals,
                   store_open, resume, shutdownVars, panics>>

-----------------------------------------------------------------------------
(* TurnTaskGuard::finalize_terminal *)

TakeStagedTerminal(c) ==
    /\ call[c] = "staged"
    /\ Goto(c, "persisting")
    /\ UNCHANGED <<runtimeVars, staged, completion, published, slotVars, storeVars,
                   resume, shutdownVars, panics>>

\* finalize_framework_turn commits, overwriting any earlier terminal row.
CommitTerminal(c) ==
    /\ call[c] = "persisting"
    /\ store_open
    /\ terminals' = [terminals EXCEPT ![TurnOf[c]] = staged[c]]
    /\ Goto(c, "persisted")
    /\ UNCHANGED <<runtimeVars, staged, completion, published, slotVars, deliveries,
                   store_open, store_failures, resume, shutdownVars, panics>>

FailTerminal(c) ==
    /\ call[c] = "persisting"
    /\ StoreFails
    /\ Goto(c, "unpersisted")
    /\ UNCHANGED <<runtimeVars, staged, completion, published, slotVars, deliveries,
                   terminals, store_open, resume, shutdownVars, panics>>

\* Mutant: a terminal that could not be persisted is forgotten with its slot.
SettleSlotForgetting(c) ==
    /\ call[c] \in {"persisted", "unpersisted"}
    /\ SettleTurn(ThreadOf[c], TurnOf[c], FALSE)
    /\ slot_call' = [slot_call EXCEPT ![TurnOf[c]] = None]
    /\ Goto(c, IF call[c] = "persisted" THEN "publishing" ELSE "failing")
    /\ UNCHANGED <<staged, completion, published, pending_terminal, storeVars, resume,
                   shutdownVars, panics>>

\* settle_turn: the lane is released, and the slot is removed or keeps the
\* terminal that could not be persisted.
SettleSlot(c) ==
    LET t == TurnOf[c]
        retained == call[c] = "unpersisted"
    IN  /\ call[c] \in {"persisted", "unpersisted"}
        /\ SettleTurn(ThreadOf[c], t, retained)
        /\ slot_call' = [slot_call EXCEPT ![t] = IF retained THEN @ ELSE None]
        /\ pending_terminal' =
               [pending_terminal EXCEPT ![t] = IF retained THEN staged[c] ELSE @]
        /\ Goto(c, IF retained THEN "failing" ELSE "publishing")
        /\ UNCHANGED <<staged, completion, published, storeVars, resume, shutdownVars,
                       panics>>

\* Mutant: the terminal event and the semantic outcome are published even when
\* the commit failed.
PublishRegardless(c) ==
    /\ call[c] \in {"publishing", "failing"}
    /\ published' = [published EXCEPT ![c] = Append(@, staged[c])]
    /\ SettleCompletion(c, staged[c])
    /\ Goto(c, "done")
    /\ UNCHANGED <<runtimeVars, staged, slotVars, storeVars, resume, shutdownVars, panics>>

\* The terminal event, only after a durable commit; the log is closed and the
\* waiter settled.
PublishTerminal(c) ==
    /\ call[c] \in {"publishing", "failing"}
    /\ published' = [published EXCEPT ![c] =
                        IF call[c] = "publishing" THEN Append(@, staged[c]) ELSE @]
    /\ SettleCompletion(c, IF call[c] = "publishing" THEN staged[c] ELSE "persistence")
    /\ Goto(c, "done")
    /\ UNCHANGED <<runtimeVars, staged, slotVars, storeVars, resume, shutdownVars, panics>>

\* Mutant: the guard also acts for a task that panics after the commit.
PanicTurnLate(c) ==
    LET t == TurnOf[c]
    IN  /\ call[c] \in {"running", "persisted"}
        /\ SettleTurn(ThreadOf[c], t, TRUE)
        /\ pending_terminal' = [pending_terminal EXCEPT ![t] = "failed"]
        /\ SettleCompletion(c, "panicked")
        /\ Goto(c, "done")
        /\ panics' = TRUE
        /\ UNCHANGED <<staged, published, slot_call, storeVars, resume, shutdownVars>>

\* TurnTaskGuard::drop of a panicking task.  An accepted Turn keeps the terminal
\* that is staged in the guard, or a Failed one: finalize_terminal has taken it
\* out of the guard before it persists.
PanicTurn(c) ==
    LET t == TurnOf[c]
        accepted == call[c] # "registered"
        retained == IF call[c] = "staged" THEN staged[c] ELSE "failed"
    IN  /\ call[c] \in {"registered", "running", "staged", "persisting", "blocked"}
        /\ SettleTurn(ThreadOf[c], t, accepted)
        /\ slot_call' = [slot_call EXCEPT ![t] = IF accepted THEN @ ELSE None]
        /\ pending_terminal' =
               [pending_terminal EXCEPT ![t] =
                   IF accepted /\ turns[t] # "absent" THEN retained ELSE @]
        /\ SettleCompletion(c, "panicked")
        /\ Goto(c, IF accepted THEN "done" ELSE "rejected")
        /\ panics' = TRUE
        /\ UNCHANGED <<staged, published, storeVars, resume, shutdownVars>>

-----------------------------------------------------------------------------
(* resume_turn *)

ResumeGoto(r, state) == resume' = [resume EXCEPT ![r].at = state]

\* ensure_open.
ResumeOpen(r, t) ==
    /\ resume[r].at = "idle"
    /\ resume' = [resume EXCEPT ![r].at = IF open THEN "checked" ELSE "refused",
                                ![r].turn = t]
    /\ UNCHANGED <<runtimeVars, turnVars, slotVars, storeVars, shutdownVars, panics>>

\* Mutant: every slot is taken for one that retains a terminal.
ResumePendingAnySlot(r) ==
    LET t == resume[r].turn IN
    /\ resume[r].at = "checked"
    /\ resume' = [resume EXCEPT
           ![r].at = IF turns[t] # "absent" THEN "persisting" ELSE "looking",
           ![r].terminal = IF turns[t] # "absent" THEN pending_terminal[t] ELSE @]
    /\ UNCHANGED <<runtimeVars, turnVars, slotVars, storeVars, shutdownVars, panics>>

\* pending_terminal: a retained terminal is cloned under the runtime lock.
ResumePending(r) ==
    LET t == resume[r].turn IN
    /\ resume[r].at = "checked"
    /\ resume' = [resume EXCEPT
           ![r].at = IF turns[t] = "pendingTerminal" THEN "persisting" ELSE "looking",
           ![r].terminal = IF turns[t] = "pendingTerminal" THEN pending_terminal[t] ELSE @]
    /\ UNCHANGED <<runtimeVars, turnVars, slotVars, storeVars, shutdownVars, panics>>

\* turn_handle: a Turn that still has a slot is returned live.
ResumeLive(r) ==
    /\ resume[r].at = "looking"
    /\ ResumeGoto(r, IF turns[resume[r].turn] # "absent" THEN "live" ELSE "reading")
    /\ UNCHANGED <<runtimeVars, turnVars, slotVars, storeVars, shutdownVars, panics>>

\* gateway_turn_terminal, then gateway_turn_delivery.
ResumeRead(r) ==
    /\ resume[r].at \in {"reading", "readingDelivery"}
    /\ store_open
    /\ ResumeGoto(r,
           IF resume[r].at = "reading"
           THEN IF terminals[resume[r].turn] # None THEN terminals[resume[r].turn]
                ELSE "readingDelivery"
           ELSE IF deliveries[resume[r].turn] # None THEN "indeterminate" ELSE "notFound")
    /\ UNCHANGED <<runtimeVars, turnVars, slotVars, storeVars, shutdownVars, panics>>

ResumeCommit(r) ==
    /\ resume[r].at = "persisting"
    /\ store_open
    /\ terminals' = [terminals EXCEPT ![resume[r].turn] = resume[r].terminal]
    /\ ResumeGoto(r, "persisted")
    /\ UNCHANGED <<runtimeVars, turnVars, slotVars, deliveries, store_open,
                   store_failures, shutdownVars, panics>>

\* Mutant: a failed retry is reported as the outcome it could not persist.
ResumeFailIgnored(r) ==
    /\ resume[r].at = "persisting"
    /\ StoreFails
    /\ ResumeGoto(r, resume[r].terminal)
    /\ UNCHANGED <<runtimeVars, turnVars, slotVars, deliveries, terminals, store_open,
                   shutdownVars, panics>>

\* A failed retry leaves the retained terminal where it is.
ResumeFail(r) ==
    /\ resume[r].at \in {"reading", "readingDelivery", "persisting"}
    /\ StoreFails
    /\ ResumeGoto(r, IF resume[r].at = "persisting" THEN "persistence" ELSE "storeError")
    /\ UNCHANGED <<runtimeVars, turnVars, slotVars, deliveries, terminals, store_open,
                   shutdownVars, panics>>

\* remove_pending_terminal, by Turn id: it does not look at what it removes.
ResumeRemove(r) ==
    /\ resume[r].at = "persisted"
    /\ RemovePendingTerminal(resume[r].turn)
    /\ slot_call' = [slot_call EXCEPT ![resume[r].turn] = None]
    /\ ResumeGoto(r, resume[r].terminal)
    /\ UNCHANGED <<turnVars, pending_terminal, storeVars, shutdownVars, panics>>

-----------------------------------------------------------------------------
(* shutdown_inner *)

\* A completed shutdown answers at once; otherwise the write side of the gate
\* is awaited.
CallShutdown(s) ==
    /\ shutdown[s] = "idle"
    /\ shutdown' = [shutdown EXCEPT ![s] = IF stage = "complete" THEN "done" ELSE "closing"]
    /\ UNCHANGED <<runtimeVars, turnVars, slotVars, storeVars, resume, force_requested,
                   stage, work, inflight, report, panics>>

\* close_admission, then a forced caller raises the flag and the notification.
CloseForShutdown(s) ==
    /\ shutdown[s] = "closing"
    /\ Admitting = {}
    /\ CloseAdmission
    /\ shutdown' = [shutdown EXCEPT ![s] = "locking"]
    /\ force_requested' = (force_requested \/ s \in ForceCallers)
    /\ UNCHANGED <<turnVars, slotVars, storeVars, resume, stage, work, inflight, report,
                   panics>>

\* shutdown_finalizer: the owner runs the shutdown, everybody after it finds the
\* report.
OwnShutdown(s) ==
    /\ shutdown[s] = "locking"
    /\ \A other \in Shutdowns : shutdown[other] # "owner"
    /\ IF stage = "complete"
       THEN /\ shutdown' = [shutdown EXCEPT ![s] = "done"]
            /\ UNCHANGED <<stage, report>>
       ELSE /\ shutdown' = [shutdown EXCEPT ![s] = "owner"]
            /\ report' = NewReport(force_requested)
            /\ stage' = IF force_requested THEN "adapter" ELSE "join"
    /\ UNCHANGED <<runtimeVars, turnVars, slotVars, storeVars, resume, force_requested,
                   work, inflight, panics>>

NoLiveTask == \A c \in Calls : call[c] \notin Live

\* Mutant: a graceful shutdown does not wait for the tasks.
JoinNobody ==
    /\ stage = "join"
    /\ stage' = IF report.forced THEN "drain" ELSE "adapter"
    /\ UNCHANGED <<runtimeVars, turnVars, slotVars, storeVars, resume, shutdown,
                   force_requested, work, inflight, report, panics>>

\* tasks.wait: a graceful shutdown waits as long as it takes, before it shuts the
\* Adapter down; a forced one has shut the Adapter down before.
JoinTasks ==
    /\ stage = "join"
    /\ NoLiveTask
    /\ stage' = IF report.forced THEN "drain" ELSE "adapter"
    /\ UNCHANGED <<runtimeVars, turnVars, slotVars, storeVars, resume, shutdown,
                   force_requested, work, inflight, report, panics>>

\* agent_sessions.shutdown: completes, fails or (forced) times out.
ShutdownAdapter ==
    /\ stage = "adapter"
    /\ \E status \in {"completed", "failed"} :
          report' = [report EXCEPT !.adapter = status]
    /\ stage' = IF report.forced THEN "join" ELSE "drain"
    /\ UNCHANGED <<runtimeVars, turnVars, slotVars, storeVars, resume, shutdown,
                   force_requested, work, inflight, panics>>

\* The join deadline of a forced shutdown: every tracked task is aborted at its
\* next await.  A task that blocks inside one poll of its Adapter outlives that,
\* and the report says so.
AbortTasks ==
    /\ stage = "join"
    /\ report.forced
    /\ ~NoLiveTask
    /\ \A c \in Calls : call[c] \notin {"publishing", "failing"}
    /\ \E stuck \in SUBSET {c \in Calls : call[c] \in {"running", "blocked"}} :
          /\ call' = [c \in Calls |-> IF c \in stuck THEN "blocked"
                                     ELSE IF call[c] \in Live THEN "aborted"
                                     ELSE call[c]]
          /\ report' = [report EXCEPT !.aborted = TRUE,
                            !.adapter = IF stuck = {} THEN @ ELSE "contractViolation"]
    /\ stage' = "drain"
    /\ UNCHANGED <<runtimeVars, staged, completion, published, slotVars, storeVars,
                   resume, shutdown, force_requested, work, inflight, panics>>

\* The poll ends after all: the task was aborted and is dropped, and
\* TurnTaskGuard::drop does nothing.
UnblockTurn(c) ==
    /\ call[c] = "blocked"
    /\ Goto(c, "aborted")
    /\ UNCHANGED <<runtimeVars, staged, completion, published, slotVars, storeVars,
                   resume, shutdownVars, panics>>

\* retry_and_settle_terminal_slots begins: the slots change hands, with the
\* retained terminal or, for a Turn that never reached one, Interrupted.  The
\* waiter of a Turn without durable acceptance is told so.
DrainSlots ==
    /\ stage = "drain"
    /\ TakeTurnSlots
    /\ work' = {[turn |-> t, call |-> slot_call[t], phase |-> turns[t],
                 terminal |-> IF pending_terminal[t] = None THEN "interrupted"
                              ELSE pending_terminal[t]] :
                   t \in {u \in Turns : turns[u] \in {"active", "pendingTerminal"}}}
    /\ completion' = [c \in Calls |->
           IF slot_call[TurnOf[c]] = c /\ turns[TurnOf[c]] = "pendingAcceptance"
           THEN Settled(c, "rejected") ELSE completion[c]]
    /\ slot_call' = [t \in Turns |-> None]
    /\ pending_terminal' = [t \in Turns |-> None]
    /\ stage' = "persist"
    /\ UNCHANGED <<call, staged, published, storeVars, resume, shutdown,
                   force_requested, inflight, report, panics>>

\* The slots are persisted one after the other.
CommitSlot(w) ==
    /\ stage = "persist"
    /\ inflight = None
    /\ store_open
    /\ terminals' = [terminals EXCEPT ![w.turn] = w.terminal]
    /\ inflight' = w
    /\ UNCHANGED <<runtimeVars, turnVars, slotVars, deliveries, store_open,
                   store_failures, resume, shutdown, force_requested, stage, work,
                   report, panics>>

\* Mutant: the waiter of an aborted Turn is forgotten once its row is written.
FinishSlotSilently ==
    /\ stage = "persist"
    /\ inflight # None
    /\ work' = work \ {inflight}
    /\ inflight' = None
    /\ UNCHANGED <<runtimeVars, turnVars, slotVars, storeVars, resume, shutdown,
                   force_requested, stage, report, panics>>

\* A committed terminal is published by the shutdown if the Turn's own task never
\* did.
FinishSlot ==
    /\ stage = "persist"
    /\ inflight # None
    /\ IF inflight.phase = "active"
       THEN /\ published' = [published EXCEPT ![inflight.call] =
                                Append(@, inflight.terminal)]
            /\ SettleCompletion(inflight.call, inflight.terminal)
       ELSE UNCHANGED <<published, completion>>
    /\ work' = work \ {inflight}
    /\ inflight' = None
    /\ UNCHANGED <<runtimeVars, call, staged, slotVars, storeVars, resume, shutdown,
                   force_requested, stage, report, panics>>

\* A slot that cannot be persisted is reported, and an open waiter is told.  The
\* deadline of a forced shutdown can also cut a commit that takes effect.
FailSlot(w) ==
    /\ stage = "persist"
    /\ inflight = None
    /\ StoreFails
    /\ \/ UNCHANGED terminals
       \/ /\ report.forced /\ store_open
          /\ terminals' = [terminals EXCEPT ![w.turn] = w.terminal]
    /\ report' = [report EXCEPT !.failures = @ \cup {w.turn}]
    /\ IF w.phase = "active" THEN SettleCompletion(w.call, "persistence")
                             ELSE UNCHANGED completion
    /\ work' = work \ {w}
    /\ UNCHANGED <<runtimeVars, call, staged, published, slotVars, deliveries,
                   store_open, resume, shutdown, force_requested, stage, inflight,
                   panics>>

\* state.close marks the pool closed before it waits for the connections that
\* are out; a transaction that still commits meanwhile could as well have
\* committed just before.
SlotsSettled ==
    /\ stage = "persist"
    /\ work = {}
    /\ stage' = "close"
    /\ store_open' = FALSE
    /\ UNCHANGED <<runtimeVars, turnVars, slotVars, deliveries, terminals,
                   store_failures, resume, shutdown, force_requested, work, inflight,
                   report, panics>>

\* The wait ends (a forced shutdown gives it up at its deadline), the report is
\* stored and shutdown_finalizer released.
CloseState(s) ==
    /\ shutdown[s] = "owner"
    /\ stage = "close"
    /\ \E status \in {"closed", IF report.forced THEN "timedOut" ELSE "closed"} :
          report' = [report EXCEPT !.state_close = status]
    /\ stage' = "complete"
    /\ shutdown' = [shutdown EXCEPT ![s] = "done"]
    /\ UNCHANGED <<runtimeVars, turnVars, slotVars, storeVars, resume, force_requested,
                   work, inflight, panics>>

\* The deadline of the host passes: it drops the future of its graceful shutdown,
\* with everything it holds, and may call shutdown_force.
AbandonShutdown(s) ==
    /\ s \in DeadlineCallers
    /\ shutdown[s] \in {"closing", "locking", "owner"}
    /\ shutdown' = [shutdown EXCEPT ![s] = "abandoned"]
    /\ IF shutdown[s] = "owner"
       THEN stage' = "none" /\ work' = {} /\ inflight' = None
       ELSE UNCHANGED <<stage, work, inflight>>
    /\ UNCHANGED <<runtimeVars, turnVars, slotVars, storeVars, resume, force_requested,
                   report, panics>>

\* The notification of a forced caller reaches the owner of a graceful shutdown:
\* the graceful future is dropped, with everything it holds, and the forced
\* shutdown starts from the beginning.
UpgradeShutdown ==
    /\ force_requested
    /\ ~report.forced
    /\ stage \in {"join", "adapter", "drain", "persist", "close"}
    /\ report' = [report EXCEPT !.forced = TRUE]
    /\ stage' = "adapter"
    /\ work' = {}
    /\ inflight' = None
    /\ UNCHANGED <<runtimeVars, turnVars, slotVars, storeVars, resume, shutdown,
                   force_requested, panics>>

\* Every call was made and has ended.
Finished ==
    /\ \A c \in Calls : call[c] \in {"refused", "done", "rejected", "aborted"}
    /\ \A r \in Resumes : resume[r].at \in ResumeResult
    /\ \A s \in Shutdowns : shutdown[s] \in {"done", "abandoned"}
    /\ UNCHANGED vars

-----------------------------------------------------------------------------
StartTurnStep(c) ==
    \/ BeginAdmission(c) \/ GiveUpAdmission(c) \/ Register(c)
    \/ CommitAcceptance(c) \/ RejectAcceptance(c) \/ AcceptTurn(c)
    \/ InvokeTurn(c)
    \/ \E outcome \in Outcome : StageTerminal(c, outcome)
    \/ TakeStagedTerminal(c) \/ CommitTerminal(c) \/ FailTerminal(c)
    \/ SettleSlot(c) \/ PublishTerminal(c) \/ PanicTurn(c)

ResumeStep(r) ==
    \/ \E t \in Turns : ResumeOpen(r, t)
    \/ ResumePending(r) \/ ResumeLive(r) \/ ResumeRead(r) \/ ResumeCommit(r) \/ ResumeFail(r)
    \/ ResumeRemove(r)

\* What the owner of the shutdown does on its own.  The select! that runs a
\* graceful shutdown is biased: it looks for the notification before it lets
\* the graceful future go on.
OwnerStep ==
    \/ /\ force_requested => report.forced
       /\ \/ JoinTasks \/ ShutdownAdapter \/ AbortTasks \/ DrainSlots
          \/ \E w \in work : CommitSlot(w) \/ FailSlot(w)
          \/ FinishSlot \/ SlotsSettled
          \/ \E s \in Shutdowns : CloseState(s)
    \/ UpgradeShutdown

Next ==
    \/ \E c \in Calls : StartTurnStep(c) \/ UnblockTurn(c)
    \/ \E r \in Resumes : ResumeStep(r)
    \/ \E s \in Shutdowns :
          CallShutdown(s) \/ CloseForShutdown(s) \/ OwnShutdown(s) \/ AbandonShutdown(s)
    \/ OwnerStep
    \/ Finished

Spec == Init /\ [][Next]_vars

(***************************************************************************)
(* A call that was made goes on: Tokio polls woken tasks, the store and    *)
(* the Adapter answer (an invocation ends, prepare_turn and Adapter        *)
(* shutdown are bounded by their contract), the gate and the finalizer     *)
(* mutex are fair.  Nobody has to make a call, and a poll that blocks may  *)
(* never end.                                                              *)
(***************************************************************************)
Fairness ==
    /\ \A c \in Calls : WF_vars(call[c] \notin {"idle", "blocked"} /\ StartTurnStep(c))
    /\ \A s \in Shutdowns : WF_vars(CloseForShutdown(s)) /\ WF_vars(OwnShutdown(s))
    /\ WF_vars(OwnerStep)

FairSpec == Spec /\ Fairness

-----------------------------------------------------------------------------
(* Properties *)

\* What observers of a Turn were told is what the store says, for ever: a
\* terminal event is published once, only after its row is durable, together
\* with the same semantic completion, and no later retry changes that row.  (Under
\* a forced shutdown, a task that outlived its abort may panic and tell the waiter
\* so before the shutdown publishes.)
PublishedTerminalDurable ==
    \A c \in Calls :
        /\ published[c] # <<>> =>
              /\ published[c] = <<terminals[TurnOf[c]]>>
              /\ \/ completion[c] = terminals[TurnOf[c]]
                 \/ completion[c] = "panicked" /\ force_requested
        /\ completion[c] \in Outcome => published[c] # <<>>

\* A call whose acceptance is durable still owns the slot and the lane entry of
\* its Turn id when it makes the acceptance public, so mark_turn_accepted cannot
\* fail and leave a delivery row behind a rejected call; and a call that was
\* refused or rejected has no delivery row, whatever call or resume_turn of the
\* same id ran beside it.
AcceptanceNeverOrphaned ==
    \A c \in Calls :
        /\ call[c] = "committed" =>
              /\ turns[TurnOf[c]] = "pendingAcceptance"
              /\ slot_call[TurnOf[c]] = c
              /\ Has(ThreadOf[c], {TurnOf[c]})
        /\ call[c] \in {"refused", "rejected"} => deliveries[TurnOf[c]] # c

\* resume_turn answers with an outcome only if that outcome is durable, and it
\* stays what it was.
ResumedOutcomeDurable ==
    \A r \in Resumes :
        resume[r].at \in Outcome => terminals[resume[r].turn] = resume[r].at

\* A terminal row, once committed, is not changed by a retry: "A durably
\* committed terminal remains resumable as that exact outcome."
CommittedTerminalStable ==
    [][ \A t \in Turns : terminals[t] # None => terminals'[t] = terminals[t] ]_vars

\* ShutdownReport::is_clean
IsClean ==
    /\ report.adapter = "completed"
    /\ report.state_close = "closed"
    /\ ~panics
    /\ ~report.aborted
    /\ report.failures = {}

\* A shutdown that reports itself clean has left no accepted Turn without its
\* durable terminal: every terminal that could not be persisted before was
\* retried, and a retry that failed is in the report.
CleanShutdownDurable ==
    stage = "complete" /\ IsClean =>
        \A t \in Turns : deliveries[t] # None => terminals[t] # None

\* State is closed last: when it is, no task of a Turn is left that could still
\* persist something, but for tasks that a forced shutdown could not stop, and no
\* slot waits for its retry.  A shutdown that was given up after its abort is begun
\* anew with an empty report, but whoever comes to close State finds the blocked
\* tasks again and reports the contract violation.
StoreClosedLast ==
    ~store_open =>
        /\ \A c \in Calls : call[c] \in Live =>
              /\ call[c] = "blocked"
              /\ stage \in {"close", "complete"} => report.adapter = "contractViolation"
        /\ work = {}
        /\ \A t \in Turns : turns[t] = "absent"

\* If finalization panics the staged terminal is what the slot retains: "retains
\* the staged terminal for same-process retry".
StagedTerminalRetained ==
    \A c \in Calls :
        /\ turns[TurnOf[c]] = "pendingTerminal"
        /\ slot_call[TurnOf[c]] = c
        /\ staged[c] # None
        => pending_terminal[TurnOf[c]] = staged[c]

\* resume_turn calls an outcome indeterminate only for a Turn no task of this
\* process still works on: "Turn outcome is indeterminate after process loss".
IndeterminateIsLost ==
    \A r \in Resumes, c \in Calls :
        resume[r].at = "indeterminate" /\ resume[r].turn = TurnOf[c] => call[c] \notin Live

\* Whoever waits for an accepted Turn is answered, through failures, panics, forced
\* aborts and upgraded shutdowns: a forced shutdown aborts the tasks that are left
\* "and settle[s] their Turn slots".
AcceptedSettles ==
    \A c \in Calls : call[c] = "queued" ~> completion[c] # "pending"

\* A host gave up its shutdown at the deadline.
GivenUp == \E s \in Shutdowns : shutdown[s] = "abandoned"

\* Whoever waits for an accepted Turn is answered, through failures, panics, forced
\* aborts and upgraded or abandoned shutdowns, but for one way to be forgotten: the
\* task was aborted, and a shutdown that was given up had taken the slot.
AcceptedAnswered ==
    \A c \in Calls : call[c] = "queued" ~>
        \/ completion[c] # "pending"
        \/ GivenUp /\ call[c] \in {"aborted", "blocked"} /\ turns[TurnOf[c]] = "absent"

\* A shutdown that somebody keeps waiting for ends.
ShutdownCompletes ==
    \A s \in Shutdowns :
        shutdown[s] = "closing" ~> shutdown[s] \in {"done", "abandoned"}
=============================================================================
