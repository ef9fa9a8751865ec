------------------------- MODULE ApplicationRuntime -------------------------
(***************************************************************************)
(* ApplicationRuntimeState (crates/psychevo/src/application/runtime.rs):   *)
(* the state behind the Application runtime lock and the methods that      *)
(* change it.  Every method holds that lock from its first read to its     *)
(* last write, so each one is a single atomic step; this module gives each *)
(* method as an action on the runtime's variables and the modules that     *)
(* EXTEND it say which task calls which method when.                       *)
(*                                                                         *)
(* The per-Thread cells and the Application's own cell are one function    *)
(* `cells': ApplicationLane stands for the application_operations field,   *)
(* an empty sequence for a cell that is not in the map (a cell is removed  *)
(* when it becomes empty).                                                 *)
(***************************************************************************)
EXTENDS ThreadCell, Integers, FiniteSets

CONSTANTS
    Threads,                \* Thread ids
    ApplicationLane,        \* the application_operations cell
    Turns,                  \* Turn ids
    Mutations,              \* ids of Thread mutations
    IdleMutations,          \* ids of Thread mutations that need an idle Thread
    ApplicationOperations,  \* ids of Application operations
    MaxOperations,          \* ApplicationLimits.max_operations
    MaxThreadOperations,    \* ApplicationLimits.max_thread_operations
    None                    \* Option::None

Operations == Turns \cup Mutations \cup IdleMutations \cup ApplicationOperations
Lanes == Threads \cup {ApplicationLane}

\* Operation ids come from one counter and Turn ids are text, so no operation is
\* of two kinds.
ASSUME OperationKindsDisjoint ==
    /\ Turns \cap (Mutations \cup IdleMutations \cup ApplicationOperations) = {}
    /\ Mutations \cap (IdleMutations \cup ApplicationOperations) = {}
    /\ IdleMutations \cap ApplicationOperations = {}
    /\ None \notin Operations
    /\ ApplicationLane \notin Threads

\* ApplicationBuilder::build rejects any other limits.
ASSUME LimitsAssumption ==
    /\ MaxThreadOperations \in Nat \ {0}
    /\ MaxOperations \in Nat \ {0}
    /\ MaxThreadOperations <= MaxOperations

VARIABLES
    open,                 \* admission is open
    accepted_operations,  \* operations counted against max_operations
    activity_revision,    \* version of the public activity snapshots
    cells,                \* [Lanes -> Seq(Operations)]
    ready,                \* [Operations -> Signal]
    durable_accepted,     \* operations whose durable_accepted flag is set
    turns                 \* [Turns -> TurnPhase]: the TurnSlots by phase

runtimeVars == <<open, accepted_operations, activity_revision, cells, ready,
                 durable_accepted, turns>>

\* A TurnSlot's phase; "absent" is a Turn id without a slot.
TurnPhase == {"absent", "pendingAcceptance", "active", "pendingTerminal"}

RuntimeTypeOK ==
    /\ open \in BOOLEAN
    /\ accepted_operations \in Nat
    /\ activity_revision \in Nat
    /\ cells \in [Lanes -> Seq(Operations)]
    /\ ready \in [Operations -> Signal]
    /\ durable_accepted \subseteq Operations
    /\ turns \in [Turns -> TurnPhase]

RuntimeInit ==
    /\ open = TRUE
    /\ accepted_operations = 0
    /\ activity_revision = 0
    /\ cells = [l \in Lanes |-> <<>>]
    /\ ready = [op \in Operations |-> "none"]
    /\ durable_accepted = {}
    /\ turns = [t \in Turns |-> "absent"]

-----------------------------------------------------------------------------
\* What the public API reports of a Thread.
Activity(thread) ==
    ThreadCellActivity(cells[thread], Turns, durable_accepted, None)

\* The cell, the activity and the revision of a Thread after its cell became
\* `cell' with `accepted' durable: record_activity_transition.
RecordActivityTransition(thread, cell, accepted) ==
    activity_revision' =
        IF ThreadCellActivity(cell, Turns, accepted, None) = Activity(thread)
        THEN activity_revision
        ELSE activity_revision + 1

Has(lane, kind) == \E i \in DOMAIN cells[lane] : cells[lane][i] \in kind

\* Mutant: usize subtraction without saturation.
UncheckedPred(n) == n - 1

\* usize::saturating_sub(1)
SaturatingPred(n) == IF n = 0 THEN 0 ELSE n - 1

-----------------------------------------------------------------------------
(* Admission to the lanes *)

AdmitApplicationOperation ==
    /\ open
    /\ accepted_operations < MaxOperations

AdmitThreadOperation(thread) ==
    /\ AdmitApplicationOperation
    /\ Len(cells[thread]) < MaxThreadOperations

\* Mutant: a Turn is admitted behind a history edit.
AdmitTurnOperationBehindEdit(thread) == AdmitThreadOperation(thread)

AdmitTurnOperation(thread) ==
    /\ ~Has(thread, IdleMutations)
    /\ AdmitThreadOperation(thread)

\* reserve_idle_mutation: history editing needs a Thread without a Turn and
\* without another edit.
AdmitIdleMutation(thread) ==
    /\ ~Has(thread, Turns)
    /\ ~Has(thread, IdleMutations)
    /\ AdmitThreadOperation(thread)

\* ThreadCell::reserve and the accounting every caller of it does.
Reserve(lane, op, durable) ==
    /\ cells' = [cells EXCEPT ![lane] = Append(@, op)]
    /\ ready' = ReserveReady(cells[lane], ready, op)
    /\ durable_accepted' = IF durable THEN durable_accepted \cup {op}
                                      ELSE durable_accepted \ {op}
    /\ accepted_operations' = accepted_operations + 1

\* Mutant: a Turn id is registered over a slot that is still there.
RegisterTurnTwice(thread, turn) ==
    /\ AdmitTurnOperation(thread)
    /\ Reserve(thread, turn, FALSE)
    /\ turns' = [turns EXCEPT ![turn] = "pendingAcceptance"]
    /\ UNCHANGED <<open, activity_revision>>

\* register_turn: the lane reservation and the slot of a Turn id in one step.
RegisterTurn(thread, turn) ==
    /\ AdmitTurnOperation(thread)
    /\ turns[turn] = "absent"
    /\ Reserve(thread, turn, FALSE)
    /\ turns' = [turns EXCEPT ![turn] = "pendingAcceptance"]
    /\ UNCHANGED <<open, activity_revision>>

\* mark_turn_accepted: the durable acceptance becomes public.
MarkTurnAccepted(thread, turn) ==
    /\ turns[turn] = "pendingAcceptance"
    /\ Has(thread, {turn})
    /\ durable_accepted' = durable_accepted \cup {turn}
    /\ turns' = [turns EXCEPT ![turn] = "active"]
    /\ RecordActivityTransition(thread, cells[thread], durable_accepted')
    /\ UNCHANGED <<open, accepted_operations, cells, ready>>

\* reserve_mutation, reserve_idle_mutation and reserve_application_operation.
ReserveOperation(lane, op) ==
    /\ Reserve(lane, op, TRUE)
    /\ UNCHANGED <<open, activity_revision, turns>>

ReserveMutation(thread, op) ==
    AdmitThreadOperation(thread) /\ ReserveOperation(thread, op)

ReserveIdleMutation(thread, op) ==
    AdmitIdleMutation(thread) /\ ReserveOperation(thread, op)

ReserveApplicationOperation(op) ==
    AdmitApplicationOperation /\ ReserveOperation(ApplicationLane, op)

-----------------------------------------------------------------------------
(* Leaving the lanes *)

\* Mutant: only a front operation gives its capacity back.
ReleaseKeepsCount(lane, op) ==
    /\ cells' = [cells EXCEPT ![lane] = RemoveFirst(@, op)]
    /\ ready' = ReleaseReady(cells[lane], ready, op)
    /\ accepted_operations' =
           IF cells[lane] # <<>> /\ Head(cells[lane]) = op
           THEN SaturatingPred(accepted_operations) ELSE accepted_operations

\* ThreadCell::release and the accounting every caller of it does, whether the
\* operation was still in the cell or not.
Release(lane, op) ==
    /\ cells' = [cells EXCEPT ![lane] = RemoveFirst(@, op)]
    /\ ready' = ReleaseReady(cells[lane], ready, op)
    /\ accepted_operations' = SaturatingPred(accepted_operations)

\* Mutant: the lane is released without a new activity revision.
SettleTurnSilently(thread, turn, retained) ==
    /\ Release(thread, turn)
    /\ turns' = [turns EXCEPT ![turn] =
                    IF ~retained THEN "absent"
                    ELSE IF @ = "absent" THEN @ ELSE "pendingTerminal"]
    /\ UNCHANGED <<open, activity_revision, durable_accepted>>

\* settle_turn: the lane is released; the slot is removed, or kept as a
\* PendingTerminal when the terminal could not be persisted.
SettleTurn(thread, turn, retained) ==
    /\ Release(thread, turn)
    /\ turns' = [turns EXCEPT ![turn] =
                    IF ~retained THEN "absent"
                    ELSE IF @ = "absent" THEN @ ELSE "pendingTerminal"]
    /\ RecordActivityTransition(thread, cells'[thread], durable_accepted)
    /\ UNCHANGED <<open, durable_accepted>>

\* finish_mutation and finish_application_operation, run by the Drop of the
\* reservation.
FinishOperation(lane, op) ==
    /\ Release(lane, op)
    /\ UNCHANGED <<open, activity_revision, durable_accepted, turns>>

\* remove_pending_terminal, whatever the phase of the slot it finds.
RemovePendingTerminal(turn) ==
    /\ turns' = [turns EXCEPT ![turn] = "absent"]
    /\ UNCHANGED <<open, accepted_operations, activity_revision, cells, ready,
                   durable_accepted>>

-----------------------------------------------------------------------------
(* Shutdown *)

\* close_admission, once the write side of the gate is held.
CloseAdmission ==
    /\ open' = FALSE
    /\ UNCHANGED <<accepted_operations, activity_revision, cells, ready,
                   durable_accepted, turns>>

\* take_turn_slots: every slot is drained and every lane cleared.
TakeTurnSlots ==
    /\ turns' = [t \in Turns |-> "absent"]
    /\ cells' = [l \in Lanes |-> <<>>]
    /\ ready' = [op \in Operations |->
                    IF ready[op] = "waiting" THEN "dropped" ELSE ready[op]]
    /\ accepted_operations' = 0
    /\ UNCHANGED <<open, activity_revision, durable_accepted>>
=============================================================================
