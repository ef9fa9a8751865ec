--------------------------- MODULE LaneScheduling ---------------------------
(***************************************************************************)
(* The tasks that share the Application's lanes: start_turn calls, Thread  *)
(* mutations (Thread::enqueue_mutation), history edits                     *)
(* (Thread::enqueue_idle_history_mutation) and Application operations      *)
(* (Client::start_thread), from admission to the release of the lane,      *)
(* against graceful and forced shutdown.                                   *)
(*                                                                         *)
(* What a Turn does while it owns its lane is the subject of TurnLifecycle;*)
(* here it executes and settles, with or without a retained terminal.      *)
(***************************************************************************)
EXTENDS ApplicationRuntime

VARIABLES
    task,     \* [Operations -> TaskState]
    lane_of,  \* [Operations -> Lanes \cup {None}]: the lane of the reservation
    closing,  \* a shutdown waits for, or holds, the write side of admission_gate
    forced,   \* force_shutdown_requested
    drained   \* take_turn_slots has run

vars == <<runtimeVars, task, lane_of, closing, forced, drained>>

(***************************************************************************)
(* idle      the call was not made yet                                     *)
(* admitted  holds the read side of admission_gate, nothing reserved       *)
(* reserved  holds the gate and a reservation (for a Turn: until its       *)
(*           durable acceptance is decided)                                *)
(* queued    awaits its ready signal                                       *)
(* running   owns its lane                                                 *)
(* done      ended, reservation released                                   *)
(* aborted   a Turn task ended by a forced abort: its slot and its place   *)
(*           in the lane are left to the shutdown                          *)
(***************************************************************************)
TaskState == {"idle", "admitted", "reserved", "queued", "running", "done", "aborted"}

TypeOK ==
    /\ RuntimeTypeOK
    /\ task \in [Operations -> TaskState]
    /\ lane_of \in [Operations -> Lanes \cup {None}]
    /\ closing \in BOOLEAN
    /\ forced \in BOOLEAN
    /\ drained \in BOOLEAN

Init ==
    /\ RuntimeInit
    /\ task = [op \in Operations |-> "idle"]
    /\ lane_of = [op \in Operations |-> None]
    /\ closing = FALSE
    /\ forced = FALSE
    /\ drained = FALSE

\* The tasks that hold the read side of admission_gate.
Admitting == {op \in Operations : task[op] \in {"admitted", "reserved"}}

\* The states of a spawned task, which the TaskTracker waits for.
Tracked == {"reserved", "queued", "running"}

\* The lanes an operation of this kind may be submitted to.
Targets(op) == IF op \in ApplicationOperations THEN {ApplicationLane} ELSE Threads

Goto(op, state) == task' = [task EXCEPT ![op] = state]

-----------------------------------------------------------------------------
(* Admission *)

\* begin_admission: the gate is fair, so a read waits behind a waiting write;
\* ensure_open decides once it is held.
BeginAdmission(op) ==
    /\ task[op] = "idle"
    /\ closing => ~open
    /\ Goto(op, IF open THEN "admitted" ELSE "done")
    /\ UNCHANGED <<runtimeVars, lane_of, closing, forced, drained>>

\* The method that reserves a lane for an operation of this kind.
ReserveLane(op, lane) ==
    \/ op \in Turns /\ RegisterTurn(lane, op)
    \/ op \in Mutations /\ ReserveMutation(lane, op)
    \/ op \in IdleMutations /\ ReserveIdleMutation(lane, op)
    \/ op \in ApplicationOperations /\ ReserveApplicationOperation(op)

\* The reservation, and the spawn of the task that owns it from here on.
ReserveStep(op, lane) ==
    /\ task[op] = "admitted"
    /\ ReserveLane(op, lane)
    /\ Goto(op, "reserved")
    /\ lane_of' = [lane_of EXCEPT ![op] = lane]
    /\ UNCHANGED <<closing, forced, drained>>

\* Every early return between begin_admission and the reservation: overload,
\* thread_busy, a failed or cancelled preparation, a dropped caller.  The gate
\* is given back and nothing was reserved.
GiveUpAdmission(op) ==
    /\ task[op] = "admitted"
    /\ Goto(op, "done")
    /\ UNCHANGED <<runtimeVars, lane_of, closing, forced, drained>>

\* The acceptance transaction of a Turn committed.
AcceptTurn(t) ==
    /\ task[t] = "reserved"
    /\ MarkTurnAccepted(lane_of[t], t)
    /\ Goto(t, "queued")
    /\ UNCHANGED <<lane_of, closing, forced, drained>>

\* The acceptance transaction of a Turn failed: TurnTaskGuard::reject.  A panic
\* before acceptance takes the same path through Drop.
RejectTurn(t) ==
    /\ task[t] = "reserved"
    /\ SettleTurn(lane_of[t], t, FALSE)
    /\ Goto(t, "done")
    /\ UNCHANGED <<lane_of, closing, forced, drained>>

\* A mutation task drops the gate as its first step.
DropAdmission(op) ==
    /\ op \notin Turns
    /\ task[op] = "reserved"
    /\ Goto(op, "queued")
    /\ UNCHANGED <<runtimeVars, lane_of, closing, forced, drained>>

-----------------------------------------------------------------------------
(* Execution *)

\* Mutant: a task starts without waiting for its signal.
StartUnsignalled(op) ==
    /\ task[op] = "queued"
    /\ ready[op] # "dropped"
    /\ Goto(op, "running")
    /\ UNCHANGED <<runtimeVars, lane_of, closing, forced, drained>>

\* The ready signal arrived (lane.await, acquire).
StartExecution(op) ==
    /\ task[op] = "queued"
    /\ ready[op] = "sent"
    /\ Goto(op, "running")
    /\ UNCHANGED <<runtimeVars, lane_of, closing, forced, drained>>

\* A Turn ends: settled with its terminal durable, or retained as a
\* PendingTerminal when that failed or the task panicked.
SettleExecution(t, retained) ==
    /\ task[t] = "running"
    /\ SettleTurn(lane_of[t], t, retained)
    /\ Goto(t, "done")
    /\ UNCHANGED <<lane_of, closing, forced, drained>>

\* A mutation ends, fails or panics: the Drop of its reservation.
FinishExecution(op) ==
    /\ op \notin Turns
    /\ task[op] = "running"
    /\ FinishOperation(lane_of[op], op)
    /\ Goto(op, "done")
    /\ UNCHANGED <<lane_of, closing, forced, drained>>

\* resume_turn persisted a retained terminal and removes its slot.
ResumeTurn(t) ==
    /\ open
    /\ turns[t] = "pendingTerminal"
    /\ RemovePendingTerminal(t)
    /\ UNCHANGED <<task, lane_of, closing, forced, drained>>

-----------------------------------------------------------------------------
(* Shutdown *)

\* shutdown_inner asks for the write side of the gate ...
RequestClose ==
    /\ ~closing
    /\ closing' = TRUE
    /\ UNCHANGED <<runtimeVars, task, lane_of, forced, drained>>

\* Mutant: admission closes under the calls that are still being admitted.
CloseWithoutGate ==
    /\ closing
    /\ open
    /\ CloseAdmission
    /\ UNCHANGED <<task, lane_of, closing, forced, drained>>

\* ... gets it once no admission holds the read side, and closes admission.
Close ==
    /\ closing
    /\ open
    /\ Admitting = {}
    /\ CloseAdmission
    /\ UNCHANGED <<task, lane_of, closing, forced, drained>>

\* A forced shutdown is requested, or upgrades a graceful one.
ForceShutdown ==
    /\ ~open
    /\ ~forced
    /\ ~drained
    /\ forced' = TRUE
    /\ UNCHANGED <<runtimeVars, task, lane_of, closing, drained>>

\* abort_all_tasks reaches a mutation: its future is dropped, and with it its
\* reservation.
AbortOperation(op) ==
    /\ forced
    /\ ~drained
    /\ op \notin Turns
    /\ task[op] \in Tracked
    /\ FinishOperation(lane_of[op], op)
    /\ Goto(op, "done")
    /\ UNCHANGED <<lane_of, closing, forced, drained>>

\* abort_all_tasks reaches a Turn: TurnTaskGuard::drop does nothing when the
\* task is not panicking.
AbortTurn(t) ==
    /\ forced
    /\ ~drained
    /\ task[t] \in Tracked
    /\ Goto(t, "aborted")
    /\ UNCHANGED <<runtimeVars, lane_of, closing, forced, drained>>

\* retry_and_settle_terminal_slots takes the slots once the tracked tasks are
\* gone.  A forced shutdown also goes on when a task that blocks inside one
\* poll outlives its abort (ContractViolation): such a task is running.
Drain ==
    /\ ~open
    /\ ~drained
    /\ \A op \in Operations :
          \/ task[op] \notin Tracked
          \/ forced /\ task[op] = "running"
    /\ TakeTurnSlots
    /\ drained' = TRUE
    /\ UNCHANGED <<task, lane_of, closing, forced>>

\* Everything was called and has ended; nothing is left to do.
Finished ==
    /\ drained
    /\ \A op \in Operations : task[op] \in {"done", "aborted"}
    /\ UNCHANGED vars

-----------------------------------------------------------------------------
Next ==
    \/ \E op \in Operations :
          \/ BeginAdmission(op)
          \/ \E lane \in Targets(op) : ReserveStep(op, lane)
          \/ GiveUpAdmission(op)
          \/ DropAdmission(op)
          \/ StartExecution(op)
          \/ FinishExecution(op)
          \/ AbortOperation(op)
    \/ \E t \in Turns :
          \/ AcceptTurn(t)
          \/ RejectTurn(t)
          \/ \E retained \in BOOLEAN : SettleExecution(t, retained)
          \/ ResumeTurn(t)
          \/ AbortTurn(t)
    \/ RequestClose \/ Close \/ ForceShutdown \/ Drain
    \/ Finished

Spec == Init /\ [][Next]_vars

(***************************************************************************)
(* Tokio polls every woken task, a store transaction answers, prepare_turn *)
(* is bounded by its contract, and an execution ends (Turns by their       *)
(* Adapter, mutations by their store work); once a shutdown is forced,     *)
(* abort_all_tasks reaches every task that has not ended.  Nobody has to   *)
(* call anything: new calls, a shutdown and its force are not fair.        *)
(***************************************************************************)
Fairness ==
    /\ \A op \in Operations :
          /\ WF_vars(GiveUpAdmission(op) \/ \E lane \in Targets(op) : ReserveStep(op, lane))
          /\ WF_vars(DropAdmission(op))
          /\ WF_vars(StartExecution(op))
          /\ WF_vars(FinishExecution(op))
          /\ WF_vars(AbortOperation(op))
    /\ \A t \in Turns :
          /\ WF_vars(AbortTurn(t))
          /\ WF_vars(AcceptTurn(t) \/ RejectTurn(t))
          /\ WF_vars(\E retained \in BOOLEAN : SettleExecution(t, retained))
    /\ WF_vars(Close)
    /\ WF_vars(Drain)

FairSpec == Spec /\ Fairness

-----------------------------------------------------------------------------
(* Properties *)

\* Two operations of one lane never execute at the same time, not even around
\* a forced shutdown that drops the lanes under a task it cannot stop
\* (ThreadCell::reserve and release hand exactly one ready signal on).
LaneExclusive ==
    \A op1, op2 \in Operations :
        /\ task[op1] = "running"
        /\ task[op2] = "running"
        /\ lane_of[op1] = lane_of[op2]
        => op1 = op2

\* No wakeup is lost: the front operation of every lane has been signalled, and
\* nobody behind it has.
FrontSignalled ==
    \A l \in Lanes : \A i \in DOMAIN cells[l] :
        ready[cells[l][i]] = IF i = 1 THEN "sent" ELSE "waiting"

\* The operations that hold a place in some lane.
Held == {op \in Operations : \E l \in Lanes : Has(l, {op})}

\* accepted_operations counts the operations in the lanes exactly, whatever mix of
\* rejections, settlements, aborts and drops emptied them (each path decrements
\* once, saturating), and neither limit is exceeded.
CapacityAccounting ==
    /\ accepted_operations = Cardinality(Held)
    /\ accepted_operations <= MaxOperations
    /\ \A th \in Threads : Len(cells[th]) <= MaxThreadOperations

\* A history edit never shares its lane with a Turn or with another edit.
HistoryEditAlone ==
    \A th \in Threads : Has(th, IdleMutations) =>
        /\ ~Has(th, Turns)
        /\ \A i, j \in DOMAIN cells[th] :
              cells[th][i] \in IdleMutations /\ cells[th][j] \in IdleMutations => i = j

\* The public activity tells the truth about the lane: the executing Turn is the
\* active one, the Turns counted are the accepted ones, and a Turn whose
\* acceptance is undecided is not visible.
ActivityTruthful ==
    \A th \in Threads :
        LET visible == {t \in Turns : Has(th, {t}) /\ task[t] \notin {"reserved"}}
            a == Activity(th)
        IN  /\ a.running <=> visible # {}
            /\ a.active # None => a.active \in visible
            /\ a.queued = Cardinality(visible \ {a.active})
            /\ \A t \in visible : task[t] = "running" => a.active = t

\* Every change of a Thread's public activity gets a new, larger revision, so
\* two snapshots with one revision are equal.  (Draining the slots, the last
\* act of a shutdown, publishes nothing.)
RevisionTracksActivity ==
    [][ drained' = drained =>
          /\ activity_revision' >= activity_revision
          /\ (\E th \in Threads : Activity(th)' # Activity(th))
                => activity_revision' > activity_revision ]_vars

\* Once admission is closed no Turn awaits its acceptance decision (the gate is
\* held until it is made), so a forced abort never hits an acceptance
\* transaction and the drained slots are all accepted Turns.
NoAcceptanceAfterClose ==
    ~open => /\ Admitting = {}
             /\ \A t \in Turns : turns[t] # "pendingAcceptance"

\* The inductive invariant behind the safety properties.  A lane entry is the
\* single place of an operation that reserved this lane and has not released it.
Placement ==
    \A l \in Lanes : \A i \in DOMAIN cells[l] :
        /\ lane_of[cells[l][i]] = l
        /\ task[cells[l][i]] \in Tracked \cup {"aborted"}
        /\ \A j \in DOMAIN cells[l] : cells[l][j] = cells[l][i] => j = i

\* A spawned task holds its place until the lanes are dropped under it, and runs
\* only with its signal.
TasksHoldLanes ==
    \A op \in Operations :
        /\ task[op] \in Tracked =>
              /\ lane_of[op] \in Lanes
              /\ ~drained => \E i \in DOMAIN cells[lane_of[op]] : cells[lane_of[op]][i] = op
        /\ task[op] = "running" => ready[op] = "sent"

\* After the lanes are dropped nothing can enter them or start any more.
AfterDrain ==
    drained => /\ ~open
               /\ \A l \in Lanes : cells[l] = <<>>
               /\ \A op \in Operations : task[op] # "queued"

\* A shutdown is forced only after admission is closed.
ForceAfterClose == forced => ~open

\* Who awaits its acceptance decision holds the gate.
GateHeld ==
    \A t \in Turns : turns[t] = "pendingAcceptance" => task[t] = "reserved"

LaneInvariant ==
    /\ TypeOK
    /\ Placement
    /\ FrontSignalled
    /\ TasksHoldLanes
    /\ AfterDrain
    /\ ForceAfterClose
    /\ GateHeld
    /\ NoAcceptanceAfterClose
    /\ LaneExclusive

\* A reservation is always settled: its operation ends, or a forced shutdown
\* stops it.
ReservationSettles ==
    \A op \in Operations :
        task[op] = "reserved" ~> task[op] \in {"done", "aborted"}

\* A requested shutdown is not kept waiting for ever: admission closes and the
\* slots are drained.
ShutdownDrains == closing ~> drained

\* The lanes implement SerialLanes: one operation at a time, in order.
Promise == INSTANCE SerialLanes WITH
    queue <- cells,
    executing <- [l \in Lanes |->
                    {op \in Operations : task[op] = "running" /\ lane_of[op] = l}]

ImplementsSerialLanes == Promise!Spec
=============================================================================
