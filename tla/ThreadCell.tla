----------------------------- MODULE ThreadCell -----------------------------
(***************************************************************************)
(* The FIFO serialization lane of one Thread                               *)
(* (crates/psychevo/src/application/runtime.rs, struct ThreadCell) and the *)
(* public activity that is projected from it.                              *)
(*                                                                         *)
(* A cell is the sequence of the operations in its VecDeque, each named by *)
(* its identity: a Turn by its id, a mutation by its operation id.  What   *)
(* the queue keeps beside the identity is kept beside the cell by the      *)
(* modules that use it: the Option<oneshot::Sender> in `ready', the        *)
(* durable_accepted flags as a set of operations.                          *)
(***************************************************************************)
EXTENDS Naturals, Sequences, SequencesExt

\* The one-shot sender of an operation: not created yet, still held by the
\* cell (ready = Some), taken and sent, or dropped together with its cell.
Signal == {"none", "waiting", "sent", "dropped"}

\* release_front_waiter: the front operation's sender, if still there, is taken
\* and its receiver woken.
ReleaseFrontWaiter(cell, ready) ==
    IF cell # <<>> /\ ready[Head(cell)] = "waiting"
    THEN [ready EXCEPT ![Head(cell)] = "sent"]
    ELSE ready

\* Mutants: a reservation that never wakes a lone operation, and one that wakes
\* every operation it enqueues.
ReserveReadyNoWake(cell, ready, op) == [ready EXCEPT ![op] = "waiting"]
ReserveReadyAlways(cell, ready, op) == [ready EXCEPT ![op] = "sent"]

\* The senders after ThreadCell::reserve pushed op: only an operation that is
\* alone in its cell is woken at once.
ReserveReady(cell, ready, op) ==
    LET queued == [ready EXCEPT ![op] = "waiting"]
    IN  IF Len(cell) = 0 THEN ReleaseFrontWaiter(<<op>>, queued) ELSE queued

\* Mutant: releasing the front operation without handing the lane over.
ReleaseReadyNoHandover(cell, ready, op) ==
    [ready EXCEPT ![op] = IF @ = "waiting" THEN "dropped" ELSE @]

\* The senders after ThreadCell::release removed op: its own is dropped with it,
\* and when it was the front the next operation is woken.
ReleaseReady(cell, ready, op) ==
    LET left == [ready EXCEPT ![op] = IF @ = "waiting" THEN "dropped" ELSE @]
    IN  IF cell # <<>> /\ Head(cell) = op
        THEN ReleaseFrontWaiter(Tail(cell), left)
        ELSE left

\* The Turns of a cell that count, by their place: those whose acceptance is
\* durable.
AcceptedTurns(cell, turns, accepted) ==
    {i \in DOMAIN cell : cell[i] \in turns /\ cell[i] \in accepted}

\* The Turn that is reported active: the first one of the cell, unless its
\* acceptance is not durable yet (pending_turn_precedes_head); a Turn behind a
\* pending one is never the active one.
ActiveTurn(cell, turns, accepted, none) ==
    LET places == {i \in DOMAIN cell : cell[i] \in turns}
    IN  IF places # {} /\ cell[Min(places)] \in accepted THEN cell[Min(places)] ELSE none

\* Mutant: durable acceptance is ignored when the active Turn is chosen.
ActivityIgnoresAcceptance(cell, turns, accepted, none) ==
    LET active == ActiveTurn(cell, turns, turns, none)
        count  == Cardinality(AcceptedTurns(cell, turns, turns))
    IN  [running |-> count > 0, active |-> active,
         queued  |-> count - (IF active = none THEN 0 ELSE 1)]

\* thread_cell_activity: (running, active_turn_id, queued_turns).
ThreadCellActivity(cell, turns, accepted, none) ==
    LET active == ActiveTurn(cell, turns, accepted, none)
        count  == Cardinality(AcceptedTurns(cell, turns, accepted))
    IN  [running |-> count > 0, active |-> active,
         queued  |-> count - (IF active = none THEN 0 ELSE 1)]
=============================================================================
