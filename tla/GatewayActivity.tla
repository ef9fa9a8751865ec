--------------------------- MODULE GatewayActivity ---------------------------
(***************************************************************************)
(* The Shell activities of one Thread, started by several Gateway          *)
(* processes that share a store (crates/psychevo-gateway/src/gateway:      *)
(* public_api.rs, active_queue.rs, turn_shell.rs, durable_activity.rs,     *)
(* supervisor.rs; crates/psychevo/src/store: gateway_activity.rs,          *)
(* gateway_control.rs): each process's queue of Shells, the claim, lease   *)
(* and generation of their durable rows, the process's runtime task that   *)
(* renews leases and applies the control commands of other processes, the  *)
(* completion of a Shell on every path, shutdown and the loss of a         *)
(* process.                                                                *)
(*                                                                         *)
(* Every store transaction is one step, and what the code does with its    *)
(* result is another.  Time is a clock that may move between any two       *)
(* steps: a process may be suspended or the database busy for longer than  *)
(* a lease lasts.                                                          *)
(***************************************************************************)
EXTENDS Naturals, Sequences, SequencesExt, FiniteSets, FiniteSetsExt

CONSTANTS
    Owners,      \* the owner ids: one per process, never used again
    Shells,      \* Shell activity ids
    Home,        \* [Shells -> Owners]: the process a Shell is sent to
    Commands,    \* control commands other processes may issue
    Kind,        \* [Commands -> CommandKinds]
    Lease,       \* GATEWAY_ACTIVITY_LEASE_MS, in ticks
    ShellLimit,  \* shell_activity_limit
    QueueLimit,  \* shell_queue_limit
    Plans,       \* what may happen in a behaviour: see Plan
    None

CommandKinds == {"interrupt", "steer", "clarify", "permission"}

\* The bounds of a behaviour: the Shells that may be sent, the commands that
\* may be issued, the processes that may be lost or shut down, the ticks of
\* the clock and the operations that may fail.
Plan == [shells : SUBSET Shells, commands : SUBSET Commands, crash : SUBSET Owners,
         stop : SUBSET Owners, ticks : Nat, failures : Nat]

ASSUME GatewayActivityAssumption ==
    /\ Home \in [Shells -> Owners]
    /\ Kind \in [Commands -> CommandKinds]
    /\ Plans \subseteq Plan
    /\ Lease \in Nat
    /\ ShellLimit \in Nat \ {0} /\ QueueLimit \in Nat
    /\ Shells # {}
    /\ None \notin Shells \cup Owners \cup {"ok", "err"}

VARIABLES
    now,      \* gateway_now_ms
    row,      \* [Shells -> [status, gen, lease]]: gateway_activities; the
              \* lease of a row that is not active is never read: 0
    cmd,      \* [Commands -> [status, shell]]: gateway_control_commands
    inbox,    \* [Owners -> the commands pending for it, in insertion order]
    proc,     \* [Owners -> ProcState]
    queue,    \* [Owners -> [running, active, waiting]]: the Thread's entry
              \* of active_queue
    stage,    \* [Shells -> Stage]: how far a Shell is
    clock,    \* [Shells -> the time its claim read, while it is claiming]
    tracked,  \* the Shells in shell_activity_runtime.activities
    lost,     \* the Shells whose lease_lost token is cancelled
    result,   \* [Shells -> what its caller is answered, or will be]
    runtime,  \* [Owners -> Runtime]: the runtime task
    plan,     \* the bounds chosen at first, and the failures left of them
    effects,  \* history: [Commands -> the Shells its side effect hit]
    excused   \* history: the <<shell, transaction>> that failed

storeVars   == <<row, cmd, inbox>>
shellVars   == <<queue, stage, clock, tracked, lost, result>>
historyVars == <<effects, excused>>
vars == <<now, storeVars, proc, shellVars, runtime, plan, historyVars>>

RowStatus == {"none", "running", "finished", "superseded"}
CommandStatus ==
    {"none", "looked_up", "dropped", "pending", "applying", "applied", "failed",
     "outcome_indeterminate"}
ProcState == {"up", "draining", "cancelling", "cancelled", "stopped", "lost"}
Stage == {"new", "admitted", "queued", "spawned", "registered", "claiming", "claimed",
          "running", "abandoned", "settled", "closing", "done", "gone"}
RuntimeStage == {"idle", "claim", "apply", "mark", "beat", "conclude"}

NoEntry  == [running |-> FALSE, active |-> None, waiting |-> <<>>]
Resting  == [at |-> "idle", batch |-> <<>>, verdict |-> None, snap |-> {}, read |-> 0]

TypeOK ==
    /\ now \in 0..plan.ticks
    /\ row \in [Shells -> [status : RowStatus, gen : Nat, lease : Nat]]
    /\ cmd \in [Commands -> [status : CommandStatus, shell : Shells \cup {None}]]
    /\ inbox \in [Owners -> Seq(Commands)]
    /\ proc \in [Owners -> ProcState]
    /\ queue \in [Owners -> [running : BOOLEAN, active : Shells \cup {None},
                             waiting : Seq(Shells)]]
    /\ stage \in [Shells -> Stage]
    /\ clock \in [Shells -> 0..plan.ticks]
    /\ tracked \subseteq Shells /\ lost \subseteq Shells
    /\ result \in [Shells -> {None, "ok", "err"}]
    /\ runtime \in [Owners -> [at : RuntimeStage, batch : Seq(Commands),
                               verdict : {None, "applied", "failed"},
                               snap : SUBSET Shells, read : 0..plan.ticks]]
    /\ plan \in Plan
    /\ effects \in [Commands -> Seq(Shells)]
    /\ excused \subseteq Shells \X {"finish", "heartbeat"}

Init ==
    /\ now = 0
    /\ row = [s \in Shells |-> [status |-> "none", gen |-> 0, lease |-> 0]]
    /\ cmd = [c \in Commands |-> [status |-> "none", shell |-> None]]
    /\ inbox = [o \in Owners |-> <<>>]
    /\ proc = [o \in Owners |-> "up"]
    /\ queue = [o \in Owners |-> NoEntry]
    /\ stage = [s \in Shells |-> "new"]
    /\ clock = [s \in Shells |-> 0]
    /\ tracked = {} /\ lost = {}
    /\ result = [s \in Shells |-> None]
    /\ runtime = [o \in Owners |-> Resting]
    /\ plan \in Plans
    /\ effects = [c \in Commands |-> <<>>]
    /\ excused = {}

-----------------------------------------------------------------------------
(* Helpers.                                                                *)

Alive(o)    == proc[o] \notin {"stopped", "lost"}

\* The process still polls its activities' tasks: a forced shutdown makes the
\* select of spawn_finalizer_owned_activity drop them.
Polls(o)    == proc[o] \in {"up", "draining"}

ShellsOf(o) == {s \in Shells : Home[s] = o}

\* The Shells that hold a permit of the supervisor.
Permitted(o) == {s \in ShellsOf(o) : stage[s] \notin {"new", "done", "gone"}}

\* The Shells whose spawned task has not ended.
Working == {s \in Shells : stage[s] \in {"spawned", "registered", "claiming", "claimed",
                                         "running", "abandoned", "settled", "closing"}}

\* The rows that count as activity, and the one a query finds: the newest.
Active == {s \in Shells : row[s].status = "running"}
Newest == CHOOSE s \in Active : \A t \in Active : row[t].gen <= row[s].gen
Unexpired(s, t) == row[s].lease >= t

\* The largest generation any row of the Thread has.
Generation == Max({row[s].gen : s \in Shells})

Move(s, at) == stage' = [stage EXCEPT ![s] = at]
Answer(s, a) == result' = [result EXCEPT ![s] = a]

\* A store operation, or another fallible one, fails.
Fail ==
    /\ plan.failures > 0
    /\ plan' = [plan EXCEPT !.failures = @ - 1]

-----------------------------------------------------------------------------
(* A Shell is sent, queued, started and claimed.                           *)

\* send_shell: admission, which closes on shutdown and is bounded.
Admit(s) ==
    /\ stage[s] = "new"
    /\ s \in plan.shells
    /\ proc[Home[s]] # "lost"
    /\ IF proc[Home[s]] = "up" /\ Cardinality(Permitted(Home[s])) < ShellLimit
       THEN Move(s, "admitted") /\ UNCHANGED result
       ELSE Move(s, "done") /\ Answer(s, "err")
    /\ UNCHANGED <<now, storeVars, proc, queue, clock, tracked, lost, runtime, plan,
                   historyVars>>

\* send_shell, after the queue key was looked up: start at once, wait, or be
\* refused by a full queue.
Enter(s) ==
    LET o == Home[s] IN
    /\ stage[s] = "admitted"
    /\ Alive(o)
    /\ \/ /\ ~queue[o].running
          /\ queue' = [queue EXCEPT ![o].running = TRUE]
          /\ Move(s, "spawned") /\ UNCHANGED result
       \/ /\ queue[o].running
          /\ Len(queue[o].waiting) < QueueLimit
          /\ queue' = [queue EXCEPT ![o].waiting = Append(@, s)]
          /\ Move(s, "queued") /\ UNCHANGED result
       \/ /\ queue[o].running
          /\ Len(queue[o].waiting) >= QueueLimit
          /\ Move(s, "done") /\ Answer(s, "err")
          /\ UNCHANGED queue
    /\ UNCHANGED <<now, storeVars, proc, clock, tracked, lost, runtime, plan,
                   historyVars>>

\* run_shell: register_active gives the activity its local control.
Register(s) ==
    /\ stage[s] = "spawned"
    /\ Polls(Home[s])
    /\ queue' = [queue EXCEPT ![Home[s]].active = s]
    /\ Move(s, "registered")
    /\ UNCHANGED <<now, storeVars, proc, clock, tracked, lost, result, runtime, plan,
                   historyVars>>

\* claim_durable_gateway_activity reads the clock before its transaction.
BeginClaim(s) ==
    /\ stage[s] = "registered"
    /\ Polls(Home[s])
    /\ clock' = [clock EXCEPT ![s] = now]
    /\ Move(s, "claiming")
    /\ UNCHANGED <<now, storeVars, proc, queue, tracked, lost, result, runtime, plan,
                   historyVars>>

\* claim_gateway_activity refuses a claim when the newest active row is
\* another owner's and its lease has not run out.
Refused(s) ==
    /\ Active # {}
    /\ Unexpired(Newest, clock[s])
    /\ Home[Newest] # Home[s]

\* Mutant: what ran out is left as it is.
SupersedesNone(s) == {}

\* The rows a granted claim supersedes: every active one that ran out.
Superseded(s) == {t \in Active : ~Unexpired(t, clock[s])}

\* claim_gateway_activity: one transaction.
Claim(s) ==
    /\ stage[s] = "claiming"
    /\ Polls(Home[s])
    /\ IF Refused(s)
       THEN /\ Move(s, "abandoned") /\ Answer(s, "err")
            /\ UNCHANGED row
       ELSE /\ row' = [t \in Shells |->
                        IF t = s THEN [status |-> "running", gen |-> Generation + 1,
                                       lease |-> clock[s] + Lease]
                        ELSE IF t \in Superseded(s)
                             THEN [row[t] EXCEPT !.status = "superseded", !.lease = 0]
                             ELSE row[t]]
            /\ Move(s, "claimed") /\ UNCHANGED result
    /\ clock' = [clock EXCEPT ![s] = 0]
    /\ UNCHANGED <<now, cmd, inbox, proc, queue, tracked, lost, runtime, plan,
                   historyVars>>

\* track_shell_activity, once the claim has returned.
Track(s) ==
    /\ stage[s] = "claimed"
    /\ Polls(Home[s])
    /\ tracked' = tracked \cup {s}
    /\ Move(s, "running")
    /\ UNCHANGED <<now, storeVars, proc, queue, clock, lost, result, runtime, plan,
                   historyVars>>

\* persist_gateway_event: the Shell's first entry binds the row to the Thread
\* and renews its lease (of any row of this owner and generation: of one that
\* is no longer active too, where it does not matter).
BindThread(s) ==
    /\ stage[s] = "running"
    /\ Polls(Home[s])
    /\ s \in Active
    /\ row[s].lease # now + Lease
    /\ row' = [row EXCEPT ![s].lease = now + Lease]
    /\ UNCHANGED <<now, cmd, inbox, proc, shellVars, runtime, plan, historyVars>>

-----------------------------------------------------------------------------
(* A Shell ends: every path goes through one completion.                   *)

\* run_shell: the execution returns or fails, or the lease_lost token wins the
\* select; untrack_shell_activity follows at once.
Settle(s) ==
    /\ stage[s] = "running"
    /\ Polls(Home[s])
    /\ \/ Answer(s, "ok") /\ UNCHANGED plan
       \/ s \in lost /\ Answer(s, "err") /\ UNCHANGED plan
       \/ Fail /\ Answer(s, "err")
    /\ tracked' = tracked \ {s}
    /\ Move(s, "settled")
    /\ UNCHANGED <<now, storeVars, proc, queue, clock, lost, runtime, historyVars>>

\* spawn_finalizer_owned_activity: the task is dropped by a forced shutdown,
\* fails or panics before it could settle; finalize_abandoned_shell_activity
\* starts by untracking.
Abandon(s) ==
    /\ stage[s] \in {"spawned", "registered", "claiming", "claimed", "running"}
    /\ \/ proc[Home[s]] \in {"cancelling", "cancelled"} /\ UNCHANGED plan
       \/ Alive(Home[s]) /\ Fail
    /\ tracked' = tracked \ {s}
    /\ Move(s, "abandoned") /\ Answer(s, "err")
    /\ clock' = [clock EXCEPT ![s] = 0]
    /\ UNCHANGED <<now, storeVars, proc, queue, lost, runtime, historyVars>>

\* finalize_abandoned_shell_activity reads the row: only one that is still
\* active has to be finished.
ReadAbandoned(s) ==
    /\ stage[s] = "abandoned"
    /\ Alive(Home[s])
    /\ \/ /\ Move(s, IF row[s].status = "running" THEN "settled" ELSE "closing")
          /\ UNCHANGED <<plan, excused>>
       \/ /\ Fail
          /\ Move(s, "closing")
          /\ excused' = excused \cup {<<s, "finish">>}
    /\ UNCHANGED <<now, storeVars, proc, queue, clock, tracked, lost, result, runtime,
                   effects>>

\* finish_durable_gateway_activity: finish_gateway_activity changes a row that
\* is still active under its owner and generation; a Shell whose row could not
\* be finished is not reported as done, nor is one for which the fence of the
\* event ingress, or the clearing of its live snapshots, failed beside it.
Finish(s) ==
    /\ stage[s] = "settled"
    /\ Alive(Home[s])
    /\ Move(s, "closing")
    /\ \/ /\ row[s].status = "running"
          /\ row' = [row EXCEPT ![s].status = "finished", ![s].lease = 0]
          /\ \/ UNCHANGED <<result, plan>>
             \/ Fail /\ Answer(s, "err")
          /\ UNCHANGED excused
       \/ /\ row[s].status # "running"
          /\ Answer(s, "err")
          /\ UNCHANGED <<row, plan, excused>>
       \/ /\ Fail
          /\ Answer(s, "err")
          /\ excused' = excused \cup {<<s, "finish">>}
          /\ UNCHANGED row
    /\ UNCHANGED <<now, cmd, inbox, proc, queue, clock, tracked, lost, runtime, effects>>

\* finish_activity_and_spawn_next; then the permit is dropped and the caller
\* answered.
Close(s) ==
    LET o == Home[s]
        waiting == queue[o].waiting IN
    /\ stage[s] = "closing"
    /\ Alive(o)
    /\ queue' = [queue EXCEPT ![o] =
            IF waiting = <<>> THEN NoEntry
            ELSE [running |-> TRUE, active |-> None, waiting |-> Tail(waiting)]]
    /\ stage' = [t \in Shells |->
            IF t = s THEN "done"
            ELSE IF waiting # <<>> /\ t = Head(waiting) THEN "spawned" ELSE stage[t]]
    /\ UNCHANGED <<now, storeVars, proc, clock, tracked, lost, result, runtime, plan,
                   historyVars>>

\* The Shells that wait in a queue are dropped and their callers told so.
DropWaiting(o) ==
    LET waiting == Range(queue[o].waiting) IN
    /\ stage' = [s \in Shells |-> IF s \in waiting THEN "done" ELSE stage[s]]
    /\ result' = [s \in Shells |-> IF s \in waiting THEN "err" ELSE result[s]]

\* thread/action/run Interrupt on the owner's own surface: the active Shell's
\* control is interrupted and clear_queue drops the others.
InterruptLocally(o) ==
    /\ Alive(o)
    /\ queue[o].waiting # <<>>
    /\ DropWaiting(o)
    /\ queue' = [queue EXCEPT ![o].waiting = <<>>]
    /\ UNCHANGED <<now, storeVars, proc, clock, tracked, lost, runtime, plan,
                   historyVars>>

-----------------------------------------------------------------------------
(* Control commands of another process.                                    *)

\* enqueue_foreign_control_command: the newest active row tells whom to
\* address, when it is a foreign owner's and its lease has not run out.
LookUp(c) ==
    /\ cmd[c].status = "none"
    /\ c \in plan.commands
    /\ Active # {}
    /\ Unexpired(Newest, now)
    /\ \E o \in Owners \ {Home[Newest]} : Alive(o)
    /\ cmd' = [cmd EXCEPT ![c] = [status |-> "looked_up", shell |-> Newest]]
    /\ UNCHANGED <<now, row, inbox, proc, shellVars, runtime, plan, historyVars>>

\* enqueue_gateway_control_command.
Enqueue(c) ==
    LET o == Home[cmd[c].shell] IN
    /\ cmd[c].status = "looked_up"
    /\ \/ /\ cmd' = [cmd EXCEPT ![c].status = "pending"]
          /\ inbox' = [inbox EXCEPT ![o] = Append(@, c)]
          /\ UNCHANGED plan
       \/ /\ Fail
          /\ cmd' = [cmd EXCEPT ![c].status = "dropped"]
          /\ UNCHANGED inbox
    /\ UNCHANGED <<now, row, proc, shellVars, runtime, historyVars>>

-----------------------------------------------------------------------------
(* The runtime task of a process: ensure_shell_activity_runtime.  It does  *)
(* nothing while no Shell is tracked, and one thing at a time.             *)

Busy(o) == tracked \cap ShellsOf(o) # {}
Rest(o) == runtime' = [runtime EXCEPT ![o] = Resting]

\* The commands recover_indeterminate_gateway_control_commands gives up on:
\* being applied for an activity that has no live claim of that owner.
Indeterminate ==
    {c \in Commands :
        /\ cmd[c].status = "applying"
        /\ ~(row[cmd[c].shell].status = "running" /\ Unexpired(cmd[c].shell, now))}

SetStatus(cs, status) ==
    cmd' = [c \in Commands |-> IF c \in cs THEN [cmd[c] EXCEPT !.status = status] ELSE cmd[c]]

\* Mutant: what cannot be known is tried again.
RecoverToPending == SetStatus(Indeterminate, "pending")

RecoverCommands == SetStatus(Indeterminate, "outcome_indeterminate")

\* apply_pending_gateway_control_commands, first transaction.
Recover(o) ==
    /\ runtime[o].at = "idle" /\ Busy(o) /\ Alive(o)
    /\ \/ RecoverCommands /\ UNCHANGED plan
       \/ Fail /\ UNCHANGED cmd
    /\ runtime' = [runtime EXCEPT ![o].at = "claim"]
    /\ UNCHANGED <<now, row, inbox, proc, shellVars, historyVars>>

\* claim_pending_gateway_control_commands: everything pending for this owner,
\* in insertion order.  The code's limit of 50 a round is left out: what it
\* leaves pending is claimed, in the same order, by the next round.
ClaimCommands(o) ==
    LET batch == inbox[o] IN
    /\ runtime[o].at = "claim" /\ Alive(o)
    /\ \/ /\ SetStatus(Range(batch), "applying")
          /\ inbox' = [inbox EXCEPT ![o] = <<>>]
          /\ runtime' = [runtime EXCEPT ![o] =
                IF batch = <<>> THEN Resting ELSE [Resting EXCEPT !.at = "apply", !.batch = batch]]
          /\ UNCHANGED plan
       \/ Fail /\ Rest(o) /\ UNCHANGED <<cmd, inbox>>
    /\ UNCHANGED <<now, row, proc, shellVars, historyVars>>

\* The side effect: an interrupt reaches the local control of the activity it
\* names, if that is the active one; nothing else applies to a Shell.
Apply(o) ==
    LET c == Head(runtime[o].batch)
        hit == Kind[c] = "interrupt" /\ queue[o].active = cmd[c].shell IN
    /\ runtime[o].at = "apply" /\ Alive(o)
    /\ runtime' = [runtime EXCEPT ![o].at = "mark",
                                  ![o].verdict = IF hit THEN "applied" ELSE "failed"]
    /\ effects' = IF hit THEN [effects EXCEPT ![c] = Append(@, queue[o].active)] ELSE effects
    /\ UNCHANGED <<now, storeVars, proc, shellVars, plan, excused>>

\* mark_gateway_control_command_applied or _failed, on a command that is still
\* being applied; then the next one of the batch.
MarkCommand(o) ==
    LET c == Head(runtime[o].batch)
        rest == Tail(runtime[o].batch) IN
    /\ runtime[o].at = "mark" /\ Alive(o)
    /\ \/ /\ IF cmd[c].status = "applying" THEN SetStatus({c}, runtime[o].verdict)
                                          ELSE UNCHANGED cmd
          /\ UNCHANGED plan
       \/ Fail /\ UNCHANGED cmd
    /\ runtime' = [runtime EXCEPT ![o] =
            IF rest = <<>> THEN Resting ELSE [Resting EXCEPT !.at = "apply", !.batch = rest]]
    /\ UNCHANGED <<now, row, inbox, proc, shellVars, historyVars>>

\* refresh_shell_activity_leases: a copy of the tracked activities, and the
\* time the new leases count from.
Snapshot(o) ==
    /\ runtime[o].at = "idle" /\ Busy(o) /\ Alive(o)
    /\ runtime' = [runtime EXCEPT ![o] =
            [Resting EXCEPT !.at = "beat", !.snap = tracked \cap ShellsOf(o), !.read = now]]
    /\ UNCHANGED <<now, storeVars, proc, shellVars, plan, historyVars>>

\* heartbeat_gateway_activities: one transaction renews every row that is
\* still active; what it did not renew is kept for the next step.
Beat(o) ==
    LET beat == runtime[o].snap
        kept == beat \cap Active IN
    /\ runtime[o].at = "beat" /\ Alive(o)
    /\ \/ /\ row' = [s \in Shells |->
                IF s \in kept THEN [row[s] EXCEPT !.lease = runtime[o].read + Lease] ELSE row[s]]
          /\ runtime' = [runtime EXCEPT ![o] =
                IF beat = kept THEN Resting
                ELSE [Resting EXCEPT !.at = "conclude", !.snap = beat \ kept]]
          /\ UNCHANGED <<plan, excused>>
       \/ /\ Fail
          /\ runtime' = [runtime EXCEPT ![o] = [Resting EXCEPT !.at = "conclude", !.snap = beat]]
          /\ excused' = excused \cup (beat \X {"heartbeat"})
          /\ UNCHANGED row
    /\ UNCHANGED <<now, cmd, inbox, proc, shellVars, effects>>

\* Mutant: whatever the copy holds is cancelled.
CancelAll(o) == runtime[o].snap

\* cancel_shell_activity_if_still_tracked: those of a stale copy that ended in
\* the meantime are left alone.
StillTracked(o) == runtime[o].snap \cap tracked

Conclude(o) ==
    /\ runtime[o].at = "conclude" /\ Alive(o)
    /\ lost' = lost \cup StillTracked(o)
    /\ Rest(o)
    /\ UNCHANGED <<now, storeVars, proc, queue, stage, clock, tracked, result, plan,
                   historyVars>>

-----------------------------------------------------------------------------
(* Shutdown and loss of a process, and time.                               *)

\* shutdown_activity_runtime(force): admission closes; a forced one cancels
\* the activities' tasks and then empties the queue.  The host forces the
\* shutdown that is still draining at its deadline.
Shutdown(o) ==
    /\ o \in plan.stop
    /\ \E to \in {"draining", "cancelling"} :
        /\ proc[o] = "up" \/ (proc[o] = "draining" /\ to = "cancelling")
        /\ proc' = [proc EXCEPT ![o] = to]
    /\ UNCHANGED <<now, storeVars, shellVars, runtime, plan, historyVars>>

\* cancel_active_queue.
CancelQueue(o) ==
    /\ proc[o] = "cancelling"
    /\ proc' = [proc EXCEPT ![o] = "cancelled"]
    /\ DropWaiting(o)
    /\ queue' = [queue EXCEPT ![o] = NoEntry]
    /\ UNCHANGED <<now, storeVars, clock, tracked, lost, runtime, plan, historyVars>>

\* wait_for_activities, then the runtime task is stopped: between two rounds,
\* or wherever it is when the shutdown is forced.
StopRuntime(o) ==
    /\ \/ proc[o] = "draining" /\ runtime[o].at = "idle"
       \/ proc[o] = "cancelled"
    /\ Permitted(o) = {}
    /\ proc' = [proc EXCEPT ![o] = "stopped"]
    /\ Rest(o)
    /\ UNCHANGED <<now, storeVars, shellVars, plan, historyVars>>

\* The process is lost: what it kept in memory is gone.
Crash(o) ==
    /\ o \in plan.crash
    /\ Alive(o)
    /\ proc' = [proc EXCEPT ![o] = "lost"]
    /\ queue' = [queue EXCEPT ![o] = NoEntry]
    /\ stage' = [s \in Shells |-> IF Home[s] = o /\ stage[s] # "done" THEN "gone" ELSE stage[s]]
    /\ tracked' = tracked \ ShellsOf(o)
    /\ lost' = lost \ ShellsOf(o)
    /\ clock' = [s \in Shells |-> IF Home[s] = o THEN 0 ELSE clock[s]]
    /\ Rest(o)
    /\ UNCHANGED <<now, storeVars, result, plan, historyVars>>

Tick ==
    /\ now < plan.ticks
    /\ now' = now + 1
    /\ UNCHANGED <<storeVars, proc, shellVars, runtime, plan, historyVars>>

\* Nothing is left to do.
Ended ==
    /\ \A s \in plan.shells : stage[s] \in {"done", "gone"}
    /\ \A o \in Owners : runtime[o].at = "idle"
    /\ UNCHANGED vars

ShellStep(s) ==
    \/ Admit(s) \/ Enter(s) \/ Register(s) \/ BeginClaim(s) \/ Claim(s) \/ Track(s)
    \/ BindThread(s) \/ Settle(s) \/ Abandon(s) \/ ReadAbandoned(s) \/ Finish(s) \/ Close(s)

RuntimeStep(o) ==
    \/ Recover(o) \/ ClaimCommands(o) \/ Apply(o) \/ MarkCommand(o)
    \/ Snapshot(o) \/ Beat(o) \/ Conclude(o)

ProcessStep(o) ==
    \/ InterruptLocally(o) \/ Shutdown(o) \/ CancelQueue(o) \/ StopRuntime(o) \/ Crash(o)

Next ==
    \/ \E s \in Shells : ShellStep(s)
    \/ \E c \in Commands : LookUp(c) \/ Enqueue(c)
    \/ \E o \in Owners : RuntimeStep(o) \/ ProcessStep(o)
    \/ Tick
    \/ Ended

Spec == Init /\ [][Next]_vars

-----------------------------------------------------------------------------
(* Properties.                                                             *)

\* The rows implement a lease: whoever has an unexpired active row is alone
\* with it, every claim advances the generation, and only the owner of the
\* newest generation can renew a claim that ran out.
Claims == INSTANCE ActivityLease WITH
    holders <- {Home[s] : s \in {t \in Active : Unexpired(t, now)}},
    latest  <- IF Generation = 0 THEN None
               ELSE Home[CHOOSE s \in Shells : row[s].gen = Generation],
    term    <- Generation

\* Claims, heartbeats, completions, crashes and takeovers of all processes
\* keep to the lease (claim_gateway_activity, heartbeat_gateway_activities,
\* finish_gateway_activity): a late renewal or completion of an old generation
\* never takes the activity from a newer owner.
LeaseKept == Claims!Spec

\* Whatever the row of a control command says is true of its side effect,
\* across slow owners, recovery by other processes and failing transactions:
\* it is applied at most once, to the activity it was addressed to, never
\* before the claim, and "applied" and "failed" are never wrong
\* (apply_pending_gateway_control_commands).
CommandsHonest ==
    \A c \in Commands :
        /\ Len(effects[c]) <= 1
        /\ Range(effects[c]) \subseteq {cmd[c].shell}
        /\ cmd[c].status = "applied" => effects[c] # <<>>
        /\ cmd[c].status \in {"pending", "failed", "dropped"} => effects[c] = <<>>

\* Every Shell is accounted for.  A caller is told that its Shell is done only
\* if the row says so too; a Shell that ended leaves no active row behind
\* unless the store failed; a lease is reported lost only to a Shell that was
\* superseded or whose heartbeat failed, never from a stale copy; and while
\* no shutdown is forced, the queue runs exactly one Shell or is empty.
ShellsAccounted ==
    /\ \A s \in Shells :
        /\ stage[s] = "done" /\ result[s] = "ok" => row[s].status = "finished"
        /\ stage[s] = "done" => row[s].status # "running" \/ <<s, "finish">> \in excused
        /\ s \in lost => row[s].status = "superseded" \/ <<s, "heartbeat">> \in excused
    /\ \A o \in Owners :
        proc[o] \in {"up", "draining", "stopped"} =>
            /\ Cardinality(Working \cap ShellsOf(o)) = IF queue[o].running THEN 1 ELSE 0
            /\ {s \in ShellsOf(o) : stage[s] = "queued"} = Range(queue[o].waiting)
            /\ queue[o].waiting # <<>> => queue[o].running
=============================================================================
