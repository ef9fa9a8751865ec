# A TLA+ verification of the Psychevo runtime

Psychevo is a local coding agent written in Rust: a `psychevo` library with the
Application runtime and its SQLite store, a Gateway that serves it to several
user interfaces, an agent core that drives the model loop, and hosts (CLI, TUI,
Workbench, Desktop, ACP, chat channels). This directory models the part every
host depends on: how the Application admits work, serializes it per Thread, runs
a Turn to one durable terminal outcome, lets clients follow and answer it, and
shuts down; how the agent loop takes messages while it runs; how background
Agents end and report to their parent; and how several Gateway processes share
the Shells of a Thread.

Paths below are relative to `crates/psychevo/src/` unless they start with
`crates/`.

## 1. Inventory

| Part | State | Operations | Interacts with | Hard behaviour | What makes it correct |
|---|---|---|---|---|---|
| Application runtime (`application/runtime.rs`) | `open`, `accepted_operations`, `activity_revision`, a queue per Thread and one for the Application, Turn slots, all behind one mutex; an RwLock admission gate; a task tracker | reserve, register, accept, settle, release, close admission, take slots, abort all | every API call; the shutdown | lanes are handed over by one-shot senders; releases come from returns, panics, aborts and drops in any order | one operation per lane at a time, FIFO; no lost wakeup; exact capacity; truthful, versioned activity |
| Turn execution (`application/turn.rs`, `turn_completion.rs`) | the Turn task's guard, the staged terminal, the completion | start, accept, reject, stage, finalize, panic, resume | runtime, store, Adapter, event log, interaction broker | commit, slot release and publication are separate; abort or panic between any two | only durable outcomes are published; accepted work is never orphaned; resume answers what is durable |
| Shutdown (`application/lifecycle.rs`) | finalizer mutex, force flag and Notify, the report | graceful, forced, upgraded by another caller, abandoned by a deadline | admission gate, tasks, Adapter, slots, store | the graceful future is dropped at an arbitrary await | a clean report means nothing was lost; State is closed last; it ends |
| Event log (`application/event_log.rs`) | ring of events, sequence numbers, `closed`, Notify | push, close, next | Turn task, Adapter, broker, shutdown as producers; streams as readers | a push between a reader's look and its sleep; overrun; close behind unread events | no silent loss, no lost wakeup, end only behind the close |
| Thread handles (`application/thread.rs`, `history_editing.rs`, `structural_history.rs`) | none of their own | mutations, history edits, start_thread | runtime lanes | edits exclude Turns | an edit never overlaps a Turn |
| Store (`store/`) | delivery, terminal, interaction, activity, control and mailbox rows | transactions | everything durable | process loss, concurrent owners | atomic semantic commits |
| Interaction broker (`application/interaction_broker.rs`) | a bounded command queue and one actor, permission and clarify waiters, interaction rows | request, respond, observe, cancel, finish | tools that ask, hosts that answer, the finalizer, the store, the event log | a response races the timeout, the host's delegate, the cancellation and the finalizer; waiters are taken and put back; the queue is full or closed | a tool goes ahead only on a durable answer; one resolution per interaction; no waiter or receipt is forgotten |
| Gateway activities and control (`crates/psychevo-gateway/src/gateway/`, `store/gateway_activity.rs`, `store/gateway_control.rs`) | activity rows with owner, generation and lease; command rows; a queue per Thread and permits in each process | send a Shell, claim, heartbeat, finish, enqueue and apply a command, recover, shut down | several Gateway processes through one store | stale leases, slow or lost owners, failures anywhere between claim and last write | one owner at a time; a command takes effect at most once and its row is true; no Shell is forgotten |
| Agents (`agents/`, `store/agent_mailbox.rs`) | supervisor slots with a phase and a generation, background tasks, edges, mailbox rows | spawn, message, continue, wait, close, finish, retry, flush | parent and child loops, store, shutdown | a message for an Agent that is about to end; several finalizers of one run; a page claimed and given back | one terminal event per run; every run accounted for; the mailbox agrees with what the parent was given |
| Agent core (`crates/psychevo-agent-core/`) | control input buffer, loop state | inject, steer, update, cancel, drain, stop, abort | Turn task, Agents, hosts | a bounded buffer with updates; input that arrives while the loop ends | exact accounting; accepted input is heard |
| Automations (`automations.rs`, Gateway server) | tasks, runs | schedule, claim, recover | Threads | stale-run recovery against a live run | a due run starts once |
| Providers, permissions, sandbox, compaction, configuration, CLI/TUI, Workbench/Desktop, SDKs, channels, ACP | – | – | – | mostly I/O, text and user interface | not modelled |

`PROJECT.json` lists each part with its status, and under `hazards` the places
in the code that are hard to test, each with the property that covers it or the
reason none does yet.

## 2. Modules

```
ThreadCell --> ApplicationRuntime --+--> LaneScheduling --> MCLaneScheduling, LaneSchedulingProofs
                                    |        |  refines SerialLanes
                                    +--> TurnLifecycle  --> MCTurnLifecycle, TurnLifecycleProofs
                                    +--> ApplicationRuntimeProofs (lemmas of both Proofs modules)
EventLog --> MCEventLog, EventLogProofs
InteractionBroker --> MCInteractionBroker, InteractionBrokerProofs
ControlInput --> AgentLoop --> AgentRuns --> MCAgentRuns, AgentRunsProofs
                     +--> AgentLoopProofs (lemmas of AgentRunsProofs)
GatewayActivity --> MCGatewayActivity, GatewayActivityProofs
       |  refines ActivityLease
```

**ThreadCell** has what `ThreadCell::reserve`, `release` and
`release_front_waiter` do to the one-shot senders, and what the scan of
`thread_cell_activity` finds in the queue: the accepted Turns, and the first
entry if it is one of them. Pure operators, no state.

**ApplicationRuntime** is `ApplicationRuntimeState`: its variables carry the
names of the Rust fields, and every method that runs under the runtime lock is
one action of the same name (`register_turn` is `RegisterTurn`). The mutex makes
each of them atomic. A cell that is missing from the map is an empty sequence;
`ready` is the `Option<oneshot::Sender>` of each queue entry (`none`, `waiting`,
`sent`, `dropped`); a slot's phase is `turns[t]`.

**LaneScheduling** adds the tasks: who calls which method when. A task is
`admitted` while it holds the read side of the admission gate, `reserved` until
it gives the gate back (a Turn only once its acceptance is decided), `queued`
until its signal arrives, then `running`. Shutdown requests the write side,
closes admission, may be forced, and drains. A forced drain goes on beside a
task that blocks inside one poll (the code's `ContractViolation`), so `running`
tasks can outlive their lanes.

**SerialLanes** is what the lanes promise: a queue per lane whose head, and only
the head, executes. LaneScheduling is checked to implement it with `queue <-
cells` and `executing` read from the tasks.

**TurnLifecycle** opens up the Turn: admission, registration, the acceptance
transaction, `mark_turn_accepted`, the wait for the lane, the invocation, the
staged terminal, the steps of `finalize_terminal`, `TurnTaskGuard::drop` of a
panicking task, `resume_turn`, and `shutdown_inner` with its graceful and forced
halves. An async function is cut at its awaits and between two acquisitions of
the lock. A store transaction and the step that uses its result are two actions,
because the waiting future can be dropped between them. The calls, not the
Turns, are the processes: two calls may carry the same client Turn id.

**EventLog** is the log of one Turn: `push` and `close` write under the lock and
notify after releasing it; `next` makes its `Notified` future, looks, and awaits
that future. `received` records, per sequence number, the event a stream was
given or that a `ResyncRequired` covered it.

**InteractionBroker** is the broker of one Turn with everybody around it: the
tools that ask (`FrameworkApprovalHandler::request_permission`, the clarify
tool), the host's delegate that may decide instead, the approval timeout and
`cancel_permission`, clients that `respond`, the actor with its bounded queue,
the interaction rows, and the Turn's end: `finalize_terminal`, its retry by the
shutdown and the forced abort. The actor is one process that handles a command
in three steps (receive, transaction, conclude), because others move between
them. `sender` says where a waiter's one-shot sender is (in the map, in the
actor's hands, gone); `log` has the events the broker pushed.

**ControlInput** is `ControlInputBuffer` and the operations of `ControlHandle`
and `ControlReceivers` on it, as pure operators on a record with the fields of
the struct. **AgentLoop** is `run_agent_loop` cut at its awaits: the top of the
loop, the generation, the tools, the drain that settles whether the loop goes
round, the end. `owed` records what was accepted and not yet drained.

**AgentRuns** composes a parent's loop with the loops of its background Agents,
the supervisor and the mailbox: `spawn_subagent`, `send_agent_message_with_context`
(injection into a live run, or a continuation as the next run of the same id),
`wait_agent` with its page of events, `close_agent`, the finalizer of a run,
`retry_terminal` with its per-Agent commit lock, and the graceful, forced or
upgraded shutdown with `close_and_cancel`, `stage_remaining_interrupted`,
`abort_background` and the flush. The commit of a child's edge and the update of
its slot are two steps (`ChildCreated`, `ChildLinked`), since the call can be
dropped between them. Whoever retries a terminal (the finalizer, a message, a close, the flush)
is a committer with its own place in `commit`.

**GatewayActivity** has several Gateway processes that share one store and one
Thread: Shells from `send_shell` through admission, queue, claim, execution,
settlement and the completion funnel; the runtime task of each process that
recovers, claims, applies and marks control commands and sends heartbeats; the
callers that address a command to a foreign owner; graceful and forced shutdown,
process loss, and time. A transaction's clock is read before it begins (`clock`),
so a claim can be decided with an old time.

**ActivityLease** is what the activity rows promise: at most one owner holds an
unexpired claim, every claim opens a new term, and an owner can take up again
only the latest term. GatewayActivity is checked to implement it with the holders
read from the running, unexpired rows and the term from the generations.

### Abstractions

- Payloads, receipts, messages and timestamps are dropped; an outcome is
  completed, failed or interrupted.
- A store transaction commits or fails atomically. At most `MaxStoreFailures`
  fail while the store is open; every one fails once it is closed.
- An Adapter shutdown that times out counts as one that failed.
- The terminals of supervised agents (`flush_agent_terminals`) are in AgentRuns
  and not in the report of TurnLifecycle: the two do not share state.
- In AgentRuns a generation of a child calls no tools; a child that panics counts
  as one that failed. What one instance combines of calls, faults and shutdowns
  is a `plan`, chosen in the initial state; every plan is checked.
- In AgentRuns no task outlives a forced abort (the `ContractViolation` of
  `lifecycle.rs:234-241`; TurnLifecycle and LaneScheduling have it), and an upgrade
  comes before the store is closed: a forced caller that arrives while
  `State::close` is awaited finds nothing left to do for Agents.
- In GatewayActivity a round claims every pending command; the code's limit of 50
  (`durable_activity.rs:1269`) leaves the rest to the next round. A fence or a
  clearing of live snapshots that fails beside `finish_gateway_activity` costs
  the caller its answer and changes no row. The permits are read from the stages
  of the Shells, so a leaked permit cannot be expressed.
- A message of the control input is a model value of one or two bytes.
- In GatewayActivity a process has an owner id that is never used again, so a
  restart is another process. `now` is bounded by the plan's ticks, advances at
  any moment and by any amount of work in between, and does not go back. The
  lease of a row that is not active is 0.
- A task that a forced abort finds blocked inside one poll is `blocked`: it may
  stay so for ever, end without a trace, or panic.
- Process loss is an action of GatewayActivity only, where other processes go
  on. Elsewhere what it leaves is the set of durable rows, which every state
  exposes.
- Streams do not influence each other or the producers, so one stream shows what
  any number of them sees (the proofs are for any number).
- `tokio::sync::Notify` is modelled from its use: `notify_waiters` fires every
  `Notified` future that exists, polled or not.

## 3. Runs

| Run | Instance | Checks |
|---|---|---|
| `Lanes` | 1 Thread with 2 Turns, 1 mutation and 1 history edit, 1 Application operation, limits 3 and 3, with fairness (86 thousand states) | the safety properties of the lanes, the refinement of SerialLanes, reservations settle, a requested shutdown drains |
| `TurnGraceful` | 3 calls, two of one Turn id, on one Thread; 1 resume; 1 store failure; a graceful shutdown with a deadline (2.3 million states) | orphaned acceptance, resume, clean report, stability of committed terminals |
| `TurnForced` | 2 Turns queued on a Thread, a graceful caller with a deadline and a forced caller, 1 store failure, with fairness (212 thousand states) | publication against durability, State closed last, waiters answered but for one named way, shutdown ends or is given up |
| `EventLog` | capacity 2, 5 pushes of 2 events, 2 producers, 1 stream, with fairness (190 thousand states) | window, exact streams, wakeups, end of stream |
| `Interactions` | 1 permission with a host delegate, 1 clarification, 1 responder that may allow, answer or cancel, a queue of 2, 1 store failure (1.2 million states) | durable answers, one acceptance, nothing pending behind a terminal, waiters, cancellation, events, receipts |
| `Agents` | a parent and 1 Agent, 1 spawn, 2 messages, 1 wait, 1 close, 2 steers (one long), a control input of 2 items and 3 bytes, `max_turns` 2, 3 runs, one child at a time, seven plans (1.5 million states) | exact accounting, input heard, one terminal event, runs accounted for, the mailbox |
| `Activities` | 2 processes, 5 Shells, an interrupt and a steer, a lease of 1 tick, 3 permits, a queue of 1, five plans (0.8 million states) | honest commands, accounted Shells, the refinement of ActivityLease |
| `ShutdownUpgrade`, `ShutdownGivenUp`, `ForcedAbort`, `FinalizerPanic`, `ResumeRace` | 1 call | one property each that the code violates, see section 5 |

Why the bounds are enough for the cases that matter: a total (3) smaller than the
work offered (5), so that it is hit; a queue of three (front, middle, last) in
`Lanes`, where a release from the middle differs from one at the front, beside the
lane of the Application, which a release of the Thread must not wake. Several
Threads, two edits that meet, and a limit per Thread that is smaller than the
total are not in this instance; the theorems of section 4 have them. Two
calls that collide on one Turn id and a third behind them on the lane; one store
failure, which lets any single transaction fail and any retry succeed, while retries against a closed
store fail without bound; five pushes into two places, so the ring wraps twice
and a stream can be overrun between any two of its steps. A broker queue of two,
where the request, the response, the observed resolution and the cancel of two
interactions want a place, so that both the waiting and the refused send happen.
A control input that refuses by count (2) and by bytes (3, with a message of 2),
and an update that grows a message; an Agent id used for three runs, so that a
retry can wait while later runs register. Four Shells on one process, more than
its queue (1) and its permits (3) take, and enough ticks for a claim, its expiry,
the takeover by the other process and a late heartbeat. `MaxPushes`,
`MaxStoreFailures`, `MaxRuns`, `MaxInvocations`, `MaxSteers` and the plans'
`ticks` and `failures` bound counters that the code does not bound.

Deadlock is checked everywhere; the states in which everything was called and
has ended stutter explicitly (`Finished`, `Ended`).

### Fairness

Weak fairness on the steps of a call that was made, and on the shutdown's own
steps: Tokio polls woken tasks, the store answers, an Adapter invocation ends
(the Adapter contract), the admission gate and the finalizer mutex are fair
queues. In the event log, the producer that released the lock notifies, and the
owner of a stream keeps calling `next`. No call, push, close, force, abandonment
or cancellation is fair: nobody has to make one. A poll that blocks is not
assumed to end. `AcceptedAnswered` and `ShutdownCompletes` hold although every
forced abort may hit every Turn and the deadline may drop the shutdown at any
await. `ShutdownGivenUp` is checked under the same fairness.

## 4. What is proved

Every invariant and action property of the passing runs, and both refinements,
are also proved for every value of the constants: any sets of Threads, calls,
Shells, interactions, processes and Agents, any limits. The
proofs are in one module per component. Each goes the same way: an inductive
invariant, which TLC checked on the run's instance before it was proved, is
preserved action by action, and the properties follow from it.

### Lanes (LaneSchedulingProofs, ApplicationRuntimeProofs)

- **TypeCorrect**, **LaneExclusion**, **NoLostWakeup** and
  **CloseAfterAcceptance** (`TypeOK`, `LaneExclusive`, `FrontSignalled`,
  `NoAcceptanceAfterClose`) rest on `LaneInvariant`. Exclusion alone is not
  inductive: a `running` task must be known to be at the front of its lane, which
  follows from `FrontSignalled` (only the front is signalled), `Placement` (an
  entry is in the lane its task reserved, once) and `TasksHoldLanes` (a spawned
  task keeps its entry, and runs only signalled). After a forced drain the lanes
  are gone under running tasks, so `AfterDrain` says that nothing is queued then
  that could still start, and `ForceAfterClose` and `GateHeld` that nothing can
  enter.
- **CapacityAccounted** (`CapacityAccounting`): the counter is the cardinality of
  the set of operations that hold a place. What a release removes from the set it
  removes once, because places are unique; the saturating subtraction never
  saturates.
- **HistoryEditExclusion** (`HistoryEditAlone`), **ActivityRevised**
  (`RevisionTracksActivity`, an action property) and **ActivityTells**
  (`ActivityTruthful`).
- **LanesImplementSerialLanes** (`ImplementsSerialLanes`): every step of
  LaneScheduling is a step of SerialLanes or leaves its state alone; with
  `LaneInvariant`, because only then is the operation that starts the head.

ApplicationRuntimeProofs has the lemmas about sequences that both users of the
runtime need: what appending, removing the first entry and handing over do to
signals and places.

### Turns and shutdown (TurnLifecycleProofs)

The invariants are layered, each one inductive with the ones below it:

1. `TurnInvariant` relates the call, the slot, the lane entry and the delivery
   row of a Turn id (`SlotOwned`, `CallHoldsSlot`, `DeliveryOwned`), what is
   staged, what a resume holds, and that a closed admission stays closed and a
   joined shutdown leaves no live task. From it **TurnTypeOK** (`TypeOK`) and
   **AcceptanceOwned** (`AcceptanceNeverOrphaned`), for any calls that share ids.
2. `ReportKept`: a shutdown that has come to the close of State has the blocked
   tasks in its report. From it **StoreClosesLast** (`StoreClosedLast`). A
   shutdown that a deadline dropped is begun anew with a fresh report, so the
   invariant is about the report of whoever is at the close, who has joined the
   tasks and found the blocked ones again.
3. `PublishInvariant`: a published terminal is frozen (`TerminalFrozen`), the
   waiter was told the same (`WaiterTold`), and whatever still has a slot or is
   in the shutdown's work was not published. From it **PublishedDurable**
   (`PublishedTerminalDurable`).
4. `StableInvariant`: whoever retains an outcome for a Turn retains the same one
   (`RetainedAgree`), and whoever has yet to commit finds no other terminal. From
   it **TerminalStable** (`CommittedTerminalStable`, an action property) and
   **ResumeAnswersDurable** (`ResumedOutcomeDurable`).
5. `CoverInvariant`: a Turn with a delivery row and no terminal is covered by its
   call, its slot, the shutdown's work or a failure in the report. From it
   **CleanMeansDurable** (`CleanShutdownDurable`).

1 to 3 assume nothing about the callers: they cover the host's protocol of a
deadline followed by a forced shutdown. (A task that outlived its abort may still
panic and tell its waiter so, before the shutdown publishes; `force_requested`
marks these cases in `PublishedTerminalDurable`.)
4 assumes that nobody forces: the run `ForcedAbort` shows the overwritten terminal. 5 assumes `NotRestarted`, that nobody forces and either
nobody has a deadline or there is a single caller: `ShutdownUpgrade` shows what
a dropped shutdown loses. The hypotheses restrict who calls shutdown, never what
happens to the Turns.

### Event log (EventLogProofs)

**WindowTheorem**, **NoSilentLoss**, **StreamWoken** and **EndIsLast**
(`WindowRetained`, `StreamExact`, `NoLostWakeup`, `EndAfterClose`) for every
capacity, any producers and any number of streams, from `LogInvariant`. The index
arithmetic of the ring is the window: an event at place `i` of the ring is the
one pushed as number `first_sequence + i`.

### Interaction broker (InteractionBrokerProofs)

**BrokerAnswersDurable**, **BrokerAcceptedOnce**,
**BrokerTerminalLeavesNonePending**, **BrokerPendingAnswerable**,
**BrokerCancelSettles**, **BrokerEventsMatchRows** and **BrokerReceiptsOwed**,
each for the run property of that name, and **BrokerTypeOK**, from one
`BrokerInvariant`. The hard part is that the actor's step is in three pieces.
`ActorHolds` ties the command in its hands to the waiter it took and to the row
it saw; `SentOnce` says that the queue and the actor hold a command of each
caller once; `QueueOrdered` that a request precedes its cancellation in the
queue, without which a cancelled row could be inserted later; `WaiterKept` and
`OutcomeStands` where a sender is in each phase and that a result given out is
the row's.

### Gateway activities (GatewayActivityProofs)

**ActivityTypeOK**; **ActivityCommandsHonest** (`CommandsHonest`) from
`CommandInvariant`, which follows a command from its row through the inbox of the
owner that claimed it to its effect; **ActivityShellsAccounted**
(`ShellsAccounted`) from `ShellInvariant`, which relates stages, permits, queue
and rows; and **ActivityLeaseKept** (`LeaseKept`), the refinement of
ActivityLease, from `LeaseInvariant`: at most one row is running and unexpired,
and the row of the highest generation is the only one that can be renewed.

### Agents (AgentRunsProofs, AgentLoopProofs)

AgentLoopProofs has the lemmas about one control input and one loop, for any
composition of loops: `TotalBytes` is additive under append and drain, so each
operation of the buffer keeps `Exact`, and `LoopInv` says that what was accepted
and not drained is in the buffer, and that a loop that ends Normal owes nothing.

AgentRunsProofs has three layers:

1. `RunsInv`, who runs what: a call that registered an Agent and has not started
   its task is alone with it (`StartingAlone`), a task that has not finished has
   an active slot (`TasksPlaced`), a slot that knows its child session has an edge
   (`SlotsDurable`), an occupied slot that does not know of its Agent's edge is that
   of a `spawn_agent` between the two or dropped there (`SlotsBound`), and whoever
   retries a terminal names a registered run (`CommitsPlaced`). With `LoopInv` it gives **AgentTypesHold** (`TypeOK`),
   **BuffersStayExact** (`BufferExact`) and **InputIsHeard**
   (`AcceptedInputHeard`).
2. `TerminalInv`: who holds a run's commit lock is alone and its slot is pending
   (`CommitsAlone`), a run with two terminals is one whose committing future a
   forced abort dropped (`RowsOnce`), and every run but the latest has its terminal
   (`RowsComplete`). From it **TerminalRecordedOnce** (`AgentTerminalOnce`) and
   **RunsAccounted** (`AgentRunsAccounted`, which excepts an Agent whose
   `spawn_agent` was dropped before its slot was linked to its edge). `AgentTerminalOnce` alone is not
   inductive: that a commit finds no row yet follows from the lock and from the
   re-check of the slot under it.
3. `MailInv`: whoever claimed a row of the mailbox got it as a page
   (`RowClaimed`), and the Turn was given exactly what its prompt or an ended wait
   delivered (`RowAgrees`). From it **MailboxAgrees** (`MailboxClaimed`). A page
   whose injection is refused and whose reset fails stays marked; the property
   says so, and the invariant makes no claim about its rows.

### Assumptions

Those that the code enforces or that identify its data. `LimitsAssumption` and
`CapacityAssumption` are what `ApplicationBuilder::build` validates;
`OperationKindsDisjoint` says that ids of different kinds differ; that `None` is
no id and no outcome (`NoneAssumption`, `CallsAssumption` and the activity
module's assumption) is how `Option` is encoded; the activity module has at least
one Shell. `LoopAssumption` is the type of the loop's turn limit; `AgentAssumption`
has finitely many messages and more run numbers than messages, so that the bound
`MaxRuns` never stops a continuation; `KindsAssumption` says that calls, Agents
and messages of different kinds differ. TLC evaluates them on every run.

### Only model-checked

The liveness properties (`ReservationSettles`, `ShutdownDrains`,
`AcceptedAnswered`, `ShutdownCompletes`,
`StreamsEnd`), because the prover does not do fairness, and the five expected
violations, which are single counterexamples.

## 5. Where the code and its documents disagree

- **ShutdownUpgrade** – a forced caller (or the host's deadline) drops the
  graceful shutdown while it retries retained terminals. The slots it had taken
  are gone with it; the forced shutdown finds none and reports itself clean,
  with an accepted Turn that has no terminal (`lifecycle.rs:142`).
- **ShutdownGivenUp** – the same drop, by the host's deadline
  (`crates/psychevo-gateway/src/composition.rs:253`, then `shutdown_force` at
  272). The graceful caller owns the shutdown when a forced caller upgrades it;
  the Turn's task is aborted and its slot taken (`lifecycle.rs:304`); the deadline
  drops it. The next shutdown finds no slot, and whoever waits for the Turn is
  never answered. `AcceptedAnswered` shows that there is no other way.
- **ForcedAbort** – a task aborted between the terminal commit and the release
  of its slot: the shutdown takes the slot for an unfinished Turn and overwrites
  the committed outcome with Interrupted (`lifecycle.rs:313`).
- **FinalizerPanic** – a panic inside the persistence of the terminal retains
  Failed instead of the staged terminal (`turn.rs:94`).
- **ResumeRace** – `resume_turn` that overlaps the `start_turn` of the same
  client Turn id answers "indeterminate after process loss" for a live Turn
  (`turn.rs:249`).

`TurnGraceful` shows that `CleanShutdownDurable` and `CommittedTerminalStable`
do hold for a single graceful shutdown, also when its deadline gives it up; the
theorem for the first also allows several graceful callers without a deadline,
the one for the second any callers that do not force. A second shutdown after one
that was given up is outside the first: it can lose slots as `ShutdownUpgrade`
does.

Smaller ones that the models of the second half reach. Each property names the
exception, and holds only with it:

- *A waiter put back behind the finalizer.* A response is adopted, the finalizer
  commits the terminal and `cancel_permissions` empties the map, the response
  loses in the store and `restore_permission` puts the waiter back
  (`interaction_broker.rs:411`); the broker stops. A background child that waits
  for it waits for its own timer (for ever with a timeout of 0).
  `specs/080-sdk/spec.md:598`: "cancel pending permission waiters and finish the
  interaction broker". `PendingAnswerable` is about the running Turn.
- *A second terminal event.* A forced abort drops `retry_terminal` between
  `commit_agent_terminal` and the removal of the slot (`supervisor.rs:424`); the
  flush finds the slot and commits again. `specs/051-agents/spec.md:271`:
  "Concurrent finalizer, continuation, and shutdown paths can commit at most one
  mailbox event". `AgentTerminalOnce` excepts the runs in `twice`.
- *An edge without a slot.* A forced abort drops `spawn_agent` after the child's
  edge was committed and before `update_run_child_session`
  (`agents/child_runs/lifecycle.rs:188`); `stage_remaining_interrupted` removes the
  slot, which has no child session (`supervisor.rs:344`), and the edge stays open
  without a terminal event. `specs/051-agents/spec.md:200`: interrupted child
  invocations "must not leave durable `agent_edges` rows in an open state".
  `AgentRunsAccounted` excepts these Agents (`Unlinked`).
- *Input accepted behind the last drain.* Between the drain that lets the loop
  end and the drop of `ControlReceivers` a message is accepted and cleared
  (`control.rs:305`). `specs/004-runtime-contract/spec.md:126`: "accepted
  messages are never evicted". `AcceptedInputHeard` ends at that drain. The same
  happens to a message for an Agent that was closed and still runs: it is
  injected into a run that stops, and reported as sent.
- *A command nobody applies.* The dispatcher looks for commands only while a
  Shell is tracked (`durable_activity.rs:392`): a command addressed to an owner
  whose last Shell has ended in the meantime stays `pending`, after its caller
  was told that it was delivered.
- *An indeterminate command that takes effect.* A slow owner can apply a command
  after another process has marked it `outcome_indeterminate`, and a heartbeat
  revives a lease that ran out as long as nobody took over. Both agree with
  `specs/021-gateway/spec.md:492-512` (indeterminate, never replayed;
  superseded only by a newer generation), and `CommandsHonest` and
  `ActivityLease` say what is left.

## 6. Plan

To model next, each with its own module, run and hazards:

1. Automations: due runs, claims, stale-run recovery.
2. InteractionBroker composed with EventLog: that nothing that matters is pushed
   behind the close.

Proofs to add with them: an abstract specification of the Agent terminals (a run
is registered, ends once, and its parent is told) that AgentRuns implements, and
the composition of InteractionBroker with EventLog from the invariants of both.

## 7. Not modelled

Most of the repository is input and output around the parts above, and has no
protocol that a state machine would show better than its text: AI providers and
their stream parsers, chat channels, the wire protocol and its servers, the
command line, terminal, Workbench and Desktop interfaces, the language clients,
configuration and administration, permission rules, sandboxing and hooks (pure
evaluation of text rules), compaction and context assembly (transformations of
message text). Of the modelled parts these are left out: foreground children,
external delegates, resumed Agents and descendants; Shells of a source that has
no Thread yet, history reservations of the Gateway queue, event ingress and live
snapshots; the registry of MCP runtimes. ACP peers and managed processes have a
pool with its own life cycle; it is driven by external processes, and comes after
the plan above.
