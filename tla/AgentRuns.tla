------------------------------ MODULE AgentRuns ------------------------------
(***************************************************************************)
(* Background child Agents of one parent session: the Turn whose tools     *)
(* spawn, message and await them, the supervisor that owns their slots     *)
(* (crates/psychevo/src/agents/supervisor.rs), the terminal finalizer they *)
(* share, the parent's durable mailbox (store/agent_mailbox.rs) and the    *)
(* Application shutdown that ends them.                                    *)
(*                                                                         *)
(* The supervisor's methods hold its mutex and are one step each; a store  *)
(* transaction is a step of its own, and a forced abort can drop a future  *)
(* between any two of its steps.  A run is a slot's terminal_commit Arc: a *)
(* continuation registers a new one under the same Agent id.               *)
(***************************************************************************)
EXTENDS AgentLoop, FiniteSets

CONSTANTS
    Parent,           \* the run of the parent session's Turn
    Agents,           \* child Agents, by id
    Spawns,           \* spawn_agent tool calls
    Sends,            \* send_message tool calls, and the messages they send
    Waits,            \* wait_agent tool calls
    Closes,           \* close_agent calls of AgentControl
    Steers,           \* messages the user steers the Turn with
    Limit,            \* child_concurrency_limit
    MaxRuns,          \* bound on the runs of an Agent
    Plans,            \* what may happen in a behaviour: see plan
    None

MaxInvocations == 2   \* bound on the parent's Turns
MaxSteers == 2        \* bound on the messages a Turn is steered with
MaxStoreFailures == 1 \* bound on store transactions that fail

\* What the model, the user and the environment may do besides letting things
\* run: make a call, steer, start a second Turn, abort a Turn, force the
\* shutdown from the start or while it is under way, let a transaction fail.
Moves == Spawns \cup Sends \cup Waits \cup Closes \cup Steers
           \cup {"again", "abort", "force", "upgrade", "failure"}

ToolCalls  == Spawns \cup Sends \cup Waits
Calls      == ToolCalls \cup Closes
Committers == Agents \cup Sends \cup Closes \cup {"flush"}

ASSUME AgentAssumption ==
    /\ Runs = {Parent} \cup Agents /\ Parent \notin Agents
    /\ Limit \in Nat \ {0}
    /\ Plans \subseteq SUBSET Moves
    /\ IsFiniteSet(Sends) /\ MaxRuns \in Nat /\ MaxRuns > Cardinality(Sends)

\* Calls and messages of different kinds differ, and none is taken for a name of
\* something else.
ASSUME KindsAssumption ==
    /\ Spawns \cap (Sends \cup Waits \cup Closes) = {}
    /\ Sends \cap (Waits \cup Closes) = {} /\ Waits \cap Closes = {}
    /\ Agents \cap (Sends \cup Closes) = {}
    /\ "flush" \notin Agents \cup Sends \cup Closes
    /\ "background" \notin Calls
    /\ Waits \cap {"pending", "prompt"} = {}
    /\ \A m \in Steers : m \notin [mail : Nat]

VARIABLES
    plan,        \* the choices that are open in this behaviour
    slot,        \* [Agents -> AgentRunState, phase vacant when there is none]
    runs,        \* [Agents -> how many runs were registered]
    task,        \* [Agents -> [at, by]]: the run_child_agent future and who polls it
    invocation,  \* [Agents -> the parent's Turn whose abort signal the child holds]
    turn,        \* the parent's Turns so far
    call,        \* [Calls -> [at, agent]]
    commit,      \* [Committers -> [at, agent, run]]: calls of retry_terminal
    edge,        \* [Agents -> status of the agent_edges row]
    mailbox,     \* agent_mailbox_events rows: [agent, run, delivered]
    admission,   \* background_admission
    shutdown,    \* how far Application::shutdown is
    flush,       \* ids flush_pending_terminals still has to retry
    twice,       \* runs whose committing future was dropped before the slot went
    failures

slotVars  == <<slot, runs, task, invocation>>
storeVars == <<edge, mailbox>>
downVars  == <<admission, shutdown, flush>>
vars == <<loopVars, slotVars, storeVars, downVars, turn, call, commit, twice, failures,
          plan>>

Vacant == [phase |-> "vacant", status |-> "none", durable |-> FALSE]
Final  == {"completed", "errored", "interrupted", "shutdown"}    \* agent_status_is_final
NoTask == [at |-> "none", by |-> None]
NoCall == [at |-> "idle", agent |-> None]
NoCommit == [at |-> "none", agent |-> None, run |-> 0]

TypeOK ==
    /\ plan \in Plans
    /\ slot \in [Agents -> [phase : {"vacant", "active", "pending"},
                            status : {"none", "running"} \cup Final, durable : BOOLEAN]]
    /\ runs \in [Agents -> 0..MaxRuns]
    /\ task \in [Agents -> [at : {"none", "spawned", "opening", "running", "finishing", "done"},
                            by : {"background", None} \cup Calls]]
    /\ invocation \in [Agents -> 0..MaxInvocations]
    /\ turn \in 0..MaxInvocations
    /\ call \in [Calls -> [at : {"idle", "creating", "created", "spawning", "inline", "retrying",
                                 "loading", "ready", "claimed", "resetting", "ended", "failed",
                                 "dropped"},
                           agent : Agents \cup {None}]]
    /\ commit \in [Committers -> [at : {"none", "locking", "holding", "committed", "failed"},
                                  agent : Agents \cup {None}, run : 0..MaxRuns]]
    /\ edge \in [Agents -> {"none", "open", "closed"}]
    /\ mailbox \in Seq([agent : Agents, run : 1..MaxRuns,
                        delivered : {"pending", "prompt"} \cup Waits])
    /\ admission \in BOOLEAN
    /\ shutdown \in {"none", "turns", "agents", "join", "flush", "deadline", "closed"}
    /\ flush \subseteq Agents
    /\ twice \subseteq Agents \X (1..MaxRuns)
    /\ failures \in 0..MaxStoreFailures
    /\ loop \in [Runs -> [at : Locations, turn : 0..MaxTurns, tools : BOOLEAN,
                          fresh : BOOLEAN, outcome : Outcomes]]

Init ==
    /\ plan \in Plans
    /\ LoopInit
    /\ slot = [a \in Agents |-> Vacant]
    /\ runs = [a \in Agents |-> 0]
    /\ task = [a \in Agents |-> NoTask]
    /\ invocation = [a \in Agents |-> 0]
    /\ turn = 0
    /\ call = [c \in Calls |-> NoCall]
    /\ commit = [w \in Committers |-> NoCommit]
    /\ edge = [a \in Agents |-> "none"]
    /\ mailbox = <<>>
    /\ admission = TRUE
    /\ shutdown = "none"
    /\ flush = {}
    /\ twice = {}
    /\ failures = 0

StoreOpen == shutdown # "closed"
Fail == "failure" \in plan /\ failures < MaxStoreFailures /\ failures' = failures + 1
InFlight(c) == call[c].at \notin {"idle", "ended", "failed", "dropped"}
Ends(c) == call' = [call EXCEPT ![c].at = "ended"]

-----------------------------------------------------------------------------
(* The parent's Turn. *)

Mail(rows) == {[mail |-> i] : i \in rows}

\* deliver_pending_agent_mailbox_events_for_prompt: what was pending is marked,
\* and the prompt is given every delivered event of the session.
StartTurn ==
    /\ shutdown = "none"
    /\ turn < IF "again" \in plan THEN MaxInvocations ELSE 1
    /\ ~Live(Parent)
    /\ turn' = turn + 1
    /\ mailbox' = [i \in DOMAIN mailbox |->
                     IF mailbox[i].delivered = "pending"
                     THEN [mailbox[i] EXCEPT !.delivered = "prompt"] ELSE mailbox[i]]
    /\ context' = [context EXCEPT ![Parent] = Mail(DOMAIN mailbox)]
    /\ input' = [input EXCEPT ![Parent] = NewInput]
    /\ signal' = [signal EXCEPT ![Parent] = Quiet]
    /\ loop' = [loop EXCEPT ![Parent] = [NoLoop EXCEPT !.at = "begin"]]
    /\ owed' = [owed EXCEPT ![Parent] = {}]
    /\ UNCHANGED <<slotVars, edge, downVars, plan, call, commit, twice, failures>>

\* The parent's loop; its tool batch is over when its calls have returned.
ParentStep ==
    /\ \/ LoopStep(Parent)
       \/ ToolsDone(Parent) /\ \A c \in ToolCalls : ~InFlight(c)
    /\ UNCHANGED <<slotVars, storeVars, downVars, plan, turn, call, commit, twice, failures>>

\* The Turn is steered while it runs.
SteerTurn ==
    /\ \/ \E m \in (Steers \cap plan) \ (context[Parent] \cup Buffered(input[Parent])) :
             \/ input[Parent].next_id < MaxSteers /\ SteerRun(Parent, m)
             \/ \E id \in SteerIds(input[Parent]) : UpdateSteer(Parent, id, m)
       \/ \E id \in SteerIds(input[Parent]) : CancelSteer(Parent, id)
       \/ CancelSteers(Parent)
    /\ UNCHANGED <<slotVars, storeVars, downVars, plan, turn, call, commit, twice, failures>>

\* The children of the Turn hold its abort signal (ChildRun::abort).
Children(k) == {a \in Agents : slot[a].phase = "active" /\ invocation[a] = k}
Aborted(rs) == [r \in Runs |-> IF r \in rs THEN [signal[r] EXCEPT !.abort = TRUE] ELSE signal[r]]

AbortTurn ==
    /\ "abort" \in plan
    /\ Live(Parent) /\ ~signal[Parent].abort
    /\ signal' = Aborted({Parent} \cup Children(turn))
    /\ UNCHANGED <<input, loop, context, owed>>
    /\ UNCHANGED <<slotVars, storeVars, downVars, plan, turn, call, commit, twice, failures>>

-----------------------------------------------------------------------------
(* The supervisor's slots. *)

ActiveSlots == {a \in Agents : slot[a].phase = "active"}

\* A new slot and the control and task that go with it.
Register(a, durable) ==
    /\ slot' = [slot EXCEPT ![a] = [phase |-> "active", status |-> "running", durable |-> durable]]
    /\ runs' = [runs EXCEPT ![a] = @ + 1]
    /\ invocation' = [invocation EXCEPT ![a] = turn]
    /\ task' = [task EXCEPT ![a] = NoTask]
    /\ input' = [input EXCEPT ![a] = NewInput]
    /\ signal' = [signal EXCEPT ![a] = [Quiet EXCEPT !.abort = signal[Parent].abort]]
    /\ loop' = [loop EXCEPT ![a] = NoLoop]
    /\ context' = [context EXCEPT ![a] = {}]
    /\ owed' = [owed EXCEPT ![a] = {}]

\* spawn_background; a refused future is the caller's to finish.
SpawnBackground(c, a) ==
    /\ task' = [task EXCEPT ![a] = [at |-> "spawned", by |-> IF admission THEN "background" ELSE c]]
    /\ call' = [call EXCEPT ![c].at = IF admission THEN "ended" ELSE "inline"]

InTools(c) ==
    /\ c \in plan
    /\ loop[Parent].at = "tools"
    /\ \A d \in ToolCalls : InFlight(d) => (c \in Sends /\ d \in Sends)

SpawnAgent(c, a) ==
    /\ InTools(c) /\ call[c].at = "idle"
    /\ runs[a] = 0
    /\ \/ /\ admission /\ Cardinality(ActiveSlots) < Limit
          /\ Register(a, FALSE)
          /\ call' = [call EXCEPT ![c] = [at |-> "creating", agent |-> a]]
       \/ /\ ~(admission /\ Cardinality(ActiveSlots) < Limit)
          /\ Ends(c)
          /\ UNCHANGED <<loopVars, slotVars>>
    /\ UNCHANGED <<storeVars, downVars, plan, turn, commit, twice, failures>>

\* create_internal_child_session: the child's session and edge are durable, and
\* the slot does not know of them yet.
ChildCreated(c) ==
    /\ call[c].at = "creating" /\ StoreOpen
    /\ edge' = [edge EXCEPT ![call[c].agent] = "open"]
    /\ call' = [call EXCEPT ![c].at = "created"]
    /\ UNCHANGED <<loopVars, slotVars, mailbox, downVars, plan, turn, commit, twice, failures>>

\* update_run_child_session
ChildLinked(c) ==
    /\ call[c].at = "created"
    /\ slot' = [slot EXCEPT ![call[c].agent].durable = TRUE]
    /\ call' = [call EXCEPT ![c].at = "spawning"]
    /\ UNCHANGED <<loopVars, runs, task, invocation, storeVars, downVars, plan, turn, commit, twice,
                   failures>>

ChildNotCreated(c) ==
    /\ call[c].at = "creating"
    /\ Fail
    /\ slot' = [slot EXCEPT ![call[c].agent] = Vacant]
    /\ Ends(c)
    /\ UNCHANGED <<loopVars, runs, task, invocation, storeVars, downVars, plan, turn, commit, twice>>

ChildSpawned(c) ==
    /\ call[c].at = "spawning"
    /\ SpawnBackground(c, call[c].agent)
    /\ UNCHANGED <<loopVars, slot, runs, invocation, storeVars, downVars, plan, turn, commit, twice,
                   failures>>

InlineReturns(c) ==
    /\ call[c].at = "inline"
    /\ task[call[c].agent].at = "done"
    /\ Ends(c)
    /\ UNCHANGED <<loopVars, slotVars, storeVars, downVars, plan, turn, commit, twice, failures>>

-----------------------------------------------------------------------------
(* retry_terminal, the finalizer that tasks, calls and shutdown share. *)

\* The slot's terminal_commit is cloned under the supervisor's mutex.
Retry(w, a) ==
    commit' = [commit EXCEPT ![w] = [at |-> "locking", agent |-> a, run |-> runs[a]]]

Holds(w, a, run) ==
    commit[w].agent = a /\ commit[w].run = run /\ commit[w].at \in {"holding", "committed"}

\* Mutant: what was pending when the lock was asked for is still taken for it.
PendingBefore(w) == TRUE

\* With the run's lock, the phase and the run are looked at again.
StillPending(w) ==
    /\ slot[commit[w].agent].phase = "pending"
    /\ runs[commit[w].agent] = commit[w].run

LockCommit(w) ==
    /\ commit[w].at = "locking"
    /\ \A v \in Committers : ~Holds(v, commit[w].agent, commit[w].run)
    /\ commit' = [commit EXCEPT ![w] = IF StillPending(w) THEN [@ EXCEPT !.at = "holding"]
                                       ELSE NoCommit]
    /\ UNCHANGED <<loopVars, slotVars, storeVars, downVars, plan, turn, call, twice, failures>>

\* commit_agent_terminal: the edge and the mailbox row in one transaction.
CommitTerminal(w) ==
    LET a == commit[w].agent IN
    /\ commit[w].at = "holding" /\ StoreOpen
    /\ edge' = [edge EXCEPT ![a] = "closed"]
    /\ mailbox' = Append(mailbox, [agent |-> a, run |-> commit[w].run, delivered |-> "pending"])
    /\ commit' = [commit EXCEPT ![w].at = "committed"]
    /\ UNCHANGED <<loopVars, slotVars, downVars, plan, turn, call, twice, failures>>

\* Mutant: the slot of a terminal that was not committed is given up.
ForgetOnFailure(w) ==
    /\ commit[w].at = "holding"
    /\ IF StoreOpen THEN Fail ELSE UNCHANGED failures
    /\ slot' = [slot EXCEPT ![commit[w].agent] = Vacant]
    /\ commit' = [commit EXCEPT ![w] = [NoCommit EXCEPT !.at = "failed"]]
    /\ UNCHANGED <<loopVars, runs, task, invocation, storeVars, downVars, plan, turn, call, twice>>

CommitFails(w) ==
    /\ commit[w].at = "holding"
    /\ IF StoreOpen THEN Fail ELSE UNCHANGED failures
    /\ commit' = [commit EXCEPT ![w] = [NoCommit EXCEPT !.at = "failed"]]
    /\ UNCHANGED <<loopVars, slotVars, storeVars, downVars, plan, turn, call, twice>>

RemoveSlot(w) ==
    /\ commit[w].at = "committed"
    /\ slot' = IF StillPending(w) THEN [slot EXCEPT ![commit[w].agent] = Vacant] ELSE slot
    /\ commit' = [commit EXCEPT ![w] = NoCommit]
    /\ UNCHANGED <<loopVars, runs, task, invocation, storeVars, downVars, plan, turn, call, twice,
                   failures>>

-----------------------------------------------------------------------------
(* run_child_agent. *)

\* run_child_agent_inner: an abort that came first ends the run as failed.
OpenChild(a) ==
    /\ task[a].at = "spawned" /\ ~signal[a].abort
    /\ task' = [task EXCEPT ![a].at = "opening"]
    /\ UNCHANGED <<loopVars, slot, runs, invocation, storeVars, downVars, plan, turn, call, commit,
                   twice, failures>>

\* The child session is resumed and its edge opened, then the loop starts.
ChildOpened(a) ==
    /\ task[a].at = "opening" /\ StoreOpen
    /\ edge' = [edge EXCEPT ![a] = "open"]
    /\ task' = [task EXCEPT ![a].at = "running"]
    /\ loop' = [loop EXCEPT ![a].at = "begin"]
    /\ UNCHANGED <<input, signal, context, owed, slot, runs, invocation, mailbox, downVars, plan, turn,
                   call, commit, twice, failures>>

\* The child's loop; its generations call no tools.
ChildStep(a) ==
    /\ LoopStep(a)
    /\ loop'[a].at # "tools"
    /\ UNCHANGED <<slotVars, storeVars, downVars, plan, turn, call, commit, twice, failures>>

StatusOf(outcome) ==
    [normal |-> "completed", stopped |-> "interrupted", aborted |-> "interrupted",
     failed |-> "errored"][outcome]

\* update_run_completed or update_run_failed, and finish up to retry_terminal.
Finish(a, status) ==
    /\ slot' = [slot EXCEPT ![a].status = IF @ \in Final THEN @ ELSE status, ![a].phase = "pending"]
    /\ task' = [task EXCEPT ![a].at = "finishing"]
    /\ Retry(a, a)

ChildEnds(a) ==
    /\ task[a].at = "running" /\ loop[a].at = "returned"
    /\ Finish(a, StatusOf(loop[a].outcome))
    /\ UNCHANGED <<loopVars, runs, invocation, storeVars, downVars, plan, turn, call, twice, failures>>

\* The run ends before its loop began, and its ControlReceivers go with it.
ChildRefused(a) ==
    /\ \/ task[a].at = "spawned" /\ signal[a].abort /\ UNCHANGED failures
       \/ task[a].at = "opening" /\ Fail
    /\ Finish(a, "errored")
    /\ input' = [input EXCEPT ![a] = Dropped(@)]
    /\ UNCHANGED <<signal, loop, context, owed, runs, invocation, storeVars, downVars, plan, turn, call,
                   twice>>

ChildDone(a) ==
    /\ task[a].at = "finishing" /\ commit[a].at \in {"none", "failed"}
    /\ task' = [task EXCEPT ![a].at = "done"]
    /\ UNCHANGED <<loopVars, slot, runs, invocation, storeVars, downVars, plan, turn, call, commit,
                   twice, failures>>

-----------------------------------------------------------------------------
(* send_message: into the running Agent, or a continuation of the ended one. *)

Deliver(c, a) ==
    /\ Ends(c)
    /\ IF AdmitsBatch(input[a], <<c>>) THEN InjectInto(a, <<c>>) ELSE UNCHANGED loopVars

SendMessage(c, a) ==
    /\ InTools(c) /\ call[c].at = "idle"
    /\ runs[a] > 0
    /\ \/ /\ slot[a].phase = "active" /\ slot[a].status \notin Final
          /\ Deliver(c, a)
          /\ UNCHANGED commit
       \/ /\ slot[a].phase = "pending"
          /\ call' = [call EXCEPT ![c] = [at |-> "retrying", agent |-> a]]
          /\ Retry(c, a)
          /\ UNCHANGED loopVars
       \/ /\ slot[a].phase = "vacant" \/ (slot[a].phase = "active" /\ slot[a].status \in Final)
          /\ call' = [call EXCEPT ![c] = [at |-> IF edge[a] = "none" THEN "ended" ELSE "loading",
                                          agent |-> a]]
          /\ UNCHANGED <<loopVars, commit>>
    /\ UNCHANGED <<slotVars, storeVars, downVars, plan, turn, twice, failures>>

\* The retry came back; a call whose retry failed is over.
Retried(c) ==
    /\ call[c].at = "retrying" /\ commit[c].at \in {"none", "failed"}
    /\ call' = [call EXCEPT ![c].at = IF c \in Sends /\ commit[c].at = "none"
                                      THEN "loading" ELSE "ended"]
    /\ UNCHANGED <<loopVars, slotVars, storeVars, downVars, plan, turn, commit, twice, failures>>

\* register_continuation_or_inject, after the lookups.
ContinueAgent(c) ==
    LET a == call[c].agent IN
    /\ c \in Sends /\ call[c].at = "loading"
    /\ \/ /\ ~admission \/ slot[a].phase = "pending"
             \/ (slot[a].phase = "vacant" /\ Cardinality(ActiveSlots) >= Limit)
          /\ Ends(c)
          /\ UNCHANGED <<loopVars, slotVars>>
       \/ /\ admission /\ slot[a].phase = "active"
          /\ Deliver(c, a)
          /\ UNCHANGED slotVars
       \/ /\ admission /\ slot[a].phase = "vacant" /\ Cardinality(ActiveSlots) < Limit
          /\ runs[a] < MaxRuns
          /\ Register(a, TRUE)
          /\ call' = [call EXCEPT ![c].at = "spawning"]
    /\ UNCHANGED <<storeVars, downVars, plan, turn, commit, twice, failures>>

-----------------------------------------------------------------------------
(* close_agent_id: stop the run, hurry its terminal, or close the edge. *)

CloseAgent(c, a) ==
    /\ c \in plan
    /\ call[c].at = "idle" /\ runs[a] > 0
    /\ \/ /\ slot[a].phase = "active"
          /\ signal' = [signal EXCEPT ![a].stop = TRUE]
          /\ slot' = [slot EXCEPT ![a].status = "shutdown"]
          /\ Ends(c)
          /\ UNCHANGED commit
       \/ /\ slot[a].phase = "pending"
          /\ call' = [call EXCEPT ![c] = [at |-> "retrying", agent |-> a]]
          /\ Retry(c, a)
          /\ UNCHANGED <<signal, slot>>
       \/ /\ slot[a].phase = "vacant"
          /\ call' = [call EXCEPT ![c] = [at |-> "loading", agent |-> a]]
          /\ UNCHANGED <<signal, slot, commit>>
    /\ UNCHANGED <<input, loop, context, owed, runs, task, invocation, storeVars, downVars, plan, turn,
                   twice, failures>>

\* close_persisted_agent
ClosePersisted(c) ==
    /\ c \in Closes /\ call[c].at = "loading"
    /\ edge' = IF StoreOpen /\ edge[call[c].agent] # "none"
               THEN [edge EXCEPT ![call[c].agent] = "closed"] ELSE edge
    /\ Ends(c)
    /\ UNCHANGED <<loopVars, slotVars, mailbox, downVars, plan, turn, commit, twice, failures>>

-----------------------------------------------------------------------------
(* wait_agent: one page of the mailbox into the Turn's control input. *)

PendingRows == {i \in DOMAIN mailbox : mailbox[i].delivered = "pending"}
\* The first MaxItems of them, in order.
Page == {i \in PendingRows : Cardinality({j \in PendingRows : j < i}) < MaxItems}
Claimed(c) == {i \in DOMAIN mailbox : mailbox[i].delivered = c}
Mark(rows, delivered) ==
    mailbox' = [i \in DOMAIN mailbox |->
                  IF i \in rows THEN [mailbox[i] EXCEPT !.delivered = delivered] ELSE mailbox[i]]

WaitReady(c) ==
    /\ InTools(c) /\ call[c].at = "idle"
    /\ PendingRows # {} \* else it polls, or its timeout ends it
    /\ call' = [call EXCEPT ![c].at = "ready"]
    /\ UNCHANGED <<loopVars, slotVars, storeVars, downVars, plan, turn, commit, twice, failures>>

ClaimPage(c) ==
    /\ call[c].at = "ready" /\ StoreOpen
    /\ Mark(Page, c)
    /\ call' = [call EXCEPT ![c].at = "claimed"]
    /\ UNCHANGED <<loopVars, slotVars, edge, downVars, plan, turn, commit, twice, failures>>

\* The events of a page, in the order of their rows.
PageMessages(rows) ==
    [k \in 1..Cardinality(rows) |->
        [mail |-> CHOOSE i \in rows : Cardinality({j \in rows : j < i}) = k - 1]]

InjectPage(c) ==
    LET messages == PageMessages(Claimed(c)) IN
    /\ call[c].at = "claimed"
    /\ IF AdmitsBatch(input[Parent], messages)
       THEN Ends(c) /\ InjectInto(Parent, messages)
       ELSE call' = [call EXCEPT ![c].at = "resetting"] /\ UNCHANGED loopVars
    /\ UNCHANGED <<slotVars, storeVars, downVars, plan, turn, commit, twice, failures>>

\* Mutant: a page the control input refused is not given back.
KeepPage(c) ==
    /\ call[c].at = "resetting"
    /\ Ends(c)
    /\ UNCHANGED <<loopVars, slotVars, storeVars, downVars, plan, turn, commit, twice, failures>>

\* reset_agent_mailbox_delivery_for_tool; when it fails the rows stay claimed.
ResetPage(c) ==
    /\ call[c].at = "resetting"
    /\ \/ StoreOpen /\ Mark(Claimed(c), "pending") /\ Ends(c) /\ UNCHANGED failures
       \/ Fail /\ call' = [call EXCEPT ![c].at = "failed"] /\ UNCHANGED mailbox
    /\ UNCHANGED <<loopVars, slotVars, edge, downVars, plan, turn, commit, twice>>


-----------------------------------------------------------------------------
(* Application::shutdown. *)

\* close_and_cancel, of the supervisor and of the Turns when forced
CloseAndCancel(turns) ==
    /\ admission' = FALSE
    /\ signal' = [r \in Runs |->
                    IF r \in ActiveSlots THEN [stop |-> TRUE, abort |-> TRUE]
                    ELSE IF r \in turns THEN [signal[r] EXCEPT !.abort = TRUE] ELSE signal[r]]
    /\ UNCHANGED <<input, loop, context, owed>>

ShutdownGraceful ==
    /\ shutdown = "none" /\ "force" \notin plan
    /\ shutdown' = "turns"
    /\ UNCHANGED <<loopVars, slotVars, storeVars, admission, flush, plan, turn, call, commit, twice,
                   failures>>

\* The Turns are waited for before the supervisor is closed.
CloseSupervisor ==
    /\ shutdown = "turns" /\ ~Live(Parent)
    /\ shutdown' = "agents"
    /\ CloseAndCancel({})
    /\ UNCHANGED <<slotVars, storeVars, flush, plan, turn, call, commit, twice, failures>>

ShutdownForce ==
    /\ shutdown = "none" /\ "force" \in plan
    /\ shutdown' = "join"
    /\ CloseAndCancel({Parent})
    /\ UNCHANGED <<slotVars, storeVars, flush, plan, turn, call, commit, twice, failures>>

Ended(a) == task[a].at \in {"none", "done"}
BackgroundEnded == \A a \in Agents : Ended(a) \/ task[a].by # "background"

\* stage_remaining_interrupted, then the snapshot of flush_pending_terminals.
StageRemaining ==
    LET staged == [a \in Agents |->
            IF slot[a].phase # "active" THEN slot[a]
            ELSE IF ~slot[a].durable THEN Vacant
            ELSE [slot[a] EXCEPT !.phase = "pending",
                                 !.status = IF @ \in Final THEN @ ELSE "interrupted"]] IN
    /\ \/ shutdown = "agents" /\ BackgroundEnded /\ shutdown' = "flush"
       \/ shutdown = "join" /\ BackgroundEnded /\ ~Live(Parent) /\ shutdown' = "deadline"
    /\ slot' = staged
    /\ flush' = {a \in Agents : staged[a].phase = "pending"}
    /\ UNCHANGED <<loopVars, runs, task, invocation, storeVars, admission, plan, turn, call, commit,
                   twice, failures>>

\* The runs a dropped future had committed and whose slot it leaves behind.
Orphans(dropped) ==
    {<<commit[w].agent, commit[w].run>> : w \in {v \in dropped : commit[v].at = "committed"}}
DropCommits(dropped) ==
    /\ commit' = [w \in Committers |-> IF w \in dropped THEN NoCommit ELSE commit[w]]
    /\ twice' = twice \cup Orphans(dropped)

\* A forced caller takes a graceful shutdown over, or follows one that was given
\* up: its future is dropped, with the flush it was in, and the forced shutdown
\* starts from the beginning.
UpgradeShutdown ==
    /\ shutdown \in {"turns", "agents", "flush"} /\ "upgrade" \in plan
    /\ shutdown' = "join"
    /\ CloseAndCancel({Parent})
    /\ flush' = {}
    /\ DropCommits({"flush"})
    /\ UNCHANGED <<slotVars, storeVars, plan, turn, call, failures>>

\* abort_all_tasks and abort_background: the Turn, its calls and the child tasks
\* are dropped wherever they await.  A spawn_agent that is dropped behind the
\* commit of the edge leaves a slot that does not know its child session.
AbortTasks ==
    /\ shutdown = "join"
    /\ Live(Parent) \/ ~BackgroundEnded
    /\ task' = [a \in Agents |-> IF Ended(a) THEN task[a] ELSE [task[a] EXCEPT !.at = "done"]]
    /\ call' = [c \in Calls |-> IF c \in ToolCalls /\ InFlight(c)
                                THEN [call[c] EXCEPT !.at = IF @ = "created" THEN "dropped"
                                                            ELSE "ended"]
                                ELSE call[c]]
    /\ loop' = [r \in Runs |-> IF Live(r) THEN [loop[r] EXCEPT !.at = "returned", !.outcome = "none"]
                               ELSE loop[r]]
    /\ input' = [r \in Runs |-> Dropped(input[r])]
    /\ DropCommits(Committers \ (Closes \cup {"flush"}))
    /\ UNCHANGED <<signal, context, owed, slot, runs, invocation, storeVars, downVars, plan, turn,
                   failures>>

FlushNext(a) ==
    /\ shutdown \in {"flush", "deadline"} /\ a \in flush
    /\ commit["flush"].at \in {"none", "failed"}
    /\ flush' = flush \ {a}
    /\ IF slot[a].phase = "vacant" THEN UNCHANGED commit ELSE Retry("flush", a)
    /\ UNCHANGED <<loopVars, slotVars, storeVars, admission, shutdown, plan, turn, call, twice, failures>>

\* StateRuntime::close, when the flush is over or the forced deadline drops it.
CloseState ==
    /\ \/ shutdown \in {"flush", "deadline"} /\ flush = {}
          /\ commit["flush"].at \in {"none", "failed"}
          /\ UNCHANGED <<commit, twice>>
       \/ shutdown = "deadline" /\ DropCommits({"flush"})
    /\ shutdown' = "closed"
    /\ flush' = {}
    /\ UNCHANGED <<loopVars, slotVars, storeVars, admission, plan, turn, call, failures>>

Finished == shutdown = "closed" /\ UNCHANGED vars

-----------------------------------------------------------------------------
ParentNext == StartTurn \/ ParentStep \/ SteerTurn \/ AbortTurn
CallNext ==
    \/ \E c \in Spawns : (\E a \in Agents : SpawnAgent(c, a)) \/ ChildCreated(c) \/ ChildNotCreated(c)
                         \/ ChildLinked(c)
    \/ \E c \in Sends : (\E a \in Agents : SendMessage(c, a)) \/ ContinueAgent(c)
    \/ \E c \in Spawns \cup Sends : ChildSpawned(c) \/ InlineReturns(c)
    \/ \E c \in Closes : (\E a \in Agents : CloseAgent(c, a)) \/ ClosePersisted(c)
    \/ \E c \in Sends \cup Closes : Retried(c)
    \/ \E c \in Waits : WaitReady(c) \/ ClaimPage(c) \/ InjectPage(c) \/ ResetPage(c)
CommitNext ==
    \E w \in Committers : LockCommit(w) \/ CommitTerminal(w) \/ CommitFails(w) \/ RemoveSlot(w)
ChildNext ==
    \E a \in Agents : \/ OpenChild(a) \/ ChildOpened(a) \/ ChildStep(a) \/ ChildEnds(a)
                      \/ ChildRefused(a) \/ ChildDone(a)
ShutdownNext ==
    \/ ShutdownGraceful \/ CloseSupervisor \/ ShutdownForce \/ UpgradeShutdown
    \/ StageRemaining \/ AbortTasks
    \/ (\E a \in Agents : FlushNext(a)) \/ CloseState

Next == ParentNext \/ CallNext \/ CommitNext \/ ChildNext \/ ShutdownNext \/ Finished
Spec == Init /\ [][Next]_vars

-----------------------------------------------------------------------------
Rows(a, run) == {i \in DOMAIN mailbox : mailbox[i].agent = a /\ mailbox[i].run = run}

\* A run's finalizer, the calls that retry it and the shutdown append at most one
\* terminal event to the parent's mailbox (retry_terminal, supervisor.rs:376),
\* unless a forced abort drops a future between its commit and the slot's removal.
AgentTerminalOnce ==
    \A a \in Agents : \A run \in 1..runs[a] :
        <<a, run>> \notin twice => Cardinality(Rows(a, run)) <= 1

\* A forced abort dropped the spawn_agent of the Agent between the commit of its
\* edge and the update of its slot.
Unlinked(a) == \E c \in Spawns : call[c].at = "dropped" /\ call[c].agent = a

\* When the store is closed every run that had a durable edge has its terminal
\* event, or its slot is retained for the report (lifecycle.rs:260), whichever of
\* the tasks, calls and retries were refused, failed or dropped on the way; and
\* an edge without a retained slot is closed.  The one exception is an Agent whose
\* slot never learned of its child session: stage_remaining_interrupted removes
\* that slot (supervisor.rs:344), and nobody closes the edge.
AgentRunsAccounted ==
    shutdown = "closed" =>
        \A a \in Agents : edge[a] # "none" /\ ~Unlinked(a) =>
            /\ \A run \in 1..runs[a] :
                  Rows(a, run) # {} \/ (slot[a].phase = "pending" /\ runs[a] = run)
            /\ slot[a].phase = "vacant" => edge[a] = "closed"

\* The mailbox and the running Turn agree: an event is marked delivered exactly
\* when the Turn was given it, at its prompt or through its control input, but
\* for the page wait_agent has in hand (mailbox_tools.rs:326-350).
MailboxClaimed ==
    Live(Parent) =>
        \A i \in DOMAIN mailbox :
            LET given == [mail |-> i] \in context[Parent] \cup Buffered(input[Parent])
                by == mailbox[i].delivered
                inHand == by \in Waits /\ call[by].at \in {"claimed", "resetting", "failed"} IN
            ~inHand => (given <=> by # "pending")
=============================================================================
