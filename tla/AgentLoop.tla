------------------------------ MODULE AgentLoop ------------------------------
(***************************************************************************)
(* run_agent_loop (crates/psychevo-agent-core/src/agent/loop.rs): one loop *)
(* for each run, which drains the run's control input at fixed points,     *)
(* generates, runs tools and decides when to end.  The loop of a Turn and  *)
(* the loops of the child Agents it starts are the same code.              *)
(*                                                                         *)
(* begin      before the abort check that precedes the first drain         *)
(* top        at the head of the loop                                      *)
(* generating stream_assistant runs                                        *)
(* tools      execute_tool_batch runs                                      *)
(* settle     before the drain that decides whether the run is over        *)
(* ending     TurnEnd and AgentEnd are emitted, the receivers still live   *)
(* returned   the receivers are dropped                                    *)
(***************************************************************************)
EXTENDS ControlInput

CONSTANTS
    Runs,
    MaxTurns    \* AgentLoopRequest::max_turns

ASSUME LoopAssumption == MaxTurns \in Nat

VARIABLES
    input,      \* [Runs -> buffer]
    signal,     \* [Runs -> [stop, abort]]: the watch channels of ControlHandle
    loop,       \* [Runs -> [at, turn, tools, fresh, outcome]]
    context,    \* [Runs -> messages the next generation will be given]
    owed        \* [Runs -> messages accepted before the loop's last drain that
                \*          no generation was given yet]

loopVars == <<input, signal, loop, context, owed>>

Locations == {"idle", "begin", "top", "generating", "tools", "settle", "ending", "returned"}
Outcomes  == {"none", "normal", "failed", "aborted", "stopped"}
NoLoop == [at |-> "idle", turn |-> 0, tools |-> FALSE, fresh |-> FALSE, outcome |-> "none"]
Quiet  == [stop |-> FALSE, abort |-> FALSE]

LoopInit ==
    /\ input = [r \in Runs |-> Dropped(NewInput)]
    /\ signal = [r \in Runs |-> Quiet]
    /\ loop = [r \in Runs |-> NoLoop]
    /\ context = [r \in Runs |-> {}]
    /\ owed = [r \in Runs |-> {}]

Live(r) == loop[r].at \notin {"idle", "returned"}

\* A message that arrives after the last drain is the one the loop cannot owe.
Owe(r, messages) == IF loop[r].at = "ending" THEN owed ELSE [owed EXCEPT ![r] = @ \cup messages]

-----------------------------------------------------------------------------
\* drain_external_user_messages
Drain(r, include_pending) ==
    LET drained == DrainInjected(input[r]) IN
    /\ input' = [input EXCEPT ![r] = IF include_pending THEN TakeSteered(drained) ELSE drained]
    /\ context' = [context EXCEPT ![r] = @ \cup ToSet(input[r].injected)
                        \cup IF include_pending THEN ToSet(SteeredMessages(input[r])) ELSE {}]

\* Mutant: the steered messages are taken but do not count.
HadInjected(r, include_pending) == input[r].injected # <<>>

HadMessages(r, include_pending) ==
    input[r].injected # <<>> \/ (include_pending /\ input[r].steered # <<>>)

KeepInput == UNCHANGED <<input, context>>

EndWith(r, outcome) == loop' = [loop EXCEPT ![r].at = "ending", ![r].outcome = outcome]

Begin(r) ==
    /\ loop[r].at = "begin"
    /\ \/ /\ signal[r].abort
          /\ EndWith(r, "aborted")
          /\ KeepInput
       \/ /\ ~signal[r].abort
          /\ Drain(r, TRUE)
          /\ loop' = [loop EXCEPT ![r].at = "top"]
    /\ UNCHANGED <<signal, owed>>

Top(r) ==
    /\ loop[r].at = "top"
    /\ \/ /\ loop[r].turn >= MaxTurns
          /\ EndWith(r, "failed")
          /\ KeepInput
          /\ UNCHANGED owed
       \/ /\ loop[r].turn < MaxTurns
          /\ signal[r].abort
          /\ EndWith(r, "aborted")
          /\ KeepInput
          /\ UNCHANGED owed
       \/ /\ loop[r].turn < MaxTurns
          /\ ~signal[r].abort
          /\ Drain(r, TRUE)
          /\ owed' = [owed EXCEPT ![r] = @ \ context'[r]]
          /\ loop' = [loop EXCEPT ![r].at = "generating"]
    /\ UNCHANGED signal

\* The assistant's message is complete; outcome and tools are the model's choice,
\* except that an abort the generation notices makes it Aborted.
Generated(r, outcome, tools) ==
    /\ loop[r].at = "generating"
    /\ outcome = "aborted" => signal[r].abort
    /\ Drain(r, FALSE)
    /\ IF outcome # "normal"
       THEN EndWith(r, outcome)
       ELSE loop' = [loop EXCEPT ![r].at = IF tools THEN "tools" ELSE "settle",
                                 ![r].tools = tools,
                                 ![r].fresh = HadMessages(r, FALSE)]
    /\ UNCHANGED <<signal, owed>>

ToolsDone(r) ==
    /\ loop[r].at = "tools"
    /\ loop' = [loop EXCEPT ![r].at = "settle"]
    /\ UNCHANGED <<input, signal, context, owed>>

\* Messages injected during the generation make the second drain unnecessary.
SettleDrain(r) == IF loop[r].fresh THEN KeepInput ELSE Drain(r, TRUE)

Settle(r) ==
    LET injected == loop[r].fresh \/ HadMessages(r, TRUE) IN
    /\ loop[r].at = "settle"
    /\ SettleDrain(r)
    /\ \/ signal[r].abort /\ EndWith(r, "aborted")
       \/ ~signal[r].abort /\ signal[r].stop /\ EndWith(r, "stopped")
       \/ /\ ~signal[r].abort /\ ~signal[r].stop
          /\ ~loop[r].tools /\ ~injected
          /\ EndWith(r, "normal")
       \/ /\ ~signal[r].abort /\ ~signal[r].stop
          /\ loop[r].tools \/ injected
          /\ loop' = [loop EXCEPT ![r].at = "top", ![r].turn = @ + 1]
    /\ UNCHANGED <<signal, owed>>

\* The loop returns and drops its ControlReceivers.
Return(r) ==
    /\ loop[r].at = "ending"
    /\ loop' = [loop EXCEPT ![r].at = "returned"]
    /\ input' = [input EXCEPT ![r] = Dropped(@)]
    /\ UNCHANGED <<signal, context, owed>>

LoopStep(r) ==
    \/ Begin(r) \/ Top(r) \/ Settle(r) \/ Return(r)
    \/ \E outcome \in {"normal", "failed", "aborted"}, tools \in BOOLEAN :
          Generated(r, outcome, tools)

-----------------------------------------------------------------------------
(* ControlHandle: what others do to a run. *)

\* inject_user_message and inject_authoritative_messages, when they are accepted.
InjectInto(r, messages) ==
    /\ input' = [input EXCEPT ![r] = Inject(@, messages)]
    /\ owed' = Owe(r, ToSet(messages))
    /\ UNCHANGED <<signal, loop, context>>

SteerRun(r, message) ==
    /\ AdmitsSteer(input[r], message)
    /\ input' = [input EXCEPT ![r] = Steer(@, message)]
    /\ owed' = Owe(r, {message})
    /\ UNCHANGED <<signal, loop, context>>

UpdateSteer(r, id, message) ==
    /\ AdmitsUpdate(input[r], id, message)
    /\ input' = [input EXCEPT ![r] = Update(@, id, message)]
    /\ owed' = LET old == input[r].steered[IndexOfSteer(input[r], id)].message IN
               IF old \in owed[r] THEN [owed EXCEPT ![r] = (@ \ {old}) \cup {message}] ELSE owed
    /\ UNCHANGED <<signal, loop, context>>

CancelSteer(r, id) ==
    /\ id \in SteerIds(input[r])
    /\ input' = [input EXCEPT ![r] = Cancel(@, id)]
    /\ owed' = [owed EXCEPT ![r] = @ \ {input[r].steered[IndexOfSteer(input[r], id)].message}]
    /\ UNCHANGED <<signal, loop, context>>

CancelSteers(r) ==
    /\ input[r].steered # <<>>
    /\ input' = [input EXCEPT ![r] = TakeSteered(@)]
    /\ owed' = [owed EXCEPT ![r] = @ \ ToSet(SteeredMessages(input[r]))]
    /\ UNCHANGED <<signal, loop, context>>

\* accepted_items and accepted_bytes count what is in the two queues, through
\* every sequence of admissions, updates, cancels and drains, and never pass the
\* limits (admit, control.rs:59).
BufferExact == \A r \in Runs : Exact(input[r])

\* A run that ends Normal was given every message its control input accepted
\* before the loop's last drain (loop.rs:204-223): the drain that ends the run
\* finds nothing, and whatever an earlier one found made the loop go round.
AcceptedInputHeard ==
    \A r \in Runs : loop[r].at = "returned" /\ loop[r].outcome = "normal" => owed[r] = {}
=============================================================================
