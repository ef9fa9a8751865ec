-------------------------- MODULE InteractionBroker --------------------------
(***************************************************************************)
(* The permission requests and clarifications of one Turn                  *)
(* (crates/psychevo/src/application/interaction_broker.rs): the broker's   *)
(* actor and its bounded command queue, the waiters it adopts, the durable *)
(* rows (store/framework_interactions.rs), the calls that ask, answer and  *)
(* cancel, and the finalizer that ends them all.                           *)
(*                                                                         *)
(* Async code is cut at its awaits.  A store transaction and the step that *)
(* uses its result are two actions: other tasks run between them, and a    *)
(* forced abort can drop the actor there.  An interaction is one oneshot   *)
(* channel; sender and mail are its two ends.                              *)
(***************************************************************************)
EXTENDS Naturals, Sequences, SequencesExt

CONSTANTS
    Permissions,      \* permission requests, by interaction id
    Clarifies,        \* clarifications, by interaction id
    Delegated,        \* the permissions asked of a host's handler as well
    Responders,       \* callers of TurnHandle::respond
    Responses,        \* the responses they may give
    QueueCapacity,    \* INTERACTION_COMMAND_CAPACITY
    MaxStoreFailures, \* bound on store transactions that fail
    None

Ids    == Permissions \cup Clarifies
Askers == Responders \cup Delegated     \* who may have a Respond in the queue

Response == {"allow", "deny", "answers", "cancel"}   \* InteractionResponse

ASSUME InteractionAssumption ==
    /\ Permissions \cap Clarifies = {}
    /\ Responders \cap Ids = {}
    /\ Delegated \subseteq Permissions
    /\ Responses \subseteq Response
    /\ QueueCapacity \in Nat \ {0}
    /\ MaxStoreFailures \in Nat

VARIABLES
    row,        \* [Ids -> RowStatus]: framework_interactions
    resolution, \* [Ids -> Resolution \cup {None}]: its resolution_json
    terminal,   \* the Turn has a row in gateway_turn_terminals
    sender,     \* [Ids -> where the oneshot sender is]
    mail,       \* [Ids -> what was sent to the receiver, or None]
    req,        \* [Ids -> RequestState]: the future that owns the receiver
    result,     \* [Ids -> what the request returned, or None]
    ask,        \* [Askers -> [at, id, response]]: calls of broker.respond
    cancel,     \* [Permissions -> CancelState]: cancel_permission_with_reason
    queue,      \* commands in the mpsc channel
    actor,      \* [at, cmd, outcome]: the spawned task
    finished,   \* the CancellationToken
    fin,        \* how far the Turn's finalizer is
    log,        \* interaction events pushed to the Turn's EventLog
    failures    \* failed transactions so far

askVars   == <<req, result, ask, cancel>>
waitVars  == <<sender, mail>>
storeVars == <<row, resolution, terminal, failures>>
vars == <<askVars, waitVars, storeVars, queue, actor, finished, fin, log>>

RowStatus  == {"none", "pending", "resolved", "cancelled"}
Reason     == {"timed_out", "aborted", "answered", "cancelled", "turn_finished"}
Resolution == Response \cup Reason \cup {"terminal"}
Receipt    == {"ok", "accepted", "refused", "error"}

(***************************************************************************)
(* idle       not asked yet                                                *)
(* sending    waits for room in the queue; asked: for the receipt          *)
(* ok, error  the receipt arrived (error: or the broker is closed)         *)
(* waiting    awaits the receiver; racing: and the host's handler          *)
(* replying   the handler decided, its Respond is under way                *)
(* ended      returned, or dropped by its caller                           *)
(***************************************************************************)
RequestState == {"idle", "sending", "asked", "ok", "error", "waiting", "racing",
                 "replying", "ended"}
AskState     == {"idle", "sending", "asked", "ended"} \cup Receipt
CancelState  == {"idle", "removing", "sending", "asked", "ended"} \cup Receipt

Command == [op : {"request", "respond", "observe"}, id : Ids,
            value : Response \cup Reason \cup {None},
            by : Askers \cup {"cancel", "caller", None}]
AskRecord  == [at : AskState, id : Ids \cup {None}, response : Response \cup {None}]
ActorState == {"idle", "received", "adopted", "answered", "stopped"}
Idle == [at |-> "idle", cmd |-> None, outcome |-> None]

\* None is an absent value, none of the others.
ASSUME NoneAssumption ==
    None \notin Ids \cup Askers \cup Command \cup Resolution \cup {"cancel", "caller"}

TypeOK ==
    /\ row \in [Ids -> RowStatus]
    /\ resolution \in [Ids -> Resolution \cup {None}]
    /\ terminal \in BOOLEAN
    /\ sender \in [Ids -> {"none", "map", "actor", "gone"}]
    /\ mail \in [Ids -> {"allow", "deny", "answers", "cancelled", None}]
    /\ req \in [Ids -> RequestState]
    /\ result \in [Ids -> {"allow", "deny", "answers", "cancelled", "turn_finished",
                           "timed_out", None}]
    /\ ask \in [Askers -> AskRecord]
    /\ cancel \in [Permissions -> CancelState]
    /\ queue \in Seq(Command)
    /\ Len(queue) <= QueueCapacity
    /\ actor \in [at : ActorState, cmd : Command \cup {None},
                  outcome : {"won", "lost", "failed", None}]
    /\ finished \in BOOLEAN
    /\ fin \in {"running", "persisted", "cleared", "done", "aborted"}
    /\ log \in Seq({"requested", "resolved"} \X Ids)
    /\ failures \in 0..MaxStoreFailures

Init ==
    /\ row = [i \in Ids |-> "none"]
    /\ resolution = [i \in Ids |-> None]
    /\ terminal = FALSE
    /\ sender = [i \in Ids |-> "none"]
    /\ mail = [i \in Ids |-> None]
    /\ req = [i \in Ids |-> "idle"]
    /\ result = [i \in Ids |-> None]
    /\ ask = [a \in Askers |-> [at |-> "idle", id |-> None, response |-> None]]
    /\ cancel = [p \in Permissions |-> "idle"]
    /\ queue = <<>>
    /\ actor = Idle
    /\ finished = FALSE
    /\ fin = "running"
    /\ log = <<>>
    /\ failures = 0

-----------------------------------------------------------------------------
(* The channels. *)

\* The receiver exists: sender.is_closed() is false.
Open(i) == req[i] \notin {"idle", "ended"}

Room   == actor.at # "stopped" /\ Len(queue) < QueueCapacity
Closed == actor.at = "stopped"

Send(op, i, value, by) ==
    queue' = Append(queue, [op |-> op, id |-> i, value |-> value, by |-> by])

\* The receipts of the commands cmds become r; a caller that gave up ignores it.
Receipts(cmds, r) ==
    LET Waits(op, i, by) == \E c \in cmds : c.op = op /\ c.id = i /\ c.by = by IN
    /\ req' = [i \in Ids |-> IF req[i] = "asked" /\ Waits("request", i, "caller")
                             THEN r ELSE req[i]]
    /\ ask' = [a \in Askers |-> IF ask[a].at = "asked" /\ Waits("respond", ask[a].id, a)
                                THEN [ask[a] EXCEPT !.at = r] ELSE ask[a]]
    /\ cancel' = [p \in Permissions |->
                    IF cancel[p] = "asked" /\ Waits("observe", p, "cancel")
                    THEN r ELSE cancel[p]]

\* remove_permission, ClarifyControl::remove: the sender is dropped from the map.
RemoveWaiter(i) == IF sender[i] = "map" THEN [sender EXCEPT ![i] = "gone"] ELSE sender

\* cancel_interaction_waiter: the waiter in the map is sent a denial.
CancelWaiter(i) ==
    /\ sender' = RemoveWaiter(i)
    /\ mail' = IF sender[i] = "map" /\ Open(i)
               THEN [mail EXCEPT ![i] = IF i \in Permissions THEN "deny" ELSE "cancelled"]
               ELSE mail

End(i, r) ==
    /\ req' = [req EXCEPT ![i] = "ended"]
    /\ result' = [result EXCEPT ![i] = r]

-----------------------------------------------------------------------------
(* FrameworkApprovalHandler: a permission request and its cancellation. *)

\* request_permission registers the waiter before its future first runs.
RequestPermission(p) ==
    /\ req[p] = "idle" /\ fin # "aborted"
    /\ sender' = [sender EXCEPT ![p] = "map"]
    /\ req' = [req EXCEPT ![p] = "sending"]
    /\ UNCHANGED <<mail, result, ask, cancel, storeVars, queue, actor, finished, fin, log>>

SendRequest(p) ==
    /\ req[p] = "sending"
    /\ \/ /\ Room
          /\ Send("request", p, None, "caller")
          /\ req' = [req EXCEPT ![p] = "asked"]
       \/ /\ Closed
          /\ req' = [req EXCEPT ![p] = "error"]
          /\ UNCHANGED queue
    /\ UNCHANGED <<waitVars, result, ask, cancel, storeVars, actor, finished, fin, log>>

\* A request that was not recorded is denied; a recorded one waits.
RequestReturns(p) ==
    /\ \/ /\ req[p] = "ok"
          /\ req' = [req EXCEPT ![p] = IF p \in Delegated THEN "racing" ELSE "waiting"]
          /\ UNCHANGED <<sender, result>>
       \/ /\ req[p] = "error"
          /\ sender' = RemoveWaiter(p)
          /\ End(p, "deny")
    /\ UNCHANGED <<mail, ask, cancel, storeVars, queue, actor, finished, fin, log>>

\* The receiver wakes with a decision, or because its sender was dropped.
ReceiveDecision(p) ==
    /\ req[p] \in {"waiting", "racing"}
    /\ mail[p] # None \/ sender[p] = "gone"
    /\ End(p, IF mail[p] # None THEN mail[p] ELSE "deny")
    /\ sender' = RemoveWaiter(p)
    /\ UNCHANGED <<mail, ask, cancel, storeVars, queue, actor, finished, fin, log>>

\* The handler wins the select: its decision goes through the broker.
DelegateDecides(p, response) ==
    /\ req[p] = "racing"
    /\ req' = [req EXCEPT ![p] = "replying"]
    /\ ask' = [ask EXCEPT ![p] = [at |-> "sending", id |-> p, response |-> response]]
    /\ UNCHANGED <<waitVars, result, cancel, storeVars, queue, actor, finished, fin, log>>

\* An accepted receipt returns the handler's decision, any other one waits on.
DelegateReturns(p) ==
    /\ req[p] = "replying" /\ ask[p].at \in Receipt
    /\ ask' = [ask EXCEPT ![p].at = "ended"]
    /\ \/ /\ ask[p].at = "accepted"
          /\ End(p, ask[p].response)
          /\ sender' = RemoveWaiter(p)
       \/ /\ ask[p].at # "accepted"
          /\ req' = [req EXCEPT ![p] = "waiting"]
          /\ UNCHANGED <<sender, result>>
    /\ UNCHANGED <<mail, cancel, storeVars, queue, actor, finished, fin, log>>

\* The caller's timeout or the abort signal drops the future, and the caller
\* goes on with cancel_permission_with_reason.  A command that is already in
\* the queue stays there.
ExpirePermission(p) ==
    /\ Open(p)
    /\ End(p, "deny")
    /\ cancel' = [cancel EXCEPT ![p] = "removing"]
    /\ ask' = IF p \in Delegated THEN [ask EXCEPT ![p].at = "ended"] ELSE ask
    /\ UNCHANGED <<waitVars, storeVars, queue, actor, finished, fin, log>>

CancelRemoves(p) ==
    /\ cancel[p] = "removing"
    /\ sender' = RemoveWaiter(p)
    /\ cancel' = [cancel EXCEPT ![p] = "sending"]
    /\ UNCHANGED <<mail, req, result, ask, storeVars, queue, actor, finished, fin, log>>

SendCancel(p) ==
    /\ cancel[p] = "sending"
    /\ \/ /\ Room
          /\ \E reason \in {"timed_out", "aborted"} : Send("observe", p, reason, "cancel")
          /\ cancel' = [cancel EXCEPT ![p] = "asked"]
       \/ /\ Closed
          /\ cancel' = [cancel EXCEPT ![p] = "error"]
          /\ UNCHANGED queue
    /\ UNCHANGED <<waitVars, req, result, ask, storeVars, actor, finished, fin, log>>

-----------------------------------------------------------------------------
(* The clarify tool: ClarifyControl and TurnEventSender::emit. *)

\* broker.observe: try_send.  A command that finds the queue full or closed is
\* lost (the code pushes a warning); a lost request cancels its waiter.
Observe(i, op, reason) ==
    IF Room THEN Send(op, i, reason, None) ELSE UNCHANGED queue

RequestClarify(c) ==
    /\ req[c] = "idle" /\ fin # "aborted"
    /\ req' = [req EXCEPT ![c] = "waiting"]
    /\ Observe(c, "request", None)
    /\ sender' = [sender EXCEPT ![c] = IF Room THEN "map" ELSE "gone"]
    /\ mail' = IF Room THEN mail ELSE [mail EXCEPT ![c] = "cancelled"]
    /\ UNCHANGED <<result, ask, cancel, storeVars, actor, finished, fin, log>>

ReceiveClarify(c) ==
    /\ req[c] = "waiting"
    /\ mail[c] # None \/ sender[c] = "gone"
    /\ LET r == IF mail[c] # None THEN mail[c] ELSE "turn_finished" IN
       /\ End(c, r)
       /\ Observe(c, "observe", IF r = "answers" THEN "answered" ELSE r)
    /\ UNCHANGED <<waitVars, ask, cancel, storeVars, actor, finished, fin, log>>

\* The timer or the abort signal: both are recorded as a cancellation.
ExpireClarify(c) ==
    /\ req[c] = "waiting"
    /\ End(c, "timed_out")
    /\ Observe(c, "observe", "timed_out")
    /\ sender' = RemoveWaiter(c)
    /\ UNCHANGED <<mail, ask, cancel, storeVars, actor, finished, fin, log>>

-----------------------------------------------------------------------------
(* InteractionBroker::respond. *)

Respond(r, i, response) ==
    /\ ask[r].at = "idle"
    /\ ask' = [ask EXCEPT ![r] = [at |-> "sending", id |-> i, response |-> response]]
    /\ UNCHANGED <<req, result, cancel, waitVars, storeVars, queue, actor, finished, fin, log>>

SendRespond(a) ==
    /\ ask[a].at = "sending"
    /\ \/ /\ Room
          /\ Send("respond", ask[a].id, ask[a].response, a)
          /\ ask' = [ask EXCEPT ![a].at = "asked"]
       \/ /\ Closed
          /\ ask' = [ask EXCEPT ![a].at = "error"]
          /\ UNCHANGED queue
    /\ UNCHANGED <<req, result, cancel, waitVars, storeVars, actor, finished, fin, log>>

-----------------------------------------------------------------------------
(* The actor. *)

\* Mutant: the newest command is handled first.
ReceiveNewest ==
    /\ actor.at = "idle" /\ queue # <<>>
    /\ actor' = [at |-> "received", cmd |-> Last(queue), outcome |-> None]
    /\ queue' = Front(queue)
    /\ UNCHANGED <<askVars, waitVars, storeVars, finished, fin, log>>

ReceiveCommand ==
    /\ actor.at = "idle" /\ queue # <<>>
    /\ actor' = [at |-> "received", cmd |-> Head(queue), outcome |-> None]
    /\ queue' = Tail(queue)
    /\ UNCHANGED <<askVars, waitVars, storeVars, finished, fin, log>>

StoreFails == failures < MaxStoreFailures /\ failures' = failures + 1

Answered(outcome) ==
    actor' = [actor EXCEPT !.at = "answered", !.outcome = outcome]

\* Mutant: the insert does not look for the Turn's terminal.
StoreRequestBlindly ==
    /\ actor.at = "received" /\ actor.cmd.op = "request"
    /\ row' = [row EXCEPT ![actor.cmd.id] = "pending"]
    /\ Answered("won")
    /\ UNCHANGED <<failures, resolution, terminal, askVars, waitVars, queue, finished, fin, log>>

\* request_framework_interaction: insert unless the Turn is terminal or the
\* interaction exists.
StoreRequest ==
    /\ actor.at = "received" /\ actor.cmd.op = "request"
    /\ LET i == actor.cmd.id IN
       \/ /\ StoreFails /\ Answered("failed")
          /\ UNCHANGED row
       \/ /\ ~terminal /\ row[i] = "none"
          /\ row' = [row EXCEPT ![i] = "pending"]
          /\ Answered("won")
          /\ UNCHANGED failures
       \/ /\ terminal \/ row[i] # "none"
          /\ Answered("lost")
          /\ UNCHANGED <<row, failures>>
    /\ UNCHANGED <<resolution, terminal, askVars, waitVars, queue, finished, fin, log>>

ConcludeRequest ==
    /\ actor.at = "answered" /\ actor.cmd.op = "request"
    /\ LET i == actor.cmd.id IN
       IF actor.outcome = "won"
       THEN /\ log' = Append(log, <<"requested", i>>)
            /\ Receipts({actor.cmd}, "ok")
            /\ UNCHANGED waitVars
       ELSE /\ CancelWaiter(i)
            /\ Receipts({actor.cmd}, "error")
            /\ UNCHANGED log
    /\ actor' = Idle
    /\ UNCHANGED <<result, storeVars, queue, finished, fin>>

\* A response fits the durable kind of the interaction.
Fits(i, response) ==
    response \in (IF i \in Permissions THEN {"allow", "deny"} ELSE {"answers"})
                 \cup {"cancel"}

\* pending_framework_interaction_kind, then adopt_interaction_waiter.  The read
\* needs no step of its own: the compare-and-set of StoreResolve repeats it.
Adopt ==
    /\ actor.at = "received" /\ actor.cmd.op = "respond"
    /\ LET i     == actor.cmd.id
           takes == row[i] = "pending" /\ Fits(i, actor.cmd.value) /\ sender[i] = "map"
       IN
       \/ /\ StoreFails
          /\ actor' = Idle /\ Receipts({actor.cmd}, "error")
          /\ UNCHANGED sender
       \/ /\ takes /\ Open(i)
          /\ sender' = [sender EXCEPT ![i] = "actor"]
          /\ actor' = [actor EXCEPT !.at = "adopted"]
          /\ UNCHANGED <<req, ask, cancel, failures>>
       \/ /\ ~(takes /\ Open(i))
          /\ sender' = IF takes THEN RemoveWaiter(i) ELSE sender
          /\ actor' = Idle /\ Receipts({actor.cmd}, "refused")
          /\ UNCHANGED failures
    /\ UNCHANGED <<mail, result, row, resolution, terminal, queue, finished, fin, log>>

\* Mutant: the update does not ask for a pending row.
StoreOverwrite ==
    /\ \/ actor.at = "adopted"
       \/ actor.at = "received" /\ actor.cmd.op = "observe"
    /\ row' = [row EXCEPT ![actor.cmd.id] = "resolved"]
    /\ resolution' = [resolution EXCEPT ![actor.cmd.id] = actor.cmd.value]
    /\ Answered("won")
    /\ UNCHANGED <<failures, terminal, askVars, waitVars, queue, finished, fin, log>>

\* resolve_framework_interaction: pending -> resolved or cancelled.
StoreResolve ==
    /\ \/ actor.at = "adopted"
       \/ actor.at = "received" /\ actor.cmd.op = "observe"
    /\ LET i == actor.cmd.id IN
       \/ /\ StoreFails /\ Answered("failed")
          /\ UNCHANGED <<row, resolution>>
       \/ /\ row[i] = "pending"
          /\ row' = [row EXCEPT ![i] =
                        IF actor.cmd.value \in {"cancel", "cancelled", "timed_out",
                                                "turn_finished"}
                        THEN "cancelled" ELSE "resolved"]
          /\ resolution' = [resolution EXCEPT ![i] = actor.cmd.value]
          /\ Answered("won")
          /\ UNCHANGED failures
       \/ /\ row[i] # "pending"
          /\ Answered("lost")
          /\ UNCHANGED <<row, resolution, failures>>
    /\ UNCHANGED <<terminal, askVars, waitVars, queue, finished, fin, log>>

\* What AdoptedInteractionWaiter::deliver sends.
Delivered(i, response) ==
    IF response # "cancel" THEN response
    ELSE IF i \in Permissions THEN "deny" ELSE "cancelled"

\* Mutant: the waiter is woken whatever the store said.
WakeAlways ==
    /\ actor.at = "answered" /\ actor.cmd.op = "respond"
    /\ LET i == actor.cmd.id IN
       /\ sender' = [sender EXCEPT ![i] = "gone"]
       /\ mail' = IF Open(i) THEN [mail EXCEPT ![i] = Delivered(i, actor.cmd.value)] ELSE mail
    /\ Receipts({actor.cmd}, "accepted")
    /\ actor' = Idle
    /\ UNCHANGED <<result, storeVars, queue, finished, fin, log>>

\* Mutant: the waiter of a failed response is dropped.
DropWaiter ==
    /\ actor.at = "answered" /\ actor.cmd.op = "respond"
    /\ sender' = [sender EXCEPT ![actor.cmd.id] = "gone"]
    /\ Receipts({actor.cmd}, "error")
    /\ actor' = Idle
    /\ UNCHANGED <<result, mail, storeVars, queue, finished, fin, log>>

\* Only the winner of the compare-and-set wakes the waiter; the others put it
\* back, unless its receiver is gone.
ConcludeRespond ==
    /\ actor.at = "answered" /\ actor.cmd.op = "respond"
    /\ LET i == actor.cmd.id IN
       IF actor.outcome = "won"
       THEN /\ sender' = [sender EXCEPT ![i] = "gone"]
            /\ mail' = IF Open(i)
                       THEN [mail EXCEPT ![i] = Delivered(i, actor.cmd.value)] ELSE mail
            /\ log' = Append(log, <<"resolved", i>>)
            /\ Receipts({actor.cmd}, IF Open(i) THEN "accepted" ELSE "error")
       ELSE /\ sender' = [sender EXCEPT ![i] = IF Open(i) THEN "map" ELSE "gone"]
            /\ Receipts({actor.cmd}, IF actor.outcome = "lost" THEN "refused" ELSE "error")
            /\ UNCHANGED <<mail, log>>
    /\ actor' = Idle
    /\ UNCHANGED <<result, storeVars, queue, finished, fin>>

\* Mutant: a resolution that changed no row is published too.
PublishAlways ==
    /\ actor.at = "answered" /\ actor.cmd.op = "observe"
    /\ log' = Append(log, <<"resolved", actor.cmd.id>>)
    /\ Receipts({actor.cmd}, IF actor.outcome = "failed" THEN "error" ELSE "ok")
    /\ actor' = Idle
    /\ UNCHANGED <<result, waitVars, storeVars, queue, finished, fin>>

ConcludeObserve ==
    /\ actor.at = "answered" /\ actor.cmd.op = "observe"
    /\ log' = IF actor.outcome = "won" THEN Append(log, <<"resolved", actor.cmd.id>>) ELSE log
    /\ Receipts({actor.cmd}, IF actor.outcome = "failed" THEN "error" ELSE "ok")
    /\ actor' = Idle
    /\ UNCHANGED <<result, waitVars, storeVars, queue, finished, fin>>

\* Mutant: the receipts of the queued commands are forgotten.
StopSilently ==
    /\ actor.at = "idle" /\ finished
    /\ actor' = [Idle EXCEPT !.at = "stopped"]
    /\ queue' = <<>>
    /\ UNCHANGED <<askVars, waitVars, storeVars, finished, fin, log>>

\* The actor sees the token between two commands, and drops what is queued.
Stop ==
    /\ actor.at = "idle" /\ finished
    /\ actor' = [Idle EXCEPT !.at = "stopped"]
    /\ Receipts(ToSet(queue), "error")
    /\ queue' = <<>>
    /\ UNCHANGED <<result, waitVars, storeVars, finished, fin, log>>

-----------------------------------------------------------------------------
(* The Turn's finalizer, the retry of its terminal, and the forced abort. *)

\* finalize_framework_turn commits the terminal and cancels what is pending.
CommitTerminal ==
    /\ terminal' = TRUE
    /\ row' = [i \in Ids |-> IF row[i] = "pending" THEN "cancelled" ELSE row[i]]
    /\ resolution' = [i \in Ids |-> IF row[i] = "pending" THEN "terminal" ELSE resolution[i]]
    /\ UNCHANGED failures

PersistTerminal ==
    /\ fin = "running"
    /\ \/ CommitTerminal
       \/ StoreFails /\ UNCHANGED <<row, resolution, terminal>>
    /\ fin' = "persisted"
    /\ UNCHANGED <<askVars, waitVars, queue, actor, finished, log>>

\* cancel_permissions clears the map; clarifications have their own.
CancelPermissions ==
    /\ fin = "persisted"
    /\ sender' = [i \in Ids |-> IF i \in Permissions /\ sender[i] = "map"
                                THEN "gone" ELSE sender[i]]
    /\ fin' = "cleared"
    /\ UNCHANGED <<mail, askVars, storeVars, queue, actor, finished, log>>

Finish ==
    /\ fin = "cleared"
    /\ finished' = TRUE
    /\ fin' = "done"
    /\ UNCHANGED <<askVars, waitVars, storeVars, queue, actor, log>>

\* resume_turn and shutdown retry a terminal that was not persisted.
RetryTerminal ==
    /\ fin \in {"done", "aborted"} /\ ~terminal
    /\ CommitTerminal
    /\ UNCHANGED <<askVars, waitVars, queue, actor, finished, fin, log>>

\* abort_all of a forced shutdown drops the Turn's task with its requests, and
\* the actor with the waiter it holds and the commands it did not answer.
ForcedAbort ==
    /\ fin # "aborted"
    /\ fin' = "aborted"
    /\ actor' = [Idle EXCEPT !.at = "stopped"]
    /\ queue' = <<>>
    /\ sender' = [i \in Ids |-> IF sender[i] = "actor" THEN "gone" ELSE sender[i]]
    /\ req' = [i \in Ids |-> IF Open(i) THEN "ended" ELSE req[i]]
    /\ cancel' = [p \in Permissions |-> IF cancel[p] = "idle" THEN "idle" ELSE "ended"]
    /\ ask' = [a \in Askers |->
                 IF a \in Delegated /\ ask[a].at # "idle" THEN [ask[a] EXCEPT !.at = "ended"]
                 ELSE IF ask[a].at = "asked" THEN [ask[a] EXCEPT !.at = "error"]
                 ELSE ask[a]]
    /\ UNCHANGED <<result, mail, storeVars, finished, log>>

-----------------------------------------------------------------------------
ActorStep ==
    \/ ReceiveCommand \/ StoreRequest \/ ConcludeRequest \/ Adopt \/ StoreResolve
    \/ ConcludeRespond \/ ConcludeObserve \/ Stop

PermissionStep(p) ==
    SendRequest(p) \/ RequestReturns(p) \/ ReceiveDecision(p) \/ DelegateReturns(p)
    \/ CancelRemoves(p) \/ SendCancel(p)

FinalizerStep == PersistTerminal \/ CancelPermissions \/ Finish

\* Everything was aborted and every call has returned.
Finished ==
    /\ fin = "aborted" /\ terminal
    /\ \A r \in Responders : ask[r].at \in Receipt
    /\ UNCHANGED vars

Next ==
    \/ \E p \in Permissions :
         \/ RequestPermission(p) \/ PermissionStep(p) \/ ExpirePermission(p)
         \/ /\ p \in Delegated
            /\ \E d \in Responses \cap {"allow", "deny"} : DelegateDecides(p, d)
    \/ \E c \in Clarifies : RequestClarify(c) \/ ReceiveClarify(c) \/ ExpireClarify(c)
    \/ \E r \in Responders, i \in Ids, response \in Responses : Respond(r, i, response)
    \/ \E a \in Askers : SendRespond(a)
    \/ ActorStep
    \/ FinalizerStep
    \/ RetryTerminal
    \/ ForcedAbort
    \/ Finished

Spec == Init /\ [][Next]_vars

-----------------------------------------------------------------------------
(* Properties. *)

\* Nothing is approved or answered that is not durable with that very answer:
\* a tool goes ahead only after the compare-and-set that recorded the decision,
\* whoever else was answering, expiring or finalizing.
AnswersDurable ==
    \A i \in Ids : result[i] \in {"allow", "answers"} =>
        row[i] = "resolved" /\ resolution[i] = result[i]

\* A receipt with accepted: true is the truth: the interaction is resolved by
\* that response for good, and no second response was accepted.
AcceptedOnce ==
    \A a \in Askers : ask[a].at = "accepted" =>
        /\ resolution[ask[a].id] = ask[a].response
        /\ \A b \in Askers \ {a} : ask[b].at = "accepted" => ask[b].id # ask[a].id

\* A terminal Turn has no pending interaction, even when a request was on its
\* way to the store while the terminal was committed.
TerminalLeavesNonePending ==
    terminal => \A i \in Ids : row[i] # "pending"

\* While the Turn runs, an interaction that is pending and awaited can be
\* answered: its waiter is registered or in the hands of the actor.  A response
\* that lost or failed in the store must have put it back.
PendingAnswerable ==
    \A i \in Ids :
        fin = "running" /\ row[i] = "pending" /\ req[i] \in {"waiting", "racing"}
            => sender[i] \in {"map", "actor"}

\* A cancellation that returned without an error leaves nothing pending: the
\* request it cancels is ahead of it in the queue or was never sent.
CancelSettles ==
    \A p \in Permissions : cancel[p] = "ok" => row[p] # "pending"

\* Streams see what the rows say: one request event, at most one resolution
\* behind it, and none for an interaction that is still pending.
EventsMatchRows ==
    \A k \in 1..Len(log) :
        LET i == log[k][2] IN
        /\ \A j \in 1..Len(log) : log[j] = log[k] => j = k
        /\ row[i] # "none"
        /\ log[k][1] = "resolved" =>
              /\ row[i] \in {"resolved", "cancelled"}
              /\ \E j \in 1..(k - 1) : log[j] = <<"requested", i>>

\* The commands in the queue and the one in the actor's hands.
Held == ToSet(queue) \cup (IF actor.cmd = None THEN {} ELSE {actor.cmd})

\* Nobody awaits a receipt that will not come: the command of every caller that
\* awaits one is in the queue of a live actor, or in its hands.
ReceiptsOwed ==
    LET Owed(op, i, by) == \E c \in Held : c.op = op /\ c.id = i /\ c.by = by IN
    /\ \A p \in Permissions : req[p] = "asked" => Owed("request", p, "caller")
    /\ \A p \in Permissions : cancel[p] = "asked" => Owed("observe", p, "cancel")
    /\ \A a \in Askers : ask[a].at = "asked" => Owed("respond", ask[a].id, a)
=============================================================================
