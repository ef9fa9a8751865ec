----------------------- MODULE InteractionBrokerProofs -----------------------
(***************************************************************************)
(* Every promise of the interaction broker, for any number of permissions, *)
(* clarifications and responders, every queue capacity and any number of   *)
(* failing transactions.                                                   *)
(***************************************************************************)
EXTENDS InteractionBroker, SequenceTheorems, TLAPS

-----------------------------------------------------------------------------
(* The inductive invariant *)

\* The actor holds a command exactly while it handles one, and a waiter only
\* between its adoption and the end of the Respond that adopted it.
ActorHolds ==
    /\ actor.at \in {"idle", "stopped"} <=> actor.cmd = None
    /\ actor.at = "adopted" => actor.cmd.op = "respond"
    /\ actor.at = "answered" => actor.outcome \in {"won", "lost", "failed"}
    /\ \A i \in Ids : sender[i] = "actor" =>
          actor.at \in {"adopted", "answered"} /\ actor.cmd.op = "respond" /\ actor.cmd.id = i

\* A command is sent once, by a caller that cannot send it again.
SentOnce(c) ==
    /\ c.op = "request" => req[c.id] \notin {"idle", "sending"}
    /\ c.op = "respond" =>
          /\ c.by \in Askers /\ c.value \in Response
          /\ ask[c.by].at \notin {"idle", "sending"}
          /\ ask[c.by].id = c.id /\ ask[c.by].response = c.value
    /\ c.op = "observe" /\ c.by = "cancel" =>
          c.id \in Permissions /\ cancel[c.id] \notin {"idle", "removing", "sending"}

CallersOK ==
    /\ \A p \in Permissions : cancel[p] # "idle" => req[p] = "ended"
    /\ \A i \in Ids : req[i] = "replying" => i \in Delegated
    /\ \A a \in Askers : ask[a].at \notin {"idle", "ended"} =>
          ask[a].id \in Ids /\ ask[a].response \in Response
    /\ \A p \in Delegated : ask[p].at # "idle" =>
          /\ req[p] \in {"replying", "waiting", "ended"}
          /\ ask[p].at # "ended" => ask[p].id = p /\ ask[p].response \in {"allow", "deny"}

\* No request is behind another one, or the cancellation, of its interaction.
Before(c, d) ==
    d.op = "request" /\ c.id = d.id =>
        c.op # "request" /\ ~(c.op = "observe" /\ c.by = "cancel")

QueueOrdered ==
    /\ \A j, k \in 1..Len(queue) : j < k => Before(queue[j], queue[k])
    /\ actor.cmd # None => \A k \in 1..Len(queue) : Before(actor.cmd, queue[k])

\* An interaction has no row before its request is handled.
RowsFollowRequests ==
    /\ \A i \in Ids : req[i] \in {"idle", "sending"} => row[i] = "none"
    /\ \A c \in ToSet(queue) : c.op = "request" => row[c.id] = "none"
    /\ actor.cmd # None /\ actor.cmd.op = "request" =>
          /\ actor.at = "received" => row[actor.cmd.id] = "none"
          /\ actor.at = "answered" =>
                /\ actor.outcome = "won" => row[actor.cmd.id] # "none"
                /\ actor.outcome = "lost" => terminal
                /\ actor.outcome = "failed" => row[actor.cmd.id] = "none"

\* Until the finalizer runs, an awaited interaction loses its waiter only when
\* it is neither pending nor about to be.
WaiterKept ==
    /\ finished \/ actor.at = "stopped" => fin \in {"done", "aborted"}
    /\ fin = "running" =>
          /\ \A i \in Ids : Open(i) /\ sender[i] \notin {"map", "actor"} =>
                /\ row[i] # "pending"
                /\ \A c \in Held : c.op = "request" => c.id # i
          /\ \A i \in Ids : req[i] = "sending" => sender[i] \in {"map", "actor"}

\* What the store said to the actor is still so when it concludes.
OutcomeStands ==
    actor.at = "answered" /\ actor.cmd.op # "request" /\ actor.outcome # "failed" =>
        LET c == actor.cmd IN
        /\ row[c.id] # "pending"
        /\ actor.outcome = "won" =>
              /\ resolution[c.id] = c.value
              /\ row[c.id] = IF c.value \in {"cancel", "cancelled", "timed_out",
                                             "turn_finished"}
                             THEN "cancelled" ELSE "resolved"
              /\ \A a \in Askers : ask[a].at = "accepted" => ask[a].id # c.id

\* What a waiter was sent, and what a responder was told, is durable.
AnswersStand ==
    /\ \A i \in Ids : mail[i] \in {"allow", "answers"} =>
          row[i] = "resolved" /\ resolution[i] = mail[i]
    /\ \A a \in Askers : ask[a].at = "accepted" =>
          /\ resolution[ask[a].id] = ask[a].response
          /\ row[ask[a].id] = IF ask[a].response = "cancel" THEN "cancelled" ELSE "resolved"

\* The request of a cancelled permission is behind the actor.
CancelledSettled ==
    \A p \in Permissions : cancel[p] = "ok" =>
        row[p] # "pending" /\ \A c \in Held : c.op = "request" => c.id # p

\* The event of a committed row is in the log, or the actor is about to push it.
EventsFollowRows ==
    /\ \A i \in Ids : row[i] # "none" /\ actor.at # "stopped" =>
          \/ \E k \in 1..Len(log) : log[k] = <<"requested", i>>
          \/ actor.at = "answered" /\ actor.outcome = "won"
             /\ actor.cmd.op = "request" /\ actor.cmd.id = i
    /\ actor.at = "answered" /\ actor.outcome = "won" =>
          \A k \in 1..Len(log) : log[k][2] = actor.cmd.id =>
              actor.cmd.op # "request" /\ log[k][1] # "resolved"

BrokerInvariant ==
    /\ TypeOK
    /\ ActorHolds
    /\ \A c \in Held : SentOnce(c)
    /\ CallersOK
    /\ QueueOrdered
    /\ RowsFollowRequests
    /\ WaiterKept
    /\ OutcomeStands
    /\ AnswersStand
    /\ CancelledSettled
    /\ EventsFollowRows
    /\ AnswersDurable
    /\ AcceptedOnce
    /\ TerminalLeavesNonePending
    /\ EventsMatchRows
    /\ ReceiptsOwed

-----------------------------------------------------------------------------
(* The queue and the receipts *)

\* ToSet lists a sequence by its indices.
LEMMA ToSetRange ==
    ASSUME NEW S, NEW s \in Seq(S)
    PROVE  ToSet(s) = {s[k] : k \in 1..Len(s)}
BY LenProperties DEF ToSet

\* What is held is a command.
LEMMA HeldCommands == TypeOK => Held \subseteq Command
<1> SUFFICES ASSUME TypeOK PROVE Held \subseteq Command
  OBVIOUS
<1>1. queue \in Seq(Command)
  BY DEF TypeOK
<1>2. ToSet(queue) \subseteq Command
  BY <1>1, ToSetRange, ElementOfSeq, LenProperties
<1> QED
  BY <1>2 DEF Held, TypeOK

\* A command stays sent while its caller does not start over.
LEMMA SentStays ==
    ASSUME BrokerInvariant,
           \A i \in Ids : req[i] \notin {"idle", "sending"} =>
               req'[i] \notin {"idle", "sending"},
           \A a \in Askers : ask[a].at \notin {"idle", "sending"} =>
               /\ ask'[a].at \notin {"idle", "sending"}
               /\ ask'[a].id = ask[a].id /\ ask'[a].response = ask[a].response,
           \A p \in Permissions : cancel[p] \notin {"idle", "removing", "sending"} =>
               cancel'[p] \notin {"idle", "removing", "sending"}
    PROVE  \A c \in Held : SentOnce(c)'
<1> SUFFICES ASSUME NEW c \in Held PROVE SentOnce(c)'
  OBVIOUS
<1>1. c \in Command /\ SentOnce(c)
  BY HeldCommands DEF BrokerInvariant
<1>2. c.id \in Ids
  BY <1>1 DEF Command
<1> QED
  BY <1>1, <1>2 DEF SentOnce

\* A caller of respond moves on.
LEMMA AskMoves ==
    ASSUME TypeOK, NEW a \in Askers, NEW s \in AskState,
           ask' = [ask EXCEPT ![a].at = s]
    PROVE  /\ ask' \in [Askers -> AskRecord]
           /\ ask'[a].at = s
           /\ ask'[a].id = ask[a].id /\ ask'[a].response = ask[a].response
           /\ \A b \in Askers : b # a => ask'[b] = ask[b]
<1>1. ask \in [Askers -> AskRecord]
  BY DEF TypeOK
<1>2. [ask[a] EXCEPT !.at = s] \in AskRecord
  BY <1>1 DEF AskRecord
<1> QED
  BY <1>1, <1>2 DEF AskRecord

\* While the store stands still a waiter is lost only with its receiver.
LEMMA WaiterStays ==
    ASSUME BrokerInvariant, UNCHANGED <<row, actor, finished, fin>>, Held' = Held,
           \A i \in Ids : Open(i)' => Open(i) /\ sender'[i] = sender[i],
           \A i \in Ids : req'[i] = "sending" => req[i] = "sending"
    PROVE  WaiterKept'
BY DEF BrokerInvariant, WaiterKept, Open

\* What a command sent to a queue with room adds to it.
LEMMA SendEffect ==
    ASSUME BrokerInvariant, NEW c \in Command, Room,
           queue' = Append(queue, c), UNCHANGED actor
    PROVE  /\ queue' \in Seq(Command) /\ Len(queue') <= QueueCapacity
           /\ ToSet(queue') = ToSet(queue) \cup {c}
           /\ Held' = Held \cup {c}
           /\ (\A d \in Held : Before(d, c)) => QueueOrdered'
<1> USE DEF BrokerInvariant
<1>1. queue \in Seq(Command) /\ Len(queue) \in Nat /\ Len(queue) < QueueCapacity
  BY LenProperties DEF TypeOK, Room
<1>2. /\ queue' \in Seq(Command) /\ Len(queue') = Len(queue) + 1
      /\ \A k \in 1..Len(queue) : queue'[k] = queue[k]
      /\ queue'[Len(queue) + 1] = c
  BY <1>1, AppendProperties
<1>3. ToSet(queue') = ToSet(queue) \cup {c}
  BY <1>1, <1>2 DEF ToSet
<1>4. Held' = Held \cup {c}
  BY <1>3 DEF Held
<1>5. ASSUME \A d \in Held : Before(d, c) PROVE QueueOrdered'
  <2>1. \A k \in 1..Len(queue) : queue[k] \in Held
    BY <1>1 DEF Held, ToSet
  <2>2. actor.cmd # None => actor.cmd \in Held
    BY DEF Held
  <2>3. \A j, k \in 1..Len(queue') : j < k => Before(queue'[j], queue'[k])
    <3> SUFFICES ASSUME NEW j \in 1..Len(queue'), NEW k \in 1..Len(queue'), j < k
                 PROVE  Before(queue'[j], queue'[k])
      OBVIOUS
    <3>1. CASE k \in 1..Len(queue)
      BY <3>1, <1>1, <1>2 DEF QueueOrdered
    <3>2. CASE k = Len(queue) + 1
      BY <3>2, <1>1, <1>2, <2>1, <1>5
    <3> QED
      BY <3>1, <3>2, <1>1, <1>2
  <2>4. actor.cmd # None => \A k \in 1..Len(queue') : Before(actor.cmd, queue'[k])
    BY <1>1, <1>2, <2>2, <1>5 DEF QueueOrdered
  <2> QED
    BY <2>3, <2>4 DEF QueueOrdered, Before
<1> QED
  BY <1>1, <1>2, <1>3, <1>4, <1>5, InteractionAssumption

\* The head of the queue moves to the actor's hands: what is held is the same.
LEMMA ReceiveEffect ==
    ASSUME BrokerInvariant, ReceiveCommand
    PROVE  /\ actor'.cmd \in Command
           /\ queue' \in Seq(Command) /\ Len(queue') <= QueueCapacity
           /\ ToSet(queue) = ToSet(queue') \cup {actor'.cmd}
           /\ Held' = Held
           /\ QueueOrdered'
<1> USE NoneAssumption DEF BrokerInvariant
<1>1. queue \in Seq(Command) /\ queue # <<>> /\ Len(queue) \in Nat
  BY LenProperties DEF TypeOK, ReceiveCommand
<1>2. /\ Head(queue) \in Command /\ Head(queue) = queue[1]
      /\ Tail(queue) \in Seq(Command) /\ Len(Tail(queue)) = Len(queue) - 1
      /\ \A k \in 1..(Len(queue) - 1) : Tail(queue)[k] = queue[k + 1]
      /\ Len(queue) >= 1
  BY <1>1, HeadTailProperties, EmptySeq
<1>3. /\ queue' = Tail(queue) /\ actor'.cmd = Head(queue)
      /\ actor.at = "idle"
  BY DEF ReceiveCommand
<1>4. actor.cmd = None /\ actor'.cmd # None
  BY <1>2, <1>3 DEF ActorHolds, TypeOK
<1>5. ToSet(queue) = ToSet(queue') \cup {actor'.cmd}
  <2>1. \A k \in 1..Len(queue) : k = 1 \/ k - 1 \in 1..(Len(queue) - 1)
    BY <1>1
  <2>2. \A k \in 1..Len(queue) :
            queue[k] = actor'.cmd \/ \E j \in 1..Len(queue') : queue[k] = queue'[j]
    BY <1>1, <1>2, <1>3, <2>1
  <2>3. \A j \in 1..Len(queue') : \E k \in 1..Len(queue) : queue'[j] = queue[k]
    BY <1>1, <1>2, <1>3
  <2>4. /\ ToSet(queue) = {queue[k] : k \in 1..Len(queue)}
        /\ ToSet(queue') = {queue'[k] : k \in 1..Len(queue')}
    <3>1. queue' \in Seq(Command)
      BY <1>2, <1>3
    <3> HIDE DEF BrokerInvariant
    <3> QED
      BY ONLY <1>1, <3>1, ToSetRange
  <2>5. \E k \in 1..Len(queue) : actor'.cmd = queue[k]
    BY <1>1, <1>2, <1>3
  <2> QED
    BY <2>2, <2>3, <2>4, <2>5
<1>6. Held' = Held
  BY <1>4, <1>5 DEF Held
<1>7. QueueOrdered'
  <2>1. \A j, k \in 1..Len(queue') : j < k => Before(queue'[j], queue'[k])
    BY <1>1, <1>2, <1>3 DEF QueueOrdered
  <2>2. \A k \in 1..Len(queue') : Before(actor'.cmd, queue'[k])
    BY <1>1, <1>2, <1>3 DEF QueueOrdered
  <2> QED
    BY <2>1, <2>2 DEF QueueOrdered, Before
<1>8. Len(queue') <= QueueCapacity
  BY <1>1, <1>2, <1>3, InteractionAssumption DEF TypeOK
<1> QED
  BY <1>2, <1>3, <1>5, <1>6, <1>7, <1>8

-----------------------------------------------------------------------------
(* The calls that ask, answer and cancel *)

\* A step of a caller leaves the store, the actor and the log alone; it keeps
\* the durable half of the invariant unless it invents an answer.
LEMMA CallerStep ==
    ASSUME BrokerInvariant, UNCHANGED <<storeVars, actor, finished, fin, log>>,
           \A i \in Ids : mail'[i] \in {"allow", "answers"} => mail'[i] = mail[i],
           \A i \in Ids : result'[i] \in {"allow", "answers"} =>
               row[i] = "resolved" /\ resolution[i] = result'[i],
           \A a \in Askers : ask'[a].at = "accepted" => ask'[a] = ask[a]
    PROVE  /\ OutcomeStands' /\ AnswersStand' /\ AnswersDurable' /\ AcceptedOnce'
           /\ TerminalLeavesNonePending' /\ EventsFollowRows' /\ EventsMatchRows'
<1> USE DEF BrokerInvariant, storeVars
<1>1. OutcomeStands' /\ AnswersStand'
  BY DEF OutcomeStands, AnswersStand
<1>2. AnswersDurable' /\ TerminalLeavesNonePending'
  BY DEF AnswersDurable, TerminalLeavesNonePending
<1>5. AcceptedOnce'
  BY DEF AcceptedOnce
<1>3. EventsFollowRows'
  BY DEF EventsFollowRows
<1>4. EventsMatchRows'
  <2>1. row' = row /\ log' = log
    OBVIOUS
  <2> QED
    BY <2>1 DEF EventsMatchRows
<1> QED
  BY <1>1, <1>2, <1>3, <1>4, <1>5

\* What a caller's step keeps of the rest of the invariant when it sends nothing.
LEMMA QuietStep ==
    ASSUME BrokerInvariant, UNCHANGED <<actor, queue>>
    PROVE  Held' = Held /\ ToSet(queue)' = ToSet(queue) /\ QueueOrdered'
BY DEF BrokerInvariant, Held, QueueOrdered, Before

\* A waiter is registered before its request is sent.
LEMMA RequestPermissionEffect ==
    ASSUME BrokerInvariant, NEW p \in Permissions, RequestPermission(p)
    PROVE  BrokerInvariant'
<1> USE InteractionAssumption, NoneAssumption
    DEF BrokerInvariant, RequestPermission, Ids, storeVars
<1>1. Held' = Held /\ ToSet(queue)' = ToSet(queue) /\ QueueOrdered'
  BY QuietStep
<1>2. TypeOK' /\ CallersOK'
  BY DEF TypeOK, CallersOK, RequestState
<1>3. ActorHolds' /\ (\A c \in Held : SentOnce(c))'
  BY <1>1 DEF TypeOK, ActorHolds, SentOnce
<1>4. RowsFollowRequests'
  BY <1>1 DEF TypeOK, RowsFollowRequests
<1>5. WaiterKept'
  BY <1>1 DEF TypeOK, WaiterKept, Open, RowsFollowRequests, SentOnce
<1>6. CancelledSettled'
  BY <1>1 DEF CancelledSettled
<1>7. ReceiptsOwed'
  BY <1>1 DEF TypeOK, ReceiptsOwed
<1>8. OutcomeStands' /\ AnswersStand' /\ AnswersDurable' /\ AcceptedOnce'
      /\ TerminalLeavesNonePending' /\ EventsFollowRows' /\ EventsMatchRows'
  BY CallerStep DEF AnswersDurable
<1> QED
  BY <1>1, <1>2, <1>3, <1>4, <1>5, <1>6, <1>7, <1>8

\* A recorded request waits; one that failed is denied and forgotten.
LEMMA RequestReturnsEffect ==
    ASSUME BrokerInvariant, NEW p \in Permissions, RequestReturns(p)
    PROVE  BrokerInvariant'
<1> USE InteractionAssumption, NoneAssumption
    DEF BrokerInvariant, RequestReturns, End, RemoveWaiter, waitVars, Ids, storeVars
<1>1. Held' = Held /\ ToSet(queue)' = ToSet(queue) /\ QueueOrdered'
  BY QuietStep
<1>2. TypeOK'
  BY DEF TypeOK, RequestState
<1>3. ActorHolds' /\ CallersOK'
  <2>1. ActorHolds'
    BY DEF TypeOK, ActorHolds
  <2>2. /\ req[p] \in {"ok", "error"} /\ req'[p] \in {"racing", "waiting", "ended"}
        /\ \A i \in Ids : i # p => req'[i] = req[i]
        /\ UNCHANGED <<ask, cancel>>
    BY DEF TypeOK
  <2>3. CallersOK'
    BY <2>2 DEF CallersOK
  <2> QED
    BY <2>1, <2>3
<1>4. (\A c \in Held : SentOnce(c))'
  BY <1>1, SentStays DEF TypeOK
<1>5. RowsFollowRequests' /\ CancelledSettled'
  BY <1>1 DEF TypeOK, RowsFollowRequests, CancelledSettled
<1>6. WaiterKept'
  BY <1>1, WaiterStays DEF TypeOK, Open
<1>7. ReceiptsOwed'
  BY <1>1 DEF TypeOK, ReceiptsOwed
<1>8. OutcomeStands' /\ AnswersStand' /\ AnswersDurable' /\ AcceptedOnce'
      /\ TerminalLeavesNonePending' /\ EventsFollowRows' /\ EventsMatchRows'
  BY CallerStep DEF TypeOK, AnswersDurable
<1> QED
  BY <1>1, <1>2, <1>3, <1>4, <1>5, <1>6, <1>7, <1>8

\* What the receiver wakes with was sent to it, so it is durable.
LEMMA ReceiveDecisionEffect ==
    ASSUME BrokerInvariant, NEW p \in Permissions, ReceiveDecision(p)
    PROVE  BrokerInvariant'
<1> USE InteractionAssumption, NoneAssumption
    DEF BrokerInvariant, ReceiveDecision, End, RemoveWaiter, Ids, storeVars
<1>1. Held' = Held /\ ToSet(queue)' = ToSet(queue) /\ QueueOrdered'
  BY QuietStep
<1>2. TypeOK'
  BY DEF TypeOK, RequestState
<1>3. ActorHolds' /\ CallersOK'
  <2>1. ActorHolds'
    BY DEF TypeOK, ActorHolds
  <2>2. CallersOK'
    BY DEF TypeOK, CallersOK, Askers, Open
  <2> QED
    BY <2>1, <2>2
<1>4. (\A c \in Held : SentOnce(c))'
  BY <1>1, SentStays DEF TypeOK
<1>5. RowsFollowRequests' /\ CancelledSettled'
  BY <1>1 DEF TypeOK, RowsFollowRequests, CancelledSettled
<1>6. WaiterKept'
  BY <1>1, WaiterStays DEF TypeOK, Open
<1>7. ReceiptsOwed'
  BY <1>1 DEF TypeOK, ReceiptsOwed
<1>8. OutcomeStands' /\ AnswersStand' /\ AnswersDurable' /\ AcceptedOnce'
      /\ TerminalLeavesNonePending' /\ EventsFollowRows' /\ EventsMatchRows'
  BY CallerStep DEF TypeOK, AnswersDurable, AnswersStand
<1> QED
  BY <1>1, <1>2, <1>3, <1>4, <1>5, <1>6, <1>7, <1>8

\* The handler's decision becomes the one respond call of its permission.
LEMMA DelegateDecidesEffect ==
    ASSUME BrokerInvariant, NEW p \in Delegated, NEW d \in {"allow", "deny"}, DelegateDecides(p, d)
    PROVE  BrokerInvariant'
<1> USE InteractionAssumption, NoneAssumption
    DEF BrokerInvariant, DelegateDecides, waitVars, Ids, storeVars
<1>1. Held' = Held /\ ToSet(queue)' = ToSet(queue) /\ QueueOrdered'
  BY QuietStep
<1>0. /\ p \in Askers /\ p \in Permissions /\ ask[p].at = "idle"
      /\ ask' \in [Askers -> AskRecord]
      /\ ask'[p] = [at |-> "sending", id |-> p, response |-> d]
      /\ \A a \in Askers : a # p => ask'[a] = ask[a]
  BY DEF TypeOK, CallersOK, Askers, AskState, Response, AskRecord
<1>2. TypeOK'
  BY <1>0 DEF TypeOK, RequestState, AskState, Response
<1>3. ActorHolds' /\ CallersOK'
  <2>1. ActorHolds'
    BY DEF TypeOK, ActorHolds
  <2>2. Delegated \subseteq Askers /\ Delegated \subseteq Ids
    BY DEF Askers
  <2>3. CallersOK'
    BY <1>0, <2>2 DEF TypeOK, CallersOK, Open, Response
  <2> QED
    BY <2>1, <2>3
<1>4. (\A c \in Held : SentOnce(c))'
  BY <1>0, <1>1, SentStays DEF TypeOK
<1>5. RowsFollowRequests' /\ CancelledSettled'
  BY <1>1 DEF TypeOK, RowsFollowRequests, CancelledSettled
<1>6. WaiterKept'
  BY <1>1, WaiterStays DEF TypeOK, Open
<1>7. ReceiptsOwed'
  BY <1>1 DEF TypeOK, ReceiptsOwed
<1>8. OutcomeStands' /\ AnswersStand' /\ AnswersDurable' /\ AcceptedOnce'
      /\ TerminalLeavesNonePending' /\ EventsFollowRows' /\ EventsMatchRows'
  BY <1>0, CallerStep DEF TypeOK, AnswersDurable, Askers
<1> QED
  BY <1>1, <1>2, <1>3, <1>4, <1>5, <1>6, <1>7, <1>8

\* The handler's decision is returned only when it was accepted.
LEMMA DelegateReturnsEffect ==
    ASSUME BrokerInvariant, NEW p \in Delegated, DelegateReturns(p)
    PROVE  BrokerInvariant'
<1> USE InteractionAssumption, NoneAssumption
    DEF BrokerInvariant, DelegateReturns, End, RemoveWaiter, Ids, storeVars
<1>1. Held' = Held /\ ToSet(queue)' = ToSet(queue) /\ QueueOrdered'
  BY QuietStep
<1>0. /\ p \in Askers /\ p \in Permissions /\ ask[p].at \in Receipt
      /\ ask[p].id = p /\ ask[p].response \in {"allow", "deny"}
      /\ ask' \in [Askers -> AskRecord]
      /\ ask'[p].at = "ended"
      /\ ask'[p].id = ask[p].id /\ ask'[p].response = ask[p].response
      /\ \A a \in Askers : a # p => ask'[a] = ask[a]
  <2>1. p \in Askers /\ p \in Permissions /\ "ended" \in AskState
    BY DEF Askers, AskState
  <2>2. ask[p].at \in Receipt /\ ask[p].id = p /\ ask[p].response \in {"allow", "deny"}
    BY DEF CallersOK, Receipt
  <2> QED
    BY <2>1, <2>2, AskMoves
<1>2. TypeOK'
  <2>1. req' \in [Ids -> RequestState]
    BY DEF TypeOK, RequestState
  <2>2. sender' \in [Ids -> {"none", "map", "actor", "gone"}]
    BY DEF TypeOK
  <2>3. result' \in [Ids -> {"allow", "deny", "answers", "cancelled", "turn_finished",
                             "timed_out", None}]
    BY <1>0 DEF TypeOK
  <2> QED
    BY <1>0, <2>1, <2>2, <2>3 DEF TypeOK
<1>3. ActorHolds' /\ CallersOK'
  <2>1. ActorHolds'
    BY DEF TypeOK, ActorHolds
  <2>2. Delegated \subseteq Askers /\ Delegated \subseteq Ids
    BY DEF Askers
  <2>3. CallersOK'
    BY <1>0, <2>2 DEF TypeOK, CallersOK, Open, Response
  <2> QED
    BY <2>1, <2>3
<1>4. (\A c \in Held : SentOnce(c))'
  BY <1>0, <1>1, SentStays DEF TypeOK, Receipt
<1>5. RowsFollowRequests' /\ CancelledSettled'
  BY <1>1 DEF TypeOK, RowsFollowRequests, CancelledSettled
<1>6. WaiterKept'
  BY <1>1, WaiterStays DEF TypeOK, Open
<1>7. ReceiptsOwed'
  <2>1. /\ \A q \in Permissions : req'[q] = "asked" => req[q] = "asked"
        /\ \A a \in Askers : ask'[a].at = "asked" => ask[a].at = "asked" /\ ask'[a].id = ask[a].id
        /\ UNCHANGED cancel
    BY <1>0 DEF TypeOK
  <2> QED
    BY <1>1, <2>1 DEF ReceiptsOwed
<1>8. OutcomeStands' /\ AnswersStand' /\ AnswersDurable' /\ AcceptedOnce'
      /\ TerminalLeavesNonePending' /\ EventsFollowRows' /\ EventsMatchRows'
  BY <1>0, CallerStep DEF TypeOK, AnswersDurable, AnswersStand
<1> QED
  BY <1>1, <1>2, <1>3, <1>4, <1>5, <1>6, <1>7, <1>8

\* A request that is dropped leaves its commands in the queue.
LEMMA ExpirePermissionEffect ==
    ASSUME BrokerInvariant, NEW p \in Permissions, ExpirePermission(p)
    PROVE  BrokerInvariant'
<1> USE InteractionAssumption, NoneAssumption
    DEF BrokerInvariant, ExpirePermission, End, waitVars, Ids, storeVars
<1>1. Held' = Held /\ ToSet(queue)' = ToSet(queue) /\ QueueOrdered'
  BY QuietStep
<1>0. /\ ask' \in [Askers -> AskRecord]
      /\ \A a \in Askers : a # p => ask'[a] = ask[a]
      /\ p \in Askers =>
            /\ ask'[p].at = "ended"
            /\ ask'[p].id = ask[p].id /\ ask'[p].response = ask[p].response
  <2>1. (p \in Askers <=> p \in Delegated) /\ "ended" \in AskState
    BY DEF Askers, AskState
  <2>2. CASE p \in Delegated
    BY <2>1, <2>2, AskMoves
  <2>3. CASE p \notin Delegated
    BY <2>1, <2>3 DEF TypeOK, AskState
  <2> QED
    BY <2>2, <2>3
<1>2. TypeOK'
  BY <1>0 DEF TypeOK, RequestState, CancelState
<1>3. ActorHolds' /\ CallersOK'
  <2>1. ActorHolds'
    BY DEF TypeOK, ActorHolds
  <2>2. Delegated \subseteq Askers /\ Delegated \subseteq Ids
    BY DEF Askers
  <2>3. CallersOK'
    BY <1>0, <2>2 DEF TypeOK, CallersOK, Open, Response
  <2> QED
    BY <2>1, <2>3
<1>4. (\A c \in Held : SentOnce(c))'
  BY <1>0, <1>1, SentStays DEF TypeOK, CallersOK, Open
<1>5. RowsFollowRequests' /\ CancelledSettled'
  BY <1>1 DEF TypeOK, RowsFollowRequests, CancelledSettled
<1>6. WaiterKept'
  BY <1>1, WaiterStays DEF TypeOK, Open
<1>7. ReceiptsOwed'
  BY <1>1 DEF TypeOK, ReceiptsOwed
<1>8. OutcomeStands' /\ AnswersStand' /\ AnswersDurable' /\ AcceptedOnce'
      /\ TerminalLeavesNonePending' /\ EventsFollowRows' /\ EventsMatchRows'
  BY <1>0, CallerStep DEF TypeOK, AnswersDurable
<1> QED
  BY <1>1, <1>2, <1>3, <1>4, <1>5, <1>6, <1>7, <1>8

\* The waiter of a cancelled request has no receiver left.
LEMMA CancelRemovesEffect ==
    ASSUME BrokerInvariant, NEW p \in Permissions, CancelRemoves(p)
    PROVE  BrokerInvariant'
<1> USE InteractionAssumption, NoneAssumption
    DEF BrokerInvariant, CancelRemoves, RemoveWaiter, Ids, storeVars
<1>1. Held' = Held /\ ToSet(queue)' = ToSet(queue) /\ QueueOrdered'
  BY QuietStep
<1>2. TypeOK'
  BY DEF TypeOK, CancelState
<1>3. ActorHolds' /\ CallersOK'
  <2>1. ActorHolds'
    BY DEF TypeOK, ActorHolds
  <2>2. CallersOK'
    BY DEF TypeOK, CallersOK, Askers, Open
  <2> QED
    BY <2>1, <2>2
<1>4. (\A c \in Held : SentOnce(c))'
  BY <1>1, SentStays DEF TypeOK
<1>5. RowsFollowRequests' /\ CancelledSettled'
  BY <1>1 DEF TypeOK, RowsFollowRequests, CancelledSettled
<1>6. WaiterKept'
  BY <1>1, WaiterStays DEF TypeOK, Open, CallersOK
<1>7. ReceiptsOwed'
  BY <1>1 DEF TypeOK, ReceiptsOwed
<1>8. OutcomeStands' /\ AnswersStand' /\ AnswersDurable' /\ AcceptedOnce'
      /\ TerminalLeavesNonePending' /\ EventsFollowRows' /\ EventsMatchRows'
  BY CallerStep DEF TypeOK, AnswersDurable
<1> QED
  BY <1>1, <1>2, <1>3, <1>4, <1>5, <1>6, <1>7, <1>8

\* A responder calls respond once.
LEMMA RespondEffect ==
    ASSUME BrokerInvariant, NEW r \in Responders, NEW i \in Ids,
           NEW response \in Response, Respond(r, i, response)
    PROVE  BrokerInvariant'
<1> USE InteractionAssumption, NoneAssumption
    DEF BrokerInvariant, Respond, waitVars, Ids, storeVars
<1>1. Held' = Held /\ ToSet(queue)' = ToSet(queue) /\ QueueOrdered'
  BY QuietStep
<1>2. TypeOK'
  BY DEF TypeOK, Askers, AskState, Response, AskRecord
<1>3. ActorHolds' /\ CallersOK'
  <2>1. ActorHolds'
    BY DEF TypeOK, ActorHolds
  <2>2. CallersOK'
    BY DEF TypeOK, CallersOK, Askers, Open
  <2> QED
    BY <2>1, <2>2
<1>4. (\A c \in Held : SentOnce(c))'
  BY <1>1, SentStays DEF TypeOK
<1>5. RowsFollowRequests' /\ CancelledSettled'
  BY <1>1 DEF TypeOK, RowsFollowRequests, CancelledSettled
<1>6. WaiterKept'
  BY <1>1, WaiterStays DEF TypeOK, Open
<1>7. ReceiptsOwed'
  BY <1>1 DEF TypeOK, ReceiptsOwed
<1>8. OutcomeStands' /\ AnswersStand' /\ AnswersDurable' /\ AcceptedOnce'
      /\ TerminalLeavesNonePending' /\ EventsFollowRows' /\ EventsMatchRows'
  BY CallerStep DEF TypeOK, AnswersDurable, Askers
<1> QED
  BY <1>1, <1>2, <1>3, <1>4, <1>5, <1>6, <1>7, <1>8

\* The request is queued once, behind nothing of its interaction, or the
\* broker is closed.
LEMMA SendRequestEffect ==
    ASSUME BrokerInvariant, NEW p \in Permissions, SendRequest(p)
    PROVE  BrokerInvariant'
<1> DEFINE c == [op |-> "request", id |-> p, value |-> None, by |-> "caller"]
<1>0. /\ req[p] = "sending" /\ p \in Ids
      /\ UNCHANGED <<waitVars, result, ask, cancel, storeVars, actor, finished, fin, log>>
  BY DEF SendRequest, Ids
<1>1. CASE Closed /\ req' = [req EXCEPT ![p] = "error"] /\ UNCHANGED queue
  <2> USE <1>0, <1>1 DEF BrokerInvariant, waitVars, storeVars
  <2>1. Held' = Held /\ ToSet(queue)' = ToSet(queue) /\ QueueOrdered'
    BY QuietStep
  <2>2. TypeOK' /\ ActorHolds' /\ CallersOK'
    BY DEF TypeOK, ActorHolds, CallersOK, RequestState
  <2>3. (\A d \in Held : SentOnce(d))'
    BY <2>1, SentStays DEF TypeOK
  <2>4. RowsFollowRequests' /\ CancelledSettled'
    BY <2>1 DEF TypeOK, RowsFollowRequests, CancelledSettled
  <2>5. WaiterKept'
    BY <2>1, WaiterStays DEF TypeOK, Open
  <2>6. ReceiptsOwed'
    BY <2>1 DEF TypeOK, ReceiptsOwed
  <2>7. OutcomeStands' /\ AnswersStand' /\ AnswersDurable' /\ AcceptedOnce'
        /\ TerminalLeavesNonePending' /\ EventsFollowRows' /\ EventsMatchRows'
    BY CallerStep DEF AnswersDurable
  <2> QED
    BY <2>1, <2>2, <2>3, <2>4, <2>5, <2>6, <2>7
<1>2. CASE Room /\ queue' = Append(queue, c) /\ req' = [req EXCEPT ![p] = "asked"]
  <2> USE <1>0, <1>2 DEF BrokerInvariant, waitVars, storeVars
  <2>1. c \in Command /\ c.op = "request" /\ c.id = p /\ c.by = "caller"
    BY DEF Command
  <2>2. \A d \in Held : Before(d, c)
    BY <2>1 DEF Before, SentOnce, CallersOK
  <2> HIDE DEF c
  <2>3. /\ queue' \in Seq(Command) /\ Len(queue') <= QueueCapacity
        /\ ToSet(queue)' = ToSet(queue) \cup {c}
        /\ Held' = Held \cup {c} /\ QueueOrdered'
    BY <2>1, <2>2, SendEffect
  <2>4. TypeOK' /\ ActorHolds' /\ CallersOK'
    BY <2>3 DEF TypeOK, ActorHolds, CallersOK, RequestState
  <2>5. (\A d \in Held : SentOnce(d))'
    <3>1. \A d \in Held : SentOnce(d)'
      BY SentStays DEF TypeOK
    <3> QED
      BY <2>1, <2>3, <3>1 DEF SentOnce, TypeOK
  <2>6. RowsFollowRequests' /\ CancelledSettled'
    BY <2>1, <2>3 DEF TypeOK, RowsFollowRequests, CancelledSettled, CallersOK
  <2>7. WaiterKept'
    BY <2>1, <2>3 DEF TypeOK, WaiterKept, Open
  <2>8. ReceiptsOwed'
    BY <2>1, <2>3 DEF TypeOK, ReceiptsOwed
  <2>9. OutcomeStands' /\ AnswersStand' /\ AnswersDurable' /\ AcceptedOnce'
        /\ TerminalLeavesNonePending' /\ EventsFollowRows' /\ EventsMatchRows'
    BY CallerStep DEF AnswersDurable
  <2> QED
    BY <2>3, <2>4, <2>5, <2>6, <2>7, <2>8, <2>9
<1> QED
  BY <1>1, <1>2 DEF SendRequest, Send

\* The cancellation is queued behind the request, or the broker is closed.
LEMMA SendCancelEffect ==
    ASSUME BrokerInvariant, NEW p \in Permissions, SendCancel(p)
    PROVE  BrokerInvariant'
<1>0. /\ cancel[p] = "sending" /\ p \in Ids
      /\ UNCHANGED <<waitVars, req, result, ask, storeVars, actor, finished, fin, log>>
  BY DEF SendCancel, Ids
<1>1. OutcomeStands' /\ AnswersStand' /\ AnswersDurable' /\ AcceptedOnce'
      /\ TerminalLeavesNonePending' /\ EventsFollowRows' /\ EventsMatchRows'
  BY <1>0, CallerStep DEF AnswersDurable, BrokerInvariant, waitVars, storeVars
<1>2. CASE Closed /\ cancel' = [cancel EXCEPT ![p] = "error"] /\ UNCHANGED queue
  <2> USE <1>0, <1>2 DEF BrokerInvariant, waitVars, storeVars
  <2>1. Held' = Held /\ ToSet(queue)' = ToSet(queue) /\ QueueOrdered'
    BY QuietStep
  <2>2. TypeOK' /\ ActorHolds' /\ CallersOK'
    BY DEF TypeOK, ActorHolds, CallersOK, CancelState, Receipt
  <2>3. (\A d \in Held : SentOnce(d))'
    BY <2>1, SentStays DEF TypeOK
  <2>4. RowsFollowRequests' /\ CancelledSettled'
    BY <2>1 DEF TypeOK, RowsFollowRequests, CancelledSettled
  <2>5. WaiterKept'
    BY <2>1, WaiterStays DEF Open
  <2>6. ReceiptsOwed'
    BY <2>1 DEF TypeOK, ReceiptsOwed
  <2> QED
    BY <1>1, <2>1, <2>2, <2>3, <2>4, <2>5, <2>6
<1>3. ASSUME NEW reason \in {"timed_out", "aborted"}, Room,
             Send("observe", p, reason, "cancel"),
             cancel' = [cancel EXCEPT ![p] = "asked"]
      PROVE  BrokerInvariant'
  <2> USE <1>0, <1>3 DEF BrokerInvariant, waitVars, storeVars
  <2> DEFINE c == [op |-> "observe", id |-> p, value |-> reason, by |-> "cancel"]
  <2>1. c \in Command /\ c.op = "observe" /\ c.id = p /\ c.by = "cancel"
    BY DEF Command, Reason
  <2>2. \A d \in Held : Before(d, c)
    BY <2>1 DEF Before
  <2>3. queue' = Append(queue, c)
    BY DEF Send
  <2> HIDE DEF c
  <2>4. /\ queue' \in Seq(Command) /\ Len(queue') <= QueueCapacity
        /\ ToSet(queue)' = ToSet(queue) \cup {c}
        /\ Held' = Held \cup {c} /\ QueueOrdered'
    BY <2>1, <2>2, <2>3, SendEffect
  <2>5. TypeOK' /\ ActorHolds' /\ CallersOK'
    BY <2>4 DEF TypeOK, ActorHolds, CallersOK, CancelState
  <2>6. (\A d \in Held : SentOnce(d))'
    <3>1. \A d \in Held : SentOnce(d)'
      BY SentStays DEF TypeOK
    <3> QED
      BY <2>1, <2>4, <3>1 DEF SentOnce, TypeOK
  <2>7. RowsFollowRequests' /\ CancelledSettled'
    BY <2>1, <2>4 DEF TypeOK, RowsFollowRequests, CancelledSettled
  <2>8. WaiterKept'
    BY <2>1, <2>4 DEF WaiterKept, Open
  <2>9. ReceiptsOwed'
    BY <2>1, <2>4 DEF TypeOK, ReceiptsOwed
  <2> QED
    BY <1>1, <2>4, <2>5, <2>6, <2>7, <2>8, <2>9
<1> QED
  BY <1>2, <1>3 DEF SendCancel

\* A response is queued once, or the broker is closed.
LEMMA SendRespondEffect ==
    ASSUME BrokerInvariant, NEW a \in Askers, SendRespond(a)
    PROVE  BrokerInvariant'
<1> DEFINE c == [op |-> "respond", id |-> ask[a].id, value |-> ask[a].response, by |-> a]
<1>0. /\ ask[a].at = "sending" /\ ask[a].id \in Ids /\ ask[a].response \in Response
      /\ UNCHANGED <<req, result, cancel, waitVars, storeVars, actor, finished, fin, log>>
  BY DEF SendRespond, BrokerInvariant, CallersOK
<1>1. ASSUME NEW s \in {"asked", "error"}, ask' = [ask EXCEPT ![a].at = s]
      PROVE  /\ ask' \in [Askers -> AskRecord]
             /\ ask'[a].at = s
             /\ ask'[a].id = ask[a].id /\ ask'[a].response = ask[a].response
             /\ \A b \in Askers : b # a => ask'[b] = ask[b]
  <2>1. s \in AskState
    BY DEF AskState, Receipt
  <2> QED
    BY <2>1, <1>1, AskMoves DEF BrokerInvariant
<1>2. CASE Closed /\ ask' = [ask EXCEPT ![a].at = "error"] /\ UNCHANGED queue
  <2> USE <1>0, <1>2 DEF BrokerInvariant, waitVars, storeVars
  <2>0. /\ ask' \in [Askers -> AskRecord]
        /\ ask'[a].at = "error"
        /\ ask'[a].id = ask[a].id /\ ask'[a].response = ask[a].response
        /\ \A b \in Askers : b # a => ask'[b] = ask[b]
    BY <1>1
  <2>1. Held' = Held /\ ToSet(queue)' = ToSet(queue) /\ QueueOrdered'
    BY QuietStep
  <2>2. TypeOK' /\ ActorHolds'
    BY <2>0 DEF TypeOK, ActorHolds
  <2>3. CallersOK'
    BY <2>0 DEF CallersOK, Askers
  <2>4. (\A d \in Held : SentOnce(d))'
    BY <2>0, <2>1, SentStays
  <2>5. RowsFollowRequests' /\ CancelledSettled'
    BY <2>1 DEF RowsFollowRequests, CancelledSettled
  <2>6. WaiterKept'
    BY <2>1, WaiterStays DEF Open
  <2>7. ReceiptsOwed'
    BY <2>0, <2>1 DEF ReceiptsOwed
  <2>8. OutcomeStands' /\ AnswersStand' /\ AnswersDurable' /\ AcceptedOnce'
        /\ TerminalLeavesNonePending' /\ EventsFollowRows' /\ EventsMatchRows'
    BY <2>0, CallerStep DEF AnswersDurable
  <2> QED
    BY <2>1, <2>2, <2>3, <2>4, <2>5, <2>6, <2>7, <2>8
<1>3. CASE Room /\ queue' = Append(queue, c) /\ ask' = [ask EXCEPT ![a].at = "asked"]
  <2> USE <1>0, <1>3 DEF BrokerInvariant, waitVars, storeVars
  <2>0. /\ ask' \in [Askers -> AskRecord]
        /\ ask'[a].at = "asked"
        /\ ask'[a].id = ask[a].id /\ ask'[a].response = ask[a].response
        /\ \A b \in Askers : b # a => ask'[b] = ask[b]
    BY <1>1
  <2>1. /\ c \in Command /\ c.op = "respond" /\ c.id = ask[a].id
        /\ c.value = ask[a].response /\ c.by = a
    BY DEF Command
  <2>2. \A d \in Held : Before(d, c)
    BY <2>1 DEF Before
  <2> HIDE DEF c
  <2>3. /\ queue' \in Seq(Command) /\ Len(queue') <= QueueCapacity
        /\ ToSet(queue)' = ToSet(queue) \cup {c}
        /\ Held' = Held \cup {c} /\ QueueOrdered'
    BY <2>1, <2>2, SendEffect
  <2>4. TypeOK' /\ ActorHolds'
    BY <2>0, <2>3 DEF TypeOK, ActorHolds
  <2>5. CallersOK'
    BY <2>0 DEF CallersOK, Askers
  <2>6. (\A d \in Held : SentOnce(d))'
    <3>1. \A d \in Held : SentOnce(d)'
      BY <2>0, SentStays
    <3> QED
      BY <2>0, <2>1, <2>3, <3>1 DEF SentOnce
  <2>7. RowsFollowRequests' /\ CancelledSettled'
    BY <2>1, <2>3 DEF RowsFollowRequests, CancelledSettled
  <2>8. WaiterKept'
    BY <2>1, <2>3 DEF WaiterKept, Open
  <2>9. ReceiptsOwed'
    BY <2>0, <2>1, <2>3 DEF ReceiptsOwed
  <2>10. OutcomeStands' /\ AnswersStand' /\ AnswersDurable' /\ AcceptedOnce'
         /\ TerminalLeavesNonePending' /\ EventsFollowRows' /\ EventsMatchRows'
    BY <2>0, CallerStep DEF AnswersDurable
  <2> QED
    BY <2>3, <2>4, <2>5, <2>6, <2>7, <2>8, <2>9, <2>10
<1> QED
  BY <1>2, <1>3 DEF SendRespond, Send

\* A clarification that asks: its request goes first, or its waiter is cancelled.
LEMMA RequestClarifyEffect ==
    ASSUME BrokerInvariant, NEW c \in Clarifies, RequestClarify(c)
    PROVE  BrokerInvariant'
<1> USE InteractionAssumption DEF BrokerInvariant, waitVars, storeVars
<1> DEFINE d == [op |-> "request", id |-> c, value |-> None, by |-> None]
<1>0. /\ c \in Ids /\ c \notin Permissions /\ c \notin Askers
      /\ req[c] = "idle" /\ row[c] = "none" /\ req' = [req EXCEPT ![c] = "waiting"]
      /\ UNCHANGED <<result, ask, cancel, storeVars, actor, finished, fin, log>>
  BY DEF RequestClarify, Ids, Askers, RowsFollowRequests
<1>1. /\ sender' \in [Ids -> {"none", "map", "actor", "gone"}]
      /\ mail' \in [Ids -> {"allow", "deny", "answers", "cancelled", None}]
      /\ \A i \in Ids : mail'[i] = mail[i] \/ mail'[i] = "cancelled"
      /\ sender'[c] = IF Room THEN "map" ELSE "gone"
      /\ \A i \in Ids : i # c => sender'[i] = sender[i]
  BY <1>0 DEF RequestClarify, TypeOK
<1>2. OutcomeStands' /\ AnswersStand' /\ AnswersDurable' /\ AcceptedOnce'
      /\ TerminalLeavesNonePending' /\ EventsFollowRows' /\ EventsMatchRows'
  BY <1>0, <1>1, CallerStep DEF AnswersDurable
<1>3. ActorHolds' /\ CallersOK'
  <2>1. ActorHolds'
    BY <1>0, <1>1 DEF ActorHolds
  <2>2. CallersOK'
    BY <1>0 DEF CallersOK, TypeOK, Askers
  <2> QED
    BY <2>1, <2>2
<1>4. \A e \in Held : SentOnce(e)'
  BY <1>0, SentStays DEF TypeOK
<1>5. CASE ~Room
  <2>1. UNCHANGED queue
    BY <1>5 DEF RequestClarify, Observe
  <2>2. Held' = Held /\ ToSet(queue)' = ToSet(queue) /\ QueueOrdered'
    BY <1>0, <2>1, QuietStep
  <2>3. TypeOK'
    BY <1>0, <1>1, <2>1 DEF TypeOK, RequestState
  <2>4. RowsFollowRequests' /\ CancelledSettled'
    BY <1>0, <2>2 DEF TypeOK, RowsFollowRequests, CancelledSettled
  <2>5. WaiterKept'
    BY <1>0, <1>1, <1>5, <2>2 DEF TypeOK, WaiterKept, Open, SentOnce
  <2>6. ReceiptsOwed'
    BY <1>0, <2>2 DEF TypeOK, ReceiptsOwed, Ids
  <2> QED
    BY <1>2, <1>3, <1>4, <2>2, <2>3, <2>4, <2>5, <2>6
<1>6. CASE Room
  <2>1. d \in Command /\ d.op = "request" /\ d.id = c /\ d.by = None
    BY <1>0 DEF Command
  <2>2. \A e \in Held : Before(e, d)
    BY <2>1, <1>0 DEF Before, SentOnce
  <2>3. queue' = Append(queue, d)
    BY <1>6 DEF RequestClarify, Observe, Send
  <2> HIDE DEF d
  <2>4. /\ queue' \in Seq(Command) /\ Len(queue') <= QueueCapacity
        /\ ToSet(queue)' = ToSet(queue) \cup {d}
        /\ Held' = Held \cup {d} /\ QueueOrdered'
    BY <1>0, <1>6, <2>1, <2>2, <2>3, SendEffect
  <2>5. TypeOK'
    BY <1>0, <1>1, <2>4 DEF TypeOK, RequestState
  <2>6. (\A e \in Held : SentOnce(e))'
    BY <1>0, <1>4, <2>1, <2>4 DEF SentOnce, TypeOK
  <2>7. RowsFollowRequests' /\ CancelledSettled'
    BY <1>0, <2>1, <2>4 DEF TypeOK, RowsFollowRequests, CancelledSettled
  <2>8. WaiterKept'
    BY <1>0, <1>1, <1>6, <2>1, <2>4 DEF TypeOK, WaiterKept, Open
  <2>9. ReceiptsOwed'
    BY <1>0, <2>1, <2>4 DEF TypeOK, ReceiptsOwed, Ids
  <2> QED
    BY <1>2, <1>3, <2>4, <2>5, <2>6, <2>7, <2>8, <2>9
<1> QED
  BY <1>5, <1>6

\* A clarification that ends reports it if there is room, and loses its waiter.
LEMMA ClarifyEnds ==
    ASSUME BrokerInvariant, NEW c \in Clarifies,
           NEW r \in {"allow", "deny", "answers", "cancelled", "turn_finished", "timed_out"},
           NEW v \in Response \cup Reason, End(c, r), Observe(c, "observe", v),
           r \in {"allow", "answers"} => row[c] = "resolved" /\ resolution[c] = r,
           sender' \in {sender, RemoveWaiter(c)}, req[c] = "waiting",
           UNCHANGED <<mail, ask, cancel, storeVars, actor, finished, fin, log>>
    PROVE  BrokerInvariant'
<1> USE InteractionAssumption, NoneAssumption DEF BrokerInvariant, storeVars
<1> DEFINE d == [op |-> "observe", id |-> c, value |-> v, by |-> None]
<1>0. /\ c \in Ids /\ c \notin Permissions /\ c \notin Askers
      /\ req' = [req EXCEPT ![c] = "ended"]
  BY DEF End, Ids, Askers
<1>1. /\ sender' \in [Ids -> {"none", "map", "actor", "gone"}]
      /\ result' \in [Ids -> {"allow", "deny", "answers", "cancelled", "turn_finished",
                              "timed_out", None}]
      /\ \A i \in Ids : i # c => result'[i] = result[i] /\ sender'[i] = sender[i]
      /\ result'[c] = r
      /\ sender'[c] = "actor" => sender[c] = "actor"
  <2>1. sender' = sender \/ sender' = [sender EXCEPT ![c] = "gone"]
    BY DEF RemoveWaiter
  <2>2. result' = [result EXCEPT ![c] = r]
    BY DEF End
  <2> QED
    BY <1>0, <2>1, <2>2 DEF TypeOK
<1>2. OutcomeStands' /\ AnswersStand' /\ AnswersDurable' /\ AcceptedOnce'
      /\ TerminalLeavesNonePending' /\ EventsFollowRows' /\ EventsMatchRows'
  <2>1. \A i \in Ids : result'[i] \in {"allow", "answers"} =>
            row[i] = "resolved" /\ resolution[i] = result'[i]
    BY <1>1 DEF AnswersDurable
  <2> QED
    BY <2>1, CallerStep
<1>3. ActorHolds' /\ CallersOK'
  <2>1. ActorHolds'
    BY <1>0, <1>1 DEF ActorHolds
  <2>2. CallersOK'
    BY <1>0 DEF CallersOK, TypeOK, Askers
  <2> QED
    BY <2>1, <2>2
<1>4. \A e \in Held : SentOnce(e)'
  BY <1>0, SentStays DEF TypeOK
<1>5. CASE ~Room
  <2>1. UNCHANGED queue
    BY <1>5 DEF Observe
  <2>2. Held' = Held /\ ToSet(queue)' = ToSet(queue) /\ QueueOrdered'
    BY <1>0, <2>1, QuietStep
  <2>3. TypeOK'
    BY <1>0, <1>1, <2>1 DEF TypeOK, RequestState
  <2>4. RowsFollowRequests' /\ CancelledSettled'
    BY <1>0, <2>2 DEF TypeOK, RowsFollowRequests, CancelledSettled
  <2>5. WaiterKept'
    BY <1>0, <1>1, <2>2, WaiterStays DEF TypeOK, Open
  <2>6. ReceiptsOwed'
    BY <1>0, <2>2 DEF TypeOK, ReceiptsOwed, Ids
  <2> QED
    BY <1>2, <1>3, <1>4, <2>2, <2>3, <2>4, <2>5, <2>6
<1>6. CASE Room
  <2>1. d \in Command /\ d.op = "observe" /\ d.id = c /\ d.by = None
    BY <1>0 DEF Command
  <2>2. \A e \in Held : Before(e, d)
    BY <2>1 DEF Before
  <2>3. queue' = Append(queue, d)
    BY <1>6 DEF Observe, Send
  <2> HIDE DEF d
  <2>4. /\ queue' \in Seq(Command) /\ Len(queue') <= QueueCapacity
        /\ ToSet(queue)' = ToSet(queue) \cup {d}
        /\ Held' = Held \cup {d} /\ QueueOrdered'
    BY <1>6, <2>1, <2>2, <2>3, SendEffect
  <2>5. TypeOK'
    BY <1>0, <1>1, <2>4 DEF TypeOK, RequestState
  <2>6. (\A e \in Held : SentOnce(e))'
    BY <1>4, <2>1, <2>4 DEF SentOnce
  <2>7. RowsFollowRequests' /\ CancelledSettled'
    BY <1>0, <2>1, <2>4 DEF TypeOK, RowsFollowRequests, CancelledSettled
  <2>8. WaiterKept'
    BY <1>0, <1>1, <2>1, <2>4 DEF TypeOK, WaiterKept, Open
  <2>9. ReceiptsOwed'
    BY <1>0, <2>1, <2>4 DEF TypeOK, ReceiptsOwed, Ids
  <2> QED
    BY <1>2, <1>3, <2>4, <2>5, <2>6, <2>7, <2>8, <2>9
<1> QED
  BY <1>5, <1>6

\* A clarification returns what it was sent and reports it.
LEMMA ReceiveClarifyEffect ==
    ASSUME BrokerInvariant, NEW c \in Clarifies, ReceiveClarify(c)
    PROVE  BrokerInvariant'
<1> DEFINE r == IF mail[c] # None THEN mail[c] ELSE "turn_finished"
           v == IF r = "answers" THEN "answered" ELSE r
<1>1. /\ End(c, r) /\ Observe(c, "observe", v) /\ req[c] = "waiting"
      /\ UNCHANGED <<sender, mail, ask, cancel, storeVars, actor, finished, fin, log>>
  BY DEF ReceiveClarify, waitVars
<1>2. c \in Ids /\ mail[c] \in {"allow", "deny", "answers", "cancelled", None}
  BY DEF BrokerInvariant, TypeOK, Ids
<1>3. /\ r \in {"allow", "deny", "answers", "cancelled", "turn_finished", "timed_out"}
      /\ v \in Response \cup Reason
      /\ r \in {"allow", "answers"} => mail[c] = r
  BY <1>2 DEF Response, Reason
<1>4. r \in {"allow", "answers"} => row[c] = "resolved" /\ resolution[c] = r
  BY <1>2, <1>3 DEF BrokerInvariant, AnswersStand
<1> HIDE DEF r, v
<1> QED
  BY <1>1, <1>3, <1>4, ClarifyEnds

\* A clarification that timed out or was aborted reports it.
LEMMA ExpireClarifyEffect ==
    ASSUME BrokerInvariant, NEW c \in Clarifies, ExpireClarify(c)
    PROVE  BrokerInvariant'
BY ClarifyEnds DEF ExpireClarify, Reason

-----------------------------------------------------------------------------
(* The actor *)

\* A receipt moves those that await it, and no one else.
LEMMA ReceiptsEffect ==
    ASSUME BrokerInvariant, NEW cmds, NEW r \in Receipt, Receipts(cmds, r),
           \A c \in cmds : c.op = "request" => r \in {"ok", "error"}
    PROVE  /\ req' \in [Ids -> RequestState]
           /\ ask' \in [Askers -> AskRecord]
           /\ cancel' \in [Permissions -> CancelState]
           /\ \A i \in Ids :
                 \/ req'[i] = req[i]
                 \/ req[i] = "asked" /\ req'[i] = r /\ r \in {"ok", "error"}
           /\ \A i \in Ids : req'[i] = "asked" =>
                 /\ req[i] = "asked"
                 /\ \A c \in cmds : ~(c.op = "request" /\ c.id = i /\ c.by = "caller")
           /\ \A a \in Askers :
                 /\ ask'[a].id = ask[a].id /\ ask'[a].response = ask[a].response
                 /\ \/ ask'[a] = ask[a]
                    \/ /\ ask[a].at = "asked" /\ ask'[a].at = r
                       /\ \E c \in cmds : c.op = "respond" /\ c.id = ask[a].id /\ c.by = a
           /\ \A a \in Askers : ask'[a].at = "asked" =>
                 /\ ask[a].at = "asked"
                 /\ \A c \in cmds : ~(c.op = "respond" /\ c.id = ask[a].id /\ c.by = a)
           /\ \A p \in Permissions :
                 \/ cancel'[p] = cancel[p]
                 \/ /\ cancel[p] = "asked" /\ cancel'[p] = r
                    /\ \E c \in cmds : c.op = "observe" /\ c.id = p /\ c.by = "cancel"
           /\ \A p \in Permissions : cancel'[p] = "asked" =>
                 /\ cancel[p] = "asked"
                 /\ \A c \in cmds : ~(c.op = "observe" /\ c.id = p /\ c.by = "cancel")
<1> DEFINE Waits(op, i, by) == \E c \in cmds : c.op = op /\ c.id = i /\ c.by = by
<1>1. /\ req \in [Ids -> RequestState] /\ ask \in [Askers -> AskRecord]
      /\ cancel \in [Permissions -> CancelState]
  BY DEF BrokerInvariant, TypeOK
<1>2. r \in AskState /\ r \in CancelState /\ r # "asked" /\ (r \in {"ok", "error"} => r \in RequestState)
  BY DEF AskState, CancelState, Receipt, RequestState
<1>3. /\ req' = [i \in Ids |-> IF req[i] = "asked" /\ Waits("request", i, "caller")
                               THEN r ELSE req[i]]
      /\ ask' = [a \in Askers |-> IF ask[a].at = "asked" /\ Waits("respond", ask[a].id, a)
                                  THEN [ask[a] EXCEPT !.at = r] ELSE ask[a]]
      /\ cancel' = [p \in Permissions |->
                      IF cancel[p] = "asked" /\ Waits("observe", p, "cancel")
                      THEN r ELSE cancel[p]]
  BY DEF Receipts
<1>4. \A i : Waits("request", i, "caller") => r \in {"ok", "error"}
  OBVIOUS
<1>5. \A op, i, by : Waits(op, i, by) <=> \E c \in cmds : c.op = op /\ c.id = i /\ c.by = by
  OBVIOUS
<1>6. \A a \in Askers : /\ [ask[a] EXCEPT !.at = r] \in AskRecord
                        /\ [ask[a] EXCEPT !.at = r].at = r
                        /\ [ask[a] EXCEPT !.at = r].id = ask[a].id
                        /\ [ask[a] EXCEPT !.at = r].response = ask[a].response
  BY <1>1, <1>2 DEF AskRecord
<1> HIDE DEF Waits
<1>7. /\ req' \in [Ids -> RequestState]
      /\ \A i \in Ids :
            \/ req'[i] = req[i]
            \/ req[i] = "asked" /\ req'[i] = r /\ r \in {"ok", "error"}
      /\ \A i \in Ids : req'[i] = "asked" => req[i] = "asked" /\ ~Waits("request", i, "caller")
  BY <1>1, <1>2, <1>3, <1>4
<1>8. /\ ask' \in [Askers -> AskRecord]
      /\ \A a \in Askers :
            /\ ask'[a].id = ask[a].id /\ ask'[a].response = ask[a].response
            /\ \/ ask'[a] = ask[a]
               \/ ask[a].at = "asked" /\ ask'[a].at = r /\ Waits("respond", ask[a].id, a)
      /\ \A a \in Askers : ask'[a].at = "asked" =>
            ask[a].at = "asked" /\ ~Waits("respond", ask[a].id, a)
  BY <1>1, <1>2, <1>3, <1>6
<1>9. /\ cancel' \in [Permissions -> CancelState]
      /\ \A p \in Permissions :
            \/ cancel'[p] = cancel[p]
            \/ cancel[p] = "asked" /\ cancel'[p] = r /\ Waits("observe", p, "cancel")
      /\ \A p \in Permissions : cancel'[p] = "asked" =>
            cancel[p] = "asked" /\ ~Waits("observe", p, "cancel")
  BY <1>1, <1>2, <1>3
<1> QED
  BY <1>5, <1>7, <1>8, <1>9

\* Receipts disturb no caller.
LEMMA ReceiptsKeepCallers ==
    ASSUME BrokerInvariant, NEW cmds, NEW r \in Receipt, Receipts(cmds, r),
           \A c \in cmds : c.op = "request" => r \in {"ok", "error"}
    PROVE  /\ CallersOK' /\ \A c \in Held : SentOnce(c)'
           /\ \A i \in Ids : (Open(i)' <=> Open(i)) /\ (req'[i] = "sending" <=> req[i] = "sending")
                             /\ (req'[i] = "idle" <=> req[i] = "idle")
<1>1. r \notin {"idle", "sending", "ended", "removing"}
  BY DEF Receipt
<1>2. CallersOK'
  BY <1>1, ReceiptsEffect, InteractionAssumption DEF CallersOK, BrokerInvariant, Ids, Askers
<1>3. \A c \in Held : SentOnce(c)'
  BY <1>1, ReceiptsEffect, SentStays
<1>4. \A i \in Ids : (Open(i)' <=> Open(i)) /\ (req'[i] = "sending" <=> req[i] = "sending")
                     /\ (req'[i] = "idle" <=> req[i] = "idle")
  BY <1>1, ReceiptsEffect DEF Open
<1> QED
  BY <1>2, <1>3, <1>4

\* The actor is done with its command and has given the receipt.
LEMMA ActorConcludes ==
    ASSUME BrokerInvariant, actor.at \in {"received", "answered"}, NEW r \in Receipt,
           Receipts({actor.cmd}, r), actor.cmd.op = "request" => r \in {"ok", "error"},
           actor' = Idle, UNCHANGED queue
    PROVE  /\ actor.cmd \in Command /\ actor.cmd \in Held /\ actor.cmd # None
           /\ Held = ToSet(queue) \cup {actor.cmd} /\ Held' = ToSet(queue)
           /\ ToSet(queue)' = ToSet(queue)
           /\ QueueOrdered' /\ CallersOK' /\ (\A c \in Held : SentOnce(c))' /\ ReceiptsOwed'
           /\ \A c \in ToSet(queue) : Before(actor.cmd, c)
<1> USE DEF BrokerInvariant
<1>1. actor.cmd # None /\ actor.cmd \in Command
  BY DEF ActorHolds, TypeOK
<1>2. Held = ToSet(queue) \cup {actor.cmd} /\ Held' = ToSet(queue) /\ ToSet(queue)' = ToSet(queue)
  BY <1>1 DEF Held, Idle
<1>3. QueueOrdered'
  BY DEF QueueOrdered, Before, Idle
<1>4. CallersOK' /\ (\A c \in Held : SentOnce(c))'
  BY <1>2, ReceiptsKeepCallers
<1>5. ReceiptsOwed'
  <2>1. \A p \in Permissions : p \in Ids
    BY DEF Ids
  <2>2. /\ \A i \in Ids : req'[i] = "asked" =>
              /\ req[i] = "asked"
              /\ ~(actor.cmd.op = "request" /\ actor.cmd.id = i /\ actor.cmd.by = "caller")
        /\ \A a \in Askers : ask'[a].at = "asked" =>
              /\ ask[a].at = "asked" /\ ask'[a].id = ask[a].id
              /\ ~(actor.cmd.op = "respond" /\ actor.cmd.id = ask[a].id /\ actor.cmd.by = a)
        /\ \A p \in Permissions : cancel'[p] = "asked" =>
              /\ cancel[p] = "asked"
              /\ ~(actor.cmd.op = "observe" /\ actor.cmd.id = p /\ actor.cmd.by = "cancel")
    BY ReceiptsEffect
  <2> QED
    BY <1>2, <2>1, <2>2 DEF ReceiptsOwed
<1>6. \A c \in ToSet(queue) : Before(actor.cmd, c)
  <2>1. queue \in Seq(Command)
    BY DEF TypeOK
  <2>2. ToSet(queue) = {queue[k] : k \in 1..Len(queue)}
    BY <2>1, ToSetRange
  <2> QED
    BY <1>1, <2>2 DEF QueueOrdered
<1> QED
  BY <1>1, <1>2, <1>3, <1>4, <1>5, <1>6

\* An event that is new and true of the rows may be pushed.
LEMMA EventPushed ==
    ASSUME BrokerInvariant, NEW kind \in {"requested", "resolved"}, NEW i \in Ids,
           log' = Append(log, <<kind, i>>), UNCHANGED row,
           \A k \in 1..Len(log) : log[k] # <<kind, i>>,
           row[i] # "none",
           kind = "resolved" => /\ row[i] \in {"resolved", "cancelled"}
                                /\ \E k \in 1..Len(log) : log[k] = <<"requested", i>>
    PROVE  /\ log' \in Seq({"requested", "resolved"} \X Ids)
           /\ Len(log') = Len(log) + 1 /\ Len(log) \in Nat
           /\ \A k \in 1..Len(log) : log'[k] = log[k]
           /\ log'[Len(log) + 1] = <<kind, i>>
           /\ EventsMatchRows'
<1>1. log \in Seq({"requested", "resolved"} \X Ids) /\ Len(log) \in Nat
  BY LenProperties DEF BrokerInvariant, TypeOK
<1>2. <<kind, i>> \in {"requested", "resolved"} \X Ids
  OBVIOUS
<1>3. /\ log' \in Seq({"requested", "resolved"} \X Ids)
      /\ Len(log') = Len(log) + 1
      /\ \A k \in 1..Len(log) : log'[k] = log[k]
      /\ log'[Len(log) + 1] = <<kind, i>>
  BY <1>1, <1>2, AppendProperties
<1>4. \A k \in 1..Len(log') : k \in 1..Len(log) \/ k = Len(log) + 1
  BY <1>1, <1>3
<1>5. ASSUME NEW k \in 1..Len(log')
      PROVE  /\ \A j \in 1..Len(log') : log'[j] = log'[k] => j = k
             /\ row[log'[k][2]] # "none"
             /\ log'[k][1] = "resolved" =>
                   /\ row[log'[k][2]] \in {"resolved", "cancelled"}
                   /\ \E j \in 1..(k - 1) : log'[j] = <<"requested", log'[k][2]>>
  <2>1. CASE k \in 1..Len(log)
    <3>1. /\ \A j \in 1..Len(log) : log[j] = log[k] => j = k
          /\ row[log[k][2]] # "none"
          /\ log[k][1] = "resolved" =>
                /\ row[log[k][2]] \in {"resolved", "cancelled"}
                /\ \E j \in 1..(k - 1) : log[j] = <<"requested", log[k][2]>>
      BY <2>1 DEF BrokerInvariant, EventsMatchRows
    <3>2. log'[k] = log[k] /\ log[k] # <<kind, i>>
      BY <2>1, <1>3
    <3>3. \A j \in 1..(k - 1) : j \in 1..Len(log) /\ log'[j] = log[j]
      BY <2>1, <1>1, <1>3
    <3>4. \A j \in 1..Len(log') : log'[j] = log'[k] => j = k
      BY <1>3, <1>4, <3>1, <3>2
    <3>5. log'[k][1] = "resolved" => \E j \in 1..(k - 1) : log'[j] = <<"requested", log'[k][2]>>
      BY <3>1, <3>2, <3>3
    <3> QED
      BY <3>1, <3>2, <3>4, <3>5
  <2>2. CASE k = Len(log) + 1
    <3>1. log'[k] = <<kind, i>> /\ log'[k][1] = kind /\ log'[k][2] = i
      BY <2>2, <1>3
    <3>2. \A j \in 1..Len(log') : log'[j] = log'[k] => j = k
      BY <2>2, <1>3, <1>4, <3>1
    <3>3. 1..(k - 1) = 1..Len(log)
      BY <2>2, <1>1
    <3>4. kind = "resolved" => \E j \in 1..(k - 1) : log'[j] = <<"requested", i>>
      BY <3>3, <1>3
    <3>5. log'[k][1] = "resolved" =>
             /\ row[log'[k][2]] \in {"resolved", "cancelled"}
             /\ \E j \in 1..(k - 1) : log'[j] = <<"requested", log'[k][2]>>
      BY <3>1, <3>4
    <3> QED
      BY <3>1, <3>2, <3>5
  <2> QED
    BY <1>4, <2>1, <2>2
<1>6. EventsMatchRows'
  BY <1>5 DEF EventsMatchRows
<1> QED
  BY <1>1, <1>3, <1>6

\* Events stay true while no row is taken back.
LEMMA EventsStand ==
    ASSUME BrokerInvariant, UNCHANGED log,
           \A i \in Ids : row[i] # "none" => row'[i] # "none",
           \A i \in Ids : row[i] \in {"resolved", "cancelled"} => row'[i] = row[i]
    PROVE  EventsMatchRows'
<1>1. log \in Seq({"requested", "resolved"} \X Ids)
  BY DEF BrokerInvariant, TypeOK
<1>2. ASSUME NEW k \in 1..Len(log)
      PROVE  /\ \A j \in 1..Len(log) : log[j] = log[k] => j = k
             /\ row'[log[k][2]] # "none"
             /\ log[k][1] = "resolved" =>
                   /\ row'[log[k][2]] \in {"resolved", "cancelled"}
                   /\ \E j \in 1..(k - 1) : log[j] = <<"requested", log[k][2]>>
  <2>1. log[k][2] \in Ids
    BY <1>1, ElementOfSeq
  <2>2. /\ \A j \in 1..Len(log) : log[j] = log[k] => j = k
        /\ row[log[k][2]] # "none"
        /\ log[k][1] = "resolved" =>
              /\ row[log[k][2]] \in {"resolved", "cancelled"}
              /\ \E j \in 1..(k - 1) : log[j] = <<"requested", log[k][2]>>
    BY DEF BrokerInvariant, EventsMatchRows
  <2> QED
    BY <2>1, <2>2
<1> QED
  BY <1>2 DEF EventsMatchRows

\* The actor takes the oldest command.
LEMMA ReceiveCommandEffect ==
    ASSUME BrokerInvariant, ReceiveCommand
    PROVE  BrokerInvariant'
<1> USE NoneAssumption DEF BrokerInvariant, askVars, waitVars, storeVars
<1>0. /\ actor.at = "idle" /\ actor'.at = "received" /\ actor'.outcome = None
      /\ actor' = [at |-> "received", cmd |-> actor'.cmd, outcome |-> None]
      /\ UNCHANGED <<req, result, ask, cancel, sender, mail, row, resolution, terminal,
                     failures, finished, fin, log>>
  BY DEF ReceiveCommand
<1>1. /\ actor'.cmd \in Command /\ actor'.cmd # None
      /\ queue' \in Seq(Command) /\ Len(queue') <= QueueCapacity
      /\ ToSet(queue) = ToSet(queue)' \cup {actor'.cmd}
      /\ Held' = Held /\ QueueOrdered'
  BY ReceiveEffect
<1>2. TypeOK'
  BY <1>0, <1>1 DEF TypeOK, ActorState
<1>3. ActorHolds' /\ CallersOK' /\ (\A c \in Held : SentOnce(c))'
  BY <1>0, <1>1 DEF ActorHolds, CallersOK, SentOnce
<1>4. RowsFollowRequests'
  BY <1>0, <1>1 DEF RowsFollowRequests
<1>5. WaiterKept' /\ CancelledSettled'
  BY <1>0, <1>1 DEF WaiterKept, CancelledSettled, Open
<1>6. OutcomeStands' /\ AnswersStand' /\ AnswersDurable'
  BY <1>0 DEF OutcomeStands, AnswersStand, AnswersDurable
<1>7. AcceptedOnce' /\ TerminalLeavesNonePending' /\ ReceiptsOwed'
  BY <1>0, <1>1 DEF AcceptedOnce, TerminalLeavesNonePending, ReceiptsOwed
<1>8. EventsFollowRows'
  BY <1>0 DEF EventsFollowRows
<1>9. EventsMatchRows'
  BY <1>0 DEF EventsMatchRows
<1> QED
  BY <1>1, <1>2, <1>3, <1>4, <1>5, <1>6, <1>7, <1>8, <1>9

\* The actor has a command and its transaction is answered.
LEMMA ActorAnswered ==
    ASSUME BrokerInvariant, NEW o \in {"won", "lost", "failed"}, Answered(o),
           actor.at \in {"received", "adopted"}, UNCHANGED <<queue, sender>>
    PROVE  /\ actor.cmd \in Command /\ actor.cmd \in Held /\ actor.cmd.id \in Ids
           /\ actor'.at = "answered" /\ actor'.cmd = actor.cmd /\ actor'.outcome = o
           /\ actor' \in [at : ActorState, cmd : Command \cup {None},
                          outcome : {"won", "lost", "failed", None}]
           /\ Held' = Held /\ ToSet(queue)' = ToSet(queue) /\ QueueOrdered'
           /\ actor.cmd # None
           /\ \A c \in ToSet(queue) : Before(actor.cmd, c)
<1> USE DEF BrokerInvariant
<1>1. actor.cmd # None /\ actor.cmd \in Command
  BY DEF ActorHolds, TypeOK
<1>2. /\ actor'.at = "answered" /\ actor'.cmd = actor.cmd /\ actor'.outcome = o
      /\ actor' \in [at : ActorState, cmd : Command \cup {None},
                     outcome : {"won", "lost", "failed", None}]
  BY DEF Answered, TypeOK, ActorState
<1>3. actor.cmd \in Held /\ Held' = Held /\ ToSet(queue)' = ToSet(queue)
  BY <1>1, <1>2 DEF Held
<1>4. QueueOrdered'
  BY <1>2 DEF QueueOrdered, Before
<1>5. \A c \in ToSet(queue) : Before(actor.cmd, c)
  <2>1. queue \in Seq(Command)
    BY DEF TypeOK
  <2>2. ToSet(queue) = {queue[k] : k \in 1..Len(queue)}
    BY <2>1, ToSetRange
  <2> QED
    BY <1>1, <2>2 DEF QueueOrdered
<1> QED
  BY <1>1, <1>2, <1>3, <1>4, <1>5 DEF Command

\* The insert: a new row of a Turn that is not terminal, or none.
LEMMA StoreRequestEffect ==
    ASSUME BrokerInvariant, StoreRequest
    PROVE  BrokerInvariant'
<1> DEFINE i == actor.cmd.id
<1> USE NoneAssumption, InteractionAssumption DEF BrokerInvariant, askVars, waitVars
<1>0. /\ actor.at = "received" /\ actor.cmd.op = "request"
      /\ UNCHANGED <<resolution, terminal, req, result, ask, cancel, sender, mail, queue,
                     finished, fin, log>>
  BY DEF StoreRequest
<1>1. PICK o \in {"won", "lost", "failed"} :
        /\ Answered(o)
        /\ o = "won" => ~terminal /\ row[i] = "none" /\ row' = [row EXCEPT ![i] = "pending"]
        /\ o = "lost" => (terminal \/ row[i] # "none") /\ row' = row
        /\ o = "failed" => row' = row
        /\ failures' = failures \/ (failures < MaxStoreFailures /\ failures' = failures + 1)
  BY DEF StoreRequest, StoreFails
<1>2. /\ actor.cmd \in Held /\ i \in Ids /\ actor.cmd # None
      /\ actor'.at = "answered" /\ actor'.cmd = actor.cmd /\ actor'.outcome = o
      /\ actor' \in [at : ActorState, cmd : Command \cup {None},
                     outcome : {"won", "lost", "failed", None}]
      /\ Held' = Held /\ ToSet(queue)' = ToSet(queue) /\ QueueOrdered'
      /\ \A c \in ToSet(queue) : Before(actor.cmd, c)
  BY <1>0, <1>1, ActorAnswered
<1>3. row[i] = "none" /\ req[i] \notin {"idle", "sending"}
  BY <1>0, <1>2 DEF RowsFollowRequests, SentOnce
<1>4. /\ row' \in [Ids -> RowStatus]
      /\ \A j \in Ids : j # i => row'[j] = row[j]
      /\ row'[i] = IF o = "won" THEN "pending" ELSE "none"
      /\ failures' \in 0..MaxStoreFailures
  <2>1. failures' \in 0..MaxStoreFailures
    BY <1>1 DEF TypeOK
  <2> QED
    BY <1>1, <1>2, <1>3, <2>1 DEF TypeOK, RowStatus
<1> HIDE DEF i
<1>5. TypeOK' /\ ActorHolds'
  <2>1. TypeOK'
    BY <1>0, <1>2, <1>4 DEF TypeOK
  <2>2. ActorHolds'
    BY <1>0, <1>2 DEF ActorHolds
  <2> QED
    BY <2>1, <2>2
<1>6. CallersOK' /\ (\A c \in Held : SentOnce(c))'
  BY <1>0, <1>2 DEF CallersOK, SentOnce
<1>7. RowsFollowRequests'
  <2>1. \A c \in ToSet(queue) : c \in Command /\ c.id \in Ids
    BY HeldCommands, <1>2 DEF Held, Command
  <2>2. \A c \in ToSet(queue) : c.op = "request" => c.id # i
    BY <1>0, <1>2 DEF Before, i
  <2> QED
    BY <1>0, <1>1, <1>2, <1>3, <1>4, <2>1, <2>2 DEF RowsFollowRequests, i
<1>8. WaiterKept'
  <2>1. \A j \in Ids : row'[j] # row[j] => j = i /\ actor.cmd \in Held
    BY <1>2, <1>4
  <2> QED
    BY <1>0, <1>2, <1>4, <2>1 DEF WaiterKept, Open, i
<1>9. OutcomeStands'
  BY <1>0, <1>2 DEF OutcomeStands
<1>10. AnswersStand' /\ AnswersDurable'
  BY <1>0, <1>3, <1>4, <1>2 DEF AnswersStand, AnswersDurable, CallersOK
<1>11. AcceptedOnce' /\ TerminalLeavesNonePending'
  BY <1>0, <1>1, <1>4, <1>2 DEF AcceptedOnce, TerminalLeavesNonePending
<1>12. CancelledSettled' /\ ReceiptsOwed'
  <2>1. CancelledSettled'
    BY <1>0, <1>2, <1>4 DEF CancelledSettled, Ids, i
  <2>2. ReceiptsOwed'
    BY <1>0, <1>2 DEF ReceiptsOwed
  <2> QED
    BY <2>1, <2>2
<1>13. \A k \in 1..Len(log) : log[k][2] \in Ids /\ log[k][2] # i
  <2>1. log \in Seq({"requested", "resolved"} \X Ids)
    BY DEF TypeOK
  <2> QED
    BY <1>3, <2>1, ElementOfSeq DEF EventsMatchRows
<1>14. EventsFollowRows'
  <2>1. \A j \in Ids : row'[j] # "none" /\ j # i =>
            \E k \in 1..Len(log) : log[k] = <<"requested", j>>
    BY <1>0, <1>4 DEF EventsFollowRows
  <2>2. row'[i] # "none" => o = "won"
    BY <1>4
  <2> QED
    BY <1>0, <1>2, <1>13, <2>1, <2>2 DEF EventsFollowRows, i
<1>15. EventsMatchRows'
  BY <1>0, <1>4, <1>13 DEF EventsMatchRows
<1> QED
  BY <1>2, <1>5, <1>6, <1>7, <1>8, <1>9, <1>10, <1>11, <1>12, <1>14, <1>15

\* A recorded request is published; one that was not loses its waiter.
LEMMA ConcludeRequestEffect ==
    ASSUME BrokerInvariant, ConcludeRequest
    PROVE  BrokerInvariant'
<1> DEFINE i == actor.cmd.id
           r == IF actor.outcome = "won" THEN "ok" ELSE "error"
<1> USE NoneAssumption, InteractionAssumption DEF BrokerInvariant, storeVars, waitVars
<1>0. /\ actor.at = "answered" /\ actor.cmd.op = "request" /\ actor' = Idle
      /\ Receipts({actor.cmd}, r)
      /\ UNCHANGED <<result, row, resolution, terminal, failures, queue, finished, fin>>
  BY DEF ConcludeRequest
<1>1. r \in Receipt /\ r \in {"ok", "error"}
  BY DEF Receipt
<1> HIDE DEF r
<1>2. /\ actor.cmd \in Command /\ actor.cmd \in Held /\ actor.cmd # None
      /\ Held = ToSet(queue) \cup {actor.cmd} /\ Held' = ToSet(queue)
      /\ ToSet(queue)' = ToSet(queue)
      /\ QueueOrdered' /\ CallersOK' /\ (\A c \in Held : SentOnce(c))' /\ ReceiptsOwed'
      /\ \A c \in ToSet(queue) : Before(actor.cmd, c)
  BY <1>0, <1>1, ActorConcludes
<1>3. /\ i \in Ids /\ req[i] \notin {"idle", "sending"}
      /\ \A c \in ToSet(queue) : c.op = "request" => c.id # i
  BY <1>0, <1>2 DEF Command, SentOnce, Before
<1>4. /\ \A j \in Ids : Open(j)' <=> Open(j)
      /\ \A j \in Ids : req'[j] \in {"idle", "sending"} => req[j] = req'[j]
  BY <1>0, <1>1, ReceiptsKeepCallers
<1>5. /\ req' \in [Ids -> RequestState] /\ ask' \in [Askers -> AskRecord]
      /\ cancel' \in [Permissions -> CancelState]
      /\ \A a \in Askers : ask'[a].id = ask[a].id /\ ask'[a].response = ask[a].response
      /\ \A a \in Askers : ask'[a].at = "accepted" => ask[a].at = "accepted"
      /\ \A p \in Permissions : cancel'[p] = "ok" => cancel[p] = "ok"
  BY <1>0, <1>1, ReceiptsEffect
<1>6. /\ sender' \in [Ids -> {"none", "map", "actor", "gone"}]
      /\ mail' \in [Ids -> {"allow", "deny", "answers", "cancelled", None}]
      /\ \A j \in Ids : mail'[j] \in {"allow", "answers"} => mail'[j] = mail[j]
      /\ \A j \in Ids : j # i => sender'[j] = sender[j]
      /\ sender'[i] = "actor" => sender[i] = "actor"
      /\ actor.outcome = "won" => sender' = sender
  <2>1. CASE actor.outcome = "won"
    BY <2>1 DEF ConcludeRequest, TypeOK
  <2>2. CASE actor.outcome # "won"
    <3>1. CancelWaiter(i)
      BY <2>2 DEF ConcludeRequest
    <3> QED
      BY <3>1, <2>2, <1>3 DEF CancelWaiter, RemoveWaiter, TypeOK
  <2> QED
    BY <2>1, <2>2
<1>7. log' = IF actor.outcome = "won" THEN Append(log, <<"requested", i>>) ELSE log
  BY DEF ConcludeRequest
<1>8. /\ log' \in Seq({"requested", "resolved"} \X Ids) /\ EventsMatchRows'
      /\ \A j \in Ids :
            \/ \E k \in 1..Len(log) : log[k] = <<"requested", j>>
            \/ j = i /\ actor.outcome = "won"
            => \E k \in 1..Len(log') : log'[k] = <<"requested", j>>
  <2>1. CASE actor.outcome # "won"
    <3>1. log' = log /\ row' = row /\ log \in Seq({"requested", "resolved"} \X Ids)
      BY <2>1, <1>0, <1>7 DEF TypeOK
    <3> QED
      BY <2>1, <3>1 DEF EventsMatchRows
  <2>2. CASE actor.outcome = "won"
    <3>1. /\ row[i] # "none" /\ \A k \in 1..Len(log) : log[k][2] # i
      BY <2>2, <1>0, <1>2 DEF RowsFollowRequests, EventsFollowRows
    <3>2. \A k \in 1..Len(log) : log[k] # <<"requested", i>>
      BY <3>1
    <3>3. /\ log' \in Seq({"requested", "resolved"} \X Ids)
          /\ Len(log') = Len(log) + 1 /\ Len(log) \in Nat
          /\ \A k \in 1..Len(log) : log'[k] = log[k]
          /\ log'[Len(log) + 1] = <<"requested", i>>
          /\ EventsMatchRows'
      BY <2>2, <3>1, <3>2, <1>0, <1>3, <1>7, EventPushed
    <3> QED
      BY <3>3
  <2> QED
    BY <2>1, <2>2
<1>9. TypeOK' /\ ActorHolds'
  <2>1. TypeOK'
    BY <1>0, <1>5, <1>6, <1>8, <1>2 DEF TypeOK, Idle, ActorState
  <2>2. ActorHolds'
    BY <1>0, <1>3, <1>6 DEF ActorHolds, Idle
  <2> QED
    BY <2>1, <2>2
<1>10. RowsFollowRequests' /\ CancelledSettled'
  BY <1>0, <1>2, <1>4, <1>5 DEF RowsFollowRequests, CancelledSettled, Idle
<1>11. WaiterKept'
  <2>1. row[i] # "pending" \/ actor.outcome = "won"
    BY <1>0, <1>2, <1>3 DEF RowsFollowRequests, ActorHolds, TerminalLeavesNonePending
  <2> QED
    BY <1>0, <1>2, <1>3, <1>4, <1>6, <2>1 DEF WaiterKept, Idle
<1>12. OutcomeStands' /\ AnswersStand' /\ AnswersDurable'
  BY <1>0, <1>5, <1>6 DEF OutcomeStands, AnswersStand, AnswersDurable, Idle
<1>13. AcceptedOnce' /\ TerminalLeavesNonePending'
  BY <1>0, <1>5 DEF AcceptedOnce, TerminalLeavesNonePending
<1>14. EventsFollowRows'
  BY <1>0, <1>8 DEF EventsFollowRows, Idle
<1> QED
  BY <1>2, <1>8, <1>9, <1>10, <1>11, <1>12, <1>13, <1>14

\* A Respond that is refused before the store is asked gives its receipt; one
\* that adopts the waiter takes it out of the map.
LEMMA AdoptEffect ==
    ASSUME BrokerInvariant, Adopt
    PROVE  BrokerInvariant'
<1> DEFINE i == actor.cmd.id
           takes == row[i] = "pending" /\ Fits(i, actor.cmd.value) /\ sender[i] = "map"
<1> USE NoneAssumption, InteractionAssumption DEF BrokerInvariant
<1>0. /\ actor.at = "received" /\ actor.cmd.op = "respond"
      /\ UNCHANGED <<mail, result, row, resolution, terminal, queue, finished, fin, log>>
  BY DEF Adopt
<1>1. actor.cmd # None /\ actor.cmd \in Command /\ actor.cmd \in Held /\ i \in Ids
  BY <1>0 DEF ActorHolds, TypeOK, Held, Command
<1>2. \A j \in Ids : sender[j] # "actor"
  BY <1>0 DEF ActorHolds
<1>3. ASSUME NEW r \in {"error", "refused"}, actor' = Idle, Receipts({actor.cmd}, r),
             failures' \in 0..MaxStoreFailures, sender' \in [Ids -> {"none", "map", "actor", "gone"}],
             \A j \in Ids : sender'[j] = sender[j] \/ (sender'[j] = "gone" /\ ~Open(j))
      PROVE  BrokerInvariant'
  <2>1. r \in Receipt
    BY DEF Receipt
  <2>2. /\ Held = ToSet(queue) \cup {actor.cmd} /\ Held' = ToSet(queue)
        /\ ToSet(queue)' = ToSet(queue)
        /\ QueueOrdered' /\ CallersOK' /\ (\A c \in Held : SentOnce(c))' /\ ReceiptsOwed'
    BY <1>0, <1>3, <2>1, ActorConcludes
  <2>3. /\ \A j \in Ids : Open(j)' <=> Open(j)
        /\ \A j \in Ids : req'[j] \in {"idle", "sending"} => req[j] = req'[j]
    BY <1>0, <1>3, <2>1, ReceiptsKeepCallers
  <2>4. /\ req' \in [Ids -> RequestState] /\ ask' \in [Askers -> AskRecord]
        /\ cancel' \in [Permissions -> CancelState]
        /\ \A a \in Askers : ask'[a].id = ask[a].id /\ ask'[a].response = ask[a].response
        /\ \A a \in Askers : ask'[a].at = "accepted" => ask[a].at = "accepted"
        /\ \A p \in Permissions : cancel'[p] = "ok" => cancel[p] = "ok"
    BY <1>0, <1>3, <2>1, ReceiptsEffect
  <2>5. TypeOK' /\ ActorHolds'
    <3>1. TypeOK'
      BY <1>0, <1>3, <2>4 DEF TypeOK, Idle, ActorState
    <3>2. ActorHolds'
      BY <1>2, <1>3 DEF ActorHolds, Idle
    <3> QED
      BY <3>1, <3>2
  <2>6. RowsFollowRequests' /\ CancelledSettled'
    BY <1>0, <1>3, <2>2, <2>3, <2>4 DEF RowsFollowRequests, CancelledSettled, Idle
  <2>7. WaiterKept'
    BY <1>0, <1>3, <2>2, <2>3 DEF WaiterKept, Idle, Open
  <2>8. OutcomeStands' /\ AnswersStand' /\ AnswersDurable'
    BY <1>0, <1>3, <2>4 DEF OutcomeStands, AnswersStand, AnswersDurable, Idle
  <2>9. AcceptedOnce' /\ TerminalLeavesNonePending'
    BY <1>0, <2>4 DEF AcceptedOnce, TerminalLeavesNonePending
  <2>10. EventsFollowRows'
    BY <1>0, <1>3 DEF EventsFollowRows, Idle
  <2>11. EventsMatchRows'
    BY <1>0 DEF EventsMatchRows
  <2> QED
    BY <2>2, <2>5, <2>6, <2>7, <2>8, <2>9, <2>10, <2>11
<1>4. CASE /\ StoreFails /\ actor' = Idle /\ Receipts({actor.cmd}, "error")
           /\ UNCHANGED sender
  <2>1. failures' \in 0..MaxStoreFailures
    BY <1>4 DEF StoreFails, TypeOK
  <2>2. sender' \in [Ids -> {"none", "map", "actor", "gone"}]
    BY <1>4 DEF TypeOK
  <2> QED
    BY <1>3, <1>4, <2>1, <2>2
<1>5. CASE /\ ~(takes /\ Open(i)) /\ sender' = IF takes THEN RemoveWaiter(i) ELSE sender
           /\ actor' = Idle /\ Receipts({actor.cmd}, "refused")
           /\ UNCHANGED failures
  <2>1. failures' \in 0..MaxStoreFailures
    BY <1>5 DEF TypeOK
  <2>2. /\ sender' \in [Ids -> {"none", "map", "actor", "gone"}]
        /\ \A j \in Ids : sender'[j] = sender[j] \/ (sender'[j] = "gone" /\ ~Open(j))
    <3>1. sender' = sender \/ (sender' = [sender EXCEPT ![i] = "gone"] /\ ~Open(i))
      BY <1>5 DEF RemoveWaiter
    <3> QED
      BY <1>1, <3>1 DEF TypeOK
  <2> QED
    BY <1>3, <1>5, <2>1, <2>2
<1>6. CASE /\ takes /\ Open(i) /\ sender' = [sender EXCEPT ![i] = "actor"]
           /\ actor' = [actor EXCEPT !.at = "adopted"]
           /\ UNCHANGED <<req, ask, cancel, failures>>
  <2> USE <1>0, <1>1, <1>6
  <2>1. /\ actor'.at = "adopted" /\ actor'.cmd = actor.cmd
        /\ actor' \in [at : ActorState, cmd : Command \cup {None},
                       outcome : {"won", "lost", "failed", None}]
    BY DEF TypeOK, ActorState
  <2>2. Held' = Held /\ ToSet(queue)' = ToSet(queue)
    BY <2>1 DEF Held
  <2> HIDE DEF i, takes
  <2>3. /\ sender' \in [Ids -> {"none", "map", "actor", "gone"}]
        /\ sender'[i] = "actor" /\ \A j \in Ids : j # i => sender'[j] = sender[j]
    BY DEF TypeOK
  <2>4. TypeOK' /\ QueueOrdered'
    BY <2>1, <2>3 DEF TypeOK, QueueOrdered, Before
  <2>5. ActorHolds'
    BY <1>2, <2>1, <2>3 DEF ActorHolds, i
  <2>6. CallersOK' /\ (\A c \in Held : SentOnce(c))'
    BY <2>2 DEF CallersOK, SentOnce
  <2>7. RowsFollowRequests' /\ CancelledSettled' /\ ReceiptsOwed'
    BY <2>1, <2>2 DEF RowsFollowRequests, CancelledSettled, ReceiptsOwed
  <2>8. WaiterKept'
    BY <2>1, <2>2, <2>3 DEF WaiterKept, Open
  <2>9. OutcomeStands' /\ AnswersStand' /\ AnswersDurable'
    BY <2>1 DEF OutcomeStands, AnswersStand, AnswersDurable
  <2>10. AcceptedOnce' /\ TerminalLeavesNonePending'
    BY DEF AcceptedOnce, TerminalLeavesNonePending
  <2>11. EventsFollowRows'
    BY <2>1 DEF EventsFollowRows
  <2>12. EventsMatchRows'
    BY DEF EventsMatchRows
  <2> QED
    BY <2>4, <2>5, <2>6, <2>7, <2>8, <2>9, <2>10, <2>11, <2>12
<1> QED
  BY <1>4, <1>5, <1>6 DEF Adopt

\* The compare-and-set: it resolves a pending row, and nothing else.
LEMMA StoreResolveEffect ==
    ASSUME BrokerInvariant, StoreResolve
    PROVE  BrokerInvariant'
<1> DEFINE i == actor.cmd.id
           v == actor.cmd.value
           status == IF v \in {"cancel", "cancelled", "timed_out", "turn_finished"}
                     THEN "cancelled" ELSE "resolved"
<1> USE NoneAssumption, InteractionAssumption DEF BrokerInvariant, askVars, waitVars
<1>0. /\ actor.at \in {"received", "adopted"} /\ actor.cmd.op \in {"respond", "observe"}
      /\ UNCHANGED <<terminal, req, result, ask, cancel, sender, mail, queue, finished,
                     fin, log>>
  BY DEF StoreResolve, ActorHolds
<1>1. PICK o \in {"won", "lost", "failed"} :
        /\ Answered(o)
        /\ o = "won" => /\ row[i] = "pending" /\ row' = [row EXCEPT ![i] = status]
                        /\ resolution' = [resolution EXCEPT ![i] = v]
        /\ o = "lost" => row[i] # "pending" /\ row' = row /\ resolution' = resolution
        /\ o = "failed" => row' = row /\ resolution' = resolution
        /\ failures' = failures \/ (failures < MaxStoreFailures /\ failures' = failures + 1)
  BY DEF StoreResolve, StoreFails
<1>2. /\ actor.cmd \in Command /\ actor.cmd \in Held /\ i \in Ids /\ actor.cmd # None
      /\ actor'.at = "answered" /\ actor'.cmd = actor.cmd /\ actor'.outcome = o
      /\ actor' \in [at : ActorState, cmd : Command \cup {None},
                     outcome : {"won", "lost", "failed", None}]
      /\ Held' = Held /\ ToSet(queue)' = ToSet(queue) /\ QueueOrdered'
  BY <1>0, <1>1, ActorAnswered
<1>3. v \in Response \cup Reason \cup {None} /\ status \in {"resolved", "cancelled"}
  BY <1>2 DEF Command
<1>4. failures' \in 0..MaxStoreFailures
  BY <1>1 DEF TypeOK
<1> HIDE DEF i, v, status
<1>5. /\ row' \in [Ids -> RowStatus]
      /\ resolution' \in [Ids -> Resolution \cup {None}]
      /\ \A j \in Ids : j # i => row'[j] = row[j] /\ resolution'[j] = resolution[j]
      /\ o = "won" => row'[i] = status /\ resolution'[i] = v
      /\ o # "won" => row' = row /\ resolution' = resolution
  <2>1. CASE o = "won"
    <3>1. row' = [row EXCEPT ![i] = status] /\ resolution' = [resolution EXCEPT ![i] = v]
      BY <2>1, <1>1
    <3>2. row \in [Ids -> RowStatus] /\ resolution \in [Ids -> Resolution \cup {None}]
      BY DEF TypeOK
    <3>3. status \in RowStatus /\ v \in Resolution \cup {None}
      BY <1>3 DEF RowStatus, Resolution
    <3> QED
      BY <2>1, <1>2, <3>1, <3>2, <3>3
  <2>2. CASE o # "won"
    BY <2>2, <1>1 DEF TypeOK
  <2> QED
    BY <2>1, <2>2
<1>6. TypeOK' /\ ActorHolds'
  <2>1. TypeOK'
    BY <1>0, <1>2, <1>4, <1>5 DEF TypeOK
  <2>2. ActorHolds'
    BY <1>0, <1>2 DEF ActorHolds
  <2> QED
    BY <2>1, <2>2
<1>7. CallersOK' /\ (\A c \in Held : SentOnce(c))'
  BY <1>0, <1>2 DEF CallersOK, SentOnce
<1>8. \A j \in Ids : /\ row'[j] = "none" <=> row[j] = "none"
                     /\ row'[j] = "pending" => row[j] = "pending"
                     /\ row'[j] # row[j] => row[j] = "pending" /\ j = i
                     /\ resolution'[j] # resolution[j] => row[j] = "pending"
  BY <1>1, <1>3, <1>5
<1>9. RowsFollowRequests'
  <2>1. \A c \in ToSet(queue) : c.id \in Ids
    BY HeldCommands DEF Held, Command
  <2> QED
    BY <1>0, <1>2, <1>8, <2>1 DEF RowsFollowRequests
<1>10. WaiterKept'
  BY <1>0, <1>2, <1>8 DEF WaiterKept, Open
<1>11. OutcomeStands'
  <2>1. o # "failed" => row'[i] # "pending"
    BY <1>1, <1>3, <1>5
  <2>2. \A a \in Askers : ask[a].at = "accepted" => o # "won" \/ ask[a].id # i
    BY <1>1 DEF AnswersStand
  <2> QED
    BY <1>0, <1>2, <1>5, <2>1, <2>2 DEF OutcomeStands, i, v, status
<1>12. AnswersStand' /\ AnswersDurable'
  <2>1. \A a \in Askers : ask[a].at = "accepted" => ask[a].id \in Ids
    BY DEF CallersOK
  <2>2. AnswersStand'
    BY <1>0, <1>8, <2>1 DEF AnswersStand
  <2>3. AnswersDurable'
    BY <1>0, <1>8 DEF AnswersDurable
  <2> QED
    BY <2>2, <2>3
<1>13. AcceptedOnce' /\ TerminalLeavesNonePending'
  <2>1. \A a \in Askers : ask[a].at = "accepted" =>
            ask[a].id \in Ids /\ row[ask[a].id] # "pending"
    BY DEF AnswersStand, CallersOK
  <2> QED
    BY <1>0, <1>8, <2>1 DEF AcceptedOnce, TerminalLeavesNonePending
<1>14. CancelledSettled' /\ ReceiptsOwed'
  BY <1>0, <1>2, <1>8 DEF CancelledSettled, ReceiptsOwed, Ids
<1>15. \A k \in 1..Len(log) : /\ log[k][2] \in Ids
                              /\ log[k][1] = "resolved" => row[log[k][2]] # "pending"
  <2>1. log \in Seq({"requested", "resolved"} \X Ids)
    BY DEF TypeOK
  <2> QED
    BY <2>1, ElementOfSeq DEF EventsMatchRows
<1>16. EventsFollowRows'
  <2>1. \A j \in Ids : row'[j] # "none" => \E k \in 1..Len(log) : log[k] = <<"requested", j>>
    BY <1>0, <1>8 DEF EventsFollowRows
  <2>2. o = "won" => \A k \in 1..Len(log) : log[k][2] = i => log[k][1] # "resolved"
    BY <1>1, <1>15
  <2> QED
    BY <1>0, <1>2, <2>1, <2>2 DEF EventsFollowRows, i
<1>17. EventsMatchRows'
  <2>1. \A j \in Ids : row[j] \in {"resolved", "cancelled"} => row'[j] = row[j]
    BY <1>8
  <2>2. \A j \in Ids : row[j] # "none" => row'[j] # "none"
    BY <1>8
  <2> QED
    BY <1>0, <2>1, <2>2, EventsStand
<1> QED
  BY <1>2, <1>6, <1>7, <1>9, <1>10, <1>11, <1>12, <1>13, <1>14, <1>16, <1>17

\* The resolution the actor won is published once, after its request.
LEMMA ResolvedPushed ==
    ASSUME BrokerInvariant, actor.at = "answered", actor.cmd.op # "request",
           actor.outcome = "won", log' = Append(log, <<"resolved", actor.cmd.id>>),
           UNCHANGED row, actor' = Idle
    PROVE  /\ log' \in Seq({"requested", "resolved"} \X Ids)
           /\ EventsMatchRows' /\ EventsFollowRows'
<1> DEFINE i == actor.cmd.id
<1> USE DEF BrokerInvariant
<1>1. i \in Ids /\ row[i] \in {"resolved", "cancelled"}
  BY DEF ActorHolds, TypeOK, Command, OutcomeStands
<1>2. \A k \in 1..Len(log) : log[k] # <<"resolved", i>>
  BY DEF EventsFollowRows
<1>3. \E k \in 1..Len(log) : log[k] = <<"requested", i>>
  BY <1>1 DEF EventsFollowRows
<1> HIDE DEF i
<1>4. /\ log' \in Seq({"requested", "resolved"} \X Ids)
      /\ Len(log') = Len(log) + 1 /\ Len(log) \in Nat
      /\ \A k \in 1..Len(log) : log'[k] = log[k]
      /\ EventsMatchRows'
  BY <1>1, <1>2, <1>3, EventPushed DEF i
<1>5. EventsFollowRows'
  <2>1. \A j \in Ids : row[j] # "none" => \E k \in 1..Len(log) : log[k] = <<"requested", j>>
    BY DEF EventsFollowRows
  <2>2. \A j \in Ids : row[j] # "none" => \E k \in 1..Len(log') : log'[k] = <<"requested", j>>
    <3> SUFFICES ASSUME NEW j \in Ids, row[j] # "none"
                 PROVE  \E k \in 1..Len(log') : log'[k] = <<"requested", j>>
      OBVIOUS
    <3>1. PICK k \in 1..Len(log) : log[k] = <<"requested", j>>
      BY <2>1
    <3>2. k \in 1..Len(log') /\ log'[k] = <<"requested", j>>
      BY <1>4, <3>1
    <3> QED
      BY <3>2
  <2> QED
    BY <2>2 DEF EventsFollowRows, Idle
<1> QED
  BY <1>4, <1>5

\* The winner wakes the waiter, publishes and is accepted; the others put
\* the waiter back.
LEMMA ConcludeRespondEffect ==
    ASSUME BrokerInvariant, ConcludeRespond
    PROVE  BrokerInvariant'
<1> DEFINE i == actor.cmd.id
           v == actor.cmd.value
           r == IF actor.outcome = "won" THEN IF Open(i) THEN "accepted" ELSE "error"
                ELSE IF actor.outcome = "lost" THEN "refused" ELSE "error"
<1> USE NoneAssumption, InteractionAssumption DEF BrokerInvariant, storeVars
<1>0. /\ actor.at = "answered" /\ actor.cmd.op = "respond" /\ actor' = Idle
      /\ Receipts({actor.cmd}, r)
      /\ UNCHANGED <<result, row, resolution, terminal, failures, queue, finished, fin>>
  BY DEF ConcludeRespond
<1>1. r \in Receipt /\ r \in {"accepted", "refused", "error"}
      /\ (r = "accepted" => actor.outcome = "won")
  BY DEF Receipt
<1> HIDE DEF r
<1>2. /\ actor.cmd \in Command /\ actor.cmd \in Held /\ actor.cmd # None
      /\ Held = ToSet(queue) \cup {actor.cmd} /\ Held' = ToSet(queue)
      /\ ToSet(queue)' = ToSet(queue)
      /\ QueueOrdered' /\ CallersOK' /\ (\A c \in Held : SentOnce(c))' /\ ReceiptsOwed'
  BY <1>0, <1>1, ActorConcludes
<1>3. i \in Ids /\ v \in Response
  BY <1>0, <1>2 DEF Command, SentOnce
<1>4. /\ \A j \in Ids : Open(j)' <=> Open(j)
      /\ \A j \in Ids : req'[j] \in {"idle", "sending"} => req[j] = req'[j]
  BY <1>0, <1>1, ReceiptsKeepCallers
<1>5. /\ req' \in [Ids -> RequestState] /\ ask' \in [Askers -> AskRecord]
      /\ cancel' \in [Permissions -> CancelState]
      /\ \A a \in Askers : ask'[a].id = ask[a].id /\ ask'[a].response = ask[a].response
      /\ \A a \in Askers : ask'[a].at = "accepted" =>
            \/ ask[a].at = "accepted"
            \/ r = "accepted" /\ a = actor.cmd.by /\ ask[a].id = i
      /\ \A p \in Permissions : cancel'[p] = "ok" => cancel[p] = "ok"
  BY <1>0, <1>1, ReceiptsEffect
<1>6. actor.outcome = "won" =>
         /\ resolution[i] = v
         /\ row[i] = IF v = "cancel" THEN "cancelled" ELSE "resolved"
         /\ \A a \in Askers : ask[a].at = "accepted" => ask[a].id # i
  BY <1>0, <1>3 DEF OutcomeStands, Response
<1>7. /\ sender' \in [Ids -> {"none", "map", "actor", "gone"}]
      /\ \A j \in Ids : j # i => sender'[j] = sender[j]
      /\ sender'[i] # "actor"
      /\ actor.outcome # "won" /\ Open(i) => sender'[i] = "map"
  BY <1>3 DEF ConcludeRespond, TypeOK
<1>8. /\ mail' \in [Ids -> {"allow", "deny", "answers", "cancelled", None}]
      /\ \A j \in Ids : mail'[j] \in {"allow", "answers"} =>
            mail'[j] = mail[j] \/ (actor.outcome = "won" /\ j = i /\ v = mail'[j])
  <2>1. \/ mail' = mail
        \/ actor.outcome = "won" /\ mail' = [mail EXCEPT ![i] = Delivered(i, v)]
    BY DEF ConcludeRespond
  <2>2. /\ Delivered(i, v) \in {"allow", "deny", "answers", "cancelled"}
        /\ Delivered(i, v) \in {"allow", "answers"} => Delivered(i, v) = v
    BY <1>3 DEF Delivered, Response
  <2> QED
    BY <1>3, <2>1, <2>2 DEF TypeOK
<1>9. /\ log' \in Seq({"requested", "resolved"} \X Ids)
      /\ EventsMatchRows' /\ EventsFollowRows'
  <2>1. CASE actor.outcome = "won"
    BY <2>1, <1>0, ResolvedPushed DEF ConcludeRespond
  <2>2. CASE actor.outcome # "won"
    <3>1. log' = log /\ log \in Seq({"requested", "resolved"} \X Ids)
      BY <2>2 DEF ConcludeRespond, TypeOK
    <3>2. EventsMatchRows'
      BY <1>0, <3>1, EventsStand
    <3>3. EventsFollowRows'
      BY <2>2, <1>0, <3>1 DEF EventsFollowRows, Idle
    <3> QED
      BY <3>1, <3>2, <3>3
  <2> QED
    BY <2>1, <2>2
<1> HIDE DEF i, v
<1>10. TypeOK' /\ ActorHolds'
  <2>1. TypeOK'
    BY <1>0, <1>5, <1>7, <1>8, <1>9 DEF TypeOK, Idle, ActorState
  <2>2. ActorHolds'
    BY <1>0, <1>7 DEF ActorHolds, Idle, i
  <2> QED
    BY <2>1, <2>2
<1>11. RowsFollowRequests' /\ CancelledSettled'
  BY <1>0, <1>2, <1>4, <1>5 DEF RowsFollowRequests, CancelledSettled, Idle
<1>12. WaiterKept'
  <2>1. actor.outcome = "won" =>
           /\ row[i] \notin {"pending", "none"}
           /\ \A c \in ToSet(queue) : c.op = "request" => c.id # i
           /\ req[i] # "sending"
    BY <1>3, <1>6 DEF RowsFollowRequests
  <2>2. \A j \in Ids : req[j] = "sending" => Open(j)
    BY DEF Open
  <2> QED
    BY <1>0, <1>2, <1>3, <1>4, <1>7, <2>1, <2>2 DEF WaiterKept, Idle
<1>13. OutcomeStands'
  BY <1>0 DEF OutcomeStands, Idle
<1>14. AnswersStand'
  <2>1. \A j \in Ids : mail'[j] \in {"allow", "answers"} =>
           row'[j] = "resolved" /\ resolution'[j] = mail'[j]
    BY <1>0, <1>6, <1>8 DEF AnswersStand
  <2>2. \A a \in Askers : ask'[a].at = "accepted" =>
           /\ resolution'[ask'[a].id] = ask'[a].response
           /\ row'[ask'[a].id] = IF ask'[a].response = "cancel" THEN "cancelled" ELSE "resolved"
    <3>1. ask[actor.cmd.by].response = v
      BY <1>0, <1>2 DEF SentOnce, v
    <3> QED
      BY <1>0, <1>1, <1>5, <1>6, <3>1 DEF AnswersStand
  <2> QED
    BY <2>1, <2>2 DEF AnswersStand
<1>15. AnswersDurable' /\ TerminalLeavesNonePending'
  BY <1>0 DEF AnswersDurable, TerminalLeavesNonePending
<1>16. AcceptedOnce'
  <2>1. \A a \in Askers : ask'[a].at = "accepted" => resolution'[ask'[a].id] = ask'[a].response
    BY <1>14 DEF AnswersStand
  <2>2. ASSUME NEW a \in Askers, NEW b \in Askers \ {a},
               ask'[a].at = "accepted", ask'[b].at = "accepted"
        PROVE  ask'[b].id # ask'[a].id
    BY <1>1, <1>5, <1>6, <2>2 DEF AcceptedOnce
  <2> QED
    BY <2>1, <2>2 DEF AcceptedOnce
<1> QED
  BY <1>2, <1>9, <1>10, <1>11, <1>12, <1>13, <1>14, <1>15, <1>16

\* A cancellation is published when it won, and settled unless it failed.
LEMMA ConcludeObserveEffect ==
    ASSUME BrokerInvariant, ConcludeObserve
    PROVE  BrokerInvariant'
<1> DEFINE i == actor.cmd.id
           r == IF actor.outcome = "failed" THEN "error" ELSE "ok"
<1> USE NoneAssumption, InteractionAssumption DEF BrokerInvariant, storeVars, waitVars
<1>0. /\ actor.at = "answered" /\ actor.cmd.op = "observe" /\ actor' = Idle
      /\ Receipts({actor.cmd}, r)
      /\ UNCHANGED <<result, sender, mail, row, resolution, terminal, failures, queue,
                     finished, fin>>
  BY DEF ConcludeObserve
<1>1. r \in Receipt /\ r # "accepted" /\ (r = "ok" => actor.outcome # "failed")
  BY DEF Receipt
<1> HIDE DEF r
<1>2. /\ actor.cmd \in Command /\ actor.cmd \in Held /\ actor.cmd # None
      /\ Held = ToSet(queue) \cup {actor.cmd} /\ Held' = ToSet(queue)
      /\ ToSet(queue)' = ToSet(queue)
      /\ QueueOrdered' /\ CallersOK' /\ (\A c \in Held : SentOnce(c))' /\ ReceiptsOwed'
      /\ \A c \in ToSet(queue) : Before(actor.cmd, c)
  BY <1>0, <1>1, ActorConcludes
<1>3. i \in Ids
  BY <1>2 DEF Command
<1>4. /\ \A j \in Ids : Open(j)' <=> Open(j)
      /\ \A j \in Ids : req'[j] \in {"idle", "sending"} => req[j] = req'[j]
  BY <1>0, <1>1, ReceiptsKeepCallers
<1>5. /\ req' \in [Ids -> RequestState] /\ ask' \in [Askers -> AskRecord]
      /\ cancel' \in [Permissions -> CancelState]
      /\ \A a \in Askers : ask'[a].id = ask[a].id /\ ask'[a].response = ask[a].response
      /\ \A a \in Askers : ask'[a].at = "accepted" => ask[a].at = "accepted"
      /\ \A p \in Permissions : cancel'[p] = "ok" =>
            cancel[p] = "ok" \/ (r = "ok" /\ p = i /\ actor.cmd.by = "cancel")
  BY <1>0, <1>1, ReceiptsEffect
<1>6. /\ log' \in Seq({"requested", "resolved"} \X Ids)
      /\ EventsMatchRows' /\ EventsFollowRows'
  <2>1. CASE actor.outcome = "won"
    BY <2>1, <1>0, ResolvedPushed DEF ConcludeObserve
  <2>2. CASE actor.outcome # "won"
    <3>1. log' = log /\ log \in Seq({"requested", "resolved"} \X Ids)
      BY <2>2 DEF ConcludeObserve, TypeOK
    <3>2. EventsMatchRows'
      BY <1>0, <3>1, EventsStand
    <3>3. EventsFollowRows'
      BY <2>2, <1>0, <3>1 DEF EventsFollowRows, Idle
    <3> QED
      BY <3>1, <3>2, <3>3
  <2> QED
    BY <2>1, <2>2
<1>7. TypeOK' /\ ActorHolds'
  <2>1. TypeOK'
    BY <1>0, <1>5, <1>6 DEF TypeOK, Idle, ActorState
  <2>2. ActorHolds'
    BY <1>0 DEF ActorHolds, Idle
  <2> QED
    BY <2>1, <2>2
<1>8. RowsFollowRequests'
  BY <1>0, <1>2, <1>4 DEF RowsFollowRequests, Idle
<1>9. CancelledSettled'
  <2>1. r = "ok" => row[i] # "pending"
    BY <1>0, <1>1 DEF OutcomeStands
  <2>2. actor.cmd.by = "cancel" => \A c \in ToSet(queue) : c.op = "request" => c.id # i
    BY <1>0, <1>2 DEF Before
  <2> HIDE DEF i
  <2> QED
    BY <1>0, <1>2, <1>5, <2>1, <2>2 DEF CancelledSettled
<1>10. WaiterKept'
  BY <1>0, <1>2, <1>4 DEF WaiterKept, Idle
<1>11. OutcomeStands' /\ AnswersStand' /\ AnswersDurable'
  BY <1>0, <1>5 DEF OutcomeStands, AnswersStand, AnswersDurable, Idle
<1>12. AcceptedOnce' /\ TerminalLeavesNonePending'
  BY <1>0, <1>5 DEF AcceptedOnce, TerminalLeavesNonePending
<1> QED
  BY <1>2, <1>6, <1>7, <1>8, <1>9, <1>10, <1>11, <1>12

\* The actor stops after the finalizer and fails the commands it drops.
LEMMA StopEffect ==
    ASSUME BrokerInvariant, Stop
    PROVE  BrokerInvariant'
<1> USE NoneAssumption, InteractionAssumption DEF BrokerInvariant, storeVars, waitVars
<1>0. /\ actor.at = "idle" /\ finished /\ queue' = <<>>
      /\ actor' = [at |-> "stopped", cmd |-> None, outcome |-> None]
      /\ Receipts(ToSet(queue), "error")
      /\ UNCHANGED <<result, sender, mail, row, resolution, terminal, failures,
                     finished, fin, log>>
  BY DEF Stop, Idle
<1>1. "error" \in Receipt
  BY DEF Receipt
<1>2. Held = ToSet(queue) /\ Held' = {} /\ ToSet(queue)' = {}
  BY <1>0 DEF ActorHolds, Held, ToSet
<1>3. CallersOK' /\ (\A c \in Held : SentOnce(c))'
  BY <1>0, <1>1, <1>2, ReceiptsKeepCallers
<1>4. \A j \in Ids : req'[j] \in {"idle", "sending"} => req[j] = req'[j]
  BY <1>0, <1>1, ReceiptsKeepCallers
<1>5. /\ req' \in [Ids -> RequestState] /\ ask' \in [Askers -> AskRecord]
      /\ cancel' \in [Permissions -> CancelState]
      /\ \A a \in Askers : ask'[a].id = ask[a].id /\ ask'[a].response = ask[a].response
      /\ \A a \in Askers : ask'[a].at = "accepted" => ask[a].at = "accepted"
      /\ \A p \in Permissions : cancel'[p] = "ok" => cancel[p] = "ok"
  BY <1>0, <1>1, ReceiptsEffect
<1>6. ReceiptsOwed'
  <2>1. \A p \in Permissions : p \in Ids
    BY DEF Ids
  <2>2. /\ \A i \in Ids : req'[i] = "asked" =>
              /\ req[i] = "asked"
              /\ \A c \in Held : ~(c.op = "request" /\ c.id = i /\ c.by = "caller")
        /\ \A a \in Askers : ask'[a].at = "asked" =>
              /\ ask[a].at = "asked"
              /\ \A c \in Held : ~(c.op = "respond" /\ c.id = ask[a].id /\ c.by = a)
        /\ \A p \in Permissions : cancel'[p] = "asked" =>
              /\ cancel[p] = "asked"
              /\ \A c \in Held : ~(c.op = "observe" /\ c.id = p /\ c.by = "cancel")
    BY <1>0, <1>1, <1>2, ReceiptsEffect
  <2>3. /\ \A p \in Permissions : req'[p] # "asked" /\ cancel'[p] # "asked"
        /\ \A a \in Askers : ask'[a].at # "asked"
    BY <2>1, <2>2 DEF ReceiptsOwed
  <2> QED
    BY <2>3 DEF ReceiptsOwed
<1>7. TypeOK' /\ ActorHolds'
  <2>1. queue' \in Seq(Command) /\ Len(queue') <= QueueCapacity
    BY <1>0
  <2>2. TypeOK'
    BY <1>0, <1>5, <2>1 DEF TypeOK, ActorState
  <2>3. ActorHolds'
    BY <1>0 DEF ActorHolds
  <2> QED
    BY <2>2, <2>3
<1>8. QueueOrdered'
  BY <1>0 DEF QueueOrdered
<1>9. RowsFollowRequests' /\ CancelledSettled'
  BY <1>0, <1>2, <1>4, <1>5 DEF RowsFollowRequests, CancelledSettled
<1>10. WaiterKept'
  BY <1>0 DEF WaiterKept
<1>11. OutcomeStands' /\ AnswersStand' /\ AnswersDurable'
  BY <1>0, <1>5 DEF OutcomeStands, AnswersStand, AnswersDurable
<1>12. AcceptedOnce' /\ TerminalLeavesNonePending'
  BY <1>0, <1>5 DEF AcceptedOnce, TerminalLeavesNonePending
<1>13. EventsFollowRows' /\ EventsMatchRows'
  <2>1. EventsFollowRows'
    BY <1>0 DEF EventsFollowRows
  <2>2. EventsMatchRows'
    BY <1>0, EventsStand
  <2> QED
    BY <2>1, <2>2
<1> QED
  BY <1>3, <1>6, <1>7, <1>8, <1>9, <1>10, <1>11, <1>12, <1>13

-----------------------------------------------------------------------------
(* The finalizer and the forced abort *)

\* The transaction that makes the Turn terminal cancels what is pending.
LEMMA TerminalCommitted ==
    ASSUME BrokerInvariant, CommitTerminal,
           UNCHANGED <<askVars, waitVars, queue, actor, finished, log>>,
           fin' \in {"persisted", "done", "aborted"},
           finished \/ actor.at = "stopped" => fin' \in {"done", "aborted"}
    PROVE  BrokerInvariant'
<1> USE DEF BrokerInvariant, askVars, waitVars
<1>1. /\ \A i \in Ids : /\ row'[i] = IF row[i] = "pending" THEN "cancelled" ELSE row[i]
                        /\ row[i] # "pending" => resolution'[i] = resolution[i]
      /\ row' \in [Ids -> RowStatus] /\ resolution' \in [Ids -> Resolution \cup {None}]
      /\ terminal' = TRUE /\ failures' = failures
  BY DEF CommitTerminal, TypeOK, RowStatus, Resolution
<1>2. Held' = Held /\ ToSet(queue)' = ToSet(queue) /\ QueueOrdered'
  BY QuietStep
<1>3. TypeOK' /\ ActorHolds'
  <2>1. TypeOK'
    BY <1>1 DEF TypeOK
  <2>2. ActorHolds'
    BY DEF ActorHolds
  <2> QED
    BY <2>1, <2>2
<1>4. CallersOK' /\ (\A c \in Held : SentOnce(c))' /\ ReceiptsOwed'
  BY <1>2 DEF CallersOK, SentOnce, ReceiptsOwed
<1>5. \A c \in Held : c.id \in Ids
  BY HeldCommands DEF Command
<1>6. RowsFollowRequests' /\ CancelledSettled'
  <2>1. actor.cmd # None => actor.cmd \in Held
    BY DEF Held
  <2>2. \A c \in ToSet(queue) : c \in Held
    BY DEF Held
  <2>3. RowsFollowRequests'
    BY <1>1, <1>2, <1>5, <2>1, <2>2 DEF RowsFollowRequests
  <2>4. CancelledSettled'
    BY <1>1, <1>2 DEF CancelledSettled, Ids
  <2> QED
    BY <2>3, <2>4
<1>7. WaiterKept'
  BY DEF WaiterKept
<1>8. OutcomeStands'
  <2>1. actor.at = "answered" => actor.cmd \in Held
    BY DEF ActorHolds, Held
  <2> QED
    BY <1>1, <1>5, <2>1 DEF OutcomeStands
<1>9. AnswersStand' /\ AcceptedOnce'
  <2>1. \A a \in Askers : ask[a].at = "accepted" => ask[a].id \in Ids
    BY DEF CallersOK
  <2>2. AnswersStand'
    BY <1>1, <2>1 DEF AnswersStand
  <2>3. AcceptedOnce'
    BY <1>1, <2>1 DEF AnswersStand, AcceptedOnce
  <2> QED
    BY <2>2, <2>3
<1>10. AnswersDurable' /\ TerminalLeavesNonePending'
  BY <1>1 DEF AnswersDurable, TerminalLeavesNonePending
<1>11. EventsFollowRows'
  BY <1>1 DEF EventsFollowRows
<1>12. EventsMatchRows'
  BY <1>1, EventsStand
<1> QED
  BY <1>2, <1>3, <1>4, <1>6, <1>7, <1>8, <1>9, <1>10, <1>11, <1>12

\* A step of the finalizer that touches no row keeps what is durable.
LEMMA FinalizerMoves ==
    ASSUME BrokerInvariant,
           UNCHANGED <<askVars, mail, row, resolution, terminal, queue, actor, log>>,
           fin' \in {"persisted", "cleared", "done"}, finished' \in BOOLEAN,
           failures' \in 0..MaxStoreFailures,
           finished' \/ actor.at = "stopped" => fin' = "done",
           sender' \in [Ids -> {"none", "map", "actor", "gone"}],
           \A i \in Ids : sender'[i] = "actor" => sender[i] = "actor"
    PROVE  BrokerInvariant'
<1> USE DEF BrokerInvariant, askVars
<1>1. Held' = Held /\ ToSet(queue)' = ToSet(queue) /\ QueueOrdered'
  BY QuietStep
<1>2. TypeOK' /\ ActorHolds'
  <2>1. TypeOK'
    BY DEF TypeOK
  <2>2. ActorHolds'
    BY DEF ActorHolds
  <2> QED
    BY <2>1, <2>2
<1>3. CallersOK' /\ (\A c \in Held : SentOnce(c))' /\ ReceiptsOwed'
  BY <1>1 DEF CallersOK, SentOnce, ReceiptsOwed
<1>4. RowsFollowRequests' /\ CancelledSettled' /\ WaiterKept'
  BY <1>1 DEF RowsFollowRequests, CancelledSettled, WaiterKept
<1>5. OutcomeStands' /\ AnswersStand'
  BY DEF OutcomeStands, AnswersStand
<1>6. AnswersDurable' /\ TerminalLeavesNonePending' /\ AcceptedOnce'
  BY DEF AnswersDurable, TerminalLeavesNonePending, AcceptedOnce
<1>7. EventsFollowRows'
  BY DEF EventsFollowRows
<1>8. EventsMatchRows'
  BY EventsStand
<1> QED
  BY <1>1, <1>2, <1>3, <1>4, <1>5, <1>6, <1>7, <1>8

\* The finalizer commits the terminal, or fails to and goes on.
LEMMA PersistTerminalEffect ==
    ASSUME BrokerInvariant, PersistTerminal
    PROVE  BrokerInvariant'
<1>1. ~finished /\ actor.at # "stopped"
  BY DEF PersistTerminal, BrokerInvariant, WaiterKept
<1>2. CASE CommitTerminal
  BY <1>1, <1>2, TerminalCommitted DEF PersistTerminal
<1>3. CASE StoreFails /\ UNCHANGED <<row, resolution, terminal>>
  <2>1. failures' \in 0..MaxStoreFailures
    BY <1>3, InteractionAssumption DEF StoreFails, BrokerInvariant, TypeOK
  <2>2. finished' \in BOOLEAN /\ sender' \in [Ids -> {"none", "map", "actor", "gone"}]
    BY DEF PersistTerminal, BrokerInvariant, TypeOK, waitVars
  <2> QED
    BY <1>1, <1>3, <2>1, <2>2, FinalizerMoves DEF PersistTerminal, waitVars
<1> QED
  BY <1>2, <1>3 DEF PersistTerminal

\* The finalizer clears the map of permission waiters.
LEMMA CancelPermissionsEffect ==
    ASSUME BrokerInvariant, CancelPermissions
    PROVE  BrokerInvariant'
<1>1. ~finished /\ actor.at # "stopped"
  BY DEF CancelPermissions, BrokerInvariant, WaiterKept
<1>2. /\ sender' \in [Ids -> {"none", "map", "actor", "gone"}]
      /\ \A i \in Ids : sender'[i] = "actor" => sender[i] = "actor"
  BY DEF CancelPermissions, BrokerInvariant, TypeOK
<1>3. finished' \in BOOLEAN /\ failures' \in 0..MaxStoreFailures
  BY DEF CancelPermissions, BrokerInvariant, TypeOK, storeVars
<1> QED
  BY <1>1, <1>2, <1>3, FinalizerMoves DEF CancelPermissions, storeVars

\* The finalizer cancels the token.
LEMMA FinishEffect ==
    ASSUME BrokerInvariant, Finish
    PROVE  BrokerInvariant'
<1>1. /\ sender' \in [Ids -> {"none", "map", "actor", "gone"}]
      /\ finished' \in BOOLEAN /\ failures' \in 0..MaxStoreFailures
  BY DEF Finish, BrokerInvariant, TypeOK, storeVars, waitVars
<1> QED
  BY <1>1, FinalizerMoves DEF Finish, storeVars, waitVars

\* A terminal that was not persisted is committed later.
LEMMA RetryTerminalEffect ==
    ASSUME BrokerInvariant, RetryTerminal
    PROVE  BrokerInvariant'
BY TerminalCommitted DEF RetryTerminal

\* The abort drops the actor and the Turn's task; the rows and the log stay.
LEMMA ForcedAbortEffect ==
    ASSUME BrokerInvariant, ForcedAbort
    PROVE  BrokerInvariant'
<1> USE NoneAssumption, InteractionAssumption DEF BrokerInvariant, storeVars
<1>0. /\ fin' = "aborted" /\ queue' = <<>>
      /\ actor' = [at |-> "stopped", cmd |-> None, outcome |-> None]
      /\ UNCHANGED <<result, mail, row, resolution, terminal, failures, finished, log>>
  BY DEF ForcedAbort, Idle
<1>1. Held' = {} /\ ToSet(queue)' = {} /\ QueueOrdered'
  BY <1>0 DEF Held, ToSet, QueueOrdered
<1>2. /\ sender' \in [Ids -> {"none", "map", "actor", "gone"}]
      /\ \A i \in Ids : sender'[i] # "actor"
      /\ req' \in [Ids -> RequestState]
      /\ \A i \in Ids : req'[i] \in {"idle", "ended"} /\ (req'[i] = "idle" => req[i] = "idle")
      /\ cancel' \in [Permissions -> CancelState]
      /\ \A p \in Permissions : /\ cancel'[p] \in {"idle", "ended"}
                                /\ cancel'[p] = "ended" => cancel[p] # "idle"
  <2>1. /\ sender' \in [Ids -> {"none", "map", "actor", "gone"}]
        /\ \A i \in Ids : sender'[i] # "actor"
    BY DEF ForcedAbort, TypeOK
  <2>2. /\ req' \in [Ids -> RequestState]
        /\ \A i \in Ids : req'[i] \in {"idle", "ended"} /\ (req'[i] = "idle" => req[i] = "idle")
    BY DEF ForcedAbort, TypeOK, RequestState, Open
  <2>3. /\ cancel' \in [Permissions -> CancelState]
        /\ \A p \in Permissions : /\ cancel'[p] \in {"idle", "ended"}
                                  /\ cancel'[p] = "ended" => cancel[p] # "idle"
    BY DEF ForcedAbort, TypeOK, CancelState
  <2> QED
    BY <2>1, <2>2, <2>3
<1>3. /\ ask' \in [Askers -> AskRecord]
      /\ \A a \in Askers :
            /\ ask'[a].id = ask[a].id /\ ask'[a].response = ask[a].response
            /\ ask'[a].at # "asked"
            /\ ask'[a].at = "accepted" => ask[a].at = "accepted"
            /\ ask'[a].at = "idle" => ask[a].at = "idle"
            /\ ask'[a].at \notin {"idle", "ended"} => ask[a].at \notin {"idle", "ended"}
            /\ a \in Delegated => ask'[a].at \in {"idle", "ended"}
            /\ ask'[a].at = "ended" => ask[a].at # "idle"
  <2>1. ask \in [Askers -> AskRecord] /\ "ended" \in AskState /\ "error" \in AskState
    BY DEF TypeOK, AskState, Receipt
  <2>2. \A a \in Askers, s \in {"ended", "error"} :
           /\ [ask[a] EXCEPT !.at = s] \in AskRecord
           /\ [ask[a] EXCEPT !.at = s].at = s
           /\ [ask[a] EXCEPT !.at = s].id = ask[a].id
           /\ [ask[a] EXCEPT !.at = s].response = ask[a].response
    BY <2>1 DEF AskRecord
  <2>3. ask' = [a \in Askers |->
                 IF a \in Delegated /\ ask[a].at # "idle" THEN [ask[a] EXCEPT !.at = "ended"]
                 ELSE IF ask[a].at = "asked" THEN [ask[a] EXCEPT !.at = "error"]
                 ELSE ask[a]]
    BY DEF ForcedAbort
  <2> QED
    BY <2>1, <2>2, <2>3
<1>4. TypeOK' /\ ActorHolds'
  <2>1. queue' \in Seq(Command) /\ Len(queue') <= QueueCapacity
    BY <1>0
  <2>2. TypeOK'
    BY <1>0, <1>2, <1>3, <2>1 DEF TypeOK, ActorState
  <2>3. ActorHolds'
    BY <1>0, <1>2 DEF ActorHolds
  <2> QED
    BY <2>2, <2>3
<1>5. CallersOK'
  <2>1. \A p \in Permissions : req[p] \in {"replying", "waiting", "ended"} => req'[p] = "ended"
    BY <1>2 DEF Ids
  <2>2. Delegated \subseteq Permissions /\ Delegated \subseteq Askers
    BY DEF Askers
  <2> QED
    BY <1>2, <1>3, <2>1, <2>2 DEF CallersOK
<1>6. (\A c \in Held : SentOnce(c))' /\ ReceiptsOwed'
  BY <1>1, <1>2, <1>3 DEF ReceiptsOwed, Ids
<1>7. RowsFollowRequests' /\ CancelledSettled' /\ WaiterKept'
  BY <1>0, <1>1, <1>2 DEF RowsFollowRequests, CancelledSettled, WaiterKept
<1>8. OutcomeStands' /\ AnswersStand' /\ AnswersDurable'
  BY <1>0, <1>3 DEF OutcomeStands, AnswersStand, AnswersDurable
<1>9. AcceptedOnce' /\ TerminalLeavesNonePending'
  BY <1>0, <1>3 DEF AcceptedOnce, TerminalLeavesNonePending
<1>10. EventsFollowRows' /\ EventsMatchRows'
  <2>1. EventsFollowRows'
    BY <1>0 DEF EventsFollowRows
  <2>2. EventsMatchRows'
    BY <1>0, EventsStand
  <2> QED
    BY <2>1, <2>2
<1> QED
  BY <1>1, <1>4, <1>5, <1>6, <1>7, <1>8, <1>9, <1>10

-----------------------------------------------------------------------------
(* The theorems *)

\* The invariant holds before anything is asked.
LEMMA InitBroker == Init => BrokerInvariant
<1> SUFFICES ASSUME Init PROVE BrokerInvariant
  OBVIOUS
<1> USE InteractionAssumption, NoneAssumption DEF Init, Idle
<1>1. <<>> \in Seq(Command) /\ <<>> \in Seq({"requested", "resolved"} \X Ids) /\ Len(<<>>) = 0
  OBVIOUS
<1>2. Held = {} /\ ToSet(queue) = {}
  BY DEF Held, ToSet
<1>3. TypeOK
  <2>1. ask \in [Askers -> AskRecord]
    BY DEF AskRecord, AskState
  <2>2. Len(queue) <= QueueCapacity /\ failures \in 0..MaxStoreFailures
    BY <1>1
  <2> QED
    BY <1>1, <2>1, <2>2 DEF TypeOK, RowStatus, RequestState, CancelState, ActorState
<1>4. ActorHolds /\ CallersOK
  BY DEF ActorHolds, CallersOK, Askers
<1>5. QueueOrdered /\ RowsFollowRequests /\ WaiterKept
  BY <1>1, <1>2 DEF QueueOrdered, RowsFollowRequests, WaiterKept, Open
<1>6. OutcomeStands /\ AnswersStand /\ CancelledSettled /\ EventsFollowRows
  BY <1>1 DEF OutcomeStands, AnswersStand, CancelledSettled, EventsFollowRows,
              Resolution, Response
<1>7. AnswersDurable /\ AcceptedOnce /\ TerminalLeavesNonePending /\ EventsMatchRows
  BY <1>1 DEF AnswersDurable, AcceptedOnce, TerminalLeavesNonePending, EventsMatchRows,
              Resolution, Response
<1>8. ReceiptsOwed
  BY DEF ReceiptsOwed, Ids
<1> QED
  BY <1>2, <1>3, <1>4, <1>5, <1>6, <1>7, <1>8 DEF BrokerInvariant

\* Every step keeps it.
LEMMA NextBroker == BrokerInvariant /\ [Next]_vars => BrokerInvariant'
<1> SUFFICES ASSUME BrokerInvariant, [Next]_vars PROVE BrokerInvariant'
  OBVIOUS
<1> USE InteractionAssumption
<1>1. ASSUME NEW p \in Permissions,
             \/ RequestPermission(p) \/ PermissionStep(p) \/ ExpirePermission(p)
             \/ /\ p \in Delegated
                /\ \E d \in Responses \cap {"allow", "deny"} : DelegateDecides(p, d)
      PROVE  BrokerInvariant'
  <2>1. req[p] = "replying" => p \in Delegated
    BY DEF BrokerInvariant, CallersOK, Ids
  <2> QED
    BY <1>1, <2>1, RequestPermissionEffect, SendRequestEffect, RequestReturnsEffect,
       ReceiveDecisionEffect, DelegateReturnsEffect, CancelRemovesEffect,
       SendCancelEffect, ExpirePermissionEffect, DelegateDecidesEffect
    DEF PermissionStep, DelegateReturns
<1>2. ASSUME NEW c \in Clarifies, RequestClarify(c) \/ ReceiveClarify(c) \/ ExpireClarify(c)
      PROVE  BrokerInvariant'
  BY <1>2, RequestClarifyEffect, ReceiveClarifyEffect, ExpireClarifyEffect
<1>3. ASSUME NEW r \in Responders, NEW i \in Ids, NEW response \in Responses,
             Respond(r, i, response)
      PROVE  BrokerInvariant'
  BY <1>3, RespondEffect
<1>4. ASSUME NEW a \in Askers, SendRespond(a) PROVE BrokerInvariant'
  BY <1>4, SendRespondEffect
<1>5. CASE ActorStep
  BY <1>5, ReceiveCommandEffect, StoreRequestEffect, ConcludeRequestEffect, AdoptEffect,
     StoreResolveEffect, ConcludeRespondEffect, ConcludeObserveEffect, StopEffect
  DEF ActorStep
<1>6. CASE FinalizerStep \/ RetryTerminal \/ ForcedAbort
  BY <1>6, PersistTerminalEffect, CancelPermissionsEffect, FinishEffect,
     RetryTerminalEffect, ForcedAbortEffect
  DEF FinalizerStep
<1>7. CASE UNCHANGED vars
  <2> USE <1>7 DEF BrokerInvariant, vars, askVars, waitVars, storeVars
  <2>1. Held' = Held /\ ToSet(queue)' = ToSet(queue) /\ QueueOrdered'
    BY QuietStep
  <2>2. TypeOK' /\ ActorHolds' /\ CallersOK' /\ (\A c \in Held : SentOnce(c))' /\ ReceiptsOwed'
    BY <2>1 DEF TypeOK, ActorHolds, CallersOK, SentOnce, ReceiptsOwed
  <2>3. RowsFollowRequests' /\ CancelledSettled' /\ WaiterKept'
    BY <2>1 DEF RowsFollowRequests, CancelledSettled, WaiterKept, Open
  <2>4. OutcomeStands' /\ AnswersStand' /\ AnswersDurable' /\ AcceptedOnce'
        /\ TerminalLeavesNonePending' /\ EventsFollowRows' /\ EventsMatchRows'
    BY CallerStep DEF AnswersDurable
  <2> QED
    BY <2>1, <2>2, <2>3, <2>4
<1> QED
  BY <1>1, <1>2, <1>3, <1>4, <1>5, <1>6, <1>7 DEF Next, Finished

\* The invariant holds in every reachable state.
LEMMA BrokerHolds == Spec => []BrokerInvariant
BY InitBroker, NextBroker, PTL DEF Spec

\* Every variable of the broker has its type in every reachable state: the
\* bounded channel never holds more than INTERACTION_COMMAND_CAPACITY commands.
THEOREM BrokerTypeOK == Spec => []TypeOK
<1>1. BrokerInvariant => TypeOK
  BY DEF BrokerInvariant
<1> QED
  BY <1>1, BrokerHolds, PTL

\* No tool goes ahead on a decision that is not durable: an approval or an
\* answer a request returns is the resolution of its row, whatever responders,
\* timers, the host's handler and the finalizer did meanwhile.
THEOREM BrokerAnswersDurable == Spec => []AnswersDurable
<1>1. BrokerInvariant => AnswersDurable
  BY DEF BrokerInvariant
<1> QED
  BY <1>1, BrokerHolds, PTL

\* At most one respond call is ever told accepted: true for an interaction, and
\* its response is the durable one.
THEOREM BrokerAcceptedOnce == Spec => []AcceptedOnce
<1>1. BrokerInvariant => AcceptedOnce
  BY DEF BrokerInvariant
<1> QED
  BY <1>1, BrokerHolds, PTL

\* The insert of a request and the commit of the Turn's terminal never leave a
\* pending row behind a terminal, in either order.
THEOREM BrokerTerminalLeavesNonePending == Spec => []TerminalLeavesNonePending
<1>1. BrokerInvariant => TerminalLeavesNonePending
  BY DEF BrokerInvariant
<1> QED
  BY <1>1, BrokerHolds, PTL

\* Until the finalizer runs, the waiter of a pending and awaited interaction is
\* in the map or with the actor: no lost or failed response forgets it.
THEOREM BrokerPendingAnswerable == Spec => []PendingAnswerable
<1>1. BrokerInvariant => PendingAnswerable
  BY DEF BrokerInvariant, PendingAnswerable, WaiterKept, Open
<1> QED
  BY <1>1, BrokerHolds, PTL

\* A cancel_permission_with_reason that returns Ok leaves its row settled: the
\* request it cancels was ahead of it in the queue.
THEOREM BrokerCancelSettles == Spec => []CancelSettles
<1>1. BrokerInvariant => CancelSettles
  BY DEF BrokerInvariant, CancelSettles, CancelledSettled
<1> QED
  BY <1>1, BrokerHolds, PTL

\* The Turn's event log holds each interaction's request once, its resolution
\* at most once and behind it, and only what the rows confirm.
THEOREM BrokerEventsMatchRows == Spec => []EventsMatchRows
<1>1. BrokerInvariant => EventsMatchRows
  BY DEF BrokerInvariant
<1> QED
  BY <1>1, BrokerHolds, PTL

\* No caller awaits a oneshot receipt that nobody holds: its command is queued
\* at a live actor or in its hands.
THEOREM BrokerReceiptsOwed == Spec => []ReceiptsOwed
<1>1. BrokerInvariant => ReceiptsOwed
  BY DEF BrokerInvariant
<1> QED
  BY <1>1, BrokerHolds, PTL
=============================================================================
