------------------------------ MODULE EventLog ------------------------------
(***************************************************************************)
(* The bounded event log of one Turn                                       *)
(* (crates/psychevo/src/application/event_log.rs): producers (the Turn     *)
(* task, the Adapter, the interaction broker, a shutdown) push under the   *)
(* log's lock and notify after they released it; every TurnEventStream     *)
(* reads with a cursor of its own and sleeps on the log's Notify.          *)
(*                                                                         *)
(* The pushed events and what each stream received are kept as history:    *)
(* `received' has one entry per sequence number the stream has passed, the *)
(* event it was given or Missed where ResyncRequired accounted for it.     *)
(***************************************************************************)
EXTENDS Naturals, Sequences, SequencesExt

CONSTANTS
    Producers,  \* whoever pushes to or closes the log
    Streams,    \* TurnEventStreams
    Events,     \* the events
    Capacity,   \* event_capacity
    MaxPushes,  \* bound on the number of pushes
    Missed      \* stands for an event covered by ResyncRequired

\* ApplicationBuilder::build rejects a capacity of zero.
ASSUME CapacityAssumption == Capacity \in Nat \ {0}

ASSUME EventsAssumption == MaxPushes \in Nat /\ Missed \notin Events

VARIABLES
    first_sequence,  \* sequence number of the oldest retained event
    next_sequence,   \* sequence number of the next event
    events,          \* the retained events
    closed,
    notifying,       \* producers between their write and notify_waiters
    notified,        \* streams whose current Notified future has fired
    reader,          \* [Streams -> ReaderState]
    cursor,          \* [Streams -> Nat]
    pushed,          \* history: every event pushed
    closed_at,       \* history: how many when the log was closed first
    received         \* history: [Streams -> Seq(Events \cup {Missed})]

logVars == <<first_sequence, next_sequence, events, closed, pushed, closed_at>>
vars == <<logVars, notifying, notified, reader, cursor, received>>

(***************************************************************************)
(* idle     not inside next()                                              *)
(* armed    the Notified future exists, the log was not looked at yet      *)
(* checked  looked, found nothing, the lock is released                    *)
(* waiting  awaits the future                                              *)
(* ended    next() returned None                                           *)
(***************************************************************************)
ReaderState == {"idle", "armed", "checked", "waiting", "ended"}

TypeOK ==
    /\ first_sequence \in Nat
    /\ next_sequence \in Nat
    /\ events \in Seq(Events)
    /\ closed \in BOOLEAN
    /\ notifying \subseteq Producers
    /\ notified \subseteq Streams
    /\ reader \in [Streams -> ReaderState]
    /\ cursor \in [Streams -> Nat]
    /\ pushed \in Seq(Events)
    /\ closed_at \in Nat
    /\ received \in [Streams -> Seq(Events \cup {Missed})]

Init ==
    /\ first_sequence = 0
    /\ next_sequence = 0
    /\ events = <<>>
    /\ closed = FALSE
    /\ notifying = {}
    /\ notified = {}
    /\ reader = [s \in Streams |-> "idle"]
    /\ cursor = [s \in Streams |-> 0]
    /\ pushed = <<>>
    /\ closed_at = 0
    /\ received = [s \in Streams |-> <<>>]

-----------------------------------------------------------------------------
(* Producers *)

\* Mutant: a full log drops its oldest event without moving first_sequence.
PushKeepsFirst(p, e) ==
    /\ p \notin notifying
    /\ Len(pushed) < MaxPushes
    /\ events' = Append(IF Len(events) = Capacity THEN Tail(events) ELSE events, e)
    /\ next_sequence' = next_sequence + 1
    /\ pushed' = Append(pushed, e)
    /\ notifying' = notifying \cup {p}
    /\ UNCHANGED <<first_sequence, closed, closed_at, notified, reader, cursor, received>>

\* Mutant: the capacity is checked one event too late.
PushLate(p, e) ==
    /\ p \notin notifying
    /\ Len(pushed) < MaxPushes
    /\ IF Len(events) > Capacity
       THEN /\ events' = Append(Tail(events), e)
            /\ first_sequence' = first_sequence + 1
       ELSE /\ events' = Append(events, e)
            /\ UNCHANGED first_sequence
    /\ next_sequence' = next_sequence + 1
    /\ pushed' = Append(pushed, e)
    /\ notifying' = notifying \cup {p}
    /\ UNCHANGED <<closed, closed_at, notified, reader, cursor, received>>

\* push, under the lock: a full log drops its oldest event.  Nothing keeps a
\* producer from pushing to a closed log.
Push(p, e) ==
    /\ p \notin notifying
    /\ Len(pushed) < MaxPushes
    /\ IF Len(events) = Capacity
       THEN /\ events' = Append(Tail(events), e)
            /\ first_sequence' = first_sequence + 1
       ELSE /\ events' = Append(events, e)
            /\ UNCHANGED first_sequence
    /\ next_sequence' = next_sequence + 1
    /\ pushed' = Append(pushed, e)
    /\ notifying' = notifying \cup {p}
    /\ UNCHANGED <<closed, closed_at, notified, reader, cursor, received>>

\* close, under the lock; a log may be closed more than once.
Close(p) ==
    /\ p \notin notifying
    /\ closed' = TRUE
    /\ closed_at' = IF closed THEN closed_at ELSE next_sequence
    /\ notifying' = notifying \cup {p}
    /\ UNCHANGED <<first_sequence, next_sequence, events, notified, reader, cursor,
                   pushed, received>>

\* The states in which a stream has a Notified future.
Listening == {"armed", "checked", "waiting"}

\* notify_waiters: every Notified future that exists fires, polled or not.
NotifyWaiters(p) ==
    /\ p \in notifying
    /\ notifying' = notifying \ {p}
    /\ notified' = notified \cup {s \in Streams : reader[s] \in Listening}
    /\ UNCHANGED <<logVars, reader, cursor, received>>

-----------------------------------------------------------------------------
(* TurnEventStream::next *)

\* A round of the loop begins: a new Notified future is made before the log is
\* looked at, on a call and after a wakeup.
Arm(s) ==
    /\ \/ reader[s] \in {"idle", "ended"}
       \/ reader[s] = "waiting" /\ s \in notified
    /\ reader' = [reader EXCEPT ![s] = "armed"]
    /\ notified' = notified \ {s}
    /\ UNCHANGED <<logVars, notifying, cursor, received>>

Gap(s) == first_sequence - cursor[s]

\* The stream fell behind: it is told how many events it missed.
ReadResync(s) ==
    /\ reader[s] = "armed"
    /\ cursor[s] < first_sequence
    /\ cursor' = [cursor EXCEPT ![s] = first_sequence]
    /\ received' = [received EXCEPT ![s] = @ \o [i \in 1..Gap(s) |-> Missed]]
    /\ reader' = [reader EXCEPT ![s] = "idle"]
    /\ UNCHANGED <<logVars, notifying, notified>>

ReadEvent(s) ==
    /\ reader[s] = "armed"
    /\ first_sequence <= cursor[s]
    /\ cursor[s] < next_sequence
    /\ received' = [received EXCEPT ![s] =
                       Append(@, events[cursor[s] - first_sequence + 1])]
    /\ cursor' = [cursor EXCEPT ![s] = @ + 1]
    /\ reader' = [reader EXCEPT ![s] = "idle"]
    /\ UNCHANGED <<logVars, notifying, notified>>

NothingToRead(s) == reader[s] = "armed" /\ next_sequence <= cursor[s]

\* Mutant: a closed log ends the stream before its last events are read.
ReadEndEarly(s) ==
    /\ reader[s] = "armed"
    /\ closed
    /\ reader' = [reader EXCEPT ![s] = "ended"]
    /\ UNCHANGED <<logVars, notifying, notified, cursor, received>>

ReadEnd(s) ==
    /\ NothingToRead(s)
    /\ closed
    /\ reader' = [reader EXCEPT ![s] = "ended"]
    /\ UNCHANGED <<logVars, notifying, notified, cursor, received>>

ReadNothing(s) ==
    /\ NothingToRead(s)
    /\ ~closed
    /\ reader' = [reader EXCEPT ![s] = "checked"]
    /\ UNCHANGED <<logVars, notifying, notified, cursor, received>>

\* Mutant: the Notified future is made only when it is awaited, so a notification
\* since the look is forgotten.
AwaitFresh(s) ==
    /\ reader[s] = "checked"
    /\ reader' = [reader EXCEPT ![s] = "waiting"]
    /\ notified' = notified \ {s}
    /\ UNCHANGED <<logVars, notifying, cursor, received>>

\* notified.await: the future made before the look is awaited.
Await(s) ==
    /\ reader[s] = "checked"
    /\ reader' = [reader EXCEPT ![s] = "waiting"]
    /\ UNCHANGED <<logVars, notifying, notified, cursor, received>>

\* The caller drops next() while it sleeps.
Cancel(s) ==
    /\ reader[s] = "waiting"
    /\ reader' = [reader EXCEPT ![s] = "idle"]
    /\ UNCHANGED <<logVars, notifying, notified, cursor, received>>

-----------------------------------------------------------------------------
Next ==
    \/ \E p \in Producers :
          (\E e \in Events : Push(p, e)) \/ Close(p) \/ NotifyWaiters(p)
    \/ \E s \in Streams :
          \/ Arm(s) \/ ReadResync(s) \/ ReadEvent(s) \/ ReadEnd(s) \/ ReadNothing(s)
          \/ Await(s) \/ Cancel(s)

Spec == Init /\ [][Next]_vars

(***************************************************************************)
(* A producer that released the lock goes on to notify; a stream's owner   *)
(* calls next until it returns None, and Tokio polls it once it is woken.  *)
(* Nobody has to push or to close.                                         *)
(***************************************************************************)
Fairness ==
    /\ \A p \in Producers : WF_vars(NotifyWaiters(p))
    /\ \A s \in Streams :
          /\ WF_vars(reader[s] # "ended" /\ Arm(s))
          /\ WF_vars(ReadResync(s) \/ ReadEvent(s) \/ ReadEnd(s) \/ ReadNothing(s))
          /\ WF_vars(Await(s))

FairSpec == Spec /\ Fairness

-----------------------------------------------------------------------------
(* Properties *)

\* The log retains exactly the newest Capacity events under their sequence
\* numbers, so an event is lost to a stream only when Capacity newer ones exist.
WindowRetained ==
    /\ next_sequence = Len(pushed)
    /\ first_sequence = IF Len(pushed) <= Capacity THEN 0 ELSE Len(pushed) - Capacity
    /\ Len(events) = next_sequence - first_sequence
    /\ \A i \in DOMAIN events : events[i] = pushed[first_sequence + i]

\* A stream is given every event once, in order and under its own number, or
\* told by ResyncRequired of exactly the events it is not given: nothing is
\* repeated, reordered or skipped in silence.
StreamExact ==
    \A s \in Streams :
        /\ Len(received[s]) = cursor[s]
        /\ cursor[s] <= Len(pushed)
        /\ \A i \in DOMAIN received[s] : received[s][i] \in {pushed[i], Missed}

\* No wakeup is lost: a stream that found nothing and goes to sleep while there
\* is something to read, or the log is closed, has been notified, or a producer
\* is about to.
NoLostWakeup ==
    \A s \in Streams :
        /\ reader[s] \in {"checked", "waiting"}
        /\ cursor[s] < next_sequence \/ closed
        => s \in notified \/ notifying # {}

\* A stream ends only with everything that was pushed before the log was closed
\* behind it: the terminal event of a Turn is pushed before close.
EndAfterClose ==
    \A s \in Streams : reader[s] = "ended" =>
        closed /\ closed_at <= Len(received[s])

\* The inductive invariant behind them.
ClosedInThePast == closed_at <= Len(pushed)

LogInvariant ==
    /\ TypeOK
    /\ WindowRetained
    /\ StreamExact
    /\ NoLostWakeup
    /\ ClosedInThePast
    /\ EndAfterClose

\* Every stream of a closed log comes to its end.
StreamsEnd == \A s \in Streams : closed ~> reader[s] = "ended"
=============================================================================
