--------------------------- MODULE EventLogProofs ---------------------------
(***************************************************************************)
(* The bounded event log loses nothing in silence and no wakeup, for every *)
(* capacity, every number of streams and producers and any events.         *)
(***************************************************************************)
EXTENDS EventLog, TLAPS

\* The empty log satisfies the invariant.
LEMMA InitLogInvariant == Init => LogInvariant
<1> SUFFICES ASSUME Init PROVE LogInvariant
  OBVIOUS
<1> USE CapacityAssumption DEF Init
<1>1. TypeOK
  <2>1. <<>> \in Seq(Events) /\ <<>> \in Seq(Events \cup {Missed})
    OBVIOUS
  <2>2. received \in [Streams -> Seq(Events \cup {Missed})]
    BY <2>1
  <2>3. reader \in [Streams -> ReaderState] /\ cursor \in [Streams -> Nat]
    BY DEF ReaderState
  <2> QED
    BY <2>1, <2>2, <2>3 DEF TypeOK
<1>2. WindowRetained
  BY DEF WindowRetained
<1>3. StreamExact
  BY DEF StreamExact
<1>4. NoLostWakeup /\ ClosedInThePast /\ EndAfterClose
  BY DEF NoLostWakeup, ClosedInThePast, EndAfterClose
<1> QED
  BY <1>1, <1>2, <1>3, <1>4 DEF LogInvariant

\* A push keeps the newest events under their numbers and disturbs no stream.
LEMMA PushEffect ==
  ASSUME LogInvariant, NEW p \in Producers, NEW e \in Events, Push(p, e)
  PROVE  LogInvariant'
<1> USE CapacityAssumption DEF LogInvariant
<1>1. TypeOK'
  <2>1. events' \in Seq(Events)
    <3>1. CASE Len(events) = Capacity
      <4>1. events # <<>>
        BY <3>1 DEF TypeOK
      <4>2. Tail(events) \in Seq(Events)
        BY <4>1 DEF TypeOK
      <4> QED
        BY <3>1, <4>2 DEF Push
    <3>2. CASE Len(events) # Capacity
      <4>1. events' = Append(events, e)
        BY <3>2 DEF Push
      <4> QED
        BY <4>1 DEF TypeOK
    <3> QED
      BY <3>1, <3>2
  <2>2. first_sequence' \in Nat /\ next_sequence' \in Nat
    BY DEF TypeOK, Push
  <2>3. pushed' \in Seq(Events)
    BY DEF TypeOK, Push
  <2> QED
    BY <2>1, <2>2, <2>3 DEF TypeOK, Push
<1>2. pushed' = Append(pushed, e) /\ Len(pushed') = Len(pushed) + 1
  BY DEF TypeOK, Push
<1>3. \A i \in 1..Len(pushed) : pushed'[i] = pushed[i]
  BY <1>2 DEF TypeOK
<1>4. pushed'[Len(pushed) + 1] = e
  BY <1>2 DEF TypeOK
<1>5. WindowRetained'
  <2>1. CASE Len(events) = Capacity
    <3>1. /\ events' = Append(Tail(events), e)
          /\ first_sequence' = first_sequence + 1
          /\ next_sequence' = next_sequence + 1
      BY <2>1 DEF Push
    <3>2. Len(events') = Capacity
      BY <2>1, <3>1 DEF TypeOK
    <3>3. first_sequence + Capacity = Len(pushed)
      BY <2>1 DEF WindowRetained, TypeOK
    <3>4. \A i \in 1..Capacity - 1 : events'[i] = events[i + 1]
      BY <2>1, <3>1 DEF TypeOK
    <3>5. events'[Capacity] = e
      BY <2>1, <3>1 DEF TypeOK
    <3>6. \A i \in 1..Capacity - 1 : events'[i] = pushed'[first_sequence + 1 + i]
      <4> SUFFICES ASSUME NEW i \in 1..Capacity - 1
                   PROVE  events'[i] = pushed'[first_sequence + 1 + i]
        OBVIOUS
      <4>1. i + 1 \in DOMAIN events /\ first_sequence + (i + 1) \in 1..Len(pushed)
        BY <2>1, <3>3 DEF TypeOK
      <4>2. events[i + 1] = pushed[first_sequence + (i + 1)]
        BY <4>1 DEF WindowRetained
      <4>3. first_sequence + (i + 1) = first_sequence + 1 + i
        BY DEF TypeOK
      <4> QED
        BY <4>1, <4>2, <4>3, <3>4, <1>3
    <3>7. events'[Capacity] = pushed'[first_sequence + 1 + Capacity]
      <4>1. first_sequence + 1 + Capacity = Len(pushed) + 1
        BY <3>3, CapacityAssumption DEF TypeOK
      <4> QED
        BY <4>1, <3>5, <1>4
    <3>8. \A i \in 1..Capacity : events'[i] = pushed'[first_sequence' + i]
      <4> SUFFICES ASSUME NEW i \in 1..Capacity
                   PROVE  events'[i] = pushed'[first_sequence + 1 + i]
        BY <3>1
      <4>1. i \in 1..Capacity - 1 \/ i = Capacity
        OBVIOUS
      <4> QED
        BY <4>1, <3>6, <3>7
    <3>9. DOMAIN events' = 1..Capacity
      BY <3>2, <1>1 DEF TypeOK
    <3>10. next_sequence' = Len(pushed')
      BY <3>1, <1>2 DEF WindowRetained
    <3>11. /\ first_sequence' = IF Len(pushed') <= Capacity THEN 0
                                ELSE Len(pushed') - Capacity
           /\ Len(events') = next_sequence' - first_sequence'
      BY <3>1, <3>2, <3>3, <3>10, <1>2 DEF TypeOK
    <3> QED
      BY <3>8, <3>9, <3>10, <3>11 DEF WindowRetained
  <2>2. CASE Len(events) # Capacity
    <3>1. /\ events' = Append(events, e)
          /\ first_sequence' = first_sequence
          /\ next_sequence' = next_sequence + 1
      BY <2>2 DEF Push
    <3>2. first_sequence = 0 /\ Len(events) = Len(pushed) /\ Len(pushed) < Capacity
      BY <2>2 DEF WindowRetained, TypeOK
    <3>3. Len(events') = Len(pushed) + 1 /\ DOMAIN events' = 1..Len(pushed) + 1
      BY <3>1, <3>2 DEF TypeOK
    <3>4. \A i \in 1..Len(pushed) : events'[i] = pushed'[i]
      BY <3>1, <3>2, <1>3 DEF WindowRetained, TypeOK
    <3>5. events'[Len(pushed) + 1] = pushed'[Len(pushed) + 1]
      BY <3>1, <3>2, <1>4 DEF TypeOK
    <3>6. \A i \in 1..Len(pushed) + 1 : events'[i] = pushed'[0 + i]
      BY <3>4, <3>5 DEF TypeOK
    <3>7. next_sequence' = Len(pushed')
      BY <3>1, <1>2 DEF WindowRetained
    <3>8. /\ first_sequence' = IF Len(pushed') <= Capacity THEN 0
                               ELSE Len(pushed') - Capacity
          /\ Len(events') = next_sequence' - first_sequence'
      BY <3>1, <3>2, <3>3, <3>7, <1>2 DEF TypeOK
    <3>9. \A i \in DOMAIN events' : events'[i] = pushed'[first_sequence' + i]
      BY <3>1, <3>2, <3>3, <3>6
    <3> QED
      BY <3>7, <3>8, <3>9 DEF WindowRetained
  <2> QED
    BY <2>1, <2>2
<1>6. StreamExact'
  <2> SUFFICES ASSUME NEW s \in Streams
               PROVE  /\ Len(received[s]) = cursor[s]
                      /\ cursor[s] <= Len(pushed')
                      /\ \A i \in DOMAIN received[s] : received[s][i] \in {pushed'[i], Missed}
    BY DEF StreamExact, Push
  <2>1. Len(received[s]) = cursor[s] /\ cursor[s] <= Len(pushed)
    BY DEF StreamExact
  <2>2. received[s] \in Seq(Events \cup {Missed})
    BY DEF TypeOK
  <2>3. DOMAIN received[s] = 1..Len(received[s])
    BY <2>2
  <2>4. \A i \in DOMAIN received[s] : i \in 1..Len(pushed)
    BY <2>1, <2>3 DEF TypeOK
  <2>5. \A i \in DOMAIN received[s] : received[s][i] \in {pushed[i], Missed}
    BY DEF StreamExact
  <2> QED
    BY <2>1, <2>4, <2>5, <1>2, <1>3 DEF TypeOK
<1>7. NoLostWakeup'
  BY DEF NoLostWakeup, Push
<1>8. ClosedInThePast'
  BY <1>2 DEF ClosedInThePast, Push, TypeOK
<1>9. EndAfterClose'
  BY DEF EndAfterClose, Push
<1> QED
  BY <1>1, <1>5, <1>6, <1>7, <1>8, <1>9

\* What a stream does to the log: nothing.
LEMMA LogUntouched ==
  ASSUME LogInvariant, UNCHANGED logVars
  PROVE  WindowRetained' /\ ClosedInThePast'
BY DEF LogInvariant, WindowRetained, ClosedInThePast, logVars

\* A step of one stream that leaves what it received alone, keeps StreamExact.
LEMMA NothingRead ==
  ASSUME LogInvariant, UNCHANGED <<pushed, cursor, received>>
  PROVE  StreamExact'
BY DEF LogInvariant, StreamExact

\* A stream that fell behind is told exactly how far.
LEMMA ReadResyncEffect ==
  ASSUME LogInvariant, NEW s \in Streams, ReadResync(s)
  PROVE  LogInvariant'
<1> USE CapacityAssumption DEF LogInvariant
<1>1. Gap(s) \in Nat /\ cursor[s] + Gap(s) = first_sequence
  BY DEF TypeOK, ReadResync, Gap
<1> DEFINE skip == [i \in 1..Gap(s) |-> Missed]
<1>2. skip \in Seq(Events \cup {Missed}) /\ Len(skip) = Gap(s)
  BY <1>1
<1>3. received[s] \in Seq(Events \cup {Missed}) /\ Len(received[s]) = cursor[s]
  BY DEF TypeOK, StreamExact
<1>4. \A i \in 1..Gap(s) : skip[i] = Missed
  OBVIOUS
<1> HIDE DEF skip
<1> DEFINE next == received[s] \o skip
<1>5. next \in Seq(Events \cup {Missed}) /\ Len(next) = first_sequence
  <2>1. /\ next \in Seq(Events \cup {Missed})
        /\ Len(next) = Len(received[s]) + Len(skip)
    BY <1>2, <1>3
  <2> QED
    BY <2>1, <1>1, <1>2, <1>3
<1>6. \A i \in 1..first_sequence :
         next[i] = IF i <= Len(received[s]) THEN received[s][i]
                   ELSE skip[i - Len(received[s])]
  BY <1>1, <1>2, <1>3 DEF TypeOK
<1>7. \A i \in 1..first_sequence : next[i] \in {pushed[i], Missed}
  <2> SUFFICES ASSUME NEW i \in 1..first_sequence PROVE next[i] \in {pushed[i], Missed}
    OBVIOUS
  <2>1. CASE i <= Len(received[s])
    <3>1. next[i] = received[s][i] /\ i \in DOMAIN received[s]
      BY <2>1, <1>3, <1>6 DEF TypeOK
    <3> QED
      BY <3>1 DEF StreamExact
  <2>2. CASE ~(i <= Len(received[s]))
    <3>1. i - Len(received[s]) \in 1..Gap(s)
      BY <2>2, <1>1, <1>3 DEF TypeOK
    <3>2. next[i] = skip[i - Len(received[s])]
      BY <2>2, <1>6
    <3> HIDE DEF next
    <3> QED
      BY <3>1, <3>2, <1>4
  <2> QED
    BY <2>1, <2>2
<1>8. /\ received' = [received EXCEPT ![s] = next]
      /\ cursor' = [cursor EXCEPT ![s] = first_sequence]
      /\ reader' = [reader EXCEPT ![s] = "idle"]
      /\ UNCHANGED <<logVars, notifying, notified>>
  BY DEF ReadResync, skip
<1> HIDE DEF next
<1>9. TypeOK'
  BY <1>5, <1>8 DEF TypeOK, ReaderState, logVars
<1>10. first_sequence <= Len(pushed)
  BY DEF WindowRetained, TypeOK
<1>11. StreamExact'
  <2> SUFFICES ASSUME NEW r \in Streams
               PROVE  /\ Len(received'[r]) = cursor'[r]
                      /\ cursor'[r] <= Len(pushed)
                      /\ \A i \in DOMAIN received'[r] :
                            received'[r][i] \in {pushed[i], Missed}
    BY <1>8 DEF StreamExact, logVars
  <2>1. CASE r = s
    <3>1. received'[r] = next /\ cursor'[r] = first_sequence
      BY <2>1, <1>8 DEF TypeOK
    <3>2. DOMAIN next = 1..first_sequence
      BY <1>5 DEF TypeOK
    <3> QED
      BY <3>1, <3>2, <1>5, <1>7, <1>10
  <2>2. CASE r # s
    <3>1. received'[r] = received[r] /\ cursor'[r] = cursor[r]
      BY <2>2, <1>8 DEF TypeOK
    <3> QED
      BY <3>1 DEF StreamExact
  <2> QED
    BY <2>1, <2>2
<1>12. NoLostWakeup'
  BY <1>8 DEF NoLostWakeup, TypeOK, logVars
<1>13. EndAfterClose'
  BY <1>8 DEF EndAfterClose, TypeOK, logVars
<1> QED
  BY <1>8, <1>9, <1>11, <1>12, <1>13, LogUntouched

\* A stream within the window is given the event of its number.
LEMMA ReadEventEffect ==
  ASSUME LogInvariant, NEW s \in Streams, ReadEvent(s)
  PROVE  LogInvariant'
<1> USE CapacityAssumption DEF LogInvariant
<1> DEFINE k == cursor[s] - first_sequence + 1
<1>1. k \in 1..Len(events) /\ first_sequence + k = cursor[s] + 1
  <2>1. /\ cursor[s] \in Nat /\ first_sequence \in Nat /\ next_sequence \in Nat
        /\ Len(events) = next_sequence - first_sequence
        /\ first_sequence <= cursor[s] /\ cursor[s] < next_sequence
    BY DEF TypeOK, ReadEvent, WindowRetained
  <2> QED
    BY <2>1
<1>2. events[k] = pushed[cursor[s] + 1] /\ events[k] \in Events
  <2>1. k \in DOMAIN events
    BY <1>1 DEF TypeOK
  <2>2. events[k] = pushed[first_sequence + k]
    BY <2>1 DEF WindowRetained
  <2> QED
    BY <1>1, <2>1, <2>2 DEF TypeOK
<1>3. /\ received' = [received EXCEPT ![s] = Append(@, events[k])]
      /\ cursor' = [cursor EXCEPT ![s] = @ + 1]
      /\ reader' = [reader EXCEPT ![s] = "idle"]
      /\ UNCHANGED <<logVars, notifying, notified>>
  BY DEF ReadEvent
<1> HIDE DEF k
<1>4. received[s] \in Seq(Events \cup {Missed}) /\ Len(received[s]) = cursor[s]
  BY DEF TypeOK, StreamExact
<1> DEFINE next == Append(received[s], events[k])
<1>5. /\ next \in Seq(Events \cup {Missed})
      /\ Len(next) = cursor[s] + 1
      /\ \A i \in 1..cursor[s] : next[i] = received[s][i]
      /\ next[cursor[s] + 1] = events[k]
  BY <1>2, <1>4 DEF TypeOK
<1>6. received' = [received EXCEPT ![s] = next]
  BY <1>3
<1> HIDE DEF next
<1>7. TypeOK'
  BY <1>3, <1>5, <1>6 DEF TypeOK, ReaderState, logVars
<1>8. cursor[s] + 1 <= Len(pushed)
  BY DEF ReadEvent, WindowRetained, TypeOK
<1>9. StreamExact'
  <2> SUFFICES ASSUME NEW r \in Streams
               PROVE  /\ Len(received'[r]) = cursor'[r]
                      /\ cursor'[r] <= Len(pushed)
                      /\ \A i \in DOMAIN received'[r] :
                            received'[r][i] \in {pushed[i], Missed}
    BY <1>3 DEF StreamExact, logVars
  <2>1. CASE r = s
    <3>1. received'[r] = next /\ cursor'[r] = cursor[s] + 1
      BY <2>1, <1>3, <1>6 DEF TypeOK
    <3>2. DOMAIN next = 1..cursor[s] + 1
      BY <1>5 DEF TypeOK
    <3>3. \A i \in 1..cursor[s] : next[i] \in {pushed[i], Missed}
      <4>1. \A i \in 1..cursor[s] : i \in DOMAIN received[s]
        BY <1>4 DEF TypeOK
      <4> QED
        BY <4>1, <1>5 DEF StreamExact
    <3>4. next[cursor[s] + 1] = pushed[cursor[s] + 1]
      BY <1>2, <1>5
    <3>5. \A i \in 1..cursor[s] + 1 : next[i] \in {pushed[i], Missed}
      BY <3>3, <3>4 DEF TypeOK
    <3> QED
      BY <3>1, <3>2, <3>5, <1>5, <1>8
  <2>2. CASE r # s
    <3>1. received'[r] = received[r] /\ cursor'[r] = cursor[r]
      BY <2>2, <1>3 DEF TypeOK
    <3> QED
      BY <3>1 DEF StreamExact
  <2> QED
    BY <2>1, <2>2
<1>10. NoLostWakeup'
  BY <1>3 DEF NoLostWakeup, TypeOK, logVars
<1>11. EndAfterClose'
  BY <1>3, <1>6 DEF EndAfterClose, TypeOK, logVars
<1> QED
  BY <1>3, <1>7, <1>9, <1>10, <1>11, LogUntouched

\* Every step preserves the invariant.
LEMMA NextLogInvariant == LogInvariant /\ [Next]_vars => LogInvariant'
<1> SUFFICES ASSUME LogInvariant, [Next]_vars PROVE LogInvariant'
  OBVIOUS
<1>1. ASSUME NEW p \in Producers, NEW e \in Events, Push(p, e) PROVE LogInvariant'
  BY <1>1, PushEffect
<1>2. ASSUME NEW p \in Producers, Close(p) PROVE LogInvariant'
  <2>1. TypeOK'
    BY <1>2 DEF LogInvariant, TypeOK, Close
  <2>2. WindowRetained' /\ StreamExact'
    BY <1>2 DEF LogInvariant, WindowRetained, StreamExact, Close
  <2>3. NoLostWakeup'
    BY <1>2 DEF LogInvariant, NoLostWakeup, Close
  <2>4. ClosedInThePast'
    BY <1>2 DEF LogInvariant, ClosedInThePast, WindowRetained, Close, TypeOK
  <2>5. EndAfterClose'
    BY <1>2 DEF LogInvariant, EndAfterClose, Close
  <2> QED
    BY <2>1, <2>2, <2>3, <2>4, <2>5 DEF LogInvariant
<1>3. ASSUME NEW p \in Producers, NotifyWaiters(p) PROVE LogInvariant'
  <2>1. TypeOK'
    BY <1>3 DEF LogInvariant, TypeOK, NotifyWaiters, logVars
  <2>2. StreamExact' /\ WindowRetained' /\ ClosedInThePast'
    BY <1>3, LogUntouched, NothingRead DEF NotifyWaiters, logVars
  <2>3. NoLostWakeup'
    BY <1>3 DEF LogInvariant, NoLostWakeup, NotifyWaiters, Listening, logVars
  <2>4. EndAfterClose'
    BY <1>3 DEF LogInvariant, EndAfterClose, NotifyWaiters, logVars
  <2> QED
    BY <2>1, <2>2, <2>3, <2>4 DEF LogInvariant
<1>4. ASSUME NEW s \in Streams, Arm(s) PROVE LogInvariant'
  <2>1. TypeOK'
    BY <1>4 DEF LogInvariant, TypeOK, Arm, ReaderState, logVars
  <2>2. StreamExact' /\ WindowRetained' /\ ClosedInThePast'
    BY <1>4, LogUntouched, NothingRead DEF Arm, logVars
  <2>3. NoLostWakeup' /\ EndAfterClose'
    BY <1>4 DEF LogInvariant, NoLostWakeup, EndAfterClose, Arm, TypeOK, logVars
  <2> QED
    BY <2>1, <2>2, <2>3 DEF LogInvariant
<1>5. ASSUME NEW s \in Streams, ReadResync(s) PROVE LogInvariant'
  BY <1>5, ReadResyncEffect
<1>6. ASSUME NEW s \in Streams, ReadEvent(s) PROVE LogInvariant'
  BY <1>6, ReadEventEffect
<1>7. ASSUME NEW s \in Streams, ReadEnd(s) PROVE LogInvariant'
  <2>1. TypeOK'
    BY <1>7 DEF LogInvariant, TypeOK, ReadEnd, ReaderState, logVars
  <2>2. StreamExact' /\ WindowRetained' /\ ClosedInThePast'
    BY <1>7, LogUntouched, NothingRead DEF ReadEnd, logVars
  <2>3. closed_at <= Len(received[s])
    BY <1>7 DEF LogInvariant, ClosedInThePast, WindowRetained, StreamExact, ReadEnd,
                NothingToRead, TypeOK
  <2>4. NoLostWakeup' /\ EndAfterClose'
    BY <1>7, <2>3 DEF LogInvariant, NoLostWakeup, EndAfterClose, ReadEnd, TypeOK, logVars
  <2> QED
    BY <2>1, <2>2, <2>4 DEF LogInvariant
<1>8. ASSUME NEW s \in Streams, ReadNothing(s) PROVE LogInvariant'
  <2>1. TypeOK'
    BY <1>8 DEF LogInvariant, TypeOK, ReadNothing, ReaderState, logVars
  <2>2. StreamExact' /\ WindowRetained' /\ ClosedInThePast'
    BY <1>8, LogUntouched, NothingRead DEF ReadNothing, logVars
  <2>3. NoLostWakeup' /\ EndAfterClose'
    BY <1>8 DEF LogInvariant, NoLostWakeup, EndAfterClose, ReadNothing, NothingToRead,
                TypeOK, logVars
  <2> QED
    BY <2>1, <2>2, <2>3 DEF LogInvariant
<1>9. ASSUME NEW s \in Streams, Await(s) \/ Cancel(s) PROVE LogInvariant'
  <2>1. TypeOK'
    BY <1>9 DEF LogInvariant, TypeOK, Await, Cancel, ReaderState, logVars
  <2>2. StreamExact' /\ WindowRetained' /\ ClosedInThePast'
    BY <1>9, LogUntouched, NothingRead DEF Await, Cancel, logVars
  <2>3. NoLostWakeup'
    <3>1. CASE Await(s)
      BY <3>1 DEF LogInvariant, NoLostWakeup, Await, TypeOK, logVars
    <3>2. CASE Cancel(s)
      BY <3>2 DEF LogInvariant, NoLostWakeup, Cancel, TypeOK, logVars
    <3> QED
      BY <1>9, <3>1, <3>2
  <2>4. EndAfterClose'
    BY <1>9 DEF LogInvariant, EndAfterClose, Await, Cancel, TypeOK, logVars
  <2> QED
    BY <2>1, <2>2, <2>3, <2>4 DEF LogInvariant
<1>10. CASE UNCHANGED vars
  BY <1>10 DEF vars, logVars, LogInvariant, TypeOK, WindowRetained, StreamExact,
               NoLostWakeup, ClosedInThePast, EndAfterClose
<1> QED
  BY <1>1, <1>2, <1>3, <1>4, <1>5, <1>6, <1>7, <1>8, <1>9, <1>10 DEF Next

\* The invariant holds in every reachable state.
LEMMA LogInvariantHolds == Spec => []LogInvariant
BY InitLogInvariant, NextLogInvariant, PTL DEF Spec

\* EventLog::push keeps the newest Capacity events under their sequence numbers.
THEOREM WindowTheorem == Spec => []WindowRetained
<1>1. LogInvariant => WindowRetained
  BY DEF LogInvariant
<1> QED
  BY <1>1, LogInvariantHolds, PTL

\* EventLog::next gives every stream each event once and in order, or accounts
\* for it in ResyncRequired.
THEOREM NoSilentLoss == Spec => []StreamExact
<1>1. LogInvariant => StreamExact
  BY DEF LogInvariant
<1> QED
  BY <1>1, LogInvariantHolds, PTL

\* EventLog::next makes its Notified future before it looks, so it never sleeps
\* through a push or a close.
THEOREM StreamWoken == Spec => []NoLostWakeup
<1>1. LogInvariant => NoLostWakeup
  BY DEF LogInvariant
<1> QED
  BY <1>1, LogInvariantHolds, PTL

\* EventLog::next returns None only after everything pushed before close.
THEOREM EndIsLast == Spec => []EndAfterClose
<1>1. LogInvariant => EndAfterClose
  BY DEF LogInvariant
<1> QED
  BY <1>1, LogInvariantHolds, PTL
=============================================================================
