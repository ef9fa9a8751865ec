------------------------ MODULE LaneSchedulingProofs ------------------------
(***************************************************************************)
(* Theorems about LaneScheduling, for every set of Threads, operations and *)
(* limits.                                                                 *)
(***************************************************************************)
EXTENDS LaneScheduling, ApplicationRuntimeProofs

-----------------------------------------------------------------------------
(* The inductive invariant *)

\* The empty runtime satisfies the invariant.
LEMMA InitLaneInvariant == Init => LaneInvariant
<1> SUFFICES ASSUME Init PROVE LaneInvariant
  OBVIOUS
<1> USE DEF Init, RuntimeInit
<1>1. TypeOK
  BY EmptySeq DEF TypeOK, RuntimeTypeOK, Signal, TurnPhase, TaskState
<1>2. \A l \in Lanes : DOMAIN cells[l] = {}
  OBVIOUS
<1>3. Placement /\ FrontSignalled
  BY <1>2 DEF Placement, FrontSignalled
<1>4. /\ TasksHoldLanes /\ AfterDrain /\ ForceAfterClose /\ GateHeld
      /\ NoAcceptanceAfterClose /\ LaneExclusive
  BY DEF TasksHoldLanes, AfterDrain, ForceAfterClose, GateHeld, NoAcceptanceAfterClose, LaneExclusive,
         Tracked, Operations
<1> QED
  BY <1>1, <1>3, <1>4 DEF LaneInvariant

\* Lane entries are operations.
LEMMA Entries ==
    ASSUME TypeOK, NEW l \in Lanes
    PROVE  /\ cells[l] \in Seq(Operations)
           /\ Len(cells[l]) \in Nat
           /\ DOMAIN cells[l] = 1..Len(cells[l])
           /\ \A i \in DOMAIN cells[l] : cells[l][i] \in Operations
<1>1. cells[l] \in Seq(Operations)
  BY DEF TypeOK, RuntimeTypeOK
<1> QED
  BY <1>1, LenProperties, ElementOfSeq

\* At most one spawned task of a lane has its signal: the front one.
LEMMA OneSignalled ==
    ASSUME LaneInvariant, ~drained,
           NEW op1 \in Operations, NEW op2 \in Operations,
           task[op1] \in Tracked, task[op2] \in Tracked,
           ready[op1] = "sent", ready[op2] = "sent",
           lane_of[op1] = lane_of[op2]
    PROVE  op1 = op2
<1> DEFINE l == lane_of[op1]
<1>1. /\ l \in Lanes
      /\ \E i \in DOMAIN cells[l] : cells[l][i] = op1
      /\ \E i \in DOMAIN cells[l] : cells[l][i] = op2
  BY DEF LaneInvariant, TasksHoldLanes
<1>2. \A i \in DOMAIN cells[l] : ready[cells[l][i]] = "sent" => i = 1
  BY <1>1 DEF LaneInvariant, FrontSignalled
<1> QED
  BY <1>1, <1>2

\* A step of one task that leaves the cells and the signals alone.
LEMMA TaskStep ==
    ASSUME LaneInvariant, NEW op \in Operations, NEW state \in TaskState,
           Goto(op, state),
           UNCHANGED <<open, cells, ready, lane_of, forced, drained>>,
           task[op] \in Tracked \cup {"aborted"} => state \in Tracked \cup {"aborted"},
           state \in Tracked => task[op] \in Tracked,
           state = "running" => task[op] = "queued" /\ ready[op] = "sent",
           state = "queued" => ~drained,
           TypeOK', GateHeld', NoAcceptanceAfterClose'
    PROVE  LaneInvariant'
<1>1. /\ task' = [task EXCEPT ![op] = state]
      /\ task \in [Operations -> TaskState]
      /\ TypeOK
  BY DEF Goto, LaneInvariant, TypeOK
<1>2. Placement'
  <2> SUFFICES ASSUME NEW l \in Lanes, NEW i \in DOMAIN cells[l]
               PROVE  /\ lane_of[cells[l][i]] = l
                      /\ task'[cells[l][i]] \in Tracked \cup {"aborted"}
                      /\ \A j \in DOMAIN cells[l] : cells[l][j] = cells[l][i] => j = i
    BY DEF Placement, Tracked
  <2>1. cells[l][i] \in Operations
    BY <1>1, Entries
  <2> QED
    BY <1>1, <2>1 DEF LaneInvariant, Placement
<1>3. FrontSignalled'
  BY DEF FrontSignalled, LaneInvariant
<1>4. TasksHoldLanes'
  BY <1>1 DEF TasksHoldLanes, Tracked, LaneInvariant
<1>5. AfterDrain' /\ ForceAfterClose'
  BY <1>1 DEF AfterDrain, ForceAfterClose, LaneInvariant
<1>6. LaneExclusive'
  <2> SUFFICES ASSUME NEW op1 \in Operations, NEW op2 \in Operations,
                      task'[op1] = "running", task'[op2] = "running",
                      lane_of[op1] = lane_of[op2]
               PROVE  op1 = op2
    BY DEF LaneExclusive
  <2>1. CASE task[op1] = "running" /\ task[op2] = "running"
    BY <2>1 DEF LaneInvariant, LaneExclusive
  <2>2. CASE ~(task[op1] = "running" /\ task[op2] = "running")
    <3>1. state = "running" /\ task[op] = "queued" /\ ready[op] = "sent"
      BY <1>1, <2>2
    <3>2. ~drained
      BY <3>1 DEF LaneInvariant, AfterDrain
    <3>3. /\ task[op1] \in Tracked /\ ready[op1] = "sent"
          /\ task[op2] \in Tracked /\ ready[op2] = "sent"
      BY <1>1, <3>1 DEF LaneInvariant, TasksHoldLanes, Tracked
    <3> QED
      BY <3>2, <3>3, OneSignalled
  <2> QED
    BY <2>1, <2>2
<1> QED
  BY <1>2, <1>3, <1>4, <1>5, <1>6 DEF LaneInvariant

\* Nobody who was not admitting before is admitting once admission is closed.
LEMMA GateClosed ==
    ASSUME LaneInvariant, GateHeld', Admitting' \subseteq Admitting, open' = open
    PROVE  NoAcceptanceAfterClose'
<1>1. \A t \in Turns : task'[t] = "reserved" => t \in Admitting'
  BY DEF Admitting, Operations
<1> QED
  BY <1>1 DEF NoAcceptanceAfterClose, GateHeld, LaneInvariant

\* Whoever holds the gate holds admission open, and the lanes.
LEMMA AdmittingOpen ==
    ASSUME LaneInvariant, NEW op \in Operations, task[op] \in {"admitted", "reserved"}
    PROVE  open /\ ~drained
<1>1. op \in Admitting
  BY DEF Admitting
<1> QED
  BY <1>1 DEF LaneInvariant, NoAcceptanceAfterClose, AfterDrain

\* ThreadCell::reserve on behalf of an operation that was not in a lane before.
LEMMA ReserveEffect ==
    ASSUME LaneInvariant, NEW op \in Operations, NEW lane \in Lanes, NEW durable,
           task[op] = "admitted",
           Reserve(lane, op, durable),
           Goto(op, "reserved"),
           lane_of' = [lane_of EXCEPT ![op] = lane],
           UNCHANGED <<open, forced, drained>>,
           activity_revision' \in Nat, turns' \in [Turns -> TurnPhase],
           closing' \in BOOLEAN,
           GateHeld'
    PROVE  LaneInvariant'
<1>1. /\ TypeOK
      /\ cells \in [Lanes -> Seq(Operations)]
      /\ ready \in [Operations -> Signal]
      /\ task \in [Operations -> TaskState]
      /\ lane_of \in [Operations -> Lanes \cup {None}]
      /\ task' = [task EXCEPT ![op] = "reserved"]
      /\ cells' = [cells EXCEPT ![lane] = Append(@, op)]
      /\ ready' = ReserveReady(cells[lane], ready, op)
  BY DEF LaneInvariant, TypeOK, RuntimeTypeOK, Goto, Reserve
<1>2. open /\ ~drained
  BY AdmittingOpen
<1>3. \A l \in Lanes : \A i \in DOMAIN cells[l] : cells[l][i] \in Operations \ {op}
  BY Entries, <1>1 DEF LaneInvariant, Placement, Tracked
<1>4. /\ ready' \in [Operations -> Signal]
      /\ \A o \in Operations \ {op} : ready'[o] = ready[o]
      /\ ready'[op] = IF Len(cells[lane]) = 0 THEN "sent" ELSE "waiting"
  <2>1. cells[lane] \in Seq(Operations)
    BY <1>1
  <2>2. /\ ReserveReady(cells[lane], ready, op) \in [Operations -> Signal]
        /\ \A o \in Operations \ {op} : ReserveReady(cells[lane], ready, op)[o] = ready[o]
        /\ ReserveReady(cells[lane], ready, op)[op] =
              IF Len(cells[lane]) = 0 THEN "sent" ELSE "waiting"
    BY <2>1, <1>1, ReserveReadyProperties
  <2> QED
    BY <2>2, <1>1
<1>5. /\ cells'[lane] \in Seq(Operations)
      /\ DOMAIN cells'[lane] = 1..(Len(cells[lane]) + 1)
      /\ \A i \in DOMAIN cells[lane] : cells'[lane][i] = cells[lane][i]
      /\ cells'[lane][Len(cells[lane]) + 1] = op
  BY <1>1, Entries, AppendProperties, LenProperties
<1>6. \A l \in Lanes \ {lane} : cells'[l] = cells[l]
  BY <1>1
<1>7. TypeOK'
  <2>1. accepted_operations' \in Nat /\ durable_accepted' \subseteq Operations
    BY DEF Reserve, LaneInvariant, TypeOK, RuntimeTypeOK
  <2>2. cells' \in [Lanes -> Seq(Operations)]
    BY <1>1, <1>5
  <2>3. task' \in [Operations -> TaskState] /\ lane_of' \in [Operations -> Lanes \cup {None}]
    BY <1>1 DEF TaskState
  <2>4. open' \in BOOLEAN /\ forced' \in BOOLEAN /\ drained' \in BOOLEAN
    BY DEF LaneInvariant, TypeOK, RuntimeTypeOK
  <2> QED
    BY <1>4, <2>1, <2>2, <2>3, <2>4 DEF TypeOK, RuntimeTypeOK
\* An entry of a cell is an old one at its old place, or the new one at the end.
<1>8. ASSUME NEW l \in Lanes, NEW i \in DOMAIN cells'[l]
      PROVE  \/ i \in DOMAIN cells[l] /\ cells'[l][i] = cells[l][i]
             \/ l = lane /\ i = Len(cells[lane]) + 1 /\ cells'[l][i] = op
  BY <1>5, <1>6, <1>1, Entries
<1>9. Placement'
  <2> SUFFICES ASSUME NEW l \in Lanes, NEW i \in DOMAIN cells'[l]
               PROVE  /\ lane_of'[cells'[l][i]] = l
                      /\ task'[cells'[l][i]] \in Tracked \cup {"aborted"}
                      /\ \A j \in DOMAIN cells'[l] : cells'[l][j] = cells'[l][i] => j = i
    BY DEF Placement, Tracked
  <2>1. CASE i \in DOMAIN cells[l] /\ cells'[l][i] = cells[l][i]
    BY <2>1, <1>1, <1>3, <1>8 DEF LaneInvariant, Placement
  <2>2. CASE l = lane /\ i = Len(cells[lane]) + 1 /\ cells'[l][i] = op
    BY <2>2, <1>1, <1>3, <1>8 DEF Tracked
  <2> QED
    BY <2>1, <2>2, <1>8
<1>10. FrontSignalled'
  <2> SUFFICES ASSUME NEW l \in Lanes, NEW i \in DOMAIN cells'[l]
               PROVE  ready'[cells'[l][i]] = IF i = 1 THEN "sent" ELSE "waiting"
    BY DEF FrontSignalled
  <2>1. CASE i \in DOMAIN cells[l] /\ cells'[l][i] = cells[l][i]
    BY <2>1, <1>3, <1>4 DEF LaneInvariant, FrontSignalled
  <2>2. CASE l = lane /\ i = Len(cells[lane]) + 1 /\ cells'[l][i] = op
    BY <2>2, <1>1, <1>4, Entries
  <2> QED
    BY <2>1, <2>2, <1>8
<1>11. TasksHoldLanes'
  <2> SUFFICES ASSUME NEW o \in Operations
               PROVE  /\ task'[o] \in Tracked =>
                            /\ lane_of'[o] \in Lanes
                            /\ ~drained' =>
                                  \E i \in DOMAIN cells'[lane_of'[o]] :
                                      cells'[lane_of'[o]][i] = o
                      /\ task'[o] = "running" => ready'[o] = "sent"
    BY DEF TasksHoldLanes, Tracked
  <2>1. CASE o = op
    <3>1. Len(cells[lane]) + 1 \in DOMAIN cells'[lane]
      BY <1>1, <1>5, Entries
    <3> QED
      BY <2>1, <3>1, <1>1, <1>5
  <2>2. CASE o # op
    <3>1. task'[o] = task[o] /\ lane_of'[o] = lane_of[o] /\ ready'[o] = ready[o]
      BY <2>2, <1>1, <1>4
    <3>2. \A l \in Lanes : \A i \in DOMAIN cells[l] :
              i \in DOMAIN cells'[l] /\ cells'[l][i] = cells[l][i]
      BY <1>1, <1>5, <1>6, Entries
    <3> QED
      BY <3>1, <3>2, <1>2 DEF LaneInvariant, TasksHoldLanes
  <2> QED
    BY <2>1, <2>2
<1>12. AfterDrain' /\ ForceAfterClose' /\ NoAcceptanceAfterClose'
  BY <1>2 DEF AfterDrain, ForceAfterClose, NoAcceptanceAfterClose, LaneInvariant
<1>13. LaneExclusive'
  BY <1>1 DEF LaneInvariant, LaneExclusive
<1> QED
  BY <1>7, <1>9, <1>10, <1>11, <1>12, <1>13 DEF LaneInvariant

\* ThreadCell::release on behalf of a spawned task that ends.
LEMMA ReleaseEffect ==
    ASSUME LaneInvariant, NEW op \in Operations,
           task[op] \in Tracked,
           Release(lane_of[op], op),
           Goto(op, "done"),
           UNCHANGED <<open, lane_of, forced, drained>>,
           activity_revision' \in Nat, durable_accepted' \subseteq Operations,
           turns' \in [Turns -> TurnPhase], closing' \in BOOLEAN,
           GateHeld'
    PROVE  LaneInvariant'
<1> DEFINE lane == lane_of[op]
           old == cells[lane]
           new == cells'[lane]
<1>1. /\ TypeOK
      /\ cells \in [Lanes -> Seq(Operations)]
      /\ ready \in [Operations -> Signal]
      /\ task \in [Operations -> TaskState]
      /\ lane \in Lanes
      /\ task' = [task EXCEPT ![op] = "done"]
      /\ cells' = [cells EXCEPT ![lane] = RemoveFirst(@, op)]
      /\ ready' = ReleaseReady(old, ready, op)
  BY DEF LaneInvariant, TypeOK, RuntimeTypeOK, TasksHoldLanes, Goto, Release
<1>2. /\ old \in Seq(Operations)
      /\ Len(old) \in Nat
      /\ DOMAIN old = 1..Len(old)
      /\ \A i \in DOMAIN old : old[i] \in Operations
  BY <1>1, Entries
<1>3. /\ new = RemoveFirst(old, op)
      /\ \A l \in Lanes \ {lane} : cells'[l] = cells[l]
  BY <1>1
<1>4. /\ ready' \in [Operations -> Signal]
      /\ \A o \in Operations :
            /\ o # op
            /\ ~(2 <= Len(old) /\ old[1] = op /\ o = old[2])
            => ready'[o] = ready[o]
      /\ (2 <= Len(old) /\ old[1] = op /\ old[2] # op /\ ready[old[2]] = "waiting")
         => ready'[old[2]] = "sent"
  <2> HIDE DEF old
  <2>1. /\ ReleaseReady(old, ready, op) \in [Operations -> Signal]
        /\ \A o \in Operations :
              /\ o # op
              /\ ~(2 <= Len(old) /\ old[1] = op /\ o = old[2])
              => ReleaseReady(old, ready, op)[o] = ready[o]
        /\ (2 <= Len(old) /\ old[1] = op /\ old[2] # op /\ ready[old[2]] = "waiting")
           => ReleaseReady(old, ready, op)[old[2]] = "sent"
    BY <1>1, <1>2, ReleaseReadyProperties
  <2> QED
    BY <1>1, <2>1
<1>5. NoAcceptanceAfterClose'
  <2>1. Admitting' \subseteq Admitting
    BY <1>1 DEF Admitting
  <2> QED
    BY <2>1, GateClosed
<1>6. LaneExclusive' /\ ForceAfterClose'
  BY <1>1 DEF LaneInvariant, LaneExclusive, ForceAfterClose
<1>7. ASSUME new \in Seq(Operations) PROVE TypeOK'
  <2>1. cells' \in [Lanes -> Seq(Operations)]
    BY <1>1, <1>7
  <2>2. accepted_operations' \in Nat
    BY <1>1 DEF Release, SaturatingPred, TypeOK, RuntimeTypeOK
  <2>3. task' \in [Operations -> TaskState]
    BY <1>1 DEF TaskState
  <2> QED
    BY <1>1, <1>4, <2>1, <2>2, <2>3 DEF TypeOK, RuntimeTypeOK
\* The lanes were dropped under the task.
<1>8. CASE drained
  <2>1. \A l \in Lanes : cells[l] = <<>>
    BY <1>8 DEF LaneInvariant, AfterDrain
  <2>2. old = <<>> /\ Len(old) = 0
    BY <1>1, <2>1, EmptySeq
  <2>3. new = <<>> /\ new \in Seq(Operations)
    <3>1. RemoveFirst(old, op) = old
      BY <2>2 DEF RemoveFirst
    <3> QED
      BY <1>2, <1>3, <2>2, <3>1
  <2>4. \A l \in Lanes : cells'[l] = <<>> /\ DOMAIN cells'[l] = {}
    BY <1>3, <2>1, <2>3
  <2>5. \A o \in Operations \ {op} : ready'[o] = ready[o]
    <3>1. ~(2 <= Len(old))
      BY <2>2
    <3> QED
      BY <1>4, <3>1
  <2>6. Placement' /\ FrontSignalled'
    BY <2>4 DEF Placement, FrontSignalled
  <2>7. TasksHoldLanes'
    BY <1>1, <1>8, <2>5 DEF LaneInvariant, TasksHoldLanes, Tracked
  <2>8. AfterDrain'
    BY <1>1, <2>4 DEF LaneInvariant, AfterDrain
  <2> QED
    BY <1>5, <1>6, <1>7, <2>3, <2>6, <2>7, <2>8 DEF LaneInvariant
\* The task leaves the one place it had.
<1>9. CASE ~drained
  <2>1. PICK k \in DOMAIN old : old[k] = op
    BY <1>9 DEF LaneInvariant, TasksHoldLanes
  <2>2. /\ \A i \in DOMAIN old : \A j \in DOMAIN old : old[j] = old[i] => j = i
        /\ \A i \in DOMAIN old : ready[old[i]] = IF i = 1 THEN "sent" ELSE "waiting"
    BY <1>1 DEF LaneInvariant, Placement, FrontSignalled
  <2>3. /\ new \in Seq(Operations)
        /\ Len(new) = Len(old) - 1
        /\ \A i \in 1..(Len(old) - 1) : new[i] = IF i < k THEN old[i] ELSE old[i + 1]
    <3> HIDE DEF old
    <3>1. k \in 1..Len(old) /\ \A i \in 1..Len(old) : old[i] = old[k] => i = k
      BY <1>2, <2>1, <2>2
    <3>2. /\ RemoveFirst(old, old[k]) \in Seq(Operations)
          /\ Len(RemoveFirst(old, old[k])) = Len(old) - 1
          /\ \A i \in 1..(Len(old) - 1) :
                RemoveFirst(old, old[k])[i] = IF i < k THEN old[i] ELSE old[i + 1]
      BY <1>2, <3>1, RemoveFirstUnique
    <3> QED
      BY <1>3, <2>1, <3>2
  <2>4. DOMAIN new = 1..(Len(old) - 1)
    BY <2>3, LenProperties
  \* Where an entry of the lane was before ...
  <2>5. ASSUME NEW i \in DOMAIN new
        PROVE  \E j \in DOMAIN old :
                  /\ j = IF i < k THEN i ELSE i + 1
                  /\ new[i] = old[j]
                  /\ old[j] # op
    <3> DEFINE a == IF i < k THEN i ELSE i + 1
    <3>1. a \in DOMAIN old /\ a # k
      BY <1>2, <2>1, <2>4
    <3>2. new[i] = old[a]
      BY <2>3, <2>4
    <3>3. old[a] # op
      BY <2>1, <2>2, <3>1
    <3> QED
      BY <3>1, <3>2, <3>3
  \* ... and which signals the release changes.
  <2>6. \A o \in Operations : o # op /\ ~(k = 1 /\ 2 \in DOMAIN old /\ o = old[2])
                                => ready'[o] = ready[o]
    <3>1. old[1] = op => k = 1
      BY <1>2, <2>1, <2>2
    <3> QED
      BY <1>2, <1>4, <2>1, <3>1
  <2>7. k = 1 /\ 2 \in DOMAIN old => ready'[old[2]] = "sent"
    BY <1>2, <1>4, <2>1, <2>2
  <2>8. \A l \in Lanes \ {lane} : \A i \in DOMAIN cells[l] :
            /\ cells[l][i] \in Operations \ {op}
            /\ ready'[cells[l][i]] = ready[cells[l][i]]
    <3> SUFFICES ASSUME NEW l \in Lanes \ {lane}, NEW i \in DOMAIN cells[l]
                 PROVE  /\ cells[l][i] \in Operations \ {op}
                        /\ ready'[cells[l][i]] = ready[cells[l][i]]
      OBVIOUS
    <3>1. cells[l][i] \in Operations /\ lane_of[cells[l][i]] = l
      BY <1>1, Entries DEF LaneInvariant, Placement
    <3>2. 2 \in DOMAIN old => lane_of[old[2]] = lane
      BY <1>1 DEF LaneInvariant, Placement
    <3> QED
      BY <2>6, <3>1, <3>2
  <2>9. Placement'
    <3> SUFFICES ASSUME NEW l \in Lanes, NEW i \in DOMAIN cells'[l]
                 PROVE  /\ lane_of[cells'[l][i]] = l
                        /\ task'[cells'[l][i]] \in Tracked \cup {"aborted"}
                        /\ \A j \in DOMAIN cells'[l] : cells'[l][j] = cells'[l][i] => j = i
      BY DEF Placement, Tracked
    <3>1. CASE l = lane
      <4>1. PICK a \in DOMAIN old : /\ a = IF i < k THEN i ELSE i + 1
                                    /\ new[i] = old[a]
                                    /\ old[a] # op
        BY <3>1, <2>5
      <4>2. lane_of[new[i]] = l /\ task'[new[i]] \in Tracked \cup {"aborted"}
        BY <1>1, <1>2, <3>1, <4>1 DEF LaneInvariant, Placement
      <4>3. ASSUME NEW j \in DOMAIN new, new[j] = new[i] PROVE j = i
        <5>1. PICK b \in DOMAIN old : b = (IF j < k THEN j ELSE j + 1) /\ new[j] = old[b]
          BY <2>5
        <5>2. a = b
          BY <2>2, <4>1, <4>3, <5>1
        <5> QED
          BY <1>2, <2>1, <2>4, <3>1, <4>1, <5>1, <5>2
      <4> QED
        BY <3>1, <4>2, <4>3
    <3>2. CASE l # lane
      BY <3>2, <1>1, <1>3, <2>8 DEF LaneInvariant, Placement
    <3> QED
      BY <3>1, <3>2
  <2>10. FrontSignalled'
    <3> SUFFICES ASSUME NEW l \in Lanes, NEW i \in DOMAIN cells'[l]
                 PROVE  ready'[cells'[l][i]] = IF i = 1 THEN "sent" ELSE "waiting"
      BY DEF FrontSignalled
    <3>1. CASE l = lane
      <4>1. PICK a \in DOMAIN old : /\ a = IF i < k THEN i ELSE i + 1
                                    /\ new[i] = old[a]
                                    /\ old[a] # op
        BY <3>1, <2>5
      <4>2. i \in Nat /\ 1 <= i /\ k \in Nat /\ 1 <= k
        BY <1>2, <2>1, <2>4, <3>1
      <4>3. CASE k = 1 /\ i = 1
        BY <2>7, <3>1, <4>1, <4>3
      <4>4. CASE k = 1 /\ i # 1
        <5>1. a = i + 1 /\ a # 2 /\ a # 1
          BY <4>1, <4>2, <4>4
        <5>2. ready'[old[a]] = ready[old[a]]
          BY <1>2, <2>2, <2>6, <4>1, <5>1
        <5> QED
          BY <2>2, <3>1, <4>1, <4>4, <5>1, <5>2
      <4>5. CASE k # 1
        <5>1. ready'[old[a]] = ready[old[a]]
          BY <1>2, <2>6, <4>1, <4>5
        <5>2. a = 1 <=> i = 1
          BY <4>1, <4>2, <4>5
        <5> QED
          BY <2>2, <3>1, <4>1, <5>1, <5>2
      <4> QED
        BY <4>3, <4>4, <4>5
    <3>2. CASE l # lane
      BY <3>2, <1>1, <1>3, <2>8 DEF LaneInvariant, FrontSignalled
    <3> QED
      BY <3>1, <3>2
  <2>11. TasksHoldLanes'
    <3> SUFFICES ASSUME NEW o \in Operations
                 PROVE  /\ task'[o] \in Tracked =>
                              /\ lane_of[o] \in Lanes
                              /\ \E i \in DOMAIN cells'[lane_of[o]] :
                                     cells'[lane_of[o]][i] = o
                        /\ task'[o] = "running" => ready'[o] = "sent"
      BY DEF TasksHoldLanes, Tracked
    <3>1. CASE o = op
      BY <1>1, <3>1 DEF Tracked
    <3>2. CASE o # op
      <4>1. task'[o] = task[o]
        BY <1>1, <3>2
      <4>2. ASSUME task[o] \in Tracked
            PROVE  /\ lane_of[o] \in Lanes
                   /\ \E i \in DOMAIN cells'[lane_of[o]] : cells'[lane_of[o]][i] = o
        <5>1. PICK b \in DOMAIN cells[lane_of[o]] : cells[lane_of[o]][b] = o
          BY <1>9, <4>2 DEF LaneInvariant, TasksHoldLanes
        <5>2. lane_of[o] \in Lanes
          BY <4>2 DEF LaneInvariant, TasksHoldLanes
        <5>3. CASE lane_of[o] # lane
          BY <1>3, <5>1, <5>2, <5>3
        <5>4. CASE lane_of[o] = lane
          <6>1. b # k /\ b \in 1..Len(old) /\ k \in 1..Len(old)
            BY <1>2, <2>1, <3>2, <5>1, <5>4
          <6>2. CASE b < k
            <7>1. b \in DOMAIN new /\ new[b] = old[b]
              BY <1>2, <2>3, <2>4, <6>1, <6>2
            <7> QED
              BY <5>1, <5>2, <5>4, <7>1
          <6>3. CASE ~(b < k)
            <7>1. b - 1 \in 1..(Len(old) - 1) /\ ~(b - 1 < k) /\ (b - 1) + 1 = b
              BY <1>2, <6>1, <6>3
            <7>2. b - 1 \in DOMAIN new /\ new[b - 1] = old[b]
              BY <2>3, <2>4, <7>1
            <7> QED
              BY <5>1, <5>2, <5>4, <7>2
          <6> QED
            BY <6>2, <6>3
        <5> QED
          BY <5>3, <5>4
      <4>3. ASSUME task[o] = "running" PROVE ready'[o] = "sent"
        <5>1. ready[o] = "sent"
          BY <4>3 DEF LaneInvariant, TasksHoldLanes
        <5> QED
          BY <2>2, <2>6, <3>2, <5>1
      <4> QED
        BY <4>1, <4>2, <4>3
    <3> QED
      BY <3>1, <3>2
  <2>12. AfterDrain'
    BY <1>9 DEF AfterDrain
  <2> QED
    BY <1>5, <1>6, <1>7, <2>3, <2>9, <2>10, <2>11, <2>12 DEF LaneInvariant
<1> QED
  BY <1>8, <1>9

\* take_turn_slots once the tracked tasks are gone.
LEMMA DrainEffect ==
    ASSUME LaneInvariant, Drain
    PROVE  LaneInvariant'
<1>1. /\ TypeOK
      /\ ~open /\ open' = open
      /\ task' = task /\ lane_of' = lane_of
      /\ drained' = TRUE
      /\ cells' = [l \in Lanes |-> <<>>]
      /\ turns' = [t \in Turns |-> "absent"]
      /\ ready' = [op \in Operations |->
                      IF ready[op] = "waiting" THEN "dropped" ELSE ready[op]]
  BY DEF Drain, TakeTurnSlots, LaneInvariant
<1>2. \A op \in Operations : task[op] \notin Tracked \/ task[op] = "running"
  BY DEF Drain
<1>3. TypeOK'
  BY <1>1, EmptySeq DEF Drain, TakeTurnSlots, TypeOK, RuntimeTypeOK, Signal, TurnPhase
<1>4. Placement' /\ FrontSignalled'
  <2>1. \A l \in Lanes : DOMAIN cells'[l] = {}
    BY <1>1
  <2> QED
    BY <2>1 DEF Placement, FrontSignalled
<1>5. TasksHoldLanes'
  BY <1>1 DEF TasksHoldLanes, Tracked, LaneInvariant
<1>6. AfterDrain'
  BY <1>1, <1>2 DEF AfterDrain, Tracked
<1>7. GateHeld'
  BY <1>1 DEF GateHeld
<1>8. NoAcceptanceAfterClose'
  <2>1. Admitting' = Admitting
    BY <1>1 DEF Admitting
  <2> QED
    BY <1>1, <1>7, <2>1, GateClosed
<1>9. LaneExclusive' /\ ForceAfterClose'
  BY <1>1 DEF LaneExclusive, ForceAfterClose, LaneInvariant
<1> QED
  BY <1>3, <1>4, <1>5, <1>6, <1>7, <1>8, <1>9 DEF LaneInvariant

\* A step that leaves the tasks and the lanes alone.
LEMMA LanesUntouched ==
    ASSUME LaneInvariant, UNCHANGED <<cells, ready, task, lane_of, drained>>,
           TypeOK', GateHeld', NoAcceptanceAfterClose', ForceAfterClose', open' => open
    PROVE  LaneInvariant'
<1>1. Placement' /\ FrontSignalled' /\ TasksHoldLanes' /\ LaneExclusive'
  BY DEF LaneInvariant, Placement, FrontSignalled, TasksHoldLanes, LaneExclusive, Tracked
<1>2. AfterDrain'
  BY DEF LaneInvariant, AfterDrain
<1> QED
  BY <1>1, <1>2 DEF LaneInvariant

\* The kinds of operation in terms of their union.
LEMMA Kinds ==
    /\ Turns \subseteq Operations
    /\ Threads \subseteq Lanes
    /\ ApplicationLane \in Lanes
    /\ \A op \in Operations : Targets(op) \subseteq Lanes
  BY DEF Operations, Lanes, Targets

\* A step of one task that leaves the whole runtime alone.
LEMMA RuntimeUntouched ==
    ASSUME LaneInvariant, NEW op \in Operations, NEW state \in TaskState,
           Goto(op, state),
           UNCHANGED <<runtimeVars, lane_of, closing, forced, drained>>,
           task[op] \in Tracked \cup {"aborted"} => state \in Tracked \cup {"aborted"},
           state \in Tracked => task[op] \in Tracked,
           state = "running" => task[op] = "queued" /\ ready[op] = "sent",
           state = "queued" => ~drained,
           state = "admitted" => open,
           state # "reserved",
           task[op] = "reserved" => op \notin Turns
    PROVE  LaneInvariant'
<1>1. /\ task' = [task EXCEPT ![op] = state]
      /\ task \in [Operations -> TaskState]
      /\ turns' = turns /\ open' = open
      /\ UNCHANGED <<open, cells, ready, lane_of, forced, drained>>
  BY DEF Goto, LaneInvariant, TypeOK, runtimeVars
<1>2. TypeOK'
  BY <1>1 DEF LaneInvariant, TypeOK, RuntimeTypeOK, runtimeVars
<1>3. GateHeld'
  BY <1>1, Kinds DEF LaneInvariant, GateHeld
<1>4. NoAcceptanceAfterClose'
  <2>1. CASE open
    BY <1>1, <2>1 DEF NoAcceptanceAfterClose
  <2>2. CASE ~open
    <3>1. Admitting' \subseteq Admitting
      BY <1>1, <2>2 DEF Admitting
    <3> QED
      BY <1>1, <1>3, <3>1, GateClosed
  <2> QED
    BY <2>1, <2>2
<1> QED
  BY <1>1, <1>2, <1>3, <1>4, TaskStep

\* A Turn that leaves its lane with its slot settled one way or the other.
LEMMA SettleEffect ==
    ASSUME LaneInvariant, NEW t \in Turns, NEW retained \in BOOLEAN,
           task[t] \in Tracked,
           SettleTurn(lane_of[t], t, retained),
           Goto(t, "done"),
           UNCHANGED <<lane_of, closing, forced, drained>>
    PROVE  LaneInvariant'
<1>1. /\ TypeOK /\ t \in Operations
      /\ task' = [task EXCEPT ![t] = "done"]
      /\ task \in [Operations -> TaskState]
      /\ turns \in [Turns -> TurnPhase]
      /\ turns' = [turns EXCEPT ![t] =
                      IF ~retained THEN "absent"
                      ELSE IF @ = "absent" THEN @ ELSE "pendingTerminal"]
  BY Kinds DEF LaneInvariant, TypeOK, RuntimeTypeOK, Goto, SettleTurn
<1>2. activity_revision' \in Nat
  BY <1>1, RecordActivityType DEF SettleTurn, TypeOK, RuntimeTypeOK
<1>3. turns' \in [Turns -> TurnPhase] /\ turns'[t] # "pendingAcceptance"
  BY <1>1 DEF TurnPhase
<1>4. GateHeld'
  BY <1>1, <1>3, Kinds DEF LaneInvariant, GateHeld
<1>5. /\ Release(lane_of[t], t)
      /\ open' = open
      /\ durable_accepted' \subseteq Operations
      /\ closing' \in BOOLEAN
  BY <1>1 DEF SettleTurn, TypeOK, RuntimeTypeOK
<1> QED
  BY <1>1, <1>2, <1>3, <1>4, <1>5, ReleaseEffect

\* A mutation or an Application operation that drops its reservation.
LEMMA FinishEffect ==
    ASSUME LaneInvariant, NEW op \in Operations \ Turns,
           task[op] \in Tracked,
           FinishOperation(lane_of[op], op),
           Goto(op, "done"),
           UNCHANGED <<lane_of, closing, forced, drained>>
    PROVE  LaneInvariant'
<1>1. /\ TypeOK
      /\ task' = [task EXCEPT ![op] = "done"]
      /\ task \in [Operations -> TaskState]
      /\ turns' = turns
      /\ Release(lane_of[op], op)
      /\ UNCHANGED <<open, activity_revision, durable_accepted>>
  BY DEF LaneInvariant, TypeOK, Goto, FinishOperation
<1>2. GateHeld'
  BY <1>1, Kinds DEF LaneInvariant, GateHeld
<1>3. /\ activity_revision' \in Nat /\ durable_accepted' \subseteq Operations
      /\ turns' \in [Turns -> TurnPhase] /\ closing' \in BOOLEAN
  BY <1>1 DEF TypeOK, RuntimeTypeOK
<1> QED
  BY <1>1, <1>2, <1>3, ReleaseEffect

\* Every step preserves the invariant.
LEMMA NextLaneInvariant == LaneInvariant /\ [Next]_vars => LaneInvariant'
<1> SUFFICES ASSUME LaneInvariant, [Next]_vars PROVE LaneInvariant'
  OBVIOUS
<1> USE Kinds
<1>1. TypeOK /\ GateHeld /\ NoAcceptanceAfterClose /\ AfterDrain /\ ForceAfterClose
  BY DEF LaneInvariant
<1>2. ASSUME NEW op \in Operations, BeginAdmission(op) PROVE LaneInvariant'
  <2>1. (IF open THEN "admitted" ELSE "done") \in TaskState
    BY DEF TaskState
  <2> QED
    BY <1>2, <2>1, RuntimeUntouched DEF BeginAdmission, Tracked
<1>3. ASSUME NEW op \in Operations, NEW lane \in Targets(op), ReserveStep(op, lane)
      PROVE  LaneInvariant'
  <2>1. PICK durable \in BOOLEAN :
           /\ Reserve(IF op \in ApplicationOperations THEN ApplicationLane ELSE lane,
                      op, durable)
           /\ UNCHANGED <<open, activity_revision>>
           /\ \/ op \in Turns /\ turns' = [turns EXCEPT ![op] = "pendingAcceptance"]
              \/ op \notin Turns /\ turns' = turns
    BY <1>3, OperationKindsDisjoint DEF ReserveStep, ReserveLane, RegisterTurn,
       ReserveMutation, ReserveIdleMutation, ReserveApplicationOperation, ReserveOperation
  <2>2. /\ Reserve(lane, op, durable)
        /\ task[op] = "admitted" /\ Goto(op, "reserved")
        /\ lane_of' = [lane_of EXCEPT ![op] = lane]
        /\ UNCHANGED <<open, forced, drained>>
        /\ activity_revision' \in Nat /\ closing' \in BOOLEAN
    BY <1>1, <1>3, <2>1 DEF ReserveStep, Targets, TypeOK, RuntimeTypeOK
  <2>3. turns' \in [Turns -> TurnPhase]
    BY <1>1, <2>1 DEF TypeOK, RuntimeTypeOK, TurnPhase
  <2>4. GateHeld'
    BY <1>1, <2>1, <2>2 DEF GateHeld, Goto, TypeOK, RuntimeTypeOK
  <2> QED
    BY <2>2, <2>3, <2>4, ReserveEffect
<1>4. ASSUME NEW op \in Operations, GiveUpAdmission(op) PROVE LaneInvariant'
  <2>1. "done" \in TaskState
    BY DEF TaskState
  <2> QED
    BY <1>4, <2>1, RuntimeUntouched DEF GiveUpAdmission, Tracked
<1>5. ASSUME NEW op \in Operations, DropAdmission(op) PROVE LaneInvariant'
  <2>1. "queued" \in TaskState
    BY DEF TaskState
  <2>2. ~drained
    BY <1>5, AdmittingOpen DEF DropAdmission
  <2> QED
    BY <1>5, <2>1, <2>2, RuntimeUntouched DEF DropAdmission, Tracked
<1>6. ASSUME NEW op \in Operations, StartExecution(op) PROVE LaneInvariant'
  <2>1. "running" \in TaskState
    BY DEF TaskState
  <2> QED
    BY <1>6, <2>1, RuntimeUntouched DEF StartExecution, Tracked
<1>7. ASSUME NEW op \in Operations, FinishExecution(op) PROVE LaneInvariant'
  BY <1>7, FinishEffect DEF FinishExecution, Tracked
<1>8. ASSUME NEW op \in Operations, AbortOperation(op) PROVE LaneInvariant'
  BY <1>8, FinishEffect DEF AbortOperation
<1>9. ASSUME NEW t \in Turns, AcceptTurn(t) PROVE LaneInvariant'
  <2>1. /\ task[t] = "reserved" /\ Goto(t, "queued")
        /\ MarkTurnAccepted(lane_of[t], t)
        /\ UNCHANGED <<lane_of, closing, forced, drained>>
        /\ UNCHANGED <<open, accepted_operations, cells, ready>>
        /\ turns' = [turns EXCEPT ![t] = "active"]
        /\ durable_accepted' = durable_accepted \cup {t}
    BY <1>9 DEF AcceptTurn, MarkTurnAccepted
  <2>2. activity_revision' \in Nat
    BY <1>1, <2>1, RecordActivityType DEF MarkTurnAccepted, TypeOK, RuntimeTypeOK
  <2>3. "queued" \in TaskState /\ "active" \in TurnPhase
    BY DEF TaskState, TurnPhase
  <2>4. TypeOK'
    BY <1>1, <2>1, <2>2, <2>3 DEF TypeOK, RuntimeTypeOK, Goto
  <2>5. GateHeld'
    BY <1>1, <2>1 DEF GateHeld, Goto, TypeOK, RuntimeTypeOK
  <2>6. open /\ ~drained
    BY <2>1, AdmittingOpen
  <2>7. NoAcceptanceAfterClose'
    BY <2>1, <2>6 DEF NoAcceptanceAfterClose
  <2> QED
    BY <2>1, <2>3, <2>4, <2>5, <2>6, <2>7, TaskStep DEF Tracked
<1>10. ASSUME NEW t \in Turns, RejectTurn(t) PROVE LaneInvariant'
  BY <1>10, SettleEffect DEF RejectTurn, Tracked
<1>11. ASSUME NEW t \in Turns, NEW retained \in BOOLEAN, SettleExecution(t, retained)
       PROVE  LaneInvariant'
  BY <1>11, SettleEffect DEF SettleExecution, Tracked
<1>12. ASSUME NEW t \in Turns, ResumeTurn(t) PROVE LaneInvariant'
  <2>1. /\ UNCHANGED <<cells, ready, task, lane_of, closing, forced, drained, open>>
        /\ UNCHANGED <<accepted_operations, activity_revision, durable_accepted>>
        /\ turns' = [turns EXCEPT ![t] = "absent"]
        /\ open
    BY <1>12 DEF ResumeTurn, RemovePendingTerminal
  <2>2. TypeOK'
    BY <1>1, <2>1 DEF TypeOK, RuntimeTypeOK, TurnPhase
  <2>3. GateHeld' /\ NoAcceptanceAfterClose' /\ ForceAfterClose'
    BY <1>1, <2>1 DEF GateHeld, NoAcceptanceAfterClose, ForceAfterClose, TypeOK, RuntimeTypeOK
  <2> QED
    BY <2>1, <2>2, <2>3, LanesUntouched
<1>13. ASSUME NEW t \in Turns, AbortTurn(t) PROVE LaneInvariant'
  <2>1. "aborted" \in TaskState
    BY DEF TaskState
  <2>2. task[t] # "reserved"
    BY <1>1, <1>13, AdmittingOpen DEF AbortTurn, ForceAfterClose
  <2> QED
    BY <1>13, <2>1, <2>2, RuntimeUntouched DEF AbortTurn, Tracked
<1>14. CASE RequestClose
  BY <1>1, <1>14, LanesUntouched DEF RequestClose, runtimeVars, TypeOK, RuntimeTypeOK,
     GateHeld, NoAcceptanceAfterClose, ForceAfterClose, Admitting
<1>15. CASE Close
  BY <1>1, <1>15, LanesUntouched DEF Close, CloseAdmission, TypeOK, RuntimeTypeOK,
     GateHeld, NoAcceptanceAfterClose, ForceAfterClose, Admitting
<1>16. CASE ForceShutdown
  BY <1>1, <1>16, LanesUntouched DEF ForceShutdown, runtimeVars, TypeOK, RuntimeTypeOK,
     GateHeld, NoAcceptanceAfterClose, ForceAfterClose, Admitting
<1>17. CASE Drain
  BY <1>17, DrainEffect
<1>18. CASE UNCHANGED vars
  BY <1>1, <1>18, LanesUntouched DEF vars, runtimeVars, TypeOK, RuntimeTypeOK,
     GateHeld, NoAcceptanceAfterClose, ForceAfterClose, Admitting
<1>19. CASE Finished
  BY <1>18, <1>19 DEF Finished
<1> QED
  BY <1>2, <1>3, <1>4, <1>5, <1>6, <1>7, <1>8, <1>9, <1>10, <1>11, <1>12, <1>13,
     <1>14, <1>15, <1>16, <1>17, <1>18, <1>19 DEF Next

\* The invariant holds in every reachable state.
LEMMA LaneInvariantHolds == Spec => []LaneInvariant
  BY InitLaneInvariant, NextLaneInvariant, PTL DEF Spec

-----------------------------------------------------------------------------
(* Theorems *)

\* Type correctness of the runtime state and of the tasks that share it.
THEOREM TypeCorrect == Spec => []TypeOK
<1>1. LaneInvariant => TypeOK
  BY DEF LaneInvariant
<1> QED
  BY <1>1, LaneInvariantHolds, PTL

\* Two operations of one lane never execute at the same time: mutual exclusion of
\* ThreadCell, through rejections, panics, forced aborts and a drained runtime.
THEOREM LaneExclusion == Spec => []LaneExclusive
<1>1. LaneInvariant => LaneExclusive
  BY DEF LaneInvariant
<1> QED
  BY <1>1, LaneInvariantHolds, PTL

\* No lane loses its wakeup: reserve and release keep exactly the front operation
\* of every lane signalled.
THEOREM NoLostWakeup == Spec => []FrontSignalled
<1>1. LaneInvariant => FrontSignalled
  BY DEF LaneInvariant
<1> QED
  BY <1>1, LaneInvariantHolds, PTL

\* Closing admission waits for every acceptance decision (admission_gate), so a
\* shutdown never meets a Turn whose acceptance is undecided.
THEOREM CloseAfterAcceptance == Spec => []NoAcceptanceAfterClose
<1>1. LaneInvariant => NoAcceptanceAfterClose
  BY DEF LaneInvariant
<1> QED
  BY <1>1, LaneInvariantHolds, PTL

-----------------------------------------------------------------------------
(* The capacity and the history edits                                      *)

\* What a reservation does to the lanes, and what it requires of them.
LEMMA ReserveLanes ==
    ASSUME LaneInvariant, NEW op \in Operations, NEW lane \in Targets(op), ReserveStep(op, lane)
    PROVE  /\ lane \in Lanes
           /\ cells'[lane] \in Seq(Operations)
           /\ Len(cells'[lane]) = Len(cells[lane]) + 1
           /\ DOMAIN cells'[lane] = 1..(Len(cells[lane]) + 1)
           /\ \A i \in DOMAIN cells[lane] : cells'[lane][i] = cells[lane][i]
           /\ cells'[lane][Len(cells[lane]) + 1] = op
           /\ \A l \in Lanes \ {lane} : cells'[l] = cells[l]
           /\ \A l \in Lanes : \A i \in DOMAIN cells[l] : cells[l][i] # op
           /\ accepted_operations' = accepted_operations + 1
           /\ accepted_operations < MaxOperations
           /\ lane \in Threads => Len(cells[lane]) < MaxThreadOperations
           /\ op \in Turns => ~Has(lane, IdleMutations)
           /\ op \in IdleMutations => ~Has(lane, Turns) /\ ~Has(lane, IdleMutations)
           /\ durable_accepted' = IF op \in Turns THEN durable_accepted \ {op}
                                                 ELSE durable_accepted \cup {op}
           /\ UNCHANGED <<activity_revision, drained>>
<1>1. lane \in Lanes /\ cells \in [Lanes -> Seq(Operations)]
  BY Kinds DEF LaneInvariant, TypeOK, RuntimeTypeOK
<1>2. task[op] = "admitted" /\ ReserveLane(op, lane) /\ UNCHANGED drained
  BY DEF ReserveStep
<1>3. op \in ApplicationOperations => lane = ApplicationLane /\ lane \notin Threads
  BY OperationKindsDisjoint DEF Targets
<1>4. /\ Reserve(lane, op, op \notin Turns)
      /\ accepted_operations < MaxOperations
      /\ lane \in Threads => Len(cells[lane]) < MaxThreadOperations
      /\ op \in Turns => ~Has(lane, IdleMutations)
      /\ op \in IdleMutations => ~Has(lane, Turns) /\ ~Has(lane, IdleMutations)
      /\ UNCHANGED activity_revision
  <2>1. CASE op \in Turns
    BY <1>2, <2>1, OperationKindsDisjoint
    DEF ReserveLane, RegisterTurn, AdmitTurnOperation, AdmitThreadOperation,
        AdmitApplicationOperation
  <2>2. CASE op \in Mutations
    BY <1>2, <2>2, OperationKindsDisjoint
    DEF ReserveLane, ReserveMutation, ReserveOperation, AdmitThreadOperation,
        AdmitApplicationOperation
  <2>3. CASE op \in IdleMutations
    BY <1>2, <2>3, OperationKindsDisjoint
    DEF ReserveLane, ReserveIdleMutation, ReserveOperation, AdmitIdleMutation,
        AdmitThreadOperation, AdmitApplicationOperation
  <2>4. CASE op \in ApplicationOperations
    BY <1>2, <1>3, <2>4, OperationKindsDisjoint
    DEF ReserveLane, ReserveApplicationOperation, ReserveOperation, AdmitApplicationOperation
  <2> QED
    BY <2>1, <2>2, <2>3, <2>4 DEF Operations
<1>5. cells' = [cells EXCEPT ![lane] = Append(@, op)]
  BY <1>4 DEF Reserve
<1>6. /\ cells'[lane] = Append(cells[lane], op)
      /\ cells[lane] \in Seq(Operations)
      /\ \A l \in Lanes \ {lane} : cells'[l] = cells[l]
  BY <1>1, <1>5
<1>7. /\ cells'[lane] \in Seq(Operations)
      /\ Len(cells'[lane]) = Len(cells[lane]) + 1
      /\ DOMAIN cells'[lane] = 1..(Len(cells[lane]) + 1)
      /\ \A i \in DOMAIN cells[lane] : cells'[lane][i] = cells[lane][i]
      /\ cells'[lane][Len(cells[lane]) + 1] = op
  BY <1>6, AppendProperties, LenProperties
<1>8. \A l \in Lanes : \A i \in DOMAIN cells[l] : cells[l][i] # op
  BY <1>2 DEF LaneInvariant, Placement, Tracked
<1> QED
  BY <1>1, <1>2, <1>4, <1>6, <1>7, <1>8 DEF Reserve

\* What a release does to the lanes: the operation leaves the one place it had,
\* unless a shutdown has dropped the lanes.
LEMMA ReleaseLanes ==
    ASSUME LaneInvariant, NEW op \in Operations, task[op] \in Tracked, Release(lane_of[op], op)
    PROVE  /\ lane_of[op] \in Lanes
           /\ \A l \in Lanes \ {lane_of[op]} : cells'[l] = cells[l]
           /\ accepted_operations' = SaturatingPred(accepted_operations)
           /\ \/ /\ drained
                 /\ \A l \in Lanes : cells'[l] = <<>> /\ cells[l] = <<>>
              \/ /\ ~drained
                 /\ cells'[lane_of[op]] \in Seq(Operations)
                 /\ \E k \in DOMAIN cells[lane_of[op]] :
                       /\ cells[lane_of[op]][k] = op
                       /\ Len(cells'[lane_of[op]]) = Len(cells[lane_of[op]]) - 1
                       /\ DOMAIN cells'[lane_of[op]] = 1..(Len(cells[lane_of[op]]) - 1)
                       /\ \A i \in 1..(Len(cells[lane_of[op]]) - 1) :
                             cells'[lane_of[op]][i] =
                                 cells[lane_of[op]][IF i < k THEN i ELSE i + 1]
<1> DEFINE lane == lane_of[op]
           old == cells[lane]
           new == cells'[lane]
<1>1. /\ TypeOK /\ lane \in Lanes
      /\ cells \in [Lanes -> Seq(Operations)]
      /\ cells' = [cells EXCEPT ![lane] = RemoveFirst(@, op)]
      /\ accepted_operations' = SaturatingPred(accepted_operations)
  BY DEF LaneInvariant, TypeOK, RuntimeTypeOK, TasksHoldLanes, Release
<1>2. /\ new = RemoveFirst(old, op)
      /\ \A l \in Lanes \ {lane} : cells'[l] = cells[l]
  BY <1>1
<1>3. old \in Seq(Operations) /\ Len(old) \in Nat /\ DOMAIN old = 1..Len(old)
  BY <1>1, Entries
<1>4. CASE drained
  <2>1. \A l \in Lanes : cells[l] = <<>>
    BY <1>4 DEF LaneInvariant, AfterDrain
  <2>2. old = <<>> /\ Len(old) = 0
    BY <1>1, <2>1, EmptySeq
  <2>3. new = old
    BY <1>2, <2>2 DEF RemoveFirst
  <2> QED
    BY <1>1, <1>2, <1>4, <2>1, <2>3
<1>5. CASE ~drained
  <2>1. PICK k \in DOMAIN old : old[k] = op
    BY <1>5 DEF LaneInvariant, TasksHoldLanes
  <2>2. \A i \in DOMAIN old : old[i] = old[k] => i = k
    BY <1>1, <2>1 DEF LaneInvariant, Placement
  <2> HIDE DEF old, new, lane
  <2>3. k \in 1..Len(old) /\ \A i \in 1..Len(old) : old[i] = old[k] => i = k
    BY <1>3, <2>1, <2>2
  <2>4. /\ RemoveFirst(old, old[k]) \in Seq(Operations)
        /\ Len(RemoveFirst(old, old[k])) = Len(old) - 1
        /\ \A i \in 1..(Len(old) - 1) :
              RemoveFirst(old, old[k])[i] = IF i < k THEN old[i] ELSE old[i + 1]
    BY <1>3, <2>3, RemoveFirstUnique
  <2>5. /\ new \in Seq(Operations)
        /\ Len(new) = Len(old) - 1
        /\ \A i \in 1..(Len(old) - 1) : new[i] = old[IF i < k THEN i ELSE i + 1]
    BY <1>2, <2>1, <2>4
  <2>6. DOMAIN new = 1..(Len(old) - 1)
    BY <2>5, LenProperties
  <2> QED
    BY <1>1, <1>2, <1>5, <2>1, <2>5, <2>6 DEF old, new, lane
<1> QED
  BY <1>4, <1>5

\* The same without the places: what a lane holds after a release, and in which
\* order.
LEMMA ReleaseKeeps ==
    ASSUME LaneInvariant, NEW op \in Operations, task[op] \in Tracked, ~drained,
           Release(lane_of[op], op)
    PROVE  /\ \A i \in DOMAIN cells'[lane_of[op]] :
                 \E a \in DOMAIN cells[lane_of[op]] :
                    /\ cells'[lane_of[op]][i] = cells[lane_of[op]][a]
                    /\ cells[lane_of[op]][a] # op
           /\ \A a \in DOMAIN cells[lane_of[op]] : cells[lane_of[op]][a] # op =>
                 \E i \in DOMAIN cells'[lane_of[op]] :
                    cells'[lane_of[op]][i] = cells[lane_of[op]][a]
           /\ \A i, j \in DOMAIN cells'[lane_of[op]] :
                 cells'[lane_of[op]][i] = cells'[lane_of[op]][j] => i = j
<1> DEFINE old == cells[lane_of[op]]
           new == cells'[lane_of[op]]
<1>1. lane_of[op] \in Lanes
  BY ReleaseLanes
<1>2. Len(old) \in Nat /\ DOMAIN old = 1..Len(old)
  BY <1>1, Entries DEF LaneInvariant
<1>3. PICK k \in DOMAIN old :
         /\ old[k] = op
         /\ DOMAIN new = 1..(Len(old) - 1)
         /\ \A i \in 1..(Len(old) - 1) : new[i] = old[IF i < k THEN i ELSE i + 1]
  BY ReleaseLanes
<1>4. \A i, j \in DOMAIN old : old[i] = old[j] => i = j
  BY <1>1 DEF LaneInvariant, Placement
<1> HIDE DEF old, new
<1>5. \A i \in DOMAIN new : /\ (IF i < k THEN i ELSE i + 1) \in DOMAIN old \ {k}
                           /\ new[i] = old[IF i < k THEN i ELSE i + 1]
  BY <1>2, <1>3
<1>6. \A i \in DOMAIN new : \E a \in DOMAIN old : new[i] = old[a] /\ old[a] # op
  BY <1>3, <1>4, <1>5
<1>7. ASSUME NEW a \in DOMAIN old, old[a] # op PROVE \E i \in DOMAIN new : new[i] = old[a]
  <2>1. CASE a < k
    BY <1>2, <1>3, <2>1
  <2>2. CASE ~(a < k)
    <3>1. a # k
      BY <1>3, <1>7
    <3>2. a - 1 \in DOMAIN new /\ ~(a - 1 < k) /\ (a - 1) + 1 = a
      BY <1>2, <1>3, <2>2, <3>1
    <3> QED
      BY <1>5, <3>2
  <2> QED
    BY <2>1, <2>2
<1>8. ASSUME NEW i \in DOMAIN new, NEW j \in DOMAIN new, new[i] = new[j] PROVE i = j
  <2>1. (IF i < k THEN i ELSE i + 1) = (IF j < k THEN j ELSE j + 1)
    BY <1>4, <1>5, <1>8
  <2> QED
    BY <1>2, <1>3, <2>1
<1> QED
  BY <1>6, <1>7, <1>8 DEF old, new

\* How the steps move the lanes.
LEMMA LaneSteps ==
    ASSUME LaneInvariant, [Next]_vars
    PROVE  \/ UNCHANGED <<cells, accepted_operations>>
           \/ \E op \in Operations : \E lane \in Targets(op) : ReserveStep(op, lane)
           \/ \E op \in Operations : task[op] \in Tracked /\ Release(lane_of[op], op)
           \/ Drain
<1> DEFINE Kept == UNCHANGED <<cells, accepted_operations>>
           Left == \E op \in Operations : task[op] \in Tracked /\ Release(lane_of[op], op)
<1>1. ASSUME NEW op \in Operations,
             BeginAdmission(op) \/ GiveUpAdmission(op) \/ DropAdmission(op) \/ StartExecution(op)
      PROVE  Kept
  BY <1>1 DEF BeginAdmission, GiveUpAdmission, DropAdmission, StartExecution, runtimeVars
<1>2. ASSUME NEW op \in Operations, FinishExecution(op) \/ AbortOperation(op) PROVE Left
  BY <1>2 DEF FinishExecution, AbortOperation, FinishOperation, Tracked
<1>3. ASSUME NEW t \in Turns, AcceptTurn(t) \/ ResumeTurn(t) \/ AbortTurn(t) PROVE Kept
  BY <1>3 DEF AcceptTurn, MarkTurnAccepted, ResumeTurn, RemovePendingTerminal, AbortTurn,
              runtimeVars
<1>4. ASSUME NEW t \in Turns, RejectTurn(t) \/ \E retained \in BOOLEAN : SettleExecution(t, retained)
      PROVE  Left
  BY <1>4, Kinds DEF RejectTurn, SettleExecution, SettleTurn, Tracked
<1>5. RequestClose \/ Close \/ ForceShutdown \/ Finished \/ UNCHANGED vars => Kept
  BY DEF RequestClose, Close, CloseAdmission, ForceShutdown, Finished, runtimeVars, vars
<1> QED
  BY <1>1, <1>2, <1>3, <1>4, <1>5 DEF Next

\* The counted operations are finitely many.
CapacityKept == IsFiniteSet(Held) /\ CapacityAccounting

LEMMA NextCapacity ==
    ASSUME LaneInvariant, CapacityKept, [Next]_vars
    PROVE  CapacityKept'
<1> USE DEF CapacityKept
<1>0. /\ IsFiniteSet(Held) /\ accepted_operations = Cardinality(Held)
      /\ accepted_operations <= MaxOperations
      /\ \A th \in Threads : Len(cells[th]) <= MaxThreadOperations
      /\ accepted_operations \in Nat /\ MaxOperations \in Nat /\ MaxThreadOperations \in Nat
      /\ Threads \subseteq Lanes
      /\ \A l \in Lanes : Len(cells[l]) \in Nat
  BY Entries, Kinds, LimitsAssumption DEF CapacityAccounting, LaneInvariant, TypeOK, RuntimeTypeOK
<1>1. CASE UNCHANGED <<cells, accepted_operations>>
  <2>1. Held' = Held
    BY <1>1 DEF Held, Has
  <2>2. accepted_operations' = accepted_operations /\ cells' = cells
    BY <1>1
  <2> QED
    BY <1>0, <2>1, <2>2 DEF CapacityAccounting
<1>2. ASSUME NEW op \in Operations, NEW lane \in Targets(op), ReserveStep(op, lane)
      PROVE  CapacityKept'
  <2>1. Held' = Held \cup {op} /\ op \notin Held
    <3>1. \A l \in Lanes : Len(cells[l]) \in Nat /\ DOMAIN cells[l] = 1..Len(cells[l])
      BY Entries DEF LaneInvariant
    <3>2. \A o \in Operations : Has(lane, {o})' <=> Has(lane, {o}) \/ o = op
      BY <1>2, <3>1, ReserveLanes DEF Has
    <3>3. \A l \in Lanes \ {lane}, o \in Operations : Has(l, {o})' <=> Has(l, {o})
      BY <1>2, ReserveLanes DEF Has
    <3>4. op \notin Held
      BY <1>2, ReserveLanes DEF Held, Has
    <3>5. lane \in Lanes
      BY <1>2, ReserveLanes
    <3> QED
      BY <3>2, <3>3, <3>4, <3>5 DEF Held
  <2>2. IsFiniteSet(Held') /\ Cardinality(Held') = Cardinality(Held) + 1
    BY <1>0, <2>1, FS_AddElement
  <2>3. accepted_operations' = accepted_operations + 1 /\ accepted_operations < MaxOperations
    BY <1>2, ReserveLanes
  <2>4. ASSUME NEW th \in Threads PROVE Len(cells'[th]) <= MaxThreadOperations
    BY <1>0, <1>2, ReserveLanes
  <2> QED
    BY <1>0, <2>2, <2>3, <2>4 DEF CapacityAccounting
<1>3. ASSUME NEW op \in Operations, task[op] \in Tracked, Release(lane_of[op], op)
      PROVE  CapacityKept'
  <2>0. lane_of[op] \in Lanes /\ accepted_operations' = SaturatingPred(accepted_operations)
        /\ \A l \in Lanes \ {lane_of[op]} : cells'[l] = cells[l]
    BY <1>3, ReleaseLanes
  <2>1. CASE drained
    <3>1. \A l \in Lanes : cells'[l] = <<>> /\ cells[l] = <<>>
      BY <1>3, <2>1, ReleaseLanes
    <3>2. Held = {} /\ Held' = {}
      BY <3>1 DEF Held, Has
    <3>3. accepted_operations' = 0
      BY <1>0, <2>0, <3>2, FS_EmptySet DEF SaturatingPred
    <3>4. \A th \in Threads : cells'[th] = cells[th]
      BY <1>0, <3>1
    <3> QED
      BY <1>0, <3>2, <3>3, <3>4, FS_EmptySet DEF CapacityAccounting
  <2>2. CASE ~drained
    <3>1. op \in Held /\ Held' = Held \ {op}
      <4>1. \A o \in Operations : \A l \in Lanes :
                Has(l, {o})' <=> Has(l, {o}) /\ ~(l = lane_of[op] /\ o = op)
        BY <1>3, <2>0, <2>2, ReleaseKeeps DEF Has
      <4>2. \A l \in Lanes : Has(l, {op}) => l = lane_of[op]
        BY DEF Has, LaneInvariant, Placement
      <4>3. Has(lane_of[op], {op})
        BY <1>3, <2>2, ReleaseLanes DEF Has
      <4> QED
        BY <2>0, <4>1, <4>2, <4>3 DEF Held
    <3>2. IsFiniteSet(Held') /\ Cardinality(Held') = Cardinality(Held) - 1
      BY <1>0, <3>1, FS_RemoveElement
    <3>3. Cardinality(Held) # 0
      BY <1>0, <3>1, FS_EmptySet
    <3>4. accepted_operations' = accepted_operations - 1
      BY <1>0, <2>0, <3>3 DEF SaturatingPred
    <3>5. ASSUME NEW th \in Threads PROVE Len(cells'[th]) <= MaxThreadOperations
      <4>1. Len(cells'[th]) = Len(cells[th]) \/ Len(cells'[th]) = Len(cells[th]) - 1
        BY <1>0, <1>3, <2>2, ReleaseLanes
      <4> QED
        BY <1>0, <4>1
    <3> QED
      BY <1>0, <3>2, <3>4, <3>5 DEF CapacityAccounting
  <2> QED
    BY <2>1, <2>2
<1>4. CASE Drain
  <2>1. accepted_operations' = 0 /\ \A l \in Lanes : cells'[l] = <<>>
    BY <1>4 DEF Drain, TakeTurnSlots
  <2>2. Held' = {}
    BY <2>1 DEF Held, Has
  <2>3. \A th \in Threads : Len(cells'[th]) = 0
    BY <1>0, <2>1
  <2> QED
    BY <1>0, <2>1, <2>2, <2>3, FS_EmptySet DEF CapacityAccounting
<1> QED
  BY <1>1, <1>2, <1>3, <1>4, LaneSteps

LEMMA NextHistoryEdit ==
    ASSUME LaneInvariant, HistoryEditAlone, [Next]_vars
    PROVE  HistoryEditAlone'
<1>0. Threads \subseteq Lanes
  BY Kinds
<1>1. CASE UNCHANGED <<cells, accepted_operations>>
  BY <1>1 DEF HistoryEditAlone, Has
<1>2. ASSUME NEW op \in Operations, NEW lane \in Targets(op), ReserveStep(op, lane)
      PROVE  HistoryEditAlone'
  <2> SUFFICES ASSUME NEW th \in Threads, Has(th, IdleMutations)'
               PROVE  /\ ~Has(th, Turns)'
                      /\ \A i, j \in DOMAIN cells'[th] :
                            cells'[th][i] \in IdleMutations /\ cells'[th][j] \in IdleMutations
                               => i = j
    BY DEF HistoryEditAlone
  <2>1. CASE th # lane
    BY <1>0, <1>2, <2>1, ReserveLanes DEF HistoryEditAlone, Has
  <2>2. CASE th = lane
    <3>1. /\ Len(cells[th]) \in Nat /\ DOMAIN cells[th] = 1..Len(cells[th])
          /\ DOMAIN cells'[th] = 1..(Len(cells[th]) + 1)
          /\ \A i \in DOMAIN cells[th] : cells'[th][i] = cells[th][i]
          /\ cells'[th][Len(cells[th]) + 1] = op
      BY <1>0, <1>2, <2>2, ReserveLanes, Entries DEF LaneInvariant
    <3>2. \A i \in DOMAIN cells'[th] :
             i \in DOMAIN cells[th] \/ (i = Len(cells[th]) + 1 /\ cells'[th][i] = op)
      BY <3>1
    <3>3. CASE op \in IdleMutations
      <4>1. ~Has(th, Turns) /\ ~Has(th, IdleMutations) /\ op \notin Turns
        BY <1>2, <2>2, <3>3, ReserveLanes, OperationKindsDisjoint
      <4> QED
        BY <3>1, <3>2, <4>1 DEF Has
    <3>4. CASE op \notin IdleMutations
      <4>1. Has(th, IdleMutations) /\ op \notin Turns
        <5>1. Has(th, IdleMutations)
          BY <3>1, <3>2, <3>4 DEF Has
        <5> QED
          BY <1>2, <2>2, <5>1, ReserveLanes
      <4> QED
        BY <3>1, <3>2, <3>4, <4>1 DEF Has, HistoryEditAlone
    <3> QED
      BY <3>3, <3>4
  <2> QED
    BY <2>1, <2>2
<1>3. ASSUME NEW op \in Operations, task[op] \in Tracked, Release(lane_of[op], op)
      PROVE  HistoryEditAlone'
  <2>0. lane_of[op] \in Lanes /\ \A l \in Lanes \ {lane_of[op]} : cells'[l] = cells[l]
    BY <1>3, ReleaseLanes
  <2>1. CASE drained
    <3>1. \A l \in Lanes : cells'[l] = <<>>
      BY <1>3, <2>1, ReleaseLanes
    <3> QED
      BY <1>0, <3>1 DEF HistoryEditAlone, Has
  <2>2. CASE ~drained
    <3> SUFFICES ASSUME NEW th \in Threads, Has(th, IdleMutations)'
                 PROVE  /\ ~Has(th, Turns)'
                        /\ \A i, j \in DOMAIN cells'[th] :
                              cells'[th][i] \in IdleMutations /\ cells'[th][j] \in IdleMutations
                                 => i = j
      BY DEF HistoryEditAlone
    <3>1. CASE th # lane_of[op]
      BY <1>0, <2>0, <3>1 DEF HistoryEditAlone, Has
    <3>2. CASE th = lane_of[op]
      <4>1. /\ \A i \in DOMAIN cells'[th] : \E a \in DOMAIN cells[th] : cells'[th][i] = cells[th][a]
            /\ \A i, j \in DOMAIN cells'[th] : cells'[th][i] = cells'[th][j] => i = j
        BY <1>3, <2>2, <3>2, ReleaseKeeps
      <4>2. Has(th, IdleMutations) /\ (Has(th, Turns)' => Has(th, Turns))
        BY <4>1 DEF Has
      <4> QED
        BY <4>1, <4>2 DEF HistoryEditAlone
    <3> QED
      BY <3>1, <3>2
  <2> QED
    BY <2>1, <2>2
<1>4. CASE Drain
  <2>1. \A l \in Lanes : cells'[l] = <<>>
    BY <1>4 DEF Drain, TakeTurnSlots
  <2> QED
    BY <1>0, <2>1 DEF HistoryEditAlone, Has
<1> QED
  BY <1>1, <1>2, <1>3, <1>4, LaneSteps

LEMMA InitLanes == Init => CapacityKept /\ HistoryEditAlone
<1> SUFFICES ASSUME Init PROVE CapacityKept /\ HistoryEditAlone
  OBVIOUS
<1>1. accepted_operations = 0 /\ \A l \in Lanes : cells[l] = <<>> /\ DOMAIN cells[l] = {}
  BY DEF Init, RuntimeInit
<1>2. \A l \in Lanes : \A K : ~Has(l, K)
  BY <1>1 DEF Has
<1>3. Held = {}
  BY <1>2 DEF Held
<1>4. \A th \in Threads : Len(cells[th]) = 0
  BY <1>1, Kinds
<1> QED
  BY <1>1, <1>2, <1>3, <1>4, FS_EmptySet, LimitsAssumption, Kinds
  DEF CapacityKept, CapacityAccounting, HistoryEditAlone

\* accepted_operations counts the operations in the lanes exactly and stays below
\* max_operations, a lane below max_thread_operations, through every rejection,
\* settlement, abort, drop and drain (admit_application_operation,
\* admit_thread_operation and the saturating_sub of every release).
THEOREM CapacityAccounted == Spec => []CapacityAccounting
<1>1. Init => CapacityKept
  BY InitLanes
<1>2. LaneInvariant /\ CapacityKept /\ [Next]_vars => CapacityKept'
  BY NextCapacity
<1>3. CapacityKept => CapacityAccounting
  BY DEF CapacityKept
<1> QED
  BY <1>1, <1>2, <1>3, LaneInvariantHolds, PTL DEF Spec

\* A history edit is alone in its lane with neither a Turn nor another edit
\* (reserve_idle_mutation and the guard of register_turn), whatever leaves the
\* lane in between.
THEOREM HistoryEditExclusion == Spec => []HistoryEditAlone
<1>1. Init => HistoryEditAlone
  BY InitLanes
<1>2. LaneInvariant /\ HistoryEditAlone /\ [Next]_vars => HistoryEditAlone'
  BY NextHistoryEdit
<1> QED
  BY <1>1, <1>2, LaneInvariantHolds, PTL DEF Spec

-----------------------------------------------------------------------------
(* The lanes implement SerialLanes                                         *)

\* The operations a lane executes.
Executing == [l \in Lanes |-> {op \in Operations : task[op] = "running" /\ lane_of[op] = l}]

\* A step that neither starts nor ends an execution and leaves the lanes alone.
LEMMA ExecutingKept ==
    ASSUME TypeOK, NEW op \in Operations, NEW state, Goto(op, state),
           task[op] # "running", state # "running",
           \A o \in Operations \ {op} : lane_of'[o] = lane_of[o]
    PROVE  Executing' = Executing
<1>1. \A o \in Operations : task'[o] = IF o = op THEN state ELSE task[o]
  BY DEF Goto, TypeOK
<1> QED
  BY <1>1 DEF Executing

\* An operation that stops running leaves the executing ones of its lane.
LEMMA ExecutingLeft ==
    ASSUME TypeOK, NEW op \in Operations, NEW state, Goto(op, state), state # "running",
           lane_of[op] \in Lanes, UNCHANGED lane_of
    PROVE  Executing' = [Executing EXCEPT ![lane_of[op]] = @ \ {op}]
<1>1. \A o \in Operations : task'[o] = IF o = op THEN state ELSE task[o]
  BY DEF Goto, TypeOK
<1>2. \A l \in Lanes : Executing'[l] = IF l = lane_of[op] THEN Executing[l] \ {op} ELSE Executing[l]
  BY <1>1 DEF Executing
<1> QED
  BY <1>2 DEF Executing

\* A queued operation that starts is the front of its lane, and alone.
LEMMA StartIsFront ==
    ASSUME LaneInvariant, LaneInvariant', NEW op \in Operations, StartExecution(op)
    PROVE  /\ lane_of[op] \in Lanes
           /\ cells[lane_of[op]] # <<>>
           /\ Head(cells[lane_of[op]]) = op
           /\ Executing[lane_of[op]] = {}
           /\ Executing' = [Executing EXCEPT ![lane_of[op]] = {op}]
<1> DEFINE l == lane_of[op]
<1>1. /\ task[op] = "queued" /\ ready[op] = "sent" /\ UNCHANGED lane_of
      /\ \A o \in Operations : task'[o] = IF o = op THEN "running" ELSE task[o]
  BY DEF StartExecution, Goto, LaneInvariant, TypeOK
<1>2. l \in Lanes /\ ~drained
  BY <1>1 DEF LaneInvariant, TasksHoldLanes, AfterDrain, Tracked
<1>3. PICK i \in DOMAIN cells[l] : cells[l][i] = op
  BY <1>1, <1>2 DEF LaneInvariant, TasksHoldLanes, Tracked
<1>4. i = 1
  BY <1>1, <1>2, <1>3 DEF LaneInvariant, FrontSignalled
<1>5. cells[l] # <<>> /\ Head(cells[l]) = op
  <2>1. cells[l] \in Seq(Operations)
    BY <1>2, Entries DEF LaneInvariant
  <2> QED
    BY <1>3, <1>4, <2>1, HeadTailProperties
<1>6. \A o \in Operations \ {op} : ~(task[o] = "running" /\ lane_of[o] = l)
  BY <1>1 DEF LaneInvariant, LaneExclusive
<1>7. Executing[l] = {}
  BY <1>1, <1>2, <1>6 DEF Executing
<1>8. \A k \in Lanes : Executing'[k] = IF k = l THEN {op} ELSE Executing[k]
  BY <1>1, <1>6 DEF Executing
<1>9. Executing' = [Executing EXCEPT ![l] = {op}]
  <2>1. DOMAIN Executing = Lanes /\ DOMAIN Executing' = Lanes
    BY DEF Executing
  <2>2. Executing = [k \in Lanes |-> Executing[k]] /\ Executing' = [k \in Lanes |-> Executing'[k]]
    BY DEF Executing
  <2> HIDE DEF l
  <2> QED
    BY <1>8, <2>1, <2>2
<1> QED
  BY <1>2, <1>5, <1>7, <1>9

\* SerialLanes takes RemoveFirst from the same community module.
LEMMA SameRemoveFirst ==
    ASSUME NEW s, NEW e
    PROVE  Promise!RemoveFirst(s, e) = RemoveFirst(s, e)
  BY DEF Promise!RemoveFirst, Promise!RemoveAt, Promise!SelectInSeq, Promise!Min,
         RemoveFirst, RemoveAt, SelectInSeq, Min

\* The lanes of every Application, whatever its limits and its load, implement
\* SerialLanes: operations are executed one at a time and in the order of their
\* reservation (ThreadCell::reserve, ThreadCell::release and the ready signal),
\* through rejections, aborts and a drained runtime.
THEOREM LanesImplementSerialLanes == Spec => ImplementsSerialLanes
<1> USE DEF Promise!vars
<1>1. Init => Promise!Init
  BY Kinds DEF Init, RuntimeInit, Promise!Init
<1>2. LaneInvariant /\ LaneInvariant' /\ [Next]_vars => [Promise!Next]_Promise!vars
  <2> SUFFICES ASSUME LaneInvariant, LaneInvariant', [Next]_vars
               PROVE  \/ Promise!Next
                      \/ UNCHANGED <<cells, Executing>>
    BY DEF Executing
  <2> USE Kinds DEF LaneInvariant
  <2> DEFINE Same == UNCHANGED <<cells, Executing>>
  <2>1. ASSUME NEW op \in Operations,
               BeginAdmission(op) \/ GiveUpAdmission(op) \/ DropAdmission(op)
        PROVE  Same
    <3>1. /\ UNCHANGED <<cells, lane_of>> /\ task[op] # "running"
          /\ \E state \in {"admitted", "done", "queued"} : Goto(op, state)
      BY <2>1 DEF BeginAdmission, GiveUpAdmission, DropAdmission, runtimeVars
    <3> QED
      BY <3>1, ExecutingKept
  <2>2. ASSUME NEW op \in Operations, NEW lane \in Targets(op), ReserveStep(op, lane)
        PROVE  Promise!Next
    <3>1. lane \in Lanes /\ cells' = [cells EXCEPT ![lane] = Append(@, op)]
      <4>1. op \in ApplicationOperations => lane = ApplicationLane
        BY DEF Targets
      <4> QED
        BY <2>2, <4>1 DEF ReserveStep, ReserveLane, RegisterTurn, ReserveMutation,
           ReserveIdleMutation, ReserveApplicationOperation, ReserveOperation, Reserve
    <3>2. Executing' = Executing
      <4>1. /\ task[op] = "admitted" /\ Goto(op, "reserved")
            /\ \A o \in Operations \ {op} : lane_of'[o] = lane_of[o]
        BY <2>2 DEF ReserveStep, TypeOK
      <4> QED
        BY <4>1, ExecutingKept
    <3>3. Promise!Accept(lane, op)
      BY <3>1, <3>2 DEF Promise!Accept, Executing
    <3> QED
      BY <3>1, <3>3 DEF Promise!Next
  <2>3. ASSUME NEW op \in Operations, StartExecution(op) PROVE Promise!Next
    <3>1. UNCHANGED cells
      BY <2>3 DEF StartExecution, runtimeVars
    <3>2. PICK l \in Lanes : l = lane_of[op]
      BY <2>3, StartIsFront
    <3>3. Promise!Start(l)
      BY <2>3, <3>1, <3>2, StartIsFront DEF Promise!Start, Executing
    <3> QED
      BY <3>3 DEF Promise!Next
  <2>4. ASSUME NEW op \in Operations, task[op] \in Tracked, Release(lane_of[op], op),
               Goto(op, "done"), UNCHANGED lane_of
        PROVE  Promise!Next
    <3>1. PICK l \in Lanes : l = lane_of[op]
      BY <2>4 DEF TasksHoldLanes
    <3>2. Executing' = [Executing EXCEPT ![l] = @ \ {op}]
      BY <2>4, <3>1, ExecutingLeft
    <3>3. cells' = [cells EXCEPT ![l] = Promise!RemoveFirst(@, op)]
      BY <2>4, <3>1, SameRemoveFirst DEF Release
    <3>4. Promise!Finish(l, op)
      BY <3>2, <3>3 DEF Promise!Finish, Executing
    <3> QED
      BY <3>4 DEF Promise!Next
  <2>5. ASSUME NEW op \in Operations, FinishExecution(op) \/ AbortOperation(op)
        PROVE  Promise!Next
    BY <2>4, <2>5 DEF FinishExecution, AbortOperation, FinishOperation, Tracked
  <2>6. ASSUME NEW t \in Turns,
               RejectTurn(t) \/ \E retained \in BOOLEAN : SettleExecution(t, retained)
        PROVE  Promise!Next
    BY <2>4, <2>6 DEF RejectTurn, SettleExecution, SettleTurn, Tracked
  <2>7. ASSUME NEW t \in Turns, AcceptTurn(t) PROVE Same
    <3>1. UNCHANGED <<cells, lane_of>> /\ task[t] # "running" /\ Goto(t, "queued")
      BY <2>7 DEF AcceptTurn, MarkTurnAccepted
    <3> QED
      BY <3>1, ExecutingKept
  <2>8. ASSUME NEW t \in Turns, AbortTurn(t) PROVE Promise!Next
    <3>1. /\ UNCHANGED <<cells, lane_of>> /\ Goto(t, "aborted")
          /\ t \in Operations /\ lane_of[t] \in Lanes
      BY <2>8 DEF AbortTurn, runtimeVars, TasksHoldLanes
    <3>2. PICK l \in Lanes : l = lane_of[t]
      BY <3>1
    <3>3. Executing' = [Executing EXCEPT ![l] = @ \ {t}]
      BY <3>1, <3>2, ExecutingLeft
    <3>4. Promise!Stop(l, t)
      BY <3>1, <3>3 DEF Promise!Stop, Executing
    <3> QED
      BY <3>1, <3>4 DEF Promise!Next
  <2>9. CASE Drain
    <3>1. cells' = [l \in Lanes |-> <<>>] /\ UNCHANGED <<task, lane_of>>
      BY <2>9 DEF Drain, TakeTurnSlots
    <3>2. Promise!Abandon
      BY <3>1 DEF Promise!Abandon
    <3> QED
      BY <3>2 DEF Promise!Next
  <2>10. ASSUME UNCHANGED <<cells, task, lane_of>> PROVE Same
    BY <2>10 DEF Executing
  <2>11. ASSUME NEW t \in Turns, ResumeTurn(t) PROVE Same
    BY <2>10, <2>11 DEF ResumeTurn, RemovePendingTerminal
  <2>12. RequestClose \/ Close \/ ForceShutdown \/ Finished \/ UNCHANGED vars => Same
    BY <2>10 DEF RequestClose, Close, CloseAdmission, ForceShutdown, Finished, runtimeVars, vars
  <2> QED
    BY <2>1, <2>2, <2>3, <2>5, <2>6, <2>7, <2>8, <2>9, <2>11, <2>12 DEF Next
<1> QED
  BY <1>1, <1>2, LaneInvariantHolds, PTL DEF Spec, ImplementsSerialLanes, Promise!Spec

-----------------------------------------------------------------------------
(* The public activity                                                     *)

\* A cell without repetitions, what it holds, and the first Turn in it.
NoRepeats(cell) ==
    /\ cell \in Seq(Operations)
    /\ \A i, j \in DOMAIN cell : cell[i] = cell[j] => i = j
InCell(cell, op) == \E i \in DOMAIN cell : cell[i] = op
FirstTurn(cell, t) ==
    \E i \in DOMAIN cell : cell[i] = t /\ \A j \in DOMAIN cell : j < i => cell[j] \notin Turns

\* The Turns that thread_cell_activity counts.
Counted(cell, accepted) == {t \in Turns : t \in accepted /\ InCell(cell, t)}

\* The active Turn is the first one of the cell, if its acceptance is durable.
LEMMA ActiveTurnIs ==
    ASSUME NEW cell \in Seq(Operations), NEW accepted
    PROVE  /\ \A t \in Turns : FirstTurn(cell, t) /\ t \in accepted
                 => ActiveTurn(cell, Turns, accepted, None) = t
           /\ (\A t \in Turns : ~(FirstTurn(cell, t) /\ t \in accepted))
                 => ActiveTurn(cell, Turns, accepted, None) = None
<1> DEFINE places == {i \in DOMAIN cell : cell[i] \in Turns}
<1>1. DOMAIN cell = 1..Len(cell) /\ Len(cell) \in Nat /\ places \subseteq Nat
  BY LenProperties
<1>2. ASSUME NEW i \in DOMAIN cell, cell[i] \in Turns,
             \A j \in DOMAIN cell : j < i => cell[j] \notin Turns
      PROVE  places # {} /\ Min(places) = i
  <2>1. places # {} /\ i \in places
    BY <1>2
  <2>2. Min(places) \in places /\ Min(places) <= i
    BY <1>1, <2>1, SmallestNumber
  <2> QED
    BY <1>1, <1>2, <2>1, <2>2
<1>3. ASSUME places # {} PROVE cell[Min(places)] \in Turns /\ FirstTurn(cell, cell[Min(places)])
  <2>1. Min(places) \in places /\ \A j \in places : Min(places) <= j
    BY <1>1, <1>3, SmallestNumber
  <2>2. ASSUME NEW j \in DOMAIN cell, j < Min(places) PROVE cell[j] \notin Turns
    <3>1. j \in Nat /\ Min(places) \in Nat /\ ~(Min(places) <= j)
      BY <1>1, <2>1, <2>2
    <3>2. j \notin places
      BY <2>1, <3>1
    <3> QED
      BY <3>2
  <2> QED
    BY <2>1, <2>2 DEF FirstTurn
<1>4. ActiveTurn(cell, Turns, accepted, None) =
         IF places # {} /\ cell[Min(places)] \in accepted THEN cell[Min(places)] ELSE None
  BY DEF ActiveTurn
<1> HIDE DEF places
<1>5. ASSUME NEW t \in Turns, FirstTurn(cell, t), t \in accepted
      PROVE  ActiveTurn(cell, Turns, accepted, None) = t
  BY <1>2, <1>4, <1>5 DEF FirstTurn
<1>6. ASSUME \A t \in Turns : ~(FirstTurn(cell, t) /\ t \in accepted)
      PROVE  ActiveTurn(cell, Turns, accepted, None) = None
  BY <1>3, <1>4, <1>6
<1> QED
  BY <1>5, <1>6

\* A cell without repetitions has as many accepted places as accepted Turns.
LEMMA CountIs ==
    ASSUME NEW cell, NoRepeats(cell), NEW accepted
    PROVE  /\ IsFiniteSet(Counted(cell, accepted))
           /\ Cardinality(AcceptedTurns(cell, Turns, accepted)) =
                 Cardinality(Counted(cell, accepted))
<1> DEFINE P == AcceptedTurns(cell, Turns, accepted)
           V == Counted(cell, accepted)
           f == [i \in P |-> cell[i]]
<1>1. DOMAIN cell = 1..Len(cell) /\ Len(cell) \in Nat
  BY LenProperties DEF NoRepeats
<1>2. IsFiniteSet(P)
  <2>1. IsFiniteSet(1..Len(cell))
    BY <1>1, FS_Interval
  <2>2. P \in SUBSET (1..Len(cell))
    BY <1>1 DEF AcceptedTurns
  <2> QED
    BY <2>1, <2>2, FS_Subset
<1>3. f \in [P -> V]
  BY DEF AcceptedTurns, Counted, InCell
<1>4. \A i, j \in P : f[i] = f[j] => i = j
  BY DEF AcceptedTurns, NoRepeats
<1>5. \A t \in V : \E i \in P : f[i] = t
  BY DEF AcceptedTurns, Counted, InCell
<1> HIDE DEF f, P, V
<1>6. f \in Bijection(P, V)
  BY <1>3, <1>4, <1>5 DEF Bijection, Injection, Surjection, IsInjective
<1>7. ExistsBijection(P, V)
  BY <1>6 DEF ExistsBijection
<1> QED
  BY <1>2, <1>7, FS_Bijection DEF P, V

\* Two cells that hold the same accepted Turns with the same first one look the
\* same.
LEMMA SameActivity ==
    ASSUME NEW c, NEW d, NoRepeats(c), NoRepeats(d), NEW a, NEW b,
           \A t \in Turns : (t \in a /\ InCell(c, t)) <=> (t \in b /\ InCell(d, t)),
           \A t \in Turns : (t \in a /\ FirstTurn(c, t)) <=> (t \in b /\ FirstTurn(d, t))
    PROVE  ThreadCellActivity(c, Turns, a, None) = ThreadCellActivity(d, Turns, b, None)
<1>1. ActiveTurn(c, Turns, a, None) = ActiveTurn(d, Turns, b, None)
  <2>1. c \in Seq(Operations) /\ d \in Seq(Operations)
    BY DEF NoRepeats
  <2>2. CASE \E t \in Turns : t \in a /\ FirstTurn(c, t)
    BY <2>1, <2>2, ActiveTurnIs
  <2>3. CASE \A t \in Turns : ~(t \in a /\ FirstTurn(c, t))
    BY <2>1, <2>3, ActiveTurnIs
  <2> QED
    BY <2>2, <2>3
<1>2. Counted(c, a) = Counted(d, b)
  BY DEF Counted
<1>3. Cardinality(AcceptedTurns(c, Turns, a)) = Cardinality(AcceptedTurns(d, Turns, b))
  BY <1>2, CountIs
<1> QED
  BY <1>1, <1>3 DEF ThreadCellActivity

\* The cells of the runtime have no repetitions.
LEMMA CellsPlain ==
    ASSUME LaneInvariant, NEW l \in Lanes
    PROVE  NoRepeats(cells[l])
  BY Entries DEF LaneInvariant, Placement, NoRepeats

\* An operation that joins a cell at its end, and is no accepted Turn, does not
\* show.
LEMMA JoinUnseen ==
    ASSUME NEW c, NEW d, NoRepeats(c), NoRepeats(d), NEW op, NEW a, NEW b,
           op \notin Turns \/ op \notin b,
           \A t \in Turns \ {op} : t \in a <=> t \in b,
           DOMAIN d = 1..(Len(c) + 1), d[Len(c) + 1] = op,
           \A i \in DOMAIN c : d[i] = c[i] /\ c[i] # op
    PROVE  ThreadCellActivity(d, Turns, b, None) = ThreadCellActivity(c, Turns, a, None)
<1>1. DOMAIN c = 1..Len(c) /\ Len(c) \in Nat
  BY LenProperties DEF NoRepeats
<1>2. \A i \in DOMAIN d : i \in DOMAIN c \/ i = Len(c) + 1
  BY <1>1
<1>3. \A i \in DOMAIN c : i \in DOMAIN d /\ i < Len(c) + 1
  BY <1>1
<1>4. \A t \in Turns \ {op} : InCell(c, t) <=> InCell(d, t)
  BY <1>2, <1>3 DEF InCell
<1>5. ~InCell(c, op)
  BY DEF InCell
<1>6. \A t \in Turns \ {op} : FirstTurn(c, t) <=> FirstTurn(d, t)
  <2>1. ASSUME NEW t \in Turns \ {op}, FirstTurn(c, t) PROVE FirstTurn(d, t)
    <3>1. PICK i \in DOMAIN c : c[i] = t /\ \A j \in DOMAIN c : j < i => c[j] \notin Turns
      BY <2>1 DEF FirstTurn
    <3>2. \A j \in DOMAIN d : j < i => j \in DOMAIN c
      BY <1>1, <1>2
    <3> QED
      BY <1>3, <3>1, <3>2 DEF FirstTurn
  <2>2. ASSUME NEW t \in Turns \ {op}, FirstTurn(d, t) PROVE FirstTurn(c, t)
    BY <1>2, <1>3, <2>2 DEF FirstTurn
  <2> QED
    BY <2>1, <2>2
<1>7. ~FirstTurn(c, op)
  BY DEF FirstTurn
<1>8. \A t \in Turns : /\ (t \in b /\ InCell(d, t)) <=> (t \in a /\ InCell(c, t))
                       /\ (t \in b /\ FirstTurn(d, t)) <=> (t \in a /\ FirstTurn(c, t))
  BY <1>4, <1>5, <1>6, <1>7
<1> QED
  BY <1>8, SameActivity

\* What is no Turn leaves a cell unseen.
LEMMA LeaveUnseen ==
    ASSUME NEW c, NEW d, NoRepeats(c), NoRepeats(d), NEW a, NEW k \in DOMAIN c,
           c[k] \notin Turns,
           DOMAIN d = 1..(Len(c) - 1),
           \A i \in 1..(Len(c) - 1) : d[i] = c[IF i < k THEN i ELSE i + 1]
    PROVE  ThreadCellActivity(d, Turns, a, None) = ThreadCellActivity(c, Turns, a, None)
<1> DEFINE old(i) == IF i < k THEN i ELSE i + 1
           new(i) == IF i < k THEN i ELSE i - 1
<1>1. DOMAIN c = 1..Len(c) /\ Len(c) \in Nat
  BY LenProperties DEF NoRepeats
<1>2. \A i \in DOMAIN d : old(i) \in DOMAIN c \ {k} /\ d[i] = c[old(i)]
  BY <1>1
<1>3. \A i \in DOMAIN c \ {k} : new(i) \in DOMAIN d /\ d[new(i)] = c[i]
  <2> SUFFICES ASSUME NEW i \in DOMAIN c \ {k} PROVE new(i) \in DOMAIN d /\ d[new(i)] = c[i]
    OBVIOUS
  <2>1. new(i) \in DOMAIN d /\ old(new(i)) = i
    BY <1>1
  <2> QED
    BY <1>2, <2>1
<1>4. /\ \A i, j \in DOMAIN d : j < i <=> old(j) < old(i)
      /\ \A i, j \in DOMAIN c \ {k} : j < i <=> new(j) < new(i)
  BY <1>1
<1>5. \A i \in DOMAIN d : new(old(i)) = i
  BY <1>1
<1>6. \A i \in DOMAIN c \ {k} : old(new(i)) = i
  BY <1>1
<1> HIDE DEF old, new
<1>7. \A t \in Turns : InCell(c, t) <=> InCell(d, t)
  BY <1>2, <1>3 DEF InCell
<1>8. ASSUME NEW t \in Turns, FirstTurn(c, t) PROVE FirstTurn(d, t)
  <2>1. PICK i \in DOMAIN c : c[i] = t /\ \A j \in DOMAIN c : j < i => c[j] \notin Turns
    BY <1>8 DEF FirstTurn
  <2>2. i \in DOMAIN c \ {k} /\ new(i) \in DOMAIN d /\ d[new(i)] = t
    BY <1>3, <2>1
  <2>3. \A j \in DOMAIN d : j < new(i) => old(j) < i
    BY <1>4, <1>6, <2>2
  <2> QED
    BY <1>2, <2>1, <2>2, <2>3 DEF FirstTurn
<1>9. ASSUME NEW t \in Turns, FirstTurn(d, t) PROVE FirstTurn(c, t)
  <2>1. PICK i \in DOMAIN d : d[i] = t /\ \A j \in DOMAIN d : j < i => d[j] \notin Turns
    BY <1>9 DEF FirstTurn
  <2>2. old(i) \in DOMAIN c \ {k} /\ c[old(i)] = t
    BY <1>2, <2>1
  <2>3. \A j \in DOMAIN c \ {k} : j < old(i) => new(j) < i
    BY <1>4, <1>5, <2>2
  <2>4. \A j \in DOMAIN c \ {k} : j < old(i) => c[j] \notin Turns
    BY <1>3, <2>1, <2>3
  <2> QED
    BY <2>2, <2>4 DEF FirstTurn
<1> QED
  BY <1>7, <1>8, <1>9, SameActivity

\* Another Turn's acceptance does not show.
LEMMA FlagUnseen ==
    ASSUME NEW c, NoRepeats(c), NEW a, NEW b, \A t \in Turns : InCell(c, t) => (t \in a <=> t \in b)
    PROVE  ThreadCellActivity(c, Turns, b, None) = ThreadCellActivity(c, Turns, a, None)
<1>1. \A t \in Turns : FirstTurn(c, t) => InCell(c, t)
  BY DEF FirstTurn, InCell
<1> QED
  BY <1>1, SameActivity

\* What one step may do to the activities and their revision.
RevisionStep ==
    drained' = drained =>
        /\ activity_revision' >= activity_revision
        /\ (\E th \in Threads : Activity(th)' # Activity(th))
              => activity_revision' > activity_revision

LEMMA RevisionSteps ==
    ASSUME LaneInvariant, LaneInvariant', [Next]_vars
    PROVE  RevisionStep
<1>0. /\ activity_revision \in Nat /\ activity_revision' \in Nat
      /\ Threads \subseteq Lanes /\ Turns \subseteq Operations
  BY Kinds DEF LaneInvariant, TypeOK, RuntimeTypeOK
<1>1. \A l \in Lanes : NoRepeats(cells[l]) /\ NoRepeats(cells'[l])
  <2>1. \A l \in Lanes : NoRepeats(cells[l])
    BY CellsPlain
  <2>2. \A l \in Lanes : cells'[l] \in Seq(Operations)
    BY DEF LaneInvariant, TypeOK, RuntimeTypeOK
  <2>3. \A l \in Lanes : \A i, j \in DOMAIN cells'[l] : cells'[l][i] = cells'[l][j] => i = j
    BY DEF LaneInvariant, Placement
  <2> QED
    BY <2>1, <2>2, <2>3 DEF NoRepeats
<1>2. ASSUME UNCHANGED <<cells, durable_accepted, activity_revision>> PROVE RevisionStep
  BY <1>0, <1>2 DEF RevisionStep, Activity
<1>3. ASSUME UNCHANGED activity_revision, \A th \in Threads : Activity(th)' = Activity(th)
      PROVE  RevisionStep
  BY <1>0, <1>3 DEF RevisionStep
\* A transition that is recorded for the one Thread whose activity may change.
<1>4. ASSUME NEW lane \in Lanes,
             RecordActivityTransition(lane, cells'[lane], durable_accepted'),
             \A th \in Threads \ {lane} : Activity(th)' = Activity(th)
      PROVE  RevisionStep
  <2>1. activity_revision' = IF Activity(lane)' = Activity(lane) THEN activity_revision
                                                               ELSE activity_revision + 1
    BY <1>4 DEF RecordActivityTransition, Activity
  <2> QED
    BY <1>0, <1>4, <2>1 DEF RevisionStep
<1>5. ASSUME NEW op \in Operations, NEW lane \in Targets(op), ReserveStep(op, lane)
      PROVE  RevisionStep
  <2>1. /\ DOMAIN cells'[lane] = 1..(Len(cells[lane]) + 1)
        /\ cells'[lane][Len(cells[lane]) + 1] = op
        /\ \A i \in DOMAIN cells[lane] : cells'[lane][i] = cells[lane][i]
        /\ \A l \in Lanes : \A i \in DOMAIN cells[l] : cells[l][i] # op
        /\ \A l \in Lanes \ {lane} : cells'[l] = cells[l]
        /\ lane \in Lanes /\ UNCHANGED activity_revision
    BY <1>5, ReserveLanes
  <2>2. durable_accepted' = IF op \in Turns THEN durable_accepted \ {op}
                                           ELSE durable_accepted \cup {op}
    BY <1>5, ReserveLanes
  <2>3. /\ op \notin Turns \/ op \notin durable_accepted'
        /\ \A t \in Turns \ {op} : t \in durable_accepted <=> t \in durable_accepted'
    BY <2>2
  <2>4. Activity(lane)' = Activity(lane)
    <3>1. ThreadCellActivity(cells'[lane], Turns, durable_accepted', None) =
             ThreadCellActivity(cells[lane], Turns, durable_accepted, None)
      BY <1>1, <2>1, <2>3, JoinUnseen
    <3> QED
      BY <3>1 DEF Activity
  <2>5. ASSUME NEW th \in Threads \ {lane} PROVE Activity(th)' = Activity(th)
    <3>1. cells'[th] = cells[th] /\ ~InCell(cells[th], op) /\ th \in Lanes
      BY <1>0, <2>1 DEF InCell
    <3>2. \A t \in Turns : InCell(cells[th], t) => (t \in durable_accepted <=> t \in durable_accepted')
      BY <2>3, <3>1
    <3>3. ThreadCellActivity(cells[th], Turns, durable_accepted', None) =
             ThreadCellActivity(cells[th], Turns, durable_accepted, None)
      BY <1>1, <3>1, <3>2, FlagUnseen
    <3> QED
      BY <3>1, <3>3 DEF Activity
  <2> QED
    BY <1>3, <2>1, <2>4, <2>5
<1>6. ASSUME NEW t \in Turns, AcceptTurn(t) PROVE RevisionStep
  <2>1. /\ UNCHANGED cells /\ durable_accepted' = durable_accepted \cup {t}
        /\ RecordActivityTransition(lane_of[t], cells[lane_of[t]], durable_accepted')
        /\ task[t] = "reserved"
    BY <1>6 DEF AcceptTurn, MarkTurnAccepted
  <2>2. PICK lane \in Lanes : lane = lane_of[t]
    BY <1>0, <2>1 DEF LaneInvariant, TasksHoldLanes, Tracked
  <2>3. ASSUME NEW th \in Threads \ {lane} PROVE Activity(th)' = Activity(th)
    <3>1. ~InCell(cells[th], t) /\ th \in Lanes
      BY <1>0, <2>2, <2>3 DEF InCell, LaneInvariant, Placement
    <3>2. \A u \in Turns : InCell(cells[th], u) => (u \in durable_accepted <=> u \in durable_accepted')
      BY <2>1, <3>1
    <3>3. ThreadCellActivity(cells[th], Turns, durable_accepted', None) =
             ThreadCellActivity(cells[th], Turns, durable_accepted, None)
      BY <1>1, <3>1, <3>2, FlagUnseen
    <3> QED
      BY <2>1, <3>3 DEF Activity
  <2> QED
    BY <1>4, <2>1, <2>2, <2>3
<1>7. ASSUME NEW t \in Turns, NEW retained \in BOOLEAN, task[t] \in Tracked,
             SettleTurn(lane_of[t], t, retained)
      PROVE  RevisionStep
  <2>1. /\ Release(lane_of[t], t) /\ UNCHANGED durable_accepted
        /\ RecordActivityTransition(lane_of[t], cells'[lane_of[t]], durable_accepted')
    BY <1>7 DEF SettleTurn
  <2>2. PICK lane \in Lanes : lane = lane_of[t] /\ \A l \in Lanes \ {lane} : cells'[l] = cells[l]
    BY <1>0, <1>7, <2>1, ReleaseLanes
  <2>3. \A th \in Threads \ {lane} : Activity(th)' = Activity(th)
    BY <1>0, <2>1, <2>2 DEF Activity
  <2> QED
    BY <1>4, <2>1, <2>2, <2>3
<1>8. ASSUME NEW t \in Turns,
             RejectTurn(t) \/ \E retained \in BOOLEAN : SettleExecution(t, retained)
      PROVE  RevisionStep
  BY <1>7, <1>8 DEF RejectTurn, SettleExecution, Tracked
<1>9. ASSUME NEW op \in Operations \ Turns, task[op] \in Tracked, FinishOperation(lane_of[op], op)
      PROVE  RevisionStep
  <2>1. Release(lane_of[op], op) /\ UNCHANGED <<activity_revision, durable_accepted>>
    BY <1>9 DEF FinishOperation
  <2>2. PICK lane \in Lanes : lane = lane_of[op] /\ \A l \in Lanes \ {lane} : cells'[l] = cells[l]
    BY <1>9, <2>1, ReleaseLanes
  <2>3. Activity(lane)' = Activity(lane)
    <3>1. CASE drained
      BY <1>9, <2>1, <2>2, <3>1, ReleaseLanes DEF Activity
    <3>2. CASE ~drained
      <4> DEFINE c == cells[lane]
                 d == cells'[lane]
      <4>1. PICK k \in DOMAIN c :
               /\ c[k] = op
               /\ DOMAIN d = 1..(Len(c) - 1)
               /\ \A i \in 1..(Len(c) - 1) : d[i] = c[IF i < k THEN i ELSE i + 1]
        BY <1>9, <2>1, <2>2, <3>2, ReleaseLanes
      <4>2. NoRepeats(c) /\ NoRepeats(d) /\ c[k] \notin Turns
        BY <1>1, <1>9, <2>2, <4>1
      <4> HIDE DEF c, d
      <4>3. ThreadCellActivity(d, Turns, durable_accepted, None) =
               ThreadCellActivity(c, Turns, durable_accepted, None)
        BY <4>1, <4>2, LeaveUnseen
      <4> QED
        BY <2>1, <4>3 DEF c, d, Activity
    <3> QED
      BY <3>1, <3>2
  <2>4. \A th \in Threads \ {lane} : Activity(th)' = Activity(th)
    BY <1>0, <2>1, <2>2 DEF Activity
  <2> QED
    BY <1>3, <2>1, <2>3, <2>4
<1>10. ASSUME NEW op \in Operations, FinishExecution(op) \/ AbortOperation(op) PROVE RevisionStep
  BY <1>9, <1>10 DEF FinishExecution, AbortOperation, Tracked
<1>11. ASSUME NEW op \in Operations,
              BeginAdmission(op) \/ GiveUpAdmission(op) \/ DropAdmission(op) \/ StartExecution(op)
       PROVE  RevisionStep
  BY <1>2, <1>11 DEF BeginAdmission, GiveUpAdmission, DropAdmission, StartExecution, runtimeVars
<1>12. ASSUME NEW t \in Turns, ResumeTurn(t) \/ AbortTurn(t) PROVE RevisionStep
  BY <1>2, <1>12 DEF ResumeTurn, RemovePendingTerminal, AbortTurn, runtimeVars
<1>13. RequestClose \/ Close \/ ForceShutdown \/ Finished \/ UNCHANGED vars => RevisionStep
  BY <1>2 DEF RequestClose, Close, CloseAdmission, ForceShutdown, Finished, runtimeVars, vars
<1>14. Drain => RevisionStep
  BY DEF Drain, RevisionStep
<1> QED
  BY <1>5, <1>6, <1>8, <1>10, <1>11, <1>12, <1>13, <1>14 DEF Next

\* Every change of a Thread's public activity is recorded with a larger revision
\* (record_activity_transition), whichever operation of whichever Thread causes
\* it, and nothing takes a revision back.
THEOREM ActivityRevised == Spec => RevisionTracksActivity
<1>1. LaneInvariant /\ LaneInvariant' /\ [Next]_vars => [RevisionStep]_vars
  BY RevisionSteps
<1> QED
  BY <1>1, LaneInvariantHolds, PTL DEF Spec, RevisionTracksActivity, RevisionStep

\* The durable_accepted flag of a Turn in a lane is set exactly when its
\* acceptance has been decided.
AcceptanceFlagged ==
    \A t \in Turns : \A l \in Lanes : InCell(cells[l], t) =>
        (t \in durable_accepted <=> task[t] # "reserved")

LEMMA NextFlags ==
    ASSUME LaneInvariant, AcceptanceFlagged, [Next]_vars
    PROVE  AcceptanceFlagged'
<1>0. /\ Turns \subseteq Operations /\ task \in [Operations -> TaskState]
      /\ \A l \in Lanes : \A t \in Turns : InCell(cells[l], t) => task[t] \in Tracked \cup {"aborted"}
  BY Kinds DEF LaneInvariant, TypeOK, Placement, InCell
<1>1. ASSUME NEW op \in Operations, NEW state, Goto(op, state),
             UNCHANGED <<cells, durable_accepted>>,
             op \in Turns /\ task[op] \in Tracked \cup {"aborted"} =>
                (task[op] = "reserved" <=> state = "reserved")
      PROVE  AcceptanceFlagged'
  <2>1. \A o \in Operations : task'[o] = IF o = op THEN state ELSE task[o]
    BY <1>0, <1>1 DEF Goto
  <2> QED
    BY <1>0, <1>1, <2>1 DEF AcceptanceFlagged, InCell
<1>2. ASSUME NEW op \in Operations,
             BeginAdmission(op) \/ GiveUpAdmission(op) \/ DropAdmission(op) \/ StartExecution(op)
      PROVE  AcceptanceFlagged'
  <2>1. UNCHANGED <<cells, durable_accepted>>
    BY <1>2 DEF BeginAdmission, GiveUpAdmission, DropAdmission, StartExecution, runtimeVars
  <2>2. /\ \E state \in {"admitted", "done", "queued", "running"} : Goto(op, state)
        /\ op \in Turns => task[op] \in {"idle", "admitted", "queued"}
    BY <1>2 DEF BeginAdmission, GiveUpAdmission, DropAdmission, StartExecution
  <2> QED
    BY <1>1, <2>1, <2>2 DEF Tracked
<1>3. ASSUME NEW op \in Operations, NEW lane \in Targets(op), ReserveStep(op, lane)
      PROVE  AcceptanceFlagged'
  <2>1. /\ \A o \in Operations : task'[o] = IF o = op THEN "reserved" ELSE task[o]
        /\ op \in Turns => op \notin durable_accepted'
        /\ \A t \in Turns \ {op} : t \in durable_accepted <=> t \in durable_accepted'
    <3>1. durable_accepted' = IF op \in Turns THEN durable_accepted \ {op}
                                             ELSE durable_accepted \cup {op}
      BY <1>3, ReserveLanes
    <3>2. task' = [task EXCEPT ![op] = "reserved"]
      BY <1>3 DEF ReserveStep, Goto
    <3> QED
      BY <1>0, <3>1, <3>2
  <2>2. ASSUME NEW l \in Lanes, NEW t \in Turns \ {op}, InCell(cells'[l], t)
        PROVE  InCell(cells[l], t)
    BY <1>3, <2>2, ReserveLanes, Entries DEF InCell, LaneInvariant
  <2> QED
    BY <1>0, <2>1, <2>2 DEF AcceptanceFlagged
<1>4. ASSUME NEW op \in Operations, task[op] \in Tracked, Release(lane_of[op], op),
             Goto(op, "done"), UNCHANGED durable_accepted
      PROVE  AcceptanceFlagged'
  <2>1. \A o \in Operations \ {op} : task'[o] = task[o]
    BY <1>0, <1>4 DEF Goto
  <2>2. ASSUME NEW l \in Lanes, NEW t \in Turns, InCell(cells'[l], t)
        PROVE  InCell(cells[l], t) /\ t # op
    <3>1. CASE drained
      BY <1>4, <2>2, <3>1, ReleaseLanes DEF InCell
    <3>2. CASE ~drained /\ l = lane_of[op]
      BY <1>4, <2>2, <3>2, ReleaseKeeps DEF InCell
    <3>3. CASE ~drained /\ l # lane_of[op]
      <4>1. cells'[l] = cells[l]
        BY <1>4, <3>3, ReleaseLanes
      <4> QED
        BY <2>2, <3>3, <4>1 DEF InCell, LaneInvariant, Placement
    <3> QED
      BY <3>1, <3>2, <3>3
  <2> QED
    BY <1>0, <1>4, <2>1, <2>2 DEF AcceptanceFlagged
<1>5. ASSUME NEW op \in Operations, FinishExecution(op) \/ AbortOperation(op)
      PROVE  AcceptanceFlagged'
  BY <1>4, <1>5 DEF FinishExecution, AbortOperation, FinishOperation, Tracked
<1>6. ASSUME NEW t \in Turns,
             RejectTurn(t) \/ \E retained \in BOOLEAN : SettleExecution(t, retained)
      PROVE  AcceptanceFlagged'
  BY <1>0, <1>4, <1>6 DEF RejectTurn, SettleExecution, SettleTurn, Tracked
<1>7. ASSUME NEW t \in Turns, AcceptTurn(t) PROVE AcceptanceFlagged'
  <2>1. /\ UNCHANGED cells /\ durable_accepted' = durable_accepted \cup {t}
        /\ \A o \in Operations : task'[o] = IF o = t THEN "queued" ELSE task[o]
    BY <1>0, <1>7 DEF AcceptTurn, MarkTurnAccepted, Goto
  <2> QED
    BY <1>0, <2>1 DEF AcceptanceFlagged, InCell
<1>8. ASSUME NEW t \in Turns, AbortTurn(t) PROVE AcceptanceFlagged'
  <2>1. UNCHANGED <<cells, durable_accepted>> /\ Goto(t, "aborted") /\ t \in Operations
    BY <1>0, <1>8 DEF AbortTurn, runtimeVars
  <2>2. task[t] # "reserved"
    BY <1>8, <2>1, AdmittingOpen DEF AbortTurn, LaneInvariant, ForceAfterClose
  <2> QED
    BY <1>1, <2>1, <2>2
<1>9. ASSUME UNCHANGED <<cells, durable_accepted, task>> PROVE AcceptanceFlagged'
  BY <1>9 DEF AcceptanceFlagged, InCell
<1>10. ASSUME NEW t \in Turns, ResumeTurn(t) PROVE AcceptanceFlagged'
  BY <1>9, <1>10 DEF ResumeTurn, RemovePendingTerminal
<1>11. RequestClose \/ Close \/ ForceShutdown \/ Finished \/ UNCHANGED vars => AcceptanceFlagged'
  BY <1>9 DEF RequestClose, Close, CloseAdmission, ForceShutdown, Finished, runtimeVars, vars
<1>12. CASE Drain
  <2>1. \A l \in Lanes : cells'[l] = <<>>
    BY <1>12 DEF Drain, TakeTurnSlots
  <2> QED
    BY <2>1 DEF AcceptanceFlagged, InCell
<1> QED
  BY <1>2, <1>3, <1>5, <1>6, <1>7, <1>8, <1>10, <1>11, <1>12 DEF Next

\* The public activity of every Thread tells the truth about its lane
\* (thread_cell_activity): what it counts is what was accepted and not settled,
\* and the Turn that executes is the one it calls active.
THEOREM ActivityTells == Spec => []ActivityTruthful
<1>1. Init => AcceptanceFlagged
  <2> SUFFICES ASSUME Init PROVE AcceptanceFlagged
    OBVIOUS
  <2>1. \A l \in Lanes : DOMAIN cells[l] = {}
    BY DEF Init, RuntimeInit
  <2> QED
    BY <2>1 DEF AcceptanceFlagged, InCell
<1>2. LaneInvariant /\ AcceptanceFlagged /\ [Next]_vars => AcceptanceFlagged'
  BY NextFlags
<1>3. LaneInvariant /\ AcceptanceFlagged => ActivityTruthful
  <2> SUFFICES ASSUME LaneInvariant, AcceptanceFlagged, NEW th \in Threads
               PROVE  LET visible == {t \in Turns : Has(th, {t}) /\ task[t] \notin {"reserved"}}
                          a == Activity(th)
                      IN  /\ a.running <=> visible # {}
                          /\ a.active # None => a.active \in visible
                          /\ a.queued = Cardinality(visible \ {a.active})
                          /\ \A t \in visible : task[t] = "running" => a.active = t
    BY DEF ActivityTruthful
  <2> DEFINE visible == {t \in Turns : Has(th, {t}) /\ task[t] \notin {"reserved"}}
             a == Activity(th)
             active == ActiveTurn(cells[th], Turns, durable_accepted, None)
             count == Cardinality(AcceptedTurns(cells[th], Turns, durable_accepted))
  <2>1. th \in Lanes /\ Turns \subseteq Operations /\ None \notin Turns
    BY Kinds, OperationKindsDisjoint DEF Operations
  <2>2. NoRepeats(cells[th]) /\ cells[th] \in Seq(Operations)
    BY <2>1, CellsPlain DEF NoRepeats
  <2>3. visible = Counted(cells[th], durable_accepted)
    BY <2>1 DEF Counted, AcceptanceFlagged, InCell, Has
  <2>4. IsFiniteSet(visible) /\ count = Cardinality(visible) /\ count \in Nat
    BY <2>2, <2>3, CountIs, FS_CardinalityType
  <2>5. /\ a.running = (count > 0)
        /\ a.active = active
        /\ a.queued = count - (IF active = None THEN 0 ELSE 1)
    BY DEF Activity, ThreadCellActivity
  <2>6. \A t \in Turns : FirstTurn(cells[th], t) /\ t \in durable_accepted => active = t
    BY <2>2, ActiveTurnIs
  <2>7. active # None => active \in visible
    <3>1. active # None =>
             \E t \in Turns : FirstTurn(cells[th], t) /\ t \in durable_accepted /\ active = t
      BY <2>2, <2>6, ActiveTurnIs
    <3> QED
      BY <2>3, <3>1 DEF Counted, FirstTurn, InCell
  <2>8. ASSUME NEW t \in visible, task[t] = "running" PROVE active = t
    <3>1. ready[t] = "sent" /\ t \in durable_accepted /\ t \in Turns
      BY <2>1, <2>3, <2>8 DEF LaneInvariant, TasksHoldLanes, Counted
    <3>2. PICK i \in DOMAIN cells[th] : cells[th][i] = t
      BY <2>8 DEF Has
    <3>3. i = 1
      BY <2>1, <3>1, <3>2 DEF LaneInvariant, FrontSignalled
    <3>4. FirstTurn(cells[th], t)
      BY <2>1, <3>2, <3>3, Entries DEF FirstTurn, LaneInvariant
    <3> QED
      BY <2>6, <3>1, <3>4
  <2> HIDE DEF visible, a, active, count
  <2>9. a.running <=> visible # {}
    <3>1. count = 0 <=> visible = {}
      BY <2>4, FS_EmptySet
    <3>2. count > 0 <=> visible # {}
      BY <2>4, <3>1
    <3> QED
      BY <2>5, <3>2
  <2>10. a.queued = Cardinality(visible \ {a.active})
    <3>1. CASE active = None
      <4>1. visible \ {None} = visible
        BY <2>1 DEF visible
      <4> QED
        BY <2>4, <2>5, <3>1, <4>1
    <3>2. CASE active # None
      BY <2>4, <2>5, <2>7, <3>2, FS_RemoveElement
    <3> QED
      BY <3>1, <3>2
  <2> QED
    BY <2>5, <2>7, <2>8, <2>9, <2>10 DEF visible, a
<1> QED
  BY <1>1, <1>2, <1>3, LaneInvariantHolds, PTL DEF Spec
=============================================================================
