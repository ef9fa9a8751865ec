------------------------ MODULE GatewayActivityProofs ------------------------
(***************************************************************************)
(* Theorems about GatewayActivity, for every set of processes, Shells and  *)
(* commands, every limit, lease and number of failures: the control        *)
(* commands are honest, the Shells are accounted for, and the rows of the  *)
(* Thread implement ActivityLease.                                         *)
(*                                                                         *)
(* Three invariants, each resting on the ones before it: the commands and  *)
(* their batches; the Shells, their queue and their rows; the leases and   *)
(* generations.                                                            *)
(***************************************************************************)
EXTENDS GatewayActivity, SequenceTheorems, FiniteSetTheorems,
        WellFoundedInduction, TLAPS

-----------------------------------------------------------------------------
(* The invariants.                                                         *)

\* One row has the largest generation.
NewestGeneration == \E s \in Shells : \A t \in Shells : row[t].gen <= row[s].gen

\* A command names an activity as soon as it was looked up.
Addressed == \A c \in Commands : cmd[c].status # "none" => cmd[c].shell \in Shells

\* What waits in an inbox is pending, addressed to that process, and waits once.
InboxPending ==
    \A o \in Owners : \A i \in DOMAIN inbox[o] :
        /\ cmd[inbox[o][i]].status = "pending"
        /\ Home[cmd[inbox[o][i]].shell] = o
        /\ \A j \in DOMAIN inbox[o] : inbox[o][j] = inbox[o][i] => j = i

\* What a runtime task has claimed is addressed to its process, was claimed
\* once, and has had no effect, except the first one while it is being marked.
BatchClaimed ==
    \A o \in Owners : \A i \in DOMAIN runtime[o].batch :
        LET c == runtime[o].batch[i] IN
        /\ cmd[c].status \in {"applying", "outcome_indeterminate"}
        /\ Home[cmd[c].shell] = o
        /\ \A j \in DOMAIN runtime[o].batch : runtime[o].batch[j] = c => j = i
        /\ effects[c] # <<>> => i = 1 /\ runtime[o].at = "mark"

\* A task has commands at hand exactly while it applies them, and its verdict
\* on the first one is what happened.
BatchHeld ==
    \A o \in Owners :
        /\ runtime[o].batch # <<>> <=> runtime[o].at \in {"apply", "mark"}
        /\ runtime[o].at = "mark" =>
              runtime[o].verdict =
                  IF effects[Head(runtime[o].batch)] = <<>> THEN "failed" ELSE "applied"

\* A command had no effect, or one, on the activity it names.
EffectsOnce ==
    \A c \in Commands :
        /\ effects[c] \in {<<>>, <<cmd[c].shell>>}
        /\ effects[c] # <<>> => cmd[c].status \in {"applying", "applied", "outcome_indeterminate"}
        /\ cmd[c].status = "applied" => effects[c] # <<>>

CommandsKept ==
    /\ Addressed
    /\ InboxPending
    /\ BatchClaimed
    /\ BatchHeld
    /\ EffectsOnce

CommandInvariant ==
    /\ TypeOK
    /\ NewestGeneration
    /\ CommandsKept

\* A Shell has no row before its claim, and while it executes it has one that
\* nobody but a newer claim has ended.
RowFollowsStage(s) ==
    /\ row[s].status = "none" <=> row[s].gen = 0
    /\ stage[s] \in {"new", "admitted", "queued", "spawned", "registered", "claiming"}
          => row[s].status = "none"
    /\ stage[s] \in {"claimed", "running"} => row[s].status \in {"running", "superseded"}

\* Only an executing Shell is tracked; a copy of the tracked ones holds Shells
\* of this process that have executed.
TrackedRunning(s) ==
    /\ s \in tracked => stage[s] = "running"
    /\ \A o \in Owners : s \in runtime[o].snap =>
          /\ Home[s] = o
          /\ stage[s] \in {"running", "abandoned", "settled", "closing", "done", "gone"}

\* A result is "ok" only after the execution, and from its completion on only
\* with a finished row.
ResultHonest(s) ==
    result[s] = "ok" =>
        /\ stage[s] \in {"settled", "closing", "done", "gone"}
        /\ stage[s] \in {"closing", "done"} => row[s].status = "finished"

\* A completion leaves no active row unless the store failed.
RowClosed(s) ==
    stage[s] \in {"closing", "done"} =>
        row[s].status # "running" \/ <<s, "finish">> \in excused

\* A Shell whose lease is lost, or is about to be reported lost, was superseded
\* or its heartbeat failed.
LossExplained(s) ==
    \/ s \in lost
    \/ \E o \in Owners : runtime[o].at = "conclude" /\ s \in runtime[o].snap \cap tracked
    => row[s].status = "superseded" \/ <<s, "heartbeat">> \in excused

RowKeptBy(s) ==
    /\ RowFollowsStage(s)
    /\ TrackedRunning(s)
    /\ ResultHonest(s)
    /\ RowClosed(s)
    /\ LossExplained(s)

\* The Shells that wait are the queued ones, each once and behind a running one.
QueueKept ==
    \A o \in Owners :
        /\ \A i \in DOMAIN queue[o].waiting :
              /\ stage[queue[o].waiting[i]] = "queued"
              /\ Home[queue[o].waiting[i]] = o
              /\ \A j \in DOMAIN queue[o].waiting :
                    queue[o].waiting[j] = queue[o].waiting[i] => j = i
        /\ \A s \in Shells : stage[s] = "queued" /\ Home[s] = o =>
              \E i \in DOMAIN queue[o].waiting : queue[o].waiting[i] = s
        /\ queue[o].waiting # <<>> => queue[o].running
        /\ queue[o].running => \E s \in Working : Home[s] = o

\* The queue of a process runs one Shell at a time, until a forced shutdown
\* empties it or the process is lost.
OneAtATime ==
    \A o \in Owners : proc[o] \notin {"cancelled", "lost"} =>
        /\ \A s, t \in Working : Home[s] = o /\ Home[t] = o => s = t
        /\ ~queue[o].running => \A s \in Working : Home[s] # o

\* A process that has ended holds nothing.
EndedHoldsNothing ==
    \A o \in Owners :
        /\ ~Alive(o) => \A s \in Shells : Home[s] = o => stage[s] \in {"new", "done", "gone"}
        /\ proc[o] = "lost" => queue[o] = NoEntry

QueuesKept ==
    /\ QueueKept
    /\ OneAtATime
    /\ EndedHoldsNothing

RowsKept == \A s \in Shells : RowKeptBy(s)

ShellInvariant ==
    /\ CommandInvariant
    /\ QueuesKept
    /\ RowsKept

\* Generations number the claims: no two rows share one.
GenerationsUnique ==
    \A s, t \in Shells : row[s].gen = row[t].gen /\ row[s].gen > 0 => s = t

\* No time that was read, and no lease counted from it, lies in the future.
TimesPast ==
    /\ \A s \in Shells : clock[s] <= now /\ row[s].lease <= now + Lease
    /\ \A o \in Owners : runtime[o].read <= now

\* Whatever was claimed after a row that is still active is of the same process.
SuccessorsAtHome ==
    \A s \in Active, t \in Shells : row[t].gen > row[s].gen => Home[t] = Home[s]

\* A newer active row never runs out before an older one.
LeasesOrdered ==
    \A s, t \in Active : row[s].gen < row[t].gen => row[s].lease <= row[t].lease

\* A claim under way outlasts the rows of its process and what a copy taken by
\* the runtime task may renew.
ClaimCovers ==
    \A s \in Shells : stage[s] = "claiming" /\ Polls(Home[s]) =>
        /\ \A t \in Active : Home[t] = Home[s] => row[t].lease <= clock[s] + Lease
        /\ runtime[Home[s]].at = "beat" => runtime[Home[s]].read <= clock[s]

\* The executing Shell of a process is its newest.
ExecutingNewest ==
    \A s, t \in Shells :
        stage[s] \in {"claimed", "running"} /\ Home[t] = Home[s] => row[t].gen <= row[s].gen

\* A renewal from a copy keeps the leases ordered.
BeatOrdered ==
    \A o \in Owners : runtime[o].at = "beat" =>
        \A s \in runtime[o].snap \cap Active, t \in Active :
            /\ row[t].gen > row[s].gen =>
                  t \in runtime[o].snap \/ runtime[o].read + Lease <= row[t].lease
            /\ row[t].gen < row[s].gen => row[t].lease <= runtime[o].read + Lease

LeasesKept ==
    /\ GenerationsUnique
    /\ TimesPast
    /\ SuccessorsAtHome
    /\ LeasesOrdered
    /\ ClaimCovers
    /\ ExecutingNewest
    /\ BeatOrdered

LeaseInvariant == ShellInvariant /\ LeasesKept

-----------------------------------------------------------------------------
(* Generations.                                                            *)

\* A nonempty set of numbers below a bound has a largest one.
LEMMA BoundedMax ==
    ASSUME NEW S, S # {}, NEW f \in [S -> Nat], NEW b \in Nat, \A s \in S : f[s] <= b
    PROVE  \E s \in S : \A t \in S : f[t] <= f[s]
<1> DEFINE gaps == {b - f[s] : s \in S}
<1>1. gaps \subseteq Nat /\ gaps # {}
  OBVIOUS
<1>2. IsWellFoundedOn(OpToRel(<, Nat), Nat)
  BY NatLessThanWellFounded
<1>3. PICK x \in gaps : \A y \in gaps : ~ (<<y, x>> \in OpToRel(<, Nat))
  BY <1>1, <1>2, WFMin
<1>4. \A y \in gaps : ~ (y < x)
  BY <1>1, <1>3 DEF OpToRel
<1>5. PICK s \in S : x = b - f[s]
  BY <1>3
<1>6. ASSUME NEW t \in S PROVE f[t] <= f[s]
  <2>1. b - f[t] \in gaps
    OBVIOUS
  <2>2. ~ (b - f[t] < b - f[s])
    BY <2>1, <1>4, <1>5
  <2> QED
    BY <2>2
<1> QED
  BY <1>6

\* What Generation is: the largest generation of a row.
LEMMA GenerationIs ==
    ASSUME TypeOK, NewestGeneration
    PROVE  /\ Generation \in Nat
           /\ \A t \in Shells : row[t].gen <= Generation
           /\ \E s \in Shells : row[s].gen = Generation
<1> DEFINE gens == {row[s].gen : s \in Shells}
<1>1. gens \subseteq Nat
  BY DEF TypeOK
<1>2. \E x \in gens : \A y \in gens : x >= y
  BY <1>1 DEF NewestGeneration
<1>3. Max(gens) \in gens /\ \A y \in gens : Max(gens) >= y
  BY <1>2 DEF Max
<1>4. Generation = Max(gens)
  BY DEF Generation
<1> QED
  BY <1>1, <1>3, <1>4

\* What Newest is: the newest active row, whenever there is an active one.
LEMMA NewestIs ==
    ASSUME TypeOK, NewestGeneration, Active # {}
    PROVE  /\ Newest \in Active
           /\ Newest \in Shells
           /\ \A t \in Active : row[t].gen <= row[Newest].gen
<1> DEFINE f == [s \in Active |-> row[s].gen]
<1>1. f \in [Active -> Nat]
  BY DEF TypeOK, Active
<1>2. PICK m \in Shells : \A t \in Shells : row[t].gen <= row[m].gen
  BY DEF NewestGeneration
<1>3. row[m].gen \in Nat /\ \A s \in Active : f[s] <= row[m].gen
  BY <1>2 DEF TypeOK, Active
<1>4. \E s \in Active : \A t \in Active : f[t] <= f[s]
  BY <1>1, <1>3, BoundedMax
<1>5. \E s \in Active : \A t \in Active : row[t].gen <= row[s].gen
  BY <1>4
<1> QED
  BY <1>5 DEF Newest, Active

-----------------------------------------------------------------------------
(* Types.                                                                  *)

RowType     == [status : RowStatus, gen : Nat, lease : Nat]
CommandType == [status : CommandStatus, shell : Shells \cup {None}]
EntryType   == [running : BOOLEAN, active : Shells \cup {None}, waiting : Seq(Shells)]
TaskType    == [at : RuntimeStage, batch : Seq(Commands), verdict : {None, "applied", "failed"},
                snap : SUBSET Shells, read : 0..plan.ticks]

LEMMA Typed ==
    ASSUME TypeOK
    PROVE  /\ row \in [Shells -> RowType]
           /\ cmd \in [Commands -> CommandType]
           /\ queue \in [Owners -> EntryType]
           /\ runtime \in [Owners -> TaskType]
           /\ plan \in Plan
           /\ now \in 0..plan.ticks
           /\ inbox \in [Owners -> Seq(Commands)]
           /\ proc \in [Owners -> ProcState]
           /\ stage \in [Shells -> Stage]
           /\ clock \in [Shells -> 0..plan.ticks]
           /\ tracked \subseteq Shells /\ lost \subseteq Shells
           /\ result \in [Shells -> {None, "ok", "err"}]
           /\ effects \in [Commands -> Seq(Shells)]
           /\ excused \subseteq Shells \X {"finish", "heartbeat"}
BY DEF TypeOK, RowType, CommandType, EntryType, TaskType

\* The same after a step that keeps the number of ticks.
LEMMA Retyped ==
    ASSUME plan' \in Plan, plan'.ticks = plan.ticks,
           row' \in [Shells -> RowType],
           cmd' \in [Commands -> CommandType],
           queue' \in [Owners -> EntryType],
           runtime' \in [Owners -> TaskType],
           now' \in 0..plan.ticks,
           inbox' \in [Owners -> Seq(Commands)],
           proc' \in [Owners -> ProcState],
           stage' \in [Shells -> Stage],
           clock' \in [Shells -> 0..plan.ticks],
           tracked' \subseteq Shells, lost' \subseteq Shells,
           result' \in [Shells -> {None, "ok", "err"}],
           effects' \in [Commands -> Seq(Shells)],
           excused' \subseteq Shells \X {"finish", "heartbeat"}
    PROVE  TypeOK'
BY DEF TypeOK, RowType, CommandType, EntryType, TaskType

\* What an update of one field does to the type of a record.
LEMMA RowUpdate ==
    ASSUME NEW r \in RowType, NEW x \in RowStatus, NEW l \in Nat
    PROVE  /\ [r EXCEPT !.lease = l] \in RowType
           /\ [r EXCEPT !.status = x, !.lease = l] \in RowType
BY DEF RowType

LEMMA CommandUpdate ==
    ASSUME NEW r \in CommandType, NEW x \in CommandStatus
    PROVE  [r EXCEPT !.status = x] \in CommandType
BY DEF CommandType

LEMMA EntryUpdate ==
    /\ NoEntry \in EntryType
    /\ \A e \in EntryType :
          /\ [e EXCEPT !.running = TRUE] \in EntryType
          /\ \A s \in Shells : [e EXCEPT !.active = s] \in EntryType
          /\ \A w \in Seq(Shells) : [e EXCEPT !.waiting = w] \in EntryType
    /\ \A w \in Seq(Shells) :
          [running |-> TRUE, active |-> None, waiting |-> w] \in EntryType
<1>1. <<>> \in Seq(Shells)
  OBVIOUS
<1> QED
  BY <1>1 DEF EntryType, NoEntry

LEMMA TaskUpdate ==
    \A k \in TaskType : \A x \in RuntimeStage :
        /\ [k EXCEPT !.at = x] \in TaskType
        /\ \A b \in Seq(Commands) : [k EXCEPT !.at = x, !.batch = b] \in TaskType
        /\ \A v \in {None, "applied", "failed"} :
              [k EXCEPT !.at = x, !.verdict = v] \in TaskType
        /\ \A m \in SUBSET Shells :
              /\ [k EXCEPT !.at = x, !.snap = m] \in TaskType
              /\ \A r \in 0..plan.ticks : [k EXCEPT !.at = x, !.snap = m, !.read = r] \in TaskType
BY DEF TaskType

\* The only change of a plan: one failure fewer.
LEMMA FailPlan ==
    ASSUME TypeOK, Fail
    PROVE  plan' \in Plan /\ plan'.ticks = plan.ticks
<1>1. plan \in Plan
  BY DEF TypeOK
<1> QED
  BY <1>1 DEF Fail, Plan

\* Setting the status of commands keeps the type of their rows.
LEMMA SetStatusType ==
    ASSUME TypeOK, NEW cs, NEW status \in CommandStatus, SetStatus(cs, status)
    PROVE  cmd' \in [Commands -> CommandType]
<1>1. \A c \in Commands : /\ [cmd[c] EXCEPT !.status = status] \in CommandType
                          /\ cmd[c] \in CommandType
  BY Typed, CommandUpdate
<1> QED
  BY <1>1 DEF SetStatus

LEMMA RestType ==
    ASSUME TypeOK
    PROVE  Resting \in TaskType
<1>1. 0 \in 0..plan.ticks
  BY DEF TypeOK, Plan
<1>2. <<>> \in Seq(Commands)
  OBVIOUS
<1> QED
  BY <1>1, <1>2 DEF Resting, RuntimeStage, TaskType

LEMMA ShellStepTypes ==
    ASSUME CommandInvariant, NEW s \in Shells, ShellStep(s)
    PROVE  TypeOK'
<1> USE GatewayActivityAssumption DEF CommandInvariant, CommandsKept, storeVars, shellVars,
        historyVars
<1>1. CASE Admit(s)
  BY <1>1, Typed, Retyped DEF Admit, Move, Answer, Stage
<1>2. CASE Enter(s)
  <2>1. Append(queue[Home[s]].waiting, s) \in Seq(Shells)
    BY AppendProperties DEF TypeOK
  <2>2. /\ [queue[Home[s]] EXCEPT !.running = TRUE] \in EntryType
        /\ [queue[Home[s]] EXCEPT !.waiting = Append(queue[Home[s]].waiting, s)] \in EntryType
    BY <2>1, Typed, EntryUpdate
  <2>3. queue' \in [Owners -> EntryType]
    BY <1>2, <2>2, Typed DEF Enter
  <2>4. stage' \in [Shells -> Stage] /\ result' \in [Shells -> {None, "ok", "err"}]
    <3>1. \A x \in {"spawned", "queued", "done"} : [stage EXCEPT ![s] = x] \in [Shells -> Stage]
      BY Typed DEF Stage
    <3>2. [result EXCEPT ![s] = "err"] \in [Shells -> {None, "ok", "err"}]
      BY Typed
    <3>3. /\ \E x \in {"spawned", "queued", "done"} : Move(s, x)
          /\ UNCHANGED result \/ Answer(s, "err")
      BY <1>2 DEF Enter
    <3>4. \E x \in {"spawned", "queued", "done"} : stage' = [stage EXCEPT ![s] = x]
      BY <3>3 DEF Move
    <3>5. result' = result \/ result' = [result EXCEPT ![s] = "err"]
      BY <3>3 DEF Answer
    <3>6. stage' \in [Shells -> Stage]
      BY <3>1, <3>4
    <3>7. result' \in [Shells -> {None, "ok", "err"}]
      BY <3>2, <3>5, Typed
    <3> QED
      BY <3>6, <3>7
  <2> QED
    BY <1>2, <2>3, <2>4, Typed, Retyped DEF Enter
<1>3. CASE Register(s)
  <2>1. [queue[Home[s]] EXCEPT !.active = s] \in EntryType
    BY Typed, EntryUpdate
  <2>2. queue' \in [Owners -> EntryType]
    BY <1>3, <2>1, Typed DEF Register
  <2> QED
    BY <1>3, <2>2, Typed, Retyped DEF Register, Move, Stage
<1>4. CASE BeginClaim(s)
  BY <1>4, Typed, Retyped DEF BeginClaim, Move, Stage
<1>5. CASE Claim(s)
  <2>1. Generation + 1 \in Nat /\ clock[s] + Lease \in Nat /\ 0 \in 0..plan.ticks
    BY GenerationIs, Typed DEF Plan
  <2>2. row' \in [Shells -> RowType]
    <3>1. CASE Refused(s)
      BY <1>5, <3>1, Typed DEF Claim
    <3>2. CASE ~Refused(s)
      <4>1. [status |-> "running", gen |-> Generation + 1, lease |-> clock[s] + Lease]
                \in RowType
        BY <2>1 DEF RowType, RowStatus
      <4>2. ASSUME NEW t \in Shells
            PROVE  [row[t] EXCEPT !.status = "superseded", !.lease = 0]
                      \in RowType
        BY Typed, RowUpdate DEF RowStatus
      <4>3. row' = [t \in Shells |->
                        IF t = s THEN [status |-> "running", gen |-> Generation + 1,
                                       lease |-> clock[s] + Lease]
                        ELSE IF t \in Superseded(s)
                             THEN [row[t] EXCEPT !.status = "superseded", !.lease = 0]
                             ELSE row[t]]
        BY <1>5, <3>2 DEF Claim
      <4> QED
        BY <4>1, <4>2, <4>3, Typed
    <3> QED
      BY <3>1, <3>2
  <2>3. /\ stage' \in [Shells -> Stage]
        /\ result' \in [Shells -> {None, "ok", "err"}]
        /\ clock' \in [Shells -> 0..plan.ticks]
    BY <1>5, <2>1, Typed DEF Claim, Move, Answer, Stage
  <2> QED
    BY <1>5, <2>2, <2>3, Typed, Retyped DEF Claim
<1>6. CASE Track(s)
  BY <1>6, Typed, Retyped DEF Track, Move, Stage
<1>7. CASE BindThread(s)
  <2>1. now + Lease \in Nat
    BY Typed DEF Plan
  <2>2. row' \in [Shells -> RowType]
    <3>1. row[s] \in RowType /\ "running" \in RowStatus
      BY Typed DEF RowStatus
    <3>2. [row[s] EXCEPT !.lease = now + Lease] \in RowType
      BY <2>1, <3>1, RowUpdate
    <3> QED
      BY <1>7, <3>2, Typed DEF BindThread
  <2> QED
    BY <1>7, <2>2, Typed, Retyped DEF BindThread
<1>8. CASE Settle(s)
  <2>1. plan' \in Plan /\ plan'.ticks = plan.ticks
    BY <1>8, FailPlan DEF Settle, TypeOK
  <2> QED
    BY <1>8, <2>1, Typed, Retyped DEF Settle, Move, Answer, Stage
<1>9. CASE Abandon(s)
  <2>1. plan' \in Plan /\ plan'.ticks = plan.ticks
    BY <1>9, FailPlan DEF Abandon, TypeOK
  <2>2. clock' \in [Shells -> 0..plan.ticks]
    BY <1>9, Typed DEF Abandon, Plan
  <2> QED
    BY <1>9, <2>1, <2>2, Typed, Retyped DEF Abandon, Move, Answer, Stage
<1>10. CASE ReadAbandoned(s)
  <2>1. plan' \in Plan /\ plan'.ticks = plan.ticks
    BY <1>10, FailPlan DEF ReadAbandoned, TypeOK
  <2> QED
    <3>1. stage' \in [Shells -> Stage]
      BY <1>10, Typed DEF ReadAbandoned, Move, Stage
    <3>2. excused' \subseteq Shells \X {"finish", "heartbeat"}
      BY <1>10, Typed DEF ReadAbandoned
    <3> QED
      BY <1>10, <2>1, <3>1, <3>2, Typed, Retyped DEF ReadAbandoned
<1>11. CASE Finish(s)
  <2>1. plan' \in Plan /\ plan'.ticks = plan.ticks
    BY <1>11, FailPlan DEF Finish, TypeOK
  <2>2. row' \in [Shells -> RowType]
    <3>1. [row[s] EXCEPT !.status = "finished", !.lease = 0] \in RowType
      BY Typed, RowUpdate DEF RowStatus
    <3> QED
      BY <1>11, <3>1, Typed DEF Finish
  <2>3. excused' \subseteq Shells \X {"finish", "heartbeat"}
    BY <1>11, Typed DEF Finish
  <2> QED
    BY <1>11, <2>1, <2>2, <2>3, Typed, Retyped DEF Finish, Move, Answer, Stage
<1>12. CASE Close(s)
  <2> DEFINE waiting == queue[Home[s]].waiting
  <2>1. waiting \in Seq(Shells)
    BY Typed DEF EntryType
  <2>2. waiting # <<>> => Tail(waiting) \in Seq(Shells)
    BY <2>1, HeadTailProperties
  <2>3. /\ NoEntry \in EntryType
        /\ waiting # <<>> =>
              [running |-> TRUE, active |-> None, waiting |-> Tail(waiting)] \in EntryType
    BY <2>1, <2>2, EntryUpdate, Typed
  <2>4. queue' = [queue EXCEPT ![Home[s]] =
            IF waiting = <<>> THEN NoEntry
            ELSE [running |-> TRUE, active |-> None, waiting |-> Tail(waiting)]]
    BY <1>12 DEF Close
  <2>5. queue' \in [Owners -> EntryType]
    BY <2>3, <2>4, Typed
  <2>6. stage' \in [Shells -> Stage]
    BY <1>12, Typed DEF Close, Stage
  <2> QED
    BY <1>12, <2>5, <2>6, Typed, Retyped DEF Close
<1> QED
  BY <1>1, <1>2, <1>3, <1>4, <1>5, <1>6, <1>7, <1>8, <1>9, <1>10, <1>11, <1>12 DEF ShellStep

LEMMA CommandStepTypes ==
    ASSUME CommandInvariant, NEW c \in Commands, LookUp(c) \/ Enqueue(c)
    PROVE  TypeOK'
<1> USE GatewayActivityAssumption DEF CommandInvariant, CommandsKept, storeVars, shellVars,
        historyVars
<1>1. CASE LookUp(c)
  <2>1. Newest \in Shells
    BY <1>1, NewestIs DEF LookUp
  <2>2. [status |-> "looked_up", shell |-> Newest] \in CommandType
    BY <2>1 DEF CommandType, CommandStatus
  <2> QED
    BY <1>1, <2>1, <2>2, Typed, Retyped DEF LookUp
<1>2. CASE Enqueue(c)
  <2>1. plan' \in Plan /\ plan'.ticks = plan.ticks
    BY <1>2, FailPlan DEF Enqueue, TypeOK
  <2>2. \A o \in Owners : Append(inbox[o], c) \in Seq(Commands)
    BY AppendProperties DEF TypeOK
  <2>3. inbox' \in [Owners -> Seq(Commands)]
    <3>1. CASE UNCHANGED inbox
      BY <3>1, Typed
    <3>2. CASE inbox' = [inbox EXCEPT ![Home[cmd[c].shell]] = Append(inbox[Home[cmd[c].shell]], c)]
      BY <2>2, <3>2, Typed
    <3> QED
      BY <1>2, <3>1, <3>2 DEF Enqueue
  <2>4. cmd' \in [Commands -> CommandType]
    <3>1. /\ [cmd[c] EXCEPT !.status = "pending"] \in CommandType
          /\ [cmd[c] EXCEPT !.status = "dropped"] \in CommandType
      BY Typed, CommandUpdate DEF CommandStatus
    <3>2. \E x \in {"pending", "dropped"} : cmd' = [cmd EXCEPT ![c].status = x]
      BY <1>2 DEF Enqueue
    <3> QED
      BY <3>1, <3>2, Typed
  <2> QED
    BY <1>2, <2>1, <2>3, <2>4, Typed, Retyped DEF Enqueue
<1> QED
  BY <1>1, <1>2

\* What a task applies next is one of its commands.
LEMMA BatchHead ==
    ASSUME TypeOK, BatchHeld, NEW o \in Owners, runtime[o].at \in {"apply", "mark"}
    PROVE  /\ runtime[o].batch \in Seq(Commands) /\ runtime[o].batch # <<>>
           /\ 1 \in DOMAIN runtime[o].batch
           /\ Head(runtime[o].batch) = runtime[o].batch[1]
           /\ Head(runtime[o].batch) \in Commands
           /\ Tail(runtime[o].batch) \in Seq(Commands)
<1>1. runtime[o].batch \in Seq(Commands) /\ runtime[o].batch # <<>>
  BY DEF TypeOK, BatchHeld
<1> QED
  BY <1>1, HeadTailProperties, ElementOfSeq, EmptySeq, LenProperties

\* A task that goes on with other commands, or rests.
LEMMA BatchType ==
    ASSUME TypeOK, NEW o \in Owners, NEW b \in Seq(Commands),
           runtime' = [runtime EXCEPT ![o] =
                IF b = <<>> THEN Resting ELSE [Resting EXCEPT !.at = "apply", !.batch = b]]
    PROVE  runtime' \in [Owners -> TaskType]
<1>1. [Resting EXCEPT !.at = "apply", !.batch = b]
         \in TaskType
  BY RestType, Typed, TaskUpdate DEF RuntimeStage
<1> QED
  BY <1>1, RestType, Typed

LEMMA RuntimeStepTypes ==
    ASSUME CommandInvariant, NEW o \in Owners, RuntimeStep(o)
    PROVE  TypeOK'
<1> USE GatewayActivityAssumption DEF CommandInvariant, CommandsKept, storeVars, shellVars,
        historyVars
<1>0. Resting \in TaskType /\ runtime \in [Owners -> TaskType]
  BY RestType, Typed
<1>1. CASE Recover(o)
  <2>1. plan' \in Plan /\ plan'.ticks = plan.ticks
    BY <1>1, FailPlan DEF Recover, TypeOK
  <2>2. cmd' \in [Commands -> CommandType]
    <3>1. RecoverCommands => cmd' \in [Commands -> CommandType]
      BY SetStatusType DEF RecoverCommands, CommandStatus
    <3> QED
      BY <1>1, <3>1, Typed DEF Recover
  <2>3. runtime' \in [Owners -> TaskType]
    <3>1. [runtime[o] EXCEPT !.at = "claim"] \in TaskType
      BY <1>0, TaskUpdate DEF RuntimeStage
    <3> QED
      BY <1>1, <1>0, <3>1 DEF Recover
  <2> QED
    BY <1>1, <2>1, <2>2, <2>3, Typed, Retyped DEF Recover
<1>2. CASE ClaimCommands(o)
  <2>1. plan' \in Plan /\ plan'.ticks = plan.ticks
    BY <1>2, FailPlan DEF ClaimCommands, TypeOK
  <2>2. cmd' \in [Commands -> CommandType]
    <3>1. SetStatus(Range(inbox[o]), "applying") => cmd' \in [Commands -> CommandType]
      BY SetStatusType DEF CommandStatus
    <3> QED
      BY <1>2, <3>1, Typed DEF ClaimCommands
  <2>3. inbox[o] \in Seq(Commands)
    BY DEF TypeOK
  <2>4. runtime' \in [Owners -> TaskType]
    BY <1>2, <1>0, <2>3, BatchType DEF ClaimCommands, Rest
  <2>5. inbox' \in [Owners -> Seq(Commands)]
    <3>1. <<>> \in Seq(Commands)
      OBVIOUS
    <3> QED
      BY <1>2, <3>1, Typed DEF ClaimCommands
  <2> QED
    BY <1>2, <2>1, <2>2, <2>4, <2>5, Typed, Retyped DEF ClaimCommands
<1>3. CASE Apply(o)
  <2> DEFINE c == Head(runtime[o].batch)
  <2>1. c \in Commands /\ c = runtime[o].batch[1] /\ 1 \in DOMAIN runtime[o].batch
    BY <1>3, BatchHead DEF Apply
  <2>2. cmd[c].shell \in Shells
    BY <2>1 DEF Addressed, BatchClaimed
  <2>3. Append(effects[c], cmd[c].shell) \in Seq(Shells)
    BY <2>1, <2>2, AppendProperties DEF TypeOK
  <2>4. effects' \in [Commands -> Seq(Shells)]
    BY <1>3, <2>3 DEF Apply, TypeOK
  <2>5. runtime' \in [Owners -> TaskType]
    <3>1. \A v \in {"applied", "failed"} :
             [runtime[o] EXCEPT !.at = "mark", !.verdict = v] \in TaskType
      BY <1>0, TaskUpdate DEF RuntimeStage
    <3> QED
      BY <1>3, <1>0, <3>1 DEF Apply
  <2> QED
    BY <1>3, <2>4, <2>5, Typed, Retyped DEF Apply
<1>4. CASE MarkCommand(o)
  <2>1. plan' \in Plan /\ plan'.ticks = plan.ticks
    BY <1>4, FailPlan DEF MarkCommand, TypeOK
  <2>2. runtime[o].verdict \in CommandStatus
    BY <1>4 DEF MarkCommand, BatchHeld, CommandStatus
  <2>3. cmd' \in [Commands -> CommandType]
    <3>1. SetStatus({Head(runtime[o].batch)}, runtime[o].verdict)
             => cmd' \in [Commands -> CommandType]
      BY <2>2, SetStatusType
    <3> QED
      BY <1>4, <3>1, Typed DEF MarkCommand
  <2>4. Tail(runtime[o].batch) \in Seq(Commands)
    BY <1>4, BatchHead DEF MarkCommand
  <2>5. runtime' \in [Owners -> TaskType]
    BY <1>4, <2>4, BatchType DEF MarkCommand
  <2> QED
    BY <1>4, <2>1, <2>3, <2>5, Typed, Retyped DEF MarkCommand
<1>5. CASE Snapshot(o)
  <2>1. [Resting EXCEPT !.at = "beat", !.snap = tracked \cap ShellsOf(o), !.read = now] \in TaskType
    BY <1>0, Typed, TaskUpdate DEF RuntimeStage
  <2>2. runtime' \in [Owners -> TaskType]
    BY <1>5, <1>0, <2>1 DEF Snapshot
  <2> QED
    BY <1>5, <2>2, Typed, Retyped DEF Snapshot
<1>6. CASE Beat(o)
  <2>1. plan' \in Plan /\ plan'.ticks = plan.ticks
    BY <1>6, FailPlan DEF Beat, TypeOK
  <2>2. runtime[o].snap \subseteq Shells /\ runtime[o].read + Lease \in Nat
    BY Typed DEF TaskType, Plan
  <2>3. \A x \in SUBSET Shells : [Resting EXCEPT !.at = "conclude", !.snap = x] \in TaskType
    BY <1>0, TaskUpdate, Typed DEF RuntimeStage
  <2>4. /\ runtime[o].snap \in SUBSET Shells
        /\ runtime[o].snap \ (runtime[o].snap \cap Active) \in SUBSET Shells
    BY <2>2
  <2>5. runtime' \in [Owners -> TaskType]
    <3>1. \E x \in TaskType : runtime' = [runtime EXCEPT ![o] = x]
      <4>1. \/ runtime' = [runtime EXCEPT ![o] = Resting]
            \/ \E x \in SUBSET Shells :
                  runtime' = [runtime EXCEPT ![o] = [Resting EXCEPT !.at = "conclude", !.snap = x]]
        BY <1>6, <2>4 DEF Beat
      <4> QED
        BY <4>1, <1>0, <2>3
    <3> QED
      BY <3>1, Typed
  <2>6. row' \in [Shells -> RowType]
    <3>1. ASSUME NEW s \in Shells
          PROVE  [row[s] EXCEPT !.lease = runtime[o].read + Lease]
                    \in RowType
      BY <2>2, Typed, RowUpdate DEF RowStatus
    <3> QED
      <4>1. CASE UNCHANGED row
        BY <4>1, Typed
      <4>2. CASE row' = [s \in Shells |-> IF s \in runtime[o].snap \cap Active
                                         THEN [row[s] EXCEPT !.lease = runtime[o].read + Lease]
                                         ELSE row[s]]
        BY <3>1, <4>2, Typed
      <4> QED
        BY <1>6, <4>1, <4>2 DEF Beat
  <2>7. excused' \subseteq Shells \X {"finish", "heartbeat"}
    BY <1>6, <2>2, Typed DEF Beat
  <2> QED
    BY <1>6, <2>1, <2>5, <2>6, <2>7, Typed, Retyped DEF Beat
<1>7. CASE Conclude(o)
  <2>1. runtime' \in [Owners -> TaskType]
    BY <1>7, <1>0 DEF Conclude, Rest
  <2>2. lost' \subseteq Shells
    BY <1>7, Typed DEF Conclude, StillTracked
  <2> QED
    BY <1>7, <2>1, <2>2, Typed, Retyped DEF Conclude
<1> QED
  BY <1>1, <1>2, <1>3, <1>4, <1>5, <1>6, <1>7 DEF RuntimeStep

\* Dropping the Shells that wait keeps types.
LEMMA DropTypes ==
    ASSUME TypeOK, NEW o, DropWaiting(o)
    PROVE  stage' \in [Shells -> Stage] /\ result' \in [Shells -> {None, "ok", "err"}]
BY Typed DEF DropWaiting, Stage

LEMMA ProcessStepTypes ==
    ASSUME CommandInvariant, NEW o \in Owners, ProcessStep(o)
    PROVE  TypeOK'
<1> USE GatewayActivityAssumption DEF CommandInvariant, CommandsKept, storeVars, shellVars,
        historyVars
<1>0. NoEntry \in EntryType
  BY EntryUpdate
<1>1. CASE InterruptLocally(o)
  <2>1. queue' \in [Owners -> EntryType]
    <3>1. <<>> \in Seq(Shells)
      OBVIOUS
    <3>2. [queue[o] EXCEPT !.waiting = <<>>] \in EntryType
      BY <3>1, Typed, EntryUpdate
    <3> QED
      BY <1>1, <3>2, Typed DEF InterruptLocally
  <2> QED
    BY <1>1, <2>1, DropTypes, Typed, Retyped DEF InterruptLocally
<1>2. CASE Shutdown(o)
  BY <1>2, Typed, Retyped DEF Shutdown, ProcState
<1>3. CASE CancelQueue(o)
  <2>1. queue' \in [Owners -> EntryType]
    BY <1>3, <1>0, Typed DEF CancelQueue
  <2> QED
    BY <1>3, <2>1, DropTypes, Typed, Retyped DEF CancelQueue, ProcState
<1>4. CASE StopRuntime(o)
  <2>1. runtime' \in [Owners -> TaskType]
    BY <1>4, RestType, Typed DEF StopRuntime, Rest
  <2> QED
    BY <1>4, <2>1, Typed, Retyped DEF StopRuntime, ProcState
<1>5. CASE Crash(o)
  <2>1. runtime' \in [Owners -> TaskType]
    BY <1>5, RestType, Typed DEF Crash, Rest
  <2>2. queue' \in [Owners -> EntryType]
    BY <1>5, <1>0, Typed DEF Crash
  <2>3. clock' \in [Shells -> 0..plan.ticks]
    BY <1>5, Typed DEF Crash, Plan
  <2>4. stage' \in [Shells -> Stage]
    BY <1>5, Typed DEF Crash, Stage
  <2> QED
    BY <1>5, <2>1, <2>2, <2>3, <2>4, Typed, Retyped DEF Crash, ProcState
<1> QED
  BY <1>1, <1>2, <1>3, <1>4, <1>5 DEF ProcessStep

LEMMA NextTypes == ASSUME CommandInvariant, [Next]_vars PROVE TypeOK'
<1>1. CASE Tick
  BY <1>1, Typed, Retyped DEF Tick, CommandInvariant, Plan, storeVars, shellVars, historyVars
<1>2. CASE UNCHANGED vars
  BY <1>2, Typed, Retyped DEF vars, CommandInvariant, storeVars, shellVars, historyVars
<1> QED
  BY <1>1, <1>2, ShellStepTypes, CommandStepTypes, RuntimeStepTypes, ProcessStepTypes
  DEF Next, Ended

-----------------------------------------------------------------------------
(* The rows: what a granted claim, and any other step, does to them.       *)

LEMMA ClaimRow ==
    ASSUME TypeOK, NEW s \in Shells, Claim(s), ~Refused(s)
    PROVE  /\ row'[s].status = "running" /\ row'[s].gen = Generation + 1
           /\ row'[s].lease = clock[s] + Lease
           /\ \A t \in Shells \ {s} :
                 /\ row'[t].gen = row[t].gen
                 /\ t \in Superseded(s) => row'[t].status = "superseded" /\ row'[t].lease = 0
                 /\ t \notin Superseded(s) => row'[t] = row[t]
<1>1. row \in [Shells -> RowType]
  BY Typed
<1>2. \A t \in Shells : LET r == [row[t] EXCEPT !.status = "superseded", !.lease = 0]
                        IN  r.gen = row[t].gen /\ r.status = "superseded" /\ r.lease = 0
  BY <1>1 DEF RowType
<1>3. row' = [t \in Shells |->
                IF t = s THEN [status |-> "running", gen |-> Generation + 1,
                               lease |-> clock[s] + Lease]
                ELSE IF t \in Superseded(s)
                     THEN [row[t] EXCEPT !.status = "superseded", !.lease = 0]
                     ELSE row[t]]
  BY DEF Claim
<1> QED
  BY <1>2, <1>3

\* What a step that grants no claim may do to a row.
RowKept(t) ==
    /\ row'[t].gen = row[t].gen
    /\ row'[t].status = "running" => row[t].status = "running"
    /\ row'[t].status = "none" <=> row[t].status = "none"

LEMMA RowSteps ==
    ASSUME TypeOK, [Next]_vars
    PROVE  \/ \E s \in Shells : Claim(s) /\ ~Refused(s)
           \/ \A t \in Shells : RowKept(t)
<1> USE DEF storeVars, shellVars, historyVars
<1>0. row \in [Shells -> RowType]
  BY Typed
<1>1. UNCHANGED row => \A t \in Shells : RowKept(t)
  BY DEF RowKept
<1>2. ASSUME NEW s \in Shells, ShellStep(s)
      PROVE  (Claim(s) /\ ~Refused(s)) \/ \A t \in Shells : RowKept(t)
  <2>1. CASE BindThread(s)
    BY <2>1, <1>0 DEF BindThread, RowKept, RowType, Active
  <2>2. CASE Finish(s)
    <3>1. CASE /\ row[s].status = "running"
               /\ row' = [row EXCEPT ![s].status = "finished", ![s].lease = 0]
      BY <3>1, <1>0 DEF RowKept, RowType
    <3> QED
      BY <2>2, <3>1, <1>1 DEF Finish
  <2>3. CASE Claim(s)
    BY <2>3, <1>1 DEF Claim
  <2>4. CASE Admit(s) \/ Enter(s) \/ Register(s) \/ BeginClaim(s) \/ Track(s) \/ Settle(s)
             \/ Abandon(s) \/ ReadAbandoned(s) \/ Close(s)
    BY <2>4, <1>1 DEF Admit, Enter, Register, BeginClaim, Track, Settle, Abandon,
                      ReadAbandoned, Close
  <2> QED
    BY <1>2, <2>1, <2>2, <2>3, <2>4 DEF ShellStep
<1>3. ASSUME NEW o \in Owners, RuntimeStep(o)
      PROVE  \A t \in Shells : RowKept(t)
  <2>1. CASE Beat(o)
    <3>1. CASE row' = [s \in Shells |-> IF s \in runtime[o].snap \cap Active
                                        THEN [row[s] EXCEPT !.lease = runtime[o].read + Lease]
                                        ELSE row[s]]
      BY <3>1, <1>0 DEF RowKept, RowType
    <3> QED
      BY <2>1, <3>1, <1>1 DEF Beat
  <2>2. CASE Recover(o) \/ ClaimCommands(o) \/ Apply(o) \/ MarkCommand(o) \/ Snapshot(o)
             \/ Conclude(o)
    BY <2>2, <1>1 DEF Recover, ClaimCommands, Apply, MarkCommand, Snapshot, Conclude
  <2> QED
    BY <1>3, <2>1, <2>2 DEF RuntimeStep
<1>4. ASSUME NEW o \in Owners, ProcessStep(o)
      PROVE  \A t \in Shells : RowKept(t)
  BY <1>4, <1>1 DEF ProcessStep, InterruptLocally, Shutdown, CancelQueue, StopRuntime, Crash
<1>5. ASSUME NEW c \in Commands, LookUp(c) \/ Enqueue(c)
      PROVE  \A t \in Shells : RowKept(t)
  BY <1>5, <1>1 DEF LookUp, Enqueue
<1>6. CASE Tick \/ Ended \/ UNCHANGED vars
  BY <1>6, <1>1 DEF Tick, Ended, vars
<1> QED
  BY <1>2, <1>3, <1>4, <1>5, <1>6 DEF Next

LEMMA NextNewestGeneration ==
    ASSUME TypeOK, NewestGeneration, [Next]_vars
    PROVE  NewestGeneration'
<1>1. ASSUME NEW s \in Shells, Claim(s), ~Refused(s)
      PROVE  NewestGeneration'
  <2>1. \A t \in Shells : row'[t].gen <= row'[s].gen
    <3>1. Generation \in Nat /\ \A t \in Shells : row[t].gen \in Nat /\ row[t].gen <= Generation
      BY GenerationIs, Typed DEF RowType
    <3> QED
      BY <1>1, <3>1, ClaimRow
  <2> QED
    BY <2>1 DEF NewestGeneration
<1>2. CASE \A t \in Shells : RowKept(t)
  BY <1>2 DEF RowKept, NewestGeneration
<1> QED
  BY <1>1, <1>2, RowSteps

-----------------------------------------------------------------------------
(* The commands.                                                           *)

\* Steps that leave the commands and the tasks alone.
LEMMA CommandsUntouched ==
    ASSUME CommandsKept, UNCHANGED <<cmd, inbox, runtime, effects>>
    PROVE  CommandsKept'
BY DEF CommandsKept, Addressed, InboxPending, BatchClaimed, BatchHeld, EffectsOnce

\* Steps of a task that has no commands at hand afterwards.
LEMMA TaskWithoutBatch ==
    ASSUME TypeOK, CommandsKept, UNCHANGED <<cmd, inbox, effects>>,
           NEW o \in Owners, NEW k, k.batch = <<>>, k.at \notin {"apply", "mark"},
           runtime' = [runtime EXCEPT ![o] = k]
    PROVE  CommandsKept'
<1>1. runtime \in [Owners -> TaskType]
  BY Typed
<1>2. runtime'[o] = k /\ \A p \in Owners \ {o} : runtime'[p] = runtime[p]
  BY <1>1
<1>3. BatchClaimed'
  <2>1. DOMAIN runtime'[o].batch = {}
    BY <1>2
  <2> QED
    BY <1>2, <2>1 DEF CommandsKept, BatchClaimed
<1>4. BatchHeld'
  BY <1>2 DEF CommandsKept, BatchHeld
<1>5. Addressed' /\ InboxPending' /\ EffectsOnce'
  BY DEF CommandsKept, Addressed, InboxPending, EffectsOnce
<1> QED
  BY <1>3, <1>4, <1>5 DEF CommandsKept

\* What waits and what is at hand are commands.
LEMMA Elements ==
    ASSUME TypeOK, NEW o \in Owners
    PROVE  /\ \A i \in DOMAIN inbox[o] : inbox[o][i] \in Commands
           /\ \A i \in DOMAIN runtime[o].batch : runtime[o].batch[i] \in Commands
<1>1. inbox[o] \in Seq(Commands) /\ runtime[o].batch \in Seq(Commands)
  BY Typed DEF TaskType
<1> QED
  BY <1>1, ElementOfSeq, LenProperties

LEMMA StatusSet ==
    ASSUME TypeOK, NEW cs, NEW status, SetStatus(cs, status)
    PROVE  \A c \in Commands :
              /\ cmd'[c].shell = cmd[c].shell
              /\ c \in cs => cmd'[c].status = status
              /\ c \notin cs => cmd'[c] = cmd[c]
<1>1. cmd \in [Commands -> CommandType]
  BY Typed
<1>2. \A c \in Commands : LET r == [cmd[c] EXCEPT !.status = status]
                          IN  r.status = status /\ r.shell = cmd[c].shell
  BY <1>1 DEF CommandType
<1> QED
  BY <1>2 DEF SetStatus

LEMMA LookUpEffect ==
    ASSUME CommandInvariant, NEW c \in Commands, LookUp(c)
    PROVE  CommandsKept'
<1> USE DEF CommandInvariant, CommandsKept
<1>1. /\ UNCHANGED <<inbox, runtime, effects>>
      /\ cmd[c].status = "none"
      /\ cmd' = [cmd EXCEPT ![c] = [status |-> "looked_up", shell |-> Newest]]
      /\ Newest \in Shells
  BY NewestIs DEF LookUp, historyVars
<1>2. /\ cmd'[c].status = "looked_up" /\ cmd'[c].shell \in Shells
      /\ \A d \in Commands \ {c} : cmd'[d] = cmd[d]
  BY <1>1, Typed
<1>3. Addressed'
  BY <1>2 DEF Addressed
<1>4. InboxPending'
  <2>1. \A o \in Owners : \A i \in DOMAIN inbox[o] : inbox[o][i] \in Commands \ {c}
    BY <1>1, Elements DEF InboxPending
  <2> QED
    BY <1>1, <1>2, <2>1 DEF InboxPending
<1>5. BatchClaimed' /\ BatchHeld'
  <2>1. \A o \in Owners : \A i \in DOMAIN runtime[o].batch :
            runtime[o].batch[i] \in Commands \ {c}
    BY <1>1, Elements DEF BatchClaimed
  <2> QED
    BY <1>1, <1>2, <2>1 DEF BatchClaimed, BatchHeld
<1>6. EffectsOnce'
  <2>1. effects[c] = <<>>
    BY <1>1 DEF EffectsOnce
  <2> QED
    BY <1>1, <1>2, <2>1 DEF EffectsOnce
<1> QED
  BY <1>3, <1>4, <1>5, <1>6

LEMMA EnqueueEffect ==
    ASSUME CommandInvariant, NEW c \in Commands, Enqueue(c)
    PROVE  CommandsKept'
<1> USE DEF CommandInvariant, CommandsKept
<1> DEFINE o == Home[cmd[c].shell]
<1>1. /\ UNCHANGED <<runtime, effects>>
      /\ cmd[c].status = "looked_up"
      /\ cmd[c].shell \in Shells /\ o \in Owners
  BY GatewayActivityAssumption DEF Enqueue, historyVars, Addressed
<1>2. /\ cmd'[c].status \in {"pending", "dropped"} /\ cmd'[c].shell = cmd[c].shell
      /\ \A d \in Commands \ {c} : cmd'[d] = cmd[d]
  <2>1. cmd[c] \in CommandType /\ cmd \in [Commands -> CommandType]
    BY Typed
  <2>2. ASSUME NEW x, cmd' = [cmd EXCEPT ![c].status = x]
        PROVE  /\ cmd'[c].status = x /\ cmd'[c].shell = cmd[c].shell
               /\ \A d \in Commands \ {c} : cmd'[d] = cmd[d]
    BY <2>1, <2>2 DEF CommandType
  <2> QED
    BY <2>2 DEF Enqueue
<1>3. Addressed'
  BY <1>1, <1>2 DEF Addressed
<1>4. BatchClaimed' /\ BatchHeld'
  <2>1. \A p \in Owners : \A i \in DOMAIN runtime[p].batch :
            runtime[p].batch[i] \in Commands \ {c}
    BY <1>1, Elements DEF BatchClaimed
  <2> QED
    BY <1>1, <1>2, <2>1 DEF BatchClaimed, BatchHeld
<1>5. EffectsOnce'
  <2>1. effects[c] = <<>>
    BY <1>1 DEF EffectsOnce
  <2> QED
    BY <1>1, <1>2, <2>1 DEF EffectsOnce
<1>6. InboxPending'
  <2>1. \A p \in Owners : \A i \in DOMAIN inbox[p] : inbox[p][i] \in Commands \ {c}
    BY <1>1, Elements DEF InboxPending
  <2>2. CASE UNCHANGED inbox
    BY <1>2, <2>1, <2>2 DEF InboxPending
  <2>3. CASE inbox' = [inbox EXCEPT ![o] = Append(inbox[o], c)] /\ cmd'[c].status = "pending"
    <3> DEFINE n == Len(inbox[o])
    <3>1. inbox[o] \in Seq(Commands) /\ inbox \in [Owners -> Seq(Commands)]
      BY <1>1, Typed
    <3>2. /\ n \in Nat /\ DOMAIN inbox[o] = 1..n
          /\ DOMAIN Append(inbox[o], c) = 1..(n + 1)
          /\ Append(inbox[o], c)[n + 1] = c
          /\ \A i \in 1..n : Append(inbox[o], c)[i] = inbox[o][i]
      BY <3>1, AppendProperties, LenProperties
    <3>3. /\ inbox'[o] = Append(inbox[o], c)
          /\ \A p \in Owners \ {o} : inbox'[p] = inbox[p]
      BY <2>3, <3>1, <1>1
    <3> HIDE DEF n, o
    <3>4. \A i \in 1..(n + 1) : i # n + 1 => i \in 1..n
      BY <3>2
    <3>5. ASSUME NEW i \in DOMAIN inbox'[o]
          PROVE  /\ cmd'[inbox'[o][i]].status = "pending"
                 /\ Home[cmd'[inbox'[o][i]].shell] = o
                 /\ \A j \in DOMAIN inbox'[o] : inbox'[o][j] = inbox'[o][i] => j = i
      <4>1. CASE i = n + 1
        <5>1. inbox'[o][i] = c
          BY <4>1, <3>2, <3>3
        <5>2. \A j \in 1..n : inbox'[o][j] # c
          BY <2>1, <3>2, <3>3, <1>1
        <5> QED
          BY <4>1, <5>1, <5>2, <3>2, <3>3, <3>4, <2>3, <1>2 DEF o
      <4>2. CASE i # n + 1
        <5>1. /\ i \in 1..n /\ inbox'[o][i] = inbox[o][i]
              /\ inbox[o][i] # c /\ inbox[o][i] \in Commands
          BY <4>2, <2>1, <3>2, <3>3, <3>4, <1>1
        <5>2. cmd'[inbox[o][i]] = cmd[inbox[o][i]]
          BY <5>1, <1>2
        <5>3. \A j \in 1..n : inbox'[o][j] = inbox[o][j]
          BY <3>2, <3>3
        <5>4. \A j \in 1..n : inbox[o][j] = inbox[o][i] => j = i
          BY <5>1, <3>2, <1>1 DEF InboxPending
        <5>5. inbox'[o][n + 1] # inbox'[o][i]
          BY <5>1, <3>2, <3>3
        <5>6. \A j \in DOMAIN inbox'[o] : inbox'[o][j] = inbox'[o][i] => j = i
          BY <5>1, <5>3, <5>4, <5>5, <3>2, <3>3, <3>4
        <5>7. cmd[inbox[o][i]].status = "pending" /\ Home[cmd[inbox[o][i]].shell] = o
          BY <5>1, <3>2, <1>1 DEF InboxPending
        <5> QED
          BY <5>1, <5>2, <5>6, <5>7
      <4> QED
        BY <4>1, <4>2
    <3>6. ASSUME NEW p \in Owners \ {o}, NEW i \in DOMAIN inbox'[p]
          PROVE  /\ cmd'[inbox'[p][i]].status = "pending"
                 /\ Home[cmd'[inbox'[p][i]].shell] = p
                 /\ \A j \in DOMAIN inbox'[p] : inbox'[p][j] = inbox'[p][i] => j = i
      BY <3>3, <2>1, <1>2 DEF InboxPending
    <3> QED
      BY <3>5, <3>6 DEF InboxPending
  <2> QED
    <3>1. \/ UNCHANGED inbox
          \/ /\ cmd' = [cmd EXCEPT ![c].status = "pending"]
             /\ inbox' = [inbox EXCEPT ![o] = Append(inbox[o], c)]
      BY DEF Enqueue
    <3>2. cmd' = [cmd EXCEPT ![c].status = "pending"] => cmd'[c].status = "pending"
      BY Typed DEF CommandType
    <3> QED
      BY <2>2, <2>3, <3>1, <3>2
<1> QED
  BY <1>3, <1>4, <1>5, <1>6

LEMMA RecoverEffect ==
    ASSUME CommandInvariant, NEW o \in Owners, Recover(o)
    PROVE  CommandsKept'
<1> USE DEF CommandInvariant, CommandsKept
<1>1. /\ UNCHANGED <<inbox, effects>>
      /\ runtime[o].at = "idle"
      /\ runtime' = [runtime EXCEPT ![o].at = "claim"]
  BY DEF Recover, historyVars
<1>2. \A c \in Commands :
         /\ cmd'[c].shell = cmd[c].shell
         /\ \/ cmd'[c].status = cmd[c].status
            \/ cmd[c].status = "applying" /\ cmd'[c].status = "outcome_indeterminate"
  <2>1. CASE RecoverCommands
    BY <2>1, StatusSet DEF RecoverCommands, Indeterminate
  <2> QED
    BY <2>1 DEF Recover
<1>3. /\ runtime'[o].batch = runtime[o].batch /\ runtime'[o].at = "claim"
      /\ \A p \in Owners \ {o} : runtime'[p] = runtime[p]
  BY <1>1, Typed DEF TaskType
<1>4. runtime[o].batch = <<>>
  BY <1>1 DEF BatchHeld
<1>5. Addressed'
  BY <1>2 DEF Addressed
<1>6. InboxPending'
  <2>1. \A p \in Owners : \A i \in DOMAIN inbox[p] :
            /\ cmd'[inbox[p][i]].shell = cmd[inbox[p][i]].shell
            /\ cmd'[inbox[p][i]].status = cmd[inbox[p][i]].status
    BY <1>2, Elements DEF InboxPending
  <2> QED
    BY <1>1, <2>1 DEF InboxPending
<1>7. BatchClaimed'
  <2>1. DOMAIN runtime'[o].batch = {}
    BY <1>3, <1>4
  <2>2. ASSUME NEW p \in Owners \ {o}, NEW i \in DOMAIN runtime[p].batch
        PROVE  /\ cmd'[runtime[p].batch[i]].shell = cmd[runtime[p].batch[i]].shell
               /\ cmd'[runtime[p].batch[i]].status \in {"applying", "outcome_indeterminate"}
    BY <1>2, Elements DEF BatchClaimed
  <2> QED
    BY <1>1, <1>3, <2>1, <2>2 DEF BatchClaimed
<1>8. BatchHeld'
  BY <1>1, <1>3, <1>4 DEF BatchHeld
<1>9. EffectsOnce'
  BY <1>1, <1>2 DEF EffectsOnce
<1> QED
  BY <1>5, <1>6, <1>7, <1>8, <1>9

\* The fields of the tasks that steps install.
LEMMA TaskFields ==
    /\ Resting.at = "idle" /\ Resting.batch = <<>> /\ Resting.snap = {} /\ Resting.read = 0
    /\ \A b : LET k == [Resting EXCEPT !.at = "apply", !.batch = b]
              IN  k.at = "apply" /\ k.batch = b /\ k.snap = {}
    /\ \A m : LET k == [Resting EXCEPT !.at = "conclude", !.snap = m]
              IN  k.at = "conclude" /\ k.batch = <<>> /\ k.snap = m /\ k.read = 0
    /\ \A m, r : LET k == [Resting EXCEPT !.at = "beat", !.snap = m, !.read = r]
                 IN  k.at = "beat" /\ k.batch = <<>> /\ k.snap = m /\ k.read = r
BY DEF Resting

LEMMA ClaimCommandsEffect ==
    ASSUME CommandInvariant, NEW o \in Owners, ClaimCommands(o)
    PROVE  CommandsKept'
<1> USE DEF CommandInvariant, CommandsKept
<1>1. UNCHANGED effects /\ runtime[o].at = "claim"
  BY DEF ClaimCommands, historyVars
<1>2. CASE Rest(o) /\ UNCHANGED <<cmd, inbox>>
  BY <1>1, <1>2, TaskWithoutBatch, TaskFields DEF Rest
<1>3. CASE /\ SetStatus(Range(inbox[o]), "applying")
           /\ inbox' = [inbox EXCEPT ![o] = <<>>]
           /\ runtime' = [runtime EXCEPT ![o] =
                 IF inbox[o] = <<>> THEN Resting
                 ELSE [Resting EXCEPT !.at = "apply", !.batch = inbox[o]]]
  <2> DEFINE taken == Range(inbox[o])
  <2>1. \A c \in Commands :
            /\ cmd'[c].shell = cmd[c].shell
            /\ c \in taken => cmd'[c].status = "applying"
            /\ c \notin taken => cmd'[c] = cmd[c]
    BY <1>3, StatusSet
  <2>2. /\ inbox'[o] = <<>> /\ \A p \in Owners \ {o} : inbox'[p] = inbox[p]
        /\ \A p \in Owners \ {o} : runtime'[p] = runtime[p]
        /\ runtime'[o].batch = inbox[o]
        /\ runtime'[o].at = IF inbox[o] = <<>> THEN "idle" ELSE "apply"
    BY <1>3, Typed, TaskFields
  <2>3. /\ \A c \in taken : \E i \in DOMAIN inbox[o] : inbox[o][i] = c
        /\ \A i \in DOMAIN inbox[o] : inbox[o][i] \in taken
    BY DEF Range
  <2>4. \A c \in taken : /\ c \in Commands /\ cmd[c].status = "pending"
                         /\ Home[cmd[c].shell] = o /\ effects[c] = <<>>
    BY <2>3, Elements DEF InboxPending, EffectsOnce
  <2> HIDE DEF taken
  <2>5. Addressed'
    BY <2>1, <2>4 DEF Addressed
  <2>6. InboxPending'
    <3>1. ASSUME NEW p \in Owners \ {o}, NEW i \in DOMAIN inbox[p]
          PROVE  cmd'[inbox[p][i]] = cmd[inbox[p][i]]
      <4>1. inbox[p][i] \notin taken
        BY <2>4 DEF InboxPending
      <4> QED
        BY <4>1, <2>1, Elements
    <3>2. DOMAIN inbox'[o] = {}
      BY <2>2
    <3> QED
      BY <2>2, <3>1, <3>2 DEF InboxPending
  <2>7. BatchClaimed'
    <3>1. ASSUME NEW p \in Owners \ {o}, NEW i \in DOMAIN runtime[p].batch
          PROVE  cmd'[runtime[p].batch[i]] = cmd[runtime[p].batch[i]]
      <4>1. runtime[p].batch[i] \notin taken
        BY <2>4 DEF BatchClaimed
      <4> QED
        BY <4>1, <2>1, Elements
    <3>2. ASSUME NEW i \in DOMAIN inbox[o]
          PROVE  /\ cmd'[inbox[o][i]].status = "applying"
                 /\ Home[cmd'[inbox[o][i]].shell] = o
                 /\ \A j \in DOMAIN inbox[o] : inbox[o][j] = inbox[o][i] => j = i
                 /\ effects[inbox[o][i]] = <<>>
      BY <2>1, <2>3, <2>4 DEF InboxPending
    <3>3. ASSUME NEW p \in Owners \ {o}, NEW i \in DOMAIN runtime'[p].batch
          PROVE  LET c == runtime'[p].batch[i] IN
                 /\ cmd'[c].status \in {"applying", "outcome_indeterminate"}
                 /\ Home[cmd'[c].shell] = p
                 /\ \A j \in DOMAIN runtime'[p].batch : runtime'[p].batch[j] = c => j = i
                 /\ effects'[c] # <<>> => i = 1 /\ runtime'[p].at = "mark"
      BY <1>1, <2>2, <3>1 DEF BatchClaimed
    <3> QED
      BY <1>1, <2>2, <3>2, <3>3 DEF BatchClaimed
  <2>8. BatchHeld'
    BY <1>1, <2>2 DEF BatchHeld
  <2>9. EffectsOnce'
    BY <1>1, <2>1, <2>4 DEF EffectsOnce
  <2> QED
    BY <2>5, <2>6, <2>7, <2>8, <2>9
<1> QED
  BY <1>2, <1>3 DEF ClaimCommands

LEMMA ApplyEffect ==
    ASSUME CommandInvariant, NEW o \in Owners, Apply(o)
    PROVE  CommandsKept'
<1> USE DEF CommandInvariant, CommandsKept
<1> DEFINE c == Head(runtime[o].batch)
           hit == Kind[c] = "interrupt" /\ queue[o].active = cmd[c].shell
<1>1. UNCHANGED <<cmd, inbox>> /\ runtime[o].at = "apply"
  BY DEF Apply, storeVars
<1>2. c \in Commands /\ c = runtime[o].batch[1] /\ 1 \in DOMAIN runtime[o].batch
  BY <1>1, BatchHead
<1>3. /\ runtime'[o].at = "mark" /\ runtime'[o].batch = runtime[o].batch
      /\ runtime'[o].verdict = IF hit THEN "applied" ELSE "failed"
      /\ \A p \in Owners \ {o} : runtime'[p] = runtime[p]
  BY Typed DEF Apply, TaskType
<1>4. effects[c] = <<>>
  BY <1>1, <1>2 DEF BatchClaimed
<1>5. /\ effects'[c] = IF hit THEN <<cmd[c].shell>> ELSE <<>>
      /\ \A d \in Commands \ {c} : effects'[d] = effects[d]
  <2>1. Append(<<>>, cmd[c].shell) = <<cmd[c].shell>>
    OBVIOUS
  <2> QED
    BY <1>2, <1>4, <2>1, Typed DEF Apply
<1>6. <<cmd[c].shell>> # <<>>
  OBVIOUS
<1>7. cmd[c].status \in {"applying", "outcome_indeterminate"} /\ Home[cmd[c].shell] = o
  BY <1>2 DEF BatchClaimed
<1> HIDE DEF hit
<1>8. Addressed' /\ InboxPending'
  BY <1>1 DEF Addressed, InboxPending
<1>9. BatchHeld'
  <2>1. ASSUME NEW p \in Owners \ {o}, runtime[p].at = "mark"
        PROVE  effects'[Head(runtime[p].batch)] = effects[Head(runtime[p].batch)]
    <3>1. /\ Head(runtime[p].batch) \in Commands /\ 1 \in DOMAIN runtime[p].batch
          /\ Head(runtime[p].batch) = runtime[p].batch[1]
      BY <2>1, BatchHead
    <3>2. Head(runtime[p].batch) # c
      BY <3>1, <1>7 DEF BatchClaimed
    <3> QED
      BY <3>1, <3>2, <1>5
  <2>2. \A p \in Owners \ {o} :
           /\ runtime'[p].batch # <<>> <=> runtime'[p].at \in {"apply", "mark"}
           /\ runtime'[p].at = "mark" =>
                 runtime'[p].verdict =
                     IF effects'[Head(runtime'[p].batch)] = <<>> THEN "failed" ELSE "applied"
    BY <1>3, <2>1 DEF BatchHeld
  <2>3. /\ runtime'[o].batch # <<>> /\ runtime'[o].at = "mark"
        /\ runtime'[o].verdict = IF effects'[c] = <<>> THEN "failed" ELSE "applied"
    BY <1>1, <1>3, <1>5, <1>6 DEF BatchHeld
  <2>4. Head(runtime'[o].batch) = c
    BY <1>3
  <2> QED
    BY <2>2, <2>3, <2>4 DEF BatchHeld
<1>10. EffectsOnce'
  <2>1. \A d \in Commands \ {c} :
            /\ effects'[d] \in {<<>>, <<cmd'[d].shell>>}
            /\ effects'[d] # <<>> =>
                  cmd'[d].status \in {"applying", "applied", "outcome_indeterminate"}
            /\ cmd'[d].status = "applied" => effects'[d] # <<>>
    BY <1>1, <1>5 DEF EffectsOnce
  <2>2. /\ effects'[c] \in {<<>>, <<cmd'[c].shell>>}
        /\ cmd'[c].status \in {"applying", "outcome_indeterminate"}
    BY <1>1, <1>2, <1>5, <1>7
  <2> QED
    BY <2>1, <2>2 DEF EffectsOnce
<1>11. BatchClaimed'
  <2>1. ASSUME NEW p \in Owners, NEW i \in DOMAIN runtime[p].batch,
               effects'[runtime[p].batch[i]] # <<>>
        PROVE  i = 1 /\ runtime'[p].at = "mark"
    <3>1. runtime[p].batch[i] \in Commands
      BY Elements
    <3>2. CASE runtime[p].batch[i] # c
      <4>1. effects[runtime[p].batch[i]] # <<>>
        BY <2>1, <3>1, <3>2, <1>5
      <4>2. i = 1 /\ runtime[p].at = "mark"
        BY <4>1 DEF BatchClaimed
      <4> QED
        BY <4>2, <1>1, <1>3
    <3>3. CASE runtime[p].batch[i] = c
      <4>1. p = o
        BY <3>3, <1>7 DEF BatchClaimed
      <4>2. i = 1
        BY <3>3, <4>1, <1>2 DEF BatchClaimed
      <4> QED
        BY <4>1, <4>2, <1>3
    <3> QED
      BY <3>2, <3>3
  <2>2. \A p \in Owners : runtime'[p].batch = runtime[p].batch
    BY <1>3
  <2>3. ASSUME NEW p \in Owners, NEW i \in DOMAIN runtime[p].batch
        PROVE  /\ cmd'[runtime[p].batch[i]].status \in {"applying", "outcome_indeterminate"}
               /\ Home[cmd'[runtime[p].batch[i]].shell] = p
               /\ \A j \in DOMAIN runtime[p].batch :
                     runtime[p].batch[j] = runtime[p].batch[i] => j = i
    BY <1>1 DEF BatchClaimed
  <2> QED
    BY <2>1, <2>2, <2>3 DEF BatchClaimed
<1> QED
  BY <1>8, <1>9, <1>10, <1>11

LEMMA MarkCommandEffect ==
    ASSUME CommandInvariant, NEW o \in Owners, MarkCommand(o)
    PROVE  CommandsKept'
<1> USE DEF CommandInvariant, CommandsKept
<1> DEFINE b == runtime[o].batch
           c == Head(b)
           rest == Tail(b)
<1>1. /\ UNCHANGED <<inbox, effects>> /\ runtime[o].at = "mark"
      /\ runtime' = [runtime EXCEPT ![o] =
            IF rest = <<>> THEN Resting ELSE [Resting EXCEPT !.at = "apply", !.batch = rest]]
  BY DEF MarkCommand, historyVars
<1>2. /\ c \in Commands /\ c = b[1] /\ 1 \in DOMAIN b
      /\ b \in Seq(Commands) /\ b # <<>> /\ rest \in Seq(Commands)
  BY <1>1, BatchHead
<1>3. /\ DOMAIN b = 1..Len(b) /\ Len(b) \in Nat
      /\ DOMAIN rest = 1..(Len(b) - 1)
      /\ \A i \in 1..(Len(b) - 1) : rest[i] = b[i + 1]
  BY <1>2, HeadTailProperties, LenProperties
<1>4. /\ runtime'[o].batch = rest
      /\ runtime'[o].at = IF rest = <<>> THEN "idle" ELSE "apply"
      /\ \A p \in Owners \ {o} : runtime'[p] = runtime[p]
  <2>1. \A p \in Owners \ {o} : runtime'[p] = runtime[p]
    BY <1>1, Typed
  <2>2. CASE rest = <<>>
    <3>1. runtime'[o] = Resting
      BY <1>1, <2>2, Typed
    <3> QED
      BY <2>1, <2>2, <3>1, TaskFields
  <2>3. CASE rest # <<>>
    <3>1. runtime'[o] = [Resting EXCEPT !.at = "apply", !.batch = rest]
      BY <1>1, <2>3, Typed
    <3> QED
      BY <2>1, <2>3, <3>1, TaskFields
  <2> QED
    BY <2>2, <2>3
<1>5. /\ cmd[c].status \in {"applying", "outcome_indeterminate"} /\ Home[cmd[c].shell] = o
      /\ runtime[o].verdict = IF effects[c] = <<>> THEN "failed" ELSE "applied"
      /\ effects[c] \in {<<>>, <<cmd[c].shell>>}
  BY <1>1, <1>2 DEF BatchClaimed, BatchHeld, EffectsOnce
<1>6. /\ cmd'[c].shell = cmd[c].shell
      /\ cmd'[c].status \in {cmd[c].status, runtime[o].verdict}
      /\ \A d \in Commands \ {c} : cmd'[d] = cmd[d]
  <2>1. CASE SetStatus({c}, runtime[o].verdict)
    BY <2>1, <1>2, StatusSet
  <2> QED
    BY <2>1 DEF MarkCommand
<1> HIDE DEF c, rest, b
<1>7. Addressed'
  BY <1>2, <1>5, <1>6 DEF Addressed
<1>8. InboxPending'
  <2>1. \A p \in Owners : \A i \in DOMAIN inbox[p] : inbox[p][i] \in Commands \ {c}
    BY <1>5, Elements DEF InboxPending
  <2> QED
    BY <1>1, <1>6, <2>1 DEF InboxPending
<1>9. EffectsOnce'
  <2>1. \A d \in Commands \ {c} :
            /\ effects'[d] \in {<<>>, <<cmd'[d].shell>>}
            /\ effects'[d] # <<>> =>
                  cmd'[d].status \in {"applying", "applied", "outcome_indeterminate"}
            /\ cmd'[d].status = "applied" => effects'[d] # <<>>
    BY <1>1, <1>6 DEF EffectsOnce
  <2>2. /\ effects'[c] \in {<<>>, <<cmd'[c].shell>>}
        /\ effects'[c] # <<>> =>
              cmd'[c].status \in {"applying", "applied", "outcome_indeterminate"}
        /\ cmd'[c].status = "applied" => effects'[c] # <<>>
    BY <1>1, <1>5, <1>6
  <2> QED
    BY <2>1, <2>2 DEF EffectsOnce
<1>10. BatchHeld'
  BY <1>1, <1>4 DEF BatchHeld
<1>11. ASSUME NEW p \in Owners \ {o}, NEW i \in DOMAIN runtime'[p].batch
       PROVE  LET d == runtime'[p].batch[i] IN
              /\ cmd'[d].status \in {"applying", "outcome_indeterminate"}
              /\ Home[cmd'[d].shell] = p
              /\ \A j \in DOMAIN runtime'[p].batch : runtime'[p].batch[j] = d => j = i
              /\ effects'[d] # <<>> => i = 1 /\ runtime'[p].at = "mark"
  <2>1. runtime'[p] = runtime[p]
    BY <1>4
  <2>2. runtime[p].batch[i] \in Commands \ {c}
    BY <2>1, <1>5, Elements DEF BatchClaimed
  <2> QED
    BY <1>1, <1>6, <2>1, <2>2 DEF BatchClaimed
<1>12. ASSUME NEW i \in 1..(Len(b) - 1)
       PROVE  /\ cmd'[rest[i]].status \in {"applying", "outcome_indeterminate"}
              /\ Home[cmd'[rest[i]].shell] = o
              /\ \A j \in 1..(Len(b) - 1) : rest[j] = rest[i] => j = i
              /\ effects'[rest[i]] = <<>>
  <2>1. /\ i + 1 \in DOMAIN b /\ i + 1 # 1
        /\ \A j \in 1..(Len(b) - 1) : j + 1 \in DOMAIN b
    BY <1>3
  <2>2. \A k \in DOMAIN b :
           /\ b[k] \in Commands
           /\ cmd[b[k]].status \in {"applying", "outcome_indeterminate"}
           /\ Home[cmd[b[k]].shell] = o
           /\ \A j \in DOMAIN b : b[j] = b[k] => j = k
           /\ effects[b[k]] # <<>> => k = 1
    BY Elements DEF BatchClaimed, b
  <2>3. b[i + 1] # c /\ rest[i] = b[i + 1]
    BY <2>1, <2>2, <1>2, <1>3
  <2>4. cmd'[rest[i]] = cmd[b[i + 1]]
    BY <2>1, <2>2, <2>3, <1>6
  <2>5. \A j \in 1..(Len(b) - 1) : rest[j] = rest[i] => j = i
    <3> SUFFICES ASSUME NEW j \in 1..(Len(b) - 1), rest[j] = rest[i] PROVE j = i
      OBVIOUS
    <3>1. b[j + 1] = b[i + 1]
      BY <2>3, <1>3
    <3>2. j + 1 = i + 1
      BY <3>1, <2>1, <2>2
    <3> QED
      BY <3>2, <1>3
  <2> QED
    BY <2>1, <2>2, <2>3, <2>4, <2>5, <1>1
<1>13. BatchClaimed'
  <2>1. ASSUME NEW i \in DOMAIN runtime'[o].batch
        PROVE  LET d == runtime'[o].batch[i] IN
               /\ cmd'[d].status \in {"applying", "outcome_indeterminate"}
               /\ Home[cmd'[d].shell] = o
               /\ \A j \in DOMAIN runtime'[o].batch : runtime'[o].batch[j] = d => j = i
               /\ effects'[d] # <<>> => i = 1 /\ runtime'[o].at = "mark"
    BY <1>3, <1>4, <1>12
  <2> QED
    BY <1>11, <2>1 DEF BatchClaimed
<1> QED
  BY <1>7, <1>8, <1>9, <1>10, <1>13

LEMMA NextCommands == CommandInvariant /\ [Next]_vars => CommandInvariant'
<1> SUFFICES ASSUME CommandInvariant, [Next]_vars PROVE CommandsKept'
  BY NextTypes, NextNewestGeneration DEF CommandInvariant
<1> USE DEF CommandInvariant, storeVars, shellVars, historyVars
<1>1. ASSUME NEW s \in Shells, ShellStep(s) PROVE CommandsKept'
  <2>1. UNCHANGED <<cmd, inbox, runtime, effects>>
    BY <1>1 DEF ShellStep, Admit, Enter, Register, BeginClaim, Claim, Track, BindThread, Settle,
                Abandon, ReadAbandoned, Finish, Close
  <2> QED
    BY <2>1, CommandsUntouched
<1>2. ASSUME NEW c \in Commands, LookUp(c) \/ Enqueue(c) PROVE CommandsKept'
  BY <1>2, LookUpEffect, EnqueueEffect
<1>3. ASSUME NEW o \in Owners, RuntimeStep(o) PROVE CommandsKept'
  <2>1. CASE Snapshot(o)
    <3> DEFINE k == [Resting EXCEPT !.at = "beat", !.snap = tracked \cap ShellsOf(o), !.read = now]
    <3>1. /\ UNCHANGED <<cmd, inbox, effects>> /\ runtime' = [runtime EXCEPT ![o] = k]
          /\ k.batch = <<>> /\ k.at = "beat"
      BY <2>1, TaskFields DEF Snapshot
    <3> HIDE DEF k
    <3> QED
      BY <3>1, TaskWithoutBatch
  <2>2. CASE Beat(o)
    <3>1. UNCHANGED <<cmd, inbox, effects>>
      BY <2>2 DEF Beat
    <3>2. PICK k \in {Resting} \cup {[Resting EXCEPT !.at = "conclude", !.snap = m] :
                                     m \in SUBSET Shells} :
             runtime' = [runtime EXCEPT ![o] = k]
      <4>1. runtime[o].snap \subseteq Shells
        BY Typed DEF TaskType
      <4> QED
        BY <2>2, <4>1 DEF Beat
    <3>3. k.batch = <<>> /\ k.at \notin {"apply", "mark"}
      <4>1. CASE k = Resting
        BY <4>1, TaskFields
      <4>2. ASSUME NEW m \in SUBSET Shells, k = [Resting EXCEPT !.at = "conclude", !.snap = m]
            PROVE  k.batch = <<>> /\ k.at = "conclude"
        BY <4>2, TaskFields
      <4> QED
        BY <4>1, <4>2, <3>2
    <3> QED
      BY <3>1, <3>2, <3>3, TaskWithoutBatch
  <2>3. CASE Conclude(o)
    <3>1. UNCHANGED <<cmd, inbox, effects>> /\ runtime' = [runtime EXCEPT ![o] = Resting]
      BY <2>3 DEF Conclude, Rest
    <3> QED
      BY <3>1, TaskWithoutBatch, TaskFields
  <2> QED
    BY <1>3, <2>1, <2>2, <2>3, RecoverEffect, ClaimCommandsEffect, ApplyEffect,
       MarkCommandEffect DEF RuntimeStep
<1>4. ASSUME NEW o \in Owners, ProcessStep(o) PROVE CommandsKept'
  <2>1. /\ UNCHANGED <<cmd, inbox, effects>>
        /\ UNCHANGED runtime \/ runtime' = [runtime EXCEPT ![o] = Resting]
    BY <1>4 DEF ProcessStep, InterruptLocally, Shutdown, CancelQueue, StopRuntime, Crash, Rest
  <2> QED
    BY <2>1, CommandsUntouched, TaskWithoutBatch, TaskFields
<1>5. CASE Tick \/ Ended \/ UNCHANGED vars
  BY <1>5, CommandsUntouched DEF Tick, Ended, vars
<1> QED
  BY <1>1, <1>2, <1>3, <1>4, <1>5 DEF Next

LEMMA InitCommands == Init => CommandInvariant
<1> SUFFICES ASSUME Init PROVE CommandInvariant
  OBVIOUS
<1> USE GatewayActivityAssumption
<1>1. Resting \in TaskType /\ plan \in Plan
  <2>1. plan \in Plan /\ 0 \in 0..plan.ticks
    BY DEF Init, Plan
  <2>2. <<>> \in Seq(Commands)
    OBVIOUS
  <2> QED
    BY <2>1, <2>2 DEF Resting, TaskType, RuntimeStage
<1>2. TypeOK
  <2>1. runtime \in [Owners -> TaskType]
    BY <1>1 DEF Init
  <2>2. queue \in [Owners -> EntryType]
    BY EntryUpdate DEF Init
  <2>3. /\ row \in [Shells -> RowType] /\ cmd \in [Commands -> CommandType]
        /\ proc \in [Owners -> ProcState] /\ stage \in [Shells -> Stage]
    BY DEF Init, RowType, CommandType, RowStatus, CommandStatus, ProcState, Stage
  <2>4. /\ now \in 0..plan.ticks /\ clock \in [Shells -> 0..plan.ticks]
        /\ tracked \subseteq Shells /\ lost \subseteq Shells
        /\ result \in [Shells -> {None, "ok", "err"}]
        /\ excused \subseteq Shells \X {"finish", "heartbeat"}
    BY <1>1 DEF Init, Plan
  <2>5. inbox \in [Owners -> Seq(Commands)] /\ effects \in [Commands -> Seq(Shells)]
    BY DEF Init
  <2> QED
    BY <1>1, <2>1, <2>2, <2>3, <2>4, <2>5 DEF TypeOK, RowType, CommandType, EntryType, TaskType
<1>3. NewestGeneration
  BY DEF Init, NewestGeneration
<1>4. CommandsKept
  <2>1. \A o \in Owners : runtime[o].batch = <<>> /\ runtime[o].at = "idle"
    BY TaskFields DEF Init
  <2>2. Addressed /\ EffectsOnce
    BY DEF Init, Addressed, EffectsOnce
  <2>3. InboxPending /\ BatchClaimed /\ BatchHeld
    BY <2>1 DEF Init, InboxPending, BatchClaimed, BatchHeld
  <2> QED
    BY <2>2, <2>3 DEF CommandsKept
<1> QED
  BY <1>2, <1>3, <1>4 DEF CommandInvariant

LEMMA CommandsInvariant == Spec => []CommandInvariant
<1>1. Init => CommandInvariant
  BY InitCommands
<1>2. CommandInvariant /\ [Next]_vars => CommandInvariant'
  BY NextCommands
<1> QED
  BY <1>1, <1>2, PTL DEF Spec

\* Every variable keeps its type, for every set of processes, Shells and
\* commands, and every plan.
THEOREM ActivityTypeOK == Spec => []TypeOK
<1>1. CommandInvariant => TypeOK
  BY DEF CommandInvariant
<1> QED
  BY <1>1, CommandsInvariant, PTL

\* The row of a control command tells the truth about its side effect, however
\* processes, recovery and failing transactions interleave
\* (apply_pending_gateway_control_commands).
THEOREM ActivityCommandsHonest == Spec => []CommandsHonest
<1>1. CommandInvariant => CommandsHonest
  <2> SUFFICES ASSUME CommandInvariant, NEW c \in Commands
               PROVE  /\ Len(effects[c]) <= 1
                      /\ Range(effects[c]) \subseteq {cmd[c].shell}
                      /\ cmd[c].status = "applied" => effects[c] # <<>>
                      /\ cmd[c].status \in {"pending", "failed", "dropped"} => effects[c] = <<>>
    BY DEF CommandsHonest
  <2>1. EffectsOnce
    BY DEF CommandInvariant, CommandsKept
  <2>2. CASE effects[c] = <<>>
    BY <2>1, <2>2 DEF EffectsOnce, Range
  <2>3. CASE effects[c] = <<cmd[c].shell>>
    BY <2>1, <2>3 DEF EffectsOnce, Range
  <2> QED
    BY <2>1, <2>2, <2>3 DEF EffectsOnce
<1> QED
  BY <1>1, CommandsInvariant, PTL

-----------------------------------------------------------------------------
(* The queues.                                                             *)

\* How far the Shells of Working are.
WorkStage == {"spawned", "registered", "claiming", "claimed", "running", "abandoned", "settled",
              "closing"}

LEMMA Waiting ==
    ASSUME TypeOK, NEW o \in Owners
    PROVE  /\ queue[o].waiting \in Seq(Shells)
           /\ Len(queue[o].waiting) \in Nat
           /\ DOMAIN queue[o].waiting = 1..Len(queue[o].waiting)
           /\ \A i \in DOMAIN queue[o].waiting : queue[o].waiting[i] \in Shells
<1>1. queue[o].waiting \in Seq(Shells)
  BY Typed DEF EntryType
<1> QED
  BY <1>1, LenProperties, ElementOfSeq

\* Steps that leave the stages, the queues and the processes alone.
LEMMA QueuesUntouched ==
    ASSUME QueuesKept, UNCHANGED <<stage, queue, proc>>
    PROVE  QueuesKept'
BY DEF QueuesKept, QueueKept, OneAtATime, EndedHoldsNothing, Working, Alive

\* Steps of a spawned Shell that is not over.
LEMMA WorkGoesOn ==
    ASSUME TypeOK, QueuesKept, NEW s \in Shells, stage[s] \in WorkStage,
           NEW x \in WorkStage, Move(s, x), UNCHANGED proc,
           \A o \in Owners : /\ queue'[o].running = queue[o].running
                             /\ queue'[o].waiting = queue[o].waiting
                             /\ o = Home[s] \/ queue'[o] = queue[o]
    PROVE  QueuesKept'
<1> USE DEF QueuesKept
<1>1. stage'[s] = x /\ \A t \in Shells \ {s} : stage'[t] = stage[t]
  BY Typed DEF Move
<1>2. Working' = Working
  BY <1>1 DEF Working, WorkStage
<1>3. \A t \in Shells : stage'[t] = "queued" <=> stage[t] = "queued"
  BY <1>1 DEF WorkStage
<1>4. QueueKept'
  <2>1. ASSUME NEW o \in Owners, NEW i \in DOMAIN queue[o].waiting
        PROVE  stage'[queue[o].waiting[i]] = "queued"
    BY <1>3, Waiting DEF QueueKept
  <2> QED
    BY <1>2, <1>3, <2>1 DEF QueueKept
<1>5. OneAtATime'
  BY <1>2 DEF OneAtATime
<1>6. EndedHoldsNothing'
  <2>1. Home[s] \in Owners /\ Alive(Home[s])
    BY GatewayActivityAssumption DEF EndedHoldsNothing, WorkStage
  <2>2. \A o \in Owners : Alive(o)' <=> Alive(o)
    BY DEF Alive
  <2> QED
    BY <1>1, <2>1, <2>2 DEF EndedHoldsNothing, Alive
<1> QED
  BY <1>4, <1>5, <1>6

LEMMA AdmitQueues ==
    ASSUME TypeOK, QueuesKept, NEW s \in Shells, Admit(s)
    PROVE  QueuesKept'
<1> USE DEF QueuesKept
<1>1. /\ UNCHANGED <<proc, queue>> /\ stage[s] = "new"
      /\ stage'[s] \in {"admitted", "done"}
      /\ \A t \in Shells \ {s} : stage'[t] = stage[t]
      /\ stage'[s] = "admitted" => Alive(Home[s])
  BY Typed DEF Admit, Move, Alive
<1>2. Working' = Working
  BY <1>1 DEF Working
<1>3. QueueKept'
  <2>1. ASSUME NEW o \in Owners, NEW i \in DOMAIN queue[o].waiting
        PROVE  stage'[queue[o].waiting[i]] = "queued"
    BY <1>1, Waiting DEF QueueKept
  <2> QED
    BY <1>1, <1>2, <2>1 DEF QueueKept
<1>4. OneAtATime'
  BY <1>1, <1>2 DEF OneAtATime
<1>5. EndedHoldsNothing'
  BY <1>1 DEF EndedHoldsNothing, Alive
<1> QED
  BY <1>3, <1>4, <1>5

LEMMA EnterQueues ==
    ASSUME TypeOK, QueuesKept, NEW s \in Shells, Enter(s)
    PROVE  QueuesKept'
<1> USE GatewayActivityAssumption DEF QueuesKept
<1> DEFINE o == Home[s]
           w == queue[o].waiting
<1>1. /\ UNCHANGED proc /\ stage[s] = "admitted" /\ Alive(o) /\ o \in Owners
      /\ \A p \in Owners : Alive(p)' <=> Alive(p)
  BY DEF Enter, Alive
<1>2. \A p \in Owners : \A i \in DOMAIN queue[p].waiting :
         queue[p].waiting[i] # s /\ queue[p].waiting[i] \in Shells
  BY <1>1, Waiting DEF QueueKept
<1>3. CASE /\ ~queue[o].running
           /\ queue' = [queue EXCEPT ![o].running = TRUE]
           /\ Move(s, "spawned")
  <2>1. /\ stage'[s] = "spawned" /\ \A t \in Shells \ {s} : stage'[t] = stage[t]
        /\ queue'[o].running /\ queue'[o].waiting = w
        /\ \A p \in Owners \ {o} : queue'[p] = queue[p]
    BY <1>1, <1>3, Typed DEF Move, EntryType
  <2>2. s \in Working' /\ s \notin Working
        /\ \A t \in Shells \ {s} : t \in Working' <=> t \in Working
    BY <1>1, <2>1 DEF Working
  <2>3. QueueKept'
    <3>1. \A p \in Owners : queue'[p].waiting = queue[p].waiting
      BY <2>1
    <3>2. ASSUME NEW p \in Owners, NEW i \in DOMAIN queue[p].waiting
          PROVE  stage'[queue[p].waiting[i]] = "queued"
      BY <1>2, <2>1 DEF QueueKept
    <3>3. \A p \in Owners : queue'[p].running => \E t \in Working' : Home[t] = p
      BY <2>1, <2>2 DEF QueueKept, Working
    <3>4. \A p \in Owners : queue'[p].waiting # <<>> => queue'[p].running
      BY <2>1 DEF QueueKept
    <3>5. \A p \in Owners : \A t \in Shells : stage'[t] = "queued" /\ Home[t] = p =>
              \E i \in DOMAIN queue[p].waiting : queue[p].waiting[i] = t
      BY <2>1 DEF QueueKept
    <3> QED
      BY <3>1, <3>2, <3>3, <3>4, <3>5 DEF QueueKept
  <2>4. OneAtATime'
    BY <1>1, <1>3, <2>1, <2>2 DEF OneAtATime, Working
  <2>5. EndedHoldsNothing'
    BY <1>1, <2>1 DEF EndedHoldsNothing, Alive
  <2> QED
    BY <2>3, <2>4, <2>5
<1>4. CASE /\ queue[o].running
           /\ queue' = [queue EXCEPT ![o].waiting = Append(w, s)]
           /\ Move(s, "queued")
  <2>1. /\ stage'[s] = "queued" /\ \A t \in Shells \ {s} : stage'[t] = stage[t]
        /\ queue'[o].running /\ queue'[o].waiting = Append(w, s)
        /\ \A p \in Owners \ {o} : queue'[p] = queue[p]
    BY <1>1, <1>4, Typed DEF Move, EntryType
  <2>2. Working' = Working
    BY <1>1, <2>1 DEF Working
  <2> DEFINE n == Len(w)
  <2>3. /\ n \in Nat /\ DOMAIN w = 1..n
        /\ DOMAIN Append(w, s) = 1..(n + 1)
        /\ Append(w, s)[n + 1] = s
        /\ \A i \in 1..n : Append(w, s)[i] = w[i]
        /\ \A i \in 1..(n + 1) : i # n + 1 => i \in 1..n
        /\ 1..n \subseteq 1..(n + 1) /\ n + 1 \in 1..(n + 1)
    <3>1. w \in Seq(Shells)
      BY <1>1, Waiting
    <3> QED
      BY <3>1, AppendProperties, LenProperties
  <2> HIDE DEF n, w
  <2>4. ASSUME NEW i \in 1..(n + 1)
        PROVE  LET a == Append(w, s) IN
               /\ stage'[a[i]] = "queued" /\ Home[a[i]] = o
               /\ \A j \in 1..(n + 1) : a[j] = a[i] => j = i
    <3>1. \A k \in 1..n : /\ stage'[w[k]] = "queued" /\ Home[w[k]] = o /\ w[k] # s
                          /\ \A j \in 1..n : w[j] = w[k] => j = k
      BY <1>1, <1>2, <2>1, <2>3 DEF QueueKept, w
    <3>2. CASE i = n + 1
      BY <2>1, <2>3, <3>1, <3>2
    <3>3. CASE i # n + 1
      BY <2>3, <3>1, <3>3
    <3> QED
      BY <3>2, <3>3
  <2>5. QueueKept'
    <3>1. ASSUME NEW p \in Owners, NEW i \in DOMAIN queue'[p].waiting
          PROVE  /\ stage'[queue'[p].waiting[i]] = "queued"
                 /\ Home[queue'[p].waiting[i]] = p
                 /\ \A j \in DOMAIN queue'[p].waiting :
                       queue'[p].waiting[j] = queue'[p].waiting[i] => j = i
      <4>1. CASE p = o
        BY <4>1, <2>1, <2>3, <2>4
      <4>2. CASE p # o
        BY <4>2, <2>1, <1>2 DEF QueueKept
      <4> QED
        BY <4>1, <4>2
    <3>2. ASSUME NEW p \in Owners, NEW t \in Shells, stage'[t] = "queued", Home[t] = p
          PROVE  \E i \in DOMAIN queue'[p].waiting : queue'[p].waiting[i] = t
      <4>1. CASE t = s
        BY <3>2, <4>1, <2>1, <2>3
      <4>2. CASE t # s
        <5>1. PICK i \in DOMAIN queue[p].waiting : queue[p].waiting[i] = t
          BY <3>2, <4>2, <2>1 DEF QueueKept
        <5>2. CASE p = o
          BY <5>1, <5>2, <2>1, <2>3 DEF w
        <5>3. CASE p # o
          BY <5>1, <5>3, <2>1
        <5> QED
          BY <5>2, <5>3
      <4> QED
        BY <4>1, <4>2
    <3>3. \A p \in Owners : queue'[p].waiting # <<>> => queue'[p].running
      BY <2>1 DEF QueueKept
    <3>4. \A p \in Owners : queue'[p].running => \E t \in Working' : Home[t] = p
      BY <1>1, <1>4, <2>1, <2>2 DEF QueueKept
    <3> QED
      BY <3>1, <3>2, <3>3, <3>4 DEF QueueKept
  <2>6. OneAtATime'
    BY <1>1, <1>4, <2>1, <2>2 DEF OneAtATime
  <2>7. EndedHoldsNothing'
    BY <1>1, <2>1 DEF EndedHoldsNothing, Alive
  <2> QED
    BY <2>5, <2>6, <2>7
<1>5. CASE UNCHANGED queue /\ Move(s, "done")
  <2>1. stage'[s] = "done" /\ \A t \in Shells \ {s} : stage'[t] = stage[t]
    BY <1>5, Typed DEF Move
  <2>2. Working' = Working
    BY <1>1, <2>1 DEF Working
  <2>3. QueueKept'
    <3>1. ASSUME NEW p \in Owners, NEW i \in DOMAIN queue[p].waiting
          PROVE  stage'[queue[p].waiting[i]] = "queued"
      BY <1>2, <2>1 DEF QueueKept
    <3> QED
      BY <1>5, <2>1, <2>2, <3>1 DEF QueueKept
  <2>4. OneAtATime'
    BY <1>1, <1>5, <2>2 DEF OneAtATime
  <2>5. EndedHoldsNothing'
    BY <1>1, <1>5, <2>1 DEF EndedHoldsNothing, Alive
  <2> QED
    BY <2>3, <2>4, <2>5
<1> QED
  BY <1>3, <1>4, <1>5 DEF Enter

LEMMA CloseQueues ==
    ASSUME TypeOK, QueuesKept, NEW s \in Shells, Close(s)
    PROVE  QueuesKept'
<1> USE GatewayActivityAssumption DEF QueuesKept
<1> DEFINE o == Home[s]
           w == queue[o].waiting
           n == Len(w)
<1>1. /\ UNCHANGED proc /\ stage[s] = "closing" /\ o \in Owners /\ Alive(o)
      /\ \A p \in Owners : Alive(p)' <=> Alive(p)
  BY DEF Close, Alive
<1>2. /\ w \in Seq(Shells) /\ n \in Nat /\ DOMAIN w = 1..n
      /\ \A i \in 1..n : w[i] \in Shells
  BY <1>1, Waiting
<1>3. \A i \in 1..n : /\ stage[w[i]] = "queued" /\ Home[w[i]] = o /\ w[i] # s
                      /\ \A j \in 1..n : w[j] = w[i] => j = i
  BY <1>1, <1>2 DEF QueueKept
<1>4. \A p \in Owners \ {o} : queue'[p] = queue[p]
  BY Typed DEF Close
<1>5. CASE w = <<>>
  <2>1. /\ stage'[s] = "done" /\ \A t \in Shells \ {s} : stage'[t] = stage[t]
        /\ queue'[o] = NoEntry
    BY <1>1, <1>5, Typed DEF Close
  <2>2. ~queue'[o].running /\ queue'[o].waiting = <<>>
    BY <2>1 DEF NoEntry
  <2>3. /\ s \in Working /\ s \notin Working'
        /\ \A t \in Shells \ {s} : t \in Working' <=> t \in Working
    BY <1>1, <2>1 DEF Working
  <2>4. QueueKept'
    <3>1. ASSUME NEW p \in Owners \ {o}, NEW i \in DOMAIN queue[p].waiting
          PROVE  stage'[queue[p].waiting[i]] = "queued"
      BY <1>1, <2>1, Waiting DEF QueueKept
    <3>2. \A t \in Shells : Home[t] = o => stage'[t] # "queued"
      BY <1>1, <1>5, <2>1 DEF QueueKept
    <3>3. \A p \in Owners \ {o} : queue[p].running => \E t \in Working' : Home[t] = p
      BY <2>3 DEF QueueKept, Working
    <3>4. ASSUME NEW p \in Owners \ {o}
          PROVE  /\ \A i \in DOMAIN queue'[p].waiting :
                      /\ stage'[queue'[p].waiting[i]] = "queued"
                      /\ Home[queue'[p].waiting[i]] = p
                      /\ \A j \in DOMAIN queue'[p].waiting :
                            queue'[p].waiting[j] = queue'[p].waiting[i] => j = i
                 /\ \A t \in Shells : stage'[t] = "queued" /\ Home[t] = p =>
                      \E i \in DOMAIN queue'[p].waiting : queue'[p].waiting[i] = t
                 /\ queue'[p].waiting # <<>> => queue'[p].running
      BY <1>4, <2>1, <3>1 DEF QueueKept
    <3>5. DOMAIN queue'[o].waiting = {}
      BY <2>2
    <3> QED
      BY <1>4, <2>2, <3>2, <3>3, <3>4, <3>5 DEF QueueKept
  <2>5. OneAtATime'
    BY <1>1, <1>4, <2>3 DEF OneAtATime, Working
  <2>6. EndedHoldsNothing'
    BY <1>1, <1>4, <2>1 DEF EndedHoldsNothing, Alive
  <2> QED
    BY <2>4, <2>5, <2>6
<1>6. CASE w # <<>>
  <2> DEFINE h == Head(w)
             v == Tail(w)
  <2>1. /\ h = w[1] /\ 1 \in 1..n /\ h \in Shells
        /\ DOMAIN v = 1..(n - 1) /\ \A i \in 1..(n - 1) : v[i] = w[i + 1] /\ i + 1 \in 1..n
        /\ \A i \in 1..n : i # 1 => i - 1 \in 1..(n - 1) /\ v[i - 1] = w[i]
    BY <1>2, <1>6, HeadTailProperties, EmptySeq
  <2>2. h # s /\ stage[h] = "queued" /\ Home[h] = o
    BY <1>3, <2>1
  <2>3. /\ stage'[s] = "done" /\ stage'[h] = "spawned"
        /\ \A t \in Shells \ {s, h} : stage'[t] = stage[t]
        /\ queue'[o].running /\ queue'[o].waiting = v
    BY <1>1, <1>6, <2>1, <2>2, Typed DEF Close
  <2> HIDE DEF h, v, w, n, o
  <2>4. /\ s \in Working /\ s \notin Working' /\ h \in Working'
        /\ \A t \in Shells \ {s, h} : t \in Working' <=> t \in Working
    BY <1>1, <2>1, <2>3 DEF Working
  <2>5. ASSUME NEW i \in 1..(n - 1)
        PROVE  /\ stage'[v[i]] = "queued" /\ Home[v[i]] = o
               /\ \A j \in 1..(n - 1) : v[j] = v[i] => j = i
    <3>1. i + 1 \in 1..n /\ v[i] = w[i + 1] /\ i + 1 # 1
      BY <1>2, <2>1
    <3>2. w[i + 1] \in Shells \ {s, h} /\ stage[w[i + 1]] = "queued" /\ Home[w[i + 1]] = o
      BY <1>2, <1>3, <2>1, <3>1
    <3>3. ASSUME NEW j \in 1..(n - 1), v[j] = v[i] PROVE j = i
      <4>1. j + 1 \in 1..n /\ w[j + 1] = w[i + 1]
        BY <2>1, <3>1, <3>3
      <4>2. j + 1 = i + 1
        BY <4>1, <3>1, <1>3
      <4> QED
        BY <4>2, <1>2
    <3> QED
      BY <2>3, <3>1, <3>2, <3>3
  <2>6. QueueKept'
    <3>1. ASSUME NEW p \in Owners, NEW i \in DOMAIN queue'[p].waiting
          PROVE  /\ stage'[queue'[p].waiting[i]] = "queued"
                 /\ Home[queue'[p].waiting[i]] = p
                 /\ \A j \in DOMAIN queue'[p].waiting :
                       queue'[p].waiting[j] = queue'[p].waiting[i] => j = i
      <4>1. CASE p = o
        BY <4>1, <2>1, <2>3, <2>5
      <4>2. CASE p # o
        <5>1. queue'[p] = queue[p]
          BY <1>4, <4>2
        <5>2. queue[p].waiting[i] \in Shells \ {s, h}
          BY <1>1, <2>2, <4>2, <5>1, Waiting DEF QueueKept
        <5> QED
          BY <2>3, <5>1, <5>2 DEF QueueKept
      <4> QED
        BY <4>1, <4>2
    <3>2. ASSUME NEW p \in Owners, NEW t \in Shells, stage'[t] = "queued", Home[t] = p
          PROVE  \E i \in DOMAIN queue'[p].waiting : queue'[p].waiting[i] = t
      <4>1. t \notin {s, h} /\ stage[t] = "queued"
        BY <3>2, <2>3
      <4>2. PICK i \in DOMAIN queue[p].waiting : queue[p].waiting[i] = t
        BY <3>2, <4>1 DEF QueueKept
      <4>3. CASE p = o
        <5>1. i \in 1..n /\ w[i] = t
          BY <4>2, <4>3, <1>2 DEF w
        <5>2. i # 1
          BY <5>1, <4>1, <2>1
        <5> QED
          BY <4>3, <5>1, <5>2, <2>1, <2>3
      <4>4. CASE p # o
        BY <4>2, <4>4, <1>4
      <4> QED
        BY <4>3, <4>4
    <3>3. \A p \in Owners : queue'[p].waiting # <<>> => queue'[p].running
      BY <1>4, <2>3 DEF QueueKept
    <3>4. ASSUME NEW p \in Owners, queue'[p].running
          PROVE  \E t \in Working' : Home[t] = p
      <4>1. CASE p = o
        BY <4>1, <2>2, <2>4
      <4>2. CASE p # o
        <5>1. PICK t \in Working : Home[t] = p
          BY <3>4, <4>2, <1>4 DEF QueueKept
        <5>2. t \in Shells \ {s, h}
          BY <5>1, <4>2, <2>2 DEF Working, o
        <5> QED
          BY <5>1, <5>2, <2>4
      <4> QED
        BY <4>1, <4>2
    <3> QED
      BY <3>1, <3>2, <3>3, <3>4 DEF QueueKept
  <2>7. OneAtATime'
    <3> SUFFICES ASSUME NEW p \in Owners, proc[p] \notin {"cancelled", "lost"}
                 PROVE  /\ \A t, u \in Working' : Home[t] = p /\ Home[u] = p => t = u
                        /\ ~queue'[p].running => \A t \in Working' : Home[t] # p
      BY <1>1 DEF OneAtATime
    <3>1. CASE p = o
      <4>1. \A t \in Working' : Home[t] = o => t = h
        <5> SUFFICES ASSUME NEW t \in Working', Home[t] = o, t # h PROVE FALSE
          OBVIOUS
        <5>1. t \in Working /\ t # s
          BY <2>4 DEF Working
        <5> QED
          BY <5>1, <2>4, <3>1 DEF OneAtATime, o
      <4> QED
        BY <3>1, <4>1, <2>3
    <3>2. CASE p # o
      <4>1. \A t \in Working' : Home[t] = p => t \in Working
        BY <3>2, <2>2, <2>4 DEF Working
      <4> QED
        BY <3>2, <4>1, <1>4 DEF OneAtATime
    <3> QED
      BY <3>1, <3>2
  <2>8. EndedHoldsNothing'
    <3>1. \A p \in Owners : ~Alive(p) => p # o
      BY <1>1
    <3> QED
      BY <1>1, <1>4, <2>2, <2>3, <3>1 DEF EndedHoldsNothing, Alive, o
  <2> QED
    BY <2>6, <2>7, <2>8
<1> QED
  BY <1>5, <1>6

\* The Shells that wait, and only they, end when a queue is emptied.
LEMMA Dropped ==
    ASSUME TypeOK, QueueKept, NEW o \in Owners, DropWaiting(o)
    PROVE  \A t \in Shells :
              IF stage[t] = "queued" /\ Home[t] = o
              THEN stage'[t] = "done" /\ result'[t] = "err"
              ELSE stage'[t] = stage[t] /\ result'[t] = result[t]
<1>1. \A t \in Shells : t \in Range(queue[o].waiting) <=> stage[t] = "queued" /\ Home[t] = o
  BY DEF QueueKept, Range
<1> QED
  BY <1>1 DEF DropWaiting

\* A step that empties a queue keeps the queues, and what else it may do to the
\* process that is being cancelled.
LEMMA DropQueues ==
    ASSUME TypeOK, QueuesKept, NEW o \in Owners, DropWaiting(o), Alive(o), Alive(o)',
           queue'[o].waiting = <<>>,
           queue'[o].running => queue[o].running,
           ~queue'[o].running => ~queue[o].running \/ proc'[o] = "cancelled",
           proc'[o] \in {proc[o], "cancelled"}, proc[o] = "cancelled" => proc'[o] = "cancelled",
           \A p \in Owners \ {o} : queue'[p] = queue[p] /\ proc'[p] = proc[p]
    PROVE  QueuesKept'
<1> USE DEF QueuesKept
<1>1. \A t \in Shells : IF stage[t] = "queued" /\ Home[t] = o THEN stage'[t] = "done"
                                                             ELSE stage'[t] = stage[t]
  BY Dropped
<1>2. Working' = Working
  BY <1>1 DEF Working
<1>3. QueueKept'
  <2>1. DOMAIN queue'[o].waiting = {}
    OBVIOUS
  <2>2. ASSUME NEW p \in Owners \ {o}, NEW i \in DOMAIN queue[p].waiting
        PROVE  stage'[queue[p].waiting[i]] = "queued"
    BY <1>1, Waiting DEF QueueKept
  <2>3. ASSUME NEW p \in Owners \ {o}
        PROVE  /\ \A i \in DOMAIN queue'[p].waiting :
                    /\ stage'[queue'[p].waiting[i]] = "queued"
                    /\ Home[queue'[p].waiting[i]] = p
                    /\ \A j \in DOMAIN queue'[p].waiting :
                          queue'[p].waiting[j] = queue'[p].waiting[i] => j = i
               /\ \A t \in Shells : stage'[t] = "queued" /\ Home[t] = p =>
                    \E i \in DOMAIN queue'[p].waiting : queue'[p].waiting[i] = t
               /\ queue'[p].waiting # <<>> => queue'[p].running
               /\ queue'[p].running => \E t \in Working' : Home[t] = p
    BY <1>1, <1>2, <2>2 DEF QueueKept
  <2>4. \A t \in Shells : ~(stage'[t] = "queued" /\ Home[t] = o)
    BY <1>1
  <2>5. queue'[o].running => \E t \in Working' : Home[t] = o
    BY <1>2 DEF QueueKept
  <2> QED
    BY <2>1, <2>3, <2>4, <2>5 DEF QueueKept
<1>4. OneAtATime'
  BY <1>2 DEF OneAtATime
<1>5. EndedHoldsNothing'
  BY <1>1 DEF EndedHoldsNothing, Alive
<1> QED
  BY <1>3, <1>4, <1>5

LEMMA InterruptQueues ==
    ASSUME TypeOK, QueuesKept, NEW o \in Owners, InterruptLocally(o)
    PROVE  QueuesKept'
<1>1. DropWaiting(o) /\ Alive(o) /\ UNCHANGED proc
  BY DEF InterruptLocally
<1>2. /\ queue'[o].waiting = <<>> /\ queue'[o].running = queue[o].running
      /\ \A p \in Owners \ {o} : queue'[p] = queue[p]
  BY Typed DEF InterruptLocally, EntryType
<1>3. Alive(o)'
  BY <1>1 DEF Alive
<1> QED
  BY <1>1, <1>2, <1>3, DropQueues

LEMMA CancelQueues ==
    ASSUME TypeOK, QueuesKept, NEW o \in Owners, CancelQueue(o)
    PROVE  QueuesKept'
<1>1. /\ DropWaiting(o) /\ proc[o] = "cancelling" /\ proc'[o] = "cancelled"
      /\ \A p \in Owners \ {o} : proc'[p] = proc[p]
  BY Typed DEF CancelQueue
<1>2. /\ queue'[o].waiting = <<>> /\ queue'[o].running = FALSE
      /\ \A p \in Owners \ {o} : queue'[p] = queue[p]
  BY Typed DEF CancelQueue, NoEntry
<1>3. Alive(o) /\ Alive(o)'
  BY <1>1 DEF Alive
<1> QED
  BY <1>1, <1>2, <1>3, DropQueues

LEMMA ShutdownQueues ==
    ASSUME TypeOK, QueuesKept, NEW o \in Owners, Shutdown(o)
    PROVE  QueuesKept'
<1>1. /\ UNCHANGED <<queue, stage>>
      /\ proc[o] \in {"up", "draining"} /\ proc'[o] \in {"draining", "cancelling"}
      /\ \A p \in Owners \ {o} : proc'[p] = proc[p]
  BY Typed DEF Shutdown, shellVars
<1> QED
  BY <1>1 DEF QueuesKept, QueueKept, OneAtATime, EndedHoldsNothing, Working, Alive

LEMMA StopQueues ==
    ASSUME TypeOK, QueuesKept, NEW o \in Owners, StopRuntime(o)
    PROVE  QueuesKept'
<1> USE DEF QueuesKept
<1>1. /\ UNCHANGED <<queue, stage>> /\ proc[o] \in {"draining", "cancelled"}
      /\ proc'[o] = "stopped"
      /\ \A p \in Owners \ {o} : proc'[p] = proc[p]
      /\ \A s \in Shells : Home[s] = o => stage[s] \in {"new", "done", "gone"}
  BY Typed DEF StopRuntime, shellVars, Permitted, ShellsOf
<1>2. \A s \in Working : Home[s] # o
  BY <1>1 DEF Working
<1>3. Working' = Working
  BY <1>1 DEF Working
<1>4. QueueKept'
  BY <1>1, <1>3 DEF QueueKept
<1>5. OneAtATime'
  BY <1>1, <1>2, <1>3 DEF OneAtATime
<1>6. EndedHoldsNothing'
  BY <1>1 DEF EndedHoldsNothing, Alive
<1> QED
  BY <1>4, <1>5, <1>6

LEMMA CrashQueues ==
    ASSUME TypeOK, QueuesKept, NEW o \in Owners, Crash(o)
    PROVE  QueuesKept'
<1> USE DEF QueuesKept
<1>1. /\ proc'[o] = "lost" /\ queue'[o] = NoEntry
      /\ \A p \in Owners \ {o} : proc'[p] = proc[p] /\ queue'[p] = queue[p]
      /\ \A s \in Shells : IF Home[s] = o THEN stage'[s] \in {"done", "gone"}
                                          ELSE stage'[s] = stage[s]
  BY Typed DEF Crash
<1>2. queue'[o].running = FALSE /\ queue'[o].waiting = <<>> /\ DOMAIN queue'[o].waiting = {}
  BY <1>1 DEF NoEntry
<1>3. \A s \in Shells : s \in Working' <=> s \in Working /\ Home[s] # o
  BY <1>1 DEF Working
<1>4. QueueKept'
  <2>1. ASSUME NEW p \in Owners \ {o}, NEW i \in DOMAIN queue[p].waiting
        PROVE  stage'[queue[p].waiting[i]] = "queued"
    BY <1>1, Waiting DEF QueueKept
  <2>2. ASSUME NEW p \in Owners \ {o}
        PROVE  /\ \A i \in DOMAIN queue'[p].waiting :
                    /\ stage'[queue'[p].waiting[i]] = "queued"
                    /\ Home[queue'[p].waiting[i]] = p
                    /\ \A j \in DOMAIN queue'[p].waiting :
                          queue'[p].waiting[j] = queue'[p].waiting[i] => j = i
               /\ \A t \in Shells : stage'[t] = "queued" /\ Home[t] = p =>
                    \E i \in DOMAIN queue'[p].waiting : queue'[p].waiting[i] = t
               /\ queue'[p].waiting # <<>> => queue'[p].running
    BY <1>1, <2>1 DEF QueueKept
  <2>3. \A p \in Owners \ {o} : queue'[p].running => \E t \in Working' : Home[t] = p
    BY <1>1, <1>3 DEF QueueKept, Working
  <2>4. \A t \in Shells : ~(stage'[t] = "queued" /\ Home[t] = o)
    BY <1>1
  <2> QED
    BY <1>2, <2>2, <2>3, <2>4 DEF QueueKept
<1>5. OneAtATime'
  BY <1>1, <1>3 DEF OneAtATime, Working
<1>6. EndedHoldsNothing'
  BY <1>1 DEF EndedHoldsNothing, Alive
<1> QED
  BY <1>4, <1>5, <1>6

LEMMA NextQueues == ASSUME TypeOK, QueuesKept, [Next]_vars PROVE QueuesKept'
<1> USE DEF storeVars, shellVars, historyVars
<1>1. ASSUME NEW s \in Shells, ShellStep(s) PROVE QueuesKept'
  <2>1. CASE Register(s)
    <3>1. \A o \in Owners : /\ queue'[o].running = queue[o].running
                            /\ queue'[o].waiting = queue[o].waiting
                            /\ o = Home[s] \/ queue'[o] = queue[o]
      BY <2>1, Typed DEF Register, EntryType
    <3> QED
      BY <2>1, <3>1, WorkGoesOn DEF Register, WorkStage
  <2>2. CASE BeginClaim(s) \/ Claim(s) \/ Track(s) \/ Settle(s) \/ Abandon(s)
             \/ ReadAbandoned(s) \/ Finish(s)
    <3>1. UNCHANGED <<queue, proc>>
      BY <2>2 DEF BeginClaim, Claim, Track, Settle, Abandon, ReadAbandoned, Finish
    <3>2. stage[s] \in WorkStage /\ \E x \in WorkStage : Move(s, x)
      BY <2>2 DEF BeginClaim, Claim, Track, Settle, Abandon, ReadAbandoned, Finish, WorkStage
    <3> QED
      BY <3>1, <3>2, WorkGoesOn
  <2>3. CASE BindThread(s)
    BY <2>3, QueuesUntouched DEF BindThread
  <2> QED
    BY <1>1, <2>1, <2>2, <2>3, AdmitQueues, EnterQueues, CloseQueues DEF ShellStep
<1>2. ASSUME NEW c \in Commands, LookUp(c) \/ Enqueue(c) PROVE QueuesKept'
  BY <1>2, QueuesUntouched DEF LookUp, Enqueue
<1>3. ASSUME NEW o \in Owners, RuntimeStep(o) PROVE QueuesKept'
  <2>1. UNCHANGED <<stage, queue, proc>>
    BY <1>3 DEF RuntimeStep, Recover, ClaimCommands, Apply, MarkCommand, Snapshot, Beat, Conclude
  <2> QED
    BY <2>1, QueuesUntouched
<1>4. ASSUME NEW o \in Owners, ProcessStep(o) PROVE QueuesKept'
  BY <1>4, InterruptQueues, CancelQueues, ShutdownQueues, StopQueues, CrashQueues
  DEF ProcessStep
<1>5. CASE Tick \/ Ended \/ UNCHANGED vars
  BY <1>5, QueuesUntouched DEF Tick, Ended, vars
<1> QED
  BY <1>1, <1>2, <1>3, <1>4, <1>5 DEF Next

-----------------------------------------------------------------------------
(* The rows of the Shells.                                                 *)

\* No task takes s into its copy, nor reports it.
TasksQuiet(s) ==
    \A o \in Owners : s \in runtime'[o].snap =>
        /\ s \in runtime[o].snap
        /\ runtime'[o].at = "conclude" => runtime[o].at = "conclude"

\* What a step may do to a Shell it is not about.
Undisturbed(s) ==
    /\ stage'[s] = stage[s] /\ result'[s] = result[s]
    /\ row'[s].gen = row[s].gen
    /\ \/ row'[s].status = row[s].status
       \/ row[s].status = "running" /\ row'[s].status = "superseded"
    /\ s \in tracked' => s \in tracked
    /\ s \in lost' => s \in lost
    /\ <<s, "finish">> \in excused => <<s, "finish">> \in excused'
    /\ <<s, "heartbeat">> \in excused => <<s, "heartbeat">> \in excused'
    /\ TasksQuiet(s)

LEMMA UndisturbedKept ==
    ASSUME NEW s \in Shells, RowKeptBy(s), Undisturbed(s)
    PROVE  RowKeptBy(s)'
<1> USE DEF RowKeptBy, Undisturbed
<1>1. RowFollowsStage(s)' /\ ResultHonest(s)' /\ RowClosed(s)'
  BY DEF RowFollowsStage, ResultHonest, RowClosed
<1>2. TrackedRunning(s)'
  BY DEF TrackedRunning, TasksQuiet
<1>3. LossExplained(s)'
  BY DEF LossExplained, TasksQuiet
<1> QED
  BY <1>1, <1>2, <1>3

\* The steps of a Shell that change nothing of its row: moves with the result
\* kept or an error.
LEMMA ShellMoves ==
    ASSUME TypeOK, RowsKept, NEW s \in Shells,
           \A t \in Shells \ {s} : stage'[t] = stage[t] /\ result'[t] = result[t],
           UNCHANGED <<row, lost, runtime>>,
           excused \subseteq excused',
           tracked' = tracked \/ tracked' = tracked \ {s},
           s \in tracked' => stage'[s] = "running",
           RowFollowsStage(s)', ResultHonest(s)', RowClosed(s)',
           \A o \in Owners : s \in runtime[o].snap =>
              stage'[s] \in {"running", "abandoned", "settled", "closing", "done", "gone"}
    PROVE  RowsKept'
<1>1. \A t \in Shells : TasksQuiet(t)
  BY DEF TasksQuiet
<1>2. \A t \in Shells \ {s} : Undisturbed(t)
  BY <1>1 DEF Undisturbed
<1>3. TrackedRunning(s)' /\ LossExplained(s)'
  BY DEF RowsKept, RowKeptBy, TrackedRunning, LossExplained
<1> QED
  BY <1>2, <1>3, UndisturbedKept DEF RowsKept, RowKeptBy

LEMMA AdmitRows ==
    ASSUME TypeOK, RowsKept, NEW s \in Shells, Admit(s)
    PROVE  RowsKept'
<1> USE DEF storeVars, historyVars
<1>1. /\ UNCHANGED <<row, tracked, lost, runtime, excused>> /\ stage[s] = "new"
      /\ \/ stage'[s] = "admitted" /\ result'[s] = result[s]
         \/ stage'[s] = "done" /\ result'[s] = "err"
      /\ \A t \in Shells \ {s} : stage'[t] = stage[t] /\ result'[t] = result[t]
  <2>1. /\ UNCHANGED <<row, tracked, lost, runtime, excused>> /\ stage[s] = "new"
        /\ (Move(s, "admitted") /\ UNCHANGED result) \/ (Move(s, "done") /\ Answer(s, "err"))
    BY DEF Admit
  <2> QED
    BY <2>1, Typed DEF Move, Answer
<1>2. RowFollowsStage(s)' /\ ResultHonest(s)' /\ RowClosed(s)'
  BY <1>1 DEF RowsKept, RowKeptBy, RowFollowsStage, ResultHonest, RowClosed
<1>3. s \notin tracked /\ \A o \in Owners : s \notin runtime[o].snap
  BY <1>1 DEF RowsKept, RowKeptBy, TrackedRunning
<1> QED
  BY <1>1, <1>2, <1>3, ShellMoves

LEMMA EnterRows ==
    ASSUME TypeOK, RowsKept, NEW s \in Shells, Enter(s)
    PROVE  RowsKept'
<1> USE DEF storeVars, historyVars
<1>1. /\ UNCHANGED <<row, tracked, lost, runtime, excused>> /\ stage[s] = "admitted"
      /\ \/ stage'[s] \in {"spawned", "queued"} /\ result'[s] = result[s]
         \/ stage'[s] = "done" /\ result'[s] = "err"
      /\ \A t \in Shells \ {s} : stage'[t] = stage[t] /\ result'[t] = result[t]
  BY Typed DEF Enter, Move, Answer
<1>2. RowFollowsStage(s)' /\ ResultHonest(s)' /\ RowClosed(s)'
  BY <1>1 DEF RowsKept, RowKeptBy, RowFollowsStage, ResultHonest, RowClosed
<1>3. s \notin tracked /\ \A o \in Owners : s \notin runtime[o].snap
  BY <1>1 DEF RowsKept, RowKeptBy, TrackedRunning
<1> QED
  BY <1>1, <1>2, <1>3, ShellMoves

LEMMA PrepareRows ==
    ASSUME TypeOK, RowsKept, NEW s \in Shells, Register(s) \/ BeginClaim(s)
    PROVE  RowsKept'
<1> USE DEF storeVars, historyVars
<1>1. /\ UNCHANGED <<row, tracked, lost, runtime, excused, result>>
      /\ stage[s] \in {"spawned", "registered"} /\ stage'[s] \in {"registered", "claiming"}
      /\ \A t \in Shells \ {s} : stage'[t] = stage[t]
  BY Typed DEF Register, BeginClaim, Move
<1>2. RowFollowsStage(s)' /\ ResultHonest(s)' /\ RowClosed(s)'
  BY <1>1 DEF RowsKept, RowKeptBy, RowFollowsStage, ResultHonest, RowClosed
<1>3. s \notin tracked /\ \A o \in Owners : s \notin runtime[o].snap
  BY <1>1 DEF RowsKept, RowKeptBy, TrackedRunning
<1> QED
  BY <1>1, <1>2, <1>3, ShellMoves

LEMMA ClaimRows ==
    ASSUME CommandInvariant, RowsKept, NEW s \in Shells, Claim(s)
    PROVE  RowsKept'
<1> USE DEF storeVars, historyVars, CommandInvariant
<1>1. /\ UNCHANGED <<tracked, lost, runtime, excused>> /\ stage[s] = "claiming"
      /\ \A t \in Shells \ {s} : stage'[t] = stage[t] /\ result'[t] = result[t]
      /\ \A t \in Shells : TasksQuiet(t)
  BY Typed DEF Claim, Move, Answer, TasksQuiet
<1>2. CASE Refused(s)
  <2>1. UNCHANGED row /\ stage'[s] = "abandoned" /\ result'[s] = "err"
    BY <1>2, Typed DEF Claim, Move, Answer
  <2> QED
    BY <1>1, <2>1, ShellMoves
    DEF RowsKept, RowKeptBy, RowFollowsStage, TrackedRunning, ResultHonest, RowClosed
<1>3. CASE ~Refused(s)
  <2>1. stage'[s] = "claimed" /\ result'[s] = result[s]
    BY <1>3, Typed DEF Claim, Move
  <2>2. /\ row'[s].status = "running" /\ row'[s].gen = Generation + 1
        /\ \A t \in Shells \ {s} :
              /\ row'[t].gen = row[t].gen
              /\ t \in Superseded(s) => row'[t].status = "superseded"
              /\ t \notin Superseded(s) => row'[t] = row[t]
    BY <1>3, ClaimRow
  <2>3. \A t \in Shells \ {s} : Undisturbed(t)
    BY <1>1, <2>2 DEF Undisturbed, Superseded, Active
  <2>4. RowFollowsStage(s)' /\ ResultHonest(s)' /\ RowClosed(s)'
    <3>1. Generation \in Nat
      BY GenerationIs
    <3> QED
      <4>1. result[s] # "ok"
        BY <1>1 DEF RowsKept, RowKeptBy, ResultHonest
      <4>2. row'[s].gen # 0
        BY <2>2, <3>1
      <4> QED
        BY <2>1, <2>2, <4>1, <4>2 DEF RowFollowsStage, ResultHonest, RowClosed
  <2>5. TrackedRunning(s)' /\ LossExplained(s)'
    <3>1. s \notin tracked /\ \A o \in Owners : s \notin runtime[o].snap
      BY <1>1 DEF RowsKept, RowKeptBy, TrackedRunning
    <3>2. s \in lost => <<s, "heartbeat">> \in excused
      BY <1>1 DEF RowsKept, RowKeptBy, LossExplained, RowFollowsStage
    <3> QED
      BY <1>1, <3>1, <3>2 DEF TrackedRunning, LossExplained
  <2> QED
    BY <2>3, <2>4, <2>5, UndisturbedKept DEF RowsKept, RowKeptBy
<1> QED
  BY <1>2, <1>3

LEMMA TrackRows ==
    ASSUME TypeOK, RowsKept, NEW s \in Shells, Track(s)
    PROVE  RowsKept'
<1> USE DEF storeVars, historyVars
<1>1. /\ UNCHANGED <<row, lost, runtime, excused, result>> /\ tracked' = tracked \cup {s}
      /\ stage[s] = "claimed" /\ stage'[s] = "running"
      /\ \A t \in Shells \ {s} : stage'[t] = stage[t]
  BY Typed DEF Track, Move
<1>2. \A t \in Shells \ {s} : Undisturbed(t)
  BY <1>1 DEF Undisturbed, TasksQuiet
<1>3. \A o \in Owners : s \notin runtime[o].snap
  BY <1>1 DEF RowsKept, RowKeptBy, TrackedRunning
<1>4. RowFollowsStage(s)' /\ ResultHonest(s)' /\ RowClosed(s)'
  BY <1>1 DEF RowsKept, RowKeptBy, RowFollowsStage, ResultHonest, RowClosed
<1>5. TrackedRunning(s)' /\ LossExplained(s)'
  BY <1>1, <1>3 DEF RowsKept, RowKeptBy, TrackedRunning, LossExplained
<1> QED
  BY <1>2, <1>4, <1>5, UndisturbedKept DEF RowsKept, RowKeptBy

LEMMA BindThreadRows ==
    ASSUME TypeOK, RowsKept, NEW s \in Shells, BindThread(s)
    PROVE  RowsKept'
<1>1. UNCHANGED <<stage, result, tracked, lost, runtime, excused>>
  BY DEF BindThread, shellVars, historyVars
<1>2. \A t \in Shells : row'[t].gen = row[t].gen /\ row'[t].status = row[t].status
  BY Typed DEF BindThread, RowType
<1>3. \A t \in Shells : Undisturbed(t)
  BY <1>1, <1>2 DEF Undisturbed, TasksQuiet
<1> QED
  BY <1>3, UndisturbedKept DEF RowsKept

LEMMA SettleRows ==
    ASSUME TypeOK, RowsKept, NEW s \in Shells, Settle(s)
    PROVE  RowsKept'
<1> USE DEF storeVars, historyVars
<1>1. /\ UNCHANGED <<row, lost, runtime, excused>> /\ tracked' = tracked \ {s}
      /\ stage[s] = "running" /\ stage'[s] = "settled"
      /\ \A t \in Shells \ {s} : stage'[t] = stage[t] /\ result'[t] = result[t]
  BY Typed DEF Settle, Move, Answer
<1>2. RowFollowsStage(s)' /\ ResultHonest(s)' /\ RowClosed(s)'
  BY <1>1 DEF RowsKept, RowKeptBy, RowFollowsStage, ResultHonest, RowClosed
<1> QED
  BY <1>1, <1>2, ShellMoves

LEMMA AbandonRows ==
    ASSUME TypeOK, RowsKept, NEW s \in Shells, Abandon(s)
    PROVE  RowsKept'
<1> USE DEF storeVars, historyVars
<1>1. /\ UNCHANGED <<row, lost, runtime, excused>> /\ tracked' = tracked \ {s}
      /\ stage'[s] = "abandoned" /\ result'[s] = "err"
      /\ \A t \in Shells \ {s} : stage'[t] = stage[t] /\ result'[t] = result[t]
  BY Typed DEF Abandon, Move, Answer
<1>2. RowFollowsStage(s)' /\ ResultHonest(s)' /\ RowClosed(s)'
  BY <1>1 DEF RowsKept, RowKeptBy, RowFollowsStage, ResultHonest, RowClosed
<1> QED
  BY <1>1, <1>2, ShellMoves

LEMMA ReadAbandonedRows ==
    ASSUME TypeOK, RowsKept, NEW s \in Shells, ReadAbandoned(s)
    PROVE  RowsKept'
<1> USE DEF storeVars, historyVars
<1>1. /\ UNCHANGED <<row, lost, runtime, tracked, result>> /\ excused \subseteq excused'
      /\ stage[s] = "abandoned"
      /\ \/ stage'[s] = "settled"
         \/ stage'[s] = "closing" /\ (row[s].status # "running" \/ <<s, "finish">> \in excused')
      /\ \A t \in Shells \ {s} : stage'[t] = stage[t]
  BY Typed DEF ReadAbandoned, Move
<1>2. RowFollowsStage(s)' /\ ResultHonest(s)' /\ RowClosed(s)'
  BY <1>1 DEF RowsKept, RowKeptBy, RowFollowsStage, ResultHonest, RowClosed
<1>3. s \notin tracked
  BY <1>1 DEF RowsKept, RowKeptBy, TrackedRunning
<1> QED
  BY <1>1, <1>2, <1>3, ShellMoves

LEMMA FinishRows ==
    ASSUME TypeOK, RowsKept, NEW s \in Shells, Finish(s)
    PROVE  RowsKept'
<1> USE DEF storeVars, historyVars
<1>1. /\ UNCHANGED <<lost, runtime, tracked>> /\ excused \subseteq excused'
      /\ stage[s] = "settled" /\ stage'[s] = "closing"
      /\ \A t \in Shells \ {s} : stage'[t] = stage[t] /\ result'[t] = result[t]
  BY Typed DEF Finish, Move, Answer
<1>2. s \notin tracked
  BY <1>1 DEF RowsKept, RowKeptBy, TrackedRunning
<1>3. CASE /\ row[s].status = "running" /\ UNCHANGED excused
           /\ UNCHANGED result \/ Answer(s, "err")
           /\ row' = [row EXCEPT ![s].status = "finished", ![s].lease = 0]
  <2>0. result'[s] \in {result[s], "err"}
    BY <1>3, Typed DEF Answer
  <2>1. /\ row'[s].status = "finished" /\ row'[s].gen = row[s].gen
        /\ \A t \in Shells \ {s} : row'[t] = row[t]
    BY <1>3, Typed DEF RowType
  <2>2. \A t \in Shells \ {s} : Undisturbed(t)
    BY <1>1, <2>1 DEF Undisturbed, TasksQuiet
  <2>3. RowFollowsStage(s)' /\ ResultHonest(s)' /\ RowClosed(s)'
    BY <1>1, <1>3, <2>0, <2>1 DEF RowsKept, RowKeptBy, RowFollowsStage, ResultHonest, RowClosed
  <2>4. TrackedRunning(s)' /\ LossExplained(s)'
    BY <1>1, <1>2, <1>3, <2>1 DEF RowsKept, RowKeptBy, TrackedRunning, LossExplained
  <2> QED
    BY <2>2, <2>3, <2>4, UndisturbedKept DEF RowsKept, RowKeptBy
<1>4. CASE /\ UNCHANGED row /\ Answer(s, "err")
           /\ row[s].status # "running" \/ <<s, "finish">> \in excused'
  <2>1. result'[s] = "err"
    BY <1>4, Typed DEF Answer
  <2>2. RowFollowsStage(s)' /\ ResultHonest(s)' /\ RowClosed(s)'
    BY <1>1, <1>4, <2>1 DEF RowsKept, RowKeptBy, RowFollowsStage, ResultHonest, RowClosed
  <2> QED
    BY <1>1, <1>2, <1>4, <2>2, ShellMoves
<1> QED
  BY <1>3, <1>4 DEF Finish

LEMMA CloseRows ==
    ASSUME TypeOK, QueuesKept, RowsKept, NEW s \in Shells, Close(s)
    PROVE  RowsKept'
<1> USE DEF storeVars, historyVars
<1> DEFINE w == queue[Home[s]].waiting
<1>1. /\ UNCHANGED <<row, tracked, lost, result, runtime, excused>>
      /\ stage[s] = "closing" /\ stage'[s] = "done"
      /\ \A t \in Shells \ {s} :
            \/ stage'[t] = stage[t]
            \/ w # <<>> /\ t = Head(w) /\ stage'[t] = "spawned"
  BY Typed DEF Close
<1>2. w # <<>> => stage[Head(w)] = "queued"
  <2>1. Home[s] \in Owners
    BY GatewayActivityAssumption
  <2>2. w \in Seq(Shells)
    BY <2>1, Waiting
  <2>3. w # <<>> => 1 \in DOMAIN w /\ Head(w) = w[1]
    BY <2>2, HeadTailProperties, EmptySeq, LenProperties
  <2> QED
    BY <2>1, <2>3 DEF QueuesKept, QueueKept
<1>3. ASSUME NEW t \in Shells PROVE RowKeptBy(t)'
  <2>0. RowKeptBy(t)
    BY DEF RowsKept
  <2>1. CASE stage'[t] = stage[t]
    <3>1. Undisturbed(t)
      BY <1>1, <2>1 DEF Undisturbed, TasksQuiet
    <3> QED
      BY <2>0, <3>1, UndisturbedKept
  <2>2. CASE t = s
    BY <1>1, <2>0, <2>2
    DEF RowKeptBy, RowFollowsStage, TrackedRunning, ResultHonest, RowClosed, LossExplained
  <2>3. CASE stage[t] = "queued" /\ stage'[t] = "spawned"
    BY <1>1, <2>0, <2>3
    DEF RowKeptBy, RowFollowsStage, TrackedRunning, ResultHonest, RowClosed, LossExplained
  <2> QED
    BY <1>1, <1>2, <2>1, <2>2, <2>3
<1> QED
  BY <1>3 DEF RowsKept

LEMMA DropRows ==
    ASSUME TypeOK, QueuesKept, RowsKept, NEW o \in Owners, DropWaiting(o),
           UNCHANGED <<row, tracked, lost, runtime, excused>>
    PROVE  RowsKept'
<1>1. ASSUME NEW t \in Shells PROVE RowKeptBy(t)'
  <2>0. RowKeptBy(t)
    BY DEF RowsKept
  <2>1. IF stage[t] = "queued" /\ Home[t] = o
        THEN stage'[t] = "done" /\ result'[t] = "err"
        ELSE stage'[t] = stage[t] /\ result'[t] = result[t]
    BY Dropped DEF QueuesKept
  <2>2. CASE stage[t] = "queued" /\ Home[t] = o
    BY <2>0, <2>1, <2>2
    DEF RowKeptBy, RowFollowsStage, TrackedRunning, ResultHonest, RowClosed, LossExplained
  <2>3. CASE ~(stage[t] = "queued" /\ Home[t] = o)
    <3>1. Undisturbed(t)
      BY <2>1, <2>3 DEF Undisturbed, TasksQuiet
    <3> QED
      BY <2>0, <3>1, UndisturbedKept
  <2> QED
    BY <2>2, <2>3
<1> QED
  BY <1>1 DEF RowsKept

LEMMA CrashRows ==
    ASSUME TypeOK, RowsKept, NEW o \in Owners, Crash(o)
    PROVE  RowsKept'
<1> USE DEF storeVars, historyVars
<1>1. /\ UNCHANGED <<row, result, excused>>
      /\ tracked' = tracked \ ShellsOf(o) /\ lost' = lost \ ShellsOf(o)
      /\ \A s \in Shells : IF Home[s] = o /\ stage[s] # "done" THEN stage'[s] = "gone"
                                                              ELSE stage'[s] = stage[s]
  BY DEF Crash
<1>2. \A p \in Owners : runtime'[p].snap = IF p = o THEN {} ELSE runtime[p].snap
  <2>1. \A p \in Owners : runtime'[p] = IF p = o THEN Resting ELSE runtime[p]
    BY Typed DEF Crash, Rest
  <2> QED
    BY <2>1, TaskFields
<1>3. \A p \in Owners \ {o} : runtime'[p] = runtime[p]
  BY Typed DEF Crash, Rest
<1>4. ASSUME NEW s \in Shells PROVE RowKeptBy(s)'
  <2>0. RowKeptBy(s)
    BY DEF RowsKept
  <2>1. TasksQuiet(s)
    BY <1>2, <1>3 DEF TasksQuiet
  <2>2. CASE Home[s] # o \/ stage[s] = "done"
    <3>1. Undisturbed(s)
      BY <1>1, <2>1, <2>2 DEF Undisturbed
    <3> QED
      BY <2>0, <3>1, UndisturbedKept
  <2>3. CASE Home[s] = o /\ stage[s] # "done"
    <3>1. /\ stage'[s] = "gone" /\ s \notin tracked' /\ s \notin lost'
      BY <1>1, <2>3 DEF ShellsOf
    <3>2. \A p \in Owners : s \notin runtime'[p].snap
      BY <1>2, <2>0, <2>3 DEF RowKeptBy, TrackedRunning
    <3> QED
      BY <1>1, <2>0, <3>1, <3>2
      DEF RowKeptBy, RowFollowsStage, TrackedRunning, ResultHonest, RowClosed, LossExplained
  <2> QED
    BY <2>2, <2>3
<1> QED
  BY <1>4 DEF RowsKept

LEMMA SnapshotRows ==
    ASSUME TypeOK, RowsKept, NEW o \in Owners, Snapshot(o)
    PROVE  RowsKept'
<1>1. UNCHANGED <<row, stage, result, tracked, lost, excused>>
  BY DEF Snapshot, storeVars, shellVars, historyVars
<1>2. /\ runtime'[o].snap = tracked \cap ShellsOf(o) /\ runtime'[o].at = "beat"
      /\ \A p \in Owners \ {o} : runtime'[p] = runtime[p]
  BY Typed, TaskFields DEF Snapshot
<1>3. ASSUME NEW s \in Shells PROVE RowKeptBy(s)'
  <2>0. RowKeptBy(s)
    BY DEF RowsKept
  <2>1. RowFollowsStage(s)' /\ ResultHonest(s)' /\ RowClosed(s)'
    BY <1>1, <2>0 DEF RowKeptBy, RowFollowsStage, ResultHonest, RowClosed
  <2>2. TrackedRunning(s)' /\ LossExplained(s)'
    BY <1>1, <1>2, <2>0 DEF RowKeptBy, TrackedRunning, LossExplained, ShellsOf
  <2> QED
    BY <2>1, <2>2 DEF RowKeptBy
<1> QED
  BY <1>3 DEF RowsKept

\* What a heartbeat leaves in the copy was not renewed, or its failure is noted.
LEMMA BeatTask ==
    ASSUME TypeOK, NEW o \in Owners, Beat(o)
    PROVE  /\ runtime'[o].snap \subseteq runtime[o].snap
           /\ runtime'[o].at # "beat" /\ runtime'[o].read = 0
           /\ \A p \in Owners \ {o} : runtime'[p] = runtime[p]
           /\ \A s \in runtime'[o].snap : s \notin Active \/ <<s, "heartbeat">> \in excused'
<1> DEFINE beat == runtime[o].snap
           kept == beat \cap Active
<1>0. runtime \in [Owners -> TaskType]
  BY Typed
<1>1. CASE beat = kept /\ runtime' = [runtime EXCEPT ![o] = Resting]
  BY <1>0, <1>1, TaskFields
<1>2. CASE runtime' = [runtime EXCEPT ![o] = [Resting EXCEPT !.at = "conclude", !.snap = beat \ kept]]
  <2>1. runtime'[o].snap = beat \ kept /\ runtime'[o].at = "conclude" /\ runtime'[o].read = 0
    BY <1>0, <1>2, TaskFields
  <2> QED
    BY <1>0, <1>2, <2>1
<1>3. CASE /\ runtime' = [runtime EXCEPT ![o] = [Resting EXCEPT !.at = "conclude", !.snap = beat]]
           /\ excused' = excused \cup (beat \X {"heartbeat"})
  <2>1. runtime'[o].snap = beat /\ runtime'[o].at = "conclude" /\ runtime'[o].read = 0
    BY <1>0, <1>3, TaskFields
  <2> QED
    BY <1>0, <1>3, <2>1
<1> QED
  BY <1>1, <1>2, <1>3 DEF Beat

LEMMA BeatRows ==
    ASSUME TypeOK, RowsKept, NEW o \in Owners, Beat(o)
    PROVE  RowsKept'
<1> DEFINE beat == runtime[o].snap
<1>1. UNCHANGED <<stage, result, tracked, lost>> /\ excused \subseteq excused'
  BY DEF Beat, shellVars
<1>2. /\ runtime'[o].snap \subseteq beat
      /\ \A p \in Owners \ {o} : runtime'[p] = runtime[p]
      /\ \A s \in runtime'[o].snap : s \notin Active \/ <<s, "heartbeat">> \in excused'
  BY BeatTask
<1>3. \A t \in Shells : row'[t].gen = row[t].gen /\ row'[t].status = row[t].status
  <2>1. CASE row' = [s \in Shells |-> IF s \in beat \cap Active
                                      THEN [row[s] EXCEPT !.lease = runtime[o].read + Lease]
                                      ELSE row[s]]
    BY <2>1, Typed DEF RowType
  <2> QED
    BY <2>1 DEF Beat
<1>4. ASSUME NEW s \in Shells PROVE RowKeptBy(s)'
  <2>0. RowKeptBy(s)
    BY DEF RowsKept
  <2>1. RowFollowsStage(s)' /\ ResultHonest(s)' /\ RowClosed(s)'
    BY <1>1, <1>3, <2>0 DEF RowKeptBy, RowFollowsStage, ResultHonest, RowClosed
  <2>2. TrackedRunning(s)'
    BY <1>1, <1>2, <2>0 DEF RowKeptBy, TrackedRunning
  <2>3. LossExplained(s)'
    <3>1. s \in runtime'[o].snap \cap tracked =>
             row[s].status = "superseded" \/ <<s, "heartbeat">> \in excused'
      BY <1>2, <2>0 DEF RowKeptBy, TrackedRunning, RowFollowsStage, Active
    <3> QED
      BY <1>1, <1>2, <1>3, <2>0, <3>1 DEF RowKeptBy, LossExplained
  <2> QED
    BY <2>1, <2>2, <2>3 DEF RowKeptBy
<1> QED
  BY <1>4 DEF RowsKept

LEMMA ConcludeRows ==
    ASSUME TypeOK, RowsKept, NEW o \in Owners, Conclude(o)
    PROVE  RowsKept'
<1>1. /\ UNCHANGED <<row, stage, result, tracked, excused>>
      /\ lost' = lost \cup (runtime[o].snap \cap tracked) /\ runtime[o].at = "conclude"
  BY DEF Conclude, StillTracked, storeVars, historyVars
<1>2. runtime'[o].snap = {} /\ \A p \in Owners \ {o} : runtime'[p] = runtime[p]
  BY Typed, TaskFields DEF Conclude, Rest
<1>3. ASSUME NEW s \in Shells PROVE RowKeptBy(s)'
  <2>0. RowKeptBy(s)
    BY DEF RowsKept
  <2>1. RowFollowsStage(s)' /\ ResultHonest(s)' /\ RowClosed(s)'
    BY <1>1, <2>0 DEF RowKeptBy, RowFollowsStage, ResultHonest, RowClosed
  <2>2. TrackedRunning(s)' /\ LossExplained(s)'
    BY <1>1, <1>2, <2>0 DEF RowKeptBy, TrackedRunning, LossExplained
  <2> QED
    BY <2>1, <2>2 DEF RowKeptBy
<1> QED
  BY <1>3 DEF RowsKept

\* Steps that leave the Shells and their rows alone, and every copy or drop it.
LEMMA RowsUntouched ==
    ASSUME RowsKept, UNCHANGED <<row, stage, result, tracked, lost, excused>>,
           \A s \in Shells : TasksQuiet(s)
    PROVE  RowsKept'
<1>1. \A t \in Shells : Undisturbed(t)
  BY DEF Undisturbed
<1> QED
  BY <1>1, UndisturbedKept DEF RowsKept

LEMMA NextRows ==
    ASSUME CommandInvariant, QueuesKept, RowsKept, [Next]_vars
    PROVE  RowsKept'
<1> USE DEF CommandInvariant, storeVars, shellVars, historyVars
<1>0. UNCHANGED runtime => \A s \in Shells : TasksQuiet(s)
  BY DEF TasksQuiet
<1>1. ASSUME NEW s \in Shells, ShellStep(s) PROVE RowsKept'
  BY <1>1, AdmitRows, EnterRows, PrepareRows, ClaimRows, TrackRows, BindThreadRows, SettleRows,
     AbandonRows, ReadAbandonedRows, FinishRows, CloseRows DEF ShellStep
<1>2. ASSUME NEW c \in Commands, LookUp(c) \/ Enqueue(c) PROVE RowsKept'
  BY <1>0, <1>2, RowsUntouched DEF LookUp, Enqueue
<1>3. ASSUME NEW o \in Owners, RuntimeStep(o) PROVE RowsKept'
  <2>1. CASE Recover(o)
    <3>1. \A p \in Owners : /\ runtime'[p].snap = runtime[p].snap
                            /\ runtime'[p].at = "conclude" => runtime[p].at = "conclude"
      BY <2>1, Typed DEF Recover, TaskType
    <3>2. \A s \in Shells : TasksQuiet(s)
      BY <3>1 DEF TasksQuiet
    <3> QED
      BY <2>1, <3>2, RowsUntouched DEF Recover
  <2>2. CASE ClaimCommands(o) \/ MarkCommand(o)
    <3>1. \E b : runtime' = [runtime EXCEPT ![o] =
                    IF b = <<>> THEN Resting ELSE [Resting EXCEPT !.at = "apply", !.batch = b]]
      BY <2>2 DEF ClaimCommands, MarkCommand, Rest
    <3>2. runtime'[o].snap = {} /\ \A p \in Owners \ {o} : runtime'[p] = runtime[p]
      BY <3>1, Typed, TaskFields
    <3>3. \A s \in Shells : TasksQuiet(s)
      BY <3>2 DEF TasksQuiet
    <3> QED
      BY <2>2, <3>3, RowsUntouched DEF ClaimCommands, MarkCommand
  <2>3. CASE Apply(o)
    <3>1. \A p \in Owners : /\ runtime'[p].snap = runtime[p].snap
                            /\ runtime'[p].at = "conclude" => runtime[p].at = "conclude"
      BY <2>3, Typed DEF Apply, TaskType
    <3>2. \A s \in Shells : TasksQuiet(s)
      BY <3>1 DEF TasksQuiet
    <3> QED
      BY <2>3, <3>2, RowsUntouched DEF Apply
  <2> QED
    BY <1>3, <2>1, <2>2, <2>3, SnapshotRows, BeatRows, ConcludeRows DEF RuntimeStep
<1>4. ASSUME NEW o \in Owners, ProcessStep(o) PROVE RowsKept'
  <2>1. CASE InterruptLocally(o)
    BY <2>1, DropRows DEF InterruptLocally
  <2>2. CASE CancelQueue(o)
    BY <2>2, DropRows DEF CancelQueue
  <2>3. CASE Shutdown(o)
    BY <1>0, <2>3, RowsUntouched DEF Shutdown
  <2>4. CASE StopRuntime(o)
    <3>1. runtime'[o].snap = {} /\ \A p \in Owners \ {o} : runtime'[p] = runtime[p]
      BY <2>4, Typed, TaskFields DEF StopRuntime, Rest
    <3>2. \A s \in Shells : TasksQuiet(s)
      BY <3>1 DEF TasksQuiet
    <3> QED
      BY <2>4, <3>2, RowsUntouched DEF StopRuntime
  <2> QED
    BY <1>4, <2>1, <2>2, <2>3, <2>4, CrashRows DEF ProcessStep
<1>5. CASE Tick \/ Ended \/ UNCHANGED vars
  BY <1>0, <1>5, RowsUntouched DEF Tick, Ended, vars
<1> QED
  BY <1>1, <1>2, <1>3, <1>4, <1>5 DEF Next

LEMMA InitShells == Init => ShellInvariant
<1> SUFFICES ASSUME Init PROVE QueuesKept /\ RowsKept
  BY InitCommands DEF ShellInvariant
<1>1. \A o \in Owners : /\ runtime[o].snap = {}
                        /\ queue[o].waiting = <<>> /\ queue[o].running = FALSE
                        /\ proc[o] = "up" /\ DOMAIN queue[o].waiting = {}
  BY TaskFields DEF Init, NoEntry
<1>2. Working = {} /\ \A s \in Shells : stage[s] = "new"
  BY DEF Init, Working
<1>3. QueuesKept
  BY <1>1, <1>2 DEF QueuesKept, QueueKept, OneAtATime, EndedHoldsNothing, Alive
<1>4. RowsKept
  <2>1. \A s \in Shells : row[s].status = "none" /\ row[s].gen = 0 /\ result[s] = None
    BY DEF Init
  <2>2. None # "ok" /\ tracked = {} /\ lost = {}
    BY GatewayActivityAssumption DEF Init
  <2> QED
    BY <1>1, <1>2, <2>1, <2>2
    DEF RowsKept, RowKeptBy, RowFollowsStage, TrackedRunning, ResultHonest, RowClosed,
        LossExplained
<1> QED
  BY <1>3, <1>4

LEMMA ShellsInvariant == Spec => []ShellInvariant
<1>1. Init => ShellInvariant
  BY InitShells
<1>2. ShellInvariant /\ [Next]_vars => ShellInvariant'
  BY NextCommands, NextQueues, NextRows DEF ShellInvariant, CommandInvariant
<1> QED
  BY <1>1, <1>2, PTL DEF Spec

\* Every Shell is accounted for on every path through its life: results, rows,
\* lost leases and the queue agree (send_shell, run_shell,
\* spawn_finalizer_owned_activity, finish_activity_and_spawn_next).
THEOREM ActivityShellsAccounted == Spec => []ShellsAccounted
<1>1. ShellInvariant => ShellsAccounted
  <2> SUFFICES ASSUME ShellInvariant PROVE ShellsAccounted
    OBVIOUS
  <2> USE DEF ShellInvariant, QueuesKept
  <2>1. ASSUME NEW s \in Shells
        PROVE  /\ stage[s] = "done" /\ result[s] = "ok" => row[s].status = "finished"
               /\ stage[s] = "done" => row[s].status # "running" \/ <<s, "finish">> \in excused
               /\ s \in lost => row[s].status = "superseded" \/ <<s, "heartbeat">> \in excused
    <3>1. ResultHonest(s) /\ RowClosed(s) /\ LossExplained(s)
      BY DEF RowsKept, RowKeptBy
    <3> QED
      BY <3>1 DEF ResultHonest, RowClosed, LossExplained
  <2>2. ASSUME NEW o \in Owners, proc[o] \in {"up", "draining", "stopped"}
        PROVE  /\ Cardinality(Working \cap ShellsOf(o)) = IF queue[o].running THEN 1 ELSE 0
               /\ {s \in ShellsOf(o) : stage[s] = "queued"} = Range(queue[o].waiting)
               /\ queue[o].waiting # <<>> => queue[o].running
    <3>1. ASSUME queue[o].running PROVE Cardinality(Working \cap ShellsOf(o)) = 1
      <4>1. PICK s \in Working : Home[s] = o
        BY <3>1 DEF QueueKept
      <4>2. Working \cap ShellsOf(o) = {s}
        BY <2>2, <4>1 DEF OneAtATime, ShellsOf, Working
      <4> QED
        BY <4>2, FS_Singleton
    <3>2. ASSUME ~queue[o].running PROVE Cardinality(Working \cap ShellsOf(o)) = 0
      <4>1. Working \cap ShellsOf(o) = {}
        BY <2>2, <3>2 DEF OneAtATime, ShellsOf
      <4> QED
        BY <4>1, FS_EmptySet
    <3>3. {s \in ShellsOf(o) : stage[s] = "queued"} = Range(queue[o].waiting)
      <4>1. \A i \in DOMAIN queue[o].waiting : queue[o].waiting[i] \in Shells
        BY Waiting DEF CommandInvariant
      <4> QED
        BY <4>1 DEF QueueKept, ShellsOf, Range
    <3> QED
      BY <3>1, <3>2, <3>3 DEF QueueKept
  <2> QED
    BY <2>1, <2>2 DEF ShellsAccounted
<1> QED
  BY <1>1, ShellsInvariant, PTL

-----------------------------------------------------------------------------
(* The leases.                                                             *)

\* The numbers the leases are compared by.
LEMMA Numbers ==
    ASSUME TypeOK
    PROVE  /\ now \in Nat /\ Lease \in Nat
           /\ \A s \in Shells : row[s].gen \in Nat /\ row[s].lease \in Nat /\ clock[s] \in Nat
           /\ \A o \in Owners : runtime[o].read \in Nat /\ runtime[o].snap \subseteq Shells
<1>1. plan.ticks \in Nat
  BY Typed DEF Plan
<1> QED
  BY <1>1, Typed, GatewayActivityAssumption DEF RowType, TaskType

\* What a step does that neither begins nor makes a claim, nor renews a lease,
\* nor copies the tracked Shells.
Calm ==
    /\ now' >= now
    /\ \A s \in Shells :
          /\ row'[s].gen = row[s].gen
          /\ row'[s].status = "running" =>
                row[s].status = "running" /\ row'[s].lease = row[s].lease
          /\ row'[s].lease <= row[s].lease
          /\ stage'[s] = "claiming" => stage[s] = "claiming" /\ clock'[s] = clock[s]
          /\ clock'[s] <= clock[s]
          /\ stage'[s] \in {"claimed", "running"} => stage[s] \in {"claimed", "running"}
    /\ \A o \in Owners :
          /\ Polls(o)' => Polls(o)
          /\ runtime'[o].at = "beat" => runtime'[o] = runtime[o]
          /\ runtime'[o].read <= runtime[o].read

LEMMA CalmLeases ==
    ASSUME TypeOK, TypeOK', LeasesKept, Calm
    PROVE  LeasesKept'
<1> USE DEF LeasesKept
<1>0. /\ now' \in Nat /\ now \in Nat /\ Lease \in Nat
      /\ \A s \in Shells : /\ row[s].gen \in Nat /\ row[s].lease \in Nat /\ clock[s] \in Nat
                           /\ row'[s].lease \in Nat /\ clock'[s] \in Nat
      /\ \A o \in Owners : runtime[o].read \in Nat /\ runtime'[o].read \in Nat
                           /\ runtime[o].snap \subseteq Shells
  <2>1. /\ now' \in Nat
        /\ \A s \in Shells : row'[s].lease \in Nat /\ clock'[s] \in Nat
        /\ \A o \in Owners : runtime'[o].read \in Nat
    <3>1. /\ plan' \in Plan /\ now' \in 0..plan'.ticks
          /\ clock' \in [Shells -> 0..plan'.ticks]
      BY DEF TypeOK
    <3>2. plan'.ticks \in Nat
      BY <3>1 DEF Plan
    <3>3. \A s \in Shells : row'[s].lease \in Nat
      BY DEF TypeOK
    <3>4. \A o \in Owners : runtime'[o].read \in 0..plan'.ticks
      BY DEF TypeOK
    <3> QED
      BY <3>1, <3>2, <3>3, <3>4
  <2> QED
    BY <2>1, Numbers
<1>1. \A s \in Shells : s \in Active' => s \in Active /\ row'[s].lease = row[s].lease
  BY DEF Calm, Active
<1>2. Active' \subseteq Shells /\ Active \subseteq Shells
  BY DEF Active
<1>3. GenerationsUnique'
  BY DEF Calm, GenerationsUnique
<1>4. TimesPast'
  BY <1>0 DEF Calm, TimesPast
<1>5. SuccessorsAtHome'
  BY <1>1, <1>2 DEF Calm, SuccessorsAtHome
<1>6. LeasesOrdered'
  BY <1>1, <1>2 DEF Calm, LeasesOrdered
<1>7. ClaimCovers'
  BY <1>1, <1>2, GatewayActivityAssumption DEF Calm, ClaimCovers
<1>8. ExecutingNewest'
  BY DEF Calm, ExecutingNewest
<1>9. BeatOrdered'
  BY <1>1, <1>2 DEF Calm, BeatOrdered
<1> QED
  BY <1>3, <1>4, <1>5, <1>6, <1>7, <1>8, <1>9

LEMMA BeginClaimLeases ==
    ASSUME TypeOK, LeasesKept, NEW s \in Shells, BeginClaim(s)
    PROVE  LeasesKept'
<1> USE DEF LeasesKept, storeVars
<1>1. /\ UNCHANGED <<now, row, proc, runtime>>
      /\ stage[s] = "registered" /\ stage'[s] = "claiming"
      /\ clock'[s] = now
      /\ \A t \in Shells \ {s} : stage'[t] = stage[t] /\ clock'[t] = clock[t]
  BY Typed DEF BeginClaim, Move
<1>2. GenerationsUnique' /\ SuccessorsAtHome' /\ LeasesOrdered' /\ BeatOrdered'
  BY <1>1 DEF GenerationsUnique, SuccessorsAtHome, LeasesOrdered, BeatOrdered, Active
<1>3. TimesPast'
  BY <1>1, Numbers DEF TimesPast
<1>4. ExecutingNewest'
  BY <1>1 DEF ExecutingNewest
<1>5. ClaimCovers'
  <2>1. /\ \A t \in Active : row[t].lease <= now + Lease
        /\ \A o \in Owners : runtime[o].read <= now
    BY DEF TimesPast, Active
  <2>2. Active' = Active /\ \A o \in Owners : Polls(o)' <=> Polls(o)
    BY <1>1 DEF Active, Polls
  <2> QED
    BY <1>1, <2>1, <2>2, GatewayActivityAssumption DEF ClaimCovers
<1> QED
  BY <1>2, <1>3, <1>4, <1>5

\* While a process polls its tasks, two of its Shells are never under way.
LEMMA AloneAtHome ==
    ASSUME QueuesKept, NEW s \in Shells, NEW t \in Shells, Home[s] = Home[t], Polls(Home[s]),
           stage[s] \in WorkStage, stage[t] \in WorkStage
    PROVE  s = t
<1>1. Home[s] \in Owners /\ proc[Home[s]] \notin {"cancelled", "lost"}
  BY GatewayActivityAssumption DEF Polls
<1>2. s \in Working /\ t \in Working
  BY DEF Working, WorkStage
<1> QED
  BY <1>1, <1>2 DEF QueuesKept, OneAtATime

\* Every row that a granted claim leaves active is of the claiming process.
LEMMA ClaimAlone ==
    ASSUME ShellInvariant, LeasesKept, NEW s \in Shells, Claim(s), ~Refused(s),
           NEW t \in Active, row[t].lease >= clock[s]
    PROVE  Home[t] = Home[s]
<1> USE DEF ShellInvariant, CommandInvariant, LeasesKept
<1>1. /\ Newest \in Active /\ Newest \in Shells /\ t \in Shells
      /\ \A u \in Active : row[u].gen <= row[Newest].gen
  BY NewestIs DEF Active
<1>2. row[Newest].lease >= clock[s] => Home[Newest] = Home[s]
  BY DEF Refused, Unexpired
<1>3. CASE t = Newest
  BY <1>2, <1>3
<1>4. CASE t # Newest
  <2>1. row[t].gen > 0
    BY <1>1, Numbers DEF RowsKept, RowKeptBy, RowFollowsStage, Active
  <2>2. row[t].gen < row[Newest].gen
    BY <1>1, <1>4, <2>1, Numbers DEF GenerationsUnique
  <2>3. Home[Newest] = Home[t]
    BY <1>1, <2>2, Numbers DEF SuccessorsAtHome
  <2>4. row[t].lease <= row[Newest].lease
    BY <1>1, <2>2 DEF LeasesOrdered
  <2>5. row[Newest].lease >= clock[s]
    BY <1>1, <2>4, Numbers
  <2> QED
    BY <1>2, <2>3, <2>5
<1> QED
  BY <1>3, <1>4

LEMMA ClaimLeases ==
    ASSUME ShellInvariant, LeasesKept, NEW s \in Shells, Claim(s), ~Refused(s)
    PROVE  LeasesKept'
<1> USE DEF ShellInvariant, CommandInvariant, LeasesKept
<1>1. /\ UNCHANGED <<now, proc, runtime>> /\ Polls(Home[s])
      /\ stage[s] = "claiming" /\ stage'[s] = "claimed"
      /\ clock'[s] = 0
      /\ \A t \in Shells \ {s} : stage'[t] = stage[t] /\ clock'[t] = clock[t]
  BY Typed DEF Claim, Move
<1>2. /\ row'[s].status = "running" /\ row'[s].gen = Generation + 1
      /\ row'[s].lease = clock[s] + Lease
      /\ \A t \in Shells \ {s} :
            /\ row'[t].gen = row[t].gen
            /\ t \in Superseded(s) => row'[t].status = "superseded" /\ row'[t].lease = 0
            /\ t \notin Superseded(s) => row'[t] = row[t]
  BY ClaimRow
<1>3. /\ Generation \in Nat /\ \A t \in Shells : row[t].gen <= Generation
  BY GenerationIs
<1>4. /\ now \in Nat /\ Lease \in Nat /\ Home[s] \in Owners
      /\ \A t \in Shells : row[t].gen \in Nat /\ row[t].lease \in Nat /\ clock[t] \in Nat
      /\ \A o \in Owners : runtime[o].read \in Nat /\ runtime[o].snap \subseteq Shells
  BY Numbers, GatewayActivityAssumption
<1>5. \A t \in Shells \ {s} : row'[t].gen < row'[s].gen
  BY <1>2, <1>3, <1>4
<1>6. /\ s \in Active' /\ s \notin Active
      /\ \A t \in Active' : t # s =>
            /\ t \in Active /\ row'[t] = row[t] /\ Home[t] = Home[s]
            /\ row[t].lease <= clock[s] + Lease
  <2>1. s \in Active' /\ s \notin Active
    BY <1>1, <1>2 DEF Active, RowsKept, RowKeptBy, RowFollowsStage
  <2>2. ASSUME NEW t \in Active', t # s
        PROVE  /\ t \in Active /\ row'[t] = row[t] /\ Home[t] = Home[s]
               /\ row[t].lease <= clock[s] + Lease
    <3>1. t \in Shells \ {s} /\ row'[t].status = "running"
      BY <2>2 DEF Active
    <3>2. t \notin Superseded(s) /\ row'[t] = row[t] /\ t \in Active
      BY <1>2, <3>1 DEF Active
    <3>3. row[t].lease >= clock[s]
      BY <3>2 DEF Superseded, Unexpired
    <3>4. Home[t] = Home[s]
      BY <3>2, <3>3, ClaimAlone
    <3> QED
      BY <1>1, <3>2, <3>4 DEF ClaimCovers
  <2> QED
    BY <2>1, <2>2
<1>7. Active' \subseteq Shells /\ Active \subseteq Shells
  BY DEF Active
<1>8. GenerationsUnique'
  BY <1>2, <1>4, <1>5 DEF GenerationsUnique
<1>9. TimesPast'
  <2>1. clock[s] <= now
    BY DEF TimesPast
  <2>2. \A t \in Shells \ {s} : row'[t].lease <= now + Lease
    <3>1. \A t \in Superseded(s) \ {s} : row'[t].lease = 0
      BY <1>2 DEF Superseded, Active
    <3> QED
      BY <1>2, <1>4, <3>1 DEF TimesPast
  <2> QED
    BY <1>1, <1>2, <1>4, <2>1, <2>2 DEF TimesPast
<1>10. SuccessorsAtHome'
  <2> SUFFICES ASSUME NEW t \in Active', NEW u \in Shells, row'[u].gen > row'[t].gen
               PROVE  Home[u] = Home[t]
    BY DEF SuccessorsAtHome
  <2>1. t # s
    BY <1>2, <1>3, <1>4, <1>5
  <2>2. CASE u = s
    BY <1>6, <2>1, <2>2
  <2>3. CASE u # s
    BY <1>2, <1>6, <2>1, <2>3 DEF SuccessorsAtHome
  <2> QED
    BY <2>2, <2>3
<1>11. LeasesOrdered'
  <2> SUFFICES ASSUME NEW t \in Active', NEW u \in Active', row'[t].gen < row'[u].gen
               PROVE  row'[t].lease <= row'[u].lease
    BY DEF LeasesOrdered
  <2>1. t # s
    BY <1>2, <1>3, <1>4, <1>5, <1>7
  <2>2. CASE u = s
    BY <1>2, <1>6, <2>1, <2>2
  <2>3. CASE u # s
    BY <1>6, <2>1, <2>3 DEF LeasesOrdered
  <2> QED
    BY <2>2, <2>3
<1>12. ClaimCovers'
  <2> SUFFICES ASSUME NEW t \in Shells, stage'[t] = "claiming", Polls(Home[t])
               PROVE  /\ \A u \in Active' : Home[u] = Home[t] => row'[u].lease <= clock'[t] + Lease
                      /\ runtime[Home[t]].at = "beat" => runtime[Home[t]].read <= clock'[t]
    BY <1>1 DEF ClaimCovers, Polls
  <2>1. t # s /\ stage[t] = "claiming"
    BY <1>1
  <2>2. Home[t] # Home[s]
    BY <1>1, <2>1, AloneAtHome DEF WorkStage
  <2>3. ASSUME NEW u \in Active', Home[u] = Home[t]
        PROVE  row'[u].lease <= clock'[t] + Lease
    BY <1>1, <1>6, <2>1, <2>2, <2>3 DEF ClaimCovers
  <2> QED
    BY <1>1, <2>1, <2>3 DEF ClaimCovers
<1>13. ExecutingNewest'
  <2> SUFFICES ASSUME NEW t \in Shells, NEW u \in Shells,
                      stage'[t] \in {"claimed", "running"}, Home[u] = Home[t]
               PROVE  row'[u].gen <= row'[t].gen
    BY DEF ExecutingNewest
  <2>1. CASE t = s
    BY <1>2, <1>3, <1>4, <1>5, <2>1
  <2>2. CASE t # s
    <3>1. Home[t] # Home[s]
      BY <1>1, <2>2, AloneAtHome DEF WorkStage
    <3> QED
      BY <1>1, <1>2, <2>2, <3>1 DEF ExecutingNewest
  <2> QED
    BY <2>1, <2>2
<1>14. BeatOrdered'
  <2> SUFFICES ASSUME NEW o \in Owners, runtime[o].at = "beat",
                      NEW t \in runtime[o].snap, t \in Active', NEW u \in Active'
               PROVE  /\ row'[u].gen > row'[t].gen =>
                            u \in runtime[o].snap \/ runtime[o].read + Lease <= row'[u].lease
                      /\ row'[u].gen < row'[t].gen => row'[u].lease <= runtime[o].read + Lease
    BY <1>1 DEF BeatOrdered
  <2>1. t # s /\ Home[t] = o /\ t \in Shells
    BY <1>1, <1>4 DEF RowsKept, RowKeptBy, TrackedRunning
  <2>2. t \in Active /\ row'[t] = row[t] /\ Home[s] = o
    BY <1>6, <2>1
  <2>3. CASE u = s
    <3>1. runtime[o].read <= clock[s]
      BY <1>1, <2>2 DEF ClaimCovers
    <3> QED
      BY <1>2, <1>3, <1>4, <1>5, <2>1, <2>3, <3>1
  <2>4. CASE u # s
    BY <1>6, <2>2, <2>4 DEF BeatOrdered
  <2> QED
    BY <2>3, <2>4
<1> QED
  BY <1>8, <1>9, <1>10, <1>11, <1>12, <1>13, <1>14

LEMMA BindThreadLeases ==
    ASSUME ShellInvariant, LeasesKept, NEW s \in Shells, BindThread(s)
    PROVE  LeasesKept'
<1> USE DEF ShellInvariant, CommandInvariant, LeasesKept
<1>1. /\ UNCHANGED <<now, proc, runtime, stage, clock>> /\ Polls(Home[s])
      /\ stage[s] = "running" /\ s \in Active
  BY DEF BindThread, shellVars
<1>2. /\ row'[s].lease = now + Lease
      /\ \A t \in Shells : row'[t].gen = row[t].gen /\ row'[t].status = row[t].status
      /\ \A t \in Shells \ {s} : row'[t] = row[t]
  BY Typed DEF BindThread, RowType
<1>3. /\ now \in Nat /\ Lease \in Nat /\ Home[s] \in Owners
      /\ \A t \in Shells : row[t].gen \in Nat /\ row[t].lease \in Nat /\ clock[t] \in Nat
      /\ \A o \in Owners : runtime[o].read \in Nat /\ runtime[o].snap \subseteq Shells
  BY Numbers, GatewayActivityAssumption
<1>4. Active' = Active /\ Active \subseteq Shells
  BY <1>2 DEF Active
<1>5. /\ \A t \in Shells : row[t].lease <= now + Lease
      /\ \A o \in Owners : runtime[o].read <= now
  BY DEF TimesPast
<1>6. \A t \in Active : row[t].gen <= row[s].gen
  <2>1. ASSUME NEW t \in Active, row[t].gen > row[s].gen PROVE FALSE
    <3>1. Home[t] = Home[s]
      BY <1>1, <1>4, <2>1 DEF SuccessorsAtHome
    <3> QED
      BY <1>1, <1>3, <1>4, <2>1, <3>1 DEF ExecutingNewest
  <2> QED
    BY <2>1, <1>3, <1>4
<1>7. GenerationsUnique' /\ SuccessorsAtHome' /\ ExecutingNewest'
  BY <1>1, <1>2, <1>4 DEF GenerationsUnique, SuccessorsAtHome, ExecutingNewest
<1>8. TimesPast'
  BY <1>1, <1>2, <1>3 DEF TimesPast
<1>9. LeasesOrdered'
  <2> SUFFICES ASSUME NEW t \in Active, NEW u \in Active, row[t].gen < row[u].gen
               PROVE  row'[t].lease <= row'[u].lease
    BY <1>2, <1>4 DEF LeasesOrdered
  <2>1. t # s
    BY <1>3, <1>4, <1>6
  <2>2. CASE u = s
    BY <1>2, <1>4, <1>5, <2>1, <2>2
  <2>3. CASE u # s
    BY <1>2, <1>4, <2>1, <2>3 DEF LeasesOrdered
  <2> QED
    BY <2>2, <2>3
<1>10. ClaimCovers'
  <2> SUFFICES ASSUME NEW t \in Shells, stage[t] = "claiming", Polls(Home[t])
               PROVE  /\ \A u \in Active : Home[u] = Home[t] => row'[u].lease <= clock[t] + Lease
                      /\ runtime[Home[t]].at = "beat" => runtime[Home[t]].read <= clock[t]
    BY <1>1, <1>4 DEF ClaimCovers, Polls
  <2>1. Home[t] # Home[s]
    BY <1>1, AloneAtHome DEF WorkStage
  <2> QED
    BY <1>2, <1>4, <2>1 DEF ClaimCovers
<1>11. BeatOrdered'
  <2> SUFFICES ASSUME NEW o \in Owners, runtime[o].at = "beat",
                      NEW t \in runtime[o].snap, t \in Active, NEW u \in Active
               PROVE  /\ row[u].gen > row[t].gen =>
                            u \in runtime[o].snap \/ runtime[o].read + Lease <= row'[u].lease
                      /\ row[u].gen < row[t].gen => row'[u].lease <= runtime[o].read + Lease
    BY <1>1, <1>2, <1>4 DEF BeatOrdered
  <2>1. CASE u = s
    BY <1>2, <1>3, <1>4, <1>5, <1>6, <2>1
  <2>2. CASE u # s
    BY <1>2, <1>4, <2>2 DEF BeatOrdered
  <2> QED
    BY <2>1, <2>2
<1> QED
  BY <1>7, <1>8, <1>9, <1>10, <1>11

LEMMA SnapshotLeases ==
    ASSUME ShellInvariant, LeasesKept, NEW o \in Owners, Snapshot(o)
    PROVE  LeasesKept'
<1> USE DEF ShellInvariant, CommandInvariant, LeasesKept
<1>1. UNCHANGED <<now, row, proc, stage, clock>> /\ Alive(o)
  BY DEF Snapshot, storeVars, shellVars
<1>2. /\ runtime'[o].snap = tracked \cap ShellsOf(o) /\ runtime'[o].at = "beat"
      /\ runtime'[o].read = now
      /\ \A p \in Owners \ {o} : runtime'[p] = runtime[p]
  BY Typed, TaskFields DEF Snapshot
<1>3. /\ now \in Nat /\ Lease \in Nat
      /\ \A t \in Shells : row[t].gen \in Nat /\ row[t].lease \in Nat /\ clock[t] \in Nat
      /\ \A p \in Owners : runtime[p].read \in Nat /\ runtime[p].snap \subseteq Shells
  BY Numbers
<1>4. Active' = Active /\ Active \subseteq Shells
  BY <1>1 DEF Active
<1>5. GenerationsUnique' /\ SuccessorsAtHome' /\ LeasesOrdered' /\ ExecutingNewest'
  BY <1>1, <1>4 DEF GenerationsUnique, SuccessorsAtHome, LeasesOrdered, ExecutingNewest
<1>6. TimesPast'
  BY <1>1, <1>2, <1>3 DEF TimesPast
<1>7. PICK r \in tracked : r \in Shells /\ Home[r] = o /\ stage[r] = "running"
  BY Typed DEF Snapshot, Busy, ShellsOf, RowsKept, RowKeptBy, TrackedRunning
<1>8. ClaimCovers'
  <2> SUFFICES ASSUME NEW t \in Shells, stage[t] = "claiming", Polls(Home[t])
               PROVE  /\ \A u \in Active : Home[u] = Home[t] => row[u].lease <= clock[t] + Lease
                      /\ runtime'[Home[t]].at = "beat" => runtime'[Home[t]].read <= clock[t]
    BY <1>1, <1>4 DEF ClaimCovers, Polls
  <2>1. Home[t] # o
    BY <1>7, AloneAtHome DEF WorkStage
  <2>2. Home[t] \in Owners
    BY GatewayActivityAssumption
  <2> QED
    BY <1>2, <2>1, <2>2 DEF ClaimCovers
<1>9. BeatOrdered'
  <2> SUFFICES ASSUME NEW p \in Owners, runtime'[p].at = "beat",
                      NEW t \in runtime'[p].snap, t \in Active, NEW u \in Active
               PROVE  /\ row[u].gen > row[t].gen =>
                            u \in runtime'[p].snap \/ runtime'[p].read + Lease <= row[u].lease
                      /\ row[u].gen < row[t].gen => row[u].lease <= runtime'[p].read + Lease
    BY <1>1, <1>4 DEF BeatOrdered
  <2>1. CASE p = o
    <3>1. t \in tracked /\ t \in Shells /\ Home[t] = o
      BY <1>2, <2>1 DEF ShellsOf
    <3>2. stage[t] = "running"
      BY <3>1 DEF RowsKept, RowKeptBy, TrackedRunning
    <3>3. ~(row[u].gen > row[t].gen)
      <4>1. row[u].gen > row[t].gen => Home[u] = Home[t]
        BY <1>4 DEF SuccessorsAtHome
      <4> QED
        BY <1>3, <1>4, <3>1, <3>2, <4>1 DEF ExecutingNewest
    <3>4. row[u].lease <= now + Lease
      BY <1>4 DEF TimesPast
    <3> QED
      BY <1>2, <2>1, <3>3, <3>4
  <2>2. CASE p # o
    BY <1>2, <1>4, <2>2 DEF BeatOrdered
  <2> QED
    BY <2>1, <2>2
<1> QED
  BY <1>5, <1>6, <1>8, <1>9

LEMMA BeatLeases ==
    ASSUME ShellInvariant, LeasesKept, NEW o \in Owners, Beat(o),
           row' = [s \in Shells |-> IF s \in runtime[o].snap \cap Active
                                    THEN [row[s] EXCEPT !.lease = runtime[o].read + Lease]
                                    ELSE row[s]],
           TimesPast'
    PROVE  LeasesKept'
<1> USE DEF ShellInvariant, CommandInvariant, LeasesKept
<1> DEFINE kept == runtime[o].snap \cap Active
           new == runtime[o].read + Lease
<1>1. UNCHANGED <<now, proc, stage, clock>> /\ runtime[o].at = "beat"
  BY DEF Beat, shellVars
<1>2. runtime'[o].at # "beat" /\ \A p \in Owners \ {o} : runtime'[p] = runtime[p]
  BY BeatTask
<1>3. /\ now \in Nat /\ Lease \in Nat
      /\ \A t \in Shells : row[t].gen \in Nat /\ row[t].lease \in Nat /\ clock[t] \in Nat
      /\ \A p \in Owners : runtime[p].read \in Nat /\ runtime[p].snap \subseteq Shells
  BY Numbers
<1>4. /\ \A t \in Shells : row'[t].gen = row[t].gen /\ row'[t].status = row[t].status
      /\ \A t \in kept : row'[t].lease = new /\ Home[t] = o
      /\ \A t \in Shells \ kept : row'[t] = row[t]
  <2>1. \A t \in Shells : LET r == [row[t] EXCEPT !.lease = new]
                          IN  r.gen = row[t].gen /\ r.status = row[t].status /\ r.lease = new
    BY Typed DEF RowType
  <2>2. \A t \in kept : Home[t] = o /\ t \in Shells
    BY <1>3 DEF RowsKept, RowKeptBy, TrackedRunning
  <2> QED
    BY <2>1, <2>2
<1>5. Active' = Active /\ Active \subseteq Shells /\ kept \subseteq Active
  BY <1>4 DEF Active
<1>6. /\ \A s \in kept, t \in Active \ kept : row[t].gen > row[s].gen => new <= row[t].lease
      /\ \A s \in kept, t \in Active : row[t].gen < row[s].gen => row[t].lease <= new
  BY <1>1 DEF BeatOrdered
<1> HIDE DEF kept, new
<1>7. GenerationsUnique' /\ SuccessorsAtHome' /\ ExecutingNewest'
  BY <1>1, <1>4, <1>5 DEF GenerationsUnique, SuccessorsAtHome, ExecutingNewest
<1>8. new \in Nat
  BY <1>3 DEF new
<1>9. LeasesOrdered'
  <2> SUFFICES ASSUME NEW s \in Active, NEW t \in Active, row[s].gen < row[t].gen
               PROVE  row'[s].lease <= row'[t].lease
    BY <1>4, <1>5 DEF LeasesOrdered
  <2>0. s \in Shells /\ t \in Shells /\ row[t].gen > row[s].gen
    BY <1>3, <1>5
  <2>1. CASE s \in kept /\ t \in kept
    BY <1>4, <1>8, <2>1
  <2>2. CASE s \in kept /\ t \notin kept
    BY <1>4, <1>6, <2>0, <2>2
  <2>3. CASE s \notin kept /\ t \in kept
    BY <1>4, <1>6, <2>0, <2>3
  <2>4. CASE s \notin kept /\ t \notin kept
    BY <1>4, <2>0, <2>4 DEF LeasesOrdered
  <2> QED
    BY <2>1, <2>2, <2>3, <2>4
<1>10. ClaimCovers'
  <2> SUFFICES ASSUME NEW t \in Shells, stage[t] = "claiming", Polls(Home[t])
               PROVE  /\ \A u \in Active : Home[u] = Home[t] => row'[u].lease <= clock[t] + Lease
                      /\ runtime'[Home[t]].at = "beat" => runtime'[Home[t]].read <= clock[t]
    BY <1>1, <1>5 DEF ClaimCovers, Polls
  <2>1. Home[t] \in Owners
    BY GatewayActivityAssumption
  <2>2. ASSUME NEW u \in Active, Home[u] = Home[t]
        PROVE  row'[u].lease <= clock[t] + Lease
    <3>1. CASE u \in kept
      <4>1. Home[t] = o /\ runtime[o].read <= clock[t]
        BY <1>1, <1>4, <2>2, <3>1 DEF ClaimCovers
      <4> QED
        BY <1>3, <1>4, <3>1, <4>1 DEF new
    <3>2. CASE u \notin kept
      BY <1>4, <1>5, <2>2, <3>2 DEF ClaimCovers
    <3> QED
      BY <3>1, <3>2
  <2>3. runtime'[Home[t]].at = "beat" => runtime'[Home[t]].read <= clock[t]
    BY <1>2, <2>1 DEF ClaimCovers
  <2> QED
    BY <2>2, <2>3
<1>11. BeatOrdered'
  <2> SUFFICES ASSUME NEW p \in Owners, runtime'[p].at = "beat",
                      NEW t \in runtime'[p].snap \cap Active', NEW u \in Active'
               PROVE  /\ row'[u].gen > row'[t].gen =>
                            u \in runtime'[p].snap \/ runtime'[p].read + Lease <= row'[u].lease
                      /\ row'[u].gen < row'[t].gen => row'[u].lease <= runtime'[p].read + Lease
    BY DEF BeatOrdered
  <2>0. /\ t \in runtime'[p].snap /\ t \in Active /\ u \in Active
        /\ row'[t].gen = row[t].gen /\ row'[u].gen = row[u].gen
    BY <1>4, <1>5
  <2>1. p # o /\ runtime'[p] = runtime[p]
    BY <1>2
  <2>2. Home[t] = p /\ t \in Shells
    BY <1>5, <2>0, <2>1 DEF RowsKept, RowKeptBy, TrackedRunning
  <2>3. CASE u \in kept
    <3>1. row[u].gen = row[t].gen
      <4>1. Home[u] = o
        BY <1>4, <2>3
      <4> QED
        BY <1>3, <1>5, <2>0, <2>1, <2>2, <4>1 DEF SuccessorsAtHome
    <3> QED
      BY <1>3, <1>5, <2>0, <3>1
  <2>4. CASE u \notin kept
    BY <1>4, <1>5, <2>0, <2>1, <2>4 DEF BeatOrdered
  <2> QED
    BY <2>3, <2>4
<1> QED
  BY <1>7, <1>9, <1>10, <1>11

LEMMA NextLeases ==
    ASSUME ShellInvariant, ShellInvariant', LeasesKept, [Next]_vars
    PROVE  LeasesKept'
<1> USE DEF ShellInvariant, CommandInvariant, storeVars, shellVars, historyVars
<1>0. /\ now \in Nat /\ Lease \in Nat
      /\ \A s \in Shells : row[s].gen \in Nat /\ row[s].lease \in Nat /\ clock[s] \in Nat
      /\ \A o \in Owners : runtime[o].read \in Nat /\ runtime[o].snap \subseteq Shells
  BY Numbers
<1> DEFINE CalmRows == \A s \in Shells :
               /\ row'[s].gen = row[s].gen
               /\ row'[s].status = "running" =>
                     row[s].status = "running" /\ row'[s].lease = row[s].lease
               /\ row'[s].lease <= row[s].lease
           CalmStages == \A s \in Shells :
               /\ stage'[s] = "claiming" => stage[s] = "claiming" /\ clock'[s] = clock[s]
               /\ clock'[s] <= clock[s]
               /\ stage'[s] \in {"claimed", "running"} => stage[s] \in {"claimed", "running"}
           CalmTasks == \A o \in Owners :
               /\ runtime'[o].at = "beat" => runtime'[o] = runtime[o]
               /\ runtime'[o].read <= runtime[o].read
           CalmProcs == \A o \in Owners : Polls(o)' => Polls(o)
<1>1. /\ UNCHANGED row => CalmRows
      /\ UNCHANGED <<stage, clock>> => CalmStages
      /\ UNCHANGED runtime => CalmTasks
      /\ UNCHANGED proc => CalmProcs
  BY <1>0 DEF Polls
<1>2. now' >= now /\ CalmRows /\ CalmStages /\ CalmTasks /\ CalmProcs => Calm
  BY DEF Calm
<1>3. UNCHANGED now => now' >= now
  BY <1>0
<1>4. ASSUME NEW o \in Owners, NEW k, runtime' = [runtime EXCEPT ![o] = k],
             k.at # "beat", k.read \in {0, runtime[o].read}
      PROVE  CalmTasks
  <2>1. runtime'[o] = k /\ \A p \in Owners \ {o} : runtime'[p] = runtime[p]
    BY <1>4, Typed
  <2> QED
    BY <1>0, <1>4, <2>1
<1> HIDE DEF CalmRows, CalmTasks, CalmProcs
<1>5. ASSUME NEW s \in Shells, ShellStep(s) PROVE LeasesKept'
  <2>0. UNCHANGED <<now, runtime, proc>>
    BY <1>5 DEF ShellStep, Admit, Enter, Register, BeginClaim, Claim, Track, BindThread, Settle,
                Abandon, ReadAbandoned, Finish, Close
  <2>1. CASE Claim(s) /\ Refused(s)
    <3>1. UNCHANGED row /\ CalmStages
      BY <1>0, <2>1, Typed DEF Claim, Move
    <3> QED
      BY <1>1, <1>2, <1>3, <2>0, <3>1, CalmLeases
  <2>2. CASE Admit(s) \/ Enter(s) \/ Register(s) \/ Track(s) \/ Settle(s) \/ ReadAbandoned(s)
    <3>1. UNCHANGED <<row, clock>>
      BY <2>2 DEF Admit, Enter, Register, Track, Settle, ReadAbandoned
    <3>2. \/ \E x \in {"admitted", "done", "spawned", "queued", "registered", "settled",
                     "closing"} : Move(s, x)
          \/ stage[s] = "claimed" /\ Move(s, "running")
      BY <2>2 DEF Admit, Enter, Register, Track, Settle, ReadAbandoned
    <3>3. CalmStages
      BY <1>0, <3>1, <3>2, Typed DEF Move
    <3> QED
      BY <1>1, <1>2, <1>3, <2>0, <3>1, <3>3, CalmLeases
  <2>3. CASE Abandon(s)
    <3>1. UNCHANGED row /\ CalmStages
      BY <1>0, <2>3, Typed DEF Abandon, Move
    <3> QED
      BY <1>1, <1>2, <1>3, <2>0, <3>1, CalmLeases
  <2>4. CASE Finish(s)
    <3>1. CalmStages
      BY <1>0, <2>4, Typed DEF Finish, Move
    <3>2. CalmRows
      <4>1. CASE row' = [row EXCEPT ![s].status = "finished", ![s].lease = 0]
        BY <1>0, <4>1, Typed DEF CalmRows, RowType
      <4> QED
        BY <1>1, <2>4, <4>1 DEF Finish
    <3> QED
      BY <1>1, <1>2, <1>3, <2>0, <3>1, <3>2, CalmLeases
  <2>5. CASE Close(s)
    <3>1. UNCHANGED row /\ CalmStages
      BY <1>0, <2>5, Typed DEF Close
    <3> QED
      BY <1>1, <1>2, <1>3, <2>0, <3>1, CalmLeases
  <2> QED
    BY <1>5, <2>1, <2>2, <2>3, <2>4, <2>5, BeginClaimLeases, ClaimLeases, BindThreadLeases
    DEF ShellStep
<1>6. ASSUME NEW c \in Commands, LookUp(c) \/ Enqueue(c) PROVE LeasesKept'
  <2>1. UNCHANGED <<now, row, stage, clock, runtime, proc>>
    BY <1>6 DEF LookUp, Enqueue
  <2> QED
    BY <1>1, <1>2, <1>3, <2>1, CalmLeases
<1>7. ASSUME NEW o \in Owners, RuntimeStep(o) PROVE LeasesKept'
  <2>0. UNCHANGED <<now, stage, clock, proc>>
    BY <1>7 DEF RuntimeStep, Recover, ClaimCommands, Apply, MarkCommand, Snapshot, Beat, Conclude
  <2>1. ASSUME UNCHANGED row, CalmTasks PROVE LeasesKept'
    BY <1>1, <1>2, <1>3, <2>0, <2>1, CalmLeases
  <2>2. CASE Recover(o)
    <3> DEFINE k == [runtime[o] EXCEPT !.at = "claim"]
    <3>1. runtime' = [runtime EXCEPT ![o] = k] /\ k.at = "claim" /\ k.read = runtime[o].read
          /\ UNCHANGED row
      BY <2>2, Typed DEF Recover, TaskType
    <3> HIDE DEF k
    <3> QED
      BY <1>4, <2>1, <3>1
  <2>3. CASE ClaimCommands(o) \/ MarkCommand(o)
    <3>1. PICK b : runtime' = [runtime EXCEPT ![o] =
                    IF b = <<>> THEN Resting ELSE [Resting EXCEPT !.at = "apply", !.batch = b]]
      BY <2>3 DEF ClaimCommands, MarkCommand, Rest
    <3> DEFINE k == IF b = <<>> THEN Resting ELSE [Resting EXCEPT !.at = "apply", !.batch = b]
    <3>2. k.at # "beat" /\ k.read = 0
      BY DEF Resting
    <3>3. UNCHANGED row /\ runtime' = [runtime EXCEPT ![o] = k]
      BY <2>3, <3>1 DEF ClaimCommands, MarkCommand
    <3> HIDE DEF k
    <3> QED
      BY <1>4, <2>1, <3>2, <3>3
  <2>4. CASE Apply(o)
    <3>1. PICK v : runtime' = [runtime EXCEPT ![o].at = "mark", ![o].verdict = v]
      BY <2>4 DEF Apply
    <3> DEFINE k == [runtime[o] EXCEPT !.at = "mark", !.verdict = v]
    <3>2. runtime' = [runtime EXCEPT ![o] = k] /\ k.at = "mark" /\ k.read = runtime[o].read
      BY <3>1, Typed DEF TaskType
    <3>3. UNCHANGED row
      BY <2>4 DEF Apply
    <3> HIDE DEF k
    <3> QED
      BY <1>4, <2>1, <3>2, <3>3
  <2>5. CASE Conclude(o)
    <3>1. UNCHANGED row /\ runtime' = [runtime EXCEPT ![o] = Resting]
      BY <2>5 DEF Conclude, Rest
    <3> QED
      BY <1>4, <2>1, <3>1, TaskFields
  <2>6. CASE Beat(o)
    <3>1. /\ runtime'[o].at # "beat" /\ runtime'[o].read = 0
          /\ \A p \in Owners \ {o} : runtime'[p] = runtime[p]
      BY <2>6, BeatTask
    <3>2. CalmTasks
      BY <1>0, <3>1 DEF CalmTasks
    <3>3. CASE UNCHANGED row
      BY <2>1, <3>2, <3>3
    <3>4. CASE row' = [s \in Shells |-> IF s \in runtime[o].snap \cap Active
                                       THEN [row[s] EXCEPT !.lease = runtime[o].read + Lease]
                                       ELSE row[s]]
      <4>1. \A s \in Shells : row'[s].lease \in {row[s].lease, runtime[o].read + Lease}
        BY <3>4, Typed DEF RowType
      <4>2. TimesPast'
        <5>1. TimesPast
          BY DEF LeasesKept
        <5>2. \A s \in Shells : row'[s].lease <= now + Lease
          BY <1>0, <4>1, <5>1 DEF TimesPast
        <5> QED
          BY <1>0, <2>0, <3>1, <5>1, <5>2 DEF TimesPast
      <4> QED
        BY <2>6, <3>4, <4>2, BeatLeases
    <3> QED
      BY <2>6, <3>3, <3>4 DEF Beat
  <2> QED
    BY <1>7, <2>2, <2>3, <2>4, <2>5, <2>6, SnapshotLeases DEF RuntimeStep
<1>8. ASSUME NEW o \in Owners, ProcessStep(o) PROVE LeasesKept'
  <2>0. UNCHANGED <<now, row>>
    BY <1>8 DEF ProcessStep, InterruptLocally, Shutdown, CancelQueue, StopRuntime, Crash
  <2>1. CalmProcs
    <3>1. /\ \A p \in Owners \ {o} : proc'[p] = proc[p]
          /\ proc'[o] \in {"up", "draining"} => proc[o] \in {"up", "draining"}
      BY <1>8, Typed
      DEF ProcessStep, InterruptLocally, Shutdown, CancelQueue, StopRuntime, Crash
    <3> QED
      BY <3>1 DEF CalmProcs, Polls
  <2>2. CalmTasks
    <3>1. UNCHANGED runtime \/ runtime' = [runtime EXCEPT ![o] = Resting]
      BY <1>8 DEF ProcessStep, InterruptLocally, Shutdown, CancelQueue, StopRuntime, Crash, Rest
    <3> QED
      BY <1>1, <1>4, <3>1, TaskFields
  <2>3. CalmStages
    <3>1. CASE InterruptLocally(o) \/ CancelQueue(o)
      <4>1. DropWaiting(o) /\ UNCHANGED clock
        BY <3>1 DEF InterruptLocally, CancelQueue
      <4>2. \A t \in Shells : stage'[t] = "done" \/ stage'[t] = stage[t]
        BY <4>1 DEF DropWaiting
      <4> QED
        BY <1>0, <4>1, <4>2
    <3>2. CASE Crash(o)
      BY <1>0, <3>2 DEF Crash
    <3> QED
      BY <1>1, <1>8, <3>1, <3>2 DEF ProcessStep, Shutdown, StopRuntime
  <2> QED
    BY <1>1, <1>2, <1>3, <2>0, <2>1, <2>2, <2>3, CalmLeases
<1>9. CASE Tick
  <2>1. now' >= now /\ UNCHANGED <<row, stage, clock, runtime, proc>>
    BY <1>0, <1>9 DEF Tick
  <2> QED
    BY <1>1, <1>2, <2>1, CalmLeases
<1>10. CASE Ended \/ UNCHANGED vars
  <2>1. UNCHANGED <<now, row, stage, clock, runtime, proc>>
    BY <1>10 DEF Ended, vars
  <2> QED
    BY <1>1, <1>2, <1>3, <2>1, CalmLeases
<1> QED
  BY <1>5, <1>6, <1>7, <1>8, <1>9, <1>10 DEF Next

LEMMA InitLeases == Init => LeaseInvariant
<1> SUFFICES ASSUME Init PROVE LeasesKept
  BY InitShells DEF LeaseInvariant
<1>1. /\ \A s \in Shells : /\ row[s].status = "none" /\ row[s].gen = 0 /\ row[s].lease = 0
                           /\ stage[s] = "new" /\ clock[s] = 0
      /\ \A o \in Owners : runtime[o].at = "idle" /\ runtime[o].read = 0
      /\ now = 0 /\ Lease \in Nat
  BY TaskFields, GatewayActivityAssumption DEF Init
<1>2. Active = {}
  BY <1>1 DEF Active
<1> QED
  BY <1>1, <1>2 DEF LeasesKept, GenerationsUnique, TimesPast, SuccessorsAtHome, LeasesOrdered,
                    ClaimCovers, ExecutingNewest, BeatOrdered

LEMMA LeasesInvariant == Spec => []LeaseInvariant
<1>1. Init => LeaseInvariant
  BY InitLeases
<1>2. ShellInvariant /\ ShellInvariant' /\ LeasesKept /\ [Next]_vars => LeasesKept'
  BY NextLeases
<1> QED
  BY <1>1, <1>2, ShellsInvariant, PTL DEF Spec, LeaseInvariant


-----------------------------------------------------------------------------
(* The rows implement the lease.                                           *)

\* The state of the lease that the rows stand for.
Holders == {Home[s] : s \in {t \in Active : Unexpired(t, now)}}
Latest  == IF Generation = 0 THEN None ELSE Home[CHOOSE s \in Shells : row[s].gen = Generation]

LEMMA MaxIs ==
    ASSUME NEW G, G \subseteq Nat, NEW m \in G, \A y \in G : y <= m
    PROVE  Max(G) = m
<1>1. \E x \in G : \A y \in G : x >= y
  OBVIOUS
<1>2. Max(G) \in G /\ Max(G) >= m
  BY <1>1 DEF Max
<1>3. m \in Nat /\ Max(G) \in Nat /\ Max(G) <= m
  BY <1>2
<1> QED
  BY <1>2, <1>3

LEMMA OnlyOne ==
    ASSUME NEW S, NEW f, NEW g, NEW x \in S, f[x].gen = g, \A t \in S : f[t].gen = g => t = x
    PROVE  (CHOOSE t \in S : f[t].gen = g) = x
  OBVIOUS

\* Every active row is of the process that made the latest claim.
LEMMA ActiveAtLatest ==
    ASSUME TypeOK, NewestGeneration, RowsKept, LeasesKept, NEW s \in Active
    PROVE  Generation > 0 /\ Latest = Home[s] /\ Latest \in Owners
<1>1. /\ Generation \in Nat
      /\ \A t \in Shells : row[t].gen <= Generation
  BY GenerationIs
<1>2. PICK m \in Shells : row[m].gen = Generation
  BY GenerationIs
<1>3. s \in Shells /\ row[s].gen \in Nat /\ row[s].gen # 0
  BY Numbers DEF Active, RowsKept, RowKeptBy, RowFollowsStage
<1>4. Generation > 0
  BY <1>1, <1>3
<1>5. \A t \in Shells : row[t].gen = Generation => t = m
  BY <1>2, <1>4 DEF LeasesKept, GenerationsUnique
<1>6. Latest = Home[m]
  BY <1>1, <1>2, <1>4, <1>5, OnlyOne DEF Latest
<1>7. Home[s] = Home[m]
  <2>1. CASE s = m
    BY <2>1
  <2>2. CASE s # m
    <3>1. row[s].gen < row[m].gen
      BY <1>1, <1>2, <1>3, <1>5, <2>2
    <3> QED
      BY <1>2, <1>3, <3>1, Numbers DEF LeasesKept, SuccessorsAtHome
  <2> QED
    BY <2>1, <2>2
<1> QED
  BY <1>4, <1>6, <1>7, <1>2, GatewayActivityAssumption

\* A granted claim takes the lease and opens a term.
LEMMA ClaimTakes ==
    ASSUME LeaseInvariant, NEW s \in Shells, Claim(s), ~Refused(s)
    PROVE  /\ Holders \subseteq {Home[s]}
           /\ Holders' \subseteq {Home[s]}
           /\ Generation' = Generation + 1
           /\ Latest' = Home[s]
<1> USE DEF LeaseInvariant, ShellInvariant, CommandInvariant
<1>0. /\ now \in Nat /\ clock[s] \in Nat /\ clock[s] <= now /\ UNCHANGED now
      /\ \A t \in Shells : row[t].gen \in Nat /\ row[t].lease \in Nat
  BY Numbers DEF LeasesKept, TimesPast, Claim
<1>1. /\ row'[s].status = "running" /\ row'[s].gen = Generation + 1
      /\ \A t \in Shells \ {s} :
            /\ row'[t].gen = row[t].gen
            /\ t \in Superseded(s) => row'[t].status = "superseded"
            /\ t \notin Superseded(s) => row'[t] = row[t]
  BY ClaimRow
<1>2. \A t \in Active : row[t].lease >= clock[s] => Home[t] = Home[s]
  BY ClaimAlone
<1>3. Holders \subseteq {Home[s]}
  BY <1>0, <1>2 DEF Holders, Unexpired, Active
<1>4. Holders' \subseteq {Home[s]}
  <2>1. ASSUME NEW t \in Active', t # s PROVE Home[t] = Home[s]
    <3>1. t \in Shells \ {s} /\ row'[t].status = "running"
      BY <2>1 DEF Active
    <3>2. t \notin Superseded(s) /\ t \in Active
      BY <1>1, <3>1 DEF Active
    <3> QED
      BY <1>2, <3>2 DEF Superseded, Unexpired
  <2>2. \A t \in Active' : Home[t] = Home[s]
    BY <2>1
  <2> QED
    BY <2>2 DEF Holders
<1>5. /\ Generation \in Nat
      /\ \A t \in Shells : row[t].gen <= Generation
  BY GenerationIs
<1>6. Generation' = Generation + 1
  <2> DEFINE G == {row'[t].gen : t \in Shells}
  <2>1. G \subseteq Nat /\ Generation + 1 \in G /\ \A y \in G : y <= Generation + 1
    BY <1>0, <1>1, <1>5
  <2>2. Max(G) = Generation + 1
    <3> HIDE DEF G
    <3> QED
      BY <2>1, MaxIs
  <2> QED
    BY <2>2 DEF Generation
<1>7. Latest' = Home[s]
  <2>1. \A t \in Shells : row'[t].gen = Generation' => t = s
    BY <1>0, <1>1, <1>5, <1>6
  <2>2. (CHOOSE t \in Shells : row'[t].gen = Generation') = s
    BY <1>1, <1>6, <2>1, OnlyOne
  <2>3. Generation' # 0
    BY <1>5, <1>6
  <2> QED
    BY <2>2, <2>3 DEF Latest
<1> QED
  BY <1>3, <1>4, <1>6, <1>7

\* Every other step leaves the term, and the lease to the owner of the latest
\* one or to nobody.
LEMMA RowsKeepLatest ==
    ASSUME LeaseInvariant, \A t \in Shells : RowKept(t)
    PROVE  /\ Generation' = Generation
           /\ Latest' = Latest
           /\ Holders' # {} => Latest \in Owners /\ Holders' = {Latest}
<1> USE DEF LeaseInvariant, ShellInvariant, CommandInvariant
<1>1. \A t \in Shells : /\ row'[t].gen = row[t].gen
                        /\ row'[t].status = "running" => row[t].status = "running"
  BY DEF RowKept
<1>2. Generation' = Generation
  <2>1. {row'[t].gen : t \in Shells} = {row[t].gen : t \in Shells}
    BY <1>1
  <2> QED
    BY <2>1 DEF Generation
<1>3. Latest' = Latest
  <2>1. PICK m \in Shells : row[m].gen = Generation
    BY GenerationIs
  <2>2. CASE Generation = 0
    BY <1>2, <2>2 DEF Latest
  <2>3. CASE Generation # 0
    <3>1. \A t \in Shells : row[t].gen = Generation => t = m
      BY <2>1, <2>3, Numbers DEF LeasesKept, GenerationsUnique
    <3>2. (CHOOSE t \in Shells : row[t].gen = Generation) = m
      BY <2>1, <3>1, OnlyOne
    <3>3. (CHOOSE t \in Shells : row'[t].gen = Generation') = m
      BY <1>1, <1>2, <2>1, <3>1, OnlyOne
    <3>4. Latest = Home[m]
      BY <2>3, <3>2 DEF Latest
    <3>5. Latest' = Home[m]
      BY <1>2, <2>3, <3>3 DEF Latest
    <3> QED
      BY <3>4, <3>5
  <2> QED
    BY <2>2, <2>3
<1>4. ASSUME Holders' # {} PROVE Latest \in Owners /\ Holders' = {Latest}
  <2>1. \A t \in Active' : t \in Active
    BY <1>1 DEF Active
  <2>2. \A t \in Active' : Home[t] = Latest /\ Latest \in Owners
    BY <2>1, ActiveAtLatest
  <2> QED
    BY <1>4, <2>2 DEF Holders
<1> QED
  BY <1>2, <1>3, <1>4

\* Claims, heartbeats, completions, crashes and takeovers of any number of
\* processes keep to the lease: claim_gateway_activity grants a claim only to
\* an owner nobody else stands in the way of, and neither a late
\* heartbeat_gateway_activities nor a late finish_gateway_activity of an old
\* generation takes the activity from a newer owner.
THEOREM ActivityLeaseKept == Spec => LeaseKept
<1> USE DEF Claims!Take, Claims!Renew, Claims!Lapse, Claims!vars
<1>1. Init => Claims!Init
  <2> SUFFICES ASSUME Init PROVE Claims!Init
    OBVIOUS
  <2>1. \A s \in Shells : row[s].gen = 0 /\ row[s].status = "none"
    BY DEF Init
  <2>2. Active = {}
    BY <2>1 DEF Active
  <2>3. {row[s].gen : s \in Shells} = {0}
    BY <2>1, GatewayActivityAssumption
  <2>4. Generation = 0
    <3>1. {0} \subseteq Nat /\ 0 \in {0} /\ \A y \in {0} : y <= 0
      OBVIOUS
    <3>2. Max({0}) = 0
      BY <3>1, MaxIs
    <3> QED
      BY <2>3, <3>2 DEF Generation
  <2> QED
    BY <2>2, <2>4 DEF Claims!Init
<1>2. LeaseInvariant /\ [Next]_vars => [Claims!Next]_Claims!vars
  <2> SUFFICES ASSUME LeaseInvariant, [Next]_vars PROVE Claims!Next
    OBVIOUS
  <2>1. CASE \E s \in Shells : Claim(s) /\ ~Refused(s)
    <3>1. PICK s \in Shells : Claim(s) /\ ~Refused(s)
      BY <2>1
    <3>2. Home[s] \in Owners
      BY GatewayActivityAssumption
    <3>3. Claims!Take(Home[s])
      BY <3>1, ClaimTakes DEF Holders, Latest
    <3> QED
      BY <3>2, <3>3 DEF Claims!Next
  <2>2. CASE \A t \in Shells : RowKept(t)
    <3>1. CASE Holders' = {}
      BY <2>2, <3>1, RowsKeepLatest DEF Claims!Next, Holders, Latest
    <3>2. CASE Holders' # {}
      <4>1. Latest # None
        BY <2>2, <3>2, RowsKeepLatest, GatewayActivityAssumption
      <4> QED
        BY <2>2, <3>2, <4>1, RowsKeepLatest DEF Claims!Next, Holders, Latest
    <3> QED
      BY <3>1, <3>2
  <2> QED
    BY <2>1, <2>2, RowSteps DEF LeaseInvariant, ShellInvariant, CommandInvariant
<1> QED
  BY <1>1, <1>2, LeasesInvariant, PTL DEF Spec, LeaseKept, Claims!Spec
=============================================================================
