--------------------------- MODULE AgentRunsProofs ---------------------------
(***************************************************************************)
(* The safety properties of AgentRuns, proved for any set of Agents, calls *)
(* and messages: buffers are exact and accepted input is heard, a run's    *)
(* terminal is recorded once and never lost, and the parent's mailbox      *)
(* agrees with what its Turn was given.                                    *)
(***************************************************************************)
EXTENDS AgentRuns, AgentLoopProofs

\* What a control input can hold.
Messages == Sends \cup Steers \cup [mail : Nat]

-----------------------------------------------------------------------------
(* The inductive invariant, in three layers.  First: who runs what.          *)

Starters    == Spawns \cup Sends
Starting(c) == call[c].at \in {"creating", "created", "spawning"}
Busy(w)     == commit[w].at \in {"locking", "holding", "committed"}

\* A call works on an Agent; the calls of a Turn are in flight while its tools
\* run, and a Send looks for an Agent only once it has an edge.
CallsPlaced ==
    /\ \A c \in Calls :
          call[c].at \in {"creating", "created", "spawning", "inline", "retrying", "loading"} =>
              call[c].agent \in Agents
    /\ \A c \in ToolCalls : InFlight(c) => loop[Parent].at = "tools"
    /\ \A c \in Sends : call[c].at \in {"retrying", "loading"} => edge[call[c].agent] # "none"

\* A call that registered an Agent and did not start its task is alone with it.
StartingAlone ==
    \A c \in Starters : Starting(c) =>
        LET a == call[c].agent IN
        /\ slot[a].phase = "active" /\ task[a].at = "none"
        /\ loop[a].at = "idle" /\ ~input[a].closed
        /\ call[c].at = "creating" => edge[a] = "none" /\ runs[a] = 1
        /\ call[c].at = "created" => edge[a] # "none"
        /\ call[c].at = "spawning" => slot[a].durable
        /\ \A d \in Starters : Starting(d) /\ call[d].agent = a => d = c

\* A task that has not finished has an active slot; the loop begins when the
\* session is open; a task the supervisor refused is its caller's.
TaskPlaced(a) ==
    /\ task[a].at \in {"spawned", "opening"} => loop[a].at = "idle" /\ ~input[a].closed
    /\ task[a].at = "running" =>
          /\ loop[a].at # "idle"
          /\ loop[a].at = "returned" => loop[a].outcome # "none"
    /\ task[a].at \in {"spawned", "opening", "running"} => slot[a].phase = "active" /\ slot[a].durable
    /\ task[a].at \in {"spawned", "opening", "running", "finishing"} /\ task[a].by # "background" =>
          /\ task[a].by \in Starters
          /\ call[task[a].by].at = "inline" /\ call[task[a].by].agent = a
TasksPlaced == \A a \in Agents : TaskPlaced(a)

\* A durable slot has an edge, and a pending slot is durable.
SlotsDurable ==
    \A a \in Agents :
        /\ runs[a] = 0 => slot[a].phase = "vacant" /\ edge[a] = "none"
        /\ slot[a].phase # "vacant" /\ slot[a].durable => edge[a] # "none"
        /\ slot[a].phase = "pending" => slot[a].durable

\* A slot that does not know of the edge is that of a spawn_agent between the two,
\* or of one that was dropped there.
Unbound(a) ==
    \E c \in Spawns : call[c].at \in {"created", "dropped"} /\ call[c].agent = a
SlotsBound ==
    \A a \in Agents :
        slot[a].phase # "vacant" /\ edge[a] # "none" /\ ~slot[a].durable => Unbound(a)

ShutdownStages ==
    /\ shutdown \notin {"none", "turns"} => ~admission
    /\ shutdown \in {"agents", "flush", "deadline", "closed"} => ~Live(Parent)
    /\ shutdown \in {"flush", "deadline", "closed"} => \A a \in Agents : slot[a].phase # "active"

\* A call of retry_terminal works on a registered run that has an edge.
CommitsPlaced ==
    \A w \in Committers : Busy(w) =>
        /\ commit[w].agent \in Agents /\ commit[w].run \in 1..runs[commit[w].agent]
        /\ edge[commit[w].agent] # "none"

Placed ==
    /\ CallsPlaced /\ StartingAlone /\ TasksPlaced /\ SlotsDurable /\ SlotsBound
    /\ ShutdownStages /\ CommitsPlaced

RunsInv == TypeOK /\ LoopInv(Messages) /\ Placed

-----------------------------------------------------------------------------
(* Second: the terminals. *)

\* Who holds a run's lock is alone, and the run is the latest and pending.
CommitsAlone ==
    \A w \in Committers :
        /\ commit[w].at \in {"holding", "committed"} =>
              /\ slot[commit[w].agent].phase = "pending" /\ runs[commit[w].agent] = commit[w].run
              /\ \A v \in Committers : Holds(v, commit[w].agent, commit[w].run) => v = w
        /\ commit[w].at = "committed" =>
              Rows(commit[w].agent, commit[w].run) # {} /\ edge[commit[w].agent] = "closed"
        /\ w \in Agents /\ Busy(w) => commit[w].agent = w
        /\ w \in Sends \cup Closes /\ call[w].at # "retrying" => commit[w].at \in {"none", "failed"}

\* A row is of a registered run; two rows of one run mean that a committing future
\* was dropped; and while the slot is there, a row means a committer at work.
RowsOnce ==
    /\ \A i \in DOMAIN mailbox : mailbox[i].run \in 1..runs[mailbox[i].agent]
    /\ \A i, j \in DOMAIN mailbox :
          /\ i # j /\ mailbox[i].agent = mailbox[j].agent /\ mailbox[i].run = mailbox[j].run
          => <<mailbox[i].agent, mailbox[i].run>> \in twice
    /\ \A a \in Agents :
          /\ slot[a].phase # "vacant" /\ Rows(a, runs[a]) # {} /\ <<a, runs[a]>> \notin twice
          => \E w \in Committers :
                commit[w].at = "committed" /\ commit[w].agent = a /\ commit[w].run = runs[a]

\* Every run of an Agent with an edge has its row, but for the one in the slot and
\* the one whose spawn_agent was dropped.
RowsComplete ==
    \A a \in Agents : edge[a] # "none" /\ ~Unlinked(a) =>
        \A run \in 1..runs[a] : Rows(a, run) # {} \/ (run = runs[a] /\ slot[a].phase # "vacant")

\* An edge without a slot is closed, with the same exception.
EdgesClosed == \A a \in Agents : slot[a].phase = "vacant" /\ ~Unlinked(a) => edge[a] # "open"

TerminalInv == CommitsAlone /\ RowsOnce /\ RowsComplete /\ EdgesClosed

-----------------------------------------------------------------------------
(* Third: the mailbox. *)

\* A row is claimed by a wait that got its page; and while the Turn runs, it was
\* given what its prompt or an ended wait delivered, and nothing that is pending or
\* in the hands of a wait.
RowClaimed(i) ==
    mailbox[i].delivered \in Waits => call[mailbox[i].delivered].at \notin {"idle", "ready"}
RowAgrees(i) ==
    LET given == [mail |-> i] \in Given(Parent)
        by == mailbox[i].delivered IN
    /\ by = "pending" => ~given
    /\ by = "prompt" => given
    /\ by \in Waits /\ call[by].at \in {"claimed", "resetting"} => ~given
    /\ by \in Waits /\ call[by].at = "ended" => given

MailInv ==
    /\ Given(Parent) \subseteq Steers \cup Mail(DOMAIN mailbox)
    /\ ToSet(Texts(input[Parent].steered)) \subseteq Steers
    /\ \A c \in Waits : call[c].at \in {"idle", "ready", "claimed", "resetting", "ended", "failed"}
    /\ \A i \in DOMAIN mailbox : RowClaimed(i)
    /\ Live(Parent) => \A i \in DOMAIN mailbox : RowAgrees(i)

-----------------------------------------------------------------------------
(* Names and frames. *)

LEMMA Names ==
    /\ Parent \in Runs /\ Parent \notin Agents
    /\ \A a \in Agents : a \in Runs /\ a \in Committers
    /\ \A r \in Runs : r = Parent \/ r \in Agents
    /\ \A c \in Spawns : c \in Starters /\ c \in ToolCalls /\ c \in Calls
    /\ \A c \in Sends : c \in Starters /\ c \in ToolCalls /\ c \in Calls /\ c \in Committers
    /\ \A c \in Waits : c \in ToolCalls /\ c \in Calls /\ c \notin Starters
    /\ \A c \in Closes : c \in Calls /\ c \in Committers /\ c \notin ToolCalls /\ c \notin Starters
    /\ \A c \in Starters : c \in ToolCalls
    /\ \A c \in ToolCalls : c \in Calls
    /\ "flush" \in Committers /\ "background" \notin Calls
BY AgentAssumption, KindsAssumption DEF Starters, ToolCalls, Calls, Committers

SlotRecords == [phase : {"vacant", "active", "pending"},
                status : {"none", "running"} \cup Final, durable : BOOLEAN]
TaskRecords == [at : {"none", "spawned", "opening", "running", "finishing", "done"},
                by : {"background", None} \cup Calls]
CallRecords == [at : {"idle", "creating", "created", "spawning", "inline", "retrying", "loading",
                      "ready", "claimed", "resetting", "ended", "failed", "dropped"},
                agent : Agents \cup {None}]
CommitRecords == [at : {"none", "locking", "holding", "committed", "failed"},
                  agent : Agents \cup {None}, run : 0..MaxRuns]
MailRecords == [agent : Agents, run : 1..MaxRuns, delivered : {"pending", "prompt"} \cup Waits]

\* TypeOK without the loops.
Shape ==
    /\ plan \in Plans /\ slot \in [Agents -> SlotRecords] /\ runs \in [Agents -> 0..MaxRuns]
    /\ task \in [Agents -> TaskRecords] /\ invocation \in [Agents -> 0..MaxInvocations]
    /\ turn \in 0..MaxInvocations /\ call \in [Calls -> CallRecords]
    /\ commit \in [Committers -> CommitRecords] /\ edge \in [Agents -> {"none", "open", "closed"}]
    /\ mailbox \in Seq(MailRecords) /\ admission \in BOOLEAN
    /\ shutdown \in {"none", "turns", "agents", "join", "flush", "deadline", "closed"}
    /\ flush \subseteq Agents /\ twice \subseteq Agents \X (1..MaxRuns)
    /\ failures \in 0..MaxStoreFailures

LEMMA TypeOf == TypeOK <=> Shape /\ loop \in [Runs -> LoopRecords]
BY DEF TypeOK, Shape, SlotRecords, TaskRecords, CallRecords, CommitRecords, MailRecords, LoopRecords

LEMMA LoopKept ==
    ASSUME NEW M, LoopInv(M), UNCHANGED loopVars
    PROVE  LoopInv(M)'
<1>1. input' = input /\ signal' = signal /\ loop' = loop /\ context' = context /\ owed' = owed
  BY DEF loopVars
<1> QED
  BY <1>1 DEF LoopInv, LoopType, Heard, Given

\* Only the signals changed.
LEMMA SignalsSet ==
    ASSUME NEW M, LoopInv(M), UNCHANGED <<input, loop, context, owed>>,
           signal' \in [Runs -> [stop : BOOLEAN, abort : BOOLEAN]]
    PROVE  LoopInv(M)'
BY DEF LoopInv, LoopType, Heard, Given

\* The step that follows suffices for the first layer.
LEMMA RunsStep ==
    ASSUME Shape', LoopInv(Messages)', Placed'
    PROVE  RunsInv'
BY DEF RunsInv, LoopInv, LoopType, TypeOK, Shape, SlotRecords, TaskRecords, CallRecords,
   CommitRecords, MailRecords, LoopRecords

LEMMA RunsFacts ==
    ASSUME RunsInv
    PROVE  Shape /\ LoopInv(Messages) /\ LoopType(Messages)
BY TypeOf DEF RunsInv, LoopInv

-----------------------------------------------------------------------------
(* The first layer. *)

LEMMA RunsInit == ASSUME Init PROVE RunsInv
<1>1. NewInput \in Buffers(Messages)
  BY NewInputExact
<1>2. PICK d : d = Dropped(NewInput)
  OBVIOUS
<1>3. d \in Buffers(Messages) /\ Exact(d) /\ d.closed /\ d.injected = <<>> /\ d.steered = <<>>
  BY <1>1, <1>2, DroppedExact
<1>4. /\ input = [r \in Runs |-> d] /\ signal = [r \in Runs |-> Quiet]
      /\ loop = [r \in Runs |-> NoLoop] /\ context = [r \in Runs |-> {}] /\ owed = [r \in Runs |-> {}]
  BY <1>2 DEF Init, LoopInit
<1>5. LoopType(Messages)
  <2>1. NoLoop \in LoopRecords
    BY LoopAssumption DEF NoLoop, LoopRecords, Locations, Outcomes
  <2> QED
    BY <1>3, <1>4, <2>1 DEF LoopType, Quiet
<1>6. ASSUME NEW r \in Runs PROVE Exact(input[r]) /\ Heard(r)
  BY <1>3, <1>4 DEF NoLoop, Heard
<1>7. LoopInv(Messages)
  BY <1>5, <1>6 DEF LoopInv
<1>8. TypeOK
  <2>1. Shape
    <3>1. <<>> \in Seq(MailRecords)
      BY EmptySeq
    <3> QED
      BY <3>1, AgentAssumption DEF Init, Shape, Vacant, NoTask, NoCall, NoCommit, SlotRecords,
         TaskRecords, CallRecords, CommitRecords, MaxInvocations, MaxStoreFailures
  <2> QED
    BY <1>5, <2>1, TypeOf DEF LoopType
<1>9. Placed
  <2>1. CallsPlaced
    BY Names DEF Init, NoCall, CallsPlaced, InFlight
  <2>2. StartingAlone
    BY Names DEF Init, NoCall, StartingAlone, Starting
  <2>3. TasksPlaced
    BY DEF Init, NoTask, TasksPlaced, TaskPlaced
  <2>4. SlotsDurable
    BY DEF Init, Vacant, SlotsDurable
  <2>5. ShutdownStages /\ SlotsBound
    BY DEF Init, Vacant, ShutdownStages, SlotsBound
  <2>6. CommitsPlaced
    BY DEF Init, NoCommit, CommitsPlaced, Busy
  <2> QED
    BY <2>1, <2>2, <2>3, <2>4, <2>5, <2>6 DEF Placed
<1> QED
  BY <1>7, <1>8, <1>9 DEF RunsInv

\* What each part of Placed looks at.
ChildrenKept == \A a \in Agents : loop'[a] = loop[a] /\ input'[a].closed = input[a].closed
ParentKept   == loop'[Parent].at = loop[Parent].at
SlotsKept    == \A a \in Agents : slot'[a].phase = slot[a].phase /\ slot'[a].durable = slot[a].durable
LinksKept    == \A c \in Spawns : call[c].at \in {"created", "dropped"} => call'[c] = call[c]
EdgesKept    == \A a \in Agents : edge'[a] = "none" <=> edge[a] = "none"

LEMMA Unmoved ==
    /\ UNCHANGED loopVars => ChildrenKept /\ ParentKept
    /\ UNCHANGED edge => EdgesKept
    /\ UNCHANGED slot => SlotsKept
    /\ UNCHANGED call => LinksKept
    /\ OthersKept(Parent) => ChildrenKept
    /\ \A a \in Agents : OthersKept(a) => ParentKept
BY Names DEF loopVars, ChildrenKept, ParentKept, SlotsKept, EdgesKept, LinksKept, OthersKept

LEMMA Frames ==
    ASSUME Placed
    PROVE  /\ UNCHANGED call /\ ParentKept /\ EdgesKept => CallsPlaced'
           /\ UNCHANGED <<call, task, runs>> /\ SlotsKept /\ ChildrenKept /\ EdgesKept => StartingAlone'
           /\ UNCHANGED <<call, task>> /\ SlotsKept /\ ChildrenKept /\ EdgesKept => TasksPlaced'
           /\ UNCHANGED runs /\ SlotsKept /\ EdgesKept => SlotsDurable'
           /\ LinksKept /\ SlotsKept /\ EdgesKept => SlotsBound'
           /\ UNCHANGED <<shutdown, admission>> /\ SlotsKept /\ ParentKept => ShutdownStages'
           /\ UNCHANGED <<commit, runs>> /\ EdgesKept => CommitsPlaced'
<1>1. UNCHANGED call /\ ParentKept /\ EdgesKept => CallsPlaced'
  BY Names DEF Placed, CallsPlaced, InFlight, ParentKept, EdgesKept
<1>2. UNCHANGED <<call, task, runs>> /\ SlotsKept /\ ChildrenKept /\ EdgesKept => StartingAlone'
  <2>1. \A c \in Starters : Starting(c) => call[c].agent \in Agents
    BY Names DEF Placed, CallsPlaced, Starting
  <2> QED
    BY <2>1 DEF Placed, StartingAlone, Starting, SlotsKept, ChildrenKept, EdgesKept
<1>3. UNCHANGED <<call, task>> /\ SlotsKept /\ ChildrenKept /\ EdgesKept => TasksPlaced'
  BY DEF Placed, TasksPlaced, TaskPlaced, SlotsKept, ChildrenKept, EdgesKept
<1>4. UNCHANGED runs /\ SlotsKept /\ EdgesKept => SlotsDurable'
  BY DEF Placed, SlotsDurable, SlotsKept, EdgesKept
<1>5. LinksKept /\ SlotsKept /\ EdgesKept => SlotsBound'
  BY DEF Placed, SlotsBound, Unbound, LinksKept, SlotsKept, EdgesKept
<1>6. UNCHANGED <<shutdown, admission>> /\ SlotsKept /\ ParentKept => ShutdownStages'
  BY DEF Placed, ShutdownStages, Live, SlotsKept, ParentKept
<1>7. UNCHANGED <<commit, runs>> /\ EdgesKept => CommitsPlaced'
  BY DEF Placed, CommitsPlaced, Busy, EdgesKept
<1> QED
  BY <1>1, <1>2, <1>3, <1>4, <1>5, <1>6, <1>7

-----------------------------------------------------------------------------
(* The first layer: retry_terminal. *)

\* One committer moves, to a record v.
CommitSet(w, v) ==
    /\ v \in CommitRecords /\ commit' \in [Committers -> CommitRecords] /\ commit'[w] = v
    /\ \A u \in Committers \ {w} : commit'[u] = commit[u]

LEMMA CommitMoved ==
    ASSUME Shape, NEW w \in Committers, NEW v \in CommitRecords, commit' = [commit EXCEPT ![w] = v]
    PROVE  CommitSet(w, v)
BY DEF Shape, CommitSet

\* The committer stopped, or works on a run that has an edge.
Works(v) ==
    v.at \in {"locking", "holding", "committed"} =>
        v.agent \in Agents /\ v.run \in 1..runs[v.agent] /\ edge[v.agent] # "none"

LEMMA CommitPlaces ==
    ASSUME Placed, NEW w \in Committers, NEW v, CommitSet(w, v), Works(v), UNCHANGED runs, EdgesKept
    PROVE  CommitsPlaced'
BY DEF Placed, CommitsPlaced, CommitSet, Works, Busy, EdgesKept

LEMMA CommitKeeps ==
    ASSUME RunsInv, NEW w \in Committers, NEW v, CommitSet(w, v), Works(v),
           UNCHANGED <<loopVars, slotVars, storeVars, downVars, plan, turn, call, twice>>,
           failures' \in 0..MaxStoreFailures
    PROVE  RunsInv'
<1>1. Shape /\ LoopInv(Messages) /\ Placed
  BY RunsFacts DEF RunsInv
<1>2. Shape'
  BY <1>1 DEF Shape, CommitSet, slotVars, storeVars, downVars
<1>3. LoopInv(Messages)'
  BY <1>1, LoopKept
<1>4. /\ ChildrenKept /\ ParentKept /\ SlotsKept /\ EdgesKept /\ LinksKept
      /\ UNCHANGED <<runs, task, call, shutdown, admission>>
  BY Unmoved DEF slotVars, storeVars, downVars
<1>5. CommitsPlaced'
  BY <1>1, <1>4, CommitPlaces
<1>6. Placed'
  BY <1>1, <1>4, <1>5, Frames DEF Placed
<1> QED
  BY <1>2, <1>3, <1>6, RunsStep

LEMMA NoCommits == NoCommit \in CommitRecords /\ [NoCommit EXCEPT !.at = "failed"] \in CommitRecords
BY AgentAssumption DEF NoCommit, CommitRecords

LEMMA LockCommitKeeps ==
    ASSUME RunsInv, NEW w \in Committers, LockCommit(w)
    PROVE  RunsInv'
<1>1. Shape /\ Placed /\ commit[w] \in CommitRecords
  BY RunsFacts DEF RunsInv, Shape
<1>2. PICK v : v = IF StillPending(w) THEN [commit[w] EXCEPT !.at = "holding"] ELSE NoCommit
  OBVIOUS
<1>3. v \in CommitRecords
  BY <1>1, <1>2, NoCommits DEF CommitRecords
<1>4. Works(v)
  <2>1. CASE StillPending(w)
    <3>1. v.agent = commit[w].agent /\ v.run = commit[w].run
      BY <1>1, <1>2, <2>1 DEF CommitRecords
    <3>2. Busy(w)
      BY DEF LockCommit, Busy
    <3> QED
      BY <1>1, <3>1, <3>2 DEF Placed, CommitsPlaced, Works
  <2>2. CASE ~StillPending(w)
    BY <1>2, <2>2 DEF NoCommit, Works
  <2> QED
    BY <2>1, <2>2
<1>5. commit' = [commit EXCEPT ![w] = v]
  BY <1>2 DEF LockCommit
<1>6. CommitSet(w, v)
  BY <1>1, <1>3, <1>5, CommitMoved
<1> QED
  BY <1>1, <1>4, <1>6, CommitKeeps DEF LockCommit, Shape

LEMMA CommitFailsKeeps ==
    ASSUME RunsInv, NEW w \in Committers, CommitFails(w)
    PROVE  RunsInv'
<1>1. Shape
  BY RunsFacts
<1>2. PICK v : v = [NoCommit EXCEPT !.at = "failed"]
  OBVIOUS
<1>3. v \in CommitRecords /\ Works(v)
  BY <1>2, NoCommits DEF NoCommit, Works
<1>4. commit' = [commit EXCEPT ![w] = v]
  BY <1>2 DEF CommitFails
<1>5. CommitSet(w, v)
  BY <1>1, <1>3, <1>4, CommitMoved
<1>6. failures' \in 0..MaxStoreFailures
  BY <1>1 DEF CommitFails, Fail, Shape, MaxStoreFailures
<1> QED
  BY <1>1, <1>3, <1>5, <1>6, CommitKeeps DEF CommitFails

LEMMA CommitTerminalKeeps ==
    ASSUME RunsInv, NEW w \in Committers, CommitTerminal(w)
    PROVE  RunsInv'
<1>1. Shape /\ LoopInv(Messages) /\ Placed /\ commit[w] \in CommitRecords /\ commit[w].at = "holding"
  BY RunsFacts DEF RunsInv, Shape, CommitTerminal
<1>2. PICK a, run, v : a = commit[w].agent /\ run = commit[w].run
                       /\ v = [commit[w] EXCEPT !.at = "committed"]
  OBVIOUS
<1>3. v \in CommitRecords /\ v.agent = a /\ v.run = run
  BY <1>1, <1>2 DEF CommitRecords
<1>4. a \in Agents /\ run \in 1..runs[a] /\ edge[a] # "none"
  BY <1>1, <1>2 DEF Placed, CommitsPlaced, Busy
<1>5. /\ edge' = [edge EXCEPT ![a] = "closed"]
      /\ mailbox' = Append(mailbox, [agent |-> a, run |-> run, delivered |-> "pending"])
      /\ commit' = [commit EXCEPT ![w] = v]
      /\ UNCHANGED <<loopVars, slotVars, downVars, plan, turn, call, twice, failures>>
  BY <1>2 DEF CommitTerminal
<1>6. CommitSet(w, v)
  BY <1>1, <1>3, <1>5, CommitMoved
<1>7. Shape'
  <2>1. runs[a] \in 0..MaxRuns
    BY <1>1, <1>4 DEF Shape
  <2>2. [agent |-> a, run |-> run, delivered |-> "pending"] \in MailRecords
    BY <1>4, <2>1, AgentAssumption DEF MailRecords
  <2>3. mailbox' \in Seq(MailRecords)
    BY <1>1, <1>5, <2>2, AppendProperties DEF Shape
  <2> QED
    BY <1>1, <1>4, <1>5, <1>6, <2>3 DEF Shape, CommitSet, slotVars, downVars
<1>8. LoopInv(Messages)'
  BY <1>1, <1>5, LoopKept
<1>9. EdgesKept
  BY <1>1, <1>4, <1>5 DEF Shape, EdgesKept
<1>10. Works(v)
  BY <1>3, <1>4 DEF Works
<1>11. /\ ChildrenKept /\ ParentKept /\ SlotsKept /\ LinksKept
       /\ UNCHANGED <<runs, task, call, shutdown, admission>>
  BY <1>5, Unmoved DEF slotVars, downVars
<1>12. CommitsPlaced'
  BY <1>1, <1>6, <1>9, <1>10, <1>11, CommitPlaces
<1>13. Placed'
  BY <1>1, <1>9, <1>11, <1>12, Frames DEF Placed
<1> QED
  BY <1>7, <1>8, <1>13, RunsStep

\* A pending slot is vacated.
LEMMA RemoveSlotKeeps ==
    ASSUME RunsInv, NEW w \in Committers, RemoveSlot(w)
    PROVE  RunsInv'
<1>1. Shape /\ LoopInv(Messages) /\ Placed
  BY RunsFacts DEF RunsInv
<1>2. NoCommit \in CommitRecords /\ Works(NoCommit)
  BY NoCommits DEF NoCommit, Works
<1>3. CommitSet(w, NoCommit)
  BY <1>1, <1>2, CommitMoved DEF RemoveSlot
<1>4. UNCHANGED <<loopVars, runs, task, invocation, storeVars, downVars, plan, turn, call, twice,
                  failures>>
  BY DEF RemoveSlot
<1>5. CASE ~StillPending(w)
  BY <1>2, <1>3, <1>4, <1>5, <1>1, CommitKeeps DEF RemoveSlot, slotVars, Shape
<1>6. CASE StillPending(w)
  <2>1. PICK a : a = commit[w].agent
    OBVIOUS
  <2>2. a \in Agents /\ slot[a].phase = "pending" /\ slot' = [slot EXCEPT ![a] = Vacant]
    BY <1>1, <1>6, <2>1 DEF RemoveSlot, StillPending, Placed, CommitsPlaced, Busy
  <2>3. /\ slot' \in [Agents -> SlotRecords] /\ slot'[a].phase = "vacant"
        /\ \A b \in Agents \ {a} : slot'[b] = slot[b]
    BY <1>1, <2>2 DEF Shape, SlotRecords, Vacant
  <2>4. Shape'
    BY <1>1, <1>3, <1>4, <2>3 DEF Shape, CommitSet, storeVars, downVars
  <2>5. LoopInv(Messages)'
    BY <1>1, <1>4, LoopKept
  <2>6. /\ ChildrenKept /\ ParentKept /\ EdgesKept
        /\ UNCHANGED <<runs, task, call, shutdown, admission, loop, input, edge>>
    BY <1>4, Unmoved DEF loopVars, storeVars, downVars
  <2>7. StartingAlone'
    <3>1. \A c \in Starters : Starting(c) => call[c].agent \in Agents /\ call[c].agent # a
      BY <1>1, <2>2, Names DEF Placed, CallsPlaced, StartingAlone, Starting
    <3> QED
      BY <1>1, <2>3, <2>6, <3>1 DEF Placed, StartingAlone, Starting
  <2>8. TasksPlaced'
    BY <1>1, <2>2, <2>3, <2>6 DEF Placed, TasksPlaced, TaskPlaced
  <2>9. SlotsDurable'
    BY <1>1, <2>2, <2>3, <2>6 DEF Placed, SlotsDurable
  <2>10. ShutdownStages' /\ SlotsBound'
    BY <1>1, <2>2, <2>3, <2>6 DEF Placed, ShutdownStages, Live, SlotsBound, Unbound
  <2>11. CommitsPlaced'
    BY <1>1, <1>2, <1>3, <2>6, CommitPlaces
  <2>12. Placed'
    BY <1>1, <2>6, <2>7, <2>8, <2>9, <2>10, <2>11, Frames DEF Placed
  <2> QED
    BY <2>4, <2>5, <2>12, RunsStep
<1> QED
  BY <1>5, <1>6

-----------------------------------------------------------------------------
(* The first layer: the calls. *)

\* One call moves, to a record v.
CallSet(c, v) ==
    /\ v \in CallRecords /\ call' \in [Calls -> CallRecords] /\ call'[c] = v
    /\ \A d \in Calls \ {c} : call'[d] = call[d]

LEMMA CallMoved ==
    ASSUME Shape, NEW c \in Calls, NEW v \in CallRecords, call' = [call EXCEPT ![c] = v]
    PROVE  CallSet(c, v)
BY DEF Shape, CallSet

\* The same, when only the call's location changes.
LEMMA CallGoes ==
    ASSUME Shape, NEW c \in Calls, NEW at, call' = [call EXCEPT ![c].at = at],
           at \in {"created", "spawning", "inline", "retrying", "loading", "ready", "claimed",
                   "resetting", "ended", "failed"}
    PROVE  \E v : CallSet(c, v) /\ v.at = at /\ v.agent = call[c].agent
<1>1. call[c] \in CallRecords
  BY DEF Shape
<1>2. PICK v : v = [call[c] EXCEPT !.at = at]
  OBVIOUS
<1>3. v \in CallRecords /\ v.at = at /\ v.agent = call[c].agent
  BY <1>1, <1>2 DEF CallRecords
<1>4. call' = [call EXCEPT ![c] = v]
  BY <1>2
<1> QED
  BY <1>3, <1>4, CallMoved

LEMMA CallEnds ==
    ASSUME Shape, NEW c \in Calls, Ends(c)
    PROVE  \E v : CallSet(c, v) /\ v.at = "ended" /\ v.agent = call[c].agent
<1>1. PICK at : at = "ended"
  OBVIOUS
<1>2. call' = [call EXCEPT ![c].at = at]
  BY <1>1 DEF Ends
<1>3. at \in {"created", "spawning", "inline", "retrying", "loading", "ready", "claimed",
               "resetting", "ended", "failed"}
  BY <1>1
<1>4. \E v : CallSet(c, v) /\ v.at = at /\ v.agent = call[c].agent
  BY <1>2, <1>3, CallGoes
<1> QED
  BY <1>1, <1>4

\* A call that started nothing goes on to something that starts nothing.
Proceeds(c, v) ==
    /\ call[c].at \notin {"creating", "created", "spawning", "dropped"}
    /\ call[c].at = "inline" => task[call[c].agent].at = "done"
    /\ v.at \notin {"creating", "created", "spawning", "inline"}
    /\ v.at \in {"retrying", "loading"} => v.agent \in Agents /\ (c \in Sends => edge[v.agent] # "none")
    /\ c \in ToolCalls /\ v.at \notin {"idle", "ended", "failed", "dropped"} => loop[Parent].at = "tools"

LEMMA CallPlaces ==
    ASSUME Placed, NEW c \in Calls, NEW v, CallSet(c, v), Proceeds(c, v),
           UNCHANGED <<task, runs>>, ChildrenKept, ParentKept, SlotsKept, EdgesKept
    PROVE  CallsPlaced' /\ StartingAlone' /\ TasksPlaced' /\ LinksKept
<1>1. CallsPlaced'
  <2>1. ASSUME NEW d \in Calls
        PROVE  call'[d].at \in {"creating", "created", "spawning", "inline", "retrying", "loading"} =>
                   call'[d].agent \in Agents
    BY DEF Placed, CallsPlaced, CallSet, Proceeds
  <2>2. ASSUME NEW d \in ToolCalls, InFlight(d)' PROVE loop'[Parent].at = "tools"
    BY <2>2, Names DEF Placed, CallsPlaced, CallSet, Proceeds, InFlight, ParentKept
  <2>3. ASSUME NEW d \in Sends, call'[d].at \in {"retrying", "loading"}
        PROVE  edge'[call'[d].agent] # "none"
    <3>1. d \in Calls /\ call'[d].agent \in Agents
      BY <2>1, <2>3, Names
    <3> QED
      BY <2>3, <3>1 DEF Placed, CallsPlaced, CallSet, Proceeds, EdgesKept
  <2> QED
    BY <2>1, <2>2, <2>3 DEF CallsPlaced
<1>2. \A d \in Starters : Starting(d)' => d # c /\ Starting(d) /\ call'[d] = call[d]
  BY Names DEF CallSet, Proceeds, Starting
<1>3. StartingAlone'
  <2>1. \A d \in Starters : Starting(d) => call[d].agent \in Agents
    BY Names DEF Placed, CallsPlaced, Starting
  <2> QED
    BY <1>2, <2>1 DEF Placed, StartingAlone, Starting, SlotsKept, ChildrenKept, EdgesKept
<1>4. TasksPlaced'
  <2>1. ASSUME NEW a \in Agents, task[a].by \in Starters,
               task[a].at \in {"spawned", "opening", "running", "finishing"},
               call[task[a].by].at = "inline" /\ call[task[a].by].agent = a
        PROVE  call'[task[a].by] = call[task[a].by]
    BY <2>1, Names DEF CallSet, Proceeds
  <2> QED
    BY <2>1 DEF Placed, TasksPlaced, TaskPlaced, SlotsKept, ChildrenKept, EdgesKept
<1>5. LinksKept
  BY Names DEF CallSet, Proceeds, LinksKept
<1> QED
  BY <1>1, <1>3, <1>4, <1>5

LEMMA CallKeeps ==
    ASSUME RunsInv, NEW c \in Calls, NEW v, CallSet(c, v), Proceeds(c, v),
           UNCHANGED <<task, runs, shutdown, admission>>, LoopInv(Messages)', Shape',
           ChildrenKept, ParentKept, SlotsKept, EdgesKept, CommitsPlaced'
    PROVE  RunsInv'
<1>1. Placed
  BY DEF RunsInv
<1>2. CallsPlaced' /\ StartingAlone' /\ TasksPlaced' /\ LinksKept
  BY <1>1, CallPlaces
<1>3. Placed'
  BY <1>1, <1>2, Frames DEF Placed
<1> QED
  BY <1>3, RunsStep

\* Nothing but the call moves.
LEMMA CallAlone ==
    ASSUME RunsInv, NEW c \in Calls, NEW v, CallSet(c, v), Proceeds(c, v),
           UNCHANGED <<loopVars, slotVars, downVars, plan, turn, commit, twice>>,
           EdgesKept, edge' \in [Agents -> {"none", "open", "closed"}], mailbox' \in Seq(MailRecords),
           failures' \in 0..MaxStoreFailures
    PROVE  RunsInv'
<1>1. Shape /\ LoopInv(Messages) /\ Placed
  BY RunsFacts DEF RunsInv
<1>2. LoopInv(Messages)'
  BY <1>1, LoopKept
<1>3. Shape'
  BY <1>1 DEF Shape, CallSet, slotVars, downVars
<1>4. ChildrenKept /\ ParentKept /\ SlotsKept /\ UNCHANGED <<task, runs, shutdown, admission, commit>>
  BY Unmoved DEF slotVars, downVars
<1>5. CommitsPlaced'
  BY <1>1, <1>4, Frames
<1> QED
  BY <1>2, <1>3, <1>4, <1>5, CallKeeps

LEMMA RetriedKeeps ==
    ASSUME RunsInv, NEW c \in Sends \cup Closes, Retried(c)
    PROVE  RunsInv'
<1>1. Shape /\ Placed /\ c \in Calls
  BY RunsFacts, Names DEF RunsInv
<1>2. PICK at : at = IF c \in Sends /\ commit[c].at = "none" THEN "loading" ELSE "ended"
  OBVIOUS
<1>3. call' = [call EXCEPT ![c].at = at] /\ at \in {"loading", "ended"}
  BY <1>2 DEF Retried
<1>4. PICK v : CallSet(c, v) /\ v.at = at /\ v.agent = call[c].agent
  BY <1>1, <1>3, CallGoes
<1>5. Proceeds(c, v)
  BY <1>1, <1>2, <1>4, Names DEF Retried, Proceeds, Placed, CallsPlaced, InFlight
<1>6. EdgesKept
  BY Unmoved DEF Retried, storeVars
<1> QED
  BY <1>1, <1>4, <1>5, <1>6, CallAlone DEF Retried, storeVars, Shape

LEMMA InlineReturnsKeeps ==
    ASSUME RunsInv, NEW c \in Starters, InlineReturns(c)
    PROVE  RunsInv'
<1>1. Shape /\ c \in Calls
  BY RunsFacts, Names
<1>2. call' = [call EXCEPT ![c].at = "ended"]
  BY DEF InlineReturns, Ends
<1>3. PICK v : CallSet(c, v) /\ v.at = "ended"
  BY <1>1, <1>2, CallGoes
<1>4. Proceeds(c, v)
  BY <1>3 DEF InlineReturns, Proceeds
<1>5. EdgesKept
  BY Unmoved DEF InlineReturns, storeVars
<1> QED
  BY <1>1, <1>3, <1>4, <1>5, CallAlone DEF InlineReturns, storeVars, Shape

LEMMA ClosePersistedKeeps ==
    ASSUME RunsInv, NEW c \in Closes, ClosePersisted(c)
    PROVE  RunsInv'
<1>1. Shape /\ Placed /\ c \in Calls /\ c \notin ToolCalls
  BY RunsFacts, Names DEF RunsInv
<1>2. call' = [call EXCEPT ![c].at = "ended"]
  BY DEF ClosePersisted, Ends
<1>3. PICK v : CallSet(c, v) /\ v.at = "ended"
  <2>1. Shape /\ c \in Calls
    BY <1>1
  <2> QED
    BY <2>1, <1>2, CallGoes
<1>4. Proceeds(c, v)
  BY <1>3 DEF ClosePersisted, Proceeds
<1>5. EdgesKept /\ edge' \in [Agents -> {"none", "open", "closed"}]
  BY <1>1 DEF ClosePersisted, EdgesKept, Placed, CallsPlaced, Shape
<1> QED
  BY <1>1, <1>3, <1>4, <1>5, CallAlone DEF ClosePersisted, Shape

-----------------------------------------------------------------------------
(* wait_agent *)

LEMMA MarkType ==
    ASSUME Shape, NEW rows, NEW by \in {"pending", "prompt"} \cup Waits, Mark(rows, by)
    PROVE  /\ mailbox' \in Seq(MailRecords) /\ DOMAIN mailbox' = DOMAIN mailbox
           /\ \A i \in DOMAIN mailbox :
                 /\ mailbox'[i].agent = mailbox[i].agent /\ mailbox'[i].run = mailbox[i].run
                 /\ mailbox'[i].delivered = IF i \in rows THEN by ELSE mailbox[i].delivered
<1>1. Len(mailbox) \in Nat /\ DOMAIN mailbox = 1..Len(mailbox) /\ mailbox \in [1..Len(mailbox) -> MailRecords]
  BY LenProperties DEF Shape
<1>2. \A i \in DOMAIN mailbox : [mailbox[i] EXCEPT !.delivered = by] \in MailRecords
  BY <1>1 DEF MailRecords
<1>3. mailbox' \in [1..Len(mailbox) -> MailRecords]
  BY <1>1, <1>2 DEF Mark
<1>4. mailbox' \in Seq(MailRecords)
  BY <1>1, <1>3, SeqDef
<1>5. \A i \in DOMAIN mailbox :
         mailbox'[i] = IF i \in rows THEN [mailbox[i] EXCEPT !.delivered = by] ELSE mailbox[i]
  BY DEF Mark
<1>6. \A i \in DOMAIN mailbox : mailbox[i] \in MailRecords
  BY <1>1
<1> QED
  BY <1>1, <1>3, <1>4, <1>5, <1>6 DEF MailRecords

LEMMA WaitReadyKeeps ==
    ASSUME RunsInv, NEW c \in Waits, WaitReady(c)
    PROVE  RunsInv'
<1>1. Shape /\ c \in Calls
  BY RunsFacts, Names
<1>2. call' = [call EXCEPT ![c].at = "ready"]
  BY DEF WaitReady
<1>3. PICK v : CallSet(c, v) /\ v.at = "ready"
  BY <1>1, <1>2, CallGoes
<1>4. Proceeds(c, v)
  BY <1>3 DEF WaitReady, InTools, Proceeds
<1>5. EdgesKept
  BY Unmoved DEF WaitReady, storeVars
<1> QED
  BY <1>1, <1>3, <1>4, <1>5, CallAlone DEF WaitReady, storeVars, Shape

LEMMA ClaimPageKeeps ==
    ASSUME RunsInv, NEW c \in Waits, ClaimPage(c)
    PROVE  RunsInv'
<1>1. Shape /\ Placed /\ c \in Calls /\ c \in ToolCalls
  BY RunsFacts, Names DEF RunsInv
<1>2. call' = [call EXCEPT ![c].at = "claimed"]
  BY DEF ClaimPage
<1>3. PICK v : CallSet(c, v) /\ v.at = "claimed"
  BY <1>1, <1>2, CallGoes
<1>4. Proceeds(c, v)
  BY <1>1, <1>3 DEF ClaimPage, Proceeds, Placed, CallsPlaced, InFlight
<1>5. EdgesKept
  BY Unmoved DEF ClaimPage
<1>6. mailbox' \in Seq(MailRecords)
  BY <1>1, MarkType DEF ClaimPage
<1> QED
  BY <1>1, <1>3, <1>4, <1>5, <1>6, CallAlone DEF ClaimPage, Shape

LEMMA ResetPageKeeps ==
    ASSUME RunsInv, NEW c \in Waits, ResetPage(c)
    PROVE  RunsInv'
<1>1. Shape /\ Placed /\ c \in Calls
  BY RunsFacts, Names DEF RunsInv
<1>2. PICK at : call' = [call EXCEPT ![c].at = at] /\ at \in {"ended", "failed"}
  BY DEF ResetPage, Ends
<1>3. PICK v : CallSet(c, v) /\ v.at = at /\ v.agent = call[c].agent
  BY <1>1, <1>2, CallGoes
<1>4. Proceeds(c, v)
  BY <1>2, <1>3 DEF ResetPage, Proceeds
<1>5. EdgesKept
  BY Unmoved DEF ResetPage
<1>6. mailbox' \in Seq(MailRecords)
  BY <1>1, MarkType DEF ResetPage, Shape
<1>7. failures' \in 0..MaxStoreFailures
  BY <1>1 DEF ResetPage, Fail, Shape, MaxStoreFailures
<1> QED
  BY <1>1, <1>3, <1>4, <1>5, <1>6, <1>7, CallAlone DEF ResetPage, Shape

\* How many of the rows come before row i.
Rank(rows, i) == Cardinality({j \in rows : j < i})

LEMMA Ranks ==
    ASSUME NEW n \in Nat, NEW rows, rows \subseteq 1..n
    PROVE  /\ Cardinality(rows) \in Nat
           /\ \A i \in rows : Rank(rows, i) \in 0..(Cardinality(rows) - 1)
           /\ \A i, k \in rows : Rank(rows, i) = Rank(rows, k) => i = k
           /\ \A k \in 0..(Cardinality(rows) - 1) : \E i \in rows : Rank(rows, i) = k
<1>0. \A i \in rows : i \in Nat
  OBVIOUS
<1>1. IsFiniteSet(rows) /\ Cardinality(rows) \in Nat
  <2>1. IsFiniteSet(1..n) /\ rows \in SUBSET (1..n)
    BY FS_Interval
  <2>2. IsFiniteSet(rows)
    BY <2>1, FS_Subset
  <2> QED
    BY <2>2, FS_CardinalityType
<1>2. PICK N : N = Cardinality(rows)
  OBVIOUS
<1>3. ASSUME NEW i \in rows
      PROVE  /\ IsFiniteSet({j \in rows : j < i}) /\ Rank(rows, i) \in Nat /\ Rank(rows, i) < N
  <2>1. PICK B : B = {j \in rows : j < i}
    OBVIOUS
  <2>2. IsFiniteSet(B) /\ Cardinality(B) \in Nat
    BY <1>1, <2>1, FS_Subset, FS_CardinalityType
  <2>3. IsFiniteSet(rows \ {i}) /\ Cardinality(rows \ {i}) = N - 1
    BY <1>1, <1>2, FS_RemoveElement
  <2>4. B \in SUBSET (rows \ {i})
    BY <1>0, <2>1
  <2>5. PICK C : C = rows \ {i}
    OBVIOUS
  <2>6. Cardinality(B) <= Cardinality(C)
    BY <2>3, <2>4, <2>5, FS_Subset
  <2> QED
    BY <1>1, <1>2, <2>1, <2>2, <2>3, <2>5, <2>6 DEF Rank
<1>4. ASSUME NEW i \in rows, NEW k \in rows, i < k
      PROVE  Rank(rows, i) < Rank(rows, k)
  <2>1. PICK B, C : B = {j \in rows : j < i} /\ C = {j \in rows : j < k}
    OBVIOUS
  <2>2. IsFiniteSet(B) /\ IsFiniteSet(C) /\ Cardinality(B) \in Nat /\ Cardinality(C) \in Nat
    BY <1>3, <2>1 DEF Rank
  <2>3. i \notin B /\ B \cup {i} \in SUBSET C
    <3>1. i \in Nat /\ k \in Nat /\ ~(i < i)
      BY <1>0
    <3>2. \A j \in B : j \in Nat /\ j < i /\ j \in rows
      BY <1>0, <2>1
    <3>3. \A j \in B : j < k
      BY <1>4, <3>1, <3>2
    <3>4. \A j \in B \cup {i} : j \in C
      BY <1>4, <2>1, <3>2, <3>3
    <3>5. i \notin B
      BY <2>1, <3>1
    <3> QED
      BY <3>4, <3>5
  <2>4. Cardinality(B \cup {i}) = Cardinality(B) + 1
    BY <2>2, <2>3, FS_AddElement
  <2>5. Cardinality(B \cup {i}) <= Cardinality(C)
    BY <2>2, <2>3, FS_Subset
  <2> QED
    BY <2>1, <2>2, <2>4, <2>5 DEF Rank
<1>5. \A i, k \in rows : Rank(rows, i) = Rank(rows, k) => i = k
  <2>1. ASSUME NEW i \in rows, NEW k \in rows, Rank(rows, i) = Rank(rows, k) PROVE i = k
    <3>1. Rank(rows, i) \in Nat /\ Rank(rows, k) \in Nat
      BY <1>3
    <3>2. ~(i < k) /\ ~(k < i)
      BY <1>4, <2>1, <3>1
    <3> QED
      BY <3>2
  <2> QED
    BY <2>1
<1>6. PICK T : T = 0..(N - 1)
  OBVIOUS
<1>7. PICK f : f = [i \in rows |-> Rank(rows, i)]
  OBVIOUS
<1>8. IsFiniteSet(T) /\ Cardinality(T) = N
  <2>1. IsFiniteSet(0..(N - 1)) /\ Cardinality(0..(N - 1)) = IF 0 > N - 1 THEN 0 ELSE N - 1 - 0 + 1
    <3>1. 0 \in Int /\ N - 1 \in Int
      BY <1>1, <1>2
    <3> QED
      BY <3>1, FS_Interval
  <2> QED
    BY <1>1, <1>2, <1>6, <2>1
<1>9. f \in Injection(rows, T)
  <2>1. \A i \in rows : Rank(rows, i) \in T
    <3>1. ASSUME NEW i \in rows PROVE Rank(rows, i) \in T
      <4>1. PICK k : k = Rank(rows, i)
        OBVIOUS
      <4>2. k \in Nat /\ k < N /\ N \in Nat
        BY <1>1, <1>2, <1>3, <4>1
      <4> QED
        BY <1>6, <4>1, <4>2
    <3> QED
      BY <3>1
  <2>2. f \in [rows -> T]
    BY <1>7, <2>1
  <2>3. IsInjective(f)
    BY <1>5, <1>7 DEF IsInjective
  <2> QED
    BY <2>2, <2>3 DEF Injection
<1>10. f \in Surjection(rows, T)
  BY <1>2, <1>8, <1>9, FS_Injection
<1>12. \A i \in rows : Rank(rows, i) \in T
  BY <1>7, <1>9 DEF Injection
<1>11. \A k \in T : \E i \in rows : Rank(rows, i) = k
  BY <1>7, <1>10 DEF Surjection
<1> QED
  BY <1>1, <1>2, <1>5, <1>6, <1>11, <1>12

\* A page becomes one message for each row.
LEMMA PageOf ==
    ASSUME NEW n \in Nat, NEW rows, rows \subseteq 1..n
    PROVE  /\ PageMessages(rows) \in Seq(Messages)
           /\ ToSet(PageMessages(rows)) = Mail(rows)
<1>0. \A i \in rows : i \in Nat
  OBVIOUS
<1>1. PICK N : N = Cardinality(rows)
  OBVIOUS
<1>2. /\ N \in Nat /\ \A i \in rows : Rank(rows, i) \in 0..(N - 1)
      /\ \A i, k \in rows : Rank(rows, i) = Rank(rows, k) => i = k
      /\ \A k \in 0..(N - 1) : \E i \in rows : Rank(rows, i) = k
  BY <1>1, Ranks
<1>3. PICK at : at = [k \in 1..N |-> CHOOSE i \in rows : Rank(rows, i) = k - 1]
  OBVIOUS
<1>4. \A k \in 1..N : at[k] \in rows /\ Rank(rows, at[k]) = k - 1
  <2>1. ASSUME NEW k \in 1..N PROVE at[k] \in rows /\ Rank(rows, at[k]) = k - 1
    <3>1. k - 1 \in 0..(N - 1)
      BY <1>2
    <3>2. \E i \in rows : Rank(rows, i) = k - 1
      BY <1>2, <3>1
    <3>3. at[k] = CHOOSE i \in rows : Rank(rows, i) = k - 1
      BY <1>3
    <3> QED
      BY <3>2, <3>3
  <2> QED
    BY <2>1
<1>5. \A i \in rows : Rank(rows, i) + 1 \in 1..N /\ at[Rank(rows, i) + 1] = i
  <2>1. ASSUME NEW i \in rows PROVE Rank(rows, i) + 1 \in 1..N /\ at[Rank(rows, i) + 1] = i
    <3>1. PICK k : k = Rank(rows, i) + 1
      OBVIOUS
    <3>2. k \in 1..N /\ k - 1 = Rank(rows, i)
      BY <1>2, <3>1
    <3>3. at[k] \in rows /\ Rank(rows, at[k]) = Rank(rows, i)
      BY <1>4, <3>2
    <3> QED
      BY <1>2, <3>1, <3>2, <3>3
  <2> QED
    BY <2>1
<1>6. PICK s : s = PageMessages(rows)
  OBVIOUS
<1>7. s = [k \in 1..N |-> [mail |-> at[k]]]
  <2>1. \A k \in 1..N : at[k] = CHOOSE i \in rows : Cardinality({j \in rows : j < i}) = k - 1
    BY <1>3 DEF Rank
  <2> QED
    BY <1>1, <1>6, <2>1 DEF PageMessages
<1>8. \A k \in 1..N : s[k] = [mail |-> at[k]] /\ s[k] \in Messages
  <2>1. ASSUME NEW k \in 1..N PROVE s[k] = [mail |-> at[k]] /\ s[k] \in Messages
    <3>1. s[k] = [mail |-> at[k]] /\ at[k] \in rows
      BY <1>4, <1>7
    <3>2. at[k] \in Nat
      BY <1>0, <3>1
    <3> QED
      BY <3>1, <3>2 DEF Messages
  <2> QED
    BY <2>1
<1>9. DOMAIN s = 1..N
  BY <1>7
<1>10. s \in Seq(Messages)
  <2>1. s \in [1..N -> Messages]
    BY <1>7, <1>8
  <2> QED
    BY <1>2, <2>1, SeqDef
<1>11. \A x : x \in ToSet(s) <=> \E k \in 1..N : x = [mail |-> at[k]]
  BY <1>8, <1>9 DEF ToSet
<1>12. ToSet(s) = Mail(rows)
  BY <1>4, <1>5, <1>11 DEF Mail
<1> QED
  BY <1>6, <1>10, <1>12

LEMMA ClaimedRows ==
    ASSUME Shape, NEW c
    PROVE  Len(mailbox) \in Nat /\ DOMAIN mailbox = 1..Len(mailbox) /\ Claimed(c) \subseteq 1..Len(mailbox)
BY LenProperties DEF Shape, Claimed

LEMMA InjectPageKeeps ==
    ASSUME RunsInv, NEW c \in Waits, InjectPage(c)
    PROVE  RunsInv'
<1>1. Shape /\ LoopInv(Messages) /\ Placed /\ c \in Calls /\ c \in ToolCalls /\ Parent \in Runs
  BY RunsFacts, Names DEF RunsInv
<1>2. PICK s : s = PageMessages(Claimed(c))
  OBVIOUS
<1>3. s \in Seq(Messages)
  BY <1>1, <1>2, ClaimedRows, PageOf
<1>4. /\ call[c].at = "claimed"
      /\ \/ AdmitsBatch(input[Parent], s) /\ Ends(c) /\ InjectInto(Parent, s)
         \/ call' = [call EXCEPT ![c].at = "resetting"] /\ UNCHANGED loopVars
      /\ UNCHANGED <<slotVars, storeVars, downVars, plan, turn, commit, twice, failures>>
  BY <1>2 DEF InjectPage
<1>5. EdgesKept /\ edge' \in [Agents -> {"none", "open", "closed"}] /\ mailbox' \in Seq(MailRecords)
      /\ failures' \in 0..MaxStoreFailures
  BY <1>1, <1>4, Unmoved DEF storeVars, Shape
<1>6. CASE call' = [call EXCEPT ![c].at = "resetting"] /\ UNCHANGED loopVars
  <2>1. PICK v : CallSet(c, v) /\ v.at = "resetting"
    BY <1>1, <1>6, CallGoes
  <2>2. Proceeds(c, v)
    BY <1>1, <1>4, <2>1 DEF Proceeds, Placed, CallsPlaced, InFlight
  <2> QED
    BY <1>1, <1>4, <1>5, <1>6, <2>1, <2>2, CallAlone
<1>7. CASE AdmitsBatch(input[Parent], s) /\ Ends(c) /\ InjectInto(Parent, s)
  <2>1. LoopInv(Messages)' /\ OthersKept(Parent) /\ UNCHANGED loop
    BY <1>1, <1>3, <1>7, InjectKeeps
  <2>2. PICK v : CallSet(c, v) /\ v.at = "ended"
    BY <1>1, <1>7, CallEnds
  <2>3. Proceeds(c, v)
    BY <1>4, <2>2 DEF Proceeds
  <2>4. ChildrenKept /\ ParentKept /\ SlotsKept /\ UNCHANGED <<task, runs, shutdown, admission, commit>>
    BY <1>4, <2>1, Unmoved DEF slotVars, downVars, ParentKept
  <2>5. CommitsPlaced'
    BY <1>1, <1>5, <2>4, Frames
  <2>6. Shape'
    BY <1>1, <1>4, <2>2 DEF Shape, CallSet, slotVars, storeVars, downVars
  <2> QED
    BY <1>1, <1>5, <2>1, <2>2, <2>3, <2>4, <2>5, <2>6, CallKeeps
<1> QED
  BY <1>4, <1>6, <1>7

-----------------------------------------------------------------------------
(* send_message and close_agent *)

LEMMA RetryMoves ==
    ASSUME Shape, Placed, NEW w \in Committers, NEW a \in Agents, Retry(w, a),
           slot[a].phase = "pending" \/ (slot[a].phase = "active" /\ edge[a] # "none")
    PROVE  \E v : /\ CommitSet(w, v) /\ Works(v)
                  /\ v.at = "locking" /\ v.agent = a /\ v.run = runs[a]
<1>1. PICK v : v = [at |-> "locking", agent |-> a, run |-> runs[a]]
  OBVIOUS
<1>2. runs[a] \in 0..MaxRuns /\ runs[a] # 0 /\ edge[a] # "none"
  BY DEF Shape, Placed, SlotsDurable
<1>3. v \in CommitRecords /\ v.at = "locking" /\ v.agent = a /\ v.run = runs[a]
  BY <1>1, <1>2 DEF CommitRecords
<1>4. commit' = [commit EXCEPT ![w] = v]
  BY <1>1 DEF Retry
<1>5. CommitSet(w, v)
  BY <1>3, <1>4, CommitMoved
<1>6. Works(v)
  BY <1>2, <1>3, AgentAssumption DEF Works
<1> QED
  BY <1>3, <1>5, <1>6

\* A message goes into a running Agent, or is refused by its control input.
LEMMA DeliverKeeps ==
    ASSUME RunsInv, NEW c \in Sends, NEW a \in Agents, Deliver(c, a),
           call[c].at \in {"idle", "loading"},
           UNCHANGED <<slotVars, storeVars, downVars, plan, turn, commit, twice, failures>>
    PROVE  RunsInv'
<1>1. Shape /\ LoopInv(Messages) /\ Placed /\ c \in Calls /\ a \in Runs
  BY RunsFacts, Names DEF RunsInv
<1>2. PICK v : CallSet(c, v) /\ v.at = "ended"
  BY <1>1, CallEnds DEF Deliver
<1>3. Proceeds(c, v)
  BY <1>2 DEF Proceeds
<1>4. LoopInv(Messages)' /\ ChildrenKept /\ ParentKept
  <2>1. CASE UNCHANGED loopVars
    BY <1>1, <2>1, LoopKept, Unmoved
  <2>2. CASE AdmitsBatch(input[a], <<c>>) /\ InjectInto(a, <<c>>)
    <3>1. <<c>> \in Seq(Messages)
      BY DEF Messages
    <3>2. /\ LoopInv(Messages)' /\ OthersKept(a) /\ UNCHANGED loop
          /\ input'[a].closed = input[a].closed
      BY <1>1, <2>2, <3>1, InjectKeeps
    <3> QED
      BY <3>2, Names DEF OthersKept, ChildrenKept, ParentKept
  <2> QED
    BY <2>1, <2>2 DEF Deliver
<1>5. SlotsKept /\ EdgesKept /\ UNCHANGED <<task, runs, shutdown, admission, commit>>
  BY Unmoved DEF slotVars, storeVars, downVars
<1>6. CommitsPlaced'
  BY <1>1, <1>5, Frames
<1>7. Shape'
  BY <1>1, <1>2 DEF Shape, CallSet, slotVars, storeVars, downVars
<1> QED
  BY <1>1, <1>2, <1>3, <1>4, <1>5, <1>6, <1>7, CallKeeps

\* A call that hurries a pending terminal.
LEMMA HurryKeeps ==
    ASSUME RunsInv, NEW c \in Sends \cup Closes, NEW a \in Agents, call[c].at = "idle",
           c \in Sends => loop[Parent].at = "tools", slot[a].phase = "pending",
           call' = [call EXCEPT ![c] = [at |-> "retrying", agent |-> a]], Retry(c, a),
           UNCHANGED <<loopVars, slotVars, storeVars, downVars, plan, turn, twice, failures>>
    PROVE  RunsInv'
<1>1. Shape /\ LoopInv(Messages) /\ Placed /\ c \in Calls /\ c \in Committers
  BY RunsFacts, Names DEF RunsInv
<1>2. PICK u : u = [at |-> "retrying", agent |-> a]
  OBVIOUS
<1>3. u \in CallRecords /\ u.at = "retrying" /\ u.agent = a
  BY <1>2 DEF CallRecords
<1>4. CallSet(c, u)
  BY <1>1, <1>2, <1>3, CallMoved
<1>5. PICK v : CommitSet(c, v) /\ Works(v)
  BY <1>1, RetryMoves
<1>6. Proceeds(c, u)
  BY <1>1, <1>3, Names DEF Proceeds, Placed, SlotsDurable
<1>7. ChildrenKept /\ ParentKept /\ SlotsKept /\ EdgesKept /\ UNCHANGED <<task, runs, shutdown, admission>>
  BY Unmoved DEF slotVars, storeVars, downVars
<1>8. LoopInv(Messages)'
  BY <1>1, LoopKept
<1>9. CommitsPlaced'
  BY <1>1, <1>5, <1>7, CommitPlaces
<1>10. Shape'
  BY <1>1, <1>4, <1>5 DEF Shape, CallSet, CommitSet, slotVars, storeVars, downVars
<1> QED
  BY <1>1, <1>4, <1>6, <1>7, <1>8, <1>9, <1>10, CallKeeps

LEMMA SendMessageKeeps ==
    ASSUME RunsInv, NEW c \in Sends, NEW a \in Agents, SendMessage(c, a)
    PROVE  RunsInv'
<1>1. Shape /\ Placed /\ c \in Calls
  BY RunsFacts, Names DEF RunsInv
<1>2. /\ call[c].at = "idle" /\ loop[Parent].at = "tools"
      /\ UNCHANGED <<slotVars, storeVars, downVars, plan, turn, twice, failures>>
  BY DEF SendMessage, InTools
<1>3. CASE Deliver(c, a) /\ UNCHANGED commit
  BY <1>2, <1>3, DeliverKeeps
<1>4. CASE /\ slot[a].phase = "pending"
           /\ call' = [call EXCEPT ![c] = [at |-> "retrying", agent |-> a]]
           /\ Retry(c, a) /\ UNCHANGED loopVars
  BY <1>2, <1>4, HurryKeeps
<1>5. CASE /\ call' = [call EXCEPT ![c] = [at |-> IF edge[a] = "none" THEN "ended" ELSE "loading",
                                           agent |-> a]]
           /\ UNCHANGED <<loopVars, commit>>
  <2>1. PICK at : at = IF edge[a] = "none" THEN "ended" ELSE "loading"
    OBVIOUS
  <2>2. PICK v : v = [at |-> at, agent |-> a]
    OBVIOUS
  <2>3. v \in CallRecords /\ v.at = at /\ v.agent = a
    BY <2>1, <2>2 DEF CallRecords
  <2>4. CallSet(c, v)
    BY <1>1, <1>5, <2>1, <2>2, <2>3, CallMoved
  <2>5. Proceeds(c, v)
    BY <1>2, <2>1, <2>3 DEF Proceeds
  <2>6. EdgesKept
    BY <1>2, Unmoved DEF storeVars
  <2> QED
    BY <1>1, <1>2, <1>5, <2>4, <2>5, <2>6, CallAlone DEF storeVars, Shape
<1> QED
  BY <1>3, <1>4, <1>5 DEF SendMessage

LEMMA CloseAgentKeeps ==
    ASSUME RunsInv, NEW c \in Closes, NEW a \in Agents, CloseAgent(c, a)
    PROVE  RunsInv'
<1>1. Shape /\ LoopInv(Messages) /\ Placed /\ c \in Calls /\ c \notin ToolCalls /\ a \in Runs
      /\ c \notin Sends
  BY RunsFacts, Names DEF RunsInv
<1>2. /\ call[c].at = "idle"
      /\ UNCHANGED <<input, loop, context, owed, runs, task, invocation, storeVars, downVars, plan,
                     turn, twice, failures>>
  BY DEF CloseAgent
<1>3. CASE /\ slot[a].phase = "active" /\ Ends(c) /\ UNCHANGED commit
           /\ signal' = [signal EXCEPT ![a].stop = TRUE]
           /\ slot' = [slot EXCEPT ![a].status = "shutdown"]
  <2>1. PICK v : CallSet(c, v) /\ v.at = "ended"
    BY <1>1, <1>3, CallEnds
  <2>2. Proceeds(c, v)
    BY <1>2, <2>1 DEF Proceeds
  <2>3. signal' \in [Runs -> [stop : BOOLEAN, abort : BOOLEAN]]
    BY <1>1, <1>3 DEF LoopInv, LoopType
  <2>4. LoopInv(Messages)'
    BY <1>1, <1>2, <2>3, SignalsSet
  <2>5. slot' \in [Agents -> SlotRecords] /\ SlotsKept
    BY <1>1, <1>3 DEF Shape, SlotRecords, Final, SlotsKept
  <2>6. ChildrenKept /\ ParentKept /\ EdgesKept /\ UNCHANGED <<task, runs, shutdown, admission, commit>>
    BY <1>2, <1>3, Unmoved DEF storeVars, downVars, ChildrenKept, ParentKept
  <2>7. CommitsPlaced'
    BY <1>1, <2>6, Frames
  <2>8. Shape'
    BY <1>1, <1>2, <1>3, <2>1, <2>5 DEF Shape, CallSet, storeVars, downVars
  <2> QED
    BY <1>1, <2>1, <2>2, <2>4, <2>5, <2>6, <2>7, <2>8, CallKeeps
<1>4. CASE /\ slot[a].phase = "pending" /\ UNCHANGED <<signal, slot>>
           /\ call' = [call EXCEPT ![c] = [at |-> "retrying", agent |-> a]]
           /\ Retry(c, a)
  BY <1>1, <1>2, <1>4, HurryKeeps DEF loopVars, slotVars
<1>5. CASE /\ call' = [call EXCEPT ![c] = [at |-> "loading", agent |-> a]]
           /\ UNCHANGED <<signal, slot, commit>>
  <2>1. PICK v : v = [at |-> "loading", agent |-> a]
    OBVIOUS
  <2>2. v \in CallRecords /\ v.at = "loading" /\ v.agent = a
    BY <2>1 DEF CallRecords
  <2>3. CallSet(c, v)
    BY <1>1, <1>5, <2>1, <2>2, CallMoved
  <2>4. Proceeds(c, v)
    BY <1>1, <1>2, <2>2 DEF Proceeds
  <2>5. EdgesKept /\ UNCHANGED <<loopVars, slotVars>>
    BY <1>2, <1>5, Unmoved DEF storeVars, loopVars, slotVars
  <2> QED
    BY <1>1, <1>2, <1>5, <2>3, <2>4, <2>5, CallAlone DEF storeVars, Shape
<1> QED
  BY <1>3, <1>4, <1>5 DEF CloseAgent

-----------------------------------------------------------------------------
(* The first layer: slots and tasks begin. *)

\* What Register leaves behind.
Registered(a) ==
    /\ slot' \in [Agents -> SlotRecords] /\ runs' \in [Agents -> 0..MaxRuns]
    /\ invocation' \in [Agents -> 0..MaxInvocations] /\ task' \in [Agents -> TaskRecords]
    /\ slot'[a].phase = "active"
    /\ runs'[a] = runs[a] + 1 /\ task'[a].at = "none"
    /\ loop'[a].at = "idle" /\ ~input'[a].closed /\ OthersKept(a)
    /\ \A b \in Agents \ {a} : slot'[b] = slot[b] /\ runs'[b] = runs[b] /\ task'[b] = task[b]

LEMMA RegisterKeeps ==
    ASSUME Shape, LoopInv(Messages), NEW a \in Agents, NEW durable \in BOOLEAN, runs[a] < MaxRuns,
           Register(a, durable)
    PROVE  LoopInv(Messages)' /\ Registered(a) /\ slot'[a].durable = durable
<1>1. a \in Runs /\ Parent \in Runs /\ LoopType(Messages)
  BY Names DEF LoopInv
<1>2. PICK n : n = NewInput
  OBVIOUS
<1>3. n \in Buffers(Messages) /\ Exact(n) /\ ~n.closed
  BY <1>2, NewInputExact
<1>4. NoLoop \in LoopRecords /\ NoLoop.at = "idle"
  BY LoopAssumption DEF NoLoop, LoopRecords, Locations, Outcomes
<1>5. /\ input' = [input EXCEPT ![a] = n] /\ loop' = [loop EXCEPT ![a] = NoLoop]
      /\ signal' = [signal EXCEPT ![a] = [Quiet EXCEPT !.abort = signal[Parent].abort]]
      /\ context' = [context EXCEPT ![a] = {}] /\ owed' = [owed EXCEPT ![a] = {}]
  BY <1>2 DEF Register
<1>6. LoopType(Messages)'
  <2>1. [Quiet EXCEPT !.abort = signal[Parent].abort] \in [stop : BOOLEAN, abort : BOOLEAN]
    BY <1>1 DEF Quiet, LoopType
  <2> QED
    BY <1>1, <1>3, <1>4, <1>5, <2>1 DEF LoopType
<1>7. OthersKept(a)
  BY <1>1, <1>5 DEF OthersKept, LoopType
<1>8. input'[a] = n /\ loop'[a] = NoLoop /\ owed'[a] = {}
  BY <1>1, <1>5 DEF LoopType
<1>9. Heard(a)'
  BY <1>3, <1>4, <1>8 DEF Heard
<1>10. LoopInv(Messages)'
  BY <1>1, <1>3, <1>6, <1>7, <1>8, <1>9, StepKeeps
<1>11. /\ slot' \in [Agents -> SlotRecords] /\ slot'[a].phase = "active" /\ slot'[a].durable = durable
       /\ \A b \in Agents \ {a} : slot'[b] = slot[b]
  <2>1. PICK s : s = [phase |-> "active", status |-> "running", durable |-> durable]
    OBVIOUS
  <2>2. s \in SlotRecords /\ s.phase = "active" /\ s.durable = durable
    BY <2>1 DEF SlotRecords
  <2>3. slot' = [slot EXCEPT ![a] = s]
    BY <2>1 DEF Register
  <2> QED
    BY <2>2, <2>3 DEF Shape
<1>12. /\ runs' \in [Agents -> 0..MaxRuns] /\ runs'[a] = runs[a] + 1
       /\ \A b \in Agents \ {a} : runs'[b] = runs[b]
  <2>1. runs[a] \in Nat /\ runs[a] + 1 \in 0..MaxRuns
    BY AgentAssumption DEF Shape
  <2> QED
    BY <2>1 DEF Register, Shape
<1>13. /\ task' \in [Agents -> TaskRecords] /\ task'[a].at = "none"
       /\ \A b \in Agents \ {a} : task'[b] = task[b]
  BY DEF Register, Shape, TaskRecords, NoTask
<1>14. invocation' \in [Agents -> 0..MaxInvocations]
  BY DEF Register, Shape
<1> QED
  BY <1>3, <1>4, <1>7, <1>8, <1>10, <1>11, <1>12, <1>13, <1>14 DEF Registered

\* A call registers a slot: a fresh one, or one that continues an Agent.
LEMMA RegisterPlaces ==
    ASSUME Shape, Placed, NEW c \in Starters, NEW a \in Agents, NEW v,
           call[c].at \in {"idle", "loading"}, loop[Parent].at = "tools", admission,
           slot[a].phase = "vacant", Registered(a), slot'[a].durable <=> edge[a] # "none",
           CallSet(c, v), v.agent = a,
           \/ v.at = "creating" /\ edge[a] = "none" /\ runs[a] = 0
           \/ v.at = "spawning" /\ edge[a] # "none",
           UNCHANGED <<edge, commit, shutdown, admission>>
    PROVE  Placed'
<1>1. c \in Calls /\ c \in ToolCalls
  BY Names
<1>2. loop'[Parent] = loop[Parent]
  BY Names DEF Registered, OthersKept
<1>3. \A b \in Agents \ {a} : loop'[b] = loop[b] /\ input'[b] = input[b]
  BY Names DEF Registered, OthersKept
<1>4. CallsPlaced'
  <2>1. ASSUME NEW d \in Calls
        PROVE  call'[d].at \in {"creating", "created", "spawning", "inline", "retrying", "loading"} =>
                   call'[d].agent \in Agents
    BY <1>1 DEF Placed, CallsPlaced, CallSet
  <2>2. ASSUME NEW d \in ToolCalls, InFlight(d)' PROVE loop'[Parent].at = "tools"
    BY <1>2
  <2>3. ASSUME NEW d \in Sends, call'[d].at \in {"retrying", "loading"}
        PROVE  edge'[call'[d].agent] # "none"
    BY <1>1, <2>3, Names DEF Placed, CallsPlaced, CallSet
  <2> QED
    BY <2>1, <2>2, <2>3 DEF CallsPlaced
<1>5. \A d \in Starters : Starting(d)' /\ d # c =>
          Starting(d) /\ call'[d] = call[d] /\ call[d].agent \in Agents /\ call[d].agent # a
  BY <1>1, Names DEF CallSet, Starting, Placed, StartingAlone, CallsPlaced
<1>6. runs[a] \in Nat
  BY DEF Shape
<1>7. StartingAlone'
  <2>1. ASSUME NEW d \in Starters, Starting(d)', d # c
        PROVE  LET b == call'[d].agent IN
               /\ slot'[b].phase = "active" /\ task'[b].at = "none"
               /\ loop'[b].at = "idle" /\ ~input'[b].closed
               /\ call'[d].at = "creating" => edge'[b] = "none" /\ runs'[b] = 1
               /\ call'[d].at = "created" => edge'[b] # "none"
               /\ call'[d].at = "spawning" => slot'[b].durable
               /\ \A e \in Starters : Starting(e)' /\ call'[e].agent = b => e = d
    <3>1. PICK b : b = call[d].agent
      OBVIOUS
    <3>2. b \in Agents \ {a} /\ call'[d] = call[d] /\ Starting(d)
      BY <1>5, <2>1, <3>1
    <3>3. \A e \in Starters : Starting(e)' /\ call'[e].agent = b => e # c /\ Starting(e) /\ call[e].agent = b
      BY <1>5, <3>2, <1>1 DEF CallSet
    <3> QED
      BY <1>3, <3>1, <3>2, <3>3 DEF Placed, StartingAlone, Registered
  <2>2. /\ slot'[a].phase = "active" /\ task'[a].at = "none"
        /\ loop'[a].at = "idle" /\ ~input'[a].closed
        /\ v.at = "creating" => edge'[a] = "none" /\ runs'[a] = 1
        /\ v.at # "created" /\ (v.at = "spawning" => slot'[a].durable)
    BY <1>6 DEF Registered
  <2>3. \A e \in Starters : Starting(e)' /\ call'[e].agent = a => e = c
    BY <1>5
  <2>4. call'[c] = v
    BY DEF CallSet
  <2> QED
    BY <2>1, <2>2, <2>3, <2>4 DEF StartingAlone
<1>8. TasksPlaced'
  <2>1. ASSUME NEW b \in Agents, b # a, task[b].by \in Starters, call[task[b].by].at = "inline"
        PROVE  call'[task[b].by] = call[task[b].by]
    BY <2>1, Names DEF CallSet
  <2>2. ASSUME NEW b \in Agents, b # a
        PROVE  /\ task'[b] = task[b] /\ slot'[b] = slot[b] /\ loop'[b] = loop[b] /\ input'[b] = input[b]
    BY <1>3, <2>2 DEF Registered
  <2>3. task'[a].at = "none"
    BY DEF Registered
  <2> QED
    BY <2>1, <2>2, <2>3 DEF Placed, TasksPlaced, TaskPlaced
<1>9. SlotsDurable'
  <2>1. runs'[a] # 0 /\ slot'[a].phase = "active" /\ (slot'[a].durable <=> edge[a] # "none")
    BY <1>6 DEF Registered
  <2> QED
    BY <2>1 DEF Placed, SlotsDurable, Registered
<1>10. ShutdownStages'
  BY <1>2 DEF Placed, ShutdownStages, Live
<1>11. CommitsPlaced'
  <2>1. ASSUME NEW b \in Agents, NEW run \in 1..runs[b] PROVE run \in 1..runs'[b]
    <3>1. runs[b] \in Nat /\ (runs'[b] = runs[b] \/ runs'[b] = runs[b] + 1)
      BY DEF Registered, Shape
    <3> QED
      BY <3>1
  <2> QED
    BY <2>1 DEF Placed, CommitsPlaced, Busy
<1>12. SlotsBound'
  <2>1. \A d \in Spawns : call[d].at \in {"created", "dropped"} => call'[d] = call[d]
    BY Names DEF CallSet
  <2>2. ASSUME NEW b \in Agents, b # a, slot'[b].phase # "vacant", edge'[b] # "none", ~slot'[b].durable
        PROVE  Unbound(b)'
    <3>1. Unbound(b)
      BY <2>2 DEF Placed, SlotsBound, Registered
    <3> QED
      BY <2>1, <3>1 DEF Unbound
  <2> QED
    BY <2>2 DEF SlotsBound
<1> QED
  BY <1>4, <1>7, <1>8, <1>9, <1>10, <1>11, <1>12 DEF Placed

LEMMA SpawnAgentKeeps ==
    ASSUME RunsInv, NEW c \in Spawns, NEW a \in Agents, SpawnAgent(c, a)
    PROVE  RunsInv'
<1>1. Shape /\ LoopInv(Messages) /\ Placed /\ c \in Calls /\ c \in Starters
  BY RunsFacts, Names DEF RunsInv
<1>2. /\ call[c].at = "idle" /\ loop[Parent].at = "tools" /\ runs[a] = 0
      /\ UNCHANGED <<storeVars, downVars, plan, turn, commit, twice, failures>>
  BY DEF SpawnAgent, InTools
<1>3. CASE Ends(c) /\ UNCHANGED <<loopVars, slotVars>>
  <2>1. PICK v : CallSet(c, v) /\ v.at = "ended"
    BY <1>1, <1>3, CallEnds
  <2>2. Proceeds(c, v)
    BY <1>2, <2>1 DEF Proceeds
  <2>3. EdgesKept
    BY <1>2, Unmoved DEF storeVars
  <2> QED
    BY <1>1, <1>2, <1>3, <2>1, <2>2, <2>3, CallAlone DEF storeVars, Shape
<1>4. CASE /\ admission /\ Register(a, FALSE)
           /\ call' = [call EXCEPT ![c] = [at |-> "creating", agent |-> a]]
  <2>1. MaxRuns > 0
    BY AgentAssumption, FS_CardinalityType
  <2>2. LoopInv(Messages)' /\ Registered(a) /\ slot'[a].durable = FALSE
    BY <1>1, <1>2, <1>4, <2>1, RegisterKeeps
  <2>3. PICK v : v = [at |-> "creating", agent |-> a]
    OBVIOUS
  <2>4. v \in CallRecords /\ v.at = "creating" /\ v.agent = a
    BY <2>3 DEF CallRecords
  <2>5. CallSet(c, v)
    BY <1>1, <1>4, <2>3, <2>4, CallMoved
  <2>6. slot[a].phase = "vacant" /\ edge[a] = "none"
    BY <1>1, <1>2 DEF Placed, SlotsDurable
  <2>7. UNCHANGED <<edge, commit, shutdown, admission>>
    BY <1>2 DEF storeVars, downVars
  <2>9. Placed'
    BY <1>1, <1>2, <1>4, <2>2, <2>4, <2>5, <2>6, <2>7, RegisterPlaces
  <2>8. Shape'
    BY <1>1, <1>2, <2>2, <2>5 DEF Shape, CallSet, Registered, storeVars, downVars
  <2> QED
    BY <2>2, <2>8, <2>9, RunsStep
<1> QED
  BY <1>3, <1>4 DEF SpawnAgent

LEMMA ContinueAgentKeeps ==
    ASSUME RunsInv, NEW c \in Sends, ContinueAgent(c)
    PROVE  RunsInv'
<1>1. Shape /\ LoopInv(Messages) /\ Placed /\ c \in Calls /\ c \in Starters /\ c \in ToolCalls
  BY RunsFacts, Names DEF RunsInv
<1>2. PICK a : a = call[c].agent
  OBVIOUS
<1>3. /\ call[c].at = "loading" /\ a \in Agents /\ loop[Parent].at = "tools" /\ edge[a] # "none"
      /\ UNCHANGED <<storeVars, downVars, plan, turn, commit, twice, failures>>
  BY <1>1, <1>2 DEF ContinueAgent, Placed, CallsPlaced, InFlight
<1>4. CASE Ends(c) /\ UNCHANGED <<loopVars, slotVars>>
  <2>1. PICK v : CallSet(c, v) /\ v.at = "ended"
    BY <1>1, <1>4, CallEnds
  <2>2. Proceeds(c, v)
    BY <1>3, <2>1 DEF Proceeds
  <2>3. EdgesKept
    BY <1>3, Unmoved DEF storeVars
  <2> QED
    BY <1>1, <1>3, <1>4, <2>1, <2>2, <2>3, CallAlone DEF storeVars, Shape
<1>5. CASE Deliver(c, a) /\ UNCHANGED slotVars
  BY <1>3, <1>5, DeliverKeeps
<1>6. CASE /\ admission /\ slot[a].phase = "vacant" /\ runs[a] < MaxRuns
           /\ Register(a, TRUE) /\ call' = [call EXCEPT ![c].at = "spawning"]
  <2>1. LoopInv(Messages)' /\ Registered(a) /\ slot'[a].durable = TRUE
    BY <1>1, <1>3, <1>6, RegisterKeeps
  <2>2. PICK v : CallSet(c, v) /\ v.at = "spawning" /\ v.agent = call[c].agent
    BY <1>1, <1>6, CallGoes
  <2>3. Placed'
    <3>1. UNCHANGED <<edge, commit, shutdown, admission>>
      BY <1>3 DEF storeVars, downVars
    <3>2. v.agent = a
      BY <1>2, <2>2
    <3> QED
      BY <1>1, <1>3, <1>6, <2>1, <2>2, <3>1, <3>2, RegisterPlaces
  <2>4. Shape'
    BY <1>1, <1>3, <2>1, <2>2 DEF Shape, CallSet, Registered, storeVars, downVars
  <2> QED
    BY <2>1, <2>3, <2>4, RunsStep
<1> QED
  BY <1>2, <1>4, <1>5, <1>6 DEF ContinueAgent

\* create_internal_child_session made the edge durable.
LEMMA ChildCreatedKeeps ==
    ASSUME RunsInv, NEW c \in Spawns, ChildCreated(c)
    PROVE  RunsInv'
<1>1. Shape /\ LoopInv(Messages) /\ Placed /\ c \in Calls /\ c \in Starters /\ c \in ToolCalls
  BY RunsFacts, Names DEF RunsInv
<1>2. PICK a : a = call[c].agent
  OBVIOUS
<1>3. /\ call[c].at = "creating" /\ a \in Agents /\ edge[a] = "none" /\ runs[a] = 1
      /\ slot[a].phase = "active" /\ task[a].at = "none" /\ loop[a].at = "idle" /\ ~input[a].closed
  BY <1>1, <1>2 DEF ChildCreated, Placed, CallsPlaced, StartingAlone, Starting
<1>4. /\ edge' = [edge EXCEPT ![a] = "open"] /\ call' = [call EXCEPT ![c].at = "created"]
      /\ UNCHANGED <<loopVars, slotVars, mailbox, downVars, plan, turn, commit, twice, failures>>
  BY <1>2 DEF ChildCreated
<1>5. PICK v : CallSet(c, v) /\ v.at = "created" /\ v.agent = call[c].agent
  BY <1>1, <1>4, CallGoes
<1>6. UNCHANGED <<slot, runs, task, invocation>>
  BY <1>4 DEF slotVars
<1>7. /\ edge' \in [Agents -> {"none", "open", "closed"}] /\ edge'[a] = "open"
      /\ \A b \in Agents \ {a} : edge'[b] = edge[b]
  BY <1>1, <1>3, <1>4 DEF Shape
<1>8. LoopInv(Messages)' /\ UNCHANGED <<loop, input, shutdown, admission>>
  BY <1>1, <1>4, LoopKept DEF loopVars, downVars
<1>9. Shape'
  BY <1>1, <1>4, <1>5, <1>6, <1>7 DEF Shape, CallSet, downVars
<1>10. Placed'
  <2>1. CallsPlaced'
    <3>1. ASSUME NEW d \in Calls
          PROVE  call'[d].at \in {"creating", "created", "spawning", "inline", "retrying", "loading"} =>
                     call'[d].agent \in Agents
      BY <1>1, <1>2, <1>3, <1>5 DEF Placed, CallsPlaced, CallSet
    <3>2. ASSUME NEW d \in ToolCalls, InFlight(d)' PROVE loop'[Parent].at = "tools"
      BY <1>1, <1>3, <1>8, <1>5, <3>2, Names DEF Placed, CallsPlaced, CallSet, InFlight
    <3>3. ASSUME NEW d \in Sends, call'[d].at \in {"retrying", "loading"}
          PROVE  edge'[call'[d].agent] # "none"
      BY <1>1, <1>5, <1>7, <3>1, <3>3, Names DEF Placed, CallsPlaced, CallSet
    <3> QED
      BY <3>1, <3>2, <3>3 DEF CallsPlaced
  <2>2. \A d \in Starters : Starting(d)' /\ d # c =>
            Starting(d) /\ call'[d] = call[d] /\ call[d].agent \in Agents /\ call[d].agent # a
    BY <1>1, <1>2, <1>3, <1>5, Names DEF CallSet, Starting, Placed, StartingAlone, CallsPlaced
  <2>3. StartingAlone'
    BY <1>1, <1>2, <1>3, <1>5, <1>6, <1>7, <1>8, <2>2
       DEF CallSet, Placed, StartingAlone, Starting
  <2>4. TasksPlaced'
    <3>1. ASSUME NEW b \in Agents, task[b].by \in Starters, call[task[b].by].at = "inline"
          PROVE  call'[task[b].by] = call[task[b].by]
      BY <1>3, <1>5, <3>1, Names DEF CallSet
    <3> QED
      BY <1>1, <1>6, <1>8, <3>1 DEF Placed, TasksPlaced, TaskPlaced
  <2>5. SlotsDurable'
    BY <1>1, <1>3, <1>6, <1>7 DEF Placed, SlotsDurable
  <2>6. ShutdownStages'
    BY <1>1, <1>6, <1>8 DEF Placed, ShutdownStages, Live
  <2>7. CommitsPlaced'
    BY <1>1, <1>4, <1>6, <1>7 DEF Placed, CommitsPlaced, Busy
  <2>8. SlotsBound'
    <3>1. Unbound(a)'
      BY <1>2, <1>5 DEF Unbound, CallSet
    <3>2. \A d \in Spawns : call[d].at \in {"created", "dropped"} => call'[d] = call[d]
      BY <1>3, <1>5, Names DEF CallSet
    <3>3. ASSUME NEW b \in Agents, b # a, slot'[b].phase # "vacant", edge'[b] # "none", ~slot'[b].durable
          PROVE  Unbound(b)'
      BY <1>1, <1>6, <1>7, <3>2, <3>3 DEF Placed, SlotsBound, Unbound
    <3> QED
      BY <3>1, <3>3 DEF SlotsBound
  <2> QED
    BY <2>1, <2>3, <2>4, <2>5, <2>6, <2>7, <2>8 DEF Placed
<1> QED
  BY <1>8, <1>9, <1>10, RunsStep

\* update_run_child_session: the slot knows of the edge.
LEMMA ChildLinkedKeeps ==
    ASSUME RunsInv, NEW c \in Spawns, ChildLinked(c)
    PROVE  RunsInv'
<1>1. Shape /\ LoopInv(Messages) /\ Placed /\ c \in Calls /\ c \in Starters /\ c \in ToolCalls
  BY RunsFacts, Names DEF RunsInv
<1>2. PICK a : a = call[c].agent
  OBVIOUS
<1>3. /\ call[c].at = "created" /\ a \in Agents /\ edge[a] # "none"
      /\ slot[a].phase = "active" /\ task[a].at = "none" /\ loop[a].at = "idle" /\ ~input[a].closed
  BY <1>1, <1>2 DEF ChildLinked, Placed, CallsPlaced, StartingAlone, Starting
<1>4. /\ slot' = [slot EXCEPT ![a].durable = TRUE] /\ call' = [call EXCEPT ![c].at = "spawning"]
      /\ UNCHANGED <<loopVars, runs, task, invocation, storeVars, downVars, plan, turn, commit, twice,
                     failures>>
  BY <1>2 DEF ChildLinked
<1>5. PICK v : CallSet(c, v) /\ v.at = "spawning" /\ v.agent = call[c].agent
  BY <1>1, <1>4, CallGoes
<1>6. /\ slot' \in [Agents -> SlotRecords] /\ slot'[a].phase = "active" /\ slot'[a].durable
      /\ \A b \in Agents \ {a} : slot'[b] = slot[b]
  BY <1>1, <1>3, <1>4 DEF Shape, SlotRecords
<1>7. LoopInv(Messages)' /\ UNCHANGED <<loop, input, shutdown, admission, edge>>
  BY <1>1, <1>4, LoopKept DEF loopVars, downVars, storeVars
<1>8. Shape'
  BY <1>1, <1>4, <1>5, <1>6 DEF Shape, CallSet, downVars, storeVars
<1>9. Placed'
  <2>1. CallsPlaced'
    BY <1>1, <1>2, <1>3, <1>5, <1>7, Names DEF Placed, CallsPlaced, CallSet, InFlight
  <2>2. \A d \in Starters : Starting(d)' /\ d # c =>
            Starting(d) /\ call'[d] = call[d] /\ call[d].agent \in Agents /\ call[d].agent # a
    BY <1>1, <1>2, <1>3, <1>5, Names DEF CallSet, Starting, Placed, StartingAlone, CallsPlaced
  <2>3. StartingAlone'
    BY <1>1, <1>2, <1>3, <1>4, <1>5, <1>6, <1>7, <2>2
       DEF CallSet, Placed, StartingAlone, Starting
  <2>4. TasksPlaced'
    <3>1. ASSUME NEW b \in Agents, task[b].by \in Starters, call[task[b].by].at = "inline"
          PROVE  call'[task[b].by] = call[task[b].by]
      BY <1>3, <1>5, <3>1, Names DEF CallSet
    <3> QED
      BY <1>1, <1>3, <1>4, <1>6, <1>7, <3>1 DEF Placed, TasksPlaced, TaskPlaced
  <2>5. SlotsDurable'
    BY <1>1, <1>3, <1>4, <1>6, <1>7 DEF Placed, SlotsDurable
  <2>6. ShutdownStages'
    BY <1>1, <1>3, <1>6, <1>7 DEF Placed, ShutdownStages, Live
  <2>7. CommitsPlaced'
    BY <1>1, <1>4, <1>7, Frames, Unmoved
  <2>8. SlotsBound'
    <3>1. \A d \in Spawns : call[d].at \in {"created", "dropped"} /\ d # c => call'[d] = call[d]
      BY <1>5, Names DEF CallSet
    <3>2. ASSUME NEW b \in Agents, b # a, slot'[b].phase # "vacant", edge'[b] # "none", ~slot'[b].durable
          PROVE  Unbound(b)'
      <4>1. PICK d \in Spawns : call[d].at \in {"created", "dropped"} /\ call[d].agent = b
        BY <1>1, <1>6, <1>7, <3>2 DEF Placed, SlotsBound, Unbound
      <4>2. call'[d] = call[d]
        BY <1>2, <3>1, <3>2, <4>1
      <4> QED
        BY <4>1, <4>2 DEF Unbound
    <3> QED
      BY <1>6, <3>2 DEF SlotsBound
  <2> QED
    BY <2>1, <2>3, <2>4, <2>5, <2>6, <2>7, <2>8 DEF Placed
<1> QED
  BY <1>7, <1>8, <1>9, RunsStep

\* The child session could not be made: the slot is given back.
LEMMA ChildNotCreatedKeeps ==
    ASSUME RunsInv, NEW c \in Spawns, ChildNotCreated(c)
    PROVE  RunsInv'
<1>1. Shape /\ LoopInv(Messages) /\ Placed /\ c \in Calls /\ c \in Starters /\ c \in ToolCalls
  BY RunsFacts, Names DEF RunsInv
<1>2. PICK a : a = call[c].agent
  OBVIOUS
<1>3. /\ call[c].at = "creating" /\ a \in Agents /\ edge[a] = "none" /\ runs[a] = 1
      /\ slot[a].phase = "active" /\ task[a].at = "none"
  BY <1>1, <1>2 DEF ChildNotCreated, Placed, CallsPlaced, StartingAlone, Starting
<1>4. /\ slot' = [slot EXCEPT ![a] = Vacant] /\ call' = [call EXCEPT ![c].at = "ended"]
      /\ UNCHANGED <<loopVars, runs, task, invocation, storeVars, downVars, plan, turn, commit, twice>>
  BY <1>2 DEF ChildNotCreated, Ends
<1>5. PICK v : CallSet(c, v) /\ v.at = "ended"
  BY <1>1, <1>4, CallGoes
<1>6. /\ slot' \in [Agents -> SlotRecords] /\ slot'[a].phase = "vacant"
      /\ \A b \in Agents \ {a} : slot'[b] = slot[b]
  BY <1>1, <1>3, <1>4 DEF Shape, SlotRecords, Vacant
<1>7. LoopInv(Messages)' /\ UNCHANGED <<loop, input, shutdown, admission, edge>>
  BY <1>1, <1>4, LoopKept DEF loopVars, downVars, storeVars
<1>8. failures' \in 0..MaxStoreFailures
  BY <1>1 DEF ChildNotCreated, Fail, Shape, MaxStoreFailures
<1>9. Shape'
  BY <1>1, <1>4, <1>5, <1>6, <1>8 DEF Shape, CallSet, downVars, storeVars
<1>10. Placed'
  <2>1. CallsPlaced'
    BY <1>1, <1>5, <1>7, Names DEF Placed, CallsPlaced, CallSet, InFlight
  <2>2. \A d \in Starters : Starting(d)' =>
            /\ d # c /\ Starting(d) /\ call'[d] = call[d]
            /\ call[d].agent \in Agents /\ call[d].agent # a
    BY <1>1, <1>2, <1>3, <1>5, Names DEF CallSet, Starting, Placed, StartingAlone, CallsPlaced
  <2>3. StartingAlone'
    BY <1>1, <1>4, <1>6, <1>7, <2>2 DEF Placed, StartingAlone, Starting
  <2>4. TasksPlaced'
    <3>1. ASSUME NEW b \in Agents, task[b].by \in Starters, call[task[b].by].at = "inline"
          PROVE  call'[task[b].by] = call[task[b].by]
      BY <1>3, <1>5, <3>1, Names DEF CallSet
    <3> QED
      BY <1>1, <1>3, <1>4, <1>6, <1>7, <3>1 DEF Placed, TasksPlaced, TaskPlaced
  <2>5. SlotsDurable'
    BY <1>1, <1>3, <1>4, <1>6, <1>7 DEF Placed, SlotsDurable
  <2>6. ShutdownStages'
    BY <1>1, <1>3, <1>6, <1>7 DEF Placed, ShutdownStages, Live
  <2>7. CommitsPlaced'
    BY <1>1, <1>4, <1>7, Frames, Unmoved
  <2>8. SlotsBound'
    <3>1. \A d \in Spawns : call[d].at \in {"created", "dropped"} => call'[d] = call[d]
      BY <1>3, <1>5, Names DEF CallSet
    <3> QED
      BY <1>1, <1>6, <1>7, <3>1 DEF Placed, SlotsBound, Unbound
  <2> QED
    BY <2>1, <2>3, <2>4, <2>5, <2>6, <2>7, <2>8 DEF Placed
<1> QED
  BY <1>7, <1>9, <1>10, RunsStep

\* The task begins, in the background or polled by its caller.
LEMMA ChildSpawnedKeeps ==
    ASSUME RunsInv, NEW c \in Starters, ChildSpawned(c)
    PROVE  RunsInv'
<1>1. Shape /\ LoopInv(Messages) /\ Placed /\ c \in Calls /\ c \in ToolCalls
  BY RunsFacts, Names DEF RunsInv
<1>2. PICK a : a = call[c].agent
  OBVIOUS
<1>3. /\ call[c].at = "spawning" /\ a \in Agents /\ slot[a].durable
      /\ slot[a].phase = "active" /\ task[a].at = "none" /\ loop[a].at = "idle" /\ ~input[a].closed
  BY <1>1, <1>2 DEF ChildSpawned, Placed, CallsPlaced, StartingAlone, Starting
<1>4. PICK at, by : /\ task' = [task EXCEPT ![a] = [at |-> "spawned", by |-> by]]
                    /\ call' = [call EXCEPT ![c].at = at]
                    /\ (at = "ended" /\ by = "background") \/ (at = "inline" /\ by = c)
  <2>1. CASE admission
    BY <1>2, <2>1 DEF ChildSpawned, SpawnBackground
  <2>2. CASE ~admission
    BY <1>2, <2>2 DEF ChildSpawned, SpawnBackground
  <2> QED
    BY <2>1, <2>2
<1>5. UNCHANGED <<loopVars, slot, runs, invocation, storeVars, downVars, plan, turn, commit, twice,
                  failures>>
  BY DEF ChildSpawned
<1>6. PICK v : CallSet(c, v) /\ v.at = at /\ v.agent = call[c].agent
  BY <1>1, <1>4, CallGoes
<1>7. /\ task' \in [Agents -> TaskRecords] /\ task'[a].at = "spawned" /\ task'[a].by = by
      /\ \A b \in Agents \ {a} : task'[b] = task[b]
  <2>1. PICK t : t = [at |-> "spawned", by |-> by]
    OBVIOUS
  <2>2. t \in TaskRecords /\ t.at = "spawned" /\ t.by = by
    BY <1>1, <1>4, <2>1 DEF TaskRecords
  <2>3. task' = [task EXCEPT ![a] = t]
    BY <1>4, <2>1
  <2> QED
    BY <1>1, <1>3, <2>2, <2>3 DEF Shape
<1>8. LoopInv(Messages)' /\ UNCHANGED <<loop, input, shutdown, admission, edge>>
  BY <1>1, <1>5, LoopKept DEF loopVars, downVars, storeVars
<1>9. Shape'
  BY <1>1, <1>5, <1>6, <1>7 DEF Shape, CallSet, downVars, storeVars
<1>10. Placed'
  <2>1. CallsPlaced'
    BY <1>1, <1>2, <1>3, <1>4, <1>6, <1>8, Names DEF Placed, CallsPlaced, CallSet, InFlight
  <2>2. \A d \in Starters : Starting(d)' =>
            /\ d # c /\ Starting(d) /\ call'[d] = call[d]
            /\ call[d].agent \in Agents /\ call[d].agent # a
    BY <1>1, <1>2, <1>3, <1>4, <1>6, Names DEF CallSet, Starting, Placed, StartingAlone, CallsPlaced
  <2>3. StartingAlone'
    BY <1>1, <1>5, <1>7, <1>8, <2>2 DEF Placed, StartingAlone, Starting
  <2>4. TasksPlaced'
    <3>1. ASSUME NEW b \in Agents, task[b].by \in Starters, call[task[b].by].at = "inline"
          PROVE  call'[task[b].by] = call[task[b].by]
      BY <1>3, <1>6, <3>1, Names DEF CallSet
    <3>2. ASSUME NEW b \in Agents, b # a PROVE TaskPlaced(b)'
      BY <1>1, <1>5, <1>7, <1>8, <3>1, <3>2 DEF Placed, TasksPlaced, TaskPlaced
    <3>3. TaskPlaced(a)'
      BY <1>2, <1>3, <1>4, <1>5, <1>6, <1>7, <1>8 DEF TaskPlaced, CallSet
    <3> QED
      BY <3>2, <3>3 DEF TasksPlaced
  <2>6. LinksKept
    BY <1>3, <1>6, Names DEF CallSet, LinksKept
  <2>5. SlotsDurable' /\ ShutdownStages' /\ CommitsPlaced' /\ SlotsBound'
    BY <1>1, <1>5, <1>8, <2>6, Frames, Unmoved
  <2> QED
    BY <2>1, <2>3, <2>4, <2>5 DEF Placed
<1> QED
  BY <1>8, <1>9, <1>10, RunsStep

-----------------------------------------------------------------------------
(* The first layer: run_child_agent. *)

\* Only Agent a's task moves, and what goes with it.
TaskEffect(a) ==
    /\ task' \in [Agents -> TaskRecords] /\ task'[a].by = task[a].by
    /\ \A b \in Agents \ {a} :
          /\ task'[b] = task[b] /\ loop'[b] = loop[b] /\ input'[b].closed = input[b].closed
          /\ slot'[b].phase = slot[b].phase /\ slot'[b].durable = slot[b].durable

LEMMA TaskPlaces ==
    ASSUME Placed, NEW a \in Agents, TaskEffect(a), UNCHANGED <<call, runs>>, EdgesKept,
           task[a].at \in {"spawned", "opening", "running", "finishing"},
           task'[a].at \in {"spawned", "opening"} => loop'[a].at = "idle" /\ ~input'[a].closed,
           task'[a].at = "running" =>
               loop'[a].at # "idle" /\ (loop'[a].at = "returned" => loop'[a].outcome # "none"),
           task'[a].at \in {"spawned", "opening", "running"} =>
               slot'[a].phase = "active" /\ slot'[a].durable
    PROVE  StartingAlone' /\ TasksPlaced'
<1>1. \A c \in Starters : Starting(c) => call[c].agent \in Agents \ {a}
  BY Names DEF Placed, CallsPlaced, StartingAlone, Starting
<1>2. StartingAlone'
  BY <1>1 DEF Placed, StartingAlone, Starting, TaskEffect, EdgesKept
<1>3. ASSUME NEW b \in Agents, b # a PROVE TaskPlaced(b)'
  BY <1>3 DEF Placed, TasksPlaced, TaskPlaced, TaskEffect, EdgesKept
<1>4. TaskPlaced(a)'
  BY DEF Placed, TasksPlaced, TaskPlaced, TaskEffect
<1> QED
  BY <1>2, <1>3, <1>4 DEF TasksPlaced

LEMMA TaskGoes ==
    ASSUME Shape, NEW a \in Agents, NEW at, task' = [task EXCEPT ![a].at = at],
           at \in {"opening", "running", "finishing", "done"}
    PROVE  /\ task' \in [Agents -> TaskRecords] /\ task'[a].by = task[a].by /\ task'[a].at = at
           /\ \A b \in Agents \ {a} : task'[b] = task[b]
<1>1. PICK t : t = [task[a] EXCEPT !.at = at]
  OBVIOUS
<1>2. task[a] \in TaskRecords
  BY DEF Shape
<1>3. t \in TaskRecords /\ t.at = at /\ t.by = task[a].by
  BY <1>1, <1>2 DEF TaskRecords
<1>4. task' = [task EXCEPT ![a] = t]
  BY <1>1
<1> QED
  BY <1>3, <1>4 DEF Shape

\* OpenChild and ChildDone: the task goes on and nothing else changes.
LEMMA TaskKeeps ==
    ASSUME RunsInv, NEW a \in Agents, NEW at, task' = [task EXCEPT ![a].at = at],
           \/ task[a].at = "spawned" /\ at = "opening"
           \/ task[a].at = "finishing" /\ at = "done",
           UNCHANGED <<loopVars, slot, runs, invocation, storeVars, downVars, plan, turn, call, commit,
                       twice, failures>>
    PROVE  RunsInv'
<1>1. Shape /\ LoopInv(Messages) /\ Placed
  BY RunsFacts DEF RunsInv
<1>2. /\ task' \in [Agents -> TaskRecords] /\ task'[a].by = task[a].by /\ task'[a].at = at
      /\ \A b \in Agents \ {a} : task'[b] = task[b]
  BY <1>1, TaskGoes
<1>3. /\ LoopInv(Messages)' /\ ChildrenKept /\ ParentKept /\ SlotsKept /\ EdgesKept /\ LinksKept
      /\ UNCHANGED <<loop, input, shutdown, admission, edge>>
  BY <1>1, LoopKept, Unmoved DEF loopVars, downVars, storeVars
<1>4. TaskEffect(a)
  BY <1>2, <1>3 DEF TaskEffect
<1>5. at = "opening" => /\ loop[a].at = "idle" /\ ~input[a].closed
                        /\ slot[a].phase = "active" /\ slot[a].durable
  BY <1>1 DEF Placed, TasksPlaced, TaskPlaced
<1>6. StartingAlone' /\ TasksPlaced'
  BY <1>1, <1>2, <1>3, <1>4, <1>5, TaskPlaces
<1>7. Placed'
  BY <1>1, <1>3, <1>6, Frames DEF Placed
<1>8. Shape'
  BY <1>1, <1>2 DEF Shape, downVars, storeVars
<1> QED
  BY <1>3, <1>7, <1>8, RunsStep

LEMMA OpenChildKeeps ==
    ASSUME RunsInv, NEW a \in Agents, OpenChild(a)
    PROVE  RunsInv'
<1>1. task' = [task EXCEPT ![a].at = "opening"] /\ task[a].at = "spawned"
  BY DEF OpenChild
<1> QED
  BY <1>1, TaskKeeps DEF OpenChild

LEMMA ChildDoneKeeps ==
    ASSUME RunsInv, NEW a \in Agents, ChildDone(a)
    PROVE  RunsInv'
<1>1. task' = [task EXCEPT ![a].at = "done"] /\ task[a].at = "finishing"
  BY DEF ChildDone
<1> QED
  BY <1>1, TaskKeeps DEF ChildDone

LEMMA ChildOpenedKeeps ==
    ASSUME RunsInv, NEW a \in Agents, ChildOpened(a)
    PROVE  RunsInv'
<1>1. /\ Shape /\ LoopInv(Messages) /\ Placed /\ a \in Runs /\ Heard(a) /\ LoopType(Messages)
      /\ Exact(input[a]) /\ Parent \in Runs /\ a # Parent
  BY RunsFacts, Names DEF RunsInv, LoopInv
<1>2. /\ task[a].at = "opening" /\ edge' = [edge EXCEPT ![a] = "open"]
      /\ task' = [task EXCEPT ![a].at = "running"] /\ loop' = [loop EXCEPT ![a].at = "begin"]
      /\ UNCHANGED <<input, signal, context, owed, slot, runs, invocation, mailbox, downVars, plan, turn,
                     call, commit, twice, failures>>
  BY DEF ChildOpened
<1>3. /\ loop[a].at = "idle" /\ ~input[a].closed /\ slot[a].phase = "active" /\ slot[a].durable
      /\ edge[a] # "none"
  BY <1>1, <1>2 DEF Placed, TasksPlaced, TaskPlaced, SlotsDurable
<1>4. PICK v : v = [loop[a] EXCEPT !.at = "begin"]
  OBVIOUS
<1>5. v \in LoopRecords /\ v.at = "begin"
  BY <1>1, <1>4, LoopFields DEF LoopRecords, Locations
<1>6. /\ loop' \in [Runs -> LoopRecords] /\ loop'[a] = v
      /\ \A q \in Runs \ {a} : loop'[q] = loop[q]
  <2>1. loop' = [loop EXCEPT ![a] = v]
    BY <1>2, <1>4
  <2> QED
    BY <1>1, <1>5, <2>1, LoopMoved
<1>7. LoopInv(Messages)' /\ OthersKept(a)
  <2>1. OthersKept(a)
    BY <1>2, <1>6 DEF OthersKept
  <2>2. LoopType(Messages)'
    BY <1>1, <1>2, <1>6 DEF LoopType
  <2>3. Heard(a)'
    BY <1>1, <1>2, <1>3, <1>5, <1>6 DEF Heard, Given
  <2> QED
    BY <1>1, <1>2, <2>1, <2>2, <2>3, StepKeeps
<1>8. /\ task' \in [Agents -> TaskRecords] /\ task'[a].by = task[a].by /\ task'[a].at = "running"
      /\ \A b \in Agents \ {a} : task'[b] = task[b]
  BY <1>1, <1>2, TaskGoes
<1>9. edge' \in [Agents -> {"none", "open", "closed"}] /\ EdgesKept /\ edge'[a] # "none"
  BY <1>1, <1>2, <1>3 DEF Shape, EdgesKept
<1>10. ParentKept /\ SlotsKept /\ LinksKept /\ UNCHANGED <<shutdown, admission>>
  BY <1>2, <1>7, Unmoved DEF downVars
<1>11. TaskEffect(a)
  BY <1>2, <1>6, <1>8, Names DEF TaskEffect
<1>12. StartingAlone' /\ TasksPlaced'
  BY <1>1, <1>2, <1>3, <1>5, <1>6, <1>8, <1>9, <1>11, TaskPlaces
<1>13. Placed'
  BY <1>1, <1>2, <1>9, <1>10, <1>12, Frames DEF Placed
<1>14. Shape'
  BY <1>1, <1>2, <1>8, <1>9 DEF Shape, downVars
<1> QED
  BY <1>7, <1>13, <1>14, RunsStep

LEMMA ChildStepKeeps ==
    ASSUME RunsInv, NEW a \in Agents, ChildStep(a)
    PROVE  RunsInv'
<1>1. Shape /\ LoopInv(Messages) /\ Placed /\ a \in Runs /\ Heard(a) /\ Parent \in Runs /\ a # Parent
  BY RunsFacts, Names DEF RunsInv, LoopInv
<1>2. UNCHANGED <<slotVars, storeVars, downVars, plan, turn, call, commit, twice, failures>>
  BY DEF ChildStep
<1>3. LoopInv(Messages)' /\ LoopEffect(a)
  BY <1>1, LoopStepKeeps DEF ChildStep
<1>4. /\ loop[a].at \notin {"idle", "returned"} /\ loop'[a].at # "idle"
      /\ loop'[a].at = "returned" => loop'[a].outcome # "none"
      /\ \A b \in Agents \ {a} : loop'[b] = loop[b] /\ input'[b] = input[b]
  BY <1>1, <1>3, Names DEF LoopEffect, OthersKept, Heard
<1>5. /\ ParentKept /\ SlotsKept /\ EdgesKept /\ LinksKept
      /\ UNCHANGED <<runs, task, slot, edge, shutdown, admission>>
  BY <1>2, <1>3, Unmoved DEF LoopEffect, slotVars, storeVars, downVars
<1>6. StartingAlone'
  <2>1. \A c \in Starters : Starting(c) => call[c].agent \in Agents \ {a}
    BY <1>1, <1>4, Names DEF Placed, CallsPlaced, StartingAlone, Starting
  <2> QED
    BY <1>1, <1>2, <1>4, <1>5, <2>1 DEF Placed, StartingAlone, Starting
<1>7. TasksPlaced'
  BY <1>1, <1>2, <1>4, <1>5 DEF Placed, TasksPlaced, TaskPlaced
<1>8. Placed'
  BY <1>1, <1>2, <1>5, <1>6, <1>7, Frames DEF Placed
<1>9. Shape'
  BY <1>1, <1>2 DEF Shape, slotVars, storeVars, downVars
<1> QED
  BY <1>3, <1>8, <1>9, RunsStep

\* finish: the slot turns pending and its own finalizer asks for the lock.
LEMMA FinishKeeps ==
    ASSUME RunsInv, NEW a \in Agents, NEW status \in Final, Finish(a, status),
           task[a].at \in {"spawned", "opening", "running"},
           LoopInv(Messages)', UNCHANGED loop, \A b \in Agents \ {a} : input'[b] = input[b],
           UNCHANGED <<runs, invocation, storeVars, downVars, plan, turn, call, twice>>,
           failures' \in 0..MaxStoreFailures
    PROVE  RunsInv'
<1>1. Shape /\ Placed /\ a \in Committers
  BY RunsFacts, Names DEF RunsInv
<1>2. slot[a].phase = "active" /\ slot[a].durable /\ edge[a] # "none" /\ slot[a] \in SlotRecords
  BY <1>1 DEF Placed, TasksPlaced, TaskPlaced, SlotsDurable, Shape
<1>3. /\ task' \in [Agents -> TaskRecords] /\ task'[a].by = task[a].by /\ task'[a].at = "finishing"
      /\ \A b \in Agents \ {a} : task'[b] = task[b]
  BY <1>1, TaskGoes DEF Finish
<1>4. PICK v : CommitSet(a, v) /\ Works(v)
  BY <1>1, <1>2, RetryMoves DEF Finish
<1>5. /\ slot' \in [Agents -> SlotRecords] /\ slot'[a].phase = "pending"
      /\ slot'[a].durable = slot[a].durable /\ \A b \in Agents \ {a} : slot'[b] = slot[b]
  <2>1. PICK s : s = [slot[a] EXCEPT !.status = IF slot[a].status \in Final THEN slot[a].status ELSE status,
                                     !.phase = "pending"]
    OBVIOUS
  <2>2. s \in SlotRecords /\ s.phase = "pending" /\ s.durable = slot[a].durable
    BY <1>2, <2>1 DEF SlotRecords
  <2>3. slot' = [slot EXCEPT ![a] = s]
    BY <2>1 DEF Finish
  <2> QED
    BY <1>1, <2>2, <2>3 DEF Shape
<1>6. ParentKept /\ EdgesKept /\ UNCHANGED <<edge, shutdown, admission>>
  BY Unmoved DEF ParentKept, storeVars, downVars
<1>7. TaskEffect(a)
  BY <1>3, <1>5 DEF TaskEffect
<1>8. StartingAlone' /\ TasksPlaced'
  BY <1>1, <1>3, <1>6, <1>7, TaskPlaces
<1>9. SlotsDurable' /\ SlotsBound'
  <2>1. SlotsDurable'
    BY <1>1, <1>2, <1>5, <1>6 DEF Placed, SlotsDurable
  <2>2. SlotsBound'
    <3>1. ASSUME NEW b \in Agents, slot'[b].phase # "vacant", edge'[b] # "none", ~slot'[b].durable
          PROVE  Unbound(b)'
      <4>1. b # a /\ Unbound(b)
        BY <1>1, <1>2, <1>5, <1>6, <3>1 DEF Placed, SlotsBound
      <4> QED
        BY <4>1 DEF Unbound
    <3> QED
      BY <3>1 DEF SlotsBound
  <2> QED
    BY <2>1, <2>2
<1>10. ShutdownStages'
  BY <1>1, <1>5, <1>6 DEF Placed, ShutdownStages, Live
<1>11. CommitsPlaced'
  BY <1>1, <1>4, <1>6, CommitPlaces
<1>12. Placed'
  BY <1>1, <1>6, <1>8, <1>9, <1>10, <1>11, Frames DEF Placed
<1>13. Shape'
  BY <1>1, <1>3, <1>4, <1>5 DEF Shape, CommitSet, storeVars, downVars
<1> QED
  BY <1>12, <1>13, RunsStep

LEMMA ChildEndsKeeps ==
    ASSUME RunsInv, NEW a \in Agents, ChildEnds(a)
    PROVE  RunsInv'
<1>1. Shape /\ LoopInv(Messages) /\ Placed /\ LoopType(Messages) /\ a \in Runs
  BY RunsFacts, Names DEF RunsInv
<1>2. PICK status : status = StatusOf(loop[a].outcome)
  OBVIOUS
<1>3. loop[a].outcome \in Outcomes /\ loop[a].outcome # "none"
  BY <1>1, LoopFields DEF ChildEnds, Placed, TasksPlaced, TaskPlaced
<1>4. status \in Final
  BY <1>2, <1>3 DEF StatusOf, Outcomes, Final
<1>5. LoopInv(Messages)' /\ UNCHANGED <<loop, input>>
  BY <1>1, LoopKept DEF ChildEnds, loopVars
<1> QED
  BY <1>1, <1>2, <1>4, <1>5, FinishKeeps DEF ChildEnds, Shape

LEMMA ChildRefusedKeeps ==
    ASSUME RunsInv, NEW a \in Agents, ChildRefused(a)
    PROVE  RunsInv'
<1>1. /\ Shape /\ LoopInv(Messages) /\ Placed /\ LoopType(Messages) /\ a \in Runs /\ Heard(a)
      /\ input[a] \in Buffers(Messages)
  BY RunsFacts, Names, LoopFields DEF RunsInv, LoopInv
<1>2. task[a].at \in {"spawned", "opening"} /\ failures' \in 0..MaxStoreFailures
  BY <1>1 DEF ChildRefused, Fail, Shape, MaxStoreFailures
<1>3. loop[a].at = "idle"
  BY <1>1, <1>2 DEF Placed, TasksPlaced, TaskPlaced
<1>4. PICK d : d = Dropped(input[a])
  OBVIOUS
<1>5. d \in Buffers(Messages) /\ Exact(d) /\ d.closed /\ d.injected = <<>> /\ d.steered = <<>>
  BY <1>1, <1>4, DroppedExact
<1>6. input' = [input EXCEPT ![a] = d] /\ UNCHANGED <<signal, loop, context, owed>>
  BY <1>4 DEF ChildRefused
<1>7. input' \in [Runs -> Buffers(Messages)] /\ input'[a] = d /\ \A q \in Runs \ {a} : input'[q] = input[q]
  BY <1>1, <1>5, <1>6 DEF LoopType
<1>8. LoopInv(Messages)'
  <2>1. LoopType(Messages)'
    BY <1>1, <1>6, <1>7 DEF LoopType
  <2>2. OthersKept(a)
    BY <1>6, <1>7 DEF OthersKept
  <2>3. Heard(a)'
    BY <1>3, <1>5, <1>6, <1>7 DEF Heard
  <2> QED
    BY <1>1, <1>5, <1>7, <2>1, <2>2, <2>3, StepKeeps
<1>9. "errored" \in Final
  BY DEF Final
<1>10. \A b \in Agents \ {a} : input'[b] = input[b]
  BY <1>7, Names
<1> QED
  BY <1>2, <1>6, <1>8, <1>9, <1>10, FinishKeeps DEF ChildRefused

-----------------------------------------------------------------------------
(* The first layer: the parent's Turn. *)

LEMMA StartTurnKeeps ==
    ASSUME RunsInv, StartTurn
    PROVE  RunsInv'
<1>1. /\ Shape /\ LoopInv(Messages) /\ Placed /\ LoopType(Messages) /\ Parent \in Runs
  BY RunsFacts, Names DEF RunsInv
<1>2. /\ shutdown = "none" /\ ~Live(Parent) /\ turn' = turn + 1 /\ turn < MaxInvocations
      /\ Mark(PendingRows, "prompt")
      /\ UNCHANGED <<slotVars, edge, downVars, plan, call, commit, twice, failures>>
  <2>1. turn < MaxInvocations
    <3>1. turn \in Nat
      BY <1>1 DEF Shape
    <3>2. turn < 2 \/ turn < 1
      BY DEF StartTurn, MaxInvocations
    <3> QED
      BY <3>1, <3>2 DEF MaxInvocations
  <2>2. Mark(PendingRows, "prompt")
    <3>1. \A i \in DOMAIN mailbox : mailbox[i].delivered = "pending" <=> i \in PendingRows
      BY DEF PendingRows
    <3>2. mailbox' = [i \in DOMAIN mailbox |->
                         IF mailbox[i].delivered = "pending"
                         THEN [mailbox[i] EXCEPT !.delivered = "prompt"] ELSE mailbox[i]]
      BY DEF StartTurn
    <3> QED
      BY <3>1, <3>2, Zenon DEF Mark
  <2> QED
    BY <2>1, <2>2 DEF StartTurn
<1>3. PICK n, m : n = NewInput /\ m = Mail(DOMAIN mailbox)
  OBVIOUS
<1>4. PICK v : v = [NoLoop EXCEPT !.at = "begin"]
  OBVIOUS
<1>5. /\ context' = [context EXCEPT ![Parent] = m] /\ input' = [input EXCEPT ![Parent] = n]
      /\ signal' = [signal EXCEPT ![Parent] = Quiet] /\ loop' = [loop EXCEPT ![Parent] = v]
      /\ owed' = [owed EXCEPT ![Parent] = {}]
  BY <1>3, <1>4 DEF StartTurn
<1>6. n \in Buffers(Messages) /\ Exact(n) /\ ~n.closed
  BY <1>3, NewInputExact
<1>7. v \in LoopRecords /\ v.at = "begin"
  <2>1. v = [at |-> "begin", turn |-> 0, tools |-> FALSE, fresh |-> FALSE, outcome |-> "none"]
    BY <1>4 DEF NoLoop
  <2> QED
    BY <2>1, LoopAssumption DEF LoopRecords, Locations, Outcomes
<1>8. m \subseteq Messages
  <2>1. \A i \in DOMAIN mailbox : i \in Nat
    BY <1>1, LenProperties DEF Shape
  <2> QED
    BY <1>3, <2>1 DEF Mail, Messages
<1>9. Quiet \in [stop : BOOLEAN, abort : BOOLEAN]
  BY DEF Quiet
<1>10. LoopType(Messages)'
  BY <1>1, <1>5, <1>6, <1>7, <1>8, <1>9 DEF LoopType
<1>11. OthersKept(Parent)
  BY <1>1, <1>5 DEF OthersKept, LoopType
<1>12. input'[Parent] = n /\ loop'[Parent] = v /\ owed'[Parent] = {}
  BY <1>1, <1>5 DEF LoopType
<1>13. Heard(Parent)'
  BY <1>6, <1>7, <1>12 DEF Heard
<1>14. LoopInv(Messages)'
  BY <1>1, <1>6, <1>10, <1>11, <1>12, <1>13, StepKeeps
<1>15. ChildrenKept /\ SlotsKept /\ EdgesKept /\ LinksKept /\ UNCHANGED <<runs, task, shutdown, admission>>
  BY <1>2, <1>11, Unmoved DEF slotVars, downVars
<1>16. CallsPlaced'
  <2>1. \A c \in ToolCalls : ~InFlight(c)
    BY <1>1, <1>2 DEF Placed, CallsPlaced, Live
  <2> QED
    BY <1>1, <1>2, <2>1 DEF Placed, CallsPlaced, InFlight
<1>17. ShutdownStages'
  BY <1>2, <1>15 DEF ShutdownStages
<1>18. Placed'
  BY <1>1, <1>2, <1>15, <1>16, <1>17, Frames DEF Placed
<1>19. Shape'
  <2>1. mailbox' \in Seq(MailRecords)
    BY <1>1, <1>2, MarkType
  <2>2. turn' \in 0..MaxInvocations
    BY <1>1, <1>2 DEF Shape, MaxInvocations
  <2> QED
    BY <1>1, <1>2, <2>1, <2>2 DEF Shape, slotVars, downVars
<1> QED
  BY <1>14, <1>18, <1>19, RunsStep

LEMMA ParentStepKeeps ==
    ASSUME RunsInv, ParentStep
    PROVE  RunsInv'
<1>1. Shape /\ LoopInv(Messages) /\ Placed /\ Parent \in Runs
  BY RunsFacts, Names DEF RunsInv
<1>2. UNCHANGED <<slotVars, storeVars, downVars, plan, turn, call, commit, twice, failures>>
  BY DEF ParentStep
<1>3. LoopInv(Messages)' /\ OthersKept(Parent) /\ Live(Parent) /\ \A c \in ToolCalls : ~InFlight(c)
  <2>1. CASE LoopStep(Parent)
    <3>1. LoopInv(Messages)' /\ LoopEffect(Parent)
      BY <1>1, <2>1, LoopStepKeeps
    <3> QED
      BY <1>1, <3>1 DEF LoopEffect, Live, Placed, CallsPlaced
  <2>2. CASE ToolsDone(Parent) /\ \A c \in ToolCalls : ~InFlight(c)
    <3>1. LoopInv(Messages)' /\ OthersKept(Parent)
      BY <1>1, <2>2, ToolsDoneKeeps
    <3> QED
      BY <2>2, <3>1 DEF ToolsDone, Live
  <2> QED
    BY <2>1, <2>2 DEF ParentStep
<1>4. /\ ChildrenKept /\ SlotsKept /\ EdgesKept /\ LinksKept
      /\ UNCHANGED <<runs, task, slot, edge, shutdown, admission>>
  BY <1>2, <1>3, Unmoved DEF slotVars, storeVars, downVars
<1>5. CallsPlaced'
  BY <1>1, <1>2, <1>3, <1>4 DEF Placed, CallsPlaced, InFlight
<1>6. ShutdownStages'
  BY <1>1, <1>3, <1>4 DEF Placed, ShutdownStages
<1>7. Placed'
  BY <1>1, <1>2, <1>4, <1>5, <1>6, Frames DEF Placed
<1>8. Shape'
  BY <1>1, <1>2 DEF Shape, slotVars, storeVars, downVars
<1> QED
  BY <1>3, <1>7, <1>8, RunsStep

\* What steering the Turn does, whichever operation it is.
LEMMA SteerTurnDoes ==
    ASSUME RunsInv, SteerTurn
    PROVE  LoopInv(Messages)' /\ SteerEffect(Parent, Steers)
<1>1. LoopInv(Messages) /\ Parent \in Runs
  BY RunsFacts, Names
<1>2. CASE \E m \in (Steers \cap plan) \ (context[Parent] \cup Buffered(input[Parent])) :
              \/ input[Parent].next_id < MaxSteers /\ SteerRun(Parent, m)
              \/ \E id \in SteerIds(input[Parent]) : UpdateSteer(Parent, id, m)
  <2>1. PICK m \in Steers :
            SteerRun(Parent, m) \/ \E id \in SteerIds(input[Parent]) : UpdateSteer(Parent, id, m)
    BY <1>2
  <2>2. m \in Messages
    BY DEF Messages
  <2>3. LoopInv(Messages)' /\ SteerEffect(Parent, {m})
    BY <1>1, <2>1, <2>2, SteerKeeps, UpdateKeeps
  <2> QED
    BY <2>3 DEF SteerEffect
<1>3. CASE (\E id \in SteerIds(input[Parent]) : CancelSteer(Parent, id)) \/ CancelSteers(Parent)
  <2>1. LoopInv(Messages)' /\ SteerEffect(Parent, {})
    BY <1>1, <1>3, CancelKeeps, CancelAllKeeps
  <2> QED
    BY <2>1 DEF SteerEffect
<1> QED
  BY <1>2, <1>3 DEF SteerTurn

\* Only loops, signals and buffers change, and none of what Placed looks at.
LEMMA ControlOnly ==
    ASSUME RunsInv, LoopInv(Messages)', ChildrenKept, ParentKept,
           UNCHANGED <<slotVars, storeVars, downVars, plan, turn, call, commit, twice, failures>>
    PROVE  RunsInv'
<1>1. Shape /\ Placed
  BY RunsFacts DEF RunsInv
<1>2. SlotsKept /\ EdgesKept /\ LinksKept /\ UNCHANGED <<runs, task, shutdown, admission>>
  BY Unmoved DEF slotVars, storeVars, downVars
<1>3. Placed'
  BY <1>1, <1>2, Frames DEF Placed
<1>4. Shape'
  BY <1>1 DEF Shape, slotVars, storeVars, downVars
<1> QED
  BY <1>3, <1>4, RunsStep

LEMMA SteerTurnKeeps ==
    ASSUME RunsInv, SteerTurn
    PROVE  RunsInv'
<1>1. LoopInv(Messages)' /\ SteerEffect(Parent, Steers)
  BY SteerTurnDoes
<1>2. ChildrenKept /\ ParentKept
  BY <1>1, Unmoved DEF SteerEffect, ParentKept
<1> QED
  BY <1>1, <1>2, ControlOnly DEF SteerTurn

LEMMA AbortTurnKeeps ==
    ASSUME RunsInv, AbortTurn
    PROVE  RunsInv'
<1>1. LoopInv(Messages) /\ LoopType(Messages)
  BY RunsFacts
<1>2. signal' \in [Runs -> [stop : BOOLEAN, abort : BOOLEAN]]
  BY <1>1 DEF AbortTurn, Aborted, LoopType
<1>3. LoopInv(Messages)'
  BY <1>1, <1>2, SignalsSet DEF AbortTurn
<1>4. ChildrenKept /\ ParentKept
  BY DEF AbortTurn, ChildrenKept, ParentKept
<1> QED
  BY <1>3, <1>4, ControlOnly DEF AbortTurn

-----------------------------------------------------------------------------
(* The first layer: the shutdown. *)

\* close_and_cancel moves the shutdown and closes admission.
LEMMA CancelsKeep ==
    ASSUME RunsInv, NEW turns, CloseAndCancel(turns), shutdown' \in {"agents", "join"},
           shutdown' = "agents" => ~Live(Parent), flush' \subseteq Agents,
           commit' \in [Committers -> CommitRecords], CommitsPlaced',
           twice' \subseteq Agents \X (1..MaxRuns),
           UNCHANGED <<slotVars, storeVars, plan, turn, call, failures>>
    PROVE  RunsInv'
<1>1. Shape /\ LoopInv(Messages) /\ LoopType(Messages) /\ Placed
  BY RunsFacts DEF RunsInv
<1>2. signal' \in [Runs -> [stop : BOOLEAN, abort : BOOLEAN]]
  BY <1>1 DEF CloseAndCancel, LoopType
<1>3. LoopInv(Messages)'
  BY <1>1, <1>2, SignalsSet DEF CloseAndCancel
<1>4. /\ ChildrenKept /\ ParentKept /\ SlotsKept /\ EdgesKept /\ LinksKept
      /\ UNCHANGED <<runs, task, loop>> /\ admission' = FALSE
  BY Unmoved DEF CloseAndCancel, ChildrenKept, ParentKept, slotVars, storeVars
<1>5. ShutdownStages'
  BY <1>4 DEF ShutdownStages, Live
<1>6. Placed'
  BY <1>1, <1>4, <1>5, Frames DEF Placed
<1>7. Shape'
  BY <1>1, <1>4 DEF Shape, slotVars, storeVars
<1> QED
  BY <1>3, <1>6, <1>7, RunsStep

LEMMA ShutdownBeginsKeeps ==
    ASSUME RunsInv, ShutdownGraceful \/ CloseSupervisor \/ ShutdownForce
    PROVE  RunsInv'
<1>0. UNCHANGED <<slotVars, storeVars, flush, commit, twice>> =>
          /\ flush' \subseteq Agents /\ commit' \in [Committers -> CommitRecords] /\ CommitsPlaced'
          /\ twice' \subseteq Agents \X (1..MaxRuns)
  BY RunsFacts, Frames, Unmoved DEF RunsInv, Shape, slotVars, storeVars
<1>1. CASE CloseSupervisor
  BY <1>0, <1>1, CancelsKeep DEF CloseSupervisor
<1>2. CASE ShutdownForce
  BY <1>0, <1>2, CancelsKeep DEF ShutdownForce
<1>3. CASE ShutdownGraceful
  <2>1. Shape /\ LoopInv(Messages) /\ Placed
    BY RunsFacts DEF RunsInv
  <2>2. /\ shutdown' = "turns"
        /\ UNCHANGED <<loopVars, slotVars, storeVars, admission, flush, plan, turn, call, commit, twice,
                       failures>>
    BY <1>3 DEF ShutdownGraceful
  <2>3. /\ LoopInv(Messages)' /\ ChildrenKept /\ ParentKept /\ SlotsKept /\ EdgesKept /\ LinksKept
        /\ UNCHANGED <<runs, task>>
    BY <2>1, <2>2, LoopKept, Unmoved DEF slotVars, storeVars
  <2>4. ShutdownStages'
    BY <2>2 DEF ShutdownStages
  <2>5. Placed'
    BY <2>1, <2>2, <2>3, <2>4, Frames DEF Placed
  <2>6. Shape'
    BY <2>1, <2>2 DEF Shape, slotVars, storeVars
  <2> QED
    BY <2>3, <2>5, <2>6, RunsStep
<1> QED
  BY <1>1, <1>2, <1>3

\* When the Turn and the background tasks have ended, no call is in flight and no
\* task runs, also not in the hands of a caller.
LEMMA AllEnded ==
    ASSUME RunsInv, ~Live(Parent), BackgroundEnded
    PROVE  /\ \A c \in ToolCalls : ~InFlight(c)
           /\ \A c \in Starters : ~Starting(c)
           /\ \A a \in Agents : Ended(a)
<1>1. Placed /\ Shape
  BY RunsFacts DEF RunsInv
<1>2. \A c \in ToolCalls : ~InFlight(c)
  BY <1>1 DEF Placed, CallsPlaced, Live
<1>3. \A c \in Starters : ~Starting(c)
  BY <1>2, Names DEF InFlight, Starting
<1>4. ASSUME NEW a \in Agents PROVE Ended(a)
  <2>1. SUFFICES ASSUME ~Ended(a) PROVE FALSE
    OBVIOUS
  <2>2. task[a].at \in {"spawned", "opening", "running", "finishing"} /\ task[a].by # "background"
    BY <1>1, <2>1 DEF BackgroundEnded, Ended, Shape, TaskRecords
  <2>3. task[a].by \in Starters /\ call[task[a].by].at = "inline"
    BY <1>1, <2>2 DEF Placed, TasksPlaced, TaskPlaced
  <2> QED
    BY <1>2, <2>3, Names DEF InFlight
<1> QED
  BY <1>2, <1>3, <1>4

\* What StageRemaining leaves in the slots.
Staged ==
    /\ slot' \in [Agents -> SlotRecords] /\ flush' \subseteq Agents
    /\ \A a \in Agents :
          /\ slot[a].phase # "active" => slot'[a] = slot[a]
          /\ slot[a].phase = "active" /\ slot[a].durable => slot'[a].phase = "pending" /\ slot'[a].durable
          /\ slot[a].phase = "active" /\ ~slot[a].durable => slot'[a].phase = "vacant"
    /\ \A a \in Agents : a \in flush' <=> slot'[a].phase = "pending"

LEMMA StageRemainingDoes ==
    ASSUME Shape, StageRemaining
    PROVE  Staged
<1>1. PICK s : s = [a \in Agents |->
            IF slot[a].phase # "active" THEN slot[a]
            ELSE IF ~slot[a].durable THEN Vacant
            ELSE [slot[a] EXCEPT !.phase = "pending",
                     !.status = IF slot[a].status \in Final THEN slot[a].status ELSE "interrupted"]]
  OBVIOUS
<1>2. slot' = s /\ flush' = {a \in Agents : s[a].phase = "pending"}
  BY <1>1 DEF StageRemaining
<1>3. ASSUME NEW a \in Agents
      PROVE  /\ s[a] \in SlotRecords
             /\ slot[a].phase # "active" => s[a] = slot[a]
             /\ slot[a].phase = "active" /\ slot[a].durable => s[a].phase = "pending" /\ s[a].durable
             /\ slot[a].phase = "active" /\ ~slot[a].durable => s[a].phase = "vacant"
  <2>1. slot[a] \in SlotRecords
    BY DEF Shape
  <2>2. PICK v : v = [slot[a] EXCEPT !.phase = "pending",
                     !.status = IF slot[a].status \in Final THEN slot[a].status ELSE "interrupted"]
    OBVIOUS
  <2>3. v \in SlotRecords /\ v.phase = "pending" /\ v.durable = slot[a].durable
    BY <2>1, <2>2 DEF SlotRecords, Final
  <2>4. Vacant \in SlotRecords /\ Vacant.phase = "vacant"
    BY DEF Vacant, SlotRecords
  <2>5. s[a] = IF slot[a].phase # "active" THEN slot[a] ELSE IF ~slot[a].durable THEN Vacant ELSE v
    BY <1>1, <2>2
  <2> QED
    BY <2>1, <2>3, <2>4, <2>5
<1>4. s \in [Agents -> SlotRecords]
  BY <1>1, <1>3
<1> QED
  BY <1>2, <1>3, <1>4 DEF Staged

LEMMA StageRemainingKeeps ==
    ASSUME RunsInv, StageRemaining
    PROVE  RunsInv'
<1>1. Shape /\ LoopInv(Messages) /\ Placed
  BY RunsFacts DEF RunsInv
<1>2. Staged
  BY <1>1, StageRemainingDoes
<1>3. /\ shutdown \in {"agents", "join"} /\ shutdown' \in {"flush", "deadline"} /\ BackgroundEnded
      /\ UNCHANGED <<loopVars, runs, task, invocation, storeVars, admission, plan, turn, call, commit,
                     twice, failures>>
  BY DEF StageRemaining
<1>4. ~Live(Parent) /\ ~admission
  BY <1>1 DEF StageRemaining, Placed, ShutdownStages
<1>5. /\ \A c \in Starters : ~Starting(c)
      /\ \A a \in Agents : task[a].at \in {"none", "done"}
  BY <1>3, <1>4, AllEnded DEF Ended
<1>6. LoopInv(Messages)' /\ ChildrenKept /\ ParentKept /\ EdgesKept /\ UNCHANGED <<loop, edge>>
  BY <1>1, <1>3, LoopKept, Unmoved DEF storeVars, loopVars
<1>7. StartingAlone'
  BY <1>3, <1>5 DEF StartingAlone, Starting
<1>8. TasksPlaced'
  BY <1>3, <1>5 DEF TasksPlaced, TaskPlaced
<1>9. SlotsDurable' /\ SlotsBound'
  <2>1. \A a \in Agents : slot[a].phase \in {"vacant", "active", "pending"} /\ slot[a].durable \in BOOLEAN
    BY <1>1 DEF Shape, SlotRecords
  <2>2. SlotsDurable'
    BY <1>1, <1>2, <1>3, <1>6 DEF Placed, SlotsDurable, Staged
  <2>3. ASSUME NEW a \in Agents, slot'[a].phase # "vacant", ~slot'[a].durable
        PROVE  slot'[a] = slot[a]
    BY <1>2, <2>1, <2>3 DEF Staged
  <2>4. SlotsBound'
    BY <1>1, <1>3, <1>6, <2>3 DEF Placed, SlotsBound, Unbound
  <2> QED
    BY <2>2, <2>4
<1>10. ShutdownStages'
  <2>1. \A a \in Agents : slot[a].phase \in {"vacant", "active", "pending"} /\ slot[a].durable \in BOOLEAN
    BY <1>1 DEF Shape, SlotRecords
  <2> QED
    BY <1>2, <1>3, <1>4, <1>6, <2>1 DEF ShutdownStages, Staged, Live
<1>11. Placed'
  BY <1>1, <1>3, <1>6, <1>7, <1>8, <1>9, <1>10, Frames DEF Placed
<1>12. Shape'
  BY <1>1, <1>2, <1>3 DEF Shape, Staged, storeVars
<1> QED
  BY <1>6, <1>11, <1>12, RunsStep

LEMMA DropsKeep ==
    ASSUME RunsInv, NEW dropped, dropped \subseteq Committers, DropCommits(dropped)
    PROVE  /\ commit' \in [Committers -> CommitRecords] /\ twice' \subseteq Agents \X (1..MaxRuns)
           /\ \A w \in Committers : commit'[w] = IF w \in dropped THEN NoCommit ELSE commit[w]
           /\ UNCHANGED <<runs, edge>> => CommitsPlaced'
<1>1. Shape /\ Placed
  BY RunsFacts DEF RunsInv
<1>2. \A w \in Committers : commit'[w] = IF w \in dropped THEN NoCommit ELSE commit[w]
  BY DEF DropCommits
<1>3. commit' \in [Committers -> CommitRecords]
  BY <1>1, NoCommits DEF DropCommits, Shape
<1>4. Orphans(dropped) \subseteq Agents \X (1..MaxRuns)
  <2>1. ASSUME NEW w \in Committers, commit[w].at = "committed"
        PROVE  commit[w].agent \in Agents /\ commit[w].run \in 1..MaxRuns
    <3>1. commit[w].agent \in Agents /\ commit[w].run \in 1..runs[commit[w].agent]
      BY <1>1, <2>1 DEF Placed, CommitsPlaced, Busy
    <3>2. runs[commit[w].agent] \in 0..MaxRuns
      BY <1>1, <3>1 DEF Shape
    <3> QED
      BY <3>1, <3>2, AgentAssumption
  <2> QED
    BY <2>1 DEF Orphans
<1>5. NoCommit.at = "none"
  BY DEF NoCommit
<1>6. UNCHANGED <<runs, edge>> => CommitsPlaced'
  BY <1>1, <1>2, <1>5 DEF Placed, CommitsPlaced, Busy
<1> QED
  BY <1>1, <1>2, <1>3, <1>4, <1>6 DEF DropCommits, Shape

\* A forced shutdown drops the graceful one and its flush.
LEMMA UpgradeShutdownKeeps ==
    ASSUME RunsInv, UpgradeShutdown
    PROVE  RunsInv'
<1>1. {"flush"} \subseteq Committers
  BY Names
<1>2. UNCHANGED <<runs, edge>>
  BY DEF UpgradeShutdown, slotVars, storeVars
<1>3. /\ commit' \in [Committers -> CommitRecords] /\ CommitsPlaced'
      /\ twice' \subseteq Agents \X (1..MaxRuns)
  BY <1>1, <1>2, DropsKeep DEF UpgradeShutdown
<1> QED
  BY <1>3, CancelsKeep DEF UpgradeShutdown

\* What an abort does to a call: nothing, or it ends, or it is dropped behind the
\* commit of the edge.
CallDropped(c) ==
    \/ ~(c \in ToolCalls /\ InFlight(c)) /\ call'[c] = call[c]
    \/ /\ c \in ToolCalls /\ InFlight(c) /\ call[c].at # "created" /\ call'[c].at = "ended"
    \/ /\ c \in ToolCalls /\ call[c].at = "created" /\ call'[c].at = "dropped"
       /\ call'[c].agent = call[c].agent

LEMMA AbortDrops ==
    ASSUME Shape, AbortTasks
    PROVE  call' \in [Calls -> CallRecords] /\ \A c \in Calls : CallDropped(c)
<1>1. PICK k : k = [c \in Calls |-> [call[c] EXCEPT !.at = IF call[c].at = "created" THEN "dropped"
                                                           ELSE "ended"]]
  OBVIOUS
<1>2. \A c \in Calls : /\ call[c] \in CallRecords /\ k[c] \in CallRecords
                       /\ k[c].at = IF call[c].at = "created" THEN "dropped" ELSE "ended"
                       /\ k[c].agent = call[c].agent
  BY <1>1 DEF Shape, CallRecords
<1>3. call' = [c \in Calls |-> IF c \in ToolCalls /\ InFlight(c) THEN k[c] ELSE call[c]]
  BY <1>1 DEF AbortTasks
<1>4. \A c \in Calls : call'[c] = IF c \in ToolCalls /\ InFlight(c) THEN k[c] ELSE call[c]
  BY <1>3
<1>5. \A c \in Calls : call[c].at = "created" => InFlight(c)
  BY DEF InFlight
<1>6. \A c \in Calls : CallDropped(c)
  BY <1>2, <1>4, <1>5 DEF CallDropped
<1> QED
  BY <1>2, <1>3, <1>6

\* A forced shutdown drops the Turn, its calls and the child tasks.
LEMMA AbortTasksKeeps ==
    ASSUME RunsInv, AbortTasks
    PROVE  RunsInv'
<1>1. Shape /\ LoopInv(Messages) /\ LoopType(Messages) /\ Placed
  BY RunsFacts DEF RunsInv
<1>2. /\ shutdown = "join" /\ DropCommits(Committers \ (Closes \cup {"flush"}))
      /\ UNCHANGED <<signal, context, owed, slot, runs, invocation, storeVars, downVars, plan, turn,
                     failures>>
  BY DEF AbortTasks
<1>3. /\ task' \in [Agents -> TaskRecords]
      /\ \A a \in Agents : task'[a].at \in {"none", "done"}
  <2>1. ASSUME NEW a \in Agents
        PROVE  LET t == IF Ended(a) THEN task[a] ELSE [task[a] EXCEPT !.at = "done"] IN
               t \in TaskRecords /\ t.at \in {"none", "done"}
    BY <1>1 DEF Shape, TaskRecords, Ended
  <2>2. task' = [a \in Agents |-> IF Ended(a) THEN task[a] ELSE [task[a] EXCEPT !.at = "done"]]
    BY DEF AbortTasks
  <2> QED
    BY <2>1, <2>2
<1>4. /\ call' \in [Calls -> CallRecords]
      /\ \A c \in Calls : CallDropped(c)
  BY <1>1, AbortDrops
<1>5. /\ loop' \in [Runs -> LoopRecords]
      /\ \A r \in Runs : \/ Live(r) /\ loop'[r].at = "returned" /\ loop'[r].outcome = "none"
                         \/ ~Live(r) /\ loop'[r] = loop[r]
  <2>1. ASSUME NEW r \in Runs
        PROVE  LET l == [loop[r] EXCEPT !.at = "returned", !.outcome = "none"] IN
               /\ loop[r] \in LoopRecords /\ l \in LoopRecords
               /\ l.at = "returned" /\ l.outcome = "none"
    BY <1>1 DEF LoopType, LoopRecords, Locations, Outcomes
  <2>2. loop' = [r \in Runs |-> IF Live(r) THEN [loop[r] EXCEPT !.at = "returned", !.outcome = "none"]
                                ELSE loop[r]]
    BY DEF AbortTasks
  <2> QED
    BY <2>1, <2>2
<1>6. /\ input' \in [Runs -> Buffers(Messages)]
      /\ \A r \in Runs : /\ Exact(input'[r]) /\ input'[r].closed
                         /\ input'[r].injected = <<>> /\ input'[r].steered = <<>>
  <2>1. ASSUME NEW r \in Runs
        PROVE  /\ Dropped(input[r]) \in Buffers(Messages) /\ Exact(Dropped(input[r]))
               /\ Dropped(input[r]).closed
               /\ Dropped(input[r]).injected = <<>> /\ Dropped(input[r]).steered = <<>>
    <3>1. input[r] \in Buffers(Messages)
      BY <1>1, LoopFields
    <3> QED
      BY <3>1, DroppedExact
  <2>2. input' = [r \in Runs |-> Dropped(input[r])]
    BY DEF AbortTasks
  <2>3. \A r \in Runs : input'[r] = Dropped(input[r])
    BY <2>2
  <2>4. input' \in [Runs -> Buffers(Messages)]
    BY <2>1, <2>2
  <2> QED
    BY <2>1, <2>3, <2>4
<1>7. LoopInv(Messages)'
  <2>1. LoopType(Messages)'
    BY <1>1, <1>2, <1>5, <1>6 DEF LoopType
  <2>2. ASSUME NEW r \in Runs PROVE Heard(r)'
    <3>1. Heard(r)
      BY <1>1 DEF LoopInv
    <3>2. loop'[r].at \in {"idle", "returned"}
      BY <1>5 DEF Live
    <3>3. loop'[r].at = "returned" /\ loop'[r].outcome = "normal" => owed'[r] = {}
      BY <1>2, <1>5, <3>1 DEF Heard
    <3>4. /\ input'[r].closed /\ input'[r].injected = <<>> /\ input'[r].steered = <<>>
      BY <1>6
    <3> QED
      BY <3>2, <3>3, <3>4 DEF Heard
  <2> QED
    BY <1>6, <2>1, <2>2 DEF LoopInv
<1>8. /\ commit' \in [Committers -> CommitRecords] /\ twice' \subseteq Agents \X (1..MaxRuns)
      /\ CommitsPlaced'
  BY <1>2, DropsKeep DEF storeVars
<1>9. UNCHANGED <<edge, shutdown, admission>>
  BY <1>2 DEF storeVars, downVars
<1>10. CallsPlaced'
  <2>1. \A c \in ToolCalls : ~InFlight(c)'
    BY <1>4, Names DEF InFlight, CallDropped
  <2>2. \A c \in Calls :
           call'[c].at \in {"creating", "created", "spawning", "inline", "retrying", "loading"} =>
               call'[c] = call[c]
    BY <1>4 DEF CallDropped
  <2> QED
    BY <1>1, <1>9, <2>1, <2>2, Names DEF Placed, CallsPlaced
<1>11. StartingAlone'
  BY <1>4, Names DEF StartingAlone, Starting, InFlight, CallDropped
<1>12. TasksPlaced'
  BY <1>3 DEF TasksPlaced, TaskPlaced
<1>13. SlotsDurable' /\ SlotsBound'
  <2>1. \A c \in Spawns : call[c].at \in {"created", "dropped"} =>
            call'[c].at \in {"created", "dropped"} /\ call'[c].agent = call[c].agent
    BY <1>4, Names DEF CallDropped, InFlight
  <2>2. SlotsBound'
    BY <1>1, <1>2, <1>9, <2>1 DEF Placed, SlotsBound, Unbound
  <2> QED
    BY <1>1, <1>2, <1>9, <2>2, Frames, Unmoved
<1>14. ShutdownStages'
  BY <1>1, <1>2, <1>9 DEF Placed, ShutdownStages
<1>15. Placed'
  BY <1>8, <1>10, <1>11, <1>12, <1>13, <1>14 DEF Placed
<1>16. Shape'
  BY <1>1, <1>2, <1>3, <1>4, <1>8 DEF Shape, storeVars, downVars
<1> QED
  BY <1>7, <1>15, <1>16, RunsStep

\* Committers and the shutdown move; slots, tasks, calls and edges do not.
LEMMA FlushingKeeps ==
    ASSUME RunsInv, UNCHANGED <<loopVars, slotVars, storeVars, admission, plan, turn, call, failures>>,
           commit' \in [Committers -> CommitRecords], CommitsPlaced',
           twice' \subseteq Agents \X (1..MaxRuns), flush' \subseteq Agents,
           shutdown \in {"flush", "deadline"}, shutdown' \in {"flush", "deadline", "closed"}
    PROVE  RunsInv'
<1>1. Shape /\ LoopInv(Messages) /\ Placed
  BY RunsFacts DEF RunsInv
<1>2. /\ LoopInv(Messages)' /\ ChildrenKept /\ ParentKept /\ SlotsKept /\ EdgesKept /\ LinksKept
      /\ UNCHANGED <<runs, task, slot, loop>>
  BY <1>1, LoopKept, Unmoved DEF slotVars, storeVars, loopVars
<1>3. ShutdownStages'
  BY <1>1, <1>2 DEF Placed, ShutdownStages, Live
<1>4. Placed'
  BY <1>1, <1>2, <1>3, Frames DEF Placed
<1>5. Shape'
  BY <1>1 DEF Shape, slotVars, storeVars
<1> QED
  BY <1>2, <1>4, <1>5, RunsStep

\* The next terminal of the snapshot is retried, if it is still pending.
LEMMA FlushNextDoes ==
    ASSUME RunsInv, NEW a \in Agents, FlushNext(a)
    PROVE  \/ UNCHANGED commit
           \/ /\ slot[a].phase = "pending"
              /\ \E v : /\ CommitSet("flush", v) /\ Works(v)
                        /\ v.at = "locking" /\ v.agent = a /\ v.run = runs[a]
<1>1. Shape /\ Placed /\ "flush" \in Committers
  BY RunsFacts, Names DEF RunsInv
<1>2. CASE slot[a].phase # "vacant"
  <2>1. slot[a].phase = "pending"
    BY <1>1, <1>2 DEF FlushNext, Placed, ShutdownStages, Shape, SlotRecords
  <2> QED
    BY <1>1, <1>2, <2>1, RetryMoves DEF FlushNext
<1> QED
  BY <1>2 DEF FlushNext

LEMMA FlushNextKeeps ==
    ASSUME RunsInv, NEW a \in Agents, FlushNext(a)
    PROVE  RunsInv'
<1>1. Shape /\ Placed /\ "flush" \in Committers
  BY RunsFacts, Names DEF RunsInv
<1>2. /\ UNCHANGED <<loopVars, slotVars, storeVars, admission, shutdown, plan, turn, call, twice, failures>>
      /\ shutdown \in {"flush", "deadline"} /\ flush' = flush \ {a}
  BY DEF FlushNext
<1>3. UNCHANGED runs /\ EdgesKept
  BY <1>2, Unmoved DEF slotVars, storeVars
<1>4. commit' \in [Committers -> CommitRecords] /\ CommitsPlaced'
  <2>1. CASE UNCHANGED commit
    BY <1>1, <1>3, <2>1, Frames DEF Shape
  <2>2. CASE \E v : CommitSet("flush", v) /\ Works(v)
    <3>1. PICK v : CommitSet("flush", v) /\ Works(v)
      BY <2>2
    <3> QED
      BY <1>1, <1>3, <3>1, CommitPlaces DEF CommitSet
  <2> QED
    BY <2>1, <2>2, FlushNextDoes
<1>5. twice' \subseteq Agents \X (1..MaxRuns) /\ flush' \subseteq Agents
  BY <1>1, <1>2 DEF Shape
<1> QED
  BY <1>2, <1>4, <1>5, FlushingKeeps

LEMMA CloseStateKeeps ==
    ASSUME RunsInv, CloseState
    PROVE  RunsInv'
<1>1. Shape /\ Placed /\ {"flush"} \subseteq Committers
  BY RunsFacts, Names DEF RunsInv
<1>2. /\ UNCHANGED <<loopVars, slotVars, storeVars, admission, plan, turn, call, failures>>
      /\ shutdown \in {"flush", "deadline"} /\ shutdown' = "closed" /\ flush' = {}
  BY DEF CloseState
<1>3. UNCHANGED <<runs, edge>> /\ EdgesKept
  BY <1>2, Unmoved DEF slotVars, storeVars
<1>4. /\ commit' \in [Committers -> CommitRecords] /\ CommitsPlaced'
      /\ twice' \subseteq Agents \X (1..MaxRuns)
  <2>1. CASE UNCHANGED <<commit, twice>>
    BY <1>1, <1>3, <2>1, Frames DEF Shape
  <2>2. CASE DropCommits({"flush"})
    BY <1>1, <1>3, <2>2, DropsKeep
  <2> QED
    BY <2>1, <2>2 DEF CloseState
<1> QED
  BY <1>2, <1>4, FlushingKeeps

LEMMA StutterKeeps ==
    ASSUME RunsInv, UNCHANGED vars
    PROVE  RunsInv'
<1>1. LoopInv(Messages) /\ UNCHANGED loopVars
  BY RunsFacts DEF vars
<1>2. LoopInv(Messages)' /\ ChildrenKept /\ ParentKept
  BY <1>1, LoopKept, Unmoved
<1> QED
  BY <1>2, ControlOnly DEF vars

LEMMA RunsNext ==
    ASSUME RunsInv, [Next]_vars
    PROVE  RunsInv'
<1>1. CASE ParentNext
  BY <1>1, StartTurnKeeps, ParentStepKeeps, SteerTurnKeeps, AbortTurnKeeps DEF ParentNext
<1>2. CASE CallNext
  BY <1>2, SpawnAgentKeeps, ChildCreatedKeeps, ChildLinkedKeeps, ChildNotCreatedKeeps, SendMessageKeeps,
     ContinueAgentKeeps, ChildSpawnedKeeps, InlineReturnsKeeps, CloseAgentKeeps, ClosePersistedKeeps,
     RetriedKeeps, WaitReadyKeeps, ClaimPageKeeps, InjectPageKeeps, ResetPageKeeps DEF CallNext, Starters
<1>3. CASE CommitNext
  BY <1>3, LockCommitKeeps, CommitTerminalKeeps, CommitFailsKeeps, RemoveSlotKeeps DEF CommitNext
<1>4. CASE ChildNext
  BY <1>4, OpenChildKeeps, ChildOpenedKeeps, ChildStepKeeps, ChildEndsKeeps, ChildRefusedKeeps,
     ChildDoneKeeps DEF ChildNext
<1>5. CASE ShutdownNext
  BY <1>5, ShutdownBeginsKeeps, UpgradeShutdownKeeps, StageRemainingKeeps, AbortTasksKeeps,
     FlushNextKeeps, CloseStateKeeps DEF ShutdownNext
<1>6. CASE Finished \/ UNCHANGED vars
  BY <1>6, StutterKeeps DEF Finished
<1> QED
  BY <1>1, <1>2, <1>3, <1>4, <1>5, <1>6 DEF Next

LEMMA RunsInvariant == Spec => []RunsInv
<1>1. Init => RunsInv
  BY RunsInit
<1>2. RunsInv /\ [Next]_vars => RunsInv'
  BY RunsNext
<1> QED
  BY <1>1, <1>2, PTL DEF Spec

\* The variables of the supervisor, the calls, the store and the loops keep their
\* types.
THEOREM AgentTypesHold == Spec => []TypeOK
BY RunsInvariant, PTL DEF RunsInv

\* accepted_items and accepted_bytes count what is in the two queues of every run's
\* control input, and never pass the limits (admit, control.rs:59), whatever the
\* user, the tools and the loops do to it.
THEOREM BuffersStayExact == Spec => []BufferExact
<1>1. RunsInv => BufferExact
  BY DEF RunsInv, LoopInv, BufferExact
<1> QED
  BY <1>1, RunsInvariant, PTL

\* A run that ends Normal was given every message its control input accepted before
\* the loop's last drain (loop.rs:204-223).
THEOREM InputIsHeard == Spec => []AcceptedInputHeard
<1>1. RunsInv => AcceptedInputHeard
  BY DEF RunsInv, LoopInv, Heard, AcceptedInputHeard
<1> QED
  BY <1>1, RunsInvariant, PTL

-----------------------------------------------------------------------------
(* The second layer: terminals. *)

PhasesKept == \A a \in Agents : slot'[a].phase = slot[a].phase
MailKept   == /\ DOMAIN mailbox' = DOMAIN mailbox
              /\ \A i \in DOMAIN mailbox :
                    mailbox'[i].agent = mailbox[i].agent /\ mailbox'[i].run = mailbox[i].run
\* Edges stay, are closed, or are opened for a run that has begun.
EdgesMoved == \A a \in Agents :
                 \/ edge'[a] = edge[a]
                 \/ edge'[a] = "closed" /\ edge[a] # "none"
                 \/ edge'[a] = "open" /\ slot[a].phase = "active" /\ (edge[a] = "none" => runs[a] = 1)
\* A call leaves retry_terminal when the retry is over, and a dropped spawn_agent
\* stays dropped.
UnlinkedKept == \A a \in Agents : Unlinked(a) => Unlinked(a)'
RetriesKept ==
    /\ UnlinkedKept
    /\ \A c \in Sends \cup Closes :
          call[c].at = "retrying" => \/ call'[c].at = "retrying"
                                     \/ commit[c].at \in {"none", "failed"}

\* Holds and Rows after the step, of the run it is given.
HoldsNext(w, a, run) ==
    commit'[w].agent = a /\ commit'[w].run = run /\ commit'[w].at \in {"holding", "committed"}
RowsNext(a, run) == {i \in DOMAIN mailbox' : mailbox'[i].agent = a /\ mailbox'[i].run = run}

LEMMA RowsKept ==
    ASSUME MailKept
    PROVE  \A a, run : Rows(a, run)' = Rows(a, run)
BY DEF MailKept, Rows

LEMMA MailKeeps ==
    /\ UNCHANGED mailbox => MailKept
    /\ UNCHANGED edge => EdgesMoved
    /\ UNCHANGED slot => PhasesKept
    /\ UNCHANGED call => RetriesKept /\ UnlinkedKept
BY DEF MailKept, EdgesMoved, PhasesKept, RetriesKept, UnlinkedKept, Unlinked

\* Nothing that the terminals depend on moves.
LEMMA TerminalFrame ==
    ASSUME RunsInv, TerminalInv, UNCHANGED <<commit, runs, twice>>,
           PhasesKept, MailKept, EdgesMoved, RetriesKept
    PROVE  TerminalInv'
<1>1. Shape /\ Placed /\ \A a, run : Rows(a, run)' = Rows(a, run)
  BY RunsFacts, RowsKept DEF RunsInv
<1>2. CommitsAlone'
  <2>1. ASSUME NEW w \in Committers, commit[w].at \in {"holding", "committed"}
        PROVE  /\ slot'[commit[w].agent].phase = "pending" /\ runs[commit[w].agent] = commit[w].run
               /\ \A v \in Committers : Holds(v, commit[w].agent, commit[w].run) => v = w
    <3>1. commit[w].agent \in Agents
      BY <1>1, <2>1 DEF Placed, CommitsPlaced, Busy
    <3> QED
      BY <2>1, <3>1 DEF TerminalInv, CommitsAlone, PhasesKept
  <2>2. ASSUME NEW w \in Committers, commit[w].at = "committed"
        PROVE  Rows(commit[w].agent, commit[w].run) # {} /\ edge'[commit[w].agent] = "closed"
    <3>1. commit[w].agent \in Agents
      BY <1>1, <2>2 DEF Placed, CommitsPlaced, Busy
    <3> QED
      BY <2>2, <3>1 DEF TerminalInv, CommitsAlone, EdgesMoved
  <2>3. ASSUME NEW w \in Committers, w \in Agents, Busy(w) PROVE commit[w].agent = w
    BY <2>3 DEF TerminalInv, CommitsAlone
  <2>4. ASSUME NEW w \in Committers, w \in Sends \cup Closes, call'[w].at # "retrying"
        PROVE  commit[w].at \in {"none", "failed"}
    BY <2>4 DEF TerminalInv, CommitsAlone, RetriesKept
  <2> QED
    BY <1>1, <2>1, <2>2, <2>3, <2>4 DEF CommitsAlone, Holds, Busy
<1>3. RowsOnce'
  <2>1. \A i \in DOMAIN mailbox' : mailbox'[i].run \in 1..runs'[mailbox'[i].agent]
    BY DEF TerminalInv, RowsOnce, MailKept
  <2>2. \A i, j \in DOMAIN mailbox' :
           /\ i # j /\ mailbox'[i].agent = mailbox'[j].agent /\ mailbox'[i].run = mailbox'[j].run
           => <<mailbox'[i].agent, mailbox'[i].run>> \in twice'
    BY DEF TerminalInv, RowsOnce, MailKept
  <2>3. ASSUME NEW a \in Agents, slot'[a].phase # "vacant", Rows(a, runs[a]) # {},
               <<a, runs[a]>> \notin twice
        PROVE  \E w \in Committers :
                  commit[w].at = "committed" /\ commit[w].agent = a /\ commit[w].run = runs[a]
    BY <2>3 DEF TerminalInv, RowsOnce, PhasesKept
  <2> QED
    BY <1>1, <2>1, <2>2, <2>3 DEF RowsOnce
<1>4. RowsComplete'
  <2>1. ASSUME NEW a \in Agents, edge'[a] # "none", ~Unlinked(a)', NEW run \in 1..runs[a]
        PROVE  Rows(a, run) # {} \/ (run = runs[a] /\ slot[a].phase # "vacant")
    <3>1. CASE edge[a] # "none"
      BY <2>1, <3>1 DEF TerminalInv, RowsComplete, RetriesKept, UnlinkedKept
    <3>2. CASE edge[a] = "none"
      BY <2>1, <3>2 DEF EdgesMoved
    <3> QED
      BY <3>1, <3>2
  <2> QED
    BY <1>1, <2>1 DEF RowsComplete, PhasesKept
<1>5. EdgesClosed'
  BY DEF TerminalInv, EdgesClosed, EdgesMoved, PhasesKept, RetriesKept, UnlinkedKept
<1> QED
  BY <1>2, <1>3, <1>4, <1>5 DEF TerminalInv

LEMMA TerminalInit == ASSUME Init PROVE TerminalInv
<1>1. mailbox = <<>> /\ DOMAIN mailbox = {}
  BY DEF Init
<1>2. CommitsAlone
  BY DEF Init, NoCommit, CommitsAlone, Busy
<1>3. RowsOnce
  BY <1>1 DEF RowsOnce, Rows
<1>4. RowsComplete /\ EdgesClosed
  BY DEF Init, RowsComplete, EdgesClosed
<1> QED
  BY <1>2, <1>3, <1>4 DEF TerminalInv

-----------------------------------------------------------------------------
(* The second layer: retry_terminal. *)

\* A committer that holds no run and has committed none moves, and asks for no
\* run or for one whose slot is or turns pending; the slots only turn pending.
LEMMA RetryTerminal ==
    ASSUME RunsInv, TerminalInv, NEW w \in Committers, NEW v, CommitSet(w, v),
           commit[w].at # "committed", v.at \notin {"holding", "committed"},
           w \in Agents /\ v.at = "locking" => v.agent = w,
           w \in Sends \cup Closes /\ call'[w].at # "retrying" => v.at \in {"none", "failed"},
           \A c \in Sends \cup Closes : c # w => (call'[c].at = call[c].at),
           \A a \in Agents : \/ slot'[a].phase = slot[a].phase
                             \/ slot[a].phase = "active" /\ slot'[a].phase = "pending",
           UnlinkedKept, UNCHANGED <<runs, mailbox, edge, twice>>
    PROVE  TerminalInv'
<1>1. Shape /\ Placed
  BY RunsFacts DEF RunsInv
<1>2. \A a, run : Rows(a, run)' = Rows(a, run)
  BY RowsKept, MailKeeps
<1>3. \A u \in Committers \ {w} : commit'[u] = commit[u]
  BY DEF CommitSet
<1>4. commit'[w] = v
  BY DEF CommitSet
<1>5. CommitsAlone'
  <2>1. ASSUME NEW u \in Committers, commit'[u].at \in {"holding", "committed"}
        PROVE  /\ u # w /\ commit'[u] = commit[u] /\ commit[u].agent \in Agents
               /\ slot'[commit[u].agent].phase = "pending" /\ runs[commit[u].agent] = commit[u].run
               /\ \A x \in Committers : Holds(x, commit[u].agent, commit[u].run)' => x = u
    <3>1. u # w /\ commit'[u] = commit[u]
      BY <1>3, <1>4, <2>1
    <3>2. commit[u].agent \in Agents /\ slot[commit[u].agent].phase = "pending"
      BY <1>1, <2>1, <3>1 DEF Placed, CommitsPlaced, Busy, TerminalInv, CommitsAlone
    <3>3. slot'[commit[u].agent].phase = "pending" /\ runs[commit[u].agent] = commit[u].run
      BY <2>1, <3>1, <3>2 DEF TerminalInv, CommitsAlone
    <3>4. ASSUME NEW x \in Committers, Holds(x, commit[u].agent, commit[u].run)' PROVE x = u
      <4>1. x # w /\ Holds(x, commit[u].agent, commit[u].run)
        BY <1>3, <1>4, <3>1, <3>4 DEF Holds
      <4> QED
        BY <2>1, <3>1, <4>1 DEF TerminalInv, CommitsAlone
    <3> QED
      BY <3>1, <3>2, <3>3, <3>4
  <2>2. ASSUME NEW u \in Committers, commit'[u].at = "committed"
        PROVE  Rows(commit'[u].agent, commit'[u].run) # {} /\ edge'[commit'[u].agent] = "closed"
    BY <2>1, <2>2 DEF TerminalInv, CommitsAlone
  <2>3. ASSUME NEW u \in Committers, u \in Agents, Busy(u)' PROVE commit'[u].agent = u
    BY <1>3, <1>4, <2>3 DEF TerminalInv, CommitsAlone, Busy
  <2>4. ASSUME NEW u \in Committers, u \in Sends \cup Closes, call'[u].at # "retrying"
        PROVE  commit'[u].at \in {"none", "failed"}
    BY <1>3, <1>4, <2>4 DEF TerminalInv, CommitsAlone
  <2> QED
    BY <1>2, <2>1, <2>2, <2>3, <2>4 DEF CommitsAlone, Holds
<1>6. RowsOnce'
  <2>1. ASSUME NEW a \in Agents, slot'[a].phase # "vacant", Rows(a, runs[a]) # {},
               <<a, runs[a]>> \notin twice
        PROVE  \E u \in Committers :
                  commit'[u].at = "committed" /\ commit'[u].agent = a /\ commit'[u].run = runs[a]
    <3>1. PICK u \in Committers :
             commit[u].at = "committed" /\ commit[u].agent = a /\ commit[u].run = runs[a]
      BY <2>1 DEF TerminalInv, RowsOnce
    <3> QED
      BY <1>3, <3>1
  <2> QED
    BY <1>2, <2>1 DEF TerminalInv, RowsOnce
<1>7. RowsComplete' /\ EdgesClosed'
  BY <1>2 DEF TerminalInv, RowsComplete, EdgesClosed, UnlinkedKept
<1> QED
  BY <1>5, <1>6, <1>7 DEF TerminalInv

LEMMA LockCommitTerminal ==
    ASSUME RunsInv, TerminalInv, NEW w \in Committers, LockCommit(w)
    PROVE  TerminalInv'
<1>1. Shape /\ Placed /\ commit[w] \in CommitRecords
  BY RunsFacts DEF RunsInv, Shape
<1>2. /\ commit[w].at = "locking"
      /\ \A v \in Committers : ~Holds(v, commit[w].agent, commit[w].run)
      /\ UNCHANGED <<runs, mailbox, edge, twice, slot, call>> /\ UnlinkedKept
  BY MailKeeps DEF LockCommit, slotVars, storeVars
<1>3. CASE ~StillPending(w)
  <2>1. CommitSet(w, NoCommit)
    BY <1>1, <1>3, NoCommits, CommitMoved DEF LockCommit
  <2>2. NoCommit.at = "none"
    BY DEF NoCommit
  <2> QED
    BY <1>2, <2>1, <2>2, RetryTerminal
<1>4. CASE StillPending(w)
  <2>1. PICK v : v = [commit[w] EXCEPT !.at = "holding"]
    OBVIOUS
  <2>2. v \in CommitRecords /\ v.at = "holding" /\ v.agent = commit[w].agent /\ v.run = commit[w].run
    BY <1>1, <2>1 DEF CommitRecords
  <2>3. commit' = [commit EXCEPT ![w] = v]
    BY <1>4, <2>1 DEF LockCommit
  <2>4. commit'[w] = v /\ \A u \in Committers \ {w} : commit'[u] = commit[u]
    BY <1>1, <2>2, <2>3, CommitMoved DEF CommitSet
  <2>5. \A a, run : Rows(a, run)' = Rows(a, run)
    BY <1>2, RowsKept, MailKeeps
  <2>6. CommitsAlone'
    <3>1. ASSUME NEW u \in Committers, commit'[u].at \in {"holding", "committed"}
          PROVE  /\ slot[commit'[u].agent].phase = "pending" /\ runs[commit'[u].agent] = commit'[u].run
                 /\ \A x \in Committers : HoldsNext(x, commit'[u].agent, commit'[u].run) => x = u
      <4>1. CASE u = w
        BY <1>2, <1>4, <2>2, <2>4, <4>1 DEF Holds, HoldsNext, StillPending
      <4>2. CASE u # w
        <5>1. commit'[u] = commit[u] /\ Holds(u, commit[u].agent, commit[u].run)
          BY <2>4, <3>1, <4>2 DEF Holds
        <5>2. /\ slot[commit[u].agent].phase = "pending" /\ runs[commit[u].agent] = commit[u].run
              /\ \A x \in Committers : Holds(x, commit[u].agent, commit[u].run) => x = u
          BY <3>1, <5>1 DEF TerminalInv, CommitsAlone
        <5>3. ~(commit[w].agent = commit[u].agent /\ commit[w].run = commit[u].run)
          BY <1>2, <5>1
        <5>4. ASSUME NEW x \in Committers, HoldsNext(x, commit'[u].agent, commit'[u].run) PROVE x = u
          <6>1. x # w
            BY <2>2, <2>4, <5>1, <5>3, <5>4 DEF Holds, HoldsNext
          <6> QED
            BY <2>4, <5>1, <5>2, <5>4, <6>1 DEF Holds, HoldsNext
        <5> QED
          BY <5>1, <5>2, <5>4
      <4> QED
        BY <4>1, <4>2
    <3>2. ASSUME NEW u \in Committers, commit'[u].at = "committed"
          PROVE  Rows(commit'[u].agent, commit'[u].run) # {} /\ edge[commit'[u].agent] = "closed"
      BY <2>2, <2>4, <3>2 DEF TerminalInv, CommitsAlone
    <3>3. ASSUME NEW u \in Committers, u \in Agents, Busy(u)' PROVE commit'[u].agent = u
      BY <1>2, <2>2, <2>4, <3>3 DEF TerminalInv, CommitsAlone, Busy
    <3>4. ASSUME NEW u \in Committers, u \in Sends \cup Closes, call[u].at # "retrying"
          PROVE  commit'[u].at \in {"none", "failed"}
      BY <1>2, <2>2, <2>4, <3>4 DEF TerminalInv, CommitsAlone
    <3> QED
      BY <1>2, <3>1, <3>2, <3>3, <3>4 DEF CommitsAlone, Holds, HoldsNext, Rows
  <2>7. RowsOnce'
    <3>1. \A u \in Committers : commit[u].at = "committed" => commit'[u] = commit[u]
      BY <1>2, <2>4
    <3> QED
      BY <1>2, <2>5, <3>1 DEF TerminalInv, RowsOnce
  <2>8. RowsComplete' /\ EdgesClosed'
    BY <1>2, <2>5 DEF TerminalInv, RowsComplete, EdgesClosed, UnlinkedKept
  <2> QED
    BY <2>6, <2>7, <2>8 DEF TerminalInv
<1> QED
  BY <1>3, <1>4

LEMMA CommitFailsTerminal ==
    ASSUME RunsInv, TerminalInv, NEW w \in Committers, CommitFails(w)
    PROVE  TerminalInv'
<1>1. Shape
  BY RunsFacts
<1>2. PICK v : v = [NoCommit EXCEPT !.at = "failed"]
  OBVIOUS
<1>3. v \in CommitRecords /\ v.at = "failed"
  BY <1>2, NoCommits DEF NoCommit
<1>4. CommitSet(w, v)
  BY <1>1, <1>2, <1>3, CommitMoved DEF CommitFails
<1>5. /\ commit[w].at = "holding" /\ UNCHANGED <<runs, mailbox, edge, twice, slot, call>>
      /\ UnlinkedKept
  BY MailKeeps DEF CommitFails, slotVars, storeVars
<1> QED
  BY <1>3, <1>4, <1>5, RetryTerminal

\* commit_agent_terminal appends the one row that the run had not.
LEMMA CommitTerminalOnce ==
    ASSUME RunsInv, TerminalInv, NEW w \in Committers, CommitTerminal(w)
    PROVE  TerminalInv'
<1>1. Shape /\ Placed /\ commit[w] \in CommitRecords /\ commit[w].at = "holding"
  BY RunsFacts DEF RunsInv, Shape, CommitTerminal
<1>2. PICK a, run, v : a = commit[w].agent /\ run = commit[w].run
                       /\ v = [commit[w] EXCEPT !.at = "committed"]
  OBVIOUS
<1>3. v \in CommitRecords /\ v.agent = a /\ v.run = run /\ v.at = "committed"
  BY <1>1, <1>2 DEF CommitRecords
<1>4. a \in Agents /\ run \in 1..runs[a] /\ runs[a] = run /\ slot[a].phase = "pending"
  BY <1>1, <1>2 DEF Placed, CommitsPlaced, Busy, TerminalInv, CommitsAlone
<1>5. \A u \in Committers : Holds(u, a, run) => u = w
  BY <1>1, <1>2 DEF TerminalInv, CommitsAlone
<1>6. /\ edge' = [edge EXCEPT ![a] = "closed"]
      /\ mailbox' = Append(mailbox, [agent |-> a, run |-> run, delivered |-> "pending"])
      /\ commit' = [commit EXCEPT ![w] = v] /\ UNCHANGED <<slot, runs, call, twice>>
      /\ UnlinkedKept
  BY <1>2, MailKeeps DEF CommitTerminal, slotVars
<1>7. commit'[w] = v /\ \A u \in Committers \ {w} : commit'[u] = commit[u]
  BY <1>1, <1>3, <1>6, CommitMoved DEF CommitSet
<1>8. edge'[a] = "closed" /\ \A b \in Agents \ {a} : edge'[b] = edge[b]
  BY <1>1, <1>4, <1>6 DEF Shape
<1>9. PICK n : n = Len(mailbox) + 1
  OBVIOUS
<1>10. /\ DOMAIN mailbox' = DOMAIN mailbox \cup {n} /\ n \notin DOMAIN mailbox
       /\ mailbox'[n].agent = a /\ mailbox'[n].run = run
       /\ \A i \in DOMAIN mailbox : mailbox'[i] = mailbox[i]
  <2>1. PICK e : e = [agent |-> a, run |-> run, delivered |-> "pending"]
    OBVIOUS
  <2>2. e.agent = a /\ e.run = run
    BY <2>1
  <2>3. runs[a] \in 0..MaxRuns
    BY <1>1, <1>4 DEF Shape
  <2>4. e \in MailRecords
    BY <1>4, <2>1, <2>3, AgentAssumption DEF MailRecords
  <2>5. mailbox \in Seq(MailRecords) /\ mailbox' = Append(mailbox, e)
    BY <1>1, <1>6, <2>1 DEF Shape
  <2>6. Len(mailbox) \in Nat /\ DOMAIN mailbox = 1..Len(mailbox)
    BY <2>5, LenProperties
  <2>7. /\ Len(mailbox') = Len(mailbox) + 1 /\ mailbox' \in Seq(MailRecords)
        /\ mailbox'[Len(mailbox) + 1] = e /\ \A i \in 1..Len(mailbox) : mailbox'[i] = mailbox[i]
    BY <2>4, <2>5, AppendProperties
  <2>8. DOMAIN mailbox' = 1..(Len(mailbox) + 1)
    BY <2>7, LenProperties
  <2> QED
    BY <1>9, <2>2, <2>6, <2>7, <2>8
<1>11. \A b, k : Rows(b, k) \subseteq RowsNext(b, k)
  BY <1>10 DEF Rows, RowsNext
<1>12. \A b, k : ~(b = a /\ k = run) => RowsNext(b, k) = Rows(b, k)
  BY <1>10 DEF Rows, RowsNext
<1>13. n \in RowsNext(a, run)
  BY <1>10 DEF RowsNext
<1>14. Rows(a, run) # {} => <<a, run>> \in twice
  <2>1. SUFFICES ASSUME Rows(a, run) # {}, <<a, run>> \notin twice PROVE FALSE
    OBVIOUS
  <2>2. PICK u \in Committers : commit[u].at = "committed" /\ commit[u].agent = a /\ commit[u].run = run
    BY <1>4, <2>1 DEF TerminalInv, RowsOnce
  <2>3. u = w
    BY <1>5, <2>2 DEF Holds
  <2> QED
    BY <1>1, <2>2, <2>3
<1>15. CommitsAlone'
  <2>1. ASSUME NEW u \in Committers, commit'[u].at \in {"holding", "committed"}
        PROVE  /\ slot[commit'[u].agent].phase = "pending" /\ runs[commit'[u].agent] = commit'[u].run
               /\ commit'[u].agent = commit[u].agent /\ commit'[u].run = commit[u].run
               /\ commit[u].at \in {"holding", "committed"} /\ commit[u].agent \in Agents
               /\ \A x \in Committers : HoldsNext(x, commit'[u].agent, commit'[u].run) => x = u
    <3>1. /\ commit'[u].agent = commit[u].agent /\ commit'[u].run = commit[u].run
          /\ commit[u].at \in {"holding", "committed"}
      BY <1>1, <1>2, <1>3, <1>7, <2>1
    <3>2. \A x \in Committers : HoldsNext(x, commit[u].agent, commit[u].run) => Holds(x, commit[u].agent, commit[u].run)
      <4>1. ASSUME NEW x \in Committers
            PROVE  /\ commit'[x].agent = commit[x].agent /\ commit'[x].run = commit[x].run
                   /\ commit'[x].at \in {"holding", "committed"} => commit[x].at \in {"holding", "committed"}
        <5>1. CASE x = w
          BY <1>1, <1>2, <1>3, <1>7, <5>1
        <5>2. CASE x # w
          BY <1>7, <5>2
        <5> QED
          BY <5>1, <5>2
      <4> QED
        BY <4>1 DEF Holds, HoldsNext
    <3>3. commit[u].agent \in Agents
      BY <1>1, <3>1 DEF Placed, CommitsPlaced, Busy
    <3> QED
      BY <3>1, <3>2, <3>3 DEF TerminalInv, CommitsAlone, Holds
  <2>2. ASSUME NEW u \in Committers, commit'[u].at = "committed"
        PROVE  RowsNext(commit'[u].agent, commit'[u].run) # {} /\ edge'[commit'[u].agent] = "closed"
    <3>1. CASE u = w
      BY <1>3, <1>7, <1>8, <1>13, <3>1
    <3>2. CASE u # w
      <4>1. commit'[u] = commit[u] /\ commit[u].at = "committed" /\ commit[u].agent \in Agents
        BY <1>7, <2>1, <2>2, <3>2
      <4>2. Rows(commit[u].agent, commit[u].run) # {} /\ edge[commit[u].agent] = "closed"
        BY <4>1 DEF TerminalInv, CommitsAlone
      <4> QED
        BY <1>8, <1>11, <4>1, <4>2
    <3> QED
      BY <3>1, <3>2
  <2>3. ASSUME NEW u \in Committers, u \in Agents, Busy(u)' PROVE commit'[u].agent = u
    <3>1. Busy(u) /\ commit'[u].agent = commit[u].agent
      <4>1. CASE u = w
        BY <1>1, <1>2, <1>3, <1>7, <4>1 DEF Busy
      <4>2. CASE u # w
        BY <1>7, <2>3, <4>2 DEF Busy
      <4> QED
        BY <4>1, <4>2
    <3> QED
      BY <2>3, <3>1 DEF TerminalInv, CommitsAlone
  <2>4. ASSUME NEW u \in Committers, u \in Sends \cup Closes, call[u].at # "retrying"
        PROVE  commit'[u].at \in {"none", "failed"}
    BY <1>1, <1>7, <2>4 DEF TerminalInv, CommitsAlone
  <2> QED
    BY <1>6, <2>1, <2>2, <2>3, <2>4 DEF CommitsAlone, Holds, HoldsNext, Rows, RowsNext
<1>16. RowsOnce'
  <2>1. \A i \in DOMAIN mailbox' : mailbox'[i].run \in 1..runs[mailbox'[i].agent]
    BY <1>4, <1>10 DEF TerminalInv, RowsOnce
  <2>2. ASSUME NEW i \in DOMAIN mailbox', NEW j \in DOMAIN mailbox', i # j,
               mailbox'[i].agent = mailbox'[j].agent, mailbox'[i].run = mailbox'[j].run
        PROVE  <<mailbox'[i].agent, mailbox'[i].run>> \in twice
    <3>1. CASE i # n /\ j # n
      BY <1>10, <2>2, <3>1 DEF TerminalInv, RowsOnce
    <3>2. CASE i = n \/ j = n
      <4>1. mailbox'[i].agent = a /\ mailbox'[i].run = run
        BY <1>10, <2>2, <3>2
      <4>2. Rows(a, run) # {}
        BY <1>10, <2>2, <3>2, <4>1 DEF Rows
      <4> QED
        BY <1>14, <4>1, <4>2
    <3> QED
      BY <3>1, <3>2
  <2>3. ASSUME NEW b \in Agents, slot[b].phase # "vacant", RowsNext(b, runs[b]) # {},
               <<b, runs[b]>> \notin twice
        PROVE  \E u \in Committers :
                  commit'[u].at = "committed" /\ commit'[u].agent = b /\ commit'[u].run = runs[b]
    <3>1. CASE b = a
      BY <1>3, <1>4, <1>7, <3>1
    <3>2. CASE b # a
      <4>1. Rows(b, runs[b]) # {}
        BY <1>12, <2>3, <3>2
      <4>2. PICK u \in Committers :
               commit[u].at = "committed" /\ commit[u].agent = b /\ commit[u].run = runs[b]
        BY <2>3, <4>1 DEF TerminalInv, RowsOnce
      <4>3. u # w
        BY <1>1, <4>2
      <4> QED
        BY <1>7, <4>2, <4>3
    <3> QED
      BY <3>1, <3>2
  <2>4. \A b \in Agents : Rows(b, runs[b])' = RowsNext(b, runs[b])
    BY <1>6 DEF Rows, RowsNext
  <2>5. ASSUME NEW b \in Agents, slot'[b].phase # "vacant", Rows(b, runs[b])' # {},
               <<b, runs'[b]>> \notin twice'
        PROVE  \E u \in Committers :
                  commit'[u].at = "committed" /\ commit'[u].agent = b /\ commit'[u].run = runs'[b]
    <3>1. RowsNext(b, runs[b]) # {}
      BY <2>4, <2>5
    <3>2. runs' = runs /\ slot' = slot /\ twice' = twice
      BY <1>6
    <3>3. slot[b].phase # "vacant" /\ <<b, runs[b]>> \notin twice
      BY <2>5, <3>2
    <3>4. PICK u \in Committers :
             commit'[u].at = "committed" /\ commit'[u].agent = b /\ commit'[u].run = runs[b]
      BY <2>3, <3>1, <3>3
    <3> QED
      BY <3>2, <3>4
  <2>6. \A i, j \in DOMAIN mailbox' :
           /\ i # j /\ mailbox'[i].agent = mailbox'[j].agent /\ mailbox'[i].run = mailbox'[j].run
           => <<mailbox'[i].agent, mailbox'[i].run>> \in twice'
    BY <1>6, <2>2
  <2>7. \A i \in DOMAIN mailbox' : mailbox'[i].run \in 1..runs'[mailbox'[i].agent]
    BY <1>6, <2>1
  <2> QED
    BY <2>5, <2>6, <2>7 DEF RowsOnce
<1>17. RowsComplete'
  <2>1. ASSUME NEW b \in Agents, edge'[b] # "none", ~Unlinked(b)', NEW k \in 1..runs[b]
        PROVE  RowsNext(b, k) # {} \/ (k = runs[b] /\ slot[b].phase # "vacant")
    <3>0. ~Unlinked(b)
      BY <1>6, <2>1 DEF UnlinkedKept
    <3>1. CASE b # a
      <4>1. Rows(b, k) # {} \/ (k = runs[b] /\ slot[b].phase # "vacant")
        BY <1>8, <2>1, <3>0, <3>1 DEF TerminalInv, RowsComplete
      <4> QED
        BY <1>11, <4>1
    <3>2. CASE b = a
      <4>1. edge[a] # "none"
        BY <1>1, <1>2 DEF Placed, CommitsPlaced, Busy
      <4>2. Rows(b, k) # {} \/ (k = runs[b] /\ slot[b].phase # "vacant")
        BY <1>4, <3>0, <3>2, <4>1, <2>1 DEF TerminalInv, RowsComplete
      <4> QED
        BY <1>11, <4>2
    <3> QED
      BY <3>1, <3>2
  <2> QED
    BY <1>6, <2>1 DEF RowsComplete, Rows, RowsNext
<1>18. EdgesClosed'
  BY <1>4, <1>6, <1>8 DEF TerminalInv, EdgesClosed, UnlinkedKept
<1> QED
  BY <1>15, <1>16, <1>17, <1>18 DEF TerminalInv

LEMMA RemoveSlotTerminal ==
    ASSUME RunsInv, TerminalInv, NEW w \in Committers, RemoveSlot(w)
    PROVE  TerminalInv'
<1>1. Shape /\ Placed /\ commit[w].at = "committed"
  BY RunsFacts DEF RunsInv, RemoveSlot
<1>2. PICK a : a = commit[w].agent
  OBVIOUS
<1>3. /\ a \in Agents /\ slot[a].phase = "pending" /\ runs[a] = commit[w].run
      /\ Rows(a, runs[a]) # {} /\ edge[a] = "closed"
      /\ \A u \in Committers : Holds(u, a, runs[a]) => u = w
  BY <1>1, <1>2 DEF Placed, CommitsPlaced, Busy, TerminalInv, CommitsAlone
<1>4. /\ slot' = [slot EXCEPT ![a] = Vacant]
      /\ UNCHANGED <<runs, mailbox, edge, twice, call>> /\ UnlinkedKept
  BY <1>2, <1>3, MailKeeps DEF RemoveSlot, StillPending, storeVars
<1>5. slot'[a].phase = "vacant" /\ \A b \in Agents \ {a} : slot'[b] = slot[b]
  BY <1>1, <1>3, <1>4 DEF Shape, Vacant
<1>6. commit'[w] = NoCommit /\ \A u \in Committers \ {w} : commit'[u] = commit[u]
  BY <1>1, NoCommits, CommitMoved DEF RemoveSlot, CommitSet
<1>7. NoCommit.at = "none" /\ \A b, run : Rows(b, run)' = Rows(b, run)
  BY <1>4, RowsKept, MailKeeps DEF NoCommit
<1>8. CommitsAlone'
  <2>1. ASSUME NEW u \in Committers, commit'[u].at \in {"holding", "committed"}
        PROVE  /\ u # w /\ commit'[u] = commit[u] /\ commit[u].agent \in Agents \ {a}
               /\ slot[commit[u].agent].phase = "pending" /\ runs[commit[u].agent] = commit[u].run
               /\ \A x \in Committers : Holds(x, commit[u].agent, commit[u].run) => x = u
    <3>1. u # w /\ commit'[u] = commit[u]
      BY <1>6, <1>7, <2>1
    <3>2. /\ commit[u].agent \in Agents
          /\ slot[commit[u].agent].phase = "pending" /\ runs[commit[u].agent] = commit[u].run
          /\ \A x \in Committers : Holds(x, commit[u].agent, commit[u].run) => x = u
      BY <1>1, <2>1, <3>1 DEF Placed, CommitsPlaced, Busy, TerminalInv, CommitsAlone
    <3>3. commit[u].agent # a
      BY <1>3, <2>1, <3>1, <3>2 DEF Holds
    <3> QED
      BY <3>1, <3>2, <3>3
  <2>2. ASSUME NEW u \in Committers, NEW b, NEW k, Holds(u, b, k)' PROVE Holds(u, b, k)
    BY <2>1, <2>2 DEF Holds
  <2>3. ASSUME NEW u \in Committers, commit'[u].at = "committed"
        PROVE  Rows(commit'[u].agent, commit'[u].run) # {} /\ edge[commit'[u].agent] = "closed"
    BY <2>1, <2>3 DEF TerminalInv, CommitsAlone
  <2>4. ASSUME NEW u \in Committers, u \in Agents, Busy(u)' PROVE commit'[u].agent = u
    BY <1>6, <1>7, <2>4 DEF TerminalInv, CommitsAlone, Busy
  <2>5. ASSUME NEW u \in Committers, u \in Sends \cup Closes, call[u].at # "retrying"
        PROVE  commit'[u].at \in {"none", "failed"}
    BY <1>6, <1>7, <2>5 DEF TerminalInv, CommitsAlone
  <2> QED
    BY <1>4, <1>5, <1>7, <2>1, <2>2, <2>3, <2>4, <2>5 DEF CommitsAlone
<1>9. RowsOnce'
  <2>1. ASSUME NEW b \in Agents, slot'[b].phase # "vacant", Rows(b, runs[b]) # {},
               <<b, runs[b]>> \notin twice
        PROVE  \E u \in Committers :
                  commit'[u].at = "committed" /\ commit'[u].agent = b /\ commit'[u].run = runs[b]
    <3>1. b # a /\ slot[b].phase # "vacant"
      BY <1>5, <2>1
    <3>2. PICK u \in Committers :
             commit[u].at = "committed" /\ commit[u].agent = b /\ commit[u].run = runs[b]
      BY <2>1, <3>1 DEF TerminalInv, RowsOnce
    <3> QED
      BY <1>2, <1>6, <3>1, <3>2
  <2> QED
    BY <1>4, <1>7, <2>1 DEF TerminalInv, RowsOnce
<1>10. RowsComplete'
  <2>1. ASSUME NEW b \in Agents, edge[b] # "none", ~Unlinked(b), NEW k \in 1..runs[b]
        PROVE  Rows(b, k) # {} \/ (k = runs[b] /\ slot'[b].phase # "vacant")
    BY <1>3, <1>5, <2>1 DEF TerminalInv, RowsComplete
  <2> QED
    BY <1>4, <1>7, <2>1 DEF RowsComplete, UnlinkedKept
<1>11. EdgesClosed'
  BY <1>3, <1>4, <1>5 DEF TerminalInv, EdgesClosed, UnlinkedKept
<1> QED
  BY <1>8, <1>9, <1>10, <1>11 DEF TerminalInv

-----------------------------------------------------------------------------
(* The second layer: slots come and go. *)

\* A run begins in a vacant slot: it has no row yet, and the runs before it have.
LEMMA RegisterTerminal ==
    ASSUME RunsInv, TerminalInv, NEW a \in Agents, slot[a].phase = "vacant", Registered(a),
           UNCHANGED <<commit, mailbox, edge, twice>>, RetriesKept
    PROVE  TerminalInv'
<1>1. Shape /\ Placed /\ runs[a] \in Nat
  BY RunsFacts DEF RunsInv, Shape
<1>2. /\ slot'[a].phase = "active" /\ runs'[a] = runs[a] + 1
      /\ \A b \in Agents \ {a} : slot'[b] = slot[b] /\ runs'[b] = runs[b]
  BY DEF Registered
<1>3. CommitsAlone'
  <2>1. ASSUME NEW w \in Committers, commit[w].at \in {"holding", "committed"}
        PROVE  /\ slot'[commit[w].agent].phase = "pending" /\ runs'[commit[w].agent] = commit[w].run
               /\ \A v \in Committers : Holds(v, commit[w].agent, commit[w].run) => v = w
    <3>1. commit[w].agent \in Agents /\ slot[commit[w].agent].phase = "pending"
      BY <1>1, <2>1 DEF Placed, CommitsPlaced, Busy, TerminalInv, CommitsAlone
    <3>2. commit[w].agent # a
      BY <3>1
    <3> QED
      BY <1>2, <2>1, <3>1, <3>2 DEF TerminalInv, CommitsAlone
  <2>2. ASSUME NEW w \in Committers, w \in Sends \cup Closes, call'[w].at # "retrying"
        PROVE  commit[w].at \in {"none", "failed"}
    BY <2>2 DEF TerminalInv, CommitsAlone, RetriesKept
  <2>3. ASSUME NEW w \in Committers, commit[w].at = "committed"
        PROVE  Rows(commit[w].agent, commit[w].run) # {} /\ edge[commit[w].agent] = "closed"
    BY <2>3 DEF TerminalInv, CommitsAlone
  <2>4. ASSUME NEW w \in Committers, w \in Agents, Busy(w) PROVE commit[w].agent = w
    BY <2>4 DEF TerminalInv, CommitsAlone
  <2> QED
    BY <2>1, <2>2, <2>3, <2>4 DEF CommitsAlone, Holds, Busy, Rows
<1>4. RowsOnce'
  <2>1. ASSUME NEW i \in DOMAIN mailbox PROVE mailbox[i].run \in 1..runs'[mailbox[i].agent]
    <3>1. mailbox[i].agent \in Agents
      <4>1. mailbox[i] \in MailRecords
        BY <1>1, ElementOfSeq, LenProperties DEF Shape
      <4> QED
        BY <4>1 DEF MailRecords
    <3>2. mailbox[i].run \in 1..runs[mailbox[i].agent]
      BY DEF TerminalInv, RowsOnce
    <3> QED
      BY <1>1, <1>2, <3>1, <3>2
  <2>2. Rows(a, runs[a] + 1) = {}
    <3>1. \A i \in DOMAIN mailbox : mailbox[i].agent = a => mailbox[i].run \in 1..runs[a]
      BY DEF TerminalInv, RowsOnce
    <3> QED
      BY <1>1, <3>1 DEF Rows
  <2>3. ASSUME NEW b \in Agents, slot'[b].phase # "vacant", Rows(b, runs'[b]) # {},
               <<b, runs'[b]>> \notin twice
        PROVE  \E w \in Committers :
                  commit[w].at = "committed" /\ commit[w].agent = b /\ commit[w].run = runs'[b]
    <3>1. b # a
      BY <1>2, <2>2, <2>3
    <3> QED
      BY <1>2, <2>3, <3>1 DEF TerminalInv, RowsOnce
  <2>4. \A i, j \in DOMAIN mailbox :
           /\ i # j /\ mailbox[i].agent = mailbox[j].agent /\ mailbox[i].run = mailbox[j].run
           => <<mailbox[i].agent, mailbox[i].run>> \in twice
    BY DEF TerminalInv, RowsOnce
  <2>5. \A b \in Agents : Rows(b, runs[b])' = Rows(b, runs'[b])
    BY DEF Rows
  <2> QED
    BY <2>1, <2>3, <2>4, <2>5 DEF RowsOnce
<1>5. RowsComplete'
  <2>1. ASSUME NEW b \in Agents, edge[b] # "none", ~Unlinked(b), NEW k \in 1..runs'[b]
        PROVE  Rows(b, k) # {} \/ (k = runs'[b] /\ slot'[b].phase # "vacant")
    <3>1. CASE b # a
      BY <1>2, <2>1, <3>1 DEF TerminalInv, RowsComplete
    <3>2. CASE b = a /\ k = runs'[a]
      BY <1>2, <3>2
    <3>3. CASE b = a /\ k # runs'[a]
      <4>1. k \in 1..runs[a]
        BY <1>1, <1>2, <2>1, <3>3
      <4> QED
        BY <2>1, <3>3, <4>1 DEF TerminalInv, RowsComplete
    <3> QED
      BY <3>1, <3>2, <3>3
  <2> QED
    BY <2>1 DEF RowsComplete, Rows, RetriesKept, UnlinkedKept
<1>6. EdgesClosed'
  BY <1>2 DEF TerminalInv, EdgesClosed, RetriesKept, UnlinkedKept
<1> QED
  BY <1>3, <1>4, <1>5, <1>6 DEF TerminalInv

\* Active slots turn pending, or are given up when their Agent has no edge or its
\* spawn_agent was dropped.
LEMMA VacateTerminal ==
    ASSUME RunsInv, TerminalInv, UNCHANGED <<commit, runs, mailbox, edge, twice>>, RetriesKept,
           \A a \in Agents : \/ slot'[a].phase = slot[a].phase
                             \/ slot[a].phase = "active" /\ slot'[a].phase = "pending"
                             \/ slot[a].phase = "active" /\ (edge[a] = "none" \/ Unlinked(a))
    PROVE  TerminalInv'
<1>1. Shape /\ Placed
  BY RunsFacts DEF RunsInv
<1>2. CommitsAlone'
  <2>1. ASSUME NEW w \in Committers, commit[w].at \in {"holding", "committed"}
        PROVE  /\ slot'[commit[w].agent].phase = "pending" /\ runs[commit[w].agent] = commit[w].run
               /\ \A v \in Committers : Holds(v, commit[w].agent, commit[w].run) => v = w
    <3>1. commit[w].agent \in Agents /\ slot[commit[w].agent].phase = "pending"
      BY <1>1, <2>1 DEF Placed, CommitsPlaced, Busy, TerminalInv, CommitsAlone
    <3> QED
      BY <2>1, <3>1 DEF TerminalInv, CommitsAlone
  <2>2. ASSUME NEW w \in Committers, w \in Sends \cup Closes, call'[w].at # "retrying"
        PROVE  commit[w].at \in {"none", "failed"}
    BY <2>2 DEF TerminalInv, CommitsAlone, RetriesKept
  <2>3. ASSUME NEW w \in Committers, commit[w].at = "committed"
        PROVE  Rows(commit[w].agent, commit[w].run) # {} /\ edge[commit[w].agent] = "closed"
    BY <2>3 DEF TerminalInv, CommitsAlone
  <2>4. ASSUME NEW w \in Committers, w \in Agents, Busy(w) PROVE commit[w].agent = w
    BY <2>4 DEF TerminalInv, CommitsAlone
  <2> QED
    BY <2>1, <2>2, <2>3, <2>4 DEF CommitsAlone, Holds, Busy, Rows
<1>3. \A a, run : Rows(a, run)' = Rows(a, run)
  BY RowsKept, MailKeeps
<1>4. RowsOnce'
  <2>1. \A a \in Agents : slot'[a].phase # "vacant" => slot[a].phase # "vacant"
    OBVIOUS
  <2> QED
    BY <1>3, <2>1 DEF TerminalInv, RowsOnce
<1>5. RowsComplete' /\ EdgesClosed'
  BY <1>3 DEF TerminalInv, RowsComplete, EdgesClosed, RetriesKept, UnlinkedKept
<1> QED
  BY <1>2, <1>4, <1>5 DEF TerminalInv

\* Futures that held or had committed a run are dropped: their runs are in twice.
LEMMA DropTerminal ==
    ASSUME RunsInv, TerminalInv, NEW dropped, dropped \subseteq Committers, DropCommits(dropped),
           UNCHANGED <<slot, runs, mailbox, edge>>, UnlinkedKept,
           \A c \in (Sends \cup Closes) \ dropped : call'[c] = call[c]
    PROVE  TerminalInv'
<1>1. Shape /\ Placed /\ NoCommit.at = "none"
  BY RunsFacts DEF RunsInv, NoCommit
<1>2. \A w \in Committers : \/ w \in dropped /\ commit'[w] = NoCommit
                            \/ w \notin dropped /\ commit'[w] = commit[w]
  BY DropsKeep
<1>3. \A a, run : Rows(a, run)' = Rows(a, run)
  BY RowsKept, MailKeeps
<1>4. CommitsAlone'
  <2>1. ASSUME NEW w \in Committers, commit'[w].at \in {"holding", "committed"}
        PROVE  /\ commit'[w] = commit[w]
               /\ slot[commit[w].agent].phase = "pending" /\ runs[commit[w].agent] = commit[w].run
               /\ \A v \in Committers : Holds(v, commit[w].agent, commit[w].run) => v = w
    BY <1>1, <1>2, <2>1 DEF TerminalInv, CommitsAlone
  <2>2. ASSUME NEW w \in Committers, commit'[w].at = "committed"
        PROVE  Rows(commit'[w].agent, commit'[w].run) # {} /\ edge[commit'[w].agent] = "closed"
    BY <2>1, <2>2 DEF TerminalInv, CommitsAlone
  <2>3. ASSUME NEW w \in Committers, w \in Agents, Busy(w)' PROVE commit'[w].agent = w
    BY <1>1, <1>2, <2>3 DEF TerminalInv, CommitsAlone, Busy
  <2>4. ASSUME NEW w \in Committers, w \in Sends \cup Closes, call'[w].at # "retrying"
        PROVE  commit'[w].at \in {"none", "failed"}
    <3>1. CASE w \in dropped
      BY <1>1, <1>2, <3>1
    <3>2. CASE w \notin dropped
      BY <1>2, <2>4, <3>2 DEF TerminalInv, CommitsAlone
    <3> QED
      BY <3>1, <3>2
  <2>5. ASSUME NEW v \in Committers, NEW a, NEW run, Holds(v, a, run)' PROVE Holds(v, a, run)
    BY <1>1, <1>2, <2>5 DEF Holds
  <2> QED
    BY <1>3, <2>1, <2>2, <2>3, <2>4, <2>5 DEF CommitsAlone
<1>5. RowsOnce'
  <2>1. ASSUME NEW a \in Agents, slot[a].phase # "vacant", Rows(a, runs[a]) # {},
               <<a, runs[a]>> \notin twice'
        PROVE  \E w \in Committers :
                  commit'[w].at = "committed" /\ commit'[w].agent = a /\ commit'[w].run = runs[a]
    <3>1. <<a, runs[a]>> \notin twice /\ <<a, runs[a]>> \notin Orphans(dropped)
      BY <2>1 DEF DropCommits
    <3>2. PICK w \in Committers :
             commit[w].at = "committed" /\ commit[w].agent = a /\ commit[w].run = runs[a]
      BY <2>1, <3>1 DEF TerminalInv, RowsOnce
    <3>3. w \notin dropped
      BY <3>1, <3>2 DEF Orphans
    <3> QED
      BY <1>2, <3>2, <3>3
  <2>2. twice \subseteq twice'
    BY DEF DropCommits
  <2> QED
    BY <1>3, <2>1, <2>2 DEF TerminalInv, RowsOnce
<1>6. RowsComplete' /\ EdgesClosed'
  BY <1>3 DEF TerminalInv, RowsComplete, EdgesClosed, UnlinkedKept
<1> QED
  BY <1>4, <1>5, <1>6 DEF TerminalInv

-----------------------------------------------------------------------------
(* The second layer: every action. *)

\* The calls that are not in retry_terminal go where they like.
LEMMA CallsGo ==
    ASSUME Shape, NEW c \in Calls, call[c].at \notin {"retrying", "dropped"},
           \A d \in Calls \ {c} : call'[d] = call[d]
    PROVE  RetriesKept
<1>1. \A d \in Spawns : call[d].at = "dropped" => call'[d] = call[d]
  BY Names
<1>2. UnlinkedKept
  BY <1>1 DEF UnlinkedKept, Unlinked
<1> QED
  BY <1>2, Names DEF RetriesKept

LEMMA EndsGo ==
    ASSUME Shape, NEW c \in Calls, NEW v, call' = [call EXCEPT ![c] = v]
    PROVE  \A d \in Calls \ {c} : call'[d] = call[d]
BY DEF Shape

LEMMA EndsAt ==
    ASSUME Shape, NEW c \in Calls, NEW v, call' = [call EXCEPT ![c].at = v]
    PROVE  call'[c].at = v /\ \A d \in Calls \ {c} : call'[d] = call[d]
BY DEF Shape, CallRecords

LEMMA ParentTerminal ==
    ASSUME RunsInv, TerminalInv, ParentNext
    PROVE  TerminalInv'
<1>1. Shape
  BY RunsFacts
<1>2. UNCHANGED <<commit, runs, twice, slot, edge, call>>
  BY DEF ParentNext, StartTurn, ParentStep, SteerTurn, AbortTurn, slotVars, storeVars
<1>3. MailKept
  <2>1. CASE StartTurn
    <3>1. PICK rows : Mark(rows, "prompt")
      <4>1. \A i \in DOMAIN mailbox : mailbox[i].delivered = "pending" <=> i \in PendingRows
        BY DEF PendingRows
      <4>2. mailbox' = [i \in DOMAIN mailbox |->
                           IF mailbox[i].delivered = "pending"
                           THEN [mailbox[i] EXCEPT !.delivered = "prompt"] ELSE mailbox[i]]
        BY <2>1 DEF StartTurn
      <4>3. Mark(PendingRows, "prompt")
        BY <4>1, <4>2, Zenon DEF Mark
      <4> QED
        BY <4>3
    <3> QED
      BY <1>1, <3>1, MarkType DEF MailKept
  <2>2. CASE ParentStep \/ SteerTurn \/ AbortTurn
    BY <2>2, MailKeeps DEF ParentStep, SteerTurn, AbortTurn, storeVars
  <2> QED
    BY <2>1, <2>2 DEF ParentNext
<1>4. PhasesKept /\ EdgesMoved /\ RetriesKept
  BY <1>2, MailKeeps
<1> QED
  BY <1>2, <1>3, <1>4, TerminalFrame

\* A call that only the terminals' frame can see.
LEMMA QuietCall ==
    ASSUME RunsInv, TerminalInv, NEW c \in Calls, call[c].at \notin {"retrying", "dropped"},
           \A d \in Calls \ {c} : call'[d] = call[d],
           UNCHANGED <<commit, runs, twice, edge>>, PhasesKept, MailKept
    PROVE  TerminalInv'
<1>1. RetriesKept
  BY RunsFacts, CallsGo
<1> QED
  BY <1>1, MailKeeps, TerminalFrame

LEMMA SpawnTerminal ==
    ASSUME RunsInv, TerminalInv, NEW c \in Spawns, NEW a \in Agents, SpawnAgent(c, a)
    PROVE  TerminalInv'
<1>1. Shape /\ LoopInv(Messages) /\ Placed /\ c \in Calls
  BY RunsFacts, Names DEF RunsInv
<1>2. call[c].at = "idle" /\ runs[a] = 0 /\ UNCHANGED <<commit, mailbox, edge, twice>>
  BY DEF SpawnAgent, storeVars
<1>3. CASE Ends(c) /\ UNCHANGED slotVars
  <2>1. \A d \in Calls \ {c} : call'[d] = call[d]
    BY <1>1, <1>3, EndsAt DEF Ends
  <2> QED
    BY <1>1, <1>2, <1>3, <2>1, MailKeeps, QuietCall DEF slotVars
<1>4. CASE Register(a, FALSE) /\ call' = [call EXCEPT ![c] = [at |-> "creating", agent |-> a]]
  <2>1. MaxRuns > 0
    BY AgentAssumption, FS_CardinalityType
  <2>2. Registered(a)
    BY <1>1, <1>2, <1>4, <2>1, RegisterKeeps
  <2>3. slot[a].phase = "vacant"
    BY <1>1, <1>2 DEF Placed, SlotsDurable
  <2>4. \A d \in Calls \ {c} : call'[d] = call[d]
    BY <1>1, <1>4, EndsGo
  <2>5. RetriesKept
    BY <1>1, <1>2, <2>4, CallsGo
  <2> QED
    BY <1>2, <2>2, <2>3, <2>5, RegisterTerminal
<1> QED
  BY <1>3, <1>4 DEF SpawnAgent

LEMMA ContinueTerminal ==
    ASSUME RunsInv, TerminalInv, NEW c \in Sends, ContinueAgent(c)
    PROVE  TerminalInv'
<1>1. Shape /\ LoopInv(Messages) /\ Placed /\ c \in Calls
  BY RunsFacts, Names DEF RunsInv
<1>2. PICK a : a = call[c].agent
  OBVIOUS
<1>3. call[c].at = "loading" /\ a \in Agents /\ UNCHANGED <<commit, mailbox, edge, twice>>
  BY <1>1, <1>2 DEF ContinueAgent, Placed, CallsPlaced, storeVars
<1>4. CASE Ends(c) /\ UNCHANGED slotVars
  <2>1. \A d \in Calls \ {c} : call'[d] = call[d]
    BY <1>1, <1>4, EndsAt DEF Ends
  <2> QED
    BY <1>1, <1>3, <1>4, <2>1, MailKeeps, QuietCall DEF slotVars
<1>5. CASE /\ slot[a].phase = "vacant" /\ runs[a] < MaxRuns
           /\ Register(a, TRUE) /\ call' = [call EXCEPT ![c].at = "spawning"]
  <2>1. Registered(a)
    BY <1>1, <1>3, <1>5, RegisterKeeps
  <2>2. \A d \in Calls \ {c} : call'[d] = call[d]
    BY <1>1, <1>5, EndsAt
  <2>3. RetriesKept
    BY <1>1, <1>3, <2>2, CallsGo
  <2> QED
    BY <1>3, <1>5, <2>1, <2>3, RegisterTerminal
<1> QED
  BY <1>2, <1>4, <1>5 DEF ContinueAgent, Deliver

LEMMA CreateTerminal ==
    ASSUME RunsInv, TerminalInv, NEW c \in Spawns, ChildCreated(c) \/ ChildNotCreated(c)
    PROVE  TerminalInv'
<1>1. Shape /\ Placed /\ c \in Calls /\ c \in Starters
  BY RunsFacts, Names DEF RunsInv
<1>2. PICK a : a = call[c].agent
  OBVIOUS
<1>3. call[c].at = "creating" /\ UNCHANGED <<commit, runs, mailbox, twice>>
  BY DEF ChildCreated, ChildNotCreated, slotVars, storeVars
<1>4. a \in Agents /\ edge[a] = "none" /\ runs[a] = 1 /\ slot[a].phase = "active"
  BY <1>1, <1>2, <1>3 DEF Placed, CallsPlaced, StartingAlone, Starting
<1>5. \A d \in Calls \ {c} : call'[d] = call[d]
  BY <1>1, EndsAt DEF ChildCreated, ChildNotCreated, Ends
<1>6. RetriesKept
  BY <1>1, <1>3, <1>5, CallsGo
<1>7. CASE ChildCreated(c)
  <2>1. UNCHANGED slot /\ edge' = [edge EXCEPT ![a] = "open"]
    BY <1>2, <1>7 DEF ChildCreated, slotVars
  <2>2. PhasesKept
    BY <2>1, MailKeeps
  <2>3. EdgesMoved
    BY <1>1, <1>4, <2>1 DEF Shape, EdgesMoved
  <2> QED
    BY <1>3, <1>6, <2>2, <2>3, MailKeeps, TerminalFrame
<1>8. CASE ChildNotCreated(c)
  <2>1. slot' = [slot EXCEPT ![a] = Vacant] /\ UNCHANGED edge
    BY <1>2, <1>8 DEF ChildNotCreated, storeVars
  <2>2. \A b \in Agents : slot'[b].phase = slot[b].phase
                          \/ (slot[b].phase = "active" /\ edge[b] = "none")
    BY <1>1, <1>4, <2>1 DEF Shape
  <2> QED
    BY <1>3, <1>6, <2>1, <2>2, VacateTerminal
<1> QED
  BY <1>7, <1>8

LEMMA LinkTerminal ==
    ASSUME RunsInv, TerminalInv, NEW c \in Spawns, ChildLinked(c)
    PROVE  TerminalInv'
<1>1. Shape /\ Placed /\ c \in Calls
  BY RunsFacts, Names DEF RunsInv
<1>2. PICK a : a = call[c].agent
  OBVIOUS
<1>3. call[c].at = "created" /\ a \in Agents /\ UNCHANGED <<commit, runs, twice, edge, mailbox>>
  BY <1>1, <1>2 DEF ChildLinked, Placed, CallsPlaced, storeVars
<1>4. \A d \in Calls \ {c} : call'[d] = call[d]
  BY <1>1, EndsAt DEF ChildLinked
<1>5. slot' = [slot EXCEPT ![a].durable = TRUE]
  BY <1>2 DEF ChildLinked
<1>6. PhasesKept
  BY <1>1, <1>3, <1>5 DEF Shape, SlotRecords, PhasesKept
<1> QED
  BY <1>1, <1>3, <1>4, <1>6, MailKeeps, QuietCall

LEMMA StartsTerminal ==
    ASSUME RunsInv, TerminalInv, NEW c \in Starters, ChildSpawned(c) \/ InlineReturns(c)
    PROVE  TerminalInv'
<1>1. Shape /\ Placed /\ c \in Calls
  BY RunsFacts, Names DEF RunsInv
<1>2. /\ call[c].at \in {"spawning", "inline"} /\ UNCHANGED <<commit, runs, twice, edge, slot, mailbox>>
  BY DEF ChildSpawned, InlineReturns, slotVars, storeVars
<1>3. \A d \in Calls \ {c} : call'[d] = call[d]
  BY <1>1, EndsAt DEF ChildSpawned, SpawnBackground, InlineReturns, Ends
<1> QED
  BY <1>1, <1>2, <1>3, MailKeeps, QuietCall

LEMMA WaitTerminal ==
    ASSUME RunsInv, TerminalInv, NEW c \in Waits,
           WaitReady(c) \/ ClaimPage(c) \/ InjectPage(c) \/ ResetPage(c)
    PROVE  TerminalInv'
<1>1. Shape /\ c \in Calls
  BY RunsFacts, Names
<1>2. /\ call[c].at \in {"idle", "ready", "claimed", "resetting"}
      /\ UNCHANGED <<commit, runs, twice, edge, slot>>
  BY DEF WaitReady, ClaimPage, InjectPage, ResetPage, slotVars, storeVars
<1>3. PICK at : call' = [call EXCEPT ![c].at = at]
  BY DEF WaitReady, ClaimPage, InjectPage, ResetPage, Ends
<1>4. \A d \in Calls \ {c} : call'[d] = call[d]
  BY <1>1, <1>3, EndsAt
<1>5. MailKept
  <2>1. CASE UNCHANGED mailbox
    BY <2>1, MailKeeps
  <2>2. CASE \E rows : Mark(rows, c) \/ Mark(rows, "pending")
    <3>1. PICK rows : Mark(rows, c) \/ Mark(rows, "pending")
      BY <2>2
    <3> QED
      BY <1>1, <3>1, MarkType DEF MailKept
  <2> QED
    BY <2>1, <2>2 DEF WaitReady, ClaimPage, InjectPage, ResetPage, storeVars
<1> QED
  BY <1>1, <1>2, <1>4, <1>5, MailKeeps, QuietCall

\* A call of the Sends and Closes asks for a pending run's lock.
LEMMA HurryTerminal ==
    ASSUME RunsInv, TerminalInv, NEW c \in Sends \cup Closes, NEW a \in Agents,
           call[c].at = "idle", slot[a].phase = "pending", Retry(c, a),
           call' = [call EXCEPT ![c] = [at |-> "retrying", agent |-> a]],
           UNCHANGED <<runs, mailbox, edge, twice, slot>>
    PROVE  TerminalInv'
<1>1. Shape /\ Placed /\ c \in Calls /\ c \in Committers /\ c \notin Agents
  BY RunsFacts, Names, KindsAssumption DEF RunsInv
<1>2. PICK v : CommitSet(c, v) /\ v.at = "locking"
  BY <1>1, RetryMoves
<1>3. commit[c].at \in {"none", "failed"}
  BY <1>1 DEF TerminalInv, CommitsAlone
<1>4. \A d \in Calls \ {c} : call'[d] = call[d]
  BY <1>1, EndsGo
<1>5. call'[c].at = "retrying"
  BY <1>1 DEF Shape
<1>6. \A d \in Sends \cup Closes : d # c => call'[d].at = call[d].at
  BY <1>4, Names
<1>7. UnlinkedKept
  BY <1>1, <1>4, CallsGo DEF RetriesKept
<1> QED
  BY <1>1, <1>2, <1>3, <1>5, <1>6, <1>7, RetryTerminal

LEMMA SendTerminal ==
    ASSUME RunsInv, TerminalInv, NEW c \in Sends, NEW a \in Agents, SendMessage(c, a)
    PROVE  TerminalInv'
<1>1. Shape /\ c \in Calls
  BY RunsFacts, Names
<1>2. call[c].at = "idle" /\ UNCHANGED <<runs, mailbox, edge, twice, slot>>
  BY DEF SendMessage, slotVars, storeVars
<1>3. CASE /\ slot[a].phase = "pending" /\ Retry(c, a)
           /\ call' = [call EXCEPT ![c] = [at |-> "retrying", agent |-> a]]
  BY <1>2, <1>3, HurryTerminal
<1>4. CASE UNCHANGED commit /\ \E v : call' = [call EXCEPT ![c].at = v] \/ call' = [call EXCEPT ![c] = v]
  <2>1. \A d \in Calls \ {c} : call'[d] = call[d]
    BY <1>1, <1>4, EndsGo, EndsAt
  <2> QED
    BY <1>1, <1>2, <1>4, <2>1, MailKeeps, QuietCall
<1> QED
  BY <1>3, <1>4 DEF SendMessage, Deliver, Ends

LEMMA CloseTerminal ==
    ASSUME RunsInv, TerminalInv, NEW c \in Closes, NEW a \in Agents, CloseAgent(c, a)
    PROVE  TerminalInv'
<1>1. Shape /\ c \in Calls
  BY RunsFacts, Names
<1>2. call[c].at = "idle" /\ UNCHANGED <<runs, mailbox, edge, twice>>
  BY DEF CloseAgent, storeVars
<1>3. CASE /\ slot[a].phase = "pending" /\ Retry(c, a) /\ UNCHANGED slot
           /\ call' = [call EXCEPT ![c] = [at |-> "retrying", agent |-> a]]
  BY <1>2, <1>3, HurryTerminal
<1>4. CASE /\ UNCHANGED commit
           /\ \/ slot' = [slot EXCEPT ![a].status = "shutdown"] /\ call' = [call EXCEPT ![c].at = "ended"]
              \/ UNCHANGED slot /\ call' = [call EXCEPT ![c] = [at |-> "loading", agent |-> a]]
  <2>1. \A d \in Calls \ {c} : call'[d] = call[d]
    BY <1>1, <1>4, EndsGo, EndsAt
  <2>2. PhasesKept
    <3>1. CASE slot' = [slot EXCEPT ![a].status = "shutdown"]
      <4>1. slot \in [Agents -> SlotRecords]
        BY <1>1 DEF Shape
      <4>2. ASSUME NEW b \in Agents PROVE slot'[b].phase = slot[b].phase
        BY <3>1, <4>1 DEF SlotRecords
      <4> QED
        BY <4>2 DEF PhasesKept
    <3>2. CASE UNCHANGED slot
      BY <3>2, MailKeeps
    <3> QED
      BY <1>4, <3>1, <3>2
  <2> QED
    BY <1>1, <1>2, <1>4, <2>1, <2>2, MailKeeps, QuietCall
<1> QED
  BY <1>3, <1>4 DEF CloseAgent, Ends

LEMMA PersistedTerminal ==
    ASSUME RunsInv, TerminalInv, NEW c \in Closes, ClosePersisted(c)
    PROVE  TerminalInv'
<1>1. Shape /\ Placed /\ c \in Calls
  BY RunsFacts, Names DEF RunsInv
<1>2. call[c].at = "loading" /\ UNCHANGED <<commit, runs, mailbox, twice, slot>>
  BY DEF ClosePersisted, slotVars
<1>3. \A d \in Calls \ {c} : call'[d] = call[d]
  BY <1>1, EndsAt DEF ClosePersisted, Ends
<1>4. EdgesMoved
  BY <1>1 DEF ClosePersisted, EdgesMoved, Shape
<1>5. RetriesKept
  BY <1>1, <1>2, <1>3, CallsGo
<1> QED
  BY <1>2, <1>4, <1>5, MailKeeps, TerminalFrame

LEMMA RetriedTerminal ==
    ASSUME RunsInv, TerminalInv, NEW c \in Sends \cup Closes, Retried(c)
    PROVE  TerminalInv'
<1>1. Shape /\ c \in Calls
  BY RunsFacts, Names
<1>2. /\ call[c].at = "retrying" /\ commit[c].at \in {"none", "failed"}
      /\ UNCHANGED <<commit, runs, mailbox, twice, slot, edge>>
  BY DEF Retried, slotVars, storeVars
<1>3. \A d \in Calls \ {c} : call'[d] = call[d]
  BY <1>1, EndsAt DEF Retried
<1>4. RetriesKept
  <2>1. \A d \in Spawns : call[d].at = "dropped" => call'[d] = call[d]
    BY <1>2, <1>3, Names
  <2>2. UnlinkedKept
    BY <2>1 DEF UnlinkedKept, Unlinked
  <2> QED
    BY <1>2, <1>3, <2>2, Names DEF RetriesKept
<1> QED
  BY <1>2, <1>4, MailKeeps, TerminalFrame

-----------------------------------------------------------------------------
(* The second layer: the tasks, the shutdown, and all steps. *)

\* Neither slots nor committers move.
LEMMA ChildQuiet ==
    ASSUME RunsInv, TerminalInv, NEW a \in Agents,
           OpenChild(a) \/ ChildStep(a) \/ ChildDone(a) \/ ChildOpened(a)
    PROVE  TerminalInv'
<1>1. Shape /\ Placed
  BY RunsFacts DEF RunsInv
<1>2. UNCHANGED <<slot, runs, mailbox, call, commit, twice>>
  BY DEF OpenChild, ChildStep, ChildDone, ChildOpened, slotVars, storeVars
<1>3. EdgesMoved
  <2>1. CASE UNCHANGED edge
    BY <2>1, MailKeeps
  <2>2. CASE ChildOpened(a)
    <3>1. slot[a].phase = "active" /\ edge[a] # "none"
      BY <1>1, <2>2 DEF ChildOpened, Placed, TasksPlaced, TaskPlaced, SlotsDurable
    <3>2. edge'[a] = "open" /\ \A b \in Agents \ {a} : edge'[b] = edge[b]
      BY <1>1, <2>2 DEF ChildOpened, Shape
    <3> QED
      BY <3>1, <3>2 DEF EdgesMoved
  <2> QED
    BY <2>1, <2>2 DEF OpenChild, ChildStep, ChildDone, storeVars
<1> QED
  BY <1>2, <1>3, MailKeeps, TerminalFrame

\* finish: an active run has not been committed, so its finalizer is free.
LEMMA FinishTerminal ==
    ASSUME RunsInv, TerminalInv, NEW a \in Agents, NEW status, Finish(a, status),
           task[a].at \in {"spawned", "opening", "running"},
           UNCHANGED <<runs, mailbox, edge, call, twice>>
    PROVE  TerminalInv'
<1>1. Shape /\ Placed /\ a \in Committers
  BY RunsFacts, Names DEF RunsInv
<1>2. slot[a].phase = "active" /\ edge[a] # "none" /\ a \notin Sends \cup Closes
  BY <1>1, KindsAssumption DEF Placed, TasksPlaced, TaskPlaced, SlotsDurable
<1>3. PICK v : CommitSet(a, v) /\ v.at = "locking" /\ v.agent = a
  BY <1>1, <1>2, RetryMoves DEF Finish
<1>4. commit[a].at # "committed"
  BY <1>1, <1>2 DEF TerminalInv, CommitsAlone, Busy
<1>5. \A b \in Agents : \/ slot'[b].phase = slot[b].phase
                        \/ slot[b].phase = "active" /\ slot'[b].phase = "pending"
  <2>1. slot[a] \in SlotRecords /\ slot \in [Agents -> SlotRecords]
    BY <1>1 DEF Shape
  <2>2. PICK s : s = [slot[a] EXCEPT !.status = IF slot[a].status \in Final THEN slot[a].status ELSE status,
                                     !.phase = "pending"]
    OBVIOUS
  <2>3. s.phase = "pending"
    BY <2>1, <2>2 DEF SlotRecords
  <2>4. slot' = [slot EXCEPT ![a] = s]
    BY <2>2 DEF Finish
  <2> QED
    BY <1>2, <2>1, <2>3, <2>4
<1>6. UnlinkedKept
  BY MailKeeps
<1> QED
  BY <1>1, <1>2, <1>3, <1>4, <1>5, <1>6, RetryTerminal

LEMMA ChildEndTerminal ==
    ASSUME RunsInv, TerminalInv, NEW a \in Agents, ChildEnds(a) \/ ChildRefused(a)
    PROVE  TerminalInv'
<1>1. task[a].at \in {"spawned", "opening", "running"} /\ UNCHANGED <<runs, mailbox, edge, call, twice>>
  BY DEF ChildEnds, ChildRefused, storeVars
<1>2. CASE ChildEnds(a)
  BY <1>1, <1>2, FinishTerminal DEF ChildEnds
<1>3. CASE ChildRefused(a)
  BY <1>1, <1>3, FinishTerminal DEF ChildRefused
<1> QED
  BY <1>2, <1>3

\* The shutdown begins, or nothing happens.
LEMMA QuietTerminal ==
    ASSUME RunsInv, TerminalInv,
           ShutdownGraceful \/ CloseSupervisor \/ ShutdownForce \/ UNCHANGED vars
    PROVE  TerminalInv'
<1>1. UNCHANGED <<slot, runs, mailbox, edge, call, commit, twice>>
  BY DEF ShutdownGraceful, CloseSupervisor, ShutdownForce, vars, slotVars, storeVars
<1> QED
  BY <1>1, MailKeeps, TerminalFrame

LEMMA StageTerminal ==
    ASSUME RunsInv, TerminalInv, StageRemaining
    PROVE  TerminalInv'
<1>1. Shape /\ Placed
  BY RunsFacts DEF RunsInv
<1>2. Staged
  BY <1>1, StageRemainingDoes
<1>3. UNCHANGED <<commit, runs, mailbox, edge, twice, call>>
  BY DEF StageRemaining, storeVars
<1>4. ASSUME NEW a \in Agents
      PROVE  \/ slot'[a].phase = slot[a].phase
             \/ slot[a].phase = "active" /\ slot'[a].phase = "pending"
             \/ slot[a].phase = "active" /\ (edge[a] = "none" \/ Unlinked(a))
  <2>1. slot[a].phase = "active" /\ ~slot[a].durable /\ edge[a] # "none" => Unlinked(a)
    <3>1. \A c \in Spawns : call[c].at # "created"
      <4>1. ~Live(Parent) /\ BackgroundEnded
        BY <1>1 DEF StageRemaining, Placed, ShutdownStages
      <4> QED
        BY <4>1, AllEnded, Names DEF Starting
    <3> QED
      BY <1>1, <3>1 DEF Placed, SlotsBound, Unbound, Unlinked
  <2>2. slot[a].durable \in BOOLEAN
    BY <1>1 DEF Shape, SlotRecords
  <2> QED
    BY <1>2, <2>1, <2>2 DEF Staged
<1> QED
  BY <1>3, <1>4, MailKeeps, VacateTerminal

LEMMA AbortTerminal ==
    ASSUME RunsInv, TerminalInv, AbortTasks
    PROVE  TerminalInv'
<1>1. PICK dropped : dropped = Committers \ (Closes \cup {"flush"})
  OBVIOUS
<1>2. dropped \subseteq Committers /\ DropCommits(dropped)
  BY <1>1 DEF AbortTasks
<1>3. UNCHANGED <<slot, runs, mailbox, edge>>
  BY DEF AbortTasks, storeVars
<1>4. ASSUME NEW c \in (Sends \cup Closes) \ dropped PROVE call'[c] = call[c]
  <2>1. c \in Closes
    BY <1>1, <1>4, Names, KindsAssumption
  <2>2. c \in Calls /\ c \notin ToolCalls
    BY <2>1, Names
  <2> QED
    BY <2>2 DEF AbortTasks
<1>5. UnlinkedKept
  <2>1. \A c \in Spawns : call[c].at = "dropped" => call'[c] = call[c]
    BY RunsFacts, AbortDrops, Names DEF CallDropped, InFlight
  <2> QED
    BY <2>1 DEF UnlinkedKept, Unlinked
<1> QED
  BY <1>2, <1>3, <1>4, <1>5, DropTerminal

LEMMA UpgradeTerminal ==
    ASSUME RunsInv, TerminalInv, UpgradeShutdown
    PROVE  TerminalInv'
<1>1. /\ UNCHANGED <<slot, runs, mailbox, edge, call>> /\ {"flush"} \subseteq Committers
      /\ DropCommits({"flush"})
  BY Names DEF UpgradeShutdown, slotVars, storeVars
<1> QED
  BY <1>1, MailKeeps, DropTerminal

LEMMA FlushTerminal ==
    ASSUME RunsInv, TerminalInv, NEW a \in Agents, FlushNext(a)
    PROVE  TerminalInv'
<1>1. /\ commit["flush"].at \in {"none", "failed"} /\ UNCHANGED <<slot, runs, mailbox, edge, call, twice>>
  BY DEF FlushNext, slotVars, storeVars
<1>2. CASE UNCHANGED commit
  BY <1>1, <1>2, MailKeeps, TerminalFrame
<1>3. CASE \E v : CommitSet("flush", v) /\ v.at = "locking"
  <2>1. PICK v : CommitSet("flush", v) /\ v.at = "locking"
    BY <1>3
  <2>2. "flush" \in Committers /\ "flush" \notin Agents /\ "flush" \notin Sends \cup Closes
    BY Names, KindsAssumption
  <2> QED
    BY <1>1, <2>1, <2>2, MailKeeps, RetryTerminal
<1> QED
  BY <1>2, <1>3, FlushNextDoes

LEMMA CloseStateTerminal ==
    ASSUME RunsInv, TerminalInv, CloseState
    PROVE  TerminalInv'
<1>1. UNCHANGED <<slot, runs, mailbox, edge, call>> /\ {"flush"} \subseteq Committers
  BY Names DEF CloseState, slotVars, storeVars
<1>2. CASE UNCHANGED <<commit, twice>>
  BY <1>1, <1>2, MailKeeps, TerminalFrame
<1>3. CASE DropCommits({"flush"})
  BY <1>1, <1>3, MailKeeps, DropTerminal
<1> QED
  BY <1>2, <1>3 DEF CloseState

LEMMA TerminalNext ==
    ASSUME RunsInv, TerminalInv, [Next]_vars
    PROVE  TerminalInv'
<1>1. CASE ParentNext
  BY <1>1, ParentTerminal
<1>2. CASE CallNext
  BY <1>2, SpawnTerminal, CreateTerminal, LinkTerminal, StartsTerminal, SendTerminal, ContinueTerminal,
     CloseTerminal, PersistedTerminal, RetriedTerminal, WaitTerminal DEF CallNext, Starters
<1>3. CASE CommitNext
  BY <1>3, LockCommitTerminal, CommitTerminalOnce, CommitFailsTerminal, RemoveSlotTerminal
     DEF CommitNext
<1>4. CASE ChildNext
  BY <1>4, ChildQuiet, ChildEndTerminal DEF ChildNext
<1>5. CASE ShutdownNext
  BY <1>5, QuietTerminal, UpgradeTerminal, StageTerminal, AbortTerminal, FlushTerminal,
     CloseStateTerminal DEF ShutdownNext
<1>6. CASE Finished \/ UNCHANGED vars
  BY <1>6, QuietTerminal DEF Finished
<1> QED
  BY <1>1, <1>2, <1>3, <1>4, <1>5, <1>6 DEF Next

LEMMA TerminalInvariant == Spec => [](RunsInv /\ TerminalInv)
<1>1. Init => RunsInv /\ TerminalInv
  BY RunsInit, TerminalInit
<1>2. RunsInv /\ TerminalInv /\ [Next]_vars => (RunsInv /\ TerminalInv)'
  BY RunsNext, TerminalNext
<1> QED
  BY <1>1, <1>2, PTL DEF Spec

\* A run's finalizer, the calls that retry it and the shutdown append at most one
\* terminal event for it (retry_terminal, supervisor.rs:376), unless a forced abort
\* dropped a future between its commit and the removal of the slot.
THEOREM TerminalRecordedOnce == Spec => []AgentTerminalOnce
<1>1. ASSUME RunsInv, TerminalInv PROVE AgentTerminalOnce
  <2>1. SUFFICES ASSUME NEW a \in Agents, NEW run \in 1..runs[a], <<a, run>> \notin twice
                 PROVE  Cardinality(Rows(a, run)) <= 1
    BY DEF AgentTerminalOnce
  <2>2. \A i, j \in Rows(a, run) : i = j
    BY <1>1, <2>1 DEF TerminalInv, RowsOnce, Rows
  <2>3. CASE Rows(a, run) = {}
    BY <2>3, FS_EmptySet
  <2>4. CASE Rows(a, run) # {}
    <3>1. PICK i : i \in Rows(a, run)
      BY <2>4
    <3>2. Rows(a, run) = {i}
      BY <2>2, <3>1
    <3>3. Cardinality({i}) = 1
      BY FS_Singleton
    <3> QED
      BY <3>2, <3>3
  <2> QED
    BY <2>3, <2>4
<1> QED
  BY <1>1, TerminalInvariant, PTL

\* Once the store is closed, every run of an Agent with a durable edge has its
\* terminal event or a retained pending slot (lifecycle.rs:260), and an edge without
\* a slot is closed, whatever was refused, failed, upgraded or dropped on the way,
\* but for an Agent whose spawn_agent was dropped between the commit of its edge and
\* the update of its slot (child_runs/lifecycle.rs:187-189, supervisor.rs:344).
THEOREM RunsAccounted == Spec => []AgentRunsAccounted
<1>1. ASSUME RunsInv, TerminalInv PROVE AgentRunsAccounted
  <2>1. Shape /\ Placed
    BY <1>1, RunsFacts DEF RunsInv
  <2>2. SUFFICES ASSUME shutdown = "closed", NEW a \in Agents, edge[a] # "none", ~Unlinked(a)
                 PROVE  /\ \A run \in 1..runs[a] :
                              Rows(a, run) # {} \/ (slot[a].phase = "pending" /\ runs[a] = run)
                        /\ slot[a].phase = "vacant" => edge[a] = "closed"
    BY DEF AgentRunsAccounted
  <2>3. slot[a].phase \in {"vacant", "pending"}
    BY <2>1, <2>2 DEF Placed, ShutdownStages, Shape, SlotRecords
  <2>4. edge[a] \in {"open", "closed"}
    BY <2>1, <2>2 DEF Shape
  <2>5. ASSUME NEW run \in 1..runs[a]
        PROVE  Rows(a, run) # {} \/ (slot[a].phase = "pending" /\ runs[a] = run)
    BY <1>1, <2>2, <2>3, <2>5 DEF TerminalInv, RowsComplete
  <2>6. slot[a].phase = "vacant" => edge[a] = "closed"
    BY <1>1, <2>2, <2>4 DEF TerminalInv, EdgesClosed
  <2> QED
    BY <2>5, <2>6
<1> QED
  BY <1>1, TerminalInvariant, PTL

-----------------------------------------------------------------------------
(* The third layer: the mailbox. *)

\* Everything the mailbox is compared with stays: the Turn's messages and the waits.
TurnKept  == input'[Parent] = input[Parent] /\ context'[Parent] = context[Parent]
             /\ loop'[Parent].at = loop[Parent].at
WaitsKept == \A c \in Waits : call'[c] = call[c]

LEMMA MailInit == ASSUME Init PROVE MailInv
<1>1. mailbox = <<>> /\ DOMAIN mailbox = {} /\ Parent \in Runs
  BY Names DEF Init
<1>2. PICK d : d = Dropped(NewInput)
  OBVIOUS
<1>3. NewInput \in Buffers(Messages)
  BY NewInputExact
<1>4. Buffered(d) = {} /\ d.steered = <<>>
  BY <1>2, <1>3, DroppedExact
<1>5. input[Parent] = d /\ context[Parent] = {}
  BY <1>1, <1>2 DEF Init, LoopInit
<1>6. ToSet(Texts(<<>>)) = {}
  BY TextsEmpty, EmptySeq, ToSetOf
<1>7. \A c \in Waits : call[c].at = "idle"
  BY Names DEF Init, NoCall
<1> QED
  BY <1>1, <1>4, <1>5, <1>6, <1>7 DEF MailInv, Given

\* Messages of the user come and go; those of the mailbox stay while the Turn runs.
LEMMA MailFrame ==
    ASSUME RunsInv, MailInv, UNCHANGED mailbox, WaitsKept,
           Live(Parent)' => Live(Parent),
           Given(Parent)' \subseteq Given(Parent) \cup Steers,
           Live(Parent)' => Given(Parent) \ Steers \subseteq Given(Parent)',
           ToSet(Texts(input'[Parent].steered)) \subseteq ToSet(Texts(input[Parent].steered)) \cup Steers
    PROVE  MailInv'
<1>1. \A i \in DOMAIN mailbox : [mail |-> i] \notin Steers
  <2>1. \A i \in DOMAIN mailbox : i \in Nat
    BY RunsFacts, LenProperties DEF Shape
  <2> QED
    BY <2>1, KindsAssumption
<1>2. \A i \in DOMAIN mailbox : RowClaimed(i)'
  BY DEF MailInv, RowClaimed, WaitsKept
<1>3. ASSUME Live(Parent)', NEW i \in DOMAIN mailbox PROVE RowAgrees(i)'
  <2>1. ([mail |-> i] \in Given(Parent))' <=> [mail |-> i] \in Given(Parent)
    BY <1>1, <1>3
  <2>2. RowAgrees(i)
    BY <1>3 DEF MailInv
  <2> QED
    BY <2>1, <2>2 DEF RowAgrees, WaitsKept
<1>4. Given(Parent)' \subseteq Steers \cup Mail(DOMAIN mailbox)
  BY DEF MailInv
<1>5. Mail(DOMAIN mailbox)' = Mail(DOMAIN mailbox)
  OBVIOUS
<1> QED
  BY <1>2, <1>3, <1>4, <1>5 DEF MailInv, WaitsKept

LEMMA MailKeptAll ==
    ASSUME RunsInv, MailInv, UNCHANGED mailbox, WaitsKept, TurnKept
    PROVE  MailInv'
<1>1. Given(Parent)' = Given(Parent) /\ (Live(Parent)' <=> Live(Parent))
  BY DEF TurnKept, Given, Live
<1>2. input'[Parent] = input[Parent]
  BY DEF TurnKept
<1> QED
  BY <1>1, <1>2, MailFrame

LEMMA TurnUnmoved ==
    /\ UNCHANGED loopVars => TurnKept
    /\ UNCHANGED <<input, loop, context>> => TurnKept
    /\ \A a \in Agents : OthersKept(a) => TurnKept
    /\ UNCHANGED call => WaitsKept
    /\ \A c \in Calls : (c \notin Waits /\ \A d \in Calls \ {c} : call'[d] = call[d]) => WaitsKept
BY Names DEF loopVars, OthersKept, TurnKept, WaitsKept

-----------------------------------------------------------------------------
(* The third layer: the parent's Turn. *)

\* The prompt is given every event there is, and marks those that were pending.
LEMMA StartTurnMail ==
    ASSUME RunsInv, MailInv, StartTurn
    PROVE  MailInv'
<1>1. Shape /\ LoopType(Messages) /\ Placed /\ Parent \in Runs
  BY RunsFacts, Names DEF RunsInv
<1>2. ~Live(Parent) /\ UNCHANGED call
  BY DEF StartTurn
<1>3. \A c \in Waits : call[c].at \notin {"claimed", "resetting"}
  BY <1>1, <1>2, Names DEF Placed, CallsPlaced, Live, InFlight
<1>4. Mark(PendingRows, "prompt")
  <2>1. \A i \in DOMAIN mailbox : mailbox[i].delivered = "pending" <=> i \in PendingRows
    BY DEF PendingRows
  <2>2. mailbox' = [i \in DOMAIN mailbox |->
                       IF mailbox[i].delivered = "pending"
                       THEN [mailbox[i] EXCEPT !.delivered = "prompt"] ELSE mailbox[i]]
    BY DEF StartTurn
  <2> QED
    BY <2>1, <2>2, Zenon DEF Mark
<1>5. /\ DOMAIN mailbox' = DOMAIN mailbox
      /\ \A i \in DOMAIN mailbox :
            mailbox'[i].delivered = IF i \in PendingRows THEN "prompt" ELSE mailbox[i].delivered
  BY <1>1, <1>4, MarkType
<1>6. \A i \in DOMAIN mailbox :
         /\ mailbox'[i].delivered # "pending"
         /\ mailbox'[i].delivered \in Waits => mailbox'[i].delivered = mailbox[i].delivered
  BY <1>5, KindsAssumption DEF PendingRows
<1>7. input'[Parent] = NewInput /\ context'[Parent] = Mail(DOMAIN mailbox)
  BY <1>1 DEF StartTurn, LoopType
<1>8. Buffered(NewInput) = {} /\ NewInput.steered = <<>>
  BY NewInputExact
<1>9. Given(Parent)' = Mail(DOMAIN mailbox)
  BY <1>7, <1>8 DEF Given
<1>10. ToSet(Texts(input'[Parent].steered)) = {}
  BY <1>7, <1>8, TextsEmpty, EmptySeq, ToSetOf
<1>11. ASSUME NEW i \in DOMAIN mailbox PROVE RowClaimed(i)' /\ RowAgrees(i)'
  <2>1. ([mail |-> i] \in Given(Parent))'
    BY <1>9 DEF Mail
  <2>2. RowClaimed(i)
    BY DEF MailInv
  <2>3. RowClaimed(i)'
    BY <1>2, <1>6, <2>2 DEF RowClaimed
  <2>4. RowAgrees(i)'
    BY <1>2, <1>3, <1>6, <2>1 DEF RowAgrees
  <2> QED
    BY <2>3, <2>4
<1>12. Mail(DOMAIN mailbox)' = Mail(DOMAIN mailbox)
  BY <1>5 DEF Mail
<1> QED
  BY <1>2, <1>5, <1>9, <1>10, <1>11, <1>12 DEF MailInv

LEMMA ParentMail ==
    ASSUME RunsInv, MailInv, ParentStep \/ SteerTurn \/ AbortTurn
    PROVE  MailInv'
<1>1. LoopInv(Messages) /\ Parent \in Runs
  BY RunsFacts, Names
<1>2. UNCHANGED mailbox /\ WaitsKept
  BY TurnUnmoved DEF ParentStep, SteerTurn, AbortTurn, storeVars
<1>3. CASE LoopStep(Parent)
  <2>1. LoopEffect(Parent)
    BY <1>1, <1>3, LoopStepKeeps
  <2>2. Live(Parent)' => loop'[Parent].at # "returned"
    BY DEF Live
  <2> QED
    BY <1>2, <2>1, <2>2, MailFrame DEF LoopEffect, Live
<1>4. CASE ToolsDone(Parent)
  <2>1. UNCHANGED <<input, context>> /\ Live(Parent)
    BY <1>4 DEF ToolsDone, Live
  <2>2. Given(Parent)' = Given(Parent)
    BY <2>1 DEF Given
  <2> QED
    BY <1>2, <2>1, <2>2, MailFrame
<1>5. CASE SteerTurn
  <2>1. SteerEffect(Parent, Steers)
    BY <1>5, SteerTurnDoes
  <2>2. /\ Given(Parent) \ ToSet(Texts(input[Parent].steered)) \subseteq Given(Parent)'
        /\ Given(Parent)' \subseteq Given(Parent) \cup Steers /\ UNCHANGED loop
        /\ ToSet(Texts(input'[Parent].steered)) \subseteq ToSet(Texts(input[Parent].steered)) \cup Steers
    BY <2>1 DEF SteerEffect
  <2>3. Given(Parent) \ Steers \subseteq Given(Parent)'
    BY <2>2 DEF MailInv
  <2>4. Live(Parent)' <=> Live(Parent)
    BY <2>2 DEF Live
  <2> QED
    BY <1>2, <2>2, <2>3, <2>4, MailFrame
<1>6. CASE AbortTurn
  BY <1>2, <1>6, TurnUnmoved, MailKeptAll DEF AbortTurn
<1> QED
  BY <1>3, <1>4, <1>5, <1>6 DEF ParentStep

-----------------------------------------------------------------------------
(* The third layer: wait_agent. *)

\* One wait moves; the rows of others, and what the Turn was given of them, stay.
LEMMA WaitMoves ==
    ASSUME RunsInv, MailInv, NEW c \in Waits, NEW at, call' = [call EXCEPT ![c].at = at],
           at \in {"ready", "claimed", "resetting", "ended", "failed"},
           UNCHANGED loop, DOMAIN mailbox' = DOMAIN mailbox,
           Given(Parent)' \subseteq Steers \cup Mail(DOMAIN mailbox),
           input'[Parent].steered = input[Parent].steered,
           \A i \in DOMAIN mailbox :
              \/ RowClaimed(i)' /\ (Live(Parent) /\ RowAgrees(i) => RowAgrees(i)')
              \/ /\ mailbox'[i].delivered = mailbox[i].delivered /\ mailbox[i].delivered # c
                 /\ ([mail |-> i] \in Given(Parent))' <=> [mail |-> i] \in Given(Parent)
    PROVE  MailInv'
<1>1. Shape /\ c \in Calls
  BY RunsFacts, Names
<1>2. call'[c].at = at /\ \A d \in Calls \ {c} : call'[d] = call[d]
  BY <1>1, EndsAt
<1>3. call'[c].at = at /\ \A d \in Waits \ {c} : call'[d] = call[d]
  BY <1>2, Names
<1>4. ASSUME NEW i \in DOMAIN mailbox
      PROVE  RowClaimed(i)' /\ (Live(Parent) /\ RowAgrees(i) => RowAgrees(i)')
  <2>1. RowClaimed(i)
    BY DEF MailInv
  <2>2. CASE /\ mailbox'[i].delivered = mailbox[i].delivered /\ mailbox[i].delivered # c
             /\ ([mail |-> i] \in Given(Parent))' <=> [mail |-> i] \in Given(Parent)
    <3>1. RowClaimed(i)'
      BY <1>3, <2>1, <2>2 DEF RowClaimed
    <3>2. RowAgrees(i) => RowAgrees(i)'
      BY <1>3, <2>2 DEF RowAgrees
    <3> QED
      BY <3>1, <3>2
  <2> QED
    BY <2>2
<1>5. Live(Parent)' <=> Live(Parent)
  BY DEF Live
<1>6. \A d \in Waits : call'[d].at \in {"idle", "ready", "claimed", "resetting", "ended", "failed"}
  BY <1>3 DEF MailInv
<1>7. Mail(DOMAIN mailbox)' = Mail(DOMAIN mailbox)
  BY DEF Mail
<1> QED
  BY <1>4, <1>5, <1>6, <1>7 DEF MailInv

LEMMA WaitReadyMail ==
    ASSUME RunsInv, MailInv, NEW c \in Waits, WaitReady(c)
    PROVE  MailInv'
<1>1. /\ call[c].at = "idle" /\ call' = [call EXCEPT ![c].at = "ready"]
      /\ UNCHANGED mailbox /\ UNCHANGED loopVars
  BY DEF WaitReady, storeVars
<1>2. UNCHANGED loop /\ input'[Parent].steered = input[Parent].steered /\ Given(Parent)' = Given(Parent)
  BY <1>1 DEF loopVars, Given
<1>3. \A i \in DOMAIN mailbox : mailbox[i].delivered # c
  BY <1>1 DEF MailInv, RowClaimed
<1>4. Given(Parent) \subseteq Steers \cup Mail(DOMAIN mailbox)
  BY DEF MailInv
<1> QED
  BY <1>1, <1>2, <1>3, <1>4, WaitMoves

\* The pending rows of the page are claimed, and were not given.
LEMMA ClaimPageMail ==
    ASSUME RunsInv, MailInv, NEW c \in Waits, ClaimPage(c)
    PROVE  MailInv'
<1>1. Shape /\ c \in Calls
  BY RunsFacts, Names
<1>2. /\ call[c].at = "ready" /\ call' = [call EXCEPT ![c].at = "claimed"]
      /\ Mark(Page, c) /\ UNCHANGED loopVars
  BY DEF ClaimPage
<1>3. UNCHANGED loop /\ input'[Parent].steered = input[Parent].steered /\ Given(Parent)' = Given(Parent)
  BY <1>2 DEF loopVars, Given
<1>4. /\ DOMAIN mailbox' = DOMAIN mailbox
      /\ \A i \in DOMAIN mailbox :
            mailbox'[i].delivered = IF i \in Page THEN c ELSE mailbox[i].delivered
  BY <1>1, <1>2, MarkType
<1>5. call'[c].at = "claimed"
  BY <1>1, <1>2, EndsAt
<1>6. \A i \in DOMAIN mailbox : mailbox[i].delivered # c
  BY <1>2 DEF MailInv, RowClaimed
<1>7. ASSUME NEW i \in Page, i \in DOMAIN mailbox
      PROVE  RowClaimed(i)' /\ (RowAgrees(i) => RowAgrees(i)')
  <2>1. mailbox[i].delivered = "pending" /\ mailbox'[i].delivered = c
    BY <1>4, <1>7 DEF Page, PendingRows
  <2>2. RowClaimed(i)'
    BY <1>5, <2>1 DEF RowClaimed
  <2>3. c # "pending" /\ c # "prompt"
    BY KindsAssumption
  <2>4. RowAgrees(i) => RowAgrees(i)'
    BY <1>3, <1>5, <2>1, <2>3 DEF RowAgrees
  <2> QED
    BY <2>2, <2>4
<1>8. Given(Parent) \subseteq Steers \cup Mail(DOMAIN mailbox)
  BY DEF MailInv
<1> QED
  BY <1>2, <1>3, <1>4, <1>6, <1>7, <1>8, WaitMoves

\* A refused page goes back to pending, or stays claimed by a failed wait.
LEMMA ResetPageMail ==
    ASSUME RunsInv, MailInv, NEW c \in Waits, ResetPage(c)
    PROVE  MailInv'
<1>1. Shape /\ c \in Calls
  BY RunsFacts, Names
<1>2. call[c].at = "resetting" /\ UNCHANGED loopVars
  BY DEF ResetPage
<1>3. UNCHANGED loop /\ input'[Parent].steered = input[Parent].steered /\ Given(Parent)' = Given(Parent)
  BY <1>2 DEF loopVars, Given
<1>4. Given(Parent) \subseteq Steers \cup Mail(DOMAIN mailbox)
  BY DEF MailInv
<1>5. c # "pending" /\ c # "prompt" /\ "pending" \notin Waits
  BY KindsAssumption
<1>6. CASE Mark(Claimed(c), "pending") /\ call' = [call EXCEPT ![c].at = "ended"]
  <2>1. /\ DOMAIN mailbox' = DOMAIN mailbox
        /\ \A i \in DOMAIN mailbox :
              mailbox'[i].delivered = IF i \in Claimed(c) THEN "pending" ELSE mailbox[i].delivered
    BY <1>1, <1>6, MarkType
  <2>2. ASSUME NEW i \in Claimed(c), i \in DOMAIN mailbox
        PROVE  RowClaimed(i)' /\ (RowAgrees(i) => RowAgrees(i)')
    <3>1. mailbox[i].delivered = c /\ mailbox'[i].delivered = "pending"
      BY <2>1, <2>2 DEF Claimed
    <3>2. RowClaimed(i)'
      BY <1>5, <3>1 DEF RowClaimed
    <3>3. RowAgrees(i) => RowAgrees(i)'
      BY <1>2, <1>3, <1>5, <3>1 DEF RowAgrees
    <3> QED
      BY <3>2, <3>3
  <2>3. \A i \in DOMAIN mailbox : i \notin Claimed(c) => mailbox[i].delivered # c
    BY DEF Claimed
  <2> QED
    BY <1>3, <1>4, <1>6, <2>1, <2>2, <2>3, WaitMoves
<1>7. CASE UNCHANGED mailbox /\ call' = [call EXCEPT ![c].at = "failed"]
  <2>1. call'[c].at = "failed"
    BY <1>1, <1>7, EndsAt
  <2>2. ASSUME NEW i \in DOMAIN mailbox, mailbox[i].delivered = c
        PROVE  RowClaimed(i)' /\ RowAgrees(i)'
    BY <1>5, <1>7, <2>1, <2>2 DEF RowClaimed, RowAgrees
  <2> QED
    BY <1>3, <1>4, <1>7, <2>2, WaitMoves
<1> QED
  BY <1>6, <1>7 DEF ResetPage, Ends

\* The Turn is given exactly the rows of the page, or none.
LEMMA InjectPageMail ==
    ASSUME RunsInv, MailInv, NEW c \in Waits, InjectPage(c)
    PROVE  MailInv'
<1>1. Shape /\ LoopInv(Messages) /\ c \in Calls /\ Parent \in Runs
  BY RunsFacts, Names
<1>2. PICK s : s = PageMessages(Claimed(c))
  OBVIOUS
<1>3. s \in Seq(Messages) /\ ToSet(s) = Mail(Claimed(c))
  BY <1>1, <1>2, ClaimedRows, PageOf
<1>4. /\ call[c].at = "claimed" /\ UNCHANGED mailbox
      /\ \/ AdmitsBatch(input[Parent], s) /\ Ends(c) /\ InjectInto(Parent, s)
         \/ call' = [call EXCEPT ![c].at = "resetting"] /\ UNCHANGED loopVars
  BY <1>2 DEF InjectPage, storeVars
<1>5. Given(Parent) \subseteq Steers \cup Mail(DOMAIN mailbox)
  BY DEF MailInv
<1>6. c # "pending" /\ c # "prompt"
  BY KindsAssumption
<1>7. CASE call' = [call EXCEPT ![c].at = "resetting"] /\ UNCHANGED loopVars
  <2>1. UNCHANGED loop /\ input'[Parent].steered = input[Parent].steered /\ Given(Parent)' = Given(Parent)
    BY <1>7 DEF loopVars, Given
  <2>2. call'[c].at = "resetting"
    BY <1>1, <1>7, EndsAt
  <2>3. ASSUME NEW i \in DOMAIN mailbox, mailbox[i].delivered = c
        PROVE  RowClaimed(i)' /\ (RowAgrees(i) => RowAgrees(i)')
    BY <1>4, <1>6, <2>1, <2>2, <2>3 DEF RowClaimed, RowAgrees
  <2> QED
    BY <1>4, <1>5, <1>7, <2>1, <2>3, WaitMoves
<1>8. CASE AdmitsBatch(input[Parent], s) /\ Ends(c) /\ InjectInto(Parent, s)
  <2>1. /\ UNCHANGED loop /\ Given(Parent)' = Given(Parent) \cup Mail(Claimed(c))
        /\ input'[Parent].steered = input[Parent].steered
    BY <1>1, <1>3, <1>8, InjectKeeps
  <2>2. call' = [call EXCEPT ![c].at = "ended"] /\ call'[c].at = "ended"
    BY <1>1, <1>8, EndsAt DEF Ends
  <2>3. ASSUME NEW i \in DOMAIN mailbox, mailbox[i].delivered = c
        PROVE  RowClaimed(i)' /\ RowAgrees(i)'
    <3>1. i \in Claimed(c)
      BY <2>3 DEF Claimed
    <3>2. [mail |-> i] \in Mail(Claimed(c))
      BY <3>1 DEF Mail
    <3>3. ([mail |-> i] \in Given(Parent))'
      BY <2>1, <3>2
    <3> QED
      BY <1>4, <1>6, <2>2, <2>3, <3>3 DEF RowClaimed, RowAgrees
  <2>4. ASSUME NEW i \in DOMAIN mailbox, mailbox[i].delivered # c
        PROVE  ([mail |-> i] \in Given(Parent))' <=> [mail |-> i] \in Given(Parent)
    <3>1. [mail |-> i] \notin Mail(Claimed(c))
      <4>1. ASSUME NEW j \in Claimed(c), [mail |-> j] = [mail |-> i] PROVE FALSE
        <5>1. j = i
          <6>1. [mail |-> j].mail = j /\ [mail |-> i].mail = i
            OBVIOUS
          <6> QED
            BY <4>1, <6>1
        <5> QED
          BY <2>4, <5>1 DEF Claimed
      <4> QED
        BY <4>1 DEF Mail
    <3> QED
      BY <2>1, <3>1
  <2>5. Mail(Claimed(c)) \subseteq Mail(DOMAIN mailbox)
    BY DEF Mail, Claimed
  <2>6. Given(Parent)' \subseteq Steers \cup Mail(DOMAIN mailbox)
    BY <1>5, <2>1, <2>5
  <2> QED
    BY <1>4, <2>1, <2>2, <2>3, <2>4, <2>6, WaitMoves
<1> QED
  BY <1>4, <1>7, <1>8

-----------------------------------------------------------------------------
(* The third layer: everything else. *)

\* The row that is appended is pending, and the Turn cannot have been given it.
LEMMA CommitMail ==
    ASSUME RunsInv, MailInv, NEW w \in Committers, CommitTerminal(w)
    PROVE  MailInv'
<1>1. Shape /\ Placed /\ commit[w].at = "holding"
  BY RunsFacts DEF RunsInv, CommitTerminal
<1>2. PICK e : e = [agent |-> commit[w].agent, run |-> commit[w].run, delivered |-> "pending"]
  OBVIOUS
<1>3. mailbox' = Append(mailbox, e) /\ UNCHANGED call /\ UNCHANGED loopVars
  BY <1>2 DEF CommitTerminal
<1>4. e \in MailRecords /\ e.delivered = "pending"
  <2>1. commit[w].agent \in Agents /\ commit[w].run \in 1..runs[commit[w].agent]
    BY <1>1 DEF Placed, CommitsPlaced, Busy
  <2>2. runs[commit[w].agent] \in 0..MaxRuns
    BY <1>1, <2>1 DEF Shape
  <2>3. commit[w].run \in 1..MaxRuns
    BY <2>1, <2>2, AgentAssumption
  <2> QED
    BY <1>2, <2>1, <2>3 DEF MailRecords
<1>5. PICK n : n = Len(mailbox) + 1
  OBVIOUS
<1>6. /\ DOMAIN mailbox' = DOMAIN mailbox \cup {n} /\ n \notin DOMAIN mailbox /\ n \in Nat
      /\ mailbox'[n] = e /\ \A i \in DOMAIN mailbox : mailbox'[i] = mailbox[i]
  <2>1. mailbox \in Seq(MailRecords)
    BY <1>1 DEF Shape
  <2>2. Len(mailbox) \in Nat /\ DOMAIN mailbox = 1..Len(mailbox)
    BY <2>1, LenProperties
  <2>3. /\ Len(mailbox') = Len(mailbox) + 1 /\ mailbox' \in Seq(MailRecords)
        /\ mailbox'[Len(mailbox) + 1] = e /\ \A i \in 1..Len(mailbox) : mailbox'[i] = mailbox[i]
    BY <1>3, <1>4, <2>1, AppendProperties
  <2>4. DOMAIN mailbox' = 1..(Len(mailbox) + 1)
    BY <2>3, LenProperties
  <2> QED
    BY <1>5, <2>2, <2>3, <2>4
<1>7. /\ Given(Parent)' = Given(Parent) /\ input'[Parent] = input[Parent]
      /\ Live(Parent)' <=> Live(Parent)
  BY <1>3 DEF loopVars, Given, Live
<1>8. [mail |-> n] \notin Given(Parent)
  <2>1. [mail |-> n] \notin Steers
    BY <1>6, KindsAssumption
  <2>2. ASSUME NEW j \in DOMAIN mailbox, [mail |-> j] = [mail |-> n] PROVE FALSE
    <3>1. [mail |-> j].mail = j /\ [mail |-> n].mail = n
      OBVIOUS
    <3> QED
      BY <1>6, <2>2, <3>1
  <2>3. [mail |-> n] \notin Mail(DOMAIN mailbox)
    BY <2>2 DEF Mail
  <2> QED
    BY <2>1, <2>3 DEF MailInv
<1>9. "pending" \notin Waits
  BY KindsAssumption
<1>10. RowClaimed(n)' /\ RowAgrees(n)'
  BY <1>4, <1>6, <1>7, <1>8, <1>9 DEF RowClaimed, RowAgrees
<1>11. ASSUME NEW i \in DOMAIN mailbox
       PROVE  RowClaimed(i)' /\ (RowAgrees(i) => RowAgrees(i)')
  BY <1>3, <1>6, <1>7 DEF MailInv, RowClaimed, RowAgrees
<1>12. \A i \in DOMAIN mailbox' : RowClaimed(i)'
  BY <1>6, <1>10, <1>11
<1>13. Live(Parent)' => \A i \in DOMAIN mailbox' : RowAgrees(i)'
  BY <1>6, <1>7, <1>10, <1>11 DEF MailInv
<1>14. Mail(DOMAIN mailbox) \subseteq Mail(DOMAIN mailbox)'
  BY <1>6 DEF Mail
<1>15. Given(Parent)' \subseteq Steers \cup Mail(DOMAIN mailbox)'
  BY <1>7, <1>14 DEF MailInv
<1> QED
  BY <1>3, <1>7, <1>12, <1>13, <1>15 DEF MailInv

LEMMA CommitsMail ==
    ASSUME RunsInv, MailInv, NEW w \in Committers, LockCommit(w) \/ CommitFails(w) \/ RemoveSlot(w)
    PROVE  MailInv'
<1>1. UNCHANGED mailbox /\ UNCHANGED loopVars /\ UNCHANGED call
  BY DEF LockCommit, CommitFails, RemoveSlot, storeVars
<1> QED
  BY <1>1, TurnUnmoved, MailKeptAll

\* A call that is no wait moves, and with it perhaps an Agent's control input.
LEMMA CallMail ==
    ASSUME RunsInv, MailInv, NEW c \in Calls, c \notin Waits, NEW at,
           call' = [call EXCEPT ![c].at = at] \/ call' = [call EXCEPT ![c] = at],
           UNCHANGED mailbox, TurnKept
    PROVE  MailInv'
<1>1. Shape
  BY RunsFacts
<1>2. \A d \in Calls \ {c} : call'[d] = call[d]
  BY <1>1, EndsAt, EndsGo
<1> QED
  BY <1>2, TurnUnmoved, MailKeptAll

LEMMA DeliverTurn ==
    ASSUME RunsInv, NEW c \in Sends, NEW a \in Agents, Deliver(c, a)
    PROVE  TurnKept
<1>1. LoopInv(Messages) /\ a \in Runs /\ <<c>> \in Seq(Messages)
  BY RunsFacts, Names DEF Messages
<1>2. CASE AdmitsBatch(input[a], <<c>>) /\ InjectInto(a, <<c>>)
  BY <1>1, <1>2, InjectKeeps, TurnUnmoved
<1>3. CASE UNCHANGED loopVars
  BY <1>3, TurnUnmoved
<1> QED
  BY <1>2, <1>3 DEF Deliver

LEMMA SpawnMail ==
    ASSUME RunsInv, MailInv, NEW c \in Spawns, NEW a \in Agents, SpawnAgent(c, a)
    PROVE  MailInv'
<1>1. Shape /\ LoopInv(Messages) /\ c \in Calls /\ c \notin Waits
  BY RunsFacts, Names, KindsAssumption
<1>2. runs[a] = 0 /\ UNCHANGED mailbox
  BY DEF SpawnAgent, storeVars
<1>3. CASE Ends(c) /\ UNCHANGED loopVars
  BY <1>1, <1>2, <1>3, TurnUnmoved, CallMail DEF Ends
<1>4. CASE Register(a, FALSE) /\ call' = [call EXCEPT ![c] = [at |-> "creating", agent |-> a]]
  <2>1. MaxRuns > 0
    BY AgentAssumption, FS_CardinalityType
  <2>2. OthersKept(a)
    BY <1>1, <1>2, <1>4, <2>1, RegisterKeeps DEF Registered
  <2> QED
    BY <1>1, <1>2, <1>4, <2>2, TurnUnmoved, CallMail
<1> QED
  BY <1>3, <1>4 DEF SpawnAgent

LEMMA ContinueMail ==
    ASSUME RunsInv, MailInv, NEW c \in Sends, ContinueAgent(c)
    PROVE  MailInv'
<1>1. Shape /\ LoopInv(Messages) /\ Placed /\ c \in Calls /\ c \notin Waits
  BY RunsFacts, Names, KindsAssumption DEF RunsInv
<1>2. PICK a : a = call[c].agent
  OBVIOUS
<1>3. a \in Agents /\ UNCHANGED mailbox
  BY <1>1, <1>2 DEF ContinueAgent, Placed, CallsPlaced, storeVars
<1>4. CASE Ends(c) /\ UNCHANGED loopVars
  BY <1>1, <1>3, <1>4, TurnUnmoved, CallMail DEF Ends
<1>5. CASE Deliver(c, a)
  BY <1>1, <1>3, <1>5, DeliverTurn, CallMail DEF Deliver, Ends
<1>6. CASE runs[a] < MaxRuns /\ Register(a, TRUE) /\ call' = [call EXCEPT ![c].at = "spawning"]
  <2>1. OthersKept(a)
    BY <1>1, <1>3, <1>6, RegisterKeeps DEF Registered
  <2> QED
    BY <1>1, <1>3, <1>6, <2>1, TurnUnmoved, CallMail
<1> QED
  BY <1>2, <1>4, <1>5, <1>6 DEF ContinueAgent

LEMMA StartsMail ==
    ASSUME RunsInv, MailInv, NEW c \in Starters,
           \/ ChildCreated(c) \/ ChildLinked(c) \/ ChildNotCreated(c)
           \/ ChildSpawned(c) \/ InlineReturns(c)
    PROVE  MailInv'
<1>1. c \in Calls /\ c \notin Waits
  BY Names
<1>2. UNCHANGED mailbox /\ UNCHANGED loopVars
  BY DEF ChildCreated, ChildLinked, ChildNotCreated, ChildSpawned, InlineReturns, storeVars
<1>3. \E at : call' = [call EXCEPT ![c].at = at]
  BY DEF ChildCreated, ChildLinked, ChildNotCreated, ChildSpawned, InlineReturns, Ends, SpawnBackground
<1> QED
  BY <1>1, <1>2, <1>3, TurnUnmoved, CallMail

LEMMA SendMail ==
    ASSUME RunsInv, MailInv, NEW c \in Sends, NEW a \in Agents, SendMessage(c, a)
    PROVE  MailInv'
<1>1. c \in Calls /\ c \notin Waits /\ UNCHANGED mailbox
  BY Names, KindsAssumption DEF SendMessage, storeVars
<1>2. CASE Deliver(c, a)
  BY <1>1, <1>2, DeliverTurn, CallMail DEF Deliver, Ends
<1>3. CASE UNCHANGED loopVars /\ \E v : call' = [call EXCEPT ![c] = v]
  BY <1>1, <1>3, TurnUnmoved, CallMail
<1> QED
  BY <1>2, <1>3 DEF SendMessage

LEMMA CloseMail ==
    ASSUME RunsInv, MailInv, NEW c \in Sends \cup Closes,
           Retried(c) \/ ClosePersisted(c) \/ \E a \in Agents : CloseAgent(c, a)
    PROVE  MailInv'
<1>1. c \in Calls /\ c \notin Waits /\ UNCHANGED mailbox /\ TurnKept
  BY Names, KindsAssumption, TurnUnmoved DEF Retried, ClosePersisted, CloseAgent, storeVars
<1>2. \E v : call' = [call EXCEPT ![c].at = v] \/ call' = [call EXCEPT ![c] = v]
  BY DEF Retried, ClosePersisted, CloseAgent, Ends
<1> QED
  BY <1>1, <1>2, CallMail

LEMMA ChildMail ==
    ASSUME RunsInv, MailInv, NEW a \in Agents,
           \/ OpenChild(a) \/ ChildOpened(a) \/ ChildStep(a) \/ ChildEnds(a)
           \/ ChildRefused(a) \/ ChildDone(a)
    PROVE  MailInv'
<1>1. LoopInv(Messages) /\ LoopType(Messages) /\ a \in Runs /\ Parent \in Runs /\ a # Parent
  BY RunsFacts, Names
<1>2. UNCHANGED mailbox /\ UNCHANGED call
  BY DEF OpenChild, ChildOpened, ChildStep, ChildEnds, ChildRefused, ChildDone, storeVars
<1>3. TurnKept
  <2>1. CASE UNCHANGED loopVars
    BY <2>1, TurnUnmoved
  <2>2. CASE LoopStep(a)
    <3>1. LoopEffect(a)
      BY <1>1, <2>2, LoopStepKeeps
    <3> QED
      BY <3>1, TurnUnmoved DEF LoopEffect
  <2>3. CASE UNCHANGED <<input, context>> /\ loop' = [loop EXCEPT ![a].at = "begin"]
    BY <1>1, <2>3 DEF TurnKept, LoopType
  <2>4. CASE UNCHANGED <<loop, context>> /\ input' = [input EXCEPT ![a] = Dropped(@)]
    BY <1>1, <2>4 DEF TurnKept, LoopType
  <2> QED
    BY <2>1, <2>2, <2>3, <2>4
       DEF OpenChild, ChildOpened, ChildStep, ChildEnds, ChildRefused, ChildDone
<1> QED
  BY <1>2, <1>3, TurnUnmoved, MailKeptAll

\* A forced abort ends the Turn: what its waits held stays marked, and no Turn runs.
LEMMA AbortMail ==
    ASSUME RunsInv, MailInv, AbortTasks
    PROVE  MailInv'
<1>1. LoopType(Messages) /\ Parent \in Runs /\ input[Parent] \in Buffers(Messages) /\ Shape
  BY RunsFacts, Names, LoopFields
<1>2. UNCHANGED mailbox /\ UNCHANGED context
  BY DEF AbortTasks, storeVars
<1>3. PICK d : d = Dropped(input[Parent])
  OBVIOUS
<1>4. input'[Parent] = d
  BY <1>1, <1>3 DEF AbortTasks
<1>5. Buffered(d) = {} /\ d.steered = <<>>
  BY <1>1, <1>3, DroppedExact
<1>6. ToSet(Texts(input'[Parent].steered)) = {}
  BY <1>4, <1>5, TextsEmpty, EmptySeq, ToSetOf
<1>7. Given(Parent)' \subseteq Steers \cup Mail(DOMAIN mailbox)
  BY <1>2, <1>4, <1>5 DEF Given, MailInv
<1>8. ~Live(Parent)'
  <2>1. loop[Parent] \in LoopRecords
    BY <1>1 DEF LoopType
  <2>2. PICK l : l = [loop[Parent] EXCEPT !.at = "returned", !.outcome = "none"]
    OBVIOUS
  <2>3. l.at = "returned"
    BY <2>1, <2>2 DEF LoopRecords
  <2>4. loop'[Parent] = IF Live(Parent) THEN l ELSE loop[Parent]
    BY <1>1, <2>2 DEF AbortTasks
  <2> QED
    BY <2>3, <2>4 DEF Live
<1>9. ASSUME NEW c \in Waits PROVE call'[c] = call[c] \/ call'[c].at = "ended"
  <2>1. c \in Calls /\ call[c].at # "created"
    BY Names DEF MailInv
  <2> QED
    BY <1>1, <2>1, AbortDrops DEF CallDropped
<1>10. \A i \in DOMAIN mailbox : RowClaimed(i)'
  BY <1>2, <1>9 DEF MailInv, RowClaimed
<1>11. \A c \in Waits : call'[c].at \in {"idle", "ready", "claimed", "resetting", "ended", "failed"}
  BY <1>9 DEF MailInv
<1>12. Mail(DOMAIN mailbox)' = Mail(DOMAIN mailbox)
  BY <1>2
<1> QED
  BY <1>2, <1>6, <1>7, <1>8, <1>10, <1>11, <1>12 DEF MailInv

LEMMA ShutdownMail ==
    ASSUME RunsInv, MailInv,
           \/ ShutdownGraceful \/ CloseSupervisor \/ ShutdownForce \/ UpgradeShutdown \/ StageRemaining
           \/ (\E a \in Agents : FlushNext(a)) \/ CloseState \/ UNCHANGED vars
    PROVE  MailInv'
<1>1. UNCHANGED mailbox /\ UNCHANGED call
  BY DEF ShutdownGraceful, CloseSupervisor, ShutdownForce, UpgradeShutdown, StageRemaining, FlushNext,
     CloseState, vars, storeVars
<1>2. UNCHANGED <<input, loop, context>>
  BY DEF ShutdownGraceful, CloseSupervisor, ShutdownForce, UpgradeShutdown, CloseAndCancel,
     StageRemaining, FlushNext, CloseState, vars, loopVars
<1> QED
  BY <1>1, <1>2, TurnUnmoved, MailKeptAll

LEMMA MailNext ==
    ASSUME RunsInv, MailInv, [Next]_vars
    PROVE  MailInv'
<1>1. CASE ParentNext
  BY <1>1, StartTurnMail, ParentMail DEF ParentNext
<1>2. CASE CallNext
  BY <1>2, SpawnMail, StartsMail, SendMail, ContinueMail, CloseMail, WaitReadyMail, ClaimPageMail,
     InjectPageMail, ResetPageMail DEF CallNext, Starters
<1>3. CASE CommitNext
  BY <1>3, CommitsMail, CommitMail DEF CommitNext
<1>4. CASE ChildNext
  BY <1>4, ChildMail DEF ChildNext
<1>5. CASE ShutdownNext
  BY <1>5, ShutdownMail, AbortMail DEF ShutdownNext
<1>6. CASE Finished \/ UNCHANGED vars
  BY <1>6, ShutdownMail DEF Finished
<1> QED
  BY <1>1, <1>2, <1>3, <1>4, <1>5, <1>6 DEF Next

LEMMA MailInvariant == Spec => [](RunsInv /\ MailInv)
<1>1. Init => RunsInv /\ MailInv
  BY RunsInit, MailInit
<1>2. RunsInv /\ MailInv /\ [Next]_vars => (RunsInv /\ MailInv)'
  BY RunsNext, MailNext
<1> QED
  BY <1>1, <1>2, PTL DEF Spec

\* While the Turn runs, an event of its mailbox is marked delivered exactly when the
\* Turn was given it, at its prompt or through its control input, but for the page a
\* wait_agent has in hand (mailbox_tools.rs:326-350).
THEOREM MailboxAgrees == Spec => []MailboxClaimed
<1>1. ASSUME RunsInv, MailInv PROVE MailboxClaimed
  <2>1. SUFFICES ASSUME Live(Parent), NEW i \in DOMAIN mailbox,
                        ~(/\ mailbox[i].delivered \in Waits
                          /\ call[mailbox[i].delivered].at \in {"claimed", "resetting", "failed"})
                 PROVE  [mail |-> i] \in Given(Parent) <=> mailbox[i].delivered # "pending"
    BY DEF MailboxClaimed, Given
  <2>2. RowAgrees(i) /\ RowClaimed(i)
    BY <1>1, <2>1 DEF MailInv
  <2>3. mailbox[i].delivered \in {"pending", "prompt"} \cup Waits
    <3>1. mailbox \in Seq(MailRecords)
      BY <1>1, RunsFacts DEF Shape
    <3>2. mailbox[i] \in MailRecords
      BY <3>1, ElementOfSeq, LenProperties
    <3> QED
      BY <3>2 DEF MailRecords
  <2>4. mailbox[i].delivered \in Waits => call[mailbox[i].delivered].at = "ended"
    BY <1>1, <2>1, <2>2 DEF MailInv, RowClaimed
  <2>5. "pending" \notin Waits
    BY KindsAssumption
  <2> QED
    BY <2>2, <2>3, <2>4, <2>5 DEF RowAgrees
<1> QED
  BY <1>1, MailInvariant, PTL
=============================================================================
