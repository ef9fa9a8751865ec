----------------------------- MODULE SerialLanes -----------------------------
(***************************************************************************)
(* What the Application promises about the operations of one lane (a       *)
(* Thread, or the Application itself): they are executed one at a time and *)
(* in the order in which they were accepted.  How an operation learns that *)
(* its turn has come is left open.                                         *)
(***************************************************************************)
EXTENDS Naturals, Sequences, SequencesExt

CONSTANTS Lanes, Operations

VARIABLES
    queue,      \* [Lanes -> Seq(Operations)]: accepted and not yet finished
    executing   \* [Lanes -> SUBSET Operations]: being executed

vars == <<queue, executing>>

Init ==
    /\ queue = [l \in Lanes |-> <<>>]
    /\ executing = [l \in Lanes |-> {}]

\* An operation is accepted behind everything accepted before it.
Accept(l, op) ==
    /\ queue' = [queue EXCEPT ![l] = Append(@, op)]
    /\ UNCHANGED executing

\* The oldest operation starts, and only when nothing else is executing.
Start(l) ==
    /\ executing[l] = {}
    /\ queue[l] # <<>>
    /\ executing' = [executing EXCEPT ![l] = {Head(queue[l])}]
    /\ UNCHANGED queue

\* An operation ends, or is given up before it started; the others keep their
\* order.
Finish(l, op) ==
    /\ queue' = [queue EXCEPT ![l] = RemoveFirst(@, op)]
    /\ executing' = [executing EXCEPT ![l] = @ \ {op}]

\* A forced shutdown stops an execution and keeps its place in the lane.
Stop(l, op) ==
    /\ executing' = [executing EXCEPT ![l] = @ \ {op}]
    /\ UNCHANGED queue

\* Shutdown gives every lane up.
Abandon ==
    /\ queue' = [l \in Lanes |-> <<>>]
    /\ UNCHANGED executing

Next ==
    \/ \E l \in Lanes, op \in Operations :
          Accept(l, op) \/ Finish(l, op) \/ Stop(l, op)
    \/ \E l \in Lanes : Start(l)
    \/ Abandon

Spec == Init /\ [][Next]_vars
=============================================================================
