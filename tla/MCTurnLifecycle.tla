--------------------------- MODULE MCTurnLifecycle ---------------------------
(* Small instances of TurnLifecycle: one Thread, and start_turn calls of which *)
(* two ask for the same Turn id.                                               *)
EXTENDS TurnLifecycle

CONSTANTS c1, c2, c3, t1, t2, x

CollidingCalls == {c1, c2, c3}
CollidingTurnOf == (c1 :> t1) @@ (c2 :> t1) @@ (c3 :> t2)
CollidingThreadOf == [c \in CollidingCalls |-> x]

QueuedCalls == {c1, c3}
QueuedTurnOf == (c1 :> t1) @@ (c3 :> t2)
QueuedThreadOf == [c \in QueuedCalls |-> x]

SingleCall == {c1}
SingleTurnOf == c1 :> t1
SingleThreadOf == c1 :> x
=============================================================================
