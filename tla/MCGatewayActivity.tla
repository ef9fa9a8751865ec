-------------------------- MODULE MCGatewayActivity --------------------------
(***************************************************************************)
(* GatewayActivity on a small instance: Shells of two processes on the     *)
(* same Thread, an interrupt and a steer command.                          *)
(***************************************************************************)
EXTENDS GatewayActivity

CONSTANTS g1, g2, s1, s2, s3, s4, s5, k1, k2

MCOwners   == {g1, g2}
MCShells   == {s1, s2, s3, s4, s5}
MCHome     == [s \in MCShells |-> IF s = s3 THEN g2 ELSE g1]
MCCommands == {k1, k2}
MCKind     == [c \in MCCommands |-> IF c = k1 THEN "interrupt" ELSE "steer"]

Quiet == [shells |-> {}, commands |-> {}, crash |-> {}, stop |-> {}, ticks |-> 0,
          failures |-> 0]

\* Each plan lets the parts of the system meet that concern each other:
MCPlans ==
    {\* a process at the limit of its queue and of its permits
     [Quiet EXCEPT !.shells = {s1, s2, s4, s5}],
     \* a queue of two Shells, shutdown, failing operations and a command
     [Quiet EXCEPT !.shells = {s1, s2}, !.stop = {g1}, !.failures = 1, !.commands = {k1}],
     \* takeover between processes while operations fail
     [Quiet EXCEPT !.shells = {s1, s2, s3}, !.ticks = 2, !.failures = 1],
     \* two commands, failing operations and a lease that runs out
     [Quiet EXCEPT !.shells = {s1}, !.ticks = 2, !.commands = {k1, k2}, !.failures = 1],
     \* takeover from a process that is slow or lost while it applies a command
     [Quiet EXCEPT !.shells = {s1, s3}, !.ticks = 3, !.crash = {g1}, !.commands = {k1}]}
=============================================================================
