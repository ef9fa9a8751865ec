-------------------------- MODULE MCLaneScheduling --------------------------
(* A small instance of LaneScheduling: one Thread whose lane can hold three *)
(* operations, so that one is released in front, in the middle and at the   *)
(* end, and the Application lane beside it.  No symmetry is used, since the *)
(* run checks liveness too.                                                 *)
EXTENDS LaneScheduling
=============================================================================
