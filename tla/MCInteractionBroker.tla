------------------------- MODULE MCInteractionBroker -------------------------
(***************************************************************************)
(* InteractionBroker on a small instance.                                  *)
(***************************************************************************)
EXTENDS InteractionBroker

CONSTANTS p1, c1, r1

MCPermissions == {p1}
MCClarifies   == {c1}
MCResponders  == {r1}
MCResponses   == {"allow", "answers", "cancel"}
=============================================================================
