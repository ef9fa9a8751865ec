---------------------------- MODULE ActivityLease ----------------------------
(***************************************************************************)
(* What the durable activity rows of one Thread promise to the Gateway     *)
(* processes that share the store: at any time at most one owner holds an  *)
(* unexpired claim, every claim opens a new term, and an owner whose claim *)
(* ran out can take it up again only while nobody opened a later term.     *)
(***************************************************************************)
EXTENDS Naturals

CONSTANTS Owners, None

VARIABLES
    holders,   \* the owners with an unexpired claim
    latest,    \* the owner that opened the latest term, or None
    term       \* the number of terms opened

vars == <<holders, latest, term>>

Init ==
    /\ holders = {}
    /\ latest = None
    /\ term = 0

\* A claim is granted to an owner nobody else stands in the way of.  A claim
\* whose clock was read too long ago is granted and void.
Take(o) ==
    /\ holders \subseteq {o}
    /\ holders' \in {{}, {o}}
    /\ latest' = o
    /\ term' = term + 1

\* The owner of the latest term renews its claim, run out or not.
Renew ==
    /\ latest # None
    /\ holders' = {latest}
    /\ UNCHANGED <<latest, term>>

\* The claim runs out, or its holder gives it up.
Lapse ==
    /\ holders' = {}
    /\ UNCHANGED <<latest, term>>

Next ==
    \/ \E o \in Owners : Take(o)
    \/ Renew
    \/ Lapse

Spec == Init /\ [][Next]_vars
=============================================================================
