-------------------------- MODULE MCSubscriptions ---------------------------
(***************************************************************************)
(* Instances of Subscriptions for TLC.                                     *)
(***************************************************************************)
EXTENDS Subscriptions, TLC

CONSTANTS e1, e2, t1

\* Two addresses want the same host; only the first controls it.
OwnersOne == {<<e1, t1>>}

\* Threads of the API are interchangeable, and so are targets nobody owns.
TargetSymmetry == Permutations(Handlers) \union Permutations(Targets)

=============================================================================
