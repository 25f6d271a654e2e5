---------------------------- MODULE MCReputation ----------------------------
(* Instances of Reputation for TLC.                                        *)
EXTENDS Reputation, TLC

\* Three rungs.  A deal, a signal and a day's decay are each between two places.
MCThreshold == (0 :> 0) @@ (1 :> 10) @@ (2 :> 18)
MCDwell == (0 :> 2) @@ (1 :> 2) @@ (2 :> 3)
MCCeiling == (0 :> 1) @@ (1 :> 2) @@ (2 :> 3)

CallersAreAlike == Permutations(Callers)
=============================================================================
