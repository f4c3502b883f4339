---------------------------- MODULE MC_Reactions ----------------------------
(* Reactions on a small table: three rows, and an initiative is rolled or is not. *)
EXTENDS Reactions
MCCombatant == 1 .. 3
MCInitiatives == {1}
MCTiebreaks == {0}
=============================================================================
