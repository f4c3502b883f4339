--------------------------- MODULE MC_TurnHistory ---------------------------
(* TurnHistory on a small table: three rows, two initiative totals.        *)
EXTENDS TurnHistory
MCCombatant == 1 .. 3
MCInitiatives == 1 .. 2
MCTiebreaks == {0}
=============================================================================
