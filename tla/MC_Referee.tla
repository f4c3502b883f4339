----------------------------- MODULE MC_Referee -----------------------------
(* Referee on two small tables.  Everybody has rolled the same, so the     *)
(* order is that of the ids.                                               *)
EXTENDS Referee
CONSTANT alice
MCAccount == {alice}

(* A player's character, one nobody plays, and a monster.                  *)
MCCombatant == 1 .. 3
MCPC == {1, 2}
MCOwner == <<alice, NoOne, NoOne>>
MCScores == [c \in MCCombatant |-> [initiative |-> 1, tiebreak |-> 0]]

(* A monster and then a player's character.                                *)
DuelCombatant == 1 .. 2
DuelPC == {2}
DuelOwner == <<NoOne, alice>>
DuelScores == [c \in DuelCombatant |-> [initiative |-> 1, tiebreak |-> 0]]

One == {1}
Zero == {0}
=============================================================================
