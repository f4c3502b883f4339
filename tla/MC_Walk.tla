------------------------------ MODULE MC_Walk -------------------------------
(* Walk on a map three squares by two and one square past its edge: two    *)
(* who have nothing to hand against one who has.                           *)
EXTENDS Walk
MCCombatant == 1 .. 3
MCFoes == ({1, 2} \X {3}) \cup ({3} \X {1, 2})
MCArmed == {3}
MCLeft == -1
MCTop == -1
MCBeyond == {<<2, 0>>}
MCStones == {<<0, 0>>}
=============================================================================
