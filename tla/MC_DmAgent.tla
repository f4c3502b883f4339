---------------------------- MODULE MC_DmAgent ----------------------------
(* Two monsters and a character its player keeps, one fight after the other. *)
EXTENDS DmAgent

CONSTANTS gob, ork, hero, l1

MCCreature == {gob, ork, hero}
MCMachine == {gob, ork}
MCOrder == <<gob, ork, hero>>
MCLine == {l1}
MCFirst == {hero}
MCOffered == {"next_turn", "attack", "start_combat"}
MCTask == 1..4

(* A monster and a character its player keeps, and nobody says anything.    *)
DuelCreature == {gob, hero}
DuelMachine == {gob}
DuelOrder == <<gob, hero>>
DuelLine == {}
DuelOffered == {"look_at_the_map"}
=============================================================================
