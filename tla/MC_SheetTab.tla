----------------------------- MODULE MC_SheetTab -----------------------------
(* Two species, two classes that cast and one that does not, and a class   *)
(* that chooses an instrument as well as a skill.                          *)
EXTENDS SheetTab

Plus(a, n) == [b \in Ability |-> IF b = a THEN n ELSE 0]

RacesMC ==
  [elf   |-> [bonus |-> Plus("dex", 2), speed |-> 30],
   dwarf |-> [bonus |-> Plus("con", 2), speed |-> 25]]

SubracesMC == "high-elf" :> [of |-> "elf", bonus |-> Plus("int", 1)]

ClassesMC ==
  [wizard  |-> [die |-> 6, saves |-> {"int", "wis"}, casts |-> "int",
                choices |-> <<[choose |-> 1, skills |-> {"arcana", "history"}]>>,
                gear |-> <<[index |-> "quarterstaff", qty |-> 1]>>],
   bard    |-> [die |-> 8, saves |-> {"dex", "cha"}, casts |-> "cha",
                choices |-> <<[choose |-> 1, skills |-> {"arcana", "history", "perception"}],
                              [choose |-> 1, skills |-> {}]>>,
                gear |-> <<[index |-> "rapier", qty |-> 1], [index |-> "leather-armor", qty |-> 1]>>],
   fighter |-> [die |-> 10, saves |-> {"str", "con"}, casts |-> None,
                choices |-> <<[choose |-> 1, skills |-> {"history", "perception"}]>>,
                gear |-> <<[index |-> "chain-mail", qty |-> 1], [index |-> "greatclub", qty |-> 1]>>]]

SubclassesMC == [evocation |-> [of |-> "wizard"], champion |-> [of |-> "fighter"]]

SkillsMC == [arcana |-> "int", history |-> "int", perception |-> "wis"]

SpellsMC ==
  [light |-> [level |-> 0, classes |-> {"wizard", "bard"}],
   sleep |-> [level |-> 1, classes |-> {"wizard", "bard"}],
   web   |-> [level |-> 2, classes |-> {"wizard"}]]

SlotsMC ==
  <<"wizard", 1, 1>> :> 2 @@ <<"bard", 1, 1>> :> 2 @@ <<"wizard", 3, 1>> :> 4
    @@ <<"wizard", 3, 2>> :> 2 @@ <<"bard", 3, 1>> :> 4 @@ <<"bard", 3, 2>> :> 2

Weapon(count, sides, finesse) ==
  [kind |-> "weapon", count |-> count, sides |-> sides, ranged |-> FALSE, finesse |-> finesse]

GearMC ==
  "quarterstaff" :> Weapon(1, 6, FALSE) @@ "rapier" :> Weapon(1, 8, TRUE)
    @@ "greatclub" :> Weapon(2, 4, FALSE) @@ "club" :> Weapon(1, 4, FALSE)
    @@ "blowgun" :> [Weapon(0, 0, FALSE) EXCEPT !.ranged = TRUE]
    @@ "longbow" :> [Weapon(1, 8, FALSE) EXCEPT !.ranged = TRUE]
    @@ "chain-mail" :> [kind |-> "armour", base |-> 16, dex |-> FALSE]
    @@ "leather-armor" :> [kind |-> "armour", base |-> 11, dex |-> TRUE, most |-> 99]
    @@ "shield" :> [kind |-> "shield", base |-> 2]

Array(con, str) ==
  [str |-> str, dex |-> 13, con |-> con, int |-> 15, wis |-> 12, cha |-> 10]

ScoresMC == {Array(14, 8), Array(8, 14), Array(20, 20), Array(8, 8)}

TouchesMC == {"con" :> 8, "con" :> 16, "dex" :> 3}

SamplesMC ==
  {[NewSheet EXCEPT !.species = "dwarf", !.class = "fighter", !.level = 3, !.rolled = <<2, 9>>,
                    !.equipment = <<[index |-> "longbow", qty |-> 1], [index |-> "club", qty |-> 1]>>],
   [NewSheet EXCEPT !.class = "wizard", !.subclass = "evocation", !.level = 3,
                    !.improvements = Plus("con", 2), !.hp = 8, !.known = {"light", "sleep"},
                    !.prepared = {"sleep"}, !.used[1] = 5, !.overrides = [ac |-> 15],
                    !.equipment = <<[index |-> "blowgun", qty |-> 1]>>]}
=============================================================================
