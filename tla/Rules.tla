-------------------------------- MODULE Rules --------------------------------
(***************************************************************************)
(* What a character sheet adds up to, whether it is legal, and what a      *)
(* swing of a weapon on it comes to.                                       *)
(*                                                                         *)
(* Models rules/sheet.py, derive.py, validation.py and attack.py, and the  *)
(* dice of canon_keeper_protocol.  The content they look things up in is   *)
(* a parameter.  Backgrounds, tools and languages are left out, which add  *)
(* up to nothing; so is what a field of the wrong type does.               *)
(***************************************************************************)
EXTENDS Integers, Sequences, SequencesExt

CONSTANTS
  Races,       \* species: what it adds to each ability, and its speed
  Subraces,    \* subspecies: the species it is of, and what it adds
  Classes,     \* class: its die, saves, spellcasting, choices of skills, gear
  Subclasses,  \* subclass: the class it is of
  Skills,      \* skill: its ability
  Spells,      \* spell: its level, and whose it is
  Slots,       \* class, level and spell level, where there are any: slots
  Gear,        \* item: armour, a shield or a weapon
  None         \* nothing chosen, or nothing stored

Ability == {"str", "dex", "con", "int", "wis", "cha"}

(* The content's tables.  A weapon whose damage is no dice, as the         *)
(* blowgun's "1" is none, has a count of nought.                           *)
ASSUME RulesAssumption ==
  /\ \A s \in DOMAIN Races : Races[s].bonus \in [Ability -> Int]
  /\ \A s \in DOMAIN Subraces : Subraces[s].bonus \in [Ability -> Int]
  /\ \A c \in DOMAIN Classes : \A k \in Range(Classes[c].choices) : k.skills \subseteq DOMAIN Skills
  /\ \A s \in DOMAIN Spells : Spells[s].level \in Nat
  /\ \A w \in DOMAIN Gear : Gear[w].kind = "weapon" =>
       {Gear[w].count, Gear[w].sides} \subseteq Nat

\* min and max
Lower(a, b) == IF a < b THEN a ELSE b
Higher(a, b) == IF a > b THEN a ELSE b

NewSheet ==
  [species |-> None, subspecies |-> None, class |-> None, subclass |-> None,
   level |-> 1, abilities |-> [a \in Ability |-> 10],
   improvements |-> [a \in Ability |-> 0], skills |-> {}, rolled |-> <<>>,
   hp |-> None, equipment |-> <<>>, known |-> {}, prepared |-> {},
   used |-> [n \in 1 .. 9 |-> 0], overrides |-> <<>>]

(* What the rules take for granted of a sheet (is_sheet, _scores).         *)
IsSheet(s) ==
  /\ DOMAIN s = DOMAIN NewSheet /\ s = [x \in DOMAIN s |-> s[x]]
  /\ s.level \in Int
  /\ s.abilities \in [Ability -> Int] /\ s.improvements \in [Ability -> Int]

-----------------------------------------------------------------------------
(* derive.py                                                               *)

Modifier(score) == (score - 10) \div 2

ProficiencyBonus(level) == 2 + (Higher(1, Lower(level, 20)) - 1) \div 4

Added(table, index, a) == IF index \in DOMAIN table THEN table[index].bonus[a] ELSE 0

(* ability_scores, species_bonuses                                         *)
Score(sheet, a) ==
  sheet.abilities[a] + sheet.improvements[a]
    + Added(Races, sheet.species, a) + Added(Subraces, sheet.subspecies, a)

Mod(sheet, a) == Modifier(Score(sheet, a))

HitDie(sheet) == IF sheet.class \in DOMAIN Classes THEN Classes[sheet.class].die ELSE 8

(* Where a rule and an override disagree, the override wins.               *)
Overridden(sheet, field, derived) ==
  IF field \in DOMAIN sheet.overrides THEN sheet.overrides[field] ELSE derived

(* A level nobody rolled for is worth the average.                         *)
MaxHitPoints(sheet) ==
  LET con == Mod(sheet, "con")
      gained == [i \in 1 .. sheet.level - 1 |->
                  IF i \in DOMAIN sheet.rolled THEN sheet.rolled[i] ELSE HitDie(sheet) \div 2 + 1]
  IN Overridden(sheet, "hp_max",
       Higher(sheet.level,
            HitDie(sheet) + sheet.level * con + SumFunction(gained)))

(* A new sheet starts at full. *)
HitPointsNow(sheet) == IF sheet.hp = None THEN MaxHitPoints(sheet) ELSE sheet.hp

Items(sheet, kind) ==
  SelectSeq([i \in DOMAIN sheet.equipment |-> Gear[sheet.equipment[i].index]],
            LAMBDA item : item.kind = kind)

(* The last armour on the list is what is worn, and every shield counts.   *)
ArmourClass(sheet) ==
  LET dex == Mod(sheet, "dex")
      worn == Items(sheet, "armour")
      base == IF worn = <<>> THEN 10 + dex
              ELSE Last(worn).base + IF Last(worn).dex THEN Lower(dex, Last(worn).most) ELSE 0
      shields == FoldSeq(LAMBDA item, sum : item.base + sum, 0, Items(sheet, "shield"))
  IN Overridden(sheet, "ac", base + shields)

Speed(sheet) ==
  Overridden(sheet, "speed",
    IF sheet.species \in DOMAIN Races THEN Races[sheet.species].speed ELSE 30)

Bonus(sheet, proficient) == IF proficient THEN ProficiencyBonus(sheet.level) ELSE 0

SavingThrow(sheet, a) ==
  Mod(sheet, a) + Bonus(sheet, sheet.class \in DOMAIN Classes /\ a \in Classes[sheet.class].saves)

SkillBonus(sheet, s) == Mod(sheet, Skills[s]) + Bonus(sheet, s \in sheet.skills)

SpellcastingAbility(class) == IF class \in DOMAIN Classes THEN Classes[class].casts ELSE None

IsCaster(class) == SpellcastingAbility(class) # None

SpellAttackBonus(sheet) ==
  IF IsCaster(sheet.class)
  THEN ProficiencyBonus(sheet.level) + Mod(sheet, SpellcastingAbility(sheet.class)) ELSE None

SpellSaveDC(sheet) == IF IsCaster(sheet.class) THEN 8 + SpellAttackBonus(sheet) ELSE None

SpellSlots(sheet) ==
  LET Row(n) == <<sheet.class, sheet.level, n>>
  IN [n \in {m \in 1 .. 9 : Row(m) \in DOMAIN Slots} |-> Slots[Row(n)]]

SlotsRemaining(sheet) ==
  [n \in DOMAIN SpellSlots(sheet) |-> Higher(0, SpellSlots(sheet)[n] - sheet.used[n])]

Summary(sheet) ==
  [description |-> <<sheet.level, sheet.species, sheet.class>>,
   abilities |-> [a \in Ability |-> Score(sheet, a)],
   hp_max |-> MaxHitPoints(sheet), ac |-> ArmourClass(sheet),
   initiative |-> Mod(sheet, "dex"), speed |-> Speed(sheet),
   saves |-> [a \in Ability |-> SavingThrow(sheet, a)],
   skills |-> [s \in DOMAIN Skills |-> SkillBonus(sheet, s)],
   perception |-> 10 + SkillBonus(sheet, "perception"),
   dc |-> SpellSaveDC(sheet), attack |-> SpellAttackBonus(sheet),
   slots |-> SpellSlots(sheet), remaining |-> SlotsRemaining(sheet)]

-----------------------------------------------------------------------------
(* validation.py                                                           *)

Belongs(sub, table, of) == sub = None \/ (sub \in DOMAIN table /\ (of = None \/ table[sub].of = of))

(* validate: the fields something is wrong with.                           *)
Problems(sheet) ==
  {f \in {"level", "abilities", "improvements", "species", "class", "subspecies", "subclass", "skills", "rolled"} :
     CASE f = "level"      -> sheet.level \notin 1 .. 20
       [] f = "abilities"  -> \E a \in Ability : sheet.abilities[a] \notin 1 .. 30
       [] f = "improvements" -> SumFunction(sheet.improvements) > 12
       [] f = "species"    -> sheet.species \notin DOMAIN Races \cup {None}
       [] f = "class"      -> sheet.class \notin DOMAIN Classes \cup {None}
       [] f = "subspecies" -> ~Belongs(sheet.subspecies, Subraces, sheet.species)
       [] f = "subclass"   -> ~Belongs(sheet.subclass, Subclasses, sheet.class)
       [] f = "skills"     -> ~(sheet.skills \subseteq DOMAIN Skills)
       [] f = "rolled"     -> \/ Len(sheet.rolled) > Higher(0, sheet.level - 1)
                              \/ \E i \in DOMAIN sheet.rolled : sheet.rolled[i] \notin 1 .. 20}

-----------------------------------------------------------------------------
(* attack.py                                                               *)

Weapons(sheet) ==
  {w \in DOMAIN Gear : Gear[w].kind = "weapon" /\ \E e \in Range(sheet.equipment) : e.index = w}

(* damage_bonus                                                            *)
DamageBonus(sheet, w) ==
  CASE Gear[w].finesse -> Higher(Mod(sheet, "str"), Mod(sheet, "dex"))
    [] Gear[w].ranged  -> Mod(sheet, "dex")
    [] OTHER           -> Mod(sheet, "str")

AttackBonus(sheet, w) == DamageBonus(sheet, w) + ProficiencyBonus(sheet.level)

(* A bug: the least that can be rolled is a number like any other. *)
HitsByNumber(sheet, w, ac, natural) == natural = 20 \/ natural + AttackBonus(sheet, w) >= ac

Hits(sheet, w, ac, natural) ==
  natural = 20 \/ (natural # 1 /\ natural + AttackBonus(sheet, w) >= ac)

(* MAX_DICE, MAX_SIDES: the dice that can be rolled.                       *)
IsDice(count, sides) == count \in 1 .. 100 /\ sides \in 2 .. 1000

(* roll: what so many dice can come to; what are no dice raise.            *)
Rolled(count, sides) == IF IsDice(count, sides) THEN count .. count * sides ELSE {}

(* resolve: what the blow can do, which is nothing where it raises.        *)
Damage(sheet, w, ac, natural) ==
  LET count == IF natural = 20 THEN 2 * Gear[w].count ELSE Gear[w].count
  IN IF Hits(sheet, w, ac, natural)
     THEN {Higher(1, r + DamageBonus(sheet, w)) : r \in Rolled(count, Gear[w].sides)}
     ELSE {0}
=============================================================================
