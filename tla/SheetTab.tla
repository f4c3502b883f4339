------------------------------- MODULE SheetTab -------------------------------
(***************************************************************************)
(* A character made a page at a time, and its sheet edited afterwards on   *)
(* the DM's screen, where everything derived is worked out again at each   *)
(* touch.                                                                  *)
(*                                                                         *)
(* Models CharacterWizard (panels/characters/wizard.py), SheetWidget       *)
(* (sheet_tab.py) as the DM has it, and what panels/characters/widget.py   *)
(* does with both.  Other hands on the same character are in Sheets; here  *)
(* a blow is one more thing that has the tab read the sheet again.         *)
(*                                                                         *)
(* A combo box, a spin box or a tick is what it holds; a touch of one is   *)
(* one action, with every signal it sets off.                              *)
(***************************************************************************)
EXTENDS Rules, FiniteSets

CONSTANTS
  Samples,    \* sheets a campaign may already have
  Levels,     \* levels somebody tries
  Scores,     \* scores somebody tries, with the standard array among them
  Touches,    \* changes to one score tried on the tab
  SkillsTried, HitPointsTried,
  Found,      \* items added on the tab
  ArmourClasses, \* of whoever is swung at
  MaxTouches  \* bound: touches on the wizard and the tab

(* What a campaign has was saved legal (save, _handle_edit), and what is   *)
(* here leaves out what a request approved late can make of it (decide);   *)
(* the boxes go no further than the rules do (_build_identity,             *)
(* _build_abilities).                                                      *)
ASSUME SheetTabAssumption ==
  /\ \A s \in Samples : IsSheet(s) /\ Problems(s) \subseteq {"rolled"}
  /\ Levels \subseteq 1 .. 20
  /\ Scores \subseteq [Ability -> Int]
  /\ \A t \in Touches : DOMAIN t \subseteq Ability /\ \A a \in DOMAIN t : t[a] \in 1 .. 30
  /\ SkillsTried \subseteq DOMAIN Skills
  /\ ArmourClasses \subseteq Int

VARIABLES
  page,       \* the wizard's, or "tab"
  boxes,      \* what the boxes hold
  method,     \* how the wizard's scores are come by
  ticks,      \* the wizard's list of skills or spells
  held,       \* the wizard's sheet, or the tab's
  lastMax,    \* _last_max_hp
  picker,     \* the spells offered, and for which class
  shown,      \* the derived numbers on the tab
  stored,     \* data["sheet"] of the campaign, or None
  touches

wizard  == <<method, ticks>>
tab     == <<lastMax, picker, shown>>
tabVars == <<page, boxes, wizard, held, tab, stored, touches>>

SpellsFor(class) == {s \in DOMAIN Spells : class \in Spells[s].classes}

-----------------------------------------------------------------------------
(* The boxes                                                               *)

WithSpecies(f, s) == [f EXCEPT !.species = s, !.subspecies = None]

(* A bug: the subclasses offered are still the last class's. *)
WithClassAlone(f, c) == [f EXCEPT !.class = c]

(* _class_changed, _on_class_changed                                       *)
WithClass(f, c) == [f EXCEPT !.class = c, !.subclass = None]

(* A touch of one of the boxes both screens have.                          *)
Chosen(f) ==
  {WithSpecies(f, s) : s \in DOMAIN Races \cup {None}}
    \cup {WithClass(f, c) : c \in DOMAIN Classes \cup {None}}
    \cup {[f EXCEPT !.subspecies = s] : s \in {t \in DOMAIN Subraces : Subraces[t].of = f.species}}
    \cup {[f EXCEPT !.subclass = s] : s \in {t \in DOMAIN Subclasses : Subclasses[t].of = f.class}}
    \cup {[f EXCEPT !.level = n] : n \in Levels}

WithScore(scores, t) == [a \in Ability |-> IF a \in DOMAIN t THEN t[a] ELSE scores[a]]

Touch == touches < MaxTouches /\ touches' = touches + 1

-----------------------------------------------------------------------------
(* Making a character                                                      *)

Blank ==
  [species |-> None, subspecies |-> None, class |-> None, subclass |-> None, level |-> 1,
   abilities |-> [a \in Ability |-> 10], skills |-> {}, hp |-> 0, prepared |-> {}]

StandardArray == {15, 14, 13, 12, 10, 8}

PointBuyCost ==
  8 :> 0 @@ 9 :> 1 @@ 10 :> 2 @@ 11 :> 3 @@ 12 :> 4 @@ 13 :> 5 @@ 14 :> 7 @@ 15 :> 9

(* AbilitiesPage.isComplete                                                *)
Complete(m, scores) ==
  CASE m = "array"     -> {scores[a] : a \in Ability} = StandardArray
    [] m = "point-buy" -> SumFunction([a \in Ability |-> PointBuyCost[scores[a]]]) <= 27
    [] m = "manual"    -> TRUE

(* The skills on the list, and how many: every choice of proficiencies is  *)
(* counted, whether it is of skills or not.                                *)
Offered(class) ==
  LET listed == IF class \in DOMAIN Classes
                THEN UNION {c.skills : c \in Range(Classes[class].choices)} ELSE {}
  IN IF listed = {} THEN DOMAIN Skills ELSE listed

Allowed(class) ==
  IF class \in DOMAIN Classes /\ \E c \in Range(Classes[class].choices) : c.skills # {}
  THEN FoldSeq(LAMBDA c, n : c.choose + n, 0, Classes[class].choices) ELSE 2

Writing(p) == page = p /\ UNCHANGED <<tab, stored>>

(* A bug: coming back to the page finds it as it was left. *)
TurnToOld(p) == page' = p /\ UNCHANGED ticks

(* initializePage of a page with a list.                                   *)
TurnTo(p) == page' = p /\ ticks' = {}

ChooseBasics ==
  /\ Writing("basics") /\ Touch
  /\ boxes' \in Chosen(boxes)
  /\ UNCHANGED <<page, wizard, held>>

(* BasicsPage.validatePage                                                 *)
NextFromBasics ==
  /\ Writing("basics") /\ page' = "abilities"
  /\ held' = [held EXCEPT !.species = boxes.species, !.subspecies = boxes.subspecies,
                          !.class = boxes.class, !.subclass = boxes.subclass,
                          !.level = boxes.level]
  /\ UNCHANGED <<boxes, wizard, touches>>

(* _method_changed sets the range of the boxes, and what is beyond it goes *)
(* to its end; the array has boxes of its own.                             *)
ChooseScores ==
  /\ Writing("abilities") /\ Touch
  /\ method' \in {"array", "point-buy", "manual"}
  /\ \E s \in Scores :
       LET low == IF method' = "point-buy" THEN 8 ELSE 1
           high == IF method' = "point-buy" THEN 15 ELSE 20
       IN boxes' = [boxes EXCEPT !.abilities = [a \in Ability |-> Higher(low, Lower(high, s[a]))]]
  /\ UNCHANGED <<page, ticks, held>>

NextFromAbilities ==
  /\ Writing("abilities") /\ Complete(method, boxes.abilities)
  /\ held' = [held EXCEPT !.abilities = boxes.abilities]
  /\ TurnTo("skills")
  /\ UNCHANGED <<boxes, method, touches>>

TickSkill ==
  /\ Writing("skills")
  /\ \E s \in Offered(held.class) : ticks' = (ticks \ {s}) \cup ({s} \ ticks)
  /\ UNCHANGED <<page, boxes, method, held, touches>>

(* SkillsPage.isComplete and validatePage, and nextId.                     *)
NextFromSkills ==
  /\ Writing("skills") /\ Cardinality(ticks) = Allowed(held.class)
  /\ held' = [held EXCEPT !.skills = ticks]
  /\ TurnTo(IF IsCaster(held.class) THEN "spells" ELSE "review")
  /\ UNCHANGED <<boxes, method, touches>>

(* SpellsPage lists what there are slots for, and cantrips.                *)
TickSpell ==
  /\ Writing("spells")
  /\ \E s \in SpellsFor(held.class) :
       /\ \A n \in 1 .. Spells[s].level :
            \E m \in DOMAIN SpellSlots(held) : n <= m
       /\ ticks' = (ticks \ {s}) \cup ({s} \ ticks)
  /\ UNCHANGED <<page, boxes, method, held, touches>>

NextFromSpells ==
  /\ Writing("spells")
  /\ held' = [held EXCEPT !.known = ticks, !.prepared = ticks]
  /\ TurnTo("review")
  /\ UNCHANGED <<boxes, method, touches>>

(* The page left keeps nothing; the one come back to is as it was.         *)
Back ==
  /\ page \in {"abilities", "skills", "spells", "review"}
  /\ CASE page = "abilities" -> page' = "basics" /\ ticks' = {}
       [] page = "skills"    -> page' = "abilities" /\ ticks' = {}
       [] page = "review" /\ IsCaster(held.class) -> page' = "spells" /\ ticks' = held.known
       [] OTHER              -> page' = "skills" /\ ticks' = held.skills
  /\ UNCHANGED <<boxes, method, held, tab, stored, touches>>

(* finished_sheet                                                          *)
Finished ==
  [held EXCEPT !.hp = None,
               !.equipment = IF held.class \in DOMAIN Classes THEN Classes[held.class].gear ELSE <<>>]

-----------------------------------------------------------------------------
(* Its sheet                                                               *)

(* _gather                                                                 *)
Gather(sheet, f) ==
  [sheet EXCEPT !.species = f.species, !.subspecies = f.subspecies, !.class = f.class,
                !.subclass = f.subclass, !.level = f.level, !.abilities = f.abilities,
                !.skills = f.skills, !.hp = f.hp, !.prepared = f.prepared]

Cantrips(known) == {s \in known : Spells[s].level = 0}

Offer(class, known) == [class |-> class, spells |-> SpellsFor(class) \ known]

(* _load_spells offers the class of the sheet as it was loaded.            *)
LoadSpells(sheet, f) == Offer(sheet.class, sheet.known)

(* _refresh: hit points that were at the maximum go with it.               *)
Refresh(sheet, f, max, offered) ==
  LET maximum == MaxHitPoints(Gather(sheet, f))
      followed == IF f.hp = max THEN [f EXCEPT !.hp = maximum] ELSE f
  IN /\ boxes' = followed
     /\ lastMax' = maximum
     /\ shown' = Summary(Gather(sheet, f))
     /\ picker' = IF IsCaster(f.class) /\ offered.class # f.class
                  THEN Offer(f.class, sheet.known) ELSE offered

(* set_entity, _load: a box that has no such choice is set to none.        *)
Load(sheet) ==
  LET f == [species |-> sheet.species, subspecies |-> sheet.subspecies,
            class |-> sheet.class, subclass |-> sheet.subclass, level |-> sheet.level,
            abilities |-> sheet.abilities, skills |-> sheet.skills,
            hp |-> HitPointsNow(sheet),
            prepared |-> (sheet.prepared \cap sheet.known) \cup Cantrips(sheet.known)]
  IN /\ held' = sheet
     /\ Refresh(sheet, f, MaxHitPoints(sheet), LoadSpells(sheet, f))

OnTab == page = "tab" /\ held # None /\ UNCHANGED <<page, wizard>>

(* _build_character                                                        *)
Finish ==
  /\ page = "review" /\ page' = "tab"
  /\ stored' = Finished /\ Load(Finished)
  /\ UNCHANGED <<wizard, touches>>

(* _create_sheet                                                           *)
CreateSheet ==
  /\ page = "tab" /\ held = None
  /\ stored' = NewSheet /\ Load(NewSheet)
  /\ UNCHANGED <<page, wizard, touches>>

(* _changed                                                                *)
Changed(sheet, f) == Refresh(sheet, f, lastMax, picker)

Edit ==
  /\ OnTab /\ Touch
  /\ \E f \in Chosen(boxes)
              \cup {[boxes EXCEPT !.abilities = WithScore(@, t)] : t \in Touches}
              \cup {[boxes EXCEPT !.skills = (@ \ {s}) \cup ({s} \ @)] : s \in SkillsTried} :
       Changed(held, f)
  /\ UNCHANGED <<held, stored>>

TypeHitPoints ==
  /\ OnTab /\ Touch
  /\ \E n \in HitPointsTried \ {boxes.hp} : Changed(held, [boxes EXCEPT !.hp = n])
  /\ UNCHANGED <<held, stored>>

Prepare ==
  /\ OnTab /\ Touch
  /\ \E s \in held.known : Changed(held, [boxes EXCEPT !.prepared = (@ \ {s}) \cup ({s} \ @)])
  /\ UNCHANGED <<held, stored>>

(* _add_equipment and _remove_equipment                                    *)
Carry ==
  /\ OnTab /\ Touch
  /\ \/ \E item \in Found :
          held' = [held EXCEPT !.equipment =
            IF \E e \in Range(@) : e.index = item
            THEN [i \in DOMAIN @ |-> IF @[i].index = item THEN [@[i] EXCEPT !.qty = @ + 1] ELSE @[i]]
            ELSE Append(@, [index |-> item, qty |-> 1])]
     \/ \E entry \in Range(held.equipment) :
          held' = [held EXCEPT !.equipment = SelectSeq(@, LAMBDA e : e.index # entry.index)]
  /\ Changed(held', boxes)
  /\ UNCHANGED stored

(* _load_spells ticks what the sheet had prepared when it was loaded.      *)
Relisted(sheet) ==
  [boxes EXCEPT !.prepared = (sheet.prepared \cap sheet.known) \cup Cantrips(sheet.known)]

Learn ==
  /\ OnTab /\ Touch /\ IsCaster(boxes.class)
  /\ \E s \in picker.spells :
       held' = [held EXCEPT !.known = @ \cup {s}]
  /\ Refresh(held', Relisted(held'), lastMax, LoadSpells(held', boxes))
  /\ UNCHANGED stored

Forgotten(s) == [held EXCEPT !.known = @ \ {s}, !.prepared = @ \ {s}]

Forget ==
  /\ OnTab /\ Touch /\ IsCaster(boxes.class)
  /\ \E s \in held.known : held' = Forgotten(s)
  /\ Refresh(held', Relisted(held'), lastMax, LoadSpells(held', boxes))
  /\ UNCHANGED stored

(* save: what validate has nothing to say of.                              *)
MaySave(sheet) == Problems(sheet) = {}

(* The panel reads it back, as it does whatever another has written.       *)
Save ==
  /\ OnTab /\ MaySave(Gather(held, boxes))
  /\ stored' = Gather(held, boxes) /\ Load(Gather(held, boxes))
  /\ UNCHANGED touches

Hurt ==
  /\ OnTab /\ Touch
  /\ \E n \in HitPointsTried :
       LET sheet == [stored EXCEPT !.hp = n]
       IN stored' = sheet /\ Load(sheet)

(* The character chosen, or chosen again after another.                    *)
Choose ==
  /\ page = "tab" /\ stored # None /\ Load(stored)
  /\ UNCHANGED <<page, wizard, stored, touches>>

TabInit ==
  /\ boxes = Blank /\ method = "array" /\ ticks = {}
  /\ lastMax = 0 /\ picker = Offer(None, {}) /\ shown = Summary(NewSheet)
  /\ touches = 0
  /\ \/ page = "basics" /\ held = NewSheet /\ stored = None
     \/ page = "tab" /\ held = None /\ stored \in Samples \cup {None}

Making ==
  \/ ChooseBasics \/ NextFromBasics
  \/ ChooseScores \/ NextFromAbilities
  \/ TickSkill \/ NextFromSkills
  \/ TickSpell \/ NextFromSpells
  \/ Back \/ Finish

Editing ==
  \/ Choose \/ CreateSheet
  \/ Edit \/ TypeHitPoints \/ Prepare \/ Carry \/ Learn \/ Forget
  \/ Save \/ Hurt

TabNext == Making \/ Editing

TabSpec == TabInit /\ [][TabNext]_tabVars

-----------------------------------------------------------------------------
(* Properties                                                              *)

OpenTab == page = "tab" /\ held # None

(* However the boxes are touched, and in whatever order, the tab cannot be *)
(* brought to refuse a save but for hit dice rolled at levels since taken  *)
(* away, which it has no box for: one box never leaves another illegal     *)
(* (_on_species_changed, _on_class_changed, validate).                     *)
OnlyRollsAreRefused == OpenTab => Problems(Gather(held, boxes)) \subseteq {"rolled"}

(* Whatever was chosen before coming back to a page, a character leaves    *)
(* the wizard with the skills its own class chooses from, as many as the   *)
(* page asks for, and if it casts, with spells of its class that there are *)
(* slots for (initializePage, isComplete, nextId).                         *)
ChosenAsTheClassAllows ==
  page = "review" =>
    /\ held.skills \subseteq Offered(held.class)
    /\ Cardinality(held.skills) = Allowed(held.class)
    /\ IsCaster(held.class) => \A s \in held.known :
         /\ s \in SpellsFor(held.class)
         /\ Spells[s].level = 0 \/ \E n \in DOMAIN SpellSlots(held) : Spells[s].level <= n

(* Of the twenty ways a die falls, as many hit as the bonus and the armour *)
(* say, never all of them and never none; a hit always hurts, a miss never *)
(* does, and a critical hurts by the same bonus and twice the dice, where  *)
(* there are so many to roll (resolve).                                    *)
BlowsAreFair ==
  OpenTab => \A w \in Weapons(held), ac \in ArmourClasses :
    LET hits == {n \in 1 .. 20 : Hits(held, w, ac, n)}
        worst == Higher(1, DamageBonus(held, w) + 2 * Gear[w].count * Gear[w].sides)
    IN /\ Cardinality(hits) = Higher(1, Lower(19, 21 + AttackBonus(held, w) - ac))
       /\ \A n \in 1 .. 20 :
            IF n \in hits THEN 0 \notin Damage(held, w, ac, n) ELSE Damage(held, w, ac, n) = {0}
       /\ IsDice(2 * Gear[w].count, Gear[w].sides) =>
            worst \in Damage(held, w, ac, 20) /\ worst + 1 \notin Damage(held, w, ac, 20)

=============================================================================
