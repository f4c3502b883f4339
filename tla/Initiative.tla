----------------------------- MODULE Initiative -----------------------------
(***************************************************************************)
(* The initiative order of a fight: who acts before whom, who is first,    *)
(* and who is up next.  Constant-level operators over a set of combatant   *)
(* ids and their scores, shared by every module in which a turn passes.    *)
(*                                                                         *)
(* Models Combatant.sort_key and order_of of                               *)
(* canon_keeper/repo/encounters.py, and the walk down the order that       *)
(* EncounterRepo.advance makes.  A list sorted by a total, stable key is   *)
(* the same thing as a strict total order on the ids, so the order is a    *)
(* relation here and never a sequence: an id, not an index.                *)
(***************************************************************************)
EXTENDS Integers

CONSTANTS
  Combatant,    \* ids of the rows of table combatant
  NoOne,        \* SQL NULL in encounter.turn_combatant_id, None in Python
  Initiatives,  \* the initiative totals that are rolled or typed in
  Tiebreaks,    \* Dexterity modifiers
  Unrolled,     \* SQL NULL in combatant.initiative
  Highest       \* an integer column has a largest value

ASSUME CombatantAssumption ==
  /\ Combatant \subseteq Nat \ {0}
  /\ NoOne \notin Combatant

ASSUME ScoreAssumption ==
  /\ Highest \in Int
  /\ Initiatives \subseteq Int
  /\ Tiebreaks \subseteq Int
  /\ \A n \in Initiatives \cup Tiebreaks : n <= Highest
  /\ Unrolled \notin Int

Score == [initiative : Initiatives \cup {Unrolled}, tiebreak : Tiebreaks]

(* The sort key compared: initiative down with unrolled last, tiebreak    *)
(* down, id up.                                                            *)
Before(score, c, d) ==
  LET p == score[c]
      q == score[d]
  IN \/ p.initiative # Unrolled /\ q.initiative = Unrolled
     \/ /\ p.initiative # Unrolled
        /\ q.initiative # Unrolled
        /\ p.initiative > q.initiative
     \/ p.initiative = q.initiative /\ p.tiebreak > q.tiebreak
     \/ p.initiative = q.initiative /\ p.tiebreak = q.tiebreak /\ c < d

(* The combatants of S that come after c. *)
After(score, S, c) == {d \in S : Before(score, c, d)}

(* The top of the order.  S is not empty. *)
First(score, S) ==
  CHOOSE c \in S : \A d \in S \ {c} : Before(score, c, d)

(* Whether the walk from c runs off the end of the order before it finds a *)
(* combatant who takes turns, and the combatant it stops at.               *)
Wraps(score, standing, c) == After(score, standing, c) = {}

(* A bug: one too far down the order. *)
NextButOne(score, standing, c) ==
  LET n == IF Wraps(score, standing, c)
           THEN First(score, standing)
           ELSE First(score, After(score, standing, c))
  IN IF Wraps(score, standing, n) THEN n ELSE First(score, After(score, standing, n))

NextUp(score, standing, c) ==
  IF Wraps(score, standing, c)
  THEN First(score, standing)
  ELSE First(score, After(score, standing, c))
=============================================================================
