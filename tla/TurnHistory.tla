---------------------------- MODULE TurnHistory -----------------------------
(***************************************************************************)
(* TurnOrder with its history: how often each combatant has had the turn   *)
(* in this round.  The table itself keeps no such record -- it has one id  *)
(* and a round number -- so that everybody acts once a round is nowhere    *)
(* stored and nowhere checked; it follows, or fails to, from how the id    *)
(* moves.  The added variables only watch: every step is a step of         *)
(* TurnOrder.                                                              *)
(***************************************************************************)
EXTENDS TurnOrder

VARIABLES
  turns,    \* turns each combatant has had this round, counted up to two
  stayed,   \* in the fight and not resting ever since the round started
  excuses   \* what has happened this round that moves turns about

history == <<turns, stayed, excuses>>
hvars == <<vars, history>>

Excuses ==
  {"reordered",   \* an initiative was changed
   "nobodyUp",    \* there was nobody the turn could be handed to
   "deleted"}     \* the creature whose turn it was has been deleted

HTypeOK ==
  /\ turns \in [Combatant -> 0 .. 2]
  /\ stayed \subseteq Combatant
  /\ excuses \subseteq Excuses

HInit ==
  /\ Init
  /\ turns = [c \in Combatant |-> 0]
  /\ stayed = {}
  /\ excuses = {}

(* A round starts, or the fight is over.                                   *)
StartCount ==
  /\ turns' = [c \in Combatant |-> IF c = turn' THEN 1 ELSE 0]
  /\ stayed' = members' \ resting'
  /\ excuses' = {}

OneMore(n) == IF n < 2 THEN n + 1 ELSE n

NewExcuses ==
  (IF \E c \in members \cap members' : score'[c] # score[c]
   THEN {"reordered"} ELSE {})
  \cup
  (IF turn # NoOne /\ turn' = NoOne
   THEN IF turn \notin members' /\ members' # {} THEN {"deleted"} ELSE {"nobodyUp"}
   ELSE {})

(* Within a round.  A new row may get the id of one that is gone, so what  *)
(* was counted of an id goes with its row.                                 *)
KeepCount ==
  /\ turns' = [c \in Combatant |->
                 CASE c \notin members'             -> 0
                   [] c = turn' /\ turn' # turn     -> OneMore(turns[c])
                   [] OTHER                         -> turns[c]]
  /\ stayed' = stayed \cap (members' \ resting')
  /\ excuses' = excuses \cup NewExcuses

HNext ==
  \/ Begin /\ StartCount
  \/ Onwards /\ IF round' # round THEN StartCount ELSE KeepCount

HSpec == HInit /\ [][HNext]_hvars

-----------------------------------------------------------------------------
(* Properties                                                              *)

(* A round with nothing to excuse it gives nobody a second turn, whoever   *)
(* is added, removed, struck down or brought round in the middle of it.    *)
NobodyActsTwice ==
  excuses = {} => \A c \in members : turns[c] <= 1

(* Nor does it end before everybody who was there and on their feet all    *)
(* along has had theirs.                                                   *)
LeavesNobodyOut ==
  HasBegun /\ round' = round + 1 /\ excuses = {}
    => \A c \in stayed : turns[c] >= 1

NobodyIsSkipped == [][LeavesNobodyOut]_hvars

(* What makes both so: the turn is somebody's, those who have had one are  *)
(* those at or above the marker, and the marker has passed over nobody.    *)
Reached(c) == c = turn \/ Before(score, c, turn)

MarkerDividesTheRound ==
  excuses = {} /\ HasBegun =>
    /\ turn # NoOne
    /\ \A c \in members : turns[c] > 0 => Reached(c)
    /\ \A c \in stayed : Reached(c) => turns[c] > 0
    /\ \A c \in Combatant : turns[c] <= 1
=============================================================================
