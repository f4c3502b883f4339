----------------------------- MODULE TurnOrder ------------------------------
(***************************************************************************)
(* One fight as EncounterRepo keeps it: who is in it, whose turn it is,    *)
(* which round it is, and what of this turn has been spent.                *)
(*                                                                         *)
(* Models canon_keeper/repo/encounters.py.  Every method is one SQLite     *)
(* transaction or a few run without yielding, called from the host's only  *)
(* thread, so each is one action.  Squares, obstacles and sides are not    *)
(* part of it.  The callers are the DM's Combat panel                      *)
(* (panels/encounter/widget.py), which writes here directly, and the host  *)
(* (net/server.py); where they call a method under a condition, the action *)
(* has the condition.                                                      *)
(*                                                                         *)
(* Whether a creature takes turns depends on hit points, which are not     *)
(* this table's to know: advance is told, from rules/death.resting.  Here  *)
(* that answer is the variable resting, which Falls and Rises change.      *)
(***************************************************************************)
EXTENDS Initiative

CONSTANTS
  MaxRound,  \* bound: rounds of a fight that are explored
  MaxMoved   \* bound: squares of one turn's movement that are counted

ASSUME BoundAssumption ==
  /\ MaxRound \in Nat \ {0}
  /\ MaxMoved \in Nat
  /\ Tiebreaks # {}

VARIABLES
  members,     \* ids of the combatants of this encounter
  score,       \* their initiative and tiebreak
  resting,     \* members at zero hit points who take no turn: dead or stable
  running,     \* encounter.running
  round,       \* encounter.round, 0 until the first turn is taken
  turn,        \* encounter.turn_combatant_id
  moved,       \* encounter.moved_squares
  actionUsed   \* encounter.action_used

clock == <<running, round, turn, moved, actionUsed>>
vars == <<members, score, resting, clock>>

(* What the score of an id says while no row has that id.                  *)
NoScore == [initiative |-> Unrolled, tiebreak |-> CHOOSE t \in Tiebreaks : TRUE]

HasBegun == round > 0

TypeOK ==
  /\ members \subseteq Combatant
  /\ score \in [Combatant -> Score]
  /\ resting \subseteq members
  /\ running \in BOOLEAN
  /\ round \in 0 .. MaxRound
  /\ turn \in Combatant \cup {NoOne}
  /\ moved \in 0 .. MaxMoved
  /\ actionUsed \in BOOLEAN

(* A new fight: created running, empty and not begun.                      *)
Init ==
  /\ members = {}
  /\ score = [c \in Combatant |-> NoScore]
  /\ resting = {}
  /\ running = TRUE
  /\ round = 0
  /\ turn = NoOne
  /\ moved = 0
  /\ actionUsed = FALSE

-----------------------------------------------------------------------------
(* Whose turn it is                                                        *)

(* A bug: the action stays used. *)
FreshTurnKeepingTheAction == moved' = 0 /\ UNCHANGED actionUsed

FreshTurn == moved' = 0 /\ actionUsed' = FALSE

(* The turn is handed to c, in round r, with nothing of it spent.          *)
HandTo(c, r) ==
  /\ r <= MaxRound
  /\ turn' = c
  /\ round' = r
  /\ FreshTurn

(* begin: the top of the order, whoever that is.                           *)
BeginClock == HandTo(First(score, members), 1) /\ running' = TRUE

NobodyUp == turn' = NoOne /\ UNCHANGED <<running, round, moved, actionUsed>>

(* advance(skipping, passing_over), with sets for both arguments.          *)
AdvanceClock(skipping, passingOver) ==
  LET staying  == members \ skipping
      standing == staying \ passingOver
  IN
  \/ staying = {} /\ NobodyUp
  \/ staying # {} /\ ~HasBegun /\ members # {} /\ BeginClock
  \/ staying # {} /\ HasBegun /\ standing = {} /\ NobodyUp
  \/ /\ HasBegun
     /\ standing # {}
     /\ turn \notin members     \* a correction, not a new round
     /\ HandTo(First(score, standing), round)
     /\ UNCHANGED running
  \/ /\ HasBegun
     /\ standing # {}
     /\ turn \in members
     /\ HandTo(NextUp(score, standing, turn),
               IF Wraps(score, standing, turn) THEN round + 1 ELSE round)
     /\ UNCHANGED running

(* begin.  Nothing at all happens in an empty fight.                       *)
Begin ==
  /\ members # {}
  /\ BeginClock
  /\ UNCHANGED <<members, score, resting>>

(* advance as the host calls it: in the fight being run, told who rests.   *)
PassTurn ==
  /\ running
  /\ AdvanceClock({}, resting)
  /\ UNCHANGED <<members, score, resting>>

(* end: everything stays, only the clock stops.                            *)
End ==
  /\ running' = FALSE
  /\ round' = 0
  /\ turn' = NoOne
  /\ FreshTurn
  /\ UNCHANGED <<members, score, resting>>

(* set_running for this fight, or create or set_running for another one.   *)
SetRunning(on) ==
  /\ running' = on
  /\ UNCHANGED <<members, score, resting, round, turn, moved, actionUsed>>

SpendMovement(squares) ==
  /\ moved + squares <= MaxMoved
  /\ moved' = moved + squares
  /\ UNCHANGED <<members, score, resting, running, round, turn, actionUsed>>

UseAction ==
  /\ actionUsed' = TRUE
  /\ UNCHANGED <<members, score, resting, running, round, turn, moved>>

-----------------------------------------------------------------------------
(* Who is in the fight                                                     *)

(* A bug: who is at zero is remembered by id past the row. *)
ForgetKeepingResting(c) ==
  /\ members' = members \ {c}
  /\ score' = [score EXCEPT ![c] = NoScore]
  /\ UNCHANGED resting

(* The row of c is deleted, and with it what was known of c.               *)
Forget(c) ==
  /\ members' = members \ {c}
  /\ resting' = resting \ {c}
  /\ score' = [score EXCEPT ![c] = NoScore]

(* add: SQLite gives a new row the id after the largest in the table.      *)
Add(c, s) ==
  /\ \A d \in members : d < c
  /\ c \notin members
  /\ members' = members \cup {c}
  /\ score' = [score EXCEPT ![c] = s]
  /\ UNCHANGED <<resting, clock>>

(* A bug: the row goes and nothing is done about the turn. *)
RemoveLeavingTheTurn(c) ==
  /\ c \in members
  /\ UNCHANGED clock
  /\ Forget(c)

(* A bug: the gap is closed before looking for who is next. *)
RemoveClosingTheGap(c) ==
  /\ c \in members
  /\ IF turn = c /\ members # {c}
     THEN HandTo(First(score, members \ {c}), round) /\ UNCHANGED running
     ELSE IF turn = c THEN NobodyUp ELSE UNCHANGED clock
  /\ Forget(c)

(* remove: if it was their turn the turn moves on first, and advance is    *)
(* not told who rests.                                                     *)
Remove(c) ==
  /\ c \in members
  /\ IF turn = c THEN AdvanceClock({c}, {}) ELSE UNCHANGED clock
  /\ Forget(c)

(* The creature itself is deleted from the campaign.  The foreign keys     *)
(* delete the row and set the turn to NULL; no method here is called.      *)
CreatureDeleted(c) ==
  /\ c \in members
  /\ turn' = IF turn = c THEN NoOne ELSE turn
  /\ Forget(c)
  /\ UNCHANGED <<running, round, moved, actionUsed>>

(* clear: the room is kept, and what was spent of the turn stays written.  *)
Clear ==
  /\ turn' = NoOne
  /\ members' = {}
  /\ resting' = {}
  /\ score' = [c \in Combatant |-> NoScore]
  /\ round' = 0
  /\ UNCHANGED <<running, moved, actionUsed>>

(* set_initiative, before the fight or in the middle of it.                *)
SetInitiative(c, initiative) ==
  /\ c \in members
  /\ initiative # score[c].initiative
  /\ score' = [score EXCEPT ![c].initiative = initiative]
  /\ UNCHANGED <<members, resting, clock>>

(* A creature dies or comes to lie stable, and stands up again.            *)
Falls(c) ==
  /\ c \in members \ resting
  /\ resting' = resting \cup {c}
  /\ UNCHANGED <<members, score, clock>>

Rises(c) ==
  /\ c \in resting
  /\ resting' = resting \ {c}
  /\ UNCHANGED <<members, score, clock>>

-----------------------------------------------------------------------------
Membership ==
  \/ \E c \in Combatant :
       \/ \E s \in Score : Add(c, s)
       \/ CreatureDeleted(c)
       \/ Falls(c)
       \/ Rises(c)
  \/ Clear

Reorder ==
  \E c \in Combatant, i \in Initiatives \cup {Unrolled} : SetInitiative(c, i)

Spending ==
  \/ \E squares \in 0 .. MaxMoved : SpendMovement(squares)
  \/ UseAction
  \/ \E on \in BOOLEAN : SetRunning(on)

(* Everything but begin.                                                   *)
Onwards ==
  \/ PassTurn
  \/ End
  \/ \E c \in Combatant : Remove(c)
  \/ Membership
  \/ Reorder
  \/ Spending

Next == Begin \/ Onwards

Spec == Init /\ [][Next]_vars

-----------------------------------------------------------------------------
(* Properties                                                              *)

(* The marker is never left on a row that is gone, nor on anybody before   *)
(* the fight has begun: whichever of remove, clear, end or a deleted       *)
(* creature comes in between, turn_combatant_id names a combatant of this  *)
(* fight in a round that has started, or nobody.                           *)
TurnHolderIsInTheFight ==
  turn # NoOne => turn \in members /\ HasBegun

(* A turn never inherits what the last one spent: whenever the turn comes  *)
(* to somebody, or comes round again to the only one left standing, the    *)
(* movement and the action are unspent -- at each place the turn can move. *)
StartsUnspent ==
  (turn' # turn \/ round' # round) /\ turn' # NoOne
    => moved' = 0 /\ actionUsed' = FALSE

NothingInherited == [][StartsUnspent]_vars

(* Within a round the turn only ever goes down the order, past nobody who  *)
(* was standing; so removing whoever is up, or an earlier combatant, never *)
(* sends it back to the top.                                               *)
MovesDown ==
  turn # NoOne /\ turn' \notin {turn, NoOne} /\ round' = round /\ ~Begin
    => /\ Before(score, turn, turn')
       /\ \A d \in members' \ resting' :
            ~ (Before(score, turn, d) /\ Before(score, d, turn'))

TurnGoesDownTheOrder == [][MovesDown]_vars
=============================================================================
