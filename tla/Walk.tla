-------------------------------- MODULE Walk --------------------------------
(***************************************************************************)
(* Walking across the map of a fight: the way round what is in the way,    *)
(* what it costs, who gets a swing at it, and where it ends.               *)
(*                                                                         *)
(* Models SessionServer._handle_move, take_turn, _carry_out, _do_move,     *)
(* _handle_enlist, _opportunity_attacks and _fell_on_the_way               *)
(* (net/server.py); place, add, clear, toggle_obstacle and set_down        *)
(* (repo/encounters.py), grid.py of the protocol and the DM's map          *)
(* (panels/encounter/widget.py).                                           *)
(*                                                                         *)
(* Everybody has a sheet, hit points and a side, and the map keeps its     *)
(* size.  A blow fells or does not.  Whose turn comes next and in which    *)
(* round, and so who can react again, is left open here (TurnOrder and     *)
(* Reactions say).                                                         *)
(***************************************************************************)
EXTENDS Integers, Sequences

CONSTANTS
  Combatant,  \* a set of numbers: lower is earlier in the initiative order
  Foes,       \* pairs on opposite sides
  Armed,      \* those with a weapon to hand
  Speed,      \* squares in a turn
  Left, Right, Top, Bottom,  \* the edges of the map
  Beyond,     \* bound: squares past the edges somebody is ever enlisted on
  Stones,     \* bound: squares a rock is ever put on
  MaxMoved,   \* bound: squares charged to a turn whose rules are waived
  OffMap,     \* no square
  NoOne

Square == (Left .. Right) \X (Top .. Bottom)
Ground == Square \cup Beyond

(* steps_between gives up after this many steps.  A map has half as many   *)
(* squares a side (MAX_SIZE).                                              *)
Longest == 120

ASSUME WalkAssumption ==
  /\ Combatant \subseteq Nat /\ NoOne \notin Combatant
  /\ Foes \subseteq Combatant \X Combatant
  /\ Armed \subseteq Combatant
  /\ {Speed, MaxMoved} \subseteq Nat
  /\ {Left, Right, Top, Bottom} \subseteq Int
  /\ 2 * (Right - Left + 1) <= Longest /\ 2 * (Bottom - Top + 1) <= Longest
  /\ Beyond \subseteq (Int \X Int) \ Square
  /\ Stones \subseteq Square
  /\ OffMap \notin Ground

VARIABLES
  square,   \* where each of them stands or lies
  down,     \* those lying where they fell
  rocks,    \* table obstacle
  begun,    \* has_begun: the round is one or later
  turn,     \* whose turn it is, or NoOne
  moved,    \* encounter.moved_squares
  reacted,  \* those whose reaction_round is this round or later
  from      \* for the properties: where this turn's walking started

clock == <<begun, turn, moved, from>>
vars == <<square, down, rocks, clock, reacted>>

Init ==
  /\ square = [c \in Combatant |-> OffMap]
  /\ down = {} /\ rocks = {}
  /\ begun = FALSE /\ turn = NoOne /\ moved = 0 /\ reacted = {}
  /\ from = OffMap

-----------------------------------------------------------------------------
(* Squares (grid.py, and squares_between of rules/attack.py)               *)

Distance(a, b) ==
  LET dx == IF a[1] > b[1] THEN a[1] - b[1] ELSE b[1] - a[1]
      dy == IF a[2] > b[2] THEN a[2] - b[2] ELSE b[2] - a[2]
  IN IF dx > dy THEN dx ELSE dy

(* steps_between: both ways at once, and then whichever is left.  Somebody *)
(* further off than it goes is not walked the whole way.                   *)
StepsBetween(a, b) ==
  LET Towards(n, m, i) == IF n + i <= m THEN n + i
                          ELSE IF n - i >= m THEN n - i ELSE m
      steps == IF Distance(a, b) <= Longest THEN Distance(a, b) ELSE Longest
  IN [i \in 1 .. steps + 1 |->
        <<Towards(a[1], b[1], i - 1), Towards(a[2], b[2], i - 1)>>]

Area == (Right - Left + 1) * (Bottom - Top + 1)

(* The ways of up to k steps, each of them a shortest way to where it goes, *)
(* until one comes to b.                                                   *)
Ways(a, b, blocked) ==
  LET ways[k \in 0 .. Area] ==
        IF k = 0 THEN {<<a>>}
        ELSE LET shorter == ways[k - 1]
                 reached == {way[Len(way)] : way \in shorter}
                 Onward(way) == {s \in Square \ (blocked \cup reached) :
                                   Distance(way[Len(way)], s) = 1}
             IN IF b \in reached THEN shorter
                ELSE shorter \cup UNION {{Append(way, s) : s \in Onward(way)} :
                                          way \in shorter}
  IN ways

(* route_between: the straight way if it is clear, or a shortest way round *)
(* (any: which of them A* comes upon first is left open), or none.         *)
RouteBetween(a, b, blocked) ==
  LET straight == StepsBetween(a, b)
  IN IF \A i \in 2 .. Len(straight) : straight[i] \notin blocked
     THEN {straight}
     ELSE {way \in Ways(a, b, blocked)[Area] : way[Len(way)] = b}

-----------------------------------------------------------------------------
(* The board (repo/encounters.py)                                          *)

Standing(c) == c \notin down /\ square[c] # OffMap

(* A bug: only rocks are in the way. *)
NoRockThere(c, s) == s \notin rocks

(* holds, _occupant and obstacles, as place asks them                      *)
Free(c, s) ==
  /\ s \in Square \ rocks
  /\ \A d \in Combatant \ {c} : ~ (Standing(d) /\ square[d] = s)

Placed(c, s) == IF s = OffMap \/ Free(c, s) THEN [square EXCEPT ![c] = s] ELSE square

(* _in_the_way; the destination is left to place.                          *)
InTheWay(c, to) ==
  (rocks \cup {square[d] : d \in {e \in Combatant \ {c} : Standing(e)}}) \ {to}

RouteFor(c, to) == RouteBetween(square[c], to, InTheWay(c, to))

-----------------------------------------------------------------------------
(* Opportunity attacks                                                     *)

Threatens(w, s) == Distance(square[w], s) <= 1

(* Before round one nobody can: no reaction_round is less than nought.     *)
CanReact(w, c) ==
  begun /\ Standing(w) /\ w # c /\ w \in Armed \ reacted /\ <<c, w>> \in Foes

(* A bug: the first step of a walk is not looked at. *)
LeavesLate(route, w) ==
  {i \in 2 .. Len(route) - 1 :
     Threatens(w, route[i]) /\ ~Threatens(w, route[i + 1])}

(* The steps of a walk that go out of somebody's reach.                    *)
Leaves(route, w) ==
  {i \in 1 .. Len(route) - 1 :
     Threatens(w, route[i]) /\ ~Threatens(w, route[i + 1])}

LeftAt(route, w) == CHOOSE i \in Leaves(route, w) :
                      \A j \in Leaves(route, w) : i <= j

Provoked(c, route) ==
  {w \in Combatant : CanReact(w, c) /\ Leaves(route, w) # {}}

(* Everybody a walk provokes swings, in the order of the fight, until one  *)
(* of them leaves the walker with nothing: who that may be.  On somebody   *)
(* who has nothing already the first swing is the last.                    *)
Fellers(c, route) ==
  LET provoked == Provoked(c, route)
  IN {w \in provoked : c \in down => \A u \in provoked : w <= u}

-----------------------------------------------------------------------------
(* Walking                                                                 *)

(* The turn passes, and perhaps the round with it; or the fight is started *)
(* over, and the number of the round goes back; or there is nobody to pass *)
(* it to, or whoever is up is deleted, and nothing is put back.            *)
HandOver ==
  /\ begun' = TRUE
  /\ \/ /\ turn' \in Combatant
        /\ moved' = 0
        /\ reacted' \in SUBSET Armed
        /\ from' = square'[turn']
     \/ /\ begun /\ turn' = NoOne /\ from' = OffMap
        /\ UNCHANGED <<moved, reacted>>

(* A bug: the last step is not counted. *)
StepsButOne(route) == IF Len(route) > 2 THEN Len(route) - 2 ELSE Len(route) - 1

Steps(route) == Len(route) - 1

(* _do_move of a walk that nobody ends: it is swung at, then it arrives if *)
(* place will have it, and is charged to the turn if the turn is theirs.   *)
Arrives(c, to, route) ==
  /\ c \notin down
  /\ square' = Placed(c, to)
  /\ moved' = IF turn = c /\ Free(c, to) THEN moved + Steps(route) ELSE moved
  /\ reacted' = reacted \cup Provoked(c, route)
  /\ UNCHANGED <<down, begun, turn, from>>

(* _fell_on_the_way: where they were left with nothing, or at the end of   *)
(* the walk if they lay there from the start and nobody swings.            *)
FallsAt(c, end) ==
  /\ square' = Placed(c, end)
  /\ down' = down \cup {c}

FallsOnTheWay(c, route) ==
  \/ \E w \in Fellers(c, route) :
       /\ FallsAt(c, route[LeftAt(route, w) + 1])
       /\ IF turn = c THEN HandOver
          ELSE /\ reacted' = reacted \cup {v \in Provoked(c, route) : v <= w}
               /\ UNCHANGED clock
  \/ /\ c \in down /\ Provoked(c, route) = {}
     /\ FallsAt(c, route[Len(route)])
     /\ IF turn = c THEN HandOver ELSE UNCHANGED <<clock, reacted>>

(* movement_left, which is what is left of whoever's turn it is            *)
MovementLeft == Speed - moved

(* A walk, by _handle_move of whoever is up, by take_turn of whoever the   *)
(* DM has picked, or by _carry_out of a turn accepted, whose turn it may   *)
(* no longer be.  It is no longer than what is left; but when the DM has   *)
(* waived the rules (bending) that is not asked, and the walk is swung at  *)
(* and charged as any other.  Before round one nobody swings and nothing   *)
(* is charged: see Put.                                                    *)
Walk(c, to) ==
  /\ begun
  /\ square[c] # OffMap /\ to # square[c]
  /\ \E route \in RouteFor(c, to) :
       /\ Steps(route) \in (0 .. MovementLeft) \cup (0 .. MaxMoved - moved)  \* bent
       /\ Arrives(c, to, route) \/ FallsOnTheWay(c, route)
  /\ UNCHANGED rocks

(* place without a walk: a token put on the board or taken off it by the   *)
(* DM or by whoever is up, moved by anybody who runs the table before the  *)
(* fight, or moved by the agent when the DM allows it (_handle_allow, which *)
(* neither swings nor charges).                                            *)
Put(c, to) ==
  /\ to # square[c]
  /\ to # OffMap => Free(c, to)
  /\ square' = [square EXCEPT ![c] = to]
  /\ from' = IF turn = c THEN to ELSE from
  /\ UNCHANGED <<down, rocks, begun, turn, moved, reacted>>

(* _handle_enlist and a template's combatants: add, of somebody not in the *)
(* fight, asks nothing of the square, which may be taken, a rock or past   *)
(* the edge.  Whether they lie there is read off their hit points.         *)
Enlist(c, to) ==
  /\ square[c] = OffMap /\ turn # c
  /\ square' = [square EXCEPT ![c] = to]
  /\ down' \in {down \cup {c}, down \ {c}}
  /\ reacted' = reacted \ {c}
  /\ UNCHANGED <<rocks, clock>>

Enlisted(c) == \E to \in Ground : Enlist(c, to)

(* toggle_obstacle                                                         *)
ToggleRock(s) ==
  /\ \/ s \in rocks /\ rocks' = rocks \ {s}
     \/ /\ s \notin rocks /\ rocks' = rocks \cup {s}
        /\ \A d \in Combatant : ~ (Standing(d) /\ square[d] = s)
  /\ UNCHANGED <<square, down, clock, reacted>>

(* set_down, of a blow or of healing, wherever they lie.                   *)
SetDown(c, on) ==
  /\ on # (c \in down)
  /\ down' = IF on THEN down \cup {c} ELSE down \ {c}
  /\ UNCHANGED <<square, rocks, clock, reacted>>

NextTurn ==
  /\ UNCHANGED <<square, down, rocks>>
  /\ HandOver

EndFight ==
  /\ begun
  /\ begun' = FALSE /\ turn' = NoOne /\ moved' = 0 /\ from' = OffMap
  /\ UNCHANGED <<square, down, rocks, reacted>>

(* clear: the room is kept, and so is what the turn had spent. *)
ClearFight ==
  /\ begun' = FALSE /\ turn' = NoOne /\ from' = OffMap
  /\ square' = [c \in Combatant |-> OffMap] /\ down' = {} /\ reacted' = {}
  /\ UNCHANGED <<rocks, moved>>

-----------------------------------------------------------------------------
Next ==
  \/ \E c \in Combatant :
       \/ \E to \in Square : Walk(c, to)
       \/ \E to \in Square \cup {OffMap} : Put(c, to)
       \/ \E to \in Ground \cup {OffMap} : Enlist(c, to)
       \/ \E on \in BOOLEAN : SetDown(c, on)
  \/ \E s \in Stones : ToggleRock(s)
  \/ NextTurn
  \/ EndFight
  \/ ClearFight

Spec == Init /\ [][Next]_vars

-----------------------------------------------------------------------------
(* Properties                                                              *)

(* However somebody comes to a square once they are in the fight - walking *)
(* there, falling short, put there, waved through by the DM - with others  *)
(* struck down, getting up and rocks going in and out meanwhile, it is on  *)
(* the map, and they stand on it alone and not in a rock; and no rock      *)
(* comes to where somebody stands (place, toggle_obstacle).  Two ways of   *)
(* coming to share a square ask nobody, and are not what this is about:    *)
(* being enlisted on it, and getting up where one lay (see the README).    *)
SquaresAreNotShared ==
  [][/\ \A c \in Combatant :
          square'[c] # square[c] /\ Standing(c)' /\ ~Enlisted(c)
            => /\ square'[c] \in Square \ rocks
               /\ \A d \in Combatant \ {c} :
                    ~ (Standing(d) /\ square[d] = square'[c])
     /\ rocks' # rocks =>
          \A c \in Combatant : ~ (Standing(c) /\ square[c] \in rocks' \ rocks)]_vars

(* What a turn is charged covers the ground it has covered: however many   *)
(* walks it is made of, within the rules or bent, whatever they went round *)
(* and whoever else walks meanwhile, whoever is up stands no further from  *)
(* where they began on the map than has been charged (_do_move,            *)
(* spend_movement).  That what is charged within the rules is no more than *)
(* the speed is said of all the doors to a turn in Offers (OneTurnsWorth). *)
GroundIsPaidFor ==
  turn # NoOne /\ from \in Square => Distance(from, square[turn]) <= moved

(* Nobody walks away from an enemy who could have struck at them for       *)
(* nothing: whoever had them in reach at the start of a walk and has not   *)
(* at the end of it has spent a reaction (_opportunity_attacks).           *)
LeavingIsAnswered ==
  [][moved' > moved =>
       \A w \in Combatant :
         /\ CanReact(w, turn)
         /\ Threatens(w, square[turn]) /\ ~Threatens(w, square'[turn])
         => w \in reacted']_vars
=============================================================================
