------------------------------- MODULE Offers -------------------------------
(***************************************************************************)
(* A player's turn put to them and taken: the agent proposes it, the host  *)
(* checks it, the player's app shows it and holds until it is answered,    *)
(* and a rule that is in the way goes to the DM, who may waive it.         *)
(*                                                                         *)
(* Models _handle_propose, _offer, _handle_acted, _carry_out, _handle_allow*)
(* _handle_move, _handle_swing, take_turn and the turn clock of            *)
(* net/server.py; the chat box and the bars of panels/table/widget.py; the *)
(* player's map (panels/encounter/player_widget.py and grid.py).           *)
(*                                                                         *)
(* One character with a player and one monster, in a fight that has begun, *)
(* in a corridor: the way round is Walk's business, who is dying is        *)
(* Referee's.  A blow costs the action and nothing else.  The player's app *)
(* is at the end of a wire that is not lost (Doors loses it); the DM's is  *)
(* in the host's own process.                                              *)
(***************************************************************************)
EXTENDS Integers, Sequences

CONSTANTS
  Hero, Monster,
  Width,     \* squares in the corridor
  Speed,     \* squares in a turn
  Plans,     \* the walks and blows that are proposed
  MaxAsks,   \* bound: turns proposed and rules asked about
  MaxWire,   \* bound: the host waits while this much is on its way
  MaxSaid,   \* bound: and the app while this much is
  NoOne,     \* nobody
  Stay       \* no square: a turn without a walk in it

Combatant == {Hero, Monster}
Square == 1 .. Width
Ask == 1 .. MaxAsks

ASSUME OffersAssumption ==
  /\ Hero # Monster /\ NoOne \notin Combatant
  /\ Width \in Nat /\ Width >= 2 /\ Speed \in Nat /\ Stay \notin Square
  /\ Plans \subseteq [to : Square \cup {Stay}, hits : BOOLEAN]
  /\ {MaxAsks, MaxWire, MaxSaid} \subseteq Nat

Lesser(a, b) == IF a < b THEN a ELSE b
Other(c) == CHOOSE d \in Combatant : d # c

VARIABLES
  square, turn,
  moved,    \* encounter.moved_squares; more than the speed is not told apart
  acted,    \* encounter.action_used
  waiting,  \* _waiting_on: the turn clock runs for them
  offers,   \* _proposed
  bend,     \* the request on the DM's bar, of those in _bends, if any
  asks,     \* how many ids have been handed out
  wheel,    \* what the wheel on the DM's map is waiting to be pointed at
  wire,     \* frames on their way to the player's app
  answers,  \* frames on their way back
  held,     \* the turn the chat box is holding, or 0
  bar,      \* and whether its buttons are showing
  frozen,   \* the turn the map is showing and held by, or 0
  done,     \* the bar with Done on it is showing
  budget    \* for the properties: squares walked and blows struck in this
            \* turn within the rules

fight == <<square, turn, moved, acted>>
host  == <<fight, waiting, offers, bend, asks, wheel, budget>>
app   == <<held, bar, frozen, done>>
vars  == <<host, app, wire, answers>>

Turn == [id : Ask, to : Square \cup {Stay}, hits : BOOLEAN, bent : BOOLEAN]

ActionFrame(id)  == [type |-> "action", id |-> id]
GoneFrame(id)    == [type |-> "action_gone", id |-> id]
StillYours(on)   == [type |-> "your_turn", on |-> on]
Acted(id, yes)   == [type |-> "acted", id |-> id, yes |-> yes]
Move(to)         == [type |-> "move", to |-> to]
Plain(kind)      == [type |-> kind]

Ids(turns) == {t.id : t \in turns}
OnTheWay(frame, q) == \E i \in DOMAIN q : q[i] = frame
Answering(id) == \E yes \in BOOLEAN : OnTheWay(Acted(id, yes), answers)

Init ==
  /\ square = [c \in Combatant |-> IF c = Hero THEN 1 ELSE Width]
  /\ turn \in Combatant
  /\ moved = 0 /\ acted = FALSE /\ waiting = NoOne
  /\ offers = {} /\ bend = {} /\ asks = 0 /\ wheel = "shut"
  /\ wire = <<>> /\ answers = <<>>
  /\ held = 0 /\ bar = FALSE /\ frozen = 0 /\ done = FALSE
  /\ budget = [walked |-> 0, struck |-> 0]

-----------------------------------------------------------------------------
(* What reaches the player's app                                           *)

Send(frames) == wire' = wire \o frames

(* _stop_the_clock tells the player it was waiting for.                    *)
Stopped == IF waiting = Hero THEN <<StillYours(FALSE)>> ELSE <<>>

(* _ask_if_done                                                            *)
AskIfDone(c) ==
  [clock |-> IF turn = c THEN c ELSE waiting,
   told  |-> IF turn = c /\ c = Hero THEN <<StillYours(TRUE)>> ELSE <<>>]

-----------------------------------------------------------------------------
(* The rules of a turn                                                     *)

Distance(c, to) == IF square[c] < to THEN to - square[c] ELSE square[c] - to

(* _too_far: what is left is what is left of whoever's turn it is.         *)
TooFar(c, to) == to # Stay /\ Distance(c, to) > Speed - moved

NotTheirTurn(c) == turn # c

(* already_acted asks it of whoever is up and of nobody else.              *)
AlreadyActed(c) == turn = c /\ acted

OutOfReach == Distance(Hero, square[Monster]) > 1

(* _no_way_through, in a corridor: somebody stands in it.                  *)
NoWayThrough(c, to) ==
  to # Stay /\ LET there == square[Other(c)]
               IN (square[c] < there /\ there < to) \/ (to < there /\ there < square[c])

Taken(c, to) == to # Stay /\ square[Other(c)] = to

(* place and spend_movement                                                *)
Walked(c, to, spending, bent) ==
  LET arrives == to # Stay /\ ~Taken(c, to)
      steps == IF arrives THEN Distance(c, to) ELSE 0
  IN /\ square' = IF arrives THEN [square EXCEPT ![c] = to] ELSE square
     /\ moved' = IF spending /\ turn = c THEN Lesser(Speed, moved + steps) ELSE moved
     /\ budget' = IF spending /\ turn = c /\ ~bent
                  THEN [budget EXCEPT !.walked = @ + steps] ELSE budget
     /\ UNCHANGED acted

(* _do_swing                                                               *)
Swung(c, bent) ==
  /\ acted' = (acted \/ turn = c)
  /\ budget' = IF turn = c /\ ~bent THEN [budget EXCEPT !.struck = @ + 1] ELSE budget
  /\ UNCHANGED <<square, moved>>

(* _advance_turn.  On the DM's map the wheel shuts as the turn moves.      *)
Passes(told) ==
  /\ turn' = Other(turn) /\ moved' = 0 /\ acted' = FALSE /\ wheel' = "shut"
  /\ budget' = [walked |-> 0, struck |-> 0]
  /\ UNCHANGED square
  /\ Send(told)

-----------------------------------------------------------------------------
(* Turns proposed                                                          *)

(* A bug: an offer takes the place of another and says nothing of it. *)
OfferOver(t) ==
  /\ offers' = {t}
  /\ waiting' = IF waiting = Hero THEN NoOne ELSE waiting
  /\ Send(Stopped \o <<ActionFrame(t.id)>>)

(* _offer, with _withdraw_for: one at a time.                              *)
Offer(t) ==
  /\ offers' = {t}
  /\ waiting' = IF waiting = Hero THEN NoOne ELSE waiting
  /\ Send([i \in 1 .. (IF offers = {} THEN 0 ELSE 1) |->
             GoneFrame((CHOOSE o \in offers : TRUE).id)]
          \o Stopped \o <<ActionFrame(t.id)>>)

(* _on_bend_asked.  The bar has room for one; what it showed before is     *)
(* still in _bends, where nobody can answer it.                            *)
OnTheBar(request) == bend' = {request}

(* _ask_the_dm_to_bend                                                     *)
AskTheDm(kind, c, to, hits) ==
  /\ asks < MaxAsks
  /\ OnTheBar([id |-> asks + 1, kind |-> kind, who |-> c, to |-> to, hits |-> hits])
  /\ asks' = asks + 1
  /\ UNCHANGED <<fight, waiting, offers, wheel, budget, wire>>

(* _handle_propose and _shape_the_action.                                  *)
AgentProposes(plan) ==
  /\ Len(wire) < MaxWire /\ ~Taken(Hero, plan.to)
  /\ IF NotTheirTurn(Hero) \/ TooFar(Hero, plan.to)
     THEN AskTheDm("propose", Hero, plan.to, plan.hits)
     ELSE /\ asks < MaxAsks /\ asks' = asks + 1
          /\ Offer([id |-> asks + 1, to |-> plan.to, hits |-> plan.hits, bent |-> FALSE])
          /\ UNCHANGED <<fight, bend, wheel, budget>>
  /\ UNCHANGED app

(* _handle_move from the agent, for whoever it names.                      *)
AgentMoves(c, to) ==
  /\ Len(wire) < MaxWire /\ to # square[c] /\ ~NoWayThrough(c, to)
  /\ IF NotTheirTurn(c) \/ TooFar(c, to)
     THEN AskTheDm("move", c, to, FALSE)
     ELSE /\ ~Taken(c, to)
          /\ Walked(c, to, TRUE, FALSE)
          /\ waiting' = AskIfDone(c).clock /\ Send(AskIfDone(c).told)
          /\ UNCHANGED <<turn, offers, bend, asks, wheel>>
  /\ UNCHANGED app

(* _handle_swing from the agent.                                           *)
AgentSwings(c) ==
  /\ Len(wire) < MaxWire
  /\ IF NotTheirTurn(c) \/ AlreadyActed(c) \/ OutOfReach
     THEN AskTheDm("swing", c, Stay, TRUE)
     ELSE /\ Swung(c, FALSE)
          /\ waiting' = AskIfDone(c).clock /\ Send(AskIfDone(c).told)
          /\ UNCHANGED <<turn, offers, bend, asks, wheel>>
  /\ UNCHANGED app

(* _handle_allow: what was asked, whatever has become of the fight since.  *)
DmAnswers(yes) ==
  \E b \in bend :
    /\ bend' = {} /\ Len(wire) < MaxWire
    /\ \/ /\ yes /\ b.kind = "propose" /\ ~Taken(Hero, b.to)
          /\ Offer([id |-> b.id, to |-> b.to, hits |-> b.hits, bent |-> TRUE])
          /\ UNCHANGED <<fight, budget>>
       \/ /\ yes /\ b.kind = "move"
          /\ Walked(b.who, b.to, FALSE, TRUE)
          /\ UNCHANGED <<turn, waiting, offers, wire>>
       \/ /\ yes /\ b.kind = "swing"
          /\ Swung(b.who, TRUE)
          /\ UNCHANGED <<turn, waiting, offers, wire>>
       \/ /\ ~yes \/ (b.kind = "propose" /\ Taken(Hero, b.to))
          /\ UNCHANGED <<fight, budget, waiting, offers, wire>>
    /\ UNCHANGED <<asks, wheel, app>>

-----------------------------------------------------------------------------
(* The DM and the clock                                                    *)

(* _choices_for: what whoever is up has left to do.                        *)
Choices == (IF moved < Speed THEN {"move"} ELSE {}) \cup (IF acted THEN {} ELSE {"attack"})

(* Space on them, and a wedge.                                             *)
DmOpens(kind) ==
  /\ wheel = "shut" /\ kind \in Choices
  /\ wheel' = kind
  /\ UNCHANGED <<fight, waiting, offers, bend, asks, budget, app, wire>>

(* A bug: the wheel asked when it was opened, and the host does not. *)
WheelAsked(c) == ~OutOfReach

MaySwing(c) == ~AlreadyActed(c) /\ ~OutOfReach

(* take_turn.  The plan is for whoever is picked when the map is clicked,  *)
(* and what it is refused for has happened since the wheel was opened.     *)
DmClicks(c, to) ==
  /\ wheel' = "shut"
  /\ \/ /\ wheel = "move"
        /\ IF to # square[c] /\ ~NoWayThrough(c, to) /\ ~TooFar(c, to) /\ ~Taken(c, to)
           THEN Walked(c, to, TRUE, FALSE) ELSE UNCHANGED <<square, moved, acted, budget>>
     \/ /\ wheel = "attack" /\ to = square[Other(c)]
        /\ IF MaySwing(c) THEN Swung(c, FALSE)
           ELSE UNCHANGED <<square, moved, acted, budget>>
  /\ UNCHANGED <<turn, waiting, offers, bend, asks, app, wire>>

NextTurn ==
  /\ Len(wire) < MaxWire
  /\ Passes(Stopped) /\ waiting' = NoOne
  /\ UNCHANGED <<offers, bend, asks, app>>

(* _nobody_answered: it forgets whom it was waiting on before it stops the *)
(* clock, which then has nobody to tell.                                   *)
Timeout ==
  /\ waiting # NoOne /\ Len(wire) < MaxWire
  /\ waiting' = NoOne
  /\ IF turn = waiting THEN Passes(<<>>)
     ELSE UNCHANGED <<fight, wheel, budget, wire>>
  /\ UNCHANGED <<offers, bend, asks, app>>

-----------------------------------------------------------------------------
(* What the player's app sends                                             *)

Heard(request) ==
  /\ answers # <<>> /\ Head(answers) = request
  /\ Len(wire) < MaxWire

(* Send says what goes the other way; this takes the request off its queue.*)
Took == answers' = Tail(answers)

(* The check on the way out: the map and the turn have moved meanwhile.    *)
StillCanWalk(t, walk) ==
  /\ t.to # Stay /\ ~NoWayThrough(Hero, t.to) /\ ~Taken(Hero, t.to)
  /\ t.bent \/ ~TooFar(Hero, t.to)

(* _carry_out: the walk if it can still be made, the blow if the action is *)
(* unspent and, from where the walk has ended, it reaches.                 *)
CarryOut(t) ==
  LET walks == StillCanWalk(t, t.to)
      at == IF walks THEN t.to ELSE square[Hero]
      gap == IF at < square[Monster] THEN square[Monster] - at ELSE at - square[Monster]
      hits == t.hits /\ gap <= 1 /\ (t.bent \/ ~AlreadyActed(Hero))
      steps == IF walks THEN Distance(Hero, t.to) ELSE 0
  IN /\ square' = [square EXCEPT ![Hero] = at]
     /\ moved' = IF turn = Hero THEN Lesser(Speed, moved + steps) ELSE moved
     /\ acted' = (acted \/ (hits /\ turn = Hero))
     /\ budget' = IF turn = Hero /\ ~t.bent
                  THEN [walked |-> budget.walked + steps,
                        struck |-> budget.struck + (IF hits THEN 1 ELSE 0)]
                  ELSE budget
     /\ waiting' = AskIfDone(Hero).clock
     /\ Send(<<GoneFrame(t.id)>> \o AskIfDone(Hero).told)

Refused(t) ==
  /\ Send(<<GoneFrame(t.id)>>)
  /\ UNCHANGED <<fight, budget, waiting>>

(* _handle_acted: unknown ids are answered already, or overtaken.          *)
HearActed(id, yes) ==
  /\ Heard(Acted(id, yes)) /\ Took
  /\ IF id \notin Ids(offers)
     THEN UNCHANGED <<fight, budget, waiting, offers, wire>>
     ELSE \E t \in offers :
            /\ t.id = id /\ offers' = offers \ {t}
            /\ IF yes THEN CarryOut(t) /\ UNCHANGED turn ELSE Refused(t)
  /\ UNCHANGED <<bend, asks, wheel, app>>

(* _handle_done                                                            *)
HearDone ==
  /\ Heard(Plain("done")) /\ Took
  /\ IF turn = Hero THEN Passes(Stopped) /\ waiting' = NoOne
     ELSE UNCHANGED <<fight, wheel, budget, waiting, wire>>
  /\ UNCHANGED <<offers, bend, asks, app>>

(* _handle_chat, of whoever is being waited on.                            *)
HearSaid ==
  /\ Heard(Plain("said")) /\ Took
  /\ waiting' = IF waiting = Hero THEN NoOne ELSE waiting
  /\ Send(Stopped)
  /\ UNCHANGED <<fight, budget, offers, bend, asks, wheel, app>>

(* One action a turn, "asked here as well as in take_turn".                *)
BlowAllowed == ~AlreadyActed(Hero) /\ ~OutOfReach

(* _handle_move and _handle_swing from the player's map: their own turn,   *)
(* within the rules, or refused.                                           *)
HearMapTurn ==
  /\ \/ \E to \in Square :
          /\ Heard(Move(to)) /\ Took
          /\ IF /\ turn = Hero /\ to # square[Hero]
                /\ ~NoWayThrough(Hero, to) /\ ~TooFar(Hero, to) /\ ~Taken(Hero, to)
             THEN Walked(Hero, to, TRUE, FALSE)
             ELSE UNCHANGED <<square, moved, acted, budget>>
     \/ /\ Heard(Plain("swing")) /\ Took
        /\ IF turn = Hero /\ BlowAllowed THEN Swung(Hero, FALSE)
           ELSE UNCHANGED <<square, moved, acted, budget>>
  /\ UNCHANGED <<turn, waiting, offers, bend, asks, wheel, app, wire>>

-----------------------------------------------------------------------------
(* The player's app                                                        *)

(* _on_turn_withdrawn and _on_withdrawn: the box and the map, each of its own. *)
Forgets(id) ==
  /\ held' = IF held = id THEN 0 ELSE held
  /\ bar' = (bar /\ held # id)
  /\ frozen' = IF frozen = id THEN 0 ELSE frozen

(* _on_turn_offered and _on_offered, the two above, _on_still_your_turn.   *)
AppHears ==
  /\ wire # <<>>
  /\ LET f == Head(wire)
     IN \/ /\ f.type = "action"
           /\ held' = f.id /\ bar' = TRUE /\ frozen' = f.id
           /\ UNCHANGED done
        \/ /\ f.type = "action_gone"
           /\ Forgets(f.id)
           /\ UNCHANGED done
        \/ /\ f.type = "your_turn"
           /\ done' = f.on
           /\ UNCHANGED <<held, bar, frozen>>
  /\ wire' = Tail(wire)
  /\ UNCHANGED <<host, answers>>

Says(request) ==
  /\ Len(answers) < MaxSaid
  /\ answers' = Append(answers, request)
  /\ UNCHANGED <<host, wire>>

(* _accept_turn and _refuse_turn: the box lets go at once, the map when it *)
(* is told.                                                                *)
Answers(yes) ==
  /\ bar /\ Says(Acted(held, yes))
  /\ held' = 0 /\ bar' = FALSE
  /\ UNCHANGED <<frozen, done>>

(* _unlock_to_say_more; what is said then brings the buttons back.         *)
SayMore ==
  /\ bar /\ bar' = FALSE
  /\ UNCHANGED <<host, wire, answers, held, frozen, done>>

Talks ==
  /\ ~bar /\ Says(Plain("said"))
  /\ bar' = (held # 0)
  /\ UNCHANGED <<held, frozen, done>>

(* _finish_turn                                                            *)
PressesDone ==
  /\ done /\ Says(Plain("done"))
  /\ done' = FALSE
  /\ UNCHANGED <<held, bar, frozen>>

(* The wheel, on a map that is not held.  It opens on the player's turn as *)
(* far as the app knows, which may be another than the host's: whether it  *)
(* is theirs is left to the host.                                          *)
MapTurn ==
  /\ frozen = 0
  /\ (\E to \in Square : Says(Move(to))) \/ Says(Plain("swing"))
  /\ UNCHANGED app

-----------------------------------------------------------------------------
Table ==
  /\ \/ \E plan \in Plans : AgentProposes(plan)
     \/ \E c \in Combatant : AgentSwings(c)
     \/ \E c \in Combatant, to \in Square : AgentMoves(c, to)
     \/ \E yes \in BOOLEAN : DmAnswers(yes)
     \/ \E kind \in {"move", "attack"} : DmOpens(kind)
     \/ \E c \in Combatant, to \in Square : DmClicks(c, to)
     \/ NextTurn
     \/ Timeout
  /\ UNCHANGED answers

Hears ==
  \/ \E id \in Ask, yes \in BOOLEAN : HearActed(id, yes)
  \/ HearDone
  \/ HearSaid
  \/ HearMapTurn

Player ==
  \/ AppHears
  \/ \E yes \in BOOLEAN : Answers(yes)
  \/ SayMore
  \/ Talks
  \/ PressesDone
  \/ MapTurn

Next == Table \/ Hears \/ Player

Spec == Init /\ [][Next]_vars

-----------------------------------------------------------------------------
(* Properties                                                              *)

(* The box and the map hold a turn exactly as long as it is to be had:     *)
(* what either is showing is on offer, or word that it is gone is on its   *)
(* way; and what is on offer is in the box, or on its way there, or its    *)
(* answer is on its way back (_offer, _handle_acted, _on_turn_withdrawn,   *)
(* _on_withdrawn).                                                         *)
HeldWhileOffered ==
  \A id \in Ask :
    /\ held = id \/ frozen = id => id \in Ids(offers) \/ OnTheWay(GoneFrame(id), wire)
    /\ id \in Ids(offers) =>
         held = id \/ OnTheWay(ActionFrame(id), wire) \/ Answering(id)

(* A turn is a walk up to the speed and one blow, through whichever doors  *)
(* it is taken - an offer accepted late, the map, the agent, the DM's hand *)
(* - and however they interleave (_too_far, already_acted, _carry_out).    *)
(* What the DM waived is not counted, nor is what somebody does while it   *)
(* is another's turn: the code spends nothing for it.                      *)
OneTurnsWorth == budget.walked <= Speed /\ budget.struck <= 1
=============================================================================
