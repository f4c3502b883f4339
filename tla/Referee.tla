------------------------------ MODULE Referee -------------------------------
(***************************************************************************)
(* The host running a fight: passing the turn, waiting on whoever is up,   *)
(* and making the dying roll their death saves.                            *)
(*                                                                         *)
(* Models SessionServer of canon_keeper/net/server.py with the rules of    *)
(* rules/death.py, the half of the DM's Combat panel that writes the fight *)
(* behind the host's back (panels/encounter/widget.py), and people, stand- *)
(* ins and the agent coming, going and acting in any order.  The host has  *)
(* one thread, so a handler is one action; what interleaves is frames, the *)
(* turn clock, the panel and the host being stopped and started.           *)
(*                                                                         *)
(* Who is in the fight and in what order does not change here (TurnOrder   *)
(* does that), squares and weapons are left out (a walk arrives or does    *)
(* not, a blow tells or does not), and hit points are those above zero and *)
(* zero.  What a turn has spent is left out too: a bend waives it.         *)
(***************************************************************************)
EXTENDS Initiative, FiniteSets

CONSTANTS
  Scores,       \* the initiative of everybody in the fight
  PC,           \* those of them that are player characters
  Account,      \* the players' logins
  Owner,        \* who plays each of them: an account or NoOne
  SavesNeeded   \* death saves needed either way

ASSUME RefereeAssumption ==
  /\ IsFiniteSet(Combatant) /\ Combatant # {}
  /\ Scores \in [Combatant -> Score]
  /\ PC \subseteq Combatant
  /\ NoOne \notin Account
  /\ Owner \in [Combatant -> Account \cup {NoOne}]
  /\ \A c \in Combatant \ PC : Owner[c] = NoOne
  /\ SavesNeeded \in Nat \ {0}

VARIABLES
  table,      \* what the host knows of the fight and of its own clock:
              \* begun (round > 0) and turn (turn_combatant_id); of each life,
              \* whether it is down, and its death saves; waiting (_waiting_on,
              \* the clock runs for them) and owed (_owed_by)
  beingRun,   \* this is the fight being run
  online,     \* accounts with a connection of their own
  simulated,  \* characters handed over to a machine
  seated,     \* characters a stand-in is connected for
  proposed,   \* characters with a turn put to whoever plays them
  autopilot,  \* an agent answers for the DM
  thinking    \* that agent has said it is busy

people    == <<online, simulated, seated>>
agent     == <<autopilot, thinking>>
tableVars == <<table, beingRun, people, proposed, agent>>

Up == [down |-> FALSE, made |-> 0, failed |-> 0]

TableInit ==
  /\ table = [begun |-> FALSE, turn |-> NoOne, life |-> [c \in Combatant |-> Up],
              waiting |-> NoOne, owed |-> NoOne]
  /\ beingRun = TRUE
  /\ online = {} /\ simulated = {} /\ seated = {} /\ proposed = {}
  /\ autopilot = FALSE /\ thinking = FALSE

-----------------------------------------------------------------------------
(* rules/death.py                                                          *)

Dying(t, c) ==
  /\ c \in PC /\ t.life[c].down
  /\ t.life[c].failed < SavesNeeded /\ t.life[c].made < SavesNeeded

(* A bug: everybody at zero is passed over. *)
EverybodyAtZero(t) == {c \in Combatant : t.life[c].down}

Resting(t) == {c \in Combatant : t.life[c].down /\ ~Dying(t, c)}

-----------------------------------------------------------------------------
(* Who there is to ask                                                     *)

HasALogin(a) == a \in online \/ \E c \in seated : Owner[c] = a

MachinePlays(c) == c \notin seated /\ (c \in simulated \/ Owner[c] = NoOne)

CanBeAsked(c) == Owner[c] # NoOne /\ ~MachinePlays(c) /\ HasALogin(Owner[c])

-----------------------------------------------------------------------------
(* What the handlers do to the table.  Each is a set of tables, one for    *)
(* every way the dice can fall.                                            *)

StopClock(t) == [t EXCEPT !.waiting = NoOne]

(* Counts past what decides anything are not told apart.                   *)
Counted(n) == IF n > SavesNeeded THEN SavesNeeded ELSE n

(* _roll_death_save: a natural twenty, or one of the other three outcomes. *)
Revived(t, c) == [t EXCEPT !.life[c] = Up]

Unrevived(t, c) ==
  {[t EXCEPT !.life[c].made = Counted(@ + 1)]} \cup
  {[t EXCEPT !.life[c].failed = Counted(@ + n)] : n \in {1, 2}}

(* A bug: the save is asked for and no clock is started. *)
AskedWithoutAClock(t, c) == [t EXCEPT !.owed = c]

Asked(t, c) == [t EXCEPT !.owed = c, !.waiting = c]

BeginTable(t) == [t EXCEPT !.begun = TRUE, !.turn = First(Scores, Combatant)]

EndTable(t) == [t EXCEPT !.begun = FALSE, !.turn = NoOne]

(* EncounterRepo.advance, told who is resting.                             *)
Advanced(t) ==
  LET standing == Combatant \ Resting(t)
      next == IF standing = {} THEN NoOne
              ELSE IF t.turn = NoOne THEN First(Scores, standing)
              ELSE NextUp(Scores, standing, t.turn)
  IN IF t.begun THEN [t EXCEPT !.turn = next] ELSE BeginTable(t)

(* One pass of the loop in _advance_turn: it halts on nobody, on somebody  *)
(* awake or somebody to ask, and goes on from a save that does not wake.   *)
Halts(t) == [at |-> t, going |-> FALSE]
GoesOn(t) == [at |-> t, going |-> TRUE]

Passed(t) ==
  LET a == Advanced(t)
  IN IF a.turn = NoOne \/ ~Dying(a, a.turn) THEN {Halts(a)}
     ELSE IF CanBeAsked(a.turn) THEN {Halts(Asked(a, a.turn))}
     ELSE {Halts(Revived(a, a.turn))} \cup {GoesOn(r) : r \in Unrevived(a, a.turn)}

(* A bug: the turn is passed once, wherever it lands. *)
PassedOnce(t) == {w.at : w \in Passed(t)}

(* What becomes of the table in so many passes.                            *)
Passes(t) ==
  LET after[k \in 0 .. Cardinality(Combatant) + 1] ==
        IF k = 0 THEN {GoesOn(t)}
        ELSE UNION {IF w.going THEN Passed(w.at) ELSE {w} : w \in after[k - 1]}
  IN after

(* _advance_turn: at most one pass more than there are combatants.         *)
Walk(t) == {w.at : w \in Passes(t)[Cardinality(Combatant) + 1]}

(* _owe_a_save_if_dying                                                    *)
OweASaveIfDying(t) ==
  IF t.turn = NoOne \/ ~Dying(t, t.turn) THEN {t}
  ELSE IF CanBeAsked(t.turn) THEN {Asked(t, t.turn)}
  ELSE {Revived(t, t.turn)} \cup Unrevived(t, t.turn)

(* The save that was owed, and, unless it wakes them, the turn passing.    *)
RollAndMoveOn(t, c) ==
  LET paid == [t EXCEPT !.owed = NoOne, !.waiting = NoOne]
  IN {Revived(paid, c)} \cup UNION {Walk(r) : r \in Unrevived(paid, c)}

(* A bug: a blow to anybody at zero counts as a failed save. *)
StruckDyingOrNot(t, c) ==
  IF t.life[c].down
  THEN [t EXCEPT !.life[c].failed = Counted(@ + 1)]
  ELSE [t EXCEPT !.life[c] = [Up EXCEPT !.down = TRUE]]

(* _take_damage with all it calls, from a blow that leaves nothing.        *)
Struck(t, c) ==
  IF ~t.life[c].down
  THEN [t EXCEPT !.life[c] = IF beingRun THEN [Up EXCEPT !.down = TRUE]
                                        ELSE [@ EXCEPT !.down = TRUE]]
  ELSE IF beingRun /\ Dying(t, c)
       THEN [t EXCEPT !.life[c].failed = Counted(@ + 1)]
       ELSE t

(* _swing: out of reach, a miss or a scratch; or a blow that tells.        *)
Swung(t, target) == {t, Struck(t, target)}

(* _fell_on_the_way                                                        *)
FellOnTheWay(t, c) ==
  IF beingRun /\ t.turn = c THEN Walk(StopClock(t)) ELSE {t}

(* _do_move of a walk that does not arrive: struck down by somebody whose  *)
(* reach they left, or down before they set off.                           *)
SomebodyElseUp(t, c) == \E d \in Combatant \ {c} : ~t.life[d].down

CutShort(t, c) ==
  (IF beingRun /\ t.begun /\ SomebodyElseUp(t, c)
   THEN FellOnTheWay(Struck(t, c), c) ELSE {})
  \cup (IF t.life[c].down THEN FellOnTheWay(t, c) ELSE {})

Arrives(t, c) == IF t.life[c].down THEN {} ELSE {t}

(* _ask_if_done: only the length of the clock depends on who is playing.   *)
AskIfDone(t, c) ==
  IF beingRun /\ t.turn = c THEN [t EXCEPT !.waiting = c] ELSE t

(* _carry_out: the move if there is one, then the swing if there is one,   *)
(* whatever became of the move.                                            *)
CarryOut(t, c) ==
  LET moved == {t} \cup CutShort(t, c)
      swung == moved \cup UNION {Swung(u, d) : u \in moved, d \in Combatant \ {c}}
  IN {AskIfDone(u, c) : u \in swung}

-----------------------------------------------------------------------------
(* Passing the turn                                                        *)

OnlyTheTable == UNCHANGED <<people, proposed, agent>>

(* run_turn: the DM's "next turn" button, or TURN over the wire.           *)
RunTurn(verb) ==
  LET t == [StopClock(table) EXCEPT !.owed = NoOne]
  IN /\ beingRun
     /\ CASE verb = "begin" -> table' \in OweASaveIfDying(BeginTable(t))
          [] verb = "next"  -> table' \in Walk(t)
          [] verb = "end"   -> table' = EndTable(t)
     /\ beingRun' = (verb # "end")
     /\ OnlyTheTable

DMTurn == \E verb \in {"begin", "next", "end"} : RunTurn(verb)

(* _handle_turn from the agent: next is not its to say for a person.       *)
AgentTurn ==
  \E verb \in {"begin", "next", "end"} :
    /\ autopilot
    /\ verb = "next" /\ table.turn # NoOne => MachinePlays(table.turn)
    /\ RunTurn(verb)

(* The panel's own Start and End, written straight to the repository.      *)
PanelBegin ==
  /\ ~table.begun
  /\ table' = BeginTable(table)
  /\ beingRun' = TRUE
  /\ OnlyTheTable

PanelEnd ==
  /\ table.begun
  /\ table' = EndTable(table)
  /\ beingRun' = FALSE
  /\ OnlyTheTable

(* Another fight is run for a while, and this one again.                   *)
SwitchFight(on) ==
  /\ beingRun # on
  /\ beingRun' = on
  /\ UNCHANGED table
  /\ OnlyTheTable

-----------------------------------------------------------------------------
(* Whoever is up                                                           *)

(* _handle_done                                                            *)
Done(a) ==
  /\ beingRun /\ HasALogin(a)
  /\ table.turn # NoOne /\ Owner[table.turn] = a
  /\ table' \in Walk(StopClock(table))
  /\ UNCHANGED beingRun /\ OnlyTheTable

(* _handle_death_save                                                      *)
DeathSave(a) ==
  /\ beingRun /\ HasALogin(a)
  /\ table.owed # NoOne /\ table.owed = table.turn
  /\ Owner[table.owed] = a
  /\ Dying(table, table.owed)
  /\ table' \in RollAndMoveOn(table, table.owed)
  /\ UNCHANGED beingRun /\ OnlyTheTable

(* A bug: talking stops the clock on a turn a machine is playing too. *)
ChatOverAMachine(a) ==
  /\ HasALogin(a)
  /\ table.waiting # NoOne /\ Owner[table.waiting] = a
  /\ table' = StopClock(table)
  /\ UNCHANGED beingRun /\ OnlyTheTable

(* _handle_chat, of somebody the clock is waiting on.                      *)
Chat(a) ==
  /\ HasALogin(a)
  /\ table.waiting # NoOne /\ Owner[table.waiting] = a
  /\ ~MachinePlays(table.waiting)
  /\ table' = StopClock(table)
  /\ UNCHANGED beingRun /\ OnlyTheTable

(* _nobody_answered, when the clock runs out.                              *)
Timeout ==
  LET c == table.waiting
      up == beingRun /\ table.turn = c
      t == StopClock(table)
  IN /\ c # NoOne
     /\ \/ ~up /\ table' = t
        \/ up /\ table.owed = c /\ table' \in RollAndMoveOn(t, c)
        \/ /\ up /\ table.owed # c
           /\ MachinePlays(c) /\ thinking
           /\ UNCHANGED table
        \/ /\ up /\ table.owed # c
           /\ ~ (MachinePlays(c) /\ thinking)
           /\ table' \in Walk(t)
     /\ UNCHANGED beingRun /\ OnlyTheTable

-----------------------------------------------------------------------------
(* Taking a turn                                                           *)

(* _offer: at any time, for the DM can allow one out of turn.              *)
Offer(c) ==
  /\ beingRun /\ Owner[c] # NoOne
  /\ proposed' = proposed \cup {c}
  /\ table' = IF table.waiting = c THEN StopClock(table) ELSE table
  /\ UNCHANGED <<beingRun, people, agent>>

(* _handle_acted                                                           *)
Answer(c, accept) ==
  /\ c \in proposed
  /\ proposed' = proposed \ {c}
  /\ IF accept THEN table' \in CarryOut(table, c) ELSE UNCHANGED table
  /\ UNCHANGED <<beingRun, people, agent>>

(* _handle_move and _handle_swing from the agent, within the rules.        *)
AgentActs(c) ==
  /\ autopilot /\ beingRun
  /\ table.begun => table.turn = c
  /\ \/ table' \in {AskIfDone(t, c) : t \in Arrives(table, c)}
     \/ table' \in CutShort(table, c)
     \/ /\ table.begun
        /\ \E d \in Combatant \ {c} :
             table' \in {AskIfDone(t, c) : t \in Swung(table, d)}
  /\ UNCHANGED beingRun /\ OnlyTheTable

(* The same by hand: a player or a stand-in on their own turn, and the DM  *)
(* for anybody, in turn or out of it.  Nobody is asked whether they are    *)
(* done.                                                                   *)
HandActs(c) ==
  /\ beingRun
  /\ \/ table' \in CutShort(table, c)
     \/ \E d \in Combatant \ {c} : table' \in Swung(table, d)
  /\ UNCHANGED beingRun /\ OnlyTheTable

-----------------------------------------------------------------------------
(* Coming and going                                                        *)

NotTheTable == UNCHANGED <<table, beingRun, proposed>>

Connect(a) ==
  /\ online' = IF a \in online THEN online \ {a} ELSE online \cup {a}
  /\ UNCHANGED <<simulated, seated, agent>> /\ NotTheTable

(* _handle_simulate; the seat is closed some time after it is revoked.     *)
Simulate(c) ==
  /\ Owner[c] # NoOne
  /\ simulated' = IF c \in simulated THEN simulated \ {c} ELSE simulated \cup {c}
  /\ UNCHANGED <<online, seated, agent>> /\ NotTheTable

Seat(c) ==
  /\ \/ c \in simulated \ seated /\ seated' = seated \cup {c}
     \/ seated' = seated \ {c} /\ c \in seated
  /\ UNCHANGED <<online, simulated, agent>> /\ NotTheTable

(* set_autopilot, and the agent saying whether it is composing.            *)
Autopilot ==
  /\ autopilot' = ~autopilot
  /\ UNCHANGED <<people, thinking>> /\ NotTheTable

Think(on) ==
  /\ thinking # on
  /\ thinking' = on
  /\ UNCHANGED <<people, autopilot>> /\ NotTheTable

(* A new SessionServer for every evening: what was only in the old one is  *)
(* gone, what was in the campaign file is not.                             *)
HostRestart ==
  /\ table' = [table EXCEPT !.waiting = NoOne, !.owed = NoOne]
  /\ online' = {} /\ seated' = {} /\ proposed' = {}
  /\ autopilot' = FALSE /\ thinking' = FALSE
  /\ UNCHANGED <<beingRun, simulated>>

-----------------------------------------------------------------------------
Panel ==
  \/ PanelBegin
  \/ PanelEnd
  \/ \E on \in BOOLEAN : SwitchFight(on)

Turns ==
  \/ DMTurn
  \/ AgentTurn
  \/ \E a \in Account : Done(a) \/ DeathSave(a) \/ Chat(a)
  \/ Timeout

Acts ==
  \/ \E c \in PC : Offer(c) \/ \E accept \in BOOLEAN : Answer(c, accept)
  \/ \E c \in Combatant : AgentActs(c) \/ HandActs(c)

Comings ==
  \/ \E a \in Account : Connect(a)
  \/ \E c \in PC : Simulate(c) \/ Seat(c)
  \/ Autopilot
  \/ \E on \in BOOLEAN : Think(on)

OneEvening == Panel \/ Turns \/ Acts \/ Comings

TableNext == OneEvening \/ HostRestart

TableSpec == TableInit /\ [][TableNext]_tableVars

(* While the host is up.  Its clock is a QTimer: started, it runs out      *)
(* unless it is stopped or started again.  Nobody else is obliged to do    *)
(* anything.                                                               *)
FairTableSpec == TableInit /\ [][OneEvening]_tableVars /\ WF_tableVars(Timeout)

-----------------------------------------------------------------------------
(* Properties                                                              *)

(* The turn comes to c as the table stands after the step.                 *)
ComesTo(c) == table'.turn = c /\ table.turn # c

Rolled(c) ==
  /\ table.life[c].down
  /\ table'.life[c] # table.life[c]

(* A turn carried out for somebody who is down by the end of it: the move  *)
(* has passed the turn on, and then their swing still lands where it will, *)
(* on whoever the turn has come to if need be.                             *)
TakenByTheFallen == \E c \in proposed \ proposed' : table'.life[c].down

(* Whenever the host brings the turn to somebody who lies dying, they have *)
(* been asked for their save with the clock running on it, or it has been  *)
(* rolled for them in the same breath: nobody lies there with the turn and *)
(* nothing to end it (_advance_turn, _owe_a_save_if_dying).                *)
AskedOrRolled ==
  [][\A c \in PC :
       /\ ComesTo(c) /\ Dying(table, c) /\ Dying(table', c)
       /\ ~Panel /\ ~TakenByTheFallen
       => \/ table'.owed = c /\ table'.waiting = c
          \/ Rolled(c)]_tableVars

(* As long as anybody is on their feet the loop in _advance_turn is long   *)
(* enough: it never gives up with the turn on somebody who was down and is *)
(* neither up again nor asked to roll.                                     *)
WalkReachesSomebodyAwake ==
  [][\A c \in Combatant :
       /\ ComesTo(c) /\ table.life[c].down
       /\ beingRun /\ ~Panel /\ ~TakenByTheFallen /\ ~RunTurn("begin")
       /\ SomebodyElseUp(table', c)
       => \/ ~table'.life[c].down
          \/ table'.owed = c /\ table'.waiting = c]_tableVars

(* The turn on its way from c to d goes by e.                              *)
GoesBy(c, e, d) ==
  IF Before(Scores, c, d)
  THEN Before(Scores, c, e) /\ Before(Scores, e, d)
  ELSE Before(Scores, c, e) \/ Before(Scores, e, d)

(* The turn goes by the dead and the stable, and by the dying only with a  *)
(* save rolled: never past somebody who was dying and is no nearer to      *)
(* either end of it.                                                       *)
DyingNotSteppedOver ==
  [][\A c, d \in Combatant :
       table.turn = c /\ ComesTo(d) /\ ~RunTurn("begin")
         => \A e \in PC : GoesBy(c, e, d) /\ Dying(table, e) => Rolled(e)]_tableVars

(* Nothing but the clock running out can count a death save for somebody   *)
(* who is not dying: not a blow to a corpse or to the stable, not a save   *)
(* nobody owes.                                                            *)
OnlyTheDyingRoll ==
  [][\A c \in Combatant :
       Rolled(c) /\ ~Timeout => Dying(table, c)]_tableVars

(* A turn a machine is playing does not hold the table: once the clock is  *)
(* on it and whoever is composing stops, the turn passes, unless a turn is *)
(* put to them, somebody takes the chair, this stops being the fight, or   *)
(* there is nobody on their feet to pass it to.  (Not for the top of the   *)
(* order, whom starting over hands a turn with no clock.)                  *)
MachineTurnsPass ==
  <>[]~thinking =>
    \A c \in Combatant \ {First(Scores, Combatant)} :
      (/\ beingRun /\ table.turn = c
       /\ table.waiting = c /\ table.owed # c
       /\ MachinePlays(c))
      ~>
      (\/ table.turn # c
       \/ ~beingRun
       \/ ~MachinePlays(c)
       \/ c \in proposed
       \/ ~SomebodyElseUp(table, c))
=============================================================================
