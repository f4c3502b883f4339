-------------------------------- MODULE Seats --------------------------------
(***************************************************************************)
(* A character handed over for a fight: the seat minted for it, the        *)
(* process started to sit there, its connection, the turns it takes, and   *)
(* the character taken back.                                               *)
(*                                                                         *)
(* Models mint_seat, revoke_seat, _handle_simulate, _may_act_for,          *)
(* _handle_swing and _handle_done of net/server.py, stand_ins.py,          *)
(* canon_keeper_player_agent and the part of canon_keeper_client that it   *)
(* runs on.                                                                *)
(*                                                                         *)
(* One character with a player and one that is the DM's, with autopilot    *)
(* off: with it on a stand-in only speaks and says yes, and Offers says    *)
(* what becomes of that.  A token, the process started with it and its     *)
(* connection share a slot, used again when all three are gone.            *)
(***************************************************************************)
EXTENDS Naturals, Sequences, FiniteSets

CONSTANTS
  Slots,      \* bound: tokens, processes and connections about at a time
  Turns,      \* turns are told apart this many at a time; the even are the character's
  MaxWire,    \* bound: the table waits while this many frames are on their way
  MaxPresses, \* bound: hand-overs, take-backs, ends and beginnings
  MaxCrashes, \* bound: stand-ins that stop by themselves
  MaxFails    \* bound: stand-ins that cannot be started

Slot == 1 .. Slots
TurnNo == 0 .. Turns - 1

ASSUME SeatsAssumption ==
  /\ Slots \in Nat /\ Turns \in Nat /\ Turns >= 6 /\ Turns % 2 = 0
  /\ {MaxWire, MaxPresses, MaxCrashes, MaxFails} \subseteq Nat

VARIABLES
  no,        \* the turn it is: encounter.round and encounter.turn_combatant_id
  acted,     \* encounter.action_used
  running,   \* encounter.running
  handed,    \* combatant.simulated
  seats,     \* _seats: the tokens that are live
  playing,   \* StandIns._running: the process counted as playing, or 0
  conn,      \* per slot, the connection as the host has it
  requests,  \* per slot, what is on its way to the host
  proc,      \* per slot, the process
  inbox,     \* per slot, frames it has not read
  view,      \* per slot, the turn it is pausing over, if it is
  spoken,    \* per slot, _acted_on
  presses, crashes, fails,
  struck     \* for the properties: blows in this turn

fight    == <<no, acted, running, struck>>
chair    == <<seats, playing>>
wires    == <<conn, requests, inbox>>
thoughts == <<view, spoken>>
tally    == <<presses, crashes, fails>>
seatsVars == <<fight, handed, chair, wires, proc, thoughts, tally>>

Never == Turns  \* no turn at all
Theirs(n) == n % 2 = 0 /\ n # Never

Frame == [no : TurnNo \cup {Never}, handed : BOOLEAN]

Told == [no |-> IF running THEN no ELSE Never, handed |-> handed]

SeatsInit ==
  /\ no \in {0, 1} /\ acted = FALSE /\ running = TRUE /\ handed = FALSE /\ struck = 0
  /\ seats = {} /\ playing = 0
  /\ conn = [s \in Slot |-> "none"] /\ requests = [s \in Slot |-> <<>>]
  /\ proc = [s \in Slot |-> "none"] /\ inbox = [s \in Slot |-> <<>>]
  /\ view = [s \in Slot |-> Never] /\ spoken = [s \in Slot |-> Never]
  /\ presses = 0 /\ crashes = 0 /\ fails = 0

-----------------------------------------------------------------------------
(* Seats                                                                   *)

(* Minting drops the token that was out, so its slot is free as well.      *)
Free == {s \in Slot : proc[s] = "none" /\ conn[s] = "none"}

(* revoke_seat: a token that is dropped shuts whoever came in on it.       *)
Closed(old, lines) ==
  IF old = {} THEN lines
  ELSE [s \in Slot |-> IF lines[s] = "open" THEN "closing" ELSE lines[s]]

(* A bug: a process that has stopped is still counted. *)
CountedAll == playing

(* _reap                                                                   *)
Counted == IF playing # 0 /\ proc[playing] = "none" THEN 0 ELSE playing

(* start and stop, of a process.                                           *)
Started(s) == proc' = [proc EXCEPT ![s] = "starting"]

Stopped(s) == proc' = [proc EXCEPT ![s] = "none"]

(* _begin, and the seat taken back where the process cannot be started.    *)
Begin(tokens, lines) ==
  /\ conn' = Closed(tokens, lines)
  /\ \/ \E s \in Free :
          /\ seats' = {s} /\ playing' = s
          /\ Started(s)
          /\ UNCHANGED fails
     \/ /\ fails < MaxFails /\ fails' = fails + 1
        /\ seats' = {} /\ playing' = 0
        /\ UNCHANGED proc

(* _end                                                                    *)
End(tokens, lines) ==
  /\ playing' = 0
  /\ Stopped(Counted)
  /\ seats' = {} /\ conn' = Closed(tokens, lines)
  /\ UNCHANGED fails

(* look, after a change that leaves these tokens and connections.          *)
Look(tokens, lines) ==
  LET wanted == running' /\ handed'
  IN \/ wanted /\ Counted = 0 /\ Begin(tokens, lines)
     \/ ~wanted /\ Counted # 0 /\ End(tokens, lines)
     \/ /\ wanted <=> Counted # 0
        /\ seats' = tokens /\ conn' = lines /\ playing' = Counted
        /\ UNCHANGED <<proc, fails>>

(* publish_encounter.  A process that look has stopped reads no more, and  *)
(* one that lives need not remember a turn it can never be told of again.  *)
Publish ==
  /\ inbox' = [s \in Slot |->
       IF proc'[s] \in {"none", "starting"} THEN <<>>
       ELSE IF conn[s] = "none" \/ (inbox[s] # <<>> /\ inbox[s][Len(inbox[s])] = Told')
       THEN inbox[s] ELSE Append(inbox[s], Told')]
  /\ view' = [s \in Slot |-> IF proc'[s] = "pausing" THEN view[s] ELSE Never]
  /\ spoken' = [s \in Slot |->
       IF \E i \in DOMAIN inbox'[s] : inbox'[s][i].no = spoken[s] THEN spoken[s] ELSE Never]

Room == \A s \in Slot : Len(inbox[s]) < MaxWire

-----------------------------------------------------------------------------
(* The table                                                               *)

Pressed == Room /\ presses < MaxPresses /\ presses' = presses + 1

(* set_simulated                                                           *)
Handed(on) == handed' = on

(* _handle_simulate: the seat it mints is for nobody; look mints its own.  *)
HandOver(on) ==
  /\ Pressed /\ Handed(on)
  /\ UNCHANGED <<fight, requests, crashes>>
  /\ IF on THEN \E s \in Free : Look({s}, Closed(seats, conn))
           ELSE Look({}, Closed(seats, conn))
  /\ Publish

(* _simulate, of the DM's own panel.                                       *)
DmHandsOver ==
  /\ Pressed /\ Handed(~handed)
  /\ UNCHANGED <<fight, requests, crashes>>
  /\ Look(seats, conn) /\ Publish

(* The fight ended and begun.  Its rounds start from one again, but no     *)
(* stand-in lives to see it.                                               *)
EndOrBegin ==
  /\ IF running THEN Pressed ELSE Room /\ UNCHANGED presses
  /\ running' = ~running /\ acted' = FALSE /\ struck' = 0
  /\ no' \in IF running THEN {no} ELSE {(no + 2) % Turns, (no + 3) % Turns}
  /\ UNCHANGED <<handed, requests, crashes>>
  /\ Look(seats, conn) /\ Publish

(* The turn passed: _advance_turn, then everybody is told and look looks.  *)
PassTheTurn ==
  /\ no' = (no + 1) % Turns /\ acted' = FALSE /\ struck' = 0
  /\ UNCHANGED <<running, handed>>

(* The DM, the clock, or whoever else has the turn.                        *)
TurnPasses ==
  /\ Room /\ running
  /\ PassTheTurn
  /\ UNCHANGED <<requests, presses, crashes>>
  /\ Look(seats, conn) /\ Publish

(* Their player, on their own map.                                         *)
PlayerSwings ==
  /\ Room /\ running /\ ~handed /\ Theirs(no) /\ ~acted
  /\ acted' = TRUE /\ struck' = struck + 1
  /\ UNCHANGED <<no, running, handed, requests, presses, crashes>>
  /\ Look(seats, conn) /\ Publish

-----------------------------------------------------------------------------
(* A stand-in                                                              *)

(* _seat_holder                                                            *)
Live(s) == s \in seats

(* _sit_down and _handle_hello: admitted on a live token, and told how the *)
(* fight stands; refused, it exits.                                        *)
Connects(s) ==
  /\ proc[s] = "starting"
  /\ IF Live(s)
     THEN /\ conn' = [conn EXCEPT ![s] = "open"]
          /\ proc' = [proc EXCEPT ![s] = "reading"]
          /\ inbox' = [inbox EXCEPT ![s] = <<Told>>]
     ELSE proc' = [proc EXCEPT ![s] = "none"] /\ UNCHANGED <<conn, inbox>>
  /\ UNCHANGED <<fight, handed, chair, requests, thoughts, tally>>

(* _acted_on                                                               *)
SpokenFor(s, frame) == spoken[s] = frame.no

(* _dispatch and on_encounter, up to its pause; nothing is read meanwhile. *)
Reads(s) ==
  /\ proc[s] = "reading" /\ inbox[s] # <<>>
  /\ LET frame == Head(inbox[s])
         mine == frame.handed /\ Theirs(frame.no) /\ ~SpokenFor(s, frame)
     IN /\ view' = [view EXCEPT ![s] = IF mine THEN frame.no ELSE Never]
        /\ proc' = [proc EXCEPT ![s] = IF mine THEN "pausing" ELSE "reading"]
  /\ inbox' = [inbox EXCEPT ![s] = Tail(@)]
  /\ UNCHANGED <<fight, handed, chair, conn, requests, spoken, tally>>

(* A bug: with nobody to fight it has nothing to say. *)
WordsOfBlows(fights) == IF fights THEN <<"swing", "done">> ELSE <<>>

(* decide, in_words and do_it: where it walks is left out.                 *)
Words(fights) == IF fights THEN <<"swing", "done">> ELSE <<"done">>

(* The pause is over: take_the_turn and do_it, from what it last read.     *)
(* Whether there is somebody to fight, and an action left to it as it was  *)
(* told, is free.  What it said of its last turn was heard while it        *)
(* paused.                                                                 *)
Speaks(s, fights) ==
  /\ proc[s] = "pausing" /\ conn[s] # "none" /\ requests[s] = <<>>
  /\ spoken' = [spoken EXCEPT ![s] = view[s]]
  /\ view' = [view EXCEPT ![s] = Never]
  /\ requests' = [requests EXCEPT ![s] = @ \o Words(fights)]
  /\ proc' = [proc EXCEPT ![s] = "reading"]
  /\ UNCHANGED <<fight, handed, chair, conn, inbox, tally>>

(* It was closed on, or it stopped by itself.                              *)
Exits(s) ==
  /\ proc[s] \in {"reading", "pausing"}
  /\ \/ conn[s] = "none" /\ UNCHANGED crashes
     \/ crashes < MaxCrashes /\ crashes' = crashes + 1
  /\ proc' = [proc EXCEPT ![s] = "none"] /\ inbox' = [inbox EXCEPT ![s] = <<>>]
  /\ view' = [view EXCEPT ![s] = Never] /\ spoken' = [spoken EXCEPT ![s] = Never]
  /\ UNCHANGED <<fight, handed, chair, conn, requests, presses, fails>>

-----------------------------------------------------------------------------
(* Its connection, at the host                                             *)

Took(s) == requests' = [requests EXCEPT ![s] = Tail(@)]

(* A bug: a seat's blow is not asked whether it is one too many. *)
SeatMaySwingAgain == handed /\ running /\ Theirs(no)

(* _may_act_for, of a seat, and one action a turn.                         *)
SeatMaySwing == handed /\ running /\ Theirs(no) /\ ~acted

(* _handle_swing                                                           *)
HearSwing(s) ==
  /\ requests[s] # <<>> /\ Head(requests[s]) = "swing" /\ Took(s)
  /\ IF SeatMaySwing
     THEN /\ acted' = TRUE /\ struck' = struck + 1
          /\ UNCHANGED <<no, running, handed>>
          /\ Look(seats, conn) /\ Publish
     ELSE UNCHANGED <<fight, handed, chair, conn, proc, thoughts, inbox, fails>>
  /\ UNCHANGED <<presses, crashes>>

(* _handle_done: whoever plays the character that is up, in a seat or out  *)
(* of one.                                                                 *)
HearDone(s) ==
  /\ requests[s] # <<>> /\ Head(requests[s]) = "done" /\ Took(s)
  /\ IF running /\ Theirs(no)
     THEN /\ PassTheTurn
          /\ Look(seats, conn) /\ Publish
     ELSE UNCHANGED <<fight, handed, chair, conn, proc, thoughts, inbox, fails>>
  /\ UNCHANGED <<presses, crashes>>

(* The socket closed a moment after the seat was revoked, or the other end *)
(* gone and all it had said heard.                                         *)
Closes(s) ==
  /\ \/ conn[s] = "closing"
     \/ conn[s] = "open" /\ proc[s] = "none" /\ requests[s] = <<>>
  /\ conn' = [conn EXCEPT ![s] = "none"]
  /\ requests' = [requests EXCEPT ![s] = <<>>]
  /\ UNCHANGED <<fight, handed, chair, proc, inbox, thoughts, tally>>

-----------------------------------------------------------------------------
StandIn(s) == Connects(s) \/ Reads(s) \/ (\E fights \in BOOLEAN : Speaks(s, fights)) \/ Exits(s)

Hears(s) == HearSwing(s) \/ HearDone(s)

Table ==
  \/ \E on \in BOOLEAN : HandOver(on)
  \/ DmHandsOver
  \/ EndOrBegin
  \/ TurnPasses
  \/ PlayerSwings

SeatsNext == Table \/ \E s \in Slot : StandIn(s) \/ Hears(s) \/ Closes(s)

SeatsSpec ==
  /\ SeatsInit /\ [][SeatsNext]_seatsVars
  /\ \A s \in Slot : WF_seatsVars(StandIn(s)) /\ WF_seatsVars(Hears(s)) /\ WF_seatsVars(Closes(s))

-----------------------------------------------------------------------------
(* Properties                                                              *)

(* A turn is one blow, whoever of the player, a stand-in, and the stand-in *)
(* before it had a hand in it, each going by what they last saw            *)
(* (_may_act_for, already_acted, action_spent).                            *)
OneBlow == struck <= 1

(* A stand-in that is gone is missed no later than the next turn: when it  *)
(* comes round a character handed over is counted as played by a process   *)
(* that lives, or could not be (_reap, look).                              *)
MissedByTheNextTurn ==
  [][no' # no /\ running' /\ handed'
       => fails' # fails \/ (playing' # 0 /\ proc'[playing'] # "none")]_seatsVars

(* The fight does not stop at a character handed over: while one sits in   *)
(* its seat the turn moves on (on_encounter, do_it, _handle_done).         *)
TheirTurnPasses ==
  LET Waiting(n) == running /\ handed /\ no = n /\ playing # 0 /\ conn[playing] = "open"
  IN \A n \in {m \in TurnNo : Theirs(m)} : Waiting(n) ~> ~Waiting(n)

=============================================================================
