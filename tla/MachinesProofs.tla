--------------------------- MODULE MachinesProofs ---------------------------
(***************************************************************************)
(* The machines at the table.  Seats: one blow a turn from whoever has a   *)
(* hand in it, and a stand-in missed by the next turn, for any number of   *)
(* slots.  DmAgent: what the table is told of the agent that runs it, and  *)
(* what the agent puts to its model, for any fight, any number of tasks    *)
(* and any bounds.                                                         *)
(***************************************************************************)
EXTENDS Seats, DmAgent, Least, TLAPS

-----------------------------------------------------------------------------
(* The seats of the stand-ins (Seats)                                      *)

(* A blow that was struck has spent the action.  With that, OneBlow is     *)
(* inductive: whoever strikes is asked, on the host, whether it is spent.  *)
BlowsSpend ==
  /\ struck \in {0, 1}
  /\ struck = 1 => acted

(* All a look at the chair needs: that every slot has its process.         *)
Doing == {"none", "starting", "reading", "pausing"}

Staffed == proc \in [Slot -> Doing] /\ fails \in Nat

SeatsInv == BlowsSpend /\ Staffed

-----------------------------------------------------------------------------
(* The chair                                                               *)

LEMMA BeginStaffs ==
  ASSUME Staffed, NEW tokens, NEW lines, Begin(tokens, lines)
  PROVE  /\ Staffed'
         /\ fails' # fails \/ (playing' # 0 /\ proc'[playing'] # "none")
<1>1. ASSUME NEW s \in Free, playing' = s, Started(s), UNCHANGED fails
      PROVE  Staffed' /\ playing' # 0 /\ proc'[playing'] # "none"
  BY <1>1 DEF Free, Slot, Started, Staffed, Doing
<1>2. CASE fails' = fails + 1 /\ UNCHANGED proc
  BY <1>2 DEF Staffed
<1> QED
  BY <1>1, <1>2 DEF Begin

(* After a look a character handed over in a fight that is on is played by *)
(* a process that lives, or by none because none could be started.         *)
LEMMA LookStaffs ==
  ASSUME Staffed, NEW tokens, NEW lines, Look(tokens, lines)
  PROVE  /\ Staffed'
         /\ running' /\ handed' =>
              fails' # fails \/ (playing' # 0 /\ proc'[playing'] # "none")
<1>1. CASE Begin(tokens, lines)
  BY <1>1, BeginStaffs
<1>2. CASE ~ (running' /\ handed') /\ End(tokens, lines)
  BY <1>2 DEF End, Stopped, Staffed, Doing
<1>3. CASE /\ running' /\ handed' <=> Counted # 0
           /\ playing' = Counted /\ UNCHANGED <<proc, fails>>
  BY <1>3 DEF Staffed, Counted
<1> QED
  BY <1>1, <1>2, <1>3 DEF Look

-----------------------------------------------------------------------------
(* The steps                                                               *)

Missed ==
  no' # no /\ running' /\ handed'
    => fails' # fails \/ (playing' # 0 /\ proc'[playing'] # "none")

Good == SeatsInv' /\ Missed

LEMMA PassingTheTurnIsGood ==
  ASSUME SeatsInv, PassTheTurn, NEW tokens, NEW lines, Look(tokens, lines)
  PROVE  Good
<1>1. BlowsSpend'
  BY DEF PassTheTurn, BlowsSpend
<1> QED
  BY <1>1, LookStaffs DEF Good, Missed, SeatsInv

LEMMA BlowIsGood ==
  ASSUME SeatsInv, ~acted, acted' = TRUE, struck' = struck + 1, UNCHANGED no,
         NEW tokens, NEW lines, Look(tokens, lines)
  PROVE  Good
<1>1. BlowsSpend'
  BY DEF SeatsInv, BlowsSpend
<1> QED
  BY <1>1, LookStaffs DEF Good, Missed, SeatsInv

LEMMA QuietIsGood ==
  ASSUME SeatsInv, UNCHANGED fight, Staffed'
  PROVE  Good
BY DEF SeatsInv, BlowsSpend, fight, Good, Missed

LEMMA TableIsGood ==
  ASSUME SeatsInv, Table
  PROVE  Good
<1>1. ASSUME NEW on \in BOOLEAN, HandOver(on)
      PROVE  Good
  <2>1. PICK tokens, lines : Look(tokens, lines)
    BY <1>1 DEF HandOver
  <2> QED
    BY <1>1, <2>1, LookStaffs, QuietIsGood DEF HandOver, SeatsInv
<1>2. CASE DmHandsOver
  BY <1>2, LookStaffs, QuietIsGood DEF DmHandsOver, SeatsInv
<1>3. CASE EndOrBegin
  <2>1. BlowsSpend' /\ Look(seats, conn)
    BY <1>3 DEF EndOrBegin, BlowsSpend
  <2> QED
    BY <2>1, LookStaffs DEF Good, Missed, SeatsInv
<1>4. CASE TurnPasses
  BY <1>4, PassingTheTurnIsGood DEF TurnPasses
<1>5. CASE PlayerSwings
  BY <1>5, BlowIsGood DEF PlayerSwings
<1> QED
  BY <1>1, <1>2, <1>3, <1>4, <1>5 DEF Table

LEMMA StandInIsGood ==
  ASSUME SeatsInv, NEW s \in Slot, StandIn(s)
  PROVE  Good
<1> USE DEF SeatsInv, Staffed, Doing, tally
<1>1. UNCHANGED fight
  BY DEF StandIn, Connects, Reads, Speaks, Exits
<1>2. CASE Connects(s)
  BY <1>1, <1>2, QuietIsGood DEF Connects
<1>3. CASE Reads(s)
  BY <1>1, <1>3, QuietIsGood DEF Reads
<1>4. CASE \E fights \in BOOLEAN : Speaks(s, fights)
  BY <1>1, <1>4, QuietIsGood DEF Speaks
<1>5. CASE Exits(s)
  BY <1>1, <1>5, QuietIsGood DEF Exits
<1> QED
  BY <1>2, <1>3, <1>4, <1>5 DEF StandIn

LEMMA HearsIsGood ==
  ASSUME SeatsInv, NEW s \in Slot, Hears(s)
  PROVE  Good
<1>1. CASE HearSwing(s) /\ SeatMaySwing
  BY <1>1, BlowIsGood DEF HearSwing, SeatMaySwing
<1>2. CASE HearDone(s) /\ running /\ Theirs(no)
  BY <1>2, PassingTheTurnIsGood DEF HearDone
<1>3. CASE UNCHANGED <<fight, proc, fails>>
  BY <1>3, QuietIsGood DEF SeatsInv, Staffed
<1> QED
  BY <1>1, <1>2, <1>3 DEF Hears, HearSwing, HearDone

LEMMA NextIsGood == SeatsInv /\ [SeatsNext]_seatsVars => SeatsInv' /\ [Missed]_seatsVars
<1> SUFFICES ASSUME SeatsInv, [SeatsNext]_seatsVars
             PROVE  SeatsInv' /\ (Missed \/ UNCHANGED seatsVars)
  OBVIOUS
<1>1. CASE Table
  BY <1>1, TableIsGood DEF Good
<1>2. ASSUME NEW s \in Slot, StandIn(s)
      PROVE  SeatsInv' /\ Missed
  BY <1>2, StandInIsGood DEF Good
<1>3. ASSUME NEW s \in Slot, Hears(s)
      PROVE  SeatsInv' /\ Missed
  BY <1>3, HearsIsGood DEF Good
<1>4. ASSUME NEW s \in Slot, Closes(s)
      PROVE  SeatsInv' /\ Missed
  BY <1>4, QuietIsGood DEF Closes, SeatsInv, Staffed, tally, Good
<1>5. CASE UNCHANGED seatsVars
  BY <1>5, QuietIsGood DEF seatsVars, tally, SeatsInv, Staffed, Good
<1> QED
  BY <1>1, <1>2, <1>3, <1>4, <1>5 DEF SeatsNext

LEMMA SeatsInitially == SeatsInit => SeatsInv
<1> SUFFICES ASSUME SeatsInit PROVE SeatsInv
  OBVIOUS
<1>1. BlowsSpend
  BY DEF SeatsInit, BlowsSpend
<1>2. Staffed
  BY DEF SeatsInit, Staffed, Doing
<1> QED
  BY <1>1, <1>2 DEF SeatsInv

LEMMA SeatsInvHolds == SeatsSpec => []SeatsInv
BY SeatsInitially, NextIsGood, PTL DEF SeatsSpec

-----------------------------------------------------------------------------
(* The theorems                                                            *)

(* For any number of seats, stand-ins and presses: a turn is one blow,     *)
(* whoever of the player, a stand-in and the stand-in before it struck it  *)
(* (_may_act_for, already_acted, action_spent).                            *)
THEOREM ATurnIsOneBlow == SeatsSpec => []OneBlow
<1>1. SeatsInv => OneBlow
  BY DEF SeatsInv, BlowsSpend, OneBlow
<1> QED
  BY <1>1, SeatsInvHolds, PTL

(* And whenever the turn moves, a character handed over is counted as      *)
(* played by a process that lives, or one has just failed to start: a      *)
(* stand-in that stopped is not taken for one that sits there (_reap).     *)
THEOREM TheDeadAreMissed == SeatsSpec => MissedByTheNextTurn
<1>1. MissedByTheNextTurn <=> [][Missed]_seatsVars
  BY PTL DEF MissedByTheNextTurn, Missed
<1> QED
  BY <1>1, SeatsInvHolds, NextIsGood, PTL DEF SeatsSpec

-----------------------------------------------------------------------------
(* The agent that runs the table (DmAgent): the types                      *)

Who == InOrder \cup {NoOne}

TaskState == [st : {"free", "asleep", "asking", "cut"}, kind : {"lull", "pause"},
              about : Who, call : {"none", "model", "tool"},
              left : Seq(Seq(Request)), rounds : Nat]

Mind == [auto : BOOLEAN, up : Who, no : Nat, pending : Seq(Line),
         timer : Task \cup {NoTask}, monster : Task \cup {NoTask}, mine : Who,
         answering : BOOLEAN, dropped : BOOLEAN, unseen : SUBSET Nat,
         tasks : [Task -> TaskState]]

Heeds == [t : {"fight"}, up : Who, no : Nat] \cup [t : {"auto"}, on : BOOLEAN]
           \cup [t : {"said"}, line : Line]

Utters == [t : {"ask"}, what : Request] \cup [t : {"busy"}, on : BOOLEAN]
            \cup [t : {"chat"}] \cup [t : {"trouble"}]

Knows == [auto : BOOLEAN, up : Who, no : Nat, clock : BOOLEAN, member : BOOLEAN,
          busy : BOOLEAN, spoken : Nat]

LinesTyped == toHost \in Seq(Utters) /\ toAgent \in Seq(Heeds)

AgentTyped ==
  /\ host \in Knows /\ LinesTyped
  /\ app \in [kept : BOOLEAN, watch : BOOLEAN]
  /\ agent \in [alive : BOOLEAN, ours : BOOLEAN, in : BOOLEAN]
  /\ mind \in Mind
  /\ asked \in [Item -> Nat]
  /\ spent \in [turns : Nat, flips : Nat, upsets : Nat, lines : SUBSET Line]

(* The agent's session at both ends: an agent that is not in knows nothing *)
(* and is told nothing, and the host hears nobody it has not let in.       *)
Links ==
  /\ agent.in => agent.alive /\ host.member
  /\ ~agent.in => mind = Blank /\ toAgent = <<>> /\ asked = [i \in Item |-> 0]
  /\ ~host.member => toHost = <<>>

(* The two tasks a Responder keeps hold of: the lull it would restart is   *)
(* asleep, and there is one pause at a time, the monster's.                *)
Sleeps(m, s, kind) == m.tasks[s].st = "asleep" /\ m.tasks[s].kind = kind

Tended(m) ==
  /\ m.timer # NoTask => Sleeps(m, m.timer, "lull")
  /\ m.monster # NoTask => Sleeps(m, m.monster, "pause") \/ m.tasks[m.monster].st = "asking"
  /\ \A s \in Task : Sleeps(m, s, "pause") => s = m.monster /\ m.tasks[s].about \in Machine

-----------------------------------------------------------------------------
(* "Is writing"                                                            *)

(* Word that it has stopped is among these frames, and comes after every   *)
(* word that it has started.                                               *)
Stops(q) == \E k \in DOMAIN q : q[k] = Busy(FALSE)

Hushed(q) ==
  \A k \in DOMAIN q : q[k] = Busy(TRUE) => \E j \in DOMAIN q : j > k /\ q[j] = Busy(FALSE)

(* While nothing is being answered, the host has been or is being told so. *)
Writing ==
  agent.in /\ ~mind.answering => Hushed(toHost) /\ (host.busy => Stops(toHost))

-----------------------------------------------------------------------------
(* What is put to the model                                                *)

(* The fight as somebody has it and as somebody has it later: the number   *)
(* of the turn does not go down, and while it stays nobody new is up.      *)
Later(u, n, v, k) == n <= k /\ (n = k => v = u \/ v = NoOne)

Asked(n) == IF n \in Turn THEN asked[n] ELSE 0

(* The same of what the agent has heard, unless it has heard of no turn.   *)
HeardBefore(v, k) ==
  /\ mind.no <= k
  /\ mind.no = k => v = mind.up \/ v = NoOne \/ (mind.up = NoOne /\ Asked(k) = 0)

Stream ==
  /\ HeardBefore(host.up, host.no)
  /\ \A i \in DOMAIN toAgent : toAgent[i].t = "fight" =>
       /\ HeardBefore(toAgent[i].up, toAgent[i].no)
       /\ Later(toAgent[i].up, toAgent[i].no, host.up, host.no)
       /\ \A j \in DOMAIN toAgent : i < j /\ toAgent[j].t = "fight" =>
            Later(toAgent[i].up, toAgent[i].no, toAgent[j].up, toAgent[j].no)

(* A turn that came round while the agent was looking is in hand as long   *)
(* as it lasts, and is put to the model by the pause it gave rise to.      *)
TurnsOnce ==
  /\ \A n \in Turn : asked[n] >= 1 => n <= mind.no
  /\ \A n \in Turn : asked[n] <= 1 \/ n \in mind.unseen
  /\ mind.up \in Machine => mind.mine = mind.up \/ mind.no \in mind.unseen
  /\ (\E s \in Task : Sleeps(mind, s, "pause")) => Asked(mind.no) = 0 \/ mind.no \in mind.unseen

(* A line is in one place at a time: being sent, pending, or with a model. *)
LinesOnce ==
  /\ \A k \in DOMAIN toAgent : toAgent[k].t = "said" =>
       /\ toAgent[k].line \in spent.lines /\ asked[toAgent[k].line] = 0
       /\ \A j \in DOMAIN mind.pending : mind.pending[j] # toAgent[k].line
       /\ \A j \in DOMAIN toAgent : j # k => toAgent[j] # toAgent[k]
  /\ \A k \in DOMAIN mind.pending :
       /\ mind.pending[k] \in spent.lines /\ asked[mind.pending[k]] = 0
       /\ \A j \in DOMAIN mind.pending : j # k => mind.pending[j] # mind.pending[k]
  /\ \A l \in Line : asked[l] <= 1 /\ (asked[l] >= 1 => l \in spent.lines)

AgentInv == AgentTyped /\ Links /\ Tended(mind) /\ Writing /\ Stream /\ TurnsOnce /\ LinesOnce

-----------------------------------------------------------------------------
(* The host                                                                *)

(* What the host knows after some of its handlers: the turn has gone on or *)
(* stayed, and nothing else but its clock has changed.                     *)
MovesOn(h, r) ==
  /\ r \in Knows /\ Later(h.up, h.no, r.up, r.no)
  /\ r.auto = h.auto /\ r.member = h.member /\ r.busy = h.busy /\ r.spoken = h.spoken

LEMMA AfterIsInOrder ==
  ASSUME NEW c \in InOrder
  PROVE  After(c) \in InOrder
<1> DEFINE n == Len(Order)
<1>1. n \in Nat /\ n > 0 /\ DOMAIN Order = 1 .. n
  BY AgentAssumption
<1>2. PICK i \in 1 .. n : Order[i] = c
  BY DEF InOrder
<1> DEFINE j == CHOOSE j \in 1 .. n : Order[j] = c
<1>3. j \in 1 .. n
  BY <1>2
<1> HIDE DEF n, j
<1>4. (j % n) + 1 \in 1 .. n
  BY <1>1, <1>3
<1>5. After(c) = Order[(j % n) + 1]
  BY DEF After, j, n
<1> QED
  BY <1>4, <1>5 DEF InOrder, n

LEMMA RunTurnMovesOn ==
  ASSUME NEW h \in Knows, NEW action \in {"begin", "next", "end"}
  PROVE  MovesOn(h, RunTurn(h, action))
<1>0. Order[1] \in Who /\ NoOne \in Who
  <2>1. 1 \in 1 .. Len(Order)
    BY AgentAssumption
  <2> QED
    BY <2>1 DEF Who, InOrder
<1>1. h.no \in Nat /\ h.no + 1 \in Nat
  BY DEF Knows
<1> DEFINE r == RunTurn(h, action)
           Went == /\ r \in Knows
                   /\ r.auto = h.auto /\ r.member = h.member /\ r.busy = h.busy
                   /\ r.spoken = h.spoken
                   /\ r.no = h.no + 1 \/ (r.no = h.no /\ r.up = NoOne)
<1>2. ASSUME action = "begin" PROVE Went
  <2>1. r = [h EXCEPT !.up = Order[1], !.no = h.no + 1, !.clock = FALSE]
    BY <1>2 DEF RunTurn
  <2> HIDE DEF r
  <2> QED
    BY <1>0, <1>1, <2>1 DEF Knows
<1>3. ASSUME action = "next" PROVE Went
  <2> DEFINE v == IF h.up = NoOne THEN Order[1] ELSE After(h.up)
  <2>1. v \in Who
    BY <1>0, AfterIsInOrder DEF Who, Knows
  <2>2. r = [h EXCEPT !.up = v, !.no = h.no + 1, !.clock = FALSE]
    BY <1>3 DEF RunTurn
  <2> HIDE DEF v, r
  <2> QED
    BY <1>1, <2>1, <2>2 DEF Knows
<1>4. ASSUME action = "end" PROVE Went
  <2>1. r = [h EXCEPT !.up = NoOne, !.clock = FALSE]
    BY <1>4 DEF RunTurn
  <2> HIDE DEF r
  <2> QED
    BY <1>0, <2>1 DEF Knows
<1>5. Went
  BY <1>2, <1>3, <1>4
<1> HIDE DEF r
<1>6. MovesOn(h, r)
  BY <1>1, <1>5 DEF MovesOn, Later
<1> QED
  BY <1>6 DEF r

LEMMA HandledMovesOn ==
  ASSUME NEW h \in Knows, NEW r \in Request
  PROVE  MovesOn(h, Handled(h, r)) /\ (~h.auto => Handled(h, r) = h)
<1>0. MovesOn(h, h)
  BY DEF MovesOn, Knows, Later
<1>1. CASE r \in {"begin", "next", "end"}
  <2>1. Handled(h, r) = HandleTurn(h, r)
    BY <1>1 DEF Handled
  <2> QED
    BY <1>0, <1>1, <2>1, RunTurnMovesOn DEF HandleTurn, MayRunTheTable
<1>2. CASE r = "fight"
  BY <1>0, <1>2 DEF Handled, HandleFight, MayRunTheTable, MovesOn, Knows, Later, Who
<1>3. CASE r \in {"move", "swing"}
  BY <1>0, <1>3 DEF Handled, HandleAction, MayRunTheTable, MovesOn, Knows, Later
<1>4. CASE r \notin {"begin", "next", "end", "fight", "move", "swing"}
  BY <1>0, <1>4 DEF Handled
<1> QED
  BY <1>1, <1>2, <1>3, <1>4

-----------------------------------------------------------------------------
(* Frames put on the wire and read off it                                  *)

LEMMA OneMore ==
  ASSUME NEW S, NEW q \in Seq(S), NEW f \in S
  PROVE  /\ Append(q, f) \in Seq(S)
         /\ \A i \in DOMAIN q : i < Len(q) + 1
         /\ \A i \in DOMAIN Append(q, f) :
              (i \in DOMAIN q /\ Append(q, f)[i] = q[i]) \/ (i = Len(q) + 1 /\ Append(q, f)[i] = f)
OBVIOUS

LEMMA OneLess ==
  ASSUME NEW S, NEW q \in Seq(S), q # <<>>
  PROVE  /\ Tail(q) \in Seq(S) /\ 1 \in DOMAIN q /\ Head(q) = q[1] /\ Head(q) \in S
         /\ \A i \in DOMAIN Tail(q) : i \in 1 .. Len(Tail(q)) /\ i + 1 \in DOMAIN q
                                        /\ Tail(q)[i] = q[i + 1]
         /\ \A i \in DOMAIN q : i = 1 \/ (i - 1 \in DOMAIN Tail(q) /\ q[i] = Tail(q)[i - 1])
<1>1. DOMAIN q = 1 .. Len(q) /\ DOMAIN Tail(q) = 1 .. Len(Tail(q)) /\ Len(q) \in Nat
  BY TakenOff
<1>2. 1 \in DOMAIN q
  BY <1>1, TakenOff
<1> QED
  BY <1>1, <1>2, TakenOff

LEMMA LaterStill ==
  ASSUME NEW u, NEW v, NEW w, NEW n \in Nat, NEW k \in Nat, NEW m \in Nat,
         Later(u, n, v, k), Later(v, k, w, m)
  PROVE  Later(u, n, w, m)
BY DEF Later

LEMMA HeardStill ==
  ASSUME mind \in Mind, NEW v, NEW w, NEW k \in Nat, NEW m \in Nat,
         HeardBefore(v, k), Later(v, k, w, m)
  PROVE  HeardBefore(w, m)
<1>1. mind.no \in Nat
  BY DEF Mind
<1> QED
  BY <1>1 DEF Later, HeardBefore

(* What the host and the table do to the wire: at most one frame more, and *)
(* word of the fight is word of it as it stands.                           *)
Tells ==
  \/ toAgent' = toAgent
  \/ \E f \in Heeds : /\ toAgent' = Append(toAgent, f)
                      /\ f.t = "fight" => f.up = host'.up /\ f.no = host'.no
                      /\ f.t # "said"

LEMMA StreamGoesOn ==
  ASSUME AgentTyped, Stream, host' \in Knows, UNCHANGED <<mind, asked>>,
         Later(host.up, host.no, host'.up, host'.no),
         Tells \/ \E f \in Heeds : toAgent' = Append(toAgent, f) /\ f.t # "fight"
  PROVE  Stream'
<1>0. /\ toAgent \in Seq(Heeds) /\ mind \in Mind
      /\ host.no \in Nat /\ host'.no \in Nat
      /\ \A i \in DOMAIN toAgent : toAgent[i].t = "fight" => toAgent[i].no \in Nat
  <2>1. \A f \in Heeds : f.t = "fight" => f.no \in Nat
    BY DEF Heeds
  <2>2. \A i \in DOMAIN toAgent : toAgent[i] \in Heeds
    BY DEF AgentTyped, LinesTyped
  <2>3. host.no \in Nat /\ host'.no \in Nat
    BY DEF AgentTyped, Knows
  <2> QED
    BY <2>1, <2>2, <2>3 DEF AgentTyped, LinesTyped
<1>1. \A v, k : HeardBefore(v, k)' <=> HeardBefore(v, k)
  BY DEF HeardBefore, Asked
<1>2. HeardBefore(host'.up, host'.no)
  BY <1>0, HeardStill DEF Stream
<1>3. \A i \in DOMAIN toAgent : toAgent[i].t = "fight" =>
        /\ HeardBefore(toAgent[i].up, toAgent[i].no)
        /\ Later(toAgent[i].up, toAgent[i].no, host'.up, host'.no)
  BY <1>0, LaterStill DEF Stream
<1>4. CASE toAgent' = toAgent
  BY <1>1, <1>2, <1>3, <1>4 DEF Stream
<1>5. ASSUME NEW f \in Heeds, toAgent' = Append(toAgent, f),
             f.t = "fight" => f.up = host'.up /\ f.no = host'.no
      PROVE  Stream'
  <2>1. /\ \A i \in DOMAIN toAgent : i < Len(toAgent) + 1
        /\ \A i \in DOMAIN toAgent' :
              \/ i \in DOMAIN toAgent /\ toAgent'[i] = toAgent[i]
              \/ i = Len(toAgent) + 1 /\ toAgent'[i] = f
    BY <1>0, <1>5, OneMore
  <2>2. f.t = "fight" => Later(f.up, f.no, host'.up, host'.no)
    BY <1>0, <1>5 DEF Later
  <2>3. ASSUME NEW i \in DOMAIN toAgent', toAgent'[i].t = "fight"
        PROVE  /\ HeardBefore(toAgent'[i].up, toAgent'[i].no)
               /\ Later(toAgent'[i].up, toAgent'[i].no, host'.up, host'.no)
    BY <1>2, <1>3, <1>5, <2>1, <2>2, <2>3
  <2>4. ASSUME NEW i \in DOMAIN toAgent', NEW j \in DOMAIN toAgent', i < j,
               toAgent'[i].t = "fight", toAgent'[j].t = "fight"
        PROVE  Later(toAgent'[i].up, toAgent'[i].no, toAgent'[j].up, toAgent'[j].no)
    <3>1. CASE j \in DOMAIN toAgent /\ toAgent'[j] = toAgent[j]
      <4>1. i \in DOMAIN toAgent /\ toAgent'[i] = toAgent[i]
        <5>1. Len(toAgent) \in Nat /\ DOMAIN toAgent = 1 .. Len(toAgent)
          BY <1>0
        <5> QED
          BY <2>1, <2>4, <3>1, <5>1
      <4> QED
        BY <2>4, <3>1, <4>1 DEF Stream
    <3>2. CASE j = Len(toAgent) + 1 /\ toAgent'[j] = f
      BY <1>5, <2>3, <2>4, <3>2
    <3> QED
      BY <2>1, <3>1, <3>2
  <2> QED
    BY <1>1, <1>2, <2>3, <2>4 DEF Stream
<1> QED
  BY <1>4, <1>5 DEF Tells

LEMMA LinesStayOnce ==
  ASSUME AgentTyped, LinesOnce, Tells, UNCHANGED <<mind, asked>>, spent'.lines = spent.lines
  PROVE  LinesOnce'
<1>0. toAgent \in Seq(Heeds)
  BY DEF AgentTyped, LinesTyped
<1>1. CASE toAgent' = toAgent
  BY <1>1 DEF LinesOnce
<1>2. ASSUME NEW f \in Heeds, toAgent' = Append(toAgent, f), f.t # "said"
      PROVE  LinesOnce'
  <2>1. \A i \in DOMAIN toAgent' :
           \/ i \in DOMAIN toAgent /\ toAgent'[i] = toAgent[i]
           \/ toAgent'[i].t # "said"
    BY <1>0, <1>2, OneMore
  <2>2. ASSUME NEW k \in DOMAIN toAgent', toAgent'[k].t = "said"
        PROVE  /\ toAgent'[k].line \in spent.lines /\ asked[toAgent'[k].line] = 0
               /\ \A j \in DOMAIN mind.pending : mind.pending[j] # toAgent'[k].line
               /\ \A j \in DOMAIN toAgent' : j # k => toAgent'[j] # toAgent'[k]
    <3>1. k \in DOMAIN toAgent /\ toAgent'[k] = toAgent[k]
      BY <2>1, <2>2
    <3>2. \A j \in DOMAIN toAgent' : j # k => toAgent'[j] # toAgent'[k]
      BY <2>1, <2>2, <3>1 DEF LinesOnce
    <3> QED
      BY <2>2, <3>1, <3>2 DEF LinesOnce
  <2> QED
    BY <2>2 DEF LinesOnce
<1> QED
  BY <1>1, <1>2 DEF Tells

LEMMA HushedOnReading ==
  ASSUME NEW q \in Seq(Utters), q # <<>>, Hushed(q)
  PROVE  /\ Hushed(Tail(q))
         /\ Stops(q) => Head(q) = Busy(FALSE) \/ Stops(Tail(q))
         /\ Head(q) = Busy(TRUE) => Stops(Tail(q))
<1>0. /\ 1 \in DOMAIN q /\ Head(q) = q[1]
      /\ \A i \in DOMAIN Tail(q) : i \in 1 .. Len(Tail(q)) /\ i + 1 \in DOMAIN q
                                     /\ Tail(q)[i] = q[i + 1]
      /\ \A i \in DOMAIN q : i = 1 \/ (i - 1 \in DOMAIN Tail(q) /\ q[i] = Tail(q)[i - 1])
      /\ DOMAIN q \subseteq Nat \ {0}
  BY OneLess
<1>1. Hushed(Tail(q))
  <2> SUFFICES ASSUME NEW k \in DOMAIN Tail(q), Tail(q)[k] = Busy(TRUE)
               PROVE  \E j \in DOMAIN Tail(q) : j > k /\ Tail(q)[j] = Busy(FALSE)
    BY DEF Hushed
  <2>1. k + 1 \in DOMAIN q /\ q[k + 1] = Busy(TRUE) /\ k \in Nat
    <3>1. k + 1 \in DOMAIN q /\ Tail(q)[k] = q[k + 1] /\ k \in 1 .. Len(Tail(q))
      BY <1>0
    <3>2. k \in Nat
      BY <3>1
    <3> QED
      BY <3>1, <3>2
  <2>2. PICK j \in DOMAIN q : j > k + 1 /\ q[j] = Busy(FALSE)
    BY <2>1 DEF Hushed
  <2>3. j \in Nat /\ j # 1
    BY <1>0, <2>1, <2>2
  <2>4. j - 1 \in DOMAIN Tail(q) /\ q[j] = Tail(q)[j - 1] /\ j - 1 > k
    <3>1. j - 1 \in DOMAIN Tail(q) /\ q[j] = Tail(q)[j - 1]
      BY <1>0, <2>3
    <3>2. j - 1 > k
      BY <2>1, <2>2, <2>3
    <3> QED
      BY <3>1, <3>2
  <2> QED
    BY <2>2, <2>4
<1>2. Stops(q) => Head(q) = Busy(FALSE) \/ Stops(Tail(q))
  BY <1>0 DEF Stops
<1>3. Head(q) = Busy(TRUE) => Stops(Tail(q))
  <2> SUFFICES ASSUME Head(q) = Busy(TRUE) PROVE Stops(Tail(q))
    OBVIOUS
  <2>1. PICK j \in DOMAIN q : j > 1 /\ q[j] = Busy(FALSE)
    BY <1>0 DEF Hushed
  <2>2. j # 1
    BY <1>0, <2>1
  <2> QED
    BY <1>0, <2>1, <2>2 DEF Stops
<1> QED
  BY <1>1, <1>2, <1>3

LEMMA HushedOnSaying ==
  ASSUME NEW q \in Seq(Utters), NEW x \in Seq(Utters), Hushed(x)
  PROVE  /\ q \o x \in Seq(Utters)
         /\ Hushed(q) \/ Stops(x) => Hushed(q \o x)
         /\ Stops(q) \/ Stops(x) => Stops(q \o x)
<1>0. /\ q \o x \in Seq(Utters)
      /\ DOMAIN q = 1 .. Len(q) /\ DOMAIN x = 1 .. Len(x) /\ Len(q) \in Nat
      /\ \A i \in DOMAIN q : i \in DOMAIN (q \o x) /\ (q \o x)[i] = q[i]
      /\ \A k \in DOMAIN x : Len(q) + k \in DOMAIN (q \o x) /\ (q \o x)[Len(q) + k] = x[k]
      /\ \A i \in DOMAIN (q \o x) : i \in DOMAIN q \/ \E k \in DOMAIN x : i = Len(q) + k
  <2>1. /\ q \o x \in Seq(Utters) /\ Len(q) \in Nat /\ Len(x) \in Nat
        /\ Len(q \o x) = Len(q) + Len(x)
    BY AtTheEnd
  <2>2. DOMAIN q = 1 .. Len(q) /\ DOMAIN x = 1 .. Len(x) /\ DOMAIN (q \o x) = 1 .. Len(q \o x)
    BY <2>1
  <2>3. \A i \in 1 .. Len(q) : i \in 1 .. Len(q) + Len(x)
    BY <2>1
  <2>4. \A k \in 1 .. Len(x) : Len(q) + k \in 1 .. Len(q) + Len(x)
    BY <2>1
  <2>5. \A i \in 1 .. Len(q) : (q \o x)[i] = q[i]
    BY AtTheEnd
  <2>6. \A k \in 1 .. Len(x) : (q \o x)[Len(q) + k] = x[k]
    BY AtTheEnd
  <2>7. \A i \in 1 .. Len(q \o x) : i \in 1 .. Len(q) \/ \E k \in 1 .. Len(x) : i = Len(q) + k
    BY AtTheEnd
  <2> QED
    BY <2>1, <2>2, <2>3, <2>4, <2>5, <2>6, <2>7
<1>1. Stops(q) \/ Stops(x) => Stops(q \o x)
  BY <1>0 DEF Stops
<1>2. ASSUME Hushed(q) \/ Stops(x), NEW i \in DOMAIN (q \o x), (q \o x)[i] = Busy(TRUE)
      PROVE  \E j \in DOMAIN (q \o x) : j > i /\ (q \o x)[j] = Busy(FALSE)
  <2>1. ASSUME NEW k \in DOMAIN x, i = Len(q) + k
        PROVE  \E j \in DOMAIN (q \o x) : j > i /\ (q \o x)[j] = Busy(FALSE)
    <3>1. PICK j \in DOMAIN x : j > k /\ x[j] = Busy(FALSE)
      BY <1>0, <1>2, <2>1 DEF Hushed
    <3>2. Len(q) + j > i
      BY <1>0, <2>1, <3>1
    <3> QED
      BY <1>0, <3>1, <3>2
  <2>2. CASE i \in DOMAIN q /\ Stops(x)
    <3>1. PICK j \in DOMAIN x : x[j] = Busy(FALSE)
      BY <2>2 DEF Stops
    <3>2. Len(q) + j > i
      BY <1>0, <2>2, <3>1
    <3> QED
      BY <1>0, <3>1, <3>2
  <2>3. CASE i \in DOMAIN q /\ Hushed(q)
    <3>1. PICK j \in DOMAIN q : j > i /\ q[j] = Busy(FALSE)
      BY <1>0, <1>2, <2>3 DEF Hushed
    <3> QED
      BY <1>0, <3>1
  <2> QED
    BY <1>0, <1>2, <2>1, <2>2, <2>3
<1> QED
  BY <1>0, <1>1, <1>2 DEF Hushed

-----------------------------------------------------------------------------
(* What the host, the app and the people do                                *)

(* A step in which the agent does nothing and is not stopped or let in.    *)
LEMMA TableKeeps ==
  ASSUME AgentInv, UNCHANGED <<mind, asked>>, Tells,
         host' \in Knows, host'.member = host.member,
         Later(host.up, host.no, host'.up, host'.no),
         ~agent.in => toAgent' = toAgent,
         agent' \in [alive : BOOLEAN, ours : BOOLEAN, in : BOOLEAN],
         agent'.in = agent.in, agent.in => agent'.alive,
         app' \in [kept : BOOLEAN, watch : BOOLEAN],
         spent' \in [turns : Nat, flips : Nat, upsets : Nat, lines : SUBSET Line],
         spent'.lines = spent.lines,
         toHost' \in Seq(Utters), ~host.member => toHost' = <<>>, Writing'
  PROVE  AgentInv'
<1>1. AgentTyped'
  <2>1. toAgent' \in Seq(Heeds)
    <3>1. toAgent \in Seq(Heeds)
      BY DEF AgentInv, AgentTyped, LinesTyped
    <3>2. ASSUME NEW f \in Heeds, toAgent' = Append(toAgent, f)
          PROVE  toAgent' \in Seq(Heeds)
      BY <3>1, <3>2, OneMore
    <3> QED
      BY <3>1, <3>2 DEF Tells
  <2> QED
    BY <2>1 DEF AgentInv, AgentTyped, LinesTyped
<1>2. Links'
  BY DEF AgentInv, Links
<1>3. Tended(mind)'
  BY DEF AgentInv, Tended, Sleeps
<1>4. Stream'
  BY StreamGoesOn DEF AgentInv
<1>5. TurnsOnce'
  BY DEF AgentInv, TurnsOnce, Asked, Sleeps
<1>6. LinesOnce'
  BY LinesStayOnce DEF AgentInv
<1> QED
  BY <1>1, <1>2, <1>3, <1>4, <1>5, <1>6 DEF AgentInv

LEMMA FramesAre ==
  /\ \A f \in Utters :
       \/ f.t = "ask" /\ f.what \in Request
       \/ f.t = "busy" /\ f.on \in BOOLEAN /\ f = Busy(f.on)
       \/ f.t = "chat" \/ f.t = "trouble"
  /\ \A f \in Utters, on \in BOOLEAN : f = Busy(on) => f.t = "busy" /\ f.on = on
  /\ \A f \in Heeds :
       \/ f.t = "fight" /\ f.up \in Who /\ f.no \in Nat
       \/ f.t = "auto" /\ f.on \in BOOLEAN
       \/ f.t = "said" /\ f.line \in Line /\ f = Says(f.line)
  /\ \A on \in BOOLEAN : Busy(on) \in Utters /\ Switch(on) \in Heeds
  /\ \A l \in Line : Says(l) \in Heeds
  /\ \A h \in Knows : Fight(h) \in Heeds
  /\ Chat \in Utters /\ Trouble \in Utters
  /\ \A r \in Request : Asks(r) \in Utters
<1>1. \A f \in Utters :
       \/ f.t = "ask" /\ f.what \in Request
       \/ f.t = "busy" /\ f.on \in BOOLEAN /\ f = Busy(f.on)
       \/ f.t = "chat" \/ f.t = "trouble"
  BY DEF Utters, Busy
<1>2. \A f \in Utters, on \in BOOLEAN : f = Busy(on) => f.t = "busy" /\ f.on = on
  BY DEF Busy
<1>3. \A f \in Heeds :
       \/ f.t = "fight" /\ f.up \in Who /\ f.no \in Nat
       \/ f.t = "auto" /\ f.on \in BOOLEAN
       \/ f.t = "said" /\ f.line \in Line /\ f = Says(f.line)
  BY DEF Heeds, Says
<1>4. \A on \in BOOLEAN : Busy(on) \in Utters /\ Switch(on) \in Heeds
  BY DEF Utters, Heeds, Busy, Switch
<1>5. \A l \in Line : Says(l) \in Heeds
  BY DEF Heeds, Says
<1>6. \A h \in Knows : Fight(h) \in Heeds
  BY DEF Heeds, Fight, Knows
<1>7. Chat \in Utters /\ Trouble \in Utters /\ \A r \in Request : Asks(r) \in Utters
  BY DEF Utters, Chat, Trouble, Asks
<1> QED
  BY <1>1, <1>2, <1>3, <1>4, <1>5, <1>6, <1>7

(* Publishing is telling.                                                  *)
LEMMA PublishingTells ==
  ASSUME host' \in Knows, NEW P \in BOOLEAN,
         toAgent' = IF P /\ agent.in THEN Append(toAgent, Fight(host')) ELSE toAgent
  PROVE  Tells /\ (~agent.in => toAgent' = toAgent)
<1>1. Fight(host') \in Heeds
  BY FramesAre
<1>2. Fight(host').t = "fight" /\ Fight(host').up = host'.up /\ Fight(host').no = host'.no
  BY DEF Fight
<1> QED
  BY <1>1, <1>2 DEF Tells

LEMMA HearingKeeps ==
  ASSUME AgentInv, HostHears
  PROVE  AgentInv'
<1> DEFINE f == Head(toHost)
           q == toHost
<1>0. /\ toHost \in Seq(Utters) /\ host \in Knows /\ toHost # <<>> /\ host.member
      /\ toHost' = Tail(toHost) /\ UNCHANGED <<app, agent, mind, asked, spent>>
  BY DEF AgentInv, AgentTyped, LinesTyped, HostHears
<1>1. f \in Utters /\ Tail(toHost) \in Seq(Utters)
  BY <1>0, OneLess
<1>2. /\ host' = CASE f.t = "ask" -> Handled(host, f.what)
                   [] f.t = "busy" -> HandleBusy(host, f.on)
                   [] f.t = "chat" -> HandleChat(host)
                   [] f.t = "trouble" -> host
      /\ toAgent' = IF (f.t = "ask" /\ Publishes(host, f.what)) /\ agent.in
                    THEN Append(toAgent, Fight(host')) ELSE toAgent
  BY DEF HostHears
<1>3. /\ host' \in Knows /\ Later(host.up, host.no, host'.up, host'.no)
      /\ host'.member = host.member
      /\ host'.busy = IF f.t = "busy" THEN f.on ELSE host.busy
  <2>0. MovesOn(host, host)
    BY <1>0 DEF MovesOn, Knows, Later
  <2> HIDE DEF f
  <2>1. CASE f.t = "ask" /\ f.what \in Request
    <3>1. host' = Handled(host, f.what)
      BY <1>2, <2>1
    <3> QED
      BY <1>0, <2>1, <3>1, HandledMovesOn DEF MovesOn
  <2>2. CASE f.t = "busy" /\ f.on \in BOOLEAN
    <3>1. host' = [host EXCEPT !.busy = f.on]
      BY <1>2, <2>2 DEF HandleBusy
    <3>2. /\ host' \in Knows /\ host'.up = host.up /\ host'.no = host.no
          /\ host'.member = host.member /\ host'.busy = f.on
      BY <1>0, <2>2, <3>1 DEF Knows
    <3>3. Later(host.up, host.no, host'.up, host'.no)
      BY <2>0, <3>2 DEF MovesOn
    <3> QED
      BY <2>2, <3>2, <3>3
  <2>3. CASE f.t = "chat"
    <3>1. host.spoken + 1 \in Nat
      BY <1>0 DEF Knows
    <3>2. host' = [host EXCEPT !.spoken = host.spoken + 1] \/ host' = host
      BY <1>2, <2>3 DEF HandleChat
    <3>3. /\ host' \in Knows /\ host'.up = host.up /\ host'.no = host.no
          /\ host'.member = host.member /\ host'.busy = host.busy
      BY <1>0, <3>1, <3>2 DEF Knows
    <3>4. Later(host.up, host.no, host'.up, host'.no)
      BY <2>0, <3>3 DEF MovesOn
    <3> QED
      BY <2>3, <3>3, <3>4
  <2>4. CASE f.t = "trouble"
    BY <1>0, <1>2, <2>0, <2>4 DEF MovesOn
  <2> QED
    BY <1>1, <2>1, <2>2, <2>3, <2>4, FramesAre
<1>4. Tells /\ (~agent.in => toAgent' = toAgent)
  <2>1. (f.t = "ask" /\ Publishes(host, f.what)) \in BOOLEAN
    BY DEF Publishes
  <2> HIDE DEF f
  <2> QED
    BY <1>2, <1>3, <2>1, PublishingTells
<1>5. Writing'
  <2> SUFFICES ASSUME agent.in, ~mind.answering
               PROVE  Hushed(Tail(q)) /\ (host'.busy => Stops(Tail(q)))
    BY <1>0 DEF Writing
  <2>1. Hushed(q) /\ (host.busy => Stops(q))
    BY <1>0 DEF AgentInv, Writing
  <2>2. /\ Hushed(Tail(q)) /\ (Stops(q) => f = Busy(FALSE) \/ Stops(Tail(q)))
        /\ f = Busy(TRUE) => Stops(Tail(q))
    BY <1>0, <2>1, HushedOnReading
  <2> HIDE DEF f, q
  <2>3. CASE f.t = "busy"
    BY <1>1, <1>3, <2>2, <2>3, FramesAre
  <2>4. CASE f.t # "busy"
    BY <1>1, <1>3, <2>1, <2>2, <2>4, FramesAre
  <2> QED
    BY <2>3, <2>4
<1> QED
  <2>1. /\ agent' \in [alive : BOOLEAN, ours : BOOLEAN, in : BOOLEAN] /\ agent'.in = agent.in
        /\ app' \in [kept : BOOLEAN, watch : BOOLEAN] /\ (agent.in => agent'.alive)
        /\ spent' \in [turns : Nat, flips : Nat, upsets : Nat, lines : SUBSET Line]
        /\ spent'.lines = spent.lines
    BY <1>0 DEF AgentInv, AgentTyped, Links
  <2> QED
    BY <1>0, <1>1, <1>3, <1>4, <1>5, <2>1, TableKeeps

(* The same when nothing is read either.                                   *)
LEMMA QuietTableKeeps ==
  ASSUME AgentInv, UNCHANGED <<mind, asked, toHost>>, Tells,
         host' \in Knows, host'.member = host.member, host'.busy = host.busy,
         Later(host.up, host.no, host'.up, host'.no),
         ~agent.in => toAgent' = toAgent,
         agent' \in [alive : BOOLEAN, ours : BOOLEAN, in : BOOLEAN],
         agent'.in = agent.in, agent.in => agent'.alive,
         app' \in [kept : BOOLEAN, watch : BOOLEAN],
         spent' \in [turns : Nat, flips : Nat, upsets : Nat, lines : SUBSET Line],
         spent'.lines = spent.lines
  PROVE  AgentInv'
<1>1. toHost' \in Seq(Utters) /\ (~host.member => toHost' = <<>>)
  BY DEF AgentInv, AgentTyped, LinesTyped, Links
<1>2. Writing'
  BY DEF AgentInv, Writing
<1> QED
  BY <1>1, <1>2, TableKeeps

(* What they all take from the invariant.                                  *)
LEMMA AsTyped ==
  ASSUME AgentInv
  PROVE  /\ host \in Knows /\ toHost \in Seq(Utters) /\ toAgent \in Seq(Heeds)
         /\ agent \in [alive : BOOLEAN, ours : BOOLEAN, in : BOOLEAN]
         /\ app \in [kept : BOOLEAN, watch : BOOLEAN] /\ mind \in Mind
         /\ asked \in [Item -> Nat]
         /\ spent \in [turns : Nat, flips : Nat, upsets : Nat, lines : SUBSET Line]
         /\ agent.in => agent.alive /\ host.member
         /\ MovesOn(host, host)
<1>1. host \in Knows
  BY DEF AgentInv, AgentTyped
<1>2. MovesOn(host, host)
  BY <1>1 DEF MovesOn, Knows, Later
<1> QED
  BY <1>2 DEF AgentInv, AgentTyped, LinesTyped, Links

LEMMA SpendingIsTyped ==
  ASSUME NEW u \in [turns : Nat, flips : Nat, upsets : Nat, lines : SUBSET Line], NEW n \in Nat
  PROVE  /\ [u EXCEPT !.turns = @ + n] \in [turns : Nat, flips : Nat, upsets : Nat, lines : SUBSET Line]
         /\ [u EXCEPT !.flips = @ + n] \in [turns : Nat, flips : Nat, upsets : Nat, lines : SUBSET Line]
         /\ [u EXCEPT !.upsets = @ + n] \in [turns : Nat, flips : Nat, upsets : Nat, lines : SUBSET Line]
         /\ [u EXCEPT !.turns = @ + n].lines = u.lines
         /\ [u EXCEPT !.flips = @ + n].lines = u.lines
         /\ [u EXCEPT !.upsets = @ + n].lines = u.lines
<1>1. u.turns + n \in Nat /\ u.flips + n \in Nat /\ u.upsets + n \in Nat
  OBVIOUS
<1> QED
  BY <1>1

LEMMA TurningKeeps ==
  ASSUME AgentInv, NEW action \in {"begin", "next", "end"}, host' = RunTurn(host, action),
         toAgent' = IF agent.in THEN Append(toAgent, Fight(host')) ELSE toAgent,
         spent' = [spent EXCEPT !.turns = @ + 1],
         UNCHANGED <<app, agent, mind, toHost, asked>>
  PROVE  AgentInv'
<1>1. MovesOn(host, host')
  BY AsTyped, RunTurnMovesOn
<1>2. Tells /\ (~agent.in => toAgent' = toAgent)
  <2>1. toAgent' = IF TRUE /\ agent.in THEN Append(toAgent, Fight(host')) ELSE toAgent
    OBVIOUS
  <2> QED
    BY <1>1, <2>1, PublishingTells DEF MovesOn
<1>3. /\ spent' \in [turns : Nat, flips : Nat, upsets : Nat, lines : SUBSET Line]
      /\ spent'.lines = spent.lines
  BY AsTyped, SpendingIsTyped
<1>4. /\ agent' \in [alive : BOOLEAN, ours : BOOLEAN, in : BOOLEAN] /\ agent'.in = agent.in
      /\ app' \in [kept : BOOLEAN, watch : BOOLEAN] /\ (agent.in => agent'.alive)
  BY AsTyped
<1> QED
  BY <1>1, <1>2, <1>3, <1>4, QuietTableKeeps DEF MovesOn

LEMMA RedrawKeeps ==
  ASSUME AgentInv, Redraw
  PROVE  AgentInv'
<1>1. toAgent' = IF TRUE /\ agent.in THEN Append(toAgent, Fight(host')) ELSE toAgent
  BY DEF Redraw
<1>2. Tells /\ (~agent.in => toAgent' = toAgent)
  BY <1>1, AsTyped, PublishingTells DEF Redraw
<1>3. /\ spent' \in [turns : Nat, flips : Nat, upsets : Nat, lines : SUBSET Line]
      /\ spent'.lines = spent.lines
  BY AsTyped, SpendingIsTyped DEF Redraw
<1> QED
  BY <1>2, <1>3, AsTyped, QuietTableKeeps DEF MovesOn, Redraw

LEMMA SwitchingKeeps ==
  ASSUME AgentInv, NEW on \in BOOLEAN, SetAutopilot(on), UNCHANGED <<mind, toHost, asked>>,
         UNCHANGED spent \/ spent' = [spent EXCEPT !.flips = @ + 1],
         agent' \in [alive : BOOLEAN, ours : BOOLEAN, in : BOOLEAN],
         agent'.in = agent.in, agent.in => agent'.alive,
         app' \in [kept : BOOLEAN, watch : BOOLEAN]
  PROVE  AgentInv'
<1>1. /\ host' \in Knows /\ host'.up = host.up /\ host'.no = host.no
      /\ host'.member = host.member /\ host'.busy = host.busy
  BY AsTyped DEF SetAutopilot, Knows
<1>2. Later(host.up, host.no, host'.up, host'.no)
  BY <1>1, AsTyped DEF MovesOn
<1>3. Tells /\ (~agent.in => toAgent' = toAgent)
  <2>1. Switch(on) \in Heeds /\ Switch(on).t = "auto"
    BY FramesAre DEF Switch
  <2> QED
    BY <2>1 DEF SetAutopilot, Tells
<1>4. /\ spent' \in [turns : Nat, flips : Nat, upsets : Nat, lines : SUBSET Line]
      /\ spent'.lines = spent.lines
  BY AsTyped, SpendingIsTyped
<1> QED
  BY <1>1, <1>2, <1>3, <1>4, QuietTableKeeps

LEMMA TogglingOnKeeps ==
  ASSUME AgentInv, ToggleOn
  PROVE  AgentInv'
<1>1. /\ agent' \in [alive : BOOLEAN, ours : BOOLEAN, in : BOOLEAN] /\ agent'.in = agent.in
      /\ app' \in [kept : BOOLEAN, watch : BOOLEAN] /\ (agent.in => agent'.alive)
  <2>1. CASE UNCHANGED <<app, agent>>
    BY <2>1, AsTyped
  <2>2. CASE /\ ~agent.alive /\ app' = [kept |-> TRUE, watch |-> TRUE]
             /\ agent' = [NoAgent EXCEPT !.alive = TRUE, !.ours = TRUE]
    <3>1. agent' = [alive |-> TRUE, ours |-> TRUE, in |-> FALSE]
      BY <2>2 DEF NoAgent
    <3>2. agent.in = FALSE
      BY <2>2, AsTyped
    <3>3. app' \in [kept : BOOLEAN, watch : BOOLEAN]
      BY <2>2
    <3>4. agent' \in [alive : BOOLEAN, ours : BOOLEAN, in : BOOLEAN] /\ agent'.in = FALSE
      BY <3>1
    <3> QED
      BY <3>2, <3>3, <3>4
  <2> QED
    BY <2>1, <2>2 DEF ToggleOn, EnsureAgentRunning
<1> QED
  BY <1>1, SwitchingKeeps DEF ToggleOn

LEMMA CheckingKeeps ==
  ASSUME AgentInv, CheckAgent
  PROVE  AgentInv'
<1>1. /\ agent' \in [alive : BOOLEAN, ours : BOOLEAN, in : BOOLEAN] /\ agent'.in = agent.in
      /\ app' \in [kept : BOOLEAN, watch : BOOLEAN] /\ (agent.in => agent'.alive)
  BY AsTyped DEF CheckAgent
<1> QED
  BY <1>1, SwitchingKeeps DEF CheckAgent

LEMMA StartingKeeps ==
  ASSUME AgentInv, StartedByHand
  PROVE  AgentInv'
<1>1. /\ agent' \in [alive : BOOLEAN, ours : BOOLEAN, in : BOOLEAN] /\ agent'.in = agent.in
      /\ (agent.in => agent'.alive)
  BY AsTyped DEF StartedByHand, NoAgent
<1>2. /\ spent' \in [turns : Nat, flips : Nat, upsets : Nat, lines : SUBSET Line]
      /\ spent'.lines = spent.lines
  BY AsTyped, SpendingIsTyped DEF StartedByHand
<1>3. UNCHANGED <<host, app, mind, toHost, toAgent, asked>>
  BY DEF StartedByHand
<1> QED
  BY <1>1, <1>2, <1>3, AsTyped, QuietTableKeeps DEF MovesOn, Tells

-----------------------------------------------------------------------------
(* An agent comes and goes                                                 *)

LEMMA BlankIsBlank ==
  /\ Blank \in Mind /\ Blank.up = NoOne /\ Blank.no = 0 /\ Blank.pending = <<>>
  /\ Tended(Blank) /\ NoOne \notin Machine
  /\ \A s \in Task : \A k : ~ Sleeps(Blank, s, k)
  /\ Blank.timer = NoTask /\ Blank.monster = NoTask /\ ~ Blank.answering
<1>1. FreeSlot \in TaskState /\ FreeSlot.st = "free"
  <2>1. <<>> \in Seq(Seq(Request))
    OBVIOUS
  <2> QED
    BY <2>1 DEF FreeSlot, TaskState, Who
<1>2. /\ Blank \in Mind /\ Blank.up = NoOne /\ Blank.no = 0 /\ Blank.pending = <<>>
      /\ Blank.timer = NoTask /\ Blank.monster = NoTask /\ ~ Blank.answering
  BY <1>1 DEF Blank, Mind, Who
<1>3. \A s \in Task : \A k : ~ Sleeps(Blank, s, k)
  BY <1>1 DEF Sleeps, Blank
<1>4. Tended(Blank)
  BY <1>2, <1>3 DEF Tended
<1> QED
  BY <1>2, <1>3, <1>4, AgentAssumption

(* With an agent that has heard nothing all that is left to say is of the  *)
(* frames on their way to it, and of the table it will hear about.         *)
LEMMA AtFirst ==
  ASSUME mind' = Blank, asked' = [i \in Item |-> 0], host' \in Knows
  PROVE  /\ HeardBefore(host.up, host.no)' /\ TurnsOnce'
         /\ (\A k \in DOMAIN toAgent' : toAgent'[k].t # "said") => LinesOnce'
<1>1. /\ \A n : Asked(n)' = 0
      /\ \A i \in Item : asked'[i] = 0
      /\ Turn \subseteq Item /\ Line \subseteq Item
  BY DEF Asked, Item
<1>2. HeardBefore(host.up, host.no)'
  BY <1>1, BlankIsBlank DEF HeardBefore, Knows
<1>3. TurnsOnce'
  BY <1>1, BlankIsBlank DEF TurnsOnce
<1>4. (\A k \in DOMAIN toAgent' : toAgent'[k].t # "said") => LinesOnce'
  BY <1>1, BlankIsBlank DEF LinesOnce
<1> QED
  BY <1>2, <1>3, <1>4

LEMMA GoneKeeps ==
  ASSUME agent'.in = FALSE, mind' = Blank, toAgent' = <<>>, asked' = [i \in Item |-> 0],
         host' \in Knows, toHost' \in Seq(Utters), ~host'.member => toHost' = <<>>,
         agent' \in [alive : BOOLEAN, ours : BOOLEAN, in : BOOLEAN],
         app' \in [kept : BOOLEAN, watch : BOOLEAN],
         spent' \in [turns : Nat, flips : Nat, upsets : Nat, lines : SUBSET Line]
  PROVE  AgentInv'
<1>1. AgentTyped'
  BY BlankIsBlank DEF AgentTyped, LinesTyped
<1>2. Links'
  BY DEF Links
<1>3. Tended(mind)'
  BY BlankIsBlank DEF Tended, Sleeps
<1>4. Writing'
  BY DEF Writing
<1>5. DOMAIN toAgent' = {}
  OBVIOUS
<1>6. Stream' /\ TurnsOnce' /\ LinesOnce'
  BY <1>5, AtFirst DEF Stream
<1> QED
  BY <1>1, <1>2, <1>3, <1>4, <1>6 DEF AgentInv

LEMMA DyingKeeps ==
  ASSUME AgentInv, Dies
  PROVE  AgentInv'
<1>1. spent' \in [turns : Nat, flips : Nat, upsets : Nat, lines : SUBSET Line]
  BY AsTyped, SpendingIsTyped DEF Dies
<1>2. /\ agent'.in = FALSE /\ mind' = Blank /\ toAgent' = <<>> /\ asked' = [i \in Item |-> 0]
      /\ agent' \in [alive : BOOLEAN, ours : BOOLEAN, in : BOOLEAN]
      /\ UNCHANGED <<host, app, toHost>>
  BY DEF Dies, AgentStops, NoAgent
<1>3. ~host.member => toHost = <<>>
  BY DEF AgentInv, Links
<1> QED
  BY <1>1, <1>2, <1>3, AsTyped, GoneKeeps

LEMMA TogglingOffKeeps ==
  ASSUME AgentInv, ToggleOff
  PROVE  AgentInv'
<1>1. /\ spent' = [spent EXCEPT !.flips = @ + 1]
      /\ app' \in [kept : BOOLEAN, watch : BOOLEAN]
  BY DEF ToggleOff
<1>2. CASE host' = [host EXCEPT !.auto = FALSE] /\ AgentStops
  <2>1. spent' \in [turns : Nat, flips : Nat, upsets : Nat, lines : SUBSET Line]
    BY <1>1, AsTyped, SpendingIsTyped
  <2>2. /\ agent'.in = FALSE /\ mind' = Blank /\ toAgent' = <<>> /\ asked' = [i \in Item |-> 0]
        /\ agent' \in [alive : BOOLEAN, ours : BOOLEAN, in : BOOLEAN]
        /\ toHost' = toHost
    BY <1>2 DEF AgentStops, NoAgent
  <2>3. ~host.member => toHost = <<>>
    BY DEF AgentInv, Links
  <2>4. host' \in Knows /\ host'.member = host.member
    BY <1>2, AsTyped DEF Knows
  <2> QED
    BY <1>1, <2>1, <2>2, <2>3, <2>4, AsTyped, GoneKeeps
<1>3. CASE SetAutopilot(FALSE) /\ UNCHANGED <<agent, mind, toHost, asked>>
  BY <1>1, <1>3, AsTyped, SwitchingKeeps
<1> QED
  BY <1>2, <1>3 DEF ToggleOff

LEMMA DisconnectingKeeps ==
  ASSUME AgentInv, OnDisconnected
  PROVE  AgentInv'
<1>1. /\ ~agent.in /\ toHost' = <<>> /\ UNCHANGED <<app, agent, mind, toAgent, asked, spent>>
      /\ mind = Blank /\ toAgent = <<>> /\ asked = [i \in Item |-> 0]
      /\ host' = [host EXCEPT !.member = FALSE, !.busy = FALSE]
  BY DEF OnDisconnected, AgentInv, Links
<1>2. host' \in Knows
  BY <1>1, AsTyped DEF Knows
<1>3. agent.in = FALSE
  BY <1>1, AsTyped
<1>4. toHost' \in Seq(Utters)
  BY <1>1
<1> QED
  BY <1>1, <1>2, <1>3, <1>4, AsTyped, GoneKeeps

LEMMA AdmittingKeeps ==
  ASSUME AgentInv, Admit
  PROVE  AgentInv'
<1>1. /\ ~agent.in /\ ~host.member /\ agent.alive /\ toHost = <<>>
      /\ mind' = Blank /\ asked' = [i \in Item |-> 0]
      /\ agent' = [agent EXCEPT !.in = TRUE]
      /\ host' = [host EXCEPT !.member = TRUE, !.busy = FALSE]
      /\ toAgent' = <<Fight(host), Switch(host.auto)>>
      /\ UNCHANGED <<app, toHost, spent>>
  BY DEF Admit, AgentInv, Links
<1>2. /\ host' \in Knows /\ host'.up = host.up /\ host'.no = host.no
      /\ host'.member = TRUE /\ host'.busy = FALSE
  BY <1>1, AsTyped DEF Knows
<1>3. /\ agent' \in [alive : BOOLEAN, ours : BOOLEAN, in : BOOLEAN]
      /\ agent'.in = TRUE /\ agent'.alive = TRUE
  BY <1>1, AsTyped
<1>4. /\ toAgent' \in Seq(Heeds) /\ DOMAIN toAgent' = 1 .. 2
      /\ toAgent'[1] = Fight(host) /\ toAgent'[2] = Switch(host.auto)
  <2>1. Fight(host) \in Heeds /\ Switch(host.auto) \in Heeds
    BY AsTyped, FramesAre DEF Knows
  <2> QED
    BY <1>1, <2>1
<1>5. /\ Fight(host).t = "fight" /\ Fight(host).up = host.up /\ Fight(host).no = host.no
      /\ Switch(host.auto).t = "auto"
  BY DEF Fight, Switch
<1>6. \A k \in DOMAIN toAgent' : toAgent'[k].t # "said"
  BY <1>4, <1>5
<1>7. HeardBefore(host.up, host.no)' /\ TurnsOnce' /\ LinesOnce'
  BY <1>1, <1>2, <1>6, AtFirst
<1>8. Stream'
  <2>1. \A i \in DOMAIN toAgent' : toAgent'[i].t = "fight" => i = 1
    BY <1>4, <1>5
  <2>2. Later(host.up, host.no, host'.up, host'.no)
    BY <1>2, AsTyped DEF MovesOn
  <2>3. toAgent'[1].up = host'.up /\ toAgent'[1].no = host'.no
    BY <1>2, <1>4, <1>5
  <2>4. \A j \in DOMAIN toAgent' : ~(1 < j /\ toAgent'[j].t = "fight")
    BY <1>4, <1>5
  <2> QED
    BY <1>2, <1>7, <2>1, <2>2, <2>3, <2>4 DEF Stream
<1>9. AgentTyped'
  BY <1>1, <1>2, <1>3, <1>4, AsTyped, BlankIsBlank DEF AgentTyped, LinesTyped
<1>10. Links' /\ Writing'
  <2>1. DOMAIN toHost' = {}
    BY <1>1
  <2> QED
    BY <1>2, <1>3, <2>1 DEF Links, Writing, Hushed
<1>11. Tended(mind)'
  BY <1>1, BlankIsBlank DEF Tended, Sleeps
<1> QED
  BY <1>7, <1>8, <1>9, <1>10, <1>11 DEF AgentInv

LEMMA TalkingKeeps ==
  ASSUME AgentInv, NEW l \in Line, TableTalks(l)
  PROVE  AgentInv'
<1>1. /\ agent.in /\ l \notin spent.lines
      /\ spent' = [spent EXCEPT !.lines = spent.lines \cup {l}]
      /\ toAgent' = Append(toAgent, Says(l))
      /\ UNCHANGED <<host, app, agent, mind, toHost, asked>>
  BY DEF TableTalks
<1>2. Says(l) \in Heeds /\ Says(l).t = "said" /\ Says(l).line = l
  BY FramesAre DEF Says
<1>3. /\ spent' \in [turns : Nat, flips : Nat, upsets : Nat, lines : SUBSET Line]
      /\ spent'.lines = spent.lines \cup {l}
  BY <1>1, AsTyped
<1>4. /\ toAgent' \in Seq(Heeds)
      /\ \A i \in DOMAIN toAgent' :
           \/ i \in DOMAIN toAgent /\ toAgent'[i] = toAgent[i]
           \/ i = Len(toAgent) + 1 /\ toAgent'[i] = Says(l)
  BY <1>1, <1>2, AsTyped, OneMore
<1>5. AgentTyped'
  BY <1>1, <1>3, <1>4, AsTyped DEF AgentTyped, LinesTyped
<1>6. Links' /\ Tended(mind)' /\ Writing'
  BY <1>1 DEF AgentInv, Links, Tended, Sleeps, Writing
<1>7. Stream'
  <2>1. Later(host.up, host.no, host'.up, host'.no)
    BY <1>1, AsTyped DEF MovesOn
  <2> QED
    BY <1>1, <1>2, <2>1, AsTyped, StreamGoesOn DEF AgentInv
<1>8. TurnsOnce'
  BY <1>1 DEF AgentInv, TurnsOnce, Asked, Sleeps
<1>9. LinesOnce'
  <2>1. LinesOnce /\ asked[l] = 0
    <3>1. asked[l] \in Nat /\ LinesOnce
      BY AsTyped DEF Item, AgentInv
    <3> QED
      BY <1>1, <3>1 DEF LinesOnce
  <2>2. ASSUME NEW k \in DOMAIN toAgent', toAgent'[k].t = "said"
        PROVE  /\ toAgent'[k].line \in spent'.lines /\ asked[toAgent'[k].line] = 0
               /\ \A j \in DOMAIN mind.pending : mind.pending[j] # toAgent'[k].line
               /\ \A j \in DOMAIN toAgent' : j # k => toAgent'[j] # toAgent'[k]
    <3>1. CASE k \in DOMAIN toAgent /\ toAgent'[k] = toAgent[k]
      <4>1. /\ toAgent[k].line \in spent.lines /\ asked[toAgent[k].line] = 0
            /\ \A j \in DOMAIN mind.pending : mind.pending[j] # toAgent[k].line
            /\ \A j \in DOMAIN toAgent : j # k => toAgent[j] # toAgent[k]
        BY <2>1, <2>2, <3>1 DEF LinesOnce
      <4>2. toAgent[k] # Says(l)
        BY <1>1, <1>2, <4>1
      <4> QED
        BY <1>3, <1>4, <3>1, <4>1, <4>2
    <3>2. CASE k = Len(toAgent) + 1 /\ toAgent'[k] = Says(l)
      <4>1. \A j \in DOMAIN mind.pending : mind.pending[j] # l
        BY <1>1, <2>1 DEF LinesOnce
      <4>2. \A j \in DOMAIN toAgent : toAgent[j] # Says(l)
        BY <1>1, <1>2, <2>1 DEF LinesOnce
      <4> QED
        BY <1>2, <1>3, <1>4, <2>1, <3>2, <4>1, <4>2
    <3> QED
      BY <1>4, <3>1, <3>2
  <2>3. \A k \in DOMAIN mind.pending :
          /\ mind.pending[k] \in spent'.lines /\ asked[mind.pending[k]] = 0
          /\ \A j \in DOMAIN mind.pending : j # k => mind.pending[j] # mind.pending[k]
    BY <1>3, <2>1 DEF LinesOnce
  <2>4. \A n \in Line : asked[n] <= 1 /\ (asked[n] >= 1 => n \in spent'.lines)
    BY <1>3, <2>1 DEF LinesOnce
  <2> QED
    BY <1>1, <2>2, <2>3, <2>4 DEF LinesOnce
<1> QED
  BY <1>5, <1>6, <1>7, <1>8, <1>9 DEF AgentInv

-----------------------------------------------------------------------------
(* What the Responder's handlers make of its state                         *)

(* All that a frame taken in has told, and nothing of the tasks.           *)
Recalls(m, n) ==
  n.auto = m.auto /\ n.up = m.up /\ n.no = m.no /\ n.mine = m.mine /\ n.unseen = m.unseen

NoNewPause(m, n) == \A s \in Task : Sleeps(n, s, "pause") => Sleeps(m, s, "pause")

ButFor(m, n, s) == \A r \in Task : r # s => n.tasks[r] = m.tasks[r]

LEMMA TaskIs ==
  /\ NoTask \notin Task
  /\ FreeSlot \in TaskState /\ FreeSlot.st = "free"
  /\ [FreeSlot EXCEPT !.st = "asleep"] \in TaskState
  /\ [FreeSlot EXCEPT !.st = "asleep"].st = "asleep"
  /\ [FreeSlot EXCEPT !.st = "asleep"].kind = "lull"
  /\ \A c \in Who : LET p == [FreeSlot EXCEPT !.st = "asleep", !.kind = "pause", !.about = c]
                    IN  p \in TaskState /\ p.st = "asleep" /\ p.kind = "pause" /\ p.about = c
<1>1. NoTask \notin Task
  BY AgentAssumption DEF NoTask
<1>2. <<>> \in Seq(Seq(Request)) /\ NoOne \in Who
  BY DEF Who
<1> QED
  BY <1>1, <1>2 DEF FreeSlot, TaskState

LEMMA NoTaskIsNone == NoTask \notin Task
BY AgentAssumption DEF NoTask

LEMMA EndedIs ==
  ASSUME NEW m \in Mind, NEW s \in Task, NEW n, n = Ended(m, s)
  PROVE  /\ n \in Mind /\ Recalls(m, n) /\ n.pending = m.pending
         /\ n.answering = m.answering /\ n.dropped = m.dropped
         /\ n.tasks[s] = FreeSlot /\ ButFor(m, n, s)
         /\ n.timer = IF m.timer = s THEN NoTask ELSE m.timer
         /\ n.monster = IF m.monster = s THEN NoTask ELSE m.monster
<1> DEFINE t == IF m.timer = s THEN NoTask ELSE m.timer
           p == IF m.monster = s THEN NoTask ELSE m.monster
           w == [m.tasks EXCEPT ![s] = FreeSlot]
<1>1. n = [m EXCEPT !.tasks = w, !.timer = t, !.monster = p]
  BY DEF Ended, Mind
<1>2. /\ t \in Task \cup {NoTask} /\ p \in Task \cup {NoTask} /\ w \in [Task -> TaskState]
      /\ w[s] = FreeSlot /\ \A r \in Task : r # s => w[r] = m.tasks[r]
  BY TaskIs DEF Mind
<1> HIDE DEF t, p, w
<1>3. /\ n \in Mind /\ Recalls(m, n) /\ n.pending = m.pending
      /\ n.answering = m.answering /\ n.dropped = m.dropped
      /\ n.tasks = w /\ n.timer = t /\ n.monster = p
  BY <1>1, <1>2 DEF Mind, Recalls
<1> QED
  BY <1>2, <1>3 DEF ButFor, t, p

LEMMA EndedIsTended ==
  ASSUME NEW m \in Mind, NEW s \in Task, Tended(m), NEW n, n = Ended(m, s)
  PROVE  Tended(n) /\ NoNewPause(m, n)
<1>1. /\ n.tasks[s].st = "free" /\ ButFor(m, n, s) /\ s # NoTask
      /\ n.timer = IF m.timer = s THEN NoTask ELSE m.timer
      /\ n.monster = IF m.monster = s THEN NoTask ELSE m.monster
  <2>1. FreeSlot.st = "free" /\ s # NoTask
    BY TaskIs, NoTaskIsNone
  <2> QED
    BY <2>1, EndedIs
<1>2. m.timer \in Task \cup {NoTask} /\ m.monster \in Task \cup {NoTask}
  BY DEF Mind
<1>3. \A r \in Task : \A k : Sleeps(n, r, k) => r # s /\ Sleeps(m, r, k)
  BY <1>1 DEF Sleeps, ButFor
<1>4. \A r \in Task : r # s => n.tasks[r] = m.tasks[r]
  BY <1>1 DEF ButFor
<1> QED
  BY <1>1, <1>2, <1>3, <1>4 DEF Tended, NoNewPause, Sleeps

(* Cancelled: the task it is done to sleeps or is with the model.          *)
LEMMA CancelledIs ==
  ASSUME NEW m \in Mind, Tended(m), NEW s \in Task \cup {NoTask}, s \in {m.timer, m.monster},
         NEW n, n = Cancelled(m, s)
  PROVE  /\ n \in Mind /\ Recalls(m, n) /\ n.pending = m.pending
         /\ n.timer # NoTask => n.timer = m.timer /\ Sleeps(n, n.timer, "lull")
         /\ n.timer = m.timer \/ s = m.timer
         /\ \A r \in Task : Sleeps(n, r, "pause") => Sleeps(m, r, "pause") /\ r # s
         /\ \A r \in Task : r # s => n.tasks[r] = m.tasks[r]
         /\ s = m.timer => Tended(n) /\ n.answering = m.answering
         /\ n.answering # m.answering => n.answering = FALSE /\ CancelSends(m, s) = <<Busy(FALSE)>>
         /\ HasRoom(m) => HasRoom(n)
<1>0. s \in Task => /\ Sleeps(m, s, "lull") \/ Sleeps(m, s, "pause") \/ m.tasks[s].st = "asking"
                    /\ s = m.timer => Sleeps(m, s, "lull")
  BY NoTaskIsNone DEF Tended
<1>1. CASE s = NoTask
  <2>1. n = m
    BY <1>1 DEF Cancelled
  <2> QED
    BY <1>1, <2>1, NoTaskIsNone DEF Recalls, Tended
<1>2. CASE s \in Task /\ m.tasks[s].st = "asleep"
  <2>1. n = Ended(m, s)
    BY <1>2, TaskIs DEF Cancelled
  <2>2. /\ n \in Mind /\ Recalls(m, n) /\ n.pending = m.pending
        /\ n.answering = m.answering /\ n.tasks[s] = FreeSlot /\ ButFor(m, n, s)
        /\ n.timer = IF m.timer = s THEN NoTask ELSE m.timer
    BY <1>2, <2>1, EndedIs
  <2>3. Tended(n) /\ NoNewPause(m, n)
    BY <1>2, <2>1, EndedIsTended
  <2>4. HasRoom(n)
    BY <1>2, <2>2, TaskIs DEF HasRoom
  <2>5. \A r \in Task : Sleeps(n, r, "pause") => r # s
    BY <2>2, TaskIs DEF Sleeps
  <2> QED
    BY <1>2, <2>2, <2>3, <2>4, <2>5 DEF Tended, NoNewPause, ButFor
<1>3. CASE s \in Task /\ m.tasks[s].st = "asking"
  <2> DEFINE w == [m.tasks EXCEPT ![s].st = "cut"]
             d == m.dropped \/ m.pending # <<>>
  <2>1. n = [m EXCEPT !.tasks = w, !.answering = FALSE, !.dropped = d]
    BY <1>3, TaskIs DEF Cancelled, Mind
  <2>2. /\ w \in [Task -> TaskState] /\ d \in BOOLEAN /\ w[s].st = "cut"
        /\ \A r \in Task : r # s => w[r] = m.tasks[r]
    BY <1>3 DEF Mind, TaskState
  <2> HIDE DEF w, d
  <2>3. /\ n \in Mind /\ Recalls(m, n) /\ n.pending = m.pending /\ n.tasks = w
        /\ n.timer = m.timer /\ n.answering = FALSE
    BY <2>1, <2>2 DEF Mind, Recalls
  <2>4. s # m.timer
    BY <1>0, <1>3 DEF Sleeps
  <2>5. m.timer # NoTask => Sleeps(n, m.timer, "lull")
    BY <2>2, <2>3, <2>4 DEF Tended, Sleeps, Mind
  <2>6. \A r \in Task : Sleeps(n, r, "pause") => Sleeps(m, r, "pause") /\ r # s
    BY <2>2, <2>3 DEF Sleeps
  <2>7. CancelSends(m, s) = <<Busy(FALSE)>>
    BY <1>3, TaskIs DEF CancelSends
  <2>8. HasRoom(m) => HasRoom(n)
    BY <1>3, <2>2, <2>3 DEF HasRoom
  <2> QED
    BY <2>2, <2>3, <2>4, <2>5, <2>6, <2>7, <2>8
<1> QED
  BY <1>0, <1>1, <1>2, <1>3 DEF Sleeps

LEMMA FreshIs ==
  ASSUME NEW m \in Mind, HasRoom(m)
  PROVE  Fresh(m) \in Task /\ m.tasks[Fresh(m)].st = "free"
<1> DEFINE S == {s \in Task : m.tasks[s].st = "free"}
           f == [s \in S |-> s]
<1>1. S # {} /\ f \in [S -> Nat]
  BY AgentAssumption DEF HasRoom
<1>2. PICK s \in S : \A r \in S : f[s] <= f[r]
  <2> HIDE DEF S, f
  <2> QED
    BY <1>1, Smallest
<1>3. s \in Task /\ m.tasks[s].st = "free" /\ \A r \in Task : m.tasks[r].st = "free" => s <= r
  BY <1>2
<1> QED
  BY <1>3 DEF Fresh

LEMMA RestartTimerIs ==
  ASSUME NEW m \in Mind, Tended(m), HasRoom(m), NEW n, n = RestartTimer(m)
  PROVE  /\ n \in Mind /\ Tended(n) /\ Recalls(m, n) /\ NoNewPause(m, n)
         /\ n.pending = m.pending /\ n.answering = m.answering
<1> DEFINE c == Cancelled(m, m.timer)
           r == Fresh(c)
           z == [FreeSlot EXCEPT !.st = "asleep"]
           w == [c.tasks EXCEPT ![r] = z]
<1>1. /\ c \in Mind /\ Recalls(m, c) /\ c.pending = m.pending /\ Tended(c)
      /\ c.answering = m.answering /\ HasRoom(c)
      /\ \A s \in Task : Sleeps(c, s, "pause") => Sleeps(m, s, "pause")
  BY CancelledIs DEF Mind
<1>2. r \in Task /\ c.tasks[r].st = "free"
  <2> HIDE DEF c
  <2> QED
    BY <1>1, FreshIs
<1>3. n = [c EXCEPT !.timer = r, !.dropped = FALSE, !.tasks = w]
  BY DEF RestartTimer
<1> HIDE DEF c, r
<1>4. z \in TaskState /\ z.st = "asleep" /\ z.kind = "lull"
  BY TaskIs
<1> HIDE DEF z
<1>5. /\ w \in [Task -> TaskState] /\ w[r] = z
      /\ \A s \in Task : s # r => w[s] = c.tasks[s]
  BY <1>1, <1>2, <1>4 DEF Mind
<1> HIDE DEF w
<1>6. /\ n \in Mind /\ Recalls(c, n) /\ n.pending = c.pending /\ n.answering = c.answering
      /\ n.timer = r /\ n.monster = c.monster /\ n.tasks = w
  BY <1>1, <1>2, <1>3, <1>5 DEF Mind, Recalls
<1>7. /\ Sleeps(n, r, "lull")
      /\ \A s \in Task : Sleeps(n, s, "pause") => s # r /\ Sleeps(c, s, "pause")
  BY <1>4, <1>5, <1>6 DEF Sleeps
<1>8. Tended(n)
  <2>1. c.monster # NoTask => c.monster \in Task /\ c.monster # r
    BY <1>1, <1>2 DEF Tended, Sleeps, Mind
  <2>2. \A s \in Task : s # r => n.tasks[s] = c.tasks[s]
    BY <1>5, <1>6
  <2> QED
    BY <1>1, <1>6, <1>7, <2>1, <2>2 DEF Tended, Sleeps
<1> QED
  BY <1>1, <1>6, <1>7, <1>8 DEF Recalls, NoNewPause

LEMMA TurnTaken ==
  ASSUME NEW m \in Mind, Tended(m), HasRoom(m), TakesIt(m), NEW n, n = TurnCameRound(m)
  PROVE  /\ n \in Mind /\ Tended(n) /\ n.pending = m.pending
         /\ n.auto = m.auto /\ n.up = m.up /\ n.no = m.no /\ n.unseen = m.unseen
         /\ n.mine = m.up
         /\ n.answering # m.answering =>
              n.answering = FALSE /\ CancelSends(m, m.monster) = <<Busy(FALSE)>>
<1> DEFINE c == Cancelled(m, m.monster)
           r == Fresh(c)
           z == [FreeSlot EXCEPT !.st = "asleep", !.kind = "pause", !.about = m.up]
           w == [c.tasks EXCEPT ![r] = z]
<1>0. m.up \in Who /\ m.up \in Machine /\ m.monster \in Task \cup {NoTask}
  BY DEF Mind, TakesIt
<1>1. /\ c \in Mind /\ Recalls(m, c) /\ c.pending = m.pending /\ HasRoom(c)
      /\ c.timer # NoTask => Sleeps(c, c.timer, "lull")
      /\ \A s \in Task : Sleeps(c, s, "pause") => Sleeps(m, s, "pause") /\ s # m.monster
      /\ c.answering # m.answering =>
           c.answering = FALSE /\ CancelSends(m, m.monster) = <<Busy(FALSE)>>
  <2>1. m.monster \in {m.timer, m.monster}
    OBVIOUS
  <2> HIDE DEF z, w, r
  <2>2. /\ c \in Mind /\ Recalls(m, c) /\ c.pending = m.pending
        /\ \A s \in Task : Sleeps(c, s, "pause") => Sleeps(m, s, "pause") /\ s # m.monster
    BY <2>1, CancelledIs DEF Mind
  <2>3. /\ c.timer # NoTask => c.timer = m.timer /\ Sleeps(c, c.timer, "lull")
        /\ HasRoom(c)
    BY <2>1, CancelledIs DEF Mind
  <2>4. c.answering # m.answering =>
          c.answering = FALSE /\ CancelSends(m, m.monster) = <<Busy(FALSE)>>
    BY <2>1, CancelledIs DEF Mind
  <2> QED
    BY <2>2, <2>3, <2>4
<1>2. r \in Task /\ c.tasks[r].st = "free"
  <2> HIDE DEF c
  <2> QED
    BY <1>1, FreshIs
<1>3. n = [c EXCEPT !.mine = m.up, !.monster = r, !.tasks = w]
  BY DEF TurnCameRound
<1>4. \A s \in Task : ~ Sleeps(c, s, "pause")
  BY <1>1 DEF Tended
<1> HIDE DEF c, r
<1>5. z \in TaskState /\ z.st = "asleep" /\ z.kind = "pause" /\ z.about = m.up
  BY <1>0, TaskIs
<1> HIDE DEF z
<1>6. /\ w \in [Task -> TaskState] /\ w[r] = z
      /\ \A s \in Task : s # r => w[s] = c.tasks[s]
  BY <1>1, <1>2, <1>5 DEF Mind
<1> HIDE DEF w
<1>7. /\ n \in Mind /\ n.pending = c.pending /\ n.answering = c.answering
      /\ n.auto = c.auto /\ n.up = c.up /\ n.no = c.no /\ n.unseen = c.unseen
      /\ n.timer = c.timer /\ n.monster = r /\ n.tasks = w /\ n.mine = m.up
  BY <1>0, <1>1, <1>2, <1>3, <1>6 DEF Mind
<1>8. Tended(n)
  <2>1. Sleeps(n, r, "pause") /\ n.tasks[r].about \in Machine
    BY <1>0, <1>5, <1>6, <1>7 DEF Sleeps
  <2>2. \A s \in Task : s # r => n.tasks[s] = c.tasks[s]
    BY <1>6, <1>7
  <2>3. c.timer # NoTask => c.timer \in Task /\ c.timer # r
    BY <1>1, <1>2 DEF Mind, Sleeps
  <2> QED
    BY <1>1, <1>4, <1>7, <2>1, <2>2, <2>3 DEF Tended, Sleeps
<1> QED
  BY <1>1, <1>7, <1>8 DEF Recalls

LEMMA TurnLeft ==
  ASSUME NEW m \in Mind, Tended(m), ~TakesIt(m), NEW n, n = TurnCameRound(m)
  PROVE  /\ n \in Mind /\ Tended(n) /\ n.pending = m.pending /\ NoNewPause(m, n)
         /\ n.auto = m.auto /\ n.up = m.up /\ n.no = m.no /\ m.unseen \subseteq n.unseen
         /\ n.answering = m.answering
         /\ m.up \in Machine => n.mine = n.up \/ n.no \in n.unseen
<1>1. CASE ~m.auto /\ m.up \in Machine
  <2> DEFINE u == m.unseen \cup {m.no}
  <2>1. n = [m EXCEPT !.unseen = u]
    BY <1>1 DEF TurnCameRound, Mind
  <2>2. u \in SUBSET Nat /\ m.unseen \subseteq u /\ m.no \in u
    BY DEF Mind
  <2> HIDE DEF u
  <2>3. /\ n \in Mind /\ n.pending = m.pending /\ n.tasks = m.tasks /\ n.timer = m.timer
        /\ n.monster = m.monster /\ n.auto = m.auto /\ n.up = m.up /\ n.no = m.no
        /\ n.unseen = u /\ n.answering = m.answering
    BY <2>1, <2>2 DEF Mind
  <2> QED
    BY <2>2, <2>3 DEF Tended, NoNewPause, Sleeps
<1>2. CASE m.auto /\ m.up \notin Machine
  <2>1. n = [m EXCEPT !.mine = NoOne]
    BY <1>2 DEF TurnCameRound
  <2>2. NoOne \in Who
    BY DEF Who
  <2>3. /\ n \in Mind /\ n.pending = m.pending /\ n.tasks = m.tasks /\ n.timer = m.timer
        /\ n.monster = m.monster /\ n.auto = m.auto /\ n.up = m.up /\ n.no = m.no
        /\ n.unseen = m.unseen /\ n.answering = m.answering
    BY <2>1, <2>2 DEF Mind
  <2> QED
    BY <1>2, <2>3 DEF Tended, NoNewPause, Sleeps
<1>3. CASE m.auto /\ m.up \in Machine
  <2>1. n = m /\ m.mine = m.up
    BY <1>3 DEF TurnCameRound, TakesIt
  <2> QED
    BY <2>1 DEF NoNewPause
<1>4. CASE ~m.auto /\ m.up \notin Machine
  <2>1. n = m
    BY <1>4 DEF TurnCameRound, TakesIt
  <2> QED
    BY <1>4, <2>1 DEF NoNewPause
<1> QED
  BY <1>1, <1>2, <1>3, <1>4

-----------------------------------------------------------------------------
(* The agent's own steps                                                   *)

(* Only an agent that is in has anything to hear, or a task to go on with. *)
LEMMA OnlyInside ==
  ASSUME AgentInv, toAgent # <<>> \/ \E s \in Task : mind.tasks[s].st # "free"
  PROVE  agent.in
<1>1. ~agent.in => mind = Blank /\ toAgent = <<>>
  BY DEF AgentInv, Links
<1>2. \A s \in Task : Blank.tasks[s].st = "free"
  BY TaskIs DEF Blank
<1> QED
  BY <1>1, <1>2

(* What an answer that is over says is that it is over.                    *)
LEMMA SayingKeeps ==
  ASSUME AgentInv, agent.in, UNCHANGED <<host, agent>>,
         NEW x \in Seq(Utters), toHost' = toHost \o x,
         ~mind'.answering => Hushed(x) /\ (mind.answering => Stops(x))
  PROVE  Writing' /\ toHost' \in Seq(Utters)
<1>1. CASE mind'.answering
  BY <1>1, AsTyped, AtTheEnd DEF Writing
<1>2. CASE ~mind'.answering
  <2>1. Hushed(x) /\ (mind.answering => Stops(x))
    BY <1>2
  <2>2. /\ toHost' \in Seq(Utters)
        /\ Hushed(toHost) \/ Stops(x) => Hushed(toHost')
        /\ Stops(toHost) \/ Stops(x) => Stops(toHost')
    BY <2>1, AsTyped, HushedOnSaying
  <2> QED
    BY <2>1, <2>2 DEF Writing, AgentInv
<1> QED
  BY <1>1, <1>2

LEMMA OneOrTwo ==
  ASSUME NEW S, NEW a \in S, NEW b \in S
  PROVE  /\ <<a>> \in Seq(S) /\ DOMAIN <<a>> = {1} /\ <<a>>[1] = a
         /\ <<a, b>> \in Seq(S) /\ DOMAIN <<a, b>> = {1, 2}
         /\ <<a, b>>[1] = a /\ <<a, b>>[2] = b
<1>1. /\ <<a>> \in Seq(S) /\ Len(<<a>>) = 1 /\ DOMAIN <<a>> = 1 .. 1
      /\ <<a, b>> \in Seq(S) /\ Len(<<a, b>>) = 2 /\ DOMAIN <<a, b>> = 1 .. 2
  OBVIOUS
<1>2. 1 .. 1 = {1} /\ 1 .. 2 = {1, 2}
  OBVIOUS
<1> QED
  BY <1>1, <1>2

LEMMA WhatIsSaid ==
  /\ <<>> \in Seq(Utters) /\ Hushed(<<>>)
  /\ <<Busy(FALSE)>> \in Seq(Utters) /\ Hushed(<<Busy(FALSE)>>) /\ Stops(<<Busy(FALSE)>>)
  /\ <<Busy(TRUE)>> \in Seq(Utters)
  /\ <<Busy(FALSE), Chat>> \in Seq(Utters)
  /\ Hushed(<<Busy(FALSE), Chat>>) /\ Stops(<<Busy(FALSE), Chat>>)
  /\ <<Trouble, Busy(FALSE)>> \in Seq(Utters)
  /\ Hushed(<<Trouble, Busy(FALSE)>>) /\ Stops(<<Trouble, Busy(FALSE)>>)
<1>1. /\ Busy(FALSE) \in Utters /\ Busy(TRUE) \in Utters /\ Chat \in Utters /\ Trouble \in Utters
      /\ Busy(FALSE) # Busy(TRUE) /\ Chat # Busy(TRUE) /\ Trouble # Busy(TRUE)
  BY FramesAre DEF Busy, Chat, Trouble
<1>2. <<>> \in Seq(Utters) /\ Hushed(<<>>)
  BY DEF Hushed
<1>3. ASSUME NEW q, q = <<Busy(FALSE)>>
      PROVE  q \in Seq(Utters) /\ Hushed(q) /\ Stops(q)
  <2>1. q \in Seq(Utters) /\ DOMAIN q = {1} /\ q[1] = Busy(FALSE)
    BY <1>1, <1>3, OneOrTwo
  <2> QED
    BY <1>1, <2>1 DEF Hushed, Stops
<1>4. ASSUME NEW a \in Utters, NEW b \in Utters, a # Busy(TRUE), b # Busy(TRUE),
             a = Busy(FALSE) \/ b = Busy(FALSE), NEW q, q = <<a, b>>
      PROVE  q \in Seq(Utters) /\ Hushed(q) /\ Stops(q)
  <2>1. q \in Seq(Utters) /\ DOMAIN q = {1, 2} /\ q[1] = a /\ q[2] = b
    BY <1>4, OneOrTwo
  <2> QED
    BY <1>4, <2>1 DEF Hushed, Stops
<1>5. /\ <<Busy(FALSE), Chat>> \in Seq(Utters)
      /\ Hushed(<<Busy(FALSE), Chat>>) /\ Stops(<<Busy(FALSE), Chat>>)
  BY <1>1, <1>4
<1>7. /\ <<Trouble, Busy(FALSE)>> \in Seq(Utters)
      /\ Hushed(<<Trouble, Busy(FALSE)>>) /\ Stops(<<Trouble, Busy(FALSE)>>)
  BY <1>1, <1>4
<1>6. <<Busy(TRUE)>> \in Seq(Utters)
  BY <1>1, OneOrTwo
<1> QED
  BY <1>2, <1>3, <1>5, <1>6, <1>7

(* A step that hears nothing and puts nothing to the model.                *)
LEMMA WorkingKeeps ==
  ASSUME AgentInv, agent.in, UNCHANGED <<host, app, agent, toAgent, asked>>,
         spent' \in [turns : Nat, flips : Nat, upsets : Nat, lines : SUBSET Line],
         spent'.lines = spent.lines,
         mind' \in Mind, Tended(mind'), Recalls(mind, mind'), NoNewPause(mind, mind'),
         mind'.pending = mind.pending, Writing', toHost' \in Seq(Utters)
  PROVE  AgentInv'
<1>1. AgentTyped'
  BY AsTyped DEF AgentTyped, LinesTyped
<1>2. Links' /\ Tended(mind)'
  BY AsTyped DEF Links, Tended, Sleeps
<1>3. Stream'
  BY DEF AgentInv, Stream, HeardBefore, Asked, Recalls, Later
<1>4. TurnsOnce'
  BY DEF AgentInv, TurnsOnce, Asked, Recalls, NoNewPause
<1>5. LinesOnce'
  BY DEF AgentInv, LinesOnce
<1> QED
  BY <1>1, <1>2, <1>3, <1>4, <1>5 DEF AgentInv

LEMMA TaskGoesOn ==
  ASSUME NEW m \in Mind, Tended(m), NEW s \in Task, NEW t \in TaskState,
         t.st = m.tasks[s].st, t.kind = m.tasks[s].kind, t.about = m.tasks[s].about,
         NEW n, n = [m EXCEPT !.tasks[s] = t]
  PROVE  /\ n \in Mind /\ Tended(n) /\ Recalls(m, n) /\ NoNewPause(m, n)
         /\ n.pending = m.pending /\ n.answering = m.answering
<1> DEFINE w == [m.tasks EXCEPT ![s] = t]
<1>1. n = [m EXCEPT !.tasks = w]
  BY DEF Mind
<1>2. /\ w \in [Task -> TaskState]
      /\ \A r \in Task : w[r].st = m.tasks[r].st /\ w[r].kind = m.tasks[r].kind
                           /\ w[r].about = m.tasks[r].about
  BY DEF Mind
<1> HIDE DEF w
<1>3. /\ n \in Mind /\ n.tasks = w /\ Recalls(m, n) /\ n.pending = m.pending
      /\ n.answering = m.answering /\ n.timer = m.timer /\ n.monster = m.monster
  BY <1>1, <1>2 DEF Mind, Recalls
<1>4. \A r \in Task : \A k : Sleeps(n, r, k) <=> Sleeps(m, r, k)
  BY <1>2, <1>3 DEF Sleeps
<1>5. m.timer # NoTask => m.timer \in Task
  BY DEF Mind
<1>6. m.monster # NoTask => m.monster \in Task
  BY DEF Mind
<1> QED
  BY <1>2, <1>3, <1>4, <1>5, <1>6 DEF Tended, NoNewPause

LEMMA ScriptIs ==
  ASSUME NEW tool \in Tool
  PROVE  Script(tool) \in Seq(Seq(Request))
<1>1. \A r \in Request : <<<<r>>>> \in Seq(Seq(Request))
  <2> SUFFICES ASSUME NEW r \in Request PROVE <<<<r>>>> \in Seq(Seq(Request))
    OBVIOUS
  <2>1. <<r>> \in Seq(Request)
    BY OneOrTwo
  <2> QED
    BY <2>1, OneOrTwo
<1>2. <<<<"fight">>, <<"enlist", "begin">>>> \in Seq(Seq(Request))
  <2>1. "fight" \in Request /\ "enlist" \in Request /\ "begin" \in Request
    BY DEF Request
  <2>2. <<"fight">> \in Seq(Request) /\ <<"enlist", "begin">> \in Seq(Request)
    BY <2>1, OneOrTwo
  <2> QED
    BY <2>2, OneOrTwo
<1>3. <<>> \in Seq(Seq(Request))
  OBVIOUS
<1>4. \/ Script(tool) = <<<<"fight">>, <<"enlist", "begin">>>>
      \/ \E r \in Request : Script(tool) = <<<<r>>>>
      \/ Script(tool) = <<>>
  BY DEF Script, Tool, Request
<1> QED
  BY <1>1, <1>2, <1>3, <1>4

LEMMA SendsAre ==
  ASSUME NEW batch \in Seq(Request)
  PROVE  Sends(batch) \in Seq(Utters) /\ Hushed(Sends(batch))
<1>1. /\ Len(batch) \in Nat /\ \A k \in 1 .. Len(batch) : batch[k] \in Request
  OBVIOUS
<1>2. \A k \in 1 .. Len(batch) : Asks(batch[k]) \in Utters
  BY <1>1, FramesAre
<1>3. \A k \in 1 .. Len(batch) : Asks(batch[k]) # Busy(TRUE)
  BY DEF Asks, Busy
<1>4. /\ DOMAIN Sends(batch) = 1 .. Len(batch)
      /\ \A k \in 1 .. Len(batch) : Sends(batch)[k] = Asks(batch[k])
  BY DEF Sends
<1>5. Sends(batch) \in Seq(Utters)
  <2>1. Sends(batch) = [k \in 1 .. Len(batch) |-> Asks(batch[k])]
    BY DEF Sends
  <2>2. Sends(batch) \in [1 .. Len(batch) -> Utters]
    BY <1>2, <2>1
  <2> QED
    BY <1>1, <2>2, SeqDef
<1>6. Hushed(Sends(batch))
  BY <1>3, <1>4 DEF Hushed
<1> QED
  BY <1>5, <1>6

(* Between two frames the thread's task goes on, with nothing said of the  *)
(* writing.                                                                *)
LEMMA UsingKeeps ==
  ASSUME AgentInv, agent.in, NEW s \in Task, NEW t \in TaskState,
         t.st = mind.tasks[s].st, t.kind = mind.tasks[s].kind, t.about = mind.tasks[s].about,
         mind' = [mind EXCEPT !.tasks[s] = t],
         NEW batch \in Seq(Request), toHost' = toHost \/ toHost' = toHost \o Sends(batch),
         spent' \in [turns : Nat, flips : Nat, upsets : Nat, lines : SUBSET Line],
         spent'.lines = spent.lines, UNCHANGED <<host, app, agent, toAgent, asked>>
  PROVE  AgentInv'
<1>1. /\ mind' \in Mind /\ Tended(mind') /\ Recalls(mind, mind') /\ NoNewPause(mind, mind')
      /\ mind'.pending = mind.pending /\ mind'.answering = mind.answering
  <2>1. mind \in Mind /\ Tended(mind)
    BY AsTyped DEF AgentInv
  <2> QED
    BY <2>1, TaskGoesOn
<1>2. Writing' /\ toHost' \in Seq(Utters)
  <2>1. CASE toHost' = toHost
    BY <1>1, <2>1, AsTyped DEF AgentInv, Writing
  <2>2. CASE toHost' = toHost \o Sends(batch)
    <3>1. ~mind'.answering => ~mind.answering
      BY <1>1
    <3> QED
      BY <2>2, <3>1, SendsAre, SayingKeeps
  <2> QED
    BY <2>1, <2>2
<1> QED
  BY <1>1, <1>2, WorkingKeeps

LEMMA RoundIs ==
  ASSUME NEW t \in TaskState
  PROVE  /\ NextRound(t) \in TaskState /\ NextRound(t).st = t.st
         /\ NextRound(t).kind = t.kind /\ NextRound(t).about = t.about
         /\ \A rest \in Seq(Seq(Request)) :
              LET n == [t EXCEPT !.call = "tool", !.left = rest]
              IN  n \in TaskState /\ n.st = t.st /\ n.kind = t.kind /\ n.about = t.about
<1>1. t.rounds + 1 \in Nat /\ <<>> \in Seq(Seq(Request))
  BY DEF TaskState
<1>2. NextRound(t) = [t EXCEPT !.call = "model", !.left = <<>>, !.rounds = t.rounds + 1]
  BY DEF NextRound
<1>3. /\ NextRound(t) \in TaskState /\ NextRound(t).st = t.st
      /\ NextRound(t).kind = t.kind /\ NextRound(t).about = t.about
  BY <1>1, <1>2 DEF TaskState
<1> QED
  BY <1>3 DEF TaskState

LEMMA BatchKeeps ==
  ASSUME AgentInv, agent.in, NEW s \in Task, NEW waits \in BOOLEAN,
         NEW script \in Seq(Seq(Request)),
         (script # <<>> /\ SendBatch(s, script, waits))
           \/ (mind' = [mind EXCEPT !.tasks[s] = NextRound(@)] /\ UNCHANGED toHost),
         spent' \in [turns : Nat, flips : Nat, upsets : Nat, lines : SUBSET Line],
         spent'.lines = spent.lines, UNCHANGED <<host, app, agent, toAgent, asked>>
  PROVE  AgentInv'
<1> DEFINE u == mind.tasks[s]
           n == [u EXCEPT !.call = "tool", !.left = Tail(script)]
<1>1. u \in TaskState
  BY AsTyped DEF Mind
<1>2. /\ NextRound(u) \in TaskState /\ NextRound(u).st = u.st
      /\ NextRound(u).kind = u.kind /\ NextRound(u).about = u.about
  <2> HIDE DEF u
  <2> QED
    BY <1>1, RoundIs
<1>3. CASE mind' = [mind EXCEPT !.tasks[s] = NextRound(u)] /\ toHost' = toHost
  <2>1. <<>> \in Seq(Request)
    OBVIOUS
  <2> QED
    BY <1>2, <1>3, <2>1, UsingKeeps
<1>4. CASE script # <<>> /\ SendBatch(s, script, waits)
  <2>1. Head(script) \in Seq(Request) /\ Tail(script) \in Seq(Seq(Request))
    BY <1>4, OneLess
  <2>2. n \in TaskState /\ n.st = u.st /\ n.kind = u.kind /\ n.about = u.about
    <3> HIDE DEF u
    <3> QED
      BY <1>1, <2>1, RoundIs
  <2>3. toHost' = toHost \o Sends(Head(script))
    BY <1>4 DEF SendBatch
  <2>4. \/ mind' = [mind EXCEPT !.tasks[s] = n]
        \/ mind' = [mind EXCEPT !.tasks[s] = NextRound(u)]
    BY <1>4 DEF SendBatch
  <2>5. CASE mind' = [mind EXCEPT !.tasks[s] = n]
    <3> HIDE DEF n
    <3> QED
      BY <2>1, <2>2, <2>3, <2>5, UsingKeeps
  <2>6. CASE mind' = [mind EXCEPT !.tasks[s] = NextRound(u)]
    BY <1>2, <2>1, <2>3, <2>6, UsingKeeps
  <2> QED
    BY <2>4, <2>5, <2>6
<1> QED
  BY <1>3, <1>4

LEMMA UseToolKeeps ==
  ASSUME AgentInv, agent.in, NEW s \in Task, NEW tool \in Offered, UseTool(s, tool)
  PROVE  AgentInv'
<1>1. Script(tool) \in Seq(Seq(Request)) /\ Waits(tool) \in BOOLEAN
  BY ScriptIs, AgentAssumption DEF Waits
<1>2. /\ spent' \in [turns : Nat, flips : Nat, upsets : Nat, lines : SUBSET Line]
      /\ spent'.lines = spent.lines
  <2>1. TurnsOf(tool) \in Nat
    BY DEF TurnsOf
  <2> QED
    BY <2>1, AsTyped, SpendingIsTyped DEF UseTool
<1>3. \/ Script(tool) # <<>> /\ SendBatch(s, Script(tool), Waits(tool))
      \/ mind' = [mind EXCEPT !.tasks[s] = NextRound(@)] /\ UNCHANGED toHost
  BY DEF UseTool
<1> QED
  BY <1>1, <1>2, <1>3, BatchKeeps DEF UseTool

LEMMA ToolGoesOnKeeps ==
  ASSUME AgentInv, agent.in, NEW s \in Task, ToolGoesOn(s)
  PROVE  AgentInv'
<1>1. mind.tasks[s].left \in Seq(Seq(Request))
  BY AsTyped DEF Mind, TaskState
<1>2. \/ mind.tasks[s].left # <<>> /\ SendBatch(s, mind.tasks[s].left, TRUE)
      \/ mind' = [mind EXCEPT !.tasks[s] = NextRound(@)] /\ UNCHANGED toHost
  BY DEF ToolGoesOn
<1>3. /\ spent' \in [turns : Nat, flips : Nat, upsets : Nat, lines : SUBSET Line]
      /\ spent'.lines = spent.lines /\ UNCHANGED <<host, app, agent, toAgent, asked>>
  BY AsTyped DEF ToolGoesOn
<1> QED
  BY <1>1, <1>2, <1>3, BatchKeeps

(* A task that was cut off, and whose thread comes back.                   *)
LEMMA UnawaitedKeeps ==
  ASSUME AgentInv, agent.in, NEW s \in Task, Unawaited(s)
  PROVE  AgentInv'
<1> DEFINE w == [mind.tasks EXCEPT ![s] = FreeSlot]
<1>1. /\ mind.tasks[s].st = "cut" /\ mind' = [mind EXCEPT !.tasks = w]
      /\ UNCHANGED <<host, app, agent, toHost, toAgent, asked, spent>>
  BY DEF Unawaited
<1>2. /\ mind \in Mind /\ Tended(mind) /\ Writing
  BY AsTyped DEF AgentInv
<1>3. /\ w \in [Task -> TaskState] /\ w[s].st = "free"
      /\ \A r \in Task : r # s => w[r] = mind.tasks[r]
  BY <1>2, TaskIs DEF Mind
<1> HIDE DEF w
<1>4. /\ mind' \in Mind /\ mind'.tasks = w /\ Recalls(mind, mind')
      /\ mind'.pending = mind.pending /\ mind'.answering = mind.answering
      /\ mind'.timer = mind.timer /\ mind'.monster = mind.monster
  BY <1>1, <1>2, <1>3 DEF Mind, Recalls
<1>5. \A r \in Task : \A k : Sleeps(mind', r, k) => r # s /\ Sleeps(mind, r, k)
  BY <1>3, <1>4 DEF Sleeps
<1>6. mind.timer # s /\ mind.monster # s
  BY <1>1, <1>2, NoTaskIsNone DEF Tended, Sleeps
<1>7. mind.timer \in Task \cup {NoTask} /\ mind.monster \in Task \cup {NoTask}
  BY <1>2 DEF Mind
<1>8. Tended(mind') /\ NoNewPause(mind, mind')
  BY <1>2, <1>3, <1>4, <1>5, <1>6, <1>7 DEF Tended, NoNewPause, Sleeps
<1>9. Writing' /\ toHost' \in Seq(Utters)
  BY <1>1, <1>2, <1>4, AsTyped DEF Writing
<1> QED
  BY <1>1, <1>4, <1>8, <1>9, AsTyped, WorkingKeeps

LEMMA QuietIs ==
  ASSUME NEW m \in Mind, Tended(m), NEW n, n = [m EXCEPT !.answering = FALSE]
  PROVE  /\ n \in Mind /\ Tended(n) /\ Recalls(m, n) /\ NoNewPause(m, n)
         /\ n.pending = m.pending /\ ~n.answering
<1>1. /\ n \in Mind /\ Recalls(m, n) /\ n.pending = m.pending /\ ~n.answering
      /\ n.tasks = m.tasks /\ n.timer = m.timer /\ n.monster = m.monster
  BY DEF Mind, Recalls
<1> QED
  BY <1>1 DEF Tended, NoNewPause, Sleeps

(* An answer that is over, however it ended.                               *)
LEMMA OverIs ==
  ASSUME NEW m \in Mind, Tended(m), NEW s \in Task,
         NEW n, n = Ended([m EXCEPT !.answering = FALSE], s)
  PROVE  /\ n \in Mind /\ Tended(n) /\ Recalls(m, n) /\ NoNewPause(m, n)
         /\ n.pending = m.pending /\ ~n.answering /\ HasRoom(n)
<1> DEFINE c == [m EXCEPT !.answering = FALSE]
<1>1. /\ c \in Mind /\ Tended(c) /\ Recalls(m, c) /\ NoNewPause(m, c)
      /\ c.pending = m.pending /\ ~c.answering
  BY QuietIs
<1>2. n = Ended(c, s)
  OBVIOUS
<1> HIDE DEF c
<1>3. /\ n \in Mind /\ Recalls(c, n) /\ n.pending = c.pending
      /\ n.answering = c.answering /\ n.tasks[s] = FreeSlot
  BY <1>1, <1>2, EndedIs
<1>4. Tended(n) /\ NoNewPause(c, n)
  BY <1>1, <1>2, EndedIsTended
<1>5. HasRoom(n)
  BY <1>3, TaskIs DEF HasRoom
<1> QED
  BY <1>1, <1>3, <1>4, <1>5 DEF Recalls, NoNewPause

LEMMA RepliesKeeps ==
  ASSUME AgentInv, agent.in, NEW s \in Task, NEW aloud \in BOOLEAN, Replies(s, aloud)
  PROVE  AgentInv'
<1> DEFINE n == Ended([mind EXCEPT !.answering = FALSE], s)
<1>0. mind \in Mind /\ Tended(mind)
  BY AsTyped DEF AgentInv
<1>1. /\ n \in Mind /\ Tended(n) /\ Recalls(mind, n) /\ NoNewPause(mind, n)
      /\ n.pending = mind.pending /\ ~n.answering /\ HasRoom(n)
  BY <1>0, OverIs
<1>2. mind' = IF n.pending # <<>> THEN RestartTimer(n) ELSE n
  BY DEF Replies, Answered
<1> HIDE DEF n
<1>3. /\ mind' \in Mind /\ Tended(mind') /\ Recalls(mind, mind') /\ NoNewPause(mind, mind')
      /\ mind'.pending = mind.pending /\ ~mind'.answering
  <2>1. CASE n.pending # <<>>
    <3>1. mind' = RestartTimer(n)
      BY <1>2, <2>1
    <3>2. /\ mind' \in Mind /\ Tended(mind') /\ Recalls(n, mind') /\ NoNewPause(n, mind')
          /\ mind'.pending = n.pending /\ mind'.answering = n.answering
      BY <1>1, <3>1, RestartTimerIs
    <3> QED
      BY <1>1, <3>2 DEF Recalls, NoNewPause
  <2>2. CASE n.pending = <<>>
    BY <1>1, <1>2, <2>2
  <2> QED
    BY <2>1, <2>2
<1>4. \/ toHost' = toHost \o <<Busy(FALSE), Chat>>
      \/ toHost' = toHost \o <<Busy(FALSE)>>
  BY DEF Replies
<1>5. UNCHANGED <<host, app, agent, toAgent, asked, spent>>
  BY DEF Replies
<1>6. Writing' /\ toHost' \in Seq(Utters)
  BY <1>4, <1>5, WhatIsSaid, SayingKeeps
<1> QED
  BY <1>3, <1>5, <1>6, AsTyped, WorkingKeeps

LEMMA FailsKeeps ==
  ASSUME AgentInv, agent.in, NEW s \in Task, Fails(s)
  PROVE  AgentInv'
<1> DEFINE n == Ended([mind EXCEPT !.answering = FALSE], s)
           d == n.dropped \/ mind.pending # <<>>
<1>0. mind \in Mind /\ Tended(mind)
  BY AsTyped DEF AgentInv
<1>1. /\ n \in Mind /\ Tended(n) /\ Recalls(mind, n) /\ NoNewPause(mind, n)
      /\ n.pending = mind.pending /\ ~n.answering
  BY <1>0, OverIs
<1>2. mind' = [n EXCEPT !.dropped = d]
  BY DEF Fails, Failed
<1>3. d \in BOOLEAN
  BY <1>1 DEF Mind
<1> HIDE DEF n, d
<1>4. /\ mind' \in Mind /\ Recalls(n, mind') /\ mind'.pending = n.pending /\ ~mind'.answering
      /\ mind'.tasks = n.tasks /\ mind'.timer = n.timer /\ mind'.monster = n.monster
  BY <1>1, <1>2, <1>3 DEF Mind, Recalls
<1>5. Tended(mind') /\ NoNewPause(mind, mind') /\ Recalls(mind, mind')
  BY <1>1, <1>4 DEF Tended, NoNewPause, Sleeps, Recalls
<1>6. /\ toHost' = toHost \o <<Trouble, Busy(FALSE)>>
      /\ UNCHANGED <<host, app, agent, toAgent, asked, spent>>
  BY DEF Fails
<1>7. Writing' /\ toHost' \in Seq(Utters)
  BY <1>6, WhatIsSaid, SayingKeeps
<1> QED
  BY <1>1, <1>4, <1>5, <1>6, <1>7, AsTyped, WorkingKeeps

-----------------------------------------------------------------------------
(* A pause is over                                                         *)

(* Taking a turn leaves nothing pending, and no pause asleep that was not. *)
TookATurn(m, s, n) ==
  /\ n \in Mind /\ Tended(n) /\ Recalls(m, n) /\ n.pending = <<>>
  /\ \A r \in Task : Sleeps(n, r, "pause") => Sleeps(m, r, "pause") /\ r # s
  /\ n.tasks[s].st = "asking" => n.answering
  /\ n.tasks[s].st # "asking" => n.answering = m.answering

LEMMA TakeATurnIs ==
  ASSUME NEW m \in Mind, Tended(m), NEW s \in Task, m.tasks[s].st = "asleep",
         NEW p, NEW n, n = TakeATurn([m EXCEPT !.pending = p], s)
  PROVE  TookATurn(m, s, n)
<1> DEFINE g == [m EXCEPT !.pending = <<>>, !.timer = NoTask]
           t == [m.tasks[s] EXCEPT !.st = "asking", !.call = "model"]
           w == [m.tasks EXCEPT ![s] = t]
<1>1. n = IF p = <<>> \/ ~m.auto THEN Ended(g, s) ELSE [g EXCEPT !.tasks = w, !.answering = TRUE]
  <2> DEFINE a == [m EXCEPT !.pending = p]
             b == [a EXCEPT !.pending = <<>>, !.timer = NoTask]
             h == [m.tasks EXCEPT ![s].st = "asking"]
  <2>1. a.pending = p /\ a.auto = m.auto /\ b = g
    BY DEF Mind
  <2>2. [g EXCEPT !.tasks[s].st = "asking", !.tasks[s].call = "model", !.answering = TRUE]
          = [g EXCEPT !.tasks = w, !.answering = TRUE]
    <3>1. g.tasks = m.tasks /\ m.tasks \in [Task -> TaskState]
      BY DEF Mind
    <3>2. [[m.tasks EXCEPT ![s].st = "asking"] EXCEPT ![s].call = "model"] = w
      BY <3>1 DEF TaskState
    <3>3. [g EXCEPT !.tasks[s].st = "asking", !.tasks[s].call = "model", !.answering = TRUE]
            = [g EXCEPT !.tasks = [[m.tasks EXCEPT ![s].st = "asking"] EXCEPT ![s].call = "model"],
                        !.answering = TRUE]
      BY <3>1 DEF Mind
    <3> QED
      BY <3>2, <3>3
  <2>3. n = LET c == b IN
              IF a.pending = <<>> \/ ~a.auto THEN Ended(c, s)
              ELSE [c EXCEPT !.tasks[s].st = "asking", !.tasks[s].call = "model", !.answering = TRUE]
    BY DEF TakeATurn
  <2> HIDE DEF a, b, g, w
  <2> QED
    BY <2>1, <2>2, <2>3
<1>2. /\ g \in Mind /\ Recalls(m, g) /\ g.pending = <<>> /\ g.answering = m.answering
      /\ g.tasks = m.tasks /\ g.timer = NoTask /\ g.monster = m.monster
  <2>1. <<>> \in Seq(Line)
    OBVIOUS
  <2> HIDE DEF t, w
  <2> QED
    BY <2>1 DEF Mind, Recalls
<1>3. Tended(g)
  BY <1>2 DEF Tended, Sleeps
<1>4. /\ t \in TaskState /\ t.st = "asking"
  BY DEF Mind, TaskState
<1> HIDE DEF t
<1>5. /\ w \in [Task -> TaskState] /\ w[s] = t
      /\ \A r \in Task : r # s => w[r] = m.tasks[r]
  BY <1>4 DEF Mind
<1> HIDE DEF g, w
<1>6. CASE n = Ended(g, s)
  <2>1. /\ n \in Mind /\ Recalls(g, n) /\ n.pending = g.pending /\ n.answering = g.answering
        /\ n.tasks[s] = FreeSlot
    BY <1>2, <1>6, EndedIs
  <2>2. Tended(n) /\ NoNewPause(g, n)
    BY <1>2, <1>3, <1>6, EndedIsTended
  <2>3. n.tasks[s].st = "free"
    BY <2>1, TaskIs
  <2> QED
    BY <1>2, <2>1, <2>2, <2>3 DEF TookATurn, Recalls, NoNewPause, Sleeps
<1>7. CASE n = [g EXCEPT !.tasks = w, !.answering = TRUE]
  <2>1. /\ n \in Mind /\ Recalls(g, n) /\ n.pending = g.pending /\ n.answering = TRUE
        /\ n.tasks = w /\ n.timer = NoTask /\ n.monster = m.monster
    BY <1>2, <1>5, <1>7 DEF Mind, Recalls
  <2>2. \A r \in Task : Sleeps(n, r, "pause") => Sleeps(m, r, "pause") /\ r # s
    BY <1>4, <1>5, <2>1 DEF Sleeps
  <2>3. Tended(n)
    <3>1. m.monster # NoTask => Sleeps(n, m.monster, "pause") \/ n.tasks[m.monster].st = "asking"
      <4>1. m.monster # NoTask => m.monster \in Task
        BY DEF Mind
      <4> QED
        BY <1>4, <1>5, <2>1, <4>1 DEF Tended, Sleeps
    <3>2. \A r \in Task : Sleeps(n, r, "pause") => r = m.monster /\ n.tasks[r].about \in Machine
      BY <1>5, <2>1, <2>2 DEF Tended
    <3> QED
      BY <2>1, <3>1, <3>2 DEF Tended
  <2> QED
    BY <1>2, <1>4, <1>5, <2>1, <2>2, <2>3 DEF TookATurn, Recalls
<1> QED
  BY <1>1, <1>6, <1>7

(* How often a thing is in a sequence of different ones.                   *)
Times(p, i) == Cardinality({k \in 1 .. Len(p) : p[k] = i})

LEMMA AtMostOnce ==
  ASSUME NEW S, NEW p \in Seq(S), NEW i,
         \A k \in DOMAIN p : p[k] = i => \A j \in DOMAIN p : j # k => p[j] # i
  PROVE  Times(p, i) \in {0, 1} /\ (Times(p, i) = 0 <=> \A k \in DOMAIN p : p[k] # i)
<1> DEFINE K == {k \in 1 .. Len(p) : p[k] = i}
<1>0. DOMAIN p = 1 .. Len(p)
  OBVIOUS
<1>1. CASE K = {}
  <2>1. Cardinality(K) = 0
    BY <1>1, FS_EmptySet
  <2> QED
    BY <1>0, <1>1, <2>1 DEF Times
<1>2. ASSUME NEW k \in K PROVE Times(p, i) = 1
  <2>1. K = {k}
    BY <1>0, <1>2
  <2>2. Cardinality(K) = 1
    <3> HIDE DEF K
    <3> QED
      BY <2>1, FS_Singleton
  <2> QED
    BY <2>2 DEF Times
<1> QED
  BY <1>0, <1>1, <1>2

(* When a task wakes: what it puts to the model was put to none before.    *)
LEMMA WakingKeeps ==
  ASSUME AgentInv, agent.in, NEW s \in Task, mind.tasks[s].st = "asleep",
         NEW p \in Seq(Line \cup Nat), Wakes(s, [mind EXCEPT !.pending = p]),
         UNCHANGED <<host, app, agent, toAgent, spent>>,
         \A i \in Item : Times(p, i) \in {0, 1},
         \A l \in Line : Times(p, l) = 1 => \E k \in DOMAIN mind.pending : mind.pending[k] = l,
         \/ \A n \in Turn : Times(p, n) = 0
         \/ /\ Sleeps(mind, s, "pause") /\ mind.up \in Machine
            /\ \A n \in Turn : Times(p, n) = 1 => n = mind.no
  PROVE  AgentInv'
<1> DEFINE m == [mind EXCEPT !.pending = p]
<1>1. mind \in Mind /\ Tended(mind)
  BY AsTyped DEF AgentInv
<1>2. /\ mind' \in Mind /\ Tended(mind') /\ Recalls(mind, mind') /\ mind'.pending = <<>>
      /\ \A r \in Task : Sleeps(mind', r, "pause") => Sleeps(mind, r, "pause") /\ r # s
      /\ mind'.tasks[s].st = "asking" => mind'.answering
      /\ mind'.tasks[s].st # "asking" => mind'.answering = mind.answering
  <2> HIDE DEF m
  <2>1. mind' = TakeATurn([mind EXCEPT !.pending = p], s)
    BY DEF Wakes
  <2>2. TookATurn(mind, s, mind')
    BY <1>1, <2>1, TakeATurnIs
  <2> QED
    BY <2>2 DEF TookATurn
<1>3. /\ toHost' = IF mind'.tasks[s].st = "asking" THEN Append(toHost, Busy(TRUE)) ELSE toHost
      /\ asked' = IF mind'.tasks[s].st = "asking" THEN [i \in Item |-> asked[i] + Times(p, i)]
                  ELSE asked
  <2>1. m.pending = p
    BY <1>1 DEF Mind
  <2> QED
    BY <2>1 DEF Wakes, Times
<1>4. toHost' \in Seq(Utters) /\ Writing'
  <2>1. CASE mind'.tasks[s].st = "asking"
    <3>1. toHost' = Append(toHost, Busy(TRUE))
      BY <1>3, <2>1
    <3>2. toHost' \in Seq(Utters)
      BY <3>1, AsTyped, FramesAre, OneMore
    <3> QED
      BY <1>2, <2>1, <3>2 DEF Writing
  <2>2. CASE mind'.tasks[s].st # "asking"
    BY <1>2, <1>3, <2>2, AsTyped DEF Writing, AgentInv
  <2> QED
    BY <2>1, <2>2
<1>5. \A i \in Item : asked'[i] \in Nat /\ (asked'[i] = asked[i] \/ (asked'[i] = asked[i] + 1 /\ Times(p, i) = 1))
  BY <1>3, AsTyped
<1>6. asked' \in [Item -> Nat]
  <2>1. asked' = [i \in Item |-> asked'[i]]
    BY <1>3, AsTyped
  <2> QED
    BY <1>5, <2>1
<1>7. AgentTyped' /\ Links' /\ Tended(mind)'
  BY <1>2, <1>4, <1>6, AsTyped DEF AgentTyped, LinesTyped, Links, Tended, Sleeps
<1>8. Stream'
  <2>1. Asked(mind.no)' = Asked(mind.no) \/ mind.up # NoOne
    <3>1. CASE \A n \in Turn : Times(p, n) = 0
      BY <1>2, <1>5, <3>1 DEF Asked, Recalls, Item
    <3>2. CASE mind.up \in Machine
      BY <3>2, BlankIsBlank
    <3> QED
      BY <3>1, <3>2
  <2>2. \A v, k : HeardBefore(v, k) => HeardBefore(v, k)'
    BY <1>2, <2>1 DEF HeardBefore, Recalls
  <2> QED
    BY <2>2 DEF AgentInv, Stream, Later
<1>9. TurnsOnce'
  <2>0. TurnsOnce
    BY DEF AgentInv
  <2>1. \A n \in Turn : asked'[n] = asked[n] \/ (n = mind.no /\ asked'[n] = asked[n] + 1 /\ Sleeps(mind, s, "pause"))
    BY <1>5 DEF Item
  <2>2. Sleeps(mind, s, "pause") => \A r \in Task : ~ Sleeps(mind', r, "pause")
    BY <1>1, <1>2 DEF Tended
  <2>3. Sleeps(mind, s, "pause") => Asked(mind.no) = 0 \/ mind.no \in mind.unseen
    BY <2>0 DEF TurnsOnce
  <2>4. mind.no \in Nat /\ mind'.no = mind.no /\ mind'.unseen = mind.unseen
        /\ mind'.up = mind.up /\ mind'.mine = mind.mine
    BY <1>1, <1>2 DEF Recalls, Mind
  <2>5. \A n \in Turn : n \in Nat /\ asked[n] \in Nat
    BY AsTyped, AgentAssumption DEF Turn, Item
  <2>6. \A n \in Turn : asked'[n] >= 1 => n <= mind'.no
    BY <2>0, <2>1, <2>4, <2>5 DEF TurnsOnce
  <2>7. \A n \in Turn : asked'[n] <= 1 \/ n \in mind'.unseen
    <3> SUFFICES ASSUME NEW n \in Turn, n \notin mind'.unseen PROVE asked'[n] <= 1
      OBVIOUS
    <3>1. CASE asked'[n] = asked[n]
      BY <2>0, <2>4, <3>1 DEF TurnsOnce
    <3>2. CASE n = mind.no /\ asked'[n] = asked[n] + 1 /\ Sleeps(mind, s, "pause")
      <4>1. asked[n] = 0
        BY <2>3, <2>4, <3>2 DEF Asked
      <4> QED
        BY <3>2, <4>1
    <3> QED
      BY <2>1, <3>1, <3>2
  <2>8. (\E r \in Task : Sleeps(mind', r, "pause")) => Asked(mind.no)' = 0 \/ mind'.no \in mind'.unseen
    <3> SUFFICES ASSUME NEW r \in Task, Sleeps(mind', r, "pause")
                 PROVE  Asked(mind.no)' = 0 \/ mind'.no \in mind'.unseen
      OBVIOUS
    <3>1. Sleeps(mind, r, "pause") /\ ~ Sleeps(mind, s, "pause")
      BY <1>2, <2>2
    <3>2. Asked(mind.no)' = Asked(mind.no)
      BY <2>1, <2>4, <3>1 DEF Asked
    <3> QED
      BY <2>0, <2>4, <3>1, <3>2 DEF TurnsOnce
  <2> QED
    BY <2>0, <2>4, <2>6, <2>7, <2>8 DEF TurnsOnce
<1>10. LinesOnce'
  <2>0. LinesOnce /\ DOMAIN mind'.pending = {}
    BY <1>2 DEF AgentInv
  <2>1. \A l \in Line : asked[l] \in Nat /\ (asked'[l] = asked[l] \/
           (asked'[l] = asked[l] + 1 /\ \E k \in DOMAIN mind.pending : mind.pending[k] = l))
    BY <1>5, AsTyped DEF Item
  <2>2. \A l \in Line : asked'[l] <= 1 /\ (asked'[l] >= 1 => l \in spent.lines)
    BY <2>0, <2>1 DEF LinesOnce
  <2>3. ASSUME NEW k \in DOMAIN toAgent, toAgent[k].t = "said"
        PROVE  /\ toAgent[k].line \in spent.lines /\ asked'[toAgent[k].line] = 0
               /\ \A j \in DOMAIN toAgent : j # k => toAgent[j] # toAgent[k]
    <3>1. toAgent[k].line \in Line
      BY <2>3, AsTyped, FramesAre
    <3> QED
      BY <2>0, <2>1, <2>3, <3>1 DEF LinesOnce
  <2> QED
    BY <2>0, <2>2, <2>3 DEF LinesOnce
<1> QED
  BY <1>4, <1>7, <1>8, <1>9, <1>10 DEF AgentInv

LEMMA AfterTheLullKeeps ==
  ASSUME AgentInv, agent.in, NEW s \in Task, AfterTheLull(s)
  PROVE  AgentInv'
<1>0. /\ mind \in Mind /\ Tended(mind) /\ mind.tasks[s].st = "asleep"
      /\ UNCHANGED <<host, app, agent, toAgent, spent>>
  BY AsTyped DEF AgentInv, AfterTheLull, Lull
<1>1. CASE mind' = Ended(mind, s) /\ UNCHANGED <<toHost, asked>>
  <2>1. /\ mind' \in Mind /\ Recalls(mind, mind') /\ mind'.pending = mind.pending
        /\ mind'.answering = mind.answering /\ Tended(mind') /\ NoNewPause(mind, mind')
    BY <1>0, <1>1, EndedIs, EndedIsTended
  <2>2. Writing' /\ toHost' \in Seq(Utters)
    BY <1>0, <1>1, <2>1, AsTyped DEF AgentInv, Writing
  <2> QED
    BY <1>0, <1>1, <2>1, <2>2, AsTyped, WorkingKeeps
<1>2. CASE Wakes(s, mind)
  <2> DEFINE p == mind.pending
  <2>1. mind = [mind EXCEPT !.pending = p] /\ p \in Seq(Line)
    BY <1>0 DEF Mind
  <2>2. p \in Seq(Line \cup Nat)
    BY <2>1, SeqMonotonic
  <2>3. /\ \A k \in DOMAIN p : p[k] \in Line /\ p[k] \notin Nat
        /\ \A k \in DOMAIN p : \A j \in DOMAIN p : j # k => p[j] # p[k]
    BY <2>1, AgentAssumption DEF AgentInv, LinesOnce
  <2> HIDE DEF p
  <2>4. \A i : Times(p, i) \in {0, 1} /\ (Times(p, i) = 0 <=> \A k \in DOMAIN p : p[k] # i)
    BY <2>2, <2>3, AtMostOnce
  <2>5. \A n \in Turn : Times(p, n) = 0
    <3>1. Turn \subseteq Nat
      BY AgentAssumption DEF Turn
    <3> QED
      BY <2>3, <2>4, <3>1
  <2>6. \A l \in Line : Times(p, l) = 1 => \E k \in DOMAIN mind.pending : mind.pending[k] = l
    BY <2>4 DEF p
  <2>7. Wakes(s, [mind EXCEPT !.pending = p])
    BY <1>2, <2>1
  <2> QED
    BY <1>0, <2>2, <2>4, <2>5, <2>6, <2>7, WakingKeeps
<1> QED
  BY <1>1, <1>2 DEF AfterTheLull

LEMMA AfterThePauseKeeps ==
  ASSUME AgentInv, agent.in, NEW s \in Task, AfterThePause(s)
  PROVE  AgentInv'
<1>0. /\ mind \in Mind /\ Tended(mind) /\ mind.tasks[s].st = "asleep"
      /\ Sleeps(mind, s, "pause") /\ UNCHANGED <<host, app, agent, toAgent, spent>>
  BY AsTyped DEF AgentInv, AfterThePause, Pause, Sleeps
<1>1. CASE mind' = Ended(mind, s) /\ UNCHANGED <<toHost, asked>>
  <2>1. /\ mind' \in Mind /\ Recalls(mind, mind') /\ mind'.pending = mind.pending
        /\ mind'.answering = mind.answering /\ Tended(mind') /\ NoNewPause(mind, mind')
    BY <1>0, <1>1, EndedIs, EndedIsTended
  <2>2. Writing' /\ toHost' \in Seq(Utters)
    BY <1>0, <1>1, <2>1, AsTyped DEF AgentInv, Writing
  <2> QED
    BY <1>0, <1>1, <2>1, <2>2, AsTyped, WorkingKeeps
<1>2. CASE /\ mind.up = mind.tasks[s].about
           /\ Wakes(s, [mind EXCEPT !.pending = Append(mind.pending, mind.no)])
  <2> DEFINE q == mind.pending
             p == Append(q, mind.no)
  <2>1. q \in Seq(Line) /\ mind.no \in Nat
    BY <1>0 DEF Mind
  <2>2. q \in Seq(Line \cup Nat)
    BY <2>1, SeqMonotonic
  <2>3. /\ \A k \in DOMAIN q : q[k] \in Line /\ q[k] \notin Nat
        /\ \A k \in DOMAIN q : \A j \in DOMAIN q : j # k => q[j] # q[k]
    BY <2>1, AgentAssumption DEF AgentInv, LinesOnce
  <2>4. /\ p \in Seq(Line \cup Nat)
        /\ \A i \in DOMAIN p : (i \in DOMAIN q /\ p[i] = q[i]) \/ (i = Len(q) + 1 /\ p[i] = mind.no)
    <3> HIDE DEF q
    <3> QED
      BY <2>1, <2>2, OneMore
  <2>5. mind.up \in Machine
    BY <1>0, <1>2 DEF Tended
  <2>6. Wakes(s, [mind EXCEPT !.pending = p])
    BY <1>2
  <2> HIDE DEF p, q
  <2>7. \A i : \A k \in DOMAIN p : p[k] = i => \A j \in DOMAIN p : j # k => p[j] # i
    BY <2>1, <2>3, <2>4
  <2>8. \A i : Times(p, i) \in {0, 1} /\ (Times(p, i) = 0 <=> \A k \in DOMAIN p : p[k] # i)
    BY <2>4, <2>7, AtMostOnce
  <2>9. \A n \in Turn : Times(p, n) = 1 => n = mind.no
    <3>1. Turn \subseteq Nat
      BY AgentAssumption DEF Turn
    <3> QED
      BY <2>3, <2>4, <2>8, <3>1
  <2>10. \A l \in Line : Times(p, l) = 1 => \E k \in DOMAIN mind.pending : mind.pending[k] = l
    <3>1. \A l \in Line : l \notin Nat
      BY AgentAssumption
    <3> QED
      BY <2>1, <2>4, <2>8, <3>1 DEF q
  <2> QED
    BY <1>0, <2>4, <2>5, <2>6, <2>8, <2>9, <2>10, WakingKeeps
<1> QED
  BY <1>1, <1>2 DEF AfterThePause

-----------------------------------------------------------------------------
(* A frame is taken in                                                     *)

LEMMA LinesStillOnce ==
  ASSUME AgentInv, toAgent # <<>>, toAgent' = Tail(toAgent), UNCHANGED <<asked, spent>>,
         mind'.pending = mind.pending
  PROVE  LinesOnce'
<1>0. \A i \in DOMAIN toAgent' : i \in Nat /\ i + 1 \in DOMAIN toAgent
                                    /\ toAgent'[i] = toAgent[i + 1]
  <2>1. \A i \in DOMAIN Tail(toAgent) : i \in 1 .. Len(Tail(toAgent)) /\ i + 1 \in DOMAIN toAgent
                                      /\ Tail(toAgent)[i] = toAgent[i + 1]
    BY AsTyped, OneLess
  <2>2. \A i \in 1 .. Len(Tail(toAgent)) : i \in Nat
    OBVIOUS
  <2> QED
    BY <2>1, <2>2
<1>1. ASSUME NEW k \in DOMAIN toAgent', toAgent'[k].t = "said"
      PROVE  /\ toAgent'[k].line \in spent.lines /\ asked[toAgent'[k].line] = 0
             /\ \A j \in DOMAIN mind.pending : mind.pending[j] # toAgent'[k].line
             /\ \A j \in DOMAIN toAgent' : j # k => toAgent'[j] # toAgent'[k]
  <2>1. \A j \in DOMAIN toAgent' : j # k => j + 1 # k + 1
    BY <1>0
  <2> QED
    BY <1>0, <1>1, <2>1 DEF AgentInv, LinesOnce
<1> QED
  BY <1>1 DEF AgentInv, LinesOnce

(* What is left on the wire, for an agent that has not heard of the fight. *)
LEMMA TheRestIsFine ==
  ASSUME AgentInv, toAgent # <<>>, toAgent' = Tail(toAgent), UNCHANGED <<host, asked, spent>>,
         mind'.up = mind.up, mind'.no = mind.no
  PROVE  /\ toAgent' \in Seq(Heeds) /\ Stream'
         /\ mind'.pending = mind.pending => LinesOnce'
<1>0. /\ toAgent' \in Seq(Heeds)
      /\ \A i \in DOMAIN toAgent' : i \in Nat /\ i + 1 \in DOMAIN toAgent
                                      /\ toAgent'[i] = toAgent[i + 1]
  <2>1. \A i \in DOMAIN Tail(toAgent) : i \in 1 .. Len(Tail(toAgent)) /\ i + 1 \in DOMAIN toAgent
                                      /\ Tail(toAgent)[i] = toAgent[i + 1]
    BY AsTyped, OneLess
  <2>2. \A i \in 1 .. Len(Tail(toAgent)) : i \in Nat
    OBVIOUS
  <2> QED
    BY <2>1, <2>2, AsTyped, OneLess
<1>1. \A v, k : HeardBefore(v, k) => HeardBefore(v, k)'
  BY DEF HeardBefore, Asked
<1>2. Stream'
  <2>1. ASSUME NEW i \in DOMAIN toAgent', toAgent'[i].t = "fight"
        PROVE  /\ HeardBefore(toAgent'[i].up, toAgent'[i].no)
               /\ Later(toAgent'[i].up, toAgent'[i].no, host.up, host.no)
    BY <1>0, <2>1 DEF AgentInv, Stream
  <2>2. ASSUME NEW i \in DOMAIN toAgent', NEW j \in DOMAIN toAgent', i < j,
               toAgent'[i].t = "fight", toAgent'[j].t = "fight"
        PROVE  Later(toAgent'[i].up, toAgent'[i].no, toAgent'[j].up, toAgent'[j].no)
    <3>1. i + 1 < j + 1
      BY <1>0, <2>2
    <3> QED
      BY <1>0, <2>2, <3>1 DEF AgentInv, Stream
  <2> QED
    BY <1>1, <2>1, <2>2 DEF AgentInv, Stream, Later
<1> QED
  BY <1>0, <1>2, LinesStillOnce

(* What hearing leaves to be shown.                                        *)
LEMMA HearingIsEnough ==
  ASSUME AgentInv, agent.in, UNCHANGED <<host, app, agent, asked, spent>>,
         toAgent' \in Seq(Heeds), toHost' \in Seq(Utters), Writing',
         mind' \in Mind, Tended(mind'), Stream', TurnsOnce', LinesOnce'
  PROVE  AgentInv'
<1>1. AgentTyped' /\ Links' /\ Tended(mind)'
  BY AsTyped DEF AgentTyped, LinesTyped, Links, Tended, Sleeps
<1> QED
  BY <1>1 DEF AgentInv

LEMMA SwitchHeardKeeps ==
  ASSUME AgentInv, agent.in, toAgent # <<>>, toAgent' = Tail(toAgent), toHost' = toHost,
         NEW on \in BOOLEAN, mind' = [mind EXCEPT !.auto = on],
         UNCHANGED <<host, app, agent, asked, spent>>
  PROVE  AgentInv'
<1>0. mind \in Mind /\ Tended(mind)
  BY AsTyped DEF AgentInv
<1>1. /\ mind' \in Mind /\ mind'.up = mind.up /\ mind'.no = mind.no
      /\ mind'.mine = mind.mine /\ mind'.unseen = mind.unseen
      /\ mind'.pending = mind.pending /\ mind'.answering = mind.answering
      /\ mind'.tasks = mind.tasks /\ mind'.timer = mind.timer /\ mind'.monster = mind.monster
  BY <1>0 DEF Mind
<1>2. Tended(mind') /\ Writing' /\ toHost' \in Seq(Utters)
  BY <1>0, <1>1, AsTyped DEF Tended, Sleeps, AgentInv, Writing
<1>3. toAgent' \in Seq(Heeds) /\ Stream' /\ LinesOnce'
  BY <1>1, TheRestIsFine
<1>4. TurnsOnce'
  BY <1>1 DEF AgentInv, TurnsOnce, Asked, Sleeps
<1> QED
  BY <1>1, <1>2, <1>3, <1>4, HearingIsEnough

LEMMA LineHeardKeeps ==
  ASSUME AgentInv, agent.in, toAgent # <<>>, toAgent' = Tail(toAgent), toHost' = toHost,
         HasRoom(mind), NEW l \in Line, Head(toAgent) = Says(l), mind' = Heard(mind, l),
         UNCHANGED <<host, app, agent, asked, spent>>
  PROVE  AgentInv'
<1> DEFINE q == mind.pending
           p == Append(q, l)
           m == [mind EXCEPT !.pending = p]
<1>0. mind \in Mind /\ Tended(mind) /\ q \in Seq(Line)
  BY AsTyped DEF AgentInv, Mind
<1>1. /\ p \in Seq(Line)
      /\ \A i \in DOMAIN p : (i \in DOMAIN q /\ p[i] = q[i]) \/ (i = Len(q) + 1 /\ p[i] = l)
  <2> HIDE DEF q
  <2> QED
    BY <1>0, OneMore
<1>2. /\ 1 \in DOMAIN toAgent /\ toAgent[1] = Says(l)
      /\ toAgent[1].t = "said" /\ toAgent[1].line = l
  <2>1. 1 \in DOMAIN toAgent /\ toAgent[1] = Says(l)
    BY AsTyped, OneLess
  <2> QED
    BY <2>1 DEF Says
<1> HIDE DEF p
<1>3. /\ m \in Mind /\ m.pending = p /\ m.tasks = mind.tasks /\ m.timer = mind.timer
      /\ m.monster = mind.monster /\ Recalls(mind, m) /\ m.answering = mind.answering
  BY <1>0, <1>1 DEF Mind, Recalls
<1>4. Tended(m) /\ HasRoom(m)
  BY <1>0, <1>3 DEF Tended, Sleeps, HasRoom
<1>5. /\ mind' \in Mind /\ Tended(mind') /\ Recalls(mind, mind') /\ NoNewPause(mind, mind')
      /\ mind'.answering = mind.answering
      /\ mind'.pending = q \/ mind'.pending = p
  <2>1. CASE mind.auto
    <3>1. mind' = RestartTimer(m)
      BY <2>1 DEF Heard, p
    <3> HIDE DEF m
    <3>2. /\ mind' \in Mind /\ Tended(mind') /\ Recalls(m, mind') /\ NoNewPause(m, mind')
          /\ mind'.pending = m.pending /\ mind'.answering = m.answering
      BY <1>3, <1>4, <3>1, RestartTimerIs
    <3> QED
      BY <1>3, <3>2 DEF Recalls, NoNewPause, Sleeps
  <2>2. CASE ~mind.auto
    <3>1. mind' = mind
      BY <2>2 DEF Heard
    <3> QED
      BY <1>0, <3>1 DEF Recalls, NoNewPause, Sleeps
  <2> QED
    BY <2>1, <2>2
<1>6. /\ toAgent' \in Seq(Heeds) /\ Stream'
      /\ mind'.pending = mind.pending => LinesOnce'
  BY <1>5, TheRestIsFine DEF Recalls
<1>7. LinesOnce'
  <2>1. CASE mind'.pending = q
    BY <1>6, <2>1
  <2>2. CASE mind'.pending = p
    <3>0. LinesOnce
      BY DEF AgentInv
    <3>1. l \in spent.lines /\ asked[l] = 0 /\ \A j \in DOMAIN q : q[j] # l
      BY <1>2, <3>0 DEF LinesOnce
    <3>2. \A k \in DOMAIN p :
            /\ p[k] \in spent.lines /\ asked[p[k]] = 0
            /\ \A j \in DOMAIN p : j # k => p[j] # p[k]
      BY <1>1, <3>0, <3>1 DEF LinesOnce
    <3>3. \A i \in DOMAIN toAgent' : i + 1 \in DOMAIN toAgent /\ i + 1 # 1 /\ i \in Nat
                                       /\ toAgent'[i] = toAgent[i + 1]
      <4>1. \A i \in DOMAIN Tail(toAgent) : i \in 1 .. Len(Tail(toAgent)) /\ i + 1 \in DOMAIN toAgent
                                      /\ Tail(toAgent)[i] = toAgent[i + 1]
        BY AsTyped, OneLess
      <4>2. \A i \in 1 .. Len(Tail(toAgent)) : i \in Nat /\ i + 1 # 1
        OBVIOUS
      <4> QED
        BY <4>1, <4>2
    <3>4. ASSUME NEW k \in DOMAIN toAgent', toAgent'[k].t = "said"
          PROVE  /\ toAgent'[k].line \in spent.lines /\ asked[toAgent'[k].line] = 0
                 /\ \A j \in DOMAIN p : p[j] # toAgent'[k].line
                 /\ \A j \in DOMAIN toAgent' : j # k => toAgent'[j] # toAgent'[k]
      <4>1. /\ k + 1 \in DOMAIN toAgent /\ toAgent'[k] = toAgent[k + 1] /\ k + 1 # 1
            /\ toAgent[k + 1].t = "said" /\ toAgent[k + 1] \in Heeds
        BY <3>3, <3>4, AsTyped
      <4>2. toAgent[k + 1] # toAgent[1]
        BY <1>2, <3>0, <4>1 DEF LinesOnce
      <4>3. toAgent[k + 1].line # l
        BY <1>2, <4>1, <4>2, FramesAre
      <4>4. /\ toAgent[k + 1].line \in spent.lines /\ asked[toAgent[k + 1].line] = 0
            /\ \A j \in DOMAIN q : q[j] # toAgent[k + 1].line
        BY <3>0, <4>1 DEF LinesOnce
      <4>5. \A j \in DOMAIN toAgent' : j # k => toAgent'[j] # toAgent'[k]
        <5>1. \A j \in DOMAIN toAgent' : j # k => j + 1 # k + 1
          BY <3>3
        <5> QED
          BY <3>0, <3>3, <4>1, <5>1 DEF LinesOnce
      <4> QED
        BY <1>1, <4>1, <4>3, <4>4, <4>5
    <3> QED
      BY <2>2, <3>0, <3>2, <3>4 DEF LinesOnce
  <2> QED
    BY <1>5, <2>1, <2>2
<1>8. TurnsOnce'
  BY <1>5 DEF AgentInv, TurnsOnce, Asked, Recalls, NoNewPause
<1>9. Writing' /\ toHost' \in Seq(Utters)
  BY <1>5, AsTyped DEF AgentInv, Writing
<1> QED
  BY <1>5, <1>6, <1>7, <1>8, <1>9, HearingIsEnough

(* The fight as it was when the frame was sent: it is the fight a little   *)
(* later than the agent had it, and earlier than the frames that follow.   *)
LEMMA FightHeardStreams ==
  ASSUME AgentInv, toAgent # <<>>, toAgent' = Tail(toAgent), UNCHANGED <<host, asked>>,
         Head(toAgent).t = "fight", mind'.up = Head(toAgent).up, mind'.no = Head(toAgent).no
  PROVE  /\ Stream'
         /\ HeardBefore(mind'.up, mind'.no)
<1> DEFINE f == toAgent[1]
<1>0. /\ 1 \in DOMAIN toAgent /\ f.t = "fight" /\ mind'.up = f.up /\ mind'.no = f.no
      /\ \A i \in DOMAIN toAgent' : i \in Nat /\ i + 1 \in DOMAIN toAgent
                                      /\ toAgent'[i] = toAgent[i + 1] /\ 1 < i + 1
  <2>1. /\ 1 \in DOMAIN toAgent /\ Head(toAgent) = f
        /\ \A i \in DOMAIN Tail(toAgent) : i \in 1 .. Len(Tail(toAgent)) /\ i + 1 \in DOMAIN toAgent
                                      /\ Tail(toAgent)[i] = toAgent[i + 1]
    BY AsTyped, OneLess
  <2>2. \A i \in 1 .. Len(Tail(toAgent)) : i \in Nat /\ 1 < i + 1
    OBVIOUS
  <2> QED
    BY <2>1, <2>2
<1> HIDE DEF f
<1>1. HeardBefore(f.up, f.no) /\ Later(f.up, f.no, host.up, host.no)
  BY <1>0 DEF AgentInv, Stream, f
<1>2. \A v, k : Later(f.up, f.no, v, k) => HeardBefore(v, k)'
  BY <1>0 DEF HeardBefore, Later
<1>3. ASSUME NEW i \in DOMAIN toAgent', toAgent'[i].t = "fight"
      PROVE  /\ Later(f.up, f.no, toAgent'[i].up, toAgent'[i].no)
             /\ Later(toAgent'[i].up, toAgent'[i].no, host.up, host.no)
  BY <1>0, <1>3 DEF AgentInv, Stream, f
<1>4. ASSUME NEW i \in DOMAIN toAgent', NEW j \in DOMAIN toAgent', i < j,
             toAgent'[i].t = "fight", toAgent'[j].t = "fight"
      PROVE  Later(toAgent'[i].up, toAgent'[i].no, toAgent'[j].up, toAgent'[j].no)
  <2>1. i + 1 < j + 1
    BY <1>0, <1>4
  <2> QED
    BY <1>0, <1>4, <2>1 DEF AgentInv, Stream
<1> QED
  BY <1>0, <1>1, <1>2, <1>3, <1>4 DEF Stream, Later

LEMMA FightHeardKeeps ==
  ASSUME AgentInv, agent.in, toAgent # <<>>, toAgent' = Tail(toAgent), HasRoom(mind),
         Head(toAgent).t = "fight",
         mind' = TurnCameRound([mind EXCEPT !.up = Head(toAgent).up, !.no = Head(toAgent).no]),
         toHost' = IF TakesIt([mind EXCEPT !.up = Head(toAgent).up])
                   THEN toHost \o CancelSends(mind, mind.monster) ELSE toHost,
         UNCHANGED <<host, app, agent, asked, spent>>
  PROVE  AgentInv'
<1> DEFINE f == Head(toAgent)
           m == [mind EXCEPT !.up = f.up, !.no = f.no]
<1>0. mind \in Mind /\ Tended(mind) /\ f.up \in Who /\ f.no \in Nat
  <2>1. f \in Heeds /\ f.t = "fight"
    BY AsTyped, OneLess
  <2> HIDE DEF f
  <2> QED
    BY <2>1, AsTyped, FramesAre DEF AgentInv
<1> HIDE DEF f
<1>1. /\ m \in Mind /\ m.up = f.up /\ m.no = f.no /\ m.auto = mind.auto /\ m.mine = mind.mine
      /\ m.unseen = mind.unseen /\ m.pending = mind.pending /\ m.answering = mind.answering
      /\ m.tasks = mind.tasks /\ m.timer = mind.timer /\ m.monster = mind.monster
  BY <1>0 DEF Mind
<1>2. Tended(m) /\ HasRoom(m)
  BY <1>0, <1>1 DEF Tended, Sleeps, HasRoom
<1>3. /\ TakesIt([mind EXCEPT !.up = f.up]) <=> TakesIt(m)
      /\ CancelSends(m, m.monster) = CancelSends(mind, mind.monster)
  <2>1. [mind EXCEPT !.up = f.up].up = f.up /\ [mind EXCEPT !.up = f.up].auto = mind.auto
        /\ [mind EXCEPT !.up = f.up].mine = mind.mine
    BY <1>0 DEF Mind
  <2> QED
    BY <1>1, <2>1 DEF TakesIt, CancelSends
<1>4. mind' = TurnCameRound(m)
  BY DEF f
<1> HIDE DEF m
<1>5. /\ mind' \in Mind /\ Tended(mind') /\ mind'.pending = mind.pending
      /\ mind'.up = f.up /\ mind'.no = f.no /\ mind.unseen \subseteq mind'.unseen
      /\ mind'.up \in Machine => mind'.mine = mind'.up \/ mind'.no \in mind'.unseen
      /\ TakesIt(m) \/ NoNewPause(mind, mind')
      /\ TakesIt(m) => mind'.unseen = mind.unseen
      /\ mind'.answering = mind.answering
           \/ (TakesIt(m) /\ ~mind'.answering /\ CancelSends(mind, mind.monster) = <<Busy(FALSE)>>)
  <2>1. CASE TakesIt(m)
    <3>1. /\ mind' \in Mind /\ Tended(mind') /\ mind'.pending = m.pending
          /\ mind'.auto = m.auto /\ mind'.up = m.up /\ mind'.no = m.no /\ mind'.unseen = m.unseen
          /\ mind'.mine = m.up
      BY <1>1, <1>2, <1>4, <2>1, TurnTaken
    <3>2. mind'.answering # m.answering =>
            mind'.answering = FALSE /\ CancelSends(m, m.monster) = <<Busy(FALSE)>>
      BY <1>1, <1>2, <1>4, <2>1, TurnTaken
    <3> QED
      BY <1>1, <1>3, <2>1, <3>1, <3>2
  <2>2. CASE ~TakesIt(m)
    <3>1. /\ mind' \in Mind /\ Tended(mind') /\ mind'.pending = m.pending /\ NoNewPause(m, mind')
          /\ mind'.auto = m.auto /\ mind'.up = m.up /\ mind'.no = m.no
          /\ m.unseen \subseteq mind'.unseen /\ mind'.answering = m.answering
          /\ m.up \in Machine => mind'.mine = mind'.up \/ mind'.no \in mind'.unseen
      BY <1>1, <1>2, <1>4, <2>2, TurnLeft
    <3>2. NoNewPause(mind, mind')
      BY <1>1, <3>1 DEF NoNewPause, Sleeps
    <3> QED
      BY <1>1, <2>2, <3>1, <3>2
  <2> QED
    BY <2>1, <2>2
<1>6. Stream' /\ HeardBefore(mind'.up, mind'.no)
  BY <1>5, FightHeardStreams DEF f
<1>7. LinesOnce' /\ toAgent' \in Seq(Heeds)
  <2>1. toAgent' \in Seq(Heeds)
    BY AsTyped, OneLess
  <2> QED
    BY <1>5, <2>1, LinesStillOnce
<1>8. Writing' /\ toHost' \in Seq(Utters)
  <2>1. toHost' = IF TakesIt(m) THEN toHost \o CancelSends(mind, mind.monster) ELSE toHost
    BY <1>3 DEF f
  <2>2. CASE mind'.answering = mind.answering
    <3>1. CASE toHost' = toHost
      BY <2>2, <3>1, AsTyped DEF AgentInv, Writing
    <3>2. CASE toHost' = toHost \o CancelSends(mind, mind.monster)
      <4>1. CASE CancelSends(mind, mind.monster) = <<Busy(FALSE)>>
        BY <3>2, <4>1, WhatIsSaid, SayingKeeps
      <4>2. CASE CancelSends(mind, mind.monster) = <<>>
        BY <2>2, <3>2, <4>2, WhatIsSaid, SayingKeeps
      <4> QED
        BY <4>1, <4>2 DEF CancelSends
    <3> QED
      BY <2>1, <3>1, <3>2
  <2>3. CASE TakesIt(m) /\ CancelSends(mind, mind.monster) = <<Busy(FALSE)>>
    <3>1. toHost' = toHost \o <<Busy(FALSE)>>
      BY <2>1, <2>3
    <3> QED
      BY <3>1, WhatIsSaid, SayingKeeps
  <2> QED
    BY <1>5, <2>2, <2>3
<1>9. TurnsOnce'
  <2>0. TurnsOnce /\ mind.no \in Nat /\ mind'.no \in Nat
    BY <1>0, <1>5 DEF AgentInv, Mind
  <2>1. \A n \in Turn : n \in Nat /\ asked[n] \in Nat
    BY AsTyped, AgentAssumption DEF Turn, Item
  <2>2. mind.no <= mind'.no
    BY <1>6 DEF HeardBefore
  <2>3. \A n \in Turn : asked[n] >= 1 => n <= mind'.no
    BY <2>0, <2>1, <2>2 DEF TurnsOnce
  <2>4. \A n \in Turn : asked[n] <= 1 \/ n \in mind'.unseen
    BY <1>5, <2>0 DEF TurnsOnce
  <2>5. ASSUME NEW s \in Task, Sleeps(mind', s, "pause")
        PROVE  Asked(mind'.no) = 0 \/ mind'.no \in mind'.unseen
    <3>1. CASE mind.no # mind'.no
      BY <2>0, <2>1, <2>2, <3>1 DEF TurnsOnce, Asked
    <3>2. CASE mind.no = mind'.no /\ (mind'.up = mind.up \/ mind'.up = NoOne)
      <4>1. CASE TakesIt(m)
        <5>1. mind'.up \in Machine /\ mind'.up # mind.mine
          BY <1>1, <1>5, <4>1 DEF TakesIt
        <5>2. mind'.up = mind.up
          BY <3>2, <5>1, BlankIsBlank
        <5>3. mind.no \in mind.unseen
          BY <2>0, <5>1, <5>2 DEF TurnsOnce
        <5> QED
          BY <1>5, <3>2, <5>3
      <4>2. CASE NoNewPause(mind, mind')
        <5>1. Asked(mind.no) = 0 \/ mind.no \in mind.unseen
          BY <2>0, <2>5, <4>2 DEF TurnsOnce, NoNewPause
        <5> QED
          BY <1>5, <3>2, <5>1
      <4> QED
        BY <1>5, <4>1, <4>2
    <3>3. CASE mind.no = mind'.no /\ mind.up = NoOne /\ Asked(mind'.no) = 0
      BY <3>3
    <3> QED
      BY <1>6, <3>1, <3>2, <3>3 DEF HeardBefore
  <2>6. Asked(mind.no)' = Asked(mind'.no)
    BY DEF Asked
  <2> QED
    BY <1>5, <2>3, <2>4, <2>5, <2>6 DEF TurnsOnce
<1> QED
  BY <1>5, <1>6, <1>7, <1>8, <1>9, HearingIsEnough

LEMMA AgentHearsKeeps ==
  ASSUME AgentInv, AgentHears
  PROVE  AgentInv'
<1> DEFINE f == Head(toAgent)
<1>0. /\ toAgent # <<>> /\ HasRoom(mind) /\ toAgent' = Tail(toAgent) /\ agent.in
      /\ mind' = Dispatch(mind, f) /\ UNCHANGED <<host, app, agent, asked, spent>>
      /\ toHost' = IF f.t = "fight" /\ TakesIt([mind EXCEPT !.up = f.up])
                   THEN toHost \o CancelSends(mind, mind.monster) ELSE toHost
  BY OnlyInside DEF AgentHears
<1>1. f \in Heeds
  BY <1>0, AsTyped, OneLess
<1> HIDE DEF f
<1>2. CASE f.t = "auto" /\ f.on \in BOOLEAN
  <2>1. mind' = [mind EXCEPT !.auto = f.on] /\ toHost' = toHost
    BY <1>0, <1>2 DEF Dispatch
  <2> QED
    BY <1>0, <1>2, <2>1, SwitchHeardKeeps
<1>3. CASE f.t = "said" /\ f.line \in Line /\ f = Says(f.line)
  <2>1. mind' = Heard(mind, f.line) /\ toHost' = toHost
    BY <1>0, <1>3 DEF Dispatch
  <2> QED
    BY <1>0, <1>3, <2>1, LineHeardKeeps DEF f
<1>4. CASE f.t = "fight"
  <2>1. /\ mind' = TurnCameRound([mind EXCEPT !.up = f.up, !.no = f.no])
        /\ toHost' = IF TakesIt([mind EXCEPT !.up = f.up])
                     THEN toHost \o CancelSends(mind, mind.monster) ELSE toHost
    BY <1>0, <1>4 DEF Dispatch
  <2> QED
    BY <1>0, <1>4, <2>1, FightHeardKeeps DEF f
<1> QED
  BY <1>1, <1>2, <1>3, <1>4, FramesAre

LEMMA TimersKeep ==
  ASSUME AgentInv, NEW s \in Task, AfterTheLull(s) \/ AfterThePause(s)
  PROVE  AgentInv'
<1>1. agent.in
  <2>1. mind.tasks[s].st = "asleep"
    BY DEF AfterTheLull, AfterThePause, Lull, Pause
  <2> QED
    BY <2>1, OnlyInside
<1> QED
  BY <1>1, AfterTheLullKeeps, AfterThePauseKeeps

LEMMA ThreadsKeep ==
  ASSUME AgentInv, NEW s \in Task, Thread(s)
  PROVE  AgentInv'
<1>1. agent.in
  <2>1. mind.tasks[s].call # "none" \/ mind.tasks[s].st # "free"
    BY DEF Thread, UseTool, ToolGoesOn, Unawaited, Replies, Fails
  <2>2. Blank.tasks[s].st = "free" /\ Blank.tasks[s].call = "none"
    BY DEF Blank, FreeSlot
  <2> QED
    BY <2>1, <2>2 DEF AgentInv, Links
<1> QED
  BY <1>1, UseToolKeeps, ToolGoesOnKeeps, UnawaitedKeeps, RepliesKeeps, FailsKeeps DEF Thread

LEMMA PeopleKeep ==
  ASSUME AgentInv, People
  PROVE  AgentInv'
<1>1. ASSUME NEW action \in {"begin", "next", "end"}, DmTurn(action)
      PROVE  AgentInv'
  BY <1>1, TurningKeeps DEF DmTurn
<1> QED
  BY <1>1, RedrawKeeps, TalkingKeeps, TogglingOnKeeps, TogglingOffKeeps, StartingKeeps,
     DyingKeeps DEF People

LEMMA HostKeeps ==
  ASSUME AgentInv, Host
  PROVE  AgentInv'
<1>1. ASSUME NobodyAnswered PROVE AgentInv'
  <2>1. "next" \in {"begin", "next", "end"}
    OBVIOUS
  <2> QED
    BY <1>1, <2>1, TurningKeeps DEF NobodyAnswered
<1> QED
  BY <1>1, HearingKeeps, DisconnectingKeeps, AdmittingKeeps, CheckingKeeps DEF Host

LEMMA AgentNextKeeps == AgentInv /\ [Next]_vars => AgentInv'
<1> SUFFICES ASSUME AgentInv, [Next]_vars PROVE AgentInv'
  OBVIOUS
<1>1. CASE UNCHANGED vars
  BY <1>1 DEF vars, AgentInv, AgentTyped, LinesTyped, Links, Tended, Sleeps, Writing,
              Stream, HeardBefore, Asked, Later, TurnsOnce, LinesOnce
<1>2. CASE Next
  BY <1>2, PeopleKeep, HostKeeps, AgentHearsKeeps, TimersKeep, ThreadsKeep DEF Next, Timers
<1> QED
  BY <1>1, <1>2

LEMMA AgentInitially == Init => AgentInv
<1> SUFFICES ASSUME Init PROVE AgentInv
  OBVIOUS
<1>1. /\ host \in Knows /\ host.no = 0
      /\ app \in [kept : BOOLEAN, watch : BOOLEAN]
      /\ agent \in [alive : BOOLEAN, ours : BOOLEAN, in : BOOLEAN] /\ agent.in = FALSE
      /\ spent \in [turns : Nat, flips : Nat, upsets : Nat, lines : SUBSET Line]
      /\ asked \in [Item -> Nat]
  <2>1. FirstUp \subseteq Who
    BY AgentAssumption DEF Who
  <2>2. PICK c \in FirstUp :
          host = [auto |-> FALSE, up |-> c, no |-> 0, clock |-> FALSE,
                  member |-> FALSE, busy |-> FALSE, spoken |-> 0]
    BY DEF Init
  <2>3. host \in Knows /\ host.no = 0
    BY <2>1, <2>2 DEF Knows
  <2> QED
    BY <2>3 DEF Init, NoAgent
<1>2. /\ mind = Blank /\ asked = [i \in Item |-> 0] /\ toHost = <<>> /\ toAgent = <<>>
      /\ toHost \in Seq(Utters) /\ toAgent \in Seq(Heeds)
      /\ DOMAIN toHost = {} /\ DOMAIN toAgent = {}
  BY DEF Init
<1>3. AgentTyped
  BY <1>1, <1>2, BlankIsBlank DEF AgentTyped, LinesTyped
<1>4. Links /\ Writing
  BY <1>1, <1>2 DEF Links, Writing
<1>5. Tended(mind)
  BY <1>2, BlankIsBlank
<1>6. \A i \in Item : asked[i] = 0
  BY <1>2
<1>7. \A n : Asked(n) = 0
  BY <1>6 DEF Asked, Item
<1>8. Stream
  BY <1>1, <1>2, <1>7, BlankIsBlank DEF Stream, HeardBefore
<1>9. TurnsOnce
  BY <1>2, <1>6, <1>7, BlankIsBlank DEF TurnsOnce, Item
<1>10. LinesOnce
  BY <1>2, <1>6, BlankIsBlank DEF LinesOnce, Item
<1> QED
  BY <1>3, <1>4, <1>5, <1>8, <1>9, <1>10 DEF AgentInv

(* The agent, its session and the frames between them stay what the code   *)
(* takes them for: one pause for the monster whose turn it is, a lull that *)
(* restarts, a fight that is only ever told later than it was.             *)
THEOREM AgentHolds == Spec => []AgentInv
BY AgentInitially, AgentNextKeeps, PTL DEF Spec

(* For any number of tasks and any bounds: while the host shows "Autopilot *)
(* is writing...", an answer is being written, or its end is on the way,   *)
(* or the agent is gone (the `finally` of _take_a_turn, which a cancelled  *)
(* task runs too; _on_disconnected).                                       *)
THEOREM TheWritingEnds == Spec => []WritingEnds
<1>1. AgentInv => WritingEnds
  <2> SUFFICES ASSUME AgentInv, host.busy, ~mind.answering, agent.in
               PROVE  \E k \in 1 .. Len(toHost) : toHost[k] = Busy(FALSE)
    BY DEF WritingEnds
  <2>1. Stops(toHost) /\ DOMAIN toHost = 1 .. Len(toHost)
    BY AsTyped DEF AgentInv, Writing
  <2> QED
    BY <2>1 DEF Stops
<1> QED
  BY <1>1, AgentHolds, PTL

(* No line and no turn is put to a model twice, but a turn that had come   *)
(* round while autopilot was off (_monsters_turn, _pending, and the pause  *)
(* that is cancelled with the turn it was for).                            *)
THEOREM NothingIsAskedTwice == Spec => []AskedOnce
<1>1. AgentInv => AskedOnce
  BY DEF AgentInv, TurnsOnce, LinesOnce, AskedOnce, Item
<1> QED
  BY <1>1, AgentHolds, PTL

(* Off means off, however late an answer comes: with the switch off the    *)
(* host does nothing that an agent's frame asks (_may_run_the_table, and   *)
(* the same in _handle_chat), so what moves the fight reads no frame.      *)
THEOREM OffIsOff == Spec => OffMeansOff
<1> DEFINE Step == ~host.auto /\ (host'.up # host.up \/ host'.spoken # host.spoken)
                     => toHost' = toHost
<1>1. ASSUME AgentInv, Next PROVE Step
  <2>1. CASE HostHears
    <3> DEFINE f == Head(toHost)
    <3>1. f \in Utters /\ host \in Knows
      BY <1>1, <2>1, AsTyped, OneLess DEF HostHears
    <3>2. host' = CASE f.t = "ask" -> Handled(host, f.what)
                    [] f.t = "busy" -> HandleBusy(host, f.on)
                    [] f.t = "chat" -> HandleChat(host)
                    [] f.t = "trouble" -> host
      BY <2>1 DEF HostHears
    <3> HIDE DEF f
    <3>3. ASSUME ~host.auto PROVE host'.up = host.up /\ host'.spoken = host.spoken
      <4>1. CASE f.t = "ask" /\ f.what \in Request
        <5>1. host' = Handled(host, f.what)
          BY <3>2, <4>1
        <5> QED
          BY <3>1, <3>3, <4>1, <5>1, HandledMovesOn
      <4>2. CASE f.t = "busy"
        <5>1. host' = [host EXCEPT !.busy = f.on]
          BY <3>2, <4>2 DEF HandleBusy
        <5> QED
          BY <3>1, <5>1 DEF Knows
      <4>3. CASE f.t = "chat" \/ f.t = "trouble"
        BY <3>2, <3>3, <4>3 DEF HandleChat
      <4> QED
        BY <3>1, <4>1, <4>2, <4>3, FramesAre
    <3> QED
      BY <3>3
  <2>2. CASE Host /\ ~HostHears
    <3>1. ASSUME OnDisconnected PROVE host'.up = host.up /\ host'.spoken = host.spoken
      BY <1>1, <3>1, AsTyped DEF OnDisconnected, Knows
    <3> QED
      BY <2>2, <3>1 DEF Host, NobodyAnswered, Admit, CheckAgent
  <2>3. CASE People
    BY <2>3 DEF People, DmTurn, Redraw, TableTalks, ToggleOn, ToggleOff, StartedByHand, Dies,
                AgentStops
  <2>4. CASE AgentHears \/ Timers
    BY <2>4 DEF AgentHears, Timers, AfterTheLull, AfterThePause
  <2>5. CASE \E s \in Task : Thread(s)
    BY <2>5 DEF Thread, UseTool, ToolGoesOn, Unawaited, Replies, Fails
  <2> QED
    BY <1>1, <2>1, <2>2, <2>3, <2>4, <2>5 DEF Next
<1>2. AgentInv /\ [Next]_vars => [Step]_vars
  BY <1>1
<1>3. OffMeansOff <=> [][Step]_vars
  BY PTL DEF OffMeansOff
<1> QED
  BY <1>2, <1>3, AgentHolds, PTL DEF Spec

=============================================================================
