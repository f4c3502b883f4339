------------------------------ MODULE DmAgent ------------------------------
(***************************************************************************)
(* The machine that runs the table: the host and its Autopilot button      *)
(* (net/server.py, panels/table/widget.py, agent_runner.py), the agent's   *)
(* connection (canon_keeper_client/session.py) and the agent itself        *)
(* (canon_keeper_dm_agent: responder, brain, tools).                       *)
(*                                                                         *)
(* The agent is one event loop and some threads.  Its asyncio tasks sleep  *)
(* through a pause (2.5 s after a line, 4 s before a monster's turn) and   *)
(* then put what is pending to a model, which runs in a thread and comes   *)
(* back through the loop for every tool it uses.  Everything between two   *)
(* awaits that really wait is one step.  Time is left out: a pause ends,   *)
(* and a wait for the host's word gives up, at any later moment.           *)
(***************************************************************************)
EXTENDS Naturals, Sequences, FiniteSets

CONSTANTS
  Creature,    \* the creatures in the fight
  Machine,     \* those nobody plays, or whose player has handed them over
  Order,       \* the initiative order, as a sequence of creatures
  NoOne,       \* nobody is up
  FirstUp,     \* who may have the turn when the host opens: the fight is in the database
  Line,        \* what people say at the table
  Offered,     \* the tools the model goes for
  Task,        \* room for asyncio tasks, as an interval from 1
  MaxRounds,   \* MAX_TOOL_ROUNDS
  MaxTurns,    \* bound: turns begun or passed on
  MaxFlips,    \* bound: presses of the Autopilot button
  MaxUpsets,   \* bound: maps redrawn, agents started by hand, agents that stop
  MaxFrames      \* bound: frames under way in one direction

InOrder == {Order[k] : k \in 1..Len(Order)}

Tool == {"start_combat", "next_turn", "end_combat", "move_on_map", "set_obstacle",
         "attack", "simulate_character", "give_item", "propose_turn", "look_at_the_map"}

ASSUME AgentAssumption ==
  /\ Machine \subseteq Creature /\ NoOne \notin Creature
  /\ Order \in Seq(Creature) /\ Order # <<>>
  /\ FirstUp \subseteq InOrder \cup {NoOne}
  /\ Line \cap Nat = {}
  /\ Offered \subseteq Tool
  /\ Task \subseteq Nat \ {0}
  /\ MaxTurns \in Nat

VARIABLES
  host,     \* what the host knows of the table and of the agent's session
  app,      \* the DM's own window: the process it keeps and its watchdog
  agent,    \* the process: is it alive, did the app start it, has it logged in
  mind,     \* the state of the Responder and of the session's Table
  toHost, toAgent,
  asked,    \* how often each line, and each turn, was put to this agent's model
  spent     \* what is used up of the bounds

vars == <<host, app, agent, mind, toHost, toAgent, asked, spent>>

NoTask == 0
Turn == 0..MaxTurns
Item == Line \cup Turn
Request == {"fight", "enlist", "terrain", "begin", "next", "end", "move", "swing",
            "simulate", "propose", "give"}

FreeSlot == [st |-> "free", kind |-> "lull", about |-> NoOne,
             call |-> "none", left |-> <<>>, rounds |-> 0]

\* A Responder and a Table that have heard nothing yet.  (unseen is kept for the
\* properties: the machine's turns that came round while autopilot was off.)
Blank == [auto |-> FALSE, up |-> NoOne, no |-> 0, pending |-> <<>>, timer |-> NoTask,
          monster |-> NoTask, mine |-> NoOne, answering |-> FALSE, dropped |-> FALSE,
          unseen |-> {}, tasks |-> [s \in Task |-> FreeSlot]]

NoAgent == [alive |-> FALSE, ours |-> FALSE, in |-> FALSE]

Fight(h) == [t |-> "fight", up |-> h.up, no |-> h.no]
Switch(on) == [t |-> "auto", on |-> on]
Says(l) == [t |-> "said", line |-> l]
Busy(on) == [t |-> "busy", on |-> on]
Asks(r) == [t |-> "ask", what |-> r]
Chat == [t |-> "chat"]
Trouble == [t |-> "trouble"]

-----------------------------------------------------------------------------
(* What the host does with a frame of the agent's.                         *)

After(c) == LET i == CHOOSE j \in 1..Len(Order) : Order[j] = c
            IN  Order[(i % Len(Order)) + 1]

\* A turn begun, passed on or ended stops the clock; only the first two are turns.
RunTurn(h, action) ==
  CASE action = "begin" -> [h EXCEPT !.up = Order[1], !.no = @ + 1, !.clock = FALSE]
    [] action = "next" -> [h EXCEPT !.up = IF @ = NoOne THEN Order[1] ELSE After(@),
                                    !.no = @ + 1, !.clock = FALSE]
    [] action = "end" -> [h EXCEPT !.up = NoOne, !.clock = FALSE]

MayRunTheTable(h) == h.auto

\* The agent passes on only a turn that a machine is playing.
HandleTurn(h, action) ==
  IF ~MayRunTheTable(h) \/ (action = "next" /\ h.up \notin Machine \cup {NoOne})
  THEN h ELSE RunTurn(h, action)

\* A new fight has nobody up yet.
HandleFight(h) == IF MayRunTheTable(h) THEN [h EXCEPT !.up = NoOne, !.clock = FALSE] ELSE h

\* Moving and swinging restart the clock that ends the turn of a creature a
\* machine plays; nothing here says whose turn it is.
HandleAction(h) ==
  IF MayRunTheTable(h) /\ h.up \in Machine THEN [h EXCEPT !.clock = TRUE] ELSE h

Handled(h, r) ==
  CASE r \in {"begin", "next", "end"} -> HandleTurn(h, r)
    [] r = "fight" -> HandleFight(h)
    [] r \in {"move", "swing"} -> HandleAction(h)
    [] OTHER -> h

\* Whether the map is published again: not after a refusal, and an item given or
\* a turn proposed is no news of the fight.
Publishes(h, r) ==
  /\ MayRunTheTable(h)
  /\ r \in {"begin", "next", "end", "fight", "enlist", "terrain", "move", "swing"}
  /\ r = "next" => h.up \in Machine \cup {NoOne}

HandleBusy(h, on) == [h EXCEPT !.busy = on]

\* Mutant of HandleChat: the host lets a line through whatever the switch says.
ChatUnasked(h) == [h EXCEPT !.spoken = @ + 1]

\* Off, the agent's line is refused; on, everybody hears it.
HandleChat(h) == IF h.auto THEN [h EXCEPT !.spoken = @ + 1] ELSE h

HostHears ==
  /\ toHost # <<>> /\ host.member
  /\ Len(toAgent) < MaxFrames
  /\ toHost' = Tail(toHost)
  /\ LET f == Head(toHost) IN
       /\ host' = CASE f.t = "ask" -> Handled(host, f.what)
                    [] f.t = "busy" -> HandleBusy(host, f.on)
                    [] f.t = "chat" -> HandleChat(host)
                    [] f.t = "trouble" -> host
       /\ toAgent' = IF f.t = "ask" /\ Publishes(host, f.what) /\ agent.in
                     THEN Append(toAgent, Fight(host')) ELSE toAgent
  /\ UNCHANGED <<app, agent, mind, asked, spent>>

\* The machine's clock.  A model that is thinking is given longer, and the host
\* takes its word for that.
Thinking == host.member /\ host.busy

NobodyAnswered ==
  /\ host.clock /\ ~Thinking
  /\ spent.turns < MaxTurns /\ Len(toAgent) < MaxFrames
  /\ spent' = [spent EXCEPT !.turns = @ + 1]
  /\ host' = RunTurn(host, "next")
  /\ toAgent' = IF agent.in THEN Append(toAgent, Fight(host')) ELSE toAgent
  /\ UNCHANGED <<app, agent, mind, toHost, asked>>

-----------------------------------------------------------------------------
(* The people at the table.                                                *)

\* The DM begins, passes or ends a turn from the panel.
DmTurn(action) ==
  /\ Len(toAgent) < MaxFrames
  /\ spent.turns < MaxTurns
  /\ spent' = [spent EXCEPT !.turns = @ + 1]
  /\ host' = RunTurn(host, action)
  /\ toAgent' = IF agent.in THEN Append(toAgent, Fight(host')) ELSE toAgent
  /\ UNCHANGED <<app, agent, mind, toHost, asked>>

\* Somebody changes the map, and everybody is sent the fight again.
Redraw ==
  /\ agent.in /\ Len(toAgent) < MaxFrames
  /\ spent.upsets < MaxUpsets
  /\ spent' = [spent EXCEPT !.upsets = @ + 1]
  /\ toAgent' = Append(toAgent, Fight(host))
  /\ UNCHANGED <<host, app, agent, mind, toHost, asked>>

\* A line reaches the agent whether or not it may answer.
TableTalks(l) ==
  /\ agent.in /\ l \notin spent.lines /\ Len(toAgent) < MaxFrames
  /\ spent' = [spent EXCEPT !.lines = @ \cup {l}]
  /\ toAgent' = Append(toAgent, Says(l))
  /\ UNCHANGED <<host, app, agent, mind, toHost, asked>>

-----------------------------------------------------------------------------
(* The Autopilot button and the process behind it.                         *)

SetAutopilot(on) ==
  /\ host' = [host EXCEPT !.auto = on]
  /\ toAgent' = IF agent.in /\ host.auto # on THEN Append(toAgent, Switch(on)) ELSE toAgent

\* What is left when the process is gone: what it has sent may still be read, and
\* its session stays with the host, until the broken socket is noticed.
AgentStops == /\ agent' = NoAgent /\ mind' = Blank /\ toAgent' = <<>>
           /\ asked' = [i \in Item |-> 0]
           /\ UNCHANGED toHost

\* An agent at the table, or one of ours that is still connecting, is enough.
EnsureAgentRunning ==
  IF host.member \/ (app.kept /\ agent.alive)
  THEN UNCHANGED <<app, agent>>
  ELSE /\ ~agent.alive
       /\ app' = [kept |-> TRUE, watch |-> TRUE]
       /\ agent' = [NoAgent EXCEPT !.alive = TRUE, !.ours = TRUE]

ToggleOn ==
  /\ ~host.auto /\ spent.flips < MaxFlips /\ Len(toAgent) < MaxFrames
  /\ spent' = [spent EXCEPT !.flips = @ + 1]
  /\ EnsureAgentRunning
  /\ SetAutopilot(TRUE)
  /\ UNCHANGED <<mind, toHost, asked>>

\* Only an agent the app started is the app's to stop.
ToggleOff ==
  /\ host.auto /\ spent.flips < MaxFlips /\ Len(toAgent) < MaxFrames
  /\ spent' = [spent EXCEPT !.flips = @ + 1]
  /\ app' = [kept |-> FALSE, watch |-> FALSE]
  /\ IF app.kept /\ agent.alive /\ agent.ours
     THEN /\ host' = [host EXCEPT !.auto = FALSE]
          /\ AgentStops
     ELSE /\ SetAutopilot(FALSE)
          /\ UNCHANGED <<agent, mind, toHost, asked>>

\* Every second or so: our agent has stopped, and a table is waiting on nothing.
CheckAgent ==
  /\ app.watch /\ app.kept /\ ~(agent.alive /\ agent.ours)
  /\ Len(toAgent) < MaxFrames
  /\ app' = [kept |-> FALSE, watch |-> FALSE]
  /\ SetAutopilot(FALSE)
  /\ UNCHANGED <<agent, mind, toHost, asked, spent>>

\* Somebody runs canonkeeper-agent by hand.
StartedByHand ==
  /\ ~agent.alive /\ spent.upsets < MaxUpsets
  /\ spent' = [spent EXCEPT !.upsets = @ + 1]
  /\ agent' = [NoAgent EXCEPT !.alive = TRUE]
  /\ UNCHANGED <<host, app, mind, toHost, toAgent, asked>>

\* The process ends by itself: no model, a key that expired, Ctrl-C.
Dies ==
  /\ agent.alive /\ spent.upsets < MaxUpsets
  /\ spent' = [spent EXCEPT !.upsets = @ + 1]
  /\ AgentStops
  /\ UNCHANGED <<host, app>>

\* The handshake.  The fight is sent before the switch is.
Admit ==
  /\ agent.alive /\ ~agent.in /\ ~host.member
  /\ agent' = [agent EXCEPT !.in = TRUE]
  /\ host' = [host EXCEPT !.member = TRUE, !.busy = FALSE]
  /\ toAgent' = <<Fight(host), Switch(host.auto)>>
  /\ UNCHANGED <<app, mind, toHost, asked, spent>>

\* The host notices that the agent's socket is gone, and clears "is writing".
OnDisconnected ==
  /\ host.member /\ ~agent.in
  /\ host' = [host EXCEPT !.member = FALSE, !.busy = FALSE]
  /\ toHost' = <<>>
  /\ UNCHANGED <<app, agent, mind, toAgent, asked, spent>>

-----------------------------------------------------------------------------
(* The Responder: its handlers take the agent's state to the agent's state. *)

Fresh(m) == CHOOSE s \in Task : /\ m.tasks[s].st = "free"
                                /\ \A r \in Task : m.tasks[r].st = "free" => s <= r

HasRoom(m) == \E s \in Task : m.tasks[s].st = "free"

\* A task that is over: cancelling it later does nothing.
Ended(m, s) == [m EXCEPT !.tasks[s] = FreeSlot,
                         !.timer = IF @ = s THEN NoTask ELSE @,
                         !.monster = IF @ = s THEN NoTask ELSE @]

\* Task.cancel.  A sleeping task just ends.  One that awaits the model stops
\* awaiting it and runs its `finally`; the thread goes on.
Cancelled(m, s) ==
  IF s = NoTask THEN m
  ELSE IF m.tasks[s].st = "asleep" THEN Ended(m, s)
  ELSE [m EXCEPT !.tasks[s].st = "cut", !.answering = FALSE,
                 !.dropped = @ \/ m.pending # <<>>]

\* Mutant of CancelSends: a cancelled answer never says it has stopped writing.
CancelMute(m, s) == <<>>

\* The frames that cancelling a task sends.
CancelSends(m, s) == IF s # NoTask /\ m.tasks[s].st = "asking" THEN <<Busy(FALSE)>> ELSE <<>>

RestartTimer(m) ==
  LET c == Cancelled(m, m.timer) IN
    [c EXCEPT !.timer = Fresh(c), !.dropped = FALSE,
              !.tasks[Fresh(c)] = [FreeSlot EXCEPT !.st = "asleep"]]

Heard(m, l) == IF m.auto THEN RestartTimer([m EXCEPT !.pending = Append(@, l)]) ELSE m

\* Mutant of TakesIt: a map redrawn is taken for a new turn.
TakesItAgain(m) == m.auto /\ m.up \in Machine

\* It is ours to take, and not already in hand.
TakesIt(m) == m.auto /\ m.up \in Machine /\ m.mine # m.up

TurnCameRound(m) ==
  IF TakesIt(m)
  THEN LET c == Cancelled(m, m.monster) IN
         [c EXCEPT !.mine = m.up, !.monster = Fresh(c),
                   !.tasks[Fresh(c)] = [FreeSlot EXCEPT !.st = "asleep", !.kind = "pause",
                                                        !.about = m.up]]
  ELSE IF ~m.auto /\ m.up \in Machine THEN [m EXCEPT !.unseen = @ \cup {m.no}]
  ELSE IF m.auto /\ m.up \notin Machine THEN [m EXCEPT !.mine = NoOne]
  ELSE m

\* The session's Table takes the frame in and then calls the Responder.
Dispatch(m, f) ==
  CASE f.t = "auto" -> [m EXCEPT !.auto = f.on]
    [] f.t = "fight" -> TurnCameRound([m EXCEPT !.up = f.up, !.no = f.no])
    [] f.t = "said" -> Heard(m, f.line)

AgentHears ==
  /\ toAgent # <<>> /\ HasRoom(mind)
  /\ toAgent' = Tail(toAgent)
  /\ LET f == Head(toAgent) IN
       /\ mind' = Dispatch(mind, f)
       /\ toHost' = IF f.t = "fight" /\ TakesIt([mind EXCEPT !.up = f.up])
                    THEN toHost \o CancelSends(mind, mind.monster) ELSE toHost
  /\ UNCHANGED <<host, app, agent, asked, spent>>

\* Takes what is pending; with nothing pending, or autopilot off by now, that is
\* all it does.
TakeATurn(m, s) ==
  LET n == [m EXCEPT !.pending = <<>>, !.timer = NoTask] IN
    IF m.pending = <<>> \/ ~m.auto THEN Ended(n, s)
    ELSE [n EXCEPT !.tasks[s].st = "asking", !.tasks[s].call = "model", !.answering = TRUE]

Wakes(s, m) ==
  /\ mind' = TakeATurn(m, s)
  /\ LET on == mind'.tasks[s].st = "asking" IN
       /\ toHost' = IF on THEN Append(toHost, Busy(TRUE)) ELSE toHost
       /\ asked' = IF on THEN [i \in Item |-> asked[i] + Cardinality({k \in 1..Len(m.pending) :
                                                                       m.pending[k] = i})]
                   ELSE asked

Lull(s) == mind.tasks[s].st = "asleep" /\ mind.tasks[s].kind = "lull"
Pause(s) == mind.tasks[s].st = "asleep" /\ mind.tasks[s].kind = "pause"

AfterTheLull(s) ==
  /\ Lull(s)
  /\ IF mind.answering THEN mind' = Ended(mind, s) /\ UNCHANGED <<toHost, asked>>
     ELSE Wakes(s, mind)
  /\ UNCHANGED <<host, app, agent, toAgent, spent>>

\* Asked again after four seconds, and then nobody asks whether an answer is
\* already being written.
AfterThePause(s) ==
  /\ Pause(s)
  /\ IF mind.auto /\ mind.up = mind.tasks[s].about
     THEN Wakes(s, [mind EXCEPT !.pending = Append(@, mind.no)])
     ELSE mind' = Ended(mind, s) /\ UNCHANGED <<toHost, asked>>
  /\ UNCHANGED <<host, app, agent, toAgent, spent>>

-----------------------------------------------------------------------------
(* The model's thread.                                                     *)

\* What each tool sends before each time it waits for the host's word.
Script(tool) ==
  CASE tool = "start_combat" -> <<<<"fight">>, <<"enlist", "begin">>>>
    [] tool = "next_turn" -> <<<<"next">>>>
    [] tool = "end_combat" -> <<<<"end">>>>
    [] tool = "move_on_map" -> <<<<"move">>>>
    [] tool = "set_obstacle" -> <<<<"terrain">>>>
    [] tool = "attack" -> <<<<"swing">>>>
    [] tool = "simulate_character" -> <<<<"simulate">>>>
    [] tool \in {"give_item", "propose_turn"} -> <<<<IF tool = "give_item" THEN "give" ELSE "propose">>>>
    [] tool = "look_at_the_map" -> <<>>

Sends(batch) == [k \in 1..Len(batch) |-> Asks(batch[k])]
TurnsOf(tool) == IF tool \in {"start_combat", "next_turn"} THEN 1 ELSE 0
Waits(tool) == tool \notin {"give_item", "propose_turn", "look_at_the_map"}

\* Ends the round: the model reads what the tool says and goes on.
NextRound(t) == [t EXCEPT !.call = "model", !.left = <<>>, !.rounds = @ + 1]

SendBatch(s, script, waits) ==
  LET batch == Head(script) IN
    /\ toHost' = toHost \o Sends(batch)
    /\ mind' = [mind EXCEPT !.tasks[s] =
                  IF waits THEN [@ EXCEPT !.call = "tool", !.left = Tail(script)] ELSE NextRound(@)]

\* Tools.run looks at the switch once, before it begins.
UseTool(s, tool) ==
  /\ mind.tasks[s].call = "model" /\ mind.tasks[s].rounds < MaxRounds
  /\ Len(toHost) < MaxFrames
  /\ spent.turns + TurnsOf(tool) <= MaxTurns
  /\ spent' = [spent EXCEPT !.turns = @ + TurnsOf(tool)]
  /\ IF mind.auto /\ Script(tool) # <<>> THEN SendBatch(s, Script(tool), Waits(tool))
     ELSE mind' = [mind EXCEPT !.tasks[s] = NextRound(@)] /\ UNCHANGED toHost
  /\ UNCHANGED <<host, app, agent, toAgent, asked>>

\* The fight arrived, or two seconds passed.
ToolGoesOn(s) ==
  /\ mind.tasks[s].call = "tool"
  /\ IF mind.tasks[s].left # <<>> THEN SendBatch(s, mind.tasks[s].left, TRUE)
     ELSE mind' = [mind EXCEPT !.tasks[s] = NextRound(@)] /\ UNCHANGED toHost
  /\ UNCHANGED <<host, app, agent, toAgent, asked, spent>>

\* A thread nobody awaits any more returns to nobody.
Unawaited(s) ==
  /\ mind.tasks[s].st = "cut" /\ mind.tasks[s].call = "model"
  /\ mind' = [mind EXCEPT !.tasks[s] = FreeSlot]
  /\ UNCHANGED <<host, app, agent, toHost, toAgent, asked, spent>>

\* Mutant of Answered: nobody looks at what was said meanwhile.
AnsweredOnly(m, s) == Ended([m EXCEPT !.answering = FALSE], s)

\* `finally` comes first; a reply is said if autopilot is still on as far as the
\* agent knows; and what was said meanwhile gets a pause of its own.
Answered(m, s) ==
  LET n == Ended([m EXCEPT !.answering = FALSE], s)
  IN  IF n.pending # <<>> THEN RestartTimer(n) ELSE n

Replies(s, aloud) ==
  /\ mind.tasks[s].st = "asking" /\ mind.tasks[s].call = "model"
  /\ mind' = Answered(mind, s)
  /\ toHost' = toHost \o (IF aloud /\ mind.auto THEN <<Busy(FALSE), Chat>> ELSE <<Busy(FALSE)>>)
  /\ UNCHANGED <<host, app, agent, toAgent, asked, spent>>

\* The model call raised: the DM is told, and what is pending stays as it is.
Failed(m, s) == [Ended([m EXCEPT !.answering = FALSE], s)
                   EXCEPT !.dropped = @ \/ m.pending # <<>>]

Fails(s) ==
  /\ mind.tasks[s].st = "asking" /\ mind.tasks[s].call = "model"
  /\ mind' = Failed(mind, s)
  /\ toHost' = toHost \o <<Trouble, Busy(FALSE)>>
  /\ UNCHANGED <<host, app, agent, toAgent, asked, spent>>

Thread(s) == \/ \E tool \in Offered : UseTool(s, tool)
             \/ ToolGoesOn(s)
             \/ Unawaited(s)
             \/ \E aloud \in BOOLEAN : Replies(s, aloud)
             \/ Fails(s)

Timers == \E s \in Task : AfterTheLull(s) \/ AfterThePause(s)

People == \/ \E action \in {"begin", "next", "end"} : DmTurn(action)
          \/ Redraw
          \/ \E l \in Line : TableTalks(l)
          \/ ToggleOn \/ ToggleOff \/ StartedByHand \/ Dies

Host == HostHears \/ NobodyAnswered \/ OnDisconnected \/ Admit \/ CheckAgent

Init == /\ \E c \in FirstUp :
             host = [auto |-> FALSE, up |-> c, no |-> 0, clock |-> FALSE,
                   member |-> FALSE, busy |-> FALSE, spoken |-> 0]
        /\ app = [kept |-> FALSE, watch |-> FALSE]
        /\ agent = NoAgent /\ mind = Blank
        /\ toHost = <<>> /\ toAgent = <<>>
        /\ asked = [i \in Item |-> 0]
        /\ spent = [turns |-> 0, flips |-> 0, upsets |-> 0, lines |-> {}]

Next == People \/ Host \/ AgentHears \/ Timers \/ \E s \in Task : Thread(s)

Spec == Init /\ [][Next]_vars

-----------------------------------------------------------------------------
(* Fairness.  Qt's and asyncio's loops run what is ready, timers fire, an API *)
(* call returns or raises; nothing is assumed of the people at the table.     *)

Fairness == /\ WF_vars(Host)
            /\ WF_vars(AgentHears)
            /\ WF_vars(Timers)
            /\ WF_vars(\E s \in Task : Thread(s))

FairSpec == Spec /\ Fairness

-----------------------------------------------------------------------------
(* Properties.                                                             *)

\* Off means off: however late an answer comes, and whatever its tools had
\* begun, the table hears nothing of the agent and no turn moves because of it.
OffMeansOff ==
  [][~host.auto /\ (host'.up # host.up \/ host'.spoken # host.spoken)
       => toHost' = toHost]_vars

\* "Autopilot is writing..." is never left standing: while the host shows it, an
\* answer is being written, or its end is on the way, or the agent is gone and
\* the broken socket is still to be noticed.
WritingEnds ==
  host.busy => \/ mind.answering
               \/ ~agent.in
               \/ \E k \in 1..Len(toHost) : toHost[k] = Busy(FALSE)

\* No line, and no turn, is put to a model twice, whatever overlaps: a burst is
\* one answer, and a map redrawn during a monster's turn is not a second turn,
\* if the agent was looking when that turn came round.  (Without that condition
\* it is not so: a pause whose turn has passed on may sleep until a later turn of
\* the same monster, one that came round while autopilot was off.)
AskedOnce == \A i \in Item : asked[i] <= 1 \/ i \in mind.unseen

\* A line the agent has taken in is answered, or dropped with autopilot off, or
\* left behind by an answer that failed or was cancelled.
LinesAreTakenUp ==
  \A l \in Line : (\E k \in 1..Len(mind.pending) : mind.pending[k] = l)
                    ~> (mind.dropped \/ ~\E k \in 1..Len(mind.pending) : mind.pending[k] = l)

=============================================================================
