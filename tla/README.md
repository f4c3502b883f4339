# Canon Keeper: a verification of the table

Canon Keeper is a Dungeon Master's desktop application. One process holds the campaign in
an SQLite file, runs the game server, and shows the DM their panels; players' applications,
stand-in players and an agent that can answer for the DM connect to it over a websocket.
This directory models the parts of it in which several of them act on the same state, or in
which a long run of legal steps could come to an illegal one: a fight, a turn put to its
player, a character's sheet, what a player has been shown of the campaign, getting into a
session, and the machines that play for somebody.

Everything here is translated from the Python source. Paths such as `encounters.py:390` are
below `src/canon_keeper/` unless they say otherwise; `PROJECT.json` gives, for every
definition, the lines it stands for.

* `Initiative`, `TurnOrder`, `TurnHistory`, `Reactions` – the order of the turns and what
  follows from it.
* `Referee` – the host passing the turn, its clock, and death saves.
* `Walk` – the map of a fight: routes, occupied squares, opportunity attacks.
* `Offers` – a turn proposed to its player, bent by the DM, and taken, answered or withdrawn.
* `Seats` – a character handed over: its seat, the process that sits there, and its turns.
* `DmAgent` – the agent that answers for the DM: its queue, timers, tasks and threads, and the
  button that starts and stops it.
* `Doors` – logins, invites, enrolment, reconnection.
* `Sync` – what a player is told of the campaign, across shares, deletions and reconnections;
  `Shelf` – what they are promised, which `Sync` implements.
* `Sheets` – a character's sheet written by the DM, by the fight and at its player's request;
  `OneSheet` – what both are promised of it, which `Sheets` implements.
* `Rules`, `SheetTab` – what is derived from a sheet, what is legal on one, and a blow; the wizard
  that makes a character and the tab that edits it.

Theorems and their proofs are apart from the models: `TurnOrderProofs` (the order of the turns and
the referee), `WalkProofs`, `OffersProofs`, `MachinesProofs` (stand-ins and the DM's agent),
`DoorsProofs`, `SyncProofs` and `SheetsProofs` (sheets, the rules, the wizard and the tab). `Least`
holds the lemmas they share. Every property that a run checks is a theorem too, but for the four
that say something happens in the end.

Run from this directory:

    tlc -workers 2 -config MC_Referee.cfg MC_Referee.tla
    tlapm TurnOrderProofs.tla

## 1. Inventory

### 1.1 How the system runs

The host (`net/server.py`, class `SessionServer`) lives in the Qt thread of the DM's application. A
frame, a timer, a button and a panel's write are all callbacks of that one event loop, and nothing
in a handler gives it up, so **a handler is atomic**: what interleaves is handlers. The other
processes are the players' applications (a Qt loop each), a stand-in for each character handed over
and at most one DM agent (an asyncio loop each, the agent with a thread per answer it is writing);
they share nothing but frames. State is in three places with different lives: the campaign file
(survives anything), the `SessionServer` object (one per evening; `start` to `stop`), and a
`_Session` per connection. Every repository method is one transaction on a connection nobody else
writes. Panels call the repositories directly, without the host; then they emit a signal the host
may or may not be listening to. That is the one source of interference between components, and each
module below has the panel's writes among its actions.

### 1.2 Components

**Order of the turns** (`repo/encounters.py`, `db/migrations/007`). *State*: an encounter's
`running`, `round`, `turn_combatant_id`, `moved_squares`, `action_used`, and its combatants
with `initiative` and `tiebreak`. *Operations*: create, add, remove, clear, begin, advance,
end, set_running, set_initiative, spend_movement, use_action; foreign keys that delete a
combatant and clear the marker with its creature. *Interaction*: called by the host
(`run_turn`, `_advance_turn`) and directly by the Combat panel. *Hard*: the marker is an id,
never an index, and the order under it is edited in the middle of a round. *Correct when*:
the marker is on somebody in the fight; the order only goes down within a round; every turn
starts unspent; nobody acts twice or is left out of a round.

**Reactions** (`encounters.py`, `server.py:_opportunity_attacks`, migration 012). *State*:
`reaction_round` of each combatant. *Hard*: it is compared with a number that goes back.
*Correct when*: one reaction each a round.

**Referee** (`server.py`, `rules/death.py`). *State*: the fight's marker and whether it has
begun; death saves; `_waiting_on` with the turn clock; `_owed_by`; proposals; who is
connected, simulated, seated; the agent's busy flag. *Operations*: TURN, DONE, DEATH_SAVE,
CHAT, the clock, PROPOSE/ACTED, MOVE, SWING, SIMULATE, connections, the panel's Start and End.
*Interaction*: advances the order; asks players and stand-ins; told by the map who fell.
*Hard*: the loop that walks over the dying, rolling for those nobody plays; a clock that is
stopped by a proposal or by talk; a question owed on a turn that has since passed; the panel
writing behind its back; restarting between the question and the answer. *Correct when*:
whoever lies dying with the turn has been asked or rolled for; nobody dying is stepped over
without a save; only the dying roll; a machine's turn does not hold the table.

**The map of a fight** (`server.py:_do_move`, `_opportunity_attacks`, `_fell_on_the_way`,
`encounters.py:place, toggle_obstacle, set_down`, `canon_keeper_protocol/grid.py`,
`rules/attack.py`). *State*: squares, bodies, rocks, movement spent, reactions. *Hard*: a walk
is swung at before it is known whether it arrives, and its walker can be felled half way;
bodies hold no square and get up. *Correct when*: nobody comes to stand in somebody or in a
rock; what a turn covers is paid for; leaving a reach is answered.

**Publication to players** (`server.py:publish_entity, _admit, _send_snapshot`,
`net/projection.py, client.py, state.py, cache.py`, `repo/entities.py, shares.py`). *State*:
rows with a version, shares, owners; per connection the visible set and the versions sent;
frames on their way; the player's copy and its cache file. *Hard*: a player is away while
things are shared, taken back and deleted, and reports the versions in their cache when they
return. *Correct when*: on arrival a player holds exactly what they may know exists, and the
host knows which version they hold.

**Character sheets and requests** (`server.py:_handle_edit, decide, refuse_conflicting`,
`repo/proposals.py`, `panels/characters/*`). *State*: the character with a version and hit
points in two places, requests, two forms with unsaved text. *Hard*: a whole form comes back
and is compared with a sheet that has moved on; a request is decided long after. *Correct
when*: one open request; none survives a save of the DM's; nothing changes behind the
player's back; a request holds only what was asked for.

**Logins, enrolment and invites** (`repo/accounts.py, invites.py`, `net/client.py`,
`panels/table/dialogs.py`, `canon_keeper_protocol/auth.py, enrol.py`, `server.py:_handle_hello,
_handle_login, _handle_enrol`). *State*: accounts and invites; who owns which character; per
connection how far it has got, how many attempts it has made, and the login it is in as; per
client whether it wants in, its code and its retry timer. *Operations*: HELLO, LOGIN, ENROL;
inviting, moving and removing a login in the Players dialog; join, leave, reconnect; the host
started and stopped, its 200 ms and 20 s timers. *Hard*: a login may change hands between the
challenge and the answer to it, or under somebody sitting at the table; both ends learn of a
break in their own time. *Correct when*: whoever is in holds the login as it is now; a code never
makes a second player for a character; whoever knocks is answered; the ends agree.

**Turns proposed, bent and taken** (`server.py:_handle_propose, _offer, _handle_acted,
_carry_out, _handle_allow, take_turn`, `panels/table/widget.py`,
`panels/encounter/player_widget.py, grid.py`). *State*: one proposal per character; the requests
to bend a rule; the DM's wheel; the player's box, its buttons, their map. *Hard*: checked when it
is proposed and carried out when it is accepted; a second proposal crosses the answer to the
first; the wheel is opened for one creature and answers for whichever is picked. *Correct when*:
the app holds a turn exactly as long as it is to be had; a turn is a walk up to the speed and one
blow, through whichever door it is taken.

**Stand-ins** (`stand_ins.py`, `canon_keeper_player_agent`, `server.py:mint_seat, revoke_seat`).
*State*: live tokens, the processes counted as playing, their connections, and in each process the
fight as it last heard of it and the turn it last acted on. *Hard*: a seat is revoked at once and
its connection closed 200 ms later; a process pauses three seconds over a turn and then acts on
what it heard before; it may crash, start late, or not at all. *Correct when*: a turn is one blow
whoever had a hand in it; one that is gone is missed by the next turn; a turn handed over passes.

**DM agent** (`canon_keeper_dm_agent`, `agent_runner.py`, the Autopilot button of
`panels/table/widget.py`). *State*: lines waiting to be answered, two timers, the answer in
flight, the monster last taken a turn for; its process, and the DM's watchdog on it. *Hard*: an
asyncio task cancelled by the frame its own tool brought about; a switch turned off between a line
and its answer. *Correct when*: nothing is put to the model twice; off means off; "is writing"
ends; every line is taken up.

**Rules, the wizard and the sheet tab** (`rules/attack.py, derive.py, validation.py, sheet.py`,
`panels/characters/wizard.py, sheet_tab.py`). Derived numbers, legality and a blow are functions of
a sheet; the wizard and the tab are what changes one. *Hard*: boxes that depend on each other
touched in any order, pages gone back to. *Correct when*: no order of touches leaves the tab unable
to save; a character leaves the wizard with what its own class allows; a die decides as the bonus
and the armour say. `rules/death.py` is in `Referee`.

**Headless client session** (`canon_keeper_client/session.py`): sitting down and dispatching
frames, in `Seats` and `DmAgent`, which are its two users here.

**Not modelled**: chat and asides beyond what a line sets off (append-only), discovery and the
public funnel (a beacon and a subprocess), facts, sessions and the transcript (append-only
records, speech recognition), painting, layout and the shell, migrations and the campaign list,
the loading of the bundled content, templates and the MCP server (data, and requests of the
headless session handed on).

### 1.3 What is hard to test here

`PROJECT.json` lists every hazard at its line with the property that would catch it. They are
of five sorts: *orders of handlers nobody wrote a test for* (a proposal accepted after the
mover was struck down; a save owed on a turn that has passed); *records that outlive what they
are about* (a marker, a reaction round, a version in a cache, an id that is given out again);
*a check made in one place and used in another* (a form compared with a version it was not
loaded from; a walk swung at before it is refused); *clocks that stop and are not started
again*; and *loops that must end somewhere sensible* (`_advance_turn` over the dying). Three of them
go wrong as the code stands, so no property says they do not: an enrolment whose answer is lost, a
monster's turn that comes round while the agent is logging in, and a pause that sleeps into a later
turn of its monster (section 7).

## 2. Plan

| | module | status | composes | properties |
|-|-|-|-|-|
| 1 | `Initiative`, `TurnOrder` | checked, proved | | marker, order, unspent turns |
| 2 | `TurnHistory`, `Reactions` | checked, proved | `TurnOrder` | once a round each |
| 3 | `Referee` | checked, proved | `Initiative` | saves asked or rolled, nobody stepped over, machine turns pass |
| 4 | `Sync`, `Shelf` | checked, proved | | a player holds what they may see; `Sync` implements `Shelf` |
| 5 | `Sheets`, `OneSheet` | checked, proved | | requests and the sheet they are against; `Sheets` implements `OneSheet` |
| 6 | `Walk` | checked, proved | | squares, movement, opportunity attacks |
| 7 | `Doors` | checked, proved | | the holder sits, seats handed over, knocks answered, ends agree |
| 8 | `DmAgent` | checked, proved | host, panel, agent and its threads | nothing asked twice, off means off, lines taken up |
| 9 | `Offers` | checked, proved | host, player's app, DM's map | held while offered, one turn's worth |
| 10 | `Seats` | checked, proved | host, stand-in processes | one blow, missed by the next turn, turns pass |
| 11 | `Rules`, `SheetTab` | checked, proved | `SheetTab` extends `Rules` | the tab saves, the wizard's choices, blows |

Abstract specifications. Two are stated, checked and proved. *The shelf* (`Shelf`): a connected player
knows the version of everything shared with them or theirs from the moment it changes, with no wire,
no cache and nobody remembering what was sent. *One sheet* (`OneSheet`): player and DM have one sheet
before them and one wish about it at most, granted once as it was made or come to nothing, with no
versions, no forms and no earlier requests. A third would be worth stating: *the round* – a set of
combatants each of whom acts once, of which `TurnHistory` is the detailed account (its history
variables are the mapping).

Every safety and action property the runs check is proved (section 5). Worth proving next is that
`TurnHistory` implements the round. Recursion (`RouteBetween`'s search, `Referee`'s loop over the
dying) is written as a function over a bounded domain, so that the modules stay within the prover's
reach: the loop is proved step by step, and of a route what is proved is what holds of any way
round; that it is a shortest one is left to TLC.

A run belongs to a module and checks everything the project says of it; `Referee` has two, since its
liveness needs a smaller table. Types are a matter of the proofs (`TurnOrder` and `Sync` have theirs
checked, too); what a run says of the state is said by a property that relates two parts of it.
Earlier versions of this project had runs that only reproduced a disagreement between the code and
its documents; they made room for components, and section 7 keeps what they showed.

## 3. The modules

### Initiative, TurnOrder

`sort_key` sorts by a total key, so the order is a relation `Before` on ids and `NextUp` is the
walk `advance` makes. `TurnOrder`'s variables are the columns of the encounter and the
combatants' scores; `resting` (who takes no turn) stands for the answer of `rules/death.py`,
which changes by `Falls` and `Rises`. One action per method of `EncounterRepo` that touches any
of these: `Begin`, `PassTurn` (advance as `_advance_turn` calls it), `End`, `SetRunning`,
`SpendMovement`, `UseAction`, `Add`, `Remove`, `Clear`, `SetInitiative`, and `CreatureDeleted`,
which is no method at all but the foreign keys of migration 007. `HandTo` is the one place a
turn is handed over. SQLite gives a row the id after the largest in the table, so ids come
back, and `Add` may reuse one.

### TurnHistory, Reactions

Both add variables that only watch. `TurnHistory` counts turns; `stayed` are those who were in
the fight and on their feet since the round began, and `excuses` what has happened that the
promise cannot survive: an initiative typed in, nobody left to hand the turn to, the creature
whose turn it was deleted. Without an excuse a round is a round. `Reactions` adds
`reaction_round` and one action, `React`.

### Referee

`table` is what the host knows of one fight: its marker, everybody's life (`down`, and saves
made and failed), `waiting` (the clock is running for them) and `owed` (a save has been asked
of them). Handlers compute on the table and can fall out several ways, so the helpers
(`Walk`, `OweASaveIfDying`, `RollAndMoveOn`, `CarryOut`) return *sets of tables*, one for every
way the dice can fall; an action picks one. `Walk` is the loop of `_advance_turn`: `Passes` has,
for each number of passes up to one more than there are combatants, where the loop can have come to,
a pass being the turn handed on and a halt on nobody, on somebody awake, or on somebody who can be
asked. The DM, players, stand-ins and the agent may send any
frame the handlers accept at any time; the panel writes `begin` and `end` directly. `HostRestart`
loses what only the `SessionServer` held. Who is in the fight does not change here.

### Walk

`square`, `down`, `rocks`, `begun`, `moved`, `reacted` (whose `reaction_round` is this round or
later) are the columns; `from`, where this turn's walking began, only watches. `RouteBetween` is
`route_between`: the straight way if it is clear, otherwise *any* shortest way round (`Ways`; A*
finds one; which depends on the heap, so it is left open). `Fellers` are those whose swing may be the
one that leaves the walker with nothing, and so says where the walk ends. `Walk` is `_do_move` with
`spending`, by all three that call it: in turn (`_handle_move`), whoever's turn it is (`take_turn`, a
turn accepted late) and past the speed, when the DM has waived the rules (`_carry_out` of a turn that
is bending does not ask `_too_far`): that is swung at and charged like any other. `MaxMoved` bounds how
far such a walk goes. `Put` is everything that sets a token down by `place` and nothing else: the DM's
drag and drop, a token brought on, `_handle_allow`. `Enlist` is `add`, which is asked nothing: the square
may be taken, a rock or (`Beyond`) past the edge. `HandOver` lets any set of them have reacted, since the
number of the round goes back when a fight is started over; `Reactions` says which.

### Sync

One player, since the host treats each connection alone. `Publish` is `publish_entity`: an
entity, a notice that it is gone, or nothing, and the visible set and version remembered.
`Snapshot` is `snapshot_since` against the versions the cache reports. `Receive` reads a frame
into the copy, which is written to the cache after every frame. `SetOwner` changes whose an
entity is without telling anybody, as `set_owner` does.

`Shelf` is the same seen by somebody who does not look at the wire. Its `known` is the version
the player will hold when everything in flight has been read (`VersionHeld`), and 0 of what they
will not hold; `mine` is whose characters the session was opened with. A frame read is a stutter;
leaving is the one step at which what was on its way is lost, so what a player goes away with is
left open there.

### Sheets

One character. `Applied` is every write the host makes by itself: `TakeDamage` and `HealTo` write
both places of the hit points, `Give` an item that no request speaks of; `DMSavesSheet` and `Approve` write
the sheet; `DMSavesStory` the summary. `HandleEdit` compares the version *sent* with the row's,
then keeps as a request whatever differs. A story tab being typed in keeps a form from being
loaded again, in the DM's application and the player's; so typing there is a step of its own and
typing on the sheet is not.

`OneSheet` is the same seen by somebody who looks at neither screens nor frames. Its `seen` is what the
player will hold when everything in flight has been read, its `wishes` what is open of the requests. A
frame read, a form typed in and an item given are stutters; an edit sent against an old version is one
too, as nothing comes of it but the sheet again. What the DM saves with no table open leaves a wish
standing there as well, since the code does.

### Offers

One character with a player and one monster, in a corridor. `offers` is `_proposed`, `bend` the
request on the DM's bar, `waiting` the clock, `wheel` what the DM's map is waiting to be pointed
at; `held`, `bar`, `frozen` and `done` are what the player's window shows, a wire away. The four
doors to a turn are actions of their own: `HearActed` (`CarryOut`, the proposal accepted),
`HearMapTurn` (the player's own map), `AgentMoves` and `AgentSwings`, and `DmClicks` (the wheel).
`budget` only watches: squares and blows of this turn within the rules; what the DM waived, and
what somebody does on another's turn, for which the code spends nothing, is not counted in it.
The wire of the player's app is not lost here (`Doors` loses it). Of several parked bends only
the one on the bar can be answered, so only that one is kept.

### Seats

A token, the process started with it and its connection share a slot. `Look` is `StandIns.look`
after every publication: it mints, starts, stops and revokes; `HandOver` (the player's button)
mints a seat of its own first, `DmHandsOver` (the DM's) does not. A process goes `starting`,
`reading`, `pausing`: `Reads` is a frame up to the pause, `Speaks` what it says after it, from the
fight as it heard of it before. `Closed` and `Closes` are the two halves of a seat taken back.
Turn numbers are told apart six at a time, and `_acted_on` is forgotten when the turn it names can no
longer be heard of. A stand-in's next turn does not come before what it said of its last was heard:
its pause is three seconds. Autopilot is off.

### DmAgent

Five actors: people, the host, the DM's window (`app`: the process it keeps, its watchdog), the
agent's event loop (`mind`) and its threads. Each asyncio task has a slot; what lies between two
awaits that really wait is one step, so a task may be cancelled at its pause and at the await of its
thread, and the thread goes on. A `Script` is what a model may ask the tools for, in any order. Two
pauses (2.5 s and 4 s) and the waits for the host's word end at any later moment. One agent at a
time.

### Doors

A person has a password of their own; `Proof` is a password under a salt, so the login that has
changed hands under a challenge refuses a proof made for it before. `host[s]` is the host's end of a
connection and outlives the client's, and the other way about: each learns of the other's goodbye
when it is read, and `Break` puts one in both directions. `OnDisconnected` is the one place
where a client decides to try again. `orphan` marks a connection whose login was removed from under
it (section 7).

### Rules, SheetTab

`Rules` holds a sheet as a record and the rulebook as constants, and from them every number the tab
shows (`Summary`), what the validator objects to (`Problems`) and what a blow can do (`Hits`,
`Damage`). `SheetTab` adds the wizard's pages and the tab's boxes: one touch is one action with
every signal it sets off, down to `_refresh`. Six abilities, but scores, levels and hit points from
small sets; backgrounds, tools, languages, limits on how long a list may be and checks of malformed
types are left out, since neither screen can produce them.

## 4. What the runs check

Every property of a run has a mutant: a plausible bug, written beside the definition it would be a
bug in (`RemoveClosingTheGap`, `PassedOnce`, `PublishForgetting`, `LeavesLate`, `LeftSitting`...),
with which TLC finds that property violated.

| run | what it shows | bounds |
|-|-|-|
| `turn_order` | the marker, the order under it, unspent turns, one reaction a round | 3 rows, each rolled or unrolled; rounds to 3; 1 square of movement: 900,000 states |
| `turn_history` | nobody acts twice, nobody is skipped, in a round nothing excuses | 3 rows, two totals or unrolled; rounds to 2: 1.4 million |
| `referee` | saves asked or rolled; the walk reaches somebody awake; the dying are not stepped over; only the dying roll | a played character, an unplayed one and a monster; two saves either way; the host may restart: 520,000 |
| `referee_machine` | a machine's turn passes | a monster and a character; fairness below: 40,000 |
| `walk` | squares, ground paid for, leaving is answered | 3 combatants, two against one; only the one armed; 3×2 squares and one past the edge; speed 1, bent walks to 2; one rock: 570,000 |
| `offers` | the app holds what is on offer; a turn is one turn's worth | corridor of 3, speed 1, two plans, 2 requests, a frame each way: 480,000 |
| `seats` | one blow; missed by the next turn; turns handed over pass | 3 slots, 3 presses, 1 crash, 1 failed start, 2 frames: 180,000 |
| `dm_agent` | asked once; off means off; "writing" ends; lines are taken up | two monsters and a character, 1 line, 2 turns, 2 presses, 1 upset, 1 round of tools: 740,000 |
| `doors` | the holder sits; seats are handed over; the ends agree; knocks are answered | 2 people with a name each, 1 character, 2 codes, 2 connections, 2 attempts, 1 fault, 1 change by the DM, 2 wishes: 280,000 |
| `sync` | on arrival they hold exactly what they may see; the host knows the version; `Sync` implements `Shelf` | 2 ids, 2 texts, 2 versions, 2 frames in flight: 330,000 |
| `sheets` | one open request; none survives a save; nothing behind their back; `Sheets` implements `OneSheet` | fields of two values, 3 versions, 2 requests, 2 frames: 930,000 |
| `sheet_tab` | the tab can always save; the wizard's choices are legal; blows are fair | 3 classes, 2 species, 3 spells, 2 sample sheets, 3 touches; skills, armour classes and weapons to try: 91,000 |

Why these bounds are enough to meet the cases. Three combatants are the least with one between two
others, so that a removal can close a gap, a walk can pass over somebody, and two can want the
square of a third. Two rounds are the least in which a count can be carried over wrongly, three in
which the number can go back and come up again. Two saves are the least at which one save does not
decide, and a natural one (two failures) does. A map of 3×2 with a rock in the middle has squares in
reach and out of it, and a way round; with one more square past the edge, somebody can be enlisted
there, strike from there, and fell a walker half way. Two frames in flight let a second overtake what was remembered
of the first; two ids show that what happens to one leaves the other, and let an id be given out
again; three versions of a character are one to load, one behind and one ahead. Two requests are the
least with one that crosses the answer to another. Three presses hand a character over, take it back
and hand it over again, with a slot each for the one that sits, the one being shown out and the one
starting. Two people are the least with one to take a character over from the other, two codes with
one to replace the other, and two wishes with one person who tries again. Two turns are the least
with a monster's after a monster's, which is when an answer in flight is cancelled. Three touches
put a box between two it depends on. No symmetry is used: ids are numbers that are compared, or the
people differ.

Deadlock is checked in every run but two: in `doors` and `dm_agent` the bounds on what people do run
out, and with nobody at the door, or the agent idle, nothing remains that must happen.

**Fairness.** Nothing is ever assumed of players, the DM or a person at the door: they may never
act. What is assumed is that event loops run what is ready and that timers fire. `referee_machine`:
`WF_tableVars(Timeout)` in `FairTableSpec`, which leaves out the host being restarted; the turn
clock is a single-shot `QTimer` of the host's loop. While an agent says it is composing the clock is
started over (`_nobody_answered`), so the property supposes that it stops saying so for good; an
agent that dies while busy is one that never does, and then the turn waits forever. `seats`: each
stand-in reads and speaks, the host hears each, and a connection being closed closes (the 200 ms
timer); that a process crashes or cannot be started is never owed. `doors`: per connection the
host's loop with its two timers, per person the client's loop with its retry timer. `dm_agent`: the
host, the agent's loop, its timers, and that some thread of those waiting on the model's service
goes on, since a call to it returns or raises.

## 5. What is proved

For every set of people, ids and squares, every score, every content of the rulebook, every bound
(TLAPS; SMT, Zenon and LS4).

| module | theorem | states |
|-|-|-|
| `TurnOrderProofs` | `TypeCorrect` | `Spec => []TypeOK` |
|  | `HolderInTheFight` | `Spec => []TurnHolderIsInTheFight` |
|  | `NothingIsInherited` | `Spec => NothingInherited`, of steps |
|  | `TheTurnGoesDown` | `Spec => TurnGoesDownTheOrder`, of steps |
|  | `MarkerDivides` | `HSpec => []MarkerDividesTheRound` |
|  | `OnceARound` | `HSpec => []NobodyActsTwice` |
|  | `NobodyLeftOut` | `HSpec => NobodyIsSkipped`, of steps |
|  | `ReactionsAreWritten` | `RSpec => []SpentIsWritten` |
|  | `OneReaction` | `RSpec => OneReactionARound`, of steps |
|  | `TableHolds` | `TableSpec => []TableInv` |
|  | `OnlyTheDyingAreRolledFor` | `TableSpec => OnlyTheDyingRoll`, of steps |
|  | `TheDyingAreAskedOrRolledFor` | `TableSpec => AskedOrRolled`, of steps |
|  | `TheLoopIsLongEnough` | `TableSpec => WalkReachesSomebodyAwake`, of steps |
|  | `TheDyingAreNotSteppedOver` | `TableSpec => DyingNotSteppedOver`, of steps |
| `WalkProofs` | `SquaresStayUnshared` | `Spec => SquaresAreNotShared`, of steps |
|  | `WalkHolds` | `Spec => []WalkInv` |
|  | `TheGroundIsPaidFor` | `Spec => []GroundIsPaidFor` |
|  | `NobodySlipsAway` | `Spec => LeavingIsAnswered`, of steps |
| `OffersProofs` | `OffersHold` | `Spec => []OffersInv` |
|  | `ATurnsWorth` | `Spec => []OneTurnsWorth` |
|  | `WordOfATurnArrives` | `Spec => []HeldWhileOffered` |
| `MachinesProofs` | `ATurnIsOneBlow` | `SeatsSpec => []OneBlow` |
|  | `TheDeadAreMissed` | `SeatsSpec => MissedByTheNextTurn`, of steps |
|  | `AgentHolds` | `Spec => []AgentInv` |
|  | `TheWritingEnds` | `Spec => []WritingEnds` |
|  | `NothingIsAskedTwice` | `Spec => []AskedOnce` |
|  | `OffIsOff` | `Spec => OffMeansOff`, of steps |
| `DoorsProofs` | `DoorsHold` | `Spec => []DoorsInv` |
|  | `TheSeatIsTheHolders` | `Spec => []OnlyTheHolderSits` |
|  | `BothEndsKnow` | `Spec => []EndsAgree` |
|  | `NoSecondSeat` | `Spec => SeatIsHandedOver`, of steps |
| `SyncProofs` | `SyncTypeCorrect` | `Spec => []TypeOK` |
|  | `HoldingIsSeeing` | `Spec => []TheyHoldWhatTheyMaySee` |
|  | `SentIsHeld` | `Spec => []SentIsWhatTheyHold` |
|  | `SyncImplementsShelf` | `Spec => KeepsThePromise`: `Sync` implements `Shelf` |
| `SheetsProofs` | `SheetsTypeCorrect` | `Spec => []TypeOK` |
|  | `OneRequestOpen` | `Spec => []OneOpenRequest` |
|  | `OpenSinceSaved` | `Spec => []OpenSinceTheLastSave` |
|  | `NothingBehindThem` | `Spec => []NothingBehindTheirBack` |
|  | `SheetsImplementOneSheet` | `Spec => ThereIsOneSheet`: `Sheets` implements `OneSheet` |
|  | `TabHolds` | `TabSpec => []TabInv` |
|  | `TheTabRefusesOnlyRolls` | `TabSpec => []OnlyRollsAreRefused` |
|  | `TheWizardChoosesAsTheClassAllows` | `TabSpec => []ChosenAsTheClassAllows` |
|  | `BlowsStayFair` | `TabSpec => []BlowsAreFair` |

**Assumptions.** Each is a named ASSUME of the module that declares the constants, and TLC evaluates
it in the run of that module. `CombatantAssumption`: ids are positive integers and `NoOne` is none
of them. `ScoreAssumption`: scores are integers with a largest value (a column has one), which is
what makes "the first in the order" exist; no finiteness is assumed in `TurnOrder`.
`RefereeAssumption`: the fight is finite and not empty, which is what the loop of `_advance_turn`
counts, and nobody but player characters has an owner. `WalkAssumption`: a speed and ids are
numbers, a map has at most 60 squares a side (`MAX_SIZE`), which is half of what `steps_between`
counts to, and `Beyond` is past its edges; nothing is said of how many there are. `OffersAssumption`: the corridor has
two squares, hero and monster are two. `SeatsAssumption`: six turn numbers or more are told apart,
every other one the character's. `AgentAssumption`: there is somebody in the order, and lines are
not numbers. `DoorsAssumption`: `Nobody` is no value of anything else, and logins and codes are
numbered from one, as SQLite numbers them. `SyncAssumption` and `RefusedAssumption` say as much of
`Nothing` and `Refused`. `RulesAssumption`: a species adds numbers, a class's skills are skills, a
spell has a level, and a weapon a number of dice and of sides, which may be none. `SheetTabAssumption`: the
campaign's sheets were saved legal, and the boxes go no further than the rules do. The rest
(`BoundAssumption`, `SheetsAssumption`) say that bounds are numbers.

### The argument, module by module

*Least.* The library's induction theorems take an operator, which no installed prover can instantiate.
What takes their place is that a non-empty set measured by natural numbers has a least member, from
the library's well-foundedness of strict inclusion: a proof by least counterexample. From it come
`StepInduction` and `StepByStep`, the two forms the others cite: a function whose value at `n + 1` is
given by that at `n` has a property at every `n` if it has it at 0 and each step keeps it. The other
lemmas say what becomes of a queue that is put on at one end or taken off at the other.

*TurnOrderProofs, the order.* `Before` is a strict total order and every non-empty set has a first, by
the well-ordering of keys bounded above; from that what `First`, `After` and `NextUp` return.
`TurnHolderIsInTheFight` is inductive together with the type invariant. The two action properties need
no more, with one lemma on what `AdvanceClock` does in each of its five cases.

*The round.* `NobodyActsTwice` is not inductive: a state with the marker at the bottom and an unacted
combatant above it satisfies it, and the next step breaks it. The strengthening is
`MarkerDividesTheRound`: in a round with no excuse the turn is somebody's, everybody who has had one is
at or above the marker, and everybody who stayed and is at or above it has had one. A step within a
round moves the marker to the next standing combatant below, who therefore has had none; the step that
ends a round goes off the bottom, so everybody who stayed was above the marker.

*Reactions.* `OneReactionARound` is the consequence of `SpentIsWritten`: whoever has reacted this round
has this very round on their row, so `reaction_round < round` refuses them, though the number goes back
to 1 when the fight is started over; it is inductive because whoever changes the round also empties the
record of who has reacted in it.

*The referee.* Of a state `TableInv` is enough: the table is of its type, and a fight that has not begun
is nobody's turn. What is hard is the loop over the dying inside one step. `Ways` says where it can have
come to after `k` passes. While it goes on, lives have only worn, the turn is somebody's who was down
and whose save was rolled, nobody dying was stepped over, and the turn has come nearer to anybody who is
up: fewer than `TableSize - k` are still between (`GoingRound` is the lemma on going round an order). So
`TableSize + 1` passes cannot all find somebody down while anybody stands, which is
`WalkReachesSomebodyAwake`. When it has halted, it has halted on nobody, or on somebody asked, raised,
awake, or at the top of a fight just begun. `WalkInduction` carries `Ways` over the passes. Every handler
is then shown to come out `Rightly`, in whatever order it strikes, rolls and passes, and `Orderly`
collects what every step of the table keeps; the four theorems are read off it.

*WalkProofs.* `SquaresAreNotShared` is of steps, and needs of a state only that everybody is somewhere;
so it holds of any map, any number of combatants and whatever way a walk takes. Walking, falling and
putting down are one lemma, `PlacedInPeace`: all of them end in `place`. `GroundIsPaidFor` is inductive
with the types and with `StaysOnTheMap`: a route begins where one stands, ends where one is bound and
takes a step at a time (`IsRoute`, proved of the straight way and of any way the search can find), so it
is no shorter than the distance, and distances add up. That fails of a straight way of more than 120
squares, whose steps are not counted further; between two squares of a map there is none
(`NothingIsFar`), but somebody enlisted past the edge may be that far. How long a walk may be is not
used, so a bent one is covered like any other. `LeavingIsAnswered`: on a route from in reach to out of
it there is a last square in reach; and a way that was cut ends 120 squares away, out of anybody's reach
(`LeftBehind`).

*OffersProofs.* `OneTurnsWorth` rests on `SpentCovers`: what the database has spent covers what this turn
has done, through each of the four doors (not the other way about, as a bend spends an action and is
not counted). `HeldWhileOffered` needs what is on the wire: `OffersReach` says that what is on offer is
the last that was put to anybody, read or not, and was not taken back; `ShowingIsOffered` that what is
shown or about to be is on offer or taken back after; `IdsAreFresh` that an id is handed out once. The
proof goes by what a handler appends to the wire: nothing about turns (`Quiet`), one put, or one taken back.

*MachinesProofs, stand-ins.* `OneBlow` rests on `BlowsSpend`: a blow that was struck has spent the
action, and whoever strikes is asked on the host whether it is spent. `MissedByTheNextTurn` is of the
step that moves the turn, which ends in a publication, hence in `look`: what a look leaves behind is
one lemma, `LookStaffs`.

*The DM's agent.* `AgentInv` has a part for each thing its tasks take for granted. `Tended`: there is one
lull and one pause they have hold of. `Writing`: when nothing is being answered, word that writing has
stopped comes after every word that it has started. `Stream`: the fight the agent has heard of, those on
their way, and the host's follow each other in that order. `TurnsOnce`: a turn that came round while the
agent was looking is in hand as long as it lasts. `LinesOnce`: a line is in one place: on its way,
pending, or with a model. `unseen`, a variable that only watches, has the turns that came round while
autopilot was off, of which `TurnsOnce` says nothing; the proof without it fails, and what it fails on
is a run of the code (the pause that oversleeps, section 7).

*DoorsProofs.* `OnlyTheHolderSits` is inductive with the types: a proof is compared with the login
as it is when it arrives, and a login taken over shows out whoever sits in it in the same step.
`EndsAgree` needs `Wire` and `Sits`: whoever has let go of a connection has a goodbye on its way to
the other end, and whoever is in at one end is in at the other or is being told. `SeatIsHandedOver`
is by the one place that takes a code.

*SyncProofs.* What a player will hold of an entity is the last frame on the wire that speaks of
it, or what their copy has when none does. Two lemmas say how that changes: a frame put at the
end decides its own entity and no other, and a frame read at the front decides nothing. With them
`TheyHoldWhatTheyMaySee` and `SentIsWhatTheyHold` are inductive together with what the code takes
for granted: the visible set a session keeps is what is shared now together with what was theirs
when it was opened, and a closed session has nothing in flight. The refinement needs no more than
that invariant: each action of `Sync` is shown to be one of `Shelf` or a stutter, the initial state
to be initial.

*SheetsProofs, requests.* The invariant falls in two halves, what the player holds and what they
have asked. `NothingBehindTheirBack` alone is not inductive: a player who holds the host's version
with other text would be sent nothing when they connect. `EverythingTells` excludes that: nothing
the player holds or is being sent has a version the host has not had, and of the host's version it
is the host's text. That holds because every write takes a new version and is of both places at
once, and it is what fails for ids that are given out again (section 7), of which a character that
is never deleted is free. `OpenSinceTheLastSave` rests on `saved` being no later than the
character's version. For the refinement one more is needed: what is open was made against a version
there has been (`WishesAreOfThePast`), so a save of the DM's refuses it. Then each action is one of
`OneSheet` or a stutter, by what becomes of the wish (`AnsweredWish`, `RefusedWishes`, `WishMade`)
and of what the player sees (`ShownToThem`).

*The wizard and the tab.* `TabInv` is what each page may count on (`WizardInv`: the skills ticked
are the class's, and so on to the last page, where it is `ChosenAsTheClassAllows`), and that the
sheet that is open is legal but for its hit dice, as it was loaded and as the boxes have it
(`SheetsAreLegal`): a save gathers the boxes, so both are needed. The boxes are followed signal by
signal down to `_refresh`, each of which leaves the others `Alike`. Of the folds of the community
modules (`SumFunction`) all that is needed is that a new sheet's improvements add up to nothing.
`BlowsAreFair` counts faces: those that hit are an interval of 1..20 (`HowManyHit`).

## 6. Only model-checked, and not modelled

Only model-checked: liveness (`MachineTurnsPass`, `TheirTurnPasses`, `LinesAreTakenUp`,
`WhoeverKnocksIsAnswered`), which is beyond the prover, as is anything about ENABLED. What a definition
computes for every input, where that is by recursion or a fold, is checked by TLC on the runs' inputs
only: that `RouteBetween` finds a shortest way, and the derived numbers of `Rules` (a maximum of hit
points, an armour class, the slots of a level). The provers know nothing of `SelectSeq`, and the library's
induction theorems cannot be instantiated.

Left out of the models on purpose.

* *Of a fight*: weapons and their reach beyond the neighbouring square (a blow is in `Rules`, whether
  it is allowed in `Walk` and `Offers`); creatures changing side; the map being resized.
* *Of turns*: the way round and who lies dying in `Offers`; where a stand-in walks and whom it
  strikes in `Seats` (`decide` is a choice there); time: a timer fires at any later moment.
* *Of the agent*: what it is told and what it answers; two agents at once; an agent that connects
  again by itself, which it does not.
* *Of getting in*: nonces and the sealing of an enrolment (who can open what is kept), the DM's own
  token, errors a client only shows, attempts beyond the third.
* *Of what players see*: which fields of an entity they may read, and a place's contents.
* *Of a sheet*: see `Rules` above; in `Sheets`, whether a sheet is legal.

## 7. Where code and documents disagree

No run reproduces these: each was met while translating the code, or by a check made and then put
aside, and each says what the models do about it.

**Shown by a counterexample.**

* *A save without a clock.* ARCHITECTURE.md:603 says the turn clock is the backstop for a save that
  is owed. A word in the chat from whoever owes it (server.py:1126), or a turn proposed for them,
  stops the clock, and nothing starts it again. (`Referee` has it so; `AskedOrRolled` is of the
  moment the turn comes.)
* *The dead get up.* README.md:422 says three failures and they are gone. A save owed is not
  forgotten when blows kill whoever owes it; when the clock runs out it is rolled without asking
  whether they are dying (server.py:3077), and a natural twenty raises the dead. (`OnlyTheDyingRoll`
  excuses the clock.)
* *A refused walk is swung at.* A square somebody stands in is "refused outright"
  (server.py:2287–2289); but everybody the walk leaves has swung by then (server.py:1923).
* *The same version.* "A wrong version costs at most a resend" (projection.py:201); but ids are given
  out again, and a version of the new row that equals the old one's is taken to be held.
* *Only what was asked.* A request is to hold "what they are actually asking to change, and nothing
  else" (server.py:1347); but a form filled in before the frame on its way arrives is compared,
  whole, with a sheet it was not loaded from (server.py:1322).
* *A code spent unheard.* The host makes the login and then says so; if the answer is lost the client
  offers the spent code at every reconnection and is refused each time (`_on_enrolled` is the only
  place it is dropped). The person has a login and must be told to use it.
  (`WhoeverKnocksIsAnswered` is of people with a login of their own for this reason.)
* *A monster's turn waits.* CHANGELOG.md:461 says autopilot takes the monsters' turns; an agent that
  logs in during one is sent the fight first and the switch after it
  (server.py:975), so `turn_came_round` finds autopilot off, and nothing tells it again.
* *A pause that oversleeps.* "A map redrawn twice does not become two turns" (responder.py:87); but a
  pause asleep when its monster's turn is passed on by hand wakes in the next turn of that monster
  (responder.py:116), and if that one came round while autopilot was off nothing is noted as in hand,
  so the next map redrawn puts the turn to the model a second time. It takes two turn passes of one
  monster and two presses within the four seconds. (`AskedOnce` excuses turns that came round unseen.)

**Order.** ARCHITECTURE.md:586 says the turn steps over the resting; `remove` (encounters.py:402)
advances without being told who rests, and `begin` hands the turn to the top of the order,
resting or not. ARCHITECTURE.md:360-363 says the order survives somebody leaving; when a
creature is *deleted* the foreign key clears the marker and the next turn goes to the top of the
same round (`CreatureDeleted`; the excuse "deleted" of `TurnHistory`). Migration 012 says the
reaction round answers "without anybody having to tidy up afterwards"; that nobody reacts twice is
so (`OneReactionARound`), but neither `begin` nor `end` touches it, so a fight ended in round 3 and
started over has whoever reacted then without a reaction until round 4. `begin` marks its fight
running without stopping another.

**Saves.** The panel's Start begins a fight without asking whoever is first, and dying, for a save
(server.py:2784 says the first turn asks). `_handle_done` passes the turn of somebody dying
without it (server.py:2808). A turn accepted for somebody already fallen still swings
(server.py:1978 against `_carry_out`); a save that is owed can be rolled by somebody healed in
the meantime, when the clock runs out. The turn passes once for a mover felled on the way, and
the rest of their accepted turn is still carried out.

**The map.** Getting up where one lay asks nobody who stands there now (`_heal_to`, `set_down`):
that is one way two come to share a square. Being enlisted is the other: `_handle_enlist` hands the
message's x and y to `add`, and so does a fight set up from a template (server.py:1738–1746,
encounters.py:371–376); neither asks who stands there, whether there is a rock, or whether the map goes
so far, although `place` has its check "because the agent will eventually send these too, and a rule
enforced in one of two callers is not a rule" (encounters.py:411–414). `SquaresAreNotShared` is stated
of steps that move somebody who is in the fight for that reason. Somebody enlisted more than 120 squares
past the edge walks in for 120 (grid.py:66). A bent walk is charged past the speed
(server.py:3203–3207); what is charged within the rules is held to the speed in `Offers`
(`OneTurnsWorth`), not here. Swings are made in initiative order, so one may be made for
a step beyond the one at which the walker has fallen. Somebody down who is moved by the DM on
their turn is carried the whole way, and the turn passes. Off the map and on again is free.

**Turns proposed and taken.** `_nobody_answered` clears `_waiting_on` before it calls
`_stop_the_clock`, so the player is never told that it is no longer waiting for them. An offer
accepted after its turn has passed is carried out, out of turn, and spends nothing. The host lets
the agent move a player's character and strike with it directly (server.py:2129–2137 against
ARCHITECTURE.md:466, 814). A second request to bend overwrites the DM's bar and the first stays
parked for good. The comment on bending says the reach is not looked at again; `_swing` looks. A
blow the DM allowed spends the action even if its target has gone. An offer, and word that it has
gone, that are lost with a connection are not sent again; an answer pressed while disconnected
clears the box and is lost. The DM's map sends the plan for whatever is selected when it is
clicked, not for whom the wheel was opened. A stand-in's
`on_action` says an offer for anybody else's character is "refused rather than ignored"
(play.py:178), and returns without a word.

**Stand-ins.** Handing over a character twice mints a seat that takes away the token of the one
sitting there, while `look` still counts its process: until the next change nobody starts another,
which is what `_reap` says it is for (`MissedByTheNextTurn` says how long it can last). A DONE in
flight when a character is taken back ends its owner's own turn; `_handle_done` compares only the
account, so it may be that of another character of theirs. Autopilot switched off during a
stand-in's pause, or an agent that stops with it on, leaves it waiting for a turn nobody proposes.
A fight begun again in the same breath has round 1 and the same ids again, and a stand-in that
lived through it would take its first turn for one it has had. A token stays live when its process
has exited and the DM's own panel takes the character back (server.py:2550).

**The DM agent.** Two answers can be in flight at once (responder.py:15 says one). Its own
`next_turn` brings round another monster and cancels the task that waits for the model, so what it
says is never said. An answer that fails leaves its lines pending with no timer (responder.py:160)
until somebody speaks; `LinesAreTakenUp` excuses that. Busy is switched off by the first of two answers.
The host tells it of a bend by SYSTEM frames that `AgentSession._dispatch` ignores
(server.py:2705–2709). `wait_for_the_fight` takes any ENCOUNTER for its own. Autopilot off and
quickly on again starts nothing. README.md:638 says the agent's queued reply is dropped if the DM
answers first; nothing looks at who spoke. An agent started elsewhere that leaves, leaves
autopilot on.

**Getting in.** A login removed in the Players dialog while its player sits at the table goes from
the table of logins and not from the table (dialogs.py:450); `OnlyTheHolderSits` excuses it by
name. After a login that failed, a retry on the same connection is challenged with the salt of no
account, and fails with the right password.

**Sheets.** "Hit points live in two places ... so both move together" (server.py:3333);
`SheetTab.save` and `decide` write the sheet's and leave `data["hp"]`, which the fight reads. A
character built by the wizard has no `data["hp"]` until something writes it, and `_take_damage`
returns early. A new request takes the place of an open one of another kind: a story edit drops a
sheet request. `decide` does not compare the base version, nor look again at whether the sheet is
legal (server.py:3604); only `refuse_conflicting` does the first, and only while hosting, so what
the DM saves with no session up leaves older requests open. The DM's sheet tab is not reloaded
while the story tab is being typed in, and then saves the sheet as it was. A player's story form
sends the inventory, notes and hit points too, and `_collect_request` looks at the sheet and the
summary only: those edits are dropped without a word. Nothing but tests calls
`apply_player_edit` (projection.py:231). On a player's tab, gear and spells are edited in the very
dict `SharedState` holds
(player_widget.py:307 says it is "always what was actually accepted").

**The wizard and the tab.** Learning or forgetting a spell ticks the prepared ones again as they were
loaded, and drops what was not saved. Going back and choosing a class that does not cast leaves the
first class's spells on the sheet (`ChosenAsTheClassAllows` speaks of casters). `_allowed` counts
instruments as skills, so a bard must tick six. Of two suits of armour the last carried is worn, and a
shield counts whether it is equipped or not. derive.py says a constitution penalty never takes a
level below one hit point; only the total is bounded. A hurt character is healed by winding its
level down to its hit points and up again. Hit dice rolled at levels since taken away make the tab
refuse to save, and have no box (`OnlyRollsAreRefused`).

**Publication.** `set_owner` publishes nothing and `publish_all` has no caller: a player learns
of an owned character at their next connection. Sharing a place does not resend what is in it.

**Blows.** A blowgun's damage is "1" in the bundled Equipment.json, which is no dice to `roll`
(dice.py wants a `d`): a hit with one raises `DiceError` out of `_swing` (server.py:3293), after the
roll to hit. Nobody is hurt, no action is spent, the walk made before it is not published, and nobody
is asked whether they are done. In the model it is a weapon of no dice, whose hit has no outcome.

**Elsewhere.** cities/widget.py:328 says places inside a deleted place are deleted too; the foreign
key sets their parent to NULL. A monster whose turn comes again with nobody between is not answered
a second time.
