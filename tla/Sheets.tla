------------------------------- MODULE Sheets -------------------------------
(***************************************************************************)
(* A character's sheet as the DM writes it, as a fight writes it, and as   *)
(* its player asks for it to be changed: forms on two screens, requests    *)
(* the DM decides, and hit points kept in two places.                      *)
(*                                                                         *)
(* Models SessionServer._handle_edit, decide, refuse_conflicting,          *)
(* publish_entity, _take_damage and _heal_to (net/server.py), the requests *)
(* of repo/proposals.py, the DM's two forms (panels/characters/widget.py,  *)
(* sheet_tab.py) and the player's (player_widget.py, sheet_tab.py).        *)
(*                                                                         *)
(* One character and its player, who may see it throughout and has it in   *)
(* their cache.  What a form holds unsaved is gone when the form is loaded *)
(* again, so typing on a sheet and saving it is one step; typing in a      *)
(* story tab is a step of its own, for it keeps both tabs from being       *)
(* loaded.  A player's frame is handled when it is sent: the host's frames *)
(* being late says the same.  Whether a sheet is legal is left out: the    *)
(* form and the host ask the same validator.                               *)
(***************************************************************************)
EXTENDS Integers, Sequences

CONSTANTS
  Refused,      \* the frame that says no
  Most,         \* bound: a field is one of 0 .. Most
  MaxVersion,   \* bound: versions of the character
  MaxRequests,  \* bound: requests ever made
  MaxWire       \* bound: frames on their way to the player

ASSUME SheetsAssumption ==
  {Most, MaxVersion, MaxRequests, MaxWire} \subseteq Nat \ {0}

VARIABLES
  character,  \* the row of table entity
  requests,   \* pending_change, oldest first
  hosting,    \* the DM's application is running a session
  sent,       \* _Session.sent of it; 0 when the player is not connected
  wire,       \* frames sent to them and not yet read
  copy,       \* what their SharedState and cache hold
  form,       \* their Characters panel
  dm,         \* the DM's
  saved       \* the version the DM last saved during a session, or 0

vars == <<character, requests, hosting, sent, wire, copy, form, dm, saved>>

SheetField == {"hp_current", "level"}
Field      == SheetField \cup {"summary"}
Value      == 0 .. Most
Version    == 1 .. MaxVersion
Sheet      == [SheetField -> Value]
Changes    == UNION {[S -> Value] : S \in SUBSET Field}

Character ==
  [version : Version,
   hp      : Value,               \* data["hp"]
   text    : [Field -> Value]]    \* data["sheet"], and the summary

Request == [open : BOOLEAN, changes : Changes, base : Version]

(* A form's sheet tab, and whether its story tab has been typed in.        *)
Form == [sheet : Sheet, dirty : BOOLEAN]

ASSUME RefusedAssumption == Refused \notin Character

TypeOK ==
  /\ character \in Character
  /\ requests \in Seq(Request) /\ Len(requests) <= MaxRequests
  /\ hosting \in BOOLEAN
  /\ sent \in 0 .. MaxVersion /\ (sent # 0 => hosting)
  /\ wire \in Seq(Character \cup {Refused})
  /\ copy \in Character
  /\ form \in Form /\ dm \in Form
  /\ saved \in 0 .. MaxVersion

Connected == sent # 0

(* data.update, and a form's fields over the rest.                         *)
LaidOver(changes, text) ==
  [f \in Field |-> IF f \in DOMAIN changes THEN changes[f] ELSE text[f]]

SheetOf(c) == [f \in SheetField |-> c.text[f]]

(* PlayerCharacterWidget._load                                             *)
Loaded(c) == [sheet |-> SheetOf(c), dirty |-> FALSE]

Whole == [version |-> 1, hp |-> Most, text |-> [f \in Field |-> Most]]

Init ==
  /\ character = Whole
  /\ requests = <<>>
  /\ hosting = FALSE /\ sent = 0
  /\ wire = <<>>
  /\ copy = Whole
  /\ form = Loaded(Whole)
  /\ dm = [sheet |-> SheetOf(Whole), dirty |-> FALSE]
  /\ saved = 0

-----------------------------------------------------------------------------
(* The host                                                                *)

Room(n) == Len(wire) + n <= MaxWire

(* publish_entity, of the character after the change, behind other frames  *)
Publish(frames) ==
  IF Connected
  THEN /\ wire' = wire \o frames \o <<character'>>
       /\ sent' = character'.version
  ELSE UNCHANGED <<wire, sent>>

Written(hp, text) ==
  /\ character.version < MaxVersion
  /\ character' = [version |-> character.version + 1, hp |-> hp, text |-> text]

(* _on_entity_changed_elsewhere: a form the DM is typing in is left alone. *)
PanelReloads ==
  dm' = IF dm.dirty THEN dm ELSE [dm EXCEPT !.sheet = SheetOf(character')]

(* The host writes the character and tells everybody; entity_applied has   *)
(* the DM's panel read it again.                                           *)
Applied(hp, text) ==
  /\ hosting /\ Room(1)
  /\ Written(hp, text)
  /\ Publish(<<>>)
  /\ PanelReloads
  /\ UNCHANGED <<requests, hosting, copy, form, saved>>

(* Both places at once                                                     *)
HitPoints(hp) == Applied(hp, [character.text EXCEPT !["hp_current"] = hp])

(* give: a line of the inventory, which nobody's request can ask for.      *)
Give == Applied(character.hp, character.text)

(* _take_damage and _heal_to                                               *)
TakeDamage(after) ==
  /\ IF character.hp = 0 THEN after = 0 ELSE after < character.hp
  /\ HitPoints(after)

HealTo(hp) == character.hp = 0 /\ hp > 0 /\ HitPoints(hp)

(* A bug: requests made against the older sheet stay open. *)
KeepConflicting(version) == UNCHANGED requests

(* refuse_conflicting                                                      *)
RefuseConflicting(version) ==
  requests' = [i \in DOMAIN requests |->
                 IF requests[i].base # version
                 THEN [requests[i] EXCEPT !.open = FALSE] ELSE requests[i]]

(* _on_share_changed of a save in the DM's panel; only while hosting.      *)
DMSaved ==
  IF hosting
  THEN /\ RefuseConflicting(character'.version)
       /\ Publish(<<>>)
       /\ saved' = character'.version
  ELSE UNCHANGED <<requests, wire, sent, saved>>

(* SheetTab.save: the whole sheet as the form has it.                      *)
DMSavesSheet(f, value) ==
  LET sheet == [dm.sheet EXCEPT ![f] = value]
  IN /\ Room(1)
     /\ dm.sheet[f] # value
     /\ Written(character.hp, LaidOver(sheet, character.text))
     /\ dm' = [dm EXCEPT !.sheet = sheet]
     /\ DMSaved
     /\ UNCHANGED <<hosting, copy, form>>

DMTypesStory ==
  /\ ~dm.dirty
  /\ dm' = [dm EXCEPT !.dirty = TRUE]
  /\ UNCHANGED <<character, requests, hosting, sent, wire, copy, form, saved>>

(* save_current                                                            *)
DMSavesStory(value) ==
  /\ dm.dirty /\ Room(1)
  /\ Written(character.hp, [character.text EXCEPT !["summary"] = value])
  /\ dm' = [sheet |-> SheetOf(character'), dirty |-> FALSE]
  /\ DMSaved
  /\ UNCHANGED <<hosting, copy, form>>

(* set_owner, from an enrolment or the Players dialog: nothing is told.    *)
SetOwner ==
  /\ Written(character.hp, character.text)
  /\ UNCHANGED <<requests, hosting, sent, wire, copy, form, dm, saved>>

(* A bug: what is approved is written and not sent. *)
ApproveQuietly(i) ==
  /\ hosting /\ Room(1)
  /\ requests[i].open
  /\ Written(character.hp, LaidOver(requests[i].changes, character.text))
  /\ requests' = [requests EXCEPT ![i].open = FALSE]
  /\ PanelReloads
  /\ UNCHANGED <<hosting, sent, wire, copy, form, saved>>

(* A bug: what has been granted can be granted again. *)
ApproveForGood(i) ==
  /\ hosting /\ Room(1)
  /\ requests[i].open
  /\ Written(character.hp, LaidOver(requests[i].changes, character.text))
  /\ Publish(<<>>)
  /\ PanelReloads
  /\ UNCHANGED <<requests, hosting, copy, form, saved>>

(* decide: what was asked for is laid over the character as it is now.     *)
Approve(i) ==
  /\ hosting /\ Room(1)
  /\ requests[i].open
  /\ Written(character.hp, LaidOver(requests[i].changes, character.text))
  /\ requests' = [requests EXCEPT ![i].open = FALSE]
  /\ Publish(<<>>)
  /\ PanelReloads
  /\ UNCHANGED <<hosting, copy, form, saved>>

Reject(i) ==
  /\ hosting /\ Room(2)
  /\ requests[i].open
  /\ requests' = [requests EXCEPT ![i].open = FALSE]
  /\ UNCHANGED character
  /\ Publish(<<Refused>>)
  /\ UNCHANGED <<hosting, copy, form, dm, saved>>

(* start, and stop                                                         *)
HostUp ==
  /\ hosting' = ~hosting
  /\ sent' = 0 /\ wire' = <<>>
  /\ UNCHANGED <<character, requests, copy, form, dm, saved>>

(* _admit: the character is in the snapshot unless they hold its version.  *)
Connect ==
  /\ hosting /\ ~Connected
  /\ sent' = character.version
  /\ wire' = IF copy.version = character.version THEN <<>> ELSE <<character>>
  /\ UNCHANGED <<character, requests, hosting, copy, form, dm, saved>>

Disconnect ==
  /\ Connected
  /\ sent' = 0 /\ wire' = <<>>
  /\ UNCHANGED <<character, requests, hosting, copy, form, dm, saved>>

-----------------------------------------------------------------------------
(* Asking                                                                  *)

(* _collect_request: where what they sent and what there is differ.        *)
Wanted(asked) ==
  [f \in {g \in DOMAIN asked : asked[g] # character.text[g]} |-> asked[f]]

(* A bug: the new request does not take the place of the last. *)
ProposeAnother(changes) ==
  Append(requests, [open |-> TRUE, changes |-> changes, base |-> sent])

(* ProposalRepo.propose                                                    *)
Propose(changes) ==
  Append([i \in DOMAIN requests |-> [requests[i] EXCEPT !.open = FALSE]],
         [open |-> TRUE, changes |-> changes, base |-> sent])

(* _handle_edit                                                            *)
HandleEdit(asked) ==
  /\ Connected /\ Room(1)
  /\ UNCHANGED <<character, hosting, copy, dm, saved>>
  /\ IF sent # character.version
     THEN Publish(<<>>) /\ UNCHANGED requests
     ELSE /\ UNCHANGED <<wire, sent>>
          /\ IF DOMAIN Wanted(asked) = {} THEN UNCHANGED requests
             ELSE /\ Len(requests) < MaxRequests
                  /\ requests' = Propose(Wanted(asked))

(* SheetTab.save on a player's screen: the whole form goes to the host.    *)
SendSheet(f, value) ==
  /\ form.sheet[f] # value
  /\ form' = [form EXCEPT !.sheet[f] = value]
  /\ HandleEdit(form'.sheet)

TypeStory ==
  /\ ~form.dirty
  /\ form' = [form EXCEPT !.dirty = TRUE]
  /\ UNCHANGED <<character, requests, hosting, sent, wire, copy, dm, saved>>

(* _save_own                                                               *)
SendStory(value) ==
  /\ form.dirty
  /\ form' = [form EXCEPT !.dirty = FALSE]
  /\ HandleEdit([f \in {"summary"} |-> value])

(* SNAPSHOT and ENTITY go to SharedState, and the panel loads them unless  *)
(* its story tab is being typed in; REFUSED loads what is already held.    *)
Receive ==
  /\ wire # <<>>
  /\ wire' = Tail(wire)
  /\ IF Head(wire) = Refused
     THEN UNCHANGED copy /\ form' = Loaded(copy)
     ELSE /\ copy' = Head(wire)
          /\ form' = IF form.dirty THEN form ELSE Loaded(copy')
  /\ UNCHANGED <<character, requests, hosting, sent, dm, saved>>

-----------------------------------------------------------------------------
Next ==
  \/ \E v \in Value :
       \/ TakeDamage(v)
       \/ HealTo(v)
       \/ DMSavesStory(v)
       \/ SendStory(v)
       \/ \E f \in SheetField : DMSavesSheet(f, v) \/ SendSheet(f, v)
  \/ \E i \in DOMAIN requests : Approve(i) \/ Reject(i)
  \/ Give
  \/ DMTypesStory
  \/ TypeStory
  \/ SetOwner
  \/ HostUp
  \/ Connect
  \/ Disconnect
  \/ Receive

Spec == Init /\ [][Next]_vars

-----------------------------------------------------------------------------
(* Properties                                                              *)

(* Only the last request can be open: whatever the player has sent since,  *)
(* and whichever screen the DM answers on, an older one cannot be approved *)
(* after a newer (propose, decide).                                        *)
OneOpenRequest ==
  \A i \in DOMAIN requests : requests[i].open => i = Len(requests)

(* No request survives a save of the DM's during a session: what is open   *)
(* was made against a sheet at least as new as the last one they saved     *)
(* (refuse_conflicting).                                                   *)
OpenSinceTheLastSave ==
  \A i \in DOMAIN requests : requests[i].open => requests[i].base >= saved

LastCharacter(frames, i) ==
  /\ frames[i] # Refused
  /\ \A j \in i + 1 .. Len(frames) : frames[j] = Refused

AfterReading(held, frames) ==
  IF \E i \in 1 .. Len(frames) : LastCharacter(frames, i)
  THEN frames[CHOOSE i \in 1 .. Len(frames) : LastCharacter(frames, i)]
  ELSE held

(* What they will hold when everything in flight has arrived.              *)
OnArrival == AfterReading(copy, wire)

(* While they are connected nothing about their character changes behind   *)
(* their back: what they hold, or are about to, is what the host holds,    *)
(* in both places hit points are kept, whoever wrote it and whether or not *)
(* they were there at the time (publish_entity, snapshot_since).           *)
NothingBehindTheirBack ==
  Connected => OnArrival.text = character.text /\ OnArrival.hp = character.hp

OpenWishes ==
  {requests[i].changes : i \in {j \in DOMAIN requests : requests[j].open}}

Promise == INSTANCE OneSheet WITH
  Health  <- "hp_current",
  sheet   <- [hp |-> character.hp, text |-> character.text],
  wishes  <- OpenWishes,
  evening <- hosting,
  there   <- Connected,
  seen    <- [hp |-> OnArrival.hp, text |-> OnArrival.text]

(* However late the frames and whatever the forms hold, it is as if player *)
(* and DM had one sheet before them, and one wish about it at most: it is  *)
(* granted as it was made, once, or it comes to nothing, and a save of the *)
(* DM's while the table is open answers it (_handle_edit, decide,          *)
(* refuse_conflicting, publish_entity).                                    *)
ThereIsOneSheet == Promise!Spec
=============================================================================
