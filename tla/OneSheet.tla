------------------------------ MODULE OneSheet ------------------------------
(***************************************************************************)
(* What a player and the DM are promised of a character: there is one      *)
(* sheet, which a player who is there sees as it is, and at most one wish  *)
(* about it, which is granted as it was made or comes to nothing.  There   *)
(* are no versions here, no frames, no forms and no record of what was     *)
(* asked before.                                                           *)
(*                                                                         *)
(* The abstract specification that Sheets is shown to implement.           *)
(***************************************************************************)

CONSTANTS
  Field,   \* what is written on the sheet
  Health,  \* the field that is kept in a second place
  Value    \* what a field can be

VARIABLES
  sheet,    \* hp, the second place, and text
  wishes,   \* what the player has asked for and nobody has answered
  evening,  \* the table is open
  there,    \* the player is at it
  seen      \* the sheet as they see it, or last did

oneSheet == <<sheet, wishes, evening, there, seen>>

Sheet == [hp : Value, text : [Field -> Value]]
Wish  == UNION {[S -> Value] : S \in SUBSET Field}

Init ==
  /\ sheet \in Sheet /\ seen = sheet
  /\ wishes = {}
  /\ ~evening /\ ~there

Shown == seen' = IF there THEN sheet' ELSE seen

(* Blows and healing, in both places at once, whatever has been asked.     *)
HealthChanges(n) ==
  /\ evening
  /\ sheet' = [hp |-> n, text |-> [sheet.text EXCEPT ![Health] = n]]
  /\ Shown
  /\ UNCHANGED <<wishes, evening, there>>

(* Whoever wishes against a sheet the DM has since saved has to ask again. *)
DMWrites(text) ==
  /\ sheet' = [sheet EXCEPT !.text = text]
  /\ wishes' = IF evening THEN {} ELSE wishes
  /\ Shown
  /\ UNCHANGED <<evening, there>>

(* For something else than there is on the sheet they see.                 *)
Asks(wish) ==
  /\ there /\ seen = sheet
  /\ DOMAIN wish # {} /\ \A f \in DOMAIN wish : wish[f] # sheet.text[f]
  /\ wishes' = {wish}
  /\ UNCHANGED <<sheet, evening, there, seen>>

Grants(wish) ==
  /\ evening
  /\ sheet' = [sheet EXCEPT !.text =
                 [f \in Field |-> IF f \in DOMAIN wish THEN wish[f] ELSE sheet.text[f]]]
  /\ wishes' = {}
  /\ Shown
  /\ UNCHANGED <<evening, there>>

Denies ==
  /\ evening /\ wishes # {}
  /\ wishes' = {}
  /\ UNCHANGED <<sheet, evening, there, seen>>

Comes ==
  /\ evening /\ ~there
  /\ there' = TRUE /\ seen' = sheet
  /\ UNCHANGED <<sheet, wishes, evening>>

(* They go with what has reached them, or the table opens or closes.       *)
Goes ==
  /\ there' = FALSE
  /\ there \/ evening' # evening
  /\ evening' \in BOOLEAN
  /\ seen' \in Sheet /\ (~there => seen' = seen)
  /\ UNCHANGED <<sheet, wishes>>

Next ==
  \/ \E n \in Value : HealthChanges(n)
  \/ \E text \in [Field -> Value] : DMWrites(text)
  \/ \E wish \in Wish : Asks(wish)
  \/ \E wish \in wishes : Grants(wish)
  \/ Denies
  \/ Comes
  \/ Goes

Spec == Init /\ [][Next]_oneSheet
=============================================================================
