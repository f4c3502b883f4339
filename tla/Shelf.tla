-------------------------------- MODULE Shelf --------------------------------
(***************************************************************************)
(* What a player is promised to be told of the campaign: while they are    *)
(* connected they know which version there is of everything shared with    *)
(* them or theirs, and of nothing else, from the moment it changes.  There *)
(* is no wire here, no cache, and nobody who remembers what was sent.      *)
(*                                                                         *)
(* The abstract specification that Sync is shown to implement.             *)
(***************************************************************************)
EXTENDS Naturals

CONSTANTS
  Id,         \* row ids
  MaxVersion  \* bound: versions of an entity that are explored

VARIABLES
  version,  \* of each row, or 0 when there is none
  shared,   \* ids shared with the player
  open,     \* they are connected
  mine,     \* ids that were theirs when they connected
  known     \* the version they know of each, or 0

shelf == <<version, shared, open, mine, known>>

Init ==
  /\ version = [id \in Id |-> 0]
  /\ shared = {} /\ mine = {}
  /\ open = FALSE
  /\ known = [id \in Id |-> 0]

(* One row is made, rewritten or deleted, or shared or taken back, and a   *)
(* player who is there knows.                                              *)
Change(id) ==
  /\ version' \in {[version EXCEPT ![id] = v] : v \in {0, version[id], version[id] + 1}}
  /\ shared' \in {shared \cup {id}, shared \ {id}}
  /\ known' = IF open
              THEN [known EXCEPT ![id] =
                      IF id \in shared' \cup mine THEN version'[id] ELSE 0]
              ELSE known
  /\ UNCHANGED <<open, mine>>

(* It changes hands, of which nobody is told before they connect again.    *)
HandOver(id) ==
  /\ version' = [version EXCEPT ![id] = @ + 1]
  /\ UNCHANGED <<shared, open, mine, known>>

Come ==
  /\ ~open
  /\ open' = TRUE
  /\ mine' \in SUBSET Id
  /\ known' = [id \in Id |-> IF id \in shared \cup mine' THEN version[id] ELSE 0]
  /\ UNCHANGED <<version, shared>>

(* They leave with what has reached them, which may be less than was sent. *)
Leave ==
  /\ open
  /\ open' = FALSE
  /\ mine' = {}
  /\ known' \in [Id -> 0 .. MaxVersion]
  /\ UNCHANGED <<version, shared>>

Forget ==
  /\ ~open
  /\ known' = [id \in Id |-> 0]
  /\ UNCHANGED <<version, shared, open, mine>>

Next ==
  \/ \E id \in Id : Change(id) \/ HandOver(id)
  \/ Come
  \/ Leave
  \/ Forget

Spec == Init /\ [][Next]_shelf
=============================================================================
