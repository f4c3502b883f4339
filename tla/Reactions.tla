----------------------------- MODULE Reactions ------------------------------
(***************************************************************************)
(* TurnOrder with the reaction each combatant has: one a round, spent on   *)
(* an opportunity attack.  What is stored is not whether it is spent but   *)
(* the number of the round it was last spent in, "without anybody having   *)
(* to tidy up afterwards" (migration 012), and so this is about what else  *)
(* moves that number: starting over, ending, clearing, rows that go.       *)
(*                                                                         *)
(* Models EncounterRepo.use_reaction and the part of SessionServer         *)
(* ._opportunity_attacks that decides who still has theirs.  Reach, sides  *)
(* and weapons are left out, and so is who is moving.                      *)
(***************************************************************************)
EXTENDS TurnOrder

VARIABLES
  reacted,  \* combatant.reaction_round, 0 for never
  spent     \* a record kept for the properties: who has reacted this round

rvars == <<vars, reacted, spent>>

RInit ==
  /\ Init
  /\ reacted = [c \in Combatant |-> 0]
  /\ spent = {}

(* Somebody leaves the reach of c.                                         *)
React(c) ==
  /\ running
  /\ c \in members \ resting
  /\ reacted[c] < round
  /\ reacted' = [reacted EXCEPT ![c] = round]
  /\ spent' = spent \cup {c}
  /\ UNCHANGED vars

(* A bug: reactions come back with the turn and not with the round. *)
OtherwiseATurn ==
  /\ Next
  /\ reacted' = [c \in Combatant |-> IF c \in members' /\ turn' = turn THEN reacted[c] ELSE 0]
  /\ spent' = IF Begin \/ round' # round THEN {} ELSE spent \cap members'

(* Any other step.  The number is in the combatant's row, and goes with it.*)
Otherwise ==
  /\ Next
  /\ reacted' = [c \in Combatant |-> IF c \in members' THEN reacted[c] ELSE 0]
  /\ spent' = IF Begin \/ round' # round THEN {} ELSE spent \cap members'

RNext == Otherwise \/ \E c \in Combatant : React(c)

RSpec == RInit /\ [][RNext]_rvars

-----------------------------------------------------------------------------
(* Properties                                                              *)

(* Nobody swings at two passers-by in one round, whatever happens to the   *)
(* round number and the rows in between.                                   *)
ReactsAfresh == \A c \in Combatant : React(c) => c \notin spent

OneReactionARound == [][ReactsAfresh]_rvars

(* What makes it so: whoever has reacted has this very round on their row. *)
SpentIsWritten ==
  \A c \in spent : c \in members /\ HasBegun /\ reacted[c] = round
=============================================================================
