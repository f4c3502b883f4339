------------------------------ MODULE MC_Sync -------------------------------
(* Sync with two rows and two things to write.                             *)
EXTENDS Sync
CONSTANTS wounded, whole
MCId == 1 .. 2
MCText == {wounded, whole}
=============================================================================
