------------------------------ MODULE MC_Seats ------------------------------
(* Three presses, one stand-in that crashes and one that cannot start.     *)
EXTENDS Seats
=============================================================================
