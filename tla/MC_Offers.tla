----------------------------- MODULE MC_Offers ------------------------------
(* Offers in a corridor of three squares, with a speed of one.  A blow,    *)
(* and a walk with a blow at the end of it, are proposed.                  *)
EXTENDS Offers

PlansMC == {[to |-> 2, hits |-> TRUE], [to |-> Stay, hits |-> TRUE]}
=============================================================================
