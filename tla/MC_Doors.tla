------------------------------ MODULE MC_Doors ------------------------------
(* Doors with two people, two names, one character and two codes.          *)
EXTENDS Doors
CONSTANTS ana, bo, a, b, marla
MCPerson == {ana, bo}
MCName == {a, b}
MCChooses == {<<ana, a>>, <<bo, b>>}
MCCharacter == {marla}
MCId == 1 .. 2
MCCode == 1 .. 2
MCSock == 1 .. 2
=============================================================================
