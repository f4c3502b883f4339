CONSTANTS
  ana = ana
  bo = bo
  a = a
  b = b
  marla = marla
  Person <- MCPerson
  Name <- MCName
  Chooses <- MCChooses
  Character <- MCCharacter
  Id <- MCId
  Code <- MCCode
  Sock <- MCSock
  MaxTries = 2
  Faults = 1
  Meddling = 1
  Wishes = 2
  First = ana
  Nobody = Nobody
SPECIFICATION Spec
CHECK_DEADLOCK FALSE
INVARIANTS
  OnlyTheHolderSits
  EndsAgree
PROPERTIES
  SeatIsHandedOver
  WhoeverKnocksIsAnswered
