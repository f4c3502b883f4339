CONSTANTS
  Slots = 3
  Turns = 6
  MaxWire = 2
  MaxPresses = 3
  MaxCrashes = 1
  MaxFails = 1
SPECIFICATION SeatsSpec
INVARIANTS
  OneBlow
PROPERTIES
  MissedByTheNextTurn
  TheirTurnPasses
