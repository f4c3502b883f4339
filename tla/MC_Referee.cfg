CONSTANTS
  Combatant <- MCCombatant
  Initiatives <- One
  Tiebreaks <- Zero
  NoOne = NoOne
  Unrolled = Unrolled
  Highest = 1
  Scores <- MCScores
  PC <- MCPC
  alice = alice
  Account <- MCAccount
  Owner <- MCOwner
  SavesNeeded = 2
SPECIFICATION TableSpec
PROPERTIES
  AskedOrRolled
  WalkReachesSomebodyAwake
  DyingNotSteppedOver
  OnlyTheDyingRoll
