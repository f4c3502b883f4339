CONSTANTS
  Combatant <- DuelCombatant
  Initiatives <- One
  Tiebreaks <- Zero
  NoOne = NoOne
  Unrolled = Unrolled
  Highest = 1
  Scores <- DuelScores
  PC <- DuelPC
  alice = alice
  Account <- MCAccount
  Owner <- DuelOwner
  SavesNeeded = 2
SPECIFICATION FairTableSpec
PROPERTIES
  MachineTurnsPass
