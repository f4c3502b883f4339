CONSTANTS
  Combatant <- MCCombatant
  Initiatives <- MCInitiatives
  Tiebreaks <- MCTiebreaks
  NoOne = NoOne
  Unrolled = Unrolled
  Highest = 2
  MaxRound = 2
  MaxMoved = 0
SPECIFICATION HSpec
INVARIANTS
  NobodyActsTwice
  MarkerDividesTheRound
PROPERTIES
  NobodyIsSkipped
