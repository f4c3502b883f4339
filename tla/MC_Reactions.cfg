CONSTANTS
  Combatant <- MCCombatant
  Initiatives <- MCInitiatives
  Tiebreaks <- MCTiebreaks
  NoOne = NoOne
  Unrolled = Unrolled
  Highest = 2
  MaxRound = 3
  MaxMoved = 1
SPECIFICATION RSpec
INVARIANTS
  TypeOK
  TurnHolderIsInTheFight
PROPERTIES
  NothingInherited
  TurnGoesDownTheOrder
  OneReactionARound
