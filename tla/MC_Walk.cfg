CONSTANTS
  Combatant <- MCCombatant
  Foes <- MCFoes
  Armed <- MCArmed
  Speed = 1
  Left <- MCLeft
  Right = 1
  Top <- MCTop
  Bottom = 0
  Beyond <- MCBeyond
  Stones <- MCStones
  MaxMoved = 2
  OffMap = OffMap
  NoOne = NoOne
SPECIFICATION Spec
INVARIANTS
  GroundIsPaidFor
PROPERTIES
  SquaresAreNotShared
  LeavingIsAnswered
