CONSTANTS
  Creature <- MCCreature
  Machine <- MCMachine
  Order <- MCOrder
  NoOne = NoOne
  Line <- MCLine
  FirstUp <- MCFirst
  Offered <- MCOffered
  Task <- MCTask
  gob = gob
  ork = ork
  hero = hero
  l1 = l1
  MaxRounds = 1
  MaxTurns = 2
  MaxFlips = 2
  MaxUpsets = 1
  MaxFrames = 2
SPECIFICATION FairSpec
CHECK_DEADLOCK FALSE
INVARIANTS
  WritingEnds
  AskedOnce
PROPERTIES
  OffMeansOff
  LinesAreTakenUp
