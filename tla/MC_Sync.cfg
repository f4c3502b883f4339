CONSTANTS
  Id <- MCId
  wounded = wounded
  whole = whole
  Text <- MCText
  Nothing = Nothing
  MaxVersion = 2
  MaxWire = 2
SPECIFICATION Spec
INVARIANTS
  TypeOK
  TheyHoldWhatTheyMaySee
  SentIsWhatTheyHold
PROPERTIES
  KeepsThePromise
