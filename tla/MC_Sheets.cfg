CONSTANTS
  Refused = Refused
  Most = 1
  MaxVersion = 3
  MaxRequests = 2
  MaxWire = 2
SPECIFICATION Spec
INVARIANTS
  OneOpenRequest
  OpenSinceTheLastSave
  NothingBehindTheirBack
PROPERTY
  ThereIsOneSheet
