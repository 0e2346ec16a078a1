SPECIFICATION Spec
CHECK_DEADLOCK FALSE
CONSTANTS
  BufSize = 1
  MaxBatches = 2
  MaxAttempts = 1
  Unencodable <- Nothing
  Invalid <- Nothing
  Poison <- Nothing
INVARIANTS
  OnlyMalformedIsDiscarded
