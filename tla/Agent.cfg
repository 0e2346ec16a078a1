SPECIFICATION AgentSpec
CHECK_DEADLOCK FALSE
CONSTANTS
  BufSize = 2
  MaxBatches = 5
  MaxAttempts = 1
  Unencodable <- Third
  Invalid <- Second
  Poison <- Fourth
INVARIANTS
  TypeOK
  NoOvertaking
PROPERTIES
  ImplementsOutbox
  RunReturns
  QueuedIsDelivered
