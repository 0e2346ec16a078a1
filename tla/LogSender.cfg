SPECIFICATION SenderSpec
CHECK_DEADLOCK FALSE
CONSTANTS
  Size <- Sizes
  MaxChunks = 4
  Spoiled <- OnlyFirst
  Invalid <- Second
  Poison <- Fourth
INVARIANTS
  FirstCopiesInOrder
PROPERTIES
  ImplementsOutbox
  SendLogsReturns
