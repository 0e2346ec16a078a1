SPECIFICATION FairSpec
CONSTANTS
  h1 = h1
  cpu = cpu
  mem = mem
  Wildcard = Wildcard
  Hosts <- OneHost
  Target <- MixedTarget
  Series <- MixedSeries
  TickPeriod = 6
  EvalTimeout = 4
  NotifyTimeout = 1
INVARIANTS
  TypeOK
  MapMatchesEvents
PROPERTIES
  ReceivedIsNewest
  LastingBreachFires
