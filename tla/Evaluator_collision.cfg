SPECIFICATION Spec
CONSTANTS
  h1 = h1
  cpu = cpu
  mem = mem
  Wildcard = Wildcard
  Hosts <- OneHost
  Target <- CollidingTarget
  Series <- CollidingSeries
  TickPeriod = 6
  EvalTimeout = 4
  NotifyTimeout = 1
PROPERTIES
  NotifiesOnTransitionsOnly
