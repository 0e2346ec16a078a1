SPECIFICATION FairSpec
CONSTANTS
  Hosts = {h1}
  StaleAfter = 1
  DownAfter = 2
  ScanPeriod = 1
  MaxTime = 4
  Slots = 2
  RulesConfigured = TRUE
INVARIANTS
  TypeOK
  ConfirmedIsAlive
PROPERTIES
  ShutdownCompletes
  SilenceIsAnnounced
  ImplementsTracker
