SPECIFICATION FairSpec
CONSTANTS
  Hosts = {h1, h2}
  StaleAfter = 1
  DownAfter = 2
  ScanPeriod = 2
  MaxTime = 6
INVARIANTS
  TypeOK
  MarksAreExact
  AlarmsAreGenuine
PROPERTIES
  SilenceIsReported
  ImplementsDetector
