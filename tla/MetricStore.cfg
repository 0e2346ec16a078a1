SPECIFICATION Spec
CHECK_DEADLOCK FALSE
CONSTANTS
  h1 = h1
  Hosts = {h1}
  NameCount = 2
  Values <- LowHigh
  Threshold = 2
  Bucket = 2
  Window <- Windows
  HostWindow <- HostWindows
  MaxSkew = 1
  Skews <- FastOrSlow
  Scale = 6
  MaxNow = 3
  MaxBatches = 2
  MaxCopies <- FirstTwice
INVARIANTS
  TypeOK
  ReadsAreComplete
  LaterSeriesIsNotOlder
  VerdictIsSound
PROPERTIES
  StampsNeverGoBack
