SPECIFICATION FairSpec
CONSTANTS
  IsSync = TRUE
  LinkLatency = 4
  SyncInterval = 4
  RingSize = 5
  PsPerClock = 2
  MaxBatch = 1
  MaxClocksPerCall = 1
  MaxDmaChunk = 2
  MaxMmioLen = 4
  Geometry <- MCGeometry
  Bar4Override = 0
  LongSize = 1024
  Targets <- ShortTargets
  MaxReqs = 1
  MaxOutstanding = 1
  LastIssue = 4
  HostHorizon = 34
  MaxDmas = 1
  DmaSizes = {3}
  Horizon = 0
INVARIANTS
  NothingLate
  SkewBounded
  WithinWindow
  NoMutualWait
  OutputHasRoom
PROPERTIES
  ImplementsTimedLink
  TimeNeverBack
  TimeAdvances
  RequestsAnswered
  TerminateEndsDevice
