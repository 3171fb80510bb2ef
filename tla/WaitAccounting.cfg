SPECIFICATION Spec
CONSTANTS
  IsSync = TRUE
  LinkLatency = 2
  SyncInterval = 2
  RingSize = 6
  PsPerClock = 1
  MaxBatch = 2
  MaxClocksPerCall = 1
  MaxDmaChunk = 2
  MaxMmioLen = 4
  Geometry <- MCGeometry
  Bar4Override = 0
  LongSize = 1024
  Targets <- ShortTargets
  MaxReqs = 1
  MaxOutstanding = 1
  LastIssue = 2
  HostHorizon = 6
  MaxDmas = 1
  DmaSizes = {3}
  Horizon = 0
INVARIANTS
  WaitingIsIdle
