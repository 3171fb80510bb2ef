SPECIFICATION FairSpec
CONSTANTS
  IsSync = TRUE
  LinkLatency = 2
  SyncInterval = 2
  RingSize = 6
  PsPerClock = 3
  MaxBatch = 2
  MaxClocksPerCall = 4
  MaxDmaChunk = 2
  MaxMmioLen = 4
  Geometry <- MCGeometry
  Bar4Override = 0
  LongSize = 1024
  Targets <- NoTargets
  MaxReqs = 0
  MaxOutstanding = 1
  LastIssue = 0
  HostHorizon = 8
  MaxDmas = 0
  DmaSizes = {3}
  Horizon = 0
PROPERTIES
  DeviceIsClocked
