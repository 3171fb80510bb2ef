SPECIFICATION FairSpec
CONSTANTS
  IsSync = FALSE
  LinkLatency = 1
  SyncInterval = 1
  RingSize = 2
  PsPerClock = 1
  MaxBatch = 1
  MaxClocksPerCall = 4
  MaxDmaChunk = 2
  MaxMmioLen = 4
  Geometry <- MCGeometry
  Bar4Override = 0
  LongSize = 1024
  Targets <- ProtocolTargets
  MaxReqs = 3
  MaxOutstanding = 2
  LastIssue = 0
  HostHorizon = 0
  MaxDmas = 2
  DmaSizes = {3}
  Horizon = 0
INVARIANTS
  TypeOK
  HeldSlotIsLast
  CompletionsFitLiveSlot
  DmaSynchronous
  NothingLost
  EndsForCause
PROPERTIES
  RequestsAnswered
  TerminateEndsDevice
  NoNestedCalls
  ImplementsEndpoint
  ImplementsDmaPort
