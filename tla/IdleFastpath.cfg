SPECIFICATION Spec
CONSTANTS
  NumTiles = 2
  c1 = c1
  c2 = c2
  p1 = p1
  p2 = p2
  e1 = e1
  Cores <- MCCores
  Pipes <- MCPipes
  EthCores <- MCEthCores
  FifoSize = 3
  WordSize = 8
INVARIANTS
  TypeOK
  MarkedIffQueued
  CountersExact
PROPERTIES
  ImplementsUpstream
CHECK_DEADLOCK FALSE
