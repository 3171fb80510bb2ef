SPECIFICATION Spec
CONSTANTS
  Options <- MCOptions
  Libraries <- MCLibraries
  Ids <- MCIds
  Chips <- MCChips
  VendorId = 7
  MsgLens <- MCMsgLens
  HeaderLen = 3
  DefaultParams <- MCDefaultParams
  PsPerUs = 10
  PsPerNs = 10
  WordSize = 8
  LongSize = 131072
  MaxChunkCap = 4
  Killed = 138
  MaxCalls = 5
INVARIANTS
  InAbiOrder
  NoMessageBeforeLink
  IntroIsMapped
  StaysInItsBar
  LoopParamsUsable
  SuccessIsService
PROPERTIES
  CallsResolved
