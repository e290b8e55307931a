SPECIFICATION Spec
CONSTANTS
  BlobLen = 2
  MaxExt = 2
  MaxFds = 2
  MaxMsgs = 4
  Pools <- MCPools
INVARIANTS
  StreamStaysFramed
  FencesAreTrue
  AttachedWhole
CHECK_DEADLOCK FALSE
