SPECIFICATION RtSpec
CONSTANTS
  Parent = parent
  Child = child
  parent = parent
  child = child
  Cpus = {0}
  Limits = {1}
  Names = {"a", "b"}
  Fds = {1}
  Configs <- MCConfigs
  Depth = 2
  Deadline = 2
  Word = 64
INVARIANTS
  LimitFollowsNesting
  RequestsAreHeld
  SetupHoldStays
PROPERTIES
  SleepReturns
CHECK_DEADLOCK FALSE
