CONSTANTS
  c1 = c1
  c2 = c2
  Consumers <- TwoConsumers
  MaxFrame = 3
  MaxConn = 2
  SockCap = 2
  RingSize = 2
SPECIFICATION Spec
INVARIANT
  FenceReachableByAll
