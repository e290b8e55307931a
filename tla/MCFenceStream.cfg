SPECIFICATION TickingFair
CONSTANTS
  c1 = c1
  c2 = c2
  Consumers <- OneConsumer
  MaxFrame = 3
  MaxConn = 3
  SockCap = 2
  RingSize = 2
INVARIANTS
  NoFenceLeak
  FenceReachable
  BorrowedFenceOpen
  FencesInOrder
PROPERTIES
  PublisherReturns
  FrameReachesClient
