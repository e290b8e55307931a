CONSTANTS
  c1 = c1
  Consumers <- OneConsumer
  Buffers = 2
  MaxFrame = 4
  MaxGen = 2
  MaxQueued = 1
  ReannouncesFirst = FALSE
  RetiresInHand = FALSE
SPECIFICATION Spec
INVARIANT
  ViewIntact
