CONSTANTS
  c1 = c1
  Consumers <- OneConsumer
  Buffers = 2
  MaxFrame = 5
  MaxGen = 3
  MaxQueued = 2
  ReannouncesFirst = TRUE
  RetiresInHand = FALSE
SPECIFICATION Spec
INVARIANTS
  ViewIntact
  NoDanglingFallback
PROPERTIES
  ViewsNeverGoBack
  RetiredFramesKept
