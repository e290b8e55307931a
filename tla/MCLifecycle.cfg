SPECIFICATION FairSpec
CONSTANTS
  MaxPubs = 2
  MaxFrames = 1
  MaxGen = 2
INVARIANTS
  LivePublisherIsNamed
  ViewsMatchPool
PROPERTIES
  SubscriberAttaches
CHECK_DEADLOCK FALSE
