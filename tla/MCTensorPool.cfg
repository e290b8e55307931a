SPECIFICATION PoolSpec
CONSTANTS
  c1 = c1
  c2 = c2
  Holders <- MCHolders
  Backends <- MCBackends
  NBuffers = 2
  MaxGen = 2
INVARIANTS
  OwnerHoldsItsPool
  SubscriberHoldsItsViews
  FlagsFollowLeases
  NoFreeBufferPassedOver
