CONSTANTS
  a = a
  b = b
  t1 = t1
  t2 = t2
  Streams <- OneStream
  SlotKinds <- OneSlot
  Waiters <- TwoWaiters
  WaitList <- ListsAandA
  Kernels = {"waitv"}
  MaxPublish <- OneTwo
SPECIFICATION FairSpec
PROPERTIES
  AnnouncedSleeperWakes
