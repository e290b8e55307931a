CONSTANTS
  a = a
  b = b
  t1 = t1
  t2 = t2
  Streams <- OneStream
  SlotKinds <- OneSlot
  Waiters <- OneWaiter
  WaitList <- ListA
  Kernels = {"waitv"}
  MaxPublish <- OneThree
SPECIFICATION FairSpec
PROPERTY WakeupNeverLost
