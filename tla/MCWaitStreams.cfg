CONSTANTS
  a = a
  b = b
  t1 = t1
  t2 = t2
  Streams <- TwoStreams
  SlotKinds <- AllOrA
  Waiters <- OneWaiter
  WaitList <- ListAB
  Kernels = {"waitv", "old"}
  MaxPublish <- Two
SPECIFICATION FairSpec
INVARIANTS
  NoFrameOverlooked
  SleeperAnnounced
PROPERTIES
  TimedWaitReturns
  PollingWaitReturns
