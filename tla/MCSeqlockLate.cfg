CONSTANTS
  r1 = r1
  w1 = w1
  w2 = w2
  w3 = w3
  Readers <- OneReader
  Words <- ThreeWords
  MaxPublish = 3
  RetryLimits <- Retries
  LoadOrders = {"late"}
SPECIFICATION Spec
INVARIANT NoDataIsFalse
