SPECIFICATION FairSpec
CONSTANTS
  Apps = {"ros1", "ros2", "image", "spike"}
  RingSize = 2
  Sizes = {1, 2}
  Depth <- MCDepth
  MaxFrame = 4
  MaxInstances = 2
INVARIANTS
  PayloadErrorsAreLaps
  WatchdogTruthful
PROPERTIES
  ConsumerAttaches
CHECK_DEADLOCK FALSE
