SPECIFICATION Spec
CONSTANTS
  Word = 64
  PageSize = 4
  MaxRank = 3
  MaxGen = 2
  Sizes <- MCSizes
  Surfaces <- MCSurfaces
  Frames <- MCFrames
  Arrays <- MCArrays
INVARIANTS
  VerdictsExact
  ViewsInsideBuffers
PROPERTIES
  HandshakesAreCurrent
CHECK_DEADLOCK FALSE
