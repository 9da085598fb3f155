SPECIFICATION Spec
CONSTANTS
  Vectors <- MCVectors
  Elements = {1, 2}
  Limits = {0, 1, 2, 3, 4}
  Reach = 3
  Faults = 1
INVARIANT ChunksBounded
PROPERTIES ImplementsDelivery IterationEnds
CHECK_DEADLOCK FALSE
