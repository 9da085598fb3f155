SPECIFICATION Spec
CONSTANTS
  StreamLen = 9
  BufferSize = 3
  Limit = 5
INVARIANT BufferBounded
PROPERTIES ImplementsByteStream OperationsComplete
CHECK_DEADLOCK FALSE
