SPECIFICATION Spec
CONSTANTS
  Savers = {s1}
  Sinks = {"file"}
  Length = 5
  BufferSize = 3
  Rounds = 3
  LateErrors = TRUE
INVARIANT TargetWhole
CHECK_DEADLOCK FALSE
