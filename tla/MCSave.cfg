SPECIFICATION Spec
CONSTANTS
  Savers = {s1}
  Sinks = {"file", "callback"}
  Length = 5
  BufferSize = 3
  Rounds = 3
  LateErrors = FALSE
INVARIANTS TargetWhole OkMeansDelivered
CHECK_DEADLOCK FALSE
