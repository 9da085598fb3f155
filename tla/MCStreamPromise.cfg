SPECIFICATION StreamSpec
CONSTANTS
  Kinds <- MCPromise
  Lens = {2}
  CellAttrs = FALSE
  OldTags = FALSE
  Budget = 5
  MaxDepth = 5
  Lazy = FALSE
  Truncates = TRUE
  Answers = {"Continue", "Skip", "Stop"}
INVARIANT WalkAligned
CHECK_DEADLOCK FALSE
