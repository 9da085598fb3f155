SPECIFICATION StreamSpec
CONSTANTS
  Kinds <- MCKinds
  Lens = {2}
  CellAttrs = FALSE
  OldTags = FALSE
  Budget = 5
  MaxDepth = 5
  Lazy = FALSE
  Truncates = TRUE
  Answers = {"Continue", "Skip", "Stop"}
INVARIANTS StreamTypeOK WalkAligned WalkSlotsAligned EventsNested SharedTargets
PROPERTY NothingAfterStop
CHECK_DEADLOCK FALSE
