SPECIFICATION SeqSpec
CONSTANTS
  Kinds <- MCKinds
  Lens = {1}
  CellAttrs = FALSE
  OldTags = FALSE
  Budget = 7
  MaxDepth = 6
  Lazy = TRUE
  Truncates = TRUE
  Policies = {"keep", "drop", "skip", "capture"}
  Misread = {}
INVARIANTS SeqAligned SeqSlotsAligned FlagsFollowCalls PolicyScoped
CHECK_DEADLOCK FALSE
