SPECIFICATION Spec
CONSTANTS
  Kinds <- MCKinds
  Lens = {2}
  CellAttrs = FALSE
  OldTags = FALSE
  Budget = 5
  MaxDepth = 5
  Lazy = TRUE
  Truncates = TRUE
INVARIANTS TypeOK Aligned RefsAligned TagsResolve NestingBalanced FlagsScoped OnlyDepthFails
PROPERTY Termination
CHECK_DEADLOCK FALSE
