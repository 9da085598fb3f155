SPECIFICATION Spec
CONSTANTS
  Kinds <- MCKinds
  Lens = {2}
  CellAttrs = FALSE
  OldTags = FALSE
  Budget = 6
  Names = {x, y}
  EnvNames = {p}
  MaxHandles = 3
  Shapes = {}
INVARIANTS StreamComplete RefsMeanWhatWasWritten WrittenOnce NumbersAgree
PROPERTY ImplementsStream
