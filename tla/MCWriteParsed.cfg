SPECIFICATION Spec
CONSTANTS
  Kinds <- MCParsedKinds
  Lens = {3}
  CellAttrs = FALSE
  OldTags = FALSE
  Budget = 6
  Names = {x}
  EnvNames = {p}
  MaxHandles = 2
  Shapes = {"sharedNamespace"}
INVARIANT RefsMeanWhatWasWritten
