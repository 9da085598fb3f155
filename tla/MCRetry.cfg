SPECIFICATION Spec
CONSTANTS
  Kinds <- MCKinds
  Lengths = {1, 3}
  MaxParts = 3
  Limit = 5
  Slack = {0, 1}
  Entries = {"value", "stream"}
  Known = {TRUE, FALSE}
INVARIANTS AttemptsStartClean AsInOnePass FitsMeansParsed
PROPERTY AttemptsEnd
CHECK_DEADLOCK FALSE
