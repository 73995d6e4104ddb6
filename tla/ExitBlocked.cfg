SPECIFICATION Spec
CONSTANTS
  Outcomes = {"read"}
  Limit = 1
  MaxInput = 1
  MaxUndo = 0
INVARIANTS
  ExitNotBlocked
CHECK_DEADLOCK FALSE
