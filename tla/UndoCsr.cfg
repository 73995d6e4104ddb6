SPECIFICATION Spec
CONSTANTS
  Recorded = {"x"}
  Unrecorded = {"csr"}
  Values = {0, 1}
  Zero = 0
  Writes <- CsrWrites
  Images <- Nothing
  Sizes = {2}
  Limit = 1
  MaxPc = 2
  MaxRetired = 3
  Commands = {"load", "step", "undo"}
PROPERTIES
  UndoReverts
CHECK_DEADLOCK FALSE
