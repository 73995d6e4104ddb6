SPECIFICATION Spec
CONSTANTS
  Recorded = {"x"}
  Unrecorded = {}
  Values = {0, 1}
  Zero = 0
  Writes <- RecordedWrites
  Images <- Nothing
  Sizes = {2}
  Limit = 1
  MaxPc = 2
  MaxRetired = 2
  Commands <- AllCommands
INVARIANTS
  TypeOK
  NoUnderflow
PROPERTIES
  ImplementsTimeline
  BreakpointHonoured
  LoopsHalt
CHECK_DEADLOCK FALSE
