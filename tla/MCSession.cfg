SPECIFICATION Spec
CONSTANTS
  Outcomes = {"plain", "ecall", "read", "exit", "fault"}
  Limit = 1
  MaxInput = 2
  MaxUndo = 2
INVARIANTS
  TypeOK
  RunningCoversFunction
  PromptStop
  NoLostWakeup
PROPERTIES
  RewindExcludesThread
  OneVmThread
  JoinReturns
CHECK_DEADLOCK FALSE
