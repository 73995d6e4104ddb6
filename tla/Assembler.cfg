SPECIFICATION FairSpec
CONSTANTS
  Programs <- AnySources
  MaxLines = 4
  MaxMixed = 3
  Names = {"a", "b"}
  Imms = {1, 6, 8, 20}
  Page = 8
  BranchReach = 8
  JumpReach = 16
  WordReach = 12
  DataStart = 64
  MExtension = FALSE
INVARIANTS
  TypeOK
  LabelsLead
  WideOperands
  DataLabelsAgree
  BreakpointLines
  NothingLost
PROPERTIES
  Halts
CHECK_DEADLOCK FALSE
