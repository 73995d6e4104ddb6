SPECIFICATION Spec
CONSTANTS
  FREQ_MAX = 2
  Values <- MCValues
  RawValues <- MCRawValues
  Sigs <- MCSigs
  FlipBits <- MCFlipBits
  CheckFlips <- MCCheckFlips
INVARIANTS
  TypeOK
  CheckSettles
  HistoryCounts
  CodedIsChecked
PROPERTIES
  SingleFlipRepaired
  DoubleFlipDetected
  JumpTargetRepaired
