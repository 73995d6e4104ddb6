SPECIFICATION Spec
CONSTANTS
  FREQ_MAX = 2
  Values <- MCValues
  RawValues <- NoValues
  Sigs <- MCSigs
  FlipBits <- NoValues
  CheckFlips <- MCCheckFlips
PROPERTIES
  CheckKeepsGoodData
