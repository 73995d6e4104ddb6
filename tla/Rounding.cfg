CONSTANTS
  Radix = 2
  DigitBits = 1
  MemSize = 48
  ProgramSize = 12
  Gprs = {0, 1, 2, 10, 11, 12, 17}
  Fprs = {0, 1, 4}
  Csrs = {2, 3}
  Page = 4
  AudioOut = 16
  ImageOut = 20
  AudioIn = 16
  ImageIn = 20
  audio_samples <- MCSamples
  image_samples <- MCSamples
  Inputs <- MCInputs
  Lines <- MCLines
  Starts <- MCStarts
  MaxSteps = 2
  Execute <- execute
  FpExecute <- FloatOutcome
  Protected <- MCProtected
  Checked <- MCChecked
  SetBits <- MCSetBits
  ClearBits <- MCClearBits
  Protect <- MCProtect
  get_significance <- MCGetSig
  set_significance <- MCSetSig
  adaptive_check_error <- MCChecked
  Rounded <- MCRounded
  Flags <- MCFlags
  Holds <- MCHolds
SPECIFICATION Spec
INVARIANT
  DynamicRounding
CHECK_DEADLOCK FALSE
