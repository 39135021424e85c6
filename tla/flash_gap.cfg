SPECIFICATION Spec
CONSTANTS
  None = None
  Garbage = Garbage
  ResetRequest = ResetRequest
  Elfs <- MCGapElfs
  PageSize = 2
  FlashStart = 0
  FlashEnd = 7
  BootAddr = 4
  ResetModes = {"user", "gpio"}
  MisreadAnswers = {3}
  MaxNoise = 0
INVARIANT SuccessMeansFlashed
CHECK_DEADLOCK FALSE
