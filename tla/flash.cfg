SPECIFICATION Spec
CONSTANTS
  None = None
  Garbage = Garbage
  ResetRequest = ResetRequest
  Elfs <- MCElfs
  PageSize = 2
  FlashStart = 0
  FlashEnd = 7
  BootAddr = 4
  ResetModes = {"user", "gpio"}
  MisreadAnswers = {3}
  MaxNoise = 1
INVARIANT TypeOK
INVARIANT SuccessMeansFlashed
PROPERTY OkMeansProgrammed
PROPERTY FlashEnds
CHECK_DEADLOCK FALSE
