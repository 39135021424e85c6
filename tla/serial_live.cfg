SPECIFICATION FairSpec

CONSTANTS
  r1 = r1
  w1 = w1
  x1 = x1
  x2 = x2
  poll = poll
  setpoint = setpoint
  NoJob = NoJob
  NoMsg = NoMsg
  Requests = {r1, w1}
  Writes = {w1}
  Resets = {x1, x2}
  Frames = {poll, setpoint}
  FrameOf <- FrameByKind
  ErrLimit = 10
  ResetMode = "gpio"
  SameTimeout = FALSE
  Callers = 2
  Faults = {"lost", "noBoot"}

PROPERTY EverySendSettles
PROPERTY EveryRequestLeaves
PROPERTY LockIsReleased
