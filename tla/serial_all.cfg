SPECIFICATION Spec

CONSTANTS
  w1 = w1
  w2 = w2
  x1 = x1
  x2 = x2
  poll = poll
  setpoint = setpoint
  NoJob = NoJob
  NoMsg = NoMsg
  Requests = {w1, w2}
  Writes = {w1, w2}
  Resets = {x1, x2}
  Frames = {poll, setpoint}
  FrameOf <- FrameByKind
  ErrLimit = 10
  ResetMode = "gpio"
  SameTimeout = FALSE
  Callers = 2
  Faults = {"lost", "garbled", "late", "writeError", "slowWrite", "noBoot", "gpio"}

SYMMETRY Symmetry

INVARIANT TypeOK
INVARIANT CallerGuarded
INVARIANT HeadInProgress
INVARIANT WrittenOnce
INVARIANT ResetExclusive
