SPECIFICATION ServerSpec
CONSTANTS
  NaN = NaN
  Rejected = Rejected
  Unlimited = Unlimited
  Infinity = Infinity
  NoValues = NoValues
  Never = Never
  MeterDefect = FALSE
  Config <- MCConfig
  Requests = {}
  Readings = {}
  Queries <- MCQueries
  Timers = {360}
  MaxAge = 60
  MaxGap = 1
  DayLength = 2
  MaxRefreshes = 2
  MaxTime = 3
  Backups = 2
  MaxStarts = 3
INVARIANT ServerTypeOK
INVARIANT NothingLost
INVARIANT CountedOnce
CHECK_DEADLOCK FALSE
PROPERTY ShutdownEnds
