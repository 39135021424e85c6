SPECIFICATION Spec
CONSTANTS
  NaN = NaN
  Rejected = Rejected
  Unlimited = Unlimited
  Infinity = Infinity
  NoValues = NoValues
  Never = Never
  MeterDefect = FALSE
  Config <- MCConfig
  Requests <- MCRequests
  Queries <- MCQueries
  Readings <- MCReadings
  Timers = {65535}
  MaxAge = 0
  MaxGap = 0
  DayLength = 100
  MaxRefreshes = 2
  MaxTime = 1
INVARIANT TypeOK
INVARIANT RaisesSlowly
INVARIANT HeaterFollows
PROPERTY NoBlindIncrease
CHECK_DEADLOCK FALSE
PROPERTY OffReachesHeater
PROPERTY StarvedSmartModeFalls
