SPECIFICATION Spec

CONSTANTS
  Base = 2
  MaxCount = 3

INVARIANT MainRunsEnabled
