SPECIFICATION FairSpec

CONSTANTS
  Base = 2
  MaxCount = 3

INVARIANT TypeOK
INVARIANT LoadedIsCurrent
INVARIANT EnabledUntilDamage
PROPERTY EventsOwned
PROPERTY EnergyMonotonic
PROPERTY FrameHandled
