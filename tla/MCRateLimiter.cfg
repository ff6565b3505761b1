SPECIFICATION FairSpec
CONSTANTS
  Limit = 2
  WindowSeconds = 3
  TicksPerSecond = 4
  MaxFailures = 2
INVARIANT SlidingBound
INVARIANT RetryAfterIsHonest
PROPERTY LockoutEnds
