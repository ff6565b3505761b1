SPECIFICATION FairSpec
CONSTANTS
  w1 = w1
  w2 = w2
  Workers = {w1, w2}
  Events = {1, 2, 3}
  BatchSize = 2
  MaxPower = 2
  Attempts = 4
  MaxFailures = 2
  MaxLost = 1
  MaxAborts = 1
INVARIANT TypeOK
INVARIANT PublishedIsDelivered
INVARIANT DuplicatesNeedFaults
PROPERTY PublishedIsFinal
PROPERTY EventsArePublished
