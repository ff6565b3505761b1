SPECIFICATION FairSpec
CONSTANTS
  w1 = w1
  w2 = w2
  Workers = {w1, w2}
  Events = {1, 2}
  BatchSize = 2
  MaxPower = 1
  Attempts = 4
  MaxFailures = 2
  MaxLost = 1
  MaxAborts = 1
PROPERTY EventsArePublished
