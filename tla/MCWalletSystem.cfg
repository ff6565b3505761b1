SPECIFICATION FairSystemSpec
CONSTANTS
  r1 = r1
  r2 = r2
  r3 = r3
  key1 = key1
  key2 = key2
  w1 = w1
  Null = Null
  Requests = {r1, r2, r3}
  Wallets = {1, 2}
  Keys = {key1, key2}
  Calls <- MCCalls
  Opening <- MCOpening
  MaxInt64 = 4
  Workers = {w1}
  Events = {1, 2}
  BatchSize = 2
  MaxPower = 3
  Attempts = 4
  MaxFailures = 1
  MaxLost = 1
  MaxAborts = 1
  Times = {1, 2}
  PageLimit = 1
  Owner = 1
CONSTRAINT FaultsApart
INVARIANT NotifiedOncePerEffect
INVARIANT PagesCoverHistory
PROPERTY CommitsAreNotified
