SPECIFICATION Spec
CONSTANTS
  r1 = r1
  r2 = r2
  r3 = r3
  r4 = r4
  alice = alice
  bob = bob
  Null = Null
  Requests = {r1, r2, r3, r4}
  Emails = {alice, bob}
  Registered = {alice}
  AccessTTL = 1
  RefreshTTL = 2
  MaxTime = 3
SYMMETRY AllRequests
INVARIANT TypeOK
INVARIANT RegistrationIsTrue
PROPERTY OldTokenRetired
PROPERTY OnlyLoginOpensASession
PROPERTY SessionsEndByTheirOwner
PROPERTY LogoutIsFinal
