SPECIFICATION FairSpec
CONSTANTS
  r1 = r1
  r2 = r2
  r3 = r3
  u1 = u1
  u2 = u2
  alice = alice
  bob = bob
  Requests = {r1, r2}
  Users = {alice}
  Urls = {u1, u2}
  Anon = Anon
  Keep = Keep
  NoRow = NoRow
  MaxLinks = 1
  MaxTime = 1
  MaxOwnerWrites = 1
  Forms <- ExpiringForm
  Bodies <- ThreeBodies
  Expiring <- AllValues
CHECK_DEADLOCK FALSE
INVARIANT CachedOncePublic
PROPERTIES DisabledGoesDark EventuallyCoherent
