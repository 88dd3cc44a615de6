SPECIFICATION Spec
CONSTANTS
  r1 = r1
  r2 = r2
  r3 = r3
  u1 = u1
  u2 = u2
  alice = alice
  bob = bob
  Requests = {r1, r2}
  Users = {alice, bob}
  Urls = {u1, u2}
  Anon = Anon
  Keep = Keep
  NoRow = NoRow
  MaxLinks = 2
  MaxTime = 0
  MaxOwnerWrites = 2
  Forms <- OneForm
  Bodies <- TwoBodies
  Expiring <- AllValues
SYMMETRY Sym
CHECK_DEADLOCK FALSE
PROPERTY OnlyOwnerUnpublishes
