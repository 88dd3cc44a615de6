SPECIFICATION Spec
CONSTANTS
  r1 = r1
  r2 = r2
  r3 = r3
  u1 = u1
  u2 = u2
  alice = alice
  bob = bob
  Requests = {r1, r2, r3}
  Users = {alice}
  Urls = {u1, u2}
  Anon = Anon
  Keep = Keep
  NoRow = NoRow
  MaxLinks = 1
  MaxTime = 0
  MaxOwnerWrites = 1
  Forms <- OneForm
  Bodies <- TwoBodies
  Expiring <- NoValues
SYMMETRY Sym
CHECK_DEADLOCK FALSE
PROPERTY DisabledNeverResurrected
