SPECIFICATION FairSpec
CONSTANTS
  r1 = r1
  r2 = r2
  c1 = c1
  c2 = c2
  c3 = c3
  c4 = c4
  Replicas = {r1, r2}
  Clicks = {c1, c2, c3, c4}
  Keys = {"k1", "k2"}
  KeyOf <- SomeKeys
  ServedBy <- OwnReplica
  Killable = {r1}
  BatchLimit = 2
PROPERTIES EventuallySettled StopTerminates
CHECK_DEADLOCK FALSE
