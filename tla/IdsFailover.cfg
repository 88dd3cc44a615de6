SPECIFICATION Spec
CONSTANTS
  p1 = p1
  p2 = p2
  Replicas = {p1, p2}
  Backends = {"redis"}
  MachineOf <- OwnMachine
  MachineCount = 2
  SequenceCount = 2
  MaxClock = 3
  MaxStored = 1
  MaxId = 4
  MaxFailovers = 1
PROPERTY NeverStale
CHECK_DEADLOCK FALSE
