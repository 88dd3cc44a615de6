SPECIFICATION Spec
CONSTANTS
  p1 = p1
  p2 = p2
  Replicas = {p1, p2}
  Backends = {"postgres"}
  MachineOf <- OwnMachine
  MachineCount = 2
  SequenceCount = 2
  MaxClock = 3
  MaxStored = 2
  MaxId = 5
  MaxFailovers = 1
PROPERTY SequenceOnlyRaised
CHECK_DEADLOCK FALSE
