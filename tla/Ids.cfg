SPECIFICATION FairSpec
CONSTANTS
  p1 = p1
  p2 = p2
  Replicas = {p1, p2}
  Backends = {"redis", "postgres", "snowflake"}
  MachineOf <- OwnMachine
  MachineCount = 2
  SequenceCount = 2
  MaxClock = 3
  MaxStored = 2
  MaxId = 3
  MaxFailovers = 1
INVARIANTS IssuedOnce PastPersisted
PROPERTY SourceSpec
PROPERTY BarrierLifts
CHECK_DEADLOCK FALSE
