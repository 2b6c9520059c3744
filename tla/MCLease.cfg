CONSTANTS
  Isolates = {i1, i2, i3}
  NoOwner = NoOwner
  NoRow = NoRow
  LeaseTime = 6
  Budget = 3
  AcquireTime = 1
  CronEarly = 1
  CronEvery = 4
  MaxFaults = 2
SPECIFICATION Spec
INVARIANTS TypeOK SweepersAlone SweeperHoldsLease DetectionResumes
PROPERTY SweepGoesOn
