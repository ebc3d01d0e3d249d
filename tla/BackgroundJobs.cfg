SPECIFICATION Spec
CONSTANTS
  t1 = t1
  Jobs = {j1, j2}
  Tasks <- OneTask
  TaskOf <- AllOfOneTask
  Workers = {w1, w2}
  Keys = {k1, k2}
  MaxAttempts = 2
  MaxCheckpoints = 2
  None = None
ACTION_CONSTRAINT LeasesOrEffects
SYMMETRY Symmetry
CHECK_DEADLOCK FALSE
INVARIANTS TypeOK LeaseIsExclusive OwnerIsCurrent
PROPERTIES WritesAreAccepted PromiseKept
