SPECIFICATION Spec
CONSTANTS
  t1 = t1
  Jobs = {j1}
  Tasks <- OneTask
  TaskOf <- AllOfOneTask
  Workers = {w1, w2}
  Keys = {k1}
  MaxAttempts = 2
  MaxCheckpoints = 0
  None = None
CHECK_DEADLOCK FALSE
PROPERTIES LateResultsAreKept
