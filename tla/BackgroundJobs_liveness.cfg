SPECIFICATION LiveSpec
CONSTANTS
  t1 = t1
  Jobs = {j1, j2}
  Tasks <- OneTask
  TaskOf <- AllOfOneTask
  Workers = {w1, w2}
  Keys = {}
  MaxAttempts = 2
  MaxCheckpoints = 0
  None = None
ACTION_CONSTRAINT OneStarter
CHECK_DEADLOCK FALSE
PROPERTIES JobsEnd
