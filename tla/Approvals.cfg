SPECIFICATION MCSpec
CONSTANTS
  t1 = t1
  t2 = t2
  c1 = c1
  c2 = c2
  r1 = r1
  r2 = r2
  r3 = r3
  e1 = e1
  e2 = e2
  e3 = e3
  g1 = g1
  g2 = g2
  g3 = g3
  None = None
  Tasks = {t1, t2}
  Requests = {r1, r2, r3, e1, e2, e3}
  DecisionIds = {d1, d2}
  Types = {"BRIEF", "RETRY_LIMIT", "REVIEW_RULE"}
  Candidates = {c1, c2}
  TaskOf <- OnTwoTasks
  LineageOf <- OneLineage
  Eligible = {c1, c2}
  MaxBriefs = 2
  MaxPolicies = 7
  Jobs = {g1, g2, g3}
  JobTask <- Generations
  EscalationOf <- Questions
SYMMETRY Symmetry
CHECK_DEADLOCK FALSE
INVARIANTS TypeOK WaitingHasOneQuestion WaitingCanBeReleased WorkRestsOnApproval RulesInForce RetryResumesOnce
PROPERTIES DeadlineHolds WaitKeepsPromise
