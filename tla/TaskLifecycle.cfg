SPECIFICATION MCSpec
CONSTANTS
  Tasks = {t1, t2}
  Heads = {h1, h2}
  TransitionIds = {1, 2, 3, 4, 5, 6, 7, 8}
  MaxInflight = 2
  None = None
SYMMETRY TaskSymmetry
CHECK_DEADLOCK FALSE
INVARIANTS TypeOK ResumeReturns PullRequestIsVerified OfferedHeadIsVerified WorkHasAcceptedBrief ContractIsOfScope CommandsApplyOnce
PROPERTIES EngineSatisfiesTriggers
