CONSTANTS
  Foreign = {x}
  Comments = {c1}
  Informational = {}
  Rules <- RulesByVersion
  Permits <- RulePermits
  Budget = 1
  MaxCommits = 2
  MaxSent = 3
  Crashes = FALSE
  None = None
  c1 = c1
  c2 = c2
  x = x
  rule1 = rule1
  rule2 = rule2
SPECIFICATION OneRepairSpec
INVARIANT RepairsArePushed
CHECK_DEADLOCK FALSE
