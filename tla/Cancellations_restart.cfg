CONSTANTS
  Jobs = {j1}
  AgentRuns = {t1}
  Processes = {}
  Cancellers = {}
  Services = {"worker"}
  Terminators = {}
  Observes <- Adapters
  MaxJobLeases = 2
  MaxBoots = 1
  Nobody = Nobody
SPECIFICATION CanSpec
INVARIANT EndedRunsBlockNothing
CHECK_DEADLOCK FALSE
