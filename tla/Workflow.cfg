CONSTANTS
  \* PullRequests
  Foreign = {x}
  Comments = {c1, c2}
  Informational = {c2}
  Rules <- RulesByVersion
  Permits <- RulePermits
  Budget = 1
  MaxCommits = 2
  MaxSent = 3
  Crashes = TRUE
  None = None
  c1 = c1
  c2 = c2
  x = x
  rule1 = rule1
  rule2 = rule2
  \* Validation
  Runs = {r1, r2}
  Operations = {unit}
  Criteria <- AcceptanceCriteria
  EvidenceTypes <- RequiredTypes
  Handed <- HandedBodies
  RepairBudget = 2
  MaxLeases = 2
  MaxCandidates = 2
  Legacy = TRUE
  Pauses = 1
  MayCrash = TRUE
  r1 = r1
  r2 = r2
  unit = unit
  works = works
  \* ScopedTools
  MaxAttempts = 2
  Tries = 2
  Proposals = {p1, p2}
  Asked <- AskedFor
  PolicyTools <- Tools
  BriefOperations = {"edit"}
  Included <- InScope
  Prohibited <- OutOfBounds
  HostResults <- Answers
  p1 = p1
  p2 = p2
  src = src
  secret = secret
  \* Evidence
  Records = {e1, e2}
  TaskRequest = e1
  Summaries = {s1}
  RuleIds = {candidate1}
  Deleters = {d1}
  MaxBuilds = 2
  MaxRestarts = 1
  e1 = e1
  \* Workspaces
  Paths = {src, secret}
  ProhibitedPaths = {secret}
  Contents = {0, 1}
  Callers = {w1, w2}
  MaxCandidateCommits = 2
  NoCommit = NoCommit
  \* Cancellations
  Jobs = {j1}
  AgentRuns = {t1}
  Processes = {q1}
  Cancellers = {k1}
  Services = {"api", "worker"}
  Terminators = {"worker"}
  Observes <- Adapters
  MaxJobLeases = 1
  MaxBoots = 2
  Nobody = Nobody
SPECIFICATION WorkflowSpec
INVARIANT WorkflowTypeOK
INVARIANT StaleReadinessIsWoken
INVARIANT HandoffIsExact
INVARIANT VerdictsAreNotCarriedOver
INVARIANT RepairsAreEarned
INVARIANT NoSilentEffect
INVARIANT SuccessIsAnswered
INVARIANT RowsHaveBytes
INVARIANT DeletedIsDestroyed
INVARIANT ManifestIsTrue
INVARIANT FenceHolds
PROPERTY RepairsAreAuthorized
CHECK_DEADLOCK FALSE
