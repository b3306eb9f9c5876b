SPECIFICATION PacingSpec
CONSTANTS
  v1 = v1  v2 = v2  v3 = v3
  Task = {v1, v2, v3}
  Rule <- Ids
  RuleOf <- Rules
  PerRule <- Selectors
  Default = NoLimit
  NoLimit = NoLimit
  DefaultBucket = DefaultBucket
  Http <- HttpRules
  Endpoints <- Requests
  Retries <- Repeats
  Timeouts = {0, 2}
  Horizon = 3
  Budgets = {0, 9}
  RateBase = 4
  ErrorBase = 1
  Advice = {0, 2}
  NoAdvice = NoAdvice
  x = x  y = y  z = z
  Commit = {1, 2, 3}
  Blob = {x, y, z}
  Contents <- Library
  Repos <- Repositories
  Name = {"a", "b", "d", "e", "z"}
  NoRepo = NoRepo
  NoTree = NoTree
  NoCommit = NoCommit
  LIMIT = 1
INVARIANTS WaitsStayInBudget FirstSeenIsExact BranchHistoryIsComplete RejectionsAreUnanimous
PROPERTIES RequestsAreSpaced EveryValidationEnds RetriesHeedTheServer EveryRequestReturns
