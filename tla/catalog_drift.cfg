\* One request, two queries, and any one column of a synced row changed
\* outside the sync.
SPECIFICATION Spec
CONSTANTS
  q1 = q1
  q2 = q2
  s1 = s1
  s2 = s2
  c1 = c1
  c2 = c2
  u1 = u1
  u2 = u2
  r1 = r1
  r2 = r2
  None = None
  QueryIds = {q1, q2}
  SqlTexts = {s1, s2}
  Commits = {c1, c2}
  History <- HistoryRevised
  Requests = {r1}
  Users = {u1}
  UserOf <- OneUser
  Agent = "claude"
  DriftColumns = {"sql", "sqlHash", "minRole", "minRoleLevel"}
  PoolSize = 1
  ChatRateLimit = 1
  RowCap = 2
  MatchCounts = {3}
  PlanCosts = {1}
  PlanRows = {1}
  MaxPlanCost = 2
  MaxPlanRows = 2
INVARIANTS
  EvidenceSound
  OnlyApprovedSqlRuns
  ExecutionAttributed
  IndInv
PROPERTY SyncsAsAStore
