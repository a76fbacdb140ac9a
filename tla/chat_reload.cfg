\* A sync commits while a request is being selected.
SPECIFICATION Spec
CONSTANTS
  q1 = q1
  q2 = q2
  s1 = s1
  s2 = s2
  c1 = c1
  c2 = c2
  u1 = u1
  u2 = u2
  r1 = r1
  r2 = r2
  None = None
  QueryIds = {q1}
  SqlTexts = {s1, s2}
  Commits = {c1, c2}
  History <- HistoryOneQuery
  Requests = {r1}
  Users = {u1}
  UserOf <- OneUser
  Agent = "deterministic"
  DriftColumns = {}
  PoolSize = 1
  ChatRateLimit = 1
  RowCap = 1
  MatchCounts = {1}
  PlanCosts = {1}
  PlanRows = {1}
  MaxPlanCost = 2
  MaxPlanRows = 2
PROPERTY ExecutesCurrentRow
