\* Two requests of one user that contend for pools of one connection, the
\* deterministic selector, every failure; requests are scheduled fairly, nothing else is.
SPECIFICATION FairSpec
CONSTANTS
  q1 = q1
  q2 = q2
  s1 = s1
  s2 = s2
  c1 = c1
  c2 = c2
  u1 = u1
  u2 = u2
  r1 = r1
  r2 = r2
  None = None
  QueryIds = {q1}
  SqlTexts = {s1}
  Commits = {c1}
  History <- HistorySingle
  Requests = {r1, r2}
  Users = {u1}
  UserOf <- OneUser
  Agent = "deterministic"
  DriftColumns = {}
  PoolSize = 1
  ChatRateLimit = 1
  RowCap = 1
  MatchCounts = {1, 2}
  PlanCosts = {1, 3}
  PlanRows = {1, 3}
  MaxPlanCost = 2
  MaxPlanRows = 2
INVARIANTS
  TypeOK
  AnswersAreRecorded
  NoHoldAndWait
  ResultHonest
PROPERTIES
  RecordsThenTells
  EveryRequestAnswered
