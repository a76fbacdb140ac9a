------------------------- MODULE GovernedChatProofs -------------------------
(***************************************************************************)
(* Theorems about GovernedChat, for every number of requests, every        *)
(* history of the repository and every setting. First what the steps do:   *)
(* the types they keep, what a request carries from one stage to the next, *)
(* and which step writes what; the theorems rest on these lemmas.          *)
(***************************************************************************)
EXTENDS GovernedChat, TLAPS

-----------------------------------------------------------------------------
(* What the steps do.                                                      *)


\* What each way out of ask is recorded and answered as.
LEMMA HandlingFacts ==
  \A v \in Verdict :
    /\ Handling[v].outcome \in {"success", "denied", "error"}
    /\ Handling[v].outcome = "success" <=> v = "Answered"
  BY DEF Verdict, Handling

LEMMA HandlingStatus ==
  \A v \in Verdict : Handling[v].status \in 200..599 /\ Handling[v].status # 503
  BY DEF Verdict, Handling

LEMMA HandlingAnswer ==
  ASSUME NEW v \in Verdict
  PROVE  Response("handler", Handling[v].status) \in [by : {"gate", "handler"}, status : 200..599]
  BY HandlingStatus DEF Response

LEMMA VerdictNames ==
  Verdict = {"Answered", "RateLimited", "QueryBudgetExceeded", "PermissionError",
             "LookupError", "ValueError", "Exception"}
  BY DEF Verdict, Handling

\* The event written for a request that has reached its verdict is a row that
\* audit_events accepts.
LEMMA AuditEventType ==
  ASSUME TypeOK, NEW r \in Requests, CarriedAt(r),
         stage[r] \in {"audit", "auditing", "recorded"}
  PROVE  AuditEvent(r) \in AuditRow
<1> DEFINE v == verdict[r]
<1>1. v \in Verdict /\ role[r] \in Role
  BY DEF CarriedAt
<1>2. /\ Handling[v].outcome \in {"success", "denied", "error"}
      /\ Handling[v].category \in {Handling[w].category : w \in Verdict}
  BY <1>1, HandlingFacts
<1>3. /\ record[r] \in Row \union {None}
      /\ plan[r] \in Plan \union {None}
      /\ result[r] \in Result \union {None}
      /\ v = "QueryBudgetExceeded" => record[r] \in Row
  BY DEF TypeOK, CarriedAt
<1>4. \A row \in Row : row.id \in QueryIds /\ row.sqlHash \in Digest /\ row.commit \in Commits
  BY DEF Row
<1>5. \A x \in Result : x.row_count \in Nat
  BY DEF Result
<1> QED
  BY <1>1, <1>2, <1>3, <1>4, <1>5 DEF AuditEvent, AuditRow

LEMMA ResultOfType ==
  ASSUME NEW m \in MatchCounts
  PROVE  ResultOf(m) \in Result
  BY SettingsAssumption DEF ResultOf, Result, Least

LEMMA FreshRowType ==
  ASSUME NEW e \in Entry, NEW c \in Commits
  PROVE  FreshRow(e, c) \in Row
<1>1. catalog_hash(e) \in CatalogDigest /\ content_hash(e.sql) \in Digest
  BY DEF CatalogDigest, Digest, Entry
<1>2. ROLE_ACCESS[e.minRole] \in 1..3
  BY DEF Entry, Role, ROLE_ACCESS
<1> QED
  BY <1>1, <1>2 DEF FreshRow, Row, Entry

\* A hit is counted only below the limit.
LEMMA PassType ==
  ASSUME TypeOK, NEW r \in Requests, Pass(r)
  PROVE  hits' \in [Users -> 0..ChatRateLimit]
<1>1. UserOf[r] \in Users
  BY RequestsAssumption
<1>2. hits[UserOf[r]] \in 0..ChatRateLimit /\ hits[UserOf[r]] < ChatRateLimit
  BY <1>1 DEF Pass, TypeOK
<1>3. hits[UserOf[r]] + 1 \in 0..ChatRateLimit
  BY <1>2, SettingsAssumption
<1> QED
  BY <1>3 DEF Pass, TypeOK

LEMMA SyncType ==
  ASSUME catalog \subseteq Row, NEW c \in Commits, Sync(c)
  PROVE  catalog' \subseteq Row
<1>1. SUFFICES ASSUME NEW e \in History[c], NEW row \in Publish(c, e)
               PROVE  row \in Row
  BY DEF Sync
<1>2. e \in Entry
  BY HistoryAssumption
<1>3. CASE Unchanged(e) # {}
  <2>1. PICK x \in Unchanged(e) : row = [x EXCEPT !.commit = c]
    BY <1>3 DEF Publish
  <2>2. x \in Row
    BY <2>1 DEF Unchanged
  <2> QED
    BY <2>1, <2>2 DEF Row
<1>4. CASE Unchanged(e) = {}
  BY <1>2, <1>4, FreshRowType DEF Publish
<1> QED
  BY <1>3, <1>4

LEMMA DriftType ==
  ASSUME catalog \subseteq Row, NEW row \in catalog, NEW column \in DriftColumns,
         Drift(row, column)
  PROVE  catalog' \subseteq Row
<1> row \in Row
  OBVIOUS
<1>1. CASE column = "sql"
  <2>1. PICK value \in SqlTexts :
          catalog' = (catalog \ {row}) \union {[row EXCEPT !["sql"] = value]}
    BY <1>1 DEF Drift
  <2> QED
    BY <2>1 DEF Row
<1>2. CASE column = "sqlHash"
  <2>1. PICK value \in Digest :
          catalog' = (catalog \ {row}) \union {[row EXCEPT !["sqlHash"] = value]}
    BY <1>2 DEF Drift
  <2> QED
    BY <2>1 DEF Row
<1>3. CASE column = "minRole"
  <2>1. PICK value \in Role :
          catalog' = (catalog \ {row}) \union {[row EXCEPT !["minRole"] = value]}
    BY <1>3 DEF Drift
  <2> QED
    BY <2>1 DEF Row
<1>4. CASE column = "minRoleLevel"
  <2>1. PICK value \in 1..3 :
          catalog' = (catalog \ {row}) \union {[row EXCEPT !["minRoleLevel"] = value]}
    BY <1>4 DEF Drift
  <2> QED
    BY <2>1 DEF Row
<1> QED
  BY <1>1, <1>2, <1>3, <1>4, SettingsAssumption


\* A step of one request leaves what the others carry.
SameFor(q) ==
  /\ stage'[q] = stage[q] /\ role'[q] = role[q] /\ candidates'[q] = candidates[q]
  /\ record'[q] = record[q] /\ plan'[q] = plan[q] /\ result'[q] = result[q]
  /\ verdict'[q] = verdict[q] /\ reply'[q] = reply[q]

LEMMA OthersUntouched ==
  ASSUME TypeOK, NEW r \in Requests, Handle(r)
  PROVE  \A q \in Requests \ {r} : SameFor(q)
<1> USE DEF TypeOK, database, local, Go, Conclude, SameFor
<1>1. CASE RefuseAtGate(r)
  BY <1>1 DEF RefuseAtGate
<1>2. CASE Admit(r)
  BY <1>2 DEF Admit, Pass
<1>3. CASE Throttle(r)
  BY <1>3 DEF Throttle
<1>4. CASE RetrievalFails(r)
  BY <1>4 DEF RetrievalFails
<1>5. CASE AcquireForSearch(r)
  BY <1>5 DEF AcquireForSearch
<1>6. CASE SearchFails(r)
  BY <1>6 DEF SearchFails
<1>7. CASE SearchReturns(r)
  BY <1>7 DEF SearchReturns
<1>8. CASE SelectFails(r)
  BY <1>8 DEF SelectFails
<1>9. CASE SelectDenied(r)
  BY <1>9 DEF SelectDenied
<1>10. CASE SelectInvalid(r)
  BY <1>10 DEF SelectInvalid
<1>11. CASE SelectAccepted(r)
  BY <1>11 DEF SelectAccepted
<1>12. CASE ConnectFails(r)
  BY <1>12 DEF ConnectFails
<1>13. CASE AcquireForExecute(r)
  BY <1>13 DEF AcquireForExecute
<1>14. CASE ExplainReturns(r)
  BY <1>14 DEF ExplainReturns
<1>15. CASE BudgetDenied(r)
  BY <1>15 DEF BudgetDenied
<1>16. CASE ExplainFails(r)
  BY <1>16 DEF ExplainFails
<1>17. CASE FetchReturns(r)
  BY <1>17 DEF FetchReturns
<1>18. CASE FetchFails(r)
  BY <1>18 DEF FetchFails
<1>19. CASE Summarize(r)
  BY <1>19 DEF Summarize
<1>20. CASE SummarizeFails(r)
  BY <1>20 DEF SummarizeFails
<1>21. CASE AcquireForAudit(r)
  BY <1>21 DEF AcquireForAudit
<1>22. CASE AuditUnreachable(r)
  BY <1>22 DEF AuditUnreachable
<1>23. CASE InsertCommits(r)
  BY <1>23 DEF InsertCommits
<1>24. CASE AuditReturns(r)
  BY <1>24 DEF AuditReturns
<1>25. CASE AuditFails(r)
  BY <1>25 DEF AuditFails
<1>26. CASE EmbedFails(r)
  BY <1>26 DEF EmbedFails, Pass
<1>27. CASE EncodingFails(r)
  BY <1>27 DEF EncodingFails
<1> QED
  BY <1>1, <1>2, <1>3, <1>4, <1>5, <1>6, <1>7, <1>8, <1>9, <1>10, <1>11, <1>12, <1>13,
     <1>14, <1>15, <1>16, <1>17, <1>18, <1>19, <1>20, <1>21, <1>22, <1>23, <1>24, <1>25, <1>26, <1>27 DEF Handle

\* Where Go and Conclude take a request.
LEMMA GoEffect ==
  ASSUME TypeOK, NEW r \in Requests, NEW from, NEW to \in Stage, Go(r, from, to)
  PROVE  stage[r] = from /\ stage'[r] = to /\ stage' \in [Requests -> Stage]
  BY DEF TypeOK, Go

LEMMA ConcludeEffect ==
  ASSUME TypeOK, NEW r \in Requests, NEW from, NEW v \in Verdict, Conclude(r, from, v)
  PROVE  /\ stage[r] = from /\ stage'[r] = "audit" /\ stage' \in [Requests -> Stage]
         /\ verdict'[r] = v /\ verdict' \in [Requests -> Verdict \union {None}]
  BY DEF TypeOK, Go, Conclude, Stage

LEMMA CarriedByHandle ==
  ASSUME TypeOK, Carried, NEW r \in Requests, Handle(r)
  PROVE  CarriedAt(r)'
<1> USE VerdictNames, NoneAssumption
<1> USE DEF database, local, CarriedAt, Checked, BeforeSelect, Executing, Stage
<1>a. /\ CarriedAt(r)
      /\ r \in DOMAIN role /\ r \in DOMAIN candidates /\ r \in DOMAIN record
      /\ r \in DOMAIN plan /\ r \in DOMAIN result
  BY DEF Carried, TypeOK
<1>1. CASE RefuseAtGate(r)
  <2>1. stage[r] = "gate" /\ stage'[r] = "done"
    BY <1>1, GoEffect DEF RefuseAtGate
  <2> QED
    BY <1>1, <1>a, <2>1 DEF RefuseAtGate
<1>2. CASE Admit(r)
  <2>1. stage[r] = "gate" /\ stage'[r] = "search"
    BY <1>2, GoEffect DEF Admit, Pass
  <2> QED
    BY <1>2, <1>a, <2>1 DEF Admit, Pass
<1>3. CASE Throttle(r)
  <2>1. stage[r] = "gate" /\ stage'[r] = "audit" /\ verdict'[r] = "RateLimited"
    BY <1>3, ConcludeEffect DEF Throttle
  <2> QED
    BY <1>3, <1>a, <2>1 DEF Throttle
<1>4. CASE RetrievalFails(r)
  <2>1. stage[r] = "search" /\ stage'[r] = "audit" /\ verdict'[r] \in {"PermissionError", "ValueError", "Exception"}
    BY <1>4, ConcludeEffect DEF RetrievalFails
  <2> QED
    BY <1>4, <1>a, <2>1 DEF RetrievalFails
<1>5. CASE AcquireForSearch(r)
  <2>1. stage[r] = "search" /\ stage'[r] = "searching"
    BY <1>5, GoEffect DEF AcquireForSearch
  <2> QED
    BY <1>5, <1>a, <2>1 DEF AcquireForSearch
<1>6. CASE SearchFails(r)
  <2>1. stage[r] = "searching" /\ stage'[r] = "audit" /\ verdict'[r] \in {"ValueError", "Exception"}
    BY <1>6, ConcludeEffect DEF SearchFails
  <2> QED
    BY <1>6, <1>a, <2>1 DEF SearchFails
<1>7. CASE SearchReturns(r)
  <2>1. stage[r] = "searching" /\ stage'[r] = "select"
    BY <1>7, GoEffect DEF SearchReturns
  <2> QED
    BY <1>7, <1>a, <2>1 DEF SearchReturns
<1>8. CASE SelectFails(r)
  <2>1. stage[r] = "select" /\ stage'[r] = "audit" /\ verdict'[r] \in {"LookupError", "ValueError", "Exception"}
    BY <1>8, ConcludeEffect DEF SelectFails
  <2> QED
    BY <1>8, <1>a, <2>1 DEF SelectFails
<1>9. CASE SelectDenied(r)
  <2>1. stage[r] = "select" /\ stage'[r] = "audit" /\ verdict'[r] = "PermissionError"
    BY <1>9, ConcludeEffect DEF SelectDenied
  <2>2. record'[r] \in candidates[r] /\ record'[r] \in Row
    BY <1>9, <1>a DEF SelectDenied, TypeOK
  <2> QED
    BY <1>9, <1>a, <2>1, <2>2 DEF SelectDenied
<1>10. CASE SelectInvalid(r)
  <2>1. stage[r] = "select" /\ stage'[r] = "audit" /\ verdict'[r] \in {"ValueError", "Exception"}
    BY <1>10, ConcludeEffect DEF SelectInvalid
  <2>2. record'[r] \in candidates[r] /\ record'[r] \in Row
    BY <1>10, <1>a DEF SelectInvalid, TypeOK
  <2> QED
    BY <1>10, <1>a, <2>1, <2>2 DEF SelectInvalid
<1>11. CASE SelectAccepted(r)
  <2>1. stage[r] = "select" /\ stage'[r] = "execute"
    BY <1>11, GoEffect DEF SelectAccepted
  <2>2. record'[r] \in candidates[r] /\ record'[r] \in Row
    BY <1>11, <1>a DEF SelectAccepted, TypeOK
  <2> QED
    BY <1>11, <1>a, <2>1, <2>2 DEF SelectAccepted
<1>12. CASE ConnectFails(r)
  <2>1. stage[r] = "execute" /\ stage'[r] = "audit" /\ verdict'[r] \in {"PermissionError", "ValueError", "Exception"}
    BY <1>12, ConcludeEffect DEF ConnectFails
  <2> QED
    BY <1>12, <1>a, <2>1 DEF ConnectFails
<1>13. CASE AcquireForExecute(r)
  <2>1. stage[r] = "execute" /\ stage'[r] = "explain"
    BY <1>13, GoEffect DEF AcquireForExecute
  <2> QED
    BY <1>13, <1>a, <2>1 DEF AcquireForExecute
<1>14. CASE ExplainReturns(r)
  <2>1. stage[r] = "explain" /\ stage'[r] = "fetch"
    BY <1>14, GoEffect DEF ExplainReturns
  <2> QED
    BY <1>14, <1>a, <2>1 DEF ExplainReturns
<1>15. CASE BudgetDenied(r)
  <2>1. stage[r] = "explain" /\ stage'[r] = "audit" /\ verdict'[r] = "QueryBudgetExceeded"
    BY <1>15, ConcludeEffect DEF BudgetDenied
  <2> QED
    BY <1>15, <1>a, <2>1 DEF BudgetDenied
<1>16. CASE ExplainFails(r)
  <2>1. stage[r] = "explain" /\ stage'[r] = "audit" /\ verdict'[r] \in {"ValueError", "Exception"}
    BY <1>16, ConcludeEffect DEF ExplainFails
  <2> QED
    BY <1>16, <1>a, <2>1 DEF ExplainFails
<1>17. CASE FetchReturns(r)
  <2>1. stage[r] = "fetch" /\ stage'[r] = "summarize"
    BY <1>17, GoEffect DEF FetchReturns
  <2> QED
    BY <1>17, <1>a, <2>1 DEF FetchReturns
<1>18. CASE FetchFails(r)
  <2>1. stage[r] = "fetch" /\ stage'[r] = "audit" /\ verdict'[r] \in {"ValueError", "Exception"}
    BY <1>18, ConcludeEffect DEF FetchFails
  <2> QED
    BY <1>18, <1>a, <2>1 DEF FetchFails
<1>19. CASE Summarize(r)
  <2>1. stage[r] = "summarize" /\ stage'[r] = "audit" /\ verdict'[r] = "Answered"
    BY <1>19, ConcludeEffect DEF Summarize
  <2> QED
    BY <1>19, <1>a, <2>1 DEF Summarize
<1>20. CASE SummarizeFails(r)
  <2>1. stage[r] = "summarize" /\ stage'[r] = "audit" /\ verdict'[r] \in {"ValueError", "Exception"}
    BY <1>20, ConcludeEffect DEF SummarizeFails
  <2> QED
    BY <1>20, <1>a, <2>1 DEF SummarizeFails
<1>21. CASE AcquireForAudit(r)
  <2>1. stage[r] = "audit" /\ stage'[r] = "auditing"
    BY <1>21, GoEffect DEF AcquireForAudit
  <2> QED
    BY <1>21, <1>a, <2>1 DEF AcquireForAudit
<1>22. CASE AuditUnreachable(r)
  <2>1. stage[r] = "audit" /\ stage'[r] = "done"
    BY <1>22, GoEffect DEF AuditUnreachable
  <2> QED
    BY <1>22, <1>a, <2>1 DEF AuditUnreachable
<1>23. CASE InsertCommits(r)
  <2>1. stage[r] = "auditing" /\ stage'[r] = "recorded"
    BY <1>23, GoEffect DEF InsertCommits
  <2> QED
    BY <1>23, <1>a, <2>1 DEF InsertCommits
<1>24. CASE AuditReturns(r)
  <2>1. stage[r] = "recorded" /\ stage'[r] = "done"
    BY <1>24, GoEffect DEF AuditReturns
  <2> QED
    BY <1>24, <1>a, <2>1 DEF AuditReturns
<1>25. CASE AuditFails(r)
  <2>1. stage[r] \in {"auditing", "recorded"} /\ stage'[r] = "done"
    BY <1>25, GoEffect DEF AuditFails
  <2> QED
    BY <1>25, <1>a, <2>1 DEF AuditFails
<1>26. CASE EmbedFails(r)
  <2>1. stage[r] = "gate" /\ stage'[r] = "audit" /\ verdict'[r] \in {"PermissionError", "ValueError", "Exception"}
    BY <1>26, ConcludeEffect DEF EmbedFails
  <2> QED
    BY <1>26, <1>a, <2>1 DEF EmbedFails, Pass
<1>27. CASE EncodingFails(r)
  <2>1. stage[r] = "recorded" /\ stage'[r] = "done"
    BY <1>27, GoEffect DEF EncodingFails
  <2> QED
    BY <1>27, <1>a, <2>1 DEF EncodingFails
<1> QED
  BY <1>1, <1>2, <1>3, <1>4, <1>5, <1>6, <1>7, <1>8, <1>9, <1>10, <1>11, <1>12, <1>13,
     <1>14, <1>15, <1>16, <1>17, <1>18, <1>19, <1>20, <1>21, <1>22, <1>23, <1>24, <1>25, <1>26, <1>27 DEF Handle

LEMMA AnswerType ==
  ASSUME TypeOK, Carried, NEW r \in Requests, AuditReturns(r)
  PROVE  reply' \in [Requests -> [by : {"gate", "handler"}, status : 200..599] \union {None}]
<1>1. PICK v \in Verdict : v = verdict[r]
  BY DEF AuditReturns, Go, Carried, CarriedAt
<1>2. reply' = [reply EXCEPT ![r] = Response("handler", Handling[v].status)]
  BY <1>1 DEF AuditReturns
<1>3. Response("handler", Handling[v].status) \in [by : {"gate", "handler"}, status : 200..599]
  BY HandlingAnswer
<1>4. reply \in [Requests -> [by : {"gate", "handler"}, status : 200..599] \union {None}]
  BY DEF TypeOK
<1> QED
  BY <1>2, <1>3, <1>4

LEMMA TypeByHandle ==
  ASSUME TypeOK, Carried, NEW r \in Requests, Handle(r)
  PROVE  TypeOK'
<1> USE VerdictNames
<1> USE DEF TypeOK, database, local, Databases
<1>1. CASE RefuseAtGate(r)
  <2>1. stage' \in [Requests -> Stage]
    BY <1>1, GoEffect DEF RefuseAtGate, Stage
  <2>2. reply' \in [Requests -> [by : {"gate", "handler"}, status : 200..599] \union {None}]
    BY <1>1 DEF RefuseAtGate, Response
  <2> QED
    BY <1>1, <2>1, <2>2 DEF RefuseAtGate, Response
<1>2. CASE Admit(r)
  <2>1. stage' \in [Requests -> Stage]
    BY <1>2, GoEffect DEF Admit, Pass, Stage
  <2>2. role' \in [Requests -> Role \union {None}]
    BY <1>2 DEF Admit, Pass
  <2>3. hits' \in [Users -> 0..ChatRateLimit]
    BY <1>2, PassType DEF Admit
  <2> QED
    BY <1>2, <2>1, <2>2, <2>3 DEF Admit
<1>3. CASE Throttle(r)
  <2>1. stage' \in [Requests -> Stage] /\ verdict' \in [Requests -> Verdict \union {None}]
    BY <1>3, ConcludeEffect DEF Throttle, Stage
  <2>2. role' \in [Requests -> Role \union {None}]
    BY <1>3 DEF Throttle
  <2> QED
    BY <1>3, <2>1, <2>2 DEF Throttle
<1>4. CASE RetrievalFails(r)
  <2>1. stage' \in [Requests -> Stage] /\ verdict' \in [Requests -> Verdict \union {None}]
    BY <1>4, ConcludeEffect DEF RetrievalFails, Stage
  <2> QED
    BY <1>4, <2>1 DEF RetrievalFails
<1>5. CASE AcquireForSearch(r)
  <2>1. stage' \in [Requests -> Stage]
    BY <1>5, GoEffect DEF AcquireForSearch, Stage
  <2> QED
    BY <1>5, <2>1 DEF AcquireForSearch, Acquire
<1>6. CASE SearchFails(r)
  <2>1. stage' \in [Requests -> Stage] /\ verdict' \in [Requests -> Verdict \union {None}]
    BY <1>6, ConcludeEffect DEF SearchFails, Stage
  <2> QED
    BY <1>6, <2>1 DEF SearchFails, Release
<1>7. CASE SearchReturns(r)
  <2>1. stage' \in [Requests -> Stage]
    BY <1>7, GoEffect DEF SearchReturns, Stage
  <2>2. candidates' \in [Requests -> SUBSET Row]
    BY <1>7 DEF SearchReturns, Accessible
  <2> QED
    BY <1>7, <2>1, <2>2 DEF SearchReturns, Release, Accessible
<1>8. CASE SelectFails(r)
  <2>1. stage' \in [Requests -> Stage] /\ verdict' \in [Requests -> Verdict \union {None}]
    BY <1>8, ConcludeEffect DEF SelectFails, Stage
  <2> QED
    BY <1>8, <2>1 DEF SelectFails
<1>9. CASE SelectDenied(r)
  <2>1. stage' \in [Requests -> Stage] /\ verdict' \in [Requests -> Verdict \union {None}]
    BY <1>9, ConcludeEffect DEF SelectDenied, Stage
  <2>2. record' \in [Requests -> Row \union {None}]
    BY <1>9 DEF SelectDenied
  <2> QED
    BY <1>9, <2>1, <2>2 DEF SelectDenied
<1>10. CASE SelectInvalid(r)
  <2>1. stage' \in [Requests -> Stage] /\ verdict' \in [Requests -> Verdict \union {None}]
    BY <1>10, ConcludeEffect DEF SelectInvalid, Stage
  <2>2. record' \in [Requests -> Row \union {None}]
    BY <1>10 DEF SelectInvalid
  <2> QED
    BY <1>10, <2>1, <2>2 DEF SelectInvalid
<1>11. CASE SelectAccepted(r)
  <2>1. stage' \in [Requests -> Stage]
    BY <1>11, GoEffect DEF SelectAccepted, Stage
  <2>2. record' \in [Requests -> Row \union {None}]
    BY <1>11 DEF SelectAccepted
  <2> QED
    BY <1>11, <2>1, <2>2 DEF SelectAccepted
<1>12. CASE ConnectFails(r)
  <2>1. stage' \in [Requests -> Stage] /\ verdict' \in [Requests -> Verdict \union {None}]
    BY <1>12, ConcludeEffect DEF ConnectFails, Stage
  <2> QED
    BY <1>12, <2>1 DEF ConnectFails
<1>13. CASE AcquireForExecute(r)
  <2>1. stage' \in [Requests -> Stage]
    BY <1>13, GoEffect DEF AcquireForExecute, Stage
  <2> QED
    BY <1>13, <2>1 DEF AcquireForExecute, Acquire
<1>14. CASE ExplainReturns(r)
  <2>1. stage' \in [Requests -> Stage]
    BY <1>14, GoEffect DEF ExplainReturns, Stage
  <2>2. plan' \in [Requests -> Plan \union {None}]
    BY <1>14 DEF ExplainReturns
  <2> QED
    BY <1>14, <2>1, <2>2 DEF ExplainReturns
<1>15. CASE BudgetDenied(r)
  <2>1. stage' \in [Requests -> Stage] /\ verdict' \in [Requests -> Verdict \union {None}]
    BY <1>15, ConcludeEffect DEF BudgetDenied, Stage
  <2>2. plan' \in [Requests -> Plan \union {None}]
    BY <1>15 DEF BudgetDenied
  <2> QED
    BY <1>15, <2>1, <2>2 DEF BudgetDenied, Release
<1>16. CASE ExplainFails(r)
  <2>1. stage' \in [Requests -> Stage] /\ verdict' \in [Requests -> Verdict \union {None}]
    BY <1>16, ConcludeEffect DEF ExplainFails, Stage
  <2> QED
    BY <1>16, <2>1 DEF ExplainFails, Release
<1>17. CASE FetchReturns(r)
  <2>1. stage' \in [Requests -> Stage]
    BY <1>17, GoEffect DEF FetchReturns, Stage
  <2>2. result' \in [Requests -> Result \union {None}]
    BY <1>17, ResultOfType DEF FetchReturns
  <2> QED
    BY <1>17, <2>1, <2>2 DEF FetchReturns, Release
<1>18. CASE FetchFails(r)
  <2>1. stage' \in [Requests -> Stage] /\ verdict' \in [Requests -> Verdict \union {None}]
    BY <1>18, ConcludeEffect DEF FetchFails, Stage
  <2> QED
    BY <1>18, <2>1 DEF FetchFails, Release
<1>19. CASE Summarize(r)
  <2>1. stage' \in [Requests -> Stage] /\ verdict' \in [Requests -> Verdict \union {None}]
    BY <1>19, ConcludeEffect DEF Summarize, Stage
  <2> QED
    BY <1>19, <2>1 DEF Summarize
<1>20. CASE SummarizeFails(r)
  <2>1. stage' \in [Requests -> Stage] /\ verdict' \in [Requests -> Verdict \union {None}]
    BY <1>20, ConcludeEffect DEF SummarizeFails, Stage
  <2> QED
    BY <1>20, <2>1 DEF SummarizeFails
<1>21. CASE AcquireForAudit(r)
  <2>1. stage' \in [Requests -> Stage]
    BY <1>21, GoEffect DEF AcquireForAudit, Stage
  <2> QED
    BY <1>21, <2>1 DEF AcquireForAudit, Acquire
<1>22. CASE AuditUnreachable(r)
  <2>1. stage' \in [Requests -> Stage]
    BY <1>22, GoEffect DEF AuditUnreachable, Stage
  <2>2. reply' \in [Requests -> [by : {"gate", "handler"}, status : 200..599] \union {None}]
    BY <1>22 DEF AuditUnreachable, Response
  <2> QED
    BY <1>22, <2>1, <2>2 DEF AuditUnreachable, Response
<1>23. CASE InsertCommits(r)
  <2>1. stage' \in [Requests -> Stage]
    BY <1>23, GoEffect DEF InsertCommits, Stage
  <2>2. audit' \subseteq AuditRow
    BY <1>23, AuditEventType DEF InsertCommits, Go, Carried
  <2> QED
    BY <1>23, <2>1, <2>2 DEF InsertCommits
<1>24. CASE AuditReturns(r)
  <2>1. stage' \in [Requests -> Stage]
    BY <1>24, GoEffect DEF AuditReturns, Stage
  <2>2. reply' \in [Requests -> [by : {"gate", "handler"}, status : 200..599] \union {None}]
    BY <1>24, AnswerType
  <2> QED
    BY <1>24, <2>1, <2>2 DEF AuditReturns, Response, Release
<1>25. CASE AuditFails(r)
  <2>1. stage' \in [Requests -> Stage]
    BY <1>25, GoEffect DEF AuditFails, Stage
  <2>2. reply' \in [Requests -> [by : {"gate", "handler"}, status : 200..599] \union {None}]
    BY <1>25 DEF AuditFails, Response
  <2> QED
    BY <1>25, <2>1, <2>2 DEF AuditFails, Response, Release
<1>26. CASE EmbedFails(r)
  <2>1. stage' \in [Requests -> Stage] /\ verdict' \in [Requests -> Verdict \union {None}]
    BY <1>26, ConcludeEffect DEF EmbedFails, Stage
  <2>2. role' \in [Requests -> Role \union {None}]
    BY <1>26 DEF EmbedFails, Pass
  <2>3. hits' \in [Users -> 0..ChatRateLimit]
    BY <1>26, PassType DEF EmbedFails
  <2> QED
    BY <1>26, <2>1, <2>2, <2>3 DEF EmbedFails
<1>27. CASE EncodingFails(r)
  <2>1. stage' \in [Requests -> Stage]
    BY <1>27, GoEffect DEF EncodingFails, Stage
  <2>2. reply' \in [Requests -> [by : {"gate", "handler"}, status : 200..599] \union {None}]
    BY <1>27 DEF EncodingFails, Response
  <2> QED
    BY <1>27, <2>1, <2>2 DEF EncodingFails, Response, Release
<1> QED
  BY <1>1, <1>2, <1>3, <1>4, <1>5, <1>6, <1>7, <1>8, <1>9, <1>10, <1>11, <1>12, <1>13,
     <1>14, <1>15, <1>16, <1>17, <1>18, <1>19, <1>20, <1>21, <1>22, <1>23, <1>24, <1>25, <1>26, <1>27 DEF Handle

LEMMA InitType == Init => TypeOK /\ Carried
<1> SUFFICES ASSUME Init PROVE TypeOK /\ Carried
  OBVIOUS
<1>1. TypeOK
  BY SettingsAssumption DEF Init, TypeOK, Stage
<1>2. Carried
  BY VerdictNames, NoneAssumption DEF Init, Carried, CarriedAt, BeforeSelect, Executing
<1> QED
  BY <1>1, <1>2

\* Types, and what a request carries, survive every step.
LEMMA TypeStep ==
  ASSUME TypeOK, Carried, [Next]_vars
  PROVE  TypeOK' /\ Carried'
<1> USE DEF database, local
<1>1. ASSUME NEW r \in Requests, Arrive(r)
      PROVE  TypeOK' /\ Carried'
  <2>1. stage[r] = "new" /\ stage'[r] = "gate" /\ stage' \in [Requests -> Stage]
    BY <1>1, GoEffect DEF Arrive, Stage
  <2>2. TypeOK'
    BY <1>1, <2>1 DEF Arrive, TypeOK
  <2>3. ASSUME NEW q \in Requests PROVE CarriedAt(q)'
    <3>1. CASE q = r
      BY <1>1, <2>1, <3>1 DEF Arrive, Carried, CarriedAt, Checked, BeforeSelect, Executing
    <3>2. CASE q # r
      BY <1>1, <3>2 DEF Arrive, Go, TypeOK, Carried, CarriedAt, Checked
    <3> QED
      BY <3>1, <3>2
  <2> QED
    BY <2>2, <2>3 DEF Carried
<1>2. ASSUME NEW r \in Requests, Handle(r)
      PROVE  TypeOK' /\ Carried'
  <2>1. TypeOK'
    BY <1>2, TypeByHandle
  <2>2. CarriedAt(r)'
    BY <1>2, CarriedByHandle
  <2>3. ASSUME NEW q \in Requests \ {r} PROVE CarriedAt(q)'
    <3>1. SameFor(q)
      BY <1>2, OthersUntouched
    <3> QED
      BY <3>1 DEF SameFor, Carried, CarriedAt, Checked
  <2> QED
    BY <2>1, <2>2, <2>3 DEF Carried
<1>3. ASSUME UNCHANGED <<stage, local, reply>>, UNCHANGED <<audit, leases>>,
             hits' \in [Users -> 0..ChatRateLimit], catalog' \subseteq Row
      PROVE  TypeOK' /\ Carried'
  BY <1>3 DEF TypeOK, Carried, CarriedAt, Checked
<1>4. ASSUME NEW u \in Users, HitExpires(u)
      PROVE  TypeOK' /\ Carried'
  <2>1. hits[u] - 1 \in 0..ChatRateLimit
    BY <1>4, SettingsAssumption DEF HitExpires, TypeOK
  <2>2. hits' \in [Users -> 0..ChatRateLimit]
    BY <1>4, <2>1 DEF HitExpires, TypeOK
  <2> QED
    BY <1>3, <1>4, <2>2 DEF HitExpires, TypeOK
<1>5. ASSUME NEW c \in Commits, Sync(c)
      PROVE  TypeOK' /\ Carried'
  BY <1>3, <1>5, SyncType DEF Sync, TypeOK
<1>6. ASSUME NEW row \in catalog, NEW column \in DriftColumns, Drift(row, column)
      PROVE  TypeOK' /\ Carried'
  BY <1>3, <1>6, DriftType DEF Drift, TypeOK
<1>7. CASE Crash
  <2>1. stage' \in [Requests -> Stage] /\ hits' \in [Users -> 0..ChatRateLimit]
    BY <1>7, SettingsAssumption DEF Crash, TypeOK, Stage
  <2>2. TypeOK'
    BY <1>7, <2>1 DEF Crash, TypeOK
  <2>3. ASSUME NEW q \in Requests PROVE CarriedAt(q)'
    <3>1. stage'[q] = "lost" \/ stage'[q] = stage[q]
      BY <1>7 DEF Crash
    <3> QED
      BY <1>7, <3>1 DEF Crash, Carried, CarriedAt, Checked, BeforeSelect, Executing
  <2> QED
    BY <2>2, <2>3 DEF Carried
<1>8. CASE UNCHANGED vars
  BY <1>3, <1>8 DEF vars, TypeOK
<1> QED
  BY <1>1, <1>2, <1>4, <1>5, <1>6, <1>7, <1>8 DEF Next, Environment

\* Every variable keeps its shape, and every request carries at each stage what
\* the code has put there by then.
THEOREM TypeCorrect == Spec => [](TypeOK /\ Carried)
<1>1. Init => TypeOK /\ Carried
  BY InitType
<1>2. TypeOK /\ Carried /\ [Next]_vars => (TypeOK /\ Carried)'
  BY TypeStep
<1> QED
  BY <1>1, <1>2, PTL DEF Spec

-----------------------------------------------------------------------------
(* Which step writes what.                                                 *)

\* The event of a request depends on what the request carries only.
SameEvent(q) ==
  /\ role'[q] = role[q] /\ record'[q] = record[q] /\ plan'[q] = plan[q]
  /\ result'[q] = result[q] /\ verdict'[q] = verdict[q]

LEMMA EventFrame ==
  ASSUME NEW q \in Requests, SameEvent(q)
  PROVE  AuditEvent(q)' = AuditEvent(q)
  BY DEF SameEvent, AuditEvent

\* What each step of a request writes that others read.
LEMMA HandleWrites ==
  ASSUME NEW r \in Requests, Handle(r)
  PROVE  /\ catalog' = catalog
         /\ InsertCommits(r) \/ audit' = audit
         /\ \/ RefuseAtGate(r) \/ AuditUnreachable(r) \/ AuditReturns(r)
            \/ EncodingFails(r) \/ AuditFails(r) \/ reply' = reply
         /\ \/ Admit(r) \/ EmbedFails(r) \/ Throttle(r)
            \/ SearchReturns(r) \/ SelectDenied(r) \/ SelectInvalid(r) \/ SelectAccepted(r)
            \/ UNCHANGED <<role, candidates, record>>
         /\ ExplainReturns(r) \/ BudgetDenied(r) \/ UNCHANGED plan
         /\ FetchReturns(r) \/ UNCHANGED result
<1> USE DEF database, local
<1>1. CASE RefuseAtGate(r)
  <2>1. UNCHANGED <<catalog, audit, role, candidates, record, plan, result>>
    BY <1>1 DEF RefuseAtGate
  <2> QED
    BY <1>1, <2>1
<1>2. CASE Admit(r)
  BY <1>2 DEF Admit, Pass
<1>3. CASE Throttle(r)
  BY <1>3 DEF Throttle
<1>4. CASE RetrievalFails(r)
  BY <1>4 DEF RetrievalFails
<1>5. CASE AcquireForSearch(r)
  BY <1>5 DEF AcquireForSearch
<1>6. CASE SearchFails(r)
  BY <1>6 DEF SearchFails
<1>7. CASE SearchReturns(r)
  BY <1>7 DEF SearchReturns
<1>8. CASE SelectFails(r)
  BY <1>8 DEF SelectFails
<1>9. CASE SelectDenied(r)
  BY <1>9 DEF SelectDenied
<1>10. CASE SelectInvalid(r)
  BY <1>10 DEF SelectInvalid
<1>11. CASE SelectAccepted(r)
  BY <1>11 DEF SelectAccepted
<1>12. CASE ConnectFails(r)
  BY <1>12 DEF ConnectFails
<1>13. CASE AcquireForExecute(r)
  BY <1>13 DEF AcquireForExecute
<1>14. CASE ExplainReturns(r)
  BY <1>14 DEF ExplainReturns
<1>15. CASE BudgetDenied(r)
  BY <1>15 DEF BudgetDenied
<1>16. CASE ExplainFails(r)
  BY <1>16 DEF ExplainFails
<1>17. CASE FetchReturns(r)
  BY <1>17 DEF FetchReturns
<1>18. CASE FetchFails(r)
  BY <1>18 DEF FetchFails
<1>19. CASE Summarize(r)
  BY <1>19 DEF Summarize
<1>20. CASE SummarizeFails(r)
  BY <1>20 DEF SummarizeFails
<1>21. CASE AcquireForAudit(r)
  BY <1>21 DEF AcquireForAudit
<1>22. CASE AuditUnreachable(r)
  BY <1>22 DEF AuditUnreachable
<1>23. CASE InsertCommits(r)
  BY <1>23 DEF InsertCommits
<1>24. CASE AuditReturns(r)
  BY <1>24 DEF AuditReturns
<1>25. CASE AuditFails(r)
  BY <1>25 DEF AuditFails
<1>26. CASE EmbedFails(r)
  BY <1>26 DEF EmbedFails, Pass
<1>27. CASE EncodingFails(r)
  BY <1>27 DEF EncodingFails
<1> QED
  BY <1>1, <1>2, <1>3, <1>4, <1>5, <1>6, <1>7, <1>8, <1>9, <1>10, <1>11, <1>12, <1>13,
     <1>14, <1>15, <1>16, <1>17, <1>18, <1>19, <1>20, <1>21, <1>22, <1>23, <1>24, <1>25, <1>26, <1>27 DEF Handle

\* A request that has ended takes no step; only the INSERT leads to "recorded",
\* only a plan within the budget to "fetch"; and from the verdict on the verdict
\* stays.
LEMMA HandleStages ==
  ASSUME TypeOK, NEW r \in Requests, Handle(r)
  PROVE  /\ stage[r] \notin {"done", "lost"}
         /\ InsertCommits(r) \/ stage'[r] # "recorded"
         /\ ExplainReturns(r) \/ stage'[r] # "fetch"
         /\ \/ stage[r] \in BeforeSelect \union Executing
            \/ Summarize(r) \/ SummarizeFails(r)
            \/ stage[r] \in {"audit", "auditing", "recorded"} /\ UNCHANGED local
         /\ stage[r] = "recorded" => stage'[r] = "done"
<1> USE VerdictNames DEF Stage, BeforeSelect, Executing, local
<1>1. CASE RefuseAtGate(r)
  BY <1>1, GoEffect DEF RefuseAtGate
<1>2. CASE Admit(r)
  BY <1>2, GoEffect DEF Admit, Pass
<1>3. CASE Throttle(r)
  BY <1>3, ConcludeEffect DEF Throttle
<1>4. CASE RetrievalFails(r)
  BY <1>4, ConcludeEffect DEF RetrievalFails
<1>5. CASE AcquireForSearch(r)
  BY <1>5, GoEffect DEF AcquireForSearch
<1>6. CASE SearchFails(r)
  BY <1>6, ConcludeEffect DEF SearchFails
<1>7. CASE SearchReturns(r)
  BY <1>7, GoEffect DEF SearchReturns
<1>8. CASE SelectFails(r)
  BY <1>8, ConcludeEffect DEF SelectFails
<1>9. CASE SelectDenied(r)
  BY <1>9, ConcludeEffect DEF SelectDenied
<1>10. CASE SelectInvalid(r)
  BY <1>10, ConcludeEffect DEF SelectInvalid
<1>11. CASE SelectAccepted(r)
  BY <1>11, GoEffect DEF SelectAccepted
<1>12. CASE ConnectFails(r)
  BY <1>12, ConcludeEffect DEF ConnectFails
<1>13. CASE AcquireForExecute(r)
  BY <1>13, GoEffect DEF AcquireForExecute
<1>14. CASE ExplainReturns(r)
  <2>1. stage[r] = "explain" /\ stage'[r] = "fetch"
    BY <1>14, GoEffect DEF ExplainReturns
  <2> QED
    BY <1>14, <2>1
<1>15. CASE BudgetDenied(r)
  BY <1>15, ConcludeEffect DEF BudgetDenied
<1>16. CASE ExplainFails(r)
  BY <1>16, ConcludeEffect DEF ExplainFails
<1>17. CASE FetchReturns(r)
  BY <1>17, GoEffect DEF FetchReturns
<1>18. CASE FetchFails(r)
  BY <1>18, ConcludeEffect DEF FetchFails
<1>19. CASE Summarize(r)
  BY <1>19, ConcludeEffect DEF Summarize
<1>20. CASE SummarizeFails(r)
  BY <1>20, ConcludeEffect DEF SummarizeFails
<1>21. CASE AcquireForAudit(r)
  BY <1>21, GoEffect DEF AcquireForAudit
<1>22. CASE AuditUnreachable(r)
  BY <1>22, GoEffect DEF AuditUnreachable
<1>23. CASE InsertCommits(r)
  BY <1>23 DEF InsertCommits, Go
<1>24. CASE AuditReturns(r)
  BY <1>24, GoEffect DEF AuditReturns
<1>25. CASE AuditFails(r)
  BY <1>25, GoEffect DEF AuditFails
<1>26. CASE EmbedFails(r)
  BY <1>26, ConcludeEffect DEF EmbedFails
<1>27. CASE EncodingFails(r)
  BY <1>27, GoEffect DEF EncodingFails
<1> QED
  BY <1>1, <1>2, <1>3, <1>4, <1>5, <1>6, <1>7, <1>8, <1>9, <1>10, <1>11, <1>12, <1>13,
     <1>14, <1>15, <1>16, <1>17, <1>18, <1>19, <1>20, <1>21, <1>22, <1>23, <1>24, <1>25, <1>26, <1>27 DEF Handle

\* The connection of a request follows its stage: it takes one only when it has
\* none, and gives back the one it has.
LEMMA HandleLeases ==
  ASSUME TypeOK, NEW r \in Requests, Handle(r)
  PROVE  \/ UNCHANGED leases /\ Holds(stage'[r]) = Holds(stage[r])
         \/ \E db \in Databases :
              Acquire(r, db) /\ Holds(stage[r]) = {} /\ Holds(stage'[r]) = {db}
         \/ \E db \in Databases :
              Release(r, db) /\ Holds(stage[r]) = {db} /\ Holds(stage'[r]) = {}
<1> USE VerdictNames DEF Stage
<1>a. /\ \A s \in {"searching", "auditing", "recorded"} : Holds(s) = {"catalog"}
      /\ \A s \in {"explain", "fetch"} : Holds(s) = {"security"}
      /\ \A s \in Stage \ {"searching", "auditing", "recorded", "explain", "fetch"} : Holds(s) = {}
      /\ Databases = {"catalog", "security"}
  BY DEF Holds, Databases
<1>1. CASE RefuseAtGate(r)
  BY <1>a, <1>1, GoEffect DEF RefuseAtGate
<1>2. CASE Admit(r)
  BY <1>a, <1>2, GoEffect DEF Admit, Pass
<1>3. CASE Throttle(r)
  <2>1. stage[r] = "gate" /\ stage'[r] = "audit" /\ UNCHANGED leases
    BY <1>3, ConcludeEffect DEF Throttle
  <2> QED
    BY <1>a, <2>1
<1>4. CASE RetrievalFails(r)
  BY <1>a, <1>4, ConcludeEffect DEF RetrievalFails
<1>5. CASE AcquireForSearch(r)
  <2>1. stage[r] = "search" /\ stage'[r] = "searching" /\ Acquire(r, "catalog")
    BY <1>5, GoEffect DEF AcquireForSearch
  <2> QED
    BY <1>a, <2>1
<1>6. CASE SearchFails(r)
  BY <1>a, <1>6, ConcludeEffect DEF SearchFails
<1>7. CASE SearchReturns(r)
  BY <1>a, <1>7, GoEffect DEF SearchReturns
<1>8. CASE SelectFails(r)
  BY <1>a, <1>8, ConcludeEffect DEF SelectFails
<1>9. CASE SelectDenied(r)
  BY <1>a, <1>9, ConcludeEffect DEF SelectDenied
<1>10. CASE SelectInvalid(r)
  <2>1. stage[r] = "select" /\ stage'[r] = "audit" /\ UNCHANGED leases
    BY <1>10, ConcludeEffect DEF SelectInvalid
  <2> QED
    BY <1>a, <2>1
<1>11. CASE SelectAccepted(r)
  BY <1>a, <1>11, GoEffect DEF SelectAccepted
<1>12. CASE ConnectFails(r)
  BY <1>a, <1>12, ConcludeEffect DEF ConnectFails
<1>13. CASE AcquireForExecute(r)
  BY <1>a, <1>13, GoEffect DEF AcquireForExecute
<1>14. CASE ExplainReturns(r)
  BY <1>a, <1>14, GoEffect DEF ExplainReturns
<1>15. CASE BudgetDenied(r)
  <2>1. stage[r] = "explain" /\ stage'[r] = "audit" /\ Release(r, "security")
    BY <1>15, ConcludeEffect DEF BudgetDenied
  <2> QED
    BY <1>a, <2>1
<1>16. CASE ExplainFails(r)
  BY <1>a, <1>16, ConcludeEffect DEF ExplainFails
<1>17. CASE FetchReturns(r)
  BY <1>a, <1>17, GoEffect DEF FetchReturns
<1>18. CASE FetchFails(r)
  BY <1>a, <1>18, ConcludeEffect DEF FetchFails
<1>19. CASE Summarize(r)
  BY <1>a, <1>19, ConcludeEffect DEF Summarize
<1>20. CASE SummarizeFails(r)
  BY <1>a, <1>20, ConcludeEffect DEF SummarizeFails
<1>21. CASE AcquireForAudit(r)
  BY <1>a, <1>21, GoEffect DEF AcquireForAudit
<1>22. CASE AuditUnreachable(r)
  BY <1>a, <1>22, GoEffect DEF AuditUnreachable
<1>23. CASE InsertCommits(r)
  BY <1>a, <1>23, GoEffect DEF InsertCommits
<1>24. CASE AuditReturns(r)
  BY <1>a, <1>24, GoEffect DEF AuditReturns
<1>25. CASE AuditFails(r)
  BY <1>a, <1>25, GoEffect DEF AuditFails
<1>26. CASE EmbedFails(r)
  <2>1. stage[r] = "gate" /\ stage'[r] = "audit" /\ UNCHANGED leases
    BY <1>26, ConcludeEffect DEF EmbedFails, Pass
  <2> QED
    BY <1>a, <2>1
<1>27. CASE EncodingFails(r)
  BY <1>a, <1>27, GoEffect DEF EncodingFails
<1> QED
  BY <1>1, <1>2, <1>3, <1>4, <1>5, <1>6, <1>7, <1>8, <1>9, <1>10, <1>11, <1>12, <1>13,
     <1>14, <1>15, <1>16, <1>17, <1>18, <1>19, <1>20, <1>21, <1>22, <1>23, <1>24, <1>25, <1>26, <1>27
  DEF Handle


-----------------------------------------------------------------------------
(* The answer comes after the record.                                      *)

RecordedAt(q) ==
  /\ stage[q] = "recorded" => AuditEvent(q) \in audit
  /\ reply[q] # None => stage[q] = "done"
  /\ reply[q] # None /\ reply[q].by = "handler" /\ reply[q].status # 503 =>
       AuditEvent(q) \in audit /\ reply[q].status = Handling[verdict[q]].status

LEMMA RecordedFrame ==
  ASSUME NEW q \in Requests, RecordedAt(q), SameEvent(q), reply'[q] = reply[q],
         audit \subseteq audit',
         stage'[q] = stage[q] \/ (stage'[q] = "lost" /\ stage[q] # "done")
  PROVE  RecordedAt(q)'
<1>1. AuditEvent(q)' = AuditEvent(q)
  BY EventFrame
<1> QED
  BY <1>1 DEF RecordedAt, SameEvent

LEMMA RecordedByHandle ==
  ASSUME TypeOK, NEW r \in Requests, RecordedAt(r), Handle(r)
  PROVE  RecordedAt(r)'
<1> USE DEF database, local
<1>1. reply[r] = None
  BY HandleStages DEF RecordedAt
<1>2. CASE RefuseAtGate(r) \/ EncodingFails(r)
  <2>1. stage'[r] = "done" /\ reply'[r].by = "gate"
    BY <1>2, GoEffect DEF RefuseAtGate, EncodingFails, Stage, Response, TypeOK
  <2> QED
    BY <2>1 DEF RecordedAt
<1>3. CASE AuditUnreachable(r) \/ AuditFails(r)
  <2>1. stage'[r] = "done" /\ reply'[r].status = 503
    BY <1>3, GoEffect DEF AuditUnreachable, AuditFails, Stage, Response, TypeOK
  <2> QED
    BY <2>1 DEF RecordedAt
<1>4. CASE InsertCommits(r)
  <2>1. AuditEvent(r)' = AuditEvent(r)
    BY <1>4, EventFrame DEF InsertCommits, SameEvent
  <2>2. AuditEvent(r) \in audit' /\ reply'[r] = None
    BY <1>1, <1>4 DEF InsertCommits
  <2> QED
    BY <2>1, <2>2 DEF RecordedAt
<1>5. CASE AuditReturns(r)
  <2>1. AuditEvent(r)' = AuditEvent(r)
    BY <1>5, EventFrame DEF AuditReturns, SameEvent
  <2>2. stage[r] = "recorded" /\ stage'[r] = "done"
    BY <1>5, GoEffect DEF AuditReturns, Stage
  <2>3. /\ reply'[r] = Response("handler", Handling[verdict[r]].status)
        /\ verdict' = verdict /\ audit' = audit
    BY <1>5 DEF AuditReturns, TypeOK
  <2> QED
    BY <2>1, <2>2, <2>3 DEF RecordedAt, Response
<1>6. CASE reply' = reply /\ ~InsertCommits(r)
  BY <1>1, <1>6, HandleStages DEF RecordedAt
<1> QED
  BY <1>2, <1>3, <1>4, <1>5, <1>6, HandleWrites

LEMMA RecordedStep ==
  ASSUME TypeOK, \A q \in Requests : RecordedAt(q), [Next]_vars
  PROVE  \A q \in Requests : RecordedAt(q)'
<1> SUFFICES ASSUME NEW q \in Requests PROVE RecordedAt(q)'
  OBVIOUS
<1> USE DEF database, local
<1>1. ASSUME NEW r \in Requests, Handle(r) PROVE RecordedAt(q)'
  <2>1. CASE q = r
    BY <1>1, <2>1, RecordedByHandle
  <2>2. CASE q # r
    <3>1. SameFor(q) /\ audit \subseteq audit'
      BY <1>1, <2>2, OthersUntouched, HandleWrites DEF InsertCommits
    <3> QED
      BY <3>1, RecordedFrame DEF SameFor, SameEvent
  <2> QED
    BY <2>1, <2>2
<1>2. ASSUME NEW r \in Requests, Arrive(r) PROVE RecordedAt(q)'
  <2>1. stage[r] = "new" /\ stage'[r] = "gate"
    BY <1>2, GoEffect DEF Arrive, Stage
  <2>2. \A p \in Requests \ {r} : stage'[p] = stage[p]
    BY <1>2 DEF Arrive, Go, TypeOK
  <2>3. SameEvent(q) /\ reply' = reply /\ audit' = audit
    BY <1>2 DEF Arrive, SameEvent
  <2>4. CASE q = r
    BY <2>1, <2>3, <2>4 DEF RecordedAt
  <2>5. CASE q # r
    BY <2>2, <2>3, <2>5, RecordedFrame
  <2> QED
    BY <2>4, <2>5
<1>3. CASE UNCHANGED <<stage, local, reply, audit>>
  BY <1>3, RecordedFrame DEF SameEvent
<1>4. CASE Crash
  <2>1. stage'[q] = stage[q] \/ (stage'[q] = "lost" /\ stage[q] # "done")
    BY <1>4 DEF Crash, InFlight
  <2> QED
    BY <1>4, <2>1, RecordedFrame DEF Crash, SameEvent
<1>5. ASSUME Environment, ~Crash PROVE UNCHANGED <<stage, local, reply, audit>>
  BY <1>5 DEF Environment, HitExpires, Sync, Drift
<1> QED
  BY <1>1, <1>2, <1>3, <1>4, <1>5 DEF Next, vars

-----------------------------------------------------------------------------
(* What runs, and what the audit says ran, is what the repository approved. *)

\* Hashes are as good as what they are taken of.
LEMMA HashesInjective ==
  /\ \A t, u \in SqlTexts : content_hash(t) = content_hash(u) => t = u
  /\ \A e, f \in Entry : catalog_hash(e) = catalog_hash(f) => e = f
<1>1. \A t, u : content_hash(t) = content_hash(u) => t = u
  BY DEF content_hash
<1>2. ASSUME NEW e \in Entry, NEW f \in Entry, catalog_hash(e) = catalog_hash(f)
      PROVE  e = f
  <2>1. /\ catalog_hash(e).sha256.id = e.id /\ catalog_hash(f).sha256.id = f.id
        /\ catalog_hash(e).sha256.minRole = e.minRole
        /\ catalog_hash(f).sha256.minRole = f.minRole
        /\ catalog_hash(e).sha256.sqlHash = content_hash(e.sql)
        /\ catalog_hash(f).sha256.sqlHash = content_hash(f.sql)
    BY DEF catalog_hash
  <2>2. e.id = f.id /\ e.minRole = f.minRole /\ e.sql = f.sql
    BY <1>1, <1>2, <2>1
  <2> QED
    BY <2>2 DEF Entry
<1> QED
  BY <1>1, <1>2

LEMMA RoleLevels ==
  \A x \in Role : ROLE_ACCESS[x] \in 1..3
  BY DEF Role, ROLE_ACCESS

\* A row that passed execute's checks holds, under its commit, an approved text
\* open to the role, even if one of its columns was changed: the two checks on
\* each side read different columns.
LEMMA CheckedIsApproved ==
  ASSUME NEW row \in Row, NEW x \in Role, SoundRow(row), Intact(row),
         can_access(x, row.minRole), row.minRoleLevel <= ROLE_ACCESS[x]
  PROVE  \E e \in History[row.commit] :
           /\ e.id = row.id /\ e.sql = row.sql /\ content_hash(e.sql) = row.sqlHash
           /\ can_access(x, e.minRole)
<1>1. PICK e \in History[row.commit] :
        /\ row.id = e.id
        /\ row.sql = e.sql \/ row.sqlHash = content_hash(e.sql)
        /\ row.minRole = e.minRole \/ row.minRoleLevel = ROLE_ACCESS[e.minRole]
  BY DEF SoundRow
<1>2. e \in Entry /\ e.sql \in SqlTexts /\ row.sql \in SqlTexts
  BY HistoryAssumption DEF Row, Entry
<1>3. e.sql = row.sql /\ content_hash(e.sql) = row.sqlHash
  BY <1>1, <1>2, HashesInjective DEF Intact
<1>4. can_access(x, e.minRole)
  BY <1>1, RoleLevels DEF can_access
<1> QED
  BY <1>1, <1>3, <1>4

LEMMA SyncSound ==
  ASSUME catalog \subseteq Row, \A row \in catalog : SoundRow(row),
         NEW c \in Commits, Sync(c)
  PROVE  \A row \in catalog' : SoundRow(row)
<1>1. SUFFICES ASSUME NEW e \in History[c], NEW row \in Publish(c, e)
               PROVE  SoundRow(row)
  BY DEF Sync
<1>2. e \in Entry
  BY HistoryAssumption
<1>3. CASE Unchanged(e) # {}
  <2>1. PICK x \in Unchanged(e) : row = [x EXCEPT !.commit = c]
    BY <1>3 DEF Publish
  <2>2. x \in Row /\ SoundRow(x) /\ x.catalogHash = catalog_hash(e)
    BY <2>1 DEF Unchanged
  <2>3. PICK f \in History[x.commit] :
          /\ x.id = f.id /\ x.catalogHash = catalog_hash(f)
          /\ x.sql = f.sql \/ x.sqlHash = content_hash(f.sql)
          /\ x.minRole = f.minRole \/ x.minRoleLevel = ROLE_ACCESS[f.minRole]
    BY <2>2 DEF SoundRow
  <2>4. f \in Entry
    BY <2>2, HistoryAssumption DEF Row
  <2>5. f = e
    BY <1>2, <2>2, <2>3, <2>4, HashesInjective
  <2>6. /\ row.commit = c /\ row.id = x.id /\ row.catalogHash = x.catalogHash
        /\ row.sql = x.sql /\ row.sqlHash = x.sqlHash
        /\ row.minRole = x.minRole /\ row.minRoleLevel = x.minRoleLevel
    BY <2>1, <2>2 DEF Row
  <2> QED
    BY <2>3, <2>5, <2>6 DEF SoundRow
<1>4. CASE Unchanged(e) = {}
  <2>1. row = FreshRow(e, c)
    BY <1>4 DEF Publish
  <2> QED
    BY <2>1 DEF FreshRow, SoundRow
<1> QED
  BY <1>3, <1>4

LEMMA DriftSound ==
  ASSUME catalog \subseteq Row, \A x \in catalog : SoundRow(x),
         NEW row \in catalog, NEW column \in DriftColumns, Drift(row, column)
  PROVE  \A x \in catalog' : SoundRow(x)
<1>1. PICK e \in History[row.commit] : row = FreshRow(e, row.commit)
  BY DEF Drift, AsSynced
<1>2. column \in {"sql", "sqlHash", "minRole", "minRoleLevel"} /\ row \in Row
  BY SettingsAssumption
<1>3. PICK value : catalog' = (catalog \ {row}) \union {[row EXCEPT ![column] = value]}
  BY DEF Drift
<1> DEFINE drifted == [row EXCEPT ![column] = value]
<1>4. /\ drifted.commit = row.commit /\ drifted.id = row.id
      /\ drifted.catalogHash = row.catalogHash
      /\ drifted.sql = row.sql \/ drifted.sqlHash = row.sqlHash
      /\ drifted.minRole = row.minRole \/ drifted.minRoleLevel = row.minRoleLevel
  BY <1>2 DEF Row
<1>5. /\ row.id = e.id /\ row.catalogHash = catalog_hash(e)
      /\ row.sql = e.sql /\ row.sqlHash = content_hash(e.sql)
      /\ row.minRole = e.minRole /\ row.minRoleLevel = ROLE_ACCESS[e.minRole]
  BY <1>1 DEF FreshRow
<1>6. SoundRow(drifted)
  BY <1>4, <1>5 DEF SoundRow
<1> QED
  BY <1>3, <1>6

LEMMA SoundStep ==
  ASSUME TypeOK, Carried, SoundRows, [Next]_vars
  PROVE  SoundRows'
<1> USE DEF database, local
<1>1. SoundRows' <=>
        /\ \A row \in catalog' : SoundRow(row)
        /\ \A q \in Requests : \A row \in candidates'[q] :
             SoundRow(row) /\ row.minRoleLevel <= ROLE_ACCESS[role'[q]]
        /\ \A q \in Requests : record'[q] # None =>
             SoundRow(record'[q]) /\ record'[q].minRoleLevel <= ROLE_ACCESS[role'[q]]
  BY DEF SoundRows, SoundFor, SoundRow
<1>2. CASE UNCHANGED <<role, candidates, record>> /\ \A row \in catalog' : SoundRow(row)
  BY <1>1, <1>2 DEF SoundRows, SoundFor
<1>3. ASSUME NEW r \in Requests, Handle(r), ~UNCHANGED <<role, candidates, record>>
      PROVE  SoundRows'
  <2>1. catalog' = catalog /\ \A q \in Requests \ {r} : SameFor(q)
    BY <1>3, OthersUntouched, HandleWrites
  <2>2. SUFFICES
          /\ \A row \in candidates'[r] :
               SoundRow(row) /\ row.minRoleLevel <= ROLE_ACCESS[role'[r]]
          /\ record'[r] # None =>
               SoundRow(record'[r]) /\ record'[r].minRoleLevel <= ROLE_ACCESS[role'[r]]
    BY <1>1, <2>1 DEF SoundRows, SoundFor, SameFor
  <2>3. CASE Admit(r) \/ EmbedFails(r) \/ Throttle(r)
    <3>1. candidates'[r] = {} /\ record'[r] = None
      BY <2>3 DEF Admit, Pass, EmbedFails, Throttle, Go, Conclude, Carried, CarriedAt, BeforeSelect
    <3> QED
      BY <3>1
  <2>4. CASE SearchReturns(r)
    <3>1. candidates'[r] \subseteq Accessible(role[r])
      BY <2>4 DEF SearchReturns, TypeOK
    <3>2. record'[r] = None /\ role'[r] = role[r]
      BY <2>4 DEF SearchReturns, Go, Carried, CarriedAt, BeforeSelect
    <3> QED
      BY <3>1, <3>2 DEF Accessible, SoundRows
  <2>5. CASE SelectDenied(r) \/ SelectInvalid(r) \/ SelectAccepted(r)
    <3>1. record'[r] \in candidates[r]
      BY <2>5 DEF SelectDenied, SelectInvalid, SelectAccepted, TypeOK
    <3>2. candidates' = candidates /\ role' = role
      BY <2>5 DEF SelectDenied, SelectInvalid, SelectAccepted
    <3> QED
      BY <3>1, <3>2 DEF SoundRows, SoundFor
  <2> QED
    BY <1>3, <2>3, <2>4, <2>5, HandleWrites
<1>4. ASSUME NEW r \in Requests, Arrive(r) PROVE SoundRows'
  BY <1>2, <1>4 DEF Arrive, SoundRows
<1>5. ASSUME NEW u \in Users, HitExpires(u) PROVE SoundRows'
  BY <1>2, <1>5 DEF HitExpires, SoundRows
<1>6. ASSUME NEW c \in Commits, Sync(c) PROVE SoundRows'
  BY <1>2, <1>6, SyncSound DEF Sync, TypeOK, SoundRows
<1>7. ASSUME NEW row \in catalog, NEW column \in DriftColumns, Drift(row, column)
      PROVE  SoundRows'
  BY <1>2, <1>7, DriftSound DEF Drift, TypeOK, SoundRows
<1>8. CASE Crash
  BY <1>2, <1>8 DEF Crash, SoundRows
<1>9. CASE UNCHANGED vars
  BY <1>2, <1>9 DEF vars, SoundRows
<1>10. ASSUME NEW r \in Requests, Handle(r) PROVE SoundRows'
  <2>1. CASE UNCHANGED <<role, candidates, record>>
    BY <1>2, <1>10, <2>1, HandleWrites DEF SoundRows
  <2> QED
    BY <1>3, <1>10, <2>1
<1> QED
  BY <1>4, <1>5, <1>6, <1>7, <1>8, <1>9, <1>10 DEF Next, Environment

\* An event that says success is about a checked record.
LEMMA SuccessIsChecked ==
  ASSUME TypeOK, Carried, SoundRows, NEW r \in Requests, stage[r] = "auditing",
         AuditEvent(r).outcome = "success"
  PROVE  \E e \in History[AuditEvent(r).source_commit] :
           /\ e.id = AuditEvent(r).catalog_id
           /\ content_hash(e.sql) = AuditEvent(r).sql_hash
           /\ can_access(AuditEvent(r).role, e.minRole)
<1>1. CarriedAt(r) /\ verdict[r] \in Verdict /\ role[r] \in Role
  BY DEF Carried, CarriedAt
<1>2. AuditEvent(r).outcome = Handling[verdict[r]].outcome /\ AuditEvent(r).role = role[r]
  BY DEF AuditEvent
<1>3. verdict[r] = "Answered"
  <2>1. Handling[verdict[r]].outcome = "success"
    BY <1>2
  <2> QED
    BY <1>1, <2>1, HandlingFacts
<1>4. Checked(r)
  BY <1>1, <1>3 DEF CarriedAt
<1>5. record[r] \in Row /\ record[r] # None /\ SoundFor(r, record[r])
  BY <1>4, NoneAssumption DEF Checked, SoundRows
<1>6. /\ AuditEvent(r).source_commit = record[r].commit
      /\ AuditEvent(r).catalog_id = record[r].id
      /\ AuditEvent(r).sql_hash = record[r].sqlHash
  BY <1>3, <1>5 DEF AuditEvent, WithContext
<1>7. \E e \in History[record[r].commit] :
        /\ e.id = record[r].id /\ e.sql = record[r].sql
        /\ content_hash(e.sql) = record[r].sqlHash /\ can_access(role[r], e.minRole)
  BY <1>1, <1>4, <1>5, CheckedIsApproved DEF Checked, SoundFor
<1> QED
  BY <1>2, <1>6, <1>7

LEMMA EvidenceStep ==
  ASSUME TypeOK, Carried, SoundRows, EvidenceSound, [Next]_vars
  PROVE  EvidenceSound'
<1>1. CASE audit' = audit
  BY <1>1 DEF EvidenceSound
<1>2. ASSUME NEW r \in Requests, InsertCommits(r) PROVE EvidenceSound'
  <2>1. audit' = audit \union {AuditEvent(r)} /\ stage[r] = "auditing"
    BY <1>2 DEF InsertCommits, Go
  <2> QED
    BY <2>1, SuccessIsChecked DEF EvidenceSound
<1>3. ASSUME NEW r \in Requests, Handle(r), ~InsertCommits(r) PROVE audit' = audit
  BY <1>3, HandleWrites
<1> QED
  BY <1>1, <1>2, <1>3
  DEF Next, Environment, Arrive, HitExpires, Sync, Drift, Crash, vars, database

-----------------------------------------------------------------------------
(* Connections, budgets, and whose event an event is.                      *)

\* A request has exactly the connection its stage needs.
LEMMA LeasedStep ==
  ASSUME TypeOK, Leased, [Next]_vars
  PROVE  Leased'
<1> USE DEF Leased
<1>1. ASSUME NEW r \in Requests, Handle(r) PROVE Leased'
  <2>1. \A q \in Requests \ {r} : stage'[q] = stage[q]
    BY <1>1, OthersUntouched DEF SameFor
  <2>2. CASE UNCHANGED leases /\ Holds(stage'[r]) = Holds(stage[r])
    <3>1. \A q \in Requests : Holds(stage'[q]) = Holds(stage[q])
      BY <2>1, <2>2
    <3> QED
      BY <2>2, <3>1
  <2>3. ASSUME NEW db \in Databases, Acquire(r, db),
               Holds(stage[r]) = {}, Holds(stage'[r]) = {db}
        PROVE  Leased'
    BY <2>1, <2>3 DEF Acquire
  <2>4. ASSUME NEW db \in Databases, Release(r, db),
               Holds(stage[r]) = {db}, Holds(stage'[r]) = {}
        PROVE  Leased'
    BY <2>1, <2>4 DEF Release
  <2> QED
    BY <1>1, <2>2, <2>3, <2>4, HandleLeases
<1>2. ASSUME NEW r \in Requests, Arrive(r) PROVE Leased'
  <2>1. stage[r] = "new" /\ stage'[r] = "gate" /\ leases' = leases
    BY <1>2, GoEffect DEF Arrive, Stage
  <2>2. \A q \in Requests \ {r} : stage'[q] = stage[q]
    BY <1>2 DEF Arrive, Go, TypeOK
  <2> QED
    BY <2>1, <2>2 DEF Holds
<1>3. CASE UNCHANGED <<stage, leases>>
  BY <1>3
<1>4. CASE Crash
  <2>1. \A q \in Requests : stage'[q] \in {"new", "done", "lost"}
    BY <1>4 DEF Crash, InFlight
  <2> QED
    BY <1>4, <2>1 DEF Crash, Holds
<1> QED
  BY <1>1, <1>2, <1>3, <1>4 DEF Next, Environment, HitExpires, Sync, Drift, vars

\* The plan that was within the budget is the plan the rows were fetched for.
LEMMA BudgetedStep ==
  ASSUME TypeOK, Carried, Budgeted, [Next]_vars
  PROVE  Budgeted'
<1> USE DEF Budgeted, BudgetedAt
<1>1. ASSUME NEW r \in Requests, Handle(r) PROVE Budgeted'
  <2>1. \A q \in Requests \ {r} : SameFor(q)
    BY <1>1, OthersUntouched
  <2>2. CASE ExplainReturns(r)
    <3>1. stage[r] = "explain" /\ plan'[r] \in Plan /\ WithinBudget(plan'[r]) /\ result' = result
      BY <2>2, GoEffect DEF ExplainReturns, Stage, TypeOK
    <3>2. result'[r] = None
      BY <3>1 DEF Carried, CarriedAt, Executing
    <3> QED
      BY <2>1, <3>1, <3>2 DEF SameFor
  <2>3. CASE BudgetDenied(r)
    <3>1. stage[r] = "explain" /\ stage'[r] = "audit" /\ result' = result
      BY <2>3, ConcludeEffect, VerdictNames DEF BudgetDenied
    <3>2. result'[r] = None
      BY <3>1 DEF Carried, CarriedAt, Executing
    <3> QED
      BY <2>1, <3>1, <3>2 DEF SameFor
  <2>4. CASE FetchReturns(r)
    <3>1. /\ stage[r] = "fetch" /\ plan' = plan
          /\ \E m \in MatchCounts : result'[r] = ResultOf(m)
      BY <2>4, GoEffect DEF FetchReturns, Stage, TypeOK
    <3> QED
      BY <2>1, <3>1 DEF SameFor
  <2>5. CASE UNCHANGED <<plan, result>> /\ stage'[r] # "fetch"
    BY <2>1, <2>5 DEF SameFor
  <2> QED
    BY <1>1, <2>2, <2>3, <2>4, <2>5, HandleWrites, HandleStages
<1>2. ASSUME UNCHANGED <<plan, result>>,
             \A q \in Requests : stage'[q] = "fetch" => stage[q] = "fetch"
      PROVE  Budgeted'
  BY <1>2
<1>3. ASSUME NEW r \in Requests, Arrive(r) PROVE Budgeted'
  <2>1. stage'[r] = "gate" /\ UNCHANGED <<plan, result>>
    BY <1>3, GoEffect DEF Arrive, Stage, local
  <2>2. \A q \in Requests \ {r} : stage'[q] = stage[q]
    BY <1>3 DEF Arrive, Go, TypeOK
  <2> QED
    BY <1>2, <2>1, <2>2
<1>4. CASE Crash
  BY <1>2, <1>4 DEF Crash, local
<1>5. CASE UNCHANGED <<stage, local>>
  BY <1>2, <1>5 DEF local
<1> QED
  BY <1>1, <1>3, <1>4, <1>5 DEF Next, Environment, HitExpires, Sync, Drift, vars, local

\* Every way out of ask after the query has run leaves a verdict with context.
LEMMA ContextAfterRun ==
  ASSUME TypeOK, Carried, NEW r \in Requests, AttributedAt(r), Handle(r),
         stage'[r] \in {"audit", "auditing", "recorded"}, result'[r] # None
  PROVE  WithContext(verdict'[r])
<1>1. CASE stage[r] \in BeforeSelect \union Executing
  <2>1. result[r] = None
    BY <1>1 DEF Carried, CarriedAt
  <2>2. FetchReturns(r)
    BY <2>1, HandleWrites
  <2>3. stage'[r] = "summarize"
    BY <2>2, GoEffect DEF FetchReturns, Stage
  <2> QED
    BY <2>3
<1>2. CASE Summarize(r) \/ SummarizeFails(r)
  <2>1. verdict'[r] \in {"Answered", "ValueError", "Exception"}
    BY <1>2, ConcludeEffect, VerdictNames DEF Summarize, SummarizeFails
  <2> QED
    BY <2>1 DEF WithContext
<1>3. CASE stage[r] \in {"audit", "auditing", "recorded"} /\ UNCHANGED local
  BY <1>3 DEF AttributedAt, local
<1> QED
  BY <1>1, <1>2, <1>3, HandleStages

\* An event in the audit is the event of its request, and stays that.
LEMMA AttributedFrame ==
  ASSUME NEW q \in Requests, AttributedAt(q), SameEvent(q),
         \A a \in audit' : a \in audit \/ a.request_id # q,
         stage'[q] = stage[q] \/ stage'[q] = "lost"
         \/ (stage[q] = "recorded" /\ stage'[q] = "done")
  PROVE  AttributedAt(q)'
<1>1. AuditEvent(q)' = AuditEvent(q)
  BY EventFrame
<1> QED
  BY <1>1 DEF AttributedAt, SameEvent

LEMMA AttributedByHandle ==
  ASSUME TypeOK, Carried, NEW r \in Requests, AttributedAt(r), Handle(r)
  PROVE  AttributedAt(r)'
<1>1. CASE InsertCommits(r)
  <2>1. /\ stage[r] = "auditing" /\ stage'[r] = "recorded"
        /\ audit' = audit \union {AuditEvent(r)} /\ UNCHANGED local
    BY <1>1, GoEffect DEF InsertCommits, Stage
  <2>2. AuditEvent(r)' = AuditEvent(r)
    BY <2>1, EventFrame DEF SameEvent, local
  <2>3. \A a \in audit : a.request_id # r
    BY <2>1 DEF AttributedAt
  <2>4. result'[r] # None => WithContext(verdict'[r])
    BY <2>1, ContextAfterRun
  <2> QED
    BY <2>1, <2>2, <2>3, <2>4 DEF AttributedAt
<1>2. CASE stage[r] = "recorded"
  <2>1. stage'[r] = "done" /\ UNCHANGED local
    BY <1>2, HandleStages, GoEffect, ConcludeEffect, VerdictNames
    DEF BeforeSelect, Executing, Summarize, SummarizeFails
  <2>2. audit' = audit
    BY <1>2, HandleWrites, GoEffect DEF InsertCommits, Stage
  <2> QED
    BY <1>2, <2>1, <2>2, AttributedFrame DEF SameEvent, local
<1>3. CASE ~InsertCommits(r) /\ stage[r] # "recorded"
  <2>1. audit' = audit /\ stage[r] \notin {"recorded", "done", "lost"}
    BY <1>3, HandleWrites, HandleStages
  <2>2. \A a \in audit' : a.request_id # r
    BY <2>1 DEF AttributedAt
  <2> QED
    BY <2>2, ContextAfterRun DEF AttributedAt
<1> QED
  BY <1>1, <1>2, <1>3

LEMMA AttributedStep ==
  ASSUME TypeOK, Carried, Attributed, [Next]_vars
  PROVE  Attributed'
<1> SUFFICES ASSUME NEW q \in Requests PROVE AttributedAt(q)'
  BY DEF Attributed
<1> AttributedAt(q)
  BY DEF Attributed
<1>1. ASSUME NEW r \in Requests, Handle(r) PROVE AttributedAt(q)'
  <2>1. CASE q = r
    BY <1>1, <2>1, AttributedByHandle
  <2>2. CASE q # r
    <3>1. SameFor(q)
      BY <1>1, <2>2, OthersUntouched
    <3>2. \A a \in audit' : a \in audit \/ a.request_id # q
      BY <1>1, <2>2, HandleWrites DEF InsertCommits, AuditEvent
    <3> QED
      BY <3>1, <3>2, AttributedFrame DEF SameFor, SameEvent
  <2> QED
    BY <2>1, <2>2
<1>2. ASSUME NEW r \in Requests, Arrive(r) PROVE AttributedAt(q)'
  <2>1. stage[r] = "new" /\ stage'[r] = "gate"
    BY <1>2, GoEffect DEF Arrive, Stage
  <2>2. SameEvent(q) /\ audit' = audit
    BY <1>2 DEF Arrive, SameEvent, database, local
  <2>3. CASE q = r
    BY <2>1, <2>2, <2>3 DEF AttributedAt
  <2>4. CASE q # r
    <3>1. stage'[q] = stage[q]
      BY <1>2, <2>4 DEF Arrive, Go, TypeOK
    <3> QED
      BY <2>2, <3>1, AttributedFrame
  <2> QED
    BY <2>3, <2>4
<1>3. CASE UNCHANGED <<stage, local, audit>>
  BY <1>3, AttributedFrame DEF SameEvent, local
<1>4. CASE Crash
  <2>1. stage'[q] = stage[q] \/ stage'[q] = "lost"
    BY <1>4 DEF Crash
  <2> QED
    BY <1>4, <2>1, AttributedFrame DEF Crash, SameEvent, local, database
<1> QED
  BY <1>1, <1>2, <1>3, <1>4
  DEF Next, Environment, HitExpires, Sync, Drift, vars, local, database

-----------------------------------------------------------------------------
LEMMA InitIndInv == Init => IndInv
<1> SUFFICES ASSUME Init PROVE IndInv
  OBVIOUS
<1>1. TypeOK /\ Carried
  BY InitType
<1>2. SoundRows /\ AnsweredLast /\ AnswersAreRecorded /\ EvidenceSound
  BY DEF Init, SoundRows, AnsweredLast, AnswersAreRecorded, EvidenceSound
<1>3. Leased
  BY DEF Init, Leased, Holds
<1>4. Budgeted /\ Attributed
  BY DEF Init, Budgeted, BudgetedAt, Attributed, AttributedAt
<1> QED
  BY <1>1, <1>2, <1>3, <1>4 DEF IndInv

LEMMA StepIndInv == IndInv /\ [Next]_vars => IndInv'
<1> SUFFICES ASSUME IndInv, [Next]_vars PROVE IndInv'
  OBVIOUS
<1>1. TypeOK' /\ Carried' /\ SoundRows' /\ EvidenceSound'
  BY TypeStep, SoundStep, EvidenceStep DEF IndInv
<1>a. Leased' /\ Budgeted' /\ Attributed'
  BY LeasedStep, BudgetedStep, AttributedStep DEF IndInv
<1>2. \A q \in Requests : RecordedAt(q)'
  BY RecordedStep DEF IndInv, RecordedAt, AnsweredLast, AnswersAreRecorded
<1>3. AnsweredLast' /\ AnswersAreRecorded'
  BY <1>2 DEF RecordedAt, AnsweredLast, AnswersAreRecorded
<1> QED
  BY <1>1, <1>a, <1>3 DEF IndInv

\* What a request carries, the rows it works from and the events about it agree
\* in every reachable state.
THEOREM Invariance == Spec => []IndInv
  BY InitIndInv, StepIndInv, PTL DEF Spec

\* No answer of the chat handler, other than the 503 that says so, leaves
\* without the event of its request in audit_events.
THEOREM FailsClosed == Spec => []AnswersAreRecorded
<1>1. IndInv => AnswersAreRecorded
  BY DEF IndInv
<1> QED
  BY <1>1, Invariance, PTL

\* Whatever is synced, changed outside the sync in one column, crashed or
\* refused in between, a success in the audit names an approved query.
THEOREM EvidenceIsSound == Spec => []EvidenceSound
<1>1. IndInv => EvidenceSound
  BY DEF IndInv
<1> QED
  BY <1>1, Invariance, PTL

\* The text that runs on the security database is approved for the id and open
\* to the role, at every moment from EXPLAIN on.
THEOREM ApprovedSqlOnly == Spec => []OnlyApprovedSqlRuns
<1>1. ASSUME IndInv, NEW r \in Requests,
             stage[r] \in {"explain", "fetch"} \/ result[r] # None
      PROVE  \E e \in History[record[r].commit] :
               e.id = record[r].id /\ e.sql = record[r].sql /\ can_access(role[r], e.minRole)
  <2>1. Checked(r)
    BY <1>1 DEF IndInv, Carried, CarriedAt, Executing
  <2>2. SoundFor(r, record[r])
    BY <1>1, <2>1, NoneAssumption DEF Checked, IndInv, SoundRows
  <2> QED
    BY <2>1, <2>2, CheckedIsApproved DEF Checked, SoundFor
<1>2. IndInv => OnlyApprovedSqlRuns
  BY <1>1 DEF OnlyApprovedSqlRuns
<1> QED
  BY <1>2, Invariance, PTL

\* Requests cannot wait on each other around the two pools: what waits for a
\* connection has none, and what has ended has given its back.
THEOREM NoneHeldWhileWaiting == Spec => []NoHoldAndWait
<1>1. ASSUME IndInv, NEW r \in Requests,
             stage[r] \notin {"searching", "explain", "fetch", "auditing", "recorded"},
             NEW db \in Databases
      PROVE  <<r, db>> \notin leases
  <2>1. db \notin Holds(stage[r])
    BY <1>1 DEF Holds
  <2> QED
    BY <1>1, <2>1 DEF IndInv, Leased
<1>2. IndInv => NoHoldAndWait
  BY <1>1 DEF NoHoldAndWait
<1> QED
  BY <1>2, Invariance, PTL

\* What LIMIT row_cap + 1 and the cut to row_cap make of any number of rows.
LEMMA CutIsHonest ==
  ASSUME NEW m \in MatchCounts
  PROVE  /\ ResultOf(m).row_count <= RowCap
         /\ ~ResultOf(m).truncated => ResultOf(m).row_count = ResultOf(m).matching
         /\ ResultOf(m).truncated => ResultOf(m).matching > RowCap
<1>1. m \in Nat /\ RowCap \in Nat
  BY SettingsAssumption
<1>2. CASE m <= RowCap
  <2>1. Least(m, RowCap + 1) = m /\ Least(m, RowCap) = m /\ (m > RowCap) = FALSE
    BY <1>1, <1>2 DEF Least
  <2>2. ResultOf(m) = [matching |-> m, row_count |-> m, truncated |-> FALSE]
    BY <2>1 DEF ResultOf
  <2> QED
    BY <1>2, <2>2
<1>3. CASE m > RowCap
  <2>1. /\ Least(m, RowCap + 1) = RowCap + 1 /\ Least(RowCap + 1, RowCap) = RowCap
        /\ (RowCap + 1 > RowCap) = TRUE
    BY <1>1, <1>3 DEF Least
  <2>2. ResultOf(m) = [matching |-> m, row_count |-> RowCap, truncated |-> TRUE]
    BY <2>1 DEF ResultOf
  <2> QED
    BY <1>1, <1>3, <2>2
<1> QED
  BY <1>1, <1>2, <1>3

\* No result passes for complete that was cut, and none was fetched for a plan
\* over either budget, for every cap and every pair of budgets.
THEOREM ResultsAreHonest == Spec => []ResultHonest
<1>1. ASSUME IndInv, NEW r \in Requests, result[r] # None
      PROVE  /\ result[r].row_count <= RowCap
             /\ ~result[r].truncated => result[r].row_count = result[r].matching
             /\ result[r].truncated => result[r].matching > RowCap
             /\ WithinBudget(plan[r])
  <2>1. WithinBudget(plan[r]) /\ \E m \in MatchCounts : result[r] = ResultOf(m)
    BY <1>1 DEF IndInv, Budgeted, BudgetedAt
  <2> QED
    BY <2>1, CutIsHonest
<1>2. IndInv => ResultHonest
  BY <1>1 DEF ResultHonest
<1> QED
  BY <1>2, Invariance, PTL

\* A query that has run is named in whatever event is written for its request.
THEOREM ExecutionsAreAttributed == Spec => []ExecutionAttributed
<1>1. ASSUME IndInv, NEW a \in audit, result[a.request_id] # None
      PROVE  /\ a.catalog_id = record[a.request_id].id
             /\ a.sql_hash = record[a.request_id].sqlHash
             /\ a.source_commit = record[a.request_id].commit
             /\ a.actual_rows = result[a.request_id].row_count
  <2> DEFINE r == a.request_id
  <2>1. r \in Requests
    BY <1>1 DEF IndInv, TypeOK, AuditRow
  <2>2. a = AuditEvent(r) /\ WithContext(verdict[r])
    BY <1>1, <2>1 DEF IndInv, Attributed, AttributedAt
  <2>3. record[r] \in Row /\ record[r] # None
    BY <1>1, <2>1, NoneAssumption DEF IndInv, Carried, CarriedAt, Checked
  <2>4. /\ AuditEvent(r).catalog_id = record[r].id
        /\ AuditEvent(r).sql_hash = record[r].sqlHash
        /\ AuditEvent(r).source_commit = record[r].commit
        /\ AuditEvent(r).actual_rows = result[r].row_count
    BY <1>1, <2>2, <2>3 DEF AuditEvent
  <2> QED
    BY <2>2, <2>4
<1>2. IndInv => ExecutionAttributed
  BY <1>1 DEF ExecutionAttributed
<1> QED
  BY <1>2, Invariance, PTL

-----------------------------------------------------------------------------
(* The handler implements FailClosed.                                      *)

HasEvent(r) == \E a \in audit : a.request_id = r

\* All events of a request being one, the ledger says what that one says.
LedgerAgrees ==
  \A r \in Requests :
    Ledger[r] = IF HasEvent(r) THEN Handling[verdict[r]].outcome ELSE None

LEMMA LedgerOfEvent == IndInv => LedgerAgrees
<1> SUFFICES ASSUME IndInv, NEW r \in Requests
             PROVE  Ledger[r] = IF HasEvent(r) THEN Handling[verdict[r]].outcome ELSE None
  BY DEF LedgerAgrees
<1>1. CASE HasEvent(r)
  <2>1. \A a \in audit : a.request_id = r => a = AuditEvent(r)
    BY DEF IndInv, Attributed, AttributedAt
  <2>2. (CHOOSE a \in audit : a.request_id = r) = AuditEvent(r)
    BY <1>1, <2>1 DEF HasEvent
  <2>3. AuditEvent(r).outcome = Handling[verdict[r]].outcome
    BY DEF AuditEvent
  <2> QED
    BY <1>1, <2>2, <2>3 DEF Ledger, HasEvent
<1>2. CASE ~HasEvent(r)
  BY <1>2 DEF Ledger, HasEvent
<1> QED
  BY <1>1, <1>2

LEMMA TellsItsOutcome ==
  \A v \in Verdict :
    /\ Handling[v].outcome \in FC!Outcome
    /\ Handling[v].status \in FC!Tells[Handling[v].outcome]
    /\ Handling[v].outcome # None
  BY VerdictNames, NoneAssumption DEF Handling, FC!Outcome, FC!Tells

LEMMA ReplyEffect ==
  ASSUME TypeOK, NEW r \in Requests, NEW a, reply' = [reply EXCEPT ![r] = a],
         reply[r] = None, audit' = audit
  PROVE  FC!Answer(r, a)
  BY DEF FC!Answer, Ledger

\* Each step of a request is a step of its ledger and answer, or none.
LEMMA HandleRefines ==
  ASSUME IndInv, LedgerAgrees, LedgerAgrees', NEW r \in Requests, Handle(r)
  PROVE  [FC!Next]_FC!vars
<1> USE DEF database, local
<1>1. /\ TypeOK /\ CarriedAt(r) /\ reply[r] = None
      /\ stage[r] \notin {"recorded", "done", "lost"} => ~HasEvent(r)
      /\ stage[r] = "recorded" => HasEvent(r)
      /\ Ledger[r] = IF HasEvent(r) THEN Handling[verdict[r]].outcome ELSE None
  <2>1. reply[r] = None
    BY HandleStages DEF IndInv, AnsweredLast
  <2>2. stage[r] = "recorded" => HasEvent(r)
    BY DEF IndInv, AnsweredLast, HasEvent, AuditEvent
  <2> QED
    BY <2>1, <2>2 DEF IndInv, Carried, LedgerAgrees, Attributed, AttributedAt, HasEvent
<1>2. CASE InsertCommits(r)
  <2>1. /\ stage[r] = "auditing" /\ verdict' = verdict /\ reply' = reply
        /\ audit' = audit \union {AuditEvent(r)}
    BY <1>2 DEF InsertCommits, Go
  <2>2. verdict[r] \in Verdict /\ Ledger[r] = None
    BY <1>1, <2>1 DEF CarriedAt
  <2>3. AuditEvent(r).request_id = r
    BY DEF AuditEvent
  <2>4. HasEvent(r)' /\ \A q \in Requests \ {r} : HasEvent(q)' <=> HasEvent(q)
    BY <2>1, <2>3 DEF HasEvent
  <2>5. /\ Ledger'[r] = Handling[verdict[r]].outcome
        /\ \A q \in Requests \ {r} : Ledger'[q] = Ledger[q]
    BY <2>1, <2>4 DEF LedgerAgrees
  <2>6. Ledger' = [Ledger EXCEPT ![r] = Handling[verdict[r]].outcome]
    <3>1. /\ Ledger = [q \in Requests |-> Ledger[q]]
          /\ Ledger' = [q \in Requests |-> Ledger'[q]]
      BY DEF Ledger
    <3> QED
      BY <2>5, <3>1
  <2>7. FC!Record(r)
    BY <1>1, <2>1, <2>2, <2>6, TellsItsOutcome DEF FC!Record
  <2> QED
    BY <2>7 DEF FC!Next
<1>3. CASE RefuseAtGate(r)
  <2>1. stage[r] = "gate" /\ audit' = audit
    BY <1>3 DEF RefuseAtGate, Go
  <2>2. PICK s \in {400, 401, 403, 422, 500, 503} :
          reply' = [reply EXCEPT ![r] = Response("gate", s)]
    BY <1>3 DEF RefuseAtGate
  <2>3. FC!Answer(r, [by |-> "gate", status |-> s])
    <3>1. reply' = [reply EXCEPT ![r] = [by |-> "gate", status |-> s]]
      BY <2>2 DEF Response
    <3>2. TypeOK /\ reply[r] = None
      BY <1>1
    <3> QED
      BY <2>1, <3>1, <3>2 DEF FC!Answer, Ledger
  <2>4. FC!Refuse(r)
    <3>1. Ledger[r] = None
      BY <1>1, <2>1
    <3>2. s \in 400..599
      OBVIOUS
    <3> QED
      BY <2>3, <3>1, <3>2 DEF FC!Refuse
  <2> QED
    BY <2>4 DEF FC!Next
<1>4. CASE AuditUnreachable(r) \/ AuditFails(r)
  <2>1. audit' = audit /\ reply' = [reply EXCEPT ![r] = Response("handler", 503)]
    BY <1>4 DEF AuditUnreachable, AuditFails
  <2>2. FC!GiveUp(r)
    BY <1>1, <2>1, ReplyEffect DEF FC!GiveUp, FC!Unavailable, Response
  <2> QED
    BY <2>2 DEF FC!Next
<1>5. CASE AuditReturns(r)
  <2>1. /\ stage[r] = "recorded" /\ audit' = audit
        /\ reply' = [reply EXCEPT ![r] = Response("handler", Handling[verdict[r]].status)]
    BY <1>5 DEF AuditReturns, Go
  <2>2. verdict[r] \in Verdict /\ Ledger[r] = Handling[verdict[r]].outcome
    BY <1>1, <2>1 DEF CarriedAt
  <2>3. FC!Answer(r, [by |-> "handler", status |-> Handling[verdict[r]].status])
    BY <1>1, <2>1, ReplyEffect DEF Response
  <2>4. FC!Tell(r)
    BY <2>2, <2>3, TellsItsOutcome DEF FC!Tell
  <2> QED
    BY <2>4 DEF FC!Next
<1>6. CASE EncodingFails(r)
  <2>1. /\ stage[r] = "recorded" /\ audit' = audit /\ verdict[r] = "Answered"
        /\ reply' = [reply EXCEPT ![r] = Response("gate", 500)]
    BY <1>6 DEF EncodingFails, Go
  <2>2. Ledger[r] = "success"
    <3>1. "Answered" \in Verdict /\ Ledger[r] = Handling["Answered"].outcome
      BY <1>1, <2>1, VerdictNames
    <3> QED
      BY <3>1, HandlingFacts
  <2>3. FC!Break(r)
    BY <1>1, <2>1, <2>2, ReplyEffect DEF FC!Break, Response
  <2> QED
    BY <2>3 DEF FC!Next
<1>7. CASE audit' = audit /\ reply' = reply
  BY <1>7 DEF FC!vars, Ledger
<1> QED
  BY <1>2, <1>3, <1>4, <1>5, <1>6, <1>7, HandleWrites

\* The chat endpoint implements the abstract promise for any number of requests:
\* record a decision once, then tell it once.
THEOREM ImplementsFailClosed == Spec => RecordsThenTells
<1>1. Init => FC!Init
  BY DEF Init, FC!Init, Ledger
<1>2. ASSUME IndInv, IndInv', [Next]_vars PROVE [FC!Next]_FC!vars
  <2>1. IndInv' => LedgerAgrees'
    BY LedgerOfEvent, PTL
  <2>2. LedgerAgrees /\ LedgerAgrees'
    BY <1>2, <2>1, LedgerOfEvent
  <2>3. ASSUME NEW r \in Requests, Handle(r) PROVE [FC!Next]_FC!vars
    BY <1>2, <2>2, <2>3, HandleRefines
  <2>4. CASE UNCHANGED <<audit, reply>>
    BY <2>4 DEF FC!vars, Ledger
  <2> QED
    BY <1>2, <2>3, <2>4
    DEF Next, Environment, Arrive, HitExpires, Sync, Drift, Crash, vars, database, local
<1> QED
  BY <1>1, <1>2, Invariance, PTL DEF Spec, RecordsThenTells, FC!Spec

-----------------------------------------------------------------------------
(* The catalog as requests see it is a CatalogStore.                       *)

Viewed(row) ==
  [id |-> row.id, entry |-> [id |-> row.id, sql |-> row.sql, minRole |-> row.minRole],
   commit |-> row.commit, source |-> "source"]

\* A sync that finds every row as a sync left it leaves fresh rows only: the one
\* it relabels is the row it would have written.
LEMMA SyncIsFresh ==
  ASSUME catalog \subseteq Row, \A row \in catalog : AsSynced(row),
         NEW c \in Commits, Sync(c)
  PROVE  catalog' = {FreshRow(e, c) : e \in History[c]}
<1>1. ASSUME NEW e \in History[c] PROVE Publish(c, e) = {FreshRow(e, c)}
  <2>1. e \in Entry
    BY HistoryAssumption
  <2>2. ASSUME NEW x \in Unchanged(e) PROVE [x EXCEPT !.commit = c] = FreshRow(e, c)
    <3>1. x \in catalog /\ x \in Row /\ x.catalogHash = catalog_hash(e)
      BY DEF Unchanged
    <3>2. PICK f \in History[x.commit] : x = FreshRow(f, x.commit)
      BY <3>1 DEF AsSynced
    <3>3. f \in Entry /\ catalog_hash(f) = catalog_hash(e)
      BY <3>1, <3>2, HistoryAssumption DEF Row, FreshRow
    <3>4. f = e
      BY <2>1, <3>3, HashesInjective
    <3> QED
      BY <3>2, <3>4 DEF FreshRow
  <2>3. CASE Unchanged(e) # {}
    <3>1. Publish(c, e) = {[x EXCEPT !.commit = c] : x \in Unchanged(e)}
      BY <2>3 DEF Publish
    <3> QED
      BY <2>2, <2>3, <3>1
  <2>4. CASE Unchanged(e) = {}
    BY <2>4 DEF Publish
  <2> QED
    BY <2>3, <2>4
<1>2. catalog' = UNION {Publish(c, e) : e \in History[c]}
  BY DEF Sync
<1> QED
  BY <1>1, <1>2

LEMMA SyncPublishes ==
  ASSUME catalog \subseteq Row, \A row \in catalog : AsSynced(row),
         NEW c \in Commits, Sync(c)
  PROVE  Store!Next
<1>1. catalog' = {FreshRow(e, c) : e \in History[c]}
  BY SyncIsFresh
<1>2. StoreView = {Viewed(row) : row \in catalog} /\ StoreView' = {Viewed(row) : row \in catalog'}
  BY DEF StoreView, Viewed
<1>3. ASSUME NEW e \in History[c]
      PROVE  Viewed(FreshRow(e, c)) = Store!Stored(e, c, "source")
  <2>1. e \in Entry
    BY HistoryAssumption
  <2>2. e = [id |-> e.id, sql |-> e.sql, minRole |-> e.minRole]
    BY <2>1 DEF Entry
  <2> QED
    BY <2>2 DEF Viewed, FreshRow, Store!Stored
<1>4. StoreView' = Store!Snapshot(c)
  BY <1>1, <1>2, <1>3 DEF Store!Snapshot
<1>5. \A v \in StoreView : v.source = "source"
  BY <1>2 DEF Viewed
<1>6. Store!Publish(c)
  BY <1>4, <1>5 DEF Store!Publish
<1> QED
  BY <1>6 DEF Store!Next

\* A sync publishes one commit's whole snapshot, and nothing but a sync or a write
\* outside it changes what requests see.
THEOREM SyncImplementsStore == Spec => SyncsAsAStore
<1>1. ASSUME TypeOK, [Next]_vars, \A row \in catalog : AsSynced(row)
      PROVE  \/ Store!Next \/ UNCHANGED StoreView
             \/ \E row \in catalog, column \in DriftColumns : Drift(row, column)
  <2>1. ASSUME NEW c \in Commits, Sync(c) PROVE Store!Next
    BY <1>1, <2>1, SyncPublishes DEF TypeOK
  <2>2. CASE catalog' = catalog
    BY <2>2 DEF StoreView
  <2>3. ASSUME NEW r \in Requests, Handle(r) PROVE catalog' = catalog
    BY <2>3, HandleWrites
  <2> QED
    BY <1>1, <2>1, <2>2, <2>3
    DEF Next, Environment, Arrive, HitExpires, Crash, vars, database
<1> QED
  BY <1>1, TypeCorrect, PTL DEF Spec, SyncsAsAStore

=============================================================================
