---------------------------- MODULE GovernedChat ----------------------------
(***************************************************************************)
(* POST /api/chat: the path of a request from the origin check to its      *)
(* answer (app/main.py, app/chat.py, app/executor.py, app/catalog.py,      *)
(* app/audit.py, app/observability.py), with everything it interleaves     *)
(* with: the other requests on the same event loop and connection pools,   *)
(* the catalog sync, writes to the catalog made outside the sync, and the  *)
(* loss of the process.                                                    *)
(*                                                                         *)
(* A request gives up control only at an await, so an action is the code   *)
(* between two of them. `stage` names the await a request is at:           *)
(*   gate       the middleware and the identity dependency (a response     *)
(*              "by" gate is one the chat handler did not make)            *)
(*   search     the acquire of a catalog connection; searching: the query  *)
(*   select     the selector (a call to the model API, or plain Python)    *)
(*   execute    the acquire of a security connection                       *)
(*   explain    SET LOCAL and EXPLAIN;  fetch: the query itself            *)
(*   summarize  the selector again                                         *)
(*   audit      the acquire of a catalog connection; auditing: the INSERT; *)
(*              recorded: the INSERT took effect, its reply is on the way  *)
(*   done, lost answered, or gone with the process                         *)
(***************************************************************************)
EXTENDS Domain

CONSTANTS
  Requests,       \* chat requests; each gets a fresh request id
  Users,          \* user ids of the identity provider
  UserOf,         \* the user who sends a request
  Agent,          \* "claude" or "deterministic": the selector build_services picks
  DriftColumns,   \* columns of approved_queries that a write outside the sync may change
  PoolSize,       \* max_size of each connection pool
  ChatRateLimit,  \* chat_rate_limit
  RowCap,         \* query_row_cap
  MatchCounts,    \* numbers of rows a query may match
  PlanCosts,      \* costs the planner may estimate
  PlanRows,       \* row counts the planner may estimate
  MaxPlanCost,    \* query_max_plan_cost
  MaxPlanRows,    \* query_max_plan_rows
  None            \* Python's None

Databases == {"catalog", "security"}

ASSUME RequestsAssumption ==
  /\ IsFiniteSet(Requests)
  /\ UserOf \in [Requests -> Users]

ASSUME SettingsAssumption ==
  /\ Agent \in {"claude", "deterministic"}
  /\ DriftColumns \subseteq {"sql", "sqlHash", "minRole", "minRoleLevel"}
  /\ PoolSize \in Nat \ {0}
  /\ ChatRateLimit \in Nat
  /\ RowCap \in Nat
  /\ MatchCounts \subseteq Nat
  /\ PlanCosts \subseteq Nat
  /\ PlanRows \subseteq Nat
  /\ MaxPlanCost \in Nat
  /\ MaxPlanRows \in Nat

VARIABLES
  catalog,     \* the rows of approved_queries
  audit,       \* the rows of audit_events
  leases,      \* <<r, db>>: request r has a connection of db's pool
  hits,        \* RateLimiter.hits: how many of a user's hits are inside the window
  stage,       \* where a request is
  role,        \* identity.role
  candidates,  \* what CatalogRepository.search returned to ask
  record,      \* the candidate ask selected
  plan,        \* what parse_plan_estimate returned
  result,      \* what QueryExecutor.execute returned
  verdict,     \* the exception that ended ask, or "Answered"
  reply        \* the response

database == <<catalog, audit>>
local == <<role, candidates, record, plan, result, verdict>>
vars == <<catalog, audit, leases, hits, stage, role, candidates, record, plan,
          result, verdict, reply>>

Stage == {"new", "gate", "search", "searching", "select", "execute", "explain",
          "fetch", "summarize", "audit", "auditing", "recorded", "done", "lost"}

InFlight(r) == stage[r] \notin {"new", "done", "lost"}

Plan == [cost : PlanCosts, rows : PlanRows]

\* matching is what the approved query matches in the database: a history
\* field that execute does not return.
Result == [matching : MatchCounts, row_count : Nat, truncated : BOOLEAN]

-----------------------------------------------------------------------------
(* The except clauses of the chat handler: what each way out of ask is     *)
(* recorded and answered as. "ValueError" stands for its subclasses        *)
(* ExecutionError and SqlValidationError too, "Exception" for the rest.    *)

Handling ==
  [Answered            |-> [outcome |-> "success", category |-> "none",              status |-> 200],
   RateLimited         |-> [outcome |-> "denied",  category |-> "rate_limit",        status |-> 429],
   QueryBudgetExceeded |-> [outcome |-> "denied",  category |-> "planner_budget",    status |-> 422],
   PermissionError     |-> [outcome |-> "denied",  category |-> "authorization",     status |-> 403],
   LookupError         |-> [outcome |-> "denied",  category |-> "no_approved_query", status |-> 404],
   ValueError          |-> [outcome |-> "error",   category |-> "ValueError",        status |-> 422],
   Exception           |-> [outcome |-> "error",   category |-> "Exception",         status |-> 500]]

Verdict == DOMAIN Handling

\* None is neither the name of a way out of ask, nor an outcome, nor a row.
ASSUME NoneAssumption ==
  /\ None \notin Verdict /\ None \notin Row
  /\ None \notin {Handling[v].outcome : v \in Verdict}

\* Mutant of WithContext: ask attaches nothing to exceptions.
WithContextOnSuccess(v) == v = "Answered"

\* The exceptions for which the handler builds its event from the context
\* that ask attached; success carries the same context.
WithContext(v) == v \in {"Answered", "ValueError", "Exception"}

\* The event the handler passes to _write_audit for request r.
AuditEvent(r) ==
  LET v == verdict[r]
      selected == record[r] # None
      ran == result[r] # None
      attributed == selected /\ WithContext(v)
  IN [request_id     |-> r,
      role           |-> role[r],
      outcome        |-> Handling[v].outcome,
      error_category |-> Handling[v].category,
      catalog_id     |-> IF attributed \/ v = "QueryBudgetExceeded" THEN record[r].id ELSE None,
      sql_hash       |-> IF attributed THEN record[r].sqlHash ELSE None,
      source_commit  |-> IF attributed THEN record[r].commit ELSE None,
      estimated      |-> IF (attributed /\ ran) \/ v = "QueryBudgetExceeded" THEN plan[r] ELSE None,
      actual_rows    |-> IF attributed /\ ran THEN result[r].row_count ELSE None]

Response(by, status) == [by |-> by, status |-> status]

-----------------------------------------------------------------------------
Init ==
  /\ catalog = {}
  /\ audit = {}
  /\ leases = {}
  /\ hits = [u \in Users |-> 0]
  /\ stage = [r \in Requests |-> "new"]
  /\ role = [r \in Requests |-> None]
  /\ candidates = [r \in Requests |-> {}]
  /\ record = [r \in Requests |-> None]
  /\ plan = [r \in Requests |-> None]
  /\ result = [r \in Requests |-> None]
  /\ verdict = [r \in Requests |-> None]
  /\ reply = [r \in Requests |-> None]

Go(r, from, to) ==
  /\ stage[r] = from
  /\ stage' = [stage EXCEPT ![r] = to]

\* ask ends with exception v (or "Answered"): the handler goes on to the audit.
Conclude(r, from, v) ==
  /\ Go(r, from, "audit")
  /\ verdict' = [verdict EXCEPT ![r] = v]

\* async with self.database.connection(): acquire waits for a free connection;
\* opening one, or the pool itself, can fail only when there is room for it.
HasRoom(db) == Cardinality({l \in leases : l[2] = db}) < PoolSize

Acquire(r, db) ==
  /\ HasRoom(db)
  /\ leases' = leases \union {<<r, db>>}

Release(r, db) == leases' = leases \ {<<r, db>>}

-----------------------------------------------------------------------------
(* Before the handler: middleware and dependencies. Nothing here is audited. *)

Arrive(r) ==
  /\ Go(r, "new", "gate")
  /\ UNCHANGED <<database, leases, hits, local, reply>>

\* The middleware refuses a foreign origin (403); require_identity refuses a
\* missing or incomplete session (400, 401, 403, 503); FastAPI refuses a
\* malformed body (422); what else goes wrong there, _call_safely answers (500).
RefuseAtGate(r) ==
  /\ Go(r, "gate", "done")
  /\ \E status \in {400, 401, 403, 422, 500, 503} :
       reply' = [reply EXCEPT ![r] = Response("gate", status)]
  /\ UNCHANGED <<database, leases, hits, local>>

\* Mutant of Pass: no limit.
PassUnlimited(r) ==
  /\ \E x \in Role : role' = [role EXCEPT ![r] = x]
  /\ hits' = [hits EXCEPT ![UserOf[r]] = @ + 1]

\* RateLimiter.check of a user within the limit.
Pass(r) ==
  /\ hits[UserOf[r]] < ChatRateLimit
  /\ \E x \in Role : role' = [role EXCEPT ![r] = x]
  /\ hits' = [hits EXCEPT ![UserOf[r]] = @ + 1]

\* Into ask, and through the embedder (no await so far) to the first acquire.
Admit(r) ==
  /\ Pass(r)
  /\ Go(r, "gate", "search")
  /\ UNCHANGED <<database, leases, candidates, record, plan, result, verdict, reply>>

\* The embedder cannot load its model, or embed.
EmbedFails(r) ==
  /\ Pass(r)
  /\ \E v \in {"PermissionError", "ValueError", "Exception"} : Conclude(r, "gate", v)
  /\ UNCHANGED <<database, leases, candidates, record, plan, result, reply>>

\* RateLimiter.check of a user at the limit.
Throttle(r) ==
  /\ hits[UserOf[r]] >= ChatRateLimit
  /\ Conclude(r, "gate", "RateLimited")
  /\ \E x \in Role : role' = [role EXCEPT ![r] = x]
  /\ UNCHANGED <<database, leases, hits, candidates, record, plan, result, reply>>

\* A user's oldest hit leaves the window (module RateLimiter has the details).
HitExpires(u) ==
  /\ hits[u] > 0
  /\ hits' = [hits EXCEPT ![u] = @ - 1]
  /\ UNCHANGED <<database, leases, stage, local, reply>>

-----------------------------------------------------------------------------
(* Retrieval and selection.                                                *)

\* Connecting to the catalog fails; a refused socket can be Python's
\* PermissionError.
RetrievalFails(r) ==
  /\ HasRoom("catalog")
  /\ \E v \in {"PermissionError", "ValueError", "Exception"} : Conclude(r, "search", v)
  /\ UNCHANGED <<database, leases, hits, role, candidates, record, plan, result, reply>>

AcquireForSearch(r) ==
  /\ Go(r, "search", "searching")
  /\ Acquire(r, "catalog")
  /\ UNCHANGED <<database, hits, local, reply>>

SearchFails(r) ==
  /\ \E v \in {"ValueError", "Exception"} : Conclude(r, "searching", v)
  /\ Release(r, "catalog")
  /\ UNCHANGED <<database, hits, role, candidates, record, plan, result, reply>>

\* Mutant of Accessible: the search has no filter.
AccessibleToAll(x) == catalog

\* WITH accessible AS (... WHERE min_role_level <= $2).
Accessible(x) == {row \in catalog : row.minRoleLevel <= ROLE_ACCESS[x]}

\* The filtered query returns; which of the accessible rows survive the scan,
\* the ranking, its LIMIT and _apply_demo_detail_policy is left open (module
\* QueryChoice has the details; where the scan stops early, none may).
SearchReturns(r) ==
  /\ Go(r, "searching", "select")
  /\ Release(r, "catalog")
  /\ \E rows \in SUBSET Accessible(role[r]) : candidates' = [candidates EXCEPT ![r] = rows]
  /\ UNCHANGED <<database, hits, role, record, plan, result, verdict, reply>>

\* The selector raises before a record is chosen: no candidates (LookupError),
\* a parameter it cannot fill (ValueError); for Claude an id outside the
\* candidates (ValueError), a field missing from the tool call (KeyError, a
\* LookupError), the API failing or returning no tool call (Exception).
SelectFails(r) ==
  /\ \/ /\ Agent = "claude"
        /\ \E v \in {"LookupError", "ValueError", "Exception"} : Conclude(r, "select", v)
     \/ /\ Agent = "deterministic" /\ candidates[r] = {}
        /\ Conclude(r, "select", "LookupError")
     \/ /\ Agent = "deterministic" /\ candidates[r] # {}
        /\ Conclude(r, "select", "ValueError")
  /\ UNCHANGED <<database, leases, hits, role, candidates, record, plan, result, reply>>

\* Mutant of Intact: no hash comparison.
IntactUnchecked(row) == TRUE

\* validate_approved_sql accepts every text the repository ever held; content_hash
\* is compared with the hash the row came with.
Intact(row) == content_hash(row.sql) = row.sqlHash

\* ask takes the candidate the selector named, and execute starts: it rejects
\* the row, rejects the parameters, or goes on to a connection.
SelectDenied(r) ==
  /\ Conclude(r, "select", "PermissionError")
  /\ \E row \in candidates[r] :
       /\ ~can_access(role[r], row.minRole)
       /\ record' = [record EXCEPT ![r] = row]
  /\ UNCHANGED <<database, leases, hits, role, candidates, plan, result, reply>>

SelectInvalid(r) ==
  /\ \E v \in {"ValueError", "Exception"} : Conclude(r, "select", v)
  /\ \E row \in candidates[r] :
       /\ can_access(role[r], row.minRole)
       /\ record' = [record EXCEPT ![r] = row]
  /\ UNCHANGED <<database, leases, hits, role, candidates, plan, result, reply>>

SelectAccepted(r) ==
  /\ Go(r, "select", "execute")
  /\ \E row \in candidates[r] :
       /\ can_access(role[r], row.minRole)
       /\ Intact(row)
       /\ record' = [record EXCEPT ![r] = row]
  /\ UNCHANGED <<database, leases, hits, role, candidates, plan, result, verdict, reply>>

-----------------------------------------------------------------------------
(* QueryExecutor.execute on the security database.                         *)

ConnectFails(r) ==
  /\ HasRoom("security")
  /\ \E v \in {"PermissionError", "ValueError", "Exception"} : Conclude(r, "execute", v)
  /\ UNCHANGED <<database, leases, hits, role, candidates, record, plan, result, reply>>

AcquireForExecute(r) ==
  /\ Go(r, "execute", "explain")
  /\ Acquire(r, "security")
  /\ UNCHANGED <<database, hits, local, reply>>

WithinBudget(p) == p.cost <= MaxPlanCost /\ p.rows <= MaxPlanRows

ExplainReturns(r) ==
  /\ Go(r, "explain", "fetch")
  /\ \E p \in Plan : WithinBudget(p) /\ plan' = [plan EXCEPT ![r] = p]
  /\ UNCHANGED <<database, leases, hits, role, candidates, record, result, verdict, reply>>

\* Mutant of BudgetDenied: the connection is not given back.
BudgetDeniedKeepsConnection(r) ==
  /\ Conclude(r, "explain", "QueryBudgetExceeded")
  /\ \E p \in Plan : ~WithinBudget(p) /\ plan' = [plan EXCEPT ![r] = p]
  /\ UNCHANGED <<database, leases, hits, role, candidates, record, result, reply>>

\* The context managers close the transaction and release the connection as
\* QueryBudgetExceeded, or any other exception, leaves them.
BudgetDenied(r) ==
  /\ Conclude(r, "explain", "QueryBudgetExceeded")
  /\ \E p \in Plan : ~WithinBudget(p) /\ plan' = [plan EXCEPT ![r] = p]
  /\ Release(r, "security")
  /\ UNCHANGED <<database, hits, role, candidates, record, result, reply>>

\* The plan cannot be read or an argument not encoded (ValueError); the
\* statement timeout, the client's timeout or any database error (Exception).
ExplainFails(r) ==
  /\ \E v \in {"ValueError", "Exception"} : Conclude(r, "explain", v)
  /\ Release(r, "security")
  /\ UNCHANGED <<database, hits, role, candidates, record, plan, result, reply>>

FetchFails(r) ==
  /\ \E v \in {"ValueError", "Exception"} : Conclude(r, "fetch", v)
  /\ Release(r, "security")
  /\ UNCHANGED <<database, hits, role, candidates, record, plan, result, reply>>

Least(m, n) == IF m <= n THEN m ELSE n

\* Mutant of ResultOf: LIMIT row_cap.
ResultOfOneShort(matching) ==
  LET fetched == Least(matching, RowCap)
  IN [matching |-> matching, row_count |-> Least(fetched, RowCap),
      truncated |-> fetched > RowCap]

\* SELECT * FROM (...) LIMIT row_cap + 1, then the cut to row_cap.
ResultOf(matching) ==
  LET fetched == Least(matching, RowCap + 1)
  IN [matching |-> matching, row_count |-> Least(fetched, RowCap),
      truncated |-> fetched > RowCap]

FetchReturns(r) ==
  /\ Go(r, "fetch", "summarize")
  /\ Release(r, "security")
  /\ \E m \in MatchCounts : result' = [result EXCEPT ![r] = ResultOf(m)]
  /\ UNCHANGED <<database, hits, role, candidates, record, plan, verdict, reply>>

Summarize(r) ==
  /\ Conclude(r, "summarize", "Answered")
  /\ UNCHANGED <<database, leases, hits, role, candidates, record, plan, result, reply>>

\* Claude returns no text (ValueError) or the API fails; the deterministic
\* selector only formats a string.
SummarizeFails(r) ==
  /\ Agent = "claude"
  /\ \E v \in {"ValueError", "Exception"} : Conclude(r, "summarize", v)
  /\ UNCHANGED <<database, leases, hits, role, candidates, record, plan, result, reply>>

-----------------------------------------------------------------------------
(* The audit write, and the answer that waits for it.                      *)

AcquireForAudit(r) ==
  /\ Go(r, "audit", "auditing")
  /\ Acquire(r, "catalog")
  /\ UNCHANGED <<database, hits, local, reply>>

\* No connection: nothing is written, and _write_audit answers 503.
AuditUnreachable(r) ==
  /\ HasRoom("catalog")
  /\ Go(r, "audit", "done")
  /\ reply' = [reply EXCEPT ![r] = Response("handler", 503)]
  /\ UNCHANGED <<database, leases, hits, local>>

InsertCommits(r) ==
  /\ Go(r, "auditing", "recorded")
  /\ audit' = audit \union {AuditEvent(r)}
  /\ UNCHANGED <<catalog, leases, hits, local, reply>>

\* write returns: the handler returns its result, or raises the HTTPException
\* of its except clause.
AuditReturns(r) ==
  /\ Go(r, "recorded", "done")
  /\ reply' = [reply EXCEPT ![r] = Response("handler", Handling[verdict[r]].status)]
  /\ Release(r, "catalog")
  /\ UNCHANGED <<database, hits, local>>

\* The handler has returned its result, and FastAPI cannot encode a value of a
\* row as JSON: the middleware answers 500 for a request recorded as a success.
EncodingFails(r) ==
  /\ verdict[r] = "Answered"
  /\ Go(r, "recorded", "done")
  /\ reply' = [reply EXCEPT ![r] = Response("gate", 500)]
  /\ Release(r, "catalog")
  /\ UNCHANGED <<database, hits, local>>

\* Mutant of AuditFails: the exception is logged and forgotten.
AuditFailsQuietly(r) ==
  /\ Go(r, "auditing", "done") \/ Go(r, "recorded", "done")
  /\ reply' = [reply EXCEPT ![r] = Response("handler", Handling[verdict[r]].status)]
  /\ Release(r, "catalog")
  /\ UNCHANGED <<database, hits, local>>

\* write raises, before the INSERT took effect or after.
AuditFails(r) ==
  /\ Go(r, "auditing", "done") \/ Go(r, "recorded", "done")
  /\ reply' = [reply EXCEPT ![r] = Response("handler", 503)]
  /\ Release(r, "catalog")
  /\ UNCHANGED <<database, hits, local>>

-----------------------------------------------------------------------------
(* The rest of the system.                                                 *)

\* Mutant of Unchanged: a known id is taken for an unchanged query.
UnchangedById(e) == {row \in catalog : row.id = e.id}

\* A sync of commit c, published as one transaction (module CatalogSync has
\* the details): a row with an unchanged catalog_hash gets the new commit only,
\* the others are upserted whole, and rows no longer in the source are deleted.
Unchanged(e) == {row \in catalog : row.id = e.id /\ row.catalogHash = catalog_hash(e)}

Publish(c, e) ==
  IF Unchanged(e) # {} THEN {[row EXCEPT !.commit = c] : row \in Unchanged(e)}
  ELSE {FreshRow(e, c)}

Sync(c) ==
  /\ catalog' = UNION {Publish(c, e) : e \in History[c]}
  /\ UNCHANGED <<audit, leases, hits, stage, local, reply>>

AsSynced(row) == \E e \in History[row.commit] : row = FreshRow(e, row.commit)

\* A write outside the sync changes one column of a row as the sync left it:
\* what the integrity check and the second access check in execute are for.
Drift(row, column) ==
  /\ AsSynced(row)
  /\ \E value \in CASE column = "sql" -> SqlTexts
                    [] column = "sqlHash" -> Digest
                    [] column = "minRole" -> Role
                    [] OTHER -> 1..3 :
       catalog' = (catalog \ {row}) \union {[row EXCEPT ![column] = value]}
  /\ UNCHANGED <<audit, leases, hits, stage, local, reply>>

\* The process dies: what is in flight is lost, and the connections and the
\* rate limiter go with it. (An INSERT it has sent may still take effect: then
\* InsertCommits came first.)
Crash ==
  /\ stage' = [r \in Requests |-> IF InFlight(r) THEN "lost" ELSE stage[r]]
  /\ leases' = {}
  /\ hits' = [u \in Users |-> 0]
  /\ UNCHANGED <<database, local, reply>>

-----------------------------------------------------------------------------
Handle(r) ==
  \/ RefuseAtGate(r) \/ Admit(r) \/ EmbedFails(r) \/ Throttle(r)
  \/ RetrievalFails(r) \/ AcquireForSearch(r) \/ SearchFails(r) \/ SearchReturns(r)
  \/ SelectFails(r) \/ SelectDenied(r) \/ SelectInvalid(r) \/ SelectAccepted(r)
  \/ ConnectFails(r) \/ AcquireForExecute(r)
  \/ ExplainReturns(r) \/ BudgetDenied(r) \/ ExplainFails(r)
  \/ FetchReturns(r) \/ FetchFails(r)
  \/ Summarize(r) \/ SummarizeFails(r)
  \/ AcquireForAudit(r) \/ AuditUnreachable(r)
  \/ InsertCommits(r) \/ AuditReturns(r) \/ EncodingFails(r) \/ AuditFails(r)

Environment ==
  \/ \E u \in Users : HitExpires(u)
  \/ \E c \in Commits : Sync(c)
  \/ \E row \in catalog, column \in DriftColumns : Drift(row, column)
  \/ Crash

Next ==
  \/ \E r \in Requests : Arrive(r) \/ Handle(r)
  \/ Environment

Spec == Init /\ [][Next]_vars

\* The databases of which a request has a connection at a stage.
Holds(s) ==
  {db \in Databases :
     \/ db = "catalog" /\ s \in {"searching", "auditing", "recorded"}
     \/ db = "security" /\ s \in {"explain", "fetch"}}

\* The database a request waits for a connection of.
Awaits(s) ==
  {db \in Databases :
     \/ db = "catalog" /\ s \in {"search", "audit"}
     \/ db = "security" /\ s = "execute"}

\* A request whose next step does not depend on a statement ending: the search
\* and the INSERT have no timeout, nor have BEGIN, SET LOCAL and COMMIT around
\* EXPLAIN and the query, and create_pool sets no command_timeout.
AtNoStatement(r) == Holds(stage[r]) = {}

\* The event loop runs every task that can run; the model API's client, the
\* identity provider's and the opening of a connection have timeouts; and a
\* request acquires at most three connections, so a waiter in a pool is not
\* passed over for ever. Nothing is assumed of the environment, and a statement
\* may hang.
FairSpec == Spec /\ \A r \in Requests : WF_vars(AtNoStatement(r) /\ Handle(r))

-----------------------------------------------------------------------------
(* Correctness.                                                            *)

AuditRow ==
  [request_id : Requests, role : Role, outcome : {"success", "denied", "error"},
   error_category : {Handling[v].category : v \in Verdict},
   catalog_id : QueryIds \union {None}, sql_hash : Digest \union {None},
   source_commit : Commits \union {None}, estimated : Plan \union {None},
   actual_rows : Nat \union {None}]

\* Every variable keeps the shape the code gives it.
TypeOK ==
  /\ catalog \subseteq Row
  /\ audit \subseteq AuditRow
  /\ leases \subseteq Requests \X Databases
  /\ hits \in [Users -> 0..ChatRateLimit]
  /\ stage \in [Requests -> Stage]
  /\ role \in [Requests -> Role \union {None}]
  /\ candidates \in [Requests -> SUBSET Row]
  /\ record \in [Requests -> Row \union {None}]
  /\ plan \in [Requests -> Plan \union {None}]
  /\ result \in [Requests -> Result \union {None}]
  /\ verdict \in [Requests -> Verdict \union {None}]
  /\ reply \in [Requests -> [by : {"gate", "handler"}, status : 200..599] \union {None}]

\* Fail closed: the chat handler's answer, unless it is the 503 that says the
\* audit is unavailable, is out only if the event that describes exactly what
\* the request did is in audit_events (_write_audit comes before every return
\* and every raise, and turns its own failure into the 503).
AnswersAreRecorded ==
  \A r \in Requests :
    reply[r] # None /\ reply[r].by = "handler" /\ reply[r].status # 503 =>
      /\ AuditEvent(r) \in audit
      /\ reply[r].status = Handling[verdict[r]].status

\* Provenance: a success in the audit names a commit at which the repository
\* held, under that id, the SQL with that hash, open to the role it ran for;
\* whatever sync runs came in between, and whichever one column of the row was
\* changed outside the sync (the hash covers the text, the search filter and
\* execute check the role against different columns).
EvidenceSound ==
  \A a \in audit : a.outcome = "success" =>
    \E e \in History[a.source_commit] :
      /\ e.id = a.catalog_id
      /\ content_hash(e.sql) = a.sql_hash
      /\ can_access(a.role, e.minRole)

\* What reaches the security database is, from EXPLAIN to the last row, text
\* the repository approved for that id and open to the caller's role.
OnlyApprovedSqlRuns ==
  \A r \in Requests : stage[r] \in {"explain", "fetch"} \/ result[r] # None =>
    \E e \in History[record[r].commit] :
      e.id = record[r].id /\ e.sql = record[r].sql /\ can_access(role[r], e.minRole)

\* Once a query has returned rows, whatever happens afterwards (the summary
\* failing included), the request's audit record says which query it was, at
\* which hash and commit, and how many rows it returned.
ExecutionAttributed ==
  \A a \in audit : LET r == a.request_id IN
    result[r] # None =>
      /\ a.catalog_id = record[r].id
      /\ a.sql_hash = record[r].sqlHash
      /\ a.source_commit = record[r].commit
      /\ a.actual_rows = result[r].row_count

\* A request that waits for a connection has none, so requests cannot wait on
\* each other around the two pools; and one that has ended has given its back.
NoHoldAndWait ==
  \A r \in Requests : stage[r] \notin {"searching", "explain", "fetch", "auditing", "recorded"} =>
    \A db \in Databases : <<r, db>> \notin leases

\* The evidence returned does not pass a cut result off as a complete one, and
\* exists only for a plan within both budgets.
ResultHonest ==
  \A r \in Requests : result[r] # None =>
    /\ result[r].row_count <= RowCap
    /\ ~result[r].truncated => result[r].row_count = result[r].matching
    /\ result[r].truncated => result[r].matching > RowCap
    /\ WithinBudget(plan[r])

\* The ledger view of the audit, for the abstract specification.
Ledger ==
  [r \in Requests |-> IF \E a \in audit : a.request_id = r
                      THEN (CHOOSE a \in audit : a.request_id = r).outcome
                      ELSE None]

FC == INSTANCE FailClosed WITH ledger <- Ledger, answer <- reply

\* The handler implements the abstract promise: record, then tell, each once.
RecordsThenTells == FC!Spec

\* What module CatalogStore says of a row; one source is synced here.
StoreView ==
  {[id |-> row.id, entry |-> [id |-> row.id, sql |-> row.sql, minRole |-> row.minRole],
    commit |-> row.commit, source |-> "source"] : row \in catalog}

Store == INSTANCE CatalogStore
  WITH Sources <- {"source"}, SourceOf <- [c \in Commits |-> "source"], catalog <- StoreView

\* From a catalog no row of which has lost a column outside the sync, a sync
\* takes what requests see to one commit's whole snapshot, although it only
\* relabels a row whose catalog_hash is unchanged; only a write outside the sync
\* does anything else to it. Module CatalogSync shows the same of its runs: the
\* two modules' syncs implement the same abstract store.
SyncsAsAStore ==
  [][(\A row \in catalog : AsSynced(row)) =>
       \/ Store!Next \/ UNCHANGED StoreView
       \/ \E row \in catalog, column \in DriftColumns : Drift(row, column)]_vars

\* A request stays unanswered for ever (or until the process dies) only where a
\* statement hangs: its own, or one that keeps the connection of the database it
\* waits for. No path keeps a connection when it is done with it, and a statement
\* that hangs in one database stops no request that does not need that database.
EveryRequestAnswered ==
  \A r \in Requests : <>[]InFlight(r) =>
    \E db \in Databases :
      /\ <>[](db \in Holds(stage[r]) \union Awaits(stage[r]))
      /\ \E q \in Requests : <>[](db \in Holds(stage[q]))

\* README.md:25 "Execution reloads the retrieved record": what execute is handed
\* is a row the catalog has at that moment.
ExecutesCurrentRow ==
  [][\A r \in Requests :
       stage[r] = "select" /\ stage'[r] = "execute" => record'[r] \in catalog]_vars

-----------------------------------------------------------------------------
(* The inductive invariant: what a request carries at each stage, and what *)
(* the rows it works from still owe to the repository.                     *)

BeforeSelect == {"new", "gate", "search", "searching", "select"}
Executing == {"execute", "explain", "fetch"}

\* What execute has checked of the selected row.
Checked(r) ==
  /\ record[r] \in Row /\ role[r] \in Role
  /\ can_access(role[r], record[r].minRole)
  /\ Intact(record[r])

CarriedAt(r) ==
  /\ stage[r] \in {"new", "gate"} => candidates[r] = {}
  /\ stage[r] \notin {"new", "gate", "done", "lost"} => role[r] \in Role
  /\ stage[r] \in BeforeSelect => record[r] = None
  /\ stage[r] \in BeforeSelect \union Executing => result[r] = None
  /\ stage[r] \in BeforeSelect \union Executing \union {"summarize"} => verdict[r] = None
  /\ stage[r] \in {"audit", "auditing", "recorded"} => verdict[r] \in Verdict
  /\ verdict[r] = "QueryBudgetExceeded" => record[r] \in Row
  /\ \/ stage[r] \in Executing \union {"summarize"}
     \/ result[r] # None
     \/ verdict[r] = "Answered"
     => Checked(r)

Carried == \A r \in Requests : CarriedAt(r)

\* A row as a sync left it, up to one column changed since: the text or its
\* hash, and the role or its level, are still those of the entry.
SoundRow(row) ==
  \E e \in History[row.commit] :
    /\ row.id = e.id
    /\ row.catalogHash = catalog_hash(e)
    /\ row.sql = e.sql \/ row.sqlHash = content_hash(e.sql)
    /\ row.minRole = e.minRole \/ row.minRoleLevel = ROLE_ACCESS[e.minRole]

SoundFor(r, row) == SoundRow(row) /\ row.minRoleLevel <= ROLE_ACCESS[role[r]]

SoundRows ==
  /\ \A row \in catalog : SoundRow(row)
  /\ \A r \in Requests : \A row \in candidates[r] : SoundFor(r, row)
  /\ \A r \in Requests : record[r] # None => SoundFor(r, record[r])

AnsweredLast ==
  \A r \in Requests :
    /\ stage[r] = "recorded" => AuditEvent(r) \in audit
    /\ reply[r] # None => stage[r] = "done"

Leased ==
  \A r \in Requests : \A db \in Databases : <<r, db>> \in leases <=> db \in Holds(stage[r])

\* Rows have been fetched for a plan within both budgets only, and cut once.
BudgetedAt(r) ==
  /\ stage[r] = "fetch" \/ result[r] # None => plan[r] \in Plan /\ WithinBudget(plan[r])
  /\ result[r] # None => \E m \in MatchCounts : result[r] = ResultOf(m)

Budgeted == \A r \in Requests : BudgetedAt(r)

\* What is in the audit about a request is the event of what it carries, from
\* the INSERT on; and after a query has run, that event has a context.
AttributedAt(r) ==
  /\ stage[r] \in {"audit", "auditing", "recorded"} /\ result[r] # None =>
       WithContext(verdict[r])
  /\ \A a \in audit : a.request_id = r =>
       /\ stage[r] \in {"recorded", "done", "lost"}
       /\ a = AuditEvent(r)
       /\ result[r] # None => WithContext(verdict[r])

Attributed == \A r \in Requests : AttributedAt(r)

\* A request's rows, its stage, its connections and the events written about it
\* agree, so that the invariants above survive any step.
IndInv ==
  /\ TypeOK /\ Carried /\ SoundRows /\ AnsweredLast
  /\ AnswersAreRecorded /\ EvidenceSound
  /\ Leased /\ Budgeted /\ Attributed

=============================================================================
