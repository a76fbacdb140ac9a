# A TLA+ model of the Approved SQL RAG Agent

The program answers security questions by choosing one of a set of reviewed SQL
queries, never by writing SQL. What can go wrong in it is not one function but
the order of things: a catalog that is replaced while a request is working from
an old row, an answer that leaves before its audit record, a connection that is
not given back, two sync runs that overlap, a session that two requests refresh
at once, two browser tabs that save over each other. These modules model those
orders, TLC checks them on small instances, and TLAPS proves every safety property
the passing runs check, for instances of any size.

Paths and line numbers below are relative to `src/`.

## The system

| Component | State it keeps | Operations | What it interacts with |
|---|---|---|---|
| Chat endpoint, `app/main.py`, `app/observability.py` | the request's id, identity and response | middleware `dispatch`, `chat`, `_write_audit` and its two callers | rate limiter, chat service, audit |
| Chat service, `app/chat.py` | one request's candidates, record, audit context | `ask`, `select`, `summarize` | catalog search, selector (plain Python or the model API), executor |
| Catalog search, `app/catalog.py` | none; reads `approved_queries` | `search`, `list_accessible`, `can_access` | catalog pool, embedder |
| Executor, `app/executor.py` | one transaction | `execute`, `validate_parameter_values`, `bind_query`, `parse_plan_estimate` | security pool |
| Audit, `app/audit.py` | rows of `audit_events` | `ensure_schema`, `write`, `recent` | catalog pool (the same as search) |
| Pools, `app/database.py`, lifespan of `app/main.py` | a pool of at most five connections per database, made by the first who needs it | `connect`, `connection`, `close`, the lifespan | PostgreSQL |
| Rate limiter, `app/observability.py` | a deque of times per user, in memory | `check` | the chat endpoint |
| Catalog sync, `app/sync.py` | rows of `approved_queries` | `load_queries`, `sync` | PostgreSQL, embedder, the workflow and Compose that start it |
| Authentication, `app/auth.py` | nothing: the sealed session and the state digest are cookies of the browser | `login_response`, `callback_response`, `authenticate`, `logout_response`, `require_identity` | WorkOS |
| SQL validation, `app/sql_validation.py` | none | `validate_approved_sql`, `extract_parameters`, `content_hash` | sync, executor |
| Embedder, `app/embedder.py`; settings, `app/config.py` | the model; constants | `embed` | search, sync |
| Browser client, `app/static/index.html` | chats in memory and localStorage, `busy`, the pending message | `bootstrap`, `ask`, `createChat`, `switchChat`, sign-out | the API, its other tabs through localStorage |

Everything in the application process runs on one event loop: a request gives
up control only at an `await`, and there it interleaves with every other
request. The exception is `require_identity`, a plain function that FastAPI runs
in a thread pool: authentication is concurrent with everything else.
The databases outlive the process; the limiter and the pools do not.
A sync run is a process of its own that meets the application only in the rows
of `approved_queries`.

What is hard, and which properties are about it (the full list, with lines, is
under `hazards` in `PROJECT.json`):

- *The row a request works from goes stale.* It is read by `search`, chosen
  after a call to the model API, executed later. `EvidenceSound`,
  `OnlyApprovedSqlRuns`, `ExecutesCurrentRow`.
- *Failure after the work is done.* The audit write can fail, hang on the pool
  or lose its acknowledgement when the answer is ready; the summary can fail
  after the rows were read. `AnswersAreRecorded`, `RecordsThenTells`,
  `ExecutionAttributed`.
- *Pools.* Two pools without an acquire timeout, one of them used before and
  after the other: `NoHoldAndWait`, `EveryRequestAnswered`. They are created by
  whoever finds none, across an await, and closed one after the other:
  `StrayPools`, `ServedByOpenPool`, `CatalogAsAssumed`, `EveryWaiterServed`,
  `StopEnds`.
- *Overlapping syncs.* Hashes are read outside the transaction that acts on
  them, and two transactions lock the same rows in different orders.
  `LabelHonest`, `SoloRunHeals`, `PublishesSnapshots`, `EveryRunEnds`.
- *Sessions.* A refresh uses up the token of the session in the browser; the
  session that replaces it comes back on a response that may be late, refused or
  lost, while other tabs sign in and out. `SessionKept`, `OvertakenSignInFails`,
  `SignedInHere`, `SignedOutStays`.
- *Filters and limits.* The access filter, the vector index, the LIMIT, the
  detail policy and the selector each drop candidates, in that order.
  `HiddenRowsDoNotMatter`, `RichestAssetQuery`. The audit page is filtered, ordered and cut too: `OthersDoNotMatter`,
  `AnsweredIsListed`.
- *Contracts.* Values arrive from words of a prompt or from a model; two
  notations are bound to one list of positions; the largest estimate of a plan
  hides below its root. `BindingFaithful`, `SecondChecksSilent`,
  `ContractEnforced`, `ValidDatesRun`, `BudgetSeesEveryNode`.
- *The page.* One question in flight per tab while its user switches chats,
  reloads, or uses another tab over the same localStorage, which can be full.
  `AnswerWhereAsked`, `NothingLost`, `StoredIsOneTabsView`, `AskEnds`.
- *Boundaries.* `row_cap + 1`, a hit exactly as old as the window, checks on
  one clock reading. `ResultHonest`, `WindowBound`, `RefusedAtLimitOnly`.
- *Loss of the process* between any two of these steps. `Crash`, `Restart`.

## Modules

| Module | What it is |
|---|---|
| `Access` | roles, levels, the access rule |
| `Domain` | digests, rows; the history of the query repository as a constant |
| `GovernedChat` | the chat endpoint with everything it interleaves with |
| `FailClosed` | abstract: record a decision, then tell it, each once |
| `GovernedChatProofs` | what each of its actions does and leaves alone, its invariants, and that it implements `FailClosed` and `CatalogStore` |
| `CatalogSync` | sync runs against PostgreSQL |
| `CatalogStore` | abstract: a catalog that changes from snapshot to snapshot |
| `CatalogSyncProofs` | the invariant of overlapping runs; serialised ones implement `CatalogStore` |
| `RateLimiter` | `RateLimiter.check` over a discrete clock |
| `RateLimiterProofs` | its bounds, over one process and over several |
| `ConnectionPool` | `PoolManager` and the lifespan that starts and ends it |
| `BoundedPool` | abstract: at most `max_size` tasks hold a connection, and a task that wants one waits |
| `ConnectionPoolProofs` | its invariants, and that the catalog's pools implement `BoundedPool` |
| `QueryChoice` | search, detail policy, selectors: which query a prompt is answered with |
| `QueryExecution` | from there on: parameters, their contracts, binding, and the plan's estimate |
| `QueryExecutionProofs` | the invariants of both, and what their recursive functions compute |
| `AuthSession`, `AuthSessionProofs` | sign-in, session refresh and sign-out of one browser |
| `AuditView`, `AuditViewProofs` | `/api/audit/recent` beside the writes of the chat endpoint |
| `ChatUI`, `ChatUIProofs` | the chat page in the tabs of one browser |
| `MC...` | small instances of each for TLC |

`GovernedChat` and `CatalogSync` extend `Domain`, which extends `Access`, as
`QueryChoice` and `AuditView` do; `QueryExecution` extends `QueryChoice`. Three modules instantiate an abstract one as
the specification they implement: `GovernedChat` the ledger `FailClosed`,
`CatalogSync` the store `CatalogStore`, `ConnectionPool` the `BoundedPool`.
`GovernedChat` composes the components, each in a reduced form that another
module justifies:

- its `Sync` is one committed run of `CatalogSync`; both modules are shown to
  implement `CatalogStore` (`SyncsAsAStore`, `PublishesSnapshots`), so that
  what a request can find in the catalog is what the runs leave there;
- its leases are the pools of `ConnectionPool`, which implements the bounded
  pool for the catalog (`CatalogAsAssumed`); of the security database, as many
  pools are possible as requests were the first to need it together, and
  `PoolSize` is then the bound of each;
- `Pass`, `Throttle` and `HitExpires` are the limiter seen as a count of the
  hits inside the window;
- `SearchReturns` and the `Select` actions choose among the accessible rows as
  they please, where `QueryChoice` says which ones the code chooses, and
  `SelectInvalid` is every refusal of `QueryExecution`;
- `RefuseAtGate` is what `AuthSession` answers to a request without a session,
  and a response to `ChatUI`'s `fetch` is a `reply`.

Operators introduced as *Mutant of X* change one definition the way a plausible
bug would. No specification uses them; they are there to show that a property
fails when X is replaced.

### GovernedChat

A variable per piece of state: the rows of the two tables (`catalog`, `audit`),
the leases of the pools, the limiter's counts, and per request the locals of
`chat`, `ask` and `execute` (`role`, `candidates`, `record`, `plan`, `result`),
the exception that ended `ask` (`verdict`) and the response (`reply`). `stage`
is the await a request is at. An action is the code from one await to the next:

| Code | Actions |
|---|---|
| middleware, `require_identity` | `Arrive`, `RefuseAtGate` |
| `rate_limiter.check`, up to the first await of `ask` | `Admit`, `Throttle`, `EmbedFails` |
| `search` | `AcquireForSearch`, `RetrievalFails`, `SearchReturns`, `SearchFails` |
| `select`, start of `execute` | `SelectFails`, `SelectDenied`, `SelectInvalid`, `SelectAccepted` |
| `execute` | `ConnectFails`, `AcquireForExecute`, `ExplainReturns`, `ExplainFails`, `BudgetDenied`, `FetchReturns`, `FetchFails` |
| `summarize` | `Summarize`, `SummarizeFails` |
| `_write_audit`, `write`, the response | `AcquireForAudit`, `AuditUnreachable`, `InsertCommits`, `AuditReturns`, `AuditFails`, `EncodingFails` |
| elsewhere | `Sync`, `Drift`, `HitExpires`, `Crash` |

The INSERT of an audit event and the return of `write` are two steps, so that
an acknowledgement can be lost between them (`AuditFails` from `recorded`).
`Handling` is the table of the `except` clauses; `AuditEvent(r)` is the event
built for request `r`, with the context that `ask` attaches to exceptions from
`execute` and `summarize`. `Drift` changes one column of a row as the sync left
it: the hash check and the second access check of `execute` exist for that, and
without it they would have nothing to do. Two columns changed together (a text
and a matching hash) are outside what these checks can detect, and outside
`Drift`. The catalog here has one source repository; `CatalogSync` has several.
`EncodingFails` is a result that cannot be sent as JSON after it was recorded:
the middleware answers 500, the one answer that contradicts its record, and the
abstract `Break` of `FailClosed`.

Data are abstract: a text is a model value and its digest a record around it
(texts are taken up to the normalisation of `content_hash`, and SHA-256 as
free of collisions); prompts, parameters, rankings and rows are left out. Which
accessible rows the search returns, and which of them is selected, is any
choice; exceptions are classes of what the handler tells apart.

### CatalogSync

A run is a process: `Begin` loads a commit's entries, `ReadExisting` is the
SELECT before the transaction, `Relabel` and `Upsert` are the two statements
of the loop, `StartDelete` and `DeleteRow` the DELETE with the rows it has to
wait for, `Commit` and `Fail` the end. PostgreSQL is modelled from its
documented READ COMMITTED behaviour: `Visible` is what a statement sees,
`locks` the rows a transaction has written, `BreakDeadlock` the detector.
`serialised` is TRUE where the workflow alone starts runs (its concurrency group,
`.github/workflows/sync-security-catalog.yml:11`) and FALSE where Compose or the
command line do, which start a run whenever they are asked to; it is chosen in
`Init` and stays.

### RateLimiter

`Pops` says how many entries the `while` loop removes, `Admit` and `Refuse` are
the two ends of `check`, `Restart` is a new process. The logs `admitted` (of the
process) and `earlier` (since the first) are history variables.

### ConnectionPool

A task of the server is idle, works, or is somewhere in `connection()`: it found
no pool and awaits `create_pool` (`creating`), waits in a pool's queue, or has a
connection. A pool is named after the task that created it, so that two
creations under way at once give two pools, of which `PoolManager.pool` names the
later (`PoolCreated`). The lifespan is a task too: `ensure_schema` before the
first request, the two `close` calls after the last. asyncpg is external:
`create_pool` connects or raises, a pool serves its waiters in order, and `close`
waits until its connections are back.

### QueryChoice

The catalog is a sequence of rows ordered by distance to the prompt; a prompt is
which of the words "asset", "open" and "finding" it contains. `Sorted` is the
statement of `search` as it is written, `Indexed` what PostgreSQL makes of it if
the planner takes the HNSW index that `db/vector-init.sql:24` creates: pgvector
visits `ef_search` rows and the filter is applied to those. The scan itself is
taken as exact. A row has both columns of its role, `min_role_level`, which the
search filters on, and `min_role`, which the policy, the selector and `execute`
look at; they may disagree. `_apply_demo_detail_policy` and `Deterministic` are the code's
two preferences for the most detailed asset query. `Keep` is the filter of them all:
the WHERE and the `if` of a list comprehension, written as a recursion over prefixes
so that it can be reasoned about. A request stops here
(`SelectNone`) or goes on in `QueryExecution` with the selected row.

### QueryExecution

A value is its Python type and its magnitude, a statement its sequence of
markers, a specification the keys the code looks at; strings are told apart by
whether they are an ISO date or an ISO time. `_coerce`, `Found`,
`validate_parameter_values`, `bind_query`, `Estimated` (the exceptions of
`parse_plan_estimate`) and `_max_plan_rows` are functions of the source with their order of cases; the actions are the selectors filling in
parameters, each check that can refuse, and EXPLAIN. Comparisons are Python's, in
which a NaN is neither below nor above anything. asyncpg is external: it encodes
a `date` parameter from a `datetime.date`, a `datetime` one from a
`datetime.datetime`, and neither from a string (`Encodes`). Declarations are taken to be well formed in one respect: bounds are
of the type they bound, and numbers (a jsonb column has no NaN). Numbers are
integers here; the code only compares them.

### AuthSession

WorkOS issues sessions, numbered in order; refreshing one gives its `successor`
and uses it up (the least WorkOS may grant: with a grace period fewer requests
fail). A call is a request, a sign-in or a sign-out; it leaves with the cookies
the jar holds and its response reaches the jar later, in any order, or is lost.
`Refreshed` carries the code's order: the new session is noted on the request
before the role header is checked, and the middleware sets it on whatever
response follows: the 400 of the role header, and the handler's own errors
(`Handled`), its 403 among them. Only an authentication that fails sets none. `lost`, `overtaken` and `left` are history.

### ChatUI

Per tab the page's variables (`chats`, `active`, `busy`, the `pending` message),
and `storage`, which the tabs share. An action is one event handler, or one of the
parts that `await` cuts `ask` and `bootstrap` into. `saveChats` raises when the list
does not fit (`Quota`), and then the rest of its handler does not run. `ask` saves
twice where it creates a chat, and the second save can raise alone. Before
`/api/me` has answered, the page saves under "anonymous".

### AuditView

`Insert` dates an event, `Commit` makes it visible, `Answer` is the chat
response that comes after; `recent_audit` reads a page. The `view` keeps with the
page what it was made from.

## What the runs check

Every property of a run that passes comes with a mutant of the code that breaks
it. Bounds are the constants of the `.cfg` files. A module's `TypeOK` is checked in its
own right or as a conjunct of another invariant, which its comment names.

| Run | Shows | Size |
|---|---|---|
| `chat_two_requests` | `TypeOK`, `AnswersAreRecorded`, `NoHoldAndWait`, `ResultHonest`, `RecordsThenTells`, `EveryRequestAnswered` with every failure, statements that hang, pools of one connection and a limit of one | 235k states |
| `catalog_drift` | `EvidenceSound`, `OnlyApprovedSqlRuns`, `ExecutionAttributed`, `IndInv`, `SyncsAsAStore`: two commits that revise, reclassify and drop queries, one column changed outside the sync, the Claude selector | 1.1M states |
| `sync_runs` | `IndInv` (no id twice, no row locked twice, undisturbed runs on course), `PublishesSnapshots`, `SoloRunHeals`, `EveryRunEnds` for three runs of two sources that share an id, one after another or overlapping | 225k states |
| `limiter` | `RefusedAtLimitOnly`, `IndInv`, `WindowBound`, `WindowBoundAcrossRestarts` for two users, two windows and a restart | 287k states |
| `pool_lifecycle` | `ServedByOpenPool`, `StrayPools`, `CatalogAsAssumed`, `EveryWaiterServed`, `StopEnds` for three requests, from start to stop | 11k states |
| `ask_path` | `HiddenRowsDoNotMatter`, `RichestAssetQuery` for every order of every subset of five rows, every role and prompt; `BindingFaithful`, `SecondChecksSilent`, `ContractEnforced` for four statements with fitting and unfitting declarations and every kind of value; `BudgetSeesEveryNode` for every tree of up to three nodes and every shape of four | 300k states |
| `auth_sessions` | `SessionKept`, `OvertakenSignInFails`, `SignedInHere`, `SignedOutStays` for two sign-ins, two requests and a sign-out, up to their symmetry | 1.2M states |
| `ui_tabs` | `NothingLost`, `AnswerWhereAsked`, `StoredIsOneTabsView`, `AskEnds` for two tabs with reloads, in a localStorage that fills up | 354k states |
| `audit_view` | `OthersDoNotMatter`, `AnsweredIsListed` for four events of three callers in two organisations | 305k states |

Three runs are meant to fail. Each shows that something the repository says of
itself does not hold of the code:

- `chat_reload`: "Execution reloads the retrieved record" (README.md:25). It
  does not; `ask` executes the object `search` returned. Counterexample: search,
  a sync that revises the query, selection of the old text. It remains a text
  that was approved (`OnlyApprovedSqlRuns` holds).
- `sync_mislabels`: the sync "records a normalized SHA-256 hash plus source
  commit" (README.md:17). Counterexample: run 1 reads its hashes; run 2 of
  another commit commits; run 1 finds the query unchanged according to what it
  read and stamps its commit on run 2's content. Serialised runs do not do this
  (`PublishesSnapshots`), and the next undisturbed run repairs it
  (`SoloRunHeals`).
- `execution_dates`: README.md:126 offers a prompt with a date, README.md:87
  declares one. The value passes its contract as a string, is bound as a string,
  and asyncpg refuses to encode it.

In four more places the repository promises more than the code does, and a
property says what remains true:

- "Every success, denial, and processing error receives a request ID and redacted
  audit record" (README.md:28): what is refused before the handler
  (`RefuseAtGate`) is not recorded. `AnswersAreRecorded` speaks of the answers of
  the handler.
- "The application container is stateless" (README.md:164): the limiter is not,
  and a restart lets a user through anew. `WindowBoundAcrossRestarts` counts the
  processes.
- "Authorization is filtered before the distance expression ranks candidates"
  (app/catalog.py:20): over the index it is the other way round, and in a catalog
  larger than `ef_search`, rows the caller may not see take the places of those it
  may, down to "no accessible query matched". `HiddenRowsDoNotMatter` and
  `RichestAssetQuery` are conditional on `Scanned`, a catalog no larger than
  an index scan.
- "test_parameter_contract_constraints_are_enforced" (tests/test_executor.py:49):
  a NaN passes `minimum` and `maximum` (app/executor.py:58-61), and the word "nan"
  in a prompt is one. `ContractEnforced` is about every other value.

### Why the bounds are enough

A request touches other requests only through the pools, the limiter and the
catalog, so two requests and pools of one connection already show every way to
contend; what one request adds to the audit does not depend on what others
added. One query in `chat_two_requests` keeps the failures cheap; which query
and which text is the subject of `catalog_drift`, where one request meets two
queries, two commits and every one-column change between any two of its steps.
There, the two texts are both approved, but not for every id, commit and role,
so each can be the wrong one. `MatchCounts`, `PlanCosts` and `PlanRows` of
`chat_two_requests` hold a value on either side of each limit; elsewhere one value
does. For the sync, three commits of one source
cover a dropped, a revised and a reordered query; three runs let one commit
between the other two's reads and writes. The limiter's clock covers more than
two windows and its limit is small, so that the boundary is reached many times.
The bounds matter for liveness. For every other property of a passing run they do
not: it is proved, below, for any bound.

The sync's sources share an id, so that one source's run meets the other's row.
In `pool_lifecycle` a pool has one connection, so that every second task waits,
and three requests give a displaced pool a holder and a waiter at once. The five
rows of `ask_path` that are ranked have one asset query per role, two of the
middle one, and a query about something else; in two of them the columns of the
role disagree, in either direction; `Limit` = 3 cuts them, and an index
scan that visits `EfSearch` = 4 leaves one out. `Limit` and `EfSearch` appear in
the code as 10 and pgvector's 40. The ranked rows have no parameters and the rows
with parameters are alone in their catalog: what a row is chosen for and what is
done with it afterwards do not depend on each other. Its statements use each
notation first, both for one name, and a name three times; one statement is
planned in every way. Two requests and three sessions in `auth_sessions` let both
requests refresh one session, or one the other's result, on either side of a
sign-in. The page's two tabs have three questions and two chats, each able to
overwrite the other's, in a localStorage (`Quota`) that two chats and
one answered question fill. A page of one event in `audit_view` is the strictest LIMIT;
two clock readings give dates in and out of the order of commits.

### Fairness

`chat_two_requests` assumes `WF_vars(AtNoStatement(r) /\ Handle(r))` for each
request: the event loop runs every task that can run, and the calls that are no
statements end (opening a connection, the model API's client and the identity
provider's have timeouts of their own). Of a request that uses a connection
nothing is assumed: only EXPLAIN and the query are given a timeout
(`executor.py:140-153`), the search (`catalog.py:34`), the INSERT (`audit.py:62`)
and BEGIN, SET LOCAL and COMMIT are not, and `create_pool` sets no
`command_timeout`, so one that hangs keeps its connection for ever.
`EveryRequestAnswered` therefore says who suffers from it: a request stays
unanswered only while a statement hangs in the database it uses or waits for.
Weak fairness is enough for the pools because a request acquires a connection
at most three times, so no waiter is passed over for ever.
Failing to open a connection needs room in the pool (`HasRoom`): a full pool
makes a request wait, with no timeout, and that is what the property is about.
Nothing is assumed of arrivals, syncs, drift or crashes. `sync_runs` assumes
that the server executes a statement that waits for no lock and resolves
deadlocks (`BreakDeadlock`); `Fail` may happen at any time and is never relied on
otherwise.
In `pool_lifecycle` every task that is inside `connection()`, and the lifespan,
takes the steps it can (`WF`), and a request ends (`SF` on `End`: it asks for at
most three connections and then returns). The latter is an assumption about the
database and not about the code, for the reason above: `EveryWaiterServed` and
`StopEnds` hold as long as no statement hangs. In `ui_tabs` only `Respond` is fair,
which is the same assumption: as long as no statement hangs the server answers every
request (`EveryRequestAnswered`), a process that dies breaks the connection, and
either settles the `fetch`, which has no timeout of its own. Users owe nothing.

`CHECK_DEADLOCK FALSE` stands in the configurations of systems that stop: every
sync run has ended, the server has shut down, all calls of the browser are made,
a request has been decided (`QueryExecution`). The chat never
stops (a sync or a crash can always happen); it, the limiter, the page and the
audit view are checked for deadlock.

## What is proved

TLAPS checks every theorem below from its assumptions alone, for any number of
requests, users, queries, commits, runs, tabs or events and any settings. Each
has the form `Spec => []P` for an invariant `P`, or `Spec => P` for an action
property or an implemented specification, where `P` is a property of a run above.
The assumptions are typing facts about the constants and the following, which TLC
evaluates in every run:

- `HistoryAssumption`, `ListingAssumption`: `load_queries` returns typed entries
  without duplicate ids, in some order;
- `NoneAssumption`, and its counterparts in the other modules: `None` is no value
  of the kind it stands in for;
- `RequestsAssumption`, `PoolAssumption`, `ViewAssumption`: the requests are
  finitely many; `ViewAssumption` adds that an identity is its user and its
  organisation, the two columns `recent` filters on (`app/audit.py`);
- `AuthAssumption`: requests, sign-ins and sign-outs are different calls;
- `SituationsAssumption`: a request meets a sequence of rows with a known role each,
  and the two limits are positive;
- `RecordsAssumption`, `ValuesAssumption`, `PlansAssumption`: a declaration and an
  object of values have finitely many names; bounds, lengths and estimates are
  numbers, where they are given at all, and a value may be a NaN; the nodes of a plan
  are numbered, a parent before its children;
- `UIAssumption`: a pending message's text is told apart from questions and errors.

| Theorem | States |
|---|---|
| `GovernedChatProofs.TypeCorrect` | `TypeOK`, `Carried` |
| `.Invariance` | `IndInv` |
| `.FailsClosed` | `AnswersAreRecorded` |
| `.EvidenceIsSound`, `.ApprovedSqlOnly` | `EvidenceSound`, `OnlyApprovedSqlRuns` |
| `.NoneHeldWhileWaiting` | `NoHoldAndWait` |
| `.ResultsAreHonest`, `.ExecutionsAreAttributed` | `ResultHonest`, `ExecutionAttributed` |
| `.ImplementsFailClosed` | `RecordsThenTells`: refinement of `FailClosed` |
| `.SyncImplementsStore` | `SyncsAsAStore`: steps of `CatalogStore` |
| `CatalogSyncProofs.Invariance` | `IndInv` |
| `.PublishesWhole` | `PublishesSnapshots`: refinement of `CatalogStore` |
| `.UndisturbedRunsHeal` | `SoloRunHeals` |
| `RateLimiterProofs.Invariance` | `IndInv` |
| `.NeverOverTheLimit`, `.RestartsAddOneLimitEach` | `WindowBound`, `WindowBoundAcrossRestarts` |
| `.RefusedOnlyAtLimit` | `RefusedAtLimitOnly` |
| `ConnectionPoolProofs.ConnectionsAreServed`, `.OnlySecurityPoolsStray` | `ServedByOpenPool`, `StrayPools` |
| `.ImplementsBoundedPool` | `CatalogAsAssumed`: refinement of `BoundedPool` |
| `QueryExecutionProofs.HiddenRowsHaveNoInfluence`, `.RichestIsPreferred` | `HiddenRowsDoNotMatter`, `RichestAssetQuery` |
| `.MarkersGetTheirValues`, `.ValuesMeetTheirContract` | `BindingFaithful`, `ContractEnforced` |
| `.SecondChecksRefuseNothing`, `.BudgetIsExact` | `SecondChecksSilent` (with `TypeOK`), `BudgetSeesEveryNode` |
| `AuthSessionProofs.NobodyIsSignedOut`, `.JarIsOfThisBrowser` | `SessionKept`, `SignedInHere` |
| `.OvertakenFail`, `.SignOutHolds` | `OvertakenSignInFails`, `SignedOutStays` |
| `AuditViewProofs.AnswersAreListed`, `.OthersDoNotShow` | `AnsweredIsListed`, `OthersDoNotMatter` |
| `ChatUIProofs.AnswersStandWhereAsked` | `AnswerWhereAsked` |
| `.StorageIsAView`, `.OneTabLosesNothing` | `StoredIsOneTabsView`, `NothingLost` |

Hardly any of these is inductive as it stands. Each module has an `IndInv` that
is, and a run checks it, in its own right or as the conjunction of the properties
it consists of. The exception is that of `QueryExecution`, which stands in the proof
module and says where each variable comes from: to compute every search again in
every state takes longer than a run should, so `ask_path` checks the six properties
that follow from it. The arguments:

**GovernedChat.** `AnswersAreRecorded` needs to know that a request at `recorded`
has its event in the audit (`AnsweredLast`), and that what the event is computed
from does not change afterwards; the second holds because a finished request takes
no step (`HandleStages`, `EventFrame`). `EvidenceSound` needs that a request that
succeeds has passed both checks of `execute` (`Carried`), and that the row it
passed them with still owes something to the repository: `SoundRow` says that of
the text and its hash at least one, and of the role and its level at least one,
are those of an entry of the commit the row is labelled with. Since `execute`
compares the hash and checks `min_role`, and the search filtered on
`min_role_level`, the entry's own text and role follow (`CheckedIsApproved`).
`SoundRow` survives a relabelling because the catalog hash determines the entry
(`SyncSound`), and one changed column (`DriftSound`). `NoHoldAndWait` follows from
`Leased`: which connections a request has is a function of its stage (`Holds`).
`ResultHonest` follows from `Budgeted`: a result is `ResultOf` some count of
matching rows, fetched for a plan within both budgets. `ExecutionAttributed`
follows from `Attributed`: all that the audit holds about a request is the event
of what it carries, and once a query has run only exceptions with a context remain.
`Attributed` also makes the ledger well defined (`LedgerOfEvent`), which gives the
refinement of `FailClosed`: the INSERT is `Record`, the answer `Tell`, `EncodingFails`
`Break`, and every other step a stutter (`HandleRefines`). That a sync which only
relabels a row nevertheless publishes the commit's entry (`SyncPublishes`) is again
that the catalog hash determines the entry, as long as no row has drifted.

**CatalogSync.** `Transactional` is what row locks give: a transaction locks what
it writes, and no two share a lock. It makes commits keep the primary key. `Solitary`
says that a run nobody has disturbed is the only active one, and `OnCourse` how far it
has come: in its loop, every entry of its commit is written or still to do; in its
DELETE, the snapshot is written and every other row of the source is deleted or to
be. At `Commit` nothing is left to do, so the source's rows are the snapshot, which
is `SoloRunHeals`, and, where runs are serialised and none is ever disturbed,
`PublishesSnapshots`.

**RateLimiter.** The deque is the end of the log of admissions, and what it lacks
has left the window (`DequeIsRecentLog`); so the admission `limit` places back is
one the deque has dropped, and a full deque is `limit` admissions in the window.
`LogsContinue` says that the log of the running process is the end of the whole
log, whose rest keeps to one `limit` per earlier process; a restart turns the
first bound into another `limit` of the second (`OneMoreProcess`).

**ConnectionPool.** `Queued` ties the queue of a pool to the tasks that wait in
it, each once; `InConnection` says what a task has at each step, `PoolsKnown` and
`LifeOfServer` whose pools are open at each stage of the server. The catalog has one
pool because nobody but the lifespan is ever `creating` it. The catalog's holders
are then those of one pool (`OneCatalogPool`), and a grant to the head of its queue
needs room in it: that is `BoundedPool`.

**QueryChoice and QueryExecution.** `IndInv` is short: each variable is what the step
that set it computed from the others (`CandidatesInv`, `RecordInv`, `SentInv`,
`PlanInv`), and a step changes none of those again. The work is in what the operators
compute, which takes induction over sequences, plans and sets. The library's induction
theorems have an operator as a parameter, which the provers here cannot instantiate;
`Induction` states the principle for a set instead, and a proof collects the cases
that hold in one. With it a recursive function is first shown to exist, so that it
satisfies the recursion it is written with (`KeepRecursion`, `PassRecursion`,
`MostRecursion`, `EstimatedRecursion`), and then described:

- `KeepFacts`: `Keep` returns the elements of a sequence that are in a set, and the
  sequence itself if all are. So filtering a filtered catalog changes nothing, and a
  scan of all of it is exact (`SearchSeesVisible`, `ScanIsExact`), which is
  `HiddenRowsDoNotMatter`. What the policy leaves has one level
  (`RichestOfOneLevel`), so that the selector's own preference finds what it would
  have found in the whole list (`RichestIsChosen`).
- `Bound` says what holds of slots, positions and arguments once the markers in a set
  are replaced, `ReplaceKeepsBound` that one more keeps it, and `PassBinds` that a
  pass adds the markers of its notation, whatever the other pass has done: that is
  `BindingFaithful`. Names agree because both checks compare with the same
  declarations, so `bind_query` has nothing left to refuse. The access check of
  `execute` has, where a row the search let through (`CandidatesFacts`) has a
  `min_role` above its level, and nowhere else. That gives `SecondChecksSilent`, and
  `ContractEnforced` is the checked contract carried through the binding.
- `CountedFacts`: the set of nodes a walk of the plan comes by exists, from the root
  down. From the leaves up, `most` of a node is the estimate of a node in the set and
  no less than those of its children; from the root down, no less than any
  (`EstimateFacts`). With the cost of the root that is `BudgetSeesEveryNode` in both
  directions.

**AuthSession.** `Replacements` names, for every session that has been refreshed, the
request that carries its successor, or the failure that took it; `OneCarrier`,
`RequestAccounted` and `SignInAccounted` say what each call carries at each stage,
and so that two responses never bring one session. `StateCookie` says that the state
cookie is that of the sign-in under way that was not overtaken.

**AuditView.** `ViewStands`: a page stays one that `recent` could have made of the
events it was made from, since an event keeps its date once it is visible. The rest
is about `Newest`: a row left out of a full page is dated no later than any in it.

**ChatUI.** What the page does to a list (a chat added, a question appended, an
answer filled in) is described once, by which messages stand in the result (`Has`),
so that no later proof goes into sequences. `Remembered` says that a question not
asked yet stands nowhere, so an answer cannot meet an older one; `SoleTab` that the
only tab shows what is stored, and that the question it waits for stands in one
chat, the one it was asked in. All steps that save are one case (`SavingStep`), all
that leave the page another (`LeavingStep`).

### What is only model-checked

- Liveness (`EveryRequestAnswered`, `EveryRunEnds`, `EveryWaiterServed`, `StopEnds`,
  `AskEnds`): TLAPS does not reason about fairness.
- The three runs that are meant to fail: a counterexample is TLC's to find.
- That the constants' assumptions hold of what PostgreSQL and the model return is not
  checked by anything; TLC evaluates them on the instances.

## What is not modelled

- WorkOS, AuthKit, the model API, asyncpg and PostgreSQL, except for what the code
  relies on of them; each such definition is marked external in `PROJECT.json`.
- The embedder (`app/embedder.py`): a computation without state that a property
  depends on. Its failure and the order it gives the rows are modelled.
- The wording of prompts. Which value a word yields for a parameter is any value
  of its kind; which of two patterns takes a word is left open.
- SQL parsing (`sqlglot`): one nondeterministic refusal, and the texts a sync has
  accepted pass again.
- The reading of metadata files (`load_queries`): the constant `History`, with the
  duplicate check as an assumption.
- `GET /api/catalog`, `GET /api/health` and `GET /api/me`, which read and change
  nothing.
- `audit is None` (`main.py:274`), which no application built by
  `build_services` has, and `build_auth` returning None, which is configuration.
- Several application processes at once: Compose starts one.
- Rendering, the tutorial and `login.html`; logging, security headers, settings,
  packaging and CI.

## Plan

Every safety property of a passing run has its theorem. What would be worth adding:

1. the two views that only read (`GET /api/catalog` beside a sync; `GET /api/me`
   beside the calls of `AuthSession`), if they come to change anything;
2. the hazards of `PROJECT.json` that no property covers yet: a change of the
   embedding model, which leaves all hashes as they are, and the keys of the limiter
   that are never dropped. The others without a property are things the models do
   as the code does and that nothing in the repository promises otherwise: a refreshed
   session thrown away, a result that cannot be encoded, a pool left open by a failed
   shutdown, an index scan over a large catalog, and on the page a full localStorage,
   a second tab, and a question asked before `bootstrap` has returned. The `note` of
   each names the property that says what remains true.

## Running

    tlasany GovernedChat.tla
    tlc -workers 2 -config chat_two_requests.cfg MCGovernedChat.tla
    tlapm GovernedChatProofs.tla
    tlapm QueryExecutionProofs.tla

The module of each run is listed under `runs` in `PROJECT.json`.
