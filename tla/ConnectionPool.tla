--------------------------- MODULE ConnectionPool ---------------------------
(***************************************************************************)
(* PoolManager (app/database.py) and the lifespan that starts and ends it  *)
(* (app/main.py): a pool per database, created by whoever finds none,      *)
(* across an await; its connections lent to tasks; its closing when the    *)
(* server stops.                                                           *)
(*                                                                         *)
(* A pool is named <<db, t>> after the task whose create_pool made it. A   *)
(* task uses one connection at a time (GovernedChat: NoHoldAndWait).       *)
(***************************************************************************)
EXTENDS Naturals, Sequences, FiniteSets

CONSTANTS
  Requests,   \* the tasks of the server that answer requests
  Lifespan,   \* the task that runs the lifespan
  MaxSize,    \* max_size of create_pool
  None        \* Python's None

Databases == {"catalog", "security"}
Tasks == Requests \union {Lifespan}
Pools == Databases \X Tasks

ASSUME PoolAssumption ==
  /\ MaxSize \in Nat \ {0}
  /\ IsFiniteSet(Requests)
  /\ Lifespan \notin Requests
  /\ None \notin Tasks \union Pools

VARIABLES
  server,   \* where the server is in its life
  pool,     \* PoolManager.pool of each database
  open,     \* the pools that exist at the database server
  step,     \* idle: no request; working: outside connection(); else where it is in it
  target,   \* the database of the connection() a task is in
  source,   \* the pool it called acquire() on
  waiters   \* the tasks waiting in a pool, in order of arrival

vars == <<server, pool, open, step, target, source, waiters>>

Server == {"starting", "serving", "draining", "closing catalog", "closing security",
           "stopped", "failed"}

Using(p) == {t \in Tasks : step[t] = "leased" /\ source[t] = p}

Init ==
  /\ server = "starting"
  /\ pool = [db \in Databases |-> None]
  /\ open = {}
  /\ step = [t \in Tasks |-> IF t = Lifespan THEN "working" ELSE "idle"]
  /\ target = [t \in Tasks |-> None]
  /\ source = [t \in Tasks |-> None]
  /\ waiters = [p \in Pools |-> <<>>]

-----------------------------------------------------------------------------
(* connection(): an asynchronous context manager.                          *)

\* acquire() is called on p: the task queues up (asyncpg serves in order).
Join(t, p) ==
  /\ step' = [step EXCEPT ![t] = "waiting"]
  /\ source' = [source EXCEPT ![t] = p]
  /\ waiters' = [waiters EXCEPT ![p] = Append(@, t)]

\* Mutant of Arrive: requests are served while the schema is being made.
ArriveAtOnce(t) ==
  /\ server \in {"starting", "serving"} /\ step[t] = "idle"
  /\ step' = [step EXCEPT ![t] = "working"]
  /\ UNCHANGED <<server, pool, open, target, source, waiters>>

\* The server starts a request: not before the lifespan has reached its yield.
Arrive(t) ==
  /\ server = "serving" /\ step[t] = "idle"
  /\ step' = [step EXCEPT ![t] = "working"]
  /\ UNCHANGED <<server, pool, open, target, source, waiters>>

End(t) ==
  /\ t # Lifespan /\ step[t] = "working"
  /\ step' = [step EXCEPT ![t] = "idle"]
  /\ UNCHANGED <<server, pool, open, target, source, waiters>>

\* ensure_schema is for the catalog; a request may need either database.
Calls(t, db) ==
  /\ step[t] = "working"
  /\ t = Lifespan => db = "catalog"

\* connection() finds a pool and calls acquire() on it, without an await.
UsePool(t, db) ==
  /\ Calls(t, db)
  /\ pool[db] # None
  /\ target' = [target EXCEPT ![t] = db]
  /\ Join(t, pool[db])
  /\ UNCHANGED <<server, pool, open>>

\* connection() and connect() find none: create_pool is awaited.
StartPool(t, db) ==
  /\ Calls(t, db)
  /\ pool[db] = None
  /\ target' = [target EXCEPT ![t] = db]
  /\ step' = [step EXCEPT ![t] = "creating"]
  /\ UNCHANGED <<server, pool, open, source, waiters>>

\* create_pool returns: the assignment, whatever has been assigned meanwhile,
\* and on to acquire() without an await.
PoolCreated(t) ==
  LET p == <<target[t], t>> IN
  /\ step[t] = "creating"
  /\ open' = open \union {p}
  /\ pool' = [pool EXCEPT ![target[t]] = p]
  /\ Join(t, p)
  /\ UNCHANGED <<server, target>>

\* An exception leaves connection(); in the lifespan it ends the start-up.
Leave(t) ==
  /\ step' = [step EXCEPT ![t] = IF t = Lifespan THEN "idle" ELSE "working"]
  /\ target' = [target EXCEPT ![t] = None]
  /\ source' = [source EXCEPT ![t] = None]

Raise(t) ==
  /\ Leave(t)
  /\ server' = IF t = Lifespan THEN "failed" ELSE server

\* Mutant of PoolNotCreated: the exception of create_pool is swallowed.
PoolNotCreatedQuietly(t) ==
  /\ step[t] = "creating"
  /\ step' = [step EXCEPT ![t] = "waiting"]
  /\ UNCHANGED <<server, pool, open, target, source, waiters>>

PoolNotCreated(t) ==
  /\ step[t] = "creating"
  /\ Raise(t)
  /\ UNCHANGED <<pool, open, waiters>>

\* The first waiter's turn, when fewer than max_size connections are out.
Turn(t) ==
  /\ step[t] = "waiting"
  /\ t = Head(waiters[source[t]])
  /\ Cardinality(Using(source[t])) < MaxSize
  /\ waiters' = [waiters EXCEPT ![source[t]] = Tail(@)]

Granted(t) ==
  /\ Turn(t)
  /\ step' = [step EXCEPT ![t] = "leased"]
  /\ UNCHANGED <<server, pool, open, target, source>>

\* The connection has to be opened first, and cannot be.
NotConnected(t) ==
  /\ Turn(t)
  /\ Raise(t)
  /\ UNCHANGED <<pool, open>>

\* Mutant of GiveBack: acquire() without `async with`: a request's connection
\* stays out.
GiveBackNot(t) ==
  /\ step[t] = "leased" /\ t = Lifespan
  /\ Leave(t)
  /\ server' = "serving"
  /\ UNCHANGED <<pool, open, waiters>>

\* The block under connection() ends and the connection goes back: of a request
\* either way, of ensure_schema with the tables made.
GiveBack(t) ==
  /\ step[t] = "leased"
  /\ Leave(t)
  /\ server' = IF t = Lifespan THEN "serving" ELSE server
  /\ UNCHANGED <<pool, open, waiters>>

\* ensure_schema's statement fails: the server does not start.
SchemaFails ==
  /\ step[Lifespan] = "leased"
  /\ Raise(Lifespan)
  /\ UNCHANGED <<pool, open, waiters>>

-----------------------------------------------------------------------------
(* The end of the lifespan.                                                *)

\* The server is told to stop: it takes no more requests and lets those it has end.
Stop ==
  /\ server = "serving"
  /\ server' = "draining"
  /\ UNCHANGED <<pool, open, step, target, source, waiters>>

\* Past the yield: for database in managed.
Shutdown ==
  /\ server = "draining"
  /\ \A t \in Requests : step[t] = "idle"
  /\ server' = "closing catalog"
  /\ UNCHANGED <<pool, open, step, target, source, waiters>>

AfterClosing(db) == IF db = "catalog" THEN "closing security" ELSE "stopped"
Closing(db) == server = IF db = "catalog" THEN "closing catalog" ELSE "closing security"

\* Mutant of Close: self.pool is forgotten but not closed.
CloseForgets(db) ==
  /\ Closing(db)
  /\ pool' = [pool EXCEPT ![db] = None]
  /\ server' = AfterClosing(db)
  /\ UNCHANGED <<open, step, target, source, waiters>>

\* close(): nothing to do without a pool.
Close(db) ==
  /\ Closing(db)
  /\ open' = open \ {pool[db]}
  /\ pool' = [pool EXCEPT ![db] = None]
  /\ server' = AfterClosing(db)
  /\ UNCHANGED <<step, target, source, waiters>>

\* The pool's own close raises (it terminates its connections first): the
\* assignment and the databases that follow are skipped.
CloseRaises(db) ==
  /\ Closing(db) /\ pool[db] # None
  /\ open' = open \ {pool[db]}
  /\ server' = "failed"
  /\ UNCHANGED <<pool, step, target, source, waiters>>

-----------------------------------------------------------------------------
Progress(t) ==
  \/ PoolCreated(t) \/ PoolNotCreated(t)
  \/ Granted(t) \/ NotConnected(t) \/ GiveBack(t)

Next ==
  \/ \E t \in Tasks, db \in Databases : UsePool(t, db) \/ StartPool(t, db)
  \/ \E t \in Tasks : Progress(t)
  \/ \E t \in Requests : Arrive(t) \/ End(t)
  \/ SchemaFails \/ Stop \/ Shutdown
  \/ \E db \in Databases : Close(db) \/ CloseRaises(db)

Spec == Init /\ [][Next]_vars

\* The event loop runs what can run, the lifespan too, and opening a connection or
\* a pool ends. That a request gives its connection back and ends after at most
\* three of them (strong fairness of End) is an assumption about the database: no
\* timeout of the program ends a search or an INSERT that hangs, and GovernedChat
\* says what a request then suffers. Nothing says that requests come or that the
\* server is stopped.
FairSpec ==
  /\ Spec
  /\ \A t \in Tasks : WF_vars(Progress(t))
  /\ \A t \in Requests : SF_vars(End(t))
  /\ WF_vars(StartPool(Lifespan, "catalog"))
  /\ WF_vars(Shutdown)
  /\ \A db \in Databases : WF_vars(Close(db) \/ CloseRaises(db))

-----------------------------------------------------------------------------
(* Correctness.                                                            *)

Waiting(p) == {t \in Tasks : step[t] = "waiting" /\ source[t] = p}

\* The queue of a pool is the tasks that wait in it, each once.
Queued(p) ==
  /\ \A i, j \in 1..Len(waiters[p]) : waiters[p][i] = waiters[p][j] => i = j
  /\ {waiters[p][i] : i \in 1..Len(waiters[p])} = Waiting(p)

\* Every variable keeps its shape (checked with ServedByOpenPool).
TypeOK ==
  /\ server \in Server
  /\ pool \in [Databases -> Pools \union {None}]
  /\ open \subseteq Pools
  /\ step \in [Tasks -> {"idle", "working", "creating", "waiting", "leased"}]
  /\ target \in [Tasks -> Databases \union {None}]
  /\ source \in [Tasks -> Pools \union {None}]
  /\ waiters \in [Pools -> Seq(Tasks)]

\* What a task has at each step: creating is left to the lifespan for the catalog
\* and to requests for the security database.
InConnection(t) ==
  /\ step[t] \in {"idle", "working"} => target[t] = None /\ source[t] = None
  /\ step[t] = "creating" =>
       source[t] = None /\ target[t] = IF t = Lifespan THEN "catalog" ELSE "security"
  /\ step[t] \in {"waiting", "leased"} =>
       /\ source[t] \in open /\ target[t] = source[t][1]
       /\ t = Lifespan => target[t] = "catalog"

\* The open pools: one at most of the catalog, and whose the others are.
PoolsKnown ==
  /\ \A db \in Databases : pool[db] # None => pool[db][1] = db
  /\ \A p \in open : p[1] = "catalog" => p = pool["catalog"]
  /\ \A p \in open : p[1] = "security" => p[2] \in Requests

\* What is known at each stage of the server's life.
LifeOfServer ==
  /\ server \in {"starting", "serving", "draining"} =>
       \A db \in Databases : pool[db] # None => pool[db] \in open
  /\ server = "starting" <=> step[Lifespan] # "idle"
  /\ step[Lifespan] \in {"working", "creating"} => pool["catalog"] = None
  /\ server \in {"serving", "draining", "closing catalog"} => pool["catalog"] # None
  /\ server \in {"closing security", "stopped"} => pool["catalog"] = None
  /\ server \notin {"serving", "draining"} => \A r \in Requests : step[r] = "idle"

\* database.py:25 `assert self.pool is not None`, and more: whoever waits for a
\* connection or has one got it from a pool that is open, and waits in its queue.
\* (A pool that another creation has displaced still serves those who are in it.
\* With it are checked the facts that make it and StrayPools inductive.)
ServedByOpenPool ==
  /\ TypeOK /\ PoolsKnown /\ LifeOfServer
  /\ \A t \in Tasks : InConnection(t)
  /\ \A p \in Pools : Queued(p)

\* Because ensure_schema has made the catalog pool before the first request
\* comes, the catalog has one pool for the life of the process. Of the requests
\* that together are the first to need the security database, all but one can
\* leave a pool behind that nobody will close: this happens to that database only,
\* and after a clean stop such pools are all that is left.
StrayPools ==
  /\ \A p \in open : p # pool[p[1]] => p[1] = "security" /\ p[2] \in Requests
  /\ server = "stopped" => pool = [db \in Databases |-> None]

IndInv == ServedByOpenPool /\ StrayPools

\* Connections of the catalog in use, over all of its pools.
CatalogHolders == {t \in Tasks : step[t] = "leased" /\ target[t] = "catalog"}

CatalogPool == INSTANCE BoundedPool WITH Size <- MaxSize, holders <- CatalogHolders

\* The lazily created pool is, for the catalog, the pool of max_size connections
\* that the chat endpoint is written against.
CatalogAsAssumed == CatalogPool!Spec

\* A task that asks for a connection gets it or an exception, also from a pool
\* that has been displaced.
EveryWaiterServed ==
  \A t \in Tasks : step[t] \in {"creating", "waiting"} ~> step[t] \in {"leased", "working", "idle"}

\* A server told to stop ends the requests it has and then its pools.
StopEnds == server = "draining" ~> server \in {"stopped", "failed"}

=============================================================================
