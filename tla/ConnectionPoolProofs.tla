------------------------ MODULE ConnectionPoolProofs ------------------------
(***************************************************************************)
(* Proofs about ConnectionPool: IndInv is inductive, hence ServedByOpenPool *)
(* and StrayPools; and the catalog's pools implement BoundedPool.          *)
(*                                                                         *)
(* Every action moves one task, or none. What it does to that task's step, *)
(* database and pool is a Row; the queues are dealt with by themselves.    *)
(***************************************************************************)
EXTENDS ConnectionPool, SequenceTheorems, TLAPS

\* What is known besides the queues.
Known ==
  /\ TypeOK /\ PoolsKnown /\ LifeOfServer
  /\ \A t \in Tasks : InConnection(t)

Queues == \A p \in Pools : Queued(p)

Untouched(u) == step'[u] = step[u] /\ target'[u] = target[u] /\ source'[u] = source[u]

\* Task t goes to a step, with a database and a pool; the others stay.
Row(t, to, db, p) ==
  /\ step' \in [Tasks -> {"idle", "working", "creating", "waiting", "leased"}]
  /\ target' \in [Tasks -> Databases \union {None}]
  /\ source' \in [Tasks -> Pools \union {None}]
  /\ step'[t] = to /\ target'[t] = db /\ source'[t] = p
  /\ \A u \in Tasks \ {t} : Untouched(u)

\* The names of pools and tasks.
LEMMA Names ==
  /\ \A db \in Databases, t \in Tasks :
       <<db, t>> \in Pools /\ <<db, t>>[1] = db /\ <<db, t>>[2] = t
  /\ \A p \in Pools : p[1] \in {"catalog", "security"} /\ p # None
  /\ Lifespan \in Tasks /\ Lifespan \notin Requests /\ Requests \subseteq Tasks
  /\ \A t \in Tasks : t \in Requests <=> t # Lifespan
  /\ \A db \in Databases : db \in {"catalog", "security"}
  /\ "catalog" \in Databases /\ "security" \in Databases
BY PoolAssumption DEF Pools, Tasks, Databases

-----------------------------------------------------------------------------
(* Queues.                                                                 *)

\* A queue that holds the tasks that wait now.
LEMMA QueueIs ==
  ASSUME NEW p \in Pools, NEW q, waiters'[p] = q,
         \A i, j \in 1..Len(q) : q[i] = q[j] => i = j,
         {q[i] : i \in 1..Len(q)} = Waiting(p)'
  PROVE  Queued(p)'
<1>1. \A i, j \in 1..Len(waiters'[p]) : waiters'[p][i] = waiters'[p][j] => i = j
  OBVIOUS
<1>2. {waiters'[p][i] : i \in 1..Len(waiters'[p])} = Waiting(p)'
  OBVIOUS
<1> QED
  BY <1>1, <1>2, Zenon DEF Queued

\* A queue that is as it was.
LEMMA SameQueue ==
  ASSUME NEW p \in Pools, Queued(p), waiters'[p] = waiters[p], Waiting(p)' = Waiting(p)
  PROVE  Queued(p)'
<1>1. PICK q : q = waiters[p]
  OBVIOUS
<1>2. {q[i] : i \in 1..Len(q)} = Waiting(p) /\ \A i, j \in 1..Len(q) : q[i] = q[j] => i = j
  BY <1>1 DEF Queued
<1> QED
  BY <1>1, <1>2, QueueIs

\* A task joins at the end.
LEMMA Joined ==
  ASSUME Known, Queues, NEW t \in Tasks, NEW p \in Pools, step[t] # "waiting",
         NEW db, Row(t, "waiting", db, p),
         waiters' = [waiters EXCEPT ![p] = Append(@, t)]
  PROVE  Queues' /\ waiters' \in [Pools -> Seq(Tasks)]
<1> DEFINE q == waiters[p]
           n == Len(q)
<1>1. q \in Seq(Tasks) /\ n \in Nat
  BY DEF Known, TypeOK
<1>2. /\ Append(q, t) \in Seq(Tasks) /\ Len(Append(q, t)) = n + 1
      /\ \A i \in 1..n : Append(q, t)[i] = q[i]
      /\ Append(q, t)[n + 1] = t
  BY <1>1, AppendProperties
<1>3. waiters' \in [Pools -> Seq(Tasks)] /\ waiters'[p] = Append(q, t)
  BY <1>2 DEF Known, TypeOK
<1>4. \A i \in 1..n : q[i] # t
  BY DEF Queues, Queued, Waiting
<1>5. Waiting(p)' = Waiting(p) \union {t}
  BY DEF Row, Untouched, Waiting
<1>6. Queued(p)'
  <2> HIDE DEF q
  <2>1. \A i, j \in 1..n : q[i] = q[j] => i = j
    BY DEF q, Queues, Queued
  <2>2. {q[i] : i \in 1..n} = Waiting(p)
    BY DEF q, Queues, Queued
  <2> HIDE DEF n
  <2>3. 1..n + 1 = 1..n \union {n + 1} /\ n + 1 \notin 1..n
    BY <1>1 DEF n
  <2>4. Len(Append(q, t)) = n + 1
    BY <1>2 DEF n
  <2>5. \A i, j \in 1..n + 1 : Append(q, t)[i] = Append(q, t)[j] => i = j
    BY <1>2, <1>4, <2>1, <2>3
  <2>6. {Append(q, t)[i] : i \in 1..n + 1} = Waiting(p) \union {t}
    BY <1>2, <2>2, <2>3
  <2> QED
    BY <1>3, <1>5, <2>4, <2>5, <2>6 DEF Queued
<1>7. ASSUME NEW o \in Pools, o # p
      PROVE  Queued(o)'
  <2>1. waiters'[o] = waiters[o]
    BY <1>7 DEF Known, TypeOK
  <2>2. Waiting(o)' = Waiting(o)
    BY <1>7 DEF Row, Untouched, Waiting
  <2> QED
    BY <2>1, <2>2, SameQueue DEF Queues
<1> QED
  BY <1>3, <1>6, <1>7 DEF Queues

\* The first waiter's turn.
LEMMA Turned ==
  ASSUME Known, Queues, NEW t \in Tasks, Turn(t), NEW to, to # "waiting",
         NEW db, NEW p, Row(t, to, db, p)
  PROVE  Queues' /\ waiters' \in [Pools -> Seq(Tasks)]
<1>0. PICK s \in Pools : s = source[t]
  BY DEF Known, InConnection, TypeOK, Turn
<1> DEFINE q == waiters[s]
           n == Len(q)
<1>1. step[t] = "waiting" /\ t = Head(q) /\ waiters' = [waiters EXCEPT ![s] = Tail(@)]
  BY <1>0 DEF Turn
<1>2. q \in Seq(Tasks) /\ n \in Nat
  BY <1>1 DEF Known, InConnection, TypeOK
<1>3. {q[i] : i \in 1..n} = Waiting(s) /\ \A i, j \in 1..n : q[i] = q[j] => i = j
  BY <1>2 DEF Queues, Queued
<1>4. n > 0 /\ q # << >> /\ q[1] = t
  <2>1. t \in Waiting(s)
    BY <1>0, <1>1 DEF Waiting
  <2>2. n # 0
    BY <1>3, <2>1
  <2> QED
    BY <1>1, <1>2, <2>2, HeadTailProperties
<1>5. /\ Tail(q) \in Seq(Tasks) /\ Len(Tail(q)) = n - 1
      /\ \A i \in 1..n - 1 : Tail(q)[i] = q[i + 1]
  BY <1>2, <1>4, HeadTailProperties
<1>6. waiters' \in [Pools -> Seq(Tasks)] /\ waiters'[s] = Tail(q)
  BY <1>1, <1>2, <1>5 DEF Known, TypeOK
<1>7. Waiting(s)' = Waiting(s) \ {t}
  BY <1>0 DEF Row, Untouched, Waiting
<1>8. Queued(s)'
  <2> HIDE DEF n, q
  <2>1. \A i \in 1..n - 1 : i + 1 \in 1..n /\ i + 1 # 1
    BY <1>2
  <2>2. \A i \in 1..n : i = 1 \/ (i - 1 \in 1..n - 1 /\ (i - 1) + 1 = i)
    BY <1>2
  <2>3. \A i, j \in 1..n - 1 : Tail(q)[i] = Tail(q)[j] => i = j
    BY <1>2, <1>3, <1>5, <2>1
  <2>4. {Tail(q)[i] : i \in 1..n - 1} = {q[i] : i \in 1..n} \ {t}
    <3>1. ASSUME NEW i \in 1..n - 1
          PROVE  Tail(q)[i] \in {q[k] : k \in 1..n} \ {t}
      BY <1>2, <1>3, <1>4, <1>5, <2>1
    <3>2. ASSUME NEW i \in 1..n, q[i] # t
          PROVE  q[i] \in {Tail(q)[k] : k \in 1..n - 1}
      BY <1>4, <1>5, <2>2, <3>2
    <3> QED
      BY <3>1, <3>2
  <2>5. PICK r : r = Tail(q)
    OBVIOUS
  <2>6. PICK m : m = n - 1
    OBVIOUS
  <2>7. waiters'[s] = r /\ Len(r) = m
    BY <1>5, <1>6, <2>5, <2>6
  <2>8. \A i, j \in 1..m : r[i] = r[j] => i = j
    BY <2>3, <2>5, <2>6
  <2>9. {r[i] : i \in 1..m} = Waiting(s)'
    <3>1. {r[i] : i \in 1..m} = {q[i] : i \in 1..n} \ {t}
      BY <2>4, <2>5, <2>6
    <3> QED
      BY <1>3, <1>7, <3>1
  <2> QED
    BY <2>7, <2>8, <2>9, QueueIs
<1>9. ASSUME NEW o \in Pools, o # s
      PROVE  Queued(o)'
  <2>1. waiters'[o] = waiters[o]
    BY <1>1, <1>9 DEF Known, TypeOK
  <2>2. Waiting(o)' = Waiting(o)
    BY <1>0, <1>9 DEF Row, Untouched, Waiting
  <2> QED
    BY <2>1, <2>2, SameQueue DEF Queues
<1> QED
  BY <1>6, <1>8, <1>9 DEF Queues

\* A task that neither waits nor waited moves.
LEMMA QueuesKept ==
  ASSUME Known, Queues, waiters' = waiters, NEW t \in Tasks, step[t] # "waiting",
         NEW to, to # "waiting", NEW db, NEW p, Row(t, to, db, p)
  PROVE  Queues' /\ waiters' \in [Pools -> Seq(Tasks)]
<1>1. \A o \in Pools : Waiting(o)' = Waiting(o)
  BY DEF Row, Untouched, Waiting
<1> QED
  BY <1>1, SameQueue DEF Queues, Known, TypeOK

-----------------------------------------------------------------------------
(* What is known when a task moves.                                        *)

StepLabels == {"idle", "working", "creating", "waiting", "leased"}

\* Setting a task's step, database and pool.
LEMMA RowOf ==
  ASSUME TypeOK, NEW t \in Tasks, NEW to \in StepLabels,
         NEW db \in Databases \union {None}, NEW p \in Pools \union {None},
         step' = [step EXCEPT ![t] = to],
         target' = [target EXCEPT ![t] = db], source' = [source EXCEPT ![t] = p]
  PROVE  Row(t, to, db, p)
BY DEF TypeOK, Row, Untouched, StepLabels

\* No open pool is closed: the others' pools stay open.
LEMMA Moved ==
  ASSUME Known, NEW t \in Tasks, NEW to, NEW db, NEW p, Row(t, to, db, p),
         open \subseteq open', InConnection(t)'
  PROVE  \A u \in Tasks : InConnection(u)'
<1>1. ASSUME NEW u \in Tasks \ {t}
      PROVE  InConnection(u)'
  <2>1. InConnection(u) /\ Untouched(u)
    BY DEF Known, Row
  <2> QED
    BY <2>1 DEF InConnection, Untouched
<1> QED
  BY <1>1

\* A task moves on, within the server's life as it is, and all pools stay.
LEMMA MovedAmongPools ==
  ASSUME Known, StrayPools, NEW t \in Tasks, NEW to \in StepLabels, NEW db, NEW p,
         Row(t, to, db, p), UNCHANGED <<server, pool, open>>,
         waiters' \in [Pools -> Seq(Tasks)], InConnection(t)',
         t = Lifespan => to # "idle" /\ step[t] # "idle" /\ to # "working",
         t = Lifespan /\ to = "creating" => pool["catalog"] = None,
         t # Lifespan => to = "idle" \/ server \in {"serving", "draining"}
  PROVE  Known' /\ StrayPools'
<1>1. \A u \in Tasks : InConnection(u)'
  BY Moved
<1>2. TypeOK'
  BY DEF Known, TypeOK, Row
<1>3. PoolsKnown' /\ StrayPools'
  BY DEF Known, PoolsKnown, StrayPools
<1>4. \A u \in Tasks \ {t} : step'[u] = step[u]
  BY DEF Row, Untouched
<1>5. step'[t] = to
  BY DEF Row
<1>6. LifeOfServer'
  BY <1>4, <1>5, Names DEF Known, LifeOfServer
<1> QED
  BY <1>1, <1>2, <1>3, <1>6 DEF Known

\* A request that is not idle: the server serves or drains, and its pools are open.
LEMMA RequestRuns ==
  ASSUME Known, NEW t \in Requests, step[t] # "idle"
  PROVE  /\ server \in {"serving", "draining"} /\ pool["catalog"] # None
         /\ \A db \in Databases : pool[db] # None => pool[db] \in open
         /\ step[Lifespan] = "idle"
BY DEF Known, LifeOfServer

LEMMA LifespanRuns ==
  ASSUME Known, step[Lifespan] # "idle"
  PROVE  /\ server = "starting"
         /\ \A db \in Databases : pool[db] # None => pool[db] \in open
         /\ \A r \in Requests : step[r] = "idle"
BY DEF Known, LifeOfServer

LEMMA ArriveStep ==
  ASSUME Known, Queues, StrayPools, NEW t \in Requests, Arrive(t)
  PROVE  Known' /\ Queues' /\ StrayPools'
<1>1. /\ t \in Tasks /\ t # Lifespan /\ server = "serving" /\ step[t] = "idle"
      /\ UNCHANGED <<server, pool, open, target, source, waiters>>
  BY Names DEF Arrive, Tasks
<1>2. Row(t, "working", target[t], source[t])
  BY <1>1 DEF Arrive, Row, Untouched, Known, TypeOK
<1>3. InConnection(t)'
  BY <1>1, <1>2 DEF Known, InConnection, Row
<1>4. Queues' /\ waiters' \in [Pools -> Seq(Tasks)]
  BY <1>1, <1>2, QueuesKept
<1> QED
  BY <1>1, <1>2, <1>3, <1>4, MovedAmongPools DEF StepLabels

LEMMA EndStep ==
  ASSUME Known, Queues, StrayPools, NEW t \in Requests, End(t)
  PROVE  Known' /\ Queues' /\ StrayPools'
<1>1. /\ t \in Tasks /\ t # Lifespan /\ step[t] = "working"
      /\ UNCHANGED <<server, pool, open, target, source, waiters>>
  BY Names DEF End, Tasks
<1>2. Row(t, "idle", target[t], source[t])
  BY <1>1 DEF End, Row, Untouched, Known, TypeOK
<1>3. InConnection(t)'
  BY <1>1, <1>2 DEF Known, InConnection, Row
<1>4. Queues' /\ waiters' \in [Pools -> Seq(Tasks)]
  BY <1>1, <1>2, QueuesKept
<1> QED
  BY <1>1, <1>2, <1>3, <1>4, MovedAmongPools DEF StepLabels

\* The pool found is open, and it is of the database asked for.
LEMMA UsePoolStep ==
  ASSUME Known, Queues, StrayPools, NEW t \in Tasks, NEW db \in Databases, UsePool(t, db)
  PROVE  Known' /\ Queues' /\ StrayPools'
<1>1. /\ step[t] = "working" /\ pool[db] # None
      /\ t = Lifespan => db = "catalog"
      /\ target' = [target EXCEPT ![t] = db] /\ Join(t, pool[db])
      /\ UNCHANGED <<server, pool, open>>
  BY DEF UsePool, Calls
<1>2. PICK p \in Pools : p = pool[db]
  BY <1>1 DEF Known, TypeOK
<1>3. /\ step' = [step EXCEPT ![t] = "waiting"] /\ source' = [source EXCEPT ![t] = p]
      /\ waiters' = [waiters EXCEPT ![p] = Append(@, t)]
  BY <1>1, <1>2 DEF Join
<1>4. Row(t, "waiting", db, p)
  BY <1>1, <1>3, RowOf DEF Known, StepLabels
<1>5. p[1] = db /\ p \in open
  BY <1>1, <1>2, Names, RequestRuns, LifespanRuns DEF Known, PoolsKnown
<1>6. InConnection(t)'
  BY <1>1, <1>4, <1>5 DEF InConnection, Row
<1>7. Queues' /\ waiters' \in [Pools -> Seq(Tasks)]
  BY <1>1, <1>3, <1>4, Joined
<1> QED
  BY <1>1, <1>4, <1>6, <1>7, Names, RequestRuns, MovedAmongPools DEF StepLabels

\* Only the lifespan finds no pool of the catalog.
LEMMA StartPoolStep ==
  ASSUME Known, Queues, StrayPools, NEW t \in Tasks, NEW db \in Databases, StartPool(t, db)
  PROVE  Known' /\ Queues' /\ StrayPools'
<1>1. /\ step[t] = "working" /\ pool[db] = None
      /\ t = Lifespan => db = "catalog"
      /\ target' = [target EXCEPT ![t] = db] /\ step' = [step EXCEPT ![t] = "creating"]
      /\ UNCHANGED <<server, pool, open, source, waiters>>
  BY DEF StartPool, Calls
<1>2. source[t] = None
  BY <1>1 DEF Known, InConnection
<1>3. Row(t, "creating", db, None)
  BY <1>1, <1>2 DEF Row, Untouched, Known, TypeOK
<1>4. db = IF t = Lifespan THEN "catalog" ELSE "security"
  BY <1>1, Names, RequestRuns
<1>5. InConnection(t)'
  BY <1>3, <1>4 DEF InConnection, Row
<1>6. Queues' /\ waiters' \in [Pools -> Seq(Tasks)]
  BY <1>1, <1>3, QueuesKept
<1> QED
  BY <1>1, <1>3, <1>4, <1>5, <1>6, Names, RequestRuns, MovedAmongPools DEF StepLabels

\* A new pool: of the catalog, it is the first and the lifespan's; of the security
\* database, it displaces a pool of that database only.
LEMMA PoolCreatedStep ==
  ASSUME Known, Queues, StrayPools, NEW t \in Tasks, PoolCreated(t)
  PROVE  Known' /\ Queues' /\ StrayPools'
<1>1. PICK db \in Databases : /\ db = target[t] /\ step[t] = "creating" /\ source[t] = None
                              /\ db = IF t = Lifespan THEN "catalog" ELSE "security"
  BY Names DEF PoolCreated, Known, InConnection
<1>2. PICK p \in Pools : p = <<db, t>> /\ p[1] = db /\ p[2] = t /\ p # None
  <2>1. <<db, t>> \in Pools /\ <<db, t>>[1] = db /\ <<db, t>>[2] = t
    BY Names
  <2> QED
    BY <2>1, Names
<1>3. /\ open' = open \union {p} /\ pool' = [pool EXCEPT ![db] = p]
      /\ step' = [step EXCEPT ![t] = "waiting"] /\ source' = [source EXCEPT ![t] = p]
      /\ waiters' = [waiters EXCEPT ![p] = Append(@, t)] /\ UNCHANGED <<server, target>>
  BY <1>1, <1>2 DEF PoolCreated, Join
<1>4. Row(t, "waiting", db, p)
  BY <1>1, <1>3 DEF Row, Untouched, Known, TypeOK
<1>5. InConnection(t)'
  BY <1>1, <1>2, <1>3, <1>4 DEF InConnection, Row
<1>6. Queues' /\ waiters' \in [Pools -> Seq(Tasks)]
  BY <1>1, <1>3, <1>4, Joined
<1>7. \A u \in Tasks : InConnection(u)'
  BY <1>3, <1>4, <1>5, Moved
<1>8. pool'[db] = p /\ \A d \in Databases \ {db} : pool'[d] = pool[d]
  BY <1>3 DEF Known, TypeOK
<1>9. TypeOK'
  BY <1>3, <1>4, <1>6, <1>8 DEF Known, TypeOK, Row
<1>10. db = "catalog" => \A o \in open : o[1] # "catalog"
  BY <1>1, Names DEF Known, TypeOK, PoolsKnown, LifeOfServer
<1>11. db = "security" => t \in Requests
  BY <1>1, Names
<1>12. PoolsKnown'
  BY <1>1, <1>2, <1>3, <1>8, <1>10, <1>11, Names DEF Known, PoolsKnown, TypeOK
<1>13. \A u \in Tasks : u # t => step'[u] = step[u]
  BY <1>4 DEF Row, Untouched
<1>14. server \in {"starting", "serving", "draining"} /\ (t # Lifespan => server # "starting")
  BY <1>1, Names, RequestRuns, LifespanRuns
<1>15. LifeOfServer'
  <2>1. step'[t] = "waiting" /\ server' = server
    BY <1>3, <1>4 DEF Row
  <2>2. \A d \in Databases : pool'[d] # None => pool'[d] \in open'
    BY <1>1, <1>3, <1>8, Names, RequestRuns, LifespanRuns
  <2>3. CASE t = Lifespan
    <3>1. server = "starting" /\ \A r \in Requests : step'[r] = "idle"
      BY <1>1, <1>13, <2>3, Names, LifespanRuns
    <3> QED
      BY <2>1, <2>2, <2>3, <3>1 DEF LifeOfServer
  <2>4. CASE t # Lifespan
    <3>1. /\ t \in Requests /\ step[Lifespan] = "idle" /\ pool["catalog"] # None
          /\ server \in {"serving", "draining"}
      BY <1>1, <2>4, Names, RequestRuns
    <3>2. step'[Lifespan] = "idle" /\ pool'["catalog"] = pool["catalog"]
      BY <1>1, <1>8, <1>13, <2>4, <3>1, Names
    <3> QED
      BY <2>1, <2>2, <3>1, <3>2 DEF LifeOfServer
  <2> QED
    BY <2>3, <2>4
<1>16. StrayPools'
  BY <1>3, <1>9, <1>12, <1>14, Names DEF PoolsKnown, StrayPools, TypeOK
<1> QED
  BY <1>6, <1>7, <1>9, <1>12, <1>15, <1>16 DEF Known

\* A task leaves connection(), normally or by an exception. The lifespan's leaving
\* ends the start-up, one way or the other.
LEMMA LeftConnection ==
  ASSUME Known, StrayPools, NEW t \in Tasks, step[t] \in {"creating", "waiting", "leased"},
         Leave(t), UNCHANGED <<pool, open>>, waiters' \in [Pools -> Seq(Tasks)],
         t # Lifespan => server' = server,
         t = Lifespan => server' = "failed" \/ (server' = "serving" /\ step[t] = "leased")
  PROVE  Known' /\ StrayPools'
<1> DEFINE to == IF t = Lifespan THEN "idle" ELSE "working"
<1>1. to \in StepLabels /\ to # "waiting" /\ Row(t, to, None, None)
  BY RowOf DEF Leave, Known, StepLabels
<1>2. \A u \in Tasks : InConnection(u)'
  <2>1. InConnection(t)'
    BY <1>1 DEF InConnection, Row
  <2> QED
    BY <1>1, <2>1, Moved
<1>3. CASE t = Lifespan
  <2>1. /\ server = "starting" /\ step'[Lifespan] = "idle"
        /\ \A db \in Databases : pool[db] # None => pool[db] \in open
        /\ \A r \in Requests : step'[r] = "idle"
    BY <1>1, <1>3, Names, LifespanRuns DEF Row, Untouched
  <2>2. step[t] = "leased" => pool["catalog"] # None
    BY <1>3, Names DEF Known, InConnection, PoolsKnown, TypeOK
  <2>3. TypeOK'
    BY <1>1, <1>3 DEF Known, TypeOK, Row, Server
  <2>4. PoolsKnown' /\ StrayPools' /\ LifeOfServer'
    BY <1>3, <2>1, <2>2 DEF Known, PoolsKnown, StrayPools, LifeOfServer
  <2> QED
    BY <1>2, <2>3, <2>4 DEF Known
<1>4. CASE t # Lifespan
  <2>1. /\ server \in {"serving", "draining"} /\ server' = server /\ t \in Requests
        /\ step[Lifespan] = "idle" /\ step'[Lifespan] = "idle"
    BY <1>1, <1>4, Names, RequestRuns DEF Row, Untouched
  <2>2. TypeOK'
    BY <1>1, <2>1 DEF Known, TypeOK, Row
  <2>3. PoolsKnown' /\ StrayPools' /\ LifeOfServer'
    BY <2>1 DEF Known, PoolsKnown, StrayPools, LifeOfServer
  <2> QED
    BY <1>2, <2>2, <2>3 DEF Known
<1> QED
  BY <1>3, <1>4

LEMMA LeaveRow ==
  ASSUME Known, NEW t \in Tasks, Leave(t)
  PROVE  \E to : to \notin {"waiting", "leased"} /\ Row(t, to, None, None)
BY RowOf DEF Leave, Known, StepLabels

LEMMA LeaveStep ==
  ASSUME Known, Queues, StrayPools, NEW t \in Tasks,
         PoolNotCreated(t) \/ NotConnected(t) \/ GiveBack(t) \/ (t = Lifespan /\ SchemaFails)
  PROVE  Known' /\ Queues' /\ StrayPools'
<1>1. PICK to : Leave(t) /\ to # "waiting" /\ Row(t, to, None, None)
  BY LeaveRow DEF PoolNotCreated, NotConnected, GiveBack, SchemaFails, Raise
<1>2. /\ UNCHANGED <<pool, open>> /\ step[t] \in {"creating", "waiting", "leased"}
      /\ t # Lifespan => server' = server
      /\ t = Lifespan => server' = "failed" \/ (server' = "serving" /\ step[t] = "leased")
  BY DEF PoolNotCreated, NotConnected, GiveBack, SchemaFails, Raise, Turn
<1>3. Queues' /\ waiters' \in [Pools -> Seq(Tasks)]
  <2>1. CASE NotConnected(t)
    BY <1>1, <2>1, Turned DEF NotConnected
  <2>2. CASE PoolNotCreated(t) \/ GiveBack(t) \/ (t = Lifespan /\ SchemaFails)
    <3>1. waiters' = waiters /\ step[t] # "waiting"
      BY <2>2 DEF PoolNotCreated, GiveBack, SchemaFails
    <3> QED
      BY <1>1, <3>1, QueuesKept
  <2> QED
    BY <2>1, <2>2
<1> QED
  BY <1>1, <1>2, <1>3, LeftConnection

LEMMA GrantedStep ==
  ASSUME Known, Queues, StrayPools, NEW t \in Tasks, Granted(t)
  PROVE  Known' /\ Queues' /\ StrayPools'
<1>1. /\ Turn(t) /\ step[t] = "waiting" /\ step' = [step EXCEPT ![t] = "leased"]
      /\ UNCHANGED <<server, pool, open, target, source>>
  BY DEF Granted, Turn
<1>2. Row(t, "leased", target[t], source[t])
  BY <1>1 DEF Row, Untouched, Known, TypeOK
<1>3. InConnection(t)'
  BY <1>1, <1>2 DEF Known, InConnection, Row
<1>4. Queues' /\ waiters' \in [Pools -> Seq(Tasks)]
  BY <1>1, <1>2, Turned
<1> QED
  BY <1>1, <1>2, <1>3, <1>4, Names, RequestRuns, MovedAmongPools DEF StepLabels

-----------------------------------------------------------------------------
(* The server's life: no task moves.                                       *)

LEMMA QueuesStay ==
  ASSUME Queues, UNCHANGED <<step, source, waiters>>
  PROVE  Queues'
<1>1. \A o \in Pools : Waiting(o)' = Waiting(o)
  BY DEF Waiting
<1> QED
  BY <1>1, SameQueue DEF Queues

LEMMA StopStep ==
  ASSUME Known, Queues, StrayPools, Stop \/ Shutdown
  PROVE  Known' /\ Queues' /\ StrayPools'
<1>1. /\ \/ server = "serving" /\ server' = "draining"
         \/ /\ server = "draining" /\ server' = "closing catalog"
            /\ \A r \in Requests : step[r] = "idle"
      /\ UNCHANGED <<pool, open, step, target, source, waiters>>
  BY DEF Stop, Shutdown
<1>2. TypeOK' /\ PoolsKnown' /\ StrayPools' /\ \A t \in Tasks : InConnection(t)'
  BY <1>1 DEF Known, TypeOK, Server, PoolsKnown, StrayPools, InConnection
<1>3. LifeOfServer'
  BY <1>1 DEF Known, LifeOfServer
<1> QED
  BY <1>1, <1>2, <1>3, QueuesStay DEF Known

\* Nobody is in connection() any more when a pool is closed.
LEMMA CloseStep ==
  ASSUME Known, Queues, StrayPools, NEW db \in Databases, Close(db) \/ CloseRaises(db)
  PROVE  Known' /\ Queues' /\ StrayPools'
<1>1. /\ server = IF db = "catalog" THEN "closing catalog" ELSE "closing security"
      /\ open' = open \ {pool[db]} /\ UNCHANGED <<step, target, source, waiters>>
      /\ \/ /\ pool' = [pool EXCEPT ![db] = None]
            /\ server' = IF db = "catalog" THEN "closing security" ELSE "stopped"
         \/ pool' = pool /\ server' = "failed"
  BY DEF Close, CloseRaises, Closing, AfterClosing
<1>2. /\ step[Lifespan] = "idle" /\ \A r \in Requests : step[r] = "idle"
      /\ db = "security" => pool["catalog"] = None
  BY <1>1 DEF Known, LifeOfServer
<1>3. \A t \in Tasks : step[t] = "idle"
  BY <1>2, Names
<1>4. \A t \in Tasks : InConnection(t)'
  BY <1>1, <1>3 DEF Known, InConnection
<1>5. pool' = pool \/ (pool'[db] = None /\ \A d \in Databases \ {db} : pool'[d] = pool[d])
  BY <1>1 DEF Known, TypeOK
<1>6. TypeOK'
  BY <1>1, Names DEF Known, TypeOK, Server
<1>7. PoolsKnown'
  BY <1>1, <1>5, Names DEF Known, PoolsKnown
<1>8. LifeOfServer'
  <2>1. server' \in {"closing security", "stopped", "failed"}
    BY <1>1
  <2>2. ASSUME server' = "closing security" PROVE pool'["catalog"] = None
    <3>1. db = "catalog" /\ pool' = [pool EXCEPT ![db] = None]
      BY <1>1, <2>2, Names
    <3> QED
      BY <3>1, Names DEF Known, TypeOK
  <2>3. server' = "stopped" => pool'["catalog"] = None
    BY <1>1, <1>2, <1>5, Names DEF Known, TypeOK
  <2>4. step'[Lifespan] = "idle" /\ \A r \in Requests : step'[r] = "idle"
    BY <1>1, <1>2
  <2> QED
    BY <2>1, <2>2, <2>3, <2>4 DEF LifeOfServer
<1>9. StrayPools'
  <2>1. \A p \in open' : p # pool'[p[1]] => p[1] = "security" /\ p[2] \in Requests
    BY <1>6, <1>7, Names DEF PoolsKnown, TypeOK
  <2>2. ASSUME server' = "stopped" PROVE pool' = [d \in Databases |-> None]
    <3>1. db = "security" /\ pool' = [pool EXCEPT ![db] = None] /\ pool["catalog"] = None
      BY <1>1, <1>2, <2>2, Names
    <3>2. \A d \in Databases : pool'[d] = None
      BY <3>1, Names DEF Known, TypeOK
    <3> QED
      BY <1>6, <3>2 DEF TypeOK
  <2> QED
    BY <2>1, <2>2 DEF StrayPools
<1> QED
  BY <1>1, <1>4, <1>6, <1>7, <1>8, <1>9, QueuesStay DEF Known

-----------------------------------------------------------------------------
(* The theorems.                                                           *)

LEMMA Parts == IndInv <=> Known /\ Queues /\ StrayPools
BY DEF IndInv, ServedByOpenPool, Known, Queues

LEMMA InitIndInv == Init => IndInv
<1> SUFFICES ASSUME Init PROVE IndInv
  OBVIOUS
<1>1. TypeOK
  BY Names DEF Init, TypeOK, Server
<1>2. PoolsKnown /\ StrayPools /\ \A t \in Tasks : InConnection(t)
  BY Names DEF Init, PoolsKnown, StrayPools, InConnection
<1>3. LifeOfServer
  BY Names DEF Init, LifeOfServer
<1>4. Queues
  <2> SUFFICES ASSUME NEW p \in Pools PROVE Queued(p)
    BY DEF Queues
  <2>1. waiters[p] = << >> /\ Len(waiters[p]) = 0 /\ Waiting(p) = {}
    BY DEF Init, Waiting
  <2> QED
    BY <2>1 DEF Queued
<1> QED
  BY <1>1, <1>2, <1>3, <1>4, Parts DEF Known

LEMMA StepIndInv == IndInv /\ [Next]_vars => IndInv'
<1> SUFFICES ASSUME Known, Queues, StrayPools, [Next]_vars PROVE Known' /\ Queues' /\ StrayPools'
  BY Parts, PTL
<1>1. ASSUME NEW t \in Tasks, NEW db \in Databases, UsePool(t, db) \/ StartPool(t, db)
      PROVE  Known' /\ Queues' /\ StrayPools'
  BY <1>1, UsePoolStep, StartPoolStep
<1>2. ASSUME NEW t \in Tasks, Progress(t)
      PROVE  Known' /\ Queues' /\ StrayPools'
  BY <1>2, PoolCreatedStep, GrantedStep, LeaveStep DEF Progress
<1>3. ASSUME NEW t \in Requests, Arrive(t) \/ End(t)
      PROVE  Known' /\ Queues' /\ StrayPools'
  BY <1>3, ArriveStep, EndStep
<1>4. ASSUME SchemaFails \/ Stop \/ Shutdown
      PROVE  Known' /\ Queues' /\ StrayPools'
  BY <1>4, LeaveStep, StopStep, Names
<1>5. ASSUME NEW db \in Databases, Close(db) \/ CloseRaises(db)
      PROVE  Known' /\ Queues' /\ StrayPools'
  BY <1>5, CloseStep
<1>6. ASSUME UNCHANGED vars
      PROVE  Known' /\ Queues' /\ StrayPools'
  <2>1. Queues'
    BY <1>6, QueuesStay DEF vars
  <2> QED
    BY <1>6, <2>1 DEF vars, Known, TypeOK, PoolsKnown, LifeOfServer, InConnection, StrayPools
<1> QED
  BY <1>1, <1>2, <1>3, <1>4, <1>5, <1>6 DEF Next

LEMMA Invariance == Spec => []IndInv
<1> QED
  BY InitIndInv, StepIndInv, PTL DEF Spec

\* Whoever waits for a connection or has one got it from a pool that is open, also
\* when another creation has displaced that pool (PoolManager.connection).
THEOREM ConnectionsAreServed == Spec => []ServedByOpenPool
BY Invariance, PTL DEF IndInv

\* A pool that the lifespan will not close is one of the security database, made by
\* a request; after a clean stop PoolManager.pool of both databases is None again.
THEOREM OnlySecurityPoolsStray == Spec => []StrayPools
BY Invariance, PTL DEF IndInv

-----------------------------------------------------------------------------
(* The catalog's pools implement a bounded pool.                           *)

\* Connections of the catalog all are of the one pool it has.
LEMMA OneCatalogPool ==
  ASSUME Known, NEW t \in Tasks, step[t] \in {"waiting", "leased"}, target[t] = "catalog"
  PROVE  source[t] = pool["catalog"]
BY DEF Known, InConnection, PoolsKnown, TypeOK

\* A task becomes or ceases to be a holder by its own step.
LEMMA HoldersMove ==
  ASSUME NEW t \in Tasks, \A u \in Tasks \ {t} : Untouched(u)
  PROVE  /\ CatalogHolders' \ {t} = CatalogHolders \ {t}
         /\ t \in CatalogHolders' <=> step'[t] = "leased" /\ target'[t] = "catalog"
BY DEF CatalogHolders, Untouched

LEMMA HoldersStep ==
  ASSUME Known, [Next]_vars
  PROVE  CatalogPool!Next \/ CatalogHolders' = CatalogHolders
<1>1. ASSUME NEW t \in Tasks, \A u \in Tasks \ {t} : Untouched(u),
             step[t] # "leased", step'[t] # "leased"
      PROVE  CatalogHolders' = CatalogHolders
  BY <1>1, HoldersMove DEF CatalogHolders
<1>2. ASSUME NEW t \in Tasks, Granted(t)
      PROVE  CatalogPool!Next \/ CatalogHolders' = CatalogHolders
  <2>1. /\ step[t] = "waiting" /\ step'[t] = "leased" /\ target'[t] = target[t]
        /\ \A u \in Tasks \ {t} : Untouched(u)
        /\ Cardinality(Using(source[t])) < MaxSize
    BY <1>2 DEF Granted, Turn, Untouched, Known, TypeOK
  <2>2. CASE target[t] = "catalog"
    <3>1. Using(source[t]) = CatalogHolders
      <4>1. ASSUME NEW u \in Tasks, step[u] = "leased"
            PROVE  source[u] = source[t] <=> target[u] = "catalog"
        BY <2>1, <2>2, <4>1, OneCatalogPool DEF Known, InConnection
      <4> QED
        BY <4>1 DEF Using, CatalogHolders
    <3>2. t \notin CatalogHolders /\ CatalogHolders' = CatalogHolders \union {t}
      BY <2>1, <2>2, HoldersMove DEF CatalogHolders
    <3>3. Cardinality(CatalogHolders) < MaxSize
      BY <2>1, <3>1
    <3>4. CatalogPool!Take(t)
      <4>1. CatalogPool!Cardinality(CatalogHolders) = Cardinality(CatalogHolders)
        BY Zenon DEF Cardinality, CatalogPool!Cardinality, IsFiniteSet, CatalogPool!IsFiniteSet
      <4> QED
        BY <3>2, <3>3, <4>1 DEF CatalogPool!Take
    <3> QED
      BY <3>4 DEF CatalogPool!Next
  <2>3. CASE target[t] # "catalog"
    BY <2>1, <2>3, HoldersMove DEF CatalogHolders
  <2> QED
    BY <2>2, <2>3
<1>3. ASSUME NEW t \in Tasks, Leave(t)
      PROVE  CatalogPool!Next \/ CatalogHolders' = CatalogHolders
  <2>1. PICK to : to # "leased" /\ Row(t, to, None, None)
    BY <1>3, LeaveRow
  <2>2. step'[t] # "leased" /\ (\A u \in Tasks \ {t} : Untouched(u))
    BY <2>1 DEF Row
  <2>3. CatalogHolders' = CatalogHolders \ {t}
    BY <2>2, HoldersMove
  <2>4. CASE t \in CatalogHolders
    <3>1. CatalogPool!Give(t)
      BY <2>3, <2>4 DEF CatalogPool!Give
    <3> QED
      BY <3>1 DEF CatalogPool!Next
  <2>5. CASE t \notin CatalogHolders
    BY <2>3, <2>5
  <2> QED
    BY <2>4, <2>5
<1>4. ASSUME NEW t \in Tasks, Progress(t)
      PROVE  CatalogPool!Next \/ CatalogHolders' = CatalogHolders
  <2>1. CASE PoolCreated(t)
    <3>1. /\ step[t] # "leased" /\ step'[t] # "leased"
          /\ \A u \in Tasks \ {t} : Untouched(u)
      BY <2>1 DEF PoolCreated, Join, Untouched, Known, TypeOK
    <3> QED
      BY <1>1, <3>1
  <2>2. CASE PoolNotCreated(t) \/ NotConnected(t) \/ GiveBack(t)
    BY <1>3, <2>2 DEF PoolNotCreated, NotConnected, GiveBack, Raise
  <2> QED
    BY <1>2, <1>4, <2>1, <2>2 DEF Progress
<1>5. ASSUME NEW t \in Tasks, NEW db \in Databases, UsePool(t, db) \/ StartPool(t, db)
      PROVE  CatalogHolders' = CatalogHolders
  <2>1. /\ step[t] # "leased" /\ step'[t] # "leased"
        /\ \A u \in Tasks \ {t} : Untouched(u)
    BY <1>5 DEF UsePool, StartPool, Calls, Join, Untouched, Known, TypeOK
  <2> QED
    BY <1>1, <2>1
<1>6. ASSUME NEW t \in Requests, Arrive(t) \/ End(t)
      PROVE  CatalogHolders' = CatalogHolders
  <2>1. /\ step[t] # "leased" /\ step'[t] # "leased" /\ t \in Tasks
        /\ \A u \in Tasks \ {t} : Untouched(u)
    BY <1>6, Names DEF Arrive, End, Untouched, Known, TypeOK
  <2> QED
    BY <1>1, <2>1
<1>7. ASSUME SchemaFails
      PROVE  CatalogPool!Next \/ CatalogHolders' = CatalogHolders
  BY <1>3, <1>7, Names DEF SchemaFails, Raise
<1>8. ASSUME UNCHANGED <<step, target>>
      PROVE  CatalogHolders' = CatalogHolders
  BY <1>8 DEF CatalogHolders
<1>9. ASSUME Stop \/ Shutdown \/ (\E db \in Databases : Close(db) \/ CloseRaises(db))
             \/ UNCHANGED vars
      PROVE  CatalogHolders' = CatalogHolders
  BY <1>8, <1>9 DEF Stop, Shutdown, Close, CloseRaises, vars
<1> QED
  BY <1>4, <1>5, <1>6, <1>7, <1>9 DEF Next

\* The pool made on demand is, for the catalog, a pool of max_size connections: what
\* the chat endpoint is written against. (Connections of displaced catalog pools
\* would have made it larger; there are none, since the lifespan has made the pool
\* before the first request comes.)
THEOREM ImplementsBoundedPool == Spec => CatalogAsAssumed
<1>1. Init => CatalogPool!Init
  BY DEF Init, CatalogPool!Init, CatalogHolders
<1>2. IndInv /\ [Next]_vars => [CatalogPool!Next]_CatalogHolders
  BY HoldersStep, Parts
<1> QED
  BY <1>1, <1>2, Invariance, PTL DEF Spec, CatalogAsAssumed, CatalogPool!Spec

=============================================================================
