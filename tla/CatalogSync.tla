---------------------------- MODULE CatalogSync -----------------------------
(***************************************************************************)
(* sync-approved-queries (app/sync.py): runs that bring approved_queries   *)
(* to a commit of a source repository. A run reads the hashes of the rows  *)
(* of its source in a statement of its own, embeds what changed, and then  *)
(* writes in one transaction under READ COMMITTED, PostgreSQL's default:   *)
(* every statement sees the rows committed when it executes and the run's  *)
(* own writes, waits for a row another run has written, and keeps what it  *)
(* wrote locked until the run commits or fails.                            *)
(*                                                                         *)
(* The GitHub workflow starts one run at a time (its concurrency group);   *)
(* Compose and the command line put nothing in the way of two.             *)
(***************************************************************************)
EXTENDS Domain, Sequences

CONSTANTS
  Sources,     \* source URLs
  SourceOf,    \* the source a commit belongs to
  Listing,     \* Listing[c]: History[c] in the order load_queries returns it
  Runs,        \* runs of the command, each started once
  None

ASSUME ListingAssumption ==
  /\ SourceOf \in [Commits -> Sources]
  /\ \A c \in Commits :
       /\ Listing[c] \in Seq(Entry)
       /\ {Listing[c][i] : i \in DOMAIN Listing[c]} = History[c]

VARIABLES
  catalog,  \* the committed rows of approved_queries
  phase,    \* where a run is
  target,   \* the commit a run syncs
  changed,  \* the entries it has embedded: those whose hash it did not find
  todo,     \* the queries its loop has still to write
  doomed,   \* ids its DELETE has found and not deleted yet
  locks,    \* ids of rows its transaction has written
  writes,   \* the versions its transaction has given them; none for deleted ones
  disturbed, \* history: the runs that were active while another run was
  serialised \* runs are started by the workflow, and by nobody else

work == <<target, changed, todo, doomed>>
transaction == <<locks, writes>>
history == <<disturbed, serialised>>
vars == <<catalog, phase, work, transaction, history>>

Store == INSTANCE CatalogStore

CatalogRow == [id : QueryIds, entry : Entry, commit : Commits, source : Sources]

Phase == {"idle", "loaded", "writing", "deleting", "done", "failed"}

Active(w) == phase[w] \in {"loaded", "writing", "deleting"}

\* A run's source_url.
SourceUrl(w) == SourceOf[target[w]]

\* What a statement of run w sees.
Visible(w) == {row \in catalog : row.id \notin locks[w]} \union writes[w]

LockedByOther(w, id) == \E v \in Runs \ {w} : id \in locks[v]

Enter(w, from, to) ==
  /\ phase[w] = from
  /\ phase' = [phase EXCEPT ![w] = to]

Init ==
  /\ catalog = {}
  /\ phase = [w \in Runs |-> "idle"]
  /\ target = [w \in Runs |-> None]
  /\ changed = [w \in Runs |-> {}]
  /\ todo = [w \in Runs |-> <<>>]
  /\ doomed = [w \in Runs |-> {}]
  /\ locks = [w \in Runs |-> {}]
  /\ writes = [w \in Runs |-> {}]
  /\ disturbed = {}
  /\ serialised \in BOOLEAN

\* The command loads and validates a checkout; a checkout that load_queries
\* refuses ends the command before it connects, and is left out.
Begin(w) ==
  /\ serialised => \A v \in Runs : ~Active(v)
  /\ Enter(w, "idle", "loaded")
  /\ \E c \in Commits :
       /\ target' = [target EXCEPT ![w] = c]
       /\ todo' = [todo EXCEPT ![w] = Listing[c]]
  /\ LET others == {v \in Runs : Active(v)}
     IN disturbed' = disturbed \union others \union (IF others = {} THEN {} ELSE {w})
  /\ UNCHANGED <<catalog, changed, doomed, transaction, serialised>>

\* Mutant of ReadExisting: known ids are unchanged.
ReadExistingIds(w) ==
  /\ Enter(w, "loaded", "writing")
  /\ LET existing == {row.id : row \in {x \in catalog : x.source = SourceUrl(w)}}
     IN changed' = [changed EXCEPT ![w] = {e \in History[target[w]] : e.id \notin existing}]
  /\ UNCHANGED <<catalog, target, todo, doomed, transaction, history>>

\* SELECT id, catalog_hash WHERE source_url, outside the transaction; what is
\* changed is decided, and embedded, from what it returned.
ReadExisting(w) ==
  /\ Enter(w, "loaded", "writing")
  /\ LET existing == {<<row.id, catalog_hash(row.entry)>> :
                        row \in {x \in catalog : x.source = SourceUrl(w)}}
     IN changed' = [changed EXCEPT ![w] =
                      {e \in History[target[w]] : <<e.id, catalog_hash(e)>> \notin existing}]
  /\ UNCHANGED <<catalog, target, todo, doomed, transaction, history>>

\* Mutant of Write: no primary key, a new version stands beside the old one.
WriteBeside(w, id, rows) ==
  /\ UNCHANGED locks
  /\ writes' = [writes EXCEPT ![w] = @ \union rows]

\* The run's transaction gives row `id` the versions in `rows` (one or none).
Write(w, id, rows) ==
  /\ locks' = [locks EXCEPT ![w] = @ \union {id}]
  /\ writes' = [writes EXCEPT ![w] = {x \in @ : x.id # id} \union rows]

\* Mutant of Upsert: INSERT ... ON CONFLICT (id) DO NOTHING.
UpsertNewOnly(w) ==
  /\ phase[w] = "writing" /\ todo[w] # <<>>
  /\ LET e == Head(todo[w])
     IN /\ e \in changed[w]
        /\ ~LockedByOther(w, e.id)
        /\ IF \E x \in Visible(w) : x.id = e.id
           THEN UNCHANGED transaction
           ELSE Write(w, e.id, {Store!Stored(e, target[w], SourceUrl(w))})
  /\ todo' = [todo EXCEPT ![w] = Tail(@)]
  /\ UNCHANGED <<catalog, phase, target, changed, doomed, history>>

\* UPDATE ... SET source_commit WHERE id AND source_url, for a query whose hash
\* the run found unchanged. It touches no row when there is none (any more).
Relabel(w) ==
  /\ phase[w] = "writing" /\ todo[w] # <<>>
  /\ LET e == Head(todo[w])
         rows == {x \in Visible(w) : x.id = e.id /\ x.source = SourceUrl(w)}
     IN /\ e \notin changed[w]
        /\ \/ /\ rows # {} /\ ~LockedByOther(w, e.id)
              /\ Write(w, e.id, {[x EXCEPT !.commit = target[w]] : x \in rows})
           \/ rows = {} /\ UNCHANGED transaction
  /\ todo' = [todo EXCEPT ![w] = Tail(@)]
  /\ UNCHANGED <<catalog, phase, target, changed, doomed, history>>

\* INSERT ... ON CONFLICT (id) DO UPDATE: writes every column, whichever source
\* the row came from.
Upsert(w) ==
  /\ phase[w] = "writing" /\ todo[w] # <<>>
  /\ LET e == Head(todo[w])
     IN /\ e \in changed[w]
        /\ ~LockedByOther(w, e.id)
        /\ Write(w, e.id, {Store!Stored(e, target[w], SourceUrl(w))})
  /\ todo' = [todo EXCEPT ![w] = Tail(@)]
  /\ UNCHANGED <<catalog, phase, target, changed, doomed, history>>

\* DELETE ... WHERE source_url AND NOT id = ANY(active_ids): the rows it is to
\* delete are those it sees when it starts.
StartDelete(w) ==
  /\ todo[w] = <<>>
  /\ Enter(w, "writing", "deleting")
  /\ doomed' = [doomed EXCEPT ![w] =
       {x.id : x \in {y \in Visible(w) : y.source = SourceUrl(w)}}
         \ {e.id : e \in History[target[w]]}]
  /\ UNCHANGED <<catalog, target, changed, todo, transaction, history>>

\* It waits for each of them, and leaves one that is no longer its source's.
DeleteRow(w, id) ==
  /\ phase[w] = "deleting" /\ id \in doomed[w] /\ ~LockedByOther(w, id)
  /\ IF \E x \in Visible(w) : x.id = id /\ x.source = SourceUrl(w)
     THEN Write(w, id, {})
     ELSE UNCHANGED transaction
  /\ doomed' = [doomed EXCEPT ![w] = @ \ {id}]
  /\ UNCHANGED <<catalog, phase, target, changed, todo, history>>

\* Mutant of EndTransaction: the row locks outlive it.
EndTransactionKeepsLocks(w) ==
  /\ UNCHANGED locks
  /\ writes' = [writes EXCEPT ![w] = {}]

\* COMMIT or ROLLBACK gives the row locks back.
EndTransaction(w) ==
  /\ locks' = [locks EXCEPT ![w] = {}]
  /\ writes' = [writes EXCEPT ![w] = {}]

Commit(w) ==
  /\ doomed[w] = {}
  /\ Enter(w, "deleting", "done")
  /\ catalog' = Visible(w)
  /\ EndTransaction(w)
  /\ UNCHANGED <<work, history>>

\* The embedder or a statement fails, the job times out or is killed, or the
\* server aborts the transaction to break a deadlock: it rolls back.
Fail(w) ==
  /\ \E from \in {"loaded", "writing", "deleting"} : Enter(w, from, "failed")
  /\ EndTransaction(w)
  /\ UNCHANGED <<catalog, work, history>>

Step(w) ==
  \/ ReadExisting(w) \/ Relabel(w) \/ Upsert(w)
  \/ StartDelete(w) \/ (\E id \in QueryIds : DeleteRow(w, id))
  \/ Commit(w)

Next == \E w \in Runs : Begin(w) \/ Step(w) \/ Fail(w)

Spec == Init /\ [][Next]_vars

\* Run w waits for a row that run v has written.
WaitsFor(w, v) ==
  \/ /\ phase[w] = "writing" /\ todo[w] # <<>>
     /\ LET e == Head(todo[w])
        IN /\ e.id \in locks[v]
           /\ e \in changed[w]
              \/ \E x \in Visible(w) : x.id = e.id /\ x.source = SourceUrl(w)
  \/ /\ phase[w] = "deleting" /\ doomed[w] \intersect locks[v] # {}
     /\ \A id \in doomed[w] : LockedByOther(w, id)

\* PostgreSQL's deadlock detector: one of the runs that wait on each other fails.
BreakDeadlock(w) ==
  /\ \E S \in SUBSET Runs : w \in S /\ \A x \in S : \E y \in S \ {x} : WaitsFor(x, y)
  /\ Fail(w)

\* The server executes a statement that does not wait, and breaks deadlocks.
FairSpec == Spec /\ \A w \in Runs : WF_vars(Step(w)) /\ WF_vars(BreakDeadlock(w))

-----------------------------------------------------------------------------
(* Correctness.                                                            *)

\* Shapes, and the primary key: no id twice in the committed rows.
TypeOK ==
  /\ catalog \subseteq CatalogRow
  /\ \A x, y \in catalog : x.id = y.id => x = y
  /\ phase \in [Runs -> Phase]
  /\ target \in [Runs -> Commits \union {None}]
  /\ changed \in [Runs -> SUBSET Entry]
  /\ todo \in [Runs -> Seq(Entry)]
  /\ doomed \in [Runs -> SUBSET QueryIds]
  /\ locks \in [Runs -> SUBSET QueryIds]
  /\ writes \in [Runs -> SUBSET CatalogRow]
  /\ disturbed \subseteq Runs
  /\ serialised \in BOOLEAN

\* README.md:17 "records a normalized SHA-256 hash plus source commit": the
\* commit a row is labelled with is one at which the source held exactly that
\* entry. Half of the rows are relabelled without being rewritten.
LabelHonest == \A row \in catalog : row.entry \in History[row.commit]

\* The catalog as the workflow alone fills it.
Workflow == INSTANCE CatalogStore WITH catalog <- IF serialised THEN catalog ELSE {}

\* What readers see of the workflow's runs changes from one whole snapshot of a
\* source to another, whichever of them fail, and one source's runs leave the
\* other's rows alone, save those whose id they list themselves; their labels are
\* honest, then, as the workflow starts one run at a time.
PublishesSnapshots == Workflow!Spec

\* Whatever overlapping runs have left behind, a run that nobody disturbed ends
\* with exactly its commit's queries in its source's rows: what it finds
\* unchanged, by hash, needs the label only, and what it does not list goes.
SoloRunHeals ==
  [][\A w \in Runs : phase[w] = "deleting" /\ phase'[w] = "done" /\ w \notin disturbed =>
       {row \in catalog' : row.source = SourceUrl(w)} = Store!Snapshot(target[w])]_vars

\* A run that has started commits or fails: it does not wait for ever for rows
\* of a run that waits for its own.
EveryRunEnds == \A w \in Runs : phase[w] = "loaded" ~> phase[w] \in {"done", "failed"}

-----------------------------------------------------------------------------
(* Why it is correct: the inductive invariant.                             *)

\* A transaction holds a lock on each row it has written, has one version of each,
\* and shares no lock; a run has neither before it writes nor after it has ended.
Transactional ==
  /\ \A row \in catalog : row.entry.id = row.id
  /\ \A w \in Runs :
       /\ \A x \in writes[w] : x.id \in locks[w] /\ x.entry.id = x.id
       /\ \A x, y \in writes[w] : x.id = y.id => x = y
       /\ phase[w] # "idle" => target[w] \in Commits
       /\ phase[w] \notin {"writing", "deleting"} => locks[w] = {} /\ writes[w] = {}
       /\ \A v \in Runs \ {w} : locks[v] \intersect locks[w] = {}

Undisturbed(w) == Active(w) /\ w \notin disturbed

\* A run that nobody has disturbed is the only one there is.
Solitary ==
  /\ serialised => disturbed = {}
  /\ \A w \in Runs : Undisturbed(w) => \A v \in Runs \ {w} : ~Active(v)

\* The loop of an undisturbed run: what it found unchanged is still in the catalog;
\* of its commit, what it has not written it has still to write.
Writing(w) ==
  /\ changed[w] = {e \in History[target[w]] :
                     \A row \in catalog : row.source = SourceUrl(w) => row.entry # e}
  /\ \A i \in 1..Len(todo[w]) : todo[w][i] \in History[target[w]]
  /\ writes[w] \subseteq Store!Snapshot(target[w])
  /\ \A id \in locks[w] : \E x \in writes[w] : x.id = id
  /\ \A e \in History[target[w]] :
       \/ Store!Stored(e, target[w], SourceUrl(w)) \in writes[w]
       \/ \E i \in 1..Len(todo[w]) : todo[w][i] = e

\* Its DELETE: the commit is written, and of its source's other rows those that are
\* not deleted yet are to be.
Deleting(w) ==
  LET ids == Store!Ids(target[w]) IN
  /\ writes[w] = Store!Snapshot(target[w])
  /\ ids \subseteq locks[w] /\ doomed[w] \intersect ids = {}
  /\ \A row \in catalog :
       row.source = SourceUrl(w) => row.id \in ids \union doomed[w] \union locks[w]
  /\ \A id \in locks[w] \ ids : \E row \in catalog : row.id = id /\ row.source = SourceUrl(w)

OnCourse ==
  \A w \in Runs : Undisturbed(w) =>
    /\ phase[w] = "loaded" => todo[w] = Listing[target[w]]
    /\ phase[w] = "writing" => Writing(w)
    /\ phase[w] = "deleting" => Deleting(w)

\* The primary key, the row locks, and how far an undisturbed run has come: what a
\* commit, and so a reader, depends on.
IndInv == TypeOK /\ Transactional /\ Solitary /\ OnCourse

=============================================================================
