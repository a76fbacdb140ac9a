------------------------- MODULE CatalogSyncProofs --------------------------
(***************************************************************************)
(* The sync, for any repositories, any listing and any number of runs: the *)
(* primary key holds, and an undisturbed run publishes one whole snapshot. *)
(***************************************************************************)
EXTENDS CatalogSync, SequenceTheorems, TLAPS

-----------------------------------------------------------------------------
(* The vocabulary.                                                         *)

\* What a checkout lists: typed entries, exactly those of its commit, no id twice.
LEMMA ListingFacts ==
  ASSUME NEW c \in Commits
  PROVE  /\ History[c] \subseteq Entry
         /\ \A e, f \in History[c] : e.id = f.id => e = f
         /\ SourceOf[c] \in Sources
         /\ Listing[c] \in Seq(Entry)
         /\ \A i \in 1..Len(Listing[c]) : Listing[c][i] \in History[c]
         /\ \A e \in History[c] : \E i \in 1..Len(Listing[c]) : Listing[c][i] = e
<1>1. /\ Listing[c] \in Seq(Entry)
      /\ {Listing[c][i] : i \in DOMAIN Listing[c]} = History[c]
      /\ SourceOf[c] \in Sources
  BY ListingAssumption
<1>2. DOMAIN Listing[c] = 1..Len(Listing[c])
  BY <1>1, LenProperties
<1> QED
  BY <1>1, <1>2, HistoryAssumption

LEMMA HashTellsEntry ==
  ASSUME NEW e \in Entry, NEW f \in Entry, catalog_hash(e) = catalog_hash(f)
  PROVE  e = f
<1>1. catalog_hash(e).sha256 = catalog_hash(f).sha256
  OBVIOUS
<1>2. /\ e.id = f.id /\ e.minRole = f.minRole
      /\ content_hash(e.sql) = content_hash(f.sql)
  BY <1>1 DEF catalog_hash
<1>3. content_hash(e.sql).sha256 = content_hash(f.sql).sha256
  BY <1>2
<1>4. e.sql = f.sql
  BY <1>3 DEF content_hash
<1> QED
  BY <1>2, <1>4 DEF Entry

\* What is to be written next, and what is left.
LEMMA TodoFacts ==
  ASSUME NEW s \in Seq(Entry), s # <<>>
  PROVE  /\ Len(s) \in Nat \ {0} /\ Head(s) = s[1] /\ Head(s) \in Entry
         /\ Tail(s) \in Seq(Entry) /\ Len(Tail(s)) = Len(s) - 1
         /\ \A i \in 1..Len(Tail(s)) : Tail(s)[i] = s[i + 1]
<1>1. Len(s) \in Nat \ {0} /\ Head(s) \in Entry
  BY HeadTailProperties, EmptySeq, LenProperties
<1>2. Tail(s) \in Seq(Entry) /\ Len(Tail(s)) = Len(s) - 1
  BY HeadTailProperties
<1>3. \A i \in 1..Len(Tail(s)) : Tail(s)[i] = s[i + 1]
  BY HeadTailProperties
<1> QED
  BY <1>1, <1>2, <1>3

LEMMA StoredFacts ==
  ASSUME NEW e \in Entry, NEW c \in Commits, NEW src \in Sources
  PROVE  /\ Store!Stored(e, c, src) \in CatalogRow
         /\ Store!Stored(e, c, src).id = e.id
         /\ Store!Stored(e, c, src).entry = e
         /\ Store!Stored(e, c, src).commit = c
         /\ Store!Stored(e, c, src).source = src
  BY DEF Store!Stored, CatalogRow, Entry

\* A row with a new label.
LEMMA RelabelFacts ==
  ASSUME NEW x \in CatalogRow, NEW c \in Commits, x.entry.id = x.id
  PROVE  /\ [x EXCEPT !.commit = c] \in CatalogRow
         /\ [x EXCEPT !.commit = c].id = x.id
         /\ [x EXCEPT !.commit = c].entry = x.entry
         /\ [x EXCEPT !.commit = c] = Store!Stored(x.entry, c, x.source)
  BY DEF CatalogRow, Store!Stored

\* What a statement of a run sees has the primary key too.
LEMMA VisibleFacts ==
  ASSUME TypeOK, Transactional, NEW w \in Runs
  PROVE  /\ Visible(w) \subseteq CatalogRow
         /\ \A x \in Visible(w) : x.entry.id = x.id
         /\ \A x, y \in Visible(w) : x.id = y.id => x = y
<1>1. /\ writes[w] \subseteq CatalogRow
      /\ \A x \in writes[w] : x.id \in locks[w] /\ x.entry.id = x.id
      /\ \A x, y \in writes[w] : x.id = y.id => x = y
  BY DEF TypeOK, Transactional
<1>2. /\ catalog \subseteq CatalogRow /\ \A x \in catalog : x.entry.id = x.id
      /\ \A x, y \in catalog : x.id = y.id => x = y
  BY DEF TypeOK, Transactional
<1> QED
  BY <1>1, <1>2 DEF Visible

-----------------------------------------------------------------------------
(* Transactions: the primary key and the row locks.                        *)

\* What Transactional and TypeOK say of the transaction of run v, if it holds the
\* locks in L of all runs and has written the versions in W.
Sane(L, W, v) ==
  /\ \A x \in W[v] : x.id \in L[v] /\ x.entry.id = x.id
  /\ \A x, y \in W[v] : x.id = y.id => x = y
  /\ \A u \in Runs \ {v} : L[u] \intersect L[v] = {}

LEMMA WriteIsSane ==
  ASSUME TypeOK, Transactional, NEW w \in Runs, NEW id \in QueryIds,
         NEW rows \in SUBSET CatalogRow, ~LockedByOther(w, id), Write(w, id, rows),
         \A x \in rows : x.id = id /\ x.entry.id = id /\ \A y \in rows : x = y
  PROVE  /\ locks' \in [Runs -> SUBSET QueryIds]
         /\ writes' \in [Runs -> SUBSET CatalogRow]
         /\ \A v \in Runs : Sane(locks', writes', v)
         /\ \A v \in Runs \ {w} : locks'[v] = locks[v] /\ writes'[v] = writes[v]
         /\ locks'[w] = locks[w] \union {id}
         /\ writes'[w] = {x \in writes[w] : x.id # id} \union rows
<1>1. /\ locks' \in [Runs -> SUBSET QueryIds]
      /\ locks'[w] = locks[w] \union {id}
      /\ \A v \in Runs \ {w} : locks'[v] = locks[v]
  BY DEF Write, TypeOK
<1>2. /\ writes' \in [Runs -> SUBSET CatalogRow]
      /\ writes'[w] = {x \in writes[w] : x.id # id} \union rows
      /\ \A v \in Runs \ {w} : writes'[v] = writes[v]
  BY DEF Write, TypeOK
<1>3. \A v \in Runs \ {w} : id \notin locks[v]
  BY DEF LockedByOther
<1>4. ASSUME NEW v \in Runs PROVE Sane(locks', writes', v)
  <2>1. Sane(locks, writes, v) /\ Sane(locks, writes, w)
    BY DEF Transactional, Sane
  <2>2. CASE v = w
    BY <1>1, <1>2, <1>3, <2>1, <2>2 DEF Sane
  <2>3. CASE v # w
    BY <1>1, <1>2, <1>3, <2>1, <2>3 DEF Sane
  <2> QED
    BY <2>2, <2>3
<1> QED
  BY <1>1, <1>2, <1>4

LEMMA EndIsSane ==
  ASSUME TypeOK, Transactional, NEW w \in Runs, EndTransaction(w)
  PROVE  /\ locks' \in [Runs -> SUBSET QueryIds]
         /\ writes' \in [Runs -> SUBSET CatalogRow]
         /\ \A v \in Runs : Sane(locks', writes', v)
         /\ \A v \in Runs \ {w} : locks'[v] = locks[v] /\ writes'[v] = writes[v]
         /\ locks'[w] = {} /\ writes'[w] = {}
<1>1. /\ locks' \in [Runs -> SUBSET QueryIds] /\ writes' \in [Runs -> SUBSET CatalogRow]
      /\ locks'[w] = {} /\ writes'[w] = {}
      /\ \A v \in Runs \ {w} : locks'[v] = locks[v] /\ writes'[v] = writes[v]
  BY DEF EndTransaction, TypeOK
<1>2. ASSUME NEW v \in Runs PROVE Sane(locks', writes', v)
  <2>1. Sane(locks, writes, v)
    BY DEF Transactional, Sane
  <2>2. CASE v = w
    BY <1>1, <2>2 DEF Sane
  <2>3. CASE v # w
    BY <1>1, <2>1, <2>3 DEF Sane
  <2> QED
    BY <2>2, <2>3
<1> QED
  BY <1>1, <1>2

LEMMA EnterFacts ==
  ASSUME TypeOK, NEW w \in Runs, NEW from \in Phase, NEW to \in Phase, Enter(w, from, to)
  PROVE  /\ phase[w] = from /\ phase' \in [Runs -> Phase] /\ phase'[w] = to
         /\ \A v \in Runs \ {w} : phase'[v] = phase[v]
  BY DEF Enter, TypeOK

\* The head of an active run's list, and its source.
LEMMA RunFacts ==
  ASSUME TypeOK, Transactional, NEW w \in Runs, phase[w] # "idle"
  PROVE  /\ target[w] \in Commits /\ SourceUrl(w) \in Sources
         /\ SourceUrl(w) = SourceOf[target[w]]
         /\ todo[w] \in Seq(Entry)
         /\ History[target[w]] \subseteq Entry
<1>1. target[w] \in Commits /\ todo[w] \in Seq(Entry)
  BY DEF Transactional, TypeOK
<1> QED
  BY <1>1, ListingFacts DEF SourceUrl

\* What every statement leaves of the transactions.
Sound(w) ==
  /\ locks' \in [Runs -> SUBSET QueryIds] /\ writes' \in [Runs -> SUBSET CatalogRow]
  /\ \A v \in Runs : Sane(locks', writes', v)
  /\ \A v \in Runs \ {w} : locks'[v] = locks[v] /\ writes'[v] = writes[v]

LEMMA IdleIsSound ==
  ASSUME TypeOK, Transactional, NEW w \in Runs, UNCHANGED transaction
  PROVE  Sound(w)
<1>1. \A v \in Runs : Sane(locks, writes, v)
  BY DEF Transactional, Sane
<1>2. locks' = locks /\ writes' = writes
  BY DEF transaction
<1> QED
  BY <1>1, <1>2 DEF Sound, TypeOK

LEMMA RelabelIsSound ==
  ASSUME TypeOK, Transactional, NEW w \in Runs, Relabel(w)
  PROVE  Sound(w)
<1> DEFINE e == Head(todo[w])
           rows == {x \in Visible(w) : x.id = e.id /\ x.source = SourceUrl(w)}
           new == {[x EXCEPT !.commit = target[w]] : x \in rows}
<1>1. phase[w] = "writing" /\ todo[w] # <<>>
  BY DEF Relabel
<1>2. target[w] \in Commits /\ e \in Entry /\ e.id \in QueryIds
  BY <1>1, RunFacts, TodoFacts DEF Entry
<1>3. CASE rows = {}
  <2>1. UNCHANGED transaction
    BY <1>3 DEF Relabel
  <2> QED
    BY <2>1, IdleIsSound
<1>4. CASE rows # {}
  <2>1. ~LockedByOther(w, e.id) /\ Write(w, e.id, new)
    BY <1>4 DEF Relabel
  <2>2. /\ rows \subseteq CatalogRow
        /\ \A x \in rows : x.id = e.id /\ x.entry.id = e.id /\ \A y \in rows : x = y
    BY VisibleFacts
  <2>3. ASSUME NEW z \in new
        PROVE  z \in CatalogRow /\ z.id = e.id /\ z.entry.id = e.id /\ \A y \in new : z = y
    <3>1. PICK x \in rows : z = [x EXCEPT !.commit = target[w]]
      BY <2>3
    <3>2. z \in CatalogRow /\ z.id = x.id /\ z.entry = x.entry
      BY <1>2, <2>2, <3>1, RelabelFacts
    <3>3. ASSUME NEW y \in new PROVE z = y
      <4>1. PICK x2 \in rows : y = [x2 EXCEPT !.commit = target[w]]
        BY <3>3
      <4>2. x2 = x
        BY <2>2
      <4> QED
        BY <3>1, <4>1, <4>2
    <3> QED
      BY <2>2, <3>2, <3>3
  <2>4. new \in SUBSET CatalogRow
    BY <2>3
  <2> HIDE DEF new, rows, e
  <2> QED
    BY <1>2, <2>1, <2>3, <2>4, WriteIsSane DEF Sound
<1> QED
  BY <1>3, <1>4

LEMMA UpsertIsSound ==
  ASSUME TypeOK, Transactional, NEW w \in Runs, Upsert(w)
  PROVE  Sound(w)
<1> DEFINE e == Head(todo[w])
           new == {Store!Stored(e, target[w], SourceUrl(w))}
<1>1. phase[w] = "writing" /\ todo[w] # <<>>
  BY DEF Upsert
<1>2. target[w] \in Commits /\ SourceUrl(w) \in Sources /\ e \in Entry /\ e.id \in QueryIds
  BY <1>1, RunFacts, TodoFacts DEF Entry
<1>3. ~LockedByOther(w, e.id) /\ Write(w, e.id, new)
  BY DEF Upsert
<1>4. \A z \in new : z \in CatalogRow /\ z.id = e.id /\ z.entry.id = e.id /\ \A y \in new : z = y
  <2> HIDE DEF e
  <2> QED
    BY <1>2, StoredFacts
<1>5. new \in SUBSET CatalogRow
  BY <1>4
<1> HIDE DEF new, e
<1> QED
  BY <1>2, <1>3, <1>4, <1>5, WriteIsSane DEF Sound

LEMMA DeleteRowIsSound ==
  ASSUME TypeOK, Transactional, NEW w \in Runs, NEW id \in QueryIds, DeleteRow(w, id)
  PROVE  Sound(w)
<1>1. CASE \E x \in Visible(w) : x.id = id /\ x.source = SourceUrl(w)
  <2>1. ~LockedByOther(w, id) /\ Write(w, id, {})
    BY <1>1 DEF DeleteRow
  <2> QED
    BY <2>1, WriteIsSane DEF Sound
<1>2. CASE ~\E x \in Visible(w) : x.id = id /\ x.source = SourceUrl(w)
  <2>1. UNCHANGED transaction
    BY <1>2 DEF DeleteRow
  <2> QED
    BY <2>1, IdleIsSound
<1> QED
  BY <1>1, <1>2

\* Shapes of what the steps of a run change beside its transaction.
LEMMA BeginFacts ==
  ASSUME TypeOK, NEW w \in Runs, Begin(w)
  PROVE  /\ phase[w] = "idle" /\ phase' \in [Runs -> Phase] /\ phase'[w] = "loaded"
         /\ \A v \in Runs \ {w} : phase'[v] = phase[v] /\ target'[v] = target[v]
                                  /\ todo'[v] = todo[v]
         /\ target'[w] \in Commits /\ todo'[w] = Listing[target'[w]]
         /\ target' \in [Runs -> Commits \union {None}] /\ todo' \in [Runs -> Seq(Entry)]
         /\ disturbed' \subseteq Runs
         /\ UNCHANGED <<catalog, changed, doomed, transaction, serialised>>
<1>1. /\ phase[w] = "idle" /\ phase' \in [Runs -> Phase] /\ phase'[w] = "loaded"
      /\ \A v \in Runs \ {w} : phase'[v] = phase[v]
  BY EnterFacts DEF Begin, Phase
<1>2. PICK c \in Commits : /\ target' = [target EXCEPT ![w] = c]
                           /\ todo' = [todo EXCEPT ![w] = Listing[c]]
  BY DEF Begin
<1>3. Listing[c] \in Seq(Entry)
  BY ListingFacts
<1>4. /\ target' \in [Runs -> Commits \union {None}] /\ todo' \in [Runs -> Seq(Entry)]
      /\ target'[w] = c /\ todo'[w] = Listing[c]
      /\ \A v \in Runs \ {w} : target'[v] = target[v] /\ todo'[v] = todo[v]
  BY <1>2, <1>3 DEF TypeOK
<1>5. disturbed' \subseteq Runs
  BY DEF Begin, TypeOK
<1>6. UNCHANGED <<catalog, changed, doomed, transaction, serialised>>
  BY DEF Begin
<1> QED
  BY <1>1, <1>4, <1>5, <1>6

\* The loop goes on to what is left of the list.
LEMMA NextTodo ==
  ASSUME TypeOK, NEW w \in Runs, todo[w] # <<>>, todo' = [todo EXCEPT ![w] = Tail(@)]
  PROVE  /\ todo' \in [Runs -> Seq(Entry)] /\ todo'[w] = Tail(todo[w])
         /\ \A v \in Runs \ {w} : todo'[v] = todo[v]
<1>1. Tail(todo[w]) \in Seq(Entry)
  BY TodoFacts DEF TypeOK
<1> QED
  BY <1>1 DEF TypeOK

\* No id twice in what a commit publishes.
LEMMA CommitKeepsKey ==
  ASSUME TypeOK, Transactional, NEW w \in Runs, Commit(w)
  PROVE  /\ catalog' \subseteq CatalogRow
         /\ \A x \in catalog' : x.entry.id = x.id
         /\ \A x, y \in catalog' : x.id = y.id => x = y
  BY VisibleFacts DEF Commit

LEMMA TypeStep ==
  ASSUME TypeOK, Transactional, Next
  PROVE  TypeOK' /\ Transactional'
<1>1. PICK w \in Runs : Begin(w) \/ Step(w) \/ Fail(w)
  BY DEF Next
\* Sound carries the part of Transactional that speaks of locks and writes.
<1> DEFINE Rest ==
      /\ \A row \in catalog' : row.entry.id = row.id
      /\ \A v \in Runs :
           /\ phase'[v] # "idle" => target'[v] \in Commits
           /\ phase'[v] \notin {"writing", "deleting"} => locks'[v] = {} /\ writes'[v] = {}
<1>2. ASSUME Sound(w), Rest PROVE Transactional'
  BY <1>2 DEF Transactional, Sound, Sane
<1>3. \A v \in Runs :
        /\ phase[v] # "idle" => target[v] \in Commits
        /\ phase[v] \notin {"writing", "deleting"} => locks[v] = {} /\ writes[v] = {}
  BY DEF Transactional
<1>4. \A row \in catalog : row.entry.id = row.id
  BY DEF Transactional
<1>5. CASE Begin(w)
  <2>1. UNCHANGED transaction /\ UNCHANGED <<catalog, changed, doomed, serialised>>
    BY <1>5, BeginFacts
  <2>2. Sound(w)
    BY <2>1, IdleIsSound
  <2>3. TypeOK'
    BY <1>5, <2>1, BeginFacts DEF TypeOK, transaction
  <2>4. Rest
    BY <1>3, <1>4, <1>5, <2>1, BeginFacts DEF transaction
  <2> HIDE DEF Rest
  <2> QED
    BY <1>2, <2>2, <2>3, <2>4
<1>6. CASE ReadExisting(w)
  <2>1. /\ phase[w] = "loaded" /\ phase' \in [Runs -> Phase] /\ phase'[w] = "writing"
        /\ \A v \in Runs \ {w} : phase'[v] = phase[v]
    BY <1>6, EnterFacts DEF ReadExisting, Phase
  <2>2. UNCHANGED <<catalog, target, todo, doomed, transaction, history>>
    BY <1>6 DEF ReadExisting
  <2>3. Sound(w)
    BY <2>2, IdleIsSound
  <2>4. changed' \in [Runs -> SUBSET Entry]
    <3>1. History[target[w]] \subseteq Entry
      BY <2>1, RunFacts
    <3> QED
      BY <1>6, <3>1 DEF ReadExisting, TypeOK
  <2>5. TypeOK'
    BY <2>1, <2>2, <2>4 DEF TypeOK, transaction, history
  <2>6. Rest
    BY <1>3, <1>4, <2>1, <2>2 DEF transaction
  <2> HIDE DEF Rest
  <2> QED
    BY <1>2, <2>3, <2>5, <2>6
<1>7. CASE Relabel(w) \/ Upsert(w)
  <2>1. /\ phase[w] = "writing" /\ todo[w] # <<>>
        /\ todo' = [todo EXCEPT ![w] = Tail(@)]
        /\ UNCHANGED <<catalog, phase, target, changed, doomed, history>>
    BY <1>7 DEF Relabel, Upsert
  <2>2. Sound(w)
    BY <1>7, RelabelIsSound, UpsertIsSound
  <2>3. TypeOK'
    BY <2>1, <2>2, NextTodo DEF TypeOK, Sound, history
  <2>4. Rest
    BY <1>3, <1>4, <2>1, <2>2 DEF Sound
  <2> HIDE DEF Rest
  <2> QED
    BY <1>2, <2>2, <2>3, <2>4
<1>8. CASE StartDelete(w)
  <2>1. /\ phase[w] = "writing" /\ phase' \in [Runs -> Phase] /\ phase'[w] = "deleting"
        /\ \A v \in Runs \ {w} : phase'[v] = phase[v]
    BY <1>8, EnterFacts DEF StartDelete, Phase
  <2>2. UNCHANGED <<catalog, target, changed, todo, transaction, history>>
    BY <1>8 DEF StartDelete
  <2>3. Sound(w)
    BY <2>2, IdleIsSound
  <2>4. doomed' \in [Runs -> SUBSET QueryIds]
    <3>1. \A x \in Visible(w) : x.id \in QueryIds
      BY VisibleFacts DEF CatalogRow
    <3> QED
      BY <1>8, <3>1 DEF StartDelete, TypeOK
  <2>5. TypeOK'
    BY <2>1, <2>2, <2>4 DEF TypeOK, transaction, history
  <2>6. Rest
    BY <1>3, <1>4, <2>1, <2>2 DEF transaction
  <2> HIDE DEF Rest
  <2> QED
    BY <1>2, <2>3, <2>5, <2>6
<1>9. ASSUME NEW id \in QueryIds, DeleteRow(w, id) PROVE TypeOK' /\ Transactional'
  <2>1. /\ phase[w] = "deleting" /\ doomed' = [doomed EXCEPT ![w] = @ \ {id}]
        /\ UNCHANGED <<catalog, phase, target, changed, todo, history>>
    BY <1>9 DEF DeleteRow
  <2>2. Sound(w)
    BY <1>9, DeleteRowIsSound
  <2>3. doomed' \in [Runs -> SUBSET QueryIds]
    BY <2>1 DEF TypeOK
  <2>4. TypeOK'
    BY <2>1, <2>2, <2>3 DEF TypeOK, Sound, history
  <2>5. Rest
    BY <1>3, <1>4, <2>1, <2>2 DEF Sound
  <2> HIDE DEF Rest
  <2> QED
    BY <1>2, <2>2, <2>4, <2>5
<1>10. CASE Commit(w) \/ Fail(w)
  <2>1. \E from \in {"loaded", "writing", "deleting"}, to \in {"done", "failed"} :
          Enter(w, from, to)
    BY <1>10 DEF Commit, Fail
  <2>2. /\ phase[w] # "idle" /\ phase' \in [Runs -> Phase] /\ phase'[w] \in {"done", "failed"}
        /\ \A v \in Runs \ {w} : phase'[v] = phase[v]
    BY <2>1, EnterFacts DEF Phase
  <2>3. EndTransaction(w) /\ UNCHANGED <<work, history>>
    BY <1>10 DEF Commit, Fail
  <2>4. Sound(w) /\ locks'[w] = {} /\ writes'[w] = {}
    BY <2>3, EndIsSane DEF Sound
  <2>5. /\ catalog' \subseteq CatalogRow
        /\ \A x \in catalog' : x.entry.id = x.id
        /\ \A x, y \in catalog' : x.id = y.id => x = y
    <3>1. CASE Commit(w)
      BY <3>1, CommitKeepsKey
    <3>2. CASE Fail(w)
      BY <1>4, <3>2 DEF Fail, TypeOK
    <3> QED
      BY <1>10, <3>1, <3>2
  <2>6. TypeOK'
    BY <2>2, <2>3, <2>4, <2>5 DEF TypeOK, Sound, work, history
  <2>7. Rest
    BY <1>3, <2>2, <2>3, <2>4, <2>5 DEF Sound, work
  <2> HIDE DEF Rest
  <2> QED
    BY <1>2, <2>4, <2>6, <2>7
<1> QED
  BY <1>1, <1>5, <1>6, <1>7, <1>8, <1>9, <1>10 DEF Step

-----------------------------------------------------------------------------
(* Undisturbed runs.                                                       *)

\* Past its start a run changes neither who is disturbed nor who runs beside it.
LEMMA StepFrame ==
  ASSUME TypeOK, NEW w \in Runs, Step(w) \/ Fail(w)
  PROVE  /\ Active(w) /\ UNCHANGED history /\ target' = target
         /\ phase'[w] \in Phase /\ phase'[w] # "loaded"
         /\ \A v \in Runs \ {w} : phase'[v] = phase[v]
<1>1. ASSUME NEW from \in {"loaded", "writing", "deleting"},
             NEW to \in {"writing", "deleting", "done", "failed"}, Enter(w, from, to)
      PROVE  /\ Active(w) /\ phase'[w] \in Phase /\ phase'[w] # "loaded"
             /\ \A v \in Runs \ {w} : phase'[v] = phase[v]
  <2>1. from \in Phase /\ to \in Phase
    BY DEF Phase
  <2>2. phase[w] = from /\ phase'[w] = to /\ \A v \in Runs \ {w} : phase'[v] = phase[v]
    BY <1>1, <2>1, EnterFacts
  <2> QED
    BY <2>1, <2>2 DEF Active
<1>2. CASE ReadExisting(w)
  BY <1>1, <1>2 DEF ReadExisting, history
<1>3. CASE Relabel(w) \/ Upsert(w)
  BY <1>3 DEF Relabel, Upsert, history, Active, Phase
<1>4. CASE StartDelete(w)
  BY <1>1, <1>4 DEF StartDelete, history
<1>5. CASE \E id \in QueryIds : DeleteRow(w, id)
  BY <1>5 DEF DeleteRow, history, Active, Phase
<1>6. CASE Commit(w)
  BY <1>1, <1>6 DEF Commit, work
<1>7. CASE Fail(w)
  BY <1>1, <1>7 DEF Fail, work
<1> QED
  BY <1>2, <1>3, <1>4, <1>5, <1>6, <1>7 DEF Step

\* A run that starts is undisturbed only while it is alone, and disturbs whoever
\* is active.
LEMMA BeginDisturbs ==
  ASSUME TypeOK, NEW u \in Runs, Begin(u), NEW w \in Runs, Undisturbed(w)'
  PROVE  w = u /\ \A v \in Runs \ {u} : ~Active(v) /\ ~Active(v)'
<1> DEFINE others == {v \in Runs : Active(v)}
<1>1. disturbed' = disturbed \union others \union (IF others = {} THEN {} ELSE {u})
  BY DEF Begin
<1>2. \A v \in Runs \ {u} : phase'[v] = phase[v]
  BY BeginFacts
<1>3. Active(w)' /\ w \notin disturbed'
  BY DEF Undisturbed
<1>4. CASE w = u
  <2>1. others = {}
    BY <1>1, <1>3, <1>4
  <2> QED
    BY <1>2, <1>4, <2>1 DEF Active
<1>5. CASE w # u
  <2>1. w \in others
    BY <1>2, <1>3, <1>5 DEF Active
  <2> QED
    BY <1>1, <1>3, <2>1
<1> QED
  BY <1>4, <1>5

LEMMA SolitaryStep ==
  ASSUME TypeOK, Solitary, Next
  PROVE  Solitary'
<1>1. CASE \E u \in Runs : Begin(u)
  <2>1. PICK u \in Runs : Begin(u)
    BY <1>1
  <2>2. serialised' => disturbed' = {}
    <3>1. serialised' = serialised /\ (serialised => \A v \in Runs : ~Active(v))
      BY <2>1 DEF Begin
    <3> QED
      BY <2>1, <3>1 DEF Begin, Solitary
  <2> QED
    BY <2>1, <2>2, BeginDisturbs DEF Solitary
<1>2. CASE \E u \in Runs : Step(u) \/ Fail(u)
  <2>1. PICK u \in Runs : Step(u) \/ Fail(u)
    BY <1>2
  <2>2. /\ UNCHANGED history /\ Active(u) /\ \A v \in Runs \ {u} : phase'[v] = phase[v]
    BY <2>1, StepFrame
  <2>3. \A v \in Runs : Active(v)' => Active(v)
    BY <2>2 DEF Active
  <2> QED
    BY <2>2, <2>3 DEF Solitary, Undisturbed, history
<1> QED
  BY <1>1, <1>2 DEF Next

\* The snapshot of a commit, entry by entry.
LEMMA SnapshotFacts ==
  ASSUME NEW c \in Commits
  PROVE  /\ \A e \in History[c] : Store!Stored(e, c, SourceOf[c]) \in Store!Snapshot(c)
         /\ \A x \in Store!Snapshot(c) :
              /\ x.entry \in History[c] /\ x.id = x.entry.id
              /\ x.source = SourceOf[c] /\ x.commit = c
              /\ x = Store!Stored(x.entry, c, SourceOf[c])
         /\ \A id : id \in Store!Ids(c) <=> \E e \in History[c] : e.id = id
         /\ \A x \in Store!Snapshot(c) : x.id \in Store!Ids(c)
  BY DEF Store!Snapshot, Store!Stored, Store!Ids

\* What its SELECT tells an undisturbed run.
LEMMA ReadOnCourse ==
  ASSUME TypeOK, Transactional, NEW w \in Runs, ReadExisting(w),
         todo[w] = Listing[target[w]]
  PROVE  Writing(w)'
<1> DEFINE c == target[w]
           found == {<<row.id, catalog_hash(row.entry)>> :
                       row \in {x \in catalog : x.source = SourceUrl(w)}}
<1>1. phase[w] = "loaded" /\ UNCHANGED <<catalog, target, todo, transaction>>
  BY DEF ReadExisting, Enter
<1>2. c \in Commits
  BY <1>1, RunFacts
<1>3. locks[w] = {} /\ writes[w] = {}
  BY <1>1 DEF Transactional
<1>4. changed'[w] = {e \in History[c] : <<e.id, catalog_hash(e)>> \notin found}
  BY DEF ReadExisting, TypeOK
<1>5. ASSUME NEW e \in History[c]
      PROVE  <<e.id, catalog_hash(e)>> \in found
               <=> \E row \in catalog : row.source = SourceUrl(w) /\ row.entry = e
  <2>1. ASSUME NEW row \in catalog PROVE row.entry \in Entry /\ row.id = row.entry.id
    BY <2>1 DEF TypeOK, Transactional, CatalogRow
  <2>2. e \in Entry
    BY <1>2, ListingFacts
  <2>3. ASSUME NEW row \in catalog, <<row.id, catalog_hash(row.entry)>> = <<e.id, catalog_hash(e)>>
        PROVE  row.entry = e
    BY <2>1, <2>2, <2>3, HashTellsEntry
  <2> QED
    BY <2>1, <2>3
<1>6. changed'[w] = {e \in History[c] : \A row \in catalog : row.source = SourceUrl(w) => row.entry # e}
  BY <1>4, <1>5
<1>7. UNCHANGED <<locks, writes>> /\ SourceUrl(w)' = SourceUrl(w)
  BY <1>1 DEF transaction, SourceUrl
<1>8. /\ \A i \in 1..Len(todo[w]) : todo[w][i] \in History[c]
      /\ \A e \in History[c] : \E i \in 1..Len(todo[w]) : todo[w][i] = e
  BY <1>2, ListingFacts
<1> QED
  BY <1>1, <1>3, <1>6, <1>7, <1>8 DEF Writing

\* One more query of the commit is written under its lock.
LEMMA WriteOnCourse ==
  ASSUME TypeOK, Transactional, NEW w \in Runs, phase[w] = "writing", Writing(w),
         todo[w] # <<>>, todo' = [todo EXCEPT ![w] = Tail(@)],
         UNCHANGED <<catalog, target, changed>>,
         locks'[w] = locks[w] \union {Head(todo[w]).id},
         writes'[w] = {x \in writes[w] : x.id # Head(todo[w]).id}
                        \union {Store!Stored(Head(todo[w]), target[w], SourceUrl(w))}
  PROVE  Writing(w)'
<1> DEFINE c == target[w]
           e == Head(todo[w])
           new == Store!Stored(e, c, SourceOf[c])
<1>1. c \in Commits /\ todo[w] \in Seq(Entry) /\ SourceUrl(w) = SourceOf[c]
  BY RunFacts
<1>2. /\ Len(todo[w]) \in Nat \ {0} /\ e = todo[w][1] /\ todo'[w] = Tail(todo[w])
      /\ Len(Tail(todo[w])) = Len(todo[w]) - 1
      /\ \A i \in 1..Len(Tail(todo[w])) : Tail(todo[w])[i] = todo[w][i + 1]
  BY <1>1, TodoFacts, NextTodo
<1>3. UNCHANGED <<SourceUrl(w), target, catalog, changed>>
  BY DEF SourceUrl
<1>4. \A i \in 1..Len(todo'[w]) : todo'[w][i] \in History[c]
  <2>1. \A i \in 1..Len(Tail(todo[w])) : i + 1 \in 1..Len(todo[w])
    BY <1>2
  <2> QED
    BY <1>2, <2>1 DEF Writing
<1>5. e \in History[c]
  <2>1. 1 \in 1..Len(todo[w])
    BY <1>2
  <2> QED
    BY <1>2, <2>1 DEF Writing
<1>6. new \in Store!Snapshot(c) /\ new.id = e.id /\ new.entry = e
  BY <1>1, <1>5, SnapshotFacts, StoredFacts, ListingFacts
<1>7. writes'[w] \subseteq Store!Snapshot(c) /\ new \in writes'[w]
  BY <1>1, <1>6 DEF Writing
<1>8. \A id \in locks'[w] : \E x \in writes'[w] : x.id = id
  BY <1>1, <1>6, <1>7 DEF Writing
<1>9. ASSUME NEW f \in History[c]
      PROVE  \/ Store!Stored(f, c, SourceOf[c]) \in writes'[w]
             \/ \E i \in 1..Len(todo'[w]) : todo'[w][i] = f
  <2>1. CASE f = e
    BY <1>7, <2>1
  <2>2. CASE f # e /\ Store!Stored(f, c, SourceOf[c]) \in writes[w]
    <3>1. Store!Stored(f, c, SourceOf[c]).id = f.id /\ f.id # e.id
      BY <1>1, <1>5, <2>2, StoredFacts, ListingFacts
    <3> QED
      BY <2>2, <3>1
  <2>3. CASE f # e /\ \E i \in 1..Len(todo[w]) : todo[w][i] = f
    <3>1. PICK i \in 1..Len(todo[w]) : todo[w][i] = f
      BY <2>3
    <3>2. i # 1
      BY <1>2, <2>3, <3>1
    <3>3. i - 1 \in 1..Len(Tail(todo[w])) /\ (i - 1) + 1 = i
      BY <1>2, <3>2
    <3> QED
      BY <1>2, <3>1, <3>3
  <2> QED
    BY <1>1, <2>1, <2>2, <2>3 DEF Writing
<1> HIDE DEF new, e
<1> QED
  BY <1>1, <1>3, <1>4, <1>7, <1>8, <1>9 DEF Writing

\* A query found unchanged is still there, so that its new label makes it what an
\* upsert would have.
LEMMA RelabelOnCourse ==
  ASSUME TypeOK, Transactional, NEW w \in Runs, Writing(w), Relabel(w)
  PROVE  Writing(w)'
<1> DEFINE c == target[w]
           e == Head(todo[w])
           rows == {x \in Visible(w) : x.id = e.id /\ x.source = SourceUrl(w)}
           new == {[x EXCEPT !.commit = c] : x \in rows}
<1>1. /\ phase[w] = "writing" /\ todo[w] # <<>> /\ e \notin changed[w]
      /\ todo' = [todo EXCEPT ![w] = Tail(@)]
      /\ UNCHANGED <<catalog, phase, target, changed>>
      /\ rows # {} => ~LockedByOther(w, e.id) /\ Write(w, e.id, new)
  BY DEF Relabel
<1>2. /\ c \in Commits /\ SourceUrl(w) = SourceOf[c] /\ todo[w] \in Seq(Entry)
      /\ SourceUrl(w) \in Sources
  BY <1>1, RunFacts
<1>3. e \in History[c] /\ e \in Entry
  <2>1. 1 \in 1..Len(todo[w]) /\ e = todo[w][1] /\ e \in Entry
    BY <1>1, <1>2, TodoFacts
  <2> QED
    BY <2>1 DEF Writing
<1>4. PICK row \in catalog : row.source = SourceUrl(w) /\ row.entry = e
  BY <1>1, <1>3 DEF Writing
<1>5. row.id = e.id
  BY <1>4 DEF Transactional
<1>6. \E x \in rows : x.entry = e
  <2>1. CASE e.id \notin locks[w]
    BY <1>4, <1>5, <2>1 DEF Visible
  <2>2. CASE e.id \in locks[w]
    <3>1. PICK x \in writes[w] : x.id = e.id
      BY <2>2 DEF Writing
    <3>2. x \in Store!Snapshot(c)
      BY <3>1 DEF Writing
    <3>3. x.entry \in History[c] /\ x.entry.id = e.id /\ x.source = SourceOf[c]
      BY <1>2, <3>1, <3>2, SnapshotFacts
    <3>4. x.entry = e
      BY <1>2, <1>3, <3>3, ListingFacts
    <3> QED
      BY <1>2, <3>1, <3>3, <3>4 DEF Visible
  <2> QED
    BY <2>1, <2>2
<1>7. PICK x \in rows : x.entry = e
  BY <1>6
<1>8. rows = {x} /\ x \in CatalogRow /\ x.entry.id = x.id /\ x.source = SourceUrl(w)
  BY <1>7, VisibleFacts
<1>9. new = {Store!Stored(e, c, SourceUrl(w))}
  <2>1. [x EXCEPT !.commit = c] = Store!Stored(e, c, SourceUrl(w))
    BY <1>2, <1>7, <1>8, RelabelFacts
  <2>2. new = {[x EXCEPT !.commit = c]}
    BY <1>8
  <2> HIDE DEF new
  <2> QED
    BY <2>1, <2>2
<1>10. Write(w, e.id, {Store!Stored(e, c, SourceUrl(w))})
  BY <1>1, <1>7, <1>9
<1>11. /\ locks'[w] = locks[w] \union {e.id}
       /\ writes'[w] = {y \in writes[w] : y.id # e.id} \union {Store!Stored(e, c, SourceUrl(w))}
  BY <1>10 DEF Write, TypeOK
<1> QED
  BY <1>1, <1>11, WriteOnCourse

LEMMA UpsertOnCourse ==
  ASSUME TypeOK, Transactional, NEW w \in Runs, Writing(w), Upsert(w)
  PROVE  Writing(w)'
<1>1. Write(w, Head(todo[w]).id, {Store!Stored(Head(todo[w]), target[w], SourceUrl(w))})
  BY DEF Upsert
<1>2. /\ locks'[w] = locks[w] \union {Head(todo[w]).id}
      /\ writes'[w] = {x \in writes[w] : x.id # Head(todo[w]).id}
                         \union {Store!Stored(Head(todo[w]), target[w], SourceUrl(w))}
  BY <1>1 DEF Write, TypeOK
<1> QED
  BY <1>2, WriteOnCourse DEF Upsert

\* With nothing left to write, exactly the snapshot is written; the DELETE finds
\* every other row of its source.
LEMMA StartDeleteOnCourse ==
  ASSUME TypeOK, Transactional, NEW w \in Runs, Writing(w), StartDelete(w)
  PROVE  Deleting(w)'
<1> DEFINE c == target[w]
<1>1. /\ phase[w] = "writing" /\ todo[w] = <<>>
      /\ UNCHANGED <<catalog, target, transaction>>
  BY DEF StartDelete, Enter
<1>2. c \in Commits /\ SourceUrl(w) = SourceOf[c]
  BY <1>1, RunFacts
<1>3. writes[w] = Store!Snapshot(c)
  <2>1. \A i : i \notin 1..Len(todo[w])
    BY <1>1
  <2>2. \A e \in History[c] : Store!Stored(e, c, SourceOf[c]) \in writes[w]
    BY <1>2, <2>1 DEF Writing
  <2>3. Store!Snapshot(c) \subseteq writes[w]
    BY <2>2 DEF Store!Snapshot
  <2> QED
    BY <2>3 DEF Writing
<1>4. locks[w] = Store!Ids(c)
  <2>1. \A id \in locks[w] : id \in Store!Ids(c)
    BY <1>2, <1>3, SnapshotFacts DEF Writing
  <2>2. ASSUME NEW id \in Store!Ids(c) PROVE id \in locks[w]
    <3>1. PICK e \in History[c] : e.id = id
      BY <1>2, SnapshotFacts
    <3>2. Store!Stored(e, c, SourceOf[c]) \in writes[w]
      BY <1>2, <1>3, SnapshotFacts
    <3>3. Store!Stored(e, c, SourceOf[c]).id = id
      BY <3>1 DEF Store!Stored
    <3> QED
      BY <3>2, <3>3 DEF Transactional
  <2> QED
    BY <2>1, <2>2
<1>5. doomed'[w] = {x.id : x \in {y \in Visible(w) : y.source = SourceUrl(w)}} \ Store!Ids(c)
  BY DEF StartDelete, TypeOK, Store!Ids
<1>6. \A row \in catalog : row.source = SourceUrl(w) =>
        row.id \in Store!Ids(c) \union doomed'[w] \union locks[w]
  BY <1>4, <1>5 DEF Visible
<1>7. UNCHANGED <<locks, writes, catalog, target, SourceUrl(w)>>
  BY <1>1 DEF transaction, SourceUrl
<1>8. doomed'[w] \intersect Store!Ids(c) = {}
  BY <1>5
<1> QED
  BY <1>3, <1>4, <1>6, <1>7, <1>8 DEF Deleting

LEMMA DeleteRowOnCourse ==
  ASSUME TypeOK, Transactional, NEW w \in Runs, NEW id \in QueryIds, Deleting(w),
         DeleteRow(w, id)
  PROVE  Deleting(w)'
<1> DEFINE c == target[w]
           ids == Store!Ids(c)
<1>1. /\ phase[w] = "deleting" /\ id \in doomed[w] /\ UNCHANGED <<catalog, target>>
      /\ doomed'[w] = doomed[w] \ {id}
  BY DEF DeleteRow, TypeOK
<1>2. c \in Commits /\ SourceUrl(w) = SourceOf[c] /\ id \notin ids
  BY <1>1, RunFacts DEF Deleting
<1>3. UNCHANGED <<SourceUrl(w), ids>>
  BY <1>1 DEF SourceUrl
<1>4. \A x \in writes[w] : x.id # id
  BY <1>2, SnapshotFacts DEF Deleting
<1>5. CASE \E x \in Visible(w) : x.id = id /\ x.source = SourceUrl(w)
  <2>1. locks'[w] = locks[w] \union {id} /\ writes'[w] = {x \in writes[w] : x.id # id} \union {}
    BY <1>5 DEF DeleteRow, Write, TypeOK
  <2>2. writes'[w] = writes[w]
    BY <1>4, <2>1
  <2>3. \E row \in catalog : row.id = id /\ row.source = SourceUrl(w)
    BY <1>4, <1>5 DEF Visible
  <2> QED
    BY <1>1, <1>2, <1>3, <2>1, <2>2, <2>3 DEF Deleting
<1>6. CASE ~\E x \in Visible(w) : x.id = id /\ x.source = SourceUrl(w)
  <2>1. UNCHANGED <<locks, writes>>
    BY <1>6 DEF DeleteRow, transaction
  <2>2. \A row \in catalog : row.source = SourceUrl(w) /\ row.id = id => id \in locks[w]
    BY <1>6 DEF Visible
  <2> QED
    BY <1>1, <1>2, <1>3, <2>1, <2>2 DEF Deleting
<1> QED
  BY <1>5, <1>6

LEMMA OnCourseStep ==
  ASSUME TypeOK, Transactional, Solitary, OnCourse, Next
  PROVE  OnCourse'
<1> SUFFICES ASSUME NEW w \in Runs, Undisturbed(w)'
             PROVE  /\ phase'[w] = "loaded" => todo'[w] = Listing[target'[w]]
                    /\ phase'[w] = "writing" => Writing(w)'
                    /\ phase'[w] = "deleting" => Deleting(w)'
  BY DEF OnCourse
<1>1. CASE \E u \in Runs : Begin(u)
  <2>1. Begin(w)
    BY <1>1, BeginDisturbs
  <2> QED
    BY <2>1, BeginFacts
<1>2. ASSUME NEW u \in Runs, Step(u) \/ Fail(u), ~(\E v \in Runs : Begin(v))
      PROVE  /\ phase'[w] = "loaded" => todo'[w] = Listing[target'[w]]
             /\ phase'[w] = "writing" => Writing(w)'
             /\ phase'[w] = "deleting" => Deleting(w)'
  <2>1. /\ Active(u) /\ UNCHANGED history /\ phase'[u] # "loaded"
        /\ \A v \in Runs \ {u} : phase'[v] = phase[v]
    BY <1>2, StepFrame
  <2>2. Undisturbed(w)
    BY <2>1 DEF Undisturbed, Active, history
  <2>3. u = w
    BY <2>1, <2>2 DEF Solitary
  <2>4. /\ phase[w] = "loaded" => todo[w] = Listing[target[w]]
        /\ phase[w] = "writing" => Writing(w)
        /\ phase[w] = "deleting" => Deleting(w)
    BY <2>2 DEF OnCourse
  <2>5. phase \in [Runs -> Phase]
    BY DEF TypeOK
  <2>6. CASE ReadExisting(w)
    <3>1. phase[w] = "loaded" /\ phase'[w] = "writing"
      BY <2>5, <2>6 DEF ReadExisting, Enter
    <3> QED
      BY <2>4, <2>6, <3>1, ReadOnCourse
  <2>7. CASE Relabel(w) \/ Upsert(w)
    <3>1. phase[w] = "writing" /\ phase'[w] = "writing"
      BY <2>7 DEF Relabel, Upsert
    <3> QED
      BY <2>4, <2>7, <3>1, RelabelOnCourse, UpsertOnCourse
  <2>8. CASE StartDelete(w)
    <3>1. phase[w] = "writing" /\ phase'[w] = "deleting"
      BY <2>5, <2>8 DEF StartDelete, Enter
    <3> QED
      BY <2>4, <2>8, <3>1, StartDeleteOnCourse
  <2>9. CASE \E id \in QueryIds : DeleteRow(w, id)
    <3>1. phase[w] = "deleting" /\ phase'[w] = "deleting"
      BY <2>9 DEF DeleteRow
    <3> QED
      BY <2>4, <2>9, <3>1, DeleteRowOnCourse
  <2>10. CASE Commit(w) \/ Fail(w)
    <3>1. phase'[w] \in {"done", "failed"}
      BY <2>5, <2>10 DEF Commit, Fail, Enter
    <3> QED
      BY <3>1
  <2> QED
    BY <1>2, <2>3, <2>6, <2>7, <2>8, <2>9, <2>10 DEF Step
<1> QED
  BY <1>1, <1>2 DEF Next

-----------------------------------------------------------------------------
(* The theorems.                                                           *)

LEMMA IndInvStep ==
  IndInv /\ [Next]_vars => IndInv'
<1> SUFFICES ASSUME IndInv, [Next]_vars PROVE IndInv'
  OBVIOUS
<1>1. CASE Next
  BY <1>1, TypeStep, SolitaryStep, OnCourseStep DEF IndInv
<1>2. CASE UNCHANGED vars
  <2>1. /\ UNCHANGED <<catalog, phase, target, changed, todo, doomed, locks, writes>>
        /\ UNCHANGED <<disturbed, serialised>>
    BY <1>2 DEF vars, work, transaction, history
  <2>2. TypeOK' /\ Transactional'
    BY <2>1 DEF IndInv, TypeOK, Transactional
  <2>3. Solitary'
    BY <2>1 DEF IndInv, Solitary, Undisturbed, Active
  <2>4. OnCourse'
    BY <2>1 DEF IndInv, OnCourse, Undisturbed, Active, Writing, Deleting, SourceUrl
  <2> QED
    BY <2>2, <2>3, <2>4 DEF IndInv
<1> QED
  BY <1>1, <1>2

LEMMA IndInvInit ==
  Init => IndInv
<1> SUFFICES ASSUME Init PROVE IndInv
  OBVIOUS
<1>1. <<>> \in Seq(Entry)
  BY EmptySeq
<1>2. TypeOK
  BY <1>1 DEF Init, TypeOK, Phase
<1>3. Transactional
  BY DEF Init, Transactional
<1>4. Solitary /\ OnCourse
  BY DEF Init, Solitary, OnCourse, Undisturbed, Active
<1> QED
  BY <1>2, <1>3, <1>4 DEF IndInv

\* Overlapping transactions keep the primary key and exclude each other row by row,
\* and a run that nobody disturbs has, between any two of its statements, written a
\* part of its snapshot and left the rest to do (sync, lines 140 to 200).
THEOREM Invariance == Spec => []IndInv
<1>1. Spec => []IndInv
  BY IndInvInit, IndInvStep, PTL DEF Spec
<1> QED
  BY <1>1

\* What the transaction of an undisturbed run leaves when it commits.
LEMMA CommitPublishes ==
  ASSUME IndInv, NEW w \in Runs, Commit(w), w \notin disturbed
  PROVE  /\ target[w] \in Commits /\ SourceUrl(w) = SourceOf[target[w]]
         /\ catalog' = {row \in catalog : /\ row.source # SourceOf[target[w]]
                                         /\ row.id \notin Store!Ids(target[w])}
                         \union Store!Snapshot(target[w])
<1> DEFINE c == target[w]
           kept == {row \in catalog : row.source # SourceOf[c] /\ row.id \notin Store!Ids(c)}
<1>1. TypeOK /\ Transactional /\ OnCourse
  BY DEF IndInv
<1>2. phase[w] = "deleting" /\ doomed[w] = {} /\ catalog' = Visible(w)
  BY DEF Commit, Enter
<1>3. c \in Commits /\ SourceUrl(w) = SourceOf[c]
  BY <1>1, <1>2, RunFacts
<1>4. Deleting(w)
  BY <1>1, <1>2 DEF OnCourse, Undisturbed, Active
<1>5. writes[w] = Store!Snapshot(c)
  BY <1>4 DEF Deleting
<1>6. ASSUME NEW row \in catalog
      PROVE  row.id \notin locks[w]
               <=> row.source # SourceOf[c] /\ row.id \notin Store!Ids(c)
  <2>1. CASE row.id \notin locks[w]
    BY <1>2, <1>3, <1>4, <2>1 DEF Deleting
  <2>2. CASE row.id \in locks[w] /\ row.id \notin Store!Ids(c)
    <3>1. PICK r \in catalog : r.id = row.id /\ r.source = SourceUrl(w)
      BY <1>4, <2>2 DEF Deleting
    <3>2. r = row
      BY <1>1, <3>1 DEF TypeOK
    <3> QED
      BY <1>3, <2>2, <3>1, <3>2
  <2> QED
    BY <2>1, <2>2
<1>7. {row \in catalog : row.id \notin locks[w]} = kept
  BY <1>6
<1> HIDE DEF kept
<1>8. catalog' = kept \union Store!Snapshot(c)
  BY <1>2, <1>5, <1>7 DEF Visible
<1> QED
  BY <1>3, <1>8 DEF kept

LEMMA OnlyCommitPublishes ==
  ASSUME Next, catalog' # catalog
  PROVE  \E w \in Runs : Commit(w)
BY DEF Next, Begin, Step, ReadExisting, Relabel, Upsert, StartDelete, DeleteRow, Fail

\* Serialised runs implement the catalog as its readers see it: each one publishes a
\* snapshot whole, or changes nothing.
THEOREM PublishesWhole == Spec => PublishesSnapshots
<1>1. Init => Workflow!Init
  BY DEF Init, Workflow!Init
<1>2. ASSUME IndInv, [Next]_vars
      PROVE  [Workflow!Next]_(IF serialised THEN catalog ELSE {})
  <2>1. CASE catalog' = catalog /\ serialised' = serialised
    BY <2>1
  <2>2. CASE Next /\ catalog' # catalog
    <3>1. PICK w \in Runs : Commit(w)
      BY <2>2, OnlyCommitPublishes
    <3>2. serialised' = serialised
      BY <3>1 DEF Commit, history
    <3>3. CASE serialised
      <4>1. w \notin disturbed
        BY <1>2, <3>3 DEF IndInv, Solitary
      <4>2. Workflow!Publish(target[w])
        <5>1. /\ Workflow!Snapshot(target[w]) = Store!Snapshot(target[w])
              /\ Workflow!Ids(target[w]) = Store!Ids(target[w])
          BY DEF Workflow!Snapshot, Store!Snapshot, Workflow!Ids, Store!Ids,
                 Workflow!Stored, Store!Stored
        <5> QED
          BY <1>2, <3>1, <3>2, <3>3, <4>1, <5>1, CommitPublishes DEF Workflow!Publish
      <4>3. target[w] \in Commits
        BY <1>2, <3>1, <4>1, CommitPublishes
      <4> QED
        BY <4>2, <4>3 DEF Workflow!Next
    <3>4. CASE ~serialised
      BY <3>2, <3>4
    <3> QED
      BY <3>3, <3>4
  <2>3. serialised' = serialised
    <3>1. CASE Next
      BY <1>2, <3>1 DEF Next, Begin, Step, ReadExisting, Relabel, Upsert, StartDelete,
                  DeleteRow, Commit, Fail, history
    <3>2. CASE UNCHANGED vars
      BY <3>2 DEF vars, history
    <3> QED
      BY <1>2, <3>1, <3>2
  <2>4. CASE UNCHANGED vars
    BY <2>1, <2>4 DEF vars, history
  <2> QED
    BY <1>2, <2>1, <2>2, <2>3, <2>4
<1> QED
  BY <1>1, <1>2, Invariance, PTL DEF Spec, PublishesSnapshots, Workflow!Spec

\* A run that nobody disturbed puts its source right, whatever overlapping runs have
\* left behind.
THEOREM UndisturbedRunsHeal == Spec => SoloRunHeals
<1>1. ASSUME IndInv, [Next]_vars, NEW w \in Runs,
             phase[w] = "deleting", phase'[w] = "done", w \notin disturbed
      PROVE  {row \in catalog' : row.source = SourceUrl(w)} = Store!Snapshot(target[w])
  <2>1. phase \in [Runs -> Phase] /\ TypeOK
    BY <1>1 DEF IndInv, TypeOK
  <2>2. Next
    BY <1>1 DEF vars
  <2>3. Commit(w)
    <3>1. PICK u \in Runs : Begin(u) \/ Step(u) \/ Fail(u)
      BY <2>2 DEF Next
    <3>2. u = w
      BY <1>1, <2>1, <3>1, BeginFacts, StepFrame
    <3>3. ~Begin(w) /\ ~Fail(w)
      BY <1>1, <2>1 DEF Begin, Fail, Enter
    <3>4. ~ReadExisting(w) /\ ~StartDelete(w)
      BY <1>1, <2>1 DEF ReadExisting, StartDelete, Enter
    <3>5. ~Relabel(w) /\ ~Upsert(w) /\ ~\E id \in QueryIds : DeleteRow(w, id)
      BY <1>1 DEF Relabel, Upsert, DeleteRow
    <3> QED
      BY <3>1, <3>2, <3>3, <3>4, <3>5 DEF Step
  <2>4. \A x \in Store!Snapshot(target[w]) : x.source = SourceOf[target[w]]
    BY <1>1, <2>3, CommitPublishes, SnapshotFacts
  <2> QED
    BY <1>1, <2>3, <2>4, CommitPublishes
<1>2. ASSUME IndInv, [Next]_vars
      PROVE  [\A w \in Runs : phase[w] = "deleting" /\ phase'[w] = "done" /\ w \notin disturbed =>
                {row \in catalog' : row.source = SourceUrl(w)} = Store!Snapshot(target[w])]_vars
  BY <1>1, <1>2
<1> QED
  BY <1>2, Invariance, PTL DEF Spec, SoloRunHeals

=============================================================================
