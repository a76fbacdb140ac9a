---------------------------- MODULE CatalogStore ----------------------------
(***************************************************************************)
(* What the catalog is to those who read it: for each source repository,   *)
(* the queries of one of its commits, whole and labelled with that commit, *)
(* or nothing before the first sync. A sync replaces the rows of one       *)
(* source by those of another commit in one step; an id that two sources   *)
(* use belongs to the one that was synced last.                            *)
(***************************************************************************)
EXTENDS Domain

CONSTANTS
  Sources,   \* source URLs
  SourceOf   \* the source a commit belongs to

VARIABLE catalog

\* An approved query in the catalog. The entry stands for the columns an
\* upsert writes together: text, hashes, role, documentation, embedding.
Stored(e, c, s) == [id |-> e.id, entry |-> e, commit |-> c, source |-> s]

Snapshot(c) == {Stored(e, c, SourceOf[c]) : e \in History[c]}

Init == catalog = {}

Ids(c) == {e.id : e \in History[c]}

Publish(c) ==
  catalog' = {row \in catalog : row.source # SourceOf[c] /\ row.id \notin Ids(c)}
               \union Snapshot(c)

Next == \E c \in Commits : Publish(c)

Spec == Init /\ [][Next]_catalog

=============================================================================
