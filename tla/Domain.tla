------------------------------- MODULE Domain -------------------------------
(***************************************************************************)
(* The vocabulary of the catalog: content hashes (app/sql_validation.py,   *)
(* app/sync.py), and the row of approved_queries (db/vector-init.sql)      *)
(* reduced to the columns that decide access, integrity and provenance.    *)
(*                                                                         *)
(* The approved-query repository is a constant: History[c] is the set of   *)
(* entries that load_queries returns for the checkout at commit c.         *)
(***************************************************************************)
EXTENDS Access, Naturals, FiniteSets

CONSTANTS
  QueryIds,  \* ids of approved queries
  SqlTexts,  \* SQL texts, approved or not, that a catalog row can hold
  Commits,   \* commits of the approved-query repository
  History    \* History[c]: the entries load_queries accepts at commit c

\* One entry of the metadata files together with the SQL file it names.
Entry == [id : QueryIds, sql : SqlTexts, minRole : Role]

\* SHA-256 over the normalised text: texts are taken up to that normalisation
\* (line ends, surrounding blanks) and the digest as collision-free.
content_hash(text) == [sha256 |-> text]

Digest == {content_hash(text) : text \in SqlTexts}

\* The digest over an entry's metadata and the digest of its SQL. It covers
\* neither the commit nor the path of the SQL file.
catalog_hash(e) ==
  [sha256 |-> [id |-> e.id, minRole |-> e.minRole, sqlHash |-> content_hash(e.sql)]]

CatalogDigest == {catalog_hash(e) : e \in Entry}

Row == [id : QueryIds, sql : SqlTexts, sqlHash : Digest,
        catalogHash : CatalogDigest, minRole : Role, minRoleLevel : 1..3,
        commit : Commits]

\* What the INSERT ... ON CONFLICT DO UPDATE of a sync at commit c stores.
FreshRow(e, c) ==
  [id |-> e.id, sql |-> e.sql, sqlHash |-> content_hash(e.sql),
   catalogHash |-> catalog_hash(e), minRole |-> e.minRole,
   minRoleLevel |-> ROLE_ACCESS[e.minRole], commit |-> c]

\* load_queries returns typed entries and refuses a duplicate id.
ASSUME HistoryAssumption ==
  /\ History \in [Commits -> SUBSET Entry]
  /\ \A c \in Commits : \A e, f \in History[c] : e.id = f.id => e = f

=============================================================================
