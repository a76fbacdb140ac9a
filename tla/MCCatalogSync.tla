--------------------------- MODULE MCCatalogSync ----------------------------
(***************************************************************************)
(* Small instances of CatalogSync: three commits of source A, one of B.    *)
(***************************************************************************)
EXTENDS CatalogSync, TLC

CONSTANTS a, b, a1, a2, a3, b1, q1, q2, s1, s2

e1 == [id |-> q1, sql |-> s1, minRole |-> "viewer"]
e1revised == [id |-> q1, sql |-> s2, minRole |-> "viewer"]
e2 == [id |-> q2, sql |-> s1, minRole |-> "admin"]

\* a2 drops q2; a3 revises q1 and lists the two the other way round.
RevisionsOfA == (a1 :> <<e1, e2>>) @@ (a2 :> <<e1>>) @@ (a3 :> <<e2, e1revised>>)

\* B has a query with the id of one of A's.
ListingOf == RevisionsOfA @@ (b1 :> <<e1revised>>)

HistoryOf ==
  [c \in DOMAIN ListingOf |-> {ListingOf[c][i] : i \in DOMAIN ListingOf[c]}]

SourceOfCommit == (a1 :> a) @@ (a2 :> a) @@ (a3 :> a) @@ (b1 :> b)

=============================================================================
