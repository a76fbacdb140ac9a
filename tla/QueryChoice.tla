---------------------------- MODULE QueryChoice ----------------------------
(***************************************************************************)
(* Which approved query a prompt is answered with: the access-filtered     *)
(* vector search (app/catalog.py), the demo detail policy and the two      *)
(* selectors (app/chat.py). GovernedChat leaves all of this open.          *)
(*                                                                         *)
(* A prompt is the set of the words the code looks for in it; distances    *)
(* are the order they put the rows in. db/vector-init.sql gives the        *)
(* embedding an HNSW index, so the planner has two ways to run the search. *)
(* Module QueryExecution takes the selected query on to its execution.     *)
(***************************************************************************)
EXTENDS Access, Integers, FiniteSets, FiniteSetsExt, SequencesExt

CONSTANTS
  Situations,  \* what a request may meet: [ranked, role, prompt, selector]
  Limit,       \* limit of CatalogRepository.search
  EfSearch,    \* hnsw.ef_search: how many rows an index scan visits
  None         \* Python's None

Rows == UNION {ToSet(s.ranked) : s \in Situations}

Words == {"asset", "open", "finding"}

\* The checks a request may fail, in their order.
Checks ==
  {"candidates", "parameters", "access", "sql", "hash", "values", "bind", "encoding", "plan",
   "budget"}

\* asset says whether the id contains "asset". The sync writes both columns of a
\* row's role alike; the table lets them differ.
ASSUME SituationsAssumption ==
  /\ \A s \in Situations :
       /\ s.ranked \in Seq(Rows) /\ s.role \in Role
       /\ s.prompt \subseteq Words /\ s.selector \in {"claude", "deterministic"}
  /\ \A row \in Rows : row.minRole \in Role /\ row.minRoleLevel \in 1..3 /\ row.asset \in BOOLEAN
  /\ Limit \in Nat \ {0} /\ EfSearch \in Nat \ {0}
  /\ None \notin Rows /\ None \notin Checks

VARIABLES
  ranked,      \* the rows of the catalog, nearest to the prompt first
  role,        \* identity.role
  prompt,      \* which of Words the prompt contains
  selector,    \* the selector build_services picked
  stage,       \* "search", "select", "fill", and on in QueryExecution; or "refused"
  by,          \* the check that refused
  candidates,  \* what ask hands the selector
  record       \* the candidate ask selected

request == <<ranked, role, prompt, selector>>
choice == <<request, candidates, record>>

Level(row) == ROLE_ACCESS[row.minRole]

\* The first n elements of s, or all of them.
Top(s, n) == SubSeq(s, 1, Min({n, Len(s)}))

\* The rows of s that are in S, in their order: WHERE, and the if of a list
\* comprehension. SelectSeq is opaque to TLAPS, this recursion is not.
Keep(s, S) ==
  LET kept[n \in 0..Len(s)] ==
        IF n = 0 THEN <<>>
        ELSE IF s[n] \in S THEN Append(kept[n - 1], s[n]) ELSE kept[n - 1]
  IN kept[Len(s)]

\* WHERE min_role_level <= $2.
Accessible(x) == {row \in Rows : row.minRoleLevel <= ROLE_ACCESS[x]}
Assets == {row \in Rows : row.asset}
OfLevel(n) == {row \in Rows : Level(row) = n}

\* Mutant of Sorted: the LIMIT before the filter.
SortedThenFiltered(x, s) == Keep(Top(s, Limit), Accessible(x))

\* The search as it is written: filter, then order and limit.
Sorted(x, s) == Top(Keep(s, Accessible(x)), Limit)

\* The same query over the HNSW index (the CTE is inlined): the scan gives the
\* nearest ef_search rows, and the filter is applied to those.
Indexed(x, s) == Top(Keep(Top(s, EfSearch), Accessible(x)), Limit)

Richest(s) == Max({Level(s[i]) : i \in DOMAIN s})

\* Mutant of _apply_demo_detail_policy: all asset queries stay.
AllDetails(words, s) ==
  LET assets == Keep(s, Assets)
  IN IF words # Words \/ assets = <<>> THEN s ELSE assets

_apply_demo_detail_policy(words, s) ==
  LET assets == Keep(s, Assets)
  IN IF words # Words \/ assets = <<>> THEN s ELSE Keep(assets, OfLevel(Richest(assets)))

\* max over the matches by level: the first of the richest.
Deterministic(words, s) ==
  LET matches == IF {"asset", "open"} \subseteq words THEN Keep(s, Assets) ELSE <<>>
      pool == IF matches = <<>> THEN Top(s, 1) ELSE matches
  IN Head(Keep(pool, OfLevel(Richest(pool))))

-----------------------------------------------------------------------------
Refuse(check) ==
  /\ stage' = "refused" /\ by' = check

ChoiceInit ==
  /\ \E s \in Situations :
       ranked = s.ranked /\ role = s.role /\ prompt = s.prompt /\ selector = s.selector
  /\ stage = "search"
  /\ by = None
  /\ candidates = <<>>
  /\ record = None

\* search returns, and ask narrows the result.
SearchReturns ==
  /\ stage = "search" /\ stage' = "select"
  /\ \E found \in {Sorted(role, ranked), Indexed(role, ranked)} :
       candidates' = _apply_demo_detail_policy(prompt, found)
  /\ UNCHANGED <<request, by, record>>

\* select names a candidate: Claude any of them.
Select ==
  /\ stage = "select" /\ stage' = "fill"
  /\ candidates # <<>>
  /\ record' \in IF selector = "claude" THEN ToSet(candidates)
                 ELSE {Deterministic(prompt, candidates)}
  /\ UNCHANGED <<request, by, candidates>>

\* No candidates, or an id outside them.
SelectNone ==
  /\ stage = "select" /\ Refuse("candidates")
  /\ selector = "claude" \/ candidates = <<>>
  /\ UNCHANGED choice

ChoiceNext == SearchReturns \/ Select \/ SelectNone

-----------------------------------------------------------------------------
(* Correctness, in states of QueryExecution.                              *)

Visible == Keep(ranked, Accessible(role))

\* An index scan, if the planner takes one, visits the whole catalog.
Scanned == Len(ranked) <= EfSearch

\* What the caller's role may not see has no influence on what it is offered:
\* with those rows gone from the catalog, the candidates are the same
\* (catalog.py:20 "Authorization is filtered before the distance expression
\* ranks candidates"); by the index only in a catalog no larger than a scan.
HiddenRowsDoNotMatter ==
  stage \notin {"search", "refused"} /\ Scanned =>
    candidates = _apply_demo_detail_policy(prompt, Sorted(role, Visible))

\* Nothing between the search and the record loses the query to be preferred. A
\* prompt about open assets gets the richest asset query the role may use
\* (chat.py:112-114, tests/test_chat.py), the nearest of those from the
\* deterministic selector, as long as the LIMIT cuts nothing off; and that
\* selector's "No accessible approved query matched" is true.
RichestAssetQuery ==
  LET assets == Keep(Visible, Assets)
      richest == Keep(assets, OfLevel(Richest(assets)))
  IN Scanned =>
       /\ /\ stage = "fill" /\ Len(Visible) <= Limit /\ assets # <<>>
          /\ {"asset", "open"} \subseteq prompt
          /\ selector = "deterministic" \/ "finding" \in prompt
          => /\ record \in ToSet(richest)
             /\ selector = "deterministic" => record = Head(richest)
       /\ by = "candidates" /\ selector = "deterministic" => Visible = <<>>

=============================================================================
