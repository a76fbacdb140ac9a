-------------------------- MODULE MCQueryExecution --------------------------
(***************************************************************************)
(* Small instances of QueryExecution.                                      *)
(***************************************************************************)
EXTENDS QueryExecution

Text(looks, number, length) == [looks |-> looks, number |-> number, length |-> length]

SomeTexts ==
  {Text("integer", 3, 1), Text("integer", 50, 2), Text("decimal", 1, 3), Text("nan", 0, 3),
   Text("yes", 0, 3), Text("isodate", 0, 10), Text("isodatetime", 0, 13), Text("word", 0, 4)}

\* A specification; anything may be missing but the type.
Declared(type, required, allowed, minimum, maximum, default) ==
  [type |-> type, required |-> required, allowed |-> allowed, minimum |-> minimum,
   maximum |-> maximum, default |-> default]

RowLimit == Declared("integer", TRUE, None, 1, 9, Value("integer", 5))
Score == Declared("number", FALSE, None, 1, 9, None)
Severity == Declared("string", TRUE, {3, 4}, None, 4, None)
Since == Declared("date", TRUE, None, None, None, None)
At == Declared("datetime", TRUE, None, None, None, None)
Flag == Declared("boolean", FALSE, None, None, None, None)
Misspelt == Declared("float", TRUE, None, None, None, None)

Word == [kind |-> "text", name |-> "SELECT"]
Colon(name) == [kind |-> "colon", name |-> name]
Psycopg(name) == [kind |-> "psycopg", name |-> name]

-----------------------------------------------------------------------------
(* Catalogs of up to five queries without parameters, in any order: an     *)
(* asset query per role, another of the middle role that only the level    *)
(* opens to viewers, and one other that only the level closes to them.     *)

Simple == <<Word>>

Query(id, minRole, minRoleLevel, asset) ==
  [id |-> id, minRole |-> minRole, minRoleLevel |-> minRoleLevel, asset |-> asset,
   sql |-> Simple, specs |-> [n \in {} |-> None], intact |-> TRUE]

Simples ==
  {Query("A1", "viewer", 1, TRUE), Query("A2", "analyst", 2, TRUE), Query("B2", "analyst", 1, TRUE),
   Query("A3", "admin", 3, TRUE), Query("O1", "viewer", 2, FALSE)}

Ranked == [ranked : UNION {SetToSeqs(S) : S \in SUBSET Simples}, role : Role,
           prompt : SUBSET {"asset", "open", "finding"}, selector : {"claude", "deterministic"}]

-----------------------------------------------------------------------------
(* Catalogs of one query, for a viewer.                                    *)

Single(sql, specs, intact) ==
  [id |-> "P", minRole |-> "viewer", minRoleLevel |-> 1, asset |-> FALSE, sql |-> sql,
   specs |-> specs, intact |-> intact]

Alone(rows) ==
  [ranked : {<<row>> : row \in rows}, role : {"viewer"}, prompt : {{}},
   selector : {"claude", "deterministic"}]

\* Statements in one notation or both, each name up to three times.
Mixed ==
  {<<Word, Colon("limit"), Psycopg("severity"), Colon("limit")>>,
   <<Psycopg("limit"), Colon("severity"), Psycopg("severity"), Colon("limit")>>,
   <<Psycopg("severity"), Word, Psycopg("limit")>>,
   <<Word, Colon("severity")>>}

\* The declarations a catalog row may carry for them: fitting, missing, superfluous.
Declarations ==
  UNION {[names -> {RowLimit, Score, Severity, Since, At, Flag, Misspelt, None}] :
           names \in SUBSET {"limit", "severity"}}

Parameterised ==
  {Single(sql, specs, intact) : sql \in Mixed, intact \in BOOLEAN,
     specs \in {d \in Declarations :
       /\ "limit" \in DOMAIN d => d["limit"] \in {RowLimit, Score, None}
       /\ "severity" \in DOMAIN d => d["severity"] \in {Severity, Since, At, Flag, Misspelt, None}}}

Dated == {Single(<<Word, Colon("severity")>>, [n \in {"severity"} |-> Since], TRUE)}

SomeValues ==
  {Value("integer", 0), Value("integer", 9), Value("integer", 10), Value("number", 5),
   Value("number", NaN), Value("string", 4), Value("string", 5), Value("isodate", 10),
   Value("isodatetime", 13),
   Value("boolean", 1), Value("null", 0), Value("array", 1)}

\* Objects with fitting, missing and superfluous keys.
OffersSome ==
  [D \in SUBSET {"limit", "severity"} |->
     IF D = {} THEN {[n \in {} |-> None], [n \in {"limit"} |-> Value("integer", 9)]}
     ELSE UNION {[C -> SomeValues] : C \in SUBSET {"limit", "severity"}}
            \union [D \union {"sql"} -> {Value("string", 4)}]]

-----------------------------------------------------------------------------
(* Plans: one statement is planned in every way of up to three nodes, and  *)
(* in every shape of four.                                                 *)

\* Parents before children, a "Plans" that is no list, an element of it that is no
\* dict, an estimate that is missing.
Trees(n, lists, costs) ==
  [parent : {f \in [1..n -> 0..n] : f[1] = 0 /\ \A k \in 2..n : f[k] \in 1..(k - 1)},
   dict : [1..n -> BOOLEAN], list : [1..n -> lists], rows : [1..n -> {1, 3, None}], cost : costs]

Joined == <<Word, Word>>

PlansSome ==
  [sql \in {Simple, Joined} \union Mixed |->
     IF sql = Joined
     THEN Trees(4, {TRUE}, {1}) \union UNION {Trees(n, BOOLEAN, {1, 3, None}) : n \in 1..3}
     ELSE {[parent |-> <<0>>, dict |-> <<TRUE>>, list |-> <<TRUE>>, rows |-> <<1>>, cost |-> 1]}]

-----------------------------------------------------------------------------
SituationsAll ==
  Ranked \union Alone(Parameterised) \union Alone({Single(Joined, [n \in {} |-> None], TRUE)})

SituationsDated == Alone(Dated)

=============================================================================
