--------------------------- MODULE QueryExecution ---------------------------
(***************************************************************************)
(* What stands between a prompt and the execution of a query: its choice   *)
(* (module QueryChoice), the parameters the selector fills in              *)
(* (app/chat.py), the statement and parameter contracts                    *)
(* (app/sql_validation.py, app/executor.py), the binding of named          *)
(* parameters to positions, and the estimate read out of the plan.         *)
(*                                                                         *)
(* A text is what the code tells apart in it: whether it looks like an     *)
(* integer, another number, "nan", an affirmation, an ISO date or an ISO   *)
(* time, the number it denotes, and its length. A value is its Python type and its   *)
(* magnitude: the number, a string's length, 1 and 0 for a boolean.        *)
(***************************************************************************)
EXTENDS QueryChoice

CONSTANTS
  Offers,       \* Offers[names]: parameter objects the model may return for these
  Texts,        \* words a prompt may give for a parameter
  Plans,        \* Plans[sql]: plans the planner may return for a statement
  MaxPlanRows,  \* query_max_plan_rows
  MaxPlanCost,  \* query_max_plan_cost
  NaN           \* float("nan")

\* A row is [id, minRole, minRoleLevel, asset, sql, specs, intact]: the two columns
\* of its role, its statement, the declared parameters, and whether its text still
\* has its hash.
\* The declarations come from a jsonb column: finite, and their numbers no NaN.
ASSUME RecordsAssumption ==
  \A row \in Rows :
    /\ row.sql \in Seq([kind : {"text", "colon", "psycopg"}, name : STRING])
    /\ row.sql \in DOMAIN Plans
    /\ DOMAIN row.specs \in DOMAIN Offers /\ IsFiniteSet(DOMAIN row.specs)
    /\ \A name \in DOMAIN row.specs : row.specs[name] # None =>
         /\ row.specs[name].minimum \in Int \union {None}
         /\ row.specs[name].maximum \in Int \union {None}
         /\ row.specs[name].default # None => row.specs[name].default.is \in Int

\* A NaN, however, is among what Python reads as a float or as JSON.
ASSUME ValuesAssumption ==
  /\ NaN \notin Int
  /\ \A text \in Texts : text.number \in Int /\ text.length \in Int
  /\ \A names \in DOMAIN Offers : \A values \in Offers[names] :
       /\ IsFiniteSet(DOMAIN values)
       /\ \A name \in DOMAIN values : values[name].is \in Int \union {NaN}

\* rows, parent, dict and list number the nodes of a plan alike; cost is the root's.
ASSUME PlansAssumption ==
  /\ MaxPlanRows \in Int /\ MaxPlanCost \in Int /\ None \notin Int
  /\ \A sql \in DOMAIN Plans : \A p \in Plans[sql] :
       /\ p.rows \in Seq(Int \union {None}) /\ p.rows # <<>> /\ p.cost \in Int \union {None}
       /\ \A k \in DOMAIN p.rows : /\ p.dict[k] \in BOOLEAN /\ p.list[k] \in BOOLEAN
                                   /\ k > 1 => p.parent[k] \in 1..(k - 1)

VARIABLES
  parameters,  \* parameters of ask
  statement,   \* what bind_query returned: a position for each marker, and arguments
  plan         \* what EXPLAIN returned

vars == <<choice, stage, by, parameters, statement, plan>>

-----------------------------------------------------------------------------
(* Filling in parameters: DeterministicIntentSelector.                     *)

Value(type, is) == [type |-> type, is |-> is]

\* A string that date.fromisoformat accepts has the type "isodate" here, one that
\* only datetime.fromisoformat accepts "isodatetime".
AsString(text) ==
  Value(IF text.looks \in {"isodate", "isodatetime"} THEN text.looks ELSE "string", text.length)

\* A specification that is no dict is taken for a string.
Typed(spec) == spec # None

\* None where int or float raises ValueError.
_coerce(text, spec) ==
  CASE Typed(spec) /\ spec.type = "integer" ->
         IF text.looks = "integer" THEN Value("integer", text.number) ELSE None
    [] Typed(spec) /\ spec.type = "number" ->
         IF text.looks = "nan" THEN Value("number", NaN)
         ELSE IF text.looks \in {"integer", "decimal"} THEN Value("number", text.number)
         ELSE None
    [] Typed(spec) /\ spec.type = "boolean" ->
         Value("boolean", IF text.looks = "yes" THEN 1 ELSE 0)
    [] OTHER -> AsString(text)

\* The value found for a name: after its own name, by the form of its value
\* (cve_id and severity only), or its default.
Found(wording, name, spec) ==
  IF wording.named[name] # None THEN _coerce(wording.named[name], spec)
  ELSE IF name \in {"cve_id", "severity"} /\ wording.spotted # None
       THEN AsString(wording.spotted)
  ELSE IF Typed(spec) THEN spec.default
  ELSE None

\* select's parameters, or none if it raises ValueError for one of them.
FilledIn(wording, rec) ==
  LET values == [name \in DOMAIN rec.specs |-> Found(wording, name, rec.specs[name])]
  IN IF \E name \in DOMAIN values : values[name] = None THEN {} ELSE {values}

\* What a prompt says for a query's parameters.
Wordings(rec) ==
  [named : [DOMAIN rec.specs -> Texts \union {None}], spotted : Texts \union {None}]

-----------------------------------------------------------------------------
(* The checks of execute.                                                  *)

\* The names of the markers in a statement, in either notation.
extract_parameters(sql) ==
  {sql[i].name : i \in {j \in DOMAIN sql : sql[j].kind \in {"colon", "psycopg"}}}

\* Mutant of validate_approved_sql: unused declarations are accepted.
ValidateUndeclaredOnly(rec) == extract_parameters(rec.sql) \subseteq DOMAIN rec.specs

\* One SELECT, as it was at the sync, with exactly the declared parameters.
validate_approved_sql(rec) == extract_parameters(rec.sql) = DOMAIN rec.specs

Accepts ==
  [string |-> {"string", "isodate", "isodatetime"}, integer |-> {"integer"},
   number |-> {"integer", "number"}, boolean |-> {"boolean"}, array |-> {"array"},
   date |-> {"isodate"}, datetime |-> {"isodate", "isodatetime"}]

\* Python's order: every comparison with a NaN is false.
LessThan(m, n) == m # NaN /\ n # NaN /\ m < n

\* Mutant of Refused: the maximum is not looked at.
RefusedBelow(spec, v) ==
  \/ spec.type \notin DOMAIN Accepts \/ v.type \notin Accepts[spec.type]
  \/ spec.allowed # None /\ v.is \notin spec.allowed
  \/ spec.minimum # None /\ LessThan(v.is, spec.minimum)

\* The contract of one parameter (enum and pattern: allowed; the bounds of a
\* string are those of its length).
Refused(spec, v) ==
  \/ spec.type \notin DOMAIN Accepts \/ v.type \notin Accepts[spec.type]
  \/ spec.allowed # None /\ v.is \notin spec.allowed
  \/ spec.minimum # None /\ LessThan(v.is, spec.minimum)
  \/ spec.maximum # None /\ LessThan(spec.maximum, v.is)

validate_parameter_values(specs, values) ==
  /\ DOMAIN values = DOMAIN specs
  /\ \A name \in DOMAIN specs : Typed(specs[name]) =>
       \/ values[name].type = "null" /\ ~specs[name].required
       \/ ~Refused(specs[name], values[name])

-----------------------------------------------------------------------------
(* bind_query: a pass over the colon markers, then one over the others,    *)
(* with the positions given so far.                                        *)

Slot(bound, name) ==
  IF name \in DOMAIN bound.positions THEN bound.positions[name]
  ELSE Len(bound.arguments) + 1

Replace(bound, values, i, name) ==
  LET slot == Slot(bound, name)
  IN [slots     |-> [bound.slots EXCEPT ![i] = slot],
      positions |-> [n \in DOMAIN bound.positions \union {name} |->
                       IF n = name THEN slot ELSE bound.positions[n]],
      arguments |-> IF name \in DOMAIN bound.positions THEN bound.arguments
                    ELSE Append(bound.arguments, values[name])]

Pass(kind, sql, values, bound) ==
  LET after[n \in 0..Len(sql)] ==
        IF n = 0 THEN bound
        ELSE IF sql[n].kind = kind THEN Replace(after[n - 1], values, n, sql[n].name)
        ELSE after[n - 1]
  IN after[Len(sql)]

Unbound(sql) ==
  [slots |-> [i \in DOMAIN sql |-> 0], positions |-> [n \in {} |-> 0], arguments |-> <<>>]

\* Mutant of bind_query: the second pass does not know the positions of the first.
BindTwice(sql, values) ==
  LET one == Pass("colon", sql, values, Unbound(sql))
  IN Pass("psycopg", sql, values, [one EXCEPT !.positions = [n \in {} |-> 0]])

bind_query(sql, values) ==
  Pass("psycopg", sql, values, Pass("colon", sql, values, Unbound(sql)))

-----------------------------------------------------------------------------
(* parse_plan_estimate. The nodes of a plan are numbered from its root, a  *)
(* parent before its children; "Plans" may be no list, an element of it no *)
(* dict.                                                                   *)

Children(p, k) == {c \in DOMAIN p.rows : c > k /\ p.parent[c] = k /\ p.dict[c]}

\* Neither KeyError nor ValueError on the way down.
Estimated(p) ==
  LET ok[k \in DOMAIN p.rows] ==
        p.rows[k] # None /\ p.list[k] /\ \A c \in Children(p, k) : ok[c]
  IN p.dict[1] /\ p.cost # None /\ ok[1]

\* Mutant of _max_plan_rows: the estimate of the root.
RootRows(p) == p.rows[1]

_max_plan_rows(p) ==
  LET most[k \in DOMAIN p.rows] == Max({p.rows[k]} \union {most[c] : c \in Children(p, k)})
  IN most[1]

OverBudget(p) == p.cost > MaxPlanCost \/ _max_plan_rows(p) > MaxPlanRows

-----------------------------------------------------------------------------
Init ==
  /\ ChoiceInit
  /\ parameters = None
  /\ statement = None
  /\ plan = None

Choose == ChoiceNext /\ UNCHANGED <<parameters, statement, plan>>

\* The deterministic selector finds every parameter, or raises ValueError.
FillFromPrompt ==
  /\ stage = "fill" /\ stage' = "execute"
  /\ selector = "deterministic"
  /\ \E wording \in Wordings(record) : \E values \in FilledIn(wording, record) :
       parameters' = values
  /\ UNCHANGED <<choice, by, statement, plan>>

FillInVain ==
  /\ stage = "fill" /\ Refuse("parameters")
  /\ selector = "deterministic"
  /\ \E wording \in Wordings(record) : FilledIn(wording, record) = {}
  /\ UNCHANGED <<choice, parameters, statement, plan>>

\* Claude returns any object.
FillByModel ==
  /\ stage = "fill" /\ stage' = "execute"
  /\ selector = "claude"
  /\ parameters' \in Offers[DOMAIN record.specs]
  /\ UNCHANGED <<choice, by, statement, plan>>

\* execute up to its first await: the first check that fails raises.
Approved ==
  can_access(role, record.minRole) /\ validate_approved_sql(record) /\ record.intact

RefuseStatement ==
  /\ stage = "execute" /\ ~Approved
  /\ Refuse(CASE ~can_access(role, record.minRole) -> "access"
              [] ~validate_approved_sql(record) -> "sql"
              [] OTHER -> "hash")
  /\ UNCHANGED <<choice, parameters, statement, plan>>

RefuseValues ==
  /\ stage = "execute" /\ Approved /\ Refuse("values")
  /\ ~validate_parameter_values(record.specs, parameters)
  /\ UNCHANGED <<choice, parameters, statement, plan>>

Bind ==
  /\ stage = "execute" /\ Approved
  /\ validate_parameter_values(record.specs, parameters)
  /\ IF DOMAIN parameters = extract_parameters(record.sql)
     THEN /\ stage' = "explain"
          /\ statement' = bind_query(record.sql, parameters)
          /\ UNCHANGED by
     ELSE Refuse("bind") /\ UNCHANGED statement
  /\ UNCHANGED <<choice, parameters, plan>>

\* The driver takes a datetime.date for a date and a datetime.datetime for a
\* timestamp, and the value is still a string.
Encodes(name) ==
  ~(/\ Typed(record.specs[name]) /\ record.specs[name].type \in {"date", "datetime"}
    /\ parameters[name].type \in {"isodate", "isodatetime"})

\* EXPLAIN is sent with the arguments, and its result read.
EncodingFails ==
  /\ stage = "explain" /\ Refuse("encoding")
  /\ \E name \in DOMAIN parameters : ~Encodes(name)
  /\ UNCHANGED <<choice, parameters, statement, plan>>

Explain ==
  /\ stage = "explain"
  /\ \A name \in DOMAIN parameters : Encodes(name)
  /\ \E p \in Plans[record.sql] :
       /\ plan' = p
       /\ IF ~Estimated(p) THEN Refuse("plan")
          ELSE IF OverBudget(p) THEN Refuse("budget")
          ELSE stage' = "fetch" /\ UNCHANGED by
  /\ UNCHANGED <<choice, parameters, statement>>

Next ==
  \/ Choose \/ FillFromPrompt \/ FillInVain \/ FillByModel
  \/ RefuseStatement \/ RefuseValues \/ Bind
  \/ EncodingFails \/ Explain

Spec == Init /\ [][Next]_vars

-----------------------------------------------------------------------------
(* Correctness.                                                            *)

Sent == stage \in {"explain", "fetch"} \/ by \in {"encoding", "plan", "budget"}

Markers == {i \in DOMAIN record.sql : record.sql[i].kind \in {"colon", "psycopg"}}

\* Every variable keeps its shape (checked with SecondChecksSilent).
TypeOK ==
  /\ stage \in {"search", "select", "fill", "execute", "explain", "fetch", "refused"}
  /\ by \in Checks \union {None}
  /\ candidates \in Seq(Rows) /\ Len(candidates) <= Limit
  /\ record \in Rows \union {None}
  /\ parameters # None => IsFiniteSet(DOMAIN parameters)
  /\ Sent => \A i \in Markers : statement.slots[i] \in DOMAIN statement.arguments
  /\ plan # None => plan \in Plans[record.sql]

\* Whichever notations a statement mixes and however often it repeats a name,
\* each marker refers to the value of its own name, one position per name, and
\* no argument is left without a marker (tests/test_executor.py: the values are
\* bound, never interpolated).
BindingFaithful ==
  Sent =>
    /\ \A i \in Markers : statement.arguments[statement.slots[i]] = parameters[record.sql[i].name]
    /\ \A i, j \in Markers : statement.slots[i] = statement.slots[j]
                               <=> record.sql[i].name = record.sql[j].name
    /\ \A k \in DOMAIN statement.arguments : \E i \in Markers : statement.slots[i] = k

\* The checks that come second. execute's access check (min_role) follows the
\* search's filter (min_role_level): it fires only where the two columns of the row
\* disagree, and what is sent satisfies both. bind_query's comparison of names
\* follows that of the statement and that of the values with the declarations, and
\* never fires: no approved query is refused for a disagreement among these three.
SecondChecksSilent ==
  /\ TypeOK
  /\ by = "access" => record.minRoleLevel # ROLE_ACCESS[record.minRole]
  /\ Sent => record.minRoleLevel <= ROLE_ACCESS[role] /\ can_access(role, record.minRole)
  /\ by # "bind"

\* The declared contract, said outright.
InContract(spec, v) ==
  \/ v.type = "null" /\ ~spec.required
  \/ /\ v.type \in Accepts[spec.type]
     /\ spec.allowed # None => v.is \in spec.allowed
     /\ spec.minimum # None => v.is >= spec.minimum
     /\ spec.maximum # None => v.is <= spec.maximum

Argument(i) == statement.arguments[statement.slots[i]]
Specification(i) == record.specs[record.sql[i].name]

\* tests/test_executor.py:49 "test_parameter_contract_constraints_are_enforced":
\* the value each marker is sent with satisfies the declaration of its name, but
\* for a NaN, which every minimum and maximum lets through.
ContractEnforced ==
  Sent => \A i \in Markers :
    Typed(Specification(i)) /\ Argument(i).is # NaN => InContract(Specification(i), Argument(i))

\* README.md:126 offers "as_of_date 2026-09-10" as a prompt and README.md:87
\* declares a date: a value that meets its contract reaches the planner.
ValidDatesRun == by # "encoding"

\* The nodes _max_plan_rows comes by: dicts all the way up to the root.
Counted(p) ==
  CHOOSE S \in SUBSET DOMAIN p.rows :
    \A k \in DOMAIN p.rows : k \in S <=> p.dict[k] /\ (k = 1 \/ p.parent[k] \in S)

\* A query runs only if its plan's cost is within the budget and no node of it is
\* estimated above its rows, and is refused over budget only if the cost or one node
\* is (tests/test_executor.py: the largest estimate may be below the root; the cost
\* alone may refuse).
BudgetSeesEveryNode ==
  /\ stage = "fetch" =>
       /\ plan.cost # None /\ plan.cost <= MaxPlanCost
       /\ \A k \in Counted(plan) : plan.rows[k] # None /\ plan.rows[k] <= MaxPlanRows
  /\ by = "budget" =>
       plan.cost > MaxPlanCost \/ \E k \in Counted(plan) : plan.rows[k] > MaxPlanRows

=============================================================================
