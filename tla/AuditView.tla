----------------------------- MODULE AuditView -----------------------------
(***************************************************************************)
(* GET /api/audit/recent (app/main.py, app/audit.py) beside the writes of  *)
(* the chat endpoint: what a caller is shown of audit_events. An event is  *)
(* dated when its INSERT starts and visible once it has committed, so      *)
(* events can appear out of the order of their dates.                      *)
(***************************************************************************)
EXTENDS Access, FiniteSets

CONSTANTS
  Requests,    \* chat requests, and the events they write
  Identities,  \* callers: [user, org]
  By,          \* By[r]: the identity that sends request r
  Limit,       \* limit of AuditRepository.recent
  MaxClock,    \* bound on the clock
  None

ASSUME ViewAssumption ==
  /\ IsFiniteSet(Requests) /\ None \notin Nat
  /\ By \in [Requests -> Identities]
  /\ \A i, j \in Identities : i.user = j.user /\ i.org = j.org => i = j
  /\ Limit \in Nat \ {0} /\ MaxClock \in Nat

VARIABLES
  clock,       \* now()
  created_at,  \* when the INSERT of a request's event started
  audit,       \* the requests whose events are in audit_events
  answered,    \* the requests the client has an answer to
  view         \* the last response of /api/audit/recent, and what it was made from

vars == <<clock, created_at, audit, answered, view>>

Init ==
  /\ clock = 0
  /\ created_at = [r \in Requests |-> None]
  /\ audit = {}
  /\ answered = {}
  /\ view = None

Tick ==
  /\ clock < MaxClock
  /\ clock' = clock + 1
  /\ UNCHANGED <<created_at, audit, answered, view>>

\* write sends its INSERT: created_at defaults to the start of the transaction.
Insert(r) ==
  /\ created_at[r] = None
  /\ created_at' = [created_at EXCEPT ![r] = clock]
  /\ UNCHANGED <<clock, audit, answered, view>>

Commit(r) ==
  /\ created_at[r] # None /\ r \notin audit
  /\ audit' = audit \union {r}
  /\ UNCHANGED <<clock, created_at, answered, view>>

\* Mutant of Answer: the audit is written in the background.
AnswerAtOnce(r) ==
  /\ created_at[r] # None /\ r \notin answered
  /\ answered' = answered \union {r}
  /\ UNCHANGED <<clock, created_at, audit, view>>

\* The chat handler answers after write has returned.
Answer(r) ==
  /\ r \in audit /\ r \notin answered
  /\ answered' = answered \union {r}
  /\ UNCHANGED <<clock, created_at, audit, view>>

\* WHERE organization_id = $1 [AND user_id = $2].
InScope(who, role, r) ==
  /\ By[r].org = who.org
  /\ role # "admin" => By[r].user = who.user

\* ORDER BY created_at DESC LIMIT n, equal dates in any order.
Newest(events, n) ==
  {rows \in SUBSET events :
     /\ Cardinality(rows) = IF Cardinality(events) <= n THEN Cardinality(events) ELSE n
     /\ \A r \in rows, q \in events \ rows : created_at[q] <= created_at[r]}

\* Mutant of Recent: the scope is applied to the newest events of all.
RecentThenScoped(events, who, role) ==
  {{r \in rows : InScope(who, role, r)} : rows \in Newest(events, Limit)}

\* The pages recent may return.
Recent(events, who, role) ==
  Newest({r \in events : InScope(who, role, r)}, Limit)

recent_audit(who, role) ==
  /\ \E rows \in Recent(audit, who, role) :
       view' = [who |-> who, role |-> role, rows |-> rows, events |-> audit,
                answered |-> answered]
  /\ UNCHANGED <<clock, created_at, audit, answered>>

Next ==
  \/ Tick
  \/ \E r \in Requests : Insert(r) \/ Commit(r) \/ Answer(r)
  \/ \E who \in Identities, role \in Role : recent_audit(who, role)

Spec == Init /\ [][Next]_vars

-----------------------------------------------------------------------------
(* Correctness.                                                            *)

\* Every variable keeps its shape (checked with AnsweredIsListed).
TypeOK ==
  /\ clock \in 0..MaxClock
  /\ created_at \in [Requests -> 0..MaxClock \union {None}]
  /\ answered \subseteq audit /\ audit \subseteq Requests
  /\ view # None => view.who \in Identities /\ view.rows \subseteq view.events
                    /\ Cardinality(view.rows) <= Limit

\* README.md:116 "own events": whoever else writes, and however much, a viewer or
\* an analyst gets the page it would get if the table held its own events only;
\* nobody else's are in it, and none of its own is displaced by them.
OthersDoNotMatter ==
  view # None /\ view.role # "admin" =>
    view.rows \in Newest({r \in view.events : By[r] = view.who}, Limit)

\* The last response is still what recent would make of the events it was made from:
\* an event keeps its date once it is visible.
ViewStands ==
  /\ \A r \in audit : created_at[r] # None
  /\ view # None => /\ view.role \in Role
                    /\ view.answered \subseteq view.events /\ view.events \subseteq audit
                    /\ view.rows \in Recent(view.events, view.who, view.role)

\* A caller who has the answer to a request finds its event, whichever role it
\* looks with, unless a full page of events is dated no earlier: the handler
\* answers after the write, and both look at one table.
AnsweredIsListed ==
  /\ TypeOK /\ ViewStands
  /\ view # None => \A r \in view.answered : By[r] = view.who =>
      \/ r \in view.rows
      \/ Cardinality(view.rows) = Limit /\ \A q \in view.rows : created_at[r] <= created_at[q]

=============================================================================
