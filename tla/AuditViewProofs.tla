--------------------------- MODULE AuditViewProofs ---------------------------
(***************************************************************************)
(* Proofs about AuditView. AnsweredIsListed is inductive: what it says of  *)
(* the last response follows from ViewStands at any later moment, since an *)
(* event that is visible has a date and keeps it. From it follows          *)
(* OthersDoNotMatter.                                                      *)
(***************************************************************************)
EXTENDS AuditView, FiniteSetTheorems, TLAPS

-----------------------------------------------------------------------------
(* Pages.                                                                  *)

\* The events a page is drawn from.
Scope(events, who, role) == {r \in events : InScope(who, role, r)}

\* Who is not an admin is shown the events that are its own.
LEMMA OwnEvents ==
  ASSUME NEW who \in Identities, NEW role, role # "admin", NEW events \in SUBSET Requests
  PROVE  Scope(events, who, role) = {r \in events : By[r] = who}
BY ViewAssumption DEF Scope, InScope

\* Everyone's own events are in its scope.
LEMMA OwnInScope ==
  ASSUME NEW who, NEW role, NEW r, By[r] = who
  PROVE  InScope(who, role, r)
BY DEF InScope

\* What is not on a page of Limit rows is dated no later than what is.
LEMMA PageFacts ==
  ASSUME NEW events \in SUBSET Requests, NEW rows \in Newest(events, Limit)
  PROVE  /\ rows \subseteq events
         /\ Cardinality(rows) \in Nat /\ Cardinality(rows) <= Limit
         /\ \A r \in events \ rows : /\ Cardinality(rows) = Limit
                                     /\ \A q \in rows : created_at[r] <= created_at[q]
<1>1. /\ rows \in SUBSET events
      /\ Cardinality(rows) = IF Cardinality(events) <= Limit THEN Cardinality(events) ELSE Limit
      /\ \A r \in rows, q \in events \ rows : created_at[q] <= created_at[r]
  BY DEF Newest
<1>2. IsFiniteSet(events)
  BY ViewAssumption, FS_Subset
<1>3. IsFiniteSet(rows) /\ (Cardinality(events) = Cardinality(rows) => events = rows)
  BY <1>1, <1>2, FS_Subset
<1>4. Cardinality(events) \in Nat /\ Cardinality(rows) \in Nat /\ Limit \in Nat
  BY <1>2, <1>3, FS_CardinalityType, ViewAssumption
<1>5. \A r \in events \ rows : Cardinality(rows) = Limit
  BY <1>1, <1>3
<1> QED
  BY <1>1, <1>4, <1>5

\* A page depends on the dates of the events it is drawn from, and on no others.
LEMMA PageStands ==
  ASSUME NEW events, NEW rows \in Newest(events, Limit),
         \A r \in events : created_at'[r] = created_at[r]
  PROVE  rows \in Newest(events, Limit)'
BY DEF Newest

-----------------------------------------------------------------------------
(* The invariant.                                                          *)

Kept == TypeOK /\ ViewStands

\* What ViewStands says of the last response is what AnsweredIsListed says of it.
LEMMA Listed == Kept => AnsweredIsListed
<1> SUFFICES ASSUME Kept, view # None, NEW r \in view.answered, By[r] = view.who
             PROVE  \/ r \in view.rows
                    \/ /\ Cardinality(view.rows) = Limit
                       /\ \A q \in view.rows : created_at[r] <= created_at[q]
  BY DEF AnsweredIsListed, Kept
<1> DEFINE scope == Scope(view.events, view.who, view.role)
<1>1. view.rows \in Newest(scope, Limit) /\ scope \in SUBSET Requests
  BY DEF Kept, TypeOK, ViewStands, Recent, Scope
<1>2. r \in scope
  BY OwnInScope DEF Kept, ViewStands, Scope
<1> QED
  BY <1>1, <1>2, PageFacts

\* A step that leaves the last response alone, and the dates of visible events.
LEMMA Quiet ==
  ASSUME Kept, TypeOK', view' = view, audit \subseteq audit',
         \A r \in audit : created_at'[r] = created_at[r],
         \A r \in audit' : created_at'[r] # None
  PROVE  Kept'
<1> SUFFICES ASSUME view # None
             PROVE  /\ view.role \in Role
                    /\ view.answered \subseteq view.events /\ view.events \subseteq audit'
                    /\ view.rows \in Recent(view.events, view.who, view.role)'
  BY DEF Kept, ViewStands
<1>1. /\ view.role \in Role /\ view.answered \subseteq view.events
      /\ view.events \subseteq audit
      /\ view.rows \in Newest(Scope(view.events, view.who, view.role), Limit)
  BY DEF Kept, ViewStands, Recent, Scope
<1>2. PICK v : v = view
  OBVIOUS
<1>3. v.rows \in Newest(Scope(v.events, v.who, v.role), Limit)'
  <2>1. \A r \in Scope(v.events, v.who, v.role) : created_at'[r] = created_at[r]
    BY <1>1, <1>2 DEF Scope
  <2> QED
    BY <1>1, <1>2, <2>1, PageStands
<1>4. view.rows \in Recent(view.events, view.who, view.role)'
  BY <1>2, <1>3 DEF Recent, Scope
<1> QED
  BY <1>1, <1>4

LEMMA InitKept == Init => Kept
BY ViewAssumption DEF Init, Kept, TypeOK, ViewStands

LEMMA StepKept == Kept /\ [Next]_vars => Kept'
<1> SUFFICES ASSUME Kept, [Next]_vars PROVE Kept'
  OBVIOUS
<1>1. CASE Tick
  <2>1. TypeOK'
    BY <1>1, ViewAssumption DEF Tick, Kept, TypeOK
  <2> QED
    BY <1>1, <2>1, Quiet DEF Tick, Kept, ViewStands
\* An event gets its date before it is visible, and only then.
<1>2. ASSUME NEW r \in Requests, Insert(r) PROVE Kept'
  <2>1. TypeOK'
    BY <1>2 DEF Insert, Kept, TypeOK
  <2>2. r \notin audit
    BY <1>2 DEF Insert, Kept, ViewStands
  <2>3. \A q \in audit : created_at'[q] = created_at[q]
    BY <1>2, <2>2 DEF Insert, Kept, TypeOK
  <2> QED
    BY <1>2, <2>1, <2>3, Quiet DEF Insert, Kept, ViewStands
<1>3. ASSUME NEW r \in Requests, Commit(r) PROVE Kept'
  <2>1. TypeOK'
    BY <1>3 DEF Commit, Kept, TypeOK
  <2> QED
    BY <1>3, <2>1, Quiet DEF Commit, Kept, ViewStands
<1>4. ASSUME NEW r \in Requests, Answer(r) PROVE Kept'
  <2>1. TypeOK'
    BY <1>4 DEF Answer, Kept, TypeOK
  <2> QED
    BY <1>4, <2>1, Quiet DEF Answer, Kept, ViewStands
<1>5. ASSUME NEW who \in Identities, NEW role \in Role, recent_audit(who, role) PROVE Kept'
  <2>1. PICK rows \in Recent(audit, who, role) :
          view' = [who |-> who, role |-> role, rows |-> rows, events |-> audit,
                   answered |-> answered]
    BY <1>5 DEF recent_audit
  <2>2. UNCHANGED <<clock, created_at, audit, answered>>
    BY <1>5 DEF recent_audit
  <2>3. /\ view'.who = who /\ view'.role = role /\ view'.rows = rows
        /\ view'.events = audit /\ view'.answered = answered
    BY <2>1
  <2>4. rows \in Newest(Scope(audit, who, role), Limit) /\ Scope(audit, who, role) \subseteq audit
    BY DEF Recent, Scope
  <2>5. rows \subseteq audit /\ Cardinality(rows) <= Limit
    BY <2>4, PageFacts DEF Kept, TypeOK
  <2>6. TypeOK'
    BY <2>2, <2>3, <2>5 DEF Kept, TypeOK
  <2>7. rows \in Newest(Scope(audit, who, role), Limit)'
    <3>1. PICK events : events = Scope(audit, who, role)
      OBVIOUS
    <3>2. Scope(audit, who, role)' = events
      BY <2>2, <3>1 DEF Scope
    <3>3. rows \in Newest(events, Limit)'
      BY <2>2, <2>4, <3>1, PageStands
    <3> QED
      BY <3>2, <3>3 DEF Newest
  <2>8. view'.rows \in Recent(view.events, view.who, view.role)'
    BY <2>2, <2>3, <2>7 DEF Recent, Scope
  <2> QED
    BY <2>2, <2>3, <2>6, <2>8 DEF Kept, TypeOK, ViewStands
<1>6. CASE UNCHANGED vars
  <2>1. TypeOK'
    BY <1>6 DEF vars, Kept, TypeOK
  <2> QED
    BY <1>6, <2>1, Quiet DEF vars, Kept, ViewStands
<1> QED
  BY <1>1, <1>2, <1>3, <1>4, <1>5, <1>6 DEF Next

LEMMA Invariance == Spec => []Kept
BY InitKept, StepKept, PTL DEF Spec

\* A caller who has the answer to a request finds its event in /api/audit/recent, or
\* a full page of events dated no earlier (AuditRepository.recent).
THEOREM AnswersAreListed == Spec => []AnsweredIsListed
BY Invariance, Listed, PTL

\* A viewer's or an analyst's page is one of the newest of its own events, whatever
\* others write.
THEOREM OthersDoNotShow == Spec => []OthersDoNotMatter
<1>1. Kept => OthersDoNotMatter
  <2> SUFFICES ASSUME Kept, view # None, view.role # "admin"
               PROVE  view.rows \in Newest({r \in view.events : By[r] = view.who}, Limit)
    BY DEF OthersDoNotMatter
  <2>1. Scope(view.events, view.who, view.role) = {r \in view.events : By[r] = view.who}
    BY OwnEvents DEF Kept, TypeOK, ViewStands
  <2>2. view.rows \in Newest(Scope(view.events, view.who, view.role), Limit)
    BY DEF Kept, ViewStands, Recent, Scope
  <2> QED
    BY <2>1, <2>2
<1> QED
  BY <1>1, Invariance, PTL

=============================================================================
