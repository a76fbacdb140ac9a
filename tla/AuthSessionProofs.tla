-------------------------- MODULE AuthSessionProofs --------------------------
(***************************************************************************)
(* Sign-in, session and sign-out, for any number of calls and sessions.    *)
(***************************************************************************)
EXTENDS AuthSession, TLAPS

Stage == {"new", "away", "returned", "exchanged", "sent", "refreshing", "answered", "done"}

Untouched(d) ==
  /\ stage'[d] = stage[d] /\ sent'[d] = sent[d]
  /\ cookie'[d] = cookie[d] /\ status'[d] = status[d]

\* Call c, at stage `from`, gets a new row; the other calls keep theirs.
Row(c, from, to, session, set, code) ==
  /\ stage[c] = from
  /\ stage'[c] = to /\ sent'[c] = session /\ cookie'[c] = set /\ status'[c] = code
  /\ \A d \in Calls \ {c} : Untouched(d)

Shapes ==
  /\ stage' \in [Calls -> Stage]
  /\ sent' \in [Calls -> Sessions \union SignIns \union {None}]
  /\ cookie' \in [Calls -> 1..issued' \union {None}]
  /\ status' \in [Calls -> {200, 303, 400, 401, 403, 500, None}]
  /\ \A c \in Calls : status'[c] = 401 => cookie'[c] = None

-----------------------------------------------------------------------------
(* The effect of each action, call by call.                                *)

LEMMA GoFacts ==
  ASSUME TypeOK, NEW c \in Calls, NEW from \in Stage, NEW to \in Stage, Go(c, from, to)
  PROVE  /\ stage[c] = from /\ stage' \in [Calls -> Stage] /\ stage'[c] = to
         /\ \A d \in Calls \ {c} : stage'[d] = stage[d]
  BY DEF Go, TypeOK, Stage

\* A step that leaves cookies and statuses alone.
LEMMA GoRow ==
  ASSUME TypeOK, NEW c \in Calls, NEW from \in Stage, NEW to \in Stage, Go(c, from, to),
         UNCHANGED <<issued, sent, cookie, status>>
  PROVE  Row(c, from, to, sent[c], cookie[c], status[c]) /\ Shapes
<1>1. Row(c, from, to, sent[c], cookie[c], status[c])
  BY GoFacts DEF Row, Untouched
<1>2. Shapes
  BY GoFacts DEF Shapes, TypeOK
<1> QED
  BY <1>1, <1>2

\* A step that notes the cookie the call was sent with.
LEMMA SentRow ==
  ASSUME TypeOK, NEW c \in Calls, NEW from \in Stage, NEW to \in Stage, Go(c, from, to),
         NEW v \in Sessions \union SignIns \union {None}, sent' = [sent EXCEPT ![c] = v],
         UNCHANGED <<issued, cookie, status>>
  PROVE  Row(c, from, to, v, cookie[c], status[c]) /\ Shapes
<1>1. /\ sent' \in [Calls -> Sessions \union SignIns \union {None}] /\ sent'[c] = v
      /\ \A d \in Calls \ {c} : sent'[d] = sent[d]
  BY DEF TypeOK
<1>2. Row(c, from, to, v, cookie[c], status[c])
  BY <1>1, GoFacts DEF Row, Untouched
<1>3. Shapes
  BY <1>1, GoFacts DEF Shapes, TypeOK
<1> QED
  BY <1>2, <1>3

LEMMA RespondRow ==
  ASSUME TypeOK, NEW c \in Calls, NEW from \in Stage, NEW code \in {200, 303, 400, 401, 403, 500},
         NEW session, Respond(c, from, code, session), UNCHANGED sent,
         issued' \in Nat, issued <= issued', session \in 1..issued' \union {None},
         code = 401 => session = None
  PROVE  Row(c, from, "answered", sent[c], session, code) /\ Shapes
<1>1. /\ stage[c] = from /\ stage' \in [Calls -> Stage] /\ stage'[c] = "answered"
      /\ \A d \in Calls \ {c} : stage'[d] = stage[d]
  BY GoFacts DEF Respond, Stage
<1>2. issued \in Nat /\ 1..issued \subseteq 1..issued'
  BY DEF TypeOK
<1>3. /\ cookie' \in [Calls -> 1..issued' \union {None}] /\ cookie'[c] = session
      /\ \A d \in Calls \ {c} : cookie'[d] = cookie[d]
  BY <1>2 DEF Respond, TypeOK
<1>4. /\ status' \in [Calls -> {200, 303, 400, 401, 403, 500, None}] /\ status'[c] = code
      /\ \A d \in Calls \ {c} : status'[d] = status[d]
  BY DEF Respond, TypeOK
<1>5. Row(c, from, "answered", sent[c], session, code)
  BY <1>1, <1>3, <1>4 DEF Row, Untouched
<1>6. \A d \in Calls : status'[d] = 401 => cookie'[d] = None
  BY <1>3, <1>4 DEF TypeOK
<1>7. Shapes
  BY <1>1, <1>3, <1>4, <1>6 DEF Shapes, TypeOK
<1> QED
  BY <1>5, <1>7

\* A new session, and what stays true of the others.
LEMMA IssueFacts ==
  ASSUME TypeOK, NEW i \in SignIns, Issue(i)
  PROVE  /\ issued \in Nat /\ NextSession = issued + 1 /\ NextSession \in Sessions
         /\ issued' = issued + 1 /\ issued' \in 0..MaxSessions
         /\ origin' \in [Sessions -> SignIns \union {None}]
         /\ origin'[NextSession] = i
         /\ \A s \in 1..issued : origin'[s] = origin[s]
         /\ \A s \in Sessions : origin'[s] # None <=> s <= issued'
<1>1. /\ issued \in Nat /\ NextSession = issued + 1 /\ NextSession \in Sessions
      /\ issued' = issued + 1 /\ issued' \in 0..MaxSessions
  BY AuthAssumption DEF TypeOK, Issue, NextSession, Sessions
<1>2. /\ origin' \in [Sessions -> SignIns \union {None}] /\ origin'[NextSession] = i
      /\ \A s \in Sessions : s # NextSession => origin'[s] = origin[s]
  BY <1>1 DEF TypeOK, Issue
<1>3. i # None /\ MaxSessions \in Nat
  BY AuthAssumption
<1>4. ASSUME NEW s \in Sessions PROVE origin'[s] # None <=> s <= issued'
  <2>1. origin[s] # None <=> s <= issued
    BY DEF TypeOK
  <2>2. CASE s = NextSession
    BY <1>1, <1>2, <1>3, <2>2
  <2>3. CASE s # NextSession
    BY <1>1, <1>2, <2>1, <2>3 DEF Sessions
  <2> QED
    BY <2>2, <2>3
<1>5. ASSUME NEW s \in 1..issued PROVE origin'[s] = origin[s]
  BY <1>1, <1>2, <1>3 DEF Sessions, TypeOK
<1> QED
  BY <1>1, <1>2, <1>4, <1>5

LEMMA RenewFacts ==
  ASSUME TypeOK, NEW s \in 1..issued, Renew(s)
  PROVE  /\ s \in Sessions /\ origin[s] \in SignIns /\ Issue(origin[s])
         /\ successor[s] = None /\ successor' \in [Sessions -> Sessions \union {None}]
         /\ successor'[s] = NextSession
         /\ \A t \in Sessions : t # s => successor'[t] = successor[t]
<1>1. s \in Sessions /\ s <= issued
  BY AuthAssumption DEF TypeOK, Sessions
<1>2. origin[s] \in SignIns
  BY <1>1 DEF TypeOK
<1>3. Issue(origin[s]) /\ successor[s] = None /\ successor' = [successor EXCEPT ![s] = NextSession]
  BY DEF Renew, Renewable
<1>4. NextSession \in Sessions
  BY <1>2, <1>3, IssueFacts
<1> QED
  BY <1>1, <1>2, <1>3, <1>4 DEF TypeOK

-----------------------------------------------------------------------------
(* What a step of a call leaves true of the others.                        *)

\* The invariant without the shapes.
Links ==
  /\ CallsAccounted /\ OneCarrier /\ Replacements /\ StateCookie
  /\ \A i \in left : Completed(i)
  /\ jar # None => Over(jar) /\ Completed(origin[jar])
  /\ SessionKept /\ OvertakenSignInFails /\ SignedOutStays

LEMMA IndInvParts == IndInv <=> TypeOK /\ Links
BY DEF IndInv, Links, SignedInHere

\* At most the calls in C have moved; no session has changed hands.
Frame(C) ==
  /\ \A c \in C : stage[c] # "done"
  /\ \A d \in Calls \ C : Untouched(d)
  /\ issued' \in Nat /\ issued <= issued'
  /\ \A s \in 1..issued : origin'[s] = origin[s]

LEMMA KindsDiffer ==
  /\ \A r \in Requests : r \notin SignIns /\ r \notin SignOuts /\ r \in Calls
  /\ \A i \in SignIns : i \notin Requests /\ i \notin SignOuts /\ i \in Calls /\ i # None
  /\ \A o \in SignOuts : o \notin Requests /\ o \notin SignIns /\ o \in Calls
BY AuthAssumption DEF Calls

LEMMA SessionFacts ==
  ASSUME TypeOK
  PROVE  /\ issued \in Nat /\ 1..issued \subseteq Sessions /\ None \notin Sessions
         /\ None \notin 1..issued
         /\ \A s \in 1..issued : origin[s] \in SignIns
<1>1. issued \in Nat /\ 1..issued \subseteq Sessions /\ None \notin Sessions
  BY AuthAssumption DEF TypeOK, Sessions
<1>2. \A s \in 1..issued : origin[s] \in SignIns
  BY <1>1 DEF TypeOK
<1> QED
  BY <1>1, <1>2

LEMMA FrameKeeps ==
  ASSUME TypeOK, CallsAccounted, NEW C \in SUBSET Calls, Frame(C)
  PROVE  /\ \A s : Over(s) => Over(s)'
         /\ \A i \in SignIns : Completed(i) => Completed(i)'
         /\ \A r \in (Requests \union SignOuts) \ C : RequestAccounted(r)'
         /\ \A i \in SignIns \ C : SignInAccounted(i)'
<1>1. ASSUME NEW s, Over(s) PROVE Over(s)'
  <2>1. PICK c \in Calls : cookie[c] = s /\ stage[c] = "done"
    BY <1>1 DEF Over
  <2>2. c \notin C
    BY <2>1 DEF Frame
  <2> QED
    BY <2>1, <2>2 DEF Over, Frame, Untouched
<1>2. ASSUME NEW i \in SignIns, Completed(i) PROVE Completed(i)'
  BY <1>2, KindsDiffer DEF Completed, Frame, Untouched
<1>3. ASSUME NEW r \in (Requests \union SignOuts) \ C PROVE RequestAccounted(r)'
  <2>1. RequestAccounted(r) /\ Untouched(r) /\ cookie[r] \in 1..issued \union {None}
    BY KindsDiffer DEF CallsAccounted, Frame, TypeOK
  <2>2. CASE sent[r] = None
    <3>1. cookie[r] = None
      BY <2>1, <2>2 DEF RequestAccounted
    <3> QED
      BY <2>1, <2>2, <3>1 DEF RequestAccounted, Untouched
  <2>3. CASE sent[r] # None
    <3>1. /\ sent[r] \in 1..issued /\ Over(sent[r]) /\ Completed(origin[sent[r]])
          /\ origin[sent[r]] \in SignIns
      BY <2>1, <2>3, SessionFacts DEF RequestAccounted
    <3>2. /\ sent[r] \in 1..issued' /\ origin'[sent[r]] = origin[sent[r]]
          /\ cookie[r] # None => origin'[cookie[r]] = origin[cookie[r]]
      BY <2>1, <3>1, SessionFacts DEF Frame
    <3>3. Over(sent[r])' /\ Completed(origin[sent[r]])'
      BY <2>1, <3>1, <3>2, <1>1, <1>2 DEF Untouched, Over, Completed
    <3> QED
      BY <2>1, <3>2, <3>3 DEF RequestAccounted, Untouched, Over, Completed
  <2> QED
    BY <2>2, <2>3
<1>4. ASSUME NEW i \in SignIns \ C PROVE SignInAccounted(i)'
  <2>1. SignInAccounted(i) /\ Untouched(i) /\ cookie[i] \in 1..issued \union {None}
    BY KindsDiffer DEF CallsAccounted, Frame, TypeOK
  <2>2. cookie[i] # None => origin'[cookie[i]] = origin[cookie[i]]
    BY <2>1 DEF Frame
  <2> QED
    BY <2>1, <2>2 DEF SignInAccounted, Untouched
<1> QED
  BY <1>1, <1>2, <1>3, <1>4

LEMMA RowIsFrame ==
  ASSUME TypeOK, NEW c \in Calls, NEW from, NEW to, NEW session, NEW set, NEW code,
         Row(c, from, to, session, set, code), from # "done", UNCHANGED <<issued, origin>>
  PROVE  Frame({c})
BY DEF Row, Frame, TypeOK

-----------------------------------------------------------------------------
(* Quiet steps: no session is issued, none reaches or leaves the browser.  *)

LEMMA QuietStep ==
  ASSUME TypeOK, Links, NEW c \in Calls, NEW from, NEW to, NEW session, NEW set, NEW code,
         Row(c, from, to, session, set, code), from # "done",
         UNCHANGED <<issued, origin, successor, jar, nonce, overtaken, left>>,
         lost \subseteq lost', set \in {None, cookie[c]},
         from = "answered" /\ cookie[c] # None => cookie[c] \in lost',
         c \in Requests /\ cookie[c] # None => set = cookie[c] /\ session = sent[c],
         c \in Requests \union SignOuts => RequestAccounted(c)',
         c \in SignIns => /\ SignInAccounted(c)' /\ to \notin {"new", "away"}
                          /\ to = "returned" => from = "away" /\ session = nonce
                          /\ c \in overtaken => to # "exchanged" /\ set = None
                          /\ code = 400 => c \in overtaken
  PROVE  Links'
<1>1. \A d \in Calls \ {c} : Untouched(d)
  BY DEF Row
<1>2. stage'[c] = to /\ sent'[c] = session /\ cookie'[c] = set /\ status'[c] = code
  BY DEF Row
<1>3. Frame({c})
  BY RowIsFrame
<1>4. /\ CallsAccounted' /\ \A s : Over(s) => Over(s)'
      /\ \A i \in SignIns : Completed(i) => Completed(i)'
  BY <1>3, FrameKeeps DEF Links, CallsAccounted
<1>5. OneCarrier'
  BY <1>1, <1>2 DEF Links, OneCarrier, Untouched
<1>6. Replacements'
  <2>1. \A r \in Requests : cookie[r] # None => cookie'[r] = cookie[r] /\ sent'[r] = sent[r]
    BY <1>1, <1>2, KindsDiffer DEF Untouched
  <2>2. \A s \in Sessions : successor[s] # None => successor[s] \in Sessions
    BY DEF TypeOK
  <2> QED
    BY <2>1, <2>2 DEF Links, Replacements
<1>7. StateCookie'
  <2>1. ASSUME NEW i \in SignIns, i # c
        PROVE  stage'[i] = stage[i] /\ sent'[i] = sent[i]
    BY <1>1, <2>1, KindsDiffer DEF Untouched
  <2> QED
    BY <1>2, <2>1 DEF Links, StateCookie, Row
<1>8. \A i \in left' : Completed(i)'
  BY <1>4 DEF Links, TypeOK
<1>9. jar' # None => Over(jar)' /\ Completed(origin[jar])'
  <2> SUFFICES ASSUME jar # None PROVE Over(jar)' /\ Completed(origin[jar])'
    OBVIOUS
  <2>1. Over(jar) /\ Completed(origin[jar]) /\ origin[jar] \in SignIns
    BY SessionFacts DEF Links, TypeOK
  <2> QED
    BY <1>4, <2>1 DEF Over, Completed
<1>10. SessionKept'
  <2>1. ASSUME NEW s, OnItsWay(s), s # None PROVE s \in lost' \/ OnItsWay(s)'
    <3>1. PICK d \in Calls : stage[d] = "answered" /\ cookie[d] = s
      BY <2>1 DEF OnItsWay
    <3>2. CASE d = c
      BY <2>1, <3>1, <3>2 DEF Row
    <3>3. CASE d # c
      BY <1>1, <3>1, <3>3 DEF OnItsWay, Untouched
    <3> QED
      BY <3>2, <3>3
  <2> SUFFICES ASSUME jar # None, successor[jar] # None
               PROVE  successor[jar] \in lost' \/ OnItsWay(successor[jar])'
    BY DEF SessionKept, OnItsWay
  <2>2. successor[jar] \in lost \/ OnItsWay(successor[jar])
    BY DEF Links, SessionKept
  <2> QED
    BY <2>1, <2>2
<1>11. OvertakenSignInFails'
  <2>1. ASSUME NEW i \in Calls, i # c
        PROVE  stage'[i] = stage[i] /\ cookie'[i] = cookie[i] /\ status'[i] = status[i]
    BY <1>1, <2>1 DEF Untouched
  <2>2. c \in overtaken => c \in SignIns
    BY DEF TypeOK
  <2>3. \A i \in overtaken : i \in SignIns /\ i \in Calls
    BY KindsDiffer DEF TypeOK
  <2>4. \A i \in overtaken : stage'[i] # "exchanged" /\ cookie'[i] = None
    BY <1>2, <2>1, <2>2, <2>3 DEF Links, OvertakenSignInFails
  <2>5. \A i \in SignIns : status'[i] = 400 => i \in overtaken
    BY <1>2, <2>1, KindsDiffer DEF Links, OvertakenSignInFails
  <2> QED
    BY <2>4, <2>5 DEF OvertakenSignInFails
<1>12. SignedOutStays'
  BY <1>1, <1>2, KindsDiffer DEF Links, SignedOutStays, Untouched
<1> QED
  BY <1>4, <1>5, <1>6, <1>7, <1>8, <1>9, <1>10, <1>11, <1>12 DEF Links

LEMMA ShapesOK ==
  ASSUME TypeOK, Shapes, lost' \subseteq 1..issued,
         UNCHANGED <<issued, origin, successor, expired, ended, jar, nonce, overtaken, left>>
  PROVE  TypeOK'
BY DEF TypeOK, Shapes, Stage

\* A request, or a sign-out, that goes on with the session it was sent with.
LEMMA AccountedAgain ==
  ASSUME TypeOK, Links, NEW r \in Requests \union SignOuts, Frame({r}),
         sent'[r] = sent[r], cookie'[r] \in {None, cookie[r]},
         stage'[r] \in {"refreshing", "answered", "done"},
         stage'[r] = "refreshing" => sent[r] # None /\ cookie'[r] = None
  PROVE  RequestAccounted(r)'
<1>1. RequestAccounted(r) /\ cookie[r] \in 1..issued \union {None}
  BY KindsDiffer DEF Links, CallsAccounted, TypeOK
<1>2. CASE sent[r] = None
  BY <1>1, <1>2 DEF RequestAccounted
<1>3. CASE sent[r] # None
  <2>1. /\ sent[r] \in 1..issued /\ Over(sent[r]) /\ Completed(origin[sent[r]])
        /\ origin[sent[r]] \in SignIns
    BY <1>1, <1>3, SessionFacts DEF RequestAccounted
  <2>2. /\ sent[r] \in 1..issued' /\ origin'[sent[r]] = origin[sent[r]]
        /\ cookie[r] # None => origin'[cookie[r]] = origin[cookie[r]]
    BY <1>1, <2>1, SessionFacts DEF Frame
  <2>3. {r} \in SUBSET Calls /\ CallsAccounted
    BY KindsDiffer DEF Links
  <2>4. Over(sent[r])' /\ Completed(origin[sent[r]])'
    <3>1. Over(sent[r])' /\ Completed(origin[sent[r]])'
      BY <2>1, <2>2, <2>3, FrameKeeps DEF Over, Completed
    <3> QED
      BY <3>1
  <2> QED
    BY <1>1, <1>3, <2>2, <2>4 DEF RequestAccounted, Over, Completed
<1> QED
  BY <1>2, <1>3

LEMMA QuietRequest ==
  ASSUME TypeOK, Links, NEW r \in Requests \union SignOuts, NEW from, NEW to, NEW code,
         Row(r, from, to, sent[r], cookie[r], code), from # "done",
         to \in {"refreshing", "answered", "done"},
         to = "refreshing" => sent[r] # None /\ cookie[r] = None,
         UNCHANGED <<issued, origin, successor, jar, nonce, overtaken, left>>,
         lost \subseteq lost', from = "answered" /\ cookie[r] # None => cookie[r] \in lost'
  PROVE  Links'
<1>1. r \in Calls /\ r \notin SignIns
  BY KindsDiffer
<1>2. RequestAccounted(r)'
  BY <1>1, RowIsFrame, AccountedAgain DEF Row
<1> QED
  BY <1>1, <1>2, QuietStep

LEMMA SendStep ==
  ASSUME TypeOK, Links, NEW r \in Requests \union SignOuts, Go(r, "new", "sent"),
         sent' = [sent EXCEPT ![r] = jar],
         UNCHANGED <<workos, expired, ended, jar, nonce, cookie, status, history>>
  PROVE  TypeOK' /\ Links'
<1>1. r \in Calls /\ r \notin SignIns /\ jar \in Sessions \union SignIns \union {None}
  BY KindsDiffer, SessionFacts DEF TypeOK
<1>2. UNCHANGED <<issued, origin, successor, jar, nonce, overtaken, left, lost>>
  BY DEF workos, history
<1>3. Row(r, "new", "sent", jar, cookie[r], status[r]) /\ Shapes
  BY <1>1, <1>2, SentRow DEF Stage
<1>4. cookie[r] = None /\ cookie'[r] = None /\ sent'[r] = jar /\ stage'[r] = "sent"
  BY <1>3 DEF Links, CallsAccounted, RequestAccounted, Row
<1>5. RequestAccounted(r)'
  <2>1. CASE jar = None
    BY <1>4, <2>1 DEF RequestAccounted
  <2>2. CASE jar # None
    <3>1. jar \in 1..issued /\ Over(jar) /\ Completed(origin[jar]) /\ origin[jar] \in SignIns
      BY <2>2, SessionFacts DEF Links, TypeOK
    <3>2. {r} \in SUBSET Calls /\ CallsAccounted /\ Frame({r})
      BY <1>1, <1>2, <1>3, RowIsFrame DEF Links
    <3>3. Over(jar)' /\ Completed(origin[jar])'
      BY <1>2, <3>1, <3>2, FrameKeeps DEF Over, Completed
    <3> QED
      BY <1>2, <1>4, <3>1, <3>3 DEF RequestAccounted, Over, Completed
  <2> QED
    BY <2>1, <2>2
<1>6. Links'
  BY <1>1, <1>2, <1>3, <1>4, <1>5, QuietStep
<1>7. TypeOK'
  BY <1>2, <1>3, ShapesOK DEF TypeOK
<1> QED
  BY <1>6, <1>7

\* A response that sets no session, to a call that has none.
LEMMA AnswerStep ==
  ASSUME TypeOK, Links, NEW r \in Requests \union SignOuts, NEW from \in {"sent", "refreshing"},
         NEW code \in {200, 303, 400, 401, 403, 500}, Respond(r, from, code, None),
         UNCHANGED <<workos, expired, ended, jar, nonce, sent, history>>
  PROVE  TypeOK' /\ Links'
<1>1. r \in Calls /\ UNCHANGED <<issued, origin, successor, jar, nonce, overtaken, left, lost>>
  BY KindsDiffer DEF workos, history
<1>2. issued' \in Nat /\ issued <= issued'
  BY <1>1 DEF TypeOK
<1>3. Row(r, from, "answered", sent[r], None, code) /\ Shapes
  BY <1>1, <1>2, RespondRow DEF Stage
<1>4. cookie[r] = None
  BY <1>3 DEF Links, CallsAccounted, RequestAccounted, Row
<1>5. Row(r, from, "answered", sent[r], cookie[r], code)
  BY <1>3, <1>4
<1>6. lost \subseteq lost'
  BY <1>1
<1>7. Links'
  BY <1>1, <1>4, <1>5, <1>6, QuietRequest
<1> QED
  BY <1>1, <1>3, <1>7, ShapesOK DEF TypeOK

LEMMA QuietRequestStep ==
  ASSUME TypeOK, Links, NEW r \in Requests,
         Send(r) \/ Unauthenticated(r) \/ Authenticated(r) \/ StartRefresh(r) \/ RefreshRefused(r)
  PROVE  TypeOK' /\ Links'
<1>1. CASE Send(r)
  BY <1>1, SendStep DEF Send
<1>2. CASE Unauthenticated(r) \/ RefreshRefused(r)
  BY <1>2, AnswerStep DEF Unauthenticated, RefreshRefused
<1>3. CASE Authenticated(r)
  BY <1>3, AnswerStep DEF Authenticated, Handled
<1>4. CASE StartRefresh(r)
  <2>1. r \in Calls /\ UNCHANGED <<issued, origin, successor, jar, nonce, overtaken, left, lost>>
    BY <1>4, KindsDiffer DEF StartRefresh, workos, history
  <2>2. Row(r, "sent", "refreshing", sent[r], cookie[r], status[r]) /\ Shapes
    BY <1>4, <2>1, GoRow DEF StartRefresh, Stage
  <2>3. sent[r] # None
    <3>1. sent[r] \in 1..issued
      BY <1>4 DEF StartRefresh, TypeOK
    <3> QED
      BY <3>1, SessionFacts
  <2>a. cookie[r] = None
    <3>1. RequestAccounted(r) /\ stage[r] = "sent"
      BY <2>2 DEF Links, CallsAccounted, Row
    <3> QED
      BY <3>1 DEF RequestAccounted
  <2>4. Links'
    BY <2>1, <2>2, <2>3, <2>a, QuietRequest
  <2> QED
    BY <1>4, <2>1, <2>2, <2>4, ShapesOK DEF StartRefresh, TypeOK
<1> QED
  BY <1>1, <1>2, <1>3, <1>4

LEMMA QuietSignOutStep ==
  ASSUME TypeOK, Links, NEW o \in SignOuts, SendSignOut(o) \/ AnswerSignOut(o)
  PROVE  TypeOK' /\ Links'
<1>1. CASE SendSignOut(o)
  BY <1>1, SendStep DEF SendSignOut
<1>2. CASE AnswerSignOut(o)
  BY <1>2, AnswerStep DEF AnswerSignOut
<1> QED
  BY <1>1, <1>2

\* The end of a call whose response brings nothing, or is lost.
LEMMA QuietEnd ==
  ASSUME TypeOK, Links, NEW c \in Calls, Go(c, "answered", "done"),
         UNCHANGED <<workos, expired, ended, jar, nonce, sent, cookie, status, overtaken, left>>,
         lost' = lost \union ({cookie[c]} \ {None})
  PROVE  TypeOK' /\ Links'
<1>1. UNCHANGED <<issued, origin, successor, jar, nonce, overtaken, left>>
  BY DEF workos
<1>2. Row(c, "answered", "done", sent[c], cookie[c], status[c]) /\ Shapes
  BY <1>1, GoRow DEF Stage
<1>3. /\ lost \subseteq lost' /\ lost' \subseteq 1..issued
      /\ cookie[c] # None => cookie[c] \in lost'
  <2>1. cookie[c] \in 1..issued \union {None} /\ lost \subseteq 1..issued
    BY DEF TypeOK
  <2> QED
    BY <2>1
<1>4. ASSUME c \in Requests \union SignOuts PROVE Links'
  BY <1>1, <1>2, <1>3, <1>4, QuietRequest
<1>5. ASSUME c \in SignIns PROVE Links'
  <2>1. SignInAccounted(c)'
    BY <1>1, <1>2, <1>5 DEF Links, CallsAccounted, SignInAccounted, Row
  <2>2. c \notin Requests \union SignOuts
    BY <1>5, KindsDiffer
  <2>3. /\ c \in overtaken => cookie[c] = None
        /\ status[c] = 400 => c \in overtaken
    BY <1>5 DEF Links, OvertakenSignInFails
  <2> QED
    BY <1>1, <1>2, <1>3, <1>5, <2>1, <2>2, <2>3, QuietStep
<1>6. Links'
  BY <1>4, <1>5 DEF Calls
<1> QED
  BY <1>1, <1>2, <1>3, <1>6, ShapesOK

LEMMA QuietSignInStep ==
  ASSUME TypeOK, Links, NEW i \in SignIns,
         \/ Return(i) \/ CallbackRefused(i) \/ CodeRefused(i)
         \/ CallbackAccepted(i) \/ CallbackFails(i)
  PROVE  TypeOK' /\ Links'
<1>1. /\ i \in Calls /\ i \notin Requests \union SignOuts
      /\ UNCHANGED <<issued, origin, successor, jar, nonce, overtaken, left>>
  BY KindsDiffer DEF Return, CallbackRefused, CodeRefused, CallbackAccepted, CallbackFails,
                     workos, history
<1>2. issued' \in Nat /\ issued <= issued' /\ SignInAccounted(i)
  BY <1>1 DEF TypeOK, Links, CallsAccounted
<1>3. CASE Return(i)
  <2>1. nonce \in Sessions \union SignIns \union {None} /\ UNCHANGED lost
    BY <1>3 DEF TypeOK, Return, history
  <2>2. Row(i, "away", "returned", nonce, cookie[i], status[i]) /\ Shapes
    BY <1>1, <1>3, <2>1, SentRow DEF Return, Stage
  <2>3. SignInAccounted(i)'
    BY <1>1, <1>2, <2>2 DEF SignInAccounted, Row
  <2>4. cookie[i] = None /\ status[i] = None
    BY <1>2, <2>2 DEF SignInAccounted, Row
  <2>5. status[i] # 400
    BY <2>4, AuthAssumption
  <2>6. Links'
    BY <1>1, <2>1, <2>2, <2>3, <2>4, <2>5, QuietStep
  <2>7. UNCHANGED <<expired, ended>>
    BY <1>3 DEF Return
  <2> QED
    BY <1>1, <2>1, <2>2, <2>6, <2>7, ShapesOK DEF TypeOK
<1>4. CASE CallbackRefused(i) \/ CodeRefused(i)
  <2>1. PICK code \in {400, 401} : /\ Respond(i, "returned", code, None)
                                   /\ code = 400 => sent[i] # i
    BY <1>4 DEF CallbackRefused, CodeRefused, StateMatches
  <2>2. UNCHANGED <<sent, expired, ended, lost>>
    BY <1>4 DEF CallbackRefused, CodeRefused, history
  <2>3. Row(i, "returned", "answered", sent[i], None, code) /\ Shapes
    BY <1>1, <1>2, <2>1, <2>2, RespondRow DEF Stage
  <2>4. code = 400 => i \in overtaken
    BY <2>1, <2>3 DEF Links, StateCookie, Row
  <2>5. SignInAccounted(i)'
    BY <2>3 DEF SignInAccounted, Row
  <2>6. Links'
    BY <1>1, <2>2, <2>3, <2>4, <2>5, QuietStep
  <2> QED
    BY <1>1, <2>2, <2>3, <2>6, ShapesOK DEF TypeOK
<1>5. CASE CallbackAccepted(i)
  <2>1. Respond(i, "exchanged", 303, cookie[i]) /\ UNCHANGED <<sent, expired, ended, lost>>
    BY <1>5 DEF CallbackAccepted, history
  <2>2. cookie[i] \in 1..issued' \union {None}
    BY <1>1 DEF TypeOK
  <2>3. Row(i, "exchanged", "answered", sent[i], cookie[i], 303) /\ Shapes
    BY <1>1, <1>2, <2>1, <2>2, RespondRow DEF Stage
  <2>4. SignInAccounted(i)'
    BY <1>1, <1>2, <2>3 DEF SignInAccounted, Row
  <2>5. i \notin overtaken
    BY <2>3 DEF Links, OvertakenSignInFails, Row
  <2>6. Links'
    BY <1>1, <2>1, <2>3, <2>4, <2>5, QuietStep
  <2> QED
    BY <1>1, <2>1, <2>3, <2>6, ShapesOK DEF TypeOK
<1>6. CASE CallbackFails(i)
  <2>1. PICK code \in {401, 403} : Respond(i, "exchanged", code, None)
    BY <1>6 DEF CallbackFails
  <2>2. /\ UNCHANGED <<sent, expired, ended>> /\ lost' = lost \union {cookie[i]}
        /\ stage[i] = "exchanged"
    BY <1>6 DEF CallbackFails
  <2>3. cookie[i] \in 1..issued /\ lost' \subseteq 1..issued /\ lost \subseteq lost'
    <3>1. cookie[i] \in 1..issued \union {None} /\ lost \subseteq 1..issued
      BY <1>1 DEF TypeOK
    <3>2. cookie[i] # None
      BY <1>2, <2>2 DEF SignInAccounted
    <3>3. cookie[i] \in 1..issued
      BY <3>1, <3>2
    <3>4. lost' = lost \union {cookie[i]}
      BY <2>2
    <3>5. \A S : cookie[i] \in S /\ lost \subseteq S => lost' \subseteq S /\ lost \subseteq lost'
      BY <3>4
    <3> QED
      BY <3>1, <3>3, <3>5, Zenon
  <2>4. Row(i, "exchanged", "answered", sent[i], None, code) /\ Shapes
    BY <1>1, <1>2, <2>1, <2>2, RespondRow DEF Stage
  <2>5. SignInAccounted(i)'
    BY <2>4 DEF SignInAccounted, Row
  <2>6. Links'
    BY <1>1, <2>3, <2>4, <2>5, QuietStep
  <2> QED
    BY <1>1, <2>2, <2>3, <2>4, <2>6, ShapesOK
<1> QED
  BY <1>3, <1>4, <1>5, <1>6

-----------------------------------------------------------------------------
(* The state cookie.                                                       *)

\* Replacing it overtakes the sign-ins under way, and none that has come back. The
\* calls in C have ended, or are the sign-in that the new cookie is for.
LEMMA ReplaceKeeps ==
  ASSUME TypeOK, Links, NEW C \in SUBSET Calls, NEW n \in SignIns \union {None},
         ReplaceState(n), \A d \in Calls \ C : Untouched(d),
         n # None => n \in C /\ stage[n] = "new",
         \A c \in C : /\ cookie'[c] = cookie[c] /\ status'[c] = status[c]
                      /\ stage[c] # "away" /\ stage'[c] \in {"away", "done"}
                      /\ stage'[c] = "away" => c = n
  PROVE  StateCookie' /\ OvertakenSignInFails'
<1>1. nonce' = n /\ overtaken' = overtaken \union {i \in SignIns : stage[i] = "away"}
  BY DEF ReplaceState
<1>2. \A i \in SignIns : i \in Calls /\ i # None
  BY KindsDiffer
<1>3. StateCookie'
  <2> SUFFICES ASSUME NEW i \in SignIns
               PROVE  /\ stage'[i] = "new" => nonce' # i /\ i \notin overtaken'
                      /\ stage'[i] = "away" => (nonce' = i <=> i \notin overtaken')
                      /\ stage'[i] = "returned" => (sent'[i] = i <=> i \notin overtaken')
    BY DEF StateCookie
  <2>1. CASE i \in C
    BY <1>1, <1>2, <2>1 DEF Links, StateCookie
  <2>2. CASE i \notin C
    BY <1>1, <1>2, <2>2 DEF Links, StateCookie, Untouched
  <2> QED
    BY <2>1, <2>2
<1>4. OvertakenSignInFails'
  <2>1. ASSUME NEW i \in SignIns
        PROVE  /\ cookie'[i] = cookie[i] /\ status'[i] = status[i]
               /\ stage'[i] = "exchanged" => stage[i] = "exchanged"
    BY <1>2 DEF Untouched
  <2>2. \A i \in SignIns : stage[i] = "away" => cookie[i] = None
    BY DEF Links, CallsAccounted, SignInAccounted
  <2>3. overtaken \subseteq SignIns
    BY DEF TypeOK
  <2> QED
    BY <1>1, <2>1, <2>2, <2>3 DEF Links, OvertakenSignInFails
<1> QED
  BY <1>3, <1>4

\* A step after which sessions, jar and cookies are as before.
LEMMA NothingSet ==
  ASSUME TypeOK, Links, NEW C \in SUBSET Calls, Frame(C),
         UNCHANGED <<issued, origin, successor, jar, sent, cookie, left, lost>>,
         \A c \in C : c \in SignIns /\ SignInAccounted(c)' /\ stage[c] # "answered",
         StateCookie', OvertakenSignInFails'
  PROVE  Links'
<1>1. /\ CallsAccounted' /\ \A s : Over(s) => Over(s)'
      /\ \A i \in SignIns : Completed(i) => Completed(i)'
  BY FrameKeeps, KindsDiffer DEF Links, CallsAccounted
<1>2. OneCarrier' /\ Replacements' /\ SignedOutStays'
  BY DEF Links, OneCarrier, Replacements, SignedOutStays
<1>3. \A i \in left' : Completed(i)'
  BY <1>1 DEF Links, TypeOK
<1>4. jar' # None => Over(jar)' /\ Completed(origin[jar])'
  <2> SUFFICES ASSUME jar # None PROVE Over(jar)' /\ Completed(origin[jar])'
    OBVIOUS
  <2>1. Over(jar) /\ Completed(origin[jar]) /\ origin[jar] \in SignIns
    BY SessionFacts DEF Links, TypeOK
  <2> QED
    BY <1>1, <2>1 DEF Over, Completed
<1>5. SessionKept'
  <2>1. ASSUME NEW s, OnItsWay(s) PROVE OnItsWay(s)'
    BY <2>1 DEF OnItsWay, Frame, Untouched
  <2> QED
    BY <2>1 DEF Links, SessionKept, OnItsWay
<1> QED
  BY <1>1, <1>2, <1>3, <1>4, <1>5 DEF Links

LEMMA TimeStep ==
  ASSUME TypeOK, Links, (\E s \in Sessions : AccessExpires(s)) \/ StateExpires
  PROVE  TypeOK' /\ Links'
<1>1. /\ UNCHANGED <<issued, origin, successor, ended, jar, stage, sent, cookie, status>>
      /\ UNCHANGED <<left, lost>>
  BY DEF AccessExpires, StateExpires, workos, history
<1>2. Frame({}) /\ \A d \in Calls : Untouched(d)
  BY <1>1 DEF Frame, Untouched, TypeOK
<1>3. CASE \E s \in Sessions : AccessExpires(s)
  <2>1. UNCHANGED <<nonce, overtaken>> /\ expired' \subseteq 1..issued
    BY <1>3 DEF AccessExpires, history, TypeOK, Sessions
  <2>2. StateCookie' /\ OvertakenSignInFails'
    BY <1>1, <2>1 DEF Links, StateCookie, OvertakenSignInFails
  <2> QED
    BY <1>1, <1>2, <2>1, <2>2, NothingSet DEF TypeOK
<1>4. CASE StateExpires
  <2>1. ReplaceState(None) /\ UNCHANGED expired
    BY <1>4 DEF StateExpires
  <2>2. StateCookie' /\ OvertakenSignInFails'
    BY <1>2, <2>1, ReplaceKeeps
  <2>3. nonce' = None /\ overtaken' \subseteq SignIns
    BY <2>1 DEF ReplaceState, TypeOK
  <2>4. TypeOK'
    BY <1>1, <2>1, <2>3 DEF TypeOK
  <2> QED
    BY <1>1, <1>2, <2>2, <2>4, NothingSet
<1> QED
  BY <1>3, <1>4

LEMMA BeginSignInStep ==
  ASSUME TypeOK, Links, NEW i \in SignIns, BeginSignIn(i)
  PROVE  TypeOK' /\ Links'
<1>1. /\ i \in Calls /\ i # None /\ ReplaceState(i)
      /\ UNCHANGED <<issued, origin, successor, expired, ended, jar, sent, cookie, status>>
      /\ UNCHANGED <<left, lost>>
  BY KindsDiffer DEF BeginSignIn, workos
<1>2. Row(i, "new", "away", sent[i], cookie[i], status[i]) /\ Shapes
  BY <1>1, GoRow DEF BeginSignIn, Stage
<1>3. Frame({i})
  BY <1>1, <1>2, RowIsFrame
<1>4. StateCookie' /\ OvertakenSignInFails'
  <2>1. {i} \in SUBSET Calls /\ \A d \in Calls \ {i} : Untouched(d)
    BY <1>1, <1>2 DEF Row
  <2>2. \A c \in {i} : /\ cookie'[c] = cookie[c] /\ status'[c] = status[c]
                       /\ stage[c] # "away" /\ stage'[c] \in {"away", "done"}
                       /\ stage'[c] = "away" => c = i
    BY <1>2 DEF Row
  <2>3. i \in {i} /\ stage[i] = "new"
    BY <1>2 DEF Row
  <2> QED
    BY <1>1, <2>1, <2>2, <2>3, ReplaceKeeps
<1>5. SignInAccounted(i)'
  BY <1>1, <1>2 DEF Links, CallsAccounted, SignInAccounted, Row
<1>6. Links'
  BY <1>1, <1>2, <1>3, <1>4, <1>5, NothingSet DEF Row
<1>7. nonce' = i /\ overtaken' \subseteq SignIns
  BY <1>1 DEF ReplaceState, TypeOK
<1>8. TypeOK'
  BY <1>1, <1>2, <1>7 DEF TypeOK, Shapes, Stage
<1> QED
  BY <1>6, <1>8

-----------------------------------------------------------------------------
(* Responses that reach the browser.                                       *)

\* A session reaches the jar. No request has been sent with it yet, so that, if it
\* has been replaced, that was in vain.
LEMMA ArriveStep ==
  ASSUME TypeOK, Links, NEW c \in Requests \union SignIns, cookie[c] # None,
         Row(c, "answered", "done", sent[c], cookie[c], status[c]), jar' = cookie[c],
         UNCHANGED <<issued, origin, successor, left, lost>>,
         StateCookie', OvertakenSignInFails'
  PROVE  Links'
<1>1. /\ c \in Calls /\ cookie[c] \in 1..issued /\ cookie[c] \in Sessions
      /\ origin[cookie[c]] \in SignIns
  <2>1. c \in Calls
    BY KindsDiffer
  <2>2. cookie[c] \in 1..issued
    BY <2>1 DEF TypeOK
  <2> QED
    BY <2>1, <2>2, SessionFacts
<1>2. /\ \A d \in Calls : cookie'[d] = cookie[d] /\ sent'[d] = sent[d] /\ status'[d] = status[d]
      /\ stage[c] = "answered" /\ stage'[c] = "done"
      /\ \A d \in Calls \ {c} : stage'[d] = stage[d]
  BY DEF Row, Untouched
<1>3. Frame({c}) /\ {c} \in SUBSET Calls
  BY <1>1, RowIsFrame
<1>4. /\ \A s : Over(s) => Over(s)'
      /\ \A i \in SignIns : Completed(i) => Completed(i)'
  BY <1>3, FrameKeeps DEF Links
<1>5. CallsAccounted'
  <2>1. c \in Requests => RequestAccounted(c)'
    BY <1>2, <1>3, AccountedAgain
  <2>2. c \in SignIns => SignInAccounted(c)'
    BY <1>2 DEF Links, CallsAccounted, SignInAccounted, Row
  <2>3. c \notin SignOuts
    BY KindsDiffer
  <2> QED
    BY <1>3, <2>1, <2>2, <2>3, FrameKeeps, KindsDiffer DEF Links, CallsAccounted
<1>6. OneCarrier'
  BY <1>2 DEF Links, OneCarrier
<1>7. Replacements'
  BY <1>2, KindsDiffer DEF Links, Replacements
<1>8. \A i \in left' : Completed(i)'
  BY <1>4 DEF Links, TypeOK
<1>9. Over(jar)'
  BY <1>1, <1>2 DEF Over
<1>10. Completed(origin[jar])'
  <2>1. PICK i \in SignIns : i = origin[cookie[c]]
    BY <1>1
  <2>2. Completed(i)'
    <3>1. CASE c \in Requests
      <4>1. RequestAccounted(c)
        BY <3>1 DEF Links, CallsAccounted
      <4>2. Completed(i)
        BY <1>1, <2>1, <4>1 DEF RequestAccounted
      <4> QED
        BY <1>4, <4>2
    <3>2. CASE c \in SignIns
      <4>1. i = c /\ status[c] = 303
        BY <1>2, <2>1, <3>2 DEF Links, CallsAccounted, SignInAccounted
      <4> QED
        BY <1>1, <1>2, <4>1 DEF Completed
    <3> QED
      BY <3>1, <3>2
  <2>3. origin'[jar'] = i
    BY <2>1
  <2> QED
    BY <2>2, <2>3 DEF Completed
<1>11. SessionKept'
  <2> SUFFICES ASSUME successor[cookie[c]] # None PROVE successor[cookie[c]] \in lost'
    BY DEF SessionKept
  <2>1. ASSUME NEW r \in Requests, sent[r] = cookie[c] PROVE FALSE
    <3>1. Over(cookie[c])
      BY <2>1 DEF Links, CallsAccounted, RequestAccounted
    <3>2. PICK d \in Calls : cookie[d] = cookie[c] /\ stage[d] = "done"
      BY <3>1 DEF Over
    <3>3. d = c
      BY <1>1, <3>2 DEF Links, OneCarrier
    <3> QED
      BY <1>2, <3>2, <3>3
  <2> QED
    BY <1>1, <2>1 DEF Links, Replacements
<1>12. SignedOutStays'
  <2>1. CASE c \in Requests
    BY <1>1, <1>2, <2>1 DEF SignedOutStays
  <2>2. CASE c \in SignIns
    <3>1. origin[cookie[c]] = c
      BY <2>2 DEF Links, CallsAccounted, SignInAccounted
    <3>2. c \notin left
      BY <1>2 DEF Links, Completed
    <3> QED
      BY <3>1, <3>2 DEF SignedOutStays
  <2> QED
    BY <2>1, <2>2
<1> QED
  BY <1>5, <1>6, <1>7, <1>8, <1>9, <1>10, <1>11, <1>12 DEF Links

LEMMA DeliverToRequestStep ==
  ASSUME TypeOK, Links, NEW r \in Requests, DeliverToRequest(r)
  PROVE  TypeOK' /\ Links'
<1>1. /\ r \in Calls /\ Go(r, "answered", "done")
      /\ jar' = IF cookie[r] # None THEN cookie[r] ELSE jar
      /\ UNCHANGED <<workos, expired, ended, nonce, sent, cookie, status>>
      /\ UNCHANGED <<overtaken, left, lost>>
  BY KindsDiffer DEF DeliverToRequest, history
<1>2. CASE cookie[r] = None
  <2>1. lost' = lost \union ({cookie[r]} \ {None}) /\ UNCHANGED jar
    BY <1>1, <1>2
  <2> QED
    BY <1>1, <2>1, QuietEnd
<1>3. CASE cookie[r] # None
  <2>1. jar' = cookie[r] /\ UNCHANGED <<issued, origin, successor>>
    BY <1>1, <1>3 DEF workos
  <2>2. Row(r, "answered", "done", sent[r], cookie[r], status[r]) /\ Shapes
    BY <1>1, <2>1, GoRow DEF Stage
  <2>3. \A i \in SignIns : Untouched(i)
    BY <2>2, KindsDiffer DEF Row
  <2>4. StateCookie' /\ OvertakenSignInFails'
    BY <1>1, <2>3 DEF Links, StateCookie, OvertakenSignInFails, Untouched, TypeOK
  <2>5. Links'
    BY <1>1, <1>3, <2>1, <2>2, <2>4, ArriveStep
  <2>6. cookie[r] \in 1..issued
    BY <1>1, <1>3 DEF TypeOK
  <2>7. TypeOK'
    BY <1>1, <2>1, <2>2, <2>6 DEF TypeOK, Shapes, Stage
  <2> QED
    BY <2>5, <2>7
<1> QED
  BY <1>2, <1>3

LEMMA DeliverToSignInStep ==
  ASSUME TypeOK, Links, NEW i \in SignIns, DeliverToSignIn(i)
  PROVE  TypeOK' /\ Links'
<1>1. /\ i \in Calls /\ i # None /\ Go(i, "answered", "done")
      /\ UNCHANGED <<workos, expired, ended, sent, cookie, status, left, lost>>
  BY KindsDiffer DEF DeliverToSignIn
<1>2. CASE cookie[i] = None
  <2>1. lost' = lost \union ({cookie[i]} \ {None}) /\ UNCHANGED <<jar, nonce, overtaken>>
    BY <1>1, <1>2 DEF DeliverToSignIn
  <2> QED
    BY <1>1, <2>1, QuietEnd
<1>3. CASE cookie[i] # None
  <2>1. jar' = cookie[i] /\ ReplaceState(None) /\ UNCHANGED <<issued, origin, successor>>
    BY <1>1, <1>3 DEF DeliverToSignIn, workos
  <2>2. Row(i, "answered", "done", sent[i], cookie[i], status[i]) /\ Shapes
    BY <1>1, <2>1, GoRow DEF Stage
  <2>3. StateCookie' /\ OvertakenSignInFails'
    <3>1. {i} \in SUBSET Calls /\ \A d \in Calls \ {i} : Untouched(d)
      BY <1>1, <2>2 DEF Row
    <3>2. \A c \in {i} : /\ cookie'[c] = cookie[c] /\ status'[c] = status[c]
                         /\ stage[c] # "away" /\ stage'[c] \in {"away", "done"}
                         /\ stage'[c] = "away" => c = None
      BY <2>2 DEF Row
    <3> QED
      BY <2>1, <3>1, <3>2, ReplaceKeeps
  <2>4. Links'
    BY <1>1, <1>3, <2>1, <2>2, <2>3, ArriveStep
  <2>5. cookie[i] \in 1..issued
    BY <1>1, <1>3 DEF TypeOK
  <2>6. nonce' = None /\ overtaken' \subseteq SignIns
    BY <2>1 DEF ReplaceState, TypeOK
  <2>7. TypeOK'
    BY <1>1, <2>1, <2>2, <2>5, <2>6 DEF TypeOK, Shapes, Stage
  <2> QED
    BY <2>4, <2>7
<1> QED
  BY <1>2, <1>3

\* The browser has nothing left; the sign-in it leaves is one that had completed.
LEMMA DeliverToSignOutStep ==
  ASSUME TypeOK, Links, NEW o \in SignOuts, DeliverToSignOut(o)
  PROVE  TypeOK' /\ Links'
<1> DEFINE of == {origin[s] : s \in {sent[o]} \ {None}}
<1>1. /\ o \in Calls /\ o \notin SignIns /\ Go(o, "answered", "done")
      /\ UNCHANGED <<issued, origin, successor, expired, nonce, sent, cookie, status>>
      /\ UNCHANGED <<overtaken, lost>>
      /\ jar' = None /\ left' = left \union of /\ ended' \in {ended, ended \union of}
  BY KindsDiffer DEF DeliverToSignOut, workos
<1>2. Row(o, "answered", "done", sent[o], cookie[o], status[o]) /\ Shapes
  BY <1>1, GoRow DEF Stage
<1>3. Frame({o}) /\ {o} \in SUBSET Calls /\ CallsAccounted
  BY <1>1, <1>2, RowIsFrame DEF Links
<1>4. RequestAccounted(o)'
  BY <1>1, <1>2, <1>3, AccountedAgain DEF Row
<1>5. CallsAccounted'
  BY <1>1, <1>3, <1>4, FrameKeeps DEF CallsAccounted
<1>6. \A i \in of : i \in SignIns /\ Completed(i)
  BY <1>3, SessionFacts DEF CallsAccounted, RequestAccounted
<1>7. \A i \in left' : i \in SignIns /\ Completed(i)'
  <2>1. \A i \in left' : i \in SignIns /\ Completed(i)
    BY <1>1, <1>6 DEF Links, TypeOK
  <2> QED
    BY <1>3, <2>1, FrameKeeps
<1>8. OneCarrier' /\ Replacements' /\ SessionKept' /\ SignedOutStays'
  BY <1>1 DEF Links, OneCarrier, Replacements, SessionKept, SignedOutStays
<1>9. StateCookie' /\ OvertakenSignInFails'
  <2>1. \A i \in SignIns : Untouched(i)
    BY <1>1, <1>2, KindsDiffer DEF Row
  <2> QED
    BY <1>1, <2>1 DEF Links, StateCookie, OvertakenSignInFails, Untouched, TypeOK
<1>10. Links'
  BY <1>1, <1>5, <1>7, <1>8, <1>9 DEF Links
<1>11. ended' \subseteq SignIns /\ left' \subseteq SignIns
  BY <1>1, <1>6 DEF TypeOK
<1>12. TypeOK'
  <2> HIDE DEF of
  <2> QED
    BY <1>1, <1>2, <1>11 DEF TypeOK, Shapes, Stage
<1> QED
  BY <1>10, <1>12

-----------------------------------------------------------------------------
(* New sessions.                                                           *)

\* What becomes of a session that replaces another, if one is issued to call c.
PassedOn(c, to, set) ==
  /\ successor' \in [Sessions -> Sessions \union {None}]
  /\ \A s \in Sessions : successor'[s] # successor[s] =>
       /\ successor'[s] = NextSession
       /\ \/ NextSession \in lost'
          \/ c \in Requests /\ to = "answered" /\ set = NextSession /\ sent[c] = s

\* A session of sign-in i is issued to call c: the code of the sign-in is exchanged,
\* or a session is replaced, and the new one is lost or goes to the request it is for.
IssuedTo(c, from, to, set, code, i) ==
  /\ Row(c, from, to, sent[c], set, code)
  /\ Issue(i)
  /\ UNCHANGED <<jar, nonce, overtaken, left>>
  /\ lost \subseteq lost'
  /\ set \in {None, cookie[c], NextSession}
  /\ PassedOn(c, to, set)
  /\ c \in Requests \union SignOuts => cookie[c] = None /\ RequestAccounted(c)'
  /\ c \in SignIns => SignInAccounted(c)' /\ c \notin overtaken /\ code # 400

\* Every link between the sessions survives such a step.
LEMMA IssueStep ==
  ASSUME TypeOK, Links, NEW c \in Calls, NEW from \in {"returned", "exchanged", "refreshing"},
         NEW to \in {"exchanged", "answered"}, NEW set, NEW code, NEW i \in SignIns,
         IssuedTo(c, from, to, set, code, i)
  PROVE  Links'
<1>0. /\ Row(c, from, to, sent[c], set, code)
      /\ Issue(i) /\ PassedOn(c, to, set)
      /\ UNCHANGED <<jar, nonce, overtaken, left>>
      /\ lost \subseteq lost' /\ set \in {None, cookie[c], NextSession}
      /\ c \in Requests \union SignOuts => cookie[c] = None /\ RequestAccounted(c)'
      /\ c \in SignIns => SignInAccounted(c)' /\ c \notin overtaken /\ code # 400
  BY DEF IssuedTo
<1> USE <1>0
<1>1. /\ \A d \in Calls \ {c} : Untouched(d)
      /\ stage[c] = from /\ stage'[c] = to /\ sent'[c] = sent[c]
      /\ cookie'[c] = set /\ status'[c] = code
  BY DEF Row
<1>2. /\ issued \in Nat /\ NextSession = issued + 1 /\ NextSession \in Sessions
      /\ issued' = issued + 1 /\ \A s \in 1..issued : origin'[s] = origin[s]
  BY IssueFacts
<1>3. Frame({c}) /\ {c} \in SUBSET Calls /\ CallsAccounted
  BY <1>1, <1>2 DEF Frame, Links
<1>4. /\ \A s : Over(s) => Over(s)'
      /\ \A j \in SignIns : Completed(j) => Completed(j)'
  BY <1>3, FrameKeeps
<1>5. CallsAccounted'
  BY <1>3, FrameKeeps, KindsDiffer DEF CallsAccounted
<1>6. OneCarrier'
  <2>1. \A d \in Calls : cookie[d] # NextSession
    BY <1>2, AuthAssumption DEF TypeOK
  <2> QED
    BY <1>1, <2>1 DEF Links, OneCarrier, Untouched
<1>7. \A d \in Requests : cookie[d] # None => cookie'[d] = cookie[d] /\ sent'[d] = sent[d]
  BY <1>1, KindsDiffer DEF Untouched
<1>8. Replacements'
  <2> SUFFICES ASSUME NEW s \in Sessions, successor'[s] # None
               PROVE  \/ successor'[s] \in lost'
                      \/ \E r \in Requests : cookie'[r] = successor'[s] /\ sent'[r] = s
    BY DEF Replacements
  <2>1. CASE successor'[s] = successor[s]
    BY <1>7, <2>1 DEF Links, Replacements
  <2>2. CASE successor'[s] # successor[s]
    BY <1>1, <2>2 DEF PassedOn
  <2> QED
    BY <2>1, <2>2
<1>9. StateCookie'
  <2>1. \A j \in SignIns \ {c} : Untouched(j)
    BY <1>1, KindsDiffer
  <2> QED
    BY <1>1, <2>1 DEF Links, StateCookie, Untouched
<1>10. \A j \in left' : Completed(j)'
  BY <1>4 DEF Links, TypeOK
<1>11. jar # None => /\ jar \in 1..issued /\ jar \in Sessions /\ origin[jar] \in SignIns
                     /\ origin'[jar] = origin[jar]
  BY <1>2, SessionFacts DEF TypeOK
<1>12. jar' # None => Over(jar)' /\ Completed(origin[jar])'
  <2> SUFFICES ASSUME jar # None PROVE Over(jar)' /\ Completed(origin[jar])'
    OBVIOUS
  <2>1. PICK j \in SignIns : j = origin[jar] /\ origin'[jar'] = j
    BY <1>11
  <2>2. Over(jar) /\ Completed(j)
    BY <2>1 DEF Links
  <2>3. Over(jar)' /\ Completed(j)'
    BY <1>4, <2>2 DEF Over
  <2> QED
    BY <2>1, <2>3 DEF Completed
<1>13. SessionKept'
  <2> SUFFICES ASSUME jar # None, successor'[jar] # None
               PROVE  successor'[jar] \in lost' \/ \E d \in Calls : /\ stage'[d] = "answered"
                                                                  /\ cookie'[d] = successor'[jar]
    BY DEF SessionKept, OnItsWay
  <2>1. CASE successor'[jar] = successor[jar]
    <3>1. successor[jar] \in lost \/ OnItsWay(successor[jar])
      BY <2>1 DEF Links, SessionKept
    <3>2. ASSUME NEW d \in Calls, stage[d] = "answered"
          PROVE  stage'[d] = "answered" /\ cookie'[d] = cookie[d]
      BY <1>1, <3>2 DEF Untouched
    <3> QED
      BY <2>1, <3>1, <3>2 DEF OnItsWay
  <2>2. CASE successor'[jar] # successor[jar]
    BY <1>1, <1>11, <2>2 DEF PassedOn
  <2> QED
    BY <2>1, <2>2
<1>14. OvertakenSignInFails'
  <2>1. \A j \in SignIns \ {c} : Untouched(j)
    BY <1>1, KindsDiffer
  <2>2. c \notin overtaken
    BY DEF TypeOK
  <2> QED
    BY <1>1, <2>1, <2>2 DEF Links, OvertakenSignInFails, Untouched, TypeOK
<1>15. SignedOutStays'
  BY <1>7, <1>11 DEF Links, SignedOutStays
<1> QED
  BY <1>5, <1>6, <1>8, <1>9, <1>10, <1>12, <1>13, <1>14, <1>15 DEF Links

LEMMA IssueShapes ==
  ASSUME TypeOK, Shapes, NEW i \in SignIns, Issue(i), lost' \subseteq 1..issued',
         successor' \in [Sessions -> Sessions \union {None}],
         UNCHANGED <<expired, ended, jar, nonce, overtaken, left>>
  PROVE  TypeOK'
<1>1. /\ issued \in Nat /\ issued' = issued + 1 /\ issued' \in 0..MaxSessions
      /\ origin' \in [Sessions -> SignIns \union {None}]
      /\ \A s \in Sessions : origin'[s] # None <=> s <= issued'
  BY IssueFacts
<1>2. 1..issued \subseteq 1..issued'
  BY <1>1
<1>3. expired' \subseteq 1..issued' /\ jar' \in 1..issued' \union {None}
  BY <1>2 DEF TypeOK
<1> QED
  BY <1>1, <1>3 DEF TypeOK, Shapes, Stage

LEMMA CodeAcceptedStep ==
  ASSUME TypeOK, Links, NEW i \in SignIns, CodeAccepted(i)
  PROVE  TypeOK' /\ Links'
<1>1. /\ i \in Calls /\ i \notin Requests \union SignOuts /\ Issue(i) /\ sent[i] = i
      /\ Go(i, "returned", "exchanged") /\ cookie' = [cookie EXCEPT ![i] = NextSession]
      /\ UNCHANGED <<successor, expired, ended, jar, nonce, sent, status>>
      /\ UNCHANGED <<overtaken, left, lost>>
  BY KindsDiffer DEF CodeAccepted, StateMatches, history
<1>2. /\ issued \in Nat /\ NextSession = issued + 1 /\ issued' = issued + 1
      /\ NextSession \in 1..issued' /\ origin'[NextSession] = i /\ 1..issued \subseteq 1..issued'
      /\ NextSession # None
  BY <1>1, IssueFacts, AuthAssumption
<1>3. /\ cookie' \in [Calls -> 1..issued' \union {None}] /\ cookie'[i] = NextSession
      /\ \A d \in Calls \ {i} : cookie'[d] = cookie[d]
  BY <1>1, <1>2 DEF TypeOK
<1>4. stage[i] = "returned" /\ stage' \in [Calls -> Stage] /\ stage'[i] = "exchanged"
      /\ \A d \in Calls \ {i} : stage'[d] = stage[d]
  BY <1>1, GoFacts DEF Stage
<1>5. Row(i, "returned", "exchanged", sent[i], NextSession, status[i])
  BY <1>1, <1>3, <1>4 DEF Row, Untouched
<1>6. SignInAccounted(i) /\ status[i] = None /\ i \notin overtaken
  BY <1>1, <1>4 DEF Links, CallsAccounted, SignInAccounted, StateCookie
<1>7. SignInAccounted(i)'
  BY <1>1, <1>2, <1>3, <1>4, <1>6 DEF SignInAccounted
<1>8. status[i] # 400 /\ status[i] # 401
  BY <1>6, AuthAssumption
<1>9. Shapes
  BY <1>1, <1>3, <1>4, <1>8 DEF Shapes, TypeOK
<1>10. /\ successor' \in [Sessions -> Sessions \union {None}] /\ lost' \subseteq 1..issued'
       /\ PassedOn(i, "exchanged", NextSession)
  BY <1>1, <1>2 DEF TypeOK, PassedOn
<1>11. Links'
  <2>1. IssuedTo(i, "returned", "exchanged", NextSession, status[i], i)
    BY <1>1, <1>5, <1>6, <1>7, <1>8, <1>10 DEF IssuedTo
  <2> QED
    BY <1>1, <2>1, IssueStep
<1> QED
  BY <1>1, <1>9, <1>10, <1>11, IssueShapes

\* The refreshed session of a sign-in is lost at once.
LEMMA CallbackRefreshesStep ==
  ASSUME TypeOK, Links, NEW i \in SignIns, CallbackRefreshes(i)
  PROVE  TypeOK' /\ Links'
<1>1. /\ i \in Calls /\ i \notin Requests \union SignOuts /\ stage[i] = "exchanged"
      /\ Renew(cookie[i]) /\ lost' = lost \union {NextSession}
      /\ Respond(i, "exchanged", 303, cookie[i])
      /\ UNCHANGED <<expired, ended, jar, nonce, sent, overtaken, left>>
  BY KindsDiffer DEF CallbackRefreshes
<1>2. SignInAccounted(i) /\ cookie[i] # None /\ i \notin overtaken
  BY <1>1 DEF Links, CallsAccounted, SignInAccounted, OvertakenSignInFails
<1>3. cookie[i] \in 1..issued
  BY <1>1, <1>2 DEF TypeOK
<1>4. /\ cookie[i] \in Sessions /\ origin[cookie[i]] \in SignIns /\ Issue(origin[cookie[i]])
      /\ successor' \in [Sessions -> Sessions \union {None}]
      /\ successor'[cookie[i]] = NextSession
      /\ \A t \in Sessions : t # cookie[i] => successor'[t] = successor[t]
  BY <1>1, <1>3, RenewFacts
<1>5. PICK j \in SignIns : j = origin[cookie[i]]
  BY <1>4
<1>6. Issue(j)
  BY <1>4, <1>5
<1>7. /\ issued \in Nat /\ NextSession = issued + 1 /\ issued' = issued + 1
      /\ origin'[cookie[i]] = origin[cookie[i]] /\ NextSession \in 1..issued'
      /\ 1..issued \subseteq 1..issued'
  BY <1>3, <1>6, IssueFacts
<1>8. Row(i, "exchanged", "answered", sent[i], cookie[i], 303) /\ Shapes
  <2>1. cookie[i] \in 1..issued' \union {None} /\ issued' \in Nat /\ issued <= issued'
    BY <1>3, <1>7
  <2> QED
    BY <1>1, <2>1, RespondRow DEF Stage
<1>9. SignInAccounted(i)'
  BY <1>2, <1>7, <1>8 DEF SignInAccounted, Row
<1>10. lost \subseteq lost' /\ NextSession \in lost' /\ lost' \subseteq 1..issued'
  BY <1>1, <1>7 DEF TypeOK
<1>11. PassedOn(i, "answered", cookie[i])
  BY <1>4, <1>10 DEF PassedOn
<1>12. UNCHANGED <<jar, nonce, overtaken, left>> /\ 303 # 400
  BY <1>1
<1>13. Links'
  <2>1. IssuedTo(i, "exchanged", "answered", cookie[i], 303, j)
    BY <1>1, <1>2, <1>6, <1>8, <1>9, <1>10, <1>11, <1>12 DEF IssuedTo
  <2> QED
    BY <1>1, <2>1, IssueStep
<1> QED
  BY <1>1, <1>4, <1>6, <1>8, <1>10, <1>13, IssueShapes

\* The refreshed session of a request goes to the browser, or is lost.
LEMMA RefreshStep ==
  ASSUME TypeOK, Links, NEW r \in Requests, Refreshed(r) \/ RefreshedInVain(r)
  PROVE  TypeOK' /\ Links'
<1>1. /\ r \in Calls /\ r \notin SignIns /\ stage[r] = "refreshing" /\ Renew(sent[r])
      /\ UNCHANGED <<expired, ended, jar, nonce, sent, overtaken, left>>
  BY KindsDiffer DEF Refreshed, RefreshedInVain, history
<1>2. RequestAccounted(r) /\ sent[r] # None /\ sent[r] \in 1..issued /\ cookie[r] = None
  BY <1>1 DEF Links, CallsAccounted, RequestAccounted
<1>3. /\ sent[r] \in Sessions /\ origin[sent[r]] \in SignIns /\ Issue(origin[sent[r]])
      /\ successor' \in [Sessions -> Sessions \union {None}]
      /\ successor'[sent[r]] = NextSession
      /\ \A t \in Sessions : t # sent[r] => successor'[t] = successor[t]
  BY <1>1, <1>2, RenewFacts
<1>4. PICK j \in SignIns : j = origin[sent[r]] /\ Issue(j)
  BY <1>3
<1>5. /\ issued \in Nat /\ NextSession = issued + 1 /\ issued' = issued + 1
      /\ NextSession \in 1..issued' /\ 1..issued \subseteq 1..issued'
      /\ origin'[sent[r]] = j /\ origin'[NextSession] = j
      /\ issued' \in Nat /\ issued <= issued'
  BY <1>2, <1>4, IssueFacts
<1>6. ASSUME NEW code \in {200, 303, 400, 401, 403, 500}, NEW set \in {None, NextSession},
             Respond(r, "refreshing", code, set), code = 401 => set = None
      PROVE  /\ Row(r, "refreshing", "answered", sent[r], set, code) /\ Shapes
             /\ RequestAccounted(r)'
  <2>1. Row(r, "refreshing", "answered", sent[r], set, code) /\ Shapes
    BY <1>1, <1>5, <1>6, RespondRow DEF Stage
  <2>2. Frame({r}) /\ {r} \in SUBSET Calls /\ CallsAccounted
    BY <1>1, <1>4, <1>5, <2>1, IssueFacts DEF Row, Frame, Links
  <2>3. Over(sent[r])' /\ Completed(origin[sent[r]])'
    <3>1. Over(sent[r]) /\ Completed(j)
      BY <1>2, <1>4 DEF RequestAccounted
    <3>2. Over(sent[r])' /\ Completed(j)'
      BY <1>1, <2>2, <3>1, FrameKeeps DEF Over
    <3> QED
      BY <1>1, <1>5, <3>2 DEF Completed
  <2> QED
    BY <1>1, <1>2, <1>5, <2>1, <2>3 DEF RequestAccounted, Row, Over, Completed
<1>7. CASE Refreshed(r)
  <2>1. PICK code \in {200, 400, 403, 500} : Respond(r, "refreshing", code, NextSession)
    BY <1>7 DEF Refreshed, Handled
  <2>2. /\ Row(r, "refreshing", "answered", sent[r], NextSession, code) /\ Shapes
        /\ RequestAccounted(r)'
    BY <1>6, <2>1
  <2>3. lost' = lost
    BY <1>7 DEF Refreshed, history
  <2>4. lost' \subseteq 1..issued'
    BY <1>5, <2>3 DEF TypeOK
  <2>5. PassedOn(r, "answered", NextSession)
    BY <1>3 DEF PassedOn
  <2>6. UNCHANGED <<jar, nonce, overtaken, left>> /\ lost \subseteq lost'
    BY <1>1, <2>3
  <2>7. Links'
    <3>1. IssuedTo(r, "refreshing", "answered", NextSession, code, j)
      BY <1>1, <1>2, <1>4, <2>2, <2>5, <2>6 DEF IssuedTo
    <3> QED
      BY <1>1, <3>1, IssueStep
  <2> QED
    BY <1>1, <1>3, <1>4, <2>2, <2>4, <2>7, IssueShapes
<1>8. CASE RefreshedInVain(r)
  <2>1. PICK code \in {401, 403} : Respond(r, "refreshing", code, None)
    BY <1>8 DEF RefreshedInVain
  <2>2. /\ Row(r, "refreshing", "answered", sent[r], None, code) /\ Shapes
        /\ RequestAccounted(r)'
    BY <1>6, <2>1
  <2>3. lost' = lost \union {NextSession}
    BY <1>8 DEF RefreshedInVain
  <2>4. lost \subseteq lost' /\ NextSession \in lost' /\ lost' \subseteq 1..issued'
    BY <1>5, <2>3 DEF TypeOK
  <2>5. PassedOn(r, "answered", None)
    BY <1>3, <2>4 DEF PassedOn
  <2>6. UNCHANGED <<jar, nonce, overtaken, left>>
    BY <1>1
  <2>7. Links'
    <3>1. IssuedTo(r, "refreshing", "answered", None, code, j)
      BY <1>1, <1>2, <1>4, <2>2, <2>4, <2>5, <2>6 DEF IssuedTo
    <3> QED
      BY <1>1, <3>1, IssueStep
  <2> QED
    BY <1>1, <1>3, <1>4, <2>2, <2>4, <2>7, IssueShapes
<1> QED
  BY <1>7, <1>8

-----------------------------------------------------------------------------
(* The theorems.                                                           *)

LEMMA LostResponse ==
  ASSUME TypeOK, Links, NEW c \in Calls, ResponseLost(c)
  PROVE  TypeOK' /\ Links'
BY QuietEnd DEF ResponseLost

LEMMA StepIndInv ==
  IndInv /\ [Next]_vars => IndInv'
<1> SUFFICES ASSUME TypeOK, Links, [Next]_vars PROVE TypeOK' /\ Links'
  BY IndInvParts DEF IndInv, SignedInHere, Links
<1>1. CASE (\E s \in Sessions : AccessExpires(s)) \/ StateExpires
  BY <1>1, TimeStep
<1>2. ASSUME NEW i \in SignIns, SignIn(i) \/ DeliverToSignIn(i) PROVE TypeOK' /\ Links'
  BY <1>2, BeginSignInStep, QuietSignInStep, CodeAcceptedStep, CallbackRefreshesStep,
     DeliverToSignInStep DEF SignIn
<1>3. ASSUME NEW r \in Requests, Send(r) \/ Authenticate(r) \/ DeliverToRequest(r)
      PROVE  TypeOK' /\ Links'
  BY <1>3, QuietRequestStep, RefreshStep, DeliverToRequestStep DEF Authenticate
<1>4. ASSUME NEW o \in SignOuts, SendSignOut(o) \/ AnswerSignOut(o) \/ DeliverToSignOut(o)
      PROVE  TypeOK' /\ Links'
  BY <1>4, QuietSignOutStep, DeliverToSignOutStep
<1>5. CASE \E c \in Calls : ResponseLost(c)
  BY <1>5, LostResponse
<1>6. CASE UNCHANGED vars
  <2>1. /\ UNCHANGED <<issued, origin, successor, expired, ended, jar, nonce, stage, sent>>
        /\ UNCHANGED <<cookie, status, overtaken, left, lost>>
    BY <1>6 DEF vars
  <2>2. TypeOK'
    BY <2>1 DEF TypeOK
  <2>3. CallsAccounted' /\ \A i \in left' : Completed(i)'
    BY <2>1 DEF Links, CallsAccounted, RequestAccounted, SignInAccounted, Over, Completed
  <2>4. OneCarrier' /\ Replacements' /\ StateCookie' /\ OvertakenSignInFails' /\ SignedOutStays'
    BY <2>1 DEF Links, OneCarrier, Replacements, StateCookie, OvertakenSignInFails, SignedOutStays
  <2>5. (jar' # None => Over(jar)' /\ Completed(origin[jar])') /\ SessionKept'
    BY <2>1 DEF Links, Over, Completed, SessionKept, OnItsWay
  <2> QED
    BY <2>2, <2>3, <2>4, <2>5 DEF Links
<1> QED
  BY <1>1, <1>2, <1>3, <1>4, <1>5, <1>6 DEF Next

LEMMA InitIndInv ==
  Init => IndInv
<1> SUFFICES ASSUME Init PROVE TypeOK /\ Links
  BY IndInvParts
<1>1. \A s \in Sessions : s \in Nat /\ ~(s <= 0)
  BY AuthAssumption DEF Sessions
<1>2. TypeOK
  BY <1>1, AuthAssumption DEF Init, TypeOK
<1>3. CallsAccounted /\ OneCarrier /\ Replacements /\ StateCookie
  BY KindsDiffer DEF Init, CallsAccounted, RequestAccounted, SignInAccounted, OneCarrier,
                     Replacements, StateCookie
<1>4. SessionKept /\ OvertakenSignInFails /\ SignedOutStays
  BY KindsDiffer, AuthAssumption DEF Init, SessionKept, OvertakenSignInFails, SignedOutStays
<1>5. left = {} /\ jar = None
  BY DEF Init
<1> QED
  BY <1>2, <1>3, <1>4, <1>5 DEF Links

LEMMA Invariance == Spec => []IndInv
<1> QED
  BY InitIndInv, StepIndInv, PTL DEF Spec

\* Whatever the order in which the answers arrive, the jar holds a session of a
\* sign-in that completed in this browser (callback_response: the state cookie).
THEOREM JarIsOfThisBrowser == Spec => []SignedInHere
<1>1. IndInv => SignedInHere
  BY DEF IndInv
<1> QED
  BY <1>1, Invariance, PTL

\* Concurrent requests with one expired session sign nobody out: the one that got
\* the new session is on its way, unless it failed (require_identity and dispatch).
THEOREM NobodyIsSignedOut == Spec => []SessionKept
<1>1. IndInv => SessionKept
  BY DEF IndInv
<1> QED
  BY <1>1, Invariance, PTL

\* A sign-in whose state cookie was replaced is refused, and no other is
\* (login_response and callback_response).
THEOREM OvertakenFail == Spec => []OvertakenSignInFails
<1>1. IndInv => OvertakenSignInFails
  BY DEF IndInv
<1> QED
  BY <1>1, Invariance, PTL

\* A sign-out holds against everything but the late answer of a request that had
\* refreshed the session (logout_response).
THEOREM SignOutHolds == Spec => []SignedOutStays
<1>1. IndInv => SignedOutStays
  BY DEF IndInv
<1> QED
  BY <1>1, Invariance, PTL

==============================================================================
