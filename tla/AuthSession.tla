---------------------------- MODULE AuthSession ----------------------------
(***************************************************************************)
(* Sign-in, the sealed session and sign-out (app/auth.py, and the cookie   *)
(* that app/observability.py sets), for one browser with several tabs.     *)
(*                                                                         *)
(* The server keeps nothing: the session is in the browser's cookie jar and *)
(* at WorkOS. require_identity runs in a thread pool, so that requests are  *)
(* authenticated concurrently; their responses reach the jar in any order, *)
(* or never. A sealed session is a number, in the order of issue. A refresh *)
(* token can be used once: the least that WorkOS may grant.                *)
(***************************************************************************)
EXTENDS Naturals, FiniteSets

CONSTANTS
  Requests,     \* calls of the API that need an identity
  SignIns,      \* visits of /auth/login, each with a random state
  SignOuts,     \* calls of /auth/logout
  MaxSessions,  \* bound: sealed sessions issued
  None          \* no cookie, no session

Sessions == 1..MaxSessions

ASSUME AuthAssumption ==
  /\ MaxSessions \in Nat
  /\ None \notin Nat /\ None \notin SignIns
  /\ Requests \intersect SignIns = {} /\ SignOuts \intersect (Requests \union SignIns) = {}

VARIABLES
  issued,     \* how many sessions WorkOS has issued
  origin,     \* the sign-in a session goes back to
  successor,  \* the session that refreshing a session has given
  expired,    \* sessions whose access token has expired
  ended,      \* sign-ins that WorkOS has ended
  jar,        \* the browser's session cookie
  nonce,      \* the browser's state cookie (the digest stands for the state)
  stage,      \* where a request, sign-in or sign-out is
  sent,       \* the cookie it was sent with: the state of a sign-in, else the session
  cookie,     \* the session its response sets
  status,     \* the status of its response
  overtaken,  \* history: sign-ins under way when the state cookie was replaced or went
  left,       \* history: sign-ins whose session a sign-out has deleted
  lost        \* history: sessions issued whose cookie a failure kept from the browser

workos == <<issued, origin, successor>>
history == <<overtaken, left, lost>>
vars == <<issued, origin, successor, expired, ended, jar, nonce, stage, sent, cookie,
          status, overtaken, left, lost>>

Calls == Requests \union SignIns \union SignOuts

Init ==
  /\ issued = 0
  /\ origin = [s \in Sessions |-> None]
  /\ successor = [s \in Sessions |-> None]
  /\ expired = {}
  /\ ended = {}
  /\ jar = None
  /\ nonce = None
  /\ stage = [c \in Calls |-> "new"]
  /\ sent = [c \in Calls |-> None]
  /\ cookie = [c \in Calls |-> None]
  /\ status = [c \in Calls |-> None]
  /\ overtaken = {}
  /\ left = {}
  /\ lost = {}

Go(c, from, to) ==
  /\ stage[c] = from
  /\ stage' = [stage EXCEPT ![c] = to]

\* The server's response to c: a status, and the session cookie it sets if any.
Respond(c, from, code, session) ==
  /\ Go(c, from, "answered")
  /\ status' = [status EXCEPT ![c] = code]
  /\ cookie' = [cookie EXCEPT ![c] = session]

-----------------------------------------------------------------------------
(* WorkOS and the passing of time.                                         *)

NextSession == issued + 1

\* A session for sign-in i: of a code, or of the refresh token of session s.
Issue(i) ==
  /\ issued < MaxSessions
  /\ issued' = NextSession
  /\ origin' = [origin EXCEPT ![NextSession] = i]

Renewable(s) == successor[s] = None /\ origin[s] \notin ended

Renew(s) ==
  /\ Renewable(s)
  /\ Issue(origin[s])
  /\ successor' = [successor EXCEPT ![s] = NextSession]

AccessExpires(s) ==
  /\ s <= issued /\ s \notin expired
  /\ expired' = expired \union {s}
  /\ UNCHANGED <<workos, ended, jar, nonce, stage, sent, cookie, status, history>>

\* The state cookie becomes n: it no longer is that of the sign-ins under way.
ReplaceState(n) ==
  /\ nonce' = n
  /\ overtaken' = overtaken \union {i \in SignIns : stage[i] = "away"}

\* max_age of the state cookie.
StateExpires ==
  /\ nonce # None
  /\ ReplaceState(None)
  /\ UNCHANGED <<workos, expired, ended, jar, stage, sent, cookie, status, left, lost>>

-----------------------------------------------------------------------------
(* Sign-in: login_response, the visit to AuthKit, callback_response.        *)

BeginSignIn(i) ==
  /\ Go(i, "new", "away")
  /\ ReplaceState(i)
  /\ UNCHANGED <<workos, expired, ended, jar, sent, cookie, status, left, lost>>

\* AuthKit sends the browser back with the state of this sign-in.
Return(i) ==
  /\ Go(i, "away", "returned")
  /\ sent' = [sent EXCEPT ![i] = nonce]
  /\ UNCHANGED <<workos, expired, ended, jar, nonce, cookie, status, history>>

\* Mutant of StateMatches: the state cookie only has to be there.
StatePresent(i) == sent[i] # None

StateMatches(i) == sent[i] = i

CallbackRefused(i) ==
  /\ ~StateMatches(i)
  /\ Respond(i, "returned", 400, None)
  /\ UNCHANGED <<workos, expired, ended, jar, nonce, sent, history>>

CodeRefused(i) ==
  /\ StateMatches(i)
  /\ Respond(i, "returned", 401, None)
  /\ UNCHANGED <<workos, expired, ended, jar, nonce, sent, history>>

\* authenticate_with_code, and the session sealed.
CodeAccepted(i) ==
  /\ StateMatches(i)
  /\ Go(i, "returned", "exchanged")
  /\ Issue(i)
  /\ cookie' = [cookie EXCEPT ![i] = NextSession]
  /\ UNCHANGED <<successor, expired, ended, jar, nonce, sent, status, history>>

\* self.authenticate(sealed_session), for its exceptions only.
CallbackAccepted(i) ==
  /\ stage[i] = "exchanged" /\ cookie[i] \notin expired
  /\ Respond(i, "exchanged", 303, cookie[i])
  /\ UNCHANGED <<workos, expired, ended, jar, nonce, sent, history>>

\* The access token has expired already: the refreshed session is thrown away,
\* and the cookie is set to the one whose refresh token is used up.
CallbackRefreshes(i) ==
  /\ stage[i] = "exchanged" /\ cookie[i] \in expired
  /\ Renew(cookie[i])
  /\ lost' = lost \union {NextSession}
  /\ Respond(i, "exchanged", 303, cookie[i])
  /\ UNCHANGED <<expired, ended, jar, nonce, sent, overtaken, left>>

\* Mutant of CallbackFails: the cookie is set before the session is tried.
CallbackFailsWithCookie(i) ==
  /\ stage[i] = "exchanged"
  /\ \E code \in {401, 403} : Respond(i, "exchanged", code, cookie[i])
  /\ UNCHANGED <<workos, expired, ended, jar, nonce, sent, history>>

\* An incomplete identity (403), or a session that cannot be refreshed (401).
CallbackFails(i) ==
  /\ stage[i] = "exchanged"
  /\ \E code \in {401, 403} : Respond(i, "exchanged", code, None)
  /\ lost' = lost \union {cookie[i]}
  /\ UNCHANGED <<workos, expired, ended, jar, nonce, sent, overtaken, left>>

-----------------------------------------------------------------------------
(* A request: require_identity, and the cookie that dispatch sets.         *)

Send(r) ==
  /\ Go(r, "new", "sent")
  /\ sent' = [sent EXCEPT ![r] = jar]
  /\ UNCHANGED <<workos, expired, ended, jar, nonce, cookie, status, history>>

\* No cookie, or one that cannot be unsealed or verified.
Unauthenticated(r) ==
  /\ Respond(r, "sent", 401, None)
  /\ UNCHANGED <<workos, expired, ended, jar, nonce, sent, history>>

\* What a request can be answered with once its session is accepted: the 400 of an
\* unknown demo role, the handler's result, its own 403 for a query the role may
\* not run, or another of its errors (500 for 404, 422, 429, 500 and 503).
Handled == {200, 400, 403, 500}

\* The access token is good; a 403 can also be that of an incomplete identity.
Authenticated(r) ==
  /\ sent[r] # None /\ sent[r] \notin expired
  /\ \E code \in Handled : Respond(r, "sent", code, None)
  /\ UNCHANGED <<workos, expired, ended, jar, nonce, sent, history>>

StartRefresh(r) ==
  /\ sent[r] \in expired
  /\ Go(r, "sent", "refreshing")
  /\ UNCHANGED <<workos, expired, ended, jar, nonce, sent, cookie, status, history>>

\* Mutant of Refreshed: the role is checked before the refreshed session is noted.
RefreshedAfterRole(r) ==
  /\ stage[r] = "refreshing"
  /\ Renew(sent[r])
  /\ \/ \E code \in Handled \ {400} : Respond(r, "refreshing", code, NextSession)
     \/ Respond(r, "refreshing", 400, None)
  /\ UNCHANGED <<expired, ended, jar, nonce, sent, history>>

\* request.state carries the refreshed session to dispatch, which sets it as a
\* cookie on whatever the response is: also on the 400 of an unknown role and on
\* every error of the handler.
Refreshed(r) ==
  /\ stage[r] = "refreshing"
  /\ Renew(sent[r])
  /\ \E code \in Handled : Respond(r, "refreshing", code, NextSession)
  /\ UNCHANGED <<expired, ended, jar, nonce, sent, history>>

\* WorkOS has refreshed the session, but the answer does not reach the server
\* (401), or the identity in it is refused (403).
RefreshedInVain(r) ==
  /\ stage[r] = "refreshing"
  /\ Renew(sent[r])
  /\ \E code \in {401, 403} : Respond(r, "refreshing", code, None)
  /\ lost' = lost \union {NextSession}
  /\ UNCHANGED <<expired, ended, jar, nonce, sent, overtaken, left>>

\* The refresh token has been used, the sign-in has ended, or WorkOS is not there.
RefreshRefused(r) ==
  /\ Respond(r, "refreshing", 401, None)
  /\ UNCHANGED <<workos, expired, ended, jar, nonce, sent, history>>

-----------------------------------------------------------------------------
(* Sign-out: logout_response.                                              *)

SendSignOut(o) ==
  /\ Go(o, "new", "sent")
  /\ sent' = [sent EXCEPT ![o] = jar]
  /\ UNCHANGED <<workos, expired, ended, jar, nonce, cookie, status, history>>

\* Whatever goes wrong with the logout URL is swallowed: the cookie is deleted
\* anyway.
AnswerSignOut(o) ==
  /\ Respond(o, "sent", 303, None)
  /\ UNCHANGED <<workos, expired, ended, jar, nonce, sent, history>>

-----------------------------------------------------------------------------
(* Responses reach the browser, or do not.                                 *)

DeliverToRequest(r) ==
  /\ Go(r, "answered", "done")
  /\ jar' = IF cookie[r] # None THEN cookie[r] ELSE jar
  /\ UNCHANGED <<workos, expired, ended, nonce, sent, cookie, status, history>>

\* A sign-in that succeeds sets the session and deletes the state cookie.
DeliverToSignIn(i) ==
  /\ Go(i, "answered", "done")
  /\ IF cookie[i] # None THEN jar' = cookie[i] /\ ReplaceState(None)
     ELSE UNCHANGED <<jar, nonce, overtaken>>
  /\ UNCHANGED <<workos, expired, ended, sent, cookie, status, left, lost>>

\* Mutant of DeliverToSignOut: the redirect goes out without delete_cookie.
DeliverToSignOutOnly(o) ==
  /\ Go(o, "answered", "done")
  /\ left' = left \union {origin[s] : s \in {sent[o]} \ {None}}
  /\ UNCHANGED <<workos, expired, ended, jar, nonce, sent, cookie, status, overtaken, lost>>

\* The session cookie goes. The redirect leads to WorkOS, which ends the sign-in,
\* or, when there was no logout URL to be had, to "/".
DeliverToSignOut(o) ==
  LET of == {origin[s] : s \in {sent[o]} \ {None}} IN
  /\ Go(o, "answered", "done")
  /\ jar' = None
  /\ left' = left \union of
  /\ ended' \in {ended, ended \union of}
  /\ UNCHANGED <<workos, expired, nonce, sent, cookie, status, overtaken, lost>>

\* The connection breaks, or the browser has left the page.
ResponseLost(c) ==
  /\ Go(c, "answered", "done")
  /\ lost' = lost \union ({cookie[c]} \ {None})
  /\ UNCHANGED <<workos, expired, ended, jar, nonce, sent, cookie, status, overtaken, left>>

-----------------------------------------------------------------------------
Authenticate(r) ==
  \/ Unauthenticated(r) \/ Authenticated(r) \/ StartRefresh(r)
  \/ Refreshed(r) \/ RefreshedInVain(r) \/ RefreshRefused(r)

SignIn(i) ==
  \/ BeginSignIn(i) \/ Return(i) \/ CallbackRefused(i) \/ CodeRefused(i)
  \/ CodeAccepted(i) \/ CallbackAccepted(i) \/ CallbackRefreshes(i) \/ CallbackFails(i)

Next ==
  \/ \E s \in Sessions : AccessExpires(s)
  \/ StateExpires
  \/ \E i \in SignIns : SignIn(i) \/ DeliverToSignIn(i)
  \/ \E r \in Requests : Send(r) \/ Authenticate(r) \/ DeliverToRequest(r)
  \/ \E o \in SignOuts : SendSignOut(o) \/ AnswerSignOut(o) \/ DeliverToSignOut(o)
  \/ \E c \in Calls : ResponseLost(c)

Spec == Init /\ [][Next]_vars

-----------------------------------------------------------------------------
(* Correctness.                                                            *)

\* Every variable keeps its shape; exactly the sessions issued have an origin, and
\* a 401 sets no session (checked with SignedInHere).
TypeOK ==
  /\ issued \in 0..MaxSessions
  /\ origin \in [Sessions -> SignIns \union {None}]
  /\ \A s \in Sessions : origin[s] # None <=> s <= issued
  /\ successor \in [Sessions -> Sessions \union {None}]
  /\ expired \subseteq 1..issued
  /\ ended \subseteq SignIns
  /\ jar \in 1..issued \union {None}
  /\ nonce \in SignIns \union {None}
  /\ stage \in [Calls -> {"new", "away", "returned", "exchanged", "sent", "refreshing",
                          "answered", "done"}]
  /\ sent \in [Calls -> Sessions \union SignIns \union {None}]
  /\ cookie \in [Calls -> 1..issued \union {None}]
  /\ status \in [Calls -> {200, 303, 400, 401, 403, 500, None}]
  /\ \A c \in Calls : status[c] = 401 => cookie[c] = None
  /\ overtaken \subseteq SignIns /\ left \subseteq SignIns /\ lost \subseteq 1..issued

OnItsWay(s) == \E c \in Calls : stage[c] = "answered" /\ cookie[c] = s

\* Two requests that find the access token expired, a refused role header, answers
\* out of order: when the session in the browser has been refreshed, the one that
\* replaces it is on its way to the browser, unless a failure took it. Without
\* such a failure nobody is signed out by a refresh.
SessionKept ==
  jar # None /\ successor[jar] # None =>
    successor[jar] \in lost \/ OnItsWay(successor[jar])

\* A second tab that begins to sign in, one that completes, or the state cookie's
\* ten minutes end the sign-ins under way: their callbacks are refused, however
\* the answers are ordered, and no callback is refused for another reason.
OvertakenSignInFails ==
  /\ \A i \in overtaken : stage[i] # "exchanged" /\ cookie[i] = None
  /\ \A i \in SignIns : status[i] = 400 => i \in overtaken

Completed(i) == stage[i] = "done" /\ status[i] = 303

\* The response to a call has brought session s to the browser, or was lost.
Over(s) == \E c \in Calls : cookie[c] = s /\ stage[c] = "done"

\* What a request, or a sign-out, carries at each stage: the session that was in
\* the jar, and, if it has refreshed that, the one of the same sign-in it has got.
RequestAccounted(r) ==
  /\ stage[r] \in {"new", "sent", "refreshing", "answered", "done"}
  /\ stage[r] = "refreshing" => sent[r] # None
  /\ sent[r] # None => sent[r] \in 1..issued /\ Over(sent[r]) /\ Completed(origin[sent[r]])
  /\ cookie[r] # None => /\ r \in Requests /\ stage[r] \in {"answered", "done"}
                         /\ sent[r] # None /\ origin[cookie[r]] = origin[sent[r]]

\* What a sign-in carries: from the exchange of its code on, its own session.
SignInAccounted(i) ==
  /\ stage[i] \in {"new", "away", "returned", "exchanged", "answered", "done"}
  /\ stage[i] \in {"new", "away", "returned"} => cookie[i] = None
  /\ stage[i] \notin {"answered", "done"} => status[i] = None
  /\ stage[i] = "exchanged" => cookie[i] # None
  /\ cookie[i] # None => origin[cookie[i]] = i
  /\ cookie[i] # None /\ stage[i] # "exchanged" => status[i] = 303

CallsAccounted ==
  /\ \A r \in Requests \union SignOuts : RequestAccounted(r)
  /\ \A i \in SignIns : SignInAccounted(i)

OneCarrier == \A c, d \in Calls : cookie[c] = cookie[d] /\ cookie[c] # None => c = d

\* A session that has been replaced: a failure took the one that replaces it, or the
\* request that carried it has that one.
Replacements ==
  \A s \in Sessions : successor[s] # None =>
    successor[s] \in lost \/ \E r \in Requests : cookie[r] = successor[s] /\ sent[r] = s

\* The state cookie is that of the one sign-in under way that was not overtaken.
StateCookie ==
  \A i \in SignIns :
    /\ stage[i] = "new" => nonce # i /\ i \notin overtaken
    /\ stage[i] = "away" => (nonce = i <=> i \notin overtaken)
    /\ stage[i] = "returned" => (sent[i] = i <=> i \notin overtaken)

\* What is in the jar comes from a sign-in that completed in this browser. (With it
\* are checked the facts that make all four properties inductive.)
SignedInHere ==
  /\ TypeOK /\ CallsAccounted /\ OneCarrier /\ Replacements /\ StateCookie
  /\ \A i \in left : Completed(i)
  /\ jar # None => Over(jar) /\ Completed(origin[jar])

\* After a sign-out the browser is signed in as before only through the late
\* response of a request that had refreshed the session.
SignedOutStays ==
  jar # None /\ origin[jar] \in left => \E r \in Requests : cookie[r] = jar

IndInv == SignedInHere /\ SessionKept /\ OvertakenSignInFails /\ SignedOutStays

=============================================================================
