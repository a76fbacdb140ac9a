----------------------------- MODULE FailClosed -----------------------------
(***************************************************************************)
(* What the chat endpoint promises about its audit trail, without saying   *)
(* how a request is processed: a decision is written to the ledger before  *)
(* the answer that tells it leaves, a request has at most one entry and    *)
(* one answer, and neither changes afterwards. What is answered without an *)
(* entry is a refusal before the request is taken on, or the statement     *)
(* that the audit is unavailable. An entry without an answer is possible:  *)
(* the process may die, or lose the acknowledgement, in between.           *)
(***************************************************************************)
EXTENDS Naturals

CONSTANTS Requests, None

VARIABLES
  ledger,  \* ledger[r]: the outcome recorded for request r
  answer   \* answer[r]: the response r got

vars == <<ledger, answer>>

Outcome == {"success", "denied", "error"}

\* The statuses that can tell an outcome.
Tells == [success |-> {200}, denied |-> {403, 404, 422, 429}, error |-> {422, 500}]

Unavailable == [by |-> "handler", status |-> 503]

Init ==
  /\ ledger = [r \in Requests |-> None]
  /\ answer = [r \in Requests |-> None]

Answer(r, a) ==
  /\ answer[r] = None
  /\ answer' = [answer EXCEPT ![r] = a]
  /\ UNCHANGED ledger

Record(r) ==
  /\ ledger[r] = None /\ answer[r] = None
  /\ \E o \in Outcome : ledger' = [ledger EXCEPT ![r] = o]
  /\ UNCHANGED answer

Tell(r) ==
  /\ ledger[r] # None
  /\ \E s \in Tells[ledger[r]] : Answer(r, [by |-> "handler", status |-> s])

Refuse(r) ==
  /\ ledger[r] = None
  /\ \E s \in 400..599 : Answer(r, [by |-> "gate", status |-> s])

\* The answer that tells a success can get lost between the endpoint and the
\* client, who is told of an error instead.
Break(r) ==
  /\ ledger[r] = "success"
  /\ Answer(r, [by |-> "gate", status |-> 500])

GiveUp(r) == Answer(r, Unavailable)

Next == \E r \in Requests : Record(r) \/ Tell(r) \/ Break(r) \/ Refuse(r) \/ GiveUp(r)

Spec == Init /\ [][Next]_vars

=============================================================================
