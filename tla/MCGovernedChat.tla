--------------------------- MODULE MCGovernedChat ---------------------------
(***************************************************************************)
(* Small instances of GovernedChat.                                        *)
(***************************************************************************)
EXTENDS GovernedChat, TLC

CONSTANTS q1, q2, s1, s2, c1, c2, u1, u2, r1, r2

\* Commit c2 approves a new text of q1 for analysts and drops q2.
HistoryRevised ==
  (c1 :> {[id |-> q1, sql |-> s1, minRole |-> "viewer"],
          [id |-> q2, sql |-> s2, minRole |-> "admin"]})
  @@ (c2 :> {[id |-> q1, sql |-> s2, minRole |-> "analyst"]})

\* Commit c2 revises the only query.
HistoryOneQuery ==
  (c1 :> {[id |-> q1, sql |-> s1, minRole |-> "viewer"]})
  @@ (c2 :> {[id |-> q1, sql |-> s2, minRole |-> "analyst"]})

HistorySingle == c1 :> {[id |-> q1, sql |-> s1, minRole |-> "analyst"]}

OneUser == [r \in Requests |-> u1]

=============================================================================
