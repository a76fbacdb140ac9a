---------------------------- MODULE MCAuditView ----------------------------
(***************************************************************************)
(* Small instances of AuditView.                                           *)
(***************************************************************************)
EXTENDS AuditView, TLC

CONSTANTS r1, r2, r3, r4

Caller(user, org) == [user |-> user, org |-> org]

\* Two users of one organisation, one of them in another one too.
Callers == {Caller("u1", "o1"), Caller("u2", "o1"), Caller("u1", "o2")}

ByThree ==
  (r1 :> Caller("u1", "o1")) @@ (r2 :> Caller("u1", "o1"))
  @@ (r3 :> Caller("u2", "o1")) @@ (r4 :> Caller("u1", "o2"))

=============================================================================
