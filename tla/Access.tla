------------------------------- MODULE Access -------------------------------
(***************************************************************************)
(* Roles, their levels (app/domain.py) and the access rule                 *)
(* (app/catalog.py).                                                       *)
(***************************************************************************)
EXTENDS Naturals

Role == {"viewer", "analyst", "admin"}

ROLE_ACCESS ==
  [x \in Role |-> CASE x = "viewer" -> 1 [] x = "analyst" -> 2 [] OTHER -> 3]

can_access(role, min_role) == ROLE_ACCESS[role] >= ROLE_ACCESS[min_role]

=============================================================================
