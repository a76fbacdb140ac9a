---------------------------- MODULE MCAuthSession ----------------------------
(***************************************************************************)
(* Small instances of AuthSession.                                         *)
(***************************************************************************)
EXTENDS AuthSession, TLC

Symmetric == Permutations(Requests) \union Permutations(SignIns)

=============================================================================
