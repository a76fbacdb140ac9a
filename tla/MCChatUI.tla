------------------------------ MODULE MCChatUI ------------------------------
(***************************************************************************)
(* Small instances of ChatUI.                                              *)
(***************************************************************************)
EXTENDS ChatUI, TLC

Symmetric == Permutations(Tabs)

=============================================================================
