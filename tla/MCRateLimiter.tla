--------------------------- MODULE MCRateLimiter ----------------------------
(***************************************************************************)
(* Small instances of RateLimiter. Users are interchangeable.              *)
(***************************************************************************)
EXTENDS RateLimiter, TLC

Symmetric == Permutations(Keys)

=============================================================================
