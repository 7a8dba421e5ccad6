--------------------------- MODULE MCCSRLimiter ----------------------------
(***************************************************************************)
(* CSRLimiter for TLC: two clients of one address and one of another, and  *)
(* an address that is not let in.                                          *)
(***************************************************************************)
EXTENDS CSRLimiter, TLC

CONSTANTS c1, c2, c3, c4, a1, a2, a3

OneShared == (c1 :> a1) @@ (c2 :> a1) @@ (c3 :> a2) @@ (c4 :> a3)

Symmetry == Permutations({c1, c2})

=============================================================================
