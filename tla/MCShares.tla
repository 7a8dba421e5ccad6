------------------------------ MODULE MCShares -------------------------------
(***************************************************************************)
(* Shares for TLC.  Ids and clients are interchangeable.                   *)
(***************************************************************************)
EXTENDS Shares, TLC

Symmetry ==
  Permutations(CertId) \cup Permutations(Client)

=============================================================================
