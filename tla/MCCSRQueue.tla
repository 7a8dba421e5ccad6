----------------------------- MODULE MCCSRQueue ------------------------------
(***************************************************************************)
(* CSRQueue for TLC.  Ids and approvers are interchangeable.               *)
(***************************************************************************)
EXTENDS CSRQueue, TLC

Symmetry ==
  Permutations(RequestId) \cup Permutations(CertId) \cup Permutations(Approver)

=============================================================================
