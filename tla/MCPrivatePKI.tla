---------------------------- MODULE MCPrivatePKI -----------------------------
(***************************************************************************)
(* PrivatePKI for TLC.  The ids and the commands are interchangeable.      *)
(***************************************************************************)
EXTENDS PrivatePKI, TLC

Symmetry ==
  Permutations(RootId) \cup Permutations(IcaId) \cup Permutations(CertId)
    \cup Permutations(Command)

=============================================================================
