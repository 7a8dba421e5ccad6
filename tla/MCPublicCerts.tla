---------------------------- MODULE MCPublicCerts -----------------------------
(***************************************************************************)
(* PublicCerts for TLC.  Ids, sets of SANs and commands are                *)
(* interchangeable.                                                        *)
(***************************************************************************)
EXTENDS PublicCerts, TLC

Symmetry == Permutations(CertId) \cup Permutations(SANs) \cup Permutations(Command)

=============================================================================
