----------------------------- MODULE MCVerifier ------------------------------
(***************************************************************************)
(* Verifier for TLC: two keys, each with a key id of its own.              *)
(***************************************************************************)
EXTENDS Verifier, TLC

OwnKid == [k \in Key \cup {NoId} |-> k]

Symmetry == Permutations(Request)

=============================================================================
