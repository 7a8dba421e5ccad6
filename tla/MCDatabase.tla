----------------------------- MODULE MCDatabase ------------------------------
(***************************************************************************)
(* Database for TLC: an older database may have one public certificate and *)
(* two private ones.                                                       *)
(***************************************************************************)
EXTENDS Database, TLC

BothTables == <<"public_certs", "private_certs">>

OneAndTwo == [t \in Table |-> IF t = "public_certs" THEN {1} ELSE {2, 3}]

Symmetry == Permutations(Process)

=============================================================================
