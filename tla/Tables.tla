------------------------------- MODULE Tables --------------------------------
(***************************************************************************)
(* What the tables of the database have in common: a table is a function   *)
(* from the ids of its rows to the rows, and a column that refers to       *)
(* another row is NoId when it is NULL or empty.                           *)
(***************************************************************************)
EXTENDS Integers, FiniteSets

CONSTANT NoId

EmptyTable == [i \in {} |-> NoId]

=============================================================================
