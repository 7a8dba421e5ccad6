----------------------------- MODULE MCDNSZone ------------------------------
(***************************************************************************)
(* DNSZone for TLC: the name of a write test is its command.               *)
(***************************************************************************)
EXTENDS DNSZone, TLC

OwnName == [c \in Command |-> c]

Symmetry == Permutations(Command) \cup Permutations(Value)

=============================================================================
