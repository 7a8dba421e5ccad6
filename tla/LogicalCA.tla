------------------------------ MODULE LogicalCA ------------------------------
(***************************************************************************)
(* What the names of certificate authorities promise (README, "Rotation    *)
(* model"): a name is one logical CA whose generations are only ever added *)
(* to, and that issues with one of them or not at all.  Rotating adds a    *)
(* generation and hands issuing over to it, promoting hands it over to an  *)
(* older one, both in one step; time and retirement end it.                *)
(*                                                                         *)
(* Each of the two tables of PrivatePKI is shown to implement this.        *)
(***************************************************************************)
EXTENDS Naturals, Sequences

CONSTANTS
  Id,      \* what a generation may be known by
  Name

VARIABLES
  history,   \* for each name its generations, the first one first
  issuing    \* for each name the number of the generation that issues, 0 for none

vars == <<history, issuing>>

Init ==
  /\ history = [n \in Name |-> << >>]
  /\ issuing = [n \in Name |-> 0]

\* The names of S stop issuing, as their generations expire or are retired.
Lapsed(S) == [n \in Name |-> IF n \in S THEN 0 ELSE issuing[n]]

\* A step on one name finds what has expired under others.
HandOver(n, g, S) == issuing' = [Lapsed(S) EXCEPT ![n] = g]

Lapse(S) ==
  /\ issuing' = Lapsed(S)
  /\ UNCHANGED history

Rotate(n, id, S) ==
  /\ \A m \in Name : \A g \in 1 .. Len(history[m]) : history[m][g] # id
  /\ history' = [history EXCEPT ![n] = Append(@, id)]
  /\ HandOver(n, Len(history[n]) + 1, S)

Promote(n, g, S) ==
  /\ HandOver(n, g, S)
  /\ UNCHANGED history

Next ==
  \E S \in SUBSET Name :
    \/ Lapse(S)
    \/ \E n \in Name :
         \/ \E id \in Id : Rotate(n, id, S)
         \/ \E g \in 1 .. Len(history[n]) : Promote(n, g, S)

Spec == Init /\ [][Next]_vars

=============================================================================
