------------------------------ MODULE Sorting ------------------------------
(* Ascending tables of numbers, as the table of first bytes and the table of   *)
(* short extensions are.                                                      *)
EXTENDS Integers, FiniteSets

(* The members of a set of numbers in ascending order: the place of one is told  *)
(* by how many are smaller.                                                   *)
Sorted(S) ==
    [n \in 1 .. Cardinality(S) |-> CHOOSE b \in S : Cardinality({c \in S : c < b}) = n - 1]
=============================================================================
