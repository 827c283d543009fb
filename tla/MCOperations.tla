------------------------------ MODULE MCOperations ------------------------------
(* An application that submits one order from several goroutines.           *)
EXTENDS Operations, TLC

CONSTANTS c1, c2, c3

Symmetry == Permutations(Callers)
=================================================================================
