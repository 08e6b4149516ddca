------------------------------- MODULE Coins -------------------------------
(***************************************************************************)
(* A total over a finite index set, written as the number of coins it      *)
(* counts: one pair <<x, i>> for each unit i of f[x].  It needs no         *)
(* recursion, so theorems can be stated about it.                          *)
(***************************************************************************)
EXTENDS Integers, FiniteSets

Coins(S, f) == UNION {{x} \X (1 .. f[x]) : x \in S}

Total(S, f) == Cardinality(Coins(S, f))
============================================================================
