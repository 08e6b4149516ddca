---------------------------- MODULE MCSettlement ----------------------------
(* Instances of Settlement for TLC.                                          *)
EXTENDS Settlement, TLC

CallerSymmetry == {p @@ q : p \in Permutations(Jobs), q \in Permutations(Nodes)}
=============================================================================
