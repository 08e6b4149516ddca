--------------------------- MODULE MCRootmodePot ---------------------------
(* Instances of RootmodePot for TLC: addresses and keys are model values.   *)
(* No constant or property tells two workers, or two keys, apart.           *)
EXTENDS RootmodePot, TLC

Symmetry == Permutations(Workers) \cup Permutations(AppKeys)
============================================================================
