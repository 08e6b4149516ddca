---------------------------- MODULE MCClientPot ----------------------------
(* Instances of ClientPot for TLC: job ids are model values.                *)
EXTENDS ClientPot, TLC

JobSymmetry == Permutations(Jobs)

\* The jobs no node refuses, where only some are refused.
ServedSymmetry == Permutations(Jobs \ Refused)
============================================================================
