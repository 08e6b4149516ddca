---------------------------- MODULE MCWorkerJob ----------------------------
(* Instances of WorkerJob for TLC: job ids are model values.                *)
EXTENDS WorkerJob, TLC

JobSymmetry == Permutations(Jobs)
============================================================================
