---------------------------- MODULE MCProcesses ----------------------------
(* Processes for TLC: processes other than the first are interchangeable.  *)
EXTENDS Processes, TLC

Symmetry == Permutations(Process \ {First})
=============================================================================
