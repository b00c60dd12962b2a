----------------------------- MODULE MCThreads -----------------------------
(* Threads on two cores: the reaper and two more threads, one semaphore.   *)
EXTENDS Threads, TLC

MCInitial == [s \in Sem |-> 0]

(* All threads but the reaper, and all cores, are alike.                   *)
MCSymmetry == Permutations(Thread \ {Reaper}) \cup Permutations(Core)
=============================================================================
