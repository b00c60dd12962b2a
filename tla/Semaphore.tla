----------------------------- MODULE Semaphore -----------------------------
(***************************************************************************)
(* What Semaphore of kernel/semaphore.h promises its users: a count and a  *)
(* first-come first-served line of threads, where up() hands the unit it   *)
(* adds to the thread at the front instead of adding it to the count.      *)
(* Threads shows that down() and up(), which hold a spin lock, pick        *)
(* another thread and switch stacks along the way, implement this.         *)
(***************************************************************************)
EXTENDS Naturals, Sequences, SemaphoreOps

CONSTANTS Thread, Sem, Initial

VARIABLE sem    \* sem[s]: the count of s and the threads waiting for it

Blocked(t) == \E s \in Sem : t \in Waiters(sem[s])

Init == sem = [s \in Sem |-> Made(Initial[s])]

(* down() returns at once.                                                 *)
Pass(t, s) ==
    /\ ~Blocked(t)
    /\ Free(sem[s])
    /\ sem' = [sem EXCEPT ![s] = Taken(@)]

(* down() finds nothing to take and waits at the end of the line.          *)
Wait(t, s) ==
    /\ ~Blocked(t)
    /\ ~Free(sem[s])
    /\ sem' = [sem EXCEPT ![s] = Parked(@, t)]

(* up(): a thread that waits cannot be the one that calls it.              *)
Up(t, s) ==
    /\ ~Blocked(t)
    /\ sem' = [sem EXCEPT ![s] = Raised(@)]

Next == \E t \in Thread, s \in Sem : Pass(t, s) \/ Wait(t, s) \/ Up(t, s)

Spec == Init /\ [][Next]_sem
=============================================================================
