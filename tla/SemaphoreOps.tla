---------------------------- MODULE SemaphoreOps ----------------------------
(***************************************************************************)
(* The state of a Semaphore of kernel/semaphore.h as a value, and what     *)
(* down() and up() do to it while they hold its lock.  The modules of the  *)
(* classes that are built on a semaphore use these operators.              *)
(***************************************************************************)
EXTENDS Naturals, Sequences

(* Semaphore(count)                                                        *)
Made(n) == [count |-> n, waiting |-> <<>>]

(* if (count > 0) in down()                                                *)
Free(s) == s.count > 0

(* count--                                                                 *)
Taken(s) == [s EXCEPT !.count = @ - 1]

(* waiting.add(me)                                                         *)
Parked(s, t) == [s EXCEPT !.waiting = Append(@, t)]

(* up(): the first waiter takes the unit over, or the count grows.         *)
Raised(s) == IF s.waiting = <<>> THEN [s EXCEPT !.count = @ + 1]
                                 ELSE [s EXCEPT !.waiting = Tail(@)]

(* Which threads an up() lets run again.                                   *)
Released(s) == IF s.waiting = <<>> THEN {} ELSE {Head(s.waiting)}

(* The threads waiting for s.                                              *)
Waiters(s) == {s.waiting[i] : i \in DOMAIN s.waiting}
=============================================================================
