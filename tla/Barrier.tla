------------------------------ MODULE Barrier ------------------------------
(***************************************************************************)
(* Barrier of kernel/barrier.h: the last of N threads to call sync() lets  *)
(* the first waiter go, which lets the next one go, and so on.             *)
(***************************************************************************)
EXTENDS Integers, FiniteSets, SemaphoreOps

CONSTANT Party      \* the threads that call sync(), once each

VARIABLES count, sem, pc

vars == <<count, sem, pc>>

Init ==
    /\ count = Cardinality(Party)
    /\ sem = Made(0)
    /\ pc = [p \in Party |-> "start"]

(* x = count.add_fetch(-1) and the tests of x.                             *)
Arrive(p) ==
    /\ pc[p] = "start"
    /\ count' = count - 1
    /\ pc' = [pc EXCEPT ![p] = IF count' < 0 THEN "panic"
                               ELSE IF count' = 0 THEN "up" ELSE "down"]
    /\ UNCHANGED sem

(* sem.down()                                                              *)
Down(p) ==
    /\ pc[p] = "down"
    /\ \/ /\ Free(sem)
          /\ sem' = Taken(sem)
          /\ pc' = [pc EXCEPT ![p] = "up"]
       \/ /\ ~Free(sem)
          /\ sem' = Parked(sem, p)
          /\ pc' = [pc EXCEPT ![p] = "waiting"]
    /\ UNCHANGED count

(* sem.up(): the thread it releases returns from down().                   *)
Up(p) ==
    /\ pc[p] = "up"
    /\ sem' = Raised(sem)
    /\ pc' = [q \in Party |-> CASE q = p -> "done"
                                [] q \in Released(sem) -> "up"
                                [] OTHER -> pc[q]]
    /\ UNCHANGED count

Step(p) == Arrive(p) \/ Down(p) \/ Up(p)

Next == \E p \in Party : Step(p)

Spec == Init /\ [][Next]_vars

-----------------------------------------------------------------------------

(* Nobody leaves sync() before everybody has called it.                    *)
NoneLeavesEarly ==
    \A p, q \in Party : pc[p] = "done" => pc[q] # "start"

(* There is at most one unit, held by a thread or counted: the chain of    *)
(* up() calls neither forks nor loses it.                                  *)
OneUnit ==
    LET inHand == {p \in Party : pc[p] = "up"} IN
    \/ count > 0 /\ sem.count = 0 /\ inHand = {}
    \/ count = 0 /\ sem.count = 1 /\ inHand = {} /\ sem.waiting = <<>>
    \/ count = 0 /\ sem.count = 0 /\ \E p \in Party : inHand = {p}

(* Everybody has left.                                                     *)
AllLeft == \A p \in Party : pc[p] = "done"
=============================================================================
