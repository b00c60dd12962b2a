--------------------------- MODULE BoundedBuffer ---------------------------
(***************************************************************************)
(* BoundedBuffer of kernel/bb.h: a ring of N slots guarded by three        *)
(* semaphores, for any number of producers and consumers.  put() and get() *)
(* may be preempted between any two of their statements.                   *)
(***************************************************************************)
EXTENDS Naturals, Sequences, FiniteSets, SemaphoreOps

CONSTANTS Producer, Consumer, Item, N, None

User == Producer \cup Consumer

SemName == {"nEmpty", "nFull", "lock"}

VARIABLES
    head, n, data,
    sem,        \* sem[s]: the semaphore s
    pc,
    item,       \* the argument of put(), the variable out of get()
    copy        \* the value of n that n++ or n-- has loaded

vars == <<head, n, data, sem, pc, item, copy>>

Init ==
    /\ head = 0
    /\ n = 0
    /\ data = [i \in 0..N - 1 |-> None]
    /\ sem = [s \in SemName |-> Made(CASE s = "nEmpty" -> N
                                       [] s = "nFull" -> 0
                                       [] s = "lock" -> 1)]
    /\ pc = [u \in User |-> "out"]
    /\ item = [u \in User |-> None]
    /\ copy = [u \in User |-> 0]

(* Where a user goes when it has got past down() of s: put() takes nEmpty  *)
(* and get() takes nFull, then both take the lock.                         *)
After(u, s) ==
    IF s # "lock" THEN "lock" ELSE IF u \in Producer THEN "write" ELSE "read"

(* s.down()                                                                *)
Down(u, s) ==
    \/ /\ Free(sem[s])
       /\ sem' = [sem EXCEPT ![s] = Taken(@)]
       /\ pc' = [pc EXCEPT ![u] = After(u, s)]
    \/ /\ ~Free(sem[s])
       /\ sem' = [sem EXCEPT ![s] = Parked(@, u)]
       /\ pc' = [pc EXCEPT ![u] = "waiting"]

(* s.up(), after which the caller is at the label.                         *)
Up(u, s, label) ==
    /\ sem' = [sem EXCEPT ![s] = Raised(@)]
    /\ pc' = [v \in User |-> CASE v = u -> label
                               [] v \in Released(sem[s]) -> After(v, s)
                               [] OTHER -> pc[v]]

(* put(t): nEmpty.down()                                                   *)
Put(p, x) ==
    /\ pc[p] = "out"
    /\ item' = [item EXCEPT ![p] = x]
    /\ Down(p, "nEmpty")
    /\ UNCHANGED <<head, n, data, copy>>

(* get(): nFull.down()                                                     *)
Get(c) ==
    /\ pc[c] = "out"
    /\ Down(c, "nFull")
    /\ UNCHANGED <<head, n, data, item, copy>>

(* lock.down()                                                             *)
Lock(u) ==
    /\ pc[u] = "lock"
    /\ Down(u, "lock")
    /\ UNCHANGED <<head, n, data, item, copy>>

(* Mutant: the slot is computed from n alone.                              *)
Write_NoHead(p) ==
    /\ pc[p] = "write"
    /\ data' = [data EXCEPT ![n % N] = item[p]]
    /\ copy' = [copy EXCEPT ![p] = n]
    /\ pc' = [pc EXCEPT ![p] = "count"]
    /\ UNCHANGED <<head, n, sem, item>>

(* data[(head + n) % N] = t                                                *)
Write(p) ==
    /\ pc[p] = "write"
    /\ data' = [data EXCEPT ![(head + n) % N] = item[p]]
    /\ copy' = [copy EXCEPT ![p] = n]
    /\ pc' = [pc EXCEPT ![p] = "count"]
    /\ UNCHANGED <<head, n, sem, item>>

(* out = data[head]; head = (head + 1) % N                                 *)
Read(c) ==
    /\ pc[c] = "read"
    /\ item' = [item EXCEPT ![c] = data[head]]
    /\ head' = (head + 1) % N
    /\ copy' = [copy EXCEPT ![c] = n]
    /\ pc' = [pc EXCEPT ![c] = "count"]
    /\ UNCHANGED <<n, data, sem>>

(* n++ in put() and n-- in get(): the load was part of the step before.    *)
Count(u) ==
    /\ pc[u] = "count"
    /\ n' = IF u \in Producer THEN copy[u] + 1 ELSE copy[u] - 1
    /\ pc' = [pc EXCEPT ![u] = "unlock"]
    /\ UNCHANGED <<head, data, sem, item, copy>>

(* lock.up()                                                               *)
Unlock(u) ==
    /\ pc[u] = "unlock"
    /\ Up(u, "lock", "signal")
    /\ UNCHANGED <<head, n, data, item, copy>>

(* Mutant: the last up() is missing.                                       *)
Signal_Forgotten(u) ==
    /\ pc[u] = "signal"
    /\ pc' = [pc EXCEPT ![u] = "out"]
    /\ item' = [item EXCEPT ![u] = None]
    /\ copy' = [copy EXCEPT ![u] = 0]
    /\ UNCHANGED <<head, n, data, sem>>

(* nFull.up() in put(), nEmpty.up() in get(), and the return.              *)
Signal(u) ==
    /\ pc[u] = "signal"
    /\ Up(u, IF u \in Producer THEN "nFull" ELSE "nEmpty", "out")
    /\ item' = [item EXCEPT ![u] = None]
    /\ copy' = [copy EXCEPT ![u] = 0]
    /\ UNCHANGED <<head, n, data>>

Step(u) == Lock(u) \/ Write(u) \/ Read(u) \/ Count(u) \/ Unlock(u) \/ Signal(u)

Next ==
    \/ \E p \in Producer, x \in Item : Put(p, x)
    \/ \E c \in Consumer : Get(c)
    \/ \E u \in User : Step(u)

Spec == Init /\ [][Next]_vars

-----------------------------------------------------------------------------

(* The slots are accounted for: each is empty, full, or on its way from    *)
(* one to the other in a put() or get() that has passed its first down().  *)
SlotsConserved ==
    sem["nEmpty"].count + sem["nFull"].count
        + Cardinality({u \in User : \/ pc[u] \in {"lock", "write", "read",
                                                  "count", "unlock", "signal"}
                                    \/ u \in Waiters(sem["lock"])})
      = N

(* The ring as a queue.  Between the two stores of get() the item is gone  *)
(* although n still counts it.                                             *)
Contents ==
    LET leaving == {c \in Consumer : pc[c] = "count"}
    IN  [i \in 1..(n - Cardinality(leaving)) |-> data[(head + i - 1) % N]]

Ring == INSTANCE Channel WITH queue <- Contents, Size <- N

(* The buffer is a bounded first-in first-out queue, with any number of    *)
(* threads putting and getting at once.                                    *)
ImplementsChannel == Ring!Spec
=============================================================================
