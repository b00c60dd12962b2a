------------------------------ MODULE Memories ------------------------------
(***************************************************************************)
(* What the address spaces promise to programs: a process has a memory of  *)
(* its own, all zero at first, that nobody but itself writes; fork gives   *)
(* the child a copy of it, exec clears it.                                 *)
(***************************************************************************)
CONSTANTS Process, First, Address, Value, Zero, None

VARIABLE mem    \* mem[p]: the contents of p's private memory

Empty == [va \in Address |-> Zero]

Init == mem = [p \in Process |-> IF p = First THEN Empty ELSE None]

Store(p, va, v) ==
    /\ mem[p] # None
    /\ mem' = [mem EXCEPT ![p][va] = v]

Fork(p, c) ==
    /\ mem[p] # None
    /\ mem[c] = None
    /\ mem' = [mem EXCEPT ![c] = mem[p]]

Exec(p) ==
    /\ mem[p] # None
    /\ mem' = [mem EXCEPT ![p] = Empty]

Exit(p) ==
    /\ mem[p] # None
    /\ mem' = [mem EXCEPT ![p] = None]

Next ==
    \E p \in Process :
       \/ \E va \in Address, v \in Value : Store(p, va, v)
       \/ \E c \in Process : Fork(p, c)
       \/ Exec(p)
       \/ Exit(p)

Spec == Init /\ [][Next]_mem
=============================================================================
