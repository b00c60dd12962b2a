------------------------------ MODULE Channel ------------------------------
(***************************************************************************)
(* What BoundedBuffer of kernel/bb.h promises: a first-in first-out queue  *)
(* of at most Size items.                                                  *)
(***************************************************************************)
EXTENDS Naturals, Sequences

CONSTANTS Item, Size

VARIABLE queue

Init == queue = <<>>

Put(x) ==
    /\ Len(queue) < Size
    /\ queue' = Append(queue, x)

Get ==
    /\ queue # <<>>
    /\ queue' = Tail(queue)

Next == Get \/ \E x \in Item : Put(x)

Spec == Init /\ [][Next]_queue
=============================================================================
