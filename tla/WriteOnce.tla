----------------------------- MODULE WriteOnce -----------------------------
(***************************************************************************)
(* What Future of kernel/future.h promises: a cell that is written once    *)
(* and that nobody reads before.                                           *)
(***************************************************************************)
CONSTANTS Getter, Value, None

VARIABLES cell, got

Init == cell = None /\ got = [p \in Getter |-> None]

Set ==
    /\ cell = None
    /\ cell' \in Value
    /\ UNCHANGED got

Get(p) ==
    /\ cell # None
    /\ got[p] = None
    /\ got' = [got EXCEPT ![p] = cell]
    /\ UNCHANGED cell

Next == Set \/ \E p \in Getter : Get(p)

Spec == Init /\ [][Next]_<<cell, got>>
=============================================================================
