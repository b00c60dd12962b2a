------------------------------- MODULE Future -------------------------------
(***************************************************************************)
(* Future of kernel/future.h, the channel through which a process's exit   *)
(* code reaches the parent that waits for it: one thread calls set(), any  *)
(* number of threads call get().  The fields are shared without a lock, so *)
(* every access is a step; down() and up() of the semaphore go are one     *)
(* step each, as Threads shows.                                            *)
(***************************************************************************)
EXTENDS SemaphoreOps

CONSTANTS Getter, Value, None,
    Default     \* T(), the value of t before set()

VARIABLES
    go,         \* Semaphore go
    isReady, t, \* the fields
    arg,        \* the argument of set()
    setPc, getPc,
    got         \* what each get() returned

vars == <<go, isReady, t, arg, setPc, getPc, got>>

Init ==
    /\ go = Made(0)
    /\ isReady = FALSE
    /\ t = Default
    /\ arg \in Value
    /\ setPc = "assert"
    /\ getPc = [p \in Getter |-> "check"]
    /\ got = [p \in Getter |-> None]

(* Mutant: isReady = true comes first.                                     *)
SetCheck_ReadyFirst ==
    /\ setPc = "assert"
    /\ setPc' = "store"
    /\ isReady' = TRUE
    /\ UNCHANGED <<go, t, arg, getPc, got>>

(* ASSERT(!isReady); if (isReady) return                                   *)
SetCheck ==
    /\ setPc = "assert"
    /\ setPc' = IF isReady THEN "done" ELSE "store"
    /\ UNCHANGED <<go, isReady, t, arg, getPc, got>>

(* t = v                                                                   *)
SetStore ==
    /\ setPc = "store"
    /\ t' = arg
    /\ setPc' = "ready"
    /\ UNCHANGED <<go, isReady, arg, getPc, got>>

(* isReady = true                                                          *)
SetReady ==
    /\ setPc = "ready"
    /\ isReady' = TRUE
    /\ setPc' = "up"
    /\ UNCHANGED <<go, t, arg, getPc, got>>

(* The threads an up() of go releases go on to their own up().             *)
Wake == [p \in Getter |-> IF p \in Released(go) THEN "up" ELSE getPc[p]]

(* go.up()                                                                 *)
SetUp ==
    /\ setPc = "up"
    /\ go' = Raised(go)
    /\ getPc' = Wake
    /\ setPc' = "done"
    /\ UNCHANGED <<isReady, t, arg, got>>

(* if (!isReady)                                                           *)
GetCheck(p) ==
    /\ getPc[p] = "check"
    /\ getPc' = [getPc EXCEPT ![p] = IF isReady THEN "read" ELSE "down"]
    /\ UNCHANGED <<go, isReady, t, arg, setPc, got>>

(* go.down()                                                               *)
GetDown(p) ==
    /\ getPc[p] = "down"
    /\ \/ /\ Free(go)
          /\ go' = Taken(go)
          /\ getPc' = [getPc EXCEPT ![p] = "up"]
       \/ /\ ~Free(go)
          /\ go' = Parked(go, p)
          /\ getPc' = [getPc EXCEPT ![p] = "waiting"]
    /\ UNCHANGED <<isReady, t, arg, setPc, got>>

(* Mutant: get() keeps the unit it took.                                   *)
GetUp_Forgotten(p) ==
    /\ getPc[p] = "up"
    /\ getPc' = [getPc EXCEPT ![p] = "read"]
    /\ UNCHANGED <<go, isReady, t, arg, setPc, got>>

(* go.up(): the unit is passed on to the next waiter.                      *)
GetUp(p) ==
    /\ getPc[p] = "up"
    /\ go' = Raised(go)
    /\ getPc' = [Wake EXCEPT ![p] = "read"]
    /\ UNCHANGED <<isReady, t, arg, setPc, got>>

(* return t                                                                *)
GetRead(p) ==
    /\ getPc[p] = "read"
    /\ got' = [got EXCEPT ![p] = t]
    /\ getPc' = [getPc EXCEPT ![p] = "done"]
    /\ UNCHANGED <<go, isReady, t, arg, setPc>>

SetStep == SetCheck \/ SetStore \/ SetReady \/ SetUp

GetStep(p) == GetCheck(p) \/ GetDown(p) \/ GetUp(p) \/ GetRead(p)

Next == SetStep \/ \E p \in Getter : GetStep(p)

Spec == Init /\ [][Next]_vars

-----------------------------------------------------------------------------

Cell == INSTANCE WriteOnce WITH cell <- IF isReady THEN t ELSE None

(* A Future is a cell that is written once: no get() returns before set()  *)
(* stored the value, and every get() that returns has read it.             *)
ImplementsWriteOnce == Cell!Spec

(* Every get() has returned.                                               *)
AllGot == \A p \in Getter : getPc[p] = "done"
=============================================================================
