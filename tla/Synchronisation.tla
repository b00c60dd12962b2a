-------------------------- MODULE Synchronisation --------------------------
(***************************************************************************)
(* The synchronisation classes of the kernel, each in the hands of its own *)
(* threads.  They share no state, so Init chooses the class whose threads  *)
(* run; the others stay as they were constructed.                          *)
(***************************************************************************)
EXTENDS ReusableBarrier

CONSTANTS
    Value, Default,             \* what is set() in a Future, and T()
    Producer, Consumer, Item, N \* the users and the size of a BoundedBuffer

ASSUME SynchronisationAssumption ==
    /\ None \notin Value \cup Item
    /\ Default \in Value
    /\ N \in Nat \ {0}
    /\ Producer \cap Consumer = {}

VARIABLES
    class,
    go, isReady, value, arg, setPc, getPc, got,             \* Future
    missing, turnstile, where,                              \* Barrier
    head, n, data, sems, userPc, item, copy                 \* BoundedBuffer

future == <<go, isReady, value, arg, setPc, getPc, got>>
once == <<missing, turnstile, where>>
ring == <<head, n, data, sems, userPc, item, copy>>
all == <<class, vars, barrier, future, once, ring>>

F == INSTANCE Future WITH Getter <- Thread, t <- value

B == INSTANCE Barrier WITH
        Party <- Thread, count <- missing, sem <- turnstile, pc <- where

Q == INSTANCE BoundedBuffer WITH sem <- sems, pc <- userPc

Class == {"Future", "Barrier", "BoundedBuffer", "Condition", "ReusableBarrier"}

SyncInit ==
    /\ class \in Class
    /\ BarrierInit
    /\ F!Init
    /\ class # "Future" => arg = Default   \* of no use then
    /\ B!Init
    /\ Q!Init

(* It is the turn of class c, and the others do nothing.                   *)
Only(c) ==
    /\ class = c
    /\ UNCHANGED class
    /\ IF c = "Future" THEN TRUE ELSE UNCHANGED future
    /\ IF c = "Barrier" THEN TRUE ELSE UNCHANGED once
    /\ IF c = "BoundedBuffer" THEN TRUE ELSE UNCHANGED ring
    /\ IF c = "Condition" THEN UNCHANGED barrier ELSE TRUE
    /\ IF c \in {"Condition", "ReusableBarrier"} THEN TRUE
                                                 ELSE UNCHANGED <<vars, barrier>>

FutureSet == Only("Future") /\ F!SetStep
FutureGet(p) == Only("Future") /\ F!GetStep(p)
BarrierSync(p) == Only("Barrier") /\ B!Step(p)
BufferPut(p) == Only("BoundedBuffer") /\ \E x \in Item : Q!Put(p, x)
BufferGet(c) == Only("BoundedBuffer") /\ Q!Get(c)
BufferStep(u) == Only("BoundedBuffer") /\ Q!Step(u)
Monitor == Only("Condition") /\ Next
RoundSync(t) == Only("ReusableBarrier") /\ Step(t)

SyncNext ==
    \/ FutureSet
    \/ \E p \in Thread : FutureGet(p) \/ BarrierSync(p) \/ RoundSync(p)
    \/ \E p \in Producer : BufferPut(p)
    \/ \E c \in Consumer : BufferGet(c)
    \/ \E u \in Producer \cup Consumer : BufferStep(u)
    \/ Monitor

(* A thread that is not blocked runs again (ReadyRuns of Threads): calls   *)
(* that have begun go on, every thread of a barrier arrives, and consumers *)
(* come back.  Nobody is obliged to call put() or to use a Condition.      *)
(* Spinning on the lock of a ReusableBarrier needs no more than weak       *)
(* fairness: in each round the others want it finitely often.              *)
Fairness ==
    /\ WF_all(FutureSet)
    /\ \A p \in Thread : /\ WF_all(FutureGet(p))
                         /\ WF_all(BarrierSync(p))
                         /\ WF_all(RoundSync(p))
    /\ \A c \in Consumer : WF_all(BufferGet(c))
    /\ \A u \in Producer \cup Consumer : WF_all(BufferStep(u))

SyncSpec == SyncInit /\ [][SyncNext]_all /\ Fairness

-----------------------------------------------------------------------------

(* A Future is a cell written once, although get() tests isReady without a *)
(* lock: no get() returns before set() stored the value (kernel/future.h). *)
FutureIsWriteOnce == F!ImplementsWriteOnce

(* No unit of a semaphore is lost or doubled: the one that lets the        *)
(* threads of a Barrier go is held by one thread or counted, from the last *)
(* arrival on (kernel/barrier.h), and every slot of a BoundedBuffer is     *)
(* empty, full or in the hands of exactly one put() or get() (kernel/bb.h).*)
UnitsConserved == B!OneUnit /\ Q!SlotsConserved

(* Nobody leaves a Barrier before everybody has called sync(), nor a round *)
(* of a ReusableBarrier before everybody has entered that round, although  *)
(* the fast ones may already be in the next (kernel/barrier.h).            *)
NobodyLeavesEarly == B!NoneLeavesEarly /\ NoneLeavesEarly

(* A BoundedBuffer is a bounded first-in first-out queue, with any number  *)
(* of threads putting and getting at once.                                 *)
BufferIsChannel == Q!ImplementsChannel

(* Whoever calls get(), sync() or put() comes back: the unit of go and of  *)
(* the Barrier reaches every waiter, each round of a ReusableBarrier ends  *)
(* for everybody, and a producer gets its slot.                            *)
CallsReturn ==
    /\ class = "Future" ~> F!AllGot
    /\ class = "Barrier" ~> B!AllLeft
    /\ class = "ReusableBarrier" ~> AllRoundsDone
    /\ \A p \in Producer : userPc[p] # "out" ~> userPc[p] = "out"
=============================================================================
