-------------------------- MODULE ReusableBarrier --------------------------
(***************************************************************************)
(* ReusableBarrier of kernel/barrier.h, a barrier built on a Condition: in *)
(* each round initial_count threads call sync() and leave together.  The   *)
(* monitor's state and operations are those of module Condition.           *)
(***************************************************************************)
EXTENDS Condition, FiniteSets

CONSTANT MaxRound   \* bound: how often each thread calls sync()

ASSUME RoundAssumption ==
    /\ IsFiniteSet(Thread)
    /\ Thread # {}
    /\ MaxRound \in Nat
    /\ MaxRound <= MaxEpoch

VARIABLES
    count,      \* how many threads are still missing in this round
    round,      \* the field epoch of the barrier
    tround,     \* the local variable t of sync()
    at,         \* where each thread is in sync()
    left        \* history: how often sync() has returned to the thread

barrier == <<count, round, tround, at, left>>

initial_count == Cardinality(Thread)

BarrierInit ==
    /\ Init
    /\ count = initial_count
    /\ round = 0
    /\ tround = [t \in Thread |-> 0]
    /\ at = [t \in Thread |-> "outside"]
    /\ left = [t \in Thread |-> 0]

(* the_lock->lock() at the beginning of sync()                             *)
Enter(t) ==
    /\ at[t] = "outside"
    /\ left[t] < MaxRound
    /\ Lock(t)
    /\ at' = [at EXCEPT ![t] = "arrive"]
    /\ UNCHANGED <<count, round, tround, left>>

(* auto t = epoch; count--; somebody is still missing                      *)
Arrive(t) ==
    /\ at[t] = "arrive"
    /\ count # 1
    /\ tround' = [tround EXCEPT ![t] = round]
    /\ count' = count - 1
    /\ at' = [at EXCEPT ![t] = "check"]
    /\ UNCHANGED <<vars, round, left>>

(* The count reaches zero: a new round begins and everybody is notified.   *)
ArriveLast(t) ==
    /\ at[t] = "arrive"
    /\ count = 1
    /\ tround' = [tround EXCEPT ![t] = round]
    /\ round' = round + 1
    /\ count' = initial_count
    /\ NotifyAll(t)
    /\ at' = [at EXCEPT ![t] = "leave"]
    /\ UNCHANGED left

(* while (epoch <= t) newEpoch.wait()                                      *)
WaitForRound(t) ==
    /\ at[t] = "check"
    /\ round <= tround[t]
    /\ Wait(t)
    /\ UNCHANGED barrier

(* Mutant: while (epoch < t)                                               *)
RoundIsOver_OffByOne(t) ==
    /\ at[t] = "check"
    /\ pc[t] = "monitor"
    /\ round >= tround[t]
    /\ at' = [at EXCEPT ![t] = "leave"]
    /\ UNCHANGED <<vars, count, round, tround, left>>

(* The loop ends.                                                          *)
RoundIsOver(t) ==
    /\ at[t] = "check"
    /\ pc[t] = "monitor"
    /\ round > tround[t]
    /\ at' = [at EXCEPT ![t] = "leave"]
    /\ UNCHANGED <<vars, count, round, tround, left>>

(* wait() goes on: its switch handler, and the lock once it runs again.    *)
ContinueWait(t) ==
    /\ at[t] = "check"
    /\ Handler(t) \/ (pc[t] = "ready" /\ Lock(t))
    /\ UNCHANGED barrier

(* the_lock->unlock() at the end of sync()                                 *)
Leave(t) ==
    /\ at[t] = "leave"
    /\ Unlock(t)
    /\ at' = [at EXCEPT ![t] = "outside"]
    /\ left' = [left EXCEPT ![t] = @ + 1]
    /\ UNCHANGED <<count, round, tround>>

Step(t) ==
    \/ Enter(t)
    \/ Arrive(t)
    \/ ArriveLast(t)
    \/ WaitForRound(t)
    \/ RoundIsOver(t)
    \/ ContinueWait(t)
    \/ Leave(t)

BarrierNext == \E t \in Thread : Step(t)

BarrierSpec == BarrierInit /\ [][BarrierNext]_<<vars, barrier>>

-----------------------------------------------------------------------------

(* Nobody leaves a round that somebody has not entered yet, however fast   *)
(* the threads come back for the next one.                                 *)
NoneLeavesEarly ==
    \A t, u \in Thread :
        left[t] > left[u] => left[t] = left[u] + 1 /\ at[u] \in {"check", "leave"}

(* Everybody has gone through all the rounds.                              *)
AllRoundsDone == \A t \in Thread : left[t] = MaxRound
=============================================================================
