----------------------------- MODULE Condition -----------------------------
(***************************************************************************)
(* Condition of kernel/condition.h, a Mesa-style condition variable.       *)
(* wait() gives the lock up before it blocks and queues the thread only in *)
(* the switch handler, on another stack; notify() may come in between, and *)
(* the epoch is there to tell the handler so.                              *)
(*                                                                         *)
(* the_lock is an InterruptSafeLock (module Locks): its holder runs with   *)
(* interrupts off, and the switch handler, which takes it and gives it     *)
(* back, is one step.                                                      *)
(***************************************************************************)
EXTENDS Naturals, Sequences

CONSTANTS
    Thread, None,
    MaxEpoch        \* bound: notify() is not called beyond this epoch

ASSUME ConditionAssumption == None \notin Thread /\ MaxEpoch \in Nat

VARIABLES
    the_lock,   \* the thread that holds it, or None
    epoch, queue,
    pc,         \* where each thread is in the monitor
    old_epoch,  \* the local variable of wait()
    owed        \* history: threads that were in wait() at a notifyAll()
                \* and have not come back to the monitor

vars == <<the_lock, epoch, queue, pc, old_epoch, owed>>

Label == {"out", "monitor", "block", "queued", "ready"}

Init ==
    /\ the_lock = None
    /\ epoch = 0
    /\ queue = <<>>
    /\ pc = [t \in Thread |-> "out"]
    /\ old_epoch = [t \in Thread |-> 0]
    /\ owed = {}

(* the_lock->lock(), by a thread that enters the monitor or by wait() when *)
(* the thread runs again.                                                  *)
Lock(t) ==
    /\ pc[t] \in {"out", "ready"}
    /\ the_lock = None
    /\ the_lock' = t
    /\ pc' = [pc EXCEPT ![t] = "monitor"]
    /\ owed' = owed \ {t}
    /\ UNCHANGED <<epoch, queue, old_epoch>>

Unlock(t) ==
    /\ pc[t] = "monitor"
    /\ the_lock' = None
    /\ pc' = [pc EXCEPT ![t] = "out"]
    /\ UNCHANGED <<epoch, queue, old_epoch, owed>>

(* wait(): remember the epoch, the_lock->unlock(), and enter block().      *)
Wait(t) ==
    /\ pc[t] = "monitor"
    /\ old_epoch' = [old_epoch EXCEPT ![t] = epoch]
    /\ the_lock' = None
    /\ pc' = [pc EXCEPT ![t] = "block"]
    /\ UNCHANGED <<epoch, queue, owed>>

(* Mutant: the switch handler does not compare the epochs.                 *)
Handler_NoEpoch(t) ==
    /\ pc[t] = "block"
    /\ the_lock = None
    /\ queue' = Append(queue, t)
    /\ pc' = [pc EXCEPT ![t] = "queued"]
    /\ UNCHANGED <<the_lock, epoch, old_epoch, owed>>

(* The switch handler wait() passes to block().                            *)
Handler(t) ==
    /\ pc[t] = "block"
    /\ the_lock = None
    /\ \/ /\ epoch = old_epoch[t]
          /\ queue' = Append(queue, t)
          /\ pc' = [pc EXCEPT ![t] = "queued"]
       \/ /\ epoch # old_epoch[t]
          /\ pc' = [pc EXCEPT ![t] = "ready"]
          /\ UNCHANGED queue
    /\ UNCHANGED <<the_lock, epoch, old_epoch, owed>>

(* The first k threads of the queue are scheduled.                         *)
Dequeue(k) ==
    /\ queue' = SubSeq(queue, k + 1, Len(queue))
    /\ pc' = [u \in Thread |-> IF \E i \in 1..k : queue[i] = u THEN "ready"
                                                               ELSE pc[u]]

(* Mutant: the loop of notify() makes one turn less.                       *)
NotifyOne_OffByOne(t) ==
    /\ pc[t] = "monitor"
    /\ epoch < MaxEpoch
    /\ epoch' = epoch + 1
    /\ UNCHANGED <<the_lock, queue, pc, old_epoch, owed>>

(* notify(1)                                                               *)
NotifyOne(t) ==
    /\ pc[t] = "monitor"
    /\ epoch < MaxEpoch
    /\ epoch' = epoch + 1
    /\ Dequeue(IF queue = <<>> THEN 0 ELSE 1)
    /\ UNCHANGED <<the_lock, old_epoch, owed>>

(* notify(~0)                                                              *)
NotifyAll(t) ==
    /\ pc[t] = "monitor"
    /\ epoch < MaxEpoch
    /\ epoch' = epoch + 1
    /\ Dequeue(Len(queue))
    /\ owed' = owed \cup {u \in Thread : pc[u] \in {"block", "queued"}}
    /\ UNCHANGED <<the_lock, old_epoch>>

Next ==
    \E t \in Thread :
        \/ Lock(t)
        \/ Unlock(t)
        \/ Wait(t)
        \/ Handler(t)
        \/ NotifyOne(t)
        \/ NotifyAll(t)

Spec == Init /\ [][Next]_vars

-----------------------------------------------------------------------------

(* The type of every variable.                                             *)
TypeOK ==
    /\ the_lock \in Thread \cup {None}
    /\ epoch \in 0..MaxEpoch
    /\ queue \in Seq(Thread)
    /\ pc \in [Thread -> Label]
    /\ old_epoch \in [Thread -> 0..MaxEpoch]
    /\ owed \subseteq Thread

(* The ASSERTs of wait() and notify(): whoever is in the monitor holds the *)
(* lock, and an epoch the handler finds changed is a later one.            *)
HoldsTheLock ==
    /\ \A t \in Thread : pc[t] = "monitor" <=> the_lock = t
    /\ \A t \in Thread : pc[t] \in {"block", "queued"} => old_epoch[t] <= epoch

(* "Guarantee: no missed signals": a thread that was in wait() when        *)
(* notifyAll() was called is not, or will not be, in the queue.            *)
NoMissedSignal ==
    \A t \in owed : /\ pc[t] \in {"block", "ready"}
                    /\ pc[t] = "block" => old_epoch[t] # epoch

(* A thread that is left in the queue saw no notify() since it called      *)
(* wait() other than ones that woke a thread ahead of it: a notify() never *)
(* finds nobody while a thread waits and leaves it there.                  *)
SignalsWake ==
    [][\A t \in Thread : epoch' # epoch /\ pc[t] \in {"block", "queued"} =>
         \E u \in Thread :
            /\ pc[u] \in {"block", "queued"}
            /\ pc'[u] = "ready" \/ (pc'[u] = "block" /\ old_epoch'[u] # epoch')]_vars
=============================================================================
