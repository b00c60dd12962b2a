----------------------- MODULE SynchronisationProofs -----------------------
(***************************************************************************)
(* The synchronisation classes for any number of threads, producers and    *)
(* consumers and any size of the buffer: a Barrier and a BoundedBuffer     *)
(* neither lose nor double a unit, nobody leaves a barrier early, a        *)
(* BoundedBuffer is a first-in first-out queue, a Future a cell that is    *)
(* written once, and a Condition loses no signal.                          *)
(*                                                                         *)
(* One inductive invariant per class.  Each says that a queue holds the    *)
(* threads that wait in it, each of them once: without that, the thread    *)
(* that notify() or up() releases could be somewhere else altogether.  The *)
(* ones for the classes over semaphores also say where the units of each   *)
(* semaphore are, counted or with which threads.                           *)
(***************************************************************************)
EXTENDS Synchronisation, FiniteSetTheorems, TLAPS

-----------------------------------------------------------------------------
(* Condition                                                               *)

(* The queue and the threads that believe they are in it agree.            *)
QueueInv ==
    /\ \A i \in 1..Len(queue) : pc[queue[i]] = "queued"
    /\ \A t \in Thread : pc[t] = "queued" => \E i \in 1..Len(queue) : queue[i] = t
    /\ \A i, j \in 1..Len(queue) : queue[i] = queue[j] => i = j

IInv == TypeOK /\ HoldsTheLock /\ QueueInv /\ NoMissedSignal

-----------------------------------------------------------------------------

(* Taking the first k threads from the queue (the loop of notify) readies  *)
(* exactly these and leaves the others where they are.                     *)
LEMMA DequeueReadies ==
    ASSUME TypeOK, QueueInv, NEW k \in 0..Len(queue), Dequeue(k)
    PROVE  /\ queue' \in Seq(Thread)
           /\ pc' \in [Thread -> Label]
           /\ QueueInv'
           /\ \A t \in Thread : pc'[t] = pc[t] \/ (pc[t] = "queued" /\ pc'[t] = "ready")
           /\ \A i \in 1..k : pc'[queue[i]] = "ready"
<1> USE DEF TypeOK
<1>1. /\ queue' = SubSeq(queue, k + 1, Len(queue))
      /\ \A u \in Thread : pc'[u] = IF \E i \in 1..k : queue[i] = u
                                    THEN "ready" ELSE pc[u]
      /\ pc' \in [Thread -> Label]
  BY DEF Dequeue, Label
<1>2. /\ queue' \in Seq(Thread)
      /\ Len(queue') = Len(queue) - k
      /\ \A i \in 1..Len(queue') : queue'[i] = queue[i + k]
  BY <1>1
<1>3. /\ \A i \in 1..Len(queue) : queue[i] \in Thread
      /\ Len(queue) \in Nat /\ k \in Nat /\ k <= Len(queue)
  OBVIOUS
<1> HIDE DEF TypeOK
<1>4. \A i \in 1..Len(queue') : pc'[queue'[i]] = "queued"
  <2> TAKE i \in 1..Len(queue')
  <2>1. i + k \in 1..Len(queue) /\ queue'[i] = queue[i + k]
    BY <1>2, <1>3
  <2>2. ASSUME NEW j \in 1..k PROVE queue[j] # queue[i + k]
    <3>1. j \in 1..Len(queue) /\ j # i + k
      BY <1>2, <1>3
    <3> QED  BY <3>1, <2>1 DEF QueueInv
  <2> QED  BY <2>1, <2>2, <1>1, <1>3 DEF QueueInv
<1>5. \A t \in Thread : pc'[t] = "queued" => \E i \in 1..Len(queue') : queue'[i] = t
  <2> SUFFICES ASSUME NEW t \in Thread, pc'[t] = "queued"
               PROVE  \E i \in 1..Len(queue') : queue'[i] = t
    OBVIOUS
  <2>1. pc[t] = "queued" /\ ~ \E i \in 1..k : queue[i] = t
    BY <1>1
  <2>2. PICK j \in 1..Len(queue) : queue[j] = t
    BY <2>1 DEF QueueInv
  <2>3. j - k \in 1..Len(queue') /\ queue'[j - k] = t
    BY <2>1, <2>2, <1>2, <1>3
  <2> QED  BY <2>3
<1>6. \A i, j \in 1..Len(queue') : queue'[i] = queue'[j] => i = j
  <2> TAKE i, j \in 1..Len(queue')
  <2>1. i + k \in 1..Len(queue) /\ j + k \in 1..Len(queue)
    BY <1>2, <1>3
  <2>2. queue'[i] = queue[i + k] /\ queue'[j] = queue[j + k]
    BY <1>2
  <2>3. queue'[i] = queue'[j] => i + k = j + k
    BY <2>1, <2>2 DEF QueueInv
  <2> QED  BY <2>3, <1>2, <1>3
<1>7. \A t \in Thread : pc'[t] = pc[t] \/ (pc[t] = "queued" /\ pc'[t] = "ready")
  BY <1>1, <1>3 DEF QueueInv
<1>8. \A i \in 1..k : pc'[queue[i]] = "ready"
  BY <1>1, <1>3
<1> QED  BY <1>1, <1>2, <1>4, <1>5, <1>6, <1>7, <1>8 DEF QueueInv

(* The constructor's state satisfies the invariant.                        *)
LEMMA InitIInv == Init => IInv
  BY ConditionAssumption
  DEF Init, IInv, TypeOK, HoldsTheLock, QueueInv, NoMissedSignal, Label

(* The steps that change neither the queue nor who is queued.              *)
LEMMA QueueUnchanged ==
    ASSUME TypeOK, QueueInv, UNCHANGED queue, NEW t \in Thread, NEW l \in Label,
           pc' = [pc EXCEPT ![t] = l], pc[t] # "queued", l # "queued"
    PROVE  QueueInv'
  BY DEF TypeOK, QueueInv

(* lock(), unlock(), wait() with its switch handler, and notify() keep it. *)
LEMMA NextIInv == IInv /\ [Next]_vars => IInv'
<1> SUFFICES ASSUME IInv, [Next]_vars PROVE IInv'
  OBVIOUS
<1> USE ConditionAssumption DEF IInv, HoldsTheLock, NoMissedSignal
<1>1. ASSUME NEW t \in Thread, Lock(t) PROVE IInv'
  <2> USE <1>1 DEF Lock
  <2>1. QueueInv'  BY QueueUnchanged DEF Label
  <2> QED  BY <2>1 DEF TypeOK, Label
<1>2. ASSUME NEW t \in Thread, Unlock(t) PROVE IInv'
  <2> USE <1>2 DEF Unlock
  <2>1. QueueInv'  BY QueueUnchanged DEF Label
  <2> QED  BY <2>1 DEF TypeOK, Label
<1>3. ASSUME NEW t \in Thread, Wait(t) PROVE IInv'
  <2> USE <1>3 DEF Wait
  <2>1. QueueInv'  BY QueueUnchanged DEF Label
  <2> QED  BY <2>1 DEF TypeOK, Label
<1>4. ASSUME NEW t \in Thread, Handler(t) PROVE IInv'
  <2>1. CASE epoch = old_epoch[t]
    <3>1. /\ pc[t] = "block" /\ t \notin owed
          /\ queue' = Append(queue, t) /\ pc' = [pc EXCEPT ![t] = "queued"]
          /\ UNCHANGED <<the_lock, epoch, old_epoch, owed>>
      BY <2>1, <1>4 DEF Handler
    <3>2. /\ Len(queue') = Len(queue) + 1 /\ queue' \in Seq(Thread)
          /\ queue'[Len(queue) + 1] = t
          /\ \A i \in 1..Len(queue) : queue'[i] = queue[i] /\ queue[i] # t
      BY <3>1 DEF TypeOK, QueueInv
    <3>3. QueueInv'
      BY <3>1, <3>2 DEF TypeOK, QueueInv
    <3>4. TypeOK'  BY <3>1, <3>2 DEF TypeOK, Label
    <3> QED  BY <3>1, <3>3, <3>4 DEF TypeOK
  <2>2. CASE epoch # old_epoch[t]
    <3>1. /\ pc[t] = "block" /\ pc' = [pc EXCEPT ![t] = "ready"]
          /\ UNCHANGED <<the_lock, epoch, queue, old_epoch, owed>>
      BY <2>2, <1>4 DEF Handler
    <3>2. QueueInv'  BY <3>1, QueueUnchanged DEF Label
    <3> QED  BY <3>1, <3>2 DEF TypeOK, Label
  <2> QED  BY <2>1, <2>2
<1>5. ASSUME NEW t \in Thread, NotifyOne(t) PROVE IInv'
  <2> DEFINE k == IF queue = <<>> THEN 0 ELSE 1
  <2>1. k \in 0..Len(queue)  BY DEF TypeOK
  <2> HIDE DEF k
  <2>2. Dequeue(k) /\ epoch' = epoch + 1 /\ epoch < MaxEpoch
        /\ UNCHANGED <<the_lock, old_epoch, owed>>
    BY <1>5 DEF NotifyOne, k
  <2>3. /\ queue' \in Seq(Thread) /\ pc' \in [Thread -> Label] /\ QueueInv'
        /\ \A u \in Thread : pc'[u] = pc[u] \/ (pc[u] = "queued" /\ pc'[u] = "ready")
    BY <2>1, <2>2, DequeueReadies
  <2>4. TypeOK'  BY <2>2, <2>3 DEF TypeOK
  <2>5. ASSUME NEW u \in Thread
        PROVE  /\ pc'[u] = "monitor" <=> the_lock' = u
               /\ pc'[u] \in {"block", "queued"} => old_epoch'[u] <= epoch'
    <3>1. /\ pc[u] = "monitor" <=> the_lock = u
          /\ pc[u] \in {"block", "queued"} => old_epoch[u] <= epoch
          /\ old_epoch[u] \in Nat /\ epoch \in Nat
      BY DEF TypeOK
    <3>2. pc'[u] = pc[u] \/ (pc[u] = "queued" /\ pc'[u] = "ready")
      BY <2>3
    <3> QED  BY <2>2, <3>1, <3>2
  <2>6. ASSUME NEW u \in owed'
        PROVE  pc'[u] \in {"block", "ready"} /\ (pc'[u] = "block" => old_epoch'[u] # epoch')
    <3>1. u \in owed /\ u \in Thread /\ pc[u] \in {"block", "ready"} /\ pc'[u] = pc[u]
      BY <2>2, <2>3 DEF TypeOK
    <3>2. pc[u] = "block" => old_epoch[u] <= epoch /\ old_epoch[u] \in Nat /\ epoch \in Nat
      BY <3>1 DEF TypeOK
    <3> QED  BY <2>2, <3>1, <3>2
  <2> QED  BY <2>3, <2>4, <2>5, <2>6
<1>6. ASSUME NEW t \in Thread, NotifyAll(t) PROVE IInv'
  <2>1. Len(queue) \in 0..Len(queue)  BY DEF TypeOK
  <2>2. Dequeue(Len(queue)) /\ epoch' = epoch + 1 /\ epoch < MaxEpoch
        /\ owed' = owed \cup {u \in Thread : pc[u] \in {"block", "queued"}}
        /\ UNCHANGED <<the_lock, old_epoch>>
    BY <1>6 DEF NotifyAll
  <2>3. /\ queue' \in Seq(Thread) /\ pc' \in [Thread -> Label] /\ QueueInv'
        /\ \A u \in Thread : pc'[u] = pc[u] \/ (pc[u] = "queued" /\ pc'[u] = "ready")
        /\ \A i \in 1..Len(queue) : pc'[queue[i]] = "ready"
    BY <2>1, <2>2, DequeueReadies
  <2>4. \A u \in Thread : pc[u] = "queued" => pc'[u] = "ready"
    BY <2>3 DEF QueueInv
  <2>5. TypeOK'  BY <2>2, <2>3 DEF TypeOK
  <2>6. ASSUME NEW u \in Thread
        PROVE  /\ pc'[u] = "monitor" <=> the_lock' = u
               /\ pc'[u] \in {"block", "queued"} => old_epoch'[u] <= epoch'
    <3>1. /\ pc[u] = "monitor" <=> the_lock = u
          /\ pc[u] \in {"block", "queued"} => old_epoch[u] <= epoch
          /\ old_epoch[u] \in Nat /\ epoch \in Nat
      BY DEF TypeOK
    <3>2. pc'[u] = pc[u] \/ (pc[u] = "queued" /\ pc'[u] = "ready")
      BY <2>3
    <3> QED  BY <2>2, <3>1, <3>2
  <2>7. ASSUME NEW u \in owed'
        PROVE  pc'[u] \in {"block", "ready"} /\ (pc'[u] = "block" => old_epoch'[u] # epoch')
    <3>1. u \in Thread /\ (u \in owed \/ pc[u] \in {"block", "queued"})
      BY <2>2 DEF TypeOK
    <3>2. pc[u] \in {"block", "ready", "queued"} /\ pc'[u] \in {"block", "ready"}
      BY <3>1, <2>3, <2>4
    <3>3. pc'[u] = "block" => /\ old_epoch[u] <= epoch
                              /\ old_epoch[u] \in Nat /\ epoch \in Nat
      BY <3>1, <2>3 DEF TypeOK
    <3> QED  BY <2>2, <3>2, <3>3
  <2> QED  BY <2>3, <2>5, <2>6, <2>7
<1>7. CASE UNCHANGED vars
  BY <1>7 DEF vars, TypeOK, QueueInv
<1> QED  BY <1>1, <1>2, <1>3, <1>4, <1>5, <1>6, <1>7 DEF Next

(* "Guarantee: no missed signals" of kernel/condition.h, and its ASSERTs:  *)
(* whoever is in the monitor holds the lock, and no thread that was in     *)
(* wait() at a notifyAll() is in the queue afterwards.                     *)
THEOREM NoSignalIsMissed == Spec => [](HoldsTheLock /\ NoMissedSignal)
<1>1. IInv => HoldsTheLock /\ NoMissedSignal
  BY DEF IInv
<1> QED  BY <1>1, InitIInv, NextIInv, PTL DEF Spec

(* Every notify() that finds a thread in wait() wakes one, or has it woken *)
(* by its switch handler.                                                  *)
THEOREM NotifyWakes == Spec => SignalsWake
<1> DEFINE Wakes ==
       \A t \in Thread : epoch' # epoch /\ pc[t] \in {"block", "queued"} =>
         \E u \in Thread :
            /\ pc[u] \in {"block", "queued"}
            /\ pc'[u] = "ready" \/ (pc'[u] = "block" /\ old_epoch'[u] # epoch')
<1>1. IInv /\ [Next]_vars => [Wakes]_vars
  <2> SUFFICES ASSUME IInv, Next, NEW t \in Thread, epoch' # epoch,
                      pc[t] \in {"block", "queued"}
               PROVE  \E u \in Thread :
                        /\ pc[u] \in {"block", "queued"}
                        /\ pc'[u] = "ready" \/ (pc'[u] = "block" /\ old_epoch'[u] # epoch')
    OBVIOUS
  <2> USE DEF IInv
  <2>1. PICK k \in 0..Len(queue) :
            /\ Dequeue(k) /\ (queue # <<>> => k >= 1)
            /\ epoch' = epoch + 1 /\ UNCHANGED old_epoch
    <3>1. PICK s \in Thread : NotifyOne(s) \/ NotifyAll(s)
      BY DEF Next, Lock, Unlock, Wait, Handler
    <3>2. CASE NotifyOne(s)
      BY <3>2 DEF NotifyOne, TypeOK
    <3>3. CASE NotifyAll(s)
      BY <3>3 DEF NotifyAll, TypeOK
    <3> QED  BY <3>1, <3>2, <3>3
  <2>2. /\ \A u \in Thread : pc'[u] = pc[u] \/ (pc[u] = "queued" /\ pc'[u] = "ready")
        /\ \A i \in 1..k : pc'[queue[i]] = "ready"
    BY <2>1, DequeueReadies
  <2>3. CASE pc[t] = "block"
    BY <2>1, <2>2, <2>3 DEF TypeOK, HoldsTheLock
  <2>4. CASE pc[t] = "queued"
    <3>1. PICK i \in 1..Len(queue) : queue[i] = t
      BY <2>4 DEF QueueInv
    <3>2. queue[1] \in Thread /\ pc[queue[1]] = "queued" /\ pc'[queue[1]] = "ready"
      BY <3>1, <2>1, <2>2 DEF QueueInv, TypeOK
    <3> QED  BY <3>2
  <2> QED  BY <2>3, <2>4
<1> QED  BY <1>1, InitIInv, NextIInv, PTL DEF Spec, SignalsWake

-----------------------------------------------------------------------------
(* The classes over semaphores                                             *)

(* The threads in the line q are those of Waiting, each of them once.      *)
Line(q, Waiting) ==
    /\ \A i \in 1..Len(q) : q[i] \in Waiting
    /\ \A w \in Waiting : \E i \in 1..Len(q) : q[i] = w
    /\ \A i, j \in 1..Len(q) : q[i] = q[j] => i = j

(* The threads of a Barrier that are at a label.                           *)
Here(label) == {p \in Thread : where[p] = label}

(* count counts the threads that have not arrived, and nobody is past the  *)
(* barrier unless it is zero.                                              *)
BarrierInv ==
    /\ missing \in Nat
    /\ turnstile \in [count : Nat, waiting : Seq(Thread)]
    /\ where \in [Thread -> {"start", "down", "up", "waiting", "done"}]
    /\ missing = Cardinality(Here("start"))
    /\ Line(turnstile.waiting, Here("waiting"))
    /\ B!OneUnit
    /\ \A p \in Thread : where[p] = "done" => missing = 0

(* waiting.add(me) of a thread that is not in the line puts it there once. *)
LEMMA LineAppend ==
    ASSUME NEW S, NEW q \in Seq(S), NEW W, Line(q, W), NEW x \in S, x \notin W
    PROVE  Line(Append(q, x), W \cup {x}) /\ Append(q, x) \in Seq(S)
<1>1. /\ Len(Append(q, x)) = Len(q) + 1 /\ Len(q) \in Nat
      /\ \A i \in 1..Len(q) : Append(q, x)[i] = q[i]
      /\ Append(q, x)[Len(q) + 1] = x
  OBVIOUS
<1>2. \A i \in 1..Len(q) : q[i] # x
  BY DEF Line
<1>. QED  BY <1>1, <1>2 DEF Line

(* Taking the first thread of a line (waiting.remove() in up()) leaves a   *)
(* line of the others.                                                     *)
LEMMA LineTail ==
    ASSUME NEW S, NEW q \in Seq(S), NEW W, Line(q, W), q # <<>>
    PROVE  /\ Head(q) \in W /\ Head(q) \in S
           /\ Line(Tail(q), W \ {Head(q)}) /\ Tail(q) \in Seq(S)
<1>1. /\ Len(Tail(q)) = Len(q) - 1 /\ Len(q) \in Nat \ {0}
      /\ \A i \in 1..Len(q) - 1 : Tail(q)[i] = q[i + 1]
      /\ Head(q) = q[1] /\ Tail(q) \in Seq(S)
  OBVIOUS
<1>2. Head(q) \in W /\ Head(q) \in S
  BY <1>1 DEF Line
<1>3. \A i \in 1..Len(Tail(q)) : Tail(q)[i] \in W \ {Head(q)}
  <2> TAKE i \in 1..Len(Tail(q))
  <2>1. i + 1 \in 1..Len(q) /\ 1 \in 1..Len(q) /\ i + 1 # 1
    BY <1>1
  <2>. QED  BY <2>1, <1>1 DEF Line
<1>4. \A w \in W \ {Head(q)} : \E i \in 1..Len(Tail(q)) : Tail(q)[i] = w
  <2> TAKE w \in W \ {Head(q)}
  <2>1. PICK i \in 1..Len(q) : q[i] = w  BY DEF Line
  <2>2. i - 1 \in 1..Len(Tail(q)) /\ Tail(q)[i - 1] = w  BY <1>1, <2>1
  <2>. QED  BY <2>2
<1>5. \A i, j \in 1..Len(Tail(q)) : Tail(q)[i] = Tail(q)[j] => i = j
  <2> TAKE i, j \in 1..Len(Tail(q))
  <2>1. i + 1 \in 1..Len(q) /\ j + 1 \in 1..Len(q)  BY <1>1
  <2>2. q[i + 1] = q[j + 1] => i + 1 = j + 1  BY <2>1 DEF Line
  <2>. QED  BY <1>1, <2>2
<1>. QED  BY <1>1, <1>2, <1>3, <1>4, <1>5 DEF Line


(* The Cardinality of the instances is the one of FiniteSets.              *)
LEMMA Cardinalities ==
    /\ \A S : B!Cardinality(S) = Cardinality(S)
    /\ \A S : Q!Cardinality(S) = Cardinality(S)
  BY DEF B!Cardinality, Q!Cardinality, Cardinality

(* A Barrier as constructed: everybody is missing and there is no unit.    *)
LEMMA BarrierStarts == B!Init => BarrierInv
<1> SUFFICES ASSUME B!Init PROVE BarrierInv
  OBVIOUS
<1>1. Here("start") = Thread /\ Here("waiting") = {} /\ Here("up") = {}
  BY DEF B!Init, Here
<1>2. Cardinality(Thread) \in Nat /\ Cardinality(Thread) > 0
  BY RoundAssumption, FS_CardinalityType, FS_EmptySet
<1>3. turnstile = [count |-> 0, waiting |-> <<>>] /\ missing = Cardinality(Thread)
      /\ where = [p \in Thread |-> "start"]
  BY Cardinalities DEF B!Init, B!Made
<1>4. B!OneUnit
  BY <1>1, <1>2, <1>3 DEF B!OneUnit, Here
<1>5. Line(turnstile.waiting, Here("waiting"))
  BY <1>1, <1>3 DEF Line
<1>. QED  BY <1>1, <1>2, <1>3, <1>4, <1>5 DEF BarrierInv

(* count.add_fetch(-1) in sync(): the thread that brings the count to      *)
(* zero, and no other, gets the unit.                                      *)
LEMMA BarrierArrives ==
    ASSUME BarrierInv, NEW p \in Thread, B!Arrive(p)
    PROVE  BarrierInv'
<1>1. /\ where[p] = "start" /\ missing' = missing - 1 /\ turnstile' = turnstile
      /\ where' = [where EXCEPT ![p] = IF missing' < 0 THEN "panic"
                                       ELSE IF missing' = 0 THEN "up" ELSE "down"]
  BY DEF B!Arrive
<1>2. /\ Here("start")' = Here("start") \ {p} /\ p \in Here("start")
      /\ Here("waiting")' = Here("waiting")
  BY <1>1 DEF Here, BarrierInv
<1>3. IsFiniteSet(Here("start")) /\ IsFiniteSet(Here("start") \ {p})
  BY RoundAssumption, FS_Subset DEF Here
<1>4. /\ Cardinality(Here("start") \ {p}) = Cardinality(Here("start")) - 1
      /\ Cardinality(Here("start") \ {p}) \in Nat
  BY <1>2, <1>3, FS_RemoveElement, FS_CardinalityType
<1>a. missing = Cardinality(Here("start")) /\ missing \in Nat
  BY DEF BarrierInv
<1>b. missing' = Cardinality(Here("start") \ {p})
  BY <1>1, <1>4, <1>a
<1>5. missing' \in Nat /\ missing' = Cardinality(Here("start")') /\ missing > 0
  BY <1>1, <1>2, <1>4, <1>a, <1>b
<1>6. where' = [where EXCEPT ![p] = IF missing' = 0 THEN "up" ELSE "down"]
  <2>1. ~(missing' < 0)  BY <1>5
  <2>. QED  BY <1>1, <2>1
<1>7. B!OneUnit'
  <2>1. turnstile.count = 0 /\ \A q \in Thread : where[q] # "up"
    BY <1>5 DEF BarrierInv, B!OneUnit
  <2>. QED  BY <1>1, <1>5, <1>6, <2>1 DEF BarrierInv, B!OneUnit
<1>8. Line(turnstile.waiting, Here("waiting"))'
  BY <1>1, <1>2 DEF BarrierInv, Line
<1>9. \A q \in Thread : where'[q] # "done"
  BY <1>5, <1>6 DEF BarrierInv
<1>. QED  BY <1>1, <1>5, <1>6, <1>7, <1>8, <1>9 DEF BarrierInv

(* sem.down() in sync(): a thread takes the counted unit, or waits in      *)
(* line.                                                                   *)
LEMMA BarrierDowns ==
    ASSUME BarrierInv, NEW p \in Thread, B!Down(p)
    PROVE  BarrierInv'
<1>1. where[p] = "down" /\ missing' = missing
  BY DEF B!Down
<1>2. CASE B!Free(turnstile)
  <2>1. /\ turnstile' = [turnstile EXCEPT !.count = @ - 1]
        /\ where' = [where EXCEPT ![p] = "up"]
    BY <1>2 DEF B!Down, B!Taken
  <2>2. /\ turnstile.count = 1 /\ missing = 0
        /\ \A q \in Thread : where[q] # "up"
    BY <1>2 DEF BarrierInv, B!OneUnit, B!Free
  <2>3. turnstile' \in [count : Nat, waiting : Seq(Thread)]
        /\ turnstile'.waiting = turnstile.waiting /\ turnstile'.count = 0
    BY <2>1, <2>2 DEF BarrierInv
  <2>4. Here("start")' = Here("start") /\ Here("waiting")' = Here("waiting")
        /\ {q \in Thread : where'[q] = "up"} = {p}
    BY <1>1, <2>1, <2>2 DEF Here, BarrierInv
  <2>5. B!OneUnit'
    BY <1>1, <2>2, <2>3, <2>4 DEF B!OneUnit
  <2>6. Line(turnstile.waiting, Here("waiting"))'
    BY <2>3, <2>4 DEF BarrierInv, Line
  <2>. QED  BY <1>1, <2>1, <2>2, <2>3, <2>4, <2>5, <2>6 DEF BarrierInv
<1>3. CASE ~B!Free(turnstile)
  <2>1. /\ turnstile' = [turnstile EXCEPT !.waiting = Append(@, p)]
        /\ where' = [where EXCEPT ![p] = "waiting"]
    BY <1>3 DEF B!Down, B!Parked
  <2>2. turnstile.count = 0
    BY <1>3 DEF BarrierInv, B!Free
  <2>3. Here("start")' = Here("start") /\ Here("waiting")' = Here("waiting") \cup {p}
        /\ Here("up")' = Here("up") /\ p \notin Here("waiting")
    BY <1>1, <2>1 DEF Here, BarrierInv
  <2>4. /\ turnstile'.waiting = Append(turnstile.waiting, p)
        /\ turnstile'.count = turnstile.count
        /\ turnstile' = [count |-> turnstile.count, waiting |-> Append(turnstile.waiting, p)]
    BY <2>1 DEF BarrierInv
  <2>5. /\ Line(turnstile'.waiting, Here("waiting")') /\ turnstile'.waiting \in Seq(Thread)
    BY <2>3, <2>4, LineAppend DEF BarrierInv
  <2>6. B!OneUnit'
    BY <1>1, <2>2, <2>3, <2>4 DEF B!OneUnit, BarrierInv, Here
  <2>. QED  BY <1>1, <2>1, <2>2, <2>3, <2>4, <2>5, <2>6 DEF BarrierInv, Line
<1>. QED  BY <1>2, <1>3

(* sem.up() in sync(): the unit goes to the first in line, or is counted   *)
(* if nobody waits.                                                        *)
LEMMA BarrierUps ==
    ASSUME BarrierInv, NEW p \in Thread, B!Up(p)
    PROVE  BarrierInv'
<1>1. /\ where[p] = "up" /\ missing' = missing
      /\ turnstile' = B!Raised(turnstile)
      /\ where' = [q \in Thread |-> CASE q = p -> "done"
                                      [] q \in B!Released(turnstile) -> "up"
                                      [] OTHER -> where[q]]
  BY DEF B!Up
<1>2. missing = 0 /\ turnstile.count = 0 /\ \A q \in Thread : where[q] = "up" => q = p
  BY <1>1 DEF BarrierInv, B!OneUnit
<1>3. CASE turnstile.waiting = <<>>
  <2>1. turnstile' = [turnstile EXCEPT !.count = 1]
        /\ where' = [where EXCEPT ![p] = "done"]
    <3>1. B!Released(turnstile) = {}  BY <1>3 DEF B!Released
    <3>2. where' = [where EXCEPT ![p] = "done"]  BY <1>1, <3>1 DEF BarrierInv
    <3>3. turnstile' = [turnstile EXCEPT !.count = 0 + 1]  BY <1>1, <1>2, <1>3 DEF B!Raised
    <3>. QED  BY <3>2, <3>3
  <2>2. Here("start")' = Here("start") /\ Here("waiting")' = Here("waiting")
        /\ {q \in Thread : where'[q] = "up"} = {}
    BY <1>1, <1>2, <2>1 DEF Here, BarrierInv
  <2>3. turnstile' \in [count : Nat, waiting : Seq(Thread)]
        /\ turnstile'.waiting = turnstile.waiting /\ turnstile'.count = 1
    BY <2>1 DEF BarrierInv
  <2>4. B!OneUnit'
    BY <1>1, <1>2, <1>3, <2>2, <2>3 DEF B!OneUnit
  <2>5. Line(turnstile.waiting, Here("waiting"))'
    BY <2>2, <2>3 DEF BarrierInv, Line
  <2>. QED  BY <1>1, <1>2, <2>1, <2>2, <2>3, <2>4, <2>5 DEF BarrierInv
<1>4. CASE turnstile.waiting # <<>>
  <2> DEFINE h == Head(turnstile.waiting)
  <2>1. /\ h \in Here("waiting") /\ h \in Thread
        /\ Line(Tail(turnstile.waiting), Here("waiting") \ {h})
        /\ Tail(turnstile.waiting) \in Seq(Thread)
    BY <1>4, LineTail DEF BarrierInv
  <2>2. where[h] = "waiting" /\ h # p
    BY <1>1, <2>1 DEF Here
  <2>3. turnstile' = [turnstile EXCEPT !.waiting = Tail(@)]
        /\ where' = [where EXCEPT ![p] = "done", ![h] = "up"]
    BY <1>1, <1>4, <2>1, <2>2 DEF B!Raised, B!Released, BarrierInv
  <2>4. turnstile' \in [count : Nat, waiting : Seq(Thread)]
        /\ turnstile'.waiting = Tail(turnstile.waiting) /\ turnstile'.count = 0
    BY <1>2, <2>1, <2>3 DEF BarrierInv
  <2> HIDE DEF h
  <2>5. Here("start")' = Here("start") /\ Here("waiting")' = Here("waiting") \ {h}
        /\ {q \in Thread : where'[q] = "up"} = {h}
    BY <1>1, <1>2, <2>1, <2>2, <2>3 DEF Here, BarrierInv
  <2>6. B!OneUnit'
    BY <1>1, <1>2, <2>1, <2>4, <2>5 DEF B!OneUnit
  <2>7. Line(turnstile.waiting, Here("waiting"))'
    BY <2>1, <2>4, <2>5
  <2>8. where' \in [Thread -> {"start", "down", "up", "waiting", "done"}]
    BY <2>3 DEF BarrierInv
  <2>. QED  BY <1>1, <1>2, <2>4, <2>5, <2>6, <2>7, <2>8 DEF BarrierInv
<1>. QED  BY <1>3, <1>4

(* What the users of a Barrier rely on follows from the invariant: who is  *)
(* done found count at zero, so nobody is missing.                         *)
LEMMA BarrierConsequences == BarrierInv => B!OneUnit /\ B!NoneLeavesEarly
<1> SUFFICES ASSUME BarrierInv, NEW p \in Thread, NEW q \in Thread,
                    where[p] = "done", where[q] = "start"
             PROVE  FALSE
  BY DEF BarrierInv, B!NoneLeavesEarly
<1>1. IsFiniteSet(Here("start")) /\ q \in Here("start")
  BY RoundAssumption, FS_Subset DEF Here
<1>2. Cardinality(Here("start")) # 0
  BY <1>1, FS_EmptySet
<1>. QED  BY <1>2 DEF BarrierInv

-----------------------------------------------------------------------------

(* The threads that use the buffer.                                        *)
Users == Producer \cup Consumer

(* The threads in line for the semaphore s.                                *)
In(s) == Q!Waiters(sems[s])

(* A semaphore in which nobody waits twice.                                *)
Sound(s) == /\ s \in [count : Nat, waiting : Seq(Users)]
            /\ Line(s.waiting, Q!Waiters(s))

(* Where put() and get() can be.                                           *)
PutLabel == {"out", "waiting", "lock", "write", "count", "unlock", "signal"}
GetLabel == {"out", "waiting", "lock", "read", "count", "unlock", "signal"}

(* The type of the buffer's state.                                         *)
BufferTypes ==
    /\ head \in 0..N - 1 /\ n \in 0..N
    /\ data \in [0..N - 1 -> Item \cup {None}]
    /\ sems \in [Q!SemName -> [count : Nat, waiting : Seq(Users)]]
    /\ userPc \in [Users -> PutLabel \cup GetLabel]
    /\ \A p \in Producer : userPc[p] \in PutLabel
    /\ \A c \in Consumer : userPc[c] \in GetLabel
    /\ item \in [Users -> Item \cup {None}]
    /\ copy \in [Users -> Nat]

(* Who is in a line waits, and is in no other.                             *)
BufferLines ==
    /\ \A s \in Q!SemName : Line(sems[s].waiting, In(s))
    /\ \A s \in Q!SemName : \A u \in In(s) : userPc[u] = "waiting"
    /\ In("nEmpty") \subseteq Producer
    /\ In("nFull") \subseteq Consumer
    /\ In("lock") \cap In("nEmpty") = {}
    /\ In("lock") \cap In("nFull") = {}

(* put() has taken a free slot, and the item is not counted yet; or it is, *)
(* and nFull does not know; the same of get().                             *)
Filling  == {p \in Producer : userPc[p] \in {"lock", "write", "count"} \/ p \in In("lock")}
Filled   == {p \in Producer : userPc[p] \in {"unlock", "signal"}}
Emptying == {c \in Consumer : userPc[c] \in {"lock", "read", "count"} \/ c \in In("lock")}
Emptied  == {c \in Consumer : userPc[c] \in {"unlock", "signal"}}

(* n counts the full slots and N - n the empty ones, wherever they are.    *)
SlotInv ==
    /\ IsFiniteSet(Filling) /\ IsFiniteSet(Filled)
    /\ IsFiniteSet(Emptying) /\ IsFiniteSet(Emptied)
    /\ n = sems["nFull"].count + Cardinality(Emptying) + Cardinality(Filled)
    /\ N - n = sems["nEmpty"].count + Cardinality(Filling) + Cardinality(Emptied)

(* Between lock.down() and lock.up().                                      *)
Critical == {"write", "read", "count", "unlock"}

(* The lock is free, or one user is between lock.down() and lock.up().     *)
LockInv ==
    LET inside == {u \in Users : userPc[u] \in Critical}
    IN  \/ sems["lock"].count = 1 /\ inside = {}
        \/ sems["lock"].count = 0 /\ \E u \in Users : inside = {u}

(* What the holder of the lock has read or stored is still true.           *)
ItemInv ==
    /\ \A u \in Users : userPc[u] = "count" => copy[u] = n
    /\ \A p \in Producer : userPc[p] # "out" => item[p] \in Item
    /\ \A p \in Producer : userPc[p] = "count" => data[(head + n) % N] = item[p]

(* The inductive invariant of a BoundedBuffer.                             *)
BufferInv == BufferTypes /\ BufferLines /\ SlotInv /\ LockInv /\ ItemInv

-----------------------------------------------------------------------------

(* A line determines who is in it.                                         *)
LEMMA LineIs ==
    ASSUME NEW S, NEW q \in Seq(S), NEW W, Line(q, W)
    PROVE  W = {q[i] : i \in DOMAIN q}
<1>1. DOMAIN q = 1..Len(q)  OBVIOUS
<1>. QED  BY <1>1 DEF Line

(* down() of a semaphore that has a unit.                                  *)
LEMMA SemTaken ==
    ASSUME NEW s, Sound(s), Q!Free(s), NEW r, r = Q!Taken(s)
    PROVE  Sound(r) /\ r.count = s.count - 1 /\ Q!Waiters(r) = Q!Waiters(s)
  BY DEF Sound, Q!Free, Q!Taken, Q!Waiters

(* down() of a semaphore that has none.                                    *)
LEMMA SemParked ==
    ASSUME NEW s, Sound(s), NEW u \in Users, u \notin Q!Waiters(s),
           NEW r, r = Q!Parked(s, u)
    PROVE  Sound(r) /\ r.count = s.count /\ Q!Waiters(r) = Q!Waiters(s) \cup {u}
<1>1. /\ r = [count |-> s.count, waiting |-> Append(s.waiting, u)]
      /\ r.count = s.count /\ r.waiting = Append(s.waiting, u)
  BY DEF Q!Parked, Sound
<1>2. /\ Line(Append(s.waiting, u), Q!Waiters(s) \cup {u})
      /\ Append(s.waiting, u) \in Seq(Users)
  BY LineAppend DEF Sound
<1>a. Q!Waiters(s) \cup {u} = {Append(s.waiting, u)[i] : i \in DOMAIN Append(s.waiting, u)}
  BY <1>2, LineIs
<1>3. Q!Waiters(r) = Q!Waiters(s) \cup {u}
  BY <1>1, <1>a DEF Q!Waiters
<1>. QED  BY <1>1, <1>2, <1>3 DEF Sound

(* up() adds a unit to the count or hands it to exactly one of the waiting *)
(* threads, which leaves the line.                                         *)
LEMMA SemRaised ==
    ASSUME NEW s, Sound(s), NEW r, r = Q!Raised(s)
    PROVE  /\ Sound(r)
           /\ \/ /\ Q!Released(s) = {}
                 /\ r.count = s.count + 1
                 /\ Q!Waiters(r) = Q!Waiters(s)
              \/ /\ r.count = s.count
                 /\ \E h \in Q!Waiters(s) :
                        /\ h \in Users
                        /\ Q!Released(s) = {h}
                        /\ Q!Waiters(r) = Q!Waiters(s) \ {h}
<1>1. CASE s.waiting = <<>>
  <2>1. r = [count |-> s.count + 1, waiting |-> s.waiting]
    BY <1>1 DEF Sound, Q!Raised
  <2>2. Q!Waiters(r) = Q!Waiters(s)
    BY <2>1 DEF Q!Waiters
  <2>3. Q!Released(s) = {}
    BY <1>1 DEF Q!Released
  <2>. QED  BY <2>1, <2>2, <2>3 DEF Sound
<1>2. CASE s.waiting # <<>>
  <2>0. PICK h : h = Head(s.waiting)  OBVIOUS
  <2>1. /\ r = [count |-> s.count, waiting |-> Tail(s.waiting)]
        /\ r.count = s.count /\ r.waiting = Tail(s.waiting)
    BY <1>2 DEF Q!Raised, Sound
  <2>2. /\ h \in Q!Waiters(s) /\ h \in Users
        /\ Line(Tail(s.waiting), Q!Waiters(s) \ {h})
        /\ Tail(s.waiting) \in Seq(Users)
    BY <1>2, <2>0, LineTail DEF Sound
  <2>3. Q!Waiters(s) \ {h} = {Tail(s.waiting)[i] : i \in DOMAIN Tail(s.waiting)}
    BY <2>2, LineIs
  <2>5. Q!Waiters(r) = Q!Waiters(s) \ {h}
    BY <2>1, <2>3 DEF Q!Waiters
  <2>4. Q!Released(s) = {h}
    BY <1>2, <2>0 DEF Q!Released
  <2>6. Sound(r)
    BY <2>1, <2>2, <2>5 DEF Sound
  <2>. QED  BY <2>1, <2>2, <2>4, <2>5, <2>6
<1>. QED  BY <1>1, <1>2

-----------------------------------------------------------------------------

(* The two outcomes of down() on one of the three semaphores of a          *)
(* BoundedBuffer.                                                          *)
LEMMA BufferDowns ==
    ASSUME BufferInv, NEW u \in Users, NEW s \in Q!SemName, Q!Down(u, s),
           userPc[u] \in {"out", "lock"}
    PROVE  /\ \A x \in Q!SemName : Sound(sems'[x])
           /\ sems' \in [Q!SemName -> [count : Nat, waiting : Seq(Users)]]
           /\ \A x \in Q!SemName \ {s} : sems'[x] = sems[x] /\ In(x)' = In(x)
           /\ \/ /\ sems[s].count > 0 /\ sems'[s].count = sems[s].count - 1
                 /\ In(s)' = In(s) /\ userPc' = [userPc EXCEPT ![u] = Q!After(u, s)]
              \/ /\ sems[s].count = 0 /\ sems'[s].count = 0
                 /\ In(s)' = In(s) \cup {u} /\ userPc' = [userPc EXCEPT ![u] = "waiting"]
<1>1. /\ \A x \in Q!SemName : Sound(sems[x])
      /\ \A x \in Q!SemName : sems[x] \in [count : Nat, waiting : Seq(Users)]
      /\ sems \in [Q!SemName -> [count : Nat, waiting : Seq(Users)]]
  BY DEF BufferInv, BufferTypes, BufferLines, Sound, In
<1>2. u \notin Q!Waiters(sems[s])
  BY DEF BufferInv, BufferLines, In
<1>3. CASE Q!Free(sems[s])
  <2>1. /\ sems' = [sems EXCEPT ![s] = Q!Taken(@)]
        /\ userPc' = [userPc EXCEPT ![u] = Q!After(u, s)]
    BY <1>3 DEF Q!Down
  <2>2. /\ sems'[s] = Q!Taken(sems[s])
        /\ \A x \in Q!SemName \ {s} : sems'[x] = sems[x]
    BY <1>1, <2>1
  <2>3. /\ Sound(sems'[s]) /\ sems'[s].count = sems[s].count - 1
        /\ Q!Waiters(sems'[s]) = Q!Waiters(sems[s])
    BY <1>1, <1>3, <2>2, SemTaken
  <2>4. sems' \in [Q!SemName -> [count : Nat, waiting : Seq(Users)]]
    BY <1>1, <2>1, <2>2, <2>3 DEF Sound
  <2>. QED  BY <1>1, <1>3, <2>1, <2>2, <2>3, <2>4 DEF In, Q!Free
<1>4. CASE ~Q!Free(sems[s])
  <2>1. /\ sems' = [sems EXCEPT ![s] = Q!Parked(@, u)]
        /\ userPc' = [userPc EXCEPT ![u] = "waiting"]
    BY <1>4 DEF Q!Down
  <2>2. /\ sems'[s] = Q!Parked(sems[s], u)
        /\ \A x \in Q!SemName \ {s} : sems'[x] = sems[x]
    BY <1>1, <2>1
  <2>3. /\ Sound(sems'[s]) /\ sems'[s].count = sems[s].count
        /\ Q!Waiters(sems'[s]) = Q!Waiters(sems[s]) \cup {u}
    BY <1>1, <1>2, <2>2, SemParked
  <2>4. sems' \in [Q!SemName -> [count : Nat, waiting : Seq(Users)]]
    BY <1>1, <2>1, <2>2, <2>3 DEF Sound
  <2>5. sems[s].count = 0
    BY <1>1, <1>4 DEF Q!Free
  <2>. QED  BY <1>1, <2>1, <2>2, <2>3, <2>4, <2>5 DEF In
<1>. QED  BY <1>3, <1>4

(* The two outcomes of an up() of s by u, which goes on to label.          *)
Adds(u, s, label) ==
    /\ sems'[s].count = sems[s].count + 1
    /\ In(s)' = In(s)
    /\ userPc' = [userPc EXCEPT ![u] = label]

HandsOver(u, s, label, h) ==
    /\ sems'[s].count = sems[s].count
    /\ h \in In(s) /\ h \in Users /\ h # u /\ userPc[h] = "waiting"
    /\ In(s)' = In(s) \ {h}
    /\ userPc' = [userPc EXCEPT ![u] = label, ![h] = Q!After(h, s)]

(* The two outcomes of up() on one of the three semaphores of a            *)
(* BoundedBuffer.                                                          *)
LEMMA BufferUps ==
    ASSUME BufferInv, NEW u \in Users, NEW s \in Q!SemName, NEW label,
           Q!Up(u, s, label), userPc[u] \in {"unlock", "signal"}
    PROVE  /\ \A x \in Q!SemName : Sound(sems'[x])
           /\ sems' \in [Q!SemName -> [count : Nat, waiting : Seq(Users)]]
           /\ \A x \in Q!SemName \ {s} : sems'[x] = sems[x] /\ In(x)' = In(x)
           /\ Adds(u, s, label) \/ \E h \in Users : HandsOver(u, s, label, h)
<1>1. /\ \A x \in Q!SemName : Sound(sems[x])
      /\ sems \in [Q!SemName -> [count : Nat, waiting : Seq(Users)]]
      /\ userPc = [v \in Users |-> userPc[v]]
  BY DEF BufferInv, BufferTypes, BufferLines, Sound, In
<1>2. /\ sems' = [sems EXCEPT ![s] = Q!Raised(@)]
      /\ userPc' = [v \in Users |-> CASE v = u -> label
                                      [] v \in Q!Released(sems[s]) -> Q!After(v, s)
                                      [] OTHER -> userPc[v]]
  BY DEF Q!Up, Q!User, Users
<1>3. /\ sems'[s] = Q!Raised(sems[s])
      /\ \A x \in Q!SemName \ {s} : sems'[x] = sems[x]
  BY <1>1, <1>2
<1>4. Sound(sems'[s])
  BY <1>1, <1>3, SemRaised
<1>5. sems' \in [Q!SemName -> [count : Nat, waiting : Seq(Users)]]
  BY <1>1, <1>2, <1>3, <1>4 DEF Sound
<1>6. CASE /\ Q!Released(sems[s]) = {}
           /\ sems'[s].count = sems[s].count + 1
           /\ Q!Waiters(sems'[s]) = Q!Waiters(sems[s])
  <2>1. userPc' = [userPc EXCEPT ![u] = label]
    BY <1>1, <1>2, <1>6
  <2>. QED  BY <1>1, <1>3, <1>4, <1>5, <1>6, <2>1 DEF In, Adds
<1>7. ASSUME sems'[s].count = sems[s].count,
             NEW h \in Q!Waiters(sems[s]), h \in Users,
             Q!Released(sems[s]) = {h},
             Q!Waiters(sems'[s]) = Q!Waiters(sems[s]) \ {h}
      PROVE  HandsOver(u, s, label, h)
  <2>1. userPc[h] = "waiting" /\ h # u /\ h \in In(s) /\ In(s)' = In(s) \ {h}
    BY <1>7 DEF BufferInv, BufferLines, In
  <2>. QED  BY <1>1, <1>2, <1>7, <2>1 DEF HandsOver
<1>8. \/ /\ Q!Released(sems[s]) = {}
         /\ sems'[s].count = sems[s].count + 1
         /\ Q!Waiters(sems'[s]) = Q!Waiters(sems[s])
      \/ /\ sems'[s].count = sems[s].count
         /\ \E h \in Q!Waiters(sems[s]) :
                /\ h \in Users
                /\ Q!Released(sems[s]) = {h}
                /\ Q!Waiters(sems'[s]) = Q!Waiters(sems[s]) \ {h}
  BY <1>1, <1>3, SemRaised
<1>9. CASE /\ sems'[s].count = sems[s].count
           /\ \E h \in Q!Waiters(sems[s]) :
                  /\ h \in Users
                  /\ Q!Released(sems[s]) = {h}
                  /\ Q!Waiters(sems'[s]) = Q!Waiters(sems[s]) \ {h}
  BY <1>1, <1>3, <1>4, <1>5, <1>7, <1>9 DEF In
<1>. QED  BY <1>6, <1>8, <1>9

-----------------------------------------------------------------------------

(* One more element.                                                       *)
LEMMA AddOne ==
    ASSUME NEW S, IsFiniteSet(S), NEW x, x \notin S
    PROVE  /\ IsFiniteSet(S \cup {x})
           /\ Cardinality(S \cup {x}) = Cardinality(S) + 1 /\ Cardinality(S) \in Nat
  BY FS_AddElement, FS_CardinalityType

(* One element less.                                                       *)
LEMMA DropOne ==
    ASSUME NEW S, IsFiniteSet(S), NEW x, x \in S
    PROVE  /\ IsFiniteSet(S \ {x})
           /\ Cardinality(S \ {x}) = Cardinality(S) - 1
           /\ Cardinality(S) \in Nat \ {0}
<1>1. Cardinality(S) \in Nat /\ Cardinality(S) # 0
  BY FS_EmptySet, FS_CardinalityType
<1>. QED  BY <1>1, FS_RemoveElement

(* A BoundedBuffer as constructed: N empty slots, no full one, the lock    *)
(* free.                                                                   *)
LEMMA BufferStarts == Q!Init => BufferInv
<1> SUFFICES ASSUME Q!Init PROVE BufferInv
  OBVIOUS
<1>0. N \in Nat \ {0}
  BY SynchronisationAssumption
<1>1. /\ sems = [s \in {"nEmpty", "nFull", "lock"} |-> sems[s]]
      /\ sems["nEmpty"] = [count |-> N, waiting |-> <<>>]
      /\ sems["nFull"] = [count |-> 0, waiting |-> <<>>]
      /\ sems["lock"] = [count |-> 1, waiting |-> <<>>]
  BY DEF Q!Init, Q!Made, Q!SemName
<1>a. /\ sems["nEmpty"].count = N /\ sems["nFull"].count = 0 /\ sems["lock"].count = 1
      /\ \A s \in Q!SemName : sems[s].waiting = <<>>
  BY <1>1 DEF Q!SemName
<1>2. sems \in [Q!SemName -> [count : Nat, waiting : Seq(Users)]]
  <2>2. /\ sems["nEmpty"] \in [count : Nat, waiting : Seq(Users)]
        /\ sems["nFull"] \in [count : Nat, waiting : Seq(Users)]
        /\ sems["lock"] \in [count : Nat, waiting : Seq(Users)]
    <3>1. \A k \in Nat : [count |-> k, waiting |-> <<>>] \in [count : Nat, waiting : Seq(Users)]
      OBVIOUS
    <3>. QED  BY <1>0, <1>1, <3>1
  <2>. QED  BY <1>1, <2>2 DEF Q!SemName
<1>3. \A s \in Q!SemName : In(s) = {}
  BY <1>a DEF In, Q!Waiters
<1>4. \A s \in Q!SemName : Line(sems[s].waiting, In(s))
  BY <1>a, <1>3 DEF Line
<1>5. /\ userPc = [u \in Users |-> "out"] /\ item = [u \in Users |-> None]
      /\ copy = [u \in Users |-> 0] /\ head = 0 /\ n = 0
      /\ data = [i \in 0..N - 1 |-> None]
  BY DEF Q!Init, Q!User, Users
<1>6. BufferTypes
  BY <1>0, <1>2, <1>5 DEF BufferTypes, PutLabel, GetLabel, Users
<1>7. Filling = {} /\ Filled = {} /\ Emptying = {} /\ Emptied = {}
  BY <1>3, <1>5 DEF Filling, Filled, Emptying, Emptied, Users, Q!SemName
<1>8. SlotInv
  BY <1>0, <1>a, <1>5, <1>7, FS_EmptySet DEF SlotInv
<1>9. LockInv /\ ItemInv
  BY <1>a, <1>5 DEF LockInv, ItemInv, Critical, Users
<1>10. BufferLines
  BY <1>3, <1>4 DEF BufferLines, Q!SemName
<1>. QED  BY <1>6, <1>8, <1>9, <1>10 DEF BufferInv

(* put(): nEmpty.down() takes an empty slot or waits for one.              *)
LEMMA BufferPuts ==
    ASSUME BufferInv, NEW p \in Producer, NEW x \in Item, Q!Put(p, x)
    PROVE  BufferInv'
<1>1. /\ userPc[p] = "out" /\ item' = [item EXCEPT ![p] = x]
      /\ UNCHANGED <<head, n, data, copy>> /\ Q!Down(p, "nEmpty")
  BY DEF Q!Put
<1>2. /\ p \in Users /\ p \notin Consumer /\ Producer \subseteq Users /\ Consumer \subseteq Users
      /\ "nEmpty" \in Q!SemName /\ "nFull" \in Q!SemName /\ "lock" \in Q!SemName
      /\ Producer \cap Consumer = {} /\ Q!SemName = {"nEmpty", "nFull", "lock"}
  BY SynchronisationAssumption DEF Users, Q!SemName
<1>3. p \notin In("lock") /\ p \notin In("nEmpty")
  BY <1>1, <1>2 DEF BufferInv, BufferLines
<1>4. /\ \A s \in Q!SemName : Sound(sems'[s])
      /\ sems' \in [Q!SemName -> [count : Nat, waiting : Seq(Users)]]
      /\ \A s \in Q!SemName \ {"nEmpty"} : sems'[s] = sems[s] /\ In(s)' = In(s)
  BY <1>1, <1>2, BufferDowns
<1>5. /\ In("lock")' = In("lock") /\ In("nFull")' = In("nFull")
      /\ sems'["lock"] = sems["lock"] /\ sems'["nFull"] = sems["nFull"]
      /\ sems["nEmpty"].count \in Nat /\ sems["nFull"].count \in Nat
  BY <1>2, <1>4 DEF BufferInv, BufferTypes
<1>6. userPc \in [Users -> PutLabel \cup GetLabel]
  BY DEF BufferInv, BufferTypes
<1>7. item' \in [Users -> Item \cup {None}]
  BY <1>1, <1>2 DEF BufferInv, BufferTypes
<1>8. \A s \in Q!SemName : Line(sems'[s].waiting, In(s)')
  BY <1>4 DEF Sound, In
<1>9. CASE /\ sems["nEmpty"].count > 0 /\ sems'["nEmpty"].count = sems["nEmpty"].count - 1
           /\ In("nEmpty")' = In("nEmpty")
           /\ userPc' = [userPc EXCEPT ![p] = Q!After(p, "nEmpty")]
  <2>1. userPc' = [userPc EXCEPT ![p] = "lock"]
    BY <1>9 DEF Q!After
  <2>2. /\ Filling' = Filling \cup {p} /\ p \notin Filling
        /\ Filled' = Filled /\ Emptying' = Emptying /\ Emptied' = Emptied
    BY <1>1, <1>2, <1>3, <1>5, <1>6, <2>1 DEF Filling, Filled, Emptying, Emptied
  <2>3. SlotInv'
    <3>1. /\ IsFiniteSet(Filling \cup {p}) /\ Cardinality(Filling) \in Nat
          /\ Cardinality(Filling \cup {p}) = Cardinality(Filling) + 1
      BY <2>2, AddOne DEF BufferInv, SlotInv
    <3>2. Cardinality(Emptied) \in Nat
      BY FS_CardinalityType DEF BufferInv, SlotInv
    <3>. QED  BY <1>1, <1>5, <1>9, <2>2, <3>1, <3>2 DEF BufferInv, SlotInv
  <2>4. LockInv'
    <3>1. {u \in Users : userPc'[u] \in Critical} = {u \in Users : userPc[u] \in Critical}
      BY <1>1, <1>2, <1>6, <2>1 DEF Critical
    <3>. QED  BY <1>5, <3>1 DEF BufferInv, LockInv
  <2>5. ItemInv'
    BY <1>1, <1>2, <1>6, <2>1 DEF BufferInv, BufferTypes, ItemInv
  <2>6. BufferLines'
    BY <1>1, <1>2, <1>3, <1>5, <1>6, <1>8, <1>9, <2>1 DEF BufferInv, BufferLines
  <2>7. BufferTypes'
    BY <1>1, <1>2, <1>4, <1>6, <1>7, <2>1 DEF BufferInv, BufferTypes, PutLabel, GetLabel
  <2>. QED  BY <2>3, <2>4, <2>5, <2>6, <2>7 DEF BufferInv
<1>10. CASE /\ sems["nEmpty"].count = 0 /\ sems'["nEmpty"].count = 0
            /\ In("nEmpty")' = In("nEmpty") \cup {p}
            /\ userPc' = [userPc EXCEPT ![p] = "waiting"]
  <2>2. /\ Filling' = Filling
        /\ Filled' = Filled /\ Emptying' = Emptying /\ Emptied' = Emptied
    BY <1>1, <1>2, <1>3, <1>5, <1>6, <1>10 DEF Filling, Filled, Emptying, Emptied
  <2>3. SlotInv'
    BY <1>1, <1>5, <1>10, <2>2 DEF BufferInv, SlotInv
  <2>4. LockInv'
    <3>1. {u \in Users : userPc'[u] \in Critical} = {u \in Users : userPc[u] \in Critical}
      BY <1>1, <1>2, <1>6, <1>10 DEF Critical
    <3>. QED  BY <1>5, <3>1 DEF BufferInv, LockInv
  <2>5. ItemInv'
    BY <1>1, <1>2, <1>6, <1>10 DEF BufferInv, BufferTypes, ItemInv
  <2>6. BufferLines'
    BY <1>1, <1>2, <1>3, <1>5, <1>6, <1>8, <1>10 DEF BufferInv, BufferLines
  <2>7. BufferTypes'
    BY <1>1, <1>2, <1>4, <1>6, <1>7, <1>10 DEF BufferInv, BufferTypes, PutLabel, GetLabel
  <2>. QED  BY <2>3, <2>4, <2>5, <2>6, <2>7 DEF BufferInv
<1>. QED  BY <1>1, <1>2, <1>9, <1>10, BufferDowns
(* get(): nFull.down() takes a full slot or waits for one.                 *)
LEMMA BufferGets ==
    ASSUME BufferInv, NEW c \in Consumer, Q!Get(c)
    PROVE  BufferInv'
<1>1. /\ userPc[c] = "out" /\ item' = item
      /\ UNCHANGED <<head, n, data, copy>> /\ Q!Down(c, "nFull")
  BY DEF Q!Get
<1>2. /\ c \in Users /\ c \notin Producer /\ Producer \subseteq Users /\ Consumer \subseteq Users
      /\ "nFull" \in Q!SemName /\ "nEmpty" \in Q!SemName /\ "lock" \in Q!SemName
      /\ Producer \cap Consumer = {} /\ Q!SemName = {"nFull", "nEmpty", "lock"}
  BY SynchronisationAssumption DEF Users, Q!SemName
<1>3. c \notin In("lock") /\ c \notin In("nFull")
  BY <1>1, <1>2 DEF BufferInv, BufferLines
<1>4. /\ \A s \in Q!SemName : Sound(sems'[s])
      /\ sems' \in [Q!SemName -> [count : Nat, waiting : Seq(Users)]]
      /\ \A s \in Q!SemName \ {"nFull"} : sems'[s] = sems[s] /\ In(s)' = In(s)
  BY <1>1, <1>2, BufferDowns
<1>5. /\ In("lock")' = In("lock") /\ In("nEmpty")' = In("nEmpty")
      /\ sems'["lock"] = sems["lock"] /\ sems'["nEmpty"] = sems["nEmpty"]
      /\ sems["nFull"].count \in Nat /\ sems["nEmpty"].count \in Nat
  BY <1>2, <1>4 DEF BufferInv, BufferTypes
<1>6. userPc \in [Users -> PutLabel \cup GetLabel]
  BY DEF BufferInv, BufferTypes
<1>7. item' \in [Users -> Item \cup {None}]
  BY <1>1, <1>2 DEF BufferInv, BufferTypes
<1>8. \A s \in Q!SemName : Line(sems'[s].waiting, In(s)')
  BY <1>4 DEF Sound, In
<1>9. CASE /\ sems["nFull"].count > 0 /\ sems'["nFull"].count = sems["nFull"].count - 1
           /\ In("nFull")' = In("nFull")
           /\ userPc' = [userPc EXCEPT ![c] = Q!After(c, "nFull")]
  <2>1. userPc' = [userPc EXCEPT ![c] = "lock"]
    BY <1>9 DEF Q!After
  <2>2. /\ Emptying' = Emptying \cup {c} /\ c \notin Emptying
        /\ Filled' = Filled /\ Filling' = Filling /\ Emptied' = Emptied
    BY <1>1, <1>2, <1>3, <1>5, <1>6, <2>1 DEF Emptying, Filled, Filling, Emptied
  <2>3. SlotInv'
    <3>1. /\ IsFiniteSet(Emptying \cup {c}) /\ Cardinality(Emptying) \in Nat
          /\ Cardinality(Emptying \cup {c}) = Cardinality(Emptying) + 1
      BY <2>2, AddOne DEF BufferInv, SlotInv
    <3>2. Cardinality(Filled) \in Nat
      BY FS_CardinalityType DEF BufferInv, SlotInv
    <3>. QED  BY <1>1, <1>5, <1>9, <2>2, <3>1, <3>2 DEF BufferInv, SlotInv
  <2>4. LockInv'
    <3>1. {u \in Users : userPc'[u] \in Critical} = {u \in Users : userPc[u] \in Critical}
      BY <1>1, <1>2, <1>6, <2>1 DEF Critical
    <3>. QED  BY <1>5, <3>1 DEF BufferInv, LockInv
  <2>5. ItemInv'
    BY <1>1, <1>2, <1>6, <2>1 DEF BufferInv, BufferTypes, ItemInv
  <2>6. BufferLines'
    BY <1>1, <1>2, <1>3, <1>5, <1>6, <1>8, <1>9, <2>1 DEF BufferInv, BufferLines
  <2>7. BufferTypes'
    BY <1>1, <1>2, <1>4, <1>6, <1>7, <2>1 DEF BufferInv, BufferTypes, PutLabel, GetLabel
  <2>. QED  BY <2>3, <2>4, <2>5, <2>6, <2>7 DEF BufferInv
<1>10. CASE /\ sems["nFull"].count = 0 /\ sems'["nFull"].count = 0
            /\ In("nFull")' = In("nFull") \cup {c}
            /\ userPc' = [userPc EXCEPT ![c] = "waiting"]
  <2>2. /\ Emptying' = Emptying
        /\ Filled' = Filled /\ Filling' = Filling /\ Emptied' = Emptied
    BY <1>1, <1>2, <1>3, <1>5, <1>6, <1>10 DEF Emptying, Filled, Filling, Emptied
  <2>3. SlotInv'
    BY <1>1, <1>5, <1>10, <2>2 DEF BufferInv, SlotInv
  <2>4. LockInv'
    <3>1. {u \in Users : userPc'[u] \in Critical} = {u \in Users : userPc[u] \in Critical}
      BY <1>1, <1>2, <1>6, <1>10 DEF Critical
    <3>. QED  BY <1>5, <3>1 DEF BufferInv, LockInv
  <2>5. ItemInv'
    BY <1>1, <1>2, <1>6, <1>10 DEF BufferInv, BufferTypes, ItemInv
  <2>6. BufferLines'
    BY <1>1, <1>2, <1>3, <1>5, <1>6, <1>8, <1>10 DEF BufferInv, BufferLines
  <2>7. BufferTypes'
    BY <1>1, <1>2, <1>4, <1>6, <1>7, <1>10 DEF BufferInv, BufferTypes, PutLabel, GetLabel
  <2>. QED  BY <2>3, <2>4, <2>5, <2>6, <2>7 DEF BufferInv
<1>. QED  BY <1>1, <1>2, <1>9, <1>10, BufferDowns

(* Only the users of the buffer are in its lines.                          *)
LEMMA InUsers == BufferTypes => \A s \in Q!SemName : In(s) \subseteq Users
<1> SUFFICES ASSUME BufferTypes, NEW s \in Q!SemName PROVE In(s) \subseteq Users
  OBVIOUS
<1>1. sems[s] \in [count : Nat, waiting : Seq(Users)]
  BY DEF BufferTypes
<1>2. \A i \in DOMAIN sems[s].waiting : sems[s].waiting[i] \in Users
  BY <1>1
<1>. QED  BY <1>2 DEF In, Q!Waiters

(* The parts of the invariant the steps below use most.                    *)
LEMMA BufferFacts ==
    ASSUME BufferInv
    PROVE  /\ Producer \subseteq Users /\ Consumer \subseteq Users
           /\ Users = Producer \cup Consumer /\ Producer \cap Consumer = {}
           /\ "nEmpty" \in Q!SemName /\ "nFull" \in Q!SemName /\ "lock" \in Q!SemName
           /\ Q!SemName = {"nEmpty", "nFull", "lock"}
           /\ userPc \in [Users -> PutLabel \cup GetLabel]
           /\ sems["nEmpty"].count \in Nat /\ sems["nFull"].count \in Nat
           /\ \A s \in Q!SemName : \A u \in Users : userPc[u] # "waiting" => u \notin In(s)
           /\ Cardinality(Filling) \in Nat /\ Cardinality(Filled) \in Nat
           /\ Cardinality(Emptying) \in Nat /\ Cardinality(Emptied) \in Nat
           /\ N \in Nat \ {0} /\ head \in 0..N - 1 /\ n \in 0..N
  BY SynchronisationAssumption, FS_CardinalityType
  DEF BufferInv, BufferTypes, BufferLines, SlotInv, Users, Q!SemName

(* lock.down(): the slot in hand stays in hand, and the lock has one       *)
(* holder.                                                                 *)
LEMMA BufferLocks ==
    ASSUME BufferInv, NEW u \in Users, Q!Lock(u)
    PROVE  BufferInv'
<1> USE BufferFacts
<1>1. /\ userPc[u] = "lock" /\ UNCHANGED <<head, n, data, item, copy>>
      /\ Q!Down(u, "lock")
  BY DEF Q!Lock
<1>2. u \notin In("lock") /\ u \notin In("nEmpty") /\ u \notin In("nFull")
  BY <1>1
<1>3. /\ \A s \in Q!SemName : Sound(sems'[s])
      /\ sems' \in [Q!SemName -> [count : Nat, waiting : Seq(Users)]]
      /\ \A s \in Q!SemName \ {"lock"} : sems'[s] = sems[s] /\ In(s)' = In(s)
  BY <1>1, BufferDowns
<1>4. /\ In("nEmpty")' = In("nEmpty") /\ In("nFull")' = In("nFull")
      /\ sems'["nEmpty"] = sems["nEmpty"] /\ sems'["nFull"] = sems["nFull"]
  BY <1>3
<1>5. \A s \in Q!SemName : Line(sems'[s].waiting, In(s)')
  BY <1>3 DEF Sound, In
<1>6. ASSUME Filling' = Filling, Filled' = Filled, Emptying' = Emptying, Emptied' = Emptied
      PROVE  SlotInv'
  BY <1>1, <1>4, <1>6 DEF BufferInv, SlotInv
<1>7. CASE /\ sems["lock"].count > 0 /\ sems'["lock"].count = sems["lock"].count - 1
           /\ In("lock")' = In("lock")
           /\ userPc' = [userPc EXCEPT ![u] = Q!After(u, "lock")]
  <2>1. userPc' = [userPc EXCEPT ![u] = IF u \in Producer THEN "write" ELSE "read"]
    BY <1>7 DEF Q!After
  <2>2. /\ Filling' = Filling /\ Filled' = Filled
        /\ Emptying' = Emptying /\ Emptied' = Emptied
    BY <1>1, <1>7, <2>1 DEF Filling, Filled, Emptying, Emptied
  <2>3. SlotInv'
    BY <1>6, <2>2
  <2>4. LockInv'
    <3>1. sems["lock"].count = 1 /\ {v \in Users : userPc[v] \in Critical} = {}
      BY <1>7 DEF BufferInv, LockInv
    <3>2. {v \in Users : userPc'[v] \in Critical} = {u}
      BY <2>1, <3>1 DEF Critical
    <3>. QED  BY <1>7, <3>1, <3>2 DEF LockInv
  <2>5. ItemInv'
    BY <1>1, <2>1 DEF BufferInv, BufferTypes, ItemInv
  <2>6. BufferLines'
    BY <1>1, <1>2, <1>4, <1>5, <1>7, <2>1 DEF BufferInv, BufferLines
  <2>7. BufferTypes'
    BY <1>1, <1>3, <2>1 DEF BufferInv, BufferTypes, PutLabel, GetLabel
  <2>. QED  BY <2>3, <2>4, <2>5, <2>6, <2>7 DEF BufferInv
<1>8. CASE /\ sems["lock"].count = 0 /\ sems'["lock"].count = 0
           /\ In("lock")' = In("lock") \cup {u}
           /\ userPc' = [userPc EXCEPT ![u] = "waiting"]
  <2>2. /\ Filling' = Filling /\ Filled' = Filled
        /\ Emptying' = Emptying /\ Emptied' = Emptied
    BY <1>1, <1>8 DEF Filling, Filled, Emptying, Emptied
  <2>3. SlotInv'
    BY <1>6, <2>2
  <2>4. LockInv'
    <3>1. {v \in Users : userPc'[v] \in Critical} = {v \in Users : userPc[v] \in Critical}
      BY <1>1, <1>8 DEF Critical
    <3>. QED  BY <1>8, <3>1 DEF BufferInv, LockInv
  <2>5. ItemInv'
    BY <1>1, <1>8 DEF BufferInv, BufferTypes, ItemInv
  <2>6. BufferLines'
    BY <1>1, <1>2, <1>4, <1>5, <1>8 DEF BufferInv, BufferLines
  <2>7. BufferTypes'
    BY <1>1, <1>3, <1>8 DEF BufferInv, BufferTypes, PutLabel, GetLabel
  <2>. QED  BY <2>3, <2>4, <2>5, <2>6, <2>7 DEF BufferInv
<1>. QED  BY <1>1, <1>7, <1>8, BufferDowns

(* data[(head + n) % N] = t: the holder of the lock alone is about to      *)
(* count an item.                                                          *)
LEMMA BufferWrites ==
    ASSUME BufferInv, NEW p \in Users, Q!Write(p)
    PROVE  BufferInv'
<1> USE BufferFacts
<1>1. /\ userPc[p] = "write" /\ data' = [data EXCEPT ![(head + n) % N] = item[p]]
      /\ copy' = [copy EXCEPT ![p] = n] /\ userPc' = [userPc EXCEPT ![p] = "count"]
      /\ UNCHANGED <<head, n, sems, item>>
  BY DEF Q!Write
<1>2. p \in Producer
  BY <1>1 DEF BufferInv, BufferTypes, GetLabel
<1>3. (head + n) % N \in 0..N - 1
  OBVIOUS
<1>4. {u \in Users : userPc[u] \in Critical} = {p} /\ sems["lock"].count = 0
  BY <1>1 DEF BufferInv, LockInv, Critical
<1>5. {u \in Users : userPc'[u] \in Critical} = {p}
  BY <1>1, <1>4 DEF Critical
<1>6. \A s \in Q!SemName : In(s)' = In(s)
  BY <1>1 DEF In
<1>7. /\ Filling' = Filling /\ Filled' = Filled
      /\ Emptying' = Emptying /\ Emptied' = Emptied
  BY <1>1, <1>2, <1>6 DEF Filling, Filled, Emptying, Emptied
<1>8. SlotInv'
  BY <1>1, <1>7 DEF BufferInv, SlotInv
<1>9. LockInv'
  BY <1>1, <1>4, <1>5 DEF LockInv
<1>10. ItemInv'
  <2>1. \A u \in Users : userPc'[u] = "count" => u = p
    BY <1>5 DEF Critical
  <2>. QED  BY <1>1, <1>2, <1>3, <2>1 DEF BufferInv, BufferTypes, ItemInv
<1>11. BufferLines'
  BY <1>1, <1>6 DEF BufferInv, BufferLines
<1>12. BufferTypes'
  <2>1. data' \in [0..N - 1 -> Item \cup {None}] /\ copy' \in [Users -> Nat]
    <3>1. /\ n \in Nat /\ copy \in [Users -> Nat] /\ item[p] \in Item \cup {None}
          /\ data \in [0..N - 1 -> Item \cup {None}]
      BY DEF BufferInv, BufferTypes
    <3>2. copy' \in [Users -> Nat]  BY <1>1, <3>1
    <3>3. data' \in [0..N - 1 -> Item \cup {None}]  BY <1>1, <1>3, <3>1
    <3>. QED  BY <3>2, <3>3
  <2>2. /\ userPc' \in [Users -> PutLabel \cup GetLabel]
        /\ \A q \in Producer : userPc'[q] \in PutLabel
        /\ \A c \in Consumer : userPc'[c] \in GetLabel
    BY <1>1, <1>2 DEF BufferInv, BufferTypes, PutLabel, GetLabel
  <2>. QED  BY <1>1, <2>1, <2>2 DEF BufferInv, BufferTypes
<1>. QED  BY <1>8, <1>9, <1>10, <1>11, <1>12 DEF BufferInv

(* out = data[head] and head = (head + 1) % N.                             *)
LEMMA BufferReads ==
    ASSUME BufferInv, NEW c \in Users, Q!Read(c)
    PROVE  BufferInv'
<1> USE BufferFacts
<1>1. /\ userPc[c] = "read" /\ item' = [item EXCEPT ![c] = data[head]]
      /\ head' = (head + 1) % N
      /\ copy' = [copy EXCEPT ![c] = n] /\ userPc' = [userPc EXCEPT ![c] = "count"]
      /\ UNCHANGED <<n, data, sems>>
  BY DEF Q!Read
<1>2. c \in Consumer /\ c \notin Producer
  BY <1>1 DEF BufferInv, BufferTypes, PutLabel
<1>3. head' \in 0..N - 1
  BY <1>1
<1>4. {u \in Users : userPc[u] \in Critical} = {c} /\ sems["lock"].count = 0
  BY <1>1 DEF BufferInv, LockInv, Critical
<1>5. {u \in Users : userPc'[u] \in Critical} = {c}
  BY <1>1, <1>4 DEF Critical
<1>6. \A s \in Q!SemName : In(s)' = In(s)
  BY <1>1 DEF In
<1>7. /\ Filling' = Filling /\ Filled' = Filled
      /\ Emptying' = Emptying /\ Emptied' = Emptied
  BY <1>1, <1>2, <1>6 DEF Filling, Filled, Emptying, Emptied
<1>8. SlotInv'
  BY <1>1, <1>7 DEF BufferInv, SlotInv
<1>9. LockInv'
  BY <1>1, <1>4, <1>5 DEF LockInv
<1>10. ItemInv'
  <2>1. \A u \in Users : userPc'[u] = "count" => u = c
    BY <1>5 DEF Critical
  <2>. QED  BY <1>1, <1>2, <2>1 DEF BufferInv, BufferTypes, ItemInv
<1>11. BufferLines'
  BY <1>1, <1>6 DEF BufferInv, BufferLines
<1>12. BufferTypes'
  <2>1. item' \in [Users -> Item \cup {None}] /\ copy' \in [Users -> Nat]
    <3>1. /\ n \in Nat /\ copy \in [Users -> Nat] /\ data[head] \in Item \cup {None}
          /\ item \in [Users -> Item \cup {None}]
      BY DEF BufferInv, BufferTypes
    <3>2. copy' \in [Users -> Nat]  BY <1>1, <3>1
    <3>3. item' \in [Users -> Item \cup {None}]  BY <1>1, <3>1
    <3>. QED  BY <3>2, <3>3
  <2>2. /\ userPc' \in [Users -> PutLabel \cup GetLabel]
        /\ \A p \in Producer : userPc'[p] \in PutLabel
        /\ \A d \in Consumer : userPc'[d] \in GetLabel
    BY <1>1, <1>2 DEF BufferInv, BufferTypes, PutLabel, GetLabel
  <2>. QED  BY <1>1, <1>3, <2>1, <2>2 DEF BufferInv, BufferTypes
<1>. QED  BY <1>8, <1>9, <1>10, <1>11, <1>12 DEF BufferInv

(* n++ and n--: n is what the holder of the lock read, and a slot changes  *)
(* sides; it cannot leave 0..N, because the slot in hand was counted by a  *)
(* semaphore.                                                              *)
LEMMA BufferCounts ==
    ASSUME BufferInv, NEW u \in Users, Q!Count(u)
    PROVE  BufferInv'
<1> USE BufferFacts
<1>1. /\ userPc[u] = "count" /\ n' = IF u \in Producer THEN copy[u] + 1 ELSE copy[u] - 1
      /\ userPc' = [userPc EXCEPT ![u] = "unlock"]
      /\ UNCHANGED <<head, data, sems, item, copy>>
  BY DEF Q!Count
<1>2. copy[u] = n
  BY <1>1 DEF BufferInv, ItemInv
<1>4. {v \in Users : userPc[v] \in Critical} = {u} /\ sems["lock"].count = 0
  BY <1>1 DEF BufferInv, LockInv, Critical
<1>5. {v \in Users : userPc'[v] \in Critical} = {u}
  BY <1>1, <1>4 DEF Critical
<1>6. \A s \in Q!SemName : In(s)' = In(s) /\ u \notin In(s)
  BY <1>1 DEF In
<1>8. SlotInv' /\ n' \in 0..N
  <2>1. CASE u \in Producer
    <3>1. /\ Filling' = Filling \ {u} /\ u \in Filling
          /\ Filled' = Filled \cup {u} /\ u \notin Filled
          /\ Emptying' = Emptying /\ Emptied' = Emptied
      BY <1>1, <1>6, <2>1 DEF Filling, Filled, Emptying, Emptied
    <3>2. /\ IsFiniteSet(Filling') /\ Cardinality(Filling') = Cardinality(Filling) - 1
          /\ Cardinality(Filling) # 0
      BY <3>1, DropOne DEF BufferInv, SlotInv
    <3>3. IsFiniteSet(Filled') /\ Cardinality(Filled') = Cardinality(Filled) + 1
      BY <3>1, AddOne DEF BufferInv, SlotInv
    <3>4. n' = n + 1
      BY <1>1, <1>2, <2>1
    <3>5. N - n > 0
      BY <3>2 DEF BufferInv, SlotInv
    <3>6. n' \in 0..N  BY <3>4, <3>5
    <3>7. /\ n' = sems["nFull"].count + Cardinality(Emptying) + Cardinality(Filled')
          /\ N - n' = sems["nEmpty"].count + Cardinality(Filling') + Cardinality(Emptied)
      BY <3>2, <3>3, <3>4 DEF BufferInv, SlotInv
    <3>. QED  BY <1>1, <3>1, <3>2, <3>3, <3>6, <3>7 DEF BufferInv, SlotInv
  <2>2. CASE u \notin Producer
    <3>1. /\ Emptying' = Emptying \ {u} /\ u \in Emptying
          /\ Emptied' = Emptied \cup {u} /\ u \notin Emptied
          /\ Filling' = Filling /\ Filled' = Filled
      BY <1>1, <1>6, <2>2 DEF Filling, Filled, Emptying, Emptied
    <3>2. /\ IsFiniteSet(Emptying') /\ Cardinality(Emptying') = Cardinality(Emptying) - 1
          /\ Cardinality(Emptying) # 0
      BY <3>1, DropOne DEF BufferInv, SlotInv
    <3>3. IsFiniteSet(Emptied') /\ Cardinality(Emptied') = Cardinality(Emptied) + 1
      BY <3>1, AddOne DEF BufferInv, SlotInv
    <3>4. n' = n - 1
      BY <1>1, <1>2, <2>2
    <3>5. n > 0
      <4>1. n = sems["nFull"].count + Cardinality(Emptying) + Cardinality(Filled)
        BY DEF BufferInv, SlotInv
      <4>. QED  BY <3>2, <4>1
    <3>6. n' \in 0..N  BY <3>4, <3>5
    <3>7. /\ n' = sems["nFull"].count + Cardinality(Emptying') + Cardinality(Filled)
          /\ N - n' = sems["nEmpty"].count + Cardinality(Filling) + Cardinality(Emptied')
      BY <3>2, <3>3, <3>4 DEF BufferInv, SlotInv
    <3>. QED  BY <1>1, <3>1, <3>2, <3>3, <3>6, <3>7 DEF BufferInv, SlotInv
  <2>. QED  BY <2>1, <2>2
<1>9. LockInv'
  BY <1>1, <1>4, <1>5 DEF LockInv
<1>10. ItemInv'
  <2>1. \A v \in Users : userPc'[v] # "count"
    BY <1>1, <1>5 DEF Critical
  <2>. QED  BY <1>1, <2>1 DEF BufferInv, BufferTypes, ItemInv
<1>11. BufferLines'
  BY <1>1, <1>6 DEF BufferInv, BufferLines
<1>12. BufferTypes'
  BY <1>1, <1>8 DEF BufferInv, BufferTypes, PutLabel, GetLabel
<1>. QED  BY <1>8, <1>9, <1>10, <1>11, <1>12 DEF BufferInv

(* lock.up(): the lock passes to the first in line, or is free.            *)
LEMMA BufferUnlocks ==
    ASSUME BufferInv, NEW u \in Users, Q!Unlock(u)
    PROVE  BufferInv'
<1> USE BufferFacts
<1>1. /\ userPc[u] = "unlock" /\ UNCHANGED <<head, n, data, item, copy>>
      /\ Q!Up(u, "lock", "signal")
  BY DEF Q!Unlock
<1>2. u \notin In("lock") /\ u \notin In("nEmpty") /\ u \notin In("nFull")
  BY <1>1
<1>3. /\ \A s \in Q!SemName : Sound(sems'[s])
      /\ sems' \in [Q!SemName -> [count : Nat, waiting : Seq(Users)]]
      /\ \A s \in Q!SemName \ {"lock"} : sems'[s] = sems[s] /\ In(s)' = In(s)
  BY <1>1, BufferUps
<1>4. /\ In("nEmpty")' = In("nEmpty") /\ In("nFull")' = In("nFull")
      /\ sems'["nEmpty"] = sems["nEmpty"] /\ sems'["nFull"] = sems["nFull"]
  BY <1>3
<1>5. \A s \in Q!SemName : Line(sems'[s].waiting, In(s)')
  BY <1>3 DEF Sound, In
<1>6. {v \in Users : userPc[v] \in Critical} = {u} /\ sems["lock"].count = 0
  BY <1>1 DEF BufferInv, LockInv, Critical
<1>7. CASE Adds(u, "lock", "signal")
  <2>1. /\ Filling' = Filling /\ Filled' = Filled
        /\ Emptying' = Emptying /\ Emptied' = Emptied
    BY <1>1, <1>2, <1>7 DEF Adds, Filling, Filled, Emptying, Emptied
  <2>3. SlotInv'
    BY <1>1, <1>4, <2>1 DEF BufferInv, SlotInv
  <2>4. LockInv'
    <3>1. {v \in Users : userPc'[v] \in Critical} = {}
      BY <1>6, <1>7 DEF Adds, Critical
    <3>. QED  BY <1>6, <1>7, <3>1 DEF Adds, LockInv
  <2>5. ItemInv'
    BY <1>1, <1>7 DEF Adds, BufferInv, BufferTypes, ItemInv
  <2>6. BufferLines'
    BY <1>1, <1>2, <1>4, <1>5, <1>7 DEF Adds, BufferInv, BufferLines
  <2>7. BufferTypes'
    BY <1>1, <1>3, <1>7 DEF Adds, BufferInv, BufferTypes, PutLabel, GetLabel
  <2>. QED  BY <2>3, <2>4, <2>5, <2>6, <2>7 DEF BufferInv
<1>8. ASSUME NEW h \in Users, HandsOver(u, "lock", "signal", h)
      PROVE  BufferInv'
  <2>0. /\ userPc' = [userPc EXCEPT ![u] = "signal",
                                    ![h] = IF h \in Producer THEN "write" ELSE "read"]
        /\ h \notin In("nEmpty") /\ h \notin In("nFull")
    BY <1>8 DEF HandsOver, Q!After, BufferInv, BufferLines
  <2>1. /\ Filling' = Filling /\ Filled' = Filled
        /\ Emptying' = Emptying /\ Emptied' = Emptied
    BY <1>1, <1>2, <1>8, <2>0 DEF HandsOver, Filling, Filled, Emptying, Emptied
  <2>3. SlotInv'
    BY <1>1, <1>4, <2>1 DEF BufferInv, SlotInv
  <2>4. LockInv'
    <3>1. {v \in Users : userPc'[v] \in Critical} = {h}
      BY <1>6, <1>8, <2>0 DEF HandsOver, Critical
    <3>. QED  BY <1>6, <1>8, <3>1 DEF HandsOver, LockInv
  <2>5. ItemInv'
    BY <1>1, <1>8, <2>0 DEF HandsOver, BufferInv, BufferTypes, ItemInv
  <2>6. BufferLines'
    <3>1. \A v \in Users : v # u /\ v # h => userPc'[v] = userPc[v]
      BY <2>0
    <3>2. \A s \in Q!SemName : In(s)' \subseteq In(s) /\ h \notin In(s)' /\ u \notin In(s)'
      BY <1>2, <1>4, <1>8, <2>0 DEF HandsOver
    <3>3. \A s \in Q!SemName : \A v \in In(s)' : userPc'[v] = "waiting"
      BY <3>1, <3>2, InUsers DEF BufferInv, BufferLines
    <3>. QED  BY <1>5, <3>2, <3>3 DEF BufferInv, BufferLines
  <2>7. BufferTypes'
    <3>1. /\ userPc' \in [Users -> PutLabel \cup GetLabel]
          /\ \A q \in Producer : userPc'[q] \in PutLabel
          /\ \A d \in Consumer : userPc'[d] \in GetLabel
      BY <2>0 DEF BufferInv, BufferTypes, PutLabel, GetLabel
    <3>. QED  BY <1>1, <1>3, <3>1 DEF BufferInv, BufferTypes
  <2>. QED  BY <2>3, <2>4, <2>5, <2>6, <2>7 DEF BufferInv
<1>. QED  BY <1>1, <1>7, <1>8, BufferUps

(* nFull.up() at the end of put(): the full slot is counted or handed to a *)
(* get() that waits.                                                       *)
LEMMA PutSignals ==
    ASSUME BufferInv, NEW u \in Producer, Q!Signal(u)
    PROVE  BufferInv'
<1> USE BufferFacts
<1>1. /\ userPc[u] = "signal" /\ UNCHANGED <<head, n, data>> /\ u \notin Consumer
      /\ item' = [item EXCEPT ![u] = None] /\ copy' = [copy EXCEPT ![u] = 0]
      /\ Q!Up(u, "nFull", "out")
  BY DEF Q!Signal
<1>2. u \notin In("lock") /\ u \notin In("nEmpty") /\ u \notin In("nFull")
  BY <1>1
<1>3. /\ \A s \in Q!SemName : Sound(sems'[s])
      /\ sems' \in [Q!SemName -> [count : Nat, waiting : Seq(Users)]]
      /\ \A s \in Q!SemName \ {"nFull"} : sems'[s] = sems[s] /\ In(s)' = In(s)
  BY <1>1, BufferUps
<1>4. /\ In("nEmpty")' = In("nEmpty") /\ In("lock")' = In("lock")
      /\ sems'["nEmpty"] = sems["nEmpty"] /\ sems'["lock"] = sems["lock"]
  BY <1>3
<1>5. \A s \in Q!SemName : Line(sems'[s].waiting, In(s)')
  BY <1>3 DEF Sound, In
<1>6. /\ item' \in [Users -> Item \cup {None}] /\ copy' \in [Users -> Nat]
  BY <1>1 DEF BufferInv, BufferTypes
<1>7. CASE Adds(u, "nFull", "out")
  <2>1. /\ Filled' = Filled \ {u} /\ u \in Filled
        /\ Emptying' = Emptying /\ Filling' = Filling /\ Emptied' = Emptied
    BY <1>1, <1>2, <1>4, <1>7 DEF Adds, Filling, Filled, Emptying, Emptied
  <2>2. IsFiniteSet(Filled') /\ Cardinality(Filled') = Cardinality(Filled) - 1
    BY <2>1, DropOne DEF BufferInv, SlotInv
  <2>3. SlotInv'
    BY <1>1, <1>4, <1>7, <2>1, <2>2 DEF Adds, BufferInv, SlotInv
  <2>4. LockInv'
    <3>1. {v \in Users : userPc'[v] \in Critical} = {v \in Users : userPc[v] \in Critical}
      BY <1>1, <1>7 DEF Adds, Critical
    <3>. QED  BY <1>4, <3>1 DEF BufferInv, LockInv
  <2>5. ItemInv'
    BY <1>1, <1>7 DEF Adds, BufferInv, BufferTypes, ItemInv
  <2>6. BufferLines'
    BY <1>1, <1>2, <1>4, <1>5, <1>7 DEF Adds, BufferInv, BufferLines
  <2>7. BufferTypes'
    BY <1>1, <1>3, <1>6, <1>7 DEF Adds, BufferInv, BufferTypes, PutLabel, GetLabel
  <2>. QED  BY <2>3, <2>4, <2>5, <2>6, <2>7 DEF BufferInv
<1>8. ASSUME NEW h \in Users, HandsOver(u, "nFull", "out", h)
      PROVE  BufferInv'
  <2>0. /\ userPc' = [userPc EXCEPT ![u] = "out", ![h] = "lock"]
        /\ h \in Consumer /\ h \notin In("lock") /\ h \notin In("nEmpty")
    BY <1>8 DEF HandsOver, Q!After, BufferInv, BufferLines
  <2>1. /\ Filled' = Filled \ {u} /\ u \in Filled
        /\ Emptying' = Emptying \cup {h} /\ h \notin Emptying
        /\ Filling' = Filling /\ Emptied' = Emptied
    BY <1>1, <1>2, <1>4, <1>8, <2>0 DEF HandsOver, Filling, Filled, Emptying, Emptied
  <2>2. /\ IsFiniteSet(Filled') /\ Cardinality(Filled') = Cardinality(Filled) - 1
        /\ IsFiniteSet(Emptying') /\ Cardinality(Emptying') = Cardinality(Emptying) + 1
    BY <2>1, DropOne, AddOne DEF BufferInv, SlotInv
  <2>3. SlotInv'
    BY <1>1, <1>4, <1>8, <2>1, <2>2 DEF HandsOver, BufferInv, SlotInv
  <2>4. LockInv'
    <3>1. {v \in Users : userPc'[v] \in Critical} = {v \in Users : userPc[v] \in Critical}
      BY <1>1, <1>8, <2>0 DEF HandsOver, Critical
    <3>. QED  BY <1>4, <3>1 DEF BufferInv, LockInv
  <2>5. ItemInv'
    BY <1>1, <1>8, <2>0 DEF HandsOver, BufferInv, BufferTypes, ItemInv
  <2>6. BufferLines'
    <3>1. \A v \in Users : v # u /\ v # h => userPc'[v] = userPc[v]
      BY <2>0
    <3>2. \A s \in Q!SemName : In(s)' \subseteq In(s) /\ h \notin In(s)' /\ u \notin In(s)'
      BY <1>2, <1>4, <1>8, <2>0 DEF HandsOver
    <3>3. \A s \in Q!SemName : \A v \in In(s)' : userPc'[v] = "waiting"
      BY <3>1, <3>2, InUsers DEF BufferInv, BufferLines
    <3>. QED  BY <1>5, <3>2, <3>3 DEF BufferInv, BufferLines
  <2>7. BufferTypes'
    BY <1>1, <1>3, <1>6, <1>8, <2>0 DEF HandsOver, BufferInv, BufferTypes, PutLabel, GetLabel
  <2>. QED  BY <2>3, <2>4, <2>5, <2>6, <2>7 DEF BufferInv
<1>. QED  BY <1>1, <1>7, <1>8, BufferUps

(* nEmpty.up() at the end of get(): the empty slot is counted or handed to *)
(* a put() that waits.                                                     *)
LEMMA GetSignals ==
    ASSUME BufferInv, NEW u \in Consumer, Q!Signal(u)
    PROVE  BufferInv'
<1> USE BufferFacts
<1>1. /\ userPc[u] = "signal" /\ UNCHANGED <<head, n, data>> /\ u \notin Producer
      /\ item' = [item EXCEPT ![u] = None] /\ copy' = [copy EXCEPT ![u] = 0]
      /\ Q!Up(u, "nEmpty", "out")
  BY DEF Q!Signal
<1>2. u \notin In("lock") /\ u \notin In("nEmpty") /\ u \notin In("nFull")
  BY <1>1
<1>3. /\ \A s \in Q!SemName : Sound(sems'[s])
      /\ sems' \in [Q!SemName -> [count : Nat, waiting : Seq(Users)]]
      /\ \A s \in Q!SemName \ {"nEmpty"} : sems'[s] = sems[s] /\ In(s)' = In(s)
  BY <1>1, BufferUps
<1>4. /\ In("nFull")' = In("nFull") /\ In("lock")' = In("lock")
      /\ sems'["nFull"] = sems["nFull"] /\ sems'["lock"] = sems["lock"]
  BY <1>3
<1>5. \A s \in Q!SemName : Line(sems'[s].waiting, In(s)')
  BY <1>3 DEF Sound, In
<1>6. /\ item' \in [Users -> Item \cup {None}] /\ copy' \in [Users -> Nat]
  BY <1>1 DEF BufferInv, BufferTypes
<1>7. CASE Adds(u, "nEmpty", "out")
  <2>1. /\ Emptied' = Emptied \ {u} /\ u \in Emptied
        /\ Filling' = Filling /\ Emptying' = Emptying /\ Filled' = Filled
    BY <1>1, <1>2, <1>4, <1>7 DEF Adds, Filling, Filled, Emptying, Emptied
  <2>2. IsFiniteSet(Emptied') /\ Cardinality(Emptied') = Cardinality(Emptied) - 1
    BY <2>1, DropOne DEF BufferInv, SlotInv
  <2>3. SlotInv'
    BY <1>1, <1>4, <1>7, <2>1, <2>2 DEF Adds, BufferInv, SlotInv
  <2>4. LockInv'
    <3>1. {v \in Users : userPc'[v] \in Critical} = {v \in Users : userPc[v] \in Critical}
      BY <1>1, <1>7 DEF Adds, Critical
    <3>. QED  BY <1>4, <3>1 DEF BufferInv, LockInv
  <2>5. ItemInv'
    BY <1>1, <1>7 DEF Adds, BufferInv, BufferTypes, ItemInv
  <2>6. BufferLines'
    BY <1>1, <1>2, <1>4, <1>5, <1>7 DEF Adds, BufferInv, BufferLines
  <2>7. BufferTypes'
    BY <1>1, <1>3, <1>6, <1>7 DEF Adds, BufferInv, BufferTypes, PutLabel, GetLabel
  <2>. QED  BY <2>3, <2>4, <2>5, <2>6, <2>7 DEF BufferInv
<1>8. ASSUME NEW h \in Users, HandsOver(u, "nEmpty", "out", h)
      PROVE  BufferInv'
  <2>0. /\ userPc' = [userPc EXCEPT ![u] = "out", ![h] = "lock"]
        /\ h \in Producer /\ h \notin In("lock") /\ h \notin In("nFull")
    BY <1>8 DEF HandsOver, Q!After, BufferInv, BufferLines
  <2>1. /\ Emptied' = Emptied \ {u} /\ u \in Emptied
        /\ Filling' = Filling \cup {h} /\ h \notin Filling
        /\ Emptying' = Emptying /\ Filled' = Filled
    BY <1>1, <1>2, <1>4, <1>8, <2>0 DEF HandsOver, Filling, Filled, Emptying, Emptied
  <2>2. /\ IsFiniteSet(Emptied') /\ Cardinality(Emptied') = Cardinality(Emptied) - 1
        /\ IsFiniteSet(Filling') /\ Cardinality(Filling') = Cardinality(Filling) + 1
    BY <2>1, DropOne, AddOne DEF BufferInv, SlotInv
  <2>3. SlotInv'
    BY <1>1, <1>4, <1>8, <2>1, <2>2 DEF HandsOver, BufferInv, SlotInv
  <2>4. LockInv'
    <3>1. {v \in Users : userPc'[v] \in Critical} = {v \in Users : userPc[v] \in Critical}
      BY <1>1, <1>8, <2>0 DEF HandsOver, Critical
    <3>. QED  BY <1>4, <3>1 DEF BufferInv, LockInv
  <2>5. ItemInv'
    BY <1>1, <1>8, <2>0 DEF HandsOver, BufferInv, BufferTypes, ItemInv
  <2>6. BufferLines'
    <3>1. \A v \in Users : v # u /\ v # h => userPc'[v] = userPc[v]
      BY <2>0
    <3>2. \A s \in Q!SemName : In(s)' \subseteq In(s) /\ h \notin In(s)' /\ u \notin In(s)'
      BY <1>2, <1>4, <1>8, <2>0 DEF HandsOver
    <3>3. \A s \in Q!SemName : \A v \in In(s)' : userPc'[v] = "waiting"
      BY <3>1, <3>2, InUsers DEF BufferInv, BufferLines
    <3>. QED  BY <1>5, <3>2, <3>3 DEF BufferInv, BufferLines
  <2>7. BufferTypes'
    BY <1>1, <1>3, <1>6, <1>8, <2>0 DEF HandsOver, BufferInv, BufferTypes, PutLabel, GetLabel
  <2>. QED  BY <2>3, <2>4, <2>5, <2>6, <2>7 DEF BufferInv
<1>. QED  BY <1>1, <1>7, <1>8, BufferUps

(* Every step of put() and get() after the first down().                   *)
LEMMA BufferSteps ==
    ASSUME BufferInv, NEW u \in Users, Q!Step(u)
    PROVE  BufferInv'
<1>1. CASE Q!Signal(u)
  BY <1>1, PutSignals, GetSignals DEF Users
<1>. QED  BY <1>1, BufferLocks, BufferWrites, BufferReads, BufferCounts, BufferUnlocks DEF Q!Step

(* The size of a disjoint union.                                           *)
LEMMA DisjointUnion ==
    ASSUME NEW S, IsFiniteSet(S), NEW T, IsFiniteSet(T), S \cap T = {}
    PROVE  /\ IsFiniteSet(S \cup T)
           /\ Cardinality(S \cup T) = Cardinality(S) + Cardinality(T)
<1>1. /\ IsFiniteSet(S \cup T)
      /\ Cardinality(S \cup T) = Cardinality(S) + Cardinality(T) - Cardinality(S \cap T)
  BY FS_Union
<1>2. Cardinality(S \cap T) = 0 /\ Cardinality(S) \in Nat /\ Cardinality(T) \in Nat
  BY FS_EmptySet, FS_CardinalityType
<1>. QED  BY <1>1, <1>2

(* The two sums of SlotInv add up: every slot is counted by a semaphore or *)
(* in one hand.                                                            *)
LEMMA BufferConsequences == BufferInv => Q!SlotsConserved
<1> SUFFICES ASSUME BufferInv PROVE Q!SlotsConserved
  OBVIOUS
<1> USE BufferFacts
<1>1. /\ IsFiniteSet(Filling) /\ IsFiniteSet(Filled)
      /\ IsFiniteSet(Emptying) /\ IsFiniteSet(Emptied)
  BY DEF BufferInv, SlotInv
<1>2. Filling \cap Filled = {} /\ Emptying \cap Emptied = {}
  <2>1. \A u \in In("lock") : userPc[u] = "waiting"
    BY DEF BufferInv, BufferLines
  <2>. QED  BY <2>1 DEF Filling, Filled, Emptying, Emptied
<1>3. /\ IsFiniteSet(Filling \cup Filled)
      /\ Cardinality(Filling \cup Filled) = Cardinality(Filling) + Cardinality(Filled)
  BY <1>1, <1>2, DisjointUnion
<1>4. /\ IsFiniteSet(Emptying \cup Emptied)
      /\ Cardinality(Emptying \cup Emptied) = Cardinality(Emptying) + Cardinality(Emptied)
  BY <1>1, <1>2, DisjointUnion
<1>5. (Filling \cup Filled) \cap (Emptying \cup Emptied) = {}
  BY DEF Filling, Filled, Emptying, Emptied
<1>6. Cardinality((Filling \cup Filled) \cup (Emptying \cup Emptied))
        = Cardinality(Filling) + Cardinality(Filled) + Cardinality(Emptying) + Cardinality(Emptied)
  <2>1. Cardinality((Filling \cup Filled) \cup (Emptying \cup Emptied))
          = Cardinality(Filling \cup Filled) + Cardinality(Emptying \cup Emptied)
    BY <1>3, <1>4, <1>5, DisjointUnion
  <2>. QED  BY <1>3, <1>4, <2>1
<1>7. (Filling \cup Filled) \cup (Emptying \cup Emptied)
        = {u \in Q!User : \/ userPc[u] \in {"lock", "write", "read", "count", "unlock", "signal"}
                          \/ u \in Q!Waiters(sems["lock"])}
  BY DEF BufferInv, BufferTypes, PutLabel, GetLabel, Filling, Filled, Emptying, Emptied,
         Q!User, Users, In
<1>8. sems["nEmpty"].count + sems["nFull"].count + Cardinality(Filling) + Cardinality(Filled)
        + Cardinality(Emptying) + Cardinality(Emptied) = N
  <2>1. /\ n = sems["nFull"].count + Cardinality(Emptying) + Cardinality(Filled)
        /\ N - n = sems["nEmpty"].count + Cardinality(Filling) + Cardinality(Emptied)
    BY DEF BufferInv, SlotInv
  <2>. QED  BY <2>1
<1> DEFINE busy == {u \in Q!User : \/ userPc[u] \in {"lock", "write", "read", "count",
                                                    "unlock", "signal"}
                                  \/ u \in Q!Waiters(sems["lock"])}
<1>9. Cardinality(busy)
        = Cardinality(Filling) + Cardinality(Filled) + Cardinality(Emptying) + Cardinality(Emptied)
  BY <1>6, <1>7
<1>10. Q!Cardinality(busy) = Cardinality(busy)
  BY Cardinalities
<1> HIDE DEF busy
<1>11. sems["nEmpty"].count + sems["nFull"].count + Q!Cardinality(busy) = N
  BY <1>8, <1>9, <1>10
<1>. QED  BY <1>11 DEF Q!SlotsConserved, busy

-----------------------------------------------------------------------------

(* k cells of the ring d from h on, and who is between the two stores of   *)
(* get().                                                                  *)
Cells(h, d, k) == [i \in 1..k |-> d[(h + i - 1) % N]]
Leaving == {c \in Consumer : userPc[c] = "count"}

(* What % N does to an index that went round at most once.                 *)
LEMMA Modulo ==
    ASSUME NEW h \in 0..N - 1, NEW k \in 0..N, N \in Nat \ {0}
    PROVE  (h + k) % N = IF h + k < N THEN h + k ELSE h + k - N
  OBVIOUS

(* A function on 1..k is a sequence of length k.                           *)
LEMMA FunctionIsSequence ==
    ASSUME NEW S, NEW k \in Nat, NEW f \in [1..k -> S]
    PROVE  f \in Seq(S) /\ Len(f) = k
  OBVIOUS

(* Tail, written as a function.                                            *)
LEMMA TailOf ==
    ASSUME NEW S, NEW k \in Nat \ {0}, NEW f \in [1..k -> S]
    PROVE  Tail(f) = [i \in 1..k - 1 |-> f[i + 1]] /\ f # <<>>
<1>1. f \in Seq(S) /\ Len(f) = k
  BY FunctionIsSequence
<1>2. /\ Len(Tail(f)) = k - 1 /\ Tail(f) \in Seq(S)
      /\ \A i \in 1..k - 1 : Tail(f)[i] = f[i + 1]
  BY <1>1
<1>3. \A g \in Seq(S) : g = [i \in 1..Len(g) |-> g[i]]
  OBVIOUS
<1>. QED  BY <1>1, <1>2, <1>3

(* Append, written as a function.                                          *)
LEMMA AppendOf ==
    ASSUME NEW S, NEW k \in Nat, NEW f \in [1..k -> S], NEW x \in S
    PROVE  Append(f, x) = [i \in 1..k + 1 |-> IF i = k + 1 THEN x ELSE f[i]]
<1>1. f \in Seq(S) /\ Len(f) = k
  BY FunctionIsSequence
<1>2. /\ Len(Append(f, x)) = k + 1 /\ Append(f, x) \in Seq(S)
      /\ Append(f, x)[k + 1] = x /\ \A i \in 1..k : Append(f, x)[i] = f[i]
  BY <1>1
<1>3. \A g \in Seq(S) : g = [i \in 1..Len(g) |-> g[i]]
  OBVIOUS
<1>4. \A i \in 1..k + 1 : Append(f, x)[i] = IF i = k + 1 THEN x ELSE f[i]
  BY <1>2
<1>5. Append(f, x) = [i \in 1..k + 1 |-> Append(f, x)[i]]
  BY <1>2, <1>3
<1>. QED  BY <1>4, <1>5

(* The cells that hold the contents are cells of the ring.                 *)
LEMMA RingOfItems ==
    ASSUME BufferInv
    PROVE  Cells(head, data, n) \in [1..n -> Item \cup {None}]
<1>1. \A i \in 1..n : (head + i - 1) % N \in 0..N - 1
  BY BufferFacts
<1>2. \A i \in 1..n : data[(head + i - 1) % N] \in Item \cup {None}
  BY <1>1 DEF BufferInv, BufferTypes
<1>. QED  BY <1>2 DEF Cells

(* The queue the ring stands for, before and after a step.                 *)
LEMMA ContentsAre ==
    /\ Q!Contents = Cells(head, data, n - Cardinality(Leaving))
    /\ Q!Contents' = Cells(head', data', n' - Cardinality(Leaving'))
  BY Cardinalities DEF Q!Contents, Cells, Leaving

(* The ring is empty as constructed.                                       *)
LEMMA RingStarts == ASSUME Q!Init PROVE Q!Ring!Init
<1>1. BufferInv  BY BufferStarts
<1>2. Leaving = {} /\ n = 0
  BY DEF Q!Init, Q!User, Leaving
<1>3. Cardinality(Leaving) = 0  BY <1>2, FS_EmptySet
<1>4. Q!Contents = Cells(head, data, 0)  BY <1>2, <1>3, ContentsAre
<1>. QED  BY <1>4 DEF Q!Ring!Init, Cells

(* A step that touches neither the ring nor its users between two stores   *)
(* of get() is invisible.                                                  *)
LEMMA RingStill ==
    ASSUME UNCHANGED <<head, n, data>>, Leaving' = Leaving
    PROVE  UNCHANGED Q!Contents
  BY ContentsAre

(* The store of put() is invisible: it goes to a cell that holds no item   *)
(* of the queue, because n < N.                                            *)
LEMMA RingWrites ==
    ASSUME BufferInv, NEW p \in Users, Q!Write(p)
    PROVE  UNCHANGED Q!Contents
<1> USE BufferFacts
<1>1. /\ userPc[p] = "write" /\ data' = [data EXCEPT ![(head + n) % N] = item[p]]
      /\ userPc' = [userPc EXCEPT ![p] = "count"] /\ UNCHANGED <<head, n>>
  BY DEF Q!Write
<1>2. p \in Producer /\ p \in Filling
  BY <1>1 DEF BufferInv, BufferTypes, GetLabel, Filling
<1>3. n < N
  <2>1. Cardinality(Filling) # 0
    BY <1>2, DropOne DEF BufferInv, SlotInv
  <2>2. N - n = sems["nEmpty"].count + Cardinality(Filling) + Cardinality(Emptied)
    BY DEF BufferInv, SlotInv
  <2>. QED  BY <2>1, <2>2
<1>4. Leaving = {} /\ Leaving' = {}
  <2>1. {u \in Users : userPc[u] \in Critical} = {p}
    BY <1>1 DEF BufferInv, LockInv, Critical
  <2>. QED  BY <1>1, <1>2, <2>1 DEF Leaving, Critical
<1>5. Q!Contents = Cells(head, data, n) /\ Q!Contents' = Cells(head, data', n)
  BY <1>1, <1>4, ContentsAre, FS_EmptySet
<1>6. \A i \in 1..n : data'[(head + i - 1) % N] = data[(head + i - 1) % N]
  <2> TAKE i \in 1..n
  <2>1. i - 1 \in 0..N /\ i - 1 < n
    OBVIOUS
  <2>2. (head + (i - 1)) % N = IF head + (i - 1) < N THEN head + (i - 1) ELSE head + (i - 1) - N
    BY <2>1, Modulo
  <2>3. (head + n) % N = IF head + n < N THEN head + n ELSE head + n - N
    BY Modulo
  <2>4. (head + (i - 1)) % N # (head + n) % N
    BY <1>3, <2>1, <2>2, <2>3
  <2>5. head + i - 1 = head + (i - 1)
    OBVIOUS
  <2>. QED  BY <1>1, <2>4, <2>5 DEF BufferInv, BufferTypes
<1>. QED  BY <1>5, <1>6 DEF Cells

(* The stores of get() take the first item of the queue.                   *)
LEMMA RingReads ==
    ASSUME BufferInv, NEW c \in Users, Q!Read(c)
    PROVE  Q!Ring!Get
<1> USE BufferFacts
<1>1. /\ userPc[c] = "read" /\ head' = (head + 1) % N
      /\ userPc' = [userPc EXCEPT ![c] = "count"] /\ UNCHANGED <<n, data>>
  BY DEF Q!Read
<1>2. c \in Consumer /\ c \in Emptying
  BY <1>1 DEF BufferInv, BufferTypes, PutLabel, Emptying
<1>3. n > 0
  <2>1. Cardinality(Emptying) # 0
    BY <1>2, DropOne DEF BufferInv, SlotInv
  <2>2. n = sems["nFull"].count + Cardinality(Emptying) + Cardinality(Filled)
    BY DEF BufferInv, SlotInv
  <2>. QED  BY <2>1, <2>2
<1>4. Leaving = {} /\ Leaving' = {c}
  <2>1. {u \in Users : userPc[u] \in Critical} = {c}
    BY <1>1 DEF BufferInv, LockInv, Critical
  <2>. QED  BY <1>1, <1>2, <2>1 DEF Leaving, Critical
<1>5. Q!Contents = Cells(head, data, n) /\ Q!Contents' = Cells(head', data, n - 1)
  <2>1. Cardinality(Leaving) = 0 /\ Cardinality(Leaving') = 1
    BY <1>4, FS_EmptySet, FS_Singleton
  <2>2. Q!Contents = Cells(head, data, n - 0) /\ n - 0 = n
    BY <2>1, ContentsAre
  <2>. QED  BY <1>1, <2>1, <2>2, ContentsAre
<1>6. \A i \in 1..n - 1 : (head' + i - 1) % N = (head + (i + 1) - 1) % N
  <2> TAKE i \in 1..n - 1
  <2>1. i - 1 \in 0..N /\ i \in 0..N /\ 1 \in 0..N /\ head' \in 0..N - 1
    BY <1>1
  <2>2. (head + i) % N = IF head + i < N THEN head + i ELSE head + i - N
    BY <2>1, Modulo
  <2>3. head' = IF head + 1 < N THEN head + 1 ELSE head + 1 - N
    BY <1>1, <2>1, Modulo
  <2>4. (head' + (i - 1)) % N
          = IF head' + (i - 1) < N THEN head' + (i - 1) ELSE head' + (i - 1) - N
    BY <2>1, Modulo
  <2>5. head' + i - 1 = head' + (i - 1) /\ head + (i + 1) - 1 = head + i
    BY <2>1
  <2>6. (head' + (i - 1)) % N = (head + i) % N
    BY <2>1, <2>2, <2>3, <2>4
  <2>. QED  BY <2>5, <2>6
<1>7. Tail(Q!Contents) = [i \in 1..n - 1 |-> Q!Contents[i + 1]] /\ Q!Contents # <<>>
  <2>1. Q!Contents \in [1..n -> Item \cup {None}]  BY <1>5, RingOfItems
  <2>2. n \in Nat \ {0}  BY <1>3
  <2>. QED  BY <2>1, <2>2, TailOf, Zenon
<1>8. \A i \in 1..n - 1 : Q!Contents[i + 1] = data[(head' + i - 1) % N]
  <2> TAKE i \in 1..n - 1
  <2>1. i + 1 \in 1..n  BY <1>3
  <2>2. Q!Contents[i + 1] = data[(head + (i + 1) - 1) % N]  BY <1>5, <2>1 DEF Cells
  <2>. QED  BY <1>6, <2>2
<1>9. Q!Contents' = Tail(Q!Contents)
  BY <1>5, <1>7, <1>8 DEF Cells
<1>. QED  BY <1>7, <1>9 DEF Q!Ring!Get

(* n++ appends the item put() has stored; n-- is invisible, the item being *)
(* gone already.                                                           *)
LEMMA RingCounts ==
    ASSUME BufferInv, NEW u \in Users, Q!Count(u)
    PROVE  [Q!Ring!Next]_Q!Contents
<1> USE BufferFacts
<1>1. /\ userPc[u] = "count" /\ n' = IF u \in Producer THEN n + 1 ELSE n - 1
      /\ userPc' = [userPc EXCEPT ![u] = "unlock"] /\ UNCHANGED <<head, data>>
  BY DEF Q!Count, BufferInv, ItemInv
<1>2. {v \in Users : userPc[v] \in Critical} = {u}
  BY <1>1 DEF BufferInv, LockInv, Critical
<1>3. CASE u \in Producer
  <2>1. Leaving = {} /\ Leaving' = {}
    BY <1>1, <1>2, <1>3 DEF Leaving, Critical
  <2>2. Q!Contents = Cells(head, data, n) /\ Q!Contents' = Cells(head, data, n + 1)
    BY <1>1, <1>3, <2>1, ContentsAre, FS_EmptySet
  <2>3. n < N
    <3>1. u \in Filling  BY <1>1, <1>3 DEF Filling
    <3>2. Cardinality(Filling) # 0  BY <3>1, DropOne DEF BufferInv, SlotInv
    <3>3. N - n = sems["nEmpty"].count + Cardinality(Filling) + Cardinality(Emptied)
      BY DEF BufferInv, SlotInv
    <3>. QED  BY <3>2, <3>3
  <2>4. data[(head + n) % N] = item[u] /\ item[u] \in Item
    BY <1>1, <1>3 DEF BufferInv, ItemInv
  <2>5. Q!Contents \in [1..n -> Item \cup {None}] /\ Len(Q!Contents) = n
    BY <2>2, RingOfItems, FunctionIsSequence
  <2>6. Append(Q!Contents, item[u])
          = [i \in 1..n + 1 |-> IF i = n + 1 THEN item[u] ELSE Q!Contents[i]]
    BY <2>4, <2>5, AppendOf
  <2>7. \A i \in 1..n + 1 : data[(head + i - 1) % N]
                              = IF i = n + 1 THEN item[u] ELSE Q!Contents[i]
    <3> TAKE i \in 1..n + 1
    <3>1. CASE i = n + 1
      <4>1. head + i - 1 = head + n  BY <3>1
      <4>. QED  BY <2>4, <3>1, <4>1
    <3>2. CASE i # n + 1
      <4>1. i \in 1..n  BY <3>2
      <4>. QED  BY <2>2, <3>2, <4>1 DEF Cells
    <3>. QED  BY <3>1, <3>2
  <2>8. Q!Contents' = Append(Q!Contents, item[u])
    BY <2>2, <2>6, <2>7 DEF Cells
  <2>. QED  BY <2>3, <2>4, <2>5, <2>8 DEF Q!Ring!Next, Q!Ring!Put
<1>4. CASE u \notin Producer
  <2>1. Leaving = {u} /\ Leaving' = {}
    BY <1>1, <1>2, <1>4 DEF Leaving, Critical
  <2>2. UNCHANGED Q!Contents
    <3>1. Q!Contents = Cells(head, data, n - 1) /\ Q!Contents' = Cells(head, data, n - 1 - 0)
      BY <1>1, <1>4, <2>1, ContentsAre, FS_EmptySet, FS_Singleton
    <3>. QED  BY <3>1
  <2>. QED  BY <2>2
<1>. QED  BY <1>3, <1>4

(* The steps on the semaphores are invisible.                              *)
LEMMA RingOthers ==
    ASSUME BufferInv,
           \/ \E p \in Producer, x \in Item : Q!Put(p, x)
           \/ \E c \in Consumer : Q!Get(c)
           \/ \E u \in Users : Q!Lock(u) \/ Q!Unlock(u) \/ Q!Signal(u)
    PROVE  UNCHANGED Q!Contents
<1> USE BufferFacts
<1>1. UNCHANGED <<head, n, data>>
  BY DEF Q!Put, Q!Get, Q!Lock, Q!Unlock, Q!Signal
<1>2. ASSUME NEW u \in Users, NEW s \in Q!SemName, Q!Down(u, s), userPc[u] \in {"out", "lock"}
      PROVE  Leaving' = Leaving
  <2>1. PICK l : l # "count" /\ userPc' = [userPc EXCEPT ![u] = l]
    BY <1>2, BufferDowns DEF Q!After
  <2>. QED  BY <1>2, <2>1 DEF Leaving
<1>3. ASSUME NEW u \in Users, NEW s \in Q!SemName, NEW l \in {"signal", "out"},
             Q!Up(u, s, l), userPc[u] \in {"unlock", "signal"}
      PROVE  Leaving' = Leaving
  <2>1. CASE Adds(u, s, l)
    BY <1>3, <2>1 DEF Adds, Leaving
  <2>2. ASSUME NEW h \in Users, HandsOver(u, s, l, h) PROVE Leaving' = Leaving
    <3>1. Q!After(h, s) # "count"  BY DEF Q!After
    <3>. QED  BY <1>3, <2>2, <3>1 DEF HandsOver, Leaving
  <2>. QED  BY <1>3, <2>1, <2>2, BufferUps
<1>4. Leaving' = Leaving
  BY <1>2, <1>3 DEF Q!Put, Q!Get, Q!Lock, Q!Unlock, Q!Signal
<1>. QED  BY <1>1, <1>4, RingStill

-----------------------------------------------------------------------------

(* Where get() of a Future can be.                                         *)
GetLabels == {"check", "down", "waiting", "up", "read", "done"}

(* Where set() is decides what is stored; a unit of go, counted or in the  *)
(* hands of a get(), exists only when the value does.                      *)
FutureInv ==
    /\ isReady \in BOOLEAN /\ value \in Value /\ arg \in Value
    /\ setPc \in {"assert", "store", "ready", "up", "done"}
    /\ getPc \in [Thread -> GetLabels]
    /\ got \in [Thread -> Value \cup {None}]
    /\ go \in [count : Nat, waiting : Seq(Thread)]
    /\ Line(go.waiting, {p \in Thread : getPc[p] = "waiting"})
    /\ isReady <=> setPc \in {"up", "done"}
    /\ setPc \in {"ready", "up", "done"} => value = arg
    /\ go.count > 0 => isReady
    /\ \A p \in Thread : getPc[p] \in {"up", "read", "done"} => isReady
    /\ \A p \in Thread : getPc[p] # "done" => got[p] = None

(* A Future as constructed: nothing stored, no unit.                       *)
LEMMA FutureStarts == F!Init => FutureInv
<1> SUFFICES ASSUME F!Init PROVE FutureInv
  OBVIOUS
<1>1. /\ go = [count |-> 0, waiting |-> <<>>] /\ isReady = FALSE /\ value = Default
      /\ arg \in Value /\ setPc = "assert" /\ getPc = [p \in Thread |-> "check"]
      /\ got = [p \in Thread |-> None]
  BY DEF F!Init, F!Made
<1>2. go \in [count : Nat, waiting : Seq(Thread)] /\ go.count = 0 /\ go.waiting = <<>>
  BY <1>1
<1>3. Line(go.waiting, {p \in Thread : getPc[p] = "waiting"})
  BY <1>1, <1>2 DEF Line
<1>4. getPc \in [Thread -> GetLabels] /\ \A p \in Thread : getPc[p] = "check"
  BY <1>1 DEF GetLabels
<1>5. got \in [Thread -> Value \cup {None}] /\ \A p \in Thread : got[p] = None
  BY <1>1
<1>6. value \in Value  BY <1>1, SynchronisationAssumption
<1>7. /\ isReady \in BOOLEAN /\ arg \in Value
      /\ setPc \in {"assert", "store", "ready", "up", "done"}
      /\ isReady <=> setPc \in {"up", "done"}
      /\ setPc \notin {"ready", "up", "done"} /\ ~(go.count > 0)
  <2>1. ~(go.count > 0)  BY <1>2
  <2>2. /\ isReady \in BOOLEAN /\ arg \in Value
        /\ setPc \in {"assert", "store", "ready", "up", "done"}
        /\ setPc \notin {"ready", "up", "done"}
    BY <1>1
  <2>3. isReady <=> setPc \in {"up", "done"}
    BY <1>1, Zenon
  <2>. QED  BY <2>1, <2>2, <2>3
<1>8. \A p \in Thread : getPc[p] \in {"up", "read", "done"} => isReady
  BY <1>4
<1>. QED  BY <1>2, <1>3, <1>4, <1>5, <1>6, <1>7, <1>8 DEF FutureInv

(* go.up(), by set() or by a get(): the thread it releases was waiting.    *)
LEMMA FutureUps ==
    ASSUME FutureInv, NEW w, w = F!Wake, NEW r, r = F!Raised(go)
    PROVE  /\ r \in [count : Nat, waiting : Seq(Thread)]
           /\ w \in [Thread -> GetLabels]
           /\ Line(r.waiting, {p \in Thread : w[p] = "waiting"})
           /\ \A p \in Thread : w[p] = getPc[p] \/ (getPc[p] = "waiting" /\ w[p] = "up")
<1>1. w = [p \in Thread |-> IF p \in F!Released(go) THEN "up" ELSE getPc[p]]
  BY DEF F!Wake
<1>2. CASE go.waiting = <<>>
  <2>1. F!Released(go) = {}  BY <1>2 DEF F!Released
  <2>2. w = getPc  BY <1>1, <2>1 DEF FutureInv
  <2>3. /\ r = [count |-> go.count + 1, waiting |-> go.waiting]
        /\ r.waiting = go.waiting
    BY <1>2 DEF F!Raised, FutureInv
  <2>. QED  BY <2>2, <2>3 DEF FutureInv
<1>3. CASE go.waiting # <<>>
  <2>0. PICK h : h = Head(go.waiting)  OBVIOUS
  <2>1. F!Released(go) = {h}  BY <1>3, <2>0 DEF F!Released
  <2>2. /\ r = [count |-> go.count, waiting |-> Tail(go.waiting)]
        /\ r.waiting = Tail(go.waiting) /\ go.count \in Nat
    BY <1>3 DEF F!Raised, FutureInv
  <2>3. /\ h \in {p \in Thread : getPc[p] = "waiting"}
        /\ Line(Tail(go.waiting), {p \in Thread : getPc[p] = "waiting"} \ {h})
        /\ Tail(go.waiting) \in Seq(Thread)
    BY <1>3, <2>0, LineTail DEF FutureInv
  <2>4. w = [getPc EXCEPT ![h] = "up"]
    BY <1>1, <2>1, <2>3 DEF FutureInv
  <2>5. {p \in Thread : w[p] = "waiting"} = {p \in Thread : getPc[p] = "waiting"} \ {h}
    BY <2>3, <2>4 DEF FutureInv
  <2>6. w \in [Thread -> GetLabels]
    BY <2>4 DEF FutureInv, GetLabels
  <2>7. \A p \in Thread : w[p] = getPc[p] \/ (getPc[p] = "waiting" /\ w[p] = "up")
    BY <2>3, <2>4 DEF FutureInv
  <2>8. Line(r.waiting, {p \in Thread : w[p] = "waiting"})
    BY <2>2, <2>3, <2>5
  <2>9. r \in [count : Nat, waiting : Seq(Thread)]
    BY <2>2, <2>3
  <2>. QED  BY <2>6, <2>7, <2>8, <2>9
<1>. QED  BY <1>2, <1>3

(* set() stores the value before it shows isReady and before there is a    *)
(* unit: to a reader of the cell, isReady = true is the write.             *)
LEMMA FutureSets ==
    ASSUME FutureInv, F!SetStep
    PROVE  FutureInv' /\ [F!Cell!Next]_<<IF isReady THEN value ELSE None, got>>
<1>1. CASE F!SetCheck
  <2>1. /\ setPc = "assert" /\ setPc' = "store" /\ ~isReady
        /\ UNCHANGED <<go, isReady, value, arg, getPc, got>>
    BY <1>1 DEF F!SetCheck, FutureInv
  <2>2. FutureInv'  BY <2>1 DEF FutureInv
  <2>. QED  BY <2>1, <2>2
<1>2. CASE F!SetStore
  <2>1. /\ setPc = "store" /\ setPc' = "ready" /\ value' = arg /\ ~isReady /\ ~isReady'
        /\ UNCHANGED <<go, isReady, arg, getPc, got>>
    BY <1>2 DEF F!SetStore, FutureInv
  <2>2. FutureInv'  BY <2>1 DEF FutureInv
  <2>. QED  BY <2>1, <2>2
<1>3. CASE F!SetReady
  <2>1. /\ setPc = "ready" /\ setPc' = "up" /\ value = arg /\ ~isReady /\ isReady' = TRUE
        /\ UNCHANGED <<go, value, arg, getPc, got>> /\ value \in Value
    BY <1>3 DEF F!SetReady, FutureInv
  <2>2. FutureInv'  BY <2>1 DEF FutureInv
  <2>3. F!Cell!Set  BY <2>1 DEF F!Cell!Set
  <2>. QED  BY <2>2, <2>3 DEF F!Cell!Next
<1>4. CASE F!SetUp
  <2>1. /\ setPc = "up" /\ setPc' = "done" /\ isReady /\ go' = F!Raised(go) /\ getPc' = F!Wake
        /\ UNCHANGED <<isReady, value, arg, got>> /\ value = arg
    BY <1>4 DEF F!SetUp, FutureInv
  <2>2. /\ go' \in [count : Nat, waiting : Seq(Thread)]
        /\ getPc' \in [Thread -> GetLabels]
        /\ Line(go'.waiting, {p \in Thread : getPc'[p] = "waiting"})
        /\ \A p \in Thread : getPc'[p] = getPc[p] \/ (getPc[p] = "waiting" /\ getPc'[p] = "up")
    BY <2>1, FutureUps
  <2>3. FutureInv'  BY <2>1, <2>2 DEF FutureInv
  <2>. QED  BY <2>1, <2>3
<1>. QED  BY <1>1, <1>2, <1>3, <1>4 DEF F!SetStep

(* get() reads t only when isReady holds, because it saw it or because it  *)
(* was handed a unit.                                                      *)
LEMMA FutureGets ==
    ASSUME FutureInv, NEW p \in Thread, F!GetStep(p)
    PROVE  FutureInv' /\ [F!Cell!Next]_<<IF isReady THEN value ELSE None, got>>
<1>0. getPc \in [Thread -> GetLabels]
  BY DEF FutureInv
<1>1. CASE F!GetCheck(p)
  <2>1. /\ getPc[p] = "check"
        /\ getPc' = [getPc EXCEPT ![p] = IF isReady THEN "read" ELSE "down"]
        /\ UNCHANGED <<go, isReady, value, arg, setPc, got>>
    BY <1>1 DEF F!GetCheck
  <2>2. {q \in Thread : getPc'[q] = "waiting"} = {q \in Thread : getPc[q] = "waiting"}
    BY <1>0, <2>1
  <2>3. getPc' \in [Thread -> GetLabels]  BY <1>0, <2>1 DEF GetLabels
  <2>4. FutureInv'  BY <2>1, <2>2, <2>3 DEF FutureInv
  <2>. QED  BY <2>1, <2>4
<1>2. CASE F!GetDown(p) /\ F!Free(go)
  <2>1. /\ getPc[p] = "down" /\ go.count > 0 /\ go' = [go EXCEPT !.count = @ - 1]
        /\ getPc' = [getPc EXCEPT ![p] = "up"]
        /\ UNCHANGED <<isReady, value, arg, setPc, got>>
    BY <1>2 DEF F!GetDown, F!Free, F!Taken
  <2>2. {q \in Thread : getPc'[q] = "waiting"} = {q \in Thread : getPc[q] = "waiting"}
    BY <1>0, <2>1
  <2>3. getPc' \in [Thread -> GetLabels]  BY <1>0, <2>1 DEF GetLabels
  <2>4. /\ go' \in [count : Nat, waiting : Seq(Thread)] /\ go'.waiting = go.waiting
        /\ isReady
    BY <2>1 DEF FutureInv
  <2>5. FutureInv'  BY <2>1, <2>2, <2>3, <2>4 DEF FutureInv
  <2>. QED  BY <2>1, <2>5
<1>3. CASE F!GetDown(p) /\ ~F!Free(go)
  <2>1. /\ getPc[p] = "down" /\ go' = [go EXCEPT !.waiting = Append(@, p)]
        /\ getPc' = [getPc EXCEPT ![p] = "waiting"]
        /\ UNCHANGED <<isReady, value, arg, setPc, got>>
    BY <1>3 DEF F!GetDown, F!Parked
  <2>2. {q \in Thread : getPc'[q] = "waiting"} = {q \in Thread : getPc[q] = "waiting"} \cup {p}
    BY <1>0, <2>1
  <2>3. getPc' \in [Thread -> GetLabels]  BY <1>0, <2>1 DEF GetLabels
  <2>4. /\ go' = [count |-> go.count, waiting |-> Append(go.waiting, p)]
        /\ go'.waiting = Append(go.waiting, p) /\ go'.count = go.count /\ go.count \in Nat
    BY <2>1 DEF FutureInv
  <2>5. /\ Line(go'.waiting, {q \in Thread : getPc'[q] = "waiting"})
        /\ go'.waiting \in Seq(Thread)
    BY <2>1, <2>2, <2>4, LineAppend DEF FutureInv
  <2>6. FutureInv'  BY <2>1, <2>3, <2>4, <2>5 DEF FutureInv
  <2>. QED  BY <2>1, <2>6
<1>4. CASE F!GetUp(p)
  <2>0. PICK w : w = F!Wake  OBVIOUS
  <2>1. /\ getPc[p] = "up" /\ go' = F!Raised(go) /\ getPc' = [w EXCEPT ![p] = "read"]
        /\ UNCHANGED <<isReady, value, arg, setPc, got>> /\ isReady
    BY <1>4, <2>0 DEF F!GetUp, FutureInv
  <2>2. /\ go' \in [count : Nat, waiting : Seq(Thread)]
        /\ w \in [Thread -> GetLabels]
        /\ Line(go'.waiting, {q \in Thread : w[q] = "waiting"})
        /\ \A q \in Thread : w[q] = getPc[q] \/ (getPc[q] = "waiting" /\ w[q] = "up")
    BY <2>0, <2>1, FutureUps
  <2>3. {q \in Thread : getPc'[q] = "waiting"} = {q \in Thread : w[q] = "waiting"}
    BY <2>1, <2>2
  <2>4. getPc' \in [Thread -> GetLabels]  BY <2>1, <2>2 DEF GetLabels
  <2>5. FutureInv'  BY <2>1, <2>2, <2>3, <2>4 DEF FutureInv
  <2>. QED  BY <2>1, <2>5
<1>5. CASE F!GetRead(p)
  <2>1. /\ getPc[p] = "read" /\ got' = [got EXCEPT ![p] = value] /\ isReady /\ got[p] = None
        /\ getPc' = [getPc EXCEPT ![p] = "done"] /\ value \in Value
        /\ UNCHANGED <<go, isReady, value, arg, setPc>>
    BY <1>5 DEF F!GetRead, FutureInv
  <2>2. {q \in Thread : getPc'[q] = "waiting"} = {q \in Thread : getPc[q] = "waiting"}
    BY <1>0, <2>1
  <2>3. getPc' \in [Thread -> GetLabels]  BY <1>0, <2>1 DEF GetLabels
  <2>4. got' \in [Thread -> Value \cup {None}]
    BY <2>1 DEF FutureInv
  <2>5. FutureInv'  BY <2>1, <2>2, <2>3, <2>4 DEF FutureInv
  <2>6. value # None  BY <2>1, SynchronisationAssumption
  <2>7. F!Cell!Get(p)  BY <2>1, <2>6 DEF F!Cell!Get
  <2>. QED  BY <2>5, <2>7 DEF F!Cell!Next
<1>. QED  BY <1>1, <1>2, <1>3, <1>4, <1>5 DEF F!GetStep

-----------------------------------------------------------------------------

(* The threads that have not decremented count in this round: the round    *)
(* cannot end without them.                                                *)
Missing == {t \in Thread : ~(at[t] = "check" /\ tround[t] = round)}

(* count counts them, and a thread is behind by at most the round that it  *)
(* is about to leave.                                                      *)
RoundInv ==
    /\ round \in Nat /\ count \in Nat
    /\ tround \in [Thread -> Nat] /\ left \in [Thread -> Nat]
    /\ at \in [Thread -> {"outside", "arrive", "check", "leave"}]
    /\ count = Cardinality(Missing)
    /\ \A t \in Thread :
         /\ at[t] \in {"outside", "arrive"} => left[t] = round
         /\ at[t] = "check" => tround[t] = left[t] /\ (left[t] = round \/ left[t] + 1 = round)
         /\ at[t] = "leave" => left[t] + 1 = round

(* A ReusableBarrier as constructed.                                       *)
LEMMA RoundStarts == BarrierInit => RoundInv
<1> SUFFICES ASSUME BarrierInit PROVE RoundInv
  OBVIOUS
<1>1. /\ count = Cardinality(Thread) /\ round = 0 /\ tround = [t \in Thread |-> 0]
      /\ at = [t \in Thread |-> "outside"] /\ left = [t \in Thread |-> 0]
  BY DEF BarrierInit, initial_count
<1>2. Missing = Thread  BY <1>1 DEF Missing
<1>3. Cardinality(Thread) \in Nat  BY RoundAssumption, FS_CardinalityType
<1>. QED  BY <1>1, <1>2, <1>3 DEF RoundInv

(* sync() of a ReusableBarrier: whoever brings count to zero is the last   *)
(* one missing, so that nobody is behind by more than the round he is      *)
(* leaving.                                                                *)
LEMMA RoundSteps ==
    ASSUME RoundInv, NEW t \in Thread, Step(t)
    PROVE  RoundInv'
<1>0. /\ round \in Nat /\ count \in Nat
      /\ tround \in [Thread -> Nat] /\ left \in [Thread -> Nat]
      /\ at \in [Thread -> {"outside", "arrive", "check", "leave"}]
      /\ count = Cardinality(Missing)
      /\ IsFiniteSet(Missing)
  BY RoundAssumption, FS_Subset DEF RoundInv, Missing
<1>1. CASE Enter(t)
  <2>1. /\ at[t] = "outside" /\ at' = [at EXCEPT ![t] = "arrive"]
        /\ UNCHANGED <<count, round, tround, left>>
    BY <1>1 DEF Enter
  <2>2. Missing' = Missing  BY <1>0, <2>1 DEF Missing
  <2>. QED  BY <1>0, <2>1, <2>2 DEF RoundInv
<1>2. CASE Arrive(t)
  <2>1. /\ at[t] = "arrive" /\ at' = [at EXCEPT ![t] = "check"]
        /\ tround' = [tround EXCEPT ![t] = round] /\ count' = count - 1
        /\ UNCHANGED <<round, left>>
    BY <1>2 DEF Arrive
  <2>2. Missing' = Missing \ {t} /\ t \in Missing
    BY <1>0, <2>1 DEF Missing
  <2>3. count' = Cardinality(Missing') /\ count' \in Nat
    BY <1>0, <2>1, <2>2, DropOne
  <2>4. left[t] = round
    BY <2>1 DEF RoundInv
  <2>5. /\ tround' \in [Thread -> Nat]
        /\ at' \in [Thread -> {"outside", "arrive", "check", "leave"}]
    BY <1>0, <2>1
  <2>. QED  BY <1>0, <2>1, <2>3, <2>4, <2>5 DEF RoundInv
<1>3. CASE ArriveLast(t)
  <2>1. /\ at[t] = "arrive" /\ at' = [at EXCEPT ![t] = "leave"] /\ count = 1
        /\ tround' = [tround EXCEPT ![t] = round] /\ count' = Cardinality(Thread)
        /\ round' = round + 1 /\ left' = left
    BY <1>3 DEF ArriveLast, initial_count
  <2>2. Missing = {t}
    <3>1. t \in Missing  BY <1>0, <2>1 DEF Missing
    <3>2. PICK x : Missing = {x}  BY <1>0, <2>1, FS_Singleton
    <3>. QED  BY <3>1, <3>2
  <2>3. \A u \in Thread : u # t => at[u] = "check" /\ tround[u] = round
    BY <2>2 DEF Missing
  <2>4. \A u \in Thread : left[u] = round
    BY <2>1, <2>3 DEF RoundInv
  <2>5. Missing' = Thread
    BY <1>0, <2>1, <2>3 DEF Missing
  <2>6. Cardinality(Thread) \in Nat  BY RoundAssumption, FS_CardinalityType
  <2>7. /\ tround' \in [Thread -> Nat] /\ round' \in Nat
        /\ at' \in [Thread -> {"outside", "arrive", "check", "leave"}]
    BY <1>0, <2>1
  <2>8. \A u \in Thread : /\ at'[u] \in {"check", "leave"} /\ left'[u] + 1 = round'
                          /\ at'[u] = "check" => tround'[u] = left'[u]
    BY <1>0, <2>1, <2>3, <2>4
  <2>. QED  BY <1>0, <2>1, <2>5, <2>6, <2>7, <2>8 DEF RoundInv
<1>4. CASE WaitForRound(t) \/ ContinueWait(t)
  BY <1>4 DEF WaitForRound, ContinueWait, barrier, RoundInv, Missing
<1>5. CASE RoundIsOver(t)
  <2>1. /\ at[t] = "check" /\ at' = [at EXCEPT ![t] = "leave"] /\ round > tround[t]
        /\ UNCHANGED <<count, round, tround, left>>
    BY <1>5 DEF RoundIsOver
  <2>2. Missing' = Missing  BY <1>0, <2>1 DEF Missing
  <2>3. left[t] + 1 = round  BY <1>0, <2>1 DEF RoundInv
  <2>. QED  BY <1>0, <2>1, <2>2, <2>3 DEF RoundInv
<1>6. CASE Leave(t)
  <2>1. /\ at[t] = "leave" /\ at' = [at EXCEPT ![t] = "outside"]
        /\ left' = [left EXCEPT ![t] = @ + 1]
        /\ UNCHANGED <<count, round, tround>>
    BY <1>6 DEF Leave
  <2>2. Missing' = Missing  BY <1>0, <2>1 DEF Missing
  <2>3. left[t] + 1 = round  BY <2>1 DEF RoundInv
  <2>. QED  BY <1>0, <2>1, <2>2, <2>3 DEF RoundInv
<1>. QED  BY <1>1, <1>2, <1>3, <1>4, <1>5, <1>6 DEF Step

(* Nobody leaves a round that somebody has not entered.                    *)
LEMMA RoundConsequences == RoundInv => NoneLeavesEarly
<1> SUFFICES ASSUME RoundInv, NEW t \in Thread, NEW u \in Thread, left[t] > left[u]
             PROVE  left[t] = left[u] + 1 /\ at[u] \in {"check", "leave"}
  BY DEF NoneLeavesEarly
<1>1. /\ left[t] \in Nat /\ left[u] \in Nat /\ round \in Nat
      /\ left[t] = round \/ left[t] + 1 = round
      /\ left[u] = round \/ (left[u] + 1 = round /\ at[u] \in {"check", "leave"})
  BY DEF RoundInv
<1>. QED  BY <1>1

-----------------------------------------------------------------------------

(* Steps of the other classes leave the Barrier alone.                     *)
LEMMA OnceStill == ASSUME BarrierInv, UNCHANGED once PROVE BarrierInv'
  BY DEF BarrierInv, once, Here, B!OneUnit

(* Steps of the other classes leave the BoundedBuffer alone.               *)
LEMMA RingStays ==
    ASSUME BufferInv, UNCHANGED ring
    PROVE  BufferInv' /\ UNCHANGED Q!Contents
<1>0. UNCHANGED <<head, n, data, sems, userPc, item, copy>>
  BY DEF ring
<1>1. /\ \A s : In(s)' = In(s)
      /\ Filling' = Filling /\ Filled' = Filled /\ Emptying' = Emptying /\ Emptied' = Emptied
      /\ Leaving' = Leaving
  BY <1>0 DEF In, Filling, Filled, Emptying, Emptied, Leaving
<1>2. BufferTypes' /\ LockInv' /\ ItemInv'
  BY <1>0 DEF BufferInv, BufferTypes, LockInv, ItemInv
<1>3. BufferLines'
  BY <1>0, <1>1 DEF BufferInv, BufferLines
<1>4. SlotInv'
  BY <1>0, <1>1 DEF BufferInv, SlotInv
<1>. QED  BY <1>0, <1>1, <1>2, <1>3, <1>4, RingStill DEF BufferInv

(* Steps of the other classes leave the Future alone.                      *)
LEMMA FutureStill ==
    ASSUME FutureInv, UNCHANGED future
    PROVE  FutureInv' /\ UNCHANGED <<IF isReady THEN value ELSE None, got>>
  BY DEF FutureInv, future

(* Steps of the other classes leave the ReusableBarrier alone.             *)
LEMMA RoundStill == ASSUME RoundInv, UNCHANGED barrier PROVE RoundInv'
  BY DEF RoundInv, barrier, Missing

(* The invariants of all the classes.                                      *)
SyncInv == BarrierInv /\ BufferInv /\ FutureInv /\ RoundInv /\ IInv

(* The constructors establish every invariant and the initial states of    *)
(* the abstract cell and queue.                                            *)
LEMMA SyncStarts == SyncInit => SyncInv /\ Q!Ring!Init /\ F!Cell!Init
<1> SUFFICES ASSUME SyncInit PROVE SyncInv /\ Q!Ring!Init /\ F!Cell!Init
  OBVIOUS
<1>1. BarrierInit /\ Init /\ F!Init /\ B!Init /\ Q!Init
  BY DEF SyncInit, BarrierInit
<1>2. F!Cell!Init
  BY <1>1 DEF F!Init, F!Cell!Init
<1>. QED  BY <1>1, <1>2, BarrierStarts, BufferStarts, RingStarts, FutureStarts, RoundStarts,
              InitIInv DEF SyncInv

(* Every step keeps the invariants and is a step of the abstract queue and *)
(* of the abstract cell, or invisible to them.                             *)
LEMMA SyncSteps ==
    ASSUME SyncInv, [SyncNext]_all
    PROVE  /\ SyncInv'
           /\ [Q!Ring!Next]_Q!Contents
           /\ [F!Cell!Next]_<<IF isReady THEN value ELSE None, got>>
<1> USE DEF SyncInv
<1>1. CASE UNCHANGED all
  <2>1. UNCHANGED once /\ UNCHANGED ring /\ UNCHANGED future /\ UNCHANGED barrier
        /\ UNCHANGED vars
    BY <1>1 DEF all
  <2>. QED  BY <2>1, OnceStill, RingStays, FutureStill, RoundStill, NextIInv
<1>2. CASE FutureSet \/ \E p \in Thread : FutureGet(p)
  <2>1. UNCHANGED once /\ UNCHANGED ring /\ UNCHANGED barrier /\ UNCHANGED vars
    BY <1>2 DEF FutureSet, FutureGet, Only
  <2>2. FutureInv' /\ [F!Cell!Next]_<<IF isReady THEN value ELSE None, got>>
    BY <1>2, FutureSets, FutureGets DEF FutureSet, FutureGet
  <2>. QED  BY <2>1, <2>2, OnceStill, RingStays, RoundStill, NextIInv
<1>3. CASE \E p \in Thread : BarrierSync(p)
  <2>1. UNCHANGED future /\ UNCHANGED ring /\ UNCHANGED barrier /\ UNCHANGED vars
    BY <1>3 DEF BarrierSync, Only
  <2>2. BarrierInv'
    BY <1>3, BarrierArrives, BarrierDowns, BarrierUps DEF BarrierSync, B!Step
  <2>. QED  BY <2>1, <2>2, FutureStill, RingStays, RoundStill, NextIInv
<1>4. CASE \/ \E p \in Producer : BufferPut(p)
           \/ \E c \in Consumer : BufferGet(c)
           \/ \E u \in Producer \cup Consumer : BufferStep(u)
  <2>1. UNCHANGED future /\ UNCHANGED once /\ UNCHANGED barrier /\ UNCHANGED vars
    BY <1>4 DEF BufferPut, BufferGet, BufferStep, Only
  <2>2. \/ \E p \in Producer, x \in Item : Q!Put(p, x)
        \/ \E c \in Consumer : Q!Get(c)
        \/ \E u \in Users : Q!Step(u)
    BY <1>4 DEF BufferPut, BufferGet, BufferStep, Users
  <2>3. BufferInv'
    BY <2>2, BufferPuts, BufferGets, BufferSteps
  <2>4. [Q!Ring!Next]_Q!Contents
    <3>1. ASSUME NEW u \in Users, Q!Step(u) PROVE [Q!Ring!Next]_Q!Contents
      BY <3>1, RingWrites, RingReads, RingCounts, RingOthers DEF Q!Step, Q!Ring!Next
    <3>. QED  BY <2>2, <3>1, RingOthers
  <2>. QED  BY <2>1, <2>3, <2>4, FutureStill, OnceStill, RoundStill, NextIInv
<1>5. CASE \E t \in Thread : RoundSync(t)
  <2>1. UNCHANGED future /\ UNCHANGED once /\ UNCHANGED ring
    BY <1>5 DEF RoundSync, Only
  <2>2. RoundInv'
    BY <1>5, RoundSteps DEF RoundSync
  <2>3. [Next]_vars
    <3>1. ASSUME NEW t \in Thread, Step(t) PROVE [Next]_vars
      BY <3>1 DEF Step, Enter, Arrive, ArriveLast, WaitForRound, RoundIsOver, ContinueWait,
                  Leave, Next
    <3>. QED  BY <1>5, <3>1 DEF RoundSync
  <2>. QED  BY <2>1, <2>2, <2>3, FutureStill, OnceStill, RingStays, NextIInv
<1>6. CASE Monitor
  <2>1. UNCHANGED future /\ UNCHANGED once /\ UNCHANGED ring /\ UNCHANGED barrier
    BY <1>6 DEF Monitor, Only
  <2>2. [Next]_vars
    BY <1>6 DEF Monitor
  <2>. QED  BY <2>1, <2>2, FutureStill, OnceStill, RingStays, RoundStill, NextIInv
<1>. QED  BY <1>1, <1>2, <1>3, <1>4, <1>5, <1>6 DEF SyncNext

-----------------------------------------------------------------------------

(* For any number of threads, producers and consumers and any size of the  *)
(* buffer, no unit of a semaphore is lost or doubled by the sync() of a    *)
(* Barrier (kernel/barrier.h) or the put() and get() of a BoundedBuffer    *)
(* (kernel/bb.h).                                                          *)
THEOREM UnitsAreConserved == SyncSpec => []UnitsConserved
<1>1. SyncInit => SyncInv  BY SyncStarts
<1>2. SyncInv /\ [SyncNext]_all => SyncInv'  BY SyncSteps
<1>3. SyncInv => UnitsConserved
  BY BarrierConsequences, BufferConsequences DEF SyncInv, UnitsConserved
<1>. QED  BY <1>1, <1>2, <1>3, PTL DEF SyncSpec

(* For any number of threads and rounds, nobody leaves sync() of a Barrier *)
(* or of a ReusableBarrier (kernel/barrier.h) before everybody has entered *)
(* it.                                                                     *)
THEOREM BarriersHold == SyncSpec => []NobodyLeavesEarly
<1>1. SyncInit => SyncInv  BY SyncStarts
<1>2. SyncInv /\ [SyncNext]_all => SyncInv'  BY SyncSteps
<1>3. SyncInv => NobodyLeavesEarly
  BY BarrierConsequences, RoundConsequences DEF SyncInv, NobodyLeavesEarly
<1>. QED  BY <1>1, <1>2, <1>3, PTL DEF SyncSpec

(* For any number of producers and consumers and any size N, put() and     *)
(* get() of kernel/bb.h implement a first-in first-out queue of at most N  *)
(* items.                                                                  *)
THEOREM BufferRefinesChannel == SyncSpec => BufferIsChannel
<1>1. SyncInit => SyncInv /\ Q!Ring!Init  BY SyncStarts
<1>2. SyncInv /\ [SyncNext]_all => SyncInv' /\ [Q!Ring!Next]_Q!Contents  BY SyncSteps
<1>3. Q!Ring!Init /\ [][Q!Ring!Next]_Q!Contents => BufferIsChannel
  BY DEF BufferIsChannel, Q!ImplementsChannel, Q!Ring!Spec
<1>. QED  BY <1>1, <1>2, <1>3, PTL DEF SyncSpec

(* For any number of threads in get(), a Future (kernel/future.h) is a     *)
(* cell that is written once and read only after, although isReady is      *)
(* tested without a lock.                                                  *)
THEOREM FutureRefinesWriteOnce == SyncSpec => FutureIsWriteOnce
<1>1. SyncInit => SyncInv /\ F!Cell!Init  BY SyncStarts
<1>2. SyncInv /\ [SyncNext]_all
        => SyncInv' /\ [F!Cell!Next]_<<IF isReady THEN value ELSE None, got>>
  BY SyncSteps
<1>3. F!Cell!Init /\ [][F!Cell!Next]_<<IF isReady THEN value ELSE None, got>>
        => FutureIsWriteOnce
  BY DEF FutureIsWriteOnce, F!ImplementsWriteOnce, F!Cell!Spec
<1>. QED  BY <1>1, <1>2, <1>3, PTL DEF SyncSpec
=============================================================================
