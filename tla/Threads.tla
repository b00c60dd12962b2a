------------------------------ MODULE Threads ------------------------------
(***************************************************************************)
(* The kernel's threads: kernel/threads.h and threads.cc (block, yield,    *)
(* stop, schedule, thread, the reaper), kernel/context.s (the context      *)
(* switch), the timer interrupt of kernel/pit.cc that preempts a thread,   *)
(* and kernel/semaphore.h, which blocks and wakes threads.                 *)
(*                                                                         *)
(* A core executes the stack it is on.  block() runs there step by step    *)
(* and may be interrupted between two steps while the core's interrupt     *)
(* flag is set; other cores run their own steps in between.  An operation  *)
(* of a queue is one step: it holds the queue's InterruptSafeLock, whose   *)
(* mutual exclusion and masking module Locks establishes.                  *)
(*                                                                         *)
(* The idle thread of core c is named c itself.                            *)
(***************************************************************************)
EXTENDS Naturals, Sequences, FiniteSets, SemaphoreOps

CONSTANTS
    Core, Thread,   \* the idle threads are Core, all other TCBs are Thread
    Reaper,         \* the thread threadsInit creates
    Sem, Initial,   \* the semaphores and the counts they are made with
    MaxCount,       \* bound: up() is not called beyond this count
    None

(* Where a thread can be.                                                 *)
Label == {"entry", "run", "reap", "spawn", "delete", "new", "schedule",
          "remove", "activate", "switch", "return"}

ASSUME ThreadsAssumption ==
    /\ Core \cap Thread = {}
    /\ Reaper \in Thread
    /\ Thread # {Reaper}
    /\ Initial \in [Sem -> Nat]
    /\ MaxCount \in Nat
    /\ None \notin Core \cup Thread \cup [pc : Label, ret : Label]
    /\ Sem \cap {"yield", "stop"} = {}

TCB == Core \cup Thread

VARIABLES
    active,     \* activeThreads[c]
    esp0,       \* the thread on whose stack an interrupt enters the kernel
    stack,      \* the thread whose stack core c executes on
    enabled,    \* the cores whose interrupt flag is set
    post,       \* post[c]: the stack core c switched away from and whose
                \* switch handler it has not called yet
    noPreempt,  \* the TCBs whose saveArea.no_preempt is set
    flags,      \* the TCBs with a pushed EFLAGS whose interrupt flag is set
    pc,         \* where each thread is
    frame,      \* where the timer interrupted it, if it did
    blk,        \* the local variables of block() on each stack, as long as
                \* they are used
    ret,        \* where the thread goes after up() or block(), as long as
                \* it is in one of them
    woken,      \* next in up(), tcb in thread(): to be scheduled
    victim,     \* it in delete_zombies()
    readyQ, zombies,
    live,       \* TCBs constructed and not deleted
    sem,        \* sem[s]: count and waiting queue
    holder      \* holder[s]: who holds the ISL of s across block()

cpu == <<active, esp0, stack, enabled, post>>
local == <<pc, frame, blk, ret, woken, victim>>
vars == <<cpu, noPreempt, flags, local, readyQ, zombies, live, sem, holder>>

NoBlock == [core |-> None, me |-> None, next |-> None, why |-> "yield"]

(* threadsInit has made the idle threads and the reaper, and the last core *)
(* to arrive in kernelInit has made the first thread; every core is about  *)
(* to call stop().  A TCB that is not live is memory of the heap.          *)
Init ==
    /\ active = [c \in Core |-> c]
    /\ esp0 = [c \in Core |-> c]
    /\ stack = [c \in Core |-> c]
    /\ enabled = Core
    /\ post = [c \in Core |-> None]
    /\ noPreempt = {}
    /\ pc = [t \in TCB |-> IF t \in Core THEN "run" ELSE "entry"]
    /\ frame = [t \in TCB |-> None]
    /\ blk = [t \in TCB |-> NoBlock]
    /\ ret = [t \in TCB |-> "run"]
    /\ woken = [t \in TCB |-> None]
    /\ victim = [t \in TCB |-> None]
    /\ zombies = <<>>
    /\ \E first \in Thread \ {Reaper} :
          /\ readyQ = <<Reaper, first>>
          /\ live = Core \cup {Reaper, first}
          /\ flags = {Reaper, first}
    /\ sem = [s \in Sem |-> Made(Initial[s])]
    /\ holder = [s \in Sem |-> None]

-----------------------------------------------------------------------------

(* The Boolean variable of x, in a set of those that are true, becomes b.  *)
Assign(set, x, b) == IF b THEN set \cup {x} ELSE set \ {x}

(* Core c executes thread code and has reached the label.                  *)
At(c, label) == post[c] = None /\ pc[stack[c]] = label

Goto(c, label) == pc' = [pc EXCEPT ![stack[c]] = label]

(* Where the code of a thread goes round again: the reaper's loop, or      *)
(* whatever else a thread does.                                            *)
Loop(t) == IF t = Reaper THEN "reap" ELSE "run"

(* entry(): current(), vmm_on, sti, doYourThing.                           *)
Entry(c) ==
    /\ At(c, "entry")
    /\ enabled' = enabled \cup {c}
    /\ Goto(c, Loop(stack[c]))
    /\ UNCHANGED <<active, esp0, stack, post, noPreempt, flags, frame, blk,
                   ret, woken, victim, readyQ, zombies, live, sem, holder>>

(* The beginning of block(): find out, with interrupts disabled, which     *)
(* core this is and which thread is active on it, and forbid preemption.   *)
Enter(c, why, after) ==
    /\ noPreempt' = noPreempt \cup {active[c]}
    /\ blk' = [blk EXCEPT ![stack[c]] =
                  [core |-> c, me |-> active[c], next |-> None, why |-> why]]
    /\ ret' = [ret EXCEPT ![stack[c]] = after]
    /\ Goto(c, "remove")

(* A thread calls yield(); the reaper does so when it found no zombie.     *)
Yield(c) ==
    /\ At(c, "run")
    /\ stack[c] \in Thread
    /\ Enter(c, "yield", Loop(stack[c]))
    /\ UNCHANGED <<cpu, flags, frame, woken, victim, readyQ, zombies, live,
                   sem, holder>>

(* A thread's work is done, or an idle thread has nothing else to do.      *)
Stop(c) ==
    /\ At(c, "run")
    /\ stack[c] # Reaper
    /\ Enter(c, "stop", "run")
    /\ UNCHANGED <<cpu, flags, frame, woken, victim, readyQ, zombies, live,
                   sem, holder>>

(* apitHandler: the interrupt gate clears the flag; the active thread      *)
(* yields unless it is idle or may not be preempted.                       *)
Timer(c) ==
    /\ post[c] = None
    /\ c \in enabled
    /\ active[c] \notin Core
    /\ active[c] \notin noPreempt
    /\ enabled' = enabled \ {c}
    /\ frame' = [frame EXCEPT ![stack[c]] = [pc |-> pc[stack[c]],
                                             ret |-> ret[stack[c]]]]
    /\ Enter(c, "yield", "run")
    /\ UNCHANGED <<active, esp0, stack, post, flags, woken, victim, readyQ,
                   zombies, live, sem, holder>>

(* Mutant: next_tcb->saveArea.no_preempt = 1 is missing.                   *)
Choose_Preemptible(c, t) ==
    /\ blk' = [blk EXCEPT ![stack[c]].next = t]
    /\ noPreempt' = noPreempt
    /\ Goto(c, "activate")

(* The thread that is to run next is known: it may not be preempted as     *)
(* soon as a timer interrupt can see it in activeThreads.                  *)
Choose(c, t) ==
    /\ blk' = [blk EXCEPT ![stack[c]].next = t]
    /\ noPreempt' = noPreempt \cup {t}
    /\ Goto(c, "activate")

(* Mutant: the ready queue is a stack.                                     *)
Remove_Last(c) ==
    /\ At(c, "remove")
    /\ readyQ # <<>>
    /\ Choose(c, readyQ[Len(readyQ)])
    /\ readyQ' = SubSeq(readyQ, 1, Len(readyQ) - 1)
    /\ UNCHANGED <<cpu, flags, frame, ret, woken, victim, zombies, live, sem,
                   holder>>

(* readyQ.remove() finds a thread.                                         *)
Remove(c) ==
    /\ At(c, "remove")
    /\ readyQ # <<>>
    /\ Choose(c, Head(readyQ))
    /\ readyQ' = Tail(readyQ)
    /\ UNCHANGED <<cpu, flags, frame, ret, woken, victim, zombies, live, sem,
                   holder>>

(* Mutant: block() ignores its BlockOption.                                *)
CanReturn_Always(c) ==
    /\ At(c, "remove")
    /\ readyQ = <<>>
    /\ Goto(c, "return")
    /\ UNCHANGED <<cpu, noPreempt, flags, frame, blk, ret, woken, victim,
                   readyQ, zombies, live, sem, holder>>

(* readyQ is empty and yield() returns to its caller, whose no_preempt     *)
(* flag stays set.                                                         *)
CanReturn(c) ==
    /\ At(c, "remove")
    /\ readyQ = <<>>
    /\ blk[stack[c]].why = "yield"
    /\ Goto(c, "return")
    /\ UNCHANGED <<cpu, noPreempt, flags, frame, blk, ret, woken, victim,
                   readyQ, zombies, live, sem, holder>>

(* readyQ is empty and the caller must block: the core's idle thread runs. *)
(* An idle thread that must block tries again, which changes nothing.      *)
MustBlock(c) ==
    /\ At(c, "remove")
    /\ readyQ = <<>>
    /\ blk[stack[c]].why # "yield"
    /\ blk[stack[c]].me \notin Core
    /\ Choose(c, blk[stack[c]].core)
    /\ UNCHANGED <<cpu, flags, frame, ret, woken, victim, readyQ, zombies,
                   live, sem, holder>>

(* Mutant: yield() schedules its caller before it is off its stack.        *)
Activate_SchedulesEarly(c) ==
    LET b == blk[stack[c]] IN
    /\ At(c, "activate")
    /\ active' = [active EXCEPT ![b.core] = b.next]
    /\ esp0' = [esp0 EXCEPT ![b.core] = b.next]
    /\ readyQ' = IF b.why = "yield" THEN Append(readyQ, b.me) ELSE readyQ
    /\ Goto(c, "switch")
    /\ UNCHANGED <<stack, enabled, post, noPreempt, flags, frame, blk, ret,
                   woken, victim, zombies, live, sem, holder>>

(* activeThreads[core_id] = next_tcb, and the TSS follows.                 *)
Activate(c) ==
    LET b == blk[stack[c]] IN
    /\ At(c, "activate")
    /\ active' = [active EXCEPT ![b.core] = b.next]
    /\ esp0' = [esp0 EXCEPT ![b.core] = b.next]
    /\ Goto(c, "switch")
    /\ UNCHANGED <<stack, enabled, post, noPreempt, flags, frame, blk, ret,
                   woken, victim, readyQ, zombies, live, sem, holder>>

(* gheith_contextSwitch up to the call of the switch handler: pushf, save  *)
(* the source, cli, clear both flags, load the target.                     *)
Switch(c) ==
    LET from == stack[c]
        b == blk[from]
    IN
    /\ At(c, "switch")
    /\ flags' = Assign(flags, from, c \in enabled)
    /\ enabled' = enabled \ {c}
    /\ noPreempt' = noPreempt \ {b.me, b.next}
    /\ stack' = [stack EXCEPT ![c] = b.next]
    /\ post' = [post EXCEPT ![c] = from]
    /\ blk' = [blk EXCEPT ![from].next = None, ![from].core = None]
    /\ Goto(c, "return")
    /\ UNCHANGED <<active, esp0, frame, ret, woken, victim, readyQ, zombies,
                   live, sem, holder>>

(* schedule(tcb): an idle thread is never queued.                          *)
Scheduled(q, t) == IF t \in Core THEN q ELSE Append(q, t)

(* The rest of gheith_contextSwitch, on the target's stack: call what the  *)
(* source passed to block() (yield: schedule; stop: zombies.add; down:     *)
(* waiting.add and unlock(true)), then popf and ret.                       *)
Handler(c) ==
    LET me == blk[post[c]].me
        why == blk[post[c]].why
    IN
    /\ post[c] # None
    /\ \/ /\ why = "yield"
          /\ readyQ' = Scheduled(readyQ, me)
          /\ UNCHANGED <<zombies, sem, holder>>
       \/ /\ why = "stop"
          /\ zombies' = Scheduled(zombies, me)
          /\ UNCHANGED <<readyQ, sem, holder>>
       \/ /\ why \in Sem
          /\ sem' = [sem EXCEPT ![why] = Parked(@, me)]
          /\ holder' = [holder EXCEPT ![why] = None]
          /\ UNCHANGED <<readyQ, zombies>>
    /\ enabled' = Assign(enabled, c, stack[c] \in flags)
    /\ flags' = flags \ {stack[c]}
    /\ post' = [post EXCEPT ![c] = None]
    /\ UNCHANGED <<active, esp0, stack, noPreempt, local, live>>

(* block() returns: out of the timer interrupt (iret), out of down(),      *)
(* which enables interrupts again, or out of yield() or stop().            *)
Return(c) ==
    LET t == stack[c] IN
    /\ At(c, "return")
    /\ \/ /\ frame[t] # None
          /\ enabled' = enabled \cup {c}
          /\ Goto(c, frame[t].pc)
          /\ ret' = [ret EXCEPT ![t] = frame[t].ret]
          /\ frame' = [frame EXCEPT ![t] = None]
       \/ /\ frame[t] = None
          /\ enabled' = IF blk[t].why \in Sem THEN enabled \cup {c} ELSE enabled
          /\ Goto(c, ret[t])
          /\ ret' = [ret EXCEPT ![t] = "run"]
          /\ UNCHANGED frame
    /\ blk' = [blk EXCEPT ![t] = NoBlock]
    /\ UNCHANGED <<active, esp0, stack, post, noPreempt, flags, woken, victim,
                   readyQ, zombies, live, sem, holder>>

-----------------------------------------------------------------------------

(* Code of a thread that may use semaphores: its own work, and the heap    *)
(* and the destructors that delete_zombies() and thread() call.            *)
Working(c) ==
    /\ post[c] = None
    /\ stack[c] \in Thread
    /\ \/ pc[stack[c]] \in {"delete", "new"}
       \/ pc[stack[c]] = "run" /\ stack[c] # Reaper

(* down() takes a unit.                                                    *)
DownPass(c, s) ==
    /\ Working(c)
    /\ holder[s] = None
    /\ Free(sem[s])
    /\ sem' = [sem EXCEPT ![s] = Taken(@)]
    /\ UNCHANGED <<cpu, noPreempt, flags, local, readyQ, zombies, live, holder>>

(* Mutant: down() calls block() with interrupts on.                        *)
DownBlock_LeftEnabled(c, s) ==
    /\ Working(c)
    /\ holder[s] = None
    /\ ~Free(sem[s])
    /\ holder' = [holder EXCEPT ![s] = stack[c]]
    /\ Enter(c, s, pc[stack[c]])
    /\ UNCHANGED <<cpu, flags, frame, woken, victim, readyQ, zombies, live, sem>>

(* Mutant: down() unlocks before it calls block().                         *)
DownBlock_Unlocked(c, s) ==
    /\ Working(c)
    /\ holder[s] = None
    /\ ~Free(sem[s])
    /\ enabled' = enabled \ {c}
    /\ Enter(c, s, pc[stack[c]])
    /\ UNCHANGED <<active, esp0, stack, post, flags, frame, woken, victim,
                   readyQ, zombies, live, sem, holder>>

(* down() finds none: it keeps the lock, and interrupts off, into block(). *)
DownBlock(c, s) ==
    /\ Working(c)
    /\ holder[s] = None
    /\ ~Free(sem[s])
    /\ holder' = [holder EXCEPT ![s] = stack[c]]
    /\ enabled' = enabled \ {c}
    /\ Enter(c, s, pc[stack[c]])
    /\ UNCHANGED <<active, esp0, stack, post, flags, frame, woken, victim,
                   readyQ, zombies, live, sem>>

(* up() up to lock.unlock(was): a waiter it dequeued is scheduled later.   *)
Up(c, s) ==
    LET t == stack[c] IN
    /\ Working(c)
    /\ holder[s] = None
    /\ sem[s].waiting = <<>> => sem[s].count < MaxCount
    /\ sem' = [sem EXCEPT ![s] = Raised(@)]
    /\ \/ /\ sem[s].waiting = <<>>
          /\ UNCHANGED <<pc, ret, woken>>
       \/ /\ sem[s].waiting # <<>>
          /\ woken' = [woken EXCEPT ![t] = Head(sem[s].waiting)]
          /\ ret' = [ret EXCEPT ![t] = pc[t]]
          /\ Goto(c, "schedule")
    /\ UNCHANGED <<cpu, noPreempt, flags, frame, blk, victim, readyQ, zombies,
                   live, holder>>

(* schedule(next) in up(), schedule(tcb) in thread().                      *)
Schedule(c) ==
    LET t == stack[c] IN
    /\ At(c, "schedule")
    /\ readyQ' = Scheduled(readyQ, woken[t])
    /\ woken' = [woken EXCEPT ![t] = None]
    /\ Goto(c, ret[t])
    /\ ret' = [ret EXCEPT ![t] = "run"]
    /\ UNCHANGED <<cpu, noPreempt, flags, frame, blk, victim, zombies, live,
                   sem, holder>>

(* thread(): begins with delete_zombies().                                 *)
Spawn(c) ==
    /\ At(c, "run")
    /\ stack[c] \in Thread \ {Reaper}
    /\ Goto(c, "spawn")
    /\ UNCHANGED <<cpu, noPreempt, flags, frame, blk, ret, woken, victim,
                   readyQ, zombies, live, sem, holder>>

(* it = zombies.remove() in delete_zombies(), called by thread() or by the *)
(* reaper; with none left, thread() goes on to new and the reaper yields.  *)
DeleteZombies(c) ==
    LET t == stack[c] IN
    /\ At(c, "spawn") \/ At(c, "reap")
    /\ \/ /\ zombies = <<>>
          /\ Goto(c, IF t = Reaper THEN "run" ELSE "new")
          /\ UNCHANGED <<victim, zombies>>
       \/ /\ zombies # <<>>
          /\ victim' = [victim EXCEPT ![t] = Head(zombies)]
          /\ zombies' = Tail(zombies)
          /\ Goto(c, "delete")
    /\ UNCHANGED <<cpu, noPreempt, flags, frame, blk, ret, woken, readyQ,
                   live, sem, holder>>

(* delete it                                                               *)
Delete(c) ==
    LET t == stack[c] IN
    /\ At(c, "delete")
    /\ live' = live \ {victim[t]}
    /\ victim' = [victim EXCEPT ![t] = None]
    /\ Goto(c, IF t = Reaper THEN "reap" ELSE "spawn")
    /\ UNCHANGED <<cpu, noPreempt, flags, frame, blk, ret, woken, readyQ,
                   zombies, sem, holder>>

(* tcb = new TCBImpl in thread(): the memory may be that of a TCB deleted  *)
(* before.                                                                 *)
New(c) ==
    LET t == stack[c] IN
    /\ At(c, "new")
    /\ \E u \in Thread \ live :
          /\ live' = live \cup {u}
          /\ noPreempt' = noPreempt \ {u}
          /\ flags' = flags \cup {u}
          /\ pc' = [pc EXCEPT ![t] = "schedule", ![u] = "entry"]
          /\ woken' = [woken EXCEPT ![t] = u]
          /\ blk' = [blk EXCEPT ![u] = NoBlock]
          /\ ret' = [ret EXCEPT ![t] = "run", ![u] = "run"]
    /\ UNCHANGED <<cpu, frame, victim, readyQ, zombies, sem, holder>>

-----------------------------------------------------------------------------

(* The steps of the kernel on core c that do not wait for anything.        *)
KernelStep(c) ==
    \/ Entry(c)
    \/ Remove(c)
    \/ CanReturn(c)
    \/ MustBlock(c)
    \/ Activate(c)
    \/ Switch(c)
    \/ Handler(c)
    \/ Return(c)
    \/ Schedule(c)
    \/ DeleteZombies(c)
    \/ Delete(c)

(* What a thread chooses to do.                                            *)
ThreadStep(c) ==
    \/ Yield(c)
    \/ Stop(c)
    \/ Spawn(c)
    \/ New(c)
    \/ \E s \in Sem : DownPass(c, s) \/ DownBlock(c, s) \/ Up(c, s)

Next == \E c \in Core : KernelStep(c) \/ ThreadStep(c) \/ Timer(c)

Spec == Init /\ [][Next]_vars

(* A core executes the next instruction of the kernel sooner or later.     *)
(* Threads may compute for ever, but the timer is periodic and the local   *)
(* APIC keeps an interrupt pending while the flag is clear, hence strong   *)
(* fairness.  The reaper's loop and the idle threads' never end.           *)
Fairness ==
    \A c \in Core :
        /\ WF_vars(KernelStep(c))
        /\ WF_vars(stack[c] = Reaper /\ Yield(c))
        /\ WF_vars(stack[c] \in Core /\ Stop(c))
        /\ SF_vars(Timer(c))

FairSpec == Spec /\ Fairness

-----------------------------------------------------------------------------

BlockLocals ==
    [core : Core \cup {None}, me : TCB \cup {None}, next : TCB \cup {None},
     why : Sem \cup {"yield", "stop"}]

(* Every variable has a value of its type; in particular the timer never   *)
(* interrupts a thread inside block().                                     *)
TypeOK ==
    /\ active \in [Core -> TCB]
    /\ esp0 \in [Core -> TCB]
    /\ stack \in [Core -> TCB]
    /\ enabled \subseteq Core
    /\ post \in [Core -> TCB \cup {None}]
    /\ noPreempt \subseteq TCB
    /\ flags \subseteq TCB
    /\ pc \in [TCB -> Label]
    /\ frame \in [TCB -> [pc : Label \ {"remove", "activate", "switch"},
                          ret : Label] \cup {None}]
    /\ blk \in [TCB -> BlockLocals]
    /\ ret \in [TCB -> Label]
    /\ woken \in [TCB -> Thread \cup {None}]
    /\ victim \in [TCB -> Thread \cup {None}]
    /\ readyQ \in Seq(Thread)
    /\ zombies \in Seq(Thread)
    /\ live \subseteq TCB
    /\ sem \in [Sem -> [count : Nat, waiting : Seq(Thread)]]
    /\ holder \in [Sem -> Thread \cup {None}]

(* All the ways in which the kernel can get hold of TCB t.                 *)
Places(t) ==
    UNION {{<<"stack", c>> : c \in {c \in Core : stack[c] = t}},
           {<<"post", c>> : c \in {c \in Core : post[c] = t}},
           {<<"next", u>> : u \in {u \in TCB : blk[u].next = t}},
           {<<"woken", u>> : u \in {u \in TCB : woken[u] = t}},
           {<<"victim", u>> : u \in {u \in TCB : victim[u] = t}},
           {<<"ready", i>> : i \in {i \in DOMAIN readyQ : readyQ[i] = t}},
           {<<"zombie", i>> : i \in {i \in DOMAIN zombies : zombies[i] = t}},
           UNION {{<<"waiting", s, i>> :
                     i \in {i \in DOMAIN sem[s].waiting : sem[s].waiting[i] = t}}
                  : s \in Sem}}

(* A thread is in exactly one place: executed by one core, just switched   *)
(* away from, chosen to run, ready, waiting, about to be scheduled, or     *)
(* dead; a deleted TCB is in none.  No core resumes a thread that another  *)
(* core executes, no thread is lost, none is freed while it can still run. *)
(* Only its own core executes an idle thread, and no queue holds it        *)
(* ("hopping idle threads" of threads.h).                                  *)
OnePlace ==
    /\ \A t \in Thread :
          \/ t \in live /\ Cardinality(Places(t)) = 1
          \/ t \notin live /\ Places(t) = {}
    /\ \A c \in Core :
          /\ c \in live
          /\ Places(c) \subseteq {<<"stack", c>>, <<"post", c>>, <<"next", stack[c]>>}

(* current() and the stack an interrupt uses agree with the thread that    *)
(* really executes, except in the window of block() between the store to   *)
(* activeThreads and the switch, where both threads are protected from     *)
(* preemption ("Why is this safe?" in threads.h).                          *)
CurrentExecutes ==
    \A c \in Core :
        IF At(c, "switch")
          THEN /\ active[c] = blk[stack[c]].next
               /\ {stack[c], active[c]} \subseteq noPreempt
               /\ blk[stack[c]].core = c
               /\ blk[stack[c]].me = stack[c]
          ELSE /\ active[c] = stack[c]
               /\ esp0[c] = stack[c]

(* The ASSERTs: an idle thread in block() is on its own core with          *)
(* interrupts on (threads.h), only idle threads come back from stop() and  *)
(* the reaper runs with interrupts on (threads.cc), and no idle thread     *)
(* blocks on a semaphore (semaphore.h).                                    *)
AssertsHold ==
    \A c \in Core :
        /\ At(c, "remove") /\ blk[stack[c]].why # "yield" /\ blk[stack[c]].me \in Core =>
              /\ blk[stack[c]].core = c
              /\ c \in enabled
              /\ blk[stack[c]].me = c
              /\ active[c] = c
        /\ At(c, "return") /\ frame[stack[c]] = None /\ blk[stack[c]].why = "stop" =>
              active[c] \in Core
        /\ At(c, "reap") => c \in enabled
        /\ post[c] # None /\ blk[post[c]].why \in Sem => blk[post[c]].me \notin Core

(* down() keeps the semaphore's spin lock while it looks for another       *)
(* thread and switches to it.  From the lock to the unlock in the switch   *)
(* handler the thread stays on one core, with interrupts off: otherwise    *)
(* every other core could spin for ever.                                   *)
LockedAcrossBlock ==
    \A s \in Sem : holder[s] # None =>
        \E c \in Core :
            /\ c \notin enabled
            /\ IF post[c] = None THEN stack[c] = holder[s] ELSE post[c] = holder[s]
            /\ blk[holder[s]].why = s

(* A thread that holds the lock across block() is the last of the line.    *)
Abstract == INSTANCE Semaphore WITH
    sem <- [s \in Sem |-> IF holder[s] = None THEN sem[s]
                                              ELSE Parked(sem[s], holder[s])]

(* down() and up() implement a first-come first-served semaphore, although *)
(* down() queues its caller only after the switch to another stack and     *)
(* up() schedules whom it wakes after it has let the lock go.              *)
ImplementsSemaphore == Abstract!Spec

(* Every core executes a thread that has left a yield() with nobody else   *)
(* ready and kept its no_preempt flag.                                     *)
AllUnpreemptible ==
    \A c \in Core : /\ stack[c] \in Thread \cap noPreempt
                    /\ pc[stack[c]] \notin {"remove", "activate", "switch"}

(* A ready thread runs eventually, unless every core is with a thread that *)
(* a yield() with nobody else ready has made unpreemptible.                *)
ReadyRuns ==
    \A t \in Thread :
        (\E i \in DOMAIN readyQ : readyQ[i] = t)
            ~> ((\E c \in Core : stack[c] = t) \/ AllUnpreemptible)
=============================================================================
