----------------------------- MODULE Processes -----------------------------
(***************************************************************************)
(* Processes and the objects they share: the descriptor tables of          *)
(* kernel/process.h and process.cc, the system calls of kernel/sys.cc that *)
(* change them, and the reference counts of kernel/shared.h that decide    *)
(* when a semaphore, an open file, an exit status or a process is deleted. *)
(*                                                                         *)
(* A process has one thread, so its tables change only in its own system   *)
(* calls; the objects are shared by fork, and their counts are atomic.  A  *)
(* system call that keeps a Shared<> in a local variable while it blocks,  *)
(* uses a file or starts another thread is split there.  The Future of an  *)
(* exit status is a cell written once (module Future), and down() and up() *)
(* are single steps (module Threads).  Calls do not fault on their way:    *)
(* the thread would stop with the Shared<> still on its stack, and the     *)
(* reference would not be dropped.                                         *)
(***************************************************************************)
EXTENDS Integers, FiniteSets, FiniteSetsExt, SemaphoreOps

CONSTANTS
    Process, First,     \* First is the process kernelInit makes for init
    Sem, OpenFile,      \* memory for Semaphore and File objects
    Console,            \* the U8250File
    NSEM, NCHILD, NFILE,
    Std,                \* how many files a Process(true) starts with
    InitialCount,       \* the arguments of the sem() system call
    MaxCount,           \* bound: up() is not called beyond this count
    Status,             \* exit codes
    None

ASSUME ProcessesAssumption ==
    /\ First \in Process /\ IsFiniteSet(Process)
    /\ NSEM \in Nat /\ NCHILD \in Nat /\ NFILE \in Nat
    /\ Std \in 0..NFILE
    /\ Console \in OpenFile
    /\ Sem \cap OpenFile = {} /\ Process \cap (Sem \cup OpenFile) = {}
    /\ InitialCount \subseteq 0..MaxCount
    /\ None \notin Process \cup Sem \cup OpenFile \cup Status

VARIABLES
    sems, files, children,  \* the descriptor tables
    ref,                    \* ref_count of semaphores and files
    outRef, out,            \* ref_count and value of output
    procRef,                \* ref_count of the process
    sem,                    \* the semaphores themselves
    pc,                     \* where the thread of the process is
    handle                  \* the Shared<> its system call holds

tables == <<sems, files, children>>
vars == <<tables, ref, outRef, out, procRef, sem, pc, handle>>

Object == Sem \cup OpenFile

(* The slots of a table that hold o, and the first one that is free.       *)
Slots(tab, o) == {i \in DOMAIN tab : tab[i] = o}
Copies(tab, o) == Cardinality(Slots(tab, o))
Full(tab) == Slots(tab, None) = {}
FirstFree(tab) == Min(Slots(tab, None))

Empty(n) == [i \in 0..(n - 1) |-> None]

(* kernelInit has made the first process, started its thread and dropped   *)
(* its own reference.  kernelProcess, to which the reaper and the idle     *)
(* threads belong, makes no system call and is left out.                   *)
Init ==
    /\ sems = [p \in Process |-> Empty(NSEM)]
    /\ files = [p \in Process |-> [i \in 0..(NFILE - 1) |->
                  IF p = First /\ i < Std THEN Console ELSE None]]
    /\ children = [p \in Process |-> Empty(NCHILD)]
    /\ ref = [o \in Object |-> IF o = Console THEN Std ELSE 0]
    /\ outRef = [p \in Process |-> IF p = First THEN 1 ELSE 0]
    /\ out = [p \in Process |-> None]
    /\ procRef = [p \in Process |-> IF p = First THEN 1 ELSE 0]
    /\ sem = [s \in Sem |-> Made(0)]
    /\ pc = [p \in Process |-> IF p = First THEN "user" ELSE "absent"]
    /\ handle = [p \in Process |-> None]

-----------------------------------------------------------------------------
(* Shared<>                                                                *)

AddTo(count, o) == [count EXCEPT ![o] = @ + 1]

DropFrom(count, o) == [count EXCEPT ![o] = @ - 1]

(* The last reference to a Future goes, and the status with it.            *)
Kept(count) == [p \in Process |-> IF count[p] = 0 THEN None ELSE out[p]]

(* Mutant: the status is kept in the process and dies with it.            *)
Destroy_TakesStatus(q) ==
    LET left == [p \in Process |->
                    outRef[p] - Copies(children[q], p)
                              - (IF p = q THEN 1 ELSE 0)] IN
    /\ procRef' = [procRef EXCEPT ![q] = 0]
    /\ ref' = [o \in Object |-> ref[o] - Copies(sems[q], o)
                                       - Copies(files[q], o)]
    /\ outRef' = left
    /\ out' = [Kept(left) EXCEPT ![q] = None]
    /\ sems' = [sems EXCEPT ![q] = Empty(NSEM)]
    /\ files' = [files EXCEPT ![q] = Empty(NFILE)]
    /\ children' = [children EXCEPT ![q] = Empty(NCHILD)]

(* The last reference to process q is dropped: ~Process and the            *)
(* destructors of its fields.                                              *)
Destroy(q) ==
    LET left == [p \in Process |->
                    outRef[p] - Copies(children[q], p)
                              - (IF p = q THEN 1 ELSE 0)] IN
    /\ procRef' = [procRef EXCEPT ![q] = 0]
    /\ ref' = [o \in Object |-> ref[o] - Copies(sems[q], o)
                                       - Copies(files[q], o)]
    /\ outRef' = left
    /\ out' = Kept(left)
    /\ sems' = [sems EXCEPT ![q] = Empty(NSEM)]
    /\ files' = [files EXCEPT ![q] = Empty(NFILE)]
    /\ children' = [children EXCEPT ![q] = Empty(NCHILD)]

DropProcess(q) ==
    \/ /\ procRef[q] > 1
       /\ procRef' = DropFrom(procRef, q)
       /\ UNCHANGED <<tables, ref, outRef, out>>
    \/ /\ procRef[q] = 1
       /\ Destroy(q)

Goto(p, label) == pc' = [pc EXCEPT ![p] = label]
Hold(p, o) == handle' = [handle EXCEPT ![p] = o]

-----------------------------------------------------------------------------
(* sem, up, down                                                           *)

(* newSemaphore                                                            *)
NewSemaphore(p, s, n) ==
    /\ pc[p] = "user"
    /\ ~Full(sems[p])
    /\ ref[s] = 0
    /\ sem' = [sem EXCEPT ![s] = Made(n)]
    /\ sems' = [sems EXCEPT ![p][FirstFree(sems[p])] = s]
    /\ ref' = AddTo(ref, s)
    /\ UNCHANGED <<files, children, outRef, out, procRef, pc, handle>>

(* Mutant: the system call keeps a plain pointer to the semaphore.         *)
GetSemaphore_Borrows(p, i, op) ==
    /\ pc[p] = "user"
    /\ sems[p][i] # None
    /\ op = "up" => sem[sems[p][i]].count < MaxCount
    /\ Hold(p, sems[p][i])
    /\ Goto(p, op)
    /\ UNCHANGED <<tables, ref, outRef, out, procRef, sem>>

(* up() and down() call getSemaphore.                                      *)
GetSemaphore(p, i, op) ==
    /\ pc[p] = "user"
    /\ sems[p][i] # None
    /\ op = "up" => sem[sems[p][i]].count < MaxCount
    /\ Hold(p, sems[p][i])
    /\ ref' = AddTo(ref, sems[p][i])
    /\ Goto(p, op)
    /\ UNCHANGED <<tables, outRef, out, procRef, sem>>

(* Mutant: the waiter is taken from the queue and never scheduled.         *)
Up_ForgetsWaiter(p) ==
    LET s == handle[p] IN
    /\ pc[p] = "up"
    /\ sem' = [sem EXCEPT ![s] = Raised(@)]
    /\ Goto(p, "return")
    /\ UNCHANGED <<tables, ref, outRef, out, procRef, handle>>

Up(p) ==
    LET s == handle[p] IN
    /\ pc[p] = "up"
    /\ sem' = [sem EXCEPT ![s] = Raised(@)]
    /\ pc' = [q \in Process |->
                IF q = p \/ q \in Released(sem[s]) THEN "return" ELSE pc[q]]
    /\ UNCHANGED <<tables, ref, outRef, out, procRef, handle>>

Down(p) ==
    LET s == handle[p] IN
    /\ pc[p] = "down"
    /\ \/ /\ Free(sem[s])
          /\ sem' = [sem EXCEPT ![s] = Taken(@)]
          /\ Goto(p, "return")
       \/ /\ ~Free(sem[s])
          /\ sem' = [sem EXCEPT ![s] = Parked(@, p)]
          /\ Goto(p, "blocked")
    /\ UNCHANGED <<tables, ref, outRef, out, procRef, handle>>

(* The local Shared<Semaphore> is dropped.                                 *)
SemReturn(p) ==
    /\ pc[p] = "return"
    /\ ref' = DropFrom(ref, handle[p])
    /\ Hold(p, None)
    /\ Goto(p, "user")
    /\ UNCHANGED <<tables, outRef, out, procRef, sem>>

-----------------------------------------------------------------------------
(* open and close                                                          *)

(* open() of a file that exists: new OpenFileStruct, setFile.  With no     *)
(* free slot the file is deleted again and nothing has changed.            *)
Open(p, f) ==
    /\ pc[p] = "user"
    /\ ~Full(files[p])
    /\ ref[f] = 0
    /\ files' = [files EXCEPT ![p][FirstFree(files[p])] = f]
    /\ ref' = AddTo(ref, f)
    /\ UNCHANGED <<sems, children, outRef, out, procRef, sem, pc, handle>>

CloseSemaphore(p, i) ==
    /\ pc[p] = "user"
    /\ sems[p][i] # None
    /\ ref' = DropFrom(ref, sems[p][i])
    /\ sems' = [sems EXCEPT ![p][i] = None]
    /\ UNCHANGED <<files, children, outRef, out, procRef, sem, pc, handle>>

CloseFile(p, i) ==
    /\ pc[p] = "user"
    /\ files[p][i] # None
    /\ ref' = DropFrom(ref, files[p][i])
    /\ files' = [files EXCEPT ![p][i] = None]
    /\ UNCHANGED <<sems, children, outRef, out, procRef, sem, pc, handle>>

(* close() of a child disowns it.                                          *)
CloseChild(p, i) ==
    /\ pc[p] = "user"
    /\ children[p][i] # None
    /\ outRef' = DropFrom(outRef, children[p][i])
    /\ out' = Kept(outRef')
    /\ children' = [children EXCEPT ![p][i] = None]
    /\ UNCHANGED <<sems, files, ref, procRef, sem, pc, handle>>

-----------------------------------------------------------------------------
(* write, len, read, seek, play_audio                                      *)

(* Each of them calls getFile ...                                          *)
GetFile(p, i) ==
    /\ pc[p] = "user"
    /\ files[p][i] # None
    /\ Hold(p, files[p][i])
    /\ ref' = AddTo(ref, files[p][i])
    /\ Goto(p, "file")
    /\ UNCHANGED <<tables, outRef, out, procRef, sem>>

(* ... and drops its Shared<File> when it returns.  What it does with the  *)
(* file is in OpenFile and Audio.                                          *)
FileReturn(p) ==
    /\ pc[p] = "file"
    /\ ref' = DropFrom(ref, handle[p])
    /\ Hold(p, None)
    /\ Goto(p, "user")
    /\ UNCHANGED <<tables, outRef, out, procRef, sem>>

-----------------------------------------------------------------------------
(* fork, exit, wait                                                        *)

ForkCall(p) ==
    /\ pc[p] = "user"
    /\ Goto(p, "fork")
    /\ UNCHANGED <<tables, ref, outRef, out, procRef, sem, handle>>

(* Process::fork with a free slot for the child c.                         *)
Fork(p, c) ==
    /\ pc[p] = "fork"
    /\ ~Full(children[p])
    /\ procRef[c] = 0 /\ outRef[c] = 0
    /\ sems' = [sems EXCEPT ![c] = sems[p]]
    /\ files' = [files EXCEPT ![c] = files[p]]
    /\ children' = [children EXCEPT ![p][FirstFree(children[p])] = c]
    /\ ref' = [o \in Object |-> ref[o] + Copies(sems[p], o)
                                       + Copies(files[p], o)]
    /\ outRef' = [outRef EXCEPT ![c] = 2]
    /\ procRef' = [procRef EXCEPT ![c] = 1]
    /\ Hold(p, c)
    /\ pc' = [pc EXCEPT ![p] = "start", ![c] = "made"]
    /\ UNCHANGED <<out, sem>>

(* Process::fork with ten children returns no process, and the handler     *)
(* passes that to thread(): the constructor of TCB reads process->pd at an *)
(* address below FRAME_SIZE, which is not mapped, and vmm_pageFault ends   *)
(* the calling process with its thread's id for a status.                  *)
ForkNoSlot(p) ==
    /\ pc[p] = "fork"
    /\ Full(children[p])
    /\ \E id \in Status : out' = [out EXCEPT ![p] = id]
    /\ Goto(p, "exited")
    /\ UNCHANGED <<tables, ref, outRef, procRef, sem, handle>>

(* thread(): the TCB of the child refers to its process and is scheduled.  *)
StartChild(p) ==
    LET c == handle[p] IN
    /\ pc[p] = "start"
    /\ procRef' = AddTo(procRef, c)
    /\ pc' = [pc EXCEPT ![p] = "started", ![c] = "user"]
    /\ UNCHANGED <<tables, ref, outRef, out, sem, handle>>

(* The handler drops its Shared<Process>.                                  *)
ForkReturn(p) ==
    /\ pc[p] = "started"
    /\ DropProcess(handle[p])
    /\ Hold(p, None)
    /\ Goto(p, "user")
    /\ UNCHANGED sem

(* Mutant: the thread stops before it sets the status.                     *)
Exit_NoStatus(p, v) ==
    /\ pc[p] = "user"
    /\ Goto(p, "exited")
    /\ UNCHANGED <<tables, ref, outRef, out, procRef, sem, handle>>

(* exit(): output->set, stop.  A fault below 0x80000000 does the same.     *)
Exit(p, v) ==
    /\ pc[p] = "user"
    /\ out' = [out EXCEPT ![p] = v]
    /\ Goto(p, "exited")
    /\ UNCHANGED <<tables, ref, outRef, procRef, sem, handle>>

(* delete_zombies deletes the TCB.                                         *)
Reap(p) ==
    /\ pc[p] = "exited"
    /\ DropProcess(p)
    /\ Goto(p, "absent")
    /\ UNCHANGED <<sem, handle>>

WaitCall(p, i) ==
    /\ pc[p] = "user"
    /\ children[p][i] # None
    /\ Hold(p, children[p][i])
    /\ outRef' = AddTo(outRef, children[p][i])
    /\ Goto(p, "wait")
    /\ UNCHANGED <<tables, ref, out, procRef, sem>>

(* get() returns, the slot is cleared and the local Shared<> is dropped.   *)
WaitReturn(p) ==
    LET c == handle[p] IN
    /\ pc[p] = "wait"
    /\ out[c] # None
    /\ children' = [children EXCEPT ![p] =
                      [i \in DOMAIN @ |-> IF @[i] = c THEN None ELSE @[i]]]
    /\ outRef' = [outRef EXCEPT ![c] = @ - 2]
    /\ out' = Kept(outRef')
    /\ Hold(p, None)
    /\ Goto(p, "user")
    /\ UNCHANGED <<sems, files, ref, procRef, sem>>

Call(p) ==
    \/ \E s \in Sem, n \in InitialCount : NewSemaphore(p, s, n)
    \/ \E i \in 0..(NSEM - 1) :
          \/ \E op \in {"up", "down"} : GetSemaphore(p, i, op)
          \/ CloseSemaphore(p, i)
    \/ \E f \in OpenFile : Open(p, f)
    \/ \E i \in 0..(NFILE - 1) : CloseFile(p, i) \/ GetFile(p, i)
    \/ \E i \in 0..(NCHILD - 1) : CloseChild(p, i) \/ WaitCall(p, i)
    \/ ForkCall(p)
    \/ \E v \in Status : Exit(p, v)

(* The rest of a system call, once begun.                                  *)
Continue(p) ==
    \/ Up(p) \/ Down(p) \/ SemReturn(p)
    \/ \E c \in Process : Fork(p, c)
    \/ ForkNoSlot(p) \/ StartChild(p) \/ ForkReturn(p)
    \/ WaitReturn(p)

Next == \E p \in Process : Call(p) \/ Continue(p) \/ FileReturn(p) \/ Reap(p)

Spec == Init /\ [][Next]_vars

(* A thread that is not blocked runs again, the reaper included (ReadyRuns *)
(* of Threads); nothing obliges a program to make a system call, or one    *)
(* that plays a file to return (Audio).                                    *)
FairSpec == Spec /\ \A p \in Process : WF_vars(Continue(p)) /\ WF_vars(Reap(p))

-----------------------------------------------------------------------------

(* The slots of all processes' tables that hold o, and the processes that  *)
(* hold o in a local variable of a system call.                            *)
SlotsWith(tabs, n, o) ==
    {x \in Process \X (0..(n - 1)) : tabs[x[1]][x[2]] = o}
Holders(o) == {p \in Process : handle[p] = o}
HoldersAt(labels, o) == {p \in Process : pc[p] \in labels /\ handle[p] = o}

(* Whatever processes do to the objects they share, in whatever order,     *)
(* every reference count is the number of references there are: slots of   *)
(* tables, local variables of system calls in progress, threads.  So       *)
(* nothing is deleted while somebody can still reach it, and nothing is    *)
(* kept that nobody can reach (Shared of kernel/shared.h).                 *)
RefsExact ==
    /\ \A o \in Object :
          ref[o] = Cardinality(SlotsWith(sems, NSEM, o))
                   + Cardinality(SlotsWith(files, NFILE, o))
                   + Cardinality(Holders(o))
    /\ \A c \in Process :
          /\ outRef[c] = Cardinality(SlotsWith(children, NCHILD, c))
                         + Cardinality(HoldersAt({"wait"}, c))
                         + (IF procRef[c] > 0 THEN 1 ELSE 0)
          /\ procRef[c] = Cardinality(HoldersAt({"start", "started"}, c))
                          + (IF pc[c] \in {"absent", "made"} THEN 0 ELSE 1)

(* The exit status of a child is there for its parent however late the     *)
(* parent asks, also when the reaper has deleted the child's thread and    *)
(* process; and a process that has not exited has no status, which is what *)
(* ASSERT(!isReady) of Future::set needs.                                  *)
ExitStatusKept ==
    /\ \A p \in Process : \A i \in DOMAIN children[p] :
          LET c == children[p][i] IN
          c # None /\ pc[c] \in {"exited", "absent"} => out[c] # None
    /\ \A p \in Process : pc[p] \notin {"exited", "absent"} => out[p] = None

(* A semaphore outlives everybody blocked in its down(), and they are      *)
(* still in the queue of the semaphore their system call holds.            *)
BlockedAreQueued ==
    \A p \in Process :
       pc[p] = "blocked" <=> \E s \in Sem : /\ p \in Waiters(sem[s])
                                           /\ handle[p] = s
                                           /\ ref[s] > 0

(* wait() returns once the child has exited, and a process that has exited *)
(* is deleted, with everything only it held, whether its parent waits for  *)
(* it, disowns it or has exited itself.                                    *)
ExitsComplete ==
    \A p, c \in Process :
       /\ (pc[p] = "wait" /\ handle[p] = c /\ pc[c] = "exited") ~> (pc[p] # "wait")
       /\ (pc[p] = "exited") ~> (procRef[p] = 0)

(* fork() tells its caller of an error ("-ve => error", t0.dir/sbin/sys.h, *)
(* line 72): the caller does not end in it.                                *)
ForkReturnsErrors ==
    [][\A p \in Process : pc[p] = "fork" => pc'[p] # "exited"]_vars
=============================================================================
