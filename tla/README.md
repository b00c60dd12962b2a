# A TLA+ model of the kernel

The repository is a small multi-core x86 kernel (`kernel/`) with a user library
and two programs (`t0.dir/sbin/`). This directory models the parts of it where
correctness depends on the order of steps: the start of the cores, the disk driver,
locks, threads, the synchronisation classes, the heaps, virtual memory, processes and their shared objects,
reading files and playing sound. TLC checks the models on small instances (the `.cfg` files),
TLAPS proves the results listed under "Proofs" for instances of any size, and
`PROJECT.json` maps every definition to the lines it models.

Run `tlc -config X.cfg M` for the pairs in the table of runs, and `tlapm M.tla` for
each `M` that ends in `Proofs`.

## Inventory

| component | state | operations | hard because |
|---|---|---|---|
| Locks (`atomic.h`) | `taken`, `was`, each core's interrupt flag | `lock`, `unlock`, the guards | the saved flag is a field all cores share; a handler can interrupt the holder |
| Threads (`threads.h`, `threads.cc`, `context.s`, `pit.cc`) | `activeThreads`, `readyQ`, `zombies`, save areas with `no_preempt` | `block`, `yield`, `stop`, `schedule`, `thread`, the reaper, the timer | a thread is published, preempted, stopped and deleted while cores change stacks |
| Semaphore, BlockingLock (`semaphore.h`) | count, queue, lock | `down`, `up` | `down` holds its lock across the context switch |
| Future, Barrier, ReusableBarrier, Condition, BoundedBuffer | flags, counts, epochs, a ring | `get`/`set`, `sync`, `wait`/`notify`, `put`/`get` | unlocked tests, windows between unlock and queueing, hand-over of one unit |
| Kernel and user heap (`heap.cc`, `heap.c`) | one array with boundary tags and a list threaded through the free blocks | `malloc`, `free`, `realloc` | long sequences of splits and merges; failure inside `realloc` |
| Physical and virtual memory (`physmem.cc`, `vmm.cc`) | the frame list, page directories and tables | frame allocation, page fault, `make_pd`, `delete_private`, `delete_pd` | several processes allocate and free step by step, to the last frame |
| Processes (`process.cc`, `sys.cc`, `shared.h`) | descriptor tables, exit statuses, reference counts | `fork`, `exit`, `wait`, `sem`, `up`, `down`, `open`, `close` | parent, child and reaper drop references in any order |
| Files (`openfilestruct.h`, `block_io.cc`, `ext2.cc`) | the offset of an open file, i-nodes | `read`, `seek`, `len`, `read_all`, `read_block` | the offset is shared over fork without a lock; limits of indirect blocks |
| Audio (`pci.cc`, `play_audio` in `process.cc` and `sys.cc`) | the AC97 descriptor list and registers, jiffies | `findAC97`, `findWavHDR`, `fillBuffers`, `play` | one card, no lock; searches that follow sizes in the file; limits of buffers and lists |
| Path lookup and exec (`ext2.h`, `sys.cc`, `elf.cc`) | the disk, exec's copies, the new stack | `open`, `find`, `execl`, `load` | links that dangle or circle; failures after the old program is gone; arguments in memory that is cleared |
| Boot and SMP (`mbr.S`, `init.cc`, `smp.cc`, `config.cc`) | `smpInitDone`, `SMP::running`, `howManyAreHere`, `kConfig`, each core's stack | `pickKernelStack`, `kernelInit`, `configInit`, `SMP::init`, `Pit::init`, `VMM::per_core_init` | every core begins on one stack; what is not yet set up; a count of cores taken from a table |
| Disk (`ide.cc`) and mounting (`Ext2::Ext2`) | the drive's registers and status, the lock; the fields of `Ext2` | `read_block`, `waitForDrive`; reading super block, group table and root | five registers and a data port that all cores share; errors seen only at one moment; layouts that depend on the block size |
| Console, formatting, interrupt and CPU tables, user programs | | | see "Not modelled" |

Interaction. The boot processor sets everything up, mounts the disk from a global
constructor, starts the other cores one by one, and the last core to arrive makes
the first process. Every queue is guarded by an `InterruptSafeLock`; `block` uses the
queues; a `Semaphore` uses `block` and a queue; `Future`, `Barrier` and
`BoundedBuffer` use semaphores; `ReusableBarrier` uses `Condition`, which uses
`block` directly. A process has one thread and a table of semaphores, open files
and the futures of its children's exit statuses, all held through `Shared<>`. The
reaper thread deletes the TCBs of stopped threads, and with the last TCB the
process and its page tables. The models are layered in the same way: a layer
takes one operation of the layer below as one step, and the module of the layer
below says why that is right.

## Modules

**Locks.** A core has two activities, the interrupted code and the timer handler
above it, and both use one lock. A step is one access to shared memory or one
change of the interrupt flag. `kind` selects `InterruptSafeLock` (the flag is
saved in the field `was`) or `ISL` (the flag is handed to the caller). `entered`
is a history variable: who called `lock()` with interrupts on.

**Ide**, **Mount**, **Boot**, each extending the one before. `Ide` is
`read_block`: the lock, one look at the error bits, the polling for `BSY`, one step
per register and per data word. The drive is external: it takes the sector number
from the registers when it executes the command, and a core may look at the status
before or after. A word is shown as its place on the disk, so words of another
sector are seen. `Mount` is the constructor of `Ext2` with the loop of
`BlockIO::read_all`; `disk` is what is on the disk, and `Descriptor`, `DiskGroups`
say where, from the format and not from the code. `Boot` takes every core from
`resetEIP` to `stop()`: `stackOf` is the stack it is on, `SetUps` the order of
`kernelInit`, `done` what has been set up, `TotalProcs` the walk over the MADT as the
code makes it. Core n is the one whose local APIC has the number n, which is where
`kernelInit` sends its interrupts.

**Machine** (checked through **MCMachine**, which holds the tables and disks) puts
`Locks` and `Boot` under one specification. They share no state (`Locks` begins with
cores that run), so its `Init` chooses which of them moves. `Ide` takes `lock` and
`unlock` as single steps, which `Locks` justifies.

**Threads**, with **SemaphoreOps** and the abstract **Semaphore**. A core
executes a stack (`stack[c]`), which is not always the thread that
`activeThreads` names (`active[c]`). `Enter` is the protected beginning of
`block`; `Remove`, `CanReturn` and `MustBlock` are the outcomes of
`readyQ.remove()`; `Activate` is the store to `activeThreads`; `Switch` is the
assembly up to the change of `esp`; `Handler` is the switch handler of `yield`,
`stop` or `down`, run on the new stack; `Timer` is `apitHandler`. `post[c]` is the
thread a core has left and not yet published. A TCB that is not `live` is free
memory which `New` may use again. `SemaphoreOps` gives a semaphore as a value, for
the modules that take `down` and `up` as single steps; `ImplementsSemaphore` is
the justification.

**Future** implements **WriteOnce**; **Barrier**; **BoundedBuffer** implements
**Channel**: one action per statement that reads or writes shared state. `n++`
and `n--` in the buffer are a load and a store.

**Condition**, and **ReusableBarrier**, which extends it. `wait` is three steps:
the unlock, the switch handler, and the lock on return. `owed` is a history
variable: the threads that were in `wait` at a `notifyAll` and have not come back.

**Synchronisation** puts these five classes under one specification. They share
no state, so its `Init` chooses one class and only the threads of that class
move; each property of the run speaks of one class.

**HeapOps**, **Heap**. The heap is the real array of ints with headers, footers
and links; `HeapOps` holds what the kernel's heap (`heap.cc`) and the library's
heap (`t0.dir/sbin/heap.c`) have in common, `Heap` the calls. `kind` says which heap it is:
only the kernel compares several fits, only the user library has `realloc`.
Owners fill the bytes they asked for, so the checks see every overlap. A call of
`malloc` or `free` is one step: the kernel's heap holds a lock, the user library
has one thread.

**AddressSpace** implements **Memories**. One step is one call of
`alloc_frame` or `dealloc_frame` with what the caller then does to tables only it
can see. Page faults, `fork`'s copying, `exec`'s clearing and the deletion of an
address space interleave over the one frame list. `Memories` says what a program
may rely on: a memory of its own, zero at first, copied by fork.

**Processes** (checked through **MCProcesses**, which adds the symmetry). System
calls are split where they keep a `Shared<>` while they block, use a file or start another
thread: `GetSemaphore`/`Up` or `Down`/`SemReturn`, `GetFile`/`FileReturn` (`write`, `len`,
`read`, `seek` and `play_audio`), `ForkCall`/`Fork`/`StartChild`/
`ForkReturn`, `WaitCall`/`WaitReturn`. `kernelProcess` owns the idle threads and
the reaper, makes no system calls and is left out; `First` is the process
`kernelInit` makes for `init`.

**OpenFile**. One open file, shared by the processes that inherited it. A `read`
is the load of the offset, the test against the length, the calls of
`BlockIO::read` with `Ext2`'s `read_block` (direct, indirect, doubly indirect) one by one, and
the store of the new offset. A byte is shown as its position in the file, integers
have the width `Word`.

**Files** (checked through **MCFiles**, which holds a disk) extends `OpenFile`
with the calls that take a pathname: `open`, with `Ext2::find` part by part and the
loop over symbolic links, and `execl`, with the copy of the arguments, the clearing of
the memory, the pushes onto the new stack and `ELF::load`. The disk maps byte offsets
to i-nodes, so `get_node` is the arithmetic it is in the code; what a pathname means is
defined beside it, by the numbers of i-nodes. A pathname is the sequence of its
parts. A process that has opened a file reads it as in `OpenFile`.

**Audio** (checked through **MCAudio**, which holds the files). Each player has a
descriptor of its own, which it opens (`Open`), seeks in (`Seek`) and plays
(`PlayAudio`) as often as the bound allows; a call begins wherever the descriptor is and
leaves it where the sound ended. `PlayAudio` to
`ReadData` are `findWavHDR`, one step per chunk; the sum that a seek is given has
32 bits (`Skipped`), so it may lead back. `DivideByZero` is the division by a byte rate of 0,
which resets the machine; `FillBuffers`, `FillOne`,
`FillLast`, `Reset` and `ResetSeen` are `fillBuffers`; `Start`, `SetTarget` and `Stop`
are `play`. A cell is four bytes, so the header has eleven cells and is read at the
places the code reads it to; it begins with whatever memory held. The card is
external: it clears its reset bit some time after it was set (`ResetDone`), and is
taken to keep the address of the list and `lvi` over the reset, which `fillBuffers`
writes before it and never again. The
histories say whose call began at the start of its file (`rewound`; with a file of the
expected format the call is `Proper`), what was in the list when the card was started (`sounded`), how long
it ran (`ran`) and who used the card together with another process (`disturbed`).
What the card makes of a descriptor's `length` is not modelled, only its value. Sizes and
offsets count cells, so sizes that are not whole cells are left out; `BUFFER_SIZE` itself, 131070
bytes, ends in the middle of a cell, which no property depends on.

Definitions whose names have a suffix (`Release_Forgotten`) are mutants: a plausible bug in
the code that the named property of the named run detects. No specification uses
them.

## Runs

Bounds are constants, named in the modules.

| run | what it shows | instance |
|---|---|---|
| machine | locks: exclusion; the holder is not interrupted; `unlock` restores the flag of its own caller; the lock circulates. Boot: no two cores are on one stack; every step and every interrupt finds set up what it uses; one init is made, when all cores are ready; a described machine comes up. Disk: a read delivers the words of its sector while other cores read; the mounted file system knows every group and the root; whoever has the disk gives it back | locks: two cores, four activities, both classes. Boot: three cores; seven tables, with the entries in several orders, a processor that is not there, bytes behind the table that look like an entry, processor 0 not first; disks with blocks of two, four and eight sectors, one to three groups, the root in the second group, a table outside the disk, no drive; three cores that read at once, also beyond the end of the drive; sector numbers that use all four registers |
| threads | every thread, idle ones included, in exactly one place; `current()` right outside one protected window; the ASSERTs; the spin lock held across `block` stays on one masked core; the semaphore refines its specification | two cores, reaper and two threads, which are created, stopped, deleted and created again |
| threads_live | a ready thread runs, unless the core is with a thread that `yield` left unpreemptible | one core, reaper and two threads |
| synchronisation | `Future` and `BoundedBuffer` refine the cell and the channel; the barrier's one unit is handed on and no slot of the buffer is lost (`UnitsConserved`); a condition misses no signal and a notify wakes a waiter; nobody leaves a round early; calls return | three threads for the first, middle and last; two producers and two consumers at a ring of two; four epochs, three rounds |
| heap | tags, list and owners agree after every sequence of calls; contents survive `realloc`; a `realloc` that fails has freed the old block | an array of 20 ints, three sizes that give a minimal, a middle and a large block |
| address_space | no frame lost or shared, and every finished address space maps the devices; refinement of `Memories` | three processes, three pages in two tables, seven frames, which run out |
| processes | reference counts are exact; an exit status is kept as long as somebody may ask; blocked threads are queued at a semaphore that exists | three processes, one slot per table, one semaphore, one file |
| processes_live | a `wait` for a child that has exited returns, and every process that exits is deleted (`ExitsComplete`) | the same, without files |
| files | `open` opens what the pathname names, links followed; calls end unless links go in a circle; `exec` replaces the program wholly or not at all, and `main` finds its arguments; a process that has an open file to itself gets exactly the bytes of the file, in sequence, with the offset in bounds (`ReadsTheFile`) | a disk of eleven i-nodes with chains of links, a dangling link, a circle, good and bad programs; all paths of up to two parts; up to two arguments of up to two characters; all sizes up to 17 bytes, offsets and lengths up to 18, blocks of two bytes, two direct pointers and two per block: up to the end of the doubly indirect ones |
| audio | a process that has the card to itself and begins at the start of a file hands the card the whole sound, in order, over several lists, and leaves it the time to play it; the card is silent when nobody plays; a call that begins at the start of a file in the expected format returns, whatever another player does to the card, unless that one's rate of 0 has reset the machine | two players that play twice between them, on one descriptor or on new ones, from the start, from behind the form tag, and from where the last play or a refused seek left them; sounds that are empty, end inside a buffer, at the end of a list and at the end of a buffer of the second list; chunks before `fmt ` and before `data`; files without `fmt `, with a longer one, with a rate of 0, with a size whose sum wraps, not WAVE, cut off, and empty (the second player has one with extra chunks and the one with the rate of 0); with and without a card |

Why the bounds are enough for the cases that matter: two cores give every pair of
racing steps; two threads besides the reaper let one stop and be deleted while the
other creates its successor in the same memory; three getters or threads at a
barrier give a first, a middle and a last; arrays of about 20 ints hold up to four
blocks, so a freed block meets every combination of neighbours; the frame limits
are reached, so allocation fails and freed frames are reused; the sizes in
`OpenFile` cross every boundary of the block map. In `AddressSpace` and
`Processes`, a process that has been deleted can be created again.
In `Threads` only one thread waits while another calls `up`, so the run does not exercise
the order among several waiters; `DownAndUpImplementSemaphore` proves it. `Mortal` keeps `First` alive in `AddressSpace`: `init` ends in `shutdown`.

`CHECK_DEADLOCK FALSE` stands where the system may stop: all threads have left,
every thread waits in a monitor nobody notifies, a program ends, no core has a
thread to run, the heap is full, the kernel has panicked for lack of frames, the bound is reached.

### Runs that find a disagreement

Each of these runs checks what a comment says and finds that the code does
something else; `PROJECT.json` quotes the lines.

* `processes_fork`: `fork` with a full child table ends the caller. `Process::fork`
  returns no process, the handler passes that to `thread`, and the constructor of
  `TCB` faults on it; `sys.h` promises a negative result.
* `open_file_shared`: two processes that read an inherited file push the shared
  offset past its end, which `block_io.h` leaves to the caller to prevent.

Others, noted while modelling, have no run of their own. `configInit` goes to the next
entry of the MADT before it looks at it: the first entry is passed over and the bytes
behind the last one are examined, and processors whose flags say that they are disabled
are counted. If the count is too high, `kernelInit` waits for ever for a core that is
not there; if the first entry is not processor 0's, a core is never started.
`BootEnds` therefore speaks of tables that are `Described`. `apicInfo` has 16 places
and the walk does not count against them. `waitForDrive` looks at the error bits once;
a drive that fails after that look leaves its caller in the loop for `DRQ`, with the
lock held (the third alternative of `DiskIsGivenBack`). The constructor of `Ext2` counts
groups from block 0, so with blocks of 1024 bytes it may read one descriptor too many. The branch of `read_block`
for triply indirect blocks repeats the condition of the branch before and is never
taken, so a valid block number panics (`Panic` in `OpenFile`, which the run `files`
reaches). `play_audio` tests for "WAVE" and reports a "non-WAV audio file" only after
`findWavHDR` has found its chunks; in a file without a `fmt ` chunk, or with one of 18 or
20 bytes, the search stays at the end of the file for ever (`SkipChunk` then changes
nothing). So it does when the call does not begin at the start of the file:
`play_audio` reads the header from the descriptor's offset and leaves that behind the sound, so that a second
call on the same descriptor finds no header and does not return, nor, as a rule, does one after a
`read` or a `seek` to another place.
`PlayEnds` therefore speaks of calls that begin at the start of a file in `Wav`. A header
with a byte rate of 0 makes `play_audio` divide by zero, for which the
kernel has no handler: the machine resets. The last descriptor's `length`,
"of the buffer in samples" in `pci.h`, is computed from the sample rate and not from
the size (`Accept`, `FillLast`). Two players at once overwrite each other's buffers, which
`PlaysTheSound` excludes with `disturbed`. Further: `open` has a test for
a dangling link, but its loop has then already read through the null node and the
process has been ended (`Dangling` in `Files`); the "first-fit heap" of `heap.cc`
takes the best of the first twenty fits; `seek` beyond the end fails, and the console
has a positive length, where `sys.h` says otherwise.

### What the properties except

Six properties state what the code does with an exception written into them. They show
that nothing else goes wrong; the exception itself is a failure of the code they do not exclude:
`DiskIsGivenBack` (a drive that fails after the one look at its error bits), `ReadyRuns` (threads starve
behind one that `yield` has made unpreemptible), `OpensWhatIsNamed` and `PathCallsEnd` (a
dangling link ends the process, a circle of links the progress), `BootEnds` (only tables
that are `Described`) and `PlayEnds` (only calls from the start of a file, and no
rate of 0). `ReadsTheFile` is about a process that has the file to itself and
`PlaysTheSound` about one that has the card to itself; what sharing does to the first is the run
`open_file_shared`, to the second nothing is promised.

### Fairness

* `Locks`: strong fairness of each activity's lock steps. The timer is periodic
  (`Pit::init`), so an interrupted thread is interrupted again and again but always
  resumes, and a waiter retries for ever.
* `Boot`: weak fairness of each core that has been started, which executes with
  interrupts masked or with an idle thread, and of the drive, which ends every command
  with data or an error. Nobody is obliged to read, and no reader that waits for the
  lock of the disk is sure to get it.
* `Threads`: weak fairness of kernel steps, of the reaper's `yield` and the idle
  threads' `stop` (endless loops in the code), strong fairness of the timer, as the
  local APIC keeps an interrupt pending while the flag is clear. Nothing is assumed
  about other threads: they may compute for ever.
* `Synchronisation`: weak fairness of the steps of a call in progress, which
  `ReadyRuns` justifies as long as the running threads are preemptible or block.
  Nobody is obliged to call `put`; consumers of the buffer keep coming back, and
  barrier parties arrive.
* `Files`: weak fairness of the steps of a call in progress, for the same reason.
* `Audio`: weak fairness of a player's steps in its call, of the timer and of the card's
  reset. System calls enter through a trap gate, so interrupts stay enabled while
  `play` and `fillBuffers` wait, and jiffies advance even on core 0. Ticks nobody waits
  for are left out.
* `Processes`: weak fairness of the steps of a system call in progress and of the
  reaper, but not of the return of calls that use a file, as `play_audio` need not
  return. Nobody is obliged to make a system call.

`ReadyRuns` carries its exception openly: `block` with `CanReturn` returns on an
empty ready queue without clearing `no_preempt` (`threads.h`, line 102), so a thread
that was alone at its last tick is not preempted until it blocks or yields again.

## Proofs

Every module `XProofs` extends the module or the composition it is about. Its theorems hold
for all values of the constants that the named assumptions allow. Each rests on one
inductive invariant per component: the initial states satisfy it (a lemma that ends in
`Keeps`, `Starts` or `Initially`), every action preserves it (one lemma per action),
and it implies the property. TLC had checked each invariant on the instance of the
run before it was proved.

| module | theorem | what it states |
|---|---|---|
| SynchronisationProofs | `NoSignalIsMissed`, `NotifyWakes` | `NoMissedSignal`, `SignalsWake` for any threads |
| | `UnitsAreConserved`, `BarriersHold` | `UnitsConserved`, `NobodyLeavesEarly` for any threads and sizes |
| | `BufferRefinesChannel`, `FutureRefinesWriteOnce` | the refinements `BufferIsChannel`, `FutureIsWriteOnce` |
| ThreadsProofs | `ThreadsInOnePlace`, `CurrentIsExecuting`, `AssertsAlwaysHold`, `LockIsKeptAcrossBlock` | `OnePlace`, `CurrentExecutes`, `AssertsHold`, `LockedAcrossBlock` for any cores, threads and semaphores |
| | `DownAndUpImplementSemaphore` | the refinement `ImplementsSemaphore` |
| MachineProofs | `LockSafety`, `HoldersAreMasked`, `FlagIsRestored` | `MutualExclusion`, `HolderIsMasked`, `RestoresCallersFlag` for any set of cores and both lock classes |
| | `StacksAreApart`, `SetUpsComeFirst`, `InitIsMadeLast` | `StacksApart`, `SetUpBeforeUse`, `InitMadeLast` for any cores and tables |
| | `ReadsAreWhole`, `TheDiskIsMounted` | `ReadsTheSector`, `MountsTheDisk` for any disk whose sectors can be addressed |
| HeapProofs | `HeapStaysConsistent`, `OwnersKeepTheirBytes` | `HeapConsistent`, `PayloadIntact` for arrays of any length, any sizes and any sequence of calls |
| AddressSpaceProofs | `FramesAreConserved` | `FramesConserved` for any processes, pages and frames |
| | `MemoriesAreImplemented` | the refinement `ImplementsMemories` |
| ProcessesProofs | `ReferencesAreExact`, `StatusesAreKept`, `QueuesHoldTheBlocked` | `RefsExact`, `ExitStatusKept`, `BlockedAreQueued` for any processes and objects and tables of any size |
| FilesProofs | `ReadsDeliverTheFile` | no read delivers a wrong byte, however many processes share the offset |
| | `FilesAreRead` | `ReadsTheFile` for files, blocks and reads of any size |
| | `OpenFindsTheFile`, `ExecIsAllOrNothing`, `MainFindsArguments` | `OpensWhatIsNamed`, `ExecReplacesWhole`, `ArgumentsOnStack` for any disk, pathnames and arguments |
| AudioProofs | `CardIsSilenced` | `StopsPlaying` for any players |
| | `ListsHoldTheSound`, `TheSoundIsPlayed` | the two halves of `PlaysTheSound` for any files, buffers and players, however often they play and seek |

**Locks.** `RestoresCallersFlag` is not inductive. The invariant adds: `taken` is true exactly
when somebody holds the lock (`TakenInv`); an activity at a masked label is the
one its core executes, with the flag clear (`MaskInv`); and at every label the
caller's flag is in a known place, for `InterruptSafeLock` in `was` only while the
holder is inside (`FlagInv`). The last is the answer to the comment "Is this
correct?" in `atomic.h`: `was` is written after the exchange and read before
`taken` is cleared, so only the holder touches it.

**Condition.** What is added is `QueueInv`: the queue holds exactly the queued
threads, each once; without it a thread that `notify` has taken from the queue
could still be in it. `DequeueReadies` is the lemma about the loop of `notify`.

**Synchronisation.** One invariant per class. `BarrierInv` and `FutureInv` follow the one
unit of the semaphore; `BufferInv` adds to the account of the slots (`SlotInv`) that one user
at most is inside the lock (`LockInv`) and that what it has read or stored is still so
(`ItemInv`), which the lost update of `n++` would break. `RoundInv` ties `count` and
the rounds of `ReusableBarrier` to the number of returns. All of them need that a
line of waiting threads holds exactly those that wait, once each (`Line`). For the
refinements every step is shown to be a step of the abstract module or a stutter.

**Threads.** `OnePlace` depends on where a thread is in `block`, `up` or `thread`
(`Local`), on what its core then does (`CoreInv`) and on what a thread that nobody
executes left on its stack (`PlaceInv`). With that, the protected window of `block`, the
ASSERTs and the lock kept over the switch are consequences, and `down` and `up` map to
one step each of `Semaphore`, whose line is first come, first served.

**Boot, Ide, Mount.** `BootInv` says how far the boot processor is and that the cores
below `nextId` have arrived, one at a time, whose number is `howManyAreHere`;
so the core that finds all of them arrived is the last. `IdeInv` says, per core, which
registers hold its sector, and that words it has stored and words still in the drive
make up the sector. `MountInv` says at each of the reads of the constructor what the
fields of `Ext2` already are. `ReadsAreWhole` and `TheDiskIsMounted` carry a hypothesis,
`AllAddressable`: the sectors asked for fit into the 28 bits of the registers, a
limit `ide.cc` does not check (beyond it a read delivers another sector).

**AddressSpace.** The invariant gives each frame one owner (`Owned`): the free list, a
directory, an entry, or the hands of one fault or one copy; `Holding`, `Mapped`,
`Faulting` and `Forking` say what each process has in its hands at each label.
`FramesConserved` needs the second part because freeing walks through tables that
are half taken apart. For the refinement a process's memory is read through the
tables, and the frames a fault or a fork has in hand already hold what the abstract
step will show.

**Heap.** `HeapConsistent` is stated with walks: from header to header, and along the
links. Neither says anything while a block is between two lists, and a walk that has
gone wrong says nothing about the array. The invariant (`Owns`, with `HeapInv`) speaks instead of the set
of headers (`Tiles`) and of an order of the available ones that the next and prev links
both follow (`Chain`); `BlocksAre` and `AvailListIs` then say that the walks find exactly
these. `RemoveIs`, `MakeTakenIs` and `MakeAvailIs` are what the operations on the list
and the tags do, each with the words it leaves alone (`Same`). `malloc` splits a block
and `free` merges up to three: `Recut` and `StaysCoalesced` treat both as some
neighbouring blocks replaced by one or two over the same words. The contents of an owner
survive because a word of a taken block is neither a link nor a tag of another
(`WordsOfBlocks`), and `realloc` is an allotment, a copy, a `free` and a fill, each of which keeps
`Owns`, the copy although `memcpy` may reach past the old payload. `ChosenIs` needs
nothing of the order of the list, so first fit and best of twenty are proved at once.

**OpenFile, Files.** `ReadInv` says what is in the buffer at each step of `read_all` and
which block comes next; it holds whoever else moves the offset, which gives
`ReadsDeliverTheFile`. `ReadsTheFile` is about the offset as well, so `FilesAreRead`
supposes that a process has the file to itself (`Alone`; the run `open_file_shared`
shows that it fails otherwise). `FindInv` says that `find` is on the walk along the name or along the target
of a link on the chain that the name begins; `Named` and `Resolved` are defined by recursion
over the parts and over the links, so that they are what they are meant to be comes first
(`Recursion`), and that the chain of links reaches its end within as many steps as
there are i-nodes is the pigeonhole principle. `ExecInv` follows `execl` past its point
of no return. `StackInv` says which strings are pushed and that they lie above the
stack pointer, apart from each other; `MainFindsArguments` carries the hypothesis
`ArgumentsFit`, that they and the pointers to them fit below the top of the stack,
which `sys.cc` does not check.

**Recursion.** Where a definition is a recursive function (the walks of the heap, the
names of `Files`), its proofs use `LeastNumber`: a set of numbers that is not empty has a
least one. It is proved from the cardinality of finite sets, and with the set of
counterexamples in its place it does what an induction theorem does that takes a
predicate. The lemmas stand in both modules, `HeapProofs` and `FilesProofs`, as these extend
different specifications.

**Processes.** The counts alone are not inductive. What an action does to one depends on
what the slot or the local variable held (`HandleKinds`), on a child of `fork` being new (`Starting`,
`GoneIsEmpty`) and on its one parent (`OneParent`). `ExitStatusKept` holds because the
count of the status is right; `BlockedAreQueued` needs that a queue lists the blocked
processes once each (`Queued`).

**Audio.** That the lists given to the card were the sound depends on what is in a list
when it starts (`Filling`), on the offset it was read from (`Reading`), on where the search
for the header ended (`Searching`) and on nobody else filling the list (`Exclusive`);
what was played is the first part of the sound (`Sounding`). `Timed` is the account of
the time: each list lasts at least its cells, less one jiffy. `TheSoundIsPlayed` carries
a hypothesis, `TimesFit`: the timer does not wrap during the play, and the remainder of a
second times 1000 fits into 32 bits, neither of which the code checks.
`ListsHoldTheSound` and `CardIsSilenced` do not need it.

Assumptions on constants are named after their modules; TLC evaluates them in the runs.
Beyond types and distinct names they say: there is a reaper and some other thread
(`ThreadsAssumption`); cores are numbered from 0, and the table of processors has an
entry behind the first (`BootAssumption`); a disk is as `mkfs` writes it (`IsDisk`,
whose last conjunct is what powers of two do, since the provers know no exponentiation);
the page tables of the APICs fit into memory (`AddressSpaceAssumption`: without it the
boot itself fails); processes are finitely many (`ProcessesAssumption`); the heap has at least eight ints, a
request does not come so near the end of `size_t` that its rounding wraps, and an owner's tag
is none of the heap's own numbers (`HeapAssumption`, `OwnersAssumption`); an i-node is
where its number says, and no directory has a name twice (`DiskAssumption`); a `.wav` file of
the expected format is chunk behind chunk (`IsWav`) and a `fmt ` chunk fits into the header
(`AudioAssumption`: a longer one is written behind it), and files are shorter than 2^32. `AllAddressable` and `TimesFit` hold
in every state of the instances of the runs, `ArgumentsFit` in the instance of `files`.

Only model-checked: liveness, which the provers cannot do. That is `LockCirculates`,
`DiskIsGivenBack`, `BootEnds`, `ReadyRuns`, `CallsReturn`, `ExitsComplete`, `PathCallsEnd`
and `PlayEnds`. Every safety property of the passing runs is a theorem.

## Not modelled, and the plan

What remains: `ReadyRuns` on two cores as a run. It holds, but takes close to five
minutes. The checks of user pointers, and page faults inside a system call, would be the next to model.

Left out inside the parts that are modelled:

* Page faults in kernel mode during a system call. One below 0x80000000 stops the thread
  (`vmm.cc`, line 188) with its local `Shared<>` still on the stack, so the reference is
  never dropped: `RefsExact` holds for calls that do not fault.
* Of `execl`, the pointer checks and the panic for too many arguments (`sys.cc`, lines 240 to
  267). `LoadSegment` counts segments: the result of `read_all` (`elf.cc`, line 53) is ignored, so a
  segment whose bytes are cut off counts as loaded, in the model as in the code, and a file cut off inside its
  program headers, which stops at an ASSERT, is left out.
* Holes in files: the ASSERT of `read_block` (`ext2.cc`, line 142) compares a block's index
  with the sectors the file occupies, so a sparse file panics; files here have all their blocks.
* Parts of a pathname with more than 256 characters, which the ASSERT in `find` stops (`ext2.h`, line 270).
* In `Mount`, the super block is read as two sectors of words where the code reads 140 bytes; the
  offset of an i-node has 32 bits in the code (`ext2.cc`, line 105), which the disks of the run do not exceed, and
  the ASSERTs of `get_node` hold for the numbers it is called with.

Left out for good: the serial console, `snprintf`/`printf` and debug output
(formatting), the real-mode loader of `mbr.S`, the search for the ACPI tables, the
calibration loop of the timer and the descriptor tables (straight-line set-up), `SpinLock`, `NoLock` and the
stream classes (unused), and the user programs (sequential callers of the system
calls). The programs of `AddressSpace` do not themselves
touch the four megabytes of the APICs, whose page table `map` gives to the kernel
only: such a fault would map a new frame over the old entry, lose a frame and fault
again (a hazard noted in `PROJECT.json`). `Audio`'s jiffies do not reach
the bound at which they would wrap.
