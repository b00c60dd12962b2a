-------------------------------- MODULE Boot --------------------------------
(***************************************************************************)
(* From reset to the first process: the entry of mbr.S, kernelInit and     *)
(* pickKernelStack of kernel/init.cc, configInit of config.cc, SMP of      *)
(* smp.cc and smp.h, and what each core sets up for itself in vmm.cc and   *)
(* pit.cc.  Core 0 is the boot processor.  The others are off until it     *)
(* sends them an INIT and a STARTUP interrupt, and begin at resetEIP like  *)
(* it did; smpInitDone tells them apart.                                   *)
(*                                                                         *)
(* The global constructors mount the disk (module Mount).  When init runs, *)
(* the threads of every core read it.                                      *)
(***************************************************************************)
EXTENDS Mount, FiniteSets

CONSTANT Hardware   \* the machines: their MADT, disk, and whether it is there

ASSUME BootAssumption ==
    /\ IsFiniteSet(Cpu) /\ Boot \in Cpu /\ Cpu = 0..Cardinality(Cpu) - 1
    /\ Hardware # {}
    /\ \A h \in Hardware :
           /\ h.madt \in Seq([type : Nat, processor : Nat, address : Nat])
           /\ Len(h.madt) > 1 /\ h.drive \in BOOLEAN
           /\ IsDisk(h.disk)

VARIABLES
    madt,               \* the entries of the table, and what is behind it
    config,             \* kConfig
    bootAt,             \* where each core is
    stackOf,            \* the stack it is on: that of a core, tempStack, or None
    step, done,         \* the boot processor's next set-up, and those done
    running, nextId,    \* SMP::running, and kernelInit's variable id
    howManyAreHere,
    init                \* the init processes made, and whether one runs

booting == <<madt, config, bootAt, stackOf, step, done, running, nextId,
             howManyAreHere, init>>
machine == <<ide, mounting, booting>>

-----------------------------------------------------------------------------
(* configInit                                                              *)

(* An entry is the local APIC of a processor, which may be disabled, an    *)
(* I/O APIC, or of another type.                                           *)
IsCore(e) == e.type = 0
IsIoApic(e) == e.type = 1

(* The walk goes to the next entry before it looks, so that it never looks *)
(* at the first and ends with the bytes behind the table.                  *)
Examined(table) == Tail(table)

(* Mutant: the boot processor is not added.                                *)
TotalProcs_Others(table) ==
    Cardinality({i \in DOMAIN Examined(table) :
                    IsCore(Examined(table)[i]) /\ Examined(table)[i].processor # 0})

(* totalProcs: those examined, without processor 0, and the boot processor.*)
TotalProcs(table) ==
    1 + Cardinality({i \in DOMAIN Examined(table) :
                        IsCore(Examined(table)[i]) /\ Examined(table)[i].processor # 0})

(* ioAPIC: the address in the last entry for one.                          *)
IoApic(table) ==
    LET I == {i \in DOMAIN Examined(table) : IsIoApic(Examined(table)[i])}
    IN  IF I = {} THEN 0
        ELSE Examined(table)[CHOOSE i \in I : \A j \in I : j <= i].address

-----------------------------------------------------------------------------

(* Mutant: the global constructors where the comment in kernelInit still   *)
(* has them, before VMM::global_init.                                      *)
SetUps_ConstructorsFirst ==
    <<"configInit", "heapInit", "PhysMem", "CRT", "VMM", "SYS", "threadsInit", "SMP",
      "smpInitDone", "AC97", "calibrate", "running">>

(* What kernelInit does on the boot processor, in its order; IDT::init is  *)
(* empty.                                                                  *)
SetUps ==
    <<"configInit", "heapInit", "PhysMem", "VMM", "CRT", "SYS", "threadsInit", "SMP",
      "smpInitDone", "AC97", "calibrate", "running">>

tempStack == Cardinality(Cpu)   \* the stack that is no core's

smpInitDone == "smpInitDone" \in done

BootInit(h) ==
    /\ madt = h.madt /\ disk = h.disk
    /\ IdeInit(h.drive)
    /\ MountInit
    /\ config = [totalProcs |-> 0, ioAPIC |-> 0]
    /\ bootAt = [c \in Cpu |-> IF c = Boot THEN "entry" ELSE "off"]
    /\ stackOf = [c \in Cpu |-> IF c = Boot THEN tempStack ELSE None]
    /\ step = 1 /\ done = {}
    /\ running = 0 /\ nextId = 1 /\ howManyAreHere = 0
    /\ init = [made |-> 0, runs |-> FALSE]

Moves(c, from, to) ==
    /\ ~stopped
    /\ bootAt[c] = from
    /\ bootAt' = [bootAt EXCEPT ![c] = to]

others == <<ide, mounting, madt>>

(* A step that matters to the core alone.                                  *)
Alone(c, from, to) ==
    /\ Moves(c, from, to)
    /\ UNCHANGED <<others, config, stackOf, step, done, running, nextId, howManyAreHere, init>>

(* call pickKernelStack, on tempStack, and the change to what it returns.  *)
PickKernelStack(c) ==
    /\ Moves(c, "entry", "kernelInit")
    /\ stackOf' = [stackOf EXCEPT ![c] = IF smpInitDone THEN c ELSE Boot]
    /\ UNCHANGED <<others, config, step, done, running, nextId, howManyAreHere, init>>

(* if (!smpInitDone)                                                       *)
KernelInit(c) == Alone(c, "kernelInit", IF smpInitDone THEN "count" ELSE "setUp")

(* The next of SetUps.  CRT::init mounts the disk, and ends when that has. *)
SetUp(c) ==
    LET what == SetUps[step] IN
    /\ what = "CRT" => mount = "mounted"
    /\ Moves(c, "setUp", IF step = Len(SetUps) THEN "start" ELSE "setUp")
    /\ step' = IF step = Len(SetUps) THEN step ELSE step + 1
    /\ done' = done \cup {what}
    /\ config' = IF what = "configInit"
                     THEN [totalProcs |-> TotalProcs(madt), ioAPIC |-> IoApic(madt)]
                     ELSE config
    /\ running' = IF what = "running" THEN running + 1 ELSE running
    /\ UNCHANGED <<others, stackOf, nextId, howManyAreHere, init>>

(* The constructor of root_fs.                                             *)
Constructors ==
    /\ bootAt[Boot] = "setUp" /\ SetUps[step] = "CRT"
    /\ StartMount \/ MountStep
    /\ UNCHANGED booting

(* Two ipis, INIT and STARTUP, to core nextId, if there is one.            *)
StartCore(c) ==
    /\ nextId < config.totalProcs
    /\ ~stopped /\ bootAt[c] = "start"
    /\ bootAt' = [d \in Cpu |-> IF d = c THEN "await"
                                ELSE IF d = nextId THEN "entry" ELSE bootAt[d]]
    /\ stackOf' = [d \in Cpu |-> IF d = nextId /\ d # c THEN tempStack ELSE stackOf[d]]
    /\ UNCHANGED <<others, config, step, done, running, nextId, howManyAreHere, init>>

(* Mutant: the boot processor does not wait for the core it has started.   *)
Await_Impatient(c) ==
    /\ Moves(c, "await", "start")
    /\ nextId' = nextId + 1
    /\ UNCHANGED <<others, config, stackOf, step, done, running, howManyAreHere, init>>

(* while (SMP::running <= id);                                             *)
Await(c) ==
    /\ running > nextId
    /\ Moves(c, "await", "start")
    /\ nextId' = nextId + 1
    /\ UNCHANGED <<others, config, stackOf, step, done, running, howManyAreHere, init>>

AllStarted(c) == nextId >= config.totalProcs /\ Alone(c, "start", "per_core_init")

(* Another core: SMP::running.fetch_add(1), and SMP::init(false).          *)
Count(c) ==
    /\ Moves(c, "count", "lapic")
    /\ running' = running + 1
    /\ UNCHANGED <<others, config, stackOf, step, done, nextId, howManyAreHere, init>>

LocalApic(c) == Alone(c, "lapic", "per_core_init")

(* VMM::per_core_init: paging on, with the page directory of the process   *)
(* of the core's idle thread.                                              *)
PerCoreInit(c) == Alone(c, "per_core_init", "pit")

(* Pit::init panics if apitCounter == 0, and starts the core's timer.      *)
PitInit(c) ==
    /\ Moves(c, "pit", "sti")
    /\ stopped' = ("calibrate" \notin done)
    /\ UNCHANGED <<ideLock, at, port, sector, buffer, reg, status, fifo, mounting, madt,
                   config, stackOf, step, done, running, nextId, howManyAreHere, init>>

(* The task state segment, and sti(): from here the timer interrupts.  The *)
(* idle thread is active, so apitHandler returns at once.                  *)
Sti(c) == Alone(c, "sti", "here")

(* Mutant: the last but one makes the process, and the last another.       *)
Last_OffByOne(order) == order + 1 >= config.totalProcs

(* myOrder == kConfig.totalProcs                                           *)
Last(order) == order = config.totalProcs

(* howManyAreHere.add_fetch(1)                                             *)
Arrive(c) ==
    /\ Moves(c, "here", IF Last(howManyAreHere + 1) THEN "make" ELSE "stop")
    /\ howManyAreHere' = howManyAreHere + 1
    /\ UNCHANGED <<others, config, stackOf, step, done, running, nextId, init>>

(* thread(initProc, ...) puts the first process into readyQ.               *)
MakeInit(c) ==
    /\ Moves(c, "make", "stop")
    /\ init' = [init EXCEPT !.made = @ + 1]
    /\ UNCHANGED <<others, config, stackOf, step, done, running, nextId, howManyAreHere>>

(* stop() of an idle thread runs what is ready; kernelMain begins.         *)
RunInit(c) ==
    /\ init.made > 0 /\ ~init.runs
    /\ Moves(c, "stop", "stop")
    /\ init' = [init EXCEPT !.runs = TRUE]
    /\ UNCHANGED <<others, config, stackOf, step, done, running, nextId, howManyAreHere>>

(* The thread a core runs reads the disk.                                  *)
ThreadReads(c) ==
    /\ init.runs /\ bootAt[c] = "stop"
    /\ (\E s \in disk.wanted : AskSector(c, s)) \/ Consumed(c)
    /\ UNCHANGED <<mounting, booting>>

DiskStep(c) == ReadStep(c) /\ UNCHANGED <<mounting, booting>>
Drive == DriveStep /\ UNCHANGED <<mounting, booting>>

BootStep(c) ==
    \/ PickKernelStack(c) \/ KernelInit(c) \/ SetUp(c)
    \/ StartCore(c) \/ Await(c) \/ AllStarted(c)
    \/ Count(c) \/ LocalApic(c) \/ PerCoreInit(c) \/ PitInit(c) \/ Sti(c)
    \/ Arrive(c) \/ MakeInit(c) \/ RunInit(c)

(* What a core executes next, unless it is up to a thread.                 *)
CoreStep(c) == BootStep(c) \/ DiskStep(c) \/ (c = Boot /\ Constructors)

BootNext ==
    \/ \E c \in Cpu : CoreStep(c) \/ ThreadReads(c)
    \/ Drive

-----------------------------------------------------------------------------

(* No two cores are ever on one stack, although every one begins on the    *)
(* same tempStack and pickKernelStack looks at a flag another core sets.   *)
StacksApart ==
    \A c, d \in Cpu : stackOf[c] = stackOf[d] /\ stackOf[c] # None => c = d

(* What an operation finds set up: VMM::global_init allocates frames below *)
(* memSize; the constructors allocate, read the disk and make the page     *)
(* directory of kernelProcess, whose threads threadsInit makes; they also  *)
(* reset SMP's pointers and counts; the timer of every core calls          *)
(* apitHandler, which reads the local APIC and activeThreads.              *)
Needs(what) ==
    CASE what = "PhysMem" -> {"configInit"}
      [] what = "VMM" -> {"configInit", "PhysMem"}
      [] what = "CRT" -> {"heapInit", "VMM"}
      [] what = "threadsInit" -> {"configInit", "heapInit", "CRT"}
      [] what = "SMP" -> {"configInit", "CRT"}
      [] what = "calibrate" -> {"heapInit", "SMP"}
      [] what = "running" -> {"CRT"}
      [] what \in {"start", "await"} -> {"smpInitDone", "SMP"}
      [] what \in {"entry", "count"} -> {"SMP", "CRT"}
      [] what = "lapic" -> {"SMP"}
      [] what = "per_core_init" -> {"SMP", "threadsInit", "CRT"}
      [] what = "pit" -> {"SMP", "calibrate"}
      [] what \in {"here", "make", "stop"} -> {"SMP", "threadsInit", "calibrate", "SYS"}
      [] OTHER -> {}

(* Whatever a core does, and whatever interrupts it, what that uses has    *)
(* been set up, by this core or by the boot processor.                     *)
SetUpBeforeUse ==
    \A c \in Cpu :
        LET what == IF bootAt[c] = "setUp" THEN SetUps[step] ELSE bootAt[c]
        IN  (c = Boot /\ what = "entry") \/ Needs(what) \subseteq done

(* One process init is made, and when every core the kernel counts is      *)
(* ready for threads: has its paging, its timer and its interrupts on.     *)
InitMadeLast ==
    /\ init.made <= 1
    /\ (init.made = 1 \/ \E c \in Cpu : bootAt[c] = "make") =>
           0..config.totalProcs - 1 \subseteq {c \in Cpu : bootAt[c] \in {"make", "stop"}}

(* The table describes the machine: processor 0 first, then an entry for   *)
(* every other core and for no more, and behind it nothing like an entry.  *)
Described ==
    LET n == Len(madt) - 1
        cores == {i \in 1..n : IsCore(madt[i])}
    IN  /\ IsCore(madt[1]) /\ madt[1].processor = 0
        /\ {madt[i].processor : i \in cores} = Cpu
        /\ Cardinality(cores) = Cardinality(Cpu)
        /\ ~IsCore(madt[n + 1])

(* The i-node tables are on the disk, as get_node asserts.                 *)
SoundDisk == \A g \in 1..DiskGroups : disk.iNodeTables[g] <= disk.blocks

(* Every machine whose table describes it, with a drive and a sound disk,  *)
(* comes up: all its cores wait for threads, and init runs.                *)
BootEnds ==
    Described /\ SoundDisk /\ status # {}
        ~> init.runs /\ \A c \in Cpu : bootAt[c] = "stop"
=============================================================================
