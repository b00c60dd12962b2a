--------------------------- MODULE MachineProofs ---------------------------
(***************************************************************************)
(* The locks, the boot, the disk and the mount of module Machine, for any  *)
(* number of cores, any table of processors and any disk.                  *)
(*                                                                         *)
(* InterruptSafeLock and ISL give mutual exclusion, keep their holder's    *)
(* core masked, and restore the interrupt flag their caller had.           *)
(*                                                                         *)
(* BootInv is inductive by itself and so is IdeInv; MountInv needs both,   *)
(* since the constructor reads through the driver on the boot processor.   *)
(***************************************************************************)
EXTENDS Machine, FiniteSetTheorems, SequenceTheorems, TLAPS

-----------------------------------------------------------------------------
(* The locks                                                               *)

(* The labels at which lock() or unlock() runs with interrupts masked.     *)
Masked(a) == pc[a] \in {"exchange", "stuck", "remember", "inside",
                        "unlock", "restore"}

(* taken says whether there is a holder, and there is at most one.         *)
TakenInv ==
    /\ taken <=> \E a \in Activity : Holding(a)
    /\ MutualExclusion

(* A masked activity is the one its core executes, with the flag clear; a  *)
(* handler runs with the flag clear from its entry to its iret.            *)
MaskInv ==
    \A c \in Core :
        /\ \A l \in Level : Masked(<<c, l>>) => c \notin enabled /\ Executing(c, l)
        /\ c \in handling => c \notin enabled
        /\ c \notin handling => pc[<<c, "handler">>] = "out"

(* Where the caller's flag is to be found at each label.                   *)
FlagAt(c, l) ==
    /\ pc[<<c, l>>] = "lock" /\ Executing(c, l) =>
          (<<c, l>> \in entered <=> c \in enabled)
    /\ pc[<<c, l>>] = "lock" /\ ~Executing(c, l) => <<c, l>> \in entered
    /\ pc[<<c, l>>] \in {"exchange", "stuck", "remember", "unlock", "restore"} =>
          (<<c, l>> \in wasDisabled <=> <<c, l>> \notin entered)
    /\ pc[<<c, l>>] = "inside" /\ kind = "ISL" =>
          (<<c, l>> \in wasDisabled <=> <<c, l>> \notin entered)
    /\ pc[<<c, l>>] = "inside" /\ kind = "InterruptSafeLock" =>
          (was <=> <<c, l>> \notin entered)
    /\ l = "handler" /\ pc[<<c, l>>] # "out" => <<c, l>> \notin entered

FlagInv == \A c \in Core, l \in Level : FlagAt(c, l)

IInv == TypeOK /\ TakenInv /\ MaskInv /\ FlagInv

-----------------------------------------------------------------------------

(* The constructor's state satisfies the invariant.                        *)
LEMMA InitIInv == Init => IInv
<1> SUFFICES ASSUME Init PROVE IInv
  OBVIOUS
<1>1. TypeOK
  BY DEF Init, TypeOK, Kind, Activity, Level, Label
<1>2. TakenInv
  BY DEF Init, TakenInv, MutualExclusion, Holding, Activity, Level
<1>3. MaskInv
  BY DEF Init, MaskInv, Masked, Executing, Activity, Level
<1>4. FlagInv
  BY DEF Init, FlagInv, FlagAt, Activity, Level
<1>5. QED
  BY <1>1, <1>2, <1>3, <1>4 DEF IInv

(* Every step of lock(), unlock() and the interrupt entry and exit keeps   *)
(* it.                                                                     *)
LEMMA NextIInv == IInv /\ [Next]_vars => IInv'
<1> SUFFICES ASSUME IInv, [Next]_vars PROVE IInv'
  OBVIOUS
<1> USE DEF IInv, TypeOK, Activity, Level, Label, Kind, Assign
<1>1. ASSUME NEW c \in Core, NEW l \in Level, Call(c, l) PROVE IInv'
  <2> USE <1>1 DEF Call, At, Goto
  <2>1. TypeOK'  OBVIOUS
  <2>2. TakenInv'  BY DEF TakenInv, MutualExclusion, Holding
  <2>3. MaskInv'  BY DEF MaskInv, Masked, Executing
  <2>4. ASSUME NEW d \in Core, NEW m \in Level PROVE FlagAt(d, m)'
    <3>1. CASE d = c /\ m = l  BY <3>1 DEF FlagInv, FlagAt, MaskInv, Masked, Executing
    <3>2. CASE d = c /\ m # l  BY <3>2 DEF FlagInv, FlagAt, MaskInv, Masked, Executing
    <3>3. CASE d # c  BY <3>3 DEF FlagInv, FlagAt, MaskInv, Masked, Executing
    <3>4. QED BY <3>1, <3>2, <3>3
  <2>5. QED BY <2>1, <2>2, <2>3, <2>4 DEF FlagInv
<1>2. ASSUME NEW c \in Core, NEW l \in Level, Disable(c, l) PROVE IInv'
  <2> USE <1>2 DEF Disable, At, Goto
  <2>1. TypeOK'  OBVIOUS
  <2>2. TakenInv'  BY DEF TakenInv, MutualExclusion, Holding
  <2>3. MaskInv'  BY DEF MaskInv, Masked, Executing
  <2>4. ASSUME NEW d \in Core, NEW m \in Level PROVE FlagAt(d, m)'
    <3>1. CASE d = c /\ m = l  BY <3>1 DEF FlagInv, FlagAt, MaskInv, Masked, Executing
    <3>2. CASE d = c /\ m # l  BY <3>2 DEF FlagInv, FlagAt, MaskInv, Masked, Executing
    <3>3. CASE d # c  BY <3>3 DEF FlagInv, FlagAt, MaskInv, Masked, Executing
    <3>4. QED BY <3>1, <3>2, <3>3
  <2>5. QED BY <2>1, <2>2, <2>3, <2>4 DEF FlagInv
<1>3. ASSUME NEW c \in Core, NEW l \in Level, Exchange(c, l) PROVE IInv'
  <2> USE <1>3 DEF Exchange, At, Goto
  <2>1. TypeOK'  OBVIOUS
  <2>2. TakenInv'  BY DEF TakenInv, MutualExclusion, Holding
  <2>3. MaskInv'  BY DEF MaskInv, Masked, Executing
  <2>4. ASSUME NEW d \in Core, NEW m \in Level PROVE FlagAt(d, m)'
    <3>1. CASE d = c /\ m = l  BY <3>1 DEF FlagInv, FlagAt, MaskInv, Masked, Executing
    <3>2. CASE d = c /\ m # l  BY <3>2 DEF FlagInv, FlagAt, MaskInv, Masked, Executing
    <3>3. CASE d # c
      <4>1. pc'[<<d, m>>] = pc[<<d, m>>]  BY <3>3
      <4>2. FlagAt(d, m)  BY DEF FlagInv
      <4>3. QED BY <4>1, <4>2 DEF FlagAt, Executing
    <3>4. QED BY <3>1, <3>2, <3>3
  <2>5. QED BY <2>1, <2>2, <2>3, <2>4 DEF FlagInv
<1>4. ASSUME NEW c \in Core, NEW l \in Level, Stuck(c, l) PROVE IInv'
  <2> USE <1>4 DEF Stuck, At, Goto
  <2>1. TypeOK'  OBVIOUS
  <2>2. TakenInv'  BY DEF TakenInv, MutualExclusion, Holding
  <2>3. MaskInv'  BY DEF MaskInv, FlagInv, FlagAt, Masked, Executing
  <2>4. ASSUME NEW d \in Core, NEW m \in Level PROVE FlagAt(d, m)'
    <3>1. CASE d = c /\ m = l  BY <3>1 DEF FlagInv, FlagAt, MaskInv, Masked, Executing
    <3>2. CASE d = c /\ m # l  BY <3>2 DEF FlagInv, FlagAt, MaskInv, Masked, Executing
    <3>3. CASE d # c  BY <3>3 DEF FlagInv, FlagAt, MaskInv, Masked, Executing
    <3>4. QED BY <3>1, <3>2, <3>3
  <2>5. QED BY <2>1, <2>2, <2>3, <2>4 DEF FlagInv
<1>5. ASSUME NEW c \in Core, NEW l \in Level, Remember(c, l) PROVE IInv'
  <2> USE <1>5 DEF Remember, At, Goto
  <2>1. TypeOK'  OBVIOUS
  <2>2. TakenInv'  BY DEF TakenInv, MutualExclusion, Holding
  <2>3. MaskInv'  BY DEF MaskInv, Masked, Executing
  <2>4. ASSUME NEW d \in Core, NEW m \in Level PROVE FlagAt(d, m)'
    <3>1. CASE d = c /\ m = l  BY <3>1 DEF FlagInv, FlagAt, TakenInv, MutualExclusion, Holding, Executing
    <3>2. CASE d = c /\ m # l  BY <3>2 DEF FlagInv, FlagAt, TakenInv, MutualExclusion, Holding, Executing
    <3>3. CASE d # c  BY <3>3 DEF FlagInv, FlagAt, TakenInv, MutualExclusion, Holding, Executing
    <3>4. QED BY <3>1, <3>2, <3>3
  <2>5. QED BY <2>1, <2>2, <2>3, <2>4 DEF FlagInv
<1>6. ASSUME NEW c \in Core, NEW l \in Level, Unlock(c, l) PROVE IInv'
  <2> USE <1>6 DEF Unlock, At, Goto
  <2>1. TypeOK'  OBVIOUS
  <2>2. TakenInv'  BY DEF TakenInv, MutualExclusion, Holding
  <2>3. MaskInv'  BY DEF MaskInv, Masked, Executing
  <2>4. ASSUME NEW d \in Core, NEW m \in Level PROVE FlagAt(d, m)'
    <3>1. CASE d = c /\ m = l  BY <3>1 DEF FlagInv, FlagAt, MaskInv, Masked, Executing
    <3>2. CASE d = c /\ m # l  BY <3>2 DEF FlagInv, FlagAt, MaskInv, Masked, Executing
    <3>3. CASE d # c  BY <3>3 DEF FlagInv, FlagAt, MaskInv, Masked, Executing
    <3>4. QED BY <3>1, <3>2, <3>3
  <2>5. QED BY <2>1, <2>2, <2>3, <2>4 DEF FlagInv
<1>7. ASSUME NEW c \in Core, NEW l \in Level, Release(c, l) PROVE IInv'
  <2> USE <1>7 DEF Release, At, Goto
  <2>1. TypeOK'  OBVIOUS
  <2>2. TakenInv'  BY DEF TakenInv, MutualExclusion, Holding
  <2>3. MaskInv'  BY DEF MaskInv, Masked, Executing
  <2>4. ASSUME NEW d \in Core, NEW m \in Level PROVE FlagAt(d, m)'
    <3>1. CASE d = c /\ m = l  BY <3>1 DEF FlagInv, FlagAt, MaskInv, Masked, Executing
    <3>2. CASE d = c /\ m # l  BY <3>2 DEF FlagInv, FlagAt, MaskInv, Masked, Executing
    <3>3. CASE d # c  BY <3>3 DEF FlagInv, FlagAt, MaskInv, Masked, Executing
    <3>4. QED BY <3>1, <3>2, <3>3
  <2>5. QED BY <2>1, <2>2, <2>3, <2>4 DEF FlagInv
<1>8. ASSUME NEW c \in Core, NEW l \in Level, Restore(c, l) PROVE IInv'
  <2> USE <1>8 DEF Restore, At, Goto
  <2>1. TypeOK'  OBVIOUS
  <2>2. TakenInv'  BY DEF TakenInv, MutualExclusion, Holding
  <2>3. MaskInv'  BY DEF MaskInv, FlagInv, FlagAt, Masked, Executing
  <2>4. ASSUME NEW d \in Core, NEW m \in Level PROVE FlagAt(d, m)'
    <3>1. CASE d = c /\ m = l  BY <3>1 DEF FlagInv, FlagAt, MaskInv, Masked, Executing
    <3>2. CASE d = c /\ m # l  BY <3>2 DEF FlagInv, FlagAt, MaskInv, Masked, Executing
    <3>3. CASE d # c  BY <3>3 DEF FlagInv, FlagAt, MaskInv, Masked, Executing
    <3>4. QED BY <3>1, <3>2, <3>3
  <2>5. QED BY <2>1, <2>2, <2>3, <2>4 DEF FlagInv
<1>9. ASSUME NEW c \in Core, Toggle(c) PROVE IInv'
  <2> USE <1>9 DEF Toggle, At
  <2>1. TypeOK'  OBVIOUS
  <2>2. TakenInv'  BY DEF TakenInv, MutualExclusion, Holding
  <2>3. MaskInv'  BY DEF MaskInv, Masked, Executing
  <2>4. FlagInv'  BY DEF FlagInv, FlagAt, MaskInv, Masked, Executing
  <2>5. QED BY <2>1, <2>2, <2>3, <2>4
<1>10. ASSUME NEW c \in Core, Interrupt(c) PROVE IInv'
  <2> USE <1>10 DEF Interrupt
  <2>1. TypeOK'  OBVIOUS
  <2>2. TakenInv'  BY DEF TakenInv, MutualExclusion, Holding
  <2>3. MaskInv'  BY DEF MaskInv, Masked, Executing
  <2>4. FlagInv'  BY DEF FlagInv, FlagAt, MaskInv, Masked, Executing
  <2>5. QED BY <2>1, <2>2, <2>3, <2>4
<1>11. ASSUME NEW c \in Core, InterruptReturn(c) PROVE IInv'
  <2> USE <1>11 DEF InterruptReturn, At
  <2>1. TypeOK'  OBVIOUS
  <2>2. TakenInv'  BY DEF TakenInv, MutualExclusion, Holding
  <2>3. MaskInv'  BY DEF MaskInv, Masked, Executing
  <2>4. FlagInv'  BY DEF FlagInv, FlagAt, MaskInv, Masked, Executing
  <2>5. QED BY <2>1, <2>2, <2>3, <2>4
<1>12. CASE UNCHANGED vars
  BY <1>12 DEF vars, TakenInv, MutualExclusion, Holding, MaskInv, Masked,
               Executing, FlagInv, FlagAt
<1>13. QED
  BY <1>1, <1>2, <1>3, <1>4, <1>5, <1>6, <1>7, <1>8, <1>9, <1>10, <1>11, <1>12
     DEF Next, LockStep

(* What the invariant says of the lock's users.                            *)
LEMMA IInvImplies ==
    IInv => MutualExclusion /\ HolderIsMasked /\ RestoresCallersFlag
BY DEF IInv, TakenInv, MaskInv, Masked, FlagInv, FlagAt, HolderIsMasked, Holding,
       RestoresCallersFlag, Activity, Level

(* Every behaviour of lock(), unlock() and the interrupts satisfies it.    *)
LEMMA AlwaysIInv == Spec => []IInv
  BY InitIInv, NextIInv, PTL DEF Spec

(* For any set of cores, two activities never hold an InterruptSafeLock or *)
(* an ISL (kernel/atomic.h) together.                                      *)
THEOREM LockSafety == Spec => []MutualExclusion
  BY AlwaysIInv, IInvImplies, PTL

(* From lock() to unlock() the holder's core takes no interrupt: a handler *)
(* never spins on a lock that the code it interrupted holds.               *)
THEOREM HoldersAreMasked == Spec => []HolderIsMasked
  BY AlwaysIInv, IInvImplies, PTL

(* unlock() restores the interrupt flag that its caller had at lock(),     *)
(* although InterruptSafeLock keeps it in a field every core writes.       *)
THEOREM FlagIsRestored == Spec => []RestoresCallersFlag
  BY AlwaysIInv, IInvImplies, PTL

-----------------------------------------------------------------------------
(* From reset to init                                                      *)

(* Where a core is before it has counted itself, and after.                *)
Early == {"entry", "kernelInit", "count"}
Late == {"lapic", "per_core_init", "pit", "sti", "here", "make", "stop"}
Place == {"off", "setUp", "start", "await"} \cup Early \cup Late

(* Everything the boot processor sets up.                                  *)
AllDone == {SetUps[i] : i \in 1..12}

(* The types.                                                              *)
BootType ==
    /\ madt \in Seq([type : Nat, processor : Nat, address : Nat]) /\ Len(madt) > 1
    /\ config.totalProcs \in Nat
    /\ bootAt \in [Cpu -> Place]
    /\ stackOf \in [Cpu -> Cpu \cup {tempStack, None}]
    /\ step \in 1..12
    /\ running \in Nat /\ nextId \in Nat /\ howManyAreHere \in Nat
    /\ init.made \in Nat

(* A core that is off has no stack, one at the entry is on tempStack, and  *)
(* any other is on its own.                                                *)
StackInv ==
    \A c \in Cpu : /\ bootAt[c] = "off" => stackOf[c] = None
                   /\ bootAt[c] = "entry" => stackOf[c] = tempStack
                   /\ bootAt[c] \notin {"off", "entry"} => stackOf[c] = c

(* How far the boot processor is: what it has set up, and which core it is *)
(* about to start.  The table counted at least this core, and a core it    *)
(* has started exists.                                                     *)
SetUpInv ==
    /\ bootAt[Boot] \in {"entry", "kernelInit"} => done = {} /\ step = 1
    /\ bootAt[Boot] = "setUp" =>
           /\ done = {SetUps[i] : i \in 1..step - 1}
           /\ step > 1 => config.totalProcs > 0
    /\ bootAt[Boot] \in {"start", "await"} \cup Late =>
           /\ done = AllDone
           /\ config.totalProcs > 0 /\ nextId <= config.totalProcs
           /\ nextId - 1 \in Cpu
    /\ bootAt[Boot] = "await" => nextId < config.totalProcs
    /\ bootAt[Boot] \in Late => nextId = config.totalProcs

(* The boot processor starts the others one at a time: those below nextId  *)
(* have counted themselves, those above are off, and SMP::running tells it *)
(* which of the two holds for core nextId.                                 *)
StartInv ==
    /\ bootAt[Boot] \in {"entry", "kernelInit", "setUp", "start", "await"} \cup Late
    /\ \A c \in Cpu \ {Boot} : bootAt[c] \in {"off"} \cup Early \cup Late
    /\ bootAt[Boot] \in {"entry", "kernelInit", "setUp"} =>
           /\ running = 0 /\ nextId = 1
           /\ \A c \in Cpu \ {Boot} : bootAt[c] = "off"
    /\ bootAt[Boot] \in {"start", "await"} \cup Late =>
           \A c \in Cpu \ {Boot} : /\ c < nextId => bootAt[c] \in Late
                                   /\ c > nextId => bootAt[c] = "off"
    /\ bootAt[Boot] \in {"start"} \cup Late =>
           running = nextId /\ (nextId \in Cpu => bootAt[nextId] = "off")
    /\ bootAt[Boot] = "await" =>
           \/ running = nextId /\ (nextId \in Cpu => bootAt[nextId] \in Early)
           \/ running = nextId + 1 /\ nextId \in Cpu /\ bootAt[nextId] \in Late

(* The cores that have added themselves to howManyAreHere.                 *)
Arrived == {c \in Cpu : bootAt[c] \in {"make", "stop"}}

(* howManyAreHere counts them, and it takes as many as the kernel counts   *)
(* to make the process init.                                               *)
ArriveInv ==
    /\ howManyAreHere = Cardinality(Arrived)
    /\ init.made > 0 \/ (\E c \in Cpu : bootAt[c] = "make") =>
           howManyAreHere >= config.totalProcs /\ config.totalProcs > 0
    /\ init.made <= 1
    /\ init.made = 1 => \A c \in Cpu : bootAt[c] # "make"
    /\ \A c, d \in Cpu : bootAt[c] = "make" /\ bootAt[d] = "make" => c = d

(* The inductive invariant of the boot.                                    *)
BootInv == BootType /\ StackInv /\ SetUpInv /\ StartInv /\ ArriveInv

(* What the assumption says of the cores: their numbers are 0 to n - 1,    *)
(* tempStack is n, and None is neither.                                    *)
LEMMA Cores ==
    /\ IsFiniteSet(Cpu) /\ Cardinality(Cpu) \in Nat /\ Boot \in Cpu
    /\ Cpu = 0..tempStack - 1 /\ Cpu \subseteq Nat
    /\ tempStack \in Nat /\ tempStack \notin Cpu /\ None \notin Cpu /\ None # tempStack
  <1>1. IsFiniteSet(Cpu) /\ Boot \in Cpu /\ Cpu = 0..Cardinality(Cpu) - 1
    BY BootAssumption
  <1>2. Cardinality(Cpu) \in Nat
    BY <1>1, FS_CardinalityType
  <1>3. None \notin Cpu \cup Nat
    BY IdeAssumption
  <1>. QED
    BY <1>1, <1>2, <1>3 DEF tempStack

(* There are twelve set-ups.                                               *)
LEMMA SetUpsLen == Len(SetUps) = 12 /\ DOMAIN SetUps = 1..12
  BY DEF SetUps

(* configInit counts the boot processor, so totalProcs is never zero.      *)
LEMMA TotalType ==
    ASSUME NEW m \in Seq([type : Nat, processor : Nat, address : Nat]), Len(m) > 1
    PROVE  TotalProcs(m) \in Nat /\ TotalProcs(m) > 0
  <1>1. Examined(m) \in Seq([type : Nat, processor : Nat, address : Nat])
    BY DEF Examined
  <1>2. DOMAIN Examined(m) = 1..Len(Examined(m)) /\ Len(Examined(m)) \in Nat
    BY <1>1
  <1>3. IsFiniteSet(DOMAIN Examined(m))
    BY <1>2, FS_Interval
  <1>. DEFINE S == {i \in DOMAIN Examined(m) :
                        IsCore(Examined(m)[i]) /\ Examined(m)[i].processor # 0}
  <1>4. S \subseteq DOMAIN Examined(m)
    OBVIOUS
  <1>5. IsFiniteSet(S)
    BY <1>3, <1>4, FS_Subset
  <1>6. Cardinality(S) \in Nat
    BY <1>5, FS_CardinalityType
  <1>. HIDE DEF S
  <1>7. 1 + Cardinality(S) \in Nat /\ 1 + Cardinality(S) > 0
    BY <1>6
  <1>. QED
    BY <1>7 DEF TotalProcs, S

(* The invariant holds at reset, on every machine.                         *)
LEMMA BootInitInv ==
    ASSUME NEW h \in Hardware, BootInit(h)
    PROVE  BootInv
  <1>. USE Cores
  <1>1. BootType
    BY BootAssumption DEF BootInit, BootType, Place, Early
  <1>2. StackInv
    BY DEF BootInit, StackInv
  <1>3. SetUpInv
    BY DEF BootInit, SetUpInv, Late
  <1>4. StartInv
    BY DEF BootInit, StartInv, Late
  <1>5. ArriveInv
    <2>1. Arrived = {} /\ \A c \in Cpu : bootAt[c] # "make"
      BY DEF BootInit, Arrived
    <2>2. Cardinality({}) = 0
      BY FS_EmptySet
    <2>. QED
      BY <2>1, <2>2 DEF BootInit, ArriveInv
  <1>. QED
    BY <1>1, <1>2, <1>3, <1>4, <1>5 DEF BootInv

(* A step of the disk or of the locks changes nothing the invariant is     *)
(* about.                                                                  *)
LEMMA BootInvSame ==
    ASSUME BootInv, UNCHANGED booting
    PROVE  BootInv'
  BY DEF BootInv, BootType, StackInv, SetUpInv, StartInv, ArriveInv, Arrived, booting, AllDone

(* Every step of a core keeps the types.                                   *)
LEMMA TypeStep ==
    ASSUME BootType, NEW c \in Cpu, BootStep(c)
    PROVE  BootType'
  <1>. USE Cores DEF BootType
  <1>1. CASE PickKernelStack(c)
    BY <1>1 DEF PickKernelStack, Moves, others, Place, Early
  <1>2. CASE KernelInit(c)
    BY <1>2 DEF KernelInit, Alone, Moves, others, Place, Early
  <1>3. CASE SetUp(c)
    <2>1. TotalProcs(madt) \in Nat
      BY TotalType
    <2>2. config'.totalProcs \in Nat
      BY <1>3, <2>1 DEF SetUp
    <2>3. bootAt' \in [Cpu -> Place]
      BY <1>3 DEF SetUp, Moves, Place
    <2>4. step' \in 1..12
      BY <1>3, SetUpsLen DEF SetUp
    <2>5. running' \in Nat
      BY <1>3 DEF SetUp
    <2>. QED
      BY <1>3, <2>2, <2>3, <2>4, <2>5 DEF SetUp, others
  <1>4. CASE StartCore(c)
    BY <1>4 DEF StartCore, others, Place, Early
  <1>5. CASE Await(c)
    BY <1>5 DEF Await, Moves, others, Place
  <1>6. CASE AllStarted(c)
    BY <1>6 DEF AllStarted, Alone, Moves, others, Place, Late
  <1>7. CASE Count(c)
    BY <1>7 DEF Count, Moves, others, Place, Late
  <1>8. CASE LocalApic(c) \/ PerCoreInit(c) \/ Sti(c)
    BY <1>8 DEF LocalApic, PerCoreInit, Sti, Alone, Moves, others, Place, Late
  <1>9. CASE PitInit(c)
    BY <1>9 DEF PitInit, Moves, Place, Late
  <1>10. CASE Arrive(c)
    BY <1>10 DEF Arrive, Moves, others, Place, Late
  <1>11. CASE MakeInit(c)
    BY <1>11 DEF MakeInit, Moves, others, Place, Late
  <1>12. CASE RunInit(c)
    BY <1>12 DEF RunInit, Moves, others, Place, Late
  <1>. QED
    BY <1>1, <1>2, <1>3, <1>4, <1>5, <1>6, <1>7, <1>8, <1>9, <1>10, <1>11, <1>12
       DEF BootStep

(* A core that has counted itself goes on to a later place: the boot       *)
(* processor's account of it stays as it is.                               *)
LEMMA LateMove ==
    ASSUME BootInv, NEW c \in Cpu, NEW to \in Late, bootAt[c] \in Late,
           bootAt' = [bootAt EXCEPT ![c] = to],
           UNCHANGED <<config, stackOf, step, done, running, nextId>>
    PROVE  StackInv' /\ SetUpInv' /\ StartInv'
  <1>0. /\ bootAt \in [Cpu -> Place] /\ StackInv /\ SetUpInv /\ StartInv
        /\ nextId \in Nat /\ running \in Nat
    BY DEF BootInv, BootType
  <1>1. StackInv'
    BY <1>0 DEF StackInv, Late
  <1>2. SetUpInv'
    BY <1>0, Cores DEF SetUpInv, AllDone, Late
  <1>3. StartInv'
    BY <1>0, Cores DEF StartInv, Early, Late
  <1>. QED
    BY <1>1, <1>2, <1>3

(* A step that takes no core to or from the places behind howManyAreHere   *)
(* leaves the count right.                                                 *)
LEMMA NobodyArrives ==
    ASSUME BootInv, UNCHANGED <<config, howManyAreHere, init>>,
           \A d \in Cpu : \/ bootAt'[d] = bootAt[d]
                          \/ {bootAt[d], bootAt'[d]} \cap {"make", "stop"} = {}
    PROVE  ArriveInv'
  <1>1. Arrived' = Arrived
    BY DEF Arrived
  <1>2. \A d \in Cpu : bootAt'[d] = "make" <=> bootAt[d] = "make"
    OBVIOUS
  <1>. QED
    BY <1>1, <1>2 DEF BootInv, ArriveInv

(* SMP::init(false), VMM::per_core_init, Pit::init and sti() keep the      *)
(* invariant.                                                              *)
LEMMA LateSteps ==
    ASSUME BootInv, NEW c \in Cpu,
           LocalApic(c) \/ PerCoreInit(c) \/ PitInit(c) \/ Sti(c)
    PROVE  BootInv'
  <1>1. BootType'
    BY TypeStep DEF BootInv, BootStep
  <1>2. PICK from, to \in Late \ {"make", "stop"} :
            /\ bootAt[c] = from /\ bootAt' = [bootAt EXCEPT ![c] = to]
            /\ UNCHANGED <<config, stackOf, step, done, running, nextId, howManyAreHere, init>>
    BY DEF LocalApic, PerCoreInit, PitInit, Sti, Alone, Moves, Late
  <1>3. StackInv' /\ SetUpInv' /\ StartInv'
    BY <1>2, LateMove
  <1>4. ArriveInv'
    BY <1>2, NobodyArrives DEF BootInv, BootType
  <1>. QED
    BY <1>1, <1>3, <1>4 DEF BootInv

(* howManyAreHere.add_fetch(1): the core that makes it totalProcs finds    *)
(* that no other did, and that init is not made.                           *)
LEMMA ArriveStep ==
    ASSUME BootInv, NEW c \in Cpu, Arrive(c)
    PROVE  BootInv'
  <1>1. BootType'
    BY TypeStep DEF BootInv, BootStep
  <1>2. /\ bootAt[c] = "here"
        /\ bootAt' = [bootAt EXCEPT ![c] = IF Last(howManyAreHere + 1) THEN "make" ELSE "stop"]
        /\ howManyAreHere' = howManyAreHere + 1
        /\ UNCHANGED <<config, stackOf, step, done, running, nextId, init>>
    BY DEF Arrive, Moves
  <1>3. StackInv' /\ SetUpInv' /\ StartInv'
    <2>1. CASE Last(howManyAreHere + 1)
      BY <1>2, <2>1, LateMove DEF Late
    <2>2. CASE ~Last(howManyAreHere + 1)
      BY <1>2, <2>2, LateMove DEF Late
    <2>. QED
      BY <2>1, <2>2
  <1>4. ArriveInv'
    <2>1. Arrived' = Arrived \cup {c} /\ c \notin Arrived
      BY <1>2 DEF Arrived, BootInv, BootType
    <2>2. IsFiniteSet(Arrived)
      BY Cores, FS_Subset DEF Arrived
    <2>3. Cardinality(Arrived') = Cardinality(Arrived) + 1
      BY <2>1, <2>2, FS_AddElement
    <2>4. howManyAreHere' = Cardinality(Arrived')
      BY <2>3, <1>2 DEF BootInv, ArriveInv
    <2>5. CASE Last(howManyAreHere + 1)
      <3>1. howManyAreHere + 1 = config.totalProcs
        BY <2>5 DEF Last
      <3>2. init.made = 0 /\ \A d \in Cpu : bootAt[d] # "make"
        BY <3>1 DEF BootInv, ArriveInv, BootType
      <3>3. \A d \in Cpu : bootAt'[d] = "make" <=> d = c
        BY <1>2, <2>5, <3>2 DEF BootInv, BootType
      <3>. QED
        BY <1>2, <2>4, <3>1, <3>2, <3>3 DEF BootInv, BootType, ArriveInv
    <2>6. CASE ~Last(howManyAreHere + 1)
      <3>1. \A d \in Cpu : bootAt'[d] = "make" <=> bootAt[d] = "make"
        BY <1>2, <2>6 DEF BootInv, BootType
      <3>. QED
        BY <1>2, <2>4, <3>1 DEF BootInv, BootType, ArriveInv
    <2>. QED
      BY <2>5, <2>6
  <1>. QED
    BY <1>1, <1>3, <1>4 DEF BootInv

(* The one core that came last makes init; any core may run it.            *)
LEMMA InitSteps ==
    ASSUME BootInv, NEW c \in Cpu, MakeInit(c) \/ RunInit(c)
    PROVE  BootInv'
  <1>1. BootType'
    BY TypeStep DEF BootInv, BootStep
  <1>2. /\ bootAt[c] \in {"make", "stop"}
        /\ bootAt' = [bootAt EXCEPT ![c] = "stop"]
        /\ UNCHANGED <<config, stackOf, step, done, running, nextId, howManyAreHere>>
    BY DEF MakeInit, RunInit, Moves
  <1>3. StackInv' /\ SetUpInv' /\ StartInv'
    BY <1>2, LateMove DEF Late
  <1>4. Arrived' = Arrived
    BY <1>2 DEF Arrived, BootInv, BootType
  <1>5. \A d \in Cpu : bootAt'[d] = "make" <=> bootAt[d] = "make" /\ d # c
    BY <1>2 DEF BootInv, BootType
  <1>6. CASE MakeInit(c)
    <2>1. bootAt[c] = "make"
      BY <1>6 DEF MakeInit, Moves
    <2>2. init.made = 0
      <3>1. init.made \in Nat
        BY DEF BootInv, BootType
      <3>2. init.made <= 1 /\ init.made # 1
        BY <2>1 DEF BootInv, ArriveInv
      <3>. QED
        BY ONLY <3>1, <3>2
    <2>3. init'.made = 1
      BY <1>6, <2>2, <1>1 DEF MakeInit, BootInv, BootType
    <2>. QED
      BY <1>1, <1>2, <1>3, <1>4, <1>5, <2>1, <2>2, <2>3 DEF BootInv, ArriveInv
  <1>7. CASE RunInit(c)
    <2>1. init'.made = init.made
      BY <1>7 DEF RunInit
    <2>2. \A d \in Cpu : bootAt'[d] = "make" <=> bootAt[d] = "make"
      BY <1>7, <1>5 DEF RunInit, Moves
    <2>. QED
      BY <1>1, <1>2, <1>3, <1>4, <2>1, <2>2 DEF BootInv, ArriveInv
  <1>. QED
    BY <1>6, <1>7

(* Each set-up is among all of them.                                       *)
LEMMA AllDoneHas == \A i \in 1..12 : SetUps[i] \in AllDone
  BY DEF AllDone

(* A core other than the boot processor that has not counted itself is the *)
(* one the boot processor waits for.                                       *)
LEMMA OneStarts ==
    ASSUME BootInv, NEW c \in Cpu, c # Boot, bootAt[c] \in Early
    PROVE  bootAt[Boot] = "await" /\ c = nextId /\ running = nextId
  <1>. USE Cores
  <1>1. bootAt[c] # "off" /\ bootAt[c] \notin Late
    BY DEF Early, Late
  <1>2. bootAt[Boot] \in {"start", "await"} \cup Late
    BY <1>1 DEF BootInv, StartInv
  <1>3. ~(c < nextId) /\ ~(c > nextId)
    BY <1>1, <1>2 DEF BootInv, StartInv
  <1>4. c = nextId
    BY <1>3 DEF BootInv, BootType
  <1>. QED
    BY <1>1, <1>2, <1>4 DEF BootInv, StartInv

(* pickKernelStack and the test of smpInitDone: on the boot processor the  *)
(* flag is still false, on any other core it is true, because that core    *)
(* was started after the set-ups.                                          *)
LEMMA EntryStep ==
    ASSUME BootInv, NEW c \in Cpu, PickKernelStack(c) \/ KernelInit(c)
    PROVE  BootInv'
  <1>. USE Cores
  <1>1. BootType'
    BY TypeStep DEF BootInv, BootStep
  <1>2. PICK from \in {"entry", "kernelInit"}, to \in {"kernelInit", "setUp", "count"} :
            /\ bootAt[c] = from /\ bootAt' = [bootAt EXCEPT ![c] = to]
            /\ from = "entry" <=> to = "kernelInit"
            /\ from = "entry" => stackOf' = [stackOf EXCEPT ![c] = IF smpInitDone THEN c ELSE Boot]
            /\ from = "kernelInit" => stackOf' = stackOf
            /\ from = "kernelInit" => to = IF smpInitDone THEN "count" ELSE "setUp"
            /\ UNCHANGED <<config, step, done, running, nextId, howManyAreHere, init>>
    BY DEF PickKernelStack, KernelInit, Alone, Moves
  <1>3. CASE c = Boot
    <2>1. done = {} /\ step = 1 /\ ~smpInitDone
      BY <1>2, <1>3 DEF BootInv, SetUpInv, smpInitDone
    <2>2. to \in {"kernelInit", "setUp"}
      BY <1>2, <2>1
    <2>3. StackInv'
      BY <1>2, <1>3, <2>1, <2>2 DEF BootInv, StackInv, BootType
    <2>4. SetUpInv'
      BY <1>2, <1>3, <2>1, <2>2 DEF BootInv, SetUpInv, BootType, Late
    <2>5. StartInv'
      BY <1>2, <1>3, <2>1, <2>2 DEF BootInv, StartInv, BootType, Late
    <2>6. ArriveInv'
      BY <1>2, NobodyArrives DEF BootInv, BootType
    <2>. QED
      BY <1>1, <2>3, <2>4, <2>5, <2>6 DEF BootInv
  <1>4. CASE c # Boot
    <2>1. bootAt[Boot] = "await" /\ c = nextId /\ running = nextId
      BY <1>2, <1>4, OneStarts DEF Early
    <2>2. "smpInitDone" \in done
      <3>1. SetUps[9] = "smpInitDone"
        BY DEF SetUps
      <3>. QED
        BY <2>1, <3>1, AllDoneHas DEF BootInv, SetUpInv
    <2>3. to \in {"kernelInit", "count"} /\ stackOf' = [stackOf EXCEPT ![c] = c]
      <3>1. smpInitDone
        BY <2>2 DEF smpInitDone
      <3>2. CASE from = "entry"
        BY <1>2, <3>1, <3>2
      <3>3. CASE from = "kernelInit"
        BY <1>2, <3>1, <3>3 DEF BootInv, StackInv, BootType
      <3>. QED
        BY <3>2, <3>3
    <2>4. StackInv'
      BY <1>2, <2>3 DEF BootInv, StackInv, BootType
    <2>5. SetUpInv'
      BY <1>2, <1>4, <2>1, <2>3 DEF BootInv, SetUpInv, BootType, Late, AllDone
    <2>6. StartInv'
      BY <1>2, <1>4, <2>1, <2>3 DEF BootInv, StartInv, BootType, Late, Early
    <2>7. ArriveInv'
      BY <1>2, NobodyArrives DEF BootInv, BootType
    <2>. QED
      BY <1>1, <2>4, <2>5, <2>6, <2>7 DEF BootInv
  <1>. QED
    BY <1>3, <1>4

(* The next set-up, on the boot processor, while every other core is off.  *)
LEMMA SetUpStep ==
    ASSUME BootInv, NEW c \in Cpu, SetUp(c)
    PROVE  BootInv'
  <1>. USE Cores
  <1>1. BootType'
    BY TypeStep DEF BootInv, BootStep
  <1>2. bootAt[c] = "setUp" /\ c = Boot
    BY DEF SetUp, Moves, BootInv, StartInv, Late, Early
  <1>3. /\ running = 0 /\ nextId = 1 /\ \A d \in Cpu \ {Boot} : bootAt[d] = "off"
    BY <1>2 DEF BootInv, StartInv
  <1>4. /\ done = {SetUps[i] : i \in 1..step - 1} /\ step \in 1..12
        /\ step > 1 => config.totalProcs > 0
    BY <1>2 DEF BootInv, SetUpInv, BootType
  <1>5. done' = {SetUps[i] : i \in 1..step}
    <2>1. done' = {SetUps[i] : i \in 1..step - 1} \cup {SetUps[step]}
      BY <1>4 DEF SetUp
    <2>2. \A i : i \in 1..step <=> i \in 1..step - 1 \/ i = step
      BY <1>4
    <2>. QED
      BY <2>1, <2>2
  <1>6. config'.totalProcs > 0
    <2>1. CASE step = 1
      <3>1. SetUps[1] = "configInit"
        BY DEF SetUps
      <3>2. config'.totalProcs = TotalProcs(madt)
        BY <2>1, <3>1 DEF SetUp
      <3>. QED
        BY <3>2, TotalType DEF BootInv, BootType
    <2>2. CASE step # 1
      <3>1. SetUps[step] # "configInit"
        BY <2>2, <1>4 DEF SetUps
      <3>. QED
        BY <1>4, <2>2, <3>1 DEF SetUp
    <2>. QED
      BY <2>1, <2>2
  <1>7. running' = IF step = 12 THEN 1 ELSE 0
    <2>1. SetUps[step] = "running" <=> step = 12
      BY <1>4 DEF SetUps
    <2>. QED
      BY <2>1, <1>3 DEF SetUp
  <1>8. /\ bootAt' = [bootAt EXCEPT ![Boot] = IF step = 12 THEN "start" ELSE "setUp"]
        /\ step' = IF step = 12 THEN step ELSE step + 1
        /\ UNCHANGED <<stackOf, nextId, howManyAreHere, init>>
    BY <1>2, SetUpsLen DEF SetUp, Moves
  <1>9. StackInv'
    BY <1>2, <1>8 DEF BootInv, BootType, StackInv
  <1>10. SetUpInv'
    <2>1. CASE step = 12
      <3>1. done' = AllDone
        BY <2>1, <1>5 DEF AllDone
      <3>2. nextId' = 1 /\ nextId' - 1 \in Cpu /\ bootAt'[Boot] = "start"
        BY <1>3, <1>8, <2>1 DEF BootInv, BootType, Boot
      <3>. QED
        BY <1>6, <3>1, <3>2, <1>1 DEF SetUpInv, BootType, Late, AllDone
    <2>2. CASE step # 12
      <3>1. /\ bootAt'[Boot] = "setUp" /\ step' = step + 1
            /\ done' = {SetUps[i] : i \in 1..step' - 1}
        BY <1>4, <1>5, <1>8, <2>2 DEF BootInv, BootType
      <3>. QED
        BY <1>6, <3>1 DEF SetUpInv, Late
    <2>. QED
      BY <2>1, <2>2
  <1>11. StartInv'
    <2>1. \A d \in Cpu \ {Boot} : bootAt'[d] = "off"
      BY <1>3, <1>8 DEF BootInv, BootType
    <2>2. bootAt'[Boot] = IF step = 12 THEN "start" ELSE "setUp"
      BY <1>8 DEF BootInv, BootType
    <2>. QED
      BY <1>3, <1>7, <1>8, <2>1, <2>2 DEF StartInv, Late, Boot
  <1>12. ArriveInv'
    <2>1. Arrived = {} /\ Arrived' = {}
      BY <1>2, <1>3, <1>8 DEF Arrived, BootInv, BootType
    <2>2. howManyAreHere = 0
      BY <2>1, FS_EmptySet DEF BootInv, ArriveInv
    <2>3. init.made = 0
      BY <2>2 DEF BootInv, ArriveInv, BootType
    <2>4. \A d \in Cpu : bootAt'[d] # "make"
      BY <1>2, <1>3, <1>8 DEF BootInv, BootType
    <2>. QED
      BY <1>8, <2>1, <2>2, <2>3, <2>4, FS_EmptySet DEF ArriveInv
  <1>. QED
    BY <1>1, <1>9, <1>10, <1>11, <1>12 DEF BootInv

(* The boot processor starts core nextId, or sends the interrupts to       *)
(* nobody.                                                                 *)
LEMMA StartCoreStep ==
    ASSUME BootInv, NEW c \in Cpu, StartCore(c)
    PROVE  BootInv'
  <1>. USE Cores
  <1>1. BootType'
    BY TypeStep DEF BootInv, BootStep
  <1>2. bootAt[c] = "start" /\ c = Boot
    BY DEF StartCore, BootInv, StartInv, Late, Early
  <1>3. /\ nextId < config.totalProcs /\ nextId - 1 \in Cpu /\ nextId # Boot
        /\ running = nextId
    BY <1>2 DEF StartCore, BootInv, StartInv, SetUpInv, BootType, Boot
  <1>4. /\ bootAt'[Boot] = "await"
        /\ \A d \in Cpu : d # Boot => bootAt'[d] = IF d = nextId THEN "entry" ELSE bootAt[d]
        /\ \A d \in Cpu : stackOf'[d] = IF d = nextId THEN tempStack ELSE stackOf[d]
        /\ UNCHANGED <<config, step, done, running, nextId, howManyAreHere, init>>
    BY <1>2, <1>3 DEF StartCore
  <1>5. nextId \in Cpu => bootAt[nextId] = "off"
    BY <1>2 DEF BootInv, StartInv
  <1>6. StackInv'
    BY <1>2, <1>3, <1>4 DEF BootInv, BootType, StackInv
  <1>7. SetUpInv'
    BY <1>2, <1>3, <1>4 DEF BootInv, BootType, SetUpInv, AllDone, Late
  <1>8. StartInv'
    BY <1>2, <1>3, <1>4, <1>5 DEF BootInv, BootType, StartInv, Late, Early
  <1>9. ArriveInv'
    BY <1>2, <1>3, <1>4, <1>5, NobodyArrives
  <1>. QED
    BY <1>1, <1>6, <1>7, <1>8, <1>9 DEF BootInv

(* The boot processor sees that core nextId has counted itself.            *)
LEMMA AwaitStep ==
    ASSUME BootInv, NEW c \in Cpu, Await(c)
    PROVE  BootInv'
  <1>. USE Cores
  <1>1. BootType'
    BY TypeStep DEF BootInv, BootStep
  <1>2. bootAt[c] = "await" /\ c = Boot /\ running > nextId
    BY DEF Await, Moves, BootInv, StartInv, Late, Early
  <1>3. /\ nextId < config.totalProcs /\ nextId \in Cpu /\ bootAt[nextId] \in Late
        /\ running = nextId + 1
    BY <1>2 DEF BootInv, StartInv, SetUpInv, BootType
  <1>4. /\ bootAt' = [bootAt EXCEPT ![Boot] = "start"] /\ nextId' = nextId + 1
        /\ UNCHANGED <<config, stackOf, step, done, running, howManyAreHere, init>>
    BY <1>2 DEF Await, Moves
  <1>5. StackInv'
    BY <1>2, <1>4 DEF BootInv, BootType, StackInv
  <1>6. SetUpInv'
    <2>1. nextId' - 1 = nextId /\ nextId' <= config.totalProcs
      BY <1>3, <1>4 DEF BootInv, BootType
    <2>2. bootAt'[Boot] = "start" /\ done = AllDone /\ AllDone' = AllDone
      BY <1>2, <1>4 DEF BootInv, BootType, SetUpInv, AllDone
    <2>. QED
      BY <1>3, <1>4, <2>1, <2>2 DEF BootInv, BootType, SetUpInv, Late
  <1>7. StartInv'
    <2>1. \A d \in Cpu \ {Boot} : d < nextId + 1 => bootAt[d] \in Late
      <3>1. \A d \in Cpu : d < nextId + 1 => d < nextId \/ d = nextId
        BY DEF BootInv, BootType
      <3>2. \A d \in Cpu \ {Boot} : d < nextId => bootAt[d] \in Late
        BY <1>2 DEF BootInv, StartInv
      <3>. QED
        BY <1>3, <3>1, <3>2
    <2>2. \A d \in Cpu \ {Boot} : d > nextId => bootAt[d] = "off"
      BY <1>2, <1>3 DEF BootInv, BootType, StartInv
    <2>3. bootAt'[Boot] = "start" /\ \A d \in Cpu \ {Boot} : bootAt'[d] = bootAt[d]
      BY <1>4 DEF BootInv, BootType
    <2>4. nextId + 1 # Boot /\ nextId \in Nat
      BY DEF Boot, BootInv, BootType
    <2>. QED
      BY <1>3, <1>4, <2>1, <2>2, <2>3, <2>4 DEF StartInv, BootInv, Late
  <1>8. ArriveInv'
    BY <1>2, <1>4, NobodyArrives DEF BootInv, BootType
  <1>. QED
    BY <1>1, <1>5, <1>6, <1>7, <1>8 DEF BootInv

(* There are no more cores to start.                                       *)
LEMMA AllStartedStep ==
    ASSUME BootInv, NEW c \in Cpu, AllStarted(c)
    PROVE  BootInv'
  <1>. USE Cores
  <1>1. BootType'
    BY TypeStep DEF BootInv, BootStep
  <1>2. bootAt[c] = "start" /\ c = Boot /\ nextId >= config.totalProcs
    BY DEF AllStarted, Alone, Moves, BootInv, StartInv, Late, Early
  <1>3. /\ bootAt' = [bootAt EXCEPT ![Boot] = "per_core_init"]
        /\ UNCHANGED <<config, stackOf, step, done, running, nextId, howManyAreHere, init>>
    BY <1>2 DEF AllStarted, Alone, Moves
  <1>4. StackInv'
    BY <1>2, <1>3 DEF BootInv, BootType, StackInv
  <1>5. SetUpInv'
    BY <1>2, <1>3 DEF BootInv, BootType, SetUpInv, AllDone, Late
  <1>6. StartInv'
    BY <1>2, <1>3 DEF BootInv, BootType, StartInv, Late, Boot, SetUpInv
  <1>7. ArriveInv'
    BY <1>2, <1>3, NobodyArrives DEF BootInv, BootType
  <1>. QED
    BY <1>1, <1>4, <1>5, <1>6, <1>7 DEF BootInv

(* SMP::running.fetch_add(1), by the core that the boot processor waits    *)
(* for.                                                                    *)
LEMMA CountStep ==
    ASSUME BootInv, NEW c \in Cpu, Count(c)
    PROVE  BootInv'
  <1>. USE Cores
  <1>1. BootType'
    BY TypeStep DEF BootInv, BootStep
  <1>2. bootAt[c] = "count" /\ c # Boot
    BY DEF Count, Moves, BootInv, StartInv, Late
  <1>3. bootAt[Boot] = "await" /\ c = nextId /\ running = nextId
    BY <1>2, OneStarts DEF Early
  <1>4. /\ bootAt' = [bootAt EXCEPT ![c] = "lapic"] /\ running' = running + 1
        /\ UNCHANGED <<config, stackOf, step, done, nextId, howManyAreHere, init>>
    BY <1>2 DEF Count, Moves
  <1>5. StackInv'
    BY <1>2, <1>4 DEF BootInv, BootType, StackInv
  <1>6. SetUpInv'
    BY <1>2, <1>3, <1>4 DEF BootInv, BootType, SetUpInv, AllDone, Late
  <1>7. StartInv'
    BY <1>2, <1>3, <1>4 DEF BootInv, BootType, StartInv, Late, Early
  <1>8. ArriveInv'
    BY <1>2, <1>4, NobodyArrives DEF BootInv, BootType
  <1>. QED
    BY <1>1, <1>5, <1>6, <1>7, <1>8 DEF BootInv

(* Every step of the machine keeps the invariant of the boot.              *)
LEMMA BootInvStep ==
    ASSUME BootInv, [MachineNext]_everything
    PROVE  BootInv'
  <1>1. \/ UNCHANGED booting
        \/ \E c \in Cpu : BootStep(c)
    BY DEF MachineNext, Locking, Booting, BootNext, CoreStep, ThreadReads, DiskStep, Drive,
           Constructors, everything, machine
  <1>. QED
    BY <1>1, BootInvSame, EntryStep, SetUpStep, StartCoreStep, AwaitStep, AllStartedStep,
       CountStep, LateSteps, ArriveStep, InitSteps DEF BootStep

(* Both parts of the machine begin with one that can boot.                 *)
LEMMA MachineBoots == MachineInit => \E h \in Hardware : BootInit(h)
  BY BootAssumption DEF MachineInit

(* The invariant of the boot holds throughout.                             *)
LEMMA AlwaysBootInv == MachineSpec => []BootInv
  <1>1. MachineInit => BootInv
    BY MachineBoots, BootInitInv
  <1>2. BootInv /\ [MachineNext]_everything => BootInv'
    BY BootInvStep
  <1>. QED
    BY <1>1, <1>2, PTL DEF MachineSpec

(* However many cores there are and whatever the table says of them, no    *)
(* two are ever on one stack.  pickKernelStack reads smpInitDone without a *)
(* lock and every core begins on the same tempStack; that is safe because  *)
(* the boot processor starts one core at a time and waits until it has     *)
(* counted itself, by which time it is on its own stack (StartInv).        *)
THEOREM StacksAreApart == MachineSpec => []StacksApart
  <1>1. BootInv => StacksApart
    <2>. SUFFICES ASSUME BootInv, NEW c \in Cpu, NEW d \in Cpu,
                         stackOf[c] = stackOf[d], stackOf[c] # None
                  PROVE  c = d
      BY DEF StacksApart
    <2>. USE Cores
    <2>1. CASE bootAt[c] = "entry" /\ bootAt[d] = "entry"
      <3>1. CASE bootAt[Boot] = "entry"
        BY <2>1, <3>1 DEF BootInv, StartInv
      <3>2. CASE bootAt[Boot] # "entry"
        BY <2>1, <3>2, OneStarts DEF Early
      <3>. QED
        BY <3>1, <3>2
    <2>2. CASE ~(bootAt[c] = "entry" /\ bootAt[d] = "entry")
      BY <2>2 DEF BootInv, StackInv
    <2>. QED
      BY <2>1, <2>2
  <1>. QED
    BY <1>1, AlwaysBootInv, PTL

(* Each set-up uses only what is set up before it.                         *)
LEMMA SetUpsNeed ==
    ASSUME NEW s \in 1..12
    PROVE  Needs(SetUps[s]) \subseteq {SetUps[i] : i \in 1..s - 1}
  <1>1. /\ SetUps[1] = "configInit" /\ SetUps[2] = "heapInit" /\ SetUps[3] = "PhysMem"
        /\ SetUps[4] = "VMM" /\ SetUps[5] = "CRT" /\ SetUps[6] = "SYS"
        /\ SetUps[7] = "threadsInit" /\ SetUps[8] = "SMP" /\ SetUps[9] = "smpInitDone"
        /\ SetUps[10] = "AC97" /\ SetUps[11] = "calibrate" /\ SetUps[12] = "running"
    BY DEF SetUps
  <1>. DEFINE Before(n) == {SetUps[i] : i \in 1..n - 1}
  <1>2. \A i, n \in 1..12 : i < n => SetUps[i] \in Before(n)
    OBVIOUS
  <1>. HIDE DEF Before
  <1>. SUFFICES Needs(SetUps[s]) \subseteq Before(s)
    BY DEF Before
  <1>3. CASE s \in {1, 2, 6, 9, 10}
    <2>1. Needs(SetUps[s]) = {}
      BY <1>1, <1>3 DEF Needs
    <2>. QED
      BY <2>1
  <1>4. CASE s = 3
    BY <1>1, <1>2, <1>4 DEF Needs
  <1>5. CASE s = 4
    BY <1>1, <1>2, <1>5 DEF Needs
  <1>6. CASE s = 5
    BY <1>1, <1>2, <1>6 DEF Needs
  <1>7. CASE s = 7
    BY <1>1, <1>2, <1>7 DEF Needs
  <1>8. CASE s = 8
    BY <1>1, <1>2, <1>8 DEF Needs
  <1>9. CASE s = 11
    BY <1>1, <1>2, <1>9 DEF Needs
  <1>10. CASE s = 12
    BY <1>1, <1>2, <1>10 DEF Needs
  <1>. QED
    BY <1>3, <1>4, <1>5, <1>6, <1>7, <1>8, <1>9, <1>10

(* What another place in kernelInit uses is among the set-ups.             *)
LEMMA PlacesNeed ==
    ASSUME NEW p \in Place \ {"setUp"}
    PROVE  Needs(p) \subseteq AllDone
  <1>1. {"SMP", "CRT", "smpInitDone", "threadsInit", "calibrate", "SYS"} \subseteq AllDone
    <2>1. /\ SetUps[5] = "CRT" /\ SetUps[6] = "SYS" /\ SetUps[7] = "threadsInit"
          /\ SetUps[8] = "SMP" /\ SetUps[9] = "smpInitDone" /\ SetUps[11] = "calibrate"
      BY DEF SetUps
    <2>. QED
      BY <2>1, AllDoneHas
  <1>2. Needs(p) \subseteq {"SMP", "CRT", "smpInitDone", "threadsInit", "calibrate", "SYS"}
    BY DEF Needs, Place, Early, Late
  <1>. QED
    BY <1>1, <1>2

(* On every machine, whatever a core does in kernelInit finds set up what  *)
(* it uses, although only the boot processor sets up and the cores do not  *)
(* wait for each other.                                                    *)
THEOREM SetUpsComeFirst == MachineSpec => []SetUpBeforeUse
  <1>1. BootInv => SetUpBeforeUse
    <2>. SUFFICES ASSUME BootInv, NEW c \in Cpu
                  PROVE  LET what == IF bootAt[c] = "setUp" THEN SetUps[step] ELSE bootAt[c]
                         IN  (c = Boot /\ what = "entry") \/ Needs(what) \subseteq done
      BY DEF SetUpBeforeUse
    <2>. USE Cores
    <2>1. CASE bootAt[c] = "setUp"
      <3>1. c = Boot
        BY <2>1 DEF BootInv, StartInv, Early, Late
      <3>2. done = {SetUps[i] : i \in 1..step - 1} /\ step \in 1..12
        BY <2>1, <3>1 DEF BootInv, SetUpInv, BootType
      <3>. QED
        BY <2>1, <3>2, SetUpsNeed
    <2>2. CASE bootAt[c] = "off"
      <3>1. Needs("off") = {}
        BY DEF Needs
      <3>. QED
        BY <2>2, <3>1
    <2>3. CASE c = Boot /\ bootAt[c] = "kernelInit"
      <3>1. Needs("kernelInit") = {}
        BY DEF Needs
      <3>. QED
        BY <2>3, <3>1
    <2>4. CASE c = Boot /\ bootAt[c] = "entry"
      BY <2>4
    <2>5. CASE bootAt[Boot] \in {"start", "await"} \cup Late /\ bootAt[c] # "setUp"
      <3>1. done = AllDone /\ bootAt[c] \in Place
        BY <2>5 DEF BootInv, SetUpInv, BootType
      <3>. QED
        BY <2>5, <3>1, PlacesNeed
    <2>. QED
      BY <2>1, <2>2, <2>3, <2>4, <2>5 DEF BootInv, StartInv
  <1>. QED
    BY <1>1, AlwaysBootInv, PTL

(* How many numbers there are below n.                                     *)
LEMMA Ranges ==
    ASSUME NEW n \in Nat
    PROVE  /\ IsFiniteSet(1..n) /\ Cardinality(1..n) = n
           /\ IsFiniteSet(0..n - 1) /\ Cardinality(0..n - 1) = n
  <1>1. IsFiniteSet(1..n) /\ Cardinality(1..n) = IF 1 > n THEN 0 ELSE n - 1 + 1
    BY FS_Interval
  <1>2. /\ IsFiniteSet(0..n - 1)
        /\ Cardinality(0..n - 1) = IF 0 > n - 1 THEN 0 ELSE n - 1 - 0 + 1
    <2>1. n - 1 \in Int
      OBVIOUS
    <2>. QED
      BY <2>1, FS_Interval
  <1>. QED
    BY <1>1, <1>2

(* When some core has found itself the last, the cores behind              *)
(* howManyAreHere are those the kernel counts, no more and no fewer: so    *)
(* many have arrived, and only cores the boot processor has started can    *)
(* have.                                                                   *)
LEMMA EverybodyArrived ==
    ASSUME BootInv, init.made > 0 \/ \E c \in Cpu : bootAt[c] = "make"
    PROVE  Arrived = 0..config.totalProcs - 1
  <1>. USE Cores
  <1>1. Cardinality(Arrived) >= config.totalProcs /\ config.totalProcs > 0
    BY DEF BootInv, ArriveInv
  <1>2. IsFiniteSet(Arrived) /\ Cardinality(Arrived) \in Nat
    BY FS_Subset, FS_CardinalityType DEF Arrived
  <1>3. nextId \in Nat /\ config.totalProcs \in Nat
    BY DEF BootInv, BootType
  <1>4. bootAt[Boot] \in {"start", "await"} \cup Late
    <2>1. CASE bootAt[Boot] \in {"entry", "kernelInit", "setUp"}
      <3>1. Arrived = {}
        BY <2>1 DEF BootInv, StartInv, Arrived
      <3>. QED
        BY <3>1, <1>1, <1>3, FS_EmptySet
    <2>. QED
      BY <2>1 DEF BootInv, StartInv
  <1>5. nextId <= config.totalProcs /\ nextId > 0
    BY <1>4 DEF BootInv, SetUpInv, BootType
  <1>6. \A d \in Arrived : d \in Nat /\ d <= nextId /\ bootAt[d] \in {"make", "stop"}
    BY <1>4, <1>3 DEF BootInv, StartInv, Arrived, Boot
  <1>7. bootAt[Boot] \in Late
    <2>1. CASE bootAt[Boot] = "start"
      <3>1. Arrived \subseteq 1..nextId - 1
        <4>1. Boot \notin Arrived /\ nextId \notin Arrived
          BY <2>1 DEF Arrived, BootInv, StartInv
        <4>. QED
          BY <4>1, <1>6, <1>3 DEF Boot
      <3>2. IsFiniteSet(1..nextId - 1) /\ Cardinality(1..nextId - 1) = nextId - 1
        <4>1. nextId - 1 \in Nat
          BY <1>3, <1>5
        <4>. QED
          BY <4>1, Ranges
      <3>3. Cardinality(Arrived) <= nextId - 1
        BY <3>1, <3>2, FS_Subset
      <3>. QED
        BY <3>3, <1>1, <1>2, <1>3, <1>5
    <2>2. CASE bootAt[Boot] = "await"
      <3>1. Arrived \subseteq 1..nextId
        <4>1. Boot \notin Arrived
          BY <2>2 DEF Arrived
        <4>. QED
          BY <4>1, <1>6, <1>3 DEF Boot
      <3>2. IsFiniteSet(1..nextId) /\ Cardinality(1..nextId) = nextId
        BY <1>3, Ranges
      <3>3. Cardinality(Arrived) <= Cardinality(1..nextId)
        BY <3>1, <3>2, FS_Subset
      <3>4. nextId < config.totalProcs
        BY <2>2 DEF BootInv, SetUpInv
      <3>. QED
        BY <3>2, <3>3, <3>4, <1>1, <1>2, <1>3
    <2>. QED
      BY <1>4, <2>1, <2>2
  <1>8. nextId = config.totalProcs
    BY <1>7 DEF BootInv, SetUpInv
  <1>9. Arrived \subseteq 0..config.totalProcs - 1
    <2>1. nextId \notin Arrived
      BY <1>7 DEF Arrived, BootInv, StartInv
    <2>. QED
      BY <2>1, <1>3, <1>6, <1>8
  <1>10. IsFiniteSet(0..config.totalProcs - 1)
           /\ Cardinality(0..config.totalProcs - 1) = config.totalProcs
    BY <1>3, Ranges
  <1>11. /\ Cardinality(Arrived) <= Cardinality(0..config.totalProcs - 1)
         /\ Cardinality(0..config.totalProcs - 1) = Cardinality(Arrived)
                => 0..config.totalProcs - 1 = Arrived
    BY <1>9, <1>10, FS_Subset
  <1>12. Cardinality(Arrived) = config.totalProcs
    BY <1>1, <1>2, <1>3, <1>10, <1>11
  <1>. QED
    BY <1>10, <1>11, <1>12

(* On every machine the process init is made at most once, and not before  *)
(* every core that the kernel counts has its paging, its timer and its     *)
(* interrupts on.                                                          *)
THEOREM InitIsMadeLast == MachineSpec => []InitMadeLast
  <1>1. BootInv => InitMadeLast
    BY EverybodyArrived DEF InitMadeLast, Arrived, BootInv, ArriveInv
  <1>. QED
    BY <1>1, AlwaysBootInv, PTL

-----------------------------------------------------------------------------
(* Ide::read_block                                                         *)

(* The places in read_block between lock and unlock.                       *)
Locked == {"check", "busy", "outb", "drq", "inl", "unlock"}

(* The sector that the registers name after the outbs for sector s.        *)
Named(s) == RegisterValue(s, 3) + Radix * (RegisterValue(s, 4)
                + Radix * (RegisterValue(s, 5) + Radix * RegisterValue(s, 6)))

(* The first k words of a sector, and those behind them.                   *)
First(s, k) == [i \in 1..k |-> Sector(s)[i]]
Rest(s, k) == [i \in 1..Words - k |-> Sector(s)[k + i]]

(* The types.                                                              *)
IdeType ==
    /\ at \in [Cpu -> Locked \cup {"out", "lock", "back"}]
    /\ port \in [Cpu -> 2..8]
    /\ ideLock \in Cpu \cup {None}
    /\ sector = [c \in Cpu |-> sector[c]] /\ buffer = [c \in Cpu |-> buffer[c]]
    /\ reg = [p \in 2..6 |-> reg[p]]

(* Which register is next, by where the core is: 8 stands for a command    *)
(* that has been given.                                                    *)
PortInv(c) ==
    /\ at[c] \in {"out", "lock", "back"} => port[c] = 2
    /\ at[c] \in {"check", "busy"} => port[c] \in {2, 8}
    /\ at[c] = "outb" => port[c] \in 2..7
    /\ at[c] \in {"drq", "inl", "unlock"} => port[c] = 8

(* The registers the holder of the lock has written hold the parts of its  *)
(* sector.                                                                 *)
RegInv(c) ==
    ideLock = c => \A p \in 2..6 : p < port[c] => reg[p] = RegisterValue(sector[c], p)

(* Core c has stored k words of its sector, and the drive holds the rest.  *)
Transfer(c, k) ==
    /\ buffer[c] = First(Named(sector[c]), k)
    /\ fifo = Rest(Named(sector[c]), k)

(* What is in the buffer: nothing before the transfer, the whole sector    *)
(* behind it.                                                              *)
BufferInv(c) ==
    /\ at[c] \in {"out", "lock", "check", "busy", "outb", "drq"} => buffer[c] = <<>>
    /\ at[c] = "inl" => \E k \in 0..Words - 1 : Transfer(c, k)
    /\ at[c] \in {"unlock", "back"} => buffer[c] = Sector(Named(sector[c]))

(* What holds of a core in or out of read_block.                           *)
IdeCore(c) ==
    /\ at[c] \in Locked <=> ideLock = c
    /\ PortInv(c) /\ RegInv(c) /\ BufferInv(c)

(* A drive that is busy, or has data, works for the core that holds the    *)
(* lock, and has the data of that core's sector.                           *)
IdeDrive ==
    /\ "BSY" \in status =>
          /\ "DRQ" \notin status
          /\ ideLock \in Cpu /\ port[ideLock] = 8 /\ at[ideLock] \in {"check", "busy", "drq"}
    /\ "DRQ" \in status =>
          /\ ideLock \in Cpu /\ port[ideLock] = 8
          /\ at[ideLock] \in {"check", "busy", "drq", "inl"}
          /\ at[ideLock] # "inl" => fifo = Sector(Named(sector[ideLock]))

(* The inductive invariant of the disk.                                    *)
IdeInv == IdeType /\ (\A c \in Cpu : IdeCore(c)) /\ IdeDrive

(* Taking a word from the rest of a sector and storing it behind the first *)
(* ones.                                                                   *)
LEMMA WordLemma ==
    ASSUME NEW s, NEW k \in 0..Words - 1
    PROVE  /\ Rest(s, k) # <<>> /\ Len(Rest(s, k)) = Words - k
           /\ Append(First(s, k), Head(Rest(s, k))) = First(s, k + 1)
           /\ Tail(Rest(s, k)) = Rest(s, k + 1)
           /\ Len(First(s, k)) = k
           /\ First(s, 0) = <<>> /\ First(s, Words) = Sector(s) /\ Rest(s, 0) = Sector(s)
  <1>. DEFINE W == {Sector(s)[i] : i \in 1..Words}
  <1>1. Words \in Nat /\ k \in Nat /\ k < Words
    BY IdeAssumption
  <1>2. DOMAIN Sector(s) = 1..Words /\ Sector(s) = [i \in 1..Words |-> Sector(s)[i]]
    BY DEF Sector
  <1>3. \A i \in 1..Words : Sector(s)[i] \in W
    OBVIOUS
  <1>. HIDE DEF W
  <1>4. \A n \in 0..Words : First(s, n) \in Seq(W) /\ Len(First(s, n)) = n
    <2>. TAKE n \in 0..Words
    <2>1. n \in Nat /\ First(s, n) \in [1..n -> W]
      BY <1>1, <1>3 DEF First
    <2>. QED
      BY <2>1 DEF First
  <1>5. \A n \in 0..Words : Rest(s, n) \in Seq(W) /\ Len(Rest(s, n)) = Words - n
    <2>. TAKE n \in 0..Words
    <2>1. Words - n \in Nat /\ \A i \in 1..Words - n : n + i \in 1..Words
      BY <1>1
    <2>2. Rest(s, n) \in [1..Words - n -> W]
      BY <2>1, <1>3 DEF Rest
    <2>. QED
      BY <2>1, <2>2 DEF Rest
  <1>6. Len(Rest(s, k)) = Words - k /\ Rest(s, k) \in Seq(W) /\ Rest(s, k) # <<>>
    BY <1>1, <1>5
  <1>7. Head(Rest(s, k)) = Sector(s)[k + 1]
    BY <1>1, <1>6 DEF Rest
  <1>8. Append(First(s, k), Head(Rest(s, k))) = First(s, k + 1)
    <2>1. First(s, k) \in Seq(W) /\ Len(First(s, k)) = k
      BY <1>1, <1>4
    <2>2. Sector(s)[k + 1] \in W
      BY <1>1, <1>3
    <2>3. First(s, k + 1) \in Seq(W) /\ Len(First(s, k + 1)) = k + 1
      BY <1>1, <1>4
    <2>4. \A i \in 1..k + 1 :
              First(s, k + 1)[i] = IF i = k + 1 THEN Sector(s)[k + 1] ELSE First(s, k)[i]
      BY <1>1 DEF First
    <2>. QED
      BY <1>1, <1>7, <2>1, <2>2, <2>3, <2>4
  <1>9. Tail(Rest(s, k)) = Rest(s, k + 1)
    <2>1. Rest(s, k + 1) \in Seq(W) /\ Len(Rest(s, k + 1)) = Words - (k + 1)
      BY <1>1, <1>5
    <2>2. \A i \in 1..Words - (k + 1) : Rest(s, k + 1)[i] = Rest(s, k)[i + 1]
      <3>. TAKE i \in 1..Words - (k + 1)
      <3>1. i + 1 \in 1..Words - k /\ (k + 1) + i = k + (i + 1)
        BY <1>1
      <3>. QED
        BY <3>1 DEF Rest
    <2>. QED
      BY <1>1, <1>6, <2>1, <2>2
  <1>10. First(s, 0) = <<>>
    BY DEF First
  <1>11. First(s, Words) = Sector(s) /\ Rest(s, 0) = Sector(s)
    BY <1>1, <1>2 DEF First, Rest
  <1>12. Len(First(s, k)) = k
    BY <1>1, <1>4
  <1>. QED
    BY <1>6, <1>8, <1>9, <1>10, <1>11, <1>12

(* What holds of a core outlives a step of another, if that leaves the     *)
(* lock's owner and what it owns alone.                                    *)
LEMMA OtherCore ==
    ASSUME IdeInv, NEW c \in Cpu,
           at'[c] = at[c], port'[c] = port[c], sector'[c] = sector[c], buffer'[c] = buffer[c],
           ideLock' = c <=> ideLock = c,
           ideLock = c => reg' = reg /\ fifo' = fifo
    PROVE  IdeCore(c)'
  <1>1. IdeCore(c)
    BY DEF IdeInv
  <1>2. PortInv(c)' /\ (at'[c] \in Locked <=> ideLock' = c)
    BY <1>1 DEF IdeCore, PortInv
  <1>3. RegInv(c)'
    BY <1>1 DEF IdeCore, RegInv
  <1>4. BufferInv(c)'
    BY <1>1 DEF IdeCore, BufferInv, Transfer, Locked
  <1>. QED
    BY <1>2, <1>3, <1>4 DEF IdeCore

(* A call, a return, and the two looks at the status, change nothing but   *)
(* the core's own place and buffer.                                        *)
LEMMA QuietSteps ==
    ASSUME IdeInv, NEW c \in Cpu, NEW s,
           AskSector(c, s) \/ Consumed(c) \/ CheckDrive(c) \/ DriveIdle(c)
    PROVE  IdeInv'
  <1>. USE DEF IdeInv, IdeType
  <1>1. PICK to \in {"out", "lock", "busy", "outb", "drq"} :
            /\ at' = [at EXCEPT ![c] = to]
            /\ at[c] = "out" => to = "lock"
            /\ at[c] = "back" => to = "out"
            /\ at[c] = "check" => to = "busy"
            /\ at[c] = "busy" => to = (IF port[c] \in Port THEN "outb" ELSE "drq")
    BY DEF AskSector, Consumed, CheckDrive, DriveIdle, Goes
  <1>2. /\ at[c] \in {"out", "back", "check", "busy"}
        /\ UNCHANGED <<ideLock, port, reg, status, fifo>>
        /\ at[c] \in {"check", "busy"} => UNCHANGED <<sector, buffer>>
        /\ at[c] = "busy" => "BSY" \notin status
        /\ at[c] = "back" => buffer'[c] = <<>>
        /\ at[c] = "out" => buffer' = buffer
        /\ \A d \in Cpu : d # c => sector'[d] = sector[d] /\ buffer'[d] = buffer[d]
    BY DEF AskSector, Consumed, CheckDrive, DriveIdle, Goes
  <1>3. IdeCore(c)
    OBVIOUS
  <1>4. IdeType'
    <2>1. at' \in [Cpu -> Locked \cup {"out", "lock", "back"}]
      BY <1>1 DEF Locked
    <2>2. sector' = [d \in Cpu |-> sector'[d]] /\ buffer' = [d \in Cpu |-> buffer'[d]]
      BY DEF AskSector, Consumed, CheckDrive, DriveIdle
    <2>. QED
      BY <1>2, <2>1, <2>2
  <1>5. \A d \in Cpu : d # c => IdeCore(d)'
    BY <1>1, <1>2, OtherCore
  <1>6. at'[c] = to
    BY <1>1
  <1>7. at'[c] \in Locked <=> ideLock' = c
    BY <1>1, <1>2, <1>3, <1>6 DEF IdeCore, Locked
  <1>8. PortInv(c)'
    BY <1>1, <1>2, <1>3, <1>6 DEF IdeCore, PortInv, Port
  <1>9. RegInv(c)'
    BY <1>1, <1>2, <1>3, <1>7 DEF IdeCore, RegInv, Locked
  <1>10. BufferInv(c)'
    BY <1>1, <1>2, <1>3, <1>6 DEF IdeCore, BufferInv
  <1>11. IdeDrive'
    <2>1. CASE ideLock = c
      BY <2>1, <1>1, <1>2, <1>3, <1>6 DEF IdeDrive, IdeCore, Locked, Port
    <2>2. CASE ideLock # c
      BY <2>2, <1>1, <1>2 DEF IdeDrive
    <2>. QED
      BY <2>1, <2>2
  <1>. QED
    BY <1>4, <1>5, <1>7, <1>8, <1>9, <1>10, <1>11 DEF IdeCore

(* LockGuard: the one who takes the lock finds the drive idle, and the one *)
(* who gives it back leaves it so.                                         *)
LEMMA LockSteps ==
    ASSUME IdeInv, NEW c \in Cpu, LockDisk(c) \/ UnlockDisk(c)
    PROVE  IdeInv'
  <1>. USE DEF IdeInv, IdeType
  <1>1. IdeCore(c) /\ None \notin Cpu
    BY Cores
  <1>2. \/ /\ ideLock = None /\ ideLock' = c /\ at[c] = "lock" /\ port' = port
           /\ at' = [at EXCEPT ![c] = "check"]
        \/ /\ ideLock = c /\ ideLock' = None /\ at[c] = "unlock"
           /\ at' = [at EXCEPT ![c] = "back"] /\ port' = [port EXCEPT ![c] = 2]
    BY <1>1 DEF LockDisk, UnlockDisk, Goes, IdeCore, Locked
  <1>3. UNCHANGED <<sector, buffer, reg, status, fifo>>
    BY DEF LockDisk, UnlockDisk
  <1>4. IdeType'
    BY <1>2, <1>3 DEF Locked
  <1>5. \A d \in Cpu : d # c => IdeCore(d)'
    <2>. SUFFICES ASSUME NEW d \in Cpu, d # c PROVE IdeCore(d)'
      OBVIOUS
    <2>1. /\ at'[d] = at[d] /\ port'[d] = port[d] /\ sector'[d] = sector[d]
          /\ buffer'[d] = buffer[d]
      BY <1>2, <1>3
    <2>2. ideLock' = d <=> ideLock = d
      BY <1>1, <1>2
    <2>. QED
      BY <2>1, <2>2, <1>3, OtherCore
  <1>6. at'[c] \in Locked <=> ideLock' = c
    BY <1>1, <1>2 DEF Locked
  <1>7. PortInv(c)'
    BY <1>1, <1>2 DEF IdeCore, PortInv
  <1>8. RegInv(c)'
    BY <1>1, <1>2, <1>3 DEF IdeCore, RegInv, PortInv
  <1>9. BufferInv(c)'
    BY <1>1, <1>2, <1>3 DEF IdeCore, BufferInv
  <1>10. IdeDrive'
    BY <1>1, <1>2, <1>3 DEF IdeDrive
  <1>. QED
    BY <1>4, <1>5, <1>6, <1>7, <1>8, <1>9, <1>10 DEF IdeCore

(* Only the holder writes the registers, one after the other, and then the *)
(* command.                                                                *)
LEMMA OutbSteps ==
    ASSUME IdeInv, NEW c \in Cpu, Outb(c) \/ Command(c)
    PROVE  IdeInv'
  <1>. USE DEF IdeInv, IdeType
  <1>1. IdeCore(c) /\ at[c] = "outb" /\ ideLock = c /\ None \notin Cpu
    BY Cores DEF Outb, Command, Goes, IdeCore, Locked
  <1>2. UNCHANGED <<ideLock, sector, buffer>>
    BY DEF Outb, Command
  <1>3. \A d \in Cpu : d # c => IdeCore(d)'
    <2>. SUFFICES ASSUME NEW d \in Cpu, d # c PROVE IdeCore(d)'
      OBVIOUS
    <2>1. /\ at'[d] = at[d] /\ port'[d] = port[d] /\ sector'[d] = sector[d]
          /\ buffer'[d] = buffer[d]
      BY <1>2 DEF Outb, Command, Goes
    <2>. QED
      BY <2>1, <1>1, <1>2, OtherCore
  <1>4. "BSY" \notin status /\ "DRQ" \notin status
    BY <1>1 DEF IdeDrive
  <1>5. CASE Outb(c)
    <2>1. /\ port[c] \in 2..6 /\ at' = at /\ status' = status /\ fifo' = fifo
          /\ reg' = [reg EXCEPT ![port[c]] = RegisterValue(sector[c], port[c])]
          /\ port' = [port EXCEPT ![c] = port[c] + 1]
      BY <1>5, <1>1 DEF Outb, Goes
    <2>2. IdeType'
      <3>1. reg' = [p \in 2..6 |-> reg'[p]]
        BY <2>1
      <3>2. port[c] + 1 \in 2..8
        BY <2>1
      <3>3. port' \in [Cpu -> 2..8]
        BY <2>1, <3>2
      <3>. QED
        BY <1>2, <2>1, <3>1, <3>3
    <2>3. RegInv(c)'
      BY <1>1, <1>2, <2>1 DEF IdeCore, RegInv
    <2>4. PortInv(c)'
      BY <1>1, <2>1 DEF PortInv
    <2>5. BufferInv(c)'
      BY <1>1, <1>2, <2>1 DEF IdeCore, BufferInv
    <2>6. IdeDrive'
      BY <1>4, <2>1 DEF IdeDrive
    <2>. QED
      BY <1>1, <1>2, <1>3, <2>1, <2>2, <2>3, <2>4, <2>5, <2>6 DEF IdeCore
  <1>6. CASE Command(c)
    <2>1. /\ port[c] = 7 /\ at' = [at EXCEPT ![c] = "check"] /\ status' = {"DRDY", "BSY"}
          /\ reg' = reg /\ port' = [port EXCEPT ![c] = 8]
      BY <1>6 DEF Command, Goes
    <2>2. IdeType'
      BY <1>2, <2>1 DEF Locked
    <2>3. RegInv(c)'
      BY <1>1, <1>2, <2>1 DEF IdeCore, RegInv
    <2>4. PortInv(c)'
      BY <1>1, <2>1 DEF PortInv
    <2>5. BufferInv(c)'
      BY <1>1, <1>2, <2>1 DEF IdeCore, BufferInv
    <2>6. IdeDrive'
      BY <1>1, <1>2, <2>1 DEF IdeDrive
    <2>7. at'[c] \in Locked <=> ideLock' = c
      BY <1>1, <1>2, <2>1 DEF Locked
    <2>. QED
      BY <1>3, <2>2, <2>3, <2>4, <2>5, <2>6, <2>7 DEF IdeCore
  <1>. QED
    BY <1>5, <1>6

(* A drive that asks for the transfer has the sector of the core that sees *)
(* it.                                                                     *)
LEMMA DataRequestedStep ==
    ASSUME IdeInv, NEW c \in Cpu, DataRequested(c)
    PROVE  IdeInv'
  <1>. USE DEF IdeInv, IdeType
  <1>1. IdeCore(c) /\ at[c] = "drq" /\ ideLock = c /\ "DRQ" \in status
    BY DEF DataRequested, Goes, IdeCore, Locked
  <1>2. /\ UNCHANGED <<ideLock, port, sector, buffer, reg, status, fifo>>
        /\ at' = [at EXCEPT ![c] = "inl"]
    BY DEF DataRequested, Goes
  <1>3. \A d \in Cpu : d # c => IdeCore(d)'
    BY <1>1, <1>2, OtherCore
  <1>4. IdeType'
    BY <1>2 DEF Locked
  <1>5. PortInv(c)' /\ RegInv(c)' /\ (at'[c] \in Locked <=> ideLock' = c)
    BY <1>1, <1>2 DEF IdeCore, PortInv, RegInv, Locked
  <1>6. BufferInv(c)'
    <2>1. buffer[c] = <<>> /\ fifo = Sector(Named(sector[c]))
      BY <1>1 DEF IdeCore, BufferInv, IdeDrive
    <2>2. 0 \in 0..Words - 1
      BY IdeAssumption
    <2>3. Transfer(c, 0)
      BY <2>1, <2>2, WordLemma DEF Transfer
    <2>4. Transfer(c, 0)'
      BY <2>3, <1>2 DEF Transfer
    <2>5. at'[c] = "inl"
      BY <1>2
    <2>. QED
      BY <2>2, <2>4, <2>5 DEF BufferInv
  <1>7. IdeDrive'
    BY <1>1, <1>2 DEF IdeDrive
  <1>. QED
    BY <1>3, <1>4, <1>5, <1>6, <1>7 DEF IdeCore

(* One word goes from the drive to the buffer; the last one ends DRQ.      *)
LEMMA InlStep ==
    ASSUME IdeInv, NEW c \in Cpu, Inl(c)
    PROVE  IdeInv'
  <1>. USE DEF IdeInv, IdeType
  <1>1. IdeCore(c) /\ at[c] = "inl" /\ ideLock = c
    BY DEF Inl, Goes, IdeCore, Locked
  <1>2. PICK k \in 0..Words - 1 : Transfer(c, k)
    BY <1>1 DEF IdeCore, BufferInv
  <1>. DEFINE s == Named(sector[c])
  <1>3. k \in Nat /\ Words \in Nat /\ k + 1 <= Words
    BY IdeAssumption
  <1>4. fifo # <<>> /\ Len(fifo) = Words - k /\ Len(buffer[c]) = k
    BY <1>2, WordLemma DEF Transfer
  <1>5. /\ at' = [at EXCEPT ![c] = IF k + 1 = Words THEN "unlock" ELSE "inl"]
        /\ buffer' = [buffer EXCEPT ![c] = Append(buffer[c], Head(fifo))]
        /\ fifo' = Tail(fifo)
        /\ status' = IF Words - k = 1 THEN status \ {"DRQ"} ELSE status
        /\ UNCHANGED <<ideLock, port, sector, reg>>
    BY <1>4 DEF Inl, Goes
  <1>6. buffer'[c] = First(s, k + 1) /\ fifo' = Rest(s, k + 1)
    BY <1>2, <1>5, WordLemma DEF Transfer
  <1>7. \A d \in Cpu : d # c => IdeCore(d)'
    BY <1>1, <1>5, OtherCore
  <1>8. IdeType'
    BY <1>5 DEF Locked
  <1>9. PortInv(c)' /\ RegInv(c)' /\ (at'[c] \in Locked <=> ideLock' = c)
    BY <1>1, <1>5 DEF IdeCore, PortInv, RegInv, Locked
  <1>10. BufferInv(c)'
    <2>1. CASE k + 1 = Words
      BY <2>1, <1>5, <1>6, WordLemma DEF BufferInv
    <2>2. CASE k + 1 # Words
      <3>1. k + 1 \in 0..Words - 1 /\ at'[c] = "inl" /\ sector' = sector
        BY <2>2, <1>3, <1>5
      <3>2. Transfer(c, k + 1)'
        BY <1>6, <3>1 DEF Transfer
      <3>. QED
        BY <3>1, <3>2 DEF BufferInv
    <2>. QED
      BY <2>1, <2>2
  <1>11. IdeDrive'
    <2>1. "BSY" \notin status /\ "BSY" \notin status'
      BY <1>1, <1>5 DEF IdeDrive
    <2>2. CASE k + 1 = Words
      <3>1. "DRQ" \notin status'
        BY <2>2, <1>3, <1>5
      <3>. QED
        BY <2>1, <3>1 DEF IdeDrive
    <2>3. CASE k + 1 # Words
      BY <2>1, <2>3, <1>1, <1>3, <1>5 DEF IdeDrive, IdeCore, PortInv
    <2>. QED
      BY <2>2, <2>3
  <1>. QED
    BY <1>7, <1>8, <1>9, <1>10, <1>11 DEF IdeCore

(* The drive ends the command: with the sector its registers name, which   *)
(* is the holder's, or with an error.                                      *)
LEMMA DriveSteps ==
    ASSUME IdeInv, DriveStep
    PROVE  IdeInv'
  <1>. USE DEF IdeInv, IdeType
  <1>1. "BSY" \in status /\ UNCHANGED <<ideLock, at, port, sector, buffer, reg>>
    BY DEF DriveStep, DriveDelivers, DriveFails
  <1>2. ideLock \in Cpu /\ port[ideLock] = 8 /\ at[ideLock] \in {"check", "busy", "drq"}
    BY <1>1 DEF IdeDrive
  <1>3. IdeType'
    BY <1>1
  <1>4. ASSUME NEW c \in Cpu PROVE IdeCore(c)'
    <2>1. IdeCore(c)
      OBVIOUS
    <2>2. at[c] # "inl"
      BY <1>2, <2>1 DEF IdeCore, Locked
    <2>3. BufferInv(c)'
      BY <1>1, <2>1, <2>2 DEF IdeCore, BufferInv
    <2>. QED
      BY <1>1, <2>1, <2>3 DEF IdeCore, PortInv, RegInv
  <1>5. IdeDrive'
    <2>1. CASE DriveDelivers
      <3>1. \A p \in 2..6 : reg[p] = RegisterValue(sector[ideLock], p)
        BY <1>2 DEF IdeCore, RegInv
      <3>2. Addressed = Named(sector[ideLock])
        BY <3>1 DEF Addressed, Named
      <3>3. status' = {"DRDY", "DRQ"} /\ fifo' = Sector(Named(sector[ideLock]))
        BY <2>1, <3>2 DEF DriveDelivers
      <3>. QED
        BY <1>1, <1>2, <3>3 DEF IdeDrive
    <2>2. CASE DriveFails
      BY <2>2 DEF DriveFails, IdeDrive
    <2>. QED
      BY <2>1, <2>2 DEF DriveStep
  <1>. QED
    BY <1>3, <1>4, <1>5

(* The invariant is not about stopped.                                     *)
LEMMA IdeInvSame ==
    ASSUME IdeInv, UNCHANGED <<ideLock, at, port, sector, buffer, reg, status, fifo>>
    PROVE  IdeInv'
  BY DEF IdeInv, IdeType, IdeCore, IdeDrive, PortInv, RegInv, BufferInv, Transfer

(* The invariant holds at reset, whether there is a drive or not.          *)
LEMMA IdeInitInv ==
    ASSUME NEW present, IdeInit(present)
    PROVE  IdeInv
  <1>. USE Cores DEF IdeInit
  <1>1. IdeType
    BY DEF IdeType
  <1>2. \A c \in Cpu : IdeCore(c)
    BY DEF IdeCore, Locked, PortInv, RegInv, BufferInv
  <1>3. IdeDrive
    BY DEF IdeDrive
  <1>. QED
    BY <1>1, <1>2, <1>3 DEF IdeInv

(* Every step of the machine keeps the invariant of the disk.              *)
LEMMA IdeInvStep ==
    ASSUME IdeInv, [MachineNext]_everything
    PROVE  IdeInv'
  <1>1. \/ UNCHANGED <<ideLock, at, port, sector, buffer, reg, status, fifo>>
        \/ \E c \in Cpu : (\E s : AskSector(c, s)) \/ Consumed(c) \/ ReadStep(c)
        \/ DriveStep
    <2>1. CASE Booting(\E c \in Cpu : BootStep(c))
      BY <2>1
         DEF Booting, BootStep, PickKernelStack, KernelInit, SetUp, StartCore, Await, AllStarted,
                  Count, LocalApic, PerCoreInit, PitInit, Sti, Arrive, MakeInit, RunInit,
                  Alone, others, ide
    <2>2. CASE Booting(Constructors)
      BY <2>2, Cores
         DEF Booting, Constructors, StartMount, MountStep, ReadMore, TakeBlock,
                  GotSuper, GotGroups, GotRoot, ide
    <2>3. CASE Booting(\E c \in Cpu : ThreadReads(c) \/ DiskStep(c))
      BY <2>3 DEF Booting, ThreadReads, DiskStep
    <2>4. CASE Booting(Drive)
      BY <2>4 DEF Booting, Drive
    <2>5. CASE UNCHANGED machine
      BY <2>5 DEF machine, ide
    <2>. QED
      BY <2>1, <2>2, <2>3, <2>4, <2>5
      DEF MachineNext, Locking, Booting, BootNext, CoreStep, everything
  <1>2. ASSUME NEW c \in Cpu, DrivePanics(c) PROVE IdeInv'
    BY <1>2, IdeInvSame DEF DrivePanics
  <1>. QED
    BY <1>1, <1>2, IdeInvSame, QuietSteps, LockSteps, OutbSteps, DataRequestedStep, InlStep,
       DriveSteps DEF ReadStep

(* The invariant of the disk holds throughout.                             *)
LEMMA AlwaysIdeInv == MachineSpec => []IdeInv
  <1>1. MachineInit => IdeInv
    BY MachineBoots, IdeInitInv DEF BootInit
  <1>2. IdeInv /\ [MachineNext]_everything => IdeInv'
    BY IdeInvStep
  <1>. QED
    BY <1>1, <1>2, PTL DEF MachineSpec

(* The sector numbers that the four registers can hold: those below        *)
(* Radix^3 * Nibble, which is 2^28 for the real drive.                     *)
Addressable(s) == s \in Nat /\ ((s \div Radix) \div Radix) \div Radix < Nibble

(* Every sector asked for has such a number.                               *)
AllAddressable == \A c \in Cpu : Addressable(sector[c])

(* The parts of a sector number that fits, put together again, are the     *)
(* number.                                                                 *)
LEMMA NamesItself ==
    ASSUME NEW s, Addressable(s)
    PROVE  Named(s) = s
  <1>1. /\ Radix \in Nat /\ Radix > 0 /\ Nibble \in Nat /\ Nibble > 0
        /\ s \in Nat
    BY IdeAssumption DEF Addressable
  <1>2. \A n \in Nat : n = (n % Radix) + Radix * (n \div Radix) /\ n \div Radix \in Nat
    BY <1>1
  <1>3. \A n \in Nat : n < Nibble => n % Nibble = n
    BY <1>1
  <1>4. RegisterValue(s, 3) = s % Radix
    BY DEF RegisterValue
  <1>5. RegisterValue(s, 4) = (s \div Radix) % Radix
    BY DEF RegisterValue
  <1>6. RegisterValue(s, 5) = ((s \div Radix) \div Radix) % Radix
    BY DEF RegisterValue
  <1>7. RegisterValue(s, 6) = ((s \div Radix) \div Radix) \div Radix
    <2>1. RegisterValue(s, 6) = (((s \div Radix) \div Radix) \div Radix) % Nibble
      BY DEF RegisterValue
    <2>2. ((s \div Radix) \div Radix) \div Radix \in Nat
      BY <1>1, <1>2
    <2>. QED
      BY <2>1, <2>2, <1>3 DEF Addressable
  <1>. DEFINE a == s \div Radix
              b == a \div Radix
              d == b \div Radix
  <1>8. a \in Nat /\ b \in Nat /\ d \in Nat
    BY <1>1, <1>2
  <1>9. /\ s = (s % Radix) + Radix * a /\ a = (a % Radix) + Radix * b
        /\ b = (b % Radix) + Radix * d
    BY <1>1, <1>2, <1>8
  <1>10. Named(s) = (s % Radix) + Radix * ((a % Radix) + Radix * ((b % Radix) + Radix * d))
    BY <1>4, <1>5, <1>6, <1>7 DEF Named
  <1>. QED
    BY <1>9, <1>10

(* For any number of cores and any size of sector: a core that returns     *)
(* from read_block has all the words of its sector in order, whatever the  *)
(* other cores read meanwhile.  The condition is the drive's own limit of  *)
(* 28-bit sector numbers, which the code does not check: a larger one is   *)
(* cut off, and another sector read.                                       *)
THEOREM ReadsAreWhole ==
    MachineSpec => [](AllAddressable => ReadsTheSector)
  <1>1. IdeInv => (AllAddressable => ReadsTheSector)
    BY NamesItself DEF AllAddressable, IdeInv, IdeCore, BufferInv, ReadsTheSector
  <1>. QED
    BY <1>1, AlwaysIdeInv, PTL

-----------------------------------------------------------------------------
(* Ext2::Ext2                                                              *)

(* n bytes from a place on the disk.                                       *)
Run(from, n) == [i \in 1..n |-> from + i - 1]

(* How far read_all is with total bytes from a place on the disk: what is  *)
(* read is the bytes from there.                                           *)
Read(from, total) ==
    /\ from \in Nat /\ total \in Nat /\ offset \in Nat /\ left \in Nat
    /\ from <= offset /\ offset + left = from + total
    /\ bytes = Run(from, offset - from)

(* The group of the root, where its i-node is, and the groups that         *)
(* Ext2::Ext2 counts.                                                      *)
Group == 1 \div disk.iNodesPerGroup
Root == disk.iNodeTables[1 + Group] * DiskBlock + (1 % disk.iNodesPerGroup) * disk.iNodeSize
Counted == (disk.blocks + disk.perGroup - 1) \div disk.perGroup

(* The super block has been read, and the table of groups.                 *)
Sizes == fs.blockSize = DiskBlock /\ fs.nGroups = Counted
Tables == \A g \in 1..DiskGroups : fs.iNodeTables[g] = disk.iNodeTables[g]

(* The inductive invariant of the constructor Ext2::Ext2: which of its     *)
(* three reads it is in and how far, and what it has learnt.  Until it     *)
(* ends no thread reads on the boot processor, because the set-ups wait    *)
(* for it.                                                                 *)
MountInv ==
    /\ mount \in {"none", "super", "groups", "root", "mounted"}
    /\ IsDisk(disk)
    /\ DOMAIN fs = {"blockSize", "nGroups", "iNodeTables", "root"}
    /\ mount \in {"none", "super"} => Read(2 * Words, 2 * Words)
    /\ mount \in {"groups", "root", "mounted"} => Sizes
    /\ mount = "groups" => Read(GroupTable(DiskBlock), DescSize * Counted)
    /\ mount \in {"root", "mounted"} => Tables
    /\ mount = "root" /\ ~stopped => Read(Root, NodeSize)
    /\ mount = "mounted" => fs.root = Run(Root, NodeSize)
    /\ mount # "mounted" /\ at[Boot] # "out" =>
           mount # "none" /\ sector[Boot] = offset \div Words
    /\ bootAt[Boot] \notin {"entry", "kernelInit", "setUp"} \/ step > 5 => mount = "mounted"

(* What division and remainder are.                                        *)
LEMMA Division ==
    ASSUME NEW n \in Nat, NEW p \in Nat \ {0}
    PROVE  /\ n \div p \in Nat /\ n % p \in Nat /\ n % p < p
           /\ n = (n \div p) * p + (n % p)
  <1>1. n \div p \in Nat
    OBVIOUS
  <1>2. n % p \in Nat /\ n % p < p
    OBVIOUS
  <1>3. n = (n % p) + p * (n \div p)
    OBVIOUS
  <1>4. p * (n \div p) = (n \div p) * p
    BY <1>1
  <1>. QED
    BY <1>1, <1>2, <1>3, <1>4

(* Only one quotient has a remainder below the divisor.                    *)
LEMMA Quotient ==
    ASSUME NEW n \in Nat, NEW p \in Nat \ {0}, NEW q \in Nat, NEW r \in Nat,
           n = q * p + r, r < p
    PROVE  n \div p = q
  <1>1. n \div p \in Nat /\ n % p \in Nat /\ n % p < p /\ n = (n \div p) * p + (n % p)
    BY Division
  <1>. DEFINE m == n \div p
  <1>2. m \in Nat
    BY <1>1
  <1>. HIDE DEF m
  <1>3. m * p < (q + 1) * p /\ q * p < (m + 1) * p
    BY <1>1, <1>2 DEF m
  <1>4. CASE m > q
    <2>1. m >= q + 1
      BY <1>2, <1>4
    <2>2. m * p >= (q + 1) * p
      BY <1>2, <2>1
    <2>. QED
      BY <1>2, <1>3, <2>2
  <1>5. CASE m < q
    <2>1. q >= m + 1
      BY <1>2, <1>5
    <2>2. q * p >= (m + 1) * p
      BY <1>2, <2>1
    <2>. QED
      BY <1>2, <1>3, <2>2
  <1>. QED
    BY <1>2, <1>4, <1>5 DEF m

(* The code counts the groups from block 0, the disk from FirstBlock: it   *)
(* counts as many, or one more.                                            *)
LEMMA GroupsCounted ==
    ASSUME IsDisk(disk)
    PROVE  Counted \in DiskGroups..DiskGroups + 1 /\ DiskGroups \in Nat /\ Counted \in Nat
  <1>. DEFINE p == disk.perGroup
              x == disk.blocks - FirstOf(disk) + p - 1
              q == x \div p
              r == x % p
  <1>1. p \in Nat \ {0} /\ disk.blocks \in Nat \ {0} /\ FirstOf(disk) \in {0, 1}
    BY DEF IsDisk, FirstOf
  <1>2. x \in Nat /\ disk.blocks + p - 1 = x + FirstOf(disk)
    BY <1>1
  <1>3. q \in Nat /\ r \in Nat /\ r < p /\ x = q * p + r
    BY <1>1, <1>2, Division
  <1>4. DiskGroups = q
    BY DEF DiskGroups, Groups
  <1>5. Counted = (x + FirstOf(disk)) \div p
    BY <1>2 DEF Counted
  <1>. HIDE DEF p, x, q, r
  <1>6. CASE FirstOf(disk) = 0 \/ r + 1 < p
    <2>1. x + FirstOf(disk) = q * p + (r + FirstOf(disk)) /\ r + FirstOf(disk) < p
          /\ x + FirstOf(disk) \in Nat /\ r + FirstOf(disk) \in Nat
      BY <1>1, <1>2, <1>3, <1>6
    <2>2. (x + FirstOf(disk)) \div p = q
      BY <1>1, <1>3, <2>1, Quotient
    <2>. QED
      BY <1>3, <1>4, <1>5, <2>2
  <1>7. CASE FirstOf(disk) = 1 /\ r + 1 = p
    <2>1. x + 1 = (q + 1) * p + 0 /\ x + 1 \in Nat /\ q + 1 \in Nat
      BY <1>1, <1>2, <1>3, <1>7
    <2>2. (x + 1) \div p = q + 1
      BY <1>1, <1>3, <2>1, Quotient
    <2>. QED
      BY <1>3, <1>4, <1>5, <1>7, <2>2
  <1>. QED
    BY <1>1, <1>3, <1>6, <1>7

(* groupTableNumber * blockSize is the block behind that of the super      *)
(* block, for every size of block.                                         *)
LEMMA TableIsThere ==
    ASSUME IsDisk(disk)
    PROVE  /\ DiskBlock \in Nat \ {0}
           /\ GroupTable(DiskBlock) = (FirstBlock + 1) * DiskBlock
           /\ GroupTable(DiskBlock) \in Nat
  <1>1. /\ Words \in Nat \ {0} /\ 2^disk.log \in Nat \ {0}
        /\ (2^disk.log = 1 <=> disk.log = 0)
    BY IdeAssumption DEF IsDisk
  <1>. DEFINE k == 2^disk.log
              W == 2 * Words
  <1>2. k \in Nat \ {0} /\ W \in Nat \ {0}
    BY <1>1
  <1>3. DiskBlock = k * W
    BY <1>1 DEF DiskBlock
  <1>4. (k = 1 <=> FirstBlock = 1) /\ FirstBlock \in {0, 1}
    BY <1>1 DEF FirstBlock, FirstOf
  <1>. HIDE DEF k, W
  <1>5. k * W \in Nat \ {0}
    BY <1>2
  <1>6. W \div (k * W) = FirstBlock
    <2>1. CASE k = 1
      <3>1. W = 1 * (k * W) + 0
        BY <1>2, <2>1
      <3>. QED
        BY <1>2, <1>4, <1>5, <2>1, <3>1, Quotient
    <2>2. CASE k # 1
      <3>1. k >= 2
        BY <1>2, <2>2
      <3>2. W < k * W /\ W = 0 * (k * W) + W
        BY <1>2, <3>1
      <3>. QED
        BY <1>2, <1>4, <1>5, <2>2, <3>2, Quotient
    <2>. QED
      BY <2>1, <2>2
  <1>7. GroupTable(DiskBlock) = (FirstBlock + 1) * DiskBlock
    BY <1>3, <1>6 DEF GroupTable, W
  <1>. QED
    BY <1>3, <1>4, <1>5, <1>7

(* The descriptor the code reads for a group is the one the disk has for   *)
(* it.                                                                     *)
LEMMA DescriptorRead ==
    ASSUME IsDisk(disk), NEW g \in 1..DiskGroups
    PROVE  TableAt(GroupTable(DiskBlock) + (g - 1) * DescSize) = disk.iNodeTables[g]
  <1>1. /\ DescSize \in Nat \ {0} /\ DiskGroups \in Nat /\ g \in Nat
        /\ g - 1 \in 0..DiskGroups - 1
    BY MountAssumption, IdeAssumption, GroupsCounted
  <1>2. /\ GroupTable(DiskBlock) = (FirstBlock + 1) * DiskBlock
        /\ GroupTable(DiskBlock) \in Nat
    BY TableIsThere
  <1>. DEFINE T == (FirstBlock + 1) * DiskBlock
              p == GroupTable(DiskBlock) + (g - 1) * DescSize
              G == {h \in 0..DiskGroups - 1 : p = Descriptor(h)}
  <1>3. ASSUME NEW h \in 0..DiskGroups - 1
        PROVE  p = Descriptor(h) <=> h = g - 1
    <2>1. Descriptor(h) = T + h * DescSize /\ T \in Nat /\ p = T + (g - 1) * DescSize
      BY <1>2 DEF Descriptor
    <2>. HIDE DEF T, p
    <2>2. h \in Nat
      BY <1>1
    <2>3. h * DescSize \in Nat /\ (g - 1) * DescSize \in Nat
      BY <1>1, <2>2
    <2>4. CASE h < g - 1
      <3>1. h * DescSize < (g - 1) * DescSize
        BY <1>1, <2>2, <2>4
      <3>. QED
        BY <1>1, <2>1, <2>2, <2>3, <2>4, <3>1
    <2>5. CASE h > g - 1
      <3>1. h * DescSize > (g - 1) * DescSize
        BY <1>1, <2>2, <2>5
      <3>. QED
        BY <1>1, <2>1, <2>2, <2>3, <2>5, <3>1
    <2>6. CASE h = g - 1
      BY <2>1, <2>6
    <2>. QED
      BY <1>1, <2>2, <2>4, <2>5, <2>6
  <1>4. G = {g - 1}
    BY <1>1, <1>3
  <1>5. TableAt(p) = IF G = {} THEN 0 ELSE disk.iNodeTables[1 + CHOOSE h \in G : TRUE]
    BY DEF TableAt
  <1>. HIDE DEF G, p
  <1>6. (CHOOSE h \in G : TRUE) = g - 1
    BY <1>4
  <1>7. TableAt(p) = disk.iNodeTables[1 + (g - 1)]
    BY <1>4, <1>5, <1>6
  <1>8. 1 + (g - 1) = g
    BY <1>1
  <1>. QED
    BY <1>7, <1>8 DEF p

(* What read takes of a block: n words of it, from word k on.              *)
LEMMA PartOf ==
    ASSUME NEW s \in Seq(Nat), NEW k \in Nat, NEW n \in Nat, k + n <= Len(s)
    PROVE  /\ Part(s, k, n) \in Seq(Nat) /\ Len(Part(s, k, n)) = n
           /\ \A i \in 1..n : Part(s, k, n)[i] = s[k + i]
  <1>1. \A i \in k + 1..k + n : s[i] \in Nat
    <2>. TAKE i \in k + 1..k + n
    <2>1. i \in 1..Len(s)
      OBVIOUS
    <2>. QED
      BY <2>1
  <1>. DEFINE m == k + 1
              l == k + n
  <1>2. m \in Int /\ l \in Int
    OBVIOUS
  <1>3. l - m + 1 = n /\ (m <= l <=> n > 0) /\ \A i \in 1..n : m + i - 1 = k + i
    OBVIOUS
  <1>. HIDE DEF m, l
  <1>4. /\ SubSeq(s, m, l) \in Seq(Nat)
        /\ Len(SubSeq(s, m, l)) = IF m <= l THEN l - m + 1 ELSE 0
        /\ \A i \in 1..l - m + 1 : SubSeq(s, m, l)[i] = s[m + i - 1]
    <2>1. \A i \in m..l : s[i] \in Nat
      BY <1>1 DEF m, l
    <2>. QED
      BY <1>2, <2>1, SubSeqProperties
  <1>5. Len(SubSeq(s, m, l)) = n
    BY <1>3, <1>4
  <1>6. \A i \in 1..n : SubSeq(s, m, l)[i] = s[k + i]
    BY <1>3, <1>4
  <1>. QED
    BY <1>4, <1>5, <1>6 DEF m, l, Part

(* Concatenation, under a name that the provers leave alone.               *)
Joined(a, b) == a \o b

(* What concatenation is.                                                  *)
LEMMA JoinedIs ==
    ASSUME NEW a \in Seq(Nat), NEW b \in Seq(Nat)
    PROVE  /\ Joined(a, b) \in Seq(Nat) /\ Len(Joined(a, b)) = Len(a) + Len(b)
           /\ \A i \in 1..Len(a) + Len(b) :
                  Joined(a, b)[i] = IF i <= Len(a) THEN a[i] ELSE b[i - Len(a)]
  BY ConcatProperties DEF Joined

(* What a run of bytes is.                                                 *)
LEMMA RunIs ==
    ASSUME NEW from \in Nat, NEW m \in Nat
    PROVE  /\ Run(from, m) \in Seq(Nat) /\ Len(Run(from, m)) = m
           /\ \A i \in 1..m : Run(from, m)[i] = from + i - 1
  <1>1. \A i \in 1..m : from + i - 1 \in Nat
    OBVIOUS
  <1>2. Run(from, m) \in [1..m -> Nat]
    BY <1>1 DEF Run
  <1>3. Run(from, m) \in Seq(Nat) /\ Len(Run(from, m)) = m
    BY <1>2
  <1>4. \A i \in 1..m : Run(from, m)[i] = from + i - 1
    BY DEF Run
  <1>. QED
    BY <1>3, <1>4

(* A run of bytes, followed by the part of a sector that begins where the  *)
(* run ends, is a longer run.                                              *)
LEMMA Taken ==
    ASSUME NEW from \in Nat, NEW m \in Nat, NEW x \in Nat, NEW start \in Nat, NEW n \in Nat,
           from + m = x + start, start + n <= Words
    PROVE  Joined(Run(from, m), Part(Run(x, Words), start, n)) = Run(from, m + n)
  <1>. DEFINE a == Run(from, m)
              b == Part(Run(x, Words), start, n)
              c == Run(from, m + n)
  <1>1. Words \in Nat
    BY IdeAssumption
  <1>3. a \in Seq(Nat) /\ Len(a) = m /\ \A i \in 1..m : a[i] = from + i - 1
    BY RunIs
  <1>5. /\ Run(x, Words) \in Seq(Nat) /\ Len(Run(x, Words)) = Words
        /\ \A i \in 1..Words : Run(x, Words)[i] = x + i - 1
    BY <1>1, RunIs
  <1>6. b \in Seq(Nat) /\ Len(b) = n /\ \A i \in 1..n : b[i] = Run(x, Words)[start + i]
    BY <1>5, PartOf
  <1>7. \A i \in 1..n : b[i] = from + m + i - 1
    <2>. TAKE i \in 1..n
    <2>1. start + i \in 1..Words
      BY <1>1
    <2>2. b[i] = x + (start + i) - 1
      BY <1>5, <1>6, <2>1
    <2>. QED
      BY <2>2
  <1>8. m + n \in Nat
    OBVIOUS
  <1>9. c \in Seq(Nat) /\ Len(c) = m + n /\ \A i \in 1..m + n : c[i] = from + i - 1
    <2>. DEFINE k == m + n
    <2>. HIDE DEF k
    <2>1. Run(from, k) \in Seq(Nat) /\ Len(Run(from, k)) = k
          /\ \A i \in 1..k : Run(from, k)[i] = from + i - 1
      BY <1>8, RunIs DEF k
    <2>. QED
      BY <2>1 DEF k
  <1>. HIDE DEF a, b, c
  <1>10. Joined(a, b) \in Seq(Nat) /\ Len(Joined(a, b)) = m + n
         /\ \A i \in 1..m + n : Joined(a, b)[i] = IF i <= m THEN a[i] ELSE b[i - m]
    BY <1>3, <1>6, JoinedIs
  <1>11. \A i \in 1..m + n : Joined(a, b)[i] = c[i]
    <2>. TAKE i \in 1..m + n
    <2>1. CASE i <= m
      BY <1>3, <1>9, <1>10, <2>1
    <2>2. CASE i > m
      <3>1. i - m \in 1..n
        BY <2>2
      <3>2. Joined(a, b)[i] = b[i - m] /\ b[i - m] = from + m + (i - m) - 1
        BY <1>7, <1>10, <2>2, <3>1
      <3>3. c[i] = from + i - 1
        BY <1>9
      <3>. QED
        BY <3>2, <3>3
    <2>3. i \in Nat
      OBVIOUS
    <2>. QED
      BY <2>1, <2>2, <2>3
  <1>12. Joined(a, b) = c
    <2>1. /\ Len(Joined(a, b)) = Len(c)
          /\ \A i \in 1..Len(Joined(a, b)) : Joined(a, b)[i] = c[i]
      BY <1>9, <1>10, <1>11
    <2>2. \A s, t \in Seq(Nat) : Len(s) = Len(t) /\ (\A i \in 1..Len(s) : s[i] = t[i]) => s = t
      BY SeqEqual
    <2>. QED
      BY <1>9, <1>10, <2>1, <2>2
  <1>. QED
    BY <1>12 DEF a, b, c

(* A read begins with nothing read.                                        *)
LEMMA ReadEmpty ==
    ASSUME NEW f \in Nat, NEW n \in Nat, offset = f, left = n, bytes = <<>>
    PROVE  Read(f, n)
  <1>1. Run(f, f - f) = <<>>
    BY DEF Run
  <1>. QED
    BY <1>1 DEF Read

(* The invariant holds at reset, on every machine.                         *)
LEMMA MountInitInv ==
    ASSUME NEW h \in Hardware, BootInit(h)
    PROVE  MountInv
  <1>1. IsDisk(disk)
    BY BootAssumption DEF BootInit
  <1>2. 2 * Words \in Nat
    BY IdeAssumption
  <1>3. Read(2 * Words, 2 * Words)
    BY <1>2, ReadEmpty DEF BootInit, MountInit
  <1>4. Boot \in Cpu
    BY Cores
  <1>. QED
    BY <1>1, <1>3, <1>4 DEF BootInit, MountInit, IdeInit, MountInv

(* What becomes of the invariant when the constructor does nothing.        *)
LEMMA MountSame ==
    ASSUME MountInv, UNCHANGED mounting, stopped => stopped',
           mount # "mounted" /\ at'[Boot] # "out" =>
               at[Boot] # "out" /\ sector'[Boot] = sector[Boot],
           bootAt'[Boot] \notin {"entry", "kernelInit", "setUp"} \/ step' > 5 => mount = "mounted"
    PROVE  MountInv'
  <1>1. UNCHANGED <<disk, mount, offset, left, bytes, fs>>
    BY DEF mounting
  <1>2. /\ DiskBlock' = DiskBlock /\ Counted' = Counted /\ Root' = Root
        /\ DiskGroups' = DiskGroups
    BY <1>1 DEF DiskBlock, Counted, Root, Group, DiskGroups
  <1>3. ASSUME NEW f, NEW n, Read(f, n) PROVE Read(f, n)'
    BY <1>1, <1>3 DEF Read
  <1>4. (Sizes => Sizes') /\ (Tables => Tables')
    BY <1>1, <1>2 DEF Sizes, Tables
  <1>5. /\ Read(2 * Words, 2 * Words) => Read(2 * Words, 2 * Words)'
        /\ Read(GroupTable(DiskBlock), DescSize * Counted)
               => Read(GroupTable(DiskBlock), DescSize * Counted)'
        /\ Read(Root, NodeSize) => Read(Root, NodeSize)'
    BY <1>1, <1>2, <1>3 DEF Read, GroupTable
  <1>. QED
    BY <1>1, <1>2, <1>4, <1>5 DEF MountInv

(* The loop of read_all: the next part of a block is behind what has been  *)
(* read.                                                                   *)
LEMMA ReadOn ==
    ASSUME NEW f, NEW t, Read(f, t), TakeBlock, buffer[Boot] = Sector(offset \div Words)
    PROVE  Read(f, t)'
  <1>. DEFINE start == offset % Words
              n == Smaller(Words - start, left)
  <1>1. /\ bytes' = Joined(bytes, Part(buffer[Boot], start, n))
        /\ offset' = offset + n /\ left' = left - n
    BY DEF TakeBlock, Joined
  <1>2. /\ f \in Nat /\ t \in Nat /\ offset \in Nat /\ left \in Nat /\ f <= offset
        /\ offset + left = f + t /\ bytes = Run(f, offset - f)
    BY DEF Read
  <1>3. /\ n \in Nat /\ n <= left
        /\ Joined(bytes, Part(Sector(offset \div Words), start, n))
               = Run(f, offset + n - f)
    <2>1. Words \in Nat \ {0}
      BY IdeAssumption
    <2>2. /\ offset \div Words \in Nat /\ start \in Nat /\ start < Words
          /\ offset = (offset \div Words) * Words + start
      BY <1>2, <2>1, Division
    <2>3. n \in Nat /\ n <= left /\ start + n <= Words
      BY <1>2, <2>1, <2>2 DEF Smaller
    <2>. HIDE DEF start, n
    <2>. DEFINE x == (offset \div Words) * Words
                m == offset - f
    <2>4. x \in Nat /\ m \in Nat /\ f + m = x + start /\ m + n = offset + n - f
      BY <1>2, <2>1, <2>2, <2>3
    <2>5. bytes = Run(f, m) /\ Sector(offset \div Words) = Run(x, Words)
      BY <1>2 DEF Sector, Run
    <2>. HIDE DEF x, m
    <2>6. Joined(Run(f, m), Part(Run(x, Words), start, n)) = Run(f, m + n)
      BY <1>2, <2>2, <2>3, <2>4, Taken
    <2>. QED
      BY <2>3, <2>4, <2>5, <2>6
  <1>. HIDE DEF n, start
  <1>4. bytes' = Run(f, offset' - f)
    BY <1>1, <1>2, <1>3
  <1>5. offset' \in Nat /\ left' \in Nat /\ f <= offset' /\ offset' + left' = f + t
    BY <1>1, <1>2, <1>3
  <1>. QED
    BY <1>2, <1>4, <1>5 DEF Read

(* A block has been read, and it is the one that was asked for (IdeInv).   *)
LEMMA TakeBlockStep ==
    ASSUME MountInv, IdeInv, BootInv, Addressable(sector[Boot]), TakeBlock, UNCHANGED booting
    PROVE  MountInv'
  <1>. USE Cores
  <1>1. /\ mount # "mounted" /\ at[Boot] = "back" /\ ~stopped
        /\ UNCHANGED <<disk, mount, fs, stopped>>
    BY DEF TakeBlock, Consumed, Goes
  <1>2. at'[Boot] = "out"
    BY DEF TakeBlock, Consumed, Goes, IdeInv, IdeType
  <1>3. mount # "none" /\ sector[Boot] = offset \div Words
    BY <1>1 DEF MountInv
  <1>4. buffer[Boot] = Sector(offset \div Words)
    BY <1>1, <1>3, NamesItself DEF IdeInv, IdeCore, BufferInv
  <1>5. ASSUME NEW f, NEW t, Read(f, t) PROVE Read(f, t)'
    BY <1>4, <1>5, ReadOn
  <1>6. /\ DiskBlock' = DiskBlock /\ Counted' = Counted /\ Root' = Root
        /\ DiskGroups' = DiskGroups
    BY <1>1 DEF DiskBlock, Counted, Root, Group, DiskGroups
  <1>7. (Sizes => Sizes') /\ (Tables => Tables')
    BY <1>1, <1>6 DEF Sizes, Tables
  <1>8. /\ Read(2 * Words, 2 * Words) => Read(2 * Words, 2 * Words)'
        /\ Read(GroupTable(DiskBlock), DescSize * Counted)
               => Read(GroupTable(DiskBlock), DescSize * Counted)'
        /\ Read(Root, NodeSize) => Read(Root, NodeSize)'
    BY <1>5, <1>6 DEF Read, GroupTable
  <1>9. bootAt'[Boot] = bootAt[Boot] /\ step' = step
    BY DEF booting
  <1>. QED
    BY <1>1, <1>2, <1>3, <1>6, <1>7, <1>8, <1>9 DEF MountInv

(* The super block gives the place and the length of the table of groups.  *)
LEMMA GotSuperStep ==
    ASSUME MountInv, GotSuper, UNCHANGED booting
    PROVE  MountInv'
  <1>1. /\ mount = "super" /\ at[Boot] = "out" /\ mount' = "groups"
        /\ UNCHANGED <<disk, at, bootAt, step>>
    BY DEF GotSuper, ReadAllReturns, ide, booting
  <1>2. DiskBlock' = DiskBlock /\ Counted' = Counted /\ IsDisk(disk)
    BY <1>1 DEF DiskBlock, Counted, MountInv
  <1>3. /\ offset' = GroupTable(DiskBlock) /\ left' = DescSize * Counted /\ bytes' = <<>>
        /\ fs' = [fs EXCEPT !.blockSize = DiskBlock, !.nGroups = Counted]
    BY DEF GotSuper, DiskBlock, Counted
  <1>4. Sizes' /\ DOMAIN fs' = {"blockSize", "nGroups", "iNodeTables", "root"}
    BY <1>2, <1>3 DEF Sizes, MountInv
  <1>5. GroupTable(DiskBlock) \in Nat /\ DescSize * Counted \in Nat
    <2>1. Counted \in Nat /\ DescSize \in Nat
      BY <1>2, GroupsCounted, MountAssumption, IdeAssumption
    <2>. QED
      BY <1>2, <2>1, TableIsThere
  <1>6. Read(GroupTable(DiskBlock), DescSize * Counted)'
    <2>. DEFINE f == GroupTable(DiskBlock)
                n == DescSize * Counted
    <2>1. f' = f /\ n' = n
      BY <1>2 DEF GroupTable
    <2>2. f \in Nat /\ n \in Nat /\ offset' = f /\ left' = n /\ bytes' = <<>>
      BY <1>3, <1>5
    <2>. HIDE DEF f, n
    <2>3. Run(f, f - f) = <<>>
      BY <2>2 DEF Run
    <2>4. Read(f, n)'
      BY <2>1, <2>2, <2>3 DEF Read
    <2>. QED
      BY <2>4 DEF f, n
  <1>. QED
    BY <1>1, <1>2, <1>4, <1>6 DEF MountInv

(* The table gives the i-nodes of every group, and thereby the place of    *)
(* the root, or get_node panics.                                           *)
LEMMA GotGroupsStep ==
    ASSUME MountInv, GotGroups, UNCHANGED booting
    PROVE  MountInv'
  <1>1. /\ mount = "groups" /\ at[Boot] = "out" /\ left = 0 /\ mount' = "root"
        /\ UNCHANGED <<disk, at, bootAt, step>>
    BY DEF GotGroups, ReadAllReturns, booting
  <1>2. /\ IsDisk(disk) /\ Sizes /\ Read(GroupTable(DiskBlock), DescSize * Counted)
        /\ DOMAIN fs = {"blockSize", "nGroups", "iNodeTables", "root"}
    BY <1>1 DEF MountInv
  <1>. DEFINE T == GroupTable(DiskBlock)
              tables == [g \in 1..fs.nGroups |-> TableAt(bytes[(g - 1) * DescSize + 1])]
              group == 1 \div disk.iNodesPerGroup
              sane == group < fs.nGroups /\ tables[group + 1] <= disk.blocks
  <1>3. /\ fs' = [fs EXCEPT !.iNodeTables = tables] /\ stopped' = ~sane
        /\ offset' = IF sane THEN tables[group + 1] * fs.blockSize
                                      + (1 % disk.iNodesPerGroup) * disk.iNodeSize ELSE 0
        /\ left' = NodeSize /\ bytes' = <<>>
    BY DEF GotGroups
  <1>4. /\ DescSize \in Nat \ {0} /\ Counted \in Nat /\ DiskGroups \in Nat
        /\ DiskGroups <= Counted /\ T \in Nat
    BY <1>2, GroupsCounted, TableIsThere, MountAssumption, IdeAssumption
  <1>. HIDE DEF T
  <1>5. bytes = Run(T, DescSize * Counted)
    <2>1. offset - T = DescSize * Counted
      BY <1>1, <1>2, <1>4 DEF Read, T
    <2>. QED
      BY <1>2, <2>1 DEF Read, T
  <1>6. \A g \in 1..DiskGroups : tables[g] = disk.iNodeTables[g]
    <2>. TAKE g \in 1..DiskGroups
    <2>1. g \in 1..fs.nGroups /\ g \in 1..Counted
      BY <1>2, <1>4 DEF Sizes
    <2>2. (g - 1) * DescSize + 1 \in 1..DescSize * Counted
      <3>1. (g - 1) * DescSize \in Nat
        BY <1>4, <2>1
      <3>2. g * DescSize <= Counted * DescSize
        BY <1>4, <2>1
      <3>3. (g - 1) * DescSize = g * DescSize - DescSize
        BY <1>4, <2>1
      <3>. QED
        BY <1>4, <2>1, <3>1, <3>2, <3>3
    <2>3. bytes[(g - 1) * DescSize + 1] = T + (g - 1) * DescSize
      <3>1. bytes[(g - 1) * DescSize + 1] = T + ((g - 1) * DescSize + 1) - 1
        BY <1>5, <2>2 DEF Run
      <3>2. (g - 1) * DescSize \in Nat
        BY <1>4, <2>1
      <3>. QED
        BY <1>4, <3>1, <3>2
    <2>4. TableAt(T + (g - 1) * DescSize) = disk.iNodeTables[g]
      BY <1>2, DescriptorRead DEF T
    <2>. QED
      BY <2>1, <2>3, <2>4
  <1>. HIDE DEF tables
  <1>7. /\ Sizes' /\ Tables'
        /\ DOMAIN fs' = {"blockSize", "nGroups", "iNodeTables", "root"}
    <2>1. /\ fs'.iNodeTables = tables /\ fs'.blockSize = fs.blockSize
          /\ fs'.nGroups = fs.nGroups
      BY <1>2, <1>3
    <2>2. DiskBlock' = DiskBlock /\ Counted' = Counted /\ DiskGroups' = DiskGroups
      BY <1>1 DEF DiskBlock, Counted, DiskGroups
    <2>. QED
      BY <1>1, <1>2, <1>3, <1>6, <2>1, <2>2 DEF Sizes, Tables
  <1>8. stopped' = FALSE => Read(Root, NodeSize)'
    <2>. SUFFICES ASSUME sane PROVE Read(Root, NodeSize)'
      BY <1>3
    <2>1. /\ group \in Nat /\ group + 1 \in 1..DiskGroups /\ disk.iNodeTables[group + 1] \in Nat
          /\ tables[group + 1] = disk.iNodeTables[group + 1]
      <3>1. group \in Nat /\ group < DiskGroups
        BY <1>2, Division DEF IsDisk, DiskGroups
      <3>2. group + 1 \in 1..DiskGroups
        BY <1>4, <3>1
      <3>. QED
        BY <1>2, <1>6, <3>1, <3>2 DEF IsDisk, DiskGroups
    <2>2. offset' = Root
      <3>1. 1 + group = group + 1
        BY <2>1
      <3>. QED
        BY <1>2, <1>3, <2>1, <3>1 DEF Root, Group, Sizes
    <2>3. Root' = Root
      BY <1>1 DEF Root, Group, DiskBlock
    <2>4. Root \in Nat
      <3>1. (1 % disk.iNodesPerGroup) * disk.iNodeSize \in Nat
        <4>1. 1 % disk.iNodesPerGroup \in Nat /\ disk.iNodeSize \in Nat
          BY <1>2, Division DEF IsDisk
        <4>. QED
          BY <4>1
      <3>2. disk.iNodeTables[1 + group] \in Nat
        <4>1. 1 + group = group + 1
          BY <2>1
        <4>. QED
          BY <2>1, <4>1
      <3>3. disk.iNodeTables[1 + group] * DiskBlock \in Nat
        BY <1>2, <3>2, TableIsThere
      <3>. QED
        BY <3>1, <3>3 DEF Root, Group
    <2>5. NodeSize \in Nat /\ left' = NodeSize /\ bytes' = <<>>
      BY <1>3, MountAssumption
    <2>. DEFINE f == Root
    <2>6. f \in Nat /\ f' = f /\ offset' = f
      BY <2>2, <2>3, <2>4
    <2>. HIDE DEF f
    <2>7. Run(f, f - f) = <<>>
      BY <2>6 DEF Run
    <2>8. Read(f, NodeSize)'
      BY <2>5, <2>6, <2>7 DEF Read
    <2>. QED
      BY <2>8 DEF f
  <1>9. IsDisk(disk')
    BY <1>1, <1>2
  <1>. QED
    BY <1>1, <1>7, <1>8, <1>9 DEF MountInv

(* The root's i-node has been read, and the file system is mounted.        *)
LEMMA GotRootStep ==
    ASSUME MountInv, GotRoot, UNCHANGED booting
    PROVE  MountInv'
  <1>1. /\ mount = "root" /\ ~stopped /\ at[Boot] = "out" /\ left = 0 /\ mount' = "mounted"
        /\ UNCHANGED <<disk, at, bootAt, step>> /\ fs' = [fs EXCEPT !.root = bytes]
    BY DEF GotRoot, ReadAllReturns, booting, ide
  <1>2. /\ IsDisk(disk) /\ Sizes /\ Tables /\ Read(Root, NodeSize)
        /\ DOMAIN fs = {"blockSize", "nGroups", "iNodeTables", "root"}
    BY <1>1 DEF MountInv
  <1>3. /\ DiskBlock' = DiskBlock /\ Counted' = Counted /\ DiskGroups' = DiskGroups
        /\ Root' = Root
    BY <1>1 DEF DiskBlock, Counted, DiskGroups, Root, Group
  <1>4. /\ Sizes' /\ Tables'
        /\ DOMAIN fs' = {"blockSize", "nGroups", "iNodeTables", "root"}
    BY <1>1, <1>2, <1>3 DEF Sizes, Tables
  <1>5. bytes = Run(Root, NodeSize)
    <2>1. offset - Root = NodeSize
      BY <1>1, <1>2 DEF Read
    <2>. QED
      BY <1>2, <2>1 DEF Read
  <1>6. fs'.root = bytes
    BY <1>1, <1>2
  <1>. QED
    BY <1>1, <1>2, <1>3, <1>4, <1>5, <1>6 DEF MountInv

(* The mount begins, or read_all asks for the next sector.                 *)
LEMMA AskSteps ==
    ASSUME MountInv, IdeInv, StartMount \/ ReadMore, UNCHANGED booting
    PROVE  MountInv'
  <1>. USE Cores
  <1>1. CASE StartMount
    <2>1. /\ mount = "none" /\ mount' = "super" /\ at' = at
          /\ UNCHANGED <<disk, offset, left, bytes, fs, bootAt, step>>
      BY <1>1 DEF StartMount, ide, booting
    <2>2. Read(2 * Words, 2 * Words)'
      BY <2>1 DEF MountInv, Read
    <2>. QED
      BY <2>1, <2>2 DEF MountInv
  <1>2. CASE ReadMore
    <2>1. /\ mount \in {"super", "groups", "root"} /\ at'[Boot] = "lock"
          /\ sector'[Boot] = offset \div Words
          /\ UNCHANGED <<disk, mount, offset, left, bytes, fs, stopped, bootAt, step>>
      BY <1>2 DEF ReadMore, AskSector, Goes, mounting, booting, IdeInv, IdeType
    <2>2. /\ DiskBlock' = DiskBlock /\ Counted' = Counted /\ Root' = Root
          /\ DiskGroups' = DiskGroups
      BY <2>1 DEF DiskBlock, Counted, Root, Group, DiskGroups
    <2>3. (Sizes => Sizes') /\ (Tables => Tables')
      BY <2>1, <2>2 DEF Sizes, Tables
    <2>4. /\ Read(2 * Words, 2 * Words) => Read(2 * Words, 2 * Words)'
          /\ Read(GroupTable(DiskBlock), DescSize * Counted)
                 => Read(GroupTable(DiskBlock), DescSize * Counted)'
          /\ Read(Root, NodeSize) => Read(Root, NodeSize)'
      BY <2>1, <2>2 DEF Read, GroupTable
    <2>. QED
      BY <2>1, <2>2, <2>3, <2>4 DEF MountInv
  <1>. QED
    BY <1>1, <1>2

(* The boot processor goes behind the global constructors only when the    *)
(* disk is mounted.                                                        *)
LEMMA BootKeepsMount ==
    ASSUME MountInv, BootInv, NEW c \in Cpu, BootStep(c)
    PROVE  MountInv'
  <1>. USE Cores
  <1>1. /\ UNCHANGED <<mounting, at, sector>> /\ (stopped => stopped')
    BY DEF BootStep, PickKernelStack, KernelInit, SetUp, StartCore, Await, AllStarted,
           Count, LocalApic, PerCoreInit, PitInit, Sti, Arrive, MakeInit, RunInit,
           Alone, Moves, others, ide
  <1>2. bootAt'[Boot] \notin {"entry", "kernelInit", "setUp"} \/ step' > 5 => mount = "mounted"
    <2>1. CASE SetUp(c)
      <3>1. bootAt[c] = "setUp" /\ c = Boot
        BY <2>1 DEF SetUp, Moves, BootInv, StartInv, Late, Early
      <3>2. SetUps[5] = "CRT" /\ step \in 1..12
        BY DEF SetUps, BootInv, BootType
      <3>3. CASE step = 5
        BY <2>1, <3>2, <3>3 DEF SetUp
      <3>4. CASE step > 5
        BY <3>4 DEF MountInv
      <3>5. CASE step < 5
        <4>1. step' = step + 1 /\ bootAt' = [bootAt EXCEPT ![c] = "setUp"]
          <5>1. step # Len(SetUps)
            BY <3>2, <3>5, SetUpsLen
          <5>. QED
            BY <2>1, <5>1 DEF SetUp, Moves
        <4>. QED
          BY <3>1, <3>2, <3>5, <4>1 DEF BootInv, BootType
      <3>. QED
        BY <3>2, <3>3, <3>4, <3>5
    <2>2. CASE PickKernelStack(c) \/ KernelInit(c)
      <3>1. step' = step
        BY <2>2 DEF PickKernelStack, KernelInit, Alone
      <3>2. CASE c = Boot
        <4>1. bootAt[Boot] \in {"entry", "kernelInit"} /\ ~smpInitDone
          <5>1. bootAt[Boot] \in {"entry", "kernelInit"}
            BY <2>2, <3>2 DEF PickKernelStack, KernelInit, Alone, Moves
          <5>2. done = {}
            BY <5>1 DEF BootInv, SetUpInv
          <5>. QED
            BY <5>1, <5>2 DEF smpInitDone
        <4>2. bootAt'[Boot] \in {"kernelInit", "setUp"}
          BY <2>2, <3>2, <4>1
             DEF PickKernelStack, KernelInit, Alone, Moves, BootInv, BootType
        <4>. QED
          BY <3>1, <4>1, <4>2 DEF MountInv
      <3>3. CASE c # Boot
        <4>1. bootAt'[Boot] = bootAt[Boot]
          BY <2>2, <3>3 DEF PickKernelStack, KernelInit, Alone, Moves, BootInv, BootType
        <4>. QED
          BY <3>1, <4>1 DEF MountInv
      <3>. QED
        BY <3>2, <3>3
    <2>3. CASE ~(SetUp(c) \/ PickKernelStack(c) \/ KernelInit(c))
      <3>1. step' = step
        BY <2>3 DEF BootStep, StartCore, Await, AllStarted,
               Count, LocalApic, PerCoreInit, PitInit, Sti, Arrive, MakeInit, RunInit, Alone
      <3>2. CASE c = Boot
        <4>1. bootAt[Boot] \notin {"entry", "kernelInit", "setUp"}
          BY <2>3, <3>2 DEF BootStep, StartCore, Await, AllStarted,
               Count, LocalApic, PerCoreInit, PitInit, Sti, Arrive, MakeInit, RunInit, Alone, Moves
        <4>. QED
          BY <4>1 DEF MountInv
      <3>3. CASE c # Boot /\ ~StartCore(c)
        <4>1. bootAt'[Boot] = bootAt[Boot]
          BY <2>3, <3>3
             DEF BootStep, Await, AllStarted, Count, LocalApic, PerCoreInit, PitInit,
               Sti, Arrive, MakeInit, RunInit, Alone, Moves, BootInv, BootType
        <4>. QED
          BY <3>1, <4>1 DEF MountInv
      <3>4. CASE c # Boot /\ StartCore(c)
        BY <3>4 DEF StartCore, BootInv, StartInv, Early, Late
      <3>. QED
        BY <3>2, <3>3, <3>4
    <2>. QED
      BY <2>1, <2>2, <2>3
  <1>. QED
    BY <1>1, <1>2, MountSame

(* Every step of the machine keeps the invariant of the mount.             *)
LEMMA MountInvStep ==
    ASSUME MountInv, IdeInv, BootInv, Addressable(sector[Boot]), [MachineNext]_everything
    PROVE  MountInv'
  <1>. USE Cores
  <1>1. CASE Booting(\E c \in Cpu : BootStep(c))
    BY <1>1, BootKeepsMount DEF Booting
  <1>2. CASE Booting(Constructors)
    BY <1>2, AskSteps, TakeBlockStep, GotSuperStep, GotGroupsStep, GotRootStep
    DEF Booting, Constructors, MountStep
  <1>3. ASSUME NEW c \in Cpu, Booting(ThreadReads(c))
        PROVE  MountInv'
    <2>1. /\ UNCHANGED <<mounting, booting>> /\ bootAt[c] = "stop" /\ stopped' = stopped
          /\ \A d \in Cpu : d # c => at'[d] = at[d] /\ sector'[d] = sector[d]
      BY <1>3 DEF Booting, ThreadReads, AskSector, Consumed, Goes, IdeInv, IdeType
    <2>2. bootAt'[Boot] = bootAt[Boot] /\ step' = step
      BY <2>1 DEF booting
    <2>3. CASE c = Boot
      <3>1. mount = "mounted"
        BY <2>1, <2>3 DEF MountInv
      <3>. QED
        BY <2>1, <2>2, <3>1, MountSame
    <2>4. CASE c # Boot
      <3>1. bootAt'[Boot] \notin {"entry", "kernelInit", "setUp"} \/ step' > 5 => mount = "mounted"
        BY <2>2 DEF MountInv
      <3>. QED
        BY <2>1, <2>2, <2>4, <3>1, MountSame
    <2>. QED
      BY <2>3, <2>4
  <1>4. ASSUME NEW c \in Cpu, Booting(DiskStep(c))
        PROVE  MountInv'
    <2>1. /\ UNCHANGED <<mounting, booting, sector>> /\ (stopped => stopped')
          /\ at'[Boot] # "out" => at[Boot] # "out"
      BY <1>4
         DEF Booting, DiskStep, ReadStep, LockDisk, CheckDrive, DrivePanics, DriveIdle,
                  Outb, Command, DataRequested, Inl, UnlockDisk, Goes, IdeInv, IdeType
    <2>2. bootAt'[Boot] = bootAt[Boot] /\ step' = step
      BY <2>1 DEF booting
    <2>3. bootAt'[Boot] \notin {"entry", "kernelInit", "setUp"} \/ step' > 5 => mount = "mounted"
      BY <2>2 DEF MountInv
    <2>. QED
      BY <2>1, <2>3, MountSame
  <1>5. CASE Booting(Drive) \/ UNCHANGED machine
    <2>1. UNCHANGED <<mounting, booting, sector, at, stopped>>
      BY <1>5 DEF Booting, Drive, DriveStep, DriveDelivers, DriveFails, machine, ide
    <2>2. bootAt'[Boot] = bootAt[Boot] /\ step' = step
      BY <2>1 DEF booting
    <2>3. bootAt'[Boot] \notin {"entry", "kernelInit", "setUp"} \/ step' > 5 => mount = "mounted"
      BY <2>2 DEF MountInv
    <2>. QED
      BY <2>1, <2>3, MountSame
  <1>. QED
    BY <1>1, <1>2, <1>3, <1>4, <1>5
    DEF MachineNext, Locking, Booting, BootNext, CoreStep, everything

(* For every disk that mkfs could have made, whatever the size of its      *)
(* blocks and the number of its groups: if its sectors can be addressed    *)
(* and the mount ends, the kernel has the disk's block size, the right     *)
(* i-node table for every group and the root's i-node, and has at most one *)
(* group too many.                                                         *)
THEOREM TheDiskIsMounted == MachineSpec /\ []AllAddressable => []MountsTheDisk
  <1>1. MachineInit => MountInv
    BY MachineBoots, MountInitInv
  <1>2. MountInv /\ IdeInv /\ BootInv /\ AllAddressable /\ [MachineNext]_everything => MountInv'
    BY MountInvStep, Cores DEF AllAddressable
  <1>3. MountInv => MountsTheDisk
    <2>. SUFFICES ASSUME MountInv, mount = "mounted" PROVE MountsTheDisk
      BY DEF MountsTheDisk
    <2>1. IsDisk(disk) /\ Sizes /\ Tables /\ fs.root = Run(Root, NodeSize)
      BY DEF MountInv
    <2>2. fs.nGroups \in DiskGroups..DiskGroups + 1
      BY <2>1, GroupsCounted DEF Sizes
    <2>. QED
      BY <2>1, <2>2 DEF MountsTheDisk, Sizes, Tables, Run, Root, Group
  <1>. QED
    BY <1>1, <1>2, <1>3, AlwaysIdeInv, AlwaysBootInv, PTL DEF MachineSpec
=============================================================================
