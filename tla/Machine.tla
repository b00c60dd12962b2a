------------------------------ MODULE Machine ------------------------------
(***************************************************************************)
(* What runs closest to the hardware: the spin locks with the interrupts   *)
(* of each core (Locks), and the cores from reset to the first process,    *)
(* with the drive they read (Boot).  Locks begins with cores that run and  *)
(* shares no state with Boot, so Init chooses which of the two moves.      *)
(***************************************************************************)
EXTENDS Locks, Boot

VARIABLE part

everything == <<part, vars, machine>>

MachineInit ==
    /\ part \in {"locks", "boot"}
    /\ Init
    /\ IF part = "boot" THEN kind = "ISL" /\ \E h \in Hardware : BootInit(h)
                        ELSE BootInit(CHOOSE h \in Hardware : TRUE)

Locking(A) == part = "locks" /\ A /\ UNCHANGED <<part, machine>>
Booting(A) == part = "boot" /\ A /\ UNCHANGED <<part, vars>>

MachineNext == Locking(Next) \/ Booting(BootNext)

(* Locks: as there.  Boot: every core that is started executes, and the    *)
(* drive ends its commands.  Nobody is obliged to read the disk, and none  *)
(* of those who wait for its lock is sure to get it.                       *)
MachineFairness ==
    /\ \A c \in Core :
           /\ \A l \in Level : SF_everything(Locking(LockStep(c, l)))
           /\ WF_everything(Locking(InterruptReturn(c)))
    /\ \A c \in Cpu : WF_everything(Booting(CoreStep(c)))
    /\ WF_everything(Booting(Drive))

MachineSpec == MachineInit /\ [][MachineNext]_everything /\ MachineFairness
=============================================================================
