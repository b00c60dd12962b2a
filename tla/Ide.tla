-------------------------------- MODULE Ide --------------------------------
(***************************************************************************)
(* Ide::read_block of kernel/ide.cc and the drive it polls.  The sector    *)
(* number goes to the drive in four registers, one outb each, and the data *)
(* comes back a word at a time; InterruptSafeLock lock (module Locks)      *)
(* keeps one core's transfer apart from the others'.                       *)
(*                                                                         *)
(* A word is shown as its place on the disk, so stale and foreign words    *)
(* are seen for what they are.                                             *)
(***************************************************************************)
EXTENDS Naturals, Sequences

CONSTANTS
    Cpu,        \* the cores; each runs one thread at a time
    Radix,      \* 256: the values of an eight-bit register
    Nibble,     \* 16: the values of the bits of register 6 that are used
    Words,      \* block_size / sizeof(uint32_t)
    DriveSize,  \* the sectors of the drive
    None

ASSUME IdeAssumption ==
    /\ Radix \in Nat \ {0, 1} /\ Nibble \in 1..Radix
    /\ Words \in Nat \ {0} /\ DriveSize \in Nat
    /\ None \notin Cpu \cup Nat

VARIABLES
    ideLock,    \* the core that holds lock, or None
    at, port,   \* where each core is in read_block, and its next register
    sector,     \* the argument of read_block
    buffer,     \* the words it has stored
    reg,        \* drive: registers 2 to 6
    status,     \* drive: the bits that are set
    fifo,       \* drive: the words it has not yet delivered
    stopped     \* a core panicked, and outb(0xf4, 0) stopped the machine

ide == <<ideLock, at, port, sector, buffer, reg, status, fifo, stopped>>

Port == 2..7

(* The words of a sector.                                                  *)
Sector(s) == [i \in 1..Words |-> s * Words + i - 1]

(* A drive that is there reports DRDY.                                     *)
IdeInit(present) ==
    /\ ideLock = None
    /\ at = [c \in Cpu |-> "out"]
    /\ port = [c \in Cpu |-> 2]
    /\ sector = [c \in Cpu |-> 0]
    /\ buffer = [c \in Cpu |-> <<>>]
    /\ reg = [p \in 2..6 |-> 0]
    /\ status = IF present THEN {"DRDY"} ELSE {}
    /\ fifo = <<>>
    /\ stopped = FALSE

Goes(c, from, to) ==
    /\ ~stopped
    /\ at[c] = from
    /\ at' = [at EXCEPT ![c] = to]

(* read_block(s, buffer) is called.                                        *)
AskSector(c, s) ==
    /\ Goes(c, "out", "lock")
    /\ sector' = [sector EXCEPT ![c] = s]
    /\ UNCHANGED <<ideLock, port, buffer, reg, status, fifo, stopped>>

(* Mutant: no LockGuard.                                                   *)
LockDisk_Unlocked(c) ==
    /\ Goes(c, "lock", "check")
    /\ ideLock' = c
    /\ UNCHANGED <<port, sector, buffer, reg, status, fifo, stopped>>

(* LockGuard g{lock}                                                       *)
LockDisk(c) ==
    /\ ideLock = None
    /\ Goes(c, "lock", "check")
    /\ ideLock' = c
    /\ UNCHANGED <<port, sector, buffer, reg, status, fifo, stopped>>

Unready == "ERR" \in status \/ "DRDY" \notin status

(* waitForDrive, before the command and after it: one look at the error    *)
(* bits, and then only at BSY.                                             *)
CheckDrive(c) ==
    /\ ~Unready
    /\ Goes(c, "check", "busy")
    /\ UNCHANGED <<ideLock, port, sector, buffer, reg, status, fifo, stopped>>

DrivePanics(c) ==
    /\ ~stopped /\ at[c] = "check" /\ Unready
    /\ stopped' = TRUE
    /\ UNCHANGED <<ideLock, at, port, sector, buffer, reg, status, fifo>>

DriveIdle(c) ==
    /\ "BSY" \notin status
    /\ Goes(c, "busy", IF port[c] \in Port THEN "outb" ELSE "drq")
    /\ UNCHANGED <<ideLock, port, sector, buffer, reg, status, fifo, stopped>>

(* What goes to register p: the count, and the sector number in parts.     *)
RegisterValue(s, p) ==
    CASE p = 2 -> 1
      [] p = 3 -> s % Radix
      [] p = 4 -> (s \div Radix) % Radix
      [] p = 5 -> ((s \div Radix) \div Radix) % Radix
      [] p = 6 -> (((s \div Radix) \div Radix) \div Radix) % Nibble

Outb(c) ==
    /\ port[c] \in 2..6
    /\ Goes(c, "outb", "outb")
    /\ reg' = [reg EXCEPT ![port[c]] = RegisterValue(sector[c], port[c])]
    /\ port' = [port EXCEPT ![c] = @ + 1]
    /\ UNCHANGED <<ideLock, sector, buffer, status, fifo, stopped>>

(* outb(base + 7, 0x20)                                                    *)
Command(c) ==
    /\ port[c] = 7
    /\ Goes(c, "outb", "check")
    /\ port' = [port EXCEPT ![c] = 8]
    /\ status' = {"DRDY", "BSY"}
    /\ fifo' = <<>>
    /\ UNCHANGED <<ideLock, sector, buffer, reg, stopped>>

(* while ((getStatus(drive) & DRQ) == 0)                                   *)
DataRequested(c) ==
    /\ "DRQ" \in status
    /\ Goes(c, "drq", "inl")
    /\ UNCHANGED <<ideLock, port, sector, buffer, reg, status, fifo, stopped>>

(* ptr[i] = inl(base); the drive takes DRQ back with its last word.        *)
Inl(c) ==
    /\ Goes(c, "inl", IF Len(buffer[c]) + 1 = Words THEN "unlock" ELSE "inl")
    /\ buffer' = [buffer EXCEPT ![c] = Append(@, IF fifo = <<>> THEN None ELSE Head(fifo))]
    /\ fifo' = IF fifo = <<>> THEN fifo ELSE Tail(fifo)
    /\ status' = IF Len(fifo) = 1 THEN status \ {"DRQ"} ELSE status
    /\ UNCHANGED <<ideLock, port, sector, reg, stopped>>

(* Mutant: the lock is taken, but there is no guard to give it back.       *)
UnlockDisk_Forgotten(c) ==
    /\ Goes(c, "unlock", "back")
    /\ port' = [port EXCEPT ![c] = 2]
    /\ UNCHANGED <<ideLock, sector, buffer, reg, status, fifo, stopped>>

(* ~LockGuard                                                              *)
UnlockDisk(c) ==
    /\ Goes(c, "unlock", "back")
    /\ ideLock' = None
    /\ port' = [port EXCEPT ![c] = 2]
    /\ UNCHANGED <<sector, buffer, reg, status, fifo, stopped>>

(* The caller has what it wanted of the buffer.                            *)
Consumed(c) ==
    /\ Goes(c, "back", "out")
    /\ sector' = [sector EXCEPT ![c] = 0]
    /\ buffer' = [buffer EXCEPT ![c] = <<>>]
    /\ UNCHANGED <<ideLock, port, reg, status, fifo, stopped>>

(* The sector the registers name.                                          *)
Addressed == reg[3] + Radix * (reg[4] + Radix * (reg[5] + Radix * reg[6]))

(* The drive ends a command with the data, or with an error if it has no   *)
(* such sector; a core may look at its status before or after.             *)
DriveDelivers ==
    /\ ~stopped /\ "BSY" \in status /\ Addressed < DriveSize
    /\ status' = {"DRDY", "DRQ"}
    /\ fifo' = Sector(Addressed)
    /\ UNCHANGED <<ideLock, at, port, sector, buffer, reg, stopped>>

DriveFails ==
    /\ ~stopped /\ "BSY" \in status /\ Addressed >= DriveSize
    /\ status' = {"DRDY", "ERR"}
    /\ UNCHANGED <<ideLock, at, port, sector, buffer, reg, fifo, stopped>>

(* The steps of a read in progress, and of the drive.                      *)
ReadStep(c) ==
    \/ LockDisk(c) \/ CheckDrive(c) \/ DrivePanics(c) \/ DriveIdle(c)
    \/ Outb(c) \/ Command(c) \/ DataRequested(c) \/ Inl(c) \/ UnlockDisk(c)

DriveStep == DriveDelivers \/ DriveFails

-----------------------------------------------------------------------------

(* A core that returns from read_block has the words of the sector it      *)
(* asked for, all of them and in order, whatever other cores read.         *)
ReadsTheSector ==
    \A c \in Cpu : at[c] = "back" => buffer[c] = Sector(sector[c])

(* Whoever has the disk gives it back, or the machine stops.  The code     *)
(* sees an error of the drive only if it is there at the one look; after   *)
(* it the loop for DRQ has no end, which is the third alternative.         *)
DiskIsGivenBack ==
    \A c \in Cpu : ideLock = c ~> (ideLock # c \/ stopped \/ "ERR" \in status)
=============================================================================
