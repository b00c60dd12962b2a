---------------------------- MODULE AddressSpace ----------------------------
(***************************************************************************)
(* The private memory of processes: the frame allocator of                 *)
(* kernel/physmem.cc, the page tables of kernel/vmm.cc (make_pd, map,      *)
(* delete_private, delete_pd, the page fault handler) and the copying of   *)
(* an address space by Process::fork of kernel/process.cc.                 *)
(*                                                                         *)
(* Processes run on different cores, so their calls interleave; each call  *)
(* of alloc_frame or dealloc_frame holds an InterruptSafeLock and is one   *)
(* step, together with what its caller then does to tables nobody else     *)
(* reads.  A page is numbered within the private half of the address space *)
(* (the loops from pdi 512 to 1023); the special pages are the I/O APIC's  *)
(* and the local APIC's.  A process has one thread.                        *)
(***************************************************************************)
EXTENDS Naturals, Sequences, FiniteSets, FiniteSetsExt

CONSTANTS
    Process, First,     \* First is the process kernelInit makes for init
    Mortal,             \* bound: the processes whose program ever exits
    Pages, PerTable,    \* how many private pages, and how many to a table
    Special,            \* the pages of the two APICs
    Limit,              \* the frames PhysMem::init was given
    Value, Zero, Junk,  \* contents of a page; the first word is f->next
    None, Device

Page == 0..(Pages - 1)
Pdi(va) == va \div PerTable
Directory == {Pdi(va) : va \in Page}
Frame == 0..(Limit - 1)

ASSUME AddressSpaceAssumption ==
    /\ First \in Process /\ Mortal \subseteq Process
    /\ Pages \in Nat /\ PerTable \in Nat \ {0} /\ Limit \in Nat
    /\ Special \subseteq 0..(Pages - 1)
    /\ Zero \in Value /\ Junk \notin Value
    /\ {None, Device} \cap (0..Limit) = {} /\ None # Device
    /\ None \notin Process \cup [Page \ Special -> Value \cup {Junk}]
    /\ 1 + Cardinality({Pdi(va) : va \in Special}) <= Limit

VARIABLES
    free,       \* the list at firstFree
    avail,      \* frames from avail to Limit - 1 were never allocated
    content,    \* what each frame holds
    pd,         \* pd[p]: the frame of p's page directory
    table,      \* table[p][i]: the frame of the page table at pd[i]
    page,       \* page[p][va]: the frame mapped at va
    pc,         \* where p is
    child,      \* child in fork()
    va_, pa,    \* va and pa in vmm_pageFault
    halted      \* Debug::panic was called

frames == <<free, avail, content>>
tables == <<pd, table, page>>
vars == <<frames, tables, pc, child, va_, pa, halted>>

NoTables == [i \in Directory |-> None]
NoPages == [va \in Page |-> None]

(* is_special                                                              *)
IsSpecial(va) == va \in Special

-----------------------------------------------------------------------------
(* PhysMem                                                                 *)

CanAlloc == free # <<>> \/ avail < Limit

(* The frame alloc_frame returns.                                          *)
NewFrame == IF free # <<>> THEN Head(free) ELSE avail

(* Mutant: a recycled frame is not cleared.                                *)
AllocFrame_NoBzero(v) ==
    /\ CanAlloc
    /\ free' = IF free # <<>> THEN Tail(free) ELSE free
    /\ avail' = IF free # <<>> THEN avail ELSE avail + 1
    /\ content' = [content EXCEPT ![NewFrame] =
                      IF v = Zero /\ free # <<>> THEN @ ELSE v]

(* alloc_frame; the caller fills the cleared frame with v at once.         *)
AllocFrame(v) ==
    /\ CanAlloc
    /\ free' = IF free # <<>> THEN Tail(free) ELSE free
    /\ avail' = IF free # <<>> THEN avail ELSE avail + 1
    /\ content' = [content EXCEPT ![NewFrame] = v]

(* dealloc_frame: the link overwrites the beginning of the frame.          *)
DeallocFrame(f) ==
    /\ free' = <<f>> \o free
    /\ content' = [content EXCEPT ![f] = Junk]
    /\ UNCHANGED avail

-----------------------------------------------------------------------------

(* The first process has been constructed: its directory and the tables of *)
(* the special pages.  The frames of global_init and of kernelProcess were *)
(* allocated before and stay so; Limit does not count them.                *)
Init ==
    LET dirs == {Pdi(va) : va \in Special} IN
    /\ free = <<>>
    /\ avail = 1 + Cardinality(dirs)
    /\ content = [f \in Frame |-> Zero]
    /\ pd = [p \in Process |-> IF p = First THEN 0 ELSE None]
    /\ table = [p \in Process |-> [i \in Directory |->
                  IF p = First /\ i \in dirs
                  THEN 1 + Cardinality({j \in dirs : j < i})
                  ELSE None]]
    /\ page = [p \in Process |-> [va \in Page |->
                  IF p = First /\ IsSpecial(va) THEN Device ELSE None]]
    /\ pc = [p \in Process |-> IF p = First THEN "user" ELSE "absent"]
    /\ child = [p \in Process |-> None]
    /\ va_ = [p \in Process |-> None]
    /\ pa = [p \in Process |-> None]
    /\ halted = FALSE

Goto(p, label) == pc' = [pc EXCEPT ![p] = label]

(* The process, or a system call for it, stores v in a page it has mapped. *)
(* map() gives the table of the special pages to the kernel only, so there *)
(* it is system calls that store and fault; a program that touched such a  *)
(* page itself would fault for ever, and none does.                        *)
Store(p, va, v) ==
    /\ pc[p] = "user"
    /\ page[p][va] \in Frame
    /\ content' = [content EXCEPT ![page[p][va]] = v]
    /\ UNCHANGED <<free, avail, tables, pc, child, va_, pa, halted>>

(* vmm_pageFault in the private half: pa = alloc_frame() ...               *)
PageFault(p, va) ==
    /\ pc[p] = "user"
    /\ page[p][va] = None
    /\ AllocFrame(Zero)
    /\ pa' = [pa EXCEPT ![p] = NewFrame]
    /\ va_' = [va_ EXCEPT ![p] = va]
    /\ Goto(p, "map")
    /\ UNCHANGED <<tables, child, halted>>

(* ... then map(): a page table if there is none ...                       *)
MapTable(p) ==
    /\ pc[p] = "map"
    /\ table[p][Pdi(va_[p])] = None
    /\ AllocFrame(Zero)
    /\ table' = [table EXCEPT ![p][Pdi(va_[p])] = NewFrame]
    /\ UNCHANGED <<pd, page, pc, child, va_, pa, halted>>

(* ... and the entry.                                                      *)
Map(p) ==
    /\ pc[p] = "map"
    /\ table[p][Pdi(va_[p])] # None
    /\ page' = [page EXCEPT ![p][va_[p]] = pa[p]]
    /\ pa' = [pa EXCEPT ![p] = None]
    /\ va_' = [va_ EXCEPT ![p] = None]
    /\ Goto(p, "user")
    /\ UNCHANGED <<frames, pd, table, child, halted>>

(* exit(), or a page fault below 0x80000000, which exits too.              *)
Exit(p) ==
    /\ p \in Mortal
    /\ pc[p] = "user"
    /\ Goto(p, "exited")
    /\ UNCHANGED <<frames, tables, child, va_, pa, halted>>

-----------------------------------------------------------------------------
(* fork                                                                    *)

(* Process::Process(false), make_pd: the directory ...                     *)
MakePd(p, c) ==
    /\ pc[p] = "user"
    /\ pc[c] = "absent"
    /\ AllocFrame(Zero)
    /\ pd' = [pd EXCEPT ![c] = NewFrame]
    /\ child' = [child EXCEPT ![p] = c]
    /\ pc' = [pc EXCEPT ![p] = "fork", ![c] = "made"]
    /\ UNCHANGED <<table, page, va_, pa, halted>>

(* ... and map() of the special pages.                                     *)
UnmappedSpecial(c) == {va \in Special : page[c][va] = None}

MapSpecialTable(p) ==
    LET c == child[p]
        va == Min(UnmappedSpecial(c)) IN
    /\ pc[p] = "fork"
    /\ UnmappedSpecial(c) # {}
    /\ table[c][Pdi(va)] = None
    /\ AllocFrame(Zero)
    /\ table' = [table EXCEPT ![c][Pdi(va)] = NewFrame]
    /\ UNCHANGED <<pd, page, pc, child, va_, pa, halted>>

MapSpecial(p) ==
    LET c == child[p]
        va == Min(UnmappedSpecial(c)) IN
    /\ pc[p] = "fork"
    /\ UnmappedSpecial(c) # {}
    /\ table[c][Pdi(va)] # None
    /\ page' = [page EXCEPT ![c][va] = Device]
    /\ UNCHANGED <<frames, pd, table, pc, child, va_, pa, halted>>

(* The pages the two loops of fork() have yet to deal with: the parent has *)
(* a table and the child none, or the parent a page and the child none.    *)
ToCopy(p) ==
    LET c == child[p] IN
    {va \in Page :
        /\ table[p][Pdi(va)] # None
        /\ \/ table[c][Pdi(va)] = None
           \/ page[p][va] # None /\ page[c][va] = None}

Copying(p) ==
    /\ pc[p] = "fork"
    /\ UnmappedSpecial(child[p]) = {}

CopyTable(p) ==
    LET c == child[p]
        va == Min(ToCopy(p)) IN
    /\ Copying(p)
    /\ ToCopy(p) # {}
    /\ table[c][Pdi(va)] = None
    /\ AllocFrame(Zero)
    /\ table' = [table EXCEPT ![c][Pdi(va)] = NewFrame]
    /\ UNCHANGED <<pd, page, pc, child, va_, pa, halted>>

CopyPage(p) ==
    LET c == child[p]
        va == Min(ToCopy(p)) IN
    /\ Copying(p)
    /\ ToCopy(p) # {}
    /\ table[c][Pdi(va)] # None
    /\ AllocFrame(content[page[p][va]])
    /\ page' = [page EXCEPT ![c][va] = NewFrame]
    /\ UNCHANGED <<pd, table, pc, child, va_, pa, halted>>

(* fork() returns and thread() starts the child.                           *)
Forked(p) ==
    /\ Copying(p)
    /\ ToCopy(p) = {}
    /\ pc' = [pc EXCEPT ![p] = "user", ![child[p]] = "user"]
    /\ child' = [child EXCEPT ![p] = None]
    /\ UNCHANGED <<frames, tables, va_, pa, halted>>

-----------------------------------------------------------------------------
(* exec and the end of a process                                           *)

(* SYS::exec has found the program: clear_private(), delete_private.       *)
Exec(p) ==
    /\ pc[p] = "user"
    /\ Goto(p, "clear")
    /\ UNCHANGED <<frames, tables, child, va_, pa, halted>>

(* contains_special                                                        *)
HasSpecial(i) == \E va \in Special : Pdi(va) = i

PrivatePages(p, i) == {va \in Page : Pdi(va) = i /\ page[p][va] \in Frame}

(* The tables delete_private has yet to empty or to free.                  *)
ToClear(p) ==
    {i \in Directory : \/ PrivatePages(p, i) # {}
                       \/ table[p][i] # None /\ ~HasSpecial(i)}

ClearPage(p) ==
    LET i == Min(ToClear(p))
        va == Min(PrivatePages(p, i)) IN
    /\ pc[p] = "clear"
    /\ ToClear(p) # {}
    /\ PrivatePages(p, i) # {}
    /\ DeallocFrame(page[p][va])
    /\ page' = [page EXCEPT ![p][va] = None]
    /\ UNCHANGED <<pd, table, pc, child, va_, pa, halted>>

ClearTable(p) ==
    LET i == Min(ToClear(p)) IN
    /\ pc[p] = "clear"
    /\ ToClear(p) # {}
    /\ PrivatePages(p, i) = {}
    /\ DeallocFrame(table[p][i])
    /\ table' = [table EXCEPT ![p][i] = None]
    /\ UNCHANGED <<pd, page, pc, child, va_, pa, halted>>

(* The new program runs.                                                   *)
Cleared(p) ==
    /\ pc[p] = "clear"
    /\ ToClear(p) = {}
    /\ Goto(p, "user")
    /\ UNCHANGED <<frames, tables, child, va_, pa, halted>>

(* The reaper drops the last reference: ~Process, delete_pd.  Nobody reads *)
(* the entries its loops have passed, so they are shown as None.           *)
Reap(p) ==
    /\ pc[p] = "exited"
    /\ Goto(p, "delete")
    /\ UNCHANGED <<frames, tables, child, va_, pa, halted>>

ToDelete(p) == {i \in Directory : table[p][i] # None}

DeletePage(p) ==
    LET i == Min(ToDelete(p))
        va == Min(PrivatePages(p, i)) IN
    /\ pc[p] = "delete"
    /\ ToDelete(p) # {}
    /\ PrivatePages(p, i) # {}
    /\ DeallocFrame(page[p][va])
    /\ page' = [page EXCEPT ![p][va] = None]
    /\ UNCHANGED <<pd, table, pc, child, va_, pa, halted>>

(* Mutant: a table with a special page is kept, as in delete_private.      *)
DeleteTable_KeepsSpecial(p) ==
    LET i == Min(ToDelete(p)) IN
    /\ pc[p] = "delete"
    /\ ToDelete(p) # {}
    /\ PrivatePages(p, i) = {}
    /\ IF HasSpecial(i) THEN UNCHANGED frames ELSE DeallocFrame(table[p][i])
    /\ table' = [table EXCEPT ![p][i] = None]
    /\ page' = [page EXCEPT ![p] =
                   [va \in Page |-> IF Pdi(va) = i THEN None ELSE @[va]]]
    /\ UNCHANGED <<pd, pc, child, va_, pa, halted>>

DeleteTable(p) ==
    LET i == Min(ToDelete(p)) IN
    /\ pc[p] = "delete"
    /\ ToDelete(p) # {}
    /\ PrivatePages(p, i) = {}
    /\ DeallocFrame(table[p][i])
    /\ table' = [table EXCEPT ![p][i] = None]
    /\ page' = [page EXCEPT ![p] =
                   [va \in Page |-> IF Pdi(va) = i THEN None ELSE @[va]]]
    /\ UNCHANGED <<pd, pc, child, va_, pa, halted>>

DeletePd(p) ==
    /\ pc[p] = "delete"
    /\ ToDelete(p) = {}
    /\ DeallocFrame(pd[p])
    /\ pd' = [pd EXCEPT ![p] = None]
    /\ Goto(p, "absent")
    /\ UNCHANGED <<table, page, child, va_, pa, halted>>

(* alloc_frame finds no frame: "no more frames".                           *)
Panic(p) ==
    /\ ~CanAlloc
    /\ \/ pc[p] = "user" /\ \E va \in Page : page[p][va] = None
       \/ pc[p] = "user" /\ \E c \in Process : pc[c] = "absent"
       \/ pc[p] = "map" /\ table[p][Pdi(va_[p])] = None
       \/ /\ pc[p] = "fork"
          /\ UnmappedSpecial(child[p]) # {}
          /\ table[child[p]][Pdi(Min(UnmappedSpecial(child[p])))] = None
       \/ Copying(p) /\ ToCopy(p) # {}
    /\ halted' = TRUE
    /\ UNCHANGED <<frames, tables, pc, child, va_, pa>>

User(p) ==
    \/ \E va \in Page, v \in Value : Store(p, va, v)
    \/ \E va \in Page : PageFault(p, va)
    \/ MapTable(p) \/ Map(p)
    \/ Exit(p)

Fork(p) ==
    \/ \E c \in Process : MakePd(p, c)
    \/ MapSpecialTable(p) \/ MapSpecial(p)
    \/ CopyTable(p) \/ CopyPage(p) \/ Forked(p)

Delete(p) ==
    \/ Exec(p) \/ ClearPage(p) \/ ClearTable(p) \/ Cleared(p)
    \/ Reap(p) \/ DeletePage(p) \/ DeleteTable(p) \/ DeletePd(p)

Next ==
    /\ ~halted
    /\ \E p \in Process : User(p) \/ Fork(p) \/ Delete(p) \/ Panic(p)

Spec == Init /\ [][Next]_vars

-----------------------------------------------------------------------------

(* Everything that refers to frame f.                                      *)
Uses(f) ==
    UNION {{<<"free", i>> : i \in {j \in 1..Len(free) : free[j] = f}},
           {<<"directory", p>> : p \in {q \in Process : pd[q] = f}},
           {<<"table", x>> : x \in {y \in Process \X Directory :
                                       table[y[1]][y[2]] = f}},
           {<<"page", x>> : x \in {y \in Process \X Page :
                                       page[y[1]][y[2]] = f}},
           {<<"hand", p>> : p \in {q \in Process : pa[q] = f}}}

(* Frames are neither shared nor lost, whatever the order in which         *)
(* processes fault, fork, exec and are reaped: a frame alloc_frame ever    *)
(* returned is in exactly one place, the free list, one entry of one table *)
(* or the hands of one page fault, and one it never returned is in none.   *)
(* The pages of the APICs, which have no frame, stay mapped to the devices *)
(* in every process that may run (make_pd; fork, exec and delete_private   *)
(* must leave them), and a page is mapped only where there is a table.     *)
FramesConserved ==
    /\ \A f \in Frame : Cardinality(Uses(f)) = IF f < avail THEN 1 ELSE 0
    /\ \A p \in Process :
       /\ pc[p] \in {"user", "map", "fork", "clear"} =>
             \A va \in Special : page[p][va] = Device
       /\ \A va \in Page : page[p][va] # None => table[p][Pdi(va)] # None

(* What process p finds in its memory.  exec has discarded the old program *)
(* as soon as it begins to clear.                                          *)
Contents(p) ==
    [va \in Page \ Special |->
        IF pc[p] = "clear" \/ page[p][va] = None THEN Zero
        ELSE content[page[p][va]]]
M == INSTANCE Memories WITH
        Address <- Page \ Special,
        mem <- [p \in Process |->
                  IF pc[p] \in {"user", "map", "fork", "clear"}
                  THEN Contents(p) ELSE None]

(* Every process has a memory of its own: stores show in no other process, *)
(* a new page reads zero although its frame is recycled, the child of fork *)
(* has a copy and a program started by exec finds none of the old one.     *)
ImplementsMemories == M!Spec
=============================================================================
