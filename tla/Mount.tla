------------------------------- MODULE Mount -------------------------------
(***************************************************************************)
(* The constructor Ext2::Ext2 of kernel/ext2.cc, which reads the disk      *)
(* through BlockIO::read_all and Ide::read_block: the super block, the     *)
(* table of block groups and the i-node of the root.  It runs among the    *)
(* global constructors, on the boot processor.                             *)
(*                                                                         *)
(* A word stands for the bytes of the code: a sector has Words of them and *)
(* the super block begins at 1024 = 2 * 512.                               *)
(***************************************************************************)
EXTENDS Ide

CONSTANTS
    DescSize,   \* sizeof(BlockGroup)
    NodeSize    \* sizeof(NodeData)

ASSUME MountAssumption == DescSize \in 1..Words /\ NodeSize \in Nat \ {0}

(* The groups of a disk.  Block 0 is in none of them if blocks have two    *)
(* sectors.                                                                *)
FirstOf(d) == IF d.log = 0 THEN 1 ELSE 0
Groups(d) == (d.blocks - FirstOf(d) + d.perGroup - 1) \div d.perGroup

(* A super block, as mkfs writes it: every group has blocks and i-nodes,   *)
(* and the root, i-node 2, is in one of them.  The last conjunct is what   *)
(* exponentiation does, of which the provers know nothing.                 *)
IsDisk(d) ==
    /\ {d.log, d.iNodeSize} \subseteq Nat
    /\ {d.blocks, d.perGroup, d.iNodesPerGroup} \subseteq Nat \ {0}
    /\ 1 \div d.iNodesPerGroup < Groups(d)
    /\ \A g \in 1..Groups(d) : d.iNodeTables[g] \in Nat
    /\ 2^d.log \in Nat \ {0} /\ (2^d.log = 1 <=> d.log = 0)

VARIABLES
    disk,           \* the super block and i-node tables on the disk, and the
                    \* sectors that its programs read; fixed by Init
    mount,          \* what the constructor reads
    offset, left,   \* read_all: the place and the number of bytes to read
    bytes,          \* read_all: what has been read
    fs              \* the fields of Ext2

mounting == <<disk, mount, offset, left, bytes, fs>>

Boot == 0   \* the boot processor

MountInit ==
    /\ mount = "none"
    /\ offset = 2 * Words /\ left = 2 * Words /\ bytes = <<>>
    /\ fs = [blockSize |-> 0, nGroups |-> 0, iNodeTables |-> <<>>, root |-> <<>>]

(* Where the disk has the descriptor of group g, counted from 0: the table *)
(* is in the block behind that of the super block.  Blocks of two sectors  *)
(* begin with an empty one, larger ones with the super block's own.        *)
DiskBlock == 2^disk.log * 2 * Words
FirstBlock == FirstOf(disk)
Descriptor(g) == (FirstBlock + 1) * DiskBlock + g * DescSize

DiskGroups == Groups(disk)

(* A descriptor as read from place p; other places hold zeros.             *)
TableAt(p) ==
    LET G == {g \in 0..DiskGroups - 1 : p = Descriptor(g)}
    IN  IF G = {} THEN 0 ELSE disk.iNodeTables[1 + CHOOSE g \in G : TRUE]

(* The mount begins.                                                       *)
StartMount ==
    /\ mount = "none"
    /\ mount' = "super"
    /\ UNCHANGED <<ide, disk, offset, left, bytes, fs>>

(* The loop of read_all calls read, and read calls read_block; the size of *)
(* the disk is ~0, so nothing is out of bounds.                            *)
ReadMore ==
    /\ mount \in {"super", "groups", "root"} /\ left > 0
    /\ AskSector(Boot, offset \div Words)
    /\ UNCHANGED mounting

Smaller(a, b) == IF a <= b THEN a ELSE b

(* What read takes of a block.                                             *)
Part(block, start, n) == SubSeq(block, start + 1, start + n)

(* read takes its part of the block, and read_all goes on behind it.       *)
TakeBlock ==
    LET start == offset % Words
        n == Smaller(Words - start, left)
    IN  /\ mount # "mounted"
        /\ Consumed(Boot)
        /\ bytes' = bytes \o Part(buffer[Boot], start, n)
        /\ offset' = offset + n
        /\ left' = left - n
        /\ UNCHANGED <<disk, mount, fs>>

ReadAllReturns(what) == ~stopped /\ mount = what /\ left = 0 /\ at[Boot] = "out"

(* Mutant: the descriptors directly behind the super block.                *)
GroupTable_Behind(blockSize) == 4 * Words

(* groupTableNumber * blockSize                                            *)
GroupTable(blockSize) == ((2 * Words) \div blockSize + 1) * blockSize

(* The super block gives the sizes, and these the table to read.           *)
GotSuper ==
    LET blockSize == 2^disk.log * 2 * Words
        nGroups == (disk.blocks + disk.perGroup - 1) \div disk.perGroup
    IN  /\ ReadAllReturns("super")
        /\ fs' = [fs EXCEPT !.blockSize = blockSize, !.nGroups = nGroups]
        /\ mount' = "groups"
        /\ offset' = GroupTable(blockSize)
        /\ left' = DescSize * nGroups
        /\ bytes' = <<>>
        /\ UNCHANGED <<ide, disk>>

(* iNodeTables from the descriptors, and get_node(2), whose ASSERTs on the *)
(* group and the table panic.                                              *)
GotGroups ==
    LET tables == [g \in 1..fs.nGroups |-> TableAt(bytes[(g - 1) * DescSize + 1])]
        group == 1 \div disk.iNodesPerGroup
        sane == group < fs.nGroups /\ tables[group + 1] <= disk.blocks
    IN  /\ ReadAllReturns("groups")
        /\ fs' = [fs EXCEPT !.iNodeTables = tables]
        /\ stopped' = ~sane
        /\ mount' = "root"
        /\ offset' = IF sane THEN tables[group + 1] * fs.blockSize
                                  + (1 % disk.iNodesPerGroup) * disk.iNodeSize
                             ELSE 0
        /\ left' = NodeSize
        /\ bytes' = <<>>
        /\ UNCHANGED <<disk, ideLock, at, port, sector, buffer, reg, status, fifo>>

GotRoot ==
    /\ ReadAllReturns("root")
    /\ fs' = [fs EXCEPT !.root = bytes]
    /\ mount' = "mounted"
    /\ bytes' = <<>>
    /\ UNCHANGED <<ide, disk, offset, left>>

MountStep ==
    \/ ReadMore
    \/ TakeBlock
    \/ GotSuper
    \/ GotGroups
    \/ GotRoot

-----------------------------------------------------------------------------

(* The mounted file system knows the disk: its block size, where the       *)
(* i-nodes of every group are, and the root.  The code counts the groups   *)
(* from block 0, so with blocks of 1024 bytes it may read one descriptor   *)
(* too many, but never one too few.                                        *)
MountsTheDisk ==
    mount = "mounted" =>
        /\ fs.blockSize = DiskBlock
        /\ fs.nGroups \in DiskGroups..DiskGroups + 1
        /\ \A g \in 1..DiskGroups : fs.iNodeTables[g] = disk.iNodeTables[g]
        /\ LET first == disk.iNodeTables[1 + 1 \div disk.iNodesPerGroup] * DiskBlock
                            + (1 % disk.iNodesPerGroup) * disk.iNodeSize
           IN  fs.root = [i \in 1..NodeSize |-> first + i - 1]
=============================================================================
