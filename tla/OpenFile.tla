------------------------------ MODULE OpenFile ------------------------------
(***************************************************************************)
(* An open file and the blocks behind it: OpenFileStruct of                *)
(* kernel/openfilestruct.h, read and read_all of kernel/block_io.cc, and   *)
(* read_block of kernel/ext2.cc, which finds a block through the direct,   *)
(* the singly and the doubly indirect pointers of the i-node.              *)
(*                                                                         *)
(* fork copies the descriptor table, so parent and child share one         *)
(* OpenFileStruct and its offset, and run on different cores.  read() is   *)
(* not locked: it loads myOffset, reads the disk, and adds what it read to *)
(* what myOffset is by then, in a load and a store.                        *)
(*                                                                         *)
(* The byte at position k of the file is shown as k itself, and a data     *)
(* block by the index it has in the file.  The console takes neither read  *)
(* nor seek and is left out.                                               *)
(***************************************************************************)
EXTENDS Integers, Sequences

CONSTANTS
    Process,    \* the processes that share the file
    BlockSize,
    Direct,     \* 12 in the code: the direct blocks of an i-node
    Refs,       \* refs_per_block
    MaxSize,    \* bound: the longest file, in bytes
    MaxArg,     \* bound on the arguments of read and seek
    Word        \* 2^32: off_t is unsigned

ASSUME OpenFileAssumption ==
    /\ BlockSize \in Nat \ {0} /\ Direct \in Nat /\ Refs \in Nat \ {0}
    /\ MaxSize \in Nat /\ MaxArg \in Nat
    /\ Word \in Nat /\ Word > MaxSize + MaxArg

VARIABLES
    size, myOffset,
    pc,             \* where each process is
    at, want,       \* the offset and the length its last read began with
    buffer,         \* the bytes that read has delivered
    result, sum     \* what read_all returned, and the offset to be stored

vars == <<size, myOffset, pc, at, want, buffer, result, sum>>

Least(a, b) == IF a < b THEN a ELSE b

Init ==
    /\ size \in 0..MaxSize
    /\ myOffset = 0
    /\ pc = [p \in Process |-> "user"]
    /\ at = [p \in Process |-> 0]
    /\ want = [p \in Process |-> 0]
    /\ buffer = [p \in Process |-> <<>>]
    /\ result = [p \in Process |-> 0]
    /\ sum = [p \in Process |-> 0]

(* A program runs, before its first read or after one.                     *)
InProgram(p) == pc[p] \in {"user", "returned"}

(* seek; an offset beyond the size changes nothing.                        *)
Seek(p, o) ==
    /\ InProgram(p)
    /\ o <= size
    /\ myOffset' = o
    /\ pc' = [pc EXCEPT ![p] = "user"]
    /\ UNCHANGED <<size, at, want, buffer, result, sum>>

(* read of n bytes, n not 0: the arguments of read_all are evaluated.      *)
Read(p, n) ==
    /\ InProgram(p)
    /\ n > 0
    /\ at' = [at EXCEPT ![p] = myOffset]
    /\ want' = [want EXCEPT ![p] = n]
    /\ buffer' = [buffer EXCEPT ![p] = <<>>]
    /\ result' = [result EXCEPT ![p] = 0]
    /\ sum' = [sum EXCEPT ![p] = 0]
    /\ pc' = [pc EXCEPT ![p] = "loop"]
    /\ UNCHANGED <<size, myOffset>>

-----------------------------------------------------------------------------
(* read_all                                                                *)

(* The blocks of pointers mke2fs wrote: word k of a block.                 *)
Pointer(block, k) ==
    CASE block = <<"indirect_1">> -> Direct + k
      [] block = <<"indirect_2">> -> <<"indirect_2", k>>
      [] OTHER -> Direct + Refs + block[2] * Refs + k

(* Mutant: the doubly indirect index is not made relative.                 *)
BlockIndex_Absolute(index) ==
    IF index < Direct THEN index
    ELSE IF index < Direct + Refs THEN Pointer(<<"indirect_1">>, index - Direct)
    ELSE IF index < Direct + Refs + Refs * Refs
         THEN LET i == index - Direct
              IN Pointer(Pointer(<<"indirect_2">>, i \div Refs), i % Refs)
    ELSE -1

(* Node::read_block: which block holds the given one of the file; -1 if    *)
(* none of the conditions holds and it panics.  The condition of the       *)
(* branch for indirect_3 is the one of the branch before it.               *)
BlockIndex(index) ==
    IF index < Direct THEN index
    ELSE IF index < Direct + Refs THEN Pointer(<<"indirect_1">>, index - Direct)
    ELSE IF index < Direct + Refs + Refs * Refs
         THEN LET i == index - Direct - Refs
              IN Pointer(Pointer(<<"indirect_2">>, i \div Refs), i % Refs)
    ELSE -1

(* The offset read_all has come to, and actual_n in BlockIO::read.         *)
Offset(p) == at[p] + Len(buffer[p])
ActualN(p) == Least(BlockSize - (Offset(p) % BlockSize),
                    Least(want[p] - Len(buffer[p]), size - Offset(p)))

(* BlockIO::read finds something to read, and read_block its block.        *)
ReadBlock(p) ==
    LET block == BlockIndex(Offset(p) \div BlockSize) IN
    /\ pc[p] = "loop"
    /\ Len(buffer[p]) < want[p] /\ Offset(p) < size
    /\ block # -1
    /\ buffer' = [buffer EXCEPT ![p] = @ \o
                    [i \in 1..ActualN(p) |->
                       block * BlockSize + (Offset(p) % BlockSize) + i - 1]]
    /\ UNCHANGED <<size, myOffset, pc, at, want, result, sum>>

(* ... or panics in read_block.                                            *)
Panic(p) ==
    /\ pc[p] = "loop"
    /\ Len(buffer[p]) < want[p] /\ Offset(p) < size
    /\ BlockIndex(Offset(p) \div BlockSize) = -1
    /\ pc' = [pc EXCEPT ![p] = "panic"]
    /\ UNCHANGED <<size, myOffset, at, want, buffer, result, sum>>

(* read_all returns, with -1 if the offset is behind the end, and the new  *)
(* offset is computed ...                                                  *)
ReadAllReturns(p) ==
    LET r == IF Offset(p) > size THEN -1 ELSE Len(buffer[p]) IN
    /\ pc[p] = "loop"
    /\ Len(buffer[p]) = want[p] \/ Offset(p) >= size
    /\ result' = [result EXCEPT ![p] = r]
    /\ sum' = [sum EXCEPT ![p] = (myOffset + r) % Word]
    /\ pc' = [pc EXCEPT ![p] = "store"]
    /\ UNCHANGED <<size, myOffset, at, want, buffer>>

(* ... and stored.                                                         *)
Store(p) ==
    /\ pc[p] = "store"
    /\ myOffset' = sum[p]
    /\ pc' = [pc EXCEPT ![p] = "returned"]
    /\ UNCHANGED <<size, at, want, buffer, result, sum>>

Next ==
    \E p \in Process :
       \/ \E a \in 0..MaxArg : Seek(p, a) \/ Read(p, a)
       \/ ReadBlock(p)
       \/ Panic(p)
       \/ ReadAllReturns(p)
       \/ Store(p)

Spec == Init /\ [][Next]_vars

-----------------------------------------------------------------------------

(* The offset stays inside the file, which BlockIO leaves to its caller    *)
(* ("the caller is also responsibile for ensuring that all offsets and     *)
(* block numbers are in bounds", kernel/block_io.h, line 16), whatever is  *)
(* read and wherever the program seeks.                                    *)
OffsetInBounds == myOffset <= size

(* read_all delivers min(n, size_in_bytes - offset) bytes of the file from *)
(* the offset on, in order, across all block boundaries and all levels of  *)
(* indirection (kernel/block_io.h), and on the way no byte outside the     *)
(* file and none of a block that does not belong there.  Afterwards the    *)
(* offset is behind what was read and inside the file, so that reads in    *)
(* sequence deliver the file in sequence (OpenFileStruct::read).           *)
ReadsTheFile ==
    \A p \in Process :
       /\ buffer[p] = [i \in 1..Len(buffer[p]) |-> at[p] + i - 1]
       /\ pc[p] \in {"store", "returned"} =>
             Len(buffer[p]) = Least(want[p], size - at[p])
       /\ pc[p] = "returned" => myOffset = at[p] + Len(buffer[p]) /\ OffsetInBounds
=============================================================================
