-------------------------------- MODULE Heap --------------------------------
(***************************************************************************)
(* The heap of the kernel (malloc and free of kernel/heap.cc, which hold   *)
(* theLock, a BlockingLock, throughout) and that of the user library       *)
(* (malloc, free and realloc of t0.dir/sbin/heap.c, in a process with one  *)
(* thread): each call is one step.  Each owner fills the ints it asked for *)
(* with its own tag, a number larger than every size and every index of    *)
(* the heap.                                                               *)
(***************************************************************************)
EXTENDS HeapOps, FiniteSets

CONSTANTS
    Bytes,      \* the sizes callers ask for
    Tag,
    CountDown   \* how many blocks that fit the kernel looks at (20 in heap.cc)

ASSUME OwnersAssumption ==
    /\ Bytes \subseteq 1..SizeT - 4
    /\ \A x \in Tag : x \in Int /\ x > Len4
    /\ CountDown \in Nat \ {0}

VARIABLES
    kind,       \* whose heap it is, fixed by Init
    heap,
    owned       \* owned[i]: the bytes and the tag of the owner of block i

vars == <<kind, heap, owned>>

Init ==
    /\ kind \in {"kernel", "user"}
    /\ heap = Fresh
    /\ owned = <<>>

(* The ints that hold the bytes of a caller, in block i.                   *)
Payload(i, bytes) == i + 1..i + (bytes + 3) \div 4

Fill(h, words, tag) ==
    [h EXCEPT !.array = [w \in Word |-> IF w \in words THEN tag ELSE @[w]]]

(* Where in the list the blocks are that are large enough.                 *)
Fits(h, bytes) ==
    {k \in DOMAIN AvailList(h) : Size(h, AvailList(h)[k]) >= Ints(bytes)}

(* The user library takes the first of them, the kernel the smallest of    *)
(* the first CountDown, and of the smallest the first in the list.         *)
First(fits) == CHOOSE k \in fits : \A j \in fits : k <= j

Best(h, fits) ==
    LET seen == {k \in fits : Cardinality({j \in fits : j < k}) < CountDown}
        SizeAt(k) == Size(h, AvailList(h)[k])
    IN  First({k \in seen : \A j \in seen : SizeAt(k) <= SizeAt(j)})

(* The block malloc takes.                                                 *)
Chosen(h, bytes) ==
    LET fits == Fits(h, bytes) IN
    AvailList(h)[IF kind = "kernel" THEN Best(h, fits) ELSE First(fits)]

(* The owners o, and r as the owner of block i.                            *)
With(o, i, r) == [j \in DOMAIN o \cup {i} |-> IF j = i THEN r ELSE o[j]]

(* malloc(bytes) that finds a block.  Otherwise it returns null and        *)
(* changes nothing.                                                        *)
Malloc(bytes, tag) ==
    LET it == Chosen(heap, bytes) IN
    /\ Fits(heap, bytes) # {}
    /\ heap' = Fill(Allot(heap, it, Ints(bytes)), Payload(it, bytes), tag)
    /\ owned' = With(owned, it, [bytes |-> bytes, tag |-> tag])
    /\ UNCHANGED kind

Disown(i) == [j \in DOMAIN owned \ {i} |-> owned[j]]

Free(i) ==
    /\ i \in DOMAIN owned
    /\ heap' = Freed(heap, i)
    /\ owned' = Disown(i)
    /\ UNCHANGED kind

(* memcpy(newPtr, p, m): the bound on m is the size of the whole old       *)
(* block, header and footer included, and so may reach past its payload.   *)
Copied(h, from, to, bytes) ==
    LET old == 4 * Size(h, from)
        m == IF bytes > old THEN old ELSE bytes
    IN  [h EXCEPT !.array =
            [w \in Word |-> IF w \in Payload(to, m) THEN @[w - to + from] ELSE @[w]]]

(* Mutant: realloc frees the old block first.                              *)
Realloc_FreeFirst(i, bytes) ==
    LET h1 == Freed(heap, i)
        it == Chosen(h1, bytes)
        gained == Payload(it, bytes) \ Payload(it, owned[i].bytes)
    IN
    /\ i \in DOMAIN owned
    /\ Fits(heap, bytes) # {}
    /\ heap' = Fill(Copied(Allot(h1, it, Ints(bytes)), i, it, bytes), gained,
                    owned[i].tag)
    /\ owned' = With(Disown(i), it, [bytes |-> bytes, tag |-> owned[i].tag])
    /\ UNCHANGED kind

(* realloc(p, bytes) whose malloc succeeds.  The caller then fills what it *)
(* has gained.                                                             *)
Realloc(i, bytes) ==
    LET it == Chosen(heap, bytes)
        h1 == Copied(Allot(heap, it, Ints(bytes)), i, it, bytes)
        gained == Payload(it, bytes) \ Payload(it, owned[i].bytes)
    IN
    /\ i \in DOMAIN owned
    /\ Fits(heap, bytes) # {}
    /\ heap' = Fill(Freed(h1, i), gained, owned[i].tag)
    /\ owned' = With(Disown(i), it, [bytes |-> bytes, tag |-> owned[i].tag])
    /\ UNCHANGED kind

(* ... and whose malloc fails: the old block is freed all the same.        *)
ReallocFails(i, bytes) ==
    /\ i \in DOMAIN owned
    /\ Fits(heap, bytes) = {}
    /\ heap' = Freed(heap, i)
    /\ owned' = Disown(i)
    /\ UNCHANGED kind

Next ==
    \/ \E bytes \in Bytes, tag \in Tag : Malloc(bytes, tag)
    \/ \E i \in DOMAIN owned :
          \/ Free(i)
          \/ /\ kind = "user"
             /\ \E bytes \in Bytes : Realloc(i, bytes) \/ ReallocFails(i, bytes)

Spec == Init /\ [][Next]_vars

-----------------------------------------------------------------------------

(* After any sequence of malloc, free and realloc, failed ones included,   *)
(* the blocks tile the array, the list holds exactly the available ones,   *)
(* those are never neighbours, and a block is taken exactly as long as     *)
(* somebody owns it: nothing leaks and nothing is handed out twice.        *)
HeapConsistent ==
    /\ Tiled(heap) /\ Linked(heap) /\ Coalesced(heap)
    /\ DOMAIN owned = {i \in Blocks(heap) : IsTaken(heap, i)}

(* An owner has the bytes it asked for and finds in them what it wrote,    *)
(* wherever realloc moved it to: neither the links of the heap nor another *)
(* owner touch them.                                                       *)
PayloadIntact ==
    \A i \in DOMAIN owned :
        /\ 4 * (Size(heap, i) - 2) >= owned[i].bytes
        /\ \A w \in Payload(i, owned[i].bytes) : heap.array[w] = owned[i].tag
=============================================================================
