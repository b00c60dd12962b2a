------------------------------ MODULE HeapOps ------------------------------
(***************************************************************************)
(* The boundary-tag heap that kernel/heap.cc and the user library's        *)
(* t0.dir/sbin/heap.c share: an array of ints cut into blocks.  A block    *)
(* begins with a header and ends with a footer that both hold its size in  *)
(* ints, negated while the block is taken; an available block also holds   *)
(* the links of the list that begins at avail.                             *)
(*                                                                         *)
(* A heap is a value h with the fields array and avail.                    *)
(***************************************************************************)
EXTENDS Integers, Sequences

CONSTANTS
    Len4,       \* the number of ints in the array (len, heap_len)
    SizeT       \* size_t counts modulo SizeT

ASSUME HeapAssumption ==
    /\ Len4 \in Nat /\ Len4 >= 8
    /\ SizeT \in Nat /\ SizeT > 4 * Len4 + 4

Word == 0..Len4 - 1

(* size(i) with abs() in it, footerFromHeader(i), left(i), right(i)        *)
Size(h, i) == IF h.array[i] < 0 THEN -h.array[i] ELSE h.array[i]
Footer(h, i) == i + Size(h, i) - 1
Left(h, i) == i - Size(h, i - 1)
Right(h, i) == i + Size(h, i)

NextOf(h, i) == h.array[i + 1]
PrevOf(h, i) == h.array[i + 2]
IsAvail(h, i) == h.array[i] > 0
IsTaken(h, i) == h.array[i] < 0

SetNext(h, i, x) == [h EXCEPT !.array[i + 1] = x]
SetPrev(h, i, x) == [h EXCEPT !.array[i + 2] = x]

(* Mutant: the block behind i keeps its link to i.                         *)
Remove_OneWay(h, i) ==
    LET p == PrevOf(h, i)
        n == NextOf(h, i)
    IN  IF p = 0 THEN [h EXCEPT !.avail = n] ELSE SetNext(h, p, n)

(* remove(i): take block i out of the list.                                *)
Remove(h, i) ==
    LET p == PrevOf(h, i)
        n == NextOf(h, i)
        g == IF p = 0 THEN [h EXCEPT !.avail = n] ELSE SetNext(h, p, n)
    IN  IF n = 0 THEN g ELSE SetPrev(g, n, p)

(* makeAvail(i, ints): a free block, at the head of the list.              *)
MakeAvail(h, i, ints) ==
    LET g == SetPrev(SetNext([h EXCEPT !.array[i] = ints,
                                       !.array[i + ints - 1] = ints],
                             i, h.avail), i, 0)
    IN  [(IF h.avail = 0 THEN g ELSE SetPrev(g, h.avail, i)) EXCEPT !.avail = i]

(* makeTaken(i, ints)                                                      *)
MakeTaken(h, i, ints) ==
    [h EXCEPT !.array[i] = -ints, !.array[i + ints - 1] = -ints]

(* heapInit, heap_init: a taken block of two ints at either end stops      *)
(* free() from looking further.                                            *)
Fresh ==
    LET blank == [array |-> [i \in Word |-> 0], avail |-> 0]
    IN  MakeTaken(MakeAvail(MakeTaken(blank, 0, 2), 2, Len4 - 4), Len4 - 2, 2)

(* How many ints malloc(bytes) needs, header and footer included.          *)
Ints(bytes) ==
    LET n == ((bytes + 3) % SizeT) \div 4 + 2 IN IF n < 4 THEN 4 ELSE n

(* The list that begins at avail.                                          *)
AvailList(h) ==
    LET grow[k \in 0..Len4] ==
            IF k = 0 THEN IF h.avail = 0 THEN <<>> ELSE <<h.avail>>
            ELSE LET s == grow[k - 1] IN
                 IF s = <<>> \/ NextOf(h, s[Len(s)]) = 0
                   THEN s
                   ELSE Append(s, NextOf(h, s[Len(s)]))
    IN  grow[Len4 \div 4]

(* Block i of the list is handed out, and split when at least four ints    *)
(* are left over.                                                          *)
Allot(h, i, ints) ==
    LET extra == Size(h, i) - ints
        g == Remove(h, i)
    IN  IF extra >= 4 THEN MakeAvail(MakeTaken(g, i, ints), i + ints, extra)
                      ELSE MakeTaken(g, i, Size(h, i))

(* free() of block i merges it with its free neighbours.                   *)
Freed(h, i) ==
    LET l == Left(h, i)
        r == Right(h, i)
        h1 == IF IsAvail(h, l) THEN Remove(h, l) ELSE h
        h2 == IF IsAvail(h, r) THEN Remove(h1, r) ELSE h1
    IN  MakeAvail(h2, IF IsAvail(h, l) THEN l ELSE i,
                  Size(h, i) + (IF IsAvail(h, l) THEN Size(h, l) ELSE 0)
                             + (IF IsAvail(h, r) THEN Size(h, r) ELSE 0))

-----------------------------------------------------------------------------

(* The blocks between the two sentinels, found by walking from header to   *)
(* header.                                                                 *)
Blocks(h) ==
    LET grow[k \in 0..Len4] ==
            IF k = 0 THEN <<2>>
            ELSE LET s == grow[k - 1]
                     r == Right(h, s[Len(s)])
                 IN  IF r >= Len4 - 2 THEN s ELSE Append(s, r)
        s == grow[Len4 \div 4]
    IN  {s[k] : k \in DOMAIN s}

(* The blocks fill the array from sentinel to sentinel, and every footer   *)
(* agrees with its header.                                                 *)
Tiled(h) ==
    /\ \A i \in Blocks(h) : /\ Size(h, i) >= 4
                            /\ Footer(h, i) <= Len4 - 3
                            /\ h.array[Footer(h, i)] = h.array[i]
                            /\ \/ Right(h, i) \in Blocks(h)
                               \/ Right(h, i) = Len4 - 2
    /\ \A i \in {0, Len4 - 2} : h.array[i] = -2 /\ h.array[i + 1] = -2

(* The list holds every available block once, with prev links that mirror  *)
(* the next links.                                                         *)
Linked(h) ==
    LET s == AvailList(h) IN
    /\ {s[k] : k \in DOMAIN s} = {i \in Blocks(h) : IsAvail(h, i)}
    /\ \A k \in DOMAIN s : PrevOf(h, s[k]) = IF k = 1 THEN 0 ELSE s[k - 1]

(* Two available blocks are never neighbours.                              *)
Coalesced(h) ==
    \A i \in Blocks(h) :
        IsAvail(h, i) /\ Right(h, i) \in Blocks(h) => IsTaken(h, Right(h, i))
=============================================================================
