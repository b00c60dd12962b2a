----------------------------- MODULE HeapProofs -----------------------------
(***************************************************************************)
(* The heap of Heap.tla stays consistent and its owners keep their bytes,  *)
(* for every length of the array, every set of sizes and every sequence of *)
(* malloc(), free() and realloc().                                         *)
(*                                                                         *)
(* The inductive invariant Owns speaks of the set B of block headers and   *)
(* of an order s of the available ones where Heap.tla walks: HeapInv(h, B) *)
(* says that the blocks of B tile the array, that the next and prev links  *)
(* thread the available ones in some order (Chain) and that no two of      *)
(* these are neighbours; Holds(h, i, r) says what the owner of block i     *)
(* finds in it.  RemoveIs, MakeTakenIs and MakeAvailIs are what the three  *)
(* operations on the list and the boundary tags do; AllotIs and FreedIs    *)
(* put them together for malloc() and free(), by way of StaysCoalesced:    *)
(* some blocks are replaced by one or two that cover the same words.       *)
(*                                                                         *)
(* The walks of Heap.tla (Blocks, AvailList) are functions on 0..Len4 that *)
(* are defined recursively.  That they exist, and what they reach, is      *)
(* shown by the least-number principle, which rests on the cardinality of  *)
(* intervals, with the set of counterexamples in the place of the          *)
(* predicate of an induction.                                              *)
(***************************************************************************)
EXTENDS Heap, FiniteSetTheorems, TLAPS

(* Every set of numbers that is not empty has a least one.  Otherwise the  *)
(* numbers below all of T and up to some x of T would be as many as the    *)
(* same numbers with -1, since n + 1 is again one of them.                 *)
LEMMA LeastNumber ==
    ASSUME NEW T, T \subseteq Nat, T # {}
    PROVE  \E n \in T : \A m \in T : n <= m
<1> SUFFICES ASSUME \A n \in T : \E m \in T : m < n
             PROVE  FALSE
  OBVIOUS
<1> PICK x \in T : TRUE
  OBVIOUS
<1> DEFINE S == {n \in 0..x : \A t \in T : t > n}
           next == [n \in S \cup {-1} |-> n + 1]
<1>1. IsFiniteSet(S) /\ Cardinality(S) \in Nat
  <2>1. IsFiniteSet(0..x)
    BY FS_Interval
  <2> QED
    BY <2>1, FS_Subset, FS_CardinalityType
<1>2. \A n \in S \cup {-1} : n + 1 \in S
  OBVIOUS
<1>3. -1 \notin S
  OBVIOUS
<1>4. next \in Injection(S \cup {-1}, S)
  BY <1>2 DEF Injection, IsInjective
<1> HIDE DEF S, next
<1>5. Cardinality(S \cup {-1}) = Cardinality(S) + 1
  BY <1>1, <1>3, FS_AddElement
<1>6. Cardinality(S \cup {-1}) <= Cardinality(S)
  BY <1>1, <1>4, FS_Injection
<1> QED
  BY <1>1, <1>5, <1>6

(* Induction, for the set of the numbers of which a formula is true.       *)
LEMMA AllNumbers ==
    ASSUME NEW T, 0 \in T, \A n \in Nat : n \in T => n + 1 \in T
    PROVE  Nat \subseteq T
<1> SUFFICES ASSUME Nat \ T # {} PROVE FALSE
  OBVIOUS
<1>1. PICK n \in Nat \ T : \A m \in Nat \ T : n <= m
  BY LeastNumber
<1> QED
  BY <1>1, n # 0, n - 1 \in Nat, n - 1 \notin T

(* A function of 0..n that a recursion with the first value c and the      *)
(* step f defines.                                                         *)
Recurs(g, D, c, f, n) ==
    /\ g \in [0..n -> D]
    /\ g[0] = c
    /\ \A k \in 1..n : g[k] = f[<<g[k - 1], k>>]

LEMMA RecursesAlike ==
    ASSUME NEW D, NEW c, NEW f, NEW n \in Nat, NEW m \in Nat, n <= m,
           NEW g, NEW h, Recurs(g, D, c, f, n), Recurs(h, D, c, f, m)
    PROVE  \A k \in 0..n : g[k] = h[k]
<1> DEFINE T == {k \in 0..n : g[k] # h[k]}
<1> SUFFICES ASSUME T # {} PROVE FALSE
  OBVIOUS
<1>1. T \subseteq Nat
  OBVIOUS
<1>2. PICK k \in T : \A j \in T : k <= j
  <2> HIDE DEF T
  <2> QED
    BY <1>1, LeastNumber
<1>3. k # 0
  BY <1>2 DEF Recurs
<1>4. k - 1 \in 0..n /\ k - 1 \notin T
  BY <1>2, <1>3
<1>5. g[k - 1] = h[k - 1]
  BY <1>4
<1>6. g[k] = f[<<g[k - 1], k>>] /\ h[k] = f[<<h[k - 1], k>>]
  BY <1>2, <1>3 DEF Recurs
<1> QED
  BY <1>2, <1>5, <1>6

LEMMA Recurses ==
    ASSUME NEW D, NEW c \in D, NEW f \in [D \X Nat -> D]
    PROVE  \A n \in Nat : \E g : Recurs(g, D, c, f, n)
<1> DEFINE T == {n \in Nat : \E g : Recurs(g, D, c, f, n)}
<1>1. 0 \in T
  <2>1. Recurs([k \in 0..0 |-> c], D, c, f, 0)
    BY DEF Recurs
  <2> QED
    BY <2>1
<1>2. ASSUME NEW n \in Nat, n \in T
      PROVE  n + 1 \in T
  <2>1. PICK g : Recurs(g, D, c, f, n)
    BY <1>2
  <2> DEFINE h == [k \in 0..n + 1 |-> IF k <= n THEN g[k] ELSE f[<<g[n], n + 1>>]]
  <2>2. f[<<g[n], n + 1>>] \in D
    BY <2>1 DEF Recurs
  <2>3. h \in [0..n + 1 -> D]
    BY <2>1, <2>2 DEF Recurs
  <2>4. h[0] = c
    BY <2>1 DEF Recurs
  <2>5. \A k \in 1..n + 1 : h[k] = f[<<h[k - 1], k>>]
    <3> TAKE k \in 1..n + 1
    <3>1. CASE k <= n
      <4>1. h[k] = g[k] /\ h[k - 1] = g[k - 1] /\ k \in 1..n
        BY <3>1
      <4>2. g[k] = f[<<g[k - 1], k>>]
        BY <4>1, <2>1 DEF Recurs
      <4>3. f[<<h[k - 1], k>>] = f[<<g[k - 1], k>>]
        BY <4>1
      <4> HIDE DEF h
      <4> QED
        BY <4>1, <4>2, <4>3
    <3>2. CASE k = n + 1
      <4>1. k - 1 = n /\ h[n] = g[n] /\ h[k] = f[<<g[n], k>>]
        BY <3>2
      <4>2. f[<<h[k - 1], k>>] = f[<<g[n], k>>]
        BY <4>1
      <4> HIDE DEF h
      <4> QED
        BY <4>1, <4>2
    <3> QED
      BY <3>1, <3>2
  <2> HIDE DEF h
  <2>6. Recurs(h, D, c, f, n + 1)
    BY <2>3, <2>4, <2>5 DEF Recurs
  <2> QED
    BY <2>6
<1> HIDE DEF T
<1>3. Nat \subseteq T
  BY <1>1, <1>2, AllNumbers
<1> QED
  BY <1>3 DEF T

(* What a recursion over the numbers defines.                              *)
Defined(g, D, c, f) ==
    /\ g \in [Nat -> D]
    /\ g[0] = c
    /\ \A k \in Nat \ {0} : g[k] = f[<<g[k - 1], k>>]

LEMMA Recursion ==
    ASSUME NEW D, NEW c \in D, NEW f \in [D \X Nat -> D]
    PROVE  \E g : Defined(g, D, c, f)
<1> DEFINE G(n) == CHOOSE g : Recurs(g, D, c, f, n)
           g == [k \in Nat |-> G(k)[k]]
<1>1. \A n \in Nat : Recurs(G(n), D, c, f, n)
  BY Recurses
<1> HIDE DEF G
<1>2. g \in [Nat -> D]
  BY <1>1 DEF Recurs
<1>3. g[0] = c
  BY <1>1 DEF Recurs
<1>4. ASSUME NEW k \in Nat \ {0}
      PROVE  g[k] = f[<<g[k - 1], k>>]
  <2>1. k - 1 \in Nat /\ k \in Nat /\ k - 1 <= k /\ k - 1 \in 0..k - 1 /\ k \in 1..k
    OBVIOUS
  <2>2. Recurs(G(k - 1), D, c, f, k - 1) /\ Recurs(G(k), D, c, f, k)
    BY <1>1, <2>1
  <2>3. G(k - 1)[k - 1] = G(k)[k - 1]
    BY <2>1, <2>2, RecursesAlike
  <2>4. G(k)[k] = f[<<G(k)[k - 1], k>>]
    BY <2>1, <2>2 DEF Recurs
  <2> QED
    BY <2>1, <2>3, <2>4
<1> HIDE DEF g
<1>5. Defined(g, D, c, f)
  BY <1>2, <1>3, <1>4 DEF Defined
<1> QED
  BY <1>5
-----------------------------------------------------------------------------
(* The list of available blocks                                            *)

IsHeap(h) == h \in [array : [Word -> Int], avail : Int]

(* Where a block can begin.                                                *)
Start == 2..Len4 - 6

(* Two blocks are at least four ints apart, so that neither's header and   *)
(* links touch the other's.                                                *)
Apart(F) ==
    /\ F \subseteq Start
    /\ \A i, j \in F : i # j => i >= j + 4 \/ j >= i + 4

(* The words that hold the links of the blocks of F.                       *)
Links(F) == {w \in Word : \E j \in F : w = j + 1 \/ w = j + 2}

(* The list has n blocks, those of F, each of them once; s is their order. *)
Threaded(h, F, n, s) ==
    /\ n \in Nat /\ s \in [1..n -> F]
    /\ \A i \in F : \E k \in 1..n : s[k] = i
    /\ \A k, l \in 1..n : s[k] = s[l] => k = l
    /\ h.avail = IF n = 0 THEN 0 ELSE s[1]
    /\ \A k \in 1..n :
          /\ h.array[s[k] + 1] = IF k = n THEN 0 ELSE s[k + 1]
          /\ h.array[s[k] + 2] = IF k = 1 THEN 0 ELSE s[k - 1]

Chain(h, F) == \E n, s : Threaded(h, F, n, s)

(* The heap g is h except for some words.                                  *)
Same(h, g, W) == \A w \in Word : w \notin W => g.array[w] = h.array[w]

LEMMA Sizes == Len4 \in Nat /\ Len4 >= 8
BY HeapAssumption

(* A link that is set.                                                     *)
LEMMA SetLink ==
    ASSUME NEW h, IsHeap(h), NEW i \in Start \cup {-1}, NEW x \in Int
    PROVE  /\ IsHeap(SetNext(h, i, x)) /\ SetNext(h, i, x).avail = h.avail
           /\ Same(h, SetNext(h, i, x), {i + 1})
           /\ SetNext(h, i, x).array[i + 1] = x
           /\ IsHeap(SetPrev(h, i, x)) /\ SetPrev(h, i, x).avail = h.avail
           /\ Same(h, SetPrev(h, i, x), {i + 2})
           /\ SetPrev(h, i, x).array[i + 2] = x
<1>1. i + 1 \in Word /\ i + 2 \in Word
  BY Sizes DEF Start, Word
<1>2. h.array \in [Word -> Int] /\ h.avail \in Int
  BY DEF IsHeap
<1> QED
  BY <1>1, <1>2 DEF SetNext, SetPrev, IsHeap, Same

(* remove() takes a block out of the list and touches nothing but links.   *)
LEMMA RemoveIs ==
    ASSUME NEW h, IsHeap(h), NEW F, Apart(F), Chain(h, F), NEW i \in F
    PROVE  /\ IsHeap(Remove(h, i))
           /\ Chain(Remove(h, i), F \ {i})
           /\ Same(h, Remove(h, i), Links(F \ {i}))
<1> DEFINE g == Remove(h, i)
           G == F \ {i}
<1> PICK n, s : Threaded(h, F, n, s)
  BY DEF Chain
<1>1. /\ n \in Nat /\ s \in [1..n -> F]
      /\ \A j \in F : \E k \in 1..n : s[k] = j
      /\ \A k, l \in 1..n : s[k] = s[l] => k = l
      /\ h.avail = IF n = 0 THEN 0 ELSE s[1]
      /\ \A k \in 1..n :
            /\ h.array[s[k] + 1] = IF k = n THEN 0 ELSE s[k + 1]
            /\ h.array[s[k] + 2] = IF k = 1 THEN 0 ELSE s[k - 1]
  BY DEF Threaded
<1>2. PICK c \in 1..n : s[c] = i
  BY <1>1
<1>3. /\ \A j \in F : j \in Int /\ j # 0 /\ j + 1 \in Word /\ j + 2 \in Word
      /\ \A j, l \in F : j # l => j + 1 # l + 1 /\ j + 2 # l + 2
      /\ \A j, l \in F : j + 1 # l + 2
  BY Sizes DEF Apart, Start, Word
<1> DEFINE p == IF c = 1 THEN 0 ELSE s[c - 1]
           q == IF c = n THEN 0 ELSE s[c + 1]
<1>4. /\ PrevOf(h, i) = p /\ NextOf(h, i) = q
      /\ p \in F \cup {0} /\ q \in F \cup {0}
      /\ p = 0 <=> c = 1
      /\ q = 0 <=> c = n
      /\ p # i /\ q # i
  <2>1. PrevOf(h, i) = p /\ NextOf(h, i) = q
    BY <1>1, <1>2 DEF PrevOf, NextOf
  <2>2. ASSUME c = 1 PROVE p = 0 /\ p # i
    BY <2>2, <1>3
  <2>3. ASSUME c # 1 PROVE p \in F /\ p # 0 /\ p # i
    <3>1. c - 1 \in 1..n /\ c - 1 # c
      BY <2>3, <1>1
    <3> QED
      BY <2>3, <3>1, <1>1, <1>2, <1>3
  <2>4. p \in F \cup {0} /\ (p = 0 <=> c = 1) /\ p # i
    BY <2>2, <2>3, <1>3
  <2>5. ASSUME c = n PROVE q = 0 /\ q # i
    BY <2>5, <1>3
  <2>6. ASSUME c # n PROVE q \in F /\ q # 0 /\ q # i
    <3>1. c + 1 \in 1..n /\ c + 1 # c
      BY <2>6, <1>1
    <3> QED
      BY <2>6, <3>1, <1>1, <1>2, <1>3
  <2>7. q \in F \cup {0} /\ (q = 0 <=> c = n) /\ q # i
    BY <2>5, <2>6, <1>3
  <2> QED
    BY <2>1, <2>4, <2>7
<1> HIDE DEF p, q
<1>5. /\ h.array \in [Word -> Int] /\ h.avail \in Int
  BY DEF IsHeap
<1>6. /\ IsHeap(g)
      /\ g.avail = IF p = 0 THEN q ELSE h.avail
      /\ \A w \in Word : g.array[w] = IF p # 0 /\ w = p + 1 THEN q
                                      ELSE IF q # 0 /\ w = q + 2 THEN p
                                      ELSE h.array[w]
  <2>1. p # 0 => p + 1 \in Word
    BY <1>3, <1>4
  <2>2. q # 0 => q + 2 \in Word
    BY <1>3, <1>4
  <2>3. p \in Int /\ q \in Int /\ (p # 0 /\ q # 0 => p + 1 # q + 2)
    BY <1>3, <1>4
  <2> DEFINE f == IF p = 0 THEN [h EXCEPT !.avail = q] ELSE SetNext(h, p, q)
  <2>4. /\ IsHeap(f) /\ f.avail = IF p = 0 THEN q ELSE h.avail
        /\ \A w \in Word : f.array[w] = IF p # 0 /\ w = p + 1 THEN q ELSE h.array[w]
    BY <1>5, <2>1, <2>3 DEF SetNext, IsHeap
  <2>5. g = IF q = 0 THEN f ELSE SetPrev(f, q, p)
    BY <1>4 DEF Remove
  <2> HIDE DEF f, g
  <2> QED
    BY <2>2, <2>3, <2>4, <2>5 DEF SetPrev, IsHeap
<1>7. Same(h, g, Links(G))
  <2>1. p # 0 => p + 1 \in Links(G)
    BY <1>3, <1>4 DEF Links
  <2>2. q # 0 => q + 2 \in Links(G)
    BY <1>3, <1>4 DEF Links
  <2> QED
    BY <2>1, <2>2, <1>6 DEF Same
<1> HIDE DEF g, G
<1> DEFINE m == n - 1
           r == [k \in 1..m |-> IF k < c THEN s[k] ELSE s[k + 1]]
<1>8. m \in Nat /\ c \in Nat /\ 1 <= c /\ c <= n /\ n = m + 1
  BY <1>1
<1>9. /\ r \in [1..m -> G]
      /\ \A k \in 1..m : /\ k < c => r[k] = s[k]
                         /\ k >= c => r[k] = s[k + 1]
  <2>1. \A k \in 1..m : k \in 1..n /\ k + 1 \in 1..n
    BY <1>8
  <2>2. \A k \in 1..m : (IF k < c THEN s[k] ELSE s[k + 1]) \in G
    <3> TAKE k \in 1..m
    <3>1. CASE k < c
      BY <3>1, <2>1, <1>1, <1>2, <1>8 DEF G
    <3>2. CASE k >= c
      <4>1. k + 1 # c
        BY <3>2, <1>8
      <4> QED
        BY <3>2, <4>1, <2>1, <1>1, <1>2, <1>8 DEF G
    <3> QED
      BY <3>1, <3>2, <1>8
  <2> QED
    BY <2>2, <1>8
<1> HIDE DEF r, m
<1>10. \A j \in G : \E k \in 1..m : r[k] = j
  <2> TAKE j \in G
  <2>1. PICK k \in 1..n : s[k] = j
    BY <1>1 DEF G
  <2>2. k # c
    BY <2>1, <1>2 DEF G
  <2>3. CASE k < c
    BY <2>1, <2>3, <1>8, <1>9
  <2>4. CASE k > c
    <3>1. k - 1 \in 1..m /\ k - 1 >= c /\ (k - 1) + 1 = k
      BY <2>4, <1>8
    <3> QED
      BY <3>1, <2>1, <1>9
  <2> QED
    BY <2>2, <2>3, <2>4, <1>8
<1>11. \A k, l \in 1..m : r[k] = r[l] => k = l
  <2> TAKE k, l \in 1..m
  <2>1. k \in 1..n /\ k + 1 \in 1..n /\ l \in 1..n /\ l + 1 \in 1..n
    BY <1>8
  <2> HAVE r[k] = r[l]
  <2>2. k < c \/ k >= c
    BY <1>8
  <2>3. l < c \/ l >= c
    BY <1>8
  <2>4. CASE k < c /\ l < c
    BY <2>1, <2>4, <1>1, <1>9
  <2>5. CASE k >= c /\ l >= c
    <3>1. k + 1 = l + 1
      BY <2>1, <2>5, <1>1, <1>9
    <3> QED
      BY <3>1
  <2>6. CASE k < c /\ l >= c
    <3>1. k = l + 1
      BY <2>1, <2>6, <1>1, <1>9
    <3> QED
      BY <2>6, <3>1, <1>8
  <2>7. CASE k >= c /\ l < c
    <3>1. k + 1 = l
      BY <2>1, <2>7, <1>1, <1>9
    <3> QED
      BY <2>7, <3>1, <1>8
  <2> QED
    BY <2>2, <2>3, <2>4, <2>5, <2>6, <2>7
<1>12. g.avail = IF m = 0 THEN 0 ELSE r[1]
  <2>1. CASE c = 1
    <3>1. g.avail = q
      BY <2>1, <1>4, <1>6
    <3>2. q = IF n = 1 THEN 0 ELSE s[2]
      BY <2>1 DEF q
    <3>3. m # 0 => 1 \in 1..m /\ r[1] = s[2]
      BY <2>1, <1>8, <1>9
    <3> QED
      BY <3>1, <3>2, <3>3, <1>8
  <2>2. CASE c # 1
    <3>1. g.avail = s[1]
      BY <2>2, <1>1, <1>4, <1>6, <1>8
    <3>2. 1 \in 1..m /\ r[1] = s[1] /\ m # 0
      BY <2>2, <1>8, <1>9
    <3> QED
      BY <3>1, <3>2
  <2> QED
    BY <2>1, <2>2
(* The links of the blocks that stay.                                      *)
<1>13. ASSUME NEW k \in 1..n, k # c
       PROVE  /\ g.array[s[k] + 1] = IF k = c - 1 THEN q ELSE h.array[s[k] + 1]
              /\ g.array[s[k] + 2] = IF k = c + 1 THEN p ELSE h.array[s[k] + 2]
  <2>1. s[k] \in F /\ s[k] + 1 \in Word /\ s[k] + 2 \in Word
    BY <1>1, <1>3
  <2>2. p # 0 => p = s[c - 1] /\ c - 1 \in 1..n
    BY <1>4, <1>8 DEF p
  <2>3. q # 0 => q = s[c + 1] /\ c + 1 \in 1..n
    BY <1>4, <1>8 DEF q
  <2>4. k = c - 1 => p # 0 /\ p = s[k]
    BY <2>2, <1>4, <1>8
  <2>5. k = c + 1 => q # 0 /\ q = s[k]
    BY <2>3, <1>4, <1>8
  <2>6. p # 0 /\ k # c - 1 => s[k] + 1 # p + 1
    <3>1. p # 0 /\ k # c - 1 => s[k] # p /\ p \in F
      BY <2>1, <2>2, <1>1
    <3> QED
      BY <2>1, <3>1, <1>3
  <2>7. q # 0 /\ k # c + 1 => s[k] + 2 # q + 2
    <3>1. q # 0 /\ k # c + 1 => s[k] # q /\ q \in F
      BY <2>1, <2>3, <1>1
    <3> QED
      BY <2>1, <3>1, <1>3
  <2>8. (p # 0 => s[k] + 2 # p + 1) /\ (q # 0 => s[k] + 1 # q + 2)
    BY <2>1, <1>3, <1>4
  <2> QED
    BY <2>1, <2>4, <2>5, <2>6, <2>7, <2>8, <1>6
<1>14. ASSUME NEW k \in 1..m
       PROVE  /\ g.array[r[k] + 1] = IF k = m THEN 0 ELSE r[k + 1]
              /\ g.array[r[k] + 2] = IF k = 1 THEN 0 ELSE r[k - 1]
  <2>0. k \in 1..n /\ k + 1 \in 1..n
    BY <1>8
  <2>1. CASE k < c
    <3>1. r[k] = s[k] /\ k # c
      BY <2>1, <1>8, <1>9
    <3>2. g.array[s[k] + 2] = IF k = 1 THEN 0 ELSE r[k - 1]
      <4>1. k # c + 1 /\ k # 1 => k - 1 \in 1..m /\ r[k - 1] = s[k - 1]
        BY <2>1, <1>8, <1>9
      <4>2. k # c + 1
        BY <2>1, <1>8
      <4> QED
        BY <4>1, <4>2, <2>0, <3>1, <1>1, <1>13
    <3>3. g.array[s[k] + 1] = IF k = m THEN 0 ELSE r[k + 1]
      <4>1. CASE k = c - 1
        <5>1. g.array[s[k] + 1] = q
          BY <4>1, <3>1, <2>0, <1>13
        <5>2. q = IF c = n THEN 0 ELSE s[c + 1]
          BY DEF q
        <5>3. k # m => k + 1 \in 1..m /\ r[k + 1] = s[k + 2] /\ k + 2 = c + 1
          BY <4>1, <1>8, <1>9
        <5>4. k = m <=> c = n
          BY <4>1, <1>8
        <5> QED
          BY <5>1, <5>2, <5>3, <5>4
      <4>2. CASE k # c - 1
        <5>1. k # m /\ k + 1 \in 1..m /\ r[k + 1] = s[k + 1] /\ k # n
          BY <2>1, <4>2, <1>8, <1>9
        <5> QED
          BY <4>2, <5>1, <3>1, <2>0, <1>1, <1>13
      <4> QED
        BY <4>1, <4>2
    <3> QED
      BY <3>1, <3>2, <3>3
  <2>2. CASE k >= c
    <3>1. r[k] = s[k + 1] /\ k + 1 # c /\ k + 1 # c - 1
      BY <2>2, <1>8, <1>9
    <3>2. g.array[s[k + 1] + 1] = IF k = m THEN 0 ELSE r[k + 1]
      <4>1. k # m => k + 1 \in 1..m /\ r[k + 1] = s[(k + 1) + 1]
        BY <2>2, <1>8, <1>9
      <4>2. k = m <=> k + 1 = n
        BY <1>8
      <4> QED
        BY <4>1, <4>2, <3>1, <2>0, <1>1, <1>13
    <3>3. g.array[s[k + 1] + 2] = IF k = 1 THEN 0 ELSE r[k - 1]
      <4>1. CASE k = c
        <5>1. g.array[s[k + 1] + 2] = p
          BY <4>1, <3>1, <2>0, <1>13
        <5>2. p = IF c = 1 THEN 0 ELSE s[c - 1]
          BY DEF p
        <5>3. k # 1 => k - 1 \in 1..m /\ r[k - 1] = s[k - 1]
          BY <4>1, <1>8, <1>9
        <5> QED
          BY <4>1, <5>1, <5>2, <5>3
      <4>2. CASE k # c
        <5>1. k # 1 /\ k - 1 \in 1..m /\ r[k - 1] = s[(k + 1) - 1] /\ k + 1 # 1
          BY <2>2, <4>2, <1>8, <1>9
        <5>2. k + 1 # c + 1
          BY <4>2, <1>8
        <5> QED
          BY <5>1, <5>2, <3>1, <2>0, <1>1, <1>13
      <4> QED
        BY <4>1, <4>2
    <3> QED
      BY <3>1, <3>2, <3>3
  <2> QED
    BY <2>1, <2>2, <1>8
<1>15. Threaded(g, G, m, r)
  BY <1>8, <1>9, <1>10, <1>11, <1>12, <1>14 DEF Threaded
<1> QED
  BY <1>6, <1>7, <1>15 DEF Chain, g, G

(* makeTaken() writes two words and no links.                              *)
LEMMA MakeTakenIs ==
    ASSUME NEW h, IsHeap(h), NEW F, Apart(F), Chain(h, F), NEW i \in Int, NEW ints \in Int,
           i \in Word \ Links(F), (i + ints) - 1 \in Word \ Links(F)
    PROVE  /\ IsHeap(MakeTaken(h, i, ints))
           /\ Chain(MakeTaken(h, i, ints), F)
           /\ Same(h, MakeTaken(h, i, ints), {i, (i + ints) - 1})
           /\ MakeTaken(h, i, ints).array[i] = -ints
           /\ MakeTaken(h, i, ints).array[(i + ints) - 1] = -ints
           /\ MakeTaken(h, i, ints).avail = h.avail
<1> DEFINE g == MakeTaken(h, i, ints)
           e == (i + ints) - 1
<1>1. e = i + ints - 1 /\ e \in Word /\ -ints \in Int
  OBVIOUS
<1>2. h.array \in [Word -> Int] /\ h.avail \in Int
  BY DEF IsHeap
<1> HIDE DEF e
<1>3. g = [h EXCEPT !.array[i] = -ints, !.array[e] = -ints]
  BY <1>1 DEF MakeTaken
<1> HIDE DEF g
<1>4. /\ IsHeap(g) /\ g.avail = h.avail
      /\ \A w \in Word : g.array[w] = IF w = i \/ w = e THEN -ints ELSE h.array[w]
  BY <1>1, <1>2, <1>3 DEF IsHeap
<1>5. Chain(g, F)
  <2> PICK n, s : Threaded(h, F, n, s)
    BY DEF Chain
  <2>1. \A j \in F : j + 1 \in Links(F) /\ j + 2 \in Links(F)
    BY Sizes DEF Links, Apart, Start, Word
  <2>2. \A w \in Links(F) : w \in Word /\ g.array[w] = h.array[w]
    BY <1>4 DEF e, Links
  <2>3. \A k \in 1..n : s[k] \in F
    BY DEF Threaded
  <2>4. \A k \in 1..n : /\ g.array[s[k] + 1] = h.array[s[k] + 1]
                        /\ g.array[s[k] + 2] = h.array[s[k] + 2]
    BY <2>1, <2>2, <2>3
  <2>5. Threaded(g, F, n, s)
    BY <2>4, <1>4 DEF Threaded
  <2> QED
    BY <2>5 DEF Chain
<1> QED
  BY <1>4, <1>5 DEF Same, g, e

(* makeAvail() puts a block at the head of the list.                       *)
LEMMA MakeAvailIs ==
    ASSUME NEW h, IsHeap(h), NEW F, Apart(F), Chain(h, F),
           NEW i \in Start, NEW ints \in Nat, ints >= 4, i + ints <= Len4 - 2,
           \A j \in F : j + 4 <= i \/ j >= i + ints
    PROVE  /\ IsHeap(MakeAvail(h, i, ints))
           /\ Chain(MakeAvail(h, i, ints), F \cup {i})
           /\ Same(h, MakeAvail(h, i, ints),
                   {i, i + 1, i + 2, (i + ints) - 1} \cup Links(F))
           /\ MakeAvail(h, i, ints).array[i] = ints
           /\ MakeAvail(h, i, ints).array[(i + ints) - 1] = ints
<1> DEFINE g == MakeAvail(h, i, ints)
           G == F \cup {i}
           e == (i + ints) - 1
           a == h.avail
<1> PICK n, s : Threaded(h, F, n, s)
  BY DEF Chain
<1>1. /\ n \in Nat /\ s \in [1..n -> F]
      /\ \A j \in F : \E k \in 1..n : s[k] = j
      /\ \A k, l \in 1..n : s[k] = s[l] => k = l
      /\ a = IF n = 0 THEN 0 ELSE s[1]
      /\ \A k \in 1..n :
            /\ h.array[s[k] + 1] = IF k = n THEN 0 ELSE s[k + 1]
            /\ h.array[s[k] + 2] = IF k = 1 THEN 0 ELSE s[k - 1]
  BY DEF Threaded
<1>2. /\ i \in Nat /\ i # 0 /\ {i, i + 1, i + 2, e} \subseteq Word
      /\ i # i + 1 /\ i # i + 2 /\ i + 1 # i + 2 /\ e # i /\ e # i + 1 /\ e # i + 2
  BY Sizes DEF Start, Word
<1>3. /\ \A j \in F : /\ j \in Int /\ j # 0 /\ j + 1 \in Word /\ j + 2 \in Word /\ j # i
                      /\ j + 1 \notin {i, i + 1, i + 2, e} /\ j + 2 \notin {i, i + 1, i + 2, e}
      /\ \A j, l \in F : j # l => j + 2 # l + 2
      /\ \A j, l \in F : j + 1 # l + 2
  BY Sizes DEF Apart, Start, Word
<1>4. n # 0 => a \in F /\ a # 0 /\ 1 \in 1..n
  BY <1>1, <1>3
<1>5. h.array \in [Word -> Int] /\ a \in Int /\ i \in Word /\ e \in Word /\ ints \in Int
  BY <1>2 DEF IsHeap
<1>5A. e = i + ints - 1
  BY <1>2
<1> HIDE DEF e
<1> DEFINE f == SetPrev(SetNext([h EXCEPT !.array[i] = ints, !.array[e] = ints], i, a), i, 0)
<1>6. g = [(IF a = 0 THEN f ELSE SetPrev(f, a, i)) EXCEPT !.avail = i]
  BY <1>5A DEF MakeAvail
<1> HIDE DEF e, g, a
<1>7. /\ IsHeap(f)
      /\ \A w \in Word : f.array[w] = IF w = i + 2 THEN 0
                                      ELSE IF w = i + 1 THEN a
                                      ELSE IF w = i \/ w = e THEN ints
                                      ELSE h.array[w]
  <2> DEFINE f0 == [h EXCEPT !.array[i] = ints, !.array[e] = ints]
             f1 == SetNext(f0, i, a)
  <2>1. /\ IsHeap(f0)
        /\ \A w \in Word : f0.array[w] = IF w = i \/ w = e THEN ints ELSE h.array[w]
    BY <1>2, <1>5 DEF IsHeap
  <2>2. f = SetPrev(f1, i, 0)
    OBVIOUS
  <2> HIDE DEF f0, f
  <2>3. IsHeap(f1) /\ \A w \in Word : f1.array[w] = IF w = i + 1 THEN a ELSE f0.array[w]
    BY <2>1, <1>2, <1>5 DEF IsHeap, SetNext
  <2> HIDE DEF f1
  <2>4. IsHeap(f) /\ \A w \in Word : f.array[w] = IF w = i + 2 THEN 0 ELSE f1.array[w]
    BY <2>2, <2>3, <1>2, <1>5 DEF IsHeap, SetPrev
  <2> QED
    BY <2>1, <2>3, <2>4, <1>2
<1> HIDE DEF f
<1>8. /\ IsHeap(g) /\ g.avail = i
      /\ \A w \in Word : g.array[w] = IF n # 0 /\ w = a + 2 THEN i ELSE f.array[w]
  <2>1. n # 0 => a + 2 \in Word /\ a # 0
    BY <1>3, <1>4
  <2>2. n = 0 => a = 0
    BY <1>1 DEF a
  <2> QED
    BY <2>1, <2>2, <1>2, <1>6, <1>7 DEF IsHeap, SetPrev
<1>9. /\ g.array[i] = ints /\ g.array[e] = ints /\ g.array[i + 1] = a /\ g.array[i + 2] = 0
      /\ Same(h, g, {i, i + 1, i + 2, e} \cup Links(F))
  <2>1. n # 0 => a + 2 \notin {i, i + 1, i + 2, e} /\ a + 2 \in Links(F)
    BY <1>3, <1>4 DEF Links
  <2>2. g.array[i] = ints /\ g.array[e] = ints /\ g.array[i + 1] = a /\ g.array[i + 2] = 0
    BY <2>1, <1>2, <1>7, <1>8
  <2>3. Same(h, g, {i, i + 1, i + 2, e} \cup Links(F))
    BY <2>1, <1>7, <1>8 DEF Same
  <2> QED
    BY <2>2, <2>3
<1> DEFINE m == n + 1
           r == [k \in 1..m |-> IF k = 1 THEN i ELSE s[k - 1]]
<1>10. m \in Nat /\ m # 0 /\ n = m - 1
  BY <1>1
<1>11. /\ r \in [1..m -> G] /\ r[1] = i
       /\ \A k \in 1..n : k + 1 \in 1..m /\ r[k + 1] = s[k]
       /\ \A k \in 1..m : k = 1 \/ k - 1 \in 1..n
  <2>1. \A k \in 1..m : k = 1 \/ k - 1 \in 1..n
    BY <1>10
  <2>2. \A k \in 1..m : (IF k = 1 THEN i ELSE s[k - 1]) \in G
    BY <2>1, <1>1
  <2>3. \A k \in 1..n : k + 1 \in 1..m /\ k + 1 # 1 /\ (k + 1) - 1 = k
    BY <1>10
  <2>4. 1 \in 1..m
    BY <1>10
  <2> QED
    BY <2>1, <2>2, <2>3, <2>4
<1> HIDE DEF r, m, G
<1>12. \A j \in G : \E k \in 1..m : r[k] = j
  <2>1. 1 \in 1..m
    BY <1>10
  <2> QED
    BY <2>1, <1>1, <1>11 DEF G
<1>13. \A k, l \in 1..m : r[k] = r[l] => k = l
  <2>1. \A k \in 1..m : k = 1 \/ (k - 1 \in 1..n /\ r[k] = s[k - 1] /\ r[k] # i)
    <3> SUFFICES ASSUME NEW k \in 1..m, k # 1
                 PROVE  k - 1 \in 1..n /\ r[k] = s[k - 1] /\ r[k] # i
      OBVIOUS
    <3>1. (k - 1) + 1 = k /\ k - 1 \in 1..n
      BY <1>10, <1>11
    <3>2. r[k] = s[k - 1]
      BY ONLY <3>1, <1>11
    <3>3. s[k - 1] \in F
      BY ONLY <3>1, <1>1
    <3> QED
      BY ONLY <3>1, <3>2, <3>3, <1>3
  <2> TAKE k, l \in 1..m
  <2> HAVE r[k] = r[l]
  <2>2. CASE k = 1
    BY <2>1, <2>2, <1>11
  <2>3. CASE l = 1
    BY <2>1, <2>3, <1>11
  <2>4. CASE k # 1 /\ l # 1
    <3>1. k - 1 = l - 1
      BY <2>1, <2>4, <1>1
    <3> QED
      BY <3>1, <1>10
  <2> QED
    BY <2>2, <2>3, <2>4
<1>14. ASSUME NEW k \in 1..m
       PROVE  /\ g.array[r[k] + 1] = IF k = m THEN 0 ELSE r[k + 1]
              /\ g.array[r[k] + 2] = IF k = 1 THEN 0 ELSE r[k - 1]
  <2>1. CASE k = 1
    <3>1. a = IF n = 0 THEN 0 ELSE s[1]
      BY <1>1 DEF a
    <3>2. k = m <=> n = 0
      BY <2>1, <1>1 DEF m
    <3>3. n # 0 => r[k + 1] = s[1]
      BY <2>1, <1>4, <1>11
    <3> QED
      BY <2>1, <3>1, <3>2, <3>3, <1>9, <1>11
  <2>2. CASE k # 1
    <3> DEFINE l == k - 1
    <3>1. l \in 1..n /\ k = l + 1 /\ r[k] = s[l] /\ (k = m <=> l = n) /\ n # 0
      BY <2>2, <1>10, <1>11
    <3>2. k # m => l + 1 \in 1..n /\ r[k + 1] = s[l + 1]
      <4>1. k # m => l + 1 \in 1..n /\ k + 1 = (l + 1) + 1
        BY <3>1, <1>10
      <4> QED
        BY <4>1, <1>11
    <3>3. l # 1 => l - 1 \in 1..n /\ r[k - 1] = s[l - 1]
      <4>1. l # 1 => l - 1 \in 1..n /\ k - 1 = (l - 1) + 1
        BY <3>1, <1>10
      <4> QED
        BY <4>1, <1>11
    <3>4. l = 1 => r[k - 1] = i
      BY <1>11
    <3>5. s[l] \in F /\ (s[l] = a <=> l = 1)
      BY <3>1, <1>1, <1>4 DEF a
    <3> HIDE DEF l
    <3>6. /\ g.array[s[l] + 1] = h.array[s[l] + 1]
          /\ g.array[s[l] + 2] = IF l = 1 THEN i ELSE h.array[s[l] + 2]
      BY <3>1, <3>5, <1>3, <1>4, <1>7, <1>8
    <3>7. g.array[s[l] + 1] = IF k = m THEN 0 ELSE r[k + 1]
      BY <3>1, <3>2, <3>6, <1>1
    <3>8. g.array[s[l] + 2] = r[k - 1]
      BY <3>1, <3>3, <3>4, <3>6, <1>1
    <3> QED
      BY <2>2, <3>1, <3>7, <3>8
  <2> QED
    BY <2>1, <2>2
<1>15. Threaded(g, G, m, r)
  BY <1>8, <1>10, <1>11, <1>12, <1>13, <1>14 DEF Threaded
<1> QED
  BY <1>8, <1>9, <1>15 DEF Chain, g, G, e

(* The same two facts, each as one property of what goes in.               *)
MakesTaken(h, F, i, ints) ==
    /\ IsHeap(MakeTaken(h, i, ints)) /\ Chain(MakeTaken(h, i, ints), F)
    /\ Same(h, MakeTaken(h, i, ints), {i, (i + ints) - 1})
    /\ MakeTaken(h, i, ints).array[i] = -ints
    /\ MakeTaken(h, i, ints).array[(i + ints) - 1] = -ints

LEMMA MakeTakenDoes ==
    ASSUME NEW h, IsHeap(h), NEW F, Apart(F), Chain(h, F), NEW i \in Int, NEW ints \in Int,
           i \in Word \ Links(F), (i + ints) - 1 \in Word \ Links(F)
    PROVE  MakesTaken(h, F, i, ints)
BY MakeTakenIs DEF MakesTaken

MakesAvail(h, F, i, ints) ==
    /\ IsHeap(MakeAvail(h, i, ints))
    /\ Chain(MakeAvail(h, i, ints), F \cup {i})
    /\ Same(h, MakeAvail(h, i, ints),
            {i, i + 1, i + 2, (i + ints) - 1} \cup Links(F))
    /\ MakeAvail(h, i, ints).array[i] = ints
    /\ MakeAvail(h, i, ints).array[(i + ints) - 1] = ints

LEMMA MakeAvailDoes ==
    ASSUME NEW h, IsHeap(h), NEW F, Apart(F), Chain(h, F),
           NEW i \in Start, NEW ints \in Nat, ints >= 4, i + ints <= Len4 - 2,
           \A j \in F : j + 4 <= i \/ j >= i + ints
    PROVE  MakesAvail(h, F, i, ints)
BY MakeAvailIs DEF MakesAvail

(* The first m elements.                                                   *)
Prefix(s, m) == [j \in 1..m |-> s[j]]

PrefixOf(S, n, s, m) ==
    /\ Prefix(s, m) \in Seq(S) /\ Len(Prefix(s, m)) = m
    /\ \A j \in 1..m : Prefix(s, m)[j] = s[j]
    /\ m < n => Append(Prefix(s, m), s[m + 1]) = Prefix(s, m + 1)
    /\ m = 0 <=> Prefix(s, m) = <<>>
    /\ Prefix(s, n) = s

LEMMA Prefixes ==
    ASSUME NEW S, NEW n \in Nat, NEW s \in [1..n -> S], NEW m \in 0..n
    PROVE  PrefixOf(S, n, s, m)
<1>1. m \in Nat /\ \A j \in 1..m : j \in 1..n
  OBVIOUS
<1>2. Prefix(s, m) \in Seq(S) /\ Len(Prefix(s, m)) = m
  BY <1>1 DEF Prefix
<1>3. \A j \in 1..m : Prefix(s, m)[j] = s[j]
  BY DEF Prefix
<1>4. ASSUME m < n PROVE Append(Prefix(s, m), s[m + 1]) = Prefix(s, m + 1)
  <2>1. m + 1 \in 1..n /\ m + 1 \in Nat
    BY <1>4, <1>1
  <2>2. s[m + 1] \in S
    BY <2>1
  <2> DEFINE p == Prefix(s, m)
             q == Prefix(s, m + 1)
  <2>3. q \in Seq(S) /\ Len(q) = m + 1 /\ \A j \in 1..m + 1 : q[j] = s[j]
    BY <2>1 DEF Prefix
  <2>4. p \in Seq(S) /\ Len(p) = m /\ \A j \in 1..m : p[j] = s[j]
    BY <1>2, <1>3
  <2> HIDE DEF p, q
  <2>5. /\ Append(p, s[m + 1]) \in Seq(S) /\ Len(Append(p, s[m + 1])) = m + 1
        /\ \A j \in 1..m : Append(p, s[m + 1])[j] = p[j]
        /\ Append(p, s[m + 1])[m + 1] = s[m + 1]
    BY <2>2, <2>4
  <2>6. \A j \in 1..m + 1 : j \in 1..m \/ j = m + 1
    BY <1>1
  <2>7. \A j \in 1..m + 1 : Append(p, s[m + 1])[j] = q[j]
    BY <2>3, <2>4, <2>5, <2>6
  <2> DEFINE a == Append(p, s[m + 1])
  <2>8. a \in Seq(S) /\ Len(a) = m + 1 /\ \A j \in 1..m + 1 : a[j] = q[j]
    BY <2>5, <2>7
  <2> HIDE DEF a
  <2>9. a = q
    BY <2>3, <2>8
  <2> QED
    BY <2>9 DEF a, p, q
<1>5. m = 0 <=> Prefix(s, m) = <<>>
  BY <1>2
<1>6. Prefix(s, n) = s
  BY DEF Prefix
<1> QED
  BY <1>2, <1>3, <1>4, <1>5, <1>6 DEF PrefixOf

(* There are no more blocks that are four ints apart than AvailList counts *)
(* to.                                                                     *)
LEMMA FewBlocks ==
    ASSUME NEW F, Apart(F), NEW n \in Nat, NEW s \in [1..n -> F],
           \A k, l \in 1..n : s[k] = s[l] => k = l
    PROVE  n <= Len4 \div 4
<1> DEFINE M == (Len4 - 8) \div 4
           f == [k \in 1..n |-> (s[k] - 2) \div 4]
<1>1. M \in Nat /\ M + 1 <= Len4 \div 4
  BY Sizes
<1>2. \A i \in Start : (i - 2) \div 4 \in 0..M
  BY Sizes DEF Start
<1>3. \A i, j \in Start : i >= j + 4 => (i - 2) \div 4 # (j - 2) \div 4
  BY Sizes DEF Start
<1>4. \A k \in 1..n : s[k] \in F /\ s[k] \in Start
  BY DEF Apart
<1> HIDE DEF M
<1>5. f \in [1..n -> 0..M]
  BY <1>2, <1>4
<1>6. \A k, l \in 1..n : f[k] = f[l] => k = l
  <2> TAKE k, l \in 1..n
  <2> HAVE f[k] = f[l]
  <2>1. (s[k] - 2) \div 4 = (s[l] - 2) \div 4
    OBVIOUS
  <2>2. ~(s[k] >= s[l] + 4) /\ ~(s[l] >= s[k] + 4)
    BY <2>1, <1>3, <1>4
  <2>3. s[k] = s[l]
    BY <2>2, <1>4 DEF Apart
  <2> QED
    BY <2>3
<1> HIDE DEF f
<1>7. f \in Injection(1..n, 0..M)
  BY <1>5, <1>6 DEF Injection, IsInjective
<1>8. /\ IsFiniteSet(0..M) /\ Cardinality(0..M) = M + 1
      /\ Cardinality(1..n) = n
  <2>1. IsFiniteSet(0..M) /\ Cardinality(0..M) = M + 1
    <3>1. 0 \in Int /\ M \in Int /\ ~(0 > M)
      BY <1>1
    <3>2. IsFiniteSet(0..M) /\ Cardinality(0..M) = IF 0 > M THEN 0 ELSE (M - 0) + 1
      BY <3>1, FS_Interval
    <3> QED
      BY <3>1, <3>2
  <2>2. Cardinality(1..n) = n
    BY FS_Interval
  <2> QED
    BY <2>1, <2>2
<1>9. n <= M + 1
  <2>1. Cardinality(1..n) <= Cardinality(0..M)
    BY <1>7, <1>8, FS_Injection
  <2> QED
    BY <2>1, <1>8
<1> QED
  BY <1>1, <1>9, Sizes

(* The walk along the list finds all of it.                                *)
LEMMA AvailListIs ==
    ASSUME NEW h, NEW F, Apart(F), NEW n, NEW s, Threaded(h, F, n, s)
    PROVE  AvailList(h) = s
<1> DEFINE Step(q) ==
             IF q = <<>> \/ NextOf(h, q[Len(q)]) = 0 THEN q
             ELSE Append(q, NextOf(h, q[Len(q)]))
           Begin == IF h.avail = 0 THEN <<>> ELSE <<h.avail>>
           Defines(w) == w = [k \in 0..Len4 |-> IF k = 0 THEN Begin ELSE Step(w[k - 1])]
           m(k) == IF k < n THEN k + 1 ELSE n
           w0 == [k \in 0..Len4 |-> Prefix(s, m(k))]
<1>1. /\ n \in Nat /\ s \in [1..n -> F]
      /\ h.avail = IF n = 0 THEN 0 ELSE s[1]
      /\ \A k \in 1..n : NextOf(h, s[k]) = IF k = n THEN 0 ELSE s[k + 1]
  BY DEF Threaded, NextOf
<1>2. n <= Len4 \div 4
  BY <1>1, FewBlocks DEF Threaded
<1>3. \A j \in F : j # 0
  BY DEF Apart, Start
<1>4. \A k \in Nat : m(k) \in 0..n
  BY <1>1
<1>5. Begin = Prefix(s, m(0))
  <2>1. CASE n = 0
    <3>1. 0 \in 0..n /\ m(0) = 0
      BY <2>1
    <3>2. Prefix(s, 0) = <<>>
      <4>1. PrefixOf(F, n, s, 0)
        BY <3>1, <1>1, Prefixes
      <4> QED
        BY <4>1 DEF PrefixOf
    <3> QED
      BY <2>1, <3>1, <3>2, <1>1
  <2>2. CASE n # 0
    <3>1. 1 \in 1..n /\ s[1] \in F /\ s[1] # 0 /\ m(0) = 1
      BY <2>2, <1>1, <1>3
    <3>2. Begin = <<s[1]>>
      BY <2>2, <3>1, <1>1
    <3>3. Prefix(s, 1) = <<s[1]>>
      BY DEF Prefix
    <3> QED
      BY <3>1, <3>2, <3>3
  <2> QED
    BY <2>1, <2>2
<1>6. ASSUME NEW k \in Nat \ {0}
      PROVE  Prefix(s, m(k)) = Step(Prefix(s, m(k - 1)))
  <2> DEFINE c == m(k - 1)
             q == Prefix(s, c)
  <2>1. c \in 0..n /\ c = (IF k <= n THEN k ELSE n)
    BY <1>1
  <2>2. /\ Len(q) = c /\ (c = 0 <=> q = <<>>) /\ \A j \in 1..c : q[j] = s[j]
        /\ c < n => Append(q, s[c + 1]) = Prefix(s, c + 1)
    <3> HIDE DEF c
    <3>1. PrefixOf(F, n, s, c)
      BY <2>1, <1>1, Prefixes
    <3> QED
      BY <3>1 DEF PrefixOf
  <2> HIDE DEF q
  <2>3. CASE c = n
    <3>1. m(k) = n
      BY <2>1, <2>3, <1>1
    <3>2. q = <<>> \/ NextOf(h, q[Len(q)]) = 0
      BY <2>1, <2>2, <2>3, <1>1
    <3>3. Step(q) = q
      BY <3>2
    <3> QED
      BY <2>3, <3>1, <3>3 DEF q
  <2>4. CASE c < n
    <3>1. c = k /\ m(k) = c + 1 /\ c \in 1..n /\ c + 1 \in 1..n /\ c # n
      BY <2>1, <2>4, <1>1
    <3>2. q # <<>> /\ q[Len(q)] = s[c] /\ NextOf(h, s[c]) = s[c + 1] /\ s[c + 1] # 0
      BY <2>2, <3>1, <1>1, <1>3
    <3>3. Step(q) = Append(q, s[c + 1])
      BY <3>2
    <3> QED
      BY <2>2, <2>4, <3>1, <3>3 DEF q
  <2> QED
    BY <2>1, <2>3, <2>4, <1>1
<1> HIDE DEF m, Step, Begin
<1>7. Defines(w0)
  <2>1. ASSUME NEW k \in 0..Len4
        PROVE  w0[k] = IF k = 0 THEN Begin ELSE Step(w0[k - 1])
    <3>1. CASE k = 0
      BY <3>1, <1>5
    <3>2. CASE k # 0
      <4>1. k - 1 \in 0..Len4 /\ k \in Nat \ {0}
        BY <3>2, Sizes
      <4>2. w0[k] = Prefix(s, m(k)) /\ w0[k - 1] = Prefix(s, m(k - 1))
        BY <4>1
      <4> HIDE DEF w0
      <4> QED
        BY <3>2, <4>1, <4>2, <1>6
    <3> QED
      BY <3>1, <3>2
  <2>2. w0 = [k \in 0..Len4 |-> w0[k]]
    OBVIOUS
  <2> HIDE DEF w0
  <2> QED
    BY <2>1, <2>2
<1> DEFINE X == CHOOSE w : Defines(w)
<1>8. Defines(X)
  <2> HIDE DEF Defines
  <2> QED
    BY <1>7
<1>9. AvailList(h) = X[Len4 \div 4]
  BY DEF AvailList, Step, Begin
<1> HIDE DEF X
<1>10. X[0] = Begin /\ \A k \in 1..Len4 : X[k] = Step(X[k - 1])
  <2>1. X = [k \in 0..Len4 |-> IF k = 0 THEN Begin ELSE Step(X[k - 1])]
    BY <1>8
  <2> HIDE DEF Defines
  <2>2. \A k \in 0..Len4 : X[k] = IF k = 0 THEN Begin ELSE Step(X[k - 1])
    BY <2>1
  <2>3. 0 \in 0..Len4 /\ \A k \in 1..Len4 : k \in 0..Len4 /\ k # 0
    BY Sizes
  <2> QED
    BY <2>2, <2>3
<1> HIDE DEF Defines
<1> DEFINE T == {k \in Nat : k <= Len4 => X[k] = Prefix(s, m(k))}
<1>11. 0 \in T
  BY <1>5, <1>10
<1>12. ASSUME NEW k \in Nat, k \in T PROVE k + 1 \in T
  <2>1. CASE k + 1 <= Len4
    <3>1. k + 1 \in 1..Len4 /\ (k + 1) - 1 = k /\ k <= Len4 /\ k + 1 \in Nat \ {0}
      BY <2>1, Sizes
    <3>2. X[k + 1] = Step(X[k]) /\ Prefix(s, m(k + 1)) = Step(Prefix(s, m(k)))
      BY <3>1, <1>6, <1>10
    <3> QED
      BY <3>1, <3>2, <1>12
  <2>2. CASE ~(k + 1 <= Len4)
    BY <2>2
  <2> QED
    BY <2>1, <2>2
<1> HIDE DEF T
<1>13. Nat \subseteq T
  BY <1>11, <1>12, AllNumbers
<1>14. Len4 \div 4 \in Nat /\ Len4 \div 4 <= Len4
  BY Sizes
<1>15. X[Len4 \div 4] = Prefix(s, m(Len4 \div 4))
  BY <1>13, <1>14 DEF T
<1>16. m(Len4 \div 4) = n
  BY <1>1, <1>2, <1>14 DEF m
<1>17. Prefix(s, n) = s
  <2>1. PrefixOf(F, n, s, n)
    BY <1>1, Prefixes
  <2> QED
    BY <2>1 DEF PrefixOf
<1> QED
  BY <1>9, <1>15, <1>16, <1>17

-----------------------------------------------------------------------------
(* The blocks                                                              *)

(* The blocks that begin at B fill the array from sentinel to sentinel.    *)
Tiles(h, B) ==
    /\ B \subseteq Start /\ 2 \in B
    /\ \A i \in B : /\ Size(h, i) >= 4 /\ Right(h, i) <= Len4 - 2
                    /\ h.array[Footer(h, i)] = h.array[i]
                    /\ Right(h, i) \in B \/ Right(h, i) = Len4 - 2
                    /\ i = 2 \/ \E j \in B : Right(h, j) = i
    /\ \A i, j \in B : i < j => Right(h, i) <= j
    /\ \A i \in {0, Len4 - 2} : h.array[i] = -2 /\ h.array[i + 1] = -2

LEMMA TilesAreApart ==
    ASSUME NEW h, NEW B, Tiles(h, B), IsHeap(h)
    PROVE  /\ Apart(B)
           /\ \A i \in B : i \in Nat /\ Size(h, i) \in Nat
<1>1. \A i \in B : i \in Nat /\ i \in Word
  BY Sizes DEF Tiles, Start, Word
<1>2. \A i \in B : Size(h, i) \in Nat
  BY <1>1 DEF Size, IsHeap
<1> QED
  BY <1>1, <1>2 DEF Tiles, Apart, Right

(* The walk from header to header finds all of them.                       *)
LEMMA BlocksAre ==
    ASSUME NEW h, IsHeap(h), NEW B, Tiles(h, B)
    PROVE  Blocks(h) = B
<1> DEFINE D == {q \in Seq(B) : q # <<>>}
           Step(q) == LET r == Right(h, q[Len(q)])
                      IN  IF r >= Len4 - 2 THEN q ELSE Append(q, r)
           f == [x \in D \X Nat |-> Step(x[1])]
           Defines(w) == w = [k \in 0..Len4 |-> IF k = 0 THEN <<2>> ELSE Step(w[k - 1])]
<1>0. Len4 \in Nat /\ Len4 >= 8
  BY Sizes
<1>1. /\ 2 \in B
      /\ \A i \in B : /\ i \in Nat /\ i <= Len4 - 6
                      /\ Right(h, i) \in Nat /\ Right(h, i) >= i + 4
                      /\ Right(h, i) \in B \/ Right(h, i) = Len4 - 2
      /\ \A i, j \in B : i < j => Right(h, i) <= j
  <2>1. \A i \in B : i \in Nat /\ Size(h, i) \in Nat
    BY TilesAreApart
  <2>2. \A i \in B : i <= Len4 - 6
    BY <1>0 DEF Tiles, Start
  <2>3. \A i \in B : Right(h, i) \in Nat /\ Right(h, i) >= i + 4
    BY <2>1 DEF Tiles, Right
  <2> QED
    BY <2>1, <2>2, <2>3 DEF Tiles
<1>2. <<2>> \in D /\ Len(<<2>>) = 1 /\ <<2>>[1] = 2
  BY <1>1
<1>3. \A q \in D : /\ Len(q) \in Nat /\ Len(q) \in 1..Len(q)
                   /\ \A k \in 1..Len(q) : q[k] \in B
  <2>1. \A q \in Seq(B) : q # <<>> => Len(q) >= 1
    OBVIOUS
  <2> QED
    BY <2>1
<1>4. ASSUME NEW q \in D
      PROVE  Step(q) \in D
  <2>1. q[Len(q)] \in B
    BY <1>3
  <2>2. CASE Right(h, q[Len(q)]) >= Len4 - 2
    BY <2>2
  <2>3. CASE ~(Right(h, q[Len(q)]) >= Len4 - 2)
    <3> DEFINE r == Right(h, q[Len(q)])
    <3>1. r \in B
      BY <2>1, <2>3, <1>0, <1>1
    <3>2. q \in Seq(B)
      OBVIOUS
    <3> HIDE DEF r
    <3>3. Append(q, r) \in Seq(B) /\ Append(q, r) # <<>>
      BY <3>1, <3>2
    <3> QED
      BY <2>3, <3>3 DEF r
  <2> QED
    BY <2>2, <2>3
<1> HIDE DEF Step, D
<1>5. f \in [D \X Nat -> D] /\ \A q \in D, k \in Nat : f[<<q, k>>] = Step(q)
  <2>1. \A x \in D \X Nat : x[1] \in D
    OBVIOUS
  <2> QED
    BY <2>1, <1>4
<1> HIDE DEF f
<1>6. PICK g : Defined(g, D, <<2>>, f)
  BY <1>2, <1>5, Recursion
<1>7. g \in [Nat -> D] /\ g[0] = <<2>> /\ \A k \in Nat \ {0} : g[k] = Step(g[k - 1])
  <2>1. \A k \in Nat \ {0} : g[k - 1] \in D
    BY <1>6 DEF Defined
  <2> QED
    BY <2>1, <1>5, <1>6 DEF Defined
<1> DEFINE w0 == [k \in 0..Len4 |-> g[k]]
<1>8. Defines(w0)
  <2>1. ASSUME NEW k \in 0..Len4
        PROVE  w0[k] = IF k = 0 THEN <<2>> ELSE Step(w0[k - 1])
    <3>1. CASE k = 0
      BY <3>1, <1>7
    <3>2. CASE k # 0
      <4>1. k - 1 \in 0..Len4 /\ k \in Nat \ {0}
        BY <3>2, <1>0
      <4>2. w0[k] = g[k] /\ w0[k - 1] = g[k - 1]
        BY <4>1
      <4> HIDE DEF w0
      <4> QED
        BY <3>2, <4>1, <4>2, <1>7
    <3> QED
      BY <3>1, <3>2
  <2>2. w0 = [k \in 0..Len4 |-> w0[k]]
    OBVIOUS
  <2> HIDE DEF w0
  <2> QED
    BY <2>1, <2>2
<1> DEFINE X == CHOOSE w : Defines(w)
<1>9. Defines(X)
  <2> HIDE DEF Defines
  <2> QED
    BY <1>8
<1> DEFINE K == Len4 \div 4
           s == X[K]
<1>10. Blocks(h) = {s[k] : k \in DOMAIN s}
  BY DEF Blocks, Step
<1> HIDE DEF X
<1>11. X[0] = <<2>> /\ \A k \in 1..Len4 : X[k] = Step(X[k - 1])
  <2>1. X = [k \in 0..Len4 |-> IF k = 0 THEN <<2>> ELSE Step(X[k - 1])]
    BY <1>9
  <2> HIDE DEF Defines
  <2>2. \A k \in 0..Len4 : X[k] = IF k = 0 THEN <<2>> ELSE Step(X[k - 1])
    BY <2>1
  <2>3. 0 \in 0..Len4 /\ \A k \in 1..Len4 : k \in 0..Len4 /\ k # 0
    BY <1>0
  <2> QED
    BY <2>2, <2>3
<1> HIDE DEF Defines
(* How far the walk is after k steps.                                      *)
<1> DEFINE Walked(q, k) ==
             /\ q \in D
             /\ \A j \in B : j <= q[Len(q)] => \E c \in 1..Len(q) : q[c] = j
             /\ \/ Right(h, q[Len(q)]) >= Len4 - 2
                \/ q[Len(q)] >= 4 * k + 2
           T == {k \in Nat : k <= Len4 => Walked(X[k], k)}
<1>12. 0 \in T
  <2>1. \A j \in B : j <= 2 => j = 2
    BY DEF Tiles, Start
  <2> QED
    BY <2>1, <1>2, <1>11
<1>13. ASSUME NEW k \in Nat, k \in T, k + 1 <= Len4
       PROVE  Walked(X[k + 1], k + 1)
  <2> DEFINE q == X[k]
             l == q[Len(q)]
             r == Right(h, l)
  <2>1. k + 1 \in 1..Len4 /\ (k + 1) - 1 = k /\ k <= Len4
    BY <1>13, <1>0
  <2>2. Walked(q, k) /\ X[k + 1] = Step(q)
    BY <2>1, <1>11, <1>13
  <2> HIDE DEF q
  <2>3. l \in B /\ q \in D
    BY <2>2, <1>3
  <2>4. CASE r >= Len4 - 2
    <3>1. Step(q) = q
      BY <2>4 DEF Step
    <3> QED
      BY <2>2, <2>4, <3>1
  <2>5. CASE ~(r >= Len4 - 2)
    <3> DEFINE a == Append(q, r)
    <3>1. r \in B /\ r >= l + 4 /\ l \in Nat
      BY <2>3, <2>5, <1>0, <1>1
    <3>2. q \in Seq(B) /\ Len(q) \in Nat
      BY <2>3 DEF D
    <3> HIDE DEF l, r
    <3>3. /\ Len(a) = Len(q) + 1 /\ a[Len(q) + 1] = r
          /\ \A c \in 1..Len(q) : a[c] = q[c]
          /\ \A c \in 1..Len(q) : c \in 1..Len(a)
          /\ Len(a) \in 1..Len(a)
      BY <3>1, <3>2
    <3>4. Step(q) = a
      BY <2>5 DEF Step, l, r
    <3>5. a \in D
      BY <2>3, <3>4, <1>4
    <3> HIDE DEF a
    <3>6. \A j \in B : j <= r => j <= l \/ j = r
      BY <2>3, <3>1, <1>1 DEF r
    <3>7. \A j \in B : j <= r => \E c \in 1..Len(a) : a[c] = j
      <4>1. \A j \in B : j <= l => \E c \in 1..Len(q) : q[c] = j
        BY <2>2 DEF l
      <4> QED
        BY <4>1, <3>3, <3>6
    <3>8. r >= 4 * (k + 1) + 2
      <4>1. r >= Len4 - 2 \/ l >= 4 * k + 2
        BY <2>2 DEF l, r
      <4>2. r \in Nat
        BY <3>1, <1>1
      <4> QED
        BY <4>1, <4>2, <2>5, <3>1
    <3>9. a[Len(a)] = r
      BY <3>3
    <3> QED
      BY <2>2, <3>4, <3>5, <3>7, <3>8, <3>9
  <2> QED
    BY <2>4, <2>5
<1> HIDE DEF Walked
<1>14. ASSUME NEW k \in Nat, k \in T PROVE k + 1 \in T
  BY <1>13, <1>14
<1> HIDE DEF T
<1>15. Nat \subseteq T
  BY <1>12, <1>14, AllNumbers
<1>16. K \in Nat /\ K <= Len4 /\ 4 * K + 2 > Len4 - 6
  BY <1>0
<1>17. Walked(s, K)
  BY <1>15, <1>16 DEF T
<1> HIDE DEF K
<1> HIDE DEF s
<1> DEFINE last == s[Len(s)]
<1>18. /\ s \in D /\ last \in B /\ Right(h, last) >= Len4 - 2
       /\ \A j \in B : j <= last => \E c \in 1..Len(s) : s[c] = j
  <2>1. /\ s \in D
        /\ \A j \in B : j <= s[Len(s)] => \E c \in 1..Len(s) : s[c] = j
        /\ Right(h, s[Len(s)]) >= Len4 - 2 \/ s[Len(s)] >= 4 * K + 2
    BY <1>17 DEF Walked
  <2>2. last \in B
    BY <2>1, <1>3
  <2> HIDE DEF last
  <2>3. ~(last >= 4 * K + 2)
    BY <2>2, <1>0, <1>1, <1>16
  <2> QED
    BY <2>1, <2>2, <2>3 DEF last
<1> HIDE DEF last
<1>19. \A j \in B : j <= last
  <2> SUFFICES ASSUME NEW j \in B, ~(j <= last) PROVE FALSE
    OBVIOUS
  <2>1. last \in Nat /\ j \in Nat /\ j <= Len4 - 6
    BY <1>1, <1>18
  <2>2. Right(h, last) \in Nat /\ Right(h, last) <= j
    BY <2>1, <1>1, <1>18
  <2> QED
    BY <2>1, <2>2, <1>0, <1>18
<1>20. DOMAIN s = 1..Len(s) /\ \A c \in 1..Len(s) : s[c] \in B
  BY <1>3, <1>18 DEF D
<1> QED
  BY <1>10, <1>18, <1>19, <1>20

-----------------------------------------------------------------------------
(* What malloc and free do to the blocks                                   *)

Avail(h, B) == {i \in B : IsAvail(h, i)}
Taken(h, B) == {i \in B : IsTaken(h, i)}

(* The blocks begin at B, the available ones are in the list, and no two   *)
(* of them are neighbours.                                                 *)
HeapInv(h, B) ==
    /\ IsHeap(h) /\ Tiles(h, B) /\ Chain(h, Avail(h, B))
    /\ \A i \in B : IsAvail(h, i) /\ Right(h, i) \in B => IsTaken(h, Right(h, i))

(* What is needed of it in most places.                                    *)
LEMMA HeapHolds ==
    ASSUME NEW h, NEW B, HeapInv(h, B)
    PROVE  /\ IsHeap(h) /\ Tiles(h, B) /\ Apart(B) /\ Len4 \in Nat /\ Len4 >= 8
           /\ B \subseteq Start /\ B \subseteq Word
           /\ \A i \in B : /\ i \in Nat /\ i >= 2 /\ i <= Len4 - 6
                           /\ Size(h, i) \in Nat /\ Size(h, i) >= 4
                           /\ Right(h, i) = i + Size(h, i) /\ Right(h, i) <= Len4 - 2
                           /\ Right(h, i) \in Nat
                           /\ Footer(h, i) = Right(h, i) - 1
                           /\ h.array[Footer(h, i)] = h.array[i] /\ h.array[i] \in Int
                           /\ Right(h, i) \in B \/ Right(h, i) = Len4 - 2
                           /\ i = 2 \/ \E j \in B : Right(h, j) = i
                           /\ IsAvail(h, i) \/ IsTaken(h, i)
                           /\ ~(IsAvail(h, i) /\ IsTaken(h, i))
                           /\ IsAvail(h, i) => h.array[i] = Size(h, i)
           /\ \A i, j \in B : i < j => Right(h, i) <= j
<1>1. IsHeap(h) /\ Tiles(h, B) /\ Apart(B) /\ Len4 \in Nat /\ Len4 >= 8
  BY Sizes, TilesAreApart DEF HeapInv
<1>2. B \subseteq Start /\ B \subseteq Word
  BY <1>1 DEF Apart, Start, Word
<1>3. \A i \in B : i \in Nat /\ i >= 2 /\ i <= Len4 - 6 /\ Size(h, i) \in Nat
  BY <1>1, <1>2, TilesAreApart DEF Start
<1>4. \A i \in B : h.array[i] \in Int
  BY <1>1, <1>2 DEF IsHeap
<1>5. \A i \in B : /\ Size(h, i) >= 4 /\ Right(h, i) <= Len4 - 2
                   /\ h.array[Footer(h, i)] = h.array[i]
                   /\ Right(h, i) \in B \/ Right(h, i) = Len4 - 2
                   /\ i = 2 \/ \E j \in B : Right(h, j) = i
  BY <1>1 DEF Tiles
<1>6. \A i \in B : /\ Right(h, i) = i + Size(h, i) /\ Right(h, i) \in Nat
                   /\ Footer(h, i) = Right(h, i) - 1
  BY <1>3 DEF Right, Footer
<1>7. \A i \in B : /\ IsAvail(h, i) \/ IsTaken(h, i)
                   /\ ~(IsAvail(h, i) /\ IsTaken(h, i))
                   /\ IsAvail(h, i) => h.array[i] = Size(h, i)
  BY <1>4, <1>5 DEF IsAvail, IsTaken, Size
<1> QED
  BY <1>1, <1>2, <1>3, <1>4, <1>5, <1>6, <1>7 DEF Tiles

(* Nothing changes but links and what lies between lo and hi.              *)
Framed(h, g, B, lo, hi) ==
    \A w \in Word : w \notin Links(Avail(h, B)) /\ (w < lo \/ w >= hi)
                        => g.array[w] = h.array[w]

(* The blocks of S keep what is in them.                                   *)
Kept(h, g, S) == \A i \in S : \A w \in i..Footer(h, i) : g.array[w] = h.array[w]

(* A word of a block is no link of another.                                *)
LEMMA WordsOfBlocks ==
    ASSUME NEW h, NEW B, HeapInv(h, B), NEW i \in B, NEW F, F \subseteq B
    PROVE  /\ \A w \in i..Footer(h, i) : w \in Word /\ w \in Nat
           /\ i \notin F => \A w \in i..Footer(h, i) : w \notin Links(F)
           /\ i \notin Links(F) /\ Footer(h, i) \notin Links(F)
           /\ i \in i..Footer(h, i) /\ Footer(h, i) \in i..Footer(h, i)
           /\ \A w \in {0, 1, Len4 - 2, Len4 - 1} : w \in Word \ Links(F)
<1>1. /\ Len4 \in Nat /\ Len4 >= 8
      /\ \A j \in B : /\ j \in Nat /\ j >= 2 /\ j <= Len4 - 6
                      /\ Right(h, j) \in Nat /\ Right(h, j) >= j + 4
                      /\ Right(h, j) <= Len4 - 2 /\ Footer(h, j) = Right(h, j) - 1
      /\ \A j, k \in B : j < k => Right(h, j) <= k
  BY HeapHolds
<1>2. \A w \in i..Footer(h, i) : w \in Word /\ w \in Nat
  BY <1>1 DEF Word
<1>3. \A w \in i..Footer(h, i) : \A j \in F :
         w = j + 1 \/ w = j + 2 => j = i /\ w # i /\ w # Footer(h, i)
  <2> TAKE w \in i..Footer(h, i)
  <2> TAKE j \in F
  <2> HAVE w = j + 1 \/ w = j + 2
  <2>1. j \in Nat /\ Right(h, j) \in Nat /\ Right(h, j) >= j + 4 /\ j \in B
    BY <1>1
  <2>2. w \in Nat /\ w >= i /\ w <= Right(h, i) - 1 /\ i \in Nat /\ Right(h, i) \in Nat
        /\ Right(h, i) >= i + 4 /\ Footer(h, i) = Right(h, i) - 1
    BY <1>1, <1>2
  <2>3. CASE j < i
    BY <2>1, <2>2, <2>3, <1>1
  <2>4. CASE i < j
    BY <2>1, <2>2, <2>4, <1>1
  <2>5. CASE i = j
    BY <2>1, <2>2, <2>5
  <2> QED
    BY <2>1, <2>2, <2>3, <2>4, <2>5
<1>4. i \in i..Footer(h, i) /\ Footer(h, i) \in i..Footer(h, i)
  BY <1>1
<1>5. \A w \in {0, 1, Len4 - 2, Len4 - 1} : w \in Word \ Links(F)
  BY <1>1 DEF Word, Links
<1> QED
  BY <1>2, <1>3, <1>4, <1>5 DEF Links

(* What lies outside keeps its header and its footer, and all of it if it  *)
(* is taken.                                                               *)
Outside(h, g, B, lo, hi) ==
    /\ \A i \in B : i < lo \/ i >= hi =>
          /\ g.array[i] = h.array[i]
          /\ g.array[Footer(h, i)] = h.array[Footer(h, i)]
    /\ Kept(h, g, {i \in Taken(h, B) : i < lo \/ i >= hi})
    /\ \A w \in {0, 1, Len4 - 2, Len4 - 1} : g.array[w] = h.array[w]

LEMMA FrameIs ==
    ASSUME NEW h, NEW B, HeapInv(h, B), NEW lo \in B, NEW hi \in Int,
           hi \in B \/ hi = Len4 - 2, NEW g, Framed(h, g, B, lo, hi)
    PROVE  Outside(h, g, B, lo, hi)
<1>1. /\ Len4 \in Nat /\ Len4 >= 8
      /\ \A j \in B : /\ j \in Nat /\ j >= 2 /\ j <= Len4 - 6
                      /\ Right(h, j) \in Nat /\ Right(h, j) >= j + 4
                      /\ Right(h, j) <= Len4 - 2 /\ Footer(h, j) = Right(h, j) - 1
                      /\ ~(IsAvail(h, j) /\ IsTaken(h, j))
      /\ \A j, k \in B : j < k => Right(h, j) <= k
  BY HeapHolds
<1>2. Avail(h, B) \subseteq B
  BY DEF Avail
<1>3. ASSUME NEW i \in B, i < lo \/ i >= hi
      PROVE  \A w \in i..Footer(h, i) : w \in Word /\ (w < lo \/ w >= hi)
  <2>1. \A w \in i..Footer(h, i) : w \in Word /\ w \in Nat
    BY <1>2, WordsOfBlocks
  <2>2. i < lo => Right(h, i) <= lo
    BY <1>1
  <2> QED
    BY <2>1, <2>2, <1>1, <1>3
<1>4. ASSUME NEW i \in B, i < lo \/ i >= hi
      PROVE  /\ g.array[i] = h.array[i]
             /\ g.array[Footer(h, i)] = h.array[Footer(h, i)]
  <2>1. /\ i \notin Links(Avail(h, B)) /\ Footer(h, i) \notin Links(Avail(h, B))
        /\ i \in i..Footer(h, i) /\ Footer(h, i) \in i..Footer(h, i)
    BY <1>2, WordsOfBlocks
  <2> QED
    BY <2>1, <1>3, <1>4 DEF Framed
<1>5. ASSUME NEW i \in Taken(h, B), i < lo \/ i >= hi, NEW w \in i..Footer(h, i)
      PROVE  g.array[w] = h.array[w]
  <2>1. i \in B /\ i \notin Avail(h, B)
    BY <1>1 DEF Taken, Avail
  <2>2. w \notin Links(Avail(h, B))
    BY <2>1, <1>2, WordsOfBlocks
  <2> QED
    BY <2>1, <2>2, <1>3, <1>5 DEF Framed
<1>6. \A w \in {0, 1, Len4 - 2, Len4 - 1} : g.array[w] = h.array[w]
  <2>1. \A w \in {0, 1, Len4 - 2, Len4 - 1} : w \in Word \ Links(Avail(h, B))
    BY <1>2, WordsOfBlocks
  <2>2. \A w \in {0, 1, Len4 - 2, Len4 - 1} : w < lo \/ w >= hi
    BY <1>1
  <2> QED
    BY <2>1, <2>2 DEF Framed
<1> QED
  BY <1>4, <1>5, <1>6 DEF Kept, Outside

(* The blocks, when those from lo to hi become one, or two that meet at    *)
(* mid.                                                                    *)
Cut(B, lo, mid, hi) ==
    {j \in B : j < lo \/ j >= hi} \cup {lo} \cup (IF mid = hi THEN {} ELSE {mid})

(* The tags of h become those of g so.                                     *)
Recut(h, g, B, lo, mid, hi) ==
    /\ lo \in B /\ hi \in Int /\ lo < hi /\ (hi \in B \/ hi = Len4 - 2)
    /\ mid \in Int /\ (mid = hi \/ (lo + 4 <= mid /\ mid + 4 <= hi))
    /\ IsHeap(g) /\ Framed(h, g, B, lo, hi)
    /\ Size(g, lo) = mid - lo /\ g.array[mid - 1] = g.array[lo]
    /\ mid # hi => Size(g, mid) = hi - mid /\ g.array[hi - 1] = g.array[mid]

LEMMA Retiled ==
    ASSUME NEW h, NEW B, HeapInv(h, B), NEW g, NEW lo, NEW mid, NEW hi,
           Recut(h, g, B, lo, mid, hi)
    PROVE  /\ Tiles(g, Cut(B, lo, mid, hi))
           /\ \A j \in B : j < lo \/ j >= hi =>
                 g.array[j] = h.array[j] /\ Size(g, j) = Size(h, j) /\ Right(g, j) = Right(h, j)
           /\ Right(g, lo) = mid /\ (mid # hi => Right(g, mid) = hi)
<1>0. /\ lo \in B /\ hi \in Int /\ lo < hi /\ (hi \in B \/ hi = Len4 - 2)
      /\ mid \in Int /\ (mid = hi \/ (lo + 4 <= mid /\ mid + 4 <= hi))
      /\ IsHeap(g) /\ Framed(h, g, B, lo, hi)
      /\ Size(g, lo) = mid - lo /\ g.array[mid - 1] = g.array[lo]
      /\ mid # hi => Size(g, mid) = hi - mid /\ g.array[hi - 1] = g.array[mid]
  BY DEF Recut
<1> USE <1>0
<1> DEFINE N == Cut(B, lo, mid, hi)
           Out(j) == j \in B /\ (j < lo \/ j >= hi)
<1>1. /\ Len4 \in Nat /\ Len4 >= 8 /\ 2 \in B
      /\ \A j \in B : /\ j \in Nat /\ j >= 2 /\ j <= Len4 - 6
                      /\ Right(h, j) \in Nat /\ Right(h, j) >= j + 4
                      /\ Right(h, j) <= Len4 - 2 /\ Footer(h, j) = Right(h, j) - 1
                      /\ Right(h, j) \in B \/ Right(h, j) = Len4 - 2
                      /\ j = 2 \/ \E k \in B : Right(h, k) = j
      /\ \A j, k \in B : j < k => Right(h, j) <= k
  <2>1. 2 \in B
    BY DEF HeapInv, Tiles
  <2> QED
    BY <2>1, HeapHolds
<1>2. /\ hi <= Len4 - 2 /\ hi \in Nat /\ lo \in Nat /\ lo + 4 <= hi
      /\ mid \in Nat /\ mid <= hi /\ lo + 4 <= mid /\ (mid # hi => mid + 4 <= hi)
      /\ lo <= Len4 - 6 /\ lo >= 2
  <2>1. Right(h, lo) <= hi
    <3>1. CASE hi \in B
      BY <3>1, <1>1
    <3>2. CASE hi = Len4 - 2
      BY <3>2, <1>1
    <3> QED
      BY <3>1, <3>2
  <2>2. lo \in Nat /\ lo >= 2 /\ lo <= Len4 - 6 /\ Right(h, lo) \in Nat /\ Right(h, lo) >= lo + 4
    BY <1>1
  <2>3. hi <= Len4 - 2
    <3>1. CASE hi \in B
      BY <3>1, <1>1
    <3> QED
      BY <3>1, <1>1
  <2> QED
    BY <2>1, <2>2, <2>3, <1>1
<1>2A. Outside(h, g, B, lo, hi)
  BY FrameIs
<1>3. \A j : j \in N <=> (Out(j) \/ j = lo \/ (j = mid /\ mid # hi))
  BY DEF Cut
<1>4. \A j : Out(j) => /\ g.array[j] = h.array[j]
                       /\ g.array[Footer(h, j)] = h.array[Footer(h, j)]
  <2>1. \A j \in B : j < lo \/ j >= hi =>
           /\ g.array[j] = h.array[j]
           /\ g.array[Footer(h, j)] = h.array[Footer(h, j)]
    BY <1>2A DEF Outside
  <2> QED
    BY <2>1
<1>5. \A j : Out(j) => /\ Size(g, j) = Size(h, j) /\ Right(g, j) = Right(h, j)
                       /\ Footer(g, j) = Footer(h, j)
  BY <1>4 DEF Size, Right, Footer
<1>6. Right(g, lo) = mid /\ Footer(g, lo) = mid - 1
  BY <1>2 DEF Right, Footer
<1>7. mid # hi => Right(g, mid) = hi /\ Footer(g, mid) = hi - 1
  BY <1>2 DEF Right, Footer
<1>8. /\ \A w \in {0, 1, Len4 - 2, Len4 - 1} : g.array[w] = h.array[w]
      /\ \A i \in {0, Len4 - 2} : h.array[i] = -2 /\ h.array[i + 1] = -2
  <2>1. \A w \in {0, 1, Len4 - 2, Len4 - 1} : g.array[w] = h.array[w]
    BY <1>2A DEF Outside
  <2> QED
    BY <2>1 DEF HeapInv, Tiles
<1> HIDE DEF N
(* Whatever is outside begins outside and ends outside.                    *)
<1>9. ASSUME NEW j, Out(j)
      PROVE  /\ j < lo => Right(h, j) <= lo
             /\ Right(h, j) \in N \/ Right(h, j) = Len4 - 2
  <2>1. j < lo => Right(h, j) <= lo
    BY <1>1, <1>9
  <2>2. CASE j < lo
    <3>1. Right(h, j) \in B
      BY <2>1, <2>2, <1>1, <1>2, <1>9
    <3>2. Right(h, j) = lo \/ Out(Right(h, j))
      <4>1. Right(h, j) \in Nat /\ lo \in Nat /\ Right(h, j) <= lo
        BY <2>1, <2>2, <1>1, <1>2, <1>9
      <4> QED
        BY <3>1, <4>1
    <3> QED
      BY <2>1, <3>2, <1>3
  <2>3. CASE j >= hi
    <3>1. Right(h, j) >= hi
      BY <2>3, <1>1, <1>2, <1>9
    <3> QED
      BY <2>1, <3>1, <1>1, <1>3, <1>9
  <2> QED
    BY <2>2, <2>3, <1>9
<1>10. hi \in N \/ hi = Len4 - 2
  BY <1>2, <1>3
(* Behind the new blocks comes what came behind the old ones.              *)
<1>11. ASSUME NEW j, Out(j), j # 2
       PROVE  \E k \in N : Right(g, k) = j
  <2> PICK k \in B : Right(h, k) = j
    BY <1>1, <1>11
  <2>1. CASE Out(k)
    BY <2>1, <1>3, <1>5
  <2>2. CASE ~Out(k)
    <3>1. k >= lo /\ k < hi /\ k \in Nat /\ j \in Nat /\ j > k
      BY <2>2, <1>1, <1>2, <1>11
    <3>2. j >= hi
      <4>1. ~(j < lo)
        BY <3>1, <1>2
      <4> QED
        BY <4>1, <1>11
    <3>3. j = hi
      BY <3>1, <3>2, <1>1, <1>2, <1>11
    <3>4. CASE mid = hi
      BY <3>3, <3>4, <1>3, <1>6
    <3>5. CASE mid # hi
      BY <3>3, <3>5, <1>3, <1>7
    <3> QED
      BY <3>4, <3>5
  <2> QED
    BY <2>1, <2>2
<1>12. N \subseteq Start /\ 2 \in N
  <2>1. \A j \in N : j \in Nat /\ j >= 2 /\ j <= Len4 - 6
    <3> TAKE j \in N
    <3>1. CASE Out(j)
      BY <3>1, <1>1
    <3>2. CASE j = lo
      BY <3>2, <1>2
    <3>3. CASE j = mid /\ mid # hi
      BY <3>3, <1>1, <1>2
    <3> QED
      BY <3>1, <3>2, <3>3, <1>3
  <2>2. Out(2) \/ lo = 2
    BY <1>1, <1>2
  <2> QED
    BY <2>1, <2>2, <1>1, <1>3 DEF Start
<1>13. ASSUME NEW i \in N
       PROVE  /\ Size(g, i) >= 4 /\ Right(g, i) <= Len4 - 2
              /\ g.array[Footer(g, i)] = g.array[i]
              /\ Right(g, i) \in N \/ Right(g, i) = Len4 - 2
              /\ i = 2 \/ \E j \in N : Right(g, j) = i
  <2>1. CASE Out(i)
    <3>1. Size(h, i) >= 4 /\ h.array[Footer(h, i)] = h.array[i] /\ Right(h, i) <= Len4 - 2
      BY <2>1 DEF HeapInv, Tiles
    <3> QED
      BY <2>1, <3>1, <1>4, <1>5, <1>9, <1>11
  <2>2. CASE i = lo
    <3>1. lo = 2 \/ \E k \in N : Right(g, k) = lo
      <4> SUFFICES ASSUME lo # 2 PROVE \E k \in N : Right(g, k) = lo
        OBVIOUS
      <4> PICK k \in B : Right(h, k) = lo
        BY <1>1
      <4>1. Out(k)
        BY <1>1, <1>2
      <4> QED
        BY <4>1, <1>3, <1>5
    <3>2. mid \in N \/ mid = Len4 - 2
      BY <1>3, <1>10
    <3>3. mid - lo >= 4 /\ mid <= Len4 - 2
      BY <1>1, <1>2
    <3> QED
      BY <2>2, <3>1, <3>2, <3>3, <1>6
  <2>3. CASE i = mid /\ mid # hi
    <3>1. hi - mid >= 4 /\ hi <= Len4 - 2
      BY <2>3, <1>2
    <3>2. lo \in N
      BY <1>3
    <3> QED
      BY <2>3, <3>1, <3>2, <1>6, <1>7, <1>10
  <2> QED
    BY <2>1, <2>2, <2>3, <1>3
<1>14. ASSUME NEW i \in N, NEW j \in N, i < j
       PROVE  Right(g, i) <= j
  <2>0. i \in Nat /\ j \in Nat
    BY <1>12 DEF Start
  <2>1. CASE Out(i)
    <3>1. CASE Out(j)
      BY <2>1, <3>1, <1>1, <1>5, <1>14
    <3>2. CASE ~Out(j)
      <4>1. j >= lo /\ j < hi
        BY <3>2, <1>2, <1>3
      <4>2. i < lo /\ Right(h, i) <= lo
        BY <2>0, <2>1, <4>1, <1>2, <1>9, <1>14
      <4>3. Right(h, i) \in Nat
        BY <2>1, <1>1
      <4> QED
        BY <2>0, <2>1, <4>1, <4>2, <4>3, <1>2, <1>5
    <3> QED
      BY <3>1, <3>2
  <2>2. CASE ~Out(i)
    <3>1. i = lo \/ (i = mid /\ mid # hi)
      BY <2>2, <1>3
    <3>2. CASE Out(j)
      <4>1. j >= hi
        BY <2>0, <3>1, <3>2, <1>2, <1>14
      <4> QED
        BY <2>0, <3>1, <4>1, <1>2, <1>6, <1>7
    <3>3. CASE ~Out(j)
      <4>1. i = lo /\ j = mid
        BY <2>0, <3>1, <3>3, <1>2, <1>3, <1>14
      <4> QED
        BY <4>1, <1>2, <1>6
    <3> QED
      BY <3>2, <3>3
  <2> QED
    BY <2>1, <2>2
<1>15. \A i \in {0, Len4 - 2} : g.array[i] = -2 /\ g.array[i + 1] = -2
  <2>1. 0 + 1 = 1 /\ (Len4 - 2) + 1 = Len4 - 1
    BY <1>1
  <2> QED
    BY <2>1, <1>8
<1>16. Tiles(g, N)
  BY <1>12, <1>13, <1>14, <1>15 DEF Tiles
<1> QED
  BY <1>4, <1>5, <1>6, <1>7, <1>16 DEF N

(* No two available blocks become neighbours.                              *)
LEMMA StaysCoalesced ==
    ASSUME NEW h, NEW B, HeapInv(h, B), NEW g, NEW lo, NEW mid, NEW hi,
           Recut(h, g, B, lo, mid, hi),
           Chain(g, Avail(g, Cut(B, lo, mid, hi))),
           IsAvail(g, lo) => mid = hi /\ \A j \in B : Right(h, j) = lo => IsTaken(h, j),
           (mid # hi \/ IsAvail(g, lo)) /\ hi \in B => IsTaken(h, hi)
    PROVE  HeapInv(g, Cut(B, lo, mid, hi))
<1> DEFINE N == Cut(B, lo, mid, hi)
           Out(j) == j \in B /\ (j < lo \/ j >= hi)
<1>1. /\ Tiles(g, N)
      /\ \A j : Out(j) => g.array[j] = h.array[j] /\ Right(g, j) = Right(h, j)
      /\ Right(g, lo) = mid /\ (mid # hi => Right(g, mid) = hi)
  BY Retiled
<1>2. \A j : j \in N <=> (Out(j) \/ j = lo \/ (j = mid /\ mid # hi))
  BY DEF Cut
<1>3. /\ lo \in B /\ hi \in Int /\ lo < hi /\ mid \in Int /\ IsHeap(g)
      /\ mid = hi \/ (lo + 4 <= mid /\ mid + 4 <= hi)
      /\ hi \in B \/ hi = Len4 - 2
  BY DEF Recut
<1>4. /\ \A j \in B : /\ j \in Nat /\ Right(h, j) \in Nat /\ Right(h, j) >= j + 4
                      /\ ~(IsAvail(h, j) /\ IsTaken(h, j))
      /\ \A j, k \in B : j < k => Right(h, j) <= k
  BY HeapHolds
<1>5. IsAvail(g, lo) \/ IsTaken(g, lo)
  <2>1. g.array[lo] \in Int
    BY <1>3, HeapHolds DEF IsHeap
  <2>2. Size(g, lo) >= 4
    BY <1>1, <1>2 DEF Tiles
  <2> QED
    BY <2>1, <2>2 DEF Size, IsAvail, IsTaken
<1>6. \A j : Out(j) => (IsAvail(g, j) <=> IsAvail(h, j)) /\ (IsTaken(g, j) <=> IsTaken(h, j))
  BY <1>1 DEF IsAvail, IsTaken
<1>7. \A i \in B : IsAvail(h, i) /\ Right(h, i) \in B => IsTaken(h, Right(h, i))
  BY DEF HeapInv
<1> HIDE DEF N
<1>8. (mid # hi \/ IsAvail(g, lo)) /\ hi \in N => IsTaken(g, hi)
  <2>1. hi \in N => Out(hi)
    BY <1>2, <1>3
  <2> QED
    BY <2>1, <1>6
<1>9. ASSUME NEW i \in N, IsAvail(g, i), Right(g, i) \in N
      PROVE  IsTaken(g, Right(g, i))
  <2>1. CASE Out(i)
    <3> DEFINE r == Right(h, i)
    <3>1. Right(g, i) = r /\ IsAvail(h, i) /\ r \in N
      BY <2>1, <1>1, <1>6, <1>9
    <3>2. CASE Out(r)
      BY <2>1, <3>1, <3>2, <1>6, <1>7
    <3>3. CASE r = lo
      BY <2>1, <3>1, <3>3, <1>4, <1>5
    <3>4. CASE r = mid /\ mid # hi
      <4>1. i < lo => r <= lo
        BY <2>1, <1>3, <1>4
      <4>2. i >= hi => r >= hi
        BY <2>1, <1>3, <1>4
      <4>3. lo \in Nat /\ (i < lo \/ i >= hi)
        BY <2>1, <1>3, <1>4
      <4>4. lo < mid /\ mid < hi
        BY <3>4, <4>3, <1>3
      <4> QED
        BY <3>4, <4>1, <4>2, <4>3, <4>4, <1>3
    <3> QED
      BY <3>1, <3>2, <3>3, <3>4, <1>2
  <2>2. CASE i = lo
    BY <2>2, <1>1, <1>8, <1>9
  <2>3. CASE i = mid /\ mid # hi
    BY <2>3, <1>1, <1>8, <1>9
  <2> QED
    BY <2>1, <2>2, <2>3, <1>2
<1> QED
  BY <1>1, <1>3, <1>9 DEF HeapInv, N

(* Which blocks are available and which are taken then.                    *)
Has(h, g, B, lo, mid, hi) ==
    /\ Avail(g, Cut(B, lo, mid, hi)) =
          {j \in Avail(h, B) : j < lo \/ j >= hi}
            \cup {j \in {lo, mid} : (j = lo \/ mid # hi) /\ IsAvail(g, j)}
    /\ Taken(g, Cut(B, lo, mid, hi)) =
          {j \in Taken(h, B) : j < lo \/ j >= hi}
            \cup {j \in {lo, mid} : (j = lo \/ mid # hi) /\ IsTaken(g, j)}
    /\ Kept(h, g, {j \in Taken(h, B) : j < lo \/ j >= hi})

LEMMA CutHas ==
    ASSUME NEW h, NEW B, HeapInv(h, B), NEW g, NEW lo, NEW mid, NEW hi,
           Recut(h, g, B, lo, mid, hi)
    PROVE  Has(h, g, B, lo, mid, hi)
<1> DEFINE Out(j) == j \in B /\ (j < lo \/ j >= hi)
<1>1. Outside(h, g, B, lo, hi)
  BY FrameIs DEF Recut
<1>2. \A j : Out(j) => (IsAvail(g, j) <=> IsAvail(h, j)) /\ (IsTaken(g, j) <=> IsTaken(h, j))
  BY <1>1 DEF Outside, IsAvail, IsTaken
<1>3. \A j : j \in Cut(B, lo, mid, hi) <=> (Out(j) \/ j = lo \/ (j = mid /\ mid # hi))
  BY DEF Cut
<1> QED
  BY <1>1, <1>2, <1>3 DEF Outside, Avail, Taken, Has

(* The taken blocks of g are those of T, and of h's those that stay taken  *)
(* keep what is in them.                                                   *)
Becomes(h, g, B, T) ==
    /\ \E N : HeapInv(g, N) /\ Taken(g, N) = T
    /\ Kept(h, g, Taken(h, B) \cap T)

(* malloc() takes block i, and no other changes hands.                     *)
LEMMA AllotIs ==
    ASSUME NEW h, NEW B, HeapInv(h, B), NEW i \in Avail(h, B),
           NEW ints \in Nat, ints >= 4, Size(h, i) >= ints
    PROVE  /\ Becomes(h, Allot(h, i, ints), B, Taken(h, B) \cup {i})
           /\ Size(Allot(h, i, ints), i) >= ints
           /\ i \notin Taken(h, B)
<1> DEFINE g == Allot(h, i, ints)
           sz == Size(h, i)
           hi == Right(h, i)
           extra == sz - ints
           g1 == Remove(h, i)
           A == Avail(h, B)
           G == A \ {i}
<1>1. /\ i \in B /\ IsAvail(h, i) /\ i \notin Taken(h, B)
      /\ Len4 \in Nat /\ i \in Nat /\ i >= 2 /\ sz \in Nat /\ hi \in Nat
      /\ hi = i + sz /\ hi <= Len4 - 2 /\ Footer(h, i) = hi - 1 /\ i < hi
      /\ hi \in B \/ hi = Len4 - 2
  BY HeapHolds DEF Avail, Taken
<1>2. /\ IsHeap(h) /\ Chain(h, A) /\ Apart(A) /\ Apart(G) /\ i \in A
  BY HeapHolds DEF HeapInv, Avail, Apart
<1>3. IsHeap(g1) /\ Chain(g1, G) /\ Same(h, g1, Links(G))
  BY <1>2, RemoveIs
<1>4. \A w \in i..hi - 1 : w \in Word \ Links(G)
  <2>1. G \subseteq B /\ i \notin G
    BY DEF Avail
  <2> QED
    BY <2>1, <1>1, WordsOfBlocks
<1>5. Links(G) \subseteq Links(A)
  BY DEF Links
<1>6. \A j \in B : j # i => j < i \/ j >= hi
  BY <1>1, HeapHolds
<1>7. hi \in B => IsTaken(h, hi)
  BY <1>1 DEF HeapInv
<1>8. {j \in A : j < i \/ j >= hi} = G /\ {j \in Taken(h, B) : j < i \/ j >= hi} = Taken(h, B)
  <2>1. ~(i < i \/ i >= hi)
    BY <1>1
  <2> QED
    BY <2>1, <1>1, <1>6 DEF Avail, Taken
<1>9. g = IF extra >= 4 THEN MakeAvail(MakeTaken(g1, i, ints), i + ints, extra)
                        ELSE MakeTaken(g1, i, sz)
  <2>1. CASE extra >= 4
    BY <2>1 DEF Allot
  <2>2. CASE ~(extra >= 4)
    BY <2>2 DEF Allot
  <2> QED
    BY <2>1, <2>2
<1>10. i \in Int /\ i \in i..hi - 1 /\ i \in Word \ Links(G)
  <2>1. i \in Int /\ i \in i..hi - 1
    BY <1>1
  <2> QED
    BY <2>1, <1>4
<1> HIDE DEF g, sz, hi, g1, A, G
<1>11. ASSUME NEW mid, Recut(h, g, B, i, mid, hi), IsTaken(g, i),
              mid # hi => IsAvail(g, mid),
              Chain(g, G \cup (IF mid = hi THEN {} ELSE {mid}))
       PROVE  Becomes(h, g, B, Taken(h, B) \cup {i})
  <2> DEFINE N == Cut(B, i, mid, hi)
  <2>0. Has(h, g, B, i, mid, hi)
    BY <1>11, CutHas
  <2>1. g.array[i] \in Int /\ ~IsAvail(g, i)
    BY <1>10, <1>11 DEF Recut, IsHeap, IsTaken, IsAvail
  <2>2. mid # hi => ~IsTaken(g, mid) /\ mid # i
    <3>1. mid # hi => mid \in Word
      BY <1>1, <1>11, Sizes DEF Recut, Word
    <3>2. mid # hi => g.array[mid] \in Int
      BY <3>1, <1>11 DEF Recut, IsHeap
    <3> QED
      BY <3>2, <2>1, <1>11 DEF IsAvail, IsTaken
  <2>3. Avail(g, N) = G \cup (IF mid = hi THEN {} ELSE {mid})
    <3>1. Avail(g, N) = G \cup {j \in {i, mid} : (j = i \/ mid # hi) /\ IsAvail(g, j)}
      BY <2>0, <1>8 DEF Has, A
    <3> QED
      BY <3>1, <2>1, <2>2, <1>11
  <2>4. Taken(g, N) = Taken(h, B) \cup {i}
    <3>1. Taken(g, N) = Taken(h, B)
                          \cup {j \in {i, mid} : (j = i \/ mid # hi) /\ IsTaken(g, j)}
      BY <2>0, <1>8 DEF Has
    <3> QED
      BY <3>1, <2>1, <2>2, <1>11
  <2>5. Kept(h, g, Taken(h, B))
    BY <2>0, <1>8 DEF Has
  <2>6. HeapInv(g, N)
    BY <2>1, <2>3, <1>7, <1>11, StaysCoalesced
  <2>7. Kept(h, g, Taken(h, B) \cap (Taken(h, B) \cup {i}))
    BY <2>5 DEF Kept
  <2> QED
    BY <2>4, <2>6, <2>7 DEF Becomes
<1>12. CASE extra >= 4
  <2> DEFINE mid == i + ints
             g2 == MakeTaken(g1, i, ints)
  <2>1. /\ mid \in Nat /\ mid \in Int /\ extra \in Nat /\ mid + extra = hi /\ mid # hi
        /\ i + 4 <= mid /\ mid + 4 <= hi /\ mid \in Start /\ mid - 1 \in i..hi - 1
        /\ mid + extra <= Len4 - 2 /\ mid - i = ints /\ hi - mid = extra
    BY <1>1, <1>12 DEF Start
  <2>2. /\ IsHeap(g2) /\ Chain(g2, G) /\ Same(g1, g2, {i, mid - 1})
        /\ g2.array[i] = -ints /\ g2.array[mid - 1] = -ints
    BY <2>1, <1>2, <1>3, <1>4, <1>10, MakeTakenIs
  <2>3. g = MakeAvail(g2, mid, extra)
    BY <1>9, <1>12 DEF g
  <2>4. \A j \in G : j + 4 <= mid \/ j >= mid + extra
    <3> TAKE j \in G
    <3>1. j \in B /\ j # i /\ j \in Nat
      BY HeapHolds DEF G, A, Avail
    <3>2. j < i => j + 4 <= i
      BY <3>1, <1>1, HeapHolds
    <3> QED
      BY <3>1, <3>2, <2>1, <1>1, <1>6
  <2> HIDE DEF g2, mid, extra
  <2>5. /\ IsHeap(g) /\ Chain(g, G \cup {mid})
        /\ Same(g2, g, {mid, mid + 1, mid + 2, (mid + extra) - 1} \cup Links(G))
        /\ g.array[mid] = extra /\ g.array[(mid + extra) - 1] = extra
    BY <2>1, <2>2, <2>3, <2>4, <1>2, <1>12, MakeAvailIs
  <2>6. g.array[i] = -ints /\ g.array[mid - 1] = -ints
    <3>1. /\ i \notin {mid, mid + 1, mid + 2, (mid + extra) - 1} \cup Links(G)
          /\ mid - 1 \notin {mid, mid + 1, mid + 2, (mid + extra) - 1} \cup Links(G)
      BY <2>1, <1>1, <1>4, <1>10
    <3>2. i \in Word /\ mid - 1 \in Word
      BY <2>1, <1>4, <1>10
    <3> QED
      BY <3>1, <3>2, <2>2, <2>5 DEF Same
  <2>7. Framed(h, g, B, i, hi)
    <3> SUFFICES ASSUME NEW w \in Word, w \notin Links(A), w < i \/ w >= hi
                 PROVE  g.array[w] = h.array[w]
      BY DEF Framed, A
    <3>1. w \notin Links(G) /\ w \in Nat
      BY <1>1, <1>5 DEF Word
    <3>2. w \notin {mid, mid + 1, mid + 2, (mid + extra) - 1} \cup Links(G)
      BY <3>1, <2>1, <1>1
    <3>3. w \notin {i, mid - 1}
      BY <3>1, <2>1, <1>1
    <3> QED
      BY <3>1, <3>2, <3>3, <2>2, <2>5, <1>3 DEF Same
  <2>8. Size(g, i) = ints /\ Size(g, mid) = extra
    BY <2>1, <2>5, <2>6 DEF Size
  <2>9. Recut(h, g, B, i, mid, hi)
    BY <2>1, <2>5, <2>6, <2>7, <2>8, <1>1 DEF Recut
  <2>10. IsTaken(g, i) /\ IsAvail(g, mid)
    BY <2>1, <2>5, <2>6, <1>12 DEF IsTaken, IsAvail
  <2>11. Becomes(h, g, B, Taken(h, B) \cup {i})
    BY <2>1, <2>5, <2>9, <2>10, <1>11
  <2> QED
    BY <2>8, <2>11, <1>1 DEF g
<1>13. CASE ~(extra >= 4)
  <2>1. hi - 1 \in i..hi - 1 /\ hi - i = sz /\ sz >= ints /\ (i + sz) - 1 = hi - 1
    BY <1>1 DEF sz
  <2>2. /\ IsHeap(g) /\ Chain(g, G) /\ Same(g1, g, {i, hi - 1})
        /\ g.array[i] = -sz /\ g.array[hi - 1] = -sz
    <3>1. g = MakeTaken(g1, i, sz)
      BY <1>9, <1>13 DEF g
    <3>2. hi - 1 \in Word \ Links(G) /\ sz \in Int
      BY <2>1, <1>1, <1>4
    <3> QED
      BY <3>1, <3>2, <2>1, <1>2, <1>3, <1>10, MakeTakenIs
  <2>3. Framed(h, g, B, i, hi)
    <3> SUFFICES ASSUME NEW w \in Word, w \notin Links(A), w < i \/ w >= hi
                 PROVE  g.array[w] = h.array[w]
      BY DEF Framed, A
    <3>1. w \notin Links(G) /\ w \in Nat
      BY <1>1, <1>5 DEF Word
    <3>2. w \notin {i, hi - 1}
      BY <3>1, <2>1, <1>1
    <3> QED
      BY <3>1, <3>2, <2>2, <1>3 DEF Same
  <2>4. Size(g, i) = sz
    BY <2>2, <1>1 DEF Size
  <2>5. Recut(h, g, B, i, hi, hi)
    BY <2>1, <2>2, <2>3, <2>4, <1>1 DEF Recut
  <2>6. IsTaken(g, i)
    BY <2>1, <2>2, <1>1 DEF IsTaken
  <2>7. Chain(g, G \cup (IF hi = hi THEN {} ELSE {hi}))
    <3>1. G \cup (IF hi = hi THEN {} ELSE {hi}) = G
      OBVIOUS
    <3> QED
      BY <3>1, <2>2
  <2>8. Becomes(h, g, B, Taken(h, B) \cup {i})
    BY <2>5, <2>6, <2>7, <1>11
  <2> QED
    BY <2>1, <2>4, <2>8, <1>1 DEF g
<1> QED
  BY <1>12, <1>13

(* free() gives back block i, and no other changes hands.                  *)
LEMMA FreedIs ==
    ASSUME NEW h, NEW B, HeapInv(h, B), NEW i \in Taken(h, B)
    PROVE  Becomes(h, Freed(h, i), B, Taken(h, B) \ {i})
<1> DEFINE g == Freed(h, i)
           l == Left(h, i)
           r == Right(h, i)
           la == IsAvail(h, l)
           ra == IsAvail(h, r)
           lo == IF la THEN l ELSE i
           hi == IF ra THEN Right(h, r) ELSE r
           A == Avail(h, B)
           G == {j \in A : j < lo \/ j >= hi}
           h1 == IF la THEN Remove(h, l) ELSE h
           h2 == IF ra THEN Remove(h1, r) ELSE h1
           total == Size(h, i) + (IF la THEN Size(h, l) ELSE 0)
                               + (IF ra THEN Size(h, r) ELSE 0)
<1>1. /\ Len4 \in Nat /\ Len4 >= 8
      /\ \A j \in B : /\ j \in Nat /\ j >= 2 /\ j <= Len4 - 6
                      /\ Size(h, j) \in Nat /\ Size(h, j) >= 4
                      /\ Right(h, j) = j + Size(h, j) /\ Right(h, j) \in Nat
                      /\ Right(h, j) <= Len4 - 2 /\ Footer(h, j) = Right(h, j) - 1
                      /\ h.array[Footer(h, j)] = h.array[j]
                      /\ Right(h, j) \in B \/ Right(h, j) = Len4 - 2
                      /\ j = 2 \/ \E k \in B : Right(h, k) = j
                      /\ IsAvail(h, j) \/ IsTaken(h, j)
                      /\ ~(IsAvail(h, j) /\ IsTaken(h, j))
      /\ \A j, k \in B : j < k => Right(h, j) <= k
  BY HeapHolds
<1>2. IsHeap(h) /\ Chain(h, A) /\ Apart(A) /\ Apart(B)
  BY HeapHolds DEF HeapInv, Avail, Apart
<1>3. i \in B /\ IsTaken(h, i) /\ i \notin A
  BY <1>1 DEF Taken, Avail
<1>4. /\ h.array[0] = -2 /\ h.array[1] = -2 /\ h.array[Len4 - 2] = -2
  <2>1. 0 + 1 = 1
    OBVIOUS
  <2> QED
    BY <2>1 DEF HeapInv, Tiles
(* What is to the left.                                                    *)
<1>5. \/ l = 0 /\ i = 2 /\ ~la
      \/ l \in B /\ Right(h, l) = i /\ l < i
  <2>1. CASE i = 2
    <3>1. i - 1 = 1
      BY <2>1
    <3>2. Size(h, 1) = 2
      <4>1. h.array[1] < 0 /\ -h.array[1] = 2
        <5>1. \A x : x = -2 => x \in Int /\ x < 0 /\ x + 2 = 0
          OBVIOUS
        <5>2. \A x \in Int : x < 0 /\ x + 2 = 0 => -x = 2
          OBVIOUS
        <5> QED
          BY <5>1, <5>2, <1>4
      <4> QED
        BY <4>1 DEF Size
    <3>3. l = 0
      BY <2>1, <3>1, <3>2 DEF Left
    <3>4. ~IsAvail(h, 0)
      BY <1>4 DEF IsAvail
    <3> QED
      BY <2>1, <3>3, <3>4
  <2>2. CASE i # 2
    <3> PICK j \in B : Right(h, j) = i
      BY <2>2, <1>1, <1>3
    <3>1. Footer(h, j) = i - 1 /\ h.array[i - 1] = h.array[j]
      BY <1>1
    <3>2. Size(h, i - 1) = Size(h, j)
      BY <3>1 DEF Size
    <3>3. l = i - Size(h, j)
      BY <3>2 DEF Left
    <3>4. i = j + Size(h, j) /\ j \in Nat /\ Size(h, j) \in Nat /\ Size(h, j) >= 4
      BY <1>1
    <3>5. l = j /\ j < i
      BY <3>3, <3>4
    <3> QED
      BY <3>5
  <2> QED
    BY <2>1, <2>2
(* What is to the right.                                                   *)
<1>6. r \in B \/ (r = Len4 - 2 /\ ~ra)
  <2>1. ~IsAvail(h, Len4 - 2)
    BY <1>4 DEF IsAvail
  <2> QED
    BY <2>1, <1>1, <1>3
<1>7. g = MakeAvail(h2, lo, total)
  BY DEF Freed
<1>8. i \in Nat /\ r \in Nat /\ r = i + Size(h, i) /\ Size(h, i) \in Nat /\ Size(h, i) >= 4
  BY <1>1, <1>3
<1>9. /\ la => l \in A /\ l \in B /\ Right(h, l) = i
      /\ ra => r \in A /\ r \in B
  BY <1>5, <1>6 DEF Avail
<1> HIDE DEF g, l, r, la, ra, A, h1, h2
<1>10. /\ lo \in B /\ hi \in Nat /\ lo < hi /\ total \in Nat /\ lo + total = hi /\ total >= 4
       /\ hi \in B \/ hi = Len4 - 2
       /\ lo <= i /\ r <= hi /\ i < hi /\ hi <= Len4 - 2
  <2>1. /\ la => l \in Nat /\ Size(h, l) \in Nat /\ i = l + Size(h, l) /\ Size(h, l) >= 4
        /\ ra => /\ Right(h, r) \in Nat /\ Right(h, r) = r + Size(h, r)
                 /\ Size(h, r) \in Nat
                 /\ Right(h, r) \in B \/ Right(h, r) = Len4 - 2
    BY <1>1, <1>9
  <2>2. lo \in B /\ (hi \in B \/ hi = Len4 - 2)
    BY <2>1, <1>3, <1>6, <1>9
  <2>3. lo \in Nat /\ hi \in Nat /\ lo <= i /\ r <= hi
    BY <2>1, <1>8
  <2>4. total \in Nat /\ lo + total = hi /\ total >= 4
    <3>1. CASE la /\ ra
      BY <3>1, <2>1, <1>8
    <3>2. CASE la /\ ~ra
      BY <3>2, <2>1, <1>8
    <3>3. CASE ~la /\ ra
      BY <3>3, <2>1, <1>8
    <3>4. CASE ~la /\ ~ra
      BY <3>4, <2>1, <1>8
    <3> QED
      BY <3>1, <3>2, <3>3, <3>4
  <2>5. hi <= Len4 - 2
    BY <2>2, <1>1
  <2> HIDE DEF lo, hi, total
  <2> QED
    BY <2>2, <2>3, <2>4, <2>5, <1>8
(* The blocks that are merged.                                             *)
<1>11. \A j \in B : ~(j < lo \/ j >= hi) <=> (j = i \/ (la /\ j = l) \/ (ra /\ j = r))
  <2> TAKE j \in B
  <2>1. j \in Nat /\ Right(h, j) \in Nat /\ Right(h, j) > j
    BY <1>1
  <2>2. /\ j > i => j >= r
        /\ j < i => Right(h, j) <= i
        /\ ra /\ j > r => j >= Right(h, r)
        /\ la /\ j > l => j >= i
    <3>1. \A k \in B : j > k => j >= Right(h, k)
      BY <1>1
    <3>2. r = Right(h, i)
      BY DEF r
    <3> QED
      BY <3>1, <3>2, <1>1, <1>3, <1>9
  <2>3. /\ la => l \in Nat /\ l < i
        /\ ra => Right(h, r) \in Nat /\ Right(h, r) > r
    <3>1. la => l \in Nat /\ Right(h, l) = i /\ Right(h, l) > l
      BY <1>1, <1>9
    <3>2. ra => Right(h, r) \in Nat /\ Right(h, r) > r
      BY <1>1, <1>9
    <3> QED
      BY <3>1, <3>2
  <2>4. i < r
    BY <1>8
  <2>5. CASE la /\ ra
    BY <2>5, <2>1, <2>2, <2>3, <2>4, <1>8
  <2>6. CASE la /\ ~ra
    BY <2>6, <2>1, <2>2, <2>3, <2>4, <1>8
  <2>7. CASE ~la /\ ra
    BY <2>7, <2>1, <2>2, <2>3, <2>4, <1>8
  <2>8. CASE ~la /\ ~ra
    BY <2>8, <2>1, <2>2, <2>3, <2>4, <1>8
  <2> QED
    BY <2>5, <2>6, <2>7, <2>8
<1> HIDE DEF lo, hi, total, G
<1>12. \A j : j \in G <=> j \in A /\ ~(la /\ j = l) /\ ~(ra /\ j = r)
  <2>1. \A j \in A : j \in B /\ j # i
    BY <1>3 DEF A, Avail
  <2> QED
    BY <2>1, <1>11 DEF G
(* The neighbours leave the list.                                          *)
<1>13. IsHeap(h2) /\ Chain(h2, G) /\ Same(h, h2, Links(A)) /\ Apart(G)
  <2> DEFINE G1 == IF la THEN A \ {l} ELSE A
  <2>1. \A C : C \subseteq A => Links(C) \subseteq Links(A) /\ Apart(C)
    BY <1>2 DEF Links, Apart
  <2>2. IsHeap(h1) /\ Chain(h1, G1) /\ Same(h, h1, Links(A))
    <3>1. CASE la
      <4>1. IsHeap(h1) /\ Chain(h1, A \ {l}) /\ Same(h, h1, Links(A \ {l}))
        BY <3>1, <1>2, <1>9, RemoveIs DEF h1
      <4> QED
        BY <3>1, <4>1, <2>1 DEF Same
    <3>2. CASE ~la
      BY <3>2, <1>2 DEF h1, Same
    <3> QED
      BY <3>1, <3>2
  <2>3. G1 \subseteq A
    OBVIOUS
  <2>4. ra => r \in G1
    <3>1. la => l < r
      BY <1>1, <1>8, <1>9
    <3>2. la => l \in Nat
      BY <1>1, <1>9
    <3> QED
      BY <3>1, <3>2, <1>8, <1>9
  <2>5. G = IF ra THEN G1 \ {r} ELSE G1
    BY <1>12
  <2> HIDE DEF G1
  <2>6. CASE ra
    <3>1. IsHeap(h2) /\ Chain(h2, G1 \ {r}) /\ Same(h1, h2, Links(G1 \ {r}))
      BY <2>1, <2>2, <2>3, <2>4, <2>6, RemoveIs DEF h2
    <3>2. G1 \ {r} \subseteq A
      BY <2>3
    <3> QED
      BY <2>1, <2>2, <2>5, <2>6, <3>1, <3>2 DEF Same
  <2>7. CASE ~ra
    BY <2>1, <2>2, <2>3, <2>5, <2>7 DEF h2
  <2> QED
    BY <2>6, <2>7
(* The merged block enters it.                                             *)
<1>14. /\ IsHeap(g) /\ Chain(g, G \cup {lo})
       /\ Same(h2, g, {lo, lo + 1, lo + 2, hi - 1} \cup Links(G))
       /\ g.array[lo] = total /\ g.array[hi - 1] = total
  <2>1. lo \in Start /\ lo + total <= Len4 - 2 /\ (lo + total) - 1 = hi - 1
    BY <1>1, <1>2, <1>10 DEF Apart
  <2>2. \A j \in G : j + 4 <= lo \/ j >= lo + total
    <3> TAKE j \in G
    <3>1. j \in B /\ (j < lo \/ j >= hi)
      BY DEF G, A, Avail
    <3>2. j < lo => j + 4 <= lo
      <4>1. j \in Nat /\ Right(h, j) >= j + 4 /\ Right(h, j) \in Nat /\ lo \in Nat
        BY <3>1, <1>1, <1>10
      <4>2. j < lo => Right(h, j) <= lo
        BY <3>1, <1>1, <1>10
      <4> QED
        BY <4>1, <4>2
    <3> QED
      BY <3>1, <3>2, <1>10
  <2>3. /\ lo \in Start /\ total \in Nat /\ total >= 4 /\ lo + total <= Len4 - 2
        /\ IsHeap(h2) /\ Apart(G) /\ Chain(h2, G)
    BY <2>1, <1>10, <1>13
  <2>4. MakesAvail(h2, G, lo, total)
    BY ONLY <2>2, <2>3, MakeAvailDoes
  <2> QED
    BY <2>1, <2>4, <1>7 DEF MakesAvail
<1>15. Recut(h, g, B, lo, hi, hi)
  <2>1. Framed(h, g, B, lo, hi)
    <3> SUFFICES ASSUME NEW w \in Word, w \notin Links(A), w < lo \/ w >= hi
                 PROVE  g.array[w] = h.array[w]
      BY DEF Framed, A
    <3>1. w \notin Links(G) /\ w \in Nat
      BY <1>1, <1>12 DEF Word, Links
    <3>2. lo \in Nat
      BY <1>1, <1>10
    <3>3. w \notin {lo, lo + 1, lo + 2, hi - 1} \cup Links(G)
      BY <3>1, <3>2, <1>10
    <3> QED
      BY <3>3, <1>13, <1>14 DEF Same
  <2>2. lo \in Nat /\ Size(g, lo) = hi - lo
    BY <1>1, <1>10, <1>14 DEF Size
  <2> QED
    BY <2>1, <2>2, <1>10, <1>14 DEF Recut
<1>16. IsAvail(g, lo) /\ ~IsTaken(g, lo)
  BY <1>10, <1>14 DEF IsAvail, IsTaken
<1> DEFINE N == Cut(B, lo, hi, hi)
<1>17. Has(h, g, B, lo, hi, hi)
  BY <1>15, CutHas
<1>18. Avail(g, N) = G \cup {lo}
  <2>1. Avail(g, N) = G \cup {j \in {lo, hi} : (j = lo \/ hi # hi) /\ IsAvail(g, j)}
    BY <1>17 DEF Has, G, A
  <2> QED
    BY <2>1, <1>16
<1>19. Taken(g, N) = Taken(h, B) \ {i} /\ {j \in Taken(h, B) : j < lo \/ j >= hi} = Taken(h, B) \ {i}
  <2>1. Taken(g, N) = {j \in Taken(h, B) : j < lo \/ j >= hi}
                        \cup {j \in {lo, hi} : (j = lo \/ hi # hi) /\ IsTaken(g, j)}
    BY <1>17 DEF Has
  <2>2. \A j \in Taken(h, B) : j \in B /\ ~(la /\ j = l) /\ ~(ra /\ j = r)
    BY <1>1, <1>9 DEF Taken, A, Avail
  <2>3. {j \in Taken(h, B) : j < lo \/ j >= hi} = Taken(h, B) \ {i}
    BY <2>2, <1>3, <1>11
  <2> QED
    BY <2>1, <2>3, <1>16
(* Their other neighbours are taken.                                       *)
<1>20. hi \in B => IsTaken(h, hi)
  <2>1. CASE ra
    <3>1. hi = Right(h, r) /\ r \in B /\ IsAvail(h, r)
      BY <2>1, <1>9 DEF hi, ra
    <3> QED
      BY <3>1 DEF HeapInv
  <2>2. CASE ~ra
    <3>1. hi = r /\ ~IsAvail(h, r)
      BY <2>2 DEF hi, ra
    <3> QED
      BY <3>1, <1>1
  <2> QED
    BY <2>1, <2>2
<1>21. \A j \in B : Right(h, j) = lo => IsTaken(h, j)
  <2> TAKE j \in B
  <2> HAVE Right(h, j) = lo
  <2>1. CASE la
    <3>1. lo = l /\ l \in B /\ IsAvail(h, l)
      BY <2>1, <1>9 DEF lo, la
    <3>2. ~IsTaken(h, l)
      BY <3>1, <1>1
    <3>3. ~IsAvail(h, j)
      BY <3>1, <3>2 DEF HeapInv
    <3> QED
      BY <3>3, <1>1
  <2>2. CASE ~la
    <3>1. lo = i /\ ~IsAvail(h, l)
      BY <2>2 DEF lo, la
    <3>2. l \in B /\ Right(h, l) = i /\ l < i
      <4>1. ~(i = 2)
        BY <3>1, <1>1
      <4> QED
        BY <4>1, <1>5
    <3>3. j = l
      <4>1. j \in Nat /\ l \in Nat /\ j < i
        BY <3>1, <3>2, <1>1
      <4>2. ~(j < l) /\ ~(l < j)
        BY <3>1, <3>2, <4>1, <1>1, <1>8
      <4> QED
        BY <4>1, <4>2
    <3> QED
      BY <3>1, <3>2, <3>3, <1>1
  <2> QED
    BY <2>1, <2>2
<1>22. HeapInv(g, N)
  <2>1. Chain(g, Avail(g, Cut(B, lo, hi, hi)))
    BY <1>14, <1>18
  <2> HIDE DEF N
  <2> QED
    BY <2>1, <1>15, <1>20, <1>21, StaysCoalesced DEF N
<1>23. Kept(h, g, Taken(h, B) \cap (Taken(h, B) \ {i}))
  <2>1. Kept(h, g, {j \in Taken(h, B) : j < lo \/ j >= hi})
    BY <1>17 DEF Has
  <2> QED
    BY <2>1, <1>19 DEF Kept
<1> QED
  BY <1>19, <1>22, <1>23 DEF Becomes, g

-----------------------------------------------------------------------------
(* What every owner may rely on                                            *)

(* A heap of this kind is a heap as Heap.tla wants it.                     *)
LEMMA Consistent ==
    ASSUME NEW h, NEW B, HeapInv(h, B)
    PROVE  /\ Blocks(h) = B
           /\ Tiled(h) /\ Linked(h) /\ Coalesced(h)
<1>1. Blocks(h) = B
  BY HeapHolds, BlocksAre
<1>2. Tiled(h)
  <2>1. \A i \in B : /\ Size(h, i) >= 4 /\ Footer(h, i) <= Len4 - 3
                     /\ h.array[Footer(h, i)] = h.array[i]
                     /\ Right(h, i) \in B \/ Right(h, i) = Len4 - 2
    BY HeapHolds
  <2>2. \A i \in {0, Len4 - 2} : h.array[i] = -2 /\ h.array[i + 1] = -2
    BY DEF HeapInv, Tiles
  <2> QED
    BY <1>1, <2>1, <2>2 DEF Tiled
<1>3. Linked(h)
  <2> DEFINE A == Avail(h, B)
  <2>1. Apart(A)
    BY HeapHolds DEF Avail, Apart
  <2> PICK n, s : Threaded(h, A, n, s)
    BY DEF HeapInv, Chain
  <2>2. AvailList(h) = s
    BY <2>1, AvailListIs
  <2>3. /\ n \in Nat /\ s \in [1..n -> A]
        /\ \A i \in A : \E k \in 1..n : s[k] = i
        /\ \A k \in 1..n : h.array[s[k] + 2] = IF k = 1 THEN 0 ELSE s[k - 1]
    BY DEF Threaded
  <2>4. {s[k] : k \in DOMAIN s} = A /\ DOMAIN s = 1..n
    <3>1. DOMAIN s = 1..n /\ \A k \in 1..n : s[k] \in A
      BY <2>3
    <3> QED
      BY <3>1, <2>3
  <2>5. \A k \in DOMAIN s : PrevOf(h, s[k]) = IF k = 1 THEN 0 ELSE s[k - 1]
    BY <2>3, <2>4 DEF PrevOf
  <2>6. {i \in Blocks(h) : IsAvail(h, i)} = A
    BY <1>1 DEF Avail
  <2> QED
    BY <2>2, <2>4, <2>5, <2>6 DEF Linked
<1>4. Coalesced(h)
  BY <1>1 DEF Coalesced, HeapInv
<1> QED
  BY <1>1, <1>2, <1>3, <1>4

(* heapInit() makes one block of it all.                                   *)
LEMMA FreshIs == HeapInv(Fresh, {2}) /\ Taken(Fresh, {2}) = {}
<1> DEFINE blank == [array |-> [i \in Word |-> 0], avail |-> 0]
           h1 == MakeTaken(blank, 0, 2)
           h2 == MakeAvail(h1, 2, Len4 - 4)
           h3 == MakeTaken(h2, Len4 - 2, 2)
<1>1. Len4 \in Nat /\ Len4 >= 8 /\ Len4 - 4 \in Nat
  BY Sizes
<1>2. IsHeap(blank) /\ Chain(blank, {}) /\ Apart({}) /\ Apart({2}) /\ 2 \in Start
  <2>1. Threaded(blank, {}, 0, [k \in 1..0 |-> 0])
    BY DEF Threaded
  <2>2. IsHeap(blank)
    BY DEF IsHeap
  <2>3. Apart({}) /\ Apart({2}) /\ 2 \in Start
    BY <1>1 DEF Apart, Start
  <2> QED
    BY <2>1, <2>2, <2>3 DEF Chain
<1> HIDE DEF blank
<1>3. /\ IsHeap(h1) /\ Chain(h1, {}) /\ h1.array[0] = -2 /\ h1.array[1] = -2
  <2> DEFINE lo == 0
             none == {}
  <2>1. /\ lo \in Word \ Links(none) /\ (lo + 2) - 1 \in Word \ Links(none)
        /\ lo \in Int
    BY <1>1 DEF Word, Links
  <2>2. h1 = MakeTaken(blank, lo, 2) /\ Chain(blank, none) /\ Apart(none)
    BY <1>2
  <2> HIDE DEF lo, none, h1
  <2>3. /\ IsHeap(h1) /\ Chain(h1, none)
        /\ h1.array[lo] = -2 /\ h1.array[(lo + 2) - 1] = -2
    <3>1. MakesTaken(blank, none, lo, 2)
      BY ONLY <2>1, <2>2, <1>2, MakeTakenDoes
    <3> QED
      BY <3>1, <2>2 DEF MakesTaken
  <2>4. (lo + 2) - 1 = 1
    BY DEF lo
  <2> QED
    BY <2>3, <2>4 DEF lo, none
<1> HIDE DEF h1
<1>4. /\ IsHeap(h2) /\ Chain(h2, {2})
      /\ Same(h1, h2, {2, 3, 4, Len4 - 3})
      /\ h2.array[2] = Len4 - 4 /\ h2.array[Len4 - 3] = Len4 - 4
  <2>1. MakesAvail(h1, {}, 2, Len4 - 4)
    <3>1. Len4 - 4 >= 4 /\ 2 + (Len4 - 4) <= Len4 - 2
      BY <1>1
    <3>2. \A j \in {} : j + 4 <= 2 \/ j >= 2 + (Len4 - 4)
      OBVIOUS
    <3> QED
      BY ONLY <1>1, <1>2, <1>3, <3>1, <3>2, MakeAvailDoes
  <2>2. /\ (2 + (Len4 - 4)) - 1 = Len4 - 3 /\ {} \cup {2} = {2}
        /\ {2, 2 + 1, 2 + 2, Len4 - 3} \cup Links({}) = {2, 3, 4, Len4 - 3}
    BY <1>1 DEF Links
  <2> QED
    BY <2>1, <2>2 DEF MakesAvail
<1> HIDE DEF h2
<1>5. /\ IsHeap(h3) /\ Chain(h3, {2}) /\ Same(h2, h3, {Len4 - 2, Len4 - 1})
      /\ h3.array[Len4 - 2] = -2 /\ h3.array[Len4 - 1] = -2
  <2>1. /\ Len4 - 2 \in Word \ Links({2}) /\ ((Len4 - 2) + 2) - 1 \in Word \ Links({2})
        /\ ((Len4 - 2) + 2) - 1 = Len4 - 1 /\ Len4 - 2 \in Int
    BY <1>1 DEF Word, Links
  <2> QED
    BY <2>1, <1>2, <1>4, MakeTakenIs
<1> HIDE DEF h3
<1>6. Fresh = h3
  BY DEF Fresh, h3, h2, h1, blank
<1>7. /\ h3.array[0] = -2 /\ h3.array[1] = -2
      /\ h3.array[2] = Len4 - 4 /\ h3.array[Len4 - 3] = Len4 - 4
  <2>1. 0 \in Word /\ 1 \in Word /\ 2 \in Word /\ Len4 - 3 \in Word
    BY <1>1 DEF Word
  <2>2. \A w \in {0, 1, 2, Len4 - 3} : w \notin {Len4 - 2, Len4 - 1}
    BY <1>1
  <2>3. \A w \in {0, 1} : w \notin {2, 3, 4, Len4 - 3}
    BY <1>1
  <2> QED
    BY <2>1, <2>2, <2>3, <1>3, <1>4, <1>5 DEF Same
<1>8. /\ Size(h3, 2) = Len4 - 4 /\ Right(h3, 2) = Len4 - 2 /\ Footer(h3, 2) = Len4 - 3
  <2>1. Size(h3, 2) = Len4 - 4
    BY <1>1, <1>7 DEF Size
  <2> QED
    BY <2>1, <1>1 DEF Right, Footer
<1>9. Tiles(h3, {2})
  <2>1. {2} \subseteq Start
    BY <1>2
  <2>2. \A i \in {0, Len4 - 2} : h3.array[i] = -2 /\ h3.array[i + 1] = -2
    <3>1. 0 + 1 = 1 /\ (Len4 - 2) + 1 = Len4 - 1
      BY <1>1
    <3> QED
      BY <3>1, <1>5, <1>7
  <2>3. Size(h3, 2) >= 4 /\ Right(h3, 2) <= Len4 - 2
    BY <1>1, <1>8
  <2>4. \A i, j \in {2} : ~(i < j)
    BY <1>1
  <2> QED
    BY <2>1, <2>2, <2>3, <2>4, <1>7, <1>8 DEF Tiles
<1>10. IsAvail(h3, 2) /\ ~IsTaken(h3, 2)
  BY <1>1, <1>7 DEF IsAvail, IsTaken
<1>11. Avail(h3, {2}) = {2} /\ Taken(h3, {2}) = {}
  BY <1>10 DEF Avail, Taken
<1>12. Right(h3, 2) \notin {2}
  BY <1>1, <1>8
<1> QED
  BY <1>5, <1>6, <1>9, <1>11, <1>12 DEF HeapInv

(* What is written between the header and the footer of a taken block      *)
(* concerns no other.                                                      *)
Refilled(h, g, B, i) ==
    /\ HeapInv(g, B) /\ Taken(g, B) = Taken(h, B) /\ Size(g, i) = Size(h, i)
    /\ Kept(h, g, Taken(h, B) \ {i})

LEMMA PayloadKeeps ==
    ASSUME NEW h, NEW B, HeapInv(h, B), NEW i \in Taken(h, B),
           NEW g, IsHeap(g), g.avail = h.avail, Same(h, g, i + 1..Footer(h, i) - 1)
    PROVE  Refilled(h, g, B, i)
<1> DEFINE A == Avail(h, B)
<1>1. /\ Len4 \in Nat /\ Len4 >= 8
      /\ \A j \in B : /\ j \in Nat /\ j >= 2 /\ j <= Len4 - 6
                      /\ Right(h, j) \in Nat /\ Right(h, j) >= j + 4
                      /\ Right(h, j) <= Len4 - 2 /\ Footer(h, j) = Right(h, j) - 1
                      /\ ~(IsAvail(h, j) /\ IsTaken(h, j))
      /\ \A j, k \in B : j < k => Right(h, j) <= k
  BY HeapHolds
<1>2. i \in B /\ i \notin A /\ A \subseteq B
  BY <1>1 DEF Taken, Avail
<1>3. \A w \in Word : w \notin i + 1..Footer(h, i) - 1 => g.array[w] = h.array[w]
  BY DEF Same
<1>4. ASSUME NEW j \in B \ {i}, NEW w \in j..Footer(h, j)
      PROVE  g.array[w] = h.array[w]
  <2>1. w \in Word /\ w \in Nat
    BY <1>4, WordsOfBlocks
  <2>2. w \notin i + 1..Footer(h, i) - 1
    <3>1. j \in Nat /\ i \in Nat /\ Right(h, i) \in Nat /\ Right(h, j) \in Nat
          /\ Footer(h, j) = Right(h, j) - 1 /\ Footer(h, i) = Right(h, i) - 1
      BY <1>1, <1>2
    <3>2. (i < j => Right(h, i) <= j) /\ (j < i => Right(h, j) <= i) /\ i # j
      BY <1>1, <1>2
    <3> QED
      BY <2>1, <3>1, <3>2
  <2> QED
    BY <2>1, <2>2, <1>3
<1>5. \A j \in B : /\ g.array[j] = h.array[j]
                   /\ g.array[Footer(h, j)] = h.array[Footer(h, j)]
  <2> TAKE j \in B
  <2>1. j \in j..Footer(h, j) /\ Footer(h, j) \in j..Footer(h, j)
    BY <1>1
  <2>2. CASE j = i
    <3>1. j \in Word /\ Footer(h, j) \in Word
      BY <2>1, <1>1, <1>2, WordsOfBlocks
    <3>2. j \notin i + 1..Footer(h, i) - 1 /\ Footer(h, j) \notin i + 1..Footer(h, i) - 1
      BY <2>2, <1>1
    <3> QED
      BY <3>1, <3>2, <1>3
  <2>3. CASE j # i
    BY <2>1, <2>3, <1>4
  <2> QED
    BY <2>2, <2>3
<1>6. \A j \in B : /\ Size(g, j) = Size(h, j) /\ Right(g, j) = Right(h, j)
                   /\ Footer(g, j) = Footer(h, j)
                   /\ IsAvail(g, j) <=> IsAvail(h, j)
                   /\ IsTaken(g, j) <=> IsTaken(h, j)
  <2>1. \A j \in B : Size(g, j) = Size(h, j)
    BY <1>5 DEF Size
  <2> QED
    BY <2>1, <1>5 DEF Right, Footer, IsAvail, IsTaken
<1>7. Avail(g, B) = A /\ Taken(g, B) = Taken(h, B)
  BY <1>6 DEF Avail, Taken
<1>8. \A w \in {0, 1, Len4 - 2, Len4 - 1} : g.array[w] = h.array[w]
  <2>1. \A w \in {0, 1, Len4 - 2, Len4 - 1} : w \in Word /\ w \notin i + 1..Footer(h, i) - 1
    BY <1>1, <1>2 DEF Word
  <2> QED
    BY <2>1, <1>3
<1>9. Tiles(g, B)
  <2>1. Tiles(h, B)
    BY DEF HeapInv
  <2>2. \A w \in {0, Len4 - 2} : g.array[w] = -2 /\ g.array[w + 1] = -2
    <3>1. 0 + 1 = 1 /\ (Len4 - 2) + 1 = Len4 - 1
      BY <1>1
    <3>2. \A w \in {0, Len4 - 2} : h.array[w] = -2 /\ h.array[w + 1] = -2
      BY <2>1 DEF Tiles
    <3> QED
      BY <3>1, <3>2, <1>8
  <2> QED
    BY <2>1, <2>2, <1>5, <1>6 DEF Tiles
<1>10. Chain(g, A)
  <2> PICK n, s : Threaded(h, A, n, s)
    BY DEF HeapInv, Chain
  <2>1. n \in Nat /\ \A k \in 1..n : s[k] \in A
    BY DEF Threaded
  <2>2. \A j \in A : g.array[j + 1] = h.array[j + 1] /\ g.array[j + 2] = h.array[j + 2]
    <3> TAKE j \in A
    <3>1. j \in B \ {i}
      BY <1>2
    <3>2. j + 1 \in j..Footer(h, j) /\ j + 2 \in j..Footer(h, j)
      BY <3>1, <1>1
    <3> QED
      BY <3>1, <3>2, <1>4
  <2>3. Threaded(g, A, n, s)
    BY <2>1, <2>2 DEF Threaded
  <2> QED
    BY <2>3 DEF Chain
<1>11. HeapInv(g, B)
  <2>1. \A j \in B : IsAvail(g, j) /\ Right(g, j) \in B => IsTaken(g, Right(g, j))
    BY <1>6 DEF HeapInv
  <2> QED
    BY <2>1, <1>7, <1>9, <1>10 DEF HeapInv
<1>12. Kept(h, g, Taken(h, B) \ {i})
  BY <1>4 DEF Kept, Taken
<1> QED
  BY <1>2, <1>6, <1>7, <1>11, <1>12 DEF Refilled

(* malloc() rounds up to ints and adds the header and the footer.          *)
LEMMA EnoughInts ==
    ASSUME NEW bytes \in Bytes
    PROVE  /\ bytes \in Nat /\ Ints(bytes) \in Nat /\ Ints(bytes) >= 4
           /\ 4 * (Ints(bytes) - 2) >= bytes
<1>1. bytes \in Nat /\ bytes + 3 < SizeT /\ SizeT \in Nat
  BY HeapAssumption, OwnersAssumption
<1>2. (bytes + 3) % SizeT = bytes + 3
  BY <1>1
<1> DEFINE q == (bytes + 3) \div 4
<1>3. q \in Nat /\ 4 * q >= bytes
  BY <1>1
<1>4. Ints(bytes) = IF q + 2 < 4 THEN 4 ELSE q + 2
  BY <1>2 DEF Ints
<1> HIDE DEF q
<1> QED
  BY <1>1, <1>3, <1>4

LEMMA FirstIs ==
    ASSUME NEW T, T \subseteq Nat, T # {}
    PROVE  First(T) \in T /\ \A j \in T : First(T) <= j
BY LeastNumber DEF First

(* malloc() finds an available block that is large enough.                 *)
LEMMA ChosenIs ==
    ASSUME NEW h, NEW B, HeapInv(h, B), NEW bytes \in Bytes, Fits(h, bytes) # {}
    PROVE  Chosen(h, bytes) \in Avail(h, B) /\ Size(h, Chosen(h, bytes)) >= Ints(bytes)
<1> DEFINE A == Avail(h, B)
           fits == Fits(h, bytes)
           SizeAt(k) == Size(h, AvailList(h)[k])
           seen == {k \in fits : Cardinality({j \in fits : j < k}) < CountDown}
           best == {k \in seen : \A j \in seen : SizeAt(k) <= SizeAt(j)}
<1>1. Apart(A)
  BY HeapHolds DEF Avail, Apart
<1> PICK n, s : Threaded(h, A, n, s)
  BY DEF HeapInv, Chain
<1>2. AvailList(h) = s
  BY <1>1, AvailListIs
<1>3. n \in Nat /\ s \in [1..n -> A]
  BY DEF Threaded
<1>4. fits \subseteq 1..n /\ \A k \in fits : s[k] \in A /\ Size(h, s[k]) >= Ints(bytes)
  BY <1>2, <1>3 DEF Fits
<1>5. \A k \in fits : k \in Nat /\ SizeAt(k) \in Nat
  <2>1. \A i \in A : Size(h, i) \in Nat
    BY HeapHolds DEF Avail
  <2> QED
    BY <2>1, <1>2, <1>3, <1>4
<1> HIDE DEF fits, SizeAt
<1>6. First(fits) \in fits /\ \A j \in fits : First(fits) <= j
  BY <1>5, FirstIs DEF fits
<1>7. Best(h, fits) \in fits
  <2>1. First(fits) \in seen
    <3>1. {j \in fits : j < First(fits)} = {}
      BY <1>5, <1>6
    <3>2. Cardinality({}) < CountDown
      BY FS_EmptySet, OwnersAssumption
    <3> QED
      BY <3>1, <3>2, <1>6
  <2> DEFINE sizes == {SizeAt(k) : k \in seen}
  <2>2. PICK x \in sizes : \A y \in sizes : x <= y
    <3>1. sizes \subseteq Nat /\ sizes # {}
      BY <2>1, <1>5
    <3> HIDE DEF sizes
    <3> QED
      BY <3>1, LeastNumber
  <2>3. best # {}
    <3> PICK k \in seen : x = SizeAt(k)
      OBVIOUS
    <3>1. \A j \in seen : SizeAt(j) \in sizes
      OBVIOUS
    <3> HIDE DEF seen, sizes
    <3>2. \A j \in seen : SizeAt(k) <= SizeAt(j)
      BY <2>2, <3>1
    <3>3. k \in best
      BY <3>2
    <3> QED
      BY <3>3
  <2>4. best \subseteq Nat /\ best \subseteq fits
    BY <1>5
  <2>5. Best(h, fits) = First(best)
    BY DEF Best, SizeAt
  <2> HIDE DEF best
  <2> QED
    BY <2>3, <2>4, <2>5, FirstIs
<1>8. Chosen(h, bytes) = s[IF kind = "kernel" THEN Best(h, fits) ELSE First(fits)]
  BY <1>2 DEF Chosen, fits
<1> QED
  BY <1>4, <1>6, <1>7, <1>8

-----------------------------------------------------------------------------
(* The owners: block i of the heap h holds what r says.                    *)
Holds(h, i, r) ==
    /\ r.bytes \in Nat /\ r.tag \in Int
    /\ 4 * (Size(h, i) - 2) >= r.bytes
    /\ \A w \in Payload(i, r.bytes) : h.array[w] = r.tag

(* A block is taken exactly as long as somebody owns it, and its owner     *)
(* finds in it what it wrote.                                              *)
Owns(h, o) ==
    /\ HeapInv(h, Blocks(h)) /\ DOMAIN o = Taken(h, Blocks(h))
    /\ \A i \in DOMAIN o : Holds(h, i, o[i])

(* The bytes of an owner lie between the header and the footer.            *)
LEMMA PayloadInside ==
    ASSUME NEW h, NEW B, HeapInv(h, B), NEW i \in B, NEW bytes \in Nat,
           4 * (Size(h, i) - 2) >= bytes
    PROVE  /\ Payload(i, bytes) \subseteq i + 1..Footer(h, i) - 1
           /\ Payload(i, bytes) \subseteq i..Footer(h, i)
           /\ Payload(i, bytes) \subseteq Word
<1>1. /\ i \in Nat /\ Size(h, i) \in Nat /\ Size(h, i) >= 4
      /\ Footer(h, i) = (i + Size(h, i)) - 1
      /\ i + Size(h, i) <= Len4 - 2 /\ Len4 \in Nat
  BY HeapHolds
<1> DEFINE q == (bytes + 3) \div 4
<1>2. q \in Nat /\ q <= Size(h, i) - 2
  BY <1>1
<1>3. Payload(i, bytes) = i + 1..i + q
  BY DEF Payload
<1> HIDE DEF q
<1> QED
  BY <1>1, <1>2, <1>3 DEF Word

(* A block that is left alone holds what it held.                          *)
LEMMA StillHolds ==
    ASSUME NEW h, NEW B, HeapInv(h, B), NEW i \in B, NEW r, Holds(h, i, r),
           NEW g, \A w \in i..Footer(h, i) : g.array[w] = h.array[w]
    PROVE  Holds(g, i, r)
<1>1. Payload(i, r.bytes) \subseteq i..Footer(h, i)
  BY PayloadInside DEF Holds
<1>2. Size(g, i) = Size(h, i)
  <2>1. i \in i..Footer(h, i)
    BY HeapHolds
  <2> QED
    BY <2>1 DEF Size
<1> QED
  BY <1>1, <1>2 DEF Holds

LEMMA OwnsIs ==
    ASSUME NEW h, NEW o, NEW B, HeapInv(h, B), DOMAIN o = Taken(h, B),
           \A i \in DOMAIN o : Holds(h, i, o[i])
    PROVE  Owns(h, o)
BY Consistent DEF Owns

(* malloc(): the new block holds nothing yet.                              *)
LEMMA AllotOwns ==
    ASSUME NEW h, NEW o, Owns(h, o), NEW tag \in Int,
           NEW bytes \in Bytes, Fits(h, bytes) # {},
           NEW it, it = Chosen(h, bytes), NEW g, g = Allot(h, it, Ints(bytes))
    PROVE  /\ Owns(g, With(o, it, [bytes |-> 0, tag |-> tag]))
           /\ it \notin DOMAIN o /\ 4 * (Size(g, it) - 2) >= bytes
<1> DEFINE B == Blocks(h)
           r == [bytes |-> 0, tag |-> tag]
           w == With(o, it, r)
<1>1. HeapInv(h, B) /\ DOMAIN o = Taken(h, B) /\ \A i \in DOMAIN o : Holds(h, i, o[i])
  BY DEF Owns
<1> HIDE DEF B
<1>2. it \in Avail(h, B) /\ Size(h, it) >= Ints(bytes)
  BY <1>1, ChosenIs
<1>3. /\ bytes \in Nat /\ Ints(bytes) \in Nat /\ Ints(bytes) >= 4
      /\ 4 * (Ints(bytes) - 2) >= bytes
  BY EnoughInts
<1>4. /\ Becomes(h, g, B, Taken(h, B) \cup {it}) /\ Size(g, it) >= Ints(bytes)
      /\ it \notin Taken(h, B)
  BY <1>1, <1>2, <1>3, AllotIs
<1>5. PICK N : HeapInv(g, N) /\ Taken(g, N) = Taken(h, B) \cup {it}
  BY <1>4 DEF Becomes
<1>6. Kept(h, g, Taken(h, B))
  BY <1>4 DEF Becomes, Kept
<1>7. Size(g, it) \in Nat
  BY <1>5, HeapHolds DEF Taken
<1>8. 4 * (Size(g, it) - 2) >= bytes
  BY <1>3, <1>4, <1>7
<1>9. Holds(g, it, r)
  <2>1. it \in Nat
    BY <1>5, HeapHolds DEF Taken
  <2>2. Payload(it, 0) = {}
    BY <2>1 DEF Payload
  <2> QED
    BY <2>2, <1>4, <1>3, <1>7 DEF Holds
<1>10. \A i \in Taken(h, B) : Holds(g, i, o[i])
  <2>1. Taken(h, B) \subseteq B
    BY DEF Taken
  <2> QED
    BY <2>1, <1>1, <1>6, StillHolds DEF Kept
<1>11. DOMAIN w = Taken(g, N) /\ \A i \in DOMAIN w : Holds(g, i, w[i])
  BY <1>1, <1>4, <1>5, <1>9, <1>10 DEF With
<1> QED
  BY <1>1, <1>4, <1>5, <1>8, <1>11, OwnsIs

(* free()                                                                  *)
LEMMA FreedOwns ==
    ASSUME NEW h, NEW o, Owns(h, o), NEW i \in DOMAIN o
    PROVE  Owns(Freed(h, i), [j \in DOMAIN o \ {i} |-> o[j]])
<1> DEFINE B == Blocks(h)
           g == Freed(h, i)
           p == [j \in DOMAIN o \ {i} |-> o[j]]
<1>1. HeapInv(h, B) /\ DOMAIN o = Taken(h, B) /\ \A j \in DOMAIN o : Holds(h, j, o[j])
  BY DEF Owns
<1> HIDE DEF B, g
<1>2. Becomes(h, g, B, Taken(h, B) \ {i})
  BY <1>1, FreedIs DEF g
<1>3. PICK N : HeapInv(g, N) /\ Taken(g, N) = Taken(h, B) \ {i}
  BY <1>2 DEF Becomes
<1>4. \A j \in Taken(h, B) \ {i} : \A w \in j..Footer(h, j) : g.array[w] = h.array[w]
  BY <1>2 DEF Becomes, Kept
<1>5. \A j \in Taken(h, B) \ {i} : Holds(g, j, o[j])
  <2>1. Taken(h, B) \subseteq B
    BY DEF Taken
  <2> QED
    BY <2>1, <1>1, <1>4, StillHolds
<1>6. DOMAIN p = Taken(g, N) /\ \A j \in DOMAIN p : Holds(g, j, p[j])
  BY <1>1, <1>3, <1>5
<1> HIDE DEF p
<1>7. Owns(g, p)
  BY <1>3, <1>6, OwnsIs
<1> QED
  BY <1>7 DEF g, p

(* An owner writes into its block.                                         *)
LEMMA WriteOwns ==
    ASSUME NEW h, NEW o, Owns(h, o), NEW i \in DOMAIN o, NEW r,
           NEW g, IsHeap(g), g.avail = h.avail, Same(h, g, i + 1..Footer(h, i) - 1),
           Size(g, i) = Size(h, i) => Holds(g, i, r)
    PROVE  Owns(g, With(o, i, r)) /\ Size(g, i) = Size(h, i)
<1> DEFINE B == Blocks(h)
           w == With(o, i, r)
<1>1. HeapInv(h, B) /\ DOMAIN o = Taken(h, B) /\ \A j \in DOMAIN o : Holds(h, j, o[j])
  BY DEF Owns
<1> HIDE DEF B
<1>2. Refilled(h, g, B, i)
  BY <1>1, PayloadKeeps
<1>3. HeapInv(g, B) /\ Taken(g, B) = Taken(h, B) /\ Size(g, i) = Size(h, i)
  BY <1>2 DEF Refilled
<1>4. \A j \in Taken(h, B) \ {i} : Holds(g, j, o[j])
  <2>1. Taken(h, B) \subseteq B
    BY DEF Taken
  <2> QED
    BY <2>1, <1>1, <1>2, StillHolds DEF Refilled, Kept
<1>5. DOMAIN w = Taken(g, B) /\ \A j \in DOMAIN w : Holds(g, j, w[j])
  BY <1>1, <1>3, <1>4 DEF With
<1> QED
  BY <1>3, <1>5, OwnsIs

LEMMA OwnsAlike ==
    ASSUME NEW h, NEW o, Owns(h, o), NEW p, DOMAIN p = DOMAIN o,
           \A j \in DOMAIN o : p[j] = o[j]
    PROVE  Owns(h, p)
BY DEF Owns

(* The owner of a block fills what is not filled yet.                      *)
LEMMA FillOwns ==
    ASSUME NEW h, NEW o, Owns(h, o), NEW i \in DOMAIN o, NEW tag \in Int,
           NEW bytes \in Bytes, 4 * (Size(h, i) - 2) >= bytes,
           NEW W \in SUBSET Payload(i, bytes),
           \A w \in Payload(i, bytes) \ W : h.array[w] = tag
    PROVE  Owns(Fill(h, W, tag), With(o, i, [bytes |-> bytes, tag |-> tag]))
<1> DEFINE B == Blocks(h)
           g == Fill(h, W, tag)
           r == [bytes |-> bytes, tag |-> tag]
<1>1. HeapInv(h, B) /\ i \in B /\ bytes \in Nat
  BY EnoughInts DEF Owns, Taken
<1> HIDE DEF B
<1>2. /\ Payload(i, bytes) \subseteq i + 1..Footer(h, i) - 1
      /\ Payload(i, bytes) \subseteq Word
  BY <1>1, PayloadInside
<1>3. IsHeap(h)
  BY <1>1 DEF HeapInv
<1>4. /\ IsHeap(g) /\ g.avail = h.avail
      /\ \A w \in Word : g.array[w] = IF w \in W THEN tag ELSE h.array[w]
  BY <1>3 DEF IsHeap, Fill
<1> HIDE DEF g
<1>5. Same(h, g, i + 1..Footer(h, i) - 1)
  BY <1>2, <1>4 DEF Same
<1>6. \A w \in Payload(i, bytes) : g.array[w] = tag
  BY <1>2, <1>4
<1>7. Size(g, i) = Size(h, i) => Holds(g, i, r)
  BY <1>1, <1>6 DEF Holds
<1>8. Owns(g, With(o, i, r))
  BY <1>4, <1>5, <1>7, WriteOwns
<1> QED
  BY <1>8 DEF g

(* The lesser of two sizes.                                                *)
Least(a, b) == IF a > b THEN b ELSE a

Shared(i, a, b) ==
    Payload(i, Least(a, b)) = Payload(i, a) \cap Payload(i, b)

LEMMA LessPayload ==
    ASSUME NEW a \in Nat, NEW b \in Nat, NEW i \in Nat
    PROVE  /\ Least(a, b) \in Nat /\ Least(a, b) <= a /\ Least(a, b) <= b
           /\ a <= b => Payload(i, a) \subseteq Payload(i, b)
           /\ Shared(i, a, b)
<1> DEFINE q(x) == (x + 3) \div 4
<1>1. \A x \in Nat : q(x) \in Nat
  OBVIOUS
<1>2. \A x, y \in Nat : x <= y => q(x) <= q(y)
  OBVIOUS
<1>3. \A x : Payload(i, x) = i + 1..i + q(x)
  BY DEF Payload
<1>4. q(a) \in Nat /\ q(b) \in Nat /\ (a <= b => q(a) <= q(b)) /\ (b <= a => q(b) <= q(a))
  BY <1>1, <1>2
<1> HIDE DEF q
<1>5. a <= b => Payload(i, a) \subseteq Payload(i, b)
  BY <1>3, <1>4
<1>6. b <= a => Payload(i, b) \subseteq Payload(i, a)
  BY <1>3, <1>4
<1>7. CASE a > b
  BY <1>5, <1>6, <1>7 DEF Least, Shared
<1>8. CASE ~(a > b)
  BY <1>5, <1>8 DEF Least, Shared
<1> QED
  BY <1>7, <1>8

(* memcpy() in realloc(): the new block holds of the old one what fits.    *)
LEMMA CopyOwns ==
    ASSUME NEW h, NEW o, Owns(h, o), NEW from \in DOMAIN o, NEW to \in DOMAIN o,
           from # to, NEW bytes \in Bytes, 4 * (Size(h, to) - 2) >= bytes,
           NEW r, r = [bytes |-> Least(bytes, o[from].bytes), tag |-> o[from].tag],
           NEW g, g = Copied(h, from, to, bytes)
    PROVE  Owns(g, With(o, to, r)) /\ Size(g, to) = Size(h, to)
<1> DEFINE B == Blocks(h)
           old == 4 * Size(h, from)
           m == Least(bytes, old)
           ob == o[from].bytes
<1>1. /\ HeapInv(h, B) /\ from \in B /\ to \in B /\ bytes \in Nat
      /\ Holds(h, from, o[from])
  BY EnoughInts DEF Owns, Taken
<1> HIDE DEF B
<1>2. /\ from \in Nat /\ to \in Nat /\ Size(h, from) \in Nat /\ Size(h, to) \in Nat
      /\ from + Size(h, from) <= Len4 - 2 /\ Len4 \in Nat /\ IsHeap(h)
  <2>1. /\ IsHeap(h) /\ Len4 \in Nat
        /\ \A i \in B : /\ i \in Nat /\ Size(h, i) \in Nat
                        /\ Right(h, i) = i + Size(h, i) /\ Right(h, i) <= Len4 - 2
    BY <1>1, HeapHolds
  <2> QED
    BY <2>1, <1>1
<1>3. ob \in Nat /\ 4 * (Size(h, from) - 2) >= ob /\ o[from].tag \in Int
  BY <1>1 DEF Holds
<1>4. old \in Nat /\ ob <= old
  BY <1>2, <1>3
<1>5. /\ m \in Nat /\ m <= bytes /\ m <= old
      /\ Payload(to, m) \subseteq Payload(to, bytes)
  BY <1>1, <1>2, <1>4, LessPayload
<1>6. Payload(to, bytes) \subseteq to + 1..Footer(h, to) - 1
  BY <1>1, PayloadInside
<1>7. \A w \in Payload(to, m) : w - to + from \in Word
  <2> DEFINE q == (m + 3) \div 4
  <2>1. q \in Nat /\ q <= Size(h, from)
    <3>1. m \in Nat /\ m <= 4 * Size(h, from) /\ Size(h, from) \in Nat
      BY <1>2, <1>5
    <3> HIDE DEF m
    <3> QED
      BY ONLY <3>1
  <2>2. Payload(to, m) = to + 1..to + q
    BY DEF Payload
  <2> HIDE DEF q, m
  <2>3. /\ Size(h, from) \in Nat /\ from \in Nat /\ to \in Nat /\ Len4 \in Nat
        /\ from + Size(h, from) <= Len4 - 2
    BY <1>2
  <2> QED
    BY ONLY <2>1, <2>2, <2>3 DEF Word
<1>8. g = [h EXCEPT !.array =
              [w \in Word |-> IF w \in Payload(to, m) THEN h.array[w - to + from]
                                                      ELSE h.array[w]]]
  BY DEF Copied, Least
<1> HIDE DEF m, old
<1>9. /\ IsHeap(g) /\ g.avail = h.avail
      /\ \A w \in Word : g.array[w] = IF w \in Payload(to, m) THEN h.array[w - to + from]
                                                              ELSE h.array[w]
  BY <1>2, <1>7, <1>8 DEF IsHeap
<1>10. Same(h, g, to + 1..Footer(h, to) - 1)
  BY <1>5, <1>6, <1>9 DEF Same
<1>11. ASSUME NEW w \in Payload(to, Least(bytes, ob))
       PROVE  g.array[w] = o[from].tag
  <2>1. w \in Payload(to, bytes) /\ w \in Payload(to, ob)
    <3>1. bytes \in Nat /\ ob \in Nat /\ to \in Nat
      BY <1>1, <1>2, <1>3
    <3>2. Shared(to, bytes, ob)
      BY ONLY <3>1, LessPayload
    <3> QED
      BY <3>2, <1>11 DEF Shared
  <2>2. Shared(to, bytes, old) /\ Payload(to, ob) \subseteq Payload(to, old)
    <3>1. bytes \in Nat /\ ob \in Nat /\ to \in Nat /\ old \in Nat /\ ob <= old
      BY <1>1, <1>2, <1>3, <1>4
    <3> QED
      BY ONLY <3>1, LessPayload
  <2>3. w \in Payload(to, m)
    BY <2>1, <2>2 DEF m, Shared
  <2>4. w - to + from \in Payload(from, ob)
    <3> DEFINE q == (ob + 3) \div 4
    <3>1. Payload(to, ob) = to + 1..to + q /\ Payload(from, ob) = from + 1..from + q
      BY DEF Payload
    <3>2. q \in Int /\ from \in Nat /\ to \in Nat
      BY <1>2, <1>3
    <3>3. w \in to + 1..to + q
      BY <2>1, <3>1
    <3> HIDE DEF q
    <3>4. w - to + from \in from + 1..from + q
      BY ONLY <3>2, <3>3
    <3> QED
      BY <3>1, <3>4
  <2>5. h.array[w - to + from] = o[from].tag
    BY <2>4, <1>1 DEF Holds
  <2>6. w \in Word
    BY <2>1, <1>1, PayloadInside
  <2> QED
    BY <2>3, <2>5, <2>6, <1>9
<1>12. Size(g, to) = Size(h, to) => Holds(g, to, r)
  <2>1. Least(bytes, ob) \in Nat /\ Least(bytes, ob) <= bytes
    BY <1>1, <1>2, <1>3, LessPayload
  <2>2. 4 * (Size(h, to) - 2) >= Least(bytes, ob)
    BY <2>1, <1>1, <1>2
  <2>3. r.bytes = Least(bytes, ob) /\ r.tag = o[from].tag
    OBVIOUS
  <2> QED
    BY <2>1, <2>2, <2>3, <1>3, <1>11 DEF Holds
<1> QED
  BY <1>9, <1>10, <1>12, WriteOwns

-----------------------------------------------------------------------------
(* Every step                                                              *)

LEMMA MallocStep ==
    ASSUME Owns(heap, owned), NEW bytes \in Bytes, NEW tag \in Tag, Malloc(bytes, tag)
    PROVE  Owns(heap', owned')
<1> DEFINE it == Chosen(heap, bytes)
           g == Allot(heap, it, Ints(bytes))
           r0 == [bytes |-> 0, tag |-> tag]
           r == [bytes |-> bytes, tag |-> tag]
           o == With(owned, it, r0)
<1>1. /\ Fits(heap, bytes) # {} /\ heap' = Fill(g, Payload(it, bytes), tag)
      /\ owned' = With(owned, it, r)
  BY DEF Malloc
<1>2. tag \in Int
  BY OwnersAssumption
<1> HIDE DEF it, g
<1>3. Owns(g, o) /\ it \notin DOMAIN owned /\ 4 * (Size(g, it) - 2) >= bytes
  BY <1>1, <1>2, AllotOwns DEF it, g
<1>4. it \in DOMAIN o
  BY DEF With
<1> HIDE DEF o
<1>5. Owns(heap', With(o, it, r))
  BY <1>1, <1>2, <1>3, <1>4, FillOwns
<1>6. /\ DOMAIN owned' = DOMAIN With(o, it, r)
      /\ \A j \in DOMAIN With(o, it, r) : owned'[j] = With(o, it, r)[j]
  BY <1>1, <1>3 DEF With, o
<1> QED
  BY <1>5, <1>6, OwnsAlike

LEMMA FreeStep ==
    ASSUME Owns(heap, owned), NEW i \in DOMAIN owned,
           heap' = Freed(heap, i), owned' = Disown(i)
    PROVE  Owns(heap', owned')
BY FreedOwns DEF Disown

LEMMA ReallocStep ==
    ASSUME Owns(heap, owned), NEW i \in DOMAIN owned, NEW bytes \in Bytes, Realloc(i, bytes)
    PROVE  Owns(heap', owned')
<1> DEFINE it == Chosen(heap, bytes)
           tag == owned[i].tag
           ob == owned[i].bytes
           g1 == Allot(heap, it, Ints(bytes))
           g2 == Copied(g1, i, it, bytes)
           g3 == Freed(g2, i)
           W == Payload(it, bytes) \ Payload(it, ob)
           r1 == [bytes |-> 0, tag |-> tag]
           r2 == [bytes |-> Least(bytes, ob), tag |-> tag]
           r == [bytes |-> bytes, tag |-> tag]
           o1 == With(owned, it, r1)
           o2 == With(o1, it, r2)
           o3 == [j \in DOMAIN o2 \ {i} |-> o2[j]]
           o4 == With(o3, it, r)
<1>1. /\ Fits(heap, bytes) # {} /\ heap' = Fill(g3, W, tag)
      /\ owned' = With(Disown(i), it, r)
  BY DEF Realloc
<1>2. tag \in Int /\ ob \in Nat /\ bytes \in Nat
  BY EnoughInts DEF Owns, Holds
<1>3. Owns(g1, o1) /\ it \notin DOMAIN owned /\ 4 * (Size(g1, it) - 2) >= bytes
  BY <1>1, <1>2, AllotOwns
<1>4. i \in DOMAIN o1 /\ it \in DOMAIN o1 /\ i # it /\ o1[i] = owned[i]
  BY <1>3 DEF With
<1> HIDE DEF it, g1, g2, g3, o1, o2, o3, o4, W
<1>5. Owns(g2, o2) /\ Size(g2, it) = Size(g1, it)
  BY <1>3, <1>4, CopyOwns DEF g2, o2
<1>6. /\ i \in DOMAIN o2 /\ it \in DOMAIN o2 /\ o2[it] = r2
  BY <1>4 DEF With, o2
<1>7. Owns(g3, o3)
  BY <1>5, <1>6, FreedOwns DEF g3, o3
<1>8. it \in DOMAIN o3 /\ o3[it] = r2
  BY <1>4, <1>6 DEF o3
<1>9. 4 * (Size(g3, it) - 2) >= bytes
  <2> DEFINE B == Blocks(g2)
  <2>1. HeapInv(g2, B) /\ i \in Taken(g2, B) /\ it \in Taken(g2, B) /\ it \in B
    BY <1>5, <1>6 DEF Owns, Taken
  <2> HIDE DEF B
  <2>2. Becomes(g2, g3, B, Taken(g2, B) \ {i})
    BY <2>1, FreedIs DEF g3
  <2>3. it \in it..Footer(g2, it)
    BY <2>1, HeapHolds
  <2>4. g3.array[it] = g2.array[it]
    BY <2>1, <2>2, <2>3, <1>4 DEF Becomes, Kept
  <2>5. Size(g3, it) = Size(g2, it)
    BY <2>4 DEF Size
  <2> QED
    BY <2>5, <1>3, <1>5
<1>10. \A w \in Payload(it, bytes) \ W : g3.array[w] = tag
  <2>1. Holds(g3, it, r2)
    BY <1>7, <1>8 DEF Owns
  <2>2. it \in Nat
    <3>1. it \in Blocks(g3) /\ HeapInv(g3, Blocks(g3))
      BY <1>7, <1>8 DEF Owns, Taken
    <3> QED
      BY <3>1, HeapHolds
  <2>3. Payload(it, bytes) \ W = Payload(it, Least(bytes, ob))
    <3>1. Shared(it, bytes, ob)
      BY ONLY <2>2, <1>2, LessPayload
    <3> QED
      BY <3>1 DEF W, Shared
  <2> QED
    BY <2>1, <2>3 DEF Holds
<1>11. W \in SUBSET Payload(it, bytes)
  BY DEF W
<1>12. Owns(heap', o4)
  BY <1>1, <1>2, <1>7, <1>8, <1>9, <1>10, <1>11, FillOwns DEF o4
<1>13. /\ DOMAIN owned' = DOMAIN o4
       /\ \A j \in DOMAIN o4 : owned'[j] = o4[j]
  <2> HIDE DEF r
  <2> QED
    BY <1>1, <1>3, <1>4 DEF With, Disown, o1, o2, o3, o4
<1> QED
  BY <1>12, <1>13, OwnsAlike

(* The inductive invariant.                                                *)
LEMMA OwnsInv == Spec => []Owns(heap, owned)
<1>1. Init => Owns(heap, owned)
  <2> SUFFICES ASSUME Init PROVE Owns(heap, owned)
    OBVIOUS
  <2>1. heap = Fresh /\ owned = <<>>
    BY DEF Init
  <2>2. DOMAIN owned = {}
    BY <2>1
  <2> QED
    BY <2>1, <2>2, FreshIs, OwnsIs
<1>2. Owns(heap, owned) /\ [Next]_vars => Owns(heap, owned)'
  <2> SUFFICES ASSUME Owns(heap, owned), [Next]_vars PROVE Owns(heap', owned')
    OBVIOUS
  <2>1. CASE \E bytes \in Bytes, tag \in Tag : Malloc(bytes, tag)
    BY <2>1, MallocStep
  <2>2. CASE \E i \in DOMAIN owned : Free(i)
    BY <2>2, FreeStep DEF Free
  <2>3. CASE \E i \in DOMAIN owned, bytes \in Bytes : Realloc(i, bytes)
    BY <2>3, ReallocStep
  <2>4. CASE \E i \in DOMAIN owned, bytes \in Bytes : ReallocFails(i, bytes)
    BY <2>4, FreeStep DEF ReallocFails
  <2>5. CASE UNCHANGED vars
    BY <2>5 DEF vars
  <2> QED
    BY <2>1, <2>2, <2>3, <2>4, <2>5 DEF Next
<1> QED
  BY <1>1, <1>2, PTL DEF Spec

(* No sequence of malloc(), free() and realloc(), failed ones included,    *)
(* breaks the heap: its blocks tile the array, the list of the available   *)
(* ones holds each of them once, no two of them are neighbours, and a      *)
(* block is taken exactly as long as it has an owner.                      *)
THEOREM HeapStaysConsistent == Spec => []HeapConsistent
<1>1. Owns(heap, owned) => HeapConsistent
  BY Consistent DEF Owns, HeapConsistent, Taken
<1> QED
  BY <1>1, OwnsInv, PTL

(* An owner has room for what it asked for and finds in it what it wrote,  *)
(* whatever the others do and wherever realloc() has moved it.             *)
THEOREM OwnersKeepTheirBytes == Spec => []PayloadIntact
<1>1. Owns(heap, owned) => PayloadIntact
  BY DEF Owns, Holds, PayloadIntact
<1> QED
  BY <1>1, OwnsInv, PTL
=============================================================================
