----------------------------- MODULE FilesProofs -----------------------------
(***************************************************************************)
(* Open files, pathnames, symbolic links and exec, for any disk whose      *)
(* i-nodes are where their numbers say, any pathnames and any size of      *)
(* file.                                                                   *)
(*                                                                         *)
(* A read is proved from ReadInv, what is in the buffer of each call, and  *)
(* OffsetInv, where the shared offset is meanwhile.  A lookup is proved    *)
(* from FindInv: Ext2::find is on the walk along the name it was given, or *)
(* along the target of a link, and then that link is on the chain of links *)
(* the name begins.  What names resolve to is defined by recursive         *)
(* functions, so the lemmas say first that these functions are what they   *)
(* are meant to be.  The stack of a new program is proved from StackInv:   *)
(* the strings that are pushed lie above the stack pointer, at the         *)
(* addresses noted for them.                                               *)
(***************************************************************************)
EXTENDS Files, FiniteSetTheorems, TLAPS

(* Every set of numbers that is not empty has a least one.  Otherwise the  *)
(* numbers below all of T and up to some x of T would be as many as the    *)
(* same numbers with -1, since n + 1 is again one of them.                 *)
LEMMA LeastNumber ==
    ASSUME NEW T, T \subseteq Nat, T # {}
    PROVE  \E n \in T : \A m \in T : n <= m
<1> SUFFICES ASSUME \A n \in T : \E m \in T : m < n
             PROVE  FALSE
  OBVIOUS
<1> PICK x \in T : TRUE
  OBVIOUS
<1> DEFINE S == {n \in 0..x : \A t \in T : t > n}
           next == [n \in S \cup {-1} |-> n + 1]
<1>1. IsFiniteSet(S) /\ Cardinality(S) \in Nat
  <2>1. IsFiniteSet(0..x)
    BY FS_Interval
  <2> QED
    BY <2>1, FS_Subset, FS_CardinalityType
<1>2. \A n \in S \cup {-1} : n + 1 \in S
  OBVIOUS
<1>3. -1 \notin S
  OBVIOUS
<1>4. next \in Injection(S \cup {-1}, S)
  BY <1>2 DEF Injection, IsInjective
<1> HIDE DEF S, next
<1>5. Cardinality(S \cup {-1}) = Cardinality(S) + 1
  BY <1>1, <1>3, FS_AddElement
<1>6. Cardinality(S \cup {-1}) <= Cardinality(S)
  BY <1>1, <1>4, FS_Injection
<1> QED
  BY <1>1, <1>5, <1>6

(* Induction, for the set of the numbers of which a formula is true.       *)
LEMMA AllNumbers ==
    ASSUME NEW T, 0 \in T, \A n \in Nat : n \in T => n + 1 \in T
    PROVE  Nat \subseteq T
<1> SUFFICES ASSUME Nat \ T # {} PROVE FALSE
  OBVIOUS
<1>1. PICK n \in Nat \ T : \A m \in Nat \ T : n <= m
  BY LeastNumber
<1> QED
  BY <1>1, n # 0, n - 1 \in Nat, n - 1 \notin T

(* A function of 0..n that a recursion with the first value c and the      *)
(* step f defines.                                                         *)
Recurs(g, D, c, f, n) ==
    /\ g \in [0..n -> D]
    /\ g[0] = c
    /\ \A k \in 1..n : g[k] = f[<<g[k - 1], k>>]

LEMMA RecursesAlike ==
    ASSUME NEW D, NEW c, NEW f, NEW n \in Nat, NEW m \in Nat, n <= m,
           NEW g, NEW h, Recurs(g, D, c, f, n), Recurs(h, D, c, f, m)
    PROVE  \A k \in 0..n : g[k] = h[k]
<1> DEFINE T == {k \in 0..n : g[k] # h[k]}
<1> SUFFICES ASSUME T # {} PROVE FALSE
  OBVIOUS
<1>1. T \subseteq Nat
  OBVIOUS
<1>2. PICK k \in T : \A j \in T : k <= j
  <2> HIDE DEF T
  <2> QED
    BY <1>1, LeastNumber
<1>3. k # 0
  BY <1>2 DEF Recurs
<1>4. k - 1 \in 0..n /\ k - 1 \notin T
  BY <1>2, <1>3
<1>5. g[k - 1] = h[k - 1]
  BY <1>4
<1>6. g[k] = f[<<g[k - 1], k>>] /\ h[k] = f[<<h[k - 1], k>>]
  BY <1>2, <1>3 DEF Recurs
<1> QED
  BY <1>2, <1>5, <1>6

LEMMA Recurses ==
    ASSUME NEW D, NEW c \in D, NEW f \in [D \X Nat -> D]
    PROVE  \A n \in Nat : \E g : Recurs(g, D, c, f, n)
<1> DEFINE T == {n \in Nat : \E g : Recurs(g, D, c, f, n)}
<1>1. 0 \in T
  <2>1. Recurs([k \in 0..0 |-> c], D, c, f, 0)
    BY DEF Recurs
  <2> QED
    BY <2>1
<1>2. ASSUME NEW n \in Nat, n \in T
      PROVE  n + 1 \in T
  <2>1. PICK g : Recurs(g, D, c, f, n)
    BY <1>2
  <2> DEFINE h == [k \in 0..n + 1 |-> IF k <= n THEN g[k] ELSE f[<<g[n], n + 1>>]]
  <2>2. f[<<g[n], n + 1>>] \in D
    BY <2>1 DEF Recurs
  <2>3. h \in [0..n + 1 -> D]
    BY <2>1, <2>2 DEF Recurs
  <2>4. h[0] = c
    BY <2>1 DEF Recurs
  <2>5. \A k \in 1..n + 1 : h[k] = f[<<h[k - 1], k>>]
    <3> TAKE k \in 1..n + 1
    <3>1. CASE k <= n
      <4>1. h[k] = g[k] /\ h[k - 1] = g[k - 1] /\ k \in 1..n
        BY <3>1
      <4>2. g[k] = f[<<g[k - 1], k>>]
        BY <4>1, <2>1 DEF Recurs
      <4>3. f[<<h[k - 1], k>>] = f[<<g[k - 1], k>>]
        BY <4>1
      <4> HIDE DEF h
      <4> QED
        BY <4>1, <4>2, <4>3
    <3>2. CASE k = n + 1
      <4>1. k - 1 = n /\ h[n] = g[n] /\ h[k] = f[<<g[n], k>>]
        BY <3>2
      <4>2. f[<<h[k - 1], k>>] = f[<<g[n], k>>]
        BY <4>1
      <4> HIDE DEF h
      <4> QED
        BY <4>1, <4>2
    <3> QED
      BY <3>1, <3>2
  <2> HIDE DEF h
  <2>6. Recurs(h, D, c, f, n + 1)
    BY <2>3, <2>4, <2>5 DEF Recurs
  <2> QED
    BY <2>6
<1> HIDE DEF T
<1>3. Nat \subseteq T
  BY <1>1, <1>2, AllNumbers
<1> QED
  BY <1>3 DEF T

(* What a recursion over the numbers defines.                              *)
Defined(g, D, c, f) ==
    /\ g \in [Nat -> D]
    /\ g[0] = c
    /\ \A k \in Nat \ {0} : g[k] = f[<<g[k - 1], k>>]

LEMMA Recursion ==
    ASSUME NEW D, NEW c \in D, NEW f \in [D \X Nat -> D]
    PROVE  \E g : Defined(g, D, c, f)
<1> DEFINE G(n) == CHOOSE g : Recurs(g, D, c, f, n)
           g == [k \in Nat |-> G(k)[k]]
<1>1. \A n \in Nat : Recurs(G(n), D, c, f, n)
  BY Recurses
<1> HIDE DEF G
<1>2. g \in [Nat -> D]
  BY <1>1 DEF Recurs
<1>3. g[0] = c
  BY <1>1 DEF Recurs
<1>4. ASSUME NEW k \in Nat \ {0}
      PROVE  g[k] = f[<<g[k - 1], k>>]
  <2>1. k - 1 \in Nat /\ k \in Nat /\ k - 1 <= k /\ k - 1 \in 0..k - 1 /\ k \in 1..k
    OBVIOUS
  <2>2. Recurs(G(k - 1), D, c, f, k - 1) /\ Recurs(G(k), D, c, f, k)
    BY <1>1, <2>1
  <2>3. G(k - 1)[k - 1] = G(k)[k - 1]
    BY <2>1, <2>2, RecursesAlike
  <2>4. G(k)[k] = f[<<G(k)[k - 1], k>>]
    BY <2>1, <2>2 DEF Recurs
  <2> QED
    BY <2>1, <2>3, <2>4
<1> HIDE DEF g
<1>5. Defined(g, D, c, f)
  BY <1>2, <1>3, <1>4 DEF Defined
<1> QED
  BY <1>5

(***************************************************************************)
(* Reading                                                                 *)
(***************************************************************************)

LEMMA DivMod ==
    ASSUME NEW a \in Nat, NEW d \in Nat \ {0}
    PROVE  /\ a \div d \in Nat /\ a % d \in 0..d - 1
           /\ a = (a \div d) * d + (a % d)
OBVIOUS

LEMMA PointerValues ==
    ASSUME NEW k \in Nat, NEW j \in Nat
    PROVE  /\ Pointer(<<"indirect_1">>, k) = Direct + k
           /\ Pointer(Pointer(<<"indirect_2">>, j), k) = Direct + Refs + j * Refs + k
<1>1. Pointer(<<"indirect_1">>, k) = Direct + k
  BY DEF Pointer
<1>2. <<"indirect_2">> # <<"indirect_1">>
  OBVIOUS
<1>3. Pointer(<<"indirect_2">>, j) = <<"indirect_2", j>>
  BY <1>2 DEF Pointer
<1>4. <<"indirect_2", j>> # <<"indirect_1">> /\ <<"indirect_2", j>> # <<"indirect_2">>
  OBVIOUS
<1>5. Pointer(<<"indirect_2", j>>, k) = Direct + Refs + j * Refs + k
  BY <1>4 DEF Pointer
<1> QED
  BY <1>1, <1>3, <1>5

LEMMA BlockIsItsIndex ==
    ASSUME NEW index \in Nat, BlockIndex(index) # -1
    PROVE  BlockIndex(index) = index
<1>0. Direct \in Nat /\ Refs \in Nat \ {0}
  BY OpenFileAssumption
<1>1. CASE index < Direct
  BY <1>1 DEF BlockIndex
<1>2. CASE ~(index < Direct) /\ index < Direct + Refs
  <2>1. BlockIndex(index) = Pointer(<<"indirect_1">>, index - Direct)
    BY <1>2 DEF BlockIndex
  <2>2. index - Direct \in Nat
    BY <1>0, <1>2
  <2> QED
    BY <2>1, <2>2, <1>0, PointerValues
<1>3. CASE ~(index < Direct) /\ ~(index < Direct + Refs)
  <2> DEFINE i == index - Direct - Refs
  <2>1. i \in Nat
    BY <1>0, <1>3
  <2>2. BlockIndex(index) = Pointer(Pointer(<<"indirect_2">>, i \div Refs), i % Refs)
    BY <1>3 DEF BlockIndex
  <2> HIDE DEF i
  <2>3. i \div Refs \in Nat /\ i % Refs \in Nat /\ i = (i \div Refs) * Refs + (i % Refs)
    <3>1. i \div Refs \in Nat /\ i % Refs \in 0..Refs - 1 /\ i = (i \div Refs) * Refs + (i % Refs)
      BY <2>1, <1>0, DivMod
    <3> QED
      BY <3>1, <1>0
  <2>4. BlockIndex(index) = Direct + Refs + (i \div Refs) * Refs + (i % Refs)
    BY <2>2, <2>3, PointerValues
  <2>5. index = Direct + Refs + i
    BY <1>0, <2>1 DEF i
  <2> QED
    BY <2>3, <2>4, <2>5, <1>0
<1> QED
  BY <1>1, <1>2, <1>3

-----------------------------------------------------------------------------

(* The bytes of the file from offset a on, n of them.                      *)
FileBytes(a, n) == [i \in 1..n |-> a + i - 1]

(* The types, and how far a read has come: what it has delivered it took   *)
(* from the file, inside its end.                                          *)
ReadInv ==
    /\ size \in 0..MaxSize
    /\ myOffset \in Nat
    /\ pc \in [Process -> {"user", "loop", "store", "returned", "panic"}]
    /\ at \in [Process -> Nat]
    /\ want \in [Process -> 0..MaxArg]
    /\ buffer \in [Process -> Seq(Nat)]
    /\ result \in [Process -> Int]
    /\ sum \in [Process -> Nat]
    /\ \A p \in Process :
          /\ buffer[p] = FileBytes(at[p], Len(buffer[p]))
          /\ Len(buffer[p]) <= want[p]
          /\ buffer[p] = <<>> \/ at[p] + Len(buffer[p]) <= size

LEMMA ReadInitially == Init => ReadInv
BY OpenFileAssumption DEF Init, ReadInv, FileBytes

(* One turn of the loop: the block that is read is the one at the offset,  *)
(* and what is taken of it goes on where the buffer ends.                  *)
LEMMA ReadBlockKeeps ==
    ASSUME ReadInv, NEW p \in Process, ReadBlock(p)
    PROVE  ReadInv'
<1> DEFINE o == Offset(p)
           b == BlockIndex(o \div BlockSize)
           n == ActualN(p)
           part == [i \in 1..n |-> b * BlockSize + (o % BlockSize) + i - 1]
<1>1. /\ BlockSize \in Nat \ {0} /\ MaxSize \in Nat /\ MaxArg \in Nat
      /\ size \in Nat /\ at[p] \in Nat /\ want[p] \in Nat
      /\ buffer[p] \in Seq(Nat) /\ Len(buffer[p]) \in Nat
      /\ want \in [Process -> 0..MaxArg] /\ buffer \in [Process -> Seq(Nat)]
  BY OpenFileAssumption DEF ReadInv
<1>2. o = at[p] + Len(buffer[p]) /\ o \in Nat
  BY <1>1 DEF Offset
<1>3. Len(buffer[p]) < want[p] /\ o < size /\ b # -1
  BY DEF ReadBlock
<1>4. /\ o \div BlockSize \in Nat /\ o % BlockSize \in 0..BlockSize - 1
      /\ o = (o \div BlockSize) * BlockSize + (o % BlockSize)
  <2> HIDE DEF o
  <2> QED
    BY <1>1, <1>2, DivMod
<1>5. b = o \div BlockSize
  <2>1. o \div BlockSize \in Nat
    BY <1>4
  <2> HIDE DEF o
  <2> QED
    BY <2>1, <1>3, BlockIsItsIndex
<1>6. b * BlockSize + (o % BlockSize) = o
  BY <1>4, <1>5
<1>7. n \in Nat /\ Len(buffer[p]) + n <= want[p] /\ o + n <= size
  <2>1. n = Least(BlockSize - (o % BlockSize), Least(want[p] - Len(buffer[p]), size - o))
    BY DEF ActualN
  <2>2. o % BlockSize \in 0..BlockSize - 1
    BY <1>4
  <2> DEFINE m == o % BlockSize
  <2> HIDE DEF n, o, m, b
  <2>3. n = Least(BlockSize - m, Least(want[p] - Len(buffer[p]), size - o)) /\ m \in 0..BlockSize - 1
    BY <2>1, <2>2 DEF m
  <2>4. Len(buffer[p]) < want[p] /\ o < size
    BY <1>3
  <2>5. \A x, y, z \in Nat : LET l == Least(x, Least(y, z)) IN l \in Nat /\ l <= y /\ l <= z
    BY DEF Least
  <2>6. BlockSize - m \in Nat /\ want[p] - Len(buffer[p]) \in Nat /\ size - o \in Nat
    BY <2>3, <2>4, <1>1, <1>2
  <2>7. n \in Nat /\ n <= want[p] - Len(buffer[p]) /\ n <= size - o
    BY <2>3, <2>5, <2>6
  <2> QED
    BY <2>7, <1>1, <1>2
<1>8. part = [i \in 1..n |-> o + i - 1]
  <2> HIDE DEF n, o, b
  <2> QED
    BY <1>6
<1>9. buffer' = [buffer EXCEPT ![p] = @ \o part]
  BY DEF ReadBlock
<1> HIDE DEF o, b, n, part
<1>10. part \in Seq(Nat) /\ Len(part) = n /\ \A i \in 1..n : part[i] = o + i - 1
  BY <1>8, <1>7, <1>2
<1>11. /\ buffer'[p] = buffer[p] \o part
       /\ \A q \in Process : q # p => buffer'[q] = buffer[q]
       /\ buffer' \in [Process -> Seq(Nat)]
  BY <1>9, <1>10, <1>1
<1>12. Len(buffer'[p]) = Len(buffer[p]) + n /\ buffer'[p] \in Seq(Nat)
  <2>1. \A s, t \in Seq(Nat) : Len(s \o t) = Len(s) + Len(t) /\ s \o t \in Seq(Nat)
    OBVIOUS
  <2> QED
    BY <2>1, <1>11, <1>10, <1>1
<1>13. \A i \in 1..Len(buffer'[p]) : buffer'[p][i] = at[p] + i - 1
  <2> TAKE i \in 1..Len(buffer'[p])
  <2>1. CASE i <= Len(buffer[p])
    <3>1. buffer'[p][i] = buffer[p][i]
      BY <2>1, <1>11, <1>10, <1>1, <1>12
    <3>2. buffer[p] = FileBytes(at[p], Len(buffer[p]))
      BY DEF ReadInv
    <3> QED
      BY <3>1, <3>2, <2>1, <1>1 DEF FileBytes
  <2>2. CASE i > Len(buffer[p])
    <3>1. buffer'[p][i] = part[i - Len(buffer[p])]
      BY <2>2, <1>11, <1>10, <1>1, <1>12
    <3>2. i - Len(buffer[p]) \in 1..n
      BY <2>2, <1>12, <1>7, <1>1
    <3> QED
      BY <3>1, <3>2, <1>10, <1>2, <1>1
  <2> QED
    BY <2>1, <2>2, <1>1
<1>14. buffer'[p] = FileBytes(at[p], Len(buffer'[p]))
  <2>1. buffer'[p] = [i \in 1..Len(buffer'[p]) |-> buffer'[p][i]]
    BY <1>12
  <2> QED
    BY <2>1, <1>13 DEF FileBytes
<1>15. UNCHANGED <<size, myOffset, pc, at, want, result, sum>>
  BY DEF ReadBlock
<1> QED
  <2>1. \A q \in Process :
          /\ buffer'[q] = FileBytes(at'[q], Len(buffer'[q]))
          /\ Len(buffer'[q]) <= want'[q]
          /\ buffer'[q] = <<>> \/ at'[q] + Len(buffer'[q]) <= size'
    <3> TAKE q \in Process
    <3>1. CASE q = p
      BY <3>1, <1>14, <1>12, <1>7, <1>15, <1>2, <1>1
    <3>2. CASE q # p
      BY <3>2, <1>11, <1>15 DEF ReadInv
    <3> QED
      BY <3>1, <3>2
  <2> QED
    BY <2>1, <1>11, <1>15 DEF ReadInv

LEMMA ReadKeeps ==
    ASSUME ReadInv, [Next]_vars
    PROVE  ReadInv'
<1> USE OpenFileAssumption
<1>1. ASSUME NEW p \in Process, NEW a \in 0..MaxArg, Seek(p, a)
      PROVE  ReadInv'
  BY <1>1 DEF ReadInv, Seek
<1>2. ASSUME NEW p \in Process, NEW a \in 0..MaxArg, Read(p, a)
      PROVE  ReadInv'
  <2>1. <<>> = FileBytes(myOffset, 0) /\ <<>> \in Seq(Nat) /\ Len(<<>>) = 0
    BY DEF FileBytes
  <2>2. \A q \in Process :
          /\ buffer'[q] = IF q = p THEN <<>> ELSE buffer[q]
          /\ at'[q] = IF q = p THEN myOffset ELSE at[q]
          /\ want'[q] = IF q = p THEN a ELSE want[q]
    BY <1>2 DEF Read, ReadInv
  <2>3. \A q \in Process :
          /\ buffer'[q] = FileBytes(at'[q], Len(buffer'[q]))
          /\ Len(buffer'[q]) <= want'[q]
          /\ buffer'[q] = <<>> \/ at'[q] + Len(buffer'[q]) <= size
    <3> TAKE q \in Process
    <3>1. CASE q = p
      BY <3>1, <2>1, <2>2
    <3>2. CASE q # p
      BY <3>2, <2>2 DEF ReadInv
    <3> QED
      BY <3>1, <3>2
  <2> QED
    BY <1>2, <2>3, <2>1 DEF ReadInv, Read
<1>3. ASSUME NEW p \in Process, ReadBlock(p)
      PROVE  ReadInv'
  BY <1>3, ReadBlockKeeps
<1>4. ASSUME NEW p \in Process, Panic(p)
      PROVE  ReadInv'
  BY <1>4 DEF ReadInv, Panic
<1>5. ASSUME NEW p \in Process, ReadAllReturns(p)
      PROVE  ReadInv'
  <2> DEFINE r == IF Offset(p) > size THEN -1 ELSE Len(buffer[p])
  <2>1. r \in Int
    BY DEF ReadInv
  <2>2. (myOffset + r) % Word \in Nat
    <3> HIDE DEF r
    <3> QED
      BY <2>1 DEF ReadInv
  <2>3. result' = [result EXCEPT ![p] = r] /\ sum' = [sum EXCEPT ![p] = (myOffset + r) % Word]
    BY <1>5 DEF ReadAllReturns
  <2>4. pc' = [pc EXCEPT ![p] = "store"] /\ UNCHANGED <<size, myOffset, at, want, buffer>>
    BY <1>5 DEF ReadAllReturns
  <2> HIDE DEF r
  <2> QED
    BY <2>1, <2>2, <2>3, <2>4 DEF ReadInv
<1>6. ASSUME NEW p \in Process, Store(p)
      PROVE  ReadInv'
  BY <1>6 DEF ReadInv, Store
<1>7. CASE UNCHANGED vars
  BY <1>7 DEF ReadInv, vars
<1> QED
  BY <1>1, <1>2, <1>3, <1>4, <1>5, <1>6, <1>7 DEF Next

-----------------------------------------------------------------------------

(* The file is nobody else's.                                              *)
Alone == \A p, q \in Process : p = q

(* Then the offset is where the read began, until the sum is stored.       *)
OffsetInv ==
    /\ myOffset <= size
    /\ \A p \in Process :
          /\ at[p] <= size
          /\ pc[p] \in {"loop", "store"} => myOffset = at[p]
          /\ pc[p] = "store" => sum[p] = at[p] + Len(buffer[p])
          /\ pc[p] \in {"store", "returned"} =>
                Len(buffer[p]) = Least(want[p], size - at[p])
          /\ pc[p] = "returned" => myOffset = at[p] + Len(buffer[p])

LEMMA OffsetInitially == Init => OffsetInv
BY OpenFileAssumption DEF Init, OffsetInv

LEMMA OffsetKeeps ==
    ASSUME Alone, ReadInv, OffsetInv, [Next]_vars
    PROVE  OffsetInv'
<1> USE OpenFileAssumption
<1>1. ASSUME NEW p \in Process, NEW a \in 0..MaxArg, Seek(p, a)
      PROVE  OffsetInv'
  BY <1>1 DEF ReadInv, OffsetInv, Seek, Alone
<1>2. ASSUME NEW p \in Process, NEW a \in 0..MaxArg, Read(p, a)
      PROVE  OffsetInv'
  BY <1>2 DEF ReadInv, OffsetInv, Read, Alone
<1>3. ASSUME NEW p \in Process, ReadBlock(p)
      PROVE  OffsetInv'
  BY <1>3 DEF ReadInv, OffsetInv, ReadBlock, Alone
<1>4. ASSUME NEW p \in Process, Panic(p)
      PROVE  OffsetInv'
  BY <1>4 DEF ReadInv, OffsetInv, Panic, Alone
<1>5. ASSUME NEW p \in Process, ReadAllReturns(p)
      PROVE  OffsetInv'
  <2>1. /\ at[p] \in Nat /\ size \in 0..MaxSize /\ want[p] \in Nat
        /\ Len(buffer[p]) \in Nat /\ Len(buffer[p]) <= want[p]
        /\ at[p] <= size /\ myOffset = at[p]
        /\ buffer[p] = <<>> \/ at[p] + Len(buffer[p]) <= size
    BY <1>5 DEF ReadInv, OffsetInv, ReadAllReturns
  <2>2. at[p] + Len(buffer[p]) <= size
    BY <2>1
  <2>3. sum'[p] = (at[p] + Len(buffer[p])) % Word
    BY <1>5, <2>1, <2>2 DEF ReadAllReturns, ReadInv, Offset
  <2>4. at[p] + Len(buffer[p]) \in 0..Word - 1
    BY <2>1, <2>2
  <2>5. \A x \in 0..Word - 1 : x % Word = x
    OBVIOUS
  <2>6. sum'[p] = at[p] + Len(buffer[p])
    BY <2>3, <2>4, <2>5
  <2>7. Len(buffer[p]) = Least(want[p], size - at[p])
    BY <1>5, <2>1, <2>2 DEF ReadAllReturns, Offset, Least
  <2> QED
    BY <1>5, <2>1, <2>6, <2>7 DEF OffsetInv, ReadAllReturns, Alone, ReadInv
<1>6. ASSUME NEW p \in Process, Store(p)
      PROVE  OffsetInv'
  <2>1. /\ Len(buffer[p]) = Least(want[p], size - at[p]) /\ sum[p] = at[p] + Len(buffer[p])
        /\ at[p] \in Nat /\ size \in Nat /\ want[p] \in Nat /\ at[p] <= size
        /\ pc[p] = "store" /\ pc' = [pc EXCEPT ![p] = "returned"]
        /\ myOffset' = sum[p] /\ UNCHANGED <<size, at, want, buffer, sum>>
    BY <1>6 DEF OffsetInv, ReadInv, Store
  <2>2. sum[p] <= size
    BY <2>1 DEF Least
  <2> QED
    BY <2>1, <2>2 DEF OffsetInv, Alone, ReadInv
<1>7. CASE UNCHANGED vars
  BY <1>7 DEF OffsetInv, vars
<1> QED
  BY <1>1, <1>2, <1>3, <1>4, <1>5, <1>6, <1>7 DEF Next

LEMMA ReadsImplied ==
    ASSUME ReadInv, OffsetInv
    PROVE  ReadsTheFile
BY DEF ReadInv, OffsetInv, ReadsTheFile, OffsetInBounds, FileBytes
-----------------------------------------------------------------------------
(* Pathnames                                                               *)

Values == Number \cup {0, None}

(* An i-node is found by its number.                                       *)
LEMMA DiskHolds ==
    ASSUME NEW n \in Number
    PROVE  /\ n \in Nat \ {0}
           /\ GetNode(n).number = n
           /\ INode(n) = GetNode(n)
           /\ NodeOffset(n) \in DOMAIN Disk
<1>1. PICK o \in DOMAIN Disk : Disk[o].number = n
  BY DEF Number
<1>2. \A q \in DOMAIN Disk : q = NodeOffset(Disk[q].number) /\ Disk[q].number \in Nat \ {0}
  BY DiskAssumption
<1>3. \A q \in DOMAIN Disk : Disk[q].number = n => q = NodeOffset(n)
  BY <1>2
<1>4. o = NodeOffset(n)
  BY <1>1, <1>3
<1>5. (CHOOSE q \in DOMAIN Disk : Disk[q].number = n) = NodeOffset(n)
  <2>1. \E q \in DOMAIN Disk : Disk[q].number = n
    BY <1>1
  <2> QED
    BY <2>1, <1>3
<1> QED
  BY <1>1, <1>2, <1>4, <1>5 DEF GetNode, INode

LEMMA KindsOfNodes ==
    ASSUME NEW n \in Number
    PROVE  /\ INode(n).kind \in {"dir", "file", "link"}
           /\ INode(n).kind = "dir" => IsDir(INode(n))
           /\ INode(n).kind = "link" => INode(n).target \in Seq(STRING)
           /\ INode(n).kind = "file" => INode(n).segments \in Seq(STRING)
<1>1. INode(n) = Disk[NodeOffset(n)] /\ NodeOffset(n) \in DOMAIN Disk
  BY DiskHolds DEF GetNode
<1> QED
  BY <1>1, DiskAssumption

(* One step of find is one step of the walk along the path, and stays on   *)
(* the disk.                                                               *)
LEMMA EntryIsUnder ==
    ASSUME NEW n \in Number, INode(n).kind = "dir", NEW part
    PROVE  /\ Under(n, part) = EntryNumber(INode(n), part)
           /\ Under(n, part) \in Number \cup {0}
<1> DEFINE E == INode(n).entries
           M == {j \in DOMAIN E : E[j][1] = part}
           S == {E[i][2] : i \in M}
<1>1. n \notin {0, None}
  BY DiskHolds, FilesAssumption
<1>2. Under(n, part) = IF S = {} THEN 0 ELSE CHOOSE x \in S : TRUE
  BY <1>1 DEF Under
<1>3. EntryNumber(INode(n), part) =
         IF M = {} THEN 0 ELSE E[CHOOSE i \in M : \A j \in M : j <= i][2]
  BY DEF EntryNumber
<1>4. /\ DOMAIN E \subseteq Nat
      /\ \A j, k \in DOMAIN E : E[j][1] = E[k][1] => j = k
      /\ \A k \in DOMAIN E : E[k][2] \in Number
  BY KindsOfNodes DEF IsDir
<1>5. CASE M = {}
  BY <1>5, <1>2, <1>3
<1>6. CASE M # {}
  <2>1. PICK i \in M : TRUE
    BY <1>6
  <2>2. M = {i}
    BY <2>1, <1>4
  <2>3. S = {E[i][2]}
    BY <2>2
  <2>4. (CHOOSE x \in S : TRUE) = E[i][2]
    BY <2>3
  <2>5. (CHOOSE k \in M : \A j \in M : j <= k) = i
    <3>1. i <= i
      BY <2>1, <1>4
    <3> HIDE DEF M
    <3> QED
      BY <2>2, <3>1
  <2>6. Under(n, part) = E[i][2]
    <3>1. S # {}
      BY <2>3
    <3> HIDE DEF S, M, E
    <3> QED
      BY <3>1, <2>4, <1>2
  <2>7. EntryNumber(INode(n), part) = E[i][2]
    <3> HIDE DEF S, M, E
    <3> QED
      BY <1>6, <2>5, <1>3
  <2>8. E[i][2] \in Number
    BY <2>1, <1>4
  <2> QED
    BY <2>6, <2>7, <2>8
<1> QED
  BY <1>5, <1>6

LEMMA UnderValues ==
    ASSUME NEW d \in Values, NEW part
    PROVE  Under(d, part) \in Values
<1>1. CASE d \in {0, None}
  BY <1>1 DEF Under, Values
<1>2. CASE d \notin {0, None} /\ INode(d).kind # "dir"
  <2>1. d \in Number
    BY <1>2 DEF Values
  <2>2. Under(d, part) = None
    BY <1>2, <2>1 DEF Under
  <2> QED
    BY <2>2 DEF Values
<1>3. CASE d \notin {0, None} /\ INode(d).kind = "dir"
  BY <1>3, EntryIsUnder DEF Values
<1> QED
  BY <1>1, <1>2, <1>3

(* The i-nodes along a path.                                               *)
Walk(path) ==
    LET walk[k \in 0..Len(path)] ==
            IF k = 0 THEN Root ELSE Under(walk[k - 1], path[k])
    IN  walk

LEMMA WalkIs ==
    ASSUME NEW path \in Seq(STRING)
    PROVE  /\ Walk(path) \in [0..Len(path) -> Values]
           /\ Walk(path)[0] = Root
           /\ \A k \in 1..Len(path) : Walk(path)[k] = Under(Walk(path)[k - 1], path[k])
           /\ Named(path) = Walk(path)[Len(path)]
<1> DEFINE Defines(w) ==
             w = [k \in 0..Len(path) |->
                    IF k = 0 THEN Root ELSE Under(w[k - 1], path[k])]
           f == [x \in Values \X Nat |-> Under(x[1], path[x[2]])]
<1>1. Len(path) \in Nat
  OBVIOUS
<1>2. Root \in Values
  BY DiskAssumption DEF Values
<1>3. f \in [Values \X Nat -> Values]
  BY UnderValues
<1>4. \A d \in Values, k \in Nat : f[<<d, k>>] = Under(d, path[k])
  OBVIOUS
<1> HIDE DEF f
<1>5. PICK g : Defined(g, Values, Root, f)
  BY <1>2, <1>3, Recursion
<1>6. g[0] = Root /\ \A k \in Nat \ {0} : g[k] = Under(g[k - 1], path[k])
  <2>1. \A k \in Nat \ {0} : g[k - 1] \in Values
    BY <1>5 DEF Defined
  <2> QED
    BY <2>1, <1>4, <1>5 DEF Defined
<1> DEFINE w0 == [k \in 0..Len(path) |-> g[k]]
<1>7. \A k \in 0..Len(path) : w0[k] = IF k = 0 THEN Root ELSE Under(w0[k - 1], path[k])
  <2> TAKE k \in 0..Len(path)
  <2>1. CASE k = 0
    BY <2>1, <1>6
  <2>2. CASE k # 0
    <3>1. w0[k] = g[k] /\ w0[k - 1] = g[k - 1] /\ g[k] = Under(g[k - 1], path[k])
      BY <2>2, <1>6, <1>1
    <3>2. Under(w0[k - 1], path[k]) = Under(g[k - 1], path[k])
      BY <3>1
    <3> HIDE DEF w0
    <3> QED
      BY <3>1, <3>2, <2>2
  <2> QED
    BY <2>1, <2>2
<1>8. Defines(w0)
  BY <1>7
<1> HIDE DEF w0
<1>9. Walk(path) = CHOOSE w : Defines(w)
  BY DEF Walk
<1> HIDE DEF Defines
<1>10. Defines(Walk(path))
  BY <1>8, <1>9
<1> DEFINE W == Walk(path)
<1>11. W = [k \in 0..Len(path) |-> IF k = 0 THEN Root ELSE Under(W[k - 1], path[k])]
  BY <1>10 DEF Defines
<1> HIDE DEF W
<1>12. DOMAIN W = 0..Len(path) /\ W[0] = Root
  BY <1>11, <1>1
<1>13. \A k \in 1..Len(path) : W[k] = Under(W[k - 1], path[k])
  BY <1>11, <1>1
<1>14. \A k \in 0..Len(path) : W[k] \in Values
  <2> DEFINE T == {k \in Nat : k <= Len(path) => W[k] \in Values}
  <2>1. 0 \in T
    BY <1>12, <1>2
  <2>2. ASSUME NEW k \in Nat, k \in T
        PROVE  k + 1 \in T
    <3>1. CASE k + 1 <= Len(path)
      <4>1. W[k] \in Values /\ k + 1 \in 1..Len(path) /\ (k + 1) - 1 = k
        BY <2>2, <3>1, <1>1
      <4>2. W[k + 1] = Under(W[k], path[k + 1])
        BY <4>1, <1>13
      <4> QED
        BY <4>1, <4>2, UnderValues
    <3>2. CASE ~(k + 1 <= Len(path))
      BY <3>2
    <3> QED
      BY <3>1, <3>2
  <2> HIDE DEF T
  <2>3. Nat \subseteq T
    BY <2>1, <2>2, AllNumbers
  <2> QED
    BY <2>3, <1>1 DEF T
<1>15. W \in [0..Len(path) -> Values]
  <2>1. W = [k \in 0..Len(path) |-> W[k]]
    BY <1>11
  <2> QED
    BY <2>1, <1>14
<1>16. Named(path) = W[Len(path)]
  BY DEF Named, Walk, W
<1> QED
  BY <1>12, <1>13, <1>15, <1>16 DEF W

(* Behind a part that is not there, there is nothing.                      *)
LEMMA NothingBehind ==
    ASSUME NEW path \in Seq(STRING), NEW i \in 0..Len(path), Walk(path)[i] = 0
    PROVE  Named(path) = 0
<1> DEFINE T == {k \in Nat : i + k <= Len(path) => Walk(path)[i + k] = 0}
<1>0. Len(path) \in Nat /\ i \in Nat
  OBVIOUS
<1>6. /\ Walk(path) \in [0..Len(path) -> Values]
      /\ Walk(path)[0] = Root
      /\ \A k \in 1..Len(path) : Walk(path)[k] = Under(Walk(path)[k - 1], path[k])
      /\ Named(path) = Walk(path)[Len(path)]
  BY WalkIs
<1>1. 0 \in T
  BY <1>0
<1>2. ASSUME NEW k \in Nat, k \in T
      PROVE  k + 1 \in T
  <2>1. CASE i + (k + 1) <= Len(path)
    <3>1. Walk(path)[i + k] = 0 /\ i + (k + 1) \in 1..Len(path) /\ (i + (k + 1)) - 1 = i + k
      BY <1>0, <1>2, <2>1
    <3>2. \A j \in 1..Len(path) : Walk(path)[j] = Under(Walk(path)[j - 1], path[j])
      BY <1>6
    <3>3. Under(0, path[i + (k + 1)]) = 0
      BY DiskHolds DEF Under
    <3>4. Walk(path)[i + (k + 1)] = Under(Walk(path)[(i + (k + 1)) - 1], path[i + (k + 1)])
      BY <3>1, <3>2
    <3> QED
      BY <3>1, <3>3, <3>4
  <2>2. CASE ~(i + (k + 1) <= Len(path))
    BY <2>2
  <2> QED
    BY <2>1, <2>2
<1> HIDE DEF T
<1>3. Nat \subseteq T
  BY <1>1, <1>2, AllNumbers
<1>4. Len(path) - i \in T /\ i + (Len(path) - i) = Len(path)
  BY <1>3, <1>0
<1>5. Walk(path)[Len(path)] = 0
  BY <1>4, <1>0 DEF T
<1> QED
  BY <1>5, <1>6

-----------------------------------------------------------------------------
(* Links                                                                   *)

LEMMA NumbersAreFinite == IsFiniteSet(Number) /\ Cardinality(Number) \in Nat
<1> DEFINE f == [o \in DOMAIN Disk |-> Disk[o].number]
<1>1. f \in Surjection(DOMAIN Disk, Number)
  BY DEF Surjection, Number
<1> HIDE DEF f
<1>2. IsFiniteSet(DOMAIN Disk)
  BY DiskAssumption
<1>3. IsFiniteSet(Number)
  BY <1>1, <1>2, FS_Surjection
<1> QED
  BY <1>3, FS_CardinalityType

LEMMA FollowedValues ==
    ASSUME NEW n \in Values
    PROVE  Followed(n) \in Values
<1>1. CASE IsLink(n)
  <2>1. INode(n).target \in Seq(STRING)
    BY <1>1, KindsOfNodes DEF IsLink
  <2>2. Walk(INode(n).target) \in [0..Len(INode(n).target) -> Values]
    BY <2>1, WalkIs
  <2>3. Named(INode(n).target) = Walk(INode(n).target)[Len(INode(n).target)]
    BY <2>1, WalkIs
  <2>4. Len(INode(n).target) \in 0..Len(INode(n).target)
    BY <2>1
  <2> QED
    BY <1>1, <2>2, <2>3, <2>4 DEF Followed
<1>2. CASE ~IsLink(n)
  BY <1>2 DEF Followed
<1> QED
  BY <1>1, <1>2

(* The i-nodes that links lead to from a pathname on.                      *)
Hop(path) ==
    LET hop[k \in Nat] == IF k = 0 THEN Named(path) ELSE Followed(hop[k - 1])
    IN  hop

LEMMA HopIs ==
    ASSUME NEW path \in Seq(STRING)
    PROVE  /\ Hop(path)[0] = Named(path)
           /\ \A k \in Nat \ {0} : Hop(path)[k] = Followed(Hop(path)[k - 1])
           /\ Hop(path) \in [Nat -> Values]
<1> DEFINE Defines(w) ==
             w = [k \in Nat |-> IF k = 0 THEN Named(path) ELSE Followed(w[k - 1])]
           f == [x \in Values \X Nat |-> Followed(x[1])]
<1>1. Named(path) \in Values
  <2>1. Walk(path) \in [0..Len(path) -> Values]
    BY WalkIs
  <2>2. Named(path) = Walk(path)[Len(path)]
    BY WalkIs
  <2>3. Len(path) \in 0..Len(path)
    OBVIOUS
  <2> QED
    BY <2>1, <2>2, <2>3
<1>2. f \in [Values \X Nat -> Values]
  BY FollowedValues
<1>3. \A d \in Values, k \in Nat : f[<<d, k>>] = Followed(d)
  OBVIOUS
<1> HIDE DEF f
<1>4. PICK g : Defined(g, Values, Named(path), f)
  BY <1>1, <1>2, Recursion
<1>5. \A k \in Nat \ {0} : g[k - 1] \in Values
  BY <1>4 DEF Defined
<1>6. \A k \in Nat \ {0} : g[k] = Followed(g[k - 1])
  BY <1>3, <1>4, <1>5 DEF Defined
<1>7. \A k \in Nat : g[k] = IF k = 0 THEN Named(path) ELSE Followed(g[k - 1])
  BY <1>4, <1>6 DEF Defined
<1>8. Defines(g)
  BY <1>4, <1>7 DEF Defined
<1>9. Hop(path) = CHOOSE w : Defines(w)
  BY DEF Hop
<1> HIDE DEF Defines
<1>10. Defines(Hop(path))
  BY <1>8, <1>9
<1> DEFINE H == Hop(path)
<1>11. H = [k \in Nat |-> IF k = 0 THEN Named(path) ELSE Followed(H[k - 1])]
  BY <1>10 DEF Defines
<1> HIDE DEF H
<1>12. H[0] = Named(path) /\ \A k \in Nat \ {0} : H[k] = Followed(H[k - 1])
  BY <1>11
<1>13. \A k \in Nat : H[k] \in Values
  <2> DEFINE T == {k \in Nat : H[k] \in Values}
  <2>1. 0 \in T
    BY <1>1, <1>12
  <2>2. ASSUME NEW k \in Nat, k \in T
        PROVE  k + 1 \in T
    <3>1. k + 1 \in Nat \ {0} /\ (k + 1) - 1 = k /\ H[k] \in Values
      BY <2>2
    <3>2. H[k + 1] = Followed(H[k])
      BY <3>1, <1>12
    <3> QED
      BY <3>1, <3>2, FollowedValues
  <2> HIDE DEF T
  <2>3. Nat \subseteq T
    BY <2>1, <2>2, AllNumbers
  <2> QED
    BY <2>3 DEF T
<1>14. H = [k \in Nat |-> H[k]]
  BY <1>11
<1> QED
  BY <1>12, <1>13, <1>14 DEF H

LEMMA ResolvedIs ==
    ASSUME NEW path \in Seq(STRING)
    PROVE  Resolved(path) = Hop(path)[Cardinality(Number)]
<1> DEFINE C == Cardinality(Number)
           H == Hop(path)
           Defines(w) ==
             w = [k \in 0..C |-> IF k = 0 THEN Named(path) ELSE Followed(w[k - 1])]
           w0 == [k \in 0..C |-> H[k]]
<1>0. C \in Nat
  BY NumbersAreFinite
<1>1. H[0] = Named(path) /\ \A k \in Nat \ {0} : H[k] = Followed(H[k - 1])
  BY HopIs
<1> DEFINE W == CHOOSE w : Defines(w)
<1>2. Resolved(path) = W[C]
  BY DEF Resolved
<1> HIDE DEF C, H
<1>3. \A k \in 0..C : w0[k] = IF k = 0 THEN Named(path) ELSE Followed(w0[k - 1])
  <2> TAKE k \in 0..C
  <2>1. CASE k = 0
    BY <2>1, <1>1
  <2>2. CASE k # 0
    <3>1. w0[k] = H[k] /\ w0[k - 1] = H[k - 1] /\ H[k] = Followed(H[k - 1])
      BY <2>2, <1>0, <1>1
    <3>2. Followed(w0[k - 1]) = Followed(H[k - 1])
      BY <3>1
    <3> HIDE DEF w0
    <3> QED
      BY <3>1, <3>2, <2>2
  <2> QED
    BY <2>1, <2>2
<1>4. Defines(w0)
  BY <1>3
<1> HIDE DEF w0
<1>5. Defines(W)
  <2> HIDE DEF Defines
  <2> QED
    BY <1>4
<1> HIDE DEF W
<1>6. W[0] = Named(path) /\ \A k \in 1..C : W[k] = Followed(W[k - 1])
  BY <1>0, <1>5
<1> DEFINE T == {k \in Nat : k <= C => W[k] = H[k]}
<1>7. 0 \in T
  BY <1>1, <1>6
<1>8. ASSUME NEW k \in Nat, k \in T
      PROVE  k + 1 \in T
  <2>1. CASE k + 1 <= C
    <3>1. W[k] = H[k] /\ k + 1 \in 1..C /\ k + 1 \in Nat \ {0} /\ (k + 1) - 1 = k
      BY <1>0, <1>8, <2>1
    <3>2. W[k + 1] = Followed(W[k]) /\ H[k + 1] = Followed(H[k])
      BY <3>1, <1>1, <1>6
    <3>3. Followed(W[k]) = Followed(H[k])
      BY <3>1
    <3> QED
      BY <3>2, <3>3
  <2>2. CASE ~(k + 1 <= C)
    BY <2>2
  <2> QED
    BY <2>1, <2>2
<1> HIDE DEF T
<1>9. Nat \subseteq T
  BY <1>7, <1>8, AllNumbers
<1>10. W[C] = H[C]
  BY <1>9, <1>0 DEF T
<1> QED
  BY <1>2, <1>10 DEF C, H

(* Where following links ends, it ends after no more hops than there are   *)
(* i-nodes: up to there no link is met twice, or it would not end.         *)
LEMMA LinksEnd ==
    ASSUME NEW path \in Seq(STRING), NEW h \in Nat, ~IsLink(Hop(path)[h])
    PROVE  Resolved(path) = Hop(path)[h]
<1> DEFINE C == Cardinality(Number)
           H == Hop(path)
<1>0. C \in Nat /\ IsFiniteSet(Number)
  BY NumbersAreFinite
<1>1. \A k \in Nat \ {0} : H[k] = Followed(H[k - 1])
  BY HopIs
<1>2. ~IsLink(H[h])
  OBVIOUS
<1>3. Resolved(path) = H[C]
  BY ResolvedIs
<1>4. C = Cardinality(Number)
  OBVIOUS
<1> HIDE DEF C, H
<1> DEFINE E == {k \in Nat : ~IsLink(H[k])}
<1>5. PICK m \in E : \A k \in E : m <= k
  <2>1. E # {} /\ E \subseteq Nat
    BY <1>2
  <2> HIDE DEF E
  <2> QED
    BY <2>1, LeastNumber
<1>6. m \in Nat /\ ~IsLink(H[m]) /\ \A k \in 0..m - 1 : IsLink(H[k])
  BY <1>5
<1>7. \A k \in Nat : H[m + k] = H[m]
  <2> DEFINE T == {k \in Nat : H[m + k] = H[m]}
  <2>1. 0 \in T
    BY <1>6
  <2>2. ASSUME NEW k \in Nat, k \in T
        PROVE  k + 1 \in T
    <3>1. H[m + k] = H[m] /\ m + (k + 1) \in Nat \ {0} /\ (m + (k + 1)) - 1 = m + k
      BY <2>2, <1>6
    <3>2. H[m + (k + 1)] = Followed(H[m + k])
      BY <3>1, <1>1
    <3>3. Followed(H[m + k]) = H[m + k]
      BY <3>1, <1>6 DEF Followed
    <3> QED
      BY <3>1, <3>2, <3>3
  <2> HIDE DEF T
  <2>3. Nat \subseteq T
    BY <2>1, <2>2, AllNumbers
  <2> QED
    BY <2>3 DEF T
<1>8. m <= C
  <2> SUFFICES ASSUME m > C PROVE FALSE
    BY <1>0, <1>6
  <2> DEFINE f == [k \in 0..C |-> H[k]]
  <2>1. f \in [0..C -> Number]
    BY <1>0, <1>6 DEF IsLink
  <2>2. IsFiniteSet(0..C) /\ Cardinality(0..C) = C + 1
    BY <1>0, FS_Interval
  <2>3. \E x, y \in 0..C : x # y /\ f[x] = f[y]
    <3> HIDE DEF f
    <3> QED
      BY <1>0, <1>4, <2>1, <2>2, FS_PigeonHole
  <2>4. PICK i \in 0..C, j \in 0..C : i < j /\ H[i] = H[j]
    BY <2>3, <1>0
  <2>5. \A k \in Nat : H[i + k] = H[j + k]
    <3> DEFINE T == {k \in Nat : H[i + k] = H[j + k]}
    <3>1. 0 \in T
      BY <2>4, <1>0
    <3>2. ASSUME NEW k \in Nat, k \in T
          PROVE  k + 1 \in T
      <4>1. /\ H[i + k] = H[j + k]
            /\ i + (k + 1) \in Nat \ {0} /\ (i + (k + 1)) - 1 = i + k
            /\ j + (k + 1) \in Nat \ {0} /\ (j + (k + 1)) - 1 = j + k
        BY <3>2, <1>0
      <4>2. H[i + (k + 1)] = Followed(H[i + k]) /\ H[j + (k + 1)] = Followed(H[j + k])
        BY <4>1, <1>1
      <4>3. Followed(H[i + k]) = Followed(H[j + k])
        BY <4>1
      <4> QED
        BY <4>2, <4>3
    <3> HIDE DEF T
    <3>3. Nat \subseteq T
      BY <3>1, <3>2, AllNumbers
    <3> QED
      BY <3>3 DEF T
  <2>6. m - j \in Nat /\ j + (m - j) = m /\ i + (m - j) \in 0..m - 1
    BY <2>4, <1>0, <1>6
  <2>7. H[i + (m - j)] = H[m]
    BY <2>5, <2>6
  <2> QED
    BY <2>6, <2>7, <1>6
<1>9. H[C] = H[m]
  <2>1. C - m \in Nat /\ m + (C - m) = C
    BY <1>0, <1>6, <1>8
  <2> QED
    BY <2>1, <1>7
<1>10. H[h] = H[m]
  <2>1. h - m \in Nat /\ m + (h - m) = h
    BY <1>2, <1>5, <1>6
  <2> QED
    BY <2>1, <1>7
<1> QED
  BY <1>3, <1>9, <1>10 DEF H

-----------------------------------------------------------------------------
(* open and find                                                           *)

Phase == {"user", "find", "clear", "push", "load", "started", "panic", "ended"}

(* The phases after exec has accepted a file.                              *)
Loading == {"clear", "push", "load", "started"}

LookupType ==
    /\ phase \in Phase
    /\ call \in {"open", "link", "exec", None}
    /\ name \in Seq(STRING)
    /\ rest \in Seq(STRING)
    /\ node \in Number \cup {0}
    /\ opened \in Number \cup {None}

(* find is somewhere along the path p.                                     *)
Along(p) ==
    \E k \in 0..Len(p) :
       /\ node = Walk(p)[k]
       /\ Len(rest) = Len(p) - k
       /\ \A j \in 1..Len(rest) : rest[j] = p[k + j]

(* What find looks for: the name the program gave, or the target of a link *)
(* that links lead to from there.                                          *)
FindInv ==
    /\ phase = "user" => call = None
    /\ phase # "user" => opened = None
    /\ phase = "find" =>
          \/ call \in {"open", "exec"} /\ Along(name)
          \/ /\ call = "link"
             /\ \E h \in Nat : /\ IsLink(Hop(name)[h])
                               /\ Along(INode(Hop(name)[h]).target)

(* exec goes on with the file that was named, and leaves the memory alone  *)
(* until it has the arguments.                                             *)
ExecInv ==
    /\ phase \in {"user", "find", "clear"} => mem = None
    /\ phase \in {"user", "find", "clear", "push"} => loaded = 0
    /\ phase \in Loading =>
          /\ node \in Number /\ INode(node).kind = "file"
          /\ node = Named(name)
          /\ Executable
    /\ phase = "load" => loaded \in 0..Len(GetNode(node).segments)
    /\ phase = "started" => /\ entry = GetNode(node).entry
                            /\ loaded = Len(GetNode(node).segments)

LEMMA RootIsHere == Root \in Number /\ Root \in Number \cup {0}
BY DiskAssumption

LEMMA NoneIsNone == None \notin Int /\ None \notin {"open", "link", "exec"} /\ None # 0
BY FilesAssumption

(* The number of an i-node tells whether it is one.                        *)
LEMMA NodeIs ==
    ASSUME node \in Number \cup {0}, NEW k, Is(k)
    PROVE  /\ node \in Number /\ node # 0
           /\ INode(node) = GetNode(node)
           /\ INode(node).kind = k
BY DiskHolds DEF Is

(* A search that begins is at the beginning of its path.                   *)
LEMMA SearchBegins ==
    ASSUME NEW what, NEW p \in Seq(STRING), StartFind(what, p)
    PROVE  Along(p)'
<1>1. Len(p) \in Nat /\ Walk(p)[0] = Root /\ rest' = p /\ node' = Root
  BY WalkIs DEF StartFind
<1>2. /\ node' = Walk(p)[0] /\ Len(rest') = Len(p) - 0
      /\ \A j \in 1..Len(rest') : rest'[j] = p[0 + j]
  BY <1>1
<1>3. 0 \in 0..Len(p)
  BY <1>1
<1> QED
  BY <1>2, <1>3 DEF Along

LEMMA SearchGoesOn ==
    ASSUME LookupType, FindPart, NEW p \in Seq(STRING), Along(p)
    PROVE  Along(p)' /\ rest' \in Seq(STRING) /\ node' \in Number \cup {0}
<1>1. /\ rest # <<>> /\ rest \in Seq(STRING) /\ rest' = Tail(rest)
      /\ node' = EntryNumber(GetNode(node), Head(rest))
      /\ node \in Number /\ INode(node) = GetNode(node) /\ INode(node).kind = "dir"
  BY NodeIs DEF FindPart, Found, LookupType
<1>2. PICK k \in 0..Len(p) :
         /\ node = Walk(p)[k] /\ Len(rest) = Len(p) - k
         /\ \A j \in 1..Len(rest) : rest[j] = p[k + j]
  BY DEF Along
<1>3. /\ Len(p) \in Nat /\ Len(rest) \in Nat \ {0} /\ k + 1 \in 1..Len(p) /\ (k + 1) - 1 = k
      /\ k + 1 \in 0..Len(p)
  BY <1>1, <1>2
<1>4. Head(rest) = p[k + 1]
  BY <1>1, <1>2, <1>3
<1>5. node' = Under(node, p[k + 1]) /\ node' \in Number \cup {0}
  BY <1>1, <1>4, EntryIsUnder
<1>6. \A j \in 1..Len(p) : Walk(p)[j] = Under(Walk(p)[j - 1], p[j])
  BY WalkIs
<1>7. node' = Walk(p)[k + 1]
  BY <1>2, <1>3, <1>5, <1>6
<1>8. /\ rest' \in Seq(STRING) /\ Len(rest') = Len(rest) - 1
      /\ \A j \in 1..Len(rest') : rest'[j] = rest[j + 1]
  BY <1>1
<1>9. Len(rest') = Len(p) - (k + 1)
  BY <1>2, <1>3, <1>8
<1>10. \A j \in 1..Len(rest') : rest'[j] = p[(k + 1) + j]
  <2> TAKE j \in 1..Len(rest')
  <2>1. j + 1 \in 1..Len(rest) /\ k + (j + 1) = (k + 1) + j
    BY <1>8, <1>3, <1>2
  <2>2. rest[j + 1] = p[k + (j + 1)]
    BY <2>1, <1>2
  <2> QED
    BY <2>1, <2>2, <1>8
<1>11. Along(p)'
  BY <1>3, <1>7, <1>9, <1>10 DEF Along
<1> QED
  BY <1>5, <1>8, <1>11

(* A search that has come to its end has found what the path names.        *)
LEMMA SearchEnds ==
    ASSUME LookupType, Found, NEW p \in Seq(STRING), Along(p)
    PROVE  node = Named(p)
<1>1. PICK k \in 0..Len(p) : node = Walk(p)[k] /\ Len(rest) = Len(p) - k
  BY DEF Along
<1>2. CASE node = 0
  <2>1. Walk(p)[k] = 0
    BY <1>1, <1>2
  <2> QED
    BY <2>1, <1>2, NothingBehind
<1>3. CASE rest = <<>>
  <2>1. k = Len(p)
    BY <1>1, <1>3
  <2>2. Named(p) = Walk(p)[Len(p)]
    BY WalkIs
  <2> QED
    BY <2>1, <2>2, <1>1
<1> QED
  BY <1>2, <1>3 DEF Found

(* What a search that found a link is to look for next.                    *)
LEMMA HopsOn ==
    ASSUME LookupType, FindInv, Found
    PROVE  /\ call \in {"open", "exec"} => node = Named(name)
           /\ call \in {"open", "link"} => \E h \in Nat : node = Hop(name)[h]
<1>1. phase = "find" /\ name \in Seq(STRING)
  BY DEF Found, LookupType
<1>2. Hop(name)[0] = Named(name) /\ \A k \in Nat \ {0} : Hop(name)[k] = Followed(Hop(name)[k - 1])
  BY <1>1, HopIs
<1>3. CASE call \in {"open", "exec"} /\ Along(name)
  <2>1. node = Named(name)
    BY <1>1, <1>3, SearchEnds
  <2> QED
    BY <2>1, <1>2, <1>3
<1>4. CASE call = "link" /\ \E h \in Nat : /\ IsLink(Hop(name)[h])
                                           /\ Along(INode(Hop(name)[h]).target)
  <2>1. PICK h \in Nat : /\ IsLink(Hop(name)[h])
                         /\ Along(INode(Hop(name)[h]).target)
    BY <1>4
  <2>2. INode(Hop(name)[h]).target \in Seq(STRING)
    BY <2>1, KindsOfNodes DEF IsLink
  <2>3. node = Named(INode(Hop(name)[h]).target)
    BY <2>1, <2>2, SearchEnds
  <2>4. Followed(Hop(name)[h]) = node
    BY <2>1, <2>3 DEF Followed
  <2>5. h + 1 \in Nat \ {0} /\ (h + 1) - 1 = h
    OBVIOUS
  <2>6. Hop(name)[h + 1] = node
    BY <1>2, <2>4, <2>5
  <2> QED
    BY <1>4, <2>5, <2>6
<1> QED
  BY <1>1, <1>3, <1>4 DEF FindInv

LookupInv == LookupType /\ FindInv

LEMMA LookupInitially == FilesInit => LookupInv
BY RootIsHere, FilesAssumption DEF FilesInit, LookupInv, LookupType, FindInv, Phase

(* The steps of exec behind find leave the lookup alone.                   *)
LEMMA LookupKept ==
    ASSUME LookupInv, UNCHANGED <<lookup, opened>>,
           phase' \in Phase, phase \notin {"user", "find"} \/ phase' = phase
                             \/ (phase = "find" /\ phase' # "user"),
           phase' = "user" => phase = "user", phase' = "find" => phase = "find"
    PROVE  LookupInv'
BY DEF LookupInv, LookupType, FindInv, lookup, Along, IsLink

LEMMA LookupKeeps ==
    ASSUME LookupInv, [FilesNext]_allVars
    PROVE  LookupInv'
<1> USE NoneIsNone, RootIsHere
<1>0. name \in Seq(STRING) /\ phase \in Phase
  BY DEF LookupInv, LookupType
<1>1. ASSUME NEW path \in Path, Open(path)
      PROVE  LookupInv'
  <2>1. path \in Seq(STRING)
    BY FilesAssumption
  <2>2. Along(path)'
    BY <1>1, <2>1, SearchBegins DEF Open
  <2>3. name' = path /\ phase' = "find" /\ call' = "open" /\ rest' = path /\ node' = Root /\ opened' = opened /\ opened = None
    BY <1>1 DEF Open, StartFind
  <2>4. Along(name)'
    BY <2>2, <2>3 DEF Along
  <2> QED
    BY <2>1, <2>3, <2>4 DEF LookupInv, LookupType, FindInv, Phase
<1>2. ASSUME NEW path \in Path, Execl(path)
      PROVE  LookupInv'
  <2>1. path \in Seq(STRING)
    BY FilesAssumption
  <2>2. Along(path)'
    BY <1>2, <2>1, SearchBegins DEF Execl
  <2>3. name' = path /\ phase' = "find" /\ call' = "exec" /\ rest' = path /\ node' = Root /\ opened' = opened /\ opened = None
    BY <1>2 DEF Execl, StartFind
  <2>4. Along(name)'
    BY <2>2, <2>3 DEF Along
  <2> QED
    BY <2>1, <2>3, <2>4 DEF LookupInv, LookupType, FindInv, Phase
<1>3. CASE FindPart
  <2>1. UNCHANGED <<phase, call, name, opened>> /\ phase = "find"
    BY <1>3 DEF FindPart
  <2>2. rest' \in Seq(STRING) /\ node' \in Number \cup {0}
        /\ \A p \in Seq(STRING) : Along(p) => Along(p)'
    <3>1. \A p \in Seq(STRING) : Along(p) => Along(p)' /\ rest' \in Seq(STRING) /\ node' \in Number \cup {0}
      BY <1>3, SearchGoesOn DEF LookupInv
    <3>2. \E p \in Seq(STRING) : Along(p)
      BY <2>1, <1>0, KindsOfNodes DEF LookupInv, FindInv, IsLink
    <3> QED
      BY <3>1, <3>2
  <2>3. CASE call \in {"open", "exec"} /\ Along(name)
    <3>1. Along(name)'
      <4>1. \A p : p = name' => (Along(p)' <=> Along(name)')
        BY DEF Along
      <4>2. Along(name) => \E p \in Seq(STRING) : p = name /\ Along(p)
        BY <1>0
      <4> QED
        BY <4>1, <4>2, <2>1, <2>2, <2>3
    <3> QED
      BY <3>1, <2>1, <2>2, <2>3 DEF LookupInv, LookupType, FindInv
  <2>4. CASE call = "link" /\ \E h \in Nat : /\ IsLink(Hop(name)[h])
                                             /\ Along(INode(Hop(name)[h]).target)
    <3>1. PICK h \in Nat : IsLink(Hop(name)[h]) /\ Along(INode(Hop(name)[h]).target)
      BY <2>4
    <3>2. INode(Hop(name)[h]).target \in Seq(STRING)
      BY <3>1, KindsOfNodes DEF IsLink
    <3> DEFINE t == INode(Hop(name)[h]).target
    <3>3. PICK p \in Seq(STRING) : p = t
      BY <3>2
    <3>4. Along(p)'
      BY <3>1, <3>3, <2>2
    <3>5. IsLink(Hop(name')[h]) /\ INode(Hop(name')[h]).target = p
      BY <3>1, <3>3, <2>1
    <3>6. (\E h1 \in Nat : IsLink(Hop(name)[h1]) /\ Along(INode(Hop(name)[h1]).target))'
      <4>1. Along(INode(Hop(name)[h]).target)'
        BY <3>4, <3>5 DEF Along
      <4> QED
        BY <4>1, <3>5 DEF IsLink
    <3> QED
      BY <3>6, <2>1, <2>2, <2>4 DEF LookupInv, LookupType, FindInv
  <2> QED
    BY <2>1, <2>3, <2>4 DEF LookupInv, FindInv
<1>4. CASE FollowLink
  <2>1. /\ Found /\ call \in {"open", "link"} /\ Is("link") /\ phase = "find"
        /\ StartFind("link", GetNode(node).target)
        /\ UNCHANGED <<name, opened>>
    BY <1>4 DEF FollowLink, Symbol, Found
  <2>2. node \in Number /\ INode(node) = GetNode(node) /\ INode(node).kind = "link"
    BY <2>1, NodeIs DEF LookupInv, LookupType
  <2>3. PICK h \in Nat : node = Hop(name)[h]
    BY <2>1, HopsOn DEF LookupInv
  <2>4. PICK p \in Seq(STRING) : p = GetNode(node).target
    BY <2>2, KindsOfNodes
  <2>5. Along(p)'
    BY <2>1, <2>4, SearchBegins
  <2>6. IsLink(Hop(name')[h]) /\ INode(Hop(name')[h]).target = p
    BY <2>1, <2>2, <2>3, <2>4 DEF IsLink
  <2>7. (\E h1 \in Nat : IsLink(Hop(name)[h1]) /\ Along(INode(Hop(name)[h1]).target))'
    <3>1. Along(INode(Hop(name)[h]).target)'
      BY <2>5, <2>6 DEF Along
    <3> QED
      BY <3>1, <2>6 DEF IsLink
  <2>8. phase' = "find" /\ call' = "link" /\ rest' = p /\ node' = Root
    BY <2>1, <2>4 DEF StartFind
  <2> QED
    BY <2>1, <2>7, <2>8 DEF LookupInv, LookupType, FindInv, Phase
<1>5. CASE OpenFails \/ ExecFails
  <2>1. Return /\ opened' = opened /\ phase = "find"
    BY <1>5 DEF OpenFails, ExecFails, Found
  <2> QED
    BY <2>1 DEF Return, LookupInv, LookupType, FindInv, Phase
<1>6. CASE OpenSucceeds
  <2>1. Return /\ opened' = node /\ node # 0
    BY <1>6 DEF OpenSucceeds
  <2> QED
    BY <2>1 DEF Return, LookupInv, LookupType, FindInv, Phase
<1>7. CASE FindPanics \/ HeaderPanics \/ LoadPanics
  <2>1. UNCHANGED <<lookup, opened>> /\ phase' = "panic" /\ phase # "user"
    BY <1>7 DEF FindPanics, HeaderPanics, LoadPanics, KernelPanics, Found
  <2> QED
    BY <2>1, <1>0, LookupKept DEF Phase
<1>8. CASE Dangling
  <2>1. UNCHANGED <<lookup, opened>> /\ phase' = "ended" /\ phase # "user"
    BY <1>8 DEF Dangling, Found
  <2> QED
    BY <2>1, <1>0, LookupKept DEF Phase
<1>9. CASE Copy \/ Clear \/ PushString \/ PushWords \/ LoadSegment \/ SwitchToUser
  <2>1. UNCHANGED <<lookup, opened>> /\ phase' \in Loading /\ phase # "user"
    BY <1>9 DEF Copy, Clear, PushString, PushWords, LoadSegment, SwitchToUser, Found, Loading
  <2> QED
    BY <2>1, <1>0, LookupKept DEF Phase, Loading
<1>10. CASE UNCHANGED files
  <2>1. UNCHANGED <<lookup, opened, phase>>
    BY <1>10 DEF files
  <2> QED
    BY <2>1, <1>0, LookupKept
<1>11. CASE UNCHANGED allVars
  BY <1>10, <1>11 DEF allVars
<1> QED
  BY <1>1, <1>2, <1>3, <1>4, <1>5, <1>6, <1>7, <1>8, <1>9, <1>10, <1>11
     DEF FilesNext, CallStep

-----------------------------------------------------------------------------
(* exec                                                                    *)

LEMMA ExecInitially == FilesInit => ExecInv
BY DEF FilesInit, ExecInv, Loading

(* Behind find, exec does not touch the lookup, nor the header.            *)
LEMMA ExecKept ==
    ASSUME ExecInv, UNCHANGED lookup, phase \in Loading, phase' \in Loading
    PROVE  /\ node' \in Number /\ INode(node').kind = "file"
           /\ node' = Named(name')
           /\ Executable'
           /\ node' = node
BY DEF ExecInv, lookup, Executable

LEMMA ExecKeeps ==
    ASSUME LookupInv, ExecInv, [FilesNext]_allVars
    PROVE  ExecInv'
<1>1. ASSUME NEW path \in Path, Open(path) \/ Execl(path)
      PROVE  ExecInv'
  BY <1>1 DEF Open, Execl, StartFind, ExecInv, exec, Loading
<1>2. CASE FindPart
  BY <1>2 DEF FindPart, Found, ExecInv, exec, Loading
<1>3. CASE FollowLink
  BY <1>3 DEF FollowLink, StartFind, Found, ExecInv, exec, Loading
<1>4. CASE OpenFails \/ ExecFails \/ OpenSucceeds
  BY <1>4 DEF OpenFails, ExecFails, OpenSucceeds, Return, Found, ExecInv, exec, Loading
<1>5. CASE FindPanics \/ HeaderPanics \/ LoadPanics \/ Dangling
  <2>1. phase' \in {"panic", "ended"}
    BY <1>5 DEF FindPanics, HeaderPanics, LoadPanics, Dangling, KernelPanics
  <2> QED
    BY <2>1 DEF ExecInv, Loading
<1>6. CASE Copy
  <2>1. /\ Found /\ call = "exec" /\ Is("file") /\ Executable
        /\ phase = "find" /\ phase' = "clear"
        /\ UNCHANGED <<call, name, rest, node, mem, loaded, entry>>
    BY <1>6 DEF Copy, Found, lookup
  <2>2. node = Named(name)
    BY <2>1, HopsOn DEF LookupInv
  <2>3. node \in Number /\ INode(node).kind = "file"
    BY <2>1, NodeIs DEF LookupInv, LookupType
  <2>4. node' \in Number /\ INode(node').kind = "file" /\ node' = Named(name') /\ Executable'
    BY <2>1, <2>2, <2>3 DEF Executable
  <2> QED
    BY <2>1, <2>4 DEF ExecInv, Loading
<1>7. CASE Clear \/ PushString \/ PushWords
  <2>1. /\ UNCHANGED <<lookup, loaded>>
        /\ \/ phase = "clear" /\ phase' = "push"
           \/ phase = "push" /\ phase' = "push"
           \/ phase = "push" /\ phase' = "load"
    BY <1>7 DEF Clear, PushString, PushWords
  <2>2. /\ node' \in Number /\ INode(node').kind = "file"
        /\ node' = Named(name') /\ Executable' /\ node' = node
    BY <2>1, ExecKept DEF Loading
  <2>3. loaded = 0 /\ loaded' = 0
    BY <2>1 DEF ExecInv
  <2>4. 0 \in 0..Len(GetNode(node).segments)
    <3>1. node \in Number /\ INode(node).kind = "file"
      BY <2>1 DEF ExecInv, Loading
    <3>2. GetNode(node).segments \in Seq(STRING)
      BY <3>1, KindsOfNodes, DiskHolds
    <3> QED
      BY <3>2
  <2> QED
    BY <2>1, <2>2, <2>3, <2>4 DEF ExecInv, Loading
<1>8. CASE LoadSegment
  <2>1. /\ UNCHANGED lookup /\ phase = "load" /\ phase' = "load"
        /\ loaded < Len(GetNode(node).segments) /\ loaded' = loaded + 1
    BY <1>8 DEF LoadSegment
  <2>2. /\ node' \in Number /\ INode(node').kind = "file"
        /\ node' = Named(name') /\ Executable' /\ node' = node
    BY <2>1, ExecKept DEF Loading
  <2>3. GetNode(node).segments \in Seq(STRING)
    BY <2>2, KindsOfNodes, DiskHolds
  <2>4. loaded \in 0..Len(GetNode(node).segments)
    BY <2>1 DEF ExecInv
  <2>5. loaded' \in 0..Len(GetNode(node').segments)
    BY <2>1, <2>2, <2>3, <2>4
  <2> QED
    BY <2>1, <2>2, <2>5 DEF ExecInv, Loading
<1>9. CASE SwitchToUser
  <2>1. /\ UNCHANGED <<lookup, loaded>> /\ phase = "load" /\ phase' = "started"
        /\ Executable => loaded = Len(GetNode(node).segments)
        /\ entry' = IF Executable THEN GetNode(node).entry ELSE -1
    BY <1>9 DEF SwitchToUser
  <2>2. /\ node' \in Number /\ INode(node').kind = "file"
        /\ node' = Named(name') /\ Executable' /\ node' = node
    BY <2>1, ExecKept DEF Loading
  <2>3. Executable
    BY <2>1 DEF ExecInv, Loading
  <2> QED
    BY <2>1, <2>2, <2>3 DEF ExecInv, Loading
<1>10. CASE UNCHANGED files
  BY <1>10 DEF files, lookup, exec, ExecInv, Executable, Loading
<1>11. CASE UNCHANGED allVars
  BY <1>10, <1>11 DEF allVars
<1> QED
  BY <1>1, <1>2, <1>3, <1>4, <1>5, <1>6, <1>7, <1>8, <1>9, <1>10, <1>11
     DEF FilesNext, CallStep

LEMMA ReplacesImplied == ASSUME LookupInv, ExecInv PROVE ExecReplacesWhole
<1>1. ASSUME phase = "started"
      PROVE  /\ node = Named(name) /\ INode(node).executable
             /\ entry = INode(node).entry /\ loaded = Len(INode(node).segments)
  <2>1. node \in Number /\ node = Named(name) /\ Executable
    BY <1>1 DEF ExecInv, Loading
  <2>2. INode(node) = GetNode(node)
    BY <2>1, DiskHolds
  <2> QED
    BY <1>1, <2>1, <2>2 DEF ExecInv, Executable
<1>2. phase = "user" => mem = None
  BY DEF ExecInv
<1> QED
  BY <1>1, <1>2 DEF ExecReplacesWhole

(* A descriptor is for what the name resolves to.                          *)
LEMMA OpensKeeps ==
    ASSUME LookupInv, [FilesNext]_allVars
    PROVE  [/\ opened' # opened => opened' = Resolved(name)
            /\ call = "open" /\ phase' = "user" /\ opened' = opened
                  => Named(name) = 0]_allVars
<1>0. name \in Seq(STRING)
  BY DEF LookupInv, LookupType
<1>1. ASSUME OpenSucceeds
      PROVE  opened' # opened /\ opened' = Resolved(name)
  <2>1. /\ Found /\ call \in {"open", "link"} /\ node # 0 /\ ~Is("link")
        /\ opened' = node /\ phase = "find"
    BY <1>1 DEF OpenSucceeds, Found
  <2>2. opened = None /\ node \in Number
    BY <2>1 DEF LookupInv, FindInv, LookupType
  <2>3. PICK h \in Nat : node = Hop(name)[h]
    BY <2>1, HopsOn DEF LookupInv
  <2>4. ~IsLink(node)
    BY <2>1, <2>2, DiskHolds DEF Is, IsLink
  <2>5. Resolved(name) = node
    BY <2>3, <2>4, <1>0, LinksEnd
  <2>6. node \in Nat
    BY <2>2, DiskHolds
  <2> QED
    BY <2>1, <2>2, <2>5, <2>6, NoneIsNone
<1>2. ASSUME OpenFails
      PROVE  Named(name) = 0 /\ opened' = opened
  <2>1. Found /\ call = "open" /\ node = 0 /\ opened' = opened
    BY <1>2 DEF OpenFails
  <2>2. node = Named(name)
    BY <2>1, HopsOn DEF LookupInv
  <2> QED
    BY <2>1, <2>2
<1>3. ASSUME \/ \E path \in Path : Open(path) \/ Execl(path)
             \/ FindPart \/ FindPanics \/ FollowLink \/ Dangling
             \/ HeaderPanics \/ Copy \/ Clear \/ PushString \/ PushWords
             \/ LoadSegment \/ LoadPanics \/ SwitchToUser
      PROVE  opened' = opened /\ phase' # "user"
  BY <1>3 DEF Open, Execl, StartFind, FindPart, FindPanics, FollowLink, Dangling, HeaderPanics,
       Copy, Clear, PushString, PushWords, LoadSegment, LoadPanics, SwitchToUser,
       KernelPanics, Found
<1>4. ASSUME ExecFails
      PROVE  opened' = opened /\ call # "open"
  BY <1>4 DEF ExecFails
<1>5. ASSUME UNCHANGED files
      PROVE  opened' = opened /\ (phase' = "user" => call # "open")
  BY <1>5, NoneIsNone DEF files, lookup, LookupInv, FindInv
<1>6. CASE UNCHANGED allVars
  BY <1>6
<1> QED
  BY <1>1, <1>2, <1>3, <1>4, <1>5, <1>6 DEF FilesNext, CallStep

-----------------------------------------------------------------------------
(* The arguments                                                           *)

Char == Nat \ {0}
String == Seq(Char)

(* The lengths of the first strings, with their terminators.               *)
Lens(strings) ==
    LET sum2[k \in 0..Len(strings)] ==
            IF k = 0 THEN 0 ELSE sum2[k - 1] + Len(strings[k]) + 1
    IN  sum2

LEMMA LensAre ==
    ASSUME NEW strings \in Seq(String)
    PROVE  /\ Lens(strings) \in [0..Len(strings) -> Nat]
           /\ Lens(strings)[0] = 0
           /\ \A k \in 1..Len(strings) :
                 Lens(strings)[k] = Lens(strings)[k - 1] + Len(strings[k]) + 1
           /\ TotalLen(strings) = Lens(strings)[Len(strings)]
<1> DEFINE n == Len(strings)
           L(k) == IF k \in 1..n THEN Len(strings[k]) ELSE 0
           Defines(w) ==
             w = [k \in 0..n |-> IF k = 0 THEN 0 ELSE w[k - 1] + Len(strings[k]) + 1]
           f == [x \in Nat \X Nat |-> x[1] + L(x[2]) + 1]
<1>1. n \in Nat /\ \A k \in 1..n : strings[k] \in String
  OBVIOUS
<1>2. \A k \in Nat : L(k) \in Nat
  BY <1>1 DEF String
<1>3. \A k \in 1..n : L(k) = Len(strings[k])
  OBVIOUS
<1> HIDE DEF L
<1>4. f \in [Nat \X Nat -> Nat]
  <2>1. \A x \in Nat \X Nat : x[1] \in Nat /\ x[2] \in Nat
    OBVIOUS
  <2>2. \A d, l \in Nat : d + l + 1 \in Nat
    OBVIOUS
  <2>3. \A x \in Nat \X Nat : x[1] + L(x[2]) + 1 \in Nat
    BY <2>1, <2>2, <1>2
  <2> QED
    BY <2>3
<1>5. \A d \in Nat, k \in Nat : f[<<d, k>>] = d + L(k) + 1
  OBVIOUS
<1> HIDE DEF f, n
<1>6. PICK g : Defined(g, Nat, 0, f)
  BY <1>4, Recursion
<1>7. g \in [Nat -> Nat] /\ g[0] = 0 /\ \A k \in Nat \ {0} : g[k] = g[k - 1] + L(k) + 1
  <2>1. \A k \in Nat \ {0} : g[k - 1] \in Nat
    BY <1>6 DEF Defined
  <2> QED
    BY <2>1, <1>5, <1>6 DEF Defined
<1> DEFINE w0 == [k \in 0..n |-> g[k]]
<1>8. \A k \in 0..n : w0[k] = IF k = 0 THEN 0 ELSE w0[k - 1] + Len(strings[k]) + 1
  <2> TAKE k \in 0..n
  <2>1. CASE k = 0
    BY <2>1, <1>7
  <2>2. CASE k # 0
    <3>1. k \in 1..n /\ k \in Nat \ {0} /\ k - 1 \in 0..n
      BY <2>2, <1>1
    <3>2. w0[k] = g[k] /\ w0[k - 1] = g[k - 1] /\ g[k] = g[k - 1] + L(k) + 1
      BY <3>1, <1>7
    <3> HIDE DEF w0
    <3> QED
      BY <3>1, <3>2, <1>3, <2>2
  <2> QED
    BY <2>1, <2>2
<1>9. w0 = [k \in 0..n |-> w0[k]]
  OBVIOUS
<1> HIDE DEF w0
<1>9A. Defines(w0)
  BY <1>8, <1>9
<1>10. Lens(strings) = CHOOSE w : Defines(w)
  BY DEF Lens, n
<1>11. TotalLen(strings) = Lens(strings)[n]
  BY DEF TotalLen, Lens, n
<1>12. Defines(Lens(strings))
  <2> HIDE DEF Defines
  <2> QED
    BY <1>9A, <1>10
<1> DEFINE W == Lens(strings)
<1>13. W = [k \in 0..n |-> IF k = 0 THEN 0 ELSE W[k - 1] + Len(strings[k]) + 1]
  BY <1>12
<1> HIDE DEF W, Defines
<1>14. W[0] = 0 /\ \A k \in 1..n : W[k] = W[k - 1] + Len(strings[k]) + 1
  BY <1>1, <1>13
<1>15. \A k \in 0..n : W[k] \in Nat
  <2> DEFINE T == {k \in Nat : k <= n => W[k] \in Nat}
  <2>1. 0 \in T
    BY <1>14
  <2>2. ASSUME NEW k \in Nat, k \in T
        PROVE  k + 1 \in T
    <3>1. CASE k + 1 <= n
      <4>1. W[k] \in Nat /\ k + 1 \in 1..n /\ (k + 1) - 1 = k
        BY <1>1, <2>2, <3>1
      <4>2. W[k + 1] = W[k] + Len(strings[k + 1]) + 1
        BY <4>1, <1>14
      <4>3. Len(strings[k + 1]) \in Nat
        BY <4>1, <1>1 DEF String
      <4> QED
        BY <4>1, <4>2, <4>3
    <3>2. CASE ~(k + 1 <= n)
      BY <3>2
    <3> QED
      BY <3>1, <3>2
  <2> HIDE DEF T
  <2>3. Nat \subseteq T
    BY <2>1, <2>2, AllNumbers
  <2> QED
    BY <2>3, <1>1 DEF T
<1>16. W \in [0..n -> Nat]
  <2>1. W = [k \in 0..n |-> W[k]]
    BY <1>13
  <2> QED
    BY <2>1, <1>15
<1> QED
  BY <1>11, <1>14, <1>16 DEF W, n

(* Where the strings begin, once all of them are pushed.                   *)
Base(strings) == Top - 4 * ((TotalLen(strings) + 4) \div 4)

(* What main is given fits below the top of the stack.                     *)
ArgumentsFit ==
    \A strings \in Args : Base(strings) >= 4 * (Len(strings) + 3)

(* The string s is in the memory m, from address a on.                     *)
Holds(m, a, s) ==
    /\ a \in Nat /\ a + Len(s) < Top
    /\ m[a + Len(s)] = 0
    /\ \A x \in 1..Len(s) : m[(a + x) - 1] = s[x]

(* The strings that are pushed lie above the stack pointer, at the         *)
(* addresses noted for them.                                               *)
Pushed ==
    LET i == Len(buf) - Len(addresses) IN
    /\ i \in 0..Len(buf)
    /\ sp = Base(buf) + Lens(buf)[i]
    /\ \A j \in 1..Len(addresses) :
          addresses[j] >= sp /\ Holds(mem, addresses[j], buf[i + j])

(* The stack of the new program.                                           *)
Stacked ==
    /\ sp % 4 = 0
    /\ mem[sp] = Len(buf)
    /\ mem[sp + 4] = sp + 8
    /\ \A j \in 1..Len(buf) : Holds(mem, mem[(sp + 8) + 4 * (j - 1)], buf[j])
    /\ mem[(sp + 8) + 4 * Len(buf)] = 0

StackInv ==
    /\ phase \in Loading => args \in Args /\ buf = args
    /\ phase \in {"push", "load", "started"} =>
          /\ DOMAIN mem = 0..Top - 1
          /\ sp \in 0..Top
          /\ addresses \in Seq(Nat)
    /\ phase = "push" => Pushed
    /\ phase \in {"load", "started"} => Stacked

LEMMA StackInitially == FilesInit => StackInv
BY DEF FilesInit, StackInv, Loading

LEMMA ArgsAre ==
    ASSUME NEW strings \in Args
    PROVE  /\ strings \in Seq(String) /\ Len(strings) \in Nat
           /\ \A j \in 1..Len(strings) : strings[j] \in String /\ Len(strings[j]) \in Nat
           /\ TotalLen(strings) \in Nat
<1>1. strings \in Seq(String)
  BY FilesAssumption DEF String, Char
<1>2. Len(strings) \in Nat /\ \A j \in 1..Len(strings) : strings[j] \in String
  BY <1>1
<1>3. Lens(strings) \in [0..Len(strings) -> Nat] /\ TotalLen(strings) = Lens(strings)[Len(strings)]
  BY <1>1, LensAre
<1>4. Len(strings) \in 0..Len(strings)
  BY <1>2
<1> QED
  BY <1>1, <1>2, <1>3, <1>4 DEF String

(* clear_private leaves the stack pointer where the strings end.           *)
LEMMA ClearStacks ==
    ASSUME ArgumentsFit, StackInv, Clear
    PROVE  StackInv'
<1> DEFINE t == TotalLen(buf)
           q == (t + 4) \div 4
<1>1. /\ phase = "clear" /\ phase' = "push" /\ args \in Args /\ buf = args
      /\ UNCHANGED <<args, buf>> /\ addresses' = <<>>
      /\ mem' = [a \in 0..Top - 1 |-> 0]
      /\ sp' = Top - (q * 4 - t)
  BY DEF Clear, StackInv, Loading
<1>2. buf \in Seq(String) /\ Len(buf) \in Nat /\ t \in Nat
  BY <1>1, ArgsAre
<1>3. Top \in Nat /\ q \in Nat /\ t < 4 * q /\ 4 * q <= t + 4
  <2> HIDE DEF t
  <2> QED
    BY <1>2, FilesAssumption
<1>4. Base(buf) = Top - 4 * q /\ Base(buf) >= 0
  <2>1. Base(buf) >= 4 * (Len(buf) + 3)
    BY <1>1 DEF ArgumentsFit
  <2>2. Base(buf) = Top - 4 * q
    BY DEF Base
  <2> HIDE DEF q
  <2> QED
    BY <2>1, <2>2, <1>2, <1>3
<1>5. Lens(buf)[Len(buf)] = t
  BY <1>2, LensAre
<1>6. sp' = Base(buf) + Lens(buf)[Len(buf)] /\ sp' \in 0..Top
  <2> HIDE DEF q, t
  <2> QED
    BY <1>1, <1>2, <1>3, <1>4, <1>5
<1>7. Len(addresses') = 0 /\ addresses' \in Seq(Nat) /\ buf' = buf
  BY <1>1
<1>8. Pushed'
  <2>1. Len(buf') - Len(addresses') = Len(buf)
    BY <1>2, <1>7
  <2>2. sp' = Base(buf') + Lens(buf')[Len(buf') - Len(addresses')]
    BY <1>6, <1>7, <2>1
  <2> QED
    BY <2>1, <2>2, <1>2, <1>7 DEF Pushed
<1>9. DOMAIN mem' = 0..Top - 1
  BY <1>1
<1> QED
  BY <1>1, <1>6, <1>7, <1>8, <1>9 DEF StackInv, Loading

(* What is written is there, and nothing above it changes.                 *)
Written(m, a, bytes, w) ==
    /\ DOMAIN w = DOMAIN m
    /\ \A x \in DOMAIN m : x \in Nat /\ x >= a + Len(bytes) => w[x] = m[x]
    /\ \A k \in 1..Len(bytes) : (a + k) - 1 \in DOMAIN m => w[(a + k) - 1] = bytes[k]

LEMMA WriteIs ==
    ASSUME NEW m, NEW a \in Nat, NEW bytes, Len(bytes) \in Nat
    PROVE  Written(m, a, bytes, Write(m, a, bytes))
<1> DEFINE l == Len(bytes)
           W == Write(m, a, bytes)
<1>1. W = [x \in DOMAIN m |-> IF x \in a..(a + l) - 1 THEN bytes[(x - a) + 1] ELSE m[x]]
  BY DEF Write
<1>2. l \in Nat
  OBVIOUS
<1> HIDE DEF W, l
<1>3. DOMAIN W = DOMAIN m
  BY <1>1
<1>4. \A x \in DOMAIN m : x \in Nat /\ x >= a + l => W[x] = m[x]
  <2> TAKE x \in DOMAIN m
  <2> HAVE x \in Nat /\ x >= a + l
  <2>1. x \notin a..(a + l) - 1
    BY <1>2
  <2> QED
    BY <2>1, <1>1
<1>5. ASSUME NEW k \in 1..l, (a + k) - 1 \in DOMAIN m
      PROVE  W[(a + k) - 1] = bytes[k]
  <2> DEFINE y == (a + k) - 1
  <2>1. y \in a..(a + l) - 1 /\ (y - a) + 1 = k
    BY <1>2
  <2>2. y \in DOMAIN m
    BY <1>5
  <2> HIDE DEF y
  <2>3. W[y] = bytes[(y - a) + 1]
    BY <2>1, <2>2, <1>1
  <2> QED
    BY <2>1, <2>3 DEF y
<1> QED
  BY <1>3, <1>4, <1>5 DEF W, l, Written

(* A string that is pushed does not touch those above it.                  *)
LEMMA PushStringStacks ==
    ASSUME ArgumentsFit, StackInv, PushString
    PROVE  StackInv'
<1> DEFINE i == Len(buf) - Len(addresses)
           a == sp - (Len(buf[i]) + 1)
           bytes == Append(buf[i], 0)
<1>1. /\ phase = "push" /\ phase' = "push" /\ i > 0
      /\ mem' = Write(mem, a, bytes) /\ addresses' = <<a>> \o addresses /\ sp' = a
      /\ UNCHANGED <<args, buf>>
      /\ args \in Args /\ buf = args
      /\ DOMAIN mem = 0..Top - 1 /\ sp \in 0..Top /\ addresses \in Seq(Nat)
      /\ Pushed
  BY DEF PushString, StackInv, Loading
<1>2. /\ buf \in Seq(String) /\ Len(buf) \in Nat
      /\ \A j \in 1..Len(buf) : buf[j] \in String /\ Len(buf[j]) \in Nat
  BY <1>1, ArgsAre
<1>3. Top \in Nat /\ Len(addresses) \in Nat
  BY <1>1, FilesAssumption
<1>4. /\ i \in 0..Len(buf) /\ sp = Base(buf) + Lens(buf)[i]
      /\ \A j \in 1..Len(addresses) : addresses[j] >= sp /\ Holds(mem, addresses[j], buf[i + j])
  BY <1>1 DEF Pushed
<1>5. i \in 1..Len(buf) /\ i - 1 \in 0..Len(buf) /\ i \in Nat
  BY <1>1, <1>2, <1>4
<1>6. Lens(buf)[i] = Lens(buf)[i - 1] + Len(buf[i]) + 1 /\ Lens(buf)[i - 1] \in Nat
  <2>1. /\ Lens(buf) \in [0..Len(buf) -> Nat]
        /\ \A k \in 1..Len(buf) : Lens(buf)[k] = Lens(buf)[k - 1] + Len(buf[k]) + 1
    BY <1>2, LensAre
  <2> QED
    BY <2>1, <1>5
<1>7. Base(buf) \in Int /\ Base(buf) >= 0
  <2>1. TotalLen(buf) \in Nat
    BY <1>1, ArgsAre
  <2>2. Base(buf) \in Int
    BY <2>1, <1>3 DEF Base
  <2>3. Base(buf) >= 4 * (Len(buf) + 3)
    BY <1>1 DEF ArgumentsFit
  <2> QED
    BY <2>2, <2>3, <1>2
<1>8. /\ bytes \in Seq(Nat) /\ Len(bytes) = Len(buf[i]) + 1
      /\ bytes[Len(buf[i]) + 1] = 0
      /\ \A x \in 1..Len(buf[i]) : bytes[x] = buf[i][x]
      /\ Len(buf[i]) \in Nat
  <2>1. buf[i] \in Seq(Nat)
    BY <1>2, <1>5 DEF String, Char
  <2> HIDE DEF i
  <2> QED
    BY <2>1
<1> DEFINE l == Len(buf[i])
<1>9. a = Base(buf) + Lens(buf)[i - 1] /\ a \in Nat /\ a < sp /\ (a + l) + 1 = sp
  <2>1. l \in Nat /\ sp = Base(buf) + Lens(buf)[i] /\ a = sp - (l + 1)
        /\ Lens(buf)[i] = Lens(buf)[i - 1] + l + 1
    BY <1>4, <1>6, <1>8
  <2>2. sp \in Nat
    BY <1>1, <1>3
  <2> DEFINE A == Base(buf)
             B == Lens(buf)[i - 1]
  <2>3. A \in Int /\ A >= 0 /\ B \in Nat /\ sp = A + (B + l + 1)
    BY <2>1, <1>6, <1>7
  <2> HIDE DEF i, a, l, A, B
  <2>4. a = A + B /\ a \in Nat /\ a < sp /\ (a + l) + 1 = sp
    BY <2>1, <2>2, <2>3
  <2> QED
    BY <2>4 DEF A, B
<1>9A. /\ l \in Nat /\ Len(bytes) = l + 1 /\ bytes[l + 1] = 0 /\ sp \in Nat /\ sp <= Top
       /\ \A x \in 1..l : bytes[x] = buf[i][x]
       /\ mem' = Write(mem, a, bytes)
  BY <1>1, <1>3, <1>8
<1>10. DOMAIN mem' = 0..Top - 1
  BY <1>1 DEF Write
<1> HIDE DEF i, bytes, a, l
<1>11A. /\ DOMAIN mem' = DOMAIN mem
        /\ \A x \in DOMAIN mem : x \in Nat /\ x >= a + Len(bytes) => mem'[x] = mem[x]
        /\ \A k \in 1..Len(bytes) : (a + k) - 1 \in DOMAIN mem => mem'[(a + k) - 1] = bytes[k]
  <2>1. Len(bytes) \in Nat
    BY <1>9A
  <2>2. Written(mem, a, bytes, Write(mem, a, bytes))
    BY <2>1, <1>9, WriteIs
  <2>3. Written(mem, a, bytes, mem')
    BY <2>2, <1>9A
  <2> QED
    BY <2>3 DEF Written
<1>11. \A x \in 0..Top - 1 : x >= sp => mem'[x] = mem[x]
  <2>1. \A x \in 0..Top - 1 : x \in DOMAIN mem /\ x \in Nat
    BY <1>1, <1>3
  <2>2. a + Len(bytes) = sp
    BY <1>9, <1>9A
  <2> QED
    BY <2>1, <2>2, <1>11A
<1>12. \A x \in 1..l + 1 : mem'[(a + x) - 1] = bytes[x]
  <2> TAKE x \in 1..l + 1
  <2>1. x \in 1..Len(bytes)
    BY <1>9A
  <2>2. (a + x) - 1 \in 0..Top - 1
    BY <1>3, <1>9, <1>9A
  <2> QED
    BY <2>1, <2>2, <1>1, <1>11A
<1>13. Holds(mem', a, buf[i])
  <2>1. mem'[a + l] = 0
    <3>1. l + 1 \in 1..l + 1 /\ (a + (l + 1)) - 1 = a + l
      BY <1>9, <1>9A
    <3>2. mem'[(a + (l + 1)) - 1] = bytes[l + 1]
      BY <3>1, <1>12
    <3> QED
      BY <3>1, <3>2, <1>9A
  <2>2. \A x \in 1..l : mem'[(a + x) - 1] = buf[i][x]
    <3>1. \A x \in 1..l : x \in 1..l + 1
      BY <1>9A
    <3> QED
      BY <3>1, <1>9A, <1>12
  <2>3. a + l < Top
    BY <1>3, <1>9, <1>9A
  <2> QED
    BY <2>1, <2>2, <2>3, <1>9 DEF Holds, l
<1>14. ASSUME NEW b \in Nat, b >= sp, NEW s \in String, Holds(mem, b, s)
       PROVE  Holds(mem', b, s)
  <2>1. Len(s) \in Nat
    BY DEF String
  <2>2. b + Len(s) \in 0..Top - 1 /\ b + Len(s) >= sp
    BY <2>1, <1>14, <1>1, <1>3 DEF Holds
  <2>3. \A x \in 1..Len(s) : (b + x) - 1 \in 0..Top - 1 /\ (b + x) - 1 >= sp
    BY <2>1, <1>14, <1>1, <1>3 DEF Holds
  <2> QED
    BY <2>2, <2>3, <1>11, <1>14 DEF Holds
<1>15. /\ addresses' \in Seq(Nat) /\ Len(addresses') = Len(addresses) + 1
       /\ addresses'[1] = a
       /\ \A j \in 1..Len(addresses) : addresses'[j + 1] = addresses[j]
  <2>1. addresses \in Seq(Nat) /\ addresses' = <<a>> \o addresses /\ a \in Nat
    BY <1>1, <1>9
  <2> QED
    BY <2>1
<1>16. Len(buf) - Len(addresses') = i - 1
  BY <1>2, <1>3, <1>15 DEF i
<1>17. \A j \in 1..Len(addresses') :
          addresses'[j] >= a /\ Holds(mem', addresses'[j], buf[(i - 1) + j])
  <2> TAKE j \in 1..Len(addresses')
  <2>1. CASE j = 1
    <3>1. (i - 1) + j = i
      BY <2>1, <1>5
    <3> QED
      BY <2>1, <3>1, <1>9, <1>13, <1>15
  <2>2. CASE j # 1
    <3>1. j - 1 \in 1..Len(addresses) /\ (i - 1) + j = i + (j - 1) /\ (j - 1) + 1 = j
      BY <2>2, <1>3, <1>5, <1>15
    <3>2. addresses'[j] = addresses[j - 1] /\ addresses[j - 1] \in Nat
      BY <3>1, <1>1, <1>15
    <3>3. addresses[j - 1] >= sp /\ Holds(mem, addresses[j - 1], buf[i + (j - 1)])
      BY <3>1, <1>4
    <3>4. i + (j - 1) \in 1..Len(buf)
      BY <3>1, <1>2, <1>3, <1>5 DEF i
    <3>5. Holds(mem', addresses[j - 1], buf[i + (j - 1)])
      BY <3>2, <3>3, <3>4, <1>2, <1>14
    <3>6. addresses[j - 1] >= a
      BY <3>2, <3>3, <1>1, <1>9
    <3> QED
      BY <3>1, <3>2, <3>5, <3>6
  <2> QED
    BY <2>1, <2>2
<1>18. Pushed'
  <2>1. buf' = buf /\ sp' = a
    BY <1>1
  <2>2. Len(buf') - Len(addresses') = i - 1
    BY <2>1, <1>16
  <2>3. i - 1 \in 0..Len(buf')
    BY <2>1, <1>5
  <2>4. sp' = Base(buf') + Lens(buf')[i - 1]
    BY <2>1, <1>9
  <2>5. \A j \in 1..Len(addresses') :
           addresses'[j] >= sp' /\ Holds(mem', addresses'[j], buf'[(i - 1) + j])
    BY <2>1, <1>17
  <2> QED
    BY <2>2, <2>3, <2>4, <2>5 DEF Pushed
<1>19. sp' \in 0..Top
  BY <1>1, <1>3, <1>9
<1> QED
  BY <1>1, <1>10, <1>15, <1>18, <1>19 DEF StackInv, Loading

(* The words go below the strings, each into four bytes.                   *)
LEMMA PushWordsStacks ==
    ASSUME ArgumentsFit, StackInv, PushWords
    PROVE  StackInv'
<1> DEFINE n == Len(buf)
           low == sp - 4 * (n + 3)
           words == <<n, low + 8>> \o addresses \o <<0>>
           bytes == [x \in 1..4 * (n + 3) |-> Bytes(words[(x + 3) \div 4])[((x - 1) % 4) + 1]]
<1>1. /\ phase = "push" /\ phase' = "load" /\ Len(addresses) = n
      /\ mem' = Write(mem, low, bytes) /\ sp' = low
      /\ UNCHANGED <<args, buf, addresses>>
      /\ args \in Args /\ buf = args
      /\ DOMAIN mem = 0..Top - 1 /\ sp \in 0..Top /\ addresses \in Seq(Nat)
      /\ Pushed
  BY DEF PushWords, StackInv, Loading
<1>2. /\ buf \in Seq(String) /\ n \in Nat
      /\ \A j \in 1..n : buf[j] \in String /\ Len(buf[j]) \in Nat
      /\ TotalLen(buf) \in Nat
  BY <1>1, ArgsAre
<1>3. Top \in Nat /\ Top % 4 = 0
  BY FilesAssumption
<1>4. /\ sp = Base(buf) + Lens(buf)[0]
      /\ \A j \in 1..n : addresses[j] >= sp /\ Holds(mem, addresses[j], buf[j])
  <2>1. Len(buf) - Len(addresses) = 0
    BY <1>1, <1>2
  <2>2. /\ sp = Base(buf) + Lens(buf)[0]
        /\ \A j \in 1..Len(addresses) : addresses[j] >= sp /\ Holds(mem, addresses[j], buf[0 + j])
    BY <2>1, <1>1 DEF Pushed
  <2>3. \A j \in 1..n : 0 + j = j
    BY <1>2
  <2> QED
    BY <2>2, <2>3, <1>1
<1>5. sp = Base(buf)
  <2>1. Lens(buf)[0] = 0
    BY <1>2, LensAre
  <2> DEFINE q == (TotalLen(buf) + 4) \div 4
  <2>2. q \in Nat
    BY <1>2
  <2>3. Base(buf) = Top - 4 * q
    BY DEF Base
  <2> HIDE DEF q
  <2> QED
    BY <2>1, <2>2, <2>3, <1>3, <1>4
<1>6. low \in Nat /\ low % 4 = 0 /\ low + 4 * (n + 3) = sp
  <2>1. Base(buf) >= 4 * (n + 3)
    BY <1>1 DEF ArgumentsFit
  <2> DEFINE q == (TotalLen(buf) + 4) \div 4
  <2>2. q \in Nat
    BY <1>2
  <2>3. Base(buf) = Top - 4 * q
    BY DEF Base
  <2> HIDE DEF q, n
  <2> QED
    BY <2>1, <2>2, <2>3, <1>1, <1>2, <1>3, <1>5
<1> HIDE DEF n, low
<1>7. /\ words \in Seq(Int) /\ Len(words) = n + 3
      /\ words[1] = n /\ words[2] = low + 8
      /\ \A j \in 1..n : words[j + 2] = addresses[j]
      /\ words[n + 3] = 0
  <2>1. addresses \in Seq(Int) /\ Len(addresses) = n /\ n \in Int /\ low + 8 \in Int
    BY <1>1, <1>2, <1>6
  <2> QED
    BY <2>1, <1>2
<1> HIDE DEF words
<1>8. Len(bytes) = 4 * (n + 3) /\ \A k \in 0..n + 2 : bytes[4 * k + 1] = words[k + 1]
  <2>1. 4 * (n + 3) \in Nat
    BY <1>2
  <2>2. Len(bytes) = 4 * (n + 3)
    BY <2>1
  <2>3. ASSUME NEW k \in 0..n + 2
        PROVE  bytes[4 * k + 1] = words[k + 1]
    <3>1. /\ 4 * k + 1 \in 1..4 * (n + 3)
          /\ ((4 * k + 1) + 3) \div 4 = k + 1
          /\ (((4 * k + 1) - 1) % 4) + 1 = 1
      BY <1>2
    <3>2. Bytes(words[k + 1])[1] = words[k + 1]
      BY DEF Bytes
    <3> QED
      BY <3>1, <3>2
  <2> QED
    BY <2>2, <2>3
<1> HIDE DEF bytes
<1>9. \A x \in 0..Top - 1 : x >= sp => mem'[x] = mem[x]
  BY <1>1, <1>2, <1>3, <1>6, <1>8 DEF Write
<1>10. \A k \in 0..n + 2 : mem'[low + 4 * k] = words[k + 1]
  <2> TAKE k \in 0..n + 2
  <2> DEFINE y == low + 4 * k
  <2>1. y \in low..low + Len(bytes) - 1 /\ y \in DOMAIN mem /\ y - low + 1 = 4 * k + 1
    BY <1>1, <1>2, <1>3, <1>6, <1>8
  <2> HIDE DEF y
  <2>2. mem'[y] = bytes[y - low + 1]
    BY <2>1, <1>1 DEF Write
  <2>3. mem'[y] = words[k + 1]
    BY <2>1, <2>2, <1>8
  <2> QED
    BY <2>3 DEF y
<1>11. ASSUME NEW b \in Nat, b >= sp, NEW s \in String, Holds(mem, b, s)
       PROVE  Holds(mem', b, s)
  <2>1. Len(s) \in Nat
    BY DEF String
  <2>2. b + Len(s) \in 0..Top - 1 /\ b + Len(s) >= sp
    BY <2>1, <1>11, <1>1, <1>3 DEF Holds
  <2>3. \A x \in 1..Len(s) : (b + x) - 1 \in 0..Top - 1 /\ (b + x) - 1 >= sp
    BY <2>1, <1>11, <1>1, <1>3 DEF Holds
  <2> QED
    BY <2>2, <2>3, <1>9, <1>11 DEF Holds
<1>12. mem'[low] = n /\ mem'[low + 4] = low + 8 /\ mem'[(low + 8) + 4 * n] = 0
  <2>1. /\ 0 \in 0..n + 2 /\ 1 \in 0..n + 2 /\ n + 2 \in 0..n + 2
        /\ low + 4 * 0 = low /\ low + 4 * 1 = low + 4 /\ low + 4 * (n + 2) = (low + 8) + 4 * n
        /\ 0 + 1 = 1 /\ 1 + 1 = 2 /\ (n + 2) + 1 = n + 3
    BY <1>2, <1>6
  <2>2. /\ mem'[low + 4 * 0] = words[0 + 1] /\ mem'[low + 4 * 1] = words[1 + 1]
        /\ mem'[low + 4 * (n + 2)] = words[(n + 2) + 1]
    BY <2>1, <1>10
  <2> QED
    BY <2>1, <2>2, <1>7
<1>13. \A j \in 1..n : Holds(mem', mem'[(low + 8) + 4 * (j - 1)], buf[j])
  <2> TAKE j \in 1..n
  <2>1. j + 1 \in 0..n + 2 /\ low + 4 * (j + 1) = (low + 8) + 4 * (j - 1) /\ (j + 1) + 1 = j + 2
    BY <1>2, <1>6
  <2>2. mem'[low + 4 * (j + 1)] = words[(j + 1) + 1]
    BY <2>1, <1>10
  <2>3. mem'[(low + 8) + 4 * (j - 1)] = addresses[j]
    BY <2>1, <2>2, <1>7
  <2>4. addresses[j] \in Nat /\ addresses[j] >= sp /\ Holds(mem, addresses[j], buf[j])
    BY <1>1, <1>4
  <2>5. Holds(mem', addresses[j], buf[j])
    BY <2>4, <1>2, <1>11
  <2> QED
    BY <2>3, <2>5
<1>14. Stacked'
  <2>1. sp' = low /\ buf' = buf /\ Len(buf') = n
    BY <1>1 DEF n
  <2> QED
    BY <2>1, <1>6, <1>12, <1>13 DEF Stacked
<1>15. DOMAIN mem' = 0..Top - 1 /\ sp' \in 0..Top
  BY <1>1, <1>2, <1>3, <1>6 DEF Write
<1> QED
  BY <1>1, <1>14, <1>15 DEF StackInv, Loading

LEMMA StackKept ==
    ASSUME StackInv, UNCHANGED <<args, buf, mem, sp, addresses>>,
           phase' = phase \/ phase' \notin Loading \/ (phase = "load" /\ phase' = "started")
    PROVE  StackInv'
BY DEF StackInv, Loading, Pushed, Stacked

LEMMA StackKeeps ==
    ASSUME ArgumentsFit, StackInv, [FilesNext]_allVars
    PROVE  StackInv'
<1>1. CASE Copy
  BY <1>1 DEF Copy, StackInv, Loading
<1>2. CASE Clear \/ PushString \/ PushWords
  BY <1>2, ClearStacks, PushStringStacks, PushWordsStacks
<1>3. ASSUME NEW path \in Path, Open(path) \/ Execl(path)
      PROVE  StackInv'
  BY <1>3, StackKept DEF Open, Execl, StartFind, exec, Loading
<1>4. CASE FindPart \/ FollowLink \/ LoadSegment \/ SwitchToUser
  BY <1>4, StackKept DEF FindPart, FollowLink, StartFind, LoadSegment, SwitchToUser, exec, Loading
<1>5. CASE OpenFails \/ ExecFails \/ OpenSucceeds
  BY <1>5, StackKept DEF OpenFails, ExecFails, OpenSucceeds, Return, exec, Loading
<1>6. CASE FindPanics \/ HeaderPanics \/ LoadPanics \/ Dangling
  BY <1>6, StackKept DEF FindPanics, HeaderPanics, LoadPanics, Dangling, KernelPanics, exec, Loading
<1>7. CASE UNCHANGED files
  BY <1>7, StackKept DEF files, exec
<1>8. CASE UNCHANGED allVars
  BY <1>7, <1>8 DEF allVars
<1> QED
  BY <1>1, <1>2, <1>3, <1>4, <1>5, <1>6, <1>7, <1>8 DEF FilesNext, CallStep

(* The string at an address ends at its first zero.                        *)
LEMMA StringIsThere ==
    ASSUME NEW a, NEW s \in String, Holds(mem, a, s)
    PROVE  StringAt(a) = s
<1>1. /\ Len(s) \in Nat /\ a \in Nat /\ a + Len(s) < Top /\ Top \in Nat
      /\ \A x \in 1..Len(s) : s[x] \in Nat \ {0} /\ mem[(a + x) - 1] = s[x]
      /\ mem[a + Len(s)] = 0
  BY FilesAssumption DEF Holds, String, Char
<1> DEFINE Ends(e) == mem[e] = 0 /\ \A x \in a..e - 1 : mem[x] # 0
<1>2. \A y \in a..(a + Len(s)) - 1 : mem[y] # 0
  <2> TAKE y \in a..(a + Len(s)) - 1
  <2>1. (y - a) + 1 \in 1..Len(s) /\ (a + ((y - a) + 1)) - 1 = y
    BY <1>1
  <2> QED
    BY <2>1, <1>1
<1>3. a + Len(s) \in a..Top - 1 /\ Ends(a + Len(s))
  BY <1>1, <1>2
<1>4. ASSUME NEW e \in a..Top - 1, Ends(e)
      PROVE  e = a + Len(s)
  <2>1. CASE e < a + Len(s)
    BY <2>1, <1>1, <1>2, <1>4
  <2>2. CASE e > a + Len(s)
    <3>1. a + Len(s) \in a..e - 1
      BY <2>2, <1>1
    <3> QED
      BY <3>1, <1>1, <1>4
  <2> QED
    BY <2>1, <2>2, <1>1
<1> DEFINE end == CHOOSE e \in a..Top - 1 : Ends(e)
<1>5. end = a + Len(s)
  <2> HIDE DEF Ends
  <2> QED
    BY <1>3, <1>4
<1>6. StringAt(a) = [i \in 1..end - a |-> mem[a + i - 1]]
  BY DEF StringAt
<1> HIDE DEF end
<1>7. end - a = Len(s)
  BY <1>1, <1>5
<1>8. StringAt(a) = [i \in 1..Len(s) |-> mem[a + i - 1]]
  BY <1>6, <1>7
<1>9. \A i \in 1..Len(s) : mem[a + i - 1] = s[i]
  BY <1>1
<1>10. s = [i \in 1..Len(s) |-> s[i]]
  BY DEF String
<1> QED
  BY <1>8, <1>9, <1>10

LEMMA ArgumentsImplied == ASSUME StackInv PROVE ArgumentsOnStack
<1> SUFFICES ASSUME phase = "started" PROVE ArgumentsOnStack
  BY DEF ArgumentsOnStack
<1>1. args \in Args /\ buf = args /\ Stacked
  BY DEF StackInv, Loading
<1>2. /\ Len(args) \in Nat /\ DOMAIN args = 1..Len(args)
      /\ \A j \in 1..Len(args) : args[j] \in String
  BY <1>1, ArgsAre
<1>3. \A j \in 1..Len(args) : StringAt(mem[(sp + 8) + 4 * (j - 1)]) = args[j]
  BY <1>1, <1>2, StringIsThere DEF Stacked
<1> QED
  BY <1>1, <1>2, <1>3 DEF Stacked, ArgumentsOnStack

-----------------------------------------------------------------------------
(* The theorems                                                            *)

LEMMA FilesRead == [FilesNext]_allVars => [Next]_vars
BY DEF FilesNext, CallStep, Open, Execl, FindPart, FindPanics, OpenFails, FollowLink,
       Dangling, OpenSucceeds, ExecFails, HeaderPanics, KernelPanics, Copy, Clear,
       PushString, PushWords, LoadSegment, LoadPanics, SwitchToUser, allVars

(* However many processes share an open file, a read delivers bytes of the *)
(* file from the offset on that it began with, in order, and none from     *)
(* behind its end: BlockIO::read_all and every branch of read_block.       *)
DeliversTheFile ==
    \A p \in Process :
       /\ buffer[p] = FileBytes(at[p], Len(buffer[p]))
       /\ buffer[p] = <<>> \/ at[p] + Len(buffer[p]) <= size

(* read_all never delivers a wrong byte, even while others move the offset.*)
THEOREM ReadsDeliverTheFile == Spec => []DeliversTheFile
<1>1. Spec => []ReadInv
  BY ReadInitially, ReadKeeps, PTL DEF Spec
<1>2. ReadInv => DeliversTheFile
  BY DEF ReadInv, DeliversTheFile
<1> QED
  BY <1>1, <1>2, PTL

(* A process that has an open file to itself reads the file in sequence,   *)
(* whatever lengths it asks for and wherever it seeks: read and seek of    *)
(* OpenFileStruct keep the offset where the bytes end that were read.      *)
THEOREM FilesAreRead == ASSUME Alone PROVE FilesSpec => []ReadsTheFile
<1>1. FilesInit => ReadInv /\ OffsetInv
  BY ReadInitially, OffsetInitially DEF FilesInit
<1>2. ReadInv /\ OffsetInv /\ [FilesNext]_allVars => (ReadInv /\ OffsetInv)'
  BY FilesRead, ReadKeeps, OffsetKeeps
<1>3. ReadInv /\ OffsetInv => ReadsTheFile
  BY ReadsImplied
<1> QED
  BY <1>1, <1>2, <1>3, PTL DEF FilesSpec

LEMMA AlwaysLookup == FilesSpec => []LookupInv
BY LookupInitially, LookupKeeps, PTL DEF FilesSpec

(* For any disk and any pathname, open gives a descriptor for what the     *)
(* name resolves to over however many links, and -1 only for a name of     *)
(* nothing: Ext2::find, Node::find, get_node and the loop of sys open.     *)
THEOREM OpenFindsTheFile == FilesSpec => OpensWhatIsNamed
<1>1. LookupInv /\ [FilesNext]_allVars
        => [/\ opened' # opened => opened' = Resolved(name)
            /\ call = "open" /\ phase' = "user" /\ opened' = opened
                  => Named(name) = 0]_allVars
  BY OpensKeeps
<1> QED
  BY <1>1, AlwaysLookup, PTL DEF FilesSpec, OpensWhatIsNamed

(* exec replaces a program wholly, by the file that was named, or returns  *)
(* to it with its memory as it was (exec of sys.cc and ELF::load).         *)
THEOREM ExecIsAllOrNothing == FilesSpec => []ExecReplacesWhole
<1>1. LookupInv /\ ExecInv /\ [FilesNext]_allVars => ExecInv'
  BY ExecKeeps
<1>2. LookupInv /\ ExecInv => ExecReplacesWhole
  BY ReplacesImplied
<1> QED
  BY <1>1, <1>2, ExecInitially, AlwaysLookup, PTL DEF FilesSpec

(* main of a program that exec has started finds its arguments, whatever   *)
(* they are, as long as they fit below the top of the stack, which exec    *)
(* does not check.                                                         *)
THEOREM MainFindsArguments == ASSUME ArgumentsFit PROVE FilesSpec => []ArgumentsOnStack
<1>1. StackInv /\ [FilesNext]_allVars => StackInv'
  BY StackKeeps
<1>2. StackInv => ArgumentsOnStack
  BY ArgumentsImplied
<1> QED
  BY <1>1, <1>2, StackInitially, PTL DEF FilesSpec
=============================================================================
