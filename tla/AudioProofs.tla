---------------------------- MODULE AudioProofs ----------------------------
(***************************************************************************)
(* What play_audio gives to the card, and how long the card has for it,    *)
(* for any number of players, files of any kind, and lists of any size.    *)
(***************************************************************************)
EXTENDS Audio, FiniteSetTheorems, SequenceTheorems, TLAPS

(* What the assumption says of the numbers.                                *)
LEMMA Constants ==
    /\ BufferSize \in Nat \ {0} /\ NumBuffers \in Nat \ {0} /\ Hz \in Nat \ {0}
    /\ Word \in Nat \ {0} /\ Noise \in Nat
    /\ Memory \subseteq [0..10 -> Nat]
    /\ File \subseteq Seq(Nat) /\ Wav \subseteq File
    /\ Position \subseteq Nat /\ \A p \in Player : Choice[p] \subseteq File
  BY AudioAssumption

(* Products, quotients and remainders.                                     *)
LEMMA TimesIsMonotone ==
    ASSUME NEW m \in Nat, NEW a \in Int, NEW b \in Int, a <= b
    PROVE  m * a <= m * b /\ m * a \in Int /\ m * b \in Int
  <1>1. m * (b - a) >= 0
    OBVIOUS
  <1>2. m * (b - a) = m * b - m * a
    OBVIOUS
  <1>. QED
    BY <1>1, <1>2

LEMMA Division ==
    ASSUME NEW n \in Nat, NEW m \in Nat \ {0}
    PROVE  /\ n \div m \in Nat /\ n % m \in 0..(m - 1)
           /\ n = m * (n \div m) + (n % m)
  OBVIOUS

LEMMA Quotient ==
    ASSUME NEW m \in Nat \ {0}, NEW q \in Nat, NEW r \in 0..(m - 1)
    PROVE  (m * q + r) \div m = q /\ (m * q + r) % m = r
  <1>. DEFINE n == m * q + r
  <1>0. n \in Nat
    OBVIOUS
  <1>1. /\ n \div m \in Nat /\ n % m \in 0..(m - 1)
        /\ n = m * (n \div m) + (n % m)
    <2>. HIDE DEF n
    <2>. QED
      BY <1>0, Division
  <1>2. ~(n \div m < q)
    <2>. SUFFICES ASSUME (n \div m) + 1 <= q PROVE FALSE
      BY <1>0, <1>1
    <2>1. m * ((n \div m) + 1) <= m * q
      BY <1>1, TimesIsMonotone
    <2>2. m * ((n \div m) + 1) = m * (n \div m) + m
      BY <1>0, <1>1
    <2>. QED
      BY <1>1, <2>1, <2>2
  <1>3. ~(n \div m > q)
    <2>. SUFFICES ASSUME q + 1 <= n \div m PROVE FALSE
      BY <1>0, <1>1
    <2>1. m * (q + 1) <= m * (n \div m)
      BY <1>1, TimesIsMonotone
    <2>2. m * (q + 1) = m * q + m
      OBVIOUS
    <2>. QED
      BY <1>1, <2>1, <2>2
  <1>4. n \div m = q
    BY <1>1, <1>2, <1>3
  <1>. QED
    BY <1>1, <1>4

(* Min, which the length of a list is taken with.                          *)
LEMMA MinOfTwo ==
    ASSUME NEW a \in Int, NEW b \in Int
    PROVE  Min({a, b}) = IF a <= b THEN a ELSE b
  <1>1. \E x \in {a, b} : \A y \in {a, b} : x =< y
    <2>1. CASE a <= b
      BY <2>1
    <2>2. CASE ~(a <= b)
      BY <2>2
    <2>. QED
      BY <2>1, <2>2
  <1>2. Min({a, b}) \in {a, b} /\ \A y \in {a, b} : Min({a, b}) =< y
    BY <1>1 DEF Min
  <1>. QED
    BY <1>2

(* A read delivers the cells asked for if the file has as many ...         *)
LEMMA CellsAre ==
    ASSUME NEW f \in Seq(Nat), NEW o \in Nat, NEW n \in Nat
    PROVE  /\ Cells(f, o, n) \in Seq(Nat)
           /\ o + n <= Len(f) =>
                 /\ Len(Cells(f, o, n)) = n
                 /\ \A k \in 1..n : Cells(f, o, n)[k] = f[o + k]
  <1>. DEFINE e == IF o + n <= Len(f) THEN o + n ELSE Len(f)
  <1>1. e \in Int /\ e <= Len(f) /\ (o + n <= Len(f) => e = o + n)
    OBVIOUS
  <1>2. Cells(f, o, n) = SubSeq(f, o + 1, e)
    BY DEF Cells
  <1>. HIDE DEF e
  <1>3. \A i \in (o + 1)..e : f[i] \in Nat
    BY <1>1
  <1>4. /\ SubSeq(f, o + 1, e) \in Seq(Nat)
        /\ Len(SubSeq(f, o + 1, e)) = IF o + 1 <= e THEN e - (o + 1) + 1 ELSE 0
        /\ \A i \in 1..(e - (o + 1) + 1) : SubSeq(f, o + 1, e)[i] = f[(o + 1) + i - 1]
    BY <1>1, <1>3, SubSeqProperties
  <1>. QED
    BY <1>1, <1>2, <1>4

(* ... and never more.                                                     *)
LEMMA AtMost ==
    ASSUME NEW f \in Seq(Nat), NEW o \in Nat, NEW n \in Nat
    PROVE  Len(Cells(f, o, n)) \in Nat /\ Len(Cells(f, o, n)) <= n
  <1>. DEFINE e == IF o + n <= Len(f) THEN o + n ELSE Len(f)
  <1>1. e \in Int /\ e <= Len(f) /\ e <= o + n
    OBVIOUS
  <1>2. Cells(f, o, n) = SubSeq(f, o + 1, e)
    BY DEF Cells
  <1>. HIDE DEF e
  <1>3. \A i \in (o + 1)..e : f[i] \in Nat
    BY <1>1
  <1>4. /\ SubSeq(f, o + 1, e) \in Seq(Nat)
        /\ Len(SubSeq(f, o + 1, e)) = IF o + 1 <= e THEN e - (o + 1) + 1 ELSE 0
    BY <1>1, <1>3, SubSeqProperties
  <1>. QED
    BY <1>1, <1>2, <1>4

(* A tag or a size.                                                        *)
LEMMA OneCell ==
    ASSUME NEW f \in Seq(Nat), NEW o \in Nat, o < Len(f)
    PROVE  /\ Cells(f, o, 1) \in Seq(Nat) /\ Len(Cells(f, o, 1)) = 1
           /\ Cells(f, o, 1)[1] = f[o + 1]
           /\ DOMAIN Cells(f, o, 1) = {1}
  <1>1. /\ Cells(f, o, 1) \in Seq(Nat) /\ Len(Cells(f, o, 1)) = 1
        /\ \A k \in 1..1 : Cells(f, o, 1)[k] = f[o + k]
    <2>1. 1 \in Nat /\ o + 1 <= Len(f)
      OBVIOUS
    <2>. QED
      BY <2>1, CellsAre
  <1>. QED
    BY <1>1

(* A WAVHeader, whatever is in it.                                         *)
Header == [0..10 -> Nat]

(* Reading into it changes the cells that are read.                        *)
LEMMA IntoHeader ==
    ASSUME NEW h \in Header, NEW t \in Nat, NEW s \in Seq(Nat)
    PROVE  /\ Into(h, t, s) \in Header
           /\ \A k \in 0..10 : Into(h, t, s)[k] =
                 IF k - t + 1 \in 1..Len(s) THEN s[k - t + 1] ELSE h[k]
  <1>1. DOMAIN h = 0..10 /\ DOMAIN s = 1..Len(s)
    BY DEF Header
  <1>2. ASSUME NEW k \in 0..10
        PROVE  /\ Into(h, t, s)[k] = IF k - t + 1 \in 1..Len(s) THEN s[k - t + 1] ELSE h[k]
               /\ Into(h, t, s)[k] \in Nat
    <2>1. Into(h, t, s)[k] = IF k - t + 1 \in 1..Len(s) THEN s[k - t + 1] ELSE h[k]
      <3>1. k \in DOMAIN h
        BY <1>1
      <3>2. Into(h, t, s)[k] = IF k - t + 1 \in DOMAIN s THEN s[k - t + 1] ELSE h[k]
        BY <3>1 DEF Into
      <3>. QED
        BY <1>1, <3>2
    <2>2. h[k] \in Nat
      BY DEF Header
    <2>3. ASSUME NEW j \in 1..Len(s) PROVE s[j] \in Nat
      OBVIOUS
    <2>. QED
      BY <2>1, <2>2, <2>3
  <1>3. Into(h, t, s) = [k \in 0..10 |-> Into(h, t, s)[k]]
    BY <1>1 DEF Into
  <1>4. Into(h, t, s) \in Header
    BY <1>2, <1>3 DEF Header
  <1>. QED
    BY <1>2, <1>4

(* What a buffer of the list holds.                                        *)
Cell == [1..BufferSize -> Nat]

(* Reading into a buffer.                                                  *)
LEMMA IntoBuffer ==
    ASSUME NEW b \in Cell, NEW s \in Seq(Nat)
    PROVE  /\ Into(b, 1, s) \in Cell
           /\ \A k \in 1..BufferSize : Into(b, 1, s)[k] = IF k <= Len(s) THEN s[k] ELSE b[k]
  <1>1. DOMAIN b = 1..BufferSize /\ DOMAIN s = 1..Len(s)
    BY DEF Cell
  <1>2. ASSUME NEW k \in 1..BufferSize
        PROVE  /\ Into(b, 1, s)[k] = IF k <= Len(s) THEN s[k] ELSE b[k]
               /\ Into(b, 1, s)[k] \in Nat
    <2>1. Into(b, 1, s)[k] = IF k - 1 + 1 \in 1..Len(s) THEN s[k - 1 + 1] ELSE b[k]
      BY <1>1 DEF Into
    <2>2. k - 1 + 1 = k /\ (k \in 1..Len(s) <=> k <= Len(s))
      BY Constants
    <2>3. b[k] \in Nat /\ (k \in 1..Len(s) => s[k] \in Nat)
      BY DEF Cell
    <2>. QED
      BY <2>1, <2>2, <2>3
  <1>3. Into(b, 1, s) = [k \in 1..BufferSize |-> Into(b, 1, s)[k]]
    BY <1>1 DEF Into
  <1>4. Into(b, 1, s) \in Cell
    BY <1>2, <1>3 DEF Cell
  <1>. QED
    BY <1>2, <1>4

(* Where a player is.                                                      *)
Labels == {"out", "open", "fmt", "data", "header", "refused", "next", "fill", "resetting",
           "start", "target", "playing", "played", "gone", "divided"}

(* The types.  A player that is disturbed may get anything into what it    *)
(* plays, but not a length that is none.                                   *)
TypeOK ==
    /\ pc \in [Player -> Labels]
    /\ file \in [Player -> Seq(Nat)]
    /\ offset \in [Player -> Nat]
    /\ wavhdr \in [Player -> Header \cup {<<>>}]
    /\ dataSize \in [Player -> Nat]
    /\ filled \in [Player -> Nat]
    /\ sounded \in [Player -> Seq(Nat)]
    /\ ran \in [Player -> Int]
    /\ since \in [Player -> Nat]
    /\ DOMAIN target = Player
    /\ lvi \in Buffer
    /\ jiffies \in Nat

(* There are buffers when the card is found, which is before a player has  *)
(* opened a file, and a header when it has begun to play.                  *)
CardReady ==
    /\ card > 0 => DOMAIN list = Buffer /\ \A i \in Buffer : list[i].cells \in Cell
    /\ \A p \in Player : /\ pc[p] # "out" => card > 0
                         /\ pc[p] \notin {"out", "open", "gone", "divided"} => wavhdr[p] \in Header

(* Nobody else uses the card while an undisturbed player does.             *)
Exclusive ==
    \A p \in Player : Using(p) /\ p \notin disturbed => \A q \in Player \ {p} : ~Using(q)

(* The cells of a full list.                                               *)
ListOf == NumBuffers * BufferSize
(* Where the sound of p's file begins in it, and how much of it has been   *)
(* played.                                                                 *)
Begin(p) == Layout[file[p]].data + 2
Done(p) == Len(Sound[file[p]]) - dataSize[p]
(* What is in the list after the buffers filled so far.                    *)
ReadSoFar(p) == IF filled[p] <= Full(p) THEN BufferSize * filled[p] ELSE ListSize(p)
(* How many lists the first n cells of a sound are.                        *)
Lists(n) == Cardinality({k \in 0..n : k < n /\ k % ListOf = 0})

(* The header is read from chunk to chunk: the tag last read is that of a  *)
(* chunk not behind the one looked for, and what has been found is what    *)
(* the file says.                                                          *)
Searching(p) ==
    LET f == file[p]
        l == Layout[f]
    IN
    /\ pc[p] = "fmt" => \E c \in l.chunks : /\ c <= l.fmt /\ offset[p] = c + 1
                                            /\ Fmt(p) = f[c + 1]
    /\ pc[p] = "data" => \E c \in l.chunks : /\ l.fmt < c /\ offset[p] = c + 1
                                             /\ Data(p) = f[c + 1]
    /\ pc[p] \in {"fmt", "data", "header"} => Magic(p) = WAVE
    /\ pc[p] \notin {"out", "open", "gone", "divided", "fmt"} => SampleRateEq(p) = f[l.fmt + 5]
    /\ pc[p] = "header" => offset[p] = Begin(p) /\ DataSize(p) = Len(Sound[f])

(* Before that nothing was played in this call.                            *)
Fresh(p) == pc[p] \in {"fmt", "data", "header"} => sounded[p] = <<>> /\ ran[p] = 0

(* Between lists, and in one.                                              *)
Between == {"next", "playing", "played"}
Listing == {"fill", "resetting", "start", "target"}

(* Every list but the last is full, and the offset in the file is that of  *)
(* the sound played and listed.                                            *)
Reading(p) ==
    /\ pc[p] \in Between \cup Listing =>
          /\ dataSize[p] <= Len(Sound[file[p]])
          /\ Done(p) % ListOf = 0 \/ dataSize[p] = 0
    /\ pc[p] \in Between => offset[p] = Begin(p) + Done(p)
    /\ pc[p] \in Listing => dataSize[p] > 0
    /\ pc[p] = "fill" => /\ filled[p] <= Full(p) + (IF IsLast(p) THEN 1 ELSE 0)
                         /\ offset[p] = Begin(p) + Done(p) + ReadSoFar(p)
    /\ pc[p] \in Listing \ {"fill"} => offset[p] = Begin(p) + Done(p) + ListSize(p)
    /\ pc[p] = "played" => dataSize[p] = 0

(* The first n cells of the list are those of the sound that follow what   *)
(* was played.                                                             *)
Holds(p, n) ==
    \A k \in 0..(n - 1) :
       list[k \div BufferSize].cells[(k % BufferSize) + 1] = Sound[file[p]][Done(p) + k + 1]

(* The card is told the last buffer that p fills, and the list holds the   *)
(* sound.                                                                  *)
Filling(p) ==
    /\ pc[p] \in {"fill", "resetting", "start"} => lvi = LastValid(p)
    /\ pc[p] = "fill" => Holds(p, ReadSoFar(p))
    /\ pc[p] \in {"resetting", "start"} => Holds(p, ListSize(p))

(* p has given the first n cells of the sound to the card.                 *)
First(p, n) ==
    /\ Len(sounded[p]) = n
    /\ \A k \in 1..n : sounded[p][k] = Sound[file[p]][k]

(* Those are the cells of the lists it started.                            *)
Sounding(p) ==
    /\ pc[p] \in (Between \cup Listing) \ {"target"} => First(p, Done(p))
    /\ pc[p] = "target" => First(p, Done(p) + ListSize(p))

(* p plays a file of the expected format from its start and has the card   *)
(* for itself.                                                             *)
Undisturbed(p) == Proper(p) /\ p \notin disturbed

(* Where each player is in its file and its list.                          *)
OnTheWay(p) ==
    /\ Fresh(p)
    /\ Proper(p) => Searching(p) /\ Reading(p)
    /\ Undisturbed(p) => Filling(p) /\ Sounding(p)

(* The inductive invariant.  That the lists given to the card were the     *)
(* sound is not inductive: it needs what is in the list when it is         *)
(* started, so what has been filled and from which offset, so where the    *)
(* search of the header ended, and that nobody else has filled the list    *)
(* meanwhile.                                                              *)
IInv == TypeOK /\ CardReady /\ Exclusive /\ \A p \in Player : OnTheWay(p)

(* So many jiffies, and one for each list, are as long as so many cells.   *)
LongEnough(p, cells, lasted) == SampleRateEq(p) * (lasted + Lists(cells)) >= Hz * cells

(* The time the card had for the lists so far, or will have had when the   *)
(* last one ends.                                                          *)
Timed(p) ==
    /\ pc[p] \in (Between \cup Listing) \ {"playing"} => LongEnough(p, Done(p), ran[p])
    /\ pc[p] \in {"target", "playing"} => since[p] <= jiffies
    /\ pc[p] = "playing" => /\ target[p] \in Nat
                            /\ LongEnough(p, Done(p), ran[p] + (target[p] - since[p]))

(* So for every player of a file in the expected format.                   *)
TInv == \A p \in Player : Proper(p) => Timed(p)

(* Two limits the code does not check: jiffies has not come to its end,    *)
(* and the jiffies of a list are computed in 32 bits.  All states of the   *)
(* instance in MCAudio are within them.                                    *)
TimesFit ==
    /\ jiffies < Word - 1
    /\ \A p \in Player : Proper(p) /\ pc[p] = "target" =>
          /\ (ListSize(p) % SampleRateEq(p)) * Hz < Word
          /\ jiffies + Hz * (ListSize(p) \div SampleRateEq(p))
                + (((ListSize(p) % SampleRateEq(p)) * Hz) \div SampleRateEq(p)) < Word

(* How many cells and buffers a list has: fillBuffers and play agree on    *)
(* it, and its last buffer is one of the card's.                           *)
LEMMA ListSizes ==
    ASSUME NEW p \in Player, dataSize[p] \in Nat
    PROVE  /\ ListOf \in Nat \ {0} /\ ListSize(p) \in Nat /\ ListSize(p) <= dataSize[p]
           /\ Full(p) \in Nat /\ LastValid(p) \in Int
           /\ IsLast(p) => /\ ListSize(p) = dataSize[p]
                           /\ ListSize(p) = BufferSize * Full(p) + (dataSize[p] % BufferSize)
                           /\ dataSize[p] % BufferSize \in 0..(BufferSize - 1)
                           /\ Full(p) < NumBuffers /\ LastValid(p) = Full(p)
           /\ ~IsLast(p) => /\ ListSize(p) = ListOf /\ ListSize(p) = BufferSize * Full(p)
                            /\ Full(p) = NumBuffers /\ LastValid(p) = NumBuffers - 1
           /\ LastValid(p) \in Buffer
  <1>. DEFINE d == dataSize[p]
  <1>1. /\ NumBuffers * BufferSize \in Nat \ {0} /\ NumBuffers * BufferSize = BufferSize * NumBuffers
        /\ BufferSize \in Nat \ {0} /\ NumBuffers \in Nat \ {0}
    BY Constants
  <1>2. CASE IsLast(p)
    <2>1. ListSize(p) = d /\ d < BufferSize * NumBuffers /\ d \in Nat
      BY <1>1, <1>2 DEF ListSize, IsLast
    <2>2. /\ d \div BufferSize \in Nat /\ d % BufferSize \in 0..(BufferSize - 1)
          /\ d = BufferSize * (d \div BufferSize) + (d % BufferSize)
      BY <1>1, <2>1, Division
    <2>3. d \div BufferSize < NumBuffers
      <3>. SUFFICES ASSUME NumBuffers <= d \div BufferSize PROVE FALSE
        BY <1>1, <2>2
      <3>1. BufferSize * NumBuffers <= BufferSize * (d \div BufferSize)
        BY <1>1, <2>2, TimesIsMonotone
      <3>. QED
        BY <1>1, <2>1, <2>2, <3>1
    <2>4. Full(p) = d \div BufferSize
      BY <2>1 DEF Full
    <2>5. LastValid(p) = Full(p)
      BY <1>2, <2>2, <2>4 DEF LastValid
    <2>6. LastValid(p) \in Buffer
      BY <1>1, <2>2, <2>3, <2>4, <2>5 DEF Buffer
    <2>7. ListSize(p) = BufferSize * Full(p) + (d % BufferSize)
      BY <2>1, <2>2, <2>4
    <2>8. ListOf \in Nat \ {0}
      BY <1>1 DEF ListOf
    <2>. QED
      BY <1>2, <2>1, <2>2, <2>3, <2>4, <2>5, <2>6, <2>7, <2>8
  <1>3. CASE ~IsLast(p)
    <2>1. ListSize(p) = BufferSize * NumBuffers /\ BufferSize * NumBuffers <= d
      BY <1>1, <1>3 DEF ListSize, IsLast
    <2>2. (BufferSize * NumBuffers + 0) \div BufferSize = NumBuffers
      BY <1>1, Quotient
    <2>3. Full(p) = NumBuffers
      BY <1>1, <2>1, <2>2 DEF Full
    <2>. QED
      BY <1>1, <1>3, <2>1, <2>3 DEF LastValid, Buffer, ListOf
  <1>. QED
    BY <1>2, <1>3

(* A step leaves q's variables alone ...                                   *)
OwnSame(q) ==
    /\ pc'[q] = pc[q] /\ file'[q] = file[q] /\ offset'[q] = offset[q] /\ wavhdr'[q] = wavhdr[q]
    /\ dataSize'[q] = dataSize[q] /\ filled'[q] = filled[q] /\ sounded'[q] = sounded[q]
    /\ ran'[q] = ran[q] /\ since'[q] = since[q] /\ target'[q] = target[q]
    /\ q \in rewound' <=> q \in rewound

(* ... and what the invariant says of q, if the list is left alone while q *)
(* uses it undisturbed.                                                    *)
LEMMA OthersStay ==
    ASSUME NEW q \in Player, OnTheWay(q), OwnSame(q), q \in disturbed => q \in disturbed',
           Using(q) /\ q \notin disturbed' => list' = list /\ lvi' = lvi
    PROVE  OnTheWay(q)'
  <1>1. /\ Fmt(q)' = Fmt(q) /\ Data(q)' = Data(q) /\ Magic(q)' = Magic(q)
        /\ SampleRateEq(q)' = SampleRateEq(q) /\ DataSize(q)' = DataSize(q)
    BY DEF OwnSame, Fmt, Data, Magic, SampleRateEq, DataSize
  <1>2. /\ Begin(q)' = Begin(q) /\ Done(q)' = Done(q) /\ IsLast(q)' = IsLast(q)
        /\ ListSize(q)' = ListSize(q) /\ Full(q)' = Full(q) /\ LastValid(q)' = LastValid(q)
        /\ ReadSoFar(q)' = ReadSoFar(q)
    BY DEF OwnSame, Begin, Done, IsLast, ListSize, Full, LastValid, ReadSoFar
  <1>3. Fresh(q)'
    BY DEF OwnSame, OnTheWay, Fresh
  <1>4. ASSUME Proper(q)' PROVE Searching(q)' /\ Reading(q)'
    <2>1. Searching(q) /\ Reading(q)
      BY <1>4 DEF OnTheWay, OwnSame, Proper
    <2>2. Searching(q)'
      BY <1>1, <1>2, <2>1 DEF Searching, OwnSame
    <2>3. Reading(q)'
      BY <1>2, <2>1 DEF Reading, OwnSame
    <2>. QED
      BY <2>2, <2>3
  <1>5. ASSUME Undisturbed(q)' PROVE Filling(q)' /\ Sounding(q)'
    <2>1. Filling(q) /\ Sounding(q) /\ q \notin disturbed'
      BY <1>5 DEF OnTheWay, OwnSame, Undisturbed, Proper
    <2>2. Sounding(q)'
      BY <1>2, <2>1 DEF Sounding, First, OwnSame
    <2>3. CASE Using(q)
      <3>1. list' = list /\ lvi' = lvi
        BY <2>1, <2>3
      <3>. QED
        BY <1>2, <2>1, <2>2, <3>1 DEF Filling, Holds, OwnSame
    <2>4. CASE ~Using(q)
      BY <2>2, <2>4 DEF Filling, OwnSame, Using
    <2>. QED
      BY <2>3, <2>4
  <1>. QED
    BY <1>3, <1>4, <1>5 DEF OnTheWay

(* A step that makes nobody use the card keeps the undisturbed alone.      *)
LEMMA ExclusiveStays ==
    ASSUME Exclusive,
           \A q \in Player : Using(q)' => Using(q) /\ (q \in disturbed => q \in disturbed')
    PROVE  Exclusive'
  BY DEF Exclusive

(* So for a step of p what the invariant says of p remains to be shown.    *)
LEMMA PlayerMoves ==
    ASSUME IInv, NEW p \in Player, TypeOK', CardReady', Exclusive', OnTheWay(p)',
           \A q \in Player \ {p} : OwnSame(q) /\ (q \in disturbed => q \in disturbed'),
           \A q \in Player \ {p} : Using(q) /\ q \notin disturbed' => list' = list /\ lvi' = lvi
    PROVE  IInv'
  <1>1. ASSUME NEW q \in Player, q # p PROVE OnTheWay(q)'
    BY <1>1, OthersStay DEF IInv
  <1>. QED
    BY <1>1 DEF IInv

(* What a file of the expected format is, piece by piece.                  *)
LEMMA WavFiles ==
    ASSUME NEW f \in Wav
    PROVE  /\ f \in Seq(Nat) /\ Sound[f] \in Seq(Nat) /\ Len(f) \in Nat /\ Len(Sound[f]) \in Nat
           /\ Len(f) < Word
           /\ Layout[f].chunks \subseteq Nat
           /\ Layout[f].fmt \in Nat /\ Layout[f].data \in Nat
           /\ IsWav(f, Sound[f], Layout[f])
  <1>1. f \in Seq(Nat) /\ Sound[f] \in Seq(Nat) /\ Len(f) < Word
    BY AudioAssumption
  <1>2. /\ Layout[f] \in [chunks : SUBSET Nat, fmt : Nat, data : Nat]
        /\ IsWav(f, Sound[f], Layout[f])
    BY AudioAssumption
  <1>. QED
    BY <1>1, <1>2

(* Behind a chunk that is not the last there is another, not behind the    *)
(* one looked for.                                                         *)
LEMMA NextChunk ==
    ASSUME NEW f \in Wav, NEW c \in Layout[f].chunks, c < Layout[f].data
    PROVE  /\ c \in Nat /\ c + 2 <= Len(f) /\ f[c + 2] \in Nat
           /\ c + 2 + f[c + 2] \in Layout[f].chunks
           /\ c + 2 + f[c + 2] <= Layout[f].data
           /\ c + 2 + f[c + 2] < Len(f)
           /\ c < Layout[f].fmt => c + 2 + f[c + 2] <= Layout[f].fmt
  <1>0. /\ c \in Nat /\ Layout[f].data \in Nat /\ Len(f) \in Nat /\ f \in Seq(Nat)
        /\ Len(Sound[f]) \in Nat /\ IsWav(f, Sound[f], Layout[f])
    BY WavFiles
  <1>1. /\ c \in Nat /\ Layout[f].data \in Nat /\ Layout[f].data + 2 <= Len(f)
        /\ Len(f) \in Nat /\ f \in Seq(Nat)
    BY <1>0 DEF IsWav
  <1>2. c + 2 \in 1..Len(f)
    BY <1>1
  <1>3. f[c + 2] \in Nat
    BY <1>1, <1>2
  <1>4. /\ c + 2 + f[c + 2] \in Layout[f].chunks
        /\ c + 2 + f[c + 2] <= Layout[f].data
        /\ c < Layout[f].fmt => c + 2 + f[c + 2] <= Layout[f].fmt
    BY <1>0 DEF IsWav
  <1>. QED
    BY <1>1, <1>2, <1>3, <1>4

(* A round of the search leaves a header and an offset whatever the file   *)
(* is; in one of the expected format it goes from one chunk to the next.   *)
LEMMA SkipTyped ==
    ASSUME TypeOK, NEW p \in Player, wavhdr[p] \in Header, NEW t \in {3, 9}, SkipChunk(p, t)
    PROVE  /\ \E h \in Header, o \in Nat : HeaderRead(p, h, o)
           /\ \A k \in 0..10 : k # t /\ k # t + 1 => wavhdr'[p][k] = wavhdr[p][k]
           /\ \A c \in Nat : c + 1 = offset[p] /\ c + 2 <= Len(file[p])
                 /\ c + 2 + file[p][c + 2] < Len(file[p]) /\ Len(file[p]) < Word =>
                 /\ offset'[p] = (c + 2 + file[p][c + 2]) + 1
                 /\ wavhdr'[p][t] = file[p][(c + 2 + file[p][c + 2]) + 1]
  <1>. DEFINE f == file[p]
              size == Cells(f, offset[p], 1)
              h == Into(wavhdr[p], t + 1, size)
              behind == offset[p] + Len(size)
              next == Skipped(f, behind, h[t + 1])
              tag == Cells(f, next, 1)
  <1>0. HeaderRead(p, Into(h, t, tag), next + Len(tag))
    BY DEF SkipChunk
  <1>1. /\ wavhdr' = [wavhdr EXCEPT ![p] = Into(h, t, tag)]
        /\ offset' = [offset EXCEPT ![p] = next + Len(tag)]
    BY <1>0 DEF HeaderRead
  <1>2. f \in Seq(Nat) /\ offset[p] \in Nat /\ 1 \in Nat /\ t \in Nat /\ t + 1 \in Nat
        /\ Len(f) \in Nat
    BY DEF TypeOK
  <1>3. size \in Seq(Nat) /\ Len(size) \in Nat
    <2>1. size \in Seq(Nat)
      BY <1>2, CellsAre
    <2>. QED
      BY <2>1
  <1>4. /\ h \in Header
        /\ \A k \in 0..10 : h[k] =
              IF k - (t + 1) + 1 \in 1..Len(size) THEN size[k - (t + 1) + 1] ELSE wavhdr[p][k]
    <2>. HIDE DEF size
    <2>. QED
      BY <1>2, <1>3, IntoHeader
  <1>5. h[t + 1] \in Nat /\ behind \in Nat
    <2>1. t + 1 \in 0..10
      OBVIOUS
    <2>2. h[t + 1] \in Nat
      <3>. HIDE DEF h
      <3>. QED
        BY <1>4, <2>1 DEF Header
    <2>3. behind \in Nat
      <3>. HIDE DEF size
      <3>. QED
        BY <1>2, <1>3
    <2>. QED
      BY <2>2, <2>3
  <1>6. next \in Nat
    <2>. HIDE DEF behind, h
    <2>1. behind + h[t + 1] \in Nat
      BY <1>5
    <2>. DEFINE sum == behind + h[t + 1]
    <2>2. sum % Word \in Nat
      <3>1. sum \in Nat
        BY <2>1
      <3>. HIDE DEF sum
      <3>. QED
        BY <3>1, Constants, Division
    <2>3. next = Sought(f, behind, sum % Word)
      BY DEF Skipped
    <2>. HIDE DEF sum
    <2>. QED
      BY <1>2, <1>5, <2>2, <2>3 DEF Sought
  <1>7. tag \in Seq(Nat) /\ Len(tag) \in Nat
    <2>1. tag \in Seq(Nat)
      <3>. HIDE DEF next
      <3>. QED
        BY <1>2, <1>6, CellsAre
    <2>. QED
      BY <2>1
  <1>8. /\ Into(h, t, tag) \in Header
        /\ \A k \in 0..10 : Into(h, t, tag)[k] =
              IF k - t + 1 \in 1..Len(tag) THEN tag[k - t + 1] ELSE h[k]
    <2>. HIDE DEF h, tag
    <2>. QED
      BY <1>2, <1>4, <1>7, IntoHeader
  <1>9. Len(size) <= 1 /\ Len(tag) <= 1
    <2>1. ASSUME NEW o \in Nat PROVE Len(Cells(f, o, 1)) <= 1
      BY <1>2, <2>1, AtMost
    <2>. HIDE DEF next
    <2>. QED
      BY <1>2, <1>6, <2>1
  <1>10. wavhdr'[p] = Into(h, t, tag) /\ offset'[p] = next + Len(tag)
    <2>. HIDE DEF h, tag, next
    <2>. QED
      BY <1>1 DEF TypeOK
  <1>11. \E g \in Header, o \in Nat : HeaderRead(p, g, o)
    <2>. HIDE DEF h, tag, next
    <2>1. next + Len(tag) \in Nat
      BY <1>6, <1>7
    <2>. QED
      BY <1>0, <1>8, <2>1
  <1>12. ASSUME NEW k \in 0..10, k # t, k # t + 1 PROVE wavhdr'[p][k] = wavhdr[p][k]
    <2>1. k - t + 1 \notin 1..Len(tag) /\ k - (t + 1) + 1 \notin 1..Len(size)
      <3>. HIDE DEF tag, size
      <3>. QED
        BY <1>2, <1>3, <1>7, <1>9, <1>12
    <2>. HIDE DEF h, tag, size
    <2>. QED
      BY <1>4, <1>8, <1>10, <2>1
  <1>13. ASSUME NEW c \in Nat, c + 1 = offset[p], c + 2 <= Len(f), c + 2 + f[c + 2] < Len(f),
                Len(f) < Word
         PROVE  /\ offset'[p] = (c + 2 + f[c + 2]) + 1
                /\ wavhdr'[p][t] = f[(c + 2 + f[c + 2]) + 1]
    <2>1. Len(size) = 1 /\ size[1] = f[c + 2]
      <3>1. c + 1 < Len(f)
        BY <1>2, <1>13
      <3>. QED
        BY <1>2, <1>13, <3>1, OneCell
    <2>2. h[t + 1] = f[c + 2] /\ f[c + 2] \in Nat
      <3>1. (t + 1) - (t + 1) + 1 = 1 /\ 1 \in 1..Len(size) /\ t + 1 \in 0..10
        BY <2>1
      <3>. HIDE DEF size, h
      <3>. QED
        BY <1>4, <1>5, <2>1, <3>1
    <2>3. next = c + 2 + f[c + 2]
      <3>1. behind = c + 2
        <4>. HIDE DEF size
        <4>. QED
          BY <2>1, <1>13
      <3>2. /\ c + 2 + f[c + 2] < Len(f) /\ c \in Nat /\ f[c + 2] \in Nat /\ Len(f) \in Nat
            /\ Len(f) < Word /\ Word \in Nat \ {0}
        BY <1>2, <1>13, <2>2, Constants
      <3>3. behind + h[t + 1] = c + 2 + f[c + 2]
        <4>. HIDE DEF h, behind, f
        <4>. QED
          BY <2>2, <3>1
      <3>. HIDE DEF h, behind, f
      <3>4. (behind + h[t + 1]) % Word = c + 2 + f[c + 2]
        BY ONLY <3>2, <3>3
      <3>5. ~(c + 2 + f[c + 2] > Len(f))
        BY ONLY <3>2
      <3>. QED
        BY ONLY <3>4, <3>5 DEF Skipped, Sought, next
    <2>4. Len(tag) = 1 /\ tag[1] = f[(c + 2 + f[c + 2]) + 1]
      <3>. HIDE DEF next
      <3>. QED
        BY <1>2, <1>6, <1>13, <2>3, OneCell
    <2>5. Into(h, t, tag)[t] = tag[1]
      <3>1. t - t + 1 = 1 /\ 1 \in 1..Len(tag) /\ t \in 0..10
        BY <2>4
      <3>. HIDE DEF tag, h
      <3>. QED
        BY <1>8, <3>1
    <2>. HIDE DEF tag, h, next
    <2>. QED
      BY <1>10, <2>3, <2>4, <2>5
  <1>. QED
    BY <1>11, <1>12, <1>13

(* A step of the search keeps the invariant if the search is where it      *)
(* should be.                                                              *)
LEMMA HeaderStep ==
    ASSUME IInv, NEW p \in Player, pc[p] \in {"fmt", "data"},
           NEW h \in Header, NEW o \in Nat, HeaderRead(p, h, o),
           NEW place \in {"fmt", "data", "header"}, pc' = [pc EXCEPT ![p] = place],
           Proper(p) => Searching(p)'
    PROVE  IInv'
  <1>1. /\ wavhdr' = [wavhdr EXCEPT ![p] = h] /\ offset' = [offset EXCEPT ![p] = o]
        /\ card' = card /\ list' = list /\ lvi' = lvi /\ jiffies' = jiffies /\ file' = file
        /\ dataSize' = dataSize /\ filled' = filled /\ target' = target
        /\ since' = since /\ ran' = ran /\ sounded' = sounded
        /\ disturbed' = disturbed /\ rewound' = rewound
    BY DEF HeaderRead, registers, begun, counts, history
  <1>2. TypeOK'
    BY <1>1 DEF IInv, TypeOK, Labels, Buffer
  <1>3. /\ \A q \in Player \ {p} : OwnSame(q)
        /\ pc'[p] = place /\ wavhdr'[p] = h
    BY <1>1 DEF IInv, TypeOK, OwnSame
  <1>4. CardReady'
    <2>1. card > 0
      BY DEF IInv, CardReady
    <2>2. ASSUME NEW q \in Player, pc'[q] \notin {"out", "open", "gone", "divided"} PROVE wavhdr'[q] \in Header
      <3>1. CASE q = p
        BY <1>3, <3>1
      <3>2. CASE q # p
        BY <1>3, <3>2, <2>2 DEF IInv, CardReady, OwnSame
      <3>. QED
        BY <3>1, <3>2
    <2>. QED
      BY <1>1, <2>1, <2>2 DEF IInv, CardReady
  <1>5. Exclusive'
    <2>1. \A q \in Player : Using(q)' => Using(q)
      <3>1. ASSUME NEW q \in Player, Using(q)' PROVE Using(q)
        <4>1. CASE q = p
          BY <1>3, <3>1, <4>1 DEF Using
        <4>2. CASE q # p
          BY <1>3, <3>1, <4>2 DEF Using, OwnSame
        <4>. QED
          BY <4>1, <4>2
      <3>. QED
        BY <3>1
    <2>. QED
      BY <1>1, <2>1, ExclusiveStays DEF IInv
  <1>6. OnTheWay(p)'
    <2>1. Fresh(p)'
      BY <1>1 DEF IInv, OnTheWay, Fresh
    <2>2. Reading(p)' /\ Filling(p)' /\ Sounding(p)'
      BY <1>3 DEF Reading, Filling, Sounding, Between, Listing
    <2>. QED
      BY <1>1, <2>1, <2>2 DEF OnTheWay, Proper
  <1>. QED
    BY <1>1, <1>2, <1>3, <1>4, <1>5, <1>6, PlayerMoves

(* SkipToFmt keeps the invariant.                                          *)
LEMMA SkipToFmtKeeps ==
    ASSUME IInv, NEW p \in Player, SkipToFmt(p)
    PROVE  IInv'
  <1>1. /\ pc[p] = "fmt" /\ Fmt(p) # FMT /\ SkipChunk(p, 3) /\ pc' = [pc EXCEPT ![p] = "fmt"]
        /\ TypeOK /\ wavhdr[p] \in Header
    BY DEF SkipToFmt, IInv, TypeOK, CardReady
  <1>2. PICK h \in Header, o \in Nat : HeaderRead(p, h, o)
    BY <1>1, SkipTyped
  <1>3. ASSUME Proper(p) PROVE Searching(p)'
    <2>. DEFINE f == file[p]
                l == Layout[f]
    <2>1. PICK c \in l.chunks : c <= l.fmt /\ offset[p] = c + 1 /\ Fmt(p) = f[c + 1]
      BY <1>1, <1>3 DEF IInv, OnTheWay, Searching
    <2>2. /\ c < l.fmt /\ c < l.data /\ c \in Nat
      <3>1. IsWav(f, Sound[f], l) /\ c \in Nat /\ l.fmt \in Nat /\ l.data \in Nat
        BY <1>3, <2>1, WavFiles DEF Proper
      <3>2. l.fmt < l.data /\ f[l.fmt + 1] = FMT
        BY <3>1 DEF IsWav
      <3>3. c # l.fmt
        BY <1>1, <2>1, <3>2
      <3>. QED
        BY <2>1, <3>1, <3>2, <3>3
    <2>3. PICK d \in l.chunks : d = c + 2 + f[c + 2] /\ d <= l.fmt /\ c + 2 <= Len(f) /\ d < Len(f)
      BY <1>3, <2>2, NextChunk DEF Proper
    <2>4. offset'[p] = d + 1 /\ wavhdr'[p][3] = f[d + 1] /\ wavhdr'[p][2] = wavhdr[p][2]
      <3>1. 3 \in {3, 9}
        OBVIOUS
      <3>2. /\ \A k \in 0..10 : k # 3 /\ k # 3 + 1 => wavhdr'[p][k] = wavhdr[p][k]
            /\ \A e \in Nat : e + 1 = offset[p] /\ e + 2 <= Len(f)
                  /\ e + 2 + f[e + 2] < Len(f) /\ Len(f) < Word =>
                  /\ offset'[p] = (e + 2 + f[e + 2]) + 1
                  /\ wavhdr'[p][3] = f[(e + 2 + f[e + 2]) + 1]
        BY <1>1, <3>1, SkipTyped
      <3>3. c + 1 = offset[p] /\ c + 2 <= Len(f) /\ c + 2 + f[c + 2] < Len(f) /\ Len(f) < Word
        BY <1>3, <2>1, <2>3, WavFiles DEF Proper
      <3>4. /\ offset'[p] = (c + 2 + f[c + 2]) + 1
            /\ wavhdr'[p][3] = f[(c + 2 + f[c + 2]) + 1]
        BY <2>2, <3>2, <3>3
      <3>5. wavhdr'[p][2] = wavhdr[p][2]
        BY <3>2
      <3>. QED
        BY <2>3, <3>4, <3>5
    <2>5. pc'[p] = "fmt" /\ file' = file
      BY <1>1, <1>2 DEF HeaderRead, TypeOK
    <2>6. Magic(p) = WAVE
      BY <1>1, <1>3 DEF IInv, OnTheWay, Searching
    <2>. QED
      BY <2>3, <2>4, <2>5, <2>6 DEF Searching, Fmt, Magic
  <1>. QED
    BY <1>1, <1>2, <1>3, HeaderStep

(* SkipToData keeps the invariant.                                         *)
LEMMA SkipToDataKeeps ==
    ASSUME IInv, NEW p \in Player, SkipToData(p)
    PROVE  IInv'
  <1>1. /\ pc[p] = "data" /\ Data(p) # DATA /\ SkipChunk(p, 9) /\ pc' = [pc EXCEPT ![p] = "data"]
        /\ TypeOK /\ wavhdr[p] \in Header
    BY DEF SkipToData, IInv, TypeOK, CardReady
  <1>2. PICK h \in Header, o \in Nat : HeaderRead(p, h, o)
    BY <1>1, SkipTyped
  <1>3. ASSUME Proper(p) PROVE Searching(p)'
    <2>. DEFINE f == file[p]
                l == Layout[f]
    <2>1. PICK c \in l.chunks : l.fmt < c /\ offset[p] = c + 1 /\ Data(p) = f[c + 1]
      BY <1>1, <1>3 DEF IInv, OnTheWay, Searching
    <2>2. c < l.data /\ c \in Nat /\ l.fmt \in Nat
      <3>1. IsWav(f, Sound[f], l) /\ c \in Nat /\ l.fmt \in Nat /\ l.data \in Nat
        BY <1>3, <2>1, WavFiles DEF Proper
      <3>2. c <= l.data /\ f[l.data + 1] = DATA
        BY <2>1, <3>1 DEF IsWav
      <3>3. c # l.data
        BY <1>1, <2>1, <3>2
      <3>. QED
        BY <3>1, <3>2, <3>3
    <2>3. PICK d \in l.chunks : d = c + 2 + f[c + 2] /\ l.fmt < d /\ c + 2 <= Len(f) /\ d < Len(f)
      <3>1. f[c + 2] \in Nat /\ c + 2 + f[c + 2] \in l.chunks
        BY <1>3, <2>2, NextChunk DEF Proper
      <3>2. l.fmt < c + 2 + f[c + 2]
        BY <2>1, <2>2, <3>1
      <3>. QED
        BY <1>3, <2>2, <3>1, <3>2, NextChunk DEF Proper
    <2>4. /\ offset'[p] = d + 1 /\ wavhdr'[p][9] = f[d + 1] /\ wavhdr'[p][2] = wavhdr[p][2]
          /\ wavhdr'[p][7] = wavhdr[p][7]
      <3>1. 9 \in {3, 9}
        OBVIOUS
      <3>2. /\ \A k \in 0..10 : k # 9 /\ k # 9 + 1 => wavhdr'[p][k] = wavhdr[p][k]
            /\ \A e \in Nat : e + 1 = offset[p] /\ e + 2 <= Len(f)
                  /\ e + 2 + f[e + 2] < Len(f) /\ Len(f) < Word =>
                  /\ offset'[p] = (e + 2 + f[e + 2]) + 1
                  /\ wavhdr'[p][9] = f[(e + 2 + f[e + 2]) + 1]
        BY <1>1, <3>1, SkipTyped
      <3>3. c + 1 = offset[p] /\ c + 2 <= Len(f) /\ c + 2 + f[c + 2] < Len(f) /\ Len(f) < Word
        BY <1>3, <2>1, <2>3, WavFiles DEF Proper
      <3>4. /\ offset'[p] = (c + 2 + f[c + 2]) + 1
            /\ wavhdr'[p][9] = f[(c + 2 + f[c + 2]) + 1]
        BY <2>2, <3>2, <3>3
      <3>5. wavhdr'[p][2] = wavhdr[p][2] /\ wavhdr'[p][7] = wavhdr[p][7]
        BY <3>2
      <3>. QED
        BY <2>3, <3>4, <3>5
    <2>5. pc'[p] = "data" /\ file' = file
      BY <1>1, <1>2 DEF HeaderRead, TypeOK
    <2>6. Magic(p) = WAVE /\ SampleRateEq(p) = f[l.fmt + 5]
      BY <1>1, <1>3 DEF IInv, OnTheWay, Searching
    <2>. QED
      BY <2>3, <2>4, <2>5, <2>6 DEF Searching, Data, Magic, SampleRateEq
  <1>. QED
    BY <1>1, <1>2, <1>3, HeaderStep

(* ReadFmt keeps the invariant.                                            *)
LEMMA ReadFmtKeeps ==
    ASSUME IInv, NEW p \in Player, ReadFmt(p)
    PROVE  IInv'
  <1>. DEFINE f == file[p]
              length == Cells(f, offset[p], 1)
              h == Into(wavhdr[p], 4, length)
              behind == offset[p] + Len(length)
              rest == Cells(f, behind, h[4] + 1)
              l == Layout[f]
  <1>1. /\ pc[p] = "fmt" /\ Fmt(p) = FMT /\ pc' = [pc EXCEPT ![p] = "data"]
        /\ HeaderRead(p, Into(h, 5, rest), behind + Len(rest))
    BY DEF ReadFmt
  <1>2. /\ f \in Seq(Nat) /\ offset[p] \in Nat /\ Len(f) \in Nat /\ pc \in [Player -> Labels]
        /\ wavhdr[p] \in Header
    <2>1. pc[p] \notin {"out", "open", "gone", "divided"}
      BY <1>1
    <2>. QED
      BY <2>1 DEF IInv, TypeOK, CardReady
  <1>3. length \in Seq(Nat) /\ Len(length) \in Nat
    BY <1>2, CellsAre, AtMost
  <1>4. /\ h \in Header
        /\ \A k \in 0..10 : h[k] =
              IF k - 4 + 1 \in 1..Len(length) THEN length[k - 4 + 1] ELSE wavhdr[p][k]
    <2>1. 4 \in Nat
      OBVIOUS
    <2>. HIDE DEF length
    <2>. QED
      BY <1>2, <1>3, <2>1, IntoHeader
  <1>5. h[4] \in Nat /\ h[4] + 1 \in Nat /\ behind \in Nat
    <2>1. h[4] \in Nat
      <3>. HIDE DEF h
      <3>. QED
        BY <1>4 DEF Header
    <2>2. behind \in Nat
      <3>. HIDE DEF length
      <3>. QED
        BY <1>2, <1>3
    <2>. HIDE DEF h
    <2>. QED
      BY <2>1, <2>2
  <1>6. rest \in Seq(Nat) /\ Len(rest) \in Nat
    <2>. HIDE DEF h, behind
    <2>. QED
      BY <1>2, <1>5, CellsAre, AtMost
  <1>7. /\ Into(h, 5, rest) \in Header
        /\ \A k \in 0..10 : Into(h, 5, rest)[k] =
              IF k - 5 + 1 \in 1..Len(rest) THEN rest[k - 5 + 1] ELSE h[k]
    <2>1. 5 \in Nat
      OBVIOUS
    <2>. HIDE DEF h, rest
    <2>. QED
      BY <1>4, <1>6, <2>1, IntoHeader
  <1>8. behind + Len(rest) \in Nat
    <2>. HIDE DEF behind, rest
    <2>. QED
      BY <1>5, <1>6
  <1>9. ASSUME Proper(p) PROVE Searching(p)'
    <2>1. PICK c \in l.chunks : c <= l.fmt /\ offset[p] = c + 1 /\ Fmt(p) = f[c + 1]
      BY <1>1, <1>9 DEF IInv, OnTheWay, Searching
    <2>2. /\ c = l.fmt /\ c < l.data /\ c \in Nat /\ f[c + 2] = 4
      <3>1. IsWav(f, Sound[f], l) /\ c \in Nat /\ l.fmt \in Nat /\ l.data \in Nat
        BY <1>9, <2>1, WavFiles DEF Proper
      <3>2. /\ l.fmt < l.data /\ f[l.fmt + 2] = 4
            /\ c < l.fmt => f[c + 1] # FMT
        BY <2>1, <3>1 DEF IsWav
      <3>3. c = l.fmt
        BY <1>1, <2>1, <3>1, <3>2
      <3>. QED
        BY <3>1, <3>2, <3>3
    <2>3. PICK d \in l.chunks : d = c + 6 /\ d < Len(f)
      <3>1. c + 2 + f[c + 2] \in l.chunks /\ c + 2 + f[c + 2] < Len(f)
        BY <1>9, <2>2, NextChunk DEF Proper
      <3>2. c + 2 + f[c + 2] = c + 6
        BY <2>2
      <3>. QED
        BY <3>1, <3>2
    <2>4. Len(length) = 1 /\ length[1] = 4
      <3>1. offset[p] < Len(f)
        <4>1. offset[p] = c + 1 /\ c \in Nat /\ c + 6 < Len(f) /\ Len(f) \in Nat
          BY <1>2, <2>1, <2>2, <2>3
        <4>. HIDE DEF f, l
        <4>. QED
          BY ONLY <4>1
      <3>2. Len(length) = 1 /\ length[1] = f[offset[p] + 1]
        BY <1>2, <3>1, OneCell
      <3>3. offset[p] + 1 = c + 2
        BY <2>1, <2>2
      <3>. HIDE DEF length
      <3>. QED
        BY <2>2, <3>2, <3>3
    <2>5. h[4] = 4 /\ h[2] = wavhdr[p][2]
      <3>. HIDE DEF h, length
      <3>1. 4 - 4 + 1 = 1 /\ 1 \in 1..Len(length) /\ 2 - 4 + 1 \notin 1..Len(length)
        BY <2>4
      <3>. QED
        BY <1>4, <2>4, <3>1
    <2>6. behind = c + 2
      <3>. HIDE DEF length
      <3>. QED
        BY <2>1, <2>2, <2>4
    <2>7. /\ Len(rest) = 5 /\ rest[3] = f[c + 5] /\ rest[5] = f[c + 7]
      <3>1. rest = Cells(f, c + 2, 5)
        <4>. HIDE DEF h, behind
        <4>. QED
          BY <2>5, <2>6
      <3>2. c + 2 \in Nat /\ 5 \in Nat /\ (c + 2) + 5 <= Len(f)
        <4>1. c \in Nat /\ c + 6 < Len(f) /\ Len(f) \in Int
          BY <1>2, <2>2, <2>3
        <4>. QED
          BY <4>1
      <3>3. /\ Len(Cells(f, c + 2, 5)) = 5
            /\ \A k \in 1..5 : Cells(f, c + 2, 5)[k] = f[(c + 2) + k]
        BY <1>2, <3>2, CellsAre
      <3>4. (c + 2) + 3 = c + 5 /\ (c + 2) + 5 = c + 7
        BY <2>2
      <3>. HIDE DEF rest
      <3>. QED
        BY <3>1, <3>3, <3>4
    <2>8. /\ Into(h, 5, rest)[2] = wavhdr[p][2] /\ Into(h, 5, rest)[7] = f[c + 5]
          /\ Into(h, 5, rest)[9] = f[c + 7]
      <3>. HIDE DEF h, rest
      <3>1. /\ 2 - 5 + 1 \notin 1..Len(rest)
            /\ 7 - 5 + 1 = 3 /\ 3 \in 1..Len(rest) /\ 9 - 5 + 1 = 5 /\ 5 \in 1..Len(rest)
        BY <2>7
      <3>. QED
        BY <1>7, <2>5, <2>7, <3>1
    <2>9. /\ behind + Len(rest) = d + 1 /\ f[c + 7] = f[d + 1] /\ l.fmt < d
          /\ f[c + 5] = f[l.fmt + 5]
      <3>1. c + 7 = d + 1 /\ c < d
        BY <2>2, <2>3
      <3>2. (c + 2) + 5 = d + 1
        BY <2>2, <2>3
      <3>. HIDE DEF behind, rest
      <3>. QED
        BY <2>2, <2>6, <2>7, <3>1, <3>2
    <2>10. /\ pc'[p] = "data" /\ file' = file /\ wavhdr'[p] = Into(h, 5, rest)
           /\ offset'[p] = behind + Len(rest)
      <3>. HIDE DEF h, rest, behind
      <3>. QED
        BY <1>1, <1>2 DEF HeaderRead, IInv, TypeOK
    <2>11. Magic(p) = WAVE
      BY <1>1, <1>9 DEF IInv, OnTheWay, Searching
    <2>. HIDE DEF h, rest, behind
    <2>. QED
      BY <2>8, <2>9, <2>10, <2>11 DEF Searching, Data, Magic, SampleRateEq
  <1>. QED
    <2>. HIDE DEF h, rest, behind
    <2>. QED
      BY <1>1, <1>7, <1>8, <1>9, HeaderStep

(* ReadData keeps the invariant.                                           *)
LEMMA ReadDataKeeps ==
    ASSUME IInv, NEW p \in Player, ReadData(p)
    PROVE  IInv'
  <1>. DEFINE f == file[p]
              size == Cells(f, offset[p], 1)
              h == Into(wavhdr[p], 10, size)
              l == Layout[f]
  <1>1. /\ pc[p] = "data" /\ Data(p) = DATA /\ pc' = [pc EXCEPT ![p] = "header"]
        /\ HeaderRead(p, h, offset[p] + Len(size))
    BY DEF ReadData
  <1>2. /\ f \in Seq(Nat) /\ offset[p] \in Nat /\ Len(f) \in Nat /\ pc \in [Player -> Labels]
        /\ wavhdr[p] \in Header
    <2>1. pc[p] \notin {"out", "open", "gone", "divided"}
      BY <1>1
    <2>. QED
      BY <2>1 DEF IInv, TypeOK, CardReady
  <1>3. size \in Seq(Nat) /\ Len(size) \in Nat
    BY <1>2, CellsAre, AtMost
  <1>4. /\ h \in Header
        /\ \A k \in 0..10 : h[k] =
              IF k - 10 + 1 \in 1..Len(size) THEN size[k - 10 + 1] ELSE wavhdr[p][k]
    <2>1. 10 \in Nat
      OBVIOUS
    <2>. HIDE DEF size
    <2>. QED
      BY <1>2, <1>3, <2>1, IntoHeader
  <1>5. offset[p] + Len(size) \in Nat
    <2>. HIDE DEF size
    <2>. QED
      BY <1>2, <1>3
  <1>6. ASSUME Proper(p) PROVE Searching(p)'
    <2>1. PICK c \in l.chunks : l.fmt < c /\ offset[p] = c + 1 /\ Data(p) = f[c + 1]
      BY <1>1, <1>6 DEF IInv, OnTheWay, Searching
    <2>2. /\ c = l.data /\ c \in Nat /\ f[c + 2] = Len(Sound[f]) /\ c + 2 <= Len(f)
      <3>1. /\ c <= l.data /\ (c < l.data => f[c + 1] # DATA) /\ f[l.data + 2] = Len(Sound[f])
            /\ l.data + 2 + Len(Sound[f]) <= Len(f)
        <4>1. IsWav(f, Sound[f], l)
          BY <1>6, WavFiles DEF Proper
        <4>. QED
          BY <2>1, <4>1 DEF IsWav
      <3>2. c \in Nat /\ l.data \in Nat /\ Len(Sound[f]) \in Nat
        BY <1>6, <2>1, WavFiles DEF Proper
      <3>3. c = l.data
        BY <1>1, <2>1, <3>1, <3>2
      <3>. QED
        BY <1>2, <3>1, <3>2, <3>3
    <2>3. Len(size) = 1 /\ size[1] = Len(Sound[f])
      <3>1. offset[p] < Len(f)
        BY <1>2, <2>1, <2>2
      <3>2. Len(size) = 1 /\ size[1] = f[offset[p] + 1]
        BY <1>2, <3>1, OneCell
      <3>3. offset[p] + 1 = c + 2
        BY <2>1, <2>2
      <3>. HIDE DEF size
      <3>. QED
        BY <2>2, <3>2, <3>3
    <2>4. h[10] = Len(Sound[f]) /\ h[2] = wavhdr[p][2] /\ h[7] = wavhdr[p][7]
      <3>. HIDE DEF h, size
      <3>1. /\ 10 - 10 + 1 = 1 /\ 1 \in 1..Len(size)
            /\ 2 - 10 + 1 \notin 1..Len(size) /\ 7 - 10 + 1 \notin 1..Len(size)
        BY <2>3
      <3>. QED
        BY <1>4, <2>3, <3>1
    <2>5. offset[p] + Len(size) = l.data + 2
      <3>. HIDE DEF size
      <3>. QED
        BY <2>1, <2>2, <2>3
    <2>6. /\ pc'[p] = "header" /\ file' = file /\ wavhdr'[p] = h
          /\ offset'[p] = offset[p] + Len(size)
      <3>. HIDE DEF h, size
      <3>. QED
        BY <1>1, <1>2 DEF HeaderRead, IInv, TypeOK
    <2>7. Magic(p) = WAVE /\ SampleRateEq(p) = f[l.fmt + 5]
      BY <1>1, <1>6 DEF IInv, OnTheWay, Searching
    <2>. HIDE DEF h, size
    <2>. QED
      BY <2>4, <2>5, <2>6, <2>7 DEF Searching, DataSize, Magic, SampleRateEq, Begin
  <1>. QED
    <2>. HIDE DEF h, size
    <2>. QED
      BY <1>1, <1>4, <1>5, <1>6, HeaderStep

(* A step of the card or the timer leaves the players where they are.      *)
LEMMA NobodyMoves ==
    ASSUME IInv, TypeOK', CardReady', disturbed' = disturbed,
           \A q \in Player : OwnSame(q),
           \A q \in Player : Using(q) => list' = list /\ lvi' = lvi
    PROVE  IInv'
  <1>1. \A q \in Player : OnTheWay(q)'
    BY OthersStay DEF IInv
  <1>2. \A q \in Player : Using(q)' => Using(q)
    BY DEF OwnSame, Using
  <1>3. Exclusive'
    BY <1>2, ExclusiveStays DEF IInv
  <1>. QED
    BY <1>1, <1>3 DEF IInv

(* The players' variables ...                                              *)
PlayersUnchanged ==
    UNCHANGED <<pc, file, offset, wavhdr, dataSize, filled, target, since, ran, sounded,
                rewound, disturbed>>

LEMMA PlayersStill ==
    ASSUME PlayersUnchanged
    PROVE  disturbed' = disturbed /\ \A q \in Player : OwnSame(q)
  BY DEF PlayersUnchanged, OwnSame

(* FindAC97 keeps the invariant.                                           *)
LEMMA FindAC97Keeps ==
    ASSUME IInv, FindAC97
    PROVE  IInv'
  <1>1. /\ card = 0 /\ lvi' = lvi /\ jiffies' = jiffies
        /\ list' = [i \in Buffer |-> [length |-> Samples(BufferSize) - 1,
                                      cells |-> [k \in 1..BufferSize |-> Noise]]]
        /\ PlayersUnchanged
    BY DEF FindAC97, InitializeCodec, SetupDMABuffers, begun, reading, counts, history,
           PlayersUnchanged
  <1>2. \A q \in Player : pc[q] = "out"
    BY <1>1 DEF IInv, CardReady
  <1>3. TypeOK'
    BY <1>1 DEF IInv, TypeOK, PlayersUnchanged
  <1>4. CardReady'
    BY <1>1, <1>2, Constants DEF CardReady, PlayersUnchanged, Cell
  <1>. QED
    BY <1>1, <1>2, <1>3, <1>4, PlayersStill, NobodyMoves DEF Using

(* ... and the list.                                                       *)
CardUnchanged == UNCHANGED <<card, list, lvi>>

(* A step that leaves both alone keeps the invariant.                      *)
LEMMA CardStays ==
    ASSUME IInv, PlayersUnchanged, CardUnchanged, jiffies' \in Nat
    PROVE  IInv'
  <1>1. TypeOK'
    BY DEF IInv, TypeOK, PlayersUnchanged, CardUnchanged
  <1>2. CardReady'
    BY DEF IInv, CardReady, PlayersUnchanged, CardUnchanged
  <1>. QED
    BY <1>1, <1>2, PlayersStill, NobodyMoves DEF CardUnchanged

(* NoAC97 keeps the invariant.                                             *)
LEMMA NoAC97Keeps ==
    ASSUME IInv, NoAC97
    PROVE  IInv'
  <1>1. /\ card = 0 /\ card' = -1 /\ list' = list /\ lvi' = lvi /\ jiffies' = jiffies
        /\ PlayersUnchanged
    BY DEF NoAC97, registers, begun, reading, counts, history, PlayersUnchanged
  <1>2. \A q \in Player : pc[q] = "out"
    BY <1>1 DEF IInv, CardReady
  <1>3. TypeOK'
    BY <1>1 DEF IInv, TypeOK, PlayersUnchanged
  <1>4. CardReady'
    BY <1>1, <1>2 DEF CardReady, PlayersUnchanged
  <1>. QED
    BY <1>1, <1>3, <1>4, PlayersStill, NobodyMoves

(* ResetDone keeps the invariant.                                          *)
LEMMA ResetDoneKeeps ==
    ASSUME IInv, ResetDone
    PROVE  IInv'
  <1>1. PlayersUnchanged /\ CardUnchanged /\ jiffies' = jiffies
    BY DEF ResetDone, begun, reading, counts, history, PlayersUnchanged, CardUnchanged
  <1>. QED
    BY <1>1, CardStays DEF IInv, TypeOK

(* Tick keeps the invariant.                                               *)
LEMMA TickKeeps ==
    ASSUME IInv, Tick
    PROVE  IInv'
  <1>1. PlayersUnchanged /\ CardUnchanged /\ jiffies' = (jiffies + 1) % Word
    BY DEF Tick, registers, begun, reading, counts, history, PlayersUnchanged, CardUnchanged
  <1>2. jiffies + 1 \in Nat
    BY DEF IInv, TypeOK
  <1>3. (jiffies + 1) % Word \in Nat
    BY <1>2, Constants, Division
  <1>. QED
    BY <1>1, <1>3, CardStays

(* A step of p that leaves the list alone and does not begin to use the    *)
(* card.                                                                   *)
LEMMA QuietStep ==
    ASSUME IInv, NEW p \in Player, CardUnchanged, TypeOK',
           \A q \in Player \ {p} : OwnSame(q) /\ (q \in disturbed => q \in disturbed'),
           card > 0, pc'[p] \notin {"out", "open", "gone", "divided"} => wavhdr'[p] \in Header,
           Using(p)' => Using(p) /\ disturbed' = disturbed, OnTheWay(p)'
    PROVE  IInv'
  <1>1. CardReady'
    <2>1. ASSUME NEW q \in Player, pc'[q] \notin {"out", "open", "gone", "divided"} PROVE wavhdr'[q] \in Header
      <3>1. CASE q = p
        BY <2>1, <3>1
      <3>2. CASE q # p
        BY <3>2, <2>1 DEF IInv, CardReady, OwnSame
      <3>. QED
        BY <3>1, <3>2
    <2>. QED
      BY <2>1 DEF IInv, CardReady, CardUnchanged
  <1>2. \A q \in Player : Using(q)' => Using(q) /\ (q \in disturbed => q \in disturbed')
    BY DEF OwnSame, Using
  <1>3. Exclusive'
    BY <1>2, ExclusiveStays DEF IInv
  <1>. QED
    BY <1>1, <1>3, PlayerMoves DEF CardUnchanged

(* A step of p outside its calls, or at the beginning of one: what the     *)
(* call before has left behind does not matter.                            *)
LEMMA AnewStep ==
    ASSUME IInv, NEW p \in Player, CardUnchanged, TypeOK',
           \A q \in Player \ {p} : OwnSame(q) /\ (q \in disturbed => q \in disturbed'),
           card > 0, pc'[p] \in {"open", "fmt"},
           pc'[p] = "fmt" => wavhdr'[p] \in Header, Fresh(p)', Proper(p)' => Searching(p)'
    PROVE  IInv'
  <1>1. Reading(p)' /\ Filling(p)' /\ Sounding(p)'
    BY DEF Reading, Filling, Sounding, Between, Listing
  <1>2. OnTheWay(p)'
    BY <1>1 DEF OnTheWay
  <1>3. ~Using(p)' /\ (pc'[p] \notin {"out", "open", "gone", "divided"} => wavhdr'[p] \in Header)
    BY DEF Using
  <1>. QED
    BY <1>2, <1>3, QuietStep

(* Open keeps the invariant.                                               *)
LEMMA OpenKeeps ==
    ASSUME IInv, NEW p \in Player, NEW f \in Choice[p], Open(p, f)
    PROVE  IInv'
  <1>1. /\ card > 0 /\ CardUnchanged /\ jiffies' = jiffies
        /\ file' = [file EXCEPT ![p] = f] /\ offset' = [offset EXCEPT ![p] = 0]
        /\ pc' = [pc EXCEPT ![p] = "open"]
        /\ UNCHANGED <<wavhdr, dataSize, filled, target, since, ran, sounded, rewound, disturbed>>
    BY DEF Open, registers, begun, counts, history, CardUnchanged
  <1>2. f \in Seq(Nat)
    BY Constants
  <1>3. TypeOK'
    BY <1>1, <1>2 DEF IInv, TypeOK, Labels, CardUnchanged, Buffer
  <1>4. (\A q \in Player \ {p} : OwnSame(q)) /\ pc'[p] = "open"
    BY <1>1 DEF IInv, TypeOK, OwnSame
  <1>5. Fresh(p)' /\ Searching(p)'
    BY <1>4 DEF Fresh, Searching
  <1>. QED
    BY <1>1, <1>3, <1>4, <1>5, AnewStep

(* Seek keeps the invariant.                                               *)
LEMMA SeekKeeps ==
    ASSUME IInv, NEW p \in Player, NEW o \in Position, Seek(p, o)
    PROVE  IInv'
  <1>1. /\ pc[p] # "out" /\ CardUnchanged /\ jiffies' = jiffies
        /\ offset' = [offset EXCEPT ![p] = Sought(file[p], @, o)]
        /\ pc' = [pc EXCEPT ![p] = "open"]
        /\ UNCHANGED <<file, wavhdr, dataSize, filled, target, since, ran, sounded, rewound,
                       disturbed>>
    BY DEF Seek, registers, begun, counts, history, CardUnchanged
  <1>2. card > 0 /\ offset[p] \in Nat /\ o \in Nat
    BY <1>1, Constants DEF IInv, TypeOK, CardReady
  <1>3. Sought(file[p], offset[p], o) \in Nat
    BY <1>2 DEF Sought
  <1>4. TypeOK'
    BY <1>1, <1>3 DEF IInv, TypeOK, Labels, CardUnchanged, Buffer
  <1>5. (\A q \in Player \ {p} : OwnSame(q)) /\ pc'[p] = "open"
    BY <1>1 DEF IInv, TypeOK, OwnSame
  <1>6. Fresh(p)' /\ Searching(p)'
    BY <1>5 DEF Fresh, Searching
  <1>. QED
    BY <1>1, <1>2, <1>4, <1>5, <1>6, AnewStep

(* PlayAudio keeps the invariant.                                          *)
LEMMA PlayAudioKeeps ==
    ASSUME IInv, NEW p \in Player, NEW m \in Memory, PlayAudio(p, m)
    PROVE  IInv'
  <1>. DEFINE f == file[p]
              s == Cells(f, offset[p], 4)
              h == Into(m, 0, s)
  <1>1. /\ pc[p] # "out" /\ CardUnchanged /\ jiffies' = jiffies /\ file' = file
        /\ rewound' = IF offset[p] = 0 THEN rewound \cup {p} ELSE rewound \ {p}
        /\ wavhdr' = [wavhdr EXCEPT ![p] = h]
        /\ offset' = [offset EXCEPT ![p] = @ + Len(s)] /\ pc' = [pc EXCEPT ![p] = "fmt"]
        /\ dataSize' = [dataSize EXCEPT ![p] = 0] /\ filled' = [filled EXCEPT ![p] = 0]
        /\ target' = [target EXCEPT ![p] = 0] /\ since' = [since EXCEPT ![p] = 0]
        /\ ran' = [ran EXCEPT ![p] = 0] /\ sounded' = [sounded EXCEPT ![p] = <<>>]
        /\ disturbed' = disturbed \ {p}
    BY DEF PlayAudio, registers, CardUnchanged
  <1>2. /\ f \in Seq(Nat) /\ offset[p] \in Nat /\ m \in Header /\ card > 0
        /\ 0 \in Nat /\ 4 \in Nat
    BY <1>1, Constants DEF IInv, TypeOK, CardReady, Header
  <1>3. s \in Seq(Nat) /\ Len(s) \in Nat
    BY <1>2, CellsAre, AtMost
  <1>4. /\ h \in Header
        /\ \A k \in 0..10 : h[k] = IF k - 0 + 1 \in 1..Len(s) THEN s[k - 0 + 1] ELSE m[k]
    <2>. HIDE DEF s
    <2>. QED
      BY <1>2, <1>3, IntoHeader
  <1>5. ASSUME f \in Wav, offset[p] = 0
        PROVE  /\ Len(s) = 4 /\ h[2] = f[3] /\ h[3] = f[4] /\ 3 \in Layout[f].chunks
               /\ 3 <= Layout[f].fmt /\ f[3] = WAVE
    <2>1. /\ IsWav(f, Sound[f], Layout[f]) /\ Layout[f].fmt \in Nat /\ Layout[f].data \in Nat
          /\ Len(f) \in Nat /\ Len(Sound[f]) \in Nat /\ Layout[f].chunks \subseteq Nat
      BY <1>5, WavFiles
    <2>2. /\ 3 \in Layout[f].chunks /\ Layout[f].fmt \in Layout[f].chunks
          /\ Layout[f].fmt < Layout[f].data
          /\ Layout[f].data + 2 + Len(Sound[f]) <= Len(f) /\ f[3] = WAVE
          /\ 3 <= Layout[f].data
      BY <2>1 DEF IsWav
    <2>3. 0 + 4 <= Len(f)
      BY <2>1, <2>2
    <2>4. Len(s) = 4 /\ \A k \in 1..4 : s[k] = f[0 + k]
      BY <1>2, <1>5, <2>3, CellsAre
    <2>5. s[3] = f[3] /\ s[4] = f[4]
      <3>1. s[3] = f[0 + 3] /\ s[4] = f[0 + 4]
        <4>. HIDE DEF s
        <4>. QED
          BY <2>4
      <3>. HIDE DEF s
      <3>. QED
        BY <3>1
    <2>6. h[2] = s[3] /\ h[3] = s[4]
      <3>1. 2 - 0 + 1 = 3 /\ 3 - 0 + 1 = 4 /\ 3 \in 1..Len(s) /\ 4 \in 1..Len(s)
        <4>. HIDE DEF s
        <4>. QED
          BY <2>4
      <3>. HIDE DEF s, h
      <3>. QED
        BY <1>4, <3>1
    <2>7. 3 <= Layout[f].fmt
      <3>1. /\ f[Layout[f].fmt + 2] = 4
            /\ Layout[f].fmt < 3 => Layout[f].fmt + 2 + f[Layout[f].fmt + 2] <= 3
        BY <2>1, <2>2 DEF IsWav
      <3>. QED
        BY <2>1, <3>1
    <2>. HIDE DEF s, h
    <2>. QED
      BY <2>2, <2>4, <2>5, <2>6, <2>7
  <1>. HIDE DEF s, h
  <1>6. TypeOK'
    <2>1. offset[p] + Len(s) \in Nat /\ <<>> \in Seq(Nat)
      BY <1>2, <1>3
    <2>. DEFINE o == offset[p] + Len(s)
    <2>2. offset' = [offset EXCEPT ![p] = o] /\ o \in Nat
      BY <1>1, <2>1
    <2>. HIDE DEF o
    <2>3. /\ pc' \in [Player -> Labels] /\ file' \in [Player -> Seq(Nat)]
          /\ offset' \in [Player -> Nat] /\ wavhdr' \in [Player -> Header \cup {<<>>}]
      <3>1. pc' \in [Player -> Labels]
        BY <1>1 DEF IInv, TypeOK, Labels
      <3>2. file' \in [Player -> Seq(Nat)]
        BY <1>1 DEF IInv, TypeOK
      <3>3. offset' \in [Player -> Nat]
        BY <2>2 DEF IInv, TypeOK
      <3>4. wavhdr' \in [Player -> Header \cup {<<>>}]
        BY <1>1, <1>4 DEF IInv, TypeOK
      <3>. QED
        BY <3>1, <3>2, <3>3, <3>4
    <2>4. /\ dataSize' \in [Player -> Nat] /\ filled' \in [Player -> Nat]
          /\ since' \in [Player -> Nat] /\ ran' \in [Player -> Int]
          /\ sounded' \in [Player -> Seq(Nat)] /\ DOMAIN target' = Player
      BY <1>1, <2>1 DEF IInv, TypeOK
    <2>5. lvi' \in Buffer /\ jiffies' \in Nat
      BY <1>1 DEF IInv, TypeOK, CardUnchanged
    <2>. QED
      BY <2>3, <2>4, <2>5 DEF TypeOK, Labels, Header, Buffer
  <1>7. /\ \A q \in Player \ {p} : OwnSame(q) /\ (q \in disturbed => q \in disturbed')
        /\ pc'[p] = "fmt" /\ wavhdr'[p] = h /\ offset'[p] = offset[p] + Len(s)
    BY <1>1 DEF IInv, TypeOK, OwnSame
  <1>8. Fresh(p)'
    BY <1>1 DEF IInv, TypeOK, Fresh
  <1>9. ASSUME Proper(p)' PROVE Searching(p)'
    <2>1. f \in Wav /\ offset[p] = 0
      BY <1>1, <1>9 DEF Proper
    <2>2. offset'[p] = 3 + 1 /\ f[3 + 1] = f[4]
      BY <1>5, <1>7, <2>1
    <2>. QED
      BY <1>1, <1>5, <1>7, <2>1, <2>2 DEF Searching, Fmt, Magic
  <1>. QED
    BY <1>1, <1>2, <1>4, <1>6, <1>7, <1>8, <1>9, AnewStep

(* The end of everything keeps it.                                         *)
LEMMA DivideByZeroKeeps ==
    ASSUME IInv, NEW p \in Player, DivideByZero(p)
    PROVE  IInv'
  <1>1. /\ pc[p] = "start" /\ CardUnchanged
        /\ pc' = [q \in Player |-> IF q = p THEN "divided" ELSE "gone"]
        /\ jiffies' = jiffies
        /\ UNCHANGED <<file, offset, wavhdr, dataSize, filled, target, since, ran, sounded>>
    BY DEF DivideByZero, reading, counts, history, CardUnchanged
  <1>2. TypeOK'
    BY <1>1 DEF IInv, TypeOK, Labels, CardUnchanged, Buffer
  <1>3. card > 0
    BY <1>1 DEF IInv, CardReady
  <1>4. CardReady'
    BY <1>1, <1>3 DEF IInv, CardReady, CardUnchanged
  <1>5. Exclusive'
    BY <1>1 DEF Exclusive, Using
  <1>6. ASSUME NEW q \in Player PROVE OnTheWay(q)'
    BY <1>1 DEF OnTheWay, Fresh, Searching, Reading, Filling, Sounding, Between, Listing
  <1>. QED
    BY <1>2, <1>4, <1>5, <1>6 DEF IInv

(* A step that takes p to a place and changes neither the header nor the   *)
(* file.                                                                   *)
Goes(p, place) ==
    /\ pc' = [pc EXCEPT ![p] = place]
    /\ UNCHANGED <<file, offset, wavhdr, filled, rewound, disturbed>> /\ jiffies' = jiffies
    /\ CardUnchanged

LEMMA GoesTyped ==
    ASSUME IInv, NEW p \in Player, NEW place \in Labels,
           pc[p] \notin {"out", "open", "gone", "divided"}, Goes(p, place)
    PROVE  /\ pc' \in [Player -> Labels] /\ pc'[p] = place
           /\ \A q \in Player \ {p} : pc'[q] = pc[q]
           /\ card > 0 /\ wavhdr'[p] \in Header /\ disturbed' = disturbed /\ rewound' = rewound
           /\ Searching(p) => SampleRateEq(p)' = SampleRateEq(p)
           /\ Begin(p)' = Begin(p)
  BY DEF IInv, TypeOK, Goes, CardReady, SampleRateEq, Begin

(* Refuse keeps the invariant.                                             *)
LEMMA RefuseKeeps ==
    ASSUME IInv, NEW p \in Player, Refuse(p)
    PROVE  IInv'
  <1>1. /\ pc[p] = "header" /\ Magic(p) # WAVE /\ Goes(p, "refused")
        /\ UNCHANGED <<dataSize, target, since, ran, sounded>>
    BY DEF Refuse, registers, begun, reading, counts, history, Goes, CardUnchanged
  <1>2. "refused" \in Labels
    BY DEF Labels
  <1>3. /\ pc' \in [Player -> Labels] /\ pc'[p] = "refused"
        /\ \A q \in Player \ {p} : pc'[q] = pc[q]
        /\ card > 0 /\ wavhdr'[p] \in Header /\ disturbed' = disturbed /\ rewound' = rewound
    BY <1>1, <1>2, GoesTyped
  <1>4. TypeOK' /\ \A q \in Player \ {p} : OwnSame(q)
    BY <1>1, <1>3 DEF IInv, TypeOK, Goes, OwnSame, CardUnchanged
  <1>5. ~Proper(p)
    BY <1>1 DEF IInv, OnTheWay, Searching
  <1>6. OnTheWay(p)'
    BY <1>1, <1>3, <1>5 DEF OnTheWay, Fresh, Goes, Undisturbed, Proper
  <1>. QED
    BY <1>1, <1>3, <1>4, <1>6, QuietStep DEF Using, Goes

(* Accept keeps the invariant.                                             *)
LEMMA AcceptKeeps ==
    ASSUME IInv, NEW p \in Player, Accept(p)
    PROVE  IInv'
  <1>1. /\ pc[p] = "header" /\ Magic(p) = WAVE /\ Goes(p, "next")
        /\ dataSize' = [dataSize EXCEPT ![p] = DataSize(p)]
        /\ UNCHANGED <<target, since, ran, sounded>>
    BY DEF Accept, registers, begun, reading, history, Goes, CardUnchanged
  <1>2. "next" \in Labels
    BY DEF Labels
  <1>3. /\ pc' \in [Player -> Labels] /\ pc'[p] = "next"
        /\ \A q \in Player \ {p} : pc'[q] = pc[q]
        /\ card > 0 /\ wavhdr'[p] \in Header /\ disturbed' = disturbed /\ rewound' = rewound
        /\ Searching(p) => SampleRateEq(p)' = SampleRateEq(p)
        /\ Begin(p)' = Begin(p)
    BY <1>1, <1>2, GoesTyped
  <1>4. DataSize(p) \in Nat
    BY <1>1, <1>3 DEF Header, DataSize, Goes
  <1>5. TypeOK' /\ (\A q \in Player \ {p} : OwnSame(q)) /\ dataSize'[p] = DataSize(p)
    BY <1>1, <1>3, <1>4 DEF IInv, TypeOK, Goes, OwnSame, CardUnchanged
  <1>6. ASSUME Proper(p)
        PROVE  /\ Searching(p)' /\ Reading(p)'
               /\ Filling(p)' /\ Sounding(p)'
    <2>1. /\ Searching(p) /\ offset[p] = Begin(p) /\ DataSize(p) = Len(Sound[file[p]])
          /\ sounded[p] = <<>>
      BY <1>1, <1>6 DEF IInv, OnTheWay, Searching, Fresh
    <2>2. Searching(p)'
      BY <1>1, <1>3, <2>1 DEF Searching, Goes
    <2>3. /\ Len(Sound[file[p]]) \in Nat /\ Layout[file[p]].data \in Nat
      BY <1>6, WavFiles DEF Proper
    <2>4. /\ Done(p)' = 0 /\ Begin(p) \in Nat
      BY <1>1, <1>5, <2>1, <2>3 DEF Done, Goes, Begin
    <2>5. 0 % ListOf = 0
      <3>1. ListOf \in Nat \ {0}
        BY Constants DEF ListOf
      <3>2. (ListOf * 0 + 0) % ListOf = 0
        BY <3>1, Quotient
      <3>. QED
        BY <3>1, <3>2
    <2>6. Reading(p)'
      <3>1. offset'[p] = Begin(p)' + Done(p)'
        BY <1>1, <1>3, <2>1, <2>4 DEF Goes
      <3>2. dataSize'[p] <= Len(Sound[file'[p]])
        BY <1>1, <1>5, <2>1, <2>3 DEF Goes
      <3>. QED
        BY <1>3, <2>4, <2>5, <3>1, <3>2 DEF Reading, Between, Listing
    <2>7. Filling(p)'
      BY <1>3 DEF Filling
    <2>8. Sounding(p)'
      BY <1>1, <1>3, <2>1, <2>4 DEF Sounding, First
    <2>. QED
      BY <2>2, <2>6, <2>7, <2>8
  <1>7. OnTheWay(p)'
    BY <1>1, <1>3, <1>6 DEF OnTheWay, Fresh, Goes, Undisturbed, Proper
  <1>. QED
    BY <1>1, <1>3, <1>5, <1>7, QuietStep DEF Using, Goes

(* Such a step keeps the invariant if the rest is where it should be.      *)
LEMMA PlaceStep ==
    ASSUME IInv, NEW p \in Player, NEW place \in Labels, Goes(p, place),
           pc[p] \notin {"out", "open", "gone", "divided", "fmt", "data", "header"},
           place \notin {"out", "open", "gone", "divided", "fmt", "data", "header"},
           UNCHANGED <<dataSize, target, since, ran, sounded>>,
           Using(p)' => Using(p),
           Proper(p) => Reading(p)', Undisturbed(p) => Filling(p)' /\ Sounding(p)'
    PROVE  IInv'
  <1>1. /\ pc' \in [Player -> Labels] /\ pc'[p] = place
        /\ \A q \in Player \ {p} : pc'[q] = pc[q]
        /\ card > 0 /\ wavhdr'[p] \in Header /\ disturbed' = disturbed /\ rewound' = rewound
        /\ Searching(p) => SampleRateEq(p)' = SampleRateEq(p)
    BY GoesTyped
  <1>2. TypeOK' /\ \A q \in Player \ {p} : OwnSame(q)
    BY <1>1 DEF IInv, TypeOK, Goes, OwnSame, CardUnchanged
  <1>3. ASSUME Proper(p) PROVE Searching(p)'
    <2>1. Searching(p)
      BY <1>3 DEF IInv, OnTheWay
    <2>. QED
      BY <1>1, <2>1 DEF Searching, Goes
  <1>4. OnTheWay(p)'
    BY <1>1, <1>3 DEF OnTheWay, Fresh, Goes, Undisturbed, Proper
  <1>. QED
    BY <1>1, <1>2, <1>4, QuietStep DEF Goes

(* What is computed from variables that stay, stays.                       *)
SizesSame(p) ==
    /\ Begin(p)' = Begin(p) /\ Done(p)' = Done(p) /\ IsLast(p)' = IsLast(p)
    /\ ListSize(p)' = ListSize(p) /\ Full(p)' = Full(p) /\ LastValid(p)' = LastValid(p)
    /\ ReadSoFar(p)' = ReadSoFar(p)
    /\ \A n : Holds(p, n)' = Holds(p, n) /\ First(p, n)' = First(p, n)

LEMMA SizesStay ==
    ASSUME NEW p \in Player, UNCHANGED <<file, dataSize, filled, sounded, list>>
    PROVE  SizesSame(p)
  <1>1. /\ Begin(p)' = Begin(p) /\ Done(p)' = Done(p) /\ IsLast(p)' = IsLast(p)
        /\ ListSize(p)' = ListSize(p) /\ Full(p)' = Full(p)
    BY DEF Begin, Done, IsLast, ListSize, Full
  <1>2. LastValid(p)' = LastValid(p) /\ ReadSoFar(p)' = ReadSoFar(p)
    BY <1>1 DEF LastValid, ReadSoFar
  <1>3. ASSUME NEW n PROVE Holds(p, n)' = Holds(p, n) /\ First(p, n)' = First(p, n)
    BY <1>1 DEF Holds, First
  <1>. QED
    BY <1>1, <1>2, <1>3 DEF SizesSame

(* Finish keeps the invariant.                                             *)
LEMMA FinishKeeps ==
    ASSUME IInv, NEW p \in Player, Finish(p)
    PROVE  IInv'
  <1>1. /\ pc[p] = "next" /\ dataSize[p] = 0 /\ Goes(p, "played")
        /\ UNCHANGED <<dataSize, target, since, ran, sounded>>
    BY DEF Finish, registers, begun, reading, counts, history, Goes, CardUnchanged
  <1>2. "played" \in Labels
    BY DEF Labels
  <1>3. pc'[p] = "played" /\ SizesSame(p)
    BY <1>1, <1>2, GoesTyped, SizesStay DEF Goes, CardUnchanged
  <1>4. ASSUME Proper(p) PROVE Reading(p)'
    <2>1. Reading(p)
      BY <1>4 DEF IInv, OnTheWay
    <2>. QED
      BY <1>1, <1>3, <2>1 DEF Reading, Goes, SizesSame, Between, Listing
  <1>5. ASSUME Undisturbed(p) PROVE Filling(p)' /\ Sounding(p)'
    <2>1. Sounding(p)
      BY <1>5 DEF IInv, OnTheWay
    <2>. QED
      BY <1>1, <1>3, <2>1 DEF Filling, Sounding, SizesSame, Between, Listing
  <1>. QED
    BY <1>1, <1>2, <1>3, <1>4, <1>5, PlaceStep DEF Using

(* ResetSeen keeps the invariant.                                          *)
LEMMA ResetSeenKeeps ==
    ASSUME IInv, NEW p \in Player, ResetSeen(p)
    PROVE  IInv'
  <1>1. /\ pc[p] = "resetting" /\ Goes(p, "start")
        /\ UNCHANGED <<dataSize, target, since, ran, sounded>>
    BY DEF ResetSeen, registers, begun, reading, counts, history, Goes, CardUnchanged
  <1>2. "start" \in Labels
    BY DEF Labels
  <1>3. pc'[p] = "start" /\ SizesSame(p)
    BY <1>1, <1>2, GoesTyped, SizesStay DEF Goes, CardUnchanged
  <1>4. ASSUME Proper(p) PROVE Reading(p)'
    <2>1. Reading(p)
      BY <1>4 DEF IInv, OnTheWay
    <2>. QED
      BY <1>1, <1>3, <2>1 DEF Reading, Goes, SizesSame, Between, Listing
  <1>5. ASSUME Undisturbed(p) PROVE Filling(p)' /\ Sounding(p)'
    <2>1. Filling(p) /\ Sounding(p)
      BY <1>5 DEF IInv, OnTheWay
    <2>. QED
      BY <1>1, <1>3, <2>1
         DEF Filling, Sounding, SizesSame, Between, Listing, Goes, CardUnchanged
  <1>. QED
    BY <1>1, <1>2, <1>3, <1>4, <1>5, PlaceStep DEF Using

(* Reset keeps the invariant.                                              *)
LEMMA ResetKeeps ==
    ASSUME IInv, NEW p \in Player, Reset(p)
    PROVE  IInv'
  <1>1. /\ pc[p] = "fill" /\ Goes(p, "resetting")
        /\ filled[p] = Full(p) + (IF IsLast(p) THEN 1 ELSE 0)
        /\ UNCHANGED <<dataSize, target, since, ran, sounded>>
    BY DEF Reset, begun, reading, counts, history, Goes, CardUnchanged
  <1>2. "resetting" \in Labels
    BY DEF Labels
  <1>3. pc'[p] = "resetting" /\ SizesSame(p)
    BY <1>1, <1>2, GoesTyped, SizesStay DEF Goes, CardUnchanged
  <1>4. ReadSoFar(p) = ListSize(p)
    <2>1. /\ Full(p) \in Nat /\ (~IsLast(p) => ListSize(p) = BufferSize * Full(p))
      BY ListSizes DEF IInv, TypeOK
    <2>2. CASE IsLast(p)
      BY <1>1, <2>1, <2>2 DEF ReadSoFar
    <2>3. CASE ~IsLast(p)
      BY <1>1, <2>1, <2>3 DEF ReadSoFar
    <2>. QED
      BY <2>2, <2>3
  <1>5. ASSUME Proper(p) PROVE Reading(p)'
    <2>1. Reading(p)
      BY <1>5 DEF IInv, OnTheWay
    <2>. QED
      BY <1>1, <1>3, <1>4, <2>1 DEF Reading, Goes, SizesSame, Between, Listing
  <1>6. ASSUME Undisturbed(p) PROVE Filling(p)' /\ Sounding(p)'
    <2>1. Filling(p) /\ Sounding(p)
      BY <1>6 DEF IInv, OnTheWay
    <2>. QED
      BY <1>1, <1>3, <1>4, <2>1
         DEF Filling, Sounding, SizesSame, Between, Listing, Goes, CardUnchanged
  <1>. QED
    BY <1>1, <1>2, <1>3, <1>5, <1>6, PlaceStep DEF Using

(* Beginning to use the card, p disturbs those that use it, and is         *)
(* disturbed by them.                                                      *)
LEMMA FillBuffersKeeps ==
    ASSUME IInv, NEW p \in Player, FillBuffers(p)
    PROVE  IInv'
  <1>. DEFINE others == {q \in Player \ {p} : Using(q)}
  <1>1. /\ pc[p] = "next" /\ dataSize[p] > 0 /\ lvi' = LastValid(p)
        /\ filled' = [filled EXCEPT ![p] = 0] /\ pc' = [pc EXCEPT ![p] = "fill"]
        /\ disturbed' = disturbed \cup others \cup (IF others = {} THEN {} ELSE {p})
        /\ card' = card /\ list' = list /\ jiffies' = jiffies
        /\ UNCHANGED <<file, offset, wavhdr, dataSize, target, since, ran, sounded, rewound>>
    BY DEF FillBuffers, begun, reading, counts
  <1>2. /\ pc'[p] = "fill" /\ filled'[p] = 0
        /\ \A q \in Player \ {p} : OwnSame(q)
    BY <1>1 DEF IInv, TypeOK, OwnSame
  <1>3. /\ LastValid(p) \in Buffer /\ Full(p) \in Nat /\ dataSize[p] \in Nat
    BY ListSizes DEF IInv, TypeOK
  <1>4. TypeOK'
    BY <1>1, <1>3 DEF IInv, TypeOK, Labels
  <1>5. CardReady'
    <2>1. card > 0 /\ wavhdr[p] \in Header
      BY <1>1 DEF IInv, CardReady
    <2>2. ASSUME NEW q \in Player, pc'[q] \notin {"out", "open", "gone", "divided"} PROVE wavhdr'[q] \in Header
      <3>1. CASE q = p
        BY <1>1, <2>1, <3>1
      <3>2. CASE q # p
        BY <1>2, <3>2, <2>2 DEF IInv, CardReady, OwnSame
      <3>. QED
        BY <3>1, <3>2
    <2>. QED
      BY <1>1, <2>1, <2>2 DEF IInv, CardReady
  <1>6. \A q \in Player \ {p} : Using(q) => q \in disturbed' /\ p \in disturbed'
    BY <1>1
  <1>7. Exclusive'
    <2>. SUFFICES ASSUME NEW q \in Player, Using(q)', q \notin disturbed',
                         NEW r \in Player \ {q}, Using(r)'
                  PROVE  FALSE
      BY DEF Exclusive
    <2>1. \A s \in Player \ {p} : Using(s)' => Using(s)
      BY <1>2 DEF Using, OwnSame
    <2>. QED
      BY <1>6, <2>1
  <1>8. /\ Begin(p)' = Begin(p) /\ Done(p)' = Done(p) /\ IsLast(p)' = IsLast(p)
        /\ ListSize(p)' = ListSize(p) /\ Full(p)' = Full(p) /\ LastValid(p)' = LastValid(p)
        /\ SampleRateEq(p)' = SampleRateEq(p) /\ file'[p] = file[p]
    BY <1>1 DEF Begin, Done, IsLast, ListSize, Full, LastValid, SampleRateEq
  <1>9. ReadSoFar(p)' = 0
    BY <1>2, <1>3, <1>8, Constants DEF ReadSoFar
  <1>10. ASSUME Proper(p) PROVE Searching(p)' /\ Reading(p)'
    <2>1. Searching(p) /\ Reading(p)
      BY <1>10 DEF IInv, OnTheWay
    <2>2. Searching(p)'
      BY <1>1, <1>2, <1>8, <2>1 DEF Searching
    <2>3. Begin(p) \in Int /\ Done(p) \in Int
      BY <1>3, <1>10, WavFiles DEF Begin, Done, Proper
    <2>4. Reading(p)'
      BY <1>1, <1>2, <1>3, <1>8, <1>9, <2>1, <2>3 DEF Reading, Between, Listing
    <2>. QED
      BY <2>2, <2>4
  <1>11. ASSUME Undisturbed(p)' PROVE Filling(p)' /\ Sounding(p)'
    <2>1. Sounding(p)
      BY <1>1, <1>8, <1>11 DEF IInv, OnTheWay, Undisturbed, Proper
    <2>2. Sounding(p)'
      BY <1>1, <1>2, <1>8, <2>1 DEF Sounding, First, Between, Listing
    <2>3. Filling(p)'
      BY <1>1, <1>2, <1>8, <1>9 DEF Filling, Holds
    <2>. QED
      BY <2>2, <2>3
  <1>12. OnTheWay(p)'
    BY <1>1, <1>2, <1>8, <1>10, <1>11 DEF OnTheWay, Fresh, Proper
  <1>13. \A q \in Player : q \in disturbed => q \in disturbed'
    BY <1>1
  <1>. QED
    BY <1>2, <1>4, <1>5, <1>6, <1>7, <1>12, <1>13, PlayerMoves

(* In which buffer, and where in it, cell k of the list is.                *)
LEMMA PlaceInList ==
    ASSUME NEW k \in Nat, NEW m \in Nat
    PROVE  /\ k \div BufferSize \in Nat /\ k % BufferSize \in 0..(BufferSize - 1)
           /\ BufferSize * m \in Nat
           /\ k < BufferSize * m => k \div BufferSize < m
           /\ k - BufferSize * m \in 0..(BufferSize - 1) =>
                 k \div BufferSize = m /\ k % BufferSize = k - BufferSize * m
  <1>1. BufferSize \in Nat \ {0}
    BY Constants
  <1>2. /\ k \div BufferSize \in Nat /\ k % BufferSize \in 0..(BufferSize - 1)
        /\ k = BufferSize * (k \div BufferSize) + (k % BufferSize)
    BY <1>1, Division
  <1>3. BufferSize * m \in Nat
    BY <1>1
  <1>4. ASSUME k < BufferSize * m, m <= k \div BufferSize PROVE FALSE
    <2>1. BufferSize * m <= BufferSize * (k \div BufferSize)
      BY <1>1, <1>2, <1>4, TimesIsMonotone
    <2>. QED
      BY <1>1, <1>2, <1>3, <1>4, <2>1
  <1>5. ASSUME k - BufferSize * m \in 0..(BufferSize - 1)
        PROVE  k \div BufferSize = m /\ k % BufferSize = k - BufferSize * m
    <2>. DEFINE r == k - BufferSize * m
    <2>1. /\ (BufferSize * m + r) \div BufferSize = m
          /\ (BufferSize * m + r) % BufferSize = r
      BY <1>1, <1>5, Quotient
    <2>2. BufferSize * m + r = k
      BY <1>3
    <2>. QED
      BY <2>1, <2>2
  <1>. QED
    BY <1>2, <1>3, <1>4, <1>5

(* The buffer that is filled is one of the list, and as full as it should  *)
(* be.                                                                     *)
InBounds(p, n) ==
    /\ filled[p] \in Buffer /\ n <= BufferSize
    /\ filled[p] <= Full(p)
    /\ filled[p] + 1 <= Full(p) + (IF IsLast(p) THEN 1 ELSE 0)
    /\ BufferSize * filled[p] + n <= ListSize(p)
    /\ (IF filled[p] + 1 <= Full(p) THEN BufferSize * (filled[p] + 1) ELSE ListSize(p))
          = BufferSize * filled[p] + n

(* Filling it changes no other.                                            *)
LEMMA BufferFilled ==
    ASSUME NEW p \in Player, NEW n \in Nat, NEW length, Fill(p, n, length),
           InBounds(p, n), card > 0, CardReady, TypeOK
    PROVE  /\ DOMAIN list' = Buffer /\ \A i \in Buffer : list'[i].cells \in Cell
           /\ \A i \in Buffer : i # filled[p] => list'[i] = list[i]
           /\ Len(Cells(file[p], offset[p], n)) = n =>
                 \A k \in 1..n : list'[filled[p]].cells[k] = Cells(file[p], offset[p], n)[k]
  <1>. DEFINE s == Cells(file[p], offset[p], n)
              b == list[filled[p]].cells
  <1>1. list' = [list EXCEPT ![filled[p]] = [length |-> length, cells |-> Into(b, 1, s)]]
    BY DEF Fill
  <1>2. filled[p] \in Buffer /\ n <= BufferSize
    BY DEF InBounds
  <1>3. DOMAIN list = Buffer /\ (\A i \in Buffer : list[i].cells \in Cell) /\ b \in Cell
    BY <1>2 DEF CardReady
  <1>4. s \in Seq(Nat) /\ Len(s) \in Nat
    BY CellsAre, AtMost DEF TypeOK
  <1>5. /\ Into(b, 1, s) \in Cell
        /\ \A k \in 1..BufferSize : Into(b, 1, s)[k] = IF k <= Len(s) THEN s[k] ELSE b[k]
    <2>. HIDE DEF s, b
    <2>. QED
      BY <1>3, <1>4, IntoBuffer
  <1>6. /\ DOMAIN list' = Buffer
        /\ \A i \in Buffer : i # filled[p] => list'[i] = list[i]
        /\ list'[filled[p]].cells = Into(b, 1, s)
    <2>. HIDE DEF s, b
    <2>. QED
      BY <1>1, <1>2, <1>3
  <1>7. \A i \in Buffer : list'[i].cells \in Cell
    <2>. HIDE DEF s, b
    <2>. QED
      BY <1>3, <1>5, <1>6
  <1>8. ASSUME Len(s) = n, NEW k \in 1..n PROVE list'[filled[p]].cells[k] = s[k]
    <2>. HIDE DEF s, b
    <2>1. k \in 1..BufferSize /\ k <= Len(s)
      BY <1>2, <1>8, Constants
    <2>. QED
      BY <1>5, <1>6, <2>1
  <1>. QED
    BY <1>6, <1>7, <1>8

(* What is read into it is the sound behind what is in the list.           *)
LEMMA SoundRead ==
    ASSUME IInv, NEW p \in Player, pc[p] = "fill", Proper(p), NEW n \in Nat, InBounds(p, n)
    PROVE  /\ Len(Cells(file[p], offset[p], n)) = n
           /\ offset[p] = Begin(p) + Done(p) + BufferSize * filled[p]
           /\ Done(p) \in Nat /\ BufferSize * filled[p] \in Nat /\ Begin(p) \in Nat
           /\ \A k \in 1..n : Cells(file[p], offset[p], n)[k] =
                 Sound[file[p]][Done(p) + BufferSize * filled[p] + k]
  <1>. DEFINE f == file[p]
              l == Len(Sound[f])
              b == Layout[f].data + 2
              m == BufferSize * filled[p]
  <1>1. f \in Seq(Nat) /\ IsWav(f, Sound[f], Layout[f])
    BY WavFiles DEF Proper
  <1>2. Len(f) \in Nat /\ l \in Nat /\ b \in Nat
    BY WavFiles DEF Proper
  <1>3. b + l <= Len(f) /\ \A k \in 1..l : f[b + k] = Sound[f][k]
    BY <1>1 DEF IsWav
  <1>4. /\ dataSize[p] \in Nat /\ dataSize[p] <= l /\ filled[p] \in Nat
        /\ offset[p] = Begin(p) + Done(p) + ReadSoFar(p)
        /\ ListSize(p) \in Nat /\ ListSize(p) <= dataSize[p]
    BY ListSizes DEF IInv, TypeOK, OnTheWay, Reading, Listing
  <1>5. m \in Nat /\ ReadSoFar(p) = m /\ m + n <= ListSize(p)
    BY <1>4, Constants DEF InBounds, ReadSoFar
  <1>6. Begin(p) = b /\ Done(p) = l - dataSize[p]
    BY DEF Begin, Done
  <1>. HIDE DEF f, l, b, m
  <1>7. Done(p) \in Nat /\ Begin(p) \in Nat /\ Done(p) + m + n <= l
    <2>1. m + n <= dataSize[p]
      BY <1>4, <1>5
    <2>2. l - dataSize[p] \in Nat /\ (l - dataSize[p]) + m + n <= l
      BY <1>2, <1>4, <1>5, <2>1
    <2>. QED
      BY <1>2, <1>6, <2>2
  <1>8. offset[p] = b + Done(p) + m /\ offset[p] \in Nat /\ offset[p] + n <= Len(f)
    <2>1. offset[p] = b + Done(p) + m
      BY <1>4, <1>5, <1>6
    <2>2. b + (Done(p) + m + n) <= Len(f)
      BY <1>2, <1>3, <1>5, <1>7
    <2>. QED
      BY <1>2, <1>5, <1>7, <2>1, <2>2
  <1>9. /\ Len(Cells(f, offset[p], n)) = n
        /\ \A k \in 1..n : Cells(f, offset[p], n)[k] = f[offset[p] + k]
    BY <1>1, <1>8, CellsAre
  <1>10. ASSUME NEW k \in 1..n
         PROVE  Cells(f, offset[p], n)[k] = Sound[f][Done(p) + m + k]
    <2>1. Cells(f, offset[p], n)[k] = f[offset[p] + k]
      BY <1>9
    <2>2. offset[p] + k = b + (Done(p) + m + k)
      BY <1>2, <1>5, <1>7, <1>8
    <2>3. Done(p) + m + k \in 1..l
      BY <1>2, <1>5, <1>7
    <2>4. f[b + (Done(p) + m + k)] = Sound[f][Done(p) + m + k]
      BY <1>3, <2>3
    <2>. QED
      BY <2>1, <2>2, <2>4
  <1>. QED
    BY <1>5, <1>6, <1>7, <1>8, <1>9, <1>10 DEF f, m

(* So the list holds that much more of the sound.                          *)
LEMMA HoldsMore ==
    ASSUME IInv, NEW p \in Player, pc[p] = "fill", Undisturbed(p), NEW n \in Nat, NEW length,
           Fill(p, n, length), InBounds(p, n)
    PROVE  \A k \in 0..((BufferSize * filled[p] + n) - 1) :
              list'[k \div BufferSize].cells[(k % BufferSize) + 1]
                 = Sound[file'[p]][Done(p)' + k + 1]
  <1>. DEFINE m == filled[p]
              s == Cells(file[p], offset[p], n)
  <1>1. /\ UNCHANGED <<file, dataSize>> /\ card > 0 /\ TypeOK /\ CardReady /\ Done(p)' = Done(p)
    BY DEF Fill, begun, counts, IInv, CardReady, Done
  <1>2. Proper(p) /\ Filling(p) /\ m \in Buffer /\ m \in Nat /\ n <= BufferSize
    BY Constants DEF IInv, OnTheWay, Undisturbed, InBounds, Buffer
  <1>3. ReadSoFar(p) = BufferSize * m /\ Holds(p, ReadSoFar(p))
    BY <1>2 DEF InBounds, ReadSoFar, Filling
  <1>4. /\ Len(s) = n /\ Done(p) \in Nat /\ BufferSize * m \in Nat
        /\ \A k \in 1..n : s[k] = Sound[file[p]][Done(p) + BufferSize * m + k]
    BY <1>2, SoundRead
  <1>5. /\ \A i \in Buffer : i # m => list'[i] = list[i]
        /\ \A k \in 1..n : list'[m].cells[k] = s[k]
    BY <1>1, <1>4, BufferFilled
  <1>. HIDE DEF m, s
  <1>6. ASSUME NEW k \in 0..((BufferSize * m + n) - 1)
        PROVE  list'[k \div BufferSize].cells[(k % BufferSize) + 1] = Sound[file[p]][Done(p) + k + 1]
    <2>1. /\ k \in Nat /\ k < BufferSize * m + n /\ BufferSize \in Nat \ {0}
          /\ NumBuffers \in Nat
      BY <1>4, Constants
    <2>2. CASE k < BufferSize * m
      <3>1. k \div BufferSize \in Nat /\ k \div BufferSize < m
        BY <1>2, <2>1, <2>2, PlaceInList
      <3>2. k \div BufferSize \in Buffer /\ k \div BufferSize # m
        BY <1>2, <2>1, <3>1 DEF Buffer
      <3>3. k \in 0..(BufferSize * m - 1)
        BY <1>4, <2>1, <2>2
      <3>4. list[k \div BufferSize].cells[(k % BufferSize) + 1] = Sound[file[p]][Done(p) + k + 1]
        BY <1>3, <3>3 DEF Holds
      <3>. QED
        BY <1>5, <3>2, <3>4
    <2>3. CASE ~(k < BufferSize * m)
      <3>. DEFINE r == k - BufferSize * m
      <3>1. r \in 0..(BufferSize - 1) /\ r + 1 \in 1..n
        BY <1>2, <1>4, <2>1, <2>3
      <3>2. k \div BufferSize = m /\ k % BufferSize = r
        BY <1>2, <2>1, <3>1, PlaceInList
      <3>3. list'[m].cells[r + 1] = Sound[file[p]][Done(p) + BufferSize * m + (r + 1)]
        <4>. HIDE DEF r
        <4>. QED
          BY <1>4, <1>5, <3>1
      <3>4. Done(p) + BufferSize * m + (r + 1) = Done(p) + k + 1
        BY <1>4, <2>1
      <3>. QED
        BY <3>2, <3>3, <3>4
    <2>. QED
      BY <2>2, <2>3
  <1>7. m = filled[p]
    BY DEF m
  <1>. QED
    BY <1>1, <1>6, <1>7

(* Filling a buffer keeps the invariant ...                                *)
LEMMA FillKeeps ==
    ASSUME IInv, NEW p \in Player, NEW n \in Nat, NEW length, Fill(p, n, length), InBounds(p, n)
    PROVE  IInv'
  <1>. DEFINE s == Cells(file[p], offset[p], n)
  <1>1. /\ pc[p] = "fill" /\ offset' = [offset EXCEPT ![p] = @ + Len(s)]
        /\ filled' = [filled EXCEPT ![p] = @ + 1]
        /\ card' = card /\ lvi' = lvi /\ jiffies' = jiffies /\ pc' = pc
        /\ UNCHANGED <<file, wavhdr, dataSize, target, since, ran, sounded, rewound, disturbed>>
    BY DEF Fill, begun, counts, history
  <1>2. card > 0 /\ CardReady /\ TypeOK
    BY <1>1 DEF IInv, CardReady
  <1>3. Len(s) \in Nat
    BY <1>2, AtMost DEF TypeOK
  <1>4. TypeOK'
    BY <1>1, <1>2, <1>3 DEF TypeOK
  <1>5. CardReady'
    <2>1. DOMAIN list' = Buffer /\ \A i \in Buffer : list'[i].cells \in Cell
      BY <1>2, BufferFilled
    <2>2. Buffer' = Buffer /\ Cell' = Cell
      BY DEF Buffer, Cell
    <2>. QED
      BY <1>1, <1>2, <2>1, <2>2 DEF CardReady
  <1>6. /\ \A q \in Player \ {p} : OwnSame(q)
        /\ offset'[p] = offset[p] + Len(s) /\ filled'[p] = filled[p] + 1
    BY <1>1, <1>2 DEF TypeOK, OwnSame
  <1>7. Exclusive'
    BY <1>1 DEF IInv, Exclusive, Using
  <1>8. \A q \in Player \ {p} : Using(q) => q \in disturbed'
    BY <1>1 DEF IInv, Exclusive, Using
  <1>9. /\ Begin(p)' = Begin(p) /\ Done(p)' = Done(p) /\ IsLast(p)' = IsLast(p)
        /\ ListSize(p)' = ListSize(p) /\ Full(p)' = Full(p) /\ LastValid(p)' = LastValid(p)
        /\ SampleRateEq(p)' = SampleRateEq(p)
    BY <1>1 DEF Begin, Done, IsLast, ListSize, Full, LastValid, SampleRateEq
  <1>10. ReadSoFar(p)' = BufferSize * filled[p] + n
    BY <1>6, <1>9 DEF ReadSoFar, InBounds
  <1>11. ASSUME Proper(p) PROVE Searching(p)' /\ Reading(p)'
    <2>1. Searching(p) /\ Reading(p)
      BY <1>11 DEF IInv, OnTheWay
    <2>2. Searching(p)'
      BY <1>1, <1>9, <2>1 DEF Searching
    <2>3. offset'[p] = Begin(p) + Done(p) + (BufferSize * filled[p] + n)
      <3>1. /\ Len(s) = n /\ offset[p] = Begin(p) + Done(p) + BufferSize * filled[p]
            /\ Done(p) \in Nat /\ BufferSize * filled[p] \in Nat /\ Begin(p) \in Nat
        BY <1>1, <1>11, SoundRead
      <3>. HIDE DEF s
      <3>. QED
        BY <1>6, <3>1
    <2>4. filled'[p] <= Full(p)' + (IF IsLast(p)' THEN 1 ELSE 0)
      BY <1>6, <1>9 DEF InBounds
    <2>5. Reading(p)'
      BY <1>1, <1>9, <1>10, <2>1, <2>3, <2>4 DEF Reading, Between, Listing
    <2>. QED
      BY <2>2, <2>5
  <1>12. ASSUME Undisturbed(p)' PROVE Filling(p)' /\ Sounding(p)'
    <2>1. Sounding(p) /\ Filling(p) /\ Undisturbed(p)
      BY <1>1, <1>12 DEF IInv, OnTheWay, Undisturbed, Proper
    <2>2. Sounding(p)'
      BY <1>1, <1>9, <2>1 DEF Sounding, First
    <2>3. \A k \in 0..((BufferSize * filled[p] + n) - 1) :
             list'[k \div BufferSize].cells[(k % BufferSize) + 1]
                = Sound[file'[p]][Done(p)' + k + 1]
      BY <1>1, <2>1, HoldsMore
    <2>4. \A k \in 0..(ReadSoFar(p)' - 1) :
             list'[k \div BufferSize].cells[(k % BufferSize) + 1]
                = Sound[file'[p]][Done(p)' + k + 1]
      <3>1. 0..(ReadSoFar(p)' - 1) = 0..((BufferSize * filled[p] + n) - 1)
        <4>1. BufferSize * filled[p] \in Nat
          BY <1>2, Constants DEF TypeOK
        <4>2. BufferSize * filled[p] + n \in Nat
          BY <4>1
        <4>. QED
          BY <1>10, <4>2
      <3>. QED
        BY <2>3, <3>1
    <2>5. Filling(p)'
      BY <1>1, <1>9, <2>1, <2>4 DEF Filling, Holds
    <2>. QED
      BY <2>2, <2>5
  <1>13. OnTheWay(p)'
    BY <1>1, <1>11, <1>12 DEF OnTheWay, Fresh, Proper
  <1>. QED
    BY <1>1, <1>4, <1>5, <1>6, <1>7, <1>8, <1>13, PlayerMoves

(* ... in the loop of fillBuffers ...                                      *)
LEMMA FillOneKeeps ==
    ASSUME IInv, NEW p \in Player, FillOne(p)
    PROVE  IInv'
  <1>1. filled[p] < Full(p) /\ Fill(p, BufferSize, Samples(BufferSize) - 1)
    BY DEF FillOne
  <1>2. /\ BufferSize \in Nat \ {0} /\ NumBuffers \in Nat /\ filled[p] \in Nat
        /\ dataSize[p] \in Nat
    BY Constants DEF IInv, TypeOK
  <1>3. /\ Full(p) \in Nat /\ Full(p) <= NumBuffers /\ ListSize(p) \in Nat
        /\ BufferSize * Full(p) <= ListSize(p)
    <2>1. CASE IsLast(p)
      <3>1. /\ Full(p) \in Nat /\ Full(p) < NumBuffers /\ dataSize[p] % BufferSize \in 0..(BufferSize - 1)
            /\ ListSize(p) = BufferSize * Full(p) + (dataSize[p] % BufferSize) /\ ListSize(p) \in Nat
        BY <1>2, <2>1, ListSizes
      <3>2. BufferSize * Full(p) \in Nat
        BY <1>2, <3>1
      <3>. QED
        BY <1>2, <3>1, <3>2
    <2>2. CASE ~IsLast(p)
      BY <1>2, <2>2, ListSizes
    <2>. QED
      BY <2>1, <2>2
  <1>4. BufferSize * (filled[p] + 1) <= BufferSize * Full(p)
    <2>1. /\ filled[p] + 1 \in Int /\ Full(p) \in Int
          /\ filled[p] + 1 <= Full(p) /\ BufferSize \in Nat
      BY <1>1, <1>2, <1>3
    <2>. QED
      BY <2>1, TimesIsMonotone
  <1>5. BufferSize * (filled[p] + 1) = BufferSize * filled[p] + BufferSize
    BY <1>2
  <1>6. BufferSize * filled[p] \in Nat /\ BufferSize * Full(p) \in Nat
    BY <1>2, <1>3
  <1>7. BufferSize * filled[p] + BufferSize <= ListSize(p)
    BY <1>2, <1>3, <1>4, <1>5, <1>6
  <1>8. InBounds(p, BufferSize)
    BY <1>1, <1>2, <1>3, <1>5, <1>7 DEF InBounds, Buffer
  <1>. QED
    BY <1>1, <1>2, <1>8, FillKeeps

(* ... and behind it.                                                      *)
LEMMA FillLastKeeps ==
    ASSUME IInv, NEW p \in Player, FillLast(p)
    PROVE  IInv'
  <1>. DEFINE n == dataSize[p] % BufferSize
  <1>1. IsLast(p) /\ filled[p] = Full(p) /\ \E length : Fill(p, n, length)
    BY DEF FillLast
  <1>2. /\ BufferSize \in Nat \ {0} /\ NumBuffers \in Nat /\ filled[p] \in Nat
        /\ dataSize[p] \in Nat
    BY Constants DEF IInv, TypeOK
  <1>3. /\ Full(p) \in Nat /\ Full(p) < NumBuffers /\ n \in 0..(BufferSize - 1)
        /\ ListSize(p) = BufferSize * Full(p) + n
        /\ ListSize(p) \in Nat
    BY <1>1, <1>2, ListSizes
  <1>. HIDE DEF n
  <1>4. InBounds(p, n)
    BY <1>1, <1>2, <1>3 DEF InBounds, Buffer
  <1>5. n \in Nat
    BY <1>2, <1>3
  <1>. QED
    BY <1>1, <1>4, <1>5, FillKeeps

(* What the card is given is made of the buffers up to lvi.                *)
LEMMA ListedIs ==
    ASSUME TypeOK, CardReady, card > 0
    PROVE  /\ Listed \in Seq(Nat) /\ Len(Listed) = (lvi + 1) * BufferSize
           /\ \A k \in 1..Len(Listed) : Listed[k] =
                 list[(k - 1) \div BufferSize].cells[((k - 1) % BufferSize) + 1]
  <1>. DEFINE n == (lvi + 1) * BufferSize
              cell(k) == list[(k - 1) \div BufferSize].cells[((k - 1) % BufferSize) + 1]
  <1>1. /\ lvi \in Nat /\ lvi < NumBuffers /\ lvi + 1 \in Nat
        /\ BufferSize \in Nat \ {0} /\ NumBuffers \in Nat /\ n \in Nat
        /\ n = BufferSize * (lvi + 1)
    BY Constants DEF TypeOK, Buffer
  <1>2. ASSUME NEW k \in 1..n PROVE cell(k) \in Nat
    <2>1. k - 1 \in Nat /\ k - 1 < BufferSize * (lvi + 1)
      BY <1>1
    <2>. DEFINE j == k - 1
    <2>2. /\ j \div BufferSize \in Nat /\ j \div BufferSize < lvi + 1
          /\ j % BufferSize \in 0..(BufferSize - 1)
      <3>. HIDE DEF j
      <3>1. j \in Nat /\ j < BufferSize * (lvi + 1)
        BY <2>1 DEF j
      <3>. QED
        BY <1>1, <3>1, PlaceInList
    <2>3. j \div BufferSize \in Buffer /\ (j % BufferSize) + 1 \in 1..BufferSize
      BY <1>1, <2>2 DEF Buffer
    <2>4. list[j \div BufferSize].cells \in Cell
      BY <2>3 DEF CardReady
    <2>. QED
      BY <2>3, <2>4 DEF Cell
  <1>3. Listed = [k \in 1..n |-> cell(k)]
    BY DEF Listed
  <1>4. Listed \in Seq(Nat) /\ Len(Listed) = n
    <2>. HIDE DEF n, cell
    <2>. QED
      BY <1>1, <1>2, <1>3
  <1>5. \A k \in 1..n : Listed[k] = cell(k)
    <2>. HIDE DEF n, cell
    <2>. QED
      BY <1>3
  <1>. QED
    BY <1>4, <1>5

(* What it plays for p.                                                    *)
Given(p) == SubSeq(Listed, 1, Min({ListSize(p), Len(Listed)}))

(* That is a sequence of cells in any case, and p's list if lvi is its     *)
(* last buffer.                                                            *)
LEMMA GivenTyped ==
    ASSUME NEW p \in Player, TypeOK, CardReady, card > 0
    PROVE  /\ Given(p) \in Seq(Nat)
           /\ ListSize(p) <= Len(Listed) =>
                 /\ Len(Given(p)) = ListSize(p)
                 /\ \A k \in 1..ListSize(p) : Given(p)[k] = Listed[k]
  <1>. DEFINE e == Min({ListSize(p), Len(Listed)})
  <1>1. ListSize(p) \in Nat /\ Listed \in Seq(Nat) /\ Len(Listed) \in Nat
    BY ListSizes, ListedIs DEF TypeOK
  <1>2. e \in Nat /\ e <= Len(Listed) /\ (ListSize(p) <= Len(Listed) => e = ListSize(p))
    BY <1>1, MinOfTwo
  <1>3. Given(p) = SubSeq(Listed, 1, e)
    BY DEF Given
  <1>. HIDE DEF e
  <1>4. \A i \in 1..e : Listed[i] \in Nat
    BY <1>1, <1>2
  <1>5. /\ SubSeq(Listed, 1, e) \in Seq(Nat)
        /\ Len(SubSeq(Listed, 1, e)) = IF 1 <= e THEN e - 1 + 1 ELSE 0
        /\ \A i \in 1..(e - 1 + 1) : SubSeq(Listed, 1, e)[i] = Listed[1 + i - 1]
    BY <1>1, <1>2, <1>4, SubSeqProperties
  <1>. QED
    BY <1>2, <1>3, <1>5

(* For an undisturbed player it is the sound.                              *)
LEMMA GivenHoldsTheSound ==
    ASSUME IInv, NEW p \in Player, pc[p] = "start", Undisturbed(p)
    PROVE  /\ Len(Given(p)) = ListSize(p) /\ ListSize(p) \in Nat /\ Done(p) \in Nat
           /\ \A k \in 1..ListSize(p) : Given(p)[k] = Sound[file[p]][Done(p) + k]
  <1>1. /\ TypeOK /\ CardReady /\ card > 0 /\ Proper(p)
        /\ Filling(p) /\ Reading(p) /\ dataSize[p] \in Nat
    BY DEF IInv, CardReady, OnTheWay, Undisturbed, TypeOK
  <1>2. ListSize(p) \in Nat /\ lvi = LastValid(p) /\ Holds(p, ListSize(p))
    BY <1>1, ListSizes DEF Filling
  <1>3. Done(p) \in Nat
    <2>1. dataSize[p] <= Len(Sound[file[p]]) /\ Len(Sound[file[p]]) \in Nat
      BY <1>1, WavFiles DEF Reading, Listing
    <2>. QED
      BY <1>1, <2>1 DEF Done
  <1>4. ListSize(p) <= (lvi + 1) * BufferSize
    <2>1. BufferSize \in Nat \ {0} /\ NumBuffers \in Nat
      BY Constants
    <2>2. CASE IsLast(p)
      <3>1. /\ Full(p) \in Nat /\ lvi = Full(p) /\ dataSize[p] % BufferSize \in 0..(BufferSize - 1)
            /\ ListSize(p) = BufferSize * Full(p) + (dataSize[p] % BufferSize)
        BY <1>1, <1>2, <2>2, ListSizes
      <3>2. /\ (Full(p) + 1) * BufferSize = BufferSize * Full(p) + BufferSize
            /\ BufferSize * Full(p) \in Nat
        BY <2>1, <3>1
      <3>. QED
        BY <1>2, <2>1, <3>1, <3>2
    <2>3. CASE ~IsLast(p)
      <3>1. lvi = NumBuffers - 1 /\ ListSize(p) = NumBuffers * BufferSize
        BY <1>1, <1>2, <2>3, ListSizes DEF ListOf
      <3>2. lvi + 1 = NumBuffers
        BY <2>1, <3>1
      <3>. QED
        BY <2>1, <3>1, <3>2
    <2>. QED
      BY <2>2, <2>3
  <1>5. /\ Len(Listed) = (lvi + 1) * BufferSize
        /\ \A k \in 1..Len(Listed) : Listed[k] =
              list[(k - 1) \div BufferSize].cells[((k - 1) % BufferSize) + 1]
    BY <1>1, ListedIs
  <1>6. ListSize(p) <= Len(Listed) /\ Len(Listed) \in Nat
    BY <1>1, <1>4, <1>5, ListedIs
  <1>7. Len(Given(p)) = ListSize(p) /\ \A k \in 1..ListSize(p) : Given(p)[k] = Listed[k]
    BY <1>1, <1>6, GivenTyped
  <1>8. ASSUME NEW k \in 1..ListSize(p) PROVE Given(p)[k] = Sound[file[p]][Done(p) + k]
    <2>1. /\ k - 1 \in 0..(ListSize(p) - 1) /\ k \in 1..Len(Listed)
          /\ Done(p) + (k - 1) + 1 = Done(p) + k
      BY <1>2, <1>3, <1>6
    <2>2. list[(k - 1) \div BufferSize].cells[((k - 1) % BufferSize) + 1]
             = Sound[file[p]][Done(p) + (k - 1) + 1]
      BY <1>2, <2>1 DEF Holds
    <2>3. Listed[k] = list[(k - 1) \div BufferSize].cells[((k - 1) % BufferSize) + 1]
      BY <1>5, <2>1
    <2>. QED
      BY <1>7, <2>1, <2>2, <2>3
  <1>. QED
    BY <1>2, <1>3, <1>7, <1>8

(* Start keeps the invariant.                                              *)
LEMMA StartKeeps ==
    ASSUME IInv, NEW p \in Player, Start(p)
    PROVE  IInv'
  <1>1. /\ pc[p] = "start" /\ pc' = [pc EXCEPT ![p] = "target"]
        /\ since' = [since EXCEPT ![p] = jiffies]
        /\ sounded' = [sounded EXCEPT ![p] = @ \o Given(p)]
        /\ CardUnchanged /\ jiffies' = jiffies /\ disturbed' = disturbed /\ rewound' = rewound
        /\ UNCHANGED <<file, offset, wavhdr, dataSize, filled, target, ran, list>>
    BY DEF Start, begun, reading, counts, Given, CardUnchanged
  <1>2. /\ card > 0 /\ wavhdr[p] \in Header /\ TypeOK /\ CardReady
        /\ sounded[p] \in Seq(Nat) /\ dataSize[p] \in Nat
    BY <1>1 DEF IInv, CardReady, TypeOK
  <1>3. Given(p) \in Seq(Nat)
    BY <1>2, GivenTyped
  <1>4. sounded[p] \o Given(p) \in Seq(Nat)
    BY <1>2, <1>3
  <1>5. TypeOK'
    BY <1>1, <1>2, <1>4 DEF TypeOK, Labels, CardUnchanged, Buffer
  <1>6. /\ \A q \in Player \ {p} : OwnSame(q)
        /\ pc'[p] = "target" /\ sounded'[p] = sounded[p] \o Given(p) /\ wavhdr'[p] = wavhdr[p]
    BY <1>1, <1>2 DEF TypeOK, OwnSame
  <1>7. /\ Begin(p)' = Begin(p) /\ Done(p)' = Done(p) /\ IsLast(p)' = IsLast(p)
        /\ ListSize(p)' = ListSize(p) /\ SampleRateEq(p)' = SampleRateEq(p)
    BY <1>1 DEF Begin, Done, IsLast, ListSize, SampleRateEq
  <1>8. ASSUME Proper(p) PROVE Searching(p)' /\ Reading(p)'
    <2>1. Searching(p) /\ Reading(p)
      BY <1>8 DEF IInv, OnTheWay
    <2>2. Searching(p)'
      BY <1>1, <1>6, <1>7, <2>1 DEF Searching
    <2>3. Reading(p)'
      BY <1>1, <1>6, <1>7, <2>1 DEF Reading, Between, Listing
    <2>. QED
      BY <2>2, <2>3
  <1>9. ASSUME Undisturbed(p)' PROVE Filling(p)' /\ Sounding(p)'
    <2>1. Sounding(p) /\ Undisturbed(p)
      BY <1>1, <1>9 DEF IInv, OnTheWay, Undisturbed, Proper
    <2>2. First(p, Done(p))
      BY <1>1, <2>1 DEF Sounding, Between, Listing
    <2>3. /\ Len(Given(p)) = ListSize(p) /\ ListSize(p) \in Nat /\ Done(p) \in Nat
          /\ \A k \in 1..ListSize(p) : Given(p)[k] = Sound[file[p]][Done(p) + k]
      BY <1>1, <2>1, GivenHoldsTheSound
    <2>4. Len(sounded[p] \o Given(p)) = Done(p) + ListSize(p)
      <3>1. Len(sounded[p]) = Done(p)
        BY <2>2 DEF First
      <3>2. Len(sounded[p] \o Given(p)) = Len(sounded[p]) + Len(Given(p))
        BY <1>2, <1>3, ConcatProperties
      <3>. QED
        BY <2>3, <3>1, <3>2
    <2>5. ASSUME NEW k \in 1..(Done(p) + ListSize(p))
          PROVE  (sounded[p] \o Given(p))[k] = Sound[file[p]][k]
      <3>1. CASE k <= Done(p)
        <4>1. k \in 1..Len(sounded[p]) /\ k \in 1..Done(p)
          BY <2>2, <2>3, <3>1 DEF First
        <4>2. (sounded[p] \o Given(p))[k] = sounded[p][k]
          BY <1>2, <1>3, <4>1
        <4>. QED
          BY <2>2, <4>1, <4>2 DEF First
      <3>2. CASE ~(k <= Done(p))
        <4>. DEFINE j == k - Done(p)
        <4>1. j \in 1..ListSize(p) /\ Done(p) + j = k
          BY <2>3, <3>2
        <4>2. Len(sounded[p]) = Done(p)
          BY <2>2 DEF First
        <4>3. (sounded[p] \o Given(p))[k] = Given(p)[j]
          BY <1>2, <1>3, <2>3, <3>2, <4>1, <4>2
        <4>. HIDE DEF j
        <4>4. Given(p)[j] = Sound[file[p]][Done(p) + j]
          BY <2>3, <4>1
        <4>. QED
          BY <4>1, <4>3, <4>4
      <3>. QED
        BY <3>1, <3>2
    <2>6. First(p, Done(p) + ListSize(p))'
      BY <1>1, <1>6, <1>7, <2>4, <2>5 DEF First
    <2>7. Sounding(p)'
      BY <1>6, <2>6 DEF Sounding, Between, Listing
    <2>8. Filling(p)'
      BY <1>6 DEF Filling
    <2>. QED
      BY <2>7, <2>8
  <1>10. OnTheWay(p)'
    BY <1>1, <1>6, <1>8, <1>9 DEF OnTheWay, Fresh, Proper
  <1>. QED
    BY <1>1, <1>2, <1>5, <1>6, <1>10, QuietStep DEF Using

(* A list that ends is the whole of what is left, or full.                 *)
LEMMA ListDone ==
    ASSUME IInv, NEW p \in Player, pc[p] = "target", Proper(p)
    PROVE  /\ Begin(p) \in Nat /\ Done(p) \in Nat /\ ListSize(p) \in Nat /\ ListOf \in Nat \ {0}
           /\ ListSize(p) <= dataSize[p] /\ dataSize[p] \in Nat
           /\ Len(Sound[file[p]]) - (dataSize[p] - ListSize(p)) = Done(p) + ListSize(p)
           /\ dataSize[p] - ListSize(p) <= Len(Sound[file[p]])
           /\ (Done(p) + ListSize(p)) % ListOf = 0 \/ dataSize[p] - ListSize(p) = 0
           /\ Done(p) % ListOf = 0 /\ 0 < ListSize(p) /\ ListSize(p) <= ListOf
  <1>. DEFINE l == Len(Sound[file[p]])
              d == dataSize[p]
  <1>1. /\ d \in Nat /\ d <= l /\ d > 0 /\ l \in Nat /\ Layout[file[p]].data \in Nat
        /\ Done(p) % ListOf = 0
    BY WavFiles DEF IInv, TypeOK, OnTheWay, Reading, Between, Listing, Proper
  <1>2. /\ ListOf \in Nat \ {0} /\ ListSize(p) \in Nat /\ ListSize(p) <= d
        /\ IsLast(p) => ListSize(p) = d
        /\ ~IsLast(p) => ListSize(p) = ListOf
    BY <1>1, ListSizes
  <1>3. Begin(p) = Layout[file[p]].data + 2 /\ Done(p) = l - d
    BY DEF Begin, Done
  <1>. HIDE DEF l, d
  <1>4. Begin(p) \in Nat /\ Done(p) \in Nat
    BY <1>1, <1>3
  <1>5. l - (d - ListSize(p)) = Done(p) + ListSize(p) /\ d - ListSize(p) <= l
    BY <1>1, <1>2, <1>3
  <1>6. 0 < ListSize(p) /\ ListSize(p) <= ListOf
    <2>1. IsLast(p) => d < ListOf
      BY DEF IsLast, ListOf, d
    <2>. QED
      BY <1>1, <1>2, <2>1
  <1>7. (Done(p) + ListSize(p)) % ListOf = 0 \/ d - ListSize(p) = 0
    <2>1. CASE IsLast(p)
      BY <1>1, <1>2, <2>1
    <2>2. CASE ~IsLast(p)
      <3>. DEFINE q == Done(p) \div ListOf
      <3>1. q \in Nat /\ Done(p) = ListOf * q + (Done(p) % ListOf)
        BY <1>2, <1>4, Division
      <3>. HIDE DEF q
      <3>2. Done(p) = ListOf * q /\ ListOf * q \in Nat
        BY <1>1, <1>2, <3>1
      <3>3. Done(p) + ListSize(p) = ListOf * (q + 1) + 0
        BY <1>2, <2>2, <3>1, <3>2
      <3>4. (ListOf * (q + 1) + 0) % ListOf = 0
        <4>1. q + 1 \in Nat /\ 0 \in 0..(ListOf - 1)
          BY <1>2, <3>1
        <4>. QED
          BY <1>2, <4>1, Quotient
      <3>. QED
        BY <3>3, <3>4
    <2>. QED
      BY <2>1, <2>2
  <1>. QED
    BY <1>1, <1>2, <1>4, <1>5, <1>6, <1>7 DEF l, d

(* SetTarget keeps the invariant.                                          *)
LEMMA SetTargetKeeps ==
    ASSUME IInv, NEW p \in Player, SetTarget(p)
    PROVE  IInv'
  <1>1. /\ pc[p] = "target" /\ pc' = [pc EXCEPT ![p] = "playing"]
        /\ dataSize' = [dataSize EXCEPT ![p] = @ - ListSize(p)]
        /\ target' = [target EXCEPT ![p] = (jiffies + Jiffies(p, ListSize(p))) % Word]
        /\ CardUnchanged /\ jiffies' = jiffies /\ disturbed' = disturbed /\ rewound' = rewound
        /\ UNCHANGED <<file, offset, wavhdr, filled, since, ran, sounded>>
    BY DEF SetTarget, registers, begun, reading, history, CardUnchanged
  <1>2. card > 0 /\ wavhdr[p] \in Header /\ TypeOK /\ dataSize[p] \in Nat
    BY <1>1 DEF IInv, CardReady, TypeOK
  <1>3. /\ ListSize(p) \in Nat /\ ListSize(p) <= dataSize[p]
        /\ dataSize[p] - ListSize(p) \in Nat
    BY <1>2, ListSizes
  <1>4. TypeOK'
    BY <1>1, <1>2, <1>3 DEF TypeOK, Labels, CardUnchanged, Buffer
  <1>5. /\ \A q \in Player \ {p} : OwnSame(q)
        /\ pc'[p] = "playing" /\ dataSize'[p] = dataSize[p] - ListSize(p) /\ wavhdr'[p] = wavhdr[p]
    BY <1>1, <1>2 DEF TypeOK, OwnSame
  <1>6. Begin(p)' = Begin(p) /\ SampleRateEq(p)' = SampleRateEq(p)
    BY <1>1 DEF Begin, SampleRateEq
  <1>7. Proper(p) => Done(p)' = Done(p) + ListSize(p)
    BY <1>1, <1>5, ListDone DEF Done
  <1>8. ASSUME Proper(p) PROVE Searching(p)' /\ Reading(p)'
    <2>1. Searching(p) /\ Reading(p)
      BY <1>8 DEF IInv, OnTheWay
    <2>2. Searching(p)'
      BY <1>1, <1>5, <1>6, <2>1 DEF Searching
    <2>3. /\ Begin(p) \in Nat /\ Done(p) \in Nat
          /\ dataSize[p] - ListSize(p) <= Len(Sound[file[p]])
          /\ (Done(p) + ListSize(p)) % ListOf = 0 \/ dataSize[p] - ListSize(p) = 0
      BY <1>1, <1>8, ListDone
    <2>4. offset'[p] = Begin(p) + (Done(p) + ListSize(p))
      BY <1>1, <1>3, <2>1, <2>3 DEF Reading, Listing
    <2>5. Reading(p)'
      BY <1>1, <1>5, <1>6, <1>7, <1>8, <2>3, <2>4 DEF Reading, Between, Listing
    <2>. QED
      BY <2>2, <2>5
  <1>9. ASSUME Undisturbed(p)' PROVE Filling(p)' /\ Sounding(p)'
    <2>1. Sounding(p) /\ Proper(p)
      BY <1>1, <1>9 DEF IInv, OnTheWay, Undisturbed, Proper
    <2>2. First(p, Done(p) + ListSize(p))
      BY <1>1, <2>1 DEF Sounding
    <2>3. Sounding(p)'
      BY <1>1, <1>5, <1>7, <2>1, <2>2 DEF Sounding, First
    <2>. QED
      BY <1>5, <2>3 DEF Filling
  <1>10. OnTheWay(p)'
    BY <1>1, <1>5, <1>8, <1>9 DEF OnTheWay, Fresh, Proper
  <1>. QED
    BY <1>1, <1>2, <1>4, <1>5, <1>10, QuietStep DEF Using

(* Stop keeps the invariant.                                               *)
LEMMA StopKeeps ==
    ASSUME IInv, NEW p \in Player, Stop(p)
    PROVE  IInv'
  <1>1. /\ pc[p] = "playing" /\ pc' = [pc EXCEPT ![p] = "next"]
        /\ ran' = [ran EXCEPT ![p] = @ + jiffies - since[p]]
        /\ CardUnchanged /\ jiffies' = jiffies /\ disturbed' = disturbed /\ rewound' = rewound
        /\ UNCHANGED <<file, offset, wavhdr, dataSize, filled, target, since, sounded>>
    BY DEF Stop, begun, reading, counts, CardUnchanged
  <1>2. /\ card > 0 /\ wavhdr[p] \in Header /\ TypeOK /\ ran[p] \in Int /\ since[p] \in Nat
        /\ jiffies \in Nat
    BY <1>1 DEF IInv, CardReady, TypeOK
  <1>3. ran[p] + jiffies - since[p] \in Int
    BY <1>2
  <1>4. TypeOK'
    BY <1>1, <1>2, <1>3 DEF TypeOK, Labels, CardUnchanged, Buffer
  <1>5. /\ (\A q \in Player \ {p} : OwnSame(q)) /\ pc'[p] = "next"
        /\ wavhdr'[p] = wavhdr[p]
    BY <1>1, <1>2 DEF TypeOK, OwnSame
  <1>6. Begin(p)' = Begin(p) /\ SampleRateEq(p)' = SampleRateEq(p) /\ Done(p)' = Done(p)
    BY <1>1 DEF Begin, SampleRateEq, Done
  <1>7. ASSUME Proper(p) PROVE Searching(p)' /\ Reading(p)'
    <2>1. Searching(p) /\ Reading(p)
      BY <1>7 DEF IInv, OnTheWay
    <2>. QED
      BY <1>1, <1>5, <1>6, <2>1 DEF Searching, Reading, Between, Listing
  <1>8. ASSUME Undisturbed(p)' PROVE Filling(p)' /\ Sounding(p)'
    <2>1. Sounding(p)
      BY <1>1, <1>8 DEF IInv, OnTheWay, Undisturbed, Proper
    <2>. QED
      BY <1>1, <1>5, <1>6, <2>1 DEF Filling, Sounding, First, Between, Listing
  <1>9. OnTheWay(p)'
    BY <1>1, <1>5, <1>7, <1>8 DEF OnTheWay, Fresh, Proper
  <1>. QED
    BY <1>1, <1>2, <1>4, <1>5, <1>9, QuietStep DEF Using

(* Stutter keeps the invariant.                                            *)
LEMMA StutterKeeps ==
    ASSUME IInv, UNCHANGED vars
    PROVE  IInv'
  <1>1. PlayersUnchanged /\ CardUnchanged /\ jiffies' = jiffies
    BY DEF vars, registers, begun, reading, counts, history, PlayersUnchanged, CardUnchanged
  <1>. QED
    BY <1>1, CardStays DEF IInv, TypeOK

(* Every step keeps the invariant.                                         *)
LEMMA Inductive == IInv /\ [Next]_vars => IInv'
  <1>. SUFFICES ASSUME IInv, [Next]_vars PROVE IInv'
    OBVIOUS
  <1>1. CASE FindAC97 \/ NoAC97 \/ ResetDone \/ Tick
    BY <1>1, FindAC97Keeps, NoAC97Keeps, ResetDoneKeeps, TickKeeps
  <1>2. ASSUME NEW p \in Player, Call(p) PROVE IInv'
    BY <1>2, OpenKeeps, SeekKeeps, PlayAudioKeeps DEF Call
  <1>3. ASSUME NEW p \in Player, Step(p) PROVE IInv'
    <2>1. CASE SkipToFmt(p) \/ ReadFmt(p) \/ SkipToData(p) \/ ReadData(p)
      BY <2>1, SkipToFmtKeeps, ReadFmtKeeps, SkipToDataKeeps, ReadDataKeeps
    <2>2. CASE Refuse(p) \/ Accept(p) \/ Finish(p)
      BY <2>2, RefuseKeeps, AcceptKeeps, FinishKeeps
    <2>3. CASE FillBuffers(p) \/ FillOne(p) \/ FillLast(p)
      BY <2>3, FillBuffersKeeps, FillOneKeeps, FillLastKeeps
    <2>4. CASE Reset(p) \/ ResetSeen(p)
      BY <2>4, ResetKeeps, ResetSeenKeeps
    <2>5. CASE Start(p) \/ DivideByZero(p) \/ SetTarget(p) \/ Stop(p)
      BY <2>5, StartKeeps, DivideByZeroKeeps, SetTargetKeeps, StopKeeps
    <2>. QED
      BY <1>3, <2>1, <2>2, <2>3, <2>4, <2>5 DEF Step
  <1>4. CASE UNCHANGED vars
    BY <1>4, StutterKeeps
  <1>. QED
    BY <1>1, <1>2, <1>3, <1>4 DEF Next

(* Nobody plays at first.                                                  *)
LEMMA Initially == Init => IInv
  <1>. SUFFICES ASSUME Init PROVE IInv
    OBVIOUS
  <1>1. \A p \in Player : /\ pc[p] = "out" /\ sounded[p] = <<>> /\ ran[p] = 0
    BY DEF Init
  <1>2. <<>> \in Seq(Nat)
    OBVIOUS
  <1>3. TypeOK
    BY <1>2, Constants DEF Init, TypeOK, Labels, Buffer
  <1>4. CardReady
    BY <1>1 DEF Init, CardReady
  <1>5. Exclusive
    BY <1>1 DEF Exclusive, Using
  <1>6. ASSUME NEW p \in Player PROVE OnTheWay(p)
    <2>1. Fresh(p)
      BY <1>1 DEF Fresh
    <2>2. Searching(p) /\ Reading(p) /\ Filling(p) /\ Sounding(p)
      BY <1>1 DEF Searching, Reading, Filling, Sounding, Between, Listing
    <2>. QED
      BY <2>1, <2>2 DEF OnTheWay
  <1>. QED
    BY <1>3, <1>4, <1>5, <1>6 DEF IInv

(* The invariant holds throughout.                                         *)
LEMMA Invariant == Spec => []IInv
  BY Initially, Inductive, PTL DEF Spec

(* The first half of PlaysTheSound: what was played was the sound, all of  *)
(* it and in order.                                                        *)
Whole ==
    \A p \in Player : pc[p] = "played" /\ Proper(p) /\ p \notin disturbed =>
       sounded[p] = Sound[file[p]]

(* A player that is done has given all of it to the card.                  *)
LEMMA WholeHolds == IInv => Whole
  <1>. SUFFICES ASSUME IInv, NEW p \in Player, pc[p] = "played", Proper(p), p \notin disturbed
                PROVE  sounded[p] = Sound[file[p]]
    BY DEF Whole
  <1>1. /\ dataSize[p] = 0 /\ First(p, Done(p)) /\ sounded[p] \in Seq(Nat)
        /\ Sound[file[p]] \in Seq(Nat) /\ Len(Sound[file[p]]) \in Nat
    BY WavFiles
       DEF IInv, TypeOK, OnTheWay, Undisturbed, Reading, Sounding, Between, Listing, Proper
  <1>2. Done(p) = Len(Sound[file[p]])
    BY <1>1 DEF Done
  <1>3. /\ Len(sounded[p]) = Len(Sound[file[p]])
        /\ \A k \in 1..Len(sounded[p]) : sounded[p][k] = Sound[file[p]][k]
    BY <1>1, <1>2 DEF First
  <1>. QED
    BY <1>1, <1>3, SeqEqual

(* play_audio gives the card the sound of a file in the expected format,   *)
(* from its first cell to its last, for sounds of any length, chunks of    *)
(* any number and size before it, and buffers of any number and size, if   *)
(* it begins at the start of the file, for the first time or again, and    *)
(* nobody else uses the card meanwhile (sys.cc, process.cc, pci.cc).       *)
THEOREM ListsHoldTheSound == Spec => []Whole
  BY Invariant, WholeHolds, PTL

(* Whoever starts the card is then in play, and leaves it with a reset.    *)
LEMMA StopsInductive ==
    ASSUME TypeOK, StopsPlaying, [Next]_vars
    PROVE  StopsPlaying'
  <1>. DEFINE At(p) == pc[p] \in {"target", "playing"}
  <1>1. ASSUME NEW p \in Player, pc' = [pc EXCEPT ![p] = "target"] PROVE StopsPlaying'
    BY <1>1 DEF TypeOK, StopsPlaying
  <1>2. ASSUME control' # "run" PROVE StopsPlaying'
    BY <1>2 DEF StopsPlaying
  <1>3. ASSUME control' = control, \A q \in Player : At(q) => At(q)' PROVE StopsPlaying'
    BY <1>3 DEF StopsPlaying
  <1>4. ASSUME NEW p \in Player, ~At(p), NEW place, pc' = [pc EXCEPT ![p] = place]
        PROVE  \A q \in Player : At(q) => At(q)'
    BY <1>4 DEF TypeOK
  <1>5. CASE FindAC97 \/ NoAC97 \/ ResetDone \/ Tick
    BY <1>2, <1>3, <1>5
       DEF FindAC97, InitializeCodec, SetupDMABuffers, NoAC97, ResetDone, Tick, registers
  <1>6. ASSUME NEW p \in Player, Call(p) PROVE StopsPlaying'
    <2>1. Idle(p) /\ control' = control /\ \E place : pc' = [pc EXCEPT ![p] = place]
      BY <1>6 DEF Call, Open, Seek, PlayAudio, registers
    <2>2. ~At(p)
      BY <2>1 DEF Idle
    <2>. QED
      BY <1>3, <1>4, <2>1, <2>2
  <1>7. ASSUME NEW p \in Player, Step(p) PROVE StopsPlaying'
    <2>1. CASE SkipToFmt(p) \/ SkipToData(p)
      BY <1>3, <2>1 DEF SkipToFmt, SkipToData, SkipChunk, HeaderRead, registers
    <2>2. CASE ReadFmt(p) \/ ReadData(p)
      BY <1>3, <1>4, <2>2 DEF ReadFmt, ReadData, HeaderRead, registers
    <2>3. CASE Refuse(p) \/ Accept(p) \/ Finish(p) \/ FillBuffers(p) \/ ResetSeen(p)
      BY <1>3, <1>4, <2>3 DEF Refuse, Accept, Finish, FillBuffers, ResetSeen, registers
    <2>4. CASE FillOne(p) \/ FillLast(p)
      BY <1>3, <2>4 DEF FillOne, FillLast, Fill
    <2>5. CASE Reset(p) \/ DivideByZero(p) \/ Stop(p)
      BY <1>2, <2>5 DEF Reset, DivideByZero, Stop
    <2>6. CASE Start(p)
      BY <1>1, <2>6 DEF Start
    <2>7. CASE SetTarget(p)
      BY <2>7 DEF SetTarget, StopsPlaying, TypeOK, registers
    <2>. QED
      BY <1>7, <2>1, <2>2, <2>3, <2>4, <2>5, <2>6, <2>7 DEF Step
  <1>8. CASE UNCHANGED vars
    BY <1>3, <1>8 DEF vars, registers
  <1>. QED
    BY <1>5, <1>6, <1>7, <1>8 DEF Next

(* The card runs only while somebody is in play, for any number of players *)
(* that disturb each other (pci.cc).                                       *)
THEOREM CardIsSilenced == Spec => []StopsPlaying
  <1>1. Init => StopsPlaying
    BY DEF Init, StopsPlaying
  <1>2. IInv /\ StopsPlaying /\ [Next]_vars => StopsPlaying'
    BY StopsInductive DEF IInv
  <1>. QED
    BY <1>1, <1>2, Invariant, PTL DEF Spec

(* Whole seconds and the rest, each rounded down to jiffies, are short by  *)
(* less than a jiffy.                                                      *)
LEMMA RestOfASecond ==
    ASSUME NEW s \in Nat \ {0}, NEW n \in Nat
    PROVE  /\ Hz * (n \div s) + (((n % s) * Hz) \div s) \in Nat
           /\ (n % s) * Hz \in Nat /\ n \div s \in Nat /\ Hz * (n \div s) \in Nat
           /\ ((n % s) * Hz) \div s \in Nat
           /\ s * ((Hz * (n \div s) + (((n % s) * Hz) \div s)) + 1) >= Hz * n
  <1>. DEFINE q == n \div s
              r == n % s
              a == (r * Hz) \div s
              b == (r * Hz) % s
  <1>0. Hz \in Nat
    BY Constants
  <1>1. q \in Nat /\ r \in Nat /\ n = s * q + r
    BY Division
  <1>2. r * Hz \in Nat /\ Hz * q \in Nat
    <2>. HIDE DEF r, q
    <2>. QED
      BY <1>0, <1>1
  <1>3. a \in Nat /\ b \in 0..(s - 1) /\ r * Hz = s * a + b
    <2>. HIDE DEF r
    <2>. QED
      BY <1>2, Division
  <1>. HIDE DEF q, r, a, b
  <1>4. Hz * n = Hz * (s * q) + s * a + b
    <2>1. Hz * (s * q + r) = Hz * (s * q) + r * Hz
      BY <1>0, <1>1
    <2>2. Hz * (s * q) \in Nat /\ s * a \in Nat
      BY <1>0, <1>1, <1>3
    <2>. QED
      BY <1>1, <1>3, <2>1, <2>2
  <1>5. s * ((Hz * q + a) + 1) = Hz * (s * q) + s * a + s
    BY <1>0, <1>1, <1>3
  <1>6. Hz * (s * q) \in Nat /\ s * a \in Nat
    BY <1>0, <1>1, <1>3
  <1>7. s * ((Hz * q + a) + 1) >= Hz * n
    BY <1>3, <1>4, <1>5, <1>6
  <1>8. Hz * q + a \in Nat
    BY <1>2, <1>3
  <1>. QED
    BY <1>1, <1>2, <1>3, <1>7, <1>8 DEF q, r, a

(* A list that follows full ones is one more.                              *)
LEMMA ListsAreCounted ==
    ASSUME NEW n \in Nat
    PROVE  /\ Lists(n) \in Nat
           /\ \A m \in Nat : n % ListOf = 0 /\ n < m => Lists(n) + 1 <= Lists(m)
  <1>. DEFINE L(k) == {j \in 0..k : j < k /\ j % ListOf = 0}
  <1>1. ASSUME NEW k \in Nat PROVE IsFiniteSet(L(k)) /\ Lists(k) = Cardinality(L(k)) /\ Lists(k) \in Nat
    <2>1. IsFiniteSet(0..k)
      <3>1. 0 \in Int /\ k \in Int
        OBVIOUS
      <3>. QED
        BY <3>1, FS_Interval
    <2>2. IsFiniteSet(L(k))
      BY <2>1, FS_Subset
    <2>3. Lists(k) = Cardinality(L(k))
      BY DEF Lists
    <2>. QED
      BY <2>2, <2>3, FS_CardinalityType
  <1>2. ASSUME NEW m \in Nat, n % ListOf = 0, n < m PROVE Lists(n) + 1 <= Lists(m)
    <2>1. L(n) \cup {n} \subseteq L(m)
      BY <1>2
    <2>2. n \notin L(n)
      OBVIOUS
    <2>3. IsFiniteSet(L(n)) /\ IsFiniteSet(L(m)) /\ Lists(n) = Cardinality(L(n))
          /\ Lists(m) = Cardinality(L(m)) /\ Lists(n) \in Nat
      BY <1>1
    <2>. HIDE DEF L
    <2>4. Cardinality(L(n) \cup {n}) = Cardinality(L(n)) + 1
      BY <2>2, <2>3, FS_AddElement
    <2>5. Cardinality(L(n) \cup {n}) <= Cardinality(L(m))
      BY <2>1, <2>3, FS_Subset
    <2>. QED
      BY <2>3, <2>4, <2>5
  <1>. QED
    BY <1>1, <1>2

(* A step of p that is not the last of all leaves the others and the timer *)
(* alone.                                                                  *)
LEMMA OthersWait ==
    ASSUME TypeOK, NEW p \in Player, Call(p) \/ Step(p), ~DivideByZero(p)
    PROVE  jiffies' = jiffies /\ \A q \in Player \ {p} : OwnSame(q)
  <1>1. CASE Call(p)
    <2>1. CASE (\E f \in Choice[p] : Open(p, f)) \/ \E o \in Position : Seek(p, o)
      BY <2>1 DEF Open, Seek, begun, counts, history, OwnSame, TypeOK
    <2>2. CASE \E m \in Memory : PlayAudio(p, m)
      BY <2>2 DEF PlayAudio, OwnSame, TypeOK
    <2>. QED
      BY <1>1, <2>1, <2>2 DEF Call
  <1>2. CASE SkipToFmt(p) \/ SkipToData(p) \/ ReadFmt(p) \/ ReadData(p)
    <2>1. /\ jiffies' = jiffies
          /\ pc' \in {pc, [pc EXCEPT ![p] = "data"], [pc EXCEPT ![p] = "header"]}
      BY <1>2 DEF SkipToFmt, SkipToData, ReadFmt, ReadData, SkipChunk, HeaderRead
    <2>2. \E h, o : HeaderRead(p, h, o)
      BY <1>2 DEF SkipToFmt, SkipToData, ReadFmt, ReadData, SkipChunk
    <2>. QED
      BY <2>1, <2>2 DEF HeaderRead, begun, counts, history, OwnSame, TypeOK
  <1>3. CASE Refuse(p) \/ Accept(p) \/ Finish(p)
    BY <1>3 DEF Refuse, Accept, Finish, begun, reading, counts, history, OwnSame, TypeOK
  <1>4. CASE FillBuffers(p) \/ Reset(p) \/ ResetSeen(p)
    BY <1>4 DEF FillBuffers, Reset, ResetSeen, begun, reading, counts, history, OwnSame, TypeOK
  <1>5. CASE FillOne(p) \/ FillLast(p)
    BY <1>5 DEF FillOne, FillLast, Fill, begun, counts, history, OwnSame, TypeOK
  <1>6. CASE Start(p)
    BY <1>6 DEF Start, begun, reading, counts, OwnSame, TypeOK
  <1>7. CASE SetTarget(p)
    BY <1>7 DEF SetTarget, begun, reading, history, OwnSame, TypeOK
  <1>8. CASE Stop(p)
    BY <1>8 DEF Stop, begun, reading, counts, OwnSame, TypeOK
  <1>. QED
    BY <1>1, <1>2, <1>3, <1>4, <1>5, <1>6, <1>7, <1>8 DEF Step

(* What was long enough for q stays so while q waits ...                   *)
LEMMA TimedStays ==
    ASSUME NEW q \in Player, Timed(q), OwnSame(q), TypeOK, jiffies' \in Nat, jiffies <= jiffies'
    PROVE  Timed(q)'
  <1>1. SampleRateEq(q)' = SampleRateEq(q) /\ Done(q)' = Done(q)
    BY DEF OwnSame, SampleRateEq, Done
  <1>2. since[q] \in Nat /\ jiffies \in Nat
    BY DEF TypeOK
  <1>3. (pc[q] \in {"target", "playing"} => since[q] <= jiffies)'
    BY <1>2 DEF Timed, OwnSame
  <1>. QED
    BY <1>1, <1>3 DEF Timed, OwnSame, LongEnough, Lists

(* ... and while p goes on without playing.                                *)
LEMMA TimedOnward ==
    ASSUME NEW p \in Player, Timed(p),
           pc[p] \in (Between \cup Listing) \ {"playing"},
           pc'[p] \in (Between \cup Listing) \ {"playing", "target"},
           UNCHANGED <<file, wavhdr, dataSize, ran>>
    PROVE  Timed(p)'
  <1>1. SampleRateEq(p)' = SampleRateEq(p) /\ Done(p)' = Done(p)
    BY DEF SampleRateEq, Done
  <1>. QED
    BY <1>1 DEF Timed, LongEnough, Lists

(* The rate of a file of the expected format is not zero: play does not    *)
(* divide by it.                                                           *)
LEMMA WavRate ==
    ASSUME IInv, NEW p \in Player, Proper(p), pc[p] \in Between \cup Listing
    PROVE  SampleRateEq(p) \in Nat \ {0} /\ Done(p) \in Nat /\ wavhdr[p] \in Header
  <1>. DEFINE f == file[p]
              l == Layout[f]
  <1>1. /\ SampleRateEq(p) = f[l.fmt + 5] /\ dataSize[p] <= Len(Sound[f])
        /\ dataSize[p] \in Nat
    BY DEF IInv, TypeOK, OnTheWay, Searching, Reading, Between, Listing
  <1>2. wavhdr[p] \in Header
    BY DEF IInv, CardReady, Between, Listing
  <1>3. SampleRateEq(p) \in Nat
    BY <1>2 DEF Header, SampleRateEq
  <1>4. f[l.fmt + 5] > 0
    BY WavFiles DEF IsWav, Proper
  <1>5. Done(p) \in Nat
    BY <1>1, WavFiles DEF Done
  <1>. QED
    BY <1>1, <1>2, <1>3, <1>4, <1>5

(* Nothing is played yet.                                                  *)
LEMMA AcceptTimed ==
    ASSUME IInv, IInv', NEW p \in Player, Accept(p), Proper(p)
    PROVE  Timed(p)'
  <1>1. /\ pc[p] = "header" /\ pc'[p] = "next" /\ ran' = ran /\ file' = file /\ wavhdr' = wavhdr
        /\ dataSize' = [dataSize EXCEPT ![p] = DataSize(p)]
    BY DEF Accept, begun, reading, history, IInv, TypeOK
  <1>2. DataSize(p) = Len(Sound[file[p]]) /\ ran[p] = 0
    BY <1>1 DEF IInv, OnTheWay, Searching, Fresh
  <1>3. Done(p)' = 0
    BY <1>1, <1>2, WavFiles DEF Done, IInv, TypeOK
  <1>4. SampleRateEq(p)' \in Nat
    BY <1>1, WavRate DEF IInv, CardReady, SampleRateEq, Header
  <1>5. Lists(0) \in Nat /\ Hz * 0 = 0
    BY ListsAreCounted, Constants
  <1>6. LongEnough(p, Done(p), ran[p])'
    <2>1. SampleRateEq(p)' * (0 + Lists(0)) \in Nat
      BY <1>4, <1>5
    <2>2. SampleRateEq(p)' * (ran'[p] + Lists(Done(p)')) >= Hz * Done(p)'
      BY <1>1, <1>2, <1>3, <1>5, <2>1
    <2>. QED
      BY <2>2 DEF LongEnough, Lists
  <1>. QED
    BY <1>1, <1>6 DEF Timed

(* p notes the time.                                                       *)
LEMMA StartTimed ==
    ASSUME IInv, NEW p \in Player, Start(p), Timed(p)
    PROVE  Timed(p)'
  <1>1. /\ pc[p] = "start" /\ pc'[p] = "target" /\ ran' = ran /\ file' = file /\ wavhdr' = wavhdr
        /\ dataSize' = dataSize /\ since'[p] = jiffies /\ jiffies' = jiffies /\ jiffies \in Nat
    BY DEF Start, begun, reading, counts, IInv, TypeOK
  <1>2. SampleRateEq(p)' = SampleRateEq(p) /\ Done(p)' = Done(p)
    BY <1>1 DEF SampleRateEq, Done
  <1>3. LongEnough(p, Done(p), ran[p])
    BY <1>1 DEF Timed, Between, Listing
  <1>4. LongEnough(p, Done(p), ran[p])'
    BY <1>1, <1>2, <1>3 DEF LongEnough, Lists
  <1>5. (since[p] <= jiffies)'
    BY <1>1
  <1>. QED
    BY <1>1, <1>4, <1>5 DEF Timed

(* The end of playing is late enough.                                      *)
LEMMA SetTargetTimed ==
    ASSUME IInv, NEW p \in Player, SetTarget(p), Timed(p), TimesFit, Proper(p)
    PROVE  Timed(p)'
  <1>. DEFINE s == SampleRateEq(p)
              n == ListSize(p)
              d == Done(p)
              j == Hz * (n \div s) + (((n % s) * Hz) \div s)
  <1>1. /\ pc[p] = "target" /\ pc'[p] = "playing" /\ ran' = ran /\ file' = file /\ wavhdr' = wavhdr
        /\ dataSize'[p] = dataSize[p] - n /\ since' = since /\ jiffies' = jiffies /\ jiffies \in Nat
        /\ target'[p] = (jiffies + Jiffies(p, n)) % Word
        /\ ran[p] \in Int /\ since[p] \in Nat /\ since[p] <= jiffies
        /\ LongEnough(p, d, ran[p])
    BY DEF SetTarget, begun, reading, history, IInv, TypeOK, Timed, Listing
  <1>2. /\ s \in Nat \ {0} /\ n \in Nat /\ d \in Nat /\ Word \in Nat \ {0} /\ Hz \in Nat
        /\ d % ListOf = 0 /\ 0 < n
        /\ Len(Sound[file[p]]) - (dataSize[p] - n) = d + n
    BY <1>1, WavRate, ListDone, Constants DEF Listing
  <1>3. /\ (n % s) * Hz < Word
        /\ jiffies + Hz * (n \div s) + (((n % s) * Hz) \div s) < Word
    BY <1>1 DEF TimesFit
  <1>4. Done(p)' = d + n
    BY <1>1, <1>2 DEF Done
  <1>5. Jiffies(p, n) = ((Hz * (n \div s)) % Word) + ((((n % s) * Hz) % Word) \div s)
    BY DEF Jiffies
  <1>. HIDE DEF s, n, d
  <1>6. /\ j \in Nat /\ (n % s) * Hz \in Nat /\ Hz * (n \div s) \in Nat
        /\ ((n % s) * Hz) \div s \in Nat
        /\ s * (j + 1) >= Hz * n
    BY <1>2, RestOfASecond
  <1>7. Jiffies(p, n) = j
    <2>. DEFINE a == (n % s) * Hz
                b == Hz * (n \div s)
                c == a \div s
    <2>1. a \in Nat /\ b \in Nat /\ c \in Nat /\ a < Word
      BY <1>3, <1>6
    <2>2. jiffies + b + c < Word
      BY <1>3
    <2>3. Jiffies(p, n) = (b % Word) + ((a % Word) \div s) /\ j = b + c
      BY <1>5
    <2>4. c = a \div s
      OBVIOUS
    <2>. HIDE DEF a, b, c, j
    <2>5. b < Word
      BY <1>1, <1>2, <2>1, <2>2
    <2>6. a % Word = a /\ b % Word = b
      BY <1>2, <2>1, <2>5
    <2>. QED
      BY <2>3, <2>4, <2>6
  <1>8. jiffies + j < Word
    <2>. DEFINE b == Hz * (n \div s)
                c == ((n % s) * Hz) \div s
    <2>1. jiffies + b + c < Word /\ b \in Nat /\ c \in Nat /\ j = b + c
      BY <1>3, <1>6
    <2>. HIDE DEF b, c, j
    <2>. QED
      BY <1>1, <2>1
  <1>. HIDE DEF j
  <1>9. target'[p] = jiffies + j
    <2>1. jiffies + j \in Nat
      BY <1>1, <1>6
    <2>2. (jiffies + j) % Word = jiffies + j
      BY <1>2, <1>8, <2>1
    <2>. QED
      BY <1>1, <1>7, <2>2
  <1>10. target'[p] \in Nat
    BY <1>1, <1>6, <1>9
  <1>11. LongEnough(p, Done(p), ran[p] + (target[p] - since[p]))'
    <2>. DEFINE x == ran[p] + ((jiffies + j) - since[p])
    <2>1. /\ Lists(d) \in Nat /\ Lists(d + n) \in Nat /\ Lists(d) + 1 <= Lists(d + n)
      <3>1. d + n \in Nat /\ d < d + n
        BY <1>2
      <3>. QED
        BY <1>2, <3>1, ListsAreCounted
    <2>. DEFINE v == ran[p] + Lists(d)
                w == j + 1
                z == x + Lists(d + n)
    <2>2. s * v >= Hz * d
      BY <1>1 DEF LongEnough, s
    <2>3. x \in Int /\ v \in Int /\ w \in Int /\ z \in Int /\ v + w <= z
      BY <1>1, <1>6, <2>1
    <2>4. s * w >= Hz * n
      BY <1>6
    <2>. HIDE DEF v, w
    <2>5. s * (v + w) <= s * z
      <3>. HIDE DEF z
      <3>1. v + w \in Int /\ s \in Nat
        BY <1>2, <2>3
      <3>. QED
        BY <2>3, <3>1, TimesIsMonotone
    <2>6. s * (v + w) = s * v + s * w /\ s * v \in Int /\ s * w \in Int
      BY <1>2, <2>3
    <2>7. Hz * (d + n) = Hz * d + Hz * n /\ Hz * d \in Nat /\ Hz * n \in Nat
      BY <1>2
    <2>8. s * z >= Hz * (d + n)
      <3>. HIDE DEF z
      <3>1. s * z \in Int
        BY <1>2, <2>3
      <3>. QED
        BY <2>2, <2>4, <2>5, <2>6, <2>7, <3>1
    <2>. HIDE DEF x
    <2>9. SampleRateEq(p)' = s /\ x = ran'[p] + (target'[p] - since'[p])
      BY <1>1, <1>9 DEF SampleRateEq, s, x
    <2>. QED
      BY <1>4, <2>8, <2>9 DEF LongEnough, Lists, z
  <1>. QED
    BY <1>1, <1>10, <1>11 DEF Timed

(* p does not stop the card before.                                        *)
LEMMA StopTimed ==
    ASSUME IInv, NEW p \in Player, Stop(p), Timed(p), Proper(p)
    PROVE  Timed(p)'
  <1>. DEFINE s == SampleRateEq(p)
              d == Done(p)
              x == ran[p] + (target[p] - since[p])
              y == ran[p] + jiffies - since[p]
  <1>1. /\ pc[p] = "playing" /\ pc'[p] = "next" /\ ran'[p] = y
        /\ file' = file /\ wavhdr' = wavhdr /\ dataSize' = dataSize
        /\ jiffies >= target[p] /\ ran[p] \in Int /\ jiffies \in Nat /\ since[p] \in Nat
        /\ target[p] \in Nat /\ LongEnough(p, d, x)
    BY DEF Stop, begun, reading, counts, IInv, TypeOK, Timed
  <1>2. s \in Nat /\ d \in Nat /\ Lists(d) \in Nat
    BY <1>1, WavRate, ListsAreCounted DEF Between
  <1>3. SampleRateEq(p)' = s /\ Done(p)' = d
    BY <1>1 DEF SampleRateEq, Done
  <1>4. s * (x + Lists(d)) >= Hz * d
    BY <1>1 DEF LongEnough
  <1>5. x \in Int /\ y \in Int /\ x <= y
    BY <1>1
  <1>. HIDE DEF s, d, x, y
  <1>6. s * (x + Lists(d)) <= s * (y + Lists(d)) /\ s * (x + Lists(d)) \in Int
        /\ s * (y + Lists(d)) \in Int
    <2>1. x + Lists(d) \in Int /\ y + Lists(d) \in Int /\ x + Lists(d) <= y + Lists(d)
      BY <1>2, <1>5
    <2>. QED
      BY <1>2, <2>1, TimesIsMonotone
  <1>7. Hz * d \in Nat
    BY <1>2, Constants
  <1>8. s * (y + Lists(d)) >= Hz * d
    BY <1>4, <1>6, <1>7
  <1>9. LongEnough(p, Done(p), ran[p])'
    BY <1>1, <1>3, <1>8 DEF LongEnough, Lists
  <1>. QED
    BY <1>1, <1>9 DEF Timed

(* So every step of p keeps its times right.                               *)
LEMMA OwnTimed ==
    ASSUME IInv, IInv', TimesFit, NEW p \in Player, Step(p), ~DivideByZero(p), Proper(p)',
           Proper(p) => Timed(p)
    PROVE  Timed(p)'
  <1>1. CASE SkipToFmt(p) \/ SkipToData(p) \/ ReadFmt(p) \/ ReadData(p)
    <2>1. pc'[p] \in {"fmt", "data", "header"}
      BY <1>1 DEF SkipToFmt, SkipToData, ReadFmt, ReadData, IInv, TypeOK
    <2>. QED
      BY <2>1 DEF Timed, Between, Listing
  <1>2. CASE Refuse(p)
    BY <1>2 DEF Refuse, IInv, TypeOK, Timed, Between, Listing
  <1>3. file' = file \/ SkipToFmt(p) \/ SkipToData(p) \/ ReadFmt(p) \/ ReadData(p)
    BY DEF Step, Refuse, Accept, Finish, FillBuffers, FillOne, FillLast, Fill, Reset, ResetSeen,
           Start, SetTarget, Stop, begun, reading
  <1>4. CASE Accept(p)
    BY <1>4, AcceptTimed DEF Accept, begun, reading, Proper
  <1>5. CASE Finish(p) \/ FillBuffers(p) \/ Reset(p) \/ ResetSeen(p)
    <2>1. /\ pc[p] \in (Between \cup Listing) \ {"playing"}
          /\ pc'[p] \in (Between \cup Listing) \ {"playing", "target"}
          /\ UNCHANGED <<file, rewound, wavhdr, dataSize, ran>>
      BY <1>5
         DEF Finish, FillBuffers, Reset, ResetSeen, begun, reading, counts, history,
             Between, Listing, IInv, TypeOK
    <2>. QED
      BY <2>1, TimedOnward DEF Proper
  <1>6. CASE FillOne(p) \/ FillLast(p)
    <2>1. /\ pc[p] \in (Between \cup Listing) \ {"playing"}
          /\ pc'[p] \in (Between \cup Listing) \ {"playing", "target"}
          /\ UNCHANGED <<file, rewound, wavhdr, dataSize, ran>>
      BY <1>6 DEF FillOne, FillLast, Fill, begun, counts, history, Between, Listing
    <2>. QED
      BY <2>1, TimedOnward DEF Proper
  <1>7. CASE Start(p)
    BY <1>7, StartTimed DEF Start, begun, reading, Proper
  <1>8. CASE SetTarget(p)
    BY <1>8, SetTargetTimed DEF SetTarget, begun, reading, Proper
  <1>9. CASE Stop(p)
    BY <1>9, StopTimed DEF Stop, begun, reading, Proper
  <1>. QED
    BY <1>1, <1>2, <1>4, <1>5, <1>6, <1>7, <1>8, <1>9 DEF Step

(* So does every step.                                                     *)
LEMMA TimedStep ==
    ASSUME IInv, IInv', TimesFit, TInv, [Next]_vars
    PROVE  TInv'
  <1>0. TypeOK /\ jiffies \in Nat /\ jiffies' \in Nat
    BY DEF IInv, TypeOK
  <1>1. ASSUME PlayersUnchanged, jiffies <= jiffies' PROVE TInv'
    <2>1. ASSUME NEW q \in Player, Proper(q)' PROVE Timed(q)'
      <3>1. OwnSame(q) /\ Timed(q)
        BY <1>1, <2>1, PlayersStill DEF TInv, PlayersUnchanged, Proper
      <3>. QED
        BY <1>0, <1>1, <3>1, TimedStays
    <2>. QED
      BY <2>1 DEF TInv
  <1>2. CASE FindAC97 \/ NoAC97 \/ ResetDone \/ UNCHANGED vars
    BY <1>0, <1>1, <1>2
       DEF FindAC97, NoAC97, ResetDone, vars, begun, reading, counts, history, PlayersUnchanged
  <1>3. CASE Tick
    <2>1. PlayersUnchanged /\ jiffies' = (jiffies + 1) % Word
      BY <1>3 DEF Tick, begun, reading, counts, history, PlayersUnchanged
    <2>2. jiffies < Word - 1 /\ Word \in Nat \ {0}
      BY Constants DEF TimesFit
    <2>3. (jiffies + 1) % Word = jiffies + 1
      BY <1>0, <2>2
    <2>. QED
      BY <1>0, <1>1, <2>1, <2>3
  <1>4. ASSUME NEW p \in Player, DivideByZero(p) PROVE TInv'
    BY <1>4 DEF DivideByZero, TInv, Timed, Between, Listing
  <1>5. ASSUME NEW p \in Player, Call(p) \/ Step(p), ~DivideByZero(p) PROVE TInv'
    <2>1. jiffies' = jiffies /\ \A q \in Player \ {p} : OwnSame(q)
      BY <1>0, <1>5, OthersWait
    <2>2. ASSUME NEW q \in Player \ {p}, Proper(q)' PROVE Timed(q)'
      <3>1. OwnSame(q) /\ Timed(q) /\ jiffies <= jiffies'
        BY <1>0, <2>1, <2>2 DEF TInv, OwnSame, Proper
      <3>. QED
        BY <1>0, <3>1, TimedStays
    <2>3. ASSUME Proper(p)' PROVE Timed(p)'
      <3>1. CASE Step(p)
        BY <1>5, <2>3, <3>1, OwnTimed DEF TInv
      <3>2. CASE Call(p)
        <4>1. pc'[p] \in {"open", "fmt"}
          BY <1>0, <3>2 DEF Call, Open, Seek, PlayAudio, TypeOK
        <4>. QED
          BY <4>1 DEF Timed, Between, Listing
      <3>. QED
        BY <1>5, <3>1, <3>2
    <2>. QED
      BY <2>2, <2>3 DEF TInv
  <1>. QED
    BY <1>2, <1>3, <1>4, <1>5 DEF Next

(* A player that is done has played all lists.                             *)
LEMMA TimeEnough == IInv /\ TInv => PlaysTheSound
  <1>. SUFFICES ASSUME IInv, TInv, NEW p \in Player, pc[p] = "played", Proper(p),
                       p \notin disturbed
                PROVE  /\ sounded[p] = Sound[file[p]]
                       /\ SampleRateEq(p) * (ran[p] + Lists(Len(Sound[file[p]])))
                             >= Hz * Len(Sound[file[p]])
    BY DEF PlaysTheSound, Lists, ListOf
  <1>1. sounded[p] = Sound[file[p]]
    BY WholeHolds DEF Whole
  <1>2. dataSize[p] = 0 /\ Len(Sound[file[p]]) \in Nat
    BY WavFiles DEF IInv, OnTheWay, Reading
  <1>3. Done(p) = Len(Sound[file[p]])
    BY <1>2 DEF Done
  <1>4. LongEnough(p, Done(p), ran[p])
    BY DEF TInv, Timed, Between
  <1>. QED
    BY <1>1, <1>3, <1>4 DEF LongEnough

(* And the card has the time to play it, to less than a jiffy for each     *)
(* list, as long as the computation of times stays within 32 bits          *)
(* (pci.cc).                                                               *)
THEOREM TheSoundIsPlayed == Spec /\ []TimesFit => []PlaysTheSound
  <1>1. Init => TInv
    BY DEF Init, TInv, Timed, Between, Listing
  <1>2. IInv /\ IInv' /\ TimesFit /\ TInv /\ [Next]_vars => TInv'
    BY TimedStep
  <1>. QED
    BY <1>1, <1>2, Invariant, TimeEnough, PTL DEF Spec
=============================================================================
