------------------------- MODULE AddressSpaceProofs -------------------------
(***************************************************************************)
(* The frames and the memories of module AddressSpace, for any number of   *)
(* processes, pages and frames.  The account of the frames is kept over    *)
(* slots, so that an action is one of four changes of it: a frame is       *)
(* allocated into a slot, freed from one, handed from one to another, or   *)
(* none is touched.                                                        *)
(***************************************************************************)
EXTENDS AddressSpace, FiniteSetTheorems, SequenceTheorems, TLAPS

(* The loops of fork, delete_private and delete_pd go through their tables *)
(* in order, so the actions choose with Min: a nonempty set of numbers has *)
(* one.                                                                    *)
LEMMA MinIsThere ==
    ASSUME NEW S \in SUBSET Nat, S # {}
    PROVE  Min(S) \in S
  <1>. DEFINE Below(x) == {y \in S : y < x}
              T == {Below(x) : x \in S}
  <1>0. \A x \in S : x \in Nat
    OBVIOUS
  <1>1. \A x \in S : Below(x) \in FiniteSubsetsOf(S)
    <2>. SUFFICES ASSUME NEW x \in S PROVE IsFiniteSet(Below(x))
      BY DEF FiniteSubsetsOf
    <2>1. Below(x) \in SUBSET Nat /\ \A s \in Below(x) : s <= x
      <3>1. \A s \in Below(x) : s \in Nat /\ s < x
        BY <1>0
      <3>. HIDE DEF Below
      <3>. QED
        BY <3>1, <1>0
    <2>. HIDE DEF Below
    <2>. QED
      BY <2>1, FS_BoundedSetOfNaturals
  <1>2. T \subseteq FiniteSubsetsOf(S) /\ T # {}
    BY <1>1
  <1>3. \E X \in T : \A Y \in T : <<Y, X>> \notin StrictSubsetOrdering(S)
    <2>. HIDE DEF T
    <2>. QED
      BY <1>2, FS_StrictSubsetOrderingWellFounded, WFMin
  <1>4. PICK x \in S : \A Y \in T : <<Y, Below(x)>> \notin StrictSubsetOrdering(S)
    BY <1>3
  <1>5. ASSUME NEW y \in S PROVE x =< y
    <2>. SUFFICES ASSUME y < x PROVE FALSE
      BY <1>0
    <2>1. Below(y) \subseteq Below(x)
      <3>. SUFFICES ASSUME NEW z \in S, z < y PROVE z < x
        OBVIOUS
      <3>1. x \in Nat /\ y \in Nat /\ z \in Nat
        BY <1>0
      <3>. QED
        BY <3>1
    <2>2. y \in Below(x) /\ y \notin Below(y)
      BY <1>0
    <2>3. Below(y) \in T /\ Below(x) \in SUBSET S /\ Below(y) \in SUBSET S
      OBVIOUS
    <2>. HIDE DEF Below, T
    <2>. QED
      BY <1>4, <2>1, <2>2, <2>3 DEF StrictSubsetOrdering
  <1>. QED
    BY <1>5 DEF Min

-----------------------------------------------------------------------------

(* Every place outside the free list that may refer to a frame.            *)
Slot ==
    {<<"directory", p>> : p \in Process}
    \cup {<<"hand", p>> : p \in Process}
    \cup {<<"table", x>> : x \in Process \X Directory}
    \cup {<<"page", x>> : x \in Process \X Page}

(* What the allocator owes its callers, for h the frame in each slot, fr   *)
(* the free list and av the mark: a frame below the mark is in one slot or *)
(* once in the list, and one above it is nowhere.                          *)
Conserved(h, fr, av) ==
    /\ fr \in Seq(Frame) /\ av \in 0..Limit
    /\ \A i \in 1..Len(fr) : fr[i] < av
    /\ \A i, j \in 1..Len(fr) : fr[i] = fr[j] => i = j
    /\ \A s \in Slot : h[s] \in Frame =>
          h[s] < av /\ \A i \in 1..Len(fr) : fr[i] # h[s]
    /\ \A s, t \in Slot : h[s] \in Frame /\ h[s] = h[t] => s = t
    /\ \A f \in Frame : f < av => \/ \E i \in 1..Len(fr) : fr[i] = f
                                  \/ \E s \in Slot : h[s] = f

(* The frame alloc_frame takes, and what it leaves of the list and the     *)
(* mark.                                                                   *)
Taken(fr, av) == IF fr # <<>> THEN Head(fr) ELSE av
Rest(fr) == IF fr # <<>> THEN Tail(fr) ELSE fr
Mark(fr, av) == IF fr # <<>> THEN av ELSE av + 1
(* The list after dealloc_frame.                                           *)
Linked(f, fr) == <<f>> \o fr

(* alloc_frame into an empty slot keeps the account, and the frame it      *)
(* returns was in no slot.                                                 *)
LEMMA Allocated ==
    ASSUME NEW h, NEW h2, NEW fr, NEW av, NEW fr2, NEW av2, NEW s \in Slot,
           Conserved(h, fr, av), fr # <<>> \/ av < Limit, h[s] \notin Frame,
           fr2 = Rest(fr), av2 = Mark(fr, av),
           h2[s] = Taken(fr, av), \A t \in Slot : t # s => h2[t] = h[t]
    PROVE  /\ Taken(fr, av) \in Frame
           /\ \A t \in Slot : h[t] # Taken(fr, av)
           /\ Conserved(h2, fr2, av2)
  <1>0. Limit \in Nat /\ fr \in Seq(Frame) /\ av \in Nat /\ av <= Limit
    BY AddressSpaceAssumption DEF Conserved
  <1>1. CASE fr # <<>>
    <2>1. /\ fr2 = Tail(fr) /\ av2 = av /\ Taken(fr, av) = fr[1] /\ h2[s] = fr[1]
          /\ Len(fr) \in Nat /\ Len(fr) > 0 /\ fr[1] \in Frame
          /\ fr2 \in Seq(Frame) /\ Len(fr2) = Len(fr) - 1
          /\ \A i \in 1..Len(fr2) : i + 1 \in 1..Len(fr) /\ fr2[i] = fr[i + 1]
      BY <1>0, <1>1 DEF Taken, Rest, Mark
    <2>2. \A t \in Slot : h[t] # fr[1]
      BY <2>1 DEF Conserved
    <2>3. \A i \in 1..Len(fr2) : fr2[i] < av /\ fr2[i] # fr[1]
      BY <2>1 DEF Conserved
    <2>4. \A i, j \in 1..Len(fr2) : fr2[i] = fr2[j] => i = j
      <3>. SUFFICES ASSUME NEW i \in 1..Len(fr2), NEW j \in 1..Len(fr2), fr2[i] = fr2[j]
                    PROVE  i = j
        OBVIOUS
      <3>1. i + 1 = j + 1
        BY <2>1 DEF Conserved
      <3>. QED
        BY <3>1
    <2>5. \A t \in Slot : h2[t] \in Frame =>
            h2[t] < av /\ \A i \in 1..Len(fr2) : fr2[i] # h2[t]
      <3>. SUFFICES ASSUME NEW t \in Slot, h2[t] \in Frame
                    PROVE  h2[t] < av /\ \A i \in 1..Len(fr2) : fr2[i] # h2[t]
        OBVIOUS
      <3>1. CASE t = s
        BY <3>1, <2>1, <2>3 DEF Conserved
      <3>2. CASE t # s
        BY <3>2, <2>1 DEF Conserved
      <3>. QED
        BY <3>1, <3>2
    <2>6. \A t, u \in Slot : h2[t] \in Frame /\ h2[t] = h2[u] => t = u
      <3>. SUFFICES ASSUME NEW t \in Slot, NEW u \in Slot, h2[t] \in Frame, h2[t] = h2[u],
                           t # u
                    PROVE  FALSE
        OBVIOUS
      <3>1. CASE t = s
        BY <3>1, <2>1, <2>2
      <3>2. CASE u = s
        BY <3>2, <2>1, <2>2
      <3>3. CASE t # s /\ u # s
        BY <3>3 DEF Conserved
      <3>. QED
        BY <3>1, <3>2, <3>3
    <2>7. ASSUME NEW f \in Frame, f < av
          PROVE  (\E i \in 1..Len(fr2) : fr2[i] = f) \/ \E t \in Slot : h2[t] = f
      <3>1. CASE \E t \in Slot : h[t] = f
        <4>1. PICK t \in Slot : h[t] = f
          BY <3>1
        <4>. QED
          BY <4>1
      <3>2. CASE \E i \in 1..Len(fr) : fr[i] = f
        <4>1. PICK i \in 1..Len(fr) : fr[i] = f
          BY <3>2
        <4>2. CASE i = 1
          BY <4>1, <4>2, <2>1
        <4>3. CASE i # 1
          <5>1. i - 1 \in 1..Len(fr2) /\ fr2[i - 1] = fr[i]
            BY <4>3, <2>1
          <5>. QED
            BY <4>1, <5>1
        <4>. QED
          BY <4>2, <4>3
      <3>. QED
        BY <2>7, <3>1, <3>2 DEF Conserved
    <2>. QED
      BY <1>0, <2>1, <2>2, <2>3, <2>4, <2>5, <2>6, <2>7 DEF Conserved
  <1>2. CASE fr = <<>>
    <2>1. /\ fr2 = <<>> /\ av2 = av + 1 /\ Taken(fr, av) = av /\ h2[s] = av /\ Len(fr) = 0
          /\ av \in Frame /\ av2 \in 0..Limit /\ 1..Len(fr) = {} /\ 1..Len(fr2) = {}
      BY <1>0, <1>2 DEF Taken, Rest, Mark, Frame
    <2>2. \A t \in Slot : h[t] # av
      BY <2>1, <1>0 DEF Conserved
    <2>3. \A t \in Slot : h2[t] \in Frame => h2[t] < av2
      <3>. SUFFICES ASSUME NEW t \in Slot, h2[t] \in Frame
                    PROVE  h2[t] < av + 1
        BY <2>1
      <3>1. CASE t = s
        BY <3>1, <2>1, <1>0
      <3>2. CASE t # s
        <4>1. h2[t] = h[t] /\ h[t] \in Frame /\ h[t] < av
          BY <3>2 DEF Conserved
        <4>. QED
          BY <4>1, <1>0 DEF Frame
      <3>. QED
        BY <3>1, <3>2
    <2>6. \A t, u \in Slot : h2[t] \in Frame /\ h2[t] = h2[u] => t = u
      <3>. SUFFICES ASSUME NEW t \in Slot, NEW u \in Slot, h2[t] \in Frame, h2[t] = h2[u],
                           t # u
                    PROVE  FALSE
        OBVIOUS
      <3>1. CASE t = s
        BY <3>1, <2>1, <2>2
      <3>2. CASE u = s
        BY <3>2, <2>1, <2>2
      <3>3. CASE t # s /\ u # s
        BY <3>3 DEF Conserved
      <3>. QED
        BY <3>1, <3>2, <3>3
    <2>7. ASSUME NEW f \in Frame, f < av + 1
          PROVE  \E t \in Slot : h2[t] = f
      <3>1. CASE f = av
        BY <3>1, <2>1
      <3>2. CASE f # av
        <4>1. f < av
          BY <3>2, <2>7, <1>0 DEF Frame
        <4>2. PICK t \in Slot : h[t] = f
          BY <4>1, <2>1 DEF Conserved
        <4>. QED
          BY <4>2
      <3>. QED
        BY <3>1, <3>2
    <2>. QED
      BY <1>0, <2>1, <2>2, <2>3, <2>6, <2>7 DEF Conserved
  <1>. QED
    BY <1>1, <1>2

(* dealloc_frame of what a slot holds keeps the account when the slot      *)
(* forgets it.                                                             *)
LEMMA Freed ==
    ASSUME NEW h, NEW h2, NEW fr, NEW av, NEW fr2, NEW s \in Slot,
           Conserved(h, fr, av), h[s] \in Frame, h2[s] \notin Frame,
           fr2 = Linked(h[s], fr), \A t \in Slot : t # s => h2[t] = h[t]
    PROVE  Conserved(h2, fr2, av)
  <1>. DEFINE g == h[s]
  <1>1. /\ fr \in Seq(Frame) /\ Len(fr) \in Nat /\ g \in Frame /\ g < av
        /\ \A i \in 1..Len(fr) : fr[i] # g
    BY DEF Conserved
  <1>2. /\ fr2 \in Seq(Frame) /\ Len(fr2) = Len(fr) + 1 /\ fr2[1] = g
        /\ \A i \in 1..Len(fr) : i + 1 \in 1..Len(fr2) /\ fr2[i + 1] = fr[i]
        /\ \A i \in 1..Len(fr2) : i # 1 => i - 1 \in 1..Len(fr) /\ fr2[i] = fr[i - 1]
    BY <1>1 DEF Linked
  <1>3. \A t \in Slot : t # s => h[t] # g
    BY <1>1 DEF Conserved
  <1>. HIDE DEF g
  <1>4. \A i \in 1..Len(fr2) : fr2[i] < av
    BY <1>1, <1>2 DEF Conserved
  <1>5. \A i, j \in 1..Len(fr2) : fr2[i] = fr2[j] => i = j
    <2>. SUFFICES ASSUME NEW i \in 1..Len(fr2), NEW j \in 1..Len(fr2), fr2[i] = fr2[j], i # j
                  PROVE  FALSE
      OBVIOUS
    <2>1. CASE i = 1
      BY <2>1, <1>1, <1>2
    <2>2. CASE j = 1
      BY <2>2, <1>1, <1>2
    <2>3. CASE i # 1 /\ j # 1
      <3>0. i - 1 \in 1..Len(fr) /\ j - 1 \in 1..Len(fr) /\ fr[i - 1] = fr[j - 1]
        BY <2>3, <1>2
      <3>1. i - 1 = j - 1
        BY <3>0 DEF Conserved
      <3>. QED
        BY <3>1, <1>2, <1>1
    <2>. QED
      BY <2>1, <2>2, <2>3
  <1>6. ASSUME NEW t \in Slot, h2[t] \in Frame
        PROVE  h2[t] < av /\ \A i \in 1..Len(fr2) : fr2[i] # h2[t]
    <2>1. t # s /\ h2[t] = h[t] /\ h[t] # g
      BY <1>6, <1>3
    <2>2. h[t] < av /\ \A i \in 1..Len(fr) : fr[i] # h[t]
      BY <1>6, <2>1 DEF Conserved
    <2>. QED
      BY <2>1, <2>2, <1>2
  <1>7. \A t, u \in Slot : h2[t] \in Frame /\ h2[t] = h2[u] => t = u
    <2>. SUFFICES ASSUME NEW t \in Slot, NEW u \in Slot, h2[t] \in Frame, h2[t] = h2[u]
                  PROVE  t = u
      OBVIOUS
    <2>1. t # s /\ u # s
      OBVIOUS
    <2>. QED
      BY <2>1 DEF Conserved
  <1>8. ASSUME NEW f \in Frame, f < av
        PROVE  (\E i \in 1..Len(fr2) : fr2[i] = f) \/ \E t \in Slot : h2[t] = f
    <2>1. CASE \E i \in 1..Len(fr) : fr[i] = f
      BY <2>1, <1>2
    <2>2. CASE \E t \in Slot : h[t] = f
      <3>1. PICK t \in Slot : h[t] = f
        BY <2>2
      <3>2. CASE t = s
        <4>1. fr2[1] = f /\ 1 \in 1..Len(fr2)
          BY <3>1, <3>2, <1>1, <1>2 DEF g
        <4>. QED
          BY <4>1
      <3>3. CASE t # s
        BY <3>1, <3>3
      <3>. QED
        BY <3>2, <3>3
    <2>. QED
      BY <1>8, <2>1, <2>2 DEF Conserved
  <1>. QED
    BY <1>2, <1>4, <1>5, <1>6, <1>7, <1>8 DEF Conserved

(* So does handing a frame from one slot to an empty one.                  *)
LEMMA Moved ==
    ASSUME NEW h, NEW h2, NEW fr, NEW av, NEW s \in Slot, NEW t \in Slot,
           Conserved(h, fr, av), s # t, h[t] \notin Frame,
           h2[t] = h[s], h2[s] \notin Frame,
           \A u \in Slot : u # s /\ u # t => h2[u] = h[u]
    PROVE  Conserved(h2, fr, av)
  <1>1. \A u \in Slot : h2[u] \in Frame =>
          h2[u] < av /\ \A i \in 1..Len(fr) : fr[i] # h2[u]
    <2>. SUFFICES ASSUME NEW u \in Slot, h2[u] \in Frame
                  PROVE  h2[u] < av /\ \A i \in 1..Len(fr) : fr[i] # h2[u]
      OBVIOUS
    <2>1. CASE u = t
      BY <2>1 DEF Conserved
    <2>2. CASE u # t /\ u # s
      BY <2>2 DEF Conserved
    <2>. QED
      BY <2>1, <2>2
  <1>2. \A u, v \in Slot : h2[u] \in Frame /\ h2[u] = h2[v] => u = v
    <2>. SUFFICES ASSUME NEW u \in Slot, NEW v \in Slot, h2[u] \in Frame, h2[u] = h2[v], u # v
                  PROVE  FALSE
      OBVIOUS
    <2>1. u # s /\ v # s
      OBVIOUS
    <2>2. CASE u = t
      <3>1. h[v] = h[s] /\ h[s] \in Frame
        BY <2>1, <2>2
      <3>. QED
        BY <3>1, <2>1 DEF Conserved
    <2>3. CASE v = t
      <3>1. h[u] = h[s] /\ h[s] \in Frame
        BY <2>1, <2>3
      <3>. QED
        BY <3>1, <2>1 DEF Conserved
    <2>4. CASE u # t /\ v # t
      BY <2>1, <2>4 DEF Conserved
    <2>. QED
      BY <2>2, <2>3, <2>4
  <1>3. ASSUME NEW f \in Frame, \E u \in Slot : h[u] = f
        PROVE  \E u \in Slot : h2[u] = f
    <2>1. PICK u \in Slot : h[u] = f
      BY <1>3
    <2>2. u # t
      BY <2>1
    <2>. QED
      BY <2>1, <2>2
  <1>. QED
    BY <1>1, <1>2, <1>3 DEF Conserved

(* So does any change of slots that hold no frame.                         *)
LEMMA Untouched ==
    ASSUME NEW h, NEW h2, NEW fr, NEW av, Conserved(h, fr, av),
           \A s \in Slot : h2[s] = h[s] \/ (h[s] \notin Frame /\ h2[s] \notin Frame)
    PROVE  Conserved(h2, fr, av)
  <1>1. \A s \in Slot : h2[s] \in Frame => h2[s] = h[s]
    OBVIOUS
  <1>2. \A f \in Frame : (\E s \in Slot : h[s] = f) => \E s \in Slot : h2[s] = f
    OBVIOUS
  <1>. QED
    BY <1>1, <1>2 DEF Conserved

-----------------------------------------------------------------------------

(* Where a process is while it has a program.                              *)
Running == {"user", "map", "fork", "clear"}
Label == Running \cup {"absent", "made", "exited", "delete"}

(* The types.                                                              *)
TypeOK ==
    /\ free \in Seq(Frame)
    /\ avail \in 0..Limit
    /\ content \in [Frame -> Value \cup {Junk}]
    /\ pd \in [Process -> Frame \cup {None}]
    /\ table \in [Process -> [Directory -> Frame \cup {None}]]
    /\ page \in [Process -> [Page -> Frame \cup {None, Device}]]
    /\ pc \in [Process -> Label]
    /\ child \in [Process -> Process \cup {None}]
    /\ va_ \in [Process -> Page \cup {None}]
    /\ pa \in [Process -> Frame \cup {None}]
    /\ halted \in BOOLEAN

(* The frame in each slot.                                                 *)
held ==
    [s \in Slot |-> IF s[1] = "directory" THEN pd[s[2]]
                    ELSE IF s[1] = "hand" THEN pa[s[2]]
                    ELSE IF s[1] = "table" THEN table[s[2][1]][s[2][2]]
                    ELSE page[s[2][1]][s[2][2]]]

(* The account is right.                                                   *)
Owned == Conserved(held, free, avail)

(* A process that does not exist refers to nothing, one that does has a    *)
(* directory, and only a page fault has a frame in its hands.              *)
Holding(p) ==
    /\ pc[p] = "absent" => /\ \A i \in Directory : table[p][i] = None
                            /\ \A va \in Page : page[p][va] = None
    /\ pd[p] = None <=> pc[p] = "absent"
    /\ pa[p] = None <=> pc[p] # "map"

(* The pages of the APICs have no frame, the others are no device, a page  *)
(* needs a table, and a process with a program has the APICs mapped.       *)
Mapped(p) ==
    /\ \A va \in Special : page[p][va] \notin Frame
    /\ \A va \in Page \ Special : page[p][va] # Device
    /\ \A va \in Page : page[p][va] # None => table[p][Pdi(va)] # None
    /\ pc[p] \in Running => \A va \in Special : page[p][va] = Device

(* A page fault is about a page that is not mapped, and the frame it is    *)
(* about to map is clear.                                                  *)
Faulting(p) ==
    pc[p] = "map" => /\ va_[p] \in Page /\ page[p][va_[p]] = None
                     /\ content[pa[p]] = Zero

(* The child of fork is still being made, and each page it has is a copy   *)
(* of its parent's.                                                        *)
Forking(p) ==
    pc[p] = "fork" =>
       /\ child[p] \in Process
       /\ pc[child[p]] = "made"
       /\ \A va \in Page : page[child[p]][va] \in Frame =>
             /\ page[p][va] \in Frame
             /\ content[page[child[p]][va]] = content[page[p][va]]

(* No two calls of fork are making the same child.                         *)
OneParent ==
    \A p, q \in Process :
       pc[p] = "fork" /\ pc[q] = "fork" /\ child[p] = child[q] => p = q

(* The inductive invariant.  FramesConserved alone is not inductive: which *)
(* slots an action empties or fills, and that it never overwrites a frame, *)
(* depends on where the processes are.                                     *)
IInv ==
    /\ TypeOK
    /\ Owned
    /\ \A p \in Process : Holding(p) /\ Mapped(p) /\ Faulting(p) /\ Forking(p)
    /\ OneParent

-----------------------------------------------------------------------------

(* What the assumption says of the constants.                              *)
LEMMA Constants ==
    /\ Limit \in Nat /\ Pages \in Nat /\ PerTable \in Nat /\ PerTable # 0
    /\ Special \subseteq Page /\ Page \subseteq Nat /\ Directory \subseteq Nat
    /\ \A va \in Page : Pdi(va) \in Directory
    /\ None \notin Frame /\ Device \notin Frame /\ None # Device
    /\ Junk \notin Value /\ Zero \in Value /\ None \notin Process
  <1>1. \A va \in Page : Pdi(va) \in Nat
    BY AddressSpaceAssumption DEF Page, Pdi
  <1>2. Frame \subseteq 0..Limit
    BY AddressSpaceAssumption DEF Frame
  <1>. QED
    BY <1>1, <1>2, AddressSpaceAssumption DEF Page, Directory

(* The four kinds of slots.                                                *)
LEMMA SlotKinds ==
    /\ \A p \in Process : <<"directory", p>> \in Slot
    /\ \A p \in Process : <<"hand", p>> \in Slot
    /\ \A p \in Process, i \in Directory : <<"table", <<p, i>>>> \in Slot
    /\ \A p \in Process, va \in Page : <<"page", <<p, va>>>> \in Slot
    /\ \A s \in Slot : \/ \E p \in Process : s = <<"directory", p>> \/ s = <<"hand", p>>
                       \/ \E p \in Process, i \in Directory : s = <<"table", <<p, i>>>>
                       \/ \E p \in Process, va \in Page : s = <<"page", <<p, va>>>>
  <1>1. ASSUME NEW s \in Slot
        PROVE  \/ \E p \in Process : s = <<"directory", p>> \/ s = <<"hand", p>>
               \/ \E p \in Process, i \in Directory : s = <<"table", <<p, i>>>>
               \/ \E p \in Process, va \in Page : s = <<"page", <<p, va>>>>
    <2>1. CASE \E x \in Process \X Directory : s = <<"table", x>>
      <3>1. PICK x \in Process \X Directory : s = <<"table", x>>
        BY <2>1
      <3>2. x = <<x[1], x[2]>> /\ x[1] \in Process /\ x[2] \in Directory
        OBVIOUS
      <3>. QED
        BY <3>1, <3>2
    <2>2. CASE \E x \in Process \X Page : s = <<"page", x>>
      <3>1. PICK x \in Process \X Page : s = <<"page", x>>
        BY <2>2
      <3>2. x = <<x[1], x[2]>> /\ x[1] \in Process /\ x[2] \in Page
        OBVIOUS
      <3>. QED
        BY <3>1, <3>2
    <2>. QED
      BY <2>1, <2>2 DEF Slot
  <1>2. \A p \in Process, i \in Directory : <<"table", <<p, i>>>> \in Slot
    BY DEF Slot
  <1>3. \A p \in Process, i \in Page : <<"page", <<p, i>>>> \in Slot
    BY DEF Slot
  <1>4. \A p \in Process : <<"directory", p>> \in Slot /\ <<"hand", p>> \in Slot
    BY DEF Slot
  <1>. QED
    BY <1>1, <1>2, <1>3, <1>4

(* What each kind of slot holds, before a step ...                         *)
LEMMA Held ==
    /\ \A p \in Process : held[<<"directory", p>>] = pd[p]
    /\ \A p \in Process : held[<<"hand", p>>] = pa[p]
    /\ \A p \in Process, i \in Directory : held[<<"table", <<p, i>>>>] = table[p][i]
    /\ \A p \in Process, va \in Page : held[<<"page", <<p, va>>>>] = page[p][va]
  BY SlotKinds DEF held

(* ... and after it.                                                       *)
LEMMA HeldNext ==
    /\ \A p \in Process : held'[<<"directory", p>>] = pd'[p]
    /\ \A p \in Process : held'[<<"hand", p>>] = pa'[p]
    /\ \A p \in Process, i \in Directory : held'[<<"table", <<p, i>>>>] = table'[p][i]
    /\ \A p \in Process, va \in Page : held'[<<"page", <<p, va>>>>] = page'[p][va]
  BY SlotKinds DEF held

(* An action that assigns one variable at one place changes one slot.      *)
LEMMA PdSet ==
    ASSUME TypeOK, NEW c \in Process, NEW f,
           pd' = [pd EXCEPT ![c] = f], UNCHANGED <<table, page, pa>>
    PROVE  /\ held'[<<"directory", c>>] = f
           /\ \A t \in Slot : t # <<"directory", c>> => held'[t] = held[t]
  <1>1. held'[<<"directory", c>>] = f
    BY HeldNext DEF TypeOK
  <1>2. ASSUME NEW t \in Slot, t # <<"directory", c>>
        PROVE  held'[t] = held[t]
    <2>1. ASSUME NEW p \in Process, t = <<"directory", p>> \/ t = <<"hand", p>>
          PROVE  held'[t] = held[t]
      <3>1. CASE t = <<"directory", p>>
        BY <1>2, <3>1, Held, HeldNext DEF TypeOK
      <3>2. CASE t = <<"hand", p>>
        BY <1>2, <3>2, Held, HeldNext DEF TypeOK
      <3>. QED
        BY <2>1, <3>1, <3>2
    <2>2. ASSUME NEW p \in Process, NEW i \in Directory, t = <<"table", <<p, i>>>>
          PROVE  held'[t] = held[t]
      BY <1>2, <2>2, Held, HeldNext DEF TypeOK
    <2>3. ASSUME NEW p \in Process, NEW va \in Page, t = <<"page", <<p, va>>>>
          PROVE  held'[t] = held[t]
      BY <1>2, <2>3, Held, HeldNext DEF TypeOK
    <2>. QED
      BY <2>1, <2>2, <2>3, SlotKinds
  <1>. QED
    BY <1>1, <1>2

(* The same for pa.                                                        *)
LEMMA PaSet ==
    ASSUME TypeOK, NEW c \in Process, NEW f,
           pa' = [pa EXCEPT ![c] = f], UNCHANGED <<pd, table, page>>
    PROVE  /\ held'[<<"hand", c>>] = f
           /\ \A t \in Slot : t # <<"hand", c>> => held'[t] = held[t]
  <1>1. held'[<<"hand", c>>] = f
    BY HeldNext DEF TypeOK
  <1>2. ASSUME NEW t \in Slot, t # <<"hand", c>>
        PROVE  held'[t] = held[t]
    <2>1. ASSUME NEW p \in Process, t = <<"directory", p>> \/ t = <<"hand", p>>
          PROVE  held'[t] = held[t]
      <3>1. CASE t = <<"directory", p>>
        BY <1>2, <3>1, Held, HeldNext DEF TypeOK
      <3>2. CASE t = <<"hand", p>>
        BY <1>2, <3>2, Held, HeldNext DEF TypeOK
      <3>. QED
        BY <2>1, <3>1, <3>2
    <2>2. ASSUME NEW p \in Process, NEW i \in Directory, t = <<"table", <<p, i>>>>
          PROVE  held'[t] = held[t]
      BY <1>2, <2>2, Held, HeldNext DEF TypeOK
    <2>3. ASSUME NEW p \in Process, NEW va \in Page, t = <<"page", <<p, va>>>>
          PROVE  held'[t] = held[t]
      BY <1>2, <2>3, Held, HeldNext DEF TypeOK
    <2>. QED
      BY <2>1, <2>2, <2>3, SlotKinds
  <1>. QED
    BY <1>1, <1>2

(* The same for table.                                                     *)
LEMMA TableSet ==
    ASSUME TypeOK, NEW c \in Process, NEW j \in Directory, NEW f,
           table' = [table EXCEPT ![c][j] = f], UNCHANGED <<pd, page, pa>>
    PROVE  /\ held'[<<"table", <<c, j>>>>] = f
           /\ \A t \in Slot : t # <<"table", <<c, j>>>> => held'[t] = held[t]
  <1>1. held'[<<"table", <<c, j>>>>] = f
    BY HeldNext DEF TypeOK
  <1>2. ASSUME NEW t \in Slot, t # <<"table", <<c, j>>>>
        PROVE  held'[t] = held[t]
    <2>1. ASSUME NEW p \in Process, t = <<"directory", p>> \/ t = <<"hand", p>>
          PROVE  held'[t] = held[t]
      <3>1. CASE t = <<"directory", p>>
        BY <1>2, <3>1, Held, HeldNext DEF TypeOK
      <3>2. CASE t = <<"hand", p>>
        BY <1>2, <3>2, Held, HeldNext DEF TypeOK
      <3>. QED
        BY <2>1, <3>1, <3>2
    <2>2. ASSUME NEW p \in Process, NEW i \in Directory, t = <<"table", <<p, i>>>>
          PROVE  held'[t] = held[t]
      BY <1>2, <2>2, Held, HeldNext DEF TypeOK
    <2>3. ASSUME NEW p \in Process, NEW va \in Page, t = <<"page", <<p, va>>>>
          PROVE  held'[t] = held[t]
      BY <1>2, <2>3, Held, HeldNext DEF TypeOK
    <2>. QED
      BY <2>1, <2>2, <2>3, SlotKinds
  <1>. QED
    BY <1>1, <1>2

(* The same for page.                                                      *)
LEMMA PageSet ==
    ASSUME TypeOK, NEW c \in Process, NEW w \in Page, NEW f,
           page' = [page EXCEPT ![c][w] = f], UNCHANGED <<pd, table, pa>>
    PROVE  /\ held'[<<"page", <<c, w>>>>] = f
           /\ \A t \in Slot : t # <<"page", <<c, w>>>> => held'[t] = held[t]
  <1>1. held'[<<"page", <<c, w>>>>] = f
    BY HeldNext DEF TypeOK
  <1>2. ASSUME NEW t \in Slot, t # <<"page", <<c, w>>>>
        PROVE  held'[t] = held[t]
    <2>1. ASSUME NEW p \in Process, t = <<"directory", p>> \/ t = <<"hand", p>>
          PROVE  held'[t] = held[t]
      <3>1. CASE t = <<"directory", p>>
        BY <1>2, <3>1, Held, HeldNext DEF TypeOK
      <3>2. CASE t = <<"hand", p>>
        BY <1>2, <3>2, Held, HeldNext DEF TypeOK
      <3>. QED
        BY <2>1, <3>1, <3>2
    <2>2. ASSUME NEW p \in Process, NEW i \in Directory, t = <<"table", <<p, i>>>>
          PROVE  held'[t] = held[t]
      BY <1>2, <2>2, Held, HeldNext DEF TypeOK
    <2>3. ASSUME NEW p \in Process, NEW va \in Page, t = <<"page", <<p, va>>>>
          PROVE  held'[t] = held[t]
      BY <1>2, <2>3, Held, HeldNext DEF TypeOK
    <2>. QED
      BY <2>1, <2>2, <2>3, SlotKinds
  <1>. QED
    BY <1>1, <1>2

-----------------------------------------------------------------------------

(* A step that allocates into an empty slot: the account is kept, and no   *)
(* frame that anybody refers to changes.                                   *)
LEMMA AllocStep ==
    ASSUME TypeOK, Owned, NEW v \in Value \cup {Junk}, AllocFrame(v),
           NEW s \in Slot, held[s] \notin Frame, held'[s] = NewFrame,
           \A t \in Slot : t # s => held'[t] = held[t]
    PROVE  /\ free' \in Seq(Frame) /\ avail' \in 0..Limit
           /\ content' \in [Frame -> Value \cup {Junk}]
           /\ Owned'
           /\ NewFrame \in Frame
           /\ content'[NewFrame] = v
           /\ \A f \in Frame : f # NewFrame => content'[f] = content[f]
           /\ \A t \in Slot : held[t] # NewFrame
           /\ \A q \in Process : pa[q] # NewFrame
           /\ \A q \in Process : \A va \in Page : page[q][va] # NewFrame
  <1>1. NewFrame = Taken(free, avail)
    BY DEF NewFrame, Taken
  <1>2. /\ Taken(free, avail) \in Frame
        /\ \A t \in Slot : held[t] # Taken(free, avail)
        /\ Conserved(held', free', avail')
    <2>1. free # <<>> \/ avail < Limit
      BY DEF AllocFrame, CanAlloc
    <2>2. free' = Rest(free) /\ avail' = Mark(free, avail)
      BY DEF AllocFrame, Rest, Mark
    <2>4. Conserved(held, free, avail)
      BY DEF Owned
    <2>. QED
      BY <1>1, <2>1, <2>2, <2>4, Allocated
  <1>3. free' \in Seq(Frame) /\ avail' \in 0..Limit
    BY <1>2 DEF Conserved
  <1>4. /\ content' \in [Frame -> Value \cup {Junk}] /\ content'[NewFrame] = v
        /\ \A f \in Frame : f # NewFrame => content'[f] = content[f]
    BY <1>1, <1>2 DEF AllocFrame, TypeOK
  <1>5. \A q \in Process : pa[q] # NewFrame
    <2>. TAKE q \in Process
    <2>1. <<"hand", q>> \in Slot /\ held[<<"hand", q>>] = pa[q]
      BY SlotKinds, Held
    <2>. QED
      BY <1>1, <1>2, <2>1
  <1>6. \A q \in Process : \A va \in Page : page[q][va] # NewFrame
    <2>. TAKE q \in Process
    <2>. TAKE va \in Page
    <2>1. <<"page", <<q, va>>>> \in Slot /\ held[<<"page", <<q, va>>>>] = page[q][va]
      BY SlotKinds, Held
    <2>. QED
      BY <1>1, <1>2, <2>1
  <1>. QED
    BY <1>1, <1>2, <1>3, <1>4, <1>5, <1>6 DEF Owned

(* A step that frees what a slot held: the account is kept, and no frame   *)
(* that anybody still refers to changes.                                   *)
LEMMA FreeStep ==
    ASSUME TypeOK, Owned, NEW s \in Slot, held[s] \in Frame, DeallocFrame(held[s]),
           held'[s] \notin Frame,
           \A t \in Slot : t # s => held'[t] = held[t] \/ (held[t] \notin Frame /\ held'[t] \notin Frame)
    PROVE  /\ free' \in Seq(Frame) /\ avail' \in 0..Limit
           /\ content' \in [Frame -> Value \cup {Junk}]
           /\ Owned'
           /\ \A f \in Frame : f # held[s] => content'[f] = content[f]
           /\ \A t \in Slot : t # s => held[t] # held[s]
  <1>. DEFINE h1 == [t \in Slot |-> IF t = s THEN None ELSE held[t]]
  <1>0. /\ h1[s] \notin Frame /\ \A t \in Slot : t # s => h1[t] = held[t]
        /\ \A t \in Slot : held'[t] = h1[t] \/ (h1[t] \notin Frame /\ held'[t] \notin Frame)
    BY Constants
  <1>. HIDE DEF h1
  <1>1. Conserved(h1, free', avail)
    <2>1. free' = Linked(held[s], free)
      BY DEF DeallocFrame, Linked
    <2>. QED
      BY <1>0, <2>1, Freed DEF Owned
  <1>2. Conserved(held', free', avail)
    BY <1>0, <1>1, Untouched
  <1>3. avail' = avail
    BY DEF DeallocFrame
  <1>4. /\ content' \in [Frame -> Value \cup {Junk}]
        /\ \A f \in Frame : f # held[s] => content'[f] = content[f]
    BY DEF DeallocFrame, TypeOK
  <1>5. \A t \in Slot : t # s => held[t] # held[s]
    BY DEF Owned, Conserved
  <1>6. free' \in Seq(Frame) /\ avail \in 0..Limit
    BY <1>2 DEF Conserved
  <1>. QED
    BY <1>2, <1>3, <1>4, <1>5, <1>6 DEF Owned

-----------------------------------------------------------------------------

(* The child of a fork belongs to that fork alone.                         *)
LEMMA OtherChild ==
    ASSUME IInv, NEW p \in Process, pc[p] = "fork"
    PROVE  /\ child[p] \in Process /\ child[p] # p /\ pc[child[p]] = "made"
           /\ \A q \in Process : q # p /\ pc[q] = "fork" =>
                 child[q] \in Process /\ child[q] # child[p] /\ child[q] # p /\ pc[child[q]] = "made"
  BY DEF IInv, Forking, OneParent

(* A mapped frame is in nobody's hands ...                                 *)
LEMMA InHand ==
    ASSUME Owned, NEW p \in Process, NEW va \in Page, page[p][va] \in Frame
    PROVE  \A q \in Process : pa[q] # page[p][va]
  <1>. TAKE q \in Process
  <1>1. /\ <<"hand", q>> \in Slot /\ held[<<"hand", q>>] = pa[q]
        /\ <<"page", <<p, va>>>> \in Slot /\ held[<<"page", <<p, va>>>>] = page[p][va]
        /\ <<"hand", q>> # <<"page", <<p, va>>>>
    BY SlotKinds, Held
  <1>. QED
    BY <1>1 DEF Owned, Conserved

(* ... and in no other page, of any process.                               *)
LEMMA InOnePage ==
    ASSUME Owned, NEW p \in Process, NEW va \in Page, page[p][va] \in Frame
    PROVE  \A q \in Process : \A w \in Page : page[q][w] = page[p][va] => q = p /\ w = va
  <1>. TAKE q \in Process
  <1>. TAKE w \in Page
  <1>1. /\ <<"page", <<q, w>>>> \in Slot /\ held[<<"page", <<q, w>>>>] = page[q][w]
        /\ <<"page", <<p, va>>>> \in Slot /\ held[<<"page", <<p, va>>>>] = page[p][va]
    BY SlotKinds, Held
  <1>2. page[q][w] = page[p][va] => <<"page", <<q, w>>>> = <<"page", <<p, va>>>>
    BY <1>1 DEF Owned, Conserved
  <1>. QED
    BY <1>2

(* A process goes on to another place and leaves the tables alone.         *)
GoesTo(p, label) ==
    /\ pc[p] \in {"user", "exited", "clear"}
    /\ label \in {"user", "clear", "exited", "delete"}
    /\ pc[p] = "exited" => label \notin Running
    /\ Goto(p, label)
    /\ UNCHANGED <<frames, tables, child, va_, pa, halted>>

(* Each action keeps the invariant.  First those that leave the tables     *)
(* alone.                                                                  *)
LEMMA GoesToKeeps ==
    ASSUME IInv, NEW p \in Process, NEW label, GoesTo(p, label)
    PROVE  IInv'
  <1>1. /\ pd' = pd /\ table' = table /\ page' = page /\ pa' = pa /\ va_' = va_
        /\ free' = free /\ avail' = avail /\ content' = content /\ halted' = halted
        /\ child' = child /\ pc' = [pc EXCEPT ![p] = label]
        /\ pc[p] \in {"user", "exited", "clear"}
        /\ label \in {"user", "clear", "exited", "delete"}
        /\ pc[p] = "exited" => label \notin Running
    BY DEF GoesTo, Goto, frames, tables
  <1>2. Owned'
    BY <1>1 DEF IInv, Owned, held
  <1>3. TypeOK'
    BY <1>1, Constants DEF IInv, TypeOK, Label, Running
  <1>4. ASSUME NEW q \in Process PROVE Holding(q)'
    <2>1. CASE q = p
      BY <2>1, <1>1, Constants DEF IInv, TypeOK, Holding, Running
    <2>2. CASE q # p
      BY <2>2, <1>1, Constants DEF IInv, TypeOK, Holding, Running
    <2>. QED
      BY <2>1, <2>2
  <1>5. ASSUME NEW q \in Process PROVE Mapped(q)'
    <2>1. CASE q = p
      BY <2>1, <1>1, Constants DEF IInv, TypeOK, Mapped, Holding, Running
    <2>2. CASE q # p
      BY <2>2, <1>1, Constants DEF IInv, TypeOK, Mapped, Holding, Running
    <2>. QED
      BY <2>1, <2>2
  <1>6. ASSUME NEW q \in Process PROVE Faulting(q)'
    <2>1. CASE q = p
      BY <2>1, <1>1, Constants DEF IInv, TypeOK, Faulting, Holding, Running
    <2>2. CASE q # p
      BY <2>2, <1>1, Constants DEF IInv, TypeOK, Faulting, Holding, Running
    <2>. QED
      BY <2>1, <2>2
  <1>7. ASSUME NEW q \in Process PROVE Forking(q)'
    <2>1. CASE q = p
      BY <2>1, <1>1, Constants, OtherChild DEF IInv, TypeOK, Forking, Holding, Running
    <2>2. CASE q # p
      BY <2>2, <1>1, Constants, OtherChild DEF IInv, TypeOK, Forking, Holding, Running
    <2>. QED
      BY <2>1, <2>2
  <1>8. OneParent'
    BY <1>1, Constants DEF IInv, TypeOK, OneParent
  <1>. QED
    BY <1>2, <1>3, <1>4, <1>5, <1>6, <1>7, <1>8 DEF IInv

(* Exit keeps the invariant.                                               *)
LEMMA ExitKeeps ==
    ASSUME IInv, NEW p \in Process, Exit(p)
    PROVE  IInv'
  BY GoesToKeeps DEF Exit, GoesTo, Running

(* Exec keeps the invariant.                                               *)
LEMMA ExecKeeps ==
    ASSUME IInv, NEW p \in Process, Exec(p)
    PROVE  IInv'
  BY GoesToKeeps DEF Exec, GoesTo, Running

(* Reap keeps the invariant.                                               *)
LEMMA ReapKeeps ==
    ASSUME IInv, NEW p \in Process, Reap(p)
    PROVE  IInv'
  BY GoesToKeeps DEF Reap, GoesTo, Running

(* Cleared keeps the invariant.                                            *)
LEMMA ClearedKeeps ==
    ASSUME IInv, NEW p \in Process, Cleared(p)
    PROVE  IInv'
  BY GoesToKeeps DEF Cleared, GoesTo, Running

(* Panic keeps the invariant.                                              *)
LEMMA PanicKeeps ==
    ASSUME IInv, NEW p \in Process, Panic(p)
    PROVE  IInv'
  <1>1. /\ pd' = pd /\ table' = table /\ page' = page /\ pa' = pa /\ va_' = va_
        /\ free' = free /\ avail' = avail /\ content' = content /\ halted' = TRUE
        /\ child' = child /\ pc' = pc
    BY DEF Panic, frames, tables
  <1>2. Owned'
    BY <1>1 DEF IInv, Owned, held
  <1>3. TypeOK'
    BY <1>1, Constants DEF IInv, TypeOK, Label, Running
  <1>4. ASSUME NEW q \in Process PROVE Holding(q)'
    BY <1>1, Constants DEF IInv, TypeOK, Holding, Running
  <1>5. ASSUME NEW q \in Process PROVE Mapped(q)'
    BY <1>1, Constants DEF IInv, TypeOK, Mapped, Holding, Running
  <1>6. ASSUME NEW q \in Process PROVE Faulting(q)'
    BY <1>1, Constants DEF IInv, TypeOK, Faulting, Holding, Running
  <1>7. ASSUME NEW q \in Process PROVE Forking(q)'
    BY <1>1, Constants DEF IInv, TypeOK, Forking, Holding, Running
  <1>8. OneParent'
    BY <1>1, Constants DEF IInv, TypeOK, OneParent
  <1>. QED
    BY <1>2, <1>3, <1>4, <1>5, <1>6, <1>7, <1>8 DEF IInv

(* Forked keeps the invariant.                                             *)
LEMMA ForkedKeeps ==
    ASSUME IInv, NEW p \in Process, Forked(p)
    PROVE  IInv'
  <1>1. /\ pd' = pd /\ table' = table /\ page' = page /\ pa' = pa /\ va_' = va_
        /\ free' = free /\ avail' = avail /\ content' = content /\ halted' = halted
        /\ child' = [child EXCEPT ![p] = None] /\ pc[p] = "fork"
        /\ UnmappedSpecial(child[p]) = {}
        /\ pc' = [pc EXCEPT ![p] = "user", ![child[p]] = "user"]
    BY DEF Forked, Copying, frames, tables
  <1>2. Owned'
    BY <1>1 DEF IInv, Owned, held
  <1>2a. child[p] \in Process /\ pc[child[p]] = "made" /\ child[p] # p
    BY <1>1 DEF IInv, Forking
  <1>2b. \A va \in Special : page[child[p]][va] = Device
    <2>. TAKE va \in Special
    <2>1. page[child[p]][va] # None /\ va \in Page
      BY <1>1, Constants DEF UnmappedSpecial
    <2>. QED
      BY <1>2a, <2>1, Constants DEF IInv, Mapped, TypeOK
  <1>3. TypeOK'
    BY <1>1, <1>2a, <1>2b, Constants DEF IInv, TypeOK, Label, Running
  <1>4. ASSUME NEW q \in Process PROVE Holding(q)'
    <2>1. CASE q = p
      BY <2>1, <1>1, <1>2a, <1>2b, Constants DEF IInv, TypeOK, Holding, Running
    <2>2. CASE q = child[p]
      BY <2>2, <1>1, <1>2a, <1>2b, Constants DEF IInv, TypeOK, Holding, Running
    <2>3. CASE q # p /\ q # child[p]
      BY <2>3, <1>1, <1>2a, <1>2b, Constants DEF IInv, TypeOK, Holding, Running
    <2>. QED
      BY <2>1, <2>2, <2>3
  <1>5. ASSUME NEW q \in Process PROVE Mapped(q)'
    <2>1. CASE q = p
      BY <2>1, <1>1, <1>2a, <1>2b, Constants DEF IInv, TypeOK, Mapped, Holding, Running
    <2>2. CASE q = child[p]
      BY <2>2, <1>1, <1>2a, <1>2b, Constants DEF IInv, TypeOK, Mapped, Holding, Running
    <2>3. CASE q # p /\ q # child[p]
      BY <2>3, <1>1, <1>2a, <1>2b, Constants DEF IInv, TypeOK, Mapped, Holding, Running
    <2>. QED
      BY <2>1, <2>2, <2>3
  <1>6. ASSUME NEW q \in Process PROVE Faulting(q)'
    <2>1. CASE q = p
      BY <2>1, <1>1, <1>2a, <1>2b, Constants
         DEF IInv, TypeOK, Faulting, Holding, Running
    <2>2. CASE q = child[p]
      BY <2>2, <1>1, <1>2a, <1>2b, Constants
         DEF IInv, TypeOK, Faulting, Holding, Running
    <2>3. CASE q # p /\ q # child[p]
      BY <2>3, <1>1, <1>2a, <1>2b, Constants
         DEF IInv, TypeOK, Faulting, Holding, Running
    <2>. QED
      BY <2>1, <2>2, <2>3
  <1>7. ASSUME NEW q \in Process PROVE Forking(q)'
    <2>1. CASE q = p
      BY <2>1, <1>1, <1>2a, <1>2b, Constants, OtherChild
         DEF IInv, TypeOK, Forking, Holding, Running
    <2>2. CASE q = child[p]
      BY <2>2, <1>1, <1>2a, <1>2b, Constants, OtherChild
         DEF IInv, TypeOK, Forking, Holding, Running
    <2>3. CASE q # p /\ q # child[p]
      BY <2>3, <1>1, <1>2a, <1>2b, Constants, OtherChild
         DEF IInv, TypeOK, Forking, Holding, Running
    <2>. QED
      BY <2>1, <2>2, <2>3
  <1>8. OneParent'
    BY <1>1, <1>2a, Constants DEF IInv, TypeOK, OneParent
  <1>. QED
    BY <1>2, <1>3, <1>4, <1>5, <1>6, <1>7, <1>8 DEF IInv

(* A store changes one frame, which only this page of this process refers  *)
(* to.                                                                     *)
LEMMA StoreKeeps ==
    ASSUME IInv, NEW p \in Process, NEW va \in Page, NEW v \in Value, Store(p, va, v)
    PROVE  IInv'
  <1>1. /\ pd' = pd /\ table' = table /\ page' = page /\ pa' = pa /\ va_' = va_
        /\ free' = free /\ avail' = avail /\ halted' = halted
        /\ child' = child /\ pc[p] = "user" /\ pc' = pc
        /\ page[p][va] \in Frame /\ content' = [content EXCEPT ![page[p][va]] = v]
    BY DEF Store, tables
  <1>2. Owned'
    BY <1>1 DEF IInv, Owned, held
  <1>2a. \A q \in Process : pa[q] # page[p][va]
    BY <1>1, InHand DEF IInv
  <1>2b. \A q \in Process : \A w \in Page : q # p => page[q][w] # page[p][va]
    BY <1>1, InOnePage DEF IInv
  <1>2c. \A f \in Frame : f # page[p][va] => content'[f] = content[f]
    BY <1>1 DEF IInv, TypeOK
  <1>3. TypeOK'
    BY <1>1, <1>2a, <1>2b, <1>2c, Constants DEF IInv, TypeOK, Label, Running
  <1>4. ASSUME NEW q \in Process PROVE Holding(q)'
    <2>1. CASE q = p
      BY <2>1, <1>1, <1>2a, <1>2b, <1>2c, Constants DEF IInv, TypeOK, Holding, Running
    <2>2. CASE q # p
      BY <2>2, <1>1, <1>2a, <1>2b, <1>2c, Constants DEF IInv, TypeOK, Holding, Running
    <2>. QED
      BY <2>1, <2>2
  <1>5. ASSUME NEW q \in Process PROVE Mapped(q)'
    <2>1. CASE q = p
      BY <2>1, <1>1, <1>2a, <1>2b, <1>2c, Constants
         DEF IInv, TypeOK, Mapped, Holding, Running
    <2>2. CASE q # p
      BY <2>2, <1>1, <1>2a, <1>2b, <1>2c, Constants
         DEF IInv, TypeOK, Mapped, Holding, Running
    <2>. QED
      BY <2>1, <2>2
  <1>6. ASSUME NEW q \in Process PROVE Faulting(q)'
    <2>1. CASE q = p
      BY <2>1, <1>1, <1>2a, <1>2b, <1>2c, Constants
         DEF IInv, TypeOK, Faulting, Holding, Running
    <2>2. CASE q # p
      BY <2>2, <1>1, <1>2a, <1>2b, <1>2c, Constants
         DEF IInv, TypeOK, Faulting, Holding, Running
    <2>. QED
      BY <2>1, <2>2
  <1>7. ASSUME NEW q \in Process PROVE Forking(q)'
    <2>1. CASE q = p
      BY <2>1, <1>1, <1>2a, <1>2b, <1>2c, Constants
         DEF IInv, TypeOK, Forking, Holding, Running
    <2>2. CASE q # p
      BY <2>2, <1>1, <1>2a, <1>2b, <1>2c, Constants
         DEF IInv, TypeOK, Forking, Holding, Running
    <2>. QED
      BY <2>1, <2>2
  <1>8. OneParent'
    BY <1>1, Constants DEF IInv, TypeOK, OneParent
  <1>. QED
    BY <1>2, <1>3, <1>4, <1>5, <1>6, <1>7, <1>8 DEF IInv

(* Those that allocate.                                                    *)
LEMMA PageFaultKeeps ==
    ASSUME IInv, NEW p \in Process, NEW va \in Page, PageFault(p, va)
    PROVE  IInv'
  <1>1. /\ pd' = pd /\ table' = table /\ page' = page /\ child' = child /\ halted' = halted
        /\ pc[p] = "user" /\ page[p][va] = None /\ AllocFrame(Zero)
        /\ pa' = [pa EXCEPT ![p] = NewFrame] /\ va_' = [va_ EXCEPT ![p] = va]
        /\ pc' = [pc EXCEPT ![p] = "map"]
    BY DEF PageFault, Goto, tables
  <1>2b. /\ free' \in Seq(Frame) /\ avail' \in 0..Limit
         /\ content' \in [Frame -> Value \cup {Junk}]
         /\ Owned' /\ NewFrame \in Frame /\ content'[NewFrame] = Zero
         /\ \A f \in Frame : f # NewFrame => content'[f] = content[f]
         /\ \A q \in Process : pa[q] # NewFrame
         /\ \A q \in Process : \A w \in Page : page[q][w] # NewFrame
    <2>1. <<"hand", p>> \in Slot /\ held[<<"hand", p>>] = None
      BY <1>1, SlotKinds, Held, Constants DEF IInv, Holding
    <2>2. /\ held'[<<"hand", p>>] = NewFrame
          /\ \A t \in Slot : t # <<"hand", p>> => held'[t] = held[t]
      <3>1. TypeOK
        BY DEF IInv
      <3>. QED
        BY <1>1, <3>1, PaSet
    <2>3. Zero \in Value \cup {Junk}
      BY Constants DEF IInv, TypeOK
    <2>4. held[<<"hand", p>>] \notin Frame
      BY <2>1, Constants
    <2>. QED
      BY <1>1, <2>1, <2>2, <2>3, <2>4, AllocStep DEF IInv
  <1>2. Owned'
    BY <1>2b
  <1>3. TypeOK'
    BY <1>1, <1>2b, Constants DEF IInv, TypeOK, Label, Running
  <1>4. ASSUME NEW q \in Process PROVE Holding(q)'
    <2>1. CASE q = p
      BY <2>1, <1>1, <1>2b, Constants DEF IInv, TypeOK, Holding, Running
    <2>2. CASE q # p
      BY <2>2, <1>1, <1>2b, Constants DEF IInv, TypeOK, Holding, Running
    <2>. QED
      BY <2>1, <2>2
  <1>5. ASSUME NEW q \in Process PROVE Mapped(q)'
    <2>1. CASE q = p
      BY <2>1, <1>1, <1>2b, Constants DEF IInv, TypeOK, Mapped, Holding, Running
    <2>2. CASE q # p
      BY <2>2, <1>1, <1>2b, Constants DEF IInv, TypeOK, Mapped, Holding, Running
    <2>. QED
      BY <2>1, <2>2
  <1>6. ASSUME NEW q \in Process PROVE Faulting(q)'
    <2>1. CASE q = p
      BY <2>1, <1>1, <1>2b, Constants DEF IInv, TypeOK, Faulting, Holding, Running
    <2>2. CASE q # p
      BY <2>2, <1>1, <1>2b, Constants DEF IInv, TypeOK, Faulting, Holding, Running
    <2>. QED
      BY <2>1, <2>2
  <1>7. ASSUME NEW q \in Process PROVE Forking(q)'
    <2>1. CASE q = p
      BY <2>1, <1>1, <1>2b, Constants, OtherChild
         DEF IInv, TypeOK, Forking, Holding, Running
    <2>2. CASE q # p
      BY <2>2, <1>1, <1>2b, Constants, OtherChild
         DEF IInv, TypeOK, Forking, Holding, Running
    <2>. QED
      BY <2>1, <2>2
  <1>8. OneParent'
    BY <1>1, Constants DEF IInv, TypeOK, OneParent
  <1>. QED
    BY <1>2, <1>3, <1>4, <1>5, <1>6, <1>7, <1>8 DEF IInv

(* A process, or the child it makes, gets a table.                         *)
GivesTable(p, i) ==
    /\ pc[p] # "absent" /\ table[p][i] = None
    /\ AllocFrame(Zero)
    /\ table' = [table EXCEPT ![p][i] = NewFrame]
    /\ UNCHANGED <<pd, page, pc, child, va_, pa, halted>>

(* The three places that allocate a table find none there.                 *)
LEMMA TableAllocated ==
    ASSUME IInv, NEW p \in Process, NEW i \in Directory, GivesTable(p, i)
    PROVE  IInv'
  <1>1. /\ pd' = pd /\ page' = page /\ child' = child /\ halted' = halted
        /\ pa' = pa /\ va_' = va_ /\ pc' = pc /\ pc[p] # "absent"
        /\ table[p][i] = None /\ AllocFrame(Zero)
        /\ table' = [table EXCEPT ![p][i] = NewFrame]
    BY DEF GivesTable
  <1>2b. /\ free' \in Seq(Frame) /\ avail' \in 0..Limit
         /\ content' \in [Frame -> Value \cup {Junk}]
         /\ Owned' /\ NewFrame \in Frame /\ content'[NewFrame] = Zero
         /\ \A f \in Frame : f # NewFrame => content'[f] = content[f]
         /\ \A q \in Process : pa[q] # NewFrame
         /\ \A q \in Process : \A w \in Page : page[q][w] # NewFrame
    <2>1. <<"table", <<p, i>>>> \in Slot /\ held[<<"table", <<p, i>>>>] = None
      BY <1>1, SlotKinds, Held, Constants DEF IInv, Holding
    <2>2. /\ held'[<<"table", <<p, i>>>>] = NewFrame
          /\ \A t \in Slot : t # <<"table", <<p, i>>>> => held'[t] = held[t]
      <3>1. TypeOK
        BY DEF IInv
      <3>. QED
        BY <1>1, <3>1, TableSet
    <2>3. Zero \in Value \cup {Junk}
      BY Constants DEF IInv, TypeOK
    <2>4. held[<<"table", <<p, i>>>>] \notin Frame
      BY <2>1, Constants
    <2>. QED
      BY <1>1, <2>1, <2>2, <2>3, <2>4, AllocStep DEF IInv
  <1>2. Owned'
    BY <1>2b
  <1>3. TypeOK'
    BY <1>1, <1>2b, Constants DEF IInv, TypeOK, Label, Running
  <1>4. ASSUME NEW q \in Process PROVE Holding(q)'
    <2>1. CASE q = p
      BY <2>1, <1>1, <1>2b, Constants DEF IInv, TypeOK, Holding, Running
    <2>2. CASE q # p
      BY <2>2, <1>1, <1>2b, Constants DEF IInv, TypeOK, Holding, Running
    <2>. QED
      BY <2>1, <2>2
  <1>5. ASSUME NEW q \in Process PROVE Mapped(q)'
    <2>1. CASE q = p
      BY <2>1, <1>1, <1>2b, Constants DEF IInv, TypeOK, Mapped, Holding, Running
    <2>2. CASE q # p
      BY <2>2, <1>1, <1>2b, Constants DEF IInv, TypeOK, Mapped, Holding, Running
    <2>. QED
      BY <2>1, <2>2
  <1>6. ASSUME NEW q \in Process PROVE Faulting(q)'
    <2>1. CASE q = p
      BY <2>1, <1>1, <1>2b, Constants DEF IInv, TypeOK, Faulting, Holding, Running
    <2>2. CASE q # p
      BY <2>2, <1>1, <1>2b, Constants DEF IInv, TypeOK, Faulting, Holding, Running
    <2>. QED
      BY <2>1, <2>2
  <1>7. ASSUME NEW q \in Process PROVE Forking(q)'
    <2>1. CASE q = p
      BY <2>1, <1>1, <1>2b, Constants DEF IInv, TypeOK, Forking, Holding, Running
    <2>2. CASE q # p
      BY <2>2, <1>1, <1>2b, Constants DEF IInv, TypeOK, Forking, Holding, Running
    <2>. QED
      BY <2>1, <2>2
  <1>8. OneParent'
    BY <1>1, Constants DEF IInv, TypeOK, OneParent
  <1>. QED
    BY <1>2, <1>3, <1>4, <1>5, <1>6, <1>7, <1>8 DEF IInv

(* MapTable keeps the invariant.                                           *)
LEMMA MapTableKeeps ==
    ASSUME IInv, NEW p \in Process, MapTable(p)
    PROVE  IInv'
  <1>1. va_[p] \in Page /\ Pdi(va_[p]) \in Directory
    BY Constants DEF MapTable, IInv, Faulting
  <1>. QED
    BY <1>1, TableAllocated DEF MapTable, GivesTable

(* MakePd keeps the invariant.                                             *)
LEMMA MakePdKeeps ==
    ASSUME IInv, NEW p \in Process, NEW c \in Process, MakePd(p, c)
    PROVE  IInv'
  <1>1. /\ table' = table /\ page' = page /\ halted' = halted
        /\ pa' = pa /\ va_' = va_
        /\ pc[p] = "user" /\ pc[c] = "absent" /\ AllocFrame(Zero) /\ p # c
        /\ pd' = [pd EXCEPT ![c] = NewFrame] /\ child' = [child EXCEPT ![p] = c]
        /\ pc' = [pc EXCEPT ![p] = "fork", ![c] = "made"]
    BY DEF MakePd
  <1>2a. \A va \in Page : page[c][va] \notin Frame
    BY <1>1, Constants DEF IInv, Holding
  <1>2b. /\ free' \in Seq(Frame) /\ avail' \in 0..Limit
         /\ content' \in [Frame -> Value \cup {Junk}]
         /\ Owned' /\ NewFrame \in Frame /\ content'[NewFrame] = Zero
         /\ \A f \in Frame : f # NewFrame => content'[f] = content[f]
         /\ \A q \in Process : pa[q] # NewFrame
         /\ \A q \in Process : \A w \in Page : page[q][w] # NewFrame
    <2>1. <<"directory", c>> \in Slot /\ held[<<"directory", c>>] = None
      BY <1>1, <1>2a, SlotKinds, Held, Constants DEF IInv, Holding
    <2>2. /\ held'[<<"directory", c>>] = NewFrame
          /\ \A t \in Slot : t # <<"directory", c>> => held'[t] = held[t]
      <3>1. TypeOK
        BY DEF IInv
      <3>. QED
        BY <1>1, <3>1, <1>2a, PdSet
    <2>3. Zero \in Value \cup {Junk}
      BY <1>1, <1>2a, Constants DEF IInv, TypeOK
    <2>4. held[<<"directory", c>>] \notin Frame
      BY <2>1, Constants
    <2>. QED
      BY <1>1, <2>1, <2>2, <2>3, <2>4, AllocStep DEF IInv
  <1>2. Owned'
    BY <1>2b
  <1>3. TypeOK'
    BY <1>1, <1>2b, <1>2a, Constants DEF IInv, TypeOK, Label, Running
  <1>4. ASSUME NEW q \in Process PROVE Holding(q)'
    <2>1. CASE q = p
      BY <2>1, <1>1, <1>2b, <1>2a, Constants DEF IInv, TypeOK, Holding, Running
    <2>2. CASE q = c
      BY <2>2, <1>1, <1>2b, <1>2a, Constants DEF IInv, TypeOK, Holding, Running
    <2>3. CASE q # p /\ q # c
      BY <2>3, <1>1, <1>2b, <1>2a, Constants DEF IInv, TypeOK, Holding, Running
    <2>. QED
      BY <2>1, <2>2, <2>3
  <1>5. ASSUME NEW q \in Process PROVE Mapped(q)'
    <2>1. CASE q = p
      BY <2>1, <1>1, <1>2b, <1>2a, Constants DEF IInv, TypeOK, Mapped, Holding, Running
    <2>2. CASE q = c
      BY <2>2, <1>1, <1>2b, <1>2a, Constants DEF IInv, TypeOK, Mapped, Holding, Running
    <2>3. CASE q # p /\ q # c
      BY <2>3, <1>1, <1>2b, <1>2a, Constants DEF IInv, TypeOK, Mapped, Holding, Running
    <2>. QED
      BY <2>1, <2>2, <2>3
  <1>6. ASSUME NEW q \in Process PROVE Faulting(q)'
    <2>1. CASE q = p
      BY <2>1, <1>1, <1>2b, <1>2a, Constants
         DEF IInv, TypeOK, Faulting, Holding, Running
    <2>2. CASE q = c
      BY <2>2, <1>1, <1>2b, <1>2a, Constants
         DEF IInv, TypeOK, Faulting, Holding, Running
    <2>3. CASE q # p /\ q # c
      BY <2>3, <1>1, <1>2b, <1>2a, Constants
         DEF IInv, TypeOK, Faulting, Holding, Running
    <2>. QED
      BY <2>1, <2>2, <2>3
  <1>7. ASSUME NEW q \in Process PROVE Forking(q)'
    <2>1. CASE q = p
      BY <2>1, <1>1, <1>2b, <1>2a, Constants, OtherChild
         DEF IInv, TypeOK, Forking, Holding, Running
    <2>2. CASE q = c
      BY <2>2, <1>1, <1>2b, <1>2a, Constants, OtherChild
         DEF IInv, TypeOK, Forking, Holding, Running
    <2>3. CASE q # p /\ q # c
      BY <2>3, <1>1, <1>2b, <1>2a, Constants, OtherChild
         DEF IInv, TypeOK, Forking, Holding, Running
    <2>. QED
      BY <2>1, <2>2, <2>3
  <1>8. OneParent'
    BY <1>1, OtherChild, Constants DEF IInv, TypeOK, OneParent
  <1>. QED
    BY <1>2, <1>3, <1>4, <1>5, <1>6, <1>7, <1>8 DEF IInv

(* MapSpecialTable keeps the invariant.                                    *)
LEMMA MapSpecialTableKeeps ==
    ASSUME IInv, NEW p \in Process, MapSpecialTable(p)
    PROVE  IInv'
  <1>1. child[p] \in Process /\ pc[child[p]] # "absent"
    BY OtherChild DEF MapSpecialTable, Copying
  <1>2. UnmappedSpecial(child[p]) \in SUBSET Nat
    BY Constants DEF UnmappedSpecial
  <1>3. Min(UnmappedSpecial(child[p])) \in UnmappedSpecial(child[p])
    BY <1>2, MinIsThere DEF MapSpecialTable
  <1>4. Pdi(Min(UnmappedSpecial(child[p]))) \in Directory
    BY <1>3, Constants DEF UnmappedSpecial
  <1>. QED
    BY <1>1, <1>4, TableAllocated DEF MapSpecialTable, Copying, GivesTable

(* CopyTable keeps the invariant.                                          *)
LEMMA CopyTableKeeps ==
    ASSUME IInv, NEW p \in Process, CopyTable(p)
    PROVE  IInv'
  <1>1. child[p] \in Process /\ pc[child[p]] # "absent"
    BY OtherChild DEF CopyTable, Copying
  <1>2. ToCopy(p) \in SUBSET Nat
    BY Constants DEF ToCopy
  <1>3. Min(ToCopy(p)) \in ToCopy(p)
    BY <1>2, MinIsThere DEF CopyTable
  <1>4. Pdi(Min(ToCopy(p))) \in Directory
    BY <1>3, Constants DEF ToCopy
  <1>. QED
    BY <1>1, <1>4, TableAllocated DEF CopyTable, Copying, GivesTable

(* fork copies the page at va.                                             *)
GivesCopy(p, c, va) ==
    /\ pc[p] = "fork" /\ c = child[p] /\ va \notin Special
    /\ page[p][va] \in Frame /\ page[c][va] = None /\ table[c][Pdi(va)] # None
    /\ AllocFrame(content[page[p][va]])
    /\ page' = [page EXCEPT ![c][va] = NewFrame]
    /\ UNCHANGED <<pd, table, pc, child, va_, pa, halted>>

(* The copy goes to a page the child did not have, and holds what its      *)
(* parent's does.                                                          *)
LEMMA PageCopied ==
    ASSUME IInv, NEW p \in Process, NEW c \in Process, NEW va \in Page, GivesCopy(p, c, va)
    PROVE  IInv'
  <1>1. /\ pd' = pd /\ table' = table /\ child' = child /\ halted' = halted
        /\ pa' = pa /\ va_' = va_ /\ pc' = pc
        /\ pc[p] = "fork" /\ c = child[p] /\ page[p][va] \in Frame /\ page[c][va] = None
        /\ va \notin Special /\ table[c][Pdi(va)] # None
        /\ AllocFrame(content[page[p][va]])
        /\ page' = [page EXCEPT ![c][va] = NewFrame]
    BY DEF GivesCopy
  <1>2c. /\ c # p /\ pc[c] = "made"
         /\ \A q \in Process : q # p /\ pc[q] = "fork" =>
               child[q] \in Process /\ child[q] # c /\ child[q] # p /\ pc[child[q]] = "made"
    BY <1>1, OtherChild
  <1>2b. /\ free' \in Seq(Frame) /\ avail' \in 0..Limit
         /\ content' \in [Frame -> Value \cup {Junk}]
         /\ Owned' /\ NewFrame \in Frame /\ content'[NewFrame] = content[page[p][va]]
         /\ \A f \in Frame : f # NewFrame => content'[f] = content[f]
         /\ \A q \in Process : pa[q] # NewFrame
         /\ \A q \in Process : \A w \in Page : page[q][w] # NewFrame
    <2>1. <<"page", <<c, va>>>> \in Slot /\ held[<<"page", <<c, va>>>>] = None
      BY <1>1, <1>2c, SlotKinds, Held, Constants DEF IInv, Holding
    <2>2. /\ held'[<<"page", <<c, va>>>>] = NewFrame
          /\ \A t \in Slot : t # <<"page", <<c, va>>>> => held'[t] = held[t]
      <3>1. TypeOK
        BY DEF IInv
      <3>. QED
        BY <1>1, <3>1, <1>2c, PageSet
    <2>3. content[page[p][va]] \in Value \cup {Junk}
      BY <1>1, <1>2c, Constants DEF IInv, TypeOK
    <2>4. held[<<"page", <<c, va>>>>] \notin Frame
      BY <2>1, Constants
    <2>. QED
      BY <1>1, <2>1, <2>2, <2>3, <2>4, AllocStep DEF IInv
  <1>2. Owned'
    BY <1>2b
  <1>3. TypeOK'
    BY <1>1, <1>2b, <1>2c, Constants DEF IInv, TypeOK, Label, Running
  <1>4. ASSUME NEW q \in Process PROVE Holding(q)'
    <2>1. CASE q = c
      BY <2>1, <1>1, <1>2b, <1>2c, Constants DEF IInv, TypeOK, Holding, Running
    <2>2. CASE q # c
      BY <2>2, <1>1, <1>2b, <1>2c, Constants DEF IInv, TypeOK, Holding, Running
    <2>. QED
      BY <2>1, <2>2
  <1>5. ASSUME NEW q \in Process PROVE Mapped(q)'
    <2>1. CASE q = c
      BY <2>1, <1>1, <1>2b, <1>2c, Constants DEF IInv, TypeOK, Mapped, Holding, Running
    <2>2. CASE q # c
      BY <2>2, <1>1, <1>2b, <1>2c, Constants DEF IInv, TypeOK, Mapped, Holding, Running
    <2>. QED
      BY <2>1, <2>2
  <1>6. ASSUME NEW q \in Process PROVE Faulting(q)'
    <2>1. CASE q = c
      BY <2>1, <1>1, <1>2b, <1>2c, Constants
         DEF IInv, TypeOK, Faulting, Holding, Running
    <2>2. CASE q # c
      BY <2>2, <1>1, <1>2b, <1>2c, Constants
         DEF IInv, TypeOK, Faulting, Holding, Running
    <2>. QED
      BY <2>1, <2>2
  <1>7. ASSUME NEW q \in Process PROVE Forking(q)'
    <2>1. CASE q = c
      BY <2>1, <1>1, <1>2b, <1>2c, Constants DEF IInv, TypeOK, Forking, Holding, Running
    <2>2. CASE q # c
      BY <2>2, <1>1, <1>2b, <1>2c, Constants DEF IInv, TypeOK, Forking, Holding, Running
    <2>. QED
      BY <2>1, <2>2
  <1>8. OneParent'
    BY <1>1, Constants DEF IInv, TypeOK, OneParent
  <1>. QED
    BY <1>2, <1>3, <1>4, <1>5, <1>6, <1>7, <1>8 DEF IInv

(* CopyPage keeps the invariant.                                           *)
LEMMA CopyPageKeeps ==
    ASSUME IInv, NEW p \in Process, CopyPage(p)
    PROVE  IInv'
  <1>. DEFINE va == Min(ToCopy(p))
  <1>1. child[p] \in Process
    BY OtherChild DEF CopyPage, Copying
  <1>2. ToCopy(p) \in SUBSET Nat
    BY Constants DEF ToCopy
  <1>3. va \in ToCopy(p)
    BY <1>2, MinIsThere DEF CopyPage
  <1>4. va \in Page /\ page[p][va] # None /\ page[child[p]][va] = None
    BY <1>3, Constants DEF ToCopy, CopyPage
  <1>5. va \notin Special
    BY <1>4 DEF CopyPage, Copying, UnmappedSpecial
  <1>6. page[p][va] \in Frame \cup {None, Device} /\ page[p][va] # Device
    BY <1>4, <1>5 DEF IInv, Mapped, TypeOK
  <1>. QED
    BY <1>1, <1>4, <1>5, <1>6, PageCopied DEF CopyPage, Copying, GivesCopy

(* map(): the frame moves from the hands of the page fault to the page,    *)
(* which was not mapped.                                                   *)
LEMMA MapKeeps ==
    ASSUME IInv, NEW p \in Process, Map(p)
    PROVE  IInv'
  <1>1. /\ pd' = pd /\ table' = table /\ child' = child /\ halted' = halted
        /\ free' = free /\ avail' = avail /\ content' = content
        /\ pc[p] = "map" /\ table[p][Pdi(va_[p])] # None
        /\ page' = [page EXCEPT ![p][va_[p]] = pa[p]]
        /\ pa' = [pa EXCEPT ![p] = None] /\ va_' = [va_ EXCEPT ![p] = None]
        /\ pc' = [pc EXCEPT ![p] = "user"]
    BY DEF Map, Goto, frames
  <1>2a. /\ va_[p] \in Page /\ Pdi(va_[p]) \in Directory /\ page[p][va_[p]] = None
         /\ pa[p] \in Frame
    BY <1>1, Constants DEF IInv, Faulting, Holding, TypeOK
  <1>2b. va_[p] \notin Special
    BY <1>1, <1>2a, Constants DEF IInv, Mapped, Running
  <1>2. Owned'
    <2>. DEFINE s == <<"hand", p>>
                t == <<"page", <<p, va_[p]>>>>
    <2>1. /\ s \in Slot /\ t \in Slot /\ s # t
          /\ held[s] = pa[p] /\ held[t] = None
      BY <1>2a, SlotKinds, Held
    <2>2. held'[t] = pa[p] /\ held'[s] = None
      BY <1>1, <1>2a, HeldNext DEF IInv, TypeOK
    <2>3. ASSUME NEW u \in Slot, u # s, u # t PROVE held'[u] = held[u]
      <3>1. ASSUME NEW q \in Process, u = <<"directory", q>> PROVE held'[u] = held[u]
        BY <1>1, <3>1, Held, HeldNext
      <3>2. ASSUME NEW q \in Process, u = <<"hand", q>> PROVE held'[u] = held[u]
        BY <1>1, <2>3, <3>2, Held, HeldNext DEF IInv, TypeOK
      <3>3. ASSUME NEW q \in Process, NEW i \in Directory, u = <<"table", <<q, i>>>>
            PROVE  held'[u] = held[u]
        BY <1>1, <3>3, Held, HeldNext
      <3>4. ASSUME NEW q \in Process, NEW w \in Page, u = <<"page", <<q, w>>>>
            PROVE  held'[u] = held[u]
        BY <1>1, <1>2a, <2>3, <3>4, Held, HeldNext DEF IInv, TypeOK
      <3>. QED
        BY <3>1, <3>2, <3>3, <3>4, SlotKinds
    <2>. HIDE DEF s, t
    <2>4. Conserved(held', free, avail)
      BY <2>1, <2>2, <2>3, Moved, Constants DEF IInv, Owned
    <2>. QED
      BY <1>1, <2>4 DEF Owned
  <1>3. TypeOK'
    BY <1>1, <1>2a, <1>2b, Constants DEF IInv, TypeOK, Label, Running
  <1>4. ASSUME NEW q \in Process PROVE Holding(q)'
    <2>1. CASE q = p
      BY <2>1, <1>1, <1>2a, <1>2b, Constants DEF IInv, TypeOK, Holding, Running
    <2>2. CASE q # p
      BY <2>2, <1>1, <1>2a, <1>2b, Constants DEF IInv, TypeOK, Holding, Running
    <2>. QED
      BY <2>1, <2>2
  <1>5. ASSUME NEW q \in Process PROVE Mapped(q)'
    <2>1. CASE q = p
      BY <2>1, <1>1, <1>2a, <1>2b, Constants DEF IInv, TypeOK, Mapped, Holding, Running
    <2>2. CASE q # p
      BY <2>2, <1>1, <1>2a, <1>2b, Constants DEF IInv, TypeOK, Mapped, Holding, Running
    <2>. QED
      BY <2>1, <2>2
  <1>6. ASSUME NEW q \in Process PROVE Faulting(q)'
    <2>1. CASE q = p
      BY <2>1, <1>1, <1>2a, <1>2b, Constants
         DEF IInv, TypeOK, Faulting, Holding, Running
    <2>2. CASE q # p
      BY <2>2, <1>1, <1>2a, <1>2b, Constants
         DEF IInv, TypeOK, Faulting, Holding, Running
    <2>. QED
      BY <2>1, <2>2
  <1>7. ASSUME NEW q \in Process PROVE Forking(q)'
    <2>1. CASE q = p
      BY <2>1, <1>1, <1>2a, <1>2b, Constants, OtherChild
         DEF IInv, TypeOK, Forking, Holding, Running
    <2>2. CASE q # p
      BY <2>2, <1>1, <1>2a, <1>2b, Constants, OtherChild
         DEF IInv, TypeOK, Forking, Holding, Running
    <2>. QED
      BY <2>1, <2>2
  <1>8. OneParent'
    BY <1>1, Constants DEF IInv, TypeOK, OneParent
  <1>. QED
    BY <1>2, <1>3, <1>4, <1>5, <1>6, <1>7, <1>8 DEF IInv

(* map() of a page of the APICs, in the directory of a child.              *)
LEMMA MapSpecialKeeps ==
    ASSUME IInv, NEW p \in Process, MapSpecial(p)
    PROVE  IInv'
  <1>1. /\ pd' = pd /\ table' = table /\ child' = child /\ halted' = halted
        /\ free' = free /\ avail' = avail /\ content' = content
        /\ pa' = pa /\ va_' = va_ /\ pc' = pc
        /\ pc[p] = "fork" /\ UnmappedSpecial(child[p]) # {}
        /\ table[child[p]][Pdi(Min(UnmappedSpecial(child[p])))] # None
        /\ page' = [page EXCEPT ![child[p]][Min(UnmappedSpecial(child[p]))] = Device]
    BY DEF MapSpecial, frames
  <1>2a. /\ Min(UnmappedSpecial(child[p])) \in Page /\ Min(UnmappedSpecial(child[p])) \in Special
         /\ page[child[p]][Min(UnmappedSpecial(child[p]))] = None
    <2>1. UnmappedSpecial(child[p]) \in SUBSET Nat
      BY Constants DEF UnmappedSpecial
    <2>2. Min(UnmappedSpecial(child[p])) \in UnmappedSpecial(child[p])
      BY <1>1, <2>1, MinIsThere
    <2>. QED
      BY <2>2, Constants DEF UnmappedSpecial
  <1>2c. /\ child[p] \in Process /\ child[p] # p /\ pc[child[p]] = "made"
         /\ \A q \in Process : q # p /\ pc[q] = "fork" =>
               child[q] \in Process /\ child[q] # child[p] /\ child[q] # p /\ pc[child[q]] = "made"
    BY <1>1, OtherChild
  <1>2. Owned'
    <2>. DEFINE s == <<"page", <<child[p], Min(UnmappedSpecial(child[p]))>>>>
    <2>1. s \in Slot /\ held[s] = None
      BY <1>2a, <1>2c, SlotKinds, Held
    <2>2. /\ held'[s] = Device
          /\ \A t \in Slot : t # s => held'[t] = held[t]
      BY <1>1, <1>2a, <1>2c, PageSet DEF IInv
    <2>. HIDE DEF s
    <2>3. \A t \in Slot : held'[t] = held[t] \/ (held[t] \notin Frame /\ held'[t] \notin Frame)
      BY <2>1, <2>2, Constants
    <2>. QED
      BY <1>1, <2>3, Untouched DEF IInv, Owned
  <1>3. TypeOK'
    BY <1>1, <1>2a, <1>2c, Constants DEF IInv, TypeOK, Label, Running
  <1>4. ASSUME NEW q \in Process PROVE Holding(q)'
    <2>1. CASE q = child[p]
      BY <2>1, <1>1, <1>2a, <1>2c, Constants DEF IInv, TypeOK, Holding, Running
    <2>2. CASE q # child[p]
      BY <2>2, <1>1, <1>2a, <1>2c, Constants DEF IInv, TypeOK, Holding, Running
    <2>. QED
      BY <2>1, <2>2
  <1>5. ASSUME NEW q \in Process PROVE Mapped(q)'
    <2>1. CASE q = child[p]
      BY <2>1, <1>1, <1>2a, <1>2c, Constants DEF IInv, TypeOK, Mapped, Holding, Running
    <2>2. CASE q # child[p]
      BY <2>2, <1>1, <1>2a, <1>2c, Constants DEF IInv, TypeOK, Mapped, Holding, Running
    <2>. QED
      BY <2>1, <2>2
  <1>6. ASSUME NEW q \in Process PROVE Faulting(q)'
    <2>1. CASE q = child[p]
      BY <2>1, <1>1, <1>2a, <1>2c, Constants
         DEF IInv, TypeOK, Faulting, Holding, Running
    <2>2. CASE q # child[p]
      BY <2>2, <1>1, <1>2a, <1>2c, Constants
         DEF IInv, TypeOK, Faulting, Holding, Running
    <2>. QED
      BY <2>1, <2>2
  <1>7. ASSUME NEW q \in Process PROVE Forking(q)'
    <2>1. CASE q = child[p]
      BY <2>1, <1>1, <1>2a, <1>2c, Constants DEF IInv, TypeOK, Forking, Holding, Running
    <2>2. CASE q # child[p]
      BY <2>2, <1>1, <1>2a, <1>2c, Constants DEF IInv, TypeOK, Forking, Holding, Running
    <2>. QED
      BY <2>1, <2>2
  <1>8. OneParent'
    BY <1>1, Constants DEF IInv, TypeOK, OneParent
  <1>. QED
    BY <1>2, <1>3, <1>4, <1>5, <1>6, <1>7, <1>8 DEF IInv

(* delete_private or delete_pd frees the page at va.                       *)
TakesPage(p, va) ==
    /\ pc[p] \in {"clear", "delete"} /\ page[p][va] \in Frame
    /\ DeallocFrame(page[p][va])
    /\ page' = [page EXCEPT ![p][va] = None]
    /\ UNCHANGED <<pd, table, pc, child, va_, pa, halted>>

(* Nobody else refers to the frame of that page.                           *)
LEMMA PageFreed ==
    ASSUME IInv, NEW p \in Process, NEW va \in Page, TakesPage(p, va)
    PROVE  IInv'
  <1>1. /\ pd' = pd /\ table' = table /\ child' = child /\ halted' = halted
        /\ pa' = pa /\ va_' = va_ /\ pc' = pc
        /\ pc[p] \in {"clear", "delete"} /\ DeallocFrame(page[p][va])
        /\ page' = [page EXCEPT ![p][va] = None]
    BY DEF TakesPage
  <1>2a. page[p][va] \in Frame /\ va \notin Special
    BY Constants DEF TakesPage, IInv, Mapped
  <1>2b. /\ free' \in Seq(Frame) /\ avail' \in 0..Limit
         /\ content' \in [Frame -> Value \cup {Junk}] /\ Owned'
         /\ \A f \in Frame : f # page[p][va] => content'[f] = content[f]
         /\ \A q \in Process : pa[q] # page[p][va]
         /\ \A q \in Process : \A w \in Page : page[q][w] = page[p][va] => <<"page", <<q, w>>>> = <<"page", <<p, va>>>>
    <2>. DEFINE s == <<"page", <<p, va>>>>
    <2>1. s \in Slot /\ held[s] = page[p][va] /\ \A q \in Process : s # <<"hand", q>>
      BY <1>2a, SlotKinds, Held
    <2>2. /\ held'[s] = None
          /\ \A t \in Slot : t # s => held'[t] = held[t]
      BY <1>1, <1>2a, PageSet DEF IInv
    <2>. HIDE DEF s
    <2>3. /\ free' \in Seq(Frame) /\ avail' \in 0..Limit
          /\ content' \in [Frame -> Value \cup {Junk}] /\ Owned'
          /\ \A f \in Frame : f # held[s] => content'[f] = content[f]
          /\ \A t \in Slot : t # s => held[t] # held[s]
      BY <1>1, <1>2a, <2>1, <2>2, FreeStep, Constants DEF IInv
    <2>4. ASSUME NEW q \in Process PROVE pa[q] # page[p][va]
      <3>1. <<"hand", q>> \in Slot /\ held[<<"hand", q>>] = pa[q]
        BY SlotKinds, Held
      <3>. QED
        BY <3>1, <2>1, <2>3
    <2>5. ASSUME NEW q \in Process, NEW w \in Page, page[q][w] = page[p][va]
          PROVE  <<"page", <<q, w>>>> = s
      <3>1. <<"page", <<q, w>>>> \in Slot /\ held[<<"page", <<q, w>>>>] = page[q][w]
        BY SlotKinds, Held
      <3>. QED
        BY <3>1, <2>1, <2>3, <2>5
    <2>. QED
      BY <2>1, <2>3, <2>4, <2>5 DEF s
  <1>2. Owned'
    BY <1>2b
  <1>3. TypeOK'
    BY <1>1, <1>2a, <1>2b, Constants DEF IInv, TypeOK, Label, Running
  <1>4. ASSUME NEW q \in Process PROVE Holding(q)'
    <2>1. CASE q = p
      BY <2>1, <1>1, <1>2a, <1>2b, Constants DEF IInv, TypeOK, Holding, Running
    <2>2. CASE q # p
      BY <2>2, <1>1, <1>2a, <1>2b, Constants DEF IInv, TypeOK, Holding, Running
    <2>. QED
      BY <2>1, <2>2
  <1>5. ASSUME NEW q \in Process PROVE Mapped(q)'
    <2>1. CASE q = p
      BY <2>1, <1>1, <1>2a, <1>2b, Constants DEF IInv, TypeOK, Mapped, Holding, Running
    <2>2. CASE q # p
      BY <2>2, <1>1, <1>2a, <1>2b, Constants DEF IInv, TypeOK, Mapped, Holding, Running
    <2>. QED
      BY <2>1, <2>2
  <1>6. ASSUME NEW q \in Process PROVE Faulting(q)'
    <2>1. CASE q = p
      BY <2>1, <1>1, <1>2a, <1>2b, Constants
         DEF IInv, TypeOK, Faulting, Holding, Running
    <2>2. CASE q # p
      BY <2>2, <1>1, <1>2a, <1>2b, Constants
         DEF IInv, TypeOK, Faulting, Holding, Running
    <2>. QED
      BY <2>1, <2>2
  <1>7. ASSUME NEW q \in Process PROVE Forking(q)'
    <2>1. CASE q = p
      BY <2>1, <1>1, <1>2a, <1>2b, Constants, OtherChild
         DEF IInv, TypeOK, Forking, Holding, Running
    <2>2. CASE q # p
      BY <2>2, <1>1, <1>2a, <1>2b, Constants, OtherChild
         DEF IInv, TypeOK, Forking, Holding, Running
    <2>. QED
      BY <2>1, <2>2
  <1>8. OneParent'
    BY <1>1, Constants DEF IInv, TypeOK, OneParent
  <1>. QED
    BY <1>2, <1>3, <1>4, <1>5, <1>6, <1>7, <1>8 DEF IInv

(* A table that is not empty has a first page.                             *)
LEMMA PrivatePageIsThere ==
    ASSUME NEW p \in Process, NEW i, PrivatePages(p, i) # {}
    PROVE  Min(PrivatePages(p, i)) \in Page /\ page[p][Min(PrivatePages(p, i))] \in Frame
  <1>1. PrivatePages(p, i) \in SUBSET Nat
    BY Constants DEF PrivatePages
  <1>2. Min(PrivatePages(p, i)) \in PrivatePages(p, i)
    BY <1>1, MinIsThere
  <1>. QED
    BY <1>2 DEF PrivatePages

(* ClearPage keeps the invariant.                                          *)
LEMMA ClearPageKeeps ==
    ASSUME IInv, NEW p \in Process, ClearPage(p)
    PROVE  IInv'
  BY PrivatePageIsThere, PageFreed DEF ClearPage, TakesPage

(* DeletePage keeps the invariant.                                         *)
LEMMA DeletePageKeeps ==
    ASSUME IInv, NEW p \in Process, DeletePage(p)
    PROVE  IInv'
  BY PrivatePageIsThere, PageFreed DEF DeletePage, TakesPage

(* delete_private frees the table at i.                                    *)
TakesTable(p, i) ==
    /\ pc[p] = "clear" /\ table[p][i] \in Frame
    /\ PrivatePages(p, i) = {} /\ ~HasSpecial(i)
    /\ DeallocFrame(table[p][i])
    /\ table' = [table EXCEPT ![p][i] = None]
    /\ UNCHANGED <<pd, page, pc, child, va_, pa, halted>>

(* A table without special pages is freed once none of its pages is left.  *)
LEMMA TableFreed ==
    ASSUME IInv, NEW p \in Process, NEW i \in Directory, TakesTable(p, i)
    PROVE  IInv'
  <1>1. /\ pd' = pd /\ page' = page /\ child' = child /\ halted' = halted
        /\ pa' = pa /\ va_' = va_ /\ pc' = pc /\ pc[p] = "clear"
        /\ DeallocFrame(table[p][i])
        /\ table' = [table EXCEPT ![p][i] = None]
    BY DEF TakesTable
  <1>2a. table[p][i] \in Frame
    BY DEF TakesTable
  <1>2d. \A va \in Page : Pdi(va) = i => page[p][va] = None
    <2>. SUFFICES ASSUME NEW va \in Page, Pdi(va) = i PROVE page[p][va] = None
      OBVIOUS
    <2>1. page[p][va] \notin Frame
      BY DEF TakesTable, PrivatePages
    <2>2. va \notin Special
      BY DEF TakesTable, HasSpecial
    <2>3. page[p][va] # Device
      BY <2>2 DEF IInv, Mapped
    <2>. QED
      BY <2>1, <2>3 DEF IInv, TypeOK
  <1>2b. /\ free' \in Seq(Frame) /\ avail' \in 0..Limit
         /\ content' \in [Frame -> Value \cup {Junk}] /\ Owned'
         /\ \A f \in Frame : f # table[p][i] => content'[f] = content[f]
         /\ \A q \in Process : pa[q] # table[p][i]
         /\ \A q \in Process : \A w \in Page : page[q][w] = table[p][i] => <<"page", <<q, w>>>> = <<"table", <<p, i>>>>
    <2>. DEFINE s == <<"table", <<p, i>>>>
    <2>1. s \in Slot /\ held[s] = table[p][i] /\ \A q \in Process : s # <<"hand", q>>
      BY <1>2a, SlotKinds, Held
    <2>2. /\ held'[s] = None
          /\ \A t \in Slot : t # s => held'[t] = held[t]
      BY <1>1, <1>2a, TableSet DEF IInv
    <2>. HIDE DEF s
    <2>3. /\ free' \in Seq(Frame) /\ avail' \in 0..Limit
          /\ content' \in [Frame -> Value \cup {Junk}] /\ Owned'
          /\ \A f \in Frame : f # held[s] => content'[f] = content[f]
          /\ \A t \in Slot : t # s => held[t] # held[s]
      BY <1>1, <1>2a, <2>1, <2>2, FreeStep, Constants DEF IInv
    <2>4. ASSUME NEW q \in Process PROVE pa[q] # table[p][i]
      <3>1. <<"hand", q>> \in Slot /\ held[<<"hand", q>>] = pa[q]
        BY SlotKinds, Held
      <3>. QED
        BY <3>1, <2>1, <2>3
    <2>5. ASSUME NEW q \in Process, NEW w \in Page, page[q][w] = table[p][i]
          PROVE  <<"page", <<q, w>>>> = s
      <3>1. <<"page", <<q, w>>>> \in Slot /\ held[<<"page", <<q, w>>>>] = page[q][w]
        BY SlotKinds, Held
      <3>. QED
        BY <3>1, <2>1, <2>3, <2>5
    <2>. QED
      BY <2>1, <2>3, <2>4, <2>5 DEF s
  <1>2. Owned'
    BY <1>2b
  <1>3. TypeOK'
    BY <1>1, <1>2a, <1>2b, <1>2d, Constants DEF IInv, TypeOK, Label, Running
  <1>4. ASSUME NEW q \in Process PROVE Holding(q)'
    <2>1. CASE q = p
      BY <2>1, <1>1, <1>2a, <1>2b, <1>2d, Constants DEF IInv, TypeOK, Holding, Running
    <2>2. CASE q # p
      BY <2>2, <1>1, <1>2a, <1>2b, <1>2d, Constants DEF IInv, TypeOK, Holding, Running
    <2>. QED
      BY <2>1, <2>2
  <1>5. ASSUME NEW q \in Process PROVE Mapped(q)'
    <2>1. CASE q = p
      BY <2>1, <1>1, <1>2a, <1>2b, <1>2d, Constants
         DEF IInv, TypeOK, Mapped, Holding, Running
    <2>2. CASE q # p
      BY <2>2, <1>1, <1>2a, <1>2b, <1>2d, Constants
         DEF IInv, TypeOK, Mapped, Holding, Running
    <2>. QED
      BY <2>1, <2>2
  <1>6. ASSUME NEW q \in Process PROVE Faulting(q)'
    <2>1. CASE q = p
      BY <2>1, <1>1, <1>2a, <1>2b, <1>2d, Constants
         DEF IInv, TypeOK, Faulting, Holding, Running
    <2>2. CASE q # p
      BY <2>2, <1>1, <1>2a, <1>2b, <1>2d, Constants
         DEF IInv, TypeOK, Faulting, Holding, Running
    <2>. QED
      BY <2>1, <2>2
  <1>7. ASSUME NEW q \in Process PROVE Forking(q)'
    <2>1. CASE q = p
      BY <2>1, <1>1, <1>2a, <1>2b, <1>2d, Constants, OtherChild
         DEF IInv, TypeOK, Forking, Holding, Running
    <2>2. CASE q # p
      BY <2>2, <1>1, <1>2a, <1>2b, <1>2d, Constants, OtherChild
         DEF IInv, TypeOK, Forking, Holding, Running
    <2>. QED
      BY <2>1, <2>2
  <1>8. OneParent'
    BY <1>1, Constants DEF IInv, TypeOK, OneParent
  <1>. QED
    BY <1>2, <1>3, <1>4, <1>5, <1>6, <1>7, <1>8 DEF IInv

(* It is there, and none of its pages is special.                          *)
LEMMA ClearTableTakes ==
    ASSUME IInv, NEW p \in Process, ClearTable(p)
    PROVE  \E i \in Directory : TakesTable(p, i)
  <1>. DEFINE i == Min(ToClear(p))
  <1>1. ToClear(p) \in SUBSET Nat
    BY Constants DEF ToClear
  <1>2. i \in ToClear(p)
    BY <1>1, MinIsThere DEF ClearTable
  <1>3. i \in Directory /\ table[p][i] # None /\ ~HasSpecial(i)
    BY <1>2 DEF ToClear, ClearTable
  <1>4. table[p][i] \in Frame
    BY <1>3 DEF IInv, TypeOK
  <1>. QED
    BY <1>3, <1>4 DEF ClearTable, TakesTable

(* ClearTable keeps the invariant.                                         *)
LEMMA ClearTableKeeps ==
    ASSUME IInv, NEW p \in Process, ClearTable(p)
    PROVE  IInv'
  BY ClearTableTakes, TableFreed

(* delete_pd frees the table at i, and with it the special pages.          *)
DropsTable(p, i) ==
    /\ pc[p] = "delete" /\ table[p][i] \in Frame /\ PrivatePages(p, i) = {}
    /\ DeallocFrame(table[p][i])
    /\ table' = [table EXCEPT ![p][i] = None]
    /\ page' = [page EXCEPT ![p] =
                   [va \in Page |-> IF Pdi(va) = i THEN None ELSE @[va]]]
    /\ UNCHANGED <<pd, pc, child, va_, pa, halted>>

(* delete_pd frees every table; what pages are left in it are the APICs',  *)
(* which have no frame.                                                    *)
LEMMA TableDeleted ==
    ASSUME IInv, NEW p \in Process, NEW i \in Directory, DropsTable(p, i)
    PROVE  IInv'
  <1>1. /\ pd' = pd /\ child' = child /\ halted' = halted
        /\ pa' = pa /\ va_' = va_ /\ pc' = pc
        /\ pc[p] = "delete" /\ PrivatePages(p, i) = {}
        /\ DeallocFrame(table[p][i])
        /\ table' = [table EXCEPT ![p][i] = None]
        /\ page' = [page EXCEPT ![p] =
                       [va \in Page |-> IF Pdi(va) = i THEN None ELSE @[va]]]
    BY DEF DropsTable
  <1>1a. /\ pd' = pd /\ child' = child /\ halted' = halted
         /\ pa' = pa /\ va_' = va_ /\ pc' = pc /\ pc[p] = "delete"
         /\ table' = [table EXCEPT ![p][i] = None]
    BY <1>1
  <1>2a. table[p][i] \in Frame
    BY DEF DropsTable
  <1>2d. /\ \A va \in Page : page'[p][va] = IF Pdi(va) = i THEN None ELSE page[p][va]
         /\ \A q \in Process : q # p => page'[q] = page[q]
         /\ page' \in [Process -> [Page -> Frame \cup {None, Device}]]
    BY <1>1 DEF IInv, TypeOK
  <1>2e. \A va \in Page : Pdi(va) = i => page[p][va] \notin Frame
    BY <1>1 DEF PrivatePages
  <1>2b. /\ free' \in Seq(Frame) /\ avail' \in 0..Limit
         /\ content' \in [Frame -> Value \cup {Junk}] /\ Owned'
         /\ \A f \in Frame : f # table[p][i] => content'[f] = content[f]
         /\ \A q \in Process : pa[q] # table[p][i]
         /\ \A q \in Process : \A w \in Page : page[q][w] = table[p][i] => <<"page", <<q, w>>>> = <<"table", <<p, i>>>>
    <2>. DEFINE s == <<"table", <<p, i>>>>
    <2>1. s \in Slot /\ held[s] = table[p][i] /\ \A q \in Process : s # <<"hand", q>>
      BY <1>2a, SlotKinds, Held
    <2>2. /\ held'[s] = None
          /\ \A t \in Slot : t # s => held'[t] = held[t] \/ (held[t] \notin Frame /\ held'[t] \notin Frame)
      <3>1. held'[s] = None
        BY <1>1, <1>2a, HeldNext DEF IInv, TypeOK
      <3>2. ASSUME NEW t \in Slot, t # s
            PROVE  held'[t] = held[t] \/ (held[t] \notin Frame /\ held'[t] \notin Frame)
        <4>1. ASSUME NEW q \in Process, t = <<"directory", q>> PROVE held'[t] = held[t]
          BY <1>1, <4>1, Held, HeldNext
        <4>2. ASSUME NEW q \in Process, t = <<"hand", q>> PROVE held'[t] = held[t]
          BY <1>1, <4>2, Held, HeldNext
        <4>3. ASSUME NEW q \in Process, NEW d \in Directory, t = <<"table", <<q, d>>>>
              PROVE  held'[t] = held[t]
          BY <1>1, <3>2, <4>3, Held, HeldNext DEF IInv, TypeOK
        <4>4. ASSUME NEW q \in Process, NEW w \in Page, t = <<"page", <<q, w>>>>
              PROVE  held'[t] = held[t] \/ (held[t] \notin Frame /\ held'[t] \notin Frame)
          <5>1. held[t] = page[q][w] /\ held'[t] = page'[q][w]
            BY <4>4, Held, HeldNext
          <5>2. CASE q = p
            BY <5>1, <5>2, <1>2d, <1>2e, Constants
          <5>3. CASE q # p
            BY <5>1, <5>3, <1>2d
          <5>. QED
            BY <5>2, <5>3
        <4>. QED
          BY <4>1, <4>2, <4>3, <4>4, SlotKinds
      <3>. QED
        BY <3>1, <3>2
    <2>. HIDE DEF s
    <2>3. /\ free' \in Seq(Frame) /\ avail' \in 0..Limit
          /\ content' \in [Frame -> Value \cup {Junk}] /\ Owned'
          /\ \A f \in Frame : f # held[s] => content'[f] = content[f]
          /\ \A t \in Slot : t # s => held[t] # held[s]
      BY <1>1, <1>2a, <2>1, <2>2, FreeStep, Constants DEF IInv
    <2>4. ASSUME NEW q \in Process PROVE pa[q] # table[p][i]
      <3>1. <<"hand", q>> \in Slot /\ held[<<"hand", q>>] = pa[q]
        BY SlotKinds, Held
      <3>. QED
        BY <3>1, <2>1, <2>3
    <2>5. ASSUME NEW q \in Process, NEW w \in Page, page[q][w] = table[p][i]
          PROVE  <<"page", <<q, w>>>> = s
      <3>1. <<"page", <<q, w>>>> \in Slot /\ held[<<"page", <<q, w>>>>] = page[q][w]
        BY SlotKinds, Held
      <3>. QED
        BY <3>1, <2>1, <2>3, <2>5
    <2>. QED
      BY <2>1, <2>3, <2>4, <2>5 DEF s
  <1>2. Owned'
    BY <1>2b
  <1>3. TypeOK'
    BY <1>1a, <1>2a, <1>2b, <1>2d, <1>2e, Constants DEF IInv, TypeOK, Label, Running
  <1>4. ASSUME NEW q \in Process PROVE Holding(q)'
    <2>1. CASE q = p
      BY <2>1, <1>1a, <1>2a, <1>2b, <1>2d, <1>2e, Constants
         DEF IInv, TypeOK, Holding, Running
    <2>2. CASE q # p
      BY <2>2, <1>1a, <1>2a, <1>2b, <1>2d, <1>2e, Constants
         DEF IInv, TypeOK, Holding, Running
    <2>. QED
      BY <2>1, <2>2
  <1>5. ASSUME NEW q \in Process PROVE Mapped(q)'
    <2>1. CASE q = p
      <3>0. pc'[p] \notin Running
        BY <1>1a DEF Running
      <3>1. \A va \in Page : page'[p][va] = None \/ (page'[p][va] = page[p][va] /\ Pdi(va) # i)
        BY <1>2d
      <3>2. \A va \in Page : page'[p][va] # None => table'[p][Pdi(va)] # None
        <4>. SUFFICES ASSUME NEW va \in Page, page'[p][va] # None PROVE table'[p][Pdi(va)] # None
          OBVIOUS
        <4>1. page[p][va] # None /\ Pdi(va) # i /\ Pdi(va) \in Directory
          BY <3>1, Constants
        <4>2. table'[p][Pdi(va)] = table[p][Pdi(va)]
          BY <4>1, <1>1a, <1>2a DEF IInv, TypeOK
        <4>. QED
          BY <4>1, <4>2 DEF IInv, Mapped
      <3>3. \A va \in Special : page'[p][va] \notin Frame
        BY <3>1, Constants DEF IInv, Mapped
      <3>4. \A va \in Page \ Special : page'[p][va] # Device
        BY <3>1, Constants DEF IInv, Mapped
      <3>. QED
        BY <2>1, <3>0, <3>2, <3>3, <3>4 DEF Mapped
    <2>2. CASE q # p
      BY <2>2, <1>1a, <1>2a, <1>2b, <1>2d, <1>2e, Constants
         DEF IInv, TypeOK, Mapped, Holding, Running
    <2>. QED
      BY <2>1, <2>2
  <1>6. ASSUME NEW q \in Process PROVE Faulting(q)'
    <2>1. CASE q = p
      BY <2>1, <1>1a, <1>2a, <1>2b, <1>2d, <1>2e, Constants
         DEF IInv, TypeOK, Faulting, Holding, Running
    <2>2. CASE q # p
      BY <2>2, <1>1a, <1>2a, <1>2b, <1>2d, <1>2e, Constants
         DEF IInv, TypeOK, Faulting, Holding, Running
    <2>. QED
      BY <2>1, <2>2
  <1>7. ASSUME NEW q \in Process PROVE Forking(q)'
    <2>1. CASE q = p
      BY <2>1, <1>1a, <1>2a, <1>2b, <1>2d, <1>2e, Constants, OtherChild
         DEF IInv, TypeOK, Forking, Holding, Running
    <2>2. CASE q # p
      <3>. SUFFICES ASSUME pc[q] = "fork" PROVE Forking(q)'
        BY <1>1a DEF Forking
      <3>1. child[q] \in Process /\ pc[child[q]] = "made" /\ child[q] # p
        BY <1>1a DEF IInv, Forking
      <3>2. /\ page'[q] = page[q] /\ page'[child[q]] = page[child[q]]
            /\ child' = child /\ pc' = pc
        BY <1>1a, <1>2d, <2>2, <3>1
      <3>3. \A va \in Page : /\ page[q][va] # table[p][i]
                            /\ page[child[q]][va] # table[p][i]
        BY <1>2b, <3>1
      <3>4. \A va \in Page : page[child[q]][va] \in Frame =>
              /\ page[q][va] \in Frame
              /\ content'[page[child[q]][va]] = content'[page[q][va]]
        BY <1>2b, <3>3 DEF IInv, Forking
      <3>. QED
        BY <3>1, <3>2, <3>4 DEF Forking
    <2>. QED
      BY <2>1, <2>2
  <1>8. OneParent'
    BY <1>1, Constants DEF IInv, TypeOK, OneParent
  <1>. QED
    BY <1>2, <1>3, <1>4, <1>5, <1>6, <1>7, <1>8 DEF IInv

(* It is there.                                                            *)
LEMMA DeleteTableTakes ==
    ASSUME IInv, NEW p \in Process, DeleteTable(p)
    PROVE  \E i \in Directory : DropsTable(p, i)
  <1>. DEFINE i == Min(ToDelete(p))
  <1>1. ToDelete(p) \in SUBSET Nat
    BY Constants DEF ToDelete
  <1>2. i \in ToDelete(p)
    BY <1>1, MinIsThere DEF DeleteTable
  <1>3. i \in Directory /\ table[p][i] # None
    BY <1>2 DEF ToDelete, DeleteTable
  <1>4. table[p][i] \in Frame
    BY <1>3 DEF IInv, TypeOK
  <1>. QED
    BY <1>3, <1>4 DEF DeleteTable, DropsTable

(* DeleteTable keeps the invariant.                                        *)
LEMMA DeleteTableKeeps ==
    ASSUME IInv, NEW p \in Process, DeleteTable(p)
    PROVE  IInv'
  BY DeleteTableTakes, TableDeleted

(* The directory goes last, when the process has no table and so no page.  *)
LEMMA DeletePdKeeps ==
    ASSUME IInv, NEW p \in Process, DeletePd(p)
    PROVE  IInv'
  <1>1. /\ table' = table /\ page' = page /\ child' = child /\ halted' = halted
        /\ pa' = pa /\ va_' = va_
        /\ pc[p] = "delete" /\ ToDelete(p) = {} /\ DeallocFrame(pd[p])
        /\ pd' = [pd EXCEPT ![p] = None] /\ pc' = [pc EXCEPT ![p] = "absent"]
    BY DEF DeletePd, Goto
  <1>2a. pd[p] \in Frame
    BY <1>1 DEF IInv, Holding, TypeOK
  <1>2d. /\ \A i \in Directory : table[p][i] = None
         /\ \A va \in Page : page[p][va] = None
    <2>1. \A i \in Directory : table[p][i] = None
      BY <1>1 DEF ToDelete
    <2>. QED
      BY <2>1, Constants DEF IInv, Mapped
  <1>2b. /\ free' \in Seq(Frame) /\ avail' \in 0..Limit
         /\ content' \in [Frame -> Value \cup {Junk}] /\ Owned'
         /\ \A f \in Frame : f # pd[p] => content'[f] = content[f]
         /\ \A q \in Process : pa[q] # pd[p]
         /\ \A q \in Process : \A w \in Page : page[q][w] = pd[p] => <<"page", <<q, w>>>> = <<"directory", p>>
    <2>. DEFINE s == <<"directory", p>>
    <2>1. s \in Slot /\ held[s] = pd[p] /\ \A q \in Process : s # <<"hand", q>>
      BY <1>2a, SlotKinds, Held
    <2>2. /\ held'[s] = None
          /\ \A t \in Slot : t # s => held'[t] = held[t]
      BY <1>1, <1>2a, PdSet DEF IInv
    <2>. HIDE DEF s
    <2>3. /\ free' \in Seq(Frame) /\ avail' \in 0..Limit
          /\ content' \in [Frame -> Value \cup {Junk}] /\ Owned'
          /\ \A f \in Frame : f # held[s] => content'[f] = content[f]
          /\ \A t \in Slot : t # s => held[t] # held[s]
      BY <1>1, <1>2a, <2>1, <2>2, FreeStep, Constants DEF IInv
    <2>4. ASSUME NEW q \in Process PROVE pa[q] # pd[p]
      <3>1. <<"hand", q>> \in Slot /\ held[<<"hand", q>>] = pa[q]
        BY SlotKinds, Held
      <3>. QED
        BY <3>1, <2>1, <2>3
    <2>5. ASSUME NEW q \in Process, NEW w \in Page, page[q][w] = pd[p]
          PROVE  <<"page", <<q, w>>>> = s
      <3>1. <<"page", <<q, w>>>> \in Slot /\ held[<<"page", <<q, w>>>>] = page[q][w]
        BY SlotKinds, Held
      <3>. QED
        BY <3>1, <2>1, <2>3, <2>5
    <2>. QED
      BY <2>1, <2>3, <2>4, <2>5 DEF s
  <1>2. Owned'
    BY <1>2b
  <1>3. TypeOK'
    BY <1>1, <1>2a, <1>2b, <1>2d, Constants DEF IInv, TypeOK, Label, Running
  <1>4. ASSUME NEW q \in Process PROVE Holding(q)'
    <2>1. CASE q = p
      BY <2>1, <1>1, <1>2a, <1>2b, <1>2d, Constants DEF IInv, TypeOK, Holding, Running
    <2>2. CASE q # p
      BY <2>2, <1>1, <1>2a, <1>2b, <1>2d, Constants DEF IInv, TypeOK, Holding, Running
    <2>. QED
      BY <2>1, <2>2
  <1>5. ASSUME NEW q \in Process PROVE Mapped(q)'
    <2>1. CASE q = p
      BY <2>1, <1>1, <1>2a, <1>2b, <1>2d, Constants
         DEF IInv, TypeOK, Mapped, Holding, Running
    <2>2. CASE q # p
      BY <2>2, <1>1, <1>2a, <1>2b, <1>2d, Constants
         DEF IInv, TypeOK, Mapped, Holding, Running
    <2>. QED
      BY <2>1, <2>2
  <1>6. ASSUME NEW q \in Process PROVE Faulting(q)'
    <2>1. CASE q = p
      BY <2>1, <1>1, <1>2a, <1>2b, <1>2d, Constants
         DEF IInv, TypeOK, Faulting, Holding, Running
    <2>2. CASE q # p
      BY <2>2, <1>1, <1>2a, <1>2b, <1>2d, Constants
         DEF IInv, TypeOK, Faulting, Holding, Running
    <2>. QED
      BY <2>1, <2>2
  <1>7. ASSUME NEW q \in Process PROVE Forking(q)'
    <2>1. CASE q = p
      BY <2>1, <1>1, <1>2a, <1>2b, <1>2d, Constants, OtherChild
         DEF IInv, TypeOK, Forking, Holding, Running
    <2>2. CASE q # p
      BY <2>2, <1>1, <1>2a, <1>2b, <1>2d, Constants, OtherChild
         DEF IInv, TypeOK, Forking, Holding, Running
    <2>. QED
      BY <2>1, <2>2
  <1>8. OneParent'
    BY <1>1, Constants DEF IInv, TypeOK, OneParent
  <1>. QED
    BY <1>2, <1>3, <1>4, <1>5, <1>6, <1>7, <1>8 DEF IInv

-----------------------------------------------------------------------------

(* The tables of the special pages, and the frames the first process has   *)
(* them in.                                                                *)
SpecialTables == {Pdi(va) : va \in Special}
Rank(i) == 1 + Cardinality({j \in SpecialTables : j < i})

(* There are finitely many, and they fit.                                  *)
LEMMA SpecialTablesAreFinite ==
    /\ SpecialTables \subseteq Directory
    /\ IsFiniteSet(SpecialTables)
    /\ Cardinality(SpecialTables) \in Nat
    /\ 1 + Cardinality(SpecialTables) <= Limit
  <1>1. SpecialTables \subseteq Directory
    BY Constants DEF SpecialTables
  <1>2. \A i \in SpecialTables : i <= Pages
    <2>. SUFFICES ASSUME NEW va \in Special PROVE Pdi(va) <= Pages
      BY DEF SpecialTables
    <2>1. /\ va \in Nat /\ va <= Pages - 1 /\ PerTable \in Nat /\ PerTable # 0
          /\ Pages \in Nat
      BY AddressSpaceAssumption
    <2>. DEFINE q == va \div PerTable
                r == va % PerTable
    <2>2. q \in Nat /\ r \in Nat
      BY <2>1
    <2>3. va = r + PerTable * q
      BY <2>1
    <2>. HIDE DEF q, r
    <2>4. PerTable * q >= q
      BY <2>1, <2>2
    <2>5. q <= va
      <3>1. PerTable * q \in Nat
        BY <2>1, <2>2
      <3>. QED
        BY <2>1, <2>2, <2>3, <2>4, <3>1
    <2>. QED
      BY <2>1, <2>2, <2>5 DEF q, Pdi
  <1>3. IsFiniteSet(SpecialTables)
    BY <1>1, <1>2, Constants, FS_BoundedSetOfNaturals
  <1>. QED
    BY <1>1, <1>3, FS_CardinalityType, AddressSpaceAssumption DEF SpecialTables

(* They are in different frames, next to each other.                       *)
LEMMA RanksAreFrames ==
    /\ \A i \in SpecialTables : Rank(i) \in Nat /\ Rank(i) > 0 /\ Rank(i) <= Cardinality(SpecialTables)
    /\ \A i, j \in SpecialTables : Rank(i) = Rank(j) => i = j
    /\ \A n \in 1..Cardinality(SpecialTables) : \E i \in SpecialTables : Rank(i) = n
  <1>. DEFINE D == SpecialTables
              Below(i) == {j \in D : j < i}
              n == Cardinality(D)
  <1>1. IsFiniteSet(D) /\ n \in Nat /\ \A i \in D : i \in Nat
    BY SpecialTablesAreFinite, Constants
  <1>2. \A i \in D : Below(i) \in SUBSET D /\ i \notin Below(i)
    BY <1>1
  <1>3. ASSUME NEW i \in D, NEW j \in D, i < j
        PROVE  Below(i) \in SUBSET Below(j) /\ i \in Below(j)
    <2>1. \A x \in D : x < i => x < j
      BY <1>1, <1>3
    <2>. QED
      BY <1>3, <2>1
  <1>. HIDE DEF Below, D
  <1>4. \A i \in D : IsFiniteSet(Below(i)) /\ Cardinality(Below(i)) \in Nat
    BY <1>1, <1>2, FS_Subset, FS_CardinalityType
  <1>5. \A i \in D : Cardinality(Below(i)) < n
    <2>. TAKE i \in D
    <2>1. Cardinality(Below(i)) <= n /\ (n = Cardinality(Below(i)) => D = Below(i))
      BY <1>1, <1>2, FS_Subset
    <2>. QED
      BY <1>1, <1>2, <1>4, <2>1
  <1>6. ASSUME NEW i \in D, NEW j \in D, i < j
        PROVE  Cardinality(Below(i)) # Cardinality(Below(j))
    <2>1. Below(i) \in SUBSET Below(j) /\ i \in Below(j)
      BY <1>3, <1>6
    <2>2. Cardinality(Below(j)) = Cardinality(Below(i)) => Below(j) = Below(i)
      BY <1>4, <2>1, FS_Subset
    <2>. QED
      BY <1>2, <2>1, <2>2
  <1>7. \A i \in D : Rank(i) = 1 + Cardinality(Below(i))
    BY DEF Rank, Below, D
  <1>8. \A i \in D : Rank(i) \in Nat /\ Rank(i) > 0 /\ Rank(i) <= n
    BY <1>1, <1>4, <1>5, <1>7
  <1>9. ASSUME NEW i \in D, NEW j \in D, Rank(i) = Rank(j) PROVE i = j
    <2>1. Cardinality(Below(i)) = Cardinality(Below(j))
      BY <1>4, <1>7, <1>9
    <2>2. i \in Nat /\ j \in Nat
      BY <1>1
    <2>. QED
      BY <1>6, <2>1, <2>2
  <1>10. ASSUME NEW m \in 1..n PROVE \E i \in D : Rank(i) = m
    <2>. DEFINE f == [i \in D |-> Rank(i)]
                T == 1..n
    <2>1. f \in Injection(D, T)
      BY <1>1, <1>8, <1>9 DEF Injection, IsInjective
    <2>2. IsFiniteSet(T) /\ Cardinality(T) = n
      <3>1. /\ IsFiniteSet(1..n)
            /\ Cardinality(1..n) = IF 1 > n THEN 0 ELSE n - 1 + 1
        BY <1>1, FS_Interval
      <3>. QED
        BY <3>1, <1>1
    <2>3. Cardinality(D) = Cardinality(T)
      BY <2>2
    <2>. HIDE DEF f
    <2>4. f \in Surjection(D, T)
      <3>. HIDE DEF T, n
      <3>. QED
        BY <2>1, <2>2, <2>3, FS_Injection
    <2>5. \E i \in D : f[i] = m
      BY <2>4 DEF Surjection
    <2>. QED
      BY <2>5 DEF f
  <1>. QED
    BY <1>8, <1>9, <1>10 DEF D

(* The first process, just constructed, holds every frame allocated so     *)
(* far.                                                                    *)
LEMMA InitHolds == Init => IInv
  <1>. SUFFICES ASSUME Init PROVE IInv
    OBVIOUS
  <1>. DEFINE D == SpecialTables
  <1>1. /\ free = <<>> /\ avail = 1 + Cardinality(D)
        /\ content = [f \in Frame |-> Zero]
        /\ pd = [p \in Process |-> IF p = First THEN 0 ELSE None]
        /\ table = [p \in Process |-> [i \in Directory |->
                      IF p = First /\ i \in D THEN Rank(i) ELSE None]]
        /\ page = [p \in Process |-> [va \in Page |->
                      IF p = First /\ va \in Special THEN Device ELSE None]]
        /\ pc = [p \in Process |-> IF p = First THEN "user" ELSE "absent"]
        /\ child = [p \in Process |-> None] /\ va_ = [p \in Process |-> None]
        /\ pa = [p \in Process |-> None] /\ halted = FALSE
    BY DEF Init, SpecialTables, Rank, IsSpecial
  <1>2. /\ Cardinality(D) \in Nat /\ 1 + Cardinality(D) <= Limit /\ D \subseteq Directory
        /\ Limit \in Nat /\ First \in Process
    BY SpecialTablesAreFinite, Constants, AddressSpaceAssumption
  <1>3. \A i \in D : Rank(i) \in Frame /\ Rank(i) # 0 /\ Rank(i) <= Cardinality(D)
    BY <1>2, RanksAreFrames DEF Frame
  <1>4. 0 \in Frame
    BY <1>2 DEF Frame
  <1>. HIDE DEF D
  <1>5. TypeOK
    <2>1. avail \in 0..Limit /\ free \in Seq(Frame)
      BY <1>1, <1>2
    <2>2. content \in [Frame -> Value \cup {Junk}] /\ halted \in BOOLEAN
      BY <1>1, Constants
    <2>3. /\ pd \in [Process -> Frame \cup {None}] /\ pa \in [Process -> Frame \cup {None}]
          /\ child \in [Process -> Process \cup {None}] /\ va_ \in [Process -> Page \cup {None}]
          /\ pc \in [Process -> Label]
      BY <1>1, <1>4 DEF Label, Running
    <2>4. table \in [Process -> [Directory -> Frame \cup {None}]]
      BY <1>1, <1>3
    <2>5. page \in [Process -> [Page -> Frame \cup {None, Device}]]
      BY <1>1
    <2>. QED
      BY <2>1, <2>2, <2>3, <2>4, <2>5 DEF TypeOK
  <1>6. /\ held[<<"directory", First>>] = 0
        /\ \A i \in D : held[<<"table", <<First, i>>>>] = Rank(i)
    BY <1>1, <1>2, Held
  <1>7. ASSUME NEW s \in Slot, held[s] \in Frame
        PROVE  \/ s = <<"directory", First>>
               \/ \E i \in D : s = <<"table", <<First, i>>>>
    <2>1. ASSUME NEW p \in Process, s = <<"directory", p>> PROVE s = <<"directory", First>>
      BY <1>1, <1>7, <2>1, Held, Constants
    <2>2. ASSUME NEW p \in Process, s = <<"hand", p>> PROVE FALSE
      BY <1>1, <1>7, <2>2, Held, Constants
    <2>3. ASSUME NEW p \in Process, NEW i \in Directory, s = <<"table", <<p, i>>>>
          PROVE  p = First /\ i \in D
      BY <1>1, <1>7, <2>3, Held, Constants
    <2>4. ASSUME NEW p \in Process, NEW va \in Page, s = <<"page", <<p, va>>>> PROVE FALSE
      BY <1>1, <1>7, <2>4, Held, Constants
    <2>. QED
      BY <2>1, <2>2, <2>3, <2>4, SlotKinds
  <1>8. Owned
    <2>1. ASSUME NEW s \in Slot, held[s] \in Frame PROVE held[s] < avail
      <3>1. CASE s = <<"directory", First>>
        BY <3>1, <1>1, <1>2, <1>6
      <3>2. ASSUME NEW i \in D, s = <<"table", <<First, i>>>> PROVE held[s] < avail
        <4>1. held[s] = Rank(i) /\ Rank(i) \in Nat /\ Rank(i) <= Cardinality(D)
          BY <3>2, <1>6, RanksAreFrames DEF D
        <4>. QED
          BY <4>1, <1>1, <1>2
      <3>. QED
        BY <3>1, <3>2, <2>1, <1>7
    <2>2. ASSUME NEW s \in Slot, NEW t \in Slot, held[s] \in Frame, held[s] = held[t]
          PROVE  s = t
      <3>1. CASE s = <<"directory", First>>
        BY <3>1, <2>2, <1>3, <1>6, <1>7
      <3>2. ASSUME NEW i \in D, s = <<"table", <<First, i>>>> PROVE s = t
        <4>1. t # <<"directory", First>>
          BY <3>2, <2>2, <1>3, <1>6
        <4>2. PICK j \in D : t = <<"table", <<First, j>>>>
          BY <4>1, <2>2, <1>7
        <4>3. Rank(i) = Rank(j)
          BY <4>2, <3>2, <2>2, <1>6
        <4>. QED
          BY <4>2, <4>3, <3>2, RanksAreFrames DEF D
      <3>. QED
        BY <3>1, <3>2, <2>2, <1>7
    <2>3. ASSUME NEW f \in Frame, f < avail PROVE \E s \in Slot : held[s] = f
      <3>1. CASE f = 0
        BY <3>1, <1>2, <1>6, SlotKinds
      <3>2. CASE f # 0
        <4>1. f \in 1..Cardinality(D)
          BY <3>2, <2>3, <1>1, <1>2 DEF Frame
        <4>2. PICK i \in D : Rank(i) = f
          BY <4>1, RanksAreFrames DEF D
        <4>3. <<"table", <<First, i>>>> \in Slot
          BY <1>2, SlotKinds
        <4>. QED
          BY <4>2, <4>3, <1>6
      <3>. QED
        BY <3>1, <3>2
    <2>4. free = <<>> /\ Len(free) = 0 /\ free \in Seq(Frame) /\ avail \in 0..Limit
      BY <1>1, <1>5 DEF TypeOK
    <2>. QED
      BY <2>1, <2>2, <2>3, <2>4 DEF Owned, Conserved
  <1>9. ASSUME NEW p \in Process PROVE Holding(p) /\ Mapped(p) /\ Faulting(p) /\ Forking(p)
    <2>1. Holding(p)
      <3>1. pc[p] = "absent" => p # First
        BY <1>1
      <3>2. pd[p] = None <=> pc[p] = "absent"
        BY <1>1, <1>4, Constants
      <3>3. pa[p] = None /\ pc[p] # "map"
        BY <1>1
      <3>4. p # First => /\ \A i \in Directory : table[p][i] = None
                         /\ \A va \in Page : page[p][va] = None
        BY <1>1
      <3>. QED
        BY <3>1, <3>2, <3>3, <3>4 DEF Holding
    <2>2. Mapped(p)
      <3>1. \A va \in Special : page[p][va] \notin Frame
        BY <1>1, Constants
      <3>2. \A va \in Page \ Special : page[p][va] # Device
        BY <1>1, Constants
      <3>3. ASSUME NEW va \in Page, page[p][va] # None PROVE table[p][Pdi(va)] # None
        <4>1. p = First /\ va \in Special
          BY <1>1, <3>3
        <4>2. Pdi(va) \in D /\ Pdi(va) \in Directory
          BY <4>1, <1>2 DEF D, SpecialTables
        <4>. QED
          BY <4>1, <4>2, <1>1, <1>3, Constants
      <3>4. pc[p] \in Running => \A va \in Special : page[p][va] = Device
        BY <1>1, Constants DEF Running
      <3>. QED
        BY <3>1, <3>2, <3>3, <3>4 DEF Mapped
    <2>3. Faulting(p) /\ Forking(p)
      BY <1>1 DEF Faulting, Forking
    <2>. QED
      BY <2>1, <2>2, <2>3
  <1>10. OneParent
    BY <1>1 DEF OneParent
  <1>. QED
    BY <1>5, <1>8, <1>9, <1>10 DEF IInv

(* Every step keeps the invariant.                                         *)
LEMMA NextKeeps == IInv /\ [Next]_vars => IInv'
  <1>. SUFFICES ASSUME IInv, [Next]_vars PROVE IInv'
    OBVIOUS
  <1>1. ASSUME NEW p \in Process, User(p) \/ Fork(p) \/ Delete(p) \/ Panic(p)
        PROVE  IInv'
    BY <1>1, StoreKeeps, PageFaultKeeps, MapTableKeeps, MapKeeps,
       ExitKeeps, MakePdKeeps, MapSpecialTableKeeps, MapSpecialKeeps,
       CopyTableKeeps, CopyPageKeeps, ForkedKeeps, ExecKeeps,
       ClearPageKeeps, ClearTableKeeps, ClearedKeeps, ReapKeeps,
       DeletePageKeeps, DeleteTableKeeps, DeletePdKeeps, PanicKeeps DEF User, Fork, Delete
  <1>2. CASE UNCHANGED vars
    BY <1>2 DEF vars, frames, tables, IInv, TypeOK, Owned, held, Holding, Mapped,
                Faulting, Forking, OneParent
  <1>. QED
    BY <1>1, <1>2 DEF Next

(* The invariant holds throughout.                                         *)
LEMMA Invariant == Spec => []IInv
  BY InitHolds, NextKeeps, PTL DEF Spec

(* What FramesConserved counts are the slots and the places in the free    *)
(* list.                                                                   *)
LEMMA UsesAreSlots ==
    ASSUME IInv, NEW f \in Frame
    PROVE  /\ \A u \in Uses(f) : \/ u \in Slot /\ held[u] = f
                                 \/ \E i \in 1..Len(free) : free[i] = f /\ u = <<"free", i>>
           /\ \A s \in Slot : held[s] = f => s \in Uses(f)
           /\ \A i \in 1..Len(free) : free[i] = f => <<"free", i>> \in Uses(f)
  <1>1. ASSUME NEW u \in Uses(f)
        PROVE  \/ u \in Slot /\ held[u] = f
               \/ \E i \in 1..Len(free) : free[i] = f /\ u = <<"free", i>>
    <2>1. \/ \E i \in 1..Len(free) : free[i] = f /\ u = <<"free", i>>
          \/ \E p \in Process : pd[p] = f /\ u = <<"directory", p>>
          \/ \E y \in Process \X Directory : table[y[1]][y[2]] = f /\ u = <<"table", y>>
          \/ \E y \in Process \X Page : page[y[1]][y[2]] = f /\ u = <<"page", y>>
          \/ \E p \in Process : pa[p] = f /\ u = <<"hand", p>>
      BY DEF Uses
    <2>2. CASE \E y \in Process \X Directory : table[y[1]][y[2]] = f /\ u = <<"table", y>>
      <3>1. PICK y \in Process \X Directory : table[y[1]][y[2]] = f /\ u = <<"table", y>>
        BY <2>2
      <3>2. y = <<y[1], y[2]>> /\ y[1] \in Process /\ y[2] \in Directory
        OBVIOUS
      <3>. QED
        BY <3>1, <3>2, SlotKinds, Held
    <2>3. CASE \E y \in Process \X Page : page[y[1]][y[2]] = f /\ u = <<"page", y>>
      <3>1. PICK y \in Process \X Page : page[y[1]][y[2]] = f /\ u = <<"page", y>>
        BY <2>3
      <3>2. y = <<y[1], y[2]>> /\ y[1] \in Process /\ y[2] \in Page
        OBVIOUS
      <3>. QED
        BY <3>1, <3>2, SlotKinds, Held
    <2>. QED
      BY <2>1, <2>2, <2>3, SlotKinds, Held
  <1>2. ASSUME NEW s \in Slot, held[s] = f PROVE s \in Uses(f)
    <2>1. ASSUME NEW p \in Process, s = <<"directory", p>> PROVE s \in Uses(f)
      BY <1>2, <2>1, Held DEF Uses
    <2>2. ASSUME NEW p \in Process, s = <<"hand", p>> PROVE s \in Uses(f)
      BY <1>2, <2>2, Held DEF Uses
    <2>3. ASSUME NEW p \in Process, NEW i \in Directory, s = <<"table", <<p, i>>>>
          PROVE  s \in Uses(f)
      <3>1. <<p, i>> \in {y \in Process \X Directory : table[y[1]][y[2]] = f}
        BY <1>2, <2>3, Held
      <3>. QED
        BY <2>3, <3>1 DEF Uses
    <2>4. ASSUME NEW p \in Process, NEW va \in Page, s = <<"page", <<p, va>>>>
          PROVE  s \in Uses(f)
      <3>1. <<p, va>> \in {y \in Process \X Page : page[y[1]][y[2]] = f}
        BY <1>2, <2>4, Held
      <3>. QED
        BY <2>4, <3>1 DEF Uses
    <2>. QED
      BY <2>1, <2>2, <2>3, <2>4, SlotKinds
  <1>3. \A i \in 1..Len(free) : free[i] = f => <<"free", i>> \in Uses(f)
    BY DEF Uses
  <1>. QED
    BY <1>1, <1>2, <1>3

(* For any number of processes, pages, special pages and frames, and       *)
(* however faults, forks, execs and exits on different cores interleave: a *)
(* frame alloc_frame ever returned is in exactly one place, the free list, *)
(* one entry of one table, or the hands of one page fault; and every       *)
(* process that may run has the APICs mapped.  vmm.cc keeps no count of    *)
(* the uses of a frame, so nothing but this makes it safe to free one.     *)
THEOREM FramesAreConserved == Spec => []FramesConserved
  <1>1. IInv => FramesConserved
    <2>. SUFFICES ASSUME IInv PROVE FramesConserved
      OBVIOUS
    <2>1. ASSUME NEW f \in Frame PROVE Cardinality(Uses(f)) = IF f < avail THEN 1 ELSE 0
      <3>1. CASE ~ (f < avail)
        <4>1. Uses(f) = {}
          BY <3>1, UsesAreSlots DEF IInv, Owned, Conserved
        <4>. QED
          BY <3>1, <4>1, FS_EmptySet
      <3>2. CASE f < avail
        <4>1. CASE \E i \in 1..Len(free) : free[i] = f
          <5>1. PICK i \in 1..Len(free) : free[i] = f
            BY <4>1
          <5>2. \A u \in Uses(f) : u = <<"free", i>>
            BY <5>1, UsesAreSlots DEF IInv, Owned, Conserved
          <5>3. Uses(f) = {<<"free", i>>}
            BY <5>1, <5>2, UsesAreSlots
          <5>. QED
            BY <3>2, <5>3, FS_Singleton
        <4>2. CASE \E s \in Slot : held[s] = f
          <5>1. PICK s \in Slot : held[s] = f
            BY <4>2
          <5>2. \A u \in Uses(f) : u = s
            BY <5>1, UsesAreSlots DEF IInv, Owned, Conserved
          <5>3. Uses(f) = {s}
            BY <5>1, <5>2, UsesAreSlots
          <5>. QED
            BY <3>2, <5>3, FS_Singleton
        <4>. QED
          BY <3>2, <4>1, <4>2 DEF IInv, Owned, Conserved
      <3>. QED
        BY <3>1, <3>2
    <2>2. ASSUME NEW p \in Process
          PROVE  /\ pc[p] \in {"user", "map", "fork", "clear"} =>
                       \A va \in Special : page[p][va] = Device
                 /\ \A va \in Page : page[p][va] # None => table[p][Pdi(va)] # None
      BY DEF IInv, Mapped, Running
    <2>. QED
      BY <2>1, <2>2 DEF FramesConserved
  <1>. QED
    BY <1>1, Invariant, PTL

-----------------------------------------------------------------------------

(* The memories that module Memories speaks of.                            *)
Memory ==
    [p \in Process |->
        IF pc[p] \in {"user", "map", "fork", "clear"} THEN Contents(p) ELSE None]

Address == Page \ Special

(* What p reads at va.                                                     *)
Seen(p, va) == IF pc[p] = "clear" \/ page[p][va] = None THEN Zero ELSE content[page[p][va]]

(* The memory of a process, before and after a step.                       *)
LEMMA MemoryIs ==
    ASSUME NEW p \in Process
    PROVE  /\ Memory[p] = IF pc[p] \in Running THEN [va \in Address |-> Seen(p, va)] ELSE None
           /\ Memory'[p] = IF pc'[p] \in Running THEN [va \in Address |-> Seen(p, va)'] ELSE None
  <1>1. Contents(p) = [va \in Address |-> Seen(p, va)]
    BY DEF Contents, Seen, Address
  <1>2. Contents(p)' = [va \in Address |-> Seen(p, va)']
    BY DEF Contents, Seen, Address
  <1>. QED
    BY <1>1, <1>2 DEF Memory, Running

(* Outside the special pages a page has a frame or is not mapped.          *)
LEMMA AddressIsPrivate ==
    ASSUME IInv, NEW p \in Process, NEW va \in Address
    PROVE  va \in Page /\ va \notin Special /\ (page[p][va] \in Frame \/ page[p][va] = None)
  BY Constants DEF IInv, Mapped, TypeOK, Address

(* A process with a program has a memory.                                  *)
LEMMA RunningHasMemory ==
    ASSUME IInv, NEW p \in Process, pc[p] \in Running
    PROVE  Memory[p] # None
  <1>1. \A va \in Address : Seen(p, va) \in Value \cup {Junk}
    BY AddressIsPrivate, Constants DEF Seen, IInv, TypeOK
  <1>2. [va \in Address |-> Seen(p, va)] \in [Address -> Value \cup {Junk}]
    BY <1>1
  <1>. QED
    BY <1>2, MemoryIs, AddressSpaceAssumption DEF Address

(* A step after which a process reads what it read before keeps its        *)
(* memory.                                                                 *)
LEMMA MemoryKept ==
    ASSUME NEW q \in Process, pc[q] \in Running <=> pc'[q] \in Running,
           pc[q] \in Running => \A va \in Address : Seen(q, va)' = Seen(q, va)
    PROVE  Memory'[q] = Memory[q]
  <1>1. CASE pc[q] \in Running
    <2>1. [va \in Address |-> Seen(q, va)'] = [va \in Address |-> Seen(q, va)]
      BY <1>1
    <2>. QED
      BY <1>1, <2>1, MemoryIs
  <1>2. CASE pc[q] \notin Running
    BY <1>2, MemoryIs
  <1>. QED
    BY <1>1, <1>2

(* A step that keeps every memory is a stutter of Memories.                *)
LEMMA Stutters ==
    ASSUME \A q \in Process : Memory'[q] = Memory[q]
    PROVE  Memory' = Memory
  BY DEF Memory

(* alloc_frame clears no page that is mapped ...                           *)
LEMMA AllocKeepsPages ==
    ASSUME IInv, NEW v, AllocFrame(v)
    PROVE  \A q \in Process : \A va \in Page :
             page[q][va] \in Frame => content'[page[q][va]] = content[page[q][va]]
  <1>. SUFFICES ASSUME NEW q \in Process, NEW va \in Page, page[q][va] \in Frame
                PROVE  content'[page[q][va]] = content[page[q][va]]
    OBVIOUS
  <1>1. <<"page", <<q, va>>>> \in Slot /\ held[<<"page", <<q, va>>>>] = page[q][va]
    BY SlotKinds, Held
  <1>2. page[q][va] < avail /\ \A i \in 1..Len(free) : free[i] # page[q][va]
    BY <1>1 DEF IInv, Owned, Conserved
  <1>3. page[q][va] # NewFrame
    <2>1. CASE free # <<>>
      <3>1. NewFrame = free[1] /\ 1 \in 1..Len(free)
        BY <2>1 DEF NewFrame, IInv, TypeOK
      <3>. QED
        BY <3>1, <1>2
    <2>2. CASE free = <<>>
      BY <2>2, <1>2, Constants DEF NewFrame, IInv, TypeOK, Frame
    <2>. QED
      BY <2>1, <2>2
  <1>. QED
    BY <1>3 DEF AllocFrame, IInv, TypeOK

(* ... and dealloc_frame overwrites none but the one that is unmapped.     *)
LEMMA DeallocKeepsPages ==
    ASSUME IInv, NEW s \in Slot, held[s] \in Frame, DeallocFrame(held[s]),
           NEW q \in Process, NEW va \in Page, page[q][va] \in Frame,
           s # <<"page", <<q, va>>>>
    PROVE  content'[page[q][va]] = content[page[q][va]]
  <1>1. <<"page", <<q, va>>>> \in Slot /\ held[<<"page", <<q, va>>>>] = page[q][va]
    BY SlotKinds, Held
  <1>2. page[q][va] # held[s]
    BY <1>1 DEF IInv, Owned, Conserved
  <1>. QED
    BY <1>2 DEF DeallocFrame, IInv, TypeOK

(* Programs notice nothing of what the kernel does on its own account.     *)
LEMMA PageFaultStutters ==
    ASSUME IInv, NEW p \in Process, NEW va \in Page, PageFault(p, va)
    PROVE  Memory' = Memory
  <1>. SUFFICES ASSUME NEW q \in Process PROVE Memory'[q] = Memory[q]
    BY Stutters
  <1>1. /\ AllocFrame(Zero) /\ page' = page /\ pc[p] = "user"
        /\ pc' = [pc EXCEPT ![p] = "map"]
    BY DEF PageFault, Goto, tables
  <1>2. \A w \in Page : page[q][w] \in Frame => content'[page[q][w]] = content[page[q][w]]
    BY <1>1, AllocKeepsPages
  <1>3. pc[q] \in Running <=> pc'[q] \in Running
    BY <1>1 DEF Running, IInv, TypeOK
  <1>4. ASSUME pc[q] \in Running, NEW w \in Address PROVE Seen(q, w)' = Seen(q, w)
    BY <1>1, <1>2, <1>4, AddressIsPrivate DEF Seen, Running, IInv, TypeOK
  <1>. QED
    BY <1>3, <1>4, MemoryKept

(* So does any step that allocates and maps nothing.                       *)
LEMMA AllocStutters ==
    ASSUME IInv, NEW v, AllocFrame(v), page' = page, pc' = pc
    PROVE  Memory' = Memory
  <1>. SUFFICES ASSUME NEW q \in Process PROVE Memory'[q] = Memory[q]
    BY Stutters
  <1>1. \A w \in Page : page[q][w] \in Frame => content'[page[q][w]] = content[page[q][w]]
    BY AllocKeepsPages
  <1>2. \A w \in Address : Seen(q, w)' = Seen(q, w)
    BY <1>1, AddressIsPrivate DEF Seen
  <1>. QED
    BY <1>2, MemoryKept

(* MakePd is a stutter.                                                    *)
LEMMA MakePdStutters ==
    ASSUME IInv, NEW p \in Process, NEW c \in Process, MakePd(p, c)
    PROVE  Memory' = Memory
  <1>. SUFFICES ASSUME NEW q \in Process PROVE Memory'[q] = Memory[q]
    BY Stutters
  <1>1. /\ AllocFrame(Zero) /\ page' = page /\ pc[p] = "user" /\ pc[c] = "absent"
        /\ pc' = [pc EXCEPT ![p] = "fork", ![c] = "made"]
    BY DEF MakePd
  <1>2. \A w \in Page : page[q][w] \in Frame => content'[page[q][w]] = content[page[q][w]]
    BY <1>1, AllocKeepsPages
  <1>3. pc[q] \in Running <=> pc'[q] \in Running
    BY <1>1 DEF Running, IInv, TypeOK
  <1>4. ASSUME pc[q] \in Running, NEW w \in Address PROVE Seen(q, w)' = Seen(q, w)
    BY <1>1, <1>2, <1>4, AddressIsPrivate DEF Seen, Running, IInv, TypeOK
  <1>. QED
    BY <1>3, <1>4, MemoryKept

(* CopyPage is a stutter.                                                  *)
LEMMA CopyPageStutters ==
    ASSUME IInv, NEW p \in Process, CopyPage(p)
    PROVE  Memory' = Memory
  <1>. SUFFICES ASSUME NEW q \in Process PROVE Memory'[q] = Memory[q]
    BY Stutters
  <1>1. /\ pc[p] = "fork" /\ AllocFrame(content[page[p][Min(ToCopy(p))]])
        /\ page' = [page EXCEPT ![child[p]][Min(ToCopy(p))] = NewFrame] /\ pc' = pc
    BY DEF CopyPage, Copying
  <1>2. \A w \in Page : page[q][w] \in Frame => content'[page[q][w]] = content[page[q][w]]
    BY <1>1, AllocKeepsPages
  <1>2a. child[p] \in Process /\ pc[child[p]] = "made"
    BY <1>1, OtherChild
  <1>2b. pc[q] \in Running => page'[q] = page[q]
    BY <1>1, <1>2a DEF Running, IInv, TypeOK
  <1>3. pc[q] \in Running <=> pc'[q] \in Running
    BY <1>1, <1>2b DEF Running, IInv, TypeOK
  <1>4. ASSUME pc[q] \in Running, NEW w \in Address PROVE Seen(q, w)' = Seen(q, w)
    BY <1>1, <1>2, <1>4, <1>2b, AddressIsPrivate DEF Seen, Running, IInv, TypeOK
  <1>. QED
    BY <1>3, <1>4, MemoryKept

(* The page read zero when it was not mapped, and reads zero now: the      *)
(* frame was cleared, and nobody wrote it since.                           *)
LEMMA MapStutters ==
    ASSUME IInv, NEW p \in Process, Map(p)
    PROVE  Memory' = Memory
  <1>. SUFFICES ASSUME NEW q \in Process PROVE Memory'[q] = Memory[q]
    BY Stutters
  <1>1. /\ content' = content /\ pc[p] = "map" /\ pc' = [pc EXCEPT ![p] = "user"]
        /\ page' = [page EXCEPT ![p][va_[p]] = pa[p]]
    BY DEF Map, Goto, frames
  <1>2. va_[p] \in Page /\ page[p][va_[p]] = None /\ content[pa[p]] = Zero
    BY <1>1 DEF IInv, Faulting
  <1>3. pc[q] \in Running <=> pc'[q] \in Running
    BY <1>1, <1>2 DEF Running, IInv, TypeOK
  <1>4. ASSUME pc[q] \in Running, NEW w \in Address PROVE Seen(q, w)' = Seen(q, w)
    BY <1>1, <1>4, <1>2, AddressIsPrivate DEF Seen, Running, IInv, TypeOK
  <1>. QED
    BY <1>3, <1>4, MemoryKept

(* MapSpecial is a stutter.                                                *)
LEMMA MapSpecialStutters ==
    ASSUME IInv, NEW p \in Process, MapSpecial(p)
    PROVE  Memory' = Memory
  <1>. SUFFICES ASSUME NEW q \in Process PROVE Memory'[q] = Memory[q]
    BY Stutters
  <1>1. /\ content' = content /\ pc[p] = "fork" /\ pc' = pc
        /\ page' = [page EXCEPT ![child[p]][Min(UnmappedSpecial(child[p]))] = Device]
    BY DEF MapSpecial, frames
  <1>2a. child[p] \in Process /\ pc[child[p]] = "made"
    BY <1>1, OtherChild
  <1>2b. pc[q] \in Running => page'[q] = page[q]
    BY <1>1, <1>2a DEF Running, IInv, TypeOK
  <1>3. pc[q] \in Running <=> pc'[q] \in Running
    BY <1>1, <1>2b DEF Running, IInv, TypeOK
  <1>4. ASSUME pc[q] \in Running, NEW w \in Address PROVE Seen(q, w)' = Seen(q, w)
    BY <1>1, <1>4, <1>2b, AddressIsPrivate DEF Seen, Running, IInv, TypeOK
  <1>. QED
    BY <1>3, <1>4, MemoryKept

(* Reap is a stutter.                                                      *)
LEMMA ReapStutters ==
    ASSUME IInv, NEW p \in Process, Reap(p)
    PROVE  Memory' = Memory
  <1>. SUFFICES ASSUME NEW q \in Process PROVE Memory'[q] = Memory[q]
    BY Stutters
  <1>1. /\ content' = content /\ page' = page /\ pc[p] = "exited"
        /\ pc' = [pc EXCEPT ![p] = "delete"]
    BY DEF Reap, Goto, frames, tables
  <1>3. pc[q] \in Running <=> pc'[q] \in Running
    BY <1>1 DEF Running, IInv, TypeOK
  <1>4. ASSUME pc[q] \in Running, NEW w \in Address PROVE Seen(q, w)' = Seen(q, w)
    BY <1>1, <1>4, AddressIsPrivate DEF Seen, Running, IInv, TypeOK
  <1>. QED
    BY <1>3, <1>4, MemoryKept

(* Panic is a stutter.                                                     *)
LEMMA PanicStutters ==
    ASSUME IInv, NEW p \in Process, Panic(p)
    PROVE  Memory' = Memory
  <1>. SUFFICES ASSUME NEW q \in Process PROVE Memory'[q] = Memory[q]
    BY Stutters
  <1>1. content' = content /\ page' = page /\ pc' = pc
    BY DEF Panic, frames, tables
  <1>3. pc[q] \in Running <=> pc'[q] \in Running
    BY <1>1 DEF Running, IInv, TypeOK
  <1>4. ASSUME pc[q] \in Running, NEW w \in Address PROVE Seen(q, w)' = Seen(q, w)
    BY <1>1, <1>4, AddressIsPrivate DEF Seen, Running, IInv, TypeOK
  <1>. QED
    BY <1>3, <1>4, MemoryKept

(* When delete_private is done no private page is left.                    *)
LEMMA ClearedStutters ==
    ASSUME IInv, NEW p \in Process, Cleared(p)
    PROVE  Memory' = Memory
  <1>. SUFFICES ASSUME NEW q \in Process PROVE Memory'[q] = Memory[q]
    BY Stutters
  <1>1. /\ content' = content /\ page' = page /\ pc[p] = "clear" /\ ToClear(p) = {}
        /\ pc' = [pc EXCEPT ![p] = "user"]
    BY DEF Cleared, Goto, frames, tables
  <1>2. ASSUME NEW w \in Address PROVE page[p][w] = None
    <2>1. w \in Page /\ Pdi(w) \in Directory /\ (page[p][w] \in Frame \/ page[p][w] = None)
      BY AddressIsPrivate, Constants
    <2>2. PrivatePages(p, Pdi(w)) = {}
      BY <1>1, <2>1 DEF ToClear
    <2>. QED
      BY <2>1, <2>2 DEF PrivatePages
  <1>3. pc[q] \in Running <=> pc'[q] \in Running
    BY <1>1, <1>2 DEF Running, IInv, TypeOK
  <1>4. ASSUME pc[q] \in Running, NEW w \in Address PROVE Seen(q, w)' = Seen(q, w)
    BY <1>1, <1>4, <1>2, AddressIsPrivate DEF Seen, Running, IInv, TypeOK
  <1>. QED
    BY <1>3, <1>4, MemoryKept

(* Freeing a frame of a process that has discarded its program shows       *)
(* nowhere.                                                                *)
LEMMA FreeStutters ==
    ASSUME IInv, NEW p \in Process, pc[p] \in {"clear", "delete"},
           pc[p] = "clear" => pc'[p] = "clear", pc[p] = "delete" => pc'[p] \notin Running,
           \A q \in Process : q # p => pc'[q] = pc[q],
           NEW s \in Slot, held[s] \in Frame, DeallocFrame(held[s]),
           \A q \in Process, w \in Page : s = <<"page", <<q, w>>>> => q = p,
           \A q \in Process : q # p => page'[q] = page[q]
    PROVE  Memory' = Memory
  <1>. SUFFICES ASSUME NEW q \in Process PROVE Memory'[q] = Memory[q]
    BY Stutters
  <1>1. pc[q] \in Running <=> pc'[q] \in Running
    BY DEF Running, IInv, TypeOK
  <1>2. CASE q = p
    <2>1. ASSUME pc[q] \in Running, NEW w \in Address PROVE Seen(q, w)' = Seen(q, w)
      <3>1. pc[q] = "clear" /\ pc'[q] = "clear"
        BY <1>2, <2>1 DEF Running
      <3>. QED
        BY <3>1 DEF Seen
    <2>. QED
      BY <1>1, <2>1, MemoryKept
  <1>3. CASE q # p
    <2>1. \A w \in Page : page[q][w] \in Frame => content'[page[q][w]] = content[page[q][w]]
      BY <1>3, DeallocKeepsPages
    <2>2. pc'[q] = pc[q]
      BY <1>3 DEF IInv, TypeOK
    <2>3. \A w \in Address : Seen(q, w)' = Seen(q, w)
      BY <1>3, <2>1, <2>2, AddressIsPrivate DEF Seen
    <2>. QED
      BY <1>1, <2>3, MemoryKept
  <1>. QED
    BY <1>2, <1>3

(* ClearPage is a stutter.                                                 *)
LEMMA ClearPageStutters ==
    ASSUME IInv, NEW p \in Process, ClearPage(p)
    PROVE  Memory' = Memory
  <1>1. PICK va \in Page : TakesPage(p, va)
    BY PrivatePageIsThere DEF ClearPage, TakesPage
  <1>. DEFINE s == <<"page", <<p, va>>>>
  <1>2. s \in Slot /\ held[s] = page[p][va]
    BY SlotKinds, Held
  <1>3. \A q \in Process, w \in Page : s = <<"page", <<q, w>>>> => q = p
    OBVIOUS
  <1>4. \A q \in Process : q # p => page'[q] = page[q]
    BY <1>1 DEF TakesPage, IInv, TypeOK
  <1>5. /\ pc[p] \in {"clear", "delete"} /\ \A q \in Process : pc'[q] = pc[q]
        /\ held[s] \in Frame /\ DeallocFrame(held[s])
    BY <1>1, <1>2 DEF TakesPage
  <1>. HIDE DEF s
  <1>. QED
    BY <1>2, <1>3, <1>4, <1>5, FreeStutters DEF Running

(* DeletePage is a stutter.                                                *)
LEMMA DeletePageStutters ==
    ASSUME IInv, NEW p \in Process, DeletePage(p)
    PROVE  Memory' = Memory
  <1>1. PICK va \in Page : TakesPage(p, va)
    BY PrivatePageIsThere DEF DeletePage, TakesPage
  <1>. DEFINE s == <<"page", <<p, va>>>>
  <1>2. s \in Slot /\ held[s] = page[p][va]
    BY SlotKinds, Held
  <1>3. \A q \in Process, w \in Page : s = <<"page", <<q, w>>>> => q = p
    OBVIOUS
  <1>4. \A q \in Process : q # p => page'[q] = page[q]
    BY <1>1 DEF TakesPage, IInv, TypeOK
  <1>5. /\ pc[p] \in {"clear", "delete"} /\ \A q \in Process : pc'[q] = pc[q]
        /\ held[s] \in Frame /\ DeallocFrame(held[s])
    BY <1>1, <1>2 DEF TakesPage
  <1>. HIDE DEF s
  <1>. QED
    BY <1>2, <1>3, <1>4, <1>5, FreeStutters DEF Running

(* ClearTable is a stutter.                                                *)
LEMMA ClearTableStutters ==
    ASSUME IInv, NEW p \in Process, ClearTable(p)
    PROVE  Memory' = Memory
  <1>1. PICK i \in Directory : TakesTable(p, i)
    BY ClearTableTakes
  <1>. DEFINE s == <<"table", <<p, i>>>>
  <1>2. s \in Slot /\ held[s] = table[p][i]
    BY SlotKinds, Held
  <1>3. \A q \in Process, w \in Page : s = <<"page", <<q, w>>>> => q = p
    OBVIOUS
  <1>4. \A q \in Process : q # p => page'[q] = page[q]
    BY <1>1 DEF TakesTable, IInv, TypeOK
  <1>5. /\ pc[p] \in {"clear", "delete"} /\ \A q \in Process : pc'[q] = pc[q]
        /\ held[s] \in Frame /\ DeallocFrame(held[s])
    BY <1>1, <1>2 DEF TakesTable
  <1>. HIDE DEF s
  <1>. QED
    BY <1>2, <1>3, <1>4, <1>5, FreeStutters DEF Running

(* DeleteTable is a stutter.                                               *)
LEMMA DeleteTableStutters ==
    ASSUME IInv, NEW p \in Process, DeleteTable(p)
    PROVE  Memory' = Memory
  <1>1. PICK i \in Directory : DropsTable(p, i)
    BY DeleteTableTakes
  <1>. DEFINE s == <<"table", <<p, i>>>>
  <1>2. s \in Slot /\ held[s] = table[p][i]
    BY SlotKinds, Held
  <1>3. \A q \in Process, w \in Page : s = <<"page", <<q, w>>>> => q = p
    OBVIOUS
  <1>4. \A q \in Process : q # p => page'[q] = page[q]
    BY <1>1 DEF DropsTable, IInv, TypeOK
  <1>5. /\ pc[p] \in {"clear", "delete"} /\ \A q \in Process : pc'[q] = pc[q]
        /\ held[s] \in Frame /\ DeallocFrame(held[s])
    BY <1>1, <1>2 DEF DropsTable
  <1>. HIDE DEF s
  <1>. QED
    BY <1>2, <1>3, <1>4, <1>5, FreeStutters DEF Running

(* DeletePd is a stutter.                                                  *)
LEMMA DeletePdStutters ==
    ASSUME IInv, NEW p \in Process, DeletePd(p)
    PROVE  Memory' = Memory
  <1>1. /\ pc[p] = "delete" /\ DeallocFrame(pd[p]) /\ page' = page
        /\ pc' = [pc EXCEPT ![p] = "absent"]
    BY DEF DeletePd, Goto
  <1>. DEFINE s == <<"directory", p>>
  <1>2. s \in Slot /\ held[s] = pd[p] /\ pd[p] \in Frame
    BY <1>1, SlotKinds, Held DEF IInv, Holding, TypeOK
  <1>3. \A q \in Process, w \in Page : s = <<"page", <<q, w>>>> => q = p
    OBVIOUS
  <1>4. /\ pc'[p] \notin Running /\ \A q \in Process : q # p => pc'[q] = pc[q]
        /\ DeallocFrame(held[s]) /\ held[s] \in Frame
    BY <1>1, <1>2 DEF Running, IInv, TypeOK
  <1>. HIDE DEF s
  <1>. QED
    BY <1>1, <1>2, <1>3, <1>4, FreeStutters

(* A store shows at its page and nowhere else, in no process.              *)
LEMMA StoreImplements ==
    ASSUME IInv, NEW p \in Process, NEW va \in Page, NEW v \in Value, Store(p, va, v)
    PROVE  va \in Address /\ M!Store(p, va, v)
  <1>1. /\ pc[p] = "user" /\ page[p][va] \in Frame /\ page' = page /\ pc' = pc
        /\ content' = [content EXCEPT ![page[p][va]] = v]
    BY DEF Store, tables
  <1>2. va \in Address
    BY <1>1 DEF IInv, Mapped, Address
  <1>3. Memory[p] # None
    BY <1>1, RunningHasMemory DEF Running
  <1>4. ASSUME NEW q \in Process, q # p PROVE Memory'[q] = Memory[q]
    <2>1. \A w \in Address : page[q][w] \in Frame => content'[page[q][w]] = content[page[q][w]]
      <3>. SUFFICES ASSUME NEW w \in Address, page[q][w] \in Frame
                    PROVE  content'[page[q][w]] = content[page[q][w]]
        OBVIOUS
      <3>1. page[q][w] # page[p][va]
        BY <1>1, <1>4, InOnePage, AddressIsPrivate DEF IInv
      <3>. QED
        BY <1>1, <3>1 DEF IInv, TypeOK
    <2>2. \A w \in Address : Seen(q, w)' = Seen(q, w)
      BY <1>1, <2>1, AddressIsPrivate DEF Seen
    <2>. QED
      BY <1>1, <2>2, MemoryKept
  <1>5. Memory'[p] = [Memory[p] EXCEPT ![va] = v]
    <2>1. ASSUME NEW w \in Address PROVE Seen(p, w)' = IF w = va THEN v ELSE Seen(p, w)
      <3>1. CASE w = va
        BY <1>1, <3>1, Constants DEF Seen, IInv, TypeOK
      <3>2. CASE w # va
        <4>1. page[p][w] \in Frame => page[p][w] # page[p][va]
          BY <1>1, <3>2, InOnePage, AddressIsPrivate DEF IInv
        <4>. QED
          BY <1>1, <3>2, <4>1, AddressIsPrivate DEF Seen, IInv, TypeOK
      <3>. QED
        BY <3>1, <3>2
    <2>2. /\ Memory[p] = [w \in Address |-> Seen(p, w)]
          /\ Memory'[p] = [w \in Address |-> Seen(p, w)']
      BY <1>1, MemoryIs DEF Running
    <2>. QED
      BY <1>2, <2>1, <2>2
  <1>6. Memory' = [Memory EXCEPT ![p][va] = v]
    BY <1>4, <1>5 DEF Memory
  <1>. QED
    BY <1>2, <1>3, <1>6 DEF M!Store, Memory

(* exit ends the memory.                                                   *)
LEMMA ExitImplements ==
    ASSUME IInv, NEW p \in Process, Exit(p)
    PROVE  M!Exit(p)
  <1>1. /\ pc[p] = "user" /\ page' = page /\ content' = content
        /\ pc' = [pc EXCEPT ![p] = "exited"]
    BY DEF Exit, Goto, frames, tables
  <1>2. Memory[p] # None
    BY <1>1, RunningHasMemory DEF Running
  <1>3. ASSUME NEW q \in Process, q # p PROVE Memory'[q] = Memory[q]
    <2>1. \A w \in Address : Seen(q, w)' = Seen(q, w)
      BY <1>1, <1>3 DEF Seen, IInv, TypeOK
    <2>. QED
      BY <1>1, <1>3, <2>1, MemoryKept DEF IInv, TypeOK
  <1>4. Memory'[p] = None
    BY <1>1, MemoryIs DEF Running, IInv, TypeOK
  <1>5. Memory' = [Memory EXCEPT ![p] = None]
    BY <1>3, <1>4 DEF Memory
  <1>. QED
    BY <1>2, <1>5 DEF M!Exit, Memory

(* exec leaves nothing of the old program.                                 *)
LEMMA ExecImplements ==
    ASSUME IInv, NEW p \in Process, Exec(p)
    PROVE  M!Exec(p)
  <1>1. /\ pc[p] = "user" /\ page' = page /\ content' = content
        /\ pc' = [pc EXCEPT ![p] = "clear"]
    BY DEF Exec, Goto, frames, tables
  <1>2. Memory[p] # None
    BY <1>1, RunningHasMemory DEF Running
  <1>3. ASSUME NEW q \in Process, q # p PROVE Memory'[q] = Memory[q]
    <2>1. \A w \in Address : Seen(q, w)' = Seen(q, w)
      BY <1>1, <1>3 DEF Seen, IInv, TypeOK
    <2>. QED
      BY <1>1, <1>3, <2>1, MemoryKept DEF IInv, TypeOK
  <1>4. Memory'[p] = [va \in Address |-> Zero]
    <2>1. pc'[p] = "clear"
      BY <1>1 DEF IInv, TypeOK
    <2>2. \A va \in Address : Seen(p, va)' = Zero
      BY <2>1 DEF Seen
    <2>. QED
      BY <2>1, <2>2, MemoryIs DEF Running
  <1>5. Memory' = [Memory EXCEPT ![p] = [va \in Address |-> Zero]]
    BY <1>3, <1>4 DEF Memory
  <1>. QED
    BY <1>2, <1>5 DEF M!Exec, M!Empty, Memory, Address

(* When fork has nothing left to copy, the child reads what its parent     *)
(* reads.                                                                  *)
LEMMA ForkedImplements ==
    ASSUME IInv, NEW p \in Process, NEW c \in Process, c = child[p], Forked(p)
    PROVE  M!Fork(p, c)
  <1>1. /\ pc[p] = "fork" /\ ToCopy(p) = {} /\ page' = page /\ content' = content
        /\ pc' = [pc EXCEPT ![p] = "user", ![c] = "user"]
    BY DEF Forked, Copying, frames, tables
  <1>2. c # p /\ pc[c] = "made"
    BY <1>1, OtherChild
  <1>2a. pc'[p] = "user" /\ pc'[c] = "user" /\ \A q \in Process : q # p /\ q # c => pc'[q] = pc[q]
    BY <1>1, <1>2 DEF IInv, TypeOK
  <1>2b. \A va \in Page : page[c][va] \in Frame =>
           page[p][va] \in Frame /\ content[page[c][va]] = content[page[p][va]]
    BY <1>1 DEF IInv, Forking
  <1>3. Memory[p] # None
    BY <1>1, RunningHasMemory DEF Running
  <1>4. Memory[c] = None
    BY <1>2, MemoryIs DEF Running
  <1>5. ASSUME NEW va \in Address PROVE Seen(c, va)' = Seen(p, va)
    <2>1. /\ page[p][va] \in Frame \/ page[p][va] = None
          /\ page[c][va] \in Frame \/ page[c][va] = None
          /\ va \in Page
      BY <1>2, AddressIsPrivate
    <2>2. page[p][va] # None => page[c][va] # None
      <3>1. page[p][va] # None => table[p][Pdi(va)] # None
        BY <2>1 DEF IInv, Mapped
      <3>. QED
        BY <1>1, <2>1, <3>1 DEF ToCopy
    <2>3. Seen(c, va)' = IF page[c][va] = None THEN Zero ELSE content[page[c][va]]
      BY <1>1, <1>2a DEF Seen
    <2>4. Seen(p, va) = IF page[p][va] = None THEN Zero ELSE content[page[p][va]]
      BY <1>1 DEF Seen
    <2>. QED
      BY <1>2b, <2>1, <2>2, <2>3, <2>4, Constants
  <1>6. Memory'[c] = Memory[p]
    <2>1. Memory'[c] = [va \in Address |-> Seen(c, va)']
      BY <1>2a, MemoryIs DEF Running
    <2>2. Memory[p] = [va \in Address |-> Seen(p, va)]
      BY <1>1, MemoryIs DEF Running
    <2>3. [va \in Address |-> Seen(c, va)'] = [va \in Address |-> Seen(p, va)]
      BY <1>5
    <2>. QED
      BY <2>1, <2>2, <2>3
  <1>7. ASSUME NEW q \in Process, q # c PROVE Memory'[q] = Memory[q]
    <2>1. \A w \in Address : Seen(q, w)' = Seen(q, w)
      BY <1>1, <1>2a, <1>7 DEF Seen
    <2>2. pc[q] \in Running <=> pc'[q] \in Running
      BY <1>1, <1>2a, <1>7 DEF Running
    <2>. QED
      BY <2>1, <2>2, MemoryKept
  <1>8. Memory' = [Memory EXCEPT ![c] = Memory[p]]
    BY <1>2, <1>6, <1>7 DEF Memory
  <1>. QED
    BY <1>2, <1>3, <1>4, <1>8 DEF M!Fork, Memory

(* The first process finds its memory clear.                               *)
LEMMA InitImplements == Init => M!Init
  <1>. SUFFICES ASSUME Init PROVE M!Init
    OBVIOUS
  <1>1. IInv
    BY InitHolds
  <1>2. /\ pc = [p \in Process |-> IF p = First THEN "user" ELSE "absent"]
        /\ page = [p \in Process |-> [va \in Page |->
                      IF p = First /\ va \in Special THEN Device ELSE None]]
    BY DEF Init, IsSpecial
  <1>3. ASSUME NEW p \in Process
        PROVE  Memory[p] = IF p = First THEN [va \in Address |-> Zero] ELSE None
    <2>1. CASE p = First
      <3>1. \A va \in Address : Seen(p, va) = Zero
        BY <1>2 DEF Seen, Address
      <3>2. pc[p] \in Running
        BY <1>2, <2>1 DEF Running
      <3>. QED
        BY <2>1, <3>1, <3>2, MemoryIs
    <2>2. CASE p # First
      <3>1. pc[p] \notin Running
        BY <1>2, <2>2 DEF Running
      <3>. QED
        BY <2>2, <3>1, MemoryIs
    <2>. QED
      BY <2>1, <2>2
  <1>4. Memory = [p \in Process |-> IF p = First THEN [va \in Address |-> Zero] ELSE None]
    BY <1>3 DEF Memory
  <1>. QED
    BY <1>4 DEF M!Init, M!Empty, Memory, Address

(* Every step is a step of Memories or a stutter.                          *)
LEMMA StepImplements == IInv /\ [Next]_vars => [M!Next]_Memory
  <1>. SUFFICES ASSUME IInv, [Next]_vars PROVE M!Next \/ Memory' = Memory
    OBVIOUS
  <1>1. ASSUME NEW p \in Process, User(p)
        PROVE  M!Next \/ Memory' = Memory
    <2>1. ASSUME NEW va \in Page, NEW v \in Value, Store(p, va, v) PROVE M!Next
      BY <2>1, StoreImplements DEF M!Next, Address
    <2>2. ASSUME Exit(p) PROVE M!Next
      BY <2>2, ExitImplements DEF M!Next
    <2>. QED
      BY <1>1, <2>1, <2>2, PageFaultStutters, AllocStutters, MapStutters
         DEF User, MapTable
  <1>2. ASSUME NEW p \in Process, Fork(p)
        PROVE  M!Next \/ Memory' = Memory
    <2>1. ASSUME Forked(p) PROVE M!Next
      <3>1. child[p] \in Process
        BY <2>1, OtherChild DEF Forked, Copying
      <3>2. PICK c \in Process : c = child[p]
        BY <3>1
      <3>3. M!Fork(p, c)
        BY <2>1, <3>2, ForkedImplements
      <3>. QED
        BY <3>3 DEF M!Next
    <2>. QED
      BY <1>2, <2>1, MakePdStutters, AllocStutters, MapSpecialStutters, CopyPageStutters
         DEF Fork, MapSpecialTable, CopyTable
  <1>3. ASSUME NEW p \in Process, Delete(p)
        PROVE  M!Next \/ Memory' = Memory
    <2>1. ASSUME Exec(p) PROVE M!Next
      BY <2>1, ExecImplements DEF M!Next
    <2>. QED
      BY <1>3, <2>1, ClearPageStutters, ClearTableStutters, ClearedStutters,
         ReapStutters, DeletePageStutters, DeleteTableStutters, DeletePdStutters DEF Delete
  <1>4. CASE UNCHANGED vars
    BY <1>4 DEF vars, frames, tables, Memory, Contents
  <1>. QED
    BY <1>1, <1>2, <1>3, <1>4, PanicStutters DEF Next

(* Paging implements private memories, for every number of processes and   *)
(* pages and every interleaving: a store shows in no other process, a new  *)
(* page reads zero although its frame is recycled, the child of fork has a *)
(* copy of its parent's memory, and exec leaves nothing of the old one.    *)
THEOREM MemoriesAreImplemented == Spec => ImplementsMemories
  BY Invariant, InitImplements, StepImplements, PTL
     DEF Spec, ImplementsMemories, M!Spec, Memory

=============================================================================
