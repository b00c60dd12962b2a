-------------------------- MODULE ProcessesProofs --------------------------
(***************************************************************************)
(* The reference counts, the exit statuses and the queues of module        *)
(* Processes, for any number of processes and objects and tables of any    *)
(* size.                                                                   *)
(***************************************************************************)
EXTENDS Processes, FiniteSetTheorems, SequenceTheorems, TLAPS

(* find_open_space takes the first free slot, so the actions choose with   *)
(* Min: a nonempty set of numbers has one.                                 *)
LEMMA MinIsThere ==
    ASSUME NEW S \in SUBSET Nat, S # {}
    PROVE  Min(S) \in S
  <1>. DEFINE Below(x) == {y \in S : y < x}
              T == {Below(x) : x \in S}
  <1>0. \A x \in S : x \in Nat
    OBVIOUS
  <1>1. \A x \in S : Below(x) \in FiniteSubsetsOf(S)
    <2>. SUFFICES ASSUME NEW x \in S PROVE IsFiniteSet(Below(x))
      BY DEF FiniteSubsetsOf
    <2>1. Below(x) \in SUBSET Nat /\ \A s \in Below(x) : s <= x
      <3>1. \A s \in Below(x) : s \in Nat /\ s < x
        BY <1>0
      <3>. HIDE DEF Below
      <3>. QED
        BY <3>1, <1>0
    <2>. HIDE DEF Below
    <2>. QED
      BY <2>1, FS_BoundedSetOfNaturals
  <1>2. T \subseteq FiniteSubsetsOf(S) /\ T # {}
    BY <1>1
  <1>3. \E X \in T : \A Y \in T : <<Y, X>> \notin StrictSubsetOrdering(S)
    <2>. HIDE DEF T
    <2>. QED
      BY <1>2, FS_StrictSubsetOrderingWellFounded, WFMin
  <1>4. PICK x \in S : \A Y \in T : <<Y, Below(x)>> \notin StrictSubsetOrdering(S)
    BY <1>3
  <1>5. ASSUME NEW y \in S PROVE x =< y
    <2>. SUFFICES ASSUME y < x PROVE FALSE
      BY <1>0
    <2>1. Below(y) \subseteq Below(x)
      <3>. SUFFICES ASSUME NEW z \in S, z < y PROVE z < x
        OBVIOUS
      <3>1. x \in Nat /\ y \in Nat /\ z \in Nat
        BY <1>0
      <3>. QED
        BY <3>1
    <2>2. y \in Below(x) /\ y \notin Below(y)
      BY <1>0
    <2>3. Below(y) \in T /\ Below(x) \in SUBSET S /\ Below(y) \in SUBSET S
      OBVIOUS
    <2>. HIDE DEF Below, T
    <2>. QED
      BY <1>4, <2>1, <2>2, <2>3 DEF StrictSubsetOrdering
  <1>. QED
    BY <1>5 DEF Min

(* The threads in the line q are those of Waiting, each of them once.      *)
Line(q, Waiting) ==
    /\ \A i \in 1..Len(q) : q[i] \in Waiting
    /\ \A w \in Waiting : \E i \in 1..Len(q) : q[i] = w
    /\ \A i, j \in 1..Len(q) : q[i] = q[j] => i = j

(* waiting.add(me) of a thread that is not in the line puts it there once. *)
LEMMA LineAppend ==
    ASSUME NEW S, NEW q \in Seq(S), NEW W, Line(q, W), NEW x \in S, x \notin W
    PROVE  Line(Append(q, x), W \cup {x}) /\ Append(q, x) \in Seq(S)
  <1>1. /\ Len(Append(q, x)) = Len(q) + 1 /\ Len(q) \in Nat
        /\ \A i \in 1..Len(q) : Append(q, x)[i] = q[i]
        /\ Append(q, x)[Len(q) + 1] = x
    OBVIOUS
  <1>2. \A i \in 1..Len(q) : q[i] # x
    BY DEF Line
  <1>. QED
    BY <1>1, <1>2 DEF Line

(* Taking the first thread of a line (waiting.remove() in up()) leaves a   *)
(* line of the others.                                                     *)
LEMMA LineTail ==
    ASSUME NEW S, NEW q \in Seq(S), NEW W, Line(q, W), q # <<>>
    PROVE  /\ Head(q) \in W /\ Head(q) \in S
           /\ Line(Tail(q), W \ {Head(q)}) /\ Tail(q) \in Seq(S)
  <1>1. /\ Len(Tail(q)) = Len(q) - 1 /\ Len(q) \in Nat \ {0}
        /\ \A i \in 1..Len(q) - 1 : Tail(q)[i] = q[i + 1]
        /\ Head(q) = q[1] /\ Tail(q) \in Seq(S)
    OBVIOUS
  <1>2. Head(q) \in W /\ Head(q) \in S
    BY <1>1 DEF Line
  <1>3. \A i \in 1..Len(Tail(q)) : Tail(q)[i] \in W \ {Head(q)}
    <2>. TAKE i \in 1..Len(Tail(q))
    <2>1. i + 1 \in 1..Len(q) /\ 1 \in 1..Len(q) /\ i + 1 # 1
      BY <1>1
    <2>. QED
      BY <2>1, <1>1 DEF Line
  <1>4. \A w \in W \ {Head(q)} : \E i \in 1..Len(Tail(q)) : Tail(q)[i] = w
    <2>. TAKE w \in W \ {Head(q)}
    <2>1. PICK i \in 1..Len(q) : q[i] = w
      BY DEF Line
    <2>2. i - 1 \in 1..Len(Tail(q)) /\ Tail(q)[i - 1] = w
      BY <1>1, <2>1
    <2>. QED
      BY <2>2
  <1>5. \A i, j \in 1..Len(Tail(q)) : Tail(q)[i] = Tail(q)[j] => i = j
    <2>. TAKE i, j \in 1..Len(Tail(q))
    <2>1. i + 1 \in 1..Len(q) /\ j + 1 \in 1..Len(q)
      BY <1>1
    <2>2. q[i + 1] = q[j + 1] => i + 1 = j + 1
      BY <2>1 DEF Line
    <2>. QED
      BY <1>1, <2>2
  <1>. QED
    BY <1>1, <1>2, <1>3, <1>4, <1>5 DEF Line

(* The slots that hold o, counted.                                         *)
Number(tabs, n, o) == Cardinality(SlotsWith(tabs, n, o))
(* A reference that is there or not, and whether x and y are the same, as  *)
(* numbers.                                                                *)
One(b) == IF b THEN 1 ELSE 0
Same(x, y) == IF x = y THEN 1 ELSE 0

(* What the assumption says of the constants.                              *)
LEMMA Constants ==
    /\ First \in Process /\ IsFiniteSet(Process)
    /\ NSEM \in Nat /\ NCHILD \in Nat /\ NFILE \in Nat
    /\ Std \in Nat /\ Std <= NFILE
    /\ Console \in OpenFile
    /\ Sem \cap OpenFile = {} /\ Process \cap Sem = {} /\ Process \cap OpenFile = {}
    /\ InitialCount \subseteq Nat
    /\ None \notin Process /\ None \notin Sem /\ None \notin OpenFile /\ None \notin Status
    /\ None \notin Object
  <1>1. Std \in Nat /\ Std <= NFILE
    BY ProcessesAssumption
  <1>2. InitialCount \subseteq Nat
    BY ProcessesAssumption
  <1>. QED
    BY <1>1, <1>2, ProcessesAssumption DEF Object

(* The slot find_open_space returns is one of the table, and free.         *)
LEMMA FreeSlot ==
    ASSUME NEW n \in Nat, NEW V, NEW tab \in [0..(n - 1) -> V], ~Full(tab)
    PROVE  /\ FirstFree(tab) \in 0..(n - 1)
           /\ tab[FirstFree(tab)] = None
  <1>1. Slots(tab, None) \in SUBSET Nat /\ Slots(tab, None) # {}
    BY DEF Slots, Full
  <1>2. FirstFree(tab) \in Slots(tab, None)
    BY <1>1, MinIsThere DEF FirstFree
  <1>. QED
    BY <1>2 DEF Slots

(* Slots can be counted, since processes can and tables end.               *)
LEMMA SlotsFinite ==
    ASSUME NEW n \in Nat, NEW tabs, NEW o
    PROVE  /\ IsFiniteSet(SlotsWith(tabs, n, o))
           /\ Number(tabs, n, o) \in Nat
  <1>1. IsFiniteSet(Process \X (0..(n - 1)))
    <2>1. 0 \in Int /\ n - 1 \in Int
      OBVIOUS
    <2>2. IsFiniteSet(0..(n - 1))
      BY <2>1, FS_Interval
    <2>. QED
      BY <2>2, Constants, FS_Product
  <1>2. SlotsWith(tabs, n, o) \in SUBSET (Process \X (0..(n - 1)))
    BY DEF SlotsWith
  <1>3. IsFiniteSet(SlotsWith(tabs, n, o))
    BY <1>1, <1>2, FS_Subset
  <1>. QED
    BY <1>3, FS_CardinalityType DEF Number

(* The tables differ in slot i of p at most.                               *)
OtherSlotsSame(tabs, new, n, p, i) ==
    \A q \in Process, j \in 0..(n - 1) : (q # p \/ j # i) => new[q][j] = tabs[q][j]

(* The tables differ in those of c at most.                                *)
OtherRowsSame(tabs, new, c) == \A q \in Process \ {c} : new[q] = tabs[q]

(* Slot i of p, which held u, holds v, and nothing else differs.           *)
Swaps(tabs, new, n, p, i, u, v) ==
    /\ OtherSlotsSame(tabs, new, n, p, i) /\ OtherRowsSame(tabs, new, p)
    /\ tabs[p][i] = u /\ new[p][i] = v

(* Assigning one slot takes one from the number of what it held and gives  *)
(* one to that of what it holds now.                                       *)
LEMMA SlotChanged ==
    ASSUME NEW n \in Nat, NEW tabs, NEW new, NEW p \in Process, NEW i \in 0..(n - 1),
           NEW u, NEW v, Swaps(tabs, new, n, p, i, u, v), NEW o
    PROVE  /\ Number(new, n, o) = (Number(tabs, n, o) - Same(o, u)) + Same(o, v)
           /\ Number(tabs, n, o) \in Nat
  <1>. DEFINE S == SlotsWith(tabs, n, o)
              T == SlotsWith(new, n, o)
              R == S \ {<<p, i>>}
  <1>0. OtherSlotsSame(tabs, new, n, p, i) /\ tabs[p][i] = u /\ new[p][i] = v
    BY DEF Swaps
  <1>1. IsFiniteSet(S) /\ Number(tabs, n, o) \in Nat /\ Number(new, n, o) \in Nat
    BY SlotsFinite
  <1>2. /\ <<p, i>> \in S <=> o = u
        /\ <<p, i>> \in T <=> o = v
    BY <1>0 DEF SlotsWith
  <1>3. \A x \in Process \X (0..(n - 1)) : x # <<p, i>> => (x \in S <=> x \in T)
    <2>. SUFFICES ASSUME NEW x \in Process \X (0..(n - 1)), x # <<p, i>>
                  PROVE  tabs[x[1]][x[2]] = o <=> new[x[1]][x[2]] = o
      BY DEF SlotsWith
    <2>1. x = <<x[1], x[2]>> /\ x[1] \in Process /\ x[2] \in 0..(n - 1)
      OBVIOUS
    <2>2. x[1] # p \/ x[2] # i
      BY <2>1
    <2>. QED
      BY <1>0, <2>1, <2>2 DEF OtherSlotsSame
  <1>4. S \subseteq Process \X (0..(n - 1)) /\ T \subseteq Process \X (0..(n - 1))
    BY DEF SlotsWith
  <1>5. IsFiniteSet(R) /\ Cardinality(R) \in Nat
    <2>. HIDE DEF S
    <2>. QED
      BY <1>1, FS_RemoveElement, FS_CardinalityType
  <1>6. Number(tabs, n, o) = Cardinality(R) + Same(o, u)
    <2>1. CASE o = u
      <3>1. S = R \cup {<<p, i>>} /\ <<p, i>> \notin R
        BY <2>1, <1>2
      <3>2. Cardinality(R \cup {<<p, i>>}) = Cardinality(R) + 1
        <4>. HIDE DEF R
        <4>. QED
          BY <3>1, <1>5, FS_AddElement
      <3>. QED
        BY <3>1, <3>2, <2>1 DEF Number, Same
    <2>2. CASE o # u
      <3>1. S = R
        BY <2>2, <1>2
      <3>. QED
        BY <3>1, <2>2, <1>5 DEF Number, Same
    <2>. QED
      BY <2>1, <2>2
  <1>7. Number(new, n, o) = Cardinality(R) + Same(o, v)
    <2>0. R = T \ {<<p, i>>}
      BY <1>3, <1>4
    <2>1. CASE o = v
      <3>1. T = R \cup {<<p, i>>} /\ <<p, i>> \notin R
        BY <2>0, <2>1, <1>2
      <3>2. Cardinality(R \cup {<<p, i>>}) = Cardinality(R) + 1
        <4>. HIDE DEF R
        <4>. QED
          BY <3>1, <1>5, FS_AddElement
      <3>. QED
        BY <3>1, <3>2, <2>1 DEF Number, Same
    <2>2. CASE o # v
      <3>1. T = R
        BY <2>0, <2>2, <1>2
      <3>. QED
        BY <3>1, <2>2, <1>5 DEF Number, Same
    <2>. QED
      BY <2>1, <2>2
  <1>8. Same(o, u) \in Int /\ Same(o, v) \in Int
    BY DEF Same
  <1>. QED
    <2>. HIDE DEF R
    <2>. QED
      BY <1>1, <1>5, <1>6, <1>7, <1>8

(* Filling an empty table, as fork does that of the child, adds the copies *)
(* in it.                                                                  *)
LEMMA RowFilled ==
    ASSUME NEW n \in Nat, NEW tabs, NEW new, NEW c \in Process,
           OtherRowsSame(tabs, new, c), tabs[c] = Empty(n), DOMAIN new[c] = 0..(n - 1),
           NEW o, o # None
    PROVE  /\ Number(new, n, o) = Number(tabs, n, o) + Copies(new[c], o)
           /\ Copies(new[c], o) \in Nat
  <1>. DEFINE row == new[c]
              S == SlotsWith(tabs, n, o)
              R == Slots(row, o)
              T == {<<c, i>> : i \in R}
              f == [i \in R |-> <<c, i>>]
  <1>1. IsFiniteSet(S) /\ Number(tabs, n, o) \in Nat
    BY SlotsFinite
  <1>2. IsFiniteSet(R)
    <2>1. R \in SUBSET (0..(n - 1))
      BY DEF Slots
    <2>2. 0 \in Int /\ n - 1 \in Int
      OBVIOUS
    <2>3. IsFiniteSet(0..(n - 1))
      BY <2>2, FS_Interval
    <2>. QED
      BY <2>1, <2>3, FS_Subset
  <1>3. IsFiniteSet(T) /\ Cardinality(T) = Cardinality(R)
    <2>1. f \in Bijection(R, T)
      <3>1. f \in [R -> T]
        OBVIOUS
      <3>2. ASSUME NEW a \in R, NEW b \in R, f[a] = f[b] PROVE a = b
        BY <3>2
      <3>3. ASSUME NEW t \in T PROVE \E a \in R : f[a] = t
        OBVIOUS
      <3>. QED
        BY <3>1, <3>2, <3>3 DEF Bijection, Injection, Surjection, IsInjective
    <2>. QED
      BY <2>1, <1>2, FS_Bijection DEF ExistsBijection
  <1>4. SlotsWith(new, n, o) = S \cup T
    <2>1. ASSUME NEW x \in Process \X (0..(n - 1)), x[1] = c
          PROVE  x \in SlotsWith(new, n, o) <=> x \in S \cup T
      <3>1. x[2] \in 0..(n - 1) /\ x = <<c, x[2]>> /\ x \notin S
        BY <2>1 DEF SlotsWith, Empty
      <3>2. x \in T <=> x[2] \in R
        BY <3>1
      <3>3. x \in SlotsWith(new, n, o) <=> row[x[2]] = o
        BY <3>1, <2>1 DEF SlotsWith
      <3>. QED
        BY <3>1, <3>2, <3>3 DEF Slots
    <2>2. ASSUME NEW x \in Process \X (0..(n - 1)), x[1] # c
          PROVE  x \in SlotsWith(new, n, o) <=> x \in S \cup T
      <3>1. x \notin T
        BY <2>2
      <3>. QED
        BY <3>1, <2>2 DEF SlotsWith, OtherRowsSame
    <2>3. S \cup T \subseteq Process \X (0..(n - 1))
      BY DEF SlotsWith, Slots
    <2>4. SlotsWith(new, n, o) \subseteq Process \X (0..(n - 1))
      BY DEF SlotsWith
    <2>. HIDE DEF S, T
    <2>. QED
      BY <2>1, <2>2, <2>3, <2>4
  <1>5. S \cap T = {}
    BY DEF SlotsWith, Slots, Empty
  <1>6. Cardinality(S \cup T) = Cardinality(S) + Cardinality(T)
    <2>. HIDE DEF S, T
    <2>1. Cardinality(S \cup T) = Cardinality(S) + Cardinality(T) - Cardinality(S \cap T)
      BY <1>1, <1>3, FS_Union
    <2>2. Cardinality(S \cap T) = 0
      BY <1>5, FS_EmptySet
    <2>3. Cardinality(S) \in Nat /\ Cardinality(T) \in Nat
      BY <1>1, <1>3, FS_CardinalityType
    <2>. QED
      BY <2>1, <2>2, <2>3
  <1>. QED
    BY <1>2, <1>3, <1>4, <1>6, FS_CardinalityType DEF Number, Copies

(* Emptying one, as ~Process does, takes them away.                        *)
LEMMA RowEmptied ==
    ASSUME NEW n \in Nat, NEW tabs, NEW new, NEW c \in Process,
           OtherRowsSame(tabs, new, c), new[c] = Empty(n), DOMAIN tabs[c] = 0..(n - 1),
           NEW o, o # None
    PROVE  /\ Number(new, n, o) = Number(tabs, n, o) - Copies(tabs[c], o)
           /\ Copies(tabs[c], o) \in Nat
  <1>1. OtherRowsSame(new, tabs, c)
    BY DEF OtherRowsSame
  <1>2. /\ Number(tabs, n, o) = Number(new, n, o) + Copies(tabs[c], o)
        /\ Copies(tabs[c], o) \in Nat
    BY <1>1, RowFilled
  <1>3. Number(new, n, o) \in Nat
    BY SlotsFinite
  <1>. QED
    BY <1>2, <1>3

(* Sets of processes can be counted.                                       *)
LEMMA Members ==
    ASSUME NEW S \in SUBSET Process
    PROVE  /\ IsFiniteSet(S) /\ Cardinality(S) \in Nat
           /\ (Cardinality(S) = 0) <=> (S = {})
  <1>1. IsFiniteSet(S)
    BY Constants, FS_Subset
  <1>. QED
    BY <1>1, FS_CardinalityType, FS_EmptySet

(* One process more ...                                                    *)
LEMMA Joined ==
    ASSUME NEW S \in SUBSET Process, NEW p \in Process, p \notin S
    PROVE  Cardinality(S \cup {p}) = Cardinality(S) + 1
  BY Members, FS_AddElement

(* ... and one process less.                                               *)
LEMMA Left ==
    ASSUME NEW S \in SUBSET Process, NEW p \in S
    PROVE  Cardinality(S \ {p}) = Cardinality(S) - 1
  BY Members, FS_RemoveElement

(* Where a process is.                                                     *)
Labels == {"absent", "made", "user", "up", "down", "blocked", "return",
           "file", "fork", "start", "started", "exited", "wait"}

(* The types.                                                              *)
TypeOK ==
    /\ sems \in [Process -> [0..(NSEM - 1) -> Sem \cup {None}]]
    /\ files \in [Process -> [0..(NFILE - 1) -> OpenFile \cup {None}]]
    /\ children \in [Process -> [0..(NCHILD - 1) -> Process \cup {None}]]
    /\ ref \in [Object -> Int]
    /\ outRef \in [Process -> Int]
    /\ procRef \in [Process -> Int]
    /\ out \in [Process -> Status \cup {None}]
    /\ sem \in [Sem -> [count : Nat, waiting : Seq(Process)]]
    /\ pc \in [Process -> Labels]
    /\ handle \in [Process -> Process \cup Sem \cup OpenFile \cup {None}]

(* Where the local variable of a system call is a semaphore ...            *)
OnSem == {"up", "down", "blocked", "return"}
(* ... where it is a file ...                                              *)
OnFile == {"file"}
(* ... and where it is a child.                                            *)
OnProcess == {"start", "started", "wait"}

(* The local variable is what the system call left it as, and None outside *)
(* of calls.                                                               *)
HandleKinds ==
    /\ \A p \in Process : pc[p] \in OnSem => handle[p] \in Sem
    /\ \A p \in Process : pc[p] \in OnFile => handle[p] \in OpenFile
    /\ \A p \in Process : pc[p] \in OnProcess => handle[p] \in Process
    /\ \A p \in Process : pc[p] \notin OnSem \cup OnFile \cup OnProcess => handle[p] = None

(* The local variables that are o, those of calls of wait on c, and those  *)
(* of calls of fork that make c.                                           *)
HeldBy(o) == Cardinality(Holders(o))
WaitedFor(c) == Cardinality(HoldersAt({"wait"}, c))
ForkedBy(c) == Cardinality(HoldersAt({"start", "started"}, c))

(* The reference count of a semaphore or an open file is right.            *)
ObjectsExact ==
    \A o \in Object : ref[o] = Number(sems, NSEM, o) + Number(files, NFILE, o) + HeldBy(o)

(* So is that of the exit status of c ...                                  *)
OutsExact ==
    \A c \in Process :
       outRef[c] = Number(children, NCHILD, c) + WaitedFor(c) + One(procRef[c] > 0)

(* Where a process has no thread.                                          *)
Threadless == {"absent", "made"}

(* ... and that of c itself.                                               *)
ProcsExact ==
    \A c \in Process : procRef[c] = ForkedBy(c) + One(pc[c] \notin Threadless)

(* A process that nobody refers to has empty tables.                       *)
GoneIsEmpty ==
    \A c \in Process : procRef[c] = 0 =>
       sems[c] = Empty(NSEM) /\ files[c] = Empty(NFILE) /\ children[c] = Empty(NCHILD)

(* A child has no thread exactly while one call of fork makes it, and no   *)
(* two calls make the same child.                                          *)
Starting ==
    /\ \A p \in Process : pc[p] = "start" => pc[handle[p]] = "made"
    /\ \A c \in Process : pc[c] = "made" => \E p \in Process : pc[p] = "start" /\ handle[p] = c
    /\ \A p, q \in Process :
          /\ pc[p] \in {"start", "started"} /\ pc[q] \in {"start", "started"}
          /\ handle[p] = handle[q]
          => p = q

(* A child is in one slot of one parent.                                   *)
OneParent ==
    \A p, q \in Process : \A i, j \in 0..(NCHILD - 1) :
       children[p][i] # None /\ children[p][i] = children[q][j] => p = q /\ i = j

(* wait is called on a child that is still in the table.                   *)
WaitsForChild ==
    \A p \in Process : pc[p] = "wait" =>
       \E i \in 0..(NCHILD - 1) : children[p][i] = handle[p]

(* There is an exit status only while somebody refers to it.               *)
StatusOnlyWhenHeld == \A c \in Process : outRef[c] = 0 => out[c] = None
(* A child that has exited has left its status.                            *)
StatusOfChild ==
    \A p \in Process : \A i \in 0..(NCHILD - 1) :
       children[p][i] # None /\ pc[children[p][i]] \in {"exited", "absent"} =>
          out[children[p][i]] # None
(* One that has not exited has none.                                       *)
StatusAfterExit ==
    \A p \in Process : pc[p] \notin {"exited", "absent"} => out[p] = None

(* The queue of a semaphore is the processes blocked in its down(), each   *)
(* of them once.                                                           *)
Queued == \A s \in Sem : Line(sem[s].waiting, HoldersAt({"blocked"}, s))

(* The inductive invariant.  The counts alone are not inductive: what an   *)
(* action does to them depends on what the slot or the variable held, on   *)
(* the child of fork being new, and on a deleted process having nothing;   *)
(* and a status is kept because its count is right.                        *)
IInv ==
    /\ TypeOK /\ HandleKinds
    /\ ObjectsExact /\ OutsExact /\ ProcsExact
    /\ GoneIsEmpty /\ Starting /\ OneParent /\ WaitsForChild
    /\ StatusOnlyWhenHeld /\ StatusOfChild /\ StatusAfterExit
    /\ Queued

(* None in the count, none in the tables.                                  *)
LEMMA SlotCounted ==
    ASSUME NEW n \in Nat, NEW tabs, NEW o
    PROVE  /\ Number(tabs, n, o) = 0 => \A p \in Process, i \in 0..(n - 1) : tabs[p][i] # o
           /\ (\A p \in Process, i \in 0..(n - 1) : tabs[p][i] # o) => Number(tabs, n, o) = 0
  <1>1. (Number(tabs, n, o) = 0) <=> (SlotsWith(tabs, n, o) = {})
    BY SlotsFinite, FS_EmptySet DEF Number
  <1>2. ASSUME SlotsWith(tabs, n, o) = {}, NEW p \in Process, NEW i \in 0..(n - 1)
        PROVE  tabs[p][i] # o
    <2>1. <<p, i>> \notin SlotsWith(tabs, n, o) /\ <<p, i>> \in Process \X (0..(n - 1))
      BY <1>2
    <2>. QED
      BY <2>1 DEF SlotsWith
  <1>3. ASSUME \A p \in Process, i \in 0..(n - 1) : tabs[p][i] # o
        PROVE  SlotsWith(tabs, n, o) = {}
    BY <1>3 DEF SlotsWith
  <1>. QED
    BY <1>1, <1>2, <1>3

(* Counting a set that differs in p at most.                               *)
LEMMA Changed ==
    ASSUME NEW S \in SUBSET Process, NEW T \in SUBSET Process, NEW p \in Process,
           \A q \in Process \ {p} : q \in S <=> q \in T
    PROVE  Cardinality(T) = (Cardinality(S) - One(p \in S)) + One(p \in T)
  <1>0. Cardinality(S) \in Nat /\ Cardinality(T) \in Nat
    BY Members
  <1>1. CASE p \in S /\ p \in T
    <2>1. S = T
      BY <1>1
    <2>. QED
      BY <2>1, <1>0, <1>1 DEF One
  <1>2. CASE p \notin S /\ p \notin T
    <2>1. S = T
      BY <1>2
    <2>. QED
      BY <2>1, <1>0, <1>2 DEF One
  <1>3. CASE p \in S /\ p \notin T
    <2>1. T = S \ {p}
      BY <1>3
    <2>. QED
      BY <2>1, <1>0, <1>3, Left DEF One
  <1>4. CASE p \notin S /\ p \in T
    <2>1. T = S \cup {p}
      BY <1>4
    <2>. QED
      BY <2>1, <1>0, <1>4, Joined DEF One
  <1>. QED
    BY <1>1, <1>2, <1>3, <1>4

(* The others keep their local variables and do not enter or leave fork or *)
(* wait.                                                                   *)
OnlyMoves(p) ==
    \A q \in Process \ {p} :
       /\ handle'[q] = handle[q]
       /\ pc'[q] # pc[q] => /\ pc[q] \notin {"start", "started", "wait"}
                            /\ pc'[q] \notin {"start", "started", "wait"}

(* What p's step does to the counts of local variables.                    *)
LEMMA Moved ==
    ASSUME NEW p \in Process, OnlyMoves(p), NEW o
    PROVE  /\ HeldBy(o)' = (HeldBy(o) - One(handle[p] = o)) + One(handle'[p] = o)
           /\ WaitedFor(o)' = (WaitedFor(o) - One(pc[p] = "wait" /\ handle[p] = o))
                              + One(pc'[p] = "wait" /\ handle'[p] = o)
           /\ ForkedBy(o)' = (ForkedBy(o)
                                - One(pc[p] \in {"start", "started"} /\ handle[p] = o))
                             + One(pc'[p] \in {"start", "started"} /\ handle'[p] = o)
  <1>1. /\ Holders(o) \in SUBSET Process /\ Holders(o)' \in SUBSET Process
        /\ \A q \in Process \ {p} : q \in Holders(o) <=> q \in Holders(o)'
        /\ (p \in Holders(o)) <=> (handle[p] = o)
        /\ (p \in Holders(o)') <=> (handle'[p] = o)
    BY DEF Holders, OnlyMoves
  <1>2. /\ HoldersAt({"wait"}, o) \in SUBSET Process
        /\ HoldersAt({"wait"}, o)' \in SUBSET Process
        /\ \A q \in Process \ {p} : q \in HoldersAt({"wait"}, o) <=> q \in HoldersAt({"wait"}, o)'
        /\ (p \in HoldersAt({"wait"}, o)) <=> (pc[p] = "wait" /\ handle[p] = o)
        /\ (p \in HoldersAt({"wait"}, o)') <=> (pc'[p] = "wait" /\ handle'[p] = o)
    BY DEF HoldersAt, OnlyMoves
  <1>. DEFINE L == {"start", "started"}
  <1>3. /\ HoldersAt(L, o) \in SUBSET Process
        /\ HoldersAt(L, o)' \in SUBSET Process
        /\ \A q \in Process \ {p} : q \in HoldersAt(L, o) <=> q \in HoldersAt(L, o)'
        /\ (p \in HoldersAt(L, o)) <=> (pc[p] \in L /\ handle[p] = o)
        /\ (p \in HoldersAt(L, o)') <=> (pc'[p] \in L /\ handle'[p] = o)
    BY DEF HoldersAt, OnlyMoves
  <1>4. HeldBy(o)' = (HeldBy(o) - One(p \in Holders(o))) + One(p \in Holders(o)')
    BY <1>1, Changed DEF HeldBy
  <1>5. WaitedFor(o)' = (WaitedFor(o) - One(p \in HoldersAt({"wait"}, o)))
                        + One(p \in HoldersAt({"wait"}, o)')
    BY <1>2, Changed DEF WaitedFor
  <1>6. ForkedBy(o)' = (ForkedBy(o) - One(p \in HoldersAt(L, o))) + One(p \in HoldersAt(L, o)')
    BY <1>3, Changed DEF ForkedBy
  <1>. QED
    BY <1>1, <1>2, <1>3, <1>4, <1>5, <1>6 DEF One

(* Those counts are numbers, and nothing holds what is counted none.       *)
LEMMA Counted ==
    /\ \A o : HeldBy(o) \in Nat /\ WaitedFor(o) \in Nat /\ ForkedBy(o) \in Nat
    /\ \A o : HeldBy(o) = 0 => \A p \in Process : handle[p] # o
    /\ \A o : ForkedBy(o) = 0 =>
                \A p \in Process : pc[p] \in {"start", "started"} => handle[p] # o
  <1>1. ASSUME NEW o PROVE /\ HeldBy(o) \in Nat
                           /\ HeldBy(o) = 0 => \A p \in Process : handle[p] # o
    <2>1. Holders(o) \in SUBSET Process
      BY DEF Holders
    <2>2. HeldBy(o) \in Nat /\ (HeldBy(o) = 0 => Holders(o) = {})
      BY <2>1, Members DEF HeldBy
    <2>. QED
      BY <2>2 DEF Holders
  <1>2. ASSUME NEW o PROVE WaitedFor(o) \in Nat
    <2>1. HoldersAt({"wait"}, o) \in SUBSET Process
      BY DEF HoldersAt
    <2>. QED
      BY <2>1, Members DEF WaitedFor
  <1>3. ASSUME NEW o
        PROVE  /\ ForkedBy(o) \in Nat
               /\ ForkedBy(o) = 0 =>
                    \A p \in Process : pc[p] \in {"start", "started"} => handle[p] # o
    <2>1. HoldersAt({"start", "started"}, o) \in SUBSET Process
      BY DEF HoldersAt
    <2>2. ForkedBy(o) \in Nat /\ (ForkedBy(o) = 0 => HoldersAt({"start", "started"}, o) = {})
      BY <2>1, Members DEF ForkedBy
    <2>. QED
      BY <2>2 DEF HoldersAt
  <1>. QED
    BY <1>1, <1>2, <1>3

(* A new table has free slots only.                                        *)
LEMMA EmptyTable ==
    ASSUME NEW n \in Nat
    PROVE  \A i \in 0..(n - 1) : Empty(n)[i] = None
  BY DEF Empty

(* What the slots of a table may hold.                                     *)
LEMMA Rows ==
    ASSUME NEW n, NEW V, NEW tabs \in [Process -> [0..(n - 1) -> V]], NEW p \in Process
    PROVE  /\ tabs[p] \in [0..(n - 1) -> V]
           /\ \A i \in 0..(n - 1) : tabs[p][i] \in V
  <1>1. tabs[p] \in [0..(n - 1) -> V]
    OBVIOUS
  <1>. QED
    BY <1>1

(* new is tabs with v in slot i of p, which held u.                        *)
Assigns(tabs, new, p, i, u, v) ==
    /\ tabs[p][i] = u
    /\ new = [tabs EXCEPT ![p][i] = v]

(* An EXCEPT of a slot does that.                                          *)
LEMMA SlotSet ==
    ASSUME NEW n, NEW V, NEW tabs \in [Process -> [0..(n - 1) -> V]],
           NEW p \in Process, NEW i \in 0..(n - 1), NEW u, NEW v \in V,
           NEW new, Assigns(tabs, new, p, i, u, v)
    PROVE  /\ new \in [Process -> [0..(n - 1) -> V]]
           /\ Swaps(tabs, new, n, p, i, u, v)
  <1>1. [tabs[p] EXCEPT ![i] = v] \in [0..(n - 1) -> V]
    BY Rows
  <1>2. new = [tabs EXCEPT ![p] = [tabs[p] EXCEPT ![i] = v]]
    BY DEF Assigns
  <1>3. new \in [Process -> [0..(n - 1) -> V]]
    BY <1>1, <1>2
  <1>4. new[p] = [tabs[p] EXCEPT ![i] = v] /\ \A q \in Process \ {p} : new[q] = tabs[q]
    BY <1>2
  <1>5. tabs[p] \in [0..(n - 1) -> V]
    OBVIOUS
  <1>6. new[p][i] = v /\ \A j \in 0..(n - 1) : j # i => new[p][j] = tabs[p][j]
    BY <1>4, <1>5
  <1>7. tabs[p][i] = u
    BY DEF Assigns
  <1>. QED
    BY <1>3, <1>4, <1>6, <1>7 DEF Swaps, OtherSlotsSame, OtherRowsSame

(* None is no object.                                                      *)
LEMMA NotNone == \A o \in Object \cup Process : Same(o, None) = 0
  BY Constants DEF Same

(* What the tables of a process may hold.                                  *)
LEMMA Tables ==
    ASSUME TypeOK, NEW p \in Process
    PROVE  /\ sems[p] \in [0..(NSEM - 1) -> Sem \cup {None}]
           /\ files[p] \in [0..(NFILE - 1) -> OpenFile \cup {None}]
           /\ children[p] \in [0..(NCHILD - 1) -> Process \cup {None}]
           /\ \A i \in 0..(NSEM - 1) : sems[p][i] \in Sem \cup {None}
           /\ \A i \in 0..(NFILE - 1) : files[p][i] \in OpenFile \cup {None}
           /\ \A i \in 0..(NCHILD - 1) : children[p][i] \in Process \cup {None}
  BY Rows DEF TypeOK

(* What somebody refers to is counted at least once, and the counts are    *)
(* numbers.                                                                *)
LEMMA Alive ==
    ASSUME IInv
    PROVE  /\ \A p \in Process : procRef[p] \in Nat /\ outRef[p] \in Nat
           /\ \A p \in Process : pc[p] # "absent" => procRef[p] # 0 /\ outRef[p] # 0
           /\ \A p \in Process : pc[p] \in {"start", "started"} =>
                 procRef[handle[p]] # 0 /\ outRef[handle[p]] # 0
           /\ \A p \in Process, i \in 0..(NCHILD - 1) : children[p][i] # None =>
                 children[p][i] \in Process /\ outRef[children[p][i]] # 0
           /\ \A o \in Object : ref[o] \in Nat
           /\ \A o \in Object : ref[o] = 0 => \A p \in Process : handle[p] # o
  <1>1. ASSUME NEW c \in Process PROVE Number(children, NCHILD, c) \in Nat
    BY Constants, SlotsFinite
  <1>2. ASSUME NEW p \in Process
        PROVE  procRef[p] \in Nat /\ outRef[p] \in Nat
    BY <1>1, Counted DEF IInv, ProcsExact, OutsExact, One
  <1>3. ASSUME NEW p \in Process, procRef[p] # 0
        PROVE  outRef[p] # 0
    BY <1>1, <1>2, <1>3, Counted DEF IInv, OutsExact, One
  <1>4. ASSUME NEW p \in Process, pc[p] \in {"start", "started"}
        PROVE  handle[p] \in Process /\ procRef[handle[p]] # 0
    <2>1. handle[p] \in Process
      BY <1>4 DEF IInv, HandleKinds, OnProcess
    <2>2. ForkedBy(handle[p]) # 0 /\ ForkedBy(handle[p]) \in Nat
      BY <1>4, Counted
    <2>3. procRef[handle[p]] = ForkedBy(handle[p]) + One(pc[handle[p]] \notin Threadless)
      BY <2>1 DEF IInv, ProcsExact
    <2>. QED
      BY <2>1, <2>2, <2>3 DEF One
  <1>5. ASSUME NEW p \in Process, pc[p] # "absent"
        PROVE  procRef[p] # 0
    <2>1. CASE pc[p] = "made"
      BY <2>1, <1>4 DEF IInv, Starting
    <2>2. CASE pc[p] # "made"
      BY <1>5, <2>2, Counted DEF IInv, ProcsExact, One, Threadless
    <2>. QED
      BY <2>1, <2>2
  <1>6. ASSUME NEW p \in Process, NEW i \in 0..(NCHILD - 1), children[p][i] # None
        PROVE  children[p][i] \in Process /\ outRef[children[p][i]] # 0
    <2>1. children[p][i] \in Process
      BY <1>6, Tables DEF IInv
    <2>2. Number(children, NCHILD, children[p][i]) # 0
      BY Constants, SlotCounted
    <2>. QED
      BY <2>1, <2>2, <1>1, Counted DEF IInv, OutsExact, One
  <1>7. ASSUME NEW o \in Object
        PROVE  ref[o] \in Nat /\ (ref[o] = 0 => \A p \in Process : handle[p] # o)
    <2>1. /\ Number(sems, NSEM, o) \in Nat /\ Number(files, NFILE, o) \in Nat
          /\ HeldBy(o) \in Nat
      BY Constants, SlotsFinite, Counted
    <2>2. ref[o] = Number(sems, NSEM, o) + Number(files, NFILE, o) + HeldBy(o)
      BY DEF IInv, ObjectsExact
    <2>3. ref[o] = 0 => HeldBy(o) = 0
      BY <2>1, <2>2
    <2>. QED
      BY <2>1, <2>2, <2>3, Counted
  <1>. QED
    BY <1>2, <1>3, <1>4, <1>5, <1>6, <1>7

(* Labels of a thread that neither starts a process nor waits for one.     *)
(* Where a system call that makes or waits for no child goes.              *)
Calm == {"user", "file", "up", "down", "blocked", "return", "fork"}

(* A step of such a call: it leaves the processes' counts and statuses     *)
(* alone.                                                                  *)
SemaphoreCall ==
    /\ children' = children /\ outRef' = outRef /\ procRef' = procRef /\ out' = out
    /\ \A q \in Process : \/ pc'[q] = pc[q] /\ handle'[q] = handle[q]
                          \/ pc[q] \in Calm /\ pc'[q] \in Calm

(* So everything about processes stays.                                    *)
LEMMA ProcessesStay ==
    ASSUME IInv, SemaphoreCall
    PROVE  /\ OutsExact' /\ ProcsExact' /\ Starting' /\ OneParent' /\ WaitsForChild'
           /\ StatusOnlyWhenHeld' /\ StatusOfChild' /\ StatusAfterExit'
  <1>1. ASSUME NEW c \in Process
        PROVE  WaitedFor(c)' = WaitedFor(c) /\ ForkedBy(c)' = ForkedBy(c)
    <2>1. HoldersAt({"wait"}, c)' = HoldersAt({"wait"}, c)
      BY DEF HoldersAt, SemaphoreCall, Calm
    <2>2. HoldersAt({"start", "started"}, c)' = HoldersAt({"start", "started"}, c)
      BY DEF HoldersAt, SemaphoreCall, Calm
    <2>. QED
      BY <2>1, <2>2 DEF WaitedFor, ForkedBy
  <1>2. OutsExact'
    BY <1>1 DEF IInv, OutsExact, SemaphoreCall
  <1>3. ProcsExact'
    BY <1>1 DEF IInv, ProcsExact, SemaphoreCall, Calm, Threadless, One
  <1>4. Starting'
    <2>1. \A q \in Process : pc[q] \in {"start", "started"} => handle[q] \in Process
      BY DEF IInv, HandleKinds, OnProcess
    <2>. QED
      BY <2>1 DEF IInv, Starting, SemaphoreCall, Calm
  <1>5. OneParent' /\ StatusOnlyWhenHeld'
    BY DEF IInv, OneParent, StatusOnlyWhenHeld, SemaphoreCall
  <1>6. WaitsForChild'
    BY DEF IInv, WaitsForChild, SemaphoreCall, Calm
  <1>7. StatusAfterExit'
    BY DEF IInv, StatusAfterExit, SemaphoreCall, Calm
  <1>8. StatusOfChild'
    <2>1. \A p \in Process, i \in 0..(NCHILD - 1) : children[p][i] # None =>
             children[p][i] \in Process
      BY Tables DEF IInv
    <2>. QED
      BY <2>1 DEF IInv, StatusOfChild, SemaphoreCall, Calm
  <1>. QED
    BY <1>2, <1>3, <1>4, <1>5, <1>6, <1>7, <1>8

(* A step in which nobody blocks, is woken or is queued.                   *)
QueuesUntouched ==
    /\ sem' = sem
    /\ \A q \in Process : \/ pc'[q] = pc[q] /\ handle'[q] = handle[q]
                          \/ pc[q] # "blocked" /\ pc'[q] # "blocked"

(* So the queues stay.                                                     *)
LEMMA QueuesStay ==
    ASSUME IInv, QueuesUntouched
    PROVE  Queued'
  <1>1. ASSUME NEW s \in Sem
        PROVE  HoldersAt({"blocked"}, s)' = HoldersAt({"blocked"}, s)
    BY DEF HoldersAt, QueuesUntouched
  <1>. QED
    BY <1>1 DEF IInv, Queued, QueuesUntouched

(* The type of the semaphores.                                             *)
SemTyped == sem \in [Sem -> [count : Nat, waiting : Seq(Process)]]

(* A system call that gives slot i of one table of p the object v instead  *)
(* of u, and counts them: sem, open and close.                             *)
SlotCall(p, u, v) ==
    /\ pc[p] = "user"
    /\ \/ /\ u \in Sem \cup {None} /\ v \in Sem \cup {None}
          /\ \E i \in 0..(NSEM - 1) : Assigns(sems, sems', p, i, u, v)
          /\ files' = files
       \/ /\ u \in OpenFile \cup {None} /\ v \in OpenFile \cup {None}
          /\ \E i \in 0..(NFILE - 1) : Assigns(files, files', p, i, u, v)
          /\ sems' = sems
    /\ ref' = [o \in Object |-> (ref[o] - Same(o, u)) + Same(o, v)]
    /\ children' = children /\ outRef' = outRef /\ out' = out
    /\ procRef' = procRef /\ pc' = pc /\ handle' = handle

(* The tables add up after it.                                             *)
SlotCallCounts(p, u, v) ==
    /\ sems' \in [Process -> [0..(NSEM - 1) -> Sem \cup {None}]]
    /\ files' \in [Process -> [0..(NFILE - 1) -> OpenFile \cup {None}]]
    /\ OtherRowsSame(sems, sems', p) /\ OtherRowsSame(files, files', p)
    /\ \A o \in Object : Number(sems', NSEM, o) + Number(files', NFILE, o)
          = ((Number(sems, NSEM, o) + Number(files, NFILE, o)) - Same(o, u)) + Same(o, v)

(* Such a call keeps the invariant.                                        *)
LEMMA SlotCallKeeps ==
    ASSUME IInv, NEW p \in Process, NEW u, NEW v, SlotCall(p, u, v), SemTyped', Queued'
    PROVE  IInv'
  <1>1. ASSUME NEW o, o \in Object
        PROVE  ref'[o] = (ref[o] - Same(o, u)) + Same(o, v)
    BY <1>1 DEF SlotCall
  <1>2. ref' \in [Object -> Int]
    BY DEF SlotCall, IInv, TypeOK, Same
  <1>3. /\ pc[p] = "user" /\ children' = children /\ outRef' = outRef /\ out' = out
        /\ procRef' = procRef /\ pc' = pc /\ handle' = handle
    BY DEF SlotCall
  <1>4. SlotCallCounts(p, u, v)
    <2>0. /\ sems \in [Process -> [0..(NSEM - 1) -> Sem \cup {None}]]
          /\ files \in [Process -> [0..(NFILE - 1) -> OpenFile \cup {None}]]
      BY DEF IInv, TypeOK
    <2>a. \A o : Number(files, NFILE, o) \in Nat /\ Number(sems, NSEM, o) \in Nat
      BY Constants, SlotsFinite
    <2>b. \A o : Same(o, u) \in Int /\ Same(o, v) \in Int
      BY DEF Same
    <2>1. ASSUME v \in Sem \cup {None}, files' = files, NEW i \in 0..(NSEM - 1),
                 Assigns(sems, sems', p, i, u, v)
          PROVE  SlotCallCounts(p, u, v)
      <3>1. /\ sems' \in [Process -> [0..(NSEM - 1) -> Sem \cup {None}]]
            /\ Swaps(sems, sems', NSEM, p, i, u, v)
        BY <2>0, <2>1, SlotSet
      <3>2. \A o : Number(sems', NSEM, o) = (Number(sems, NSEM, o) - Same(o, u)) + Same(o, v)
        BY <3>1, Constants, SlotChanged
      <3>. QED
        BY <3>1, <3>2, <2>0, <2>1, <2>a, <2>b DEF Swaps, OtherRowsSame, SlotCallCounts
    <2>2. ASSUME v \in OpenFile \cup {None}, sems' = sems, NEW i \in 0..(NFILE - 1),
                 Assigns(files, files', p, i, u, v)
          PROVE  SlotCallCounts(p, u, v)
      <3>1. /\ files' \in [Process -> [0..(NFILE - 1) -> OpenFile \cup {None}]]
            /\ Swaps(files, files', NFILE, p, i, u, v)
        BY <2>0, <2>2, SlotSet
      <3>2. \A o : Number(files', NFILE, o) = (Number(files, NFILE, o) - Same(o, u)) + Same(o, v)
        BY <3>1, Constants, SlotChanged
      <3>. QED
        BY <3>1, <3>2, <2>0, <2>2, <2>a, <2>b DEF Swaps, OtherRowsSame, SlotCallCounts
    <2>. QED
      BY <2>1, <2>2 DEF SlotCall
  <1>5. TypeOK'
    BY <1>2, <1>3, <1>4 DEF IInv, TypeOK, SemTyped, SlotCallCounts
  <1>6. HandleKinds'
    BY <1>3 DEF IInv, HandleKinds
  <1>7. ObjectsExact'
    <2>. SUFFICES ASSUME NEW o \in Object
                  PROVE  ref'[o] = Number(sems', NSEM, o) + Number(files', NFILE, o) + HeldBy(o)'
      BY DEF ObjectsExact
    <2>1. HeldBy(o)' = HeldBy(o)
      BY <1>3 DEF HeldBy, Holders
    <2>2. ref[o] = Number(sems, NSEM, o) + Number(files, NFILE, o) + HeldBy(o)
      BY DEF IInv, ObjectsExact
    <2>3. /\ Number(sems, NSEM, o) \in Nat /\ Number(files, NFILE, o) \in Nat
          /\ HeldBy(o) \in Nat /\ Same(o, u) \in Nat /\ Same(o, v) \in Nat
      BY Constants, SlotsFinite, Counted DEF Same
    <2>. QED
      BY <1>1, <1>4, <2>1, <2>2, <2>3 DEF SlotCallCounts
  <1>8. GoneIsEmpty'
    BY <1>3, <1>4, Alive DEF IInv, GoneIsEmpty, OtherRowsSame, SlotCallCounts
  <1>9. SemaphoreCall
    BY <1>3 DEF SemaphoreCall
  <1>. QED
    BY <1>5, <1>6, <1>7, <1>8, <1>9, ProcessesStay DEF IInv

(* The types of the counts.                                                *)
LEMMA RefsTyped ==
    ASSUME IInv
    PROVE  /\ ref \in [Object -> Int] /\ \A o \in Object : ref[o] \in Int
           /\ Sem \subseteq Object /\ OpenFile \subseteq Object
  BY DEF IInv, TypeOK, Object

(* Counting one more reference is replacing None by s ...                  *)
LEMMA RefAdded ==
    ASSUME NEW count \in [Object -> Int], NEW s \in Object
    PROVE  AddTo(count, s) = [o \in Object |-> (count[o] - Same(o, None)) + Same(o, s)]
  <1>1. \A o \in Object : AddTo(count, s)[o] = (count[o] - Same(o, None)) + Same(o, s)
    <2>. SUFFICES ASSUME NEW o \in Object
                  PROVE  AddTo(count, s)[o] = (count[o] - Same(o, None)) + Same(o, s)
      OBVIOUS
    <2>1. count[o] \in Int /\ Same(o, None) = 0
      BY NotNone
    <2>. QED
      BY <2>1 DEF AddTo, Same
  <1>2. AddTo(count, s) \in [Object -> Int]
    BY DEF AddTo
  <1>. QED
    BY <1>1, <1>2

(* ... and counting one less is replacing s by None.                       *)
LEMMA RefDropped ==
    ASSUME NEW count \in [Object -> Int], NEW s \in Object
    PROVE  DropFrom(count, s) = [o \in Object |-> (count[o] - Same(o, s)) + Same(o, None)]
  <1>1. \A o \in Object : DropFrom(count, s)[o] = (count[o] - Same(o, s)) + Same(o, None)
    <2>. SUFFICES ASSUME NEW o \in Object
                  PROVE  DropFrom(count, s)[o] = (count[o] - Same(o, s)) + Same(o, None)
      OBVIOUS
    <2>1. count[o] \in Int /\ Same(o, None) = 0
      BY NotNone
    <2>. QED
      BY <2>1 DEF DropFrom, Same
  <1>2. DropFrom(count, s) \in [Object -> Int]
    BY DEF DropFrom
  <1>. QED
    BY <1>1, <1>2

(* NewSemaphore keeps the invariant.                                       *)
LEMMA NewSemaphoreKeeps ==
    ASSUME IInv, NEW p \in Process, NEW s \in Sem, NEW n \in InitialCount, NewSemaphore(p, s, n)
    PROVE  IInv'
  <1>1. FirstFree(sems[p]) \in 0..(NSEM - 1) /\ sems[p][FirstFree(sems[p])] = None
    <2>1. sems[p] \in [0..(NSEM - 1) -> Sem \cup {None}] /\ ~Full(sems[p])
      BY Tables DEF NewSemaphore, IInv
    <2>. QED
      BY <2>1, Constants, FreeSlot
  <1>2. Assigns(sems, sems', p, FirstFree(sems[p]), None, s)
    BY <1>1 DEF Assigns, NewSemaphore
  <1>3. ref' = [o \in Object |-> (ref[o] - Same(o, None)) + Same(o, s)]
    BY RefsTyped, RefAdded DEF NewSemaphore
  <1>4. SlotCall(p, None, s)
    BY <1>1, <1>2, <1>3 DEF SlotCall, NewSemaphore
  <1>5. /\ pc' = pc /\ handle' = handle /\ ref[s] = 0 /\ sem' = [sem EXCEPT ![s] = Made(n)]
    BY DEF NewSemaphore
  <1>6. SemTyped'
    <2>1. Made(n) \in [count : Nat, waiting : Seq(Process)]
      BY Constants DEF Made
    <2>. QED
      BY <1>5, <2>1 DEF IInv, TypeOK, SemTyped
  <1>7. Queued'
    <2>1. HoldersAt({"blocked"}, s) = {}
      BY <1>5, Alive, RefsTyped DEF HoldersAt
    <2>2. ASSUME NEW t \in Sem
          PROVE  HoldersAt({"blocked"}, t)' = HoldersAt({"blocked"}, t)
      BY <1>5 DEF HoldersAt
    <2>3. Line(<<>>, {})
      BY DEF Line
    <2>4. sem'[s].waiting = <<>> /\ \A t \in Sem \ {s} : sem'[t] = sem[t]
      BY <1>5 DEF IInv, TypeOK, Made
    <2>. QED
      BY <2>1, <2>2, <2>3, <2>4 DEF IInv, Queued
  <1>. QED
    BY <1>4, <1>6, <1>7, SlotCallKeeps

(* Open keeps the invariant.                                               *)
LEMMA OpenKeeps ==
    ASSUME IInv, NEW p \in Process, NEW f \in OpenFile, Open(p, f)
    PROVE  IInv'
  <1>1. FirstFree(files[p]) \in 0..(NFILE - 1) /\ files[p][FirstFree(files[p])] = None
    <2>1. files[p] \in [0..(NFILE - 1) -> OpenFile \cup {None}] /\ ~Full(files[p])
      BY Tables DEF Open, IInv
    <2>. QED
      BY <2>1, Constants, FreeSlot
  <1>2. Assigns(files, files', p, FirstFree(files[p]), None, f)
    BY <1>1 DEF Assigns, Open
  <1>3. ref' = [o \in Object |-> (ref[o] - Same(o, None)) + Same(o, f)]
    BY RefsTyped, RefAdded DEF Open
  <1>4. SlotCall(p, None, f)
    BY <1>1, <1>2, <1>3 DEF SlotCall, Open
  <1>5. SemTyped' /\ Queued'
    BY QueuesStay DEF Open, QueuesUntouched, IInv, TypeOK, SemTyped
  <1>. QED
    BY <1>4, <1>5, SlotCallKeeps

(* CloseSemaphore keeps the invariant.                                     *)
LEMMA CloseSemaphoreKeeps ==
    ASSUME IInv, NEW p \in Process, NEW i \in 0..(NSEM - 1), CloseSemaphore(p, i)
    PROVE  IInv'
  <1>1. sems[p][i] \in Sem
    BY Tables DEF CloseSemaphore, IInv
  <1>2. Assigns(sems, sems', p, i, sems[p][i], None)
    BY DEF Assigns, CloseSemaphore
  <1>3. ref' = [o \in Object |-> (ref[o] - Same(o, sems[p][i])) + Same(o, None)]
    BY <1>1, RefsTyped, RefDropped DEF CloseSemaphore
  <1>4. SlotCall(p, sems[p][i], None)
    BY <1>1, <1>2, <1>3 DEF SlotCall, CloseSemaphore
  <1>5. SemTyped' /\ Queued'
    BY QueuesStay DEF CloseSemaphore, QueuesUntouched, IInv, TypeOK, SemTyped
  <1>. QED
    BY <1>4, <1>5, SlotCallKeeps

(* CloseFile keeps the invariant.                                          *)
LEMMA CloseFileKeeps ==
    ASSUME IInv, NEW p \in Process, NEW i \in 0..(NFILE - 1), CloseFile(p, i)
    PROVE  IInv'
  <1>1. files[p][i] \in OpenFile
    BY Tables DEF CloseFile, IInv
  <1>2. Assigns(files, files', p, i, files[p][i], None)
    BY DEF Assigns, CloseFile
  <1>3. ref' = [o \in Object |-> (ref[o] - Same(o, files[p][i])) + Same(o, None)]
    BY <1>1, RefsTyped, RefDropped DEF CloseFile
  <1>4. SlotCall(p, files[p][i], None)
    BY <1>1, <1>2, <1>3 DEF SlotCall, CloseFile
  <1>5. SemTyped' /\ Queued'
    BY QueuesStay DEF CloseFile, QueuesUntouched, IInv, TypeOK, SemTyped
  <1>. QED
    BY <1>4, <1>5, SlotCallKeeps

(* A step of a call that only moves its local variable.                    *)
CalmCall ==
    /\ sems' = sems /\ files' = files
    /\ SemaphoreCall
    /\ ref' \in [Object -> Int] /\ pc' \in [Process -> Labels]
    /\ handle' \in [Process -> Process \cup Sem \cup OpenFile \cup {None}]

(* It keeps what is not about that variable.                               *)
LEMMA CalmCallKeeps ==
    ASSUME IInv, CalmCall, HandleKinds', ObjectsExact', SemTyped', Queued'
    PROVE  IInv'
  <1>1. TypeOK'
    BY DEF CalmCall, SemaphoreCall, SemTyped, IInv, TypeOK
  <1>2. GoneIsEmpty'
    BY DEF CalmCall, SemaphoreCall, IInv, GoneIsEmpty
  <1>. QED
    BY <1>1, <1>2, ProcessesStay DEF CalmCall, IInv

(* The counts stay right when nothing they count changes ...               *)
LEMMA ObjectsStay ==
    ASSUME IInv, sems' = sems, files' = files, handle' = handle, ref' = ref
    PROVE  ObjectsExact'
  <1>1. \A o : HeldBy(o)' = HeldBy(o)
    BY DEF HeldBy, Holders
  <1>. QED
    BY <1>1 DEF IInv, ObjectsExact

(* The local variable of p becomes v instead of u, and that is counted.    *)
HandsOver(p, u, v) ==
    /\ sems' = sems /\ files' = files
    /\ handle[p] = u /\ handle' = [handle EXCEPT ![p] = v]
    /\ ref' = [o \in Object |-> (ref[o] - Same(o, u)) + Same(o, v)]

(* ... or when the local variable changes and is counted.                  *)
LEMMA HandleMoves ==
    ASSUME IInv, NEW p \in Process, NEW u, NEW v, HandsOver(p, u, v)
    PROVE  ObjectsExact'
  <1>. SUFFICES ASSUME NEW o \in Object
                PROVE  ref'[o] = Number(sems, NSEM, o) + Number(files, NFILE, o) + HeldBy(o)'
    BY DEF ObjectsExact, HandsOver
  <1>1. /\ Holders(o) \in SUBSET Process /\ Holders(o)' \in SUBSET Process
        /\ \A q \in Process \ {p} : q \in Holders(o) <=> q \in Holders(o)'
        /\ (p \in Holders(o)) <=> (o = u)
        /\ (p \in Holders(o)') <=> (o = v)
    BY DEF Holders, IInv, TypeOK, HandsOver
  <1>2. HeldBy(o)' = (HeldBy(o) - One(p \in Holders(o))) + One(p \in Holders(o)')
    BY <1>1, Changed DEF HeldBy
  <1>3. HeldBy(o)' = (HeldBy(o) - Same(o, u)) + Same(o, v)
    BY <1>1, <1>2 DEF One, Same
  <1>4. ref'[o] = (ref[o] - Same(o, u)) + Same(o, v)
    BY DEF HandsOver
  <1>5. /\ Number(sems, NSEM, o) \in Nat /\ Number(files, NFILE, o) \in Nat
        /\ HeldBy(o) \in Nat /\ Same(o, u) \in Nat /\ Same(o, v) \in Nat
    BY Constants, SlotsFinite, Counted DEF Same
  <1>6. ref[o] = Number(sems, NSEM, o) + Number(files, NFILE, o) + HeldBy(o)
    BY DEF IInv, ObjectsExact
  <1>. QED
    BY <1>3, <1>4, <1>5, <1>6

(* GetSemaphore keeps the invariant.                                       *)
LEMMA GetSemaphoreKeeps ==
    ASSUME IInv, NEW p \in Process, NEW i \in 0..(NSEM - 1), NEW op \in {"up", "down"},
           GetSemaphore(p, i, op)
    PROVE  IInv'
  <1>1. /\ pc[p] = "user" /\ sems' = sems /\ files' = files /\ children' = children
        /\ outRef' = outRef /\ out' = out /\ procRef' = procRef /\ sem' = sem
        /\ pc' = [pc EXCEPT ![p] = op] /\ handle' = [handle EXCEPT ![p] = sems[p][i]]
        /\ ref' = AddTo(ref, sems[p][i])
    BY DEF GetSemaphore, tables, Hold, Goto
  <1>2. sems[p][i] \in Sem
    BY Tables DEF GetSemaphore, IInv
  <1>3. /\ handle[p] = None
        /\ pc \in [Process -> Labels]
        /\ handle \in [Process -> Process \cup Sem \cup OpenFile \cup {None}]
    BY <1>1 DEF IInv, HandleKinds, OnSem, OnFile, OnProcess, TypeOK
  <1>4. ref' = [o \in Object |-> (ref[o] - Same(o, None)) + Same(o, sems[p][i])]
    BY <1>1, <1>2, RefsTyped, RefAdded
  <1>5. ref' \in [Object -> Int]
    BY <1>4, RefsTyped DEF Same
  <1>6. CalmCall
    BY <1>1, <1>2, <1>3, <1>5 DEF CalmCall, SemaphoreCall, Calm, Labels
  <1>7. HandleKinds'
    BY <1>1, <1>2, <1>3 DEF IInv, HandleKinds, OnSem, OnFile, OnProcess
  <1>8. ObjectsExact'
    <2>1. HandsOver(p, None, sems[p][i])
      BY <1>1, <1>3, <1>4 DEF HandsOver
    <2>. QED
      BY <2>1, HandleMoves
  <1>9. SemTyped' /\ Queued'
    BY <1>1, <1>3, QueuesStay DEF QueuesUntouched, IInv, TypeOK, SemTyped
  <1>. QED
    BY <1>6, <1>7, <1>8, <1>9, CalmCallKeeps

(* SemReturn keeps the invariant.                                          *)
LEMMA SemReturnKeeps ==
    ASSUME IInv, NEW p \in Process, SemReturn(p)
    PROVE  IInv'
  <1>1. /\ pc[p] = "return" /\ sems' = sems /\ files' = files /\ children' = children
        /\ outRef' = outRef /\ out' = out /\ procRef' = procRef /\ sem' = sem
        /\ pc' = [pc EXCEPT ![p] = "user"] /\ handle' = [handle EXCEPT ![p] = None]
        /\ ref' = DropFrom(ref, handle[p])
    BY DEF SemReturn, tables, Hold, Goto
  <1>2. /\ handle[p] \in Sem
        /\ pc \in [Process -> Labels]
        /\ handle \in [Process -> Process \cup Sem \cup OpenFile \cup {None}]
    BY <1>1 DEF IInv, HandleKinds, OnSem, OnFile, OnProcess, TypeOK
  <1>4. ref' = [o \in Object |-> (ref[o] - Same(o, handle[p])) + Same(o, None)]
    BY <1>1, <1>2, RefsTyped, RefDropped
  <1>5. ref' \in [Object -> Int]
    BY <1>4, RefsTyped DEF Same
  <1>6. CalmCall
    BY <1>1, <1>2, <1>5 DEF CalmCall, SemaphoreCall, Calm, Labels
  <1>7. HandleKinds'
    BY <1>1, <1>2 DEF IInv, HandleKinds, OnSem, OnFile, OnProcess
  <1>8. ObjectsExact'
    <2>1. HandsOver(p, handle[p], None)
      BY <1>1, <1>2, <1>4 DEF HandsOver
    <2>. QED
      BY <2>1, HandleMoves
  <1>9. SemTyped' /\ Queued'
    BY <1>1, <1>2, QueuesStay DEF QueuesUntouched, IInv, TypeOK, SemTyped
  <1>. QED
    BY <1>6, <1>7, <1>8, <1>9, CalmCallKeeps

(* GetFile keeps the invariant.                                            *)
LEMMA GetFileKeeps ==
    ASSUME IInv, NEW p \in Process, NEW i \in 0..(NFILE - 1), GetFile(p, i)
    PROVE  IInv'
  <1>1. /\ pc[p] = "user" /\ sems' = sems /\ files' = files /\ children' = children
        /\ outRef' = outRef /\ out' = out /\ procRef' = procRef /\ sem' = sem
        /\ pc' = [pc EXCEPT ![p] = "file"] /\ handle' = [handle EXCEPT ![p] = files[p][i]]
        /\ ref' = AddTo(ref, files[p][i])
    BY DEF GetFile, tables, Hold, Goto
  <1>2. files[p][i] \in OpenFile
    BY Tables DEF GetFile, IInv
  <1>3. /\ handle[p] = None
        /\ pc \in [Process -> Labels]
        /\ handle \in [Process -> Process \cup Sem \cup OpenFile \cup {None}]
    BY <1>1 DEF IInv, HandleKinds, OnSem, OnFile, OnProcess, TypeOK
  <1>4. ref' = [o \in Object |-> (ref[o] - Same(o, None)) + Same(o, files[p][i])]
    BY <1>1, <1>2, RefsTyped, RefAdded
  <1>5. ref' \in [Object -> Int]
    BY <1>4, RefsTyped DEF Same
  <1>6. CalmCall
    BY <1>1, <1>2, <1>3, <1>5 DEF CalmCall, SemaphoreCall, Calm, Labels
  <1>7. HandleKinds'
    BY <1>1, <1>2, <1>3 DEF IInv, HandleKinds, OnSem, OnFile, OnProcess
  <1>8. ObjectsExact'
    <2>1. HandsOver(p, None, files[p][i])
      BY <1>1, <1>3, <1>4 DEF HandsOver
    <2>. QED
      BY <2>1, HandleMoves
  <1>9. SemTyped' /\ Queued'
    BY <1>1, <1>3, QueuesStay DEF QueuesUntouched, IInv, TypeOK, SemTyped
  <1>. QED
    BY <1>6, <1>7, <1>8, <1>9, CalmCallKeeps

(* FileReturn keeps the invariant.                                         *)
LEMMA FileReturnKeeps ==
    ASSUME IInv, NEW p \in Process, FileReturn(p)
    PROVE  IInv'
  <1>1. /\ pc[p] = "file" /\ sems' = sems /\ files' = files /\ children' = children
        /\ outRef' = outRef /\ out' = out /\ procRef' = procRef /\ sem' = sem
        /\ pc' = [pc EXCEPT ![p] = "user"] /\ handle' = [handle EXCEPT ![p] = None]
        /\ ref' = DropFrom(ref, handle[p])
    BY DEF FileReturn, tables, Hold, Goto
  <1>2. /\ handle[p] \in OpenFile
        /\ pc \in [Process -> Labels]
        /\ handle \in [Process -> Process \cup Sem \cup OpenFile \cup {None}]
    BY <1>1 DEF IInv, HandleKinds, OnSem, OnFile, OnProcess, TypeOK
  <1>4. ref' = [o \in Object |-> (ref[o] - Same(o, handle[p])) + Same(o, None)]
    BY <1>1, <1>2, RefsTyped, RefDropped
  <1>5. ref' \in [Object -> Int]
    BY <1>4, RefsTyped DEF Same
  <1>6. CalmCall
    BY <1>1, <1>2, <1>5 DEF CalmCall, SemaphoreCall, Calm, Labels
  <1>7. HandleKinds'
    BY <1>1, <1>2 DEF IInv, HandleKinds, OnSem, OnFile, OnProcess
  <1>8. ObjectsExact'
    <2>1. HandsOver(p, handle[p], None)
      BY <1>1, <1>2, <1>4 DEF HandsOver
    <2>. QED
      BY <2>1, HandleMoves
  <1>9. SemTyped' /\ Queued'
    BY <1>1, <1>2, QueuesStay DEF QueuesUntouched, IInv, TypeOK, SemTyped
  <1>. QED
    BY <1>6, <1>7, <1>8, <1>9, CalmCallKeeps

(* ForkCall keeps the invariant.                                           *)
LEMMA ForkCallKeeps ==
    ASSUME IInv, NEW p \in Process, ForkCall(p)
    PROVE  IInv'
  <1>1. /\ pc[p] = "user" /\ sems' = sems /\ files' = files /\ children' = children
        /\ outRef' = outRef /\ out' = out /\ procRef' = procRef /\ sem' = sem
        /\ pc' = [pc EXCEPT ![p] = "fork"] /\ handle' = handle /\ ref' = ref
    BY DEF ForkCall, tables, Goto
  <1>2. /\ pc \in [Process -> Labels]
        /\ handle \in [Process -> Process \cup Sem \cup OpenFile \cup {None}]
        /\ ref \in [Object -> Int]
    BY DEF IInv, TypeOK
  <1>3. CalmCall
    BY <1>1, <1>2 DEF CalmCall, SemaphoreCall, Calm, Labels
  <1>4. HandleKinds'
    BY <1>1, <1>2 DEF IInv, HandleKinds, OnSem, OnFile, OnProcess
  <1>5. SemTyped' /\ Queued'
    BY <1>1, <1>2, QueuesStay DEF QueuesUntouched, IInv, TypeOK, SemTyped
  <1>. QED
    BY <1>1, <1>3, <1>4, <1>5, ObjectsStay, CalmCallKeeps

(* Down keeps the invariant.                                               *)
LEMMA DownKeeps ==
    ASSUME IInv, NEW p \in Process, Down(p)
    PROVE  IInv'
  <1>1. /\ pc[p] = "down" /\ sems' = sems /\ files' = files /\ children' = children
        /\ outRef' = outRef /\ out' = out /\ procRef' = procRef /\ ref' = ref
        /\ handle' = handle
    BY DEF Down, tables
  <1>2. /\ pc \in [Process -> Labels]
        /\ handle \in [Process -> Process \cup Sem \cup OpenFile \cup {None}]
        /\ ref \in [Object -> Int] /\ sem \in [Sem -> [count : Nat, waiting : Seq(Process)]]
    BY DEF IInv, TypeOK
  <1>3. handle[p] \in Sem
    BY <1>1 DEF IInv, HandleKinds, OnSem
  <1>4. PICK s \in Sem : s = handle[p]
    BY <1>3
  <1>5. PICK l \in {"return", "blocked"} : pc' = [pc EXCEPT ![p] = l]
    BY DEF Down, Goto
  <1>6. CalmCall
    BY <1>1, <1>2, <1>5 DEF CalmCall, SemaphoreCall, Calm, Labels
  <1>7. HandleKinds'
    BY <1>1, <1>2, <1>3, <1>5 DEF IInv, HandleKinds, OnSem, OnFile, OnProcess
  <1>8. SemTyped' /\ Queued'
    <2>1. CASE /\ Free(sem[s]) /\ sem' = [sem EXCEPT ![s] = Taken(@)]
               /\ pc' = [pc EXCEPT ![p] = "return"]
      <3>1. /\ Taken(sem[s]) \in [count : Nat, waiting : Seq(Process)]
            /\ Taken(sem[s]).waiting = sem[s].waiting
        <4>1. sem[s] \in [count : Nat, waiting : Seq(Process)]
          BY <1>2
        <4>. QED
          BY <4>1, <2>1 DEF Taken, Free
      <3>2. SemTyped'
        BY <1>2, <2>1, <3>1 DEF SemTyped
      <3>3. \A t \in Sem : sem'[t].waiting = sem[t].waiting
        BY <1>2, <2>1, <3>1
      <3>4. \A t \in Sem : HoldersAt({"blocked"}, t)' = HoldersAt({"blocked"}, t)
        BY <1>1, <1>2, <2>1 DEF HoldersAt
      <3>. QED
        BY <3>2, <3>3, <3>4 DEF IInv, Queued
    <2>2. CASE /\ sem' = [sem EXCEPT ![s] = Parked(@, p)]
               /\ pc' = [pc EXCEPT ![p] = "blocked"]
      <3>1. /\ sem[s].waiting \in Seq(Process)
            /\ Parked(sem[s], p) = [count |-> sem[s].count,
                                    waiting |-> Append(sem[s].waiting, p)]
        <4>1. sem[s] \in [count : Nat, waiting : Seq(Process)]
          BY <1>2
        <4>2. sem[s] = [count |-> sem[s].count, waiting |-> sem[s].waiting]
          BY <4>1
        <4>3. sem[s].waiting \in Seq(Process)
          BY <4>1
        <4>4. Parked(sem[s], p) = [count |-> sem[s].count,
                                   waiting |-> Append(sem[s].waiting, p)]
          BY <4>2 DEF Parked
        <4>. QED
          BY <4>3, <4>4
      <3>2. /\ Line(sem[s].waiting, HoldersAt({"blocked"}, s))
            /\ p \notin HoldersAt({"blocked"}, s)
        BY <1>1 DEF IInv, Queued, HoldersAt
      <3>3. /\ Line(Append(sem[s].waiting, p), HoldersAt({"blocked"}, s) \cup {p})
            /\ Append(sem[s].waiting, p) \in Seq(Process)
        BY <3>1, <3>2, LineAppend
      <3>4. SemTyped'
        BY <1>2, <2>2, <3>1, <3>3 DEF SemTyped
      <3>5. HoldersAt({"blocked"}, s)' = HoldersAt({"blocked"}, s) \cup {p}
        BY <1>1, <1>2, <1>4, <2>2 DEF HoldersAt
      <3>6. \A t \in Sem \ {s} : HoldersAt({"blocked"}, t)' = HoldersAt({"blocked"}, t)
        BY <1>1, <1>2, <1>4, <2>2 DEF HoldersAt
      <3>7. /\ sem'[s].waiting = Append(sem[s].waiting, p)
            /\ \A t \in Sem \ {s} : sem'[t] = sem[t]
        BY <1>2, <2>2, <3>1
      <3>. QED
        BY <3>3, <3>4, <3>5, <3>6, <3>7 DEF IInv, Queued
    <2>. QED
      BY <1>4, <2>1, <2>2 DEF Down, Goto
  <1>. QED
    BY <1>1, <1>6, <1>7, <1>8, ObjectsStay, CalmCallKeeps

(* Up keeps the invariant.                                                 *)
LEMMA UpKeeps ==
    ASSUME IInv, NEW p \in Process, Up(p)
    PROVE  IInv'
  <1>1. /\ pc[p] = "up" /\ sems' = sems /\ files' = files /\ children' = children
        /\ outRef' = outRef /\ out' = out /\ procRef' = procRef /\ ref' = ref
        /\ handle' = handle
    BY DEF Up, tables
  <1>2. /\ pc \in [Process -> Labels]
        /\ handle \in [Process -> Process \cup Sem \cup OpenFile \cup {None}]
        /\ ref \in [Object -> Int] /\ sem \in [Sem -> [count : Nat, waiting : Seq(Process)]]
    BY DEF IInv, TypeOK
  <1>3. handle[p] \in Sem
    BY <1>1 DEF IInv, HandleKinds, OnSem
  <1>4. PICK s \in Sem : s = handle[p]
    BY <1>3
  <1>5. /\ sem' = [sem EXCEPT ![s] = Raised(@)]
        /\ pc' = [q \in Process |->
                    IF q = p \/ q \in Released(sem[s]) THEN "return" ELSE pc[q]]
    BY <1>4 DEF Up
  <1>6. Line(sem[s].waiting, HoldersAt({"blocked"}, s))
    BY DEF IInv, Queued
  <1>7. CASE sem[s].waiting = <<>>
    <2>1. Released(sem[s]) = {}
      BY <1>7 DEF Released
    <2>2. pc' = [pc EXCEPT ![p] = "return"]
      BY <1>2, <1>5, <2>1
    <2>3. /\ Raised(sem[s]) \in [count : Nat, waiting : Seq(Process)]
          /\ Raised(sem[s]).waiting = sem[s].waiting
      <3>1. sem[s] \in [count : Nat, waiting : Seq(Process)]
        BY <1>2
      <3>. QED
        BY <3>1, <1>7 DEF Raised
    <2>4. SemTyped' /\ \A t \in Sem : sem'[t].waiting = sem[t].waiting
      BY <1>2, <1>5, <2>3 DEF SemTyped
    <2>5. \A t \in Sem : HoldersAt({"blocked"}, t)' = HoldersAt({"blocked"}, t)
      BY <1>1, <1>2, <2>2 DEF HoldersAt
    <2>6. Queued'
      BY <2>4, <2>5 DEF IInv, Queued
    <2>7. CalmCall
      BY <1>1, <1>2, <2>2 DEF CalmCall, SemaphoreCall, Calm, Labels
    <2>8. HandleKinds'
      BY <1>1, <1>2, <1>3, <2>2 DEF IInv, HandleKinds, OnSem, OnFile, OnProcess
    <2>. QED
      BY <1>1, <2>4, <2>6, <2>7, <2>8, ObjectsStay, CalmCallKeeps
  <1>8. CASE sem[s].waiting # <<>>
    <2>0. sem[s].waiting \in Seq(Process)
      BY <1>2
    <2>1. PICK h \in Process : h = Head(sem[s].waiting) /\ h \in HoldersAt({"blocked"}, s)
      BY <1>6, <1>8, <2>0, LineTail
    <2>2. /\ Released(sem[s]) = {h} /\ pc[h] = "blocked" /\ handle[h] = s /\ h # p
      BY <1>1, <1>8, <2>1 DEF Released, HoldersAt
    <2>3. \A q \in Process : pc'[q] = IF q = p \/ q = h THEN "return" ELSE pc[q]
      BY <1>5, <2>2
    <2>4. /\ Line(Tail(sem[s].waiting), HoldersAt({"blocked"}, s) \ {h})
          /\ Tail(sem[s].waiting) \in Seq(Process)
      BY <1>6, <1>8, <2>0, <2>1, LineTail
    <2>5. Raised(sem[s]) = [count |-> sem[s].count, waiting |-> Tail(sem[s].waiting)]
      BY <1>2, <1>8 DEF Raised
    <2>6. SemTyped'
      BY <1>2, <1>5, <2>4, <2>5 DEF SemTyped
    <2>7. /\ sem'[s].waiting = Tail(sem[s].waiting)
          /\ \A t \in Sem \ {s} : sem'[t] = sem[t]
      BY <1>2, <1>5, <2>5
    <2>8. HoldersAt({"blocked"}, s)' = HoldersAt({"blocked"}, s) \ {h}
      BY <1>1, <2>2, <2>3 DEF HoldersAt
    <2>9. \A t \in Sem \ {s} : HoldersAt({"blocked"}, t)' = HoldersAt({"blocked"}, t)
      BY <1>1, <2>2, <2>3 DEF HoldersAt
    <2>10. Queued'
      BY <2>4, <2>7, <2>8, <2>9 DEF IInv, Queued
    <2>11. pc' \in [Process -> Labels]
      BY <1>2, <1>5 DEF Labels
    <2>12. CalmCall
      BY <1>1, <1>2, <2>2, <2>3, <2>11 DEF CalmCall, SemaphoreCall, Calm
    <2>13. HandleKinds'
      BY <1>1, <1>2, <1>3, <2>2, <2>3 DEF IInv, HandleKinds, OnSem, OnFile, OnProcess
    <2>. QED
      BY <1>1, <2>6, <2>10, <2>12, <2>13, ObjectsStay, CalmCallKeeps
  <1>. QED
    BY <1>7, <1>8

(* AddTo and DropFrom, place by place.                                     *)
LEMMA OneMore ==
    ASSUME NEW S, NEW count \in [S -> Int], NEW s \in S
    PROVE  /\ AddTo(count, s) \in [S -> Int] /\ DropFrom(count, s) \in [S -> Int]
           /\ \A o \in S : AddTo(count, s)[o] = count[o] + Same(o, s)
           /\ \A o \in S : DropFrom(count, s)[o] = count[o] - Same(o, s)
  <1>1. ASSUME NEW o \in S
        PROVE  /\ AddTo(count, s)[o] = count[o] + Same(o, s)
               /\ DropFrom(count, s)[o] = count[o] - Same(o, s)
    <2>1. count[o] \in Int
      OBVIOUS
    <2>2. CASE o = s
      BY <2>1, <2>2 DEF AddTo, DropFrom, Same
    <2>3. CASE o # s
      BY <2>1, <2>3 DEF AddTo, DropFrom, Same
    <2>. QED
      BY <2>2, <2>3
  <1>. QED
    BY <1>1 DEF AddTo, DropFrom

(* The counts after a step are numbers, and a slot that holds o is         *)
(* counted.                                                                *)
LEMMA CountedNext ==
    ASSUME NEW o
    PROVE  /\ WaitedFor(o)' \in Nat
           /\ Number(children', NCHILD, o) \in Nat
           /\ \A p \in Process, i \in 0..(NCHILD - 1) : children'[p][i] = o =>
                 Number(children', NCHILD, o) # 0
  <1>1. HoldersAt({"wait"}, o)' \in SUBSET Process
    BY DEF HoldersAt
  <1>2. WaitedFor(o)' \in Nat
    BY <1>1, Members DEF WaitedFor
  <1>. QED
    BY <1>2, Constants, SlotsFinite, SlotCounted

(* A step in which nobody exits and no slot gets a child: a status is      *)
(* dropped with the last reference to it.                                  *)
KeepsStatuses ==
    /\ out' = [c \in Process |-> IF outRef'[c] = 0 THEN None ELSE out[c]]
    /\ \A p \in Process : \A i \in 0..(NCHILD - 1) :
          children'[p][i] # None => children'[p][i] = children[p][i]
    /\ \A p \in Process : pc'[p] \in {"exited", "absent"} <=> pc[p] \in {"exited", "absent"}

(* Then a status that a slot refers to stays.                              *)
LEMMA StatusesStay ==
    ASSUME IInv, KeepsStatuses, OutsExact'
    PROVE  StatusOnlyWhenHeld' /\ StatusOfChild' /\ StatusAfterExit'
  <1>1. StatusOnlyWhenHeld' /\ StatusAfterExit'
    BY DEF KeepsStatuses, IInv, StatusOnlyWhenHeld, StatusAfterExit
  <1>2. ASSUME NEW p \in Process, NEW i \in 0..(NCHILD - 1), children'[p][i] # None,
               pc'[children'[p][i]] \in {"exited", "absent"}
        PROVE  out'[children'[p][i]] # None
    <2>1. children'[p][i] = children[p][i]
      BY <1>2 DEF KeepsStatuses
    <2>2. PICK c \in Process : c = children[p][i]
      BY <1>2, <2>1, Tables DEF IInv
    <2>3. outRef'[c] # 0
      <3>1. Number(children', NCHILD, c) # 0 /\ Number(children', NCHILD, c) \in Nat
            /\ WaitedFor(c)' \in Nat
        BY <2>1, <2>2, CountedNext
      <3>2. outRef'[c] = Number(children', NCHILD, c) + WaitedFor(c)' + One(procRef'[c] > 0)
        BY DEF OutsExact
      <3>3. One(procRef'[c] > 0) \in Nat
        BY DEF One
      <3>. QED
        BY <3>1, <3>2, <3>3
    <2>4. pc[c] \in {"exited", "absent"}
      BY <1>2, <2>1, <2>2 DEF KeepsStatuses
    <2>5. out[c] # None
      BY <1>2, <2>1, <2>2, <2>4 DEF IInv, StatusOfChild
    <2>. QED
      BY <2>1, <2>2, <2>3, <2>5 DEF KeepsStatuses
  <1>. QED
    BY <1>1, <1>2 DEF StatusOfChild

(* CloseChild keeps the invariant.                                         *)
LEMMA CloseChildKeeps ==
    ASSUME IInv, NEW p \in Process, NEW i \in 0..(NCHILD - 1), CloseChild(p, i)
    PROVE  IInv'
  <1>1. PICK c \in Process : c = children[p][i]
    BY Tables DEF CloseChild, IInv
  <1>2. /\ pc[p] = "user" /\ sems' = sems /\ files' = files /\ ref' = ref
        /\ procRef' = procRef /\ sem' = sem /\ pc' = pc /\ handle' = handle
        /\ outRef' = DropFrom(outRef, c) /\ out' = Kept(outRef')
        /\ children' = [children EXCEPT ![p][i] = None]
    BY <1>1 DEF CloseChild
  <1>3. /\ outRef \in [Process -> Int]
        /\ children \in [Process -> [0..(NCHILD - 1) -> Process \cup {None}]]
        /\ out \in [Process -> Status \cup {None}]
    BY DEF IInv, TypeOK
  <1>4. Assigns(children, children', p, i, c, None)
    BY <1>1, <1>2 DEF Assigns
  <1>5. /\ children' \in [Process -> [0..(NCHILD - 1) -> Process \cup {None}]]
        /\ Swaps(children, children', NCHILD, p, i, c, None)
    <2>1. None \in Process \cup {None}
      OBVIOUS
    <2>. QED
      BY <1>3, <1>4, <2>1, SlotSet
  <1>6. /\ outRef' \in [Process -> Int]
        /\ \A o \in Process : outRef'[o] = outRef[o] - Same(o, c)
    <2>1. /\ DropFrom(outRef, c) \in [Process -> Int]
          /\ \A o \in Process : DropFrom(outRef, c)[o] = outRef[o] - Same(o, c)
      BY <1>3, OneMore
    <2>. QED
      BY <1>2, <2>1
  <1>7. out' \in [Process -> Status \cup {None}]
    BY <1>2, <1>3 DEF Kept
  <1>8. TypeOK'
    BY <1>2, <1>5, <1>6, <1>7 DEF IInv, TypeOK
  <1>9. OutsExact'
    <2>. SUFFICES ASSUME NEW o \in Process
                  PROVE  outRef'[o] = Number(children', NCHILD, o) + WaitedFor(o)'
                                      + One(procRef'[o] > 0)
      BY DEF OutsExact
    <2>1. /\ Number(children', NCHILD, o)
               = (Number(children, NCHILD, o) - Same(o, c)) + Same(o, None)
          /\ Number(children, NCHILD, o) \in Nat
      BY <1>5, Constants, SlotChanged
    <2>2. WaitedFor(o)' = WaitedFor(o) /\ WaitedFor(o) \in Nat
      BY <1>2, Counted DEF WaitedFor, HoldersAt
    <2>3. outRef[o] = Number(children, NCHILD, o) + WaitedFor(o) + One(procRef[o] > 0)
      BY DEF IInv, OutsExact
    <2>4. Same(o, None) = 0 /\ Same(o, c) \in Int /\ One(procRef[o] > 0) \in Int
      BY NotNone DEF Same, One
    <2>. QED
      BY <1>2, <1>6, <2>1, <2>2, <2>3, <2>4
  <1>10. ProcsExact' /\ HandleKinds' /\ Starting'
    BY <1>2 DEF IInv, ProcsExact, HandleKinds, Starting, ForkedBy, HoldersAt
  <1>11. \A q \in Process, j \in 0..(NCHILD - 1) :
            /\ (q # p \/ j # i) => children'[q][j] = children[q][j]
            /\ children'[q][j] # None => children'[q][j] = children[q][j]
    BY <1>5 DEF Swaps, OtherSlotsSame
  <1>12. OneParent'
    BY <1>11 DEF IInv, OneParent
  <1>13. WaitsForChild'
    BY <1>2, <1>11 DEF IInv, WaitsForChild
  <1>14. GoneIsEmpty'
    BY <1>2, <1>5, Alive DEF IInv, GoneIsEmpty, Swaps, OtherRowsSame
  <1>15. KeepsStatuses
    BY <1>2, <1>11 DEF KeepsStatuses, Kept
  <1>16. ObjectsExact' /\ Queued'
    BY <1>2, ObjectsStay, QueuesStay DEF QueuesUntouched
  <1>. QED
    BY <1>8, <1>9, <1>10, <1>12, <1>13, <1>14, <1>15, <1>16, StatusesStay DEF IInv

(* wait leaves the child in its slot until it returns, so its local        *)
(* variable is a reference more.                                           *)
LEMMA WaitCallKeeps ==
    ASSUME IInv, NEW p \in Process, NEW i \in 0..(NCHILD - 1), WaitCall(p, i)
    PROVE  IInv'
  <1>1. PICK c \in Process : c = children[p][i]
    BY Tables DEF WaitCall, IInv
  <1>2. /\ pc[p] = "user" /\ sems' = sems /\ files' = files /\ children' = children
        /\ ref' = ref /\ procRef' = procRef /\ sem' = sem /\ out' = out
        /\ outRef' = AddTo(outRef, c) /\ handle' = [handle EXCEPT ![p] = c]
        /\ pc' = [pc EXCEPT ![p] = "wait"]
    BY <1>1 DEF WaitCall, tables, Hold, Goto
  <1>3. /\ outRef \in [Process -> Int] /\ pc \in [Process -> Labels]
        /\ handle \in [Process -> Process \cup Sem \cup OpenFile \cup {None}] /\ handle[p] = None
    BY <1>2 DEF IInv, TypeOK, HandleKinds, OnSem, OnFile, OnProcess
  <1>6. /\ outRef' \in [Process -> Int]
        /\ \A o \in Process : outRef'[o] = outRef[o] + Same(o, c)
    BY <1>2, <1>3, OneMore
  <1>8. TypeOK'
    BY <1>2, <1>3, <1>6 DEF IInv, TypeOK, Labels
  <1>a. handle'[p] = c /\ pc'[p] = "wait" /\ OnlyMoves(p)
    BY <1>2, <1>3 DEF OnlyMoves
  <1>b. ASSUME NEW o, o \in Object \cup Process
        PROVE  /\ o \in Object => HeldBy(o)' = HeldBy(o)
               /\ WaitedFor(o)' = WaitedFor(o) + Same(o, c)
               /\ ForkedBy(o)' = ForkedBy(o)
    <2>1. HeldBy(o) \in Nat /\ WaitedFor(o) \in Nat /\ ForkedBy(o) \in Nat
      BY Counted
    <2>. QED
      BY <1>a, <1>b, <1>2, <1>3, <2>1, Moved, Constants DEF One, Same, Object
  <1>9. OutsExact'
    <2>. SUFFICES ASSUME NEW o \in Process
                  PROVE  outRef'[o] = Number(children', NCHILD, o) + WaitedFor(o)'
                                      + One(procRef'[o] > 0)
      BY DEF OutsExact
    <2>1. Number(children, NCHILD, o) \in Nat /\ WaitedFor(o) \in Nat
      BY Constants, SlotsFinite, Counted
    <2>2. WaitedFor(o)' = WaitedFor(o) + Same(o, c)
      BY <1>b
    <2>3. outRef[o] = Number(children, NCHILD, o) + WaitedFor(o) + One(procRef[o] > 0)
      BY DEF IInv, OutsExact
    <2>4. Same(o, c) \in Int /\ One(procRef[o] > 0) \in Int
      BY DEF Same, One
    <2>. QED
      BY <1>2, <1>6, <2>1, <2>2, <2>3, <2>4
  <1>10. ProcsExact'
    BY <1>2, <1>3, <1>b DEF IInv, ProcsExact, Threadless, One
  <1>11. HandleKinds'
    BY <1>2, <1>3 DEF IInv, HandleKinds, OnSem, OnFile, OnProcess
  <1>12. Starting'
    <2>1. \A q \in Process : pc[q] \in {"start", "started"} => handle[q] \in Process
      BY DEF IInv, HandleKinds, OnProcess
    <2>. QED
      BY <1>2, <1>3, <2>1 DEF IInv, Starting
  <1>13. OneParent' /\ GoneIsEmpty'
    BY <1>2 DEF IInv, OneParent, GoneIsEmpty
  <1>14. WaitsForChild'
    BY <1>1, <1>2, <1>3 DEF IInv, WaitsForChild
  <1>15. StatusOnlyWhenHeld'
    BY <1>2, <1>3, <1>6, <1>1, Alive DEF IInv, StatusOnlyWhenHeld, Same
  <1>16. StatusOfChild' /\ StatusAfterExit'
    <2>1. \A q \in Process, j \in 0..(NCHILD - 1) : children[q][j] # None =>
             children[q][j] \in Process
      BY Tables DEF IInv
    <2>. QED
      BY <1>2, <1>3, <2>1 DEF IInv, StatusOfChild, StatusAfterExit
  <1>17. ObjectsExact'
    BY <1>2, <1>b DEF IInv, ObjectsExact
  <1>18. Queued'
    BY <1>2, <1>3, QueuesStay DEF QueuesUntouched
  <1>. QED
    BY <1>8, <1>9, <1>10, <1>11, <1>12, <1>13, <1>14, <1>15, <1>16, <1>17, <1>18
       DEF IInv

(* wait returns and gives up the slot and its local variable together, two *)
(* references to the status.                                               *)
LEMMA WaitReturnKeeps ==
    ASSUME IInv, NEW p \in Process, WaitReturn(p)
    PROVE  IInv'
  <1>0. /\ handle[p] \in Process
        /\ \E j \in 0..(NCHILD - 1) : children[p][j] = handle[p]
    BY DEF WaitReturn, IInv, HandleKinds, OnProcess, WaitsForChild
  <1>1. PICK c \in Process : c = handle[p]
    BY <1>0
  <1>2. PICK i \in 0..(NCHILD - 1) : c = children[p][i]
    BY <1>0, <1>1
  <1>3. /\ outRef \in [Process -> Int] /\ pc \in [Process -> Labels]
        /\ handle \in [Process -> Process \cup Sem \cup OpenFile \cup {None}]
        /\ children \in [Process -> [0..(NCHILD - 1) -> Process \cup {None}]]
        /\ out \in [Process -> Status \cup {None}]
    BY DEF IInv, TypeOK
  <1>4. /\ pc[p] = "wait" /\ sems' = sems /\ files' = files /\ ref' = ref
        /\ procRef' = procRef /\ sem' = sem /\ out' = Kept(outRef')
        /\ outRef' = [outRef EXCEPT ![c] = @ - 2] /\ handle' = [handle EXCEPT ![p] = None]
        /\ pc' = [pc EXCEPT ![p] = "user"]
        /\ children' = [children EXCEPT ![p] =
                          [j \in DOMAIN @ |-> IF @[j] = c THEN None ELSE @[j]]]
    BY <1>1 DEF WaitReturn, Hold, Goto
  <1>5. /\ children' \in [Process -> [0..(NCHILD - 1) -> Process \cup {None}]]
        /\ Swaps(children, children', NCHILD, p, i, c, None)
    <2>1. children[p] \in [0..(NCHILD - 1) -> Process \cup {None}]
      BY <1>3
    <2>2. DOMAIN children[p] = 0..(NCHILD - 1)
      BY <2>1
    <2>3. \A j \in 0..(NCHILD - 1) : children[p][j] = c <=> j = i
      BY <1>2, Constants DEF IInv, OneParent
    <2>4. [j \in DOMAIN children[p] |-> IF children[p][j] = c THEN None ELSE children[p][j]]
            = [children[p] EXCEPT ![i] = None]
      BY <2>1, <2>2, <2>3
    <2>5. children' = [children EXCEPT ![p][i] = None]
      BY <1>3, <1>4, <2>4
    <2>6. Assigns(children, children', p, i, c, None)
      BY <1>2, <2>5 DEF Assigns
    <2>7. None \in Process \cup {None}
      OBVIOUS
    <2>. QED
      BY <1>3, <2>6, <2>7, SlotSet
  <1>6. /\ outRef' \in [Process -> Int]
        /\ \A o \in Process : outRef'[o] = outRef[o] - (Same(o, c) + Same(o, c))
    BY <1>3, <1>4 DEF Same
  <1>7. out' \in [Process -> Status \cup {None}]
    BY <1>3, <1>4 DEF Kept
  <1>8. TypeOK'
    BY <1>3, <1>4, <1>5, <1>6, <1>7 DEF IInv, TypeOK, Labels
  <1>a. handle'[p] = None /\ pc'[p] = "user" /\ OnlyMoves(p)
    BY <1>3, <1>4 DEF OnlyMoves
  <1>b. ASSUME NEW o, o \in Object \cup Process
        PROVE  /\ o \in Object => HeldBy(o)' = HeldBy(o)
               /\ WaitedFor(o)' = WaitedFor(o) - Same(o, c)
               /\ ForkedBy(o)' = ForkedBy(o)
    <2>1. HeldBy(o) \in Nat /\ WaitedFor(o) \in Nat /\ ForkedBy(o) \in Nat
      BY Counted
    <2>2. /\ HeldBy(o)' = (HeldBy(o) - One(handle[p] = o)) + One(handle'[p] = o)
          /\ WaitedFor(o)' = (WaitedFor(o) - One(pc[p] = "wait" /\ handle[p] = o))
                             + One(pc'[p] = "wait" /\ handle'[p] = o)
          /\ ForkedBy(o)' = (ForkedBy(o)
                               - One(pc[p] \in {"start", "started"} /\ handle[p] = o))
                            + One(pc'[p] \in {"start", "started"} /\ handle'[p] = o)
      BY <1>a, Moved
    <2>3. /\ o \in Object => One(handle[p] = o) = 0
          /\ One(handle'[p] = o) = 0
      BY <1>a, <1>b, <1>1, Constants DEF One, Object
    <2>4. /\ One(pc[p] = "wait" /\ handle[p] = o) = Same(o, c)
          /\ One(pc'[p] = "wait" /\ handle'[p] = o) = 0
          /\ One(pc[p] \in {"start", "started"} /\ handle[p] = o) = 0
          /\ One(pc'[p] \in {"start", "started"} /\ handle'[p] = o) = 0
      BY <1>a, <1>1, <1>4 DEF One, Same
    <2>5. Same(o, c) \in Int
      BY DEF Same
    <2>. QED
      BY <2>1, <2>2, <2>3, <2>4, <2>5
  <1>9. OutsExact'
    <2>. SUFFICES ASSUME NEW o \in Process
                  PROVE  outRef'[o] = Number(children', NCHILD, o) + WaitedFor(o)'
                                      + One(procRef'[o] > 0)
      BY DEF OutsExact
    <2>1. /\ Number(children', NCHILD, o)
               = (Number(children, NCHILD, o) - Same(o, c)) + Same(o, None)
          /\ Number(children, NCHILD, o) \in Nat
      BY <1>5, Constants, SlotChanged
    <2>2. WaitedFor(o)' = WaitedFor(o) - Same(o, c) /\ WaitedFor(o) \in Nat
      BY <1>b, Counted
    <2>3. outRef[o] = Number(children, NCHILD, o) + WaitedFor(o) + One(procRef[o] > 0)
      BY DEF IInv, OutsExact
    <2>4. Same(o, None) = 0 /\ Same(o, c) \in Int /\ One(procRef[o] > 0) \in Int
      BY NotNone DEF Same, One
    <2>. QED
      BY <1>4, <1>6, <2>1, <2>2, <2>3, <2>4
  <1>10. ProcsExact'
    BY <1>3, <1>4, <1>b DEF IInv, ProcsExact, Threadless, One
  <1>11. HandleKinds'
    BY <1>3, <1>4 DEF IInv, HandleKinds, OnSem, OnFile, OnProcess
  <1>12. Starting'
    <2>1. \A q \in Process : pc[q] \in {"start", "started"} => handle[q] \in Process
      BY DEF IInv, HandleKinds, OnProcess
    <2>. QED
      BY <1>3, <1>4, <2>1 DEF IInv, Starting
  <1>13. \A q \in Process, j \in 0..(NCHILD - 1) :
            /\ (q # p \/ j # i) => children'[q][j] = children[q][j]
            /\ children'[q][j] # None => children'[q][j] = children[q][j]
    BY <1>5 DEF Swaps, OtherSlotsSame
  <1>14. OneParent'
    BY <1>13 DEF IInv, OneParent
  <1>15. WaitsForChild'
    <2>. SUFFICES ASSUME NEW q \in Process, pc'[q] = "wait"
                  PROVE  \E j \in 0..(NCHILD - 1) : children'[q][j] = handle'[q]
      BY DEF WaitsForChild
    <2>1. q # p /\ pc[q] = "wait" /\ handle'[q] = handle[q]
      BY <1>3, <1>4
    <2>. QED
      BY <2>1, <1>13 DEF IInv, WaitsForChild
  <1>16. GoneIsEmpty'
    <2>1. \A q \in Process \ {p} : children'[q] = children[q]
      BY <1>5 DEF Swaps, OtherRowsSame
    <2>2. procRef'[p] # 0
      BY <1>4, Alive
    <2>. QED
      BY <1>4, <2>1, <2>2 DEF IInv, GoneIsEmpty
  <1>17. KeepsStatuses
    BY <1>3, <1>4, <1>13 DEF KeepsStatuses, Kept
  <1>18. ObjectsExact'
    BY <1>4, <1>b DEF IInv, ObjectsExact
  <1>19. Queued'
    BY <1>3, <1>4, QueuesStay DEF QueuesUntouched
  <1>. QED
    BY <1>8, <1>9, <1>10, <1>11, <1>12, <1>14, <1>15, <1>16, <1>17, <1>18, <1>19,
       StatusesStay DEF IInv

(* p exits with the status v.                                              *)
Ends(p, v) ==
    /\ pc[p] \in {"user", "fork"} /\ v \in Status
    /\ out' = [out EXCEPT ![p] = v]
    /\ pc' = [pc EXCEPT ![p] = "exited"]
    /\ UNCHANGED <<tables, ref, outRef, procRef, sem, handle>>

(* exit, and fork with a full table, which a page fault ends: the status   *)
(* was not set before.                                                     *)
LEMMA EndsKeeps ==
    ASSUME IInv, NEW p \in Process, NEW v, Ends(p, v)
    PROVE  IInv'
  <1>1. /\ pc[p] \in {"user", "fork"} /\ v \in Status
        /\ out' = [out EXCEPT ![p] = v] /\ pc' = [pc EXCEPT ![p] = "exited"]
        /\ sems' = sems /\ files' = files /\ children' = children /\ ref' = ref
        /\ outRef' = outRef /\ procRef' = procRef /\ sem' = sem /\ handle' = handle
    BY DEF Ends, tables
  <1>2. /\ pc \in [Process -> Labels] /\ out \in [Process -> Status \cup {None}]
        /\ handle[p] = None
    BY <1>1 DEF IInv, TypeOK, HandleKinds, OnSem, OnFile, OnProcess
  <1>3. TypeOK'
    BY <1>1, <1>2 DEF IInv, TypeOK, Labels
  <1>4. ASSUME NEW o
        PROVE  WaitedFor(o)' = WaitedFor(o) /\ ForkedBy(o)' = ForkedBy(o)
    <2>1. HoldersAt({"wait"}, o)' = HoldersAt({"wait"}, o)
      BY <1>1, <1>2 DEF HoldersAt
    <2>2. HoldersAt({"start", "started"}, o)' = HoldersAt({"start", "started"}, o)
      BY <1>1, <1>2 DEF HoldersAt
    <2>. QED
      BY <2>1, <2>2 DEF WaitedFor, ForkedBy
  <1>5. OutsExact'
    BY <1>1, <1>4 DEF IInv, OutsExact
  <1>6. ProcsExact'
    BY <1>1, <1>2, <1>4 DEF IInv, ProcsExact, Threadless, One
  <1>7. HandleKinds'
    BY <1>1, <1>2 DEF IInv, HandleKinds, OnSem, OnFile, OnProcess
  <1>8. Starting'
    <2>1. \A q \in Process : pc[q] \in {"start", "started"} => handle[q] \in Process
      BY DEF IInv, HandleKinds, OnProcess
    <2>. QED
      BY <1>1, <1>2, <2>1 DEF IInv, Starting
  <1>9. OneParent' /\ GoneIsEmpty' /\ WaitsForChild'
    BY <1>1, <1>2 DEF IInv, OneParent, GoneIsEmpty, WaitsForChild
  <1>10. StatusOnlyWhenHeld'
    BY <1>1, <1>2, Alive DEF IInv, StatusOnlyWhenHeld
  <1>11. StatusOfChild' /\ StatusAfterExit'
    <2>1. \A q \in Process, j \in 0..(NCHILD - 1) : children[q][j] # None =>
             children[q][j] \in Process
      BY Tables DEF IInv
    <2>. QED
      BY <1>1, <1>2, <2>1, Constants DEF IInv, StatusOfChild, StatusAfterExit
  <1>12. ObjectsExact' /\ Queued'
    BY <1>1, <1>2, ObjectsStay, QueuesStay DEF QueuesUntouched
  <1>. QED
    BY <1>3, <1>5, <1>6, <1>7, <1>8, <1>9, <1>10, <1>11, <1>12 DEF IInv

(* Exit keeps the invariant.                                               *)
LEMMA ExitKeeps ==
    ASSUME IInv, NEW p \in Process, (\E v \in Status : Exit(p, v)) \/ ForkNoSlot(p)
    PROVE  IInv'
  <1>1. \E v : Ends(p, v)
    BY DEF Exit, ForkNoSlot, Ends, Goto
  <1>. QED
    BY <1>1, EndsKeeps

(* The reference fork held for the thread becomes the thread's, and fork   *)
(* keeps its own.                                                          *)
LEMMA StartChildKeeps ==
    ASSUME IInv, NEW p \in Process, StartChild(p)
    PROVE  IInv'
  <1>0. /\ handle[p] \in Process /\ pc[handle[p]] = "made" /\ pc[p] = "start"
    BY DEF StartChild, IInv, HandleKinds, OnProcess, Starting
  <1>1. PICK c \in Process : c = handle[p]
    BY <1>0
  <1>2. /\ pc \in [Process -> Labels] /\ procRef \in [Process -> Int]
        /\ handle[c] = None /\ c # p /\ pc[c] = "made"
    BY <1>0, <1>1 DEF IInv, TypeOK, HandleKinds, OnSem, OnFile, OnProcess
  <1>3. /\ sems' = sems /\ files' = files /\ children' = children /\ ref' = ref
        /\ outRef' = outRef /\ out' = out /\ sem' = sem /\ handle' = handle
        /\ procRef' = AddTo(procRef, c)
        /\ pc' = [pc EXCEPT ![p] = "started", ![c] = "user"]
    BY <1>1 DEF StartChild, tables
  <1>4. \A q \in Process : pc'[q] = IF q = p THEN "started" ELSE IF q = c THEN "user" ELSE pc[q]
    BY <1>2, <1>3
  <1>5. /\ procRef' \in [Process -> Int]
        /\ \A o \in Process : procRef'[o] = procRef[o] + Same(o, c)
    <2>1. /\ AddTo(procRef, c) \in [Process -> Int]
          /\ \A o \in Process : AddTo(procRef, c)[o] = procRef[o] + Same(o, c)
      BY <1>2, OneMore
    <2>. QED
      BY <1>3, <2>1
  <1>6. TypeOK'
    BY <1>2, <1>3, <1>5 DEF IInv, TypeOK, Labels
  <1>7. ASSUME NEW o
        PROVE  WaitedFor(o)' = WaitedFor(o) /\ ForkedBy(o)' = ForkedBy(o)
    <2>1. HoldersAt({"wait"}, o)' = HoldersAt({"wait"}, o)
      BY <1>0, <1>2, <1>3, <1>4 DEF HoldersAt
    <2>2. HoldersAt({"start", "started"}, o)' = HoldersAt({"start", "started"}, o)
      BY <1>0, <1>2, <1>3, <1>4 DEF HoldersAt
    <2>. QED
      BY <2>1, <2>2 DEF WaitedFor, ForkedBy
  <1>8. \A o \in Process : procRef[o] \in Nat /\ (o = c => procRef[o] # 0)
    BY <1>2, Alive
  <1>9. OutsExact'
    <2>. SUFFICES ASSUME NEW o \in Process
                  PROVE  One(procRef'[o] > 0) = One(procRef[o] > 0)
      BY <1>3, <1>7 DEF IInv, OutsExact
    <2>. QED
      BY <1>5, <1>8 DEF One, Same
  <1>10. ProcsExact'
    <2>. SUFFICES ASSUME NEW o \in Process
                  PROVE  procRef'[o] = ForkedBy(o)' + One(pc'[o] \notin Threadless)
      BY DEF ProcsExact
    <2>1. One(pc'[o] \notin Threadless) = One(pc[o] \notin Threadless) + Same(o, c)
      BY <1>0, <1>2, <1>4 DEF One, Same, Threadless
    <2>2. /\ ForkedBy(o) \in Nat /\ One(pc[o] \notin Threadless) \in Int /\ Same(o, c) \in Int
          /\ procRef[o] = ForkedBy(o) + One(pc[o] \notin Threadless)
      BY Counted DEF IInv, ProcsExact, One, Same
    <2>. QED
      BY <1>5, <1>7, <2>1, <2>2
  <1>11. HandleKinds'
    BY <1>0, <1>2, <1>3, <1>4 DEF IInv, HandleKinds, OnSem, OnFile, OnProcess
  <1>12. Starting'
    <2>1. \A q \in Process : pc[q] \in {"start", "started"} => handle[q] \in Process
      BY DEF IInv, HandleKinds, OnProcess
    <2>2. \A q \in Process : pc'[q] = "start" => q # p /\ pc[q] = "start" /\ handle[q] # c
      BY <1>0, <1>1, <1>4 DEF IInv, Starting
    <2>3. ASSUME NEW q \in Process, pc'[q] = "start"
          PROVE  pc'[handle'[q]] = "made"
      <3>1. /\ pc[q] = "start" /\ handle[q] # c /\ handle'[q] = handle[q]
            /\ handle[q] \in Process
        BY <1>3, <2>1, <2>2, <2>3
      <3>2. pc[handle[q]] = "made"
        BY <3>1 DEF IInv, Starting
      <3>3. handle[q] # p
        BY <1>0, <3>2
      <3>. QED
        BY <1>4, <3>1, <3>2, <3>3
    <2>4. ASSUME NEW d \in Process, pc'[d] = "made"
          PROVE  \E q \in Process : pc'[q] = "start" /\ handle'[q] = d
      <3>1. d # c /\ pc[d] = "made"
        BY <1>4, <2>4
      <3>2. PICK q \in Process : pc[q] = "start" /\ handle[q] = d
        BY <3>1 DEF IInv, Starting
      <3>. QED
        BY <1>1, <1>2, <1>3, <1>4, <3>1, <3>2
    <2>5. ASSUME NEW q \in Process, NEW r \in Process, pc'[q] \in {"start", "started"},
                 pc'[r] \in {"start", "started"}, handle'[q] = handle'[r]
          PROVE  q = r
      <3>1. pc[q] \in {"start", "started"} /\ pc[r] \in {"start", "started"}
        BY <1>0, <1>4, <2>5
      <3>. QED
        BY <1>3, <2>5, <3>1 DEF IInv, Starting
    <2>. QED
      BY <2>3, <2>4, <2>5 DEF Starting
  <1>13. OneParent' /\ WaitsForChild' /\ StatusOnlyWhenHeld'
    <2>1. OneParent' /\ StatusOnlyWhenHeld'
      BY <1>3 DEF IInv, OneParent, StatusOnlyWhenHeld
    <2>2. ASSUME NEW q \in Process, pc'[q] = "wait"
          PROVE  \E i \in 0..(NCHILD - 1) : children'[q][i] = handle'[q]
      <3>1. pc[q] = "wait"
        BY <1>4, <2>2
      <3>. QED
        BY <1>3, <3>1 DEF IInv, WaitsForChild
    <2>. QED
      BY <2>1, <2>2 DEF WaitsForChild
  <1>14. GoneIsEmpty'
    BY <1>3, <1>5, <1>8 DEF IInv, GoneIsEmpty, Same
  <1>15. StatusOfChild' /\ StatusAfterExit'
    <2>1. \A q \in Process, j \in 0..(NCHILD - 1) : children[q][j] # None =>
             children[q][j] \in Process
      BY Tables DEF IInv
    <2>. QED
      BY <1>0, <1>2, <1>3, <1>4, <2>1 DEF IInv, StatusOfChild, StatusAfterExit
  <1>16. ObjectsExact' /\ Queued'
    BY <1>0, <1>2, <1>3, <1>4, ObjectsStay, QueuesStay DEF QueuesUntouched
  <1>. QED
    BY <1>6, <1>9, <1>10, <1>11, <1>12, <1>13, <1>14, <1>15, <1>16 DEF IInv

(* fork: the child is new, so its tables were empty and nobody referred to *)
(* it; each of its slots is counted.                                       *)
LEMMA ForkKeeps ==
    ASSUME IInv, NEW p \in Process, NEW c \in Process, Fork(p, c)
    PROVE  IInv'
  <1>0. /\ FirstFree(children[p]) \in 0..(NCHILD - 1)
        /\ children[p][FirstFree(children[p])] = None
    <2>1. children[p] \in [0..(NCHILD - 1) -> Process \cup {None}] /\ ~Full(children[p])
      BY Tables DEF Fork, IInv
    <2>. QED
      BY <2>1, Constants, FreeSlot
  <1>1. PICK i \in 0..(NCHILD - 1) : i = FirstFree(children[p]) /\ children[p][i] = None
    BY <1>0
  <1>2. /\ pc[p] = "fork" /\ procRef[c] = 0 /\ outRef[c] = 0
        /\ sems' = [sems EXCEPT ![c] = sems[p]] /\ files' = [files EXCEPT ![c] = files[p]]
        /\ children' = [children EXCEPT ![p][i] = c]
        /\ ref' = [o \in Object |-> ref[o] + Copies(sems[p], o) + Copies(files[p], o)]
        /\ outRef' = [outRef EXCEPT ![c] = 2] /\ procRef' = [procRef EXCEPT ![c] = 1]
        /\ handle' = [handle EXCEPT ![p] = c]
        /\ pc' = [pc EXCEPT ![p] = "start", ![c] = "made"]
        /\ out' = out /\ sem' = sem
    BY <1>1 DEF Fork, Hold
  <1>3. /\ pc \in [Process -> Labels] /\ procRef \in [Process -> Int]
        /\ outRef \in [Process -> Int] /\ ref \in [Object -> Int]
        /\ handle \in [Process -> Process \cup Sem \cup OpenFile \cup {None}]
        /\ sems \in [Process -> [0..(NSEM - 1) -> Sem \cup {None}]]
        /\ files \in [Process -> [0..(NFILE - 1) -> OpenFile \cup {None}]]
        /\ children \in [Process -> [0..(NCHILD - 1) -> Process \cup {None}]]
    BY DEF IInv, TypeOK
  <1>4. /\ pc[c] = "absent" /\ c # p /\ handle[c] = None /\ handle[p] = None
        /\ sems[c] = Empty(NSEM) /\ files[c] = Empty(NFILE) /\ children[c] = Empty(NCHILD)
    <2>1. pc[c] = "absent" /\ c # p
      BY <1>2, Alive
    <2>. QED
      BY <1>2, <2>1 DEF IInv, HandleKinds, OnSem, OnFile, OnProcess, GoneIsEmpty
  <1>5. /\ children' \in [Process -> [0..(NCHILD - 1) -> Process \cup {None}]]
        /\ Swaps(children, children', NCHILD, p, i, None, c)
    <2>1. c \in Process \cup {None} /\ Assigns(children, children', p, i, None, c)
      BY <1>1, <1>2 DEF Assigns
    <2>. QED
      BY <1>3, <2>1, SlotSet
  <1>6. /\ sems' \in [Process -> [0..(NSEM - 1) -> Sem \cup {None}]]
        /\ files' \in [Process -> [0..(NFILE - 1) -> OpenFile \cup {None}]]
        /\ OtherRowsSame(sems, sems', c) /\ OtherRowsSame(files, files', c)
        /\ sems'[c] = sems[p] /\ files'[c] = files[p]
        /\ DOMAIN sems'[c] = 0..(NSEM - 1) /\ DOMAIN files'[c] = 0..(NFILE - 1)
    BY <1>2, <1>3 DEF OtherRowsSame
  <1>7. ASSUME NEW o \in Object
        PROVE  /\ Number(sems', NSEM, o) = Number(sems, NSEM, o) + Copies(sems[p], o)
               /\ Number(files', NFILE, o) = Number(files, NFILE, o) + Copies(files[p], o)
               /\ Copies(sems[p], o) \in Nat /\ Copies(files[p], o) \in Nat
               /\ Number(sems, NSEM, o) \in Nat /\ Number(files, NFILE, o) \in Nat
    <2>1. o # None /\ NSEM \in Nat /\ NFILE \in Nat
      BY Constants
    <2>2. /\ Number(sems', NSEM, o) = Number(sems, NSEM, o) + Copies(sems'[c], o)
          /\ Copies(sems'[c], o) \in Nat
      BY <1>4, <1>6, <2>1, RowFilled
    <2>3. /\ Number(files', NFILE, o) = Number(files, NFILE, o) + Copies(files'[c], o)
          /\ Copies(files'[c], o) \in Nat
      BY <1>4, <1>6, <2>1, RowFilled
    <2>. QED
      BY <1>6, <2>1, <2>2, <2>3, SlotsFinite
  <1>8. \A q \in Process : /\ pc'[q] = IF q = c THEN "made" ELSE IF q = p THEN "start" ELSE pc[q]
                           /\ handle'[q] = IF q = p THEN c ELSE handle[q]
                           /\ outRef'[q] = IF q = c THEN 2 ELSE outRef[q]
                           /\ procRef'[q] = IF q = c THEN 1 ELSE procRef[q]
    BY <1>2, <1>3, <1>4
  <1>9. TypeOK'
    <2>1. ref' \in [Object -> Int]
      BY <1>2, <1>3, <1>7
    <2>2. pc' \in [Process -> Labels]
      <3>1. pc' = [pc EXCEPT ![p] = "start", ![c] = "made"]
        BY <1>2
      <3>. QED
        BY <1>3, <3>1 DEF Labels
    <2>3. outRef' \in [Process -> Int] /\ procRef' \in [Process -> Int]
      BY <1>2, <1>3
    <2>4. handle' \in [Process -> Process \cup Sem \cup OpenFile \cup {None}]
      <3>1. handle' = [handle EXCEPT ![p] = c]
        BY <1>2
      <3>. QED
        BY <1>3, <3>1
    <2>. QED
      BY <1>2, <1>5, <1>6, <2>1, <2>2, <2>3, <2>4 DEF IInv, TypeOK
  <1>10. ASSUME NEW o, o \in Object \cup Process
         PROVE  /\ o \in Object => HeldBy(o)' = HeldBy(o)
                /\ WaitedFor(o)' = WaitedFor(o)
                /\ ForkedBy(o)' = ForkedBy(o) + Same(o, c)
    <2>0. OnlyMoves(p)
      BY <1>4, <1>8 DEF OnlyMoves
    <2>1. HeldBy(o) \in Nat /\ WaitedFor(o) \in Nat /\ ForkedBy(o) \in Nat
      BY Counted
    <2>2. /\ HeldBy(o)' = (HeldBy(o) - One(handle[p] = o)) + One(handle'[p] = o)
          /\ WaitedFor(o)' = (WaitedFor(o) - One(pc[p] = "wait" /\ handle[p] = o))
                             + One(pc'[p] = "wait" /\ handle'[p] = o)
          /\ ForkedBy(o)' = (ForkedBy(o)
                               - One(pc[p] \in {"start", "started"} /\ handle[p] = o))
                            + One(pc'[p] \in {"start", "started"} /\ handle'[p] = o)
      BY <2>0, Moved
    <2>3. pc'[p] = "start" /\ handle'[p] = c
      BY <1>4, <1>8
    <2>4. o \in Object => One(handle[p] = o) = 0 /\ One(handle'[p] = o) = 0
      BY <1>4, <2>3, Constants DEF One, Object
    <2>5. /\ One(pc[p] = "wait" /\ handle[p] = o) = 0
          /\ One(pc'[p] = "wait" /\ handle'[p] = o) = 0
          /\ One(pc[p] \in {"start", "started"} /\ handle[p] = o) = 0
          /\ One(pc'[p] \in {"start", "started"} /\ handle'[p] = o) = Same(o, c)
      BY <1>2, <2>3 DEF One, Same
    <2>6. Same(o, c) \in Int
      BY DEF Same
    <2>. QED
      BY <2>1, <2>2, <2>4, <2>5, <2>6
  <1>11. ObjectsExact'
    <2>. SUFFICES ASSUME NEW o \in Object
                  PROVE  ref'[o] = Number(sems', NSEM, o) + Number(files', NFILE, o) + HeldBy(o)'
      BY DEF ObjectsExact
    <2>1. ref[o] = Number(sems, NSEM, o) + Number(files, NFILE, o) + HeldBy(o)
      BY DEF IInv, ObjectsExact
    <2>2. ref'[o] = ref[o] + Copies(sems[p], o) + Copies(files[p], o)
      BY <1>2
    <2>3. HeldBy(o)' = HeldBy(o) /\ HeldBy(o) \in Nat
      BY <1>10, Counted
    <2>. QED
      BY <1>7, <2>1, <2>2, <2>3
  <1>12. OutsExact'
    <2>. SUFFICES ASSUME NEW o \in Process
                  PROVE  outRef'[o] = Number(children', NCHILD, o) + WaitedFor(o)'
                                      + One(procRef'[o] > 0)
      BY DEF OutsExact
    <2>1. /\ Number(children', NCHILD, o)
               = (Number(children, NCHILD, o) - Same(o, None)) + Same(o, c)
          /\ Number(children, NCHILD, o) \in Nat
      BY <1>5, Constants, SlotChanged
    <2>2. WaitedFor(o)' = WaitedFor(o) /\ WaitedFor(o) \in Nat
      BY <1>10, Counted
    <2>3. outRef[o] = Number(children, NCHILD, o) + WaitedFor(o) + One(procRef[o] > 0)
      BY DEF IInv, OutsExact
    <2>4. Same(o, None) = 0 /\ One(procRef[o] > 0) \in Nat
      BY NotNone DEF One
    <2>5. CASE o = c
      <3>1. /\ Same(o, c) = 1 /\ outRef[o] = 0 /\ One(procRef'[o] > 0) = 1
            /\ outRef'[o] = 2
        BY <1>2, <1>8, <2>5 DEF Same, One
      <3>. QED
        BY <2>1, <2>2, <2>3, <2>4, <3>1
    <2>6. CASE o # c
      <3>1. Same(o, c) = 0 /\ procRef'[o] = procRef[o] /\ outRef'[o] = outRef[o]
        BY <1>8, <2>6 DEF Same
      <3>. QED
        BY <2>1, <2>2, <2>3, <2>4, <3>1
    <2>. QED
      BY <2>5, <2>6
  <1>13. ProcsExact'
    <2>. SUFFICES ASSUME NEW o \in Process
                  PROVE  procRef'[o] = ForkedBy(o)' + One(pc'[o] \notin Threadless)
      BY DEF ProcsExact
    <2>1. One(pc'[o] \notin Threadless) = One(pc[o] \notin Threadless)
      <3>0. pc'[o] = IF o = c THEN "made" ELSE IF o = p THEN "start" ELSE pc[o]
        BY <1>8
      <3>1. CASE o = c
        BY <1>4, <3>0, <3>1 DEF One, Threadless
      <3>2. CASE o = p
        BY <1>2, <1>4, <3>0, <3>2 DEF One, Threadless
      <3>3. CASE o # c /\ o # p
        BY <3>0, <3>3
      <3>. QED
        BY <3>1, <3>2, <3>3
    <2>2. /\ procRef[o] = ForkedBy(o) + One(pc[o] \notin Threadless)
          /\ ForkedBy(o) \in Nat /\ One(pc[o] \notin Threadless) \in Nat
          /\ ForkedBy(o)' = ForkedBy(o) + Same(o, c)
      BY <1>10, Counted DEF IInv, ProcsExact, One
    <2>3. procRef'[o] = procRef[o] + Same(o, c)
      BY <1>2, <1>3, <1>8 DEF Same
    <2>4. Same(o, c) \in Nat
      BY DEF Same
    <2>. QED
      BY <2>1, <2>2, <2>3, <2>4
  <1>14. HandleKinds'
    <2>1. ASSUME NEW q \in Process, q # p, q # c
          PROVE  pc'[q] = pc[q] /\ handle'[q] = handle[q]
      BY <1>8, <2>1
    <2>2. pc'[p] = "start" /\ handle'[p] = c /\ pc'[c] = "made" /\ handle'[c] = None
      BY <1>4, <1>8
    <2>. QED
      BY <2>1, <2>2 DEF IInv, HandleKinds, OnSem, OnFile, OnProcess
  <1>15. Starting'
    <2>0. /\ \A q \in Process : pc[q] \in {"start", "started"} =>
                handle[q] \in Process /\ handle[q] # c
          /\ p # c
      BY <1>2, <1>4, Alive DEF IInv, HandleKinds, OnProcess
    <2>1. ASSUME NEW q \in Process, pc'[q] = "start"
          PROVE  pc'[handle'[q]] = "made"
      <3>1. CASE q = p
        BY <1>8, <3>1
      <3>2. CASE q # p
        <4>1. /\ pc[q] = "start" /\ handle'[q] = handle[q]
              /\ handle[q] \in Process /\ handle[q] # c
          BY <1>8, <2>0, <2>1, <3>2
        <4>2. pc[handle[q]] = "made"
          BY <4>1 DEF IInv, Starting
        <4>3. handle[q] # p
          BY <1>2, <4>2
        <4>. QED
          BY <1>8, <4>1, <4>2, <4>3
      <3>. QED
        BY <3>1, <3>2
    <2>2. ASSUME NEW d \in Process, pc'[d] = "made"
          PROVE  \E q \in Process : pc'[q] = "start" /\ handle'[q] = d
      <3>1. CASE d = c
        BY <1>4, <1>8, <3>1
      <3>2. CASE d # c
        <4>1. pc[d] = "made"
          BY <1>8, <2>2, <3>2
        <4>2. PICK q \in Process : pc[q] = "start" /\ handle[q] = d
          BY <4>1 DEF IInv, Starting
        <4>. QED
          BY <1>2, <1>4, <1>8, <4>2
      <3>. QED
        BY <3>1, <3>2
    <2>3. ASSUME NEW q \in Process, NEW r \in Process, pc'[q] \in {"start", "started"},
                 pc'[r] \in {"start", "started"}, handle'[q] = handle'[r]
          PROVE  q = r
      <3>1. \A x \in {q, r} : x # p =>
               pc[x] \in {"start", "started"} /\ handle'[x] = handle[x] /\ handle[x] # c
        BY <1>8, <2>0, <2>3
      <3>2. handle'[p] = c
        BY <1>8
      <3>3. CASE q # p /\ r # p
        BY <2>3, <3>1, <3>3 DEF IInv, Starting
      <3>. QED
        BY <2>3, <3>1, <3>2, <3>3
    <2>. QED
      BY <2>1, <2>2, <2>3 DEF Starting
  <1>16. \A q \in Process, j \in 0..(NCHILD - 1) : children[q][j] # c
    BY <1>2, Alive, Constants
  <1>17. /\ \A q \in Process, j \in 0..(NCHILD - 1) :
               (q # p \/ j # i) => children'[q][j] = children[q][j]
         /\ children'[p][i] = c
         /\ \A q \in Process \ {p} : children'[q] = children[q]
    BY <1>5 DEF Swaps, OtherSlotsSame, OtherRowsSame
  <1>18. OneParent'
    <2>. SUFFICES ASSUME NEW q \in Process, NEW r \in Process, NEW j \in 0..(NCHILD - 1),
                         NEW k \in 0..(NCHILD - 1), children'[q][j] # None,
                         children'[q][j] = children'[r][k]
                  PROVE  q = r /\ j = k
      BY DEF OneParent
    <2>1. CASE (q # p \/ j # i) /\ (r # p \/ k # i)
      BY <1>17, <2>1 DEF IInv, OneParent
    <2>. QED
      BY <1>16, <1>17, <2>1
  <1>19. WaitsForChild'
    <2>. SUFFICES ASSUME NEW q \in Process, pc'[q] = "wait"
                  PROVE  \E j \in 0..(NCHILD - 1) : children'[q][j] = handle'[q]
      BY DEF WaitsForChild
    <2>1. q # p /\ q # c /\ pc[q] = "wait" /\ handle'[q] = handle[q]
      BY <1>4, <1>8
    <2>. QED
      BY <1>17, <2>1 DEF IInv, WaitsForChild
  <1>20. GoneIsEmpty'
    <2>. SUFFICES ASSUME NEW q \in Process, procRef'[q] = 0
                  PROVE  /\ sems'[q] = Empty(NSEM) /\ files'[q] = Empty(NFILE)
                         /\ children'[q] = Empty(NCHILD)
      BY DEF GoneIsEmpty
    <2>1. q # c /\ q # p /\ procRef[q] = 0
      BY <1>2, <1>8, Alive
    <2>. QED
      BY <1>6, <1>17, <2>1 DEF IInv, GoneIsEmpty, OtherRowsSame
  <1>21. StatusOnlyWhenHeld'
    BY <1>2, <1>8 DEF IInv, StatusOnlyWhenHeld
  <1>22. StatusOfChild'
    <2>. SUFFICES ASSUME NEW q \in Process, NEW j \in 0..(NCHILD - 1), children'[q][j] # None,
                         pc'[children'[q][j]] \in {"exited", "absent"}
                  PROVE  out'[children'[q][j]] # None
      BY DEF StatusOfChild
    <2>1. CASE q = p /\ j = i
      BY <1>8, <1>17, <2>1
    <2>2. CASE q # p \/ j # i
      <3>1. PICK d \in Process : d = children[q][j] /\ d = children'[q][j]
        BY <1>17, <2>2, Tables DEF IInv
      <3>2. pc[d] \in {"exited", "absent"}
        BY <1>8, <3>1
      <3>. QED
        BY <1>2, <3>1, <3>2 DEF IInv, StatusOfChild
    <2>. QED
      BY <2>1, <2>2
  <1>23. StatusAfterExit'
    <2>1. out[c] = None
      BY <1>2 DEF IInv, StatusOnlyWhenHeld
    <2>. QED
      BY <1>2, <1>8, <2>1 DEF IInv, StatusAfterExit
  <1>24. Queued'
    <2>1. ASSUME NEW q \in Process
          PROVE  \/ pc'[q] = pc[q] /\ handle'[q] = handle[q]
                 \/ pc[q] # "blocked" /\ pc'[q] # "blocked"
      <3>0. pc[p] = "fork" /\ pc'[p] = "start" /\ pc[c] = "absent" /\ pc'[c] = "made"
        BY <1>2, <1>4, <1>8
      <3>1. CASE q = p \/ q = c
        BY <3>0, <3>1
      <3>2. CASE q # p /\ q # c
        BY <1>8, <3>2
      <3>. QED
        BY <3>1, <3>2
    <2>. QED
      BY <1>2, <2>1, QueuesStay DEF QueuesUntouched
  <1>. QED
    BY <1>9, <1>11, <1>12, <1>13, <1>14, <1>15, <1>18, <1>19, <1>20, <1>21, <1>22, <1>23,
       <1>24 DEF IInv

(* p drops its reference to process q: the handler of fork the one in its  *)
(* local variable, delete_zombies the one of the thread.                   *)
(* fork or the reaper gives up its reference to q.                         *)
Drops(p, q) ==
    /\ DropProcess(q) /\ sem' = sem
    /\ \/ /\ pc[p] = "started" /\ q = handle[p]
          /\ pc' = [pc EXCEPT ![p] = "user"] /\ handle' = [handle EXCEPT ![p] = None]
       \/ /\ pc[p] = "exited" /\ q = p
          /\ pc' = [pc EXCEPT ![p] = "absent"] /\ handle' = handle

(* One reference less to q, none less to the others.                       *)
DropsCounts(q) ==
    /\ \A o \in Object : HeldBy(o)' = HeldBy(o)
    /\ \A c \in Process : WaitedFor(c)' = WaitedFor(c)
    /\ \A c \in Process : ForkedBy(c)' + One(pc'[c] \notin Threadless)
          = (ForkedBy(c) + One(pc[c] \notin Threadless)) - Same(c, q)

(* Both do that.                                                           *)
LEMMA DropMoves ==
    ASSUME IInv, NEW p \in Process, NEW q \in Process, Drops(p, q)
    PROVE  DropsCounts(q)
  <1>1. /\ pc \in [Process -> Labels]
        /\ handle \in [Process -> Process \cup Sem \cup OpenFile \cup {None}]
    BY DEF IInv, TypeOK
  <1>2. /\ OnlyMoves(p)
        /\ \A r \in Process \ {p} : pc'[r] = pc[r]
    BY <1>1 DEF Drops, OnlyMoves
  <1>3. ASSUME NEW o
        PROVE  /\ HeldBy(o)' = (HeldBy(o) - One(handle[p] = o)) + One(handle'[p] = o)
               /\ WaitedFor(o)' = (WaitedFor(o) - One(pc[p] = "wait" /\ handle[p] = o))
                                  + One(pc'[p] = "wait" /\ handle'[p] = o)
               /\ ForkedBy(o)' = (ForkedBy(o)
                                    - One(pc[p] \in {"start", "started"} /\ handle[p] = o))
                                 + One(pc'[p] \in {"start", "started"} /\ handle'[p] = o)
               /\ HeldBy(o) \in Nat /\ WaitedFor(o) \in Nat /\ ForkedBy(o) \in Nat
    BY <1>2, Moved, Counted
  <1>4. \A c \in Process : c # p => One(pc'[c] \notin Threadless) = One(pc[c] \notin Threadless)
    BY <1>2
  <1>5. /\ \A c \in Process : One(pc[c] \notin Threadless) \in Int
        /\ \A c : Same(c, q) \in Int
    BY DEF One, Same
  <1>6. CASE /\ pc[p] = "started" /\ q = handle[p]
             /\ pc' = [pc EXCEPT ![p] = "user"] /\ handle' = [handle EXCEPT ![p] = None]
    <2>1. pc'[p] = "user" /\ handle'[p] = None
      BY <1>1, <1>6
    <2>2. ASSUME NEW o, o \in Object
          PROVE  One(handle[p] = o) = 0 /\ One(handle'[p] = o) = 0
      BY <1>6, <2>1, <2>2, Constants DEF One, Object
    <2>3. ASSUME NEW c \in Process
          PROVE  /\ One(pc[p] = "wait" /\ handle[p] = c) = 0
                 /\ One(pc'[p] = "wait" /\ handle'[p] = c) = 0
                 /\ One(pc[p] \in {"start", "started"} /\ handle[p] = c) = Same(c, q)
                 /\ One(pc'[p] \in {"start", "started"} /\ handle'[p] = c) = 0
      BY <1>6, <2>1 DEF One, Same
    <2>4. One(pc'[p] \notin Threadless) = One(pc[p] \notin Threadless)
      BY <1>6, <2>1 DEF One, Threadless
    <2>5. \A c \in Process : One(pc'[c] \notin Threadless) = One(pc[c] \notin Threadless)
      BY <1>4, <2>4
    <2>6. \A o \in Object : HeldBy(o)' = HeldBy(o)
      BY <1>3, <2>2
    <2>7. \A c \in Process : /\ WaitedFor(c)' = WaitedFor(c)
                             /\ ForkedBy(c)' = ForkedBy(c) - Same(c, q)
      BY <1>3, <1>5, <2>3
    <2>8. \A c \in Process : ForkedBy(c) \in Nat
      BY Counted
    <2>. QED
      BY <1>5, <2>5, <2>6, <2>7, <2>8 DEF DropsCounts
  <1>7. CASE /\ pc[p] = "exited" /\ q = p
             /\ pc' = [pc EXCEPT ![p] = "absent"] /\ handle' = handle
    <2>1. pc'[p] = "absent"
      BY <1>1, <1>7
    <2>3. ASSUME NEW c
          PROVE  /\ One(pc[p] = "wait" /\ handle[p] = c) = 0
                 /\ One(pc'[p] = "wait" /\ handle'[p] = c) = 0
                 /\ One(pc[p] \in {"start", "started"} /\ handle[p] = c) = 0
                 /\ One(pc'[p] \in {"start", "started"} /\ handle'[p] = c) = 0
      BY <1>7, <2>1 DEF One
    <2>4. One(pc'[p] \notin Threadless) = 0 /\ One(pc[p] \notin Threadless) = 1
      BY <1>7, <2>1 DEF One, Threadless
    <2>5. \A c \in Process :
             One(pc'[c] \notin Threadless) = One(pc[c] \notin Threadless) - Same(c, q)
      BY <1>4, <1>5, <1>7, <2>4 DEF Same
    <2>6. \A o \in Object : HeldBy(o)' = HeldBy(o)
      BY <1>7 DEF HeldBy, Holders
    <2>7. \A c \in Process : WaitedFor(c)' = WaitedFor(c) /\ ForkedBy(c)' = ForkedBy(c)
      BY <1>3, <2>3
    <2>8. \A c \in Process : ForkedBy(c) \in Nat
      BY Counted
    <2>. QED
      BY <1>5, <2>5, <2>6, <2>7, <2>8 DEF DropsCounts
  <1>. QED
    BY <1>6, <1>7 DEF Drops

(* They leave the places of the others alone, and q was still counted.     *)
LEMMA DropControl ==
    ASSUME IInv, NEW p \in Process, NEW q \in Process, Drops(p, q)
    PROVE  /\ pc' \in [Process -> Labels]
           /\ handle' \in [Process -> Process \cup Sem \cup OpenFile \cup {None}]
           /\ HandleKinds' /\ Starting' /\ Queued'
           /\ \A r \in Process : pc'[r] \in {"exited", "absent"} <=> pc[r] \in {"exited", "absent"}
           /\ \A r \in Process : pc'[r] = "wait" => pc[r] = "wait" /\ handle'[r] = handle[r]
           /\ procRef[q] # 0
  <1>1. /\ pc \in [Process -> Labels]
        /\ handle \in [Process -> Process \cup Sem \cup OpenFile \cup {None}]
    BY DEF IInv, TypeOK
  <1>2. /\ pc' \in [Process -> Labels]
        /\ handle' \in [Process -> Process \cup Sem \cup OpenFile \cup {None}]
    BY <1>1 DEF Drops, Labels
  <1>3. /\ pc[p] \in {"started", "exited"} /\ pc'[p] \in {"user", "absent"}
        /\ pc[p] = "exited" <=> pc'[p] = "absent"
        /\ handle'[p] = None
        /\ \A r \in Process \ {p} : pc'[r] = pc[r] /\ handle'[r] = handle[r]
        /\ sem' = sem
    BY <1>1 DEF Drops, IInv, HandleKinds, OnSem, OnFile, OnProcess
  <1>4. HandleKinds'
    BY <1>3 DEF IInv, HandleKinds, OnSem, OnFile, OnProcess
  <1>5. Starting'
    <2>0. \A r \in Process : pc[r] \in {"start", "started"} => handle[r] \in Process
      BY DEF IInv, HandleKinds, OnProcess
    <2>1. ASSUME NEW r \in Process, pc'[r] = "start"
          PROVE  pc'[handle'[r]] = "made"
      <3>1. /\ pc[r] = "start" /\ handle'[r] = handle[r] /\ handle[r] \in Process
        BY <1>3, <2>0, <2>1
      <3>2. pc[handle[r]] = "made"
        BY <3>1 DEF IInv, Starting
      <3>. QED
        BY <1>3, <3>1, <3>2
    <2>2. ASSUME NEW d \in Process, pc'[d] = "made"
          PROVE  \E r \in Process : pc'[r] = "start" /\ handle'[r] = d
      <3>1. pc[d] = "made"
        BY <1>3, <2>2
      <3>2. PICK r \in Process : pc[r] = "start" /\ handle[r] = d
        BY <3>1 DEF IInv, Starting
      <3>. QED
        BY <1>3, <3>2
    <2>3. ASSUME NEW r \in Process, NEW s \in Process, pc'[r] \in {"start", "started"},
                 pc'[s] \in {"start", "started"}, handle'[r] = handle'[s]
          PROVE  r = s
      <3>1. r # p /\ s # p
        BY <1>3, <2>3
      <3>. QED
        BY <1>3, <2>3, <3>1 DEF IInv, Starting
    <2>. QED
      BY <2>1, <2>2, <2>3 DEF Starting
  <1>6. Queued'
    BY <1>3, QueuesStay DEF QueuesUntouched
  <1>7. procRef[q] # 0
    BY Alive DEF Drops
  <1>. QED
    BY <1>2, <1>3, <1>4, <1>5, <1>6, <1>7

(* The counts of processes stay right.                                     *)
LEMMA DropExact ==
    ASSUME IInv, NEW p \in Process, NEW q \in Process, Drops(p, q),
           \A c \in Process : procRef'[c] = procRef[c] - Same(c, q)
    PROVE  ProcsExact'
  <1>. SUFFICES ASSUME NEW c \in Process
                PROVE  procRef'[c] = ForkedBy(c)' + One(pc'[c] \notin Threadless)
    BY DEF ProcsExact
  <1>1. ForkedBy(c)' + One(pc'[c] \notin Threadless)
          = (ForkedBy(c) + One(pc[c] \notin Threadless)) - Same(c, q)
    BY DropMoves DEF DropsCounts
  <1>2. procRef[c] = ForkedBy(c) + One(pc[c] \notin Threadless)
    BY DEF IInv, ProcsExact
  <1>. QED
    BY <1>1, <1>2

(* When somebody else still refers to q, that is all.                      *)
LEMMA DropOneKeeps ==
    ASSUME IInv, NEW p \in Process, NEW q \in Process, Drops(p, q), procRef[q] > 1,
           procRef' = DropFrom(procRef, q), UNCHANGED <<tables, ref, outRef, out>>
    PROVE  IInv'
  <1>1. /\ sems' = sems /\ files' = files /\ children' = children
        /\ ref' = ref /\ outRef' = outRef /\ out' = out /\ sem' = sem
    BY DEF tables, Drops
  <1>2. procRef \in [Process -> Int] /\ procRef[q] \in Nat
    BY Alive DEF IInv, TypeOK
  <1>3. /\ procRef' \in [Process -> Int]
        /\ \A c \in Process : procRef'[c] = procRef[c] - Same(c, q)
    <2>1. /\ DropFrom(procRef, q) \in [Process -> Int]
          /\ \A c \in Process : DropFrom(procRef, q)[c] = procRef[c] - Same(c, q)
      BY <1>2, OneMore
    <2>. QED
      BY <2>1
  <1>4. TypeOK'
    BY <1>1, <1>3, DropControl DEF IInv, TypeOK
  <1>5. \A c \in Process : One(procRef'[c] > 0) = One(procRef[c] > 0)
    <2>1. \A c \in Process : procRef[c] \in Int
      BY <1>2
    <2>. QED
      BY <1>3, <2>1 DEF One, Same
  <1>6. OutsExact'
    BY <1>1, <1>5, DropMoves DEF IInv, OutsExact, DropsCounts
  <1>7. ProcsExact'
    BY <1>3, DropExact
  <1>8. ObjectsExact'
    BY <1>1, DropMoves DEF IInv, ObjectsExact, DropsCounts
  <1>9. GoneIsEmpty'
    <2>1. \A c \in Process : procRef'[c] = 0 => procRef[c] = 0
      <3>1. \A c \in Process : procRef[c] \in Int
        BY <1>2
      <3>. QED
        BY <1>2, <1>3, <3>1 DEF Same
    <2>. QED
      BY <1>1, <2>1 DEF IInv, GoneIsEmpty
  <1>10. OneParent'
    BY <1>1 DEF IInv, OneParent
  <1>11. WaitsForChild'
    BY <1>1, DropControl DEF IInv, WaitsForChild
  <1>12. KeepsStatuses
    <2>1. out = [c \in Process |-> IF outRef[c] = 0 THEN None ELSE out[c]]
      BY DEF IInv, TypeOK, StatusOnlyWhenHeld
    <2>. QED
      BY <1>1, <2>1, DropControl DEF KeepsStatuses
  <1>. QED
    BY <1>4, <1>6, <1>7, <1>8, <1>9, <1>10, <1>11, <1>12, DropControl, StatusesStay
       DEF IInv

(* When nobody does, q is deleted with its tables: what they refer to is   *)
(* counted once less for each slot, and the statuses nobody refers to go.  *)
LEMMA DropLastKeeps ==
    ASSUME IInv, NEW p \in Process, NEW q \in Process, Drops(p, q), procRef[q] = 1, Destroy(q)
    PROVE  IInv'
  <1>. DEFINE left == [c \in Process |->
                         outRef[c] - Copies(children[q], c) - (IF c = q THEN 1 ELSE 0)]
  <1>1. /\ sems' = [sems EXCEPT ![q] = Empty(NSEM)]
        /\ files' = [files EXCEPT ![q] = Empty(NFILE)]
        /\ children' = [children EXCEPT ![q] = Empty(NCHILD)]
        /\ ref' = [o \in Object |-> ref[o] - Copies(sems[q], o) - Copies(files[q], o)]
        /\ outRef' = left /\ out' = Kept(left)
        /\ procRef' = [procRef EXCEPT ![q] = 0] /\ sem' = sem
    BY DEF Destroy, Drops
  <1>2. /\ procRef \in [Process -> Int] /\ outRef \in [Process -> Int]
        /\ ref \in [Object -> Int] /\ out \in [Process -> Status \cup {None}]
        /\ sems \in [Process -> [0..(NSEM - 1) -> Sem \cup {None}]]
        /\ files \in [Process -> [0..(NFILE - 1) -> OpenFile \cup {None}]]
        /\ children \in [Process -> [0..(NCHILD - 1) -> Process \cup {None}]]
    BY DEF IInv, TypeOK
  <1>3. /\ Empty(NSEM) \in [0..(NSEM - 1) -> Sem \cup {None}]
        /\ Empty(NFILE) \in [0..(NFILE - 1) -> OpenFile \cup {None}]
        /\ Empty(NCHILD) \in [0..(NCHILD - 1) -> Process \cup {None}]
    BY DEF Empty
  <1>4. /\ sems' \in [Process -> [0..(NSEM - 1) -> Sem \cup {None}]]
        /\ files' \in [Process -> [0..(NFILE - 1) -> OpenFile \cup {None}]]
        /\ children' \in [Process -> [0..(NCHILD - 1) -> Process \cup {None}]]
        /\ sems'[q] = Empty(NSEM) /\ files'[q] = Empty(NFILE) /\ children'[q] = Empty(NCHILD)
        /\ OtherRowsSame(sems, sems', q) /\ OtherRowsSame(files, files', q)
        /\ OtherRowsSame(children, children', q)
    BY <1>1, <1>2, <1>3 DEF OtherRowsSame
  <1>5. /\ DOMAIN sems[q] = 0..(NSEM - 1) /\ DOMAIN files[q] = 0..(NFILE - 1)
        /\ DOMAIN children[q] = 0..(NCHILD - 1)
    BY <1>2
  <1>6. ASSUME NEW o \in Object
        PROVE  /\ Number(sems', NSEM, o) = Number(sems, NSEM, o) - Copies(sems[q], o)
               /\ Number(files', NFILE, o) = Number(files, NFILE, o) - Copies(files[q], o)
               /\ Copies(sems[q], o) \in Nat /\ Copies(files[q], o) \in Nat
    <2>1. o # None /\ NSEM \in Nat /\ NFILE \in Nat
      BY Constants
    <2>2. /\ Number(sems', NSEM, o) = Number(sems, NSEM, o) - Copies(sems[q], o)
          /\ Copies(sems[q], o) \in Nat
      BY <1>4, <1>5, <2>1, RowEmptied
    <2>3. /\ Number(files', NFILE, o) = Number(files, NFILE, o) - Copies(files[q], o)
          /\ Copies(files[q], o) \in Nat
      BY <1>4, <1>5, <2>1, RowEmptied
    <2>. QED
      BY <2>2, <2>3
  <1>7. ASSUME NEW c \in Process
        PROVE  /\ Number(children', NCHILD, c)
                    = Number(children, NCHILD, c) - Copies(children[q], c)
               /\ Copies(children[q], c) \in Nat
    <2>1. c # None /\ NCHILD \in Nat
      BY Constants
    <2>. QED
      BY <1>4, <1>5, <2>1, RowEmptied
  <1>8. \A c \in Process : outRef'[c] = (outRef[c] - Copies(children[q], c)) - Same(c, q)
    BY <1>1 DEF Same
  <1>9. /\ outRef' \in [Process -> Int] /\ ref' \in [Object -> Int]
        /\ procRef' \in [Process -> Int]
    <2>1. \A c \in Process : Same(c, q) \in Int /\ outRef[c] \in Int
      BY <1>2 DEF Same
    <2>2. \A c \in Process : outRef'[c] \in Int
      BY <1>7, <1>8, <2>1
    <2>3. outRef' \in [Process -> Int]
      BY <1>1, <2>2
    <2>4. ref' \in [Object -> Int]
      BY <1>1, <1>2, <1>6
    <2>5. procRef' \in [Process -> Int]
      BY <1>1, <1>2
    <2>. QED
      BY <2>3, <2>4, <2>5
  <1>10. out' \in [Process -> Status \cup {None}]
    BY <1>1, <1>2 DEF Kept
  <1>11. TypeOK'
    BY <1>1, <1>4, <1>9, <1>10, DropControl DEF IInv, TypeOK
  <1>12. \A c \in Process : procRef'[c] = procRef[c] - Same(c, q)
    BY <1>1, <1>2 DEF Same
  <1>13. ProcsExact'
    BY <1>12, DropExact
  <1>14. OutsExact'
    <2>. SUFFICES ASSUME NEW c \in Process
                  PROVE  outRef'[c] = Number(children', NCHILD, c) + WaitedFor(c)'
                                      + One(procRef'[c] > 0)
      BY DEF OutsExact
    <2>1. One(procRef'[c] > 0) = One(procRef[c] > 0) - Same(c, q)
      BY <1>1, <1>2 DEF One, Same
    <2>2. WaitedFor(c)' = WaitedFor(c) /\ WaitedFor(c) \in Nat
      BY DropMoves, Counted DEF DropsCounts
    <2>3. outRef[c] = Number(children, NCHILD, c) + WaitedFor(c) + One(procRef[c] > 0)
      BY DEF IInv, OutsExact
    <2>4. /\ Number(children, NCHILD, c) \in Nat /\ One(procRef[c] > 0) \in Nat
          /\ Same(c, q) \in Nat
      BY Constants, SlotsFinite DEF One, Same
    <2>. QED
      BY <1>7, <1>8, <2>1, <2>2, <2>3, <2>4
  <1>15. ObjectsExact'
    <2>. SUFFICES ASSUME NEW o \in Object
                  PROVE  ref'[o] = Number(sems', NSEM, o) + Number(files', NFILE, o) + HeldBy(o)'
      BY DEF ObjectsExact
    <2>1. ref[o] = Number(sems, NSEM, o) + Number(files, NFILE, o) + HeldBy(o)
      BY DEF IInv, ObjectsExact
    <2>2. ref'[o] = (ref[o] - Copies(sems[q], o)) - Copies(files[q], o)
      BY <1>1
    <2>3. HeldBy(o)' = HeldBy(o)
      BY DropMoves DEF DropsCounts
    <2>4. /\ Number(sems, NSEM, o) \in Nat /\ Number(files, NFILE, o) \in Nat
          /\ HeldBy(o) \in Nat
      BY Constants, SlotsFinite, Counted
    <2>. QED
      BY <1>6, <2>1, <2>2, <2>3, <2>4
  <1>16. GoneIsEmpty'
    BY <1>1, <1>2, <1>4 DEF IInv, GoneIsEmpty, OtherRowsSame
  <1>17. \A r \in Process, i \in 0..(NCHILD - 1) :
            children'[r][i] # None => r # q /\ children'[r][i] = children[r][i]
    <2>1. \A i \in 0..(NCHILD - 1) : children'[q][i] = None
      BY <1>4, Constants, EmptyTable
    <2>. QED
      BY <1>4, <2>1 DEF OtherRowsSame
  <1>18. OneParent'
    BY <1>17 DEF IInv, OneParent
  <1>19. WaitsForChild'
    <2>. SUFFICES ASSUME NEW r \in Process, pc'[r] = "wait"
                  PROVE  \E i \in 0..(NCHILD - 1) : children'[r][i] = handle'[r]
      BY DEF WaitsForChild
    <2>1. pc[r] = "wait" /\ handle'[r] = handle[r]
      BY DropControl
    <2>2. ForkedBy(q)' + One(pc'[q] \notin Threadless) = 0
      <3>1. /\ ForkedBy(q)' + One(pc'[q] \notin Threadless)
                 = (ForkedBy(q) + One(pc[q] \notin Threadless)) - Same(q, q)
            /\ procRef[q] = ForkedBy(q) + One(pc[q] \notin Threadless)
        BY DropMoves DEF DropsCounts, IInv, ProcsExact
      <3>2. Same(q, q) = 1
        BY DEF Same
      <3>. QED
        BY <3>1, <3>2
    <2>3. r # q
      <3>1. HoldersAt({"start", "started"}, q)' \in SUBSET Process
        BY DEF HoldersAt
      <3>2. ForkedBy(q)' \in Nat
        BY <3>1, Members DEF ForkedBy
      <3>3. ASSUME pc'[q] = "wait" PROVE One(pc'[q] \notin Threadless) = 1
        BY <3>3 DEF One, Threadless
      <3>. QED
        BY <2>2, <3>2, <3>3
    <2>. QED
      BY <1>4, <2>1, <2>3 DEF IInv, WaitsForChild, OtherRowsSame
  <1>20. KeepsStatuses
    BY <1>1, <1>17, DropControl DEF KeepsStatuses, Kept
  <1>. QED
    BY <1>11, <1>13, <1>14, <1>15, <1>16, <1>18, <1>19, <1>20, DropControl, StatusesStay
       DEF IInv

(* So either way.                                                          *)
LEMMA DropKeeps ==
    ASSUME IInv, NEW p \in Process, NEW q \in Process, Drops(p, q)
    PROVE  IInv'
  BY DropOneKeeps, DropLastKeeps DEF Drops, DropProcess

(* ForkReturn keeps the invariant.                                         *)
LEMMA ForkReturnKeeps ==
    ASSUME IInv, NEW p \in Process, ForkReturn(p)
    PROVE  IInv'
  <1>1. handle[p] \in Process
    BY DEF ForkReturn, IInv, HandleKinds, OnProcess
  <1>2. Drops(p, handle[p])
    BY DEF ForkReturn, Drops, Goto, Hold
  <1>. QED
    BY <1>1, <1>2, DropKeeps

(* Reap keeps the invariant.                                               *)
LEMMA ReapKeeps ==
    ASSUME IInv, NEW p \in Process, Reap(p)
    PROVE  IInv'
  <1>1. Drops(p, p)
    BY DEF Reap, Drops, Goto
  <1>. QED
    BY <1>1, DropKeeps

(* At first there is one process, which has the three descriptors of the   *)
(* console.                                                                *)
LEMMA InitKeeps == Init => IInv
  <1>. SUFFICES ASSUME Init PROVE IInv
    OBVIOUS
  <1>1. /\ sems = [p \in Process |-> Empty(NSEM)]
        /\ files = [p \in Process |-> [i \in 0..(NFILE - 1) |->
                      IF p = First /\ i < Std THEN Console ELSE None]]
        /\ children = [p \in Process |-> Empty(NCHILD)]
        /\ ref = [o \in Object |-> IF o = Console THEN Std ELSE 0]
        /\ outRef = [p \in Process |-> IF p = First THEN 1 ELSE 0]
        /\ out = [p \in Process |-> None]
        /\ procRef = [p \in Process |-> IF p = First THEN 1 ELSE 0]
        /\ sem = [s \in Sem |-> Made(0)]
        /\ pc = [p \in Process |-> IF p = First THEN "user" ELSE "absent"]
        /\ handle = [p \in Process |-> None]
    BY DEF Init
  <1>2. /\ \A i \in 0..(NSEM - 1) : Empty(NSEM)[i] = None
        /\ \A i \in 0..(NCHILD - 1) : Empty(NCHILD)[i] = None
        /\ Empty(NSEM) \in [0..(NSEM - 1) -> Sem \cup {None}]
        /\ Empty(NCHILD) \in [0..(NCHILD - 1) -> Process \cup {None}]
    BY DEF Empty
  <1>3. TypeOK
    <2>1. files \in [Process -> [0..(NFILE - 1) -> OpenFile \cup {None}]]
      BY <1>1, Constants
    <2>2. sems \in [Process -> [0..(NSEM - 1) -> Sem \cup {None}]]
          /\ children \in [Process -> [0..(NCHILD - 1) -> Process \cup {None}]]
      BY <1>1, <1>2
    <2>3. /\ ref \in [Object -> Int] /\ outRef \in [Process -> Int]
          /\ procRef \in [Process -> Int]
      BY <1>1, Constants
    <2>4. Made(0) \in [count : Nat, waiting : Seq(Process)]
      BY DEF Made
    <2>5. sem \in [Sem -> [count : Nat, waiting : Seq(Process)]]
      BY <1>1, <2>4
    <2>6. /\ out \in [Process -> Status \cup {None}] /\ pc \in [Process -> Labels]
          /\ handle \in [Process -> Process \cup Sem \cup OpenFile \cup {None}]
      BY <1>1 DEF Labels
    <2>. QED
      BY <2>1, <2>2, <2>3, <2>5, <2>6 DEF TypeOK
  <1>4. /\ \A p \in Process : pc[p] \in {"user", "absent"} /\ handle[p] = None
        /\ \A p \in Process : pc[p] = "user" <=> p = First
    BY <1>1
  <1>5. HandleKinds /\ Starting /\ WaitsForChild /\ StatusAfterExit
    BY <1>1, <1>4
       DEF HandleKinds, OnSem, OnFile, OnProcess, Starting, WaitsForChild, StatusAfterExit
  <1>6. ASSUME NEW o, o \in Object \cup Process
        PROVE  HeldBy(o) = 0 /\ WaitedFor(o) = 0 /\ ForkedBy(o) = 0
    <2>1. /\ Holders(o) = {} /\ HoldersAt({"wait"}, o) = {}
          /\ HoldersAt({"start", "started"}, o) = {}
      BY <1>4, <1>6, Constants DEF Holders, HoldersAt
    <2>. QED
      BY <2>1, FS_EmptySet DEF HeldBy, WaitedFor, ForkedBy
  <1>7. ProcsExact
    BY <1>1, <1>4, <1>6 DEF ProcsExact, One, Threadless
  <1>8. OutsExact
    <2>. SUFFICES ASSUME NEW c \in Process
                  PROVE  outRef[c] = Number(children, NCHILD, c) + WaitedFor(c)
                                     + One(procRef[c] > 0)
      BY DEF OutsExact
    <2>1. Number(children, NCHILD, c) = 0
      BY <1>1, <1>2, Constants, SlotCounted
    <2>. QED
      BY <1>1, <1>6, <2>1 DEF One
  <1>9. ObjectsExact
    <2>. SUFFICES ASSUME NEW o \in Object
                  PROVE  ref[o] = Number(sems, NSEM, o) + Number(files, NFILE, o) + HeldBy(o)
      BY DEF ObjectsExact
    <2>1. Number(sems, NSEM, o) = 0
      BY <1>1, <1>2, Constants, SlotCounted
    <2>2. CASE o # Console
      <3>1. Number(files, NFILE, o) = 0
        BY <1>1, <2>2, Constants, SlotCounted
      <3>. QED
        BY <1>1, <1>6, <2>1, <2>2, <3>1
    <2>3. CASE o = Console
      <3>. DEFINE T == {<<First, i>> : i \in 0..(Std - 1)}
                  f == [i \in 0..(Std - 1) |-> <<First, i>>]
      <3>1. SlotsWith(files, NFILE, o) = T
        <4>1. ASSUME NEW x \in Process \X (0..(NFILE - 1))
              PROVE  files[x[1]][x[2]] = o <=> x \in T
          <5>1. x = <<x[1], x[2]>> /\ x[1] \in Process /\ x[2] \in 0..(NFILE - 1)
            OBVIOUS
          <5>2. files[x[1]][x[2]] = o <=> x[1] = First /\ x[2] < Std
            BY <1>1, <2>3, <5>1, Constants
          <5>3. x \in T <=> x[1] = First /\ x[2] \in 0..(Std - 1)
            BY <5>1
          <5>. QED
            BY <5>1, <5>2, <5>3, Constants
        <4>2. T \subseteq Process \X (0..(NFILE - 1))
          BY Constants
        <4>. QED
          BY <4>1, <4>2 DEF SlotsWith
      <3>2. f \in Bijection(0..(Std - 1), T)
        <4>1. f \in [0..(Std - 1) -> T]
          OBVIOUS
        <4>2. ASSUME NEW a \in 0..(Std - 1), NEW b \in 0..(Std - 1), f[a] = f[b] PROVE a = b
          BY <4>2
        <4>3. ASSUME NEW t \in T PROVE \E a \in 0..(Std - 1) : f[a] = t
          OBVIOUS
        <4>. QED
          BY <4>1, <4>2, <4>3 DEF Bijection, Injection, Surjection, IsInjective
      <3>3. IsFiniteSet(0..(Std - 1)) /\ Cardinality(0..(Std - 1)) = Std
        <4>1. 0 \in Int /\ Std - 1 \in Int
          BY Constants
        <4>2. /\ IsFiniteSet(0..(Std - 1))
              /\ Cardinality(0..(Std - 1)) = IF 0 > Std - 1 THEN 0 ELSE (Std - 1) - 0 + 1
          BY <4>1, FS_Interval
        <4>. QED
          BY <4>2, Constants
      <3>4. Cardinality(T) = Std
        BY <3>2, <3>3, FS_Bijection DEF ExistsBijection
      <3>5. Number(files, NFILE, o) = Std
        BY <3>1, <3>4 DEF Number
      <3>6. ref[o] = Std /\ HeldBy(o) = 0 /\ Std \in Nat
        BY <1>1, <1>6, <2>3, Constants
      <3>. QED
        BY <2>1, <3>5, <3>6
    <2>. QED
      BY <2>2, <2>3
  <1>10. OneParent /\ StatusOfChild /\ StatusOnlyWhenHeld
    BY <1>1, <1>2 DEF OneParent, StatusOfChild, StatusOnlyWhenHeld
  <1>11. GoneIsEmpty
    <2>1. ASSUME NEW c \in Process, c # First
          PROVE  files[c] = Empty(NFILE)
      BY <1>1, <2>1 DEF Empty
    <2>. QED
      BY <1>1, <2>1 DEF GoneIsEmpty
  <1>12. Queued
    <2>1. ASSUME NEW s \in Sem
          PROVE  Line(sem[s].waiting, HoldersAt({"blocked"}, s))
      <3>1. sem[s].waiting = <<>>
        BY <1>1 DEF Made
      <3>2. HoldersAt({"blocked"}, s) = {}
        BY <1>4 DEF HoldersAt
      <3>. QED
        BY <3>1, <3>2 DEF Line
    <2>. QED
      BY <2>1 DEF Queued
  <1>. QED
    BY <1>3, <1>5, <1>7, <1>8, <1>9, <1>10, <1>11, <1>12 DEF IInv

(* A step that changes nothing keeps the invariant.                        *)
LEMMA StutterKeeps ==
    ASSUME IInv, UNCHANGED vars
    PROVE  IInv'
  <1>1. /\ sems' = sems /\ files' = files /\ children' = children /\ ref' = ref
        /\ outRef' = outRef /\ out' = out /\ procRef' = procRef /\ sem' = sem
        /\ pc' = pc /\ handle' = handle
    BY DEF vars, tables
  <1>2. SemaphoreCall /\ QueuesUntouched
    BY <1>1 DEF SemaphoreCall, QueuesUntouched
  <1>3. TypeOK' /\ HandleKinds' /\ GoneIsEmpty'
    BY <1>1 DEF IInv, TypeOK, HandleKinds, GoneIsEmpty
  <1>. QED
    BY <1>1, <1>2, <1>3, ObjectsStay, ProcessesStay, QueuesStay DEF IInv

(* Every step keeps the invariant.                                         *)
LEMMA NextKeeps == IInv /\ [Next]_vars => IInv'
  <1>. SUFFICES ASSUME IInv, [Next]_vars PROVE IInv'
    OBVIOUS
  <1>1. CASE UNCHANGED vars
    BY <1>1, StutterKeeps
  <1>2. ASSUME NEW p \in Process, Call(p) PROVE IInv'
    BY <1>2, NewSemaphoreKeeps, GetSemaphoreKeeps, CloseSemaphoreKeeps, OpenKeeps,
       CloseFileKeeps, GetFileKeeps, CloseChildKeeps, WaitCallKeeps, ForkCallKeeps, ExitKeeps
       DEF Call
  <1>3. ASSUME NEW p \in Process, Continue(p) PROVE IInv'
    BY <1>3, UpKeeps, DownKeeps, SemReturnKeeps, ForkKeeps, ExitKeeps, StartChildKeeps,
       ForkReturnKeeps, WaitReturnKeeps DEF Continue
  <1>. QED
    BY <1>1, <1>2, <1>3, FileReturnKeeps, ReapKeeps DEF Next

(* The invariant holds throughout.                                         *)
LEMMA Invariant == Spec => []IInv
  BY InitKeeps, NextKeeps, PTL DEF Spec

(* Every reference count of kernel/shared.h is the number of references    *)
(* there are, for any number of processes, semaphores and open files and   *)
(* tables of any size: nothing is deleted while a slot, a system call or a *)
(* thread refers to it, and nothing is kept that none does (process.cc,    *)
(* sys.cc).                                                                *)
THEOREM ReferencesAreExact == Spec => []RefsExact
  <1>1. IInv => RefsExact
    BY DEF IInv, RefsExact, ObjectsExact, OutsExact, ProcsExact, HeldBy, WaitedFor, ForkedBy,
           Number, One, Threadless
  <1>. QED
    BY <1>1, Invariant, PTL

(* The exit status a process leaves in its Future stays there until its    *)
(* parent has asked for it or given it up, also when the reaper has        *)
(* deleted the process; and Future::set never finds one set before         *)
(* (process.cc, future.h).                                                 *)
THEOREM StatusesAreKept == Spec => []ExitStatusKept
  <1>1. IInv => ExitStatusKept
    <2>. SUFFICES ASSUME IInv PROVE ExitStatusKept
      OBVIOUS
    <2>1. \A p \in Process : DOMAIN children[p] = 0..(NCHILD - 1)
      BY DEF IInv, TypeOK
    <2>. QED
      BY <2>1 DEF IInv, ExitStatusKept, StatusOfChild, StatusAfterExit
  <1>. QED
    BY <1>1, Invariant, PTL

(* A process that blocked in down() is in the queue of the semaphore its   *)
(* system call refers to, which is not deleted under it, and nobody else   *)
(* is in a queue (semaphore.h, process.cc).                                *)
THEOREM QueuesHoldTheBlocked == Spec => []BlockedAreQueued
  <1>1. IInv => BlockedAreQueued
    <2>. SUFFICES ASSUME IInv PROVE BlockedAreQueued
      OBVIOUS
    <2>1. ASSUME NEW s \in Sem, NEW p \in Process
          PROVE  p \in Waiters(sem[s]) <=> pc[p] = "blocked" /\ handle[p] = s
      <3>1. /\ sem[s].waiting \in Seq(Process)
            /\ Line(sem[s].waiting, HoldersAt({"blocked"}, s))
        BY DEF IInv, TypeOK, Queued
      <3>2. DOMAIN sem[s].waiting = 1..Len(sem[s].waiting)
        BY <3>1
      <3>3. p \in Waiters(sem[s]) <=> p \in HoldersAt({"blocked"}, s)
        BY <3>1, <3>2 DEF Waiters, Line
      <3>. QED
        BY <3>3 DEF HoldersAt
    <2>2. ASSUME NEW p \in Process, pc[p] = "blocked"
          PROVE  handle[p] \in Sem /\ ref[handle[p]] > 0
      <3>1. handle[p] \in Sem
        BY <2>2 DEF IInv, HandleKinds, OnSem
      <3>2. ref[handle[p]] \in Nat /\ ref[handle[p]] # 0
        BY <3>1, Alive, RefsTyped
      <3>. QED
        BY <3>1, <3>2
    <2>. QED
      BY <2>1, <2>2 DEF BlockedAreQueued
  <1>. QED
    BY <1>1, Invariant, PTL
=============================================================================
