---------------------------- MODULE ThreadsProofs ----------------------------
(***************************************************************************)
(* For any number of cores, threads and semaphores: a thread is in exactly *)
(* one place, the core knows whom it executes, the ASSERTs of the thread   *)
(* code hold, down() keeps its lock across the switch, and down() and up() *)
(* implement a semaphore.                                                  *)
(*                                                                         *)
(* OnePlace is not inductive.  That no second place for a thread appears   *)
(* depends on where each thread is inside block(), up() and thread()       *)
(* (Local), on what that says about the core under it (CoreInv) and on     *)
(* what a thread that nobody executes has left behind on its stack         *)
(* (PlaceInv): an interrupt flag to restore, a lock to give back, the      *)
(* reason why it is dead.                                                  *)
(***************************************************************************)
EXTENDS Threads, FiniteSetTheorems, TLAPS

(* In block(), before the switch.                                          *)
Inside == {"remove", "activate", "switch"}
(* In block().                                                             *)
Block == Inside \cup {"return"}

(* A queue and its members.                                                *)
Listed(q, t) == \E i \in DOMAIN q : q[i] = t
Distinct(q) == \A i, j \in DOMAIN q : q[i] = q[j] => i = j

(* The kinds of place of Places, and whether t is in one of kind k.        *)
Kind == {"stack", "post", "next", "woken", "victim", "ready", "zombie", "waiting"}

In(k, t) ==
    \/ k = "stack" /\ \E c \in Core : stack[c] = t
    \/ k = "post" /\ \E c \in Core : post[c] = t
    \/ k = "next" /\ \E u \in TCB : blk[u].next = t
    \/ k = "woken" /\ \E u \in TCB : woken[u] = t
    \/ k = "victim" /\ \E u \in TCB : victim[u] = t
    \/ k = "ready" /\ Listed(readyQ, t)
    \/ k = "zombie" /\ Listed(zombies, t)
    \/ k = "waiting" /\ \E s \in Sem : Listed(sem[s].waiting, t)

(* A TCB is in places of one kind at most, and a thread is in one if and   *)
(* only if it is live.                                                     *)
OneKind ==
    /\ \A t \in TCB, k, l \in Kind : In(k, t) /\ In(l, t) => k = l
    /\ \A t \in Thread : t \in live <=> \E k \in Kind : In(k, t)
    /\ Core \subseteq live

(* No place is there twice: two cores, variables or elements of queues     *)
(* never hold the same TCB.                                                *)
OnceEach ==
    /\ \A c, d \in Core : stack[c] = stack[d] => c = d
    /\ \A c, d \in Core : post[c] = post[d] /\ post[c] # None => c = d
    /\ \A u, v \in TCB : blk[u].next = blk[v].next /\ blk[u].next # None => u = v
    /\ \A u, v \in TCB : woken[u] = woken[v] /\ woken[u] # None => u = v
    /\ \A u, v \in TCB : victim[u] = victim[v] /\ victim[u] # None => u = v
    /\ Distinct(readyQ)
    /\ Distinct(zombies)
    /\ \A s \in Sem : Distinct(sem[s].waiting)
    /\ \A r, s \in Sem, t \in TCB :
           Listed(sem[r].waiting, t) /\ Listed(sem[s].waiting, t) => r = s

(* t runs with interrupts off: the timer interrupted it, or it is in a     *)
(* down() that has to wait.                                                *)
Masked(t) == frame[t] # None \/ blk[t].why \in Sem
(* t has called stop() and its core has switched away from it.             *)
Stopped(t) == pc[t] = "return" /\ blk[t].why = "stop"
(* A core executes the code of t, and no switch handler on its stack.      *)
Executing(t) == \E c \in Core : stack[c] = t /\ post[c] = None

(* t is about to call schedule(), or was when the timer interrupted it.    *)
Scheduling(t) == pc[t] = "schedule" \/ (frame[t] # None /\ frame[t].pc = "schedule")

(* Where t goes on when block() has returned, and where when the up() or   *)
(* block() it was in has, too.                                             *)
Resumes(t) == IF frame[t] # None THEN frame[t].pc
              ELSE IF pc[t] \in Block THEN ret[t] ELSE pc[t]

Base(t) == IF Resumes(t) \notin {"schedule", "return"} THEN Resumes(t)
           ELSE IF frame[t] # None THEN frame[t].ret ELSE ret[t]

(* What the local variables of t say about each other: woken and victim    *)
(* are in use exactly as long as the code that reads them is still to      *)
(* come, and an idle thread is in its loop of stop().                      *)
Local(t) ==
    /\ pc[t] \notin Block => blk[t] = NoBlock /\ frame[t] = None
    /\ pc[t] \in Inside => blk[t].me = t
    /\ (blk[t].next # None) <=> pc[t] \in {"activate", "switch"}
    /\ frame[t] # None => blk[t].why = "yield"
    /\ blk[t].why = "stop" => ret[t] = "run"
    /\ (woken[t] # None) <=> Scheduling(t)
    /\ (victim[t] # None) <=> Base(t) = "delete"
    /\ Base(t) \in {"entry", "run", "reap", "spawn", "delete", "new"}
    /\ Base(t) = "reap" => t = Reaper
    /\ Base(t) \in {"spawn", "new"} => t # Reaper
    /\ t \in Core =>
         /\ pc[t] \in Block \cup {"run"}
         /\ Base(t) = "run"
         /\ frame[t] = None
         /\ blk[t].why \notin Sem
         /\ pc[t] \in Inside => blk[t].why = "stop"

(* What core c knows about the threads it executes and leaves.             *)
CoreInv(c) ==
    /\ stack[c] \in Core => stack[c] = c
    /\ post[c] \in Core => post[c] = c
    /\ blk[stack[c]].next \in Core => blk[stack[c]].next = c
    /\ esp0[c] = active[c]
    /\ At(c, "switch") => active[c] = blk[stack[c]].next
    /\ ~At(c, "switch") => active[c] = stack[c]
    /\ post[c] = None => (c \in enabled <=> ~Masked(stack[c]))
    /\ post[c] # None => /\ c \notin enabled
                         /\ pc[post[c]] = "return"
                         /\ blk[post[c]].me = post[c]
    /\ post[c] = None /\ pc[stack[c]] \in Inside =>
            /\ blk[stack[c]].core = c
            /\ stack[c] \in noPreempt
            /\ blk[stack[c]].next # None => blk[stack[c]].next \in noPreempt

(* What the place of t says about its state.  The last conjunct: a lock is *)
(* held across block() by the thread that is in there for it.              *)
PlaceInv(t) ==
    /\ pc[t] \notin {"entry", "return"} => Executing(t)
    /\ t \in live /\ ~Executing(t) => (t \in flags <=> ~Masked(t))
    /\ In("zombie", t) \/ In("victim", t) => Stopped(t)
    /\ t \in Thread /\ Stopped(t) =>
           ~In("stack", t) /\ ~In("next", t) /\ ~In("woken", t) /\ ~In("ready", t) /\ ~In("waiting", t)
    /\ t \notin live => frame[t] = None /\ woken[t] = None /\ victim[t] = None
    /\ \A s \in Sem : holder[s] = t <=> blk[t].why = s /\ (pc[t] \in Inside \/ In("post", t))

(* The inductive invariant.                                                *)
IInv == /\ TypeOK /\ OneKind /\ OnceEach
        /\ \A t \in TCB : Local(t) /\ PlaceInv(t)
        /\ \A c \in Core : CoreInv(c)

-----------------------------------------------------------------------------

(* add() of a queue: the members, and no duplicate unless there was one.   *)
LEMMA Appended ==
    ASSUME NEW S, NEW q \in Seq(S), NEW t \in S
    PROVE  /\ Append(q, t) \in Seq(S)
           /\ \A u : Listed(Append(q, t), u) <=> Listed(q, u) \/ u = t
           /\ Distinct(q) /\ ~Listed(q, t) => Distinct(Append(q, t))
  <1>1. /\ Append(q, t) \in Seq(S)
        /\ Len(q) \in Nat /\ DOMAIN q = 1..Len(q)
        /\ DOMAIN Append(q, t) = 1..Len(q) + 1
        /\ \A i \in 1..Len(q) : Append(q, t)[i] = q[i]
        /\ Append(q, t)[Len(q) + 1] = t
    OBVIOUS
  <1>2. ASSUME NEW u PROVE Listed(Append(q, t), u) <=> Listed(q, u) \/ u = t
    BY <1>1 DEF Listed
  <1>3. ASSUME Distinct(q), ~Listed(q, t) PROVE Distinct(Append(q, t))
    BY <1>1, <1>3 DEF Listed, Distinct
  <1> QED BY <1>1, <1>2, <1>3

(* remove() of a queue takes its head out, and nothing else.               *)
LEMMA Dequeued ==
    ASSUME NEW S, NEW q \in Seq(S), q # <<>>
    PROVE  /\ Head(q) \in S /\ Tail(q) \in Seq(S)
           /\ Listed(q, Head(q))
           /\ \A u : Listed(q, u) <=> u = Head(q) \/ Listed(Tail(q), u)
           /\ Distinct(q) => Distinct(Tail(q)) /\ ~Listed(Tail(q), Head(q))
  <1>1. /\ Tail(q) \in Seq(S) /\ Head(q) \in S
        /\ Len(q) \in Nat \ {0} /\ DOMAIN q = 1..Len(q)
        /\ DOMAIN Tail(q) = 1..Len(q) - 1
        /\ \A i \in 1..Len(q) - 1 : Tail(q)[i] = q[i + 1]
        /\ Head(q) = q[1]
    OBVIOUS
  <1>2. Listed(q, Head(q))
    BY <1>1 DEF Listed
  <1>3. ASSUME NEW u, Listed(Tail(q), u) PROVE Listed(q, u)
    BY <1>1, <1>3 DEF Listed
  <1>4. ASSUME NEW u, Listed(q, u), u # Head(q) PROVE Listed(Tail(q), u)
    <2>1. PICK i \in 1..Len(q) : q[i] = u
      BY <1>1, <1>4 DEF Listed
    <2>2. i # 1 /\ i - 1 \in 1..Len(q) - 1 /\ Tail(q)[i - 1] = u
      BY <1>1, <1>4, <2>1
    <2> QED BY <1>1, <2>2 DEF Listed
  <1>5. ASSUME Distinct(q) PROVE Distinct(Tail(q)) /\ ~Listed(Tail(q), Head(q))
    BY <1>1, <1>5 DEF Listed, Distinct
  <1> QED BY <1>1, <1>2, <1>3, <1>4, <1>5

(* A step of another core changes nothing of thread u, of core d, or of    *)
(* the place of u.                                                         *)
SameLocal(u) ==
    /\ pc'[u] = pc[u] /\ frame'[u] = frame[u] /\ blk'[u] = blk[u]
    /\ ret'[u] = ret[u] /\ woken'[u] = woken[u] /\ victim'[u] = victim[u]

SameCore(d) ==
    /\ stack'[d] = stack[d] /\ post'[d] = post[d]
    /\ active'[d] = active[d] /\ esp0'[d] = esp0[d]
    /\ d \in enabled' <=> d \in enabled

(* What a step does not touch keeps its part of the invariant: the local   *)
(* variables of a thread,                                                  *)
LEMMA OtherLocal ==
    ASSUME NEW u \in TCB, Local(u), SameLocal(u)
    PROVE  Local(u)'
  <1>1. Scheduling(u)' <=> Scheduling(u)
    BY DEF SameLocal, Scheduling
  <1>2. Base(u)' = Base(u)
    BY DEF SameLocal, Base, Resumes
  <1> QED BY <1>1, <1>2 DEF Local, SameLocal

(* a core, if nobody allows its threads to be preempted,                   *)
LEMMA OtherCore ==
    ASSUME NEW d \in Core, CoreInv(d), SameCore(d), SameLocal(stack[d]),
           post[d] # None => SameLocal(post[d]),
           post[d] = None /\ pc[stack[d]] \in Inside =>
               /\ stack[d] \in noPreempt'
               /\ blk[stack[d]].next # None => blk[stack[d]].next \in noPreempt'
    PROVE  CoreInv(d)'
  BY DEF CoreInv, SameCore, SameLocal, At, Masked

SamePlace(u) ==
    /\ \A k \in Kind : In(k, u)' <=> In(k, u)
    /\ Executing(u)' <=> Executing(u)
    /\ u \in live' <=> u \in live
    /\ u \in flags' <=> u \in flags
    /\ \A s \in Sem : holder'[s] = u <=> holder[s] = u

(* and the place of a thread.                                              *)
LEMMA OtherPlace ==
    ASSUME NEW u \in TCB, PlaceInv(u), SameLocal(u), SamePlace(u)
    PROVE  PlaceInv(u)'
  <1>1. (Masked(u)' <=> Masked(u)) /\ (Stopped(u)' <=> Stopped(u))
    BY DEF SameLocal, Masked, Stopped
  <1> QED BY <1>1 DEF PlaceInv, SameLocal, SamePlace, Kind

(* No TCB moves.                                                           *)
Still ==
    /\ stack' = stack /\ post' = post /\ woken' = woken /\ victim' = victim
    /\ readyQ' = readyQ /\ zombies' = zombies /\ live' = live
    /\ \A u \in TCB : blk'[u].next = blk[u].next
    /\ \A s \in Sem : sem'[s].waiting = sem[s].waiting

(* If no TCB moves, every TCB is where it was.                             *)
LEMMA StillPlaces ==
    ASSUME OneKind, OnceEach, Still
    PROVE  OneKind' /\ OnceEach' /\ \A u : (\A k : In(k, u)' <=> In(k, u)) /\ (Executing(u)' <=> Executing(u))
  <1>1. ASSUME NEW u, NEW k PROVE In(k, u)' <=> In(k, u)
    BY DEF Still, In, Listed
  <1>2. OneKind'
    BY <1>1 DEF OneKind, Still
  <1>3. OnceEach'
    BY DEF OnceEach, Still, Distinct, Listed
  <1> QED BY <1>1, <1>2, <1>3 DEF Executing, Still

(* A step of core c that moves no TCB and changes only the core and the    *)
(* thread on it has only these two to account for.                         *)
LEMMA OwnStep ==
    ASSUME IInv, NEW c \in Core, NEW t \in TCB, t = stack[c], post[c] = None,
           Still, TypeOK',
           \A u \in TCB \ {t} : SameLocal(u),
           \A d \in Core \ {c} : SameCore(d),
           noPreempt \subseteq noPreempt', flags' = flags,
           \A u \in TCB \ {t} : \A s \in Sem : holder'[s] = u <=> holder[s] = u,
           Local(t)', CoreInv(c)', PlaceInv(t)'
    PROVE  IInv'
  <1>1. OneKind' /\ OnceEach'
    BY StillPlaces DEF IInv
  <1>2. ASSUME NEW u \in TCB PROVE Local(u)'
    BY <1>2, OtherLocal DEF IInv
  <1>3. ASSUME NEW u \in TCB PROVE PlaceInv(u)'
    <2>1. CASE u = t BY <2>1
    <2>2. CASE u # t
      <3>1. SamePlace(u)
        BY <2>2, StillPlaces DEF IInv, Still, SamePlace
      <3> QED BY <2>2, <3>1, OtherPlace DEF IInv
    <2> QED BY <2>1, <2>2
  <1>4. ASSUME NEW d \in Core PROVE CoreInv(d)'
    <2>1. CASE d = c BY <2>1
    <2>2. CASE d # c
      <3>1. stack[d] \in TCB /\ stack[d] # t
        BY <2>2 DEF IInv, TypeOK, OnceEach
      <3>2. post[d] # None => post[d] \in TCB /\ post[d] # t
        <4>1. ASSUME post[d] # None, post[d] = t PROVE FALSE
          <5>1. In("post", t) /\ In("stack", t)
            BY <4>1 DEF In
          <5> QED BY <5>1 DEF IInv, OneKind, Kind
        <4> QED BY <4>1 DEF IInv, TypeOK
      <3> QED BY <2>2, <3>1, <3>2, OtherCore DEF IInv, CoreInv
    <2> QED BY <2>1, <2>2
  <1> QED BY <1>1, <1>2, <1>3, <1>4 DEF IInv

(* What the invariant says about the thread that a core is on.             *)
LEMMA OwnFacts ==
    ASSUME IInv, NEW c \in Core, NEW t \in TCB, t = stack[c]
    PROVE  /\ TypeOK /\ Local(t) /\ PlaceInv(t) /\ CoreInv(c)
           /\ t \in live
           /\ In("stack", t)
           /\ \A k \in Kind \ {"stack"} : ~In(k, t)
           /\ post[c] = None => Executing(t)
           /\ t \in Thread \/ t = c
  <1>1. TypeOK /\ Local(t) /\ PlaceInv(t) /\ CoreInv(c) /\ OneKind
    BY DEF IInv
  <1>2. In("stack", t)
    BY DEF In
  <1>3. t \in live /\ \A k \in Kind \ {"stack"} : ~In(k, t)
    BY <1>1, <1>2 DEF OneKind, Kind, TCB
  <1> QED BY <1>1, <1>2, <1>3 DEF Executing, CoreInv, TCB

(* entry(): a new thread enables interrupts and begins its work.           *)
LEMMA EntryStep ==
    ASSUME IInv, NEW c \in Core, NEW t \in TCB, t = stack[c], Entry(c)
    PROVE  IInv'
  <1>1. post[c] = None /\ pc[t] = "entry"
    BY DEF Entry, At
  <1>2. TypeOK /\ Local(t) /\ PlaceInv(t) /\ CoreInv(c) /\ t \in live
    BY OwnFacts
  <1>3. TypeOK'
    BY <1>2 DEF TypeOK, Entry, Goto, Label, Loop
  <1>4. /\ Still
        /\ \A u \in TCB \ {t} : SameLocal(u)
        /\ \A d \in Core \ {c} : SameCore(d)
    BY <1>2 DEF Still, SameLocal, SameCore, Entry, Goto, TypeOK
  <1>5. /\ pc'[t] = Loop(t) /\ c \in enabled'
        /\ blk' = blk /\ frame' = frame /\ holder' = holder
        /\ stack' = stack /\ post' = post /\ active' = active /\ esp0' = esp0
    BY <1>2 DEF Entry, Goto, TypeOK
  <1>6. /\ blk[t] = NoBlock /\ frame[t] = None /\ t \notin Core
        /\ woken'[t] = None /\ victim'[t] = None
    BY <1>1, <1>2 DEF Local, Block, Inside, Scheduling, Base, Resumes, Entry
  <1>7. Local(t)'
    BY <1>5, <1>6, ThreadsAssumption
       DEF Local, Base, Resumes, Block, Inside, Scheduling, Loop, NoBlock
  <1>8. CoreInv(c)'
    BY <1>1, <1>2, <1>5, <1>6, ThreadsAssumption
       DEF CoreInv, Inside, Masked, Loop, At, NoBlock
  <1>9. PlaceInv(t)'
    <2>1. Executing(t)' /\ t \in live'
      BY <1>1, <1>2, <1>5 DEF Executing, Entry
    <2>2. ~Stopped(t)' /\ ~In("zombie", t)' /\ ~In("victim", t)'
      BY <1>1, <1>2, <1>4, <1>5, StillPlaces, OwnFacts DEF Stopped, Loop, IInv, Kind
    <2>3. \A s \in Sem : holder'[s] # t /\ blk'[t].why # s
      BY <1>1, <1>2, <1>5, <1>6, OwnFacts, ThreadsAssumption
         DEF PlaceInv, NoBlock, Inside, Kind
    <2> QED BY <1>5, <2>1, <2>2, <2>3 DEF PlaceInv
  <1> QED BY <1>1, <1>3, <1>4, <1>5, <1>7, <1>8, <1>9, OwnStep DEF Entry

(* The beginning of block(), for whatever reason, keeps the invariant if   *)
(* the lock and the interrupt flag are as the reason demands.              *)
LEMMA EnterStep ==
    ASSUME IInv, NEW c \in Core, NEW t \in TCB, t = stack[c], post[c] = None,
           pc[t] \notin Inside,
           NEW why \in Sem \cup {"yield", "stop"}, NEW after, Enter(c, why, after),
           UNCHANGED <<active, esp0, stack, post, flags, woken, victim,
                       readyQ, zombies, live, sem>>,
           TypeOK',
           \A u \in TCB \ {t} : frame'[u] = frame[u],
           \A d \in Core \ {c} : d \in enabled' <=> d \in enabled,
           c \in enabled' <=> frame'[t] = None /\ why \notin Sem,
           \A s \in Sem, u \in TCB \ {t} : holder'[s] = u <=> holder[s] = u,
           \A s \in Sem : holder'[s] = t <=> why = s,
           Local(t)'
    PROVE  IInv'
  <1>1. /\ TypeOK /\ Local(t) /\ PlaceInv(t) /\ CoreInv(c) /\ t \in live
        /\ \A k \in Kind \ {"stack"} : ~In(k, t)
    BY OwnFacts
  <1>2. active[c] = t /\ blk[t].next = None
    BY <1>1 DEF CoreInv, Local, At, Inside
  <1>3. /\ pc'[t] = "remove"
        /\ blk'[t] = [core |-> c, me |-> t, next |-> None, why |-> why]
        /\ t \in noPreempt'
    BY <1>1, <1>2 DEF Enter, Goto, TypeOK
  <1>4. /\ Still
        /\ \A u \in TCB \ {t} : SameLocal(u)
        /\ \A d \in Core \ {c} : SameCore(d)
    BY <1>1, <1>2, <1>3 DEF Still, SameLocal, SameCore, Enter, Goto, TypeOK
  <1>5. CoreInv(c)'
    BY <1>1, <1>2, <1>3, ThreadsAssumption DEF CoreInv, Masked, At, TCB
  <1>6. PlaceInv(t)'
    <2>1. Executing(t)' /\ t \in live'
      BY <1>1 DEF Executing
    <2>2. ~Stopped(t)' /\ ~In("zombie", t)' /\ ~In("victim", t)'
      BY <1>1, <1>3, <1>4, StillPlaces DEF Stopped, IInv, Kind
    <2> QED BY <1>3, <2>1, <2>2 DEF PlaceInv, Inside
  <1> QED BY <1>4, <1>5, <1>6, OwnStep DEF Enter

(* yield() and stop().                                                     *)
LEMMA YieldStep ==
    ASSUME IInv, NEW c \in Core, NEW t \in TCB, t = stack[c],
           NEW why \in {"yield", "stop"},
           IF why = "yield" THEN Yield(c) ELSE Stop(c)
    PROVE  IInv'
  <1> DEFINE after == IF why = "yield" THEN Loop(t) ELSE "run"
  <1>1. /\ post[c] = None /\ pc[t] = "run"
        /\ t \in Core => why = "stop"
        /\ why = "stop" => after = "run"
        /\ after \in {"reap", "run"} /\ (after = "reap" => t = Reaper)
    BY ThreadsAssumption DEF Yield, Stop, At, Loop
  <1>2. /\ TypeOK /\ Local(t) /\ PlaceInv(t) /\ CoreInv(c)
        /\ \A k \in Kind \ {"stack"} : ~In(k, t)
    BY OwnFacts
  <1>3. /\ Enter(c, why, after)
        /\ UNCHANGED <<cpu, flags, frame, woken, victim, readyQ, zombies, live, sem, holder>>
    BY DEF Yield, Stop
  <1>4. active[c] = t /\ active[c] \in TCB
    BY <1>1, <1>2 DEF CoreInv, At
  <1> HIDE DEF after
  <1>5. TypeOK'
    BY <1>1, <1>2, <1>3, <1>4 DEF TypeOK, cpu, Enter, Goto, Label, BlockLocals, TCB
  <1>6. /\ pc'[t] = "remove" /\ ret'[t] = after
        /\ blk'[t] = [core |-> c, me |-> t, next |-> None, why |-> why]
    BY <1>2, <1>3, <1>4 DEF Enter, Goto, TypeOK
  <1>7. blk[t] = NoBlock /\ frame[t] = None /\ woken[t] = None /\ victim[t] = None
    BY <1>1, <1>2 DEF Local, Block, Inside, Scheduling, Base, Resumes
  <1>8. Local(t)'
    BY <1>1, <1>3, <1>6, <1>7, ThreadsAssumption
       DEF Local, Base, Resumes, Block, Inside, Scheduling
  <1>9. /\ c \in enabled' /\ frame'[t] = None /\ why \notin Sem
        /\ \A s \in Sem : holder'[s] # t /\ s # why
    BY <1>1, <1>2, <1>3, <1>7, ThreadsAssumption
       DEF CoreInv, PlaceInv, Masked, NoBlock, Inside, Kind, cpu
  <1> QED BY <1>1, <1>3, <1>5, <1>8, <1>9, EnterStep DEF cpu, Inside

(* The timer interrupt: it finds a thread outside block(), because inside  *)
(* the thread may not be preempted, and saves where it was.                *)
LEMMA TimerStep ==
    ASSUME IInv, NEW c \in Core, NEW t \in TCB, t = stack[c], Timer(c)
    PROVE  IInv'
  <1>1. /\ TypeOK /\ Local(t) /\ PlaceInv(t) /\ CoreInv(c)
        /\ \A k \in Kind \ {"stack"} : ~In(k, t)
    BY OwnFacts
  <1>2. /\ post[c] = None /\ c \in enabled
        /\ active[c] \notin noPreempt /\ active[c] \notin Core
    BY DEF Timer
  <1>3. pc[t] \notin Inside /\ active[c] = t
    <2>1. pc[t] \in Inside => pc[t] = "switch"
      BY <1>1, <1>2 DEF CoreInv, At, Inside
    <2>2. pc[t] # "switch"
      BY <1>1, <1>2 DEF CoreInv, At, Inside, Local
    <2> QED BY <1>1, <1>2, <2>1, <2>2 DEF CoreInv, At
  <1>4. frame[t] = None /\ blk[t].why \notin Sem
    BY <1>1, <1>2 DEF CoreInv, Masked
  <1>5. /\ Enter(c, "yield", "run")
        /\ UNCHANGED <<active, esp0, stack, post, flags, woken, victim, readyQ,
                       zombies, live, sem, holder>>
        /\ enabled' = enabled \ {c}
    BY DEF Timer
  <1>6. /\ pc'[t] = "remove" /\ ret'[t] = "run"
        /\ blk'[t] = [core |-> c, me |-> t, next |-> None, why |-> "yield"]
        /\ frame'[t] = [pc |-> pc[t], ret |-> ret[t]]
        /\ \A u \in TCB \ {t} : frame'[u] = frame[u]
    BY <1>1, <1>3 DEF Timer, Enter, Goto, TypeOK
  <1>7. /\ pc[t] \in Label \ {"remove", "activate", "switch"} /\ ret[t] \in Label
        /\ [pc |-> pc[t], ret |-> ret[t]] # None
    <2>1. pc[t] \in Label \ {"remove", "activate", "switch"} /\ ret[t] \in Label
      BY <1>1, <1>3 DEF TypeOK, Inside
    <2> QED BY <2>1, ThreadsAssumption
  <1>8. TypeOK'
    <2>1. frame' \in [TCB -> [pc : Label \ {"remove", "activate", "switch"},
                              ret : Label] \cup {None}]
      BY <1>1, <1>7 DEF TypeOK, Timer
    <2> QED
      BY <1>1, <1>3, <1>5, <2>1 DEF TypeOK, Enter, Goto, Label, BlockLocals, TCB
  <1>9. Local(t)'
    <2>1. Base(t)' = Base(t)
      BY <1>3, <1>4, <1>6, <1>7 DEF Base, Resumes, Block
    <2>2. Scheduling(t)' <=> Scheduling(t)
      BY <1>3, <1>4, <1>6, <1>7 DEF Scheduling
    <2> QED
      BY <1>1, <1>2, <1>3, <1>5, <1>6, <1>7, <2>1, <2>2, ThreadsAssumption
         DEF Local, Block, Inside
  <1>10. /\ c \notin enabled' /\ frame'[t] # None /\ "yield" \notin Sem
         /\ \A s \in Sem : holder'[s] # t
    BY <1>1, <1>4, <1>5, <1>6, <1>7, ThreadsAssumption DEF PlaceInv
  <1> QED BY <1>2, <1>3, <1>5, <1>6, <1>8, <1>9, <1>10, EnterStep

(* down() that has to wait enters block() with the lock held.              *)
LEMMA DownBlockStep ==
    ASSUME IInv, NEW c \in Core, NEW t \in TCB, t = stack[c],
           NEW s \in Sem, DownBlock(c, s)
    PROVE  IInv'
  <1>1. /\ TypeOK /\ Local(t) /\ PlaceInv(t) /\ CoreInv(c)
        /\ \A k \in Kind \ {"stack"} : ~In(k, t)
    BY OwnFacts
  <1>2. /\ post[c] = None /\ t \in Thread /\ t \notin Core
        /\ pc[t] \in {"delete", "new", "run"} /\ (pc[t] = "run" => t # Reaper)
        /\ holder[s] = None
    BY ThreadsAssumption DEF DownBlock, Working
  <1>3. /\ Enter(c, s, pc[t])
        /\ UNCHANGED <<active, esp0, stack, post, flags, frame, woken, victim, readyQ,
                       zombies, live, sem>>
        /\ enabled' = enabled \ {c}
        /\ holder' = [holder EXCEPT ![s] = t]
    BY DEF DownBlock
  <1>4. active[c] = t
    BY <1>1, <1>2 DEF CoreInv, At
  <1>5. blk[t] = NoBlock /\ frame[t] = None
    BY <1>1, <1>2 DEF Local, Block, Inside
  <1>6. /\ pc'[t] = "remove" /\ ret'[t] = pc[t]
        /\ blk'[t] = [core |-> c, me |-> t, next |-> None, why |-> s]
    BY <1>1, <1>3, <1>4 DEF Enter, Goto, TypeOK
  <1>7. TypeOK'
    BY <1>1, <1>2, <1>3, <1>4 DEF TypeOK, Enter, Goto, Label, BlockLocals, TCB
  <1>8. Local(t)'
    <2>1. Base(t)' = Base(t)
      BY <1>2, <1>3, <1>5, <1>6 DEF Base, Resumes, Block, Inside
    <2>2. ~Scheduling(t)' /\ ~Scheduling(t)
      BY <1>2, <1>3, <1>5, <1>6 DEF Scheduling
    <2> QED
      BY <1>1, <1>2, <1>3, <1>5, <1>6, <2>1, <2>2, ThreadsAssumption
         DEF Local, Block, Inside
  <1>9. /\ c \notin enabled'
        /\ \A r \in Sem, u \in TCB \ {t} : holder'[r] = u <=> holder[r] = u
        /\ \A r \in Sem : holder'[r] = t <=> s = r
    <2>1. \A r \in Sem : holder[r] # t
      BY <1>1, <1>2, <1>5, ThreadsAssumption DEF PlaceInv, Inside, Kind
    <2> QED BY <1>1, <1>2, <1>3, <2>1, ThreadsAssumption DEF TypeOK, TCB
  <1> QED BY <1>2, <1>3, <1>7, <1>8, <1>9, EnterStep DEF Inside

(* yield() with nobody ready.                                              *)
LEMMA CanReturnStep ==
    ASSUME IInv, NEW c \in Core, NEW t \in TCB, t = stack[c], CanReturn(c)
    PROVE  IInv'
  <1>1. /\ TypeOK /\ Local(t) /\ PlaceInv(t) /\ CoreInv(c) /\ t \in live
        /\ In("stack", t) /\ \A k \in Kind \ {"stack"} : ~In(k, t)
    BY OwnFacts
  <1>2. post[c] = None /\ pc[t] = "remove" /\ blk[t].why = "yield" /\ blk[t].next = None
    BY <1>1 DEF CanReturn, At, Local
  <1>3. TypeOK'
    BY <1>1 DEF TypeOK, CanReturn, Goto, Label, cpu
  <1>4. /\ Still
        /\ \A u \in TCB \ {t} : SameLocal(u)
        /\ \A d \in Core \ {c} : SameCore(d)
    BY <1>1 DEF Still, SameLocal, SameCore, CanReturn, Goto, TypeOK, cpu
  <1>5. /\ pc'[t] = "return" /\ ret' = ret /\ woken' = woken /\ victim' = victim
        /\ blk' = blk /\ frame' = frame /\ holder' = holder /\ live' = live /\ flags' = flags
        /\ UNCHANGED <<stack, post, active, esp0, enabled>>
    BY <1>1 DEF CanReturn, Goto, TypeOK, cpu
  <1>6. Local(t)'
    <2>1. Base(t)' = Base(t) /\ (Scheduling(t)' <=> Scheduling(t))
      BY <1>2, <1>5 DEF Base, Resumes, Block, Inside, Scheduling
    <2> QED BY <1>1, <1>2, <1>5, <2>1 DEF Local, Block, Inside
  <1>7. CoreInv(c)'
    BY <1>1, <1>2, <1>5, ThreadsAssumption DEF CoreInv, Masked, At, Inside
  <1>8. PlaceInv(t)'
    <2>1. Executing(t)' /\ \A k \in Kind \ {"stack"} : ~In(k, t)'
      BY <1>1, <1>2, <1>4, <1>5, StillPlaces DEF Executing, IInv
    <2>2. ~Stopped(t)'
      BY <1>2, <1>5 DEF Stopped
    <2>3. \A s \in Sem : holder[s] # t /\ blk[t].why # s
      BY <1>1, <1>2, ThreadsAssumption DEF PlaceInv
    <2> QED BY <1>1, <1>5, <2>1, <2>2, <2>3 DEF PlaceInv, Kind
  <1> QED BY <1>2, <1>3, <1>4, <1>5, <1>6, <1>7, <1>8, OwnStep DEF CanReturn

(* The store to activeThreads in block().                                  *)
LEMMA ActivateStep ==
    ASSUME IInv, NEW c \in Core, NEW t \in TCB, t = stack[c], Activate(c)
    PROVE  IInv'
  <1>1. /\ TypeOK /\ Local(t) /\ PlaceInv(t) /\ CoreInv(c) /\ t \in live
        /\ In("stack", t) /\ \A k \in Kind \ {"stack"} : ~In(k, t)
    BY OwnFacts
  <1>2. /\ post[c] = None /\ pc[t] = "activate" /\ blk[t].next # None
        /\ blk[t].core = c /\ blk[t].next \in TCB
    BY <1>1 DEF Activate, At, Local, CoreInv, Inside, TypeOK, BlockLocals
  <1>3. /\ active' = [active EXCEPT ![c] = blk[t].next]
        /\ esp0' = [esp0 EXCEPT ![c] = blk[t].next]
        /\ pc' = [pc EXCEPT ![t] = "switch"]
        /\ UNCHANGED <<stack, enabled, post, noPreempt, flags, frame, blk, ret,
                       woken, victim, readyQ, zombies, live, sem, holder>>
    BY <1>2 DEF Activate, Goto
  <1>4. TypeOK'
    BY <1>1, <1>2, <1>3 DEF TypeOK, Label
  <1>5. /\ Still
        /\ \A u \in TCB \ {t} : SameLocal(u)
        /\ \A d \in Core \ {c} : SameCore(d)
    BY <1>1, <1>3 DEF Still, SameLocal, SameCore, TypeOK
  <1>6. /\ pc'[t] = "switch"
        /\ active'[c] = blk[t].next /\ esp0'[c] = blk[t].next
    BY <1>1, <1>3 DEF TypeOK
  <1>7. Local(t)'
    <2>1. Base(t)' = Base(t) /\ (Scheduling(t)' <=> Scheduling(t))
      BY <1>2, <1>3, <1>6 DEF Base, Resumes, Block, Inside, Scheduling
    <2> QED BY <1>1, <1>2, <1>3, <1>6, <2>1 DEF Local, Block, Inside
  <1>8. CoreInv(c)'
    BY <1>1, <1>2, <1>3, <1>6 DEF CoreInv, Masked, At, Inside
  <1>9. PlaceInv(t)'
    <2>1. Executing(t)' /\ \A k \in Kind \ {"stack"} : ~In(k, t)'
      BY <1>1, <1>2, <1>3, <1>5, StillPlaces DEF Executing, IInv
    <2>2. ~Stopped(t)'
      BY <1>6 DEF Stopped
    <2> QED BY <1>1, <1>2, <1>3, <1>6, <2>1, <2>2 DEF PlaceInv, Kind, Inside
  <1> QED BY <1>2, <1>3, <1>4, <1>5, <1>7, <1>8, <1>9, OwnStep

(* block() returns, into the interrupted code or to its caller.            *)
LEMMA ReturnStep ==
    ASSUME IInv, NEW c \in Core, NEW t \in TCB, t = stack[c], Return(c)
    PROVE  IInv'
  <1>1. /\ TypeOK /\ Local(t) /\ PlaceInv(t) /\ CoreInv(c) /\ t \in live
        /\ In("stack", t) /\ \A k \in Kind \ {"stack"} : ~In(k, t)
    BY OwnFacts
  <1>2. post[c] = None /\ pc[t] = "return" /\ blk[t].next = None
    BY <1>1 DEF Return, At, Local
  <1> DEFINE p == IF frame[t] # None THEN frame[t].pc ELSE ret[t]
             r == IF frame[t] # None THEN frame[t].ret ELSE "run"
  <1>3. /\ frame' = [frame EXCEPT ![t] = None]
        /\ pc' = [pc EXCEPT ![t] = p]
        /\ ret' = [ret EXCEPT ![t] = r]
        /\ blk' = [blk EXCEPT ![t] = NoBlock]
        /\ enabled' = IF frame[t] # None \/ blk[t].why \in Sem
                          THEN enabled \cup {c} ELSE enabled
        /\ UNCHANGED <<active, esp0, stack, post, noPreempt, flags, woken, victim,
                       readyQ, zombies, live, sem, holder>>
    BY <1>1 DEF Return, Goto, TypeOK
  <1>4. /\ p \in Label \ Inside /\ r \in Label
        /\ frame[t] = None => p \notin {"schedule", "return"}
    BY <1>1, <1>2 DEF TypeOK, Label, Local, Base, Resumes, Block, Inside
  <1>5. /\ p \in {"schedule", "return"} => r = Base(t)
        /\ p \notin {"schedule", "return"} => p = Base(t)
        /\ p = "schedule" <=> Scheduling(t)
    BY <1>2, <1>4 DEF Base, Resumes, Block, Scheduling
  <1> HIDE DEF p, r
  <1>6. TypeOK'
    BY <1>1, <1>3, <1>4, ThreadsAssumption DEF TypeOK, NoBlock, BlockLocals, Inside
  <1>7. /\ Still
        /\ \A u \in TCB \ {t} : SameLocal(u)
        /\ \A d \in Core \ {c} : SameCore(d)
    BY <1>1, <1>2, <1>3 DEF Still, SameLocal, SameCore, TypeOK, NoBlock
  <1>8. /\ pc'[t] = p /\ ret'[t] = r /\ frame'[t] = None /\ blk'[t] = NoBlock
        /\ c \in enabled'
    BY <1>1, <1>2, <1>3 DEF TypeOK, CoreInv, Masked
  <1>9. Local(t)'
    <2>1. (Scheduling(t)' <=> Scheduling(t)) 
      BY <1>5, <1>8 DEF Scheduling
    <2>2. Base(t)' = Base(t)
      BY <1>4, <1>5, <1>8 DEF Base, Resumes, Block
    <2>3. t \in Core => p = "run"
      BY <1>1, <1>4, <1>5 DEF Local, p, Base
    <2> QED
      BY <1>1, <1>3, <1>4, <1>8, <2>1, <2>2, <2>3, ThreadsAssumption
         DEF Local, Block, Inside, NoBlock
  <1>10. CoreInv(c)'
    BY <1>1, <1>2, <1>3, <1>4, <1>8, ThreadsAssumption
       DEF CoreInv, Masked, At, Inside, NoBlock
  <1>11. PlaceInv(t)'
    <2>1. Executing(t)' /\ \A k \in Kind \ {"stack"} : ~In(k, t)'
      BY <1>1, <1>2, <1>3, <1>7, StillPlaces DEF Executing, IInv
    <2>2. ~Stopped(t)'
      BY <1>8 DEF Stopped, NoBlock
    <2>3. \A s \in Sem : holder[s] # t /\ blk'[t].why # s
      BY <1>1, <1>2, <1>8, ThreadsAssumption DEF PlaceInv, NoBlock, Inside, Kind
    <2> QED BY <1>1, <1>3, <2>1, <2>2, <2>3 DEF PlaceInv, Kind
  <1> QED BY <1>2, <1>3, <1>6, <1>7, <1>9, <1>10, <1>11, OwnStep

(* A TCB that leaves its place for one of kind to is in one kind of place. *)
LEMMA Moved ==
    ASSUME OneKind, NEW x \in TCB, NEW to \in Kind,
           x \in Core \/ (\E k \in Kind : In(k, x)),
           live' = live,
           \A u \in TCB, k \in Kind : In(k, u)' <=> IF u = x THEN k = to ELSE In(k, u)
    PROVE  OneKind'
  BY DEF OneKind, TCB

(* A step of a thread outside block() that may take TCBs from one queue or *)
(* variable to another and delete dead ones.                               *)
LEMMA WorkStep ==
    ASSUME IInv, NEW c \in Core, NEW t \in TCB, t = stack[c], post[c] = None,
           pc[t] \notin Block, pc'[t] \notin Block,
           UNCHANGED <<cpu, noPreempt, flags, frame, blk, holder>>,
           TypeOK', OneKind', OnceEach', Local(t)',
           \A u \in TCB \ {t} : SameLocal(u),
           \A u \in TCB : In("zombie", u)' \/ In("victim", u)'
                              => In("zombie", u) \/ In("victim", u),
           \A u \in TCB : In("woken", u)' \/ In("ready", u)' \/ In("waiting", u)'
                              => In("woken", u) \/ In("ready", u) \/ In("waiting", u),
           live' \subseteq live,
           \A u \in live \ live' : Stopped(u)
    PROVE  IInv'
  <1>1. /\ TypeOK /\ Local(t) /\ PlaceInv(t) /\ CoreInv(c) /\ t \in live
        /\ In("stack", t) /\ (\A k \in Kind \ {"stack"} : ~In(k, t))
        /\ Executing(t)
    BY OwnFacts
  <1>2. ASSUME NEW u \in TCB PROVE Local(u)'
    BY OtherLocal DEF IInv
  <1>3. ASSUME NEW u \in TCB
        PROVE  /\ Executing(u)' <=> Executing(u)
               /\ In("stack", u)' <=> In("stack", u)
               /\ In("post", u)' <=> In("post", u)
               /\ In("next", u)' <=> In("next", u)
    BY DEF Executing, In, cpu
  <1>4. ASSUME NEW u \in TCB, u # t PROVE PlaceInv(u)'
    <2>1. (Masked(u)' <=> Masked(u)) /\ (Stopped(u)' <=> Stopped(u))
      BY <1>4 DEF SameLocal, Masked, Stopped
    <2>2. PlaceInv(u) /\ Local(u) /\ SameLocal(u)
      BY <1>4 DEF IInv
    <2>3. u \notin live' => frame'[u] = None /\ woken'[u] = None /\ victim'[u] = None
      <3>1. CASE u \notin live
        BY <2>2, <3>1 DEF PlaceInv, SameLocal
      <3>2. CASE Stopped(u)
        BY <2>2, <3>2 DEF Stopped, Local, SameLocal, Scheduling, Base, Resumes, Block
      <3> QED BY <3>1, <3>2
    <2> QED BY <1>3, <2>1, <2>2, <2>3 DEF PlaceInv, SameLocal
  <1>5. PlaceInv(t)'
    <2>1. ~Stopped(t) /\ ~Stopped(t)' /\ t \in live' /\ Executing(t)'
      BY <1>1, <1>3 DEF Stopped, Block
    <2>2. ~In("zombie", t)' /\ ~In("victim", t)' /\ ~In("post", t)'
      BY <1>1, <1>3 DEF Kind
    <2>3. \A s \in Sem : holder[s] # t /\ blk[t].why # s
      BY <1>1, ThreadsAssumption DEF PlaceInv, Local, NoBlock, Block, Inside, Kind
    <2> QED BY <2>1, <2>2, <2>3 DEF PlaceInv
  <1>6. ASSUME NEW d \in Core PROVE CoreInv(d)'
    <2>1. CASE d = c
      BY <1>1, <2>1 DEF CoreInv, At, Masked, Block, Inside, cpu
    <2>2. CASE d # c
      <3>1. stack[d] \in TCB /\ stack[d] # t
        BY <2>2 DEF IInv, TypeOK, OnceEach
      <3>2. post[d] # None => post[d] \in TCB /\ post[d] # t
        <4>1. ~In("post", t)
          BY <1>1 DEF Kind
        <4> QED BY <1>1, <4>1 DEF TypeOK, In
      <3>3. SameCore(d) /\ CoreInv(d)
        BY DEF SameCore, cpu, IInv
      <3> QED BY <2>2, <3>1, <3>2, <3>3, OtherCore DEF CoreInv
    <2> QED BY <2>1, <2>2
  <1> QED BY <1>2, <1>4, <1>5, <1>6 DEF IInv

(* down() that takes a unit.                                               *)
LEMMA DownPassStep ==
    ASSUME IInv, NEW c \in Core, NEW t \in TCB, t = stack[c],
           NEW s \in Sem, DownPass(c, s)
    PROVE  IInv'
  <1>1. TypeOK /\ Local(t)
    BY OwnFacts
  <1>2. /\ sem' = [sem EXCEPT ![s] = [sem[s] EXCEPT !.count = sem[s].count - 1]]
        /\ sem[s].count > 0
    BY DEF DownPass, Taken, Free
  <1>3. TypeOK'
    <2>1. sem[s] \in [count : Nat, waiting : Seq(Thread)]
      BY <1>1 DEF TypeOK
    <2>2. sem[s].count - 1 \in Nat
      BY <1>2, <2>1
    <2>3. [sem[s] EXCEPT !.count = sem[s].count - 1] \in [count : Nat, waiting : Seq(Thread)]
      BY <2>1, <2>2
    <2>4. sem' \in [Sem -> [count : Nat, waiting : Seq(Thread)]]
      BY <1>1, <1>2, <2>3 DEF TypeOK
    <2> QED BY <1>1, <2>4 DEF TypeOK, DownPass, cpu, local
  <1>4. Still
    BY <1>1, <1>2 DEF Still, DownPass, cpu, local, TypeOK
  <1>5. /\ \A u \in TCB : SameLocal(u)
        /\ \A u, k : In(k, u)' <=> In(k, u)
        /\ OneKind' /\ OnceEach' /\ Local(t)'
    BY <1>1, <1>4, StillPlaces, OtherLocal DEF SameLocal, DownPass, local, IInv
  <1>6. post[c] = None /\ pc[t] \notin Block /\ pc' = pc
    BY DEF DownPass, Working, Block, Inside, local
  <1> QED BY <1>3, <1>5, <1>6, WorkStep DEF DownPass, local

(* thread() begins.                                                        *)
LEMMA SpawnStep ==
    ASSUME IInv, NEW c \in Core, NEW t \in TCB, t = stack[c], Spawn(c)
    PROVE  IInv'
  <1>1. TypeOK /\ Local(t)
    BY OwnFacts
  <1>2. /\ post[c] = None /\ pc[t] = "run" /\ pc' = [pc EXCEPT ![t] = "spawn"]
        /\ t \in Thread \ {Reaper}
    BY DEF Spawn, At, Goto
  <1>3. TypeOK'
    BY <1>1, <1>2 DEF TypeOK, Spawn, cpu, Label
  <1>4. Still
    BY DEF Still, Spawn, cpu
  <1>5. /\ \A u, k : In(k, u)' <=> In(k, u)
        /\ OneKind' /\ OnceEach'
    BY <1>4, StillPlaces DEF IInv
  <1>6. pc'[t] = "spawn" /\ \A u \in TCB \ {t} : SameLocal(u)
    BY <1>1, <1>2 DEF SameLocal, Spawn, TypeOK
  <1>7. Local(t)'
    BY <1>1, <1>2, <1>6, ThreadsAssumption
       DEF Spawn, Local, Block, Inside, Scheduling, Base, Resumes
  <1> QED BY <1>2, <1>3, <1>5, <1>6, <1>7, WorkStep DEF Spawn, Block, Inside

(* schedule() in up() or thread(): the thread goes from the local variable *)
(* to readyQ.                                                              *)
LEMMA ScheduleStep ==
    ASSUME IInv, NEW c \in Core, NEW t \in TCB, t = stack[c], Schedule(c)
    PROVE  IInv'
  <1>1. TypeOK /\ Local(t) /\ OneKind /\ OnceEach
    BY OwnFacts DEF IInv
  <1>2. post[c] = None /\ pc[t] = "schedule"
    BY DEF Schedule, At
  <1>3. PICK x \in Thread : x = woken[t]
    BY <1>1, <1>2 DEF Local, Scheduling, TypeOK
  <1>4. x \in TCB /\ x \notin Core /\ x # None
    BY ThreadsAssumption DEF TCB
  <1>5. /\ readyQ' = Append(readyQ, x)
        /\ woken' = [woken EXCEPT ![t] = None]
        /\ pc' = [pc EXCEPT ![t] = ret[t]]
        /\ ret' = [ret EXCEPT ![t] = "run"]
        /\ UNCHANGED <<cpu, noPreempt, flags, frame, blk, victim, zombies, live,
                       sem, holder>>
    BY <1>3, <1>4 DEF Schedule, Scheduled, Goto
  <1>6. In("woken", x)
    BY <1>3 DEF In
  <1>7. ~In("ready", x) /\ \A k \in Kind \ {"woken"} : ~In(k, x)
    BY <1>1, <1>4, <1>6 DEF OneKind, Kind
  <1>8. ASSUME NEW u \in TCB, NEW k \in Kind
        PROVE  In(k, u)' <=> IF u = x THEN k = "ready" ELSE In(k, u)
    <2>1. CASE k = "ready"
      BY <1>1, <1>5, <1>7, <2>1, Appended DEF In, TypeOK
    <2>2. CASE k = "woken"
      <3>1. \A v \in TCB : woken'[v] = u <=> woken[v] = u /\ v # t
        BY <1>1, <1>4, <1>5, ThreadsAssumption DEF TypeOK, TCB
      <3>2. In(k, u)' <=> \E v \in TCB : woken[v] = u /\ v # t
        BY <2>2, <3>1 DEF In
      <3>3. \A v \in TCB : woken[v] = x => v = t
        BY <1>1, <1>3, <1>4 DEF OnceEach
      <3> QED BY <1>3, <2>2, <3>2, <3>3 DEF In
    <2>3. CASE k \notin {"ready", "woken"}
      <3>1. In(k, u)' <=> In(k, u)
        BY <1>5, <2>3 DEF In, cpu
      <3> QED BY <1>7, <2>3, <3>1
    <2> QED BY <2>1, <2>2, <2>3
  <1>9. OneKind'
    BY <1>1, <1>4, <1>5, <1>6, <1>8, Moved DEF Kind
  <1>10. OnceEach'
    <2>1. Distinct(readyQ)'
      BY <1>1, <1>5, <1>7, Appended DEF In, TypeOK, OnceEach
    <2>2. \A u, v \in TCB : woken'[u] = woken'[v] /\ woken'[u] # None => u = v
      BY <1>1, <1>5 DEF OnceEach, TypeOK
    <2> QED BY <1>1, <1>5, <2>1, <2>2 DEF OnceEach, cpu, Distinct, Listed
  <1>11. TypeOK'
    <2>1. readyQ' \in Seq(Thread)
      BY <1>1, <1>5, Appended DEF TypeOK
    <2> QED BY <1>1, <1>5, <2>1 DEF TypeOK, cpu, Label
  <1>12. /\ ret[t] \in {"run", "delete", "new", "reap", "spawn", "entry"}
         /\ ret[t] = Base(t) /\ frame[t] = None
    BY <1>1, <1>2 DEF Local, Base, Resumes, Block, Inside
  <1>13. /\ pc'[t] = ret[t] /\ woken'[t] = None
         /\ \A u \in TCB \ {t} : SameLocal(u)
    BY <1>1, <1>5 DEF SameLocal, TypeOK
  <1>14. Local(t)'
    <2>1. ~Scheduling(t)' /\ Base(t)' = Base(t)
      BY <1>5, <1>12, <1>13 DEF Scheduling, Base, Resumes, Block, Inside
    <2> QED BY <1>1, <1>2, <1>5, <1>12, <1>13, <2>1 DEF Local, Block, Inside
  <1>15. /\ \A u \in TCB : In("zombie", u)' \/ In("victim", u)'
                              => In("zombie", u) \/ In("victim", u)
         /\ \A u \in TCB : In("woken", u)' \/ In("ready", u)' \/ In("waiting", u)'
                              => In("woken", u) \/ In("ready", u) \/ In("waiting", u)
    BY <1>6, <1>8 DEF Kind
  <1> QED
    BY <1>2, <1>5, <1>9, <1>10, <1>11, <1>12, <1>13, <1>14, <1>15, WorkStep
       DEF Block, Inside

(* up() with nobody waiting.                                               *)
LEMMA UpAddsStep ==
    ASSUME IInv, NEW c \in Core, NEW t \in TCB, t = stack[c],
           NEW s \in Sem, Up(c, s), sem[s].waiting = <<>>
    PROVE  IInv'
  <1>1. TypeOK /\ Local(t)
    BY OwnFacts
  <1>2. /\ sem' = [sem EXCEPT ![s] = [sem[s] EXCEPT !.count = sem[s].count + 1]]
        /\ UNCHANGED <<cpu, noPreempt, flags, local, readyQ, zombies, live, holder>>
    BY DEF Up, Raised, local
  <1>3. TypeOK'
    <2>1. sem[s] \in [count : Nat, waiting : Seq(Thread)]
      BY <1>1 DEF TypeOK
    <2>2. sem[s].count + 1 \in Nat
      BY <2>1
    <2>3. [sem[s] EXCEPT !.count = sem[s].count + 1] \in [count : Nat, waiting : Seq(Thread)]
      BY <2>1, <2>2
    <2>4. sem' \in [Sem -> [count : Nat, waiting : Seq(Thread)]]
      BY <1>1, <1>2, <2>3 DEF TypeOK
    <2> QED BY <1>1, <1>2, <2>4 DEF TypeOK, cpu, local
  <1>4. Still
    BY <1>1, <1>2 DEF Still, cpu, local, TypeOK
  <1>5. /\ \A u \in TCB : SameLocal(u)
        /\ \A u, k : In(k, u)' <=> In(k, u)
        /\ OneKind' /\ OnceEach' /\ Local(t)'
    BY <1>1, <1>2, <1>4, StillPlaces, OtherLocal DEF SameLocal, local, IInv
  <1>6. post[c] = None /\ pc[t] \notin Block /\ pc' = pc
    BY <1>2 DEF Up, Working, Block, Inside, local
  <1> QED BY <1>2, <1>3, <1>5, <1>6, WorkStep DEF local

(* up() takes the first waiter into a local variable.                      *)
LEMMA UpWakesStep ==
    ASSUME IInv, NEW c \in Core, NEW t \in TCB, t = stack[c],
           NEW s \in Sem, Up(c, s), sem[s].waiting # <<>>
    PROVE  IInv'
  <1>1. TypeOK /\ Local(t) /\ OneKind /\ OnceEach
    BY OwnFacts DEF IInv
  <1>2. post[c] = None /\ pc[t] \in {"run", "delete", "new"} /\ t \in Thread
    BY DEF Up, Working
  <1>3. blk[t] = NoBlock /\ frame[t] = None /\ woken[t] = None /\ Base(t) = pc[t]
    BY <1>1, <1>2 DEF Local, Block, Inside, Scheduling, Base, Resumes
  <1>4. sem[s] \in [count : Nat, waiting : Seq(Thread)]
    BY <1>1 DEF TypeOK
  <1> DEFINE q == sem[s].waiting
  <1>5. q \in Seq(Thread) /\ q # <<>>
    BY <1>4
  <1>6. PICK x \in Thread : x = Head(q)
    BY <1>5, Dequeued
  <1>7. x \in TCB /\ x \notin Core /\ x # None
    BY ThreadsAssumption DEF TCB
  <1>8. /\ sem' = [sem EXCEPT ![s] = [sem[s] EXCEPT !.waiting = Tail(q)]]
        /\ woken' = [woken EXCEPT ![t] = x]
        /\ ret' = [ret EXCEPT ![t] = pc[t]]
        /\ pc' = [pc EXCEPT ![t] = "schedule"]
        /\ UNCHANGED <<cpu, noPreempt, flags, frame, blk, victim, readyQ, zombies,
                       live, holder>>
    BY <1>6 DEF Up, Raised, Goto
  <1>9. /\ sem' \in [Sem -> [count : Nat, waiting : Seq(Thread)]]
        /\ sem'[s].waiting = Tail(q)
        /\ \A r \in Sem \ {s} : sem'[r].waiting = sem[r].waiting
    <2>1. [sem[s] EXCEPT !.waiting = Tail(q)] \in [count : Nat, waiting : Seq(Thread)]
      BY <1>4, <1>5, Dequeued
    <2>2. [sem[s] EXCEPT !.waiting = Tail(q)].waiting = Tail(q)
      BY <1>4
    <2> QED BY <1>1, <1>8, <2>1, <2>2 DEF TypeOK
  <1>10. Distinct(q) /\ \A r \in Sem : Listed(sem[r].waiting, x) => r = s
    BY <1>1, <1>5, <1>6, <1>7, Dequeued DEF OnceEach
  <1> HIDE DEF q
  <1>11. In("waiting", x)
    BY <1>5, <1>6, Dequeued DEF In, q
  <1>12. ~In("woken", x) /\ \A k \in Kind \ {"waiting"} : ~In(k, x)
    BY <1>1, <1>7, <1>11 DEF OneKind, Kind
  <1>13. ASSUME NEW r \in Sem, NEW u \in TCB
         PROVE  Listed(sem'[r].waiting, u) <=> Listed(sem[r].waiting, u) /\ u # x
    <2>1. CASE r = s
      BY <1>5, <1>6, <1>9, <1>10, <2>1, Dequeued DEF q
    <2>2. CASE r # s
      BY <1>9, <1>10, <2>2
    <2> QED BY <2>1, <2>2
  <1>14. ASSUME NEW u \in TCB, NEW k \in Kind
         PROVE  In(k, u)' <=> IF u = x THEN k = "woken" ELSE In(k, u)
    <2>1. CASE k = "woken"
      <3>1. woken'[t] = x /\ \A v \in TCB \ {t} : woken'[v] = woken[v]
        BY <1>1, <1>8 DEF TypeOK
      <3> QED BY <1>3, <1>7, <2>1, <3>1, ThreadsAssumption DEF In, TCB
    <2>2. CASE k = "waiting"
      BY <1>13, <2>2 DEF In
    <2>3. CASE k \notin {"woken", "waiting"}
      <3>1. In(k, u)' <=> In(k, u)
        BY <1>8, <2>3 DEF In, cpu
      <3> QED BY <1>12, <2>3, <3>1
    <2> QED BY <2>1, <2>2, <2>3
  <1>15. OneKind'
    BY <1>1, <1>7, <1>8, <1>11, <1>14, Moved DEF Kind
  <1>16. OnceEach'
    <2>1. \A r \in Sem : Distinct(sem'[r].waiting)
      BY <1>1, <1>5, <1>9, <1>10, Dequeued DEF OnceEach
    <2>2. \A r1, r2 \in Sem, u \in TCB :
              Listed(sem'[r1].waiting, u) /\ Listed(sem'[r2].waiting, u) => r1 = r2
      BY <1>1, <1>13 DEF OnceEach
    <2>3. \A u, v \in TCB : woken'[u] = woken'[v] /\ woken'[u] # None => u = v
      <3>1. \A v \in TCB : woken[v] # x
        BY <1>12 DEF In
      <3> QED BY <1>1, <1>8, <3>1 DEF OnceEach, TypeOK
    <2>4. UNCHANGED <<stack, post, blk, victim, readyQ, zombies>>
      BY <1>8 DEF cpu
    <2> QED BY <1>1, <2>1, <2>2, <2>3, <2>4 DEF OnceEach
  <1>17. TypeOK'
    BY <1>1, <1>8, <1>9 DEF TypeOK, cpu, Label
  <1>18. /\ pc'[t] = "schedule" /\ woken'[t] = x /\ ret'[t] = pc[t]
         /\ \A u \in TCB \ {t} : SameLocal(u)
    BY <1>1, <1>8 DEF SameLocal, TypeOK
  <1>19. Local(t)'
    <2>1. Scheduling(t)' /\ Base(t)' = Base(t)
      BY <1>2, <1>3, <1>8, <1>18 DEF Scheduling, Base, Resumes, Block, Inside
    <2> QED
      BY <1>1, <1>2, <1>3, <1>7, <1>8, <1>18, <2>1, ThreadsAssumption
         DEF Local, Block, Inside, NoBlock
  <1>20. /\ \A u \in TCB : In("zombie", u)' \/ In("victim", u)'
                              => In("zombie", u) \/ In("victim", u)
         /\ \A u \in TCB : In("woken", u)' \/ In("ready", u)' \/ In("waiting", u)'
                              => In("woken", u) \/ In("ready", u) \/ In("waiting", u)
    BY <1>11, <1>14 DEF Kind
  <1> QED
    BY <1>2, <1>8, <1>15, <1>16, <1>17, <1>18, <1>19, <1>20, WorkStep
       DEF Block, Inside

(* delete_zombies() takes a dead thread out of zombies, or finds none.     *)
LEMMA DeleteZombiesStep ==
    ASSUME IInv, NEW c \in Core, NEW t \in TCB, t = stack[c], DeleteZombies(c)
    PROVE  IInv'
  <1>1. TypeOK /\ Local(t) /\ OneKind /\ OnceEach
    BY OwnFacts DEF IInv
  <1>2. /\ post[c] = None /\ pc[t] \in {"spawn", "reap"}
        /\ pc[t] = "reap" => t = Reaper
        /\ t = Reaper => pc[t] = "reap"
        /\ t \notin Core
        /\ blk[t] = NoBlock /\ frame[t] = None /\ woken[t] = None /\ victim[t] = None
    BY <1>1 DEF DeleteZombies, At, Local, Base, Resumes, Block, Inside, Scheduling
  <1>3. CASE zombies = <<>>
    <2>1. /\ pc' = [pc EXCEPT ![t] = IF t = Reaper THEN "run" ELSE "new"]
          /\ UNCHANGED <<cpu, noPreempt, flags, frame, blk, ret, woken, victim, readyQ,
                         zombies, live, sem, holder>>
      BY <1>3 DEF DeleteZombies, Goto
    <2>2. TypeOK'
      BY <1>1, <2>1 DEF TypeOK, cpu, Label
    <2>3. Still
      BY <2>1 DEF Still, cpu
    <2>4. /\ \A u, k : In(k, u)' <=> In(k, u)
          /\ OneKind' /\ OnceEach'
      BY <1>1, <2>3, StillPlaces
    <2>5. /\ pc'[t] = IF t = Reaper THEN "run" ELSE "new"
          /\ \A u \in TCB \ {t} : SameLocal(u)
      BY <1>1, <2>1 DEF SameLocal, TypeOK
    <2>6. Local(t)'
      BY <1>1, <1>2, <2>1, <2>5, ThreadsAssumption
         DEF Local, Block, Inside, Scheduling, Base, Resumes
    <2> QED BY <1>2, <2>1, <2>2, <2>4, <2>5, <2>6, WorkStep DEF Block, Inside
  <1>4. CASE zombies # <<>>
    <2>1. PICK x \in Thread : x = Head(zombies)
      BY <1>1, <1>4, Dequeued DEF TypeOK
    <2>2. x \in TCB /\ x \notin Core /\ x # None
      BY ThreadsAssumption DEF TCB
    <2>3. /\ pc' = [pc EXCEPT ![t] = "delete"]
          /\ victim' = [victim EXCEPT ![t] = x]
          /\ zombies' = Tail(zombies)
          /\ UNCHANGED <<cpu, noPreempt, flags, frame, blk, ret, woken, readyQ,
                         live, sem, holder>>
      BY <1>4, <2>1 DEF DeleteZombies, Goto
    <2>4. In("zombie", x)
      BY <1>1, <1>4, <2>1, Dequeued DEF In, TypeOK
    <2>5. ~In("victim", x) /\ \A k \in Kind \ {"zombie"} : ~In(k, x)
      BY <1>1, <2>2, <2>4 DEF OneKind, Kind
    <2>6. ASSUME NEW u \in TCB, NEW k \in Kind
          PROVE  In(k, u)' <=> IF u = x THEN k = "victim" ELSE In(k, u)
      <3>1. CASE k = "victim"
        <4>1. victim'[t] = x /\ \A v \in TCB \ {t} : victim'[v] = victim[v]
          BY <1>1, <2>3 DEF TypeOK
        <4> QED BY <1>2, <2>2, <3>1, <4>1, ThreadsAssumption DEF In, TCB
      <3>2. CASE k = "zombie"
        BY <1>1, <1>4, <2>1, <2>3, <3>2, Dequeued DEF In, TypeOK, OnceEach
      <3>3. CASE k \notin {"victim", "zombie"}
        <4>1. In(k, u)' <=> In(k, u)
          BY <2>3, <3>3 DEF In, cpu
        <4> QED BY <2>5, <3>3, <4>1
      <3> QED BY <3>1, <3>2, <3>3
    <2>7. OneKind'
      BY <1>1, <2>2, <2>3, <2>4, <2>6, Moved DEF Kind
    <2>8. OnceEach'
      <3>1. Distinct(zombies)'
        BY <1>1, <1>4, <2>3, Dequeued DEF TypeOK, OnceEach
      <3>2. \A u, v \in TCB : victim'[u] = victim'[v] /\ victim'[u] # None => u = v
        <4>1. \A v \in TCB : victim[v] # x
          BY <2>5 DEF In
        <4> QED BY <1>1, <2>3, <4>1 DEF OnceEach, TypeOK
      <3>3. UNCHANGED <<stack, post, blk, woken, readyQ, sem>>
        BY <2>3 DEF cpu
      <3> QED BY <1>1, <3>1, <3>2, <3>3 DEF OnceEach
    <2>9. TypeOK'
      <3>1. zombies' \in Seq(Thread)
        BY <1>1, <1>4, <2>3, Dequeued DEF TypeOK
      <3> QED BY <1>1, <2>3, <3>1 DEF TypeOK, cpu, Label
    <2>10. /\ pc'[t] = "delete" /\ victim'[t] = x
           /\ \A u \in TCB \ {t} : SameLocal(u)
      BY <1>1, <2>3 DEF SameLocal, TypeOK
    <2>11. Local(t)'
      BY <1>1, <1>2, <2>2, <2>3, <2>10
         DEF Local, Block, Inside, Scheduling, Base, Resumes
    <2>12. /\ \A u \in TCB : In("zombie", u)' \/ In("victim", u)'
                                => In("zombie", u) \/ In("victim", u)
           /\ \A u \in TCB : In("woken", u)' \/ In("ready", u)' \/ In("waiting", u)'
                                => In("woken", u) \/ In("ready", u) \/ In("waiting", u)
      BY <2>4, <2>6 DEF Kind
    <2> QED
      BY <1>2, <2>3, <2>7, <2>8, <2>9, <2>10, <2>11, <2>12, WorkStep DEF Block, Inside
  <1> QED BY <1>3, <1>4

(* delete of a dead thread: it is in no place any more.                    *)
LEMMA DeleteStep ==
    ASSUME IInv, NEW c \in Core, NEW t \in TCB, t = stack[c], Delete(c)
    PROVE  IInv'
  <1>1. TypeOK /\ Local(t) /\ OneKind /\ OnceEach
    BY OwnFacts DEF IInv
  <1>2. /\ post[c] = None /\ pc[t] = "delete" /\ victim[t] # None /\ t \notin Core
        /\ blk[t] = NoBlock /\ frame[t] = None /\ woken[t] = None
    BY <1>1 DEF Delete, At, Local, Base, Resumes, Block, Inside, Scheduling
  <1>3. PICK x \in Thread : x = victim[t]
    BY <1>1, <1>2 DEF TypeOK
  <1>4. x \in TCB /\ x \notin Core /\ x # None
    BY ThreadsAssumption DEF TCB
  <1>5. /\ live' = live \ {x}
        /\ victim' = [victim EXCEPT ![t] = None]
        /\ pc' = [pc EXCEPT ![t] = IF t = Reaper THEN "reap" ELSE "spawn"]
        /\ UNCHANGED <<cpu, noPreempt, flags, frame, blk, ret, woken, readyQ,
                       zombies, sem, holder>>
    BY <1>3 DEF Delete, Goto
  <1>6. In("victim", x)
    BY <1>3 DEF In
  <1>7. \A k \in Kind \ {"victim"} : ~In(k, x)
    BY <1>1, <1>4, <1>6 DEF OneKind, Kind
  <1>8. ASSUME NEW u \in TCB, NEW k \in Kind
        PROVE  In(k, u)' <=> In(k, u) /\ u # x
    <2>1. CASE k = "victim"
      <3>1. \A v \in TCB : victim'[v] = u <=> victim[v] = u /\ v # t
        BY <1>1, <1>4, <1>5, ThreadsAssumption DEF TypeOK, TCB
      <3>2. In(k, u)' <=> \E v \in TCB : victim[v] = u /\ v # t
        BY <2>1, <3>1 DEF In
      <3>3. \A v \in TCB : victim[v] = x => v = t
        BY <1>1, <1>3, <1>4 DEF OnceEach
      <3> QED BY <1>3, <2>1, <3>2, <3>3 DEF In
    <2>2. CASE k # "victim"
      <3>1. In(k, u)' <=> In(k, u)
        BY <1>5, <2>2 DEF In, cpu
      <3> QED BY <1>7, <2>2, <3>1
    <2> QED BY <2>1, <2>2
  <1>9. OneKind'
    BY <1>1, <1>4, <1>5, <1>8 DEF OneKind, TCB
  <1>10. OnceEach'
    <2>1. \A u, v \in TCB : victim'[u] = victim'[v] /\ victim'[u] # None => u = v
      BY <1>1, <1>5 DEF OnceEach, TypeOK
    <2>2. UNCHANGED <<stack, post, blk, woken, readyQ, zombies, sem>>
      BY <1>5 DEF cpu
    <2> QED BY <1>1, <2>1, <2>2 DEF OnceEach
  <1>11. TypeOK'
    BY <1>1, <1>5 DEF TypeOK, cpu, Label
  <1>12. /\ pc'[t] = (IF t = Reaper THEN "reap" ELSE "spawn") /\ victim'[t] = None
         /\ \A u \in TCB \ {t} : SameLocal(u)
    BY <1>1, <1>5 DEF SameLocal, TypeOK
  <1>13. Local(t)'
    BY <1>1, <1>2, <1>5, <1>12 DEF Local, Block, Inside, Scheduling, Base, Resumes
  <1>14. /\ \A u \in TCB : In("zombie", u)' \/ In("victim", u)'
                              => In("zombie", u) \/ In("victim", u)
         /\ \A u \in TCB : In("woken", u)' \/ In("ready", u)' \/ In("waiting", u)'
                              => In("woken", u) \/ In("ready", u) \/ In("waiting", u)
    BY <1>8 DEF Kind
  <1>15. live' \subseteq live /\ \A u \in live \ live' : Stopped(u)
    BY <1>4, <1>5, <1>6 DEF IInv, PlaceInv
  <1> QED
    BY <1>2, <1>5, <1>9, <1>10, <1>11, <1>12, <1>13, <1>14, <1>15, WorkStep
       DEF Block, Inside

(* block() has chosen x to run next, from readyQ or the core's own idle    *)
(* thread, and forbids its preemption.                                     *)
LEMMA ChooseStep ==
    ASSUME IInv, NEW c \in Core, NEW t \in TCB, t = stack[c],
           post[c] = None, pc[t] = "remove",
           NEW x \in TCB, x \in Core => x = c,
           x \in Thread => In("ready", x), x \in Core => \A k \in Kind : ~In(k, x),
           Choose(c, x), readyQ' \in Seq(Thread), Distinct(readyQ'),
           \A u \in TCB : Listed(readyQ', u) <=> Listed(readyQ, u) /\ u # x,
           UNCHANGED <<cpu, flags, frame, ret, woken, victim, zombies, live, sem, holder>>
    PROVE  IInv'
  <1>1. /\ TypeOK /\ Local(t) /\ PlaceInv(t) /\ CoreInv(c) /\ OneKind /\ OnceEach
        /\ t \in live
        /\ In("stack", t) /\ (\A k \in Kind \ {"stack"} : ~In(k, t))
        /\ Executing(t)
    BY OwnFacts DEF IInv
  <1>2. /\ blk[t].me = t /\ blk[t].next = None /\ blk[t].core = c
        /\ blk[t] \in BlockLocals /\ x # None
    BY <1>1, ThreadsAssumption DEF Local, CoreInv, Inside, TypeOK, TCB
  <1>3. \A k \in Kind \ {"ready"} : ~In(k, x)
    BY <1>1 DEF OneKind, Kind, TCB
  <1>4. x # t
    BY <1>1, <1>3 DEF Kind
  <1>5. /\ blk' = [blk EXCEPT ![t] = [blk[t] EXCEPT !.next = x]]
        /\ noPreempt' = noPreempt \cup {x}
        /\ pc' = [pc EXCEPT ![t] = "activate"]
    BY DEF Choose, Goto
  <1>6. /\ pc'[t] = "activate"
        /\ blk'[t].next = x /\ blk'[t].me = t /\ blk'[t].core = c
        /\ blk'[t].why = blk[t].why
        /\ blk'[t] \in BlockLocals
        /\ \A u \in TCB \ {t} : SameLocal(u)
    <2>1. /\ [blk[t] EXCEPT !.next = x] \in BlockLocals
          /\ [blk[t] EXCEPT !.next = x].next = x
          /\ [blk[t] EXCEPT !.next = x].me = t
          /\ [blk[t] EXCEPT !.next = x].core = c
          /\ [blk[t] EXCEPT !.next = x].why = blk[t].why
      BY <1>2 DEF BlockLocals
    <2> QED BY <1>1, <1>5, <2>1 DEF TypeOK, SameLocal
  <1>7. TypeOK'
    BY <1>1, <1>5, <1>6 DEF TypeOK, cpu, Label
  <1>8. ASSUME NEW u \in TCB, NEW k \in Kind
        PROVE  In(k, u)' <=> IF u = x THEN k = "next" ELSE In(k, u)
    <2>1. CASE k = "next"
      BY <1>2, <1>6, <2>1, ThreadsAssumption DEF In, SameLocal, TCB
    <2>2. CASE k = "ready"
      BY <2>2 DEF In
    <2>3. CASE k \notin {"next", "ready"}
      <3>1. In(k, u)' <=> In(k, u)
        BY <2>3 DEF In, cpu
      <3> QED BY <1>3, <2>3, <3>1
    <2> QED BY <2>1, <2>2, <2>3
  <1>9. OneKind'
    BY <1>1, <1>8, Moved DEF Kind, TCB
  <1>10. OnceEach'
    <2>1. \A u \in TCB : blk[u].next # x
      <3>1. ~In("next", x)
        BY <1>3 DEF Kind
      <3> QED BY <3>1 DEF In
    <2>2. \A u, v \in TCB : blk'[u].next = blk'[v].next /\ blk'[u].next # None => u = v
      BY <1>1, <1>6, <2>1 DEF OnceEach, SameLocal
    <2> QED BY <1>1, <2>2 DEF OnceEach, cpu
  <1>11. Local(t)'
    <2>1. Base(t)' = Base(t) /\ (Scheduling(t)' <=> Scheduling(t))
      BY <1>6 DEF Base, Resumes, Block, Inside, Scheduling
    <2> QED BY <1>1, <1>2, <1>6, <2>1 DEF Local, Block, Inside
  <1>12. ASSUME NEW u \in TCB PROVE Local(u)'
    BY <1>6, <1>11, OtherLocal DEF IInv
  <1>13. ASSUME NEW d \in Core PROVE CoreInv(d)'
    <2>1. CASE d = c
      BY <1>1, <1>2, <1>5, <1>6, <2>1 DEF CoreInv, At, Masked, Inside, cpu
    <2>2. CASE d # c
      <3>1. stack[d] \in TCB /\ stack[d] # t
        BY <1>1, <2>2 DEF TypeOK, OnceEach
      <3>2. post[d] # None => post[d] \in TCB /\ post[d] # t
        <4>1. ~In("post", t)
          BY <1>1 DEF Kind
        <4> QED BY <1>1, <4>1 DEF TypeOK, In
      <3>3. SameCore(d) /\ CoreInv(d)
        BY DEF SameCore, cpu, IInv
      <3> QED BY <1>5, <1>6, <3>1, <3>2, <3>3, OtherCore DEF CoreInv
    <2> QED BY <2>1, <2>2
  <1>14. ASSUME NEW u \in TCB PROVE Executing(u)' <=> Executing(u)
    BY DEF Executing, cpu
  <1>15. PlaceInv(t)'
    <2>1. ~Stopped(t)'
      BY <1>6 DEF Stopped
    <2> QED BY <1>1, <1>4, <1>6, <1>8, <1>14, <2>1 DEF PlaceInv, Kind, Inside
  <1>16. ASSUME NEW u \in TCB, u # t PROVE PlaceInv(u)'
    <2>1. PlaceInv(u) /\ SameLocal(u)
      BY <1>6, <1>16 DEF IInv
    <2>2. CASE u # x
      <3>1. SamePlace(u)
        BY <1>8, <1>14, <2>2 DEF SamePlace
      <3> QED BY <2>1, <3>1, OtherPlace
    <2>3. CASE u = x
      <3>1. (Masked(u)' <=> Masked(u)) /\ (Stopped(u)' <=> Stopped(u))
        BY <2>1 DEF SameLocal, Masked, Stopped
      <3>2. u \in Thread => ~Stopped(u)
        BY <2>1, <2>3 DEF PlaceInv
      <3>3. ~In("zombie", u)' /\ ~In("victim", u)' /\ ~In("post", u)' /\ ~In("post", u)
        BY <1>3, <1>8, <2>3 DEF Kind
      <3> QED BY <1>14, <2>1, <3>1, <3>2, <3>3 DEF PlaceInv, SameLocal
    <2> QED BY <2>2, <2>3
  <1> QED BY <1>7, <1>9, <1>10, <1>12, <1>13, <1>15, <1>16 DEF IInv

(* block() finds a ready thread.                                           *)
LEMMA RemoveStep ==
    ASSUME IInv, NEW c \in Core, NEW t \in TCB, t = stack[c], Remove(c)
    PROVE  IInv'
  <1>1. post[c] = None /\ pc[t] = "remove" /\ readyQ # <<>>
    BY DEF Remove, At
  <1>2. readyQ \in Seq(Thread) /\ Distinct(readyQ)
    BY DEF IInv, TypeOK, OnceEach
  <1>3. PICK x \in Thread : x = Head(readyQ)
    BY <1>1, <1>2, Dequeued
  <1>4. x \in TCB /\ x \notin Core
    BY ThreadsAssumption DEF TCB
  <1>5. In("ready", x)
    BY <1>1, <1>2, <1>3, Dequeued DEF In
  <1>6. /\ readyQ' \in Seq(Thread) /\ Distinct(readyQ')
        /\ \A u \in TCB : Listed(readyQ', u) <=> Listed(readyQ, u) /\ u # x
    BY <1>1, <1>2, <1>3, Dequeued DEF Remove
  <1> QED BY <1>1, <1>3, <1>4, <1>5, <1>6, ChooseStep DEF Remove

(* The idle thread of a core that executes another thread, and has neither *)
(* just left it nor chosen it, is in no place.                             *)
LEMMA IdleNowhere ==
    ASSUME IInv, NEW c \in Core, stack[c] # c, post[c] # c, blk[stack[c]].next = None
    PROVE  \A k \in Kind : ~In(k, c)
  <1>1. TypeOK /\ c \notin Thread /\ c # None /\ c \in TCB
    BY ThreadsAssumption DEF IInv, TCB
  <1>2. \A d \in Core : stack[d] # c /\ post[d] # c
    BY DEF IInv, CoreInv
  <1>3. \A u \in TCB : blk[u].next # c
    <2>1. SUFFICES ASSUME NEW u \in TCB, blk[u].next = c PROVE FALSE
      OBVIOUS
    <2>2. pc[u] \in {"activate", "switch"}
      BY <1>1, <2>1 DEF IInv, Local
    <2>3. PICK d \in Core : stack[d] = u
      BY <2>2 DEF IInv, PlaceInv, Executing
    <2>4. d = c
      BY <2>1, <2>3 DEF IInv, CoreInv
    <2> QED BY <1>1, <2>1, <2>3, <2>4
  <1>4. \A u \in TCB : woken[u] # c /\ victim[u] # c
    BY <1>1 DEF TypeOK
  <1>5. ASSUME NEW q \in Seq(Thread) PROVE ~Listed(q, c)
    BY <1>1 DEF Listed
  <1>6. \A s \in Sem : sem[s].waiting \in Seq(Thread)
    BY <1>1 DEF TypeOK
  <1>7. /\ ~Listed(readyQ, c) /\ ~Listed(zombies, c)
        /\ \A s \in Sem : ~Listed(sem[s].waiting, c)
    BY <1>1, <1>5, <1>6 DEF TypeOK
  <1> QED BY <1>2, <1>3, <1>4, <1>7 DEF In

(* block() finds no ready thread and takes the idle thread of its core.    *)
LEMMA MustBlockStep ==
    ASSUME IInv, NEW c \in Core, NEW t \in TCB, t = stack[c], MustBlock(c)
    PROVE  IInv'
  <1>1. TypeOK /\ Local(t) /\ CoreInv(c)
    BY OwnFacts
  <1>2. post[c] = None /\ pc[t] = "remove"
    BY DEF MustBlock, At
  <1>3. /\ blk[t].core = c /\ t \notin Core /\ blk[t].next = None
    BY <1>1, <1>2 DEF MustBlock, CoreInv, Local, Inside
  <1>4. c \in TCB /\ c \notin Thread /\ c # None
    BY ThreadsAssumption DEF TCB
  <1>5. \A k \in Kind : ~In(k, c)
    BY <1>2, <1>3, <1>4, IdleNowhere
  <1>6. readyQ' = readyQ /\ readyQ \in Seq(Thread) /\ Distinct(readyQ)
    BY DEF IInv, TypeOK, OnceEach, MustBlock
  <1>7. \A u \in TCB : Listed(readyQ, u) <=> Listed(readyQ, u) /\ u # c
    BY <1>5 DEF In, Kind
  <1> QED BY <1>2, <1>3, <1>4, <1>5, <1>6, <1>7, ChooseStep DEF MustBlock

(* The switch: the core leaves t, whose handler is still to be called, and *)
(* is on the stack of the chosen thread n.                                 *)
LEMMA SwitchStep ==
    ASSUME IInv, NEW c \in Core, NEW t \in TCB, t = stack[c], Switch(c)
    PROVE  IInv'
  <1>1. /\ TypeOK /\ Local(t) /\ PlaceInv(t) /\ CoreInv(c) /\ OneKind /\ OnceEach
        /\ t \in live
        /\ In("stack", t) /\ (\A k \in Kind \ {"stack"} : ~In(k, t))
        /\ Executing(t)
    BY OwnFacts DEF IInv, Switch, At
  <1>2. /\ post[c] = None /\ pc[t] = "switch" /\ blk[t].me = t
        /\ blk[t].next # None /\ blk[t] \in BlockLocals
    BY <1>1 DEF Switch, At, Local, Inside, TypeOK
  <1>3. PICK n \in TCB : n = blk[t].next
    BY <1>2 DEF BlockLocals
  <1>4. In("next", n) /\ \A k \in Kind \ {"next"} : ~In(k, n)
    <2>1. In("next", n)
      BY <1>3 DEF In
    <2> QED BY <1>1, <2>1 DEF OneKind, Kind
  <1>5. n # t /\ n # None /\ t # None
    BY <1>1, <1>4, ThreadsAssumption DEF Kind, TCB
  <1>6. /\ flags' = Assign(flags, t, c \in enabled)
        /\ enabled' = enabled \ {c}
        /\ noPreempt' = noPreempt \ {t, n}
        /\ stack' = [stack EXCEPT ![c] = n]
        /\ post' = [post EXCEPT ![c] = t]
        /\ blk' = [blk EXCEPT ![t] = [[blk[t] EXCEPT !.next = None] EXCEPT !.core = None]]
        /\ pc' = [pc EXCEPT ![t] = "return"]
        /\ UNCHANGED <<active, esp0, frame, ret, woken, victim, readyQ, zombies,
                       live, sem, holder>>
    <2>1. [blk EXCEPT ![t].next = None, ![t].core = None]
             = [blk EXCEPT ![t] = [[blk[t] EXCEPT !.next = None] EXCEPT !.core = None]]
      BY <1>1 DEF TypeOK
    <2> QED BY <1>2, <1>3, <2>1 DEF Switch, Goto
  <1>7. /\ pc'[t] = "return"
        /\ blk'[t].me = t /\ blk'[t].next = None /\ blk'[t].why = blk[t].why
        /\ blk'[t] \in BlockLocals
        /\ stack'[c] = n /\ post'[c] = t
        /\ \A d \in Core \ {c} : SameCore(d)
        /\ \A u \in TCB \ {t} : SameLocal(u)
        /\ t \in flags' <=> c \in enabled
        /\ \A u \in TCB \ {t} : u \in flags' <=> u \in flags
    <2>1. [blk[t] EXCEPT !.next = None] \in BlockLocals
      BY <1>2 DEF BlockLocals
    <2>2. [[blk[t] EXCEPT !.next = None] EXCEPT !.core = None] \in BlockLocals
      BY <2>1 DEF BlockLocals
    <2>3. /\ [[blk[t] EXCEPT !.next = None] EXCEPT !.core = None].me = blk[t].me
          /\ [[blk[t] EXCEPT !.next = None] EXCEPT !.core = None].next = None
          /\ [[blk[t] EXCEPT !.next = None] EXCEPT !.core = None].why = blk[t].why
      BY <1>2 DEF BlockLocals
    <2> QED BY <1>1, <1>2, <1>6, <2>2, <2>3 DEF TypeOK, SameLocal, SameCore, Assign
  <1>8. TypeOK'
    <2>1. flags' \subseteq TCB
      BY <1>1, <1>6 DEF TypeOK, Assign
    <2> QED BY <1>1, <1>6, <1>7, <2>1 DEF TypeOK, Label
  <1>9. ASSUME NEW u \in TCB, NEW k \in Kind
        PROVE  In(k, u)' <=> IF u = t THEN k = "post"
                             ELSE IF u = n THEN k = "stack" ELSE In(k, u)
    <2>1. CASE k = "stack"
      <3>1. In(k, u)' <=> u = n \/ \E d \in Core \ {c} : stack[d] = u
        BY <1>7, <2>1 DEF In, SameCore
      <3>2. \A d \in Core \ {c} : stack[d] # t
        BY <1>1 DEF OnceEach
      <3> QED BY <1>5, <2>1, <3>1, <3>2 DEF In
    <2>2. CASE k = "post"
      <3>1. In(k, u)' <=> u = t \/ \E d \in Core \ {c} : post[d] = u
        BY <1>7, <2>2 DEF In, SameCore
      <3>2. \A d \in Core : post[d] # n
        <4>1. ~In("post", n)
          BY <1>4 DEF Kind
        <4> QED BY <4>1 DEF In
      <3> QED BY <1>2, <1>5, <2>2, <3>1, <3>2, ThreadsAssumption DEF In, TCB
    <2>3. CASE k = "next"
      <3>1. In(k, u)' <=> \E v \in TCB \ {t} : blk[v].next = u
        BY <1>7, <2>3, ThreadsAssumption DEF In, SameLocal, TCB
      <3>2. \A v \in TCB \ {t} : blk[v].next # n
        BY <1>1, <1>3, <1>5 DEF OnceEach
      <3>3. ~In("next", t)
        BY <1>1 DEF Kind
      <3> QED BY <1>3, <2>3, <3>1, <3>2, <3>3 DEF In
    <2>4. CASE k \notin {"stack", "post", "next"}
      <3>1. In(k, u)' <=> In(k, u)
        BY <1>6, <2>4 DEF In
      <3> QED BY <1>1, <1>4, <2>4, <3>1
    <2> QED BY <2>1, <2>2, <2>3, <2>4
  <1>10. OneKind'
    BY <1>1, <1>4, <1>6, <1>9 DEF OneKind, Kind, TCB
  <1>11. OnceEach'
    <2>1. \A d \in Core \ {c} : stack[d] # n /\ post[d] # t
      <3>1. ~In("stack", n) /\ ~In("post", t)
        BY <1>1, <1>4 DEF Kind
      <3> QED BY <3>1 DEF In
    <2>2. \A d, e \in Core : stack'[d] = stack'[e] => d = e
      BY <1>1, <1>7, <2>1 DEF OnceEach, SameCore
    <2>3. \A d, e \in Core : post'[d] = post'[e] /\ post'[d] # None => d = e
      BY <1>1, <1>7, <2>1 DEF OnceEach, SameCore
    <2>4. \A u, v \in TCB : blk'[u].next = blk'[v].next /\ blk'[u].next # None => u = v
      BY <1>1, <1>7 DEF OnceEach, SameLocal
    <2> QED BY <1>1, <1>6, <2>2, <2>3, <2>4 DEF OnceEach
  <1>12. ASSUME NEW u \in TCB PROVE Local(u)'
    <2>1. CASE u = t
      <3>1. Base(t)' = Base(t) /\ (Scheduling(t)' <=> Scheduling(t))
        BY <1>2, <1>6, <1>7 DEF Base, Resumes, Block, Inside, Scheduling
      <3> QED BY <1>1, <1>2, <1>6, <1>7, <2>1, <3>1 DEF Local, Block, Inside
    <2>2. CASE u # t
      BY <1>7, <2>2, OtherLocal DEF IInv
    <2> QED BY <2>1, <2>2
  <1>13. /\ ~Executing(n) /\ pc[n] \in {"entry", "return"} /\ blk[n].next = None
         /\ PlaceInv(n)
    <2>1. ~In("stack", n)
      BY <1>4 DEF Kind
    <2>2. ~Executing(n)
      BY <2>1 DEF In, Executing
    <2> QED BY <2>2 DEF IInv, PlaceInv, Local
  <1>14. ASSUME NEW d \in Core PROVE CoreInv(d)'
    <2>1. CASE d = c
      BY <1>1, <1>2, <1>3, <1>5, <1>6, <1>7, <1>13, <2>1, ThreadsAssumption
         DEF CoreInv, At, SameLocal, TCB
    <2>2. CASE d # c
      <3>1. stack[d] \in TCB /\ stack[d] # t /\ stack[d] # n
        <4>1. ~In("stack", n)
          BY <1>4 DEF Kind
        <4> QED BY <1>1, <2>2, <4>1 DEF TypeOK, OnceEach, In
      <3>2. post[d] # None => post[d] \in TCB /\ post[d] # t
        <4>1. ~In("post", t)
          BY <1>1 DEF Kind
        <4> QED BY <1>1, <4>1 DEF TypeOK, In
      <3>3. blk[stack[d]].next # None => blk[stack[d]].next \notin {t, n}
        <4>1. ~In("next", t)
          BY <1>1 DEF Kind
        <4> QED BY <1>1, <1>3, <3>1, <4>1 DEF OnceEach, In
      <3>4. SameCore(d) /\ CoreInv(d)
        BY <1>7, <2>2 DEF IInv
      <3> QED BY <1>6, <1>7, <3>1, <3>2, <3>3, <3>4, OtherCore DEF CoreInv
    <2> QED BY <2>1, <2>2
  <1>15. ASSUME NEW u \in TCB
         PROVE  Executing(u)' <=> Executing(u) /\ u # t
    <2>1. Executing(u)' <=> \E d \in Core \ {c} : stack[d] = u /\ post[d] = None
      BY <1>5, <1>7 DEF Executing, SameCore
    <2>2. \A d \in Core \ {c} : stack[d] # t
      BY <1>1 DEF OnceEach
    <2> QED BY <2>1, <2>2 DEF Executing
  <1>16. PlaceInv(t)'
    <2>1. Masked(t)' <=> Masked(t)
      BY <1>6, <1>7 DEF Masked
    <2>2. t \in flags' <=> ~Masked(t)'
      BY <1>1, <1>2, <1>7, <2>1 DEF CoreInv
    <2>3. In("post", t)' /\ \A k \in Kind \ {"post"} : ~In(k, t)'
      BY <1>9 DEF Kind
    <2>4. \A s \in Sem : holder'[s] = t <=> blk'[t].why = s
      BY <1>1, <1>2, <1>6, <1>7 DEF PlaceInv, Inside
    <2>5. pc'[t] = "return" /\ t \in live'
      BY <1>1, <1>6, <1>7
    <2> QED BY <2>2, <2>3, <2>4, <2>5 DEF PlaceInv, Kind
  <1>17. PlaceInv(n)'
    <2>1. (Masked(n)' <=> Masked(n)) /\ (Stopped(n)' <=> Stopped(n)) /\ SameLocal(n)
      BY <1>5, <1>7 DEF SameLocal, Masked, Stopped
    <2>2. n \in Thread => ~Stopped(n)
      BY <1>4, <1>13 DEF PlaceInv
    <2>3. ~In("zombie", n)' /\ ~In("victim", n)' /\ ~In("post", n)' /\ ~In("post", n)
      BY <1>4, <1>5, <1>9 DEF Kind
    <2> QED BY <1>5, <1>6, <1>7, <1>13, <1>15, <2>1, <2>2, <2>3 DEF PlaceInv, SameLocal
  <1>18. ASSUME NEW u \in TCB, u # t, u # n PROVE PlaceInv(u)'
    <2>1. SamePlace(u)
      BY <1>6, <1>7, <1>9, <1>15, <1>18 DEF SamePlace
    <2> QED BY <1>7, <1>18, <2>1, OtherPlace DEF IInv
  <1> QED BY <1>8, <1>10, <1>11, <1>12, <1>14, <1>16, <1>17, <1>18 DEF IInv

(* The switch handler, on the stack of t: the thread x that was left goes  *)
(* to readyQ, to zombies or to the semaphore whose lock it held, and t     *)
(* gets its interrupt flag back.                                           *)
LEMMA HandlerStep ==
    ASSUME IInv, NEW c \in Core, NEW t \in TCB, t = stack[c], Handler(c)
    PROVE  IInv'
  <1>1. /\ TypeOK /\ Local(t) /\ PlaceInv(t) /\ CoreInv(c) /\ OneKind /\ OnceEach
        /\ t \in live
        /\ In("stack", t) /\ (\A k \in Kind \ {"stack"} : ~In(k, t))
    BY OwnFacts DEF IInv
  <1>2. PICK x \in TCB : x = post[c]
    BY <1>1 DEF Handler, TypeOK
  <1>3. In("post", x) /\ \A k \in Kind \ {"post"} : ~In(k, x)
    <2>1. In("post", x)
      BY <1>2 DEF In
    <2> QED BY <1>1, <2>1 DEF OneKind, Kind
  <1>4. /\ x # t /\ x # None /\ post[c] # None
        /\ pc[x] = "return" /\ blk[x].me = x /\ c \notin enabled
        /\ Local(x) /\ PlaceInv(x) /\ blk[x].why \in Sem \cup {"yield", "stop"}
    <2>1. x # t
      BY <1>1, <1>3 DEF Kind
    <2> QED BY <1>1, <1>2, <2>1, ThreadsAssumption
            DEF TCB, CoreInv, IInv, TypeOK, BlockLocals
  <1> DEFINE why == blk[x].why
             to == IF why = "yield" THEN "ready" ELSE IF why = "stop" THEN "zombie" ELSE "waiting"
  <1>5. /\ enabled' = Assign(enabled, c, t \in flags)
        /\ flags' = flags \ {t}
        /\ post' = [post EXCEPT ![c] = None]
        /\ UNCHANGED <<active, esp0, stack, noPreempt, local, live>>
    BY DEF Handler
  <1>6. /\ readyQ' = IF why = "yield" /\ x \in Thread THEN Append(readyQ, x) ELSE readyQ
        /\ zombies' = IF why = "stop" /\ x \in Thread THEN Append(zombies, x) ELSE zombies
        /\ why \in Sem => /\ sem' = [sem EXCEPT ![why] = Parked(sem[why], x)]
                          /\ holder' = [holder EXCEPT ![why] = None]
        /\ why \notin Sem => sem' = sem /\ holder' = holder
    BY <1>2, <1>4, ThreadsAssumption DEF Handler, Scheduled, TCB
  <1>7. why \in Sem => /\ x \in Thread /\ holder[why] = x
                       /\ why # "yield" /\ why # "stop" /\ to = "waiting"
    BY <1>3, <1>4, ThreadsAssumption DEF Local, PlaceInv, TCB
  <1>8. /\ to \in {"ready", "zombie", "waiting"}
        /\ (to = "zombie" <=> why = "stop") /\ (to = "ready" <=> why = "yield")
    OBVIOUS
  <1> HIDE DEF why, to
  <1>9. /\ post'[c] = None /\ (c \in enabled' <=> t \in flags)
        /\ \A d \in Core \ {c} : SameCore(d)
        /\ \A u \in TCB : SameLocal(u)
    BY <1>1, <1>4, <1>5 DEF TypeOK, SameCore, SameLocal, local, Assign
  <1>10. why \in Sem =>
            /\ sem' \in [Sem -> [count : Nat, waiting : Seq(Thread)]]
            /\ sem'[why].waiting = Append(sem[why].waiting, x)
            /\ \A r \in Sem \ {why} : sem'[r].waiting = sem[r].waiting
    <2>1. SUFFICES ASSUME why \in Sem
                   PROVE  /\ sem' \in [Sem -> [count : Nat, waiting : Seq(Thread)]]
                          /\ sem'[why].waiting = Append(sem[why].waiting, x)
                          /\ \A r \in Sem \ {why} : sem'[r].waiting = sem[r].waiting
      OBVIOUS
    <2>2. sem[why] \in [count : Nat, waiting : Seq(Thread)]
      BY <1>1, <2>1 DEF TypeOK
    <2>3. /\ Parked(sem[why], x) \in [count : Nat, waiting : Seq(Thread)]
          /\ Parked(sem[why], x).waiting = Append(sem[why].waiting, x)
      BY <1>7, <2>1, <2>2, Appended DEF Parked
    <2> QED BY <1>1, <1>6, <2>1, <2>3 DEF TypeOK
  <1>11. ASSUME why \in Sem, NEW r \in Sem
         PROVE  /\ \A u \in TCB : Listed(sem'[r].waiting, u)
                                     <=> Listed(sem[r].waiting, u) \/ (r = why /\ u = x)
                /\ Distinct(sem'[r].waiting)
    <2>1. CASE r # why
      BY <1>1, <1>10, <1>11, <2>1 DEF OnceEach
    <2>2. CASE r = why
      <3>1. ~In("waiting", x)
        BY <1>3 DEF Kind
      <3>2. ~Listed(sem[r].waiting, x)
        BY <3>1 DEF In
      <3>3. sem[r].waiting \in Seq(Thread) /\ Distinct(sem[r].waiting)
        BY <1>1 DEF TypeOK, OnceEach
      <3>4. x \in Thread /\ sem'[r].waiting = Append(sem[r].waiting, x)
        BY <1>7, <1>10, <1>11, <2>2
      <3>5. /\ \A u : Listed(Append(sem[r].waiting, x), u) <=> Listed(sem[r].waiting, u) \/ u = x
            /\ Distinct(Append(sem[r].waiting, x))
        BY <3>2, <3>3, <3>4, Appended
      <3> QED BY <2>2, <3>4, <3>5
    <2> QED BY <2>1, <2>2
  <1>12. TypeOK'
    <2>1. readyQ' \in Seq(Thread) /\ zombies' \in Seq(Thread)
      BY <1>1, <1>6, Appended DEF TypeOK
    <2>2. /\ sem' \in [Sem -> [count : Nat, waiting : Seq(Thread)]]
          /\ holder' \in [Sem -> Thread \cup {None}]
      BY <1>1, <1>6, <1>10 DEF TypeOK
    <2>3. enabled' \subseteq Core /\ flags' \subseteq TCB
      BY <1>1, <1>5 DEF TypeOK, Assign
    <2>4. post' \in [Core -> TCB \cup {None}]
      BY <1>1, <1>5 DEF TypeOK
    <2> QED BY <1>1, <1>5, <2>1, <2>2, <2>3, <2>4 DEF TypeOK, local
  <1>13. ASSUME NEW u \in TCB, NEW k \in Kind
         PROVE  In(k, u)' <=> IF u = x THEN k = to /\ x \in Thread ELSE In(k, u)
    <2>1. CASE k = "post"
      <3>1. In(k, u)' <=> \E d \in Core \ {c} : post[d] = u
        BY <1>9, <2>1, ThreadsAssumption DEF In, SameCore, TCB
      <3>2. \A d \in Core \ {c} : post[d] # x
        BY <1>1, <1>2, <1>4 DEF OnceEach
      <3> QED BY <1>2, <1>8, <2>1, <3>1, <3>2 DEF In
    <2>2. CASE k = "ready"
      <3>1. Listed(readyQ', u) <=> Listed(readyQ, u) \/ (why = "yield" /\ x \in Thread /\ u = x)
        BY <1>1, <1>6, Appended DEF TypeOK
      <3>2. ~In("ready", x)
        BY <1>3 DEF Kind
      <3> QED BY <1>8, <2>2, <3>1, <3>2 DEF In
    <2>3. CASE k = "zombie"
      <3>1. Listed(zombies', u) <=> Listed(zombies, u) \/ (why = "stop" /\ x \in Thread /\ u = x)
        BY <1>1, <1>6, Appended DEF TypeOK
      <3>2. ~In("zombie", x)
        BY <1>3 DEF Kind
      <3> QED BY <1>8, <2>3, <3>1, <3>2 DEF In
    <2>4. CASE k = "waiting"
      <3>1. CASE why \in Sem
        <4>1. \A r \in Sem : Listed(sem'[r].waiting, u) <=> Listed(sem[r].waiting, u) \/ (r = why /\ u = x)
          BY <1>11, <3>1
        <4>2. ~In("waiting", x)
          BY <1>3 DEF Kind
        <4>3. In(k, u)' <=> In(k, u) \/ u = x
          BY <2>4, <3>1, <4>1 DEF In
        <4> QED BY <1>7, <2>4, <3>1, <4>2, <4>3
      <3>2. CASE why \notin Sem
        <4>1. In(k, u)' <=> In(k, u)
          BY <1>6, <2>4, <3>2 DEF In
        <4>2. ~In("waiting", x) /\ to # "waiting"
          BY <1>3, <1>4, <1>8, <3>2 DEF Kind, why
        <4> QED BY <2>4, <4>1, <4>2
      <3> QED BY <3>1, <3>2
    <2>5. CASE k \notin {"post", "ready", "zombie", "waiting"}
      <3>1. In(k, u)' <=> In(k, u)
        BY <1>5, <2>5 DEF In, local
      <3> QED BY <1>3, <1>8, <2>5, <3>1
    <2> QED BY <2>1, <2>2, <2>3, <2>4, <2>5
  <1>14. OneKind'
    <2>1. to \in Kind /\ "post" \in Kind /\ live' = live
      BY <1>5, <1>8 DEF Kind
    <2>2. \A u \in TCB, k, l \in Kind : In(k, u)' /\ In(l, u)' => k = l
      BY <1>1, <1>13 DEF OneKind
    <2>3. \A u \in Thread : u \in live' <=> \E k \in Kind : In(k, u)'
      BY <1>1, <1>3, <1>13, <2>1 DEF OneKind, TCB
    <2> QED BY <1>1, <2>1, <2>2, <2>3 DEF OneKind
  <1>15. OnceEach'
    <2>1. \A d, e \in Core : post'[d] = post'[e] /\ post'[d] # None => d = e
      BY <1>1, <1>9 DEF OnceEach, SameCore
    <2>2. /\ ~Listed(readyQ, x) /\ ~Listed(zombies, x)
          /\ \A s \in Sem : ~Listed(sem[s].waiting, x)
      <3>1. ~In("ready", x) /\ ~In("zombie", x) /\ ~In("waiting", x)
        BY <1>3 DEF Kind
      <3> QED BY <3>1 DEF In
    <2>3. Distinct(readyQ') /\ Distinct(zombies')
      BY <1>1, <1>6, <2>2, Appended DEF TypeOK, OnceEach
    <2>4. /\ \A s \in Sem : Distinct(sem'[s].waiting)
          /\ \A r, s \in Sem, u \in TCB :
                 Listed(sem'[r].waiting, u) /\ Listed(sem'[s].waiting, u) => r = s
      <3>1. CASE why \in Sem
        <4> QED BY <1>1, <1>11, <2>2, <3>1 DEF OnceEach
      <3>2. CASE why \notin Sem
        BY <1>1, <1>6, <3>2 DEF OnceEach
      <3> QED BY <3>1, <3>2
    <2> QED BY <1>1, <1>5, <2>1, <2>3, <2>4 DEF OnceEach, local
  <1>16. ASSUME NEW u \in TCB PROVE Local(u)'
    BY <1>9, OtherLocal DEF IInv
  <1>17. ASSUME NEW u \in TCB PROVE Executing(u)' <=> Executing(u) \/ u = t
    BY <1>5, <1>9 DEF Executing, SameCore
  <1>18. ~Executing(t) /\ ~Executing(x)
    <2>1. ~In("stack", x)
      BY <1>3 DEF Kind
    <2>2. \A d \in Core : stack[d] = t => d = c
      BY <1>1 DEF OnceEach
    <2> QED BY <1>4, <2>1, <2>2 DEF Executing, In
  <1>19. ASSUME NEW d \in Core PROVE CoreInv(d)'
    <2>1. CASE d = c
      <3>1. pc[t] \in {"entry", "return"} /\ (c \in enabled' <=> ~Masked(t))
        BY <1>1, <1>9, <1>18 DEF PlaceInv
      <3>2. CoreInv(c)'
        BY <1>1, <1>4, <1>5, <1>9, <3>1, ThreadsAssumption
           DEF CoreInv, At, Masked, SameLocal, Inside, TCB, local
      <3> QED BY <2>1, <3>2
    <2>2. CASE d # c
      <3>1. stack[d] \in TCB
        BY <1>1 DEF TypeOK
      <3>2. post[d] # None => post[d] \in TCB
        BY <1>1 DEF TypeOK
      <3>3. SameCore(d) /\ CoreInv(d)
        BY <1>9, <2>2 DEF IInv
      <3> QED BY <1>5, <1>9, <3>1, <3>2, <3>3, OtherCore DEF CoreInv
    <2> QED BY <2>1, <2>2
  <1>20. ASSUME NEW u \in TCB, u # x, NEW s \in Sem
         PROVE  holder'[s] = u <=> holder[s] = u
    BY <1>1, <1>6, <1>7, <1>20, ThreadsAssumption DEF TypeOK, TCB
  <1>21. PlaceInv(t)'
    <2>1. SameLocal(t) /\ (Stopped(t)' <=> Stopped(t)) /\ Executing(t)'
      BY <1>9, <1>17 DEF SameLocal, Stopped
    <2>2. \A k \in Kind : In(k, t)' <=> In(k, t)
      BY <1>4, <1>13
    <2> QED BY <1>1, <1>4, <1>5, <1>20, <2>1, <2>2 DEF PlaceInv, SameLocal, Kind
  <1>22. PlaceInv(x)'
    <2>1. /\ SameLocal(x) /\ (Stopped(x)' <=> Stopped(x))
          /\ (Masked(x)' <=> Masked(x)) /\ ~Executing(x)'
      BY <1>4, <1>9, <1>17, <1>18 DEF SameLocal, Stopped, Masked
    <2>2. Stopped(x) <=> to = "zombie"
      BY <1>4, <1>8 DEF Stopped, why
    <2>3. \A k \in Kind : In(k, x)' <=> k = to /\ x \in Thread
      BY <1>13
    <2>4. \A s \in Sem : holder'[s] # x
      <3>1. \A s \in Sem : holder[s] = x => s = why
        BY <1>4 DEF PlaceInv, why
      <3> QED BY <1>1, <1>4, <1>6, <3>1 DEF TypeOK
    <2>5. /\ In("zombie", x)' <=> to = "zombie" /\ x \in Thread
          /\ ~In("victim", x)' /\ ~In("post", x)' /\ ~In("stack", x)'
          /\ ~In("next", x)' /\ ~In("woken", x)'
          /\ In("ready", x)' <=> to = "ready" /\ x \in Thread
          /\ In("waiting", x)' <=> to = "waiting" /\ x \in Thread
      BY <1>8, <2>3 DEF Kind
    <2>6. x \in flags' <=> x \in flags
      BY <1>4, <1>5
    <2> QED
      BY <1>4, <1>5, <1>18, <2>1, <2>2, <2>4, <2>5, <2>6
         DEF PlaceInv, SameLocal, Inside
  <1>23. ASSUME NEW u \in TCB, u # x, u # t PROVE PlaceInv(u)'
    <2>1. SamePlace(u)
      BY <1>5, <1>13, <1>17, <1>20, <1>23 DEF SamePlace
    <2> QED BY <1>9, <1>23, <2>1, OtherPlace DEF IInv
  <1> QED BY <1>12, <1>14, <1>15, <1>16, <1>19, <1>21, <1>22, <1>23 DEF IInv

(* new TCBImpl: the TCB x was in no place, so nothing of its former life   *)
(* is left but what the constructor overwrites.                            *)
LEMMA NewStep ==
    ASSUME IInv, NEW c \in Core, NEW t \in TCB, t = stack[c], New(c)
    PROVE  IInv'
  <1>1. /\ TypeOK /\ Local(t) /\ PlaceInv(t) /\ CoreInv(c) /\ OneKind /\ OnceEach
        /\ t \in live
        /\ In("stack", t) /\ (\A k \in Kind \ {"stack"} : ~In(k, t))
        /\ Executing(t)
    BY OwnFacts DEF IInv, New, At
  <1>2. /\ post[c] = None /\ pc[t] = "new" /\ t \notin Core
        /\ blk[t] = NoBlock /\ frame[t] = None /\ woken[t] = None /\ victim[t] = None
    BY <1>1 DEF New, At, Local, Base, Resumes, Block, Inside, Scheduling
  <1>3. PICK x \in Thread \ live :
          /\ live' = live \cup {x}
          /\ noPreempt' = noPreempt \ {x}
          /\ flags' = flags \cup {x}
          /\ pc' = [pc EXCEPT ![t] = "schedule", ![x] = "entry"]
          /\ woken' = [woken EXCEPT ![t] = x]
          /\ blk' = [blk EXCEPT ![x] = NoBlock]
          /\ ret' = [ret EXCEPT ![t] = "run", ![x] = "run"]
    BY DEF New
  <1>4. x \in TCB /\ x \notin Core /\ x # None /\ x # t
    BY <1>1, <1>3, ThreadsAssumption DEF TCB
  <1>5. UNCHANGED <<cpu, frame, victim, readyQ, zombies, sem, holder>>
    BY DEF New
  <1>6. \A k \in Kind : ~In(k, x)
    BY <1>1, <1>3 DEF OneKind
  <1>7. /\ PlaceInv(x) /\ Local(x) /\ ~Executing(x)
        /\ frame[x] = None /\ woken[x] = None /\ victim[x] = None /\ blk[x].next = None
        /\ \A s \in Sem : holder[s] # x
    <2>1. ~In("stack", x) /\ ~In("post", x)
      BY <1>6 DEF Kind
    <2>2. PlaceInv(x) /\ Local(x) /\ ~Executing(x)
      BY <1>4, <2>1 DEF IInv, In, Executing
    <2> QED BY <1>3, <2>1, <2>2 DEF PlaceInv, Local, Inside
  <1>8. /\ pc'[t] = "schedule" /\ woken'[t] = x /\ ret'[t] = "run" /\ blk'[t] = NoBlock
        /\ pc'[x] = "entry" /\ woken'[x] = None /\ blk'[x] = NoBlock
        /\ \A u \in TCB \ {t, x} : SameLocal(u)
    BY <1>1, <1>2, <1>3, <1>4, <1>5, <1>7 DEF TypeOK, SameLocal
  <1>9. TypeOK'
    BY <1>1, <1>3, <1>4, <1>5 DEF TypeOK, Label, NoBlock, BlockLocals, cpu
  <1>10. ASSUME NEW u \in TCB, NEW k \in Kind
         PROVE  In(k, u)' <=> IF u = x THEN k = "woken" ELSE In(k, u)
    <2>1. CASE k = "woken"
      BY <1>2, <1>4, <1>7, <1>8, <2>1, ThreadsAssumption DEF In, SameLocal, TCB
    <2>2. CASE k = "next"
      <3>1. \A v \in TCB : blk'[v].next = blk[v].next
        BY <1>2, <1>7, <1>8 DEF SameLocal, NoBlock
      <3>2. In(k, u)' <=> In(k, u)
        BY <2>2, <3>1 DEF In
      <3> QED BY <1>6, <2>2, <3>2
    <2>3. CASE k \notin {"woken", "next"}
      <3>1. In(k, u)' <=> In(k, u)
        BY <1>5, <2>3 DEF In, cpu
      <3> QED BY <1>6, <2>3, <3>1
    <2> QED BY <2>1, <2>2, <2>3
  <1>11. OneKind'
    BY <1>1, <1>3, <1>4, <1>10 DEF OneKind, TCB, Kind
  <1>12. OnceEach'
    <2>1. \A u, v \in TCB : woken'[u] = woken'[v] /\ woken'[u] # None => u = v
      <3>1. ~In("woken", x)
        BY <1>6 DEF Kind
      <3>2. \A v \in TCB : woken[v] # x
        BY <3>1 DEF In
      <3> QED BY <1>1, <1>7, <1>8, <3>2 DEF OnceEach, SameLocal
    <2>2. \A u, v \in TCB : blk'[u].next = blk'[v].next /\ blk'[u].next # None => u = v
      BY <1>1, <1>2, <1>7, <1>8 DEF OnceEach, SameLocal, NoBlock
    <2> QED BY <1>1, <1>5, <2>1, <2>2 DEF OnceEach, cpu
  <1>13. Local(t)'
    BY <1>1, <1>2, <1>4, <1>5, <1>8, ThreadsAssumption
       DEF Local, Block, Inside, Scheduling, Base, Resumes, NoBlock
  <1>14. Local(x)'
    BY <1>4, <1>5, <1>7, <1>8, ThreadsAssumption
       DEF Local, Block, Inside, Scheduling, Base, Resumes, NoBlock
  <1>15. ASSUME NEW u \in TCB PROVE Local(u)'
    BY <1>8, <1>13, <1>14, OtherLocal DEF IInv
  <1>16. ASSUME NEW u \in TCB PROVE Executing(u)' <=> Executing(u)
    BY <1>5 DEF Executing, cpu
  <1>17. ASSUME NEW d \in Core PROVE CoreInv(d)'
    <2>1. CASE d = c
      BY <1>1, <1>2, <1>5, <1>8, <2>1 DEF CoreInv, At, Masked, Inside, cpu
    <2>2. CASE d # c
      <3>1. stack[d] \in TCB /\ stack[d] # t /\ stack[d] # x
        <4>1. ~In("stack", x)
          BY <1>6 DEF Kind
        <4> QED BY <1>1, <2>2, <4>1 DEF TypeOK, OnceEach, In
      <3>2. post[d] # None => post[d] \in TCB /\ post[d] # t /\ post[d] # x
        <4>1. ~In("post", t) /\ ~In("post", x)
          BY <1>1, <1>6 DEF Kind
        <4> QED BY <1>1, <4>1 DEF TypeOK, In
      <3>3. blk[stack[d]].next # x
        <4>1. ~In("next", x)
          BY <1>6 DEF Kind
        <4> QED BY <3>1, <4>1 DEF In
      <3>4. SameCore(d) /\ CoreInv(d)
        BY <1>5 DEF IInv, SameCore, cpu
      <3> QED BY <1>3, <1>8, <3>1, <3>2, <3>3, <3>4, OtherCore DEF CoreInv
    <2> QED BY <2>1, <2>2
  <1>18. PlaceInv(t)'
    <2>1. ~Stopped(t)' /\ t \in live' /\ Executing(t)'
      BY <1>1, <1>3, <1>8, <1>16 DEF Stopped
    <2>2. \A k \in Kind : In(k, t)' <=> In(k, t)
      BY <1>4, <1>10
    <2>3. \A s \in Sem : holder[s] # t /\ blk'[t].why # s
      BY <1>1, <1>2, <1>8, ThreadsAssumption DEF PlaceInv, NoBlock, Inside, Kind
    <2> QED BY <1>1, <1>5, <2>1, <2>2, <2>3 DEF PlaceInv, Kind
  <1>19. PlaceInv(x)'
    <2>1. ~Stopped(x)' /\ x \in live' /\ x \in flags' /\ ~Masked(x)'
      BY <1>3, <1>5, <1>7, <1>8, ThreadsAssumption DEF Stopped, Masked, NoBlock
    <2>2. ~In("zombie", x)' /\ ~In("victim", x)'
      BY <1>10, <1>4 DEF Kind
    <2>3. \A s \in Sem : holder'[s] # x /\ blk'[x].why # s
      BY <1>5, <1>7, <1>8, ThreadsAssumption DEF NoBlock
    <2> QED BY <1>8, <2>1, <2>2, <2>3 DEF PlaceInv
  <1>20. ASSUME NEW u \in TCB, u # x, u # t PROVE PlaceInv(u)'
    <2>1. SamePlace(u)
      BY <1>3, <1>5, <1>10, <1>16, <1>20 DEF SamePlace
    <2> QED BY <1>8, <1>20, <2>1, OtherPlace DEF IInv
  <1> QED BY <1>9, <1>11, <1>12, <1>15, <1>17, <1>18, <1>19, <1>20 DEF IInv

(* The invariant holds when the cores call stop() for the first time, with *)
(* the reaper and the first thread ready.                                  *)
LEMMA InitIInv == Init => IInv
  <1> SUFFICES ASSUME Init PROVE IInv
    OBVIOUS
  <1>1. PICK first \in Thread \ {Reaper} :
          /\ readyQ = <<Reaper, first>>
          /\ live = Core \cup {Reaper, first}
          /\ flags = {Reaper, first}
    BY DEF Init
  <1>2. /\ Reaper \in Thread /\ first \in Thread /\ Reaper # first
        /\ \A t \in Thread : t \notin Core /\ t # None
        /\ \A c \in Core : c \notin Thread /\ c # None /\ c \in TCB
        /\ \A t \in Thread : t \in TCB
    BY <1>1, ThreadsAssumption DEF TCB
  <1>3. /\ \A s \in Sem : sem[s] = [count |-> Initial[s], waiting |-> <<>>]
        /\ \A s \in Sem : sem[s].waiting = <<>> /\ holder[s] = None
    BY DEF Init, Made
  <1>4. \A t : /\ ~Listed(<<>>, t)
               /\ Listed(readyQ, t) <=> t \in {Reaper, first}
    BY <1>1 DEF Listed
  <1>5. TypeOK
    <2>1. readyQ \in Seq(Thread) /\ zombies \in Seq(Thread)
      BY <1>1, <1>2 DEF Init
    <2>2. sem \in [Sem -> [count : Nat, waiting : Seq(Thread)]]
      BY ThreadsAssumption DEF Init, Made
    <2>3. /\ pc \in [TCB -> Label]
          /\ frame \in [TCB -> [pc : Label \ {"remove", "activate", "switch"},
                                ret : Label] \cup {None}]
          /\ blk \in [TCB -> BlockLocals]
      BY DEF Init, Label, NoBlock, BlockLocals
    <2> QED BY <1>1, <1>2, <2>1, <2>2, <2>3 DEF Init, TypeOK, Label, TCB
  <1>6. ASSUME NEW t \in TCB, NEW k \in Kind
        PROVE  In(k, t) <=> (k = "stack" /\ t \in Core) \/ (k = "ready" /\ t \in {Reaper, first})
    BY <1>2, <1>3, <1>4 DEF Init, In, Kind, NoBlock, TCB
  <1>7. OneKind
    BY <1>1, <1>2, <1>6 DEF OneKind, Kind
  <1>8. OnceEach
    <2>1. Distinct(readyQ) /\ Distinct(<<>>)
      BY <1>1, <1>2 DEF Distinct
    <2> QED BY <1>3, <1>4, <2>1 DEF Init, OnceEach, NoBlock
  <1>9. ASSUME NEW t \in TCB PROVE Local(t)
    BY <1>2, ThreadsAssumption
       DEF Init, Local, NoBlock, Block, Inside, Scheduling, Base, Resumes
  <1>10. ASSUME NEW c \in Core PROVE CoreInv(c)
    BY <1>2, ThreadsAssumption DEF Init, CoreInv, NoBlock, At, Masked, Inside
  <1>11. ASSUME NEW t \in TCB PROVE PlaceInv(t)
    <2>1. Executing(t) <=> t \in Core
      BY <1>2 DEF Executing, Init
    <2>2. ~Masked(t) /\ ~Stopped(t) /\ \A s \in Sem : blk[t].why # s /\ holder[s] # t
      BY <1>2, <1>3, ThreadsAssumption DEF Masked, Stopped, Init, NoBlock, TCB
    <2>3. ~In("zombie", t) /\ ~In("victim", t)
      BY <1>6 DEF Kind
    <2>4. t \in live /\ t \notin Core => t \in flags
      BY <1>1
    <2>5. /\ pc[t] \notin {"entry", "return"} => t \in Core
          /\ frame[t] = None /\ woken[t] = None /\ victim[t] = None
      BY DEF Init
    <2> QED BY <2>1, <2>2, <2>3, <2>4, <2>5 DEF PlaceInv
  <1> QED BY <1>5, <1>7, <1>8, <1>9, <1>10, <1>11 DEF IInv

(* Every step keeps the invariant.                                         *)
LEMMA NextIInv == IInv /\ [Next]_vars => IInv'
  <1> SUFFICES ASSUME IInv, [Next]_vars PROVE IInv'
    OBVIOUS
  <1>1. CASE UNCHANGED vars
    <2>1. Still /\ (\A u \in TCB : SameLocal(u)) /\ (\A c \in Core : SameCore(c))
      BY <1>1 DEF vars, cpu, local, Still, SameLocal, SameCore
    <2>2. /\ OneKind' /\ OnceEach'
          /\ \A u : (\A k : In(k, u)' <=> In(k, u)) /\ (Executing(u)' <=> Executing(u))
      BY <2>1, StillPlaces DEF IInv
    <2>3. TypeOK'
      BY <1>1 DEF vars, cpu, local, TypeOK, IInv
    <2>4. \A u \in TCB : Local(u)'
      BY <2>1, OtherLocal DEF IInv
    <2>5. \A u \in TCB : SamePlace(u)
      BY <1>1, <2>2 DEF SamePlace, vars
    <2>6. \A u \in TCB : PlaceInv(u)'
      BY <2>1, <2>5, OtherPlace DEF IInv
    <2>7. ASSUME NEW c \in Core PROVE CoreInv(c)'
      <3>1. stack[c] \in TCB /\ (post[c] # None => post[c] \in TCB)
        BY DEF IInv, TypeOK
      <3> QED BY <1>1, <2>1, <3>1, OtherCore DEF IInv, CoreInv, vars
    <2> QED BY <2>2, <2>3, <2>4, <2>6, <2>7 DEF IInv
  <1>2. CASE Next
    <2>1. PICK c \in Core : KernelStep(c) \/ ThreadStep(c) \/ Timer(c)
      BY <1>2 DEF Next
    <2>2. PICK t \in TCB : t = stack[c]
      BY DEF IInv, TypeOK
    <2>3. CASE KernelStep(c)
      BY <2>2, <2>3, EntryStep, RemoveStep, CanReturnStep, MustBlockStep, ActivateStep,
         SwitchStep, HandlerStep, ReturnStep, ScheduleStep, DeleteZombiesStep, DeleteStep
         DEF KernelStep
    <2>4. CASE ThreadStep(c)
      <3>1. CASE Yield(c)
        BY <2>2, <3>1, YieldStep
      <3>2. CASE Stop(c)
        BY <2>2, <3>2, YieldStep
      <3>3. CASE \E s \in Sem : DownPass(c, s) \/ DownBlock(c, s) \/ Up(c, s)
        BY <2>2, <3>3, DownPassStep, DownBlockStep, UpAddsStep, UpWakesStep
      <3> QED BY <2>2, <2>4, <3>1, <3>2, <3>3, SpawnStep, NewStep DEF ThreadStep
    <2> QED BY <2>1, <2>2, <2>3, <2>4, TimerStep
  <1> QED BY <1>1, <1>2

(* The invariant always holds.                                             *)
LEMMA AlwaysIInv == Spec => []IInv
  BY InitIInv, NextIInv, PTL DEF Spec

(* One kind of place, and no place twice, make one place.                  *)
LEMMA OnePlaceFollows == IInv => OnePlace
  <1> SUFFICES ASSUME IInv PROVE OnePlace
    OBVIOUS
  <1> DEFINE Of(k, t, p) ==
        \/ k = "stack" /\ \E c \in Core : stack[c] = t /\ p = <<"stack", c>>
        \/ k = "post" /\ \E c \in Core : post[c] = t /\ p = <<"post", c>>
        \/ k = "next" /\ \E u \in TCB : blk[u].next = t /\ p = <<"next", u>>
        \/ k = "woken" /\ \E u \in TCB : woken[u] = t /\ p = <<"woken", u>>
        \/ k = "victim" /\ \E u \in TCB : victim[u] = t /\ p = <<"victim", u>>
        \/ k = "ready" /\ \E i \in DOMAIN readyQ : readyQ[i] = t /\ p = <<"ready", i>>
        \/ k = "zombie" /\ \E i \in DOMAIN zombies : zombies[i] = t /\ p = <<"zombie", i>>
        \/ k = "waiting" /\ \E s \in Sem : \E i \in DOMAIN sem[s].waiting :
               sem[s].waiting[i] = t /\ p = <<"waiting", s, i>>
  <1>1. ASSUME NEW t, NEW p PROVE p \in Places(t) <=> \E k \in Kind : Of(k, t, p)
    BY DEF Places, Kind
  <1>2. ASSUME NEW t, NEW k \in Kind PROVE In(k, t) <=> \E p : Of(k, t, p)
    BY DEF In, Listed, Kind
  <1>3. ASSUME NEW t \in TCB, NEW k \in Kind, NEW p, NEW q, Of(k, t, p), Of(k, t, q)
        PROVE  p = q
    <2>1. OnceEach /\ t # None
      BY ThreadsAssumption DEF IInv, TCB
    <2>2. CASE k \in {"stack", "post", "next", "woken", "victim"}
      BY <1>3, <2>1, <2>2 DEF OnceEach
    <2>3. CASE k \in {"ready", "zombie"}
      BY <1>3, <2>1, <2>3 DEF OnceEach, Distinct
    <2>4. CASE k = "waiting"
      <3>1. PICK r \in Sem : \E i \in DOMAIN sem[r].waiting :
                sem[r].waiting[i] = t /\ p = <<"waiting", r, i>>
        BY <1>3, <2>4
      <3>2. PICK s \in Sem : \E j \in DOMAIN sem[s].waiting :
                sem[s].waiting[j] = t /\ q = <<"waiting", s, j>>
        BY <1>3, <2>4
      <3>3. r = s
        BY <2>1, <3>1, <3>2 DEF OnceEach, Listed
      <3>4. Distinct(sem[s].waiting)
        BY <2>1 DEF OnceEach
      <3> QED BY <3>1, <3>2, <3>3, <3>4 DEF Distinct
    <2> QED BY <2>2, <2>3, <2>4 DEF Kind
  <1> HIDE DEF Of
  <1>4. ASSUME NEW t \in Thread, t \in live PROVE Cardinality(Places(t)) = 1
    <2>1. t \in TCB
      BY DEF TCB
    <2>2. PICK k \in Kind : In(k, t)
      BY <1>4 DEF IInv, OneKind
    <2>3. PICK p : Of(k, t, p)
      BY <1>2, <2>2
    <2>4. ASSUME NEW q \in Places(t) PROVE q = p
      <3>1. PICK l \in Kind : Of(l, t, q)
        BY <1>1, <2>4
      <3>2. l = k
        BY <1>2, <2>1, <2>2, <3>1 DEF IInv, OneKind
      <3> QED BY <1>3, <2>1, <2>3, <3>1, <3>2
    <2>5. Places(t) = {p}
      BY <1>1, <2>3, <2>4
    <2> QED BY <2>5, FS_Singleton
  <1>5. ASSUME NEW t \in Thread, t \notin live PROVE Places(t) = {}
    <2>1. \A k \in Kind : ~In(k, t)
      BY <1>5 DEF IInv, OneKind
    <2> QED BY <1>1, <1>2, <2>1
  <1>6. ASSUME NEW c \in Core
        PROVE  /\ c \in live
               /\ Places(c) \subseteq {<<"stack", c>>, <<"post", c>>, <<"next", stack[c]>>}
    <2>1. TypeOK /\ c \notin Thread /\ c # None /\ c \in live
      BY ThreadsAssumption DEF IInv, OneKind
    <2>2. SUFFICES ASSUME NEW p \in Places(c)
                   PROVE  p \in {<<"stack", c>>, <<"post", c>>, <<"next", stack[c]>>}
      BY <2>1
    <2>3. PICK k \in Kind : Of(k, c, p)
      BY <1>1, <2>2
    <2>4. CASE k = "stack"
      BY <2>3, <2>4 DEF Of, IInv, CoreInv
    <2>5. CASE k = "post"
      BY <2>3, <2>5 DEF Of, IInv, CoreInv
    <2>6. CASE k = "next"
      <3>1. PICK u \in TCB : blk[u].next = c /\ p = <<"next", u>>
        BY <2>3, <2>6 DEF Of
      <3>2. pc[u] \in {"activate", "switch"}
        BY <2>1, <3>1 DEF IInv, Local
      <3>3. PICK d \in Core : stack[d] = u
        BY <3>2 DEF IInv, PlaceInv, Executing
      <3>4. d = c
        BY <3>1, <3>3 DEF IInv, CoreInv
      <3> QED BY <3>1, <3>3, <3>4
    <2>7. CASE k \in {"woken", "victim"}
      BY <2>1, <2>3, <2>7 DEF Of, TypeOK
    <2>8. CASE k \in {"ready", "zombie"}
      BY <2>1, <2>3, <2>8 DEF Of, TypeOK
    <2>9. CASE k = "waiting"
      <3>1. PICK s \in Sem : \E i \in DOMAIN sem[s].waiting : sem[s].waiting[i] = c
        BY <2>3, <2>9 DEF Of
      <3>2. sem[s].waiting \in Seq(Thread)
        BY <2>1 DEF TypeOK
      <3> QED BY <2>1, <3>1, <3>2
    <2> QED BY <2>4, <2>5, <2>6, <2>7, <2>8, <2>9 DEF Kind
  <1> QED BY <1>4, <1>5, <1>6 DEF OnePlace

(* A thread is always in exactly one place, a deleted TCB in none, and an  *)
(* idle thread with its own core only: block(), its switch handlers, up(), *)
(* thread() and delete_zombies() neither lose a thread, nor run it on two  *)
(* cores, nor free one that can still run.                                 *)
THEOREM ThreadsInOnePlace == Spec => []OnePlace
  BY AlwaysIInv, OnePlaceFollows, PTL

(* current() agrees with the thread that executes because activeThreads is *)
(* written in one step of block() only, right before the switch.           *)
LEMMA CurrentFollows == IInv => CurrentExecutes
  <1> SUFFICES ASSUME IInv, NEW c \in Core
               PROVE  IF At(c, "switch")
                        THEN /\ active[c] = blk[stack[c]].next
                             /\ {stack[c], active[c]} \subseteq noPreempt
                             /\ blk[stack[c]].core = c
                             /\ blk[stack[c]].me = stack[c]
                        ELSE /\ active[c] = stack[c]
                             /\ esp0[c] = stack[c]
    BY DEF CurrentExecutes
  <1>1. CoreInv(c) /\ stack[c] \in TCB /\ Local(stack[c])
    BY DEF IInv, TypeOK
  <1> QED BY <1>1 DEF CoreInv, Local, At, Inside

(* activeThreads and the stack for interrupts always name the thread that  *)
(* the core executes, except between their assignment in block() and the   *)
(* switch, and there nobody can be preempted.                              *)
THEOREM CurrentIsExecuting == Spec => []CurrentExecutes
  BY AlwaysIInv, CurrentFollows, PTL

(* The invariant implies what the code asserts.                            *)
LEMMA AssertsFollow == IInv => AssertsHold
  <1> SUFFICES ASSUME IInv, NEW c \in Core
               PROVE  /\ At(c, "remove") /\ blk[stack[c]].why # "yield" /\ blk[stack[c]].me \in Core =>
                            /\ blk[stack[c]].core = c
                            /\ c \in enabled
                            /\ blk[stack[c]].me = c
                            /\ active[c] = c
                      /\ At(c, "return") /\ frame[stack[c]] = None /\ blk[stack[c]].why = "stop" =>
                            active[c] \in Core
                      /\ At(c, "reap") => c \in enabled
                      /\ post[c] # None /\ blk[post[c]].why \in Sem => blk[post[c]].me \notin Core
    BY DEF AssertsHold
  <1>1. PICK t \in TCB : t = stack[c]
    BY DEF IInv, TypeOK
  <1>2. /\ CoreInv(c) /\ Local(t) /\ PlaceInv(t) /\ In("stack", t)
        /\ t \in Thread \/ t = c
    BY <1>1, OwnFacts
  <1>3. ASSUME At(c, "remove"), blk[t].why # "yield", blk[t].me \in Core
        PROVE  blk[t].core = c /\ c \in enabled /\ blk[t].me = c /\ active[c] = c
    BY <1>1, <1>2, <1>3 DEF CoreInv, Local, At, Inside, Masked
  <1>4. ASSUME At(c, "return"), blk[t].why = "stop" PROVE active[c] \in Core
    BY <1>1, <1>2, <1>4 DEF CoreInv, PlaceInv, At, Stopped
  <1>5. ASSUME At(c, "reap") PROVE c \in enabled
    BY <1>1, <1>2, <1>5, ThreadsAssumption
       DEF CoreInv, Local, At, Masked, Block, Inside, NoBlock
  <1>6. ASSUME post[c] # None, blk[post[c]].why \in Sem PROVE blk[post[c]].me \notin Core
    <2>1. post[c] \in TCB /\ blk[post[c]].me = post[c]
      BY <1>2, <1>6 DEF IInv, TypeOK, CoreInv
    <2> QED BY <1>6, <2>1 DEF IInv, Local
  <1> QED BY <1>1, <1>3, <1>4, <1>5, <1>6

(* The ASSERTs of block(), stop(), the reaper and down() never fail.       *)
THEOREM AssertsAlwaysHold == Spec => []AssertsHold
  BY AlwaysIInv, AssertsFollow, PTL

(* Who holds a lock across block() is in block() for it, on one core.      *)
LEMMA LockedFollows == IInv => LockedAcrossBlock
  <1> SUFFICES ASSUME IInv, NEW s \in Sem, holder[s] # None
               PROVE  \E c \in Core :
                          /\ c \notin enabled
                          /\ IF post[c] = None THEN stack[c] = holder[s] ELSE post[c] = holder[s]
                          /\ blk[holder[s]].why = s
    BY DEF LockedAcrossBlock
  <1>1. PICK t \in TCB : t = holder[s]
    BY DEF IInv, TypeOK, TCB
  <1>2. blk[t].why = s /\ (pc[t] \in Inside \/ In("post", t)) /\ Masked(t) /\ t # None
    BY <1>1 DEF IInv, PlaceInv, Masked
  <1>3. CASE pc[t] \in Inside
    <2>1. PICK c \in Core : stack[c] = t /\ post[c] = None
      BY <1>3 DEF IInv, PlaceInv, Executing, Inside
    <2>2. c \notin enabled
      BY <1>2, <2>1 DEF IInv, CoreInv
    <2> QED BY <1>1, <1>2, <2>1, <2>2
  <1>4. CASE In("post", t)
    <2>1. PICK c \in Core : post[c] = t
      BY <1>4 DEF In
    <2>2. c \notin enabled
      BY <1>1, <2>1 DEF IInv, CoreInv
    <2> QED BY <1>1, <1>2, <2>1, <2>2
  <1> QED BY <1>2, <1>3, <1>4

(* The spin lock of a semaphore that is kept across block() belongs to a   *)
(* thread that is on its way to the unlock on one core, with interrupts    *)
(* off.                                                                    *)
THEOREM LockIsKeptAcrossBlock == Spec => []LockedAcrossBlock
  BY AlwaysIInv, LockedFollows, PTL

(* The refinement mapping: a thread that holds the lock across block() is  *)
(* the last of the line.                                                   *)
Line == [s \in Sem |-> IF holder[s] = None THEN sem[s] ELSE Parked(sem[s], holder[s])]

(* A thread that calls down() or up() waits for no semaphore.              *)
LEMMA CallerIsFree ==
    ASSUME IInv, NEW c \in Core, NEW t \in TCB, t = stack[c], Working(c)
    PROVE  t \in Thread /\ ~Abstract!Blocked(t)
  <1>1. /\ t \in Thread /\ TypeOK /\ PlaceInv(t) /\ Local(t)
        /\ \A k \in Kind \ {"stack"} : ~In(k, t)
    BY OwnFacts DEF Working
  <1>2. pc[t] \notin Block
    BY DEF Working, Block, Inside
  <1>3. \A s \in Sem : holder[s] # t
    BY <1>1, <1>2, ThreadsAssumption DEF PlaceInv, Local, NoBlock, Block, Kind
  <1>4. \A s \in Sem : ~Listed(sem[s].waiting, t)
    <2>1. ~In("waiting", t)
      BY <1>1 DEF Kind
    <2> QED BY <2>1 DEF In
  <1>5. ASSUME NEW s \in Sem PROVE ~Listed(Line[s].waiting, t)
    <2>1. sem[s] \in [count : Nat, waiting : Seq(Thread)]
      BY <1>1 DEF TypeOK
    <2>2. CASE holder[s] = None
      BY <1>4, <2>2 DEF Line
    <2>3. CASE holder[s] # None
      <3>1. holder[s] \in Thread
        BY <1>1, <2>3 DEF TypeOK
      <3>2. Line[s].waiting = Append(sem[s].waiting, holder[s])
        BY <2>1, <2>3 DEF Line, Parked
      <3> QED BY <1>3, <1>4, <2>1, <3>1, <3>2, Appended
    <2> QED BY <2>2, <2>3
  <1>6. \A s \in Sem : t \notin Abstract!Waiters(Line[s])
    BY <1>5 DEF Abstract!Waiters, Listed
  <1> QED BY <1>1, <1>6 DEF Abstract!Blocked, Line

(* A step is one of the abstract semaphore or leaves it alone: the handler *)
(* that queues the thread changes nothing, as the thread was already last  *)
(* in the line.                                                            *)
LEMMA StepImplements == IInv /\ [Next]_vars => [Abstract!Next]_Line
  <1> SUFFICES ASSUME IInv, [Next]_vars PROVE Line' = Line \/ Abstract!Next
    BY DEF Line
  <1>1. CASE UNCHANGED <<sem, holder>>
    BY <1>1 DEF Line
  <1>2. CASE Next /\ ~UNCHANGED <<sem, holder>>
    <2>1. PICK c \in Core : KernelStep(c) \/ ThreadStep(c) \/ Timer(c)
      BY <1>2 DEF Next
    <2>2. \/ Handler(c)
          \/ \E s \in Sem : DownPass(c, s) \/ DownBlock(c, s) \/ Up(c, s)
      BY <1>2, <2>1
         DEF KernelStep, ThreadStep, Timer, Entry, Remove, CanReturn, MustBlock, Activate,
             Switch, Return, Schedule, DeleteZombies, Delete, Yield, Stop, Spawn, New
    <2>3. PICK t \in TCB : t = stack[c]
      BY DEF IInv, TypeOK
    <2>4. CASE Handler(c)
      <3>1. PICK x \in TCB : x = post[c] /\ x # None
        BY <2>4 DEF Handler, IInv, TypeOK
      <3>2. blk[x].me = x /\ In("post", x) /\ PlaceInv(x)
        BY <3>1 DEF IInv, CoreInv, In
      <3>3. PICK why \in Sem : why = blk[x].why
        BY <1>2, <2>4, <3>1, ThreadsAssumption DEF Handler
      <3>4. holder[why] = x
        BY <3>2, <3>3 DEF PlaceInv
      <3>5. /\ sem' = [sem EXCEPT ![why] = Parked(sem[why], x)]
            /\ holder' = [holder EXCEPT ![why] = None]
        BY <2>4, <3>1, <3>2, <3>3, ThreadsAssumption DEF Handler
      <3>6. ASSUME NEW s \in Sem PROVE Line'[s] = Line[s]
        BY <3>1, <3>4, <3>5 DEF Line, IInv, TypeOK
      <3> QED BY <3>6 DEF Line
    <2>5. ASSUME NEW s \in Sem, DownPass(c, s) \/ DownBlock(c, s) \/ Up(c, s)
          PROVE  Abstract!Next
      <3>1. t \in Thread /\ ~Abstract!Blocked(t) /\ holder[s] = None /\ t # None
        BY <2>3, <2>5, CallerIsFree, ThreadsAssumption DEF DownPass, DownBlock, Up
      <3>2. Line[s] = sem[s] /\ TypeOK
        BY <3>1 DEF Line, IInv
      <3>3. CASE DownPass(c, s)
        <4>1. /\ Free(sem[s]) /\ sem' = [sem EXCEPT ![s] = Taken(sem[s])]
              /\ holder' = holder
          BY <3>3 DEF DownPass
        <4>2. Line' = [Line EXCEPT ![s] = Taken(Line[s])]
          BY <3>1, <3>2, <4>1 DEF Line, TypeOK
        <4>3. Abstract!Pass(t, s)
          BY <3>1, <3>2, <4>1, <4>2
             DEF Abstract!Pass, Abstract!Free, Abstract!Taken, Free, Taken, Line
        <4> QED BY <3>1, <4>3 DEF Abstract!Next
      <3>4. CASE DownBlock(c, s)
        <4>1. ~Free(sem[s]) /\ holder' = [holder EXCEPT ![s] = t] /\ sem' = sem
          BY <2>3, <3>4 DEF DownBlock
        <4>2. Line' = [Line EXCEPT ![s] = Parked(Line[s], t)]
          BY <3>1, <3>2, <4>1 DEF Line, TypeOK
        <4>3. Abstract!Wait(t, s)
          BY <3>1, <3>2, <4>1, <4>2
             DEF Abstract!Wait, Abstract!Free, Abstract!Parked, Free, Parked, Line
        <4> QED BY <3>1, <4>3 DEF Abstract!Next
      <3>5. CASE Up(c, s)
        <4>1. sem' = [sem EXCEPT ![s] = Raised(sem[s])] /\ holder' = holder
          BY <3>5 DEF Up
        <4>2. Line' = [Line EXCEPT ![s] = Raised(Line[s])]
          BY <3>1, <3>2, <4>1 DEF Line, TypeOK
        <4>3. Abstract!Up(t, s)
          BY <3>1, <3>2, <4>1, <4>2 DEF Abstract!Up, Abstract!Raised, Raised, Line
        <4> QED BY <3>1, <4>3 DEF Abstract!Next
      <3> QED BY <2>5, <3>3, <3>4, <3>5
    <2> QED BY <2>2, <2>4, <2>5
  <1> QED BY <1>1, <1>2 DEF vars

(* The semaphores begin with their counts and nobody waiting.              *)
LEMMA InitImplements == Init => Abstract!Init
  BY DEF Init, Abstract!Init, Abstract!Made, Made

(* down() and up() of semaphore.h, with their lock kept across the switch  *)
(* and the late schedule(), are a first-come first-served semaphore.       *)
THEOREM DownAndUpImplementSemaphore == Spec => ImplementsSemaphore
  BY AlwaysIInv, InitImplements, StepImplements, PTL
     DEF Spec, ImplementsSemaphore, Abstract!Spec, Line
=============================================================================
