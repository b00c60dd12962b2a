------------------------------- MODULE Locks -------------------------------
(***************************************************************************)
(* The spin locks of kernel/atomic.h that are safe to share with an        *)
(* interrupt handler: InterruptSafeLock, which keeps the caller's          *)
(* interrupt state in the lock, and ISL, which hands it to the caller.     *)
(*                                                                         *)
(* Every core runs two activities: the code that was interrupted and the   *)
(* timer interrupt handler on top of it (apitHandler reaches the lock of   *)
(* readyQ through yield).  Both take the same lock.  One step is one       *)
(* access to memory shared between cores, or one change of the core's      *)
(* interrupt flag.                                                         *)
(***************************************************************************)
EXTENDS Naturals, FiniteSets

CONSTANT Core

ASSUME CoreAssumption == IsFiniteSet(Core) /\ Core # {}

VARIABLES
    kind,       \* which class the lock is an instance of, fixed by Init
    taken,      \* Atomic<bool> taken
    was,        \* InterruptSafeLock's volatile bool was
    enabled,    \* the cores whose EFLAGS.IF is set
    handling,   \* the cores inside the interrupt handler
    pc,         \* where each activity is
    wasDisabled,\* the activities whose local variable wasDisabled is true
    entered     \* history: those that called lock() with the flag set

vars == <<kind, taken, was, enabled, handling, pc, wasDisabled, entered>>

Kind == {"InterruptSafeLock", "ISL"}

(* An activity is a core and the level it executes at.                     *)
Level == {"thread", "handler"}
Activity == Core \X Level

Label == {"out", "lock", "exchange", "stuck", "remember", "inside",
          "unlock", "restore"}

(* The activities that are past a successful exchange and have not yet     *)
(* stored FALSE into taken.                                                *)
Holding(a) == pc[a] \in {"remember", "inside", "unlock"}

Init ==
    /\ kind \in Kind
    /\ taken = FALSE
    /\ was = FALSE
    /\ enabled = Core
    /\ handling = {}
    /\ pc = [a \in Activity |-> "out"]
    /\ wasDisabled = {}
    /\ entered = {}

(* A core executes the handler while it is in it, and the interrupted code *)
(* otherwise.                                                              *)
Executing(c, l) == (l = "handler") <=> c \in handling

(* The Boolean variable of x, in a set of those that are true, becomes b.  *)
Assign(set, x, b) == IF b THEN set \cup {x} ELSE set \ {x}

At(c, l, label) == Executing(c, l) /\ pc[<<c, l>>] = label

Goto(c, l, label) == pc' = [pc EXCEPT ![<<c, l>>] = label]

(* The caller decides to take the lock.                                    *)
Call(c, l) ==
    /\ At(c, l, "out")
    /\ Goto(c, l, "lock")
    /\ entered' = Assign(entered, <<c, l>>, c \in enabled)
    /\ UNCHANGED <<kind, taken, was, enabled, handling, wasDisabled>>

(* Mutant: lock() forgets to disable interrupts.                           *)
Disable_LeftEnabled(c, l) ==
    /\ At(c, l, "lock")
    /\ wasDisabled' = Assign(wasDisabled, <<c, l>>, c \notin enabled)
    /\ Goto(c, l, "exchange")
    /\ UNCHANGED <<kind, taken, was, enabled, handling, entered>>

(* Mutant: lock() stores was before it has the lock.                       *)
Disable_StoresEarly(c, l) ==
    /\ At(c, l, "lock")
    /\ wasDisabled' = Assign(wasDisabled, <<c, l>>, c \notin enabled)
    /\ was' = (c \notin enabled)
    /\ enabled' = enabled \ {c}
    /\ Goto(c, l, "exchange")
    /\ UNCHANGED <<kind, taken, handling, entered>>

(* bool wasDisabled = Interrupts::disable()                                *)
Disable(c, l) ==
    /\ At(c, l, "lock")
    /\ wasDisabled' = Assign(wasDisabled, <<c, l>>, c \notin enabled)
    /\ enabled' = enabled \ {c}
    /\ Goto(c, l, "exchange")
    /\ UNCHANGED <<kind, taken, was, handling, entered>>

(* Mutant: if (taken.exchange(true)), the test inverted.                   *)
Exchange_Inverted(c, l) ==
    /\ At(c, l, "exchange")
    /\ taken' = TRUE
    /\ \/ /\ ~taken
          /\ Goto(c, l, "stuck")
       \/ /\ taken
          /\ kind = "InterruptSafeLock"
          /\ Goto(c, l, "remember")
       \/ /\ taken
          /\ kind = "ISL"
          /\ Goto(c, l, "inside")
    /\ UNCHANGED <<kind, was, enabled, handling, wasDisabled, entered>>

(* if (!taken.exchange(true)): ISL::lock returns the local at once, while  *)
(* InterruptSafeLock::lock still has to store it.                          *)
Exchange(c, l) ==
    /\ At(c, l, "exchange")
    /\ taken' = TRUE
    /\ \/ /\ taken
          /\ Goto(c, l, "stuck")
       \/ /\ ~taken
          /\ kind = "InterruptSafeLock"
          /\ Goto(c, l, "remember")
       \/ /\ ~taken
          /\ kind = "ISL"
          /\ Goto(c, l, "inside")
    /\ UNCHANGED <<kind, was, enabled, handling, wasDisabled, entered>>

(* Interrupts::restore(wasDisabled); iAmStuckInALoop(true)                 *)
Stuck(c, l) ==
    /\ At(c, l, "stuck")
    /\ enabled' = Assign(enabled, c, c \in enabled \/ <<c, l>> \notin wasDisabled)
    /\ Goto(c, l, "lock")
    /\ UNCHANGED <<kind, taken, was, handling, wasDisabled, entered>>

(* was = wasDisabled                                                       *)
Remember(c, l) ==
    /\ At(c, l, "remember")
    /\ was' = (<<c, l>> \in wasDisabled)
    /\ Goto(c, l, "inside")
    /\ UNCHANGED <<kind, taken, enabled, handling, wasDisabled, entered>>

(* unlock() begins: InterruptSafeLock reads the field the lock keeps, ISL  *)
(* is given by its caller what lock() returned.                            *)
Unlock(c, l) ==
    /\ At(c, l, "inside")
    /\ wasDisabled' = IF kind = "InterruptSafeLock"
                          THEN Assign(wasDisabled, <<c, l>>, was)
                          ELSE wasDisabled
    /\ Goto(c, l, "unlock")
    /\ UNCHANGED <<kind, taken, was, enabled, handling, entered>>

(* Mutant: unlock() forgets taken.set(false).                              *)
Release_Forgotten(c, l) ==
    /\ At(c, l, "unlock")
    /\ Goto(c, l, "restore")
    /\ UNCHANGED <<kind, taken, was, enabled, handling, wasDisabled, entered>>

(* taken.set(false)                                                        *)
Release(c, l) ==
    /\ At(c, l, "unlock")
    /\ taken' = FALSE
    /\ Goto(c, l, "restore")
    /\ UNCHANGED <<kind, was, enabled, handling, wasDisabled, entered>>

(* Interrupts::restore(wasDisabled) enables interrupts when they were      *)
(* enabled and otherwise leaves the flag alone; ISL::unlock writes the     *)
(* flag either way.                                                        *)
Restore(c, l) ==
    /\ At(c, l, "restore")
    /\ enabled' = Assign(enabled, c,
                         \/ <<c, l>> \notin wasDisabled
                         \/ kind = "InterruptSafeLock" /\ c \in enabled)
    /\ Goto(c, l, "out")
    /\ UNCHANGED <<kind, taken, was, handling, wasDisabled, entered>>

(* Kernel code outside the lock may run with interrupts off, because it    *)
(* holds another lock or called cli(), and may turn them on again.         *)
Toggle(c) ==
    /\ At(c, "thread", "out")
    /\ enabled' = Assign(enabled, c, c \notin enabled)
    /\ UNCHANGED <<kind, taken, was, handling, pc, wasDisabled, entered>>

(* The timer interrupts a core whose flag is set; the interrupt gate       *)
(* (IDT::interrupt) clears the flag.                                       *)
Interrupt(c) ==
    /\ c \notin handling
    /\ c \in enabled
    /\ handling' = handling \cup {c}
    /\ enabled' = enabled \ {c}
    /\ UNCHANGED <<kind, taken, was, pc, wasDisabled, entered>>

(* iret: back in the interrupted code, with its flag.                      *)
InterruptReturn(c) ==
    /\ At(c, "handler", "out")
    /\ handling' = handling \ {c}
    /\ enabled' = enabled \cup {c}
    /\ UNCHANGED <<kind, taken, was, pc, wasDisabled, entered>>

LockStep(c, l) ==
    \/ Disable(c, l)
    \/ Exchange(c, l)
    \/ Stuck(c, l)
    \/ Remember(c, l)
    \/ Unlock(c, l)
    \/ Release(c, l)
    \/ Restore(c, l)

Next ==
    \E c \in Core :
        \/ \E l \in Level : Call(c, l) \/ LockStep(c, l)
        \/ Toggle(c)
        \/ Interrupt(c)
        \/ InterruptReturn(c)

Spec == Init /\ [][Next]_vars

(* A core keeps executing: it finishes lock operations and handlers, but   *)
(* nothing obliges it to call lock().  Interrupts come at any time; the    *)
(* timer is periodic (Pit::init), so between two of them the interrupted   *)
(* code executes, which is why the fairness of a lock step is strong.      *)
Fairness ==
    \A c \in Core :
        /\ \A l \in Level : SF_vars(LockStep(c, l))
        /\ WF_vars(InterruptReturn(c))

FairSpec == Spec /\ Fairness

-----------------------------------------------------------------------------

(* Every variable holds a value its declaration in atomic.h allows.        *)
TypeOK ==
    /\ kind \in Kind
    /\ taken \in BOOLEAN
    /\ was \in BOOLEAN
    /\ enabled \subseteq Core
    /\ handling \subseteq Core
    /\ pc \in [Activity -> Label]
    /\ wasDisabled \subseteq Activity
    /\ entered \subseteq Activity

(* Two activities, on one core or on two, never hold the lock together.    *)
MutualExclusion ==
    \A a, b \in Activity : Holding(a) /\ Holding(b) => a = b

(* While an activity holds the lock its core takes no interrupt, so the    *)
(* handler of that core never spins on a lock its own core holds.          *)
HolderIsMasked ==
    \A c \in Core, l \in Level :
        Holding(<<c, l>>) => c \notin enabled /\ Executing(c, l)

(* The question in atomic.h ("Is this correct?"): when unlock() is about   *)
(* to restore the interrupt flag, what it restores is what the flag was    *)
(* when the same activity called lock(), although InterruptSafeLock keeps  *)
(* it in a field that every core writes.                                   *)
RestoresCallersFlag ==
    \A c \in Core, l \in Level :
        pc[<<c, l>>] = "restore" =>
            (<<c, l>> \in wasDisabled <=> <<c, l>> \notin entered)

(* The lock circulates: when it is wanted and free somebody gets it, and   *)
(* whoever holds it gives it back.  A handler spinning on a lock that the  *)
(* code it interrupted holds would break the second half.                  *)
LockCirculates ==
    /\ (\E a \in Activity : pc[a] = "lock" /\ ~taken) ~> taken
    /\ taken ~> ~taken
=============================================================================
