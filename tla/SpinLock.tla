------------------------------- MODULE SpinLock -------------------------------
(***************************************************************************)
(* ktl::spin_lock (src/include/mutex.hpp, src/src/mutex.cpp): a kernel     *)
(* spin lock which its holder keeps at a raised interrupt request level    *)
(* (IRQL).  The level to go back to is stored in the lock object itself,   *)
(* which every processor shares.                                           *)
(*                                                                         *)
(* A context is a thread, an APC or an interrupt routine.  It runs on one  *)
(* processor at a level of its own, interrupts what runs there at a lower  *)
(* level and returns to it.  The kernel's part (Arrive, Return, the native *)
(* lock) is external and modelled from how the library uses it.            *)
(*                                                                         *)
(* The template argument MinIrql selects the policy: below DISPATCH_LEVEL  *)
(* it is Mixed, which raises the level; otherwise it is DpcOnly, which     *)
(* neither raises it nor stores it.                                        *)
(***************************************************************************)
EXTENDS Integers, Sequences, FiniteSets

CONSTANTS
  Cpus, Contexts,
  Home,      \* Home[t]: the processor of context t
  Level,     \* Level[t]: the IRQL at which context t runs
  Nobody

PASSIVE_LEVEL == 0
APC_LEVEL == 1
DISPATCH_LEVEL == 2
HIGH_LEVEL == 4

ASSUME SpinLockAssumption ==
  /\ Home \in [Contexts -> Cpus]
  /\ Level \in [Contexts -> PASSIVE_LEVEL..HIGH_LEVEL]
  /\ Nobody \notin Contexts

VARIABLES
  kind,      \* the levels from which the lock may be used, and its ceiling:
             \* the level to which it raises its holder
  irql,      \* irql[c]: the current level of processor c
  stack,     \* stack[c]: the contexts on processor c, the running one last
  owner,     \* the native lock
  prevIrql,  \* m_prev_irql
  saved,     \* saved[t]: the level held in a local variable or a register
  pc

spinVars == <<irql, stack, owner, prevIrql, saved, pc>>
vars == <<kind, spinVars>>

Top(c) == stack[c][Len(stack[c])]
Running(t) == stack[Home[t]] # <<>> /\ Top(Home[t]) = t
At(t, label) == Running(t) /\ pc[t] = label
Goto(t, label) == pc' = [pc EXCEPT ![t] = label]
SetIrql(t, level) == irql' = [irql EXCEPT ![Home[t]] = level]

\* spin_lock_type_selector: the mask of the two bounds is 3 or 2, since a
\* lock above DISPATCH_LEVEL does not compile.
Mixed == kind.min <= APC_LEVEL

SpinLocks == [min : {PASSIVE_LEVEL, DISPATCH_LEVEL}, ceiling : {DISPATCH_LEVEL}]
-----------------------------------------------------------------------------
(***************************************************************************)
(* The kernel                                                              *)
(***************************************************************************)

\* A context starts on an idle processor or interrupts a lower one.
Arrive(t) ==
  LET c == Home[t] IN
  /\ Level[t] \in kind.min..kind.ceiling
  /\ \A i \in 1..Len(stack[c]) : stack[c][i] # t
  /\ stack[c] = <<>> \/ Level[t] > irql[c]
  /\ stack' = [stack EXCEPT ![c] = Append(@, t)]
  /\ SetIrql(t, Level[t])
  /\ UNCHANGED <<owner, prevIrql, saved, pc>>

\* It returns, and the processor drops to the level of what it interrupted.
Return(t) ==
  LET c == Home[t]
      rest == SubSeq(stack[c], 1, Len(stack[c]) - 1) IN
  /\ At(t, "out")
  /\ stack' = [stack EXCEPT ![c] = rest]
  /\ SetIrql(t, IF rest = <<>> THEN PASSIVE_LEVEL ELSE Level[rest[Len(rest)]])
  /\ UNCHANGED <<owner, prevIrql, saved, pc>>
-----------------------------------------------------------------------------
(***************************************************************************)
(* lock, try_lock and unlock                                               *)
(***************************************************************************)

\* Mutant: the lock is taken without raising the level.
RaiseNot(t, to) ==
  /\ At(t, "out")
  /\ saved' = [saved EXCEPT ![t] = irql[Home[t]]]
  /\ Goto(t, to)
  /\ UNCHANGED <<irql, stack, owner, prevIrql>>

\* The level is raised first, whether or not the lock is free.
Raise(t, to) ==
  /\ At(t, "out")
  /\ saved' = [saved EXCEPT ![t] = irql[Home[t]]]
  /\ SetIrql(t, kind.ceiling)
  /\ Goto(t, to)
  /\ UNCHANGED <<stack, owner, prevIrql>>

LockMixed(t) == Mixed /\ Raise(t, "spin")
TryLockMixed(t) == Mixed /\ Raise(t, "try")

LockDpc(t, to) ==
  /\ ~ Mixed /\ At(t, "out")
  /\ Goto(t, to)
  /\ UNCHANGED <<irql, stack, owner, prevIrql, saved>>

\* A spinning context, or a try_lock, finds the lock free.
Acquire(t) ==
  /\ At(t, "spin") \/ At(t, "try")
  /\ owner = Nobody
  /\ owner' = t
  /\ Goto(t, IF Mixed THEN "save" ELSE "held")
  /\ UNCHANGED <<irql, stack, prevIrql, saved>>

\* try_lock finds it taken: the level is lowered again.
TryLockFails(t) ==
  /\ At(t, "try") /\ owner # Nobody
  /\ irql' = IF Mixed THEN [irql EXCEPT ![Home[t]] = saved[t]] ELSE irql
  /\ Goto(t, "out")
  /\ UNCHANGED <<stack, owner, prevIrql, saved>>

\* m_prev_irql is written by the holder only.
SaveIrql(t) ==
  /\ At(t, "save")
  /\ prevIrql' = saved[t]
  /\ Goto(t, "held")
  /\ UNCHANGED <<irql, stack, owner, saved>>

\* unlock: m_prev_irql is read as an argument, before the lock is released.
ReadIrql(t) ==
  /\ Mixed /\ At(t, "held")
  /\ saved' = [saved EXCEPT ![t] = prevIrql]
  /\ Goto(t, "release")
  /\ UNCHANGED <<irql, stack, owner, prevIrql>>

Release(t) ==
  /\ At(t, "release")
  /\ owner' = Nobody
  /\ Goto(t, "lower")
  /\ UNCHANGED <<irql, stack, prevIrql, saved>>

\* Mutant: m_prev_irql is read when the lock has been released.
LowerReadsLate(t) ==
  /\ At(t, "lower")
  /\ SetIrql(t, prevIrql)
  /\ Goto(t, "out")
  /\ UNCHANGED <<stack, owner, prevIrql, saved>>

Lower(t) ==
  /\ At(t, "lower")
  /\ SetIrql(t, saved[t])
  /\ Goto(t, "out")
  /\ UNCHANGED <<stack, owner, prevIrql, saved>>

UnlockDpc(t) ==
  /\ ~ Mixed /\ At(t, "held")
  /\ owner' = Nobody
  /\ Goto(t, "out")
  /\ UNCHANGED <<irql, stack, prevIrql, saved>>
-----------------------------------------------------------------------------
SpinInit ==
  /\ irql = [c \in Cpus |-> PASSIVE_LEVEL]
  /\ stack = [c \in Cpus |-> <<>>]
  /\ owner = Nobody
  /\ prevIrql = PASSIVE_LEVEL
  /\ saved = [t \in Contexts |-> PASSIVE_LEVEL]
  /\ pc = [t \in Contexts |-> "out"]

Init == kind \in SpinLocks /\ SpinInit

LockStep(t) ==
  \/ LockMixed(t) \/ TryLockMixed(t)
  \/ LockDpc(t, "spin") \/ LockDpc(t, "try")
  \/ Acquire(t) \/ TryLockFails(t) \/ SaveIrql(t)

UnlockStep(t) == ReadIrql(t) \/ Release(t) \/ Lower(t) \/ UnlockDpc(t)

Next ==
  /\ \E t \in Contexts : Arrive(t) \/ Return(t) \/ LockStep(t) \/ UnlockStep(t)
  /\ UNCHANGED kind

Spec == Init /\ [][Next]_vars
-----------------------------------------------------------------------------
(***************************************************************************)
(* Properties                                                              *)
(***************************************************************************)

\* Whatever the levels of the other users of the lock, unlock() and a failed
\* try_lock() put a context back at the level it was at when it called
\* lock(): m_prev_irql, one field for all processors, is never another
\* context's level when it is read (spin_lock_policy<Mixed>).
IrqlRestored ==
  \A t \in Contexts : At(t, "out") => irql[Home[t]] = Level[t]

\* The holder of the lock is never interrupted by a context that may want the
\* lock too: it is the running context of its processor, so that no context
\* spins on the processor that the holder needs in order to unlock.
HolderRuns == owner # Nobody => Running(owner)

\* Both: the holder of spin_lock is not interrupted by a context that may want
\* it, and unlock() gives every context its level back.
SpinLocksSound == IrqlRestored /\ HolderRuns
=============================================================================
