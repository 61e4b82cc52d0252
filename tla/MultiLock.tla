------------------------------ MODULE MultiLock ------------------------------
(***************************************************************************)
(* ktl::lock and ktl::scoped_lock (src/include/mutex.hpp): deadlock-free   *)
(* acquisition of several mutexes by any number of threads, each of which  *)
(* names the mutexes in an order of its own.                               *)
(*                                                                         *)
(* A call locks one mutex with a blocking lock(), tries the others with    *)
(* try_lock(), and on the first failure unlocks everything and starts over *)
(* with a blocking lock() of the mutex that failed.  Every lock(),         *)
(* try_lock() and unlock() of a mutex is one step.                         *)
(*                                                                         *)
(* lock_impl has an overload for two mutexes and one for three or more.    *)
(* On two mutexes the general one makes the same calls in the same order   *)
(* as the small one (lock the first and try the second, then the other way *)
(* round; the yield between attempts has no effect on the state), so one   *)
(* set of actions stands for both.  A one-element call is scoped_lock<Mtx>.*)
(***************************************************************************)
EXTENDS Integers

CONSTANTS
  Threads,   \* the callers
  Mutexes,   \* the mutexes (non-recursive)
  Calls,     \* argument lists: injective functions from 0..n-1 to Mutexes
  MaxArity,  \* length of the longest argument list
  NoThread   \* owner of a free mutex

ASSUME MultiLockAssumption ==
  /\ NoThread \notin Threads
  /\ MaxArity \in Nat
  /\ \A c \in Calls : \E n \in 1..MaxArity :
       /\ c \in [0..n-1 -> Mutexes]
       /\ \A i, j \in 0..n-1 : c[i] = c[j] => i = j

VARIABLES
  owner,    \* owner[m]: the thread that holds mutex m
  pc,       \* where each thread is in the call
  args,     \* the mutexes of the call, in the caller's order
  prev,     \* index of the mutex taken with a blocking lock()
  current,  \* loop variable of try_lock_range
  inner,    \* indices still to unlock by try_lock_range
  outer,    \* indices still to unlock by lock_attempt (or the destructor)
  retry     \* index to start over with; -1 to leave the call

vars == <<owner, pc, args, prev, current, inner, outer, retry>>

Locations == {"idle", "lock", "try_low", "try_high", "unlock", "locked"}

Indices(t) == DOMAIN args[t]

Goto(t, loc) == pc' = [pc EXCEPT ![t] = loc]

IsFirst(i, S) == i \in S /\ \A j \in S : i <= j

-----------------------------------------------------------------------------
(***************************************************************************)
(* Actions                                                                 *)
(***************************************************************************)

\* The constructor of scoped_lock, or a direct call of ktl::lock.
Call(t, c) ==
  /\ pc[t] = "idle"
  /\ args' = [args EXCEPT ![t] = c]
  /\ prev' = [prev EXCEPT ![t] = 0]
  /\ retry' = [retry EXCEPT ![t] = -1]
  /\ Goto(t, "lock")
  /\ UNCHANGED <<owner, current, inner, outer>>

\* lock_target_from_locks(prev): a blocking lock().
LockTarget(t) ==
  /\ pc[t] = "lock"
  /\ owner[args[t][prev[t]]] = NoThread
  /\ owner' = [owner EXCEPT ![args[t][prev[t]]] = t]
  /\ current' = [current EXCEPT ![t] = 0]
  /\ Goto(t, "try_low")
  /\ UNCHANGED <<args, prev, inner, outer, retry>>

\* The blocking lock() throws: nothing is held and the call is left.
LockTargetThrows(t) ==
  /\ pc[t] = "lock"
  /\ Goto(t, "idle")
  /\ UNCHANGED <<owner, args, prev, current, inner, outer, retry>>

\* Mutant: lock_attempt unlocks [rollback_start, prev) and keeps prev locked.
RollbackKeepsPrev(t, after) ==
  /\ inner' = [inner EXCEPT ![t] = IF pc[t] = "try_low"
                                   THEN 0..current[t]-1
                                   ELSE prev[t]+1..current[t]-1]
  /\ outer' = [outer EXCEPT ![t] = IF pc[t] = "try_low" THEN {} ELSE 0..prev[t]-1]
  /\ retry' = [retry EXCEPT ![t] = after]
  /\ Goto(t, "unlock")

\* Mutant: try_lock_range unlocks [first, current], the failed mutex included.
RollbackUnlocksFailed(t, after) ==
  /\ inner' = [inner EXCEPT ![t] = IF pc[t] = "try_low"
                                   THEN 0..current[t]
                                   ELSE prev[t]+1..current[t]]
  /\ outer' = [outer EXCEPT ![t] = IF pc[t] = "try_low" THEN {prev[t]} ELSE 0..prev[t]]
  /\ retry' = [retry EXCEPT ![t] = after]
  /\ Goto(t, "unlock")

\* The rest of lock_attempt after a try_lock() of index current that did not
\* succeed: try_lock_range unlocks [first, current) and lock_attempt unlocks
\* [rollback_start, prev]; `after` is the index to retry, or -1 on a throw.
Rollback(t, after) ==
  /\ inner' = [inner EXCEPT ![t] = IF pc[t] = "try_low"
                                   THEN 0..current[t]-1
                                   ELSE prev[t]+1..current[t]-1]
  /\ outer' = [outer EXCEPT ![t] = IF pc[t] = "try_low"
                                   THEN {prev[t]}
                                   ELSE 0..prev[t]]
  /\ retry' = [retry EXCEPT ![t] = after]
  /\ Goto(t, "unlock")

\* try_lock() of index current succeeds.
TryLockSucceeds(t) ==
  /\ \/ pc[t] = "try_low"  /\ current[t] < prev[t]
     \/ pc[t] = "try_high" /\ current[t] \in Indices(t)
  /\ owner[args[t][current[t]]] = NoThread
  /\ owner' = [owner EXCEPT ![args[t][current[t]]] = t]
  /\ current' = [current EXCEPT ![t] = @ + 1]
  /\ UNCHANGED <<pc, args, prev, inner, outer, retry>>

\* try_lock() of index current fails.
TryLockFails(t) ==
  /\ \/ pc[t] = "try_low"  /\ current[t] < prev[t]
     \/ pc[t] = "try_high" /\ current[t] \in Indices(t)
  /\ owner[args[t][current[t]]] # NoThread
  /\ Rollback(t, current[t])
  /\ UNCHANGED <<owner, args, prev, current>>

\* try_lock() throws: both catch blocks unlock and rethrow.
TryLockThrows(t) ==
  /\ \/ pc[t] = "try_low"  /\ current[t] < prev[t]
     \/ pc[t] = "try_high" /\ current[t] \in Indices(t)
  /\ Rollback(t, -1)
  /\ UNCHANGED <<owner, args, prev, current>>

\* try_lock_range(0, prev) has locked everything below prev.
LowRangeDone(t) ==
  /\ pc[t] = "try_low" /\ current[t] = prev[t]
  /\ current' = [current EXCEPT ![t] = prev[t] + 1]
  /\ Goto(t, "try_high")
  /\ UNCHANGED <<owner, args, prev, inner, outer, retry>>

\* Mutant: the loop of try_lock_range stops one mutex early.
HighRangeDoneEarly(t) ==
  /\ pc[t] = "try_high" /\ current[t] + 1 \notin Indices(t)
  /\ Goto(t, "locked")
  /\ UNCHANGED <<owner, args, prev, current, inner, outer, retry>>

\* try_lock_range(prev + 1, n) has locked everything above prev.
HighRangeDone(t) ==
  /\ pc[t] = "try_high" /\ current[t] \notin Indices(t)
  /\ Goto(t, "locked")
  /\ UNCHANGED <<owner, args, prev, current, inner, outer, retry>>

\* One unlock() of unlock_locks, in ascending order of index.
UnlockInner(t, i) ==
  /\ pc[t] = "unlock" /\ IsFirst(i, inner[t])
  /\ owner' = [owner EXCEPT ![args[t][i]] = NoThread]
  /\ inner' = [inner EXCEPT ![t] = @ \ {i}]
  /\ UNCHANGED <<pc, args, prev, current, outer, retry>>

UnlockOuter(t, i) ==
  /\ pc[t] = "unlock" /\ inner[t] = {} /\ IsFirst(i, outer[t])
  /\ owner' = [owner EXCEPT ![args[t][i]] = NoThread]
  /\ outer' = [outer EXCEPT ![t] = @ \ {i}]
  /\ UNCHANGED <<pc, args, prev, current, inner, retry>>

\* lock_attempt returns the failed index to the loop of lock_impl, or the
\* exception (or the destructor) leaves.
UnlockDone(t) ==
  /\ pc[t] = "unlock" /\ inner[t] = {} /\ outer[t] = {}
  /\ IF retry[t] = -1
     THEN Goto(t, "idle") /\ UNCHANGED prev
     ELSE Goto(t, "lock") /\ prev' = [prev EXCEPT ![t] = retry[t]]
  /\ UNCHANGED <<owner, args, current, inner, outer, retry>>

\* ~scoped_lock: unlocks the mutexes in argument order.
Release(t) ==
  /\ pc[t] = "locked"
  /\ outer' = [outer EXCEPT ![t] = Indices(t)]
  /\ retry' = [retry EXCEPT ![t] = -1]
  /\ Goto(t, "unlock")
  /\ UNCHANGED <<owner, args, prev, current, inner>>
-----------------------------------------------------------------------------
Init ==
  /\ owner = [m \in Mutexes |-> NoThread]
  /\ pc = [t \in Threads |-> "idle"]
  /\ args \in [Threads -> Calls]
  /\ prev = [t \in Threads |-> 0]
  /\ current = [t \in Threads |-> 0]
  /\ inner = [t \in Threads |-> {}]
  /\ outer = [t \in Threads |-> {}]
  /\ retry = [t \in Threads |-> -1]

Attempt(t) ==
  \/ LockTarget(t) \/ LockTargetThrows(t)
  \/ TryLockSucceeds(t) \/ TryLockFails(t) \/ TryLockThrows(t)
  \/ LowRangeDone(t) \/ HighRangeDone(t)
  \/ \E i \in Indices(t) : UnlockInner(t, i) \/ UnlockOuter(t, i)
  \/ UnlockDone(t)

Next ==
  \E t \in Threads :
    \/ \E c \in Calls : Call(t, c)
    \/ Attempt(t)
    \/ Release(t)

Spec == Init /\ [][Next]_vars
-----------------------------------------------------------------------------
(***************************************************************************)
(* Properties                                                              *)
(***************************************************************************)

\* The loop variables of a thread stay inside its argument list.
LocalOK(t) ==
  /\ prev[t] \in Indices(t)
  /\ pc[t] = "try_low" => current[t] <= prev[t]
  /\ pc[t] = "try_high" => prev[t] < current[t] /\ current[t] - 1 \in Indices(t)
  /\ inner[t] \subseteq Indices(t) /\ outer[t] \subseteq Indices(t)
  /\ inner[t] \intersect outer[t] = {}
  /\ pc[t] # "unlock" => inner[t] = {} /\ outer[t] = {}
  /\ retry[t] # -1 => retry[t] \in Indices(t)

\* Every variable has its type, and every index used by the loops of
\* lock_attempt and try_lock_range lies inside the argument list.
TypeOK ==
  /\ owner \in [Mutexes -> Threads \union {NoThread}]
  /\ pc \in [Threads -> Locations]
  /\ args \in [Threads -> Calls]
  /\ prev \in [Threads -> Nat] /\ current \in [Threads -> Nat]
  /\ inner \in [Threads -> SUBSET Nat] /\ outer \in [Threads -> SUBSET Nat]
  /\ retry \in [Threads -> Int]
  /\ \A t \in Threads : LocalOK(t)

\* The thread should hold the mutex of its index i at its control point: the
\* ranges that lock_attempt and try_lock_range have covered so far.
Holds(t, i) ==
  \/ pc[t] = "try_low"  /\ (i < current[t] \/ i = prev[t])
  \/ pc[t] = "try_high" /\ i < current[t]
  \/ pc[t] = "locked"
  \/ pc[t] = "unlock"   /\ i \in inner[t] \union outer[t]

ThreadOwns(t) ==
  \A m \in Mutexes :
    owner[m] = t <=> \E i \in Indices(t) : Holds(t, i) /\ args[t][i] = m

\* What each thread owns is exactly what its control point says: no mutex is
\* forgotten by a rollback and none is unlocked that is not held.
OwnsHeld == \A t \in Threads : ThreadOwns(t)

\* lock() returns with all its mutexes held, and a call that threw, or the
\* destructor of scoped_lock, leaves none of them locked.
AllOrNothing ==
  \A t \in Threads :
    /\ pc[t] = "locked" => \A i \in Indices(t) : owner[args[t][i]] = t
    /\ pc[t] = "idle" => \A m \in Mutexes : owner[m] # t

\* A thread blocked in lock() owns nothing, so no cycle of waiting threads can
\* form whatever the argument orders are.
NoHoldAndWait ==
  \A m \in Mutexes : owner[m] # NoThread => pc[owner[m]] # "lock"

\* A mutex changes hands only through a release by its owner, and the owner
\* releases it only while rolling back or in the destructor.
ReleasedByOwnerOnly ==
  [][\A m \in Mutexes :
       (owner[m] # NoThread /\ owner'[m] # owner[m]) =>
         owner'[m] = NoThread /\ pc[owner[m]] = "unlock"]_vars
=============================================================================
