------------------------------- MODULE Guards -------------------------------
(***************************************************************************)
(* The guards of mutex.hpp over the mutexes of mutex.cpp and               *)
(* push_lock.cpp: lock_guard, unique_lock, shared_lock and irql_guard, and *)
(* synchronized<Ty>, whose accesses are guards.  Every thread has a stack  *)
(* of guards, destroyed in the reverse order of their construction.        *)
(***************************************************************************)
EXTENDS Integers, Sequences, FiniteSets

CONSTANTS
  GThreads, GMutexes,
  Kind,           \* mutex -> "recursive", "fast", "shared", "push" or "queued"
  GuardSetups,    \* the sets of mutexes a program may use
  MaxGuards,      \* bound: guards of a thread
  MaxHeld         \* bound: acquisitions of a mutex by a thread

VARIABLES
  used,           \* the mutexes of the program
  excl, shrd,     \* thread, mutex -> how often the thread has acquired it
  region,         \* thread -> how often normal kernel APCs are disabled for it
  irql,           \* thread -> its IRQL
  guards,         \* thread -> the guards
  raw             \* history: thread, mutex -> acquisitions that no guard is responsible for

gvars == <<used, excl, shrd, region, irql, guards, raw>>

NoMutex == "nullptr"

ASSUME GuardAssumption == NoMutex \notin GMutexes /\ GuardSetups \subseteq SUBSET GMutexes

PASSIVE_LEVEL == 0
DISPATCH_LEVEL == 2

\* A guard: its type, its mutex, whether it owns the mutex, the IRQL it restores, the access it gives to a value.
Guard(type, m, owned) == [type |-> type, mtx |-> m, owned |-> owned, old |-> PASSIVE_LEVEL, access |-> "none"]

-----------------------------------------------------------------------------
(* The mutexes.  s has the variables of thread t; the thread waits while   *)
(* the guard of an operation is false.                                     *)

MayLock(t, m) ==
  /\ \A u \in GThreads \ {t} : excl[u][m] = 0 /\ shrd[u][m] = 0
  /\ Kind[m] \notin {"recursive", "shared"} => excl[t][m] = 0
  /\ shrd[t][m] = 0
MayLockShared(t, m) ==
  /\ Kind[m] \in {"shared", "push"}
  /\ \A u \in GThreads \ {t} : excl[u][m] = 0
  /\ Kind[m] = "push" => excl[t][m] + shrd[t][m] = 0

\* Only the queued spin lock may be taken at DISPATCH_LEVEL: every other mutex may wait.
AtItsLevel(t, m) == irql[t] = PASSIVE_LEVEL \/ Kind[m] = "queued"

State(t) ==
  [excl |-> excl[t], shrd |-> shrd[t], region |-> region[t], irql |-> irql[t], guards |-> guards[t], raw |-> raw[t]]
EntersRegion(m) == Kind[m] \in {"shared", "push"}

lock(s, m) ==
  [s EXCEPT !.excl[m] = @ + 1, !.region = IF EntersRegion(m) THEN @ + 1 ELSE @,
            !.irql = IF Kind[m] = "queued" THEN DISPATCH_LEVEL ELSE @]
\* A thread that has the resource exclusively gets it once more when it asks for shared access.
lock_shared(s, m) ==
  [s EXCEPT !.excl[m] = IF s.excl[m] > 0 THEN @ + 1 ELSE @, !.shrd[m] = IF s.excl[m] > 0 THEN @ ELSE @ + 1, !.region = @ + 1]
\* The kernel releases a resource, and a push lock, as the thread has it.
unlock(s, m) ==
  [s EXCEPT !.excl[m] = IF s.excl[m] > 0 THEN @ - 1 ELSE @, !.shrd[m] = IF s.excl[m] > 0 THEN @ ELSE @ - 1,
            !.region = IF EntersRegion(m) THEN @ - 1 ELSE @]

-----------------------------------------------------------------------------
(* The guards.                                                             *)

Pushed(s, g) == [s EXCEPT !.guards = Append(@, g)]

\* The owner handle of a queued spin lock has the IRQL to return to.
construct_lock_guard(s, m, access) == Pushed(lock(s, m), [Guard("lock_guard", m, TRUE) EXCEPT !.old = s.irql, !.access = access])
construct_unique_lock(s, m, tag) ==
  CASE tag = "lock" -> Pushed(lock(s, m), Guard("unique_lock", m, TRUE))
    [] tag = "adopt_lock" -> [Pushed(s, Guard("unique_lock", m, TRUE)) EXCEPT !.raw[m] = @ - 1]
    [] tag = "defer_lock" -> Pushed(s, Guard("unique_lock", m, FALSE))
construct_shared_lock(s, m, tag, access) ==
  LET g == [Guard("shared_lock", m, tag # "defer_lock") EXCEPT !.access = access]
  IN CASE tag = "lock" -> Pushed(lock_shared(s, m), g)
       [] tag = "adopt_lock" -> [Pushed(s, g) EXCEPT !.raw[m] = @ - 1]
       [] tag = "defer_lock" -> Pushed(s, g)
construct_irql_guard(s) == [Pushed(s, [Guard("irql_guard", NoMutex, FALSE) EXCEPT !.old = s.irql]) EXCEPT !.irql = DISPATCH_LEVEL]

unlock_guard(s, i) == [unlock(s, s.guards[i].mtx) EXCEPT !.guards[i].owned = FALSE]
lock_of_guard(s, i) == [lock(s, s.guards[i].mtx) EXCEPT !.guards[i].owned = TRUE]
reset_if_needed(s, i) == IF s.guards[i].owned THEN unlock_guard(s, i) ELSE s

\* Mutant: what the target owned is not unlocked.
MoveAssignLeaks(s, i, j) ==
  LET from == s.guards[j]
  IN [s EXCEPT !.guards[j].mtx = NoMutex, !.guards[j].owned = FALSE, !.guards[i].mtx = from.mtx, !.guards[i].owned = from.owned]

\* exchange() empties the source before the target is assigned, also if they are one guard.
move_construct_from(s, i, j) ==
  LET from == s.guards[j]
      emptied == [s EXCEPT !.guards[j] = [from EXCEPT !.mtx = NoMutex, !.owned = FALSE]]
  IN [emptied EXCEPT !.guards[i] = [@ EXCEPT !.mtx = from.mtx, !.owned = from.owned]]
move_assign(s, i, j) == move_construct_from(reset_if_needed(s, i), i, j)
move_construct(s, j) == move_construct_from(Pushed(s, Guard(s.guards[j].type, NoMutex, FALSE)), Len(s.guards) + 1, j)

release(s, i) ==
  LET g == s.guards[i]
  IN [s EXCEPT !.guards[i] = [g EXCEPT !.mtx = NoMutex, !.owned = FALSE],
               !.raw = IF g.owned THEN [s.raw EXCEPT ![g.mtx] = @ + 1] ELSE s.raw]

destroy(s) ==
  LET last == s.guards[Len(s.guards)]
      done == CASE last.type = "lock_guard" -> [unlock(s, last.mtx) EXCEPT !.irql = IF Kind[last.mtx] = "queued" THEN last.old ELSE @]
                [] last.type = "irql_guard" -> [s EXCEPT !.irql = last.old]
                [] last.type \in {"unique_lock", "shared_lock"} -> reset_if_needed(s, Len(s.guards))
  IN [done EXCEPT !.guards = SubSeq(@, 1, Len(@) - 1)]

-----------------------------------------------------------------------------
(* The steps of a thread.                                                  *)

Becomes(t, s) ==
  /\ excl' = [excl EXCEPT ![t] = s.excl] /\ shrd' = [shrd EXCEPT ![t] = s.shrd] /\ region' = [region EXCEPT ![t] = s.region]
  /\ used' = used /\ irql' = [irql EXCEPT ![t] = s.irql] /\ guards' = [guards EXCEPT ![t] = s.guards] /\ raw' = [raw EXCEPT ![t] = s.raw]

\* synchronized has a recursive_mutex and lock_guards, synchronized_shared a shared_mutex and shared_locks for reading.
WithLockGuard(m) == CASE Kind[m] = "recursive" -> {"read", "write"} [] Kind[m] = "shared" -> {"write"} [] OTHER -> {}
WithSharedLock(m) == IF Kind[m] = "shared" THEN {"read"} ELSE {}

Room(t) == Len(guards[t]) < MaxGuards
Few(t, m) == excl[t][m] + shrd[t][m] < MaxHeld
Adopts(t, m, shared) == raw[t][m] > 0 /\ (IF shared THEN shrd[t][m] > 0 ELSE excl[t][m] > 0)

GuardInit ==
  /\ used \in GuardSetups
  /\ excl = [t \in GThreads |-> [m \in GMutexes |-> 0]] /\ shrd = excl /\ raw = excl
  /\ region = [t \in GThreads |-> 0] /\ irql = [t \in GThreads |-> PASSIVE_LEVEL] /\ guards = [t \in GThreads |-> <<>>]

LockByHand(t, m) ==
  /\ Kind[m] # "queued" /\ Few(t, m) /\ AtItsLevel(t, m)
  /\ \/ MayLock(t, m) /\ Becomes(t, [lock(State(t), m) EXCEPT !.raw[m] = @ + 1])
     \/ MayLockShared(t, m) /\ Becomes(t, [lock_shared(State(t), m) EXCEPT !.raw[m] = @ + 1])
UnlockByHand(t, m) == raw[t][m] > 0 /\ Becomes(t, [unlock(State(t), m) EXCEPT !.raw[m] = @ - 1])

LockGuard(t, m) ==
  /\ Room(t) /\ Few(t, m) /\ AtItsLevel(t, m) /\ MayLock(t, m)
  /\ \E access \in {"none"} \union WithLockGuard(m) : Becomes(t, construct_lock_guard(State(t), m, access))
UniqueLock(t, m, tag) ==
  /\ Room(t) /\ Kind[m] # "queued"
  /\ tag = "lock" => Few(t, m) /\ AtItsLevel(t, m) /\ MayLock(t, m)
  /\ tag = "adopt_lock" => Adopts(t, m, FALSE)
  /\ Becomes(t, construct_unique_lock(State(t), m, tag))
SharedLock(t, m, tag) ==
  /\ Room(t) /\ Kind[m] \in {"shared", "push"}
  /\ tag = "lock" => Few(t, m) /\ AtItsLevel(t, m) /\ MayLockShared(t, m)
  /\ tag = "adopt_lock" => Adopts(t, m, TRUE)
  /\ \E access \in {"none"} \union (IF tag = "lock" THEN WithSharedLock(m) ELSE {}) :
       Becomes(t, construct_shared_lock(State(t), m, tag, access))
IrqlGuard(t) == Room(t) /\ Becomes(t, construct_irql_guard(State(t)))

Movable(t, i) == guards[t][i].type \in {"unique_lock", "shared_lock"} /\ guards[t][i].access = "none"
MoveConstruct(t, i) == Room(t) /\ Movable(t, i) /\ Becomes(t, move_construct(State(t), i))
MoveAssign(t, i, j) ==
  /\ Movable(t, i) /\ Movable(t, j) /\ guards[t][i].type = guards[t][j].type
  /\ Becomes(t, move_assign(State(t), i, j))
LockOfGuard(t, i) ==
  LET g == guards[t][i]
  IN /\ g.type = "unique_lock" /\ ~g.owned /\ g.mtx # NoMutex
     /\ Few(t, g.mtx) /\ AtItsLevel(t, g.mtx) /\ MayLock(t, g.mtx)
     /\ Becomes(t, lock_of_guard(State(t), i))
UnlockOfGuard(t, i) == guards[t][i].type = "unique_lock" /\ guards[t][i].owned /\ Becomes(t, unlock_guard(State(t), i))
ReleaseGuard(t, i) == Movable(t, i) /\ Becomes(t, release(State(t), i))
Destroy(t) == guards[t] # <<>> /\ Becomes(t, destroy(State(t)))

GuardNext ==
  \E t \in GThreads :
    \/ \E m \in used : LockByHand(t, m) \/ UnlockByHand(t, m) \/ LockGuard(t, m)
    \/ \E m \in used, tag \in {"lock", "adopt_lock", "defer_lock"} : UniqueLock(t, m, tag) \/ SharedLock(t, m, tag)
    \/ \E i \in DOMAIN guards[t] : MoveConstruct(t, i) \/ LockOfGuard(t, i) \/ UnlockOfGuard(t, i) \/ ReleaseGuard(t, i)
    \/ \E i, j \in DOMAIN guards[t] : MoveAssign(t, i, j)
    \/ IrqlGuard(t) \/ Destroy(t)
GuardSpec == GuardInit /\ [][GuardNext]_gvars

-----------------------------------------------------------------------------
Responsible(t, m) == {i \in DOMAIN guards[t] : guards[t][i].owned /\ guards[t][i].mtx = m}
Raises(g) == g.type = "irql_guard" \/ (g.type = "lock_guard" /\ Kind[g.mtx] = "queued")
\* The acquisitions of resources and push locks, numbered for each of them.
Inside(t) == UNION {{m} \X (1..(excl[t][m] + shrd[t][m])) : m \in {m \in GMutexes : EntersRegion(m)}}

\* However guards are moved, locked, released and destroyed: every acquisition of a mutex is one guard's to undo, or was made
\* or taken over by hand; APCs stay disabled as long as a resource or a push lock is held and no longer; the thread is at
\* DISPATCH_LEVEL exactly while a guard wants it there.  Nobody has access to a synchronized value while another thread may
\* write it.
GuardsExact ==
  \A t \in GThreads :
    /\ \A m \in GMutexes : excl[t][m] + shrd[t][m] = raw[t][m] + Cardinality(Responsible(t, m))
    /\ region[t] = Cardinality(Inside(t))
    /\ irql[t] = DISPATCH_LEVEL <=> \E i \in DOMAIN guards[t] : Raises(guards[t][i])
    /\ \A u \in GThreads \ {t} : \A i \in DOMAIN guards[t], j \in DOMAIN guards[u] :
         guards[t][i].access = "write" /\ guards[t][i].mtx = guards[u][j].mtx => guards[u][j].access = "none"
=============================================================================
