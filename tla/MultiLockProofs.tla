-------------------------- MODULE MultiLockProofs --------------------------
(***************************************************************************)
(* Proofs about ktl::lock for any threads, mutexes and argument lists.     *)
(*                                                                         *)
(* The inductive invariant is TypeOK /\ OwnsHeld: the index ranges that    *)
(* the control point of a thread stands for are the mutexes it owns.       *)
(***************************************************************************)
EXTENDS MultiLock, TLAPS

IInv == TypeOK /\ OwnsHeld

\* An argument list is an injective function on an initial segment of Nat.
LEMMA CallShape ==
  ASSUME NEW c \in Calls
  PROVE  \E n \in Nat \ {0} : /\ DOMAIN c = 0..n-1
                              /\ \A i \in 0..n-1 : c[i] \in Mutexes
                              /\ \A i, j \in 0..n-1 : c[i] = c[j] => i = j
BY MultiLockAssumption

\* Init establishes the invariant: no mutex is owned, every thread is idle.
LEMMA InitInv == Init => IInv
<1> SUFFICES ASSUME Init PROVE IInv
  OBVIOUS
<1>1. \A t \in Threads : args[t] \in Calls /\ 0 \in Indices(t)
  <2> TAKE t \in Threads
  <2>1. args[t] \in Calls
    BY DEF Init
  <2> QED
    BY <2>1, CallShape DEF Indices
<1>2. TypeOK
  BY <1>1, MultiLockAssumption DEF Init, TypeOK, LocalOK, Locations
<1>3. OwnsHeld
  BY MultiLockAssumption DEF Init, OwnsHeld, ThreadOwns, Holds
<1> QED
  BY <1>2, <1>3 DEF IInv

\* What Rollback hands to unlock_locks.
LEMMA RollbackTypes ==
  ASSUME TypeOK, NEW t \in Threads, NEW after \in Int, Rollback(t, after)
  PROVE  /\ inner' \in [Threads -> SUBSET Nat] /\ outer' \in [Threads -> SUBSET Nat]
         /\ retry' \in [Threads -> Int] /\ pc' \in [Threads -> Locations]
<1>1. prev[t] \in Nat /\ current[t] \in Nat
  BY DEF TypeOK
<1>2. /\ 0..current[t]-1 \in SUBSET Nat /\ prev[t]+1..current[t]-1 \in SUBSET Nat
      /\ {prev[t]} \in SUBSET Nat /\ 0..prev[t] \in SUBSET Nat
  BY <1>1
<1>3. inner' \in [Threads -> SUBSET Nat]
  BY <1>2 DEF TypeOK, Rollback
<1>4. outer' \in [Threads -> SUBSET Nat]
  BY <1>2 DEF TypeOK, Rollback
<1>5. retry' \in [Threads -> Int] /\ pc' \in [Threads -> Locations]
  BY DEF TypeOK, Rollback, Goto, Locations
<1> QED
  BY <1>3, <1>4, <1>5

\* The two ranges of a rollback lie in the argument list and do not overlap.
LEMMA RollbackLocal ==
  ASSUME TypeOK, NEW t \in Threads, NEW after \in Indices(t) \union {-1},
         Rollback(t, after), UNCHANGED <<args, prev, current>>,
         NEW n \in Nat \ {0}, Indices(t) = 0..n-1,
         \/ pc[t] = "try_low"  /\ current[t] < prev[t]
         \/ pc[t] = "try_high" /\ current[t] \in Indices(t)
  PROVE  LocalOK(t)'
<1>1. /\ prev[t] \in 0..n-1 /\ current[t] \in 0..n-1
      /\ pc[t] = "try_low" \/ prev[t] < current[t]
  BY DEF TypeOK, LocalOK
<1>2. /\ inner'[t] = IF pc[t] = "try_low" THEN 0..current[t]-1
                                          ELSE prev[t]+1..current[t]-1
      /\ outer'[t] = IF pc[t] = "try_low" THEN {prev[t]} ELSE 0..prev[t]
      /\ retry'[t] = after /\ pc'[t] = "unlock"
  BY DEF TypeOK, Rollback, Goto
<1>3. inner'[t] \subseteq 0..n-1 /\ outer'[t] \subseteq 0..n-1
  <2>1. /\ 0..current[t]-1 \subseteq 0..n-1 /\ {prev[t]} \subseteq 0..n-1
        /\ prev[t]+1..current[t]-1 \subseteq 0..n-1 /\ 0..prev[t] \subseteq 0..n-1
    BY <1>1
  <2> QED
    BY <1>2, <2>1, Zenon
<1>4. inner'[t] \intersect outer'[t] = {}
  <2>1. CASE pc[t] = "try_low"
    BY <1>1, <1>2, <2>1
  <2>2. CASE pc[t] # "try_low"
    BY <1>1, <1>2, <2>2
  <2> QED
    BY <2>1, <2>2
<1> QED
  BY <1>1, <1>2, <1>3, <1>4 DEF LocalOK, Indices

\* Every step keeps the types and keeps the loop indices inside the argument
\* list.
LEMMA TypeStep == TypeOK /\ [Next]_vars => TypeOK'
<1> SUFFICES ASSUME TypeOK, [Next]_vars PROVE TypeOK'
  OBVIOUS
<1> USE MultiLockAssumption DEF TypeOK, LocalOK, Locations, Indices, Goto
<1>0. \A t \in Threads : \E n \in Nat \ {0} : DOMAIN args[t] = 0..n-1
  BY CallShape
<1>1. ASSUME NEW t \in Threads, NEW c \in Calls, Call(t, c) PROVE TypeOK'
  <2>1. 0 \in DOMAIN c
    BY CallShape
  <2> QED
    BY <1>1, <2>1 DEF Call
<1>2. ASSUME NEW t \in Threads, LockTarget(t) PROVE TypeOK'
  BY <1>0, <1>2 DEF LockTarget
<1>3. ASSUME NEW t \in Threads, LockTargetThrows(t) PROVE TypeOK'
  BY <1>0, <1>3, Zenon DEF LockTargetThrows
<1>4. ASSUME NEW t \in Threads, TryLockSucceeds(t) PROVE TypeOK'
  <2>1. /\ owner' \in [Mutexes -> Threads \union {NoThread}]
        /\ current' \in [Threads -> Nat]
    BY <1>4 DEF TryLockSucceeds
  <2>2. LocalOK(t)'
    <3> PICK n \in Nat \ {0} : DOMAIN args[t] = 0..n-1
      BY <1>0
    <3> QED
      BY <1>4 DEF TryLockSucceeds
  <2>3. ASSUME NEW u \in Threads, u # t PROVE LocalOK(u)'
    BY <1>4, <2>3, Zenon DEF TryLockSucceeds
  <2> QED
    BY <1>4, <2>1, <2>2, <2>3, Zenon DEF TryLockSucceeds
<1>5. ASSUME NEW t \in Threads, TryLockFails(t) PROVE TypeOK'
  <2>1. Rollback(t, current[t]) /\ current[t] \in Int /\ UNCHANGED <<owner, args, prev, current>>
    BY <1>5 DEF TryLockFails
  <2>2. LocalOK(t)'
    <3> PICK n \in Nat \ {0} : Indices(t) = 0..n-1
      BY <1>0
    <3>1. /\ current[t] \in Indices(t) \union {-1}
          /\ \/ pc[t] = "try_low"  /\ current[t] < prev[t]
             \/ pc[t] = "try_high" /\ current[t] \in Indices(t)
      BY <1>5 DEF TryLockFails
    <3> HIDE DEF TypeOK, LocalOK, Indices
    <3> QED
      BY <2>1, <3>1, RollbackLocal
  <2>3. ASSUME NEW u \in Threads, u # t PROVE LocalOK(u)'
    BY <2>1, <2>3 DEF Rollback
  <2> HIDE DEF LocalOK
  <2> QED
    BY <2>1, <2>2, <2>3, RollbackTypes
<1>6. ASSUME NEW t \in Threads, TryLockThrows(t) PROVE TypeOK'
  <2>1. Rollback(t, -1) /\ -1 \in Int /\ UNCHANGED <<owner, args, prev, current>>
    BY <1>6 DEF TryLockThrows
  <2>2. LocalOK(t)'
    <3> PICK n \in Nat \ {0} : Indices(t) = 0..n-1
      BY <1>0
    <3>1. /\ -1 \in Indices(t) \union {-1}
          /\ \/ pc[t] = "try_low"  /\ current[t] < prev[t]
             \/ pc[t] = "try_high" /\ current[t] \in Indices(t)
      BY <1>6 DEF TryLockThrows
    <3> HIDE DEF TypeOK, LocalOK, Indices
    <3> QED
      BY <2>1, <3>1, RollbackLocal
  <2>3. ASSUME NEW u \in Threads, u # t PROVE LocalOK(u)'
    BY <2>1, <2>3 DEF Rollback
  <2> HIDE DEF LocalOK
  <2> QED
    BY <2>1, <2>2, <2>3, RollbackTypes, Zenon
<1>7. ASSUME NEW t \in Threads, LowRangeDone(t) PROVE TypeOK'
  <2>1. LocalOK(t)'
    <3> PICK n \in Nat \ {0} : DOMAIN args[t] = 0..n-1
      BY <1>0
    <3>1. /\ current'[t] - 1 = prev[t] /\ prev[t] < current'[t]
          /\ pc'[t] = "try_high"
      BY <1>7 DEF LowRangeDone
    <3>2. /\ args' = args /\ prev' = prev /\ inner' = inner /\ outer' = outer
          /\ retry' = retry /\ inner[t] = {} /\ outer[t] = {}
      BY <1>7, Zenon DEF LowRangeDone
    <3> QED
      BY <3>1, <3>2
  <2>2. ASSUME NEW u \in Threads, u # t PROVE LocalOK(u)'
    BY <1>7, <2>2 DEF LowRangeDone
  <2> QED
    BY <1>7, <2>1, <2>2 DEF LowRangeDone
<1>8. ASSUME NEW t \in Threads, HighRangeDone(t) PROVE TypeOK'
  BY <1>0, <1>8, Zenon DEF HighRangeDone
<1>9. ASSUME NEW t \in Threads, NEW i \in Indices(t), UnlockInner(t, i)
      PROVE  TypeOK'
  BY <1>0, <1>9, Zenon DEF UnlockInner, IsFirst
<1>10. ASSUME NEW t \in Threads, NEW i \in Indices(t), UnlockOuter(t, i)
       PROVE  TypeOK'
  BY <1>0, <1>10, Zenon DEF UnlockOuter, IsFirst
<1>11. ASSUME NEW t \in Threads, UnlockDone(t) PROVE TypeOK'
  <2>1. CASE retry[t] = -1
    BY <1>0, <1>11, <2>1, ZenonT(60) DEF UnlockDone
  <2>2. CASE retry[t] # -1
    <3>1. retry[t] \in Nat
      BY <1>0, <2>2
    <3> QED
      <4>1. /\ prev' = [prev EXCEPT ![t] = retry[t]] /\ retry[t] \in Indices(t)
            /\ pc' = [pc EXCEPT ![t] = "lock"] /\ inner[t] = {} /\ outer[t] = {}
            /\ UNCHANGED <<owner, args, current, inner, outer, retry>>
        BY <1>11, <2>2 DEF UnlockDone
      <4>2. prev' \in [Threads -> Nat] /\ pc' \in [Threads -> Locations]
        BY <3>1, <4>1
      <4>3. LocalOK(t)'
        BY <4>1
      <4>4. ASSUME NEW u \in Threads, u # t PROVE LocalOK(u)'
        BY <4>1, <4>4
      <4> HIDE DEF LocalOK
      <4> QED
        BY <4>1, <4>2, <4>3, <4>4
  <2> QED
    BY <2>1, <2>2, Zenon
<1>12. ASSUME NEW t \in Threads, Release(t) PROVE TypeOK'
  BY <1>0, <1>12 DEF Release
<1>13. CASE UNCHANGED vars
  BY <1>13 DEF vars
<1> QED
  BY <1>1, <1>2, <1>3, <1>4, <1>5, <1>6, <1>7, <1>8, <1>9, <1>10, <1>11,
     <1>12, <1>13, ZenonT(60) DEF Next, Attempt

\* What the thread's part of the invariant depends on, besides owner.
LocalState(t) == <<args[t], pc[t], prev[t], current[t], inner[t], outer[t]>>

\* The argument list of a call, as the ownership argument needs it.
LEMMA ArgsShape ==
  ASSUME TypeOK, NEW t \in Threads
  PROVE  /\ \A i \in Indices(t) : i \in Nat /\ args[t][i] \in Mutexes
         /\ \A i, j \in Indices(t) : args[t][i] = args[t][j] => i = j
BY CallShape DEF TypeOK, Indices

\* A step of t that takes a free mutex or frees one of its own leaves what the
\* other threads own as it is.
LEMMA OthersKeep ==
  ASSUME OwnsHeld, NEW t \in Threads, NEW u \in Threads \ {t},
         LocalState(u)' = LocalState(u),
         \A m \in Mutexes : \/ owner'[m] = owner[m]
                            \/ owner[m] \in {t, NoThread} /\ owner'[m] \in {t, NoThread}
  PROVE  ThreadOwns(u)'
<1>1. ThreadOwns(u) /\ u # NoThread
  BY MultiLockAssumption DEF OwnsHeld
<1>2. \A m \in Mutexes : owner'[m] = u <=> owner[m] = u
  BY <1>1
<1>3. Indices(u)' = Indices(u) /\ args'[u] = args[u]
  BY DEF LocalState, Indices
<1>4. \A i \in Indices(u) : Holds(u, i)' <=> Holds(u, i)
  BY DEF LocalState, Holds
<1> QED
  BY <1>1, <1>2, <1>3, <1>4 DEF ThreadOwns

\* A step of t that neither takes nor frees a mutex.
LEMMA KeepsAll ==
  ASSUME OwnsHeld, NEW t \in Threads, owner' = owner, args'[t] = args[t],
         \A i \in Indices(t) : Holds(t, i)' <=> Holds(t, i),
         \A u \in Threads \ {t} : LocalState(u)' = LocalState(u)
  PROVE  OwnsHeld'
<1>1. ThreadOwns(t)'
  <2>1. ThreadOwns(t) /\ Indices(t)' = Indices(t)
    BY DEF OwnsHeld, Indices
  <2> QED
    BY <2>1 DEF ThreadOwns
<1>2. ASSUME NEW u \in Threads \ {t} PROVE ThreadOwns(u)'
  BY OthersKeep
<1> QED
  BY <1>1, <1>2 DEF OwnsHeld

\* A step of t that takes the free mutex of its index k.
LEMMA TakesOne ==
  ASSUME TypeOK, OwnsHeld, NEW t \in Threads, NEW k \in Indices(t),
         owner[args[t][k]] = NoThread,
         owner' = [owner EXCEPT ![args[t][k]] = t], args'[t] = args[t],
         \A i \in Indices(t) : Holds(t, i)' <=> Holds(t, i) \/ i = k,
         \A u \in Threads \ {t} : LocalState(u)' = LocalState(u)
  PROVE  OwnsHeld'
<1>1. \A m \in Mutexes : owner'[m] = IF m = args[t][k] THEN t ELSE owner[m]
  BY DEF TypeOK
<1>2. ThreadOwns(t)'
  <2>1. ThreadOwns(t) /\ Indices(t)' = Indices(t)
    BY DEF OwnsHeld, Indices
  <2> QED
    BY <1>1, <2>1 DEF ThreadOwns
<1>3. ASSUME NEW u \in Threads \ {t} PROVE ThreadOwns(u)'
  BY <1>1, OthersKeep
<1> QED
  BY <1>2, <1>3 DEF OwnsHeld

\* A step of t that frees the mutex of its index k, which it holds.
LEMMA FreesOne ==
  ASSUME TypeOK, OwnsHeld, NEW t \in Threads, NEW k \in Indices(t), Holds(t, k),
         owner' = [owner EXCEPT ![args[t][k]] = NoThread], args'[t] = args[t],
         \A i \in Indices(t) : Holds(t, i)' <=> Holds(t, i) /\ i # k,
         \A u \in Threads \ {t} : LocalState(u)' = LocalState(u)
  PROVE  OwnsHeld'
<1>1. \A m \in Mutexes : owner'[m] = IF m = args[t][k] THEN NoThread ELSE owner[m]
  BY DEF TypeOK
<1>2. ThreadOwns(t) /\ Indices(t)' = Indices(t) /\ t # NoThread
  BY MultiLockAssumption DEF OwnsHeld, Indices
<1>3. owner[args[t][k]] = t
  BY <1>2, ArgsShape DEF ThreadOwns
<1>4. ThreadOwns(t)'
  BY <1>1, <1>2, ArgsShape DEF ThreadOwns
<1>5. ASSUME NEW u \in Threads \ {t} PROVE ThreadOwns(u)'
  BY <1>1, <1>3, OthersKeep
<1> QED
  BY <1>4, <1>5 DEF OwnsHeld

\* The index that try_lock_range is about to lock.
LEMMA CurrentIn ==
  ASSUME TypeOK, NEW t \in Threads,
         \/ pc[t] = "try_low"  /\ current[t] < prev[t]
         \/ pc[t] = "try_high" /\ current[t] \in Indices(t)
  PROVE  current[t] \in Indices(t)
<1>1. PICK n \in Nat \ {0} : Indices(t) = 0..n-1
  BY CallShape DEF TypeOK, Indices
<1>2. prev[t] \in Indices(t) /\ current[t] \in Nat
  BY DEF TypeOK, LocalOK
<1> QED
  BY <1>1, <1>2

\* A rollback unlocks exactly what the loops have locked.
LEMMA RollbackHolds ==
  ASSUME TypeOK, NEW t \in Threads, NEW after, Rollback(t, after), UNCHANGED <<prev, current>>,
         \/ pc[t] = "try_low"  /\ current[t] < prev[t]
         \/ pc[t] = "try_high" /\ current[t] \in Indices(t)
  PROVE  \A j \in Indices(t) : Holds(t, j)' <=> Holds(t, j)
<1>1. /\ pc'[t] = "unlock"
      /\ inner'[t] = IF pc[t] = "try_low" THEN 0..current[t]-1 ELSE prev[t]+1..current[t]-1
      /\ outer'[t] = IF pc[t] = "try_low" THEN {prev[t]} ELSE 0..prev[t]
  BY Zenon DEF TypeOK, Rollback, Goto
<1>2. /\ prev[t] \in Nat /\ current[t] \in Nat /\ (pc[t] = "try_high" => prev[t] < current[t])
      /\ \A j \in Indices(t) : j \in Nat
  BY ArgsShape DEF TypeOK, LocalOK
<1>3. \A j \in Indices(t) : Holds(t, j)' <=> j \in inner'[t] \/ j \in outer'[t]
  BY <1>1, Zenon DEF Holds
<1>4. CASE pc[t] = "try_low"
  <2>1. \A j \in Indices(t) : Holds(t, j) <=> j < current[t] \/ j = prev[t]
    BY <1>4, Zenon DEF Holds
  <2>2. \A j \in Indices(t) : j \in 0..current[t]-1 <=> j < current[t]
    BY <1>2
  <2> QED
    BY <1>1, <1>3, <1>4, <2>1, <2>2, Zenon
<1>5. CASE pc[t] = "try_high"
  <2>1. \A j \in Indices(t) : Holds(t, j) <=> j < current[t]
    BY <1>5, Zenon DEF Holds
  <2>2. \A j \in Indices(t) : j \in prev[t]+1..current[t]-1 \/ j \in 0..prev[t] <=> j < current[t]
    BY <1>2, <1>5
  <2>3. inner'[t] = prev[t]+1..current[t]-1 /\ outer'[t] = 0..prev[t]
    BY <1>1, <1>5, Zenon
  <2> QED
    BY <1>3, <2>1, <2>2, <2>3, Zenon
<1> QED
  BY <1>4, <1>5, Zenon

\* Every step keeps the invariant that a thread owns exactly the mutexes that
\* its control point stands for.
LEMMA OwnsStep == TypeOK /\ OwnsHeld /\ [Next]_vars => OwnsHeld'
<1> SUFFICES ASSUME TypeOK, OwnsHeld, [Next]_vars PROVE OwnsHeld'
  OBVIOUS
<1>a. TypeOK'
  BY TypeStep
<1>1. ASSUME NEW t \in Threads, NEW c \in Calls, Call(t, c) PROVE OwnsHeld'
  <2>1. ThreadOwns(t)'
    <3>1. \A j \in Indices(t) : ~Holds(t, j)
      BY <1>1 DEF Call, Holds
    <3>2. pc'[t] = "lock" /\ owner' = owner
      BY <1>1 DEF Call, Goto, TypeOK
    <3>3. \A j \in Indices(t)' : ~Holds(t, j)'
      BY <3>2 DEF Holds
    <3>4. ThreadOwns(t)
      BY DEF OwnsHeld
    <3> QED
      BY <3>1, <3>2, <3>3, <3>4 DEF ThreadOwns
  <2>2. ASSUME NEW u \in Threads \ {t} PROVE ThreadOwns(u)'
    <3>1. LocalState(u)' = LocalState(u) /\ owner' = owner
      BY <1>1 DEF Call, LocalState, Goto, TypeOK
    <3> QED
      BY <3>1, OthersKeep
  <2> QED
    BY <2>1, <2>2 DEF OwnsHeld
<1>2. ASSUME NEW t \in Threads, LockTarget(t) PROVE OwnsHeld'
  <2>1. \A u \in Threads \ {t} : LocalState(u)' = LocalState(u)
    BY <1>2 DEF LockTarget, LocalState, Goto, TypeOK
  <2>2. /\ prev[t] \in Indices(t) /\ owner[args[t][prev[t]]] = NoThread
        /\ owner' = [owner EXCEPT ![args[t][prev[t]]] = t] /\ args'[t] = args[t]
    BY <1>2, ArgsShape, CallShape DEF LockTarget, TypeOK, LocalOK, Indices
  <2>3. \A j \in Indices(t) : Holds(t, j)' <=> Holds(t, j) \/ j = prev[t]
    BY <1>2, ArgsShape DEF LockTarget, Holds, Goto, TypeOK, LocalOK, Locations
  <2> QED
    BY <2>1, <2>2, <2>3, TakesOne, Zenon
<1>3. ASSUME NEW t \in Threads, LockTargetThrows(t) PROVE OwnsHeld'
  <2>1. \A u \in Threads \ {t} : LocalState(u)' = LocalState(u)
    BY <1>3 DEF LockTargetThrows, LocalState, Goto, TypeOK
  <2>2. owner' = owner /\ args'[t] = args[t]
    BY <1>3 DEF LockTargetThrows
  <2>3. \A j \in Indices(t) : Holds(t, j)' <=> Holds(t, j)
    BY <1>3, ArgsShape DEF LockTargetThrows, Holds, Goto, TypeOK, LocalOK, Locations
  <2> QED
    BY <2>1, <2>2, <2>3, KeepsAll
<1>4. ASSUME NEW t \in Threads, TryLockSucceeds(t) PROVE OwnsHeld'
  <2>1. \A u \in Threads \ {t} : LocalState(u)' = LocalState(u)
    BY <1>4, Zenon DEF TryLockSucceeds, LocalState, Goto, TypeOK
  <2>2. /\ current[t] \in Indices(t) /\ owner[args[t][current[t]]] = NoThread
        /\ owner' = [owner EXCEPT ![args[t][current[t]]] = t] /\ args'[t] = args[t]
    <3>1. /\ (pc[t] = "try_low" /\ current[t] < prev[t]) \/ (pc[t] = "try_high" /\ current[t] \in Indices(t))
          /\ owner[args[t][current[t]]] = NoThread
          /\ owner' = [owner EXCEPT ![args[t][current[t]]] = t] /\ args' = args
      BY <1>4, Zenon DEF TryLockSucceeds
    <3>2. current[t] \in Indices(t)
      BY <3>1, CurrentIn, Zenon
    <3> QED
      BY <3>1, <3>2, Zenon
  <2>3. \A j \in Indices(t) : Holds(t, j)' <=> Holds(t, j) \/ j = current[t]
    <3>1. /\ current[t] \in Int /\ current'[t] = current[t] + 1
          /\ pc' = pc /\ prev' = prev /\ pc[t] \in {"try_low", "try_high"}
      BY <1>4 DEF TryLockSucceeds, TypeOK
    <3>2. \A j \in Indices(t) : j < current'[t] <=> j < current[t] \/ j = current[t]
      BY <3>1, ArgsShape
    <3> QED
      BY <3>1, <3>2 DEF Holds
  <2> QED
    BY <2>1, <2>2, <2>3, TakesOne, Zenon
<1>5. ASSUME NEW t \in Threads, TryLockFails(t) PROVE OwnsHeld'
  <2>1. \A u \in Threads \ {t} : LocalState(u)' = LocalState(u)
    BY <1>5, Zenon DEF TryLockFails, Rollback, LocalState, Goto, TypeOK
  <2>2. owner' = owner /\ args'[t] = args[t]
    BY <1>5, Zenon DEF TryLockFails, Rollback
  <2>3. \A j \in Indices(t) : Holds(t, j)' <=> Holds(t, j)
    BY <1>5, RollbackHolds DEF TryLockFails
  <2> QED
    BY <2>1, <2>2, <2>3, KeepsAll
<1>6. ASSUME NEW t \in Threads, TryLockThrows(t) PROVE OwnsHeld'
  <2>1. \A u \in Threads \ {t} : LocalState(u)' = LocalState(u)
    BY <1>6 DEF TryLockThrows, Rollback, LocalState, Goto, TypeOK
  <2>2. owner' = owner /\ args'[t] = args[t]
    BY <1>6, Zenon DEF TryLockThrows, Rollback
  <2>3. \A j \in Indices(t) : Holds(t, j)' <=> Holds(t, j)
    BY <1>6, RollbackHolds DEF TryLockThrows
  <2> QED
    BY <2>1, <2>2, <2>3, KeepsAll
<1>7. ASSUME NEW t \in Threads, LowRangeDone(t) PROVE OwnsHeld'
  <2>1. \A u \in Threads \ {t} : LocalState(u)' = LocalState(u)
    BY <1>7 DEF LowRangeDone, LocalState, Goto, TypeOK
  <2>2. owner' = owner /\ args'[t] = args[t]
    BY <1>7, Zenon DEF LowRangeDone
  <2>3. \A j \in Indices(t) : Holds(t, j)' <=> Holds(t, j)
    <3>1. /\ prev[t] \in Int /\ current[t] = prev[t] /\ current'[t] = prev[t] + 1
          /\ pc[t] = "try_low" /\ pc'[t] = "try_high" /\ prev' = prev
      BY <1>7 DEF LowRangeDone, TypeOK, Goto
    <3>2. \A j \in Indices(t) : j < current'[t] <=> j < current[t] \/ j = prev[t]
      BY <3>1, ArgsShape
    <3> QED
      BY <3>1, <3>2 DEF Holds
  <2> QED
    BY <2>1, <2>2, <2>3, KeepsAll
<1>8. ASSUME NEW t \in Threads, HighRangeDone(t) PROVE OwnsHeld'
  <2>1. \A u \in Threads \ {t} : LocalState(u)' = LocalState(u)
    BY <1>8, Zenon DEF HighRangeDone, LocalState, Goto, TypeOK
  <2>2. owner' = owner /\ args'[t] = args[t]
    BY <1>8 DEF HighRangeDone
  <2>3. \A j \in Indices(t) : Holds(t, j)' <=> Holds(t, j)
    <3>1. \A j \in Indices(t) : j < current[t]
      BY <1>8, CallShape DEF HighRangeDone, TypeOK, LocalOK, Indices
    <3> QED
      BY <1>8, <3>1 DEF HighRangeDone, Holds, Goto, TypeOK
  <2> QED
    BY <2>1, <2>2, <2>3, KeepsAll
<1>9. ASSUME NEW t \in Threads, NEW i \in Indices(t), UnlockInner(t, i) PROVE OwnsHeld'
  <2>1. \A u \in Threads \ {t} : LocalState(u)' = LocalState(u)
    BY <1>9 DEF UnlockInner, IsFirst, LocalState, Goto, TypeOK
  <2>2. /\ Holds(t, i) /\ args'[t] = args[t]
        /\ owner' = [owner EXCEPT ![args[t][i]] = NoThread]
    BY <1>9 DEF UnlockInner, IsFirst, Holds
  <2>3. \A j \in Indices(t) : Holds(t, j)' <=> Holds(t, j) /\ j # i
    BY <1>9, ArgsShape DEF UnlockInner, IsFirst, Holds, Goto, TypeOK, LocalOK, Locations
  <2> QED
    BY <2>1, <2>2, <2>3, FreesOne, Zenon
<1>10. ASSUME NEW t \in Threads, NEW i \in Indices(t), UnlockOuter(t, i) PROVE OwnsHeld'
  <2>1. \A u \in Threads \ {t} : LocalState(u)' = LocalState(u)
    BY <1>10 DEF UnlockOuter, IsFirst, LocalState, Goto, TypeOK
  <2>2. /\ Holds(t, i) /\ args'[t] = args[t]
        /\ owner' = [owner EXCEPT ![args[t][i]] = NoThread]
    BY <1>10, Zenon DEF UnlockOuter, IsFirst, Holds
  <2>3. \A j \in Indices(t) : Holds(t, j)' <=> Holds(t, j) /\ j # i
    BY <1>10, ArgsShape DEF UnlockOuter, IsFirst, Holds, Goto, TypeOK, LocalOK, Locations
  <2> QED
    BY <2>1, <2>2, <2>3, FreesOne, Zenon
<1>11. ASSUME NEW t \in Threads, UnlockDone(t) PROVE OwnsHeld'
  <2>1. \A u \in Threads \ {t} : LocalState(u)' = LocalState(u)
    BY <1>11, Zenon DEF UnlockDone, LocalState, Goto, TypeOK
  <2>2. owner' = owner /\ args'[t] = args[t]
    BY <1>11, Zenon DEF UnlockDone
  <2>3. \A j \in Indices(t) : Holds(t, j)' <=> Holds(t, j)
    BY <1>11, ArgsShape DEF UnlockDone, Holds, Goto, TypeOK, LocalOK, Locations
  <2> QED
    BY <2>1, <2>2, <2>3, KeepsAll
<1>12. ASSUME NEW t \in Threads, Release(t) PROVE OwnsHeld'
  <2>1. \A u \in Threads \ {t} : LocalState(u)' = LocalState(u)
    BY <1>12 DEF Release, LocalState, Goto, TypeOK
  <2>2. owner' = owner /\ args'[t] = args[t]
    BY <1>12, Zenon DEF Release
  <2>3. \A j \in Indices(t) : Holds(t, j)' <=> Holds(t, j)
    BY <1>12, ArgsShape DEF Release, Holds, Goto, TypeOK, LocalOK, Locations
  <2> QED
    BY <2>1, <2>2, <2>3, KeepsAll
<1>13. CASE UNCHANGED vars
  <2> SUFFICES ASSUME NEW t \in Threads PROVE ThreadOwns(t)'
    BY Zenon DEF OwnsHeld
  <2>1. /\ Indices(t)' = Indices(t) /\ owner' = owner /\ args' = args
        /\ LocalState(t)' = LocalState(t)
    BY <1>13 DEF vars, Indices, LocalState
  <2>2. \A j \in Indices(t) : Holds(t, j)' <=> Holds(t, j)
    BY <2>1 DEF LocalState, Holds
  <2> QED
    BY <2>1, <2>2 DEF OwnsHeld, ThreadOwns
<1> QED
  BY <1>1, <1>2, <1>3, <1>4, <1>5, <1>6, <1>7, <1>8, <1>9, <1>10, <1>11,
     <1>12, <1>13 DEF Next, Attempt

\* The three facts of the inductive invariant in one.
LEMMA Inductive == Spec => []IInv
<1>1. IInv /\ [Next]_vars => IInv'
  BY TypeStep, OwnsStep DEF IInv
<1> QED
  BY InitInv, <1>1, PTL DEF Spec

\* The loops of lock_attempt and try_lock_range never leave the argument list.
THEOREM TypeCorrect == Spec => []TypeOK
BY Inductive, PTL DEF IInv

\* A thread owns exactly the mutexes that its position in ktl::lock stands for.
THEOREM OwnershipCorrect == Spec => []OwnsHeld
BY Inductive, PTL DEF IInv

\* When ktl::lock returns every mutex is held, and a call that threw or whose
\* guard was destroyed has left none behind.
THEOREM LockIsAllOrNothing == Spec => []AllOrNothing
<1>1. IInv => AllOrNothing
  BY ArgsShape, Zenon DEF IInv, AllOrNothing, OwnsHeld, ThreadOwns, Holds
<1> QED
  BY Inductive, <1>1, PTL

\* No thread ever waits for a mutex while it owns one: the waits-for graph of
\* any number of ktl::lock calls, in any argument orders, has no cycle.
THEOREM DeadlockFree == Spec => []NoHoldAndWait
<1>1. IInv => NoHoldAndWait
  <2> SUFFICES ASSUME IInv, NEW m \in Mutexes, owner[m] # NoThread
               PROVE  pc[owner[m]] # "lock"
    BY DEF NoHoldAndWait
  <2>1. owner[m] \in Threads
    BY DEF IInv, TypeOK
  <2>2. PICK i \in Indices(owner[m]) : Holds(owner[m], i)
    BY <2>1 DEF IInv, OwnsHeld, ThreadOwns
  <2> QED
    BY <2>2 DEF Holds
<1> QED
  BY Inductive, <1>1, PTL

\* A mutex is only ever released by its owner, in unlock_locks or in the
\* destructor.
THEOREM ReleaseDiscipline == Spec => ReleasedByOwnerOnly
<1>1. IInv /\ [Next]_vars =>
        [\A m \in Mutexes :
           (owner[m] # NoThread /\ owner'[m] # owner[m]) =>
             owner'[m] = NoThread /\ pc[owner[m]] = "unlock"]_vars
  <2> SUFFICES ASSUME IInv, Next, NEW m \in Mutexes,
                      owner[m] # NoThread, owner'[m] # owner[m]
               PROVE  owner'[m] = NoThread /\ pc[owner[m]] = "unlock"
    OBVIOUS
  <2>1. PICK t \in Threads : (\E c \in Calls : Call(t, c)) \/ Attempt(t) \/ Release(t)
    BY DEF Next
  <2>2. owner \in [Mutexes -> Threads \union {NoThread}]
    BY Zenon DEF IInv, TypeOK
  <2>3. PICK i \in Indices(t) : UnlockInner(t, i) \/ UnlockOuter(t, i)
    BY <2>1, <2>2, ZenonT(60) DEF Attempt, Call, LockTarget, LockTargetThrows,
         TryLockSucceeds, TryLockFails, TryLockThrows, LowRangeDone,
         HighRangeDone, UnlockDone, Release
  <2>4. Holds(t, i) /\ pc[t] = "unlock"
    BY <2>3, Zenon DEF UnlockInner, UnlockOuter, IsFirst, Holds
  <2>5. owner[args[t][i]] = t /\ owner' = [owner EXCEPT ![args[t][i]] = NoThread]
    BY <2>3, <2>4, ArgsShape
       DEF IInv, OwnsHeld, ThreadOwns, UnlockInner, UnlockOuter
  <2> QED
    BY <2>2, <2>4, <2>5
<1> QED
  BY Inductive, <1>1, PTL DEF Spec, ReleasedByOwnerOnly
=============================================================================
