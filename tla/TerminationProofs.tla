-------------------------- MODULE TerminationProofs --------------------------
(***************************************************************************)
(* Proofs about spin_lock and the termination dispatcher for any number of *)
(* processors and contexts, at any levels.                                 *)
(*                                                                         *)
(* The inductive invariant of the lock is SpinInv: a context inside lock,  *)
(* try_lock or unlock runs, at the lock's ceiling, and the level it came   *)
(* from is in its own variable or, while it holds the lock, in m_prev_irql.*)
(* The one of the dispatcher adds that m_context is in pieces only while   *)
(* the holder of the lock is between two writes.                           *)
(***************************************************************************)
EXTENDS Termination, TLAPS

SpinTypeOK ==
  /\ kind \in SpinLocks \union {DispatcherLock}
  /\ irql \in [Cpus -> Int]
  /\ stack \in [Cpus -> Seq(Contexts)]
  /\ owner \in Contexts \union {Nobody}
  /\ prevIrql \in Int
  /\ saved \in [Contexts -> Int]
  /\ pc \in [Contexts -> {"out", "spin", "try", "save", "held", "release", "lower"}]

\* A processor runs contexts of its own, each once, that may use the lock.
StackOK(s, c) ==
  /\ \A i \in 1..Len(s) : Home[s[i]] = c /\ Level[s[i]] \in kind.min..kind.ceiling
  /\ \A i, j \in 1..Len(s) : s[i] = s[j] => i = j
StacksOK == \A c \in Cpus : StackOK(stack[c], c)

\* A context that is in a call of the lock runs and is not interrupted.
InCallRuns == \A t \in Contexts : pc[t] # "out" => Running(t)

\* The level of a processor is the ceiling or the one of the running context.
LevelsOK ==
  \A t \in Contexts :
    Running(t) => irql[Home[t]] = IF pc[t] = "out" THEN Level[t] ELSE kind.ceiling

\* The native lock belongs to the context that is between lock and unlock.
OwnerOK == \A t \in Contexts : owner = t <=> pc[t] \in {"save", "held", "release"}

\* Where the level to go back to is kept.
SavedOK ==
  \A t \in Contexts :
    /\ Mixed /\ pc[t] \in {"spin", "try", "save", "release", "lower"} => saved[t] = Level[t]
    /\ Mixed /\ pc[t] = "held" => prevIrql = Level[t]
    /\ ~Mixed => pc[t] \in {"out", "spin", "try", "held"}

SpinInv == SpinTypeOK /\ StacksOK /\ InCallRuns /\ LevelsOK /\ OwnerOK /\ SavedOK

-----------------------------------------------------------------------------
\* The bounds of a lock: it is used from min up to its ceiling, and a lock of
\* the DpcOnly policy from one level only.
LEMMA KindBounds ==
  ASSUME SpinTypeOK
  PROVE  /\ kind.min \in Int /\ kind.ceiling \in Int /\ kind.min <= kind.ceiling
         /\ Mixed \in BOOLEAN
         /\ ~Mixed => kind.min = kind.ceiling
BY DEF SpinTypeOK, SpinLocks, DispatcherLock, Mixed, PASSIVE_LEVEL, APC_LEVEL, DISPATCH_LEVEL, HIGH_LEVEL

\* One context runs on a processor, and it is on the processor's stack.
LEMMA OneRuns ==
  ASSUME SpinTypeOK, NEW t \in Contexts, NEW u \in Contexts, Running(t), Running(u), Home[t] = Home[u]
  PROVE  t = u
BY DEF Running, Top

\* The context that runs on a processor is on top of its stack.
LEMMA RunningOnStack ==
  ASSUME SpinTypeOK, NEW t \in Contexts, Running(t)
  PROVE  /\ Home[t] \in Cpus /\ Len(stack[Home[t]]) \in 1..Len(stack[Home[t]])
         /\ stack[Home[t]][Len(stack[Home[t]])] = t
<1>1. Home[t] \in Cpus /\ stack[Home[t]] \in Seq(Contexts) /\ stack[Home[t]] # <<>>
  BY SpinLockAssumption DEF SpinTypeOK, Running
<1>2. Len(stack[Home[t]]) \in Nat /\ Len(stack[Home[t]]) # 0
  BY <1>1
<1> QED
  BY <1>1, <1>2 DEF Running, Top

\* The level of a context that runs is one that the lock admits.
LEMMA RunningLevel ==
  ASSUME SpinTypeOK, StacksOK, NEW t \in Contexts, Running(t)
  PROVE  Level[t] \in kind.min..kind.ceiling
BY RunningOnStack DEF StacksOK, StackOK

\* Pushing a context that is not there, and popping the last one.
LEMMA StackPush ==
  ASSUME NEW s \in Seq(Contexts), NEW t \in Contexts, StackOK(s, Home[t]),
         Level[t] \in kind.min..kind.ceiling, \A i \in 1..Len(s) : s[i] # t
  PROVE  StackOK(Append(s, t), Home[t])
<1> DEFINE r == Append(s, t)
<1>1. /\ Len(r) = Len(s) + 1 /\ Len(s) \in Nat /\ r[Len(s) + 1] = t
      /\ \A i \in 1..Len(s) : r[i] = s[i]
  OBVIOUS
<1>2. \A i \in 1..Len(r) : i \in 1..Len(s) \/ i = Len(s) + 1
  BY <1>1
<1> HIDE DEF r
<1>3. \A i \in 1..Len(r) : Home[r[i]] = Home[t] /\ Level[r[i]] \in kind.min..kind.ceiling
  BY <1>1, <1>2 DEF StackOK
<1>4. \A i, j \in 1..Len(r) : r[i] = r[j] => i = j
  BY <1>1, <1>2 DEF StackOK
<1> QED
  BY <1>3, <1>4 DEF StackOK, r

\* A stack without its top.
LEMMA WithoutLast ==
  ASSUME NEW S, NEW s \in Seq(S), s # <<>>
  PROVE  LET rest == SubSeq(s, 1, Len(s) - 1)
         IN  /\ Len(rest) = Len(s) - 1 /\ rest \in Seq(S)
             /\ \A i \in 1..Len(rest) : rest[i] = s[i] /\ i \in 1..Len(s) /\ i # Len(s)
             /\ Len(s) \in 1..Len(s)
<1> DEFINE n == Len(s) - 1
           rest == SubSeq(s, 1, n)
<1>1. n \in Nat /\ n + 1 = Len(s)
  OBVIOUS
<1>2. 1 \in Int /\ n \in Int /\ \A i \in 1..n : s[i] \in S
  BY <1>1
<1>3. /\ rest \in Seq(S) /\ Len(rest) = IF 1 <= n THEN n - 1 + 1 ELSE 0
      /\ \A i \in 1..n - 1 + 1 : rest[i] = s[1 + i - 1]
  <2> HIDE DEF n
  <2> QED
    BY <1>2
<1> HIDE DEF rest, n
<1>4. Len(rest) = n
  BY <1>1, <1>3
<1>5. \A i \in 1..n : rest[i] = s[i] /\ i \in 1..n + 1 /\ i # n + 1
  BY <1>1, <1>3
<1>6. n + 1 \in 1..n + 1
  BY <1>1
<1> QED
  BY <1>1, <1>3, <1>4, <1>5, <1>6, Zenon DEF rest, n

\* What is left when the top of a stack returns is still sorted by level, and
\* the context that returned is on it no more.
LEMMA StackPop ==
  ASSUME NEW s \in Seq(Contexts), NEW c, s # <<>>, StackOK(s, c)
  PROVE  LET rest == SubSeq(s, 1, Len(s) - 1)
         IN  /\ StackOK(rest, c) /\ rest \in Seq(Contexts)
             /\ \A i \in 1..Len(rest) : rest[i] # s[Len(s)]
<1> DEFINE rest == SubSeq(s, 1, Len(s) - 1)
<1>1. /\ Len(rest) = Len(s) - 1 /\ rest \in Seq(Contexts)
      /\ \A i \in 1..Len(rest) : rest[i] = s[i] /\ i \in 1..Len(s) /\ i # Len(s)
      /\ Len(s) \in 1..Len(s)
  BY WithoutLast, Zenon
<1> HIDE DEF rest
<1>2. StackOK(rest, c)
  BY <1>1, Zenon DEF StackOK
<1>3. \A i \in 1..Len(rest) : rest[i] # s[Len(s)]
  BY <1>1 DEF StackOK
<1> QED
  BY <1>1, <1>2, <1>3 DEF rest

\* Nothing runs at first, and the lock is free.
LEMMA SpinInitInv ==
  ASSUME kind \in SpinLocks \union {DispatcherLock}, SpinInit
  PROVE  SpinInv
<1>1. SpinTypeOK
  BY DEF SpinTypeOK, SpinInit, PASSIVE_LEVEL
<1>2. \A t \in Contexts : ~Running(t)
  BY SpinLockAssumption DEF SpinInit, Running
<1>3. StacksOK
  BY DEF SpinInit, StacksOK, StackOK
<1> QED
  BY <1>1, <1>2, <1>3, SpinLockAssumption DEF SpinInv, SpinInit, InCallRuns, LevelsOK, OwnerOK, SavedOK

-----------------------------------------------------------------------------
(***************************************************************************)
(* The steps of the kernel                                                 *)
(***************************************************************************)

\* A context that arrives interrupts none that is in a call of the lock: such
\* a context is at the ceiling, and nothing above it uses the lock.
LEMMA ArriveInv ==
  ASSUME SpinInv, UNCHANGED kind, NEW t \in Contexts, Arrive(t)
  PROVE  SpinInv'
<1> DEFINE c == Home[t]
<1> USE DEF SpinInv
<1>a. Level[t] \in 0..4
  BY SpinLockAssumption DEF PASSIVE_LEVEL, HIGH_LEVEL
<1>1. c \in Cpus /\ stack[c] \in Seq(Contexts) /\ Level[t] \in Int /\ irql[c] \in Int
  BY <1>a, SpinLockAssumption DEF SpinTypeOK
<1>2. /\ stack'[c] = Append(stack[c], t) /\ \A d \in Cpus \ {c} : stack'[d] = stack[d]
      /\ irql' = [irql EXCEPT ![c] = Level[t]]
      /\ UNCHANGED <<kind, owner, prevIrql, saved, pc>>
      /\ Level[t] \in kind.min..kind.ceiling
      /\ \A i \in 1..Len(stack[c]) : stack[c][i] # t
      /\ stack[c] = <<>> \/ Level[t] > irql[c]
  BY <1>1 DEF Arrive, SetIrql, SpinTypeOK
<1>3. ~Running(t) /\ pc[t] = "out"
  BY <1>2, RunningOnStack DEF InCallRuns
<1>4. ASSUME NEW u \in Contexts, Home[u] = c, Running(u)
      PROVE  pc[u] = "out"
  <2>1. stack[c] # <<>>
    BY <1>4 DEF Running
  <2>2. irql[c] < kind.ceiling
    BY <1>1, <1>2, <2>1, KindBounds
  <2> QED
    BY <1>4, <2>2, KindBounds DEF LevelsOK
<1>5. \A u \in Contexts : Running(u)' <=> (u = t \/ (Home[u] # c /\ Running(u)))
  <2> TAKE u \in Contexts
  <2>1. CASE Home[u] = c
    BY <1>1, <1>2, <2>1 DEF Running, Top
  <2>2. CASE Home[u] # c
    <3>1. Home[u] \in Cpus
      BY SpinLockAssumption
    <3> QED
      BY <1>2, <2>2, <3>1 DEF Running, Top
  <2> QED
    BY <2>1, <2>2
<1>6. SpinTypeOK'
  BY <1>1 DEF SpinTypeOK, Arrive, SetIrql
<1>7. StacksOK'
  <2>1. StackOK(Append(stack[c], t), c)
    BY <1>1, <1>2, StackPush DEF StacksOK
  <2>2. \A d \in Cpus : StackOK(stack'[d], d)
    BY <1>2, <2>1, Zenon DEF StacksOK
  <2> QED
    BY <1>2, <2>2 DEF StacksOK, StackOK
<1>8. InCallRuns'
  BY <1>2, <1>3, <1>4, <1>5 DEF InCallRuns
<1>9. LevelsOK'
  <2> SUFFICES ASSUME NEW u \in Contexts, Running(u)'
               PROVE  irql'[Home[u]] = IF pc[u] = "out" THEN Level[u] ELSE kind.ceiling
    BY <1>2 DEF LevelsOK
  <2>1. CASE u = t
    BY <1>1, <1>2, <1>3, <2>1 DEF SpinTypeOK
  <2>2. CASE u # t
    BY <1>2, <1>5, <2>2 DEF LevelsOK, SpinTypeOK
  <2> QED
    BY <2>1, <2>2
<1>10. OwnerOK' /\ SavedOK'
  BY <1>2, Zenon DEF OwnerOK, SavedOK, Mixed
<1> QED
  BY <1>6, <1>7, <1>8, <1>9, <1>10

\* The context that a return goes back to was interrupted outside the lock.
LEMMA ReturnInv ==
  ASSUME SpinInv, UNCHANGED kind, NEW t \in Contexts, Return(t)
  PROVE  SpinInv'
<1> DEFINE c == Home[t]
           rest == SubSeq(stack[c], 1, Len(stack[c]) - 1)
<1> USE DEF SpinInv
<1>1. c \in Cpus /\ stack[c] \in Seq(Contexts) /\ Running(t) /\ pc[t] = "out"
  BY SpinLockAssumption DEF SpinTypeOK, Return, At
<1>2. /\ Len(stack[c]) \in Nat \ {0} /\ rest \in Seq(Contexts) /\ Len(rest) = Len(stack[c]) - 1
      /\ \A i \in 1..Len(rest) : rest[i] = stack[c][i]
      /\ stack[c][Len(stack[c])] = t
  BY <1>1, RunningOnStack
<1>3. /\ stack'[c] = rest /\ \A d \in Cpus \ {c} : stack'[d] = stack[d]
      /\ irql' = [irql EXCEPT ![c] = IF rest = <<>> THEN PASSIVE_LEVEL ELSE Level[rest[Len(rest)]]]
      /\ UNCHANGED <<kind, owner, prevIrql, saved, pc>>
  BY <1>1 DEF Return, SetIrql, SpinTypeOK
<1>4. StackOK(rest, c) /\ \A i \in 1..Len(rest) : rest[i] # t
  <2>1. stack[c] # <<>> /\ StackOK(stack[c], c)
    BY <1>1 DEF Running, StacksOK
  <2> QED
    BY <1>1, <1>2, <2>1, StackPop, Zenon
<1>5. \A u \in Contexts : Home[u] = c => pc[u] = "out"
  BY <1>1, OneRuns DEF InCallRuns
<1>6. \A u \in Contexts : Home[u] # c => (Running(u)' <=> Running(u))
  BY <1>3, SpinLockAssumption DEF Running, Top
<1>7. \A u \in Contexts : Running(u)' /\ Home[u] = c => rest # <<>> /\ u = rest[Len(rest)]
  BY <1>3, Zenon DEF Running, Top
<1>8. SpinTypeOK'
  <2>1. rest # <<>> => rest[Len(rest)] \in Contexts
    BY <1>2
  <2>2. (IF rest = <<>> THEN PASSIVE_LEVEL ELSE Level[rest[Len(rest)]]) \in Int
    BY <2>1, SpinLockAssumption DEF PASSIVE_LEVEL, HIGH_LEVEL
  <2> QED
    BY <1>1, <1>2, <1>3, <2>2, Zenon DEF SpinTypeOK, Return
<1>9. StacksOK'
  <2>1. \A d \in Cpus : StackOK(stack'[d], d)
    BY <1>3, <1>4, Zenon DEF StacksOK
  <2> QED
    BY <1>3, <2>1 DEF StacksOK, StackOK
<1>10. InCallRuns'
  BY <1>3, <1>5, <1>6 DEF InCallRuns
<1>11. LevelsOK'
  <2> SUFFICES ASSUME NEW u \in Contexts, Running(u)'
               PROVE  irql'[Home[u]] = IF pc[u] = "out" THEN Level[u] ELSE kind.ceiling
    BY <1>3, ZenonT(60) DEF LevelsOK
  <2>1. CASE Home[u] = c
    BY <1>1, <1>3, <1>5, <1>7, <2>1, ZenonT(60) DEF SpinTypeOK
  <2>2. CASE Home[u] # c
    BY <1>3, <1>6, <2>2 DEF LevelsOK, SpinTypeOK
  <2> QED
    BY <2>1, <2>2, Zenon
<1>12. OwnerOK' /\ SavedOK'
  BY <1>3 DEF OwnerOK, SavedOK, Mixed
<1> QED
  BY <1>8, <1>9, <1>10, <1>11, <1>12

-----------------------------------------------------------------------------
(***************************************************************************)
(* The steps of the lock                                                   *)
(***************************************************************************)

\* A step that leaves the stacks alone changes the control point, the saved
\* level and the processor of the context t that takes it, and keeps the level
\* of its processor in accord with its control point.
LEMMA InPlace ==
  ASSUME SpinInv, UNCHANGED <<kind, stack>>, NEW t \in Contexts, Running(t),
         NEW level \in Int, NEW to \in {"out", "spin", "try", "save", "held", "release", "lower"},
         irql' = [irql EXCEPT ![Home[t]] = level],
         level = IF to = "out" THEN Level[t] ELSE kind.ceiling,
         pc' = [pc EXCEPT ![t] = to]
  PROVE  /\ irql' \in [Cpus -> Int] /\ pc' \in [Contexts -> {"out", "spin", "try", "save", "held", "release", "lower"}]
         /\ StacksOK' /\ InCallRuns' /\ LevelsOK'
         /\ pc'[t] = to /\ \A u \in Contexts \ {t} : pc'[u] = pc[u]
<1> USE DEF SpinInv
<1>1. /\ pc'[t] = to /\ \A u \in Contexts \ {t} : pc'[u] = pc[u]
      /\ pc' \in [Contexts -> {"out", "spin", "try", "save", "held", "release", "lower"}]
      /\ irql' \in [Cpus -> Int] /\ Home[t] \in Cpus
      /\ irql'[Home[t]] = level /\ \A c \in Cpus \ {Home[t]} : irql'[c] = irql[c]
  BY SpinLockAssumption, Zenon DEF SpinTypeOK
<1>2. \A u \in Contexts : Running(u)' <=> Running(u)
  BY DEF Running, Top
<1>3. StacksOK'
  BY DEF StacksOK, StackOK
<1>4. InCallRuns'
  BY <1>1, <1>2 DEF InCallRuns
<1>5. LevelsOK'
  <2> SUFFICES ASSUME NEW u \in Contexts, Running(u)
               PROVE  irql'[Home[u]] = IF pc'[u] = "out" THEN Level[u] ELSE kind.ceiling
    BY <1>2 DEF LevelsOK
  <2>1. CASE u = t
    BY <1>1, <2>1
  <2>2. CASE u # t
    <3>1. Home[u] # Home[t] /\ Home[u] \in Cpus
      BY <2>2, OneRuns, SpinLockAssumption
    <3> QED
      BY <1>1, <2>2, <3>1 DEF LevelsOK
  <2> QED
    BY <2>1, <2>2
<1> QED
  BY <1>1, <1>3, <1>4, <1>5

\* Steps that change no level: the processor stays where it is.
LEMMA SameLevel ==
  ASSUME SpinInv, UNCHANGED <<kind, stack, irql>>, NEW t \in Contexts, Running(t),
         NEW to \in {"out", "spin", "try", "save", "held", "release", "lower"},
         (pc[t] # "out" /\ to # "out") \/ ~Mixed,
         pc' = [pc EXCEPT ![t] = to]
  PROVE  /\ pc' \in [Contexts -> {"out", "spin", "try", "save", "held", "release", "lower"}]
         /\ StacksOK' /\ InCallRuns' /\ LevelsOK'
         /\ pc'[t] = to /\ \A u \in Contexts \ {t} : pc'[u] = pc[u]
<1> DEFINE level == irql[Home[t]]
<1>1. level \in Int /\ irql' = [irql EXCEPT ![Home[t]] = level]
  BY SpinLockAssumption, Zenon DEF SpinInv, SpinTypeOK
<1>2. level = IF to = "out" THEN Level[t] ELSE kind.ceiling
  <2>1. level = IF pc[t] = "out" THEN Level[t] ELSE kind.ceiling
    BY DEF SpinInv, LevelsOK
  <2>2. ~Mixed => Level[t] = kind.ceiling
    BY RunningLevel, KindBounds DEF SpinInv
  <2> QED
    BY <2>1, <2>2
<1> HIDE DEF level
<1> QED
  BY <1>1, <1>2, InPlace, Zenon

\* lock and try_lock raise the level; the level to go back to is the context's.
LEMMA RaiseInv ==
  ASSUME SpinInv, UNCHANGED kind, NEW t \in Contexts, NEW to \in {"spin", "try"}, Mixed, Raise(t, to)
  PROVE  SpinInv'
<1>1. /\ Running(t) /\ pc[t] = "out" /\ UNCHANGED <<stack, owner, prevIrql>>
      /\ irql' = [irql EXCEPT ![Home[t]] = kind.ceiling] /\ pc' = [pc EXCEPT ![t] = to]
      /\ saved' = [saved EXCEPT ![t] = irql[Home[t]]]
  BY DEF Raise, At, SetIrql, Goto
<1>2. kind.ceiling \in Int /\ to # "out"
  BY KindBounds DEF SpinInv
<1>3. /\ irql' \in [Cpus -> Int] /\ pc' \in [Contexts -> {"out", "spin", "try", "save", "held", "release", "lower"}]
      /\ StacksOK' /\ InCallRuns' /\ LevelsOK'
      /\ pc'[t] = to /\ \A u \in Contexts \ {t} : pc'[u] = pc[u]
  BY <1>1, <1>2, InPlace, Zenon
<1>4. irql[Home[t]] = Level[t] /\ irql[Home[t]] \in Int
  BY <1>1, SpinLockAssumption, Zenon DEF SpinInv, LevelsOK, SpinTypeOK
<1>5. /\ saved' \in [Contexts -> Int] /\ saved'[t] = Level[t]
      /\ \A u \in Contexts \ {t} : saved'[u] = saved[u]
  BY <1>1, <1>4 DEF SpinInv, SpinTypeOK
<1>6. SpinTypeOK'
  BY <1>1, <1>3, <1>5 DEF SpinInv, SpinTypeOK
<1>7. OwnerOK'
  BY <1>1, <1>3 DEF SpinInv, OwnerOK
<1>8. SavedOK'
  BY <1>1, <1>3, <1>5 DEF SpinInv, SavedOK, Mixed
<1> QED
  BY <1>3, <1>6, <1>7, <1>8 DEF SpinInv

\* The DpcOnly policy neither raises the level nor stores it.
LEMMA LockDpcInv ==
  ASSUME SpinInv, UNCHANGED kind, NEW t \in Contexts, NEW to \in {"spin", "try"}, LockDpc(t, to)
  PROVE  SpinInv'
<1>1. /\ Running(t) /\ pc[t] = "out" /\ ~Mixed /\ UNCHANGED <<irql, stack, owner, prevIrql, saved>>
      /\ pc' = [pc EXCEPT ![t] = to]
  BY DEF LockDpc, At, Goto
<1>2. /\ pc' \in [Contexts -> {"out", "spin", "try", "save", "held", "release", "lower"}]
      /\ StacksOK' /\ InCallRuns' /\ LevelsOK'
      /\ pc'[t] = to /\ \A u \in Contexts \ {t} : pc'[u] = pc[u]
  BY <1>1, SameLevel, Zenon
<1>3. SpinTypeOK'
  BY <1>1, <1>2 DEF SpinInv, SpinTypeOK
<1>4. OwnerOK' /\ SavedOK'
  BY <1>1, <1>2 DEF SpinInv, OwnerOK, SavedOK, Mixed
<1> QED
  BY <1>2, <1>3, <1>4 DEF SpinInv

\* The native lock is taken when nobody has it.
LEMMA AcquireInv ==
  ASSUME SpinInv, UNCHANGED kind, NEW t \in Contexts, Acquire(t)
  PROVE  SpinInv'
<1> DEFINE to == IF Mixed THEN "save" ELSE "held"
<1>1. /\ Running(t) /\ pc[t] \in {"spin", "try"} /\ owner = Nobody /\ owner' = t
      /\ UNCHANGED <<irql, stack, prevIrql, saved>> /\ pc' = [pc EXCEPT ![t] = to]
  BY DEF Acquire, At, Goto
<1>2. to \in {"save", "held"} /\ (Mixed <=> to = "save")
  OBVIOUS
<1> HIDE DEF to
<1>3. /\ pc' \in [Contexts -> {"out", "spin", "try", "save", "held", "release", "lower"}]
      /\ StacksOK' /\ InCallRuns' /\ LevelsOK'
      /\ pc'[t] = to /\ \A u \in Contexts \ {t} : pc'[u] = pc[u]
  BY <1>1, <1>2, SameLevel, Zenon
<1>4. SpinTypeOK'
  BY <1>1, <1>3 DEF SpinInv, SpinTypeOK
<1>5. OwnerOK'
  <2>1. \A u \in Contexts : pc[u] \notin {"save", "held", "release"}
    BY <1>1, SpinLockAssumption DEF SpinInv, OwnerOK
  <2> QED
    BY <1>1, <1>2, <1>3, <2>1 DEF OwnerOK
<1>6. SavedOK'
  BY <1>1, <1>2, <1>3 DEF SpinInv, SavedOK, Mixed
<1> QED
  BY <1>3, <1>4, <1>5, <1>6 DEF SpinInv

\* A failed try_lock lowers the level to the one it saved.
LEMMA TryLockFailsInv ==
  ASSUME SpinInv, UNCHANGED kind, NEW t \in Contexts, TryLockFails(t)
  PROVE  SpinInv'
<1>1. /\ Running(t) /\ pc[t] = "try" /\ UNCHANGED <<stack, owner, prevIrql, saved>>
      /\ irql' = (IF Mixed THEN [irql EXCEPT ![Home[t]] = saved[t]] ELSE irql)
      /\ pc' = [pc EXCEPT ![t] = "out"]
  BY DEF TryLockFails, At, Goto
<1>2. /\ irql' \in [Cpus -> Int] /\ pc' \in [Contexts -> {"out", "spin", "try", "save", "held", "release", "lower"}]
      /\ StacksOK' /\ InCallRuns' /\ LevelsOK'
      /\ pc'[t] = "out" /\ \A u \in Contexts \ {t} : pc'[u] = pc[u]
  <2>1. CASE Mixed
    <3>1. saved[t] = Level[t] /\ saved[t] \in Int
      BY <1>1, <2>1 DEF SpinInv, SavedOK, SpinTypeOK
    <3> QED
      BY <1>1, <2>1, <3>1, InPlace, Zenon
  <2>2. CASE ~Mixed
    BY <1>1, <2>2, SameLevel, Zenon DEF SpinInv, SpinTypeOK
  <2> QED
    BY <2>1, <2>2
<1>3. SpinTypeOK'
  BY <1>1, <1>2 DEF SpinInv, SpinTypeOK
<1>4. OwnerOK' /\ SavedOK'
  BY <1>1, <1>2 DEF SpinInv, OwnerOK, SavedOK, Mixed
<1> QED
  BY <1>2, <1>3, <1>4 DEF SpinInv

\* The holder moves the level to m_prev_irql, which nobody else writes.
LEMMA SaveIrqlInv ==
  ASSUME SpinInv, UNCHANGED kind, NEW t \in Contexts, SaveIrql(t)
  PROVE  SpinInv'
<1>1. /\ Running(t) /\ pc[t] = "save" /\ UNCHANGED <<irql, stack, owner, saved>>
      /\ prevIrql' = saved[t] /\ pc' = [pc EXCEPT ![t] = "held"]
  BY DEF SaveIrql, At, Goto
<1>2. /\ pc' \in [Contexts -> {"out", "spin", "try", "save", "held", "release", "lower"}]
      /\ StacksOK' /\ InCallRuns' /\ LevelsOK'
      /\ pc'[t] = "held" /\ \A u \in Contexts \ {t} : pc'[u] = pc[u]
  BY <1>1, SameLevel, Zenon
<1>3. SpinTypeOK' /\ OwnerOK'
  BY <1>1, <1>2 DEF SpinInv, SpinTypeOK, OwnerOK
<1>4. \A u \in Contexts \ {t} : pc[u] # "held"
  BY <1>1 DEF SpinInv, OwnerOK
<1>5. SavedOK'
  BY <1>1, <1>2, <1>4 DEF SpinInv, SavedOK, Mixed
<1> QED
  BY <1>2, <1>3, <1>5 DEF SpinInv

\* unlock reads m_prev_irql while the lock is held, so it is its own level.
LEMMA ReadIrqlInv ==
  ASSUME SpinInv, UNCHANGED kind, NEW t \in Contexts, ReadIrql(t)
  PROVE  SpinInv'
<1>1. /\ Mixed /\ Running(t) /\ pc[t] = "held" /\ UNCHANGED <<irql, stack, owner, prevIrql>>
      /\ saved' = [saved EXCEPT ![t] = prevIrql] /\ pc' = [pc EXCEPT ![t] = "release"]
  BY DEF ReadIrql, At, Goto
<1>2. /\ pc' \in [Contexts -> {"out", "spin", "try", "save", "held", "release", "lower"}]
      /\ StacksOK' /\ InCallRuns' /\ LevelsOK'
      /\ pc'[t] = "release" /\ \A u \in Contexts \ {t} : pc'[u] = pc[u]
  BY <1>1, SameLevel, Zenon
<1>3. /\ saved' \in [Contexts -> Int] /\ saved'[t] = Level[t]
      /\ \A u \in Contexts \ {t} : saved'[u] = saved[u]
  BY <1>1 DEF SpinInv, SpinTypeOK, SavedOK
<1>4. SpinTypeOK' /\ OwnerOK'
  BY <1>1, <1>2, <1>3 DEF SpinInv, SpinTypeOK, OwnerOK
<1>5. SavedOK'
  BY <1>1, <1>2, <1>3 DEF SpinInv, SavedOK, Mixed
<1> QED
  BY <1>2, <1>4, <1>5 DEF SpinInv

\* Release leaves the context at the ceiling.
LEMMA ReleaseInv ==
  ASSUME SpinInv, UNCHANGED kind, NEW t \in Contexts, Release(t)
  PROVE  SpinInv'
<1>1. /\ Running(t) /\ pc[t] = "release" /\ UNCHANGED <<irql, stack, prevIrql, saved>>
      /\ owner' = Nobody /\ pc' = [pc EXCEPT ![t] = "lower"]
  BY DEF Release, At, Goto
<1>2. /\ pc' \in [Contexts -> {"out", "spin", "try", "save", "held", "release", "lower"}]
      /\ StacksOK' /\ InCallRuns' /\ LevelsOK'
      /\ pc'[t] = "lower" /\ \A u \in Contexts \ {t} : pc'[u] = pc[u]
  BY <1>1, SameLevel, Zenon
<1>3. SpinTypeOK'
  BY <1>1, <1>2 DEF SpinInv, SpinTypeOK
<1>4. \A u \in Contexts \ {t} : pc[u] \notin {"save", "held", "release"}
  BY <1>1 DEF SpinInv, OwnerOK
<1>5. OwnerOK'
  BY <1>1, <1>2, <1>4, SpinLockAssumption DEF OwnerOK
<1>6. SavedOK'
  BY <1>1, <1>2 DEF SpinInv, SavedOK, Mixed
<1> QED
  BY <1>2, <1>3, <1>5, <1>6 DEF SpinInv

\* The last step of unlock() goes back to the level that was saved.
LEMMA LowerInv ==
  ASSUME SpinInv, UNCHANGED kind, NEW t \in Contexts, Lower(t)
  PROVE  SpinInv'
<1>1. /\ Running(t) /\ pc[t] = "lower" /\ UNCHANGED <<stack, owner, prevIrql, saved>>
      /\ irql' = [irql EXCEPT ![Home[t]] = saved[t]] /\ pc' = [pc EXCEPT ![t] = "out"]
  BY DEF Lower, At, Goto, SetIrql
<1>2. saved[t] = Level[t] /\ saved[t] \in Int
  BY <1>1, Zenon DEF SpinInv, SavedOK, SpinTypeOK
<1>3. /\ irql' \in [Cpus -> Int] /\ pc' \in [Contexts -> {"out", "spin", "try", "save", "held", "release", "lower"}]
      /\ StacksOK' /\ InCallRuns' /\ LevelsOK'
      /\ pc'[t] = "out" /\ \A u \in Contexts \ {t} : pc'[u] = pc[u]
  BY <1>1, <1>2, InPlace, Zenon
<1>4. SpinTypeOK'
  BY <1>1, <1>3 DEF SpinInv, SpinTypeOK
<1>5. OwnerOK' /\ SavedOK'
  BY <1>1, <1>3 DEF SpinInv, OwnerOK, SavedOK, Mixed
<1> QED
  BY <1>3, <1>4, <1>5 DEF SpinInv

\* unlock() of a lock for DPC level changes no level.
LEMMA UnlockDpcInv ==
  ASSUME SpinInv, UNCHANGED kind, NEW t \in Contexts, UnlockDpc(t)
  PROVE  SpinInv'
<1>1. /\ ~Mixed /\ Running(t) /\ pc[t] = "held" /\ UNCHANGED <<irql, stack, prevIrql, saved>>
      /\ owner' = Nobody /\ pc' = [pc EXCEPT ![t] = "out"]
  BY DEF UnlockDpc, At, Goto
<1>2. /\ pc' \in [Contexts -> {"out", "spin", "try", "save", "held", "release", "lower"}]
      /\ StacksOK' /\ InCallRuns' /\ LevelsOK'
      /\ pc'[t] = "out" /\ \A u \in Contexts \ {t} : pc'[u] = pc[u]
  BY <1>1, SameLevel, Zenon
<1>3. SpinTypeOK'
  BY <1>1, <1>2 DEF SpinInv, SpinTypeOK
<1>4. \A u \in Contexts \ {t} : pc[u] \notin {"save", "held", "release"}
  BY <1>1 DEF SpinInv, OwnerOK
<1>5. OwnerOK'
  BY <1>1, <1>2, <1>4, SpinLockAssumption DEF OwnerOK
<1>6. SavedOK'
  BY <1>1, <1>2 DEF SpinInv, SavedOK, Mixed
<1> QED
  BY <1>2, <1>3, <1>5, <1>6 DEF SpinInv

\* Nothing the invariant is about changes.
LEMMA SpinStutter ==
  ASSUME SpinInv, UNCHANGED vars
  PROVE  SpinInv'
<1>1. \A t \in Contexts : Running(t)' <=> Running(t)
  BY Zenon DEF vars, spinVars, Running, Top
<1>2. SpinTypeOK' /\ StacksOK'
  BY Zenon DEF SpinInv, vars, spinVars, SpinTypeOK, StacksOK, StackOK
<1>3. InCallRuns' /\ LevelsOK' /\ OwnerOK' /\ SavedOK'
  BY <1>1 DEF SpinInv, vars, spinVars, InCallRuns, LevelsOK, OwnerOK, SavedOK, Mixed
<1> QED
  BY <1>2, <1>3 DEF SpinInv

\* Every step of the lock and of the kernel keeps the invariant.
LEMMA SpinNextInv ==
  ASSUME SpinInv, [Next]_vars
  PROVE  SpinInv'
<1>1. ASSUME NEW t \in Contexts, UNCHANGED kind,
             Arrive(t) \/ Return(t) \/ LockStep(t) \/ UnlockStep(t)
      PROVE  SpinInv'
  <2>1. CASE Arrive(t)
    BY <1>1, <2>1, ArriveInv
  <2>2. CASE Return(t)
    BY <1>1, <2>2, ReturnInv
  <2>3. CASE LockMixed(t) \/ TryLockMixed(t)
    BY <1>1, <2>3, RaiseInv DEF LockMixed, TryLockMixed
  <2>4. CASE LockDpc(t, "spin") \/ LockDpc(t, "try")
    BY <1>1, <2>4, LockDpcInv
  <2>5. CASE Acquire(t)
    BY <1>1, <2>5, AcquireInv
  <2>6. CASE TryLockFails(t)
    BY <1>1, <2>6, TryLockFailsInv
  <2>7. CASE SaveIrql(t)
    BY <1>1, <2>7, SaveIrqlInv
  <2>8. CASE ReadIrql(t)
    BY <1>1, <2>8, ReadIrqlInv
  <2>9. CASE Release(t)
    BY <1>1, <2>9, ReleaseInv
  <2>10. CASE Lower(t)
    BY <1>1, <2>10, LowerInv
  <2>11. CASE UnlockDpc(t)
    BY <1>1, <2>11, UnlockDpcInv
  <2> QED
    BY <1>1, <2>1, <2>2, <2>3, <2>4, <2>5, <2>6, <2>7, <2>8, <2>9, <2>10, <2>11
    DEF LockStep, UnlockStep
<1> QED
  BY <1>1, SpinStutter DEF Next

-----------------------------------------------------------------------------
(***************************************************************************)
(* The dispatcher                                                          *)
(***************************************************************************)

Pieces == {"old arg", "reason", "arg", "unlock", "abort arg"}
Steps == {"entry", "context", "terminate", "abort", "handler"} \union Pieces
Later == {"terminate", "abort"}
Todos == {s \in Seq(Steps) : \A i \in 2..Len(s) : s[i] \in Later}
Reasons == Contexts \union {StdAbort}
Current(t) == IF todo[t] = <<>> THEN "none" ELSE Head(todo[t])

DispatcherTypeOK ==
  /\ todo \in [Contexts -> Todos]
  /\ context \in [reason : Reasons, arg : Reasons]
  /\ local \in [Contexts -> [reason : Reasons, arg : Reasons]]
  /\ bugcheck \in Contexts \union {Nobody}

\* A context is in the middle of set_context or abort only with the lock.
PiecesHeld == \A t \in Contexts : Current(t) \in Pieces => pc[t] = "held"

\* m_context is in pieces only between the two writes of one context.
ContextOK ==
  /\ context.reason = context.arg \/ \E t \in Contexts : Current(t) = "arg"
  /\ \A t \in Contexts : Current(t) = "arg" => context.reason = t

\* A copy is in pieces only between the two reads, and its first half is that
\* of m_context.
LocalOK ==
  \A t \in Contexts :
    /\ local[t].reason = local[t].arg \/ Current(t) \in {"old arg", "abort arg"}
    /\ Current(t) \in {"old arg", "abort arg"} => local[t].reason = context.reason

StoppedOK == bugcheck # Nobody => local[bugcheck].reason = local[bugcheck].arg

\* A spin_lock in the dispatcher's place has no dispatcher around it.
NoDispatcher == kind # DispatcherLock => \A t \in Contexts : todo[t] = <<>>

DispatcherInv ==
  DispatcherTypeOK /\ PiecesHeld /\ ContextOK /\ LocalOK /\ StoppedOK /\ NoDispatcher

TInv == SpinInv /\ DispatcherInv

\* What is left to do after a step: only its first element can be a piece.
LEMMA TodoSteps ==
  ASSUME NEW s \in Todos, s # <<>>
  PROVE  /\ Head(s) \in Steps
         /\ Tail(s) \in Todos /\ (Tail(s) # <<>> => Head(Tail(s)) \in Later)
         /\ \A x \in Steps : /\ <<x>> \o Tail(s) \in Todos
                             /\ <<x>> \o Tail(s) # <<>> /\ Head(<<x>> \o Tail(s)) = x
<1> DEFINE r == Tail(s)
<1>1. /\ s \in Seq(Steps) /\ r \in Seq(Steps) /\ Len(s) \in Nat /\ Len(r) = Len(s) - 1
      /\ \A i \in 1..Len(r) : r[i] = s[i + 1]
      /\ Head(s) = s[1] /\ Head(s) \in Steps
  BY DEF Todos
<1> HIDE DEF r
<1>2. \A i \in 1..Len(r) : r[i] \in Later
  BY <1>1 DEF Todos
<1>3. r \in Todos
  BY <1>1, <1>2 DEF Todos
<1>4. r # <<>> => Head(r) \in Later
  BY <1>1, <1>2
<1>5. ASSUME NEW x \in Steps
      PROVE  <<x>> \o r \in Todos /\ <<x>> \o r # <<>> /\ Head(<<x>> \o r) = x
  <2> DEFINE q == <<x>> \o r
  <2>1. /\ q \in Seq(Steps) /\ Len(q) = Len(r) + 1 /\ q[1] = x
        /\ \A i \in 2..Len(q) : q[i] = r[i - 1]
    BY <1>1
  <2> HIDE DEF q
  <2>2. \A i \in 2..Len(q) : q[i] \in Later
    BY <1>1, <1>2, <2>1
  <2>3. q # <<>> /\ Head(q) = x
    BY <1>1, <2>1
  <2> QED
    BY <2>1, <2>2, <2>3, Zenon DEF q, Todos
<1> QED
  BY <1>1, <1>3, <1>4, <1>5 DEF r

\* One context holds the lock.
LEMMA OneHolder ==
  ASSUME TInv, NEW t \in Contexts, NEW u \in Contexts, pc[t] = "held", pc[u] = "held"
  PROVE  t = u
BY DEF TInv, SpinInv, OwnerOK

\* Who is in the middle of an operation finds the others outside, and
\* m_context in one piece unless it is the one that writes it.
LEMMA Alone ==
  ASSUME TInv, NEW t \in Contexts, pc[t] = "held"
  PROVE  /\ \A u \in Contexts \ {t} : Current(u) \notin Pieces
         /\ Current(t) # "arg" => context.reason = context.arg
<1>1. \A u \in Contexts \ {t} : Current(u) \notin Pieces
  BY OneHolder DEF TInv, DispatcherInv, PiecesHeld
<1> QED
  BY <1>1, Zenon DEF TInv, DispatcherInv, ContextOK, Pieces

\* Steps of the lock: a context that is in the middle of an operation stays.
LEMMA QuietStep ==
  ASSUME TInv, UNCHANGED <<kind, todo, context, local, bugcheck>>,
         \A u \in Contexts : pc[u] = "held" /\ todo[u] # <<>> => pc'[u] = "held"
  PROVE  DispatcherInv'
<1> USE DEF TInv, DispatcherInv
<1>1. \A u \in Contexts : Current(u)' = Current(u)
  BY DEF Current
<1>2. PiecesHeld'
  BY <1>1, Zenon DEF PiecesHeld, Current, Pieces
<1>3. DispatcherTypeOK' /\ StoppedOK' /\ NoDispatcher'
  BY DEF DispatcherTypeOK, StoppedOK, NoDispatcher
<1>4. ContextOK' /\ LocalOK'
  BY <1>1, Zenon DEF ContextOK, LocalOK
<1> QED
  BY <1>2, <1>3, <1>4, Zenon

\* Steps from one part of a call to another that is not a piece.
LEMMA CallStep ==
  ASSUME TInv, kind = DispatcherLock, UNCHANGED <<kind, context, local, bugcheck>>,
         NEW t \in Contexts, NEW s \in Todos, todo' = [todo EXCEPT ![t] = s],
         s # <<>> => Head(s) \notin Pieces,
         Current(t) \notin {"old arg", "arg", "abort arg"},
         \A u \in Contexts \ {t} : pc'[u] = pc[u]
  PROVE  DispatcherInv'
<1> USE DEF TInv, DispatcherInv
<1>1. /\ todo' \in [Contexts -> Todos] /\ todo'[t] = s /\ \A u \in Contexts \ {t} : todo'[u] = todo[u]
  BY Zenon DEF DispatcherTypeOK
<1>2. /\ Current(t)' \notin Pieces /\ \A u \in Contexts \ {t} : Current(u)' = Current(u)
  BY <1>1, Zenon DEF Current, Pieces
<1>3. DispatcherTypeOK' /\ StoppedOK' /\ NoDispatcher'
  BY <1>1, Zenon DEF DispatcherTypeOK, StoppedOK, NoDispatcher
<1>4. PiecesHeld'
  BY <1>2, Zenon DEF PiecesHeld
<1>5. ContextOK' /\ LocalOK'
  BY <1>2, Zenon DEF ContextOK, LocalOK, Pieces
<1> QED
  BY <1>3, <1>4, <1>5, Zenon

\* Reading the first half of m_context: the lock keeps the writers away.
LEMMA FirstReadStep ==
  ASSUME TInv, kind = DispatcherLock, UNCHANGED <<kind, pc, context, bugcheck>>,
         NEW t \in Contexts, NEW next \in {"old arg", "abort arg"}, NEW s \in Todos,
         s # <<>>, Head(s) = next,
         pc[t] = "held", Current(t) \in {"context", "abort"}, bugcheck = Nobody,
         todo' = [todo EXCEPT ![t] = s],
         local' = [local EXCEPT ![t].reason = context.reason]
  PROVE  DispatcherInv'
<1> USE DEF TInv, DispatcherInv
<1>1. /\ todo' \in [Contexts -> Todos] /\ Current(t)' = next
      /\ \A u \in Contexts \ {t} : todo'[u] = todo[u] /\ Current(u)' = Current(u)
  BY Zenon DEF DispatcherTypeOK, Current
<1>2. /\ local' \in [Contexts -> [reason : Reasons, arg : Reasons]]
      /\ local'[t].reason = context.reason
      /\ \A u \in Contexts \ {t} : local'[u] = local[u]
  BY Zenon DEF DispatcherTypeOK
<1>3. DispatcherTypeOK' /\ StoppedOK' /\ NoDispatcher'
  BY <1>1, <1>2, Zenon DEF DispatcherTypeOK, StoppedOK, NoDispatcher
<1>4. PiecesHeld'
  BY <1>1, Zenon DEF PiecesHeld
<1>5. ContextOK'
  BY <1>1, Zenon DEF ContextOK
<1>6. LocalOK'
  BY <1>1, <1>2, Zenon DEF LocalOK
<1> QED
  BY <1>3, <1>4, <1>5, <1>6, Zenon

\* Reading the second half: it belongs to the first.
LEMMA SecondReadStep ==
  ASSUME TInv, kind = DispatcherLock, UNCHANGED <<kind, pc, context>>,
         NEW t \in Contexts, NEW s \in Todos, bugcheck = Nobody,
         s # <<>> => Head(s) \notin {"old arg", "arg", "abort arg"},
         bugcheck' \in {Nobody, t},
         pc[t] = "held", Current(t) \in {"old arg", "abort arg"},
         todo' = [todo EXCEPT ![t] = s],
         local' = [local EXCEPT ![t].arg = context.arg]
  PROVE  DispatcherInv'
<1> USE DEF TInv, DispatcherInv
<1>1. /\ todo' \in [Contexts -> Todos] /\ Current(t)' \notin {"old arg", "arg", "abort arg"}
      /\ \A u \in Contexts \ {t} : todo'[u] = todo[u] /\ Current(u)' = Current(u)
  BY Zenon DEF DispatcherTypeOK, Current
<1>2. /\ local' \in [Contexts -> [reason : Reasons, arg : Reasons]]
      /\ local'[t].reason = local[t].reason /\ local'[t].arg = context.arg
      /\ \A u \in Contexts \ {t} : local'[u] = local[u]
  BY Zenon DEF DispatcherTypeOK
<1>3. context.reason = context.arg /\ local[t].reason = context.reason
  BY Alone, Zenon DEF LocalOK
<1>4. DispatcherTypeOK' /\ NoDispatcher'
  BY <1>1, <1>2, Zenon DEF DispatcherTypeOK, NoDispatcher
<1>5. StoppedOK'
  BY <1>2, <1>3, Zenon DEF StoppedOK
<1>6. PiecesHeld'
  BY <1>1, Zenon DEF PiecesHeld
<1>7. ContextOK'
  BY <1>1, <1>3, Zenon DEF ContextOK
<1>8. LocalOK'
  BY <1>1, <1>2, <1>3, ZenonT(60) DEF LocalOK
<1> QED
  BY <1>4, <1>5, <1>6, <1>7, <1>8, Zenon

\* Writing m_context, one half after the other.
LEMMA WriteStep ==
  ASSUME TInv, kind = DispatcherLock, UNCHANGED <<kind, pc, local, bugcheck>>,
         NEW t \in Contexts, NEW s \in Todos, s # <<>>, pc[t] = "held",
         todo' = [todo EXCEPT ![t] = s],
         \/ Current(t) = "reason" /\ Head(s) = "arg" /\ context' = [context EXCEPT !.reason = t]
         \/ Current(t) = "arg" /\ Head(s) = "unlock" /\ context' = [context EXCEPT !.arg = t]
  PROVE  DispatcherInv'
<1> USE DEF TInv, DispatcherInv
<1>1. /\ todo' \in [Contexts -> Todos] /\ Current(t)' = Head(s)
      /\ \A u \in Contexts \ {t} : todo'[u] = todo[u] /\ Current(u)' = Current(u)
  BY DEF DispatcherTypeOK, Current
<1>2. /\ context' \in [reason : Reasons, arg : Reasons]
      /\ Current(t) = "reason" => context'.reason = t
      /\ Current(t) = "arg" => context'.arg = t /\ context'.reason = context.reason
  BY DEF DispatcherTypeOK, Reasons
<1>3. \A u \in Contexts \ {t} : Current(u) \notin Pieces
  BY Alone
<1>4. DispatcherTypeOK' /\ NoDispatcher' /\ StoppedOK'
  BY <1>1, <1>2 DEF DispatcherTypeOK, NoDispatcher, StoppedOK
<1>5. PiecesHeld'
  BY <1>1 DEF PiecesHeld
<1>6. ContextOK'
  BY <1>1, <1>2, <1>3, Zenon DEF ContextOK, Pieces
<1>7. LocalOK'
  BY <1>1, <1>3, ZenonT(60) DEF LocalOK, Pieces
<1> QED
  BY <1>4, <1>5, <1>6, <1>7

-----------------------------------------------------------------------------
\* The dispatcher's lock raises the level.
LEMMA DispatcherMixed == kind = DispatcherLock => Mixed
BY DEF DispatcherLock, Mixed, PASSIVE_LEVEL, APC_LEVEL

\* What Doing says about the first step that is left.
LEMMA DoingCurrent ==
  ASSUME TInv, NEW t \in Contexts, NEW label, NEW x, Doing(t, label, x)
  PROVE  /\ pc[t] = label /\ Current(t) = x
         /\ todo[t] \in Todos /\ todo[t] # <<>>
BY DEF TInv, DispatcherInv, DispatcherTypeOK, Doing, At, Current

\* What the entry points and terminate leave a context to do.
LEMMA FirstSteps ==
  /\ <<"context">> \in Todos /\ Head(<<"context">>) \notin Pieces
  /\ <<"context", "terminate">> \in Todos /\ Head(<<"context", "terminate">>) \notin Pieces
  /\ <<"terminate">> \in Todos /\ Head(<<"terminate">>) \notin Pieces
  /\ <<"abort">> \in Todos /\ Head(<<"abort">>) \notin Pieces
  /\ <<"handler", "abort">> \in Todos /\ Head(<<"handler", "abort">>) \notin Pieces
  /\ <<"abort arg">> \in Todos /\ <<"abort arg">> # <<>> /\ Head(<<"abort arg">>) = "abort arg"
<1>1. \A x \in Steps : <<x>> \in Todos /\ <<x>> # <<>> /\ Head(<<x>>) = x
  BY DEF Todos
<1>2. \A x \in Steps, y \in Later : <<x, y>> \in Todos /\ Head(<<x, y>>) = x
  BY DEF Todos, Steps, Later
<1>3. /\ {"context", "terminate", "abort", "handler", "abort arg"} \subseteq Steps
      /\ {"terminate", "abort"} \subseteq Later
      /\ {"context", "terminate", "abort", "handler"} \intersect Pieces = {}
  BY DEF Steps, Pieces, Later
<1>4. \A x \in {"context", "terminate", "abort"} : <<x>> \in Todos /\ Head(<<x>>) \notin Pieces
  BY <1>1, <1>3, Zenon
<1>5. \A x \in {"context", "handler"}, y \in Later : <<x, y>> \in Todos /\ Head(<<x, y>>) \notin Pieces
  BY <1>2, <1>3, Zenon
<1> QED
  BY <1>1, <1>3, <1>4, <1>5, Zenon

\* A context enters the dispatcher, or leaves it.
LEMMA StartInv ==
  ASSUME TInv, kind = DispatcherLock, UNCHANGED kind, NEW t \in Contexts, Start(t)
  PROVE  TInv'
<1>1. SpinInv'
  BY ArriveInv DEF TInv, Start
<1>2. /\ UNCHANGED <<pc, context, local, bugcheck>>
      /\ todo' = [todo EXCEPT ![t] = <<"entry">>]
  BY DEF Start, Arrive
<1>3. Current(t) \notin Pieces
  <2>1. ~Running(t)
    BY RunningOnStack DEF TInv, SpinInv, Start, Arrive
  <2> QED
    BY <2>1 DEF TInv, SpinInv, DispatcherInv, InCallRuns, PiecesHeld
<1>4. <<"entry">> \in Todos /\ <<"entry">> # <<>> /\ Head(<<"entry">>) \notin Pieces
  BY DEF Todos, Steps, Pieces
<1>5. DispatcherInv'
  BY <1>2, <1>3, <1>4, CallStep, Zenon DEF Pieces
<1> QED
  BY <1>1, <1>5 DEF TInv

\* A context that has finished its call returns.
LEMMA LeaveInv ==
  ASSUME TInv, kind = DispatcherLock, UNCHANGED kind, NEW t \in Contexts, Leave(t)
  PROVE  TInv'
<1>1. SpinInv'
  BY ReturnInv, ZenonT(60) DEF TInv, Leave
<1>2. DispatcherInv'
  BY QuietStep DEF Leave, Return, dispatcher
<1> QED
  BY <1>1, <1>2 DEF TInv

\* The entry points of the dispatcher, none of which holds the lock.
LEMMA EnterInv ==
  ASSUME TInv, kind = DispatcherLock, UNCHANGED kind, NEW t \in Contexts, Enter(t)
  PROVE  TInv'
<1>1. ASSUME NEW steps \in Todos, steps # <<>> => Head(steps) \notin Pieces,
             Doing(t, "out", "entry"), todo' = [todo EXCEPT ![t] = steps],
             UNCHANGED <<spinVars, context, local, bugcheck>>
      PROVE  TInv'
  <2>1. SpinInv'
    BY <1>1, SpinStutter DEF TInv, vars
  <2>2. Current(t) = "entry" /\ \A u \in Contexts \ {t} : pc'[u] = pc[u]
    BY <1>1, DoingCurrent DEF spinVars
  <2>3. DispatcherInv'
    BY <1>1, <2>2, CallStep, Zenon
  <2> QED
    BY <2>1, <2>3 DEF TInv
<1>2. ASSUME NEW steps \in {<<"context">>, <<"context", "terminate">>, <<"terminate">>, <<"abort">>}, Call(t, steps)
      PROVE  TInv'
  <2>1. steps \in Todos /\ Head(steps) \notin Pieces
    BY <1>2, FirstSteps, Zenon
  <2>2. /\ Doing(t, "out", "entry") /\ todo' = [todo EXCEPT ![t] = steps]
        /\ UNCHANGED <<spinVars, context, local, bugcheck>>
    BY <1>2 DEF Call
  <2> QED
    BY <1>1, <2>1, <2>2, Zenon
<1>3. CASE SetTerminationContext(t)
  BY <1>2, <1>3 DEF SetTerminationContext
<1>4. CASE Fatal(t)
  BY <1>2, <1>4 DEF Fatal
<1>5. CASE Terminate(t)
  BY <1>2, <1>5 DEF Terminate
<1>6. CASE Abort(t)
  BY <1>2, <1>6 DEF Abort
<1>7. CASE SetHandler(t)
  <2>1. Tail(todo[t]) \in Todos /\ (Tail(todo[t]) # <<>> => Head(Tail(todo[t])) \notin Pieces)
    BY <1>7, DoingCurrent, TodoSteps, Zenon DEF SetHandler, Later, Pieces
  <2> QED
    BY <1>1, <1>7, <2>1, Zenon DEF SetHandler, Advance
<1> QED
  BY <1>3, <1>4, <1>5, <1>6, <1>7 DEF Enter

\* The lock is taken and released around the pieces.
LEMMA AcquireLockInv ==
  ASSUME TInv, kind = DispatcherLock, UNCHANGED kind, NEW t \in Contexts, AcquireLock(t)
  PROVE  TInv'
<1>1. \/ Raise(t, "spin") \/ Acquire(t) \/ SaveIrql(t)
  BY DEF AcquireLock
<1>2. SpinInv'
  BY <1>1, RaiseInv, AcquireInv, SaveIrqlInv, DispatcherMixed, ZenonT(60) DEF TInv
<1>3. /\ UNCHANGED <<todo, context, local, bugcheck>>
      /\ pc[t] # "held" /\ \E to : pc' = [pc EXCEPT ![t] = to]
  BY <1>1 DEF AcquireLock, dispatcher, Raise, Acquire, SaveIrql, At, Goto
<1>4. DispatcherInv'
  BY <1>3, QuietStep, Zenon DEF TInv, SpinInv, SpinTypeOK
<1> QED
  BY <1>2, <1>4 DEF TInv

\* set_context gives the lock back when both its fields are written.
LEMMA ReleaseLockInv ==
  ASSUME TInv, kind = DispatcherLock, UNCHANGED kind, NEW t \in Contexts, ReleaseLock(t)
  PROVE  TInv'
<1>1. CASE Release(t) \/ Lower(t)
  <2>1. SpinInv'
    BY <1>1, ReleaseInv, LowerInv DEF TInv
  <2>2. pc[t] # "held" /\ \E to : pc' = [pc EXCEPT ![t] = to]
    BY <1>1 DEF Release, Lower, At, Goto
  <2>3. UNCHANGED <<todo, context, local, bugcheck>>
    BY <1>1, Zenon DEF ReleaseLock, dispatcher, Release, Lower, ReadIrql, At
  <2>4. DispatcherInv'
    BY <2>2, <2>3, QuietStep DEF TInv, SpinInv, SpinTypeOK
  <2> QED
    BY <2>1, <2>4 DEF TInv
<1>2. CASE ~(Release(t) \/ Lower(t))
  <2>1. /\ Doing(t, "held", "unlock") /\ ReadIrql(t) /\ todo' = [todo EXCEPT ![t] = Tail(todo[t])]
        /\ UNCHANGED <<context, local, bugcheck>>
    BY <1>2 DEF ReleaseLock, Advance
  <2>2. SpinInv'
    BY <2>1, ReadIrqlInv DEF TInv
  <2>3. \A u \in Contexts \ {t} : pc'[u] = pc[u]
    BY <2>1 DEF ReadIrql, Goto, TInv, SpinInv, SpinTypeOK
  <2>4. /\ Current(t) = "unlock"
        /\ Tail(todo[t]) \in Todos /\ (Tail(todo[t]) # <<>> => Head(Tail(todo[t])) \notin Pieces)
    BY <2>1, DoingCurrent, TodoSteps, Zenon DEF Later, Pieces
  <2>5. DispatcherInv'
    BY <2>1, <2>3, <2>4, CallStep, Zenon
  <2> QED
    BY <2>2, <2>5 DEF TInv
<1> QED
  BY <1>1, <1>2

\* The pieces of set_context and of abort.
LEMMA SetContextInv ==
  ASSUME TInv, kind = DispatcherLock, UNCHANGED kind, bugcheck = Nobody, NEW t \in Contexts, SetContext(t)
  PROVE  TInv'
<1>1. UNCHANGED <<spinVars, bugcheck>>
  BY Zenon DEF SetContext, CopyOut, Write
<1>2. SpinInv' /\ UNCHANGED pc
  BY <1>1, SpinStutter, ZenonT(60) DEF TInv, vars, spinVars
<1>3. ASSUME NEW x \in Steps, NEW y, Doing(t, "held", y)
      PROVE  /\ <<x>> \o Tail(todo[t]) \in Todos /\ <<x>> \o Tail(todo[t]) # <<>>
             /\ Head(<<x>> \o Tail(todo[t])) = x
             /\ pc[t] = "held" /\ Current(t) = y
  BY <1>3, DoingCurrent, TodoSteps
<1>4. CASE CopyOut(t, "reason", "context", "old arg")
  <2>1. /\ Doing(t, "held", "context") /\ UNCHANGED context
        /\ local' = [local EXCEPT ![t].reason = context.reason]
        /\ todo' = [todo EXCEPT ![t] = <<"old arg">> \o Tail(todo[t])]
    BY <1>4, Zenon DEF CopyOut
  <2>2. DispatcherInv'
    BY <1>1, <1>2, <1>3, <2>1, FirstReadStep, Zenon DEF Steps, Pieces
  <2> QED
    BY <1>2, <2>2 DEF TInv
<1>5. CASE CopyOut(t, "arg", "old arg", "reason")
  <2>1. /\ Doing(t, "held", "old arg") /\ UNCHANGED context
        /\ local' = [local EXCEPT ![t].arg = context.arg]
        /\ todo' = [todo EXCEPT ![t] = <<"reason">> \o Tail(todo[t])]
    BY <1>5, Zenon DEF CopyOut
  <2> DEFINE s == <<"reason">> \o Tail(todo[t])
  <2>2. s \in Todos /\ Head(s) = "reason" /\ pc[t] = "held" /\ Current(t) = "old arg"
    BY <1>3, <2>1, Zenon DEF Steps, Pieces
  <2> HIDE DEF s
  <2>3. DispatcherInv'
    <3>1. todo' = [todo EXCEPT ![t] = s]
      BY <2>1, Zenon DEF s
    <3> QED
      BY <1>1, <1>2, <2>1, <2>2, <3>1, SecondReadStep, Zenon
  <2> QED
    BY <1>2, <2>3 DEF TInv
<1>6. CASE Write(t, "reason", "reason", "arg")
  <2>1. /\ Doing(t, "held", "reason") /\ UNCHANGED local
        /\ context' = [context EXCEPT !.reason = t]
        /\ todo' = [todo EXCEPT ![t] = <<"arg">> \o Tail(todo[t])]
    BY <1>6, Zenon DEF Write
  <2>2. DispatcherInv'
    BY <1>1, <1>2, <1>3, <2>1, WriteStep, Zenon DEF Steps, Pieces
  <2> QED
    BY <1>2, <2>2 DEF TInv
<1>7. CASE Write(t, "arg", "arg", "unlock")
  <2>1. /\ Doing(t, "held", "arg") /\ UNCHANGED local
        /\ context' = [context EXCEPT !.arg = t]
        /\ todo' = [todo EXCEPT ![t] = <<"unlock">> \o Tail(todo[t])]
    BY <1>7, Zenon DEF Write
  <2>2. DispatcherInv'
    BY <1>1, <1>2, <1>3, <2>1, WriteStep, Zenon DEF Steps, Pieces
  <2> QED
    BY <1>2, <2>2 DEF TInv
<1> QED
  BY <1>4, <1>5, <1>6, <1>7, Zenon DEF SetContext

\* abort copies the context with the lock held, and keeps the lock.
LEMMA AbortInv ==
  ASSUME TInv, kind = DispatcherLock, UNCHANGED kind, bugcheck = Nobody, NEW t \in Contexts,
         CopyContext(t) \/ BugCheck(t)
  PROVE  TInv'
<1>1. SpinInv' /\ UNCHANGED <<pc, context>>
  BY SpinStutter, Zenon DEF TInv, vars, spinVars, CopyContext, BugCheck
<1>2. CASE CopyContext(t)
  <2>1. <<"abort arg">> \in Todos /\ <<"abort arg">> # <<>> /\ Head(<<"abort arg">>) = "abort arg"
    BY FirstSteps, Zenon
  <2>2. /\ Doing(t, "held", "abort") /\ UNCHANGED bugcheck
        /\ local' = [local EXCEPT ![t].reason = context.reason]
        /\ todo' = [todo EXCEPT ![t] = <<"abort arg">>]
    BY <1>2, Zenon DEF CopyContext
  <2>3. pc[t] = "held" /\ Current(t) = "abort"
    BY <2>2, DoingCurrent, Zenon
  <2>4. DispatcherInv'
    BY <1>1, <2>1, <2>2, <2>3, FirstReadStep, Zenon
  <2> QED
    BY <1>1, <2>4 DEF TInv
<1>3. CASE BugCheck(t)
  <2>1. /\ Doing(t, "held", "abort arg") /\ bugcheck' = t
        /\ local' = [local EXCEPT ![t].arg = context.arg]
        /\ todo' = [todo EXCEPT ![t] = Tail(todo[t])]
    BY <1>3, Zenon DEF BugCheck, Advance
  <2>2. /\ pc[t] = "held" /\ Current(t) = "abort arg"
        /\ Tail(todo[t]) \in Todos /\ (Tail(todo[t]) # <<>> => Head(Tail(todo[t])) \notin Pieces)
    BY <2>1, DoingCurrent, TodoSteps, Zenon DEF Later, Pieces
  <2>3. DispatcherInv'
    BY <1>1, <2>1, <2>2, SecondReadStep, Zenon DEF Pieces
  <2> QED
    BY <1>1, <2>3 DEF TInv
<1> QED
  BY <1>2, <1>3

\* terminate calls the handler and goes on to abort.
LEMMA HandlerInv ==
  ASSUME TInv, kind = DispatcherLock, UNCHANGED kind, NEW t \in Contexts,
         CallHandler(t) \/ HandlerReturns(t)
  PROVE  TInv'
<1>1. SpinInv' /\ UNCHANGED <<pc, context, local, bugcheck>>
  BY SpinStutter DEF TInv, vars, spinVars, CallHandler, HandlerReturns
<1>2. Current(t) \notin {"old arg", "arg", "abort arg"}
  <2>1. Doing(t, "out", "terminate") \/ Doing(t, "out", "handler")
    BY DEF CallHandler, HandlerReturns
  <2>2. Current(t) = "terminate" \/ Current(t) = "handler"
    BY <2>1, DoingCurrent
  <2> QED
    BY <2>2, Zenon
<1>3. ASSUME NEW s \in Todos, todo' = [todo EXCEPT ![t] = s], s # <<>> => Head(s) \notin Pieces
      PROVE  TInv'
  <2>1. DispatcherInv'
    BY <1>1, <1>2, <1>3, CallStep, Zenon
  <2> QED
    BY <1>1, <2>1 DEF TInv
<1>4. CASE CallHandler(t)
  <2>1. \/ todo' = [todo EXCEPT ![t] = <<"abort">>]
        \/ todo' = [todo EXCEPT ![t] = <<"handler", "abort">>]
    BY <1>4, Zenon DEF CallHandler
  <2> QED
    BY <1>3, <2>1, FirstSteps, Zenon
<1>5. CASE HandlerReturns(t)
  <2>1. Tail(todo[t]) \in Todos /\ (Tail(todo[t]) # <<>> => Head(Tail(todo[t])) \notin Pieces)
    BY <1>5, DoingCurrent, TodoSteps, Zenon DEF HandlerReturns, Later, Pieces
  <2>2. todo' = [todo EXCEPT ![t] = Tail(todo[t])]
    BY <1>5 DEF HandlerReturns, Advance
  <2> QED
    BY <1>3, <2>1, <2>2, Zenon
<1> QED
  BY <1>4, <1>5

\* A spin_lock in the place of the dispatcher.
LEMMA SpinLockStepInv ==
  ASSUME TInv, SpinLockStep
  PROVE  TInv'
<1>1. kind # DispatcherLock /\ Next /\ UNCHANGED <<kind, context, todo, local, bugcheck>>
  BY DEF SpinLockStep, dispatcher, Next
<1>2. SpinInv'
  BY <1>1, SpinNextInv, Zenon DEF TInv
<1>3. \A u \in Contexts : todo[u] = <<>>
  BY <1>1, ZenonT(60) DEF TInv, DispatcherInv, NoDispatcher
<1>4. DispatcherInv'
  BY <1>1, <1>3, QuietStep
<1> QED
  BY <1>2, <1>4 DEF TInv

\* The first context is whole: std::abort is its reason.
LEMMA TInitInv == ASSUME TInit PROVE TInv
<1>1. SpinInv
  BY SpinInitInv DEF TInit
<1>2. DispatcherTypeOK
  BY DEF TInit, DispatcherTypeOK, Todos, Reasons
<1>3. \A t \in Contexts : todo[t] = <<>> /\ Current(t) = "none"
  BY DEF TInit, SpinInit, Current
<1>4. DispatcherInv
  BY <1>2, <1>3, Zenon DEF TInit, SpinInit, DispatcherInv, PiecesHeld, ContextOK, LocalOK,
     StoppedOK, NoDispatcher, Pieces
<1> QED
  BY <1>1, <1>4 DEF TInv

\* Every step of the machine keeps TInv.
LEMMA TNextInv == ASSUME TInv, [TNext]_allVars PROVE TInv'
<1>1. CASE SpinLockStep
  BY <1>1, SpinLockStepInv
<1>2. ASSUME NEW t \in Contexts, Starts(t)
      PROVE  TInv'
  BY <1>2, StartInv DEF Starts
<1>3. ASSUME NEW t \in Contexts, Runs(t)
      PROVE  TInv'
  <2>1. /\ kind = DispatcherLock /\ UNCHANGED kind /\ bugcheck = Nobody
        /\ Enter(t) \/ Work(t) \/ Leave(t)
    BY <1>3 DEF Runs
  <2>2. CASE Enter(t)
    BY <2>1, <2>2, EnterInv
  <2>3. CASE Leave(t)
    BY <2>1, <2>3, LeaveInv
  <2>4. CASE AcquireLock(t)
    BY <2>1, <2>4, AcquireLockInv
  <2>5. CASE SetContext(t)
    BY <2>1, <2>5, SetContextInv
  <2>6. CASE ReleaseLock(t)
    BY <2>1, <2>6, ReleaseLockInv
  <2>7. CASE CallHandler(t) \/ HandlerReturns(t)
    BY <2>1, <2>7, HandlerInv
  <2>8. CASE CopyContext(t) \/ BugCheck(t)
    BY <2>1, <2>8, AbortInv
  <2> QED
    BY <2>1, <2>2, <2>3, <2>4, <2>5, <2>6, <2>7, <2>8 DEF Work
<1>4. CASE UNCHANGED allVars
  <2>1. UNCHANGED <<vars, pc, kind, context, todo, local, bugcheck>>
    BY <1>4 DEF allVars, vars, spinVars, dispatcher
  <2>2. SpinInv'
    BY <2>1, SpinStutter DEF TInv
  <2>3. DispatcherInv'
    BY <2>1, QuietStep
  <2> QED
    BY <2>2, <2>3 DEF TInv
<1> QED
  BY <1>1, <1>2, <1>3, <1>4 DEF TNext

-----------------------------------------------------------------------------
(***************************************************************************)
(* Theorems                                                                *)
(***************************************************************************)

\* The invariant says what the two properties of the spin lock say.
LEMMA SpinInvSound == ASSUME SpinInv PROVE SpinLocksSound
<1>1. IrqlRestored
  BY DEF SpinInv, LevelsOK, IrqlRestored, At
<1>2. HolderRuns
  BY DEF SpinInv, SpinTypeOK, OwnerOK, InCallRuns, HolderRuns
<1> QED
  BY <1>1, <1>2 DEF SpinLocksSound

\* spin_lock by itself: whatever contexts use it, from any level between its
\* MinIrql and DISPATCH_LEVEL, its holder is the running context of its
\* processor, and a context that leaves lock(), a failed try_lock() or
\* unlock() is back at its own level although m_prev_irql is shared.
THEOREM SpinLockSound == Spec => []SpinLocksSound
<1>1. Init => SpinInv
  BY SpinInitInv DEF Init
<1>2. SpinInv /\ [Next]_vars => SpinInv'
  BY SpinNextInv
<1>3. SpinInv => SpinLocksSound
  BY SpinInvSound
<1> QED
  BY <1>1, <1>2, <1>3, PTL DEF Spec

\* The dispatcher keeps its invariant in every behaviour.
LEMMA TInvariant == TSpec => []TInv
<1>1. TInit => TInv
  BY TInitInv
<1>2. TInv /\ [TNext]_allVars => TInv'
  BY TNextInv
<1> QED
  BY <1>1, <1>2, PTL DEF TSpec

\* The same of the dispatcher's own lock, and of a spin_lock in its place:
\* terminate_dispatcher raises to HIGH_LEVEL, and interrupt routines take it.
THEOREM DispatcherLockSound == TSpec => []SpinLocksSound
<1>1. TInv => SpinLocksSound
  BY SpinInvSound DEF TInv
<1> QED
  BY <1>1, TInvariant, PTL

\* The bug check and every caller of set_context get a context that one call
\* wrote: both halves of m_context come from the same writer, for any number
\* of threads and interrupt routines on any number of processors.
THEOREM ContextNeverTorn == TSpec => []ContextUntorn
<1>1. TInv => ContextUntorn
  <2> SUFFICES ASSUME TInv
               PROVE  ContextUntorn
    OBVIOUS
  <2>1. ASSUME NEW t \in Contexts, At(t, "out")
        PROVE  local[t].reason = local[t].arg
    BY <2>1, Zenon DEF TInv, DispatcherInv, PiecesHeld, LocalOK, Pieces, At
  <2> QED
    BY <2>1 DEF TInv, DispatcherInv, StoppedOK, ContextUntorn
<1> QED
  BY <1>1, TInvariant, PTL
=============================================================================
