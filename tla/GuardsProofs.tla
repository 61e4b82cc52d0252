---------------------------- MODULE GuardsProofs ----------------------------
(***************************************************************************)
(* Proofs about the guards over mutexes, for any threads and mutexes, and  *)
(* stacks of guards of any height.                                         *)
(*                                                                         *)
(* A guard's operation changes one thread's state s, a record, so that     *)
(* most lemmas are about records.  Good(s) says what each operation keeps: *)
(* every acquisition of a mutex is owed by one guard or was made by hand,  *)
(* the critical region is entered once for each acquisition of a mutex     *)
(* that enters it, and the levels that the guards will restore fit each    *)
(* other (Level).  Counted(s, m, d) is the first of these in the middle of *)
(* an operation, when d acquisitions of m are owed by nobody.  Alone is    *)
(* about two threads: a mutex that one has exclusively no other has.       *)
(***************************************************************************)
EXTENDS Guards, FiniteSetTheorems, TLAPS

GuardTypes == {"lock_guard", "unique_lock", "shared_lock", "irql_guard"}
Levels == {PASSIVE_LEVEL, DISPATCH_LEVEL}
AGuard ==
  [type : GuardTypes, mtx : GMutexes \union {NoMutex}, owned : BOOLEAN, old : Levels, access : {"none", "read", "write"}]
AState ==
  [excl : [GMutexes -> Nat], shrd : [GMutexes -> Nat], region : Int, irql : Levels, guards : Seq(AGuard), raw : [GMutexes -> Nat]]

\* What the type of a guard says of its members.
Formed(g) ==
  /\ g.owned => g.mtx \in GMutexes
  /\ g.type = "lock_guard" => g.owned
  /\ g.type = "irql_guard" => ~g.owned /\ g.access = "none"
  /\ g.type \in {"unique_lock", "shared_lock"} /\ g.mtx # NoMutex => Kind[g.mtx] # "queued"
  /\ g.access # "none" => g.owned
  /\ g.access = "write" => g.type = "lock_guard"
  /\ g.type = "unique_lock" => g.access = "none"

Held(s, m) == s.excl[m] + s.shrd[m]
Acquisitions(s) == UNION {{m} \X (1..Held(s, m)) : m \in {m \in GMutexes : EntersRegion(m)}}

\* A mutex is held in one mode, and shared only if it can be; who may write does not hold it shared; the region is left when
\* the last resource or push lock is.
Sound(s) ==
  /\ s \in AState
  /\ \A i \in DOMAIN s.guards : Formed(s.guards[i])
  /\ \A m \in GMutexes : s.excl[m] = 0 \/ s.shrd[m] = 0
  /\ \A i \in DOMAIN s.guards : s.guards[i].access = "write" => s.shrd[s.guards[i].mtx] = 0
  /\ IsFiniteSet(Acquisitions(s)) /\ s.region = Cardinality(Acquisitions(s))

\* The guards that are to unlock m.
Owes(g, m) == g.owned /\ g.mtx = m
Owing(q, m) == {i \in DOMAIN q : Owes(q[i], m)}

\* Every acquisition is a guard's or was made by hand, but for d of m.
Counted(s, m, d) ==
  \A x \in GMutexes : Held(s, x) = s.raw[x] + Cardinality(Owing(s.guards, x)) + (IF x = m THEN d ELSE 0)

\* The level is raised while a guard wants it, and the guard knows whether an earlier one does.
Level(irql_, q) ==
  /\ irql_ = DISPATCH_LEVEL <=> \E i \in DOMAIN q : Raises(q[i])
  /\ \A i \in DOMAIN q : Raises(q[i]) => (q[i].old = DISPATCH_LEVEL <=> \E j \in 1..(i - 1) : Raises(q[j]))

\* The i-th guard of s is g; e acquisitions of m more are by hand; a guard with another mutex.
WithGuard(s, i, g) == [s EXCEPT !.guards[i] = g]
WithRaw(s, m, e) == [s EXCEPT !.raw[m] = s.raw[m] + e]
Moved(g, x, b) == [g EXCEPT !.mtx = x, !.owned = b]

Good(s) == Sound(s) /\ Level(s.irql, s.guards) /\ \A m : Counted(s, m, 0)

-----------------------------------------------------------------------------
\* What the steps of a call are made of: q gets a guard, loses the last one, or has another i-th one.
LEMMA Appended ==
  ASSUME NEW q \in Seq(AGuard), NEW g \in AGuard
  PROVE  /\ Append(q, g) \in Seq(AGuard) /\ Len(Append(q, g)) = Len(q) + 1
         /\ DOMAIN Append(q, g) = 1..(Len(q) + 1) /\ DOMAIN q = 1..Len(q) /\ Len(q) \in Nat
         /\ Append(q, g)[Len(q) + 1] = g
         /\ \A i \in 1..Len(q) : Append(q, g)[i] = q[i]
OBVIOUS

\* SubSeq as destroy() uses it.
LEMMA Popped ==
  ASSUME NEW q \in Seq(AGuard), q # <<>>
  PROVE  LET p == SubSeq(q, 1, Len(q) - 1)
         IN /\ p \in Seq(AGuard) /\ Len(p) = Len(q) - 1 /\ Len(q) \in Nat \ {0}
            /\ DOMAIN p = 1..(Len(q) - 1) /\ DOMAIN q = 1..Len(q)
            /\ \A i \in 1..(Len(q) - 1) : p[i] = q[i]
<1> DEFINE k == Len(q) - 1
           p == SubSeq(q, 1, k)
<1>1. Len(q) \in Nat \ {0} /\ DOMAIN q = 1..Len(q)
  OBVIOUS
<1>2. k \in Nat /\ k < Len(q)
  BY <1>1
<1> HIDE DEF k
<1>3. Len(p) = k /\ DOMAIN p = 1..k
  BY <1>1, <1>2
<1>4. \A i \in 1..k : p[i] = q[i]
  BY <1>1, <1>2
<1>5. p \in Seq(AGuard)
  BY <1>1, <1>2
<1> QED
  BY <1>1, <1>3, <1>4, <1>5, Zenon DEF k

\* The i-th guard is changed.
LEMMA Replaced ==
  ASSUME NEW q \in Seq(AGuard), NEW i \in DOMAIN q, NEW g \in AGuard
  PROVE  LET p == [q EXCEPT ![i] = g]
         IN /\ p \in Seq(AGuard) /\ DOMAIN p = DOMAIN q /\ Len(p) = Len(q) /\ p[i] = g
            /\ \A j \in DOMAIN q \ {i} : p[j] = q[j]
OBVIOUS

\* The guards that owe m are finitely many.
LEMMA OwingFinite ==
  ASSUME NEW q \in Seq(AGuard), NEW m
  PROVE  IsFiniteSet(Owing(q, m)) /\ Cardinality(Owing(q, m)) \in Nat
<1>1. IsFiniteSet(1..Len(q)) /\ DOMAIN q = 1..Len(q)
  BY FS_Interval
<1>2. IsFiniteSet(Owing(q, m))
  BY <1>1, FS_Subset, Zenon DEF Owing
<1> QED
  BY <1>2, FS_CardinalityType, Zenon

\* If p and q have the same guards but the i-th, they owe the same but for these.
LEMMA OwingBut ==
  ASSUME NEW p \in Seq(AGuard), NEW q \in Seq(AGuard), NEW m, NEW i,
         \A j : j # i => (j \in DOMAIN p <=> j \in DOMAIN q) /\ (j \in DOMAIN q => p[j] = q[j])
  PROVE  Cardinality(Owing(p, m)) + (IF i \in DOMAIN q /\ Owes(q[i], m) THEN 1 ELSE 0)
           = Cardinality(Owing(q, m)) + (IF i \in DOMAIN p /\ Owes(p[i], m) THEN 1 ELSE 0)
<1> DEFINE S == Owing(p, m) \ {i}
<1>1. S = Owing(q, m) \ {i}
  BY DEF Owing
<1>2. IsFiniteSet(S)
  BY OwingFinite, FS_Subset, Zenon
<1>3. IsFiniteSet(Owing(p, m)) /\ IsFiniteSet(Owing(q, m))
  BY OwingFinite, Zenon
<1>4. Cardinality(S) \in Nat
  BY <1>2, FS_CardinalityType, Zenon
<1>5. Cardinality(Owing(p, m)) = Cardinality(S) + (IF i \in DOMAIN p /\ Owes(p[i], m) THEN 1 ELSE 0)
  <2>1. CASE i \in Owing(p, m)
    <3>1. Cardinality(S) = Cardinality(Owing(p, m)) - 1
      BY <1>3, <2>1, FS_RemoveElement, Zenon
    <3>2. (i \in DOMAIN p /\ Owes(p[i], m)) = TRUE /\ Cardinality(Owing(p, m)) \in Nat
      BY <2>1, OwingFinite, Zenon DEF Owing
    <3> HIDE DEF S
    <3> QED
      BY <3>1, <3>2
  <2>2. CASE i \notin Owing(p, m)
    <3>1. S = Owing(p, m)
      BY <2>2, Zenon
    <3>2. (i \in DOMAIN p /\ Owes(p[i], m)) = FALSE
      BY <2>2, Zenon DEF Owing
    <3> HIDE DEF S
    <3> QED
      BY <3>1, <3>2, <1>4
  <2> QED
    BY <2>1, <2>2, Zenon
<1>6. Cardinality(Owing(q, m)) = Cardinality(S) + (IF i \in DOMAIN q /\ Owes(q[i], m) THEN 1 ELSE 0)
  <2>1. CASE i \in Owing(q, m)
    <3>1. Cardinality(S) = Cardinality(Owing(q, m)) - 1
      BY <1>1, <1>3, <2>1, FS_RemoveElement, Zenon
    <3>2. (i \in DOMAIN q /\ Owes(q[i], m)) = TRUE /\ Cardinality(Owing(q, m)) \in Nat
      BY <2>1, OwingFinite, Zenon DEF Owing
    <3> HIDE DEF S
    <3> QED
      BY <3>1, <3>2
  <2>2. CASE i \notin Owing(q, m)
    <3>1. S = Owing(q, m)
      BY <1>1, <2>2, Zenon
    <3>2. (i \in DOMAIN q /\ Owes(q[i], m)) = FALSE
      BY <2>2, Zenon DEF Owing
    <3> HIDE DEF S
    <3> QED
      BY <3>1, <3>2, <1>4
  <2> QED
    BY <2>1, <2>2, Zenon
<1> QED
  BY <1>4, <1>5, <1>6


-----------------------------------------------------------------------------
\* An acquisition, numbered.
LEMMA AcquisitionIs ==
  ASSUME NEW s, NEW e
  PROVE  e \in Acquisitions(s) <=> \E x \in GMutexes : EntersRegion(x) /\ \E k \in 1..Held(s, x) : e = <<x, k>>
BY DEF Acquisitions

\* One acquisition more of m, in whichever mode.
LEMMA OneMore ==
  ASSUME NEW s, NEW n, NEW m \in GMutexes,
         \A x \in GMutexes : Held(s, x) \in Nat,
         Held(n, m) = Held(s, m) + 1, \A x \in GMutexes \ {m} : Held(n, x) = Held(s, x)
  PROVE  IF EntersRegion(m)
         THEN <<m, Held(n, m)>> \notin Acquisitions(s) /\ Acquisitions(n) = Acquisitions(s) \union {<<m, Held(n, m)>>}
         ELSE Acquisitions(n) = Acquisitions(s)
<1>1. CASE EntersRegion(m)
  <2>1. <<m, Held(n, m)>> \notin Acquisitions(s)
    <3> SUFFICES ASSUME NEW x \in GMutexes, NEW k \in 1..Held(s, x), <<m, Held(n, m)>> = <<x, k>> PROVE FALSE
      BY AcquisitionIs, Zenon
    <3> QED
      OBVIOUS
  <2>2. ASSUME NEW e PROVE e \in Acquisitions(n) <=> e \in Acquisitions(s) \/ e = <<m, Held(n, m)>>
    <3>1. ASSUME NEW x \in GMutexes, EntersRegion(x), NEW k \in 1..Held(n, x), e = <<x, k>>
          PROVE  e \in Acquisitions(s) \/ e = <<m, Held(n, m)>>
      <4>1. (x = m /\ k = Held(n, m)) \/ k \in 1..Held(s, x)
        OBVIOUS
      <4> QED
        BY <3>1, <4>1, AcquisitionIs, Zenon
    <3>2. ASSUME NEW x \in GMutexes, EntersRegion(x), NEW k \in 1..Held(s, x), e = <<x, k>>
          PROVE  e \in Acquisitions(n)
      <4>1. k \in 1..Held(n, x)
        OBVIOUS
      <4> QED
        BY <3>2, <4>1, AcquisitionIs, Zenon
    <3>3. <<m, Held(n, m)>> \in Acquisitions(n)
      <4>1. Held(n, m) \in 1..Held(n, m)
        OBVIOUS
      <4> QED
        BY <1>1, <4>1, AcquisitionIs, Zenon
    <3>4. e \in Acquisitions(n) <=> \E x \in GMutexes : EntersRegion(x) /\ \E k \in 1..Held(n, x) : e = <<x, k>>
      BY DEF Acquisitions
    <3>5. e \in Acquisitions(s) <=> \E x \in GMutexes : EntersRegion(x) /\ \E k \in 1..Held(s, x) : e = <<x, k>>
      BY DEF Acquisitions
    <3>6. e \in Acquisitions(n) => e \in Acquisitions(s) \/ e = <<m, Held(n, m)>>
      <4> HAVE e \in Acquisitions(n)
      <4>1. PICK x \in GMutexes : EntersRegion(x) /\ \E k \in 1..Held(n, x) : e = <<x, k>>
        BY <3>4, Zenon
      <4>2. PICK k \in 1..Held(n, x) : e = <<x, k>>
        BY <4>1, Zenon
      <4> QED
        BY <3>1, <4>1, <4>2, Zenon
    <3>7. e \in Acquisitions(s) => e \in Acquisitions(n)
      <4> HAVE e \in Acquisitions(s)
      <4>1. PICK x \in GMutexes : EntersRegion(x) /\ \E k \in 1..Held(s, x) : e = <<x, k>>
        BY <3>5, Zenon
      <4>2. PICK k \in 1..Held(s, x) : e = <<x, k>>
        BY <4>1, Zenon
      <4> QED
        BY <3>2, <4>1, <4>2, Zenon
    <3> QED
      BY <3>3, <3>6, <3>7, Zenon
  <2> QED
    BY <1>1, <2>1, <2>2, Zenon
<1>2. CASE ~EntersRegion(m)
  <2>1. \A e : e \in Acquisitions(n) <=> e \in Acquisitions(s)
    BY <1>2, AcquisitionIs
  <2>2. Acquisitions(n) = Acquisitions(s)
    BY <2>1, Zenon
  <2> QED
    BY <1>2, <2>2, Zenon
<1> QED
  BY <1>1, <1>2, Zenon

\* The region is entered with the acquisition and left with the release.
LEMMA RegionFollows ==
  ASSUME NEW s, NEW n, NEW m \in GMutexes,
         \A x \in GMutexes : Held(s, x) \in Nat,
         Held(n, m) = Held(s, m) + 1, \A x \in GMutexes \ {m} : Held(n, x) = Held(s, x)
  PROVE  /\ IsFiniteSet(Acquisitions(s)) <=> IsFiniteSet(Acquisitions(n))
         /\ IsFiniteSet(Acquisitions(s)) =>
              Cardinality(Acquisitions(n)) = Cardinality(Acquisitions(s)) + (IF EntersRegion(m) THEN 1 ELSE 0)
         /\ IsFiniteSet(Acquisitions(s)) => Cardinality(Acquisitions(s)) \in Nat
<1> DEFINE A == Acquisitions(s)
           e == <<m, Held(n, m)>>
<1> HIDE DEF A, e
<1>1. IsFiniteSet(A) => Cardinality(A) \in Nat
  BY FS_CardinalityType, Zenon
<1>2. CASE EntersRegion(m)
  <2>1. e \notin A /\ Acquisitions(n) = A \union {e}
    BY <1>2, OneMore, Zenon DEF A, e
  <2>2. IsFiniteSet(A) => IsFiniteSet(A \union {e}) /\ Cardinality(A \union {e}) = Cardinality(A) + 1
    BY <2>1, FS_AddElement, Zenon
  <2>3. IsFiniteSet(A \union {e}) => IsFiniteSet(A)
    BY FS_Subset, ZenonT(60)
  <2> QED
    BY <1>1, <1>2, <2>1, <2>2, <2>3, ZenonT(60) DEF A
<1>3. CASE ~EntersRegion(m)
  <2>1. Acquisitions(n) = A
    BY <1>3, OneMore, Zenon DEF A
  <2> QED
    BY <1>1, <1>3, <2>1 DEF A
<1> QED
  BY <1>2, <1>3, Zenon

-----------------------------------------------------------------------------
\* e acquisitions of m more.
LEMMA HeldCounts ==
  ASSUME NEW s, Sound(s), NEW n, n.guards = s.guards, n.raw = s.raw, NEW m, NEW e \in Int,
         \A x \in GMutexes : Held(n, x) = Held(s, x) + (IF x = m THEN e ELSE 0),
         NEW d \in Int, Counted(s, m, d)
  PROVE  Counted(n, m, d + e)
<1> SUFFICES ASSUME NEW x \in GMutexes
             PROVE  Held(n, x) = n.raw[x] + Cardinality(Owing(n.guards, x)) + (IF x = m THEN d + e ELSE 0)
  BY Zenon DEF Counted
<1>1. Held(s, x) = s.raw[x] + Cardinality(Owing(s.guards, x)) + (IF x = m THEN d ELSE 0)
  BY Zenon DEF Counted
<1>2. Cardinality(Owing(s.guards, x)) \in Nat /\ s.raw[x] \in Nat
  BY OwingFinite, Zenon DEF Sound, AState
<1> QED
  BY <1>1, <1>2

\* What a thread has.
LEMMA StateTypes ==
  ASSUME NEW s, Sound(s)
  PROVE  /\ s \in AState /\ s.excl \in [GMutexes -> Nat] /\ s.shrd \in [GMutexes -> Nat] /\ s.raw \in [GMutexes -> Nat]
         /\ s.region \in Int /\ s.irql \in Levels /\ s.guards \in Seq(AGuard)
<1>1. s \in AState
  BY Zenon DEF Sound
<1> QED
  BY <1>1, Zenon DEF AState

\* lock() of a mutex that the thread does not hold shared.
LEMMA LockTakes ==
  ASSUME NEW s, Sound(s), NEW m \in GMutexes, s.shrd[m] = 0
  PROVE  LET n == lock(s, m)
         IN /\ Sound(n) /\ n.guards = s.guards /\ n.raw = s.raw
            /\ n.irql = IF Kind[m] = "queued" THEN DISPATCH_LEVEL ELSE s.irql
            /\ n.shrd = s.shrd /\ n.excl = [s.excl EXCEPT ![m] = @ + 1]
            /\ Counted(s, m, 0) => Counted(n, m, 1)
<1> DEFINE n == lock(s, m)
<1>1. /\ n \in AState /\ n.guards = s.guards /\ n.raw = s.raw
      /\ n.irql = IF Kind[m] = "queued" THEN DISPATCH_LEVEL ELSE s.irql
      /\ n.shrd = s.shrd /\ n.excl = [s.excl EXCEPT ![m] = @ + 1]
      /\ n.region = s.region + (IF EntersRegion(m) THEN 1 ELSE 0)
  <2> DEFINE e == [s.excl EXCEPT ![m] = @ + 1]
             r == IF EntersRegion(m) THEN s.region + 1 ELSE s.region
             l == IF Kind[m] = "queued" THEN DISPATCH_LEVEL ELSE s.irql
  <2>1. e \in [GMutexes -> Nat]
    BY StateTypes
  <2>2. r \in Int /\ r = s.region + (IF EntersRegion(m) THEN 1 ELSE 0)
    BY StateTypes
  <2>3. l \in Levels
    BY StateTypes, Zenon DEF Levels
  <2>4. n = [s EXCEPT !.excl = e, !.region = r, !.irql = l]
    BY Zenon DEF lock
  <2>0. s \in AState
    BY StateTypes, Zenon
  <2> HIDE DEF n, e, r, l
  <2>5. /\ n \in AState /\ n.excl = e /\ n.shrd = s.shrd /\ n.region = r /\ n.irql = l
        /\ n.guards = s.guards /\ n.raw = s.raw
    BY <2>1, <2>2, <2>3, <2>4, <2>0, Zenon DEF AState
  <2> QED
    BY <2>2, <2>5, Zenon DEF e, l
<1>2. /\ \A x \in GMutexes : Held(s, x) \in Nat
      /\ Held(n, m) = Held(s, m) + 1 /\ \A x \in GMutexes \ {m} : Held(n, x) = Held(s, x)
  <2> HIDE DEF n
  <2> QED
    BY <1>1, StateTypes DEF Held
<1> HIDE DEF n
<1>3. IsFiniteSet(Acquisitions(n)) /\ n.region = Cardinality(Acquisitions(n))
  BY <1>1, <1>2, RegionFollows DEF Sound
<1>4. \A x \in GMutexes : n.excl[x] = 0 \/ n.shrd[x] = 0
  BY <1>1, ZenonT(60) DEF Sound, AState
<1>5. Sound(n)
  BY <1>1, <1>3, <1>4, ZenonT(60) DEF Sound
<1>6. ASSUME Counted(s, m, 0) PROVE Counted(n, m, 1)
  <2>1. \A x \in GMutexes : Held(n, x) = Held(s, x) + (IF x = m THEN 1 ELSE 0)
    BY <1>2
  <2>2. Counted(n, m, 0 + (1))
    BY <1>1, <1>6, <2>1, HeldCounts
  <2> QED
    BY <2>2
<1> QED
  BY <1>1, <1>5, <1>6, Zenon DEF n

\* lock_shared(): more of the mode in which the thread holds the mutex.
LEMMA SharedTakes ==
  ASSUME NEW s, Sound(s), NEW m \in GMutexes, EntersRegion(m),
         \A i \in DOMAIN s.guards : s.guards[i].access = "write" /\ s.guards[i].mtx = m => s.excl[m] > 0
  PROVE  LET n == lock_shared(s, m)
         IN /\ Sound(n) /\ n.guards = s.guards /\ n.raw = s.raw /\ n.irql = s.irql
            /\ n.excl = IF s.excl[m] > 0 THEN [s.excl EXCEPT ![m] = @ + 1] ELSE s.excl
            /\ n.shrd = IF s.excl[m] > 0 THEN s.shrd ELSE [s.shrd EXCEPT ![m] = @ + 1]
            /\ Counted(s, m, 0) => Counted(n, m, 1)
<1> DEFINE n == lock_shared(s, m)
<1>1. /\ n \in AState /\ n.guards = s.guards /\ n.raw = s.raw /\ n.irql = s.irql
      /\ n.excl = IF s.excl[m] > 0 THEN [s.excl EXCEPT ![m] = @ + 1] ELSE s.excl
      /\ n.shrd = IF s.excl[m] > 0 THEN s.shrd ELSE [s.shrd EXCEPT ![m] = @ + 1]
      /\ n.region = s.region + 1
  <2> DEFINE x == [s.excl EXCEPT ![m] = IF s.excl[m] > 0 THEN @ + 1 ELSE @]
             y == [s.shrd EXCEPT ![m] = IF s.excl[m] > 0 THEN @ ELSE @ + 1]
  <2>1. n = [s EXCEPT !.excl = x, !.shrd = y, !.region = s.region + 1]
    BY Zenon DEF lock_shared
  <2>2. x \in [GMutexes -> Nat] /\ x = IF s.excl[m] > 0 THEN [s.excl EXCEPT ![m] = @ + 1] ELSE s.excl
    <3>1. s.excl \in [GMutexes -> Nat] /\ s.shrd \in [GMutexes -> Nat]
      BY StateTypes, Zenon
    <3>2. CASE s.excl[m] > 0
      BY <3>1, <3>2
    <3>3. CASE ~(s.excl[m] > 0)
      BY <3>1, <3>3, Zenon
    <3> QED
      BY <3>2, <3>3, Zenon
  <2>3. y \in [GMutexes -> Nat] /\ y = IF s.excl[m] > 0 THEN s.shrd ELSE [s.shrd EXCEPT ![m] = @ + 1]
    <3>1. s.excl \in [GMutexes -> Nat] /\ s.shrd \in [GMutexes -> Nat]
      BY StateTypes, Zenon
    <3>2. CASE s.excl[m] > 0
      BY <3>1, <3>2, Zenon
    <3>3. CASE ~(s.excl[m] > 0)
      BY <3>1, <3>3
    <3> QED
      BY <3>2, <3>3, Zenon
  <2>4. s.region + 1 \in Int
    BY StateTypes
  <2>0. s \in AState
    BY StateTypes, Zenon
  <2> HIDE DEF n, x, y
  <2>5. /\ n \in AState /\ n.excl = x /\ n.shrd = y /\ n.region = s.region + 1 /\ n.irql = s.irql
        /\ n.guards = s.guards /\ n.raw = s.raw
    BY <2>1, <2>2, <2>3, <2>4, <2>0, Zenon DEF AState
  <2> QED
    BY <2>2, <2>3, <2>4, <2>5, Zenon
<1>2. /\ \A x \in GMutexes : Held(s, x) \in Nat
      /\ Held(n, m) = Held(s, m) + 1 /\ \A x \in GMutexes \ {m} : Held(n, x) = Held(s, x)
  <2> HIDE DEF n
  <2>0. s.excl \in [GMutexes -> Nat] /\ s.shrd \in [GMutexes -> Nat]
    BY StateTypes, Zenon
  <2>1. CASE s.excl[m] > 0
    <3>1. n.shrd = s.shrd /\ n.excl = [s.excl EXCEPT ![m] = @ + 1]
      BY <1>1, <2>1, Zenon
    <3> QED
      BY <2>0, <2>1, <3>1 DEF Held
  <2>2. CASE ~(s.excl[m] > 0)
    <3>1. n.excl = s.excl /\ n.shrd = [s.shrd EXCEPT ![m] = @ + 1]
      BY <1>1, <2>2, Zenon
    <3> QED
      BY <2>0, <2>2, <3>1 DEF Held
  <2> QED
    BY <2>1, <2>2, Zenon
<1> HIDE DEF n
<1>3. IsFiniteSet(Acquisitions(n)) /\ n.region = Cardinality(Acquisitions(n))
  BY <1>1, <1>2, RegionFollows DEF Sound
<1>4. \A x \in GMutexes : n.excl[x] = 0 \/ n.shrd[x] = 0
  <2>1. CASE s.excl[m] > 0
    BY <1>1, <2>1, StateTypes DEF Sound
  <2>2. CASE ~(s.excl[m] > 0)
    BY <1>1, <2>2, StateTypes DEF Sound
  <2> QED
    BY <2>1, <2>2, Zenon
<1>5. ASSUME NEW i \in DOMAIN n.guards, n.guards[i].access = "write" PROVE n.shrd[n.guards[i].mtx] = 0
  <2>1. n.guards[i].mtx \in GMutexes /\ s.shrd[n.guards[i].mtx] = 0
    BY <1>1, <1>5 DEF Sound, Formed
  <2>2. CASE s.excl[m] > 0
    BY <1>1, <2>1, <2>2, Zenon
  <2>3. CASE ~(s.excl[m] > 0)
    BY <1>1, <1>5, <2>1, <2>3, StateTypes
  <2> QED
    BY <2>2, <2>3, Zenon
<1>6. Sound(n)
  BY <1>1, <1>3, <1>4, <1>5, Zenon DEF Sound
<1>7. ASSUME Counted(s, m, 0) PROVE Counted(n, m, 1)
  <2>1. \A x \in GMutexes : Held(n, x) = Held(s, x) + (IF x = m THEN 1 ELSE 0)
    BY <1>2
  <2>2. Counted(n, m, 0 + (1))
    BY <1>1, <1>7, <2>1, HeldCounts
  <2> QED
    BY <2>2
<1> QED
  BY <1>1, <1>6, <1>7, Zenon DEF n

\* unlock() of a mutex that the thread holds.
LEMMA UnlockGives ==
  ASSUME NEW s, Sound(s), NEW m \in GMutexes, Held(s, m) > 0
  PROVE  LET n == unlock(s, m)
         IN /\ Sound(n) /\ n.guards = s.guards /\ n.raw = s.raw /\ n.irql = s.irql
            /\ n.excl = IF s.excl[m] > 0 THEN [s.excl EXCEPT ![m] = @ - 1] ELSE s.excl
            /\ n.shrd = IF s.excl[m] > 0 THEN s.shrd ELSE [s.shrd EXCEPT ![m] = @ - 1]
            /\ Counted(s, m, 0) => Counted(n, m, -1)
<1> DEFINE n == unlock(s, m)
<1>1. /\ n \in AState /\ n.guards = s.guards /\ n.raw = s.raw /\ n.irql = s.irql
      /\ n.excl = IF s.excl[m] > 0 THEN [s.excl EXCEPT ![m] = @ - 1] ELSE s.excl
      /\ n.shrd = IF s.excl[m] > 0 THEN s.shrd ELSE [s.shrd EXCEPT ![m] = @ - 1]
      /\ n.region = s.region - (IF EntersRegion(m) THEN 1 ELSE 0)
  <2> DEFINE x == [s.excl EXCEPT ![m] = IF s.excl[m] > 0 THEN @ - 1 ELSE @]
             y == [s.shrd EXCEPT ![m] = IF s.excl[m] > 0 THEN @ ELSE @ - 1]
             r == IF EntersRegion(m) THEN s.region - 1 ELSE s.region
  <2>1. n = [s EXCEPT !.excl = x, !.shrd = y, !.region = r]
    BY Zenon DEF unlock
  <2>2. x \in [GMutexes -> Nat] /\ x = IF s.excl[m] > 0 THEN [s.excl EXCEPT ![m] = @ - 1] ELSE s.excl
    <3>1. s.excl \in [GMutexes -> Nat] /\ s.shrd \in [GMutexes -> Nat]
      BY StateTypes, Zenon
    <3>2. CASE s.excl[m] > 0
      BY <3>1, <3>2
    <3>3. CASE ~(s.excl[m] > 0)
      BY <3>1, <3>3, Zenon
    <3> QED
      BY <3>2, <3>3, Zenon
  <2>3. y \in [GMutexes -> Nat] /\ y = IF s.excl[m] > 0 THEN s.shrd ELSE [s.shrd EXCEPT ![m] = @ - 1]
    <3>1. s.excl \in [GMutexes -> Nat] /\ s.shrd \in [GMutexes -> Nat]
      BY StateTypes, Zenon
    <3>2. CASE s.excl[m] > 0
      BY <3>1, <3>2, Zenon DEF Held
    <3>3. CASE ~(s.excl[m] > 0)
      BY <3>1, <3>3 DEF Held
    <3> QED
      BY <3>2, <3>3, Zenon
  <2>4. r \in Int /\ r = s.region - (IF EntersRegion(m) THEN 1 ELSE 0)
    BY StateTypes
  <2>0. s \in AState
    BY StateTypes, Zenon
  <2> HIDE DEF n, x, y, r
  <2>5. /\ n \in AState /\ n.excl = x /\ n.shrd = y /\ n.region = r /\ n.irql = s.irql
        /\ n.guards = s.guards /\ n.raw = s.raw
    BY <2>1, <2>2, <2>3, <2>4, <2>0, Zenon DEF AState
  <2> QED
    BY <2>2, <2>3, <2>4, <2>5, Zenon
<1>2. /\ \A x \in GMutexes : Held(n, x) \in Nat
      /\ Held(s, m) = Held(n, m) + 1 /\ \A x \in GMutexes \ {m} : Held(s, x) = Held(n, x)
  <2> HIDE DEF n
  <2>0. s.excl \in [GMutexes -> Nat] /\ s.shrd \in [GMutexes -> Nat]
    BY StateTypes, Zenon
  <2>1. CASE s.excl[m] > 0
    <3>1. n.shrd = s.shrd /\ n.excl = [s.excl EXCEPT ![m] = @ - 1]
      BY <1>1, <2>1, Zenon
    <3> QED
      BY <2>0, <2>1, <3>1 DEF Held
  <2>2. CASE ~(s.excl[m] > 0)
    <3>1. n.excl = s.excl /\ n.shrd = [s.shrd EXCEPT ![m] = @ - 1]
      BY <1>1, <2>2, Zenon
    <3> QED
      BY <2>0, <2>2, <3>1 DEF Held
  <2> QED
    BY <2>1, <2>2, Zenon
<1> HIDE DEF n
<1>3. IsFiniteSet(Acquisitions(n)) /\ n.region = Cardinality(Acquisitions(n))
  BY <1>1, <1>2, RegionFollows DEF Sound
<1>4. \A x \in GMutexes : n.excl[x] = 0 \/ n.shrd[x] = 0
  <2>1. CASE s.excl[m] > 0
    BY <1>1, <2>1, StateTypes DEF Sound
  <2>2. CASE ~(s.excl[m] > 0)
    BY <1>1, <2>2, StateTypes DEF Sound
  <2> QED
    BY <2>1, <2>2, Zenon
<1>5. ASSUME NEW i \in DOMAIN n.guards, n.guards[i].access = "write" PROVE n.shrd[n.guards[i].mtx] = 0
  <2>1. n.guards[i].mtx \in GMutexes /\ s.shrd[n.guards[i].mtx] = 0
    BY <1>1, <1>5 DEF Sound, Formed
  <2>2. CASE s.excl[m] > 0
    BY <1>1, <2>1, <2>2, Zenon
  <2>3. CASE ~(s.excl[m] > 0)
    <3>1. n.shrd = [s.shrd EXCEPT ![m] = @ - 1] /\ s.shrd[m] # 0
      BY <1>1, <2>3, StateTypes DEF Held
    <3> QED
      BY <1>1, <2>1, <3>1, StateTypes, Zenon
  <2> QED
    BY <2>2, <2>3, Zenon
<1>6. Sound(n)
  BY <1>1, <1>3, <1>4, <1>5, Zenon DEF Sound
<1>7. ASSUME Counted(s, m, 0) PROVE Counted(n, m, -1)
  <2>1. \A x \in GMutexes : Held(n, x) = Held(s, x) + (IF x = m THEN -1 ELSE 0)
    BY <1>2
  <2>2. Counted(n, m, 0 + (-1))
    BY <1>1, <1>7, <2>1, HeldCounts
  <2> QED
    BY <2>2
<1> QED
  BY <1>1, <1>6, <1>7, Zenon DEF n


-----------------------------------------------------------------------------
\* The mutexes and the region are as before; other guards, acquisitions by hand or level.
LEMMA OthersSound ==
  ASSUME NEW s, Sound(s), NEW n, n \in AState,
         n.excl = s.excl, n.shrd = s.shrd, n.region = s.region,
         \A i \in DOMAIN n.guards : Formed(n.guards[i]) /\ (n.guards[i].access = "write" => n.shrd[n.guards[i].mtx] = 0)
  PROVE  Sound(n)
<1>1. Acquisitions(n) = Acquisitions(s)
  BY Zenon DEF Acquisitions, Held
<1> QED
  BY <1>1, Zenon DEF Sound

\* A guard is constructed.
LEMMA PushKeeps ==
  ASSUME NEW s, Sound(s), NEW g \in AGuard, Formed(g), g.access = "write" => s.shrd[g.mtx] = 0,
         NEW m, NEW d \in Int, Counted(s, m, d), g.owned => g.mtx = m
  PROVE  LET n == Pushed(s, g)
         IN /\ Sound(n) /\ n.guards = Append(s.guards, g) /\ n.raw = s.raw /\ n.irql = s.irql
            /\ n.excl = s.excl /\ n.shrd = s.shrd
            /\ Counted(n, m, IF g.owned THEN d - 1 ELSE d)
<1> DEFINE n == Pushed(s, g)
           q == s.guards
<1>1. q \in Seq(AGuard)
  BY Zenon DEF Sound, AState
<1>2. /\ n \in AState /\ n.guards = Append(q, g) /\ n.raw = s.raw /\ n.irql = s.irql
      /\ n.excl = s.excl /\ n.shrd = s.shrd /\ n.region = s.region
  BY <1>1, Appended, Zenon DEF Pushed, Sound, AState
<1>3. n.guards \in Seq(AGuard) /\ DOMAIN n.guards = 1..(Len(q) + 1) /\ DOMAIN q = 1..Len(q) /\ Len(q) \in Nat
  BY <1>1, <1>2, Appended
<1>4. n.guards[Len(q) + 1] = g /\ \A i \in 1..Len(q) : n.guards[i] = q[i]
  BY <1>1, <1>2, Appended
<1> HIDE DEF n
<1>5. ASSUME NEW i \in DOMAIN n.guards
      PROVE  Formed(n.guards[i]) /\ (n.guards[i].access = "write" => n.shrd[n.guards[i].mtx] = 0)
  <2>1. CASE i = Len(q) + 1
    BY <2>1, <1>2, <1>4, Zenon
  <2>2. CASE i # Len(q) + 1
    <3>1. i \in DOMAIN q /\ n.guards[i] = q[i]
      BY <2>2, <1>3, <1>4
    <3> QED
      BY <3>1, <1>2, Zenon DEF Sound
  <2> QED
    BY <2>1, <2>2, Zenon
<1>6. Sound(n)
  BY <1>2, <1>5, OthersSound, Zenon
<1>7. ASSUME NEW x \in GMutexes
      PROVE  Held(n, x) = n.raw[x] + Cardinality(Owing(n.guards, x)) + (IF x = m THEN (IF g.owned THEN d - 1 ELSE d) ELSE 0)
  <2>1. \A j : j # Len(q) + 1 =>
          (j \in DOMAIN n.guards <=> j \in DOMAIN q) /\ (j \in DOMAIN q => n.guards[j] = q[j])
    BY <1>3, <1>4
  <2>2. Len(q) + 1 \in DOMAIN n.guards /\ Len(q) + 1 \notin DOMAIN q
    BY <1>3
  <2> DEFINE k == Len(q) + 1
  <2> HIDE DEF k
  <2>3. Cardinality(Owing(n.guards, x)) + (IF k \in DOMAIN q /\ Owes(q[k], x) THEN 1 ELSE 0)
          = Cardinality(Owing(q, x)) + (IF k \in DOMAIN n.guards /\ Owes(n.guards[k], x) THEN 1 ELSE 0)
    <3>1. \A j : j # k => (j \in DOMAIN n.guards <=> j \in DOMAIN q) /\ (j \in DOMAIN q => n.guards[j] = q[j])
      BY <2>1, Zenon DEF k
    <3> QED
      BY <1>1, <1>3, <3>1, OwingBut, Zenon
  <2>4. Cardinality(Owing(n.guards, x)) = Cardinality(Owing(q, x)) + (IF Owes(g, x) THEN 1 ELSE 0)
    <3>1. Cardinality(Owing(n.guards, x)) \in Nat
      BY <1>3, OwingFinite, Zenon
    <3>2. k \in DOMAIN n.guards /\ k \notin DOMAIN q /\ n.guards[k] = g
      BY <2>2, <1>4, Zenon DEF k
    <3> QED
      BY <2>3, <3>1, <3>2
  <2>5. Owes(g, x) <=> g.owned /\ x = m
    BY Zenon DEF Owes, Formed
  <2>6. Held(s, x) = s.raw[x] + Cardinality(Owing(q, x)) + (IF x = m THEN d ELSE 0) /\ Held(n, x) = Held(s, x)
    BY <1>2, Zenon DEF Counted, Held
  <2>7. Cardinality(Owing(q, x)) \in Nat /\ s.raw[x] \in Nat
    BY <1>1, OwingFinite, Zenon DEF Sound, AState
  <2>8. n.raw = s.raw
    BY <1>2, Zenon
  <2> QED
    BY <2>4, <2>5, <2>6, <2>7, <2>8
<1> QED
  BY <1>2, <1>6, <1>7, Zenon DEF Counted, n

\* The last guard is gone, and what it had to unlock is owed to m.
LEMMA PopKeeps ==
  ASSUME NEW s, Sound(s), s.guards # <<>>, NEW m, NEW d \in Int, Counted(s, m, d),
         s.guards[Len(s.guards)].owned => s.guards[Len(s.guards)].mtx = m
  PROVE  LET n == [s EXCEPT !.guards = SubSeq(@, 1, Len(@) - 1)]
         IN /\ Sound(n) /\ n.guards = SubSeq(s.guards, 1, Len(s.guards) - 1) /\ n.raw = s.raw /\ n.irql = s.irql
            /\ n.excl = s.excl /\ n.shrd = s.shrd
            /\ Counted(n, m, IF s.guards[Len(s.guards)].owned THEN d + 1 ELSE d)
<1> DEFINE n == [s EXCEPT !.guards = SubSeq(@, 1, Len(@) - 1)]
           q == s.guards
           g == q[Len(q)]
<1>1. q \in Seq(AGuard)
  BY Zenon DEF Sound, AState
<1>2. /\ n \in AState /\ n.guards = SubSeq(q, 1, Len(q) - 1) /\ n.raw = s.raw /\ n.irql = s.irql
      /\ n.excl = s.excl /\ n.shrd = s.shrd /\ n.region = s.region
  BY <1>1, Popped, Zenon DEF Sound, AState
<1>3. n.guards \in Seq(AGuard) /\ DOMAIN n.guards = 1..(Len(q) - 1) /\ DOMAIN q = 1..Len(q) /\ Len(q) \in Nat \ {0}
  BY <1>1, <1>2, Popped, Zenon
<1>4. \A i \in 1..(Len(q) - 1) : n.guards[i] = q[i]
  BY <1>1, <1>2, Popped, Zenon
<1> HIDE DEF n
<1>5. ASSUME NEW i \in DOMAIN n.guards
      PROVE  Formed(n.guards[i]) /\ (n.guards[i].access = "write" => n.shrd[n.guards[i].mtx] = 0)
  <2>1. i \in DOMAIN q /\ n.guards[i] = q[i]
    <3>1. 1..(Len(q) - 1) \subseteq 1..Len(q)
      BY <1>3
    <3> QED
      BY <1>3, <1>4, <3>1, Zenon
  <2> QED
    BY <2>1, <1>2, Zenon DEF Sound
<1>6. Sound(n)
  BY <1>2, <1>5, OthersSound, Zenon
<1>7. ASSUME NEW x \in GMutexes
      PROVE  Held(n, x) = n.raw[x] + Cardinality(Owing(n.guards, x)) + (IF x = m THEN (IF g.owned THEN d + 1 ELSE d) ELSE 0)
  <2>1. \A j : j # Len(q) =>
          (j \in DOMAIN n.guards <=> j \in DOMAIN q) /\ (j \in DOMAIN q => n.guards[j] = q[j])
    BY <1>3, <1>4
  <2>2. Len(q) \notin DOMAIN n.guards /\ Len(q) \in DOMAIN q
    BY <1>3
  <2>3. Cardinality(Owing(n.guards, x)) + (IF Len(q) \in DOMAIN q /\ Owes(q[Len(q)], x) THEN 1 ELSE 0)
          = Cardinality(Owing(q, x)) + (IF Len(q) \in DOMAIN n.guards /\ Owes(n.guards[Len(q)], x) THEN 1 ELSE 0)
    BY <1>1, <1>3, <2>1, OwingBut, Zenon
  <2>4. Cardinality(Owing(n.guards, x)) + (IF Owes(g, x) THEN 1 ELSE 0) = Cardinality(Owing(q, x))
    <3>1. Cardinality(Owing(q, x)) \in Nat
      BY <1>1, OwingFinite, Zenon
    <3> QED
      BY <2>2, <2>3, <3>1
  <2>5. Owes(g, x) <=> g.owned /\ x = m
    BY <2>2, Zenon DEF Owes, Formed, Sound
  <2>6. Held(s, x) = s.raw[x] + Cardinality(Owing(q, x)) + (IF x = m THEN d ELSE 0) /\ Held(n, x) = Held(s, x)
    BY <1>2, Zenon DEF Counted, Held
  <2>7. Cardinality(Owing(q, x)) \in Nat /\ Cardinality(Owing(n.guards, x)) \in Nat /\ s.raw[x] \in Nat
    BY <1>1, <1>3, OwingFinite, Zenon DEF Sound, AState
  <2>8. n.raw = s.raw
    BY <1>2, Zenon
  <2> QED
    BY <2>4, <2>5, <2>6, <2>7, <2>8, SMTT(30)
<1> QED
  BY <1>2, <1>6, <1>7, Zenon DEF Counted, n

\* The i-th guard gets or loses its mutex.
LEMMA SetKeeps ==
  ASSUME NEW s, Sound(s), NEW i \in DOMAIN s.guards, NEW g \in AGuard, Formed(g), g.access = "none",
         NEW m, NEW d \in Int, Counted(s, m, d), s.guards[i].owned => s.guards[i].mtx = m, g.owned => g.mtx = m,
         NEW c \in Int, c = d + (IF s.guards[i].owned THEN 1 ELSE 0) - (IF g.owned THEN 1 ELSE 0)
  PROVE  LET n == WithGuard(s, i, g)
         IN /\ Sound(n) /\ n.guards = [s.guards EXCEPT ![i] = g] /\ n.raw = s.raw /\ n.irql = s.irql
            /\ n.excl = s.excl /\ n.shrd = s.shrd
            /\ Counted(n, m, c)
<1> DEFINE n == WithGuard(s, i, g)
           q == s.guards
<1>1. q \in Seq(AGuard)
  BY Zenon DEF Sound, AState
<1>2. /\ n \in AState /\ n.guards = [q EXCEPT ![i] = g] /\ n.raw = s.raw /\ n.irql = s.irql
      /\ n.excl = s.excl /\ n.shrd = s.shrd /\ n.region = s.region
  BY <1>1, Replaced, Zenon DEF Sound, AState, WithGuard
<1>3. n.guards \in Seq(AGuard) /\ DOMAIN n.guards = DOMAIN q
  BY <1>1, <1>2, Replaced
<1>4. n.guards[i] = g /\ \A j \in DOMAIN q \ {i} : n.guards[j] = q[j]
  BY <1>1, <1>2, Replaced, Zenon
<1> HIDE DEF n
<1>5. ASSUME NEW j \in DOMAIN n.guards
      PROVE  Formed(n.guards[j]) /\ (n.guards[j].access = "write" => n.shrd[n.guards[j].mtx] = 0)
  <2>1. CASE j = i
    BY <2>1, <1>4, Zenon
  <2>2. CASE j # i
    BY <2>2, <1>2, <1>3, <1>4, ZenonT(60) DEF Sound
  <2> QED
    BY <2>1, <2>2, ZenonT(60)
<1>6. Sound(n)
  BY <1>2, <1>5, OthersSound, Zenon
<1>7. ASSUME NEW x \in GMutexes
      PROVE  Held(n, x) = n.raw[x] + Cardinality(Owing(n.guards, x)) + (IF x = m THEN c ELSE 0)
  <2>1. \A j : j # i => (j \in DOMAIN n.guards <=> j \in DOMAIN q) /\ (j \in DOMAIN q => n.guards[j] = q[j])
    BY <1>3, <1>4, Zenon
  <2>2. Cardinality(Owing(n.guards, x)) + (IF i \in DOMAIN q /\ Owes(q[i], x) THEN 1 ELSE 0)
          = Cardinality(Owing(q, x)) + (IF i \in DOMAIN n.guards /\ Owes(n.guards[i], x) THEN 1 ELSE 0)
    BY <1>1, <1>3, <2>1, OwingBut, Zenon
  <2>3. Cardinality(Owing(n.guards, x)) + (IF Owes(q[i], x) THEN 1 ELSE 0)
          = Cardinality(Owing(q, x)) + (IF Owes(g, x) THEN 1 ELSE 0)
    BY <2>2, <1>3, <1>4, Zenon
  <2>4. (Owes(g, x) <=> g.owned /\ x = m) /\ (Owes(q[i], x) <=> q[i].owned /\ x = m)
    BY Zenon DEF Owes
  <2>5. Held(s, x) = s.raw[x] + Cardinality(Owing(q, x)) + (IF x = m THEN d ELSE 0) /\ Held(n, x) = Held(s, x)
    BY <1>2, Zenon DEF Counted, Held
  <2>6. Cardinality(Owing(q, x)) \in Nat /\ Cardinality(Owing(n.guards, x)) \in Nat /\ s.raw[x] \in Nat
    BY <1>1, <1>3, OwingFinite, Zenon DEF Sound, AState
  <2>7. n.raw = s.raw
    BY <1>2, Zenon
  <2> QED
    BY <2>3, <2>4, <2>5, <2>6, <2>7
<1> QED
  BY <1>2, <1>6, <1>7, Zenon DEF Counted, n

\* e acquisitions more are nobody's but the program's.
LEMMA RawKeeps ==
  ASSUME NEW s, Sound(s), NEW m \in GMutexes, NEW d \in Int, Counted(s, m, d), NEW e \in Int, s.raw[m] + e \in Nat,
         NEW c \in Int, c = d - e
  PROVE  LET n == WithRaw(s, m, e)
         IN /\ Sound(n) /\ n.guards = s.guards /\ n.irql = s.irql
            /\ n.excl = s.excl /\ n.shrd = s.shrd
            /\ Counted(n, m, c)
<1> DEFINE n == WithRaw(s, m, e)
<1>1. /\ n \in AState /\ n.guards = s.guards /\ n.raw = [s.raw EXCEPT ![m] = s.raw[m] + e] /\ n.irql = s.irql
      /\ n.excl = s.excl /\ n.shrd = s.shrd /\ n.region = s.region
  BY Zenon DEF Sound, AState, WithRaw
<1> HIDE DEF n
<1>2. Sound(n)
  <2>1. \A i \in DOMAIN n.guards : Formed(n.guards[i]) /\ (n.guards[i].access = "write" => n.shrd[n.guards[i].mtx] = 0)
    BY <1>1, Zenon DEF Sound
  <2> QED
    BY <2>1, <1>1, OthersSound, Zenon
<1>3. ASSUME NEW x \in GMutexes
      PROVE  Held(n, x) = n.raw[x] + Cardinality(Owing(n.guards, x)) + (IF x = m THEN c ELSE 0)
  <2>1. Held(s, x) = s.raw[x] + Cardinality(Owing(s.guards, x)) + (IF x = m THEN d ELSE 0) /\ Held(n, x) = Held(s, x)
    BY <1>1, Zenon DEF Counted, Held
  <2>2. Cardinality(Owing(s.guards, x)) \in Nat /\ s.raw \in [GMutexes -> Nat]
    BY OwingFinite, Zenon DEF Sound, AState
  <2> QED
    BY <2>1, <2>2, <1>1
<1> QED
  BY <1>1, <1>2, <1>3, Zenon DEF Counted, n


\* Another level.
LEMMA IrqlKeeps ==
  ASSUME NEW s, Sound(s), NEW l \in Levels
  PROVE  LET n == [s EXCEPT !.irql = l]
         IN /\ Sound(n) /\ n.guards = s.guards /\ n.irql = l /\ n.excl = s.excl /\ n.shrd = s.shrd
            /\ \A m, d : Counted(s, m, d) => Counted(n, m, d)
<1> DEFINE n == [s EXCEPT !.irql = l]
<1>1. /\ n \in AState /\ n.guards = s.guards /\ n.raw = s.raw /\ n.irql = l
      /\ n.excl = s.excl /\ n.shrd = s.shrd /\ n.region = s.region
  BY Zenon DEF Sound, AState
<1> HIDE DEF n
<1>2. \A i \in DOMAIN n.guards : Formed(n.guards[i]) /\ (n.guards[i].access = "write" => n.shrd[n.guards[i].mtx] = 0)
  BY <1>1, Zenon DEF Sound
<1>3. Sound(n)
  BY <1>1, <1>2, OthersSound, Zenon
<1> QED
  BY <1>1, <1>3, Zenon DEF Counted, Held, n

-----------------------------------------------------------------------------
\* A guard that raises the level is the last to do so.
LEMMA LevelPush ==
  ASSUME NEW l \in Levels, NEW q \in Seq(AGuard), Level(l, q), NEW g \in AGuard
  PROVE  /\ ~Raises(g) => Level(l, Append(q, g))
         /\ Raises(g) /\ g.old = l => Level(DISPATCH_LEVEL, Append(q, g))
<1> DEFINE p == Append(q, g)
<1>1. /\ DOMAIN p = 1..(Len(q) + 1) /\ DOMAIN q = 1..Len(q) /\ Len(q) \in Nat
      /\ p[Len(q) + 1] = g /\ \A i \in 1..Len(q) : p[i] = q[i]
  BY Appended, Zenon
<1> HIDE DEF p
<1>2. \A i \in 1..Len(q) : Raises(p[i]) =>
        (p[i].old = DISPATCH_LEVEL <=> \E j \in 1..(i - 1) : Raises(p[j]))
  <2> TAKE i \in 1..Len(q)
  <2>1. p[i] = q[i] /\ \A j \in 1..(i - 1) : p[j] = q[j]
    BY <1>1
  <2>2. Raises(q[i]) => (q[i].old = DISPATCH_LEVEL <=> \E j \in 1..(i - 1) : Raises(q[j]))
    BY <1>1, Zenon DEF Level
  <2> QED
    BY <2>1, <2>2, Zenon
<1>3. \A i \in DOMAIN p : i \in 1..Len(q) \/ i = Len(q) + 1
  BY <1>1
<1>4. ASSUME ~Raises(g) PROVE Level(l, p)
  <2>1. l = DISPATCH_LEVEL <=> \E i \in DOMAIN p : Raises(p[i])
    BY <1>1, <1>4 DEF Level
  <2> QED
    BY <2>1, <1>1, <1>2, <1>3, <1>4, Zenon DEF Level
<1>5. ASSUME Raises(g), g.old = l PROVE Level(DISPATCH_LEVEL, p)
  <2>1. \E i \in DOMAIN p : Raises(p[i])
    BY <1>1, <1>5
  <2>2. l = DISPATCH_LEVEL <=> \E j \in 1..Len(q) : Raises(q[j])
    BY <1>1, Zenon DEF Level
  <2>3. l = DISPATCH_LEVEL <=> \E j \in 1..((Len(q) + 1) - 1) : Raises(p[j])
    BY <2>2, <1>1
  <2> QED
    BY <2>1, <2>3, <1>1, <1>2, <1>3, <1>5, Zenon DEF Level
<1> QED
  BY <1>4, <1>5, Zenon DEF p

\* The level after the last guard is gone.
LEMMA LevelPop ==
  ASSUME NEW l \in Levels, NEW q \in Seq(AGuard), Level(l, q), q # <<>>
  PROVE  Level(IF Raises(q[Len(q)]) THEN q[Len(q)].old ELSE l, SubSeq(q, 1, Len(q) - 1))
<1> DEFINE p == SubSeq(q, 1, Len(q) - 1)
           g == q[Len(q)]
           k == IF Raises(g) THEN g.old ELSE l
<1>1. /\ DOMAIN p = 1..(Len(q) - 1) /\ DOMAIN q = 1..Len(q) /\ Len(q) \in Nat \ {0}
      /\ \A i \in 1..(Len(q) - 1) : p[i] = q[i]
  BY Popped, Zenon
<1> HIDE DEF p
<1>2. \A i \in DOMAIN p : Raises(p[i]) =>
        (p[i].old = DISPATCH_LEVEL <=> \E j \in 1..(i - 1) : Raises(p[j]))
  <2> TAKE i \in DOMAIN p
  <2>1. i \in DOMAIN q /\ p[i] = q[i] /\ \A j \in 1..(i - 1) : p[j] = q[j]
    BY <1>1
  <2>2. Raises(q[i]) => (q[i].old = DISPATCH_LEVEL <=> \E j \in 1..(i - 1) : Raises(q[j]))
    BY <2>1, Zenon DEF Level
  <2> QED
    BY <2>1, <2>2, Zenon
<1>3. k = DISPATCH_LEVEL <=> \E i \in DOMAIN p : Raises(p[i])
  <2>1. CASE Raises(g)
    <3>1. g.old = DISPATCH_LEVEL <=> \E j \in 1..(Len(q) - 1) : Raises(q[j])
      BY <1>1, <2>1 DEF Level
    <3> QED
      BY <3>1, <2>1, <1>1, Zenon
  <2>2. CASE ~Raises(g)
    <3>1. l = DISPATCH_LEVEL <=> \E j \in 1..Len(q) : Raises(q[j])
      BY <1>1, Zenon DEF Level
    <3>2. (\E j \in 1..Len(q) : Raises(q[j])) <=> \E j \in 1..(Len(q) - 1) : Raises(q[j])
      BY <1>1, <2>2
    <3> QED
      BY <3>1, <3>2, <2>2, <1>1, Zenon
  <2> QED
    BY <2>1, <2>2, Zenon
<1> QED
  BY <1>2, <1>3, Zenon DEF Level, p

\* A guard that does not raise the level is changed.
LEMMA LevelSet ==
  ASSUME NEW l, NEW q \in Seq(AGuard), Level(l, q), NEW i \in DOMAIN q, NEW g \in AGuard, ~Raises(q[i]), ~Raises(g)
  PROVE  Level(l, [q EXCEPT ![i] = g])
<1> DEFINE p == [q EXCEPT ![i] = g]
<1>1. DOMAIN p = DOMAIN q /\ p[i] = g /\ \A j \in DOMAIN q \ {i} : p[j] = q[j]
  BY Replaced, Zenon
<1> HIDE DEF p
<1>2. \A j \in DOMAIN q : Raises(p[j]) <=> Raises(q[j])
  BY <1>1, Zenon
<1>3. \A j \in DOMAIN q : 1..(j - 1) \subseteq DOMAIN q
  <2>1. DOMAIN q = 1..Len(q) /\ Len(q) \in Nat
    OBVIOUS
  <2> QED
    BY <2>1
<1>4. \A j \in DOMAIN q : Raises(q[j]) => p[j] = q[j]
  BY <1>1, Zenon
<1> QED
  BY <1>1, <1>2, <1>3, <1>4, Zenon DEF Level, p

\* A guard with a type of its own does not raise the level.
LEMMA LocksDoNotRaise ==
  ASSUME NEW g, g.type \in {"unique_lock", "shared_lock"}
  PROVE  ~Raises(g)
BY Zenon DEF Raises

\* Who has access to write holds the mutex exclusively; who owes a release of a mutex, or released it by hand, holds it.
LEMMA HoldsWhatItOwes ==
  ASSUME NEW s, Good(s), NEW m \in GMutexes
  PROVE  /\ s.raw[m] > 0 => Held(s, m) > 0
         /\ \A i \in DOMAIN s.guards : Owes(s.guards[i], m) => Held(s, m) > 0
         /\ \A i \in DOMAIN s.guards : s.guards[i].access = "write" /\ s.guards[i].mtx = m => s.excl[m] > 0
         /\ Counted(s, m, 0)
<1> DEFINE c == Cardinality(Owing(s.guards, m))
<1>1. s.guards \in Seq(AGuard) /\ s.raw[m] \in Nat /\ s.excl[m] \in Nat /\ s.shrd[m] \in Nat
  BY Zenon DEF Good, Sound, AState
<1>2. c \in Nat /\ IsFiniteSet(Owing(s.guards, m))
  BY <1>1, OwingFinite, Zenon
<1>3. Held(s, m) = s.raw[m] + c
  BY <1>1, <1>2 DEF Good, Counted
<1>4. ASSUME NEW i \in DOMAIN s.guards, Owes(s.guards[i], m) PROVE c > 0
  <2>1. Owing(s.guards, m) # {}
    BY <1>4, Zenon DEF Owing
  <2> QED
    BY <2>1, <1>2, FS_EmptySet
<1> HIDE DEF c
<1>5. ASSUME NEW i \in DOMAIN s.guards, s.guards[i].access = "write", s.guards[i].mtx = m PROVE s.excl[m] > 0
  <2>1. Owes(s.guards[i], m) /\ s.shrd[m] = 0
    BY <1>5, Zenon DEF Good, Sound, Formed, Owes
  <2> QED
    BY <2>1, <1>1, <1>2, <1>3, <1>4 DEF Held
<1>6. Counted(s, m, 0)
  BY Zenon DEF Good
<1> QED
  BY <1>1, <1>2, <1>3, <1>4, <1>5, <1>6


\* What is counted for one mutex is counted.
LEMMA CountedAll ==
  ASSUME NEW s, NEW m, Counted(s, m, 0)
  PROVE  \A x : Counted(s, x, 0)
BY Zenon DEF Counted

-----------------------------------------------------------------------------
(***************************************************************************)
(* The operations of a thread.                                             *)
(***************************************************************************)

\* The mutexes are in n as they are in a.
SameMutexes(n, a) == n.excl = a.excl /\ n.shrd = a.shrd

\* lock() and unlock() by hand.
LEMMA ByHandGood ==
  ASSUME NEW s, Good(s), NEW m \in GMutexes
  PROVE  /\ Kind[m] # "queued" /\ s.shrd[m] = 0 =>
              LET n == [lock(s, m) EXCEPT !.raw[m] = @ + 1] IN Good(n) /\ SameMutexes(n, lock(s, m))
         /\ EntersRegion(m) =>
              LET n == [lock_shared(s, m) EXCEPT !.raw[m] = @ + 1] IN Good(n) /\ SameMutexes(n, lock_shared(s, m))
         /\ s.raw[m] > 0 =>
              LET n == [unlock(s, m) EXCEPT !.raw[m] = @ - 1] IN Good(n) /\ SameMutexes(n, unlock(s, m))
<1>1. /\ Sound(s) /\ Counted(s, m, 0) /\ Level(s.irql, s.guards) /\ s.raw[m] \in Nat
      /\ s.raw[m] > 0 => Held(s, m) > 0
      /\ \A i \in DOMAIN s.guards : s.guards[i].access = "write" /\ s.guards[i].mtx = m => s.excl[m] > 0
  BY HoldsWhatItOwes, Zenon DEF Good, Sound, AState
<1>2. ASSUME NEW a, Sound(a), a.guards = s.guards, a.raw = s.raw, a.irql = s.irql,
             NEW e \in Int, Counted(a, m, e), s.raw[m] + e \in Nat
      PROVE  LET n == WithRaw(a, m, e) IN Good(n) /\ SameMutexes(n, a)
  <2> DEFINE n == WithRaw(a, m, e)
  <2>1. /\ Sound(n) /\ n.guards = a.guards /\ n.irql = a.irql
        /\ n.excl = a.excl /\ n.shrd = a.shrd
        /\ Counted(n, m, 0)
    <3>1. a.raw[m] + e \in Nat /\ 0 = e - e
      BY <1>2
    <3> QED
      BY <1>2, <3>1, RawKeeps
  <2> HIDE DEF n
  <2>3. Level(n.irql, n.guards)
    BY <2>1, <1>1, <1>2, Zenon
  <2> QED
    BY <2>1, <2>3, CountedAll, Zenon DEF Good, SameMutexes, n
<1>3. ASSUME Kind[m] # "queued", s.shrd[m] = 0
      PROVE  LET n == [lock(s, m) EXCEPT !.raw[m] = @ + 1] IN Good(n) /\ SameMutexes(n, lock(s, m))
  <2> DEFINE a == lock(s, m)
  <2>1. Sound(a) /\ a.guards = s.guards /\ a.raw = s.raw /\ a.irql = s.irql /\ Counted(a, m, 1)
    BY <1>1, <1>3, LockTakes, Zenon
  <2> HIDE DEF a
  <2>2. s.raw[m] + 1 \in Nat
    BY <1>1
  <2>3. LET n == WithRaw(a, m, 1) IN Good(n) /\ SameMutexes(n, a)
    BY <1>2, <2>1, <2>2
  <2> QED
    BY <2>3, Zenon DEF a, WithRaw
<1>4. ASSUME EntersRegion(m)
      PROVE  LET n == [lock_shared(s, m) EXCEPT !.raw[m] = @ + 1] IN Good(n) /\ SameMutexes(n, lock_shared(s, m))
  <2> DEFINE a == lock_shared(s, m)
  <2>1. Sound(a) /\ a.guards = s.guards /\ a.raw = s.raw /\ a.irql = s.irql /\ Counted(a, m, 1)
    BY <1>1, <1>4, SharedTakes, Zenon
  <2> HIDE DEF a
  <2>2. s.raw[m] + 1 \in Nat
    BY <1>1
  <2>3. LET n == WithRaw(a, m, 1) IN Good(n) /\ SameMutexes(n, a)
    BY <1>2, <2>1, <2>2
  <2> QED
    BY <2>3, Zenon DEF a, WithRaw
<1>5. ASSUME s.raw[m] > 0
      PROVE  LET n == [unlock(s, m) EXCEPT !.raw[m] = @ - 1] IN Good(n) /\ SameMutexes(n, unlock(s, m))
  <2> DEFINE a == unlock(s, m)
  <2>1. Sound(a) /\ a.guards = s.guards /\ a.raw = s.raw /\ a.irql = s.irql /\ Counted(a, m, -1)
    BY <1>1, <1>5, UnlockGives, Zenon
  <2> HIDE DEF a
  <2>2. s.raw[m] + (-1) \in Nat
    BY <1>1, <1>5, <2>1
  <2>3. LET n == WithRaw(a, m, -1) IN Good(n) /\ SameMutexes(n, a)
    BY <1>2, <2>1, <2>2
  <2>4. a.raw[m] + (-1) = a.raw[m] - 1
    BY <1>1, <2>1, Zenon
  <2> QED
    BY <2>3, <2>4, Zenon DEF a, WithRaw
<1> QED
  BY <1>3, <1>4, <1>5, Zenon

\* A lock_guard of a mutex that the thread does not hold shared.
LEMMA LockGuardGood ==
  ASSUME NEW s, Good(s), NEW m \in GMutexes, s.shrd[m] = 0, NEW access \in {"none", "read", "write"}
  PROVE  LET n == construct_lock_guard(s, m, access) IN Good(n) /\ SameMutexes(n, lock(s, m))
<1> DEFINE n == construct_lock_guard(s, m, access)
           a == lock(s, m)
           g == [Guard("lock_guard", m, TRUE) EXCEPT !.old = s.irql, !.access = access]
<1>1. Sound(s) /\ Counted(s, m, 0) /\ Level(s.irql, s.guards) /\ s.irql \in Levels /\ s.guards \in Seq(AGuard)
  BY Zenon DEF Good, Sound, AState
<1>2. /\ Sound(a) /\ a.guards = s.guards /\ a.irql = IF Kind[m] = "queued" THEN DISPATCH_LEVEL ELSE s.irql
      /\ a.shrd = s.shrd /\ Counted(a, m, 1)
  <2>1. Counted(a, m, 1)
    BY <1>1, LockTakes, Zenon
  <2> QED
    BY <1>1, <2>1, LockTakes, Zenon
<1>3. g \in AGuard /\ g.type = "lock_guard" /\ g.mtx = m /\ g.owned = TRUE /\ g.old = s.irql
  BY <1>1, Zenon DEF Guard, GuardTypes, AGuard
<1>4. Formed(g)
  BY <1>3, Zenon DEF Formed
<1>5. n = Pushed(a, g)
  BY Zenon DEF construct_lock_guard
<1> HIDE DEF n, a, g
<1>6. /\ Sound(n) /\ n.guards = Append(a.guards, g) /\ n.irql = a.irql /\ n.excl = a.excl /\ n.shrd = a.shrd
      /\ Counted(n, m, IF g.owned THEN 1 - 1 ELSE 1)
  BY <1>2, <1>3, <1>4, <1>5, PushKeeps
<1>7. Level(n.irql, n.guards)
  <2>1. Raises(g) <=> Kind[m] = "queued"
    BY <1>3, Zenon DEF Raises
  <2> QED
    BY <2>1, <1>1, <1>2, <1>3, <1>6, LevelPush, Zenon
<1>8. Counted(n, m, 0)
  BY <1>3, <1>6
<1> QED
  BY <1>6, <1>7, <1>8, CountedAll, Zenon DEF Good, SameMutexes, n, a

\* A guard that does not raise the level takes over an acquisition of m that is not counted yet, or none.
LEMMA PushGood ==
  ASSUME NEW a, Sound(a), Level(a.irql, a.guards), NEW m, NEW g \in AGuard, Formed(g),
         g.type \in {"unique_lock", "shared_lock"}, g.access # "write", g.owned => g.mtx = m,
         Counted(a, m, IF g.owned THEN 1 ELSE 0)
  PROVE  Good(Pushed(a, g)) /\ SameMutexes(Pushed(a, g), a)
<1> DEFINE n == Pushed(a, g)
           d == IF g.owned THEN 1 ELSE 0
<1>1. /\ Sound(n) /\ n.guards = Append(a.guards, g) /\ n.irql = a.irql /\ n.excl = a.excl /\ n.shrd = a.shrd
      /\ Counted(n, m, IF g.owned THEN d - 1 ELSE d)
  <2>1. d \in Int
    OBVIOUS
  <2> HIDE DEF d
  <2>2. Counted(a, m, d)
    BY Zenon DEF d
  <2> QED
    BY <2>1, <2>2, PushKeeps, Zenon
<1>2. (IF g.owned THEN d - 1 ELSE d) = 0
  OBVIOUS
<1> HIDE DEF n, d
<1>3. Counted(n, m, 0)
  BY <1>1, <1>2, Zenon
<1>4. a.irql \in Levels /\ a.guards \in Seq(AGuard)
  BY Zenon DEF Sound, AState
<1>5. Level(n.irql, n.guards)
  BY <1>1, <1>4, LocksDoNotRaise, LevelPush
<1> QED
  BY <1>1, <1>3, <1>5, CountedAll, Zenon DEF Good, SameMutexes, n

\* A guard adopts an acquisition that was made by hand.
LEMMA AdoptGood ==
  ASSUME NEW s, Good(s), NEW m \in GMutexes, s.raw[m] > 0, NEW g \in AGuard, Formed(g),
         g.type \in {"unique_lock", "shared_lock"}, g.access = "none", g.owned, g.mtx = m
  PROVE  LET n == [Pushed(s, g) EXCEPT !.raw[m] = @ - 1] IN Good(n) /\ SameMutexes(n, s)
<1> DEFINE a == Pushed(s, g)
           n == WithRaw(a, m, -1)
<1>1. Sound(s) /\ Counted(s, m, 0) /\ Level(s.irql, s.guards) /\ s.irql \in Levels /\ s.guards \in Seq(AGuard) /\ s.raw[m] \in Nat
  BY Zenon DEF Good, Sound, AState
<1>2. /\ Sound(a) /\ a.guards = Append(s.guards, g) /\ a.raw = s.raw /\ a.irql = s.irql
      /\ a.excl = s.excl /\ a.shrd = s.shrd
      /\ Counted(a, m, IF g.owned THEN 0 - 1 ELSE 0)
  BY <1>1, PushKeeps
<1>3. Counted(a, m, -1) /\ a.raw[m] + (-1) \in Nat /\ -1 \in Int /\ 0 \in Int /\ 0 = -1 - (-1)
  BY <1>1, <1>2
<1> HIDE DEF a
<1>4. /\ Sound(n) /\ n.guards = a.guards /\ n.irql = a.irql /\ n.excl = a.excl /\ n.shrd = a.shrd
      /\ Counted(n, m, 0)
  BY <1>2, <1>3, RawKeeps
<1>5. n = [a EXCEPT !.raw[m] = @ - 1]
  BY <1>1, <1>2, Zenon DEF WithRaw
<1> HIDE DEF n
<1>6. Level(n.irql, n.guards)
  BY <1>1, <1>2, <1>4, LocksDoNotRaise, LevelPush
<1>8. Good(n) /\ SameMutexes(n, s)
  BY <1>2, <1>4, <1>6, CountedAll, Zenon DEF Good, SameMutexes
<1> QED
  BY <1>5, <1>8, Zenon DEF a

\* unique_lock with each of its tags.
LEMMA UniqueLockGood ==
  ASSUME NEW s, Good(s), NEW m \in GMutexes, Kind[m] # "queued"
  PROVE  /\ s.shrd[m] = 0 =>
              LET n == construct_unique_lock(s, m, "lock") IN Good(n) /\ SameMutexes(n, lock(s, m))
         /\ s.raw[m] > 0 =>
              LET n == construct_unique_lock(s, m, "adopt_lock") IN Good(n) /\ SameMutexes(n, s)
         /\ LET n == construct_unique_lock(s, m, "defer_lock") IN Good(n) /\ SameMutexes(n, s)
<1> DEFINE g == Guard("unique_lock", m, TRUE)
           h == Guard("unique_lock", m, FALSE)
<1>1. Sound(s) /\ Counted(s, m, 0) /\ Level(s.irql, s.guards)
  BY Zenon DEF Good
<1>2. /\ g \in AGuard /\ g.type = "unique_lock" /\ g.mtx = m /\ g.owned = TRUE /\ g.access = "none"
      /\ h \in AGuard /\ h.type = "unique_lock" /\ h.mtx = m /\ h.owned = FALSE /\ h.access = "none"
  BY Zenon DEF Guard, GuardTypes, AGuard, Levels
<1>3. Formed(g) /\ Formed(h)
  BY <1>2, Zenon DEF Formed
<1> HIDE DEF g, h
<1>4. ASSUME s.shrd[m] = 0
      PROVE  Good(Pushed(lock(s, m), g)) /\ SameMutexes(Pushed(lock(s, m), g), lock(s, m))
  <2> DEFINE a == lock(s, m)
  <2>1. Sound(a) /\ a.guards = s.guards /\ a.irql = s.irql /\ Counted(a, m, 1)
    BY <1>1, <1>4, LockTakes, Zenon
  <2> HIDE DEF a
  <2>2. Level(a.irql, a.guards) /\ Counted(a, m, 1)
    BY <2>1, <1>1, Zenon
  <2>3. Good(Pushed(a, g)) /\ SameMutexes(Pushed(a, g), a)
    BY <2>1, <2>2, <1>2, <1>3, PushGood, Zenon
  <2> QED
    BY <2>3, Zenon DEF a
<1>5. ASSUME s.raw[m] > 0
      PROVE  LET n == [Pushed(s, g) EXCEPT !.raw[m] = @ - 1] IN Good(n) /\ SameMutexes(n, s)
  BY <1>1, <1>2, <1>3, <1>5, AdoptGood, Zenon
<1>6. Good(Pushed(s, h)) /\ SameMutexes(Pushed(s, h), s)
  BY <1>1, <1>2, <1>3, PushGood, Zenon
<1> QED
  BY <1>4, <1>5, <1>6, Zenon DEF construct_unique_lock, g, h

\* shared_lock with each of its tags.
LEMMA SharedLockGood ==
  ASSUME NEW s, Good(s), NEW m \in GMutexes, EntersRegion(m), NEW access \in {"none", "read"}
  PROVE  /\ LET n == construct_shared_lock(s, m, "lock", access) IN Good(n) /\ SameMutexes(n, lock_shared(s, m))
         /\ s.raw[m] > 0 =>
              LET n == construct_shared_lock(s, m, "adopt_lock", "none") IN Good(n) /\ SameMutexes(n, s)
         /\ LET n == construct_shared_lock(s, m, "defer_lock", "none") IN Good(n) /\ SameMutexes(n, s)
<1> DEFINE f == [Guard("shared_lock", m, TRUE) EXCEPT !.access = access]
           g == [Guard("shared_lock", m, TRUE) EXCEPT !.access = "none"]
           h == [Guard("shared_lock", m, FALSE) EXCEPT !.access = "none"]
<1>1. /\ Sound(s) /\ Counted(s, m, 0) /\ Level(s.irql, s.guards) /\ Kind[m] # "queued"
      /\ \A i \in DOMAIN s.guards : s.guards[i].access = "write" /\ s.guards[i].mtx = m => s.excl[m] > 0
  BY HoldsWhatItOwes, Zenon DEF Good, EntersRegion
<1>2. /\ f \in AGuard /\ f.type = "shared_lock" /\ f.mtx = m /\ f.owned = TRUE /\ f.access = access
      /\ g \in AGuard /\ g.type = "shared_lock" /\ g.mtx = m /\ g.owned = TRUE /\ g.access = "none"
      /\ h \in AGuard /\ h.type = "shared_lock" /\ h.mtx = m /\ h.owned = FALSE /\ h.access = "none"
  BY Zenon DEF Guard, GuardTypes, AGuard, Levels
<1>3. Formed(f) /\ Formed(g) /\ Formed(h)
  BY <1>1, <1>2, Zenon DEF Formed
<1> HIDE DEF f, g, h
<1>4. Good(Pushed(lock_shared(s, m), f)) /\ SameMutexes(Pushed(lock_shared(s, m), f), lock_shared(s, m))
  <2> DEFINE a == lock_shared(s, m)
  <2>1. Sound(a) /\ a.guards = s.guards /\ a.irql = s.irql /\ Counted(a, m, 1)
    BY <1>1, SharedTakes, Zenon
  <2> HIDE DEF a
  <2>2. Level(a.irql, a.guards) /\ Counted(a, m, 1)
    BY <2>1, <1>1, Zenon
  <2>3. Good(Pushed(a, f)) /\ SameMutexes(Pushed(a, f), a)
    BY <2>1, <2>2, <1>2, <1>3, PushGood, Zenon
  <2> QED
    BY <2>3, Zenon DEF a
<1>5. ASSUME s.raw[m] > 0
      PROVE  LET n == [Pushed(s, g) EXCEPT !.raw[m] = @ - 1] IN Good(n) /\ SameMutexes(n, s)
  BY <1>1, <1>2, <1>3, <1>5, AdoptGood, Zenon
<1>6. Good(Pushed(s, h)) /\ SameMutexes(Pushed(s, h), s)
  BY <1>1, <1>2, <1>3, PushGood, Zenon
<1> QED
  BY <1>4, <1>5, <1>6, Zenon DEF construct_shared_lock, f, g, h


\* irql_guard.
LEMMA IrqlGuardGood ==
  ASSUME NEW s, Good(s)
  PROVE  LET n == construct_irql_guard(s) IN Good(n) /\ SameMutexes(n, s)
<1> DEFINE g == [Guard("irql_guard", NoMutex, FALSE) EXCEPT !.old = s.irql]
           a == Pushed(s, g)
           n == [a EXCEPT !.irql = DISPATCH_LEVEL]
<1>1. Sound(s) /\ Counted(s, NoMutex, 0) /\ Level(s.irql, s.guards) /\ s.irql \in Levels /\ s.guards \in Seq(AGuard)
  BY Zenon DEF Good, Sound, AState
<1>2. g \in AGuard /\ g.type = "irql_guard" /\ g.owned = FALSE /\ g.access = "none" /\ g.old = s.irql
  BY <1>1, Zenon DEF Guard, GuardTypes, AGuard
<1>3. Formed(g) /\ Raises(g)
  BY <1>2, Zenon DEF Formed, Raises
<1> HIDE DEF g
<1>4. /\ Sound(a) /\ a.guards = Append(s.guards, g) /\ a.excl = s.excl /\ a.shrd = s.shrd
      /\ Counted(a, NoMutex, IF g.owned THEN 0 - 1 ELSE 0)
  BY <1>1, <1>2, <1>3, PushKeeps
<1>5. Counted(a, NoMutex, 0)
  BY <1>2, <1>4, Zenon
<1> HIDE DEF a
<1>6. /\ Sound(n) /\ n.guards = a.guards /\ n.irql = DISPATCH_LEVEL /\ n.excl = a.excl /\ n.shrd = a.shrd
      /\ Counted(n, NoMutex, 0)
  <2>1. DISPATCH_LEVEL \in Levels
    BY Zenon DEF Levels
  <2> QED
    BY <1>4, <1>5, <2>1, IrqlKeeps, Zenon
<1> HIDE DEF n
<1>7. Level(n.irql, n.guards)
  BY <1>1, <1>2, <1>3, <1>4, <1>6, LevelPush, Zenon
<1>8. Good(n) /\ SameMutexes(n, s)
  BY <1>4, <1>6, <1>7, CountedAll, Zenon DEF Good, SameMutexes
<1> QED
  BY <1>8, Zenon DEF construct_irql_guard, n, a, g

\* A guard of the kinds that can be moved, as it is.
LEMMA MovableGuard ==
  ASSUME NEW s, Good(s), NEW i \in DOMAIN s.guards, s.guards[i].type \in {"unique_lock", "shared_lock"}
  PROVE  s.guards[i] \in AGuard /\ Formed(s.guards[i]) /\ ~Raises(s.guards[i])
<1>1. s.guards[i] \in AGuard /\ Formed(s.guards[i])
  BY DEF Good, Sound, AState
<1>2. ~Raises(s.guards[i])
  BY LocksDoNotRaise
<1> QED
  BY <1>1, <1>2, Zenon

\* And with another mutex.
LEMMA MovedGuard ==
  ASSUME NEW e \in AGuard, e.type \in {"unique_lock", "shared_lock"}, e.access = "none",
         NEW x \in GMutexes \union {NoMutex}, NEW b \in BOOLEAN,
         x # NoMutex => Kind[x] # "queued", b => x \in GMutexes
  PROVE  LET g == Moved(e, x, b)
         IN g \in AGuard /\ g.mtx = x /\ g.owned = b /\ g.access = "none" /\ g.type = e.type /\ ~Raises(g) /\ Formed(g)
<1> DEFINE g == Moved(e, x, b)
<1>1. g \in AGuard /\ g.mtx = x /\ g.owned = b /\ g.access = "none" /\ g.type = e.type
  BY Zenon DEF AGuard, Moved
<1> HIDE DEF g
<1>2. ~Raises(g)
  BY <1>1, LocksDoNotRaise
<1>3. Formed(g)
  BY <1>1, Zenon DEF Formed
<1> QED
  BY <1>1, <1>2, <1>3, Zenon DEF g

\* The i-th guard gets other members; what it owed and owes is of m, and a has yet to count it.
LEMMA SetGood ==
  ASSUME NEW a, Sound(a), Level(a.irql, a.guards), NEW i \in DOMAIN a.guards, ~Raises(a.guards[i]),
         NEW g \in AGuard, Formed(g), ~Raises(g), g.access = "none",
         NEW m, a.guards[i].owned => a.guards[i].mtx = m, g.owned => g.mtx = m,
         NEW d \in Int, Counted(a, m, d), d = (IF g.owned THEN 1 ELSE 0) - (IF a.guards[i].owned THEN 1 ELSE 0)
  PROVE  LET n == WithGuard(a, i, g)
         IN Good(n) /\ SameMutexes(n, a) /\ n.guards = [a.guards EXCEPT ![i] = g]
<1> DEFINE n == WithGuard(a, i, g)
<1>1. 0 = d + (IF a.guards[i].owned THEN 1 ELSE 0) - (IF g.owned THEN 1 ELSE 0)
  OBVIOUS
<1>2. /\ Sound(n) /\ n.guards = [a.guards EXCEPT ![i] = g] /\ n.irql = a.irql /\ n.excl = a.excl /\ n.shrd = a.shrd
      /\ Counted(n, m, 0)
  <2> DEFINE z == 0
  <2>1. z \in Int /\ z = d + (IF a.guards[i].owned THEN 1 ELSE 0) - (IF g.owned THEN 1 ELSE 0)
    BY <1>1
  <2> HIDE DEF z
  <2>2. /\ Sound(n) /\ n.guards = [a.guards EXCEPT ![i] = g] /\ n.irql = a.irql /\ n.excl = a.excl /\ n.shrd = a.shrd
        /\ Counted(n, m, z)
    BY <2>1, SetKeeps
  <2> QED
    BY <2>2, Zenon DEF z
<1> HIDE DEF n
<1>5. a.guards \in Seq(AGuard)
  BY Zenon DEF Sound, AState
<1>6. Level(n.irql, n.guards)
  BY <1>2, <1>5, LevelSet
<1> QED
  BY <1>2, <1>6, CountedAll, Zenon DEF Good, SameMutexes, n

\* A guard that owns its mutex unlocks it.
LEMMA UnlockGuardGood ==
  ASSUME NEW s, Good(s), NEW i \in DOMAIN s.guards, s.guards[i].type \in {"unique_lock", "shared_lock"},
         s.guards[i].access = "none", s.guards[i].owned
  PROVE  LET n == unlock_guard(s, i)
             g == Moved(s.guards[i], s.guards[i].mtx, FALSE)
         IN /\ Good(n) /\ SameMutexes(n, unlock(s, s.guards[i].mtx)) /\ s.guards[i].mtx \in GMutexes
            /\ Held(s, s.guards[i].mtx) > 0 /\ n.guards = [s.guards EXCEPT ![i] = g]
<1> DEFINE m == s.guards[i].mtx
           a == unlock(s, m)
           g == Moved(s.guards[i], m, FALSE)
<1>1. /\ s.guards[i] \in AGuard /\ Formed(s.guards[i]) /\ ~Raises(s.guards[i]) /\ m \in GMutexes
      /\ Kind[m] # "queued"
  <2>1. s.guards[i] \in AGuard /\ Formed(s.guards[i]) /\ ~Raises(s.guards[i])
    BY MovableGuard, Zenon
  <2> QED
    BY <2>1, GuardAssumption, Zenon DEF Formed
<1>2. g \in AGuard /\ g.owned = FALSE /\ g.access = "none" /\ ~Raises(g) /\ Formed(g)
  <2>1. m \in GMutexes \union {NoMutex} /\ FALSE \in BOOLEAN
    BY <1>1, Zenon
  <2> HIDE DEF m
  <2> QED
    BY <1>1, <2>1, MovedGuard, Zenon
<1>3. Sound(s) /\ Level(s.irql, s.guards) /\ Counted(s, m, 0) /\ Held(s, m) > 0
  BY <1>1, HoldsWhatItOwes, Zenon DEF Good, Owes
<1>4. Sound(a) /\ a.guards = s.guards /\ a.irql = s.irql /\ Counted(a, m, -1)
  BY <1>1, <1>3, UnlockGives, Zenon
<1>5. unlock_guard(s, i) = WithGuard(a, i, g)
  BY <1>1, <1>4, Zenon DEF unlock_guard, Sound, AState, AGuard, WithGuard, WithRaw, Moved
<1> HIDE DEF a, g
<1>6. LET n == WithGuard(a, i, g)
      IN Good(n) /\ SameMutexes(n, a) /\ n.guards = [a.guards EXCEPT ![i] = g]
  <2>1. -1 \in Int /\ -1 = (IF g.owned THEN 1 ELSE 0) - (IF a.guards[i].owned THEN 1 ELSE 0)
    BY <1>2, <1>4
  <2>2. Level(a.irql, a.guards) /\ i \in DOMAIN a.guards /\ ~Raises(a.guards[i]) /\ a.guards[i].mtx = m
    BY <1>1, <1>3, <1>4, Zenon
  <2> QED
    BY <2>1, <2>2, <1>2, <1>4, SetGood, SMTT(30)
<1> QED
  BY <1>1, <1>3, <1>4, <1>5, <1>6, Zenon DEF a, g

\* A unique_lock that has a mutex and does not own it locks it.
LEMMA LockOfGuardGood ==
  ASSUME NEW s, Good(s), NEW i \in DOMAIN s.guards, s.guards[i].type = "unique_lock",
         ~s.guards[i].owned, s.guards[i].mtx # NoMutex, s.shrd[s.guards[i].mtx] = 0
  PROVE  LET n == lock_of_guard(s, i)
         IN Good(n) /\ SameMutexes(n, lock(s, s.guards[i].mtx)) /\ s.guards[i].mtx \in GMutexes
<1> DEFINE m == s.guards[i].mtx
           a == lock(s, m)
           g == Moved(s.guards[i], m, TRUE)
<1>1. s.guards[i].access = "none" /\ s.guards[i] \in AGuard
  BY DEF Good, Sound, Formed, AState
<1>2. ~Raises(s.guards[i]) /\ m \in GMutexes /\ Kind[m] # "queued"
  <2>1. Formed(s.guards[i]) /\ ~Raises(s.guards[i])
    BY <1>1, MovableGuard, Zenon
  <2> QED
    BY <1>1, <2>1, Zenon DEF Formed, AGuard
<1>3. g \in AGuard /\ g.owned = TRUE /\ g.mtx = m /\ g.access = "none" /\ ~Raises(g) /\ Formed(g)
  <2>1. m \in GMutexes \union {NoMutex} /\ TRUE \in BOOLEAN
    BY <1>2, Zenon
  <2> HIDE DEF m
  <2> QED
    BY <1>1, <1>2, <2>1, MovedGuard, Zenon
<1>4. Sound(s) /\ Level(s.irql, s.guards) /\ Counted(s, m, 0)
  BY Zenon DEF Good
<1>5. Sound(a) /\ a.guards = s.guards /\ a.irql = s.irql /\ Counted(a, m, 1)
  BY <1>2, <1>4, LockTakes, ZenonT(60)
<1>6. lock_of_guard(s, i) = WithGuard(a, i, g)
  BY <1>1, <1>5, ZenonT(60) DEF lock_of_guard, Sound, AState, AGuard, WithGuard, WithRaw, Moved
<1> HIDE DEF a, g
<1>7. LET n == WithGuard(a, i, g)
      IN Good(n) /\ SameMutexes(n, a) /\ n.guards = [a.guards EXCEPT ![i] = g]
  <2>1. 1 \in Int /\ 1 = (IF g.owned THEN 1 ELSE 0) - (IF a.guards[i].owned THEN 1 ELSE 0)
    BY <1>3, <1>5
  <2>2. Level(a.irql, a.guards) /\ i \in DOMAIN a.guards /\ ~Raises(a.guards[i]) /\ ~a.guards[i].owned
    BY <1>2, <1>4, <1>5, Zenon
  <2> QED
    BY <2>1, <2>2, <1>3, <1>5, SetGood
<1> QED
  BY <1>2, <1>6, <1>7, ZenonT(60) DEF a

\* release(): what the guard owed is the program's.
LEMMA ReleaseGood ==
  ASSUME NEW s, Good(s), NEW i \in DOMAIN s.guards, s.guards[i].type \in {"unique_lock", "shared_lock"},
         s.guards[i].access = "none"
  PROVE  LET n == release(s, i) IN Good(n) /\ SameMutexes(n, s)
<1> DEFINE m == s.guards[i].mtx
           g == Moved(s.guards[i], NoMutex, FALSE)
<1>1. s.guards[i] \in AGuard /\ ~Raises(s.guards[i]) /\ Formed(s.guards[i])
  BY MovableGuard, Zenon
<1>2. g \in AGuard /\ g.owned = FALSE /\ g.access = "none" /\ ~Raises(g) /\ Formed(g)
  BY <1>1, MovedGuard, Zenon
<1>3. Sound(s) /\ Level(s.irql, s.guards) /\ Counted(s, m, 0) /\ s.raw \in [GMutexes -> Nat]
  BY Zenon DEF Good, Sound, AState
<1>4. CASE s.guards[i].owned
  <2>1. m \in GMutexes
    BY <1>1, <1>4, ZenonT(60) DEF Formed
  <2> DEFINE a == WithRaw(s, m, 1)
  <2>2. /\ Sound(a) /\ a.guards = s.guards /\ a.irql = s.irql /\ a.excl = s.excl /\ a.shrd = s.shrd
        /\ Counted(a, m, -1)
    <3>1. s.raw[m] + 1 \in Nat /\ 0 \in Int /\ 1 \in Int /\ -1 \in Int /\ -1 = 0 - 1
      BY <1>3, <2>1
    <3> QED
      BY <1>3, <2>1, <3>1, RawKeeps
  <2>3. release(s, i) = WithGuard(a, i, g)
    <3>1. s \in AState /\ s.guards[i] \in AGuard
      BY <1>1, <1>3, ZenonT(60) DEF Sound
    <3> QED
      BY <3>1, <1>4, <2>1, Zenon DEF release, AState, WithGuard, WithRaw, Moved
  <2> HIDE DEF a, g
  <2>4. LET n == WithGuard(a, i, g)
        IN Good(n) /\ SameMutexes(n, a) /\ n.guards = [a.guards EXCEPT ![i] = g]
    <3>1. -1 \in Int /\ -1 = (IF g.owned THEN 1 ELSE 0) - (IF a.guards[i].owned THEN 1 ELSE 0)
      BY <1>2, <1>4, <2>2
    <3>2. Level(a.irql, a.guards) /\ i \in DOMAIN a.guards /\ ~Raises(a.guards[i]) /\ a.guards[i].mtx = m
      BY <1>1, <1>3, <2>2, Zenon
    <3> QED
      BY <3>1, <3>2, <1>2, <2>2, SetGood
  <2> QED
    BY <2>2, <2>3, <2>4, Zenon DEF SameMutexes
<1>5. CASE ~s.guards[i].owned
  <2>1. release(s, i) = WithGuard(s, i, g)
    BY <1>1, <1>3, <1>5, Zenon DEF release, Sound, AState, AGuard, WithGuard, WithRaw, Moved
  <2> HIDE DEF g
  <2>2. 0 \in Int /\ 0 = (IF g.owned THEN 1 ELSE 0) - (IF s.guards[i].owned THEN 1 ELSE 0)
    BY <1>2, <1>3, <1>5, SMTT(30)
  <2>3. LET n == WithGuard(s, i, g)
        IN Good(n) /\ SameMutexes(n, s) /\ n.guards = [s.guards EXCEPT ![i] = g]
    BY <2>2, <1>1, <1>2, <1>3, SetGood
  <2> QED
    BY <2>1, <2>3, Zenon
<1> QED
  BY <1>4, <1>5, Zenon


\* exchange(): what the j-th guard owed is the i-th one's, which owed nothing.
LEMMA MoveFromGood ==
  ASSUME NEW s, Good(s), NEW i \in DOMAIN s.guards, NEW j \in DOMAIN s.guards,
         s.guards[i].type \in {"unique_lock", "shared_lock"}, s.guards[j].type \in {"unique_lock", "shared_lock"},
         s.guards[i].access = "none", s.guards[j].access = "none", ~s.guards[i].owned
  PROVE  LET n == move_construct_from(s, i, j) IN Good(n) /\ SameMutexes(n, s)
<1> DEFINE m == s.guards[j].mtx
           e == Moved(s.guards[j], NoMutex, FALSE)
           b == WithGuard(s, j, e)
           w == s.guards[j].owned
           g == Moved(b.guards[i], m, w)
           d == IF s.guards[j].owned THEN 1 ELSE 0
<1>1. /\ s.guards[i] \in AGuard /\ ~Raises(s.guards[i]) /\ s.guards[i].owned = FALSE
      /\ s.guards[j] \in AGuard /\ ~Raises(s.guards[j]) /\ Formed(s.guards[j]) /\ s.guards[j].owned \in BOOLEAN
  <2>1. s.guards[i] \in AGuard /\ ~Raises(s.guards[i]) /\ s.guards[j] \in AGuard /\ ~Raises(s.guards[j]) /\ Formed(s.guards[j])
    BY MovableGuard, Zenon
  <2> QED
    BY <2>1, Zenon DEF AGuard
<1>2. m \in GMutexes \union {NoMutex} /\ (m # NoMutex => Kind[m] # "queued") /\ (s.guards[j].owned => m \in GMutexes)
  BY <1>1, Zenon DEF AGuard, Formed
<1>3. Sound(s) /\ Level(s.irql, s.guards) /\ Counted(s, m, 0) /\ s.guards \in Seq(AGuard)
  BY Zenon DEF Good, Sound, AState
<1>4. e \in AGuard /\ e.type = s.guards[j].type /\ e.owned = FALSE /\ e.access = "none" /\ ~Raises(e) /\ Formed(e)
  BY <1>1, MovedGuard, ZenonT(60)
<1>5. move_construct_from(s, i, j) = WithGuard(b, i, g)
  BY ZenonT(60) DEF move_construct_from, WithGuard, Moved
<1> HIDE DEF e
<1>6. /\ Sound(b) /\ b.guards = [s.guards EXCEPT ![j] = e] /\ b.irql = s.irql /\ b.excl = s.excl /\ b.shrd = s.shrd
      /\ Counted(b, m, d)
  <2>1. 0 \in Int /\ d \in Int /\ d = 0 + (IF s.guards[j].owned THEN 1 ELSE 0) - (IF e.owned THEN 1 ELSE 0)
    BY <1>4
  <2> HIDE DEF d
  <2> QED
    BY <1>3, <1>4, <2>1, SetKeeps, SMTT(30)
<1> HIDE DEF b
<1>7. i \in DOMAIN b.guards /\ b.guards[i] = IF i = j THEN e ELSE s.guards[i]
  BY <1>3, <1>6, Zenon
<1>8. /\ b.guards[i] \in AGuard /\ b.guards[i].type \in {"unique_lock", "shared_lock"}
      /\ b.guards[i].access = "none" /\ b.guards[i].owned = FALSE /\ ~Raises(b.guards[i])
  BY <1>1, <1>4, <1>7, Zenon
<1>9. w = s.guards[j].owned
  BY <1>1, ZenonT(60)
<1> HIDE DEF m, w
<1>10. g \in AGuard /\ g.mtx = m /\ g.owned = w /\ g.access = "none" /\ ~Raises(g) /\ Formed(g)
  BY <1>1, <1>2, <1>8, <1>9, MovedGuard, SMTT(30)
<1> HIDE DEF g
<1>11. d \in Int /\ d = (IF g.owned THEN 1 ELSE 0) - (IF b.guards[i].owned THEN 1 ELSE 0)
  BY <1>8, <1>9, <1>10
<1> HIDE DEF d
<1>12. Level(b.irql, b.guards)
  BY <1>1, <1>3, <1>4, <1>6, LevelSet
<1>13. LET n == WithGuard(b, i, g)
       IN Good(n) /\ SameMutexes(n, b)
  BY <1>6, <1>7, <1>8, <1>10, <1>11, <1>12, SetGood, Zenon
<1> QED
  BY <1>5, <1>6, <1>13, Zenon DEF SameMutexes

\* Move construction: the new guard owes nothing before the exchange.
LEMMA MoveConstructGood ==
  ASSUME NEW s, Good(s), NEW j \in DOMAIN s.guards,
         s.guards[j].type \in {"unique_lock", "shared_lock"}, s.guards[j].access = "none"
  PROVE  LET n == move_construct(s, j) IN Good(n) /\ SameMutexes(n, s)
<1> DEFINE g == Guard(s.guards[j].type, NoMutex, FALSE)
           a == Pushed(s, g)
           i == Len(s.guards) + 1
<1>1. /\ g \in AGuard /\ g.type = s.guards[j].type /\ g.mtx = NoMutex /\ g.owned = FALSE /\ g.access = "none"
  BY Zenon DEF Guard, GuardTypes, AGuard, Levels
<1>2. Formed(g)
  BY <1>1, Zenon DEF Formed
<1> HIDE DEF g
<1>3. Sound(s) /\ Level(s.irql, s.guards) /\ Counted(s, NoMutex, 0) /\ s.guards \in Seq(AGuard)
  BY Zenon DEF Good, Sound, AState
<1>4. Good(a) /\ SameMutexes(a, s)
  BY <1>1, <1>2, <1>3, PushGood, Zenon
<1>5. a.guards = Append(s.guards, g)
  BY Zenon DEF Pushed, Good, Sound, AState
<1> HIDE DEF a
<1>6. /\ i \in DOMAIN a.guards /\ j \in DOMAIN a.guards /\ a.guards[i] = g /\ a.guards[j] = s.guards[j]
  <2>1. DOMAIN s.guards = 1..Len(s.guards) /\ Len(s.guards) \in Nat /\ DOMAIN a.guards = 1..(Len(s.guards) + 1)
    BY <1>1, <1>3, <1>5, Appended
  <2> QED
    BY <2>1, <1>1, <1>3, <1>5, Appended
<1> HIDE DEF i
<1>7. LET n == move_construct_from(a, i, j) IN Good(n) /\ SameMutexes(n, a)
  BY <1>1, <1>4, <1>6, MoveFromGood, Zenon
<1> QED
  BY <1>4, <1>7, Zenon DEF move_construct, SameMutexes, a, i, g

\* Move assignment: the target is unlocked first if it owns its mutex.
LEMMA MoveAssignGood ==
  ASSUME NEW s, Good(s), NEW i \in DOMAIN s.guards, NEW j \in DOMAIN s.guards,
         s.guards[i].type \in {"unique_lock", "shared_lock"}, s.guards[j].type \in {"unique_lock", "shared_lock"},
         s.guards[i].access = "none", s.guards[j].access = "none"
  PROVE  LET n == move_assign(s, i, j)
         IN /\ Good(n)
            /\ IF s.guards[i].owned
               THEN SameMutexes(n, unlock(s, s.guards[i].mtx)) /\ s.guards[i].mtx \in GMutexes /\ Held(s, s.guards[i].mtx) > 0
               ELSE SameMutexes(n, s)
<1>1. CASE s.guards[i].owned
  <2> DEFINE a == unlock_guard(s, i)
             g == Moved(s.guards[i], s.guards[i].mtx, FALSE)
  <2>1. /\ Good(a) /\ SameMutexes(a, unlock(s, s.guards[i].mtx)) /\ s.guards[i].mtx \in GMutexes
        /\ Held(s, s.guards[i].mtx) > 0 /\ a.guards = [s.guards EXCEPT ![i] = g]
    BY <1>1, UnlockGuardGood, Zenon
  <2>2. s.guards[i] \in AGuard /\ s.guards \in Seq(AGuard)
    BY DEF Good, Sound, AState
  <2>3. g.type = s.guards[i].type /\ g.owned = FALSE /\ g.access = "none"
    BY <2>2, Zenon DEF AGuard, Moved
  <2> HIDE DEF a, g
  <2>4. DOMAIN a.guards = DOMAIN s.guards /\ a.guards[i] = g /\ (i # j => a.guards[j] = s.guards[j])
    BY <2>1, Zenon
  <2>5. /\ i \in DOMAIN a.guards /\ j \in DOMAIN a.guards
        /\ a.guards[i].type \in {"unique_lock", "shared_lock"} /\ a.guards[j].type \in {"unique_lock", "shared_lock"}
        /\ a.guards[i].access = "none" /\ a.guards[j].access = "none" /\ ~a.guards[i].owned
    BY <2>3, <2>4, Zenon
  <2>6. LET n == move_construct_from(a, i, j) IN Good(n) /\ SameMutexes(n, a)
    BY <2>1, <2>5, MoveFromGood, Zenon
  <2>7. move_assign(s, i, j) = move_construct_from(a, i, j)
    BY <1>1, Zenon DEF move_assign, reset_if_needed, a
  <2> QED
    BY <1>1, <2>1, <2>6, <2>7, Zenon DEF SameMutexes
<1>2. CASE ~s.guards[i].owned
  <2>1. move_assign(s, i, j) = move_construct_from(s, i, j)
    BY <1>2, Zenon DEF move_assign, reset_if_needed
  <2> QED
    BY <1>2, <2>1, MoveFromGood, Zenon
<1> QED
  BY <1>1, <1>2, Zenon

-----------------------------------------------------------------------------
\* The last guard goes, and the level becomes l.
Pop(a, l) == [a EXCEPT !.irql = l, !.guards = SubSeq(@, 1, Len(@) - 1)]
LevelBefore(s) == IF Raises(s.guards[Len(s.guards)]) THEN s.guards[Len(s.guards)].old ELSE s.irql

\* What a has yet to count is what the last guard owed.
LEMMA PopGood ==
  ASSUME NEW s, Good(s), s.guards # <<>>, NEW a, Sound(a), a.guards = s.guards,
         NEW m, s.guards[Len(s.guards)].owned => s.guards[Len(s.guards)].mtx = m,
         Counted(a, m, IF s.guards[Len(s.guards)].owned THEN -1 ELSE 0)
  PROVE  LET n == Pop(a, LevelBefore(s)) IN Good(n) /\ SameMutexes(n, a)
<1> DEFINE q == s.guards
           l == LevelBefore(s)
           d == IF q[Len(q)].owned THEN -1 ELSE 0
           b == [a EXCEPT !.irql = l]
           n == [b EXCEPT !.guards = SubSeq(@, 1, Len(@) - 1)]
<1>1. q \in Seq(AGuard) /\ s.irql \in Levels /\ Level(s.irql, q) /\ Len(q) \in DOMAIN q
  BY Popped DEF Good, Sound, AState
<1>2. l \in Levels
  <2>1. q[Len(q)] \in AGuard
    BY <1>1
  <2>2. q[Len(q)].old \in Levels
    BY <2>1, Zenon DEF AGuard
  <2> QED
    BY <1>1, <2>2, Zenon DEF LevelBefore
<1>3. Level(l, SubSeq(q, 1, Len(q) - 1))
  BY <1>1, LevelPop, Zenon DEF LevelBefore
<1> HIDE DEF l
<1>4. d \in Int /\ Counted(a, m, d)
  OBVIOUS
<1>5. Sound(b) /\ b.guards = q /\ b.irql = l /\ b.excl = a.excl /\ b.shrd = a.shrd /\ Counted(b, m, d)
  BY <1>2, <1>4, IrqlKeeps, Zenon
<1> HIDE DEF b, d
<1>6. /\ Sound(n) /\ n.guards = SubSeq(b.guards, 1, Len(b.guards) - 1) /\ n.irql = b.irql /\ n.excl = b.excl /\ n.shrd = b.shrd
      /\ Counted(n, m, IF b.guards[Len(b.guards)].owned THEN d + 1 ELSE d)
  BY <1>4, <1>5, PopKeeps, Zenon
<1> HIDE DEF n
<1>7. Counted(n, m, 0)
  BY <1>5, <1>6 DEF d
<1>8. Good(n) /\ SameMutexes(n, a)
  BY <1>3, <1>5, <1>6, <1>7, CountedAll, Zenon DEF Good, SameMutexes
<1>9. n = Pop(a, l)
  BY Zenon DEF n, b, Pop, Sound, AState
<1> QED
  BY <1>8, <1>9, Zenon DEF l

\* The last guard is destroyed and unlocks its mutex if it owns it.
LEMMA DestroyGood ==
  ASSUME NEW s, Good(s), s.guards # <<>>
  PROVE  LET n == destroy(s)
             last == s.guards[Len(s.guards)]
         IN /\ Good(n)
            /\ IF last.owned THEN SameMutexes(n, unlock(s, last.mtx)) /\ last.mtx \in GMutexes /\ Held(s, last.mtx) > 0
               ELSE SameMutexes(n, s)
<1> DEFINE q == s.guards
           last == q[Len(q)]
           m == last.mtx
<1>1. q \in Seq(AGuard) /\ Len(q) \in DOMAIN q /\ last \in AGuard /\ s \in AState
  <2>1. q \in Seq(AGuard) /\ s \in AState
    BY Zenon DEF Good, Sound, AState
  <2> QED
    BY <2>1, Popped
<1>2. Formed(last) /\ Sound(s) /\ Counted(s, m, 0)
  BY <1>1, Zenon DEF Good, Sound
<1>3. CASE last.owned
  <2> DEFINE a == unlock(s, m)
  <2>1. m \in GMutexes
    BY <1>2, <1>3, Zenon DEF Formed
  <2>2. Held(s, m) > 0
    BY <1>1, <1>3, <2>1, HoldsWhatItOwes, Zenon DEF Owes
  <2>3. Sound(a) /\ a.guards = q /\ a.irql = s.irql /\ Counted(a, m, -1)
    BY <1>2, <2>1, <2>2, UnlockGives, Zenon
  <2>4. LET n == Pop(a, LevelBefore(s)) IN Good(n) /\ SameMutexes(n, a)
    <3>1. Counted(a, m, IF last.owned THEN -1 ELSE 0)
      BY <1>3, <2>3, Zenon
    <3> HIDE DEF a
    <3> QED
      BY <2>3, <3>1, PopGood, Zenon
  <2>5. destroy(s) = Pop(a, LevelBefore(s))
    <3>1. a \in AState
      BY <2>3, Zenon DEF Sound
    <3>2. CASE last.type = "lock_guard"
      <4>1. LevelBefore(s) = IF Kind[m] = "queued" THEN last.old ELSE a.irql
        BY <2>3, <3>2, Zenon DEF LevelBefore, Raises
      <4>2. destroy(s) = [[a EXCEPT !.irql = IF Kind[m] = "queued" THEN last.old ELSE @] EXCEPT !.guards = SubSeq(@, 1, Len(@) - 1)]
        BY <3>2, Zenon DEF destroy
      <4> HIDE DEF a
      <4> QED
        BY <4>1, <4>2, <3>1, Zenon DEF Pop, AState
    <3>3. CASE last.type \in {"unique_lock", "shared_lock"}
      <4>1. LevelBefore(s) = a.irql
        BY <2>3, <3>3, LocksDoNotRaise DEF LevelBefore
      <4>2. destroy(s) = [[a EXCEPT !.guards[Len(q)].owned = FALSE] EXCEPT !.guards = SubSeq(@, 1, Len(@) - 1)]
        BY <1>3, <3>3, Zenon DEF destroy, reset_if_needed, unlock_guard
      <4> HIDE DEF a
      <4> DEFINE g == [last EXCEPT !.owned = FALSE]
      <4>3. g \in AGuard
        BY <1>1, Zenon DEF AGuard
      <4>4. SubSeq([q EXCEPT ![Len(q)] = g], 1, Len(q) - 1) = SubSeq(q, 1, Len(q) - 1)
        BY <1>1, <4>3
      <4>5. [a EXCEPT !.guards[Len(q)].owned = FALSE].guards = [q EXCEPT ![Len(q)] = g]
        BY <2>3, <3>1, Zenon DEF AState
      <4>6. Len([q EXCEPT ![Len(q)] = g]) = Len(q)
        BY <1>1, <4>3, Replaced
      <4> QED
        BY <2>3, <3>1, <4>1, <4>2, <4>4, <4>5, <4>6, ZenonT(60) DEF Pop, AState
    <3> QED
      BY <1>1, <1>2, <1>3, <3>2, <3>3, ZenonT(60) DEF AGuard, GuardTypes, Formed
  <2> QED
    BY <1>3, <2>1, <2>2, <2>4, <2>5, Zenon
<1>4. CASE ~last.owned
  <2>1. LET n == Pop(s, LevelBefore(s)) IN Good(n) /\ SameMutexes(n, s)
    <3>1. Counted(s, m, IF last.owned THEN -1 ELSE 0)
      BY <1>2, <1>4, Zenon
    <3> QED
      BY <1>2, <1>4, <3>1, PopGood, Zenon
  <2>2. destroy(s) = Pop(s, LevelBefore(s))
    <3>1. CASE last.type = "irql_guard"
      <4>1. LevelBefore(s) = last.old
        BY <3>1, Zenon DEF LevelBefore, Raises
      <4>2. destroy(s) = [[s EXCEPT !.irql = last.old] EXCEPT !.guards = SubSeq(@, 1, Len(@) - 1)]
        BY <3>1, Zenon DEF destroy
      <4> QED
        BY <4>1, <4>2, <1>1, Zenon DEF Pop, AState
    <3>2. CASE last.type \in {"unique_lock", "shared_lock"}
      <4>1. LevelBefore(s) = s.irql
        BY <3>2, LocksDoNotRaise DEF LevelBefore
      <4>2. destroy(s) = [s EXCEPT !.guards = SubSeq(@, 1, Len(@) - 1)]
        BY <1>4, <3>2, Zenon DEF destroy, reset_if_needed
      <4> QED
        BY <4>1, <4>2, <1>1, Zenon DEF Pop, AState
    <3> QED
      BY <1>1, <1>2, <1>4, <3>1, <3>2, ZenonT(60) DEF AGuard, GuardTypes, Formed
  <2> QED
    BY <1>4, <2>1, <2>2, Zenon
<1> QED
  BY <1>3, <1>4, Zenon


-----------------------------------------------------------------------------
(***************************************************************************)
(* The threads.                                                            *)
(***************************************************************************)

\* Who has a mutex exclusively has it alone.
Alone(t, n) ==
  \A u \in GThreads \ {t}, m \in GMutexes :
    /\ n.excl[m] > 0 => excl[u][m] = 0 /\ shrd[u][m] = 0
    /\ excl[u][m] > 0 => n.excl[m] = 0 /\ n.shrd[m] = 0

GuardTypesOK ==
  /\ used \subseteq GMutexes
  /\ excl \in [GThreads -> [GMutexes -> Nat]] /\ shrd \in [GThreads -> [GMutexes -> Nat]] /\ raw \in [GThreads -> [GMutexes -> Nat]]
  /\ region \in [GThreads -> Int] /\ irql \in [GThreads -> Levels] /\ guards \in [GThreads -> Seq(AGuard)]

GuardInv == GuardTypesOK /\ \A t \in GThreads : Good(State(t)) /\ Alone(t, State(t))

\* The members of the state of a thread.
LEMMA StateHas ==
  ASSUME NEW t \in GThreads
  PROVE  /\ State(t).excl = excl[t] /\ State(t).shrd = shrd[t] /\ State(t).region = region[t]
         /\ State(t).irql = irql[t] /\ State(t).guards = guards[t] /\ State(t).raw = raw[t]
BY Zenon DEF State

\* A step of t.
LEMMA StepGood ==
  ASSUME GuardInv, NEW t \in GThreads, NEW n, Good(n), Alone(t, n), Becomes(t, n)
  PROVE  GuardInv'
<1>1. n \in AState
  BY Zenon DEF Good, Sound
<1>2. GuardTypesOK'
  BY <1>1, Zenon DEF GuardInv, GuardTypesOK, Becomes, AState
<1>3. /\ excl'[t] = n.excl /\ shrd'[t] = n.shrd /\ region'[t] = n.region /\ irql'[t] = n.irql /\ guards'[t] = n.guards /\ raw'[t] = n.raw
      /\ \A u \in GThreads \ {t} :
           /\ excl'[u] = excl[u] /\ shrd'[u] = shrd[u] /\ region'[u] = region[u] /\ irql'[u] = irql[u]
           /\ guards'[u] = guards[u] /\ raw'[u] = raw[u]
  BY Zenon DEF GuardInv, GuardTypesOK, Becomes
<1>4. State(t)' = n
  BY <1>1, <1>3, Zenon DEF State, AState
<1>5. \A u \in GThreads \ {t} : State(u)' = State(u)
  BY <1>3, Zenon DEF State
<1>6. \A u \in GThreads : Good(State(u)')
  BY <1>4, <1>5, Zenon DEF GuardInv
<1>7. ASSUME NEW u \in GThreads, NEW v \in GThreads \ {u}, NEW m \in GMutexes
      PROVE  /\ excl'[u][m] > 0 => excl'[v][m] = 0 /\ shrd'[v][m] = 0
             /\ excl'[v][m] > 0 => excl'[u][m] = 0 /\ shrd'[u][m] = 0
  <2>1. CASE u = t
    <3>1. (n.excl[m] > 0 => excl[v][m] = 0 /\ shrd[v][m] = 0) /\ (excl[v][m] > 0 => n.excl[m] = 0 /\ n.shrd[m] = 0)
      BY <2>1, Zenon DEF Alone
    <3>2. excl'[v] = excl[v] /\ shrd'[v] = shrd[v] /\ excl'[u] = n.excl /\ shrd'[u] = n.shrd
      BY <2>1, <1>3, Zenon
    <3> QED
      BY <3>1, <3>2, Zenon
  <2>2. CASE v = t
    <3>1. (n.excl[m] > 0 => excl[u][m] = 0 /\ shrd[u][m] = 0) /\ (excl[u][m] > 0 => n.excl[m] = 0 /\ n.shrd[m] = 0)
      BY <2>2, Zenon DEF Alone
    <3>2. excl'[u] = excl[u] /\ shrd'[u] = shrd[u] /\ excl'[v] = n.excl /\ shrd'[v] = n.shrd
      BY <2>2, <1>3, Zenon
    <3> QED
      BY <3>1, <3>2, Zenon
  <2>3. CASE u # t /\ v # t
    <3>1. /\ State(u).excl[m] > 0 => excl[v][m] = 0 /\ shrd[v][m] = 0
          /\ excl[v][m] > 0 => State(u).excl[m] = 0 /\ State(u).shrd[m] = 0
      BY Zenon DEF GuardInv, Alone
    <3> QED
      BY <2>3, <3>1, <1>3, StateHas, ZenonT(60)
  <2> QED
    BY <2>1, <2>2, <2>3, ZenonT(60)
<1>8. \A u \in GThreads : Alone(u, State(u))'
  BY <1>7, ZenonT(60) DEF Alone, State
<1>9. \A u \in GThreads : Good(State(u))'
  BY <1>6, ZenonT(60) DEF Good, Sound, Level, Counted, Held, Acquisitions, Owing
<1> QED
  BY <1>2, <1>8, <1>9, Zenon DEF GuardInv

\* The mutexes after a call are those after at most one operation on a mutex, which leaves t alone with what it has.
LEMMA StaysAlone ==
  ASSUME GuardInv, NEW t \in GThreads, NEW n
  PROVE  /\ SameMutexes(n, State(t)) => Alone(t, n)
         /\ \A m \in GMutexes : MayLock(t, m) /\ SameMutexes(n, lock(State(t), m)) => Alone(t, n)
         /\ \A m \in GMutexes : MayLockShared(t, m) /\ SameMutexes(n, lock_shared(State(t), m)) => Alone(t, n)
         /\ \A m \in GMutexes : Held(State(t), m) > 0 /\ SameMutexes(n, unlock(State(t), m)) => Alone(t, n)
<1> DEFINE s == State(t)
<1>1. Good(s) /\ Alone(t, s) /\ Sound(s)
  BY Zenon DEF GuardInv, Good
<1>2. s.excl = excl[t] /\ s.shrd = shrd[t] /\ s.excl \in [GMutexes -> Nat] /\ s.shrd \in [GMutexes -> Nat] /\ s.guards = guards[t]
  BY <1>1, StateHas, Zenon DEF Sound, AState
<1> HIDE DEF s
<1>3. ASSUME SameMutexes(n, s) PROVE Alone(t, n)
  BY <1>1, <1>3, Zenon DEF Alone, SameMutexes
<1>4. ASSUME NEW m \in GMutexes, MayLock(t, m), SameMutexes(n, lock(s, m)) PROVE Alone(t, n)
  <2>1. s.shrd[m] = 0
    BY <1>2, <1>4, Zenon DEF MayLock
  <2>2. n.shrd = s.shrd /\ n.excl = [s.excl EXCEPT ![m] = @ + 1]
    BY <1>1, <1>4, <2>1, LockTakes, ZenonT(60) DEF SameMutexes
  <2>3. \A u \in GThreads \ {t} : excl[u][m] = 0 /\ shrd[u][m] = 0
    BY <1>4, ZenonT(60) DEF MayLock
  <2> QED
    BY <1>1, <1>2, <2>2, <2>3 DEF Alone
<1>5. ASSUME NEW m \in GMutexes, MayLockShared(t, m), SameMutexes(n, lock_shared(s, m)) PROVE Alone(t, n)
  <2>1. EntersRegion(m)
    BY <1>5, Zenon DEF MayLockShared, EntersRegion
  <2>2. /\ n.excl = IF s.excl[m] > 0 THEN [s.excl EXCEPT ![m] = @ + 1] ELSE s.excl
        /\ n.shrd = IF s.excl[m] > 0 THEN s.shrd ELSE [s.shrd EXCEPT ![m] = @ + 1]
    <3>1. \A i \in DOMAIN s.guards : s.guards[i].access = "write" /\ s.guards[i].mtx = m => s.excl[m] > 0
      BY <1>1, HoldsWhatItOwes, Zenon
    <3> QED
      BY <1>1, <1>5, <2>1, <3>1, SharedTakes, ZenonT(60) DEF SameMutexes
  <2>3. \A u \in GThreads \ {t} : excl[u][m] = 0
    BY <1>5, ZenonT(60) DEF MayLockShared
  <2> QED
    BY <1>1, <1>2, <2>2, <2>3 DEF Alone
<1>6. ASSUME NEW m \in GMutexes, Held(s, m) > 0, SameMutexes(n, unlock(s, m)) PROVE Alone(t, n)
  <2>1. /\ n.excl = IF s.excl[m] > 0 THEN [s.excl EXCEPT ![m] = @ - 1] ELSE s.excl
        /\ n.shrd = IF s.excl[m] > 0 THEN s.shrd ELSE [s.shrd EXCEPT ![m] = @ - 1]
    BY <1>1, <1>6, UnlockGives, ZenonT(60) DEF SameMutexes
  <2>2. ASSUME NEW x \in GMutexes
        PROVE  (n.excl[x] > 0 => s.excl[x] > 0) /\ (s.excl[x] = 0 /\ s.shrd[x] = 0 => n.excl[x] = 0 /\ n.shrd[x] = 0)
    BY <1>2, <1>6, <2>1 DEF Held
  <2> QED
    BY <1>1, <2>2, Zenon DEF Alone
<1> QED
  BY <1>3, <1>4, <1>5, <1>6, Zenon DEF s


\* Nobody has locked anything at first.
LEMMA GuardStarts == GuardInit => GuardInv
<1> SUFFICES ASSUME GuardInit PROVE GuardInv
  BY Zenon
<1>1. GuardTypesOK
  BY GuardAssumption DEF GuardInit, GuardTypesOK, Levels
<1>2. ASSUME NEW t \in GThreads PROVE Good(State(t))
  <2> DEFINE s == State(t)
  <2>1. /\ s.excl = [m \in GMutexes |-> 0] /\ s.shrd = [m \in GMutexes |-> 0] /\ s.raw = [m \in GMutexes |-> 0]
        /\ s.region = 0 /\ s.irql = PASSIVE_LEVEL /\ s.guards = <<>>
    BY StateHas, Zenon DEF GuardInit
  <2>2. s \in AState
    BY <1>1, Zenon DEF State, AState, GuardTypesOK
  <2> HIDE DEF s
  <2>3. DOMAIN s.guards = {}
    BY <2>1
  <2>4. \A m : Owing(s.guards, m) = {}
    BY <2>3, Zenon DEF Owing
  <2>5. \A m \in GMutexes : Held(s, m) = 0
    BY <2>1 DEF Held
  <2>6. Acquisitions(s) = {}
    <3>1. \A e : e \notin Acquisitions(s)
      BY <2>5, AcquisitionIs
    <3> QED
      BY <3>1, Zenon
  <2>7. IsFiniteSet({}) /\ Cardinality({}) = 0
    BY FS_EmptySet, Zenon
  <2>8. Sound(s)
    BY <2>1, <2>2, <2>3, <2>6, <2>7, ZenonT(60) DEF Sound
  <2>9. \A m : Counted(s, m, 0)
    <3> SUFFICES ASSUME NEW m, NEW x \in GMutexes
                 PROVE  Held(s, x) = s.raw[x] + Cardinality(Owing(s.guards, x)) + (IF x = m THEN 0 ELSE 0)
      BY Zenon DEF Counted
    <3>1. s.raw[x] = 0 /\ Held(s, x) = 0 /\ Cardinality(Owing(s.guards, x)) = 0
      BY <2>1, <2>4, <2>5, <2>7, Zenon
    <3> QED
      BY <3>1
  <2>10. Level(s.irql, s.guards)
    BY <2>1, <2>3 DEF Level, PASSIVE_LEVEL, DISPATCH_LEVEL
  <2> QED
    BY <2>8, <2>9, <2>10, Zenon DEF Good, s
<1>3. ASSUME NEW t \in GThreads PROVE Alone(t, State(t))
  BY StateHas DEF GuardInit, Alone
<1> QED
  BY <1>1, <1>2, <1>3, Zenon DEF GuardInv

\* Every step keeps the invariant.
LEMMA GuardKeeps == GuardInv /\ [GuardNext]_gvars => GuardInv'
<1> SUFFICES ASSUME GuardInv, [GuardNext]_gvars PROVE GuardInv'
  BY Zenon
<1>1. CASE UNCHANGED gvars
  <2>1. GuardTypesOK'
    BY <1>1, Zenon DEF gvars, GuardInv, GuardTypesOK
  <2>2. \A t \in GThreads : State(t)' = State(t)
    BY <1>1, Zenon DEF gvars, State
  <2>3. \A t \in GThreads : Good(State(t)')
    BY <2>2, Zenon DEF GuardInv
  <2>4. \A t \in GThreads : Good(State(t))'
    BY <2>3, Zenon DEF Good, Sound, Level, Counted, Held, Acquisitions, Owing
  <2>5. \A t \in GThreads : Alone(t, State(t))'
    BY <1>1, ZenonT(60) DEF GuardInv, Alone, State, gvars
  <2> QED
    BY <2>1, <2>4, <2>5, ZenonT(60) DEF GuardInv
<1>2. ASSUME NEW t \in GThreads, NEW m \in used,
             LockByHand(t, m) \/ UnlockByHand(t, m) \/ LockGuard(t, m)
      PROVE  GuardInv'
  <2> DEFINE s == State(t)
  <2>1. m \in GMutexes /\ Good(s) /\ s.shrd = shrd[t] /\ s.raw = raw[t]
    BY StateHas, Zenon DEF GuardInv, GuardTypesOK
  <2> HIDE DEF s
  <2>2. CASE LockByHand(t, m)
    <3>1. CASE MayLock(t, m) /\ Becomes(t, [lock(s, m) EXCEPT !.raw[m] = @ + 1])
      <4> DEFINE n == [lock(s, m) EXCEPT !.raw[m] = @ + 1]
      <4>1. Good(n) /\ SameMutexes(n, lock(s, m))
        BY <2>1, <2>2, <3>1, ByHandGood, ZenonT(60) DEF LockByHand, MayLock
      <4> HIDE DEF n
      <4>2. Alone(t, n)
        BY <2>1, <3>1, <4>1, StaysAlone, ZenonT(60) DEF s
      <4> QED
        BY <3>1, <4>1, <4>2, StepGood, ZenonT(60) DEF n
    <3>2. CASE MayLockShared(t, m) /\ Becomes(t, [lock_shared(s, m) EXCEPT !.raw[m] = @ + 1])
      <4> DEFINE n == [lock_shared(s, m) EXCEPT !.raw[m] = @ + 1]
      <4>1. Good(n) /\ SameMutexes(n, lock_shared(s, m))
        BY <2>1, <3>2, ByHandGood, Zenon DEF MayLockShared, EntersRegion
      <4> HIDE DEF n
      <4>2. Alone(t, n)
        BY <2>1, <3>2, <4>1, StaysAlone, Zenon DEF s
      <4> QED
        BY <3>2, <4>1, <4>2, StepGood, Zenon DEF n
    <3> QED
      BY <2>2, <3>1, <3>2, Zenon DEF LockByHand, s
  <2>3. CASE UnlockByHand(t, m)
    <3> DEFINE n == [unlock(s, m) EXCEPT !.raw[m] = @ - 1]
    <3>1. s.raw[m] > 0 /\ Becomes(t, n)
      BY <2>1, <2>3, Zenon DEF UnlockByHand, s
    <3>2. Good(n) /\ SameMutexes(n, unlock(s, m)) /\ Held(s, m) > 0
      BY <2>1, <3>1, ByHandGood, HoldsWhatItOwes, Zenon
    <3> HIDE DEF n
    <3>3. Alone(t, n)
      BY <2>1, <3>2, StaysAlone, Zenon DEF s
    <3> QED
      BY <3>1, <3>2, <3>3, StepGood, Zenon
  <2>4. CASE LockGuard(t, m)
    <3>1. PICK access \in {"none"} \union WithLockGuard(m) : Becomes(t, construct_lock_guard(s, m, access))
      BY <2>4, Zenon DEF LockGuard, s
    <3>2. access \in {"none", "read", "write"} /\ MayLock(t, m)
      BY <2>4, Zenon DEF WithLockGuard, LockGuard
    <3> DEFINE n == construct_lock_guard(s, m, access)
    <3>3. Good(n) /\ SameMutexes(n, lock(s, m))
      BY <2>1, <3>2, LockGuardGood, Zenon DEF MayLock
    <3> HIDE DEF n
    <3>4. Alone(t, n)
      BY <2>1, <3>2, <3>3, StaysAlone, Zenon DEF s
    <3> QED
      BY <3>1, <3>3, <3>4, StepGood, Zenon DEF n
  <2> QED
    BY <1>2, <2>2, <2>3, <2>4, Zenon
<1>3. ASSUME NEW t \in GThreads, NEW m \in used, NEW tag \in {"lock", "adopt_lock", "defer_lock"}, UniqueLock(t, m, tag)
      PROVE  GuardInv'
  <2> DEFINE s == State(t)
             n == construct_unique_lock(s, m, tag)
  <2>1. m \in GMutexes /\ Good(s) /\ s.shrd = shrd[t] /\ s.raw = raw[t]
    BY StateHas, Zenon DEF GuardInv, GuardTypesOK
  <2>2. Becomes(t, n) /\ Kind[m] # "queued"
    BY <1>3, Zenon DEF UniqueLock
  <2> HIDE DEF s
  <2>3. Good(n) /\ Alone(t, n)
    <3>1. CASE tag = "lock"
      <4>1. MayLock(t, m) /\ s.shrd[m] = 0
        BY <1>3, <2>1, <3>1, Zenon DEF UniqueLock, MayLock
      <4>2. Good(n) /\ SameMutexes(n, lock(s, m))
        BY <2>1, <2>2, <3>1, <4>1, UniqueLockGood, Zenon
      <4> HIDE DEF n
      <4> QED
        BY <2>1, <4>1, <4>2, StaysAlone, Zenon DEF s
    <3>2. CASE tag = "adopt_lock"
      <4>1. s.raw[m] > 0
        BY <1>3, <2>1, <3>2, Zenon DEF UniqueLock, Adopts
      <4>2. Good(n) /\ SameMutexes(n, s)
        BY <2>1, <2>2, <3>2, <4>1, UniqueLockGood, ZenonT(60)
      <4> HIDE DEF n
      <4> QED
        BY <4>2, StaysAlone, ZenonT(60) DEF s
    <3>3. CASE tag = "defer_lock"
      <4>1. Good(n) /\ SameMutexes(n, s)
        BY <2>1, <2>2, <3>3, UniqueLockGood, Zenon
      <4> HIDE DEF n
      <4> QED
        BY <4>1, StaysAlone, Zenon DEF s
    <3> QED
      BY <3>1, <3>2, <3>3, Zenon
  <2> HIDE DEF n
  <2> QED
    BY <2>2, <2>3, StepGood, Zenon
<1>4. ASSUME NEW t \in GThreads, NEW m \in used, NEW tag \in {"lock", "adopt_lock", "defer_lock"}, SharedLock(t, m, tag)
      PROVE  GuardInv'
  <2> DEFINE s == State(t)
  <2>1. m \in GMutexes /\ Good(s) /\ s.raw = raw[t] /\ EntersRegion(m)
    BY <1>4, StateHas, Zenon DEF GuardInv, GuardTypesOK, SharedLock, EntersRegion
  <2>2. PICK access \in {"none"} \union (IF tag = "lock" THEN WithSharedLock(m) ELSE {}) :
          Becomes(t, construct_shared_lock(s, m, tag, access))
    BY <1>4, Zenon DEF SharedLock
  <2>3. access \in {"none", "read"} /\ (tag # "lock" => access = "none")
    BY Zenon DEF WithSharedLock
  <2> DEFINE n == construct_shared_lock(s, m, tag, access)
  <2> HIDE DEF s
  <2>4. Good(n) /\ Alone(t, n)
    <3>1. CASE tag = "lock"
      <4>1. MayLockShared(t, m)
        BY <1>4, <3>1, Zenon DEF SharedLock
      <4>2. Good(n) /\ SameMutexes(n, lock_shared(s, m))
        BY <2>1, <2>3, <3>1, SharedLockGood, Zenon
      <4> HIDE DEF n
      <4> QED
        BY <2>1, <4>1, <4>2, StaysAlone, Zenon DEF s
    <3>2. CASE tag = "adopt_lock"
      <4>1. s.raw[m] > 0
        BY <1>4, <2>1, <3>2, Zenon DEF SharedLock, Adopts
      <4>2. Good(n) /\ SameMutexes(n, s)
        BY <2>1, <2>3, <3>2, <4>1, SharedLockGood, ZenonT(60)
      <4> HIDE DEF n
      <4> QED
        BY <4>2, StaysAlone, ZenonT(60) DEF s
    <3>3. CASE tag = "defer_lock"
      <4>1. Good(n) /\ SameMutexes(n, s)
        BY <2>1, <2>3, <3>3, SharedLockGood, Zenon
      <4> HIDE DEF n
      <4> QED
        BY <4>1, StaysAlone, Zenon DEF s
    <3> QED
      BY <3>1, <3>2, <3>3, Zenon
  <2> HIDE DEF n
  <2>5. Becomes(t, n)
    BY <2>2, Zenon DEF n
  <2> QED
    BY <2>4, <2>5, StepGood, Zenon
<1>5. ASSUME NEW t \in GThreads, NEW i \in DOMAIN guards[t],
             MoveConstruct(t, i) \/ LockOfGuard(t, i) \/ UnlockOfGuard(t, i) \/ ReleaseGuard(t, i)
      PROVE  GuardInv'
  <2> DEFINE s == State(t)
  <2>1. Good(s) /\ s.shrd = shrd[t] /\ s.guards = guards[t] /\ i \in DOMAIN s.guards
    BY StateHas, Zenon DEF GuardInv
  <2> HIDE DEF s
  <2>2. CASE MoveConstruct(t, i)
    <3> DEFINE n == move_construct(s, i)
    <3>1. Good(n) /\ SameMutexes(n, s)
      BY <2>1, <2>2, MoveConstructGood, Zenon DEF MoveConstruct, Movable
    <3>2. Becomes(t, n)
      BY <2>2, Zenon DEF MoveConstruct, s
    <3> HIDE DEF n
    <3> QED
      BY <3>1, <3>2, StaysAlone, StepGood, Zenon DEF s
  <2>3. CASE LockOfGuard(t, i)
    <3> DEFINE n == lock_of_guard(s, i)
               m == s.guards[i].mtx
    <3>1. /\ s.guards[i].type = "unique_lock" /\ ~s.guards[i].owned /\ m # NoMutex /\ MayLock(t, m)
          /\ s.shrd[m] = 0 /\ Becomes(t, n)
      BY <2>1, <2>3, Zenon DEF LockOfGuard, MayLock, s
    <3>2. Good(n) /\ SameMutexes(n, lock(s, m)) /\ m \in GMutexes
      BY <2>1, <3>1, LockOfGuardGood, Zenon
    <3> HIDE DEF n, m
    <3>3. Alone(t, n)
      BY <3>1, <3>2, StaysAlone, Zenon DEF s
    <3> QED
      BY <3>1, <3>2, <3>3, StepGood, Zenon
  <2>4. CASE UnlockOfGuard(t, i)
    <3> DEFINE n == unlock_guard(s, i)
               m == s.guards[i].mtx
    <3>1. s.guards[i].type = "unique_lock" /\ s.guards[i].owned /\ Becomes(t, n)
      BY <2>1, <2>4, Zenon DEF UnlockOfGuard, s
    <3>2. s.guards[i].access = "none"
      BY <2>1, <3>1, Zenon DEF Good, Sound, Formed
    <3>3. Good(n) /\ SameMutexes(n, unlock(s, m)) /\ m \in GMutexes /\ Held(s, m) > 0
      BY <2>1, <3>1, <3>2, UnlockGuardGood, Zenon
    <3> HIDE DEF n, m
    <3>4. Alone(t, n)
      BY <3>3, StaysAlone, ZenonT(60) DEF s
    <3> QED
      BY <3>1, <3>3, <3>4, StepGood, ZenonT(60)
  <2>5. CASE ReleaseGuard(t, i)
    <3> DEFINE n == release(s, i)
    <3>1. Good(n) /\ SameMutexes(n, s)
      BY <2>1, <2>5, ReleaseGood, Zenon DEF ReleaseGuard, Movable
    <3>2. Becomes(t, n)
      BY <2>5, Zenon DEF ReleaseGuard, s
    <3> HIDE DEF n
    <3> QED
      BY <3>1, <3>2, StaysAlone, StepGood, Zenon DEF s
  <2> QED
    BY <1>5, <2>2, <2>3, <2>4, <2>5, Zenon
<1>6. ASSUME NEW t \in GThreads, NEW i \in DOMAIN guards[t], NEW j \in DOMAIN guards[t], MoveAssign(t, i, j)
      PROVE  GuardInv'
  <2> DEFINE s == State(t)
             n == move_assign(s, i, j)
             m == s.guards[i].mtx
  <2>1. Good(s) /\ s.guards = guards[t]
    BY StateHas, Zenon DEF GuardInv
  <2>2. Becomes(t, n)
    BY <1>6, Zenon DEF MoveAssign
  <2> HIDE DEF s
  <2>3. /\ Good(n)
        /\ IF s.guards[i].owned THEN SameMutexes(n, unlock(s, m)) /\ m \in GMutexes /\ Held(s, m) > 0
           ELSE SameMutexes(n, s)
    BY <1>6, <2>1, MoveAssignGood, Zenon DEF MoveAssign, Movable
  <2> HIDE DEF n, m
  <2>4. Alone(t, n)
    BY <2>3, StaysAlone, Zenon DEF s
  <2> QED
    BY <2>2, <2>3, <2>4, StepGood, Zenon
<1>7. ASSUME NEW t \in GThreads, IrqlGuard(t) PROVE GuardInv'
  <2> DEFINE s == State(t)
             n == construct_irql_guard(s)
  <2>1. Good(s) /\ Becomes(t, n)
    BY <1>7, Zenon DEF GuardInv, IrqlGuard
  <2>2. Good(n) /\ SameMutexes(n, s)
    BY <2>1, IrqlGuardGood, Zenon
  <2> HIDE DEF n
  <2> QED
    BY <2>1, <2>2, StaysAlone, StepGood, Zenon
<1>8. ASSUME NEW t \in GThreads, Destroy(t) PROVE GuardInv'
  <2> DEFINE s == State(t)
             n == destroy(s)
             last == s.guards[Len(s.guards)]
             m == last.mtx
  <2>1. Good(s) /\ Becomes(t, n) /\ s.guards # <<>>
    BY <1>8, StateHas, Zenon DEF GuardInv, Destroy
  <2> HIDE DEF s
  <2>2. /\ Good(n)
        /\ IF last.owned THEN SameMutexes(n, unlock(s, m)) /\ m \in GMutexes /\ Held(s, m) > 0
           ELSE SameMutexes(n, s)
    BY <2>1, DestroyGood, Zenon
  <2> HIDE DEF n, last, m
  <2>3. Alone(t, n)
    BY <2>2, StaysAlone, Zenon DEF s
  <2> QED
    BY <2>1, <2>2, <2>3, StepGood, Zenon
<1> QED
  BY <1>1, <1>2, <1>3, <1>4, <1>5, <1>6, <1>7, <1>8, ZenonT(60) DEF GuardNext

\* However guards are constructed, moved, locked, unlocked, released and destroyed, for any threads and mutexes: every
\* acquisition is one guard's to undo or the program's own, regions and levels are left again, and nobody reads or writes a
\* synchronized value while another thread may write it.
THEOREM GuardsAlwaysExact == GuardSpec => []GuardsExact
<1>1. GuardInv => GuardsExact
  <2> SUFFICES ASSUME GuardInv, NEW t \in GThreads
               PROVE  /\ \A m \in GMutexes : excl[t][m] + shrd[t][m] = raw[t][m] + Cardinality(Responsible(t, m))
                      /\ region[t] = Cardinality(Inside(t))
                      /\ irql[t] = DISPATCH_LEVEL <=> \E i \in DOMAIN guards[t] : Raises(guards[t][i])
                      /\ \A u \in GThreads \ {t} : \A i \in DOMAIN guards[t], j \in DOMAIN guards[u] :
                           guards[t][i].access = "write" /\ guards[t][i].mtx = guards[u][j].mtx => guards[u][j].access = "none"
    BY Zenon DEF GuardsExact
  <2> DEFINE s == State(t)
  <2>1. /\ s.excl = excl[t] /\ s.shrd = shrd[t] /\ s.region = region[t] /\ s.irql = irql[t]
        /\ s.guards = guards[t] /\ s.raw = raw[t]
    BY StateHas, Zenon
  <2> HIDE DEF s
  <2>2. Good(s) /\ Alone(t, s)
    BY Zenon DEF GuardInv, s
  <2>3. ASSUME NEW m \in GMutexes PROVE excl[t][m] + shrd[t][m] = raw[t][m] + Cardinality(Responsible(t, m))
    <3>1. Responsible(t, m) = Owing(s.guards, m)
      BY <2>1, Zenon DEF Responsible, Owing, Owes
    <3>2. Held(s, m) = s.raw[m] + Cardinality(Owing(s.guards, m))
      <4>1. s.raw[m] \in Nat /\ Cardinality(Owing(s.guards, m)) \in Nat
        BY <2>2, OwingFinite, Zenon DEF Good, Sound, AState
      <4> QED
        BY <2>2, <4>1 DEF Good, Counted
    <3> QED
      BY <2>1, <3>1, <3>2, Zenon DEF Held
  <2>4. region[t] = Cardinality(Inside(t))
    <3>1. Inside(t) = Acquisitions(s)
      BY <2>1, Zenon DEF Inside, Acquisitions, Held
    <3> QED
      BY <2>1, <2>2, <3>1, Zenon DEF Good, Sound
  <2>5. irql[t] = DISPATCH_LEVEL <=> \E i \in DOMAIN guards[t] : Raises(guards[t][i])
    BY <2>1, <2>2, Zenon DEF Good, Level
  <2>6. ASSUME NEW u \in GThreads \ {t}, NEW i \in DOMAIN guards[t], NEW j \in DOMAIN guards[u],
               guards[t][i].access = "write", guards[t][i].mtx = guards[u][j].mtx, guards[u][j].access # "none"
        PROVE  FALSE
    <3> DEFINE m == guards[t][i].mtx
               r == State(u)
    <3>1. r.excl = excl[u] /\ r.shrd = shrd[u] /\ r.guards = guards[u] /\ Good(r)
      BY StateHas, Zenon DEF GuardInv
    <3>2. m \in GMutexes
      BY <2>1, <2>2, <2>6, ZenonT(60) DEF Good, Sound, Formed
    <3> HIDE DEF r
    <3>3. excl[t][m] > 0
      BY <2>1, <2>2, <2>6, <3>2, HoldsWhatItOwes, ZenonT(60)
    <3>4. Owes(r.guards[j], m)
      BY <2>6, <3>1, Zenon DEF Good, Sound, Formed, Owes
    <3> HIDE DEF m
    <3>5. excl[u][m] + shrd[u][m] > 0
      BY <3>1, <3>2, <3>4, HoldsWhatItOwes, Zenon DEF Held
    <3>6. excl[u][m] = 0 /\ shrd[u][m] = 0
      BY <2>1, <2>2, <3>2, <3>3, Zenon DEF Alone
    <3> QED
      BY <3>5, <3>6
  <2> QED
    BY <2>3, <2>4, <2>5, <2>6, Zenon
<1> QED
  BY <1>1, GuardStarts, GuardKeeps, PTL DEF GuardSpec
=============================================================================
