----------------------------- MODULE OwnersProofs -----------------------------
(***************************************************************************)
(* Owners of one object: unique_ptr keeps its objects apart for any number *)
(* of pointers, objects and deleters; intrusive_ptr keeps every count      *)
(* exact for any number of pointers and nodes; and an optional has the     *)
(* value it should have for any number of optionals and values.            *)
(*                                                                         *)
(* For unique_ptr, UniqueTypeOK and OneOwner together are inductive.  For  *)
(* intrusive_ptr the inductive invariant counts the pointers to a node     *)
(* with Cardinality, and adds the pointer an assignment has swapped out    *)
(* and not yet released.  For optional the steps of a call are put         *)
(* together from what each operator does to one optional.                  *)
(***************************************************************************)
EXTENDS UniquePtr, IntrusivePtr, Optional, FiniteSetTheorems, TLAPS

UInv == UniqueTypeOK /\ OneOwner

\* Deleting the object a pointer owned, by the pointer's own deleter, misuses nothing.
LEMMA DeleteOwned ==
  ASSUME UInv, NEW u \in Uniques, Delete(uptr[u].d, uptr[u].p)
  PROVE  /\ uMisuse' = FALSE
         /\ fate' \in [UObjects -> {"none", "live", "gone"}]
         /\ \A x \in UObjects : fate'[x] = IF x = uptr[u].p THEN "gone" ELSE fate[x]
BY NoObjectAssumption DEF UInv, UniqueTypeOK, OneOwner, Delete

\* Nothing exists at first.
LEMMA UniqueStarts == UniqueInit => UInv
BY NoObjectAssumption, Zenon DEF UniqueInit, UInv, UniqueTypeOK, OneOwner

\* Each operation of unique_ptr keeps the owners apart.
LEMMA UniqueKeeps == UInv /\ [UniqueNext]_uvars => UInv'
<1> SUFFICES ASSUME UInv, [UniqueNext]_uvars PROVE UInv'
  OBVIOUS
<1> USE NoObjectAssumption DEF UInv, UniqueTypeOK, OneOwner
<1>1. CASE UNCHANGED uvars
  BY <1>1 DEF uvars
<1>2. ASSUME NEW x \in UObjects, NewObject(x) PROVE UInv'
  BY <1>2, SMTT(60) DEF NewObject
<1>3. ASSUME NEW u \in Uniques, release(u) PROVE UInv'
  BY <1>3, SMTT(60) DEF release
<1>4. ASSUME NEW u \in Uniques, NEW x \in UObjects, ConstructUnique(u, x) PROVE UInv'
  BY <1>4, SMTT(60) DEF ConstructUnique
<1>5. ASSUME NEW u \in Uniques, NEW x \in UObjects, make_unique(u, x) PROVE UInv'
  BY <1>5, SMTT(60) DEF make_unique
<1>6. ASSUME NEW u \in Uniques, NEW x \in UObjects \union {NoObject}, resetUnique(u, x) PROVE UInv'
  <2>1. /\ uMisuse' = FALSE
        /\ fate' \in [UObjects -> {"none", "live", "gone"}]
        /\ \A y \in UObjects : fate'[y] = IF y = uptr[u].p THEN "gone" ELSE fate[y]
    BY <1>6, DeleteOwned, Zenon DEF resetUnique
  <2>2. /\ uptr' \in [Uniques -> [p : UObjects \union {NoObject}, d : Deleters]]
        /\ \A v \in Uniques : uptr'[v].d = uptr[v].d /\ uptr'[v].p = IF v = u THEN x ELSE uptr[v].p
    BY <1>6 DEF resetUnique
  <2>3. loose' = loose \ {x} /\ madeFor' = madeFor /\ (x # NoObject => x \in loose /\ madeFor[x] = uptr[u].d)
    BY <1>6 DEF resetUnique
  <2>4. UniqueTypeOK'
    BY <2>1, <2>2, <2>3, Zenon
  <2>5. \A y \in UObjects : fate'[y] = "live" <=> (y \in loose' \/ \E v \in Uniques : uptr'[v].p = y)
    BY <2>1, <2>2, <2>3, SMTT(30)
  <2>6. \A v \in Uniques :
          uptr'[v].p # NoObject =>
            /\ uptr'[v].p \notin loose'
            /\ uptr'[v].d = madeFor'[uptr'[v].p]
            /\ \A w \in Uniques : v # w => uptr'[v].p # uptr'[w].p
    BY <2>1, <2>2, <2>3, SMTT(30)
  <2> QED
    BY <2>1, <2>4, <2>5, <2>6
<1>7. ASSUME NEW u \in Uniques, NEW w \in Uniques, MoveConstructUnique(u, w) PROVE UInv'
  <2>1. /\ u # w /\ uptr[u].p = NoObject
        /\ fate' = fate /\ madeFor' = madeFor /\ loose' = loose /\ uMisuse' = FALSE
    BY <1>7, Zenon DEF MoveConstructUnique
  <2>2. /\ uptr' \in [Uniques -> [p : UObjects \union {NoObject}, d : Deleters]]
        /\ \A v \in Uniques : uptr'[v].d = IF v = u THEN uptr[w].d ELSE uptr[v].d
        /\ \A v \in Uniques : uptr'[v].p = IF v = u THEN uptr[w].p ELSE IF v = w THEN NoObject ELSE uptr[v].p
    BY <1>7, SMTT(30) DEF MoveConstructUnique
  <2>3. UniqueTypeOK'
    BY <2>1, <2>2, Zenon
  <2>4. \A y \in UObjects : fate'[y] = "live" <=> (y \in loose' \/ \E v \in Uniques : uptr'[v].p = y)
    BY <2>1, <2>2, SMTT(30)
  <2>5. \A v \in Uniques :
          uptr'[v].p # NoObject =>
            /\ uptr'[v].p \notin loose'
            /\ uptr'[v].d = madeFor'[uptr'[v].p]
            /\ \A z \in Uniques : v # z => uptr'[v].p # uptr'[z].p
    BY <2>1, <2>2, SMTT(30)
  <2> QED
    BY <2>1, <2>3, <2>4, <2>5
<1>8. ASSUME NEW u \in Uniques, NEW w \in Uniques, MoveAssignUnique(u, w) PROVE UInv'
  <2>1. /\ uMisuse' = FALSE
        /\ fate' \in [UObjects -> {"none", "live", "gone"}]
        /\ \A y \in UObjects : fate'[y] = IF y = uptr[u].p THEN "gone" ELSE fate[y]
    BY <1>8, DeleteOwned, Zenon DEF MoveAssignUnique
  <2>2. /\ uptr' \in [Uniques -> [p : UObjects \union {NoObject}, d : Deleters]]
        /\ \A v \in Uniques : uptr'[v].d = IF v = u THEN uptr[w].d ELSE uptr[v].d
        /\ \A v \in Uniques : uptr'[v].p = IF v = u THEN uptr[w].p ELSE IF v = w THEN NoObject ELSE uptr[v].p
    BY <1>8, SMTT(30) DEF MoveAssignUnique
  <2>3. loose' = loose /\ madeFor' = madeFor /\ u # w
    BY <1>8 DEF MoveAssignUnique
  <2>4. UniqueTypeOK'
    BY <2>1, <2>2, <2>3, Zenon
  <2>5. \A y \in UObjects : fate'[y] = "live" <=> (y \in loose' \/ \E v \in Uniques : uptr'[v].p = y)
    BY <2>1, <2>2, <2>3, SMTT(30)
  <2>6. \A v \in Uniques :
          uptr'[v].p # NoObject =>
            /\ uptr'[v].p \notin loose'
            /\ uptr'[v].d = madeFor'[uptr'[v].p]
            /\ \A z \in Uniques : v # z => uptr'[v].p # uptr'[z].p
    BY <2>1, <2>2, <2>3, SMTT(30)
  <2> QED
    BY <2>1, <2>4, <2>5, <2>6
<1> QED
  BY <1>1, <1>2, <1>3, <1>4, <1>5, <1>6, <1>7, <1>8 DEF UniqueNext, UniqueStep

\* However many pointers and deleters there are, a live object has one owner, which holds the deleter it was made for.
THEOREM UniqueOwnership == UniqueSpec => []OneOwner
<1>1. UInv => OneOwner
  BY DEF UInv
<1> QED
  BY <1>1, UniqueStarts, UniqueKeeps, PTL DEF UniqueSpec

-----------------------------------------------------------------------------
(***************************************************************************)
(* optional                                                                *)
(***************************************************************************)

Mems == OptValues \union {Raw, Moved}
Cell(flag, mem) == [flag |-> flag, mem |-> mem]
Machine == [opt : [Optionals -> Optional], bad : BOOLEAN, threw : BOOLEAN, left : SUBSET STRING]

\* The code's two deviations are left out.
Deviations == {"emplace throws after destroying", "converting assigns to no object"}

\* n differs from m in the optional o, which has become c, and in threw.
Becomes(m, n, o, c, threw) ==
  /\ n \in Machine /\ n.opt[o] = c /\ \A q \in Optionals \ {o} : n.opt[q] = m.opt[q]
  /\ n.bad = m.bad /\ n.threw = threw /\ n.left = m.left

\* An optional is as it should be: it says that it has a value when it does.
Coherent(c) == c \in Optional /\ (c.flag <=> c.mem # Raw)

\* The optional that has the value w, or none.
Should(w) == Cell(w # Raw, w)

\* The optional with the value w, or none, is coherent.
LEMMA ShouldIs ==
  ASSUME NEW w \in Mems
  PROVE  Should(w).mem = w /\ Should(w).flag = (w # Raw) /\ Coherent(Should(w))
<1>1. Should(w).mem = w /\ Should(w).flag = (w # Raw)
  BY DEF Should, Cell
<1>2. Should(w) \in Optional
  BY DEF Should, Cell, Optional, Mems
<1> QED
  BY <1>1, <1>2, Zenon DEF Coherent

\* What the elementary steps do.
LEMMA SetMemIs ==
  ASSUME NEW m \in Machine, NEW o \in Optionals, NEW v \in Mems
  PROVE  Becomes(m, SetMem(m, o, v), o, Cell(m.opt[o].flag, v), m.threw)
BY Zenon DEF Becomes, SetMem, Cell, Machine, Optional, Mems

\* The same for m_initialized.
LEMMA SetFlagIs ==
  ASSUME NEW m \in Machine, NEW o \in Optionals, NEW f \in BOOLEAN
  PROVE  Becomes(m, SetFlag(m, o, f), o, Cell(f, m.opt[o].mem), m.threw)
BY Zenon DEF Becomes, SetFlag, Cell, Machine, Optional

\* A step that does what is right, or that is trivial, is no misuse.
LEMMA MisusedIs ==
  ASSUME NEW m \in Machine, NEW when \in BOOLEAN, when => trivial
  PROVE  Misused(m, when) = m
BY DEF Misused, Machine

\* Two steps on one optional.
LEMMA BecomesTwice ==
  ASSUME NEW m, NEW n, NEW r, NEW o, NEW c, NEW d, NEW threw, NEW thrown,
         Becomes(m, n, o, c, threw), Becomes(n, r, o, d, thrown)
  PROVE  Becomes(m, r, o, d, thrown)
BY DEF Becomes


\* reset_if_needed destroys the value and leaves the flag.
LEMMA ResetIfNeededIs ==
  ASSUME NEW m \in Machine, NEW o \in Optionals, Coherent(m.opt[o])
  PROVE  Becomes(m, reset_if_needed(m, o), o, Cell(m.opt[o].flag, Raw), m.threw)
<1>1. CASE m.opt[o].flag
  <2>1. Misused(m, m.opt[o].mem = Raw) = m
    BY <1>1, MisusedIs, Zenon DEF Coherent
  <2> QED
    BY <1>1, <2>1, SetMemIs, Zenon DEF reset_if_needed, Mems
<1>2. CASE ~m.opt[o].flag
  BY <1>2 DEF reset_if_needed, Becomes, Cell, Coherent, Optional, Machine
<1> QED
  BY <1>1, <1>2

\* So does writing raw memory over a trivial value.
LEMMA ClearedIs ==
  ASSUME NEW m \in Machine, NEW o \in Optionals, Coherent(m.opt[o])
  PROVE  Becomes(m, IF trivial THEN SetMem(m, o, Raw) ELSE reset_if_needed(m, o), o, Cell(m.opt[o].flag, Raw), m.threw)
BY SetMemIs, ResetIfNeededIs DEF Mems

\* reset and the destructor leave no value.
LEMMA ResetIs ==
  ASSUME NEW m \in Machine, NEW o \in Optionals, Coherent(m.opt[o])
  PROVE  /\ Becomes(m, reset(m, o), o, Should(Raw), m.threw)
         /\ Becomes(m, destructor(m, o), o, Should(Raw), m.threw)
<1> DEFINE n == IF trivial THEN SetMem(m, o, Raw) ELSE reset_if_needed(m, o)
<1>1. Becomes(m, n, o, Cell(m.opt[o].flag, Raw), m.threw)
  BY ClearedIs
<1> HIDE DEF n
<1>2. n \in Machine /\ n.opt[o].mem = Raw /\ n.threw = m.threw
  BY <1>1 DEF Becomes, Cell
<1>3. Becomes(n, SetFlag(n, o, FALSE), o, Cell(FALSE, Raw), m.threw)
  BY <1>2, SetFlagIs, Zenon
<1>4. Becomes(m, SetFlag(n, o, FALSE), o, Cell(FALSE, Raw), m.threw)
  BY <1>1, <1>3, BecomesTwice, ZenonT(60)
<1>5. Cell(FALSE, Raw) = Should(Raw)
  BY ZenonT(60) DEF Should, Cell
<1>6. reset(m, o) = SetFlag(n, o, FALSE)
  BY DEF reset, n
<1>7. ~trivial => destructor(m, o) = SetFlag(n, o, FALSE)
  BY DEF destructor, n
<1>8. trivial => Becomes(m, destructor(m, o), o, Should(Raw), m.threw)
  BY Zenon DEF destructor, Becomes, Machine, Optional, Empty, Should, Cell
<1> QED
  BY <1>4, <1>5, <1>6, <1>7, <1>8, Zenon

\* Construction where there is no object, which does not throw or does.
LEMMA ConstructIs ==
  ASSUME NEW m \in Machine, NEW o \in Optionals, NEW v \in Mems, m.opt[o].mem = Raw \/ trivial, ~m.threw
  PROVE  /\ Becomes(m, construct_from_args(m, o, v, FALSE), o, Cell(TRUE, v), FALSE)
         /\ Becomes(m, construct_from_args(m, o, v, TRUE), o, m.opt[o], TRUE)
<1>1. Misused(m, m.opt[o].mem # Raw) = m
  BY MisusedIs, Zenon
<1> DEFINE n == SetMem(m, o, v)
<1>2. Becomes(m, n, o, Cell(m.opt[o].flag, v), FALSE)
  BY SetMemIs, Zenon DEF Machine
<1>3. ConstructAt(m, o, v, FALSE) = n
  BY <1>1 DEF ConstructAt
<1> HIDE DEF n
<1>4. n \in Machine /\ n.opt[o].mem = v /\ n.threw = FALSE
  BY <1>2 DEF Becomes, Cell
<1>5. Becomes(n, SetFlag(n, o, TRUE), o, Cell(TRUE, v), FALSE)
  BY <1>4, SetFlagIs, Zenon
<1>6. construct_from_args(m, o, v, FALSE) = SetFlag(n, o, TRUE)
  BY <1>3, <1>4, Zenon DEF construct_from_args
<1>7. construct_from_args(m, o, v, TRUE) = [m EXCEPT !.threw = TRUE]
  BY DEF construct_from_args, ConstructAt, Machine
<1>8. Becomes(m, [m EXCEPT !.threw = TRUE], o, m.opt[o], TRUE)
  BY Zenon DEF Becomes, Machine
<1>9. Becomes(m, SetFlag(n, o, TRUE), o, Cell(TRUE, v), FALSE)
  BY <1>2, <1>5, BecomesTwice, Zenon
<1> QED
  BY <1>6, <1>7, <1>8, <1>9, Zenon

\* An assignment replaces the value, or makes one.
LEMMA AssignIs ==
  ASSUME NEW m \in Machine, NEW o \in Optionals, NEW v \in Mems, v # Raw, Coherent(m.opt[o]), ~m.threw
  PROVE  Becomes(m, assign_or_emplace(m, o, v), o, Should(v), FALSE)
<1>1. Should(v) = Cell(TRUE, v)
  BY Zenon DEF Should, Cell
<1>2. CASE m.opt[o].flag
  <2>1. Misused(m, m.opt[o].mem = Raw) = m
    BY <1>2, MisusedIs, Zenon DEF Coherent
  <2>2. m.opt[o].flag = TRUE /\ m.threw = FALSE
    BY <1>2 DEF Machine, Optional
  <2> QED
    BY <1>1, <1>2, <2>1, <2>2, SetMemIs, Zenon DEF assign_or_emplace
<1>3. CASE ~m.opt[o].flag
  BY <1>1, <1>3, ConstructIs, Zenon DEF assign_or_emplace, Coherent
<1> QED
  BY <1>2, <1>3, Zenon

\* A value assigned to an optional.
LEMMA ValueAssignmentIs ==
  ASSUME NEW m \in Machine, NEW o \in Optionals, NEW v \in Mems, v # Raw, Coherent(m.opt[o]), ~m.threw
  PROVE  Becomes(m, value_assignment(m, o, v), o, Should(v), FALSE)
<1> DEFINE n == SetMem(m, o, v)
<1>1. Becomes(m, n, o, Cell(m.opt[o].flag, v), FALSE)
  BY SetMemIs, Zenon DEF Machine
<1> HIDE DEF n
<1>2. n \in Machine /\ n.opt[o].mem = v /\ n.threw = FALSE
  BY <1>1 DEF Becomes, Cell
<1>3. Becomes(n, SetFlag(n, o, TRUE), o, Cell(TRUE, v), FALSE)
  BY <1>2, SetFlagIs, Zenon
<1>4. Should(v) = Cell(TRUE, v)
  BY Zenon DEF Should, Cell
<1>5. trivial => value_assignment(m, o, v) = SetFlag(n, o, TRUE)
  BY DEF value_assignment, n
<1>6. Becomes(m, SetFlag(n, o, TRUE), o, Cell(TRUE, v), FALSE)
  BY <1>1, <1>3, BecomesTwice, Zenon
<1>7. ~trivial => value_assignment(m, o, v) = assign_or_emplace(m, o, v)
  BY DEF value_assignment
<1>8. Becomes(m, assign_or_emplace(m, o, v), o, Should(v), FALSE)
  BY AssignIs, Zenon
<1> QED
  BY <1>4, <1>5, <1>6, <1>7, <1>8, Zenon


\* emplace where it does not throw, where it throws with no value there, and where it throws after destroying the value.
LEMMA EmplaceIs ==
  ASSUME NEW m \in Machine, NEW o \in Optionals, NEW v \in Mems, v # Raw, Coherent(m.opt[o]), ~m.threw
  PROVE  /\ Becomes(m, emplace(m, o, v, FALSE), o, Should(v), FALSE)
         /\ ~m.opt[o].flag => Becomes(m, emplace(m, o, v, TRUE), o, m.opt[o], TRUE)
         /\ m.opt[o].flag => "emplace throws after destroying" \in emplace(m, o, v, TRUE).left
<1> DEFINE n == IF trivial THEN SetMem(m, o, Raw) ELSE reset_if_needed(m, o)
           made == construct_from_args(n, o, v, FALSE)
           thrown == construct_from_args(n, o, v, TRUE)
<1>1. Becomes(m, n, o, Cell(m.opt[o].flag, Raw), m.threw)
  BY ClearedIs
<1>2. emplace(m, o, v, FALSE) = IF made.threw /\ m.opt[o].flag
        THEN [made EXCEPT !.left = @ \union {"emplace throws after destroying"}] ELSE made
  BY DEF emplace
<1>3. emplace(m, o, v, TRUE) = IF thrown.threw /\ m.opt[o].flag
        THEN [thrown EXCEPT !.left = @ \union {"emplace throws after destroying"}] ELSE thrown
  BY DEF emplace
<1>4. m.threw = FALSE
  BY DEF Machine
<1> HIDE DEF n
<1>5. n \in Machine /\ n.opt[o] = Cell(m.opt[o].flag, Raw) /\ n.opt[o].mem = Raw /\ ~n.threw
  BY <1>1, <1>4 DEF Becomes, Cell
<1>6. Becomes(n, made, o, Cell(TRUE, v), FALSE) /\ Becomes(n, thrown, o, n.opt[o], TRUE)
  BY <1>5, ConstructIs, Zenon
<1> HIDE DEF made, thrown
<1>7. Becomes(m, made, o, Cell(TRUE, v), FALSE)
  BY <1>1, <1>6 DEF Becomes
<1>8. Becomes(m, thrown, o, n.opt[o], TRUE)
  BY <1>1, <1>6 DEF Becomes
<1>9. Should(v) = Cell(TRUE, v) /\ ~made.threw /\ thrown.threw
  BY <1>6, Zenon DEF Should, Cell, Becomes
<1>10. ~m.opt[o].flag => n.opt[o] = m.opt[o]
  BY <1>5 DEF Coherent, Cell, Optional
<1>11. m.opt[o].flag => "emplace throws after destroying" \in emplace(m, o, v, TRUE).left
  BY <1>3, <1>6, <1>9, Zenon DEF Becomes, Machine
<1>12. emplace(m, o, v, FALSE) = made
  BY <1>2, <1>9, Zenon
<1>13. ~m.opt[o].flag => emplace(m, o, v, TRUE) = thrown
  BY <1>3, Zenon
<1>14. ~m.opt[o].flag => Becomes(m, emplace(m, o, v, TRUE), o, m.opt[o], TRUE)
  BY <1>8, <1>10, <1>13, Zenon
<1> QED
  BY <1>7, <1>9, <1>11, <1>12, <1>14, Zenon

\* An optional that is moved from keeps its flag; its value is then Moved, unless it is trivial.
LEMMA MoveOutIs ==
  ASSUME NEW m \in Machine, NEW p \in Optionals, NEW w \in Mems, w # Raw, m.opt[p] = Should(w)
  PROVE  Becomes(m, MoveOut(m, p), p, Should(IF trivial THEN w ELSE Moved), m.threw)
<1>1. CASE trivial
  BY <1>1 DEF MoveOut, Becomes
<1>2. CASE ~trivial
  <2>1. Becomes(m, SetMem(m, p, Moved), p, Cell(m.opt[p].flag, Moved), m.threw)
    BY SetMemIs DEF Mems
  <2>2. Cell(m.opt[p].flag, Moved) = Should(Moved)
    BY OptionalAssumption DEF Should, Cell
  <2> QED
    BY <1>2, <2>1, <2>2 DEF MoveOut
<1> QED
  BY <1>1, <1>2

-----------------------------------------------------------------------------

OptionalTypes ==
  /\ trivial \in BOOLEAN
  /\ opt \in [Optionals -> Optional]
  /\ optWant \in [Optionals -> Mems]
  /\ optMisuse \in BOOLEAN

OptionalInvariant == OptionalTypes /\ OptionalSound

\* A call begins with optionals that are as they should be.
LEMMA StartIs ==
  ASSUME OptionalInvariant
  PROVE  /\ Start \in Machine /\ ~Start.threw /\ ~Start.bad /\ Start.opt = opt /\ Start.left = {}
         /\ \A q \in Optionals : Start.opt[q] = Should(optWant[q]) /\ Coherent(Start.opt[q])
<1>1. \A q \in Optionals : opt[q] = Should(optWant[q]) /\ Coherent(opt[q])
  BY DEF OptionalInvariant, OptionalTypes, OptionalSound, Optional, Should, Cell, Coherent
<1> QED
  BY <1>1 DEF Start, OptionalInvariant, OptionalTypes, OptionalSound, Machine

\* A call that leaves every optional as it should be keeps the invariant.
LEMMA Settles ==
  ASSUME OptionalInvariant, NEW m \in Machine, NEW want \in [Optionals -> Mems], ~m.bad,
         \A q \in Optionals : m.opt[q] = Should(want[q]), FinishOptional(m, want)
  PROVE  OptionalInvariant'
<1>1. OptionalTypes'
  BY DEF OptionalInvariant, OptionalTypes, FinishOptional, Machine
<1>2. \A w \in Mems : Should(w).flag = (w # Raw) /\ Should(w).mem = w
  BY ShouldIs
<1>3. opt' = m.opt /\ optWant' = want /\ optMisuse' = m.bad
  BY DEF FinishOptional
<1>4. \A q \in Optionals : (m.opt[q].flag <=> want[q] # Raw) /\ m.opt[q].mem = want[q]
  BY <1>2, Zenon
<1>5. OptionalSound'
  BY <1>3, <1>4 DEF OptionalSound
<1> QED
  BY <1>1, <1>5 DEF OptionalInvariant

\* A call that changes one optional.
LEMMA SettlesOne ==
  ASSUME OptionalInvariant, NEW m, NEW o \in Optionals, NEW w \in Mems, NEW threw,
         Becomes(Start, m, o, Should(w), threw), FinishOptional(m, [optWant EXCEPT ![o] = w])
  PROVE  OptionalInvariant'
<1> DEFINE want == [optWant EXCEPT ![o] = w]
<1>1. want \in [Optionals -> Mems]
  BY DEF OptionalInvariant, OptionalTypes
<1>2. \A q \in Optionals : want[q] = IF q = o THEN w ELSE optWant[q]
  BY DEF OptionalInvariant, OptionalTypes
<1> HIDE DEF want
<1>3. m \in Machine /\ ~m.bad /\ \A q \in Optionals : m.opt[q] = Should(want[q])
  BY <1>2, StartIs DEF Becomes
<1>4. FinishOptional(m, want)
  BY DEF want
<1> QED
  BY <1>1, <1>3, <1>4, Settles


\* A call that changes two.
LEMMA SettlesTwo ==
  ASSUME OptionalInvariant, NEW m, NEW n, NEW o \in Optionals, NEW p \in Optionals, o # p,
         NEW a \in Mems, NEW b \in Mems, NEW threw, NEW thrown,
         Becomes(Start, n, o, Should(a), threw), Becomes(n, m, p, Should(b), thrown),
         FinishOptional(m, [optWant EXCEPT ![o] = a, ![p] = b])
  PROVE  OptionalInvariant'
<1> DEFINE want == [optWant EXCEPT ![o] = a, ![p] = b]
<1>1. want \in [Optionals -> Mems]
  BY DEF OptionalInvariant, OptionalTypes
<1>2. \A q \in Optionals : want[q] = IF q = p THEN b ELSE IF q = o THEN a ELSE optWant[q]
  BY DEF OptionalInvariant, OptionalTypes
<1> HIDE DEF want
<1>3. m \in Machine /\ ~m.bad /\ \A q \in Optionals : m.opt[q] = Should(want[q])
  BY <1>2, StartIs DEF Becomes
<1>4. FinishOptional(m, want)
  BY DEF want
<1> QED
  BY <1>1, <1>3, <1>4, Settles

\* A call that changes none.
LEMMA SettlesNone ==
  ASSUME OptionalInvariant, NEW m \in Machine, ~m.bad, m.opt = opt, FinishOptional(m, optWant)
  PROVE  OptionalInvariant'
<1>1. optWant \in [Optionals -> Mems]
  BY DEF OptionalInvariant, OptionalTypes
<1> QED
  BY <1>1, StartIs, Settles

\* What the other optional should have.
LEMMA WantsAre ==
  ASSUME OptionalInvariant, NEW o \in Optionals
  PROVE  optWant[o] \in Mems /\ (opt[o].flag <=> optWant[o] # Raw) /\ opt[o].mem = optWant[o]
BY DEF OptionalInvariant, OptionalTypes, OptionalSound

\* A value, and one that was moved from, is not raw memory.
LEMMA ValuesAreMems ==
  /\ Raw \in Mems /\ Moved \in Mems /\ Moved # Raw
  /\ \A v \in OptValues : v \in Mems /\ v # Raw
BY OptionalAssumption DEF Mems

\* The copy constructor gives the value of the other, or none when it throws.
LEMMA CopyConstructorIs ==
  ASSUME NEW m \in Machine, ~m.threw, NEW o \in Optionals, NEW p \in Optionals, o # p,
         NEW w \in Mems, m.opt[p] = Should(w)
  PROVE  /\ Becomes(m, copy_constructor(m, o, p, FALSE), o, Should(w), FALSE)
         /\ ~trivial => Becomes(m, copy_constructor(m, o, p, TRUE), o, Should(Raw), w # Raw)
<1> DEFINE n == [m EXCEPT !.opt[o] = Empty]
<1>1. Empty = Should(Raw) /\ Empty \in Optional /\ Should(w) \in Optional
  BY Zenon DEF Empty, Should, Cell, Optional, Mems
<1>2. Becomes(m, n, o, Should(Raw), FALSE)
  BY <1>1 DEF Becomes, Machine
<1>3. trivial => Becomes(m, copy_constructor(m, o, p, FALSE), o, Should(w), FALSE)
  BY <1>1 DEF Becomes, Machine, copy_constructor
<1>4. \A throws : ~trivial =>
        copy_constructor(m, o, p, throws) = IF n.opt[p].flag THEN construct_from_args(n, o, n.opt[p].mem, throws) ELSE n
  BY DEF copy_constructor
<1> HIDE DEF n
<1>5. n \in Machine /\ ~n.threw /\ n.opt[o] = Should(Raw) /\ n.opt[o].mem = Raw /\ n.opt[p] = Should(w)
  BY <1>2 DEF Becomes, Should, Cell
<1>6. n.opt[p].mem = w /\ (n.opt[p].flag <=> w # Raw)
  BY <1>5, ShouldIs, Zenon
<1>7. CASE w = Raw
  <2>1. \A throws : ~trivial => copy_constructor(m, o, p, throws) = n
    BY <1>4, <1>6, <1>7
  <2>2. (w # Raw) = FALSE
    BY <1>7
  <2> QED
    BY <1>2, <1>3, <1>7, <2>1, <2>2, Zenon
<1>8. CASE w # Raw
  <2>1. \A throws : ~trivial => copy_constructor(m, o, p, throws) = construct_from_args(n, o, w, throws)
    BY <1>4, <1>6, <1>8
  <2>2. /\ Becomes(n, construct_from_args(n, o, w, FALSE), o, Cell(TRUE, w), FALSE)
        /\ Becomes(n, construct_from_args(n, o, w, TRUE), o, Should(Raw), TRUE)
    BY <1>5, ConstructIs, Zenon
  <2>3. /\ Becomes(m, construct_from_args(n, o, w, FALSE), o, Cell(TRUE, w), FALSE)
        /\ Becomes(m, construct_from_args(n, o, w, TRUE), o, Should(Raw), TRUE)
    BY <1>2, <2>2, Zenon DEF Becomes
  <2>4. (w # Raw) = TRUE /\ Should(w) = Cell(TRUE, w)
    BY <1>8, Zenon DEF Should, Cell
  <2> QED
    BY <1>3, <2>1, <2>3, <2>4, Zenon
<1> QED
  BY <1>7, <1>8, Zenon

\* The assignment of another optional: its value, or none.
LEMMA CopyAssignmentIs ==
  ASSUME NEW m \in Machine, ~m.threw, NEW o \in Optionals, NEW p \in Optionals, o # p, Coherent(m.opt[o]),
         NEW w \in Mems, m.opt[p] = Should(w)
  PROVE  Becomes(m, copy_assignment(m, o, p), o, Should(w), FALSE)
<1>1. m.opt[p].mem = w /\ (m.opt[p].flag <=> w # Raw) /\ m.threw = FALSE
  BY ShouldIs, Zenon DEF Machine
<1>2. CASE trivial
  BY <1>1, <1>2 DEF copy_assignment, Becomes, Machine
<1>3. CASE ~trivial /\ w # Raw
  BY <1>1, <1>3, AssignIs, Zenon DEF copy_assignment
<1>4. CASE ~trivial /\ w = Raw
  <2>1. copy_assignment(m, o, p) = reset(m, o)
    BY <1>1, <1>4 DEF copy_assignment
  <2>2. Becomes(m, reset(m, o), o, Should(Raw), m.threw)
    BY ResetIs
  <2> QED
    BY <1>1, <1>4, <2>1, <2>2, Zenon
<1> QED
  BY <1>2, <1>3, <1>4, Zenon


-----------------------------------------------------------------------------
(* The calls.                                                              *)

\* Default-constructed optionals have no value.
LEMMA OptionalStarts == OptionalInit => OptionalInvariant
<1> SUFFICES ASSUME OptionalInit PROVE OptionalInvariant
  OBVIOUS
<1>1. Empty \in Optional
  BY DEF Empty, Optional
<1>2. OptionalTypes
  BY <1>1, Zenon DEF OptionalInit, OptionalTypes, Mems
<1>3. OptionalSound
  BY DEF OptionalInit, OptionalSound, Empty
<1> QED
  BY <1>2, <1>3 DEF OptionalInvariant

\* reset() and the destructor.
LEMMA ResetKeeps ==
  ASSUME OptionalInvariant, NEW o \in Optionals, Reset(o) \/ Destroy(o)
  PROVE  OptionalInvariant'
<1>1. Becomes(Start, reset(Start, o), o, Should(Raw), Start.threw)
  BY StartIs, ResetIs, ZenonT(60)
<1>2. Becomes(Start, destructor(Start, o), o, Should(Raw), Start.threw)
  BY StartIs, ResetIs
<1>3. CASE Reset(o)
  BY <1>1, <1>3, SettlesOne, ValuesAreMems DEF Reset, Emptied
<1>4. CASE Destroy(o)
  BY <1>2, <1>4, SettlesOne, ValuesAreMems DEF Destroy, Emptied
<1> QED
  BY <1>3, <1>4

\* The assignment of a value.
LEMMA AssignValueKeeps ==
  ASSUME OptionalInvariant, NEW o \in Optionals, NEW v \in OptValues, AssignValue(o, v)
  PROVE  OptionalInvariant'
<1>1. Becomes(Start, value_assignment(Start, o, v), o, Should(v), FALSE)
  BY StartIs, ValueAssignmentIs, ValuesAreMems, Zenon
<1> QED
  BY <1>1, SettlesOne, ValuesAreMems, Zenon DEF AssignValue

\* emplace that throws after destroying the value is the deviation.
LEMMA EmplaceKeeps ==
  ASSUME OptionalInvariant, Deviations \subseteq OptionalAvoided,
         NEW o \in Optionals, NEW v \in OptValues, NEW throws \in BOOLEAN, Emplace(o, v, throws)
  PROVE  OptionalInvariant'
<1>1. /\ Becomes(Start, emplace(Start, o, v, FALSE), o, Should(v), FALSE)
      /\ ~Start.opt[o].flag => Becomes(Start, emplace(Start, o, v, TRUE), o, Start.opt[o], TRUE)
      /\ Start.opt[o].flag => "emplace throws after destroying" \in emplace(Start, o, v, TRUE).left
  BY StartIs, EmplaceIs, ValuesAreMems, Zenon
<1>2. CASE throws = FALSE
  <2>1. FinishOptional(emplace(Start, o, v, FALSE), [optWant EXCEPT ![o] = v])
    BY <1>2, Zenon DEF Emplace
  <2> QED
    BY <1>1, <2>1, SettlesOne, ValuesAreMems, Zenon
<1>3. CASE throws = TRUE
  <2>1. FinishOptional(emplace(Start, o, v, TRUE), [optWant EXCEPT ![o] = Raw])
    BY <1>3, Zenon DEF Emplace, Emptied
  <2>2. ~Start.opt[o].flag
    BY <1>1, <2>1, Zenon DEF FinishOptional, Deviations
  <2>3. Start.opt[o] = Should(Raw)
    BY <2>2, StartIs, WantsAre
  <2>4. Becomes(Start, emplace(Start, o, v, TRUE), o, Should(Raw), TRUE)
    BY <1>1, <2>2, <2>3, Zenon
  <2> QED
    BY <2>1, <2>4, SettlesOne, ValuesAreMems, Zenon
<1> QED
  BY <1>2, <1>3, Zenon

\* The copy assignment, of itself too.
LEMMA CopyAssignKeeps ==
  ASSUME OptionalInvariant, NEW o \in Optionals, NEW p \in Optionals, CopyAssignOptional(o, p)
  PROVE  OptionalInvariant'
<1>1. CASE o # p
  <2>1. Becomes(Start, copy_assignment(Start, o, p), o, Should(optWant[p]), FALSE)
    BY <1>1, StartIs, WantsAre, CopyAssignmentIs, Zenon
  <2> QED
    BY <2>1, WantsAre, SettlesOne, Zenon DEF CopyAssignOptional
<1>2. CASE o = p
  <2>1. copy_assignment(Start, o, p) = Start
    BY <1>2 DEF copy_assignment
  <2>2. [optWant EXCEPT ![o] = optWant[p]] = optWant
    BY <1>2 DEF OptionalInvariant, OptionalTypes
  <2> QED
    BY <2>1, <2>2, StartIs, SettlesNone DEF CopyAssignOptional
<1> QED
  BY <1>1, <1>2


\* What is left of a value that was copied and then moved out, as an assignment and a constructor do.
LEMMA MovedKeeps ==
  ASSUME OptionalInvariant, NEW o \in Optionals, NEW p \in Optionals, o # p, NEW n,
         Becomes(Start, n, o, Should(optWant[p]), FALSE),
         FinishOptional(IF opt[p].flag THEN MoveOut(n, p) ELSE n, [optWant EXCEPT ![o] = optWant[p], ![p] = Rest(p)])
  PROVE  OptionalInvariant'
<1>1. n \in Machine /\ n.opt[p] = Should(optWant[p])
  BY StartIs DEF Becomes
<1>2. CASE opt[p].flag
  <2>1. optWant[p] \in Mems /\ optWant[p] # Raw
    BY <1>2, WantsAre
  <2>2. Rest(p) = (IF trivial THEN optWant[p] ELSE Moved) /\ Rest(p) \in Mems
    BY <2>1, ValuesAreMems DEF Rest
  <2>3. Becomes(n, MoveOut(n, p), p, Should(Rest(p)), n.threw)
    BY <1>1, <2>1, <2>2, MoveOutIs
  <2>4. FinishOptional(MoveOut(n, p), [optWant EXCEPT ![o] = optWant[p], ![p] = Rest(p)])
    BY <1>2
  <2> QED
    BY <2>1, <2>2, <2>3, <2>4, SettlesTwo, Zenon
<1>3. CASE ~opt[p].flag
  <2>1. optWant[p] = Raw
    BY <1>3, WantsAre
  <2>2. [optWant EXCEPT ![o] = optWant[p], ![p] = Rest(p)] = [optWant EXCEPT ![o] = optWant[p]]
    BY <2>1, Zenon DEF Rest, OptionalInvariant, OptionalTypes
  <2>3. FinishOptional(n, [optWant EXCEPT ![o] = optWant[p]])
    BY <1>3, <2>2
  <2> QED
    BY <2>3, WantsAre, SettlesOne, Zenon
<1> QED
  BY <1>2, <1>3

\* The move assignment, of itself too.
LEMMA MoveAssignKeeps ==
  ASSUME OptionalInvariant, NEW o \in Optionals, NEW p \in Optionals, MoveAssignOptional(o, p)
  PROVE  OptionalInvariant'
<1>1. CASE o # p
  <2> DEFINE n == copy_assignment(Start, o, p)
  <2>1. Becomes(Start, n, o, Should(optWant[p]), FALSE)
    BY <1>1, StartIs, WantsAre, CopyAssignmentIs, Zenon
  <2>2. move_assignment(Start, o, p) = IF opt[p].flag THEN MoveOut(n, p) ELSE n
    BY <1>1, StartIs DEF move_assignment
  <2>3. FinishOptional(move_assignment(Start, o, p), [optWant EXCEPT ![o] = optWant[p], ![p] = Rest(p)])
    BY <1>1 DEF MoveAssignOptional
  <2> HIDE DEF n
  <2> QED
    BY <1>1, <2>1, <2>2, <2>3, MovedKeeps, Zenon
<1>2. CASE o = p
  <2>1. move_assignment(Start, o, p) = Start
    BY <1>2 DEF move_assignment, copy_assignment
  <2> QED
    BY <1>2, <2>1, StartIs, SettlesNone DEF MoveAssignOptional
<1> QED
  BY <1>1, <1>2

\* The copy constructor, which may throw.
LEMMA CopyConstructKeeps ==
  ASSUME OptionalInvariant, NEW o \in Optionals, NEW p \in Optionals, NEW throws \in BOOLEAN,
         CopyConstructOptional(o, p, throws)
  PROVE  OptionalInvariant'
<1>1. o # p /\ (throws => ~trivial)
  BY DEF CopyConstructOptional, Renew, May
<1>2. /\ Becomes(Start, copy_constructor(Start, o, p, FALSE), o, Should(optWant[p]), FALSE)
      /\ ~trivial => Becomes(Start, copy_constructor(Start, o, p, TRUE), o, Should(Raw), optWant[p] # Raw)
  BY <1>1, StartIs, WantsAre, CopyConstructorIs, Zenon
<1>3. CASE throws = FALSE
  <2>1. FinishOptional(copy_constructor(Start, o, p, FALSE), [optWant EXCEPT ![o] = optWant[p]])
    BY <1>3, Zenon DEF CopyConstructOptional, Renew
  <2> QED
    BY <1>2, <2>1, WantsAre, SettlesOne, Zenon
<1>4. CASE throws = TRUE
  <2>1. FinishOptional(copy_constructor(Start, o, p, TRUE), [optWant EXCEPT ![o] = Raw])
    BY <1>4, Zenon DEF CopyConstructOptional, Renew
  <2>2. Becomes(Start, copy_constructor(Start, o, p, TRUE), o, Should(Raw), optWant[p] # Raw)
    BY <1>1, <1>2, <1>4, Zenon
  <2> QED
    BY <2>1, <2>2, ValuesAreMems, SettlesOne, Zenon
<1> QED
  BY <1>3, <1>4, Zenon

\* The move constructor, which leaves the other as it was when it throws.
LEMMA MoveConstructKeeps ==
  ASSUME OptionalInvariant, NEW o \in Optionals, NEW p \in Optionals, NEW throws \in BOOLEAN,
         MoveConstructOptional(o, p, throws)
  PROVE  OptionalInvariant'
<1>1. o # p /\ (throws => ~trivial) /\ ~opt[o].flag
  BY DEF MoveConstructOptional, Renew, May
<1> DEFINE n == copy_constructor(Start, o, p, FALSE)
           thrown == copy_constructor(Start, o, p, TRUE)
<1>2. /\ Becomes(Start, n, o, Should(optWant[p]), FALSE)
      /\ ~trivial => Becomes(Start, thrown, o, Should(Raw), optWant[p] # Raw)
  BY <1>1, StartIs, WantsAre, CopyConstructorIs, Zenon
<1>3. move_constructor(Start, o, p, FALSE) = IF n.threw \/ ~n.opt[p].flag THEN n ELSE MoveOut(n, p)
  BY DEF move_constructor
<1>4. move_constructor(Start, o, p, TRUE) = IF thrown.threw \/ ~thrown.opt[p].flag THEN thrown ELSE MoveOut(thrown, p)
  BY DEF move_constructor
<1> HIDE DEF n, thrown
<1>5. CASE throws = FALSE
  <2>1. FinishOptional(move_constructor(Start, o, p, FALSE), [optWant EXCEPT ![o] = optWant[p], ![p] = Rest(p)])
    BY <1>5, Zenon DEF MoveConstructOptional, Renew
  <2>2. ~n.threw /\ n.opt[p] = opt[p]
    BY <1>1, <1>2, StartIs DEF Becomes
  <2>3. move_constructor(Start, o, p, FALSE) = IF opt[p].flag THEN MoveOut(n, p) ELSE n
    BY <1>3, <2>2, Zenon
  <2> QED
    BY <1>1, <1>2, <2>1, <2>3, MovedKeeps, Zenon
<1>6. CASE throws = TRUE
  <2>1. FinishOptional(move_constructor(Start, o, p, TRUE), optWant)
    BY <1>6, Zenon DEF MoveConstructOptional, Renew
  <2>2. Becomes(Start, thrown, o, Should(Raw), optWant[p] # Raw)
    BY <1>1, <1>2, <1>6, ZenonT(60)
  <2>3. thrown.threw = (optWant[p] # Raw) /\ thrown.opt[p] = opt[p]
    BY <1>1, <2>2, StartIs DEF Becomes
  <2>4. move_constructor(Start, o, p, TRUE) = thrown
    BY <1>4, <2>3, WantsAre, Zenon
  <2>5. [optWant EXCEPT ![o] = Raw] = optWant
    BY <1>1, WantsAre DEF OptionalInvariant, OptionalTypes
  <2>6. FinishOptional(thrown, [optWant EXCEPT ![o] = Raw])
    BY <2>1, <2>4, <2>5, Zenon
  <2> QED
    BY <2>2, <2>6, ValuesAreMems, SettlesOne
<1> QED
  BY <1>5, <1>6, Zenon


\* A conversion that assigns to memory without an object is the other deviation.
LEMMA ConvertKeeps ==
  ASSUME OptionalInvariant, Deviations \subseteq OptionalAvoided,
         NEW o \in Optionals, NEW p \in Optionals, ConvertOptional(o, p)
  PROVE  OptionalInvariant'
<1> DEFINE n == [Start EXCEPT !.opt[o] = Empty]
           r == construct_from_value(n, o, n.opt[p].mem)
<1>1. o # p /\ FinishOptional(converting_constructor(Start, o, p), [optWant EXCEPT ![o] = optWant[p]])
  BY DEF ConvertOptional, Renew
<1>2. Becomes(Start, n, o, Should(Raw), FALSE)
  <2>1. Empty = Should(Raw) /\ Empty \in Optional
    BY Zenon DEF Empty, Should, Cell, Optional
  <2> QED
    BY <2>1, StartIs DEF Becomes, Machine
<1>3. converting_constructor(Start, o, p) =
        IF ~n.opt[p].flag THEN n
        ELSE [r EXCEPT !.left = IF trivial THEN @ ELSE @ \union {"converting assigns to no object"}]
  BY DEF converting_constructor
<1> HIDE DEF n
<1>4. n \in Machine /\ ~n.threw /\ n.threw = FALSE /\ n.opt[p] = opt[p] /\ n.opt[o].mem = Raw
  BY <1>1, <1>2, StartIs DEF Becomes, Should, Cell
<1>5. CASE ~opt[p].flag
  <2>1. converting_constructor(Start, o, p) = n /\ optWant[p] = Raw
    BY <1>3, <1>4, <1>5, WantsAre
  <2> QED
    BY <1>1, <1>2, <2>1, ValuesAreMems, SettlesOne, Zenon
<1>6. CASE opt[p].flag
  <2>1. optWant[p] \in Mems /\ optWant[p] # Raw /\ n.opt[p].mem = optWant[p]
    BY <1>4, <1>6, WantsAre, ZenonT(60)
  <2> DEFINE x == Misused(n, n.opt[o].mem = Raw)
             y == SetMem(x, o, optWant[p])
  <2>2. r = SetFlag(y, o, TRUE)
    BY <2>1 DEF construct_from_value
  <2>3. x \in Machine
    BY <1>4, Zenon DEF Misused, Machine
  <2> HIDE DEF x
  <2>4. y \in Machine /\ y.opt[o].mem = optWant[p]
    <3>1. Becomes(x, y, o, Cell(x.opt[o].flag, optWant[p]), x.threw)
      BY <2>1, <2>3, SetMemIs
    <3> QED
      BY <3>1 DEF Becomes, Cell
  <2> HIDE DEF y
  <2>5. r \in Machine
    BY <2>2, <2>4, SetFlagIs, Zenon DEF Becomes
  <2> HIDE DEF r
  <2>6. trivial
    <3> SUFFICES ASSUME ~trivial PROVE FALSE
      OBVIOUS
    <3>1. "converting assigns to no object" \in converting_constructor(Start, o, p).left
      BY <1>3, <1>4, <1>6, <2>5, Zenon DEF Machine
    <3> QED
      BY <1>1, <3>1, Zenon DEF FinishOptional, Deviations
  <2>7. x = n
    BY <1>4, <2>6, MisusedIs, Zenon DEF x
  <2>8. Becomes(n, y, o, Cell(n.opt[o].flag, optWant[p]), FALSE)
    BY <1>4, <2>1, <2>7, SetMemIs, Zenon DEF y
  <2>9. y.threw = FALSE
    BY <2>8 DEF Becomes
  <2>10. Becomes(y, r, o, Cell(TRUE, optWant[p]), FALSE)
    BY <2>2, <2>4, <2>9, SetFlagIs, Zenon
  <2>11. Cell(TRUE, optWant[p]) = Should(optWant[p])
    BY <2>1, Zenon DEF Should, Cell
  <2>12. Becomes(Start, r, o, Should(optWant[p]), FALSE)
    BY <1>2, <2>8, <2>10, <2>11, Zenon DEF Becomes
  <2>13. converting_constructor(Start, o, p) = r
    BY <1>3, <1>4, <1>6, <2>5, <2>6 DEF Machine
  <2> QED
    BY <1>1, <2>1, <2>12, <2>13, SettlesOne, Zenon
<1> QED
  BY <1>5, <1>6

\* A value that goes from one optional to another that has none.
LEMMA SwapOver ==
  ASSUME OptionalInvariant, NEW full \in Optionals, NEW empty \in Optionals, full # empty,
         optWant[full] # Raw, optWant[empty] = Raw, NEW m, NEW want,
         m = reset(MoveOut(emplace(Start, empty, optWant[full], FALSE), full), full),
         want = [optWant EXCEPT ![empty] = optWant[full], ![full] = Raw], FinishOptional(m, want)
  PROVE  OptionalInvariant'
<1> DEFINE n == emplace(Start, empty, optWant[full], FALSE)
           r == MoveOut(n, full)
           w == IF trivial THEN optWant[full] ELSE Moved
<1>1. optWant[full] \in Mems /\ w \in Mems /\ w # Raw
  BY WantsAre, ValuesAreMems
<1>2. Becomes(Start, n, empty, Should(optWant[full]), FALSE)
  BY <1>1, StartIs, EmplaceIs, Zenon
<1> HIDE DEF n
<1>3. n \in Machine /\ n.opt[full] = Should(optWant[full]) /\ n.threw = FALSE
  BY <1>2, StartIs DEF Becomes
<1>4. Becomes(n, r, full, Should(w), FALSE)
  BY <1>1, <1>3, MoveOutIs, Zenon
<1> HIDE DEF r, w
<1>5. r \in Machine /\ r.opt[full] = Should(w) /\ r.threw = FALSE
  BY <1>4 DEF Becomes
<1>6. Coherent(r.opt[full])
  BY <1>1, <1>5, ShouldIs
<1>7. Becomes(r, m, full, Should(Raw), FALSE)
  BY <1>5, <1>6, ResetIs, Zenon DEF r, n
<1>8. Becomes(n, m, full, Should(Raw), FALSE)
  BY <1>4, <1>7, Zenon DEF Becomes
<1> QED
  BY <1>1, <1>2, <1>8, ValuesAreMems, SettlesTwo, Zenon


\* swap() of two values, of one value and none, of none and none, and of one with itself.
LEMMA SwapKeeps ==
  ASSUME OptionalInvariant, NEW o \in Optionals, NEW p \in Optionals, NEW throws \in BOOLEAN, SwapOptional(o, p, throws)
  PROVE  OptionalInvariant'
<1> DEFINE a == optWant[o]
           b == optWant[p]
           swapped == [optWant EXCEPT ![o] = b, ![p] = a]
<1>1. /\ Start.opt[o].mem = a /\ Start.opt[p].mem = b /\ a \in Mems /\ b \in Mems
      /\ (Start.opt[o].flag <=> a # Raw) /\ (Start.opt[p].flag <=> b # Raw)
      /\ Start.opt[o].flag \in BOOLEAN /\ Start.opt[p].flag \in BOOLEAN
  BY StartIs, WantsAre DEF Machine, Optional
<1>2. CASE throws = TRUE
  <2> DEFINE n == emplace(Start, o, b, TRUE)
  <2>1. a = Raw /\ b # Raw /\ FinishOptional(swap(Start, o, p, TRUE), optWant)
    BY <1>2, Zenon DEF SwapOptional
  <2>2. Becomes(Start, n, o, Start.opt[o], TRUE)
    BY <1>1, <2>1, StartIs, EmplaceIs, Zenon
  <2>3. n.threw /\ Start.opt[o] = Should(Raw)
    BY <2>1, <2>2, StartIs, Zenon DEF Becomes
  <2>4. swap(Start, o, p, TRUE) = n
    BY <1>1, <2>1, <2>3, Zenon DEF swap
  <2>5. [optWant EXCEPT ![o] = Raw] = optWant
    BY <2>1 DEF OptionalInvariant, OptionalTypes
  <2> HIDE DEF n
  <2>6. FinishOptional(n, [optWant EXCEPT ![o] = Raw])
    BY <2>1, <2>4, <2>5, Zenon
  <2> QED
    BY <2>2, <2>3, <2>6, ValuesAreMems, SettlesOne, Zenon
<1>3. CASE throws = FALSE
  <2> DEFINE m == swap(Start, o, p, FALSE)
  <2>1. FinishOptional(m, swapped)
    BY <1>3, Zenon DEF SwapOptional
  <2>2. CASE o = p \/ (a = Raw /\ b = Raw)
    <3>1. m = Start
      BY <1>1, <2>2, Zenon DEF swap
    <3>2. swapped = optWant
      BY <2>2, Zenon DEF OptionalInvariant, OptionalTypes
    <3> QED
      BY <2>1, <3>1, <3>2, StartIs, SettlesNone, Zenon
  <2>3. CASE o # p /\ a # Raw /\ b # Raw
    <3> DEFINE n == SetMem(Start, o, b)
    <3>1. Start.opt[o].flag = TRUE /\ Start.opt[p].flag = TRUE
      BY <1>1, <2>3
    <3>2. m = SetMem(n, p, a)
      BY <1>1, <2>3, <3>1, Zenon DEF swap
    <3>3. Becomes(Start, n, o, Cell(TRUE, b), Start.threw)
      BY <1>1, <3>1, StartIs, SetMemIs, Zenon
    <3> HIDE DEF n
    <3>4. n \in Machine /\ n.opt[p].flag = TRUE
      BY <2>3, <3>1, <3>3 DEF Becomes
    <3>5. Becomes(n, m, p, Cell(TRUE, a), n.threw)
      BY <1>1, <3>2, <3>4, SetMemIs, Zenon
    <3>6. Cell(TRUE, a) = Should(a) /\ Cell(TRUE, b) = Should(b)
      BY <2>3, Zenon DEF Should, Cell
    <3>7. Becomes(Start, n, o, Should(b), Start.threw) /\ Becomes(n, m, p, Should(a), n.threw)
      BY <3>3, <3>5, <3>6, Zenon
    <3> HIDE DEF m
    <3> QED
      BY <1>1, <2>1, <2>3, <3>7, SettlesTwo, ZenonT(60)
  <2>4. CASE o # p /\ a # Raw /\ b = Raw
    <3>1. Becomes(Start, emplace(Start, p, a, FALSE), p, Should(a), FALSE)
      BY <1>1, <2>4, StartIs, EmplaceIs, Zenon
    <3>2. ~emplace(Start, p, a, FALSE).threw
      BY <3>1, Zenon DEF Becomes
    <3>3. m = reset(MoveOut(emplace(Start, p, a, FALSE), o), o)
      BY <1>1, <2>4, <3>2, Zenon DEF swap
    <3>4. swapped = [optWant EXCEPT ![p] = a, ![o] = Raw]
      BY <2>4, Zenon DEF OptionalInvariant, OptionalTypes
    <3> QED
      BY <2>1, <2>4, <3>3, <3>4, SwapOver, Zenon
  <2>5. CASE o # p /\ a = Raw /\ b # Raw
    <3>1. Becomes(Start, emplace(Start, o, b, FALSE), o, Should(b), FALSE)
      BY <1>1, <2>5, StartIs, EmplaceIs, Zenon
    <3>2. ~emplace(Start, o, b, FALSE).threw
      BY <3>1, Zenon DEF Becomes
    <3>3. m = reset(MoveOut(emplace(Start, o, b, FALSE), p), p)
      BY <1>1, <2>5, <3>2, Zenon DEF swap
    <3>4. swapped = [optWant EXCEPT ![o] = b, ![p] = Raw]
      BY <2>5
    <3> QED
      BY <2>1, <2>5, <3>3, <3>4, SwapOver, Zenon
  <2> QED
    BY <2>2, <2>3, <2>4, <2>5
<1> QED
  BY <1>2, <1>3, Zenon

\* Every call keeps the invariant.
LEMMA OptionalKeeps ==
  ASSUME Deviations \subseteq OptionalAvoided, OptionalInvariant, [OptionalNext]_ovars
  PROVE  OptionalInvariant'
<1>1. CASE UNCHANGED ovars
  BY <1>1, Zenon DEF ovars, OptionalInvariant, OptionalTypes, OptionalSound
<1>2. CASE OptionalNext
  BY <1>2, ResetKeeps, AssignValueKeeps, EmplaceKeeps, CopyAssignKeeps, MoveAssignKeeps, ConvertKeeps,
     CopyConstructKeeps, MoveConstructKeeps, SwapKeeps DEF OptionalNext
<1> QED
  BY <1>1, <1>2

\* Whatever calls are made on however many optionals, throwing or not, and whatever the value type: but for the two
\* deviations, an optional has the value that the standard says, its flag agrees, and no object is used without being there.
THEOREM OptionalsAlwaysSound ==
  ASSUME Deviations \subseteq OptionalAvoided
  PROVE  OptionalSpec => []OptionalSound
<1>1. OptionalInvariant => OptionalSound
  BY DEF OptionalInvariant
<1>2. OptionalInvariant /\ [OptionalNext]_ovars => OptionalInvariant'
  BY OptionalKeeps, ZenonT(60)
<1> QED
  BY <1>1, <1>2, OptionalStarts, PTL DEF OptionalSpec

-----------------------------------------------------------------------------
(***************************************************************************)
(* intrusive_ptr                                                           *)
(***************************************************************************)

Pointees == Nodes \union {NoNode}
Hit(a, x) == IF a = x THEN 1 ELSE 0
HeldBy(f, x) == Cardinality({i \in Holders : f[i] = x})

\* The counts are exact, and nothing that is gone was counted.
IntrusiveInv ==
  /\ iptr \in [Holders -> Pointees] /\ refs \in [Nodes -> Nat] /\ bare \in [Nodes -> Nat] /\ dropped \in Pointees
  /\ iMisuse = FALSE
  /\ \A x \in Nodes : refs[x] = HeldBy(iptr, x) + Hit(dropped, x) + bare[x]

\* The pointers to x are i, if it points there, and the others.
LEMMA CountBut ==
  ASSUME NEW f, NEW i \in Holders, NEW x
  PROVE  LET S == {j \in Holders \ {i} : f[j] = x}
         IN Cardinality(S) \in Nat /\ HeldBy(f, x) = Cardinality(S) + Hit(f[i], x)
<1> DEFINE S == {j \in Holders \ {i} : f[j] = x}
           All == {j \in Holders : f[j] = x}
<1>1. IsFiniteSet(S)
  BY IntrusiveAssumption, FS_Subset
<1>2. Cardinality(S) \in Nat
  BY <1>1, FS_CardinalityType
<1>3. CASE f[i] = x
  <2>1. All = S \union {i} /\ i \notin S
    BY <1>3
  <2> HIDE DEF S, All
  <2>2. Cardinality(All) = Cardinality(S) + 1
    BY <1>1, <2>1, FS_AddElement, Zenon
  <2> QED
    BY <1>2, <1>3, <2>2 DEF S, All, HeldBy, Hit
<1>4. CASE f[i] # x
  <2>1. All = S
    BY <1>4
  <2>2. HeldBy(f, x) = Cardinality(S) /\ Hit(f[i], x) = 0
    BY <1>4, <2>1 DEF HeldBy, Hit
  <2> HIDE DEF S
  <2>3. HeldBy(f, x) = Cardinality(S) + Hit(f[i], x)
    BY <1>2, <2>2
  <2> QED
    BY <1>2, <2>3, Zenon DEF S
<1> QED
  BY <1>3, <1>4

\* The pointer i is pointed at y.
LEMMA Repointed ==
  ASSUME NEW f \in [Holders -> Pointees], NEW i \in Holders, NEW y \in Pointees, NEW x
  PROVE  /\ HeldBy(f, x) \in Nat /\ HeldBy([f EXCEPT ![i] = y], x) \in Nat
         /\ HeldBy([f EXCEPT ![i] = y], x) = HeldBy(f, x) - Hit(f[i], x) + Hit(y, x)
<1> DEFINE g == [f EXCEPT ![i] = y]
           S == {j \in Holders \ {i} : f[j] = x}
<1>1. {j \in Holders \ {i} : g[j] = x} = S /\ g[i] = y
  OBVIOUS
<1> HIDE DEF g
<1>2. Cardinality(S) \in Nat /\ HeldBy(f, x) = Cardinality(S) + Hit(f[i], x)
  BY CountBut
<1>3. HeldBy(g, x) = Cardinality(S) + Hit(y, x)
  <2>1. HeldBy(g, x) = Cardinality({j \in Holders \ {i} : g[j] = x}) + Hit(g[i], x)
    BY CountBut, Zenon
  <2> QED
    BY <1>1, <2>1, Zenon
<1> HIDE DEF S
<1> QED
  BY <1>2, <1>3 DEF Hit, g

\* What j points at is moved to i.
LEMMA MovedOver ==
  ASSUME NEW f \in [Holders -> Pointees], NEW i \in Holders, NEW j \in Holders, i # j, NEW x, NoNode \in Pointees
  PROVE  /\ HeldBy(f, x) \in Nat
         /\ HeldBy([[f EXCEPT ![j] = NoNode] EXCEPT ![i] = f[j]], x) = HeldBy(f, x) - Hit(f[i], x) + Hit(NoNode, x)
<1> DEFINE g == [f EXCEPT ![j] = NoNode]
           y == f[j]
<1>1. y \in Pointees /\ g \in [Holders -> Pointees] /\ g[i] = f[i]
  OBVIOUS
<1>2. HeldBy(f, x) \in Nat /\ HeldBy(g, x) \in Nat /\ HeldBy(g, x) = HeldBy(f, x) - Hit(y, x) + Hit(NoNode, x)
  BY Repointed, Zenon
<1> HIDE DEF g, y
<1>3. HeldBy([g EXCEPT ![i] = y], x) = HeldBy(g, x) - Hit(g[i], x) + Hit(y, x)
  BY <1>1, Repointed, ZenonT(60)
<1>4. Hit(y, x) \in Int /\ Hit(NoNode, x) \in Int /\ Hit(f[i], x) \in Int
  BY DEF Hit
<1>5. HeldBy([g EXCEPT ![i] = y], x) = HeldBy(f, x) - Hit(f[i], x) + Hit(NoNode, x)
  BY <1>1, <1>2, <1>3, <1>4
<1> QED
  BY <1>2, <1>5 DEF g, y

\* The pointers h are f with i and j swapped.
Swaps(h, f, i, j) == h = [[f EXCEPT ![i] = f[j]] EXCEPT ![j] = f[i]]

\* An object is held as often after swap() as before.
LEMMA Exchanged ==
  ASSUME NEW f \in [Holders -> Pointees], NEW i \in Holders, NEW j \in Holders, NEW x,
         NEW h, Swaps(h, f, i, j)
  PROVE  HeldBy(h, x) = HeldBy(f, x)
<1> DEFINE a == f[i]
           b == f[j]
           g == [f EXCEPT ![i] = b]
<1>1. a = f[i] /\ a \in Pointees /\ b \in Pointees /\ g \in [Holders -> Pointees] /\ g[j] = b
  OBVIOUS
<1> HIDE DEF a, b
<1>2. HeldBy(f, x) \in Nat /\ HeldBy(g, x) = HeldBy(f, x) - Hit(f[i], x) + Hit(b, x)
  <2>1. b \in Pointees
    BY <1>1
  <2> QED
    BY <2>1, Repointed, ZenonT(60)
<1> HIDE DEF g
<1>3. HeldBy([g EXCEPT ![j] = a], x) = HeldBy(g, x) - Hit(g[j], x) + Hit(a, x)
  <2>1. a \in Pointees /\ g \in [Holders -> Pointees]
    BY <1>1, ZenonT(60)
  <2> QED
    BY <2>1, Repointed, ZenonT(60)
<1>4. Hit(a, x) \in Int /\ Hit(b, x) \in Int
  BY DEF Hit
<1>5. HeldBy([g EXCEPT ![j] = a], x) = HeldBy(f, x)
  BY <1>1, <1>2, <1>3, <1>4
<1> QED
  BY <1>5 DEF a, b, g, Swaps

\* A pointer that points at x is counted.
LEMMA Referenced ==
  ASSUME IntrusiveInv, NEW i \in Holders, iptr[i] \in Nodes
  PROVE  refs[iptr[i]] > 0 /\ (dropped = iptr[i] => refs[iptr[i]] > 1)
<1> DEFINE x == iptr[i]
           S == {j \in Holders \ {i} : iptr[j] = x}
<1>1. Cardinality(S) \in Nat /\ HeldBy(iptr, x) = Cardinality(S) + Hit(iptr[i], x)
  BY CountBut
<1>2. refs[x] = HeldBy(iptr, x) + Hit(dropped, x) + bare[x] /\ bare[x] \in Nat
  BY Zenon DEF IntrusiveInv
<1> QED
  BY <1>1, <1>2 DEF Hit

\* A step that points i at y keeps the counts if it keeps the books of every object.
LEMMA Recounted ==
  ASSUME IntrusiveInv, NEW i \in Holders, NEW y \in Pointees, iptr' = [iptr EXCEPT ![i] = y],
         refs' \in [Nodes -> Nat], bare' \in [Nodes -> Nat], dropped' \in Pointees, iMisuse' = FALSE,
         \A z \in Nodes :
           refs'[z] = refs[z] + (bare'[z] - bare[z]) + (Hit(dropped', z) - Hit(dropped, z)) + (Hit(y, z) - Hit(iptr[i], z))
  PROVE  IntrusiveInv'
<1>1. iptr' \in [Holders -> Pointees]
  BY ZenonT(60) DEF IntrusiveInv
<1>2. ASSUME NEW z \in Nodes PROVE refs'[z] = HeldBy(iptr', z) + Hit(dropped', z) + bare'[z]
  <2>1. /\ HeldBy(iptr, z) \in Nat /\ HeldBy(iptr', z) \in Nat
        /\ HeldBy(iptr', z) = HeldBy(iptr, z) - Hit(iptr[i], z) + Hit(y, z)
    <3>1. iptr \in [Holders -> Pointees]
      BY Zenon DEF IntrusiveInv
    <3> QED
      BY <3>1, Repointed, Zenon
  <2>2. refs[z] = HeldBy(iptr, z) + Hit(dropped, z) + bare[z] /\ bare[z] \in Nat /\ bare'[z] \in Nat
    BY DEF IntrusiveInv
  <2>3. Hit(iptr[i], z) \in Int /\ Hit(y, z) \in Int /\ Hit(dropped, z) \in Int /\ Hit(dropped', z) \in Int
    BY DEF Hit
  <2> QED
    BY <2>1, <2>2, <2>3
<1> QED
  BY <1>1, <1>2, Zenon DEF IntrusiveInv, HeldBy

\* Nothing exists at first.
LEMMA IntrusiveStarts == IntrusiveInit => IntrusiveInv
<1> SUFFICES ASSUME IntrusiveInit PROVE IntrusiveInv
  OBVIOUS
<1>1. ASSUME NEW x \in Nodes PROVE HeldBy(iptr, x) = 0
  <2>1. {i \in Holders : iptr[i] = x} = {}
    BY IntrusiveAssumption DEF IntrusiveInit
  <2> QED
    BY <2>1, FS_EmptySet DEF HeldBy
<1>2. \A x \in Nodes : Hit(dropped, x) = 0
  BY IntrusiveAssumption DEF IntrusiveInit, Hit
<1> QED
  BY <1>1, <1>2 DEF IntrusiveInit, IntrusiveInv, Pointees

\* The temporary that a pointer is swapped with takes its old object; the new one has been counted.
LEMMA SwapInKeeps ==
  ASSUME IntrusiveInv, NEW i \in Holders, NEW x \in Pointees, dropped = NoNode, x \in Nodes => refs[x] > 0,
         FinishIntrusive(SwapIn(Now, i, x, TRUE), bare)
  PROVE  IntrusiveInv'
<1>1. CASE x = NoNode
  <2>1. iptr' = [iptr EXCEPT ![i] = x] /\ refs' = refs /\ bare' = bare /\ dropped' = iptr[i] /\ iMisuse' = iMisuse
    BY <1>1, Zenon DEF FinishIntrusive, SwapIn, intrusive_ptr_add_ref, Now
  <2> QED
    <3>1. /\ iptr[i] \in Pointees /\ bare \in [Nodes -> Nat] /\ refs \in [Nodes -> Nat] /\ iMisuse = FALSE
          /\ \A z \in Nodes : Hit(x, z) = 0 /\ Hit(dropped, z) = 0 /\ Hit(iptr[i], z) \in Int
      BY <1>1, IntrusiveAssumption DEF IntrusiveInv, Hit
    <3>2. \A z \in Nodes :
            refs'[z] = refs[z] + (bare'[z] - bare[z]) + (Hit(dropped', z) - Hit(dropped, z)) + (Hit(x, z) - Hit(iptr[i], z))
      BY <2>1, <3>1
    <3> QED
      BY <2>1, <3>1, <3>2, Recounted, Zenon
<1>2. CASE x # NoNode
  <2>1. x \in Nodes
    BY <1>2 DEF Pointees
  <2>2. /\ iptr' = [iptr EXCEPT ![i] = x] /\ refs' = [refs EXCEPT ![x] = @ + 1] /\ bare' = bare /\ dropped' = iptr[i]
        /\ iMisuse' = (iMisuse \/ refs[x] = 0)
    BY <1>2, Zenon DEF FinishIntrusive, SwapIn, intrusive_ptr_add_ref, Now
  <2>3. iMisuse' = FALSE
    <3>1. iMisuse = FALSE /\ ~(refs[x] = 0)
      BY <2>1 DEF IntrusiveInv
    <3> QED
      BY <2>2, <3>1, Zenon
  <2>4. refs' \in [Nodes -> Nat] /\ \A z \in Nodes : refs'[z] = refs[z] + Hit(x, z)
    BY <2>1, <2>2 DEF IntrusiveInv, Hit
  <2>5. iptr[i] \in Pointees /\ bare \in [Nodes -> Nat] /\ refs \in [Nodes -> Nat]
    BY Zenon DEF IntrusiveInv
  <2>6. \A z \in Nodes :
          refs'[z] = refs[z] + (bare'[z] - bare[z]) + (Hit(dropped', z) - Hit(dropped, z)) + (Hit(x, z) - Hit(iptr[i], z))
    BY <2>2, <2>4, <2>5, IntrusiveAssumption DEF Hit
  <2> QED
    BY <2>2, <2>3, <2>4, <2>5, <2>6, Recounted, Zenon
<1> QED
  BY <1>1, <1>2


\* Nothing changes.
LEMMA IntrusiveIdle ==
  ASSUME IntrusiveInv, UNCHANGED ivars
  PROVE  IntrusiveInv'
BY DEF IntrusiveInv, ivars, HeldBy

\* swap() changes nobody's count.
LEMMA ExchangeKeeps ==
  ASSUME IntrusiveInv, NEW i \in Holders, NEW j \in Holders, SwapIntrusive(i, j)
  PROVE  IntrusiveInv'
<1>1. /\ iptr' = [iptr EXCEPT ![i] = iptr[j], ![j] = iptr[i]] /\ refs' = refs /\ bare' = bare /\ dropped' = dropped
      /\ iMisuse' = iMisuse
  BY Zenon DEF SwapIntrusive, FinishIntrusive, Now
<1>2. iptr \in [Holders -> Pointees]
  BY Zenon DEF IntrusiveInv
<1>3. Swaps(iptr', iptr, i, j) /\ iptr' \in [Holders -> Pointees]
  BY <1>1, <1>2 DEF Swaps
<1>4. ASSUME NEW z \in Nodes PROVE HeldBy(iptr', z) = HeldBy(iptr, z)
  BY <1>2, <1>3, Exchanged, SMTT(30)
<1> QED
  BY <1>1, <1>3, <1>4, Zenon DEF IntrusiveInv, HeldBy

\* A move empties the source first.
LEMMA MoveKeeps ==
  ASSUME IntrusiveInv, NEW i \in Holders, NEW j \in Holders, i # j, dropped = NoNode,
         FinishIntrusive(SwapIn(detach(Now, j), i, iptr[j], FALSE), bare)
  PROVE  IntrusiveInv'
<1> DEFINE f == [iptr EXCEPT ![j] = NoNode]
           x == iptr[j]
<1>1. /\ iptr' = [f EXCEPT ![i] = x] /\ refs' = refs /\ bare' = bare /\ dropped' = f[i] /\ iMisuse' = iMisuse
  BY Zenon DEF FinishIntrusive, SwapIn, detach, Now
<1>2. /\ iptr \in [Holders -> Pointees] /\ f \in [Holders -> Pointees] /\ x \in Pointees /\ NoNode \in Pointees
      /\ f[i] = iptr[i] /\ iptr[i] \in Pointees
  BY ZenonT(60) DEF IntrusiveInv, Pointees
<1> HIDE DEF f, x
<1>3. ASSUME NEW z \in Nodes PROVE refs'[z] = HeldBy(iptr', z) + Hit(dropped', z) + bare'[z]
  <2>1. /\ HeldBy(iptr, z) \in Nat
        /\ HeldBy([f EXCEPT ![i] = x], z) = HeldBy(iptr, z) - Hit(iptr[i], z) + Hit(NoNode, z)
    <3>1. iptr \in [Holders -> Pointees] /\ NoNode \in Pointees
      BY <1>2
    <3> QED
      BY <3>1, MovedOver, ZenonT(60) DEF f, x
  <2>2. HeldBy(iptr', z) = HeldBy(iptr, z) - Hit(iptr[i], z) + Hit(NoNode, z)
    BY <1>1, <2>1, Zenon
  <2>3. refs[z] = HeldBy(iptr, z) + Hit(dropped, z) + bare[z] /\ bare[z] \in Nat
    BY DEF IntrusiveInv
  <2>4. Hit(NoNode, z) = 0 /\ Hit(dropped, z) = 0
    BY IntrusiveAssumption, Zenon DEF Hit
  <2>5. Hit(iptr[i], z) \in Int /\ dropped' = iptr[i]
    BY <1>1, <1>2 DEF Hit
  <2> QED
    BY <1>1, <2>1, <2>2, <2>3, <2>4, <2>5
<1>4. iptr' \in [Holders -> Pointees]
  BY <1>1, <1>2, SMTT(30)
<1> QED
  BY <1>1, <1>2, <1>3, <1>4 DEF IntrusiveInv, HeldBy

\* One count goes up, or down, by one.
Up(f, x) == [f EXCEPT ![x] = @ + 1]
Down(f, x) == [f EXCEPT ![x] = @ - 1]

\* The other counts stay.
LEMMA CountedUp ==
  ASSUME NEW f \in [Nodes -> Nat], NEW x \in Nodes
  PROVE  Up(f, x) \in [Nodes -> Nat] /\ \A z \in Nodes : Up(f, x)[z] = f[z] + Hit(x, z)
BY DEF Hit, Up

\* A count that goes down was not zero.
LEMMA CountedDown ==
  ASSUME NEW f \in [Nodes -> Nat], NEW x \in Nodes, f[x] > 0
  PROVE  Down(f, x) \in [Nodes -> Nat] /\ \A z \in Nodes : Down(f, x)[z] = f[z] - Hit(x, z)
BY DEF Hit, Down

\* A pointer to an object counts one, another none.
LEMMA HitIs == \A x, z : Hit(x, z) \in Int
BY DEF Hit

\* The pointer takes over the reference of a raw pointer.
LEMMA TakeOverKeeps ==
  ASSUME IntrusiveInv, NEW i \in Holders, NEW x \in Nodes, dropped = NoNode, bare[x] > 0,
         FinishIntrusive(SwapIn(Now, i, x, FALSE), [bare EXCEPT ![x] = @ - 1])
  PROVE  IntrusiveInv'
<1>1. /\ iptr' = [iptr EXCEPT ![i] = x] /\ refs' = refs /\ bare' = [bare EXCEPT ![x] = @ - 1] /\ dropped' = iptr[i]
      /\ iMisuse' = iMisuse
  BY Zenon DEF FinishIntrusive, SwapIn, Now
<1>2. iptr[i] \in Pointees /\ x \in Pointees /\ refs \in [Nodes -> Nat] /\ bare \in [Nodes -> Nat] /\ iMisuse = FALSE
  BY Zenon DEF IntrusiveInv, Pointees
<1>3. bare' \in [Nodes -> Nat] /\ \A z \in Nodes : bare'[z] = bare[z] - Hit(x, z)
  <2>1. bare' = Down(bare, x)
    BY <1>1, Zenon DEF Down
  <2> QED
    BY <1>2, <2>1, CountedDown
<1>4. ASSUME NEW z \in Nodes
      PROVE  refs'[z] = refs[z] + (bare'[z] - bare[z]) + (Hit(dropped', z) - Hit(dropped, z)) + (Hit(x, z) - Hit(iptr[i], z))
  <2>1. Hit(dropped, z) = 0
    BY IntrusiveAssumption, Zenon DEF Hit
  <2>2. /\ refs'[z] = refs[z] /\ refs[z] \in Nat /\ bare[z] \in Nat /\ dropped' = iptr[i]
        /\ bare'[z] = bare[z] - Hit(x, z)
    BY <1>1, <1>2, <1>3
  <2> QED
    BY <2>1, <2>2, HitIs
<1> QED
  BY <1>1, <1>2, <1>3, <1>4, Recounted, Zenon

\* detach(): a raw pointer takes over.
LEMMA DetachKeeps ==
  ASSUME IntrusiveInv, NEW i \in Holders, Detach(i)
  PROVE  IntrusiveInv'
<1> DEFINE x == iptr[i]
<1>1. /\ iptr' = [iptr EXCEPT ![i] = NoNode] /\ refs' = refs /\ bare' = [bare EXCEPT ![x] = @ + 1] /\ dropped' = dropped
      /\ iMisuse' = iMisuse
  BY Zenon DEF Detach, FinishIntrusive, detach, Now
<1>2. /\ x \in Nodes /\ NoNode \in Pointees /\ refs \in [Nodes -> Nat] /\ bare \in [Nodes -> Nat] /\ iMisuse = FALSE
      /\ dropped \in Pointees
  BY DEF IntrusiveInv, Pointees, Detach
<1>3. bare' \in [Nodes -> Nat] /\ \A z \in Nodes : bare'[z] = bare[z] + Hit(x, z)
  <2>1. bare' = Up(bare, x)
    BY <1>1, Zenon DEF Up
  <2> QED
    BY <1>2, <2>1, CountedUp
<1>4. ASSUME NEW z \in Nodes
      PROVE  refs'[z] = refs[z] + (bare'[z] - bare[z]) + (Hit(dropped', z) - Hit(dropped, z)) + (Hit(NoNode, z) - Hit(iptr[i], z))
  <2>1. Hit(NoNode, z) = 0
    BY IntrusiveAssumption, Zenon DEF Hit
  <2>2. /\ refs'[z] = refs[z] /\ refs[z] \in Nat /\ bare[z] \in Nat /\ dropped' = dropped
        /\ bare'[z] = bare[z] + Hit(iptr[i], z)
    BY <1>1, <1>2, <1>3
  <2> QED
    BY <2>1, <2>2, HitIs
<1> QED
  BY <1>1, <1>2, <1>3, <1>4, Recounted, ZenonT(60)

\* A new object has the reference of a raw pointer.
LEMMA NewNodeKeeps ==
  ASSUME IntrusiveInv, NEW x \in Nodes, NewNode(x)
  PROVE  IntrusiveInv'
<1> DEFINE y == iptr[x]
<1>1. /\ iptr' = iptr /\ refs' = [refs EXCEPT ![x] = 1] /\ bare' = [bare EXCEPT ![x] = 1] /\ dropped' = dropped
      /\ iMisuse' = iMisuse /\ refs[x] = 0 /\ bare[x] = 0
  BY Zenon DEF NewNode, FinishIntrusive, Now
<1>2. /\ x \in Holders /\ y \in Pointees /\ refs \in [Nodes -> Nat] /\ bare \in [Nodes -> Nat] /\ iMisuse = FALSE
      /\ dropped \in Pointees /\ iptr \in [Holders -> Pointees]
  BY DEF IntrusiveInv, Pointees, Holders
<1>3. iptr' = [iptr EXCEPT ![x] = y]
  BY <1>1, <1>2, Zenon
<1>4. /\ bare' \in [Nodes -> Nat] /\ refs' \in [Nodes -> Nat]
      /\ \A z \in Nodes : bare'[z] - bare[z] = Hit(x, z) /\ refs'[z] = refs[z] + Hit(x, z)
  BY <1>1, <1>2 DEF Hit
<1>5. \A z \in Nodes :
        refs'[z] = refs[z] + (bare'[z] - bare[z]) + (Hit(dropped', z) - Hit(dropped, z)) + (Hit(y, z) - Hit(iptr[x], z))
  BY <1>1, <1>2, <1>4 DEF Hit
<1> QED
  BY <1>1, <1>2, <1>3, <1>4, <1>5, Recounted, ZenonT(60)

\* The pointer that is being destroyed releases its object; the last release goes on with the member of the object.
LEMMA DestroyKeeps ==
  ASSUME IntrusiveInv, DestroyIntrusive
  PROVE  IntrusiveInv'
<1> DEFINE x == dropped
           y == iptr[x]
<1>1. /\ x \in Nodes /\ x \in Holders /\ y \in Pointees /\ NoNode \in Pointees
      /\ refs \in [Nodes -> Nat] /\ bare \in [Nodes -> Nat] /\ iMisuse = FALSE /\ iptr \in [Holders -> Pointees]
  BY Zenon DEF IntrusiveInv, Pointees, Holders, DestroyIntrusive
<1>2. refs[x] = HeldBy(iptr, x) + 1 + bare[x] /\ HeldBy(iptr, x) \in Nat
  BY <1>1, Repointed DEF IntrusiveInv, Hit
<1>3. CASE refs[x] > 1
  <2>1. /\ iptr' = iptr /\ refs' = [refs EXCEPT ![x] = @ - 1] /\ bare' = bare /\ dropped' = NoNode /\ iMisuse' = iMisuse
    BY <1>3, Zenon DEF DestroyIntrusive, FinishIntrusive, intrusive_ptr_release, Now
  <2>2. iptr' = [iptr EXCEPT ![x] = y]
    BY <1>1, <2>1
  <2>3. refs' \in [Nodes -> Nat] /\ \A z \in Nodes : refs'[z] = refs[z] - Hit(x, z)
    <3>1. refs' = Down(refs, x)
      BY <2>1, Zenon DEF Down
    <3>2. refs[x] \in Nat /\ refs[x] > 0
      BY <1>1, <1>3
    <3> QED
      BY <1>1, <3>1, <3>2, CountedDown
  <2>4. \A z \in Nodes :
          refs'[z] = refs[z] + (bare'[z] - bare[z]) + (Hit(dropped', z) - Hit(dropped, z)) + (Hit(y, z) - Hit(iptr[x], z))
    <3> TAKE z \in Nodes
    <3>1. Hit(NoNode, z) = 0
      BY IntrusiveAssumption, Zenon DEF Hit
    <3>2. /\ refs'[z] = refs[z] - Hit(x, z) /\ bare'[z] = bare[z] /\ dropped' = NoNode /\ x = dropped /\ y = iptr[x]
          /\ refs[z] \in Nat /\ bare[z] \in Nat
      BY <1>1, <2>1, <2>3
    <3> QED
      BY <3>1, <3>2, HitIs
  <2> QED
    BY <1>1, <2>1, <2>2, <2>3, <2>4, Recounted, ZenonT(60)
<1>4. CASE ~(refs[x] > 1)
  <2>1. /\ iptr' = [iptr EXCEPT ![x] = NoNode] /\ refs' = [refs EXCEPT ![x] = 0] /\ bare' = bare /\ dropped' = y
        /\ iMisuse' = (iMisuse \/ refs[x] = 0)
    BY <1>4, Zenon DEF DestroyIntrusive, FinishIntrusive, intrusive_ptr_release, Now
  <2>2. refs[x] = 1
    BY <1>1, <1>2, <1>4
  <2>3. y # x
    BY <1>1, <2>2, Referenced
  <2>4. iMisuse' = FALSE
    <3>1. ~(refs[x] = 0)
      BY <2>2
    <3> QED
      BY <1>1, <2>1, <3>1, Zenon
  <2>5. refs' \in [Nodes -> Nat] /\ \A z \in Nodes : refs'[z] = refs[z] - Hit(x, z)
    BY <1>1, <2>1, <2>2 DEF Hit
  <2>6. \A z \in Nodes :
          refs'[z] = refs[z] + (bare'[z] - bare[z]) + (Hit(dropped', z) - Hit(dropped, z)) + (Hit(NoNode, z) - Hit(iptr[x], z))
    BY <1>1, <2>1, <2>5, IntrusiveAssumption DEF Hit
  <2> QED
    BY <1>1, <2>1, <2>4, <2>5, <2>6, Recounted, Zenon
<1> QED
  BY <1>3, <1>4, Zenon

\* Each operation of intrusive_ptr keeps the counts.
LEMMA IntrusiveKeeps == IntrusiveInv /\ [IntrusiveNext]_ivars => IntrusiveInv'
<1> SUFFICES ASSUME IntrusiveInv, [IntrusiveNext]_ivars PROVE IntrusiveInv'
  OBVIOUS
<1>1. CASE UNCHANGED ivars
  BY <1>1, IntrusiveIdle
<1>2. ASSUME NEW x \in Nodes, NewNode(x) PROVE IntrusiveInv'
  BY <1>2, NewNodeKeeps, Zenon
<1>3. ASSUME NEW i \in Holders, Detach(i) PROVE IntrusiveInv'
  BY <1>3, DetachKeeps, Zenon
<1>4. ASSUME NEW i \in Holders, NEW j \in Holders, CopyAssignIntrusive(i, j) PROVE IntrusiveInv'
  <2>1. CASE i = j
    <3>1. UNCHANGED ivars
      BY <1>4, <2>1, Zenon DEF CopyAssignIntrusive, copy_assign_intrusive, FinishIntrusive, Now, ivars
    <3> QED
      BY <3>1, IntrusiveIdle
  <2>2. CASE i # j
    <3>1. dropped = NoNode /\ FinishIntrusive(SwapIn(Now, i, iptr[j], TRUE), bare)
      BY <1>4, <2>2, Zenon DEF CopyAssignIntrusive, copy_assign_intrusive, Now, Exists
    <3>2. iptr[j] \in Pointees /\ (iptr[j] \in Nodes => refs[iptr[j]] > 0)
      BY Referenced, Zenon DEF IntrusiveInv
    <3> QED
      BY <3>1, <3>2, SwapInKeeps, Zenon
  <2> QED
    BY <2>1, <2>2
<1>5. ASSUME NEW i \in Holders, NEW j \in Holders, MoveAssignIntrusive(i, j) PROVE IntrusiveInv'
  <2>1. CASE i = j
    <3>1. UNCHANGED ivars
      BY <1>5, <2>1, Zenon DEF MoveAssignIntrusive, move_assign_intrusive, FinishIntrusive, Now, ivars
    <3> QED
      BY <3>1, IntrusiveIdle
  <2>2. CASE i # j
    <3>1. dropped = NoNode /\ FinishIntrusive(SwapIn(detach(Now, j), i, iptr[j], FALSE), bare)
      BY <1>5, <2>2, Zenon DEF MoveAssignIntrusive, move_assign_intrusive, Now, Exists
    <3> QED
      BY <2>2, <3>1, MoveKeeps, Zenon
  <2> QED
    BY <2>1, <2>2
<1>6. ASSUME NEW i \in Holders, NEW x \in Pointees, NEW add_ref \in BOOLEAN, resetIntrusive(i, x, add_ref)
      PROVE  IntrusiveInv'
  <2>1. CASE add_ref = TRUE
    <3>1. dropped = NoNode /\ FinishIntrusive(SwapIn(Now, i, x, TRUE), bare) /\ (x \in Nodes => refs[x] > 0)
      BY <1>6, <2>1, IntrusiveAssumption, Zenon DEF resetIntrusive, Exists
    <3> QED
      BY <3>1, SwapInKeeps, Zenon
  <2>2. CASE add_ref = FALSE
    <3>1. dropped = NoNode /\ x # NoNode /\ FinishIntrusive(SwapIn(Now, i, x, FALSE), [bare EXCEPT ![x] = @ - 1]) /\ bare[x] > 0
      BY <1>6, <2>2, Zenon DEF resetIntrusive, Exists
    <3>2. x \in Nodes
      BY <3>1 DEF Pointees
    <3> QED
      BY <3>1, <3>2, TakeOverKeeps, Zenon
  <2> QED
    BY <2>1, <2>2, Zenon
<1>7. CASE DestroyIntrusive
  BY <1>7, DestroyKeeps, Zenon
<1>8. ASSUME NEW i \in Holders, NEW j \in Holders, SwapIntrusive(i, j) PROVE IntrusiveInv'
  BY <1>8, ExchangeKeeps, Zenon
<1> QED
  BY <1>1, <1>2, <1>3, <1>4, <1>5, <1>6, <1>7, <1>8, Zenon DEF IntrusiveNext, Pointees

\* However many pointers and objects there are, and however deep the objects hold each other: the count of an object is the
\* number of references to it, and no count of an object that is gone is changed.
THEOREM IntrusiveCountsAlwaysExact == IntrusiveSpec => []IntrusiveCountsExact
<1>1. IntrusiveInv => IntrusiveCountsExact
  BY DEF IntrusiveInv, IntrusiveCountsExact, HeldBy, Hit
<1> QED
  BY <1>1, IntrusiveStarts, IntrusiveKeeps, PTL DEF IntrusiveSpec

===============================================================================
