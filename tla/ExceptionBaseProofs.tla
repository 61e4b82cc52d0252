------------------------- MODULE ExceptionBaseProofs -------------------------
(***************************************************************************)
(* Proofs about the exceptions and their allocator, for any numbers of     *)
(* slots, heap blocks, exceptions, messages and threads, when calls do not *)
(* overlap (when they do the code is wrong: see the run exception_race).   *)
(*                                                                         *)
(* Where every buffer is decides everything.  It is free, in the heap or   *)
(* in the part of m_slots above m_current_slot; or used, by exceptions or  *)
(* by the temporary of a call; or in the hand of the call that allocates   *)
(* or frees it; and never in two of these.  A used buffer's counter is the *)
(* number of its users, except inside ++ and --.  That deallocate() finds  *)
(* m_current_slot above zero is a pigeonhole argument: were it zero, all   *)
(* the slots would be free, and the one in hand twice.                     *)
(***************************************************************************)
EXTENDS ExceptionBase, FiniteSetTheorems, TLAPS

\* Calls on exceptions do not overlap, whichever threads make them.
OneAtATime == \A t, u \in Threads : pc[t] # "idle" /\ pc[u] # "idle" => t = u

\* Whoever is in a call is t.
Only(t) == \A u \in Threads \ {t} : pc[u] = "idle"

Labels ==
  {"idle", "get", "read", "undo", "heap", "allocated", "thrown", "copy_inc", "assign_inc",
   "swap", "destroy", "decrement", "free", "store"}
Datum == Buffers \union {Literal, Dead}
Texts == Messages \union {None}
Entries == 0..(SlotCount - 1)

TypeOK ==
  /\ counter \in Int /\ slots \in [Entries -> Slots]
  /\ heap \subseteq HeapBlocks /\ wild = FALSE
  /\ pc \in [Threads -> Labels] /\ index \in [Threads -> Int] /\ buffer \in [Threads -> Buffers]
  /\ data \in [Objects -> Datum] /\ want \in [Objects -> Texts]
  /\ ref \in [Buffers -> Int] /\ text \in [Buffers -> Texts]
  /\ dst \in [Threads -> Objects] /\ src \in [Threads -> Objects] /\ msg \in [Threads -> Texts]
  /\ tmp \in [Threads -> Datum] /\ count \in [Threads -> Int]

\* A buffer that the call of t allocates or frees.
Holds(t, b) ==
  \/ pc[t] = "read" /\ slots[index[t]] = b
  \/ pc[t] \in {"allocated", "free", "store"} /\ buffer[t] = b

\* A buffer of the temporary of the call, counted; and one counted too late.
Keeps(t, b) == pc[t] \in {"swap", "destroy", "decrement"} /\ tmp[t] = b
Adds(t, b) == pc[t] = "copy_inc" /\ tmp[t] = b

\* The entry at m_current_slot is not yet written in deallocate().
Low(t) == IF pc[t] = "store" THEN counter + 1 ELSE counter

Pooled(t, b) == \E i \in Low(t)..(SlotCount - 1) : slots[i] = b
Free(t, b) == b \in heap \/ Pooled(t, b)
Used(t, b) == Users(b) # {} \/ Keeps(t, b)

PoolOK(t) ==
  /\ IF pc[t] = "undo" THEN counter = SlotCount + 1 ELSE counter \in 0..SlotCount
  /\ pc[t] = "read" => counter > 0 /\ index[t] = counter - 1
  /\ pc[t] = "store" => counter < SlotCount /\ index[t] = counter /\ buffer[t] \in Slots
  /\ \A i, j \in Low(t)..(SlotCount - 1) : slots[i] = slots[j] => i = j

PlaceOK(t) ==
  \A b \in Buffers :
    /\ Free(t, b) => ~Used(t, b) /\ ~Holds(t, b)
    /\ Used(t, b) => ~Holds(t, b)
    /\ Free(t, b) \/ Used(t, b) \/ Holds(t, b)

RefOK(t) ==
  \A b \in Buffers : Used(t, b) =>
    ref[b] = Cardinality(Users(b)) + (IF Keeps(t, b) THEN 1 ELSE 0) - (IF Adds(t, b) THEN 1 ELSE 0)

TextOK == \A o \in Objects : data[o] \in Buffers => text[data[o]] = want[o]

CallOK(t) ==
  /\ pc[t] \in {"get", "read", "undo", "heap", "allocated", "thrown"} => data[dst[t]] = Dead
  /\ pc[t] \in {"copy_inc", "assign_inc", "decrement"} => tmp[t] \in Buffers /\ count[t] = ref[tmp[t]]
  /\ pc[t] = "copy_inc" => data[dst[t]] = tmp[t]
  /\ pc[t] = "assign_inc" => data[src[t]] = tmp[t]
  /\ pc[t] \in {"assign_inc", "swap"} /\ tmp[t] \in Buffers => text[tmp[t]] = msg[t]
  /\ pc[t] \in {"assign_inc", "swap"} => tmp[t] # Dead /\ data[dst[t]] # Dead

InvOf(t) == PoolOK(t) /\ PlaceOK(t) /\ RefOK(t) /\ CallOK(t)

Inv == TypeOK /\ TextOK /\ \A t \in Threads : Only(t) => InvOf(t)

-----------------------------------------------------------------------------
(***************************************************************************)
(* Buffers and their users                                                 *)
(***************************************************************************)

\* The exceptions that designate a buffer, as a function of m_data.
Uses(f, b) == {o \in Objects : f[o] = b}

\* No exception but those of S begins or ceases to designate b.
SameBut(f, g, b, S) == \A o \in Objects \ S : f[o] = b <=> g[o] = b

\* Slots and heap blocks are different buffers; no buffer is the literal.
LEMMA BufferFacts ==
  /\ Slots \subseteq Buffers /\ HeapBlocks \subseteq Buffers /\ Slots \intersect HeapBlocks = {}
  /\ Literal \notin Buffers /\ Dead \notin Buffers /\ Literal # Dead
  /\ Buffers = Slots \union HeapBlocks
BY ExceptionAllocatorAssumption DEF Buffers, Slots, HeapBlocks, Literal, Dead

\* A buffer has a finite number of users.
LEMMA UsesFinite ==
  ASSUME NEW f, NEW b
  PROVE  /\ IsFiniteSet(Uses(f, b)) /\ Cardinality(Uses(f, b)) \in Nat
         /\ Cardinality(Uses(f, b)) = 0 <=> Uses(f, b) = {}
<1>1. IsFiniteSet(Uses(f, b))
  BY ExceptionBaseAssumption, FS_Subset, Zenon DEF Uses
<1> QED
  BY <1>1, FS_CardinalityType, FS_EmptySet, Zenon

\* One more exception designates the buffer.
LEMMA UsesGain ==
  ASSUME NEW f, NEW g, NEW b, NEW o \in Objects, f[o] # b, g[o] = b, SameBut(f, g, b, {o})
  PROVE  Uses(g, b) # {} /\ Cardinality(Uses(g, b)) = Cardinality(Uses(f, b)) + 1
<1>1. Uses(g, b) = Uses(f, b) \union {o} /\ o \notin Uses(f, b)
  BY Zenon DEF Uses, SameBut
<1>2. IsFiniteSet(Uses(f, b))
  BY UsesFinite, Zenon
<1>3. Cardinality(Uses(f, b) \union {o}) = Cardinality(Uses(f, b)) + 1
  BY <1>1, <1>2, FS_AddElement, Zenon
<1> QED
  BY <1>1, <1>3, Zenon

\* The same exceptions designate it.
LEMMA UsesSame ==
  ASSUME NEW f, NEW g, NEW b, SameBut(f, g, b, {})
  PROVE  Uses(g, b) = Uses(f, b)
BY Zenon DEF Uses, SameBut

\* One exception designates it instead of another one.
LEMMA UsesMove ==
  ASSUME NEW f, NEW g, NEW b, NEW o \in Objects, NEW p \in Objects,
         f[o] # b, g[o] = b, f[p] = b, g[p] # b, SameBut(f, g, b, {o, p})
  PROVE  /\ Uses(f, b) # {} /\ Uses(g, b) # {}
         /\ Cardinality(Uses(g, b)) = Cardinality(Uses(f, b))
<1> DEFINE h == [x \in Objects |-> IF x = o THEN g[x] ELSE f[x]]
<1>1. Uses(h, b) # {} /\ Cardinality(Uses(h, b)) = Cardinality(Uses(f, b)) + 1
  <2>1. h[o] = b /\ SameBut(f, h, b, {o})
    BY Zenon DEF SameBut
  <2> HIDE DEF h
  <2> QED
    BY <2>1, UsesGain, Zenon
<1>2. h[p] = b /\ SameBut(g, h, b, {p})
  BY Zenon DEF SameBut
<1>3. Cardinality(Uses(h, b)) = Cardinality(Uses(g, b)) + 1
  <2> HIDE DEF h
  <2> QED
    BY <1>2, UsesGain, Zenon
<1>4. Cardinality(Uses(f, b)) \in Nat /\ Cardinality(Uses(g, b)) \in Nat
  BY UsesFinite, Zenon
<1> QED
  BY <1>1, <1>3, <1>4 DEF Uses

-----------------------------------------------------------------------------
(***************************************************************************)
(* The steps of a call                                                     *)
(***************************************************************************)

\* The labels.
LEMMA LabelFacts ==
  /\ {"idle", "get", "read", "undo", "heap", "allocated", "thrown"} \subseteq Labels
  /\ {"copy_inc", "assign_inc", "swap", "destroy", "decrement", "free", "store"} \subseteq Labels
BY Zenon DEF Labels

\* A step that moves no buffer.
LEMMA Frame ==
  ASSUME NEW t \in Threads, InvOf(t), UNCHANGED <<pool, objects>>, Low(t)' = Low(t),
         \A b \in Buffers : /\ Keeps(t, b)' <=> Keeps(t, b)
                            /\ Adds(t, b)' <=> Adds(t, b)
                            /\ Holds(t, b)' <=> Holds(t, b)
  PROVE  PlaceOK(t)' /\ RefOK(t)' /\ (TextOK => TextOK')
<1>1. \A b \in Buffers : Users(b)' = Users(b) /\ (Used(t, b)' <=> Used(t, b)) /\ (Free(t, b)' <=> Free(t, b))
  BY Zenon DEF Used, Free, Pooled, pool, objects, Users
<1> QED
  BY <1>1, Zenon DEF InvOf, PlaceOK, RefOK, TextOK, objects

\* try_get_slot: the entry that was at m_current_slot is in hand, or there is
\* none.
LEMMA TryGetSlotStep ==
  ASSUME NEW t \in Threads, TypeOK, TextOK, InvOf(t), TryGetSlot(t), UNCHANGED <<objects, call>>
  PROVE  TypeOK' /\ TextOK' /\ InvOf(t)'
<1>1. TypeOK'
  BY LabelFacts DEF TypeOK, TryGetSlot, objects, call, Goto
<1>2. /\ pc[t] = "get" /\ index'[t] = counter /\ counter' = counter + 1 /\ slots' = slots /\ heap' = heap
      /\ pc'[t] = IF counter < SlotCount THEN "read" ELSE "undo"
      /\ counter \in 0..SlotCount /\ SlotCount \in Nat
  BY ExceptionAllocatorAssumption, Zenon DEF TypeOK, TryGetSlot, Goto, InvOf, PoolOK
<1>3. PoolOK(t)'
  BY <1>2 DEF InvOf, PoolOK, Low
<1>4. \A b \in Buffers : Users(b)' = Users(b) /\ ~Keeps(t, b) /\ ~Keeps(t, b)' /\ ~Adds(t, b) /\ ~Adds(t, b)'
  BY <1>2, Zenon DEF objects, Users, Keeps, Adds
<1>5. RefOK(t)'
  BY <1>4, Zenon DEF InvOf, RefOK, Used, objects
<1>6. PlaceOK(t)'
  <2>1. CASE counter < SlotCount
    <3>1. \A b \in Buffers : Holds(t, b)' <=> slots[counter] = b
      BY <1>2, <2>1, Zenon DEF Holds
    <3>2. counter \in Entries /\ slots[counter] \in Slots
      BY <1>2, <2>1 DEF TypeOK, Entries
    <3>3. \A b \in Buffers : Pooled(t, b) <=> Pooled(t, b)' \/ slots[counter] = b
      BY <1>2, <2>1 DEF Pooled, Low
    <3>4. \A b \in Buffers : slots[counter] = b => ~Pooled(t, b)'
      BY <1>2, <2>1 DEF Pooled, Low, InvOf, PoolOK
    <3>5. slots[counter] \notin heap /\ \A b \in Buffers : ~Holds(t, b)
      BY <1>2, <3>2, BufferFacts, Zenon DEF TypeOK, Holds
    <3> QED
      BY <1>2, <1>4, <3>1, <3>3, <3>4, <3>5, Zenon DEF InvOf, PlaceOK, Free, Used
  <2>2. CASE counter = SlotCount
    <3>1. \A b \in Buffers : ~Pooled(t, b) /\ ~Pooled(t, b)' /\ ~Holds(t, b) /\ ~Holds(t, b)'
      BY <1>2, <2>2 DEF Pooled, Low, Holds
    <3> QED
      BY <1>2, <1>4, <3>1, Zenon DEF InvOf, PlaceOK, Free, Used
  <2> QED
    BY <1>2, <2>1, <2>2
<1>7. CallOK(t)'
  BY <1>2, Zenon DEF InvOf, CallOK, objects, call
<1> QED
  BY <1>1, <1>3, <1>5, <1>6, <1>7, Zenon DEF TextOK, InvOf, objects

\* The slot is read.
LEMMA ReadSlotStep ==
  ASSUME NEW t \in Threads, TypeOK, TextOK, InvOf(t), ReadSlot(t), UNCHANGED <<objects, call>>
  PROVE  TypeOK' /\ TextOK' /\ InvOf(t)'
<1>1. /\ pc[t] = "read" /\ pc'[t] = "allocated" /\ UNCHANGED pool /\ index[t] \in Entries
      /\ buffer'[t] = slots[index[t]] /\ slots[index[t]] \in Buffers
  BY BufferFacts, ExceptionAllocatorAssumption DEF TypeOK, ReadSlot, Goto, InvOf, PoolOK, Entries
<1>2. TypeOK'
  BY <1>1, LabelFacts, Zenon DEF TypeOK, ReadSlot, objects, call, Goto, pool
<1>3. /\ Low(t)' = Low(t)
      /\ \A b \in Buffers : /\ Keeps(t, b)' <=> Keeps(t, b)
                            /\ Adds(t, b)' <=> Adds(t, b)
                            /\ Holds(t, b)' <=> Holds(t, b)
  BY <1>1, Zenon DEF Low, Keeps, Adds, Holds, pool
<1>4. PlaceOK(t)' /\ RefOK(t)' /\ TextOK'
  BY <1>1, <1>3, Frame, Zenon
<1>5. PoolOK(t)' /\ CallOK(t)'
  BY <1>1, <1>3, Zenon DEF InvOf, PoolOK, CallOK, pool, objects, call
<1> QED
  BY <1>2, <1>4, <1>5, Zenon DEF InvOf

\* The increment is taken back.
LEMMA UndoGetSlotStep ==
  ASSUME NEW t \in Threads, TypeOK, TextOK, InvOf(t), UndoGetSlot(t), UNCHANGED <<objects, call>>
  PROVE  TypeOK' /\ TextOK' /\ InvOf(t)'
<1>1. /\ pc[t] = "undo" /\ pc'[t] = "heap" /\ counter = SlotCount + 1 /\ counter' = counter - 1
      /\ UNCHANGED <<slots, heap, index, buffer>> /\ SlotCount \in Nat
  BY ExceptionAllocatorAssumption, Zenon DEF TypeOK, UndoGetSlot, Goto, InvOf, PoolOK
<1>2. TypeOK'
  BY <1>1, LabelFacts DEF TypeOK, UndoGetSlot, objects, call, Goto
<1>3. \A b \in Buffers :
        /\ Users(b)' = Users(b) /\ (Keeps(t, b)' <=> Keeps(t, b)) /\ (Adds(t, b)' <=> Adds(t, b))
        /\ Holds(t, b)' <=> Holds(t, b)
  BY <1>1, Zenon DEF objects, call, Users, Keeps, Adds, Holds
<1>4. \A b \in Buffers : (Free(t, b)' <=> Free(t, b)) /\ (Used(t, b)' <=> Used(t, b))
  BY <1>1, <1>3 DEF Free, Pooled, Low, Used
<1>5. PlaceOK(t)' /\ RefOK(t)'
  BY <1>3, <1>4, Zenon DEF InvOf, PlaceOK, RefOK, objects
<1>6. PoolOK(t)' /\ CallOK(t)'
  BY <1>1 DEF InvOf, PoolOK, CallOK, Low, objects, call
<1> QED
  BY <1>2, <1>5, <1>6, Zenon DEF TextOK, InvOf, objects

\* A block of the heap is in hand.
LEMMA AllocateFromHeapStep ==
  ASSUME NEW t \in Threads, TypeOK, TextOK, InvOf(t), AllocateFromHeap(t), UNCHANGED <<objects, call>>
  PROVE  TypeOK' /\ TextOK' /\ InvOf(t)'
<1>1. PICK x \in heap : heap' = heap \ {x} /\ buffer' = [buffer EXCEPT ![t] = x]
  BY Zenon DEF AllocateFromHeap
<1>2. /\ pc[t] = "heap" /\ pc'[t] = "allocated" /\ UNCHANGED <<counter, slots, index>>
      /\ buffer'[t] = x /\ x \in HeapBlocks /\ x \in Buffers
  BY <1>1, BufferFacts, Zenon DEF TypeOK, AllocateFromHeap, Goto
<1>3. TypeOK'
  BY <1>1, <1>2, LabelFacts, Zenon DEF TypeOK, AllocateFromHeap, objects, call, Goto
<1>4. \A b \in Buffers :
        /\ Users(b)' = Users(b) /\ (Keeps(t, b)' <=> Keeps(t, b)) /\ (Adds(t, b)' <=> Adds(t, b))
        /\ ~Holds(t, b) /\ (Holds(t, b)' <=> b = x)
        /\ Pooled(t, b)' <=> Pooled(t, b)
  BY <1>2, Zenon DEF objects, call, Users, Keeps, Adds, Holds, Pooled, Low
<1>5. ~Pooled(t, x)
  <2>1. \A i \in Low(t)..(SlotCount - 1) : slots[i] \in Slots
    BY <1>2, ExceptionAllocatorAssumption DEF Low, InvOf, PoolOK, TypeOK, Entries
  <2> QED
    BY <1>2, <2>1, BufferFacts, Zenon DEF Pooled
<1>6. PlaceOK(t)' /\ RefOK(t)'
  BY <1>1, <1>2, <1>4, <1>5, Zenon DEF InvOf, PlaceOK, RefOK, Free, Used, objects
<1>7. PoolOK(t)' /\ CallOK(t)'
  BY <1>2, Zenon DEF InvOf, PoolOK, CallOK, Low, objects, call
<1> QED
  BY <1>3, <1>6, <1>7, Zenon DEF TextOK, InvOf, objects

\* There is no memory, and no buffer in hand; or the constructor ends with
\* that exception.
LEMMA ThrowsStep ==
  ASSUME NEW t \in Threads, TypeOK, TextOK, InvOf(t),
         (AllocateThrows(t) /\ UNCHANGED <<objects, call>>) \/ ConstructThrows(t)
  PROVE  TypeOK' /\ TextOK' /\ InvOf(t)'
<1>1. /\ pc[t] \in {"heap", "thrown"} /\ pc'[t] \in {"thrown", "idle"}
      /\ UNCHANGED <<pool, index, buffer, objects, call>>
  BY Zenon DEF TypeOK, AllocateThrows, ConstructThrows, Goto
<1>2. TypeOK'
  BY LabelFacts, Zenon DEF TypeOK, AllocateThrows, ConstructThrows, objects, call, Goto, pool
<1>3. /\ Low(t)' = Low(t)
      /\ \A b \in Buffers : /\ Keeps(t, b)' <=> Keeps(t, b)
                            /\ Adds(t, b)' <=> Adds(t, b)
                            /\ Holds(t, b)' <=> Holds(t, b)
  BY <1>1, Zenon DEF Low, Keeps, Adds, Holds, pool
<1>4. PlaceOK(t)' /\ RefOK(t)' /\ TextOK'
  BY <1>1, <1>3, Frame, Zenon
<1>5. PoolOK(t)' /\ CallOK(t)'
  BY <1>1, <1>3, Zenon DEF InvOf, PoolOK, CallOK, pool, objects, call
<1> QED
  BY <1>2, <1>4, <1>5, Zenon DEF InvOf

\* A slot that is in hand is not free, so that m_current_slot is not zero:
\* otherwise m_slots would have the others only.
LEMMA SlotInHand ==
  ASSUME NEW t \in Threads, TypeOK, InvOf(t), pc[t] = "free", buffer[t] \in Slots
  PROVE  counter > 0
<1> SUFFICES ASSUME counter = 0 PROVE FALSE
  BY DEF InvOf, PoolOK
<1> DEFINE others == Slots \ {buffer[t]}
<1>1. Low(t)..(SlotCount - 1) = Entries
  BY Zenon DEF Low, Entries
<1>2. \A i \in Entries : slots[i] # buffer[t]
  BY <1>1, BufferFacts, Zenon DEF InvOf, PlaceOK, Free, Pooled, Holds
<1>3. slots \in [Entries -> others]
  BY <1>2, Zenon DEF TypeOK
<1>4. /\ IsFiniteSet(Entries) /\ Cardinality(Entries) = SlotCount
      /\ IsFiniteSet(Slots) /\ Cardinality(Slots) = SlotCount
  <2>1. 0 \in Int /\ 1 \in Int /\ SlotCount \in Int /\ SlotCount - 1 \in Int /\ SlotCount > 0
    BY ExceptionAllocatorAssumption
  <2>2. /\ IsFiniteSet(0..(SlotCount - 1))
        /\ Cardinality(0..(SlotCount - 1)) = IF 0 > SlotCount - 1 THEN 0 ELSE SlotCount - 1 - 0 + 1
    BY <2>1, FS_Interval, Zenon
  <2>3. /\ IsFiniteSet(1..SlotCount)
        /\ Cardinality(1..SlotCount) = IF 1 > SlotCount THEN 0 ELSE SlotCount - 1 + 1
    BY <2>1, FS_Interval, Zenon
  <2> QED
    BY <2>1, <2>2, <2>3 DEF Entries, Slots
<1>5. IsFiniteSet(others) /\ Cardinality(others) = SlotCount - 1
  BY <1>4, FS_RemoveElement, Zenon
<1>6. Cardinality(others) < Cardinality(Entries)
  BY <1>4, <1>5, ExceptionAllocatorAssumption
<1>7. \E i, j \in Entries : i # j /\ slots[i] = slots[j]
  <2> HIDE DEF others
  <2> QED
    BY <1>3, <1>4, <1>5, <1>6, FS_PigeonHole, ZenonT(30)
<1> QED
  BY <1>1, <1>7, ZenonT(60) DEF InvOf, PoolOK

\* deallocate() takes an entry of m_slots for the slot it has in hand.
LEMMA ReleaseSlotStep ==
  ASSUME NEW t \in Threads, TypeOK, TextOK, InvOf(t), ReleaseSlot(t), UNCHANGED <<objects, call>>
  PROVE  TypeOK' /\ TextOK' /\ InvOf(t)'
<1>1. /\ pc[t] = "free" /\ pc'[t] = "store" /\ buffer[t] \in Slots /\ counter' = counter - 1
      /\ index'[t] = counter - 1 /\ UNCHANGED <<slots, heap, buffer>> /\ SlotCount \in Nat
      /\ counter \in 1..SlotCount
  <2>1. pc[t] = "free" /\ buffer[t] \in Slots
    BY Zenon DEF ReleaseSlot
  <2>2. counter > 0
    BY <2>1, SlotInHand, Zenon
  <2> QED
    BY <2>1, <2>2, ExceptionAllocatorAssumption DEF TypeOK, ReleaseSlot, Goto, InvOf, PoolOK
<1>2. TypeOK'
  BY LabelFacts DEF TypeOK, ReleaseSlot, objects, call, Goto
<1>3. /\ Low(t)' = Low(t)
      /\ \A b \in Buffers :
           /\ Users(b)' = Users(b) /\ (Keeps(t, b)' <=> Keeps(t, b)) /\ (Adds(t, b)' <=> Adds(t, b))
           /\ Holds(t, b)' <=> Holds(t, b)
  BY <1>1 DEF objects, call, Users, Keeps, Adds, Holds, Low
<1>4. \A b \in Buffers : (Free(t, b)' <=> Free(t, b)) /\ (Used(t, b)' <=> Used(t, b))
  BY <1>1, <1>3, Zenon DEF Free, Pooled, Used
<1>5. PlaceOK(t)' /\ RefOK(t)'
  BY <1>3, <1>4, Zenon DEF InvOf, PlaceOK, RefOK, objects
<1>6. PoolOK(t)' /\ CallOK(t)'
  BY <1>1, <1>3 DEF InvOf, PoolOK, CallOK, objects, call
<1> QED
  BY <1>2, <1>5, <1>6, Zenon DEF TextOK, InvOf, objects

\* The slot is stored in that entry, which is in m_slots.
LEMMA StoreSlotStep ==
  ASSUME NEW t \in Threads, TypeOK, TextOK, InvOf(t), StoreSlot(t), UNCHANGED <<objects, call>>
  PROVE  TypeOK' /\ TextOK' /\ InvOf(t)'
<1>1. /\ pc[t] = "store" /\ pc'[t] = "idle" /\ index[t] = counter /\ counter \in Entries /\ buffer[t] \in Slots
      /\ slots' = [slots EXCEPT ![counter] = buffer[t]] /\ UNCHANGED <<counter, heap, wild, index, buffer>>
      /\ SlotCount \in Nat
  BY ExceptionAllocatorAssumption DEF TypeOK, StoreSlot, Goto, InvOf, PoolOK, Entries
<1>2. TypeOK'
  BY <1>1, LabelFacts, Zenon DEF TypeOK, StoreSlot, objects, call, Goto
<1>3. \A b \in Buffers :
        /\ Users(b)' = Users(b) /\ (Keeps(t, b)' <=> Keeps(t, b)) /\ (Adds(t, b)' <=> Adds(t, b))
        /\ ~Holds(t, b)' /\ (Holds(t, b) <=> b = buffer[t])
  BY <1>1, Zenon DEF objects, call, Users, Keeps, Adds, Holds
<1>4. slots'[counter] = buffer[t] /\ \A i \in (counter + 1)..(SlotCount - 1) : slots'[i] = slots[i]
  BY <1>1 DEF TypeOK, Entries
<1>5. Low(t) = counter + 1 /\ Low(t)' = counter
  BY <1>1, Zenon DEF Low
<1>6. \A b \in Buffers : Pooled(t, b)' <=> Pooled(t, b) \/ b = buffer[t]
  BY <1>1, <1>4, <1>5 DEF Pooled, Entries
<1>7. PlaceOK(t)' /\ RefOK(t)'
  BY <1>1, <1>3, <1>6, Zenon DEF InvOf, PlaceOK, RefOK, Free, Used, objects
<1>8. ~Pooled(t, buffer[t])
  BY <1>1, <1>3, BufferFacts, Zenon DEF InvOf, PlaceOK, Free
<1>9. \A i, j \in Low(t)'..(SlotCount - 1) : slots'[i] = slots'[j] => i = j
  BY <1>1, <1>4, <1>5, <1>8 DEF Pooled, InvOf, PoolOK, Entries
<1>10. PoolOK(t)' /\ CallOK(t)'
  BY <1>1, <1>9, Zenon DEF InvOf, PoolOK, CallOK
<1> QED
  BY <1>2, <1>7, <1>10, Zenon DEF TextOK, InvOf, objects

\* A block goes back to the heap.
LEMMA FreeToHeapStep ==
  ASSUME NEW t \in Threads, TypeOK, TextOK, InvOf(t), FreeToHeap(t), UNCHANGED <<objects, call>>
  PROVE  TypeOK' /\ TextOK' /\ InvOf(t)'
<1>1. /\ pc[t] = "free" /\ pc'[t] = "idle" /\ buffer[t] \in HeapBlocks /\ heap' = heap \union {buffer[t]}
      /\ UNCHANGED <<counter, slots, wild, index, buffer>>
  BY BufferFacts, Zenon DEF TypeOK, FreeToHeap, Goto
<1>2. TypeOK'
  BY <1>1, LabelFacts, Zenon DEF TypeOK, FreeToHeap, objects, call, Goto
<1>3. \A b \in Buffers :
        /\ Users(b)' = Users(b) /\ (Keeps(t, b)' <=> Keeps(t, b)) /\ (Adds(t, b)' <=> Adds(t, b))
        /\ ~Holds(t, b)' /\ (Holds(t, b) <=> b = buffer[t])
        /\ Pooled(t, b)' <=> Pooled(t, b)
  BY <1>1, Zenon DEF objects, call, Users, Keeps, Adds, Holds, Pooled, Low
<1>4. PlaceOK(t)' /\ RefOK(t)'
  BY <1>1, <1>3, Zenon DEF InvOf, PlaceOK, RefOK, Free, Used, objects
<1>5. PoolOK(t)' /\ CallOK(t)'
  BY <1>1, Zenon DEF InvOf, PoolOK, CallOK, Low
<1> QED
  BY <1>2, <1>4, <1>5, Zenon DEF TextOK, InvOf, objects

\* make_shared_data: the buffer that was in hand gets its first user.
LEMMA MakeSharedDataStep ==
  ASSUME NEW t \in Threads, TypeOK, TextOK, InvOf(t), MakeSharedData(t)
  PROVE  TypeOK' /\ TextOK' /\ InvOf(t)'
<1>a. PICK x \in Buffers, o \in Objects : x = buffer[t] /\ o = dst[t]
  BY Zenon DEF TypeOK
<1>1. /\ pc[t] = "allocated" /\ pc'[t] = "idle" /\ UNCHANGED <<pool, index, buffer, call>>
      /\ x \in Buffers /\ o \in Objects /\ data[o] = Dead /\ x # Dead
      /\ data'[o] = x /\ \A q \in Objects \ {o} : data'[q] = data[q]
      /\ want'[o] = msg[t] /\ \A q \in Objects \ {o} : want'[q] = want[q]
      /\ ref'[x] = 1 /\ \A b \in Buffers \ {x} : ref'[b] = ref[b]
      /\ text'[x] = msg[t] /\ \A b \in Buffers \ {x} : text'[b] = text[b]
  BY <1>a, BufferFacts, Zenon DEF TypeOK, MakeSharedData, Goto, InvOf, CallOK
<1>2. TypeOK'
  <2>1. x \in Datum /\ msg[t] \in Texts
    BY <1>1, Zenon DEF Datum, TypeOK
  <2> QED
    BY <1>a, <1>1, <2>1, LabelFacts DEF TypeOK, MakeSharedData, Goto, pool, call
<1>3. \A b \in Buffers :
        /\ Users(b) = Uses(data, b) /\ Users(b)' = Uses(data', b)
        /\ ~Keeps(t, b) /\ ~Keeps(t, b)' /\ ~Adds(t, b) /\ ~Adds(t, b)'
        /\ (Holds(t, b) <=> b = x) /\ ~Holds(t, b)'
        /\ Free(t, b)' <=> Free(t, b)
  BY <1>a, <1>1, Zenon DEF Users, Uses, Keeps, Adds, Holds, Free, Pooled, Low, pool
<1>4. Users(x) = {} /\ ~Free(t, x)
  BY <1>1, <1>3, Zenon DEF InvOf, PlaceOK, Used
<1>5. Users(x)' # {} /\ Cardinality(Users(x)') = 1
  <2>1. Uses(data', x) # {} /\ Cardinality(Uses(data', x)) = Cardinality(Uses(data, x)) + 1
    <3>1. /\ o \in Objects /\ data[o] # x /\ data'[o] = x
          /\ SameBut(data, data', x, {o})
      BY <1>1, Zenon DEF SameBut
    <3> QED
      BY <3>1, UsesGain
  <2>2. Cardinality(Uses(data, x)) = 0
    BY <1>1, <1>3, <1>4, UsesFinite
  <2> QED
    BY <1>1, <1>3, <2>1, <2>2
<1>6. \A b \in Buffers \ {x} : Users(b)' = Users(b)
  <2>1. \A b \in Buffers \ {x} : Uses(data', b) = Uses(data, b)
    <3>1. \A b \in Buffers \ {x} : SameBut(data, data', b, {})
      BY <1>1, BufferFacts, Zenon DEF SameBut
    <3> QED
      BY <3>1, UsesSame, Zenon
  <2> QED
    BY <1>3, <2>1, Zenon
<1>7. PlaceOK(t)'
  <2>1. \A b \in Buffers : Used(t, b)' <=> (Used(t, b) \/ b = x)
    BY <1>3, <1>5, <1>6, Zenon DEF Used
  <2> QED
    BY <1>1, <1>3, <1>4, <2>1, Zenon DEF InvOf, PlaceOK
<1>8. RefOK(t)'
  <2>1. ASSUME NEW b \in Buffers \ {x}, Used(t, b)'
        PROVE  ref'[b] = Cardinality(Users(b)') + (IF Keeps(t, b)' THEN 1 ELSE 0) - (IF Adds(t, b)' THEN 1 ELSE 0)
    <3>1. /\ Users(b)' = Users(b) /\ ~Keeps(t, b) /\ ~Keeps(t, b)' /\ ~Adds(t, b) /\ ~Adds(t, b)' /\ ref'[b] = ref[b]
      BY <1>1, <1>3, <1>6, Zenon
    <3>2. Used(t, b)
      BY <2>1, <3>1, Zenon DEF Used
    <3> QED
      BY <3>1, <3>2, Zenon DEF InvOf, RefOK
  <2>2. ref'[x] = Cardinality(Users(x)') + (IF Keeps(t, x)' THEN 1 ELSE 0) - (IF Adds(t, x)' THEN 1 ELSE 0)
    <3>1. ref'[x] = 1 /\ ~Keeps(t, x)' /\ ~Adds(t, x)'
      BY <1>1, <1>3, Zenon
    <3> QED
      BY <1>5, <3>1
  <2> QED
    BY <2>1, <2>2, Zenon DEF RefOK
<1>9. TextOK'
  <2>1. \A q \in Objects : data[q] # x
    BY <1>4, Zenon DEF Users
  <2> QED
    BY <1>1, <2>1 DEF TextOK
<1>10. PoolOK(t)' /\ CallOK(t)'
  BY <1>1, ZenonT(30) DEF InvOf, PoolOK, CallOK, Low, pool
<1> QED
  BY <1>2, <1>7, <1>8, <1>9, <1>10, ZenonT(60) DEF InvOf

\* The store of ++: the new user is counted.
LEMMA IncrementStoreStep ==
  ASSUME NEW t \in Threads, TypeOK, TextOK, InvOf(t), IncrementStore(t)
  PROVE  TypeOK' /\ TextOK' /\ InvOf(t)'
<1>a. PICK x : x = tmp[t]
  BY Zenon
<1>1. /\ pc[t] \in {"copy_inc", "assign_inc"} /\ pc'[t] = (IF pc[t] = "copy_inc" THEN "idle" ELSE "swap")
      /\ UNCHANGED <<pool, index, buffer, data, text, want, call>>
      /\ x \in Buffers /\ count[t] = ref[x] /\ ref'[x] = ref[x] + 1 /\ ref[x] \in Int
      /\ \A b \in Buffers \ {x} : ref'[b] = ref[b]
      /\ Users(x) # {}
  BY <1>a, Zenon DEF TypeOK, IncrementStore, Goto, InvOf, CallOK, Users
<1>2. TypeOK'
  BY <1>a, <1>1, LabelFacts DEF TypeOK, IncrementStore, Goto, pool, call
<1>3. \A b \in Buffers :
        /\ Users(b)' = Users(b) /\ ~Keeps(t, b) /\ ~Adds(t, b)' /\ ~Holds(t, b) /\ ~Holds(t, b)'
        /\ Keeps(t, b)' <=> pc[t] = "assign_inc" /\ b = x
        /\ Adds(t, b) <=> pc[t] = "copy_inc" /\ b = x
        /\ Free(t, b)' <=> Free(t, b)
  BY <1>a, <1>1, Zenon DEF Users, Keeps, Adds, Holds, Free, Pooled, Low, pool, call
<1>4. \A b \in Buffers : Used(t, b)' <=> Used(t, b)
  BY <1>1, <1>3, Zenon DEF Used
<1>5. PlaceOK(t)'
  BY <1>3, <1>4, Zenon DEF InvOf, PlaceOK
<1>6. RefOK(t)'
  <2>1. \A b \in Buffers : Cardinality(Users(b)) \in Nat
    BY UsesFinite, Zenon DEF Users, Uses
  <2> QED
    BY <1>1, <1>3, <1>4, <2>1 DEF InvOf, RefOK
<1>7. PoolOK(t)' /\ CallOK(t)'
  BY <1>1, Zenon DEF InvOf, PoolOK, CallOK, Low, pool, call
<1> QED
  BY <1>1, <1>2, <1>5, <1>6, <1>7, Zenon DEF InvOf, TextOK

\* swap: the object and the temporary exchange their buffers.
LEMMA SwapStep ==
  ASSUME NEW t \in Threads, TypeOK, TextOK, InvOf(t), Swap(t)
  PROVE  TypeOK' /\ TextOK' /\ InvOf(t)'
<1>a. PICK o \in Objects, x \in Datum, y \in Datum : o = dst[t] /\ x = tmp[t] /\ y = data[o]
  BY Zenon DEF TypeOK
<1>1. /\ pc[t] = "swap" /\ pc'[t] = "destroy" /\ tmp'[t] = y
      /\ UNCHANGED <<pool, index, buffer, ref, text, dst, src, msg, count>>
      /\ data'[o] = x /\ \A q \in Objects \ {o} : data'[q] = data[q]
      /\ want'[o] = msg[t] /\ \A q \in Objects \ {o} : want'[q] = want[q]
  BY <1>a, Zenon DEF TypeOK, Swap, Goto
<1>2. TypeOK'
  <2>1. msg[t] \in Texts
    BY Zenon DEF TypeOK
  <2> QED
    BY <1>a, <2>1, LabelFacts, Zenon DEF TypeOK, Swap, Goto, pool
<1>3. \A b \in Buffers :
        /\ Users(b) = Uses(data, b) /\ Users(b)' = Uses(data', b)
        /\ (Keeps(t, b) <=> b = x) /\ (Keeps(t, b)' <=> b = y) /\ ~Adds(t, b) /\ ~Adds(t, b)'
        /\ ~Holds(t, b) /\ ~Holds(t, b)' /\ (Free(t, b)' <=> Free(t, b))
  BY <1>a, <1>1, Zenon DEF Users, Uses, Keeps, Adds, Holds, Free, Pooled, Low, pool
<1>4. \A b \in Buffers :
        /\ Used(t, b)' <=> Used(t, b)
        /\ Cardinality(Users(b)') + (IF b = y THEN 1 ELSE 0) = Cardinality(Users(b)) + (IF b = x THEN 1 ELSE 0)
  <2> TAKE b \in Buffers
  <2>0. Cardinality(Uses(data, b)) \in Nat /\ Cardinality(Uses(data', b)) \in Nat
    BY UsesFinite, Zenon
  <2>1. CASE (b = x /\ b = y) \/ (b # x /\ b # y)
    <3>1. SameBut(data, data', b, {})
      BY <1>a, <1>1, <2>1, Zenon DEF SameBut
    <3>2. Uses(data', b) = Uses(data, b)
      BY <3>1, UsesSame, Zenon
    <3> QED
      BY <1>3, <2>0, <2>1, <3>2, Zenon DEF Used
  <2>2. CASE b = x /\ b # y
    <3>1. data[o] # b /\ data'[o] = b /\ SameBut(data, data', b, {o})
      BY <1>a, <1>1, <2>2, Zenon DEF SameBut
    <3>2. Uses(data', b) # {} /\ Cardinality(Uses(data', b)) = Cardinality(Uses(data, b)) + 1
      BY <3>1, UsesGain
    <3> QED
      BY <1>3, <2>0, <2>2, <3>2 DEF Used
  <2>3. CASE b # x /\ b = y
    <3>1. data'[o] # b /\ data[o] = b /\ SameBut(data', data, b, {o})
      BY <1>a, <1>1, <2>3, Zenon DEF SameBut
    <3>2. Uses(data, b) # {} /\ Cardinality(Uses(data, b)) = Cardinality(Uses(data', b)) + 1
      BY <3>1, UsesGain
    <3> QED
      BY <1>3, <2>0, <2>3, <3>2 DEF Used
  <2> QED
    BY <2>1, <2>2, <2>3, Zenon
<1>5. PlaceOK(t)'
  BY <1>3, <1>4, ZenonT(30) DEF InvOf, PlaceOK
<1>6. RefOK(t)'
  <2>1. \A b \in Buffers : Cardinality(Users(b)) \in Nat /\ Cardinality(Users(b)') \in Nat
    BY <1>3, UsesFinite, Zenon
  <2> QED
    BY <1>1, <1>3, <1>4, <2>1 DEF InvOf, RefOK
<1>7. TextOK'
  BY <1>a, <1>1, Zenon DEF InvOf, CallOK, TextOK
<1>8. PoolOK(t)' /\ CallOK(t)'
  BY <1>1, Zenon DEF InvOf, PoolOK, CallOK, Low, pool
<1> QED
  BY <1>2, <1>5, <1>6, <1>7, <1>8, Zenon DEF InvOf

\* ~exception_base: the counter is loaded, or there is none.
LEMMA DecrementLoadStep ==
  ASSUME NEW t \in Threads, TypeOK, TextOK, InvOf(t), DecrementLoad(t)
  PROVE  TypeOK' /\ TextOK' /\ InvOf(t)'
<1>1. TypeOK'
  BY LabelFacts, ZenonT(30) DEF TypeOK, DecrementLoad, Shared, pool, objects, Goto
<1>2. /\ pc[t] = "destroy" /\ pc'[t] \in {"decrement", "idle"} /\ UNCHANGED <<pool, index, buffer, objects, tmp>>
      /\ pc'[t] = "decrement" <=> tmp[t] \in Buffers
      /\ pc'[t] = "decrement" => count'[t] = ref[tmp[t]]
  BY Zenon DEF TypeOK, DecrementLoad, Shared, Goto
<1>3. /\ Low(t)' = Low(t)
      /\ \A b \in Buffers : /\ Keeps(t, b)' <=> Keeps(t, b)
                            /\ Adds(t, b)' <=> Adds(t, b)
                            /\ Holds(t, b)' <=> Holds(t, b)
  BY <1>2, Zenon DEF Low, Keeps, Adds, Holds, pool
<1>4. PlaceOK(t)' /\ RefOK(t)' /\ TextOK'
  BY <1>2, <1>3, Frame, Zenon
<1>5. PoolOK(t)' /\ CallOK(t)'
  BY <1>2, <1>3, Zenon DEF InvOf, PoolOK, CallOK, pool, objects
<1> QED
  BY <1>1, <1>4, <1>5, Zenon DEF InvOf

\* The store of --: the last user has the buffer in hand.
LEMMA DecrementStoreStep ==
  ASSUME NEW t \in Threads, TypeOK, TextOK, InvOf(t), DecrementStore(t)
  PROVE  TypeOK' /\ TextOK' /\ InvOf(t)'
<1>a. PICK x \in Buffers : x = tmp[t]
  BY Zenon DEF DecrementStore, InvOf, CallOK
<1>1. /\ pc[t] = "decrement" /\ pc'[t] = (IF ref[x] - 1 = 0 THEN "free" ELSE "idle")
      /\ UNCHANGED <<pool, index, data, text, want, call>> /\ buffer'[t] = x
      /\ ref'[x] = ref[x] - 1 /\ ref[x] \in Int
      /\ \A b \in Buffers \ {x} : ref'[b] = ref[b]
  BY <1>a, Zenon DEF TypeOK, DecrementStore, Goto, InvOf, CallOK
<1>2. TypeOK'
  BY <1>a, LabelFacts DEF TypeOK, DecrementStore, Goto, pool, call
<1>3. \A b \in Buffers :
        /\ Users(b)' = Users(b) /\ (Keeps(t, b) <=> b = x) /\ ~Keeps(t, b)' /\ ~Adds(t, b) /\ ~Adds(t, b)'
        /\ ~Holds(t, b) /\ (Holds(t, b)' <=> pc'[t] = "free" /\ b = x)
        /\ Free(t, b)' <=> Free(t, b)
  BY <1>a, <1>1, Zenon DEF Users, Keeps, Adds, Holds, Free, Pooled, Low, pool, call
<1>4. \A b \in Buffers : Cardinality(Users(b)) \in Nat /\ (Cardinality(Users(b)) = 0 <=> Users(b) = {})
  BY UsesFinite, Zenon DEF Users, Uses
<1>5. ref[x] = Cardinality(Users(x)) + 1
  BY <1>3, <1>4 DEF InvOf, RefOK, Used
<1>6. pc'[t] = "free" <=> Users(x) = {}
  BY <1>1, <1>4, <1>5
<1>7. PlaceOK(t)'
  BY <1>3, <1>6, Zenon DEF InvOf, PlaceOK, Used
<1>8. RefOK(t)'
  BY <1>1, <1>3, <1>4, <1>5 DEF InvOf, RefOK, Used
<1>9. PoolOK(t)' /\ CallOK(t)'
  BY <1>1, Zenon DEF InvOf, PoolOK, CallOK, Low, pool
<1> QED
  BY <1>1, <1>2, <1>7, <1>8, <1>9, Zenon DEF InvOf, TextOK

-----------------------------------------------------------------------------
(***************************************************************************)
(* The beginnings of calls                                                 *)
(***************************************************************************)

\* exception_base(msg, length) has nothing in hand at first.
LEMMA ConstructMessageStep ==
  ASSUME NEW t \in Threads, TypeOK, TextOK, InvOf(t),
         NEW o \in Objects, NEW m \in Messages, NEW fits \in BOOLEAN, ConstructMessage(t, o, m, fits)
  PROVE  TypeOK' /\ TextOK' /\ InvOf(t)'
<1>1. /\ pc[t] = "idle" /\ pc'[t] \in {"get", "heap"} /\ data[o] = Dead /\ dst'[t] = o
      /\ UNCHANGED <<pool, index, buffer, objects, tmp, count>>
  BY Zenon DEF TypeOK, ConstructMessage, Start, Goto
<1>2. TypeOK'
  <2>1. m \in Texts
    BY Zenon DEF Texts
  <2> QED
    BY <2>1, LabelFacts, Zenon DEF TypeOK, ConstructMessage, Start, Goto, pool, objects
<1>3. /\ Low(t)' = Low(t)
      /\ \A b \in Buffers : /\ Keeps(t, b)' <=> Keeps(t, b)
                            /\ Adds(t, b)' <=> Adds(t, b)
                            /\ Holds(t, b)' <=> Holds(t, b)
  BY <1>1, Zenon DEF Low, Keeps, Adds, Holds, pool
<1>4. PlaceOK(t)' /\ RefOK(t)' /\ TextOK'
  BY <1>1, <1>3, Frame, Zenon
<1>5. PoolOK(t)' /\ CallOK(t)'
  BY <1>1, <1>3, Zenon DEF InvOf, PoolOK, CallOK, pool, objects
<1> QED
  BY <1>2, <1>4, <1>5, Zenon DEF InvOf

\* The copy assignment: the temporary is not counted yet.
LEMMA AssignCopyStep ==
  ASSUME NEW t \in Threads, TypeOK, TextOK, InvOf(t), NEW o \in Objects, NEW p \in Objects, AssignCopy(t, o, p)
  PROVE  TypeOK' /\ TextOK' /\ InvOf(t)'
<1>a. PICK x \in Datum : x = data[p]
  BY Zenon DEF TypeOK
<1>1. /\ pc[t] = "idle" /\ pc'[t] = (IF x \in Buffers THEN "assign_inc" ELSE "swap")
      /\ data[o] # Dead /\ x # Dead /\ dst'[t] = o /\ src'[t] = p /\ tmp'[t] = x /\ msg'[t] = want[p]
      /\ x \in Buffers => count'[t] = ref[x]
      /\ UNCHANGED <<pool, index, buffer, objects>>
  BY <1>a, Zenon DEF TypeOK, AssignCopy, Start, Goto, Shared
<1>2. TypeOK'
  BY <1>a, LabelFacts, ZenonT(30) DEF TypeOK, AssignCopy, Start, Goto, Shared, pool, objects
<1>3. /\ Low(t)' = Low(t)
      /\ \A b \in Buffers : /\ Keeps(t, b)' <=> Keeps(t, b)
                            /\ Adds(t, b)' <=> Adds(t, b)
                            /\ Holds(t, b)' <=> Holds(t, b)
  BY <1>1, Zenon DEF Low, Keeps, Adds, Holds, pool
<1>4. PlaceOK(t)' /\ RefOK(t)' /\ TextOK'
  BY <1>1, <1>3, Frame, Zenon
<1>5. PoolOK(t)' /\ CallOK(t)'
  BY <1>a, <1>1, <1>3 DEF InvOf, PoolOK, CallOK, TextOK, pool, objects
<1> QED
  BY <1>2, <1>4, <1>5, Zenon DEF InvOf

\* The copy constructor: the new object is not counted yet.
LEMMA CopyConstructStep ==
  ASSUME NEW t \in Threads, TypeOK, TextOK, InvOf(t), NEW o \in Objects, NEW p \in Objects,
         CopyConstruct(t, o, p), data[p] \in Buffers
  PROVE  TypeOK' /\ TextOK' /\ InvOf(t)'
<1>a. PICK x \in Buffers : x = data[p]
  BY Zenon
<1>1. /\ pc[t] = "idle" /\ pc'[t] = "copy_inc" /\ data[o] = Dead /\ dst'[t] = o /\ tmp'[t] = x /\ count'[t] = ref[x]
      /\ data'[o] = x /\ \A q \in Objects \ {o} : data'[q] = data[q]
      /\ want'[o] = want[p] /\ \A q \in Objects \ {o} : want'[q] = want[q]
      /\ UNCHANGED <<pool, index, buffer, ref, text>> /\ x # Dead
  BY <1>a, BufferFacts, Zenon DEF TypeOK, CopyConstruct, Start, Goto, Shared
<1>2. TypeOK'
  <2>1. x \in Datum
    BY Zenon DEF Datum
  <2> QED
    BY <1>a, <2>1, LabelFacts, Zenon DEF TypeOK, CopyConstruct, Start, Goto, Shared, pool
<1>3. \A b \in Buffers :
        /\ Users(b) = Uses(data, b) /\ Users(b)' = Uses(data', b)
        /\ ~Keeps(t, b) /\ ~Keeps(t, b)' /\ ~Adds(t, b) /\ (Adds(t, b)' <=> b = x)
        /\ ~Holds(t, b) /\ ~Holds(t, b)' /\ (Free(t, b)' <=> Free(t, b))
  BY <1>1, Zenon DEF Users, Uses, Keeps, Adds, Holds, Free, Pooled, Low, pool
<1>4. Users(x) # {}
  BY <1>a, Zenon DEF Users
<1>5. Users(x)' # {} /\ Cardinality(Users(x)') = Cardinality(Users(x)) + 1 /\ Cardinality(Users(x)) \in Nat
  <2>1. data[o] # x /\ data'[o] = x /\ SameBut(data, data', x, {o})
    BY <1>1, Zenon DEF SameBut
  <2>2. Uses(data', x) # {} /\ Cardinality(Uses(data', x)) = Cardinality(Uses(data, x)) + 1
    BY <2>1, UsesGain
  <2> QED
    BY <1>3, <2>2, UsesFinite, Zenon
<1>6. \A b \in Buffers \ {x} : Users(b)' = Users(b)
  <2>1. \A b \in Buffers \ {x} : SameBut(data, data', b, {})
    BY <1>1, BufferFacts, Zenon DEF SameBut
  <2>2. \A b \in Buffers \ {x} : Uses(data', b) = Uses(data, b)
    BY <2>1, UsesSame, Zenon
  <2> QED
    BY <1>3, <2>2, Zenon
<1>7. \A b \in Buffers : Used(t, b)' <=> Used(t, b)
  BY <1>3, <1>4, <1>5, <1>6, Zenon DEF Used
<1>8. PlaceOK(t)'
  BY <1>3, <1>7, ZenonT(30) DEF InvOf, PlaceOK
<1>9. RefOK(t)'
  <2>1. ASSUME NEW b \in Buffers \ {x}, Used(t, b)'
        PROVE  ref'[b] = Cardinality(Users(b)') + (IF Keeps(t, b)' THEN 1 ELSE 0) - (IF Adds(t, b)' THEN 1 ELSE 0)
    <3>1. /\ Users(b)' = Users(b) /\ ~Keeps(t, b) /\ ~Keeps(t, b)' /\ ~Adds(t, b) /\ ~Adds(t, b)' /\ ref'[b] = ref[b]
      BY <1>1, <1>3, <1>6, Zenon
    <3>2. Used(t, b)
      BY <1>7, <2>1, Zenon
    <3> QED
      BY <3>1, <3>2, Zenon DEF InvOf, RefOK
  <2>2. ref'[x] = Cardinality(Users(x)') + (IF Keeps(t, x)' THEN 1 ELSE 0) - (IF Adds(t, x)' THEN 1 ELSE 0)
    <3>1. ref'[x] = ref[x] /\ ~Keeps(t, x) /\ ~Keeps(t, x)' /\ ~Adds(t, x) /\ Adds(t, x)'
      BY <1>1, <1>3, Zenon
    <3>2. ref[x] = Cardinality(Users(x)) + (IF Keeps(t, x) THEN 1 ELSE 0) - (IF Adds(t, x) THEN 1 ELSE 0)
      BY <1>4, Zenon DEF InvOf, RefOK, Used
    <3> QED
      BY <1>5, <3>1, <3>2
  <2> QED
    BY <2>1, <2>2, Zenon DEF RefOK
<1>10. TextOK'
  BY <1>a, <1>1 DEF TextOK
<1>11. PoolOK(t)' /\ CallOK(t)'
  BY <1>1, Zenon DEF InvOf, PoolOK, CallOK, Low, pool
<1> QED
  BY <1>2, <1>8, <1>9, <1>10, <1>11, Zenon DEF InvOf

\* A temporary takes over the buffer of an object.
LEMMA TakeOver ==
  ASSUME NEW t \in Threads, InvOf(t), NEW o \in Objects, NEW v,
         pc[t] = "idle", pc'[t] \in {"swap", "destroy"}, UNCHANGED <<pool, ref>>,
         tmp'[t] = data[o], v \notin Buffers, data' = [data EXCEPT ![o] = v], DOMAIN data = Objects
  PROVE  PlaceOK(t)' /\ RefOK(t)'
<1>a. PICK x : x = data[o]
  BY Zenon
<1>1. \A b \in Buffers :
        /\ Users(b) = Uses(data, b) /\ Users(b)' = Uses(data', b)
        /\ ~Keeps(t, b) /\ (Keeps(t, b)' <=> b = x) /\ ~Adds(t, b) /\ ~Adds(t, b)'
        /\ ~Holds(t, b) /\ ~Holds(t, b)' /\ (Free(t, b)' <=> Free(t, b))
  BY <1>a, Zenon DEF Users, Uses, Keeps, Adds, Holds, Free, Pooled, Low, pool
<1>2. ASSUME x \in Buffers
      PROVE  Users(x) # {} /\ Cardinality(Users(x)) = Cardinality(Users(x)') + 1 /\ Cardinality(Users(x)') \in Nat
  <2>1. data'[o] # x /\ data[o] = x /\ SameBut(data', data, x, {o})
    BY <1>a, <1>2, Zenon DEF SameBut
  <2>2. Uses(data, x) # {} /\ Cardinality(Uses(data, x)) = Cardinality(Uses(data', x)) + 1
    BY <2>1, UsesGain, ZenonT(30)
  <2> QED
    BY <1>1, <1>2, <2>2, UsesFinite, ZenonT(60)
<1>3. \A b \in Buffers \ {x} : Users(b)' = Users(b)
  <2>1. \A b \in Buffers \ {x} : SameBut(data, data', b, {})
    BY <1>a, Zenon DEF SameBut
  <2>2. \A b \in Buffers \ {x} : Uses(data', b) = Uses(data, b)
    BY <2>1, UsesSame, Zenon
  <2> QED
    BY <1>1, <2>2, Zenon
<1>4. \A b \in Buffers : Used(t, b)' <=> Used(t, b)
  BY <1>1, <1>2, <1>3, Zenon DEF Used
<1>5. PlaceOK(t)'
  BY <1>1, <1>4, Zenon DEF InvOf, PlaceOK
<1>6. RefOK(t)'
  BY <1>1, <1>2, <1>3, <1>4 DEF InvOf, RefOK
<1> QED
  BY <1>5, <1>6, Zenon

\* The move assignment moves into a temporary.
LEMMA AssignMoveStep ==
  ASSUME NEW t \in Threads, TypeOK, TextOK, InvOf(t), NEW o \in Objects, NEW p \in Objects, AssignMove(t, o, p)
  PROVE  TypeOK' /\ TextOK' /\ InvOf(t)'
<1>a. PICK x \in Datum : x = data[p]
  BY Zenon DEF TypeOK
<1>1. /\ pc[t] = "idle" /\ pc'[t] = "swap" /\ o # p /\ data[o] # Dead /\ x # Dead
      /\ dst'[t] = o /\ tmp'[t] = x /\ msg'[t] = want[p]
      /\ data' = [data EXCEPT ![p] = Literal] /\ DOMAIN data = Objects
      /\ \A q \in Objects \ {p} : want'[q] = want[q]
      /\ UNCHANGED <<pool, index, buffer, ref, text>>
  BY <1>a, Zenon DEF TypeOK, AssignMove, Start, Goto
<1>2. TypeOK'
  <2>1. Literal \in Datum /\ None \in Texts
    BY Zenon DEF Datum, Texts
  <2> QED
    BY <1>a, <2>1, LabelFacts, Zenon DEF TypeOK, AssignMove, Start, Goto, pool
<1>3. PlaceOK(t)' /\ RefOK(t)'
  BY <1>a, <1>1, BufferFacts, TakeOver, Zenon
<1>4. TextOK'
  BY <1>1, BufferFacts, ZenonT(30) DEF TextOK
<1>5. PoolOK(t)' /\ CallOK(t)'
  <2>1. PoolOK(t)'
    BY <1>1, Zenon DEF InvOf, PoolOK, Low, pool
  <2>2. data'[o] # Dead /\ (x \in Buffers => text'[x] = want[p])
    BY <1>a, <1>1, Zenon DEF TextOK
  <2> QED
    BY <1>1, <2>1, <2>2, Zenon DEF CallOK
<1> QED
  BY <1>2, <1>3, <1>4, <1>5, Zenon DEF InvOf

\* An object goes out of scope.
LEMMA DestroyStep ==
  ASSUME NEW t \in Threads, TypeOK, TextOK, InvOf(t), NEW o \in Objects, Destroy(t, o)
  PROVE  TypeOK' /\ TextOK' /\ InvOf(t)'
<1>1. /\ pc[t] = "idle" /\ pc'[t] = "destroy" /\ tmp'[t] = data[o]
      /\ data' = [data EXCEPT ![o] = Dead] /\ DOMAIN data = Objects
      /\ \A q \in Objects \ {o} : want'[q] = want[q]
      /\ UNCHANGED <<pool, index, buffer, ref, text>>
  BY Zenon DEF TypeOK, Destroy, Start, Goto
<1>2. TypeOK'
  <2>1. Dead \in Datum /\ None \in Texts
    BY Zenon DEF Datum, Texts
  <2> QED
    BY <2>1, LabelFacts, Zenon DEF TypeOK, Destroy, Start, Goto, pool
<1>3. PlaceOK(t)' /\ RefOK(t)'
  BY <1>1, BufferFacts, TakeOver, Zenon
<1>4. TextOK'
  BY <1>1, BufferFacts, Zenon DEF TextOK
<1>5. PoolOK(t)' /\ CallOK(t)'
  BY <1>1, Zenon DEF InvOf, PoolOK, CallOK, Low, pool
<1> QED
  BY <1>2, <1>3, <1>4, <1>5, Zenon DEF InvOf
-----------------------------------------------------------------------------
(***************************************************************************)
(* Calls that touch no counter: one step, beside the call of any thread    *)
(***************************************************************************)

\* m_data of o becomes the literal, or what p has; p becomes the literal.
LEMMA AtOnce ==
  ASSUME TypeOK, TextOK, NEW a \in Threads, InvOf(a), NEW o \in Objects, NEW p \in Objects,
         data[o] = Dead, pc[a] # "idle" => dst[a] \notin {o, p} /\ src[a] \notin {o, p},
         UNCHANGED <<pool, pc, index, buffer, ref, text>>,
         pc[a] # "idle" => dst'[a] = dst[a] /\ src'[a] = src[a] /\ msg'[a] = msg[a] /\ tmp'[a] = tmp[a]
                           /\ count'[a] = count[a],
         \/ data' = [data EXCEPT ![o] = Literal]
         \/ data' = [data EXCEPT ![o] = data[p], ![p] = Literal] /\ data[p] # Dead
  PROVE  InvOf(a)'
<1>1. \A b \in Buffers :
        /\ Users(b) = Uses(data, b) /\ Users(b)' = Uses(data', b)
        /\ Keeps(a, b)' <=> Keeps(a, b)
        /\ Adds(a, b)' <=> Adds(a, b)
        /\ Holds(a, b)' <=> Holds(a, b)
        /\ Free(a, b)' <=> Free(a, b)
  BY Zenon DEF Users, Uses, Keeps, Adds, Holds, Free, Pooled, Low, pool
<1>2. \A b \in Buffers :
        /\ Users(b)' = {} <=> Users(b) = {}
        /\ Cardinality(Users(b)') = Cardinality(Users(b))
  <2> TAKE b \in Buffers
  <2>1. CASE SameBut(data, data', b, {})
    BY <1>1, <2>1, UsesSame
  <2>2. CASE ~SameBut(data, data', b, {})
    <3>1. /\ data[o] # b /\ data'[o] = b /\ data[p] = b /\ data'[p] # b
          /\ SameBut(data, data', b, {o, p})
      BY <2>2, BufferFacts DEF SameBut, TypeOK
    <3>2. /\ Uses(data, b) # {} /\ Uses(data', b) # {}
          /\ Cardinality(Uses(data', b)) = Cardinality(Uses(data, b))
      BY <3>1, UsesMove
    <3> QED
      BY <1>1, <3>2, ZenonT(30)
  <2> QED
    BY <2>1, <2>2, Zenon
<1>3. \A b \in Buffers : Used(a, b)' <=> Used(a, b)
  BY <1>1, <1>2, Zenon DEF Used
<1>4. PlaceOK(a)'
  BY <1>1, <1>3, Zenon DEF InvOf, PlaceOK
<1>5. RefOK(a)'
  BY <1>1, <1>2, <1>3, Zenon DEF InvOf, RefOK
<1>6. PoolOK(a)'
  BY ZenonT(30) DEF InvOf, PoolOK, Low, pool
<1>7. CallOK(a)'
  <2>1. CASE pc[a] = "idle"
    BY <2>1, ZenonT(60) DEF CallOK
  <2>2. CASE pc[a] # "idle"
    <3>1. data'[dst'[a]] = data[dst[a]] /\ data'[src'[a]] = data[src[a]]
      BY <2>2 DEF TypeOK
    <3> QED
      BY <2>2, <3>1, Zenon DEF InvOf, CallOK
  <2> QED
    BY <2>1, <2>2, Zenon
<1> QED
  BY <1>4, <1>5, <1>6, <1>7, Zenon DEF InvOf

\* A literal, a copy of one, or the move constructor.
LEMMA AtOnceStep ==
  ASSUME TypeOK, TextOK, NEW t \in Threads, NEW o \in Objects, NEW p \in Objects,
         \/ ConstructLiteral(t, o)
         \/ CopyConstruct(t, o, p) /\ data[p] \notin Buffers
         \/ MoveConstruct(t, o, p)
  PROVE  /\ TypeOK' /\ TextOK' /\ pc' = pc
         /\ \A a \in Threads : InvOf(a) => InvOf(a)'
<1>1. Literal \in Datum /\ None \in Texts /\ Literal \notin Buffers /\ Dead \notin Buffers /\ Literal # Dead
  BY BufferFacts, Zenon DEF Datum, Texts
<1>2. CASE ConstructLiteral(t, o)
  <2>1. TypeOK' /\ pc' = pc
    BY <1>1, <1>2, Zenon DEF TypeOK, ConstructLiteral, Start, pool
  <2>2. TextOK'
    BY <1>1, <1>2, Zenon DEF TypeOK, TextOK, ConstructLiteral
  <2>3. ASSUME NEW a \in Threads, InvOf(a) PROVE InvOf(a)'
    <3>1. /\ data[o] = Dead /\ data' = [data EXCEPT ![o] = Literal]
          /\ UNCHANGED <<pool, pc, index, buffer, ref, text>>
      BY <1>2, Zenon DEF ConstructLiteral
    <3>2. pc[a] # "idle" => dst[a] # o /\ src[a] # o /\ a # t
      BY <1>2, Zenon DEF ConstructLiteral, Start, Unused
    <3>3. pc[a] # "idle" => /\ dst'[a] = dst[a] /\ src'[a] = src[a] /\ msg'[a] = msg[a] /\ tmp'[a] = tmp[a]
                            /\ count'[a] = count[a]
      BY <1>2, <3>2, Zenon DEF ConstructLiteral, Start, TypeOK
    <3> QED
      BY <2>3, <3>1, <3>2, <3>3, AtOnce, Zenon
  <2> QED
    BY <2>1, <2>2, <2>3, Zenon
<1>3. CASE CopyConstruct(t, o, p) /\ data[p] \notin Buffers
  <2>1. data[p] = Literal /\ data[o] = Dead /\ want[p] \in Texts
    BY <1>3, Zenon DEF TypeOK, Datum, CopyConstruct
  <2>2. TypeOK' /\ pc' = pc
    BY <1>1, <1>3, <2>1, Zenon DEF TypeOK, CopyConstruct, Start, Shared, pool
  <2>3. TextOK'
    BY <1>1, <1>3, <2>1, Zenon DEF TypeOK, TextOK, CopyConstruct
  <2>4. ASSUME NEW a \in Threads, InvOf(a) PROVE InvOf(a)'
    <3>1. /\ data' = [data EXCEPT ![o] = Literal]
          /\ UNCHANGED <<pool, pc, index, buffer, ref, text>>
      BY <1>3, <2>1, Zenon DEF CopyConstruct, Shared
    <3>2. pc[a] # "idle" => dst[a] \notin {o, p} /\ src[a] \notin {o, p} /\ a # t
      BY <1>3, Zenon DEF CopyConstruct, Start, Unused
    <3>3. pc[a] # "idle" => /\ dst'[a] = dst[a] /\ src'[a] = src[a] /\ msg'[a] = msg[a] /\ tmp'[a] = tmp[a]
                            /\ count'[a] = count[a]
      BY <1>3, <3>2, Zenon DEF CopyConstruct, Start, TypeOK, Shared
    <3> QED
      BY <2>1, <2>4, <3>1, <3>2, <3>3, AtOnce, Zenon
  <2> QED
    BY <2>2, <2>3, <2>4, Zenon
<1>4. CASE MoveConstruct(t, o, p)
  <2>1. o # p /\ data[o] = Dead /\ data[p] # Dead /\ data[p] \in Datum /\ want[p] \in Texts
    BY <1>4, Zenon DEF TypeOK, MoveConstruct
  <2>2. TypeOK' /\ pc' = pc
    BY <1>1, <1>4, <2>1, Zenon DEF TypeOK, MoveConstruct, Start, pool
  <2>3. TextOK'
    BY <1>1, <1>4, <2>1, Zenon DEF TypeOK, TextOK, MoveConstruct
  <2>4. ASSUME NEW a \in Threads, InvOf(a) PROVE InvOf(a)'
    <3>1. /\ data' = [data EXCEPT ![o] = data[p], ![p] = Literal]
          /\ UNCHANGED <<pool, pc, index, buffer, ref, text>>
      BY <1>4, Zenon DEF MoveConstruct
    <3>2. pc[a] # "idle" => dst[a] \notin {o, p} /\ src[a] \notin {o, p} /\ a # t
      BY <1>4, Zenon DEF MoveConstruct, Start, Unused
    <3>3. pc[a] # "idle" => /\ dst'[a] = dst[a] /\ src'[a] = src[a] /\ msg'[a] = msg[a] /\ tmp'[a] = tmp[a]
                            /\ count'[a] = count[a]
      BY <1>4, <3>2, Zenon DEF MoveConstruct, Start, TypeOK
    <3> QED
      BY <2>1, <2>4, <3>1, <3>2, <3>3, AtOnce, Zenon
  <2> QED
    BY <2>2, <2>3, <2>4, Zenon
<1> QED
  BY <1>2, <1>3, <1>4, Zenon
-----------------------------------------------------------------------------
(***************************************************************************)
(* The theorems                                                            *)
(***************************************************************************)

\* At first every buffer is free.
LEMMA InitInv == Init => Inv
<1> SUFFICES ASSUME Init PROVE Inv
  BY Zenon
<1> USE DEF Init, InitPool
<1>1. 1 \in Buffers /\ Literal \in Datum /\ Dead \in Datum /\ None \in Texts /\ SlotCount \in Nat
  BY ExceptionAllocatorAssumption DEF Datum, Texts, Buffers, Slots
<1>2. slots \in [Entries -> Slots]
  BY <1>1 DEF Entries, Slots
<1>3. TypeOK
  <2>1. \A m \in Messages : m \in Texts
    BY Zenon DEF Texts
  <2> QED
    BY <1>1, <1>2, <2>1, LabelFacts DEF TypeOK
<1>4. TextOK
  BY BufferFacts, Zenon DEF TextOK
<1>5. ASSUME NEW t \in Threads PROVE InvOf(t)
  <2>1. \A b \in Buffers : Users(b) = {} /\ ~Keeps(t, b) /\ ~Adds(t, b) /\ ~Holds(t, b)
    BY BufferFacts, Zenon DEF Users, Keeps, Adds, Holds
  <2>2. \A b \in Buffers : Free(t, b)
    <3> TAKE b \in Buffers
    <3>1. CASE b \in Slots
      <4>1. b - 1 \in Low(t)..(SlotCount - 1) /\ slots[b - 1] = b
        BY <1>1, <3>1 DEF Low, Slots
      <4> QED
        BY <4>1, Zenon DEF Free, Pooled
    <3>2. CASE b \in HeapBlocks
      BY <3>2, Zenon DEF Free
    <3> QED
      BY <3>1, <3>2, BufferFacts, Zenon
  <2>3. PlaceOK(t) /\ RefOK(t)
    BY <2>1, <2>2, Zenon DEF PlaceOK, RefOK, Used
  <2>4. PoolOK(t) /\ CallOK(t)
    BY <1>1 DEF PoolOK, CallOK, Low
  <2> QED
    BY <2>3, <2>4, Zenon DEF InvOf
<1> QED
  BY <1>3, <1>4, <1>5, Zenon DEF Inv

\* A call of t goes on.
LEMMA GoesOn ==
  ASSUME NEW t \in Threads, TypeOK, TextOK, InvOf(t), Step(t)
  PROVE  TypeOK' /\ TextOK' /\ InvOf(t)' /\ pc[t] # "idle" /\ \A u \in Threads \ {t} : pc'[u] = pc[u]
<1>1. pc[t] # "idle" /\ \A u \in Threads \ {t} : pc'[u] = pc[u]
  BY Zenon DEF Step, PoolStep, TryGetSlot, ReadSlot, UndoGetSlot, AllocateFromHeap, AllocateThrows, ReleaseSlot,
         StoreSlot, FreeToHeap, MakeSharedData, ConstructThrows, IncrementStore, Swap, DecrementLoad,
         DecrementStore, Goto, TypeOK
<1>2. CASE PoolStep(t) /\ UNCHANGED <<objects, call>>
  BY <1>2, TryGetSlotStep, ReadSlotStep, UndoGetSlotStep, AllocateFromHeapStep, ThrowsStep, ReleaseSlotStep,
     StoreSlotStep, FreeToHeapStep, <1>1, Zenon DEF PoolStep
<1>3. CASE MakeSharedData(t) \/ ConstructThrows(t) \/ IncrementStore(t)
  BY <1>1, <1>3, MakeSharedDataStep, ThrowsStep, IncrementStoreStep, Zenon
<1>4. CASE Swap(t) \/ DecrementLoad(t) \/ DecrementStore(t)
  BY <1>1, <1>4, SwapStep, DecrementLoadStep, DecrementStoreStep, Zenon
<1> QED
  BY <1>2, <1>3, <1>4, Zenon DEF Step

\* A call of t begins, and is not done at once.
Begins(t) ==
  \/ \E o \in Objects, m \in Messages, fits \in BOOLEAN : ConstructMessage(t, o, m, fits)
  \/ \E o \in Objects : Destroy(t, o)
  \/ \E o, p \in Objects : \/ CopyConstruct(t, o, p) /\ data[p] \in Buffers
                           \/ AssignCopy(t, o, p) \/ AssignMove(t, o, p)

\* It finds the exceptions and the pool as the last call left them.
LEMMA BeginsStep ==
  ASSUME NEW t \in Threads, TypeOK, TextOK, InvOf(t), Begins(t)
  PROVE  TypeOK' /\ TextOK' /\ InvOf(t)'
<1>1. CASE \E o \in Objects, m \in Messages, fits \in BOOLEAN : ConstructMessage(t, o, m, fits)
  BY <1>1, ConstructMessageStep, Zenon
<1>2. CASE \E o \in Objects : Destroy(t, o)
  BY <1>2, DestroyStep, Zenon
<1>3. CASE \E o, p \in Objects : CopyConstruct(t, o, p) /\ data[p] \in Buffers
  BY <1>3, CopyConstructStep, Zenon
<1>4. CASE \E o, p \in Objects : AssignCopy(t, o, p) \/ AssignMove(t, o, p)
  BY <1>4, AssignCopyStep, AssignMoveStep, ZenonT(60)
<1> QED
  BY <1>1, <1>2, <1>3, <1>4, Zenon DEF Begins

\* The other threads are where they were.
LEMMA BeginsAlone ==
  ASSUME NEW t \in Threads, TypeOK, Begins(t)
  PROVE  pc'[t] # "idle" /\ \A u \in Threads \ {t} : pc'[u] = pc[u]
BY DEF Begins, ConstructMessage, Destroy, CopyConstruct, AssignCopy, AssignMove, Start, Goto, Shared, TypeOK

\* When t is in no call any more, the invariant is that of every thread.
LEMMA Returned ==
  ASSUME NEW t \in Threads, NEW u \in Threads, InvOf(t)', pc'[t] = "idle", pc'[u] = "idle"
  PROVE  InvOf(u)'
<1>1. \A b \in Buffers :
        /\ ~Keeps(t, b)' /\ ~Keeps(u, b)' /\ ~Adds(t, b)' /\ ~Adds(u, b)' /\ ~Holds(t, b)' /\ ~Holds(u, b)'
        /\ Free(u, b)' <=> Free(t, b)'
  BY Zenon DEF Keeps, Adds, Holds, Free, Pooled, Low
<1>2. \A b \in Buffers : Used(u, b)' <=> Used(t, b)'
  BY <1>1, Zenon DEF Used
<1>3. PlaceOK(u)' /\ RefOK(u)'
  BY <1>1, <1>2, Zenon DEF InvOf, PlaceOK, RefOK
<1>4. PoolOK(u)' /\ CallOK(u)'
  BY Zenon DEF InvOf, PoolOK, CallOK, Low
<1> QED
  BY <1>3, <1>4, Zenon DEF InvOf

\* The invariant is inductive as long as calls do not overlap.
LEMMA StepInv ==
  ASSUME Inv, OneAtATime, OneAtATime', [Next]_vars
  PROVE  Inv'
<1>1. CASE UNCHANGED vars
  <2>1. TypeOK' /\ TextOK'
    BY <1>1, Zenon DEF Inv, TypeOK, TextOK, vars, pool, objects, call
  <2>2. ASSUME NEW t \in Threads, Only(t)' PROVE InvOf(t)'
    <3>1. InvOf(t)
      BY <1>1, <2>2, Zenon DEF Inv, Only, vars
    <3>2. PoolOK(t)' /\ CallOK(t)'
      BY <1>1, <3>1, Zenon DEF InvOf, PoolOK, CallOK, Low, vars, pool, objects, call
    <3>3. PlaceOK(t)' /\ RefOK(t)'
      BY <1>1, <3>1, ZenonT(30) DEF InvOf, PlaceOK, RefOK, Used, Free, Pooled, Low, Holds, Keeps, Adds, Users, vars, pool, objects,
                        call
    <3> QED
      BY <3>2, <3>3, ZenonT(60) DEF InvOf
  <2> QED
    BY <2>1, <2>2, Zenon DEF Inv
<1>2. ASSUME NEW t \in Threads, Only(t)', TypeOK', TextOK', InvOf(t)' PROVE Inv'
  <2>1. ASSUME NEW u \in Threads, Only(u)' PROVE InvOf(u)'
    <3>1. CASE u = t
      BY <1>2, <3>1, Zenon
    <3>2. CASE u # t
      <4>1. pc'[t] = "idle" /\ pc'[u] = "idle"
        BY <1>2, <2>1, <3>2, Zenon DEF Only
      <4> QED
        BY <1>2, <4>1, Returned, Zenon
    <3> QED
      BY <3>1, <3>2, Zenon
  <2> QED
    BY <1>2, <2>1, Zenon DEF Inv
<1>3. ASSUME NEW t \in Threads, Step(t) PROVE Inv'
  <2>1. pc[t] # "idle"
    BY <1>3, Zenon DEF Step, PoolStep, TryGetSlot, ReadSlot, UndoGetSlot, AllocateFromHeap, AllocateThrows, ReleaseSlot,
         StoreSlot, FreeToHeap, MakeSharedData, ConstructThrows, IncrementStore, Swap, DecrementLoad, DecrementStore
  <2>2. Only(t) /\ InvOf(t) /\ TypeOK /\ TextOK
    BY <2>1, Zenon DEF OneAtATime, Only, Inv
  <2>3. TypeOK' /\ TextOK' /\ InvOf(t)' /\ \A u \in Threads \ {t} : pc'[u] = pc[u]
    BY <1>3, <2>2, GoesOn, Zenon
  <2>4. Only(t)'
    BY <2>2, <2>3, Zenon DEF Only
  <2> QED
    BY <1>2, <2>3, <2>4, Zenon
<1>4. ASSUME NEW t \in Threads, Begins(t) PROVE Inv'
  <2>1. TypeOK /\ TextOK
    BY Zenon DEF Inv
  <2>2. pc'[t] # "idle" /\ \A u \in Threads \ {t} : pc'[u] = pc[u]
    BY <1>4, <2>1, BeginsAlone, Zenon
  <2>3. Only(t)'
    BY <2>2, Zenon DEF OneAtATime, Only
  <2>4. Only(t)
    BY <2>2, <2>3, Zenon DEF Only
  <2>5. TypeOK' /\ TextOK' /\ InvOf(t)'
    BY <1>4, <2>1, <2>4, BeginsStep, Zenon DEF Inv
  <2> QED
    BY <1>2, <2>3, <2>5, Zenon
<1>5. ASSUME NEW t \in Threads, NEW o \in Objects, NEW p \in Objects,
             \/ ConstructLiteral(t, o)
             \/ CopyConstruct(t, o, p) /\ data[p] \notin Buffers
             \/ MoveConstruct(t, o, p)
      PROVE  Inv'
  <2>1. TypeOK' /\ TextOK' /\ pc' = pc /\ \A a \in Threads : InvOf(a) => InvOf(a)'
    BY <1>5, AtOnceStep, Zenon DEF Inv
  <2> QED
    BY <2>1, Zenon DEF Inv, Only
<1>6. ASSUME NEW t \in Threads, Call(t), ~Begins(t) PROVE Inv'
  BY <1>5, <1>6, Zenon DEF Call, Begins
<1> QED
  BY <1>1, <1>3, <1>4, <1>6, Zenon DEF Next

\* There is always a thread beside which nobody is in a call.
LEMMA SomeoneOnly ==
  ASSUME Inv, OneAtATime
  PROVE  \E t \in Threads : InvOf(t)
<1>1. \E t \in Threads : Only(t)
  BY ExceptionAllocatorAssumption, Zenon DEF OneAtATime, Only
<1> QED
  BY <1>1, Zenon DEF Inv

\* The exceptions and the pool are as described at every moment, whichever
\* thread makes the next call.
THEOREM ExceptionsInvariant == Spec /\ []OneAtATime => []Inv
BY InitInv, StepInv, PTL DEF Spec

\* what() returns the message that the exception was made with: the buffer is
\* neither in the heap nor above m_current_slot while an exception designates
\* it, whatever was constructed, copied, moved, assigned and destroyed.
THEOREM MessagesKept == Spec /\ []OneAtATime => []MessageKept
<1>1. Inv /\ OneAtATime => MessageKept
  <2> SUFFICES ASSUME Inv, OneAtATime, NEW o \in Objects, data[o] \in Buffers
               PROVE  /\ text[data[o]] = want[o] /\ data[o] \notin heap
                      /\ \A i \in counter..(SlotCount - 1) : Quiet => slots[i] # data[o]
    BY Zenon DEF MessageKept, Shared
  <2>1. text[data[o]] = want[o]
    BY Zenon DEF Inv, TextOK
  <2>2. PICK t \in Threads : InvOf(t)
    BY SomeoneOnly, Zenon
  <2>3. ~Free(t, data[o])
    BY <2>2, Zenon DEF InvOf, PlaceOK, Used, Users
  <2>4. Quiet => Low(t) = counter
    BY Zenon DEF Quiet, Low
  <2> QED
    BY <2>1, <2>3, <2>4, Zenon DEF Free, Pooled
<1> QED
  BY <1>1, ExceptionsInvariant, PTL

\* Between calls every buffer that no exception designates can be allocated
\* again: nothing is lost when the pool is full, a constructor throws or an
\* exception is assigned.
THEOREM BuffersAlwaysConserved == Spec /\ []OneAtATime => []BuffersConserved
<1>1. Inv /\ OneAtATime => BuffersConserved
  <2> SUFFICES ASSUME Inv, OneAtATime, Quiet, NEW b \in Buffers, Users(b) = {}
               PROVE  b \in heap \/ \E i \in counter..(SlotCount - 1) : slots[i] = b
    BY Zenon DEF BuffersConserved
  <2>1. PICK t \in Threads : InvOf(t)
    BY SomeoneOnly, Zenon
  <2>2. ~Used(t, b) /\ ~Holds(t, b) /\ Low(t) = counter
    BY Zenon DEF Quiet, Used, Keeps, Holds, Low
  <2>3. Free(t, b)
    BY <2>1, <2>2, Zenon DEF InvOf, PlaceOK
  <2> QED
    BY <2>2, <2>3, Zenon DEF Free, Pooled
<1> QED
  BY <1>1, ExceptionsInvariant, PTL

\* deallocate() writes inside m_slots: the index it takes is below SLOT_COUNT.
THEOREM SlotsInRange == Spec /\ []OneAtATime => []SlotInRange
<1>1. Inv /\ OneAtATime => SlotInRange
  <2> SUFFICES ASSUME Inv, OneAtATime, NEW t \in Threads, pc[t] = "store"
               PROVE  index[t] < SlotCount
    BY Zenon DEF SlotInRange
  <2>1. InvOf(t)
    BY Zenon DEF OneAtATime, Only, Inv
  <2> QED
    BY <2>1, Zenon DEF InvOf, PoolOK
<1> QED
  BY <1>1, ExceptionsInvariant, PTL
=============================================================================
