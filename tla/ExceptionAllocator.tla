------------------------- MODULE ExceptionAllocator --------------------------
(***************************************************************************)
(* crt::exception_allocator (src/runtime/src/exception.cpp): a reserved    *)
(* page cut into slots for the messages of exceptions, and the heap when   *)
(* the slots are used up or too small.                                     *)
(*                                                                         *)
(* Buffers are numbered by address: the slots first, heap blocks after     *)
(* them.  Every interlocked operation and every access to m_slots is one   *)
(* step.                                                                   *)
(***************************************************************************)
EXTENDS Integers, FiniteSets

CONSTANTS
  Threads,
  SlotCount,   \* SLOT_COUNT
  HeapCount    \* blocks that the heap can provide

ASSUME ExceptionAllocatorAssumption ==
  Threads # {} /\ SlotCount \in Nat \ {0} /\ HeapCount \in Nat

VARIABLES
  counter,  \* m_current_slot
  slots,    \* m_slots
  heap,     \* blocks that are free in the heap
  wild,     \* m_slots was written out of bounds: anything may follow
  pc,       \* where each thread is
  index,    \* slot_index
  buffer    \* result of allocate(), argument of deallocate()

pool == <<counter, slots, heap, wild>>

Slots == 1..SlotCount
HeapBlocks == (SlotCount + 1)..(SlotCount + HeapCount)
Buffers == Slots \union HeapBlocks

Goto(t, label) == pc' = [pc EXCEPT ![t] = label]

\* run(): every entry of m_slots designates its part of the page.
InitPool ==
  /\ counter = 0
  /\ slots = [i \in 0..(SlotCount - 1) |-> i + 1]
  /\ heap = HeapBlocks
  /\ wild = FALSE
  /\ pc = [t \in Threads |-> "idle"]
  /\ index = [t \in Threads |-> 0]
  /\ buffer = [t \in Threads |-> 1]

\* try_get_slot: InterlockedIncrement and the test.
TryGetSlot(t) ==
  /\ pc[t] = "get"
  /\ index' = [index EXCEPT ![t] = counter]
  /\ counter' = counter + 1
  /\ Goto(t, IF counter < SlotCount THEN "read" ELSE "undo")
  /\ UNCHANGED <<slots, heap, wild, buffer>>

ReadSlot(t) ==
  /\ pc[t] = "read"
  /\ buffer' = [buffer EXCEPT ![t] = slots[index[t]]]
  /\ Goto(t, "allocated")
  /\ UNCHANGED <<pool, index>>

\* Mutant: the increment is not taken back.
UndoGetSlotForgets(t) ==
  /\ pc[t] = "undo"
  /\ Goto(t, "heap")
  /\ UNCHANGED <<pool, index, buffer>>

\* The pool is full: InterlockedDecrement.
UndoGetSlot(t) ==
  /\ pc[t] = "undo"
  /\ counter' = counter - 1
  /\ Goto(t, "heap")
  /\ UNCHANGED <<slots, heap, wild, index, buffer>>

AllocateFromHeap(t) ==
  /\ pc[t] = "heap"
  /\ \E b \in heap :
       heap' = heap \ {b} /\ buffer' = [buffer EXCEPT ![t] = b]
  /\ Goto(t, "allocated")
  /\ UNCHANGED <<counter, slots, wild, index>>

\* bad_alloc: the interrupt level is too high for the heap, or it is empty.
AllocateThrows(t) ==
  /\ pc[t] = "heap"
  /\ Goto(t, "thrown")
  /\ UNCHANGED <<pool, index, buffer>>

\* deallocate: InterlockedDecrement.
ReleaseSlot(t) ==
  /\ pc[t] = "free" /\ buffer[t] \in Slots
  /\ counter' = counter - 1
  /\ index' = [index EXCEPT ![t] = counter - 1]
  /\ Goto(t, "store")
  /\ UNCHANGED <<slots, heap, wild, buffer>>

StoreSlot(t) ==
  /\ pc[t] = "store"
  /\ IF index[t] < SlotCount
     THEN slots' = [slots EXCEPT ![index[t]] = buffer[t]] /\ UNCHANGED wild
     ELSE wild' = TRUE /\ UNCHANGED slots
  /\ Goto(t, "idle")
  /\ UNCHANGED <<counter, heap, index, buffer>>

FreeToHeap(t) ==
  /\ pc[t] = "free" /\ buffer[t] \notin Slots
  /\ heap' = heap \union {buffer[t]}
  /\ Goto(t, "idle")
  /\ UNCHANGED <<counter, slots, wild, index, buffer>>

PoolStep(t) ==
  \/ TryGetSlot(t) \/ ReadSlot(t) \/ UndoGetSlot(t)
  \/ AllocateFromHeap(t) \/ AllocateThrows(t)
  \/ ReleaseSlot(t) \/ StoreSlot(t) \/ FreeToHeap(t)
=============================================================================
