---------------------------- MODULE NodeAllocator ----------------------------
(***************************************************************************)
(* ktl::lockfree::node_allocator (src/modules/lockfree/node_allocator.hpp):*)
(* a lock-free list of free memory blocks with a tagged head, shared by    *)
(* any number of threads.                                                  *)
(*                                                                         *)
(* The link of a free block overlays the first word of the block, so its   *)
(* owner overwrites it (word) and a thread that is about to pop the block  *)
(* may read anything there.  Every load, store and compare-and-swap of     *)
(* shared memory is one step.                                              *)
(***************************************************************************)
EXTENDS Integers, Sequences, FiniteSets

CONSTANTS
  Threads,
  Blocks,     \* the blocks that the underlying allocator can ever hand out
  Data,       \* what an owner may write into the first word of its block
  Null,       \* the null pointer
  Initial,    \* initial_count of the constructor
  TagCount    \* tags are modulo TagCount (2^16 in tagged_pointer.hpp)

ASSUME NodeAllocatorAssumption ==
  /\ Null \notin Blocks
  /\ TagCount \in Nat \ {0}
  /\ Initial \in Nat

VARIABLES
  heap,    \* blocks that are with the underlying allocator
  top,     \* the head of the list: a pointer and a tag
  word,    \* word[b]: first word of block b: a link, or data of its owner
  held,    \* held[t]: blocks that thread t has allocated
  apc,     \* where thread t is in allocate() or deallocate()
  old,     \* old_top_value
  link,    \* new_top_ptr of allocate()
  block,   \* result of allocate(), argument of deallocate()
  free     \* history: the blocks in the list, from first to last

vars == <<heap, top, word, held, apc, old, link, block, free>>

Pointers == Blocks \union {Null}
Words == Pointers \union Data
Tagged == [ptr : Pointers, tag : 0..TagCount-1]

Locations == {"idle", "alloc", "alloc_test", "alloc_cas",
              "dealloc", "dealloc_link", "dealloc_cas", "closed"}

\* tagged_pointer::get_next_tag: sixteen-bit arithmetic.
NextTag(p) == (p.tag + 1) % TagCount

\* Bound: the tag does not wrap around.  A stalled compare-and-swap of
\* allocate() could succeed wrongly after exactly TagCount pops.
NoWrap(p) == p.tag + 1 < TagCount

Goto(t, loc) == apc' = [apc EXCEPT ![t] = loc]
-----------------------------------------------------------------------------
(***************************************************************************)
(* allocate()                                                              *)
(***************************************************************************)

AllocLoad(t) ==
  /\ apc[t] = "alloc"
  /\ old' = [old EXCEPT ![t] = top]
  /\ Goto(t, "alloc_test")
  /\ UNCHANGED <<heap, top, word, held, link, block, free>>

\* The list is empty: create_memory_block().
AllocFresh(t) ==
  /\ apc[t] = "alloc_test" /\ old[t].ptr = Null
  /\ \E b \in heap :
       /\ heap' = heap \ {b}
       /\ block' = [block EXCEPT ![t] = b]
       /\ held' = [held EXCEPT ![t] = @ \union {b}]
  /\ Goto(t, "idle")
  /\ UNCHANGED <<top, word, old, link, free>>

\* The underlying allocator fails and the exception leaves allocate().
AllocThrows(t) ==
  /\ apc[t] = "alloc_test" /\ old[t].ptr = Null /\ heap = {}
  /\ block' = [block EXCEPT ![t] = Null]
  /\ Goto(t, "idle")
  /\ UNCHANGED <<heap, top, word, held, old, link, free>>

\* old_top->next: the block may have another owner by now.
AllocReadLink(t) ==
  /\ apc[t] = "alloc_test" /\ old[t].ptr # Null
  /\ link' = [link EXCEPT ![t] = word[old[t].ptr]]
  /\ Goto(t, "alloc_cas")
  /\ UNCHANGED <<heap, top, word, held, old, block, free>>

\* Mutant: the tag is kept.
AllocCasSameTag(t) ==
  /\ apc[t] = "alloc_cas" /\ top = old[t]
  /\ top' = [ptr |-> link[t], tag |-> old[t].tag]
  /\ block' = [block EXCEPT ![t] = old[t].ptr]
  /\ held' = [held EXCEPT ![t] = @ \union {old[t].ptr}]
  /\ free' = SubSeq(free, 2, Len(free))
  /\ Goto(t, "idle")
  /\ UNCHANGED <<heap, word, old, link>>

AllocCas(t) ==
  /\ apc[t] = "alloc_cas" /\ top = old[t] /\ NoWrap(top)
  /\ top' = [ptr |-> link[t], tag |-> NextTag(old[t])]
  /\ block' = [block EXCEPT ![t] = old[t].ptr]
  /\ held' = [held EXCEPT ![t] = @ \union {old[t].ptr}]
  /\ free' = SubSeq(free, 2, Len(free))
  /\ Goto(t, "idle")
  /\ UNCHANGED <<heap, word, old, link>>

\* A failed compare_exchange rewrites old_top_value.
AllocCasFails(t) ==
  /\ apc[t] = "alloc_cas" /\ top # old[t]
  /\ old' = [old EXCEPT ![t] = top]
  /\ Goto(t, "alloc_test")
  /\ UNCHANGED <<heap, top, word, held, link, block, free>>
-----------------------------------------------------------------------------
(***************************************************************************)
(* deallocate()                                                            *)
(***************************************************************************)

DeallocLoad(t) ==
  /\ apc[t] = "dealloc"
  /\ old' = [old EXCEPT ![t] = top]
  /\ Goto(t, "dealloc_link")
  /\ UNCHANGED <<heap, top, word, held, link, block, free>>

DeallocLink(t) ==
  /\ apc[t] = "dealloc_link"
  /\ word' = [word EXCEPT ![block[t]] = old[t].ptr]
  /\ Goto(t, "dealloc_cas")
  /\ UNCHANGED <<heap, top, held, old, link, block, free>>

DeallocCas(t) ==
  /\ apc[t] = "dealloc_cas" /\ top = old[t]
  /\ top' = [ptr |-> block[t], tag |-> old[t].tag]
  /\ held' = [held EXCEPT ![t] = @ \ {block[t]}]
  /\ free' = <<block[t]>> \o free
  /\ Goto(t, "idle")
  /\ UNCHANGED <<heap, word, old, link, block>>

\* Mutant: a failed compare_exchange goes back to the compare, not to the link.
DeallocCasFailsNoRelink(t) ==
  /\ apc[t] = "dealloc_cas" /\ top # old[t]
  /\ old' = [old EXCEPT ![t] = top]
  /\ UNCHANGED <<heap, top, word, held, apc, link, block, free>>

DeallocCasFails(t) ==
  /\ apc[t] = "dealloc_cas" /\ top # old[t]
  /\ old' = [old EXCEPT ![t] = top]
  /\ Goto(t, "dealloc_link")
  /\ UNCHANGED <<heap, top, word, held, link, block, free>>

Step(t) ==
  \/ AllocLoad(t) \/ AllocFresh(t) \/ AllocThrows(t) \/ AllocReadLink(t)
  \/ AllocCas(t) \/ AllocCasFails(t)
  \/ DeallocLoad(t) \/ DeallocLink(t) \/ DeallocCas(t) \/ DeallocCasFails(t)
-----------------------------------------------------------------------------
(***************************************************************************)
(* Construction, destruction and the clients                               *)
(***************************************************************************)

\* With the links w, p is the head of a list of the blocks of s, in that order.
IsList(p, w, s) ==
  /\ p = IF s = <<>> THEN Null ELSE s[1]
  /\ \A i \in 1..Len(s) : w[s[i]] = IF i = Len(s) THEN Null ELSE s[i + 1]
  /\ \A i, j \in 1..Len(s) : s[i] = s[j] => i = j

Occurs(b, s) == \E i \in 1..Len(s) : s[i] = b

\* node_allocator(initial_count): push_unsafe builds a list of fresh blocks.
\* The words of the others are uninitialised.
Init ==
  /\ free \in [1..Initial -> Blocks]
  /\ heap = {b \in Blocks : ~Occurs(b, free)}
  /\ word \in [Blocks -> Pointers]
  /\ top = [ptr |-> IF Initial = 0 THEN Null ELSE free[1], tag |-> 0]
  /\ IsList(top.ptr, word, free)
  /\ held = [t \in Threads |-> {}]
  /\ apc = [t \in Threads |-> "idle"]
  /\ old = [t \in Threads |-> [ptr |-> Null, tag |-> 0]]
  /\ link = [t \in Threads |-> Null]
  /\ block = [t \in Threads |-> Null]

\* The destructor starts: no call is in progress and all blocks are back.
Close ==
  /\ \A t \in Threads : apc[t] = "idle" /\ held[t] = {}
  /\ apc' = [t \in Threads |-> "closed"]
  /\ UNCHANGED <<heap, top, word, held, old, link, block, free>>

\* One iteration of ~node_allocator: pop_unsafe_without_allocation and
\* destroy_memory_block.
DestroyBlock ==
  /\ \A t \in Threads : apc[t] = "closed"
  /\ top.ptr # Null
  /\ heap' = heap \union {top.ptr}
  /\ top' = [ptr |-> word[top.ptr], tag |-> NextTag(top)]
  /\ free' = SubSeq(free, 2, Len(free))
  /\ UNCHANGED <<word, held, apc, old, link, block>>

\* A client calls allocate().
Allocate(t) ==
  /\ apc[t] = "idle"
  /\ top.tag + Cardinality(Threads) < TagCount
  /\ Goto(t, "alloc")
  /\ UNCHANGED <<heap, top, word, held, old, link, block, free>>

\* A client writes its own block.
Write(t, b, d) ==
  /\ apc[t] = "idle" /\ b \in held[t]
  /\ word' = [word EXCEPT ![b] = d]
  /\ UNCHANGED <<heap, top, held, apc, old, link, block, free>>

\* A client gives a block back.
Deallocate(t, b) ==
  /\ apc[t] = "idle" /\ b \in held[t]
  /\ block' = [block EXCEPT ![t] = b]
  /\ Goto(t, "dealloc")
  /\ UNCHANGED <<heap, top, word, held, old, link, free>>

Next ==
  \/ \E t \in Threads :
       \/ Step(t)
       \/ Allocate(t)
       \/ \E b \in Blocks : Deallocate(t, b)
       \/ \E b \in Blocks, d \in Data : Write(t, b, d)
  \/ Close
  \/ DestroyBlock

Spec == Init /\ [][Next]_vars
-----------------------------------------------------------------------------
(***************************************************************************)
(* Properties                                                              *)
(***************************************************************************)

\* Every variable has its type; in particular the head of the list never
\* becomes what an owner wrote into its block.
TypeOK ==
  /\ heap \in SUBSET Blocks
  /\ top \in Tagged
  /\ word \in [Blocks -> Words]
  /\ held \in [Threads -> SUBSET Blocks]
  /\ apc \in [Threads -> Locations]
  /\ old \in [Threads -> Tagged]
  /\ link \in [Threads -> Words]
  /\ block \in [Threads -> Pointers]
  /\ free \in Seq(Blocks)

\* The links in memory are the list of free blocks, whatever the owners of
\* other blocks write and however the compare-and-swaps interleave.
ListIntact == IsList(top.ptr, word, free)

\* No block is handed out twice and none is lost: a block is with the
\* underlying allocator, in the list, or allocated by exactly one thread.
Exclusive ==
  \A b \in Blocks :
    /\ b \in heap \/ Occurs(b, free) \/ \E t \in Threads : b \in held[t]
    /\ b \in heap => ~Occurs(b, free)
    /\ \A t \in Threads : b \in held[t] =>
         /\ b \notin heap /\ ~Occurs(b, free)
         /\ \A u \in Threads \ {t} : b \notin held[u]

\* A compare-and-swap of allocate() that succeeds installs the link that the
\* block has now: the tag defeats the ABA problem.
AbaSafe ==
  \A t \in Threads :
    apc[t] = "alloc_cas" /\ top = old[t] => link[t] = word[old[t].ptr]

SnapshotOK(t) ==
  /\ apc[t] \in {"alloc_test", "alloc_cas"} =>
       /\ old[t].tag <= top.tag
       /\ old[t].ptr # Null /\ old[t].tag = top.tag => Occurs(old[t].ptr, free)
  /\ apc[t] = "alloc_cas" =>
       old[t].ptr # Null /\ (old[t].tag = top.tag => link[t] = word[old[t].ptr])
  /\ apc[t] \in {"dealloc", "dealloc_link", "dealloc_cas"} => block[t] \in held[t]
  /\ apc[t] = "dealloc_cas" => word[block[t]] = old[t].ptr
  /\ apc[t] = "closed" => held[t] = {}

\* While the tag of a snapshot is the tag of the head no block has left the
\* list, so the block of the snapshot is still in it with the link that was
\* read; a block on its way back is still its owner's.
Snapshots == \A t \in Threads : SnapshotOK(t)

\* The destructor gives every block back to the underlying allocator.
NothingLeaked ==
  (\A t \in Threads : apc[t] = "closed") /\ top.ptr = Null => heap = Blocks
=============================================================================
