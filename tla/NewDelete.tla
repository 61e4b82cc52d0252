------------------------------ MODULE NewDelete ------------------------------
(***************************************************************************)
(* operator new and delete (src/new_delete.cpp), the kernel pools below    *)
(* them (heap.cpp) and the allocators above (allocator.hpp).  Threads      *)
(* allocate, free and replace the new handler; a call that finds no memory *)
(* asks for the handler, runs it and tries again.  Sizes are counted in    *)
(* units of the default alignment.                                         *)
(***************************************************************************)
EXTENDS Integers, Sequences, FiniteSets

CONSTANTS
  HThreads,
  Capacity,       \* blocks the pools have
  CacheLine, Page,    \* the alignments above the default one, which is 1
  Counts, Alignments, \* objects asked for at a time, alignments of their types
  MaxSets         \* bound: calls of set_new_handler

VARIABLES
  blocks,         \* the blocks of the pools, with what was asked for; Free: not allocated
  wanted,         \* how many objects the program asks for at a time, how aligned, by which overload
  new_handler,
  calls,          \* thread -> the operator new it is in, or NoCall
  spare,        \* blocks that the handler can give back
  sets,           \* calls of set_new_handler
  stopped         \* terminate() was called

hvars == <<blocks, wanted, new_handler, calls, spare, sets, stopped>>

NoCall == [at |-> "none"]
NoHandler == "none"
DEFAULT_HEAP_TAG == "KTLd"
ObjectSize == 2
Free == [size |-> 0]

-----------------------------------------------------------------------------
(* The pools.                                                              *)

\* What alloc_request_builder builds.
Request(bytes_count, pool_type, alignment, pool_tag) ==
  [bytes_count |-> bytes_count, pool_type |-> pool_type, alignment |-> alignment, pool_tag |-> pool_tag]

get_max_alignment_for_pool(pool_type) == IF pool_type = "PagedPoolCacheAligned" THEN CacheLine ELSE 1

\* Mutant: a page alignment is asked of the pool as it is.
AllocateUnrounded(request) == request.bytes_count

\* The size that is asked for: a block of a page or more begins at a page.
allocate_impl(request) ==
  IF request.alignment <= get_max_alignment_for_pool(request.pool_type) \/ request.bytes_count >= Page THEN request.bytes_count
  ELSE Page

\* ExAllocatePoolUninitialized.
PoolBlock(size, request) ==
  [size |-> size, tag |-> request.pool_tag, request |-> request,
   alignment |-> IF size >= Page THEN Page ELSE get_max_alignment_for_pool(request.pool_type)]
Live == {b \in 1..Capacity : blocks[b] # Free}
Exhausted == Cardinality(Live) + spare >= Capacity
Allocate(request) ==
  LET b == CHOOSE b \in 1..Capacity \ Live : TRUE
  IN blocks' = [blocks EXCEPT ![b] = PoolBlock(allocate_impl(request), request)]

-----------------------------------------------------------------------------
(* operator new.                                                           *)

\* The overloads: with or without an alignment, a pool (where none is named, one of them that the build selects); each of them also with nothrow.
Forms == [aligned : BOOLEAN, pool : {"paged", "non paged"}]
operator_new(form, bytes_count, alignment) ==
  Request(bytes_count, IF form.pool = "non paged" THEN "NonPagedPool" ELSE "PagedPool", IF form.aligned THEN alignment ELSE 1,
          DEFAULT_HEAP_TAG)

HeapInit ==
  /\ blocks = [b \in 1..Capacity |-> Free] /\ wanted \in [count : Counts, alignment : Alignments, form : Forms]
  /\ new_handler = NoHandler /\ calls = [t \in HThreads |-> NoCall] /\ spare = 1 /\ sets = 0 /\ stopped = FALSE

set_new_handler(t, h) ==
  /\ calls[t] = NoCall /\ sets < MaxSets
  /\ new_handler' = h /\ sets' = sets + 1
  /\ UNCHANGED <<blocks, wanted, calls, spare, stopped>>

\* aligned_allocator::allocate calls one of the forms with an alignment.
CallNew(t, nothrow) ==
  /\ calls[t] = NoCall
  /\ calls' = [calls EXCEPT ![t] = [at |-> "allocate", nothrow |-> nothrow, handler |-> NoHandler,
                                    request |-> operator_new(wanted.form, wanted.count * ObjectSize, wanted.alignment)]]
  /\ UNCHANGED <<blocks, wanted, new_handler, spare, sets, stopped>>

\* operator_new_impl: one turn of its loop.
Ends(t) == calls' = [calls EXCEPT ![t] = NoCall]
AllocateMemory(t) ==
  /\ calls[t].at = "allocate"
  /\ IF Exhausted THEN calls' = [calls EXCEPT ![t].at = "get_new_handler"] /\ UNCHANGED blocks
     ELSE Allocate(calls[t].request) /\ Ends(t)
  /\ UNCHANGED <<wanted, new_handler, spare, sets, stopped>>

\* Mutant: without a handler every form tries again.
GetNewHandlerRetries(t) ==
  /\ calls[t].at = "get_new_handler"
  /\ IF new_handler # NoHandler
       THEN calls' = [calls EXCEPT ![t].at = "handler", ![t].handler = new_handler]
     ELSE calls' = [calls EXCEPT ![t].at = "allocate"]
  /\ UNCHANGED <<blocks, wanted, new_handler, spare, sets, stopped>>

\* Without a handler the nothrow forms try again.
GetNewHandler(t) ==
  /\ calls[t].at = "get_new_handler"
  /\ IF new_handler # NoHandler
       THEN calls' = [calls EXCEPT ![t].at = "handler", ![t].handler = new_handler]
     ELSE IF calls[t].nothrow THEN calls' = [calls EXCEPT ![t].at = "allocate"]
     ELSE Ends(t)
  /\ UNCHANGED <<blocks, wanted, new_handler, spare, sets, stopped>>

\* A handler gives a reserve back and, when there is none, uninstalls itself; or it throws.
Handler(t) ==
  /\ calls[t].at = "handler"
  /\ \/ /\ calls[t].handler = "reserve"
        /\ IF spare > 0 THEN spare' = spare - 1 /\ UNCHANGED new_handler ELSE new_handler' = NoHandler /\ UNCHANGED spare
        /\ calls' = [calls EXCEPT ![t].at = "allocate"] /\ UNCHANGED stopped
     \/ /\ calls[t].handler = "throws"
        /\ IF calls[t].nothrow THEN stopped' = TRUE /\ UNCHANGED calls ELSE Ends(t) /\ UNCHANGED stopped
        /\ UNCHANGED <<spare, new_handler>>
  /\ UNCHANGED <<blocks, wanted, sets>>

-----------------------------------------------------------------------------
(* operator delete, tagged_allocator.                                      *)

deallocate_memory(b, tag) == blocks[b].tag = tag /\ blocks' = [blocks EXCEPT ![b] = Free]

\* Every overload comes to this; the size and the alignment are not used.
operator_delete(t, b) ==
  /\ calls[t] = NoCall /\ b \in Live /\ blocks[b].request.pool_tag = DEFAULT_HEAP_TAG
  /\ deallocate_memory(b, DEFAULT_HEAP_TAG)
  /\ UNCHANGED <<wanted, new_handler, calls, spare, sets, stopped>>

\* bad_alloc is thrown at once.
allocate_tagged(t, pool_type) ==
  /\ calls[t] = NoCall
  /\ IF Exhausted THEN UNCHANGED blocks
     ELSE Allocate(Request(wanted.count * ObjectSize, pool_type, wanted.alignment, "tag"))
  /\ UNCHANGED <<wanted, new_handler, calls, spare, sets, stopped>>
deallocate_tagged(t, b) ==
  /\ calls[t] = NoCall /\ b \in Live /\ blocks[b].request.pool_tag = "tag"
  /\ deallocate_memory(b, "tag")
  /\ UNCHANGED <<wanted, new_handler, calls, spare, sets, stopped>>

NewStep(t) == ~stopped /\ (AllocateMemory(t) \/ GetNewHandler(t) \/ Handler(t))
HeapNext ==
  \E t \in HThreads :
    \/ NewStep(t)
    \/ ~stopped /\ \/ \E h \in {NoHandler, "reserve", "throws"} : set_new_handler(t, h)
                   \/ \E nothrow \in BOOLEAN : CallNew(t, nothrow)
                   \/ \E b \in Live : operator_delete(t, b) \/ deallocate_tagged(t, b)
                   \/ \E p \in {"PagedPool", "PagedPoolCacheAligned"} : allocate_tagged(t, p)
HeapSpec == HeapInit /\ [][HeapNext]_hvars /\ \A t \in HThreads : WF_hvars(NewStep(t))

-----------------------------------------------------------------------------
\* A block is as large and as aligned as was asked for, whatever the pool, the overload or the allocator;
\* its tag is the one it will be freed with, and the pools never have more blocks out than there are.
BlocksFit ==
  /\ \A b \in Live :
       /\ blocks[b].size >= blocks[b].request.bytes_count
       /\ blocks[b].alignment >= blocks[b].request.alignment
       /\ blocks[b].tag = blocks[b].request.pool_tag
  /\ Cardinality(Live) + spare <= Capacity

\* "throw ktl::bad_alloc if fails": a throwing operator new comes to an end, also if the pools stay exhausted, the handler is
\* replaced while the call is between its steps, or handlers give up.
NewEnds ==
  \A t \in HThreads : calls[t].at # "none" /\ ~calls[t].nothrow ~> (calls[t] = NoCall \/ stopped)
=============================================================================
