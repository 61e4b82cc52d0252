------------------------------ MODULE MpmcQueue ------------------------------
(***************************************************************************)
(* ktl::lockfree::mpmc_queue (src/modules/lockfree/queue.hpp) on top of    *)
(* its node allocator: the Michael and Scott queue over recycled nodes.    *)
(*                                                                         *)
(* The first word of a node is its value while it is in the queue and the  *)
(* link of the free list while it is not; next is a word of its own that   *)
(* deallocation leaves alone.  Every access to shared memory is one step,  *)
(* the steps of the allocator included.                                    *)
(***************************************************************************)
EXTENDS Integers, Sequences, SequencesExt, FiniteSets

CONSTANTS
  Producers, Consumers,
  Blocks,      \* the memory blocks the nodes are made of
  Null,
  TagCount,    \* tags are modulo TagCount
  Crews        \* bound: who uses the queue, and how often: records of the
               \* users, the pushes of each producer, and the calls of
               \* unsynchronized_push

Threads == Producers \union Consumers
MaxPush == Max({c.pushes : c \in Crews})
MaxUnsync == Max({c.unsync : c \in Crews})
Values == (Producers \X (1..MaxPush)) \union {<<"unsync", n>> : n \in 1..MaxUnsync}

VARIABLES
  crew,        \* the one at work
  heap, top, word, held, apc, old, link, block, free,   \* of the allocator
  head, tail,  \* m_head, m_tail
  next,        \* next[b]: node::next
  pc,          \* where each thread is in push() or pop()
  loc,         \* the locals tail, head and next and the value of a call
  pushes,      \* pushes[p]: calls of push() by p so far
  unsync,      \* calls of unsynchronized_push so far
  items,       \* history: the values in the queue
  taken,       \* history: the values that pop() has returned, in order
  seen         \* history: seen[c]: the queue was empty at some instant since
               \* the pop() that c is in was called

A == INSTANCE NodeAllocator WITH Data <- Values, Initial <- 0

memory == <<heap, top, word, held, apc, old, link, block, free>>
ends == <<head, tail, next>>
history == <<pushes, unsync, taken>>
vars == <<crew, memory, ends, pc, loc, history, items, seen>>

Goto(t, label) == pc' = [pc EXCEPT ![t] = label]

NullRef == [ptr |-> Null, tag |-> 0]
NoLocals == [tl |-> NullRef, hd |-> NullRef, nx |-> NullRef, val |-> Null]

\* The call returns and its locals go out of scope.
Return(t) == Goto(t, "idle") /\ loc' = [loc EXCEPT ![t] = NoLocals]

\* A tagged pointer to b that succeeds p.
Ref(b, p) == [ptr |-> b, tag |-> A!NextTag(p)]
-----------------------------------------------------------------------------
(***************************************************************************)
(* push()                                                                  *)
(***************************************************************************)

\* create_data_node: allocate_single_object.
PushStart(p) ==
  /\ pc[p] = "idle" /\ p \in crew.users /\ pushes[p] < crew.pushes
  /\ pushes' = [pushes EXCEPT ![p] = @ + 1]
  /\ loc' = [loc EXCEPT ![p].val = <<p, pushes[p] + 1>>]
  /\ apc' = [apc EXCEPT ![p] = "alloc"]
  /\ Goto(p, "push_alloc")
  /\ UNCHANGED <<heap, top, word, held, old, link, block, free, ends, unsync,
                 taken>>

\* The allocator threw: push() is left without effect.
PushThrows(p) ==
  /\ pc[p] = "push_alloc" /\ apc[p] = "idle" /\ block[p] = Null
  /\ Return(p)
  /\ UNCHANGED <<memory, ends, history>>

\* The constructor of node: the value, then next{0}, then a load and a store
\* that increment its tag.
ConstructValue(p) ==
  /\ pc[p] = "push_alloc" /\ apc[p] = "idle" /\ block[p] # Null
  /\ word' = [word EXCEPT ![block[p]] = loc[p].val]
  /\ Goto(p, "push_zero")
  /\ UNCHANGED <<heap, top, held, apc, old, link, block, free, ends, loc, history>>

ConstructNext(p) ==
  /\ pc[p] = "push_zero"
  /\ next' = [next EXCEPT ![block[p]] = [ptr |-> Null, tag |-> 0]]
  /\ Goto(p, "push_tag")
  /\ UNCHANGED <<memory, head, tail, loc, history>>

ConstructLoadTag(p) ==
  /\ pc[p] = "push_tag"
  /\ loc' = [loc EXCEPT ![p].nx = next[block[p]]]
  /\ Goto(p, "push_store")
  /\ UNCHANGED <<memory, ends, history>>

ConstructStoreTag(p) ==
  /\ pc[p] = "push_store"
  /\ next' = [next EXCEPT ![block[p]] = Ref(Null, loc[p].nx)]
  /\ Goto(p, "push_tail")
  /\ UNCHANGED <<memory, head, tail, loc, history>>

PushLoadTail(p) ==
  /\ pc[p] = "push_tail"
  /\ loc' = [loc EXCEPT ![p].tl = tail]
  /\ Goto(p, "push_next")
  /\ UNCHANGED <<memory, ends, history>>

PushLoadNext(p) ==
  /\ pc[p] = "push_next"
  /\ loc' = [loc EXCEPT ![p].nx = next[loc[p].tl.ptr]]
  /\ Goto(p, "push_check")
  /\ UNCHANGED <<memory, ends, history>>

\* tail == current_tail compares the pointers and not the tags.
PushCheckTail(p) ==
  /\ pc[p] = "push_check"
  /\ Goto(p, IF tail.ptr # loc[p].tl.ptr THEN "push_tail"
             ELSE IF loc[p].nx.ptr = Null THEN "push_cas" ELSE "push_help")
  /\ UNCHANGED <<memory, ends, loc, history>>

\* Mutant: a store instead of the compare-and-swap.
PushStoreNext(p) ==
  /\ pc[p] = "push_cas"
  /\ next' = [next EXCEPT ![loc[p].tl.ptr] = Ref(block[p], loc[p].nx)]
  /\ held' = [held EXCEPT ![p] = @ \ {block[p]}]
  /\ Goto(p, "push_swing")
  /\ UNCHANGED <<heap, top, word, apc, old, link, block, free, head, tail, loc, history>>

\* cas_weak_helper(tail_ptr->next, next, new_tail_next): the node is published.
PushCasNext(p) ==
  /\ pc[p] = "push_cas"
  /\ IF next[loc[p].tl.ptr] = loc[p].nx
     THEN /\ next' = [next EXCEPT ![loc[p].tl.ptr] = Ref(block[p], loc[p].nx)]
          /\ held' = [held EXCEPT ![p] = @ \ {block[p]}]
          /\ Goto(p, "push_swing")
     ELSE Goto(p, "push_tail") /\ UNCHANGED <<next, held>>
  /\ UNCHANGED <<heap, top, word, apc, old, link, block, free, head, tail, loc, history>>

\* cas_strong_helper on m_tail after the node is published; push() returns.
PushSwingTail(p) ==
  /\ pc[p] = "push_swing"
  /\ tail' = IF tail = loc[p].tl THEN Ref(block[p], loc[p].tl) ELSE tail
  /\ Return(p)
  /\ UNCHANGED <<memory, head, next, history>>

\* cas_strong_helper on behalf of another push().
PushHelpTail(p) ==
  /\ pc[p] = "push_help"
  /\ tail' = IF tail = loc[p].tl THEN Ref(loc[p].nx.ptr, loc[p].tl) ELSE tail
  /\ Goto(p, "push_tail")
  /\ UNCHANGED <<memory, head, next, loc, history>>
-----------------------------------------------------------------------------
(***************************************************************************)
(* pop()                                                                   *)
(***************************************************************************)

PopLoadHead(c) ==
  /\ pc[c] \in {"idle", "pop_head"} /\ c \in crew.users
  /\ loc' = [loc EXCEPT ![c].hd = head]
  /\ Goto(c, "pop_tail")
  /\ UNCHANGED <<memory, ends, history>>

PopLoadTail(c) ==
  /\ pc[c] = "pop_tail"
  /\ loc' = [loc EXCEPT ![c].tl = tail]
  /\ Goto(c, "pop_next")
  /\ UNCHANGED <<memory, ends, history>>

PopLoadNext(c) ==
  /\ pc[c] = "pop_next"
  /\ loc' = [loc EXCEPT ![c].nx = next[loc[c].hd.ptr]]
  /\ Goto(c, "pop_check")
  /\ UNCHANGED <<memory, ends, history>>

\* The head has moved, or a node that is being recycled was seen: start over.
PopRetry(c) ==
  /\ pc[c] = "pop_check"
  /\ \/ head.ptr # loc[c].hd.ptr
     \/ loc[c].hd.ptr # loc[c].tl.ptr /\ loc[c].nx.ptr = Null
  /\ Goto(c, "pop_head")
  /\ UNCHANGED <<memory, ends, loc, history>>

\* Mutant: next is not looked at.
PopEmptyUnchecked(c) ==
  /\ pc[c] = "pop_check"
  /\ head.ptr = loc[c].hd.ptr /\ loc[c].hd.ptr = loc[c].tl.ptr
  /\ Return(c)
  /\ UNCHANGED <<memory, ends, history>>

\* pop() returns false.
PopEmpty(c) ==
  /\ pc[c] = "pop_check"
  /\ head.ptr = loc[c].hd.ptr /\ loc[c].hd.ptr = loc[c].tl.ptr
  /\ loc[c].nx.ptr = Null
  /\ Return(c)
  /\ UNCHANGED <<memory, ends, history>>

\* Mutant: m_tail is not looked at.
PopCheckHeadOnly(c) ==
  /\ pc[c] = "pop_check"
  /\ head.ptr = loc[c].hd.ptr /\ loc[c].nx.ptr # Null
  /\ Goto(c, "pop_value")
  /\ UNCHANGED <<memory, ends, loc, history>>

PopCheckHead(c) ==
  /\ pc[c] = "pop_check"
  /\ head.ptr = loc[c].hd.ptr /\ loc[c].nx.ptr # Null
  /\ Goto(c, IF loc[c].hd.ptr = loc[c].tl.ptr THEN "pop_help" ELSE "pop_value")
  /\ UNCHANGED <<memory, ends, loc, history>>

\* Mutant: pop() waits for the push() that lags to move m_tail itself.
PopHelpNot(c) ==
  /\ pc[c] = "pop_help"
  /\ Goto(c, "pop_head")
  /\ UNCHANGED <<memory, ends, loc, history>>

PopHelpTail(c) ==
  /\ pc[c] = "pop_help"
  /\ tail' = IF tail = loc[c].tl THEN Ref(loc[c].nx.ptr, loc[c].tl) ELSE tail
  /\ Goto(c, "pop_head")
  /\ UNCHANGED <<memory, head, next, loc, history>>

\* value = next_ptr->value: the node may be recycled by now.
PopReadValue(c) ==
  /\ pc[c] = "pop_value"
  /\ loc' = [loc EXCEPT ![c].val = word[loc[c].nx.ptr]]
  /\ Goto(c, "pop_cas")
  /\ UNCHANGED <<memory, ends, history>>

\* Mutant: the old dummy is not given back.
PopCasHeadLeaks(c) ==
  /\ pc[c] = "pop_cas" /\ head = loc[c].hd
  /\ head' = Ref(loc[c].nx.ptr, loc[c].hd)
  /\ taken' = Append(taken, loc[c].val)
  /\ Goto(c, "pop_free")
  /\ UNCHANGED <<memory, tail, next, loc, pushes, unsync>>

\* cas_weak_helper on m_head, then destroy_node.
PopCasHead(c) ==
  /\ pc[c] = "pop_cas" /\ head = loc[c].hd
  /\ head' = Ref(loc[c].nx.ptr, loc[c].hd)
  /\ taken' = Append(taken, loc[c].val)
  /\ held' = [held EXCEPT ![c] = @ \union {loc[c].hd.ptr}]
  /\ block' = [block EXCEPT ![c] = loc[c].hd.ptr]
  /\ apc' = [apc EXCEPT ![c] = "dealloc"]
  /\ Goto(c, "pop_free")
  /\ UNCHANGED <<heap, top, word, old, link, free, tail, next, loc, pushes, unsync>>

PopCasHeadFails(c) ==
  /\ pc[c] = "pop_cas" /\ head # loc[c].hd
  /\ Goto(c, "pop_head")
  /\ UNCHANGED <<memory, ends, loc, history>>

\* destroy_node has returned; pop() returns true.
PopDone(c) ==
  /\ pc[c] = "pop_free" /\ apc[c] = "idle"
  /\ Return(c)
  /\ UNCHANGED <<memory, ends, history>>

\* A step of allocate() or deallocate() inside push() or pop().
AllocatorStep(t) == A!Step(t) /\ UNCHANGED <<ends, pc, loc, history>>
-----------------------------------------------------------------------------
(***************************************************************************)
(* The contents, the unsynchronised operations and the destructor          *)
(***************************************************************************)

\* The nodes from b on, as the links lead.
Chain(b) ==
  LET walk[n \in 0..Cardinality(Blocks)] ==
        IF n = 0 THEN <<b>>
        ELSE LET s == walk[n - 1]
                 l == next[Last(s)].ptr
             IN IF l = Null THEN s ELSE Append(s, l)
  IN walk[Cardinality(Blocks)]

Nodes == Chain(head.ptr)

\* The values in the queue; the first node is the dummy.
Contents == LET n == Tail(Nodes) IN [i \in 1..Len(n) |-> word[n[i]]]

Quiet == \A t \in Threads : pc[t] = "idle"

\* unsynchronized_push in one step: no other call runs.  Every link that the
\* loop follows costs m_tail a tag.
UnsynchronizedPush ==
  /\ Quiet /\ unsync < crew.unsync
  /\ \E b \in IF top.ptr = Null THEN heap ELSE {top.ptr} :
       LET behind == Chain(tail.ptr)
           last == Last(behind)
       IN /\ word' = [word EXCEPT ![b] = <<"unsync", unsync + 1>>]
          /\ next' = [next EXCEPT ![b] = Ref(Null, NullRef),
                                  ![last] = Ref(b, next[last])]
          /\ tail' = [ptr |-> b, tag |-> (tail.tag + Len(behind)) % TagCount]
          /\ heap' = heap \ {b}
          /\ IF top.ptr = Null
             THEN UNCHANGED <<top, free>>
             ELSE /\ top' = [ptr |-> word[b], tag |-> A!NextTag(top)]
                  /\ free' = Tail(free)
  /\ unsync' = unsync + 1
  /\ UNCHANGED <<held, apc, old, link, block, head, pc, loc, pushes, taken>>

\* deallocate() in one step.
GiveBack(b) ==
  /\ word' = [word EXCEPT ![b] = top.ptr]
  /\ top' = [ptr |-> b, tag |-> top.tag]
  /\ free' = <<b>> \o free

\* An unsynchronised pop that finds an element, in one step: m_tail is helped
\* when it is at the dummy.
UnlinkHead ==
  LET first == next[head.ptr].ptr
  IN /\ first # Null
     /\ tail' = IF head.ptr = tail.ptr THEN Ref(first, tail) ELSE tail
     /\ head' = Ref(first, head)
     /\ GiveBack(head.ptr)

UnsynchronizedPop ==
  /\ Quiet
  /\ UnlinkHead
  /\ taken' = Append(taken, word[next[head.ptr].ptr])
  /\ UNCHANGED <<heap, held, apc, old, link, block, next, pc, loc, pushes, unsync>>

\* ~mpmc_queue starts when no call is in progress.
Destroy ==
  /\ Quiet
  /\ pc' = [t \in Threads |-> "destroy"]
  /\ UNCHANGED <<memory, ends, loc, history>>

Destroying == \A t \in Threads : pc[t] = "destroy"

\* unsynchronized_pop_impl<false>.
DropElement ==
  /\ Destroying
  /\ UnlinkHead
  /\ UNCHANGED <<heap, held, apc, old, link, block, next, pc, loc, history>>

\* destroy_node(m_head), and the members are destroyed.
DestroyDummy ==
  /\ Destroying /\ next[head.ptr].ptr = Null /\ head.ptr = tail.ptr
  /\ GiveBack(head.ptr)
  /\ apc' = [t \in Threads |-> "closed"]
  /\ pc' = [t \in Threads |-> "closed"]
  /\ UNCHANGED <<heap, held, old, link, block, ends, loc, history>>

DestroyAllocator == A!DestroyBlock /\ UNCHANGED <<ends, pc, loc, history>>
-----------------------------------------------------------------------------
\* initialize(): a dummy node.  Words that are not initialised are not read
\* before they are written.
Init ==
  \E dummy \in Blocks :
    /\ crew \in Crews
    /\ heap = Blocks \ {dummy}
    /\ head = [ptr |-> dummy, tag |-> 0]
    /\ tail = head
    /\ next = [b \in Blocks |-> NullRef]
    /\ word = [b \in Blocks |-> Null]
    /\ top = NullRef /\ free = <<>>
    /\ held = [t \in Threads |-> {}]
    /\ apc = [t \in Threads |-> "idle"]
    /\ old = [t \in Threads |-> NullRef]
    /\ link = [t \in Threads |-> Null]
    /\ block = [t \in Threads |-> Null]
    /\ pc = [t \in Threads |-> "idle"]
    /\ loc = [t \in Threads |-> NoLocals]
    /\ pushes = [p \in Producers |-> 0]
    /\ unsync = 0 /\ items = <<>> /\ taken = <<>>
    /\ seen = [c \in Consumers |-> TRUE]

Push(p) ==
  \/ PushStart(p) \/ PushThrows(p)
  \/ ConstructValue(p) \/ ConstructNext(p)
  \/ ConstructLoadTag(p) \/ ConstructStoreTag(p)
  \/ PushLoadTail(p) \/ PushLoadNext(p) \/ PushCheckTail(p)
  \/ PushCasNext(p) \/ PushSwingTail(p) \/ PushHelpTail(p)
  \/ AllocatorStep(p)

Pop(c) ==
  \/ PopLoadHead(c) \/ PopLoadTail(c) \/ PopLoadNext(c)
  \/ PopRetry(c) \/ PopEmpty(c) \/ PopCheckHead(c) \/ PopHelpTail(c) \/ PopReadValue(c)
  \/ PopCasHead(c) \/ PopCasHeadFails(c) \/ PopDone(c)
  \/ AllocatorStep(c)

Step ==
  \/ \E p \in Producers : Push(p)
  \/ \E c \in Consumers : Pop(c)
  \/ UnsynchronizedPush \/ UnsynchronizedPop
  \/ Destroy \/ DropElement \/ DestroyDummy \/ DestroyAllocator

\* The history variables only watch.
Watch ==
  /\ items' = Contents'
  /\ seen' = [c \in Consumers |-> (pc[c] # "idle" /\ seen[c]) \/ items' = <<>>]

Next == Step /\ Watch /\ UNCHANGED crew

\* t is inside push() or pop(), and goes on.
InCall(t) == pc[t] \notin {"idle", "destroy", "closed"}
Continue(t) ==
  /\ InCall(t)
  /\ \/ t \in Producers /\ Push(t)
     \/ t \in Consumers /\ Pop(t)
  /\ Watch /\ UNCHANGED crew

Spec == Init /\ [][Next]_vars
-----------------------------------------------------------------------------
(***************************************************************************)
(* Properties                                                              *)
(***************************************************************************)

\* Every variable has its type: the links of nodes and of the free list never
\* take what is left of an element for a pointer.
TypeOK ==
  /\ crew \in Crews
  /\ A!TypeOK
  /\ {head, tail} \subseteq A!Tagged
  /\ next \in [Blocks -> A!Tagged]
  /\ \A t \in Threads : {loc[t].tl, loc[t].hd, loc[t].nx} \subseteq A!Tagged
  /\ taken \in Seq(Values)

Open == \A t \in Threads : pc[t] \notin {"destroy", "closed"}

Fifo == INSTANCE FifoQueue WITH open <- Open

\* The queue is a first-in first-out queue: push() takes effect when its node
\* is linked, pop() when m_head moves, and a value is returned once, in order.
IsFifo == Fifo!Spec

\* m_tail lags behind the last node at most, and m_head never overtakes it:
\* the node that m_tail designates is never given back to the allocator.
TailInQueue == pc # [t \in Threads |-> "closed"] => Contains(Nodes, tail.ptr)

\* Every node is in one place: with the underlying allocator, in the free
\* list, in the queue, or with the one thread that allocated it or took it out.
NodesConserved ==
  pc # [t \in Threads |-> "closed"] =>
    LET places == <<heap, Range(free), Range(Nodes)>>
    IN \A b \in Blocks :
         Cardinality({i \in 1..3 : b \in places[i]})
           + Cardinality({t \in Threads : b \in held[t]}) = 1

\* push() links its node behind the last node of the queue, never behind one
\* that was recycled since it was read: the purpose of the tag of node::next.
LinksLast ==
  [][\A p \in Producers :
       pc[p] = "push_cas" /\ pc'[p] = "push_swing" =>
         Last(Nodes) = loc[p].tl.ptr]_vars

\* With one consumer pop() returns false only when the queue was empty during
\* the call, whatever node m_head and m_tail were at when they were compared.
EmptyIsTrue ==
  [][\A c \in Consumers :
       crew.users \intersect Consumers = {c} /\ pc[c] = "pop_check" /\ pc'[c] = "idle"
         => seen[c]]_vars

\* The destructor gives all memory back, of elements left in the queue too.
AllGivenBack == (\A t \in Threads : pc[t] = "closed") /\ top.ptr = Null => heap = Blocks
=============================================================================
