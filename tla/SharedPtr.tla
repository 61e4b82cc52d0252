------------------------------ MODULE SharedPtr ------------------------------
(***************************************************************************)
(* ktl::shared_ptr and ktl::weak_ptr (src/include/smart_pointer.hpp).      *)
(*                                                                         *)
(* A control block counts the shared pointers that own its object, and the *)
(* weak pointers plus one for all the owners together.  Threads work on    *)
(* pointers of their own or read common ones; every operation on a counter *)
(* is one step.  An object may contain a shared pointer, its child.        *)
(***************************************************************************)
EXTENDS Integers, Sequences, FiniteSets

CONSTANTS
  PtrThreads,
  Crews,        \* the sets of threads that may be at work
  Racy,         \* whether threads lock weak pointers beside other threads and
                \* assign p = p->child to the last owner of an object
  Shared, Weak, \* the pointer variables
  Counters,       \* control blocks, each with its object
  NoCounter

SmartPointers == Shared \union Weak

SharedPtrAssumption ==
  /\ IsFiniteSet(PtrThreads) /\ IsFiniteSet(SmartPointers) /\ IsFiniteSet(Counters)
  /\ Crews \subseteq SUBSET PtrThreads
  /\ Shared \intersect Weak = {} /\ SmartPointers \intersect Counters = {}
  /\ NoCounter \notin SmartPointers \union Counters

VARIABLES
  crew,    \* the threads at work
  val,     \* val[p]: m_ref_counter (and m_value_ptr) of each pointer
  state,   \* of each block: "free", "live", or "dead" when only its object is
  strong,  \* m_strong_counter
  weak,    \* m_weak_counter
  child,   \* child[b]: the shared pointer in the object of b
  pc,      \* what each thread does when its releases are done
  dst, src,\* operands of the call; a block as src is the child of its object
  todo     \* todo[t]: releases in progress, innermost first

blocks == <<state, strong, weak, child>>
call == <<pc, dst, src, todo>>
sharedVars == <<crew, val, blocks, call>>

\* Nothing happens between two steps of a call.
Alone(t) == crew = {t}

\* The contract of the pointers: a call changes p when nobody else is in a
\* call that uses it, and reads q when nobody is in a call that changes it.
Unused(p) == \A t \in PtrThreads : pc[t] # "idle" => p \notin {dst[t], src[t]}
Readable(q) == \A t \in PtrThreads : pc[t] # "idle" => q # dst[t] /\ (pc[t] = "move" => q # src[t])

Job(op, b) == [op |-> op, block |-> b]

\* decref_if_not_null: Release of an owner, Unfollow of a weak pointer.
Decref(p) ==
  IF val[p] = NoCounter THEN <<>>
  ELSE <<Job(IF p \in Shared THEN "release" ELSE "unfollow", val[p])>>

StartCall(t, p, q, then) ==
  /\ pc[t] = "idle" /\ Unused(p) /\ (IF then = "move" THEN Unused(q) ELSE Readable(q))
  /\ dst' = [dst EXCEPT ![t] = p]
  /\ src' = [src EXCEPT ![t] = q]
  /\ pc' = [pc EXCEPT ![t] = then]
-----------------------------------------------------------------------------
(***************************************************************************)
(* ref_counter_base                                                        *)
(***************************************************************************)

Doing(t, op) == todo[t] # <<>> /\ Head(todo[t]).op = op

\* Mutant: the object is destroyed while one owner is left.
ReleaseEarly(t) ==
  LET b == Head(todo[t]).block
  IN /\ Doing(t, "release")
     /\ strong' = [strong EXCEPT ![b] = @ - 1]
     /\ todo' = [todo EXCEPT ![t] =
                   (IF strong[b] <= 2 THEN <<Job("destroy", b)>> ELSE <<>>) \o Tail(@)]
     /\ UNCHANGED <<val, state, weak, child, pc, dst, src>>

\* Release(): the decrement; destroy_object and Unfollow follow the last one.
Release(t) ==
  LET b == Head(todo[t]).block
  IN /\ Doing(t, "release")
     /\ strong' = [strong EXCEPT ![b] = @ - 1]
     /\ todo' = [todo EXCEPT ![t] =
                   (IF strong[b] = 1 THEN <<Job("destroy", b)>> ELSE <<>>) \o Tail(@)]
     /\ UNCHANGED <<val, state, weak, child, pc, dst, src>>

\* destroy_object: the destructor of the object releases its child first.
DestroyObject(t) ==
  LET b == Head(todo[t]).block
  IN /\ Doing(t, "destroy")
     /\ state' = [state EXCEPT ![b] = "dead"]
     /\ child' = [child EXCEPT ![b] = NoCounter]
     /\ todo' = [todo EXCEPT ![t] =
                   (IF child[b] = NoCounter THEN <<>> ELSE <<Job("release", child[b])>>)
                     \o <<Job("unfollow", b)>> \o Tail(@)]
     /\ UNCHANGED <<val, strong, weak, pc, dst, src>>

\* Unfollow(): the decrement; delete_this follows the last one.
Unfollow(t) ==
  LET b == Head(todo[t]).block
  IN /\ Doing(t, "unfollow")
     /\ weak' = [weak EXCEPT ![b] = @ - 1]
     /\ state' = [state EXCEPT ![b] = IF weak[b] = 1 THEN "free" ELSE @]
     /\ todo' = [todo EXCEPT ![t] = Tail(@)]
     /\ UNCHANGED <<val, strong, child, pc, dst, src>>
-----------------------------------------------------------------------------
(***************************************************************************)
(* Pointers                                                                *)
(***************************************************************************)

\* shared_ptr(ptr), make_shared: a control block with both counters at one.
\* When it cannot be allocated the object is gone and nothing has changed.
Make(t, p) ==
  /\ pc[t] = "idle" /\ Unused(p) /\ val[p] = NoCounter
  /\ \E b \in Counters :
       /\ state[b] = "free"
       /\ val' = [val EXCEPT ![p] = b]
       /\ state' = [state EXCEPT ![b] = "live"]
       /\ strong' = [strong EXCEPT ![b] = 1]
       /\ weak' = [weak EXCEPT ![b] = 1]
       /\ child' = [child EXCEPT ![b] = NoCounter]
  /\ UNCHANGED call

\* operator=(const&) and the copy constructor (p is empty), of owners and of
\* weak pointers: copy_construct_from.
CopyAssign(t, p, q) ==
  /\ p # q /\ (p \in Shared => q \in Shared)
  /\ StartCall(t, p, q, "copy")
  /\ todo' = [todo EXCEPT ![t] = Decref(p)]
  /\ UNCHANGED <<val, blocks>>

\* p = p->child.
WalkDown(t, p) ==
  /\ val[p] # NoCounter
  /\ Racy \/ (Alone(t) /\ \E q \in Shared \ {p} : val[q] = val[p])
  /\ StartCall(t, p, val[p], "copy")
  /\ todo' = [todo EXCEPT ![t] = Decref(p)]
  /\ UNCHANGED <<val, blocks>>

MoveAssign(t, p, q) ==
  /\ p # q /\ (p \in Shared <=> q \in Shared)
  /\ StartCall(t, p, q, "move")
  /\ todo' = [todo EXCEPT ![t] = Decref(p)]
  /\ UNCHANGED <<val, blocks>>

\* reset() and the destructors.
ResetPointer(t, p) ==
  /\ val[p] # NoCounter
  /\ StartCall(t, p, p, "reset")
  /\ todo' = [todo EXCEPT ![t] = Decref(p)]
  /\ UNCHANGED <<val, blocks>>

\* The decref is done: what the call was for.
Ready(t, label) == pc[t] = label /\ todo[t] = <<>>

SourceAlive(t) == src[t] \in Counters => state[src[t]] = "live"

Source(t) == IF src[t] \in Counters THEN child[src[t]] ELSE val[src[t]]

Return(t) == pc' = [pc EXCEPT ![t] = "idle"] /\ UNCHANGED <<dst, src, todo>>

\* Mutant: the copy is not counted.
CopyUncounted(t) ==
  /\ Ready(t, "copy") /\ SourceAlive(t)
  /\ val' = [val EXCEPT ![dst[t]] = Source(t)]
  /\ Return(t)
  /\ UNCHANGED blocks

\* copy_construct_from after the decref: copy, incref_if_not_null.
Copy(t) ==
  /\ Ready(t, "copy") /\ SourceAlive(t)
  /\ val' = [val EXCEPT ![dst[t]] = Source(t)]
  /\ IF Source(t) = NoCounter THEN UNCHANGED <<strong, weak>>
     ELSE IF dst[t] \in Shared
     THEN strong' = [strong EXCEPT ![Source(t)] = @ + 1] /\ UNCHANGED weak
     ELSE weak' = [weak EXCEPT ![Source(t)] = @ + 1] /\ UNCHANGED strong
  /\ Return(t)
  /\ UNCHANGED <<state, child>>

Move(t) ==
  /\ Ready(t, "move")
  /\ val' = [val EXCEPT ![dst[t]] = val[src[t]], ![src[t]] = NoCounter]
  /\ Return(t)
  /\ UNCHANGED blocks

Clear(t) ==
  /\ Ready(t, "reset")
  /\ val' = [val EXCEPT ![dst[t]] = NoCounter]
  /\ Return(t)
  /\ UNCHANGED blocks

Swap(t, p, q) ==
  /\ p # q /\ (p \in Shared <=> q \in Shared)
  /\ pc[t] = "idle" /\ Unused(p) /\ Unused(q)
  /\ val' = [val EXCEPT ![p] = val[q], ![q] = val[p]]
  /\ UNCHANGED <<blocks, call>>

\* q->child = p, of an object that has none.
SetChild(t, q, p) ==
  /\ pc[t] = "idle" /\ Readable(p) /\ Readable(q) /\ val[p] # NoCounter
  /\ val[q] # NoCounter /\ Unused(val[q]) /\ child[val[q]] = NoCounter
  /\ child' = [child EXCEPT ![val[q]] = val[p]]
  /\ strong' = [strong EXCEPT ![val[p]] = @ + 1]
  /\ UNCHANGED <<val, state, weak, call>>

\* weak_ptr::lock into an empty owner, shared_ptr(weak_ptr): expired() first.
LockTest(t, p, w) ==
  /\ Racy \/ Alone(t)
  /\ val[p] = NoCounter /\ val[w] # NoCounter
  /\ strong[val[w]] # 0
  /\ StartCall(t, p, w, "acquire")
  /\ UNCHANGED <<val, blocks, todo>>

\* construct_from_weak: Acquire().
LockAcquire(t) ==
  /\ Ready(t, "acquire")
  /\ strong' = [strong EXCEPT ![val[src[t]]] = @ + 1]
  /\ val' = [val EXCEPT ![dst[t]] = val[src[t]]]
  /\ Return(t)
  /\ UNCHANGED <<state, weak, child>>
-----------------------------------------------------------------------------
SharedInit ==
  /\ crew \in Crews
  /\ val = [p \in SmartPointers |-> NoCounter]
  /\ state = [b \in Counters |-> "free"]
  /\ strong = [b \in Counters |-> 0]
  /\ weak = [b \in Counters |-> 0]
  /\ child = [b \in Counters |-> NoCounter]
  /\ pc = [t \in PtrThreads |-> "idle"]
  /\ dst = [t \in PtrThreads |-> NoCounter]
  /\ src = [t \in PtrThreads |-> NoCounter]
  /\ todo = [t \in PtrThreads |-> <<>>]

\* A call in progress goes on.
SharedStep(t) ==
  \/ Release(t) \/ DestroyObject(t) \/ Unfollow(t)
  \/ Copy(t) \/ Move(t) \/ Clear(t) \/ LockAcquire(t)

Call(t) ==
  \/ \E p \in Shared : Make(t, p) \/ WalkDown(t, p)
  \/ \E p \in SmartPointers : ResetPointer(t, p)
  \/ \E p, q \in SmartPointers : CopyAssign(t, p, q) \/ MoveAssign(t, p, q) \/ Swap(t, p, q)
  \/ \E p, q \in Shared : SetChild(t, q, p)
  \/ \E p \in Shared, w \in Weak : LockTest(t, p, w)

SharedNext == (\E t \in crew : SharedStep(t) \/ Call(t)) /\ UNCHANGED crew

SharedSpec == SharedInit /\ [][SharedNext]_sharedVars
-----------------------------------------------------------------------------
(***************************************************************************)
(* Properties                                                              *)
(***************************************************************************)

\* What a pointer that is not in the middle of a call designates is there: an
\* object for an owner, a control block for a weak pointer.
PointeesExist ==
  \A p \in SmartPointers : val[p] # NoCounter /\ Unused(p) =>
    state[val[p]] \in (IF p \in Shared THEN {"live"} ELSE {"live", "dead"})

\* The owner p is on its way out: its decrement is done.
Leaving(p) ==
  \E t \in PtrThreads :
    /\ pc[t] \in {"copy", "move", "reset"} /\ dst[t] = p
    /\ todo[t] # Decref(p)

Owners(b) == {p \in Shared : val[p] = b /\ ~Leaving(p)}

\* Children that their dead object is about to release.
Orphans(b) ==
  {t \in PtrThreads : Len(todo[t]) > 1 /\ Head(todo[t]) = Job("release", b)}

\* The strong counter is the number of owners: pointers, children of objects,
\* and children of an object that is being destroyed.
StrongExact ==
  \A b \in Counters : state[b] = "live" =>
    strong[b] = Cardinality(Owners(b)) + Cardinality({c \in Counters : child[c] = b})
                  + Cardinality(Orphans(b))

\* When no call is in progress a control block exists exactly as long as a
\* pointer designates it, and its object as long as an owner does: nothing is
\* leaked or destroyed twice.
NoCounterLeaked ==
  (\A t \in PtrThreads : pc[t] = "idle") =>
    \A b \in Counters :
      LET owned == (\E p \in Shared : val[p] = b) \/ \E c \in Counters : child[c] = b
          watched == \E p \in Weak : val[p] = b
      IN state[b] = IF owned THEN "live" ELSE IF watched THEN "dead" ELSE "free"

\* An assignment reads its source while the source exists.
SourceExists == \A t \in PtrThreads : Ready(t, "copy") => SourceAlive(t)

\* What a shared_ptr or weak_ptr designates is there, also the source of an
\* assignment when it is read.
NothingDangles == PointeesExist /\ SourceExists

\* The strong counter of a control block is the number of its owners, and the
\* block goes with its last pointer.
CountersExact == StrongExact /\ NoCounterLeaked
=============================================================================
