---------------------------- MODULE ExceptionBase ----------------------------
(***************************************************************************)
(* crt::exception_base (src/runtime/src/exception.cpp) on top of the       *)
(* exception allocator: exceptions share a counted message buffer, or      *)
(* designate a string literal.                                             *)
(*                                                                         *)
(* The counter is not atomic: ++ and -- are a load and a store.  An object *)
(* is used by one thread at a time; the buffer behind it is shared with    *)
(* the copies of the object.                                               *)
(***************************************************************************)
EXTENDS ExceptionAllocator

CONSTANTS
  Objects,    \* storage for exception objects
  Messages    \* contents of messages

ASSUME ExceptionBaseAssumption == IsFiniteSet(Objects)

VARIABLES
  data,    \* m_data: a buffer, Literal, or Dead where there is no object
  ref,     \* ref_counter of each buffer
  text,    \* the message in each buffer
  want,    \* history: the message each object was made with
  dst, src,\* the objects that a call is about
  msg,     \* the message that a call constructs or moves
  tmp,     \* m_data of the temporary of a call, or of the dying object
  count    \* the counter that was loaded

objects == <<data, ref, text, want>>
call == <<dst, src, msg, tmp, count>>
vars == <<pool, pc, index, buffer, objects, call>>

Literal == 0
Dead == -1
None == -2

Shared(d) == d \in Buffers

\* The object o is not part of a call in progress.
Unused(o) == \A t \in Threads : pc[t] # "idle" => o \notin {dst[t], src[t]}

Start(t, o, p) ==
  /\ pc[t] = "idle" /\ Unused(o) /\ Unused(p)
  /\ dst' = [dst EXCEPT ![t] = o]
  /\ src' = [src EXCEPT ![t] = p]
-----------------------------------------------------------------------------
\* exception_base(msg, length): a message that fits a slot goes to the pool.
ConstructMessage(t, o, m, fits) ==
  /\ data[o] = Dead
  /\ Start(t, o, o)
  /\ msg' = [msg EXCEPT ![t] = m]
  /\ Goto(t, IF fits THEN "get" ELSE "heap")
  /\ UNCHANGED <<pool, index, buffer, objects, tmp, count>>

\* make_shared_data after the allocation, construct_header.
MakeSharedData(t) ==
  /\ pc[t] = "allocated"
  /\ text' = [text EXCEPT ![buffer[t]] = msg[t]]
  /\ ref' = [ref EXCEPT ![buffer[t]] = 1]
  /\ data' = [data EXCEPT ![dst[t]] = buffer[t]]
  /\ want' = [want EXCEPT ![dst[t]] = msg[t]]
  /\ Goto(t, "idle")
  /\ UNCHANGED <<pool, index, buffer, call>>

\* The constructor throws: there is no object.
ConstructThrows(t) ==
  /\ pc[t] = "thrown"
  /\ Goto(t, "idle")
  /\ UNCHANGED <<pool, index, buffer, objects, call>>

\* A literal, or a Unicode message at DISPATCH_LEVEL.
ConstructLiteral(t, o) ==
  /\ data[o] = Dead
  /\ Start(t, o, o)
  /\ data' = [data EXCEPT ![o] = Literal]
  /\ want' = [want EXCEPT ![o] = None]
  /\ UNCHANGED <<pool, pc, index, buffer, ref, text, msg, tmp, count>>

\* The copy constructor, up to the load of the counter.
CopyConstruct(t, o, p) ==
  /\ data[o] = Dead /\ data[p] # Dead
  /\ Start(t, o, p)
  /\ data' = [data EXCEPT ![o] = data[p]]
  /\ want' = [want EXCEPT ![o] = want[p]]
  /\ tmp' = [tmp EXCEPT ![t] = data[p]]
  /\ IF Shared(data[p])
     THEN Goto(t, "copy_inc") /\ count' = [count EXCEPT ![t] = ref[data[p]]]
     ELSE UNCHANGED <<pc, count>>
  /\ UNCHANGED <<pool, index, buffer, ref, text, msg>>

\* The copy assignment makes a temporary copy.
AssignCopy(t, o, p) ==
  /\ o # p /\ data[o] # Dead /\ data[p] # Dead
  /\ Start(t, o, p)
  /\ tmp' = [tmp EXCEPT ![t] = data[p]]
  /\ msg' = [msg EXCEPT ![t] = want[p]]
  /\ IF Shared(data[p])
     THEN Goto(t, "assign_inc") /\ count' = [count EXCEPT ![t] = ref[data[p]]]
     ELSE Goto(t, "swap") /\ UNCHANGED count
  /\ UNCHANGED <<pool, index, buffer, objects>>

IncrementStore(t) ==
  /\ pc[t] \in {"copy_inc", "assign_inc"}
  /\ ref' = [ref EXCEPT ![tmp[t]] = count[t] + 1]
  /\ Goto(t, IF pc[t] = "copy_inc" THEN "idle" ELSE "swap")
  /\ UNCHANGED <<pool, index, buffer, data, text, want, call>>

MoveConstruct(t, o, p) ==
  /\ data[o] = Dead /\ data[p] # Dead
  /\ Start(t, o, p)
  /\ data' = [data EXCEPT ![o] = data[p], ![p] = Literal]
  /\ want' = [want EXCEPT ![o] = want[p], ![p] = None]
  /\ UNCHANGED <<pool, pc, index, buffer, ref, text, msg, tmp, count>>

\* The move assignment moves into a temporary.
AssignMove(t, o, p) ==
  /\ o # p /\ data[o] # Dead /\ data[p] # Dead
  /\ Start(t, o, p)
  /\ tmp' = [tmp EXCEPT ![t] = data[p]]
  /\ msg' = [msg EXCEPT ![t] = want[p]]
  /\ data' = [data EXCEPT ![p] = Literal]
  /\ want' = [want EXCEPT ![p] = None]
  /\ Goto(t, "swap")
  /\ UNCHANGED <<pool, index, buffer, ref, text, count>>

\* swap(tmp); the temporary is destroyed next.
Swap(t) ==
  /\ pc[t] = "swap"
  /\ data' = [data EXCEPT ![dst[t]] = tmp[t]]
  /\ tmp' = [tmp EXCEPT ![t] = data[dst[t]]]
  /\ want' = [want EXCEPT ![dst[t]] = msg[t]]
  /\ Goto(t, "destroy")
  /\ UNCHANGED <<pool, index, buffer, ref, text, dst, src, msg, count>>

\* An object goes out of scope.
Destroy(t, o) ==
  /\ data[o] # Dead
  /\ Start(t, o, o)
  /\ tmp' = [tmp EXCEPT ![t] = data[o]]
  /\ data' = [data EXCEPT ![o] = Dead]
  /\ want' = [want EXCEPT ![o] = None]
  /\ Goto(t, "destroy")
  /\ UNCHANGED <<pool, index, buffer, ref, text, msg, count>>

\* ~exception_base loads the counter.
DecrementLoad(t) ==
  /\ pc[t] = "destroy"
  /\ IF Shared(tmp[t])
     THEN Goto(t, "decrement") /\ count' = [count EXCEPT ![t] = ref[tmp[t]]]
     ELSE Goto(t, "idle") /\ UNCHANGED count
  /\ UNCHANGED <<pool, index, buffer, objects, dst, src, msg, tmp>>

\* Mutant: the last reference is the one that finds one.
DecrementStoreEarly(t) ==
  /\ pc[t] = "decrement"
  /\ ref' = [ref EXCEPT ![tmp[t]] = count[t] - 1]
  /\ buffer' = [buffer EXCEPT ![t] = tmp[t]]
  /\ Goto(t, IF count[t] - 1 <= 1 THEN "free" ELSE "idle")
  /\ UNCHANGED <<pool, index, data, text, want, call>>

DecrementStore(t) ==
  /\ pc[t] = "decrement"
  /\ ref' = [ref EXCEPT ![tmp[t]] = count[t] - 1]
  /\ buffer' = [buffer EXCEPT ![t] = tmp[t]]
  /\ Goto(t, IF count[t] - 1 = 0 THEN "free" ELSE "idle")
  /\ UNCHANGED <<pool, index, data, text, want, call>>
-----------------------------------------------------------------------------
Init ==
  /\ InitPool
  /\ data = [o \in Objects |-> Dead]
  /\ ref = [b \in Buffers |-> 0]
  /\ text = [b \in Buffers |-> None]
  /\ want = [o \in Objects |-> None]
  /\ \E o \in Objects, m \in Messages :
       /\ dst = [t \in Threads |-> o]
       /\ src = [t \in Threads |-> o]
       /\ msg = [t \in Threads |-> m]
  /\ tmp = [t \in Threads |-> Literal]
  /\ count = [t \in Threads |-> 0]

Step(t) ==
  \/ PoolStep(t) /\ UNCHANGED <<objects, call>>
  \/ MakeSharedData(t) \/ ConstructThrows(t) \/ IncrementStore(t)
  \/ Swap(t) \/ DecrementLoad(t) \/ DecrementStore(t)

Call(t) ==
  \/ \E o \in Objects, m \in Messages, fits \in BOOLEAN : ConstructMessage(t, o, m, fits)
  \/ \E o \in Objects : ConstructLiteral(t, o) \/ Destroy(t, o)
  \/ \E o, p \in Objects :
       CopyConstruct(t, o, p) \/ MoveConstruct(t, o, p)
         \/ AssignCopy(t, o, p) \/ AssignMove(t, o, p)

Next == ~wild /\ \E t \in Threads : Step(t) \/ Call(t)

Spec == Init /\ [][Next]_vars
-----------------------------------------------------------------------------
(***************************************************************************)
(* Properties                                                              *)
(***************************************************************************)

Quiet == \A t \in Threads : pc[t] = "idle"

Users(b) == {o \in Objects : data[o] = b}

\* deallocate() writes a slot of m_slots: no slot index reaches SLOT_COUNT.
SlotInRange == \A t \in Threads : pc[t] = "store" => index[t] < SlotCount

\* what() returns the message the exception was made with: no buffer is reused,
\* handed out twice or given back while an exception designates it.
MessageKept ==
  \A o \in Objects : Shared(data[o]) =>
    /\ text[data[o]] = want[o]
    /\ data[o] \notin heap
    /\ \A i \in counter..(SlotCount - 1) : Quiet => slots[i] # data[o]

\* Between calls the counter of a buffer is the number of its exceptions.
CountExact == Quiet => \A b \in Buffers : Users(b) # {} => ref[b] = Cardinality(Users(b))

\* Between calls every buffer that no exception designates can be allocated
\* again: nothing is lost when the pool is full, a constructor throws or an
\* exception is assigned.
BuffersConserved ==
  Quiet => \A b \in Buffers : Users(b) = {} =>
    b \in heap \/ \E i \in counter..(SlotCount - 1) : slots[i] = b
=============================================================================
