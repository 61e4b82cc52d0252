----------------------------- MODULE SystemThread -----------------------------
(***************************************************************************)
(* ktl::system_thread and guarded_system_thread (src/include/thread.hpp,   *)
(* src/src/thread.cpp): creation of a kernel thread with packed arguments, *)
(* the routine that the new thread runs, and the object that refers to it. *)
(*                                                                         *)
(* One client owns the thread objects; the threads it creates run at the   *)
(* same time.  The kernel (thread objects with reference counts, handles)  *)
(* is external: a thread object lives while it is referenced, and a thread *)
(* that has not ended references itself.                                   *)
(***************************************************************************)
EXTENDS Integers, FiniteSets

CONSTANTS
  ThreadObjects,   \* C++ objects of a thread class
  Guarded,   \* those whose class is guarded_system_thread
  Ids,       \* kernel threads
  Assigns,   \* the client assigns to objects that are still joinable
  NoThread

\* What the constants have to be.
SystemThreadAssumption ==
  IsFiniteSet(ThreadObjects) /\ Guarded \subseteq ThreadObjects /\ NoThread \notin Ids

VARIABLES
  m_thread,  \* m_thread[o]: the thread object that o refers to
  refs,      \* refs[id]: references to the kernel's thread object
  body,      \* body[id]: what the thread is doing
  args,      \* args[id]: the packed arguments
  clientPc,        \* what the client is doing
  new,       \* [obj, id, thread]: the constructor in progress, and thread_obj
  halted,    \* terminate() was called
  joined,    \* history: threads that were joined
  class      \* history: class[id] is "guarded" or "plain"

client == <<m_thread, clientPc, new, joined>>
kernel == <<refs, body>>
threadVars == <<client, kernel, args, halted, class>>

NoNew == [obj |-> NoThread, id |-> NoThread, thread |-> NoThread]
ThreadRuns(id) == body[id] \in {"started", "called", "returned"}

AddRef(id, n) == refs' = [refs EXCEPT ![id] = @ + n]

\* thread_base::destroy of object o.
Destroy(o) ==
  IF m_thread[o] = NoThread THEN UNCHANGED refs ELSE AddRef(m_thread[o], -1)
-----------------------------------------------------------------------------
(***************************************************************************)
(* Creation                                                                *)
(***************************************************************************)

\* pack_fn_with_args: the arguments are allocated and owned by packed_args.
PackArgs(o, id) ==
  /\ clientPc = "idle" /\ m_thread[o] = NoThread
  /\ body[id] = "none"
  /\ args' = [args EXCEPT ![id] = "packed"]
  /\ new' = [obj |-> o, id |-> id, thread |-> NoThread]
  /\ class' = [class EXCEPT ![id] = IF o \in Guarded THEN "guarded" ELSE "plain"]
  /\ clientPc' = "create"
  /\ UNCHANGED <<m_thread, joined, kernel, halted>>

\* PsCreateSystemThread: the thread runs from here on.
CreateThread ==
  /\ clientPc = "create"
  /\ body' = [body EXCEPT ![new.id] = "started"]
  /\ AddRef(new.id, 2)    \* the handle, and the thread itself
  /\ clientPc' = "obtain"
  /\ UNCHANGED <<m_thread, new, joined, args, halted, class>>

\* It fails: the exception destroys packed_args.
CreateThreadFails ==
  /\ clientPc = "create"
  /\ args' = [args EXCEPT ![new.id] = "none"]
  /\ new' = NoNew
  /\ clientPc' = "idle"
  /\ UNCHANGED <<m_thread, joined, kernel, halted, class>>

\* try_obtain_thread_object: a reference by handle ...
Obtain ==
  /\ clientPc = "obtain"
  /\ new' = [new EXCEPT !.thread = new.id]
  /\ AddRef(new.id, 1)
  /\ clientPc' = "close"
  /\ UNCHANGED <<m_thread, joined, body, args, halted, class>>

\* ... or null.
ObtainFails ==
  /\ clientPc = "obtain"
  /\ clientPc' = "close"
  /\ UNCHANGED <<m_thread, new, joined, kernel, args, halted, class>>

\* ZwClose.
CloseHandle ==
  /\ clientPc = "close"
  /\ AddRef(new.id, -1)
  /\ clientPc' = "release"
  /\ UNCHANGED <<m_thread, new, joined, body, args, halted, class>>

\* Mutant: packed_args is destroyed instead of released.
ReleaseArgsDestroys ==
  /\ clientPc = "release"
  /\ args' = [args EXCEPT ![new.id] =
                IF @ = "packed" THEN "none" ELSE "freed twice"]
  /\ m_thread' = [m_thread EXCEPT ![new.obj] = new.thread]
  /\ new' = NoNew
  /\ clientPc' = "idle"
  /\ UNCHANGED <<joined, kernel, halted, class>>

\* packed_args.release() forgets the pointer; the thread may long have freed
\* what it points to.  The object takes over the reference.
ReleaseArgs ==
  /\ clientPc = "release"
  /\ m_thread' = [m_thread EXCEPT ![new.obj] = new.thread]
  /\ new' = NoNew
  /\ clientPc' = "idle"
  /\ UNCHANGED <<joined, kernel, args, halted, class>>
-----------------------------------------------------------------------------
(***************************************************************************)
(* invoke_in_thread                                                        *)
(***************************************************************************)

\* make_call of system_thread, whatever the class of the C++ object is:
\* worker_thread is instantiated for system_thread only.
CallFunction(id) ==
  /\ body[id] = "started"
  /\ body' = [body EXCEPT ![id] = "called"]
  /\ UNCHANGED <<client, refs, args, halted, class>>

\* The function returns; args_guard frees the arguments.
FunctionReturns(id) ==
  /\ body[id] = "called"
  /\ body' = [body EXCEPT ![id] = "returned"]
  /\ args' = [args EXCEPT ![id] = IF @ = "packed" THEN "none" ELSE "freed twice"]
  /\ UNCHANGED <<client, refs, halted, class>>

\* The function throws: invoke_with_unpacked_args is noexcept.
FunctionThrows(id) ==
  /\ body[id] = "called"
  /\ halted' = class[id]
  /\ UNCHANGED <<client, kernel, args, class>>

\* before_exit: PsTerminateSystemThread.
BeforeExit(id) ==
  /\ body[id] = "returned"
  /\ body' = [body EXCEPT ![id] = "ended"]
  /\ AddRef(id, -1)
  /\ UNCHANGED <<client, args, halted, class>>
-----------------------------------------------------------------------------
(***************************************************************************)
(* Operations on an object                                                 *)
(***************************************************************************)

Drop(o) == Destroy(o) /\ m_thread' = [m_thread EXCEPT ![o] = NoThread]

\* join: wait for the thread, then destroy().
Join(o) ==
  /\ clientPc = "idle" /\ m_thread[o] # NoThread
  /\ body[m_thread[o]] = "ended"
  /\ joined' = joined \union {m_thread[o]}
  /\ Drop(o)
  /\ UNCHANGED <<clientPc, new, body, args, halted, class>>

Detach(o) ==
  /\ clientPc = "idle" /\ m_thread[o] # NoThread
  /\ Drop(o)
  /\ UNCHANGED <<clientPc, new, joined, body, args, halted, class>>

\* ~system_thread of a joinable object.
DestroyJoinable(o) ==
  /\ clientPc = "idle" /\ m_thread[o] # NoThread
  /\ halted' = "joinable"
  /\ UNCHANGED <<client, kernel, args, class>>

\* Move construction, and move assignment: destroy() drops the reference of
\* the target, then the source's is taken over.
Move(o, p) ==
  /\ clientPc = "idle" /\ o # p
  /\ Assigns \/ m_thread[o] = NoThread
  /\ Destroy(o)
  /\ m_thread' = [m_thread EXCEPT ![o] = m_thread[p], ![p] = NoThread]
  /\ UNCHANGED <<clientPc, new, joined, body, args, halted, class>>

Swap(o, p) ==
  /\ clientPc = "idle"
  /\ m_thread' = [m_thread EXCEPT ![o] = m_thread[p], ![p] = m_thread[o]]
  /\ UNCHANGED <<clientPc, new, joined, kernel, args, halted, class>>
-----------------------------------------------------------------------------
ThreadInit ==
  /\ m_thread = [o \in ThreadObjects |-> NoThread]
  /\ refs = [id \in Ids |-> 0]
  /\ body = [id \in Ids |-> "none"]
  /\ args = [id \in Ids |-> "none"]
  /\ clientPc = "idle" /\ new = NoNew
  /\ halted = "no" /\ joined = {}
  /\ class = [id \in Ids |-> "none"]

Create ==
  \/ \E o \in ThreadObjects, id \in Ids : PackArgs(o, id)
  \/ CreateThread \/ CreateThreadFails \/ Obtain \/ ObtainFails
  \/ CloseHandle \/ ReleaseArgs

Thread(id) == CallFunction(id) \/ FunctionReturns(id) \/ FunctionThrows(id) \/ BeforeExit(id)

Use ==
  \/ \E o \in ThreadObjects : Join(o) \/ Detach(o) \/ DestroyJoinable(o)
  \/ \E o, p \in ThreadObjects : Move(o, p) \/ Swap(o, p)

ThreadNext == halted = "no" /\ (Create \/ Use \/ \E id \in Ids : Thread(id))

ThreadSpec == ThreadInit /\ [][ThreadNext]_threadVars
-----------------------------------------------------------------------------
(***************************************************************************)
(* Properties                                                              *)
(***************************************************************************)

\* The arguments of a thread exist while its function runs and are freed once:
\* by the thread, or by the creator if no thread was created.  The creator's
\* packed_args and the thread's args_guard hold the same pointer for a while.
ArgsFreedOnce ==
  \A id \in Ids :
    /\ args[id] # "freed twice"
    /\ body[id] \in {"started", "called"} => args[id] = "packed"
    /\ clientPc = "idle" /\ body[id] \in {"none", "returned", "ended"} => args[id] = "none"

\* A kernel thread object has exactly the references that are in use: one per
\* C++ object, one for the creator's handle and for the pointer it is about to
\* store, one for the thread while it runs.  None is given back twice, whatever
\* the order of creation, moves, join and the end of the thread; and when
\* nothing refers to a thread that has ended, its object is gone.
RefsExact ==
  \A id \in Ids :
    refs[id] = Cardinality({o \in ThreadObjects : m_thread[o] = id})
               + (IF new.thread = id THEN 1 ELSE 0)
               + (IF new.id = id /\ clientPc \in {"obtain", "close"} THEN 1 ELSE 0)
               + (IF ThreadRuns(id) THEN 1 ELSE 0)

\* When join has returned, the function has returned, its arguments are gone
\* and the thread runs no code of the driver any more.
JoinedHasEnded == \A id \in joined : body[id] = "ended" /\ args[id] = "none"

\* The three together.
ThreadsExact == ArgsFreedOnce /\ RefsExact /\ JoinedHasEnded

\* "Joinable thread catches all unhandled C++ exceptions": a function that
\* throws in a guarded_system_thread does not terminate the system.
GuardedCatches == halted # "guarded"
=============================================================================
