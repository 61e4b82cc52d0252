--------------------------- MODULE DriverLifecycle ---------------------------
(***************************************************************************)
(* From KtlDriverEntry to the end of KtlDriverUnload                       *)
(* (src/runtime/src/basic_runtime.cpp, object_management.cpp,              *)
(* preload_initializer.cpp, minifilter.cpp): global constructors, preload  *)
(* initialisers, the driver's DriverEntry, its unload routine and the      *)
(* destructors of static objects.                                          *)
(*                                                                         *)
(* The build is a release build, in which crt_assert is empty.  Heap and   *)
(* security cookie set-up change nothing that is modelled.  The driver     *)
(* itself (what DriverEntry and the unload routine do) is external: it may *)
(* set DriverUnload, register and unregister a mini-filter, and reach the  *)
(* definitions of function-local static objects from any of its threads.   *)
(***************************************************************************)
EXTENDS Integers, Sequences, FiniteSets, Functions

CONSTANTS
  Globals,     \* the objects of the constructor table, in its order
  Preloads,    \* those of them that are preload_initializers
  Locals,      \* function-local static objects
  DriverThreads,     \* the driver's threads
  MaxDtors,    \* MAX_DESTRUCTOR_COUNT
  MaxInits,    \* MAX_INITIALIZER_COUNT
  StackLimit,  \* bound: nested calls that fit on the kernel stack
  Null

ASSUME DriverAssumption ==
  /\ MaxDtors \in Nat /\ MaxInits \in Nat /\ StackLimit \in Nat
  /\ Globals \in Seq(Range(Globals))
  /\ \A i, j \in 1..Len(Globals) : Globals[i] = Globals[j] => i = j
  /\ Preloads \subseteq Range(Globals)
  /\ IsFiniteSet(Locals)
  /\ Null \notin Range(Globals) \union Locals \union {"driver", "ktl"}

VARIABLES
  phase,
  k,            \* loop variable of the phase
  dtorStack,    \* destructor_stack, by the object whose destructor it is
  dtorCount,    \* destructor_count
  claim,        \* claim[t]: index and object of an atexit call in progress
  inits,        \* m_initializers
  fired,        \* m_fired
  drvUnload,    \* driver_object->DriverUnload
  customUnload, \* driver_ctx.custom_unload
  filter,       \* filter_ctx.object is set
  depth,        \* calls of KtlDriverUnload on the stack
  built,        \* history: the static objects, in the order of construction
  ran,          \* history: the initialisers that ran
  destroyed,    \* history: the objects destroyed, in order
  late,         \* history: the objects that a destructor constructed
  own           \* history: the driver's own unload routine is not set ("none"),
                \* set, due (DriverEntry succeeded), or ran (again)

registry == <<inits, fired>>
unload == <<drvUnload, customUnload, filter, depth, own>>
objects == <<dtorStack, dtorCount, claim, built, late>>
driverVars == <<phase, k, registry, unload, objects, ran, destroyed>>

NoClaim == [idx |-> 0, obj |-> Null]
Idle == \A t \in DriverThreads : claim[t] = NoClaim

\* Slots of destructor_stack are numbered from 0; past its end is no slot.
Slot(idx) == IF idx < MaxDtors THEN dtorStack[idx] ELSE Null
-----------------------------------------------------------------------------
(***************************************************************************)
(* Static objects                                                          *)
(***************************************************************************)

\* atexit: the slot is written if there is one.
PutHandler(idx, obj) ==
  IF idx < MaxDtors THEN [dtorStack EXCEPT ![idx] = obj] ELSE dtorStack

\* invoke_global_constructors: the object is constructed and its destructor
\* passed to atexit; a preload_initializer adds itself to the registry.
RunConstructor ==
  LET obj == Globals[k + 1] IN
  /\ phase = "construct" /\ k < Len(Globals)
  /\ k' = k + 1
  /\ built' = Append(built, obj)
  /\ inits' = IF obj \in Preloads /\ ~ fired /\ Len(inits) < MaxInits
              THEN Append(inits, obj) ELSE inits
  /\ dtorCount' = dtorCount + 1
  /\ dtorStack' = PutHandler(dtorCount, obj)
  /\ UNCHANGED <<phase, fired, unload, claim, late, ran, destroyed>>

\* A thread reaches the definition of a local static object.  Its constructor
\* ends with atexit, which claims an index by an interlocked increment ...
ClaimSlot(t, obj) ==
  /\ phase \in {"entry", "running", "custom"}
  /\ phase \in {"entry", "custom"} => t = CHOOSE main \in DriverThreads : TRUE
  /\ claim[t] = NoClaim
  /\ obj \notin Range(built)
  /\ built' = Append(built, obj)
  /\ claim' = [claim EXCEPT ![t] = [idx |-> dtorCount, obj |-> obj]]
  /\ dtorCount' = dtorCount + 1
  /\ UNCHANGED <<phase, k, registry, unload, dtorStack, late, ran, destroyed>>

\* Mutant: the slot is found from the counter once more.
StoreHandlerAtTop(t) ==
  /\ claim[t] # NoClaim
  /\ dtorStack' = PutHandler(dtorCount - 1, claim[t].obj)
  /\ claim' = [claim EXCEPT ![t] = NoClaim]
  /\ UNCHANGED <<phase, k, registry, unload, dtorCount, built, late, ran, destroyed>>

\* ... and then stores the destructor there.
StoreHandler(t) ==
  /\ claim[t] # NoClaim
  /\ dtorStack' = PutHandler(claim[t].idx, claim[t].obj)
  /\ claim' = [claim EXCEPT ![t] = NoClaim]
  /\ UNCHANGED <<phase, k, registry, unload, dtorCount, built, late, ran, destroyed>>
-----------------------------------------------------------------------------
(***************************************************************************)
(* KtlDriverEntry                                                          *)
(***************************************************************************)

\* preload_initializer_registry::run_all begins.
ConstructorsDone ==
  /\ phase = "construct" /\ k = Len(Globals)
  /\ phase' = "preload" /\ k' = 0
  /\ fired' = TRUE
  /\ UNCHANGED <<inits, unload, objects, ran, destroyed>>

\* An initialiser runs; the first that fails ends the loop.
RunInitializer ==
  /\ phase = "preload" /\ k < Len(inits)
  /\ ran' = Append(ran, inits[k + 1])
  /\ \/ phase' = phase /\ k' = k + 1
     \/ phase' = "unload" /\ k' = 0
  /\ UNCHANGED <<registry, unload, objects, destroyed>>

InitializersDone ==
  /\ phase = "preload" /\ k = Len(inits)
  /\ phase' = "entry"
  /\ UNCHANGED <<k, registry, unload, objects, ran, destroyed>>

\* DriverEntry stores its unload routine.
SetDriverUnload ==
  /\ phase = "entry" /\ own = "none"
  /\ drvUnload' = "driver"
  /\ own' = "set"
  /\ UNCHANGED <<phase, k, registry, customUnload, filter, depth, objects, ran,
                 destroyed>>

\* KtlRegisterFilter; FltRegisterFilter may fail.
KtlRegisterFilter ==
  /\ phase = "entry" /\ ~ filter /\ drvUnload # "ktl"
  /\ customUnload' = drvUnload
  /\ drvUnload' = "ktl"
  /\ filter' \in BOOLEAN
  /\ UNCHANGED <<phase, k, registry, depth, own, objects, ran, destroyed>>

\* Mutant: what KtlRegisterFilter stored is overwritten.
EntrySucceedsAgain ==
  /\ phase = "entry" /\ Idle
  /\ phase' = "running"
  /\ customUnload' = drvUnload
  /\ drvUnload' = "ktl"
  /\ own' = IF own = "set" THEN "due" ELSE own
  /\ UNCHANGED <<k, registry, filter, depth, objects, ran, destroyed>>

\* DriverEntry succeeds: unload goes through the runtime from now on.
EntrySucceeds ==
  /\ phase = "entry" /\ Idle
  /\ phase' = "running"
  /\ customUnload' = IF customUnload = Null THEN drvUnload ELSE customUnload
  /\ drvUnload' = IF customUnload = Null THEN "ktl" ELSE drvUnload
  /\ own' = IF own = "set" THEN "due" ELSE own
  /\ UNCHANGED <<k, registry, filter, depth, objects, ran, destroyed>>

EntryFails ==
  /\ phase = "entry" /\ Idle
  /\ phase' = "unload"
  /\ UNCHANGED <<k, registry, unload, objects, ran, destroyed>>
-----------------------------------------------------------------------------
(***************************************************************************)
(* KtlDriverUnload                                                         *)
(***************************************************************************)

\* The system unloads the driver, whose threads have ended.
Unload ==
  /\ phase = "running" /\ Idle
  /\ phase' = "unload"
  /\ UNCHANGED <<k, registry, unload, objects, ran, destroyed>>

CallCustomUnload ==
  /\ phase = "unload" /\ customUnload = "driver"
  /\ phase' = "custom"
  /\ own' = IF own = "ran" THEN "again" ELSE "ran"
  /\ UNCHANGED <<k, registry, drvUnload, customUnload, filter, depth, objects, ran,
                 destroyed>>

\* custom_unload is KtlDriverUnload itself.
CallItself ==
  /\ phase = "unload" /\ customUnload = "ktl"
  /\ \/ depth < StackLimit /\ depth' = depth + 1 /\ phase' = phase
     \/ depth = StackLimit /\ depth' = depth /\ phase' = "overflow"
  /\ UNCHANGED <<k, registry, drvUnload, customUnload, filter, own, objects, ran,
                 destroyed>>

KtlUnregisterFilter ==
  /\ phase \in {"entry", "custom"} /\ filter
  /\ filter' = FALSE
  /\ UNCHANGED <<phase, k, registry, drvUnload, customUnload, depth, own, objects,
                 ran, destroyed>>

\* The driver's routine has returned, or there is none:
\* invoke_global_destructors begins at the current count.
StartDestroying ==
  /\ \/ phase = "custom" /\ Idle
     \/ phase = "unload" /\ customUnload = Null
  /\ phase' = "destroy"
  /\ k' = dtorCount
  /\ UNCHANGED <<registry, unload, objects, ran, destroyed>>

\* One destructor.  A slot that is not there, or not written, is no function.
InvokeDestructor ==
  LET obj == Slot(k - 1) IN
  /\ phase = "destroy" /\ k > 0
  /\ k' = k - 1
  /\ phase' = IF obj = Null THEN "wild" ELSE phase
  /\ destroyed' = IF obj = Null THEN destroyed ELSE Append(destroyed, obj)
  /\ UNCHANGED <<registry, unload, ran>>
  /\ \/ UNCHANGED objects
     \/ \E l \in Locals \ Range(built) :
          \* the destructor constructs a local static object
          /\ obj # Null
          /\ built' = Append(built, l)
          /\ late' = late \union {l}
          /\ dtorStack' = PutHandler(dtorCount, l)
          /\ dtorCount' = dtorCount + 1
          /\ UNCHANGED claim

DestroyDone ==
  /\ phase = "destroy" /\ k = 0
  /\ phase' = "done"
  /\ dtorCount' = 0
  /\ UNCHANGED <<k, registry, unload, dtorStack, claim, built, late, ran, destroyed>>
-----------------------------------------------------------------------------
DriverInit ==
  /\ phase = "construct" /\ k = 0
  /\ inits = <<>> /\ fired = FALSE
  /\ drvUnload = Null /\ customUnload = Null /\ filter = FALSE
  /\ depth = 0 /\ own = "none"
  /\ dtorStack = [i \in 0..MaxDtors-1 |-> Null] /\ dtorCount = 0
  /\ claim = [t \in DriverThreads |-> NoClaim] /\ built = <<>> /\ late = {}
  /\ ran = <<>> /\ destroyed = <<>>

Entry ==
  \/ RunConstructor \/ ConstructorsDone \/ RunInitializer \/ InitializersDone
  \/ EntrySucceeds \/ EntryFails

LeaveDriver == CallCustomUnload \/ CallItself \/ StartDestroying \/ InvokeDestructor \/ DestroyDone

Driver ==
  \/ SetDriverUnload \/ KtlRegisterFilter \/ KtlUnregisterFilter \/ Unload
  \/ \E t \in DriverThreads, obj \in Locals : ClaimSlot(t, obj)

DriverNext == Entry \/ LeaveDriver \/ Driver \/ \E t \in DriverThreads : StoreHandler(t)

DriverSpec == DriverInit /\ [][DriverNext]_driverVars

\* KtlDriverUnload and atexit, once called, run on; the driver's own routine
\* returns.
FairDriverSpec ==
  /\ DriverSpec
  /\ WF_driverVars(LeaveDriver)
  /\ \A t \in DriverThreads : WF_driverVars(StoreHandler(t))
-----------------------------------------------------------------------------
(***************************************************************************)
(* Properties                                                              *)
(***************************************************************************)

\* Destructors run in the reverse order of construction, none twice, whichever
\* threads constructed local objects at the same time; an object that a
\* destructor constructs does not disturb the order.
ReverseOrder ==
  LET due == Len(built) - Cardinality(late) IN
  /\ \A i \in 1..Len(built) : built[i] \in late <=> i > due
  /\ Len(destroyed) <= due
  /\ \A i \in 1..Len(destroyed) : destroyed[i] = built[due + 1 - i]

\* invoke_global_destructors calls only functions that atexit stored: it reads
\* no slot beyond the stack and none that was claimed and not yet written.
OnlyStoredCalled == phase # "wild"

\* When KtlDriverUnload has returned, after a failed entry as after a normal
\* unload, every static object that was constructed before the destructors
\* began has been destroyed.  (Those that a destructor constructed are not:
\* invoke_global_destructors reads the counter once.)
AllDestroyed == phase = "done" => Range(destroyed) = Range(built) \ late

\* How many preload initialisers the constructor table has up to an entry.
PreloadRank(i) == Cardinality({j \in 1..i : Globals[j] \in Preloads})

\* The initialisers of the table, each once and in its order.
AllPreloads(s) ==
  /\ Len(s) = PreloadRank(Len(Globals))
  /\ \A i \in 1..Len(Globals) : Globals[i] \in Preloads => s[PreloadRank(i)] = Globals[i]

\* DriverEntry begins only when every preload initialiser of the driver has
\* run, once and in order; and after a DriverEntry that set DriverUnload and
\* succeeded, that routine runs, once and before static objects are destroyed,
\* although the runtime has put its own routine in its place.
EntryAfterPreloads ==
  /\ phase \in {"entry", "running", "custom"} => AllPreloads(ran)
  /\ own # "again"
  /\ phase \in {"destroy", "done"} => own # "due"

\* Preload initialisers run before DriverEntry; static objects are destroyed
\* once, in the reverse order of their construction, after the driver's own
\* routine and through destructors that atexit stored.
DriverOrder == EntryAfterPreloads /\ OnlyStoredCalled /\ ReverseOrder /\ AllDestroyed

\* A driver that is being unloaded, or whose entry failed, gets to the end of
\* KtlDriverUnload, provided that it has an unload routine or that there is
\* none to call.  (A driver without one that registers a filter makes
\* KtlDriverUnload its own custom_unload.)
UnloadEnds ==
  phase = "unload" /\ (own # "none" \/ customUnload = Null) ~> phase = "done"
=============================================================================
