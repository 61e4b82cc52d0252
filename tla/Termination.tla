----------------------------- MODULE Termination -----------------------------
(***************************************************************************)
(* The termination dispatcher of the runtime (src/runtime/src/bugcheck.cpp)*)
(* and its callers: a terminate handler and the context of the bug check,  *)
(* which is guarded by a spin lock of its own.  That lock raises its holder*)
(* to HIGH_LEVEL, so that interrupt routines may use it, and keeps the     *)
(* level to go back to in the dispatcher; it works as spin_lock's Mixed    *)
(* policy with another ceiling.                                            *)
(*                                                                         *)
(* A behaviour is of the dispatcher, or of a spin_lock in its place.       *)
(*                                                                         *)
(* A termination context is a reason with arguments.  They are copied field*)
(* by field; the model has one argument.  In a context that t set, both    *)
(* fields are t.                                                           *)
(***************************************************************************)
EXTENDS SpinLock

CONSTANTS
  Handlers,    \* user-supplied terminate handlers that return
  NoHandler,
  StdAbort,    \* the reason that m_context has at first
  Callers      \* bound: the contexts that use the dispatcher, once each

VARIABLES
  handler,     \* m_handler
  context,     \* m_context
  todo,        \* todo[t]: what t has still to do in its call
  local,       \* local[t]: old_context in set_context, the copy in abort
  callers,     \* the contexts that have not used the dispatcher yet
  bugcheck     \* the context that stopped the machine

dispatcher == <<handler, context, todo, local, callers, bugcheck>>
allVars == <<vars, dispatcher>>

Doing(t, label, step) == At(t, label) /\ todo[t] # <<>> /\ Head(todo[t]) = step
Advance(t) == todo' = [todo EXCEPT ![t] = Tail(@)]
-----------------------------------------------------------------------------
(***************************************************************************)
(* Entry points                                                            *)
(***************************************************************************)

\* A context runs, and calls one of the entry points below.
Start(t) ==
  /\ t \in callers
  /\ Arrive(t)
  /\ callers' = callers \ {t}
  /\ todo' = [todo EXCEPT ![t] = <<"entry">>]
  /\ UNCHANGED <<handler, context, local, bugcheck>>

Leave(t) ==
  /\ todo[t] = <<>>
  /\ Return(t)
  /\ UNCHANGED dispatcher

Call(t, steps) ==
  /\ Doing(t, "out", "entry")
  /\ todo' = [todo EXCEPT ![t] = steps]
  /\ UNCHANGED <<spinVars, handler, context, local, callers, bugcheck>>

SetTerminationContext(t) == Call(t, <<"context">>)

\* verify_seh, ~system_thread, failed assertions: set a context, terminate.
Fatal(t) == Call(t, <<"context", "terminate">>)

Terminate(t) == Call(t, <<"terminate">>)

Abort(t) == Call(t, <<"abort">>)

\* set_terminate: one interlocked exchange.
SetHandler(t) ==
  /\ Doing(t, "out", "entry")
  /\ \E h \in Handlers \union {NoHandler} : handler' = h
  /\ Advance(t)
  /\ UNCHANGED <<spinVars, context, local, callers, bugcheck>>
-----------------------------------------------------------------------------
(***************************************************************************)
(* Their steps                                                             *)
(***************************************************************************)

AcquireLock(t) ==
  /\ \/ /\ Doing(t, "out", "context") \/ Doing(t, "out", "abort")
        /\ Raise(t, "spin")
     \/ Acquire(t)
     \/ SaveIrql(t)
  /\ UNCHANGED dispatcher

\* set_context, the lock held: copy m_context out, then write it.
CopyOut(t, field, step, next) ==
  /\ Doing(t, "held", step)
  /\ local' = [local EXCEPT ![t][field] = context[field]]
  /\ todo' = [todo EXCEPT ![t] = <<next>> \o Tail(@)]
  /\ UNCHANGED <<spinVars, handler, context, callers, bugcheck>>

Write(t, field, step, next) ==
  /\ Doing(t, "held", step)
  /\ context' = [context EXCEPT ![field] = t]
  /\ todo' = [todo EXCEPT ![t] = <<next>> \o Tail(@)]
  /\ UNCHANGED <<spinVars, handler, local, callers, bugcheck>>

SetContext(t) ==
  \/ CopyOut(t, "reason", "context", "old arg")
  \/ CopyOut(t, "arg", "old arg", "reason")
  \/ Write(t, "reason", "reason", "arg")
  \/ Write(t, "arg", "arg", "unlock")

ReleaseLock(t) ==
  \/ /\ Doing(t, "held", "unlock")
     /\ ReadIrql(t)
     /\ Advance(t)
     /\ UNCHANGED <<handler, context, local, callers, bugcheck>>
  \/ (Release(t) \/ Lower(t)) /\ UNCHANGED dispatcher

\* terminate: get_handler, the handler, abort.
CallHandler(t) ==
  /\ Doing(t, "out", "terminate")
  /\ todo' = [todo EXCEPT ![t] = IF handler = NoHandler THEN <<"abort">>
                                 ELSE <<"handler", "abort">>]
  /\ UNCHANGED <<spinVars, handler, context, local, callers, bugcheck>>

HandlerReturns(t) ==
  /\ Doing(t, "out", "handler")
  /\ Advance(t)
  /\ UNCHANGED <<spinVars, handler, context, local, callers, bugcheck>>

\* Mutant: abort copies the context without the lock.
CopyContextUnlocked(t) ==
  /\ Doing(t, "spin", "abort") \/ Doing(t, "held", "abort")
  /\ local' = [local EXCEPT ![t].reason = context.reason]
  /\ Goto(t, "held")
  /\ todo' = [todo EXCEPT ![t] = <<"abort arg">>]
  /\ UNCHANGED <<irql, stack, owner, prevIrql, saved, handler, context, callers, bugcheck>>

\* abort, the lock held for good: copy m_context, then stop the machine.
CopyContext(t) ==
  /\ Doing(t, "held", "abort")
  /\ local' = [local EXCEPT ![t].reason = context.reason]
  /\ todo' = [todo EXCEPT ![t] = <<"abort arg">>]
  /\ UNCHANGED <<spinVars, handler, context, callers, bugcheck>>

BugCheck(t) ==
  /\ Doing(t, "held", "abort arg")
  /\ local' = [local EXCEPT ![t].arg = context.arg]
  /\ bugcheck' = t
  /\ Advance(t)
  /\ UNCHANGED <<spinVars, handler, context, callers>>
-----------------------------------------------------------------------------
DispatcherLock == [min |-> PASSIVE_LEVEL, ceiling |-> HIGH_LEVEL]

TInit ==
  /\ kind \in SpinLocks \union {DispatcherLock} /\ SpinInit
  /\ handler = NoHandler
  /\ context = [reason |-> StdAbort, arg |-> StdAbort]
  /\ todo = [t \in Contexts |-> <<>>]
  /\ local = [t \in Contexts |-> [reason |-> StdAbort, arg |-> StdAbort]]
  /\ callers = Callers
  /\ bugcheck = Nobody

\* The steps inside a call.
Work(t) ==
  \/ AcquireLock(t) \/ SetContext(t) \/ ReleaseLock(t)
  \/ CallHandler(t) \/ HandlerReturns(t) \/ CopyContext(t) \/ BugCheck(t)

Enter(t) ==
  \/ SetTerminationContext(t) \/ Fatal(t) \/ Terminate(t) \/ Abort(t)
  \/ SetHandler(t)

\* The bug check stops every processor.
Runs(t) ==
  /\ kind = DispatcherLock /\ bugcheck = Nobody
  /\ Enter(t) \/ Work(t) \/ Leave(t)
  /\ UNCHANGED kind

Starts(t) ==
  kind = DispatcherLock /\ bugcheck = Nobody /\ Start(t) /\ UNCHANGED kind

SpinLockStep == kind # DispatcherLock /\ Next /\ UNCHANGED dispatcher

TNext == SpinLockStep \/ \E t \in Contexts : Starts(t) \/ Runs(t)

TSpec == TInit /\ [][TNext]_allVars

\* A context that runs goes on running: the processor executes its code.
TFairSpec == TSpec /\ \A t \in Callers : WF_allVars(Runs(t))
-----------------------------------------------------------------------------
(***************************************************************************)
(* Properties                                                              *)
(***************************************************************************)

\* What the machine stops with, and what set_context returns, is a context
\* that one call of set_context wrote, never a mixture of two, although calls
\* come from threads and interrupt routines of every processor.
ContextUntorn ==
  /\ bugcheck # Nobody => local[bugcheck].reason = local[bugcheck].arg
  /\ \A t \in Contexts :
       At(t, "out") => local[t].reason = local[t].arg

\* Whoever calls terminate or abort, at whatever level and whoever holds the
\* dispatcher's lock, the machine stops: no holder of the lock is interrupted
\* by a caller that spins for it ("C++ Standard compatible termination").
AlwaysStops ==
  (\E t \in Callers : Running(t) /\ todo[t] # <<>> /\ todo[t][Len(todo[t])] \in {"terminate", "abort"})
    ~> bugcheck # Nobody
=============================================================================
