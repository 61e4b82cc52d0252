------------------------------ MODULE MCSystem ------------------------------
(***************************************************************************)
(* What the library builds on the kernel, each part in a program of its    *)
(* own: spin locks and termination, the driver's life, system threads, the *)
(* condition variable; and the lock-free queue, of whose users only one is *)
(* sure to be scheduled.  `part` tells them apart; the variables of the    *)
(* other parts keep a first value.  The dispatcher is used on two          *)
(* processors: by a thread, an APC, a DPC and a device interrupt on the    *)
(* first one, by a thread and a DPC on the second one.                     *)
(***************************************************************************)
EXTENDS Termination, SystemThread, ConditionVariable, DriverLifecycle

CONSTANTS c1, c2, thread1, apc1, dpc1, isr1, thread2, dpc2

MCHome == [t \in Contexts |-> IF t \in {thread2, dpc2} THEN c2 ELSE c1]

\* A device interrupt runs between DISPATCH_LEVEL and HIGH_LEVEL.
MCLevel ==
  [t \in Contexts |-> IF t \in {thread1, thread2} THEN PASSIVE_LEVEL
                      ELSE IF t = apc1 THEN APC_LEVEL
                      ELSE IF t = isr1 THEN DISPATCH_LEVEL + 1 ELSE DISPATCH_LEVEL]
-----------------------------------------------------------------------------
CONSTANTS
  Producers, Consumers, Blocks, TagCount

VARIABLES
  part,
  queueCrew, heap, top, word, held, apc, old, link, block, free, head, tail, next, queuePc, loc, pushes, unsync, queued,
  taken, seen, runner

FirstBlock == CHOOSE x \in Blocks : TRUE
FirstProducer == CHOOSE x \in Producers : TRUE

\* A producer and a consumer, or two producers.
QueueCrews ==
  { [users |-> {FirstProducer} \union Consumers, pushes |-> 2, unsync |-> 0],
    [users |-> Producers, pushes |-> 1, unsync |-> 0] }

Q == INSTANCE MpmcQueue WITH Crews <- QueueCrews, crew <- queueCrew, pc <- queuePc, items <- queued

ASSUME SystemThreadAssumption /\ ConditionVariableAssumption

spinLockVars == <<kind, irql, stack, owner, prevIrql, saved, pc>>
terminationVars == <<spinLockVars, handler, context, todo, local, callers, bugcheck>>
queueVars ==
  <<queueCrew, heap, top, word, held, apc, old, link, block, free, head, tail, next, queuePc, loc, pushes, unsync, queued,
    taken, seen, runner>>
systemVars == <<part, terminationVars, driverVars, threadVars, conditionVars, queueVars>>

AllInit ==
  /\ part \in {"termination", "driver", "threads", "condition", "queue"}
  /\ TInit /\ DriverInit /\ ThreadInit /\ ConditionInit
  /\ part = "termination" \/ kind = DispatcherLock
  /\ part = "condition" \/ crew = Waiters
  /\ Q!Init /\ head.ptr = FirstBlock /\ runner \in queueCrew.users
  /\ part = "queue" \/ (queueCrew.users = Producers /\ runner = FirstProducer)

\* A step of a part.
Alone(p, Action, others) == part = p /\ Action /\ UNCHANGED <<part, others>>
OfTermination(Action) == Alone("termination", Action, <<driverVars, threadVars, conditionVars, queueVars>>)
OfDriver(Action) == Alone("driver", Action, <<terminationVars, threadVars, conditionVars, queueVars>>)
OfThreads(Action) == Alone("threads", Action, <<terminationVars, driverVars, conditionVars, queueVars>>)
OfCondition(Action) == Alone("condition", Action, <<terminationVars, driverVars, threadVars, queueVars>>)
OfQueue(Action) == Alone("queue", Action, <<terminationVars, driverVars, threadVars, conditionVars, runner>>)

AllNext == OfTermination(TNext) \/ OfDriver(DriverNext) \/ OfThreads(ThreadNext) \/ OfCondition(ConditionNext) \/ OfQueue(Q!Next)

\* The fairness of the parts: what runs goes on running.  Of the users of the queue only the runner does; the others may
\* stop for ever at any point of a call.
Part(p, Action) == part = p /\ Action
AllSpec ==
  /\ AllInit /\ [][AllNext]_systemVars
  /\ \A t \in Callers : WF_terminationVars(Part("termination", Runs(t)))
  /\ WF_driverVars(Part("driver", LeaveDriver))
  /\ \A t \in DriverThreads : WF_driverVars(Part("driver", StoreHandler(t)))
  /\ \A w \in Waiters : WF_conditionVars(Part("condition", w \in crew /\ Wait(w) /\ UNCHANGED crew))
  /\ \A n \in Notifiers : WF_conditionVars(Part("condition", Notify(n) /\ UNCHANGED crew))
  /\ WF_queueVars(Part("queue", Q!Continue(runner) /\ UNCHANGED runner))

CONSTANTS g1, g2, g3

MCGlobals == <<g1, g2, g3>>
----------------------------------------------------------------------------
\* A thread that runs gets out of every push() and pop(), wherever the other users of the queue have stopped: it moves
\* m_tail on behalf of a push() that linked its node and went no further.
CallsReturn == (part = "queue" /\ Q!InCall(runner)) ~> ~Q!InCall(runner)
============================================================================
