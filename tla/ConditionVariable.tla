-------------------------- MODULE ConditionVariable --------------------------
(***************************************************************************)
(* ktl::condition_variable (src/include/condition_variable.hpp,            *)
(* src/src/condition_variable.cpp): a counter of waiters and a             *)
(* synchronisation event, which one wait resets.                           *)
(*                                                                         *)
(* The clients are the textbook ones.  A waiter takes the mutex, waits for *)
(* an item and takes it; a notifier takes the mutex, adds an item,         *)
(* releases the mutex and notifies.  Every access to the mutex, the        *)
(* counter and the event is one step.                                      *)
(***************************************************************************)
EXTENDS Integers, FiniteSets

CONSTANTS
  Waiters, Notifiers,
  Crews,     \* sets of waiters: those that take part in a behaviour
  NoOwner,
  Rounds,    \* bound: items that each notifier adds
  Polling    \* notifiers go on notifying when they have added their items

Threads == Waiters \union Notifiers

\* What the constants have to be.
ConditionVariableAssumption ==
  /\ IsFiniteSet(Waiters) /\ IsFiniteSet(Notifiers) /\ Waiters \intersect Notifiers = {}
  /\ Crews \subseteq SUBSET Waiters
  /\ NoOwner \notin Threads /\ Rounds \in Nat

VARIABLES
  crew,      \* the waiters that take part
  mutexOwner,     \* holder of the mutex
  items,     \* what the predicate is about
  count,     \* m_wait_count
  signaled,  \* m_event
  userPc,
  rounds,    \* rounds[n]: items that notifier n has still to add
  left       \* left[n]: calls of m_event.set() that notifier n has still to make
             \* (in notify_one: the value of the counter that was loaded)

conditionVars == <<crew, mutexOwner, items, count, signaled, userPc, rounds, left>>

GoTo(t, label) == userPc' = [userPc EXCEPT ![t] = label]
-----------------------------------------------------------------------------
(***************************************************************************)
(* Waiters                                                                 *)
(***************************************************************************)

Lock(t, from, to) ==
  /\ userPc[t] = from /\ mutexOwner = NoOwner
  /\ mutexOwner' = t
  /\ GoTo(t, to)
  /\ UNCHANGED <<items, count, signaled, rounds, left>>

\* while (there is no item) wait(lock): the item is there.
Take(w) ==
  /\ userPc[w] = "test" /\ items > 0
  /\ items' = items - 1
  /\ mutexOwner' = NoOwner
  /\ GoTo(w, "done")
  /\ UNCHANGED <<count, signaled, rounds, left>>

\* wait(lock): lock.unlock().
WaitUnlock(w) ==
  /\ userPc[w] = "test" /\ items = 0
  /\ mutexOwner' = NoOwner
  /\ GoTo(w, "count")
  /\ UNCHANGED <<items, count, signaled, rounds, left>>

\* ++m_wait_count.
WaitCount(w) ==
  /\ userPc[w] = "count"
  /\ count' = count + 1
  /\ GoTo(w, "event")
  /\ UNCHANGED <<mutexOwner, items, signaled, rounds, left>>

\* m_event.wait(): a signal is consumed, or the thread blocks.
WaitEvent(w) ==
  /\ userPc[w] = "event"
  /\ GoTo(w, IF signaled THEN "relock" ELSE "blocked")
  /\ signaled' = FALSE
  /\ UNCHANGED <<mutexOwner, items, count, rounds, left>>

\* wait(lock, pred): while (!pred) tests the function object and not what it
\* returns, so that the call returns at once; the waiter relies on its item.
WaitPredicate(w) ==
  /\ userPc[w] = "test"
  /\ GoTo(w, "returned")
  /\ UNCHANGED <<mutexOwner, items, count, signaled, rounds, left>>

TakeUnchecked(w) ==
  /\ userPc[w] = "returned"
  /\ items' = IF items > 0 THEN items - 1 ELSE 0
  /\ mutexOwner' = NoOwner
  /\ GoTo(w, "done")
  /\ UNCHANGED <<count, signaled, rounds, left>>

Wait(w) ==
  \/ Lock(w, "out", "test") \/ Take(w)
  \/ WaitUnlock(w) \/ WaitCount(w) \/ WaitEvent(w) \/ Lock(w, "relock", "test")
  \/ WaitPredicate(w) \/ TakeUnchecked(w)
-----------------------------------------------------------------------------
(***************************************************************************)
(* Notifiers                                                               *)
(***************************************************************************)

Put(n) ==
  /\ userPc[n] = "put"
  /\ items' = items + 1
  /\ rounds' = [rounds EXCEPT ![n] = @ - 1]
  /\ mutexOwner' = NoOwner
  /\ GoTo(n, "notify")
  /\ UNCHANGED <<count, signaled, left>>

\* A notifier that has no more items notifies again.
Poll(n) ==
  /\ Polling /\ userPc[n] = "out" /\ rounds[n] = 0
  /\ GoTo(n, "notify")
  /\ UNCHANGED <<mutexOwner, items, count, signaled, rounds, left>>

\* Mutant: off by one.
NotifyOneLoadLate(n) ==
  /\ userPc[n] \in {"notify", "notify_one"}
  /\ left' = [left EXCEPT ![n] = count]
  /\ GoTo(n, IF count <= 1 THEN "out" ELSE "cas")
  /\ UNCHANGED <<mutexOwner, items, count, signaled, rounds>>

\* notify_one(): the load of the counter.
NotifyOneLoad(n) ==
  /\ userPc[n] \in {"notify", "notify_one"}
  /\ left' = [left EXCEPT ![n] = count]
  /\ GoTo(n, IF count = 0 THEN "out" ELSE "cas")
  /\ UNCHANGED <<mutexOwner, items, count, signaled, rounds>>

\* Mutant: the counter is stored without a comparison.
NotifyOneStore(n) ==
  /\ userPc[n] = "cas"
  /\ count' = left[n] - 1
  /\ left' = [left EXCEPT ![n] = 1]
  /\ GoTo(n, "set")
  /\ UNCHANGED <<mutexOwner, items, signaled, rounds>>

NotifyOneCas(n) ==
  /\ userPc[n] = "cas"
  /\ IF count = left[n]
     THEN /\ count' = count - 1
          /\ left' = [left EXCEPT ![n] = 1]
          /\ GoTo(n, "set")
     ELSE GoTo(n, "notify_one") /\ UNCHANGED <<count, left>>
  /\ UNCHANGED <<mutexOwner, items, signaled, rounds>>

\* notify_all(): the exchange.
NotifyAll(n) ==
  /\ userPc[n] = "notify"
  /\ left' = [left EXCEPT ![n] = count]
  /\ count' = 0
  /\ GoTo(n, IF count = 0 THEN "out" ELSE "set")
  /\ UNCHANGED <<mutexOwner, items, signaled, rounds>>

\* m_event.set(): one thread that is blocked goes on; if there is none the
\* event becomes signalled, or stays so.
SetEvent(n) ==
  LET blocked == {w \in Waiters : userPc[w] = "blocked"}
      to == IF left[n] = 1 THEN "out" ELSE "set"
  IN /\ userPc[n] = "set"
     /\ left' = [left EXCEPT ![n] = @ - 1]
     /\ IF blocked = {}
        THEN signaled' = TRUE /\ GoTo(n, to)
        ELSE /\ \E w \in blocked : userPc' = [userPc EXCEPT ![n] = to, ![w] = "relock"]
             /\ UNCHANGED signaled
     /\ UNCHANGED <<mutexOwner, items, count, rounds>>

Notify(n) ==
  \/ rounds[n] > 0 /\ Lock(n, "out", "put")
  \/ Put(n) \/ Poll(n)
  \/ NotifyOneLoad(n) \/ NotifyOneCas(n) \/ NotifyAll(n) \/ SetEvent(n)
-----------------------------------------------------------------------------
ConditionInit ==
  /\ crew \in Crews
  /\ mutexOwner = NoOwner
  /\ items = 0 /\ count = 0 /\ signaled = FALSE
  /\ userPc = [t \in Threads |-> "out"]
  /\ rounds = [n \in Notifiers |-> Rounds]
  /\ left = [n \in Notifiers |-> 0]

Step ==
  \/ \E w \in crew : Wait(w)
  \/ \E n \in Notifiers : Notify(n)

ConditionNext == Step /\ UNCHANGED crew

ConditionSpec == ConditionInit /\ [][ConditionNext]_conditionVars

\* The scheduler runs every thread that can run.
FairConditionSpec ==
  /\ ConditionSpec
  /\ \A w \in Waiters : WF_conditionVars(w \in crew /\ Wait(w) /\ UNCHANGED crew)
  /\ \A n \in Notifiers : WF_conditionVars(Notify(n) /\ UNCHANGED crew)
-----------------------------------------------------------------------------
(***************************************************************************)
(* Properties                                                              *)
(***************************************************************************)

\* wait() returns with the mutex, and only one thread at a time is between
\* its lock() and its unlock(), the notifiers included.
MutexOnReturn ==
  \A t \in Threads : userPc[t] \in {"test", "returned", "put"} <=> mutexOwner = t

\* The threads that have been counted and were not woken yet.
Waiting == {w \in Waiters : userPc[w] \in {"event", "blocked"}}

\* The calls of set() that notifiers owe: as many as they have left.
Owed == UNION {{n} \X (1..left[n]) : n \in {m \in Notifiers : userPc[m] = "set"}}

\* The counter, the signals on their way and the signal in the event never
\* exceed the threads that wait: a notification wakes a thread that waited
\* when it was sent, and none is left over for a later wait().
SignalsCovered ==
  count + Cardinality(Owed) + (IF signaled THEN 1 ELSE 0) <= Cardinality(Waiting)

\* The two together.
NoSpareSignal == SignalsCovered /\ MutexOnReturn

\* A single waiter is served as long as notifications go on: one that comes
\* between ++m_wait_count and m_event.wait() stays in the event.  (With one
\* notification, or with several waiters, this is not so: see the README.)
OneServed == Cardinality(crew) = 1 => <>(\A w \in crew : userPc[w] = "done")
=============================================================================
