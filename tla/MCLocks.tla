------------------------------ MODULE MCLocks ------------------------------
(***************************************************************************)
(* Two threads that lock all three mutexes, or one or two of them, at once *)
(* and in any order; or two threads that use guards over mutexes of every  *)
(* kind: `part` tells which, the state of the other part stays initial.    *)
(***************************************************************************)
EXTENDS MultiLock, Guards

CONSTANTS t1, t2, m1, m2, m3

MCThreads == {t1, t2}
MCMutexes == {m1, m2, m3}

Injections(n) ==
  {f \in [0..n-1 -> MCMutexes] : \A i, j \in 0..n-1 : f[i] = f[j] => i = j}

MCCalls == Injections(1) \union Injections(2) \union Injections(3)
-----------------------------------------------------------------------------
VARIABLE part

MCKind == [a |-> "recursive", b |-> "shared", c |-> "queued", d |-> "push", e |-> "fast"]
MCGMutexes == DOMAIN MCKind

AnyCall == CHOOSE c \in Calls : TRUE

AllInit ==
  /\ Init /\ GuardInit
  /\ \/ part = "lock" /\ used = {"a", "c"}
     \/ part = "guards" /\ args = [t \in Threads |-> AnyCall]

AllNext ==
  \/ part = "lock" /\ Next /\ UNCHANGED <<part, gvars>>
  \/ part = "guards" /\ GuardNext /\ UNCHANGED <<part, vars>>

AllSpec == AllInit /\ [][AllNext]_<<part, vars, gvars>>
=============================================================================
