------------------------------ MODULE FifoQueue ------------------------------
(***************************************************************************)
(* What ktl::lockfree::mpmc_queue promises: a first-in first-out queue     *)
(* whose push and pop each take effect at one instant.  Only a queue that  *)
(* is being destroyed drops elements.                                      *)
(***************************************************************************)
EXTENDS Sequences

CONSTANT Values

VARIABLES
  items,   \* the queue
  taken,   \* the values that pop has returned, in order
  open     \* the destructor has not started

Push(v) == open /\ items' = Append(items, v) /\ UNCHANGED <<taken, open>>

Pop ==
  /\ open /\ items # <<>>
  /\ taken' = Append(taken, Head(items))
  /\ items' = Tail(items)
  /\ UNCHANGED open

Close == open /\ open' = FALSE /\ UNCHANGED <<items, taken>>

Drop ==
  /\ ~open /\ items # <<>>
  /\ items' = Tail(items)
  /\ UNCHANGED <<taken, open>>

Init == items = <<>> /\ taken = <<>> /\ open = TRUE

Next == Pop \/ Close \/ Drop \/ \E v \in Values : Push(v)

Spec == Init /\ [][Next]_<<items, taken, open>>
=============================================================================
