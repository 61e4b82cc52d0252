----------------------------- MODULE MCMpmcQueue -----------------------------
(***************************************************************************)
(* Instances of MpmcQueue for TLC.                                         *)
(***************************************************************************)
EXTENDS MpmcQueue, TLC

CONSTANTS p1, p2, c1, c2

MCCrew(users, pushesOfEach, unsyncPushes) ==
  [users |-> users, pushes |-> pushesOfEach, unsync |-> unsyncPushes]

\* One producer and one consumer, several consumers, several producers.
MCCrews ==
  {MCCrew({p1, c1}, 4, 1), MCCrew({p1, c1, c2}, 3, 0), MCCrew({p1, p2, c1}, 1, 0)}

\* Two producers and a consumer while nodes are recycled.
MCRecycling == {MCCrew({p1, p2, c1}, 2, 0)}

\* Memory blocks are interchangeable.
MCSymmetry == Permutations(Blocks)

\* MpmcQueue!NodesConserved, TailInQueue and AllGivenBack.  No node of the queue is lost, freed twice or freed while
\* m_tail designates it, and the destructor gives back what is left.
NothingLost == NodesConserved /\ TailInQueue /\ AllGivenBack
=============================================================================
