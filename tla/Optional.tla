------------------------------ MODULE Optional ------------------------------
(***************************************************************************)
(* ktl::optional (include/optional.hpp).  Storage holds a value, a value   *)
(* that was moved from, or Raw memory without an object; flag is           *)
(* m_initialized.  Trivial says which base class the optionals have.       *)
(* A constructor or assignment of the value may throw.                     *)
(***************************************************************************)
EXTENDS Integers, FiniteSets

CONSTANTS
  Optionals,
  OptValues,        \* naturals, to have an order
  Raw, Moved,
  OptionalAvoided   \* deviations of the code a run leaves out

ASSUME OptionalAssumption == Raw \notin OptValues \union {Moved}

VARIABLES
  trivial,   \* whether the value type is trivially copyable
  opt,       \* opt[o]: [flag, mem]
  optWant,   \* the value an optional should have, Raw for none
  optMisuse  \* an object was destroyed twice, overwritten or used without being there

ovars == <<trivial, opt, optWant, optMisuse>>

Optional == [flag : BOOLEAN, mem : OptValues \union {Raw, Moved}]
Empty == [flag |-> FALSE, mem |-> Raw]
has_value(o) == opt[o].flag

\* A machine: the optionals, whether an object was misused, whether the call threw.
Start == [opt |-> opt, bad |-> optMisuse, threw |-> FALSE, left |-> {}]
Misused(m, when) == [m EXCEPT !.bad = @ \/ (when /\ ~trivial)]
SetFlag(m, o, b) == [m EXCEPT !.opt[o].flag = b]
SetMem(m, o, v) == [m EXCEPT !.opt[o].mem = v]

\* Placement new: no object may be there.
ConstructAt(m, o, v, throws) ==
  IF throws THEN [m EXCEPT !.threw = TRUE] ELSE SetMem(Misused(m, m.opt[o].mem # Raw), o, v)
construct_from_args(m, o, v, throws) ==
  LET n == ConstructAt(m, o, v, throws) IN IF n.threw THEN n ELSE SetFlag(n, o, TRUE)

\* Assignment: an object must be there.
construct_from_value(m, o, v) == SetFlag(SetMem(Misused(m, m.opt[o].mem = Raw), o, v), o, TRUE)

reset_if_needed(m, o) ==
  IF ~m.opt[o].flag THEN m ELSE SetMem(Misused(m, m.opt[o].mem = Raw), o, Raw)

\* Mutant: the flag stays set.
ResetKeepsFlag(m, o) == IF trivial THEN SetMem(m, o, Raw) ELSE reset_if_needed(m, o)

reset(m, o) == SetFlag(IF trivial THEN SetMem(m, o, Raw) ELSE reset_if_needed(m, o), o, FALSE)

\* noexcept: an exception of the assignment or the construction ends the program, so there is none.
assign_or_emplace(m, o, v) ==
  IF m.opt[o].flag THEN SetMem(Misused(m, m.opt[o].mem = Raw), o, v) ELSE construct_from_args(m, o, v, FALSE)

\* reset_if_needed leaves the flag set, so a constructor that throws leaves an optional without an object that says it has one.
emplace(m, o, v, throws) ==
  LET n == construct_from_args(IF trivial THEN SetMem(m, o, Raw) ELSE reset_if_needed(m, o), o, v, throws)
  IN IF n.threw /\ m.opt[o].flag THEN [n EXCEPT !.left = @ \union {"emplace throws after destroying"}] ELSE n

MoveOut(m, p) == IF trivial THEN m ELSE SetMem(m, p, Moved)

copy_constructor(m, o, p, throws) ==
  LET n == [m EXCEPT !.opt[o] = Empty]
  IN IF trivial THEN [m EXCEPT !.opt[o] = m.opt[p]]
     ELSE IF n.opt[p].flag THEN construct_from_args(n, o, n.opt[p].mem, throws) ELSE n

move_constructor(m, o, p, throws) ==
  LET n == copy_constructor(m, o, p, throws)
  IN IF n.threw \/ ~n.opt[p].flag THEN n ELSE MoveOut(n, p)

\* From an optional of another type: the value is assigned to memory that has no object yet.
converting_constructor(m, o, p) ==
  LET n == [m EXCEPT !.opt[o] = Empty]
  IN IF ~n.opt[p].flag THEN n
     ELSE [construct_from_value(n, o, n.opt[p].mem) EXCEPT !.left = IF trivial THEN @ ELSE @ \union {"converting assigns to no object"}]

copy_assignment(m, o, p) ==
  IF o = p THEN m
  ELSE IF trivial THEN [m EXCEPT !.opt[o] = m.opt[p]]
  ELSE IF m.opt[p].flag THEN assign_or_emplace(m, o, m.opt[p].mem) ELSE reset(m, o)

move_assignment(m, o, p) ==
  IF o = p \/ ~m.opt[p].flag THEN copy_assignment(m, o, p) ELSE MoveOut(copy_assignment(m, o, p), p)

value_assignment(m, o, v) == IF trivial THEN SetFlag(SetMem(m, o, v), o, TRUE) ELSE assign_or_emplace(m, o, v)

\* Two values are exchanged through a temporary, one value is moved over and destroyed where it was.
swap(m, o, p, throws) ==
  IF m.opt[o].flag = m.opt[p].flag
  THEN IF m.opt[o].flag /\ o # p THEN SetMem(SetMem(m, o, m.opt[p].mem), p, m.opt[o].mem) ELSE m
  ELSE LET full == IF m.opt[o].flag THEN o ELSE p
           empty == IF m.opt[o].flag THEN p ELSE o
           n == emplace(m, empty, m.opt[full].mem, throws)
       IN IF n.threw THEN n ELSE reset(MoveOut(n, full), full)

destructor(m, o) == IF trivial THEN [m EXCEPT !.opt[o] = Empty] ELSE SetFlag(reset_if_needed(m, o), o, FALSE)

----------------------------------------------------------------------------
(* The calls.  A throwing call should leave what the standard says.        *)

OptionalInit ==
  /\ trivial \in BOOLEAN
  /\ opt = [o \in Optionals |-> Empty]
  /\ optWant = [o \in Optionals |-> Raw]
  /\ optMisuse = FALSE

FinishOptional(m, want) ==
  /\ m.left \intersect OptionalAvoided = {}
  /\ opt' = m.opt
  /\ optMisuse' = m.bad
  /\ optWant' = want
  /\ UNCHANGED trivial

\* What is left in an optional that was moved from.
Rest(p) == IF optWant[p] = Raw THEN Raw ELSE IF trivial THEN optWant[p] ELSE Moved
Emptied(o) == [optWant EXCEPT ![o] = Raw]
May(throws) == throws => ~trivial

Emplace(o, v, throws) ==
  May(throws) /\ FinishOptional(emplace(Start, o, v, throws), IF throws THEN Emptied(o) ELSE [optWant EXCEPT ![o] = v])
Reset(o) == FinishOptional(reset(Start, o), Emptied(o))
Destroy(o) == FinishOptional(destructor(Start, o), Emptied(o))
AssignValue(o, v) == FinishOptional(value_assignment(Start, o, v), [optWant EXCEPT ![o] = v])
CopyAssignOptional(o, p) == FinishOptional(copy_assignment(Start, o, p), [optWant EXCEPT ![o] = optWant[p]])
MoveAssignOptional(o, p) ==
  FinishOptional(move_assignment(Start, o, p), IF o = p THEN optWant ELSE [optWant EXCEPT ![o] = optWant[p], ![p] = Rest(p)])
Renew(o, p, m, want) == o # p /\ ~opt[o].flag /\ FinishOptional(m, want)
CopyConstructOptional(o, p, throws) ==
  May(throws) /\ Renew(o, p, copy_constructor(Start, o, p, throws), [optWant EXCEPT ![o] = IF throws THEN Raw ELSE optWant[p]])
MoveConstructOptional(o, p, throws) ==
  May(throws) /\ Renew(o, p, move_constructor(Start, o, p, throws),
                       IF throws THEN optWant ELSE [optWant EXCEPT ![o] = optWant[p], ![p] = Rest(p)])
ConvertOptional(o, p) == Renew(o, p, converting_constructor(Start, o, p), [optWant EXCEPT ![o] = optWant[p]])
SwapOptional(o, p, throws) ==
  /\ May(throws)
  /\ throws => optWant[o] = Raw /\ optWant[p] # Raw
  /\ FinishOptional(swap(Start, o, p, throws),
                    IF throws THEN optWant ELSE [optWant EXCEPT ![o] = optWant[p], ![p] = optWant[o]])

OptionalNext ==
  \E o \in Optionals :
    \/ Reset(o) \/ Destroy(o)
    \/ \E v \in OptValues : AssignValue(o, v) \/ \E throws \in BOOLEAN : Emplace(o, v, throws)
    \/ \E p \in Optionals :
         \/ CopyAssignOptional(o, p) \/ MoveAssignOptional(o, p) \/ ConvertOptional(o, p)
         \/ \E throws \in BOOLEAN :
              CopyConstructOptional(o, p, throws) \/ MoveConstructOptional(o, p, throws) \/ SwapOptional(o, p, throws)

OptionalSpec == OptionalInit /\ [][OptionalNext]_ovars

----------------------------------------------------------------------------
\* Whatever sequence of calls, an optional has the value the standard says or none: its flag says so, the object is
\* constructed before it is assigned or destroyed, never constructed over another one, and never destroyed twice.
OptionalSound ==
  /\ ~optMisuse
  /\ \A o \in Optionals :
       /\ opt[o].flag <=> optWant[o] # Raw
       /\ opt[o].mem = optWant[o]
============================================================================
