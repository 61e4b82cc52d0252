------------------------------- MODULE Objects -------------------------------
(***************************************************************************)
(* Objects in raw memory: the allocators of include/allocator.hpp and the  *)
(* uninitialized_xxx / destroy / assignment algorithms of                  *)
(* include/memory.hpp and include/algorithm.hpp on which every container   *)
(* of the library is built.                                                *)
(*                                                                         *)
(* Each algorithm is an operator from a machine to a machine, a record     *)
(*   heap      block -> [tag, cells], the live pool blocks                 *)
(*   kind      the element type: "trivial" (memcpy, no destructor),        *)
(*             "movable" (noexcept move, throwing copy) or "copyable" (no  *)
(*             move constructor, throwing copy)                            *)
(*   budget    how many more calls that can throw succeed                  *)
(*   thrown    an exception is in flight: what follows in the function is  *)
(*             not executed                                                *)
(*   new       the block the last allocation returned                      *)
(*   misuse    a cell was used against its lifetime, or a block against    *)
(*             its allocator                                               *)
(*   lost      a block was given back with an owning object still in it    *)
(*   deviates  names of the places where the code departs from the         *)
(*             standard's contract of the function it implements           *)
(* A cell is Raw, Moved (a moved-from object: it owns nothing) or a value. *)
(***************************************************************************)
EXTENDS Integers, Sequences, FiniteSets, SequencesExt

CONSTANTS
  Blocks,   \* the addresses the pool hands out
  Raw,      \* a cell that holds no object
  Moved,    \* a cell that holds a moved-from object
  Null      \* the null pointer

Kinds == {"trivial", "movable", "copyable"}

Owned(c) == c \notin {Raw, Moved}

Throw(m) == [m EXCEPT !.thrown = TRUE]

Flag(m, wrong) == [m EXCEPT !.misuse = @ \/ wrong]

Deviate(m, name) == [m EXCEPT !.deviates = @ \union {name}]
DeviateIf(m, departs, name) == IF departs THEN Deviate(m, name) ELSE m

\* An exception ends a function.
Then(m, Step(_)) == IF m.thrown THEN m ELSE Step(m)

\* The n cells from index at of block b belong to the block.
Inside(m, b, at, n) == n = 0 \/ (b \in DOMAIN m.heap /\ at..(at + n - 1) \subseteq DOMAIN m.heap[b].cells)

Values(m, b, at, n) == [k \in 1..n |-> IF Inside(m, b, at, n) THEN m.heap[b].cells[at + k - 1] ELSE Raw]

Put(m, b, at, vals) ==
  IF vals = <<>> \/ ~Inside(m, b, at, Len(vals))
  THEN Flag(m, vals # <<>>)
  ELSE [m EXCEPT !.heap[b].cells =
          [j \in DOMAIN @ |-> IF j \in at..(at + Len(vals) - 1) THEN vals[j - at + 1] ELSE @[j]]]

Constantly(n, v) == [k \in 1..n |-> v]

-----------------------------------------------------------------------------
(* Allocators.  A pool block is given back under the tag it was obtained   *)
(* with; the pool stops the system on another tag.                         *)

allocate(m, tag, n) ==
  IF m.thrown THEN m
  ELSE IF m.budget = 0 THEN Throw(m)
  ELSE LET b == CHOOSE x \in Blocks \ DOMAIN m.heap : TRUE
       IN [m EXCEPT !.heap = [x \in DOMAIN @ \union {b} |->
                                IF x = b THEN [tag |-> tag, cells |-> [j \in 0..(n - 1) |-> Raw]] ELSE @[x]],
                    !.budget = @ - 1, !.new = b]

deallocate(m, tag, b) ==
  IF b = Null THEN m
  ELSE IF b \notin DOMAIN m.heap THEN Flag(m, TRUE)
  ELSE [m EXCEPT !.heap = [x \in DOMAIN @ \ {b} |-> @[x]],
                 !.misuse = @ \/ m.heap[b].tag # tag,
                 !.lost = @ \/ (m.kind # "trivial" /\ \E j \in DOMAIN m.heap[b].cells : Owned(m.heap[b].cells[j]))]

-----------------------------------------------------------------------------
(* Construction in raw memory and destruction.                             *)

\* The backout helpers: construct vals from index at on; when one construction throws, the destructor of
\* the helper destroys the ones before it.
Emplace(m, b, at, vals, throws) ==
  LET n == Len(vals)
      done == IF throws /\ m.budget < n THEN m.budget ELSE n
      ok == Inside(m, b, at, n) /\ \A c \in Range(Values(m, b, at, n)) : ~Owned(c)
  IN IF m.thrown THEN m
     ELSE IF done < n THEN [Throw(m) EXCEPT !.budget = 0, !.misuse = @ \/ ~ok]
     ELSE Flag([Put(m, b, at, vals) EXCEPT !.budget = IF throws THEN @ - n ELSE @],
               ~ok \/ Raw \in Range(vals))

uninitialized_copy(m, vals, b, at) == Emplace(m, b, at, vals, m.kind # "trivial")

\* memmove for a trivial type; a type without a move constructor is copied.
uninitialized_move(m, src, from, n, b, at) ==
  LET r == Emplace(m, b, at, Values(m, src, from, n), m.kind = "copyable")
  IN IF r.thrown \/ m.kind # "movable" THEN r ELSE Put(r, src, from, Constantly(n, Moved))

uninitialized_fill(m, b, at, n, value) == Emplace(m, b, at, Constantly(n, value), m.kind # "trivial")

\* memset to zero for a trivial type, the default constructor otherwise.
uninitialized_default_construct(m, b, at, n) == Emplace(m, b, at, Constantly(n, 0), m.kind # "trivial")

destroy(m, b, at, n) ==
  LET cells == Range(Values(m, b, at, n))
  IN Flag(Put(m, b, at, Constantly(n, Raw)), m.kind # "trivial" /\ Raw \in cells)

-----------------------------------------------------------------------------
(* Assignment to objects that exist.                                       *)

\* One *dst = value or *dst = move(*src); copy assignment of an owning type can throw.
AssignOne(m, b, at, value, throws) ==
  LET old == Values(m, b, at, 1)[1]
  IN IF m.thrown THEN m
     ELSE IF throws /\ m.budget = 0 THEN Throw(m)
     ELSE Flag([Put(m, b, at, <<value>>) EXCEPT !.budget = IF throws THEN @ - 1 ELSE @],
               value = Raw \/ (m.kind # "trivial" /\ old = Raw))

MoveOne(m, b, from, to) ==
  LET r == AssignOne(m, b, to, Values(m, b, from, 1)[1], m.kind = "copyable")
  IN IF r.thrown \/ m.kind # "movable" THEN r ELSE Put(r, b, from, <<Moved>>)

copy(m, vals, b, at) ==
  FoldLeft(LAMBDA x, k : AssignOne(x, b, at + k - 1, vals[k], m.kind # "trivial"), m, [k \in 1..Len(vals) |-> k])

\* When the value's bytes are all zero memset clears count bytes, not count objects.
fill_n(m, b, at, n, value) ==
  IF m.kind = "trivial" /\ value = 0 /\ n > 0 /\ ~m.thrown
  THEN Deviate(Put(m, b, at, Constantly(n, Moved)), "fill_n clears bytes")
  ELSE copy(m, Constantly(n, value), b, at)

shift_left(m, b, first, last, offset) ==
  IF offset <= 0 \/ last - first < offset THEN m
  ELSE FoldLeft(LAMBDA x, k : MoveOne(x, b, first + offset + k, first + k), m,
                [k \in 1..(last - first - offset) |-> k - 1])

\* From the last element backwards.
shift_right(m, b, first, last, offset) ==
  IF offset <= 0 \/ last - first < offset THEN m
  ELSE LET count == last - first - offset
       IN FoldLeft(LAMBDA x, k : MoveOne(x, b, first + count - k, first + offset + count - k), m,
                   [k \in 1..count |-> k])
=============================================================================
