------------------------------- MODULE Vector -------------------------------
(***************************************************************************)
(* ktl::vector (include/vector.hpp): every constructor, assignment and     *)
(* modifier, run on the objects-in-raw-memory machine of Objects, with     *)
(* allocation failures and throwing element copies.  want is the sequence  *)
(* each vector must hold by the standard's meaning of the calls made.      *)
(***************************************************************************)
EXTENDS Objects

CONSTANTS
  Setups,    \* programs: [kind, vectors, tags, max], the element type, the vectors used, the pool tags of
             \* their allocators and max_size()
  Worked,    \* the vectors that are modified element by element
  MaxValue,  \* element values are 0..MaxValue
  Ranges,    \* the ranges it inserts and assigns
  Budgets,   \* how many throwing calls of one operation succeed
  Avoided    \* deviations the program keeps clear of

VARIABLES
  setup,     \* the program
  heap, vec,
  want,      \* live vector -> the sequence it must hold
  misuse, lost,
  stopped    \* an exception left a noexcept function: the system has stopped

vars == <<setup, heap, vec, want, misuse, lost, stopped>>

kind == setup.kind
MaxSize == setup.max
Elements == 0..MaxValue
MIN_CAPACITY == 1
GROWTH_MULTIPLIER == 2

Impl(tag) == [alloc |-> tag, buffer |-> Null, size |-> 0, capacity |-> 0]

Machine(budget) ==
  [heap |-> heap, vec |-> vec, kind |-> kind, budget |-> budget, thrown |-> FALSE, new |-> Null,
   misuse |-> misuse, lost |-> lost, deviates |-> {}, terminate |-> FALSE]

Sized(m, v, n) == IF m.thrown THEN m ELSE [m EXCEPT !.vec[v].size = n]

\* The elements of v, as a sequence.
Content(m, v) == Values(m, m.vec[v].buffer, 0, m.vec[v].size)

-----------------------------------------------------------------------------
(* Private functions.                                                      *)

destroy_and_deallocate(m, v) ==
  LET i == m.vec[v] IN deallocate(destroy(m, i.buffer, 0, i.size), i.alloc, i.buffer)

calc_growth_unchecked(capacity) == IF capacity = 0 THEN MIN_CAPACITY ELSE capacity * GROWTH_MULTIPLIER

calc_growth(m, v) ==
  LET c == m.vec[v].capacity
  IN IF c = MaxSize THEN MaxSize + 1
     ELSE LET g == calc_growth_unchecked(c) IN IF g < MaxSize THEN g ELSE MaxSize

calc_optimal_growth(m, v, required) ==
  IF calc_growth(m, v) > required THEN calc_growth(m, v) ELSE required

\* The new elements are constructed before the old ones are transferred, so an argument that refers to an
\* element of the vector is still intact.  When the transfer throws, only the new buffer is given back.
GiveBack(m, v) == IF m.thrown THEN deallocate(m, m.vec[v].alloc, m.new) ELSE m
NewLost(m) == DeviateIf(m, m.thrown /\ m.lost, "regrowth loses new elements")
grow_unchecked(m, v, capacity, Construct(_, _), Transfer(_, _), adjustment) ==
  Then(allocate(m, m.vec[v].alloc, capacity), LAMBDA a :
    Then(GiveBack(Construct(a, a.new), v), LAMBDA c :
      Then(NewLost(GiveBack(Transfer(c, c.new), v)), LAMBDA t :
        [destroy_and_deallocate(t, v) EXCEPT
           !.vec[v] = [@ EXCEPT !.buffer = t.new, !.capacity = capacity, !.size = @ + adjustment]])))

grow(m, v, capacity, Construct(_, _), Transfer(_, _), adjustment) ==
  IF m.thrown THEN m
  ELSE IF capacity > MaxSize THEN Throw(m)
  ELSE grow_unchecked(m, v, capacity, Construct, Transfer, adjustment)

\* An argument: a value, or a reference to the element at an index of the vector itself.
Arg(m, v, arg) == IF arg.own THEN Values(m, m.vec[v].buffer, arg.x, 1)[1] ELSE arg.x

Throws(m, arg) == m.kind = "copyable" \/ (m.kind = "movable" /\ ~arg.rvalue)

make_construct_at_helper(m, v, b, pos, arg) == Emplace(m, b, pos, <<Arg(m, v, arg)>>, Throws(m, arg))

\* Moves when that cannot throw, copies otherwise: uninitialized_move of the machine copies a type without a
\* move constructor.
make_transfer_without_shift(m, b, at, count, src, from) == uninitialized_move(m, src, from, count, b, at)

make_transfer_with_shift_right(m, b, left, right, count, src) ==
  make_transfer_without_shift(make_transfer_without_shift(m, b, 0, left, src, 0),
                              b, right, count - left, src, left)

Keep(m, b) == m

\* make_cloner is a noexcept lambda: a copy that throws in it stops the system.
make_cloner(m, b, other) ==
  LET r == uninitialized_copy(m, Content(m, other), b, 0)
  IN IF r.thrown THEN [r EXCEPT !.terminate = TRUE] ELSE r

-----------------------------------------------------------------------------
(* Adding elements.                                                        *)

emplace_back(m, v, arg) ==
  LET i == m.vec[v]
      Transfer(x, b) == make_transfer_without_shift(x, b, 0, i.size, i.buffer, 0)
      Construct(x, b) == make_construct_at_helper(x, v, b, i.size, arg)
  IN IF i.size = i.capacity
     THEN grow(m, v, calc_growth(m, v), Construct, Transfer, 1)
     ELSE Sized(make_construct_at_helper(m, v, i.buffer, i.size, arg), v, i.size + 1)

\* In place: a copy of the argument first, then the last element into raw memory, the rest shifted by one.
emplace(m, v, offset, arg) ==
  LET i == m.vec[v]
      Transfer(x, b) == make_transfer_with_shift_right(x, b, offset, offset + 1, i.size, i.buffer)
      Construct(x, b) == make_construct_at_helper(x, v, b, offset, arg)
      held == IF Throws(m, arg) /\ m.budget = 0 THEN Throw(m)
              ELSE [m EXCEPT !.budget = IF Throws(m, arg) THEN @ - 1 ELSE @]
      MoveLast(x) == Sized(uninitialized_move(x, i.buffer, i.size - 1, 1, i.buffer, i.size), v, i.size + 1)
  IN IF offset = i.size THEN emplace_back(m, v, arg)
     ELSE IF i.size = i.capacity THEN grow(m, v, calc_growth(m, v), Construct, Transfer, 1)
     ELSE AssignOne(shift_right(MoveLast(held), i.buffer, offset, i.size, 1), i.buffer, offset, Arg(m, v, arg),
                    m.kind = "copyable")

\* Fill(x, b, at, from, n) constructs elements from..from+n-1 of what is inserted, Write assigns them.
InsertWithoutGrow(m, v, offset, count, Fill(_, _, _, _, _), Write(_, _, _, _, _)) ==
  LET i == m.vec[v]
      residue == i.size - offset
      raw == count - residue
      Spread(x, at, n, from) == Sized(make_transfer_without_shift(x, i.buffer, at, n, i.buffer, from), v, i.size + count)
  IN IF count <= residue
     THEN Write(shift_right(Spread(m, i.size, count, i.size - count), i.buffer, offset, i.size, count),
                i.buffer, offset, 0, count)
     ELSE Write(Spread(Sized(Fill(m, i.buffer, i.size, residue, raw), v, i.size + raw), i.size + raw, residue, offset),
                i.buffer, offset, 0, residue)

\* insert(pos, count, value) is used with a trivial integral type: append_n_without_grow gets its arguments
\* in the wrong order, which only compiles for one.
insert_n(m, v, offset, count, value) ==
  LET i == m.vec[v]
      Construct(x, b) == uninitialized_fill(x, b, offset, count, value)
      Transfer(x, b) == make_transfer_with_shift_right(x, b, offset, offset + count, i.size, i.buffer)
      Fill(x, b, at, from, n) == uninitialized_fill(x, b, at, n, value)
      Write(x, b, at, from, n) == fill_n(x, b, at, n, value)
  IN IF i.size + count > i.capacity
     THEN grow(m, v, calc_optimal_growth(m, v, i.size + count), Construct, Transfer, count)
     ELSE IF offset = i.size
     THEN Deviate(Sized(uninitialized_fill(m, i.buffer, i.size, value, count), v, i.size + value),
                  "append_n swaps its arguments")
     ELSE InsertWithoutGrow(m, v, offset, count, Fill, Write)

insert_range_forward(m, v, offset, vals) ==
  LET i == m.vec[v]
      count == Len(vals)
      Construct(x, b) == uninitialized_copy(x, vals, b, offset)
      Transfer(x, b) == make_transfer_with_shift_right(x, b, offset, offset + count, i.size, i.buffer)
      Fill(x, b, at, from, n) == uninitialized_copy(x, SubSeq(vals, from + 1, from + n), b, at)
      Write(x, b, at, from, n) == copy(x, SubSeq(vals, from + 1, from + n), b, at)
  IN IF i.size + count > i.capacity
     THEN grow(m, v, calc_optimal_growth(m, v, i.size + count), Construct, Transfer, count)
     ELSE IF offset = i.size
     THEN Sized(uninitialized_copy(m, vals, i.buffer, i.size), v, i.size + count)
     ELSE InsertWithoutGrow(m, v, offset, count, Fill, Write)

\* The range constructor and assign, for a random-access range: forward_or_greater_t tests is_base_of the
\* wrong way round and sends it here.
construct_from_range(m, v, vals) ==
  FoldLeft(LAMBDA x, e : IF x.thrown THEN x ELSE emplace_back(x, v, [own |-> FALSE, rvalue |-> FALSE, x |-> e]), m, vals)

\* For a single-pass range: append, then rotate into place.  pos is stale once the buffer has grown, and the
\* middle of the rotation should be the old end, not offset + count.
insert_range_input(m, v, offset, vals) ==
  LET i == m.vec[v]
      middle == offset + Len(vals)
      Rotate(r, all) == Put(r, i.buffer, offset, SubSeq(all, middle + 1, Len(all)) \o SubSeq(all, offset + 1, middle))
  IN Then(construct_from_range(m, v, vals), LAMBDA r :
       IF r.vec[v].buffer # i.buffer THEN Deviate(Flag(r, TRUE), "insert_range keeps a stale position")
       ELSE DeviateIf(Rotate(r, Content(r, v)), middle # i.size, "insert_range rotates about the wrong element"))

assign_range_input(m, v, vals) ==
  LET i == m.vec[v]
      n == IF Len(vals) < i.size THEN Len(vals) ELSE i.size
  IN Then(copy(m, SubSeq(vals, 1, n), i.buffer, 0), LAMBDA assigned :
       IF n = i.size THEN construct_from_range(assigned, v, SubSeq(vals, n + 1, Len(vals)))
       ELSE Sized(destroy(assigned, i.buffer, n, i.size - n), v, n))

clear(m, v) == Sized(destroy(m, m.vec[v].buffer, 0, m.vec[v].size), v, 0)

\* The last branch copies from the wrong end of the range unless the vector is empty.
assign_range_forward(m, v, vals, verify) ==
  LET i == m.vec[v]
      n == Len(vals)
      Construct(x, b) == uninitialized_copy(x, vals, b, 0)
  IN IF n > i.capacity
     THEN IF verify THEN grow(clear(m, v), v, n, Construct, Keep, n)
          ELSE grow_unchecked(clear(m, v), v, n, Construct, Keep, n)
     ELSE IF n <= i.size
     THEN Then(copy(m, vals, i.buffer, 0),
               LAMBDA assigned : Sized(destroy(assigned, i.buffer, n, i.size - n), v, n))
     ELSE IF i.size = 0 THEN Sized(uninitialized_copy(m, vals, i.buffer, 0), v, n)
     ELSE Deviate(Flag(m, TRUE), "assign_range reads before its range")

-----------------------------------------------------------------------------
(* Removing and resizing.                                                  *)

\* The tail is not destroyed: an element that was not moved from keeps what it owns there.
erase_impl(m, v, offset, count) ==
  LET i == m.vec[v]
  IN Then(Sized(shift_left(m, i.buffer, offset, i.size, count), v, i.size - count), LAMBDA r :
       IF m.kind = "trivial" THEN Put(r, i.buffer, i.size - count, Constantly(count, Raw))
       ELSE DeviateIf(r, \E c \in Range(Values(r, i.buffer, i.size - count, count)) : Owned(c),
                      "erase leaves its tail alive"))

pop_back(m, v) ==
  LET i == m.vec[v] IN Sized(destroy(m, i.buffer, i.size - 1, 1), v, i.size - 1)

resize_impl(m, v, count, Construct(_, _)) ==
  LET i == m.vec[v]
      Transfer(x, b) == make_transfer_without_shift(x, b, 0, i.size, i.buffer, 0)
  IN Sized(IF count < i.size THEN destroy(m, i.buffer, count, i.size - count)
           ELSE IF count = i.size THEN m
           ELSE IF count <= i.capacity THEN Construct(m, i.buffer)
           ELSE grow(m, v, count, Construct, Transfer, 0),
           v, count)

Relocate(m, v, capacity) ==
  LET i == m.vec[v]
      Transfer(x, b) == make_transfer_without_shift(x, b, 0, i.size, i.buffer, 0)
  IN grow(m, v, capacity, Keep, Transfer, 0)

reserve(m, v, capacity) == IF capacity > m.vec[v].capacity THEN Relocate(m, v, capacity) ELSE m

shrink_to_fit(m, v) == IF m.vec[v].capacity > m.vec[v].size THEN Relocate(m, v, m.vec[v].size) ELSE m

-----------------------------------------------------------------------------
(* Copying, moving and swapping whole vectors.                             *)

Clone(m, v, other) ==
  LET Construct(x, b) == make_cloner(x, b, other)
  IN grow_unchecked(m, v, m.vec[other].size, Construct, Keep, m.vec[other].size)

\* Both library allocators propagate: with other tags the old buffer goes first, under its own tag.
copy_assignment_impl(m, v, other) ==
  IF m.vec[v].alloc = m.vec[other].alloc
  THEN assign_range_forward(m, v, Content(m, other), FALSE)
  ELSE LET freed == destroy_and_deallocate(m, v)
       IN Clone([freed EXCEPT !.vec[v] = Impl(m.vec[other].alloc)], v, other)

\* Mutant: the source keeps its buffer.
TakenShared(m, v, other, tag) == [m EXCEPT !.vec[v] = [m.vec[other] EXCEPT !.alloc = tag]]

Taken(m, v, other, tag) ==
  [m EXCEPT !.vec = [@ EXCEPT ![v] = [m.vec[other] EXCEPT !.alloc = tag], ![other] = Impl(m.vec[other].alloc)]]

move_assignment_impl(m, v, other) == Taken(destroy_and_deallocate(m, v), v, other, m.vec[other].alloc)

swap(m, v, other) == [m EXCEPT !.vec = [@ EXCEPT ![v] = m.vec[other], ![other] = m.vec[v]]]

\* A constructor that throws leaves no vector behind, but also nobody to free the buffer it had obtained.
Constructed(m, v) ==
  IF ~m.thrown THEN m
  ELSE LET r == [m EXCEPT !.vec = [x \in DOMAIN @ \ {v} |-> @[x]]]
       IN IF m.vec[v].buffer = Null THEN r ELSE Deviate(r, "throwing constructor leaks")

Empty(m, v, tag) == [m EXCEPT !.vec = [x \in DOMAIN @ \union {v} |-> IF x = v THEN Impl(tag) ELSE @[x]]]

CountConstructor(m, v, tag, n, value) ==
  LET Construct(x, b) == IF value = Null THEN uninitialized_default_construct(x, b, 0, n)
                         ELSE uninitialized_fill(x, b, 0, n, value)
  IN Constructed(grow(Empty(m, v, tag), v, n, Construct, Keep, n), v)

RangeConstructor(m, v, tag, vals) == Constructed(construct_from_range(Empty(m, v, tag), v, vals), v)

CopyConstructor(m, v, other, tag) == Constructed(Clone(Empty(m, v, tag), v, other), v)

\* With a different allocator the elements are copied one by one and the source is cleared.
MoveConstructor(m, v, other, tag) ==
  LET Drain(copied) == IF copied.thrown THEN Constructed(copied, v) ELSE clear(copied, other)
  IN IF tag = m.vec[other].alloc THEN Taken(Empty(m, v, tag), v, other, tag)
     ELSE Drain(assign_range_input(Empty(m, v, tag), v, Content(m, other)))

Destructor(m, v) ==
  LET r == destroy_and_deallocate(m, v) IN [r EXCEPT !.vec = [x \in DOMAIN @ \ {v} |-> @[x]]]
-----------------------------------------------------------------------------
(* The program: any sequence of calls on its vectors.                      *)

Live == DOMAIN vec
Args(v) == [own : {FALSE}, rvalue : BOOLEAN, x : Elements]
             \union [own : {TRUE}, rvalue : {FALSE}, x : 0..(vec[v].size - 1)]
Meant(v, arg) == IF arg.own THEN want[v][arg.x + 1] ELSE arg.x
Spliced(s, offset, t) == SubSeq(s, 1, offset) \o t \o SubSeq(s, offset + 1, Len(s))

\* Addresses mean nothing between calls: a buffer is named after its vector.
Named(m, b) == IF \E v \in DOMAIN m.vec : m.vec[v].buffer = b /\ b # Null
               THEN CHOOSE v \in DOMAIN m.vec : m.vec[v].buffer = b ELSE b

\* The call ran as m; w is what the vectors hold by its contract.  When it throws, a call with the strong
\* guarantee has changed nothing, any other leaves some valid content.
Commit(m, w, strong) ==
  /\ m.deviates \intersect Avoided = {}
  /\ setup' = setup
  /\ stopped' = m.terminate
  /\ misuse' = m.misuse
  /\ lost' = m.lost
  /\ IF m.terminate
     THEN UNCHANGED <<heap, vec, want>>
     ELSE /\ heap' = [x \in {Named(m, b) : b \in DOMAIN m.heap} |->
                       m.heap[CHOOSE b \in DOMAIN m.heap : Named(m, b) = x]]
          /\ vec' = [v \in DOMAIN m.vec |-> [m.vec[v] EXCEPT !.buffer = Named(m, @)]]
          /\ want' = IF ~m.thrown THEN w
                     ELSE [x \in DOMAIN m.vec |-> IF strong THEN want[x] ELSE Content(m, x)]

With(v, s) == [x \in Live \union {v} |-> IF x = v THEN s ELSE want[x]]

EmplaceBack(v, k) ==
  \E arg \in Args(v) : Commit(emplace_back(Machine(k), v, arg), With(v, Append(want[v], Meant(v, arg))), TRUE)

EmplaceAt(v, k) ==
  \E arg \in Args(v), o \in 0..vec[v].size :
    Commit(emplace(Machine(k), v, o, arg), With(v, Spliced(want[v], o, <<Meant(v, arg)>>)),
           o = vec[v].size \/ vec[v].size = vec[v].capacity)

InsertN(v, k) ==
  /\ kind = "trivial"
  /\ \E o \in 0..vec[v].size, n \in 0..2, x \in Elements :
       Commit(insert_n(Machine(k), v, o, n, x), With(v, Spliced(want[v], o, Constantly(n, x))), FALSE)

InsertForward(v, k) ==
  \E o \in 0..vec[v].size, s \in Ranges :
    Commit(insert_range_forward(Machine(k), v, o, s), With(v, Spliced(want[v], o, s)), FALSE)

InsertInput(v, k) ==
  /\ kind # "copyable"
  /\ \E o \in 0..vec[v].size, s \in Ranges :
       Commit(insert_range_input(Machine(k), v, o, s), With(v, Spliced(want[v], o, s)), FALSE)

Assign(v, k) ==
  \E s \in Ranges : \/ Commit(assign_range_input(Machine(k), v, s), With(v, s), FALSE)
                    \/ Commit(assign_range_forward(Machine(k), v, s, TRUE), With(v, s), FALSE)

Erase(v, k) ==
  \E o \in 0..(vec[v].size - 1) : \E n \in 1..(vec[v].size - o) :
    Commit(erase_impl(Machine(k), v, o, n),
           With(v, SubSeq(want[v], 1, o) \o SubSeq(want[v], o + n + 1, Len(want[v]))), FALSE)

PopBack(v) ==
  /\ vec[v].size > 0
  /\ Commit(pop_back(Machine(0), v), With(v, Front(want[v])), TRUE)

Clear(v) == Commit(clear(Machine(0), v), With(v, <<>>), TRUE)

\* resize(count) when value is Null, else resize(count, value).
Resize(v, k) ==
  \E n \in 0..(MaxSize + 1), x \in Elements \union {Null} :
    LET size == vec[v].size
        Construct(m, b) == IF x = Null THEN uninitialized_default_construct(m, b, size, n - size)
                           ELSE uninitialized_fill(m, b, size, n - size, x)
        grown == want[v] \o Constantly(n - size, IF x = Null THEN 0 ELSE x)
    IN Commit(resize_impl(Machine(k), v, n, Construct), With(v, SubSeq(grown, 1, n)), TRUE)

Reserve(v, k) == \E c \in 0..(MaxSize + 1) : Commit(reserve(Machine(k), v, c), want, TRUE)

ShrinkToFit(v, k) == Commit(shrink_to_fit(Machine(k), v), want, TRUE)

CopyAssign(v, other, k) == Commit(copy_assignment_impl(Machine(k), v, other), With(v, want[other]), FALSE)

MoveAssign(v, other) ==
  Commit(move_assignment_impl(Machine(0), v, other), [want EXCEPT ![v] = want[other], ![other] = <<>>], TRUE)

Swap(v, other) ==
  Commit(swap(Machine(0), v, other), [want EXCEPT ![v] = want[other], ![other] = want[v]], TRUE)

Construct(v, tag, k) ==
  \/ Commit(Empty(Machine(k), v, tag), With(v, <<>>), TRUE)
  \/ \E n \in 0..2, x \in Elements \union {Null} :
       Commit(CountConstructor(Machine(k), v, tag, n, x), With(v, Constantly(n, IF x = Null THEN 0 ELSE x)), TRUE)
  \/ \E s \in Ranges : Commit(RangeConstructor(Machine(k), v, tag, s), With(v, s), TRUE)
  \/ \E other \in Live :
       \/ Commit(CopyConstructor(Machine(k), v, other, tag), With(v, want[other]), TRUE)
       \/ Commit(MoveConstructor(Machine(k), v, other, tag),
                 [x \in Live \union {v} |-> IF x = v THEN want[other] ELSE IF x = other THEN <<>> ELSE want[x]], TRUE)

Destroy(v) == Commit(Destructor(Machine(0), v), [x \in Live \ {v} |-> want[x]], TRUE)

Init ==
  /\ setup \in Setups
  /\ heap = <<>>
  /\ vec = <<>>
  /\ want = <<>>
  /\ misuse = FALSE /\ lost = FALSE /\ stopped = FALSE

Next ==
  /\ ~stopped
  /\ \/ \E v \in Live \intersect Worked, k \in Budgets :
          \/ EmplaceBack(v, k) \/ EmplaceAt(v, k) \/ InsertN(v, k) \/ InsertForward(v, k) \/ InsertInput(v, k)
          \/ Assign(v, k) \/ Erase(v, k) \/ Resize(v, k) \/ Reserve(v, k) \/ ShrinkToFit(v, k)
     \/ \E v \in Live, k \in Budgets : \E other \in Live \ {v} : CopyAssign(v, other, k)
     \/ \E v \in Live : PopBack(v) \/ Clear(v) \/ Destroy(v)
     \/ \E v \in Live : \E other \in Live \ {v} : MoveAssign(v, other) \/ Swap(v, other)
     \/ \E v \in setup.vectors \ Live, tag \in setup.tags, k \in Budgets : Construct(v, tag, k)

Spec == Init /\ [][Next]_vars

-----------------------------------------------------------------------------
(* Properties.                                                             *)

\* Every block of the heap is the buffer of exactly one vector, of the vector's capacity and pool tag, the
\* first size cells of it hold objects and no other cell owns anything; no call has used a cell against its
\* lifetime, given back a block under another tag, or dropped an owning object with its block, whichever
\* allocation or element copy threw (grow_unchecked, the backout helpers, destroy_and_deallocate).
VectorLifetimes ==
  /\ ~misuse
  /\ ~lost
  /\ DOMAIN heap = {vec[v].buffer : v \in Live} \ {Null}
  /\ \A v \in Live :
       LET i == vec[v]
       IN /\ i.size <= i.capacity
          /\ \A w \in Live \ {v} : i.buffer = Null \/ vec[w].buffer # i.buffer
          /\ IF i.buffer = Null THEN i.capacity = 0
             ELSE /\ heap[i.buffer].tag = i.alloc
                  /\ DOMAIN heap[i.buffer].cells = 0..(i.capacity - 1)
                  /\ \A j \in 0..(i.capacity - 1) :
                       IF j < i.size THEN heap[i.buffer].cells[j] # Raw ELSE ~Owned(heap[i.buffer].cells[j])

\* Each vector holds the sequence the standard gives the calls made, an argument that refers into the vector
\* included; a call with the strong guarantee that threw changed nothing.
VectorContents ==
  \A v \in Live : [k \in 1..vec[v].size |-> heap[vec[v].buffer].cells[k - 1]] = want[v]

\* A vector is sound when its memory and its contents are, after every call and every exception.
VectorSound == VectorLifetimes /\ VectorContents
=============================================================================
