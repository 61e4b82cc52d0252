----------------------------- MODULE Comparisons -----------------------------
(***************************************************************************)
(* The comparison operators of the vocabulary types (include/utility.hpp,  *)
(* tuple.hpp, array.hpp, vector.hpp, optional.hpp, smart_pointer.hpp), the *)
(* access to elements by index and by type, and the movements of iterators *)
(* (include/iterator.hpp, runtime/include/iterator_impl.hpp).  Six holds   *)
(* the answers of ==, !=, <, <=, >, >=.  An address is a number, 0 the     *)
(* null pointer; an optional is a sequence of at most one value.           *)
(***************************************************************************)
EXTENDS Text

CONSTANTS
  Addresses,      \* numbers, 0 among them
  MaxOffset       \* bound: how far an iterator is moved

Null == 0

-----------------------------------------------------------------------------
(* Smart pointers compare the addresses.  Five of the operators are made   *)
(* of two: != of ==, and <=, >, >= of <.                                   *)

Six(eq, lt, gt) == [eq |-> eq, ne |-> ~eq, lt |-> lt, le |-> ~gt, gt |-> gt, ge |-> ~lt]

unique_ptr_six(p, q) == Six(p = q, p < q, q < p)
shared_ptr_six(p, q) == Six(p = q, p < q, q < p)
intrusive_ptr_six(p, q) == Six(p = q, p < q, q < p)

\* A shared_ptr with nullptr on its right.
shared_null_six(p) == Six(p = Null, p < Null, Null < p)

-----------------------------------------------------------------------------
(* Optionals.                                                              *)

optional_six(x, y) ==
  LET lt(a, b) == b # <<>> /\ (a = <<>> \/ a[1] < b[1])
  IN Six((x = <<>>) = (y = <<>>) /\ (x = <<>> \/ x[1] = y[1]), lt(x, y), lt(y, x))

\* With a value on either side each operator is that of the values; an empty optional answers false to all, also to !=.
optional_value_six(x, v) ==
  LET Of(u, w) == [eq |-> u = w, ne |-> u # w, lt |-> u < w, le |-> u <= w, gt |-> u > w, ge |-> u >= w]
      Never == [o \in {"eq", "ne", "lt", "le", "gt", "ge"} |-> FALSE]
  IN IF x = <<>> THEN <<Never, Never>> ELSE <<Of(x[1], v), Of(v, x[1])>>

-----------------------------------------------------------------------------
(* Pairs, tuples, arrays and vectors.                                      *)

\* Mutant: the second members count although the first ones are out of order.
PairSixLoose(x, y) ==
  LET lt(a, b) == a[1] < b[1] \/ a[2] < b[2] IN Six(x[1] = y[1] /\ x[2] = y[2], lt(x, y), lt(y, x))

pair_six(x, y) ==
  LET lt(a, b) == a[1] < b[1] \/ (~(b[1] < a[1]) /\ a[2] < b[2])
  IN Six(x[1] = y[1] /\ x[2] = y[2], lt(x, y), lt(y, x))

tuple_equal_to(x, y) == IF Len(x) # Len(y) THEN FALSE ELSE \A i \in DOMAIN x : x[i] = y[i]

\* Tuples of different lengths compare too: less_impl with Idx = idx - 1.
RECURSIVE less_impl(_, _, _)
less_impl(x, y, idx) ==
  IF Len(x) >= Len(y) /\ idx = Len(y) + 1 THEN FALSE
  ELSE IF idx = Len(x) + 1 THEN TRUE
  ELSE IF x[idx] < y[idx] THEN TRUE
  ELSE IF y[idx] < x[idx] THEN FALSE
  ELSE less_impl(x, y, idx + 1)

tuple_six(x, y) == Six(tuple_equal_to(x, y), less_impl(x, y, 1), less_impl(y, x, 1))

\* Arrays have one length and equal looks at the length of the left one only; < is the comparison of pointers, for
\* elements of one byte or of two.
array_six(x, y, width) ==
  Six(equalFrom(x, y, 1), compare_integral_less(x, y, width), compare_integral_less(y, x, width))

\* Vectors compare their sizes before they call equal.
vector_six(x, y, width) ==
  Six(Len(x) = Len(y) /\ equalFrom(x, y, 1), compare_integral_less(x, y, width), compare_integral_less(y, x, width))

-----------------------------------------------------------------------------
(* Elements by index and by type.                                          *)

at_index_verified(s, idx) == IF idx < Len(s) THEN s[idx + 1] ELSE Refused

\* types is the sequence of the types of a tuple; -1 when ty is not one of them.
count_entries(ty, types) == Cardinality({i \in DOMAIN types : types[i] = ty})

RECURSIVE index_of_impl(_, _, _)
index_of_impl(idx, ty, types) ==
  IF Len(types) = 1 THEN (IF Head(types) = ty THEN idx ELSE -1)
  ELSE IF Head(types) = ty THEN idx ELSE index_of_impl(idx + 1, ty, Tail(types))

\* get<Ty>(tuple) compiles when the type is there exactly once.
get_by_type(ty, types, values) ==
  IF count_entries(ty, types) = 1 THEN values[index_of_impl(0, ty, types) + 1] ELSE Refused

-----------------------------------------------------------------------------
(* Iterators: a position, and the category that selects advance_impl.  A   *)
(* forward iterator derives from the input tag and can only be incremented.*)

Categories == {"forward", "bidirectional", "random"}

RECURSIVE increments(_, _)
increments(it, offset) == IF offset > 0 THEN increments(it + 1, offset - 1) ELSE it

RECURSIVE decrements(_, _)
decrements(it, offset) == IF offset < 0 THEN decrements(it - 1, offset + 1) ELSE it

advance(it, offset, category) ==
  CASE category = "forward" -> increments(it, offset)
    [] category = "bidirectional" -> IF offset > 0 THEN increments(it, offset) ELSE decrements(it, offset)
    [] category = "random" -> it + offset

next(it, offset, category) == advance(it, offset, category)
\* Without an offset prev moves by -1.
prev(it, category) == advance(it, -1, category)

RECURSIVE distanceFrom(_, _, _)
distanceFrom(first, last, category) ==
  IF first = last THEN 0 ELSE 1 + distanceFrom(next(first, 1, category), last, category)
distance(first, last, category) == IF category = "random" THEN last - first ELSE distanceFrom(first, last, category)

\* move_iterator: ++, --, + and - on its base.
move_iterator_moves(it, offset, category) ==
  [inc |-> next(it, 1, category), dec |-> prev(it, category), plus |-> advance(it, offset, category),
   minus |-> advance(it, -offset, category)]
move_iterator_six(i, j) == Six(i = j, i < j, j < i)

-----------------------------------------------------------------------------
(* The calls.                                                              *)

ComparisonCall ==
  \/ \E p \in Addresses, q \in Addresses : call = Call("pointers", <<p>>, <<q>>, 0)
  \/ \E x \in UpTo(Items, 1), y \in UpTo(Items, 1), v \in Items : call = Call("optionals", x, y, v)
  \/ \E s \in Ranges, t \in Ranges : call = Call("sequences", s, t, 0)
  \/ \E types \in UpTo({0, 1}, MaxRange) \ {<<>>}, i \in 0..MaxRange : call = Call("elements", types, Numbered(Len(types)), i)
  \/ \E n \in 0..MaxOffset, i \in 0..MaxOffset : call = Call("iterators", <<n>>, <<>>, i)

ComparePointers ==
  LET p == call.s[1]
      q == call.t[1]
  IN Do("pointers", {unique_ptr_six(p, q), shared_ptr_six(p, q), intrusive_ptr_six(p, q), move_iterator_six(p, q)}
                      \union (IF q = Null THEN {shared_null_six(p)} ELSE {}))
CompareOptionals ==
  Do("optionals", [both |-> optional_six(call.s, call.t), value |-> optional_value_six(call.s, call.i)])
CompareSequences ==
  LET s == call.s
      t == call.t
      Equals(width) == IF Len(s) = Len(t) THEN {array_six(s, t, width)} ELSE {}
  IN Do("sequences",
        [bytes |-> {vector_six(s, t, 1)} \union Equals(1), words |-> {vector_six(s, t, 2)} \union Equals(2),
         tuples |-> {tuple_six(s, t)} \union (IF Len(s) = 2 /\ Len(t) = 2 THEN {pair_six(s, t)} ELSE {})])
Elements ==
  Do("elements", [at |-> at_index_verified(call.t, call.i),
                  typed |-> [ty \in {0, 1} |-> get_by_type(ty, call.s, call.t)]])
Iterators ==
  Do("iterators",
     [c \in Categories |->
        LET there == next(call.i, call.s[1], c)
        IN [there |-> there, back |-> advance(there, -call.s[1], c), away |-> distance(call.i, there, c),
            moves |-> move_iterator_moves(call.i, call.s[1], c)]])

ComparisonNext == ComparePointers \/ CompareOptionals \/ CompareSequences \/ Elements \/ Iterators

-----------------------------------------------------------------------------
(* What the results mean.                                                  *)

\* Every family of six operators is one total order, that of the sequences of what is compared: an address, no value
\* or one, the members of a pair, a tuple, an array or a vector, also of tuples of different lengths.  Against a value
\* that holds for optionals that have one.  Arrays and vectors of elements wider than a byte go by memcmp and have
\* another order than their elements, yet a total one that agrees with ==.
ComparisonsTotal ==
  LET s == call.s
      t == call.t
  IN result # NoResult =>
       CASE call.op = "pointers" -> result = {Ordered(s, t)}
         [] call.op = "optionals" ->
              /\ result.both = Ordered(s, t)
              /\ s # <<>> => result.value = <<Ordered(s, <<call.i>>), Ordered(<<call.i>>, s)>>
         [] call.op = "sequences" ->
              /\ result.bytes = {Ordered(s, t)}
              /\ result.tuples = {Ordered(s, t)}
              /\ \A r \in result.words :
                   /\ r.eq = (s = t) /\ r.ne = (s # t) /\ r.le = (r.lt \/ r.eq) /\ r.ge = (r.gt \/ r.eq)
                   /\ (r.lt \/ r.gt) = r.ne /\ ~(r.lt /\ r.gt)
         [] OTHER -> TRUE

\* at and get refuse what is not there and return the element that is; an iterator moved n times is n away, of any
\* category, and moved back by n, where the category can, it is where it was; a move_iterator moves as its base does.
ElementsReached ==
  LET n == call.s[1]
  IN result # NoResult =>
       CASE call.op = "elements" ->
              /\ result.at = IF call.i + 1 \in DOMAIN call.t THEN call.t[call.i + 1] ELSE Refused
              /\ \A ty \in {0, 1} :
                   LET Of == {i \in DOMAIN call.s : call.s[i] = ty}
                   IN IF Cardinality(Of) = 1 THEN Of = {result.typed[ty]} ELSE result.typed[ty] = Refused
         [] call.op = "iterators" ->
              \A c \in Categories :
                LET r == result[c]
                IN /\ r.there = call.i + n /\ r.away = n /\ r.moves.plus = r.there /\ r.moves.inc = call.i + 1
                   /\ c # "forward" => r.back = call.i /\ r.moves.dec = call.i - 1 /\ r.moves.minus = call.i - n
         [] OTHER -> TRUE

\* The vocabulary types compare and give access to what they hold as the standard's do.
ComparisonsCorrect == ComparisonsTotal /\ ElementsReached
=============================================================================
