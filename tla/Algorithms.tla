------------------------------ MODULE Algorithms ------------------------------
(***************************************************************************)
(* The sequence algorithms of include/algorithm.hpp and                    *)
(* runtime/include/algorithm_impl.hpp.  A range is a sequence, an iterator *)
(* a position of it, Len + 1 its end; Beyond is what a read outside the    *)
(* range gives.                                                            *)
(***************************************************************************)
EXTENDS Integers, Sequences, FiniteSets, OneCall

CONSTANTS
  Items,          \* the values of a range: naturals, so that they have an order
  MaxRange,       \* bound: length of the ranges
  LongRange,      \* bound: length of the ranges that are rotated or searched for a subrange
  Beyond

Ranges == UNION {[1..n -> Items] : n \in 0..MaxRange}
Read(s, i) == IF i \in DOMAIN s THEN s[i] ELSE Beyond
Swapped(s, i, j) == [s EXCEPT ![i] = s[j], ![j] = s[i]]

-----------------------------------------------------------------------------
(* Searching.                                                              *)

\* find, find_if, find_if_not: one loop with three conditions.
RECURSIVE findIfFrom(_, _, _)
findIfFrom(s, first, Wanted) ==
  IF first = Len(s) + 1 \/ Read(s, first) \in Wanted THEN first ELSE findIfFrom(s, first + 1, Wanted)
find_if(s, Wanted) == findIfFrom(s, 1, Wanted)

RECURSIVE count_matches_at_begin(_, _, _, _)
count_matches_at_begin(s, i, p, j) ==
  IF j # Len(p) + 1 /\ Read(s, i) = p[j] THEN 1 + count_matches_at_begin(s, i + 1, p, j + 1) ELSE 0

\* After a partial match the search goes on behind the element that did not match.
RECURSIVE findSubrangeFrom(_, _, _, _)
findSubrangeFrom(s, first, left, p) ==
  LET n == count_matches_at_begin(s, first, p, 1)
  IN IF left < Len(p) THEN Len(s) + 1
     ELSE IF n = Len(p) THEN first
     ELSE findSubrangeFrom(s, first + n + 1, left - (n + 1), p)
find_subrange(s, p) == findSubrangeFrom(s, 1, Len(s), p)

RECURSIVE halve(_, _, _, _)
halve(s, first, count, v) ==
  LET half == count \div 2
  IN IF count = 0 THEN first
     ELSE IF Read(s, first + half) < v THEN halve(s, first + half + 1, count - (half + 1), v)
     ELSE halve(s, first, half, v)
binary_search(s, v) == LET i == halve(s, 1, Len(s), v) IN i # Len(s) + 1 /\ Read(s, i) = v

-----------------------------------------------------------------------------
(* Comparing.  The iterators of equal and of the first comparison may be   *)
(* of any kind; pointers are compared byte by byte, as memcmp does.        *)

RECURSIVE equalFrom(_, _, _)
equalFrom(s, t, i) == i > Len(s) \/ (Read(s, i) = Read(t, i) /\ equalFrom(s, t, i + 1))
equal(s, t) == Len(s) = Len(t) /\ equalFrom(s, t, 1)

RECURSIVE lexicographicalFrom(_, _, _)
lexicographicalFrom(s, t, i) ==
  IF i > Len(s) \/ i > Len(t) THEN i > Len(s) /\ i <= Len(t)
  ELSE IF s[i] < t[i] THEN TRUE
  ELSE IF t[i] < s[i] THEN FALSE
  ELSE lexicographicalFrom(s, t, i + 1)
lexicographical_compare(s, t) == lexicographicalFrom(s, t, 1)

\* The bytes of the elements, the low one first; an element of this model has two bytes of one bit.
Bytes(s) == [i \in 1..(2 * Len(s)) |-> IF i % 2 = 1 THEN s[(i + 1) \div 2] % 2 ELSE s[i \div 2] \div 2]

RECURSIVE memcmp(_, _, _, _)
memcmp(s, t, i, n) ==
  IF i > n THEN 0 ELSE IF s[i] = t[i] THEN memcmp(s, t, i + 1, n) ELSE s[i] - t[i]

compare_integral_less(s, t, width) ==
  LET n == IF Len(s) < Len(t) THEN Len(s) ELSE Len(t)
      c == IF width = 1 THEN memcmp(s, t, 1, n) ELSE memcmp(Bytes(s), Bytes(t), 1, 2 * n)
  IN IF c # 0 THEN c < 0 ELSE Len(s) < Len(t)

-----------------------------------------------------------------------------
(* Changing a range in place.                                              *)

RECURSIVE reverseBetween(_, _, _)
reverseBetween(s, first, last) ==
  IF first < last THEN reverseBetween(Swapped(s, first, last), first + 1, last - 1) ELSE s
reverse_impl(s, first, last) == IF first # last THEN reverseBetween(s, first, last - 1) ELSE s

\* Mutant: the second part is not reversed.
RotateReversesOnce(s, mid) ==
  LET last == Len(s) + 1
  IN [range |-> reverse_impl(reverse_impl(s, 1, mid), 1, last), pos |-> 1 + (last - mid)]

\* rotate_left_impl for random access: three reversals, and where the old first element went.
rotate_left_impl(s, mid) ==
  LET last == Len(s) + 1
  IN [range |-> reverse_impl(reverse_impl(reverse_impl(s, 1, mid), mid, last), 1, last), pos |-> 1 + (last - mid)]

\* rotate_left_impl for forward iterators: a cycle of swaps ends when current reaches the end, and the next one starts
\* at new_first.
RECURSIVE rotateForward(_, _, _, _)
rotateForward(s, first, mid, current) ==
  LET t == Swapped(s, first, current)
      mid2 == IF first + 1 = mid THEN current + 1 ELSE mid
  IN IF current + 1 # Len(s) + 1 THEN rotateForward(t, first + 1, mid2, current + 1)
     ELSE IF mid2 # Len(s) + 1 THEN rotateForward(t, first + 1, mid2, mid2)
     ELSE [range |-> t, pos |-> first + 1]

rotate(s, mid, forward) ==
  IF mid = 1 THEN [range |-> s, pos |-> mid]
  ELSE IF mid = Len(s) + 1 THEN [range |-> s, pos |-> 1]
  ELSE IF forward THEN rotateForward(s, 1, mid, mid) ELSE rotate_left_impl(s, mid)

\* The whole of s against the beginning of t.
RECURSIVE swapRangesFrom(_, _, _)
swapRangesFrom(s, t, i) ==
  IF i = Len(s) + 1 THEN <<s, t>> ELSE swapRangesFrom([s EXCEPT ![i] = t[i]], [t EXCEPT ![i] = s[i]], i + 1)
swap_ranges(s, t) == swapRangesFrom(s, t, 1)

\* op is a function on pairs of values; the output range is the first one.
RECURSIVE transformFrom(_, _, _, _)
transformFrom(s, t, op, i) ==
  IF i = Len(s) + 1 THEN s ELSE transformFrom([s EXCEPT ![i] = op[s[i], t[i]]], t, op, i + 1)
transform(s, t, op) == transformFrom(s, t, op, 1)

-----------------------------------------------------------------------------
(* The calls.                                                              *)

Call(op, s, t, i) == [op |-> op, s |-> s, t |-> t, i |-> i]
UpTo(S, n) == UNION {[1..k -> S] : k \in 0..n}
Numbered(n) == [i \in 1..n |-> i]
InOrder(s) == \A i \in 1..(Len(s) - 1) : s[i] <= s[i + 1]
AddMod == [p \in Items \X Items |-> (p[1] + 2 * p[2]) % Cardinality(Items)]

AlgorithmCall ==
  \/ \E s \in Ranges, v \in Items : call = Call("find_if", s, <<>>, v)
  \/ \E s \in UpTo({0, 1}, LongRange), p \in UpTo({0, 1}, MaxRange) : call = Call("find_subrange", s, p, 0)
  \/ \E s \in {x \in UpTo(Items, MaxRange + 1) : InOrder(x)}, v \in Items : call = Call("binary_search", s, <<>>, v)
  \/ \E s \in Ranges, t \in Ranges : call = Call("compare", s, t, 0)
  \/ \E s \in Ranges, t \in Ranges : Len(s) <= Len(t) /\ call = Call("ranges", s, t, 0)
  \/ \E n \in 1..LongRange : \E i \in 1..(n + 1) : call = Call("rotate", Numbered(n), <<>>, i)

FindIf == Do("find_if", find_if(call.s, {call.i}))
FindSubrange == Do("find_subrange", find_subrange(call.s, call.t))
BinarySearch == Do("binary_search", binary_search(call.s, call.i))
Compare ==
  Do("compare", [equal |-> equal(call.s, call.t), less |-> lexicographical_compare(call.s, call.t),
                 bytes |-> compare_integral_less(call.s, call.t, 1), words |-> compare_integral_less(call.s, call.t, 2),
                 swords |-> compare_integral_less(call.t, call.s, 2)])
ChangeRanges ==
  Do("ranges", [swap |-> swap_ranges(call.s, call.t), transform |-> transform(call.s, call.t, AddMod)])
Rotate == Do("rotate", [random |-> rotate(call.s, call.i, FALSE), forward |-> rotate(call.s, call.i, TRUE)])

AlgorithmNext == FindIf \/ FindSubrange \/ BinarySearch \/ Compare \/ ChangeRanges \/ Rotate

-----------------------------------------------------------------------------
(* What the results mean.                                                  *)

Firstly(S, otherwise) == IF S = {} THEN otherwise ELSE CHOOSE i \in S : \A j \in S : i <= j
Occurrences(s, p) == {i \in 1..(Len(s) - Len(p) + 1) : SubSeq(s, i, i + Len(p) - 1) = p}
\* The first element that differs decides, then the length.
Precedes(s, t) ==
  LET Common == 1..(IF Len(s) < Len(t) THEN Len(s) ELSE Len(t))
      Differ == {i \in Common : s[i] # t[i]}
  IN IF Differ = {} THEN Len(s) < Len(t) ELSE LET i == Firstly(Differ, 0) IN s[i] < t[i]

\* Each algorithm returns what its definition in the standard says, wherever a range may be empty, all equal or of odd
\* length.  find_subrange, which never steps back, returns an occurrence or the end, and the first occurrence whenever
\* the first element of the pattern is found at occurrences of the pattern only.  memcmp on the bytes of an unsigned char is the order of
\* the elements; on wider elements it is another one, yet a strict total order.  Both rotations rotate, and that of random access
\* iterators returns where the first element went.
AlgorithmsCorrect ==
  LET s == call.s
      t == call.t
      occurrence == Firstly(Occurrences(s, t), Len(s) + 1)
  IN result # NoResult =>
       CASE call.op = "find_if" -> result = Firstly({i \in DOMAIN s : s[i] = call.i}, Len(s) + 1)
         [] call.op = "find_subrange" ->
              /\ result \in Occurrences(s, t) \union {Len(s) + 1}
              /\ (\A i \in DOMAIN s : t # <<>> /\ s[i] = t[1] => i \in Occurrences(s, t)) => result = occurrence
         [] call.op = "binary_search" -> result = (\E i \in DOMAIN s : s[i] = call.i)
         [] call.op = "compare" ->
              /\ result.equal = (s = t)
              /\ result.less = Precedes(s, t)
              /\ result.bytes = Precedes(s, t)
              /\ ~(result.words /\ result.swords)
              /\ (result.words \/ result.swords) = (s # t)
         [] call.op = "ranges" ->
              /\ result.swap = <<SubSeq(t, 1, Len(s)), s \o SubSeq(t, Len(s) + 1, Len(t))>>
              /\ result.transform = [i \in DOMAIN s |-> AddMod[s[i], t[i]]]
         [] call.op = "rotate" ->
              LET turned == SubSeq(s, call.i, Len(s)) \o SubSeq(s, 1, call.i - 1)
              IN /\ {result.random.range, result.forward.range} = {turned}
                 /\ call.i \in 2..Len(s) => result.random.range[result.random.pos] = s[1]
         [] OTHER -> TRUE
=============================================================================
