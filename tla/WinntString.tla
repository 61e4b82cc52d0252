----------------------------- MODULE WinntString -----------------------------
(***************************************************************************)
(* ktl::basic_winnt_string (include/string.hpp): a counted string kept in  *)
(* a UNICODE_STRING or ANSI_STRING, whose Length and MaximumLength are     *)
(* 16-bit byte counts, with a small-string buffer inside the object.  The  *)
(* width of those counts is a parameter, so that the limits are reached.   *)
(* The machine is that of Objects; characters are trivial, only an         *)
(* allocation or a length check throws.  The small buffer of string s is   *)
(* the block named s, which no allocator hands out.                        *)
(***************************************************************************)
EXTENDS Objects

CONSTANTS
  StringSetups,   \* [strings, worked, tags, width, ch, sso]: the strings a program uses, those it modifies and
                  \* their pool tags, 2^bits of the native length, bytes per character, SSO_BUFFER_CH_COUNT
  Chars,          \* the characters; 0 is value_type{}
  Texts,          \* the character sequences a program passes
  StringBudgets,  \* how many allocations of one operation succeed
  StringAvoided   \* deviations the program keeps clear of

VARIABLES
  setup,
  heap, str,
  want,           \* live string -> the characters it must hold
  misuse

vars == <<setup, heap, str, want, misuse>>

Machine(budget) ==
  [heap |-> heap, str |-> str, kind |-> "trivial", budget |-> budget, thrown |-> FALSE, new |-> Null,
   misuse |-> misuse, lost |-> FALSE, deviates |-> {}]

-----------------------------------------------------------------------------
(* native_string_traits: character counts kept as byte counts of 16 bits.  *)

Wrap(n) == n % setup.width
npos == setup.width - 1
max_size == (setup.width - 2) \div setup.ch
ch_count_to_bytes(n) == Wrap(n * setup.ch)
get_size(m, s) == m.str[s].Length \div setup.ch
get_capacity(m, s) == m.str[s].MaximumLength \div setup.ch
set_size(m, s, n) == IF m.thrown THEN m ELSE [m EXCEPT !.str[s].Length = ch_count_to_bytes(n)]
increase_size(m, s, n) == IF m.thrown THEN m ELSE [m EXCEPT !.str[s].Length = Wrap(@ + ch_count_to_bytes(n))]
decrease_size(m, s, n) == [m EXCEPT !.str[s].Length = (@ + setup.width - ch_count_to_bytes(n)) % setup.width]

Small(s, n, tag) ==
  [alloc |-> tag, Buffer |-> s, Length |-> ch_count_to_bytes(n), MaximumLength |-> ch_count_to_bytes(setup.sso)]

become_small(m, s, n) == [m EXCEPT !.str[s] = Small(s, n, @.alloc)]

\* Mutant: a string that fills its small buffer counts as large.
IsBelowSmall(m, s) == get_capacity(m, s) < setup.sso

is_small(m, s) == get_capacity(m, s) <= setup.sso

-----------------------------------------------------------------------------
(* Characters.  A source is a text, or a range of a buffer that is read    *)
(* when the handler runs.                                                  *)

Text(t) == [block |-> Null, at |-> 0, n |-> Len(t), text |-> t]
Part(m, s, at, n) == [block |-> m.str[s].Buffer, at |-> at, n |-> n, text |-> <<>>]
Fetch(m, src) == IF src.block = Null THEN src.text ELSE Values(m, src.block, src.at, src.n)

\* traits_type::copy, move and assign.
Write(m, b, at, vals) == IF m.thrown THEN m ELSE Flag(Put(m, b, at, vals), Raw \in Range(vals))

Held(m, s) == Values(m, m.str[s].Buffer, 0, get_size(m, s))

-----------------------------------------------------------------------------
(* Growth.                                                                 *)

FreeBuffer(m, s) == IF is_small(m, s) THEN m ELSE deallocate(m, m.str[s].alloc, m.str[s].Buffer)

grow_unchecked(m, s, capacity, Transfer(_, _), size) ==
  Then(IF capacity <= setup.sso THEN [m EXCEPT !.new = s] ELSE allocate(m, m.str[s].alloc, capacity),
       LAMBDA a : [FreeBuffer(Transfer(a, a.new), s) EXCEPT
                     !.str[s] = [@ EXCEPT !.Buffer = a.new, !.Length = ch_count_to_bytes(size),
                                          !.MaximumLength = ch_count_to_bytes(capacity)]])

grow(m, s, capacity, Transfer(_, _), size) ==
  IF m.thrown THEN m
  ELSE IF capacity > max_size THEN Throw(m)
  ELSE grow_unchecked(m, s, capacity, Transfer, size)

\* The doubled capacity is returned in the 16-bit size_type.
calc_growth(m, s) ==
  LET c == get_capacity(m, s)
      g == Wrap(c * 2)
  IN IF c = max_size THEN npos ELSE IF g < max_size THEN g ELSE max_size

calc_optimal_growth(m, s, required) ==
  IF calc_growth(m, s) > required THEN calc_growth(m, s) ELSE required

GrowKeeping(m, s, capacity) ==
  DeviateIf(grow(m, s, capacity, LAMBDA x, b : Write(x, b, 0, Held(m, s)), get_size(m, s)),
            capacity < get_size(m, s), "doubling the capacity wraps")

reserve(m, s, capacity) == IF capacity > get_capacity(m, s) THEN GrowKeeping(m, s, capacity) ELSE m

-----------------------------------------------------------------------------
(* Appending.  concat_impl makes room for Wrap(size + count) characters,   *)
(* then writes count characters, reading a source that may be its own old  *)
(* buffer.                                                                 *)

concat_impl(grown, s, size, src) ==
  Then(grown, LAMBDA m :
    DeviateIf(
      DeviateIf(increase_size(Write(m, m.str[s].Buffer, size, Fetch(m, src)), s, src.n),
                size + src.n >= setup.width, "appending wraps the length"),
      src.block # Null /\ src.block \notin DOMAIN m.heap, "appending reads its freed buffer"))

concat_with_optimal_growth(m, s, src) ==
  LET size == get_size(m, s)
      required == Wrap(size + src.n)
  IN concat_impl(IF required > get_capacity(m, s)
                 THEN GrowKeeping(m, s, calc_optimal_growth(m, s, required)) ELSE m, s, size, src)

concat(m, s, src) == LET size == get_size(m, s) IN concat_impl(reserve(m, s, Wrap(size + src.n)), s, size, src)

\* Used on an empty string: the old characters are not carried over.
concat_without_transfer_old_data(m, s, src) ==
  LET size == get_size(m, s)
      required == Wrap(size + src.n)
  IN concat_impl(IF required > get_capacity(m, s) THEN grow(m, s, required, LAMBDA x, b : x, size) ELSE m,
                 s, size, src)

push_back(m, s, c) ==
  LET size == get_size(m, s)
  IN Then(IF get_capacity(m, s) = size THEN GrowKeeping(m, s, calc_growth(m, s)) ELSE m,
          LAMBDA r : increase_size(Write(r, r.str[s].Buffer, size, <<c>>), s, 1))

\* append_range_impl for an iterator that is not random access.
PushAll(m, s, t) == FoldLeft(LAMBDA x, c : IF x.thrown THEN x ELSE push_back(x, s, c), m, t)

resize(m, s, n, c) ==
  LET size == get_size(m, s)
  IN Then(reserve(m, s, n), LAMBDA r :
       set_size(IF size < n THEN Write(r, r.str[s].Buffer, size, Constantly(n - size, c)) ELSE r, s, n))

append_n(m, s, count, c) ==
  DeviateIf(resize(m, s, Wrap(get_size(m, s) + count), c),
            get_size(m, s) + count >= setup.width, "appending wraps the length")

-----------------------------------------------------------------------------
(* Inserting and erasing.                                                  *)

\* On growth the tail goes to count, not to index + count, and the size is short by index.
insert_impl(m, s, index, src) ==
  LET size == get_size(m, s)
      required == Wrap(size + src.n)
      tail == Values(m, m.str[s].Buffer, index, size - index)
      grows == required > get_capacity(m, s)
      departure ==
        CASE size + src.n >= setup.width -> "inserting wraps the length"
          [] src.block = m.str[s].Buffer /\ (src.at + src.n > index \/ grows) -> "inserting reads its shifted characters"
          [] grows /\ index > 0 -> "inserting misplaces the tail on growth"
          [] OTHER -> "none"
  IN Then(IF grows
          THEN grow(m, s, calc_optimal_growth(m, s, required),
                    LAMBDA x, b : Write(Write(x, b, 0, SubSeq(Held(m, s), 1, index)), b, src.n, tail),
                    Wrap(size + setup.width + src.n - index))
          ELSE increase_size(Write(m, m.str[s].Buffer, index + src.n, tail), s, src.n),
          LAMBDA moved : DeviateIf(Write(moved, moved.str[s].Buffer, index, Fetch(moved, src)),
                                   departure # "none", departure))

insert(m, s, index, src) ==
  IF index > get_size(m, s) THEN Throw(m)
  ELSE IF index = get_size(m, s) THEN concat_with_optimal_growth(m, s, src)
  ELSE insert_impl(m, s, index, src)

\* insert(pos, first, last) appends at the end and then goes on to insert as well, at a position that is
\* stale if the append moved the buffer.
insert_range(m, s, index, src) ==
  IF index < get_size(m, s) THEN insert_impl(m, s, index, src)
  ELSE Then(concat_with_optimal_growth(m, s, src), LAMBDA appended :
         Deviate(IF appended.str[s].Buffer # m.str[s].Buffer THEN Flag(appended, TRUE)
                 ELSE insert_impl(appended, s, index, src),
                 "inserting a range at the end inserts twice"))

erase_unchecked(m, s, index, count) ==
  LET size == get_size(m, s)
      tail == Values(m, m.str[s].Buffer, index + count, size - (index + count))
  IN decrease_size(Write(m, m.str[s].Buffer, index, tail), s, count)

erase(m, s, index, count) ==
  LET rest == get_size(m, s) - index
  IN IF rest < 0 THEN Throw(m) ELSE erase_unchecked(m, s, index, IF count < rest THEN count ELSE rest)

-----------------------------------------------------------------------------
(* Whole strings.                                                          *)

clear(m, s) == set_size(m, s, 0)

Empty(m, s, tag) ==
  [m EXCEPT !.str = [x \in DOMAIN @ \union {s} |-> IF x = s THEN Small(s, 0, tag) ELSE @[x]],
            !.heap = [x \in DOMAIN @ \union {s} |->
                        IF x = s THEN [tag |-> Null, cells |-> [j \in 0..(setup.sso - 1) |-> Raw]] ELSE @[x]]]

Gone(m, s) ==
  [m EXCEPT !.str = [x \in DOMAIN @ \ {s} |-> @[x]], !.heap = [x \in DOMAIN @ \ {s} |-> @[x]]]

Destructor(m, s) == Gone(FreeBuffer(m, s), s)

\* Every constructor from characters becomes small first; one that throws leaves no string.
Constructed(r, s) == IF r.thrown THEN Gone(r, s) ELSE r
ConstructFrom(m, s, tag, src) == Constructed(concat_without_transfer_old_data(Empty(m, s, tag), s, src), s)

ConstructFromPart(m, s, other, pos, count) ==
  LET rest == get_size(m, other) - pos
  IN IF rest < 0 THEN Throw(m)
     ELSE ConstructFrom(m, s, m.str[other].alloc, Part(m, other, pos, IF count < rest THEN count ELSE rest))

\* A range that is not random access is pushed back one by one.
ConstructFromRange(m, s, tag, t) ==
  LET Leaving(r) == Constructed(DeviateIf(r, r.thrown /\ ~is_small(r, s), "throwing constructor leaks"), s)
  IN Leaving(PushAll(Empty(m, s, tag), s, t))

\* A small source is copied into the own small buffer, a large one is taken over.
MoveConstructor(m, s, other) ==
  LET n == get_size(m, other)
      e == Empty(m, s, m.str[other].alloc)
      r == IF is_small(m, other)
           THEN Write([e EXCEPT !.str[s] = [m.str[other] EXCEPT !.Buffer = s]], s, 0, Held(m, other))
           ELSE [e EXCEPT !.str[s] = m.str[other]]
  IN become_small(r, other, 0)

\* operator=(const basic_winnt_string&) with an allocator that propagates.
copy_assignment_impl(m, s, other) ==
  LET r == become_small(FreeBuffer(m, s), s, 0)
  IN concat_without_transfer_old_data([r EXCEPT !.str[s].alloc = m.str[other].alloc], s,
                                      Part(m, other, 0, get_size(m, other)))

move_assignment_impl(m, s, other) ==
  LET freed == FreeBuffer(m, s)
      n == get_size(m, other)
      small == Write(become_small(freed, s, n), s, 0, Held(m, other))
      r == IF is_small(m, other) THEN [small EXCEPT !.str[s].alloc = m.str[other].alloc]
           ELSE [freed EXCEPT !.str[s] = m.str[other]]
  IN become_small(r, other, 0)

assign(m, s, src) == concat_without_transfer_old_data(clear(m, s), s, src)

\* assign(other, pos, count): other may be the string itself, which is cleared first.
assign_part(m, s, other, pos, count) ==
  LET c == clear(m, s)
      rest == get_size(c, other) - pos
  IN DeviateIf(
       IF rest < 0 THEN Throw(c)
       ELSE concat_without_transfer_old_data(c, s, Part(c, other, pos, IF count < rest THEN count ELSE rest)),
       s = other, "assigning a part of itself clears it first")

assign_char(m, s, c) == set_size(Write(m, m.str[s].Buffer, 0, <<c>>), s, 1)

\* ktl::swap: through a temporary.
swap(m, s, other, tmp) ==
  Destructor(move_assignment_impl(move_assignment_impl(MoveConstructor(m, tmp, s), s, other), other, tmp), tmp)

-----------------------------------------------------------------------------
(* operator+ makes its result in r.                                        *)

Whole(m, s) == Part(m, s, 0, get_size(m, s))

\* The result goes when appending to it throws.
Completed(m, r) == IF m.thrown /\ r \in DOMAIN m.str THEN Destructor(m, r) ELSE m

\* const lhs + const rhs: the operand with the larger small buffer is copied and the other appended to it.
Plus(m, r, lhs, rhs, lhsIsSmaller) ==
  LET first == IF lhsIsSmaller THEN rhs ELSE lhs
      second == IF lhsIsSmaller THEN lhs ELSE rhs
  IN DeviateIf(Completed(Then(ConstructFrom(m, r, m.str[first].alloc, Whole(m, first)),
                              LAMBDA c : concat_with_optimal_growth(c, r, Whole(c, second))), r),
               lhsIsSmaller, "operator+ swaps its operands")

\* text + const string appends the text.
PlusText(m, r, s, t, textFirst) ==
  DeviateIf(Completed(Then(ConstructFrom(m, r, m.str[s].alloc, Whole(m, s)),
                           LAMBDA c : concat_with_optimal_growth(c, r, Text(t))), r),
            textFirst, "operator+ swaps its operands")

\* An operand that may be consumed: append to the left one, insert in front of the right one.
PlusMoved(m, r, lhs, rhs, left) ==
  Then(IF left THEN concat_with_optimal_growth(m, lhs, Whole(m, rhs)) ELSE insert(m, rhs, 0, Whole(m, lhs)),
       LAMBDA d : MoveConstructor(d, r, IF left THEN lhs ELSE rhs))

\* Both may be consumed: whichever has room, else a third string.
PlusBoth(m, r, lhs, rhs) ==
  LET n == get_size(m, lhs) + get_size(m, rhs)
      Appended(x, s) == Then(x, LAMBDA c : concat_with_optimal_growth(c, r, Whole(c, s)))
  IN IF get_capacity(m, lhs) >= n THEN PlusMoved(m, r, lhs, rhs, TRUE)
     ELSE IF get_capacity(m, rhs) >= n
     THEN Deviate(MoveConstructor(concat_with_optimal_growth(m, rhs, Whole(m, lhs)), r, rhs),
                  "operator+ swaps its operands")
     ELSE Completed(Appended(Appended(reserve(Empty(m, r, m.str[lhs].alloc), r, Wrap(n)), lhs), rhs), r)

-----------------------------------------------------------------------------
(* The program: calls on its strings; Temp names the temporary that an     *)
(* expression makes, which is moved from or destroyed before anything else *)
(* happens.                                                                *)

Temp == "tmp"
Live == DOMAIN str
Named == Live \ {Temp}
Counts == 0..(setup.width - 1)
Part1(t, pos, count) == SubSeq(t, pos + 1, IF pos + count < Len(t) THEN pos + count ELSE Len(t))
Spliced(s, i, t) == SubSeq(s, 1, i) \o t \o SubSeq(s, i + 1, Len(s))
With(s, t) == [x \in Live \union {s} |-> IF x = s THEN t ELSE want[x]]

\* Characters past the length mean nothing between calls.
Scrubbed(m, b) ==
  LET kept == IF \E s \in DOMAIN m.str : m.str[s].Buffer = b
              THEN get_size(m, CHOOSE s \in DOMAIN m.str : m.str[s].Buffer = b) ELSE 0
  IN [m.heap[b] EXCEPT !.cells = [j \in DOMAIN @ |-> IF j < kept THEN @[j] ELSE Raw]]

Commit(m, w, strong) ==
  /\ m.deviates \intersect StringAvoided = {}
  /\ setup' = setup
  /\ misuse' = m.misuse
  /\ heap' = [b \in DOMAIN m.heap |-> Scrubbed(m, b)]
  /\ str' = m.str
  /\ want' = IF ~m.thrown THEN w ELSE [x \in DOMAIN m.str |-> IF strong THEN want[x] ELSE Held(m, x)]

Append1(s, k) ==
  \/ \E c \in Chars : Commit(push_back(Machine(k), s, c), With(s, Append(want[s], c)), TRUE)
  \/ \E t \in Texts : \/ Commit(concat_with_optimal_growth(Machine(k), s, Text(t)), With(s, want[s] \o t), TRUE)
                      \/ Commit(PushAll(Machine(k), s, t), With(s, want[s] \o t), FALSE)
  \/ \E n \in Counts, c \in Chars :
       Commit(append_n(Machine(k), s, n, c), With(s, want[s] \o Constantly(n, c)), TRUE)
  \/ \E from \in Named : \E at \in 0..Len(want[from]) : \E n \in 0..(Len(want[from]) - at) :
       Commit(concat_with_optimal_growth(Machine(k), s, Part(Machine(k), from, at, n)),
              With(s, want[s] \o Part1(want[from], at, n)), TRUE)

Insert(s, k) ==
  \/ \E i \in 0..(Len(want[s]) + 1), t \in Texts :
       \/ Commit(insert(Machine(k), s, i, Text(t)), With(s, Spliced(want[s], i, t)), TRUE)
       \/ /\ i <= Len(want[s])
          /\ Commit(insert_range(Machine(k), s, i, Text(t)), With(s, Spliced(want[s], i, t)), TRUE)
  \/ \E i \in 0..Len(want[s]), from \in Named : \E at \in 0..Len(want[from]) : \E n \in 0..(Len(want[from]) - at) :
       Commit(insert(Machine(k), s, i, Part(Machine(k), from, at, n)),
              With(s, Spliced(want[s], i, Part1(want[from], at, n))), TRUE)

Shorten(s) ==
  \/ \E i \in 0..(Len(want[s]) + 1), n \in Counts :
       Commit(erase(Machine(0), s, i, n),
              With(s, SubSeq(want[s], 1, i) \o SubSeq(want[s], i + n + 1, Len(want[s]))), TRUE)
  \/ /\ want[s] # <<>>
     /\ Commit(decrease_size(Machine(0), s, 1), With(s, Front(want[s])), TRUE)
  \/ Commit(clear(Machine(0), s), With(s, <<>>), TRUE)

Resize(s, k) ==
  \/ \E n \in Counts, c \in Chars :
       Commit(resize(Machine(k), s, n, c),
              With(s, IF n < Len(want[s]) THEN SubSeq(want[s], 1, n)
                      ELSE want[s] \o Constantly(n - Len(want[s]), c)), TRUE)
  \/ \E n \in Counts : Commit(reserve(Machine(k), s, n), want, TRUE)

Assign(s, k) ==
  \/ \E t \in Texts : \/ Commit(assign(Machine(k), s, Text(t)), With(s, t), FALSE)
                      \/ Commit(concat(clear(Machine(k), s), s, Text(t)), With(s, t), FALSE)
                      \/ Commit(PushAll(clear(Machine(k), s), s, t), With(s, t), FALSE)
  \/ \E at \in 0..Len(want[s]) : \E n \in 0..(Len(want[s]) - at) :
       Commit(assign(Machine(k), s, Part(Machine(k), s, at, n)), With(s, Part1(want[s], at, n)), FALSE)
  \/ \E n \in Counts, c \in Chars : Commit(resize(clear(Machine(k), s), s, n, c), With(s, Constantly(n, c)), FALSE)
  \/ \E from \in Named, at \in 0..1, n \in {1, npos} :
       Commit(assign_part(Machine(k), s, from, at, n), With(s, Part1(want[from], at, n)), FALSE)
  \/ \E c \in Chars : Commit(assign_char(Machine(k), s, c), With(s, <<c>>), TRUE)

Construct(s, tag, k) ==
  \/ \E t \in Texts : \/ Commit(ConstructFrom(Machine(k), s, tag, Text(t)), With(s, t), TRUE)
                      \/ Commit(ConstructFromRange(Machine(k), s, tag, t), With(s, t), TRUE)
  \/ \E other \in Named :
       \/ Commit(MoveConstructor(Machine(k), s, other), [With(s, want[other]) EXCEPT ![other] = <<>>], TRUE)
       \/ \E at \in 0..(Len(want[other]) + 1), n \in {1, npos} :
            Commit(ConstructFromPart(Machine(k), s, other, at, n), With(s, Part1(want[other], at, n)), TRUE)

Exchange(s, other, k) ==
  \/ Commit(copy_assignment_impl(Machine(k), s, other), With(s, want[other]), FALSE)
  \/ Commit(move_assignment_impl(Machine(0), s, other), [want EXCEPT ![s] = want[other], ![other] = <<>>], TRUE)
  \/ Commit(swap(Machine(0), s, other, Temp), [want EXCEPT ![s] = want[other], ![other] = want[s]], TRUE)

\* An operand that is moved from ends empty or keeps its value.
CommitSum(m, sum) == Commit(m, [x \in DOMAIN m.str |-> IF x = Temp THEN sum ELSE Held(m, x)], TRUE)
Sum(lhs, rhs, k) ==
  \/ \E lhsIsSmaller \in BOOLEAN :
       Commit(Plus(Machine(k), Temp, lhs, rhs, lhsIsSmaller), With(Temp, want[lhs] \o want[rhs]), TRUE)
  \/ /\ lhs # rhs
     /\ \E left \in BOOLEAN : CommitSum(PlusMoved(Machine(k), Temp, lhs, rhs, left), want[lhs] \o want[rhs])
  \/ /\ lhs # rhs
     /\ CommitSum(PlusBoth(Machine(k), Temp, lhs, rhs), want[lhs] \o want[rhs])

SumText(s, k) ==
  \E t \in Texts, textFirst \in BOOLEAN :
    Commit(PlusText(Machine(k), Temp, s, t, textFirst),
           With(Temp, IF textFirst THEN t \o want[s] ELSE want[s] \o t), TRUE)

EndTemporary ==
  \/ Commit(Destructor(Machine(0), Temp), [x \in Named |-> want[x]], TRUE)
  \/ \E s \in Named :
       Commit(Destructor(move_assignment_impl(Machine(0), s, Temp), Temp),
              [x \in Named |-> IF x = s THEN want[Temp] ELSE want[x]], TRUE)

Destroy(s) == Commit(Destructor(Machine(0), s), [x \in Live \ {s} |-> want[x]], TRUE)

Init ==
  /\ setup \in StringSetups
  /\ heap = <<>>
  /\ str = <<>>
  /\ want = <<>>
  /\ misuse = FALSE

Next ==
  \/ /\ Temp \in Live
     /\ EndTemporary
  \/ /\ Temp \notin Live
     /\ \/ \E s \in Live \intersect setup.worked, k \in StringBudgets :
             Append1(s, k) \/ Insert(s, k) \/ Resize(s, k) \/ Assign(s, k) \/ SumText(s, k)
        \/ \E s \in Live : Shorten(s) \/ Destroy(s)
        \/ \E s, other \in Live, k \in StringBudgets : Sum(s, other, k) \/ (s # other /\ Exchange(s, other, k))
        \/ \E s \in setup.strings \ Live, tag \in setup.tags, k \in StringBudgets : Construct(s, tag, k)

Spec == Init /\ [][Next]_vars

-----------------------------------------------------------------------------
(* Properties.                                                             *)

\* The buffer of a string is its small buffer or a pool block that no other string uses, obtained under the
\* string's tag and as long as MaximumLength says; every other pool block has been given back; no call wrote
\* or read outside a buffer or after giving it back (grow_unchecked, move and copy assignment, swap).
StringBuffers ==
  /\ ~misuse
  /\ DOMAIN heap = Live \union {str[s].Buffer : s \in Live}
  /\ \A s \in Live :
       LET i == str[s]
           capacity == i.MaximumLength \div setup.ch
       IN /\ DOMAIN heap[i.Buffer].cells = 0..(capacity - 1)
          /\ i.Length <= i.MaximumLength
          /\ i.Buffer = s <=> capacity <= setup.sso
          /\ i.Buffer # s => heap[i.Buffer].tag = i.alloc
          /\ \A r \in Live \ {s} : str[r].Buffer # i.Buffer

\* Each string holds the characters the standard gives the calls made, also at the 16-bit limit of its
\* length, and is unchanged by a call with the strong guarantee that threw.
StringContents ==
  \A s \in Live : [k \in 1..(str[s].Length \div setup.ch) |-> heap[str[s].Buffer].cells[k - 1]] = want[s]

\* A string is sound when its buffer and its characters are, after every call and every exception.
StringSound == StringBuffers /\ StringContents
=============================================================================
