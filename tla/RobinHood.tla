------------------------------ MODULE RobinHood ------------------------------
(***************************************************************************)
(* The hash table behind unordered_map and unordered_set                   *)
(* (include/hash_table_impl.hpp): robin hood hashing in one array of nodes *)
(* followed by one info byte per node, which holds the distance of the     *)
(* node from its home position in units of mInfoInc, plus some hash bits.  *)
(* The width of the info byte, the first size of the array and the hash    *)
(* function are parameters, so that a few keys reach the limits that take  *)
(* hundreds of badly hashed keys in the program.                           *)
(*                                                                         *)
(* An operation is an operator on a machine [tab, budget, thrown, misuse,  *)
(* deviates]: budget is the number of allocations and element copies that  *)
(* succeed, deviates names the places where the code breaks its contract.  *)
(***************************************************************************)
EXTENDS Integers, Sequences, FiniteSets, SequencesExt

CONSTANTS
  TableSetups,    \* [tables, hash, bits, limit, first, flat]: the tables of a program, the keys with their hash,
                  \* InitialInfoNumBits, the largest info byte, InitialNumElements, IsFlat
  Mapped,         \* mapped values; 0 is the default one
  MaxMask,        \* bound: no table of more than MaxMask + 1 buckets
  Raw, Moved,     \* node cells without an object, or with a moved-from one
  CopyBudgets,
  Shunned         \* deviations the program keeps clear of

VARIABLES
  setup,
  tab,            \* the tables
  want,           \* history: the map each table stands for
  misuse,         \* a node outside the array or a freed one is used, or one is never destroyed
  impossible      \* the throw marked as impossible to reach was reached

vars == <<setup, tab, want, misuse, impossible>>

Machine(budget) ==
  [tab |-> tab, budget |-> budget, thrown |-> FALSE, misuse |-> misuse, impossible |-> impossible, deviates |-> {}]
Throw(m) == [m EXCEPT !.thrown = TRUE]
Flag(m, wrong) == [m EXCEPT !.misuse = @ \/ wrong]
Deviate(m, name) == [m EXCEPT !.deviates = @ \union {name}]
Then(m, Step(_)) == IF m.thrown THEN m ELSE Step(m)
Spend(m) == IF m.budget = 0 THEN Throw(m) ELSE [m EXCEPT !.budget = @ - 1]

MaxLoadFactor100 == 80
InitialInfoInc == 2 ^ setup.bits
calcMaxNumElementsAllowed(n) == (n * MaxLoadFactor100) \div 100
calcNumElementsWithBuffer(n) ==
  n + (IF calcMaxNumElementsAllowed(n) < setup.limit THEN calcMaxNumElementsAllowed(n) ELSE setup.limit)

\* mKeyVals and mInfo point at mMask, which is 0: nothing is stored, and the info bytes read are 0.
init ==
  [mask |-> 0, node |-> <<>>, info |-> [i \in 0..2 |-> 0], num |-> 0, max |-> 0, inc |-> InitialInfoInc, shift |-> 0]

Size(t) == calcNumElementsWithBuffer(t.mask + 1)

\* Zeroed nodes and info bytes, and the sentinel behind them.
Blank(n) ==
  LET size == calcNumElementsWithBuffer(n)
  IN [mask |-> n - 1, node |-> [i \in 0..(size - 1) |-> Raw], info |-> [i \in 0..(size + 2) |-> IF i = size THEN 1 ELSE 0],
      num |-> 0, max |-> calcMaxNumElementsAllowed(n), inc |-> InitialInfoInc, shift |-> 0]

\* The mask and the counters are set before the allocation that can throw.
init_data(m, n, x) ==
  LET r == Spend(m)
  IN IF r.thrown
     THEN Deviate([r EXCEPT !.tab[n] = [@ EXCEPT !.num = 0, !.mask = x - 1, !.max = calcMaxNumElementsAllowed(x)]],
                  "init_data throws half-way")
     ELSE [r EXCEPT !.tab[n] = Blank(x)]

-----------------------------------------------------------------------------
(* Probing.  A position is [idx, info].                                    *)

keyToIdx(t, k) ==
  LET h == setup.hash[k]
  IN [idx |-> (h \div InitialInfoInc) % (t.mask + 1), info |-> t.inc + (h % InitialInfoInc) \div (2 ^ t.shift)]

\* j times next().
next(t, p, j) == [idx |-> p.idx + j, info |-> p.info + j * t.inc]

\* Reading past the padding of the info bytes is outside the array.
Info(t, i) == IF i \in DOMAIN t.info THEN t.info[i] ELSE -1
KeyAt(t, i) == IF i \in DOMAIN t.node /\ t.node[i] \notin {Raw, Moved} THEN t.node[i].key ELSE Raw

Matches(t, p, k) == p.info = Info(t, p.idx) /\ KeyAt(t, p.idx) = k

\* The first position from p on where the probing stops.
Probe(t, p, Goes(_)) ==
  next(t, p, Min({j \in 0..(Size(t) + 3) : ~Goes(next(t, p, j))}))

nextWhileLess(t, p) == Probe(t, p, LAMBDA x : x.info < Info(t, x.idx))
skipEqual(t, p, k) == Probe(t, p, LAMBDA x : x.info = Info(t, x.idx) /\ KeyAt(t, x.idx) # k)
skipNotLess(t, p) == Probe(t, p, LAMBDA x : x.info <= Info(t, x.idx))
emptySpot(t, i) == Min({j \in i..(i + Size(t) + 3) : Info(t, j) <= 0})

\* The index one past the nodes stands for end().
End(t) == IF t.mask = 0 THEN 0 ELSE Size(t)

\* Two positions per round, without a test between them.
findFrom(t, p, k) ==
  LET At(j) == next(t, p, j)
      Hits(j) == Matches(t, At(j), k)
      Ends(j) == j > 0 /\ j % 2 = 0 /\ At(j).info > Info(t, At(j).idx)
      j == Min({i \in 0..(Size(t) + 4) : Hits(i) \/ Ends(i)})
  IN IF Ends(j) THEN End(t) ELSE p.idx + j

findIdx(t, k) == findFrom(t, keyToIdx(t, k), k)

fastForward(t, i) == Min({j \in i..(Size(t) + 2) : Info(t, j) # 0})

-----------------------------------------------------------------------------
(* Moving nodes.                                                           *)

\* start is empty: every node from insertion on goes up by one.
shiftUp(t, start, insertion) ==
  LET info == [i \in DOMAIN t.info |-> IF i \in (insertion + 1)..start THEN (t.info[i - 1] + t.inc) % (setup.limit + 1)
                                       ELSE t.info[i]]
  IN [t EXCEPT
        !.node = [i \in DOMAIN @ |-> IF i \in (insertion + 1)..start THEN @[i - 1]
                                     ELSE IF i = insertion THEN Moved ELSE @[i]],
        !.info = info,
        !.max = IF \E i \in (insertion + 1)..start : info[i] + t.inc > setup.limit THEN 0 ELSE @]

\* Mutant: nodes at home are shifted as well.
RunEndAtEmpty(t, i) == Min({j \in i..Size(t) : Info(t, j + 1) < t.inc})

runEnd(t, i) == Min({j \in i..Size(t) : Info(t, j + 1) < 2 * t.inc})

\* Every node up to the next one that is empty or at home goes down by one.
shiftDown(t, idx) ==
  LET last == runEnd(t, idx)
  IN [t EXCEPT
        !.node = [i \in DOMAIN @ |-> IF i \in idx..(last - 1) THEN @[i + 1] ELSE IF i = last THEN Raw ELSE @[i]],
        !.info = [i \in DOMAIN @ |-> IF i \in idx..(last - 1) THEN @[i + 1] - t.inc ELSE IF i = last THEN 0 ELSE @[i]]]

\* The new node goes to p, its construction (which may throw) comes after the shift.
Place(m, n, p, pair, throws) ==
  LET t0 == m.tab[n]
      t1 == IF p.info + t0.inc > setup.limit THEN [t0 EXCEPT !.max = 0] ELSE t0
      spot == emptySpot(t1, p.idx)
      t2 == IF spot = p.idx \/ spot \notin DOMAIN t1.node THEN t1 ELSE shiftUp(t1, spot, p.idx)
      Made(x) == IF throws THEN Spend(x) ELSE x
      Settle(x) == IF ~x.thrown
                   THEN [x EXCEPT !.tab[n] = [@ EXCEPT !.node[p.idx] = pair, !.info[p.idx] = p.info % (setup.limit + 1),
                                                       !.num = @ + 1]]
                   ELSE IF spot = p.idx THEN x ELSE Deviate(x, "insertion throws after shifting")
  IN IF spot \notin DOMAIN t1.node THEN Flag(m, TRUE) ELSE Settle(Made([m EXCEPT !.tab[n] = t2]))

\* One hash bit less in every info byte, which makes room for longer distances.
try_increase_info(t) ==
  [t EXCEPT !.inc = @ \div 2, !.shift = @ + 1, !.max = calcMaxNumElementsAllowed(t.mask + 1),
            !.info = [i \in DOMAIN @ |-> IF i = Size(t) THEN 1 ELSE @[i] \div 2]]

insert_move(m, n, pair) ==
  LET t == m.tab[n]
      r == IF t.max = 0 /\ t.inc > 2 THEN try_increase_info(t) ELSE t
  IN IF m.thrown THEN m
     ELSE IF t.max = 0 /\ t.inc <= 2 THEN Deviate(Throw([m EXCEPT !.impossible = TRUE]), "rehash overflows half-way")
     ELSE Place([m EXCEPT !.tab[n] = r], n, skipNotLess(r, keyToIdx(r, pair.key)), pair, FALSE)

\* The nodes move in the order of the old array; if one does not fit, it and the rest are lost.
rehashPowerOfTwo(m, n, buckets) ==
  LET old == m.tab[n]
      moving == SelectSeq([i \in 1..Cardinality(DOMAIN old.node) |-> old.node[i - 1]], LAMBDA x : x # Raw)
  IN Then(init_data(m, n, buckets),
          LAMBDA fresh : FoldLeft(LAMBDA x, pair : insert_move(x, n, pair), fresh, moving))

increase_size(m, n) ==
  LET t == m.tab[n]
      allowed == calcMaxNumElementsAllowed(t.mask + 1)
  IN IF t.mask = 0 THEN init_data(m, n, setup.first)
     ELSE IF t.num < allowed /\ t.inc > 2 THEN [m EXCEPT !.tab[n] = try_increase_info(t)]
     ELSE IF t.num * 2 < allowed THEN Throw(m)
     ELSE rehashPowerOfTwo(m, n, (t.mask + 1) * 2)

-----------------------------------------------------------------------------
(* The operations.                                                         *)

\* Where the search of an insertion ends: at the key, or where it belongs.
Search(t, k) == skipEqual(t, nextWhileLess(t, keyToIdx(t, k)), k)

\* An insertion searches again whenever the table had to grow.
RECURSIVE doInsert(_, _, _, _)
doInsert(m, n, pair, throws) ==
  LET t == m.tab[n]
      p == Search(t, pair.key)
  IN IF m.thrown \/ Matches(t, p, pair.key) THEN m
     ELSE IF t.num >= t.max THEN doInsert(increase_size(m, n), n, pair, throws)
     ELSE Place(m, n, p, pair, throws)

doCreateByKey(m, n, k) == doInsert(m, n, [key |-> k, value |-> 0], TRUE)

\* The node is made first; a node on the heap is lost when the insertion throws.
emplace(m, n, pair) ==
  LET Ended(r) == IF r.thrown /\ ~setup.flat THEN Deviate(Flag(r, TRUE), "emplace loses its node") ELSE r
  IN Then(Spend(m), LAMBDA made : Ended(doInsert(made, n, pair, FALSE)))

Found(t, k) == findIdx(t, k) # End(t)

try_emplace_impl(m, n, pair) == IF Found(m.tab[n], pair.key) THEN m ELSE emplace(m, n, pair)

insert_or_assign_impl(m, n, pair) ==
  IF ~Found(m.tab[n], pair.key) THEN emplace(m, n, pair)
  ELSE Then(Spend(m), LAMBDA r : [r EXCEPT !.tab[n].node[findIdx(m.tab[n], pair.key)] = pair])

eraseFrom(t, p, k) ==
  LET At(j) == next(t, p, j)
      Hits(j) == Matches(t, At(j), k)
      Ends(j) == j > 0 /\ At(j).info > Info(t, At(j).idx)
      j == Min({i \in 0..(Size(t) + 3) : Hits(i) \/ Ends(i)})
  IN IF Ends(j) THEN t ELSE [shiftDown(t, p.idx + j) EXCEPT !.num = @ - 1]

erase(m, n, k) == [m EXCEPT !.tab[n] = eraseFrom(@, keyToIdx(@, k), k)]

\* erase(iterator): the iterator stays if a node was shifted onto it, and moves on otherwise.
erase_at(t, i) ==
  LET r == [shiftDown(t, i) EXCEPT !.num = @ - 1]
  IN [tab |-> r, pos |-> IF Info(r, i) # 0 THEN i ELSE fastForward(r, i + 1)]

begin(t) == IF t.num = 0 THEN End(t) ELSE fastForward(t, 0)

RECURSIVE eraseWhere(_, _, _)
eraseWhere(t, i, v) ==
  IF i = End(t) THEN t
  ELSE IF t.node[i].value = v THEN LET r == erase_at(t, i) IN eraseWhere(r.tab, r.pos, v)
  ELSE eraseWhere(t, fastForward(t, i + 1), v)

\* mMaxNumElementsAllowed keeps its value.
clear(m, n) ==
  IF m.tab[n].num = 0 THEN m
  ELSE [m EXCEPT !.tab[n] = [Blank(@.mask + 1) EXCEPT !.max = m.tab[n].max]]

RECURSIVE sizeFor(_, _)
sizeFor(x, wanted) == IF calcMaxNumElementsAllowed(x) < wanted THEN sizeFor(2 * x, wanted) ELSE x

reserve(m, n, c, force) ==
  LET t == m.tab[n]
      x == sizeFor(setup.first, IF c > t.num THEN c ELSE t.num)
  IN IF force \/ x > t.mask + 1 THEN rehashPowerOfTwo(m, n, x) ELSE m

\* cloneData: the info bytes first, then one copy per node.
cloneData(m, n, o) ==
  LET from == m.tab[o]
      Made(i) == Cardinality({j \in 0..i : from.info[j] # 0}) <= m.budget
  IN IF m.budget >= from.num THEN [m EXCEPT !.budget = @ - from.num, !.tab[n] = from]
     ELSE Deviate(Throw([m EXCEPT !.tab[n] = [from EXCEPT !.node = [i \in DOMAIN @ |-> IF Made(i) THEN @[i] ELSE Raw]]]),
                  "cloneData throws half-way")

\* No destructor runs for a table whose constructor throws.
CopyConstructor(m, n, o) ==
  LET r == Spend([m EXCEPT !.tab[n] = init])
      c == cloneData(r, n, o)
  IN IF m.tab[o].num = 0 THEN [m EXCEPT !.tab[n] = init]
     ELSE IF r.thrown THEN r
     ELSE IF c.thrown THEN Flag([c EXCEPT !.tab[n] = init], TRUE) ELSE c

MoveConstructor(m, n, o) == [m EXCEPT !.tab[n] = m.tab[o], !.tab[o] = init]

\* The old array is freed before the new one is allocated.
copy_assign(m, n, o) ==
  LET same == m.tab[n].mask = m.tab[o].mask
      r == Spend(m)
  IN IF n = o THEN m
     ELSE IF m.tab[o].num = 0 THEN (IF m.tab[n].mask = 0 THEN m ELSE [m EXCEPT !.tab[n] = init])
     ELSE IF same THEN cloneData(m, n, o)
     ELSE IF r.thrown THEN Deviate(Flag(r, TRUE), "copy assignment throws after freeing")
     ELSE cloneData(r, n, o)

move_assign(m, n, o) ==
  IF n = o THEN m
  ELSE IF m.tab[o].mask = 0 THEN clear(m, n)
  ELSE [m EXCEPT !.tab[n] = m.tab[o], !.tab[o] = init]

-----------------------------------------------------------------------------
(* A program that calls them.                                              *)

Init ==
  /\ setup \in TableSetups
  /\ tab = [n \in setup.tables |-> init]
  /\ want = [n \in setup.tables |-> <<>>]
  /\ misuse = FALSE
  /\ impossible = FALSE

\* An operation that throws leaves the maps as they were.
Commit(m, wanted) ==
  /\ m.deviates \intersect Shunned = {}
  /\ \A n \in setup.tables : m.tab[n].mask <= MaxMask
  /\ tab' = m.tab
  /\ want' = IF m.thrown THEN want ELSE wanted
  /\ misuse' = m.misuse
  /\ impossible' = m.impossible
  /\ UNCHANGED setup

With(f, k, v) == [x \in DOMAIN f \union {k} |-> IF x = k THEN v ELSE f[x]]
Without(f, S) == [x \in DOMAIN f \ S |-> f[x]]
Kept(f, k, v) == IF k \in DOMAIN f THEN f ELSE With(f, k, v)
Pair(k, v) == [key |-> k, value |-> v]
Keys == DOMAIN setup.hash

Insert(n, k, v, b) == Commit(doInsert(Machine(b), n, Pair(k, v), TRUE), [want EXCEPT ![n] = Kept(@, k, v)])
Subscript(n, k, b) == Commit(doCreateByKey(Machine(b), n, k), [want EXCEPT ![n] = Kept(@, k, 0)])
Emplace(n, k, v, b) == Commit(emplace(Machine(b), n, Pair(k, v)), [want EXCEPT ![n] = Kept(@, k, v)])
TryEmplace(n, k, v, b) == Commit(try_emplace_impl(Machine(b), n, Pair(k, v)), [want EXCEPT ![n] = Kept(@, k, v)])
InsertOrAssign(n, k, v, b) ==
  Commit(insert_or_assign_impl(Machine(b), n, Pair(k, v)), [want EXCEPT ![n] = With(@, k, v)])
Erase(n, k) == Commit(erase(Machine(0), n, k), [want EXCEPT ![n] = Without(@, {k})])
EraseIf(n, v) ==
  Commit([Machine(0) EXCEPT !.tab[n] = eraseWhere(@, begin(@), v)],
         [want EXCEPT ![n] = Without(@, {k \in DOMAIN @ : @[k] = v})])
Clear(n) == Commit(clear(Machine(0), n), [want EXCEPT ![n] = <<>>])
Reserve(n, c, force, b) == Commit(reserve(Machine(b), n, c, force), want)
CopyAssign(n, o, b) == Commit(copy_assign(Machine(b), n, o), [want EXCEPT ![n] = want[o]])
MoveAssign(n, o) ==
  Commit(move_assign(Machine(0), n, o), IF n = o THEN want ELSE [want EXCEPT ![n] = want[o], ![o] = <<>>])
\* A table is destroyed, and a new one made of another takes its place (an empty one if that throws).
CopyConstruct(n, o, b) ==
  LET m == CopyConstructor(Machine(b), n, o)
  IN n # o /\ Commit([m EXCEPT !.thrown = FALSE], [want EXCEPT ![n] = IF m.thrown THEN <<>> ELSE want[o]])
MoveConstruct(n, o) == n # o /\ Commit(MoveConstructor(Machine(0), n, o), [want EXCEPT ![n] = want[o], ![o] = <<>>])

Next ==
  \E n \in setup.tables, b \in CopyBudgets :
    \/ \E k \in Keys, v \in Mapped :
         \/ Insert(n, k, v, b)
         \/ Emplace(n, k, v, b)
         \/ TryEmplace(n, k, v, b)
         \/ InsertOrAssign(n, k, v, b)
    \/ \E k \in Keys : Subscript(n, k, b) \/ Erase(n, k)
    \/ \E v \in Mapped : EraseIf(n, v)
    \/ Clear(n)
    \/ \E c \in {0, setup.first}, force \in BOOLEAN : Reserve(n, c, force, b)
    \/ \E o \in setup.tables :
         \/ CopyAssign(n, o, b)
         \/ MoveAssign(n, o)
         \/ CopyConstruct(n, o, b)
         \/ MoveConstruct(n, o)

Spec == Init /\ [][Next]_vars

-----------------------------------------------------------------------------
(* What is checked.                                                        *)

Contents(t) == {t.node[i] : i \in {j \in DOMAIN t.node : t.info[j] # 0}}

\* The array obeys robin hood order: every info byte is the distance of its node from its home in units of mInfoInc
\* plus the hash bits left, no node is further from home than one after it would be in its place, the sentinel stands,
\* the counts agree, and unless mMaxNumElementsAllowed is 0 every node can still be shifted by one without overflow
\* of its byte.  No insertion, shift, growth or halving of the info bytes leaves the array.
RobinHoodOrder ==
  /\ ~misuse
  /\ \A n \in setup.tables :
       LET t == tab[n]
           Used == {i \in DOMAIN t.node : t.info[i] # 0}
       IN /\ t.mask # 0 => Info(t, Size(t)) = 1
          /\ t.num = Cardinality(Used)
          /\ t.num <= calcMaxNumElementsAllowed(t.mask + 1)
          /\ \A i \in DOMAIN t.node : i \in Used <=> t.node[i] \notin {Raw, Moved}
          /\ \A i \in Used :
               LET p == keyToIdx(t, t.node[i].key)
               IN /\ i >= p.idx
                  /\ t.info[i] = p.info + (i - p.idx) * t.inc
                  /\ i > p.idx => i - 1 \in Used /\ t.info[i - 1] + t.inc >= t.info[i]
          /\ t.max # 0 => \A i \in Used : t.info[i] + t.inc <= setup.limit

\* Every table is the map its operations describe, also after one threw: it holds exactly its pairs, and find, the
\* search of an insertion and the one of an erasure agree on which keys there are.
TableIsMap ==
  \A n \in setup.tables :
    LET t == tab[n]
    IN /\ Contents(t) = {Pair(k, want[n][k]) : k \in DOMAIN want[n]}
       /\ \A k \in Keys :
            /\ Found(t, k) <=> k \in DOMAIN want[n]
            /\ Matches(t, Search(t, k), k) <=> k \in DOMAIN want[n]
            /\ (eraseFrom(t, keyToIdx(t, k), k) # t) <=> k \in DOMAIN want[n]

\* A table is sound when its array and the map it stands for are, after every call and every exception.
TableSound == RobinHoodOrder /\ TableIsMap

\* insert_move never runs out of info bits: "impossible to reach" stands beside the throw it makes then.
NeverOverflowsMoving == ~impossible
=============================================================================
