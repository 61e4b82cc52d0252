---------------------------- MODULE MCContainers ----------------------------
(***************************************************************************)
(* The containers, each in a program of its own: vectors, strings, hash    *)
(* tables and the memory pool of their nodes.  The programs share the      *)
(* variables that have the same role; `part` tells them apart.             *)
(***************************************************************************)
EXTENDS RobinHood

CONSTANTS Null, Nil

VARIABLES
  part, heap, vec, lost, stopped, str, mHead, mListForFree, link, prev, size, out

poolVars == <<mHead, mListForFree, link, prev, size, out>>
allVars == <<part, setup, tab, want, misuse, impossible, heap, vec, lost, stopped, str, poolVars>>

Deviations ==
  { "fill_n clears bytes", "regrowth loses new elements", "append_n swaps its arguments",
    "assign_range reads before its range", "erase leaves its tail alive", "throwing constructor leaks",
    "insert_range keeps a stale position", "insert_range rotates about the wrong element",
    "doubling the capacity wraps", "appending wraps the length", "appending reads its freed buffer",
    "inserting wraps the length", "inserting reads its shifted characters", "inserting misplaces the tail on growth",
    "inserting a range at the end inserts twice", "assigning a part of itself clears it first",
    "operator+ swaps its operands" }

\* A vector on its own with room for four elements, and two with room for two under two pool tags.
VectorSetups ==
  LET Kinds == {"trivial", "movable", "copyable"}
  IN [kind : Kinds, vectors : {{"a"}}, tags : {{"t1"}}, max : {4}]
       \union [kind : Kinds, vectors : {{"a", "b"}}, tags : {{"t1", "t2"}}, max : {2}]

V == INSTANCE Vector WITH
       Setups <- VectorSetups, Blocks <- {"p", "q"}, Worked <- {"a"}, MaxValue <- 1,
       Ranges <- {<<>>, <<1, 0>>}, Budgets <- {0, 1, 2, 9}, Avoided <- Deviations

\* Three bits of length with narrow characters, and two strings of wide ones.
MCStrings ==
  { [strings |-> {"a"}, worked |-> {"a"}, tags |-> {"t1"}, width |-> 8, ch |-> 1, sso |-> 2],
    [strings |-> {"a", "b"}, worked |-> {"a"}, tags |-> {"t1", "t2"}, width |-> 6, ch |-> 2, sso |-> 1] }

S == INSTANCE WinntString WITH
       StringSetups <- MCStrings, Blocks <- {"p", "q", "r"}, Chars <- {0, 1}, StringBudgets <- {0, 9},
       Texts <- {<<>>, <<1>>, <<1, 0>>, <<1, 1, 0>>, <<1, 1, 1, 1, 1, 1, 0>>}, StringAvoided <- Deviations

\* Instances of RobinHood: one badly hashed table, two tables that are copied and moved.
One(hash, bits, limit, first, flat) ==
  [tables |-> {"a"}, hash |-> hash, bits |-> bits, limit |-> limit, first |-> first, flat |-> flat]
Two(hash) ==
  [tables |-> {"a", "b"}, hash |-> hash, bits |-> 2, limit |-> 15, first |-> 2, flat |-> TRUE]

MCSetups ==
  { One(<<0, 0, 0, 0>>, 2, 15, 2, TRUE),       \* one home, the same hash bits
    One(<<12, 13, 14, 28>>, 2, 15, 2, FALSE),  \* the last home, different hash bits
    One(<<0, 4, 5, 9>>, 2, 15, 4, TRUE),       \* homes side by side
    One(<<0, 0, 0, 20>>, 2, 7, 4, FALSE),      \* a narrow info byte, soon full
    Two(<<0, 1>>), Two(<<4, 0>>) }

\* Three keys of one home fill the narrow info byte as 127 keys do a real one; the fourth has a later home.
MCBadHash == {One(<<0, 0, 0, 20, 0>>, 2, 7, 4, TRUE)}

MCShunnedButOverflow ==
  { "init_data throws half-way", "insertion throws after shifting", "emplace loses its node",
    "cloneData throws half-way", "copy assignment throws after freeing" }
MCShunned == MCShunnedButOverflow \union {"rehash overflows half-way"}

P == INSTANCE BulkPool WITH
       Pools <- {"p", "q"}, PoolBlocks <- {"x", "y", "z"}, MinNumAllocs <- 1, MaxNumAllocs <- 2, ArrayCells <- {0, 2}

NoPool == mHead = 0 /\ mListForFree = 0 /\ link = 0 /\ prev = 0 /\ size = 0 /\ out = 0
NoTable == tab = 0 /\ impossible = FALSE
NoVector == vec = 0 /\ lost = FALSE /\ stopped = FALSE

AllInit ==
  \/ part = "vector" /\ V!Init /\ NoTable /\ NoPool /\ str = 0
  \/ part = "string" /\ S!Init /\ NoTable /\ NoPool /\ NoVector
  \/ part = "table" /\ Init /\ NoPool /\ NoVector /\ str = 0 /\ heap = 0
  \/ part = "pool" /\ P!PoolInit /\ NoTable /\ NoVector /\ str = 0 /\ heap = 0 /\ setup = 0 /\ want = 0 /\ misuse = FALSE

AllNext ==
  /\ part' = part
  /\ \/ part = "vector" /\ V!Next /\ UNCHANGED <<tab, impossible, str, poolVars>>
     \/ part = "string" /\ S!Next /\ UNCHANGED <<tab, impossible, vec, lost, stopped, poolVars>>
     \/ part = "table" /\ Next /\ UNCHANGED <<heap, vec, lost, stopped, str, poolVars>>
     \/ part = "pool" /\ P!PoolNext /\ UNCHANGED <<vars, heap, vec, lost, stopped, str>>

AllSpec == AllInit /\ [][AllNext]_allVars

\* Hash tables alone.
TableSpec == part = "table" /\ AllSpec

\* Vector!VectorSound.  Vectors keep the memory and the elements that their calls describe, when an allocation or
\* an element's constructor throws too.
VectorsSound == part = "vector" => V!VectorSound

\* WinntString!StringSound.  The same of strings, at the limit of their 16-bit length too.
StringsSound == part = "string" => S!StringSound

\* RobinHood!TableSound.  The same of hash tables, in robin hood order, when keys collide too.
TablesSound == part = "table" => TableSound

\* BulkPool!PoolConserved.  The pool of a table's nodes loses and duplicates no cell.
PoolsConserved == part = "pool" => P!PoolConserved
=============================================================================
