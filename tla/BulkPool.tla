------------------------------- MODULE BulkPool -------------------------------
(***************************************************************************)
(* BulkPoolAllocator (include/hash_table_impl.hpp), the allocator of the   *)
(* nodes of unordered_node_map: cells are cut from blocks, a free cell     *)
(* holds the pointer to the next free one, a block begins with the pointer *)
(* to the block taken before it.  A rehash gives the old array of the      *)
(* table to the pool as one more block.                                    *)
(***************************************************************************)
EXTENDS Integers, Sequences, FiniteSets, Functions

CONSTANTS
  Pools,
  PoolBlocks,       \* blocks of memory, as many as may be allocated at a time
  MinNumAllocs, MaxNumAllocs,
  ArrayCells,       \* how many cells an array given to the pool has room for; 0: not even one
  Nil

VARIABLES
  mHead,            \* pool -> first free cell
  mListForFree,     \* pool -> block taken last
  link,             \* what is stored at the beginning of a free cell
  prev,             \* what is stored at the beginning of a block of a pool
  size,             \* block -> number of cells, 0 if it is not allocated
  out               \* history: cell -> the pool that handed it out

pvars == <<mHead, mListForFree, link, prev, size, out>>

Cells(b) == {b} \X (1..size[b])
Unused == {b \in PoolBlocks : size[b] = 0}

PoolInit ==
  /\ mHead = [p \in Pools |-> Nil]
  /\ mListForFree = [p \in Pools |-> Nil]
  /\ link = <<>>
  /\ prev = <<>>
  /\ size = [b \in PoolBlocks |-> 0]
  /\ out = <<>>

\* The blocks of a pool, in the order of its list.
RECURSIVE BlocksFrom(_)
BlocksFrom(b) == IF b = Nil THEN <<>> ELSE <<b>> \o BlocksFrom(prev[b])
BlocksOf(p) == BlocksFrom(mListForFree[p])

\* Twice as many for every block the pool has, up to MaxNumAllocs.
RECURSIVE Doubled(_, _)
Doubled(n, blocks) == IF n * 2 <= MaxNumAllocs /\ blocks > 0 THEN Doubled(n * 2, blocks - 1) ELSE n
calcNumElementsToAlloc(p) == Doubled(MinNumAllocs, Len(BlocksOf(p)))

Overlay(f, g) == [x \in DOMAIN f \union DOMAIN g |-> IF x \in DOMAIN g THEN g[x] ELSE f[x]]

\* Mutant: the last cell of the block ends the list.
AddEndsList(b, n, head) ==
  [link |-> [c \in {b} \X (1..n) |-> IF c[2] = n THEN Nil ELSE <<b, c[2] + 1>>], head |-> <<b, 1>>]

\* The links and the head after block b with n cells joins a pool whose first free cell is head.
add(b, n, head) ==
  [link |-> [c \in {b} \X (1..n) |-> IF c[2] = n THEN head ELSE <<b, c[2] + 1>>], head |-> <<b, 1>>]

\* From the free list, or from a new block.
allocate(p) ==
  IF mHead[p] # Nil
  THEN /\ mHead' = [mHead EXCEPT ![p] = link[mHead[p]]]
       /\ out' = Overlay(out, [c \in {mHead[p]} |-> p])
       /\ link' = Restrict(link, DOMAIN link \ {mHead[p]})
       /\ UNCHANGED <<mListForFree, prev, size>>
  ELSE \E b \in Unused :
         LET n == calcNumElementsToAlloc(p)
             block == add(b, n, mHead[p])
         IN /\ size' = [size EXCEPT ![b] = n]
            /\ prev' = Overlay(prev, [x \in {b} |-> mListForFree[p]])
            /\ mListForFree' = [mListForFree EXCEPT ![p] = b]
            /\ mHead' = [mHead EXCEPT ![p] = block.link[block.head]]
            /\ link' = Restrict(Overlay(link, block.link), DOMAIN Overlay(link, block.link) \ {block.head})
            /\ out' = Overlay(out, [c \in {block.head} |-> p])

deallocate(p, c) ==
  /\ c \in DOMAIN out
  /\ out[c] = p
  /\ link' = Overlay(link, [x \in {c} |-> mHead[p]])
  /\ mHead' = [mHead EXCEPT ![p] = c]
  /\ out' = Restrict(out, DOMAIN out \ {c})
  /\ UNCHANGED <<mListForFree, prev, size>>

\* An array of the table becomes a block, unless it is too small and freed at once.
addOrFree(p, n) ==
  \E b \in Unused :
    LET block == add(b, n, mHead[p])
    IN IF n = 0 THEN UNCHANGED pvars
       ELSE /\ size' = [size EXCEPT ![b] = n]
            /\ prev' = Overlay(prev, [x \in {b} |-> mListForFree[p]])
            /\ mListForFree' = [mListForFree EXCEPT ![p] = b]
            /\ link' = Overlay(link, block.link)
            /\ mHead' = [mHead EXCEPT ![p] = block.head]
            /\ UNCHANGED out

\* reset frees the blocks of the pool; the table has destroyed its elements by then.
Freed(p) == Range(BlocksOf(p))
Reset(p) ==
  /\ size' = [b \in PoolBlocks |-> IF b \in Freed(p) THEN 0 ELSE size[b]]
  /\ link' = Restrict(link, {c \in DOMAIN link : c[1] \notin Freed(p)})
  /\ prev' = Restrict(prev, DOMAIN prev \ Freed(p))

reset(p) ==
  /\ Reset(p)
  /\ mHead' = [mHead EXCEPT ![p] = Nil]
  /\ mListForFree' = [mListForFree EXCEPT ![p] = Nil]
  /\ out' = Restrict(out, {c \in DOMAIN out : out[c] # p})

\* The elements of q, and with them its cells, belong to p afterwards (p is another pool than q).
move_pool(p, q) ==
  /\ p # q
  /\ Reset(p)
  /\ mHead' = [mHead EXCEPT ![p] = mHead[q], ![q] = Nil]
  /\ mListForFree' = [mListForFree EXCEPT ![p] = mListForFree[q], ![q] = Nil]
  /\ out' = [c \in {x \in DOMAIN out : out[x] # p} |-> IF out[c] = q THEN p ELSE out[c]]

swap(p, q) ==
  /\ p # q
  /\ mHead' = [mHead EXCEPT ![p] = mHead[q], ![q] = mHead[p]]
  /\ mListForFree' = [mListForFree EXCEPT ![p] = mListForFree[q], ![q] = mListForFree[p]]
  /\ out' = [c \in DOMAIN out |-> IF out[c] = p THEN q ELSE IF out[c] = q THEN p ELSE out[c]]
  /\ UNCHANGED <<link, prev, size>>

PoolNext ==
  \E p \in Pools :
    \/ allocate(p)
    \/ \E c \in DOMAIN out : deallocate(p, c)
    \/ \E n \in ArrayCells : addOrFree(p, n)
    \/ reset(p)
    \/ \E q \in Pools : move_pool(p, q) \/ swap(p, q)

PoolSpec == PoolInit /\ [][PoolNext]_pvars

\* The free cells of a pool, as its list links them; a cycle would repeat one.
RECURSIVE FreeFrom(_, _)
FreeFrom(c, seen) == IF c = Nil \/ c \in seen \/ c \notin DOMAIN link THEN <<c>> ELSE <<c>> \o FreeFrom(link[c], seen \union {c})
FreeList(p) == FreeFrom(mHead[p], {})

\* Every block belongs to one pool, and every cell of a pool's blocks is either on its free list or handed out by it,
\* never both, never twice: recycling the array of a table, moving and swapping pools lose and duplicate no memory.
PoolConserved ==
  /\ \A p, q \in Pools : p # q => Freed(p) \intersect Freed(q) = {}
  /\ UNION {Freed(p) : p \in Pools} = {b \in PoolBlocks : size[b] > 0}
  /\ \A p \in Pools :
       LET free == FreeList(p)
           handed == {c \in DOMAIN out : out[c] = p}
           list == {free[i] : i \in 1..(Len(free) - 1)}
       IN /\ free[Len(free)] = Nil
          /\ list \intersect handed = {}
          /\ list \union handed = UNION {Cells(b) : b \in Freed(p)}
=============================================================================
