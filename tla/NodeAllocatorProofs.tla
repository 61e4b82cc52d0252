------------------------ MODULE NodeAllocatorProofs ------------------------
(***************************************************************************)
(* Proofs about node_allocator for any threads and blocks, as long as the  *)
(* tag of the head does not wrap around.                                   *)
(*                                                                         *)
(* The inductive invariant adds Snapshots to the types, the list and the   *)
(* partition of the blocks: it says what a thread that stands between its  *)
(* load of the head and its compare-and-swap still knows.                  *)
(***************************************************************************)
EXTENDS NodeAllocator, SequenceTheorems, TLAPS

IInv == TypeOK /\ ListIntact /\ Exclusive /\ Snapshots

\* What popping the first block does to a list.
LEMMA PopList ==
  ASSUME NEW p, NEW w, NEW s \in Seq(Blocks), IsList(p, w, s), p # Null
  PROVE  /\ p \in Blocks /\ Occurs(p, s)
         /\ SubSeq(s, 2, Len(s)) \in Seq(Blocks)
         /\ IsList(w[p], w, SubSeq(s, 2, Len(s)))
         /\ \A b : Occurs(b, SubSeq(s, 2, Len(s))) <=> Occurs(b, s) /\ b # p
<1> DEFINE r == SubSeq(s, 2, Len(s))
<1>1. s # <<>> /\ p = s[1] /\ Len(s) \in Nat \ {0}
  BY EmptySeq DEF IsList
<1>2. \A i \in 1..Len(s) : s[i] \in Blocks
  BY ElementOfSeq
<1>3. r \in Seq(Blocks) /\ Len(r) = Len(s) - 1 /\ \A i \in 1..Len(r) : r[i] = s[i+1]
  <2>1. r = Tail(s)
    BY <1>1, TailIsSubSeq
  <2>2. /\ Tail(s) \in Seq(Blocks) /\ Len(Tail(s)) = Len(s) - 1
        /\ \A i \in 1..Len(Tail(s)) : Tail(s)[i] = s[i+1]
    BY <1>1, HeadTailProperties
  <2> HIDE DEF r
  <2> QED
    BY <2>1, <2>2
<1> HIDE DEF r
<1>4. IsList(w[p], w, r)
  <2>1. w[p] = IF r = <<>> THEN Null ELSE r[1]
    <3>1. CASE Len(s) = 1
      <4>1. r = <<>>
        BY <1>3, <3>1, EmptySeq
      <4> QED
        BY <1>1, <3>1, <4>1 DEF IsList
    <3>2. CASE Len(s) # 1
      <4>1. Len(r) # 0 /\ 1 \in 1..Len(r) /\ 1 + 1 = 2
        BY <1>1, <1>3, <3>2
      <4>2. r # <<>> /\ r[1] = s[2]
        BY <1>3, <4>1, EmptySeq
      <4> QED
        <5>1. 1 \in 1..Len(s)
          BY <1>1
        <5>2. w[s[1]] = IF 1 = Len(s) THEN Null ELSE s[1 + 1]
          BY <5>1, Zenon DEF IsList
        <5> QED
          BY <1>1, <3>2, <4>1, <4>2, <5>2
    <3> QED
      BY <3>1, <3>2
  <2>2. \A i \in 1..Len(r) : w[r[i]] = IF i = Len(r) THEN Null ELSE r[i + 1]
    BY <1>1, <1>3 DEF IsList
  <2>3. \A i, j \in 1..Len(r) : r[i] = r[j] => i = j
    BY <1>1, <1>3 DEF IsList
  <2> QED
    BY <2>1, <2>2, <2>3 DEF IsList
<1>5. ASSUME NEW b PROVE Occurs(b, r) <=> Occurs(b, s) /\ b # p
  <2>1. ASSUME Occurs(b, r) PROVE Occurs(b, s) /\ b # p
    <3>1. PICK i \in 1..Len(r) : r[i] = b
      BY <2>1 DEF Occurs
    <3>2. i + 1 \in 1..Len(s) /\ s[i + 1] = b /\ i + 1 # 1
      BY <1>1, <1>3, <3>1
    <3> QED
      BY <1>1, <3>2 DEF Occurs, IsList
  <2>2. ASSUME Occurs(b, s), b # p PROVE Occurs(b, r)
    <3>1. PICK i \in 1..Len(s) : s[i] = b
      BY <2>2 DEF Occurs
    <3>2. i - 1 \in 1..Len(r) /\ r[i - 1] = b
      BY <1>1, <1>3, <2>2, <3>1
    <3> QED
      BY <3>2 DEF Occurs
  <2> QED
    BY <2>1, <2>2
<1>6. p \in Blocks /\ Occurs(p, s)
  BY <1>1, <1>2 DEF Occurs
<1> QED
  BY <1>3, <1>4, <1>5, <1>6 DEF r

\* What pushing a block that is not in the list does to it.
LEMMA PushList ==
  ASSUME NEW p, NEW w, NEW s \in Seq(Blocks), IsList(p, w, s),
         NEW c \in Blocks, ~Occurs(c, s), w[c] = p
  PROVE  /\ <<c>> \o s \in Seq(Blocks)
         /\ IsList(c, w, <<c>> \o s)
         /\ \A b : Occurs(b, <<c>> \o s) <=> Occurs(b, s) \/ b = c
<1> DEFINE r == <<c>> \o s
<1>1. r \in Seq(Blocks) /\ Len(r) = Len(s) + 1 /\ r[1] = c
      /\ \A i \in 1..Len(s) : r[i + 1] = s[i]
  <2>1. <<c>> \in Seq(Blocks) /\ Len(<<c>>) = 1 /\ <<c>>[1] = c
    OBVIOUS
  <2>2. /\ r \in Seq(Blocks) /\ Len(r) = 1 + Len(s)
        /\ \A i \in 1..1 + Len(s) : r[i] = IF i <= 1 THEN <<c>>[i] ELSE s[i - 1]
    BY <2>1, ConcatProperties
  <2>3. Len(s) \in Nat
    BY LenProperties
  <2> QED
    BY <2>1, <2>2, <2>3
<1>2. Len(s) \in Nat
  BY LenProperties
<1> HIDE DEF r
<1>3. \A i \in 1..Len(r) : i = 1 \/ (i - 1 \in 1..Len(s) /\ r[i] = s[i - 1])
  BY <1>1, <1>2
<1>4. IsList(c, w, r)
  <2>1. r # <<>>
    BY <1>1, <1>2, EmptySeq
  <2>2. ASSUME NEW i \in 1..Len(r)
        PROVE  w[r[i]] = IF i = Len(r) THEN Null ELSE r[i + 1]
    <3>1. CASE i = 1
      <4>1. CASE s = <<>>
        BY <1>1, <3>1, <4>1, EmptySeq DEF IsList
      <4>2. CASE s # <<>>
        <5>1. Len(s) \in Nat \ {0} /\ p = s[1]
          BY <4>2, EmptySeq DEF IsList
        <5> QED
          BY <1>1, <3>1, <5>1
      <4> QED
        BY <4>1, <4>2
    <3>2. CASE i # 1
      <4>1. i - 1 \in 1..Len(s) /\ r[i] = s[i - 1]
        BY <1>3, <3>2
      <4>2. w[s[i - 1]] = IF i - 1 = Len(s) THEN Null ELSE s[i]
        BY <4>1 DEF IsList
      <4> QED
        BY <1>1, <1>2, <4>1, <4>2
    <3> QED
      BY <3>1, <3>2
  <2>3. \A i, j \in 1..Len(r) : r[i] = r[j] => i = j
    <3> SUFFICES ASSUME NEW i \in 1..Len(r), NEW j \in 1..Len(r), r[i] = r[j]
                 PROVE  i = j
      OBVIOUS
    <3>1. \A k \in 1..Len(s) : s[k] # c
      BY DEF Occurs
    <3>2. CASE i = 1
      BY <1>1, <1>3, <3>1, <3>2
    <3>3. CASE j = 1
      BY <1>1, <1>3, <3>1, <3>3, Zenon
    <3>4. CASE i # 1 /\ j # 1
      <4>1. /\ i - 1 \in 1..Len(s) /\ r[i] = s[i - 1]
            /\ j - 1 \in 1..Len(s) /\ r[j] = s[j - 1]
        BY <1>3, <3>4
      <4>2. i - 1 = j - 1
        BY <4>1, Zenon DEF IsList
      <4> QED
        BY <4>2
    <3> QED
      BY <3>2, <3>3, <3>4
  <2> QED
    BY <1>1, <2>1, <2>2, <2>3 DEF IsList
<1>5. ASSUME NEW b PROVE Occurs(b, r) <=> Occurs(b, s) \/ b = c
  <2>1. ASSUME Occurs(b, s) \/ b = c PROVE Occurs(b, r)
    BY <1>1, <1>2, <2>1 DEF Occurs
  <2>2. ASSUME Occurs(b, r) PROVE Occurs(b, s) \/ b = c
    BY <1>1, <1>3, <2>2 DEF Occurs
  <2> QED
    BY <2>1, <2>2
<1> QED
  BY <1>1, <1>4, <1>5 DEF r

\* A write outside the list keeps it.
LEMMA WriteList ==
  ASSUME NEW p, NEW w, NEW s \in Seq(Blocks), IsList(p, w, s),
         NEW c, ~Occurs(c, s), NEW v
  PROVE  IsList(p, [w EXCEPT ![c] = v], s)
BY DEF IsList, Occurs

\* What a thread knows, besides its blocks.
Local(t) == <<apc[t], old[t], link[t], block[t]>>

\* A step of another thread keeps a snapshot: either the tag moves on, or no
\* block leaves the list and no link in it changes.
LEMMA OthersSnapshot ==
  ASSUME TypeOK, NEW u \in Threads, SnapshotOK(u), Local(u)' = Local(u),
         held'[u] = held[u], top'.tag \in Nat, top.tag <= top'.tag,
         top'.tag = top.tag =>
           \A b \in Blocks : Occurs(b, free) => Occurs(b, free') /\ word'[b] = word[b],
         \A b \in held[u] : word'[b] = word[b]
  PROVE  SnapshotOK(u)'
<1>1. /\ apc'[u] = apc[u] /\ old'[u] = old[u] /\ link'[u] = link[u]
      /\ block'[u] = block[u]
  BY DEF Local
<1>2. old[u] \in Tagged /\ old[u].tag \in Nat /\ top.tag \in Nat
  BY DEF TypeOK, Tagged
<1>3. old[u].ptr # Null => old[u].ptr \in Blocks
  BY <1>2 DEF Tagged, Pointers
<1> QED
  BY <1>1, <1>2, <1>3 DEF SnapshotOK

\* A step of t that changes only what t knows.
LEMMA LocalStep ==
  ASSUME IInv, NEW t \in Threads, UNCHANGED <<heap, top, word, held, free>>,
         apc' \in [Threads -> Locations], old' \in [Threads -> Tagged],
         link' \in [Threads -> Words], block' \in [Threads -> Pointers],
         SnapshotOK(t)', \A u \in Threads \ {t} : Local(u)' = Local(u)
  PROVE  IInv'
<1>1. TypeOK'
  BY DEF IInv, TypeOK
<1>2. ListIntact'
  BY DEF IInv, ListIntact
<1>3. Exclusive'
  BY DEF IInv, Exclusive
<1>4. ASSUME NEW u \in Threads \ {t} PROVE SnapshotOK(u)'
  <2>1. top.tag \in Nat /\ SnapshotOK(u) /\ TypeOK
    BY DEF IInv, TypeOK, Tagged, Snapshots
  <2> QED
    BY <2>1, OthersSnapshot
<1> QED
  BY <1>1, <1>2, <1>3, <1>4 DEF IInv, Snapshots

\* A step of t that writes the first word of a block that t holds.
LEMMA WriteStep ==
  ASSUME IInv, NEW t \in Threads, NEW c \in held[t], NEW v \in Words,
         word' = [word EXCEPT ![c] = v], UNCHANGED <<heap, top, held, free>>,
         apc' \in [Threads -> Locations], old' = old, link' = link, block' = block,
         SnapshotOK(t)', \A u \in Threads \ {t} : Local(u)' = Local(u)
  PROVE  IInv'
<1>0. c \in Blocks /\ ~Occurs(c, free) /\ \A u \in Threads \ {t} : c \notin held[u]
  BY DEF IInv, TypeOK, Exclusive
<1>1. TypeOK'
  BY <1>0 DEF IInv, TypeOK
<1>2. ListIntact'
  <2>1. free \in Seq(Blocks) /\ IsList(top.ptr, word, free)
    BY DEF IInv, TypeOK, ListIntact
  <2> QED
    BY <1>0, <2>1, WriteList, Zenon DEF ListIntact
<1>3. Exclusive'
  BY DEF IInv, Exclusive
<1>4. ASSUME NEW u \in Threads \ {t} PROVE SnapshotOK(u)'
  <2>1. top.tag \in Nat /\ SnapshotOK(u) /\ TypeOK
    BY DEF IInv, TypeOK, Tagged, Snapshots
  <2>2. \A b \in Blocks : b # c => word'[b] = word[b]
    BY <2>1 DEF TypeOK
  <2>3. \A b \in held[u] : b \in Blocks /\ b # c
    BY <1>0, <2>1 DEF TypeOK
  <2>4. \A b \in Blocks : Occurs(b, free) => b # c
    BY <1>0
  <2> QED
    BY <2>1, <2>2, <2>3, <2>4, OthersSnapshot
<1> QED
  BY <1>1, <1>2, <1>3, <1>4 DEF IInv, Snapshots

\* The load of the head in allocate() takes a snapshot.
LEMMA AllocLoadStep == ASSUME IInv, NEW t \in Threads, AllocLoad(t) PROVE IInv'
<1>1. /\ apc' \in [Threads -> Locations] /\ old' \in [Threads -> Tagged]
      /\ link' \in [Threads -> Words] /\ block' \in [Threads -> Pointers]
      /\ UNCHANGED <<heap, top, word, held, free>>
  BY DEF AllocLoad, Goto, IInv, TypeOK, Locations
<1>2. \A u \in Threads \ {t} : Local(u)' = Local(u)
  BY DEF AllocLoad, Goto, IInv, TypeOK, Local
<1>3. SnapshotOK(t)'
  <2>1. /\ apc'[t] = "alloc_test" /\ old'[t] = top /\ top' = top /\ free' = free
        /\ top \in Tagged /\ top.tag \in Nat
    BY DEF AllocLoad, Goto, IInv, TypeOK, Tagged
  <2>2. top.ptr # Null => Occurs(top.ptr, free)
    BY PopList DEF IInv, TypeOK, ListIntact
  <2> QED
    BY <2>1, <2>2 DEF SnapshotOK
<1> QED
  BY <1>1, <1>2, <1>3, LocalStep

\* An allocation that throws leaves the list alone.
LEMMA AllocThrowsStep == ASSUME IInv, NEW t \in Threads, AllocThrows(t) PROVE IInv'
<1>1. /\ apc' \in [Threads -> Locations] /\ old' \in [Threads -> Tagged]
      /\ link' \in [Threads -> Words] /\ block' \in [Threads -> Pointers]
      /\ UNCHANGED <<heap, top, word, held, free>>
  BY DEF AllocThrows, Goto, IInv, TypeOK, Locations, Pointers
<1>2. \A u \in Threads \ {t} : Local(u)' = Local(u)
  BY DEF AllocThrows, Goto, IInv, TypeOK, Local
<1>3. SnapshotOK(t)'
  BY DEF AllocThrows, Goto, IInv, TypeOK, Tagged, Snapshots, SnapshotOK
<1> QED
  BY <1>1, <1>2, <1>3, LocalStep

\* Reading the link of the snapshot.
LEMMA AllocReadLinkStep == ASSUME IInv, NEW t \in Threads, AllocReadLink(t) PROVE IInv'
<1>1. /\ apc' \in [Threads -> Locations] /\ old' \in [Threads -> Tagged]
      /\ link' \in [Threads -> Words] /\ block' \in [Threads -> Pointers]
      /\ UNCHANGED <<heap, top, word, held, free>>
  BY DEF AllocReadLink, Goto, IInv, TypeOK, Locations, Tagged, Pointers
<1>2. \A u \in Threads \ {t} : Local(u)' = Local(u)
  BY DEF AllocReadLink, Goto, IInv, TypeOK, Local
<1>3. SnapshotOK(t)'
  BY DEF AllocReadLink, Goto, IInv, TypeOK, Tagged, Snapshots, SnapshotOK
<1> QED
  BY <1>1, <1>2, <1>3, LocalStep

\* A failed compare-and-swap of allocate() renews the snapshot.
LEMMA AllocCasFailsStep == ASSUME IInv, NEW t \in Threads, AllocCasFails(t) PROVE IInv'
<1>1. /\ apc' \in [Threads -> Locations] /\ old' \in [Threads -> Tagged]
      /\ link' \in [Threads -> Words] /\ block' \in [Threads -> Pointers]
      /\ UNCHANGED <<heap, top, word, held, free>>
  BY DEF AllocCasFails, Goto, IInv, TypeOK, Locations
<1>2. \A u \in Threads \ {t} : Local(u)' = Local(u)
  BY DEF AllocCasFails, Goto, IInv, TypeOK, Local
<1>3. SnapshotOK(t)'
  <2>1. /\ apc'[t] = "alloc_test" /\ old'[t] = top /\ top' = top /\ free' = free
        /\ top \in Tagged /\ top.tag \in Nat
    BY DEF AllocCasFails, Goto, IInv, TypeOK, Tagged
  <2>2. top.ptr # Null => Occurs(top.ptr, free)
    BY PopList DEF IInv, TypeOK, ListIntact
  <2> QED
    BY <2>1, <2>2 DEF SnapshotOK
<1> QED
  BY <1>1, <1>2, <1>3, LocalStep

\* The load of the head in deallocate().
LEMMA DeallocLoadStep == ASSUME IInv, NEW t \in Threads, DeallocLoad(t) PROVE IInv'
<1>1. /\ apc' \in [Threads -> Locations] /\ old' \in [Threads -> Tagged]
      /\ link' \in [Threads -> Words] /\ block' \in [Threads -> Pointers]
      /\ UNCHANGED <<heap, top, word, held, free>>
  BY DEF DeallocLoad, Goto, IInv, TypeOK, Locations
<1>2. \A u \in Threads \ {t} : Local(u)' = Local(u)
  BY DEF DeallocLoad, Goto, IInv, TypeOK, Local
<1>3. SnapshotOK(t)'
  BY DEF DeallocLoad, Goto, IInv, TypeOK, Tagged, Snapshots, SnapshotOK
<1> QED
  BY <1>1, <1>2, <1>3, LocalStep

\* A failed compare-and-swap of deallocate() goes back to the link.
LEMMA DeallocCasFailsStep == ASSUME IInv, NEW t \in Threads, DeallocCasFails(t) PROVE IInv'
<1>1. /\ apc' \in [Threads -> Locations] /\ old' \in [Threads -> Tagged]
      /\ link' \in [Threads -> Words] /\ block' \in [Threads -> Pointers]
      /\ UNCHANGED <<heap, top, word, held, free>>
  BY DEF DeallocCasFails, Goto, IInv, TypeOK, Locations
<1>2. \A u \in Threads \ {t} : Local(u)' = Local(u)
  BY DEF DeallocCasFails, Goto, IInv, TypeOK, Local
<1>3. SnapshotOK(t)'
  BY DEF DeallocCasFails, Goto, IInv, TypeOK, Tagged, Snapshots, SnapshotOK
<1> QED
  BY <1>1, <1>2, <1>3, LocalStep

\* A call of allocate().
LEMMA AllocateStep == ASSUME IInv, NEW t \in Threads, Allocate(t) PROVE IInv'
<1>1. /\ apc' \in [Threads -> Locations] /\ old' \in [Threads -> Tagged]
      /\ link' \in [Threads -> Words] /\ block' \in [Threads -> Pointers]
      /\ UNCHANGED <<heap, top, word, held, free>>
  BY DEF Allocate, Goto, IInv, TypeOK, Locations
<1>2. \A u \in Threads \ {t} : Local(u)' = Local(u)
  BY DEF Allocate, Goto, IInv, TypeOK, Local
<1>3. SnapshotOK(t)'
  BY DEF Allocate, Goto, IInv, TypeOK, Tagged, Snapshots, SnapshotOK
<1> QED
  BY <1>1, <1>2, <1>3, LocalStep

\* A call of deallocate().
LEMMA DeallocateStep == ASSUME IInv, NEW t \in Threads, NEW b \in Blocks, Deallocate(t, b) PROVE IInv'
<1>1. /\ apc' \in [Threads -> Locations] /\ old' \in [Threads -> Tagged]
      /\ link' \in [Threads -> Words] /\ block' \in [Threads -> Pointers]
      /\ UNCHANGED <<heap, top, word, held, free>>
  BY DEF Deallocate, Goto, IInv, TypeOK, Locations, Pointers
<1>2. \A u \in Threads \ {t} : Local(u)' = Local(u)
  BY DEF Deallocate, Goto, IInv, TypeOK, Local
<1>3. SnapshotOK(t)'
  BY ZenonT(60) DEF Deallocate, Goto, IInv, TypeOK, Tagged, Snapshots, SnapshotOK
<1> QED
  BY <1>1, <1>2, <1>3, LocalStep

\* deallocate() writes the link of a block that its caller still owns.
LEMMA DeallocLinkStep == ASSUME IInv, NEW t \in Threads, DeallocLink(t) PROVE IInv'
<1>1. /\ block[t] \in held[t] /\ old[t].ptr \in Words /\ block[t] \in Blocks
      /\ word' = [word EXCEPT ![block[t]] = old[t].ptr]
      /\ UNCHANGED <<heap, top, held, free, old, link, block>>
  BY DEF DeallocLink, IInv, TypeOK, Snapshots, SnapshotOK, Tagged, Words
<1>2. /\ apc' \in [Threads -> Locations] /\ apc'[t] = "dealloc_cas"
      /\ \A u \in Threads \ {t} : Local(u)' = Local(u)
  BY DEF DeallocLink, Goto, IInv, TypeOK, Locations, Local
<1>3. SnapshotOK(t)'
  BY <1>1, <1>2 DEF SnapshotOK, IInv, TypeOK
<1> QED
  BY <1>1, <1>2, <1>3, WriteStep, Zenon

\* An owner writes its block.
LEMMA WriteOwnStep ==
  ASSUME IInv, NEW t \in Threads, NEW b \in Blocks, NEW d \in Data, Write(t, b, d)
  PROVE  IInv'
<1>1. /\ b \in held[t] /\ d \in Words /\ apc[t] = "idle"
      /\ word' = [word EXCEPT ![b] = d]
      /\ UNCHANGED <<heap, top, held, free, apc, old, link, block>>
  BY DEF Write, Words
<1>2. /\ apc' \in [Threads -> Locations]
      /\ \A u \in Threads \ {t} : Local(u)' = Local(u)
  BY <1>1 DEF IInv, TypeOK, Local
<1>3. SnapshotOK(t)'
  BY <1>1 DEF SnapshotOK
<1> QED
  BY <1>1, <1>2, <1>3, WriteStep, Zenon

\* A fresh block from the underlying allocator.
LEMMA AllocFreshStep == ASSUME IInv, NEW t \in Threads, AllocFresh(t) PROVE IInv'
<1>1. PICK c \in heap : /\ heap' = heap \ {c}
                        /\ block' = [block EXCEPT ![t] = c]
                        /\ held' = [held EXCEPT ![t] = @ \union {c}]
  BY Zenon DEF AllocFresh
<1>2. /\ UNCHANGED <<top, word, old, link, free>> /\ apc' = [apc EXCEPT ![t] = "idle"]
      /\ TypeOK /\ c \in Blocks
  BY <1>1 DEF AllocFresh, Goto, IInv, TypeOK
<1>3. TypeOK'
  <2>1. heap' \in SUBSET Blocks /\ held' \in [Threads -> SUBSET Blocks]
    BY <1>1, <1>2 DEF TypeOK
  <2>2. apc' \in [Threads -> Locations] /\ block' \in [Threads -> Pointers]
    BY <1>1, <1>2 DEF TypeOK, Locations, Pointers
  <2> QED
    BY <1>2, <2>1, <2>2 DEF TypeOK
<1>4. ListIntact'
  BY <1>2 DEF IInv, ListIntact
<1>5. Exclusive'
  <2>1. \A u \in Threads : held'[u] = IF u = t THEN held[t] \union {c} ELSE held[u]
    BY <1>1, <1>2 DEF TypeOK
  <2> QED
    BY <1>1, <1>2, <2>1 DEF IInv, Exclusive
<1>6. SnapshotOK(t)'
  BY <1>2 DEF SnapshotOK, TypeOK
<1>7. ASSUME NEW u \in Threads \ {t} PROVE SnapshotOK(u)'
  <2>1. Local(u)' = Local(u) /\ held'[u] = held[u] /\ top.tag \in Nat /\ SnapshotOK(u)
    BY <1>1, <1>2 DEF TypeOK, Local, Tagged, IInv, Snapshots
  <2> QED
    BY <1>2, <2>1, OthersSnapshot
<1> QED
  BY <1>3, <1>4, <1>5, <1>6, <1>7 DEF IInv, Snapshots

\* A successful compare-and-swap of allocate() pops the first block of the
\* list and installs its present link.
LEMMA AllocCasStep == ASSUME IInv, NEW t \in Threads, AllocCas(t) PROVE IInv'
<1> DEFINE c == top.ptr
<1>1. /\ c # Null /\ link[t] = word[c] /\ top = old[t] /\ TypeOK
  BY Zenon DEF AllocCas, IInv, Snapshots, SnapshotOK
<1>2. /\ c \in Blocks /\ Occurs(c, free) /\ free' \in Seq(Blocks)
      /\ IsList(word[c], word, free')
      /\ \A b : Occurs(b, free') <=> Occurs(b, free) /\ b # c
  BY <1>1, PopList, Zenon DEF AllocCas, IInv, TypeOK, ListIntact
<1>3. word[c] \in Pointers
  <2>1. free' = <<>> \/ free'[1] \in Blocks
    BY <1>2, EmptySeq, ElementOfSeq
  <2> QED
    BY <1>2, <2>1 DEF IsList, Pointers
<1>4. /\ top'.ptr = word[c] /\ top'.tag = top.tag + 1 /\ top' \in Tagged
      /\ top.tag \in Nat
  <2>1. top.tag \in 0..TagCount-1 /\ top.tag + 1 < TagCount
        /\ top' = [ptr |-> word[c], tag |-> (top.tag + 1) % TagCount]
    BY <1>1 DEF AllocCas, NextTag, NoWrap, TypeOK, Tagged
  <2>2. (top.tag + 1) % TagCount = top.tag + 1
    BY <2>1, NodeAllocatorAssumption, Z3
  <2> QED
    BY <1>3, <2>1, <2>2, NodeAllocatorAssumption DEF Tagged
<1>5. /\ UNCHANGED <<heap, word, old, link>> /\ apc' = [apc EXCEPT ![t] = "idle"]
      /\ block' = [block EXCEPT ![t] = c] /\ held' = [held EXCEPT ![t] = @ \union {c}]
  BY <1>1, Zenon DEF AllocCas, Goto
<1> HIDE DEF c
<1>6. TypeOK'
  <2>1. apc' \in [Threads -> Locations] /\ block' \in [Threads -> Pointers]
    BY <1>1, <1>2, <1>5 DEF TypeOK, Locations, Pointers
  <2>2. held' \in [Threads -> SUBSET Blocks]
    BY <1>1, <1>2, <1>5 DEF TypeOK
  <2> QED
    BY <1>1, <1>2, <1>4, <1>5, <2>1, <2>2 DEF TypeOK
<1>7. ListIntact'
  BY <1>2, <1>4, <1>5 DEF ListIntact
<1>8. Exclusive'
  <2>1. \A u \in Threads : held'[u] = IF u = t THEN held[t] \union {c} ELSE held[u]
    BY <1>1, <1>5, Zenon DEF TypeOK
  <2> QED
    BY <1>2, <1>5, <2>1 DEF IInv, Exclusive
<1>9. SnapshotOK(t)'
  BY <1>1, <1>5, Zenon DEF SnapshotOK, TypeOK
<1>10. ASSUME NEW u \in Threads \ {t} PROVE SnapshotOK(u)'
  <2>1. Local(u)' = Local(u) /\ held'[u] = held[u] /\ SnapshotOK(u)
    BY <1>1, <1>5 DEF TypeOK, Local, IInv, Snapshots
  <2>2. top'.tag \in Nat /\ top.tag <= top'.tag /\ top'.tag # top.tag
    BY <1>4
  <2> QED
    BY <1>1, <1>5, <2>1, <2>2, OthersSnapshot, Zenon
<1> QED
  BY <1>6, <1>7, <1>8, <1>9, <1>10, Zenon DEF IInv, Snapshots

\* A successful compare-and-swap of deallocate() pushes the block.
LEMMA DeallocCasStep == ASSUME IInv, NEW t \in Threads, DeallocCas(t) PROVE IInv'
<1> DEFINE c == block[t]
<1>1. /\ TypeOK /\ c \in held[t] /\ c \in Blocks /\ word[c] = top.ptr
      /\ ~Occurs(c, free) /\ c \notin heap /\ \A u \in Threads \ {t} : c \notin held[u]
  BY Zenon DEF DeallocCas, IInv, TypeOK, Snapshots, SnapshotOK, Exclusive
<1>2. /\ free' \in Seq(Blocks) /\ IsList(c, word, free')
      /\ \A b : Occurs(b, free') <=> Occurs(b, free) \/ b = c
  BY <1>1, PushList DEF DeallocCas, IInv, TypeOK, ListIntact
<1>3. /\ UNCHANGED <<heap, word, old, link, block>> /\ apc' = [apc EXCEPT ![t] = "idle"]
      /\ held' = [held EXCEPT ![t] = @ \ {c}]
      /\ top' = [ptr |-> c, tag |-> top.tag]
  BY DEF DeallocCas, Goto
<1> HIDE DEF c
<1>4. top' \in Tagged /\ top'.ptr = c /\ top'.tag = top.tag /\ top.tag \in Nat
  BY <1>1, <1>3 DEF TypeOK, Tagged, Pointers
<1>5. TypeOK'
  <2>1. apc' \in [Threads -> Locations]
    BY <1>1, <1>3 DEF TypeOK, Locations
  <2>2. held' \in [Threads -> SUBSET Blocks]
    BY <1>1, <1>3 DEF TypeOK
  <2> QED
    BY <1>1, <1>2, <1>3, <1>4, <2>1, <2>2 DEF TypeOK
<1>6. ListIntact'
  BY <1>2, <1>3, <1>4, Zenon DEF ListIntact
<1>7. Exclusive'
  <2>1. \A u \in Threads : held'[u] = IF u = t THEN held[t] \ {c} ELSE held[u]
    BY <1>1, <1>3 DEF TypeOK
  <2> QED
    BY <1>1, <1>2, <1>3, <2>1 DEF IInv, Exclusive
<1>8. SnapshotOK(t)'
  BY <1>1, <1>3, Zenon DEF SnapshotOK, TypeOK
<1>9. ASSUME NEW u \in Threads \ {t} PROVE SnapshotOK(u)'
  <2>1. Local(u)' = Local(u) /\ held'[u] = held[u] /\ SnapshotOK(u)
    BY <1>1, <1>3 DEF TypeOK, Local, IInv, Snapshots
  <2>2. top'.tag \in Nat /\ top.tag <= top'.tag
    BY <1>4
  <2>3. \A b \in Blocks : Occurs(b, free) => Occurs(b, free') /\ word'[b] = word[b]
    BY <1>2, <1>3
  <2>4. \A b \in held[u] : word'[b] = word[b]
    BY <1>3
  <2> QED
    BY <1>1, <2>1, <2>2, <2>3, <2>4, OthersSnapshot, Zenon
<1> QED
  BY <1>5, <1>6, <1>7, <1>8, <1>9 DEF IInv, Snapshots

\* The destructor starts.
LEMMA CloseStep == ASSUME IInv, Close PROVE IInv'
<1>1. /\ UNCHANGED <<heap, top, word, held, old, link, block, free>>
      /\ apc' = [t \in Threads |-> "closed"] /\ \A t \in Threads : held[t] = {}
  BY DEF Close
<1>2. TypeOK'
  BY <1>1, Zenon DEF IInv, TypeOK, Locations
<1>3. ListIntact'
  BY <1>1 DEF IInv, ListIntact
<1>4. Exclusive'
  BY <1>1 DEF IInv, Exclusive
<1>5. Snapshots'
  BY <1>1 DEF Snapshots, SnapshotOK
<1> QED
  BY <1>2, <1>3, <1>4, <1>5 DEF IInv

\* One block goes back to the underlying allocator.
LEMMA DestroyBlockStep == ASSUME IInv, DestroyBlock PROVE IInv'
<1> DEFINE c == top.ptr
<1>1. /\ c # Null /\ TypeOK /\ \A t \in Threads : apc[t] = "closed"
      /\ UNCHANGED <<word, held, apc, old, link, block>>
      /\ heap' = heap \union {c} /\ top' = [ptr |-> word[c], tag |-> NextTag(top)]
  BY Zenon DEF DestroyBlock, IInv
<1>2. /\ c \in Blocks /\ Occurs(c, free) /\ free' \in Seq(Blocks)
      /\ IsList(word[c], word, free')
      /\ \A b : Occurs(b, free') <=> Occurs(b, free) /\ b # c
  BY <1>1, PopList DEF DestroyBlock, IInv, TypeOK, ListIntact
<1> HIDE DEF c
<1>3. word[c] \in Pointers
  <2>1. free' = <<>> \/ free'[1] \in Blocks
    BY <1>2, EmptySeq, ElementOfSeq
  <2> QED
    BY <1>2, <2>1 DEF IsList, Pointers
<1>4. NextTag(top) \in 0..TagCount-1
  <2>1. top.tag \in 0..TagCount-1
    BY <1>1 DEF TypeOK, Tagged
  <2> QED
    BY <2>1, NodeAllocatorAssumption, Z3 DEF NextTag
<1>5. TypeOK'
  <2>1. top' \in Tagged
    BY <1>1, <1>3, <1>4 DEF Tagged
  <2> QED
    BY <1>1, <1>2, <2>1 DEF TypeOK
<1>6. ListIntact'
  BY <1>1, <1>2, Zenon DEF ListIntact
<1>7. \A t \in Threads : held[t] = {}
  BY <1>1, Zenon DEF IInv, Snapshots, SnapshotOK
<1>8. Exclusive'
  BY <1>1, <1>2, <1>7, Zenon DEF IInv, Exclusive
<1>9. Snapshots'
  BY <1>1, <1>7 DEF Snapshots, SnapshotOK
<1> QED
  BY <1>5, <1>6, <1>8, <1>9 DEF IInv

\* The constructor establishes the invariant.
LEMMA InitInv == Init => IInv
<1> SUFFICES ASSUME Init PROVE IInv
  OBVIOUS
<1>1. free \in Seq(Blocks)
  <2>1. free \in [1..Initial -> Blocks] /\ Initial \in Nat
    BY NodeAllocatorAssumption DEF Init
  <2> QED
    BY <2>1, SeqDef
<1>2. top \in Tagged
  <2>1. top.ptr \in Pointers
    BY NodeAllocatorAssumption DEF Init, Pointers
  <2>2. 0 \in 0..TagCount-1
    BY NodeAllocatorAssumption
  <2> QED
    BY <2>1, <2>2 DEF Init, Tagged
<1>3. TypeOK
  <2>1. [ptr |-> Null, tag |-> 0] \in Tagged
    BY NodeAllocatorAssumption DEF Tagged, Pointers
  <2> QED
    BY <1>1, <1>2, <2>1 DEF Init, TypeOK, Words, Pointers, Locations
<1>4. ListIntact
  BY DEF Init, ListIntact
<1>5. Exclusive
  BY DEF Init, Exclusive
<1>6. Snapshots
  BY DEF Init, Snapshots, SnapshotOK
<1> QED
  BY <1>3, <1>4, <1>5, <1>6 DEF IInv

\* The invariant is inductive.
LEMMA Inductive == Spec => []IInv
<1>1. ASSUME IInv, Next PROVE IInv'
  <2>1. ASSUME NEW t \in Threads, Step(t) PROVE IInv'
    BY <1>1, <2>1, AllocLoadStep, AllocFreshStep, AllocThrowsStep,
       AllocReadLinkStep, AllocCasStep, AllocCasFailsStep, DeallocLoadStep,
       DeallocLinkStep, DeallocCasStep, DeallocCasFailsStep DEF Step
  <2> QED
    BY <1>1, <2>1, AllocateStep, DeallocateStep, WriteOwnStep, CloseStep,
       DestroyBlockStep DEF Next
<1>2. ASSUME IInv, UNCHANGED vars PROVE IInv'
  <2>1. TypeOK' /\ ListIntact' /\ Exclusive'
    BY <1>2, Zenon DEF vars, IInv, TypeOK, ListIntact, Exclusive
  <2>2. Snapshots'
    BY <1>2 DEF vars, IInv, Snapshots, SnapshotOK
  <2> QED
    BY <2>1, <2>2 DEF IInv
<1> QED
  BY <1>1, <1>2, InitInv, PTL DEF Spec

\* The head of the list is always null or a block, never what an owner wrote.
THEOREM TypeCorrect == Spec => []TypeOK
BY Inductive, PTL DEF IInv

\* The links in memory always form the list of the free blocks.
THEOREM ListCorrect == Spec => []ListIntact
BY Inductive, PTL DEF IInv

\* allocate() never hands out a block that is still in use, and deallocate()
\* never loses one.
THEOREM NoDoubleAllocation == Spec => []Exclusive
BY Inductive, PTL DEF IInv

\* A compare-and-swap of allocate() that succeeds uses a link that is current,
\* however long the thread was suspended between its load and the swap.
THEOREM AbaSafety == Spec => []AbaSafe
<1>1. IInv => AbaSafe
  BY DEF IInv, AbaSafe, Snapshots, SnapshotOK
<1> QED
  BY Inductive, <1>1, PTL

\* The destructor returns every block it ever obtained.
THEOREM DestructorComplete == Spec => []NothingLeaked
<1>1. IInv => NothingLeaked
  <2> SUFFICES ASSUME IInv, \A t \in Threads : apc[t] = "closed", top.ptr = Null
               PROVE  heap = Blocks
    BY DEF NothingLeaked
  <2>1. \A b \in Blocks : ~Occurs(b, free)
    <3>1. free = <<>>
      <4>1. free \in Seq(Blocks) /\ (free # <<>> => free[1] = Null)
        BY DEF IInv, TypeOK, ListIntact, IsList
      <4>2. free # <<>> => free[1] \in Blocks
        BY <4>1, EmptySeq, ElementOfSeq
      <4> QED
        BY <4>1, <4>2, NodeAllocatorAssumption
    <3> QED
      BY <3>1 DEF Occurs
  <2>2. \A t \in Threads : held[t] = {}
    BY DEF IInv, Snapshots, SnapshotOK
  <2> QED
    BY <2>1, <2>2, Zenon DEF IInv, Exclusive, TypeOK
<1> QED
  BY Inductive, <1>1, PTL
=============================================================================
