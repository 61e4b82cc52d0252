--------------------------- MODULE SharedPtrProofs ---------------------------
(***************************************************************************)
(* Proofs about shared_ptr and weak_ptr for any number of threads, pointers*)
(* and control blocks.                                                     *)
(*                                                                         *)
(* The inductive invariant Inv accounts for both counters of a block, also *)
(* in the middle of calls.  The strong counter is the number of owners     *)
(* whose decrement is still to come: pointers, children of objects, and    *)
(* children that a destructor is about to release.  The weak counter is the*)
(* number of weak pointers whose decrement is to come, of Unfollow calls   *)
(* that follow a destructor, and one more while the object is there.       *)
(***************************************************************************)
EXTENDS SharedPtr, FiniteSetTheorems, TLAPS

Jobs == [op : {"release", "destroy", "unfollow"}, block : Counters]

TypeOK ==
  /\ crew \subseteq PtrThreads
  /\ val \in [SmartPointers -> Counters \union {NoCounter}]
  /\ state \in [Counters -> {"free", "live", "dead"}]
  /\ strong \in [Counters -> Int]
  /\ weak \in [Counters -> Int]
  /\ child \in [Counters -> Counters \union {NoCounter}]
  /\ pc \in [PtrThreads -> {"idle", "copy", "move", "reset", "acquire"}]
  /\ dst \in [PtrThreads -> SmartPointers \union {NoCounter}]
  /\ src \in [PtrThreads -> SmartPointers \union Counters \union {NoCounter}]
  /\ todo \in [PtrThreads -> Seq(Jobs)]

\* What a thread in the middle of a call may rely on.
OperandsOK(t) ==
  /\ t \in crew /\ dst[t] \in SmartPointers
  /\ pc[t] = "copy" => src[t] # dst[t] /\ (dst[t] \in Shared => src[t] \in Shared \union Counters)
  /\ pc[t] = "copy" => src[t] \in SmartPointers \union Counters
  /\ pc[t] = "move" => src[t] \in SmartPointers \ {dst[t]} /\ (dst[t] \in Shared <=> src[t] \in Shared)
  /\ pc[t] = "reset" => src[t] = dst[t]
  /\ pc[t] = "acquire" => /\ dst[t] \in Shared /\ val[dst[t]] = NoCounter
                          /\ src[t] \in Weak /\ val[src[t]] # NoCounter /\ strong[val[src[t]]] > 0
                          /\ crew = {t}
  /\ src[t] \in Counters => crew = {t} /\ \E q \in Shared \ {dst[t]} : val[q] = src[t]
CallsOK == \A t \in PtrThreads : pc[t] # "idle" => OperandsOK(t)

\* The contract of the pointers is kept.
ContractOK ==
  \A t, u \in PtrThreads : t # u /\ pc[t] # "idle" /\ pc[u] # "idle" =>
    /\ dst[t] \notin {dst[u], src[u]}
    /\ pc[t] = "move" => src[t] \notin {dst[u], src[u]}

\* The releases in progress: Unfollow calls wait for what comes before them.
\* Only a pointer's own decrement is the last thing to do and a Release.
TodoOK ==
  \A t \in PtrThreads :
    /\ pc[t] \in {"idle", "acquire"} => todo[t] = <<>>
    /\ todo[t] # <<>> => val[dst[t]] # NoCounter
    /\ dst[t] \in Weak => todo[t] = <<>> \/ todo[t] = Decref(dst[t])
    /\ \A i \in 2..Len(todo[t]) : todo[t][i].op = "unfollow"
    /\ Len(todo[t]) = 1 /\ todo[t][1].op = "release" => todo[t] = Decref(dst[t])

Watchers(b) == {p \in Weak : val[p] = b /\ ~Leaving(p)}
Children(b) == {c \in Counters : child[c] = b}

\* The places of the Unfollow calls of b in s, counted from the end.
Places(s, b) == {j \in 1..Len(s) : s[Len(s) + 1 - j] = Job("unfollow", b)}
Pending(b) == {x \in PtrThreads \X Nat : dst[x[1]] \notin Weak /\ x[2] \in Places(todo[x[1]], b)}

StrongOK ==
  \A b \in Counters :
    strong[b] = Cardinality(Owners(b)) + Cardinality(Children(b)) + Cardinality(Orphans(b))

WeakOK ==
  \A b \in Counters :
    /\ IsFiniteSet(Pending(b))
    /\ weak[b] = Cardinality(Watchers(b)) + Cardinality(Pending(b)) + (IF state[b] = "live" THEN 1 ELSE 0)

\* The object is there until its last owner has destroyed it, the block until
\* its weak counter is zero.
Destroying(t, b) == todo[t] # <<>> /\ Head(todo[t]) = Job("destroy", b)
StateOK ==
  \A b \in Counters :
    /\ state[b] = "live" <=> (strong[b] > 0 \/ \E t \in PtrThreads : Destroying(t, b))
    /\ \A t, u \in PtrThreads : Destroying(t, b) /\ Destroying(u, b) => t = u
    /\ \A t \in PtrThreads : Destroying(t, b) => strong[b] = 0
    /\ state[b] = "free" <=> weak[b] = 0
    /\ child[b] # NoCounter => state[b] = "live"

Inv == TypeOK /\ CallsOK /\ ContractOK /\ TodoOK /\ StrongOK /\ WeakOK /\ StateOK

-----------------------------------------------------------------------------
(***************************************************************************)
(* Sets that change by one element, and sequences of releases              *)
(***************************************************************************)

\* One element more.
LEMMA CardAdd ==
  ASSUME NEW S, IsFiniteSet(S), NEW x, x \notin S
  PROVE  /\ IsFiniteSet(S \union {x}) /\ Cardinality(S \union {x}) = Cardinality(S) + 1
         /\ Cardinality(S) \in Nat
BY FS_AddElement, FS_CardinalityType, Zenon

\* One element less.
LEMMA CardRemove ==
  ASSUME NEW S, IsFiniteSet(S), NEW x \in S
  PROVE  /\ IsFiniteSet(S \ {x}) /\ Cardinality(S \ {x}) = Cardinality(S) - 1
         /\ Cardinality(S) \in Nat /\ Cardinality(S) >= 1
<1>1. IsFiniteSet(S \ {x}) /\ Cardinality(S \ {x}) = Cardinality(S) - 1
  BY FS_RemoveElement, Zenon
<1>2. Cardinality(S) \in Nat /\ Cardinality(S \ {x}) \in Nat
  BY <1>1, FS_CardinalityType, Zenon
<1> QED
  BY <1>1, <1>2

\* The counted sets are finite.
LEMMA Finite ==
  ASSUME SharedPtrAssumption, NEW b
  PROVE  /\ IsFiniteSet(Owners(b)) /\ IsFiniteSet(Watchers(b))
         /\ IsFiniteSet(Children(b)) /\ IsFiniteSet(Orphans(b))
         /\ Cardinality(Owners(b)) \in Nat /\ Cardinality(Watchers(b)) \in Nat
         /\ Cardinality(Children(b)) \in Nat /\ Cardinality(Orphans(b)) \in Nat
<1>1. /\ Owners(b) \subseteq SmartPointers /\ Watchers(b) \subseteq SmartPointers
      /\ Children(b) \subseteq Counters /\ Orphans(b) \subseteq PtrThreads
  BY Zenon DEF Owners, Watchers, Children, Orphans, SmartPointers
<1>2. /\ IsFiniteSet(Owners(b)) /\ IsFiniteSet(Watchers(b))
      /\ IsFiniteSet(Children(b)) /\ IsFiniteSet(Orphans(b))
  BY <1>1, FS_Subset, Zenon DEF SharedPtrAssumption
<1> QED
  BY <1>2, FS_CardinalityType, Zenon

\* A job of a release: what is to be done, and to which block.
LEMMA JobType ==
  ASSUME NEW x \in {"release", "destroy", "unfollow"}, NEW b \in Counters
  PROVE  /\ Job(x, b) \in Jobs /\ Job(x, b).op = x /\ Job(x, b).block = b
BY Zenon DEF Job, Jobs

\* A release is done, or one is begun.
LEMMA SeqTail ==
  ASSUME NEW s \in Seq(Jobs), s # <<>>
  PROVE  /\ Tail(s) \in Seq(Jobs) /\ Len(Tail(s)) = Len(s) - 1 /\ Len(s) \in Nat /\ Len(s) >= 1
         /\ Len(s) = 1 \/ Len(s) > 1
         /\ Head(s) = s[1] /\ Head(s) \in Jobs
         /\ \A i \in 1..Len(Tail(s)) : Tail(s)[i] = s[i + 1]
         /\ <<>> \o Tail(s) = Tail(s)
<1>1. /\ Tail(s) \in Seq(Jobs) /\ Len(Tail(s)) = Len(s) - 1 /\ Len(s) \in Nat /\ Len(s) >= 1
      /\ Head(s) = s[1] /\ Head(s) \in Jobs
      /\ \A i \in 1..Len(Tail(s)) : Tail(s)[i] = s[i + 1]
      /\ <<>> \o Tail(s) = Tail(s)
  OBVIOUS
<1>2. \A n \in Nat : n >= 1 => n = 1 \/ n > 1
  OBVIOUS
<1> QED
  BY <1>1, <1>2, Zenon

\* A job is put in front of the others.
LEMMA SeqPush ==
  ASSUME NEW s \in Seq(Jobs), NEW j \in Jobs
  PROVE  /\ <<j>> \o s \in Seq(Jobs) /\ Len(<<j>> \o s) = Len(s) + 1 /\ Len(s) \in Nat
         /\ <<j>> \o s # <<>> /\ Head(<<j>> \o s) = j
         /\ (<<j>> \o s)[1] = j /\ \A i \in 1..Len(s) : (<<j>> \o s)[i + 1] = s[i]
OBVIOUS

\* Doing the first job removes the last place, if it was an unfollow.
LEMMA PlacesTail ==
  ASSUME NEW s \in Seq(Jobs), s # <<>>, NEW b
  PROVE  /\ Places(Tail(s), b) = Places(s, b) \ {Len(s)}
         /\ Len(s) \in Places(s, b) <=> Head(s) = Job("unfollow", b)
<1> DEFINE r == Tail(s)
<1>1. /\ r \in Seq(Jobs) /\ Len(r) = Len(s) - 1 /\ Len(s) \in Nat /\ Len(s) >= 1
      /\ Head(s) = s[1]
      /\ \A i \in 1..Len(r) : r[i] = s[i + 1]
  BY SeqTail, Zenon
<1> HIDE DEF r
<1>2. \A j \in 1..Len(r) : r[Len(r) + 1 - j] = s[Len(s) + 1 - j]
  BY <1>1
<1>3. Places(r, b) = Places(s, b) \ {Len(s)}
  BY <1>1, <1>2 DEF Places
<1>4. Len(s) \in Places(s, b) <=> Head(s) = Job("unfollow", b)
  BY <1>1 DEF Places
<1> QED
  BY <1>3, <1>4, Zenon DEF r

\* Pushing a job adds a place, if it is an unfollow.
LEMMA PlacesPush ==
  ASSUME NEW s \in Seq(Jobs), NEW j \in Jobs, NEW b
  PROVE  /\ j = Job("unfollow", b) => Places(<<j>> \o s, b) = Places(s, b) \union {Len(s) + 1}
         /\ j # Job("unfollow", b) => Places(<<j>> \o s, b) = Places(s, b)
         /\ Len(s) + 1 \notin Places(s, b)
<1> DEFINE r == <<j>> \o s
<1>1. /\ Len(r) = Len(s) + 1 /\ Len(s) \in Nat
      /\ r[1] = j /\ \A i \in 1..Len(s) : r[i + 1] = s[i]
  BY SeqPush, Zenon
<1> HIDE DEF r
<1>2. \A i \in 1..Len(s) : r[Len(r) + 1 - i] = s[Len(s) + 1 - i]
  <2> SUFFICES ASSUME NEW i \in 1..Len(s)
               PROVE  r[Len(r) + 1 - i] = s[Len(s) + 1 - i]
    BY Zenon
  <2>1. Len(s) + 1 - i \in 1..Len(s) /\ Len(r) + 1 - i = (Len(s) + 1 - i) + 1
    BY <1>1
  <2> QED
    BY <1>1, <2>1, Zenon
<1>3. r[Len(r) + 1 - (Len(s) + 1)] = j
  BY <1>1
<1>4. 1..Len(r) = (1..Len(s)) \union {Len(s) + 1} /\ Len(s) + 1 \notin 1..Len(s)
  BY <1>1
<1>5. \A i \in 1..Len(s) : i \in Places(r, b) <=> i \in Places(s, b)
  BY <1>2, <1>4, Zenon DEF Places
<1>6. Len(s) + 1 \in Places(r, b) <=> j = Job("unfollow", b)
  BY <1>3, <1>4, Zenon DEF Places
<1>7. Places(r, b) \subseteq 1..Len(r) /\ Places(s, b) \subseteq 1..Len(s)
  BY Zenon DEF Places
<1>8. /\ j = Job("unfollow", b) => Places(r, b) = Places(s, b) \union {Len(s) + 1}
      /\ j # Job("unfollow", b) => Places(r, b) = Places(s, b)
      /\ Len(s) + 1 \notin Places(s, b)
  BY <1>4, <1>5, <1>6, <1>7, Zenon
<1> QED
  BY <1>8, Zenon DEF r

-----------------------------------------------------------------------------
(***************************************************************************)
(* Releases in progress                                                    *)
(***************************************************************************)

\* Two sets of pending unfollows are equal if they have the same members.
LEMMA PendingEqual ==
  ASSUME NEW b, \A u \in PtrThreads, j \in Nat : <<u, j>> \in Pending(b)' <=> <<u, j>> \in Pending(b)
  PROVE  Pending(b)' = Pending(b)
<1>1. Pending(b) \subseteq PtrThreads \X Nat /\ Pending(b)' \subseteq PtrThreads \X Nat
  BY Zenon DEF Pending
<1> QED
  BY <1>1

\* A thread goes on with its releases: what this does to the sets.
LEMMA JobStep ==
  ASSUME SharedPtrAssumption, TypeOK, CallsOK, ContractOK, TodoOK, NEW t \in PtrThreads, todo[t] # <<>>,
         NEW s \in Seq(Jobs), todo' = [todo EXCEPT ![t] = s], UNCHANGED <<val, pc, dst>>
  PROVE  /\ pc[t] \in {"copy", "move", "reset"} /\ dst[t] \in SmartPointers /\ val[dst[t]] \in Counters
         /\ Leaving(dst[t]) <=> todo[t] # Decref(dst[t])
         /\ Leaving(dst[t])' <=> s # Decref(dst[t])
         /\ \A p \in SmartPointers \ {dst[t]} : Leaving(p)' <=> Leaving(p)
         /\ todo'[t] = s /\ \A u \in PtrThreads \ {t} : todo'[u] = todo[u]
         /\ \A b : Orphans(b)' = (Orphans(b) \ {t}) \union
                                 (IF Len(s) > 1 /\ Head(s) = Job("release", b) THEN {t} ELSE {})
<1>1. /\ pc[t] \in {"copy", "move", "reset"} /\ dst[t] \in SmartPointers /\ val[dst[t]] \in Counters
  BY DEF TypeOK, CallsOK, OperandsOK, TodoOK
<1>2. todo'[t] = s /\ \A u \in PtrThreads \ {t} : todo'[u] = todo[u]
  BY Zenon DEF TypeOK
<1>3. \A p : Decref(p)' = Decref(p)
  BY Zenon DEF Decref
<1>4. \A u \in PtrThreads \ {t} : pc[u] \in {"copy", "move", "reset"} => dst[u] # dst[t]
  BY <1>1, Zenon DEF ContractOK
<1>5. /\ Leaving(dst[t]) <=> todo[t] # Decref(dst[t])
      /\ Leaving(dst[t])' <=> s # Decref(dst[t])
  BY <1>1, <1>2, <1>3, <1>4, Zenon DEF Leaving
<1>6. \A p \in SmartPointers \ {dst[t]} : Leaving(p)' <=> Leaving(p)
  BY <1>2, <1>3, Zenon DEF Leaving
<1>7. \A b : Orphans(b)' = (Orphans(b) \ {t}) \union
                           (IF Len(s) > 1 /\ Head(s) = Job("release", b) THEN {t} ELSE {})
  BY <1>2, Zenon DEF Orphans
<1> QED
  BY <1>1, <1>2, <1>5, <1>6, <1>7, Zenon

\* The rest of the releases of t, and what t begins before it.
LEMMA PendingTail ==
  ASSUME TypeOK, NEW t \in PtrThreads, todo[t] # <<>>, dst[t] \notin Weak,
         todo' = [todo EXCEPT ![t] = Tail(todo[t])], UNCHANGED dst, NEW b
  PROVE  /\ Pending(b)' = Pending(b) \ {<<t, Len(todo[t])>>}
         /\ <<t, Len(todo[t])>> \in Pending(b) <=> Head(todo[t]) = Job("unfollow", b)
<1> DEFINE n == Len(todo[t])
<1>1. /\ n \in Nat /\ Places(Tail(todo[t]), b) = Places(todo[t], b) \ {n}
      /\ n \in Places(todo[t], b) <=> Head(todo[t]) = Job("unfollow", b)
  BY SeqTail, PlacesTail, Zenon DEF TypeOK
<1>2. /\ todo'[t] = Tail(todo[t]) /\ \A u \in PtrThreads \ {t} : todo'[u] = todo[u]
  BY Zenon DEF TypeOK
<1> HIDE DEF n
<1>3. \A u \in PtrThreads, j \in Nat : <<u, j>> \in Pending(b)' <=> <<u, j>> \in Pending(b) /\ <<u, j>> # <<t, n>>
  BY <1>1, <1>2, Zenon DEF Pending
<1>4. Pending(b)' = Pending(b) \ {<<t, n>>}
  <2>1. Pending(b) \subseteq PtrThreads \X Nat /\ Pending(b)' \subseteq PtrThreads \X Nat
    BY Zenon DEF Pending
  <2> QED
    BY <1>3, <2>1
<1>5. <<t, n>> \in Pending(b) <=> Head(todo[t]) = Job("unfollow", b)
  BY <1>1, Zenon DEF Pending
<1> QED
  BY <1>4, <1>5, Zenon DEF n

\* A step that pushes or does no unfollow of b leaves those that pend.
LEMMA PendingSame ==
  ASSUME TypeOK, NEW t \in PtrThreads, NEW s, todo' = [todo EXCEPT ![t] = s], UNCHANGED dst, NEW b,
         dst[t] \in Weak \/ Places(s, b) = Places(todo[t], b)
  PROVE  Pending(b)' = Pending(b)
<1>1. todo'[t] = s /\ \A u \in PtrThreads \ {t} : todo'[u] = todo[u]
  BY Zenon DEF TypeOK
<1>2. \A u \in PtrThreads, j \in Nat : <<u, j>> \in Pending(b)' <=> <<u, j>> \in Pending(b)
  BY <1>1, Zenon DEF Pending
<1>3. Pending(b) \subseteq PtrThreads \X Nat /\ Pending(b)' \subseteq PtrThreads \X Nat
  BY Zenon DEF Pending
<1> QED
  BY <1>2, <1>3

\* A step that pushes an unfollow of b adds one.
LEMMA PendingAdd ==
  ASSUME TypeOK, NEW t \in PtrThreads, NEW s, todo' = [todo EXCEPT ![t] = s], UNCHANGED dst, NEW b,
         dst[t] \notin Weak, NEW n \in Nat, n \notin Places(todo[t], b),
         Places(s, b) = Places(todo[t], b) \union {n}
  PROVE  /\ Pending(b)' = Pending(b) \union {<<t, n>>}
         /\ <<t, n>> \notin Pending(b)
<1>1. todo'[t] = s /\ \A u \in PtrThreads \ {t} : todo'[u] = todo[u]
  BY Zenon DEF TypeOK
<1>2. \A u \in PtrThreads, j \in Nat : <<u, j>> \in Pending(b)' <=> <<u, j>> \in Pending(b) \/ <<u, j>> = <<t, n>>
  BY <1>1 DEF Pending
<1>3. Pending(b) \subseteq PtrThreads \X Nat /\ Pending(b)' \subseteq PtrThreads \X Nat
  BY Zenon DEF Pending
<1>4. <<t, n>> \notin Pending(b)
  BY Zenon DEF Pending
<1> QED
  BY <1>2, <1>3, <1>4

\* Nobody is between the two steps of lock() when a release is in progress.
LEMMA JobCalls ==
  ASSUME SharedPtrAssumption, TypeOK, CallsOK, ContractOK, TodoOK, NEW t \in PtrThreads, todo[t] # <<>>,
         UNCHANGED <<crew, val, pc, dst, src>>
  PROVE  CallsOK' /\ ContractOK'
<1>1. \A u \in PtrThreads : pc[u] # "acquire"
  <2>1. t \in crew
    BY Zenon DEF CallsOK, OperandsOK, TodoOK
  <2>2. \A u \in PtrThreads : pc[u] = "acquire" => crew = {u} /\ todo[u] = <<>>
    BY Zenon DEF CallsOK, OperandsOK, TodoOK
  <2> QED
    BY <2>1, <2>2, Zenon
<1>2. ContractOK'
  BY Zenon DEF ContractOK
<1>3. CallsOK'
  BY <1>1, Zenon DEF CallsOK, OperandsOK
<1> QED
  BY <1>2, <1>3, Zenon

\* The pointer that is being released, and its own decrement.
LEMMA OwnPointer ==
  ASSUME SharedPtrAssumption, TypeOK, CallsOK, TodoOK, NEW t \in PtrThreads, todo[t] # <<>>
  PROVE  /\ t \in crew /\ dst[t] \in SmartPointers /\ val[dst[t]] \in Counters
         /\ dst[t] \in Weak => /\ Decref(dst[t]) = <<Job("unfollow", val[dst[t]])>>
                               /\ todo[t] = <<Job("unfollow", val[dst[t]])>>
         /\ dst[t] \notin Weak => dst[t] \in Shared /\ Decref(dst[t]) = <<Job("release", val[dst[t]])>>
         /\ Head(todo[t]).op # "unfollow" => dst[t] \notin Weak
<1>1. t \in crew /\ dst[t] \in SmartPointers /\ val[dst[t]] \in Counters
  BY DEF CallsOK, OperandsOK, TodoOK, TypeOK
<1>2. dst[t] \in Weak => /\ Decref(dst[t]) = <<Job("unfollow", val[dst[t]])>>
                        /\ todo[t] = <<Job("unfollow", val[dst[t]])>>
  BY <1>1, Zenon DEF Decref, SharedPtrAssumption, TodoOK
<1>3. dst[t] \notin Weak => dst[t] \in Shared /\ Decref(dst[t]) = <<Job("release", val[dst[t]])>>
  BY <1>1, Zenon DEF Decref, SharedPtrAssumption, SmartPointers
<1>4. Head(<<Job("unfollow", val[dst[t]])>>).op = "unfollow"
  BY DEF Job
<1> QED
  BY <1>1, <1>2, <1>3, <1>4, Zenon

\* release(): the strong counter goes down, and the last owner has the object
\* to destroy and the block to unfollow.
LEMMA ReleaseInv ==
  ASSUME SharedPtrAssumption, Inv, UNCHANGED crew, NEW t \in PtrThreads, Release(t)
  PROVE  Inv'
<1> USE DEF Inv
<1>1. /\ todo[t] \in Seq(Jobs) /\ todo[t] # <<>> /\ Head(todo[t]).op = "release"
      /\ UNCHANGED <<val, state, weak, child, pc, dst, src>>
  BY Zenon DEF Release, Doing, TypeOK
<1>a. /\ Head(todo[t]) \in Jobs /\ Head(todo[t]).block \in Counters /\ Tail(todo[t]) \in Seq(Jobs)
      /\ <<>> \o Tail(todo[t]) = Tail(todo[t])
  BY <1>1, SeqTail, Zenon DEF Jobs
<1>b. PICK b0 \in Counters, p \in {dst[t]}, r \in Seq(Jobs) : b0 = Head(todo[t]).block /\ p = dst[t] /\ r = Tail(todo[t])
  BY <1>a, Zenon
<1> DEFINE last == strong[b0] = 1
<1>c. PICK s : s = IF last THEN <<Job("destroy", b0)>> \o r ELSE r
  BY Zenon
<1>2. /\ Head(todo[t]) = Job("release", b0) /\ Job("destroy", b0) \in Jobs
      /\ Len(r) = Len(todo[t]) - 1 /\ Len(todo[t]) \in Nat /\ Len(todo[t]) >= 1
      /\ Head(todo[t]) = todo[t][1]
      /\ \A i \in 1..Len(r) : r[i] = todo[t][i + 1]
  <2>1. Head(todo[t]) = Job("release", b0) /\ Job("destroy", b0) \in Jobs
    BY <1>1, <1>a, <1>b, Zenon DEF Jobs, Job
  <2> QED
    BY <1>1, <1>b, <2>1, SeqTail, Zenon
<1>3. /\ strong' = [strong EXCEPT ![b0] = strong[b0] - 1]
      /\ todo' = [todo EXCEPT ![t] = s] /\ s \in Seq(Jobs)
  <2>1. <<Job("destroy", b0)>> \o r \in Seq(Jobs)
    BY <1>2, SeqPush, Zenon
  <2>2. /\ strong' = [strong EXCEPT ![b0] = strong[b0] - 1]
        /\ todo' = [todo EXCEPT ![t] = (IF last THEN <<Job("destroy", b0)>> ELSE <<>>) \o r]
    BY <1>b, Zenon DEF Release
  <2> QED
    BY <1>a, <1>b, <1>c, <2>1, <2>2, Zenon
<1>4. \A b \in Counters : Places(s, b) = Places(todo[t], b)
  <2> TAKE b \in Counters
  <2>1. Job("unfollow", b) # Head(todo[t]) /\ Job("unfollow", b) # Job("destroy", b0)
    BY <1>2, JobType
  <2>2. Places(r, b) = Places(todo[t], b)
    <3>1. Places(r, b) = Places(todo[t], b) \ {Len(todo[t])} /\ Len(todo[t]) \notin Places(todo[t], b)
      BY <1>1, <2>1, <1>b, PlacesTail, Zenon
    <3> QED
      BY <3>1, Zenon
  <2>3. Places(<<Job("destroy", b0)>> \o r, b) = Places(r, b)
    <3> DEFINE j == Job("destroy", b0)
    <3>1. j \in Jobs /\ j # Job("unfollow", b)
      BY <1>2, <2>1, Zenon
    <3> HIDE DEF j
    <3>2. Places(<<j>> \o r, b) = Places(r, b)
      BY <1>2, <3>1, PlacesPush
    <3> QED
      BY <3>2, Zenon DEF j
  <2> QED
    BY <1>c, <2>2, <2>3, Zenon
<1>5. /\ \A i \in 2..Len(s) : s[i].op = "unfollow"
      /\ s # <<>> => Head(s).op # "release" /\ Head(s) = s[1] /\ Len(s) \in Nat
      /\ \A b : s # <<>> /\ Head(s) = Job("destroy", b) <=> last /\ b = b0
  <2>1. \A i \in 1..Len(r) : r[i].op = "unfollow"
    BY <1>2 DEF TodoOK
  <2>2. CASE last
    <3>1. /\ s = <<Job("destroy", b0)>> \o r /\ Len(s) = Len(r) + 1 /\ Len(r) \in Nat
          /\ s # <<>> /\ Head(s) = Job("destroy", b0)
          /\ s[1] = Job("destroy", b0) /\ \A i \in 1..Len(r) : s[i + 1] = r[i]
      BY <1>2, <1>c, <2>2, SeqPush, Zenon
    <3>2. \A i \in 2..Len(s) : i - 1 \in 1..Len(r) /\ s[i] = r[i - 1]
      BY <3>1
    <3> QED
      BY <1>2, <2>1, <2>2, <3>1, <3>2 DEF Job
  <2>3. CASE ~last
    <3>1. s = r
      BY <1>c, <2>3, Zenon
    <3>2. s # <<>> => Head(s) = r[1] /\ 1 \in 1..Len(r)
      BY <1>2, <3>1
    <3> QED
      BY <1>2, <2>1, <2>3, <3>1, <3>2 DEF Job
  <2> QED
    BY <2>2, <2>3, Zenon
<1>6. p \in Shared /\ p \notin Weak /\ val[p] \in Counters /\ Decref(p) = <<Job("release", val[p])>> /\ s # Decref(p)
  <2>1. p \in Shared /\ p \notin Weak /\ val[p] \in Counters /\ Decref(p) = <<Job("release", val[p])>>
    BY <1>1, <1>b, OwnPointer, Zenon
  <2>2. Head(<<Job("release", val[p])>>).op = "release" /\ <<Job("release", val[p])>> # <<>>
    BY DEF Job
  <2> QED
    BY <1>5, <2>1, <2>2, Zenon
<1>7. /\ Leaving(p) <=> todo[t] # Decref(p)
      /\ Leaving(p)' /\ \A q \in SmartPointers \ {p} : Leaving(q)' <=> Leaving(q)
      /\ todo'[t] = s /\ \A u \in PtrThreads \ {t} : todo'[u] = todo[u]
      /\ \A b : Orphans(b)' = Orphans(b) \ {t}
  <2>1. \A b : ~(Len(s) > 1 /\ Head(s) = Job("release", b))
    <3>1. Len(s) > 1 => s # <<>>
      BY <1>3
    <3> QED
      BY <1>5, <3>1 DEF Job
  <2>2. /\ Leaving(p) <=> todo[t] # Decref(p)
        /\ Leaving(p)' <=> s # Decref(p)
        /\ \A q \in SmartPointers \ {p} : Leaving(q)' <=> Leaving(q)
        /\ todo'[t] = s /\ \A u \in PtrThreads \ {t} : todo'[u] = todo[u]
        /\ \A b : Orphans(b)' = (Orphans(b) \ {t}) \union
                                (IF Len(s) > 1 /\ Head(s) = Job("release", b) THEN {t} ELSE {})
    BY <1>1, <1>3, <1>b, JobStep, Zenon
  <2> QED
    BY <1>6, <2>1, <2>2, Zenon
<1>8. /\ Len(todo[t]) = 1 => val[p] = b0 /\ ~Leaving(p)
      /\ Len(todo[t]) # 1 => Leaving(p)
      /\ Len(todo[t]) > 1 <=> t \in Orphans(b0)
      /\ \A b : t \in Orphans(b) => b = b0
  <2>1. Len(todo[t]) = 1 => todo[t] = Decref(p)
    BY <1>1, <1>2, <1>b, Zenon DEF TodoOK
  <2>2. Len(Decref(p)) = 1 /\ Head(Decref(p)) = Job("release", val[p])
    BY <1>6
  <2>3. todo[t] = Decref(p) => val[p] = b0
    BY <1>2, <1>6, <2>2, JobType
  <2>4. \A b : t \in Orphans(b) <=> Len(todo[t]) > 1 /\ b = b0
    BY <1>2 DEF Orphans, Job
  <2> QED
    BY <1>2, <1>7, <2>1, <2>2, <2>3, <2>4, Zenon
<1>9. /\ Len(todo[t]) = 1 => p \in Owners(b0) /\ Owners(b0)' = Owners(b0) \ {p} /\ Orphans(b0)' = Orphans(b0)
      /\ Len(todo[t]) > 1 => Owners(b0)' = Owners(b0) /\ t \in Orphans(b0) /\ Orphans(b0)' = Orphans(b0) \ {t}
      /\ \A b \in Counters \ {b0} : Owners(b)' = Owners(b) /\ Orphans(b)' = Orphans(b)
  <2>1. \A b : Orphans(b)' = Orphans(b) \ {t}
    BY <1>7, Zenon
  <2>2. \A q \in Shared \ {p} : Leaving(q)' <=> Leaving(q)
    BY <1>7, Zenon DEF SmartPointers
  <2>3. Len(todo[t]) = 1 => p \in Owners(b0) /\ Owners(b0)' = Owners(b0) \ {p}
    BY <1>1, <1>6, <1>7, <1>8, <2>2, Zenon DEF Owners
  <2>4. Len(todo[t]) > 1 => Owners(b0)' = Owners(b0)
    BY <1>1, <1>2, <1>7, <1>8, <2>2 DEF Owners
  <2>5. \A b \in Counters \ {b0} : Owners(b)' = Owners(b)
    BY <1>1, <1>2, <1>7, <1>8, <2>2, Zenon DEF Owners
  <2> QED
    BY <1>2, <1>8, <2>1, <2>3, <2>4, <2>5, ZenonT(60)
<1>10. /\ \A b \in Counters : Watchers(b)' = Watchers(b) /\ Children(b)' = Children(b) /\ Pending(b)' = Pending(b)
  <2>1. \A q \in Weak : Leaving(q)' <=> Leaving(q)
    BY <1>6, <1>7, Zenon DEF SmartPointers
  <2>2. \A b \in Counters : Watchers(b)' = Watchers(b) /\ Children(b)' = Children(b)
    BY <1>1, <2>1, Zenon DEF Watchers, Children
  <2>3. \A b \in Counters : Pending(b)' = Pending(b)
    BY <1>1, <1>3, <1>4, PendingSame, Zenon
  <2> QED
    BY <2>2, <2>3, Zenon
<1>11. StrongOK' /\ strong[b0] >= 1 /\ strong'[b0] = strong[b0] - 1 /\ \A b \in Counters \ {b0} : strong'[b] = strong[b]
  <2>1. strong'[b0] = strong[b0] - 1 /\ \A b \in Counters \ {b0} : strong'[b] = strong[b]
    BY <1>3, Zenon DEF TypeOK
  <2>2. \A b \in Counters \ {b0} : (strong[b] = Cardinality(Owners(b)) + Cardinality(Children(b)) + Cardinality(Orphans(b)))'
    BY <1>9, <1>10, <2>1, Zenon DEF StrongOK
  <2>3. strong[b0] = Cardinality(Owners(b0)) + Cardinality(Children(b0)) + Cardinality(Orphans(b0))
    BY <1>2, Zenon DEF StrongOK
  <2>4. /\ strong[b0] >= 1
        /\ strong'[b0] = Cardinality(Owners(b0)') + Cardinality(Children(b0)') + Cardinality(Orphans(b0)')
    <3>1. /\ IsFiniteSet(Owners(b0)) /\ IsFiniteSet(Orphans(b0)) /\ Cardinality(Children(b0)) \in Nat
          /\ Cardinality(Owners(b0)) \in Nat /\ Cardinality(Orphans(b0)) \in Nat
      BY Finite, Zenon
    <3>2. CASE Len(todo[t]) = 1
      <4>1. /\ Cardinality(Owners(b0) \ {p}) = Cardinality(Owners(b0)) - 1 /\ Cardinality(Owners(b0)) >= 1
        BY <1>9, <3>1, <3>2, CardRemove, Zenon
      <4>2. /\ Cardinality(Owners(b0)') = Cardinality(Owners(b0)) - 1
            /\ Cardinality(Orphans(b0)') = Cardinality(Orphans(b0))
            /\ Cardinality(Children(b0)') = Cardinality(Children(b0))
        BY <1>9, <1>10, <3>2, <4>1, Zenon
      <4> QED
        BY <2>1, <2>3, <3>1, <4>1, <4>2
    <3>3. CASE Len(todo[t]) > 1
      <4>1. /\ Cardinality(Orphans(b0) \ {t}) = Cardinality(Orphans(b0)) - 1 /\ Cardinality(Orphans(b0)) >= 1
        BY <1>9, <3>1, <3>3, CardRemove, Zenon
      <4>2. /\ Cardinality(Orphans(b0)') = Cardinality(Orphans(b0)) - 1
            /\ Cardinality(Owners(b0)') = Cardinality(Owners(b0))
            /\ Cardinality(Children(b0)') = Cardinality(Children(b0))
        BY <1>9, <1>10, <3>3, <4>1, Zenon
      <4> QED
        BY <2>1, <2>3, <3>1, <4>1, <4>2
    <3>4. Len(todo[t]) = 1 \/ Len(todo[t]) > 1
      BY <1>1, SeqTail, Zenon
    <3> QED
      BY <3>2, <3>3, <3>4, Zenon
  <2> QED
    BY <2>1, <2>2, <2>4, Zenon DEF StrongOK
<1>12. TypeOK'
  <2>1. strong' \in [Counters -> Int] /\ todo' \in [PtrThreads -> Seq(Jobs)]
    BY <1>3 DEF TypeOK
  <2> QED
    BY <1>1, <2>1, Zenon DEF TypeOK
<1>13. CallsOK' /\ ContractOK'
  BY <1>1, JobCalls, ZenonT(60)
<1>14. TodoOK'
  BY <1>1, <1>5, <1>6, <1>7, <1>b, SMTT(30) DEF TodoOK, Decref
<1>15. WeakOK'
  BY <1>1, <1>10, Zenon DEF WeakOK
<1>16. StateOK'
  <2>1. \A u \in PtrThreads \ {t} : \A b : Destroying(u, b)' <=> Destroying(u, b)
    BY <1>7, Zenon DEF Destroying
  <2>2. \A b : Destroying(t, b)' <=> last /\ b = b0
    BY <1>5, <1>7, Zenon DEF Destroying
  <2>3. \A b : ~Destroying(t, b)
    BY <1>2 DEF Destroying, Job
  <2>4. \A u \in PtrThreads : ~Destroying(u, b0)
    BY <1>2, <1>11 DEF StateOK
  <2>5. last <=> strong'[b0] = 0
    BY <1>2, <1>11 DEF TypeOK
  <2> HIDE DEF last
  <2>6. ASSUME NEW b \in Counters \ {b0}
        PROVE  /\ (state[b] = "live" <=> (strong[b] > 0 \/ \E u \in PtrThreads : Destroying(u, b)))'
               /\ \A u, v \in PtrThreads : (Destroying(u, b) /\ Destroying(v, b) => u = v)'
               /\ \A u \in PtrThreads : (Destroying(u, b) => strong[b] = 0)'
    <3>1. \A u \in PtrThreads : Destroying(u, b)' <=> Destroying(u, b)
      BY <2>1, <2>2, <2>3, Zenon
    <3>2. state'[b] = state[b] /\ strong'[b] = strong[b]
      BY <1>1, <1>11, Zenon
    <3> QED
      BY <3>1, <3>2, Zenon DEF StateOK
  <2>7. /\ (state[b0] = "live" <=> (strong[b0] > 0 \/ \E u \in PtrThreads : Destroying(u, b0)))'
        /\ \A u, v \in PtrThreads : (Destroying(u, b0) /\ Destroying(v, b0) => u = v)'
        /\ \A u \in PtrThreads : (Destroying(u, b0) => strong[b0] = 0)'
    <3>1. state[b0] = "live" /\ strong[b0] \in Int
      BY <1>2, <1>11 DEF StateOK, TypeOK
    <3> QED
      <4>1. \A u \in PtrThreads : Destroying(u, b0)' <=> last /\ u = t
        BY <2>1, <2>2, <2>4, Zenon
      <4>2. state'[b0] = "live" /\ (strong'[b0] > 0 <=> ~last)
        BY <1>1, <1>2, <1>11, <2>5, <3>1
      <4> QED
        BY <2>5, <4>1, <4>2, Zenon
  <2>8. \A b \in Counters : (state[b] = "free" <=> weak[b] = 0)' /\ (child[b] # NoCounter => state[b] = "live")'
    BY <1>1, Zenon DEF StateOK
  <2> QED
    BY <2>6, <2>7, <2>8, ZenonT(30) DEF StateOK
<1> QED
  BY <1>11, <1>12, <1>13, <1>14, <1>15, <1>16, ZenonT(60)

\* Two jobs in front of the others are pushed one by one.
LEMMA TwoJobs ==
  ASSUME NEW r \in Seq(Jobs), NEW x \in Jobs, NEW y \in Jobs
  PROVE  (<<x>> \o <<y>>) \o r = <<x>> \o (<<y>> \o r) /\ (<<>> \o <<y>>) \o r = <<y>> \o r
<1>1. <<x>> \in Seq(Jobs) /\ <<y>> \in Seq(Jobs)
  OBVIOUS
<1>2. (<<x>> \o <<y>>) \o r = <<x>> \o (<<y>> \o r)
  BY <1>1
<1> QED
  BY <1>2

\* The destructor of the object: a child that it owned is released with it.
LEMMA DestroyObjectInv ==
  ASSUME SharedPtrAssumption, Inv, UNCHANGED crew, NEW t \in PtrThreads, DestroyObject(t)
  PROVE  Inv'
<1> USE DEF Inv
<1>1. /\ todo[t] \in Seq(Jobs) /\ todo[t] # <<>> /\ Head(todo[t]).op = "destroy"
      /\ UNCHANGED <<val, strong, weak, pc, dst, src>>
  BY Zenon DEF DestroyObject, Doing, TypeOK
<1>2. /\ Head(todo[t]) \in Jobs /\ Head(todo[t]).block \in Counters /\ Tail(todo[t]) \in Seq(Jobs)
  BY <1>1, SeqTail, Zenon DEF Jobs
<1>3. PICK b0 \in Counters, p \in {dst[t]}, r \in Seq(Jobs), n \in Nat :
        b0 = Head(todo[t]).block /\ p = dst[t] /\ r = Tail(todo[t]) /\ n = Len(todo[t])
  BY <1>1, <1>2, SeqTail, Zenon
<1>4. PICK c \in Counters \union {NoCounter} : c = child[b0]
  BY Zenon DEF TypeOK
<1>5. /\ Head(todo[t]) = Job("destroy", b0) /\ Job("unfollow", b0) \in Jobs
      /\ c # NoCounter => c \in Counters /\ Job("release", c) \in Jobs
      /\ Len(r) + 1 = n
      /\ \A i \in 1..Len(r) : r[i] = todo[t][i + 1]
  <2>1. Head(todo[t]) = Job("destroy", b0) /\ Job("unfollow", b0) \in Jobs
    BY <1>1, <1>2, <1>3, Zenon DEF Jobs, Job
  <2>2. Len(r) + 1 = n /\ \A i \in 1..Len(r) : r[i] = todo[t][i + 1]
    BY <1>1, <1>3, SeqTail
  <2> QED
    BY <1>4, <2>1, <2>2, JobType, Zenon
<1>6. PICK m \in Seq(Jobs), s \in Seq(Jobs) :
        /\ m = <<Job("unfollow", b0)>> \o r
        /\ s = IF c = NoCounter THEN m ELSE <<Job("release", c)>> \o m
        /\ todo' = [todo EXCEPT ![t] = s]
  <2> DEFINE m == <<Job("unfollow", b0)>> \o r
             s == IF c = NoCounter THEN m ELSE <<Job("release", c)>> \o m
  <2>1. m \in Seq(Jobs)
    BY <1>5, SeqPush, Zenon
  <2>2. s \in Seq(Jobs)
    BY <1>5, <2>1, SeqPush, Zenon
  <2>3. todo' = [todo EXCEPT ![t] = ((IF c = NoCounter THEN <<>> ELSE <<Job("release", c)>>) \o <<Job("unfollow", b0)>>) \o r]
    BY <1>3, <1>4, Zenon DEF DestroyObject
  <2>4. ((IF c = NoCounter THEN <<>> ELSE <<Job("release", c)>>) \o <<Job("unfollow", b0)>>) \o r = s
    BY <1>5, TwoJobs, Zenon
  <2> QED
    BY <2>1, <2>2, <2>3, <2>4, Zenon
<1>7. /\ state' = [state EXCEPT ![b0] = "dead"] /\ child' = [child EXCEPT ![b0] = NoCounter]
      /\ state'[b0] = "dead" /\ child'[b0] = NoCounter
      /\ \A b \in Counters \ {b0} : state'[b] = state[b] /\ child'[b] = child[b]
  BY <1>3, Zenon DEF DestroyObject, TypeOK
<1>8. /\ s # <<>> /\ Len(s) \in Nat /\ \A i \in 2..Len(s) : s[i].op = "unfollow"
      /\ c = NoCounter => Head(s) = Job("unfollow", b0) /\ s[1] = Job("unfollow", b0)
      /\ c # NoCounter => Head(s) = Job("release", c) /\ Len(s) > 1
  <2>1. \A i \in 1..Len(r) : r[i].op = "unfollow"
    <3>1. \A i \in 1..Len(r) : i + 1 \in 2..Len(todo[t])
      BY <1>3, <1>5
    <3> QED
      <4>1. \A i \in 2..Len(todo[t]) : todo[t][i].op = "unfollow"
        BY Zenon DEF TodoOK
      <4>2. \A i \in 1..Len(r) : r[i] = todo[t][i + 1]
        BY <1>5, Zenon
      <4> QED
        BY <3>1, <4>1, <4>2, Zenon
  <2>2. /\ Len(m) = Len(r) + 1 /\ Len(r) \in Nat /\ m # <<>> /\ Head(m) = Job("unfollow", b0)
        /\ m[1] = Job("unfollow", b0) /\ \A i \in 1..Len(r) : m[i + 1] = r[i]
    BY <1>5, <1>6, SeqPush
  <2>3. \A i \in 1..Len(m) : m[i].op = "unfollow"
    <3>1. \A i \in 1..Len(m) : i = 1 \/ (i - 1 \in 1..Len(r) /\ m[i] = r[i - 1])
      BY <2>2
    <3>2. m[1].op = "unfollow"
      BY <2>2, SMTT(30) DEF Job
    <3> QED
      BY <2>1, <3>1, <3>2, Zenon
  <2>4. CASE c = NoCounter
    BY <1>6, <2>2, <2>3, <2>4
  <2>5. CASE c # NoCounter
    <3>1. /\ Len(s) = Len(m) + 1 /\ Len(m) \in Nat /\ s # <<>> /\ Head(s) = Job("release", c)
          /\ \A i \in 1..Len(m) : s[i + 1] = m[i]
      BY <1>5, <1>6, <2>5, SeqPush, ZenonT(30)
    <3>2. \A i \in 2..Len(s) : i - 1 \in 1..Len(m) /\ s[i] = m[i - 1]
      BY <3>1
    <3> QED
      BY <2>2, <2>3, <2>5, <3>1, <3>2
  <2> QED
    BY <2>4, <2>5, Zenon
<1>9. /\ p \in Shared /\ p \notin Weak /\ val[p] \in Counters
      /\ todo[t] # Decref(p) /\ s # Decref(p)
  <2>1. p \in Shared /\ p \notin Weak /\ val[p] \in Counters /\ Decref(p) = <<Job("release", val[p])>>
    BY <1>1, <1>3, OwnPointer, Zenon
  <2>2. /\ Head(<<Job("release", val[p])>>).op = "release" /\ ~(Len(<<Job("release", val[p])>>) > 1)
        /\ Job("unfollow", b0).op = "unfollow"
    BY DEF Job
  <2> QED
    BY <1>1, <1>8, <2>1, <2>2, Zenon
<1>10. /\ \A q \in SmartPointers : Leaving(q)' <=> Leaving(q)
       /\ todo'[t] = s /\ \A u \in PtrThreads \ {t} : todo'[u] = todo[u]
       /\ \A b : Orphans(b)' = (Orphans(b) \ {t}) \union
                               (IF Len(s) > 1 /\ Head(s) = Job("release", b) THEN {t} ELSE {})
  <2>1. /\ Leaving(p) <=> todo[t] # Decref(p)
        /\ Leaving(p)' <=> s # Decref(p)
        /\ \A q \in SmartPointers \ {p} : Leaving(q)' <=> Leaving(q)
        /\ todo'[t] = s /\ \A u \in PtrThreads \ {t} : todo'[u] = todo[u]
        /\ \A b : Orphans(b)' = (Orphans(b) \ {t}) \union
                                (IF Len(s) > 1 /\ Head(s) = Job("release", b) THEN {t} ELSE {})
    BY <1>1, <1>3, <1>6, JobStep, ZenonT(30)
  <2> QED
    BY <1>9, <2>1, ZenonT(60)
<1>11. \A b \in Counters : Owners(b)' = Owners(b) /\ Watchers(b)' = Watchers(b)
  <2>1. \A q \in Shared : Leaving(q)' <=> Leaving(q)
    BY <1>10, Zenon DEF SmartPointers
  <2>2. \A q \in Weak : Leaving(q)' <=> Leaving(q)
    BY <1>10, Zenon DEF SmartPointers
  <2> QED
    BY <1>1, <2>1, <2>2, Zenon DEF Owners, Watchers
<1>12. /\ \A b \in Counters \ {c} : Orphans(b)' = Orphans(b) /\ Children(b)' = Children(b)
       /\ c # NoCounter => /\ t \notin Orphans(c) /\ Orphans(c)' = Orphans(c) \union {t}
                           /\ b0 \in Children(c) /\ Children(c)' = Children(c) \ {b0}
  <2>1. \A b : t \notin Orphans(b)
    BY <1>1 DEF Orphans, Job
  <2>2. \A b : Len(s) > 1 /\ Head(s) = Job("release", b) <=> c # NoCounter /\ b = c
    BY <1>8 DEF Job
  <2>3. \A b \in Counters \ {c} : Children(b)' = Children(b)
    BY <1>4, <1>7, Zenon DEF Children, SharedPtrAssumption
  <2>4. c # NoCounter => b0 \in Children(c) /\ Children(c)' = Children(c) \ {b0}
    BY <1>4, <1>5, <1>7, Zenon DEF Children, SharedPtrAssumption
  <2> QED
    BY <1>10, <2>1, <2>2, <2>3, <2>4, Zenon
<1>13. /\ \A b \in Counters \ {b0} : Pending(b)' = Pending(b)
       /\ <<t, n>> \notin Pending(b0) /\ Pending(b0)' = Pending(b0) \union {<<t, n>>}
  <2>1. ASSUME NEW b \in Counters
        PROVE  /\ n \notin Places(todo[t], b)
               /\ b # b0 => Places(s, b) = Places(todo[t], b)
               /\ b = b0 => Places(s, b) = Places(todo[t], b) \union {n}
    <3>1. Job("unfollow", b) # Head(todo[t]) /\ (b = b0 <=> Job("unfollow", b0) = Job("unfollow", b))
      BY <1>5, JobType, SMTT(30)
    <3>2. Places(r, b) = Places(todo[t], b) /\ n \notin Places(todo[t], b)
      <4>1. /\ Places(Tail(todo[t]), b) = Places(todo[t], b) \ {Len(todo[t])}
            /\ Len(todo[t]) \in Places(todo[t], b) <=> Head(todo[t]) = Job("unfollow", b)
        BY <1>1, PlacesTail, Zenon
      <4> QED
        BY <1>3, <3>1, <4>1, Zenon
    <3>3. /\ b # b0 => Places(m, b) = Places(r, b)
          /\ b = b0 => Places(m, b) = Places(r, b) \union {n}
      <4> PICK j \in Jobs : j = Job("unfollow", b0)
        BY <1>5, Zenon
      <4>1. /\ j = Job("unfollow", b) => Places(<<j>> \o r, b) = Places(r, b) \union {Len(r) + 1}
            /\ j # Job("unfollow", b) => Places(<<j>> \o r, b) = Places(r, b)
        BY PlacesPush
      <4> QED
        BY <1>5, <1>6, <3>1, <4>1, Zenon
    <3>4. Places(s, b) = Places(m, b)
      <4>1. CASE c # NoCounter
        <5> PICK j \in Jobs : j = Job("release", c)
          BY <1>5, <4>1, Zenon
        <5>1. j # Job("unfollow", b)
          BY <1>5, <4>1, JobType, ZenonT(30)
        <5>2. Places(<<j>> \o m, b) = Places(m, b)
          BY <5>1, PlacesPush
        <5> QED
          BY <1>6, <4>1, <5>2, Zenon
      <4> QED
        BY <1>6, <4>1, Zenon
    <3> QED
      BY <3>2, <3>3, <3>4, Zenon
  <2>2. \A b \in Counters \ {b0} : Pending(b)' = Pending(b)
    BY <1>1, <1>6, <2>1, PendingSame, Zenon
  <2>3. <<t, n>> \notin Pending(b0) /\ Pending(b0)' = Pending(b0) \union {<<t, n>>}
    <3>1. n \notin Places(todo[t], b0) /\ Places(s, b0) = Places(todo[t], b0) \union {n} /\ dst[t] \notin Weak
      BY <1>3, <1>9, <2>1, Zenon
    <3>2. TypeOK /\ todo' = [todo EXCEPT ![t] = s] /\ UNCHANGED dst
      BY <1>1, <1>6, Zenon
    <3>3. Pending(b0)' = Pending(b0) \union {<<t, n>>} /\ <<t, n>> \notin Pending(b0)
      BY <3>1, <3>2, PendingAdd, Zenon
    <3> QED
      BY <3>3, Zenon
  <2> QED
    BY <2>2, <2>3, Zenon
<1>14. /\ state[b0] = "live" /\ strong[b0] = 0 /\ weak[b0] # 0
       /\ Destroying(t, b0) /\ \A u \in PtrThreads : Destroying(u, b0) => u = t
  BY <1>1, <1>5, ZenonT(30) DEF StateOK, Destroying
<1>15. StrongOK'
  <2>1. ASSUME NEW b \in Counters \ {c}
        PROVE  strong'[b] = Cardinality(Owners(b)') + Cardinality(Children(b)') + Cardinality(Orphans(b)')
    BY <1>1, <1>11, <1>12, Zenon DEF StrongOK
  <2>2. ASSUME c # NoCounter
        PROVE  strong'[c] = Cardinality(Owners(c)') + Cardinality(Children(c)') + Cardinality(Orphans(c)')
    <3>1. c \in Counters
      BY <1>5, <2>2, Zenon
    <3>2. /\ IsFiniteSet(Children(c)) /\ IsFiniteSet(Orphans(c)) /\ Cardinality(Owners(c)) \in Nat
      BY Finite, Zenon
    <3>3. Cardinality(Children(c) \ {b0}) = Cardinality(Children(c)) - 1 /\ Cardinality(Children(c)) \in Nat
      BY <1>12, <2>2, <3>2, CardRemove, Zenon
    <3>4. Cardinality(Orphans(c) \union {t}) = Cardinality(Orphans(c)) + 1 /\ Cardinality(Orphans(c)) \in Nat
      BY <1>12, <2>2, <3>2, CardAdd, Zenon
    <3>5. /\ Cardinality(Children(c)') = Cardinality(Children(c)) - 1
          /\ Cardinality(Orphans(c)') = Cardinality(Orphans(c)) + 1
          /\ Cardinality(Owners(c)') = Cardinality(Owners(c))
      BY <1>11, <1>12, <2>2, <3>1, <3>3, <3>4, Zenon
    <3>6. strong'[c] = Cardinality(Owners(c)) + Cardinality(Children(c)) + Cardinality(Orphans(c))
      BY <1>1, <3>1, Zenon DEF StrongOK
    <3> QED
      BY <3>2, <3>3, <3>4, <3>5, <3>6
  <2> QED
    BY <2>1, <2>2, Zenon DEF StrongOK, SharedPtrAssumption
<1>16. WeakOK'
  <2>1. ASSUME NEW b \in Counters \ {b0}
        PROVE  /\ IsFiniteSet(Pending(b)')
               /\ weak'[b] = Cardinality(Watchers(b)') + Cardinality(Pending(b)') + (IF state'[b] = "live" THEN 1 ELSE 0)
    BY <1>1, <1>7, <1>11, <1>13, ZenonT(30) DEF WeakOK
  <2>2. /\ IsFiniteSet(Pending(b0)')
        /\ weak'[b0] = Cardinality(Watchers(b0)') + Cardinality(Pending(b0)') + (IF state'[b0] = "live" THEN 1 ELSE 0)
    <3>1. IsFiniteSet(Pending(b0)) /\ weak[b0] = Cardinality(Watchers(b0)) + Cardinality(Pending(b0)) + 1
      BY <1>14, Zenon DEF WeakOK
    <3>2. /\ IsFiniteSet(Pending(b0)') /\ Cardinality(Pending(b0)') = Cardinality(Pending(b0)) + 1
          /\ Cardinality(Pending(b0)) \in Nat
      <4>1. IsFiniteSet(Pending(b0)) /\ <<t, n>> \notin Pending(b0)
        BY <1>13, <3>1, Zenon
      <4>2. PICK x : x = <<t, n>>
        BY Zenon
      <4>3. /\ IsFiniteSet(Pending(b0) \union {x}) /\ Cardinality(Pending(b0) \union {x}) = Cardinality(Pending(b0)) + 1
            /\ Cardinality(Pending(b0)) \in Nat
        BY <4>1, <4>2, CardAdd, Zenon
      <4> QED
        BY <1>13, <4>2, <4>3, Zenon
    <3>3. Cardinality(Watchers(b0)') = Cardinality(Watchers(b0)) /\ Cardinality(Watchers(b0)) \in Nat
      BY <1>11, Finite, Zenon
    <3> QED
      BY <1>1, <1>7, <3>1, <3>2, <3>3
  <2> QED
    BY <2>1, <2>2, Zenon DEF WeakOK
<1>17. TypeOK'
  <2>1. /\ state' \in [Counters -> {"free", "live", "dead"}] /\ child' \in [Counters -> Counters \union {NoCounter}]
        /\ todo' \in [PtrThreads -> Seq(Jobs)]
    BY <1>6, <1>7, Zenon DEF TypeOK
  <2> QED
    BY <1>1, <2>1, Zenon DEF TypeOK
<1>18. CallsOK' /\ ContractOK'
  BY <1>1, JobCalls, Zenon
<1>19. TodoOK'
  <2>1. Len(s) = 1 => s[1].op # "release"
    BY <1>8 DEF Job
  <2>2. \A u \in PtrThreads : /\ Decref(dst[u])' = Decref(dst[u]) /\ val'[dst[u]] = val[dst[u]]
                              /\ dst'[u] = dst[u] /\ pc'[u] = pc[u]
    BY <1>1, Zenon DEF Decref
  <2>3. ASSUME NEW u \in PtrThreads \ {t}
        PROVE  /\ pc'[u] \in {"idle", "acquire"} => todo'[u] = <<>>
               /\ todo'[u] # <<>> => val'[dst'[u]] # NoCounter
               /\ dst'[u] \in Weak => todo'[u] = <<>> \/ todo'[u] = Decref(dst[u])'
               /\ \A i \in 2..Len(todo'[u]) : todo'[u][i].op = "unfollow"
               /\ Len(todo'[u]) = 1 /\ todo'[u][1].op = "release" => todo'[u] = Decref(dst[u])'
    BY <1>10, <2>2, SMTT(30) DEF TodoOK
  <2>4. /\ pc'[t] \notin {"idle", "acquire"} /\ val'[dst'[t]] # NoCounter /\ dst'[t] \notin Weak
        /\ \A i \in 2..Len(todo'[t]) : todo'[t][i].op = "unfollow"
        /\ ~(Len(todo'[t]) = 1 /\ todo'[t][1].op = "release")
    <3>1. pc[t] \notin {"idle", "acquire"} /\ val[dst[t]] # NoCounter
      BY <1>1, Zenon DEF TodoOK
    <3> QED
      BY <1>3, <1>8, <1>9, <1>10, <2>1, <2>2, <3>1, Zenon
  <2> QED
    BY <2>3, <2>4, Zenon DEF TodoOK
<1>20. StateOK'
  <2>1. \A u \in PtrThreads \ {t} : \A b : Destroying(u, b)' <=> Destroying(u, b)
    BY <1>10, Zenon DEF Destroying
  <2>2. \A b : ~Destroying(t, b)'
    BY <1>8, <1>10 DEF Destroying, Job
  <2>3. \A b \in Counters \ {b0} : ~Destroying(t, b)
    BY <1>5 DEF Destroying, Job
  <2>4. ASSUME NEW b \in Counters \ {b0}
        PROVE  /\ (state[b] = "live" <=> (strong[b] > 0 \/ \E u \in PtrThreads : Destroying(u, b)))'
               /\ \A u, v \in PtrThreads : (Destroying(u, b) /\ Destroying(v, b) => u = v)'
               /\ \A u \in PtrThreads : (Destroying(u, b) => strong[b] = 0)'
    <3>1. \A u \in PtrThreads : Destroying(u, b)' <=> Destroying(u, b)
      BY <2>1, <2>2, <2>3, Zenon
    <3>2. state'[b] = state[b] /\ strong'[b] = strong[b]
      BY <1>1, <1>7, Zenon
    <3> QED
      BY <3>1, <3>2, Zenon DEF StateOK
  <2>5. \A u \in PtrThreads : ~Destroying(u, b0)'
    BY <1>14, <2>1, <2>2, Zenon
  <2>6. /\ (state[b0] = "live" <=> (strong[b0] > 0 \/ \E u \in PtrThreads : Destroying(u, b0)))'
        /\ \A u, v \in PtrThreads : (Destroying(u, b0) /\ Destroying(v, b0) => u = v)'
        /\ \A u \in PtrThreads : (Destroying(u, b0) => strong[b0] = 0)'
    <3>1. state'[b0] # "live" /\ strong'[b0] = 0 /\ ~(0 > 0)
      BY <1>1, <1>7, <1>14
    <3> QED
      BY <2>5, <3>1, Zenon
  <2>7. \A b \in Counters : (state[b] = "free" <=> weak[b] = 0)' /\ (child[b] # NoCounter => state[b] = "live")'
    BY <1>1, <1>7, <1>14, ZenonT(60) DEF StateOK
  <2> QED
    BY <2>4, <2>6, <2>7, ZenonT(30) DEF StateOK
<1> QED
  BY <1>15, <1>16, <1>17, <1>18, <1>19, <1>20, ZenonT(60)


\* Unfollow(): the weak counter goes down with a weak pointer or with an
\* Unfollow that follows a destructor, and the block goes with the last one.
LEMMA UnfollowInv ==
  ASSUME SharedPtrAssumption, Inv, UNCHANGED crew, NEW t \in PtrThreads, Unfollow(t)
  PROVE  Inv'
<1> USE DEF Inv
<1>1. /\ todo[t] \in Seq(Jobs) /\ todo[t] # <<>> /\ Head(todo[t]).op = "unfollow"
      /\ UNCHANGED <<val, strong, child, pc, dst, src>>
  BY Zenon DEF Unfollow, Doing, TypeOK
<1>2. /\ Head(todo[t]) \in Jobs /\ Head(todo[t]).block \in Counters /\ Tail(todo[t]) \in Seq(Jobs)
  BY <1>1, SeqTail, Zenon DEF Jobs
<1>3. PICK b0 \in Counters, p \in {dst[t]}, r \in Seq(Jobs), n \in Nat :
        b0 = Head(todo[t]).block /\ p = dst[t] /\ r = Tail(todo[t]) /\ n = Len(todo[t])
  BY <1>1, <1>2, SeqTail, Zenon
<1>4. /\ Head(todo[t]) = Job("unfollow", b0)
      /\ Len(r) + 1 = n /\ Len(r) \in Nat
      /\ \A i \in 1..Len(r) : r[i] = todo[t][i + 1]
      /\ \A i \in 1..Len(r) : r[i].op = "unfollow"
      /\ r # <<>> => Head(r).op = "unfollow" /\ r[1].op = "unfollow"
  <2>1. Head(todo[t]) = Job("unfollow", b0)
    BY <1>1, <1>2, <1>3, Zenon DEF Jobs, Job
  <2>2. Len(r) + 1 = n /\ Len(r) \in Nat /\ \A i \in 1..Len(r) : r[i] = todo[t][i + 1]
    BY <1>1, <1>3, SeqTail
  <2>3. \A i \in 1..Len(r) : i + 1 \in 2..Len(todo[t])
    BY <1>3, <2>2
  <2>4. \A i \in 1..Len(r) : r[i].op = "unfollow"
    BY <2>2, <2>3, ZenonT(30) DEF TodoOK
  <2>5. r # <<>> => Head(r) = r[1] /\ 1 \in 1..Len(r)
    BY SeqTail
  <2> QED
    BY <2>1, <2>2, <2>4, <2>5, Zenon
<1>5. /\ todo' = [todo EXCEPT ![t] = r] /\ todo' = [todo EXCEPT ![t] = Tail(todo[t])]
      /\ weak' = [weak EXCEPT ![b0] = weak[b0] - 1] /\ weak'[b0] = weak[b0] - 1
      /\ state' = [state EXCEPT ![b0] = IF weak[b0] = 1 THEN "free" ELSE state[b0]]
      /\ state'[b0] = IF weak[b0] = 1 THEN "free" ELSE state[b0]
      /\ \A b \in Counters \ {b0} : state'[b] = state[b] /\ weak'[b] = weak[b]
  BY <1>3, Zenon DEF Unfollow, TypeOK
<1>6. /\ p \in SmartPointers /\ val[p] \in Counters
      /\ p \in Weak => todo[t] = Decref(p) /\ b0 = val[p] /\ r = <<>> /\ r # Decref(p)
      /\ p \notin Weak => p \in Shared /\ todo[t] # Decref(p) /\ r # Decref(p)
  <2>1. /\ p \in SmartPointers /\ val[p] \in Counters
        /\ p \in Weak => /\ Decref(p) = <<Job("unfollow", val[p])>>
                         /\ todo[t] = <<Job("unfollow", val[p])>>
        /\ p \notin Weak => p \in Shared /\ Decref(p) = <<Job("release", val[p])>>
    BY <1>1, <1>3, OwnPointer, Zenon
  <2>2. /\ Head(<<Job("release", val[p])>>).op = "release" /\ <<Job("release", val[p])>> # <<>>
        /\ Head(<<Job("unfollow", val[p])>>).block = val[p] /\ Tail(<<Job("unfollow", val[p])>>) = <<>>
        /\ <<Job("unfollow", val[p])>> # <<>>
    BY DEF Job
  <2>3. p \in Weak => todo[t] = Decref(p) /\ b0 = val[p] /\ r = <<>> /\ r # Decref(p)
    BY <1>3, <2>1, <2>2, Zenon
  <2>4. p \notin Weak => p \in Shared /\ todo[t] # Decref(p) /\ r # Decref(p)
    BY <1>1, <1>4, <2>1, <2>2, Zenon
  <2> QED
    BY <2>1, <2>3, <2>4, Zenon
<1>7. /\ Leaving(p) <=> p \notin Weak
      /\ Leaving(p)' /\ \A q \in SmartPointers \ {p} : Leaving(q)' <=> Leaving(q)
      /\ todo'[t] = r /\ \A u \in PtrThreads \ {t} : todo'[u] = todo[u]
      /\ \A b : Orphans(b)' = Orphans(b)
  <2>1. /\ Leaving(p) <=> todo[t] # Decref(p)
        /\ Leaving(p)' <=> r # Decref(p)
        /\ \A q \in SmartPointers \ {p} : Leaving(q)' <=> Leaving(q)
        /\ todo'[t] = r /\ \A u \in PtrThreads \ {t} : todo'[u] = todo[u]
        /\ \A b : Orphans(b)' = (Orphans(b) \ {t}) \union
                                (IF Len(r) > 1 /\ Head(r) = Job("release", b) THEN {t} ELSE {})
    <3>1. todo' = [todo EXCEPT ![t] = r]
      BY <1>5, Zenon
    <3> QED
      BY <1>1, <1>3, <3>1, JobStep, Zenon
  <2>2. \A b : ~(Len(r) > 1 /\ Head(r) = Job("release", b))
    <3>1. Len(r) > 1 => r # <<>>
      OBVIOUS
    <3> QED
      BY <1>4, <3>1 DEF Job
  <2>3. \A b : t \notin Orphans(b)
    BY <1>1 DEF Orphans, Job
  <2> QED
    BY <1>6, <2>1, <2>2, <2>3, Zenon
<1>8. \A b \in Counters : Owners(b)' = Owners(b) /\ Children(b)' = Children(b)
  <2>1. \A q \in Shared : Leaving(q)' <=> Leaving(q)
    BY <1>6, <1>7, Zenon DEF SmartPointers, SharedPtrAssumption
  <2> QED
    BY <1>1, <2>1, Zenon DEF Owners, Children
<1>9. /\ p \in Weak => p \in Watchers(b0) /\ Watchers(b0)' = Watchers(b0) \ {p} /\ Pending(b0)' = Pending(b0)
      /\ p \notin Weak => /\ Watchers(b0)' = Watchers(b0)
                          /\ <<t, n>> \in Pending(b0) /\ Pending(b0)' = Pending(b0) \ {<<t, n>>}
      /\ \A b \in Counters \ {b0} : Watchers(b)' = Watchers(b) /\ Pending(b)' = Pending(b)
  <2>1. \A q \in Weak \ {p} : Leaving(q)' <=> Leaving(q)
    BY <1>7, Zenon DEF SmartPointers
  <2>2. p \in Weak => p \in Watchers(b0) /\ Watchers(b0)' = Watchers(b0) \ {p}
    BY <1>1, <1>6, <1>7, <2>1, Zenon DEF Watchers
  <2>3. p \notin Weak => Watchers(b0)' = Watchers(b0)
    BY <1>1, <2>1, Zenon DEF Watchers
  <2>4. \A b \in Counters \ {b0} : Watchers(b)' = Watchers(b)
    BY <1>1, <1>6, <2>1, Zenon DEF Watchers
  <2>5. p \in Weak => \A b : Pending(b)' = Pending(b)
    <3>1. todo' = [todo EXCEPT ![t] = r] /\ UNCHANGED dst
      BY <1>1, <1>5, Zenon
    <3> QED
      BY <1>3, <3>1, PendingSame, Zenon
  <2>6. ASSUME p \notin Weak, NEW b \in Counters
        PROVE  /\ Pending(b)' = Pending(b) \ {<<t, n>>}
               /\ <<t, n>> \in Pending(b) <=> b = b0
    <3>1. dst[t] \notin Weak /\ UNCHANGED dst
      BY <1>1, <1>3, <2>6, Zenon
    <3>2. /\ Pending(b)' = Pending(b) \ {<<t, Len(todo[t])>>}
          /\ <<t, Len(todo[t])>> \in Pending(b) <=> Head(todo[t]) = Job("unfollow", b)
      BY <1>1, <1>5, <3>1, PendingTail, Zenon
    <3> QED
      BY <1>3, <1>4, <3>2 DEF Job
  <2>7. p \notin Weak => \A b \in Counters \ {b0} : Pending(b)' = Pending(b)
    BY <2>6, Zenon
  <2> QED
    BY <2>2, <2>3, <2>4, <2>5, <2>6, <2>7, Zenon
<1>10. /\ WeakOK' /\ weak[b0] \in Int /\ weak[b0] >= 1 /\ (weak[b0] = 1 => state[b0] # "live")
  <2>1. ASSUME NEW b \in Counters \ {b0}
        PROVE  /\ IsFiniteSet(Pending(b)')
               /\ weak'[b] = Cardinality(Watchers(b)') + Cardinality(Pending(b)') + (IF state'[b] = "live" THEN 1 ELSE 0)
    BY <1>5, <1>9, ZenonT(30) DEF WeakOK
  <2>2. /\ IsFiniteSet(Pending(b0)) /\ IsFiniteSet(Watchers(b0))
        /\ Cardinality(Pending(b0)) \in Nat /\ Cardinality(Watchers(b0)) \in Nat
        /\ weak[b0] = Cardinality(Watchers(b0)) + Cardinality(Pending(b0)) + (IF state[b0] = "live" THEN 1 ELSE 0)
    BY Finite, FS_CardinalityType, Zenon DEF WeakOK
  <2>3. /\ IsFiniteSet(Pending(b0)')
        /\ Cardinality(Watchers(b0)') + Cardinality(Pending(b0)') = Cardinality(Watchers(b0)) + Cardinality(Pending(b0)) - 1
        /\ Cardinality(Watchers(b0)) + Cardinality(Pending(b0)) >= 1
    <3>1. CASE p \in Weak
      <4>1. /\ Cardinality(Watchers(b0) \ {p}) = Cardinality(Watchers(b0)) - 1 /\ Cardinality(Watchers(b0)) >= 1
        BY <1>9, <2>2, <3>1, CardRemove, Zenon
      <4>2. Cardinality(Watchers(b0)') = Cardinality(Watchers(b0)) - 1
        BY <1>9, <3>1, <4>1, Zenon
      <4>3. Cardinality(Pending(b0)') = Cardinality(Pending(b0)) /\ IsFiniteSet(Pending(b0)')
        BY <1>9, <2>2, <3>1, Zenon
      <4> QED
        BY <2>2, <4>1, <4>2, <4>3
    <3>2. CASE p \notin Weak
      <4>1. PICK x : x = <<t, n>>
        BY Zenon
      <4>2. x \in Pending(b0) /\ Pending(b0)' = Pending(b0) \ {x}
        BY <1>9, <3>2, <4>1, Zenon
      <4>3. /\ IsFiniteSet(Pending(b0) \ {x}) /\ Cardinality(Pending(b0) \ {x}) = Cardinality(Pending(b0)) - 1
            /\ Cardinality(Pending(b0)) >= 1
        BY <2>2, <4>2, CardRemove, Zenon
      <4>4. Cardinality(Pending(b0)') = Cardinality(Pending(b0)) - 1 /\ IsFiniteSet(Pending(b0)')
        BY <4>2, <4>3, Zenon
      <4>5. Cardinality(Watchers(b0)') = Cardinality(Watchers(b0))
        BY <1>9, <3>2, Zenon
      <4> QED
        BY <2>2, <4>3, <4>4, <4>5
    <3> QED
      BY <3>1, <3>2, Zenon
  <2>4. weak[b0] >= 1 /\ weak[b0] \in Int /\ (weak[b0] = 1 => state[b0] # "live")
    BY <2>2, <2>3
  <2>5. state'[b0] = "live" <=> state[b0] = "live"
    BY <1>5, <2>4
  <2>6. Cardinality(Watchers(b0)') \in Nat
    <3>1. IsFiniteSet(Watchers(b0)')
      BY <1>9, <2>2, CardRemove
    <3> QED
      BY <3>1, FS_CardinalityType, Zenon
  <2>7. Cardinality(Pending(b0)') \in Nat
    BY <2>3, FS_CardinalityType, Zenon
  <2>8. weak'[b0] = Cardinality(Watchers(b0)') + Cardinality(Pending(b0)') + (IF state'[b0] = "live" THEN 1 ELSE 0)
    BY <1>5, <2>2, <2>3, <2>5, <2>6, <2>7
  <2> QED
    BY <2>1, <2>3, <2>4, <2>8, Zenon DEF WeakOK
<1>11. StrongOK'
  BY <1>1, <1>7, <1>8, Zenon DEF StrongOK
<1>12. TypeOK'
  <2>1. /\ state' \in [Counters -> {"free", "live", "dead"}] /\ weak' \in [Counters -> Int]
        /\ todo' \in [PtrThreads -> Seq(Jobs)]
    BY <1>5, <1>10 DEF TypeOK
  <2> QED
    BY <1>1, <2>1, Zenon DEF TypeOK
<1>13. CallsOK' /\ ContractOK'
  BY <1>1, JobCalls, Zenon
<1>14. TodoOK'
  <2>1. /\ \A i \in 2..Len(r) : r[i].op = "unfollow"
        /\ Len(r) = 1 => r[1].op # "release"
    BY <1>4
  <2> QED
    <3>1. ASSUME NEW u \in PtrThreads \ {t}
          PROVE  /\ pc'[u] \in {"idle", "acquire"} => todo'[u] = <<>>
                 /\ todo'[u] # <<>> => val'[dst'[u]] # NoCounter
                 /\ dst'[u] \in Weak => todo'[u] = <<>> \/ todo'[u] = Decref(dst[u])'
                 /\ \A i \in 2..Len(todo'[u]) : todo'[u][i].op = "unfollow"
                 /\ Len(todo'[u]) = 1 /\ todo'[u][1].op = "release" => todo'[u] = Decref(dst[u])'
      BY <1>1, <1>7 DEF TodoOK, Decref
    <3>2. /\ pc'[t] \in {"idle", "acquire"} => todo'[t] = <<>>
          /\ todo'[t] # <<>> => val'[dst'[t]] # NoCounter
          /\ dst'[t] \in Weak => todo'[t] = <<>> \/ todo'[t] = Decref(dst[t])'
          /\ \A i \in 2..Len(todo'[t]) : todo'[t][i].op = "unfollow"
          /\ Len(todo'[t]) = 1 /\ todo'[t][1].op = "release" => todo'[t] = Decref(dst[t])'
      BY <1>1, <1>3, <1>6, <1>7, <2>1, Zenon DEF TodoOK
    <3> QED
      BY <3>1, <3>2, Zenon DEF TodoOK
<1>15. StateOK'
  <2>1. \A u \in PtrThreads : \A b : Destroying(u, b)' <=> Destroying(u, b)
    <3>1. \A b : ~Destroying(t, b)' /\ ~Destroying(t, b)
      BY <1>1, <1>4, <1>7, SMTT(30) DEF Destroying, Job
    <3> QED
      BY <1>7, <3>1, Zenon DEF Destroying
  <2>2. ASSUME NEW b \in Counters
        PROVE  /\ state'[b] = "live" <=> state[b] = "live"
               /\ state'[b] = "free" <=> weak'[b] = 0
    BY <1>5, <1>10 DEF StateOK
  <2> QED
    BY <1>1, <2>1, <2>2, Zenon DEF StateOK
<1> QED
  BY <1>10, <1>11, <1>12, <1>13, <1>14, <1>15, Zenon


-----------------------------------------------------------------------------
(***************************************************************************)
(* Calls that begin                                                        *)
(***************************************************************************)

\* No thread but t is in the middle of lock() or of p = p->child.
LEMMA OthersPlain ==
  ASSUME CallsOK, NEW t \in crew, NEW u \in PtrThreads, u # t, pc[u] # "idle"
  PROVE  pc[u] # "acquire" /\ src[u] \notin Counters
BY Zenon DEF CallsOK, OperandsOK

\* Nothing that is counted changes when a call begins: the pointer that it is
\* going to change is an owner until its decrement.
LEMMA StartInv ==
  ASSUME SharedPtrAssumption, Inv, UNCHANGED <<crew, val, blocks>>, NEW t \in crew,
         NEW p \in SmartPointers, NEW q \in SmartPointers \union Counters,
         NEW then \in {"copy", "move", "reset", "acquire"},
         StartCall(t, p, q, then), OperandsOK(t)',
         todo' = [todo EXCEPT ![t] = IF then = "acquire" THEN <<>> ELSE Decref(p)]
  PROVE  Inv'
<1> USE DEF Inv
<1>1. t \in PtrThreads /\ pc[t] = "idle" /\ todo[t] = <<>> /\ Unused(p) /\ Readable(q)
  BY Zenon DEF TypeOK, TodoOK, StartCall, Unused, Readable
<1>2. PICK s : s = IF then = "acquire" THEN <<>> ELSE Decref(p)
  BY Zenon
<1>3. /\ dst'[t] = p /\ src'[t] = q /\ pc'[t] = then /\ todo'[t] = s
      /\ \A u \in PtrThreads \ {t} : dst'[u] = dst[u] /\ src'[u] = src[u] /\ pc'[u] = pc[u] /\ todo'[u] = todo[u]
  BY <1>1, <1>2, Zenon DEF StartCall, TypeOK
<1>4. /\ val' = val /\ state' = state /\ strong' = strong /\ weak' = weak /\ child' = child /\ crew' = crew
  BY Zenon DEF blocks
<1>5. \A x : Decref(x)' = Decref(x)
  BY <1>4, Zenon DEF Decref
<1>6. /\ Decref(p) \in Seq(Jobs) /\ Len(Decref(p)) \in {0, 1}
      /\ p \in Shared => Decref(p) = <<>> \/ Decref(p) = <<Job("release", val[p])>>
      /\ p \in Weak => Decref(p) = <<>> \/ Decref(p) = <<Job("unfollow", val[p])>>
      /\ Decref(p) # <<>> => val[p] # NoCounter
  <2>1. CASE val[p] = NoCounter
    BY <2>1, SMTT(30) DEF Decref
  <2>2. CASE val[p] # NoCounter
    <3>1. val[p] \in Counters /\ Job("release", val[p]) \in Jobs /\ Job("unfollow", val[p]) \in Jobs
      BY <2>2, JobType DEF TypeOK
    <3> QED
      BY <2>2, <3>1 DEF Decref, SharedPtrAssumption
  <2> QED
    BY <2>1, <2>2, Zenon
<1>7. /\ s \in Seq(Jobs) /\ Len(s) \in {0, 1}
      /\ p \in Shared => s = <<>> \/ s = <<Job("release", val[p])>>
      /\ p \in Weak => s = <<>> \/ s = <<Job("unfollow", val[p])>>
      /\ s # <<>> => s = Decref(p) /\ val[p] # NoCounter
      /\ then # "acquire" => s = Decref(p)
      /\ then = "acquire" => s = <<>>
  BY <1>2, <1>6
<1>8. \A x \in SmartPointers : Leaving(x)' <=> Leaving(x)
  <2>1. \A u \in PtrThreads \ {t} : pc[u] # "idle" => dst[u] # p
    BY <1>1, Zenon DEF Unused
  <2>2. ~Leaving(p)
    BY <1>1, <2>1, Zenon DEF Leaving
  <2>3. ~Leaving(p)'
    BY <1>3, <1>5, <1>7, <2>1 DEF Leaving
  <2>4. \A x \in SmartPointers \ {p} : Leaving(x)' <=> Leaving(x)
    BY <1>1, <1>3, <1>5, ZenonT(30) DEF Leaving
  <2> QED
    BY <2>2, <2>3, <2>4, ZenonT(60)
<1>9. \A b : Orphans(b)' = Orphans(b)
  <2>1. ~(Len(s) > 1) /\ ~(Len(todo[t]) > 1)
    <3>1. ~(0 > 1) /\ ~(1 > 1) /\ Len(todo[t]) = 0
      BY <1>1
    <3> QED
      BY <1>7, <3>1, Zenon
  <2> QED
    BY <1>1, <1>3, <2>1, Zenon DEF Orphans
<1>10. \A b \in Counters : Pending(b)' = Pending(b)
  <2> TAKE b \in Counters
  <2>1. p \notin Weak => Places(s, b) = {}
    <3>1. SUFFICES ASSUME p \notin Weak, NEW j \in 1..Len(s), s[Len(s) + 1 - j] = Job("unfollow", b)
                   PROVE  FALSE
      BY Zenon DEF Places
    <3>2. s = <<Job("release", val[p])>>
      BY <1>7, <3>1 DEF SmartPointers
    <3>3. Len(s) + 1 - j = 1 /\ s[1] = Job("release", val[p])
      BY <3>2
    <3> QED
      BY <3>1, <3>3 DEF Job
  <2>2. Places(todo[t], b) = {}
    BY <1>1 DEF Places
  <2>3. \A u \in PtrThreads, j \in Nat : <<u, j>> \in Pending(b)' <=> <<u, j>> \in Pending(b)
    BY <1>1, <1>3, <2>1, <2>2, Zenon DEF Pending
  <2> QED
    BY <2>3, PendingEqual, Zenon
<1>11. \A u \in PtrThreads : \A b : Destroying(u, b)' <=> Destroying(u, b)
  <2>1. \A b : ~Destroying(t, b) /\ ~Destroying(t, b)'
    <3>1. Head(<<Job("release", val[p])>>).op = "release" /\ Head(<<Job("unfollow", val[p])>>).op = "unfollow"
      BY DEF Job
    <3> QED
      BY <1>1, <1>3, <1>7, <3>1 DEF Destroying, Job, SmartPointers
  <2> QED
    BY <1>3, <2>1, Zenon DEF Destroying
<1>12. TypeOK'
  <2>1. /\ dst' \in [PtrThreads -> SmartPointers \union {NoCounter}]
        /\ src' \in [PtrThreads -> SmartPointers \union Counters \union {NoCounter}]
        /\ pc' \in [PtrThreads -> {"idle", "copy", "move", "reset", "acquire"}]
    BY <1>1, Zenon DEF StartCall, TypeOK
  <2>2. todo' \in [PtrThreads -> Seq(Jobs)]
    BY <1>1, <1>2, <1>7, Zenon DEF TypeOK
  <2> QED
    BY <1>4, <2>1, <2>2, Zenon DEF TypeOK
<1>13. CallsOK'
  <2>1. ASSUME NEW u \in PtrThreads \ {t}, pc'[u] # "idle"
        PROVE  OperandsOK(u)'
    <3>1. pc[u] # "idle" /\ OperandsOK(u)
      BY <1>3, <2>1, Zenon DEF CallsOK
    <3> QED
      BY <1>3, <1>4, <3>1, Zenon DEF OperandsOK
  <2> QED
    BY <2>1, Zenon DEF CallsOK
<1>14. ContractOK'
  <2>1. \A u \in PtrThreads \ {t} : pc[u] # "idle" =>
          /\ p \notin {dst[u], src[u]} /\ q # dst[u]
          /\ pc[u] = "move" => q # src[u]
          /\ then = "move" => q # src[u]
    BY <1>1, Zenon DEF StartCall, Unused, Readable
  <2>2. ASSUME NEW u \in PtrThreads \ {t}, pc'[u] # "idle"
        PROVE  /\ dst'[t] \notin {dst'[u], src'[u]} /\ (pc'[t] = "move" => src'[t] \notin {dst'[u], src'[u]})
               /\ dst'[u] \notin {dst'[t], src'[t]} /\ (pc'[u] = "move" => src'[u] \notin {dst'[t], src'[t]})
    <3>1. dst'[u] = dst[u] /\ src'[u] = src[u] /\ pc'[u] = pc[u]
      BY <1>3, Zenon
    <3>2. /\ p \notin {dst[u], src[u]} /\ q # dst[u]
          /\ pc[u] = "move" => q # src[u]
          /\ then = "move" => q # src[u]
      BY <2>1, <2>2, <3>1, Zenon
    <3>3. dst'[t] = p /\ src'[t] = q /\ pc'[t] = then
      BY <1>3, Zenon
    <3> QED
      BY <3>1, <3>2, <3>3, Zenon
  <2>3. \A u, v \in PtrThreads \ {t} : u # v /\ pc'[u] # "idle" /\ pc'[v] # "idle" =>
          /\ dst'[u] \notin {dst'[v], src'[v]} /\ (pc'[u] = "move" => src'[u] \notin {dst'[v], src'[v]})
    BY <1>3, ZenonT(30) DEF ContractOK
  <2> QED
    BY <2>2, <2>3, ZenonT(60) DEF ContractOK
<1>15. TodoOK'
  <2>1. ASSUME NEW u \in PtrThreads \ {t}
        PROVE  /\ pc'[u] \in {"idle", "acquire"} => todo'[u] = <<>>
               /\ todo'[u] # <<>> => val'[dst'[u]] # NoCounter
               /\ dst'[u] \in Weak => todo'[u] = <<>> \/ todo'[u] = Decref(dst'[u])
               /\ \A i \in 2..Len(todo'[u]) : todo'[u][i].op = "unfollow"
               /\ Len(todo'[u]) = 1 /\ todo'[u][1].op = "release" => todo'[u] = Decref(dst'[u])
    BY <1>3, <1>4, SMTT(30) DEF TodoOK
  <2>2. /\ pc'[t] \in {"idle", "acquire"} => todo'[t] = <<>>
        /\ todo'[t] # <<>> => val'[dst'[t]] # NoCounter
        /\ dst'[t] \in Weak => todo'[t] = <<>> \/ todo'[t] = Decref(dst'[t])
        /\ \A i \in 2..Len(todo'[t]) : todo'[t][i].op = "unfollow"
        /\ Len(todo'[t]) = 1 /\ todo'[t][1].op = "release" => todo'[t] = Decref(dst'[t])
    BY <1>3, <1>4, <1>7
  <2>3. \A u \in PtrThreads : Decref(dst[u])' = Decref(dst'[u])
    BY <1>4, Zenon DEF Decref
  <2>4. ASSUME NEW u \in PtrThreads
        PROVE  /\ pc'[u] \in {"idle", "acquire"} => todo'[u] = <<>>
               /\ todo'[u] # <<>> => val'[dst'[u]] # NoCounter
               /\ dst'[u] \in Weak => todo'[u] = <<>> \/ todo'[u] = Decref(dst[u])'
               /\ \A i \in 2..Len(todo'[u]) : todo'[u][i].op = "unfollow"
               /\ Len(todo'[u]) = 1 /\ todo'[u][1].op = "release" => todo'[u] = Decref(dst[u])'
    <3>1. Decref(dst[u])' = Decref(dst'[u])
      BY <2>3, Zenon
    <3>2. CASE u = t
      BY <2>2, <3>1, <3>2, Zenon
    <3>3. CASE u # t
      BY <2>1, <3>1, <3>3, Zenon
    <3> QED
      BY <3>2, <3>3, Zenon
  <2> QED
    BY <2>4, Zenon DEF TodoOK
<1>16. \A b \in Counters : Owners(b)' = Owners(b) /\ Watchers(b)' = Watchers(b) /\ Children(b)' = Children(b)
  <2>1. Shared \subseteq SmartPointers /\ Weak \subseteq SmartPointers
    BY Zenon DEF SmartPointers
  <2> QED
    BY <1>4, <1>8, <2>1, Zenon DEF Owners, Watchers, Children
<1>17. StrongOK'
  BY <1>4, <1>9, <1>16, Zenon DEF StrongOK
<1>18. WeakOK'
  BY <1>4, <1>10, <1>16, Zenon DEF WeakOK
<1>19. StateOK'
  BY <1>4, <1>11, Zenon DEF StateOK
<1> QED
  BY <1>12, <1>13, <1>14, <1>15, <1>17, <1>18, <1>19, Zenon


\* Counters are never negative.
LEMMA StrongNat ==
  ASSUME SharedPtrAssumption, StrongOK, NEW b \in Counters
  PROVE  strong[b] \in Nat
<1>1. strong[b] = Cardinality(Owners(b)) + Cardinality(Children(b)) + Cardinality(Orphans(b))
  BY Zenon DEF StrongOK
<1>2. Cardinality(Owners(b)) \in Nat /\ Cardinality(Children(b)) \in Nat /\ Cardinality(Orphans(b)) \in Nat
  BY Finite, Zenon
<1> QED
  BY <1>1, <1>2

\* The assignments and reset.
LEMMA AssignInv ==
  ASSUME SharedPtrAssumption, Inv, UNCHANGED crew, NEW t \in crew, NEW p \in SmartPointers, NEW q \in SmartPointers,
         CopyAssign(t, p, q) \/ MoveAssign(t, p, q) \/ ResetPointer(t, p)
  PROVE  Inv'
<1> USE DEF Inv
<1>1. /\ t \in PtrThreads /\ p \notin Counters /\ q \notin Counters
      /\ \A x : StartCall(t, p, x, "copy") \/ StartCall(t, p, x, "move") \/ StartCall(t, p, x, "reset")
                 => dst'[t] = p /\ src'[t] = x
      /\ \A x : StartCall(t, p, x, "copy") => pc'[t] = "copy"
      /\ \A x : StartCall(t, p, x, "move") => pc'[t] = "move"
      /\ \A x : StartCall(t, p, x, "reset") => pc'[t] = "reset"
  BY Zenon DEF TypeOK, SharedPtrAssumption, StartCall
<1>2. CASE CopyAssign(t, p, q)
  <2>1. OperandsOK(t)'
    BY <1>1, <1>2 DEF CopyAssign, OperandsOK
  <2>2. /\ StartCall(t, p, q, "copy") /\ UNCHANGED <<crew, val, blocks>>
        /\ todo' = [todo EXCEPT ![t] = IF "copy" = "acquire" THEN <<>> ELSE Decref(p)]
    BY <1>2, Zenon DEF CopyAssign
  <2> QED
    BY <2>1, <2>2, StartInv, ZenonT(30)
<1>3. CASE MoveAssign(t, p, q)
  <2>1. OperandsOK(t)'
    BY <1>1, <1>3 DEF MoveAssign, OperandsOK
  <2>2. /\ StartCall(t, p, q, "move") /\ UNCHANGED <<crew, val, blocks>>
        /\ todo' = [todo EXCEPT ![t] = IF "move" = "acquire" THEN <<>> ELSE Decref(p)]
    BY <1>3, Zenon DEF MoveAssign
  <2> QED
    BY <2>1, <2>2, StartInv, ZenonT(30)
<1>4. CASE ResetPointer(t, p)
  <2>1. OperandsOK(t)'
    BY <1>1, <1>4, ZenonT(60) DEF ResetPointer, OperandsOK
  <2>2. /\ StartCall(t, p, p, "reset") /\ UNCHANGED <<crew, val, blocks>>
        /\ todo' = [todo EXCEPT ![t] = IF "reset" = "acquire" THEN <<>> ELSE Decref(p)]
    BY <1>4, Zenon DEF ResetPointer
  <2> QED
    BY <2>1, <2>2, StartInv, Zenon
<1> QED
  BY <1>2, <1>3, <1>4, Zenon

\* p = p->child: another owner keeps the object.
LEMMA WalkDownInv ==
  ASSUME SharedPtrAssumption, Racy = FALSE, Inv, UNCHANGED crew, NEW t \in crew, NEW p \in Shared,
         WalkDown(t, p)
  PROVE  Inv'
<1> USE DEF Inv
<1>1. PICK b0 \in Counters : b0 = val[p]
  BY Zenon DEF TypeOK, WalkDown, SmartPointers
<1>2. /\ t \in PtrThreads /\ p \in SmartPointers /\ b0 \notin SmartPointers /\ b0 # p
      /\ StartCall(t, p, b0, "copy") /\ UNCHANGED <<crew, val, blocks>>
      /\ todo' = [todo EXCEPT ![t] = IF "copy" = "acquire" THEN <<>> ELSE Decref(p)]
      /\ crew = {t} /\ \E q \in Shared \ {p} : val[q] = b0
  BY <1>1, ZenonT(30) DEF TypeOK, SharedPtrAssumption, WalkDown, Alone, SmartPointers
<1>3. dst'[t] = p /\ src'[t] = b0 /\ pc'[t] = "copy"
  BY <1>2, ZenonT(60) DEF StartCall, TypeOK
<1>4. OperandsOK(t)'
  BY <1>2, <1>3, Zenon DEF OperandsOK
<1> QED
  BY <1>2, <1>4, StartInv, Zenon

\* expired(): nothing comes between the test and Acquire().
LEMMA LockTestInv ==
  ASSUME SharedPtrAssumption, Racy = FALSE, Inv, UNCHANGED crew, NEW t \in crew, NEW p \in Shared,
         NEW w \in Weak, LockTest(t, p, w)
  PROVE  Inv'
<1> USE DEF Inv
<1>1. /\ t \in PtrThreads /\ p \in SmartPointers /\ w \in SmartPointers /\ w \notin Counters /\ val[w] \in Counters
      /\ StartCall(t, p, w, "acquire") /\ UNCHANGED <<crew, val, blocks>> /\ UNCHANGED todo
      /\ crew = {t} /\ strong[val[w]] # 0 /\ val[p] = NoCounter /\ val[w] # NoCounter
  BY Zenon DEF TypeOK, SharedPtrAssumption, LockTest, Alone, SmartPointers
<1>2. dst'[t] = p /\ src'[t] = w /\ pc'[t] = "acquire" /\ todo[t] = <<>>
  BY <1>1, ZenonT(60) DEF StartCall, TypeOK, TodoOK
<1>3. strong[val[w]] > 0
  BY <1>1, StrongNat
<1>4. val' = val /\ strong' = strong /\ crew' = crew
  BY <1>1, Zenon DEF blocks
<1>5. OperandsOK(t)'
  BY <1>1, <1>2, <1>3, <1>4, Zenon DEF OperandsOK
<1>6. todo' = [todo EXCEPT ![t] = IF "acquire" = "acquire" THEN <<>> ELSE Decref(p)]
  BY <1>1, <1>2, Zenon DEF TypeOK
<1> QED
  BY <1>1, <1>5, <1>6, StartInv, Zenon


-----------------------------------------------------------------------------
(***************************************************************************)
(* Calls that end, and calls of one step                                   *)
(***************************************************************************)

\* A block that has an owner is live, and one that a weak pointer designates
\* is not free.
LEMMA OwnedBlock ==
  ASSUME SharedPtrAssumption, StrongOK, StateOK, NEW b \in Counters,
         Owners(b) # {} \/ Children(b) # {}
  PROVE  /\ strong[b] > 0 /\ strong[b] \in Nat /\ state[b] = "live" /\ weak[b] # 0
         /\ \A t \in PtrThreads : ~Destroying(t, b)
<1>1. strong[b] = Cardinality(Owners(b)) + Cardinality(Children(b)) + Cardinality(Orphans(b))
  BY Zenon DEF StrongOK
<1>2. /\ IsFiniteSet(Owners(b)) /\ IsFiniteSet(Children(b))
      /\ Cardinality(Owners(b)) \in Nat /\ Cardinality(Children(b)) \in Nat /\ Cardinality(Orphans(b)) \in Nat
  BY Finite, Zenon
<1>3. /\ Owners(b) # {} => Cardinality(Owners(b)) # 0
      /\ Children(b) # {} => Cardinality(Children(b)) # 0
  BY <1>2, FS_EmptySet, Zenon
<1>4. strong[b] > 0 /\ strong[b] \in Nat
  BY <1>1, <1>2, <1>3
<1> QED
  BY <1>4 DEF StateOK

\* A block that a weak_ptr watches has a weak counter above zero.
LEMMA WatchedBlock ==
  ASSUME SharedPtrAssumption, WeakOK, NEW b \in Counters
  PROVE  weak[b] \in Nat /\ (Watchers(b) # {} => weak[b] > 0)
<1>1. /\ weak[b] = Cardinality(Watchers(b)) + Cardinality(Pending(b)) + (IF state[b] = "live" THEN 1 ELSE 0)
      /\ IsFiniteSet(Pending(b))
  BY Zenon DEF WeakOK
<1>2. /\ IsFiniteSet(Watchers(b)) /\ Cardinality(Watchers(b)) \in Nat /\ Cardinality(Pending(b)) \in Nat
  BY <1>1, Finite, FS_CardinalityType, Zenon
<1>3. Watchers(b) # {} => Cardinality(Watchers(b)) # 0
  BY <1>2, FS_EmptySet, Zenon
<1> QED
  BY <1>1, <1>2, <1>3

\* Copies change the state of no block.
LEMMA StateKept ==
  ASSUME StateOK, state' = state, child' = child,
         \A u \in PtrThreads : \A b : Destroying(u, b)' <=> Destroying(u, b),
         \A b \in Counters : strong'[b] = strong[b] \/ (strong[b] > 0 /\ strong'[b] > 0),
         \A b \in Counters : weak'[b] = weak[b] \/ (weak[b] # 0 /\ weak'[b] # 0)
  PROVE  StateOK'
<1>1. ASSUME NEW b \in Counters
      PROVE  /\ (strong'[b] > 0 <=> strong[b] > 0) /\ (weak'[b] = 0 <=> weak[b] = 0)
             /\ strong[b] = 0 => strong'[b] = 0
  BY <1>1
<1> QED
  BY <1>1, Zenon DEF StateOK

\* The releases of a call are done: it writes its operands and returns.
LEMMA FinishStep ==
  ASSUME SharedPtrAssumption, TypeOK, CallsOK, ContractOK, TodoOK, NEW t \in PtrThreads,
         pc[t] # "idle", todo[t] = <<>>, Return(t), UNCHANGED crew,
         val' \in [SmartPointers -> Counters \union {NoCounter}],
         \A x \in SmartPointers : x # dst[t] /\ (pc[t] = "move" => x # src[t]) => val'[x] = val[x]
  PROVE  /\ \A x \in SmartPointers \ {dst[t]} : Leaving(x)' <=> Leaving(x)
         /\ ~Leaving(dst[t])' /\ dst[t] \in SmartPointers
         /\ pc[t] # "acquire" /\ val[dst[t]] # NoCounter => Leaving(dst[t])
         /\ src[t] \in SmartPointers /\ src[t] # dst[t] => ~Leaving(src[t])
         /\ \A b : Orphans(b)' = Orphans(b) /\ Pending(b)' = Pending(b)
         /\ \A u \in PtrThreads : \A b : Destroying(u, b)' <=> Destroying(u, b)
         /\ CallsOK' /\ ContractOK' /\ TodoOK'
<1>1. /\ pc'[t] = "idle" /\ \A u \in PtrThreads \ {t} : pc'[u] = pc[u]
      /\ dst' = dst /\ src' = src /\ todo' = todo /\ crew' = crew
  BY Zenon DEF Return, TypeOK
<1>2. t \in crew /\ dst[t] \in SmartPointers
  BY Zenon DEF CallsOK, OperandsOK
<1>3. ASSUME NEW u \in PtrThreads \ {t}, pc[u] # "idle"
      PROVE  /\ dst[u] # dst[t] /\ dst[u] # src[t] /\ dst[u] \in SmartPointers
             /\ val'[dst[u]] = val[dst[u]] /\ Decref(dst[u])' = Decref(dst[u])
  <2>1. dst[u] # dst[t] /\ dst[u] # src[t] /\ dst[u] \in SmartPointers
    BY <1>3, Zenon DEF ContractOK, CallsOK, OperandsOK
  <2>2. val'[dst[u]] = val[dst[u]]
    BY <2>1, Zenon
  <2> QED
    BY <1>1, <2>1, <2>2, Zenon DEF Decref
<1>4. \A x \in SmartPointers \ {dst[t]} : Leaving(x)' <=> Leaving(x)
  <2> TAKE x \in SmartPointers \ {dst[t]}
  <2>1. ASSUME Leaving(x)
        PROVE  Leaving(x)'
    <3>1. PICK u \in PtrThreads : pc[u] \in {"copy", "move", "reset"} /\ dst[u] = x /\ todo[u] # Decref(x)
      BY <2>1, Zenon DEF Leaving
    <3>2. u \in PtrThreads \ {t} /\ pc[u] # "idle"
      BY <3>1, Zenon
    <3>3. Decref(dst[u])' = Decref(dst[u]) /\ pc'[u] = pc[u]
      BY <1>1, <1>3, <3>2, Zenon
    <3>4. Decref(x)' = Decref(x)
      BY <1>1, <1>3, <3>1, <3>2, Zenon DEF Decref
    <3> QED
      BY <1>1, <3>1, <3>3, <3>4, Zenon DEF Leaving
  <2>2. ASSUME Leaving(x)'
        PROVE  Leaving(x)
    <3>1. PICK u \in PtrThreads : pc'[u] \in {"copy", "move", "reset"} /\ dst'[u] = x /\ todo'[u] # Decref(x)'
      BY <2>2, Zenon DEF Leaving
    <3>2. u \in PtrThreads \ {t} /\ pc[u] # "idle" /\ pc'[u] = pc[u] /\ dst[u] = x
      BY <1>1, <3>1, Zenon
    <3>4. Decref(x)' = Decref(x)
      BY <1>1, <1>3, <3>1, <3>2, Zenon DEF Decref
    <3> QED
      BY <1>1, <3>1, <3>2, <3>4, Zenon DEF Leaving
  <2> QED
    BY <2>1, <2>2, Zenon
<1>5. ~Leaving(dst[t])'
  <2>1. \A u \in PtrThreads : pc'[u] \in {"copy", "move", "reset"} => dst'[u] # dst'[t]
    BY <1>1, <1>3, Zenon
  <2> QED
    BY <2>1, Zenon DEF Leaving
<1>6. pc[t] # "acquire" /\ val[dst[t]] # NoCounter => Leaving(dst[t])
  <2>1. val[dst[t]] # NoCounter => Decref(dst[t]) # <<>>
    BY Zenon DEF Decref
  <2> QED
    BY <2>1, Zenon DEF Leaving, TypeOK
<1>7. src[t] \in SmartPointers /\ src[t] # dst[t] => ~Leaving(src[t])
  BY <1>3, Zenon DEF Leaving
<1>8. \A b : Orphans(b)' = Orphans(b) /\ Pending(b)' = Pending(b)
  BY <1>1, Zenon DEF Orphans, Pending
<1>9. \A u \in PtrThreads : \A b : Destroying(u, b)' <=> Destroying(u, b)
  BY <1>1, Zenon DEF Destroying
<1>10. CallsOK'
  <2>1. ASSUME NEW u \in PtrThreads, pc'[u] # "idle"
        PROVE  OperandsOK(u)'
    <3>1. u # t /\ pc[u] # "idle" /\ pc'[u] = pc[u] /\ OperandsOK(u)
      BY <1>1, <2>1, Zenon DEF CallsOK
    <3>2. pc[u] # "acquire" /\ src[u] \notin Counters
      BY <1>2, <3>1, OthersPlain, Zenon
    <3> QED
      BY <1>1, <3>1, <3>2, Zenon DEF OperandsOK
  <2> QED
    BY <2>1, Zenon DEF CallsOK
<1>11. ContractOK'
  BY <1>1, ZenonT(30) DEF ContractOK
<1>12. TodoOK'
  <2>1. ASSUME NEW u \in PtrThreads, todo[u] # <<>>
        PROVE  /\ pc'[u] \notin {"idle", "acquire"} /\ todo'[u] = todo[u] /\ val'[dst'[u]] # NoCounter
               /\ dst'[u] \in Weak => todo'[u] = Decref(dst[u])'
               /\ \A i \in 2..Len(todo'[u]) : todo'[u][i].op = "unfollow"
               /\ Len(todo'[u]) = 1 /\ todo'[u][1].op = "release" => todo'[u] = Decref(dst[u])'
    <3>1. u \in PtrThreads \ {t} /\ pc[u] # "idle"
      BY <2>1, Zenon DEF TodoOK
    <3>2. val'[dst[u]] = val[dst[u]] /\ Decref(dst[u])' = Decref(dst[u]) /\ pc'[u] = pc[u]
      BY <1>1, <1>3, <3>1, Zenon
    <3> QED
      BY <1>1, <2>1, <3>1, <3>2, Zenon DEF TodoOK
  <2>2. Len(<<>>) # 1 /\ 2..Len(<<>>) = {}
    OBVIOUS
  <2>3. ASSUME NEW u \in PtrThreads
        PROVE  /\ pc'[u] \in {"idle", "acquire"} => todo'[u] = <<>>
               /\ todo'[u] # <<>> => val'[dst'[u]] # NoCounter
               /\ dst'[u] \in Weak => todo'[u] = <<>> \/ todo'[u] = Decref(dst[u])'
               /\ \A i \in 2..Len(todo'[u]) : todo'[u][i].op = "unfollow"
               /\ Len(todo'[u]) = 1 /\ todo'[u][1].op = "release" => todo'[u] = Decref(dst[u])'
    <3>1. CASE todo[u] # <<>>
      BY <2>1, <3>1, Zenon
    <3>2. CASE todo[u] = <<>>
      <4>1. todo'[u] = <<>>
        BY <1>1, <3>2, Zenon
      <4> QED
        BY <2>2, <4>1, Zenon
    <3> QED
      BY <3>1, <3>2, Zenon
  <2> QED
    BY <2>3, Zenon DEF TodoOK
<1> QED
  BY <1>2, <1>4, <1>5, <1>6, <1>7, <1>8, <1>9, <1>10, <1>11, <1>12, ZenonT(60)


\* A call ends with one more owner of x, which has owners.
LEMMA OwnerGained ==
  ASSUME SharedPtrAssumption, Inv, NEW t \in PtrThreads, pc[t] \in {"copy", "acquire"}, todo[t] = <<>>,
         Return(t), UNCHANGED <<crew, state, weak, child>>, dst[t] \in Shared,
         NEW x \in Counters, strong[x] > 0,
         val' = [val EXCEPT ![dst[t]] = x], strong' = [strong EXCEPT ![x] = strong[x] + 1]
  PROVE  Inv'
<1> USE DEF Inv
<1>1. PICK p \in SmartPointers : p = dst[t] /\ p \in Shared /\ p \notin Weak
  BY Zenon DEF SmartPointers, SharedPtrAssumption
<1>2. /\ val' \in [SmartPointers -> Counters \union {NoCounter}] /\ val'[p] = x
      /\ \A y \in SmartPointers \ {p} : val'[y] = val[y]
      /\ strong'[x] = strong[x] + 1 /\ \A b \in Counters \ {x} : strong'[b] = strong[b]
      /\ strong' \in [Counters -> Int] /\ x # NoCounter
  BY <1>1 DEF TypeOK, SharedPtrAssumption
<1>3. /\ \A y \in SmartPointers \ {p} : Leaving(y)' <=> Leaving(y)
      /\ ~Leaving(p)'
      /\ pc[t] # "acquire" /\ val[p] # NoCounter => Leaving(p)
      /\ \A b : Orphans(b)' = Orphans(b) /\ Pending(b)' = Pending(b)
      /\ \A u \in PtrThreads : \A b : Destroying(u, b)' <=> Destroying(u, b)
      /\ CallsOK' /\ ContractOK' /\ TodoOK'
  <2>1. /\ pc[t] # "idle" /\ UNCHANGED crew
        /\ \A y \in SmartPointers : y # dst[t] /\ (pc[t] = "move" => y # src[t]) => val'[y] = val[y]
    BY <1>1, <1>2, Zenon
  <2>2. /\ \A y \in SmartPointers \ {dst[t]} : Leaving(y)' <=> Leaving(y)
        /\ ~Leaving(dst[t])'
        /\ pc[t] # "acquire" /\ val[dst[t]] # NoCounter => Leaving(dst[t])
        /\ \A b : Orphans(b)' = Orphans(b) /\ Pending(b)' = Pending(b)
        /\ \A u \in PtrThreads : \A b : Destroying(u, b)' <=> Destroying(u, b)
        /\ CallsOK' /\ ContractOK' /\ TodoOK'
    BY <1>2, <2>1, FinishStep, Zenon
  <2>3. ~Leaving(p)'
    BY <1>1, <2>2, Zenon DEF Return
  <2> QED
    BY <1>1, <2>2, <2>3, Zenon
<1>4. \A b \in Counters : p \notin Owners(b)
  BY <1>1, <1>3, Zenon DEF Owners, CallsOK, OperandsOK, SharedPtrAssumption
<1>5. /\ Owners(x)' = Owners(x) \union {p}
      /\ \A b \in Counters \ {x} : Owners(b)' = Owners(b)
      /\ \A b \in Counters : Watchers(b)' = Watchers(b) /\ Children(b)' = Children(b)
  <2>1. \A y \in Shared \ {p} : val'[y] = val[y] /\ (Leaving(y)' <=> Leaving(y))
    BY <1>2, <1>3, Zenon DEF SmartPointers
  <2>2. \A y \in Weak : val'[y] = val[y] /\ (Leaving(y)' <=> Leaving(y))
    BY <1>1, <1>2, <1>3, ZenonT(30) DEF SmartPointers
  <2>3. Owners(x)' = Owners(x) \union {p}
    <3>1. val'[p] = x /\ ~Leaving(p)' /\ p \in Shared
      BY <1>1, <1>2, <1>3, Zenon
    <3> QED
      BY <2>1, <3>1, Zenon DEF Owners
  <2>4. \A b \in Counters \ {x} : Owners(b)' = Owners(b)
    BY <1>1, <1>2, <1>4, <2>1 DEF Owners
  <2> QED
    BY <2>2, <2>3, <2>4, Zenon DEF Watchers, Children
<1>6. StrongOK'
  <2>1. ASSUME NEW b \in Counters \ {x}
        PROVE  strong'[b] = Cardinality(Owners(b)') + Cardinality(Children(b)') + Cardinality(Orphans(b)')
    BY <1>2, <1>3, <1>5, Zenon DEF StrongOK
  <2>2. strong'[x] = Cardinality(Owners(x)') + Cardinality(Children(x)') + Cardinality(Orphans(x)')
    <3>1. /\ IsFiniteSet(Owners(x)) /\ Cardinality(Children(x)) \in Nat /\ Cardinality(Orphans(x)) \in Nat
      BY Finite, Zenon
    <3>2. Cardinality(Owners(x) \union {p}) = Cardinality(Owners(x)) + 1 /\ Cardinality(Owners(x)) \in Nat
      BY <1>4, <3>1, CardAdd, Zenon
    <3>3. /\ Cardinality(Owners(x)') = Cardinality(Owners(x)) + 1
          /\ Cardinality(Children(x)') = Cardinality(Children(x))
          /\ Cardinality(Orphans(x)') = Cardinality(Orphans(x))
      BY <1>3, <1>5, <3>2, Zenon
    <3>4. strong[x] = Cardinality(Owners(x)) + Cardinality(Children(x)) + Cardinality(Orphans(x))
      BY Zenon DEF StrongOK
    <3> QED
      BY <1>2, <3>1, <3>2, <3>3, <3>4
  <2> QED
    BY <2>1, <2>2, Zenon DEF StrongOK
<1>7. WeakOK'
  BY <1>3, <1>5, Zenon DEF WeakOK
<1>8. StateOK'
  <2>1. \A b \in Counters : strong'[b] = strong[b] \/ (strong[b] > 0 /\ strong'[b] > 0)
    <3>1. strong[x] \in Int
      BY Zenon DEF TypeOK
    <3> QED
      BY <1>2, <3>1
  <2> QED
    BY <1>3, <2>1, StateKept, Zenon
<1>9. TypeOK'
  BY <1>2, Zenon DEF TypeOK, Return
<1> QED
  BY <1>3, <1>6, <1>7, <1>8, <1>9, Zenon

\* A call ends with one more weak pointer to x, which is there.
LEMMA WatcherGained ==
  ASSUME SharedPtrAssumption, Inv, NEW t \in PtrThreads, pc[t] = "copy", todo[t] = <<>>,
         Return(t), UNCHANGED <<crew, state, strong, child>>, dst[t] \in Weak,
         NEW x \in Counters, weak[x] # 0,
         val' = [val EXCEPT ![dst[t]] = x], weak' = [weak EXCEPT ![x] = weak[x] + 1]
  PROVE  Inv'
<1> USE DEF Inv
<1>1. PICK p \in SmartPointers : p = dst[t] /\ p \in Weak /\ p \notin Shared
  BY Zenon DEF SmartPointers, SharedPtrAssumption
<1>2. /\ val' \in [SmartPointers -> Counters \union {NoCounter}] /\ val'[p] = x
      /\ \A y \in SmartPointers \ {p} : val'[y] = val[y]
      /\ weak'[x] = weak[x] + 1 /\ \A b \in Counters \ {x} : weak'[b] = weak[b]
      /\ weak' \in [Counters -> Int] /\ x # NoCounter
  BY <1>1 DEF TypeOK, SharedPtrAssumption
<1>3. /\ \A y \in SmartPointers \ {p} : Leaving(y)' <=> Leaving(y)
      /\ ~Leaving(p)'
      /\ val[p] # NoCounter => Leaving(p)
      /\ \A b : Orphans(b)' = Orphans(b) /\ Pending(b)' = Pending(b)
      /\ \A u \in PtrThreads : \A b : Destroying(u, b)' <=> Destroying(u, b)
      /\ CallsOK' /\ ContractOK' /\ TodoOK'
  <2>1. /\ pc[t] # "idle" /\ UNCHANGED crew
        /\ \A y \in SmartPointers : y # dst[t] /\ (pc[t] = "move" => y # src[t]) => val'[y] = val[y]
    BY <1>1, <1>2, Zenon
  <2>2. /\ \A y \in SmartPointers \ {dst[t]} : Leaving(y)' <=> Leaving(y)
        /\ ~Leaving(dst[t])'
        /\ pc[t] # "acquire" /\ val[dst[t]] # NoCounter => Leaving(dst[t])
        /\ \A b : Orphans(b)' = Orphans(b) /\ Pending(b)' = Pending(b)
        /\ \A u \in PtrThreads : \A b : Destroying(u, b)' <=> Destroying(u, b)
        /\ CallsOK' /\ ContractOK' /\ TodoOK'
    BY <1>2, <2>1, FinishStep, Zenon
  <2>3. ~Leaving(p)'
    BY <1>1, <2>2, Zenon DEF Return
  <2> QED
    BY <1>1, <2>2, <2>3, Zenon
<1>4. \A b \in Counters : p \notin Watchers(b)
  BY <1>1, <1>3, Zenon DEF Watchers, SharedPtrAssumption
<1>5. /\ Watchers(x)' = Watchers(x) \union {p}
      /\ \A b \in Counters \ {x} : Watchers(b)' = Watchers(b)
      /\ \A b \in Counters : Owners(b)' = Owners(b) /\ Children(b)' = Children(b)
  <2>1. \A y \in Weak \ {p} : val'[y] = val[y] /\ (Leaving(y)' <=> Leaving(y))
    BY <1>2, <1>3, Zenon DEF SmartPointers
  <2>2. \A y \in Shared : val'[y] = val[y] /\ (Leaving(y)' <=> Leaving(y))
    BY <1>1, <1>2, <1>3, ZenonT(30) DEF SmartPointers
  <2>3. Watchers(x)' = Watchers(x) \union {p}
    <3>1. val'[p] = x /\ ~Leaving(p)' /\ p \in Weak
      BY <1>1, <1>2, <1>3, Zenon
    <3> QED
      BY <2>1, <3>1, Zenon DEF Watchers
  <2>4. \A b \in Counters \ {x} : Watchers(b)' = Watchers(b)
    BY <1>1, <1>2, <1>4, <2>1 DEF Watchers
  <2> QED
    BY <2>2, <2>3, <2>4, Zenon DEF Owners, Children
<1>6. WeakOK'
  <2>1. ASSUME NEW b \in Counters \ {x}
        PROVE  /\ IsFiniteSet(Pending(b)')
               /\ weak'[b] = Cardinality(Watchers(b)') + Cardinality(Pending(b)') + (IF state'[b] = "live" THEN 1 ELSE 0)
    BY <1>2, <1>3, <1>5, ZenonT(30) DEF WeakOK
  <2>2. /\ IsFiniteSet(Pending(x)')
        /\ weak'[x] = Cardinality(Watchers(x)') + Cardinality(Pending(x)') + (IF state'[x] = "live" THEN 1 ELSE 0)
    <3>1. /\ IsFiniteSet(Watchers(x)) /\ IsFiniteSet(Pending(x)) /\ Cardinality(Pending(x)) \in Nat
      BY Finite, FS_CardinalityType, Zenon DEF WeakOK
    <3>2. Cardinality(Watchers(x) \union {p}) = Cardinality(Watchers(x)) + 1 /\ Cardinality(Watchers(x)) \in Nat
      BY <1>4, <3>1, CardAdd, Zenon
    <3>3. /\ Cardinality(Watchers(x)') = Cardinality(Watchers(x)) + 1
          /\ Cardinality(Pending(x)') = Cardinality(Pending(x)) /\ IsFiniteSet(Pending(x)')
      BY <1>3, <1>5, <3>1, <3>2, Zenon
    <3>4. weak[x] = Cardinality(Watchers(x)) + Cardinality(Pending(x)) + (IF state[x] = "live" THEN 1 ELSE 0)
      BY Zenon DEF WeakOK
    <3> QED
      BY <1>2, <3>1, <3>2, <3>3, <3>4
  <2> QED
    BY <2>1, <2>2, Zenon DEF WeakOK
<1>7. StrongOK'
  BY <1>3, <1>5, Zenon DEF StrongOK
<1>8. StateOK'
  <2>1. \A b \in Counters : weak'[b] = weak[b] \/ (weak[b] # 0 /\ weak'[b] # 0)
    <3>1. weak[x] \in Nat
      BY WatchedBlock, Zenon
    <3> QED
      BY <1>2, <3>1
  <2> QED
    BY <1>3, <2>1, StateKept, Zenon
<1>9. TypeOK'
  BY <1>2, Zenon DEF TypeOK, Return
<1> QED
  BY <1>3, <1>6, <1>7, <1>8, <1>9, Zenon


\* A call ends with its pointer empty.
LEMMA PointerCleared ==
  ASSUME SharedPtrAssumption, Inv, NEW t \in PtrThreads, pc[t] \in {"copy", "reset"}, todo[t] = <<>>,
         Return(t), UNCHANGED <<crew, blocks>>, val' = [val EXCEPT ![dst[t]] = NoCounter]
  PROVE  Inv'
<1> USE DEF Inv
<1>1. /\ dst[t] \in SmartPointers /\ val' \in [SmartPointers -> Counters \union {NoCounter}] /\ val'[dst[t]] = NoCounter
      /\ \A y \in SmartPointers \ {dst[t]} : val'[y] = val[y]
      /\ state' = state /\ strong' = strong /\ weak' = weak /\ child' = child /\ crew' = crew
  BY Zenon DEF TypeOK, CallsOK, OperandsOK, blocks
<1>2. /\ \A y \in SmartPointers \ {dst[t]} : Leaving(y)' <=> Leaving(y)
      /\ val[dst[t]] # NoCounter => Leaving(dst[t])
      /\ \A b : Orphans(b)' = Orphans(b) /\ Pending(b)' = Pending(b)
      /\ \A u \in PtrThreads : \A b : Destroying(u, b)' <=> Destroying(u, b)
      /\ CallsOK' /\ ContractOK' /\ TodoOK'
  <2>1. pc[t] # "idle" /\ UNCHANGED crew /\ pc[t] # "acquire"
    BY <1>1, Zenon
  <2> QED
    BY <1>1, <2>1, FinishStep, Zenon
<1>3. \A b \in Counters : Owners(b)' = Owners(b) /\ Watchers(b)' = Watchers(b) /\ Children(b)' = Children(b)
  <2>1. PICK p \in SmartPointers : p = dst[t]
    BY <1>1, Zenon
  <2>2. \A b \in Counters : b # NoCounter /\ p \notin Owners(b) /\ p \notin Watchers(b)
    BY <1>2, <2>1, Zenon DEF Owners, Watchers, SharedPtrAssumption
  <2>3. \A y \in SmartPointers \ {p} : val'[y] = val[y] /\ (Leaving(y)' <=> Leaving(y))
    BY <1>1, <1>2, <2>1, Zenon
  <2>4. Shared \subseteq SmartPointers /\ Weak \subseteq SmartPointers /\ val'[p] = NoCounter
    BY <1>1, <2>1, Zenon DEF SmartPointers
  <2>5. \A b \in Counters : Owners(b)' = Owners(b)
    BY <2>2, <2>3, <2>4, Zenon DEF Owners
  <2>6. \A b \in Counters : Watchers(b)' = Watchers(b)
    BY <2>2, <2>3, <2>4, Zenon DEF Watchers
  <2> QED
    BY <1>1, <2>5, <2>6, Zenon DEF Children
<1>4. StrongOK' /\ WeakOK' /\ StateOK'
  BY <1>1, <1>2, <1>3, StateKept, Zenon DEF StrongOK, WeakOK
<1>5. TypeOK'
  BY <1>1, Zenon DEF TypeOK, Return
<1> QED
  BY <1>2, <1>4, <1>5, Zenon

\* copy_construct_from: what is copied has an owner, or is a weak pointer.
LEMMA CopyInv ==
  ASSUME SharedPtrAssumption, Inv, UNCHANGED crew, NEW t \in PtrThreads, Copy(t)
  PROVE  Inv'
<1> USE DEF Inv
<1>1. /\ pc[t] = "copy" /\ todo[t] = <<>> /\ Return(t) /\ UNCHANGED <<state, child>>
      /\ val' = [val EXCEPT ![dst[t]] = Source(t)] /\ OperandsOK(t)
      /\ dst[t] \in SmartPointers /\ src[t] # dst[t] /\ src[t] \in SmartPointers \union Counters
      /\ dst[t] \in Shared => src[t] \in Shared \union Counters
  BY Zenon DEF Copy, Ready, CallsOK, OperandsOK
<1>2. PICK x \in Counters \union {NoCounter} : x = Source(t)
  BY <1>1, Zenon DEF TypeOK, Source
<1>3. CASE x = NoCounter
  <2>1. UNCHANGED <<crew, blocks>> /\ val' = [val EXCEPT ![dst[t]] = NoCounter]
    BY <1>1, <1>2, <1>3, Zenon DEF Copy, blocks
  <2> QED
    BY <1>1, <2>1, PointerCleared, Zenon
<1>4. CASE x # NoCounter
  <2>1. x \in Counters /\ x = IF src[t] \in Counters THEN child[src[t]] ELSE val[src[t]]
    BY <1>2, <1>4, Zenon DEF Source
  <2>2. src[t] \in SmartPointers => ~Leaving(src[t]) /\ src[t] \notin Counters
    <3>1. \A u \in PtrThreads : pc[u] # "idle" => dst[u] # src[t]
      BY <1>1, Zenon DEF ContractOK
    <3> QED
      BY <3>1, Zenon DEF Leaving, SharedPtrAssumption
  <2>3. /\ src[t] \in Shared => src[t] \in Owners(x)
        /\ src[t] \in Weak => src[t] \in Watchers(x)
        /\ src[t] \in Counters => src[t] \in Children(x)
    BY <2>1, <2>2, Zenon DEF Owners, Watchers, Children, SmartPointers
  <2>4. CASE dst[t] \in Shared
    <3>1. strong[x] > 0
      BY <1>1, <2>1, <2>3, <2>4, OwnedBlock, Zenon
    <3>2. /\ val' = [val EXCEPT ![dst[t]] = x] /\ strong' = [strong EXCEPT ![x] = strong[x] + 1]
          /\ UNCHANGED <<crew, state, weak, child>>
      BY <1>1, <1>2, <1>4, <2>4, Zenon DEF Copy
    <3> QED
      BY <1>1, <2>1, <2>4, <3>1, <3>2, OwnerGained, Zenon
  <2>5. CASE dst[t] \notin Shared
    <3>1. weak[x] # 0
      <4>1. CASE src[t] \in Weak
        BY <2>1, <2>3, <4>1, WatchedBlock
      <4>2. CASE src[t] \in Shared \union Counters
        BY <2>1, <2>3, <4>2, OwnedBlock, Zenon
      <4> QED
        BY <1>1, <4>1, <4>2, Zenon DEF SmartPointers
    <3>2. /\ val' = [val EXCEPT ![dst[t]] = x] /\ weak' = [weak EXCEPT ![x] = weak[x] + 1]
          /\ UNCHANGED <<crew, state, strong, child>>
      BY <1>1, <1>2, <1>4, <2>5, Zenon DEF Copy
    <3>3. dst[t] \in Weak
      BY <1>1, <2>5, Zenon DEF SmartPointers
    <3> QED
      BY <1>1, <2>1, <3>1, <3>2, <3>3, WatcherGained, Zenon
  <2> QED
    BY <2>4, <2>5, Zenon
<1> QED
  BY <1>3, <1>4, Zenon

\* reset() ends.
LEMMA ClearInv ==
  ASSUME SharedPtrAssumption, Inv, UNCHANGED crew, NEW t \in PtrThreads, Clear(t)
  PROVE  Inv'
<1>1. /\ pc[t] = "reset" /\ todo[t] = <<>> /\ Return(t) /\ UNCHANGED <<crew, blocks>>
      /\ val' = [val EXCEPT ![dst[t]] = NoCounter]
  BY Zenon DEF Clear, Ready
<1> QED
  BY <1>1, PointerCleared, Zenon

\* Acquire(): the strong counter that was tested has not changed since.
LEMMA LockAcquireInv ==
  ASSUME SharedPtrAssumption, Inv, UNCHANGED crew, NEW t \in PtrThreads, LockAcquire(t)
  PROVE  Inv'
<1> USE DEF Inv
<1>1. /\ pc[t] = "acquire" /\ todo[t] = <<>> /\ Return(t) /\ UNCHANGED <<crew, state, weak, child>>
      /\ val' = [val EXCEPT ![dst[t]] = val[src[t]]]
      /\ strong' = [strong EXCEPT ![val[src[t]]] = strong[val[src[t]]] + 1]
  BY Zenon DEF LockAcquire, Ready
<1>2. dst[t] \in Shared /\ src[t] \in Weak /\ val[src[t]] # NoCounter /\ strong[val[src[t]]] > 0
  BY <1>1, Zenon DEF CallsOK, OperandsOK
<1>3. PICK x \in Counters : x = val[src[t]]
  BY <1>2, Zenon DEF TypeOK, SmartPointers
<1>4. val' = [val EXCEPT ![dst[t]] = x] /\ strong' = [strong EXCEPT ![x] = strong[x] + 1] /\ strong[x] > 0
  BY <1>1, <1>2, <1>3, Zenon
<1> QED
  BY <1>1, <1>2, <1>4, OwnerGained, Zenon


\* A set in which one element may take the place of another.
LEMMA Exchange ==
  ASSUME NEW H, IsFiniteSet(H), NEW G, NEW p, NEW q, p # q,
         \A y : y \notin {p, q} => (y \in G <=> y \in H),
         p \in G <=> q \in H, q \in G <=> p \in H
  PROVE  Cardinality(G) = Cardinality(H)
<1>1. CASE p \in H /\ q \notin H
  <2>1. G = (H \ {p}) \union {q} /\ q \notin H \ {p}
    BY <1>1, Zenon
  <2>2. IsFiniteSet(H \ {p}) /\ Cardinality(H \ {p}) = Cardinality(H) - 1 /\ Cardinality(H) \in Nat
    BY <1>1, CardRemove, Zenon
  <2>3. Cardinality((H \ {p}) \union {q}) = Cardinality(H \ {p}) + 1
    BY <2>1, <2>2, CardAdd, Zenon
  <2> QED
    BY <2>1, <2>2, <2>3
<1>2. CASE q \in H /\ p \notin H
  <2>1. G = (H \ {q}) \union {p} /\ p \notin H \ {q}
    BY <1>2, Zenon
  <2>2. IsFiniteSet(H \ {q}) /\ Cardinality(H \ {q}) = Cardinality(H) - 1 /\ Cardinality(H) \in Nat
    BY <1>2, CardRemove, Zenon
  <2>3. Cardinality((H \ {q}) \union {p}) = Cardinality(H \ {q}) + 1
    BY <2>1, <2>2, CardAdd, Zenon
  <2> QED
    BY <2>1, <2>2, <2>3
<1>3. CASE p \in H <=> q \in H
  <2>1. G = H
    BY <1>3
  <2> QED
    BY <2>1, Zenon
<1> QED
  BY <1>1, <1>2, <1>3, Zenon

\* One pointer takes the place of another of its kind.
LEMMA ExchangeInv ==
  ASSUME SharedPtrAssumption, Inv, NEW p \in SmartPointers, NEW q \in SmartPointers, p # q, p \in Shared <=> q \in Shared,
         UNCHANGED blocks, TypeOK', CallsOK', ContractOK', TodoOK',
         \A y \in SmartPointers \ {p, q} : val'[y] = val[y] /\ (Leaving(y)' <=> Leaving(y)),
         \A b \in Counters : (val'[p] = b /\ ~Leaving(p)') <=> (val[q] = b /\ ~Leaving(q)),
         \A b \in Counters : (val'[q] = b /\ ~Leaving(q)') <=> (val[p] = b /\ ~Leaving(p)),
         \A b \in Counters : Orphans(b)' = Orphans(b) /\ Pending(b)' = Pending(b),
         \A u \in PtrThreads : \A b : Destroying(u, b)' <=> Destroying(u, b)
  PROVE  Inv'
<1> USE DEF Inv
<1>1. state' = state /\ strong' = strong /\ weak' = weak /\ child' = child
  BY Zenon DEF blocks
<1>2. ASSUME NEW b \in Counters
      PROVE  /\ Cardinality(Owners(b)') = Cardinality(Owners(b))
             /\ Cardinality(Watchers(b)') = Cardinality(Watchers(b))
             /\ Children(b)' = Children(b)
  <2>1. p \in Weak <=> q \in Weak
    BY Zenon DEF SmartPointers, SharedPtrAssumption
  <2>2. Shared \subseteq SmartPointers /\ Weak \subseteq SmartPointers
    BY Zenon DEF SmartPointers
  <2>3. /\ \A y : y \notin {p, q} => (y \in Owners(b)' <=> y \in Owners(b))
        /\ p \in Owners(b)' <=> q \in Owners(b)
        /\ q \in Owners(b)' <=> p \in Owners(b)
    BY <2>2, Zenon DEF Owners
  <2>4. /\ \A y : y \notin {p, q} => (y \in Watchers(b)' <=> y \in Watchers(b))
        /\ p \in Watchers(b)' <=> q \in Watchers(b)
        /\ q \in Watchers(b)' <=> p \in Watchers(b)
    BY <2>1, <2>2, Zenon DEF Watchers
  <2>5. IsFiniteSet(Owners(b)) /\ IsFiniteSet(Watchers(b))
    BY Finite, Zenon
  <2>6. Cardinality(Owners(b)') = Cardinality(Owners(b))
    BY <2>3, <2>5, Exchange, Zenon
  <2>7. Cardinality(Watchers(b)') = Cardinality(Watchers(b))
    BY <2>4, <2>5, Exchange, Zenon
  <2> QED
    BY <1>1, <2>6, <2>7, Zenon DEF Children
<1>3. StrongOK' /\ WeakOK'
  BY <1>1, <1>2, Zenon DEF StrongOK, WeakOK
<1>4. StateOK'
  BY <1>1, StateKept, Zenon
<1> QED
  BY <1>3, <1>4, Zenon

\* The move assignments end.
LEMMA MoveInv ==
  ASSUME SharedPtrAssumption, Inv, UNCHANGED crew, NEW t \in PtrThreads, Move(t)
  PROVE  Inv'
<1> USE DEF Inv
<1>1. /\ pc[t] = "move" /\ todo[t] = <<>> /\ Return(t) /\ UNCHANGED blocks /\ UNCHANGED crew
      /\ val' = [val EXCEPT ![dst[t]] = val[src[t]], ![src[t]] = NoCounter]
  BY Zenon DEF Move, Ready
<1>2. PICK p \in SmartPointers, q \in SmartPointers :
        p = dst[t] /\ q = src[t] /\ p # q /\ (p \in Shared <=> q \in Shared)
  BY <1>1, Zenon DEF CallsOK, OperandsOK
<1>3. /\ val' \in [SmartPointers -> Counters \union {NoCounter}] /\ val'[p] = val[q] /\ val'[q] = NoCounter
      /\ \A y \in SmartPointers \ {p, q} : val'[y] = val[y]
  BY <1>1, <1>2, Zenon DEF TypeOK
<1>4. /\ \A y \in SmartPointers \ {dst[t]} : Leaving(y)' <=> Leaving(y)
      /\ ~Leaving(dst[t])'
      /\ val[dst[t]] # NoCounter => Leaving(dst[t])
      /\ ~Leaving(src[t])
      /\ \A b : Orphans(b)' = Orphans(b) /\ Pending(b)' = Pending(b)
      /\ \A u \in PtrThreads : \A b : Destroying(u, b)' <=> Destroying(u, b)
      /\ CallsOK' /\ ContractOK' /\ TodoOK'
  <2>1. /\ pc[t] # "idle" /\ pc[t] # "acquire" /\ src[t] \in SmartPointers /\ src[t] # dst[t]
        /\ \A y \in SmartPointers : y # dst[t] /\ (pc[t] = "move" => y # src[t]) => val'[y] = val[y]
    BY <1>1, <1>2, <1>3, Zenon
  <2> QED
    BY <1>1, <1>3, <2>1, FinishStep, Zenon
<1>5. TypeOK'
  BY <1>1, <1>3, Zenon DEF TypeOK, Return, blocks
<1>6. ~Leaving(p)' /\ ~Leaving(q)' /\ ~Leaving(q) /\ (val[p] # NoCounter => Leaving(p))
  <2>1. ~Leaving(p)'
    BY <1>1, <1>2, <1>4, Zenon DEF Return
  <2> QED
    BY <1>2, <1>4, <2>1, Zenon
<1>7. /\ \A b \in Counters : (val'[p] = b /\ ~Leaving(p)') <=> (val[q] = b /\ ~Leaving(q))
      /\ \A b \in Counters : (val'[q] = b /\ ~Leaving(q)') <=> (val[p] = b /\ ~Leaving(p))
      /\ \A y \in SmartPointers \ {p, q} : val'[y] = val[y] /\ (Leaving(y)' <=> Leaving(y))
      /\ \A b \in Counters : Orphans(b)' = Orphans(b) /\ Pending(b)' = Pending(b)
  BY <1>2, <1>3, <1>4, <1>6, Zenon DEF SharedPtrAssumption
<1> QED
  <2>1. /\ UNCHANGED blocks /\ p # q /\ (p \in Shared <=> q \in Shared)
        /\ TypeOK' /\ CallsOK' /\ ContractOK' /\ TodoOK'
        /\ \A u \in PtrThreads : \A b : Destroying(u, b)' <=> Destroying(u, b)
    BY <1>1, <1>2, <1>4, <1>5, Zenon
  <2> HIDE DEF Inv
  <2> QED
    BY <1>7, <2>1, ExchangeInv, Zenon


\* A call of one step changes pointers that no other call uses.
LEMMA IdleStep ==
  ASSUME SharedPtrAssumption, TypeOK, CallsOK, ContractOK, TodoOK, NEW t \in crew, pc[t] = "idle",
         UNCHANGED <<crew, call>>, \A y \in SmartPointers : Unused(y) \/ val'[y] = val[y]
  PROVE  /\ \A y \in SmartPointers : Leaving(y)' <=> Leaving(y)
         /\ \A y \in SmartPointers : Unused(y) => ~Leaving(y)
         /\ \A b : Orphans(b)' = Orphans(b) /\ Pending(b)' = Pending(b)
         /\ \A u \in PtrThreads : \A b : Destroying(u, b)' <=> Destroying(u, b)
         /\ CallsOK' /\ ContractOK' /\ TodoOK'
<1>1. pc' = pc /\ dst' = dst /\ src' = src /\ todo' = todo /\ crew' = crew
  BY Zenon DEF call
<1>2. ASSUME NEW u \in PtrThreads, pc[u] # "idle"
      PROVE  dst[u] \in SmartPointers /\ val'[dst[u]] = val[dst[u]] /\ Decref(dst[u])' = Decref(dst[u])
  <2>1. dst[u] \in SmartPointers /\ ~Unused(dst[u])
    BY <1>2, Zenon DEF CallsOK, OperandsOK, Unused
  <2> QED
    BY <1>1, <2>1, Zenon DEF Decref
<1>3. ASSUME NEW y \in SmartPointers
      PROVE  Leaving(y)' <=> Leaving(y)
  <2>1. \A u \in PtrThreads : pc[u] # "idle" /\ dst[u] = y => Decref(y)' = Decref(y)
    BY <1>1, <1>2, Zenon DEF Decref
  <2>2. \A u \in PtrThreads : pc[u] \in {"copy", "move", "reset"} /\ dst[u] = y => Decref(y)' = Decref(y)
    BY <2>1, Zenon
  <2> QED
    BY <1>1, <2>2, Zenon DEF Leaving
<1>4. \A y \in SmartPointers : Unused(y) => ~Leaving(y)
  BY Zenon DEF Unused, Leaving
<1>5. /\ \A b : Orphans(b)' = Orphans(b) /\ Pending(b)' = Pending(b)
      /\ \A u \in PtrThreads : \A b : Destroying(u, b)' <=> Destroying(u, b)
  BY <1>1, Zenon DEF Orphans, Pending, Destroying
<1>6. CallsOK'
  <2>1. ASSUME NEW u \in PtrThreads, pc'[u] # "idle"
        PROVE  OperandsOK(u)'
    <3>1. u # t /\ pc[u] # "idle" /\ OperandsOK(u)
      BY <1>1, <2>1, Zenon DEF CallsOK
    <3>2. pc[u] # "acquire" /\ src[u] \notin Counters
      BY <3>1, OthersPlain, Zenon
    <3> QED
      BY <1>1, <3>1, <3>2, Zenon DEF OperandsOK
  <2> QED
    BY <2>1, Zenon DEF CallsOK
<1>7. ContractOK'
  BY <1>1, Zenon DEF ContractOK
<1>8. TodoOK'
  <2>1. ASSUME NEW u \in PtrThreads, todo[u] # <<>>
        PROVE  /\ pc'[u] \notin {"idle", "acquire"} /\ todo'[u] = todo[u] /\ val'[dst'[u]] # NoCounter
               /\ dst'[u] \in Weak => todo'[u] = Decref(dst[u])'
               /\ \A i \in 2..Len(todo'[u]) : todo'[u][i].op = "unfollow"
               /\ Len(todo'[u]) = 1 /\ todo'[u][1].op = "release" => todo'[u] = Decref(dst[u])'
    <3>1. pc[u] # "idle"
      BY <2>1, Zenon DEF TodoOK
    <3>2. val'[dst[u]] = val[dst[u]] /\ Decref(dst[u])' = Decref(dst[u])
      BY <1>2, <3>1, Zenon
    <3> QED
      BY <1>1, <2>1, <3>2, Zenon DEF TodoOK
  <2>2. \A u \in PtrThreads : todo'[u] = todo[u] /\ Len(<<>>) # 1 /\ 2..Len(<<>>) = {}
    BY <1>1
  <2> QED
    BY <2>1, <2>2 DEF TodoOK
<1> QED
  BY <1>3, <1>4, <1>5, <1>6, <1>7, <1>8, Zenon

\* swap().
LEMMA SwapInv ==
  ASSUME SharedPtrAssumption, Inv, UNCHANGED crew, NEW t \in crew, NEW p \in SmartPointers, NEW q \in SmartPointers,
         Swap(t, p, q)
  PROVE  Inv'
<1> USE DEF Inv
<1>1. /\ p # q /\ (p \in Shared <=> q \in Shared) /\ pc[t] = "idle" /\ Unused(p) /\ Unused(q)
      /\ UNCHANGED blocks /\ UNCHANGED <<crew, call>>
      /\ val' \in [SmartPointers -> Counters \union {NoCounter}] /\ val'[p] = val[q] /\ val'[q] = val[p]
      /\ \A y \in SmartPointers \ {p, q} : val'[y] = val[y]
  BY Zenon DEF Swap, TypeOK
<1>2. /\ \A y \in SmartPointers : Leaving(y)' <=> Leaving(y)
      /\ \A y \in SmartPointers : Unused(y) => ~Leaving(y)
      /\ \A b : Orphans(b)' = Orphans(b) /\ Pending(b)' = Pending(b)
      /\ \A u \in PtrThreads : \A b : Destroying(u, b)' <=> Destroying(u, b)
      /\ CallsOK' /\ ContractOK' /\ TodoOK'
  <2>1. \A y \in SmartPointers : Unused(y) \/ val'[y] = val[y]
    BY <1>1, Zenon
  <2> QED
    BY <1>1, <2>1, IdleStep, Zenon
<1>3. TypeOK'
  BY <1>1, Zenon DEF TypeOK, blocks, call
<1>4. /\ \A b \in Counters : (val'[p] = b /\ ~Leaving(p)') <=> (val[q] = b /\ ~Leaving(q))
      /\ \A b \in Counters : (val'[q] = b /\ ~Leaving(q)') <=> (val[p] = b /\ ~Leaving(p))
      /\ \A y \in SmartPointers \ {p, q} : val'[y] = val[y] /\ (Leaving(y)' <=> Leaving(y))
      /\ \A b \in Counters : Orphans(b)' = Orphans(b) /\ Pending(b)' = Pending(b)
  BY <1>1, <1>2, Zenon
<1> HIDE DEF Inv
<1> QED
  BY <1>1, <1>2, <1>3, <1>4, ExchangeInv, Zenon

\* shared_ptr(ptr), make_shared: a free block has no pointers to it.
LEMMA MakeInv ==
  ASSUME SharedPtrAssumption, Inv, UNCHANGED crew, NEW t \in crew, NEW p \in Shared, Make(t, p)
  PROVE  Inv'
<1> USE DEF Inv
<1>1. PICK x \in Counters :
        /\ pc[t] = "idle" /\ Unused(p) /\ val[p] = NoCounter /\ state[x] = "free" /\ UNCHANGED <<crew, call>>
        /\ val' = [val EXCEPT ![p] = x] /\ state' = [state EXCEPT ![x] = "live"]
        /\ strong' = [strong EXCEPT ![x] = 1] /\ weak' = [weak EXCEPT ![x] = 1]
        /\ child' = [child EXCEPT ![x] = NoCounter]
  BY Zenon DEF Make
<1>2. /\ p \in SmartPointers /\ p \notin Weak /\ x # NoCounter
      /\ val' \in [SmartPointers -> Counters \union {NoCounter}] /\ val'[p] = x
      /\ \A y \in SmartPointers \ {p} : val'[y] = val[y]
      /\ state'[x] = "live" /\ strong'[x] = 1 /\ weak'[x] = 1 /\ child'[x] = NoCounter
      /\ \A b \in Counters \ {x} : /\ state'[b] = state[b] /\ strong'[b] = strong[b] /\ weak'[b] = weak[b]
                                   /\ child'[b] = child[b]
  BY <1>1, Zenon DEF SmartPointers, TypeOK, SharedPtrAssumption
<1>3. /\ \A y \in SmartPointers : Leaving(y)' <=> Leaving(y)
      /\ \A y \in SmartPointers : Unused(y) => ~Leaving(y)
      /\ \A b : Orphans(b)' = Orphans(b) /\ Pending(b)' = Pending(b)
      /\ \A u \in PtrThreads : \A b : Destroying(u, b)' <=> Destroying(u, b)
      /\ CallsOK' /\ ContractOK' /\ TodoOK'
  <2>1. \A y \in SmartPointers : Unused(y) \/ val'[y] = val[y]
    BY <1>1, <1>2, ZenonT(60)
  <2> QED
    BY <1>1, <2>1, IdleStep, Zenon
<1>4. /\ strong[x] = 0 /\ weak[x] = 0 /\ child[x] = NoCounter /\ \A u \in PtrThreads : ~Destroying(u, x)
  <2>1. ~(strong[x] > 0) /\ weak[x] = 0 /\ child[x] = NoCounter /\ \A u \in PtrThreads : ~Destroying(u, x)
    BY <1>1, Zenon DEF StateOK
  <2>2. strong[x] \in Nat
    BY StrongNat, Zenon
  <2> QED
    BY <2>1, <2>2
<1>5. /\ p \notin Owners(x) /\ Owners(x)' = Owners(x) \union {p}
      /\ \A b \in Counters \ {x} : Owners(b)' = Owners(b)
      /\ \A b \in Counters : Watchers(b)' = Watchers(b) /\ Children(b)' = Children(b)
  <2>1. \A y \in Shared \ {p} : val'[y] = val[y] /\ (Leaving(y)' <=> Leaving(y))
    BY <1>2, <1>3, Zenon DEF SmartPointers
  <2>2. \A y \in Weak : val'[y] = val[y] /\ (Leaving(y)' <=> Leaving(y))
    BY <1>2, <1>3, Zenon DEF SmartPointers
  <2>3. ~Leaving(p)' /\ \A b \in Counters : p \notin Owners(b)
    <3>1. ~Leaving(p)'
      BY <1>1, <1>2, <1>3, Zenon
    <3>2. \A b \in Counters : p \notin Owners(b)
      BY <1>1, Zenon DEF Owners, SharedPtrAssumption
    <3> QED
      BY <3>1, <3>2, Zenon
  <2>4. Owners(x)' = Owners(x) \union {p}
    BY <1>2, <2>1, <2>3, ZenonT(30) DEF Owners
  <2>5. ASSUME NEW b \in Counters \ {x}
        PROVE  Owners(b)' = Owners(b)
    <3>1. p \notin Owners(b) /\ p \notin Owners(b)'
      BY <1>2, <2>3, Zenon DEF Owners
    <3>2. \A y \in Shared \ {p} : y \in Owners(b)' <=> y \in Owners(b)
      BY <2>1, Zenon DEF Owners
    <3>3. Owners(b) \subseteq Shared /\ Owners(b)' \subseteq Shared
      BY Zenon DEF Owners
    <3> QED
      BY <3>1, <3>2, <3>3, SMTT(30)
  <2>6. \A b \in Counters : child'[b] = child[b]
    BY <1>2, <1>4, Zenon
  <2>7. \A b \in Counters : Watchers(b)' = Watchers(b)
    BY <2>2, Zenon DEF Watchers
  <2>8. \A b \in Counters : Children(b)' = Children(b)
    BY <2>6, Zenon DEF Children
  <2> QED
    BY <2>3, <2>4, <2>5, <2>7, <2>8, Zenon
<1>6. StrongOK'
  <2>1. ASSUME NEW b \in Counters \ {x}
        PROVE  strong'[b] = Cardinality(Owners(b)') + Cardinality(Children(b)') + Cardinality(Orphans(b)')
    BY <1>2, <1>3, <1>5, ZenonT(30) DEF StrongOK
  <2>2. strong'[x] = Cardinality(Owners(x)') + Cardinality(Children(x)') + Cardinality(Orphans(x)')
    <3>1. /\ IsFiniteSet(Owners(x)) /\ Cardinality(Children(x)) \in Nat /\ Cardinality(Orphans(x)) \in Nat
      BY Finite, ZenonT(60)
    <3>2. Cardinality(Owners(x) \union {p}) = Cardinality(Owners(x)) + 1 /\ Cardinality(Owners(x)) \in Nat
      BY <1>5, <3>1, CardAdd, Zenon
    <3>3. /\ Cardinality(Owners(x)') = Cardinality(Owners(x)) + 1
          /\ Cardinality(Children(x)') = Cardinality(Children(x))
          /\ Cardinality(Orphans(x)') = Cardinality(Orphans(x))
      BY <1>3, <1>5, <3>2, Zenon
    <3>4. 0 = Cardinality(Owners(x)) + Cardinality(Children(x)) + Cardinality(Orphans(x))
      BY <1>4, Zenon DEF StrongOK
    <3> QED
      BY <1>2, <3>1, <3>2, <3>3, <3>4, SMTT(30)
  <2> QED
    BY <2>1, <2>2, Zenon DEF StrongOK
<1>7. WeakOK'
  <2>1. ASSUME NEW b \in Counters \ {x}
        PROVE  /\ IsFiniteSet(Pending(b)')
               /\ weak'[b] = Cardinality(Watchers(b)') + Cardinality(Pending(b)') + (IF state'[b] = "live" THEN 1 ELSE 0)
    <3>1. /\ Pending(b)' = Pending(b) /\ Watchers(b)' = Watchers(b)
          /\ weak'[b] = weak[b] /\ state'[b] = state[b]
      BY <1>2, <1>3, <1>5, ZenonT(60)
    <3> QED
      BY <3>1, Zenon DEF WeakOK
  <2>2. /\ IsFiniteSet(Pending(x)')
        /\ weak'[x] = Cardinality(Watchers(x)') + Cardinality(Pending(x)') + (IF state'[x] = "live" THEN 1 ELSE 0)
    <3>1. /\ Cardinality(Watchers(x)) \in Nat /\ IsFiniteSet(Pending(x)) /\ Cardinality(Pending(x)) \in Nat
      BY Finite, FS_CardinalityType, Zenon DEF WeakOK
    <3>2. 0 = Cardinality(Watchers(x)) + Cardinality(Pending(x))
      BY <1>1, <1>4, <3>1 DEF WeakOK
    <3>3. Watchers(x)' = Watchers(x) /\ Pending(x)' = Pending(x)
      BY <1>3, <1>5, Zenon
    <3> QED
      BY <1>2, <3>1, <3>2, <3>3, SMTT(30)
  <2> QED
    BY <2>1, <2>2, ZenonT(30) DEF WeakOK
<1>8. StateOK'
  <2>1. ASSUME NEW b \in Counters \ {x}
        PROVE  /\ (state[b] = "live" <=> (strong[b] > 0 \/ \E u \in PtrThreads : Destroying(u, b)))'
               /\ \A u, v \in PtrThreads : (Destroying(u, b) /\ Destroying(v, b) => u = v)'
               /\ \A u \in PtrThreads : (Destroying(u, b) => strong[b] = 0)'
               /\ (state[b] = "free" <=> weak[b] = 0)'
               /\ (child[b] # NoCounter => state[b] = "live")'
    <3>1. /\ state'[b] = state[b] /\ strong'[b] = strong[b] /\ weak'[b] = weak[b] /\ child'[b] = child[b]
          /\ \A u \in PtrThreads : Destroying(u, b)' <=> Destroying(u, b)
      BY <1>2, <1>3, Zenon
    <3> QED
      BY <3>1, SMTT(30) DEF StateOK
  <2>2. \A u \in PtrThreads : ~Destroying(u, x)'
    BY <1>3, <1>4, Zenon
  <2>3. /\ (state[x] = "live" <=> (strong[x] > 0 \/ \E u \in PtrThreads : Destroying(u, x)))'
        /\ \A u, v \in PtrThreads : (Destroying(u, x) /\ Destroying(v, x) => u = v)'
        /\ \A u \in PtrThreads : (Destroying(u, x) => strong[x] = 0)'
        /\ (state[x] = "free" <=> weak[x] = 0)'
        /\ (child[x] # NoCounter => state[x] = "live")'
    <3>1. state'[x] = "live" /\ strong'[x] = 1 /\ weak'[x] = 1 /\ (child'[x] # NoCounter => state'[x] = "live")
      BY <1>2, Zenon
    <3>2. strong'[x] > 0 /\ ~(state'[x] = "free") /\ ~(weak'[x] = 0)
      BY <3>1
    <3> QED
      BY <2>2, <3>1, <3>2, Zenon
  <2> QED
    BY <2>1, <2>3, ZenonT(30) DEF StateOK
<1>9. TypeOK'
  BY <1>1, <1>2 DEF TypeOK, call
<1> QED
  BY <1>3, <1>6, <1>7, <1>8, <1>9, Zenon


\* q->child = p: both objects have owners.
LEMMA SetChildInv ==
  ASSUME SharedPtrAssumption, Inv, UNCHANGED crew, NEW t \in crew, NEW p \in Shared, NEW q \in Shared,
         SetChild(t, q, p)
  PROVE  Inv'
<1> USE DEF Inv
<1>1. PICK x \in Counters, b0 \in Counters :
        /\ pc[t] = "idle" /\ Readable(p) /\ Readable(q) /\ x = val[p] /\ b0 = val[q] /\ child[b0] = NoCounter
        /\ child' = [child EXCEPT ![b0] = x] /\ strong' = [strong EXCEPT ![x] = strong[x] + 1]
        /\ UNCHANGED <<val, state, weak, call>>
  BY Zenon DEF SetChild, TypeOK, SmartPointers
<1>2. /\ child'[b0] = x /\ strong'[x] = strong[x] + 1 /\ x # NoCounter
      /\ \A b \in Counters \ {b0} : child'[b] = child[b]
      /\ \A b \in Counters \ {x} : strong'[b] = strong[b]
  BY <1>1, Zenon DEF TypeOK, SharedPtrAssumption
<1>3. /\ \A y \in SmartPointers : Leaving(y)' <=> Leaving(y)
      /\ \A b : Orphans(b)' = Orphans(b) /\ Pending(b)' = Pending(b)
      /\ \A u \in PtrThreads : \A b : Destroying(u, b)' <=> Destroying(u, b)
      /\ CallsOK' /\ ContractOK' /\ TodoOK'
  <2>1. UNCHANGED <<crew, call>> /\ \A y \in SmartPointers : Unused(y) \/ val'[y] = val[y]
    BY <1>1, Zenon
  <2> QED
    BY <1>1, <2>1, IdleStep, Zenon
<1>4. /\ strong[x] > 0 /\ strong[x] \in Nat /\ state[b0] = "live"
  <2>1. p \in Owners(x) /\ q \in Owners(b0)
    BY <1>1, Zenon DEF Owners, Readable, Leaving
  <2> QED
    BY <2>1, OwnedBlock, Zenon
<1>5. /\ b0 \notin Children(x) /\ Children(x)' = Children(x) \union {b0}
      /\ \A b \in Counters \ {x} : Children(b)' = Children(b)
      /\ \A b \in Counters : Owners(b)' = Owners(b) /\ Watchers(b)' = Watchers(b)
  <2>1. Shared \subseteq SmartPointers /\ Weak \subseteq SmartPointers
    BY Zenon DEF SmartPointers
  <2>2. \A b \in Counters : Owners(b)' = Owners(b) /\ Watchers(b)' = Watchers(b)
    BY <1>1, <1>3, <2>1, Zenon DEF Owners, Watchers
  <2>3. b0 \notin Children(x) /\ Children(x)' = Children(x) \union {b0}
    BY <1>1, <1>2, Zenon DEF Children
  <2>4. \A b \in Counters \ {x} : Children(b)' = Children(b)
    BY <1>1, <1>2 DEF Children, SharedPtrAssumption
  <2> QED
    BY <2>2, <2>3, <2>4, Zenon
<1>6. StrongOK'
  <2>1. ASSUME NEW b \in Counters \ {x}
        PROVE  strong'[b] = Cardinality(Owners(b)') + Cardinality(Children(b)') + Cardinality(Orphans(b)')
    BY <1>2, <1>3, <1>5, ZenonT(30) DEF StrongOK
  <2>2. strong'[x] = Cardinality(Owners(x)') + Cardinality(Children(x)') + Cardinality(Orphans(x)')
    <3>1. /\ IsFiniteSet(Children(x)) /\ Cardinality(Owners(x)) \in Nat /\ Cardinality(Orphans(x)) \in Nat
      BY Finite, ZenonT(60)
    <3>2. Cardinality(Children(x) \union {b0}) = Cardinality(Children(x)) + 1 /\ Cardinality(Children(x)) \in Nat
      BY <1>5, <3>1, CardAdd, Zenon
    <3>3. /\ Cardinality(Children(x)') = Cardinality(Children(x)) + 1
          /\ Cardinality(Owners(x)') = Cardinality(Owners(x))
          /\ Cardinality(Orphans(x)') = Cardinality(Orphans(x))
      BY <1>3, <1>5, <3>2, Zenon
    <3>4. strong[x] = Cardinality(Owners(x)) + Cardinality(Children(x)) + Cardinality(Orphans(x))
      BY Zenon DEF StrongOK
    <3>5. strong'[x] = strong[x] + 1
      BY <1>2, Zenon
    <3> QED
      BY <3>1, <3>2, <3>3, <3>4, <3>5
  <2> QED
    BY <2>1, <2>2, Zenon DEF StrongOK
<1>7. WeakOK'
  BY <1>1, <1>3, <1>5, Zenon DEF WeakOK
<1>8. StateOK'
  <2>1. ASSUME NEW b \in Counters
        PROVE  /\ strong'[b] > 0 <=> strong[b] > 0
               /\ strong[b] = 0 => strong'[b] = 0
    BY <1>2, <1>4
  <2>2. \A b \in Counters : child'[b] # NoCounter => state'[b] = "live"
    BY <1>1, <1>2, <1>4, ZenonT(30) DEF StateOK
  <2> QED
    BY <1>1, <1>3, <2>1, <2>2, ZenonT(30) DEF StateOK
<1>9. TypeOK'
  <2>1. child' \in [Counters -> Counters \union {NoCounter}] /\ strong' \in [Counters -> Int]
    BY <1>1, <1>4 DEF TypeOK
  <2> QED
    BY <1>1, <2>1, Zenon DEF TypeOK, call
<1> QED
  BY <1>3, <1>6, <1>7, <1>8, <1>9, Zenon

-----------------------------------------------------------------------------
(***************************************************************************)
(* The theorems                                                            *)
(***************************************************************************)

\* No block is in use at first, and every pointer is null.
LEMMA InitInv ==
  ASSUME SharedPtrAssumption, SharedInit
  PROVE  Inv
<1>1. /\ \A t \in PtrThreads : pc[t] = "idle" /\ todo[t] = <<>> /\ dst[t] = NoCounter
      /\ \A p \in SmartPointers : val[p] = NoCounter
      /\ \A b \in Counters : /\ state[b] = "free" /\ strong[b] = 0 /\ weak[b] = 0 /\ child[b] = NoCounter
      /\ Len(<<>>) = 0
  BY Zenon DEF SharedInit
<1>2. TypeOK
  BY DEF SharedInit, TypeOK, SharedPtrAssumption
<1>3. CallsOK /\ ContractOK
  BY <1>1, Zenon DEF CallsOK, ContractOK
<1>4. TodoOK
  BY <1>1 DEF TodoOK
<1>5. \A b \in Counters : Owners(b) = {} /\ Watchers(b) = {} /\ Children(b) = {} /\ Orphans(b) = {} /\ Pending(b) = {}
  <2>1. \A b \in Counters : b # NoCounter
    BY Zenon DEF SharedPtrAssumption
  <2>2. \A b \in Counters : Owners(b) = {} /\ Watchers(b) = {} /\ Children(b) = {}
    BY <1>1, <2>1, Zenon DEF Owners, Watchers, Children, SmartPointers
  <2>3. \A b \in Counters : Orphans(b) = {}
    BY <1>1 DEF Orphans
  <2>4. \A b \in Counters : Pending(b) = {}
    BY <1>1 DEF Pending, Places
  <2> QED
    BY <2>2, <2>3, <2>4, Zenon
<1>6. StrongOK /\ WeakOK
  <2>1. Cardinality({}) = 0 /\ IsFiniteSet({}) /\ 0 + 0 + 0 = 0
    BY FS_EmptySet
  <2>2. ASSUME NEW b \in Counters
        PROVE  /\ strong[b] = Cardinality(Owners(b)) + Cardinality(Children(b)) + Cardinality(Orphans(b))
               /\ IsFiniteSet(Pending(b))
               /\ weak[b] = Cardinality(Watchers(b)) + Cardinality(Pending(b)) + (IF state[b] = "live" THEN 1 ELSE 0)
    BY <1>1, <1>5, <2>1, Zenon
  <2> QED
    BY <2>2, Zenon DEF StrongOK, WeakOK
<1>7. StateOK
  BY <1>1 DEF StateOK, Destroying
<1> QED
  BY <1>2, <1>3, <1>4, <1>6, <1>7, Zenon DEF Inv

\* Every step of every thread keeps the invariant.
LEMMA NextInv ==
  ASSUME SharedPtrAssumption, Racy = FALSE, Inv, [SharedNext]_sharedVars
  PROVE  Inv'
<1>1. CASE UNCHANGED sharedVars
  <2>1. /\ crew' = crew /\ val' = val /\ pc' = pc /\ dst' = dst /\ src' = src /\ todo' = todo
        /\ state' = state /\ strong' = strong /\ weak' = weak /\ child' = child
    BY <1>1, Zenon DEF sharedVars, blocks, call
  <2>2. \A x : (Decref(x)' = Decref(x)) /\ (Leaving(x)' <=> Leaving(x))
    BY <2>1, Zenon DEF Decref, Leaving
  <2>3. \A b : /\ Owners(b)' = Owners(b) /\ Watchers(b)' = Watchers(b) /\ Children(b)' = Children(b)
               /\ Orphans(b)' = Orphans(b) /\ Pending(b)' = Pending(b)
    BY <2>1, <2>2, Zenon DEF Owners, Watchers, Children, Orphans, Pending
  <2>4. StrongOK' /\ WeakOK'
    BY <2>1, <2>3, Zenon DEF Inv, StrongOK, WeakOK
  <2>5. StateOK'
    BY <2>1, Zenon DEF Inv, StateOK, Destroying
  <2>6. TypeOK' /\ ContractOK'
    BY <2>1, Zenon DEF Inv, TypeOK, ContractOK
  <2>7. CallsOK'
    BY <2>1, Zenon DEF Inv, CallsOK, OperandsOK
  <2>8. TodoOK'
    BY <2>1, Zenon DEF Inv, TodoOK, Decref
  <2> QED
    BY <2>4, <2>5, <2>6, <2>7, <2>8, Zenon DEF Inv
<1>2. ASSUME NEW t \in crew, UNCHANGED crew, SharedStep(t)
      PROVE  Inv'
  <2>1. t \in PtrThreads
    BY Zenon DEF Inv, TypeOK
  <2> QED
    BY <1>2, <2>1, ReleaseInv, DestroyObjectInv, UnfollowInv, CopyInv, MoveInv, ClearInv, LockAcquireInv, ZenonT(60) DEF SharedStep
<1>3. ASSUME NEW t \in crew, UNCHANGED crew, Call(t)
      PROVE  Inv'
  <2>1. ASSUME NEW p \in Shared, Make(t, p) \/ WalkDown(t, p)
        PROVE  Inv'
    BY <1>3, <2>1, MakeInv, WalkDownInv, Zenon
  <2>2. ASSUME NEW p \in SmartPointers, ResetPointer(t, p)
        PROVE  Inv'
    BY <1>3, <2>2, AssignInv, Zenon
  <2>3. ASSUME NEW p \in SmartPointers, NEW q \in SmartPointers, CopyAssign(t, p, q) \/ MoveAssign(t, p, q) \/ Swap(t, p, q)
        PROVE  Inv'
    BY <1>3, <2>3, AssignInv, SwapInv, Zenon
  <2>4. ASSUME NEW p \in Shared, NEW q \in Shared, SetChild(t, q, p)
        PROVE  Inv'
    BY <1>3, <2>4, SetChildInv, Zenon
  <2>5. ASSUME NEW p \in Shared, NEW w \in Weak, LockTest(t, p, w)
        PROVE  Inv'
    BY <1>3, <2>5, LockTestInv, Zenon
  <2> QED
    BY <1>3, <2>1, <2>2, <2>3, <2>4, <2>5, Zenon DEF Call
<1> QED
  BY <1>1, <1>2, <1>3, Zenon DEF SharedNext

\* The invariant implies that no pointer, and no operand of a call, dangles.
LEMMA InvDangles ==
  ASSUME SharedPtrAssumption, Inv
  PROVE  NothingDangles
<1> USE DEF Inv
<1>1. PointeesExist
  <2>1. SUFFICES ASSUME NEW p \in SmartPointers, val[p] # NoCounter, Unused(p)
                 PROVE  state[val[p]] \in (IF p \in Shared THEN {"live"} ELSE {"live", "dead"})
    BY Zenon DEF PointeesExist
  <2>2. val[p] \in Counters /\ ~Leaving(p)
    BY <2>1, Zenon DEF TypeOK, Unused, Leaving
  <2>3. CASE p \in Shared
    <3>1. p \in Owners(val[p])
      BY <2>2, <2>3, Zenon DEF Owners
    <3> QED
      BY <2>2, <2>3, <3>1, OwnedBlock, Zenon
  <2>4. CASE p \notin Shared
    <3>1. p \in Watchers(val[p])
      BY <2>2, <2>4, ZenonT(30) DEF Watchers, SmartPointers
    <3>2. weak[val[p]] # 0
      BY <2>2, <3>1, WatchedBlock
    <3> QED
      BY <2>2, <2>4, <3>2 DEF StateOK, TypeOK
  <2> QED
    BY <2>3, <2>4, Zenon
<1>2. SourceExists
  <2>1. SUFFICES ASSUME NEW t \in PtrThreads, pc[t] = "copy", src[t] \in Counters
                 PROVE  state[src[t]] = "live"
    BY Zenon DEF SourceExists, Ready, SourceAlive
  <2>2. crew = {t} /\ \E q \in Shared \ {dst[t]} : val[q] = src[t]
    BY <2>1, Zenon DEF CallsOK, OperandsOK
  <2>3. \A u \in PtrThreads : pc[u] # "idle" => u = t
    BY <2>2, Zenon DEF CallsOK, OperandsOK
  <2>4. Owners(src[t]) # {}
    BY <2>2, <2>3, Zenon DEF Owners, Leaving
  <2> QED
    BY <2>1, <2>4, OwnedBlock, Zenon
<1> QED
  BY <1>1, <1>2, Zenon DEF NothingDangles

\* The invariant implies that the counters are exact and that nothing leaks.
LEMMA InvCounters ==
  ASSUME SharedPtrAssumption, Inv
  PROVE  CountersExact
<1> USE DEF Inv
<1>1. StrongExact
  BY Zenon DEF StrongOK, StrongExact, Children
<1>2. NoCounterLeaked
  <2>1. SUFFICES ASSUME \A t \in PtrThreads : pc[t] = "idle", NEW b \in Counters
                 PROVE  /\ (\E p \in Shared : val[p] = b) \/ (\E c \in Counters : child[c] = b) => state[b] = "live"
                        /\ ~((\E p \in Shared : val[p] = b) \/ \E c \in Counters : child[c] = b) =>
                             state[b] = IF \E p \in Weak : val[p] = b THEN "dead" ELSE "free"
    BY Zenon DEF NoCounterLeaked
  <2>2. /\ \A t \in PtrThreads : todo[t] = <<>> /\ ~Destroying(t, b) /\ Len(todo[t]) = 0
        /\ \A p : ~Leaving(p)
    BY <2>1, SMTT(30) DEF TodoOK, Destroying, Leaving
  <2>3. Orphans(b) = {} /\ Pending(b) = {}
    BY <2>2 DEF Orphans, Pending, Places
  <2>4. /\ Owners(b) = {p \in Shared : val[p] = b} /\ Watchers(b) = {p \in Weak : val[p] = b}
        /\ Children(b) = {c \in Counters : child[c] = b}
    BY <2>2, Zenon DEF Owners, Watchers, Children
  <2>5. CASE (\E p \in Shared : val[p] = b) \/ (\E c \in Counters : child[c] = b)
    BY <2>4, <2>5, OwnedBlock, ZenonT(60)
  <2>6. CASE ~((\E p \in Shared : val[p] = b) \/ \E c \in Counters : child[c] = b)
    <3>1. Owners(b) = {} /\ Children(b) = {}
      BY <2>4, <2>6, Zenon
    <3>2. strong[b] = 0 /\ state[b] # "live"
      <4>1. Cardinality({}) = 0 /\ 0 + 0 + 0 = 0 /\ ~(0 > 0)
        BY FS_EmptySet
      <4>2. strong[b] = 0
        BY <2>3, <3>1, <4>1, ZenonT(60) DEF StrongOK
      <4> QED
        BY <2>2, <4>1, <4>2, Zenon DEF StateOK
    <3>3. (\E p \in Weak : val[p] = b) => weak[b] # 0
      BY <2>4, WatchedBlock, SMTT(30)
    <3>4. ~(\E p \in Weak : val[p] = b) => weak[b] = 0
      <4>1. ~(\E p \in Weak : val[p] = b) => Watchers(b) = {}
        BY <2>4, Zenon
      <4> QED
        BY <2>3, <3>2, <4>1, FS_EmptySet DEF WeakOK
    <3>5. state[b] \in {"free", "live", "dead"} /\ (state[b] = "free" <=> weak[b] = 0)
      BY Zenon DEF StateOK, TypeOK
    <3> QED
      BY <2>6, <3>2, <3>3, <3>4, <3>5, Zenon
  <2> QED
    BY <2>5, <2>6, Zenon
<1> QED
  BY <1>1, <1>2, Zenon DEF CountersExact

\* What a shared_ptr or weak_ptr designates exists, also the source of an
\* assignment when copy_construct_from reads it, whatever the threads do with
\* their pointers: as long as no thread locks a weak pointer beside others and
\* p = p->child is not assigned to the last owner of an object.
THEOREM PointersNeverDangle ==
  ASSUME SharedPtrAssumption, Racy = FALSE
  PROVE  SharedSpec => []NothingDangles
<1>1. SharedInit => Inv
  BY InitInv, Zenon
<1>2. Inv /\ [SharedNext]_sharedVars => Inv'
  BY NextInv, Zenon
<1>3. Inv => NothingDangles
  BY InvDangles, ZenonT(60)
<1> QED
  BY <1>1, <1>2, <1>3, PTL DEF SharedSpec

\* Under the same conditions Acquire, Release, Follow and Unfollow keep the
\* strong counter equal to the number of owners, and between calls a control
\* block and its object exist exactly as long as something designates them.
THEOREM CountersAlwaysExact ==
  ASSUME SharedPtrAssumption, Racy = FALSE
  PROVE  SharedSpec => []CountersExact
<1>1. SharedInit => Inv
  BY InitInv, Zenon
<1>2. Inv /\ [SharedNext]_sharedVars => Inv'
  BY NextInv, Zenon
<1>3. Inv => CountersExact
  BY InvCounters, Zenon
<1> QED
  BY <1>1, <1>2, <1>3, PTL DEF SharedSpec
=============================================================================
