----------------------------- MODULE SystemProofs ------------------------------
(***************************************************************************)
(* Proofs about the parts of a running driver: the driver's life from the  *)
(* first constructor to the last destructor; system_thread; and            *)
(* condition_variable, by which threads wait for each other.               *)
(***************************************************************************)
EXTENDS SystemThread, ConditionVariable, DriverLifecycle, FiniteSetTheorems, TLAPS

-----------------------------------------------------------------------------
(***************************************************************************)
(* The driver's life, from the global constructors to the last destructor, *)
(* for any number of static objects, preload initialisers and threads.     *)
(*                                                                         *)
(* What makes its order inductive: every slot of the destructor stack that *)
(* no atexit call has claimed holds the destructor of the object that was  *)
(* constructed at that place; nobody has a claim outside the driver's own  *)
(* code; a routine that is due can still be reached through custom_unload, *)
(* which is not set before all initialisers have run.                      *)
(***************************************************************************)

Statics == Range(Globals) \union Locals
Routines == {Null, "driver", "ktl"}
Before == {"construct", "preload"}
Leaving == {"destroy", "done"}

\* The destructors of all objects, and the initialisers, have a place in their arrays.  The code takes it for
\* granted: atexit and the constructor of preload_initializer assert it, which a release build leaves out.
DriverFits ==
  /\ Cardinality(Statics) <= MaxDtors
  /\ PreloadRank(Len(Globals)) <= MaxInits

DriverTypes ==
  /\ phase \in Before \union {"entry", "running", "unload", "custom", "overflow"} \union Leaving
  /\ k \in Nat
  /\ dtorStack \in [0..MaxDtors-1 -> Statics \union {Null}]
  /\ dtorCount \in Nat
  /\ claim \in [DriverThreads -> [idx : Nat, obj : Statics \union {Null}]]
  /\ inits \in Seq(Preloads)
  /\ fired \in BOOLEAN
  /\ drvUnload \in Routines
  /\ customUnload \in Routines
  /\ built \in Seq(Statics)
  /\ ran \in Seq(Preloads)
  /\ destroyed \in Seq(Statics)
  /\ own \in {"none", "set", "due", "ran"}

\* The unload routines: the driver's own runs once, when it is due.
RoutinesOK ==
  /\ phase \in Before => drvUnload = Null /\ customUnload = Null
  /\ own \in {"set", "due"} => drvUnload # Null
  /\ own = "due" => customUnload # Null
  /\ phase \in {"construct", "preload", "entry", "running", "unload", "overflow"} => own # "ran"
  /\ phase = "custom" => own = "ran"
  /\ phase \in Leaving => own # "due"

\* The initialisers, as far as the constructors or run_all have got.
Ranked(s, n) ==
  /\ Len(s) = PreloadRank(n)
  /\ \A i \in 1..n : Globals[i] \in Preloads => s[PreloadRank(i)] = Globals[i]

InitsOK ==
  /\ phase = "construct" => k <= Len(Globals) /\ ~fired /\ ran = <<>> /\ Ranked(inits, k)
  /\ phase # "construct" => AllPreloads(inits)
  /\ phase = "preload" => Len(ran) = k /\ k <= Len(inits) /\ \A i \in 1..k : ran[i] = inits[i]
  /\ phase \in {"entry", "running", "custom"} \/ customUnload # Null => AllPreloads(ran)

\* The static objects and the stack of their destructors.
BuiltOK ==
  /\ Cardinality(Range(built)) = Len(built)
  /\ phase = "construct" => Len(built) = k /\ \A i \in 1..k : built[i] = Globals[i]
  /\ dtorCount = IF phase = "done" THEN 0 ELSE Len(built)

SlotsOK ==
  /\ \A t \in DriverThreads : claim[t] # NoClaim =>
       claim[t].idx < Len(built) /\ claim[t].obj = built[claim[t].idx + 1]
  /\ \A i \in 0..Len(built)-1 :
       (\A t \in DriverThreads : claim[t] = NoClaim \/ claim[t].idx # i) => dtorStack[i] = built[i + 1]

StackOK == SlotsOK /\ (phase \notin {"entry", "running", "custom"} => Idle)

\* The destructors that have run.
OrderOK ==
  /\ IsFiniteSet(late) /\ Cardinality(late) <= Len(built) /\ late \subseteq Range(built)
  /\ phase \notin Leaving => late = {} /\ destroyed = <<>>
  /\ phase \in Leaving => k + Len(destroyed) = Len(built) - Cardinality(late)
  /\ phase = "done" => k = 0
  /\ ReverseOrder

DriverInv == DriverTypes /\ RoutinesOK /\ InitsOK /\ BuiltOK /\ StackOK /\ OrderOK


-----------------------------------------------------------------------------

\* The objects of the constructor table are static objects, of which there are finitely many.
LEMMA GlobalsAre ==
  /\ Len(Globals) \in Nat
  /\ \A i \in 1..Len(Globals) : Globals[i] \in Statics
  /\ IsFiniteSet(Statics) /\ Cardinality(Statics) \in Nat
  /\ Null \notin Statics /\ Preloads \subseteq Statics
<1>1. Len(Globals) \in Nat /\ DOMAIN Globals = 1..Len(Globals)
  BY DriverAssumption
<1>2. \A i \in 1..Len(Globals) : Globals[i] \in Statics
  BY <1>1, Zenon DEF Statics, Range
<1>3. IsFiniteSet(Range(Globals))
  <2>1. IsFiniteSet(1..Len(Globals))
    BY <1>1, FS_Interval
  <2>2. Globals \in Surjection(1..Len(Globals), Range(Globals))
    BY <1>1, DriverAssumption DEF Range, Surjection
  <2> QED
    BY <2>1, <2>2, FS_Surjection, Zenon
<1>4. IsFiniteSet(Statics)
  BY <1>3, FS_Union, DriverAssumption, Zenon DEF Statics
<1> QED
  BY <1>1, <1>2, <1>4, FS_CardinalityType, DriverAssumption, Zenon DEF Statics

\* How the rank grows along the table.
LEMMA RankIs ==
  /\ PreloadRank(0) = 0
  /\ \A n \in Nat : PreloadRank(n) \in Nat
  /\ \A n \in Nat : Globals[n + 1] \in Preloads => PreloadRank(n + 1) = PreloadRank(n) + 1
  /\ \A n \in Nat : Globals[n + 1] \notin Preloads => PreloadRank(n + 1) = PreloadRank(n)
  /\ \A m, n \in Nat : m <= n => PreloadRank(m) <= PreloadRank(n)
<1> DEFINE Upto(n) == {j \in 1..n : Globals[j] \in Preloads}
<1>1. \A n \in Nat : IsFiniteSet(Upto(n)) /\ Cardinality(Upto(n)) \in Nat
  <2> TAKE n \in Nat
  <2>1. IsFiniteSet(1..n)
    BY FS_Interval
  <2>2. IsFiniteSet(Upto(n))
    BY <2>1, FS_Subset, Zenon
  <2> QED
    BY <2>2, FS_CardinalityType, Zenon
<1>2. \A n \in Nat : PreloadRank(n) = Cardinality(Upto(n))
  BY Zenon DEF PreloadRank
<1>3. PreloadRank(0) = 0
  <2>1. Upto(0) = {}
    OBVIOUS
  <2> QED
    BY <1>2, <2>1, FS_EmptySet
<1>4. ASSUME NEW n \in Nat, Globals[n + 1] \in Preloads
      PROVE  Cardinality(Upto(n + 1)) = Cardinality(Upto(n)) + 1
  <2>1. Upto(n + 1) = Upto(n) \union {n + 1} /\ n + 1 \notin Upto(n)
    BY <1>4
  <2> HIDE DEF Upto
  <2> QED
    BY <1>1, <2>1, FS_AddElement, Zenon
<1>5. ASSUME NEW n \in Nat, Globals[n + 1] \notin Preloads
      PROVE  Upto(n + 1) = Upto(n)
  BY <1>5
<1>6. ASSUME NEW m \in Nat, NEW n \in Nat, m <= n
      PROVE  Cardinality(Upto(m)) <= Cardinality(Upto(n))
  <2>1. Upto(m) \subseteq Upto(n)
    BY <1>6
  <2> HIDE DEF Upto
  <2> QED
    BY <1>1, <2>1, FS_Subset, Zenon
<1> HIDE DEF Upto
<1> QED
  BY <1>1, <1>2, <1>3, <1>4, <1>5, <1>6

\* The rank of an initialiser is a place among those of the table.
LEMMA RankOfPreload ==
  ASSUME NEW n \in Nat, NEW i \in 1..n, Globals[i] \in Preloads
  PROVE  PreloadRank(i) \in 1..PreloadRank(n)
<1>1. i - 1 \in Nat /\ i \in Nat /\ i <= n /\ (i - 1) + 1 = i
  OBVIOUS
<1>2. PreloadRank(i) = PreloadRank(i - 1) + 1 /\ PreloadRank(i - 1) \in Nat /\ PreloadRank(n) \in Nat
  BY <1>1, RankIs, Zenon
<1>3. PreloadRank(i) <= PreloadRank(n)
  BY <1>1, RankIs, Zenon
<1> QED
  BY <1>2, <1>3

\* The elements of a sequence, and of one that is longer by one.
LEMMA RangeIs ==
  ASSUME NEW S, NEW s \in Seq(S)
  PROVE  Range(s) = {s[i] : i \in 1..Len(s)} /\ Range(s) \subseteq S
BY DEF Range

\* Appending to a sequence, as the constructors, run_all and the destructors do to the histories.
LEMMA AppendIs ==
  ASSUME NEW S, NEW s \in Seq(S), NEW x \in S
  PROVE  /\ Append(s, x) \in Seq(S) /\ Len(s) \in Nat /\ Len(Append(s, x)) = Len(s) + 1
         /\ \A i \in 1..Len(s) : Append(s, x)[i] = s[i]
         /\ Append(s, x)[Len(s) + 1] = x
         /\ Range(Append(s, x)) = Range(s) \union {x}
<1>1. /\ Append(s, x) \in Seq(S) /\ Len(s) \in Nat /\ Len(Append(s, x)) = Len(s) + 1
      /\ \A i \in 1..Len(s) : Append(s, x)[i] = s[i]
      /\ Append(s, x)[Len(s) + 1] = x
  OBVIOUS
<1>2. Range(s) = {s[i] : i \in 1..Len(s)} /\ Range(Append(s, x)) = {Append(s, x)[i] : i \in 1..Len(s) + 1}
  BY <1>1, RangeIs, Zenon
<1>3. 1..Len(s) + 1 = (1..Len(s)) \union {Len(s) + 1}
  BY <1>1
<1>4. {Append(s, x)[i] : i \in 1..Len(s) + 1} = {s[i] : i \in 1..Len(s)} \union {x}
  BY <1>1, <1>3, ZenonT(60)
<1> QED
  BY <1>1, <1>2, <1>4, ZenonT(60)

\* An object that is constructed is new, and its destructor has a place.
LEMMA OneMore ==
  ASSUME DriverFits, NEW s \in Seq(Statics), Cardinality(Range(s)) = Len(s), NEW obj \in Statics, obj \notin Range(s)
  PROVE  /\ Append(s, obj) \in Seq(Statics) /\ Len(Append(s, obj)) = Len(s) + 1
         /\ \A i \in 1..Len(s) : Append(s, obj)[i] = s[i] /\ s[i] # obj
         /\ Append(s, obj)[Len(s) + 1] = obj
         /\ Range(Append(s, obj)) = Range(s) \union {obj}
         /\ Cardinality(Range(Append(s, obj))) = Len(s) + 1
         /\ Len(s) + 1 <= MaxDtors
<1>1. /\ Append(s, obj) \in Seq(Statics) /\ Len(s) \in Nat /\ Len(Append(s, obj)) = Len(s) + 1
      /\ \A i \in 1..Len(s) : Append(s, obj)[i] = s[i]
      /\ Append(s, obj)[Len(s) + 1] = obj
  BY AppendIs
<1>2. \A i \in 1..Len(s) : s[i] # obj
  BY RangeIs
<1>3. Range(Append(s, obj)) = Range(s) \union {obj}
  BY AppendIs
<1>4. Range(s) \subseteq Statics
  BY RangeIs, Zenon
<1>5. IsFiniteSet(Range(s))
  BY <1>4, GlobalsAre, FS_Subset, Zenon
<1>6. Cardinality(Range(s) \union {obj}) = Len(s) + 1
  BY <1>5, FS_AddElement, Zenon
<1>7. Cardinality(Range(s) \union {obj}) <= Cardinality(Statics)
  BY <1>4, GlobalsAre, FS_Subset, Zenon
<1>8. Len(s) + 1 <= MaxDtors
  BY <1>1, <1>6, <1>7, GlobalsAre, DriverAssumption, SMTT(30) DEF DriverFits
<1> QED
  BY <1>1, <1>2, <1>3, <1>6, <1>8, Zenon


\* The stack is large enough for all that were constructed.
LEMMA BuiltFits ==
  ASSUME DriverFits, DriverInv
  PROVE  Len(built) \in Nat /\ Len(built) <= MaxDtors
<1>1. built \in Seq(Statics) /\ Cardinality(Range(built)) = Len(built)
  BY Zenon DEF DriverInv, DriverTypes, BuiltOK
<1>2. Range(built) \subseteq Statics
  BY <1>1, RangeIs, Zenon
<1>3. Cardinality(Range(built)) <= Cardinality(Statics)
  BY <1>2, GlobalsAre, FS_Subset, Zenon
<1> QED
  BY <1>1, <1>3, GlobalsAre, DriverAssumption DEF DriverFits

-----------------------------------------------------------------------------
(* The steps.                                                              *)

\* Before the first constructor nothing has been built, stored or run.
LEMMA DriverStarts == DriverInit => DriverInv
<1> SUFFICES ASSUME DriverInit PROVE DriverInv
  BY Zenon
<1>1. DriverTypes
  <2>1. <<>> \in Seq(Preloads) /\ <<>> \in Seq(Statics) /\ 0 \in Nat
    OBVIOUS
  <2>2. NoClaim \in [idx : Nat, obj : Statics \union {Null}]
    BY <2>1, Zenon DEF NoClaim
  <2> QED
    BY <2>1, <2>2, Zenon DEF DriverInit, DriverTypes, Before, Routines
<1>2. RoutinesOK
  BY Zenon DEF DriverInit, RoutinesOK, Before, Leaving
<1>3. InitsOK
  BY RankIs, GlobalsAre, DriverAssumption DEF DriverInit, InitsOK, Ranked
<1>4. BuiltOK
  <2>1. Range(built) = {} /\ Len(built) = 0
    BY DEF DriverInit, Range
  <2> QED
    BY <2>1, FS_EmptySet DEF DriverInit, BuiltOK
<1>5. StackOK
  BY DEF DriverInit, StackOK, SlotsOK, Idle
<1>6. OrderOK
  BY FS_EmptySet DEF DriverInit, OrderOK, ReverseOrder, Leaving
<1> QED
  BY <1>1, <1>2, <1>3, <1>4, <1>5, <1>6, Zenon DEF DriverInv

\* Before the destructors, a step that touches no static object keeps what is known of them.
LEMMA ObjectsStay ==
  ASSUME DriverInv, UNCHANGED <<objects, destroyed>>, phase \notin Leaving, phase' \notin Leaving \union {"construct"},
         phase' \in {"entry", "running", "custom"} \/ Idle
  PROVE  BuiltOK' /\ StackOK' /\ OrderOK'
<1>1. BuiltOK'
  BY Zenon DEF DriverInv, BuiltOK, objects, Leaving
<1>2. StackOK'
  BY Zenon DEF DriverInv, StackOK, SlotsOK, objects, Idle
<1>3. OrderOK'
  BY Zenon DEF DriverInv, OrderOK, ReverseOrder, objects, Leaving
<1> QED
  BY <1>1, <1>2, <1>3, Zenon

\* run_all.
LEMMA PreloadKeeps ==
  ASSUME DriverFits, DriverInv, ConstructorsDone \/ RunInitializer \/ InitializersDone
  PROVE  DriverInv'
<1>1. BuiltOK' /\ StackOK' /\ OrderOK'
  BY ObjectsStay, Zenon DEF DriverInv, StackOK, ConstructorsDone, RunInitializer, InitializersDone, Leaving
<1>2. RoutinesOK'
  BY Zenon DEF DriverInv, RoutinesOK, ConstructorsDone, RunInitializer, InitializersDone, unload, Before, Leaving
<1>3. CASE ConstructorsDone
  <2>1. DriverTypes'
    BY <1>3, ZenonT(60) DEF DriverInv, DriverTypes, ConstructorsDone, unload, objects, Before
  <2>2. InitsOK'
    BY <1>3, SMTT(30) DEF DriverInv, RoutinesOK, InitsOK, Ranked, AllPreloads, ConstructorsDone, unload, Before, DriverTypes
  <2> QED
    BY <1>1, <1>2, <2>1, <2>2, Zenon DEF DriverInv
<1>4. CASE RunInitializer
  <2>1. /\ k \in Nat /\ k < Len(inits) /\ inits[k + 1] \in Preloads /\ ran \in Seq(Preloads) /\ Len(ran) = k
        /\ \A i \in 1..k : ran[i] = inits[i]
    BY <1>4, SMTT(30) DEF RunInitializer, DriverInv, DriverTypes, InitsOK
  <2>2. /\ ran' \in Seq(Preloads) /\ Len(ran') = k + 1 /\ ran'[k + 1] = inits[k + 1]
        /\ \A i \in 1..k : ran'[i] = ran[i]
    <3> DEFINE x == inits[k + 1]
    <3>1. ran' = Append(ran, x)
      BY <1>4, Zenon DEF RunInitializer
    <3>2. ran \in Seq(Preloads) /\ x \in Preloads /\ Len(ran) = k
      BY <2>1, Zenon
    <3> HIDE DEF x
    <3>3. /\ Append(ran, x) \in Seq(Preloads) /\ Len(Append(ran, x)) = Len(ran) + 1
          /\ \A i \in 1..Len(ran) : Append(ran, x)[i] = ran[i]
          /\ Append(ran, x)[Len(ran) + 1] = x
      BY <3>2, SMTT(30)
    <3> QED
      BY <3>1, <3>2, <3>3, ZenonT(60) DEF x
  <2>3. DriverTypes'
    BY <1>4, <2>1, <2>2, SMTT(30) DEF DriverInv, DriverTypes, RunInitializer, registry, unload, objects, Before
  <2>4. InitsOK'
    <3>1. \A i \in 1..k + 1 : ran'[i] = inits[i]
      BY <2>1, <2>2
    <3>2. AllPreloads(inits)' /\ customUnload' = Null /\ Len(inits') = Len(inits)
      BY <1>4, Zenon DEF DriverInv, InitsOK, RoutinesOK, AllPreloads, RunInitializer, registry, unload, Before
    <3> QED
      BY <1>4, <2>1, <2>2, <3>1, <3>2, SMTT(30) DEF InitsOK, RunInitializer, registry, DriverInv, DriverTypes
  <2> QED
    BY <1>1, <1>2, <2>3, <2>4, Zenon DEF DriverInv
<1>5. CASE InitializersDone
  <2>1. DriverTypes'
    BY <1>5, Zenon DEF DriverInv, DriverTypes, InitializersDone, registry, unload, objects, Before
  <2>2. AllPreloads(ran)
    <3>1. /\ Len(ran) = Len(inits) /\ \A i \in 1..Len(inits) : ran[i] = inits[i]
          /\ AllPreloads(inits)
      BY <1>5, Zenon DEF DriverInv, InitsOK, InitializersDone
    <3>2. \A i \in 1..Len(Globals) : Globals[i] \in Preloads => PreloadRank(i) \in 1..Len(inits)
      BY <3>1, RankOfPreload DEF AllPreloads
    <3> QED
      BY <3>1, <3>2, Zenon DEF AllPreloads
  <2>3. InitsOK'
    BY <1>5, <2>2, Zenon DEF DriverInv, InitsOK, AllPreloads, InitializersDone, registry
  <2> QED
    BY <1>1, <1>2, <2>1, <2>3, Zenon DEF DriverInv
<1> QED
  BY <1>3, <1>4, <1>5, Zenon


\* An object is constructed and its destructor stored in one step.
LEMMA Grown ==
  ASSUME DriverFits, DriverInv, phase # "done", NEW obj \in Statics, obj \notin Range(built),
         built' = Append(built, obj), dtorStack' = PutHandler(dtorCount, obj), UNCHANGED claim
  PROVE  /\ built' \in Seq(Statics) /\ Len(built') = Len(built) + 1 /\ Cardinality(Range(built')) = Len(built')
         /\ \A i \in 1..Len(built) : built'[i] = built[i] /\ built[i] # obj
         /\ built'[Len(built) + 1] = obj
         /\ Range(built') = Range(built) \union {obj}
         /\ dtorStack' \in [0..MaxDtors-1 -> Statics \union {Null}]
         /\ SlotsOK'
<1>1. /\ built' \in Seq(Statics) /\ Len(built') = Len(built) + 1 /\ Cardinality(Range(built')) = Len(built')
      /\ \A i \in 1..Len(built) : built'[i] = built[i] /\ built[i] # obj
      /\ built'[Len(built) + 1] = obj
      /\ Range(built') = Range(built) \union {obj}
      /\ Len(built) + 1 <= MaxDtors
  <2>1. built \in Seq(Statics) /\ Cardinality(Range(built)) = Len(built)
    BY Zenon DEF DriverInv, DriverTypes, BuiltOK
  <2> QED
    BY <2>1, OneMore
<1>2. Len(built) \in Nat /\ dtorCount = Len(built) /\ MaxDtors \in Nat
  BY DriverAssumption, Zenon DEF DriverInv, DriverTypes, BuiltOK
<1>3. dtorStack' = [dtorStack EXCEPT ![Len(built)] = obj]
  BY <1>1, <1>2 DEF PutHandler
<1>4. dtorStack' \in [0..MaxDtors-1 -> Statics \union {Null}]
  BY <1>3, Zenon DEF DriverInv, DriverTypes
<1>5. dtorStack'[Len(built)] = obj /\ \A i \in 0..Len(built)-1 : dtorStack'[i] = dtorStack[i]
  <2>1. DOMAIN dtorStack = 0..MaxDtors-1
    BY SMTT(30) DEF DriverInv, DriverTypes
  <2>2. Len(built) \in 0..MaxDtors-1 /\ \A i \in 0..Len(built)-1 : i \in 0..MaxDtors-1 /\ i # Len(built)
    BY <1>1, <1>2
  <2> QED
    BY <1>3, <2>1, <2>2, Zenon
<1>6. \A t \in DriverThreads : claim[t].idx \in Nat
  BY Zenon DEF DriverInv, DriverTypes
<1>7. SlotsOK'
  <2>1. ASSUME NEW t \in DriverThreads, claim'[t] # NoClaim
        PROVE  claim'[t].idx < Len(built') /\ claim'[t].obj = built'[claim'[t].idx + 1]
    <3>1. claim[t].idx < Len(built) /\ claim[t].obj = built[claim[t].idx + 1] /\ claim' = claim
      BY <2>1, Zenon DEF DriverInv, StackOK, SlotsOK
    <3>2. claim[t].idx + 1 \in 1..Len(built)
      BY <1>2, <1>6, <3>1
    <3> QED
      BY <1>1, <1>2, <1>6, <3>1, <3>2
  <2>2. ASSUME NEW i \in 0..Len(built')-1, \A t \in DriverThreads : claim'[t] = NoClaim \/ claim'[t].idx # i
        PROVE  dtorStack'[i] = built'[i + 1]
    <3>1. CASE i = Len(built)
      BY <1>1, <1>5, <3>1, Zenon
    <3>2. CASE i # Len(built)
      <4>1. i \in 0..Len(built)-1 /\ i + 1 \in 1..Len(built)
        BY <1>1, <1>2, <3>2
      <4>2. dtorStack[i] = built[i + 1]
        BY <2>2, <4>1, Zenon DEF DriverInv, StackOK, SlotsOK
      <4> QED
        BY <1>1, <1>5, <4>1, <4>2, ZenonT(60)
    <3> QED
      BY <3>1, <3>2, Zenon
  <2>3. NoClaim' = NoClaim
    BY Zenon DEF NoClaim
  <2> QED
    BY <2>1, <2>2, <2>3, ZenonT(60) DEF SlotsOK
<1> QED
  BY <1>1, <1>4, <1>7, Zenon

\* invoke_global_constructors.
LEMMA ConstructorKeeps ==
  ASSUME DriverFits, DriverInv, RunConstructor
  PROVE  DriverInv'
<1> DEFINE obj == Globals[k + 1]
<1>1. /\ k \in Nat /\ k < Len(Globals) /\ Len(built) = k /\ \A i \in 1..k : built[i] = Globals[i]
      /\ phase = "construct" /\ ~fired /\ inits \in Seq(Preloads) /\ built \in Seq(Statics)
      /\ Len(inits) = PreloadRank(k) /\ \A i \in 1..k : Globals[i] \in Preloads => inits[PreloadRank(i)] = Globals[i]
  BY Zenon DEF RunConstructor, DriverInv, DriverTypes, BuiltOK, InitsOK, Ranked
<1>2. obj \in Statics /\ obj \notin Range(built)
  <2>1. obj \in Statics /\ \A i \in 1..k : Globals[i] # obj
    BY <1>1, GlobalsAre, DriverAssumption
  <2> QED
    BY <1>1, <2>1, RangeIs, SMTT(30)
<1>3. /\ built' \in Seq(Statics) /\ Len(built') = k + 1 /\ Cardinality(Range(built')) = k + 1
      /\ \A i \in 1..k : built'[i] = built[i]
      /\ built'[k + 1] = obj
      /\ Range(built) \subseteq Range(built')
      /\ dtorStack' \in [0..MaxDtors-1 -> Statics \union {Null}]
      /\ SlotsOK'
  <2>1. built' = Append(built, obj) /\ dtorStack' = PutHandler(dtorCount, obj) /\ UNCHANGED claim
    BY Zenon DEF RunConstructor
  <2> HIDE DEF obj
  <2> QED
    BY <1>1, <1>2, <2>1, Grown, Zenon
<1>4. inits' \in Seq(Preloads) /\ Ranked(inits', k + 1)
  <2>1. CASE obj \in Preloads
    <3>1. PreloadRank(k + 1) = PreloadRank(k) + 1 /\ PreloadRank(k) \in Nat
      BY <1>1, <2>1, RankIs, Zenon
    <3>2. PreloadRank(k + 1) <= PreloadRank(Len(Globals)) /\ PreloadRank(Len(Globals)) \in Nat
      BY <1>1, RankIs, GlobalsAre, SMTT(30)
    <3>3. Len(inits) < MaxInits
      BY <1>1, <3>1, <3>2, DriverAssumption DEF DriverFits
    <3>4. inits' = Append(inits, obj)
      BY <1>1, <2>1, <3>3, Zenon DEF RunConstructor
    <3>5. /\ inits' \in Seq(Preloads) /\ Len(inits') = Len(inits) + 1 /\ inits'[Len(inits) + 1] = obj
          /\ \A i \in 1..Len(inits) : inits'[i] = inits[i]
      BY <1>1, <2>1, <3>4, AppendIs
    <3>6. ASSUME NEW i \in 1..k + 1, Globals[i] \in Preloads
          PROVE  inits'[PreloadRank(i)] = Globals[i]
      <4>1. CASE i = k + 1
        BY <1>1, <3>1, <3>5, <4>1, Zenon
      <4>2. CASE i # k + 1
        <5>1. i \in 1..k
          BY <1>1, <4>2
        <5>2. PreloadRank(i) \in 1..Len(inits)
          BY <1>1, <3>6, <5>1, RankOfPreload, Zenon
        <5> QED
          BY <1>1, <3>5, <3>6, <5>1, <5>2, Zenon
      <4> QED
        BY <4>1, <4>2, Zenon
    <3> QED
      BY <1>1, <3>1, <3>5, <3>6, Zenon DEF Ranked
  <2>2. CASE obj \notin Preloads
    <3>1. inits' = inits
      BY <2>2, Zenon DEF RunConstructor
    <3>2. PreloadRank(k + 1) = PreloadRank(k)
      BY <1>1, <2>2, RankIs, Zenon
    <3>3. \A i \in 1..k + 1 : Globals[i] \in Preloads => i \in 1..k
      BY <1>1, <2>2
    <3> QED
      BY <1>1, <3>1, <3>2, <3>3, Zenon DEF Ranked
  <2> QED
    BY <2>1, <2>2, Zenon
<1> HIDE DEF obj
<1>5. k' = k + 1 /\ phase' = phase /\ dtorCount' = dtorCount + 1
      /\ UNCHANGED <<fired, unload, claim, late, ran, destroyed>>
  BY ZenonT(60) DEF RunConstructor
<1>6. DriverTypes'
  BY <1>1, <1>3, <1>4, <1>5 DEF DriverInv, DriverTypes, unload
<1>7. RoutinesOK'
  BY <1>5, ZenonT(60) DEF DriverInv, RoutinesOK, unload
<1>8. InitsOK'
  <2>1. customUnload' = Null /\ ran' = <<>>
    BY <1>1, <1>5, Zenon DEF DriverInv, RoutinesOK, InitsOK, unload, Before
  <2>2. k + 1 <= Len(Globals)
    BY <1>1, GlobalsAre
  <2>3. phase' = "construct" /\ k' <= Len(Globals) /\ ~fired'
    BY <1>1, <1>5, <2>2, Zenon
  <2>4. Ranked(inits, k)'
    BY <1>4, <1>5, Zenon DEF Ranked
  <2> QED
    BY <2>1, <2>3, <2>4, Zenon DEF InitsOK
<1>9. BuiltOK'
  <2>1. \A i \in 1..k + 1 : built'[i] = Globals[i]
    <3>1. \A i \in 1..k + 1 : i \in 1..k \/ i = k + 1
      BY <1>1
    <3> QED
      BY <1>1, <1>3, <3>1, Zenon DEF obj
  <2>2. dtorCount = k
    BY <1>1, Zenon DEF DriverInv, BuiltOK
  <2> QED
    BY <1>1, <1>3, <1>5, <2>1, <2>2, Zenon DEF BuiltOK
<1>10. StackOK'
  BY <1>1, <1>3, <1>5, ZenonT(60) DEF DriverInv, StackOK, Idle, NoClaim
<1>11. OrderOK'
  <2>1. late' = {} /\ destroyed' = <<>> /\ Cardinality({}) = 0 /\ IsFiniteSet({})
    BY <1>1, <1>5, FS_EmptySet, Zenon DEF DriverInv, OrderOK, Leaving
  <2> QED
    BY <1>1, <1>3, <1>5, <2>1 DEF OrderOK, ReverseOrder, Leaving
<1> QED
  BY <1>6, <1>7, <1>8, <1>9, <1>10, <1>11, Zenon DEF DriverInv


\* DriverEntry, and the calls up to the destructors.
LEMMA RoutineKeeps ==
  ASSUME DriverInv,
         \/ SetDriverUnload \/ KtlRegisterFilter \/ KtlUnregisterFilter \/ EntrySucceeds \/ EntryFails \/ Unload
         \/ CallCustomUnload \/ CallItself
  PROVE  DriverInv'
<1> DEFINE Between == {"entry", "running", "unload", "custom", "overflow"}
<1>1. phase \in Between /\ phase' \in Between /\ UNCHANGED <<k, registry, objects, ran, destroyed>>
  BY Zenon DEF SetDriverUnload, KtlRegisterFilter, KtlUnregisterFilter, EntrySucceeds, EntryFails, Unload, CallCustomUnload,
         CallItself, unload
<1>2. phase' \in {"entry", "running", "custom"} \/ Idle
  BY Zenon DEF SetDriverUnload, KtlRegisterFilter, KtlUnregisterFilter, EntrySucceeds, EntryFails, Unload, CallCustomUnload,
         CallItself, DriverInv, StackOK
<1>3. BuiltOK' /\ StackOK' /\ OrderOK'
  BY <1>1, <1>2, ObjectsStay, Zenon DEF Leaving
<1>4. Null # "driver" /\ Null # "ktl"
  BY DriverAssumption, Zenon
<1>5. AllPreloads(ran) /\ AllPreloads(inits)
  BY <1>4, Zenon DEF SetDriverUnload, KtlRegisterFilter, KtlUnregisterFilter, EntrySucceeds, EntryFails, Unload, CallCustomUnload,
         CallItself, DriverInv, InitsOK
<1>6. InitsOK'
  BY <1>1, <1>5, Zenon DEF InitsOK, AllPreloads, registry
<1>7. drvUnload' \in Routines /\ customUnload' \in Routines /\ own' \in {"none", "set", "due", "ran"} /\ RoutinesOK'
  <2> USE DEF DriverInv, DriverTypes, RoutinesOK, Routines, Before, Leaving
  <2>1. CASE SetDriverUnload
    BY <1>4, <2>1, Zenon DEF SetDriverUnload
  <2>2. CASE KtlRegisterFilter
    BY <1>4, <2>2, Zenon DEF KtlRegisterFilter
  <2>3. CASE KtlUnregisterFilter
    BY <1>4, <2>3, Zenon DEF KtlUnregisterFilter
  <2>4. CASE EntrySucceeds
    BY <1>4, <2>4, Zenon DEF EntrySucceeds
  <2>5. CASE EntryFails \/ Unload
    BY <2>5, Zenon DEF EntryFails, Unload, unload
  <2>6. CASE CallCustomUnload
    BY <2>6, Zenon DEF CallCustomUnload
  <2>7. CASE CallItself
    BY <2>7, Zenon DEF CallItself
  <2> QED
    BY <2>1, <2>2, <2>3, <2>4, <2>5, <2>6, <2>7, ZenonT(60)
<1>8. DriverTypes'
  BY <1>1, <1>7, Zenon DEF DriverInv, DriverTypes, registry, objects
<1> QED
  BY <1>3, <1>6, <1>7, <1>8, Zenon DEF DriverInv

\* atexit claims an index for the destructor of an object.
LEMMA ClaimKeeps ==
  ASSUME DriverFits, DriverInv, NEW t \in DriverThreads, NEW obj \in Locals, ClaimSlot(t, obj)
  PROVE  DriverInv'
<1>1. /\ phase \in {"entry", "running", "custom"} /\ obj \notin Range(built) /\ built' = Append(built, obj)
      /\ claim' = [claim EXCEPT ![t] = [idx |-> dtorCount, obj |-> obj]] /\ dtorCount' = dtorCount + 1
      /\ UNCHANGED <<phase, k, registry, unload, dtorStack, late, ran, destroyed>>
  BY Zenon DEF ClaimSlot
<1>2. obj \in Statics /\ built \in Seq(Statics) /\ Len(built) \in Nat /\ dtorCount = Len(built) /\ Null \notin Statics
  BY <1>1, GlobalsAre, ZenonT(60) DEF Statics, DriverInv, DriverTypes, BuiltOK
<1>3. /\ built' \in Seq(Statics) /\ Len(built') = Len(built) + 1 /\ Cardinality(Range(built')) = Len(built) + 1
      /\ \A i \in 1..Len(built) : built'[i] = built[i]
      /\ built'[Len(built) + 1] = obj
  BY <1>1, <1>2, OneMore DEF DriverInv, BuiltOK
<1>4. /\ claim' \in [DriverThreads -> [idx : Nat, obj : Statics \union {Null}]]
      /\ claim'[t] = [idx |-> Len(built), obj |-> obj]
      /\ \A u \in DriverThreads \ {t} : claim'[u] = claim[u]
  BY <1>1, <1>2, Zenon DEF DriverInv, DriverTypes
<1>5. claim'[t] # NoClaim /\ claim[t] = NoClaim /\ \A u \in DriverThreads : claim[u].idx \in Nat
  BY <1>2, <1>4, ZenonT(60) DEF NoClaim, ClaimSlot, DriverInv, DriverTypes
<1>6. DriverTypes'
  BY <1>1, <1>2, <1>3, <1>4, SMTT(30) DEF DriverInv, DriverTypes, registry, unload
<1>7. RoutinesOK' /\ InitsOK'
  BY <1>1, Zenon DEF DriverInv, RoutinesOK, InitsOK, AllPreloads, registry, unload
<1>8. BuiltOK'
  BY <1>1, <1>2, <1>3, Zenon DEF BuiltOK
<1>9. StackOK'
  <2>1. ASSUME NEW u \in DriverThreads, claim'[u] # NoClaim
        PROVE  claim'[u].idx < Len(built') /\ claim'[u].obj = built'[claim'[u].idx + 1]
    <3>1. CASE u = t
      BY <1>2, <1>3, <1>4, <3>1, SMTT(30)
    <3>2. CASE u # t
      <4>1. claim'[u] = claim[u] /\ claim[u].idx < Len(built) /\ claim[u].obj = built[claim[u].idx + 1]
        BY <1>4, <2>1, <3>2, ZenonT(60) DEF DriverInv, StackOK, SlotsOK
      <4>2. claim[u].idx + 1 \in 1..Len(built)
        BY <1>2, <1>5, <4>1
      <4> QED
        BY <1>2, <1>3, <1>5, <4>1, <4>2, SMTT(30)
    <3> QED
      BY <3>1, <3>2, ZenonT(60)
  <2>2. ASSUME NEW i \in 0..Len(built')-1, \A u \in DriverThreads : claim'[u] = NoClaim \/ claim'[u].idx # i
        PROVE  dtorStack'[i] = built'[i + 1]
    <3>1. i # Len(built)
      BY <1>4, <1>5, <2>2, SMTT(30)
    <3>2. i \in 0..Len(built)-1 /\ i + 1 \in 1..Len(built)
      BY <1>2, <1>3, <3>1
    <3>3. \A u \in DriverThreads : claim[u] = NoClaim \/ claim[u].idx # i
      BY <1>4, <1>5, <2>2, Zenon
    <3>4. dtorStack[i] = built[i + 1]
      BY <3>2, <3>3, Zenon DEF DriverInv, StackOK, SlotsOK
    <3> QED
      BY <1>1, <1>3, <3>2, <3>4, ZenonT(60)
  <2>3. NoClaim' = NoClaim
    BY ZenonT(60) DEF NoClaim
  <2> QED
    <3>1. SlotsOK'
      BY <2>1, <2>2, <2>3, Zenon DEF SlotsOK
    <3> QED
      BY <1>1, <3>1, Zenon DEF StackOK
<1>10. OrderOK'
  <2>1. late' = {} /\ destroyed' = <<>> /\ Cardinality({}) = 0 /\ IsFiniteSet({})
    BY <1>1, FS_EmptySet, Zenon DEF DriverInv, OrderOK, Leaving
  <2> QED
    BY <1>1, <1>2, <1>3, <2>1 DEF OrderOK, ReverseOrder, Leaving
<1> QED
  BY <1>6, <1>7, <1>8, <1>9, <1>10, Zenon DEF DriverInv

\* ... and stores the destructor there, whatever other threads have claimed meanwhile.
LEMMA StoreKeeps ==
  ASSUME DriverFits, DriverInv, NEW t \in DriverThreads, StoreHandler(t)
  PROVE  DriverInv'
<1> DEFINE idx == claim[t].idx
<1>1. /\ claim[t] # NoClaim /\ dtorStack' = PutHandler(idx, claim[t].obj) /\ claim' = [claim EXCEPT ![t] = NoClaim]
      /\ UNCHANGED <<phase, k, registry, unload, dtorCount, built, late, ran, destroyed>>
  BY Zenon DEF StoreHandler
<1>2. idx \in Nat /\ idx < Len(built) /\ claim[t].obj = built[idx + 1] /\ Len(built) \in Nat /\ claim[t].obj \in Statics \union {Null}
  BY <1>1, SMTT(30) DEF DriverInv, DriverTypes, StackOK, SlotsOK
<1>3. idx < MaxDtors
  BY <1>2, BuiltFits, DriverAssumption, SMTT(30) DEF DriverInv
<1>4. /\ dtorStack' \in [0..MaxDtors-1 -> Statics \union {Null}]
      /\ dtorStack'[idx] = built[idx + 1]
      /\ \A i \in 0..MaxDtors-1 : i # idx => dtorStack'[i] = dtorStack[i]
  BY <1>1, <1>2, <1>3, DriverAssumption DEF PutHandler, DriverInv, DriverTypes
<1>5. /\ claim' \in [DriverThreads -> [idx : Nat, obj : Statics \union {Null}]]
      /\ claim'[t] = NoClaim /\ \A u \in DriverThreads \ {t} : claim'[u] = claim[u]
  BY <1>1, Zenon DEF DriverInv, DriverTypes, NoClaim
<1>6. DriverTypes'
  BY <1>1, <1>4, <1>5, Zenon DEF DriverInv, DriverTypes, registry, unload
<1>7. RoutinesOK' /\ InitsOK' /\ BuiltOK' /\ OrderOK'
  BY <1>1, ZenonT(60) DEF DriverInv, RoutinesOK, InitsOK, AllPreloads, Ranked, BuiltOK, OrderOK, ReverseOrder, registry, unload
<1>8. StackOK'
  <2>1. ASSUME NEW u \in DriverThreads, claim'[u] # NoClaim
        PROVE  claim'[u].idx < Len(built') /\ claim'[u].obj = built'[claim'[u].idx + 1]
    BY <1>1, <1>5, <2>1, Zenon DEF DriverInv, StackOK, SlotsOK
  <2>2. ASSUME NEW i \in 0..Len(built')-1, \A u \in DriverThreads : claim'[u] = NoClaim \/ claim'[u].idx # i
        PROVE  dtorStack'[i] = built'[i + 1]
    <3>1. CASE i = idx
      BY <1>1, <1>4, <3>1, Zenon
    <3>2. CASE i # idx
      <4>1. \A u \in DriverThreads : claim[u] = NoClaim \/ claim[u].idx # i
        BY <1>5, <2>2, <3>2, ZenonT(60)
      <4>2. dtorStack[i] = built[i + 1] /\ i \in 0..MaxDtors-1
        <5>1. i \in 0..Len(built)-1 /\ Len(built) \in Nat /\ Len(built) <= MaxDtors /\ MaxDtors \in Nat
          BY <1>1, <1>2, BuiltFits, DriverAssumption, Zenon
        <5>2. i \in 0..MaxDtors-1
          BY <5>1
        <5> QED
          BY <4>1, <5>1, <5>2, Zenon DEF DriverInv, StackOK, SlotsOK
      <4> QED
        BY <1>1, <1>4, <3>2, <4>2, Zenon
    <3> QED
      BY <3>1, <3>2, Zenon
  <2>3. NoClaim' = NoClaim
    BY Zenon DEF NoClaim
  <2>4. SlotsOK'
    BY <2>1, <2>2, <2>3, ZenonT(60) DEF SlotsOK
  <2>5. Idle => Idle'
    BY <1>5 DEF Idle
  <2> QED
    BY <1>1, <2>4, <2>5, Zenon DEF StackOK, DriverInv
<1> QED
  BY <1>6, <1>7, <1>8, Zenon DEF DriverInv


\* invoke_global_destructors begins and ends.
LEMMA DestroyingKeeps ==
  ASSUME DriverFits, DriverInv, StartDestroying \/ DestroyDone
  PROVE  DriverInv'
<1>1. CASE StartDestroying
  <2>1. /\ phase \in {"custom", "unload"} /\ Idle /\ phase' = "destroy" /\ k' = dtorCount
        /\ UNCHANGED <<registry, unload, objects, ran, destroyed>>
    BY <1>1, Zenon DEF StartDestroying, DriverInv, StackOK
  <2>2. late = {} /\ destroyed = <<>> /\ Cardinality({}) = 0 /\ dtorCount = Len(built) /\ Len(built) \in Nat
    BY <2>1, BuiltFits, FS_EmptySet, Zenon DEF DriverInv, OrderOK, BuiltOK, Leaving
  <2>3. DriverTypes'
    BY <2>1, Zenon DEF DriverInv, DriverTypes, registry, unload, objects, Leaving
  <2>4. RoutinesOK'
    BY <1>1, Zenon DEF StartDestroying, DriverInv, RoutinesOK, unload, Before, Leaving
  <2>5. InitsOK'
    BY <2>1, Zenon DEF DriverInv, InitsOK, AllPreloads, registry, unload
  <2>6. BuiltOK' /\ StackOK'
    BY <2>1, Zenon DEF DriverInv, BuiltOK, StackOK, SlotsOK, Idle, objects
  <2>7. OrderOK'
    <3>1. ReverseOrder' /\ IsFiniteSet(late') /\ Cardinality(late') <= Len(built') /\ late' \subseteq Range(built')
      BY <2>1, Zenon DEF DriverInv, OrderOK, ReverseOrder, objects
    <3>2. k' + Len(destroyed') = Len(built') - Cardinality(late')
      BY <2>1, <2>2 DEF objects
    <3> QED
      BY <2>1, <3>1, <3>2, Zenon DEF OrderOK, Leaving
  <2> QED
    BY <2>3, <2>4, <2>5, <2>6, <2>7, Zenon DEF DriverInv
<1>2. CASE DestroyDone
  <2>1. /\ phase = "destroy" /\ k = 0 /\ phase' = "done" /\ dtorCount' = 0
        /\ UNCHANGED <<k, registry, unload, dtorStack, claim, built, late, ran, destroyed>>
    BY <1>2, Zenon DEF DestroyDone
  <2>2. DriverTypes'
    BY <2>1, Zenon DEF DriverInv, DriverTypes, registry, unload, Leaving
  <2>3. RoutinesOK' /\ InitsOK'
    BY <2>1, Zenon DEF DriverInv, RoutinesOK, InitsOK, AllPreloads, registry, unload, Before, Leaving
  <2>4. BuiltOK' /\ StackOK'
    BY <2>1, Zenon DEF DriverInv, BuiltOK, StackOK, SlotsOK, Idle
  <2>5. OrderOK'
    BY <2>1, Zenon DEF DriverInv, OrderOK, ReverseOrder, Leaving
  <2> QED
    BY <2>2, <2>3, <2>4, <2>5, Zenon DEF DriverInv
<1> QED
  BY <1>1, <1>2, Zenon

\* One destructor, which may construct one more object.
LEMMA DestructorKeeps ==
  ASSUME DriverFits, DriverInv, InvokeDestructor
  PROVE  DriverInv'
<1> DEFINE obj == Slot(k - 1)
<1>1. /\ phase = "destroy" /\ k \in Nat /\ k > 0 /\ k' = k - 1 /\ Idle
      /\ UNCHANGED <<registry, unload, ran>>
  BY Zenon DEF InvokeDestructor, DriverInv, DriverTypes, StackOK
<1> PICK due : due = Len(built) - Cardinality(late)
  BY Zenon
<1>2. /\ Cardinality(late) \in Nat /\ Cardinality(late) <= Len(built) /\ IsFiniteSet(late) /\ late \subseteq Range(built)
      /\ destroyed \in Seq(Statics) /\ built \in Seq(Statics) /\ dtorCount = Len(built)
  BY <1>1, FS_CardinalityType, Zenon DEF DriverInv, DriverTypes, OrderOK, BuiltOK
<1>3. /\ Len(built) \in Nat /\ MaxDtors \in Nat /\ Len(destroyed) \in Nat /\ due \in Nat
       /\ Len(built) <= MaxDtors /\ due <= Len(built)
  BY <1>2, BuiltFits, DriverAssumption
<1>4. k + Len(destroyed) = due
  BY <1>1, Zenon DEF DriverInv, OrderOK, Leaving
<1>5. /\ \A i \in 1..Len(built) : built[i] \in late <=> i > due
      /\ \A i \in 1..Len(destroyed) : destroyed[i] = built[due + 1 - i]
  BY Zenon DEF DriverInv, OrderOK, ReverseOrder
<1>6. k - 1 \in 0..Len(built)-1 /\ k \in 1..Len(built) /\ k = (k - 1) + 1 /\ k - 1 < MaxDtors
  BY <1>1, <1>3, <1>4
<1>7. obj = built[k] /\ obj \in Statics /\ obj # Null
  <2>1. dtorStack[k - 1] = built[k]
    BY <1>1, <1>6, Zenon DEF DriverInv, StackOK, SlotsOK, Idle
  <2>2. built[k] \in Statics
    BY <1>2, <1>6
  <2> QED
    BY <1>6, <2>1, <2>2, GlobalsAre, Zenon DEF Slot
<1>8. phase' = "destroy" /\ destroyed' = Append(destroyed, obj)
  BY <1>1, <1>7, Zenon DEF InvokeDestructor
<1>9. /\ destroyed' \in Seq(Statics) /\ Len(destroyed') = Len(destroyed) + 1
      /\ \A i \in 1..Len(destroyed) : destroyed'[i] = destroyed[i]
      /\ destroyed'[Len(destroyed) + 1] = built[k]
  <2> HIDE DEF obj
  <2> QED
    BY <1>2, <1>7, <1>8, AppendIs, SMTT(30)
<1>10. /\ Len(destroyed') \in Nat /\ k' + Len(destroyed') = due /\ k' \in Nat
      /\ \A i \in 1..Len(destroyed') : destroyed'[i] = built[due + 1 - i] /\ due + 1 - i \in 1..due
  <2>1. ASSUME NEW i \in 1..Len(destroyed')
        PROVE  destroyed'[i] = built[due + 1 - i] /\ due + 1 - i \in 1..due
    <3>1. CASE i = Len(destroyed) + 1
      <4>1. due + 1 - i = k
        BY <1>1, <1>3, <1>4, <3>1, SMTT(30)
      <4> QED
        BY <1>1, <1>3, <1>4, <1>9, <3>1, <4>1, SMTT(30)
    <3>2. CASE i # Len(destroyed) + 1
      <4>1. i \in 1..Len(destroyed)
        BY <1>3, <1>9, <3>2
      <4> QED
        BY <1>1, <1>3, <1>4, <1>5, <1>9, <4>1, SMTT(30)
    <3> QED
      BY <3>1, <3>2, Zenon
  <2> QED
    BY <1>1, <1>3, <1>4, <1>9, <2>1, SMTT(30)
<1>11. RoutinesOK' /\ InitsOK'
  BY <1>1, <1>8, Zenon DEF DriverInv, RoutinesOK, InitsOK, AllPreloads, registry, unload, Before, Leaving
<1>12. CASE UNCHANGED objects
  <2>1. DriverTypes'
    BY <1>1, <1>8, <1>9, <1>10, <1>12, Zenon DEF DriverInv, DriverTypes, registry, unload, objects, Leaving
  <2>2. BuiltOK' /\ StackOK'
    BY <1>1, <1>8, <1>12, Zenon DEF DriverInv, BuiltOK, StackOK, SlotsOK, Idle, objects
  <2>3. OrderOK'
    <3>1. built' = built /\ late' = late
      BY <1>12, Zenon DEF objects
    <3>2. Len(destroyed') <= due
      BY <1>3, <1>10
    <3>3. ReverseOrder'
      BY <1>5, <1>10, <3>1, <3>2, Zenon DEF ReverseOrder
    <3> QED
      BY <1>2, <1>8, <1>10, <3>1, <3>3, Zenon DEF OrderOK, Leaving
  <2> QED
    BY <1>11, <2>1, <2>2, <2>3, Zenon DEF DriverInv
<1>13. CASE ~UNCHANGED objects
  <2>1. PICK l \in Locals \ Range(built) :
          /\ built' = Append(built, l) /\ late' = late \union {l}
          /\ dtorStack' = PutHandler(dtorCount, l) /\ dtorCount' = dtorCount + 1 /\ UNCHANGED claim
    BY <1>13, Zenon DEF InvokeDestructor
  <2>2. l \in Statics /\ l \notin Range(built) /\ l \notin late
    BY <1>2, Zenon DEF Statics
  <2>3. /\ built' \in Seq(Statics) /\ Len(built') = Len(built) + 1 /\ Cardinality(Range(built')) = Len(built')
        /\ \A i \in 1..Len(built) : built'[i] = built[i] /\ built[i] # l
        /\ built'[Len(built) + 1] = l
        /\ Range(built') = Range(built) \union {l}
        /\ dtorStack' \in [0..MaxDtors-1 -> Statics \union {Null}]
        /\ SlotsOK'
    BY <1>1, <2>1, <2>2, Grown, Zenon
  <2>4. IsFiniteSet(late') /\ Cardinality(late') = Cardinality(late) + 1
    BY <1>2, <2>1, <2>2, FS_AddElement, ZenonT(60)
  <2>5. Len(built') - Cardinality(late') = due
    BY <1>2, <1>3, <2>3, <2>4, SMTT(30)
  <2>6. DriverTypes'
    <3>1. dtorCount' \in Nat /\ UNCHANGED <<inits, fired, drvUnload, customUnload, own, ran, claim>>
      BY <1>1, <1>2, <1>3, <2>1, SMTT(30) DEF registry, unload
    <3> QED
      BY <1>8, <1>9, <1>10, <2>3, <3>1, Zenon DEF DriverInv, DriverTypes, Leaving
  <2>7. BuiltOK' /\ StackOK'
    BY <1>1, <1>2, <1>8, <2>1, <2>3, ZenonT(60) DEF DriverInv, BuiltOK, StackOK, Idle, NoClaim
  <2>8. ReverseOrder'
    <3>1. \A i \in 1..Len(built') : built'[i] \in late' <=> i > due
      <4> TAKE i \in 1..Len(built')
      <4>1. CASE i = Len(built) + 1
        BY <1>3, <2>1, <2>3, <4>1
      <4>2. CASE i # Len(built) + 1
        <5>1. i \in 1..Len(built)
          BY <1>3, <2>3, <4>2
        <5> QED
          BY <1>5, <2>1, <2>3, <5>1, ZenonT(60)
      <4> QED
        BY <4>1, <4>2, Zenon
    <3>2. \A i \in 1..Len(destroyed') : destroyed'[i] = built'[due + 1 - i]
      <4> TAKE i \in 1..Len(destroyed')
      <4>1. due + 1 - i \in 1..due /\ destroyed'[i] = built[due + 1 - i]
        BY <1>10, Zenon
      <4>2. 1..due \subseteq 1..Len(built)
        BY <1>3
      <4> QED
        BY <2>3, <4>1, <4>2, Zenon
    <3>3. Len(destroyed') <= due
      BY <1>3, <1>10
    <3> QED
      BY <2>5, <3>1, <3>2, <3>3, Zenon DEF ReverseOrder
  <2>9. OrderOK'
    <3>1. Cardinality(late') <= Len(built') /\ late' \subseteq Range(built')
      BY <1>2, <1>3, <2>1, <2>3, <2>4, SMTT(30)
    <3> QED
      BY <1>8, <1>10, <2>4, <2>5, <2>8, <3>1, ZenonT(60) DEF OrderOK, Leaving
  <2> QED
    BY <1>11, <2>6, <2>7, <2>9, ZenonT(60) DEF DriverInv
<1> QED
  BY <1>12, <1>13, Zenon


\* Every step of KtlDriverEntry, KtlDriverUnload, atexit and the driver keeps the invariant.
LEMMA DriverKeeps ==
  ASSUME DriverFits, DriverInv, [DriverNext]_driverVars
  PROVE  DriverInv'
<1>1. CASE UNCHANGED driverVars
  <2> USE <1>1 DEF driverVars, registry, unload, objects, DriverInv
  <2>1. DriverTypes' /\ RoutinesOK'
    BY ZenonT(60) DEF DriverTypes, RoutinesOK
  <2>2. InitsOK' /\ BuiltOK'
    BY Zenon DEF InitsOK, AllPreloads, Ranked, BuiltOK
  <2>3. StackOK' /\ OrderOK'
    BY DEF StackOK, SlotsOK, Idle, OrderOK, ReverseOrder
  <2> QED
    BY <2>1, <2>2, <2>3, Zenon
<1>2. CASE Entry
  BY <1>2, ConstructorKeeps, PreloadKeeps, RoutineKeeps, Zenon DEF Entry
<1>3. CASE LeaveDriver
  BY <1>3, RoutineKeeps, DestroyingKeeps, DestructorKeeps, Zenon DEF LeaveDriver
<1>4. CASE Driver
  BY <1>4, RoutineKeeps, ClaimKeeps, Zenon DEF Driver
<1>5. CASE \E t \in DriverThreads : StoreHandler(t)
  BY <1>5, StoreKeeps, Zenon
<1> QED
  BY <1>1, <1>2, <1>3, <1>4, <1>5, ZenonT(60) DEF DriverNext

\* When the destructors have run, they have run for all objects that were there when they began.
LEMMA DoneIsAll ==
  ASSUME DriverInv, phase = "done"
  PROVE  Range(destroyed) = Range(built) \ late
<1> PICK due : due = Len(built) - Cardinality(late)
  BY Zenon
<1>1. /\ destroyed \in Seq(Statics) /\ built \in Seq(Statics) /\ IsFiniteSet(late) /\ Cardinality(late) <= Len(built)
      /\ k = 0 /\ k + Len(destroyed) = due
      /\ \A i \in 1..Len(built) : built[i] \in late <=> i > due
      /\ \A i \in 1..Len(destroyed) : destroyed[i] = built[due + 1 - i]
  BY ZenonT(60) DEF DriverInv, DriverTypes, OrderOK, ReverseOrder, Leaving
<1>2. Cardinality(late) \in Nat /\ Len(built) \in Nat /\ Len(destroyed) \in Nat
  BY <1>1, FS_CardinalityType, SMTT(30)
<1>3. due \in Nat /\ due <= Len(built) /\ Len(destroyed) = due
  BY <1>1, <1>2
<1>4. Range(destroyed) = {destroyed[i] : i \in 1..due} /\ Range(built) = {built[i] : i \in 1..Len(built)}
  BY <1>1, <1>3, RangeIs, Zenon
<1>5. ASSUME NEW x \in Range(destroyed)
      PROVE  x \in Range(built) \ late
  <2>1. PICK i \in 1..due : x = destroyed[i]
    BY <1>4, Zenon
  <2>2. due + 1 - i \in 1..Len(built) /\ ~(due + 1 - i > due)
    BY <1>2, <1>3
  <2>3. x = built[due + 1 - i]
    BY <1>1, <1>3, <2>1, Zenon
  <2> QED
    BY <1>1, <1>4, <2>2, <2>3, Zenon
<1>6. ASSUME NEW x \in Range(built) \ late
      PROVE  x \in Range(destroyed)
  <2>1. PICK i \in 1..Len(built) : x = built[i]
    BY <1>4, Zenon
  <2>2. i <= due
    BY <1>1, <1>2, <1>3, <2>1
  <2>3. due + 1 - i \in 1..due /\ due + 1 - (due + 1 - i) = i
    BY <1>2, <1>3, <2>2
  <2>4. x = destroyed[due + 1 - i]
    BY <1>1, <1>3, <2>1, <2>3, Zenon
  <2> QED
    BY <1>4, <2>3, <2>4, Zenon
<1> QED
  BY <1>5, <1>6, Zenon

\* A driver with any number of static objects and threads, whose destructors and initialisers fit into their arrays: the
\* initialisers run first and in order, the driver's unload routine runs once and before the destructors, and these run
\* for every object, in the reverse order of construction, from slots that atexit has stored.
THEOREM DriverAlwaysInOrder ==
  ASSUME DriverFits
  PROVE  DriverSpec => []DriverOrder
<1>1. DriverInv => DriverOrder
  <2> SUFFICES ASSUME DriverInv PROVE DriverOrder
    BY Zenon
  <2>1. EntryAfterPreloads
    BY Zenon DEF DriverInv, DriverTypes, InitsOK, RoutinesOK, EntryAfterPreloads, Leaving
  <2>2. OnlyStoredCalled
    BY Zenon DEF DriverInv, DriverTypes, OnlyStoredCalled, Before, Leaving
  <2>3. ReverseOrder
    BY Zenon DEF DriverInv, OrderOK
  <2>4. AllDestroyed
    BY DoneIsAll, Zenon DEF AllDestroyed
  <2> QED
    BY <2>1, <2>2, <2>3, <2>4, Zenon DEF DriverOrder
<1>2. DriverInv /\ [DriverNext]_driverVars => DriverInv'
  BY DriverKeeps, Zenon
<1> QED
  BY <1>1, <1>2, DriverStarts, PTL DEF DriverSpec

-----------------------------------------------------------------------------
(***************************************************************************)
(* system_thread, for any number of C++ objects and of kernel threads that *)
(* are created, moved, swapped, joined and detached in any order while the *)
(* threads run.                                                            *)
(*                                                                         *)
(* What the three properties need to be inductive is the state of the      *)
(* constructor that is in progress: which thread it has created, that its  *)
(* object refers to none yet, and that the arguments it packed are its own *)
(* until the thread exists, and the thread's from then on.                 *)
(***************************************************************************)

Bodies == {"none", "started", "called", "returned", "ended"}

ThreadsTypeOK ==
  /\ m_thread \in [ThreadObjects -> Ids \union {NoThread}]
  /\ refs \in [Ids -> Int]
  /\ body \in [Ids -> Bodies]
  /\ args \in [Ids -> {"none", "packed"}]
  /\ clientPc \in {"idle", "create", "obtain", "close", "release"}
  /\ new \in [obj : ThreadObjects \union {NoThread}, id : Ids \union {NoThread},
              thread : Ids \union {NoThread}]
  /\ joined \subseteq Ids

\* The constructor in progress.
NewOK ==
  IF clientPc = "idle" THEN new = NoNew
  ELSE /\ new.obj \in ThreadObjects /\ new.id \in Ids
       /\ m_thread[new.obj] = NoThread
       /\ clientPc \in {"create", "obtain"} => new.thread = NoThread
       /\ new.thread \in {NoThread, new.id}
       /\ clientPc = "create" <=> body[new.id] = "none"

\* Who owns the arguments.
ArgsOK ==
  \A id \in Ids :
    args[id] = "packed" <=> \/ body[id] \in {"started", "called"}
                            \/ clientPc = "create" /\ new.id = id

ThreadsInv == ThreadsTypeOK /\ NewOK /\ ArgsOK /\ RefsExact /\ JoinedHasEnded

-----------------------------------------------------------------------------
(***************************************************************************)
(* The references of a thread, one by one                                  *)
(***************************************************************************)

Is(x, id) == IF x = id THEN 1 ELSE 0
Count(f, id) == Cardinality({o \in ThreadObjects : f[o] = id})
OnlyAt(o, f, g) == \A x \in ThreadObjects \ {o} : g[x] = f[x]
Handle(id) == IF new.id = id /\ clientPc \in {"obtain", "close"} THEN 1 ELSE 0
Own(id) == IF ThreadRuns(id) THEN 1 ELSE 0

\* RefsExact with a name for each kind of reference.
LEMMA RefsForm ==
  RefsExact <=> \A id \in Ids : refs[id] = Count(m_thread, id) + Is(new.thread, id)
                                           + Handle(id) + Own(id)
BY Zenon DEF RefsExact, Count, Is, Handle, Own

\* The same for the next state.
LEMMA RefsFormNext ==
  RefsExact' <=> \A id \in Ids : refs'[id] = Count(m_thread', id) + Is(new'.thread, id)
                                             + Handle(id)' + Own(id)'
BY Zenon DEF RefsExact, Count, Is, Handle, Own

\* The references are numbers, finitely many objects hold them.
LEMMA Numbers ==
  ASSUME SystemThreadAssumption, NEW id
  PROVE  /\ Count(m_thread, id) \in Nat
         /\ Is(new.thread, id) \in Nat /\ Handle(id) \in Nat /\ Own(id) \in Nat
<1>1. IsFiniteSet({o \in ThreadObjects : m_thread[o] = id})
  BY FS_Subset, Zenon DEF SystemThreadAssumption
<1>2. Count(m_thread, id) \in Nat
  BY <1>1, FS_CardinalityType, Zenon DEF Count
<1> QED
  BY <1>2, Zenon DEF Is, Handle, Own

\* An object that comes to refer to v gives up what it referred to.
LEMMA CountSet ==
  ASSUME SystemThreadAssumption, NEW f, NEW g, NEW o \in ThreadObjects, NEW id,
         OnlyAt(o, f, g)
  PROVE  /\ Count(g, id) = Count(f, id) + (Is(g[o], id) - Is(f[o], id))
         /\ Count(f, id) \in Nat
<1> DEFINE H == {x \in ThreadObjects : f[x] = id}
           K == {x \in ThreadObjects : g[x] = id}
<1>1. IsFiniteSet(H) /\ Cardinality(H) \in Nat
  BY FS_Subset, FS_CardinalityType, Zenon DEF SystemThreadAssumption
<1>2. Count(f, id) = Cardinality(H) /\ Count(g, id) = Cardinality(K)
  BY Zenon DEF Count
<1>3. CASE f[o] = id <=> g[o] = id
  <2>1. K = H
    BY <1>3, Zenon DEF OnlyAt
  <2>2. Is(f[o], id) = Is(g[o], id) /\ Is(g[o], id) \in Int
    BY <1>3 DEF Is
  <2> HIDE DEF H, K
  <2> QED
    BY <1>1, <1>2, <2>1, <2>2
<1>4. CASE f[o] = id /\ g[o] # id
  <2>1. K = H \ {o} /\ o \in H
    BY <1>4 DEF OnlyAt
  <2>2. Is(f[o], id) = 1 /\ Is(g[o], id) = 0
    BY <1>4, Zenon DEF Is
  <2> HIDE DEF H, K
  <2>3. Cardinality(K) = Cardinality(H) - 1
    BY <1>1, <2>1, FS_RemoveElement, Zenon
  <2> QED
    BY <1>1, <1>2, <2>2, <2>3
<1>5. CASE f[o] # id /\ g[o] = id
  <2>1. K = H \union {o} /\ o \notin H
    BY <1>5, Zenon DEF OnlyAt
  <2>2. Is(f[o], id) = 0 /\ Is(g[o], id) = 1
    BY <1>5, Zenon DEF Is
  <2> HIDE DEF H, K
  <2>3. Cardinality(K) = Cardinality(H) + 1
    BY <1>1, <2>1, FS_AddElement, Zenon
  <2> QED
    BY <1>1, <1>2, <2>2, <2>3
<1> QED
  BY <1>3, <1>4, <1>5, Zenon

\* An object refers to a thread once or not at all.
LEMMA IsType == \A x, id : Is(x, id) \in Nat
BY Zenon DEF Is

\* Two objects, one after the other.
LEMMA CountSetTwo ==
  ASSUME SystemThreadAssumption, NEW f, NEW g, NEW h, NEW o \in ThreadObjects, NEW p \in ThreadObjects, NEW id,
         OnlyAt(o, f, g), OnlyAt(p, g, h)
  PROVE  Count(h, id) = Count(f, id) + (Is(g[o], id) - Is(f[o], id))
                                     + (Is(h[p], id) - Is(g[p], id))
<1>1. Count(g, id) = Count(f, id) + (Is(g[o], id) - Is(f[o], id))
  BY CountSet
<1>2. Count(h, id) = Count(g, id) + (Is(h[p], id) - Is(g[p], id))
  BY CountSet
<1> QED
  BY <1>1, <1>2, Zenon


\* The references that no step touches add up as before.
LEMMA RefsKept ==
  ASSUME RefsExact, UNCHANGED <<m_thread, refs>>, new'.thread = new.thread,
         \A id \in Ids : Handle(id)' = Handle(id) /\ Own(id)' = Own(id)
  PROVE  RefsExact'
<1>1. \A id \in Ids : refs'[id] = Count(m_thread', id) + Is(new'.thread, id)
                                  + Handle(id)' + Own(id)'
  BY RefsForm, Zenon
<1> QED
  BY <1>1, RefsFormNext, Zenon

\* What NewOK says once the constructor has finished or failed.
LEMMA NoNewFields == NoNew.obj = NoThread /\ NoNew.id = NoThread /\ NoNew.thread = NoThread
BY Zenon DEF NoNew
-----------------------------------------------------------------------------
(***************************************************************************)
(* Creation                                                                *)
(***************************************************************************)

\* A constructor starts: the arguments are its own, no thread exists yet.
LEMMA PackArgsInv ==
  ASSUME SystemThreadAssumption, ThreadsInv, NEW o \in ThreadObjects, NEW id \in Ids, PackArgs(o, id)
  PROVE  ThreadsInv'
<1> USE DEF PackArgs, kernel, ThreadsInv, SystemThreadAssumption
<1>1. ThreadsTypeOK'
  BY Zenon DEF ThreadsTypeOK
<1>2. NewOK'
  BY Zenon DEF ThreadsTypeOK, NewOK
<1>3. ArgsOK'
  BY Zenon DEF ThreadsTypeOK, ArgsOK
<1>4. RefsExact'
  <2>1. new.thread = NoThread /\ new'.thread = NoThread
    BY NoNewFields, Zenon DEF NewOK
  <2>2. \A i \in Ids : Handle(i)' = Handle(i) /\ Own(i)' = Own(i)
    BY Zenon DEF Handle, Own, ThreadRuns
  <2> QED
    BY <2>1, <2>2, RefsKept, Zenon
<1>5. JoinedHasEnded'
  BY Zenon DEF ThreadsTypeOK, JoinedHasEnded
<1> QED
  BY <1>1, <1>2, <1>3, <1>4, <1>5, Zenon

\* The thread exists, with its own reference and the creator's handle; the
\* arguments are the thread's from here on.
LEMMA CreateThreadInv ==
  ASSUME SystemThreadAssumption, ThreadsInv, CreateThread
  PROVE  ThreadsInv'
<1> USE DEF CreateThread, AddRef, ThreadsInv, SystemThreadAssumption
<1>0. new.id \in Ids /\ body[new.id] = "none" /\ new.thread = NoThread
  BY Zenon DEF NewOK
<1>1. ThreadsTypeOK'
  BY <1>0 DEF ThreadsTypeOK, Bodies
<1>2. NewOK'
  BY <1>0, Zenon DEF ThreadsTypeOK, NewOK
<1>3. ArgsOK'
  BY <1>0, Zenon DEF ThreadsTypeOK, ArgsOK
<1>4. RefsExact'
  <2>1. ASSUME NEW i \in Ids
        PROVE  refs'[i] = Count(m_thread', i) + Is(new'.thread, i) + Handle(i)' + Own(i)'
    <3>1. refs[i] = Count(m_thread, i) + Is(new.thread, i) + Handle(i) + Own(i)
      BY RefsForm, ZenonT(60)
    <3>2. CASE i = new.id
      <4>1. Handle(i) = 0 /\ Own(i) = 0 /\ Handle(i)' = 1 /\ Own(i)' = 1
        BY <3>2, <1>0, Zenon DEF Handle, Own, ThreadRuns, ThreadsTypeOK
      <4>2. refs'[i] = refs[i] + 2
        BY <3>2, Zenon DEF ThreadsTypeOK
      <4> QED
        BY <3>1, <4>1, <4>2, Numbers
    <3>3. CASE i # new.id
      <4>1. Handle(i)' = Handle(i) /\ Own(i)' = Own(i) /\ refs'[i] = refs[i]
        BY <3>3, Zenon DEF Handle, Own, ThreadRuns, ThreadsTypeOK
      <4> QED
        BY <3>1, <4>1, Zenon
    <3> QED
      BY <3>2, <3>3, Zenon
  <2> QED
    BY <2>1, RefsFormNext, Zenon
<1>5. JoinedHasEnded'
  BY <1>0, Zenon DEF ThreadsTypeOK, JoinedHasEnded
<1> QED
  BY <1>1, <1>2, <1>3, <1>4, <1>5, Zenon

\* There is no thread, and the constructor frees the arguments.
LEMMA CreateThreadFailsInv ==
  ASSUME SystemThreadAssumption, ThreadsInv, CreateThreadFails
  PROVE  ThreadsInv'
<1> USE DEF CreateThreadFails, kernel, ThreadsInv, SystemThreadAssumption
<1>0. new.id \in Ids /\ body[new.id] = "none" /\ new.thread = NoThread
  BY Zenon DEF NewOK
<1>1. ThreadsTypeOK'
  BY <1>0, Zenon DEF ThreadsTypeOK, NoNew
<1>2. NewOK'
  BY Zenon DEF NewOK
<1>3. ArgsOK'
  BY <1>0, ZenonT(60) DEF ThreadsTypeOK, ArgsOK
<1>4. RefsExact'
  <2>1. new'.thread = new.thread
    BY <1>0, NoNewFields, Zenon
  <2>2. \A i \in Ids : Handle(i)' = Handle(i) /\ Own(i)' = Own(i)
    BY Zenon DEF Handle, Own, ThreadRuns
  <2> QED
    BY <2>1, <2>2, RefsKept, Zenon
<1>5. JoinedHasEnded'
  BY <1>0, Zenon DEF ThreadsTypeOK, JoinedHasEnded
<1> QED
  BY <1>1, <1>2, <1>3, <1>4, <1>5, Zenon


\* The creator's pointer to the thread object is a reference, or null.
LEMMA ObtainInv ==
  ASSUME SystemThreadAssumption, ThreadsInv, Obtain \/ ObtainFails
  PROVE  ThreadsInv'
<1> USE DEF Obtain, ObtainFails, AddRef, kernel, ThreadsInv, SystemThreadAssumption
<1>0. new.id \in Ids /\ body[new.id] # "none" /\ new.thread = NoThread /\ new'.id = new.id
  BY Zenon DEF NewOK, ThreadsTypeOK
<1>1. ThreadsTypeOK'
  BY <1>0 DEF ThreadsTypeOK
<1>2. NewOK'
  BY <1>0, Zenon DEF ThreadsTypeOK, NewOK
<1>3. ArgsOK'
  BY <1>0, Zenon DEF ThreadsTypeOK, ArgsOK
<1>4. RefsExact'
  <2>1. \A i \in Ids : Handle(i)' = Handle(i) /\ Own(i)' = Own(i)
    BY <1>0, Zenon DEF Handle, Own, ThreadRuns
  <2>2. CASE ObtainFails
    BY <2>1, <2>2, RefsKept, Zenon
  <2>3. CASE Obtain
    <3>1. ASSUME NEW i \in Ids
          PROVE  refs'[i] = Count(m_thread', i) + Is(new'.thread, i) + Handle(i)' + Own(i)'
      <4>1. refs[i] = Count(m_thread, i) + Is(new.thread, i) + Handle(i) + Own(i)
        BY RefsForm, Zenon
      <4>2. Is(new.thread, i) = 0 /\ new'.thread = new.id
        BY <1>0, <2>3, Zenon DEF Is, ThreadsTypeOK
      <4>3. refs'[i] = refs[i] + Is(new.id, i)
        BY <1>0, <2>3 DEF Is, ThreadsTypeOK
      <4>4. Is(new.id, i) \in Nat /\ UNCHANGED m_thread
        BY <2>3, IsType, Zenon
      <4> QED
        BY <2>1, <4>1, <4>2, <4>3, <4>4, Numbers
    <3> QED
      BY <3>1, RefsFormNext, Zenon
  <2> QED
    BY <2>2, <2>3, Zenon
<1>5. JoinedHasEnded'
  BY Zenon DEF ThreadsTypeOK, JoinedHasEnded
<1> QED
  BY <1>1, <1>2, <1>3, <1>4, <1>5, Zenon

\* The creator's handle is closed.
LEMMA CloseHandleInv ==
  ASSUME SystemThreadAssumption, ThreadsInv, CloseHandle
  PROVE  ThreadsInv'
<1> USE DEF CloseHandle, AddRef, ThreadsInv, SystemThreadAssumption
<1>0. new.id \in Ids /\ body[new.id] # "none"
  BY Zenon DEF NewOK
<1>1. ThreadsTypeOK'
  BY <1>0 DEF ThreadsTypeOK
<1>2. NewOK'
  BY <1>0, Zenon DEF ThreadsTypeOK, NewOK
<1>3. ArgsOK'
  BY <1>0, Zenon DEF ThreadsTypeOK, ArgsOK
<1>4. RefsExact'
  <2>1. ASSUME NEW i \in Ids
        PROVE  refs'[i] = Count(m_thread', i) + Is(new'.thread, i) + Handle(i)' + Own(i)'
    <3>1. refs[i] = Count(m_thread, i) + Is(new.thread, i) + Handle(i) + Own(i)
      BY RefsForm, Zenon
    <3>2. Handle(i) = Is(new.id, i) /\ Handle(i)' = 0 /\ Own(i)' = Own(i)
      BY Zenon DEF Handle, Is, Own, ThreadRuns
    <3>3. refs'[i] = refs[i] - Is(new.id, i)
      BY <1>0 DEF Is, ThreadsTypeOK
    <3> QED
      BY <3>1, <3>2, <3>3, Numbers
  <2> QED
    BY <2>1, RefsFormNext, ZenonT(60)
<1>5. JoinedHasEnded'
  BY Zenon DEF ThreadsTypeOK, JoinedHasEnded
<1> QED
  BY <1>1, <1>2, <1>3, <1>4, <1>5, Zenon

\* The object takes over the creator's reference; the arguments stay with the
\* thread.
LEMMA ReleaseArgsInv ==
  ASSUME SystemThreadAssumption, ThreadsInv, ReleaseArgs
  PROVE  ThreadsInv'
<1> USE DEF ReleaseArgs, kernel, ThreadsInv, SystemThreadAssumption
<1>0. /\ new.id \in Ids /\ new.obj \in ThreadObjects /\ new.thread \in Ids \union {NoThread}
      /\ m_thread[new.obj] = NoThread
  BY Zenon DEF NewOK, ThreadsTypeOK
<1>1. ThreadsTypeOK'
  BY <1>0, Zenon DEF ThreadsTypeOK, NoNew
<1>2. NewOK'
  BY Zenon DEF NewOK
<1>3. ArgsOK'
  BY <1>0, Zenon DEF ThreadsTypeOK, ArgsOK
<1>4. RefsExact'
  <2>1. ASSUME NEW i \in Ids
        PROVE  refs'[i] = Count(m_thread', i) + Is(new'.thread, i) + Handle(i)' + Own(i)'
    <3>1. refs[i] = Count(m_thread, i) + Is(new.thread, i) + Handle(i) + Own(i)
      BY RefsForm, Zenon
    <3>2. Handle(i) = 0 /\ Handle(i)' = 0 /\ Own(i)' = Own(i)
      BY Zenon DEF Handle, Own, ThreadRuns
    <3>3. PICK o \in ThreadObjects : o = new.obj
      BY <1>0, Zenon
    <3>4. OnlyAt(o, m_thread, m_thread') /\ m_thread'[o] = new.thread /\ m_thread[o] = NoThread
      BY <1>0, <3>3, Zenon DEF OnlyAt, ThreadsTypeOK
    <3>5. Count(m_thread', i) = Count(m_thread, i) + (Is(m_thread'[o], i) - Is(m_thread[o], i))
      <4> HIDE DEF ReleaseArgs, ThreadsInv, SystemThreadAssumption
      <4> QED BY <3>4, CountSet
    <3>6. Is(m_thread[o], i) = 0 /\ Is(new'.thread, i) = 0
      BY <3>4, NoNewFields, Zenon DEF Is
    <3>7. Count(m_thread, i) \in Nat /\ Is(new.thread, i) \in Nat /\ Own(i) \in Nat
      BY Numbers, Zenon
    <3>8. UNCHANGED refs /\ Count(m_thread', i) = Count(m_thread, i) + Is(new.thread, i)
      BY <3>4, <3>5, <3>6, <3>7
    <3> QED
      BY <3>1, <3>2, <3>6, <3>7, <3>8
  <2> QED
    BY <2>1, RefsFormNext, ZenonT(60)
<1>5. JoinedHasEnded'
  BY Zenon DEF ThreadsTypeOK, JoinedHasEnded
<1> QED
  BY <1>1, <1>2, <1>3, <1>4, <1>5, Zenon

-----------------------------------------------------------------------------
(***************************************************************************)
(* The thread                                                              *)
(***************************************************************************)

\* The thread calls its function, or the function throws.
LEMMA CallInv ==
  ASSUME SystemThreadAssumption, ThreadsInv, NEW id \in Ids, CallFunction(id) \/ FunctionThrows(id)
  PROVE  ThreadsInv'
<1> USE DEF CallFunction, FunctionThrows, client, kernel, ThreadsInv
<1>1. ThreadsTypeOK'
  BY Zenon DEF ThreadsTypeOK, Bodies
<1>2. NewOK'
  BY Zenon DEF ThreadsTypeOK, NewOK
<1>3. ArgsOK'
  BY ZenonT(30) DEF ThreadsTypeOK, ArgsOK
<1>4. RefsExact'
  <2>1. \A i \in Ids : Handle(i)' = Handle(i) /\ Own(i)' = Own(i)
    BY ZenonT(60) DEF Handle, Own, ThreadRuns, ThreadsTypeOK
  <2> QED
    BY <2>1, RefsKept, Zenon
<1>5. JoinedHasEnded'
  BY Zenon DEF ThreadsTypeOK, JoinedHasEnded
<1> QED
  BY <1>1, <1>2, <1>3, <1>4, <1>5, Zenon

\* The function has returned, and the thread frees the arguments it still has.
LEMMA FunctionReturnsInv ==
  ASSUME SystemThreadAssumption, ThreadsInv, NEW id \in Ids, FunctionReturns(id)
  PROVE  ThreadsInv'
<1> USE DEF FunctionReturns, client, ThreadsInv
<1>0. args[id] = "packed" /\ ~(clientPc = "create" /\ new.id = id)
  BY Zenon DEF ArgsOK, NewOK
<1>1. ThreadsTypeOK'
  BY <1>0, Zenon DEF ThreadsTypeOK, Bodies
<1>2. NewOK'
  BY Zenon DEF ThreadsTypeOK, NewOK
<1>3. ArgsOK'
  BY <1>0, Zenon DEF ThreadsTypeOK, ArgsOK
<1>4. RefsExact'
  <2>1. \A i \in Ids : Handle(i)' = Handle(i) /\ Own(i)' = Own(i)
    BY Zenon DEF Handle, Own, ThreadRuns, ThreadsTypeOK
  <2> QED
    BY <2>1, RefsKept, Zenon
<1>5. JoinedHasEnded'
  BY Zenon DEF ThreadsTypeOK, JoinedHasEnded
<1> QED
  BY <1>1, <1>2, <1>3, <1>4, <1>5, Zenon

\* The thread ends and gives up its own reference.
LEMMA BeforeExitInv ==
  ASSUME SystemThreadAssumption, ThreadsInv, NEW id \in Ids, BeforeExit(id)
  PROVE  ThreadsInv'
<1> USE DEF BeforeExit, AddRef, client, ThreadsInv
<1>1. ThreadsTypeOK'
  BY DEF ThreadsTypeOK, Bodies
<1>2. NewOK'
  BY Zenon DEF ThreadsTypeOK, NewOK
<1>3. ArgsOK'
  BY Zenon DEF ThreadsTypeOK, ArgsOK
<1>4. RefsExact'
  <2>1. ASSUME NEW i \in Ids
        PROVE  refs'[i] = Count(m_thread', i) + Is(new'.thread, i) + Handle(i)' + Own(i)'
    <3>1. refs[i] = Count(m_thread, i) + Is(new.thread, i) + Handle(i) + Own(i)
      BY RefsForm, Zenon
    <3>2. Handle(i)' = Handle(i) /\ Own(i)' = Own(i) - Is(id, i)
      BY DEF Handle, Own, ThreadRuns, Is, ThreadsTypeOK
    <3>3. refs'[i] = refs[i] - Is(id, i)
      BY DEF Is, ThreadsTypeOK
    <3>4. Is(id, i) \in Nat
      BY IsType, Zenon
    <3> QED
      BY <3>1, <3>2, <3>3, <3>4, Numbers
  <2> QED
    BY <2>1, RefsFormNext, ZenonT(60)
<1>5. JoinedHasEnded'
  BY Zenon DEF ThreadsTypeOK, JoinedHasEnded
<1> QED
  BY <1>1, <1>2, <1>3, <1>4, <1>5, Zenon

-----------------------------------------------------------------------------
(***************************************************************************)
(* The objects                                                             *)
(***************************************************************************)

\* Whatever an idle client does with its objects, the threads' references add
\* up if each object that comes to refer to another thread pays for it.
LEMMA ObjectStep ==
  ASSUME SystemThreadAssumption, ThreadsInv, clientPc = "idle",
         UNCHANGED <<clientPc, new, body, args>>,
         m_thread' \in [ThreadObjects -> Ids \union {NoThread}], refs' \in [Ids -> Int],
         \A i \in Ids : refs'[i] - refs[i] = Count(m_thread', i) - Count(m_thread, i),
         \A i \in joined' : i \in Ids /\ (i \in joined \/ body[i] = "ended")
  PROVE  ThreadsInv'
<1> USE DEF ThreadsInv
<1>1. ThreadsTypeOK'
  BY Zenon DEF ThreadsTypeOK
<1>2. NewOK'
  BY Zenon DEF NewOK
<1>3. ArgsOK'
  BY Zenon DEF ArgsOK
<1>4. RefsExact'
  <2>1. ASSUME NEW i \in Ids
        PROVE  refs'[i] = Count(m_thread', i) + Is(new'.thread, i) + Handle(i)' + Own(i)'
    <3>1. refs[i] = Count(m_thread, i) + Is(new.thread, i) + Handle(i) + Own(i)
      BY RefsForm, Zenon
    <3>2. Handle(i)' = Handle(i) /\ Own(i)' = Own(i)
      BY Zenon DEF Handle, Own, ThreadRuns
    <3>3. refs'[i] \in Int /\ refs[i] \in Int
      BY Zenon DEF ThreadsTypeOK
    <3>4. Count(m_thread', i) \in Nat
      <4>1. IsFiniteSet({o \in ThreadObjects : m_thread'[o] = i})
        BY FS_Subset, Zenon DEF SystemThreadAssumption
      <4> QED
        BY <4>1, FS_CardinalityType, Zenon DEF Count
    <3> QED
      BY <3>1, <3>2, <3>3, <3>4, Numbers
  <2> QED
    BY <2>1, RefsFormNext, ZenonT(60)
<1>5. JoinedHasEnded'
  <2>1. \A i \in Ids : body[i] = "ended" => args[i] = "none"
    BY Zenon DEF ArgsOK, ThreadsTypeOK
  <2> QED
    BY <2>1, Zenon DEF ThreadsTypeOK, JoinedHasEnded
<1> QED
  BY <1>1, <1>2, <1>3, <1>4, <1>5, Zenon

\* destroy() of an object, if it refers to a thread.
LEMMA DestroyRefs ==
  ASSUME SystemThreadAssumption, ThreadsTypeOK, NEW o \in ThreadObjects, Destroy(o)
  PROVE  /\ refs' \in [Ids -> Int]
         /\ \A i \in Ids : refs'[i] - refs[i] = 0 - Is(m_thread[o], i)
<1>1. CASE m_thread[o] = NoThread
  <2>1. refs' = refs /\ \A i \in Ids : Is(m_thread[o], i) = 0
    BY <1>1, Zenon DEF Destroy, Is, SystemThreadAssumption
  <2> QED
    BY <2>1 DEF ThreadsTypeOK
<1>2. CASE m_thread[o] # NoThread
  <2>1. PICK id \in Ids : id = m_thread[o]
    BY <1>2, Zenon DEF ThreadsTypeOK
  <2>2. refs' = [refs EXCEPT ![id] = @ - 1]
    BY <1>2, <2>1, Zenon DEF Destroy, AddRef, ThreadsTypeOK
  <2> QED
    BY <2>1, <2>2 DEF Is, ThreadsTypeOK
<1> QED
  BY <1>1, <1>2, Zenon

\* join() and detach() give the object's reference back.
LEMMA DropInv ==
  ASSUME SystemThreadAssumption, ThreadsInv, NEW o \in ThreadObjects, Join(o) \/ Detach(o)
  PROVE  ThreadsInv'
<1>1. Drop(o) /\ clientPc = "idle" /\ UNCHANGED <<clientPc, new, body, args>>
  BY Zenon DEF Join, Detach
<1>2. \A i \in joined' : i \in Ids /\ (i \in joined \/ body[i] = "ended")
  BY Zenon DEF Join, Detach, ThreadsInv, ThreadsTypeOK
<1>3. OnlyAt(o, m_thread, m_thread') /\ m_thread'[o] = NoThread
  BY <1>1, Zenon DEF Drop, OnlyAt, ThreadsInv, ThreadsTypeOK
<1>4. m_thread' \in [ThreadObjects -> Ids \union {NoThread}]
  BY <1>1, Zenon DEF Drop, ThreadsInv, ThreadsTypeOK
<1>5. refs' \in [Ids -> Int] /\ \A i \in Ids : refs'[i] - refs[i] = 0 - Is(m_thread[o], i)
  BY <1>1, DestroyRefs, Zenon DEF Drop, ThreadsInv
<1>6. ASSUME NEW i \in Ids
      PROVE  refs'[i] - refs[i] = Count(m_thread', i) - Count(m_thread, i)
  <2>1. /\ Count(m_thread', i) = Count(m_thread, i) + (Is(m_thread'[o], i) - Is(m_thread[o], i))
        /\ Count(m_thread, i) \in Nat
    BY <1>3, CountSet, Zenon
  <2>2. Is(m_thread'[o], i) = 0 /\ Is(m_thread[o], i) \in Nat
    BY <1>3, IsType, Zenon DEF Is, SystemThreadAssumption
  <2> QED
    BY <1>5, <2>1, <2>2
<1> QED
  BY <1>1, <1>2, <1>4, <1>5, <1>6, ObjectStep, Zenon

\* The target of a move gives its reference back and takes the source's.
LEMMA MoveInv ==
  ASSUME SystemThreadAssumption, ThreadsInv, NEW o \in ThreadObjects, NEW p \in ThreadObjects, Move(o, p)
  PROVE  ThreadsInv'
<1>1. /\ o # p /\ Destroy(o) /\ clientPc = "idle" /\ UNCHANGED <<clientPc, new, joined, body, args>>
      /\ m_thread' = [m_thread EXCEPT ![o] = m_thread[p], ![p] = NoThread]
  BY Zenon DEF Move
<1>2. PICK g : g = [m_thread EXCEPT ![o] = m_thread[p]]
  BY Zenon
<1>3. /\ OnlyAt(o, m_thread, g) /\ OnlyAt(p, g, m_thread')
      /\ g[o] = m_thread[p] /\ g[p] = m_thread[p] /\ m_thread'[p] = NoThread
      /\ m_thread' \in [ThreadObjects -> Ids \union {NoThread}]
  BY <1>1, <1>2, Zenon DEF OnlyAt, ThreadsInv, ThreadsTypeOK
<1>4. refs' \in [Ids -> Int] /\ \A i \in Ids : refs'[i] - refs[i] = 0 - Is(m_thread[o], i)
  BY <1>1, DestroyRefs, ZenonT(60) DEF ThreadsInv
<1>5. ASSUME NEW i \in Ids
      PROVE  refs'[i] - refs[i] = Count(m_thread', i) - Count(m_thread, i)
  <2>1. Count(m_thread', i) = Count(m_thread, i) + (Is(g[o], i) - Is(m_thread[o], i))
                                                 + (Is(m_thread'[p], i) - Is(g[p], i))
    BY <1>3, CountSetTwo
  <2>2. /\ Is(m_thread'[p], i) = 0 /\ Is(m_thread[p], i) \in Nat /\ Is(m_thread[o], i) \in Nat
        /\ Is(g[o], i) = Is(m_thread[p], i) /\ Is(g[p], i) = Is(m_thread[p], i)
    BY <1>3, IsType, Zenon DEF Is, SystemThreadAssumption
  <2>3. Count(m_thread, i) \in Nat
    BY Numbers, Zenon
  <2> QED
    BY <1>4, <2>1, <2>2, <2>3
<1>6. \A i \in joined' : i \in Ids /\ (i \in joined \/ body[i] = "ended")
  BY <1>1, Zenon DEF ThreadsInv, ThreadsTypeOK
<1> QED
  BY <1>1, <1>3, <1>4, <1>5, <1>6, ObjectStep, Zenon


\* swap() exchanges two references, also those of one object with itself.
LEMMA SwapInv ==
  ASSUME SystemThreadAssumption, ThreadsInv, NEW o \in ThreadObjects, NEW p \in ThreadObjects, Swap(o, p)
  PROVE  ThreadsInv'
<1>1. /\ clientPc = "idle" /\ UNCHANGED <<clientPc, new, joined, refs, body, args>>
      /\ m_thread' = [m_thread EXCEPT ![o] = m_thread[p], ![p] = m_thread[o]]
  BY Zenon DEF Swap, kernel
<1>2. PICK g : g = [m_thread EXCEPT ![o] = m_thread[p]]
  BY Zenon
<1>3. /\ OnlyAt(o, m_thread, g) /\ OnlyAt(p, g, m_thread')
      /\ g[o] = m_thread[p] /\ g[p] = m_thread[p] /\ m_thread'[p] = m_thread[o]
      /\ m_thread' \in [ThreadObjects -> Ids \union {NoThread}]
  BY <1>1, <1>2, Zenon DEF OnlyAt, ThreadsInv, ThreadsTypeOK
<1>4. refs' \in [Ids -> Int]
  BY <1>1, ZenonT(60) DEF ThreadsInv, ThreadsTypeOK
<1>5. ASSUME NEW i \in Ids
      PROVE  refs'[i] - refs[i] = Count(m_thread', i) - Count(m_thread, i)
  <2>1. Count(m_thread', i) = Count(m_thread, i) + (Is(g[o], i) - Is(m_thread[o], i))
                                                 + (Is(m_thread'[p], i) - Is(g[p], i))
    BY <1>3, CountSetTwo
  <2>2. /\ Is(m_thread[p], i) \in Nat /\ Is(m_thread[o], i) \in Nat
        /\ Is(m_thread'[p], i) = Is(m_thread[o], i)
        /\ Is(g[o], i) = Is(m_thread[p], i) /\ Is(g[p], i) = Is(m_thread[p], i)
    BY <1>3, IsType, Zenon
  <2>3. Count(m_thread, i) \in Nat
    BY Numbers, Zenon
  <2>4. refs'[i] = refs[i] /\ refs[i] \in Int
    BY <1>1, Zenon DEF ThreadsInv, ThreadsTypeOK
  <2> QED
    BY <2>1, <2>2, <2>3, <2>4
<1>6. \A i \in joined' : i \in Ids /\ (i \in joined \/ body[i] = "ended")
  BY <1>1, Zenon DEF ThreadsInv, ThreadsTypeOK
<1> QED
  BY <1>1, <1>3, <1>4, <1>5, <1>6, ObjectStep, Zenon
-----------------------------------------------------------------------------
\* No thread exists at first, and no object refers to one.
LEMMA ThreadsInitInv ==
  ASSUME SystemThreadAssumption, ThreadInit
  PROVE  ThreadsInv
<1> USE DEF ThreadInit, SystemThreadAssumption
<1>1. ThreadsTypeOK
  BY DEF ThreadsTypeOK, Bodies, NoNew
<1>2. NewOK /\ ArgsOK /\ JoinedHasEnded
  BY Zenon DEF NewOK, ArgsOK, JoinedHasEnded
<1>3. ASSUME NEW id \in Ids
      PROVE  refs[id] = Count(m_thread, id) + Is(new.thread, id) + Handle(id) + Own(id)
  <2>1. {o \in ThreadObjects : m_thread[o] = id} = {}
    BY Zenon
  <2>2. Cardinality({}) = 0
    BY FS_EmptySet, Zenon
  <2>3. Count(m_thread, id) = 0
    BY <2>1, <2>2, Zenon DEF Count
  <2>4. Is(new.thread, id) = 0 /\ Handle(id) = 0 /\ Own(id) = 0
    BY NoNewFields, Zenon DEF Is, Handle, Own, ThreadRuns
  <2> QED
    BY <2>3, <2>4
<1> QED
  BY <1>1, <1>2, <1>3, RefsForm, Zenon DEF ThreadsInv

\* Every step of the client and of the threads keeps the invariant.
LEMMA ThreadsNextInv ==
  ASSUME SystemThreadAssumption, ThreadsInv, [ThreadNext]_threadVars
  PROVE  ThreadsInv'
<1>1. CASE UNCHANGED threadVars
  <2> USE <1>1 DEF threadVars, client, kernel, ThreadsInv
  <2>1. ThreadsTypeOK' /\ NewOK' /\ ArgsOK' /\ JoinedHasEnded'
    BY Zenon DEF ThreadsTypeOK, NewOK, ArgsOK, JoinedHasEnded
  <2>2. RefsExact'
    BY Zenon DEF RefsExact, ThreadRuns
  <2> QED
    BY <2>1, <2>2, Zenon
<1>2. CASE Create
  BY <1>2, PackArgsInv, CreateThreadInv, CreateThreadFailsInv, ObtainInv, CloseHandleInv,
     ReleaseArgsInv, Zenon DEF Create
<1>3. ASSUME NEW id \in Ids, Thread(id)
      PROVE  ThreadsInv'
  BY <1>3, CallInv, FunctionReturnsInv, BeforeExitInv, Zenon DEF Thread
<1>4. ASSUME NEW o \in ThreadObjects, Join(o) \/ Detach(o) \/ DestroyJoinable(o)
      PROVE  ThreadsInv'
  <2>1. CASE DestroyJoinable(o)
    <3> USE <2>1 DEF DestroyJoinable, client, kernel, ThreadsInv
    <3>1. ThreadsTypeOK' /\ NewOK' /\ ArgsOK' /\ JoinedHasEnded'
      BY Zenon DEF ThreadsTypeOK, NewOK, ArgsOK, JoinedHasEnded
    <3>2. RefsExact'
      BY Zenon DEF RefsExact, ThreadRuns
    <3> QED
      BY <3>1, <3>2, Zenon
  <2> QED
    BY <1>4, <2>1, DropInv, Zenon
<1>5. ASSUME NEW o \in ThreadObjects, NEW p \in ThreadObjects, Move(o, p) \/ Swap(o, p)
      PROVE  ThreadsInv'
  BY <1>5, MoveInv, SwapInv, Zenon
<1> QED
  BY <1>1, <1>2, <1>3, <1>4, <1>5, Zenon DEF ThreadNext, Use

\* Whatever the client does with its thread objects while the threads run: the
\* packed arguments of a thread are freed exactly once and not while its
\* function uses them, every kernel thread object has exactly the references
\* that are in use, and a thread that was joined has ended.
THEOREM ThreadsAlwaysExact ==
  ASSUME SystemThreadAssumption
  PROVE  ThreadSpec => []ThreadsExact
<1>1. ThreadInit => ThreadsInv
  BY ThreadsInitInv, Zenon
<1>2. ThreadsInv /\ [ThreadNext]_threadVars => ThreadsInv'
  BY ThreadsNextInv, Zenon
<1>3. ThreadsInv => ThreadsExact
  <2> SUFFICES ASSUME ThreadsInv PROVE ArgsFreedOnce
    BY Zenon DEF ThreadsInv, ThreadsExact
  <2> QED
    BY Zenon DEF ThreadsInv, ThreadsTypeOK, ArgsOK, ArgsFreedOnce
<1> QED
  BY <1>1, <1>2, <1>3, PTL DEF ThreadSpec

-----------------------------------------------------------------------------
(***************************************************************************)
(* condition_variable, for any number of waiters and notifiers.            *)
(*                                                                         *)
(* The inequality of SignalsCovered is inductive with the fact that a      *)
(* notifier in front of the compare-exchange or of set() has a count of at *)
(* least one: a notification moves a waiter from the counter to the calls  *)
(* of set() that are owed, set() moves one of those to the event or to a   *)
(* blocked thread, and wait() on the event takes it from there.            *)
(***************************************************************************)

WaiterLabels == {"out", "test", "count", "event", "blocked", "relock", "returned", "done"}
NotifierLabels == {"out", "put", "notify", "notify_one", "cas", "set"}

ConditionTypeOK ==
  /\ crew \subseteq Waiters
  /\ mutexOwner \in Threads \union {NoOwner}
  /\ count \in Nat /\ signaled \in BOOLEAN
  /\ userPc \in [Threads -> WaiterLabels \union NotifierLabels]
  /\ \A w \in Waiters : userPc[w] \in WaiterLabels
  /\ \A n \in Notifiers : userPc[n] \in NotifierLabels
  /\ left \in [Notifiers -> Nat]
  /\ \A n \in Notifiers : userPc[n] \in {"cas", "set"} => left[n] >= 1

ConditionInv == ConditionTypeOK /\ MutexOnReturn /\ IsFiniteSet(Owed) /\ SignalsCovered

Signal == IF signaled THEN 1 ELSE 0
-----------------------------------------------------------------------------
(***************************************************************************)
(* The counted sets                                                        *)
(***************************************************************************)

\* As many threads wait as can be counted.
LEMMA WaitingFinite ==
  ASSUME ConditionVariableAssumption
  PROVE  IsFiniteSet(Waiting) /\ Cardinality(Waiting) \in Nat
<1>1. IsFiniteSet(Waiting)
  BY FS_Subset, Zenon DEF Waiting, ConditionVariableAssumption
<1> QED
  BY <1>1, FS_CardinalityType, Zenon

\* What the inequality says, with Signal for the event.
LEMMA Covered ==
  SignalsCovered <=> count + Cardinality(Owed) + Signal <= Cardinality(Waiting)
BY Zenon DEF SignalsCovered, Signal

\* What notifier n owes, and what the others owe.
OwedBy(n) == IF userPc[n] = "set" THEN {n} \X (1..left[n]) ELSE {}
OwedByOthers(n) == UNION {{m} \X (1..left[m]) : m \in {q \in Notifiers \ {n} : userPc[q] = "set"}}

\* A step of one notifier changes only what that notifier owes.
LEMMA OwedStep ==
  ASSUME NEW n \in Notifiers,
         \A m \in Notifiers : m # n => userPc'[m] = userPc[m] /\ left'[m] = left[m]
  PROVE  /\ Owed = OwedByOthers(n) \union OwedBy(n)
         /\ Owed' = OwedByOthers(n) \union OwedBy(n)'
         /\ \A j : <<n, j>> \notin OwedByOthers(n)
<1>1. Owed = OwedByOthers(n) \union OwedBy(n)
  BY DEF Owed, OwedBy, OwedByOthers
<1>2. Owed' = OwedByOthers(n)' \union OwedBy(n)'
  BY DEF Owed, OwedBy, OwedByOthers
<1>3. OwedByOthers(n)' = OwedByOthers(n)
  BY Zenon DEF OwedByOthers
<1>4. \A j : <<n, j>> \notin OwedByOthers(n)
  BY DEF OwedByOthers
<1> QED
  BY <1>1, <1>2, <1>3, <1>4, ZenonT(60)

\* The event holds one signal or none.
LEMMA SignalType ==
  Signal \in {0, 1} /\ Signal' \in {0, 1} /\ (signaled' = signaled => Signal' = Signal)
BY DEF Signal

\* The sets stay as they are, for every step that moves no waiter between
\* being counted, waiting and woken, and no notifier to or from set().
LEMMA SetsKept ==
  ASSUME \A w \in Waiters : userPc'[w] \in {"event", "blocked"} <=> userPc[w] \in {"event", "blocked"},
         \A n \in Notifiers : (userPc'[n] = "set" <=> userPc[n] = "set") /\ (userPc[n] = "set" => left'[n] = left[n])
  PROVE  Waiting' = Waiting /\ Owed' = Owed
<1>1. Waiting' = Waiting
  BY Zenon DEF Waiting
<1>2. Owed' = Owed
  BY Zenon DEF Owed
<1> QED
  BY <1>1, <1>2, Zenon

\* A step that leaves the counter, the event and the two sets alone.
LEMMA QuietStep ==
  ASSUME ConditionInv, ConditionTypeOK', MutexOnReturn', UNCHANGED <<count, signaled>>,
         \A w \in Waiters : userPc'[w] \in {"event", "blocked"} <=> userPc[w] \in {"event", "blocked"},
         \A n \in Notifiers : (userPc'[n] = "set" <=> userPc[n] = "set") /\ (userPc[n] = "set" => left'[n] = left[n])
  PROVE  ConditionInv'
<1>1. Waiting' = Waiting /\ Owed' = Owed
  BY SetsKept, Zenon
<1>2. Signal' = Signal
  BY Zenon DEF Signal
<1> QED
  BY <1>1, <1>2, Zenon DEF ConditionInv, SignalsCovered

-----------------------------------------------------------------------------
(***************************************************************************)
(* Steps that move no signal                                               *)
(***************************************************************************)

\* A waiter or a notifier takes the mutex.
LEMMA LockInv ==
  ASSUME ConditionVariableAssumption, ConditionInv, NEW t \in Threads, NEW from, NEW to,
         Lock(t, from, to), UNCHANGED crew,
         \/ t \in Waiters /\ from \in {"out", "relock"} /\ to = "test"
         \/ t \in Notifiers /\ from = "out" /\ to = "put"
  PROVE  ConditionInv'
<1> USE DEF ConditionInv, Lock, GoTo, Threads, ConditionVariableAssumption
<1>1. ConditionTypeOK'
  BY DEF ConditionTypeOK, WaiterLabels, NotifierLabels
<1>2. MutexOnReturn'
  BY Zenon DEF ConditionTypeOK, MutexOnReturn
<1>3. \A w \in Waiters : userPc'[w] \in {"event", "blocked"} <=> userPc[w] \in {"event", "blocked"}
  BY Zenon DEF ConditionTypeOK
<1>4. \A n \in Notifiers : (userPc'[n] = "set" <=> userPc[n] = "set") /\ (userPc[n] = "set" => left'[n] = left[n])
  BY Zenon DEF ConditionTypeOK
<1> QED
  <2> HIDE DEF ConditionInv
  <2> QED BY <1>1, <1>2, <1>3, <1>4, QuietStep, ZenonT(60)

\* wait() gives up the mutex, or the client leaves with its item.
LEMMA QuietWaitInv ==
  ASSUME ConditionVariableAssumption, ConditionInv, NEW w \in Waiters, UNCHANGED crew,
         Take(w) \/ WaitUnlock(w) \/ WaitPredicate(w) \/ TakeUnchecked(w)
  PROVE  ConditionInv'
<1> USE DEF ConditionInv, Take, WaitUnlock, WaitPredicate, TakeUnchecked, GoTo, Threads,
            ConditionVariableAssumption
<1>1. ConditionTypeOK'
  BY ZenonT(30) DEF ConditionTypeOK, WaiterLabels, NotifierLabels
<1>2. MutexOnReturn'
  BY ZenonT(30) DEF ConditionTypeOK, MutexOnReturn
<1>3. \A v \in Waiters : userPc'[v] \in {"event", "blocked"} <=> userPc[v] \in {"event", "blocked"}
  BY ZenonT(30) DEF ConditionTypeOK
<1>4. \A n \in Notifiers : (userPc'[n] = "set" <=> userPc[n] = "set") /\ (userPc[n] = "set" => left'[n] = left[n])
  BY ZenonT(60) DEF ConditionTypeOK
<1>5. UNCHANGED <<count, signaled>>
  BY Zenon
<1> QED
  <2> HIDE DEF ConditionInv
  <2> QED BY <1>1, <1>2, <1>3, <1>4, <1>5, QuietStep, Zenon

\* A notifier adds its item, starts to notify, or loads the counter.
LEMMA QuietNotifyInv ==
  ASSUME ConditionVariableAssumption, ConditionInv, NEW n \in Notifiers, UNCHANGED crew,
         \/ Put(n) \/ Poll(n) \/ NotifyOneLoad(n)
         \/ NotifyOneCas(n) /\ count # left[n]
  PROVE  ConditionInv'
<1> USE DEF ConditionInv, Put, Poll, NotifyOneLoad, NotifyOneCas, GoTo, Threads,
            ConditionVariableAssumption
<1>1. ConditionTypeOK'
  BY DEF ConditionTypeOK, WaiterLabels, NotifierLabels
<1>2. MutexOnReturn'
  BY ZenonT(60) DEF ConditionTypeOK, MutexOnReturn
<1>3. \A w \in Waiters : userPc'[w] \in {"event", "blocked"} <=> userPc[w] \in {"event", "blocked"}
  BY ZenonT(60) DEF ConditionTypeOK
<1>4. \A m \in Notifiers : (userPc'[m] = "set" <=> userPc[m] = "set") /\ (userPc[m] = "set" => left'[m] = left[m])
  BY DEF ConditionTypeOK
<1>5. UNCHANGED <<count, signaled>>
  BY Zenon
<1> QED
  <2> HIDE DEF ConditionInv
  <2> QED BY <1>1, <1>2, <1>3, <1>4, <1>5, QuietStep, ZenonT(60)

-----------------------------------------------------------------------------
(***************************************************************************)
(* Steps that move a signal                                                *)
(***************************************************************************)

\* The inequality, from what a step does to its four numbers.
LEMMA CoveredStep ==
  ASSUME ConditionVariableAssumption, ConditionInv, ConditionTypeOK', MutexOnReturn', IsFiniteSet(Owed'),
         count' + Cardinality(Owed') + Signal' - Cardinality(Waiting')
           <= count + Cardinality(Owed) + Signal - Cardinality(Waiting)
  PROVE  ConditionInv'
<1>1. /\ Cardinality(Waiting) \in Nat /\ Cardinality(Waiting') \in Nat
      /\ Cardinality(Owed) \in Nat /\ Cardinality(Owed') \in Nat
      /\ count \in Nat /\ count' \in Nat
  <2>1. IsFiniteSet(Waiting')
    BY FS_Subset, Zenon DEF Waiting, ConditionVariableAssumption
  <2> QED
    BY <2>1, WaitingFinite, FS_CardinalityType, Zenon DEF ConditionInv, ConditionTypeOK
<1>2. Signal \in Int /\ Signal' \in Int
  BY SignalType
<1>3. count + Cardinality(Owed) + Signal <= Cardinality(Waiting)
  BY Covered, Zenon DEF ConditionInv
<1>4. count' + Cardinality(Owed') + Signal' <= Cardinality(Waiting')
  BY <1>1, <1>2, <1>3
<1>5. SignalsCovered'
  BY <1>4, Zenon DEF SignalsCovered, Signal
<1> QED
  BY <1>5, Zenon DEF ConditionInv

\* ++m_wait_count: the counter grows with the threads that wait.
LEMMA WaitCountInv ==
  ASSUME ConditionVariableAssumption, ConditionInv, NEW w \in Waiters, UNCHANGED crew, WaitCount(w)
  PROVE  ConditionInv'
<1> USE DEF WaitCount, GoTo, Threads, ConditionVariableAssumption
<1>1. ConditionTypeOK'
  BY DEF ConditionInv, ConditionTypeOK, WaiterLabels, NotifierLabels
<1>2. MutexOnReturn'
  BY Zenon DEF ConditionInv, ConditionTypeOK, MutexOnReturn
<1>3. Waiting' = Waiting \union {w} /\ w \notin Waiting
  BY DEF ConditionInv, ConditionTypeOK, Waiting
<1>4. Cardinality(Waiting') = Cardinality(Waiting) + 1
  BY <1>3, WaitingFinite, FS_AddElement, ZenonT(60)
<1>5. Owed' = Owed
  BY DEF ConditionInv, ConditionTypeOK, Owed
<1>6. Signal' = Signal
  BY Zenon DEF Signal
<1>7. /\ Cardinality(Waiting) \in Nat /\ Cardinality(Owed) \in Nat /\ count \in Nat
      /\ Signal \in Int
  BY WaitingFinite, FS_CardinalityType, SignalType DEF ConditionInv, ConditionTypeOK
<1>8. count' = count + 1
  BY Zenon
<1>9. count' + Cardinality(Owed') + Signal' - Cardinality(Waiting')
        <= count + Cardinality(Owed) + Signal - Cardinality(Waiting)
  BY <1>4, <1>5, <1>6, <1>7, <1>8
<1>10. IsFiniteSet(Owed')
  BY <1>5, Zenon DEF ConditionInv
<1> QED
  BY <1>1, <1>2, <1>9, <1>10, CoveredStep, ZenonT(60)

\* m_event.wait(): the thread takes the signal with it, or blocks.
LEMMA WaitEventInv ==
  ASSUME ConditionVariableAssumption, ConditionInv, NEW w \in Waiters, UNCHANGED crew, WaitEvent(w)
  PROVE  ConditionInv'
<1> USE DEF WaitEvent, GoTo, Threads, ConditionVariableAssumption
<1>1. ConditionTypeOK'
  BY Zenon DEF ConditionInv, ConditionTypeOK, WaiterLabels, NotifierLabels
<1>2. MutexOnReturn'
  BY ZenonT(60) DEF ConditionInv, ConditionTypeOK, MutexOnReturn
<1>3. Owed' = Owed
  BY DEF ConditionInv, ConditionTypeOK, Owed
<1>4. IsFiniteSet(Owed')
  BY <1>3, ZenonT(60) DEF ConditionInv
<1>5. /\ Cardinality(Waiting) \in Nat /\ Cardinality(Owed) \in Nat /\ count \in Nat
      /\ Signal \in Int
  BY WaitingFinite, FS_CardinalityType, SignalType DEF ConditionInv, ConditionTypeOK
<1>6. Signal' = 0
  BY Zenon DEF Signal
<1>7. w \in Waiting
  BY Zenon DEF Waiting
<1>8. CASE signaled
  <2>1. Waiting' = Waiting \ {w}
    BY <1>8, Zenon DEF ConditionInv, ConditionTypeOK, Waiting
  <2>2. Cardinality(Waiting') = Cardinality(Waiting) - 1
    BY <2>1, <1>7, WaitingFinite, FS_RemoveElement, Zenon
  <2>3. Signal = 1
    BY <1>8, Zenon DEF Signal
  <2>4. count' = count
    BY Zenon
  <2>5. count' + Cardinality(Owed') + Signal' - Cardinality(Waiting')
          <= count + Cardinality(Owed) + Signal - Cardinality(Waiting)
    <3>1. Cardinality(Owed') = Cardinality(Owed)
      BY <1>3, ZenonT(60)
    <3> QED
      BY <2>2, <2>3, <2>4, <3>1, <1>5, <1>6
  <2> QED
    BY <1>1, <1>2, <1>4, <2>5, CoveredStep, Zenon
<1>9. CASE ~signaled
  <2>1. Waiting' = Waiting
    BY <1>9, Zenon DEF ConditionInv, ConditionTypeOK, Waiting
  <2>2. Signal = 0
    BY <1>9, ZenonT(60) DEF Signal
  <2>3. count' = count
    BY Zenon
  <2>4. count' + Cardinality(Owed') + Signal' - Cardinality(Waiting')
          <= count + Cardinality(Owed) + Signal - Cardinality(Waiting)
    BY <2>1, <2>2, <2>3, <1>3, <1>5, <1>6
  <2> QED
    BY <1>1, <1>2, <1>4, <2>4, CoveredStep, Zenon
<1> QED
  BY <1>8, <1>9, Zenon


\* notify_one() has taken a thread off the counter and owes it a set().
LEMMA NotifyOneCasInv ==
  ASSUME ConditionVariableAssumption, ConditionInv, NEW n \in Notifiers, UNCHANGED crew,
         NotifyOneCas(n), count = left[n]
  PROVE  ConditionInv'
<1> USE DEF NotifyOneCas, GoTo, Threads, ConditionVariableAssumption
<1>1. ConditionTypeOK'
  BY DEF ConditionInv, ConditionTypeOK, WaiterLabels, NotifierLabels
<1>2. MutexOnReturn'
  BY DEF ConditionInv, ConditionTypeOK, MutexOnReturn
<1>3. Waiting' = Waiting
  BY ZenonT(30) DEF ConditionInv, ConditionTypeOK, Waiting
<1>4. PICK x : x = <<n, 1>>
  BY ZenonT(60)
<1>5. Owed' = Owed \union {x}
  <2>1. /\ userPc'[n] = "set" /\ left'[n] = 1 /\ userPc[n] # "set"
        /\ \A m \in Notifiers : m # n => userPc'[m] = userPc[m] /\ left'[m] = left[m]
    BY ZenonT(60) DEF ConditionInv, ConditionTypeOK
  <2> QED
    BY <2>1, <1>4 DEF Owed
<1>6. IsFiniteSet(Owed') /\ Cardinality(Owed') <= Cardinality(Owed) + 1
  <2>1. IsFiniteSet(Owed)
    BY Zenon DEF ConditionInv
  <2>2. IsFiniteSet(Owed \union {x}) /\ Cardinality(Owed \union {x}) =
          IF x \in Owed THEN Cardinality(Owed) ELSE Cardinality(Owed) + 1
    BY <2>1, FS_AddElement, Zenon
  <2>3. Cardinality(Owed) \in Nat
    BY <2>1, FS_CardinalityType, ZenonT(60)
  <2> QED
    BY <1>5, <2>2, <2>3
<1>7. /\ Cardinality(Waiting) \in Nat /\ Cardinality(Owed) \in Nat /\ count \in Nat
      /\ Signal \in Int /\ Cardinality(Owed') \in Nat
  BY <1>6, WaitingFinite, FS_CardinalityType, SignalType DEF ConditionInv, ConditionTypeOK
<1>8. Signal' = Signal /\ count' = count - 1
  BY ZenonT(60) DEF Signal
<1>9. count' + Cardinality(Owed') + Signal' - Cardinality(Waiting')
        <= count + Cardinality(Owed) + Signal - Cardinality(Waiting)
  BY <1>3, <1>6, <1>7, <1>8
<1> QED
  BY <1>1, <1>2, <1>6, <1>9, CoveredStep, ZenonT(60)

\* notify_all() has taken every thread off the counter and owes each a set().
LEMMA NotifyAllInv ==
  ASSUME ConditionVariableAssumption, ConditionInv, NEW n \in Notifiers, UNCHANGED crew, NotifyAll(n)
  PROVE  ConditionInv'
<1> USE DEF NotifyAll, GoTo, Threads, ConditionVariableAssumption
<1>1. ConditionTypeOK'
  BY DEF ConditionInv, ConditionTypeOK, WaiterLabels, NotifierLabels
<1>2. MutexOnReturn'
  BY Zenon DEF ConditionInv, ConditionTypeOK, MutexOnReturn
<1>3. Waiting' = Waiting
  BY Zenon DEF ConditionInv, ConditionTypeOK, Waiting
<1>4. PICK batch : batch = {n} \X (1..count)
  BY Zenon
<1>5. Owed' = Owed \union batch
  <2>1. /\ left'[n] = count /\ userPc[n] # "set" /\ count \in Nat
        /\ \A m \in Notifiers : m # n => userPc'[m] = userPc[m] /\ left'[m] = left[m]
    BY Zenon DEF ConditionInv, ConditionTypeOK
  <2>2. batch = OwedBy(n)'
    <3>1. CASE count = 0
      <4>1. userPc'[n] # "set"
        BY <3>1, Zenon DEF ConditionInv, ConditionTypeOK
      <4>2. 1..count = {}
        BY <3>1
      <4> QED
        BY <1>4, <4>1, <4>2, Zenon DEF OwedBy
    <3>2. CASE count # 0
      <4>1. userPc'[n] = "set"
        BY <3>2, Zenon DEF ConditionInv, ConditionTypeOK
      <4> QED
        BY <1>4, <2>1, <4>1, Zenon DEF OwedBy
    <3> QED
      BY <3>1, <3>2, Zenon
  <2>3. OwedBy(n) = {}
    BY <2>1, Zenon DEF OwedBy
  <2>4. Owed = OwedByOthers(n) \union OwedBy(n) /\ Owed' = OwedByOthers(n) \union OwedBy(n)'
    BY <2>1, OwedStep, ZenonT(60)
  <2> QED
    BY <2>2, <2>3, <2>4, Zenon
<1>6. IsFiniteSet(batch) /\ Cardinality(batch) = count
  <2>1. count \in Nat
    BY Zenon DEF ConditionInv, ConditionTypeOK
  <2>2. IsFiniteSet(1..count) /\ Cardinality(1..count) = count
    BY <2>1, FS_Interval
  <2>3. IsFiniteSet({n}) /\ Cardinality({n}) = 1
    BY FS_Singleton, Zenon
  <2>4. /\ IsFiniteSet({n} \X (1..count))
        /\ Cardinality({n} \X (1..count)) = Cardinality({n}) * Cardinality(1..count)
    BY <2>2, <2>3, FS_Product, ZenonT(60)
  <2> QED
    BY <1>4, <2>1, <2>2, <2>3, <2>4
<1>7. IsFiniteSet(Owed') /\ Cardinality(Owed') <= Cardinality(Owed) + count
  <2>1. IsFiniteSet(Owed)
    BY Zenon DEF ConditionInv
  <2>2. IsFiniteSet(Owed \intersect batch)
    BY <2>1, FS_Subset, ZenonT(60)
  <2>3. /\ IsFiniteSet(Owed \union batch)
        /\ Cardinality(Owed \union batch) =
             Cardinality(Owed) + Cardinality(batch) - Cardinality(Owed \intersect batch)
    BY <1>6, <2>1, FS_Union, Zenon
  <2>4. /\ Cardinality(Owed) \in Nat /\ Cardinality(Owed \intersect batch) \in Nat
        /\ count \in Nat
    BY <2>1, <2>2, FS_CardinalityType, ZenonT(60) DEF ConditionInv, ConditionTypeOK
  <2> QED
    BY <1>5, <1>6, <2>3, <2>4
<1>8. /\ Cardinality(Waiting) \in Nat /\ Cardinality(Owed) \in Nat /\ count \in Nat
      /\ Signal \in Int /\ Cardinality(Owed') \in Nat
  BY <1>7, WaitingFinite, FS_CardinalityType, SignalType DEF ConditionInv, ConditionTypeOK
<1>9. Signal' = Signal /\ count' = 0
  BY ZenonT(60) DEF Signal
<1>10. count' + Cardinality(Owed') + Signal' - Cardinality(Waiting')
        <= count + Cardinality(Owed) + Signal - Cardinality(Waiting)
  BY <1>3, <1>7, <1>8, <1>9
<1> QED
  BY <1>1, <1>2, <1>7, <1>10, CoveredStep, ZenonT(60)


\* m_event.set(): what was owed goes to a blocked thread or into the event.
LEMMA SetEventInv ==
  ASSUME ConditionVariableAssumption, ConditionInv, NEW n \in Notifiers, UNCHANGED crew, SetEvent(n)
  PROVE  ConditionInv'
<1> USE DEF GoTo, Threads, ConditionVariableAssumption
<1>1. /\ userPc[n] = "set" /\ left' = [left EXCEPT ![n] = @ - 1] /\ left[n] \in Nat /\ left[n] >= 1
      /\ UNCHANGED <<mutexOwner, items, count, rounds>>
  BY Zenon DEF SetEvent, ConditionInv, ConditionTypeOK
<1>2. PICK to : to = IF left[n] = 1 THEN "out" ELSE "set"
  BY Zenon
<1>3. \/ signaled' = TRUE /\ userPc' = [userPc EXCEPT ![n] = to]
      \/ /\ signaled' = signaled
         /\ \E w \in Waiters : userPc[w] = "blocked" /\ userPc' = [userPc EXCEPT ![n] = to, ![w] = "relock"]
  <2>1. PICK blocked : blocked = {w \in Waiters : userPc[w] = "blocked"}
    BY Zenon
  <2>2. IF blocked = {}
        THEN signaled' = TRUE /\ userPc' = [userPc EXCEPT ![n] = to]
        ELSE /\ \E w \in blocked : userPc' = [userPc EXCEPT ![n] = to, ![w] = "relock"]
             /\ signaled' = signaled
    BY <2>1, <1>2, Zenon DEF SetEvent
  <2> QED
    BY <2>1, <2>2, Zenon
<1>4. ConditionTypeOK'
  <2>1. /\ to \in {"out", "set"} /\ (to = "set" => left[n] - 1 >= 1)
        /\ left' \in [Notifiers -> Nat] /\ left'[n] = left[n] - 1
        /\ \A m \in Notifiers : m # n => left'[m] = left[m]
    BY <1>1, <1>2 DEF ConditionInv, ConditionTypeOK
  <2>2. /\ userPc' \in [Threads -> WaiterLabels \union NotifierLabels]
        /\ userPc'[n] = to /\ \A m \in Notifiers : m # n => userPc'[m] = userPc[m]
        /\ \A w \in Waiters : userPc'[w] \in {userPc[w], "relock"}
    BY <1>3, <2>1 DEF ConditionInv, ConditionTypeOK, WaiterLabels, NotifierLabels
  <2>3. signaled' \in BOOLEAN
    BY <1>3, Zenon DEF ConditionInv, ConditionTypeOK
  <2>4. \A m \in Notifiers : userPc'[m] \in NotifierLabels
    BY <2>1, <2>2, Zenon DEF ConditionInv, ConditionTypeOK, NotifierLabels
  <2>5. \A m \in Notifiers : userPc'[m] \in {"cas", "set"} => left'[m] >= 1
    BY <2>1, <2>2, Zenon DEF ConditionInv, ConditionTypeOK
  <2>6. \A w \in Waiters : userPc'[w] \in WaiterLabels
    BY <2>2, Zenon DEF ConditionInv, ConditionTypeOK, WaiterLabels
  <2>7. crew' \subseteq Waiters /\ mutexOwner' \in Threads \union {NoOwner} /\ count' \in Nat
    BY <1>1, ZenonT(60) DEF ConditionInv, ConditionTypeOK
  <2> QED
    BY <2>1, <2>2, <2>3, <2>4, <2>5, <2>6, <2>7, ZenonT(60) DEF ConditionTypeOK
<1>5. MutexOnReturn'
  BY <1>1, <1>2, <1>3 DEF ConditionInv, ConditionTypeOK, MutexOnReturn
<1>6. PICK x : x = <<n, left[n]>>
  BY Zenon
<1>7. Owed' = Owed \ {x} /\ x \in Owed
  <2>1. /\ userPc'[n] = to /\ left'[n] = left[n] - 1
        /\ \A m \in Notifiers : m # n => userPc'[m] = userPc[m] /\ left'[m] = left[m]
    BY <1>1, <1>3, ZenonT(60) DEF ConditionInv, ConditionTypeOK
  <2>2. /\ Owed = OwedByOthers(n) \union OwedBy(n) /\ Owed' = OwedByOthers(n) \union OwedBy(n)'
        /\ x \notin OwedByOthers(n)
    BY <1>6, <2>1, OwedStep, ZenonT(60)
  <2>3. OwedBy(n) = {n} \X (1..left[n])
    BY <1>1, Zenon DEF OwedBy
  <2>4. OwedBy(n)' = {n} \X (1..left[n]-1)
    <3>1. CASE left[n] = 1
      <4>1. 1..left[n]-1 = {} /\ to # "set"
        BY <1>2, <3>1
      <4> QED
        BY <2>1, <4>1, Zenon DEF OwedBy
    <3>2. CASE left[n] # 1
      BY <1>2, <2>1, <3>2, ZenonT(60) DEF OwedBy
    <3> QED
      BY <3>1, <3>2, Zenon
  <2>5. left[n] \in 1..left[n] /\ 1..left[n]-1 = (1..left[n]) \ {left[n]}
    BY <1>1
  <2>6. x \in OwedBy(n) /\ OwedBy(n)' = OwedBy(n) \ {x}
    <3>1. x \in {n} \X (1..left[n]) /\ {n} \X ((1..left[n]) \ {left[n]}) = ({n} \X (1..left[n])) \ {x}
      BY <1>6, <2>5
    <3> QED
      BY <2>3, <2>4, <2>5, <3>1, ZenonT(60)
  <2>7. ASSUME NEW S, NEW T, x \notin S, x \in T
        PROVE  S \union (T \ {x}) = (S \union T) \ {x} /\ x \in S \union T
    <3>1. ASSUME NEW e PROVE e \in S \union (T \ {x}) <=> e \in (S \union T) \ {x}
      <4>1. CASE e = x
        BY <2>7, <4>1, Zenon
      <4>2. CASE e # x
        BY <4>2, Zenon
      <4> QED
        BY <4>1, <4>2, Zenon
    <3> QED
      BY <2>7, <3>1, Zenon
  <2> QED
    BY <2>2, <2>6, <2>7, Zenon
<1>8. IsFiniteSet(Owed') /\ Cardinality(Owed') = Cardinality(Owed) - 1
  <2>1. IsFiniteSet(Owed)
    BY Zenon DEF ConditionInv
  <2>2. IsFiniteSet(Owed \ {x}) /\ Cardinality(Owed \ {x}) = Cardinality(Owed) - 1
    BY <1>7, <2>1, FS_RemoveElement, Zenon
  <2> QED
    BY <1>7, <2>2, Zenon
<1>9. /\ Cardinality(Waiting) \in Nat /\ Cardinality(Owed) \in Nat /\ count \in Nat
      /\ Signal \in {0, 1} /\ Signal' \in {0, 1}
  BY WaitingFinite, FS_CardinalityType, SignalType, Zenon DEF ConditionInv, ConditionTypeOK
<1>10. CASE signaled' = TRUE /\ userPc' = [userPc EXCEPT ![n] = to]
  <2>1. Waiting' = Waiting
    <3>1. \A w \in Waiters : userPc'[w] = userPc[w]
      BY <1>10, ZenonT(60) DEF ConditionInv, ConditionTypeOK
    <3> QED
      BY <3>1, Zenon DEF Waiting
  <2>2. count' + Cardinality(Owed') + Signal' - Cardinality(Waiting')
          <= count + Cardinality(Owed) + Signal - Cardinality(Waiting)
    BY <2>1, <1>1, <1>8, <1>9
  <2> QED
    BY <1>4, <1>5, <1>8, <2>2, CoveredStep, ZenonT(60)
<1>11. CASE /\ signaled' = signaled
            /\ \E w \in Waiters : userPc[w] = "blocked" /\ userPc' = [userPc EXCEPT ![n] = to, ![w] = "relock"]
  <2>1. PICK w \in Waiters : userPc[w] = "blocked" /\ userPc' = [userPc EXCEPT ![n] = to, ![w] = "relock"]
    BY <1>11, ZenonT(60)
  <2>2. Waiting' = Waiting \ {w} /\ w \in Waiting
    BY <2>1 DEF ConditionInv, ConditionTypeOK, Waiting
  <2>3. Cardinality(Waiting') = Cardinality(Waiting) - 1
    BY <2>2, WaitingFinite, FS_RemoveElement, Zenon
  <2>4. Signal' = Signal
    BY <1>11, SignalType, ZenonT(60)
  <2>5. count' + Cardinality(Owed') + Signal' - Cardinality(Waiting')
          <= count + Cardinality(Owed) + Signal - Cardinality(Waiting)
    BY <2>3, <2>4, <1>1, <1>8, <1>9
  <2> QED
    BY <1>4, <1>5, <1>8, <2>5, CoveredStep, ZenonT(60)
<1> QED
  BY <1>3, <1>10, <1>11, Zenon
-----------------------------------------------------------------------------
\* Nobody waits at first, and nothing is owed.
LEMMA ConditionInitInv ==
  ASSUME ConditionVariableAssumption, ConditionInit
  PROVE  ConditionInv
<1> USE DEF ConditionInit, Threads, ConditionVariableAssumption
<1>1. ConditionTypeOK /\ MutexOnReturn
  BY Zenon DEF ConditionTypeOK, MutexOnReturn, WaiterLabels, NotifierLabels
<1>2. Owed = {} /\ Waiting = {}
  BY DEF Owed, Waiting
<1>3. IsFiniteSet({}) /\ Cardinality({}) = 0
  BY FS_EmptySet, Zenon
<1>4. Signal = 0
  BY Zenon DEF Signal
<1>5. SignalsCovered
  BY <1>2, <1>3, <1>4, Covered
<1> QED
  BY <1>1, <1>2, <1>3, <1>5, Zenon DEF ConditionInv

\* Every step of a waiter or of a notifier keeps the invariant.
LEMMA ConditionNextInv ==
  ASSUME ConditionVariableAssumption, ConditionInv, [ConditionNext]_conditionVars
  PROVE  ConditionInv'
<1>1. CASE UNCHANGED conditionVars
  <2>1. ConditionTypeOK' /\ MutexOnReturn' /\ Owed' = Owed
    BY <1>1, Zenon DEF ConditionInv, conditionVars, ConditionTypeOK, MutexOnReturn, Owed
  <2>2. SignalsCovered'
    BY <1>1, <2>1, Zenon DEF ConditionInv, conditionVars, SignalsCovered, Waiting
  <2> QED
    BY <2>1, <2>2, Zenon DEF ConditionInv
<1>2. ASSUME NEW w \in crew, Wait(w), UNCHANGED crew
      PROVE  ConditionInv'
  <2>1. w \in Waiters /\ w \in Threads
    BY Zenon DEF ConditionInv, ConditionTypeOK, Threads
  <2> QED
    BY <1>2, <2>1, LockInv, QuietWaitInv, WaitCountInv, WaitEventInv, Zenon DEF Wait
<1>3. ASSUME NEW n \in Notifiers, Notify(n), UNCHANGED crew
      PROVE  ConditionInv'
  <2>1. n \in Threads
    BY ZenonT(60) DEF Threads
  <2> QED
    BY <1>3, <2>1, LockInv, QuietNotifyInv, NotifyOneCasInv, NotifyAllInv, SetEventInv, ZenonT(60) DEF Notify
<1> QED
  BY <1>1, <1>2, <1>3, Zenon DEF ConditionNext, Step

\* condition_variable sends no signal that no waiter is there to take, and
\* wait() returns with the mutex, for any number of waiters and notifiers that
\* call notify_one() and notify_all() as they like, and however the steps of
\* the counter and of the event interleave.
THEOREM NoSignalToSpare ==
  ASSUME ConditionVariableAssumption
  PROVE  ConditionSpec => []NoSpareSignal
<1>1. ConditionInit => ConditionInv
  BY ConditionInitInv, Zenon
<1>2. ConditionInv /\ [ConditionNext]_conditionVars => ConditionInv'
  BY ConditionNextInv, Zenon
<1>3. ConditionInv => NoSpareSignal
  BY Zenon DEF ConditionInv, NoSpareSignal
<1> QED
  BY <1>1, <1>2, <1>3, PTL DEF ConditionSpec

=============================================================================
