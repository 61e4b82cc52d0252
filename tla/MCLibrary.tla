----------------------------- MODULE MCLibrary -----------------------------
(***************************************************************************)
(* A call of a pure function, from the call to its result, with each       *)
(* combination of small arguments; or threads that call operator new and   *)
(* delete.  `part` tells which.  Ranges have at most MaxRange elements (LongRange for the algorithms     *)
(* that move elements); the integer types are scaled down, the widest to 8 *)
(* bits and int to 5, so that overflow is met with small numbers.          *)
(***************************************************************************)
EXTENDS Comparisons, Chrono, UnwindTables, Atomics, Format, TLC

PureCall ==
  \/ AlgorithmCall \/ TextCall \/ ChronoCall \/ ComparisonCall \/ UnwindCall \/ AtomicCall
  \/ FormatCall \/ BufferCall
PureInit == PureCall /\ result = NoResult
PureNext ==
  \/ AlgorithmNext \/ TextNext \/ ChronoNext \/ ComparisonNext \/ UnwindNext \/ AtomicNext
  \/ FormatNext \/ BufferNext

\* The vocabulary types compare and give access to what they hold as the standard's do, and an operation of an atomic
\* changes it and returns as the standard says.
ValuesCorrect == ComparisonsCorrect /\ AtomicsCorrect

\* Views, strings and C strings compare and are searched as sequences of characters; a format string is read as it is
\* written and its fields come out as asked for; the buffers pass the text on unchanged.
TextCorrect == TextsCorrect /\ FormatsAgree /\ FieldsFormatted /\ BuffersPass

MCRepMax == [intmax |-> 127, llong |-> 127, int |-> 15]
MCPeriods == {<<1, 6>>, <<1, 2>>, <<1, 1>>, <<2, 3>>, <<5, 1>>}
MCCounts == {-128, -9, -4, -1, 0, 1, 2, 3, 7, 10, 15, 16, 100}
\* Both ends of each length of a compressed number, and numbers with four different bytes.
MCNumbers ==
  UNION {{2^k - 1, 2^k} : k \in {0, 7, 14, 21, 28}} \union {100, 5000, 1000000, 19088743, 305419896, 2147483647}

\* Up to three pieces: braces, ids of each sort, numbers at and above MaxInt, every part of the specs.
MCPieces ==
  {<<"{">>, <<"}">>, <<"n">>, <<"{", "}">>, <<"{", ":">>, <<"{", "0", ":">>, <<"{", "1", "}">>, <<"{", "n", ":">>,
   <<"{", "1", "}", "}">>, <<"<">>, <<"^", "7">>, <<"+">>, <<"#", "x">>, <<"0">>, <<"1", "2", "7">>, <<"1", "2", "8">>,
   <<".", "3">>, <<".", "{", "}">>, <<"L">>}
MCFormatTexts == {<<>>} \union {p \o q \o r : p, q, r \in MCPieces}
Arg(type, value) == [type |-> type, value |-> value, name |-> <<>>]
MCArgumentLists ==
  {<<>>, <<Arg("int", -5), Arg("uint", 3)>>,
   <<[Arg("string", <<"a", "b", "c", "d">>) EXCEPT !.name = <<"n">>], Arg("int", 2), Arg("uint", 200)>>}
MCFields ==
  [fill : {<<>>, <<"n", "<">>, <<"o", "^">>}, sign : {<<>>, <<"+">>}, alt : {<<>>, <<"#">>}, zero : {<<>>, <<"0">>},
   width : {<<>>, <<"6">>}, precision : {<<>>, <<".", "2">>}, local : {<<>>, <<"L">>},
   type : {<<>>, <<"d">>, <<"x">>, <<"o">>, <<"c">>, <<"s">>, <<"p">>, <<"f">>}]
MCFieldArguments ==
  {Arg("int", -26), Arg("int", 0), Arg("uint", 97), Arg("bool", 1), Arg("char", 97), Arg("double", 0), Arg("pointer", 31),
   Arg("string", <<"a", "b", "c">>), [type |-> "cstring", value |-> <<"n", "o">>, address |-> 18, name |-> <<>>]}
MCOldText == <<-1, -2>>
-----------------------------------------------------------------------------
VARIABLES part, blocks, wanted, new_handler, calls, spare, sets, stopped

\* Objects of a quarter or of more than a page, aligned to a cache line.
H == INSTANCE NewDelete WITH
       HThreads <- {"t", "u"}, Capacity <- 2, CacheLine <- 4, Page <- 8, Counts <- {1, 5}, Alignments <- {4}, MaxSets <- 2

heapVars == <<blocks, wanted, new_handler, calls, spare, sets, stopped>>

AllInit ==
  /\ H!HeapInit
  /\ \/ /\ part = "pure" /\ PureInit
        /\ wanted = [count |-> 1, alignment |-> 4, form |-> [aligned |-> TRUE, pool |-> "paged"]]
     \/ part = "new" /\ call = [op |-> "none"] /\ result = NoResult
AllNext ==
  \/ part = "pure" /\ PureNext /\ UNCHANGED <<part, heapVars>>
  \/ part = "new" /\ H!HeapNext /\ UNCHANGED <<part, call, result>>

\* A call of operator new goes on when it can.
NewRuns(t) == part = "new" /\ H!NewStep(t) /\ UNCHANGED <<part, call, result>>
AllSpec == AllInit /\ [][AllNext]_<<part, call, result, heapVars>> /\ \A t \in {"t", "u"} : WF_heapVars(NewRuns(t))

\* NewDelete!BlocksFit.  What operator new or an allocator returns is as large and as aligned as was asked for.
BlocksFit == H!BlocksFit

\* NewDelete!NewEnds.  A throwing operator new comes to an end, with memory or with bad_alloc.
NewEnds == H!NewEnds
=============================================================================
