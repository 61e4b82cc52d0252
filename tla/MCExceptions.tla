---------------------------- MODULE MCExceptions ----------------------------
(***************************************************************************)
(* Exception objects and the engine that throws them, each in a behaviour  *)
(* of its own: `part` tells which one runs while the other stays initial.  *)
(* The program of the engine has nested try blocks with objects between    *)
(* them, a handler with a try block of its own, and a function to call     *)
(* from anywhere.                                                          *)
(***************************************************************************)
EXTENDS ExceptionBase, ExceptionEngine, TLC

\* Exception objects and messages are interchangeable.
MCSymmetry == Permutations(Objects) \union Permutations(Messages)

\* f { try { a; try { b; } catch (derived) {f2} } catch (base) {f1} catch (...) {f3} }; g has an object.
Handler(type, funclet) == [type |-> type, funclet |-> funclet]
Try(low, high, handlers) == [low |-> low, high |-> high, handlers |-> handlers]
Code(catch, next, scoped, tries) == [catch |-> catch, next |-> next, objects |-> scoped, tries |-> tries]
NextOf(seq) == [s \in 0..(Len(seq) - 1) |-> seq[s + 1]]

MCProgram ==
  [f |-> Code(FALSE, NextOf(<<-1, 0, 1, 2>>), {1, 3},
              <<Try(2, 3, <<Handler("derived", "f2")>>),
                Try(0, 3, <<Handler("base", "f1"), Handler("...", "f3")>>)>>),
   f1 |-> Code(TRUE, NextOf(<<-1, 0>>), {1}, <<Try(0, 1, <<Handler("derived", "f4")>>)>>),
   f2 |-> Code(TRUE, NextOf(<<-1>>), {0}, <<>>),
   f3 |-> Code(TRUE, NextOf(<<>>), {}, <<>>),
   f4 |-> Code(TRUE, NextOf(<<>>), {}, <<>>),
   g |-> Code(FALSE, NextOf(<<-1>>), {0}, <<>>)]
MCCatchables == [derived |-> {"derived", "base"}, other |-> {"other"}]
-----------------------------------------------------------------------------

VARIABLE part

AllInit == part \in {"objects", "engine"} /\ Init /\ EngineInit

AllNext ==
  \/ part = "objects" /\ Next /\ UNCHANGED <<part, evars>>
  \/ part = "engine" /\ EngineNext /\ UNCHANGED <<part, vars>>

AllSpec == AllInit /\ [][AllNext]_<<part, vars, evars>>

\* The engine alone.
RethrowSpec == part = "engine" /\ AllSpec
=============================================================================
