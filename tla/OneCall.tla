------------------------------ MODULE OneCall ------------------------------
(***************************************************************************)
(* The frame of the modules about pure functions: a behaviour is one call, *)
(* its arguments in call, and then its result.                             *)
(***************************************************************************)
CONSTANT NoResult

VARIABLES call, result

cvars == <<call, result>>

Do(op, value) == call.op = op /\ result = NoResult /\ result' = value /\ UNCHANGED call
Done(op) == call.op = op /\ result # NoResult
============================================================================
