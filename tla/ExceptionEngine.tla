--------------------------- MODULE ExceptionEngine ---------------------------
(***************************************************************************)
(* The C++ exception engine for x64: _CxxThrowException (capture.asm), the *)
(* dispatcher and the frame of an active handler (catch.cpp), the frame    *)
(* handler that unwinds one funclet (frame_handler4.cpp).                  *)
(*                                                                         *)
(* The stack is a sequence of frames and its index the address, so that    *)
(* the frame of a callee has the greater index and the lower address.  A   *)
(* function has one primary funclet and one for each of its catch blocks;  *)
(* an active catch block has two frames, that of __cxx_call_catch_handler, *)
(* which holds the catch_info, and that of its funclet.  What the compiler *)
(* emits is the constant Program.                                          *)
(***************************************************************************)
EXTENDS Integers, Sequences, FiniteSets

CONSTANTS
  Program,        \* funclet -> [catch, next, objects, tries]; no states: no frame handler
  Callable,       \* the primary funclets that are called
  EntryPoint,     \* the funclet at the bottom of the stack
  Catchables,     \* exception type -> the types its catch blocks may name
  MaxDepth,       \* bound: frames on the stack
  MaxThrows,      \* bound: throw expressions with an operand
  Avoided         \* deviations of the code that this instance keeps out of

VARIABLES
  stack,          \* frames
  walk,           \* Idle, or the throw_frame and dispatcher_context of the dispatch in progress
  alive,          \* the objects constructed and not destroyed: <<frame, state>>
  trouble,        \* the objects that were destroyed when they were not alive
  thrown,         \* sequence: the type of every exception object
  living,         \* the exception objects that are not destroyed
  terminated,     \* terminate() was called
  scopes          \* history: the scopes that are open by the rules of the language

evars == <<stack, walk, alive, trouble, thrown, living, terminated, scopes>>

States(f) == DOMAIN Program[f].next
Tries(f) == Program[f].tries

\* A state leads to an outer one; every state is an object or the entry into one try block, whose states are those
\* that lead to it; inner try blocks come first.
ASSUME ProgramAssumption ==
  \A f \in DOMAIN Program :
    /\ \A s \in States(f) : Program[f].next[s] \in -1..(s - 1)
    /\ \A s \in States(f) : s \in Program[f].objects <=> \A i \in DOMAIN Tries(f) : Tries(f)[i].low # s
    /\ \A i, j \in DOMAIN Tries(f) : i < j => Tries(f)[i].low > Tries(f)[j].low
    /\ \A i \in DOMAIN Tries(f) : \A s \in States(f) :
         s > Tries(f)[i].low => (Program[f].next[s] >= Tries(f)[i].low <=> s <= Tries(f)[i].high)

-----------------------------------------------------------------------------
(* catch_info: the object or a link to the frame whose catch_info has it,  *)
(* the throw_info if this one owns the object, and where the function that *)
(* catches goes on.                                                        *)

Nothing == [is |-> "null", at |-> 0]
Object(e) == [is |-> "object", at |-> e]
Link(k) == [is |-> "link", at |-> k]
NoType == "none"
NoState == -1

catch_info(object, info) == [object |-> object, info |-> info, primary |-> 0, context |-> NoState]

get_exception_object(s, ci) == IF ci.object.is = "link" THEN s[ci.object.at].ci.object ELSE ci.object
get_throw_info(s, ci) == IF ci.object.is = "link" THEN s[ci.object.at].ci.info ELSE ci.info

Funclet(f, primary) == [call |-> FALSE, fn |-> f, state |-> NoState, primary |-> primary]
CallCatch(ci) == [call |-> TRUE, ci |-> ci]

Idle == [pos |-> 0, found |-> FALSE, wild |-> FALSE]

\* Mutant: the object is never destroyed.
KeepException(E, ci) == E

\* The object of ci ends with it if ci owns the object.
destroy_exception(E, ci) == IF ci.info # NoType THEN E \ {ci.object.at} ELSE E

-----------------------------------------------------------------------------
(* One frame of the walk.  m has the variables that change.                *)

\* The states that destroy_objects visits: it leaves off before one that is not above the final state.
RECURSIVE destroy_objects(_, _, _)
destroy_objects(f, initial, final) ==
  LET target == Program[f].next[initial]
  IN {initial} \union (IF target <= final THEN {} ELSE destroy_objects(f, target, final))

\* Mutant: where the function that caught goes on is not carried over.
CallCatchForgets(m, k) ==
  LET taken == m.walk.ci.object \in {Nothing, Link(k)}
  IN [m EXCEPT !.walk.ci = IF taken THEN [@ EXCEPT !.object = stack[k].ci.object, !.info = stack[k].ci.info] ELSE @,
               !.living = IF taken THEN @ ELSE destroy_exception(@, stack[k].ci)]

\* The handler of __cxx_call_catch_handler's own frame, while an exception unwinds it.
call_catch_frame_handler(m, k) ==
  LET ci == m.walk.ci
      mine == stack[k].ci
      taken == ci.object \in {Nothing, Link(k)}
  IN [m EXCEPT
       !.walk.ci = [object |-> IF taken THEN mine.object ELSE ci.object, info |-> IF taken THEN mine.info ELSE ci.info,
                    primary |-> mine.primary, context |-> mine.context],
       !.living = IF taken THEN @ ELSE destroy_exception(@, mine)]

\* probe_for_exception moves the throw frame itself down to the next active handler; 0 stands for the bottom.  Without a
\* catch block in the function that asked, the walk goes on from there with the unwind codes of another function.
probe(k) ==
  LET Active == {q \in 1..k : stack[q].call}
  IN IF Active = {} THEN 0 ELSE CHOOSE q \in Active : \A r \in Active : r <= q

Handlers(f, state) ==
  UNION {{<<i, h>> : h \in DOMAIN Tries(f)[i].handlers} :
           i \in {i \in DOMAIN Tries(f) : Tries(f)[i].low <= state /\ state <= Tries(f)[i].high}}
process_catch_block(handler, type) == handler.type = "..." \/ handler.type \in Catchables[type]

\* The end of the frame handler: the objects above the handler that was found, the first of those that match, are
\* destroyed, or those of the whole function if there is none.
Unwound(m, k, Matching, initial, linked, primary, probed) ==
  LET Tried == Tries(stack[k].fn)
      first == CHOOSE c \in Matching : \A d \in Matching : c[1] < d[1] \/ (c[1] = d[1] /\ c[2] <= d[2])
      target == IF Matching # {} THEN Tried[first[1]].low - 1 ELSE -1
      Gone == IF target >= initial THEN {}
              ELSE {<<k, s>> : s \in destroy_objects(stack[k].fn, initial, target) \intersect Program[stack[k].fn].objects}
  IN [m EXCEPT
       !.walk.found = Matching # {},
       !.walk.frame = k,
       !.walk.handler = IF Matching # {} THEN Tried[first[1]].handlers[first[2]].funclet ELSE EntryPoint,
       !.walk.ci = IF Matching # {} THEN [linked EXCEPT !.primary = primary, !.context = target] ELSE linked,
       !.walk.pos = IF probed THEN probe(k) ELSE k,
       !.walk.wild = probed /\ Matching = {},
       !.alive = @ \ Gone,
       !.trouble = @ \union (Gone \ m.alive),
       !.deviates = IF probed THEN {"the probe moves the throw frame"} ELSE {}]

frame_handler(m, k) ==
  LET frame == stack[k]
      f == frame.fn
      ci == m.walk.ci
      resumed == ci.primary # 0 /\ ci.primary <= k
      primary == IF resumed THEN ci.primary ELSE IF Program[f].catch THEN frame.primary ELSE k
      initial == IF resumed THEN ci.context ELSE frame.state
      Covering == IF initial >= 0 THEN Handlers(f, initial) ELSE {}
      probed == Covering # {} /\ get_throw_info(stack, ci) = NoType
      q == probe(k)
      linked == IF probed /\ q # 0
                  THEN [ci EXCEPT !.object = IF stack[q].ci.info # NoType THEN Link(q) ELSE stack[q].ci.object]
                  ELSE ci
      type == get_throw_info(stack, linked)
      Matching == {c \in Covering : process_catch_block(Tries(f)[c[1]].handlers[c[2]], type)}
  IN IF probed /\ q = 0 THEN [m EXCEPT !.terminated = TRUE]
     ELSE Unwound(m, k, Matching, initial, linked, primary, probed)

\* execute_handler: a function without a frame handler is passed over.
execute_handler(m, k) ==
  IF stack[k].call THEN call_catch_frame_handler(m, k)
  ELSE IF States(stack[k].fn) = {} THEN m
  ELSE frame_handler(m, k)

Machine == [walk |-> walk, alive |-> alive, trouble |-> trouble, living |-> living, terminated |-> FALSE, deviates |-> {}]

-----------------------------------------------------------------------------
(* The rules of the language: the scopes that are open, the innermost one  *)
(* last.                                                                   *)

Scope(what, of) == [what |-> what, of |-> of]
Opened(f, state) ==
  IF state \in Program[f].objects THEN Scope("object", <<f, state>>)
  ELSE Scope("try", <<f, CHOOSE i \in DOMAIN Tries(f) : Tries(f)[i].low = state>>)

Fits(scope, type) ==
  scope.what = "try" /\ \E h \in DOMAIN Tries(scope.of[1])[scope.of[2]].handlers :
                           process_catch_block(Tries(scope.of[1])[scope.of[2]].handlers[h], type)
FirstFitting(scope, type) ==
  LET handlers == Tries(scope.of[1])[scope.of[2]].handlers
      Fitting == {h \in DOMAIN handlers : process_catch_block(handlers[h], type)}
  IN handlers[CHOOSE h \in Fitting : \A g \in Fitting : h <= g].funclet

\* The innermost try block with a handler for the exception e is left and its handler entered; none: no scope is left.
Caught(open, e, type) ==
  LET Places == {j \in DOMAIN open : Fits(open[j], type)}
      j == CHOOSE p \in Places : \A r \in Places : r <= p
  IN IF Places = {} THEN <<>>
     ELSE Append(SubSeq(open, 1, j - 1), Scope("handler", <<e, FirstFitting(open[j], type)>>))

Handled == {j \in DOMAIN scopes : scopes[j].what = "handler"}
Current == LET j == CHOOSE p \in Handled : \A r \in Handled : r <= p IN scopes[j].of[1]

-----------------------------------------------------------------------------
(* The steps.                                                              *)

Top == Len(stack)
Running == walk = Idle /\ ~terminated /\ ~stack[Top].call
AtState(s) == [stack EXCEPT ![Top].state = s]

EngineInit ==
  /\ stack = <<Funclet(EntryPoint, 0)>> /\ walk = Idle /\ terminated = FALSE
  /\ alive = {} /\ trouble = {} /\ thrown = <<>> /\ living = {}
  /\ scopes = <<Scope("frame", EntryPoint)>>

\* An object is constructed or a try block entered.
Enter ==
  /\ Running
  /\ \E s \in States(stack[Top].fn) :
       /\ Program[stack[Top].fn].next[s] = stack[Top].state
       /\ stack' = AtState(s)
       /\ alive' = IF s \in Program[stack[Top].fn].objects THEN alive \union {<<Top, s>>} ELSE alive
       /\ scopes' = Append(scopes, Opened(stack[Top].fn, s))
  /\ UNCHANGED <<walk, trouble, thrown, living, terminated>>

\* The innermost object is destroyed or the innermost try block left.
Exit ==
  /\ Running /\ stack[Top].state >= 0
  /\ stack' = AtState(Program[stack[Top].fn].next[stack[Top].state])
  /\ alive' = alive \ {<<Top, stack[Top].state>>}
  /\ scopes' = SubSeq(scopes, 1, Len(scopes) - 1)
  /\ UNCHANGED <<walk, trouble, thrown, living, terminated>>

CallFunction ==
  /\ Running /\ Top < MaxDepth
  /\ \E f \in Callable : stack' = Append(stack, Funclet(f, 0)) /\ scopes' = Append(scopes, Scope("frame", f))
  /\ UNCHANGED <<walk, alive, trouble, thrown, living, terminated>>

Return ==
  /\ Running /\ Top > 1 /\ stack[Top].state = NoState /\ ~Program[stack[Top].fn].catch
  /\ stack' = SubSeq(stack, 1, Top - 1)
  /\ scopes' = SubSeq(scopes, 1, Len(scopes) - 1)
  /\ UNCHANGED <<walk, alive, trouble, thrown, living, terminated>>

\* The throw frame is set up and the walk begins with the function that throws.
Dispatch(ci) ==
  walk' = [pos |-> Top, found |-> FALSE, wild |-> FALSE, ci |-> ci, frame |-> 0, handler |-> EntryPoint]

Throw ==
  /\ Running /\ Len(thrown) < MaxThrows
  /\ \E type \in DOMAIN Catchables :
       LET e == Len(thrown) + 1
       IN /\ thrown' = Append(thrown, type) /\ living' = living \union {e}
          /\ Dispatch(catch_info(Object(e), type))
          /\ scopes' = Caught(scopes, e, type)
  /\ UNCHANGED <<stack, alive, trouble, terminated>>

\* throw without operand, while a handler is active.
Rethrow ==
  /\ Running /\ Handled # {}
  /\ Dispatch(catch_info(Nothing, NoType))
  /\ scopes' = Caught(scopes, Current, thrown[Current])
  /\ UNCHANGED <<stack, alive, trouble, thrown, living, terminated>>

\* __cxx_dispatch_exception: one turn of its loop.  An address below the bottom belongs to no function of the image.
GoOn(m) ==
  /\ m.deviates \intersect Avoided = {}
  /\ walk' = IF m.walk.found \/ m.walk.wild \/ m.terminated THEN m.walk ELSE [m.walk EXCEPT !.pos = @ - 1]
  /\ alive' = m.alive /\ trouble' = m.trouble /\ living' = m.living
  /\ terminated' = (m.terminated \/ walk'.pos = 0)
WalkFrame ==
  /\ walk # Idle /\ ~walk.found /\ ~walk.wild /\ ~terminated
  /\ GoOn(execute_handler(Machine, walk.pos))
  /\ UNCHANGED <<stack, thrown, scopes>>

\* __cxx_eh_apply_context, __cxx_call_catch_handler: what lies above the frame that catches is given up, and the
\* funclet of the handler is called.
CallHandler ==
  /\ walk # Idle /\ walk.found
  /\ stack' = SubSeq(stack, 1, walk.pos) \o <<CallCatch(walk.ci), Funclet(walk.handler, walk.ci.primary)>>
  /\ walk' = Idle
  /\ UNCHANGED <<alive, trouble, thrown, living, terminated, scopes>>

\* The funclet returns the address to continue at, the exception ends if this frame owns it, and iretq.
HandlerReturns ==
  /\ Running /\ Program[stack[Top].fn].catch /\ stack[Top].state = NoState
  /\ LET ci == stack[Top - 1].ci
     IN /\ stack' = [SubSeq(stack, 1, Top - 2) EXCEPT ![Top - 2].state = ci.context]
        /\ living' = destroy_exception(living, ci)
  /\ scopes' = SubSeq(scopes, 1, Len(scopes) - 1)
  /\ UNCHANGED <<walk, alive, trouble, thrown, terminated>>

EngineNext ==
  \/ Enter \/ Exit \/ CallFunction \/ Return \/ Throw \/ Rethrow
  \/ WalkFrame \/ CallHandler \/ HandlerReturns

EngineSpec == EngineInit /\ [][EngineNext]_evars

-----------------------------------------------------------------------------
(* What must hold.                                                         *)

\* The states of a funclet that are open in state s, the outermost first.
RECURSIVE OpenStates(_, _)
OpenStates(f, s) == IF s = NoState THEN <<>> ELSE Append(OpenStates(f, Program[f].next[s]), s)

\* The function below an active handler is where the handler will let it go on.
StateOf(k) == IF k < Len(stack) /\ stack[k + 1].call THEN stack[k + 1].ci.context ELSE stack[k].state

RECURSIVE ScopesUpTo(_)
ScopesUpTo(k) ==
  LET frame == stack[k]
      states == OpenStates(frame.fn, StateOf(k))
      own == IF frame.call THEN <<Scope("handler", <<get_exception_object(stack, frame.ci).at, stack[k + 1].fn>>)>>
             ELSE (IF Program[frame.fn].catch THEN <<>> ELSE <<Scope("frame", frame.fn)>>)
                    \o [i \in DOMAIN states |-> Opened(frame.fn, states[i])]
  IN IF k = 0 THEN <<>> ELSE ScopesUpTo(k - 1) \o own

Elems(seq) == {seq[i] : i \in DOMAIN seq}
AtRest == walk = Idle /\ ~terminated

\* Whenever the program runs, the stack has exactly the scopes the language says are open: an exception enters the
\* first fitting handler of the innermost try block that has one, also if a handler throws or rethrows it, never one
\* of a try block whose handler is active; everything in between is left, nothing else; the rethrown exception is the
\* one that was caught.  terminate() is called if and only if no try block fits.
ScopesKept == (AtRest => scopes = ScopesUpTo(Len(stack))) /\ (terminated => scopes = <<>>)

\* Every object is destroyed once, and when its scope is left: while the program runs the objects alive are those of
\* the open scopes.  An exception object is owned by one active handler and lives as long as a handler for it is
\* active, through rethrows; one that a new exception replaces is destroyed.
NothingOutlives ==
  LET Owners == {k \in DOMAIN stack : stack[k].call /\ stack[k].ci.info # NoType}
  IN /\ trouble = {}
     /\ AtRest =>
          /\ \A o \in alive : o[1] <= Len(stack)
          /\ \A k \in DOMAIN stack : ~stack[k].call =>
               {s \in States(stack[k].fn) : <<k, s>> \in alive}
                 = {s \in Program[stack[k].fn].objects : s \in Elems(OpenStates(stack[k].fn, StateOf(k)))}
          /\ living = {scopes[j].of[1] : j \in Handled}
          /\ {stack[k].ci.object.at : k \in Owners} = living /\ Cardinality(Owners) = Cardinality(living)

\* "Now that the dispatcher returned, the non-volatile context should be modified to that of the catcher's frame": the
\* frame the dispatcher ends at is the one whose handler it found.
ContextIsCatchers == walk.found => walk.pos = walk.frame
=============================================================================
