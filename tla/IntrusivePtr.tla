---------------------------- MODULE IntrusivePtr ----------------------------
(***************************************************************************)
(* ktl::intrusive_ptr (include/smart_pointer.hpp).  The count is in the    *)
(* object; an object may have a member that is an intrusive_ptr itself,    *)
(* which is named like the object.  A call ends with the destructor of a   *)
(* temporary, which releases what the target had; the last release of an   *)
(* object destroys its member, whose release comes next.  Each release is  *)
(* a step.                                                                 *)
(***************************************************************************)
EXTENDS Integers, FiniteSets

CONSTANTS
  Intrusives,   \* the pointer variables
  Nodes,        \* the counted objects
  NoNode,
  MaxRefs       \* bound: references held by raw pointers

VARIABLES
  iptr,     \* m_ptr of each variable and of each object's member
  refs,     \* the count in each object, 0 when the object is gone
  bare,     \* bare[x]: the references to x that raw pointers own
  dropped,  \* what a pointer that is being destroyed has yet to release
  iMisuse   \* the count of an object that is gone was changed

ivars == <<iptr, refs, bare, dropped, iMisuse>>

Holders == Intrusives \union Nodes

ASSUME IntrusiveAssumption == IsFiniteSet(Holders) /\ NoNode \notin Nodes

IntrusiveInit ==
  /\ iptr = [i \in Holders |-> NoNode]
  /\ refs = [x \in Nodes |-> 0]
  /\ bare = [x \in Nodes |-> 0]
  /\ dropped = NoNode
  /\ iMisuse = FALSE

Now == [ptr |-> iptr, refs |-> refs, dropped |-> dropped, bad |-> iMisuse]

intrusive_ptr_add_ref(m, x) ==
  IF x = NoNode THEN m ELSE [m EXCEPT !.refs[x] = @ + 1, !.bad = @ \/ m.refs[x] = 0]

\* The last release runs the destructor of the member.
intrusive_ptr_release(m, x) ==
  IF m.refs[x] > 1 THEN [m EXCEPT !.refs[x] = @ - 1, !.dropped = NoNode]
  ELSE [m EXCEPT !.refs[x] = 0, !.ptr[x] = NoNode, !.dropped = m.ptr[x], !.bad = @ \/ m.refs[x] = 0]

\* intrusive_ptr{x, add_ref}.swap(*this): the temporary takes the old object with it.
SwapIn(m, i, x, add_ref) ==
  LET n == IF add_ref THEN intrusive_ptr_add_ref(m, x) ELSE m
  IN [n EXCEPT !.ptr[i] = x, !.dropped = m.ptr[i]]
detach(m, j) == [m EXCEPT !.ptr[j] = NoNode]

\* Mutant: the old object is released before the new one is counted.
ReleaseFirst(m, i, j) ==
  LET n == IF m.ptr[i] = NoNode THEN m ELSE intrusive_ptr_release(m, m.ptr[i])
  IN [intrusive_ptr_add_ref(n, m.ptr[j]) EXCEPT !.ptr[i] = m.ptr[j]]

copy_assign_intrusive(m, i, j) == IF i = j THEN m ELSE SwapIn(m, i, m.ptr[j], TRUE)
move_assign_intrusive(m, i, j) == IF i = j THEN m ELSE SwapIn(detach(m, j), i, m.ptr[j], FALSE)

\* A pointer can be used while it exists: a variable always, a member as long as its object.
Exists(i) == dropped = NoNode /\ (i \in Nodes => refs[i] > 0)
FinishIntrusive(m, taken) ==
  /\ iptr' = m.ptr
  /\ refs' = m.refs
  /\ dropped' = m.dropped
  /\ iMisuse' = m.bad
  /\ bare' = taken

\* An object starts with one reference, owned by a raw pointer.
NewNode(x) ==
  /\ dropped = NoNode /\ refs[x] = 0 /\ bare[x] = 0
  /\ FinishIntrusive([Now EXCEPT !.refs[x] = 1], [bare EXCEPT ![x] = 1])
CopyAssignIntrusive(i, j) == Exists(i) /\ Exists(j) /\ FinishIntrusive(copy_assign_intrusive(Now, i, j), bare)
MoveAssignIntrusive(i, j) == Exists(i) /\ Exists(j) /\ FinishIntrusive(move_assign_intrusive(Now, i, j), bare)
\* The constructors, reset(ptr) and assignment of a pointer: add_ref is TRUE; reset(ptr, false) takes over a raw reference.
resetIntrusive(i, x, add_ref) ==
  /\ Exists(i)
  /\ IF x = NoNode THEN add_ref ELSE refs[x] > 0 /\ (~add_ref => bare[x] > 0)
  /\ FinishIntrusive(SwapIn(Now, i, x, add_ref), IF add_ref THEN bare ELSE [bare EXCEPT ![x] = @ - 1])
Detach(i) ==
  /\ Exists(i) /\ iptr[i] # NoNode /\ bare[iptr[i]] < MaxRefs
  /\ FinishIntrusive(detach(Now, i), [bare EXCEPT ![iptr[i]] = @ + 1])
SwapIntrusive(i, j) ==
  Exists(i) /\ Exists(j) /\ FinishIntrusive([Now EXCEPT !.ptr = [iptr EXCEPT ![i] = iptr[j], ![j] = iptr[i]]], bare)
DestroyIntrusive == dropped # NoNode /\ FinishIntrusive(intrusive_ptr_release(Now, dropped), bare)

IntrusiveNext ==
  \/ \E x \in Nodes : NewNode(x)
  \/ \E i \in Holders :
       \/ Detach(i)
       \/ \E j \in Holders : CopyAssignIntrusive(i, j) \/ MoveAssignIntrusive(i, j) \/ SwapIntrusive(i, j)
       \/ \E x \in Nodes \union {NoNode}, add_ref \in BOOLEAN : resetIntrusive(i, x, add_ref)
  \/ DestroyIntrusive
IntrusiveSpec == IntrusiveInit /\ [][IntrusiveNext]_ivars

\* The count of an object is the number of pointers, variables and members of objects, that point at it, with the one that
\* is being destroyed, plus the references raw pointers own; no pointer outlives its object, even when p = p->next destroys
\* the object that holds the source of the assignment, and its member in turn another one.
IntrusiveCountsExact ==
  /\ ~iMisuse
  /\ \A x \in Nodes :
       refs[x] = Cardinality({i \in Holders : iptr[i] = x}) + (IF dropped = x THEN 1 ELSE 0) + bare[x]
=============================================================================
