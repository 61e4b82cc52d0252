----------------------------- MODULE UniquePtr -----------------------------
(***************************************************************************)
(* ktl::unique_ptr (include/smart_pointer.hpp): each object is made for    *)
(* one deleter, which travels with the pointer that owns the object.       *)
(***************************************************************************)
CONSTANTS Uniques, UObjects, Deleters, NoObject

ASSUME NoObjectAssumption == NoObject \notin UObjects

VARIABLES
  uptr,     \* uptr[u]: pointer and deleter, the compressed pair
  fate,     \* of each object: "none", "live" or "gone"
  madeFor,  \* the deleter each object needs
  loose,    \* the objects that were released to raw pointers
  uMisuse   \* an object was deleted twice, or by a deleter of another kind

uvars == <<uptr, fate, madeFor, loose, uMisuse>>

UniqueInit ==
  /\ uptr \in [Uniques -> [p : {NoObject}, d : Deleters]]
  /\ fate = [x \in UObjects |-> "none"]
  /\ madeFor \in [UObjects -> Deleters]
  /\ loose = {}
  /\ uMisuse = FALSE

\* A deleter called with nullptr does nothing; reset skips the call when the deleter does not allow it.
Delete(d, x) ==
  /\ fate' = IF x = NoObject THEN fate ELSE [fate EXCEPT ![x] = "gone"]
  /\ uMisuse' = (uMisuse \/ (x # NoObject /\ (fate[x] # "live" \/ madeFor[x] # d)))

\* new, and a raw pointer to it.
NewObject(x) ==
  /\ fate[x] = "none"
  /\ fate' = [fate EXCEPT ![x] = "live"]
  /\ loose' = loose \union {x}
  /\ UNCHANGED <<uptr, madeFor, uMisuse>>

\* The constructors from a pointer and a deleter, of a variable that holds nothing.
ConstructUnique(u, x) ==
  /\ uptr[u].p = NoObject /\ x \in loose
  /\ uptr' = [uptr EXCEPT ![u] = [p |-> x, d |-> madeFor[x]]]
  /\ loose' = loose \ {x}
  /\ UNCHANGED <<fate, madeFor, uMisuse>>

\* The temporary of make_unique owns the object at once; a constructor that throws leaves nothing.
make_unique(u, x) ==
  /\ uptr[u].p = NoObject /\ fate[x] = "none"
  /\ fate' = [fate EXCEPT ![x] = "live"]
  /\ uptr' = [uptr EXCEPT ![u] = [p |-> x, d |-> madeFor[x]]]
  /\ UNCHANGED <<madeFor, loose, uMisuse>>

MoveConstructUnique(u, w) ==
  /\ u # w /\ uptr[u].p = NoObject
  /\ uptr' = [uptr EXCEPT ![u] = uptr[w], ![w].p = NoObject]
  /\ UNCHANGED <<fate, madeFor, loose, uMisuse>>

\* Mutant: the deleter is taken before the old object is deleted.
MoveAssignDeleterFirst(u, w) ==
  /\ u # w
  /\ uptr' = [uptr EXCEPT ![u] = uptr[w], ![w].p = NoObject]
  /\ Delete(uptr[w].d, uptr[u].p)
  /\ UNCHANGED <<madeFor, loose>>

\* reset(other.release()) with the own deleter, then the deleter of the other one.
MoveAssignUnique(u, w) ==
  /\ u # w
  /\ uptr' = [uptr EXCEPT ![u] = uptr[w], ![w].p = NoObject]
  /\ Delete(uptr[u].d, uptr[u].p)
  /\ UNCHANGED <<madeFor, loose>>

release(u) ==
  /\ uptr[u].p # NoObject
  /\ uptr' = [uptr EXCEPT ![u].p = NoObject]
  /\ loose' = loose \union {uptr[u].p}
  /\ UNCHANGED <<fate, madeFor, uMisuse>>

\* reset(ptr), reset() and the destructor: the pointer is replaced first, then the old object deleted.
resetUnique(u, x) ==
  /\ x # NoObject => x \in loose /\ madeFor[x] = uptr[u].d
  /\ uptr' = [uptr EXCEPT ![u].p = x]
  /\ Delete(uptr[u].d, uptr[u].p)
  /\ loose' = loose \ {x}
  /\ UNCHANGED madeFor

UniqueStep(u) ==
  \/ release(u)
  \/ \E x \in UObjects : ConstructUnique(u, x) \/ make_unique(u, x)
  \/ \E x \in UObjects \union {NoObject} : resetUnique(u, x)
  \/ \E w \in Uniques : MoveConstructUnique(u, w) \/ MoveAssignUnique(u, w)

UniqueNext == (\E x \in UObjects : NewObject(x)) \/ (\E u \in Uniques : UniqueStep(u))

UniqueSpec == UniqueInit /\ [][UniqueNext]_uvars

----------------------------------------------------------------------------
UniqueTypeOK ==
  /\ uptr \in [Uniques -> [p : UObjects \union {NoObject}, d : Deleters]]
  /\ fate \in [UObjects -> {"none", "live", "gone"}]
  /\ madeFor \in [UObjects -> Deleters]
  /\ loose \subseteq UObjects
  /\ uMisuse \in BOOLEAN

\* An object that exists has exactly one owner, a unique_ptr or the raw pointer it was released to; the owner has the
\* deleter the object was made for, also after the deleters of two pointers were exchanged by assignments; an object
\* goes once, and by that deleter.
OneOwner ==
  /\ ~uMisuse
  /\ \A x \in UObjects : fate[x] = "live" <=> (x \in loose \/ \E u \in Uniques : uptr[u].p = x)
  /\ \A u \in Uniques :
       uptr[u].p # NoObject =>
         /\ uptr[u].p \notin loose
         /\ uptr[u].d = madeFor[uptr[u].p]
         /\ \A w \in Uniques : u # w => uptr[u].p # uptr[w].p
============================================================================
