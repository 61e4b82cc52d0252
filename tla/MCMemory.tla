------------------------------ MODULE MCMemory ------------------------------
(***************************************************************************)
(* The owners of memory: the lock-free node allocator, unique_ptr,         *)
(* shared_ptr and weak_ptr, intrusive_ptr and optional.  A behaviour is of *)
(* one part; the variables of the others keep a first value.  The node     *)
(* allocator serves two threads over three blocks, whose owners write junk *)
(* or the address of a block; two blocks are in the list at the start.     *)
(***************************************************************************)
EXTENDS NodeAllocator, UniquePtr, IntrusivePtr, Optional, SharedPtr, TLC

CONSTANTS t1, t2, b1, b2, b3, junk

MCThreads == {t1, t2}
MCBlocks == {b1, b2, b3}
MCData == {junk, b1}
-----------------------------------------------------------------------------
VARIABLE part

ASSUME SharedPtrAssumption

nodeVars == <<heap, top, word, held, apc, old, link, block, free>>
uniqueVars == <<uptr, fate, madeFor, loose, uMisuse>>
allVars == <<part, ivars, ovars, nodeVars, uniqueVars, sharedVars>>

AnyDeleter == CHOOSE d \in Deleters : TRUE

MCSymmetry == Permutations(MCThreads) \union Permutations(Shared) \union Permutations(Counters)

AllInit ==
  /\ part \in {"nodes", "unique", "intrusive", "optional", "shared"}
  /\ Init /\ UniqueInit /\ IntrusiveInit /\ OptionalInit /\ SharedInit
  /\ part = "nodes" \/ (free = <<b1, b2>> /\ word = [b \in Blocks |-> IF b = b1 THEN b2 ELSE Null])
  /\ part = "unique" \/ ((\A u \in Uniques : uptr[u].d = AnyDeleter) /\ madeFor = [x \in UObjects |-> AnyDeleter])
  /\ part = "optional" \/ trivial = FALSE
  /\ part = "shared" \/ crew = MCThreads

AllNext ==
  \/ part = "nodes" /\ Next /\ UNCHANGED <<part, ivars, ovars, uniqueVars, sharedVars>>
  \/ part = "unique" /\ UniqueNext /\ UNCHANGED <<part, nodeVars, ivars, ovars, sharedVars>>
  \/ part = "intrusive" /\ IntrusiveNext /\ UNCHANGED <<part, nodeVars, ovars, uniqueVars, sharedVars>>
  \/ part = "optional" /\ OptionalNext /\ UNCHANGED <<part, nodeVars, ivars, uniqueVars, sharedVars>>
  \/ part = "shared" /\ SharedNext /\ UNCHANGED <<part, nodeVars, ivars, uniqueVars, ovars>>

AllSpec == AllInit /\ [][AllNext]_allVars
=============================================================================
