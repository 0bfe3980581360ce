--------------------------------- MODULE Memory --------------------------------
(***************************************************************************)
(* The two ways to get memory: pages straight from alloc_pages (Pmm), and   *)
(* objects from kmalloc, which gets its pages from alloc_pages (Slob).     *)
(***************************************************************************)
EXTENDS Pmm

CONSTANTS PAGE_SIZE, SLOB_UNIT, BIGBLOCK,
          ObjSizes,    \* the sizes that kmalloc is asked for
          MaxObjects   \* bound on the objects at a time

ASSUME HeapAssumption ==
    /\ SLOB_UNIT \in Nat \ {0} /\ PAGE_SIZE \in Nat /\ PAGE_SIZE % SLOB_UNIT = 0
    /\ BIGBLOCK + SLOB_UNIT < PAGE_SIZE
    /\ ObjSizes \subseteq Nat \ {0}
    /\ FIRST > 0

VARIABLES h, objects,
          caller       \* who asks for memory, "pages" or "objects"

memvars == <<vars, h, objects, caller>>

H == INSTANCE Slob

(* kmalloc stands on the first-fit allocator. *)
MemoryInit ==
    /\ Init /\ H!Init
    /\ \/ caller = "pages"
       \/ caller = "objects" /\ pmm_manager = "first_fit"

kmalloc(size) == H!kmalloc(size) /\ UNCHANGED <<pmm_manager, caller>>
kfree(object) == H!kfree(object) /\ UNCHANGED <<pmm_manager, caller>>

MemoryNext ==
    \/ caller = "pages" /\ Next /\ UNCHANGED <<h, objects, caller>>
    \/ /\ caller = "objects"
       /\ \/ \E size \in ObjSizes : kmalloc(size)
          \/ \E object \in objects : kfree(object)

MemorySpec == MemoryInit /\ [][MemoryNext]_memvars

-----------------------------------------------------------------------------
(* Buddy system, SLUB and SLOB: whatever was allocated, freed and merged in  *)
(* whatever order, what is free and what is given away are all of memory,   *)
(* each page or unit once.  For kmalloc that says that no two objects       *)
(* overlap and that no unit of a page is lost when blocks are cut and       *)
(* joined.                                                                 *)
MemoryPartition == BlocksPartition /\ (caller = "objects" => H!HeapPartition)

(* The allocators keep what their users rely on: they give away only free  *)
(* pages; first fit and best fit the ones they say, and NULL only when no   *)
(* gap is long enough; SLUB NULL for a single page only when none is free.  *)
(* Of the buddy system's NULL nothing is promised (NrFreeIsFree).           *)
(* That is said of direct calls: one call of kmalloc may allocate twice.   *)
Direct == caller = "pages"
Pool == INSTANCE PagePool WITH
            free <- IF Direct THEN L!Free ELSE L!Page,
            given <- IF Direct THEN given ELSE {},
            ret <- IF Direct THEN ret ELSE NULL,
            policy <- pmm_manager

PoolSpec == Pool!Spec
=============================================================================
