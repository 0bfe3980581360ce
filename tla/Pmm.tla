---------------------------------- MODULE Pmm ----------------------------------
(***************************************************************************)
(* Physical memory (kern/mm/pmm.c): alloc_pages and free_pages, with        *)
(* interrupts disabled, call the allocator that pmm_manager points to since *)
(* init_pmm_manager.  page_init hands it one range of pages, which starts  *)
(* behind the kernel.                                                      *)
(***************************************************************************)
EXTENDS Integers, Sequences, SequencesExt, FiniteSetsExt

CONSTANTS FIRST,     \* the first page behind the kernel
          NPAGE,     \* the number of pages, a page is its place in pages[]
          Sizes,     \* the block sizes the kernel asks for
          Managers,  \* the allocators: "first_fit", "best_fit", "buddy",
                     \* "slub"
          EXHAUST,   \* may a list lose its last page?
          MAX_ORDER, \* the order of the buddy system's largest block
          WIDTH,     \* bits of an unsigned int
          NULL

ASSUME PoolAssumption ==
    /\ FIRST \in Nat /\ NPAGE \in Nat /\ FIRST < NPAGE
    /\ Sizes \subseteq 1 .. NPAGE - FIRST
    /\ NULL \notin 0 .. NPAGE
    /\ MAX_ORDER \in Nat /\ NPAGE % 2^MAX_ORDER = 0
    /\ WIDTH \in Nat /\ NPAGE < 2^WIDTH
    /\ Managers \subseteq {"first_fit", "best_fit", "buddy", "slub"}

VARIABLES f,           \* free_area, and the fields of struct Page
          given,       \* the allocated blocks <<first page, number of pages>>
          ret,         \* what alloc_pages returned, NULL after free_pages
          panic,       \* an assertion has failed
          pmm_manager

vars == <<f, given, ret, panic, pmm_manager>>

L == INSTANCE FreeList
B == INSTANCE Buddy
U == INSTANCE Slub

ListManagers == {"first_fit", "best_fit"}

Init ==
    /\ pmm_manager \in Managers
    /\ CASE pmm_manager \in ListManagers -> L!Init
         [] pmm_manager = "buddy" -> B!Init
         [] pmm_manager = "slub" -> U!Init

alloc_pages(n) ==
    /\ \/ pmm_manager \in ListManagers /\ L!alloc_pages(n)
       \/ pmm_manager = "buddy" /\ B!alloc_pages(n)
       \/ pmm_manager = "slub" /\ U!alloc_pages(n)
    /\ UNCHANGED pmm_manager

free_pages(base, n) ==
    /\ \/ pmm_manager \in ListManagers /\ L!free_pages(base, n)
       \/ pmm_manager = "buddy" /\ B!free_pages(base, n)
       \/ pmm_manager = "slub" /\ U!free_pages(base, n)
    /\ UNCHANGED pmm_manager

Next ==
    \/ \E n \in Sizes : alloc_pages(n)
    \/ \E b \in given : free_pages(b[1], b[2])

Spec == Init /\ [][Next]_vars

-----------------------------------------------------------------------------
(* First fit and best fit: the list is linked both ways and names every     *)
(* free page once, in ascending blocks that do not touch; flags and nr_free *)
(* agree with it.                                                          *)
BlocksAreGaps == pmm_manager \in ListManagers => L!LinkedBothWays /\ L!BlocksAreGaps

(* Buddy system and SLUB: blocks on the lists and blocks given away are all *)
(* of memory, each page once, and a stale flag of a merged page is never   *)
(* believed.                                                               *)
BlocksPartition ==
    /\ pmm_manager = "buddy" => B!BlocksPartition
    /\ pmm_manager = "slub" => U!BlocksPartition

(* Buddy system: two buddies are never both free and apart. *)
BuddiesMerged == pmm_manager = "buddy" => B!BuddiesMerged

(* default_check of the list: every block on it is marked as free, and     *)
(* together they have nr_free pages.                                       *)
ListIsFree == pmm_manager \in ListManagers => L!ListIsFree

(* What the check of the buddy system asserts, and pmm.h says of            *)
(* nr_free_pages: nr_free is the number of free pages.  alloc_pages refuses *)
(* what is larger.                                                         *)
NrFreeIsFree == f.nr_free = Cardinality(L!Free)
=============================================================================
