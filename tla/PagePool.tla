-------------------------------- MODULE PagePool -------------------------------
(***************************************************************************)
(* What the users of alloc_pages and free_pages rely on: a pool of pages   *)
(* from which contiguous pages are taken and given back.  The pages come   *)
(* from the first gap that is long enough, or (best fit) from the first of *)
(* the shortest ones, and NULL means that no gap is long enough.  With SLUB *)
(* and the buddy system they come from anywhere.  NULL means with SLUB that *)
(* no page is free or that more than one was asked for, since blocks are   *)
(* not always merged; with the buddy system it means nothing, because its  *)
(* count of free pages is too low after a merge (Pmm!NrFreeIsFree).         *)
(***************************************************************************)
EXTENDS Integers, FiniteSets

CONSTANTS FIRST, NPAGE, NULL

VARIABLES free,    \* the free pages
          given,   \* the allocated blocks <<first page, number of pages>>
          ret,     \* what alloc_pages returned, NULL after free_pages
          policy   \* "first_fit", "best_fit", "buddy" or "slub"

vars == <<free, given, ret, policy>>

Page == FIRST .. NPAGE - 1
Pages(b) == b[1] .. b[1] + b[2] - 1

(* The free pages in blocks, neighbours together. *)
Gaps(F) == {b \in Page \X (1 .. NPAGE) :
              Pages(b) \subseteq F /\ b[1] - 1 \notin F /\ b[1] + b[2] \notin F}

Fitting(n) == {g \in Gaps(free) : g[2] >= n}
Better(g, h) ==
    \/ policy = "best_fit" /\ g[2] < h[2]
    \/ (policy = "first_fit" \/ g[2] = h[2]) /\ g[1] <= h[1]

Init ==
    /\ free = Page /\ given = {} /\ ret = NULL
    /\ policy \in {"first_fit", "best_fit", "buddy", "slub"}

Anywhere == policy \in {"buddy", "slub"}

Chosen(p, n) ==
    \/ Anywhere /\ Pages(<<p, n>>) \subseteq free
    \/ LET fitting == Fitting(n)
       IN  \E g \in fitting : g[1] = p /\ \A h \in fitting : Better(g, h)

MayRefuse(n) ==
    \/ Fitting(n) = {}
    \/ policy = "slub" /\ n > 1
    \/ policy = "buddy"

Alloc(n) ==
    \/ /\ ret' = NULL
       /\ UNCHANGED <<free, given>>
       /\ MayRefuse(n)
    \/ \E p \in free :
         /\ ret' = p
         /\ given' = given \cup {<<p, n>>}
         /\ free' = free \ Pages(<<p, n>>)
         /\ Chosen(p, n)

Release(b) ==
    /\ given' = given \ {b}
    /\ free' = free \cup Pages(b)
    /\ ret' = NULL

Next ==
    /\ (\E n \in 1 .. NPAGE : Alloc(n)) \/ (\E b \in given : Release(b))
    /\ UNCHANGED policy

Spec == Init /\ [][Next]_vars
=============================================================================
