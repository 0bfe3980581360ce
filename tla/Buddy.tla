--------------------------------- MODULE Buddy ---------------------------------
(***************************************************************************)
(* The buddy system of Lab2 (kern/mm/buddy_pmm.c).                         *)
(*                                                                         *)
(*   f.lists     buddy_free_lists, f.count buddy_nr_free, for every order  *)
(*   f.order     page->property, the order of the block that a page heads  *)
(*   f.flag      the pages with PageProperty                               *)
(*   f.nr_free   nr_free, an unsigned number of WIDTH bits                 *)
(*                                                                         *)
(* Buddies are found by the place of a page in pages[], whatever page the  *)
(* memory starts with.  The array is as long as a multiple of the largest  *)
(* block (all memory, the kernel's part included), so a buddy exists.      *)
(***************************************************************************)
EXTENDS Integers, Sequences, SequencesExt, FiniteSetsExt

CONSTANTS FIRST,     \* the first page that is handed to init_memmap
          NPAGE,     \* the number of pages, those before FIRST included
          MAX_ORDER, \* the order of the largest block
          WIDTH,     \* bits of an unsigned int
          NULL

VARIABLES f, given, ret, panic

Page == FIRST .. NPAGE - 1
Order == 0 .. MAX_ORDER

log2_ceil(n) == Min({o \in 0 .. n : 2^o >= n})
Block(p, o) == p .. p + 2^o - 1

get_buddy(p, o) == IF (p \div 2^o) % 2 = 0 THEN p + 2^o ELSE p - 2^o

-----------------------------------------------------------------------------
(* buddy_init_memmap cuts off the largest block that still fits, again and *)
(* again: how many pages are in blocks after i of them.                    *)
Cuts(n) ==
    LET done[i \in 0 .. n] ==
          IF i = 0 THEN 0
          ELSE LET rest == n - done[i - 1]
               IN  IF rest = 0 THEN n
                   ELSE done[i - 1] + 2^Max({o \in Order : 2^o <= rest})
    IN  [i \in 1 .. n |-> <<done[i - 1], done[i] - done[i - 1]>>]

(* The heads of the blocks of order o, the last one first. *)
InitialList(o) ==
    Reverse([i \in 1 .. Len(SelectSeq(Cuts(NPAGE - FIRST), LAMBDA c : c[2] = 2^o)) |->
               FIRST + SelectSeq(Cuts(NPAGE - FIRST), LAMBDA c : c[2] = 2^o)[i][1]])

Init ==
    /\ f = [lists |-> [o \in Order |-> InitialList(o)],
            count |-> [o \in Order |-> Len(InitialList(o))],
            order |-> [p \in 0 .. NPAGE - 1 |->
                         IF \E o \in Order : p \in ToSet(InitialList(o))
                           THEN CHOOSE o \in Order : p \in ToSet(InitialList(o)) ELSE 0],
            flag |-> UNION {ToSet(InitialList(o)) : o \in Order},
            nr_free |-> NPAGE - FIRST]
    /\ given = {}
    /\ ret = NULL
    /\ panic = FALSE

(* set_page_order, set_page_freed, list_add, count and nr_free. *)
put(v, p, o) ==
    [v EXCEPT !.order[p] = o, !.flag = @ \cup {p},
              !.lists[o] = <<p>> \o @, !.count[o] = @ + 1]

(* The block p of order o is halved until the half that keeps p has the    *)
(* order wanted; each other half goes onto the list of its order.          *)
split(v, p, o, wanted) ==
    FoldLeft(LAMBDA w, i : put(w, p + 2^(o - i), o - i), v, [i \in 1 .. o - wanted |-> i])

(* buddy_alloc_pages *)
FirstOrder(v, wanted) == {o \in wanted .. MAX_ORDER : v.count[o] > 0}

alloc_pages(n) ==
    LET wanted == log2_ceil(n) IN
    /\ ~panic
    /\ \/ /\ n > f.nr_free \/ FirstOrder(f, wanted) = {}
          /\ ret' = NULL
          /\ UNCHANGED <<f, given>>
       \/ /\ n <= f.nr_free /\ FirstOrder(f, wanted) # {}
          /\ LET o == Min(FirstOrder(f, wanted))
                 page == Head(f.lists[o])
                 taken == [f EXCEPT !.lists[o] = Tail(@), !.count[o] = @ - 1]
             IN  /\ f' = [split(taken, page, o, wanted) EXCEPT
                            !.order[page] = wanted, !.flag = @ \ {page},
                            !.nr_free = (@ - 2^wanted) % 2^WIDTH]
                 /\ given' = given \cup {<<page, n>>}
                 /\ ret' = page
    /\ UNCHANGED panic

-----------------------------------------------------------------------------
(* buddy_free_pages *)

is_continuous_buddies(p, q, o) == Min({p, q}) % 2^(o + 1) = 0

MayMerge(v, p, o) ==
    LET q == get_buddy(p, o)
    IN  q \in v.flag /\ v.order[q] = o /\ is_continuous_buddies(p, q, o)

(* The block base, in no list yet, with its free buddy.  Every merge takes *)
(* the buddy's pages off nr_free, where they were counted as free already. *)
Merged_KeepsBase(u, o) ==
    LET q == get_buddy(u.base, o)
    IN  [v |-> [u.v EXCEPT !.lists[o] = Remove(@, q), !.count[o] = @ - 1,
                           !.nr_free = (@ - 2^o) % 2^WIDTH],
         base |-> u.base, order |-> o + 1]

Merged(u, o) ==
    LET q == get_buddy(u.base, o)
    IN  [v |-> [u.v EXCEPT !.lists[o] = Remove(@, q), !.count[o] = @ - 1,
                           !.nr_free = (@ - 2^o) % 2^WIDTH],
         base |-> Min({u.base, q}), order |-> o + 1]

merge_Once(v, p, o) ==
    IF o < MAX_ORDER /\ MayMerge(v, p, o) THEN Merged([v |-> v, base |-> p, order |-> o], o)
    ELSE [v |-> v, base |-> p, order |-> o]

merge(v, p, o) ==
    LET at[i \in o .. MAX_ORDER] ==
          IF i = o THEN [v |-> v, base |-> p, order |-> o]
          ELSE LET u == at[i - 1]
               IN  IF u.order = i - 1 /\ MayMerge(u.v, u.base, i - 1) THEN Merged(u, i - 1) ELSE u
    IN  at[MAX_ORDER]

free_pages(base, n) ==
    /\ ~panic
    /\ IF 2^f.order[base] # n
         THEN panic' = TRUE /\ UNCHANGED <<f, given>>
         ELSE /\ LET u == merge([f EXCEPT !.flag = @ \cup {base},
                                          !.nr_free = (@ + n) % 2^WIDTH], base, f.order[base])
                     v == u.v
                 IN  f' = [v EXCEPT !.order[u.base] = u.order,
                                    !.lists[u.order] = <<u.base>> \o @,
                                    !.count[u.order] = @ + 1]
              /\ given' = given \ {<<base, n>>}
              /\ UNCHANGED panic
    /\ ret' = NULL

-----------------------------------------------------------------------------
(* The blocks on the lists and those given away are all of memory, each page *)
(* once; and a flag that a merge has left behind on an inner page is never *)
(* believed: the heads on the lists carry flag and order, and the heads of *)
(* blocks given away do not carry the flag.                                *)
Listed == {b \in Page \X Order : b[1] \in ToSet(f.lists[b[2]])}
GivenAway == {<<b[1], log2_ceil(b[2])>> : b \in given}

BlocksPartition ==
    /\ UNION {Block(b[1], b[2]) : b \in Listed \cup GivenAway} = Page
    /\ \A b, c \in Listed \cup GivenAway :
         b # c => Block(b[1], b[2]) \cap Block(c[1], c[2]) = {}
    /\ \A o \in Order : f.count[o] = Len(f.lists[o]) /\ IsInjective(f.lists[o])
    /\ \A b \in Listed : b[1] \in f.flag /\ f.order[b[1]] = b[2]
    /\ \A b \in GivenAway : b[1] \notin f.flag /\ f.order[b[1]] = b[2]

(* Two buddies are never both free and apart. *)
BuddiesMerged ==
    \A o \in 0 .. MAX_ORDER - 1 : \A p \in ToSet(f.lists[o]) :
      p % 2^(o + 1) = 0 => p + 2^o \notin ToSet(f.lists[o])
=============================================================================
