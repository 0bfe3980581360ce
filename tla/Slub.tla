---------------------------------- MODULE Slub ---------------------------------
(***************************************************************************)
(* The page allocator below the object caches of Lab2                      *)
(* (kern/mm/slub_pmm.c): every page is a block of its own to begin with,   *)
(* the list is in no order, and only a block that is freed is joined with  *)
(* its neighbours.  An object of a cache is a page.                        *)
(*                                                                         *)
(*   f.list      free_list                 f.property  page->property      *)
(*   f.flag      the pages with PageProperty                               *)
(*   f.nr_free   nr_free                                                   *)
(***************************************************************************)
EXTENDS Integers, Sequences, SequencesExt, FiniteSetsExt

CONSTANTS FIRST,     \* the first page that is handed to init_memmap
          NPAGE,     \* the number of pages, those before FIRST included
          NULL

VARIABLES f, given, ret, panic

Page == FIRST .. NPAGE - 1

(* slub_init_memmap *)
Init ==
    /\ f = [list |-> [i \in 1 .. NPAGE - FIRST |-> FIRST + i - 1],
            property |-> [p \in Page |-> 1],
            flag |-> Page,
            nr_free |-> NPAGE - FIRST]
    /\ given = {}
    /\ ret = NULL
    /\ panic = FALSE

(* The first block of the list that is long enough; what is left of it goes *)
(* to the head of the list.                                                *)
Fits(n) == SelectSeq(f.list, LAMBDA p : f.property[p] >= n)

Cut(page, n) ==
    LET taken == [f EXCEPT !.list = Remove(@, page), !.flag = @ \ {page}, !.nr_free = @ - n]
    IN  IF f.property[page] = n THEN taken
        ELSE [taken EXCEPT !.property[page + n] = f.property[page] - n,
                           !.flag = @ \cup {page + n}, !.list = <<page + n>> \o @]

(* slub_alloc_pages *)
alloc_pages(n) ==
    /\ ~panic
    /\ \/ /\ n > f.nr_free \/ Fits(n) = <<>>
          /\ ret' = NULL
          /\ UNCHANGED <<f, given>>
       \/ /\ n <= f.nr_free /\ Fits(n) # <<>>
          /\ ret' = Head(Fits(n))
          /\ f' = Cut(ret', n)
          /\ given' = given \cup {<<ret', n>>}
    /\ UNCHANGED panic

(* The block u.base, in no list yet, and the next block p of the list: one   *)
(* takes in the other when they touch.                                     *)
Joined(u, p) ==
    LET v == u.v
        base == u.base
        With(low, high) ==
            [v |-> [v EXCEPT !.property[low] = @ + v.property[high],
                             !.flag = @ \ {high}, !.list = Remove(@, p)],
             base |-> low]
    IN  IF base + v.property[base] = p THEN With(base, p)
        ELSE IF p + v.property[p] = base THEN With(p, base)
        ELSE u

(* slub_free_pages; the list is gone through once, as it was.              *)
free_pages(base, n) ==
    LET freed == [f EXCEPT !.property[base] = n, !.flag = @ \cup {base}, !.nr_free = @ + n]
        Add(u) == [u.v EXCEPT !.list = <<u.base>> \o @]
    IN  /\ ~panic
        /\ IF \E p \in base .. base + n - 1 : p \in f.flag
             THEN panic' = TRUE /\ UNCHANGED <<f, given>>
             ELSE /\ f' = Add(FoldLeft(Joined, [v |-> freed, base |-> base], f.list))
                  /\ given' = given \ {<<base, n>>}
                  /\ UNCHANGED panic
        /\ ret' = NULL

-----------------------------------------------------------------------------
Block(b) == b[1] .. b[1] + b[2] - 1
Listed == {<<p, f.property[p]>> : p \in ToSet(f.list)}

(* The blocks on the list and those given away are all of memory, each page *)
(* once, and the flags mark the heads of the free ones.                    *)
BlocksPartition ==
    /\ UNION {Block(b) : b \in Listed \cup given} = Page
    /\ \A b, c \in Listed \cup given : b # c => Block(b) \cap Block(c) = {}
    /\ IsInjective(f.list)
    /\ f.flag = ToSet(f.list)
    /\ f.nr_free = FoldSet(LAMBDA b, sum : sum + b[2], 0, Listed)
=============================================================================
