-------------------------------- MODULE FreeList -------------------------------
(***************************************************************************)
(* The first-fit page allocator (kern/mm/default_pmm.c) and the best-fit   *)
(* one of Lab2 (best_fit_pmm.c), which differs in the choice of the block; *)
(* pmm_manager says which one it is.                                       *)
(* The free list is the doubly linked list the code keeps in struct Page:  *)
(*                                                                         *)
(*   f.nxt, f.prv   page_link of every page, and of free_list itself       *)
(*   f.property     page->property                                         *)
(*   f.flag         the pages with PageProperty                            *)
(*   f.nr_free      nr_free                                                *)
(*                                                                         *)
(* alloc_pages and free_pages run with interrupts disabled: one step each. *)
(***************************************************************************)
EXTENDS Integers, Sequences, SequencesExt, FiniteSetsExt

CONSTANTS FIRST,     \* the first page that is handed to init_memmap
          NPAGE,     \* the number of pages, those before FIRST included
          EXHAUST,   \* may the last page be allocated?
          NULL

VARIABLES f, given, ret, panic, pmm_manager

Page == FIRST .. NPAGE - 1
free_list == -1
Node == Page \cup {free_list}

-----------------------------------------------------------------------------
(* libs/list.h *)
list_link(v, elm, prev, next) ==
    [v EXCEPT !.nxt = [[@ EXCEPT ![prev] = elm] EXCEPT ![elm] = next],
              !.prv = [[@ EXCEPT ![next] = elm] EXCEPT ![elm] = prev]]

list_add(v, at, elm) == list_link(v, elm, at, v.nxt[at])
list_add_before(v, at, elm) == list_link(v, elm, v.prv[at], at)

list_del(v, elm) ==
    [v EXCEPT !.nxt[v.prv[elm]] = v.nxt[elm], !.prv[v.nxt[elm]] = v.prv[elm]]

(* The nodes that a loop over list_next meets until it is back at free_list. *)
Walk(v) ==
    LET from(p) == IF p = free_list THEN p ELSE v.nxt[p]
        at[k \in 0 .. NPAGE] == IF k = 0 THEN v.nxt[free_list] ELSE from(at[k - 1])
    IN  SelectSeq([k \in 1 .. NPAGE |-> at[k - 1]], LAMBDA p : p # free_list)

-----------------------------------------------------------------------------
(* default_init_memmap of all pages, into the empty list. *)
Init ==
    /\ f = [nxt |-> [x \in Node |-> IF x = free_list THEN FIRST ELSE free_list],
            prv |-> [x \in Node |-> IF x = free_list THEN FIRST ELSE free_list],
            property |-> [p \in Page |-> IF p = FIRST THEN NPAGE - FIRST ELSE 0],
            flag |-> {FIRST},
            nr_free |-> NPAGE - FIRST]
    /\ given = {}
    /\ ret = NULL
    /\ panic = FALSE

(* The blocks that are long enough, in the order of the list.  best_fit    *)
(* starts with min_size = nr_free + 1 and replaces its choice by smaller ones *)
(* only.                                                                   *)
Fits(v, n) == SelectSeq(Walk(v), LAMBDA p : v.property[p] >= n)

Tightest(v, s) ==
    LET shortest == Min({v.nr_free + 1} \cup {v.property[p] : p \in ToSet(s)})
    IN  SelectSeq(s, LAMBDA p : v.property[p] <= v.nr_free /\ v.property[p] = shortest)

Candidates_Last(v, n) ==
    Reverse(IF pmm_manager = "best_fit" THEN Tightest(v, Fits(v, n)) ELSE Fits(v, n))
Candidates(v, n) ==
    IF pmm_manager = "best_fit" THEN Tightest(v, Fits(v, n)) ELSE Fits(v, n)

(* Takes n pages off the front of the block page. *)
Cut(v, page, n) ==
    LET prev == v.prv[page]
        w == list_del(v, page)
        rest == list_add([w EXCEPT !.property[page + n] = v.property[page] - n,
                                   !.flag = @ \cup {page + n}], prev, page + n)
        x == IF v.property[page] > n THEN rest ELSE w
    IN  [x EXCEPT !.nr_free = @ - n, !.flag = @ \ {page}]

(* default_alloc_pages, best_fit_alloc_pages *)
Found(v, n) == n <= v.nr_free /\ Candidates(v, n) # <<>>
FirstPage(v, n) == Head(Candidates(v, n))

alloc_pages(n) ==
    /\ ~panic
    /\ \/ /\ ~Found(f, n)
          /\ ret' = NULL
          /\ UNCHANGED <<f, given>>
       \/ /\ Found(f, n)
          /\ ret' = FirstPage(f, n)
          /\ EXHAUST \/ ret' + n < NPAGE
          /\ f' = Cut(f, ret', n)
          /\ given' = given \cup {<<ret', n>>}
    /\ UNCHANGED panic

-----------------------------------------------------------------------------
(* default_free_pages puts base in front of the first larger page.  Behind *)
(* the last page the loop goes on and meets the new node itself as the last. *)
insert(v, base) ==
    LET w == Walk(v)
        larger == {i \in DOMAIN w : base < w[i]}
        last == list_add(v, Last(w), base)
    IN  IF w = <<>> THEN list_add(v, free_list, base)
        ELSE IF larger # {} THEN list_add_before(v, w[Min(larger)], base)
        ELSE IF Last(w) = base THEN last
        ELSE list_add(last, base, base)

(* p takes in its neighbour q. *)
Joined(v, p, q) ==
    list_del([v EXCEPT !.property[p] = @ + v.property[q], !.flag = @ \ {q}], q)
Joins(v, p, q) == p # free_list /\ q # free_list /\ p + v.property[p] = q

merge_LowOnly(v, base) ==
    IF Joins(v, v.prv[base], base) THEN Joined(v, v.prv[base], base) ELSE v

merge(v, base) ==
    LET low == v.prv[base]
        w == IF Joins(v, low, base) THEN Joined(v, low, base) ELSE v
        b == IF Joins(v, low, base) THEN low ELSE base
    IN  IF Joins(w, b, w.nxt[b]) THEN Joined(w, b, w.nxt[b]) ELSE w

(* default_free_pages, best_fit_free_pages; the assertion is the one at its   *)
(* head, a page that heads a free block must not be freed.                 *)
MayFree(v, base, n) == \A p \in base .. base + n - 1 : p \notin v.flag
Freed(v, base, n) ==
    merge(insert([v EXCEPT !.property[base] = n, !.flag = @ \cup {base}, !.nr_free = @ + n],
                 base), base)

free_pages(base, n) ==
    /\ ~panic
    /\ IF MayFree(f, base, n)
         THEN /\ f' = Freed(f, base, n)
              /\ given' = given \ {<<base, n>>}
              /\ UNCHANGED panic
         ELSE panic' = TRUE /\ UNCHANGED <<f, given>>
    /\ ret' = NULL

-----------------------------------------------------------------------------
Pages(b) == b[1] .. b[1] + b[2] - 1
Free == Page \ UNION {Pages(b) : b \in given}
Gaps(F) == {b \in Page \X (1 .. NPAGE) :
              Pages(b) \subseteq F /\ b[1] - 1 \notin F /\ b[1] + b[2] \notin F}

(* Backwards the list is what it is forwards: free_pages looks for the lower  *)
(* neighbour with list_prev, and alloc_pages puts the rest of a block behind *)
(* list_prev.                                                              *)
LinkedBothWays ==
    LET w == Walk(f)
    IN  /\ f.prv[free_list] = IF w = <<>> THEN free_list ELSE Last(w)
        /\ \A i \in DOMAIN w : f.prv[w[i]] = IF i = 1 THEN free_list ELSE w[i - 1]

(* The list names every free page once, in ascending blocks that do not    *)
(* touch, PageProperty marks their heads and no other page, and nr_free is *)
(* the number of free pages.                                               *)
BlocksAreGaps ==
    LET w == Walk(f)
    IN  /\ \A i, j \in DOMAIN w : i < j => w[i] < w[j]
        /\ {<<p, f.property[p]>> : p \in ToSet(w)} = Gaps(Free)
        /\ f.flag = ToSet(w)
        /\ f.nr_free = Cardinality(Free)

(* What default_check says of the list: every block on it is marked as free,  *)
(* and together they have nr_free pages.                                   *)
ListIsFree ==
    /\ ToSet(Walk(f)) \subseteq f.flag
    /\ FoldSet(LAMBDA p, sum : sum + f.property[p], 0, ToSet(Walk(f))) = f.nr_free
=============================================================================
