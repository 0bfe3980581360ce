---------------------------------- MODULE Slob ---------------------------------
(***************************************************************************)
(* kmalloc and kfree (kern/mm/kmalloc.c) on the first-fit page allocator:   *)
(* objects come from a circular list of blocks (SLOB), large ones are pages *)
(* of their own.                                                           *)
(*                                                                         *)
(* Memory is counted in units of SLOB_UNIT bytes; the address of a page is  *)
(* its number times the units of a page, and arena, a static variable of   *)
(* the kernel, lies below all pages.                                       *)
(*                                                                         *)
(*   h.next       block->next of the blocks on the list                    *)
(*   h.units      block->units of these, and in the header of every object *)
(*   h.slobfree   where the next search begins                             *)
(*   h.bigblocks  the list bigblocks, as [at, page, order]                 *)
(*                                                                         *)
(* A function of kmalloc.c takes and returns a record u of f, given and h,  *)
(* with u.at for the address it returns.                                   *)
(***************************************************************************)
EXTENDS Integers, Sequences, SequencesExt, FiniteSetsExt

CONSTANTS FIRST, NPAGE, EXHAUST, NULL,
          PAGE_SIZE, SLOB_UNIT,
          BIGBLOCK,    \* sizeof(bigblock_t)
          ObjSizes,    \* the sizes that kmalloc is asked for
          MaxObjects   \* bound on the objects at a time

VARIABLES f, given, ret, panic, pmm_manager,
          h,
          objects      \* the callers' side: [at, size] of every object

P == INSTANCE FreeList

SLOB_UNITS(size) == (size + SLOB_UNIT - 1) \div SLOB_UNIT
PageUnits == PAGE_SIZE \div SLOB_UNIT
arena == 0
Span(at, units) == at .. at + units - 1

Init ==
    /\ h = [next |-> [a \in {arena} |-> arena], units |-> [a \in {arena} |-> 1],
            slobfree |-> arena, bigblocks |-> <<>>]
    /\ objects = {}

Now == [f |-> f, given |-> given, h |-> h, at |-> NULL]

get_free_pages(u, order) ==
    LET n == 2^order
        page == P!FirstPage(u.f, n)
    IN  IF P!Found(u.f, n)
          THEN [u EXCEPT !.f = P!Cut(u.f, page, n), !.given = @ \cup {<<page, n>>},
                         !.at = page * PageUnits]
          ELSE [u EXCEPT !.at = NULL]

-----------------------------------------------------------------------------
(* The list from slobfree on, round to slobfree again. *)
Round(v) ==
    LET n == Cardinality(DOMAIN v.next)
        at[i \in 0 .. n] == IF i = 0 THEN v.slobfree ELSE v.next[at[i - 1]]
    IN  [i \in 1 .. n + 1 |-> at[i - 1]]

Without(g, a) == [x \in DOMAIN g \ {a} |-> g[x]]

(* slob_free: b, whose units are known, goes behind the last block below it, *)
(* or at the place where the list jumps back, and is joined with the blocks  *)
(* on both sides that it touches.                                          *)
Behind(v, b) ==
    LET IsPlace(c) ==
          \/ c < b /\ b < v.next[c]
          \/ v.next[c] <= c /\ (c < b \/ b < v.next[c])
    IN  Round(v)[SelectInSeq(Round(v), IsPlace)]

Touches(v, a, b) == a + v.units[a] = b

(* The list with b between cur and nxt. *)
Linked(v, cur, b, nxt) ==
    LET up == Touches(v, b, nxt)
        down == Touches(v, cur, b)
        head == IF down THEN cur ELSE b
        gone == (IF up THEN {nxt} ELSE {}) \cup (IF down THEN {b} ELSE {})
        length == v.units[b] + (IF up THEN v.units[nxt] ELSE 0) + (IF down THEN v.units[cur] ELSE 0)
        after == IF up THEN v.next[nxt] ELSE nxt
    IN  [v EXCEPT
           !.next = [a \in (DOMAIN @ \cup {b}) \ gone |->
                       IF a = head THEN after ELSE IF a = cur THEN b ELSE v.next[a]],
           !.units = [a \in DOMAIN @ \ gone |-> IF a = head THEN length ELSE v.units[a]],
           !.slobfree = cur]

slob_free(v, b) == Linked(v, Behind(v, b), b, v.next[Behind(v, b)])

slob_free_sized(v, b, size) == slob_free([v EXCEPT !.units = (b :> SLOB_UNITS(size)) @@ @], b)

-----------------------------------------------------------------------------
(* slob_alloc: the first block behind slobfree that is large enough gives   *)
(* its front; when there is none the list gets another page (Grown), if    *)
(* there is one.                                                           *)
Fit(v, units) == SelectInSeq(Tail(Round(v)), LAMBDA c : v.units[c] >= units)

Grown(u, units) ==
    LET g == get_free_pages(u, 0)
    IN  IF Fit(u.h, units) # 0 \/ g.at = NULL THEN u
        ELSE [g EXCEPT !.h = slob_free_sized(u.h, g.at, PAGE_SIZE)]

(* The front of cur, of which rest stays, behind prev. *)
Cut(v, prev, cur, rest, units) ==
    LET whole == v.units[cur] = units
    IN  [v EXCEPT
           !.next = [a \in (DOMAIN @ \ {cur}) \cup (IF whole THEN {} ELSE {rest}) |->
                       IF a = prev THEN (IF whole THEN v.next[cur] ELSE rest)
                       ELSE IF a = rest /\ ~whole THEN v.next[cur] ELSE v.next[a]],
           !.units = IF whole THEN @
                     ELSE (rest :> v.units[cur] - units) @@ (cur :> units) @@ @,
           !.slobfree = prev]

Taken(u, units) ==
    LET i == Fit(u.h, units)
        cur == Round(u.h)[i + 1]
    IN  IF i = 0 THEN [u EXCEPT !.at = NULL]
        ELSE [u EXCEPT !.h = Cut(@, Round(@)[i], cur, cur + units, units), !.at = cur]

-----------------------------------------------------------------------------
(* __kmalloc *)
find_order(size) == Min({order \in 0 .. size : size \div 2^order <= PAGE_SIZE})

Return(u, size) ==
    /\ f' = u.f /\ given' = u.given /\ h' = u.h
    /\ objects' = IF u.at = NULL THEN objects ELSE objects \cup {[at |-> u.at, size |-> size]}
    /\ UNCHANGED <<ret, panic>>

(* An object behind its header; slob_alloc asserts that a page has more room *)
(* than the two.                                                           *)
kmalloc_small(size) ==
    LET units == SLOB_UNITS(size + SLOB_UNIT) IN
    IF size + 2 * SLOB_UNIT >= PAGE_SIZE
      THEN panic' = TRUE /\ UNCHANGED <<f, given, h, ret, objects>>
      ELSE \E w \in {Grown(Now, units)} : \E u \in {Taken(w, units)} :
             Return([u EXCEPT !.at = IF @ = NULL THEN @ ELSE @ + 1], size)

(* Pages, and a bigblock_t, which goes back when there are no such pages.   *)
WithPages_Leaks(bb, g, order) ==
    LET entry == [at |-> bb.at, page |-> g.at \div PageUnits, order |-> order]
    IN  IF bb.at = NULL \/ g.at = NULL THEN g
        ELSE [g EXCEPT !.h = [bb.h EXCEPT !.bigblocks = <<entry>> \o @,
                                          !.units = Without(@, bb.at)]]

WithPages(bb, g, order) ==
    LET entry == [at |-> bb.at, page |-> g.at \div PageUnits, order |-> order]
    IN  IF bb.at = NULL THEN bb
        ELSE IF g.at = NULL THEN [g EXCEPT !.h = slob_free_sized(bb.h, bb.at, BIGBLOCK)]
        ELSE [g EXCEPT !.h = [bb.h EXCEPT !.bigblocks = <<entry>> \o @,
                                          !.units = Without(@, bb.at)]]

kmalloc_big(size) ==
    LET units == SLOB_UNITS(BIGBLOCK) IN
    \E w \in {Grown(Now, units)} : \E bb \in {Taken(w, units)} :
      \E g \in {get_free_pages(bb, find_order(size))} :
        Return(WithPages(bb, g, find_order(size)), size)

kmalloc(size) ==
    /\ ~panic
    /\ Cardinality(objects) < MaxObjects
    /\ IF size < PAGE_SIZE - SLOB_UNIT THEN kmalloc_small(size) ELSE kmalloc_big(size)
    /\ EXHAUST \/ \A b \in given' : b[1] + b[2] < NPAGE

(* Only a block at the start of a page can be on the list bigblocks.       *)
kfree(object) ==
    LET page == object.at \div PageUnits
        i == IF object.at % PageUnits = 0
               THEN SelectInSeq(h.bigblocks, LAMBDA bb : bb.page = page) ELSE 0
        bb == h.bigblocks[i]
        n == 2^bb.order
    IN  /\ ~panic
        /\ objects' = objects \ {object}
        /\ UNCHANGED ret
        /\ \/ /\ i = 0
              /\ h' = slob_free(h, object.at - 1)
              /\ UNCHANGED <<f, given, panic>>
           \/ /\ i # 0
              /\ h' = slob_free_sized([h EXCEPT !.bigblocks = RemoveAt(@, i)], bb.at, BIGBLOCK)
              /\ IF P!MayFree(f, page, n)
                   THEN /\ f' = P!Freed(f, page, n)
                        /\ given' = given \ {<<page, n>>}
                        /\ UNCHANGED panic
                   ELSE panic' = TRUE /\ UNCHANGED <<f, given>>

-----------------------------------------------------------------------------
(* What the pages of the heap are made of: the blocks of the list, the      *)
(* objects with their headers, the entries of bigblocks.                   *)
BigPages == {<<bb.page, 2^bb.order>> : bb \in ToSet(h.bigblocks)}
HeapPages == given \ BigPages
IsBig(o) == \E bb \in ToSet(h.bigblocks) : bb.page * PageUnits = o.at

FreeSpans == {<<a, h.units[a]>> : a \in DOMAIN h.next \ {arena}}
UsedSpans == {<<o.at - 1, h.units[o.at - 1]>> : o \in {x \in objects : ~IsBig(x)}}
BigSpans == {<<bb.at, SLOB_UNITS(BIGBLOCK)>> : bb \in ToSet(h.bigblocks)}
Spans == FreeSpans \cup UsedSpans \cup BigSpans

(* Every unit of every page of the heap is in exactly one of them, an       *)
(* object is as long as it was asked for, and the free ones are linked in   *)
(* one circle upwards from arena and do not touch.                         *)
HeapPartition ==
    /\ UNION {Span(s[1], s[2]) : s \in Spans} =
         UNION {Span(b[1] * PageUnits, b[2] * PageUnits) : b \in HeapPages}
    /\ \A s, t \in Spans : s # t => Span(s[1], s[2]) \cap Span(t[1], t[2]) = {}
    /\ BigPages \subseteq given
    /\ {o.at : o \in {x \in objects : IsBig(x)}} = {b[1] * PageUnits : b \in BigPages}
    /\ \A o \in objects :
         \/ ~IsBig(o) /\ o.size + SLOB_UNIT <= h.units[o.at - 1] * SLOB_UNIT
         \/ \E bb \in ToSet(h.bigblocks) :
              bb.page * PageUnits = o.at /\ o.size <= 2^bb.order * PAGE_SIZE
    /\ \A a \in DOMAIN h.next :
         LET above == {c \in DOMAIN h.next : c > a}
         IN  /\ h.next[a] = IF above = {} THEN arena ELSE Min(above)
             /\ a + h.units[a] # h.next[a]
    /\ h.slobfree \in DOMAIN h.next
=============================================================================
