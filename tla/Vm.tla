----------------------------------- MODULE Vm -----------------------------------
(***************************************************************************)
(* Address spaces: kern/mm/vmm.c, the page tables of kern/mm/pmm.c and the *)
(* part of kern/process/proc.c that fills them.  No state of its own: the  *)
(* operators work on a record with the number of free pages, one address   *)
(* space and the pages that are out of reach for good,                     *)
(* w = [free, mm, leaked, ok, ret, panic].                                 *)
(*                                                                         *)
(*   mm.vma   mmap_list, a sequence of [start, end) in pages               *)
(*   mm.pte   the mapped pages and what is in them; nobody shares a page   *)
(*            (CLONE_VM is for kernel threads only), page_ref is 1         *)
(*   mm.pt    the page tables there are     mm.pd   level 0 directories    *)
(*                                                                         *)
(* A unit of a page is what one address holds: 0, Junk, or the unit a + 1  *)
(* of the program that belongs at address a.                               *)
(***************************************************************************)
EXTENDS Integers, Sequences, SequencesExt, FiniteSets

CONSTANTS PGSIZE,     \* units of a page
          NPTEENTRY,  \* pages of a page table
          NPDEENTRY,  \* page tables of a level 0 directory
          STACK       \* the pages of the user stack

ASSUME VmAssumption ==
    /\ PGSIZE \in Nat \ {0} /\ NPTEENTRY \in Nat \ {0} /\ NPDEENTRY \in Nat \ {0}
    /\ STACK \in [start : Nat, end : Nat] /\ STACK.start < STACK.end

Junk == -1
EmptyMm == [vma |-> <<>>, pte |-> <<>>, pt |-> {}, pd |-> {}]
Pages(vma) == vma.start .. vma.end - 1
PT(la) == la \div NPTEENTRY
PD(la) == PT(la) \div NPDEENTRY

(* The tables of a directory in which a vma has pages.                     *)
TablesIn(vma, d) == {t \in PT(vma.start) .. PT(vma.end - 1) : t \div NPDEENTRY = d}

(* The pages an address space holds, without the page directory and with it. *)
Below(mm) ==
    ({"page"} \X DOMAIN mm.pte) \cup ({"table"} \X mm.pt) \cup ({"directory"} \X mm.pd)
Owned(mm) == {<<"pgdir", 0>>} \cup Below(mm)

(* The list is sorted: a vma goes behind the last one that does not begin   *)
(* after it.                                                               *)
insert_vma_struct(list, vma) ==
    InsertAt(list, Cardinality({i \in DOMAIN list : list[i].start <= vma.start}) + 1, vma)

Fails(w) == [w EXCEPT !.ok = FALSE]
alloc_pages(w, n) == IF w.free < n THEN Fails(w) ELSE [w EXCEPT !.free = @ - n]
free_pages(w, n) == [w EXCEPT !.free = @ + n]

-----------------------------------------------------------------------------
(* get_pte with create: a directory that was allocated stays when there is *)
(* no page left for the table below it.                                    *)
with_table(w, level, n) ==
    LET With(a) == IF a.ok THEN [a EXCEPT !.mm[level] = @ \cup {n}] ELSE a
    IN  IF n \in w.mm[level] THEN w ELSE With(alloc_pages(w, 1))

get_pte(w, la) ==
    LET Into(d) == IF d.ok THEN with_table(d, "pt", PT(la)) ELSE d
    IN  Into(with_table(w, "pd", PD(la)))

Put(pte, la, content) == [x \in DOMAIN pte \cup {la} |-> IF x = la THEN content ELSE pte[x]]

(* page_insert; the page that was mapped there goes back (page_remove_pte). *)
page_insert(w, la, content) ==
    LET Into(t) == IF ~t.ok THEN t
                   ELSE [t EXCEPT !.mm.pte = Put(@, la, content),
                                  !.free = IF la \in DOMAIN t.mm.pte THEN @ + 1 ELSE @]
    IN  Into(get_pte(w, la))

pgdir_alloc_page(w, la, content) ==
    LET Inserted(i) == IF i.ok THEN i ELSE free_pages(i, 1)
        With(a) == IF a.ok THEN Inserted(page_insert(a, la, content)) ELSE a
    IN  With(alloc_pages(w, 1))

unmap_range(w, vma) ==
    LET gone == DOMAIN w.mm.pte \cap Pages(vma)
    IN  [free_pages(w, Cardinality(gone)) EXCEPT
           !.mm.pte = [la \in DOMAIN @ \ gone |-> @[la]]]

exit_pd_KeepsEntries(w, vma, d) ==
    LET range == TablesIn(vma, d)
        freed == {t \in range \cap w.mm.pt : \A la \in DOMAIN w.mm.pte : PT(la) # t}
    IN  IF d \notin w.mm.pd THEN w ELSE free_pages(w, Cardinality(freed))

(* exit_range: the tables in the range that are empty, and the directory   *)
(* above them unless a table in the range is missing.                      *)
exit_pd(w, vma, d) ==
    LET range == TablesIn(vma, d)
        freed == {t \in range \cap w.mm.pt : \A la \in DOMAIN w.mm.pte : PT(la) # t}
        pds == IF range \subseteq w.mm.pt THEN {d} ELSE {}
    IN  IF d \notin w.mm.pd THEN w
        ELSE [free_pages(w, Cardinality(freed) + Cardinality(pds)) EXCEPT
                !.mm.pt = @ \ freed, !.mm.pd = @ \ pds]

exit_range(w, vma) ==
    LET first == PD(vma.start)
        n == PD(vma.end - 1) - first + 1
        at[i \in 0 .. n] == IF i = 0 THEN w ELSE exit_pd(at[i - 1], vma, first + i - 1)
    IN  at[n]

exit_mmap_OneLoop(w) ==
    LET list == w.mm.vma
        at[i \in 0 .. Len(list)] ==
            IF i = 0 THEN w ELSE exit_range(unmap_range(at[i - 1], list[i]), list[i])
    IN  at[Len(list)]

unmap_all(w, list) ==
    LET at[i \in 0 .. Len(list)] == IF i = 0 THEN w ELSE unmap_range(at[i - 1], list[i])
    IN  at[Len(list)]

exit_all(w, list) ==
    LET at[i \in 0 .. Len(list)] == IF i = 0 THEN w ELSE exit_range(at[i - 1], list[i])
    IN  at[Len(list)]

exit_mmap(w) == exit_all(unmap_all(w, w.mm.vma), w.mm.vma)

(* exit_mmap, put_pgdir, mm_destroy.  What is still in the tables is lost. *)
drop_mm(w) ==
    LET e == exit_mmap(w)
    IN  [free_pages(e, 1) EXCEPT !.leaked = @ + Cardinality(Below(e.mm)), !.mm = EmptyMm]

-----------------------------------------------------------------------------
(* copy_range: without a page table the fork fails, without a page the     *)
(* kernel panics.                                                          *)
copy_page(w, la, content) ==
    LET With(a) == IF a.ok THEN page_insert(a, la, content)
                   ELSE [a EXCEPT !.panic = "npage != NULL"]
        Into(t) == IF t.ok THEN With(alloc_pages(t, 1)) ELSE t
    IN  IF w.ok THEN Into(get_pte(w, la)) ELSE w

copy_range(w, from, vma) ==
    LET at[i \in 0 .. vma.end - vma.start] ==
            IF i = 0 THEN w
            ELSE LET la == vma.start + i - 1
                 IN  IF la \in DOMAIN from.pte THEN copy_page(at[i - 1], la, from.pte[la])
                     ELSE at[i - 1]
    IN  at[vma.end - vma.start]

(* dup_mmap goes through the list from its end.                            *)
dup_mmap(w, from) ==
    LET n == Len(from.vma)
        dup(u, vma) == copy_range([u EXCEPT !.mm.vma = insert_vma_struct(@, vma)], from, vma)
        at[i \in 0 .. n] ==
            IF i = 0 THEN w
            ELSE IF at[i - 1].ok THEN dup(at[i - 1], from.vma[n + 1 - i]) ELSE at[i - 1]
    IN  at[n]

(* copy_mm of a user process: mm_create, setup_pgdir, dup_mmap.            *)
copy_mm(w, from) ==
    LET Filled(d) == IF d.ok \/ d.panic # "" THEN d ELSE drop_mm(d)
        With(a) == IF a.ok THEN Filled(dup_mmap(a, from)) ELSE a
    IN  With(alloc_pages([w EXCEPT !.mm = EmptyMm], 1))

-----------------------------------------------------------------------------
(* load_icode.  A program is a sequence of segments; of a segment           *)
(* [va, filesz, memsz, header, there] the file has the program header or    *)
(* not, and the first units of the data.                                   *)
FileEnd(seg) == seg.va + seg.filesz
MemEnd(seg) == seg.va + seg.memsz
RoundDown(a) == a \div PGSIZE
Vma(seg) == [start |-> RoundDown(seg.va), end |-> RoundDown(MemEnd(seg) - 1) + 1]
Unit(a) == a + 1
Zero(a) == 0

(* The pages of la1 .. la2, filled where fill says so.                     *)
Page(la, from, to, fill(_)) ==
    [i \in 0 .. PGSIZE - 1 |->
       LET a == la * PGSIZE + i IN IF a \in from .. to - 1 THEN fill(a) ELSE Junk]

(* TEXT/DATA: the pages that hold something of the file, and how much of   *)
(* the data is needed up to the end of each.                               *)
DataPages(seg) ==
    LET first == RoundDown(seg.va)
        last == RoundDown(FileEnd(seg) - 1)
        to(la) == IF la = last THEN FileEnd(seg) ELSE (la + 1) * PGSIZE
    IN  IF seg.filesz = 0 THEN <<>>
        ELSE [i \in 1 .. last - first + 1 |->
                [la |-> first + i - 1,
                 content |-> Page(first + i - 1, seg.va, FileEnd(seg), Unit),
                 upto |-> to(first + i - 1) - seg.va]]

BssPages_FirstOnly(seg) ==
    LET first == RoundDown(FileEnd(seg))
        last == RoundDown(MemEnd(seg) - 1)
        to(la) == IF la = first THEN MemEnd(seg) ELSE 0
    IN  IF seg.memsz <= seg.filesz THEN <<>>
        ELSE [i \in 1 .. last - first + 1 |->
                [la |-> first + i - 1,
                 content |-> Page(first + i - 1, FileEnd(seg), to(first + i - 1), Zero)]]

(* BSS: the page in which the data ends, or the one behind it, and more.   *)
BssPages(seg) ==
    LET first == RoundDown(FileEnd(seg))
        last == RoundDown(MemEnd(seg) - 1)
        to(la) == IF la = first THEN MemEnd(seg) ELSE (la + 1) * PGSIZE
    IN  IF seg.memsz <= seg.filesz THEN <<>>
        ELSE [i \in 1 .. last - first + 1 |->
                [la |-> first + i - 1,
                 content |-> Page(first + i - 1, FileEnd(seg), to(first + i - 1), Zero)]]

(* mm_map looks for a vma at the first page only; insert_vma_struct finds   *)
(* the others with an assertion.                                           *)
mm_map(w, vma) ==
    LET list == w.mm.vma
        there == {i \in DOMAIN list : Pages(list[i]) \cap Pages(vma) # {}}
    IN  IF vma.start >= vma.end \/ \E i \in there : vma.start \in Pages(list[i])
        THEN [Fails(w) EXCEPT !.ret = "E_INVAL"]
        ELSE IF there # {} THEN [Fails(w) EXCEPT !.panic = "prev->vm_end <= next->vm_start"]
        ELSE [w EXCEPT !.mm.vma = insert_vma_struct(@, vma)]

put_pages(w, pages) ==
    LET put(u, p) == IF u.ok THEN pgdir_alloc_page(u, p.la, p.content) ELSE u
        at[i \in 0 .. Len(pages)] == IF i = 0 THEN w ELSE put(at[i - 1], pages[i])
    IN  at[Len(pages)]

(* load_icode_read: sysfile_read needs a page for its buffer, which it gives *)
(* back, and the file has to have all that is asked for.                   *)
load_icode_read(w, whole) ==
    IF w.free < 1 THEN [Fails(w) EXCEPT !.ret = "E_NO_MEM"]
    ELSE IF ~whole THEN [Fails(w) EXCEPT !.ret = "-1"]
    ELSE w

load_data(w, seg) ==
    LET pages == DataPages(seg)
        Read(a, p) == IF a.ok THEN load_icode_read(a, p.upto <= seg.there) ELSE a
        load(u, p) == IF u.ok THEN Read(pgdir_alloc_page(u, p.la, p.content), p) ELSE u
        at[i \in 0 .. Len(pages)] == IF i = 0 THEN w ELSE load(at[i - 1], pages[i])
    IN  at[Len(pages)]

(* What a segment does to w; ret is 0 when pgdir_alloc_page fails, too.    *)
load_segment(w, seg) ==
    LET read == load_icode_read(w, seg.header)
        mapped == mm_map(read, Vma(seg))
    IN  IF ~w.ok THEN w
        ELSE IF ~read.ok THEN read
        ELSE IF seg.filesz > seg.memsz THEN [Fails(read) EXCEPT !.ret = "E_INVAL_ELF"]
        ELSE IF ~mapped.ok THEN mapped
        ELSE put_pages(load_data(mapped, seg), BssPages(seg))

load_segments(w, elf) ==
    LET at[i \in 0 .. Len(elf)] == IF i = 0 THEN w ELSE load_segment(at[i - 1], elf[i])
    IN  at[Len(elf)]

(* From the top down.                                                      *)
StackContents ==
    [i \in 1 .. STACK.end - STACK.start |->
       [la |-> STACK.end - i, content |-> [j \in 0 .. PGSIZE - 1 |-> Junk]]]

load_stack(w) ==
    LET mapped == mm_map(w, STACK)
        End(s) == IF s.ok THEN s ELSE [s EXCEPT !.panic = "stack page != NULL"]
    IN  IF ~w.ok THEN w
        ELSE IF ~mapped.ok THEN mapped
        ELSE End(put_pages(mapped, StackContents))

(* <<>> is a file without an ELF header.                                   *)
load_icode(w, elf) ==
    LET End(s) == IF s.ok \/ s.panic # "" THEN s ELSE drop_mm(s)
        Header(r) == IF r.ok /\ elf = <<>> THEN [Fails(r) EXCEPT !.ret = "E_INVAL_ELF"] ELSE r
        With(a) == IF ~a.ok THEN [a EXCEPT !.ret = "E_NO_MEM"]
                   ELSE End(load_stack(load_segments(Header(load_icode_read(a, TRUE)), elf)))
    IN  With(alloc_pages([w EXCEPT !.mm = EmptyMm], 1))

(* What a program may expect to find in memory.                            *)
Loaded(mm, elf) ==
    \A i \in DOMAIN elf : \A a \in elf[i].va .. MemEnd(elf[i]) - 1 :
        /\ RoundDown(a) \in DOMAIN mm.pte
        /\ mm.pte[RoundDown(a)][a % PGSIZE] = IF a < FileEnd(elf[i]) THEN Unit(a) ELSE 0
=============================================================================
