-------------------------------- MODULE Resources --------------------------------
(***************************************************************************)
(* What processes hold and who gives it back: kernel stacks, address       *)
(* spaces and page tables (Vm), tables of open files and inodes (Files),   *)
(* through do_fork, do_execve, do_exit and do_wait of                      *)
(* kern/process/proc.c, when memory runs out at any point or a program's    *)
(* file is too short.                                                      *)
(*                                                                         *)
(* None of these calls sleeps while it takes or gives back something, and  *)
(* the kernel is not preempted, so that each one is a step.  Who waits for *)
(* whom is in Proc; here a dead process is reaped at any time.             *)
(***************************************************************************)
EXTENDS Vm, Files

CONSTANTS Slot,       \* proc_structs
          First,      \* user_main, a kernel thread until it runs a program
          NULL,
          Elf,        \* the program in a file, <<>> if there is none
          POOL,       \* free pages at the beginning, a set of numbers
          KSTACKPAGE, \* pages of a kernel stack
          MaxLost     \* nothing is executed once so many references to a file got lost

ASSUME ResourcesAssumption ==
    /\ IsFiniteSet(Slot) /\ First \in Slot /\ POOL \subseteq Nat /\ KSTACKPAGE \in Nat
    /\ Elf \in [File -> Seq([va : Nat, filesz : Nat, memsz : Nat, header : BOOLEAN, there : Nat])]

VARIABLES proc,    \* state, mm, filesp and the file it executes
          node,    \* the inodes
          free,    \* nr_free_pages()
          total,   \* all pages: the free ones at the beginning and First's
          pgdir,   \* the directory proc_run loads: the kernel's, the mm's, or one that is free
          leaked,  \* pages that nobody will give back
          lost     \* references to an inode that nobody will give back

vars == <<proc, node, free, total, pgdir, leaked, lost>>

NoMm == <<>>
NoProc == [state |-> "none", mm |-> NoMm, filesp |-> NoTable, exe |-> NULL]
Process(mm, filesp, exe) == [state |-> "run", mm |-> mm, filesp |-> filesp, exe |-> exe]
Zombie(filesp) == [state |-> "zombie", mm |-> NoMm, filesp |-> filesp, exe |-> NULL]
Unused == [f \in File |-> [ref |-> 0, open |-> 0]]
With(mm) == [free |-> free, mm |-> mm, leaked |-> leaked, ok |-> TRUE, ret |-> "0", panic |-> ""]

Init ==
    /\ proc = [p \in Slot |-> IF p = First THEN Process(NoMm, NoTable, NULL) ELSE NoProc]
    /\ node = Unused
    /\ free \in POOL
    /\ total = free + KSTACKPAGE
    /\ pgdir = [p \in Slot |-> "boot"]
    /\ leaked = 0
    /\ lost = [f \in File |-> 0]

Running(p) == proc[p].state = "run"
User(p) == Running(p) /\ proc[p].mm # NoMm

-----------------------------------------------------------------------------
(* An assertion fails and the machine stops.                               *)
halts ==
    /\ proc' = [p \in Slot |-> NoProc] /\ node' = Unused
    /\ free' = total /\ leaked' = 0 /\ lost' = [f \in File |-> 0]
    /\ pgdir' = [p \in Slot |-> "boot"]
    /\ UNCHANGED total

panics(w) == w.panic # "" /\ halts

(* do_fork: the slot must have been free.  What has been allocated is       *)
(* given back in reverse order when a step fails.                          *)
do_fork_fails(p, w) ==
    /\ ~w.ok /\ w.panic = ""
    /\ free' = w.free + (IF free < KSTACKPAGE THEN 0 ELSE KSTACKPAGE)
    /\ leaked' = w.leaked
    /\ UNCHANGED <<proc, node, total, pgdir, lost>>

(* files_create fails: put_kstack and kfree, but copy_mm has attached an mm. *)
do_fork_no_files(p, w) ==
    /\ w.ok
    /\ free' = w.free + KSTACKPAGE
    /\ leaked' = w.leaked + Cardinality(Owned(w.mm))
    /\ UNCHANGED <<proc, node, total, pgdir, lost>>

do_fork_child_SharesTable(p, c, w) ==
    /\ w.ok
    /\ free' = w.free /\ leaked' = w.leaked
    /\ proc' = [proc EXCEPT ![c] = Process(w.mm, proc[p].filesp, proc[p].exe)]
    /\ pgdir' = [pgdir EXCEPT ![c] = "own"]
    /\ UNCHANGED <<node, total, lost>>

do_fork_child(p, c, w) ==
    /\ w.ok
    /\ free' = w.free /\ leaked' = w.leaked
    /\ proc' = [proc EXCEPT ![c] = Process(w.mm, proc[p].filesp, proc[p].exe)]
    /\ pgdir' = [pgdir EXCEPT ![c] = "own"]
    /\ node' = inc(node, proc[p].filesp, Descriptor)
    /\ UNCHANGED <<total, lost>>

do_fork(p, c) ==
    LET stack == alloc_pages(With(EmptyMm), KSTACKPAGE)
        w == IF stack.ok THEN copy_mm(stack, proc[p].mm) ELSE stack
    IN  /\ User(p) /\ proc[c] = NoProc
        /\ do_fork_fails(p, w) \/ do_fork_no_files(p, w) \/ do_fork_child(p, c, w) \/ panics(w)

(* What is left when p gives up its address space; proc_struct.pgdir still   *)
(* has the address of its directory then.                                  *)
Dropped(p) == IF proc[p].mm = NoMm THEN With(EmptyMm) ELSE drop_mm(With(proc[p].mm))
Stale(p) == IF proc[p].mm = NoMm THEN pgdir[p] ELSE "freed"

(* do_exit: only a process with an mm gives up its files.                  *)
do_exit(p) ==
    LET table == proc[p].filesp
    IN  /\ Running(p) /\ proc[p].exe # NULL
        /\ free' = Dropped(p).free /\ leaked' = Dropped(p).leaked
        /\ pgdir' = [pgdir EXCEPT ![p] = Stale(p)]
        /\ \/ /\ proc[p].mm # NoMm
              /\ proc' = [proc EXCEPT ![p] = Zombie(NoTable)]
              /\ node' = dec(node, table, Descriptor)
           \/ /\ proc[p].mm = NoMm
              /\ proc' = [proc EXCEPT ![p] = Zombie(table)]
              /\ UNCHANGED node
        /\ UNCHANGED <<total, lost>>

(* do_wait: put_kstack, kfree; what filesp pointed to is out of reach.      *)
do_wait(p) ==
    /\ proc[p].state = "zombie"
    /\ lost' = [f \in File |-> lost[f] + refs(proc[p].filesp, Descriptor, f)]
    /\ free' = free + KSTACKPAGE
    /\ proc' = [proc EXCEPT ![p] = NoProc]
    /\ pgdir' = [pgdir EXCEPT ![p] = "boot"]
    /\ UNCHANGED <<node, total, leaked>>

(* proc_run loads whatever pgdir refers to.  A page that is free may still  *)
(* be as it was, and nothing happens; in use again it holds anything, and   *)
(* all bets are off.                                                       *)
proc_run(p) == Running(p) /\ pgdir[p] = "freed" /\ halts

-----------------------------------------------------------------------------
(* do_execve closes all files but stdin and stdout, opens the program and  *)
(* leaves it open, gives up the old address space and loads a new one.     *)
(* When load_icode gives up, ret may be 0: the process goes on, without     *)
(* memory and with the directory of the old address space in pgdir.        *)
Kept(p) == closed(proc[p].filesp, Beyond)
MayLose == \A f \in File : lost[f] < MaxLost

do_execve(p, f, fd) ==
    LET table == [Kept(p) EXCEPT ![fd] = f]
        w == load_icode(Dropped(p), Elf[f])
    IN  /\ Running(p) /\ (proc[p].exe # NULL => proc[p].mm # NoMm)
        /\ Lowest(Kept(p), fd)
        /\ MayLose
        /\ \/ panics(w)
           \/ /\ w.panic = ""
              /\ free' = w.free /\ leaked' = w.leaked
              /\ pgdir' = [pgdir EXCEPT ![p] = IF w.ok THEN "own" ELSE Stale(p)]
              /\ node' = inc(dec(node, proc[p].filesp, Beyond), table, {fd})
              /\ proc' = [proc EXCEPT ![p] =
                           IF w.ret # "0" THEN Zombie(table)
                           ELSE Process(IF w.ok THEN w.mm ELSE NoMm, table, f)]
              /\ UNCHANGED <<total, lost>>

(* There is no such file: do_exit, with the old address space.             *)
do_execve_no_file(p) ==
    /\ User(p)
    /\ free' = Dropped(p).free /\ leaked' = Dropped(p).leaked
    /\ pgdir' = [pgdir EXCEPT ![p] = Stale(p)]
    /\ proc' = [proc EXCEPT ![p] = Zombie(NoTable)]
    /\ node' = dec(node, proc[p].filesp, Descriptor)
    /\ UNCHANGED <<total, lost>>

-----------------------------------------------------------------------------
(* file_open; with O_CREAT and O_EXCL vfs_open keeps the reference to the   *)
(* file that exists already.                                               *)
file_open(p, f, fd) ==
    LET opened == [proc[p].filesp EXCEPT ![fd] = f]
    IN  /\ User(p) /\ Lowest(proc[p].filesp, fd)
        /\ proc' = [proc EXCEPT ![p].filesp = opened]
        /\ node' = inc(node, opened, {fd})
        /\ UNCHANGED <<free, total, pgdir, leaked, lost>>

file_open_excl(p, f) ==
    /\ User(p) /\ FreeOnes(proc[p].filesp) # {}
    /\ MayLose
    /\ node' = [node EXCEPT ![f].ref = @ + 1]
    /\ lost' = [lost EXCEPT ![f] = @ + 1]
    /\ UNCHANGED <<proc, free, total, pgdir, leaked>>

file_close(p, d) ==
    LET table == proc[p].filesp
    IN  /\ User(p) /\ d \in Opened(table)
        /\ proc' = [proc EXCEPT ![p].filesp = closed(table, {d})]
        /\ node' = dec(node, table, {d})
        /\ UNCHANGED <<free, total, pgdir, leaked, lost>>

(* file_dup, to the first descriptor that is free.                         *)
file_dup(p, d, e) ==
    LET table == proc[p].filesp
        duplicated == [table EXCEPT ![e] = table[d]]
    IN  /\ User(p) /\ d \in Opened(table) /\ e \in FreeOnes(table)
        /\ proc' = [proc EXCEPT ![p].filesp = duplicated]
        /\ node' = inc(node, duplicated, {e})
        /\ UNCHANGED <<free, total, pgdir, leaked, lost>>

stopped == (\A p \in Slot : proc[p] = NoProc) /\ UNCHANGED vars

Next ==
    \/ \E p \in Slot :
         \/ \E c \in Slot : do_fork(p, c)
         \/ do_exit(p) \/ do_wait(p) \/ proc_run(p) \/ do_execve_no_file(p)
         \/ \E f \in File :
              \/ \E fd \in Descriptor : do_execve(p, f, fd) \/ file_open(p, f, fd)
              \/ file_open_excl(p, f)
         \/ \E d \in Descriptor : file_close(p, d) \/ \E e \in Descriptor : file_dup(p, d, e)
    \/ stopped

Spec == Init /\ [][Next]_vars

-----------------------------------------------------------------------------
(* What programs are like.  A neat one has pages in every segment, and its  *)
(* vmas with pages in one directory have pages in the same tables of it:    *)
(* exit_range frees a directory after the first vma it visits there.  So it *)
(* is with tools/user.ld: text and data share a table, the stack is in a    *)
(* directory of its own.  A paged one has no data in a page in which zeros  *)
(* begin; the linker script does not see to that, and load_icode needs it.  *)
Filling(elf) == \A i \in 1 .. Len(elf) : elf[i].memsz > 0
TidyVmas(V) ==
    \A v1, v2 \in V : \A la1 \in Pages(v1), la2 \in Pages(v2) :
      PD(la1) = PD(la2) => TablesIn(v1, PD(la1)) = TablesIn(v2, PD(la2))
ProgramVmas(elf) == {Vma(elf[i]) : i \in 1 .. Len(elf)} \cup {STACK}
Tidy(elf) == TidyVmas(ProgramVmas(elf))
PagedSegment(seg) == seg.filesz > 0 /\ seg.memsz > seg.filesz => FileEnd(seg) % PGSIZE = 0

Neat(elf) == Filling(elf) /\ Tidy(elf)
Paged(elf) == \A i \in 1 .. Len(elf) : PagedSegment(elf[i])

-----------------------------------------------------------------------------
(* The pages that p holds.                                                 *)
Held(p) ==
    (IF proc[p].state = "none" THEN {} ELSE {"stack"} \X (1 .. KSTACKPAGE))
      \cup (IF proc[p].mm = NoMm THEN {} ELSE Owned(proc[p].mm))

used == free + Cardinality(UNION {{p} \X Held(p) : p \in Slot})

(* Every page is free, or a process holds it, or it has been lost where     *)
(* do_fork or drop_mm left it behind: no page is free and in use, none is   *)
(* freed twice, and none gets lost in another way.                         *)
PagesCounted == used + leaked = total

(* Nothing is left behind of a process that has its memory, and nothing of  *)
(* a program that is turned down for what its headers say.                 *)
GivenBack ==
    /\ \A p \in Slot : User(p) => Dropped(p).leaked = leaked
    /\ \A f \in File :
         LET w == load_icode(With(EmptyMm), Elf[f])
         IN  ~w.ok /\ w.ret \in {"E_INVAL", "E_INVAL_ELF"} => w.leaked = leaked

(* An inode stays in memory as long as a descriptor refers to it, and       *)
(* every reference is a descriptor's or one that is known to be lost.      *)
users(f) == {x \in Slot \X Descriptor : proc[x[1]].filesp[x[2]] = f}
FilesCounted ==
    \A f \in File :
      /\ Cardinality(users(f)) <= node[f].open /\ node[f].open <= node[f].ref
      /\ node[f].ref = Cardinality(users(f)) + lost[f]

(* A process with memory runs on its own directory and finds its program    *)
(* in it, the children of a fork too: text and data from the file and zeros *)
(* behind.                                                                 *)
ImageLoaded ==
    \A p \in Slot : proc[p].mm # NoMm =>
      pgdir[p] = "own" /\ Loaded(proc[p].mm, Elf[proc[p].exe])

-----------------------------------------------------------------------------
(* What the comments promise and the code does not keep.                   *)

(* proc_struct.pgdir is "the base addr of Page Directroy Table(PDT)", one   *)
(* that is in use.                                                         *)
DirectoryInUse == \A p \in Slot : Running(p) => pgdir[p] # "freed"

(* load_icode: "if up steps failed, you should cleanup the env."  A process *)
(* that ends, in exec or by itself, leaves no page behind.                 *)
EndsClean == [][\A p \in Slot : Running(p) /\ proc'[p].state = "zombie" => leaked' = leaked]_vars

(* do_wait: "only after do_wait function, all resources of the child proces *)
(* are free".  Then nobody holds on to a file.                             *)
NoReferenceLost == \A f \in File : lost[f] = 0
=============================================================================
