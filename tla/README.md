# TLA+ models of the ucore teaching kernel (NKU OS Lab)

The repository holds the stages of one kernel, `Lab1` ... `Lab8`, for a single
RISC-V hart.  `Lab8/code/kern` is the complete one; the models are about it,
and about an earlier lab only where that lab has a component `Lab8` dropped or
never uses: the page allocators of `Lab2` and the stride scheduler of `Lab6`.
The labs copy most files from one another, so that most of the repository's
lines are earlier copies of what is modelled, or not modelled, here.

## 1. The system and its parts

| component | state | operations | correct when |
|---|---|---|---|
| pid allocator, `process/proc.c` get_pid | `last_pid`, `next_safe`, `proc_list` | get_pid, set_links, remove_links | pids are unique, the call returns |
| scheduler, `schedule/sched.c`, `default_sched.c` | run queue, `state`, `wait_state`, `time_slice`, `need_resched`, `current` | wakeup_proc, schedule, the class operations, tick | queue = runnable processes, FIFO, nobody starves, nobody keeps the CPU |
| stride scheduler, Lab6 `default_sched_stride.c`, `skew_heap.h` | run pool (a skew heap), strides, priorities | the class operations, lab6_set_priority | the process that is least ahead runs, also after strides have overflowed; nobody starves |
| timer list, `schedule/sched.c` | list of delays | add_timer, del_timer, run_timer_list | each sleeper wakes at its own tick |
| processes, `process/proc.c` | process tree, flags, mm, filesp, kernel stacks | fork, exit, wait, kill, yield, sleep, execve, the kernel threads | no lost wakeup, zombies are reaped once, by the right parent; everything is given back once |
| trap, `trap/trap.c` | trap frame | clock interrupt, system call, end of trap() | kill and preemption take effect on the way to user mode |
| stdin, `fs/devs/dev_stdin.c`, `sync/wait.c` | ring buffer, wait queue | key, read | order of characters, readers woken |
| semaphores, monitors, `sync/` | value, wait queue, `next_count` | up, down, cond_wait, cond_signal, the philosophers | mutual exclusion, hand-over, no deadlock |
| page allocators, `mm/default_pmm.c`, Lab2 `best_fit`, `buddy` | free lists, page flags | init_memmap, alloc_pages, free_pages | no page handed out twice, none lost, neighbours merged |
| kmalloc (SLOB) in `mm/kmalloc.c`, Lab2 SLUB | circular list of free blocks, `bigblocks`; page lists of SLUB | kmalloc, kfree | objects do not overlap, nothing is lost when blocks are cut and joined |
| virtual memory and loader, `mm/vmm.c`, `mm/pmm.c`, load_icode | vma list, page tables | mm_map, get_pte, page_insert, dup_mmap, exit_mmap, load_icode | every page and table is given back once, a process finds its program in memory, and its directory |
| file table and VFS, `fs/file.c`, `fs/fs.c`, `fs/vfs/` | descriptors, `ref_count`, `open_count` | open, close, dup, fork, exec, exit | counts agree with the tables, an inode lives as long as it is used |
| SFS, `fs/sfs/` | free map, block map, inodes in memory and on disk | read, write, truncate, reclaim, load | a block has one owner, nothing written is lost, no assertion fails |
| drivers, boot, console, libraries, user programs | - | - | not modelled |

How they interact.  There is one CPU and no preemption in the kernel: a system
call runs with interrupts off, and gives up the CPU only by calling
`schedule()` (do_wait, do_sleep, a read of the keyboard, a semaphore, do_exit)
or at the end of `trap()`.  The clock interrupt arrives in user mode and in
the kernel threads; it runs the timer list, charges the time slice and feeds
the keyboard buffer.  Processes meet in shared lists: the run queue, the timer
list, the wait queues and the process tree; and in shared stocks: pages, inodes
and the blocks of the disk.  The disk is in memory and no call on a file sleeps.
What is hard is therefore not parallel access but, first, what has happened
between two pieces of one function when `schedule()` lies between them (a
wakeup that came before the sleep, a kill while a timer or a wait entry in a
stack frame is linked, a parent that died, a zombie that changed parents);
second, calls that fail half way and must give back what they took; third, long
sequences of legal calls after which two copies of one fact disagree (a list
and its flags, a count and the pointers it counts, an inode and its copy on
disk, a stride and the one it has overflowed).  `PROJECT.json` lists these under
`hazards`.

## 2. The modules

| module | models | notes |
|---|---|---|
| `PidAlloc` | get_pid, set_links, remove_links | one step per round of the walk |
| `PidSpace` | what do_fork relies on | `PidAlloc` implements it |
| `TimerList` | add_timer, del_timer, run_timer_list as operators on a sequence of delays | used by `Timers` and `Proc` |
| `Timers` | do_sleep against the clock | state machine on `TimerList` |
| `Alarm` | one countdown per process | `Clock` implements it |
| `Stdin` | dev_stdin_write, dev_stdin_read on the ring buffer and the wait queue | |
| `Keyboard` | a line of characters | `Clock` implements it |
| `Clock` | one interrupt that drives both, processes in one call at a time | composes `Timers` and `Stdin` |
| `Sched` | wakeup_proc, schedule, round robin, tick as operators on a record | used by `Proc` and the philosophers |
| `Proc`, `ProcMC` | process life cycle, trap, clock, stdin readers, init and idle | composes `Sched`, `TimerList` and `ProcTree` |
| `ProcTree` | the pointers parent, cptr, optr and yptr: set_links, remove_links, the loop of do_exit | operators, used by `Proc` |
| `ProcLife` | fork, exit and wait as user programs see them | `Proc` implements it |
| `Stride` | the stride class under wakeup_proc and schedule, with machine words | the pool is a set |
| `SkewHeap` | the pool as it is stored | adds a variable to `Stride`, and implements it |
| `Shares` | accounts of CPU time that never overflow | `Stride` implements it |
| `SemOps` | up, down, cond_wait, cond_signal as operators on a record that contains `Sched`'s | used by `CheckSync` |
| `CheckSync` | the philosophers of check_sync, first on semaphores (`_sema`), then in a monitor (`_condvar`) | composes `SemOps` and `Sched` |
| `Dining` | the table: think, hunger, eat, never two neighbours | `CheckSync` implements it |
| `FreeList` | first fit of Lab8 and best fit of Lab2, on the nodes of the doubly linked list | |
| `Buddy` | the buddy system of Lab2 | |
| `Slub` | the page allocator of Lab2's SLUB | |
| `Pmm` | alloc_pages and free_pages of pmm.c | composes `FreeList`, `Buddy` and `Slub` |
| `Slob` | kmalloc and kfree on the first-fit allocator | |
| `Memory` | pages and objects | composes `Pmm` and `Slob` |
| `PagePool` | contiguous pages taken from gaps and given back | `Memory` implements it |
| `Vm` | vmas, page tables, load_icode as operators on a record with the free pages | used by `Resources` |
| `Files` | descriptor tables and the counts of inodes, as operators | used by `Resources` |
| `Resources`, `ResourcesMC` | what fork, execve, exit, wait and the calls on files take and give back | composes `Vm` and `Files` |
| `Sfs`, `SfsMC` | files on the simple file system and their descriptors | |
| `FileStore` | files as sequences of bytes | `Sfs` implements it |
| `PidAlloc_proofs`, `TimerList_proofs`, `Clock_proofs`, `Proc_proofs`, `Stride_proofs`, `CheckSync_proofs`, `Resources_proofs`, `Sfs_proofs` | | proofs (section 4) |

Correspondence.  In `Proc` a step is a stretch of kernel code between two
points where another process may run, and `pc[p]` is the point where `p`
continues (the header of the module lists them).  The operators of `Sched`
keep the names of the C functions; `k.cur` is `current`, `k.rq` the list
`rq->run_list`, `k.st`, `k.ws`, `k.slice`, `k.resched` are `state`,
`wait_state`, `time_slice`, `need_resched` of every process.  An assertion or
panic of the code sets `k.panic`.  `tree` has the pointers
`parent`, `cptr`, `optr` and `yptr`, and `Children(tree, p)` is what a loop from
`cptr` along `optr` meets; `kbdq` is the wait queue of dev_stdin.c; `exiting` the flag
PF_EXITING.

In `Stdin` a reader's frame is what dev_stdin_read has on its stack: the buffer
as far as it is filled, how much is missing, and `wakeup_flags`.  Positions
count modulo twice the buffer, which is all the code asks of them.

In `SemOps` a thread that blocks in `down` has been switched away from when the
operator is done, and the steps of `CheckSync` end at each call that may block.
`up` takes the first waiter off the queue, so a thread at the point behind its
`down` and on no queue holds the semaphore although it has not run yet; `HasForks`
and `Inside` are defined that way.  In the monitor
`pc[i]` is a call stack, because phi_test_condvar may block inside cond_signal
at three call sites.  The semaphores of `s[i]` and `cv[i]` go under the number
`i`.  The call of check_sync in init_main is commented out, so `CheckSync`
starts where check_sync has created its threads.

In `Stride` a step is a call of schedule() with what led to it (a yield or the
end of a turn, a sleep, an exit) or what changes the pool in between (a wakeup,
a fork, lab6_set_priority).  The set `pool` is `rq->lab6_run_pool`.  The
comparison is an order only while all strides lie in half the circle of numbers
(`Together`).  A wakeup enqueues a sleeper with the stride of long ago and a fork
a child with stride 0, wherever the others are, so that this is not always so.
While they are together, `schedule` takes a member for which no comparison finds
a smaller one; that the root of the heap is such a one is what `SkewHeap` shows.
While they are not, the root is whoever the history of the heap has put there,
and `Stride` lets it be anybody.  In `Shares` the accounts are numbers without
end, and `lead` is how far each is ahead of each; `kept` says whether there are
books at all, that is, whether the strides are together.

In `FreeList` the record `f` is the content of `struct Page` as far as the
allocator uses it, with `f.nxt[free_list]` and `f.prv[free_list]` for the list
head; list_add and list_del are assignments to these fields, so that a node may
point to itself as it does in the code.  In `Buddy` `f.flag` and `f.order` keep
what they had when a block is merged or cut, as PageProperty and property do.
`given` is the caller's side: what was allocated and not freed, and blocks are
freed as they were allocated.  Each call runs with interrupts off and is one
step.

In `Slob` addresses count in units of SLOB_UNIT bytes, a page begins at its number
times the units of a page, and `arena`, a static variable of the kernel, lies at
0, below all pages.  `h.next` and `h.units` are the two fields of a block,
`h.slobfree` the pointer where the next search begins, `h.bigblocks` the list of
large blocks; `objects` is the callers' side.  kmalloc is one step and may take
pages twice, once for the heap and once for a large object; `PoolSpec` is
therefore stated for callers that ask for pages directly.

`Vm` works on a record `w` with the number of free pages, one address space, and
how the call has ended so far; it allocates in the order of the code, so that
memory can run out at every single page.  `mm.vma` is the list of vmas sorted as
insert_vma_struct does it; the loops over vmas, pages, tables and segments are
recursive functions.  In `Resources` `proc[p].mm`,
`.filesp` and `.exe` are what the process holds; `node` has the two counts of
every inode; `pgdir[p]` says whose directory `proc_struct.pgdir` is the address
of: the kernel's, the process's own, or one that has been freed.  `leaked` and
`lost` count the pages and the references to inodes that nobody can give back.
They are raised at two places each: at the end of an address space for what
is left in its tables (`drop_mm`), where copy_files fails after copy_mm
(`do_fork_no_files`); where do_wait frees a proc_struct whose table was never put,
and where vfs_open meets O_EXCL.  A segment of a program has `header` and `there`:
whether the file is long enough for the program header, and how much of the
segment's data it has; load_icode_read fails at the first part that is missing, or
for want of a page for the buffer of sysfile_read.

In `Sfs` the record `s` is the disk with its free map and the inodes, in memory
(`s.din`, `s.dirty`) and on disk (`s.disk`).  Every block has the units that
were last written to it, a unit standing for a byte of a file or, in an
indirect block, for a block number; what is written at offset o of file f is
`Byte(f, o)`, so that a unit in the wrong place is noticed.

Abstractions.
* A process is identified by its slot; that `find_proc(pid)` finds it rests on
  unique pids, which `PidAlloc` is about.
* In `Proc` an address space and a file table are owned or not owned, and a
  reader that was woken by a key may find a character or not; `Resources` and
  `Stdin` have what is behind that.
* The clock may tick in a kernel thread at the points named in `InterruptsOn`;
  elsewhere in kernel threads a tick commutes with the thread's step.
* The philosophers' do_sleep ends at any time instead of after SLEEP_TIME
  ticks (`timer`): every order of awakenings is covered, the one of the equal
  delays included.  Nobody kills them: WT_KSEM waits cannot be interrupted.
* `Stride` has no time slices (a turn ends at any time), and `SkewHeap` no
  pointers to parents, which only the removal of an inner node would follow.
* Nobody shares an address space or a table of files: CLONE_VM is passed for
  kernel threads only and CLONE_FS never.  `page_ref` is therefore 1.
* In `Resources` a zombie is reaped at any time (who waits for whom is in
  `Proc`), descriptors are open for reading and writing, and there is one
  descriptor that files_closeall skips instead of stdin and stdout.
* kmalloc of a mm_struct, a vma_struct, a proc_struct or a files_struct does not
  fail by itself; the page that sysfile_read takes for its buffer may be missing.
  A seek behind the end of the program's file, which would lengthen it, is not
  modelled beyond the failure of the read.  Programs have at least one segment.
* proc_run on a directory that has been freed is undefined: nothing happens as long as
  the page is as it was (no step), or the machine stops (`proc_run`).
* In `Sfs` the names of files are numbers, and a file is opened with or without
  truncation, at its beginning or its end; there is no vop_create in sfs, so the
  files exist from the beginning.
* Programs do not issue undefined system calls or misaligned stores; both
  panic by intent.

An operator `X_Y` in front of an operator `X` is X with a plausible mistake
(a dropped guard, an off-by-one, a missing wakeup).  Only X is used; with X_Y
in its place the property named in `PROJECT.json` fails.

## 3. The runs

| run | instance | shows |
|---|---|---|
| pid | 6 pids, up to 5 listed processes | get_pid returns, with an unused pid; `IInv`, the invariant of the proof; refinement of `PidSpace` |
| clock | 3 processes, delays 1..3, a buffer of 2 characters out of 2, reads of 1..2 | the list of delays wakes everybody at the tick asked for; no reader waits for a character that is there; refinements of `Alarm` and `Keyboard` |
| proc | 3 user slots, slice 1, all calls, kills of anybody, symmetric slots | run queue exact, sleepers can be found, no dangling frames, no assertion fails, FIFO; process tree, no lost child; refinement of `ProcLife` |
| proc_live | 2 user slots, slice 2 | no starvation, sleepers wake, orphans are reaped |
| stride | 3 processes, strides of 3 bits, BIG_STRIDE 3, priorities 0 and 5, sleeps of any length | turns never part strides; while they are together the heap's root has the least one, and the choice is that of accounts without end (refinements of `Stride` and `Shares`); once nobody joins, parted strides come together again; once they stay together nobody starves |
| check_sync | 4 philosophers, 2 meals each, semaphores and then the monitor | permits and the monitor are handed over exactly once, nobody is forgotten, counts are exact and no signal is saved up, `if` instead of `while` is enough, everybody finishes; refinement of `Dining` |
| pmm | pages 2 to 7, blocks of 1, 2 and 4, all four page allocators, the last page of a list stays free; kmalloc of 1, 3 and 16 bytes with pages of 8 | lists name exactly the gaps, linked both ways; what the buddy system, SLUB and the heap hold free and what they have given away partition memory; buddies are merged; refinement of `PagePool` |
| pool_full | 5 pages, all of which may be allocated | expected violation (section 5) |
| sfs | 2 files, 2 descriptors, 3 blocks of 3 units, 1 direct block, files of up to 5 units | no assertion fails, every block has one owner, an inode that is dropped is on disk, reads find what was written; refinement of `FileStore` |
| sfs_write | the same, and a file may be truncated while it is open elsewhere | expected violation (section 5) |
| resources | 2 processes, 3 descriptors, 6 to 22 pages, 3 files: a program, one that is turned down, one whose file ends too soon | every page is free, held or counted as lost, wherever load_icode fails; a process that runs leaves nothing of its memory behind, and neither does a program with impossible headers; counts of inodes agree with the tables up to the references counted as lost; a process with memory has its own directory and finds its program there; its programs are `Neat` and `Paged` (`ProgramsAssumption`) |
| exec_bss | the same with a program whose data end inside a page | expected violation (section 5) |

Bounds, and why they are enough.
* pid: every list order, a wrap-around, a walk that restarts several times and a
  pid space with a single free pid.
* clock: three timers and three ticks give ties, and insertion and deletion at
  the head, in the middle and at the end; two readers compete for a buffer that
  overflows while a third process sleeps or is killed.
* proc: beside initproc and idleproc, parent, child, orphan and killer are
  different processes; three slots give a chain of orphans and two zombies of
  one parent.  `MAX_PROCESS`, `MAX_TIME_SLICE`, `MaxTicks` bound what the code
  bounds or counts.  proc_live has no symmetry.
* stride: with 8 strides and passes of 3 and 1 the numbers overflow every third
  turn; three processes give every shape of heap that a merge distinguishes, and
  three are what it takes for strides to be each before the next in a circle.
  Sleepers and children join at every distance from the others.
* check_sync: four philosophers have two who do not sit next to each other, so
  two may eat and one may be hungry between them; the second meal meets what the
  first has left behind.
* pmm: two gaps of different length below the one at the end and an allocated
  block between each two, so that a freed block can have both, one or no free
  neighbour and best fit can differ from first fit.  For the buddy system memory
  begins inside a block of the largest order.  On the heap a page has four units,
  so that an object of 1 byte needs two, one of 3 bytes three, and one of 16 bytes
  pages of its own; with three objects a freed block can have a free neighbour on
  either side, on both or on none, and large and small objects mix.  `EXHAUST` keeps
  the last page free: a condition on memory pressure, not on the code.
* sfs: one direct block and an indirect one of three entries; two files cannot
  both be full, so that allocation fails at the first, the indirect and the last
  block; transfers cross block boundaries with and without a first and last
  part.  `STALE` and `OVERSEEK` are the conditions without which the kernel stops
  (section 5).
* resources: 6 to 22 pages, so that a fork or exec fails at every page in turn and,
  with the most, both processes run programs; a page table has four entries and a
  directory two, so that vmas share tables and directories and the stack has its own.
  `hello` is a whole program, `broken` has a third segment with impossible headers,
  and the file `cut` ends in a segment whose pages lie in two tables of one
  directory, of which only the first comes about.  `notes`, which is no program,
  is a file of exec_bss; that load_icode turns it down without a loss is proved.
  `MaxLost`: nothing is executed or opened with O_EXCL once a reference to some file
  is lost, which bounds the counts; the proof needs no such bound.

Fairness.  `FairSpec` of `PidAlloc`: the walk goes on, for nothing takes the
CPU away inside get_pid.  `FairSpec` of `Proc`: weak fairness of `Kernel` (the
CPU executes kernel code) and strong fairness of `clock`: an interrupt that
becomes pending while a system call runs is taken on the return to user mode,
so a program cannot keep the clock away by calling the kernel all the time.
Nothing is assumed of user programs: they may loop for ever without a call.
The idle loop is part of `Kernel`.  `HeapSpec` of `SkewHeap`: the clock interrupt
ends every turn, so do_yield happens again and again.  `NobodyStarves` says
"once no process is born any more", because every child starts with stride 0
and a program that forks for ever keeps its children in front; and "once the
strides stay together", because a process that sleeps until it is half the range
behind comes back in front of all, and by doing so again and again can keep
another from the CPU.  `Reunite` says that a joiner who does so once does no lasting
harm.  These are conditions on what programs do, not on the scheduler.  `FairSpec` of
`CheckSync`: the CPU executes the current thread or the idle loop, and every
timer fires (weak fairness, since a sleeping thread's timer stays pending until
it has fired).

Deadlock is checked in every run; after a panic the kernel stutters in the
monitor (`panicked`, `stopped`).

## 4. The proofs

`PidAlloc_proofs` proves, for every `MAX_PID > MAX_PROCESS > 0`:
* `Invariance`: `Spec => []IInv`, where `IInv` (checked by the run pid as well)
  is the conjunction of `TypeOK`, `GapIsFree`, `FreshPid`, `UniquePids` and
  `WalkInv`;
* `FreshPidTheorem`, `UniquePidsTheorem`, `GapIsFreeTheorem`: its conjuncts;
* `ImplementsPidSpace`: `Spec => PidSpaceSpec`.

Neither uniqueness nor the promise of `next_safe` is inductive alone: the call
that skips the walk is right because of the promise, and the promise holds
after a walk because of what the walk has seen.  `WalkInv` says that: every
list element already passed lies outside `[last_pid, next_safe)`.  A step of
the walk either lowers `next_safe` to the element, moves `last_pid` up by one
inside the interval, or starts again with nothing seen.  When the walk ends
nothing is inside the interval, so `last_pid` is unused (`FreshPid`) and the
next `next_safe - last_pid - 1` calls may skip the walk (`GapIsFree`).  The
only assumption is `PidAssumption`, the static_assert of get_pid.

`Proc_proofs` proves for any finite set of user processes, any `MAX_PROCESS > 2`, any
time slice and any ticks (`ProcAssumption`):
* `Scheduling`: `Spec => []SInv`, and from it `TypeCorrect` (`TypeOK`, which is not
  among the runs' properties), and what the run proc checks on its instance: `RunQueueIsExact`,
  `SleepersAreFound`, `FramesAreLive` and `FirstComeFirstServed`, the action property
  `NoOvertaking`;
* `FamilyInvariant`: `Spec => []FInv`, and from it `TreeIsFamily`, `NoWakeupLost`
  and `NoOtherPanic`;
* `ImplementsLife`: `Spec => LifeSpec`.

`SInv` has a part for the scheduler's record (`SchedOK`: the run queue is exact),
one for the timer list (`TimersOK`), one for the readers (`ReadersOK`), and one for
each process (`Placed`): the point where it stands, its state and its wait_state
belong together, its timer is linked only while it is in do_sleep, and its wait
entry only while it reads.  That part is what makes the others inductive: a wakeup
must know that the process it takes from a list is asleep or already runnable and
never a zombie, and do_exit that no list has the process any more.  A step changes
the process on the CPU, perhaps wakes others (`StaysPlaced`) and perhaps creates or
frees one; every action gives these lemmas the points it starts from and ends at.
Each step is also `Orderly`: it leaves the run queue, or its tail when the head
gets the CPU, at the front of the new one.

`FInv` says that every process has a list of children that the four pointers
describe (`Listed`), that fathers live (`Fathers`), and that children have a
higher rank than their fathers (`Ranked`).  The ranks are needed for initproc: when
it finds no child in do_wait no user process may be left, and a cycle of orphans
would be one; following the fathers of any process down the ranks ends at initproc.
From that come the assertions of init_main (`AssertionsHold`).  A step either leaves
the family alone (`Settled`), or forks, reaps or exits; the module begins with what
link, remove_links and the handing over of all children do to lists, each an
induction over the list.

`Clock_proofs`, with the list of delays in `TimerList_proofs`, proves for any
processes, size of the buffer, lengths and ticks (`ClockAssumption`):
* `NobodyWaitsForAKey`: `Spec => []WaitersAreHungry`, and `ImplementsKeyboard`:
  `Spec => KeyboardSpec`;
* `TimersDoNotDangle`: `Spec => []NoDanglingTimer` (the run proc checks the same of
  the composed kernel, as parts of `NoDanglingFrames` and `OnlyInitPanics`), and `ImplementsAlarm`:
  `Spec => AlarmSpec`.

For the keyboard the invariant adds to `WaitersAreHungry` that at most `BUFSIZE`
characters are unread although positions count modulo twice that, and that every
reader has room for what it still wants; the abstract line is what lies between
the two positions.  For the timers the countdown of a process is the sum of the
delays up to its entry (`Due`).  That add_timer and del_timer keep all other sums,
and that run_timer_list lowers each by one and takes off those at 0, is proved by
induction along the list.  The prover cannot apply the library's induction
theorem, whose parameter is an operator; `Induction` states it for a set, and is
proved from the pigeonhole theorem of FiniteSetTheorems.

`Stride_proofs` proves, for any set of processes, every `HALF` (2^31 in the
code) and every `BIG_STRIDE` below it (`StrideAssumption`), and with nothing
assumed of who joins the pool, when, and with which stride:
* `TypesCorrect`: `Spec => []TypeOK`;
* `TurnsDoNotPart`: `Spec => OnlyJoinersPart`: a turn, a sleep, an exit or a new
  priority leaves strides together that were together (`SharesSpec` asks for as
  much: `kept` ends with a joiner only);
* `ImplementsShares`: `Spec => SharesSpec`.

The argument: strides are together if there is a point on the circle from which all
of them lie less than half of it ahead.  Then the sign of the wrapped difference
compares these distances (`ComparisonIsSound`), and the difference itself is the
difference of the distances (`DifferenceIsSound`), so that differences add up as
`Books` asks.  The choice is the least of them (`LeastIsBehind`); seen from it
the others are still less than half the circle ahead (`Rebase`), and so is the
choice itself after its pass, which is less than half (`PassIsSmall`, `Advance`).
Who joins may leave the strides together, and then keeps the old differences, or
part them, and then the books are closed until some later turn, sleep or exit finds
them together again.  That such a step exists is not proved; the run stride
checks it (`Reunite`).

`Resources_proofs` proves, for any finite number of processes, any files,
descriptors, programs and numbers of pages, any size of pages, page tables and
directories and any place of the stack:
* `CountsAgreeWithTables`: `Spec => []FilesCounted`;
* `EveryPageIsCounted`: `Spec => []PagesCounted`, whatever the programs are and
  whatever their files lack;
* `NothingIsLeftBehind`: `Spec => []GivenBack` if all programs are `Neat`;
* `ProgramIsInMemory`: `Spec => []ImageLoaded` if all programs are `Paged`.

`FilesCounted` needs only the shape of the tables to be inductive (`Shape`).
The number of users of an inode is the cardinality of a set of pairs of process
and descriptor; when one table changes, it changes by what that table refers to
before and after (`OneTableChanges`, by a bijection between the descriptors and
the pairs of that process), and what a table refers to changes by the
descriptors that are filled or closed (`RefsSplit`).  `EntryKeeps` puts this
together once, and every operation gives it the descriptors it touched: all of
them at a fork or exit, one at open, dup and close, those behind NSTD and one
more at an exec.  do_wait and vfs_open with O_EXCL leave references behind, which
`lost` counts.

The pages rest on what the operators of `Vm` do to a record `w`.  `Worth(w)`, the
free pages and those the address space holds, is the same before and after every
step, those that fail included (`Alike`); only drop_mm adds to `leaked`, and by
as much as it takes from the space (`MmDropped`).  So the sum of free, held and lost
pages never changes, which is all that `PagesCounted` says: it is an equation, so
that a page freed twice or forgotten somewhere cannot hide behind another one.
A loop is unrolled once and for all by `TurnsExist`: there is a sequence of
records, each one turn away from the one before; every
loop (`PutPages`, `LoadSegments`, `CopyRange`, `DupMmap`, `UnmapAll`, `ExitRange`,
`ExitAll`) then has a predicate that says what i turns have done.

That nothing is left behind needs to know what the tables hold.  The invariant of
an address space is `Shaped`: vmas are not empty, every mapped page is in one, and
there is a table for every mapped page and no other, a directory for every table
and no other (`TablesFit`).  exit_mmap gives back everything if the space is also
`FullMm`: every page of every vma is mapped, and `TidyVmas`.  load_icode keeps that for
a neat program as long as it does not fail (`EvenIsFull`), and copy_mm copies it.
When load_icode fails, `Undone` tells two cases apart: a program turned down for its
headers leaves whole segments, which go back; a page or a piece of the file that
is missing leaves half a vma, of which only the sum is known (`Filled`, `Fetched`).
`CodeLoaded`, `MmCopied`, `Forked` and `Executed` say the same of the calls.

`Image` adds what is in the pages.  `SegmentIsThere`: the pages that the TEXT/DATA
and BSS loops of load_icode put are those of the vma, none is put twice if the
zeros begin at a page, and each address has its unit; later segments lie in other
vmas, for mm_map refuses to overlap (`MmMap`), so they leave it alone
(`OneLaidMore`).  A child has the pages of its parent, unit by unit (`CopyMm`,
`ImageCopied`).

`PInv` joins them: every address space belongs to a process that runs and holds
the image of its program, and `used + leaked = total`.  One process changes at a
time; `OneEntryChanges` says that the number of all pages held changes by what this
process gets and gives back, and `EntryPays` leaves to every call the sum of its
own.  That a process with memory has its own directory in pgdir is `Directories`:
do_execve gives back the directory and the mm together, and load_icode sets both.

What the theorems ask of programs is what the code needs.  `Neat`: no segment is
empty, and vmas with pages in one directory have pages in the same tables, for
exit_range frees a directory after the first vma it visits there.  With
tools/user.ld text and data begin at 0x800020, within the 2 MB of one table, and
the stack ends at 2 GB, in another directory.  `Paged`: a segment with data has no
zeros, or they begin at a page; the linker script aligns the beginning of .data, not
its end, so programs with .data and .bss need not be `Paged`, and section 5 has
what happens to them.  Assumptions: `VmAssumption` (sizes are positive, the stack
has a page), `FilesAssumption`, `ResourcesAssumption`.

`CheckSync_proofs` proves, for a table of any size from 2, any number of meals and
any time slice (`TableAssumption`):
* `ForksAreExclusive`, `PutForksForgetsNobody`, `SignalMeansEating`: the invariants
  `NeighboursDoNotEat`, `NobodyForgotten` and `WokenMayEat` of the run check_sync;
* `MonitorHandsOver`, `CountsAreExact`: its invariants `HandedOverOnce` and
  `Counted`, on the monitor of monitor.c;
* `ImplementsDining`: `FairSpec => TableSpec`.

The lemmas on SemOps say, for any queues and threads, that up and down keep
`Queueing` (a thread is on at most one queue, asleep with WT_KSEM, and not in the
run queue), and whom they wake and put to sleep.  The invariant ties each
philosopher's point, his mark, his semaphore's value and his place on a queue
together (`Fits_sema`, `Fits_condvar`), and says why he is hungry and does not eat
(`Reason`): a neighbour eats.  Between the two calls of phi_test in
phi_put_forks the right neighbour may have no such reason; `Sound_sema` has a
set of those still to be thought of, which is empty when the step ends.  In the
monitor the invariant `Core_condvar` says where each thread may stand.
`HandedOverOnce` and `Counted` need one more, `Monitor`: either mutex has the one
permit and nobody is inside, or it has none and exactly one thread is between the
two ends of the monitor and on no queue (`Owned`); and next_count is the number
of threads in cond_signal (`Counts`).  What carries it is the way out of the
monitor.  A thread that leaves is alone inside, so if next_count is positive the
signaller it counts must be on the queue of next, and `up(&next)` finds him there:
the monitor passes to him and no permit is left behind.  It rests on mutex, next and
the idle process being three different things (`TableAssumption`).
For the refinement, rounds are counted as points say (`Rounds`), those away from
the table think (`Calm`), and the operators of SemOps leave the marks alone
(`Untouched`).

`Sfs_proofs` proves, for any set of files and descriptors, any disk, block size,
number of direct blocks and largest file that blocks can hold (`SfsAssumption`),
provided `~STALE` and `~OVERSEEK`:
* `DiskInvariant`: `Spec => []IInv`;
* `EveryBlockOwned`, `NothingDropped`: the invariants `BlocksOwned` and
  `CleanIsSaved` of the run sfs;
* `AssertionsHold`: `NoAssertFails`, which the run sfs_write refutes where
  `STALE` is true;
* `ContentsInvariant`: `Spec => []CInv`;
* `ReadsWhatIsThere`: the invariant `ReadsBack`;
* `FilesAreSequences`: `Spec => StoreSpec`, the refinement of `FileStore`.

Both conditions are needed: with either of them dropped TLC finds states that
violate each of the three properties (for OVERSEEK and the first two it takes
files of three blocks, one of them direct, section 5).  The invariant looks at the
block map as a function from places (an entry of an inode or of its indirect block,
or the pointer to the indirect block) to blocks, and `OneOwner` says that every
block that is not free is in exactly one place.  Allocation and freeing fill and
empty one place each (`OneBlockMore`, `OneBlockLess`), through all ways sfs_bmap_get
can fail half way.  `Core` adds that the entries below `blocks`, and no others, are
filled.  Between two calls the number of blocks also fits the size (`Sized`), a
clean inode is the one on disk (`Clean`), no position is beyond the end (`Inside`)
and nothing has failed (`Calm`).  A transfer is an induction over its chunks,
which tile the range from position to end (`ChunksTile`): each chunk begins in
an existing block or in the one just behind the last, so that the assertion of
sfs_bmap_load holds; when it stops half way on a full disk, it has added at most
the block it could fill, and the size that sfs_io sets covers that (`EndedDid`).
`IInv` was checked by TLC on the instance of the run sfs before it was proved.

For what files hold, `Unit(v, f, n)` is the unit that the block map finds for
offset n of file f, and 0 behind the last block.  Every operator that the calls
are made of says what it does to units: blocks that are added or noted elsewhere
change none (`SameUnits`), because a new block is cleared before it is noted and
one owner means that nobody else sees it; what is put into a block changes the
units of the chunk and no others, in no other file (`PutWrites`, which rests on
`OneOwner` as well).  An induction over the chunks gives `Carried` for a write, that
alen units have been written from the position on and nothing else, also when it
stops half way, and `Fetched` for a read.  `CInv` adds to `IInv` that units behind
the end of a file are 0 (`Padded`): without it a file that grows by a seek or a
write could show what an earlier, longer content left in its last block, and the
step would not be one of `FileStore`.  It is inductive because files only shrink
to nothing.  The lemmas `OpenShows` to `WriteShows` map the calls to steps of
`FileStore`, fsync to a stutter.

Only model-checked: that get_pid returns, that nobody starves and the other
liveness properties (liveness is beyond the prover); the skew heap (`SkewHeap`
is defined with RECURSIVE operators); `Pmm` and `Slob`, that is `BlocksAreGaps`,
`MemoryPartition`, `BuddiesMerged` and `PoolSpec`: the sizes in the buddy system are
powers of two, of which the provers know nothing, and the other allocators read
their lists with SelectSeq and folds, for which there are no lemmas yet.

## 5. Where code and comments disagree, and what the models leave out for it

Shown by a run that is expected to fail:
* pool_full, `ListIsFree` (default_pmm.c:54, 239, 242 against 148): a block freed
  behind all others on the list is linked to itself; it is not merged, and when it
  is merged or allocated later it stays on the list.  The same loop is in
  best_fit_pmm.c and in both init_memmap functions.  It takes memory that has been
  exhausted, which `EXHAUST = FALSE` excludes in the run pmm.
* sfs_write, `NoAssertFails` (sfs_inode.c:356): a descriptor keeps its position
  while another open truncates the file; its next write stops the kernel.  `STALE =
  FALSE` excludes it in the run sfs.
* exec_bss, `ImageLoaded` (proc.c:714 against 831): where the data of a segment end
  inside a page and zeros follow, the page is allocated and mapped a second time and
  the end of the data is gone.  For programs without such a segment
  `ProgramIsInMemory` shows that nothing of the kind happens.

Stated in a module, and refuted by TLC, in traces of 2 to 13 states, when put in place of the
properties of the cfg in brackets (with `INVARIANT`; `PROPERTY` for `EndsClean`):
* `RootIsMinimum` [SkewHeap.cfg] (Lab6 default_sched_stride.c:164 against sched.c:78
  and proc.c:146): a sleeper comes back with the stride of long ago and a child
  starts with 0.  Strides more than half the range apart make the comparison a
  circle, and the root of the heap, which stride_pick_next takes for "the minimum
  value of stride", is after another process.  With priority 1 the pass is nearly
  half the range, so that a child that is born in the second turn of its father is
  enough.  `Together` marks where this has happened; programs that go on sleeping
  that way can starve others, which is why `NobodyStarves` asks for `<>[]Together`.
* `NrFreeIsFree` [Memory.cfg] (buddy_pmm.c:306 and pmm.h:40 against
  buddy_pmm.c:239): the buddy system raises nr_free by the pages that are freed
  (225) and lowers it again by those of the buddy at every merge, although they stay
  free.  buddy_alloc_pages returns NULL when more than nr_free pages are asked for
  (162), so that in time it refuses memory that it has, and once the number has
  wrapped it refuses nothing.  `PagePool` therefore lets the buddy system return
  NULL at any time.
* `DirectoryInUse` [Resources.cfg] (proc.h:56 against proc.c:1031 and 287): when a
  page allocation fails, load_icode returns the 0 of the call before (proc.c:802,
  831, 848) and execve succeeds; the process has no memory, and `current->pgdir`
  still is the address of the directory that was freed, which proc_run loads the
  next time.
* `EndsClean` [Resources.cfg] (proc.c:725 against 813): a program whose file ends
  too soon, or that memory is too small for, is given up with part of a vma mapped,
  and exit_range leaves the directory, or a table, of the rest.  No allocation need
  fail.
* `NoReferenceLost` [Resources.cfg] (proc.c:1057 against 632): a process whose exec
  fails after its mm is gone, or that had none, exits without put_files, and do_wait
  frees the proc_struct: the references of its table are lost.

Seen while modelling, and part of the models:
* A process that is killed while it waits for the CPU finds the flag set only at
  its next return to user mode (trap.c:253); a do_wait on the way there goes to
  sleep all the same, and no later kill interrupts it (proc.c:1135).
* copy_files failing leaks the mm that copy_mm has attached (proc.c:583), which
  `leaked` counts; the descriptor of the program that do_execve opens stays open
  (proc.c:1017); opening an existing file with O_CREAT and O_EXCL leaks a reference
  (vfsfile.c:47), which `lost` counts.  `PagesCounted` and `FilesCounted` hold with these leaks counted in;
  they say that there are no others.
* A file opened with O_CREAT is truncated, also when it is opened for reading
  only (vfsfile.c:56).
* Lab2's SLUB goes through its free list once, in no order of addresses, when a
  block is freed: a neighbour that only touches what was merged later is not
  found (slub_pmm.c:322).  Its blocks partition memory, but are not always merged.
* When the ring buffer is full the next character replaces the oldest one
  (dev_stdin.c:28); `Keyboard` says so too.
* exit_range frees a level 0 directory whenever the range has no missing table in
  it, and otherwise never: with several vmas in one directory, or one that is
  larger than what is mapped, tables or directories are lost.  `leaked` counts them;
  with `Tidy` programs, as tools/user.ld makes them (the second segment follows the
  first, and the stack is far away), a process that runs has none (`GivenBack`).

Seen while modelling, and excluded:
* A seek that asks for more blocks than are free stops half way with blocks added
  and the size unchanged, and the next truncation asserts that they agree
  (sfs_inode.c:961, 951).  When the blocks it added hang in an indirect block that
  was there before, the inode is not even dirty (sfs_inode.c:230, 365): if it had just
  been written back, the last close drops it, and the blocks belong to nobody.
  `OVERSEEK = FALSE` excludes both.
* kmalloc of at least PAGE_SIZE - 2 SLOB_UNIT and less than PAGE_SIZE - SLOB_UNIT
  bytes takes the way of small objects and fails the assertion of slob_alloc, to
  which the header has been added already (kmalloc.c:234, 99).  `ObjSizes` has none.
* find_order rounds down where it should round up: a kmalloc of 8193 bytes gets two
  pages.  `ObjSizes` has multiples of the page only, above a page.
* The stride class of Lab8 divides by a priority that is 0 until it is set
  (default_sched_stride.c:138); sched_init never selects it, so that it never
  runs.  Lab6's, the one modelled, tests for 0, and has another BIG_STRIDE.
* The buddy system asserts that a block is freed with the size it was allocated
  with, which all callers do.

## 6. Not modelled, and the plan

Not modelled: directories, path lookup, mounting, devices other than stdin and
disk errors (the disk is memory); faults of programs that have memory, for which
trap.c prints a line and returns; the arguments of execve and trap frames; the
object caches of SLUB, the alignment of slob_alloc and ksize; drivers, console, device
tree, boot code, monitor, libraries, which keep no state that another part
relies on; user programs, for which the models let anything be called at any
time; the earlier labs, whose files are stages of those modelled.

Next, in this order:
1. Proofs: blocks of `Buddy` and of `FreeList` partition memory (`BlocksAreGaps`).
2. `Vfs`: directories, lookup and the hash list of inodes of sfs.
