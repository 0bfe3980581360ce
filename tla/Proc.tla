--------------------------------- MODULE Proc ----------------------------------
(***************************************************************************)
(* The life of processes in the kernel (kern/process/proc.c) with the       *)
(* scheduler, the timer list, the keyboard wait queue and the trap handler  *)
(* it runs on.                                                              *)
(*                                                                         *)
(* One CPU, not preemptive in the kernel: a system call runs with interrupts *)
(* off until it calls schedule(), and trap() gives up the CPU only on the   *)
(* way back to user mode.  A step of the model is therefore a stretch of    *)
(* kernel code between two points where another process may run; pc[p] is   *)
(* the point where p continues.                                             *)
(*                                                                         *)
(*   "user"      in user mode                                               *)
(*   "trapret"   at the end of trap(), a system call having been done       *)
(*   "exit"      at the entry of do_exit                                    *)
(*   "wait"      at label repeat of do_wait                                 *)
(*   "waited"    in do_wait, back from schedule()                           *)
(*   "sleep"     in do_sleep, back from schedule()                          *)
(*   "kbd"       in dev_stdin_read, back from schedule()                    *)
(*   "idle"      the loop of cpu_idle                                       *)
(*   "initfork", "initsched", "initdone"   the three points of init_main    *)
(*   "kmain"     user_main, the kernel thread that becomes the first user    *)
(*               process                                                    *)
(*   "none"      no such process                                            *)
(*                                                                         *)
(* A process is identified by its proc_struct slot; get_pid gives it a pid  *)
(* that no other process has (PidAlloc), so find_proc(pid) is the slot.     *)
(***************************************************************************)
EXTENDS Sched, TimerList, ProcTree, FiniteSets

CONSTANTS Init0,        \* initproc
          User,         \* the slots of all other processes
          MAX_PROCESS,  \* bound on nr_process
          MaxTicks,     \* bound on the argument of do_sleep
          Killable,     \* the processes that user programs pass to do_kill
          Calls         \* the system calls that user programs make

ASSUME ProcAssumption ==
    /\ Idle # Init0 /\ Idle \notin User /\ Init0 \notin User
    /\ None \notin User \cup {Idle, Init0} /\ IsFiniteSet(User)
    /\ MAX_PROCESS \in Nat /\ MAX_PROCESS > 2
    /\ MaxTicks \in Nat \ {0}
    /\ Killable \subseteq User \cup {Init0}
    /\ Calls \subseteq {"fork", "exit", "wait", "kill", "yield", "sleep", "exec", "read", "other"}

Procs == User \cup {Idle, Init0}

VARIABLES k,        \* the scheduler's record, see Sched
          timers,   \* timer_list
          kbdq,     \* the wait queue of dev_stdin.c
          keyed,    \* wait->wakeup_flags = WT_KBD in the frame of dev_stdin_read
          tree,     \* the pointers to parent, children and siblings, see ProcTree
          exiting,  \* PF_EXITING in proc->flags
          pc,
          waitFor,  \* the pid argument of do_wait
          mm        \* proc->mm # NULL

vars == <<k, timers, kbdq, keyed, tree, exiting, pc, waitFor, mm>>

Exists(p) == pc[p] # "none"
nr_process == Cardinality({p \in Procs : Exists(p)})

(* Fields of a proc_struct as alloc_proc leaves them; the dead content of a *)
(* freed slot is given the same value.                                      *)
alloc_proc(s, p) ==
    [s EXCEPT !.st[p] = "UNINIT", !.ws[p] = "0", !.slice[p] = 0, !.resched[p] = FALSE]

-----------------------------------------------------------------------------
(* proc_init has made idleproc by hand and init_main by do_fork. *)
Init ==
    /\ k = [cur |-> Idle,
            rq |-> <<Init0>>,
            st |-> [p \in Procs |-> IF p \in User THEN "UNINIT" ELSE "RUNNABLE"],
            ws |-> [p \in Procs |-> "0"],
            slice |-> [p \in Procs |-> IF p = Init0 THEN MAX_TIME_SLICE ELSE 0],
            resched |-> [p \in Procs |-> p = Idle],
            panic |-> "none"]
    /\ timers = <<>>
    /\ kbdq = <<>>
    /\ keyed = [p \in Procs |-> FALSE]
    /\ tree = set_links(NoLinks(Procs), Init0, Idle)
    /\ exiting = [p \in Procs |-> FALSE]
    /\ pc = [p \in Procs |-> CASE p = Idle -> "idle" [] p = Init0 -> "initfork" [] OTHER -> "none"]
    /\ waitFor = [p \in Procs |-> None]
    /\ mm = [p \in Procs |-> FALSE]

Running == k.panic = "none"
At(point) == Running /\ pc[k.cur] = point
Goto(p, point) == pc' = [pc EXCEPT ![p] = point]

(* User programs run only with an address space of their own. *)
Calling(call) == call \in Calls /\ At("user") /\ mm[k.cur]

-----------------------------------------------------------------------------
(* do_fork *)

(* The successful path: the child is linked in at the head of the parent's  *)
(* children and made runnable.                                              *)
do_fork(c, childPc) ==
    LET p == k.cur
        s == alloc_proc(k, c)
    IN  /\ nr_process < MAX_PROCESS
        /\ pc[c] = "none"
        /\ k' = IF k.ws[p] # "0" THEN Panic(k, "do_fork") ELSE wakeup_proc(s, c)
        /\ tree' = set_links(tree, c, p)
        /\ exiting' = [exiting EXCEPT ![c] = FALSE]
        /\ mm' = [mm EXCEPT ![c] = mm[p]]
        /\ UNCHANGED <<timers, kbdq, keyed, waitFor>>
        /\ pc' = [pc EXCEPT ![c] = childPc,
                            ![p] = IF p = Init0 THEN "wait" ELSE "trapret"]

sys_fork == Calling("fork") /\ \E c \in User : do_fork(c, "user")

-----------------------------------------------------------------------------
(* do_exit *)

(* A parent that waits for a child is woken; then initproc, if it waits and  *)
(* one of the children it inherits is dead already.                         *)
TellParent_Never(s, p) == s
TellParent(s, p) ==
    IF s.ws[tree.parent[p]] = "WT_CHILD" THEN wakeup_proc(s, tree.parent[p]) ELSE s

TellInit_Never(s, p) == s
TellInit(s, p) ==
    IF s.ws[Init0] = "WT_CHILD" /\ \E c \in ToSet(Children(tree, p)) : s.st[c] = "ZOMBIE"
      THEN wakeup_proc(s, Init0) ELSE s

do_exit ==
    LET p == k.cur
        dead == [k EXCEPT !.st[p] = "ZOMBIE"]
    IN  /\ At("exit")
        /\ IF p \in {Idle, Init0}
             THEN /\ k' = Panic(k, "initproc exit")
                  /\ UNCHANGED <<tree, mm>>
             ELSE /\ k' = schedule(TellInit(TellParent(dead, p), p))
                  /\ tree' = hand_over(tree, p, Init0)
                  /\ mm' = [mm EXCEPT ![p] = FALSE]
        /\ UNCHANGED <<timers, kbdq, keyed, exiting, pc, waitFor>>

sys_exit ==
    /\ Calling("exit")
    /\ Goto(k.cur, "exit")
    /\ UNCHANGED <<k, timers, kbdq, keyed, tree, exiting, waitFor, mm>>

-----------------------------------------------------------------------------
(* do_wait *)

(* The children that a call with argument pid is about. *)
Candidates(p, pid) ==
    IF pid = None THEN Children(tree, p)
    ELSE IF Exists(pid) /\ tree.parent[pid] = p THEN <<pid>> ELSE <<>>

ZombieAmong_NotRunnable(cs) == SelectInSeq(cs, LAMBDA c : k.st[c] # "RUNNABLE")
ZombieAmong(cs) == SelectInSeq(cs, LAMBDA c : k.st[c] = "ZOMBIE")

sys_wait ==
    /\ Calling("wait")
    /\ \E pid \in User \cup {None} : waitFor' = [waitFor EXCEPT ![k.cur] = pid]
    /\ Goto(k.cur, "wait")
    /\ UNCHANGED <<k, timers, kbdq, keyed, tree, exiting, mm>>

(* One round of the loop: the first zombie is unlinked and freed; without    *)
(* one the caller sleeps; without a child the call fails.                   *)
do_wait_found(c) ==
    LET p == k.cur IN
    /\ tree' = remove_links(tree, c)
    /\ k' = alloc_proc(k, c)
    /\ pc' = [pc EXCEPT ![c] = "none", ![p] = IF p = Init0 THEN "initsched" ELSE "trapret"]
    /\ exiting' = [exiting EXCEPT ![c] = FALSE]
    /\ waitFor' = [waitFor EXCEPT ![p] = None]
    /\ UNCHANGED <<timers, kbdq, keyed, mm>>

do_wait ==
    LET p == k.cur
        cs == Candidates(p, waitFor[p])
        z == ZombieAmong(cs)
    IN  /\ At("wait")
        /\ \/ /\ z # 0
              /\ do_wait_found(cs[z])
           \/ /\ z = 0 /\ cs # <<>>
              /\ k' = schedule([k EXCEPT !.st[p] = "SLEEPING", !.ws[p] = "WT_CHILD"])
              /\ Goto(p, "waited")
              /\ UNCHANGED <<timers, kbdq, keyed, tree, exiting, waitFor, mm>>
           \/ /\ cs = <<>>
              /\ Goto(p, IF p = Init0 THEN "initdone" ELSE "trapret")
              /\ waitFor' = [waitFor EXCEPT ![p] = None]
              /\ UNCHANGED <<k, timers, kbdq, keyed, tree, exiting, mm>>

do_wait_resume ==
    /\ At("waited")
    /\ IF exiting[k.cur]
         THEN /\ Goto(k.cur, "exit")
              /\ waitFor' = [waitFor EXCEPT ![k.cur] = None]
         ELSE Goto(k.cur, "wait") /\ UNCHANGED waitFor
    /\ UNCHANGED <<k, timers, kbdq, keyed, tree, exiting, mm>>

-----------------------------------------------------------------------------
(* do_kill, do_yield, do_sleep *)

(* The flag is set once; a process in an interruptible wait is woken, any   *)
(* other one finds the flag at the end of its next trap from user mode.     *)
Interrupts_AnyWait(q) == ~exiting[q]
Interrupts(q) == ~exiting[q] /\ k.ws[q] \in Interruptible

do_kill(q) ==
    /\ Calling("kill")
    /\ Exists(q)
    /\ exiting' = [exiting EXCEPT ![q] = TRUE]
    /\ k' = IF Interrupts(q) THEN wakeup_proc(k, q) ELSE k
    /\ Goto(k.cur, "trapret")
    /\ UNCHANGED <<timers, kbdq, keyed, tree, waitFor, mm>>

do_yield ==
    /\ Calling("yield")
    /\ k' = [k EXCEPT !.resched[k.cur] = TRUE]
    /\ Goto(k.cur, "trapret")
    /\ UNCHANGED <<timers, kbdq, keyed, tree, exiting, waitFor, mm>>

do_sleep(ticks) ==
    LET p == k.cur IN
    /\ Calling("sleep")
    /\ timers' = add_timer(timers, p, ticks)
    /\ k' = schedule([k EXCEPT !.st[p] = "SLEEPING", !.ws[p] = "WT_TIMER"])
    /\ Goto(p, "sleep")
    /\ UNCHANGED <<kbdq, keyed, tree, exiting, waitFor, mm>>

do_sleep_resume_KeepsTimer ==
    /\ At("sleep")
    /\ Goto(k.cur, "trapret")
    /\ UNCHANGED <<k, timers, kbdq, keyed, tree, exiting, waitFor, mm>>

do_sleep_resume ==
    /\ At("sleep")
    /\ timers' = del_timer(timers, k.cur)
    /\ Goto(k.cur, "trapret")
    /\ UNCHANGED <<k, kbdq, keyed, tree, exiting, waitFor, mm>>

-----------------------------------------------------------------------------
(* do_execve *)

(* Whatever fails after files_closeall ends in do_exit: a file that cannot  *)
(* be opened before the old mm is given up, a load_icode that fails after.  *)
(* kernel_execve calls it from user_main, which has no mm yet.              *)
do_execve_fails ==
    /\ Calling("exec") \/ At("kmain")
    /\ \E kept \in {mm[k.cur], FALSE} : mm' = [mm EXCEPT ![k.cur] = kept]
    /\ Goto(k.cur, "exit")
    /\ UNCHANGED <<k, timers, kbdq, keyed, tree, exiting, waitFor>>

(* load_icode runs out of pages for a segment: ret is still 0 from the read *)
(* before, so it reports success although the new mm is destroyed, and the   *)
(* process returns to user mode with no address space.                      *)
do_execve_no_page ==
    /\ Calling("exec")
    /\ mm' = [mm EXCEPT ![k.cur] = FALSE]
    /\ Goto(k.cur, "trapret")
    /\ UNCHANGED <<k, timers, kbdq, keyed, tree, exiting, waitFor>>

do_execve ==
    /\ Calling("exec") \/ At("kmain")
    /\ mm' = [mm EXCEPT ![k.cur] = TRUE]
    /\ Goto(k.cur, IF pc[k.cur] = "kmain" THEN "user" ELSE "trapret")
    /\ UNCHANGED <<k, timers, kbdq, keyed, tree, exiting, waitFor>>

-----------------------------------------------------------------------------
(* wait_current_del: the reader may still be on the queue (it was killed). *)
KbdqWithout(p) == IF p \in ToSet(kbdq) THEN Unlink(kbdq, p) ELSE kbdq

(* dev_stdin_read: the reader finds no character and waits for one. *)
stdin_wait ==
    LET p == k.cur IN
    /\ kbdq' = Append(KbdqWithout(p), p)
    /\ keyed' = [keyed EXCEPT ![p] = FALSE]
    /\ k' = schedule([k EXCEPT !.st[p] = "SLEEPING", !.ws[p] = "WT_KBD"])
    /\ Goto(p, "kbd")
    /\ UNCHANGED <<timers, tree, exiting, waitFor, mm>>

sys_read_empty == Calling("read") /\ stdin_wait

(* Back from schedule(): wait_current_del, then another try if a key woke   *)
(* the reader -- other readers may have emptied the buffer again, or more   *)
(* characters may be wanted -- and the end of the read if a kill did.       *)
stdin_resume ==
    LET p == k.cur IN
    /\ At("kbd")
    /\ \/ keyed[p] /\ stdin_wait
       \/ /\ kbdq' = KbdqWithout(p)
          /\ keyed' = [keyed EXCEPT ![p] = FALSE]
          /\ Goto(p, "trapret")
          /\ UNCHANGED <<k, timers, tree, exiting, waitFor, mm>>

-----------------------------------------------------------------------------
(* The system calls that change nothing kept here: getpid, putc, an I/O that *)
(* does not wait, and every call that fails early (kill of a pid that does  *)
(* not exist, fork without memory, exec with bad arguments, sleep(0)).      *)
sys_other ==
    /\ Calling("other")
    /\ Goto(k.cur, "trapret")
    /\ UNCHANGED <<k, timers, kbdq, keyed, tree, exiting, waitFor, mm>>

(* A process without an address space faults on every instruction; the       *)
(* exception handler prints a line and returns.                             *)
fault ==
    /\ At("user") /\ ~mm[k.cur]
    /\ Goto(k.cur, "trapret")
    /\ UNCHANGED <<k, timers, kbdq, keyed, tree, exiting, waitFor, mm>>

(* The end of trap() for a trap from user mode. *)
trap_return ==
    /\ At("trapret")
    /\ IF exiting[k.cur]
         THEN Goto(k.cur, "exit") /\ UNCHANGED k
         ELSE /\ Goto(k.cur, "user")
              /\ k' = IF k.resched[k.cur] THEN schedule(k) ELSE k
    /\ UNCHANGED <<timers, kbdq, keyed, tree, exiting, waitFor, mm>>

(* The clock interrupt: run_timer_list, then at most one key for the readers *)
(* of the keyboard.  It comes in user mode and, harmlessly, in the kernel    *)
(* threads; only from user mode does trap() look at what it did.            *)
InterruptsOn == pc[k.cur] \in {"user", "idle", "kmain", "initfork", "initsched", "wait", "initdone"}

clock ==
    LET p == k.cur
        ready == IF HeadMayCount(timers) THEN run_timer_assert(k, Fired(timers))
                 ELSE Panic(k, "timer expires 0")
        ticked == sched_class_proc_tick(wakeup_each(ready, Fired(timers)))
    IN  /\ Running
        /\ InterruptsOn /\ (pc[p] = "wait" => p = Init0)
        /\ timers' = AfterTick(timers)
        /\ \E key \in BOOLEAN :
             /\ k' = IF key THEN wakeup_each(ticked, kbdq) ELSE ticked
             /\ kbdq' = IF key THEN <<>> ELSE kbdq
             /\ keyed' = [q \in Procs |-> keyed[q] \/ (key /\ q \in ToSet(kbdq))]
        /\ Goto(p, IF pc[p] = "user" THEN "trapret" ELSE pc[p])
        /\ UNCHANGED <<tree, exiting, waitFor, mm>>

-----------------------------------------------------------------------------
(* The kernel threads. *)

(* init_main starts user_main by kernel_thread (init_main has no mm to share). *)
init_main_fork == At("initfork") /\ \E c \in User : do_fork(c, "kmain")

(* user_main executes the first program. *)
user_main == At("kmain") /\ (do_execve \/ do_execve_fails)

(* while (do_wait(0, NULL) == 0) schedule(); *)
init_main_loop ==
    /\ At("initsched")
    /\ k' = schedule(k)
    /\ Goto(Init0, "wait")
    /\ UNCHANGED <<timers, kbdq, keyed, tree, exiting, waitFor, mm>>

(* The assertions at the end of init_main; then it returns into do_exit. *)
init_main_done ==
    /\ At("initdone")
    /\ IF /\ {tree.cptr[Init0], tree.yptr[Init0], tree.optr[Init0]} = {None}
          /\ nr_process = 2
         THEN Goto(Init0, "exit") /\ UNCHANGED k
         ELSE k' = Panic(k, "init_main") /\ UNCHANGED pc
    /\ UNCHANGED <<timers, kbdq, keyed, tree, exiting, waitFor, mm>>

cpu_idle ==
    /\ At("idle")
    /\ k.resched[Idle]
    /\ k' = schedule(k)
    /\ UNCHANGED <<timers, kbdq, keyed, tree, exiting, pc, waitFor, mm>>

(* After a panic the kernel monitor runs for ever. *)
panicked == ~Running /\ UNCHANGED vars

-----------------------------------------------------------------------------
Syscall ==
    \/ sys_fork \/ sys_exit \/ sys_wait
    \/ \E q \in Killable : do_kill(q)
    \/ do_yield
    \/ \E ticks \in 1 .. MaxTicks : do_sleep(ticks)
    \/ do_execve \/ do_execve_fails \/ do_execve_no_page
    \/ sys_read_empty \/ sys_other \/ fault

Kernel ==
    \/ do_exit \/ do_wait \/ do_wait_resume \/ do_sleep_resume \/ stdin_resume
    \/ trap_return \/ user_main \/ init_main_fork \/ init_main_loop \/ init_main_done \/ cpu_idle

Next == Syscall \/ Kernel \/ clock \/ panicked

Spec == Init /\ [][Next]_vars

(* The CPU goes on executing kernel code.  The clock goes on ticking, and an *)
(* interrupt that became pending while a system call ran is taken when the   *)
(* process is back in user mode: a program cannot dodge the clock by calling *)
(* the kernel all the time, hence SF.  User programs themselves owe nothing, *)
(* they may loop for ever without a system call.                            *)
Fairness == WF_vars(Kernel) /\ SF_vars(clock)

FairSpec == Spec /\ Fairness
-----------------------------------------------------------------------------
TypeOK ==
    /\ k \in [cur : Procs, rq : Seq(Procs),
              st : [Procs -> {"UNINIT", "SLEEPING", "RUNNABLE", "ZOMBIE"}],
              ws : [Procs -> Interruptible \cup {"0"}],
              slice : [Procs -> 0 .. MAX_TIME_SLICE],
              resched : [Procs -> BOOLEAN],
              panic : {"none", "RR_enqueue", "RR_dequeue", "wakeup_proc", "run_timer_list",
                       "timer expires 0", "do_fork", "initproc exit", "init_main"}]
    /\ timers \in Seq([proc : User, expires : 0 .. MaxTicks])
    /\ kbdq \in Seq(User)
    /\ keyed \in [Procs -> BOOLEAN]
    /\ tree \in LET pointer == [Procs -> Procs \cup {None}]
               IN  [parent : pointer, cptr : pointer, optr : pointer, yptr : pointer]
    /\ exiting \in [Procs -> BOOLEAN]
    /\ pc \in [Procs -> {"none", "user", "trapret", "exit", "wait", "waited", "sleep", "kbd",
                         "idle", "initfork", "initsched", "initdone", "kmain"}]
    /\ waitFor \in [Procs -> User \cup {None}]
    /\ mm \in [Procs -> BOOLEAN]

Once(s) == \A i, j \in 1 .. Len(s) : s[i] = s[j] => i = j

(* The run queue holds, once each, exactly the runnable processes other than *)
(* current and idleproc: none is forgotten, none is queued while it sleeps   *)
(* or after it died, and current can always run.                            *)
RunQueueExact ==
    Running =>
      /\ Once(k.rq)
      /\ ToSet(k.rq) = {p \in Procs \ {Idle, k.cur} : k.st[p] = "RUNNABLE"}
      /\ k.st[k.cur] = "RUNNABLE"

(* wait_state is 0 exactly for the processes that are not asleep, and says   *)
(* in which function a sleeper waits.  A sleeper can be found by whoever is  *)
(* to wake it: its timer is linked, or its wait entry is queued.            *)
SleepersCanBeFound ==
    \A p \in Procs :
      /\ k.st[p] = "SLEEPING" <=> k.ws[p] # "0"
      /\ k.ws[p] = "WT_CHILD" => pc[p] = "waited"
      /\ k.ws[p] = "WT_TIMER" => pc[p] = "sleep" /\ HasTimer(timers, p)
      /\ k.ws[p] = "WT_KBD" => pc[p] = "kbd" /\ p \in ToSet(kbdq)

(* timer_t and wait_t are local variables of do_sleep and dev_stdin_read:   *)
(* nothing stays linked after those frames are gone, whether the process    *)
(* was woken in the normal way or by a kill.                                *)
NoDanglingFrames ==
    /\ \A i \in 1 .. Len(timers) : pc[timers[i].proc] = "sleep"
    /\ \A p \in ToSet(kbdq) : pc[p] = "kbd"
    /\ Once([i \in 1 .. Len(timers) |-> timers[i].proc]) /\ Once(kbdq)

(* The process tree: a process is among the children of its parent and of   *)
(* nobody else, and the list of siblings is the same in both directions;    *)
(* the parent is alive, for do_exit hands children over; and no pointer      *)
(* leads to a freed proc_struct.                                            *)
FamilyIsTree ==
    Running =>
      /\ \A p \in Procs : ListsChildren(tree, p)
      /\ \A c \in Procs :
           tree.parent[c] # None =>
             Exists(c) /\ k.st[tree.parent[c]] \in {"SLEEPING", "RUNNABLE"}
      /\ \A c \in Procs \ {Idle} : Exists(c) => tree.parent[c] # None

(* No lost wakeup between do_exit and do_wait: nobody sleeps in do_wait      *)
(* while a child it waits for is a zombie, and there is always a child that  *)
(* can still wake it.                                                       *)
NoLostChild ==
    \A p \in Procs :
      k.ws[p] = "WT_CHILD" =>
        LET cs == Candidates(p, waitFor[p])
        IN  cs # <<>> /\ \A i \in 1 .. Len(cs) : k.st[cs[i]] \in {"SLEEPING", "RUNNABLE"}

(* Every assertion and panic of these functions is unreachable, except the   *)
(* exit of initproc; and that happens only when all other processes have     *)
(* been reaped ("all user-mode processes have quit") or initproc was killed. *)
OnlyInitPanics ==
    /\ k.panic \in {"none", "initproc exit"}
    /\ k.panic = "initproc exit" => exiting[Init0] \/ \A p \in User : ~Exists(p)

(* First come, first served: a process that waits for the CPU is overtaken   *)
(* neither by one that was queued behind it nor by one that is woken, forked *)
(* or preempted later.                                                      *)
Ahead(q, i) == ToSet(SubSeq(q, 1, i - 1))

NoOvertaking ==
    [][\A i \in DOMAIN k.rq :
         \/ k'.cur = k.rq[i]
         \/ /\ k'.cur \in Ahead(k.rq, i) \cup {k.cur}
            /\ \E j \in DOMAIN k'.rq :
                 k'.rq[j] = k.rq[i] /\ Ahead(k'.rq, j) \subseteq Ahead(k.rq, i)]_vars

(* Seen from user programs: processes that fork, die and are waited for.    *)
Life == INSTANCE ProcLife WITH
            Proc <- Procs,
            First <- Init0,
            Boot <- Idle,
            life <- [p \in Procs |-> IF ~Exists(p) THEN "none"
                                     ELSE IF k.st[p] = "ZOMBIE" THEN "zombie" ELSE "alive"],
            parent <- tree.parent

LifeSpec == Life!Spec

-----------------------------------------------------------------------------
(* Round robin starves nobody: a runnable process gets the CPU. *)
RunnableRuns ==
    \A p \in Procs \ {Idle} : k.st[p] = "RUNNABLE" ~> k.cur = p \/ ~Running

(* A sleeper's timer wakes it. *)
SleepersWake ==
    \A p \in User : k.ws[p] = "WT_TIMER" ~> k.ws[p] # "WT_TIMER" \/ ~Running

(* An orphaned or abandoned zombie does not stay: initproc reaps it. *)
OrphansAreReaped ==
    \A p \in User : k.st[p] = "ZOMBIE" /\ tree.parent[p] = Init0 ~> ~Exists(p) \/ ~Running
=============================================================================
