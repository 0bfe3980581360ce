--------------------------------- MODULE Sched ---------------------------------
(***************************************************************************)
(* The scheduler core (kern/schedule/sched.c) and the round-robin class      *)
(* (kern/schedule/default_sched.c) as functions on one record k:            *)
(*                                                                         *)
(*   k.cur      current                                                    *)
(*   k.rq       rq->run_list, the head first                               *)
(*   k.st       proc->state of every process slot                          *)
(*   k.ws       proc->wait_state ("0" or the name of the WT_ constant)     *)
(*   k.slice    proc->time_slice                                           *)
(*   k.resched  proc->need_resched                                         *)
(*   k.panic    "none", or the assertion that stopped the kernel           *)
(*                                                                         *)
(* The C functions run with interrupts disabled and call one another, so a  *)
(* handler that calls several of them is the composition of the operators.  *)
(*                                                                         *)
(* An operator X_Y that precedes X is X with a plausible mistake in it; the  *)
(* README says which property notices.  Only X is used.                     *)
(***************************************************************************)
EXTENDS Integers, Sequences, SequencesExt

CONSTANTS Idle,            \* idleproc, which is never on the run queue
          MAX_TIME_SLICE   \* rq->max_time_slice

ASSUME SliceAssumption == MAX_TIME_SLICE \in Nat \ {0}

(* WT_INTERRUPTED is set in these wait states, and not in WT_KSEM. *)
Interruptible == {"WT_CHILD", "WT_TIMER", "WT_KBD"}

(* list_del of the node x. *)
Unlink(s, x) == RemoveAt(s, CHOOSE i \in 1 .. Len(s) : s[i] = x)

(* assert() and panic(): the first failure is the one that stops the kernel. *)
Panic(k, why) == IF k.panic = "none" THEN [k EXCEPT !.panic = why] ELSE k

-----------------------------------------------------------------------------
(* The round-robin class. *)

RR_enqueue_AtHead(k, p) ==
    IF p \in ToSet(k.rq) THEN Panic(k, "RR_enqueue")
    ELSE [k EXCEPT !.rq = <<p>> \o @,
                   !.slice[p] = IF @ = 0 \/ @ > MAX_TIME_SLICE THEN MAX_TIME_SLICE ELSE @]

RR_enqueue(k, p) ==
    IF p \in ToSet(k.rq) THEN Panic(k, "RR_enqueue")
    ELSE [k EXCEPT !.rq = Append(@, p),
                   !.slice[p] = IF @ = 0 \/ @ > MAX_TIME_SLICE THEN MAX_TIME_SLICE ELSE @]

RR_dequeue(k, p) ==
    IF p \notin ToSet(k.rq) THEN Panic(k, "RR_dequeue")
    ELSE [k EXCEPT !.rq = Unlink(@, p)]

RR_proc_tick_NoResched(k, p) ==
    IF k.slice[p] > 0 THEN [k EXCEPT !.slice[p] = @ - 1] ELSE k

RR_proc_tick(k, p) ==
    LET left == IF k.slice[p] > 0 THEN k.slice[p] - 1 ELSE k.slice[p]
    IN  [k EXCEPT !.slice[p] = left,
                  !.resched[p] = @ \/ left = 0]

-----------------------------------------------------------------------------
(* The core: the class is consulted for every process but idleproc. *)

sched_class_enqueue(k, p) == IF p = Idle THEN k ELSE RR_enqueue(k, p)

sched_class_proc_tick(k) ==
    IF k.cur = Idle THEN [k EXCEPT !.resched[Idle] = TRUE] ELSE RR_proc_tick(k, k.cur)

(* Waking a runnable process only prints a warning. *)
wakeup_proc_KeepsWaitState(k, p) ==
    IF k.st[p] = "ZOMBIE" THEN Panic(k, "wakeup_proc")
    ELSE IF k.st[p] = "RUNNABLE" THEN k
    ELSE LET awake == [k EXCEPT !.st[p] = "RUNNABLE"]
         IN  IF p = k.cur THEN awake ELSE sched_class_enqueue(awake, p)

wakeup_proc(k, p) ==
    IF k.st[p] = "ZOMBIE" THEN Panic(k, "wakeup_proc")
    ELSE IF k.st[p] = "RUNNABLE" THEN k
    ELSE LET awake == [k EXCEPT !.st[p] = "RUNNABLE", !.ws[p] = "0"]
         IN  IF p = k.cur THEN awake ELSE sched_class_enqueue(awake, p)

(* wakeup_proc for each process of a sequence, in order. *)
wakeup_each(k, ps) ==
    LET woken[i \in 0 .. Len(ps)] == IF i = 0 THEN k ELSE wakeup_proc(woken[i - 1], ps[i])
    IN  woken[Len(ps)]

(* The CPU goes to the head of the queue, behind which a current process    *)
(* that can still run has been put; to idleproc when the queue is empty.    *)
schedule_AlwaysEnqueues(k) ==
    LET k1 == sched_class_enqueue([k EXCEPT !.resched[k.cur] = FALSE], k.cur)
    IN  IF k1.rq = <<>> THEN [k1 EXCEPT !.cur = Idle]
        ELSE [RR_dequeue(k1, Head(k1.rq)) EXCEPT !.cur = Head(k1.rq)]

schedule(k) ==
    LET k0 == [k EXCEPT !.resched[k.cur] = FALSE]
        k1 == IF k0.st[k.cur] = "RUNNABLE" THEN sched_class_enqueue(k0, k.cur) ELSE k0
    IN  IF k1.rq = <<>> THEN [k1 EXCEPT !.cur = Idle]
        ELSE [RR_dequeue(k1, Head(k1.rq)) EXCEPT !.cur = Head(k1.rq)]

(* wait_state of a process that the timer fires for: 0 is only warned about *)
(* (somebody else has woken it already).                                    *)
run_timer_assert(k, ps) ==
    IF \A i \in 1 .. Len(ps) : k.ws[ps[i]] \in Interruptible \cup {"0"}
      THEN k ELSE Panic(k, "run_timer_list")
=============================================================================
