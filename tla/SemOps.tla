--------------------------------- MODULE SemOps --------------------------------
(***************************************************************************)
(* Kernel semaphores and monitors (kern/sync/sem.c, monitor.c) as operators *)
(* on a record y, called by the kernel thread y.k.cur:                     *)
(*                                                                         *)
(*   y.k           the scheduler's record, see Sched                       *)
(*   y.value       sem->value of every semaphore                           *)
(*   y.queue       sem->wait_queue, the first waiter first                 *)
(*   y.count       cvp->count of every condition variable                  *)
(*   y.next_count  mtp->next_count                                         *)
(*                                                                         *)
(* A thread that blocks in down() has been switched away from when down    *)
(* returns here; it goes on behind the call when it becomes current again. *)
(* up() takes it off the queue, so that it holds the semaphore by then.    *)
(***************************************************************************)
EXTENDS Sched

CONSTANTS mutex, next   \* two semaphores: monitor->mutex, monitor->next

(* __up: the first waiter gets the semaphore, value rises only without one.  *)
up_RaisesToo(y, x) ==
    IF y.queue[x] = <<>> THEN [y EXCEPT !.value[x] = @ + 1]
    ELSE [y EXCEPT !.value[x] = @ + 1, !.queue[x] = Tail(@),
                   !.k = wakeup_proc(@, Head(y.queue[x]))]

up(y, x) ==
    IF y.queue[x] = <<>> THEN [y EXCEPT !.value[x] = @ + 1]
    ELSE LET p == Head(y.queue[x])
             k == IF y.k.ws[p] = "WT_KSEM" THEN y.k ELSE Panic(y.k, "__up")
         IN  [y EXCEPT !.queue[x] = Tail(@), !.k = wakeup_proc(k, p)]

(* __down, with wait_current_set when there is nothing to take.            *)
down(y, x) ==
    LET p == y.k.cur
    IN  IF y.value[x] > 0 THEN [y EXCEPT !.value[x] = @ - 1]
        ELSE [y EXCEPT !.queue[x] = Append(@, p),
                       !.k = schedule([@ EXCEPT !.st[p] = "SLEEPING", !.ws[p] = "WT_KSEM"])]

-----------------------------------------------------------------------------
(* The monitor: a semaphore mutex, a semaphore next for those who signalled  *)
(* and gave the monitor away, and one semaphore for each condition variable. *)

(* The last statement of every monitor procedure, and the first half of    *)
(* cond_wait: a thread that waits in cond_signal goes first.               *)
leave_monitor(y) == IF y.next_count > 0 THEN up(y, next) ELSE up(y, mutex)

(* cond_wait(cvp) up to the return of down; then cond_waited.              *)
cond_wait(y, c) == down(leave_monitor([y EXCEPT !.count[c] = @ + 1]), c)
cond_waited_Keeps(y, c) == y
cond_waited(y, c) == [y EXCEPT !.count[c] = @ - 1]

(* cond_signal(cvp), with somebody waiting, up to the return of down; then *)
(* cond_signalled.                                                         *)
cond_signal(y, c) == down(up([y EXCEPT !.next_count = @ + 1], c), next)
cond_signalled_Keeps(y) == y
cond_signalled(y) == [y EXCEPT !.next_count = @ - 1]
=============================================================================
