------------------------------- MODULE CheckSync -------------------------------
(***************************************************************************)
(* check_sync (kern/sync/check_sync.c): first the philosophers on          *)
(* semaphores, and when all of them have been waited for, those in the     *)
(* monitor (kern/sync/monitor.c); what belongs to one half ends in _sema   *)
(* or _condvar.  The philosophers are kernel threads on the scheduler: a    *)
(* step runs to the next call that may block, and a thread keeps the CPU   *)
(* until one does.  The end of a do_sleep comes at any time.               *)
(***************************************************************************)
EXTENDS SemOps

CONSTANTS N,       \* number of philosophers
          TIMES    \* how often each of them eats

Phil == 0 .. N - 1

ASSUME TableAssumption ==
    /\ N \in Nat \ {0, 1} /\ TIMES \in Nat \ {0}
    /\ {Idle, mutex, next} \cap Phil = {}
    /\ mutex # next /\ Idle \notin {mutex, next}

VARIABLES y,      \* the record of SemOps, with state_sema or state_condvar as y.state
          pc, iter,
          half    \* "semaphore" or "condvar"

vars == <<y, pc, iter, half>>

Threads == Phil \cup {Idle}
LEFT(i) == (i - 1 + N) % N
RIGHT(i) == (i + 1) % N

Asleep(v, i, why) ==
    [v EXCEPT !.k = schedule([@ EXCEPT !.st[i] = "SLEEPING", !.ws[i] = why])]

(* run_timer_list wakes a thread from do_sleep. *)
timer(i) ==
    /\ y.k.ws[i] = "WT_TIMER"
    /\ y' = [y EXCEPT !.k = wakeup_proc(@, i)]
    /\ UNCHANGED <<pc, iter, half>>

cpu_idle ==
    /\ y.k.cur = Idle /\ y.k.rq # <<>>
    /\ y' = [y EXCEPT !.k = schedule(@)]
    /\ UNCHANGED <<pc, iter>>

-----------------------------------------------------------------------------
(* With semaphores (philosopher_using_semaphore). *)

(* The semaphores: mutex, and s[i] under the number i. *)
Sems_sema == Phil \cup {mutex}

(* check_sync has started the threads; state_sema is zeroed memory.        *)
Init_sema ==
    /\ y = [k |-> [cur |-> Idle,
                   rq |-> [i \in 1 .. N |-> i - 1],
                   st |-> [t \in Threads |-> "RUNNABLE"],
                   ws |-> [t \in Threads |-> "0"],
                   slice |-> [t \in Threads |-> IF t = Idle THEN 0 ELSE MAX_TIME_SLICE],
                   resched |-> [t \in Threads |-> t = Idle],
                   panic |-> "none"],
            value |-> [x \in Sems_sema |-> IF x = mutex THEN 1 ELSE 0],
            queue |-> [x \in Sems_sema |-> <<>>],
            state |-> [i \in Phil |-> "THINKING"]]
    /\ pc = [i \in Phil |-> "start"]
    /\ iter = [i \in Phil |-> 0]

At_sema(i, point) == y.k.panic = "none" /\ y.k.cur = i /\ pc[i] = point
Goto_sema(i, point) == pc' = [pc EXCEPT ![i] = point]

-----------------------------------------------------------------------------
phi_test_sema_NotHungry(v, i) ==
    IF v.state[LEFT(i)] # "EATING" /\ v.state[RIGHT(i)] # "EATING"
      THEN up([v EXCEPT !.state[i] = "EATING"], i) ELSE v

phi_test_sema(v, i) ==
    IF v.state[i] = "HUNGRY" /\ v.state[LEFT(i)] # "EATING" /\ v.state[RIGHT(i)] # "EATING"
      THEN up([v EXCEPT !.state[i] = "EATING"], i) ELSE v

(* The head of the loop: do_sleep (thinking), or the end of the thread.    *)
think_sema(i) ==
    /\ At_sema(i, "start")
    /\ IF iter[i] < TIMES
         THEN /\ iter' = [iter EXCEPT ![i] = @ + 1]
              /\ y' = Asleep(y, i, "WT_TIMER")
              /\ Goto_sema(i, "take")
         ELSE /\ y' = [y EXCEPT !.k = schedule([@ EXCEPT !.st[i] = "ZOMBIE"])]
              /\ Goto_sema(i, "quit")
              /\ UNCHANGED iter

(* phi_take_forks_sema: down(&mutex), the test, down(&s[i]).               *)
take_mutex_sema(i) ==
    /\ At_sema(i, "take")
    /\ y' = down(y, mutex)
    /\ Goto_sema(i, "hungry")
    /\ UNCHANGED iter

take_test_sema(i) ==
    /\ At_sema(i, "hungry")
    /\ y' = up(phi_test_sema([y EXCEPT !.state[i] = "HUNGRY"], i), mutex)
    /\ Goto_sema(i, "grab")
    /\ UNCHANGED iter

take_forks_sema(i) ==
    /\ At_sema(i, "grab")
    /\ y' = down(y, i)
    /\ Goto_sema(i, "eat")
    /\ UNCHANGED iter

eat_sema(i) ==
    /\ At_sema(i, "eat")
    /\ y' = Asleep(y, i, "WT_TIMER")
    /\ Goto_sema(i, "full")
    /\ UNCHANGED iter

(* phi_put_forks_sema *)
put_mutex_sema(i) ==
    /\ At_sema(i, "full")
    /\ y' = down(y, mutex)
    /\ Goto_sema(i, "put")
    /\ UNCHANGED iter

put_test_OneSide(v, i) == phi_test_sema(v, LEFT(i))

put_test(v, i) == phi_test_sema(phi_test_sema(v, LEFT(i)), RIGHT(i))

put_forks(i) ==
    /\ At_sema(i, "put")
    /\ y' = up(put_test([y EXCEPT !.state[i] = "THINKING"], i), mutex)
    /\ Goto_sema(i, "start")
    /\ UNCHANGED iter

-----------------------------------------------------------------------------
AllQuit_sema == \A i \in Phil : pc[i] = "quit"

Thread_sema(i) ==
    \/ think_sema(i) \/ take_mutex_sema(i) \/ take_test_sema(i) \/ take_forks_sema(i)
    \/ eat_sema(i) \/ put_mutex_sema(i) \/ put_forks(i)

Step_sema == (\E i \in Phil : Thread_sema(i)) \/ cpu_idle

-----------------------------------------------------------------------------
(* Where a philosopher really is: he has his forks from the moment he passes *)
(* down(&s[i]) until he has put them down, whatever state_sema says.       *)
HasForks_sema(i) == (pc[i] = "eat" /\ i \notin ToSet(y.queue[i])) \/ pc[i] \in {"full", "put"}

(* No fork is in two hands. *)
NeighboursDoNotEat_sema == \A i \in Phil : ~(HasForks_sema(i) /\ HasForks_sema(RIGHT(i)))

Moving(i) == IF HasForks_sema(i) THEN 1 ELSE 0

(* The private semaphore and state_sema agree: a philosopher marked EATING *)
(* has exactly one permit, in the semaphore or in his hands; so nobody eats *)
(* twice on one permission, and none is left over for the next round.      *)
OnePermit ==
    \A i \in Phil : y.value[i] + Moving(i) = IF y.state[i] = "EATING" THEN 1 ELSE 0

(* A hungry philosopher waits only for a neighbour who eats: put_forks has *)
(* forgotten nobody.                                                       *)
NobodyForgotten_sema ==
    \A i \in Phil : i \in ToSet(y.queue[i]) =>
        y.state[LEFT(i)] = "EATING" \/ y.state[RIGHT(i)] = "EATING"

-----------------------------------------------------------------------------
(* In the monitor (philosopher_using_condvar).  pc[i] is the call stack of   *)
(* i, the innermost point first: "signalled" and "waited" are the points   *)
(* behind the down of cond_signal and of cond_wait, with the caller's point *)
(* below.                                                                  *)

(* The semaphores of the monitor; that of cv[i] goes under the number i.   *)
Sems_condvar == Phil \cup {mutex, next}

(* monitor_init, and the threads check_sync starts; an action, for it comes *)
(* after the philosophers with semaphores have been waited for.            *)
Begin ==
    /\ y' = [k |-> [cur |-> Idle,
                    rq |-> [i \in 1 .. N |-> i - 1],
                    st |-> [t \in Threads |-> "RUNNABLE"],
                    ws |-> [t \in Threads |-> "0"],
                    slice |-> [t \in Threads |-> IF t = Idle THEN 0 ELSE MAX_TIME_SLICE],
                    resched |-> [t \in Threads |-> t = Idle],
                    panic |-> "none"],
             value |-> [x \in Sems_condvar |-> IF x = mutex THEN 1 ELSE 0],
             queue |-> [x \in Sems_condvar |-> <<>>],
             count |-> [i \in Phil |-> 0],
             next_count |-> 0,
             state |-> [i \in Phil |-> "THINKING"]]
    /\ pc' = [i \in Phil |-> <<"start">>]
    /\ iter' = [i \in Phil |-> 0]

At_condvar(i, point) == y.k.panic = "none" /\ y.k.cur = i /\ Head(pc[i]) = point
Goto_condvar(i, stack) == pc' = [pc EXCEPT ![i] = stack]

-----------------------------------------------------------------------------
MayEat_Left(v, j) == v.state[j] = "HUNGRY" /\ v.state[LEFT(j)] # "EATING"

MayEat(v, j) ==
    v.state[j] = "HUNGRY" /\ v.state[LEFT(j)] # "EATING" /\ v.state[RIGHT(j)] # "EATING"

Served(v, j) == [v EXCEPT !.state[j] = "EATING"]

(* i calls phi_test_condvar(j) in state v and goes on at back; when somebody *)
(* waits on cv[j], i leaves the monitor to him inside cond_signal.         *)
phi_test_condvar_SignalFirst(i, v, j, back) ==
    \/ /\ ~MayEat(v, j)
       /\ y' = v /\ Goto_condvar(i, <<back>>)
    \/ /\ MayEat(v, j) /\ v.count[j] = 0
       /\ y' = Served(v, j) /\ Goto_condvar(i, <<back>>)
    \/ /\ MayEat(v, j) /\ v.count[j] > 0
       /\ y' = cond_signal(v, j) /\ Goto_condvar(i, <<"signalled", back>>)

phi_test_condvar(i, v, j, back) ==
    \/ /\ ~MayEat(v, j)
       /\ y' = v /\ Goto_condvar(i, <<back>>)
    \/ /\ MayEat(v, j) /\ v.count[j] = 0
       /\ y' = Served(v, j) /\ Goto_condvar(i, <<back>>)
    \/ /\ MayEat(v, j) /\ v.count[j] > 0
       /\ y' = cond_signal(Served(v, j), j) /\ Goto_condvar(i, <<"signalled", back>>)

(* The end of cond_signal. *)
signalled(i) ==
    /\ At_condvar(i, "signalled")
    /\ y' = cond_signalled(y)
    /\ Goto_condvar(i, Tail(pc[i]))
    /\ UNCHANGED iter

(* The head of the loop: do_sleep (thinking), or the end of the thread.    *)
think_condvar(i) ==
    /\ At_condvar(i, "start")
    /\ IF iter[i] < TIMES
         THEN /\ iter' = [iter EXCEPT ![i] = @ + 1]
              /\ y' = Asleep(y, i, "WT_TIMER")
              /\ Goto_condvar(i, <<"take">>)
         ELSE /\ y' = [y EXCEPT !.k = schedule([@ EXCEPT !.st[i] = "ZOMBIE"])]
              /\ Goto_condvar(i, <<"quit">>)
              /\ UNCHANGED iter

(* phi_take_forks_condvar: into the monitor, the test of himself, and      *)
(* cond_wait when it has failed.                                           *)
take_mutex_condvar(i) ==
    /\ At_condvar(i, "take")
    /\ y' = down(y, mutex)
    /\ Goto_condvar(i, <<"hungry">>)
    /\ UNCHANGED iter

take_test_condvar(i) ==
    /\ At_condvar(i, "hungry")
    /\ phi_test_condvar(i, [y EXCEPT !.state[i] = "HUNGRY"], i, "tested")
    /\ UNCHANGED iter

take_forks_condvar(i) ==
    /\ At_condvar(i, "tested")
    /\ IF y.state[i] = "HUNGRY"
         THEN y' = cond_wait(y, i) /\ Goto_condvar(i, <<"waited", "eat">>)
         ELSE y' = leave_monitor(y) /\ Goto_condvar(i, <<"eat">>)
    /\ UNCHANGED iter

(* The end of cond_wait and of phi_take_forks_condvar. *)
waited(i) ==
    /\ At_condvar(i, "waited")
    /\ y' = leave_monitor(cond_waited(y, i))
    /\ Goto_condvar(i, Tail(pc[i]))
    /\ UNCHANGED iter

eat_condvar(i) ==
    /\ At_condvar(i, "eat")
    /\ y' = Asleep(y, i, "WT_TIMER")
    /\ Goto_condvar(i, <<"full">>)
    /\ UNCHANGED iter

(* phi_put_forks_condvar: into the monitor, the left neighbour, the right  *)
(* one, and out.                                                           *)
put_mutex_condvar(i) ==
    /\ At_condvar(i, "full")
    /\ y' = down(y, mutex)
    /\ Goto_condvar(i, <<"put">>)
    /\ UNCHANGED iter

put_left(i) ==
    /\ At_condvar(i, "put")
    /\ phi_test_condvar(i, [y EXCEPT !.state[i] = "THINKING"], LEFT(i), "right")
    /\ UNCHANGED iter

put_right(i) ==
    /\ At_condvar(i, "right")
    /\ phi_test_condvar(i, y, RIGHT(i), "leave")
    /\ UNCHANGED iter

put_leave(i) ==
    /\ At_condvar(i, "leave")
    /\ y' = leave_monitor(y)
    /\ Goto_condvar(i, <<"start">>)
    /\ UNCHANGED iter

-----------------------------------------------------------------------------
AllQuit_condvar == \A i \in Phil : pc[i] = <<"quit">>

Thread_condvar(i) ==
    \/ think_condvar(i) \/ take_mutex_condvar(i) \/ take_test_condvar(i)
    \/ take_forks_condvar(i) \/ waited(i) \/ eat_condvar(i) \/ put_mutex_condvar(i)
    \/ put_left(i) \/ put_right(i) \/ put_leave(i) \/ signalled(i)

Step_condvar == (\E i \in Phil : Thread_condvar(i)) \/ cpu_idle

-----------------------------------------------------------------------------
Blocked(i) == \E x \in Sems_condvar : i \in ToSet(y.queue[x])

Inside(i) ==
    Head(pc[i]) \in {"hungry", "tested", "waited", "signalled", "put", "right", "leave"}
    /\ ~Blocked(i)

(* The monitor belongs to exactly one thread, or mutex has the one permit: *)
(* whoever leaves or waits (cond_wait, cond_signal, the ends of the two    *)
(* procedures) hands it on to exactly one, first to those in mtp->next.    *)
OneInMonitor == Cardinality({i \in Phil : Inside(i)}) + y.value[mutex] = 1

(* count and next_count count the threads between their ++ and --, and no  *)
(* signal is saved up: cv[i].sem and mtp->next stay at 0, or a later down  *)
(* would go through on an old signal.                                      *)
Counted_condvar ==
    /\ \A i \in Phil : y.count[i] = IF Head(pc[i]) = "waited" THEN 1 ELSE 0
    /\ y.next_count = Cardinality({i \in Phil : Head(pc[i]) = "signalled"})
    /\ \A x \in Sems_condvar \ {mutex} : y.value[x] = 0

(* A waiter that cond_signal has woken finds what he waited for:           *)
(* phi_take_forks_condvar tests with if and not with while.                *)
WokenMayEat_condvar ==
    \A i \in Phil : Head(pc[i]) = "waited" /\ ~Blocked(i) => y.state[i] = "EATING"

HasForks_condvar(i) == Head(pc[i]) \in {"eat", "full", "put"}

(* No fork is in two hands: a philosopher has his from the return of       *)
(* take_forks until he puts them down.                                     *)
NeighboursDoNotEat_condvar ==
    \A i \in Phil : HasForks_condvar(i) => y.state[i] = "EATING" /\ ~HasForks_condvar(RIGHT(i))

-----------------------------------------------------------------------------
(* The two halves, one after the other. *)

Init == Init_sema /\ half = "semaphore"

semaphore_step == half = "semaphore" /\ Step_sema /\ UNCHANGED half
condvar_step == half = "condvar" /\ Step_condvar /\ UNCHANGED half

(* initproc is back from the do_wait of the last philosopher.              *)
check_condvar ==
    /\ half = "semaphore" /\ AllQuit_sema
    /\ Begin
    /\ half' = "condvar"

AllQuit == half = "condvar" /\ AllQuit_condvar
check_sync_done == AllQuit /\ UNCHANGED vars

Kernel_step == semaphore_step \/ condvar_step \/ check_condvar

Next == Kernel_step \/ (\E i \in Phil : timer(i)) \/ check_sync_done

(* The CPU runs what is current, and timers fire. *)
FairSpec ==
    /\ Init /\ [][Next]_vars
    /\ WF_vars(Kernel_step)
    /\ \A i \in Phil : WF_vars(timer(i))

-----------------------------------------------------------------------------
(* What up hands over arrives once.  Semaphores: a philosopher marked       *)
(* EATING has exactly one permit, in his private semaphore or in his hands, *)
(* and none is left over for the next round.  Monitor: it belongs to        *)
(* exactly one thread, or mutex has the one permit; whoever leaves it or    *)
(* waits in it gives it to exactly one other.                              *)
HandedOverOnce == IF half = "semaphore" THEN OnePermit ELSE OneInMonitor

(* Semaphores: a hungry philosopher waits only for a neighbour who eats;   *)
(* phi_put_forks_sema has forgotten nobody.                                *)
NobodyForgotten == half = "semaphore" => NobodyForgotten_sema

(* Monitor: count and next_count are exact, and no signal is saved up in a   *)
(* semaphore, on which a later cond_wait would go through.                 *)
Counted == half = "condvar" => Counted_condvar

(* Monitor: a waiter that cond_signal has woken finds what he waited for:  *)
(* phi_take_forks_condvar tests with if and not with while.                *)
WokenMayEat == half = "condvar" => WokenMayEat_condvar

(* Both: no fork is in two hands, from the return of take_forks (the down of *)
(* the private semaphore, the end of cond_wait) until they are put down.   *)
NeighboursDoNotEat ==
    IF half = "semaphore" THEN NeighboursDoNotEat_sema ELSE NeighboursDoNotEat_condvar

Table == INSTANCE Dining WITH
             Meals <- TIMES, mood <- y.state, round <- iter,
             course <- IF half = "semaphore" THEN 1 ELSE 2

(* Both: state_sema and state_condvar go round like a dining table.        *)
TableSpec == Table!Spec

(* Everybody eats TIMES times with either, and quits: no deadlock, nobody is *)
(* forgotten, no signal is lost, no assertion fails on the way.            *)
Everybody == <>AllQuit
=============================================================================
