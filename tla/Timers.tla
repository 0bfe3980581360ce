--------------------------------- MODULE Timers --------------------------------
(***************************************************************************)
(* The timer list on its own: processes enter do_sleep (add_timer), leave   *)
(* it (del_timer, after the timer fired or after a kill), and the clock      *)
(* interrupt runs run_timer_list.  Each of the three runs with interrupts    *)
(* off.  Clock puts them together with the keyboard.                        *)
(***************************************************************************)
EXTENDS TimerList

CONSTANTS Proc,      \* processes that may sleep
          MaxTicks   \* bound on the argument of do_sleep

VARIABLES timers,    \* timer_list
          asleep     \* processes between add_timer and the return of do_sleep:
                     \* the stack frames in which the timers live

Init == timers = <<>> /\ asleep = {}

do_sleep(p, ticks) ==
    /\ p \notin asleep
    /\ timers' = add_timer(timers, p, ticks)
    /\ asleep' = asleep \cup {p}

(* do_sleep runs again after schedule(): the timer fired, or do_kill woke    *)
(* the process while the timer was still on the list.                       *)
wake_up(p) ==
    /\ p \in asleep
    /\ timers' = del_timer(timers, p)
    /\ asleep' = asleep \ {p}

run_timer_list ==
    /\ timers' = AfterTick(timers)
    /\ UNCHANGED asleep

-----------------------------------------------------------------------------
(* A timer is a local variable of do_sleep: no timer outlives its frame,    *)
(* none is linked twice, and whatever was inserted and deleted the head     *)
(* still has something to wait for (run_timer_list's assertion).            *)
NoDanglingTimer ==
    /\ \A i \in 1 .. Len(timers) : timers[i].proc \in asleep
    /\ \A i, j \in 1 .. Len(timers) : timers[i].proc = timers[j].proc => i = j
    /\ HeadMayCount(timers)

(* The delays of the list, added up, are the alarms of the processes; those  *)
(* whose alarm went off have no timer any more.                            *)
TicksLeft(p) == IF HasTimer(timers, p) THEN Due(timers, TimerOf(timers, p)) ELSE 0
Rung == {p \in asleep : ~HasTimer(timers, p)}
=============================================================================
