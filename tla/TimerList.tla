------------------------------- MODULE TimerList -------------------------------
(***************************************************************************)
(* The timer list of kern/schedule/sched.c: a sequence of timers, soonest    *)
(* first, in which expires is the number of ticks after the timer before.   *)
(* A timer is [proc, expires]; it lives in the stack frame of do_sleep, and  *)
(* a process has at most one.                                               *)
(***************************************************************************)
EXTENDS Integers, Sequences, SequencesExt

(* expires of the first i timers added up: the ticks until the i-th fires. *)
Due(tl, i) ==
    LET due[j \in 0 .. Len(tl)] == IF j = 0 THEN 0 ELSE due[j - 1] + tl[j].expires
    IN  due[i]

(* add_timer walks past every timer that is due no later than the new one,  *)
(* subtracting as it goes, and takes what is left from the one it stops at. *)
add_timer(tl, p, ticks) ==
    LET before == {i \in 1 .. Len(tl) : Due(tl, i) <= ticks}
        at == IF before = {} THEN 0 ELSE Max(before)
        left == ticks - Due(tl, at)
        tail == SubSeq(tl, at + 1, Len(tl))
        rest == IF tail = <<>> THEN tail ELSE [tail EXCEPT ![1].expires = @ - left]
    IN  SubSeq(tl, 1, at) \o <<[proc |-> p, expires |-> left]>> \o rest

HasTimer(tl, p) == \E i \in 1 .. Len(tl) : tl[i].proc = p
TimerOf(tl, p) == CHOOSE i \in 1 .. Len(tl) : tl[i].proc = p

(* del_timer gives what the timer still had to wait to its successor; a     *)
(* timer that is not on the list any more is left alone.                    *)
del_timer_DropsDelay(tl, p) == SelectSeq(tl, LAMBDA t : t.proc # p)

del_timer(tl, p) ==
    IF ~HasTimer(tl, p) THEN tl
    ELSE LET i == TimerOf(tl, p)
             tail == SubSeq(tl, i + 1, Len(tl))
             rest == IF tail = <<>> \/ tl[i].expires = 0 THEN tail
                     ELSE [tail EXCEPT ![1].expires = @ + tl[i].expires]
         IN  SubSeq(tl, 1, i - 1) \o rest

(* The timer part of run_timer_list: the head counts down, and every timer   *)
(* from the head on that has nothing left to wait is fired and deleted.     *)
Counted_Not(tl) == tl
Counted(tl) == IF tl = <<>> THEN tl ELSE [tl EXCEPT ![1].expires = @ - 1]

NumFired(tl) ==
    LET c == Counted(tl)
    IN  CHOOSE n \in 0 .. Len(c) :
          /\ \A i \in 1 .. n : c[i].expires = 0
          /\ n < Len(c) => c[n + 1].expires # 0

Fired(tl) == [i \in 1 .. NumFired(tl) |-> tl[i].proc]
AfterTick(tl) == SubSeq(Counted(tl), NumFired(tl) + 1, Len(tl))

(* assert(timer->expires != 0) on entry. *)
HeadMayCount(tl) == tl = <<>> \/ tl[1].expires # 0
=============================================================================
