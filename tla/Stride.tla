--------------------------------- MODULE Stride --------------------------------
(***************************************************************************)
(* The stride scheduler of Lab6 (kern/schedule/default_sched_stride.c)     *)
(* under wakeup_proc and schedule (kern/schedule/sched.c).  lab6_stride is *)
(* a 32-bit number that overflows, and strides are compared by the sign of  *)
(* their difference.                                                       *)
(*                                                                         *)
(* rq->lab6_run_pool is a set here; a step of the scheduler takes one for  *)
(* which no comparison finds a smaller one.  That the root of the skew     *)
(* heap is such a one is for SkewHeap.  Time slices only say when a tick   *)
(* ends a turn; here a turn ends at any time.                              *)
(***************************************************************************)
EXTENDS Integers

CONSTANTS Proc,
          idleproc,   \* never in the pool
          Priority,   \* the arguments of lab6_set_priority
          HALF,       \* 2^31
          BIG_STRIDE

ASSUME StrideAssumption ==
    /\ idleproc \notin Proc
    /\ Priority \subseteq Nat
    /\ HALF \in Nat /\ BIG_STRIDE \in Nat /\ 0 < BIG_STRIDE /\ BIG_STRIDE < HALF

VARIABLES pool,      \* rq->lab6_run_pool
          current,
          asleep,    \* processes that will be woken
          stride,    \* lab6_stride
          priority   \* lab6_priority, 0 until it is set

vars == <<pool, current, asleep, stride, priority>>

Word == 0 .. 2 * HALF - 1

(* Sums and differences of 32-bit numbers, as uint32_t and as int32_t.     *)
Wrap(x) == IF x < 0 THEN x + 2 * HALF ELSE IF x >= 2 * HALF THEN x - 2 * HALF ELSE x
Signed(x) == IF x < HALF THEN x ELSE x - 2 * HALF

Sign(c) == IF c > 0 THEN 1 ELSE IF c = 0 THEN 0 ELSE -1
proc_stride_comp_f_Unsigned(p_stride, q_stride) == Sign(p_stride - q_stride)
proc_stride_comp_f(p_stride, q_stride) == Sign(Signed(Wrap(p_stride - q_stride)))

Pass_MayBeZero(n) == IF n = 0 THEN BIG_STRIDE ELSE BIG_STRIDE \div n

(* What a turn adds to the stride: BIG_STRIDE / priority, at least 1.       *)
Pass(n) == IF n = 0 THEN BIG_STRIDE ELSE IF BIG_STRIDE \div n = 0 THEN 1 ELSE BIG_STRIDE \div n

Init ==
    /\ \E p \in Proc : pool = {p}
    /\ current = idleproc /\ asleep = {}
    /\ stride = [p \in Proc |-> 0]
    /\ priority = [p \in Proc |-> 0]

-----------------------------------------------------------------------------
Runnable == {current} \ {idleproc}
Members == pool \cup Runnable
Least(S, p) == p \in S /\ \A q \in S : proc_stride_comp_f(stride[p], stride[q]) # 1

(* The strides of S lie in half the circle of numbers, from b on.          *)
Within(S, b) == \A q \in S : Wrap(stride[q] - b) < HALF
Together(S) == \E b \in Word : Within(S, b)

(* pick_next and dequeue: p, out of S, gets the CPU. *)
stride_pick_next(S, p) ==
    /\ pool' = S \ {p}
    /\ current' = p
    /\ stride' = [stride EXCEPT ![p] = Wrap(@ + Pass(priority[p]))]
    /\ priority' = [priority EXCEPT ![p] = IF @ = 0 THEN 1 ELSE @]

run_idle == pool' = {} /\ current' = idleproc /\ UNCHANGED <<stride, priority>>

(* Where strides are not together the comparison is no order; who is the   *)
(* root then depends on how the heap has come about, and may be anybody.   *)
schedule(S) ==
    \/ S = {} /\ run_idle
    \/ \E p \in S : (Together(S) => Least(S, p)) /\ stride_pick_next(S, p)

(* Time slice used up, sys_yield, the idle loop: current stays runnable.   *)
do_yield == schedule(Members) /\ UNCHANGED asleep

do_wait == current # idleproc /\ schedule(pool) /\ asleep' = asleep \cup {current}
do_exit == current # idleproc /\ schedule(pool) /\ UNCHANGED asleep

-----------------------------------------------------------------------------
(* A sleeper comes back with the stride it had, however far the others have *)
(* moved, and a child begins with 0.                                       *)
stride_enqueue(p) == pool' = pool \cup {p}

wakeup_proc(p) ==
    /\ p \in asleep
    /\ stride_enqueue(p)
    /\ asleep' = asleep \ {p}
    /\ UNCHANGED <<current, stride, priority>>

(* alloc_proc clears stride and priority, do_fork wakes the child. *)
do_fork(p) ==
    /\ current # idleproc
    /\ p \notin Members \cup asleep
    /\ stride_enqueue(p)
    /\ stride' = [stride EXCEPT ![p] = 0]
    /\ priority' = [priority EXCEPT ![p] = 0]
    /\ UNCHANGED <<current, asleep>>

lab6_set_priority(n) ==
    /\ current # idleproc
    /\ priority' = [priority EXCEPT ![current] = IF n = 0 THEN 1 ELSE n]
    /\ UNCHANGED <<pool, current, asleep, stride>>

Next ==
    \/ do_yield \/ do_wait \/ do_exit
    \/ \E p \in Proc : wakeup_proc(p) \/ do_fork(p)
    \/ \E n \in Priority : lab6_set_priority(n)

Spec == Init /\ [][Next]_vars

-----------------------------------------------------------------------------
(* The types, and that nobody is in two places at once.                    *)
TypeOK ==
    /\ pool \subseteq Proc /\ asleep \subseteq Proc
    /\ current \in Proc \cup {idleproc}
    /\ stride \in [Proc -> Word]
    /\ priority \in [Proc -> Nat]
    /\ current \notin pool /\ asleep \cap Members = {}

(* However strides overflow, the turns that schedule() gives never part     *)
(* them: only somebody who joins the pool does.                            *)
OnlyJoinersPart ==
    [][Together(Members) =>
         Together(Members)' \/ \E p \in Proc \ pool : p \in pool' /\ current' = current]_vars

(* With overflow and wrapped comparisons the scheduler does what it would   *)
(* do with numbers that never end, as long as no joiner has parted the     *)
(* strides: the CPU goes to the process that is least ahead.               *)
lead == [p \in Proc |-> [q \in Proc |->
           IF Together(Members) /\ {p, q} \subseteq Members
             THEN Signed(Wrap(stride[p] - stride[q])) ELSE 0]]
Accounts == INSTANCE Shares WITH kept <- Together(Members)
SharesSpec == Accounts!Spec
=============================================================================
