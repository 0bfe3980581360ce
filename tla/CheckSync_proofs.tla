---------------------------- MODULE CheckSync_proofs ---------------------------
(***************************************************************************)
(* check_sync at a table of any size, with any number of meals: no two     *)
(* neighbours eat, put_forks forgets nobody, whoever the monitor wakes may *)
(* eat, and what up hands over arrives once.  First the semaphores, then   *)
(* the monitor, then the two one after the other.                          *)
(***************************************************************************)
EXTENDS CheckSync, FiniteSetTheorems, TLAPS

-----------------------------------------------------------------------------
(* What the scheduler and the queues of semaphores keep, whoever calls them: *)
(* the threads that can get the CPU are on the run queue once or current,  *)
(* and a thread in the queue of a semaphore is neither, is in one queue    *)
(* only, and waits for nothing else.                                       *)

(* The states these threads know, and scheduler records of the threads T   *)
(* beside idleproc.                                                        *)
RunStates == {"RUNNABLE", "SLEEPING", "ZOMBIE"}
WaitStates == {"0", "WT_TIMER", "WT_KSEM"}
Panics == {"none", "RR_enqueue", "RR_dequeue", "wakeup_proc", "__up"}

Kernel(T) ==
    [cur: T \cup {Idle}, rq: Seq(T), st: [T \cup {Idle} -> RunStates],
     ws: [T \cup {Idle} -> WaitStates], slice: [T \cup {Idle} -> Nat],
     resched: [T \cup {Idle} -> BOOLEAN], panic: Panics]

Once(s) == \A i, j \in 1 .. Len(s) : s[i] = s[j] => i = j
In(s) == {s[i] : i \in 1 .. Len(s)}

(* Who can get the CPU without being woken. *)
Ready(k) == In(k.rq) \cup {k.cur}

SchedOK(k, T) == k \in Kernel(T) /\ Once(k.rq) /\ k.cur \notin In(k.rq)

(* In is ToSet, without its operators. *)
LEMMA InIsToSet == ASSUME NEW T, NEW s \in Seq(T) PROVE ToSet(s) = In(s)
  BY DEF ToSet, In

(* A sequence without elements is empty. *)
LEMMA InEmpty == ASSUME NEW T, NEW s \in Seq(T) PROVE In(s) = {} <=> s = <<>>
  <1>1. CASE s = <<>>
    BY <1>1 DEF In
  <1>2. CASE s # <<>>
    <2>1. 1 \in 1 .. Len(s)
      BY <1>2
    <2> QED
      BY <1>2, <2>1 DEF In
  <1> QED
    BY <1>1, <1>2

(* What Append adds, and that it repeats nothing new. *)
LEMMA InAppend ==
    ASSUME NEW T, NEW s \in Seq(T), NEW p \in T, p \notin In(s), Once(s)
    PROVE  Append(s, p) \in Seq(T) /\ Once(Append(s, p)) /\ In(Append(s, p)) = In(s) \cup {p}
  <1> DEFINE a == Append(s, p)
  <1>1. a \in Seq(T) /\ Len(a) = Len(s) + 1 /\ Len(s) \in Nat
    OBVIOUS
  <1>2. a[Len(s) + 1] = p /\ \A i \in 1 .. Len(s) : a[i] = s[i]
    OBVIOUS
  <1>3. In(a) = In(s) \cup {p}
    BY <1>1, <1>2 DEF In
  <1>4. \A i, j \in 1 .. Len(a) : a[i] = a[j] => i = j
    BY <1>1, <1>2 DEF In, Once
  <1> QED
    BY <1>1, <1>3, <1>4 DEF Once

(* What Tail takes away. *)
LEMMA InTail ==
    ASSUME NEW T, NEW s \in Seq(T), s # <<>>, Once(s)
    PROVE  /\ Tail(s) \in Seq(T) /\ Once(Tail(s)) /\ Head(s) \in T /\ Head(s) \in In(s)
           /\ In(Tail(s)) = In(s) \ {Head(s)}
  <1> DEFINE t == Tail(s)
  <1>1. t \in Seq(T) /\ Len(t) = Len(s) - 1 /\ Len(s) \in Nat \ {0} /\ Head(s) = s[1]
    OBVIOUS
  <1>2. \A i \in 1 .. Len(t) : t[i] = s[i + 1]
    OBVIOUS
  <1>3. Once(t)
    BY <1>1, <1>2 DEF Once
  <1>4. In(t) \subseteq In(s) \ {Head(s)}
    BY <1>1, <1>2 DEF In, Once
  <1>5. ASSUME NEW x \in In(s), x # s[1] PROVE x \in In(t)
    <2>1. PICK i \in 1 .. Len(s) : x = s[i]
      BY DEF In
    <2>2. i - 1 \in 1 .. Len(t) /\ t[i - 1] = x
      BY <1>1, <1>2, <1>5, <2>1
    <2> QED
      BY <2>2 DEF In
  <1>6. Head(s) \in T /\ Head(s) \in In(s)
    BY <1>1 DEF In
  <1> QED
    BY <1>1, <1>3, <1>4, <1>5, <1>6

(* list_del of the head of a list without repetitions.                     *)
LEMMA UnlinkHead ==
    ASSUME NEW T, NEW s \in Seq(T), s # <<>>, Once(s)
    PROVE  Unlink(s, Head(s)) = Tail(s)
  <1>1. Head(s) = s[1] /\ Len(s) \in Nat \ {0}
    OBVIOUS
  <1>2. (CHOOSE i \in 1 .. Len(s) : s[i] = Head(s)) = 1
    <2>1. \A i \in 1 .. Len(s) : s[i] = Head(s) => i = 1
      BY <1>1 DEF Once
    <2>2. 1 \in 1 .. Len(s) /\ s[1] = Head(s)
      BY <1>1
    <2> QED
      BY <2>1, <2>2
  <1>3. RemoveAt(s, 1) = SubSeq(s, 1, 0) \o SubSeq(s, 2, Len(s))
    BY <1>1 DEF RemoveAt
  <1>4. SubSeq(s, 1, 0) = <<>> /\ SubSeq(s, 2, Len(s)) = Tail(s)
    BY <1>1
  <1>5. <<>> \o Tail(s) = Tail(s)
    <2>1. Tail(s) \in Seq(T)
      BY <1>1
    <2> QED
      BY <2>1
  <1>6. RemoveAt(s, 1) = Tail(s)
    BY <1>3, <1>4, <1>5
  <1>7. Unlink(s, Head(s)) = RemoveAt(s, CHOOSE i \in 1 .. Len(s) : s[i] = Head(s))
    BY DEF Unlink
  <1> QED
    BY <1>2, <1>6, <1>7

-----------------------------------------------------------------------------
(* Panic, the assertion that stops the kernel, leaves all but panic alone. *)
LEMMA PanicFrame ==
    ASSUME NEW T, NEW k, NEW why,
           SchedOK(k, T), why \in Panics
    PROVE  LET m == Panic(k, why)
           IN  SchedOK(m, T) /\ m.cur = k.cur /\ m.rq = k.rq /\ m.st = k.st /\ m.ws = k.ws
  BY DEF Panic, SchedOK, Kernel

(* m is k after p alone has been made able to run, and nobody's wait state  *)
(* but p's has been touched.                                               *)
Wakes(k, m, p, T) ==
    /\ SchedOK(m, T) /\ m.cur = k.cur
    /\ Ready(m) \subseteq Ready(k) \cup {p}
    /\ \A q \in T : q # p => m.ws[q] = k.ws[q]

(* wakeup_proc wakes the one it is called for and nobody else. *)
LEMMA WakeupFrame ==
    ASSUME NEW T, NEW k, NEW p,
           Idle \notin T, SchedOK(k, T), p \in T
    PROVE  Wakes(k, wakeup_proc(k, p), p, T)
  <1> DEFINE m == wakeup_proc(k, p)
             awake == [k EXCEPT !.st[p] = "RUNNABLE", !.ws[p] = "0"]
  <1> HIDE DEF m
  <1>1. CASE k.st[p] = "ZOMBIE"
    <2> DEFINE stop == Panic(k, "wakeup_proc")
    <2>1. m = stop
      BY <1>1 DEF m, wakeup_proc
    <2>2. SchedOK(stop, T) /\ stop.cur = k.cur /\ stop.rq = k.rq /\ stop.ws = k.ws
      BY PanicFrame DEF Panics
    <2> HIDE DEF stop
    <2> QED
      BY <2>1, <2>2 DEF Ready, Wakes, m
  <1>2. CASE k.st[p] = "RUNNABLE"
    <2>1. m = k
      BY <1>2 DEF m, wakeup_proc
    <2> QED
      BY <2>1 DEF Ready, Wakes, m
  <1>3. CASE k.st[p] \notin {"ZOMBIE", "RUNNABLE"}
    <2>1. /\ awake \in Kernel(T) /\ awake.cur = k.cur /\ awake.rq = k.rq
          /\ awake.ws = [k.ws EXCEPT ![p] = "0"] /\ k.ws \in [T \cup {Idle} -> WaitStates]
      <3> DEFINE running == [k EXCEPT !.st[p] = "RUNNABLE"]
      <3>1. /\ running \in Kernel(T) /\ running.cur = k.cur /\ running.rq = k.rq
            /\ running.ws = k.ws /\ k.ws \in [T \cup {Idle} -> WaitStates]
        BY DEF SchedOK, Kernel, RunStates, WaitStates
      <3>2. awake = [running EXCEPT !.ws[p] = "0"]
        OBVIOUS
      <3> HIDE DEF running, awake
      <3> QED
        BY <3>1, <3>2 DEF Kernel, WaitStates
    <2> HIDE DEF awake
    <2>a. SchedOK(awake, T) /\ \A q \in T : q # p => awake.ws[q] = k.ws[q]
      BY <2>1 DEF SchedOK
    <2>2. CASE p = k.cur
      <3>1. m = awake
        BY <1>3, <2>2 DEF m, awake, wakeup_proc
      <3> QED
        BY <2>1, <2>a, <3>1 DEF Ready, Wakes, m
    <2>3. CASE p # k.cur
      <3>1. m = RR_enqueue(awake, p)
        BY <1>3, <2>3 DEF m, awake, wakeup_proc, sched_class_enqueue
      <3>2. awake.rq \in Seq(T) /\ ToSet(awake.rq) = In(awake.rq)
        BY <2>1, <2>a, InIsToSet DEF SchedOK, Kernel, RunStates, WaitStates
      <3>3. CASE p \in In(awake.rq)
        <4> DEFINE stop == Panic(awake, "RR_enqueue")
        <4>1. m = stop
          BY <3>1, <3>2, <3>3 DEF RR_enqueue
        <4>2. SchedOK(stop, T) /\ stop.cur = awake.cur /\ stop.rq = awake.rq /\ stop.ws = awake.ws
          BY <2>a, PanicFrame DEF Panics
        <4> HIDE DEF stop
        <4> QED
          BY <2>1, <2>a, <4>1, <4>2 DEF Ready, Wakes, m
      <3>4. CASE p \notin In(awake.rq)
        <4>1. m = [awake EXCEPT !.rq = Append(@, p),
                       !.slice[p] = IF @ = 0 \/ @ > MAX_TIME_SLICE THEN MAX_TIME_SLICE ELSE @]
          BY <3>1, <3>2, <3>4 DEF RR_enqueue
        <4>2. /\ Append(awake.rq, p) \in Seq(T) /\ Once(Append(awake.rq, p))
              /\ In(Append(awake.rq, p)) = In(awake.rq) \cup {p}
          BY <2>1, <2>a, <3>2, <3>4, InAppend DEF SchedOK
        <4>3. m \in Kernel(T) /\ m.rq = Append(awake.rq, p) /\ m.cur = awake.cur /\ m.ws = awake.ws
          <5>1. awake \in Kernel(T)
            BY <2>1
          <5>2. m.rq = Append(awake.rq, p) /\ m.cur = awake.cur /\ m.ws = awake.ws
            BY <4>1, <5>1 DEF Kernel
          <5>3. (IF awake.slice[p] = 0 \/ awake.slice[p] > MAX_TIME_SLICE THEN MAX_TIME_SLICE ELSE awake.slice[p]) \in Nat
            BY <5>1, SliceAssumption DEF Kernel
          <5>4. m \in Kernel(T)
            BY <4>1, <4>2, <5>1, <5>3 DEF Kernel
          <5> QED
            BY <5>2, <5>4
        <4> QED
          BY <2>1, <2>a, <2>3, <4>2, <4>3 DEF Ready, SchedOK, Wakes, m
      <3> QED
        BY <3>3, <3>4
    <2> QED
      BY <2>2, <2>3 DEF m
  <1> QED
    BY <1>1, <1>2, <1>3 DEF m

(* m is k after the current thread has given the CPU to one that could     *)
(* have it, or to idleproc, and cannot get it back without being woken.    *)
Yields(k, m, T) ==
    /\ SchedOK(m, T) /\ m.ws = k.ws
    /\ Ready(m) \subseteq Ready(k) \cup {Idle}
    /\ k.cur # Idle => k.cur \notin Ready(m)

MayYield(k) == k.cur = Idle \/ k.st[k.cur] # "RUNNABLE"

(* schedule, called by idleproc or by a thread that has stopped being      *)
(* runnable.                                                               *)
LEMMA ScheduleFrame ==
    ASSUME NEW T, NEW k,
           Idle \notin T, SchedOK(k, T), MayYield(k)
    PROVE  Yields(k, schedule(k), T)
  <1> DEFINE m == schedule(k)
             quiet == [k EXCEPT !.resched[k.cur] = FALSE]
  <1>1. /\ SchedOK(quiet, T) /\ quiet.cur = k.cur /\ quiet.rq = k.rq /\ quiet.st = k.st
        /\ quiet.ws = k.ws /\ quiet.rq \in Seq(T)
    BY DEF SchedOK, Kernel, RunStates, WaitStates
  <1> HIDE DEF m, quiet
  <1>2. m = IF quiet.rq = <<>> THEN [quiet EXCEPT !.cur = Idle]
            ELSE [RR_dequeue(quiet, Head(quiet.rq)) EXCEPT !.cur = Head(quiet.rq)]
    <2>1. CASE k.cur = Idle
      BY <1>1, <2>1 DEF m, quiet, schedule, sched_class_enqueue
    <2>2. CASE k.st[k.cur] # "RUNNABLE"
      BY <1>1, <2>2 DEF m, quiet, schedule
    <2> QED
      BY <2>1, <2>2 DEF MayYield
  <1>3. CASE quiet.rq = <<>>
    <2>1. m = [quiet EXCEPT !.cur = Idle]
      BY <1>2, <1>3
    <2>2. In(quiet.rq) = {}
      BY <1>3 DEF In
    <2>3. SchedOK(m, T) /\ m.ws = k.ws /\ m.cur = Idle /\ m.rq = quiet.rq
      BY <1>1, <2>1, <2>2 DEF SchedOK, Kernel, RunStates, WaitStates
    <2> QED
      BY <1>1, <2>2, <2>3 DEF Ready, Yields, m
  <1>4. CASE quiet.rq # <<>>
    <2> DEFINE h == Head(quiet.rq)
    <2>1. /\ Tail(quiet.rq) \in Seq(T) /\ Once(Tail(quiet.rq)) /\ h \in T
          /\ h \in In(quiet.rq) /\ In(Tail(quiet.rq)) = In(quiet.rq) \ {h}
      BY <1>1, <1>4, InTail DEF SchedOK
    <2>2. Unlink(quiet.rq, h) = Tail(quiet.rq)
      BY <1>1, <1>4, UnlinkHead DEF SchedOK
    <2>3. ToSet(quiet.rq) = In(quiet.rq)
      BY <1>1, InIsToSet
    <2>4. RR_dequeue(quiet, h) = [quiet EXCEPT !.rq = Tail(quiet.rq)]
      BY <1>1, <2>1, <2>2, <2>3 DEF RR_dequeue
    <2>5. m = [[quiet EXCEPT !.rq = Tail(quiet.rq)] EXCEPT !.cur = h]
      BY <1>2, <1>4, <2>4
    <2> HIDE DEF h
    <2>6. m \in Kernel(T) /\ m.rq = Tail(quiet.rq) /\ m.cur = h /\ m.ws = k.ws
      BY <1>1, <2>1, <2>5 DEF SchedOK, Kernel, RunStates, WaitStates
    <2> QED
      BY <1>1, <2>1, <2>6 DEF SchedOK, Ready, Yields, m
  <1> QED
    BY <1>3, <1>4

-----------------------------------------------------------------------------
(* The queues q of the semaphores X, in which the threads T wait: a thread is *)
(* in one once, in no other than the semaphore W[p] it may wait for, cannot  *)
(* get the CPU, and only up() will wake it.                                *)
Waiting(k, q, W) ==
    \A x \in DOMAIN q :
        /\ Once(q[x])
        /\ \A p \in In(q[x]) : W[p] = x /\ p \notin Ready(k) /\ k.ws[p] = "WT_KSEM"

Queueing(k, q, W, X, T) == SchedOK(k, T) /\ q \in [X -> Seq(T)] /\ Waiting(k, q, W)

InNone(p, q, X) == \A x \in X : p \notin In(q[x])

(* Whoever is queued is a thread that waits for just that. *)
LEMMA WaitersAreThreads ==
    ASSUME NEW T, NEW X, NEW k, NEW q, NEW W, NEW x, NEW p,
           Queueing(k, q, W, X, T), x \in X, p \in In(q[x])
    PROVE  p \in T /\ W[p] = x /\ p \notin Ready(k) /\ k.ws[p] = "WT_KSEM"
  <1>1. q[x] \in Seq(T)
    BY DEF Queueing
  <1>2. p \in T
    BY <1>1 DEF In
  <1> QED
    BY <1>2 DEF Queueing, Waiting

(* A thread that has the CPU is in no queue, so it may go on to wait for   *)
(* anything.                                                               *)
LEMMA RunningIsNotQueued ==
    ASSUME NEW T, NEW X, NEW k, NEW q, NEW W,
           Queueing(k, q, W, X, T)
    PROVE  InNone(k.cur, q, X)
  BY DEF Queueing, Waiting, Ready, InNone

SameBut(W, V, p, T) == \A o \in T : o # p => V[o] = W[o]

(* The current thread may choose what it waits for next. *)
LEMMA MayWaitAnew ==
    ASSUME NEW T, NEW X, NEW k, NEW q, NEW W, NEW V,
           Queueing(k, q, W, X, T), SameBut(W, V, k.cur, T)
    PROVE  Queueing(k, q, V, X, T)
  <1>1. ASSUME NEW x \in X, NEW p \in In(q[x]) PROVE V[p] = W[p]
    BY RunningIsNotQueued, WaitersAreThreads DEF InNone, SameBut
  <1> QED
    BY <1>1 DEF Queueing, Waiting

(* up() on a semaphore that somebody waits for: the first in its queue.    *)
First(q, x) == Head(q[x])
Popped(q, x) == [q EXCEPT ![x] = Tail(@)]

Shorter(q, r, x, p, X) ==
    /\ p \in In(q[x]) /\ In(r[x]) = In(q[x]) \ {p}
    /\ \A z \in X : z # x => r[z] = q[z]

(* up with a waiter: the first is off the queue and runnable. *)
LEMMA WaitingUp ==
    ASSUME NEW T, NEW X, NEW k, NEW q, NEW W, NEW x,
           Idle \notin T, Queueing(k, q, W, X, T), x \in X, q[x] # <<>>
    PROVE  /\ Queueing(wakeup_proc(k, First(q, x)), Popped(q, x), W, X, T)
           /\ Shorter(q, Popped(q, x), x, First(q, x), X)
           /\ wakeup_proc(k, First(q, x)).cur = k.cur
           /\ k.ws[First(q, x)] = "WT_KSEM"
  <1> DEFINE r == Popped(q, x)
             p == First(q, x)
             m == wakeup_proc(k, p)
  <1>1. q \in [X -> Seq(T)] /\ q[x] \in Seq(T) /\ Once(q[x])
    BY DEF Queueing, Waiting
  <1>2. /\ Tail(q[x]) \in Seq(T) /\ Once(Tail(q[x])) /\ p \in T /\ p \in In(q[x])
        /\ In(Tail(q[x])) = In(q[x]) \ {p}
    BY <1>1, InTail DEF First
  <1>3. /\ r \in [X -> Seq(T)] /\ r[x] = Tail(q[x])
        /\ \A z \in X : z # x => r[z] = q[z]
    BY <1>1, <1>2 DEF Popped
  <1> HIDE DEF p, r
  <1>4. Wakes(k, m, p, T)
    BY <1>2, WakeupFrame DEF Queueing
  <1> HIDE DEF m
  <1>5. ASSUME NEW z \in X, NEW o \in In(r[z])
        PROVE  W[o] = z /\ o \notin Ready(m) /\ m.ws[o] = "WT_KSEM"
    <2>1. o \in In(q[z])
      BY <1>2, <1>3, <1>5
    <2>2. o \in T /\ W[o] = z /\ o \notin Ready(k) /\ k.ws[o] = "WT_KSEM"
      BY <2>1, WaitersAreThreads
    <2>3. o # p
      <3>1. CASE z = x
        BY <1>2, <1>3, <1>5, <3>1
      <3>2. CASE z # x
        BY <1>2, <2>2, <3>2, WaitersAreThreads
      <3> QED
        BY <3>1, <3>2
    <2> QED
      BY <1>4, <2>2, <2>3 DEF Wakes
  <1>6. ASSUME NEW z \in X PROVE Once(r[z])
    BY <1>1, <1>2, <1>3 DEF Queueing, Waiting
  <1>7. Queueing(m, r, W, X, T)
    BY <1>3, <1>4, <1>5, <1>6 DEF Queueing, Waiting, Wakes
  <1>8. k.ws[p] = "WT_KSEM"
    BY <1>2, WaitersAreThreads
  <1>9. Shorter(q, r, x, p, X) /\ m.cur = k.cur
    BY <1>2, <1>3, <1>4 DEF Shorter, Wakes
  <1> QED
    BY <1>7, <1>8, <1>9 DEF m, r, p

(* The thread p that has the CPU becomes n, in which it cannot run, and    *)
(* gives the CPU away: none of those in a queue gets it.                   *)
Stops(k, n, p, T) ==
    /\ p \in T /\ k.cur = p /\ SchedOK(n, T) /\ n.cur = p /\ n.rq = k.rq
    /\ n.st[p] # "RUNNABLE" /\ \A o \in T : o # p => n.ws[o] = k.ws[o]

(* The current thread stops, without queueing anywhere. *)
LEMMA WaitingGiveUp ==
    ASSUME NEW T, NEW X, NEW k, NEW q, NEW W, NEW p, NEW n,
           Idle \notin T, Queueing(k, q, W, X, T), Stops(k, n, p, T)
    PROVE  Queueing(schedule(n), q, W, X, T) /\ Yields(n, schedule(n), T)
  <1> DEFINE m == schedule(n)
  <1>1. Yields(n, m, T)
    BY ScheduleFrame DEF Stops, MayYield
  <1> HIDE DEF m
  <1>2. Ready(n) = Ready(k)
    BY DEF Ready, Stops
  <1>3. ASSUME NEW x \in X, NEW o \in In(q[x])
        PROVE  o \notin Ready(m) /\ m.ws[o] = "WT_KSEM"
    <2>1. o \in T /\ o \notin Ready(k) /\ k.ws[o] = "WT_KSEM"
      BY WaitersAreThreads
    <2>2. o # p
      BY <2>1 DEF Ready, Stops
    <2> QED
      BY <1>1, <1>2, <2>1, <2>2 DEF Stops, Yields
  <1>4. Queueing(m, q, W, X, T)
    BY <1>1, <1>3 DEF Queueing, Waiting, Yields
  <1> QED
    BY <1>1, <1>4 DEF m

(* What do_sleep and wait_current_set do to the current thread. *)
Dozing(k, p, why) == [k EXCEPT !.st[p] = "SLEEPING", !.ws[p] = why]

(* do_sleep stops it. *)
LEMMA SleeperStops ==
    ASSUME NEW T, NEW k, NEW p, NEW why,
           SchedOK(k, T), p \in T, k.cur = p, why \in WaitStates
    PROVE  Stops(k, Dozing(k, p, why), p, T) /\ Dozing(k, p, why).ws[p] = why
  <1> DEFINE n == Dozing(k, p, why)
             drowsy == [k EXCEPT !.st[p] = "SLEEPING"]
  <1>1. /\ drowsy \in Kernel(T) /\ drowsy.cur = p /\ drowsy.rq = k.rq /\ drowsy.ws = k.ws
        /\ drowsy.st[p] = "SLEEPING"
    BY DEF SchedOK, Kernel, RunStates
  <1>2. n = [drowsy EXCEPT !.ws[p] = why]
    BY DEF Dozing
  <1> HIDE DEF drowsy, n
  <1>3. /\ n \in Kernel(T) /\ n.cur = p /\ n.rq = k.rq /\ n.st = drowsy.st
        /\ n.ws[p] = why /\ \A o \in T : o # p => n.ws[o] = k.ws[o]
    BY <1>1, <1>2 DEF Kernel
  <1>4. SchedOK(n, T)
    BY <1>1, <1>3 DEF SchedOK
  <1> QED
    BY <1>1, <1>3, <1>4 DEF Stops, n

(* So does do_exit. *)
LEMMA ZombieStops ==
    ASSUME NEW T, NEW k, NEW p,
           SchedOK(k, T), p \in T, k.cur = p
    PROVE  Stops(k, [k EXCEPT !.st[p] = "ZOMBIE"], p, T)
  <1> DEFINE n == [k EXCEPT !.st[p] = "ZOMBIE"]
  <1>1. /\ n \in Kernel(T) /\ n.cur = p /\ n.rq = k.rq /\ n.ws = k.ws /\ n.st[p] = "ZOMBIE"
    BY DEF SchedOK, Kernel, RunStates
  <1> HIDE DEF n
  <1> QED
    BY <1>1 DEF Stops, SchedOK, n

(* down() on a semaphore without a permit. *)
Pushed(q, x, p) == [q EXCEPT ![x] = Append(@, p)]

Longer(q, r, x, p, X) ==
    In(r[x]) = In(q[x]) \cup {p} /\ \A z \in X : z # x => r[z] = q[z]

(* down without a permit: the current thread is the last waiter. *)
LEMMA WaitingDown ==
    ASSUME NEW T, NEW X, NEW k, NEW q, NEW W, NEW x, NEW p,
           Idle \notin T, Queueing(k, q, W, X, T), k.cur = p, p \in T, x \in X, W[p] = x
    PROVE  /\ Queueing(schedule(Dozing(k, p, "WT_KSEM")), Pushed(q, x, p), W, X, T)
           /\ Longer(q, Pushed(q, x, p), x, p, X)
  <1> DEFINE n == Dozing(k, p, "WT_KSEM")
             m == schedule(n)
             r == Pushed(q, x, p)
  <1>1. Stops(k, n, p, T) /\ n.ws[p] = "WT_KSEM"
    <2>1. SchedOK(k, T) /\ "WT_KSEM" \in WaitStates
      BY DEF Queueing, WaitStates
    <2> QED
      BY <2>1, SleeperStops
  <1> HIDE DEF n
  <1>2. Queueing(m, q, W, X, T) /\ Yields(n, m, T)
    BY <1>1, WaitingGiveUp
  <1> HIDE DEF m
  <1>3. q \in [X -> Seq(T)] /\ q[x] \in Seq(T) /\ p \notin In(q[x]) /\ Once(q[x])
    BY RunningIsNotQueued DEF Queueing, Waiting, InNone
  <1>4. /\ Append(q[x], p) \in Seq(T) /\ Once(Append(q[x], p))
        /\ In(Append(q[x], p)) = In(q[x]) \cup {p}
    BY <1>3, InAppend
  <1>5. /\ r \in [X -> Seq(T)] /\ r[x] = Append(q[x], p)
        /\ \A z \in X : z # x => r[z] = q[z]
    BY <1>3, <1>4 DEF Pushed
  <1> HIDE DEF r
  <1>6. p \notin Ready(m) /\ m.ws[p] = "WT_KSEM"
    BY <1>1, <1>2 DEF Stops, Yields
  <1>7. Queueing(m, r, W, X, T)
    <2>1. ASSUME NEW z \in X
          PROVE  /\ Once(r[z])
                 /\ \A o \in In(r[z]) : W[o] = z /\ o \notin Ready(m) /\ m.ws[o] = "WT_KSEM"
      <3>1. /\ Once(q[z])
            /\ \A o \in In(q[z]) : W[o] = z /\ o \notin Ready(m) /\ m.ws[o] = "WT_KSEM"
        BY <1>2 DEF Queueing, Waiting
      <3>2. CASE z # x
        BY <1>5, <3>1, <3>2
      <3>3. CASE z = x
        BY <1>4, <1>5, <1>6, <3>1, <3>3
      <3> QED
        BY <3>2, <3>3
    <2> QED
      BY <1>2, <1>5, <2>1 DEF Queueing, Waiting
  <1> QED
    BY <1>4, <1>5, <1>7 DEF m, n, r, Longer

(* A timer wakes a thread, and idleproc calls schedule. *)
LEMMA WaitingTimer ==
    ASSUME NEW T, NEW X, NEW k, NEW q, NEW W, NEW p,
           Idle \notin T, Queueing(k, q, W, X, T), p \in T, k.ws[p] = "WT_TIMER"
    PROVE  Queueing(wakeup_proc(k, p), q, W, X, T)
  <1> DEFINE m == wakeup_proc(k, p)
  <1>1. Wakes(k, m, p, T)
    BY WakeupFrame DEF Queueing
  <1> HIDE DEF m
  <1>2. ASSUME NEW x \in X, NEW o \in In(q[x])
        PROVE  o \notin Ready(m) /\ m.ws[o] = "WT_KSEM"
    <2>1. o \in T /\ o \notin Ready(k) /\ k.ws[o] = "WT_KSEM"
      BY WaitersAreThreads
    <2> QED
      BY <1>1, <2>1 DEF Wakes
  <1>3. Queueing(m, q, W, X, T)
    BY <1>1, <1>2 DEF Queueing, Waiting, Wakes
  <1> QED
    BY <1>3 DEF m

(* schedule() of the idle thread. *)
LEMMA WaitingIdle ==
    ASSUME NEW T, NEW X, NEW k, NEW q, NEW W,
           Idle \notin T, Queueing(k, q, W, X, T), k.cur = Idle
    PROVE  Queueing(schedule(k), q, W, X, T)
  <1> DEFINE m == schedule(k)
  <1>1. Yields(k, m, T)
    BY ScheduleFrame DEF Queueing, MayYield
  <1> HIDE DEF m
  <1>2. Ready(m) \subseteq Ready(k)
    BY <1>1 DEF Ready, Yields
  <1>3. Queueing(m, q, W, X, T)
    BY <1>1, <1>2 DEF Queueing, Waiting, Yields
  <1> QED
    BY <1>3 DEF m

-----------------------------------------------------------------------------
(* No semaphore touches a field state that a record has beside its own.    *)
HasState(v) == v = [f \in DOMAIN v |-> v[f]] /\ "state" \in DOMAIN v
Untouched(v, u) == HasState(u) /\ u.state = v.state

(* up leaves it alone. *)
LEMMA UpUntouched ==
    ASSUME NEW v, NEW x, HasState(v) PROVE Untouched(v, up(v, x))
  <1>1. CASE v.queue[x] = <<>>
    BY <1>1 DEF HasState, Untouched, up
  <1>2. CASE v.queue[x] # <<>>
    <2> DEFINE p == Head(v.queue[x])
               k == wakeup_proc(IF v.k.ws[p] = "WT_KSEM" THEN v.k ELSE Panic(v.k, "__up"), p)
    <2>1. up(v, x) = [v EXCEPT !.queue[x] = Tail(@), !.k = k]
      BY <1>2 DEF up
    <2> HIDE DEF k
    <2> QED
      BY <2>1 DEF HasState, Untouched
  <1> QED
    BY <1>1, <1>2

(* down leaves it alone. *)
LEMMA DownUntouched ==
    ASSUME NEW v, NEW x, HasState(v) PROVE Untouched(v, down(v, x))
  <1>1. CASE v.value[x] > 0
    BY <1>1 DEF HasState, Untouched, down
  <1>2. CASE ~(v.value[x] > 0)
    <2> DEFINE p == v.k.cur
               k == schedule([v.k EXCEPT !.st[p] = "SLEEPING", !.ws[p] = "WT_KSEM"])
    <2>1. down(v, x) = [v EXCEPT !.queue[x] = Append(@, p), !.k = k]
      BY <1>2 DEF down
    <2> HIDE DEF k, p
    <2> QED
      BY <2>1 DEF HasState, Untouched
  <1> QED
    BY <1>1, <1>2

(* So do the procedures of a monitor, which are made of these. *)
LEMMA MonitorUntouched ==
    ASSUME NEW v, NEW c, HasState(v)
    PROVE  /\ Untouched(v, leave_monitor(v)) /\ Untouched(v, cond_wait(v, c))
           /\ Untouched(v, cond_waited(v, c))
           /\ Untouched(v, cond_signal(v, c)) /\ Untouched(v, cond_signalled(v))
  <1>1. ASSUME NEW u, HasState(u) PROVE Untouched(u, leave_monitor(u))
    BY <1>1, UpUntouched DEF leave_monitor
  <1>2. Untouched(v, cond_wait(v, c))
    <2> DEFINE w == [v EXCEPT !.count[c] = @ + 1]
    <2>1. Untouched(v, w)
      BY DEF HasState, Untouched
    <2>2. cond_wait(v, c) = down(leave_monitor(w), c)
      BY DEF cond_wait
    <2> HIDE DEF w
    <2>3. Untouched(w, leave_monitor(w))
      BY <1>1, <2>1 DEF Untouched
    <2>4. Untouched(leave_monitor(w), down(leave_monitor(w), c))
      BY <2>3, DownUntouched DEF Untouched
    <2> QED
      BY <2>1, <2>2, <2>3, <2>4 DEF Untouched
  <1>3. Untouched(v, cond_signal(v, c))
    <2> DEFINE w == [v EXCEPT !.next_count = @ + 1]
    <2>1. Untouched(v, w)
      BY DEF HasState, Untouched
    <2>2. cond_signal(v, c) = down(up(w, c), next)
      BY DEF cond_signal
    <2> HIDE DEF w
    <2>3. Untouched(w, up(w, c))
      BY <2>1, UpUntouched DEF Untouched
    <2>4. Untouched(up(w, c), down(up(w, c), next))
      BY <2>3, DownUntouched DEF Untouched
    <2> QED
      BY <2>1, <2>2, <2>3, <2>4 DEF Untouched
  <1>4. Untouched(v, cond_waited(v, c)) /\ Untouched(v, cond_signalled(v))
    BY DEF HasState, Untouched, cond_waited, cond_signalled
  <1> QED
    BY <1>1, <1>2, <1>3, <1>4

-----------------------------------------------------------------------------

Ring ==
    /\ N \in Nat \ {0, 1} /\ Idle \notin Phil /\ mutex \notin Phil /\ next \notin Phil
    /\ mutex # next /\ Idle \notin {mutex, next}

LEMMA IsRing == Ring
  BY TableAssumption DEF Ring

(* The circle of the philosophers. *)
LEMMA Circle ==
    ASSUME N \in Nat \ {0, 1}, NEW i \in Phil
    PROVE  /\ LEFT(i) \in Phil /\ RIGHT(i) \in Phil /\ LEFT(i) # i /\ RIGHT(i) # i
           /\ LEFT(RIGHT(i)) = i /\ RIGHT(LEFT(i)) = i
  <1>1. LEFT(i) = IF i = 0 THEN N - 1 ELSE i - 1
    BY DEF LEFT, Phil
  <1>2. RIGHT(i) = IF i = N - 1 THEN 0 ELSE i + 1
    BY DEF RIGHT, Phil
  <1>3. LEFT(i) \in Phil /\ RIGHT(i) \in Phil /\ LEFT(i) # i /\ RIGHT(i) # i
    BY <1>1, <1>2 DEF Phil
  <1>4. LEFT(RIGHT(i)) = IF RIGHT(i) = 0 THEN N - 1 ELSE RIGHT(i) - 1
    BY <1>3 DEF LEFT, Phil
  <1>5. RIGHT(LEFT(i)) = IF LEFT(i) = N - 1 THEN 0 ELSE LEFT(i) + 1
    BY <1>3 DEF RIGHT, Phil
  <1> QED
    BY <1>1, <1>2, <1>3, <1>4, <1>5 DEF Phil

-----------------------------------------------------------------------------
(* The inductive invariant, of a record v and program counters c: inside a *)
(* step they are not those of the variables y and pc yet.                  *)
Points == {"start", "take", "hungry", "grab", "eat", "full", "put", "quit"}

Moods == {"THINKING", "HUNGRY", "EATING"}

Systems_sema ==
    [k: Kernel(Phil), value: [Sems_sema -> Nat], queue: [Sems_sema -> Seq(Phil)], state: [Phil -> Moods]]

(* The semaphore that a philosopher may be waiting for. *)
WaitsFor_sema(c) ==
    [p \in Phil |-> IF c[p] \in {"hungry", "put"} THEN mutex
                    ELSE IF c[p] = "eat" THEN p ELSE Idle]

Core_sema(v, c) ==
    /\ v \in Systems_sema /\ c \in [Phil -> Points]
    /\ Queueing(v.k, v.queue, WaitsFor_sema(c), Sems_sema, Phil)

Queued(v, i) == i \in In(v.queue[i])

Holds(v, c, i) == (c[i] = "eat" /\ ~Queued(v, i)) \/ c[i] \in {"full", "put"}

(* state_sema of i against his point, his semaphore and his neighbour. *)
Fits_sema(v, c, i) ==
    /\ v.state[i] = "EATING" => v.state[RIGHT(i)] # "EATING"
    /\ v.value[i] = IF v.state[i] = "EATING" /\ ~Holds(v, c, i) THEN 1 ELSE 0
    /\ Holds(v, c, i) => v.state[i] = "EATING"
    /\ Queued(v, i) => v.state[i] = "HUNGRY"
    /\ c[i] \in {"start", "take", "hungry", "quit"} => v.state[i] = "THINKING"
    /\ c[i] = "grab" => v.state[i] # "THINKING"

(* Why i is hungry and does not eat. *)
Reason(v, i) ==
    v.state[i] = "HUNGRY" => v.state[LEFT(i)] = "EATING" \/ v.state[RIGHT(i)] = "EATING"

(* E: those of whom phi_put_forks_sema has not thought yet. *)
Sound_sema(v, c, E) ==
    /\ Core_sema(v, c)
    /\ \A i \in Phil : Fits_sema(v, c, i)
    /\ \A i \in Phil : i \in E \/ Reason(v, i)

-----------------------------------------------------------------------------
(* up(x): a thread leaves the queue, or value rises. *)
Raised_sema(v, u, x) ==
    /\ v.queue[x] = <<>> /\ u.queue = v.queue
    /\ u.value[x] = v.value[x] + 1 /\ \A z \in Sems_sema : z # x => u.value[z] = v.value[z]

Handed_sema(v, u, x) ==
    u.value = v.value /\ \E h : Shorter(v.queue, u.queue, x, h, Sems_sema)

(* up(x) keeps the queues in order: it raises value or takes one waiter. *)
LEMMA UpCore_sema ==
    ASSUME NEW v, NEW c, NEW x,
           Ring, Core_sema(v, c), x \in Sems_sema
    PROVE  /\ Core_sema(up(v, x), c) /\ up(v, x).k.cur = v.k.cur /\ up(v, x).state = v.state
           /\ Raised_sema(v, up(v, x), x) \/ Handed_sema(v, up(v, x), x)
  <1> DEFINE u == up(v, x)
             k == v.k
             q == v.queue
             W == WaitsFor_sema(c)
  <1>1. v \in Systems_sema /\ Queueing(k, q, W, Sems_sema, Phil) /\ Idle \notin Phil
    BY DEF Core_sema, Ring
  <1>2. CASE q[x] = <<>>
    <2> DEFINE w == [v.value EXCEPT ![x] = @ + 1]
    <2>1. /\ w \in [Sems_sema -> Nat] /\ w[x] = v.value[x] + 1
          /\ \A z \in Sems_sema : z # x => w[z] = v.value[z]
      BY <1>1 DEF Systems_sema
    <2>2. u = [v EXCEPT !.value = w]
      BY <1>1, <1>2 DEF Systems_sema, up
    <2> HIDE DEF w, u
    <2>3. u \in Systems_sema /\ u.k = v.k /\ u.queue = v.queue /\ u.state = v.state /\ u.value = w
      BY <1>1, <2>1, <2>2 DEF Systems_sema
    <2> QED
      BY <1>1, <1>2, <2>1, <2>3 DEF Core_sema, Raised_sema, u
  <1>3. CASE q[x] # <<>>
    <2> DEFINE h == First(q, x)
               r == Popped(q, x)
               m == wakeup_proc(k, h)
    <2> HIDE DEF k, q, W
    <2>1. /\ Queueing(m, r, W, Sems_sema, Phil) /\ Shorter(q, r, x, h, Sems_sema) /\ m.cur = k.cur
          /\ k.ws[h] = "WT_KSEM"
      BY <1>1, <1>3, WaitingUp
    <2>2. u = [v EXCEPT !.queue[x] = Tail(@), !.k = m]
      BY <1>3, <2>1 DEF up, First, k, q
    <2>3. r \in [Sems_sema -> Seq(Phil)] /\ m \in Kernel(Phil)
      BY <2>1 DEF Queueing, SchedOK
    <2>4. u = [v EXCEPT !.queue = r, !.k = m]
      BY <1>1, <2>2 DEF Systems_sema, Popped, q
    <2> HIDE DEF r, u, m, h
    <2>5. /\ u \in Systems_sema /\ u.k = m /\ u.queue = r /\ u.state = v.state /\ u.value = v.value
      BY <1>1, <2>3, <2>4 DEF Systems_sema
    <2> QED
      BY <1>1, <2>1, <2>5 DEF Core_sema, Handed_sema, u, k, q, W
  <1> QED
    BY <1>2, <1>3

(* The current thread goes on to a point of its own. *)
Moved(c, i, point) == [c EXCEPT ![i] = point]

(* The current thread waits nowhere, so it may go to any other point. *)
LEMMA MoveCore_sema ==
    ASSUME NEW v, NEW c, NEW i, NEW point,
           Core_sema(v, c), v.k.cur = i, i \in Phil, point \in Points
    PROVE  Core_sema(v, Moved(c, i, point)) /\ InNone(i, v.queue, Sems_sema)
  <1> DEFINE k == v.k
             q == v.queue
             d == Moved(c, i, point)
             W == WaitsFor_sema(c)
             V == WaitsFor_sema(d)
  <1>1. Queueing(k, q, W, Sems_sema, Phil) /\ c \in [Phil -> Points]
    BY DEF Core_sema
  <1>2. d \in [Phil -> Points] /\ \A o \in Phil : o # i => d[o] = c[o]
    BY <1>1 DEF Moved
  <1>3. \A o \in Phil : o # i => V[o] = W[o]
    BY <1>2 DEF WaitsFor_sema
  <1>4. k.cur = i
    OBVIOUS
  <1> HIDE DEF k, q, d, W, V
  <1>5. SameBut(W, V, k.cur, Phil)
    BY <1>3, <1>4 DEF SameBut
  <1>6. Queueing(k, q, V, Sems_sema, Phil) /\ InNone(k.cur, q, Sems_sema)
    BY <1>1, <1>5, MayWaitAnew, RunningIsNotQueued
  <1> QED
    BY <1>2, <1>4, <1>6 DEF Core_sema, k, q, d, V

(* down(x) by the current thread. *)
Lowered_sema(v, u, x) ==
    /\ v.value[x] > 0 /\ u.queue = v.queue
    /\ u.value[x] = v.value[x] - 1 /\ \A z \in Sems_sema : z # x => u.value[z] = v.value[z]

Joined_sema(v, u, x, p) ==
    v.value[x] = 0 /\ u.value = v.value /\ Longer(v.queue, u.queue, x, p, Sems_sema)

(* down(x) keeps them: it lowers value or queues the current thread. *)
LEMMA DownCore_sema ==
    ASSUME NEW v, NEW c, NEW x, NEW p,
           Ring, Core_sema(v, c), x \in Sems_sema, p \in Phil, v.k.cur = p, WaitsFor_sema(c)[p] = x
    PROVE  /\ Core_sema(down(v, x), c) /\ down(v, x).state = v.state
           /\ Lowered_sema(v, down(v, x), x) \/ Joined_sema(v, down(v, x), x, p)
  <1> DEFINE u == down(v, x)
             k == v.k
             q == v.queue
             W == WaitsFor_sema(c)
  <1>1. v \in Systems_sema /\ Queueing(k, q, W, Sems_sema, Phil) /\ Idle \notin Phil /\ k.cur = p /\ W[p] = x
    BY DEF Core_sema, Ring
  <1>2. CASE v.value[x] > 0
    <2> DEFINE w == [v.value EXCEPT ![x] = @ - 1]
    <2>1. /\ w \in [Sems_sema -> Nat] /\ w[x] = v.value[x] - 1
          /\ \A z \in Sems_sema : z # x => w[z] = v.value[z]
      BY <1>1, <1>2 DEF Systems_sema
    <2>2. u = [v EXCEPT !.value = w]
      BY <1>1, <1>2 DEF Systems_sema, down
    <2> HIDE DEF w, u
    <2>3. u \in Systems_sema /\ u.k = v.k /\ u.queue = v.queue /\ u.state = v.state /\ u.value = w
      BY <1>1, <2>1, <2>2 DEF Systems_sema
    <2> QED
      BY <1>1, <1>2, <2>1, <2>3 DEF Core_sema, Lowered_sema, u
  <1>3. CASE ~(v.value[x] > 0)
    <2> DEFINE n == Dozing(k, p, "WT_KSEM")
               r == Pushed(q, x, p)
               m == schedule(n)
    <2> HIDE DEF k, q, W
    <2>1. Queueing(m, r, W, Sems_sema, Phil) /\ Longer(q, r, x, p, Sems_sema)
      BY <1>1, WaitingDown
    <2>2. u = [v EXCEPT !.queue[x] = Append(@, p), !.k = m]
      BY <1>1, <1>3 DEF down, Dozing, k, q
    <2>3. r \in [Sems_sema -> Seq(Phil)] /\ m \in Kernel(Phil)
      BY <2>1 DEF Queueing, SchedOK
    <2>4. u = [v EXCEPT !.queue = r, !.k = m]
      BY <1>1, <2>2 DEF Systems_sema, Pushed, q
    <2>5. v.value[x] = 0
      BY <1>1, <1>3 DEF Systems_sema
    <2> HIDE DEF r, u, m, n
    <2>6. /\ u \in Systems_sema /\ u.k = m /\ u.queue = r /\ u.state = v.state /\ u.value = v.value
      BY <1>1, <2>3, <2>4 DEF Systems_sema
    <2> QED
      BY <1>1, <2>1, <2>5, <2>6 DEF Core_sema, Joined_sema, u, k, q, W
  <1> QED
    BY <1>2, <1>3

(* Only the scheduler's record changes. *)
Rescheduled_sema(v, u) == u.value = v.value /\ u.queue = v.queue /\ u.state = v.state

(* A step that changes only the scheduler's record. *)
LEMMA NewKernel_sema ==
    ASSUME NEW v, NEW c, NEW m,
           Core_sema(v, c), Queueing(m, v.queue, WaitsFor_sema(c), Sems_sema, Phil)
    PROVE  Core_sema([v EXCEPT !.k = m], c) /\ Rescheduled_sema(v, [v EXCEPT !.k = m])
  <1>1. v \in Systems_sema /\ m \in Kernel(Phil)
    BY DEF Core_sema, Queueing, SchedOK
  <1> DEFINE u == [v EXCEPT !.k = m]
  <1>2. u \in Systems_sema /\ u.k = m /\ u.queue = v.queue /\ u.value = v.value /\ u.state = v.state
    BY <1>1 DEF Systems_sema
  <1> HIDE DEF u
  <1> QED
    BY <1>2 DEF Core_sema, Rescheduled_sema, u

(* do_sleep, and the end of the thread. *)
LEMMA StopCore_sema ==
    ASSUME NEW v, NEW c, NEW n, NEW p,
           Ring, Core_sema(v, c), Stops(v.k, n, p, Phil)
    PROVE  Core_sema([v EXCEPT !.k = schedule(n)], c) /\ Rescheduled_sema(v, [v EXCEPT !.k = schedule(n)])
  <1> DEFINE k == v.k
             q == v.queue
             W == WaitsFor_sema(c)
  <1>1. Queueing(k, q, W, Sems_sema, Phil) /\ Idle \notin Phil /\ Stops(k, n, p, Phil)
    BY DEF Core_sema, Ring
  <1> HIDE DEF k, q, W
  <1>2. Queueing(schedule(n), q, W, Sems_sema, Phil)
    BY <1>1, WaitingGiveUp
  <1> QED
    BY <1>2, NewKernel_sema DEF q, W

(* do_sleep of the current thread. *)
LEMMA SleepCore_sema ==
    ASSUME NEW v, NEW c, NEW i,
           Ring, Core_sema(v, c), i \in Phil, v.k.cur = i
    PROVE  Core_sema(Asleep(v, i, "WT_TIMER"), c) /\ Rescheduled_sema(v, Asleep(v, i, "WT_TIMER"))
  <1> DEFINE n == Dozing(v.k, i, "WT_TIMER")
  <1>1. SchedOK(v.k, Phil) /\ "WT_TIMER" \in WaitStates
    BY DEF Core_sema, Queueing, WaitStates
  <1>2. Stops(v.k, n, i, Phil)
    BY <1>1, SleeperStops
  <1>3. Asleep(v, i, "WT_TIMER") = [v EXCEPT !.k = schedule(n)]
    BY DEF Asleep, Dozing
  <1> HIDE DEF n
  <1> QED
    BY <1>2, <1>3, StopCore_sema

-----------------------------------------------------------------------------
(* Nobody but i waits on the semaphore of i, and he does so where he is    *)
(* about to eat.                                                           *)
LEMMA OwnQueue_sema ==
    ASSUME NEW v, NEW c, NEW i, NEW p,
           Ring, Core_sema(v, c), i \in Phil, p \in In(v.queue[i])
    PROVE  p = i /\ c[i] = "eat"
  <1> DEFINE k == v.k
             q == v.queue
             W == WaitsFor_sema(c)
  <1>1. Queueing(k, q, W, Sems_sema, Phil) /\ i \in Sems_sema /\ p \in In(q[i])
    BY DEF Core_sema, Sems_sema
  <1> HIDE DEF k, q, W
  <1>2. p \in Phil /\ W[p] = i
    BY <1>1, WaitersAreThreads
  <1> QED
    BY <1>2 DEF W, WaitsFor_sema, Ring

(* Semaphores and states of the philosophers as before. *)
Alike_sema(v, u) ==
    u.state = v.state /\ \A i \in Phil : u.value[i] = v.value[i] /\ u.queue[i] = v.queue[i]

(* A step that changes nothing of the kind keeps the invariant. *)
LEMMA AlikeSound_sema ==
    ASSUME NEW v, NEW c, NEW u, NEW E,
           Sound_sema(v, c, E), Core_sema(u, c), Alike_sema(v, u)
    PROVE  Sound_sema(u, c, E)
  <1>1. ASSUME NEW i \in Phil PROVE Fits_sema(u, c, i)
    <2>1. Queued(u, i) <=> Queued(v, i)
      BY DEF Alike_sema, Queued
    <2>2. Holds(u, c, i) <=> Holds(v, c, i)
      BY <2>1 DEF Holds
    <2>3. Fits_sema(v, c, i)
      BY DEF Sound_sema
    <2> QED
      BY <2>1, <2>2, <2>3 DEF Alike_sema, Fits_sema
  <1>2. ASSUME NEW i \in Phil, i \notin E PROVE Reason(u, i)
    BY <1>2 DEF Sound_sema, Reason, Alike_sema
  <1> QED
    BY <1>1, <1>2 DEF Sound_sema

(* up(&mutex) *)
LEMMA UpMutexSound ==
    ASSUME NEW v, NEW c, NEW E,
           Ring, Sound_sema(v, c, E)
    PROVE  Sound_sema(up(v, mutex), c, E) /\ up(v, mutex).k.cur = v.k.cur
  <1> DEFINE u == up(v, mutex)
  <1>1. Core_sema(v, c) /\ mutex \in Sems_sema
    BY DEF Sound_sema, Sems_sema
  <1>2. /\ Core_sema(u, c) /\ u.k.cur = v.k.cur /\ u.state = v.state
        /\ Raised_sema(v, u, mutex) \/ Handed_sema(v, u, mutex)
    BY <1>1, UpCore_sema
  <1> HIDE DEF u
  <1>3. \A i \in Phil : i \in Sems_sema /\ i # mutex
    BY DEF Sems_sema, Ring
  <1>4. Alike_sema(v, u)
    BY <1>2, <1>3 DEF Alike_sema, Raised_sema, Handed_sema, Shorter
  <1>5. Sound_sema(u, c, E)
    BY <1>2, <1>4, AlikeSound_sema
  <1> QED
    BY <1>2, <1>5 DEF u

(* phi_test_sema(j) gives j what he may have, so that he is either served  *)
(* or has a reason to wait.                                                *)
LEMMA TestSound_sema ==
    ASSUME NEW v, NEW c, NEW j, NEW E,
           Ring, Sound_sema(v, c, E), j \in Phil
    PROVE  /\ Sound_sema(phi_test_sema(v, j), c, E \ {j})
           /\ phi_test_sema(v, j).k.cur = v.k.cur
  <1> DEFINE t == phi_test_sema(v, j)
             may == /\ v.state[j] = "HUNGRY"
                    /\ v.state[LEFT(j)] # "EATING" /\ v.state[RIGHT(j)] # "EATING"
             s == [v EXCEPT !.state[j] = "EATING"]
  <1>1. /\ Core_sema(v, c) /\ v \in Systems_sema /\ c \in [Phil -> Points] /\ N \in Nat \ {0, 1}
        /\ mutex \notin Phil /\ \A i \in Phil : Fits_sema(v, c, i)
    BY DEF Sound_sema, Core_sema, Ring
  <1>2. CASE ~may
    <2>1. t = v
      BY <1>2 DEF phi_test_sema
    <2>2. Reason(v, j)
      BY <1>2 DEF Reason
    <2> QED
      BY <2>1, <2>2 DEF Sound_sema, t
  <1>3. CASE may
    <2> DEFINE u == up(s, j)
    <2>1. t = u
      BY <1>3 DEF phi_test_sema
    <2>2. /\ s \in Systems_sema /\ s.k = v.k /\ s.queue = v.queue /\ s.value = v.value
          /\ s.state = [v.state EXCEPT ![j] = "EATING"]
      BY <1>1 DEF Systems_sema, Moods
    <2> HIDE DEF s
    <2>3. Core_sema(s, c) /\ j \in Sems_sema
      BY <1>1, <2>2 DEF Core_sema, Sems_sema
    <2>4. /\ Core_sema(u, c) /\ u.k.cur = s.k.cur /\ u.state = s.state
          /\ Raised_sema(s, u, j) \/ Handed_sema(s, u, j)
      BY <2>3, UpCore_sema
    <2> HIDE DEF u, t
    <2>5. /\ v.state \in [Phil -> Moods] /\ u.state[j] = "EATING"
          /\ \A i \in Phil : i # j => u.state[i] = v.state[i]
      BY <1>1, <2>2, <2>4 DEF Systems_sema
    <2>6. ~Holds(v, c, j) /\ v.value[j] = 0 /\ (Queued(v, j) => c[j] = "eat")
      <3>1. Fits_sema(v, c, j) /\ v.state[j] = "HUNGRY"
        BY <1>1, <1>3
      <3>2. ~Holds(v, c, j) /\ v.value[j] = 0
        BY <3>1 DEF Fits_sema
      <3>3. Queued(v, j) => c[j] = "eat"
        BY <1>1, OwnQueue_sema DEF Queued
      <3> QED
        BY <3>2, <3>3
    <2>7. ~Queued(u, j) /\ u.value[j] = IF Queued(v, j) THEN 0 ELSE 1
      <3>1. CASE Raised_sema(s, u, j)
        <4>1. In(v.queue[j]) = {} /\ u.queue = v.queue /\ u.value[j] = 1
          BY <2>2, <2>6, <3>1 DEF Raised_sema, In
        <4> QED
          BY <4>1 DEF Queued
      <3>2. CASE Handed_sema(s, u, j)
        <4>1. PICK h : Shorter(v.queue, u.queue, j, h, Sems_sema)
          BY <2>2, <3>2 DEF Handed_sema
        <4>a. h \in In(v.queue[j]) /\ In(u.queue[j]) = In(v.queue[j]) \ {h}
          BY <4>1 DEF Shorter
        <4>2. h = j /\ In(u.queue[j]) = In(v.queue[j]) \ {h} /\ j \in In(v.queue[j])
          BY <1>1, <4>a, OwnQueue_sema
        <4>3. u.value[j] = 0
          BY <2>2, <2>6, <3>2 DEF Handed_sema
        <4> QED
          BY <4>2, <4>3 DEF Queued
      <3> QED
        BY <2>4, <3>1, <3>2
    <2>8. ASSUME NEW i \in Phil, i # j
          PROVE  /\ Queued(u, i) <=> Queued(v, i)
                 /\ Holds(u, c, i) <=> Holds(v, c, i)
                 /\ u.value[i] = v.value[i]
      <3>1. i \in Sems_sema
        BY DEF Sems_sema
      <3>2. u.value[i] = v.value[i] /\ u.queue[i] = v.queue[i]
        BY <2>2, <2>4, <2>8, <3>1 DEF Raised_sema, Handed_sema, Shorter
      <3> QED
        BY <3>2 DEF Queued, Holds
    <2>9. ASSUME NEW i \in Phil PROVE Fits_sema(u, c, i)
      <3>1. Fits_sema(v, c, i) /\ Fits_sema(v, c, j)
        BY <1>1
      <3>2. RIGHT(i) \in Phil /\ RIGHT(i) # i /\ (RIGHT(i) = j => i = LEFT(j))
        BY <1>1, Circle
      <3>3. CASE i = j
        <4>1. Holds(u, c, j) <=> c[j] = "eat"
          BY <1>3, <2>6, <2>7 DEF Holds
        <4>2. c[j] = "eat" <=> Queued(v, j)
          BY <2>6 DEF Holds
        <4>3. c[j] \notin {"start", "take", "hungry", "quit"}
          BY <1>3, <3>1 DEF Fits_sema
        <4> QED
          BY <1>3, <2>5, <2>7, <3>2, <3>3, <4>1, <4>2, <4>3 DEF Fits_sema
      <3>4. CASE i # j
        BY <1>3, <2>5, <2>8, <3>1, <3>2, <3>4 DEF Fits_sema
      <3> QED
        BY <3>3, <3>4
    <2>10. ASSUME NEW i \in Phil, i \notin E \ {j} PROVE Reason(u, i)
      <3>1. CASE i = j
        BY <2>5, <3>1 DEF Reason
      <3>2. CASE i # j
        <4>1. Reason(v, i)
          BY <2>10, <3>2 DEF Sound_sema
        <4>2. LEFT(i) \in Phil /\ RIGHT(i) \in Phil
          BY <1>1, Circle
        <4> QED
          BY <2>5, <3>2, <4>1, <4>2 DEF Reason
      <3> QED
        BY <3>1, <3>2
    <2> QED
      BY <2>1, <2>2, <2>4, <2>9, <2>10 DEF Sound_sema, t, u
  <1> QED
    BY <1>2, <1>3

-----------------------------------------------------------------------------
(* The steps of a thread.  Those that are about no fork yet, or no more.   *)
Harmless ==
    {<<"start", "take">>, <<"start", "quit">>, <<"take", "hungry">>, <<"eat", "full">>,
     <<"full", "put">>}

(* The current thread may go to a point whose promises hold of it. *)
LEMMA MovedSound_sema ==
    ASSUME NEW v, NEW c, NEW i, NEW point, NEW E,
           Sound_sema(v, c, E), i \in Phil, v.k.cur = i, <<c[i], point>> \in Harmless
    PROVE  Sound_sema(v, Moved(c, i, point), E) /\ Core_sema(v, Moved(c, i, point))
  <1> DEFINE d == Moved(c, i, point)
  <1>1. Core_sema(v, c) /\ c \in [Phil -> Points] /\ v \in Systems_sema
    BY DEF Sound_sema, Core_sema
  <1>2. point \in Points
    BY DEF Harmless, Points
  <1>3. Core_sema(v, d) /\ InNone(i, v.queue, Sems_sema) /\ i \in Sems_sema
    BY <1>1, <1>2, MoveCore_sema DEF Sems_sema
  <1>4. d[i] = point /\ \A o \in Phil : o # i => d[o] = c[o]
    BY <1>1 DEF Moved
  <1> HIDE DEF d
  <1>5. ~Queued(v, i)
    BY <1>3 DEF InNone, Queued
  <1>6. ASSUME NEW o \in Phil PROVE Fits_sema(v, d, o)
    <2>1. Fits_sema(v, c, o)
      BY DEF Sound_sema
    <2>2. CASE o # i
      BY <1>4, <2>1, <2>2 DEF Fits_sema, Holds
    <2>3. CASE o = i
      <3>1. Holds(v, d, i) <=> Holds(v, c, i)
        BY <1>4, <1>5 DEF Holds, Harmless
      <3>2. point \in {"take", "quit", "hungry"} => c[i] \in {"start", "take"}
        BY DEF Harmless
      <3>3. point \in {"take", "quit", "hungry", "full", "put"}
        BY DEF Harmless
      <3> QED
        BY <1>4, <2>1, <2>3, <3>1, <3>2, <3>3 DEF Fits_sema
    <2> QED
      BY <2>2, <2>3
  <1> QED
    BY <1>3, <1>6 DEF Sound_sema, d

(* do_sleep before a meal and at it, and the end of the thread. *)
LEMMA ThinkSound_sema ==
    ASSUME NEW i, Ring, Sound_sema(y, pc, {}), i \in Phil, think_sema(i) \/ eat_sema(i)
    PROVE  Sound_sema(y', pc', {})
  <1>1. y.k.cur = i /\ Core_sema(y, pc)
    BY DEF think_sema, eat_sema, At_sema, Sound_sema
  <1>2. ASSUME NEW point, <<pc[i], point>> \in Harmless, pc' = Moved(pc, i, point),
               Core_sema(y', pc'), Rescheduled_sema(y, y')
        PROVE  Sound_sema(y', pc', {})
    <2>1. Sound_sema(y, pc', {})
      BY <1>1, <1>2, MovedSound_sema
    <2>2. Alike_sema(y, y')
      BY <1>2 DEF Rescheduled_sema, Alike_sema
    <2> QED
      BY <1>2, <2>1, <2>2, AlikeSound_sema
  <1>3. ASSUME NEW point, <<pc[i], point>> \in Harmless, pc' = Moved(pc, i, point)
        PROVE  Core_sema(y, pc')
    BY <1>1, <1>3, MovedSound_sema
  <1>4. CASE think_sema(i) /\ iter[i] < TIMES
    <2>1. /\ <<pc[i], "take">> \in Harmless /\ pc' = Moved(pc, i, "take")
          /\ y' = Asleep(y, i, "WT_TIMER")
      BY <1>4 DEF think_sema, At_sema, Goto_sema, Moved, Harmless
    <2>2. Core_sema(y', pc') /\ Rescheduled_sema(y, y')
      BY <1>1, <1>3, <2>1, SleepCore_sema
    <2> QED
      BY <1>2, <2>1, <2>2
  <1>5. CASE think_sema(i) /\ ~(iter[i] < TIMES)
    <2> DEFINE n == [y.k EXCEPT !.st[i] = "ZOMBIE"]
    <2>1. /\ <<pc[i], "quit">> \in Harmless /\ pc' = Moved(pc, i, "quit")
          /\ y' = [y EXCEPT !.k = schedule(n)]
      BY <1>5 DEF think_sema, At_sema, Goto_sema, Moved, Harmless
    <2>2. SchedOK(y.k, Phil)
      BY <1>1 DEF Core_sema, Queueing
    <2>3. Stops(y.k, n, i, Phil)
      BY <1>1, <2>2, ZombieStops
    <2> HIDE DEF n
    <2>4. Core_sema(y', pc') /\ Rescheduled_sema(y, y')
      BY <1>3, <2>1, <2>3, StopCore_sema
    <2> QED
      BY <1>2, <2>1, <2>4
  <1>6. CASE eat_sema(i)
    <2>1. /\ <<pc[i], "full">> \in Harmless /\ pc' = Moved(pc, i, "full")
          /\ y' = Asleep(y, i, "WT_TIMER")
      BY <1>6 DEF eat_sema, At_sema, Goto_sema, Moved, Harmless
    <2>2. Core_sema(y', pc') /\ Rescheduled_sema(y, y')
      BY <1>1, <1>3, <2>1, SleepCore_sema
    <2> QED
      BY <1>2, <2>1, <2>2
  <1> QED
    BY <1>4, <1>5, <1>6

(* The two entries, behind which down(mutex) may block. *)
LEMMA MutexSound_sema ==
    ASSUME NEW i, Ring, Sound_sema(y, pc, {}), i \in Phil, take_mutex_sema(i) \/ put_mutex_sema(i)
    PROVE  Sound_sema(y', pc', {})
  <1> DEFINE point == IF pc[i] = "take" THEN "hungry" ELSE "put"
  <1>1. /\ y.k.cur = i /\ <<pc[i], point>> \in Harmless /\ pc' = Moved(pc, i, point)
        /\ y' = down(y, mutex)
    BY DEF take_mutex_sema, put_mutex_sema, At_sema, Goto_sema, Moved, Harmless
  <1>2. pc \in [Phil -> Points] /\ point \in {"hungry", "put"} /\ mutex \in Sems_sema
    BY DEF Sound_sema, Core_sema, Sems_sema
  <1>3. pc'[i] = point
    BY <1>1, <1>2 DEF Moved
  <1> HIDE DEF point
  <1>4. Sound_sema(y, pc', {}) /\ Core_sema(y, pc')
    BY <1>1, MovedSound_sema
  <1>5. WaitsFor_sema(pc')[i] = mutex
    BY <1>2, <1>3 DEF WaitsFor_sema
  <1>6. /\ Core_sema(y', pc') /\ y'.state = y.state
        /\ Lowered_sema(y, y', mutex) \/ Joined_sema(y, y', mutex, i)
    BY <1>1, <1>2, <1>4, <1>5, DownCore_sema
  <1>7. \A o \in Phil : o \in Sems_sema /\ o # mutex
    BY DEF Sems_sema, Ring
  <1>8. Alike_sema(y, y')
    BY <1>6, <1>7 DEF Alike_sema, Lowered_sema, Joined_sema, Longer
  <1> QED
    BY <1>4, <1>6, <1>8, AlikeSound_sema

(* The last part of take_forks, with its down. *)
LEMMA TakeForksSound_sema ==
    ASSUME NEW i, Ring, Sound_sema(y, pc, {}), i \in Phil, take_forks_sema(i)
    PROVE  Sound_sema(y', pc', {})
  <1>1. /\ y.k.cur = i /\ pc[i] = "grab" /\ pc' = Moved(pc, i, "eat") /\ y' = down(y, i)
        /\ Core_sema(y, pc) /\ i \in Sems_sema /\ "eat" \in Points
    BY DEF take_forks_sema, At_sema, Goto_sema, Moved, Sound_sema, Points, Sems_sema
  <1>2. pc \in [Phil -> Points] /\ y \in Systems_sema
    BY <1>1 DEF Core_sema
  <1>3. pc'[i] = "eat" /\ \A o \in Phil : o # i => pc'[o] = pc[o]
    BY <1>1, <1>2 DEF Moved
  <1>4. Core_sema(y, pc') /\ InNone(i, y.queue, Sems_sema)
    BY <1>1, MoveCore_sema
  <1>5. WaitsFor_sema(pc')[i] = i
    BY <1>3 DEF WaitsFor_sema
  <1>6. /\ Core_sema(y', pc') /\ y'.state = y.state
        /\ Lowered_sema(y, y', i) \/ Joined_sema(y, y', i, i)
    BY <1>1, <1>4, <1>5, DownCore_sema
  <1>7. ASSUME NEW o \in Phil PROVE Fits_sema(y', pc', o)
    <2>1. Fits_sema(y, pc, o) /\ Fits_sema(y, pc, i) /\ o \in Sems_sema
      BY DEF Sound_sema, Sems_sema
    <2>2. CASE o # i
      <3>1. y'.value[o] = y.value[o] /\ y'.queue[o] = y.queue[o] /\ pc'[o] = pc[o]
        BY <1>3, <1>6, <2>1, <2>2 DEF Lowered_sema, Joined_sema, Longer
      <3>2. (Queued(y', o) <=> Queued(y, o)) /\ (Holds(y', pc', o) <=> Holds(y, pc, o))
        BY <3>1 DEF Queued, Holds
      <3> QED
        BY <1>6, <2>1, <3>1, <3>2 DEF Fits_sema
    <2>3. CASE o = i
      <3>1. ~Holds(y, pc, i) /\ y.state[i] \in Moods /\ y.state[i] # "THINKING"
        BY <1>1, <1>2, <2>1 DEF Holds, Fits_sema, Systems_sema
      <3>2. CASE Lowered_sema(y, y', i)
        <4>1. y'.value[i] = 0 /\ y.state[i] = "EATING"
          BY <2>1, <3>1, <3>2 DEF Lowered_sema, Fits_sema
        <4>2. ~Queued(y', i)
          BY <1>1, <1>4, <3>2 DEF Lowered_sema, Queued, InNone
        <4>3. Holds(y', pc', i)
          BY <1>3, <4>2 DEF Holds
        <4> QED
          BY <1>3, <1>6, <2>1, <2>3, <4>1, <4>2, <4>3 DEF Fits_sema
      <3>3. CASE Joined_sema(y, y', i, i)
        <4>1. y'.value[i] = 0 /\ y.state[i] # "EATING" /\ y.state[i] = "HUNGRY"
          BY <2>1, <3>1, <3>3 DEF Joined_sema, Fits_sema, Moods
        <4>2. Queued(y', i)
          BY <3>3 DEF Joined_sema, Longer, Queued
        <4>3. ~Holds(y', pc', i)
          BY <1>3, <4>2 DEF Holds
        <4> QED
          BY <1>3, <1>6, <2>1, <2>3, <4>1, <4>2, <4>3 DEF Fits_sema
      <3> QED
        BY <1>6, <3>2, <3>3
    <2> QED
      BY <2>2, <2>3
  <1>8. ASSUME NEW o \in Phil PROVE Reason(y', o)
    BY <1>6 DEF Sound_sema, Reason
  <1> QED
    BY <1>6, <1>7, <1>8 DEF Sound_sema

(* i changes his own entry of state_sema, where he has nothing in hand any *)
(* more or not yet.                                                        *)
LEMMA NewMoodSound_sema ==
    ASSUME NEW i, NEW mood, NEW point, NEW v, NEW d,
           Ring, Sound_sema(y, pc, {}), i \in Phil, y.k.cur = i,
           v = [y EXCEPT !.state[i] = mood], d = Moved(pc, i, point),
           \/ pc[i] = "hungry" /\ mood = "HUNGRY" /\ point = "grab"
           \/ pc[i] = "put" /\ mood = "THINKING" /\ point = "start"
    PROVE  Sound_sema(v, d, {i, LEFT(i), RIGHT(i)}) /\ (mood = "HUNGRY" => Sound_sema(v, d, {i}))
  <1>1. /\ Core_sema(y, pc) /\ y \in Systems_sema /\ pc \in [Phil -> Points] /\ point \in Points
        /\ mood \in Moods /\ mood # "EATING" /\ N \in Nat \ {0, 1}
    BY DEF Sound_sema, Core_sema, Points, Moods, Ring
  <1>2. Core_sema(y, d) /\ InNone(i, y.queue, Sems_sema) /\ i \in Sems_sema
    BY <1>1, MoveCore_sema DEF Sems_sema
  <1>3. /\ v \in Systems_sema /\ v.k = y.k /\ v.queue = y.queue /\ v.value = y.value
        /\ v.state = [y.state EXCEPT ![i] = mood]
    BY <1>1 DEF Systems_sema
  <1>4. Core_sema(v, d)
    BY <1>2, <1>3 DEF Core_sema
  <1>5. d[i] = point /\ \A o \in Phil : o # i => d[o] = pc[o]
    BY <1>1 DEF Moved
  <1>6. v.state[i] = mood /\ \A o \in Phil : o # i => v.state[o] = y.state[o]
    BY <1>1, <1>3 DEF Systems_sema
  <1>7. \A o \in Phil : Queued(v, o) <=> Queued(y, o)
    BY <1>3 DEF Queued
  <1>8. ~Queued(y, i)
    BY <1>2 DEF InNone, Queued
  <1>9. ASSUME NEW o \in Phil PROVE Fits_sema(v, d, o)
    <2>1. Fits_sema(y, pc, o) /\ RIGHT(o) \in Phil
      BY <1>1, Circle DEF Sound_sema
    <2>2. CASE o # i
      <3>1. Holds(v, d, o) <=> Holds(y, pc, o)
        BY <1>5, <1>7, <2>2 DEF Holds
      <3>2. v.state[RIGHT(o)] = "EATING" => y.state[RIGHT(o)] = "EATING"
        BY <1>1, <1>6, <2>1
      <3> QED
        BY <1>3, <1>5, <1>6, <1>7, <2>1, <2>2, <3>1, <3>2 DEF Fits_sema
    <2>3. CASE o = i
      <3>1. ~Holds(v, d, i) /\ point \in {"grab", "start"}
        BY <1>5 DEF Holds
      <3>2. y.value[i] = 0
        BY <1>1, <2>1, <2>3 DEF Fits_sema, Holds
      <3> QED
        BY <1>1, <1>3, <1>5, <1>6, <1>7, <1>8, <2>3, <3>1, <3>2 DEF Fits_sema
    <2> QED
      BY <2>2, <2>3
  <1>10. ASSUME NEW o \in Phil, o # i, mood = "HUNGRY" \/ (o # LEFT(i) /\ o # RIGHT(i))
         PROVE  Reason(v, o)
    <2>1. /\ LEFT(o) \in Phil /\ RIGHT(o) \in Phil
          /\ (LEFT(o) = i => o = RIGHT(i)) /\ (RIGHT(o) = i => o = LEFT(i))
      BY <1>1, Circle
    <2>2. Reason(y, o)
      BY DEF Sound_sema
    <2>3. mood = "HUNGRY" => y.state[i] # "EATING"
      BY <1>1 DEF Sound_sema, Fits_sema
    <2>4. v.state[LEFT(o)] = y.state[LEFT(o)] \/ (LEFT(o) = i /\ y.state[i] # "EATING")
      BY <1>6, <1>10, <2>1, <2>3
    <2>5. v.state[RIGHT(o)] = y.state[RIGHT(o)] \/ (RIGHT(o) = i /\ y.state[i] # "EATING")
      BY <1>6, <1>10, <2>1, <2>3
    <2> QED
      BY <1>6, <1>10, <2>2, <2>4, <2>5 DEF Reason
  <1> QED
    BY <1>4, <1>9, <1>10 DEF Sound_sema

(* The test of oneself. *)
LEMMA TakeTestSound_sema ==
    ASSUME NEW i, Ring, Sound_sema(y, pc, {}), i \in Phil, take_test_sema(i)
    PROVE  Sound_sema(y', pc', {})
  <1> DEFINE v == [y EXCEPT !.state[i] = "HUNGRY"]
             t == phi_test_sema(v, i)
  <1>1. /\ y.k.cur = i /\ pc[i] = "hungry" /\ pc' = Moved(pc, i, "grab") /\ y' = up(t, mutex)
    BY DEF take_test_sema, At_sema, Goto_sema, Moved
  <1>2. Sound_sema(v, pc', {i})
    BY <1>1, NewMoodSound_sema
  <1> HIDE DEF v
  <1>3. Sound_sema(t, pc', {i} \ {i})
    BY <1>2, TestSound_sema
  <1> HIDE DEF t
  <1>4. Sound_sema(y', pc', {i} \ {i})
    BY <1>1, <1>3, UpMutexSound
  <1>5. {i} \ {i} = {}
    OBVIOUS
  <1> QED
    BY <1>4, <1>5

(* The whole of put_forks: both neighbours are tested. *)
LEMMA PutForksSound ==
    ASSUME NEW i, Ring, Sound_sema(y, pc, {}), i \in Phil, put_forks(i)
    PROVE  Sound_sema(y', pc', {})
  <1> DEFINE v == [y EXCEPT !.state[i] = "THINKING"]
             l == phi_test_sema(v, LEFT(i))
             r == phi_test_sema(l, RIGHT(i))
  <1>1. /\ y.k.cur = i /\ pc[i] = "put" /\ pc' = Moved(pc, i, "start") /\ y' = up(r, mutex)
    BY DEF put_forks, put_test, At_sema, Goto_sema, Moved
  <1>2. LEFT(i) \in Phil /\ RIGHT(i) \in Phil
    BY Circle DEF Ring
  <1>3. Sound_sema(v, pc', {i, LEFT(i), RIGHT(i)}) /\ v.state[i] = "THINKING"
    <2>1. y \in Systems_sema
      BY DEF Sound_sema, Core_sema
    <2>2. v.state[i] = "THINKING"
      BY <2>1 DEF Systems_sema
    <2>3. Sound_sema(v, pc', {i, LEFT(i), RIGHT(i)})
      BY <1>1, NewMoodSound_sema
    <2> QED
      BY <2>2, <2>3
  <1>4. Sound_sema(v, pc', {LEFT(i), RIGHT(i)})
    <2>1. Reason(v, i)
      BY <1>3 DEF Reason
    <2> QED
      BY <1>3, <2>1 DEF Sound_sema
  <1> HIDE DEF v
  <1>5. Sound_sema(l, pc', {LEFT(i), RIGHT(i)} \ {LEFT(i)})
    BY <1>2, <1>4, TestSound_sema
  <1> HIDE DEF l
  <1>6. Sound_sema(r, pc', ({LEFT(i), RIGHT(i)} \ {LEFT(i)}) \ {RIGHT(i)})
    BY <1>2, <1>5, TestSound_sema
  <1> HIDE DEF r
  <1>7. Sound_sema(y', pc', ({LEFT(i), RIGHT(i)} \ {LEFT(i)}) \ {RIGHT(i)})
    BY <1>1, <1>6, UpMutexSound
  <1>8. ({LEFT(i), RIGHT(i)} \ {LEFT(i)}) \ {RIGHT(i)} = {}
    OBVIOUS
  <1> QED
    BY <1>7, <1>8

-----------------------------------------------------------------------------
(* The whole of it. *)
LEMMA TimerSound_sema ==
    ASSUME NEW i, Ring, Sound_sema(y, pc, {}), i \in Phil, timer(i) \/ cpu_idle
    PROVE  Sound_sema(y', pc', {})
  <1> DEFINE k == y.k
             q == y.queue
             W == WaitsFor_sema(pc)
  <1>1. /\ Core_sema(y, pc) /\ Queueing(k, q, W, Sems_sema, Phil) /\ Idle \notin Phil
        /\ q = y.queue /\ W = WaitsFor_sema(pc)
    BY DEF Sound_sema, Core_sema, Ring
  <1>2. PICK m : Queueing(m, q, W, Sems_sema, Phil) /\ y' = [y EXCEPT !.k = m] /\ pc' = pc
    <2>1. CASE timer(i)
      <3>1. k.ws[i] = "WT_TIMER" /\ y' = [y EXCEPT !.k = wakeup_proc(k, i)] /\ pc' = pc
        BY <2>1 DEF timer
      <3> HIDE DEF k, q, W
      <3>2. Queueing(wakeup_proc(k, i), q, W, Sems_sema, Phil)
        BY <1>1, <3>1, WaitingTimer
      <3> QED
        BY <3>1, <3>2
    <2>2. CASE cpu_idle
      <3>1. k.cur = Idle /\ y' = [y EXCEPT !.k = schedule(k)] /\ pc' = pc
        BY <2>2 DEF cpu_idle
      <3> HIDE DEF k, q, W
      <3>2. Queueing(schedule(k), q, W, Sems_sema, Phil)
        BY <1>1, <3>1, WaitingIdle
      <3> QED
        BY <3>1, <3>2
    <2> QED
      BY <2>1, <2>2
  <1> HIDE DEF k, q, W
  <1>3. Core_sema(y', pc) /\ Rescheduled_sema(y, y')
    BY <1>1, <1>2, NewKernel_sema
  <1>4. Alike_sema(y, y')
    BY <1>3 DEF Alike_sema, Rescheduled_sema
  <1> QED
    BY <1>2, <1>3, <1>4, AlikeSound_sema

(* Every step keeps the invariant. *)
LEMMA StepSound_sema ==
    ASSUME Ring, Sound_sema(y, pc, {}), Step_sema \/ \E i \in Phil : timer(i)
    PROVE  Sound_sema(y', pc', {})
  <1>1. ASSUME NEW i \in Phil, Thread_sema(i) PROVE Sound_sema(y', pc', {})
    BY <1>1, ThinkSound_sema, MutexSound_sema, TakeTestSound_sema, TakeForksSound_sema,
       PutForksSound DEF Thread_sema
  <1>2. ASSUME NEW i \in Phil, timer(i) PROVE Sound_sema(y', pc', {})
    BY <1>2, TimerSound_sema
  <1>3. ASSUME cpu_idle PROVE Sound_sema(y', pc', {})
    <2>1. 0 \in Phil
      BY DEF Ring, Phil
    <2> QED
      BY <1>3, <2>1, TimerSound_sema
  <1> QED
    BY <1>1, <1>2, <1>3 DEF Step_sema

(* check_sync starts with it. *)
LEMMA InitSound == ASSUME Ring, Init_sema PROVE Sound_sema(y, pc, {})
  <1>1. N \in Nat \ {0, 1} /\ Idle \notin Phil /\ mutex \notin Phil
    BY DEF Ring
  <1>2. y.k.rq \in Seq(Phil) /\ Once(y.k.rq)
    <2> DEFINE s == [j \in 1 .. N |-> j - 1]
    <2>1. y.k.rq = s
      BY DEF Init_sema
    <2>2. s \in Seq(Phil) /\ Len(s) = N
      BY <1>1 DEF Phil
    <2>3. \A a, b \in 1 .. N : s[a] = s[b] => a = b
      BY <1>1
    <2> QED
      BY <2>1, <2>2, <2>3 DEF Once
  <1>3. y.k \in Kernel(Phil)
    BY <1>1, <1>2, SliceAssumption DEF Init_sema, Kernel, Threads, RunStates, WaitStates, Panics
  <1>4. y.k.cur = Idle
    BY DEF Init_sema
  <1>5. y.k.cur \notin In(y.k.rq)
    BY <1>1, <1>2, <1>4 DEF In
  <1>6. SchedOK(y.k, Phil)
    BY <1>2, <1>3, <1>5 DEF SchedOK
  <1>7. y.queue = [x \in Sems_sema |-> <<>>] /\ \A x \in Sems_sema : In(y.queue[x]) = {}
    BY DEF Init_sema, In
  <1>8. Queueing(y.k, y.queue, WaitsFor_sema(pc), Sems_sema, Phil)
    BY <1>6, <1>7 DEF Queueing, Waiting, Once
  <1>9. Core_sema(y, pc)
    BY <1>3, <1>7, <1>8 DEF Init_sema, Core_sema, Systems_sema, Moods, Points
  <1>10. ASSUME NEW i \in Phil PROVE Fits_sema(y, pc, i) /\ Reason(y, i)
    <2>1. RIGHT(i) \in Phil /\ i \in Sems_sema /\ i # mutex
      BY <1>1, Circle DEF Sems_sema
    <2>2. y.state[i] = "THINKING" /\ y.state[RIGHT(i)] = "THINKING" /\ y.value[i] = 0 /\ pc[i] = "start"
      BY <2>1 DEF Init_sema
    <2>3. ~Queued(y, i)
      BY <1>7, <2>1 DEF Queued
    <2> QED
      BY <2>2, <2>3 DEF Fits_sema, Holds, Reason
  <1> QED
    BY <1>9, <1>10 DEF Sound_sema

(* What the invariant says of the forks, the permits and the hungry. *)
LEMMA SoundMeans_sema ==
    ASSUME Ring, Sound_sema(y, pc, {})
    PROVE  NeighboursDoNotEat_sema /\ OnePermit /\ NobodyForgotten_sema
  <1>1. ASSUME NEW i \in Phil
        PROVE  (i \in ToSet(y.queue[i]) <=> Queued(y, i)) /\ (HasForks_sema(i) <=> Holds(y, pc, i))
    <2>1. y.queue[i] \in Seq(Phil)
      BY DEF Sound_sema, Core_sema, Systems_sema, Sems_sema
    <2>2. ToSet(y.queue[i]) = In(y.queue[i])
      BY <2>1, InIsToSet
    <2> QED
      BY <2>2 DEF Queued, Holds, HasForks_sema
  <1>2. ASSUME NEW i \in Phil PROVE Fits_sema(y, pc, i) /\ Reason(y, i) /\ RIGHT(i) \in Phil
    BY Circle DEF Sound_sema, Ring
  <1>3. NeighboursDoNotEat_sema
    BY <1>1, <1>2 DEF NeighboursDoNotEat_sema, Fits_sema
  <1>4. OnePermit
    <2>1. ASSUME NEW i \in Phil
          PROVE  y.value[i] + Moving(i) = IF y.state[i] = "EATING" THEN 1 ELSE 0
      BY <1>1, <1>2 DEF Fits_sema, Moving
    <2> QED
      BY <2>1 DEF OnePermit
  <1>5. NobodyForgotten_sema
    BY <1>1, <1>2 DEF NobodyForgotten_sema, Fits_sema, Reason
  <1> QED
    BY <1>3, <1>4, <1>5

-----------------------------------------------------------------------------
DS == INSTANCE Dining WITH Meals <- TIMES, mood <- y.state, round <- iter, course <- 1

Rounds_sema(c, r) ==
    /\ TIMES \in Nat \ {0} /\ r \in [Phil -> Nat]
    /\ \A i \in Phil : /\ r[i] <= TIMES
                       /\ c[i] # "start" => r[i] > 0
                       /\ c[i] = "quit" => r[i] = TIMES

Dines_sema == (\E i \in Phil : DS!Think(i) \/ DS!Hunger(i) \/ DS!GetUp(i)) \/ UNCHANGED <<y.state, iter>>

(* The invariant allows only moods that Dining does. *)
LEMMA SoundIsExclusive_sema ==
    ASSUME NEW v, NEW c, Ring, Sound_sema(v, c, {}) PROVE DS!Exclusive(v.state)
  <1>1. ASSUME NEW i \in Phil, v.state[i] = "EATING"
        PROVE  v.state[RIGHT(i)] # "EATING" /\ v.state[LEFT(i)] # "EATING"
    <2>1. LEFT(i) \in Phil /\ RIGHT(LEFT(i)) = i
      BY Circle DEF Ring
    <2>2. Fits_sema(v, c, i) /\ Fits_sema(v, c, LEFT(i))
      BY <2>1 DEF Sound_sema
    <2> QED
      BY <1>1, <2>1, <2>2 DEF Fits_sema
  <1>2. ASSUME NEW i \in Phil PROVE DS!Neighbours(i) = {LEFT(i), RIGHT(i)}
    <2>1. i + N - 1 = i - 1 + N
      BY DEF Ring, Phil
    <2> QED
      BY <2>1 DEF DS!Neighbours, LEFT, RIGHT
  <1> QED
    BY <1>1, <1>2 DEF DS!Exclusive, DS!Phil, Phil

(* A system has a field state. *)
LEMMA SystemsHaveState_sema ==
    ASSUME NEW v \in Systems_sema PROVE HasState(v) /\ v.state \in [Phil -> Moods]
  BY DEF Systems_sema, HasState

(* What phi_test_sema(j) does to the moods. *)
Tested(v, u, j) ==
    HasState(u) /\ \/ u.state = v.state
                   \/ v.state[j] = "HUNGRY" /\ u.state = [v.state EXCEPT ![j] = "EATING"]

(* Nobody but j, and he only from HUNGRY to EATING. *)
LEMMA TestMoods_sema ==
    ASSUME NEW v, NEW j, HasState(v) PROVE Tested(v, phi_test_sema(v, j), j)
  <1> DEFINE s == [v EXCEPT !.state[j] = "EATING"]
  <1>1. HasState(s) /\ s.state = [v.state EXCEPT ![j] = "EATING"]
    BY DEF HasState
  <1>2. phi_test_sema(v, j) = v \/ (v.state[j] = "HUNGRY" /\ phi_test_sema(v, j) = up(s, j))
    BY DEF phi_test_sema
  <1> HIDE DEF s
  <1>3. Untouched(s, up(s, j))
    BY <1>1, UpUntouched
  <1> QED
    BY <1>1, <1>2, <1>3 DEF Tested, Untouched

(* i sets his own mood. *)
LEMMA OwnMood_sema ==
    ASSUME NEW i \in Phil, NEW mood, y \in Systems_sema
    PROVE  HasState([y EXCEPT !.state[i] = mood])
           /\ [y EXCEPT !.state[i] = mood].state = [y.state EXCEPT ![i] = mood]
  BY DEF Systems_sema, HasState

(* The steps without a test. *)
LEMMA QuietMoods_sema ==
    ASSUME y \in Systems_sema, NEW i \in Phil,
           \/ think_sema(i) \/ take_mutex_sema(i) \/ take_forks_sema(i) \/ eat_sema(i) \/ put_mutex_sema(i)
           \/ timer(i) \/ cpu_idle
    PROVE  y'.state = y.state
  <1>1. HasState(y)
    BY SystemsHaveState_sema
  <1>2. CASE take_mutex_sema(i) \/ take_forks_sema(i) \/ put_mutex_sema(i)
    <2>1. y' = down(y, mutex) \/ y' = down(y, i)
      BY <1>2 DEF take_mutex_sema, take_forks_sema, put_mutex_sema
    <2> QED
      BY <1>1, <2>1, DownUntouched DEF Untouched
  <1>3. CASE think_sema(i) \/ eat_sema(i) \/ timer(i) \/ cpu_idle
    <2>1. PICK k : y' = [y EXCEPT !.k = k]
      <3>1. CASE think_sema(i)
        BY <3>1 DEF think_sema, Asleep
      <3>2. CASE eat_sema(i)
        BY <3>2 DEF eat_sema, Asleep
      <3>3. CASE timer(i) \/ cpu_idle
        BY <3>3 DEF timer, cpu_idle
      <3> QED
        BY <1>3, <3>1, <3>2, <3>3
    <2> QED
      BY <2>1 DEF Systems_sema
  <1> QED
    BY <1>2, <1>3

(* The test of oneself: hungry, or eating at once. *)
LEMMA TakeTestDines_sema ==
    ASSUME NEW i, Ring, Sound_sema(y, pc, {}), Rounds_sema(pc, iter), i \in Phil, take_test_sema(i)
    PROVE  DS!Hunger(i)
  <1> DEFINE v == [y EXCEPT !.state[i] = "HUNGRY"]
             t == phi_test_sema(v, i)
  <1>1. /\ y \in Systems_sema /\ y.state \in [Phil -> Moods] /\ y.state[i] = "THINKING" /\ iter[i] > 0
        /\ y' = up(t, mutex) /\ iter' = iter
    BY DEF Sound_sema, Core_sema, Systems_sema, Fits_sema, Rounds_sema, take_test_sema, At_sema
  <1>2. HasState(v) /\ v.state = [y.state EXCEPT ![i] = "HUNGRY"]
    BY <1>1, OwnMood_sema
  <1> HIDE DEF v
  <1>3. Tested(v, t, i)
    BY <1>2, TestMoods_sema
  <1> HIDE DEF t
  <1>4. y'.state = t.state
    BY <1>1, <1>3, UpUntouched DEF Tested, Untouched
  <1>5. y'.state = [y.state EXCEPT ![i] = "HUNGRY"] \/ y'.state = [y.state EXCEPT ![i] = "EATING"]
    BY <1>1, <1>2, <1>3, <1>4 DEF Tested
  <1> QED
    BY <1>1, <1>5 DEF DS!Hunger

(* Both neighbours may be served as one gets up. *)
LEMMA PutForksDines ==
    ASSUME NEW i, Ring, Sound_sema(y, pc, {}), i \in Phil, put_forks(i)
    PROVE  DS!GetUp(i)
  <1> DEFINE v == [y EXCEPT !.state[i] = "THINKING"]
             l == phi_test_sema(v, LEFT(i))
             r == phi_test_sema(l, RIGHT(i))
             Near == {LEFT(i), RIGHT(i)}
  <1>1. /\ y \in Systems_sema /\ y.state \in [Phil -> Moods] /\ y.state[i] = "EATING"
        /\ y' = up(r, mutex) /\ iter' = iter
    BY DEF Sound_sema, Core_sema, Systems_sema, Fits_sema, Holds, put_forks, put_test, At_sema
  <1>2. HasState(v) /\ v.state = [y.state EXCEPT ![i] = "THINKING"]
    BY <1>1, OwnMood_sema
  <1> HIDE DEF v
  <1>3. Tested(v, l, LEFT(i))
    BY <1>2, TestMoods_sema
  <1> HIDE DEF l
  <1>4. Tested(l, r, RIGHT(i))
    BY <1>3, TestMoods_sema DEF Tested
  <1> HIDE DEF r
  <1>5. y'.state = r.state
    BY <1>1, <1>4, UpUntouched DEF Tested, Untouched
  <1>6. LEFT(i) \in Phil /\ RIGHT(i) \in Phil /\ LEFT(i) # i /\ RIGHT(i) # i
    BY Circle DEF Ring
  <1>7. /\ y'.state = [j \in Phil |-> y'.state[j]] /\ y'.state[i] = "THINKING"
        /\ \A j \in Phil : j # i =>
             y'.state[j] = y.state[j] \/ (j \in Near /\ y.state[j] = "HUNGRY" /\ y'.state[j] = "EATING")
    BY <1>1, <1>2, <1>3, <1>4, <1>5, <1>6 DEF Tested
  <1>8. DS!Neighbours(i) = Near
    <2>1. i + N - 1 = i - 1 + N
      BY DEF Ring, Phil
    <2> QED
      BY <2>1 DEF DS!Neighbours, LEFT, RIGHT
  <1> DEFINE served == {j \in Near : y.state[j] = "HUNGRY" /\ y'.state[j] = "EATING"}
  <1>9. served \in SUBSET {j \in DS!Neighbours(i) : y.state[j] = "HUNGRY"}
    BY <1>8
  <1>10. y'.state = [j \in Phil |-> IF j = i THEN "THINKING"
                                   ELSE IF j \in served THEN "EATING" ELSE y.state[j]]
    BY <1>7, <1>6
  <1> HIDE DEF served
  <1> QED
    BY <1>1, <1>9, <1>10 DEF DS!GetUp, DS!Phil, Phil

(* Every step of the system at the table. *)
LEMMA StepDines_sema ==
    ASSUME Ring, Sound_sema(y, pc, {}), Rounds_sema(pc, iter), Step_sema \/ \E i \in Phil : timer(i)
    PROVE  Dines_sema /\ Rounds_sema(pc', iter')
  <1>1. y \in Systems_sema /\ pc \in [Phil -> Points]
    BY DEF Sound_sema, Core_sema
  <1>2. ASSUME NEW i \in Phil, timer(i) \/ cpu_idle PROVE Dines_sema /\ Rounds_sema(pc', iter')
    <2>1. y'.state = y.state /\ iter' = iter /\ pc' = pc
      BY <1>1, <1>2, QuietMoods_sema DEF timer, cpu_idle
    <2> QED
      BY <2>1 DEF Dines_sema, Rounds_sema
  <1>3. ASSUME NEW i \in Phil, think_sema(i), iter[i] < TIMES PROVE Dines_sema /\ Rounds_sema(pc', iter')
    <2>1. /\ y'.state = y.state /\ iter' = [iter EXCEPT ![i] = @ + 1] /\ y.state[i] = "THINKING"
          /\ pc' = [pc EXCEPT ![i] = "take"]
      BY <1>1, <1>3, QuietMoods_sema DEF think_sema, Goto_sema, At_sema, Sound_sema, Fits_sema
    <2>2. Rounds_sema(pc', iter')
      BY <1>1, <1>3, <2>1 DEF Rounds_sema
    <2> QED
      BY <1>3, <2>1, <2>2 DEF Dines_sema, DS!Think
  <1>4. ASSUME NEW i \in Phil, Thread_sema(i), ~(think_sema(i) /\ iter[i] < TIMES)
        PROVE  Rounds_sema(pc', iter')
    <2>1. /\ iter' = iter
          /\ pc[i] = "start" => iter[i] = TIMES
          /\ \E point : pc' = [pc EXCEPT ![i] = point] /\ (point = "quit" => pc[i] = "start")
      BY <1>4 DEF Thread_sema, think_sema, take_mutex_sema, take_test_sema, take_forks_sema, eat_sema, put_mutex_sema, put_forks,
                  Goto_sema, At_sema, Rounds_sema
    <2> QED
      BY <1>1, <2>1 DEF Rounds_sema
  <1>5. ASSUME NEW i \in Phil, Thread_sema(i), ~(think_sema(i) /\ iter[i] < TIMES)
        PROVE  Dines_sema
    <2>1. CASE take_test_sema(i)
      BY <2>1, TakeTestDines_sema DEF Dines_sema
    <2>2. CASE put_forks(i)
      BY <2>2, PutForksDines DEF Dines_sema
    <2>3. CASE think_sema(i) \/ take_mutex_sema(i) \/ take_forks_sema(i) \/ eat_sema(i) \/ put_mutex_sema(i)
      <3>1. y'.state = y.state
        BY <1>1, <2>3, QuietMoods_sema
      <3>2. iter' = iter
        BY <1>5, <2>3 DEF think_sema, take_mutex_sema, take_forks_sema, eat_sema, put_mutex_sema
      <3> QED
        BY <3>1, <3>2 DEF Dines_sema
    <2> QED
      BY <1>5, <2>1, <2>2, <2>3 DEF Thread_sema
  <1>6. 0 \in Phil
    BY DEF Ring, Phil
  <1> QED
    BY <1>2, <1>3, <1>4, <1>5, <1>6 DEF Step_sema, Thread_sema

-----------------------------------------------------------------------------
(* The monitor.  None of what follows rests on its own exclusion: a step     *)
(* that tests the neighbours and marks one EATING does not block in between. *)

-----------------------------------------------------------------------------
(* The inductive invariant, of a record v and call stacks c. *)
Stacks ==
    {<<"start">>, <<"take">>, <<"hungry">>, <<"tested">>, <<"waited", "eat">>, <<"eat">>,
     <<"full">>, <<"put">>, <<"right">>, <<"leave">>, <<"quit">>,
     <<"signalled", "right">>, <<"signalled", "leave">>}

Systems_condvar ==
    [k: Kernel(Phil), value: [Sems_condvar -> Nat], queue: [Sems_condvar -> Seq(Phil)],
     count: [Phil -> Int], next_count: Int, state: [Phil -> Moods]]

Top(c, i) == Head(c[i])

(* The semaphore that a philosopher may be waiting for. *)
WaitsFor_condvar(c) ==
    [p \in Phil |-> IF Top(c, p) \in {"hungry", "put"} THEN mutex
                    ELSE IF Top(c, p) = "signalled" THEN next
                    ELSE IF Top(c, p) = "waited" THEN p ELSE Idle]

Core_condvar(v, c) ==
    /\ v \in Systems_condvar /\ c \in [Phil -> Stacks]
    /\ Queueing(v.k, v.queue, WaitsFor_condvar(c), Sems_condvar, Phil)

(* i against his stack, his condition variable and his neighbour. *)
Fits_condvar(v, c, i) ==
    /\ v.state[i] = "EATING" => v.state[RIGHT(i)] # "EATING"
    /\ v.value[i] = 0
    /\ v.count[i] = IF Top(c, i) = "waited" THEN 1 ELSE 0
    /\ Top(c, i) = "waited" => v.state[i] = IF Queued(v, i) THEN "HUNGRY" ELSE "EATING"
    /\ Top(c, i) \in {"eat", "full", "put"} => v.state[i] = "EATING"
    /\ Top(c, i) = "tested" => v.state[i] # "THINKING"

Sound_condvar(v, c) == Core_condvar(v, c) /\ \A i \in Phil : Fits_condvar(v, c, i)

-----------------------------------------------------------------------------
(* What semaphores leave alone. *)
Kept(v, u) == u.state = v.state /\ u.count = v.count /\ u.next_count = v.next_count

(* up(x): a thread leaves the queue, or value rises. *)
Raised_condvar(v, u, x) ==
    /\ v.queue[x] = <<>> /\ u.queue = v.queue
    /\ u.value[x] = v.value[x] + 1 /\ \A z \in Sems_condvar : z # x => u.value[z] = v.value[z]

Handed_condvar(v, u, x) ==
    u.value = v.value /\ \E h : Shorter(v.queue, u.queue, x, h, Sems_condvar)

(* up(x) keeps the queues in order: it raises value or takes one waiter. *)
LEMMA UpCore_condvar ==
    ASSUME NEW v, NEW c, NEW x,
           Ring, Core_condvar(v, c), x \in Sems_condvar
    PROVE  /\ Core_condvar(up(v, x), c) /\ up(v, x).k.cur = v.k.cur /\ Kept(v, up(v, x))
           /\ Raised_condvar(v, up(v, x), x) \/ Handed_condvar(v, up(v, x), x)
  <1> DEFINE u == up(v, x)
             k == v.k
             q == v.queue
             W == WaitsFor_condvar(c)
  <1>1. v \in Systems_condvar /\ Queueing(k, q, W, Sems_condvar, Phil) /\ Idle \notin Phil
    BY DEF Core_condvar, Ring
  <1>2. CASE q[x] = <<>>
    <2> DEFINE w == [v.value EXCEPT ![x] = @ + 1]
    <2>1. /\ w \in [Sems_condvar -> Nat] /\ w[x] = v.value[x] + 1
          /\ \A z \in Sems_condvar : z # x => w[z] = v.value[z]
      BY <1>1 DEF Systems_condvar, Kept
    <2>2. u = [v EXCEPT !.value = w]
      BY <1>1, <1>2 DEF Systems_condvar, up
    <2> HIDE DEF w, u
    <2>3. u \in Systems_condvar /\ u.k = v.k /\ u.queue = v.queue /\ Kept(v, u) /\ u.value = w
      BY <1>1, <2>1, <2>2 DEF Systems_condvar, Kept
    <2> QED
      BY <1>1, <1>2, <2>1, <2>3 DEF Core_condvar, Raised_condvar, u
  <1>3. CASE q[x] # <<>>
    <2> DEFINE h == First(q, x)
               r == Popped(q, x)
               m == wakeup_proc(k, h)
    <2> HIDE DEF k, q, W
    <2>1. /\ Queueing(m, r, W, Sems_condvar, Phil) /\ Shorter(q, r, x, h, Sems_condvar) /\ m.cur = k.cur
          /\ k.ws[h] = "WT_KSEM"
      BY <1>1, <1>3, WaitingUp
    <2>2. u = [v EXCEPT !.queue[x] = Tail(@), !.k = m]
      BY <1>3, <2>1 DEF up, First, k, q
    <2>3. r \in [Sems_condvar -> Seq(Phil)] /\ m \in Kernel(Phil)
      BY <2>1 DEF Queueing, SchedOK
    <2>4. u = [v EXCEPT !.queue = r, !.k = m]
      BY <1>1, <2>2 DEF Systems_condvar, Popped, q
    <2> HIDE DEF r, u, m, h
    <2>5. /\ u \in Systems_condvar /\ u.k = m /\ u.queue = r /\ Kept(v, u) /\ u.value = v.value
      BY <1>1, <2>3, <2>4 DEF Systems_condvar, Kept
    <2> QED
      BY <1>1, <2>1, <2>5 DEF Core_condvar, Handed_condvar, u, k, q, W
  <1> QED
    BY <1>2, <1>3

(* The current thread waits nowhere, so it may go to any other point. *)
LEMMA MoveCore_condvar ==
    ASSUME NEW v, NEW c, NEW i, NEW point,
           Core_condvar(v, c), v.k.cur = i, i \in Phil, point \in Stacks
    PROVE  Core_condvar(v, Moved(c, i, point)) /\ InNone(i, v.queue, Sems_condvar)
  <1> DEFINE k == v.k
             q == v.queue
             d == Moved(c, i, point)
             W == WaitsFor_condvar(c)
             V == WaitsFor_condvar(d)
  <1>1. Queueing(k, q, W, Sems_condvar, Phil) /\ c \in [Phil -> Stacks]
    BY DEF Core_condvar
  <1>2. d \in [Phil -> Stacks] /\ \A o \in Phil : o # i => d[o] = c[o]
    BY <1>1 DEF Moved
  <1>3. \A o \in Phil : o # i => V[o] = W[o]
    BY <1>2 DEF WaitsFor_condvar, Top
  <1>4. k.cur = i
    OBVIOUS
  <1> HIDE DEF k, q, d, W, V
  <1>5. SameBut(W, V, k.cur, Phil)
    BY <1>3, <1>4 DEF SameBut
  <1>6. Queueing(k, q, V, Sems_condvar, Phil) /\ InNone(k.cur, q, Sems_condvar)
    BY <1>1, <1>5, MayWaitAnew, RunningIsNotQueued
  <1> QED
    BY <1>2, <1>4, <1>6 DEF Core_condvar, k, q, d, V

(* down(x) by the current thread. *)
Lowered_condvar(v, u, x) ==
    /\ v.value[x] > 0 /\ u.queue = v.queue
    /\ u.value[x] = v.value[x] - 1 /\ \A z \in Sems_condvar : z # x => u.value[z] = v.value[z]

Joined_condvar(v, u, x, p) ==
    v.value[x] = 0 /\ u.value = v.value /\ Longer(v.queue, u.queue, x, p, Sems_condvar)

(* down(x) keeps them: it lowers value or queues the current thread. *)
LEMMA DownCore_condvar ==
    ASSUME NEW v, NEW c, NEW x, NEW p,
           Ring, Core_condvar(v, c), x \in Sems_condvar, p \in Phil, v.k.cur = p, WaitsFor_condvar(c)[p] = x
    PROVE  /\ Core_condvar(down(v, x), c) /\ Kept(v, down(v, x))
           /\ Lowered_condvar(v, down(v, x), x) \/ Joined_condvar(v, down(v, x), x, p)
  <1> DEFINE u == down(v, x)
             k == v.k
             q == v.queue
             W == WaitsFor_condvar(c)
  <1>1. v \in Systems_condvar /\ Queueing(k, q, W, Sems_condvar, Phil) /\ Idle \notin Phil /\ k.cur = p /\ W[p] = x
    BY DEF Core_condvar, Ring
  <1>2. CASE v.value[x] > 0
    <2> DEFINE w == [v.value EXCEPT ![x] = @ - 1]
    <2>1. /\ w \in [Sems_condvar -> Nat] /\ w[x] = v.value[x] - 1
          /\ \A z \in Sems_condvar : z # x => w[z] = v.value[z]
      BY <1>1, <1>2 DEF Systems_condvar, Kept
    <2>2. u = [v EXCEPT !.value = w]
      BY <1>1, <1>2 DEF Systems_condvar, down
    <2> HIDE DEF w, u
    <2>3. u \in Systems_condvar /\ u.k = v.k /\ u.queue = v.queue /\ Kept(v, u) /\ u.value = w
      BY <1>1, <2>1, <2>2 DEF Systems_condvar, Kept
    <2> QED
      BY <1>1, <1>2, <2>1, <2>3 DEF Core_condvar, Lowered_condvar, u
  <1>3. CASE ~(v.value[x] > 0)
    <2> DEFINE n == Dozing(k, p, "WT_KSEM")
               r == Pushed(q, x, p)
               m == schedule(n)
    <2> HIDE DEF k, q, W
    <2>1. Queueing(m, r, W, Sems_condvar, Phil) /\ Longer(q, r, x, p, Sems_condvar)
      BY <1>1, WaitingDown
    <2>2. u = [v EXCEPT !.queue[x] = Append(@, p), !.k = m]
      BY <1>1, <1>3 DEF down, Dozing, k, q
    <2>3. r \in [Sems_condvar -> Seq(Phil)] /\ m \in Kernel(Phil)
      BY <2>1 DEF Queueing, SchedOK
    <2>4. u = [v EXCEPT !.queue = r, !.k = m]
      BY <1>1, <2>2 DEF Systems_condvar, Pushed, q
    <2>5. v.value[x] = 0
      BY <1>1, <1>3 DEF Systems_condvar, Kept
    <2> HIDE DEF r, u, m, n
    <2>6. /\ u \in Systems_condvar /\ u.k = m /\ u.queue = r /\ Kept(v, u) /\ u.value = v.value
      BY <1>1, <2>3, <2>4 DEF Systems_condvar, Kept
    <2> QED
      BY <1>1, <2>1, <2>5, <2>6 DEF Core_condvar, Joined_condvar, u, k, q, W
  <1> QED
    BY <1>2, <1>3

(* Only the scheduler's record changes. *)
Rescheduled_condvar(v, u) == u.value = v.value /\ u.queue = v.queue /\ Kept(v, u)

(* A step that changes only the scheduler's record. *)
LEMMA NewKernel_condvar ==
    ASSUME NEW v, NEW c, NEW m,
           Core_condvar(v, c), Queueing(m, v.queue, WaitsFor_condvar(c), Sems_condvar, Phil)
    PROVE  Core_condvar([v EXCEPT !.k = m], c) /\ Rescheduled_condvar(v, [v EXCEPT !.k = m])
  <1>1. v \in Systems_condvar /\ m \in Kernel(Phil)
    BY DEF Core_condvar, Queueing, SchedOK
  <1> DEFINE u == [v EXCEPT !.k = m]
  <1>2. u \in Systems_condvar /\ u.k = m /\ u.queue = v.queue /\ u.value = v.value /\ Kept(v, u)
    BY <1>1 DEF Systems_condvar, Kept
  <1> HIDE DEF u
  <1> QED
    BY <1>2 DEF Core_condvar, Rescheduled_condvar, u

(* do_sleep, and the end of the thread. *)
LEMMA StopCore_condvar ==
    ASSUME NEW v, NEW c, NEW n, NEW p,
           Ring, Core_condvar(v, c), Stops(v.k, n, p, Phil)
    PROVE  /\ Core_condvar([v EXCEPT !.k = schedule(n)], c)
           /\ Rescheduled_condvar(v, [v EXCEPT !.k = schedule(n)])
  <1> DEFINE k == v.k
             q == v.queue
             W == WaitsFor_condvar(c)
  <1>1. Queueing(k, q, W, Sems_condvar, Phil) /\ Idle \notin Phil /\ Stops(k, n, p, Phil)
    BY DEF Core_condvar, Ring
  <1> HIDE DEF k, q, W
  <1>2. Queueing(schedule(n), q, W, Sems_condvar, Phil)
    BY <1>1, WaitingGiveUp
  <1> QED
    BY <1>2, NewKernel_condvar DEF q, W

(* do_sleep of the current thread. *)
LEMMA SleepCore_condvar ==
    ASSUME NEW v, NEW c, NEW i,
           Ring, Core_condvar(v, c), i \in Phil, v.k.cur = i
    PROVE  Core_condvar(Asleep(v, i, "WT_TIMER"), c) /\ Rescheduled_condvar(v, Asleep(v, i, "WT_TIMER"))
  <1> DEFINE n == Dozing(v.k, i, "WT_TIMER")
  <1>1. SchedOK(v.k, Phil) /\ "WT_TIMER" \in WaitStates
    BY DEF Core_condvar, Queueing, WaitStates
  <1>2. Stops(v.k, n, i, Phil)
    BY <1>1, SleeperStops
  <1>3. Asleep(v, i, "WT_TIMER") = [v EXCEPT !.k = schedule(n)]
    BY DEF Asleep, Dozing
  <1> HIDE DEF n
  <1> QED
    BY <1>2, <1>3, StopCore_condvar

-----------------------------------------------------------------------------
(* Nobody but i waits on the semaphore of cv[i], and he does so inside     *)
(* cond_wait.                                                              *)
LEMMA OwnQueue_condvar ==
    ASSUME NEW v, NEW c, NEW i, NEW p,
           Ring, Core_condvar(v, c), i \in Phil, p \in In(v.queue[i])
    PROVE  p = i /\ Top(c, i) = "waited"
  <1> DEFINE k == v.k
             q == v.queue
             W == WaitsFor_condvar(c)
  <1>1. Queueing(k, q, W, Sems_condvar, Phil) /\ i \in Sems_condvar /\ p \in In(q[i])
    BY DEF Core_condvar, Sems_condvar
  <1> HIDE DEF k, q, W
  <1>2. p \in Phil /\ W[p] = i
    BY <1>1, WaitersAreThreads
  <1> QED
    BY <1>2 DEF W, WaitsFor_condvar, Ring

(* What Fits speaks of, as before. *)
Alike_condvar(v, u) ==
    /\ u.state = v.state /\ u.count = v.count
    /\ \A i \in Phil : u.value[i] = v.value[i] /\ u.queue[i] = v.queue[i]

(* A step that changes nothing of the kind keeps the invariant. *)
LEMMA AlikeSound_condvar ==
    ASSUME NEW v, NEW c, NEW u,
           Sound_condvar(v, c), Core_condvar(u, c), Alike_condvar(v, u)
    PROVE  Sound_condvar(u, c)
  <1>1. ASSUME NEW i \in Phil PROVE Fits_condvar(u, c, i)
    <2>1. Queued(u, i) <=> Queued(v, i)
      BY DEF Alike_condvar, Queued
    <2>2. Fits_condvar(v, c, i)
      BY DEF Sound_condvar
    <2> QED
      BY <2>1, <2>2 DEF Alike_condvar, Fits_condvar
  <1> QED
    BY <1>1 DEF Sound_condvar

(* up() on the monitor's own two semaphores. *)
LEMMA UpShared ==
    ASSUME NEW v, NEW c, NEW x,
           Ring, Core_condvar(v, c), x \in {mutex, next}
    PROVE  Core_condvar(up(v, x), c) /\ Alike_condvar(v, up(v, x)) /\ up(v, x).k.cur = v.k.cur
  <1> DEFINE u == up(v, x)
  <1>1. x \in Sems_condvar
    BY DEF Sems_condvar
  <1>2. /\ Core_condvar(u, c) /\ u.k.cur = v.k.cur /\ Kept(v, u)
        /\ Raised_condvar(v, u, x) \/ Handed_condvar(v, u, x)
    BY <1>1, UpCore_condvar
  <1> HIDE DEF u
  <1>3. \A i \in Phil : i \in Sems_condvar /\ i # x
    BY DEF Sems_condvar, Ring
  <1>4. Alike_condvar(v, u)
    BY <1>2, <1>3 DEF Alike_condvar, Raised_condvar, Handed_condvar, Shorter, Kept
  <1> QED
    BY <1>2, <1>4 DEF u

(* Leaving the monitor moves nothing but mutex and next. *)
LEMMA LeaveShared ==
    ASSUME NEW v, NEW c, Ring, Core_condvar(v, c)
    PROVE  /\ Core_condvar(leave_monitor(v), c) /\ Alike_condvar(v, leave_monitor(v))
           /\ leave_monitor(v).k.cur = v.k.cur
  <1>1. CASE v.next_count > 0
    BY <1>1, UpShared DEF leave_monitor
  <1>2. CASE ~(v.next_count > 0)
    BY <1>2, UpShared DEF leave_monitor
  <1> QED
    BY <1>1, <1>2

(* So it keeps the invariant. *)
LEMMA LeaveSound ==
    ASSUME NEW v, NEW c, Ring, Sound_condvar(v, c)
    PROVE  Sound_condvar(leave_monitor(v), c) /\ leave_monitor(v).k.cur = v.k.cur
  <1>1. Core_condvar(v, c)
    BY DEF Sound_condvar
  <1> QED
    BY <1>1, LeaveShared, AlikeSound_condvar

(* down() on them. *)
LEMMA DownShared ==
    ASSUME NEW v, NEW c, NEW x, NEW p,
           Ring, Sound_condvar(v, c), x \in {mutex, next}, p \in Phil, v.k.cur = p, WaitsFor_condvar(c)[p] = x
    PROVE  Sound_condvar(down(v, x), c)
  <1> DEFINE u == down(v, x)
  <1>1. Core_condvar(v, c) /\ x \in Sems_condvar
    BY DEF Sound_condvar, Sems_condvar
  <1>2. /\ Core_condvar(u, c) /\ Kept(v, u)
        /\ Lowered_condvar(v, u, x) \/ Joined_condvar(v, u, x, p)
    BY <1>1, DownCore_condvar
  <1> HIDE DEF u
  <1>3. \A i \in Phil : i \in Sems_condvar /\ i # x
    BY DEF Sems_condvar, Ring
  <1>4. Alike_condvar(v, u)
    BY <1>2, <1>3 DEF Alike_condvar, Lowered_condvar, Joined_condvar, Longer, Kept
  <1> QED
    BY <1>2, <1>4, AlikeSound_condvar DEF u

-----------------------------------------------------------------------------
(* The current thread may go to any point whose promises hold of it. *)
LEMMA MovedSound_condvar ==
    ASSUME NEW v, NEW c, NEW i, NEW point,
           Ring, Sound_condvar(v, c), i \in Phil, v.k.cur = i, point \in Stacks,
           Head(point) # "waited", v.count[i] = 0,
           Head(point) \in {"eat", "full", "put"} => v.state[i] = "EATING",
           Head(point) = "tested" => v.state[i] # "THINKING"
    PROVE  Sound_condvar(v, Moved(c, i, point))
  <1> DEFINE d == Moved(c, i, point)
  <1>1. Core_condvar(v, c) /\ c \in [Phil -> Stacks]
    BY DEF Sound_condvar, Core_condvar
  <1>2. Core_condvar(v, d)
    BY <1>1, MoveCore_condvar
  <1>3. Top(d, i) = Head(point) /\ \A o \in Phil : o # i => Top(d, o) = Top(c, o)
    BY <1>1 DEF Moved, Top
  <1> HIDE DEF d
  <1>4. ASSUME NEW o \in Phil PROVE Fits_condvar(v, d, o)
    <2>1. Fits_condvar(v, c, o)
      BY DEF Sound_condvar
    <2>2. CASE o # i
      BY <1>3, <2>1, <2>2 DEF Fits_condvar
    <2>3. CASE o = i
      BY <1>3, <2>1, <2>3 DEF Fits_condvar
    <2> QED
      BY <2>2, <2>3
  <1> QED
    BY <1>2, <1>4 DEF Sound_condvar, d

(* Where i takes an entry of his own in state_condvar, he promises nothing. *)
LEMMA NewMoodSound_condvar ==
    ASSUME NEW v, NEW c, NEW i, NEW mood,
           Ring, Sound_condvar(v, c), i \in Phil, Top(c, i) \in {"hungry", "right"},
           mood \in {"HUNGRY", "THINKING"}
    PROVE  /\ Sound_condvar([v EXCEPT !.state[i] = mood], c)
           /\ [v EXCEPT !.state[i] = mood].state[i] = mood
           /\ [v EXCEPT !.state[i] = mood].k = v.k
           /\ [v EXCEPT !.state[i] = mood].count = v.count
  <1> DEFINE u == [v EXCEPT !.state[i] = mood]
  <1>1. /\ Core_condvar(v, c) /\ v \in Systems_condvar /\ mood \in Moods /\ mood # "EATING" /\ N \in Nat \ {0, 1}
    BY DEF Sound_condvar, Core_condvar, Moods, Ring
  <1>2. /\ u \in Systems_condvar /\ u.k = v.k /\ u.queue = v.queue /\ u.value = v.value /\ u.count = v.count
        /\ u.state = [v.state EXCEPT ![i] = mood] /\ v.state \in [Phil -> Moods]
    BY <1>1 DEF Systems_condvar
  <1> HIDE DEF u
  <1>3. Core_condvar(u, c)
    BY <1>1, <1>2 DEF Core_condvar
  <1>4. u.state[i] = mood /\ \A o \in Phil : o # i => u.state[o] = v.state[o]
    BY <1>2
  <1>5. ASSUME NEW o \in Phil PROVE Fits_condvar(u, c, o)
    <2>1. Fits_condvar(v, c, o) /\ RIGHT(o) \in Phil
      BY <1>1, Circle DEF Sound_condvar
    <2>2. Queued(u, o) <=> Queued(v, o)
      BY <1>2 DEF Queued
    <2>3. u.state[RIGHT(o)] = "EATING" => v.state[RIGHT(o)] = "EATING"
      BY <1>1, <1>4, <2>1
    <2>4. CASE o # i
      BY <1>2, <1>4, <2>1, <2>2, <2>3, <2>4 DEF Fits_condvar
    <2>5. CASE o = i
      BY <1>1, <1>2, <1>4, <2>1, <2>5 DEF Fits_condvar
    <2> QED
      BY <2>4, <2>5
  <1> QED
    BY <1>2, <1>3, <1>4, <1>5 DEF Sound_condvar, u

-----------------------------------------------------------------------------
(* phi_test_condvar(j) without anybody to signal. *)
LEMMA ServeSound ==
    ASSUME NEW v, NEW c, NEW j,
           Ring, Sound_condvar(v, c), j \in Phil, MayEat(v, j), v.count[j] = 0
    PROVE  Sound_condvar(Served(v, j), c)
  <1> DEFINE u == Served(v, j)
  <1>1. Core_condvar(v, c) /\ v \in Systems_condvar /\ N \in Nat \ {0, 1} /\ v.state[j] = "HUNGRY"
    BY DEF Sound_condvar, Core_condvar, Ring, MayEat
  <1>2. /\ u \in Systems_condvar /\ u.k = v.k /\ u.queue = v.queue /\ u.value = v.value /\ u.count = v.count
        /\ u.state = [v.state EXCEPT ![j] = "EATING"] /\ v.state \in [Phil -> Moods]
    BY <1>1 DEF Systems_condvar, Served, Moods
  <1> HIDE DEF u
  <1>3. Core_condvar(u, c)
    BY <1>1, <1>2 DEF Core_condvar
  <1>4. u.state[j] = "EATING" /\ \A o \in Phil : o # j => u.state[o] = v.state[o]
    BY <1>2
  <1>5. ASSUME NEW o \in Phil PROVE Fits_condvar(u, c, o)
    <2>1. Fits_condvar(v, c, o) /\ RIGHT(o) \in Phil /\ RIGHT(o) # o /\ (RIGHT(o) = j => o = LEFT(j))
      BY <1>1, Circle DEF Sound_condvar
    <2>2. Queued(u, o) <=> Queued(v, o)
      BY <1>2 DEF Queued
    <2>3. CASE o # j
      <3>1. u.state[o] = "EATING" => u.state[RIGHT(o)] # "EATING"
        BY <1>4, <2>1, <2>3 DEF Fits_condvar, MayEat
      <3> QED
        BY <1>2, <1>4, <2>1, <2>2, <2>3, <3>1 DEF Fits_condvar
    <2>4. CASE o = j
      <3>1. u.state[RIGHT(j)] # "EATING"
        BY <1>4, <2>1, <2>4 DEF MayEat
      <3> QED
        BY <1>2, <1>4, <2>1, <2>2, <2>4, <3>1 DEF Fits_condvar
    <2> QED
      BY <2>3, <2>4
  <1> QED
    BY <1>3, <1>5 DEF Sound_condvar, u

(* The first half of cond_signal: the waiter is out of the queue and marked *)
(* EATING in one go.                                                       *)
Signalled(v, j) == up([Served(v, j) EXCEPT !.next_count = @ + 1], j)

(* The signalled waiter is served, and nobody else is touched. *)
LEMMA SignalSound ==
    ASSUME NEW v, NEW c, NEW j,
           Ring, Sound_condvar(v, c), j \in Phil, MayEat(v, j), v.count[j] > 0
    PROVE  /\ Sound_condvar(Signalled(v, j), c) /\ Signalled(v, j).k.cur = v.k.cur
           /\ Signalled(v, j).count = v.count
  <1> DEFINE s == [Served(v, j) EXCEPT !.next_count = @ + 1]
             u == up(s, j)
  <1>1. /\ Core_condvar(v, c) /\ v \in Systems_condvar /\ N \in Nat \ {0, 1} /\ v.state[j] = "HUNGRY"
        /\ Fits_condvar(v, c, j) /\ j \in Sems_condvar
    BY DEF Sound_condvar, Core_condvar, Ring, MayEat, Sems_condvar
  <1>2. Queued(v, j) /\ Top(c, j) = "waited"
    BY <1>1 DEF Fits_condvar
  <1>3. /\ s \in Systems_condvar /\ s.k = v.k /\ s.queue = v.queue /\ s.value = v.value /\ s.count = v.count
        /\ s.state = [v.state EXCEPT ![j] = "EATING"] /\ v.state \in [Phil -> Moods]
    <2> DEFINE a == Served(v, j)
    <2>1. /\ a \in Systems_condvar /\ a.k = v.k /\ a.queue = v.queue /\ a.value = v.value /\ a.count = v.count
          /\ a.state = [v.state EXCEPT ![j] = "EATING"] /\ v.state \in [Phil -> Moods]
      BY <1>1 DEF Systems_condvar, Served, Moods
    <2> HIDE DEF a
    <2>2. PICK n \in Int : s = [a EXCEPT !.next_count = n]
      <3>1. a.next_count + 1 \in Int /\ s = [a EXCEPT !.next_count = a.next_count + 1]
        BY <2>1 DEF a, Systems_condvar
      <3> QED
        BY <3>1
    <2> HIDE DEF s
    <2>3. /\ s \in Systems_condvar /\ s.k = a.k /\ s.queue = a.queue /\ s.value = a.value
          /\ s.count = a.count /\ s.state = a.state
      BY <2>1, <2>2 DEF Systems_condvar
    <2> QED
      BY <2>1, <2>3
  <1> HIDE DEF s
  <1>4. Core_condvar(s, c)
    BY <1>1, <1>3 DEF Core_condvar
  <1>5. /\ Core_condvar(u, c) /\ u.k.cur = s.k.cur /\ Kept(s, u)
        /\ Raised_condvar(s, u, j) \/ Handed_condvar(s, u, j)
    BY <1>1, <1>4, UpCore_condvar
  <1> HIDE DEF u
  <1>6. u.state[j] = "EATING" /\ \A o \in Phil : o # j => u.state[o] = v.state[o]
    BY <1>3, <1>5 DEF Kept
  <1>7. ~Raised_condvar(s, u, j)
    BY <1>2, <1>3 DEF Raised_condvar, Queued, In
  <1>8. u.value = v.value /\ u.count = v.count /\ ~Queued(u, j)
    <2>1. PICK h : Shorter(v.queue, u.queue, j, h, Sems_condvar)
      BY <1>3, <1>5, <1>7 DEF Handed_condvar
    <2>2. h \in In(v.queue[j]) /\ In(u.queue[j]) = In(v.queue[j]) \ {h}
      BY <2>1 DEF Shorter
    <2>3. h = j
      BY <1>1, <2>2, OwnQueue_condvar
    <2> QED
      BY <1>3, <1>5, <1>7, <2>2, <2>3 DEF Handed_condvar, Queued, Kept
  <1>9. ASSUME NEW o \in Phil, o # j PROVE Queued(u, o) <=> Queued(v, o)
    <2>1. u.queue[o] = v.queue[o] /\ o \in Sems_condvar
      BY <1>3, <1>5, <1>7, <1>9 DEF Handed_condvar, Shorter, Sems_condvar
    <2> QED
      BY <2>1 DEF Queued
  <1>10. ASSUME NEW o \in Phil PROVE Fits_condvar(u, c, o)
    <2>1. Fits_condvar(v, c, o) /\ RIGHT(o) \in Phil /\ RIGHT(o) # o /\ (RIGHT(o) = j => o = LEFT(j))
      BY <1>1, Circle DEF Sound_condvar
    <2>2. CASE o # j
      <3>1. u.state[o] = "EATING" => u.state[RIGHT(o)] # "EATING"
        BY <1>6, <2>1, <2>2 DEF Fits_condvar, MayEat
      <3> QED
        BY <1>6, <1>8, <1>9, <2>1, <2>2, <3>1 DEF Fits_condvar
    <2>3. CASE o = j
      <3>1. u.state[RIGHT(j)] # "EATING"
        BY <1>6, <2>1, <2>3 DEF MayEat
      <3> QED
        BY <1>2, <1>6, <1>8, <2>1, <2>3, <3>1 DEF Fits_condvar
    <2> QED
      BY <2>2, <2>3
  <1> QED
    BY <1>3, <1>5, <1>8, <1>10 DEF Sound_condvar, Signalled, u, s

(* phi_test_condvar(j) by i; the test of oneself finds nobody to signal.   *)
LEMMA TestSound_condvar ==
    ASSUME NEW i, NEW v, NEW j, NEW back,
           Ring, i \in Phil, j \in Phil, back \in {"tested", "right", "leave"},
           Sound_condvar(v, Moved(pc, i, <<back>>)), pc \in [Phil -> Stacks],
           v.k.cur = i, v.count[i] = 0, back = "tested" => j = i,
           phi_test_condvar(i, v, j, back)
    PROVE  Sound_condvar(y', pc')
  <1> DEFINE c == Moved(pc, i, <<back>>)
             d == Moved(c, i, <<"signalled", back>>)
  <1>1. CASE ~MayEat(v, j) /\ y' = v /\ Goto_condvar(i, <<back>>)
    BY <1>1 DEF Goto_condvar, Moved
  <1>2. CASE MayEat(v, j) /\ v.count[j] = 0 /\ y' = Served(v, j) /\ Goto_condvar(i, <<back>>)
    <2>1. pc' = c
      BY <1>2 DEF Goto_condvar, Moved
    <2> HIDE DEF c
    <2>2. Sound_condvar(v, c)
      BY DEF c
    <2> QED
      BY <1>2, <2>1, <2>2, ServeSound
  <1>3. CASE /\ MayEat(v, j) /\ v.count[j] > 0
             /\ y' = cond_signal(Served(v, j), j) /\ Goto_condvar(i, <<"signalled", back>>)
    <2> DEFINE u == Signalled(v, j)
    <2>1. y' = down(u, next) /\ pc' = [pc EXCEPT ![i] = <<"signalled", back>>]
      BY <1>3 DEF cond_signal, Signalled, Goto_condvar
    <2>2. pc' = d
      BY <2>1 DEF Moved
    <2>3. back \in {"right", "leave"} /\ <<"signalled", back>> \in Stacks /\ Head(<<"signalled", back>>) = "signalled"
      BY <1>3 DEF Stacks
    <2>4. c \in [Phil -> Stacks]
      BY DEF Sound_condvar, Core_condvar
    <2>5. Top(d, i) = "signalled"
      BY <2>3, <2>4 DEF Moved, Top
    <2> HIDE DEF c, d, u
    <2>6. Sound_condvar(u, c) /\ u.k.cur = i /\ u.count[i] = 0
      BY <1>3, SignalSound DEF c, u
    <2>7. Sound_condvar(u, d)
      BY <2>3, <2>6, MovedSound_condvar DEF d
    <2>8. WaitsFor_condvar(d)[i] = next
      BY <2>5 DEF WaitsFor_condvar
    <2> QED
      BY <2>1, <2>2, <2>6, <2>7, <2>8, DownShared
  <1> QED
    BY <1>1, <1>2, <1>3 DEF phi_test_condvar

-----------------------------------------------------------------------------
(* The steps of a thread. *)
LEMMA CurrentFacts ==
    ASSUME NEW i, NEW point, Sound_condvar(y, pc), i \in Phil, At_condvar(i, point)
    PROVE  /\ y.k.cur = i /\ Top(pc, i) = point /\ pc[i] \in Stacks /\ pc \in [Phil -> Stacks]
           /\ y \in Systems_condvar /\ Core_condvar(y, pc) /\ ~Queued(y, i) /\ Fits_condvar(y, pc, i)
           /\ y.count[i] = IF point = "waited" THEN 1 ELSE 0
  <1>1. /\ y.k.cur = i /\ Top(pc, i) = point /\ pc[i] \in Stacks /\ pc \in [Phil -> Stacks]
        /\ y \in Systems_condvar /\ Core_condvar(y, pc) /\ Fits_condvar(y, pc, i) /\ i \in Sems_condvar
    BY DEF At_condvar, Top, Sound_condvar, Core_condvar, Sems_condvar
  <1> DEFINE k == y.k
             q == y.queue
             W == WaitsFor_condvar(pc)
  <1>2. Queueing(k, q, W, Sems_condvar, Phil) /\ k.cur = i
    BY <1>1 DEF Core_condvar
  <1> HIDE DEF k, q, W
  <1>3. InNone(i, q, Sems_condvar)
    BY <1>2, RunningIsNotQueued
  <1>4. ~Queued(y, i)
    BY <1>1, <1>3 DEF InNone, Queued, q
  <1> QED
    BY <1>1, <1>4 DEF Fits_condvar

(* Going to sleep, or ending, at a point whose promises hold. *)
LEMMA SleptSound ==
    ASSUME NEW i, NEW point, Ring, Sound_condvar(y, pc), i \in Phil, y.k.cur = i,
           Sound_condvar(y, Moved(pc, i, point)), pc' = Moved(pc, i, point),
           \/ y' = Asleep(y, i, "WT_TIMER")
           \/ y' = [y EXCEPT !.k = schedule([@ EXCEPT !.st[i] = "ZOMBIE"])]
    PROVE  Sound_condvar(y', pc')
  <1>1. Core_condvar(y, pc') /\ Sound_condvar(y, pc')
    BY DEF Sound_condvar
  <1>2. Core_condvar(y', pc') /\ Rescheduled_condvar(y, y')
    <2>1. CASE y' = Asleep(y, i, "WT_TIMER")
      BY <1>1, <2>1, SleepCore_condvar
    <2>2. CASE y' = [y EXCEPT !.k = schedule([@ EXCEPT !.st[i] = "ZOMBIE"])]
      <3> DEFINE n == [y.k EXCEPT !.st[i] = "ZOMBIE"]
      <3>1. SchedOK(y.k, Phil) /\ y' = [y EXCEPT !.k = schedule(n)]
        BY <1>1, <2>2 DEF Core_condvar, Queueing
      <3>2. Stops(y.k, n, i, Phil)
        BY <3>1, ZombieStops
      <3> HIDE DEF n
      <3> QED
        BY <1>1, <3>1, <3>2, StopCore_condvar
    <2> QED
      BY <2>1, <2>2
  <1>3. Alike_condvar(y, y')
    BY <1>2 DEF Rescheduled_condvar, Kept, Alike_condvar
  <1> QED
    BY <1>1, <1>2, <1>3, AlikeSound_condvar

(* do_sleep before a meal and at it, and the end of the thread. *)
LEMMA ThinkSound_condvar ==
    ASSUME NEW i, Ring, Sound_condvar(y, pc), i \in Phil, think_condvar(i) \/ eat_condvar(i)
    PROVE  Sound_condvar(y', pc')
  <1>1. ASSUME NEW point \in Stacks, Head(point) \in {"take", "quit"} \/ (Head(point) = "full" /\ eat_condvar(i)),
               pc' = Moved(pc, i, point),
               \/ y' = Asleep(y, i, "WT_TIMER")
               \/ y' = [y EXCEPT !.k = schedule([@ EXCEPT !.st[i] = "ZOMBIE"])]
        PROVE  Sound_condvar(y', pc')
    <2>1. At_condvar(i, "start") \/ At_condvar(i, "eat")
      BY DEF think_condvar, eat_condvar
    <2>2. y.k.cur = i /\ y.count[i] = 0
      BY <2>1, CurrentFacts
    <2>3. eat_condvar(i) => y.state[i] = "EATING"
      <3>1. eat_condvar(i) => At_condvar(i, "eat")
        BY DEF eat_condvar
      <3>2. eat_condvar(i) => Top(pc, i) = "eat" /\ Fits_condvar(y, pc, i)
        BY <3>1, CurrentFacts
      <3> QED
        BY <3>2 DEF Fits_condvar
    <2>4. Sound_condvar(y, Moved(pc, i, point))
      BY <1>1, <2>2, <2>3, MovedSound_condvar
    <2> QED
      BY <1>1, <2>2, <2>4, SleptSound
  <1>2. CASE think_condvar(i) /\ iter[i] < TIMES
    <2>1. <<"take">> \in Stacks /\ Head(<<"take">>) = "take"
      BY DEF Stacks
    <2>2. pc' = Moved(pc, i, <<"take">>) /\ y' = Asleep(y, i, "WT_TIMER")
      BY <1>2 DEF think_condvar, Goto_condvar, Moved
    <2> QED
      BY <1>1, <2>1, <2>2
  <1>3. CASE think_condvar(i) /\ ~(iter[i] < TIMES)
    <2>1. <<"quit">> \in Stacks /\ Head(<<"quit">>) = "quit"
      BY DEF Stacks
    <2>2. pc' = Moved(pc, i, <<"quit">>) /\ y' = [y EXCEPT !.k = schedule([@ EXCEPT !.st[i] = "ZOMBIE"])]
      BY <1>3 DEF think_condvar, Goto_condvar, Moved
    <2> QED
      BY <1>1, <2>1, <2>2
  <1>4. CASE eat_condvar(i)
    <2>1. <<"full">> \in Stacks /\ Head(<<"full">>) = "full"
      BY DEF Stacks
    <2>2. pc' = Moved(pc, i, <<"full">>) /\ y' = Asleep(y, i, "WT_TIMER")
      BY <1>4 DEF eat_condvar, Goto_condvar, Moved
    <2> QED
      BY <1>1, <1>4, <2>1, <2>2
  <1> QED
    BY <1>2, <1>3, <1>4

(* The two entries, behind which down(mutex) may block. *)
LEMMA MutexSound_condvar ==
    ASSUME NEW i, Ring, Sound_condvar(y, pc), i \in Phil, take_mutex_condvar(i) \/ put_mutex_condvar(i)
    PROVE  Sound_condvar(y', pc')
  <1>1. ASSUME NEW point \in Stacks, Head(point) \in {"hungry", "put"},
               Head(point) = "put" => y.state[i] = "EATING", y.k.cur = i, y.count[i] = 0,
               pc' = Moved(pc, i, point), y' = down(y, mutex)
        PROVE  Sound_condvar(y', pc')
    <2>1. Sound_condvar(y, pc')
      BY <1>1, MovedSound_condvar
    <2>2. Top(pc', i) = Head(point)
      BY <1>1 DEF Top, Moved, Sound_condvar, Core_condvar
    <2>3. WaitsFor_condvar(pc')[i] = mutex
      BY <1>1, <2>2 DEF WaitsFor_condvar
    <2> QED
      BY <1>1, <2>1, <2>3, DownShared
  <1>2. CASE take_mutex_condvar(i)
    <2>1. <<"hungry">> \in Stacks /\ Head(<<"hungry">>) = "hungry"
      BY DEF Stacks
    <2>2. At_condvar(i, "take") /\ pc' = Moved(pc, i, <<"hungry">>) /\ y' = down(y, mutex)
      BY <1>2 DEF take_mutex_condvar, Goto_condvar, Moved
    <2>3. y.k.cur = i /\ y.count[i] = 0
      BY <2>2, CurrentFacts
    <2> QED
      BY <1>1, <2>1, <2>2, <2>3
  <1>3. CASE put_mutex_condvar(i)
    <2>1. <<"put">> \in Stacks /\ Head(<<"put">>) = "put"
      BY DEF Stacks
    <2>2. At_condvar(i, "full") /\ pc' = Moved(pc, i, <<"put">>) /\ y' = down(y, mutex)
      BY <1>3 DEF put_mutex_condvar, Goto_condvar, Moved
    <2>3. y.k.cur = i /\ y.count[i] = 0 /\ Top(pc, i) = "full" /\ Fits_condvar(y, pc, i)
      BY <2>2, CurrentFacts
    <2>4. y.state[i] = "EATING"
      BY <2>3 DEF Fits_condvar
    <2> QED
      BY <1>1, <2>1, <2>2, <2>3, <2>4
  <1> QED
    BY <1>2, <1>3

(* The test of oneself. *)
LEMMA TakeTestSound_condvar ==
    ASSUME NEW i, Ring, Sound_condvar(y, pc), i \in Phil, take_test_condvar(i)
    PROVE  Sound_condvar(y', pc')
  <1> DEFINE v == [y EXCEPT !.state[i] = "HUNGRY"]
             c == Moved(pc, i, <<"tested">>)
  <1>1. At_condvar(i, "hungry") /\ phi_test_condvar(i, v, i, "tested")
    BY DEF take_test_condvar
  <1>2. y.k.cur = i /\ Top(pc, i) = "hungry" /\ y.count[i] = 0 /\ pc \in [Phil -> Stacks]
    BY <1>1, CurrentFacts
  <1>3. Sound_condvar(v, pc) /\ v.state[i] = "HUNGRY" /\ v.k = y.k /\ v.count = y.count
    BY <1>2, NewMoodSound_condvar
  <1>4. <<"tested">> \in Stacks /\ Head(<<"tested">>) = "tested"
    BY DEF Stacks
  <1> HIDE DEF v, c
  <1>5. v.k.cur = i /\ v.count[i] = 0
    BY <1>2, <1>3
  <1>6. Sound_condvar(v, c)
    BY <1>3, <1>4, <1>5, MovedSound_condvar DEF c
  <1> QED
    BY <1>1, <1>2, <1>5, <1>6, TestSound_condvar DEF c

(* The tests of the neighbours. *)
LEMMA PutSideSound ==
    ASSUME NEW i, Ring, Sound_condvar(y, pc), i \in Phil, put_left(i) \/ put_right(i)
    PROVE  Sound_condvar(y', pc')
  <1>1. LEFT(i) \in Phil /\ RIGHT(i) \in Phil
    BY Circle DEF Ring
  <1>2. CASE put_left(i)
    <2> DEFINE c == Moved(pc, i, <<"right">>)
               v == [y EXCEPT !.state[i] = "THINKING"]
    <2>1. At_condvar(i, "put") /\ phi_test_condvar(i, v, LEFT(i), "right")
      BY <1>2 DEF put_left
    <2>2. y.k.cur = i /\ y.count[i] = 0 /\ pc \in [Phil -> Stacks]
      BY <2>1, CurrentFacts
    <2>3. <<"right">> \in Stacks /\ Head(<<"right">>) = "right"
      BY DEF Stacks
    <2>4. Sound_condvar(y, c)
      BY <2>2, <2>3, MovedSound_condvar
    <2>5. Top(c, i) = "right"
      BY <2>2, <2>3 DEF Moved, Top
    <2> HIDE DEF c
    <2>6. Sound_condvar(v, c) /\ v.k = y.k /\ v.count = y.count
      BY <2>4, <2>5, NewMoodSound_condvar
    <2> HIDE DEF v
    <2>7. v.k.cur = i /\ v.count[i] = 0
      BY <2>2, <2>6
    <2> QED
      BY <1>1, <2>1, <2>2, <2>6, <2>7, TestSound_condvar DEF c
  <1>3. CASE put_right(i)
    <2>1. At_condvar(i, "right") /\ phi_test_condvar(i, y, RIGHT(i), "leave")
      BY <1>3 DEF put_right
    <2>2. y.k.cur = i /\ y.count[i] = 0 /\ pc \in [Phil -> Stacks]
      BY <2>1, CurrentFacts
    <2>3. <<"leave">> \in Stacks /\ Head(<<"leave">>) = "leave"
      BY DEF Stacks
    <2>4. Sound_condvar(y, Moved(pc, i, <<"leave">>))
      BY <2>2, <2>3, MovedSound_condvar
    <2> QED
      BY <1>1, <2>1, <2>2, <2>4, TestSound_condvar
  <1> QED
    BY <1>2, <1>3

(* The end of phi_put_forks_condvar. *)
LEMMA PutLeaveSound ==
    ASSUME NEW i, Ring, Sound_condvar(y, pc), i \in Phil, put_leave(i)
    PROVE  Sound_condvar(y', pc')
  <1>1. At_condvar(i, "leave") /\ y' = leave_monitor(y) /\ pc' = Moved(pc, i, <<"start">>)
    BY DEF put_leave, Goto_condvar, Moved
  <1>2. y.k.cur = i /\ y.count[i] = 0
    BY <1>1, CurrentFacts
  <1>3. <<"start">> \in Stacks /\ Head(<<"start">>) = "start"
    BY DEF Stacks
  <1>4. Sound_condvar(y, pc')
    BY <1>1, <1>2, <1>3, MovedSound_condvar
  <1> QED
    BY <1>1, <1>4, LeaveSound

(* The end of cond_signal: only next_count moves. *)
LEMMA SignalledSound ==
    ASSUME NEW i, Ring, Sound_condvar(y, pc), i \in Phil, signalled(i)
    PROVE  Sound_condvar(y', pc')
  <1>1. /\ At_condvar(i, "signalled") /\ y' = [y EXCEPT !.next_count = @ - 1]
        /\ pc' = Moved(pc, i, Tail(pc[i]))
    BY DEF signalled, cond_signalled, Goto_condvar, Moved
  <1>2. y.k.cur = i /\ y.count[i] = 0 /\ pc[i] \in Stacks /\ Top(pc, i) = "signalled" /\ y \in Systems_condvar
    BY <1>1, CurrentFacts
  <1>3. pc[i] = <<"signalled", "right">> \/ pc[i] = <<"signalled", "leave">>
    BY <1>2 DEF Stacks, Top
  <1>4. Tail(pc[i]) \in Stacks /\ Head(Tail(pc[i])) \in {"right", "leave"}
    <2>1. Tail(<<"signalled", "right">>) = <<"right">> /\ Tail(<<"signalled", "leave">>) = <<"leave">>
      OBVIOUS
    <2>2. Tail(pc[i]) = <<"right">> \/ Tail(pc[i]) = <<"leave">>
      BY <1>3, <2>1
    <2>3. Head(<<"right">>) = "right" /\ Head(<<"leave">>) = "leave"
      OBVIOUS
    <2> QED
      BY <2>2, <2>3 DEF Stacks
  <1>5. Sound_condvar(y, pc')
    BY <1>1, <1>2, <1>4, MovedSound_condvar
  <1>6. /\ y' \in Systems_condvar /\ y'.k = y.k /\ y'.queue = y.queue /\ y'.value = y.value
        /\ y'.count = y.count /\ y'.state = y.state
    <2>1. PICK n \in Int : y' = [y EXCEPT !.next_count = n]
      <3>1. y.next_count - 1 \in Int /\ y' = [y EXCEPT !.next_count = y.next_count - 1]
        BY <1>1, <1>2 DEF Systems_condvar
      <3> QED
        BY <3>1
    <2> QED
      BY <1>2, <2>1 DEF Systems_condvar
  <1>7. Core_condvar(y', pc') /\ Alike_condvar(y, y')
    BY <1>5, <1>6 DEF Sound_condvar, Core_condvar, Alike_condvar
  <1> QED
    BY <1>5, <1>7, AlikeSound_condvar

(* cond_waited, or the ++ of cond_wait. *)
Counting(v, i, n) == [v EXCEPT !.count[i] = n]

CountIs(v, u, i, n) ==
    /\ u.k = v.k /\ u.queue = v.queue /\ u.value = v.value /\ u.state = v.state
    /\ u.count[i] = n /\ \A o \in Phil : o # i => u.count[o] = v.count[o]

(* It changes one entry of count. *)
LEMMA NewCount ==
    ASSUME NEW v, NEW c, NEW i, NEW n,
           Core_condvar(v, c), i \in Phil, n \in Int
    PROVE  Core_condvar(Counting(v, i, n), c) /\ CountIs(v, Counting(v, i, n), i, n)
  <1> DEFINE u == Counting(v, i, n)
  <1>1. v \in Systems_condvar
    BY DEF Core_condvar
  <1>2. /\ u \in Systems_condvar /\ u.k = v.k /\ u.queue = v.queue /\ u.value = v.value
        /\ u.state = v.state /\ u.count = [v.count EXCEPT ![i] = n] /\ v.count \in [Phil -> Int]
    BY <1>1 DEF Systems_condvar, Counting
  <1> HIDE DEF u
  <1> QED
    BY <1>2 DEF Core_condvar, CountIs, u

(* The end of cond_wait, with the forks in hand. *)
LEMMA WaitedSound ==
    ASSUME NEW i, Ring, Sound_condvar(y, pc), i \in Phil, waited(i)
    PROVE  Sound_condvar(y', pc')
  <1> DEFINE v == cond_waited(y, i)
  <1>1. At_condvar(i, "waited") /\ y' = leave_monitor(v) /\ pc' = Moved(pc, i, Tail(pc[i]))
    BY DEF waited, Goto_condvar, Moved
  <1>2. /\ y.k.cur = i /\ y.count[i] = 1 /\ pc[i] \in Stacks /\ Top(pc, i) = "waited"
        /\ Core_condvar(y, pc) /\ ~Queued(y, i) /\ Fits_condvar(y, pc, i) /\ pc \in [Phil -> Stacks]
    BY <1>1, CurrentFacts
  <1>3. Tail(pc[i]) = <<"eat">> /\ <<"eat">> \in Stacks /\ Head(<<"eat">>) = "eat"
    <2>1. pc[i] = <<"waited", "eat">>
      BY <1>2 DEF Stacks, Top
    <2>2. Tail(<<"waited", "eat">>) = <<"eat">> /\ Head(<<"eat">>) = "eat"
      OBVIOUS
    <2> QED
      BY <2>1, <2>2 DEF Stacks
  <1>4. y.state[i] = "EATING"
    BY <1>2 DEF Fits_condvar
  <1>5. Top(pc', i) = "eat" /\ \A o \in Phil : o # i => Top(pc', o) = Top(pc, o)
    BY <1>1, <1>2, <1>3 DEF Moved, Top
  <1>6. Core_condvar(y, pc')
    BY <1>1, <1>2, <1>3, MoveCore_condvar
  <1>7. v = Counting(y, i, 0)
    <2>1. y \in Systems_condvar /\ y.count[i] - 1 = 0
      BY <1>2 DEF Core_condvar
    <2> QED
      BY <2>1 DEF cond_waited, Counting, Systems_condvar
  <1> HIDE DEF v
  <1>8. Core_condvar(v, pc') /\ CountIs(y, v, i, 0)
    BY <1>6, <1>7, NewCount
  <1>9. ASSUME NEW o \in Phil PROVE Fits_condvar(v, pc', o)
    <2>1. Fits_condvar(y, pc, o) /\ (Queued(v, o) <=> Queued(y, o))
      BY <1>8 DEF Sound_condvar, Queued, CountIs
    <2>2. CASE o # i
      BY <1>5, <1>8, <2>1, <2>2 DEF Fits_condvar, CountIs
    <2>3. CASE o = i
      BY <1>4, <1>5, <1>8, <2>1, <2>3 DEF Fits_condvar, CountIs
    <2> QED
      BY <2>2, <2>3
  <1>10. Sound_condvar(v, pc')
    BY <1>8, <1>9 DEF Sound_condvar
  <1> QED
    BY <1>1, <1>10, LeaveSound

(* The last part of take_forks, with its down. *)
LEMMA TakeForksSound_condvar ==
    ASSUME NEW i, Ring, Sound_condvar(y, pc), i \in Phil, take_forks_condvar(i)
    PROVE  Sound_condvar(y', pc')
  <1>1. At_condvar(i, "tested")
    BY DEF take_forks_condvar
  <1>2. /\ y.k.cur = i /\ y.count[i] = 0 /\ Top(pc, i) = "tested" /\ y \in Systems_condvar
        /\ Core_condvar(y, pc) /\ Fits_condvar(y, pc, i) /\ pc \in [Phil -> Stacks]
    BY <1>1, CurrentFacts
  <1>3. CASE y.state[i] # "HUNGRY"
    <2>1. y' = leave_monitor(y) /\ pc' = Moved(pc, i, <<"eat">>)
      BY <1>3 DEF take_forks_condvar, Goto_condvar, Moved
    <2>2. y.state[i] = "EATING"
      BY <1>2, <1>3 DEF Fits_condvar, Systems_condvar, Moods
    <2>3. <<"eat">> \in Stacks /\ Head(<<"eat">>) = "eat"
      BY DEF Stacks
    <2>4. Sound_condvar(y, pc')
      BY <1>2, <2>1, <2>2, <2>3, MovedSound_condvar
    <2> QED
      BY <2>1, <2>4, LeaveSound
  <1>4. CASE y.state[i] = "HUNGRY"
    <2> DEFINE v == Counting(y, i, 1)
               l == leave_monitor(v)
    <2>1. y' = down(l, i) /\ pc' = Moved(pc, i, <<"waited", "eat">>)
      <3>1. y' = cond_wait(y, i) /\ pc' = Moved(pc, i, <<"waited", "eat">>)
        BY <1>4 DEF take_forks_condvar, Goto_condvar, Moved
      <3>2. [y EXCEPT !.count[i] = @ + 1] = v
        BY <1>2 DEF Counting, Systems_condvar
      <3> HIDE DEF v
      <3> QED
        BY <3>1, <3>2 DEF cond_wait
    <2>2. <<"waited", "eat">> \in Stacks /\ Head(<<"waited", "eat">>) = "waited"
      BY DEF Stacks
    <2>3. Top(pc', i) = "waited" /\ \A o \in Phil : o # i => Top(pc', o) = Top(pc, o)
      BY <1>2, <2>1, <2>2 DEF Moved, Top
    <2>4. Core_condvar(y, pc')
      BY <1>2, <2>1, <2>2, MoveCore_condvar
    <2>5. Core_condvar(v, pc') /\ CountIs(y, v, i, 1)
      BY <2>4, NewCount
    <2> HIDE DEF v
    <2>6. Core_condvar(l, pc') /\ Alike_condvar(v, l) /\ l.k.cur = v.k.cur
      BY <2>5, LeaveShared
    <2> HIDE DEF l
    <2>7. l.k.cur = i /\ WaitsFor_condvar(pc')[i] = i /\ i \in Sems_condvar
      BY <1>2, <2>3, <2>5, <2>6 DEF WaitsFor_condvar, Sems_condvar, CountIs
    <2>8. /\ Core_condvar(y', pc') /\ Kept(l, y')
          /\ Lowered_condvar(l, y', i) \/ Joined_condvar(l, y', i, i)
      BY <2>1, <2>6, <2>7, DownCore_condvar
    <2>9. l.value[i] = 0
      BY <1>2, <2>5, <2>6 DEF Alike_condvar, Fits_condvar, CountIs
    <2>10. y'.value = l.value /\ Longer(l.queue, y'.queue, i, i, Sems_condvar)
      BY <2>8, <2>9 DEF Lowered_condvar, Joined_condvar
    <2>11. ASSUME NEW o \in Phil PROVE Fits_condvar(y', pc', o)
      <3>1. Fits_condvar(y, pc, o) /\ o \in Sems_condvar
        BY DEF Sound_condvar, Sems_condvar
      <3>2. y'.state = y.state /\ y'.count = v.count /\ y'.value[o] = y.value[o]
        BY <2>5, <2>6, <2>8, <2>10 DEF Alike_condvar, Kept, CountIs
      <3>3. CASE o # i
        <4>1. y'.queue[o] = y.queue[o]
          BY <2>5, <2>6, <2>10, <3>1, <3>3 DEF Alike_condvar, Longer, CountIs
        <4>2. Queued(y', o) <=> Queued(y, o)
          BY <4>1 DEF Queued
        <4> QED
          BY <2>3, <2>5, <3>1, <3>2, <3>3, <4>2 DEF Fits_condvar, CountIs
      <3>4. CASE o = i
        <4>1. Queued(y', i)
          BY <2>10 DEF Longer, Queued
        <4> QED
          BY <1>4, <2>3, <2>5, <3>1, <3>2, <3>4, <4>1 DEF Fits_condvar, CountIs
      <3> QED
        BY <3>3, <3>4
    <2> QED
      BY <2>8, <2>11 DEF Sound_condvar
  <1> QED
    BY <1>3, <1>4

(* The steps of nobody's: a timer, and the idle thread's schedule(). *)
LEMMA TimerSound_condvar ==
    ASSUME NEW i, Ring, Sound_condvar(y, pc), i \in Phil, timer(i) \/ cpu_idle
    PROVE  Sound_condvar(y', pc')
  <1> DEFINE k == y.k
             q == y.queue
             W == WaitsFor_condvar(pc)
  <1>1. /\ Core_condvar(y, pc) /\ Queueing(k, q, W, Sems_condvar, Phil) /\ Idle \notin Phil
        /\ q = y.queue /\ W = WaitsFor_condvar(pc)
    BY DEF Sound_condvar, Core_condvar, Ring
  <1>2. PICK m : Queueing(m, q, W, Sems_condvar, Phil) /\ y' = [y EXCEPT !.k = m] /\ pc' = pc
    <2>1. CASE timer(i)
      <3>1. k.ws[i] = "WT_TIMER" /\ y' = [y EXCEPT !.k = wakeup_proc(k, i)] /\ pc' = pc
        BY <2>1 DEF timer
      <3> HIDE DEF k, q, W
      <3>2. Queueing(wakeup_proc(k, i), q, W, Sems_condvar, Phil)
        BY <1>1, <3>1, WaitingTimer
      <3> QED
        BY <3>1, <3>2
    <2>2. CASE cpu_idle
      <3>1. k.cur = Idle /\ y' = [y EXCEPT !.k = schedule(k)] /\ pc' = pc
        BY <2>2 DEF cpu_idle
      <3> HIDE DEF k, q, W
      <3>2. Queueing(schedule(k), q, W, Sems_condvar, Phil)
        BY <1>1, <3>1, WaitingIdle
      <3> QED
        BY <3>1, <3>2
    <2> QED
      BY <2>1, <2>2
  <1> HIDE DEF k, q, W
  <1>3. Core_condvar(y', pc) /\ Rescheduled_condvar(y, y')
    BY <1>1, <1>2, NewKernel_condvar
  <1>4. Alike_condvar(y, y')
    BY <1>3 DEF Alike_condvar, Rescheduled_condvar, Kept
  <1> QED
    BY <1>2, <1>3, <1>4, AlikeSound_condvar

-----------------------------------------------------------------------------
(* Every step keeps the invariant, and monitor_init starts with it. *)
LEMMA StepSound_condvar ==
    ASSUME Ring, Sound_condvar(y, pc), Step_condvar \/ \E i \in Phil : timer(i)
    PROVE  Sound_condvar(y', pc')
  <1>1. ASSUME NEW i \in Phil, Thread_condvar(i) PROVE Sound_condvar(y', pc')
    BY <1>1, ThinkSound_condvar, MutexSound_condvar, TakeTestSound_condvar, TakeForksSound_condvar, WaitedSound,
       PutSideSound, PutLeaveSound, SignalledSound DEF Thread_condvar
  <1>2. ASSUME NEW i \in Phil, timer(i) PROVE Sound_condvar(y', pc')
    BY <1>2, TimerSound_condvar
  <1>3. ASSUME cpu_idle PROVE Sound_condvar(y', pc')
    <2>1. 0 \in Phil
      BY DEF Ring, Phil
    <2> QED
      BY <1>3, <2>1, TimerSound_condvar
  <1> QED
    BY <1>1, <1>2, <1>3 DEF Step_condvar

(* monitor_init starts with the invariant. *)
LEMMA BeginSound == ASSUME Ring, Begin PROVE Sound_condvar(y', pc')
  <1>1. N \in Nat \ {0, 1} /\ Idle \notin Phil /\ mutex \notin Phil
    BY DEF Ring
  <1>2. y'.k.rq \in Seq(Phil) /\ Once(y'.k.rq)
    <2> DEFINE s == [j \in 1 .. N |-> j - 1]
    <2>1. y'.k.rq = s
      BY DEF Begin
    <2>2. s \in Seq(Phil) /\ Len(s) = N
      BY <1>1 DEF Phil
    <2>3. \A a, b \in 1 .. N : s[a] = s[b] => a = b
      BY <1>1
    <2> QED
      BY <2>1, <2>2, <2>3 DEF Once
  <1>3. y'.k \in Kernel(Phil)
    BY <1>1, <1>2, SliceAssumption DEF Begin, Kernel, Threads, RunStates, WaitStates, Panics
  <1>4. y'.k.cur = Idle
    BY DEF Begin
  <1>5. y'.k.cur \notin In(y'.k.rq)
    BY <1>1, <1>2, <1>4 DEF In
  <1>6. SchedOK(y'.k, Phil)
    BY <1>2, <1>3, <1>5 DEF SchedOK
  <1>7. y'.queue = [x \in Sems_condvar |-> <<>>] /\ \A x \in Sems_condvar : In(y'.queue[x]) = {}
    BY DEF Begin, In
  <1>8. Queueing(y'.k, y'.queue, WaitsFor_condvar(pc'), Sems_condvar, Phil)
    BY <1>6, <1>7 DEF Queueing, Waiting, Once
  <1>9. pc' = [i \in Phil |-> <<"start">>] /\ Head(<<"start">>) = "start" /\ <<"start">> \in Stacks
    BY DEF Begin, Stacks
  <1>10. Core_condvar(y', pc')
    <2>1. y' \in Systems_condvar
      BY <1>3, <1>7 DEF Begin, Systems_condvar, Moods
    <2> QED
      BY <1>8, <1>9, <2>1 DEF Core_condvar
  <1>11. ASSUME NEW i \in Phil PROVE Fits_condvar(y', pc', i)
    <2>1. RIGHT(i) \in Phil /\ i \in Sems_condvar /\ i # mutex
      BY <1>1, Circle DEF Sems_condvar
    <2>2. /\ y'.state[i] = "THINKING" /\ y'.state[RIGHT(i)] = "THINKING" /\ y'.value[i] = 0
          /\ y'.count[i] = 0
      BY <2>1 DEF Begin
    <2>3. Top(pc', i) = "start"
      BY <1>9 DEF Top
    <2> QED
      BY <2>2, <2>3 DEF Fits_condvar
  <1> QED
    BY <1>10, <1>11 DEF Sound_condvar

(* What the invariant says of those woken and of the forks. *)
LEMMA SoundMeans_condvar ==
    ASSUME Ring, Sound_condvar(y, pc)
    PROVE  WokenMayEat_condvar /\ NeighboursDoNotEat_condvar
  <1>1. ASSUME NEW i \in Phil PROVE Queued(y, i) => Blocked(i)
    <2>1. y.queue[i] \in Seq(Phil) /\ i \in Sems_condvar
      BY DEF Sound_condvar, Core_condvar, Systems_condvar, Sems_condvar
    <2>2. ToSet(y.queue[i]) = In(y.queue[i])
      BY <2>1, InIsToSet
    <2> QED
      BY <2>1, <2>2 DEF Queued, Blocked
  <1>2. ASSUME NEW i \in Phil PROVE Fits_condvar(y, pc, i) /\ RIGHT(i) \in Phil
    BY Circle DEF Sound_condvar, Ring
  <1>3. WokenMayEat_condvar
    BY <1>1, <1>2 DEF WokenMayEat_condvar, Fits_condvar, Top
  <1>4. NeighboursDoNotEat_condvar
    BY <1>2 DEF NeighboursDoNotEat_condvar, HasForks_condvar, Fits_condvar, Top
  <1> QED
    BY <1>3, <1>4

-----------------------------------------------------------------------------
(* Whose the monitor is: those between its two ends who are in no queue.   *)
WithinPoints == {"hungry", "tested", "waited", "signalled", "put", "right", "leave"}

Insiders(q, c) == {i \in Phil : Top(c, i) \in WithinPoints /\ InNone(i, q, Sems_condvar)}
Signallers(c) == {i \in Phil : Top(c, i) = "signalled"}

Counts(v, c) == v.next_count = Cardinality(Signallers(c))

(* One thread inside, or the permit in mutex. *)
Owned(v, c) ==
    /\ v.value[next] = 0
    /\ \/ v.value[mutex] = 1 /\ Insiders(v.queue, c) = {}
       \/ v.value[mutex] = 0 /\ \E h \in Phil : Insiders(v.queue, c) = {h}

Monitor(v, c) == Counts(v, c) /\ Owned(v, c)

(* On the way out i has the monitor for himself, and then has given it away. *)
Leaving(v, c, i) ==
    v.value[next] = 0 /\ v.value[mutex] = 0 /\ Insiders(v.queue, c) \subseteq {i}

HasLeft(v, c, i) ==
    /\ v.value[next] = 0
    /\ \/ v.value[mutex] = 1 /\ Insiders(v.queue, c) \ {i} = {}
       \/ v.value[mutex] = 0 /\ \E h \in Phil : Insiders(v.queue, c) \ {i} = {h}

LEMMA SignallersFinite == ASSUME NEW c PROVE IsFiniteSet(Signallers(c))
  <1>1. IsFiniteSet(Phil)
    BY TableAssumption, FS_Interval DEF Phil
  <1>2. Signallers(c) \subseteq Phil
    BY DEF Signallers
  <1> QED
    BY <1>1, <1>2, FS_Subset

(* Whoever is queued has called down between the two ends of the monitor.  *)
LEMMA QueuedWithin ==
    ASSUME NEW v, NEW c, NEW x, NEW p,
           Ring, Core_condvar(v, c), x \in Sems_condvar, p \in In(v.queue[x])
    PROVE  p \in Phil /\ WaitsFor_condvar(c)[p] = x /\ Top(c, p) \in WithinPoints
  <1> DEFINE k == v.k
             q == v.queue
             W == WaitsFor_condvar(c)
  <1>1. Queueing(k, q, W, Sems_condvar, Phil) /\ p \in In(q[x])
    BY DEF Core_condvar
  <1> HIDE DEF k, q, W
  <1>2. p \in Phil /\ W[p] = x
    BY <1>1, WaitersAreThreads
  <1>3. x # Idle
    BY DEF Sems_condvar, Ring
  <1> QED
    BY <1>2, <1>3 DEF W, WaitsFor_condvar, WithinPoints

(* Who leaves a queue is inside, who joins one is not. *)
Admits(q, r, c, x, h) ==
    /\ h \in Phil /\ WaitsFor_condvar(c)[h] = x /\ ~InNone(h, q, Sems_condvar)
    /\ Insiders(r, c) = Insiders(q, c) \cup {h}
    /\ \A o : InNone(o, q, Sems_condvar) => InNone(o, r, Sems_condvar)

LEMMA OneMoreInside ==
    ASSUME NEW v, NEW c, NEW r, NEW x, NEW h,
           Ring, Core_condvar(v, c), x \in Sems_condvar, Shorter(v.queue, r, x, h, Sems_condvar)
    PROVE  Admits(v.queue, r, c, x, h)
  <1>1. h \in In(v.queue[x]) /\ In(r[x]) = In(v.queue[x]) \ {h}
    BY DEF Shorter
  <1>2. h \in Phil /\ WaitsFor_condvar(c)[h] = x /\ Top(c, h) \in WithinPoints
    BY <1>1, QueuedWithin
  <1>3. ASSUME NEW z \in Sems_condvar PROVE In(r[z]) = IF z = x THEN In(v.queue[z]) \ {h} ELSE In(v.queue[z])
    BY <1>1 DEF Shorter
  <1>4. ASSUME NEW z \in Sems_condvar, h \in In(v.queue[z]) PROVE z = x
    BY <1>2, <1>4, QueuedWithin
  <1>5. InNone(h, r, Sems_condvar) /\ ~InNone(h, v.queue, Sems_condvar)
    BY <1>1, <1>3, <1>4 DEF InNone
  <1>6. ASSUME NEW o, o # h PROVE InNone(o, r, Sems_condvar) <=> InNone(o, v.queue, Sems_condvar)
    BY <1>3, <1>6 DEF InNone
  <1> QED
    BY <1>2, <1>5, <1>6 DEF Insiders, Admits

LEMMA OneLessInside ==
    ASSUME NEW q, NEW r, NEW c, NEW x, NEW p,
           x \in Sems_condvar, Longer(q, r, x, p, Sems_condvar)
    PROVE  Insiders(r, c) = Insiders(q, c) \ {p}
  <1>1. ASSUME NEW z \in Sems_condvar PROVE In(r[z]) = IF z = x THEN In(q[z]) \cup {p} ELSE In(q[z])
    BY DEF Longer
  <1>2. \A o : InNone(o, r, Sems_condvar) <=> InNone(o, q, Sems_condvar) /\ o # p
    BY <1>1 DEF InNone
  <1> QED
    BY <1>2 DEF Insiders

(* Another point for i, who is in no queue. *)
Shifts(q, c, d, i, at) ==
    /\ Top(d, i) = at
    /\ Insiders(q, d) = IF at \in WithinPoints THEN Insiders(q, c) \cup {i} ELSE Insiders(q, c) \ {i}
    /\ Signallers(d) = IF at = "signalled" THEN Signallers(c) \cup {i} ELSE Signallers(c) \ {i}
    /\ i \in Signallers(c) <=> Top(c, i) = "signalled"
    /\ i \in Insiders(q, c) <=> Top(c, i) \in WithinPoints

LEMMA MovedInsiders ==
    ASSUME NEW c, NEW i, NEW point, NEW q,
           c \in [Phil -> Stacks], i \in Phil, InNone(i, q, Sems_condvar)
    PROVE  Shifts(q, c, Moved(c, i, point), i, Head(point))
  <1> DEFINE d == Moved(c, i, point)
  <1>1. Top(d, i) = Head(point) /\ \A o \in Phil : o # i => Top(d, o) = Top(c, o)
    BY DEF Moved, Top
  <1> HIDE DEF d
  <1> QED
    BY <1>1 DEF Insiders, Signallers, Shifts, d

(* Who runs inside the monitor has it for himself. *)
LEMMA OwnerIsAlone ==
    ASSUME NEW v, NEW c, NEW i \in Phil,
           Ring, Core_condvar(v, c), Owned(v, c), v.k.cur = i, Top(c, i) \in WithinPoints
    PROVE  /\ v.value[next] = 0 /\ v.value[mutex] = 0 /\ Insiders(v.queue, c) = {i}
           /\ InNone(i, v.queue, Sems_condvar)
  <1>1. c \in [Phil -> Stacks] /\ c[i] \in Stacks
    BY DEF Core_condvar
  <1>2. InNone(i, v.queue, Sems_condvar)
    BY <1>1, MoveCore_condvar
  <1>3. i \in Insiders(v.queue, c)
    BY <1>2 DEF Insiders
  <1> QED
    BY <1>2, <1>3 DEF Owned

(* leave_monitor: to one who has signalled if there is one, and otherwise   *)
(* to one who is waiting to come in.                                       *)
LEMMA HandsOn ==
    ASSUME NEW v, NEW c, NEW i \in Phil,
           Ring, Core_condvar(v, c), Counts(v, c), Leaving(v, c, i),
           InNone(i, v.queue, Sems_condvar), Top(c, i) # "signalled"
    PROVE  /\ Counts(leave_monitor(v), c) /\ HasLeft(leave_monitor(v), c, i)
           /\ InNone(i, leave_monitor(v).queue, Sems_condvar)
  <1>1. mutex \in Sems_condvar /\ next \in Sems_condvar /\ mutex # next
    BY DEF Sems_condvar, Ring
  <1>2. ASSUME NEW u, NEW x \in {mutex, next}, u = up(v, x), x = next => v.queue[next] # << >>
        PROVE  Counts(u, c) /\ HasLeft(u, c, i) /\ InNone(i, u.queue, Sems_condvar)
    <2>1. Kept(v, u) /\ (Raised_condvar(v, u, x) \/ Handed_condvar(v, u, x))
      BY <1>1, <1>2, UpCore_condvar
    <2>2. Counts(u, c)
      BY <2>1 DEF Kept, Counts
    <2>3. CASE Raised_condvar(v, u, x)
      <3>1. x = mutex /\ u.queue = v.queue
        BY <1>2, <2>3 DEF Raised_condvar
      <3>2. u.value[mutex] = 1 /\ u.value[next] = 0
        BY <1>1, <2>3, <3>1 DEF Raised_condvar, Leaving
      <3> QED
        BY <2>2, <3>1, <3>2 DEF HasLeft, Leaving
    <2>4. CASE Handed_condvar(v, u, x)
      <3>1. PICK h : Shorter(v.queue, u.queue, x, h, Sems_condvar)
        BY <2>4 DEF Handed_condvar
      <3>2. /\ h \in Phil /\ ~InNone(h, v.queue, Sems_condvar)
            /\ Insiders(u.queue, c) = Insiders(v.queue, c) \cup {h}
            /\ InNone(i, u.queue, Sems_condvar)
        <4>1. Admits(v.queue, u.queue, c, x, h)
          BY <1>1, <1>2, <3>1, OneMoreInside
        <4> QED
          BY <4>1 DEF Admits
      <3>3. h # i /\ u.value = v.value
        BY <2>4, <3>2 DEF Handed_condvar
      <3>4. Insiders(u.queue, c) \ {i} = {h}
        BY <3>2, <3>3 DEF Leaving
      <3> QED
        BY <2>2, <3>2, <3>3, <3>4 DEF HasLeft, Leaving
    <2> QED
      BY <2>1, <2>3, <2>4
  <1>3. CASE v.next_count > 0
    <2>1. Signallers(c) # {}
      BY <1>3, FS_EmptySet DEF Counts
    <2>2. PICK s \in Phil : Top(c, s) = "signalled"
      BY <2>1 DEF Signallers
    <2>3. s \notin Insiders(v.queue, c)
      BY <2>2 DEF Leaving
    <2>4. PICK x \in Sems_condvar : s \in In(v.queue[x])
      BY <2>2, <2>3 DEF Insiders, WithinPoints, InNone
    <2>5. WaitsFor_condvar(c)[s] = x
      BY <2>4, QueuedWithin
    <2>6. x = next
      BY <2>2, <2>5 DEF WaitsFor_condvar
    <2>7. v.queue[next] # << >>
      BY <2>4, <2>6 DEF In
    <2> QED
      BY <1>2, <1>3, <2>7 DEF leave_monitor
  <1>4. CASE ~(v.next_count > 0)
    BY <1>1, <1>2, <1>4 DEF leave_monitor
  <1> QED
    BY <1>3, <1>4

-----------------------------------------------------------------------------
(* The steps of the monitor, as far as mutex, next and the queues go.      *)
Same(v, u) == u.queue = v.queue /\ u.value = v.value /\ u.next_count = v.next_count

(* Outside the monitor, or inside: a thread that stays on its side.        *)
LEMMA StaysOnItsSide ==
    ASSUME NEW v, NEW u, NEW c, NEW i \in Phil, NEW point, Same(v, u),
           c \in [Phil -> Stacks], InNone(i, v.queue, Sems_condvar), Monitor(v, c),
           Top(c, i) \in WithinPoints <=> Head(point) \in WithinPoints,
           Top(c, i) # "signalled", Head(point) # "signalled"
    PROVE  Monitor(u, Moved(c, i, point))
  <1> DEFINE d == Moved(c, i, point)
  <1>1. Shifts(v.queue, c, d, i, Head(point))
    BY MovedInsiders
  <1> HIDE DEF d
  <1>2. Insiders(v.queue, d) = Insiders(v.queue, c) /\ Signallers(d) = Signallers(c)
    BY <1>1 DEF Shifts
  <1> QED
    BY <1>2 DEF Same, Monitor, Counts, Owned, d

(* What CurrentFacts leaves out. *)
LEMMA RunnerIsNotQueued ==
    ASSUME NEW v, NEW c, NEW i \in Phil, Core_condvar(v, c), v.k.cur = i
    PROVE  InNone(i, v.queue, Sems_condvar) /\ c \in [Phil -> Stacks]
  <1>1. c \in [Phil -> Stacks] /\ c[i] \in Stacks
    BY DEF Core_condvar
  <1> QED
    BY <1>1, MoveCore_condvar

LEMMA ThinkMonitor ==
    ASSUME NEW i, Ring, Sound_condvar(y, pc), Monitor(y, pc), i \in Phil, think_condvar(i) \/ eat_condvar(i)
    PROVE  Monitor(y', pc')
  <1>1. PICK point : /\ point \in {<<"take">>, <<"quit">>, <<"full">>} /\ pc' = Moved(pc, i, point)
                     /\ \/ y' = Asleep(y, i, "WT_TIMER")
                        \/ y' = [y EXCEPT !.k = schedule([@ EXCEPT !.st[i] = "ZOMBIE"])]
    BY DEF think_condvar, eat_condvar, Goto_condvar, Moved
  <1>2. At_condvar(i, "start") \/ At_condvar(i, "eat")
    BY DEF think_condvar, eat_condvar
  <1>3. y.k.cur = i /\ Top(pc, i) \in {"start", "eat"} /\ y \in Systems_condvar /\ Core_condvar(y, pc)
    BY <1>2, CurrentFacts
  <1>4. Same(y, y')
    BY <1>1, <1>3 DEF Asleep, Systems_condvar, Same
  <1>5. Head(point) \in {"take", "quit", "full"}
    BY <1>1
  <1>6. InNone(i, y.queue, Sems_condvar) /\ pc \in [Phil -> Stacks]
    BY <1>3, RunnerIsNotQueued
  <1>7. Top(pc, i) \notin WithinPoints /\ Head(point) \notin WithinPoints
    BY <1>3, <1>5 DEF WithinPoints
  <1> QED
    BY <1>1, <1>3, <1>4, <1>5, <1>6, <1>7, StaysOnItsSide

(* down(mutex): the permit, or a place in its queue. *)
LEMMA MutexMonitor ==
    ASSUME NEW i, Ring, Sound_condvar(y, pc), Monitor(y, pc), i \in Phil, take_mutex_condvar(i) \/ put_mutex_condvar(i)
    PROVE  Monitor(y', pc')
  <1>1. PICK point : point \in {<<"hungry">>, <<"put">>} /\ pc' = Moved(pc, i, point) /\ y' = down(y, mutex)
    BY DEF take_mutex_condvar, put_mutex_condvar, Goto_condvar, Moved
  <1>2. At_condvar(i, "take") \/ At_condvar(i, "full")
    BY DEF take_mutex_condvar, put_mutex_condvar
  <1>3. y.k.cur = i /\ Top(pc, i) \in {"take", "full"} /\ Core_condvar(y, pc)
    BY <1>2, CurrentFacts
  <1>4. Head(point) \in {"hungry", "put"} /\ point \in Stacks
    BY <1>1 DEF Stacks
  <1>5. InNone(i, y.queue, Sems_condvar) /\ pc \in [Phil -> Stacks] /\ Core_condvar(y, pc')
    BY <1>1, <1>3, <1>4, RunnerIsNotQueued, MoveCore_condvar
  <1>6. /\ Top(pc', i) = Head(point) /\ Insiders(y.queue, pc') = Insiders(y.queue, pc) \cup {i}
        /\ Signallers(pc') = Signallers(pc) /\ i \notin Insiders(y.queue, pc)
    <2>1. Head(point) \in WithinPoints /\ Top(pc, i) \notin WithinPoints
      BY <1>3, <1>4 DEF WithinPoints
    <2>2. i \notin Signallers(pc) /\ Head(point) # "signalled"
      BY <1>3, <1>4 DEF Signallers
    <2>3. Shifts(y.queue, pc, pc', i, Head(point))
      BY <1>1, <1>5, MovedInsiders
    <2> QED
      BY <2>1, <2>2, <2>3 DEF Shifts
  <1>7. WaitsFor_condvar(pc')[i] = mutex /\ mutex \in Sems_condvar /\ mutex # next /\ next \in Sems_condvar
    BY <1>4, <1>6 DEF WaitsFor_condvar, Sems_condvar, Ring
  <1>8. /\ Kept(y, y')
        /\ Lowered_condvar(y, y', mutex) \/ Joined_condvar(y, y', mutex, i)
    BY <1>1, <1>3, <1>5, <1>7, DownCore_condvar
  <1>9. Counts(y', pc')
    BY <1>6, <1>8 DEF Monitor, Counts, Kept
  <1>10. CASE Lowered_condvar(y, y', mutex)
    <2>1. y'.queue = y.queue /\ y.value[mutex] = 1 /\ y'.value[mutex] = 0 /\ y'.value[next] = 0
      BY <1>7, <1>10 DEF Lowered_condvar, Monitor, Owned
    <2>2. Insiders(y'.queue, pc') = {i}
      BY <1>6, <2>1 DEF Monitor, Owned
    <2> QED
      BY <1>9, <2>1, <2>2 DEF Monitor, Owned
  <1>11. CASE Joined_condvar(y, y', mutex, i)
    <2>1. y'.value = y.value /\ y.value[mutex] = 0 /\ Longer(y.queue, y'.queue, mutex, i, Sems_condvar)
      BY <1>11 DEF Joined_condvar
    <2>2. Insiders(y'.queue, pc') = Insiders(y.queue, pc') \ {i}
      BY <1>7, <2>1, OneLessInside
    <2>3. Insiders(y'.queue, pc') = Insiders(y.queue, pc)
      BY <1>6, <2>2
    <2> QED
      BY <1>9, <2>1, <2>3 DEF Monitor, Owned
  <1> QED
    BY <1>8, <1>10, <1>11

(* cond_signal: the waiter has the monitor, and who signalled waits on next. *)
LEMMA SignalMonitor ==
    ASSUME NEW v, NEW c, NEW i \in Phil, NEW j \in Phil, NEW point \in Stacks,
           Ring, Core_condvar(v, c), Monitor(v, c), v.k.cur = i, Top(c, i) \in WithinPoints \ {"signalled"},
           Head(point) = "signalled", Queued(v, j)
    PROVE  Monitor(cond_signal(Served(v, j), j), Moved(c, i, point))
  <1> DEFINE d == Moved(c, i, point)
             s == [Served(v, j) EXCEPT !.next_count = @ + 1]
             u == up(s, j)
             z == down(u, next)
  <1>1. /\ v.value[next] = 0 /\ v.value[mutex] = 0 /\ Insiders(v.queue, c) = {i}
        /\ InNone(i, v.queue, Sems_condvar) /\ c \in [Phil -> Stacks] /\ v \in Systems_condvar
    BY OwnerIsAlone DEF Monitor, Core_condvar
  <1>2. Core_condvar(v, d)
    BY MoveCore_condvar
  <1>3. /\ Insiders(v.queue, d) = {i} /\ Signallers(d) = Signallers(c) \cup {i} /\ i \notin Signallers(c)
        /\ Top(d, i) = "signalled"
    <2>1. Head(point) \in WithinPoints
      BY DEF WithinPoints
    <2>2. Shifts(v.queue, c, d, i, Head(point))
      BY <1>1, MovedInsiders
    <2> HIDE DEF d
    <2> QED
      BY <1>1, <2>1, <2>2 DEF Shifts
  <1>4. Cardinality(Signallers(d)) = v.next_count + 1
    <2>1. IsFiniteSet(Signallers(c)) /\ Cardinality(Signallers(c)) = v.next_count
      BY SignallersFinite DEF Monitor, Counts
    <2>2. Cardinality(Signallers(c) \cup {i}) = Cardinality(Signallers(c)) + 1
      BY <1>3, <2>1, FS_AddElement
    <2> HIDE DEF d
    <2> QED
      BY <1>3, <2>1, <2>2
  <1>5. /\ s \in Systems_condvar /\ s.k = v.k /\ s.queue = v.queue /\ s.value = v.value
        /\ s.next_count = v.next_count + 1
    <2> DEFINE a == Served(v, j)
    <2>1. /\ a \in Systems_condvar /\ a.k = v.k /\ a.queue = v.queue /\ a.value = v.value
          /\ a.next_count = v.next_count
      BY <1>1 DEF Systems_condvar, Served, Moods
    <2> HIDE DEF a
    <2>2. a.next_count + 1 \in Int /\ s = [a EXCEPT !.next_count = a.next_count + 1]
      BY <2>1 DEF a, Systems_condvar
    <2> QED
      BY <2>1, <2>2 DEF Systems_condvar
  <1>6. cond_signal(Served(v, j), j) = z
    BY DEF cond_signal
  <1> HIDE DEF d, s
  <1>7. Core_condvar(s, d)
    BY <1>2, <1>5 DEF Core_condvar
  <1>8. j \in Sems_condvar /\ next \in Sems_condvar /\ mutex \in Sems_condvar /\ mutex # next
    BY DEF Sems_condvar, Ring
  <1>9. /\ Core_condvar(u, d) /\ u.k.cur = s.k.cur /\ Kept(s, u)
        /\ Raised_condvar(s, u, j) \/ Handed_condvar(s, u, j)
    BY <1>7, <1>8, UpCore_condvar
  <1> HIDE DEF u
  <1>10. ~Raised_condvar(s, u, j)
    BY <1>5 DEF Raised_condvar, Queued, In
  <1>11. PICK h : Shorter(s.queue, u.queue, j, h, Sems_condvar) /\ u.value = s.value
    BY <1>9, <1>10 DEF Handed_condvar
  <1>12. /\ Insiders(u.queue, d) = {i} \cup {h} /\ h \in Phil /\ ~InNone(h, s.queue, Sems_condvar)
         /\ InNone(i, u.queue, Sems_condvar)
    <2>1. Admits(s.queue, u.queue, d, j, h)
      BY <1>7, <1>8, <1>11, OneMoreInside
    <2> QED
      BY <1>1, <1>3, <1>5, <2>1 DEF Admits
  <1>13. h # i
    BY <1>1, <1>5, <1>12
  <1>14. WaitsFor_condvar(d)[i] = next
    BY <1>3 DEF WaitsFor_condvar
  <1>15. /\ Kept(u, z)
         /\ Lowered_condvar(u, z, next) \/ Joined_condvar(u, z, next, i)
    BY <1>5, <1>8, <1>9, <1>14, DownCore_condvar
  <1> HIDE DEF z
  <1>16. z.value = v.value /\ Longer(u.queue, z.queue, next, i, Sems_condvar)
    BY <1>1, <1>5, <1>11, <1>15 DEF Lowered_condvar, Joined_condvar
  <1>17. Insiders(z.queue, d) = {h}
    BY <1>8, <1>12, <1>13, <1>16, OneLessInside
  <1>18. Counts(z, d)
    BY <1>4, <1>5, <1>9, <1>15 DEF Kept, Counts
  <1> QED
    BY <1>1, <1>6, <1>12, <1>16, <1>17, <1>18 DEF Monitor, Owned, d

(* phi_test_condvar(j) by i, in a record v that differs from y in a mood.  *)
LEMMA TestMonitor ==
    ASSUME NEW i, NEW v, NEW j, NEW back,
           Ring, i \in Phil, j \in Phil, back \in {"tested", "right", "leave"},
           Sound_condvar(v, Moved(pc, i, <<back>>)), pc \in [Phil -> Stacks], Core_condvar(v, pc),
           Monitor(v, pc), v.k.cur = i, Top(pc, i) \in WithinPoints \ {"signalled"},
           v.count[i] = 0, back = "tested" => j = i,
           phi_test_condvar(i, v, j, back)
    PROVE  Monitor(y', pc')
  <1>1. Head(<<back>>) = back /\ back \in WithinPoints /\ back # "signalled"
    BY DEF WithinPoints
  <1>2. InNone(i, v.queue, Sems_condvar)
    BY RunnerIsNotQueued
  <1>3. CASE ~MayEat(v, j) \/ v.count[j] = 0
    <2>1. pc' = Moved(pc, i, <<back>>) /\ (y' = v \/ y' = Served(v, j))
      <3>1. v.count[j] = 0 => ~(v.count[j] > 0)
        OBVIOUS
      <3> QED
        BY <1>3, <3>1 DEF phi_test_condvar, Goto_condvar, Moved
    <2>2. Same(v, y')
      BY <2>1 DEF Same, Served, Core_condvar, Systems_condvar
    <2> QED
      BY <1>1, <1>2, <2>1, <2>2, StaysOnItsSide
  <1>4. CASE MayEat(v, j) /\ v.count[j] # 0
    <2>1. y' = cond_signal(Served(v, j), j) /\ pc' = Moved(pc, i, <<"signalled", back>>)
      BY <1>4 DEF phi_test_condvar, Goto_condvar, Moved
    <2>2. back \in {"right", "leave"}
      BY <1>4
    <2>3. <<"signalled", back>> \in Stacks /\ Head(<<"signalled", back>>) = "signalled"
      BY <2>2 DEF Stacks
    <2>4. Fits_condvar(v, Moved(pc, i, <<back>>), j) /\ v.state[j] = "HUNGRY"
      BY <1>4 DEF Sound_condvar, MayEat
    <2>5. Queued(v, j)
      BY <1>4, <2>4 DEF Fits_condvar
    <2> QED
      BY <2>1, <2>3, <2>5, SignalMonitor
  <1> QED
    BY <1>3, <1>4

(* The tests of oneself and of the two neighbours. *)
LEMMA TestsMonitor ==
    ASSUME NEW i, Ring, Sound_condvar(y, pc), Monitor(y, pc), i \in Phil,
           take_test_condvar(i) \/ put_left(i) \/ put_right(i)
    PROVE  Monitor(y', pc')
  <1>1. LEFT(i) \in Phil /\ RIGHT(i) \in Phil
    BY Circle DEF Ring
  <1>2. ASSUME NEW v, NEW point \in {"hungry", "put", "right"}, At_condvar(i, point),
               NEW j \in Phil, NEW back \in {"tested", "right", "leave"}, back = "tested" => j = i,
               Core_condvar(v, pc), Same(y, v), v.k = y.k, v.count = y.count,
               Sound_condvar(v, Moved(pc, i, <<back>>)), phi_test_condvar(i, v, j, back)
        PROVE  Monitor(y', pc')
    <2>1. y.k.cur = i /\ Top(pc, i) = point /\ pc \in [Phil -> Stacks] /\ y.count[i] = 0
      BY <1>2, CurrentFacts
    <2>2. Top(pc, i) \in WithinPoints \ {"signalled"}
      BY <1>2, <2>1 DEF WithinPoints
    <2>3. Monitor(v, pc)
      BY <1>2 DEF Same, Monitor, Counts, Owned
    <2> QED
      BY <1>2, <2>1, <2>2, <2>3, TestMonitor
  <1>3. CASE take_test_condvar(i)
    <2> DEFINE v == [y EXCEPT !.state[i] = "HUNGRY"]
    <2>1. At_condvar(i, "hungry") /\ phi_test_condvar(i, v, i, "tested")
      BY <1>3 DEF take_test_condvar
    <2>2. y.k.cur = i /\ Top(pc, i) = "hungry" /\ y.count[i] = 0 /\ y \in Systems_condvar
      BY <2>1, CurrentFacts
    <2>3. Sound_condvar(v, pc) /\ v.k = y.k /\ v.count = y.count
      BY <2>2, NewMoodSound_condvar
    <2>4. Same(y, v) /\ Core_condvar(v, pc)
      BY <2>2, <2>3 DEF Same, Systems_condvar, Sound_condvar
    <2>5. <<"tested">> \in Stacks /\ Head(<<"tested">>) = "tested" /\ v.state[i] = "HUNGRY"
      BY <2>2 DEF Stacks, Systems_condvar
    <2> HIDE DEF v
    <2>6. Sound_condvar(v, Moved(pc, i, <<"tested">>))
      BY <2>2, <2>3, <2>5, MovedSound_condvar
    <2> QED
      BY <1>2, <2>1, <2>3, <2>4, <2>6
  <1>4. CASE put_left(i)
    <2> DEFINE c == Moved(pc, i, <<"right">>)
               v == [y EXCEPT !.state[i] = "THINKING"]
    <2>1. At_condvar(i, "put") /\ phi_test_condvar(i, v, LEFT(i), "right")
      BY <1>4 DEF put_left
    <2>2. y.k.cur = i /\ y.count[i] = 0 /\ pc \in [Phil -> Stacks] /\ y \in Systems_condvar /\ Core_condvar(y, pc)
      BY <2>1, CurrentFacts
    <2>3. <<"right">> \in Stacks /\ Head(<<"right">>) = "right"
      BY DEF Stacks
    <2>4. Sound_condvar(y, c)
      BY <2>2, <2>3, MovedSound_condvar
    <2>5. Top(c, i) = "right"
      BY <2>2, <2>3 DEF Moved, Top
    <2> HIDE DEF c
    <2>6. Sound_condvar(v, c) /\ v.k = y.k /\ v.count = y.count
      BY <2>4, <2>5, NewMoodSound_condvar
    <2>7. Same(y, v) /\ v \in Systems_condvar
      BY <2>2, <2>6 DEF Same, Systems_condvar, Sound_condvar, Core_condvar
    <2> HIDE DEF v
    <2>8. Core_condvar(v, pc)
      BY <2>2, <2>6, <2>7 DEF Core_condvar, Same
    <2> QED
      BY <1>1, <1>2, <2>1, <2>6, <2>7, <2>8 DEF c
  <1>5. CASE put_right(i)
    <2>1. At_condvar(i, "right") /\ phi_test_condvar(i, y, RIGHT(i), "leave")
      BY <1>5 DEF put_right
    <2>2. y.k.cur = i /\ y.count[i] = 0 /\ Core_condvar(y, pc)
      BY <2>1, CurrentFacts
    <2>3. <<"leave">> \in Stacks /\ Head(<<"leave">>) = "leave"
      BY DEF Stacks
    <2>4. Sound_condvar(y, Moved(pc, i, <<"leave">>)) /\ Same(y, y)
      BY <2>2, <2>3, MovedSound_condvar DEF Same
    <2> QED
      BY <1>1, <1>2, <2>1, <2>2, <2>4
  <1> QED
    BY <1>3, <1>4, <1>5

(* Out of the monitor: i goes to a point outside, with the record v that    *)
(* cond_waited has left.                                                   *)
LEMMA LeaveMonitor ==
    ASSUME NEW i \in Phil, NEW v, NEW point \in Stacks,
           Ring, Core_condvar(y, pc), Monitor(y, pc), y.k.cur = i,
           Top(pc, i) \in WithinPoints \ {"signalled"}, Head(point) \notin WithinPoints,
           Same(y, v), Core_condvar(v, Moved(pc, i, point)),
           y' = leave_monitor(v), pc' = Moved(pc, i, point)
    PROVE  Monitor(y', pc')
  <1>1. /\ y.value[next] = 0 /\ y.value[mutex] = 0 /\ Insiders(y.queue, pc) = {i}
        /\ InNone(i, y.queue, Sems_condvar) /\ pc \in [Phil -> Stacks]
    BY OwnerIsAlone DEF Monitor, Core_condvar
  <1>2. Shifts(y.queue, pc, pc', i, Head(point))
    BY <1>1, MovedInsiders
  <1>3. /\ Insiders(y.queue, pc') = {} /\ Signallers(pc') = Signallers(pc)
        /\ Top(pc', i) \notin WithinPoints /\ Top(pc', i) # "signalled"
    BY <1>1, <1>2 DEF Shifts, WithinPoints
  <1>4. Leaving(v, pc', i) /\ Counts(v, pc') /\ InNone(i, v.queue, Sems_condvar)
    BY <1>1, <1>3 DEF Leaving, Monitor, Counts, Same
  <1>5. Core_condvar(v, pc')
    OBVIOUS
  <1>6. Counts(y', pc') /\ HasLeft(y', pc', i)
    BY <1>3, <1>4, <1>5, HandsOn
  <1>7. Insiders(y'.queue, pc') \ {i} = Insiders(y'.queue, pc')
    BY <1>3 DEF Insiders
  <1> QED
    BY <1>6, <1>7 DEF HasLeft, Monitor, Owned

LEMMA LeavesMonitor ==
    ASSUME NEW i, Ring, Sound_condvar(y, pc), Monitor(y, pc), i \in Phil,
           put_leave(i) \/ waited(i) \/ (take_forks_condvar(i) /\ y.state[i] # "HUNGRY")
    PROVE  Monitor(y', pc')
  <1>1. ASSUME NEW at \in {"leave", "waited", "tested"}, At_condvar(i, at)
        PROVE  /\ y.k.cur = i /\ Top(pc, i) = at /\ Core_condvar(y, pc) /\ y \in Systems_condvar
               /\ Top(pc, i) \in WithinPoints \ {"signalled"} /\ pc[i] \in Stacks
               /\ y.count[i] = IF at = "waited" THEN 1 ELSE 0
    BY <1>1, CurrentFacts DEF WithinPoints
  <1>2. CASE put_leave(i)
    <2>1. At_condvar(i, "leave") /\ y' = leave_monitor(y) /\ pc' = Moved(pc, i, <<"start">>)
      BY <1>2 DEF put_leave, Goto_condvar, Moved
    <2>2. <<"start">> \in Stacks /\ Head(<<"start">>) = "start" /\ "start" \notin WithinPoints /\ Same(y, y)
      BY DEF Stacks, WithinPoints, Same
    <2>3. Core_condvar(y, Moved(pc, i, <<"start">>))
      BY <1>1, <2>1, <2>2, MoveCore_condvar
    <2> QED
      BY <1>1, <2>1, <2>2, <2>3, LeaveMonitor
  <1>3. <<"eat">> \in Stacks /\ Head(<<"eat">>) = "eat" /\ "eat" \notin WithinPoints
    BY DEF Stacks, WithinPoints
  <1>4. CASE take_forks_condvar(i) /\ y.state[i] # "HUNGRY"
    <2>1. At_condvar(i, "tested") /\ y' = leave_monitor(y) /\ pc' = Moved(pc, i, <<"eat">>) /\ Same(y, y)
      BY <1>4 DEF take_forks_condvar, Goto_condvar, Moved, Same
    <2>2. Core_condvar(y, Moved(pc, i, <<"eat">>))
      BY <1>1, <1>3, <2>1, MoveCore_condvar
    <2> QED
      BY <1>1, <1>3, <2>1, <2>2, LeaveMonitor
  <1>5. CASE waited(i)
    <2> DEFINE v == cond_waited(y, i)
    <2>1. At_condvar(i, "waited") /\ y' = leave_monitor(v) /\ pc' = Moved(pc, i, Tail(pc[i]))
      BY <1>5 DEF waited, Goto_condvar, Moved
    <2>2. Tail(pc[i]) = <<"eat">>
      <3>1. pc[i] = <<"waited", "eat">>
        BY <1>1, <2>1 DEF Stacks, Top
      <3> QED
        BY <3>1
    <2>3. v = Counting(y, i, 0)
      <3>1. y \in Systems_condvar /\ y.count[i] - 1 = 0
        BY <1>1, <2>1
      <3> QED
        BY <3>1 DEF cond_waited, Counting, Systems_condvar
    <2>4. Same(y, v)
      BY <1>1, <2>1, <2>3 DEF Same, Counting, Systems_condvar
    <2>5. Core_condvar(y, Moved(pc, i, <<"eat">>))
      BY <1>1, <1>3, <2>1, MoveCore_condvar
    <2> HIDE DEF v
    <2>6. Core_condvar(v, Moved(pc, i, <<"eat">>))
      BY <2>3, <2>5, NewCount
    <2> QED
      BY <1>1, <1>3, <2>1, <2>2, <2>4, <2>6, LeaveMonitor
  <1> QED
    BY <1>2, <1>4, <1>5

(* cond_wait: i leaves the monitor and is in the queue of cv[i].           *)
LEMMA WaitMonitor ==
    ASSUME NEW i, Ring, Sound_condvar(y, pc), Monitor(y, pc), i \in Phil,
           take_forks_condvar(i), y.state[i] = "HUNGRY"
    PROVE  Monitor(y', pc')
  <1> DEFINE v == Counting(y, i, 1)
             l == leave_monitor(v)
  <1>1. At_condvar(i, "tested")
    BY DEF take_forks_condvar
  <1>2. /\ y.k.cur = i /\ y.count[i] = 0 /\ Top(pc, i) = "tested" /\ y \in Systems_condvar
        /\ Core_condvar(y, pc) /\ Fits_condvar(y, pc, i) /\ pc \in [Phil -> Stacks]
    BY <1>1, CurrentFacts
  <1>3. y' = down(l, i) /\ pc' = Moved(pc, i, <<"waited", "eat">>)
    <2>1. y' = cond_wait(y, i) /\ pc' = Moved(pc, i, <<"waited", "eat">>)
      BY DEF take_forks_condvar, Goto_condvar, Moved
    <2>2. [y EXCEPT !.count[i] = @ + 1] = v
      BY <1>2 DEF Counting, Systems_condvar
    <2> HIDE DEF v
    <2> QED
      BY <2>1, <2>2 DEF cond_wait
  <1>4. <<"waited", "eat">> \in Stacks /\ Head(<<"waited", "eat">>) = "waited"
    BY DEF Stacks
  <1>5. /\ y.value[next] = 0 /\ y.value[mutex] = 0 /\ Insiders(y.queue, pc) = {i}
        /\ InNone(i, y.queue, Sems_condvar)
    <2>1. Top(pc, i) \in WithinPoints
      BY <1>2 DEF WithinPoints
    <2> QED
      BY <1>2, <2>1, OwnerIsAlone DEF Monitor
  <1>6. Shifts(y.queue, pc, pc', i, "waited")
    BY <1>2, <1>3, <1>4, <1>5, MovedInsiders
  <1>7. /\ Insiders(y.queue, pc') = {i} /\ Signallers(pc') = Signallers(pc) /\ Top(pc', i) = "waited"
    BY <1>2, <1>5, <1>6 DEF Shifts, WithinPoints
  <1>8. Core_condvar(y, pc')
    BY <1>2, <1>3, <1>4, MoveCore_condvar
  <1>9. Core_condvar(v, pc') /\ CountIs(y, v, i, 1)
    BY <1>8, NewCount
  <1>10. Same(y, v)
    BY <1>2 DEF Same, Counting, Systems_condvar
  <1> HIDE DEF v
  <1>11. Leaving(v, pc', i) /\ Counts(v, pc') /\ InNone(i, v.queue, Sems_condvar) /\ Top(pc', i) # "signalled"
    BY <1>5, <1>7, <1>10 DEF Leaving, Monitor, Counts, Same
  <1>12. Counts(l, pc') /\ HasLeft(l, pc', i)
    BY <1>9, <1>11, HandsOn
  <1>13. Core_condvar(l, pc') /\ Alike_condvar(v, l) /\ l.k.cur = v.k.cur
    BY <1>9, LeaveShared
  <1> HIDE DEF l
  <1>14. l.k.cur = i /\ WaitsFor_condvar(pc')[i] = i /\ i \in Sems_condvar
    BY <1>2, <1>7, <1>9, <1>13 DEF WaitsFor_condvar, Sems_condvar, CountIs
  <1>15. /\ Kept(l, y')
         /\ Lowered_condvar(l, y', i) \/ Joined_condvar(l, y', i, i)
    BY <1>3, <1>13, <1>14, DownCore_condvar
  <1>16. l.value[i] = 0
    BY <1>2, <1>9, <1>13 DEF Alike_condvar, Fits_condvar, CountIs
  <1>17. y'.value = l.value /\ Longer(l.queue, y'.queue, i, i, Sems_condvar)
    BY <1>15, <1>16 DEF Lowered_condvar, Joined_condvar
  <1>18. Insiders(y'.queue, pc') = Insiders(l.queue, pc') \ {i}
    BY <1>14, <1>17, OneLessInside
  <1>19. Counts(y', pc')
    BY <1>12, <1>15 DEF Counts, Kept
  <1> QED
    BY <1>12, <1>17, <1>18, <1>19 DEF HasLeft, Monitor, Owned

(* The end of cond_signal. *)
LEMMA SignalledMonitor ==
    ASSUME NEW i, Ring, Sound_condvar(y, pc), Monitor(y, pc), i \in Phil, signalled(i)
    PROVE  Monitor(y', pc')
  <1>1. /\ At_condvar(i, "signalled") /\ y' = [y EXCEPT !.next_count = @ - 1]
        /\ pc' = Moved(pc, i, Tail(pc[i]))
    BY DEF signalled, cond_signalled, Goto_condvar, Moved
  <1>2. /\ y.k.cur = i /\ pc[i] \in Stacks /\ Top(pc, i) = "signalled" /\ y \in Systems_condvar
        /\ Core_condvar(y, pc) /\ pc \in [Phil -> Stacks]
    BY <1>1, CurrentFacts
  <1>3. Head(Tail(pc[i])) \in {"right", "leave"}
    <2>1. pc[i] = <<"signalled", "right">> \/ pc[i] = <<"signalled", "leave">>
      BY <1>2 DEF Stacks, Top
    <2>2. Tail(<<"signalled", "right">>) = <<"right">> /\ Tail(<<"signalled", "leave">>) = <<"leave">>
      OBVIOUS
    <2>3. Tail(pc[i]) = <<"right">> \/ Tail(pc[i]) = <<"leave">>
      BY <2>1, <2>2
    <2>4. Head(<<"right">>) = "right" /\ Head(<<"leave">>) = "leave"
      OBVIOUS
    <2> QED
      BY <2>3, <2>4
  <1>4. InNone(i, y.queue, Sems_condvar)
    BY <1>2, RunnerIsNotQueued
  <1>5. Shifts(y.queue, pc, pc', i, Head(Tail(pc[i])))
    BY <1>1, <1>2, <1>4, MovedInsiders
  <1>6. /\ Insiders(y.queue, pc') = Insiders(y.queue, pc) /\ Signallers(pc') = Signallers(pc) \ {i}
        /\ i \in Signallers(pc)
    <2>1. Head(Tail(pc[i])) \in WithinPoints /\ Head(Tail(pc[i])) # "signalled" /\ "signalled" \in WithinPoints
      BY <1>3 DEF WithinPoints
    <2> QED
      BY <1>2, <1>5, <2>1 DEF Shifts
  <1>7. Cardinality(Signallers(pc')) = Cardinality(Signallers(pc)) - 1
    BY <1>6, SignallersFinite, FS_RemoveElement
  <1>8. y'.queue = y.queue /\ y'.value = y.value /\ y'.next_count = y.next_count - 1
    BY <1>1, <1>2 DEF Systems_condvar
  <1> QED
    BY <1>6, <1>7, <1>8 DEF Monitor, Counts, Owned

(* Every step, and monitor_init. *)
LEMMA StepMonitor ==
    ASSUME Ring, Sound_condvar(y, pc), Monitor(y, pc), Step_condvar \/ \E i \in Phil : timer(i)
    PROVE  Monitor(y', pc')
  <1>1. ASSUME NEW i \in Phil, Thread_condvar(i) PROVE Monitor(y', pc')
    BY <1>1, ThinkMonitor, MutexMonitor, TestsMonitor, LeavesMonitor, WaitMonitor, SignalledMonitor DEF Thread_condvar
  <1>2. CASE cpu_idle \/ \E i \in Phil : timer(i)
    <2>1. y \in Systems_condvar
      BY DEF Sound_condvar, Core_condvar
    <2>2. Same(y, y') /\ pc' = pc
      BY <1>2, <2>1 DEF cpu_idle, timer, Systems_condvar, Same
    <2> QED
      BY <2>2 DEF Same, Monitor, Counts, Owned
  <1> QED
    BY <1>1, <1>2 DEF Step_condvar

LEMMA BeginMonitor == ASSUME Ring, Begin PROVE Monitor(y', pc')
  <1>1. mutex # next /\ mutex \in Sems_condvar /\ next \in Sems_condvar
    BY DEF Ring, Sems_condvar
  <1>2. y'.value[mutex] = 1 /\ y'.value[next] = 0 /\ y'.next_count = 0
    BY <1>1 DEF Begin
  <1>3. \A i \in Phil : Top(pc', i) = "start"
    BY DEF Begin, Top
  <1>4. Signallers(pc') = {} /\ Insiders(y'.queue, pc') = {}
    BY <1>3 DEF Signallers, Insiders, WithinPoints
  <1> QED
    BY <1>2, <1>4, FS_EmptySet DEF Monitor, Counts, Owned

(* What it says in the words of CheckSync. *)
LEMMA MonitorMeans ==
    ASSUME Ring, Sound_condvar(y, pc), Monitor(y, pc)
    PROVE  OneInMonitor /\ Counted_condvar
  <1>1. ASSUME NEW i \in Phil PROVE Inside(i) <=> i \in Insiders(y.queue, pc)
    <2>1. ASSUME NEW x \in Sems_condvar PROVE ToSet(y.queue[x]) = In(y.queue[x])
      <3>1. y.queue[x] \in Seq(Phil)
        BY DEF Sound_condvar, Core_condvar, Systems_condvar
      <3> QED
        BY <3>1, InIsToSet
    <2>2. Blocked(i) <=> ~InNone(i, y.queue, Sems_condvar)
      BY <2>1 DEF Blocked, InNone
    <2> QED
      BY <2>2 DEF Inside, Insiders, WithinPoints, Top
  <1>2. {i \in Phil : Inside(i)} = Insiders(y.queue, pc)
    BY <1>1 DEF Insiders
  <1>3. OneInMonitor
    <2>1. CASE y.value[mutex] = 1 /\ Insiders(y.queue, pc) = {}
      BY <1>2, <2>1, FS_EmptySet DEF OneInMonitor
    <2>2. ASSUME y.value[mutex] = 0, NEW h \in Phil, Insiders(y.queue, pc) = {h} PROVE OneInMonitor
      <3>1. Cardinality({h}) = 1
        BY FS_Singleton
      <3> QED
        BY <1>2, <2>2, <3>1 DEF OneInMonitor
    <2> QED
      BY <2>1, <2>2 DEF Monitor, Owned
  <1>4. Counted_condvar
    <2>1. \A i \in Phil : Fits_condvar(y, pc, i)
      BY DEF Sound_condvar
    <2>2. \A x \in Sems_condvar \ {mutex} : y.value[x] = 0
      BY <2>1 DEF Sems_condvar, Fits_condvar, Monitor, Owned
    <2>3. y.next_count = Cardinality({i \in Phil : Head(pc[i]) = "signalled"})
      BY DEF Monitor, Counts, Signallers, Top
    <2> QED
      BY <2>1, <2>2, <2>3 DEF Counted_condvar, Fits_condvar, Top
  <1> QED
    BY <1>3, <1>4

-----------------------------------------------------------------------------
DM == INSTANCE Dining WITH Meals <- TIMES, mood <- y.state, round <- iter, course <- 2

Rounds_condvar(c, r) ==
    /\ TIMES \in Nat \ {0} /\ r \in [Phil -> Nat]
    /\ \A i \in Phil : /\ r[i] <= TIMES
                       /\ Top(c, i) # "start" => r[i] > 0
                       /\ Top(c, i) = "quit" => r[i] = TIMES

(* Where a philosopher neither wants the forks nor has them. *)
Apart == {"start", "take", "hungry", "right", "leave", "signalled", "quit"}

Calm(v, c) == \A i \in Phil : Top(c, i) \in Apart => v.state[i] = "THINKING"

Dines_condvar ==
    (\E i \in Phil : DM!Think(i) \/ DM!Hunger(i) \/ DM!Serve(i) \/ DM!GetUp(i))
    \/ UNCHANGED <<y.state, iter>>

(* LEFT and RIGHT are the neighbours of Dining. *)
LEMMA Neighbourhood ==
    ASSUME NEW i \in Phil, Ring PROVE DM!Neighbours(i) = {LEFT(i), RIGHT(i)}
  <1>1. i + N - 1 = i - 1 + N
    BY DEF Ring, Phil
  <1> QED
    BY <1>1 DEF DM!Neighbours, LEFT, RIGHT

(* The invariant allows only moods that Dining does. *)
LEMMA SoundIsExclusive_condvar ==
    ASSUME NEW v, NEW c, Ring, Sound_condvar(v, c) PROVE DM!Exclusive(v.state)
  <1>1. ASSUME NEW i \in Phil, v.state[i] = "EATING"
        PROVE  v.state[RIGHT(i)] # "EATING" /\ v.state[LEFT(i)] # "EATING"
    <2>1. LEFT(i) \in Phil /\ RIGHT(LEFT(i)) = i
      BY Circle DEF Ring
    <2>2. Fits_condvar(v, c, i) /\ Fits_condvar(v, c, LEFT(i))
      BY <2>1 DEF Sound_condvar
    <2> QED
      BY <1>1, <2>1, <2>2 DEF Fits_condvar
  <1> QED
    BY <1>1, Neighbourhood DEF DM!Exclusive, DM!Phil, Phil

(* A system has a field state. *)
LEMMA SystemsHaveState_condvar ==
    ASSUME NEW v \in Systems_condvar PROVE HasState(v) /\ v.state \in [Phil -> Moods]
  BY DEF Systems_condvar, HasState

(* Nobody but j, and he only from HUNGRY to EATING. *)
LEMMA TestMoods_condvar ==
    ASSUME NEW i, NEW v, NEW j, NEW back, HasState(v), phi_test_condvar(i, v, j, back)
    PROVE  Tested(v, y', j)
  <1> DEFINE s == Served(v, j)
  <1>1. HasState(s) /\ s.state = [v.state EXCEPT ![j] = "EATING"]
    BY DEF HasState, Served
  <1>2. y' = v \/ (v.state[j] = "HUNGRY" /\ (y' = s \/ y' = cond_signal(s, j)))
    BY DEF phi_test_condvar, MayEat
  <1> HIDE DEF s
  <1>3. Untouched(s, cond_signal(s, j))
    BY <1>1, MonitorUntouched
  <1> QED
    BY <1>1, <1>2, <1>3 DEF Tested, Untouched

(* i sets his own mood. *)
LEMMA OwnMood_condvar ==
    ASSUME NEW i \in Phil, NEW mood, y \in Systems_condvar
    PROVE  HasState([y EXCEPT !.state[i] = mood])
           /\ [y EXCEPT !.state[i] = mood].state = [y.state EXCEPT ![i] = mood]
  BY DEF Systems_condvar, HasState

(* The steps without a test. *)
Quiet(i) ==
    \/ think_condvar(i) \/ take_mutex_condvar(i) \/ take_forks_condvar(i) \/ waited(i)
    \/ eat_condvar(i) \/ put_mutex_condvar(i)
    \/ put_leave(i) \/ signalled(i)

(* They change no mood. *)
LEMMA QuietMoods_condvar ==
    ASSUME y \in Systems_condvar, NEW i \in Phil, Quiet(i) \/ timer(i) \/ cpu_idle
    PROVE  y'.state = y.state
  <1>1. HasState(y)
    BY SystemsHaveState_condvar
  <1>2. CASE take_mutex_condvar(i) \/ put_mutex_condvar(i)
    <2>1. y' = down(y, mutex)
      BY <1>2 DEF take_mutex_condvar, put_mutex_condvar
    <2> QED
      BY <1>1, <2>1, DownUntouched DEF Untouched
  <1>3. CASE take_forks_condvar(i) \/ put_leave(i) \/ signalled(i)
    <2>1. y' = cond_wait(y, i) \/ y' = leave_monitor(y) \/ y' = cond_signalled(y)
      BY <1>3 DEF take_forks_condvar, put_leave, signalled
    <2> QED
      BY <1>1, <2>1, MonitorUntouched DEF Untouched
  <1>4. CASE waited(i)
    <2> DEFINE v == cond_waited(y, i)
    <2>1. y' = leave_monitor(v)
      BY <1>4 DEF waited
    <2>2. Untouched(y, v)
      BY <1>1, MonitorUntouched
    <2> HIDE DEF v
    <2>3. Untouched(v, leave_monitor(v))
      BY <2>2, MonitorUntouched DEF Untouched
    <2> QED
      BY <2>1, <2>2, <2>3 DEF Untouched
  <1>5. CASE think_condvar(i) \/ eat_condvar(i) \/ timer(i) \/ cpu_idle
    <2>1. PICK k : y' = [y EXCEPT !.k = k]
      <3>1. CASE think_condvar(i)
        BY <3>1 DEF think_condvar, Asleep
      <3>2. CASE eat_condvar(i)
        BY <3>2 DEF eat_condvar, Asleep
      <3>3. CASE timer(i) \/ cpu_idle
        BY <3>3 DEF timer, cpu_idle
      <3> QED
        BY <1>5, <3>1, <3>2, <3>3
    <2> QED
      BY <2>1 DEF Systems_condvar
  <1> QED
    BY <1>2, <1>3, <1>4, <1>5 DEF Quiet

(* Where a step without a test leads. *)
Leads(i, s) ==
    /\ pc' = [pc EXCEPT ![i] = s]
    /\ Head(s) \in Apart => Top(pc, i) \in Apart
    /\ Head(s) = "quit" => iter' = iter /\ iter[i] = TIMES
    /\ Head(s) # "start" => iter'[i] > 0

(* To a point whose promise about the rounds holds. *)
LEMMA QuietStacks ==
    ASSUME NEW i \in Phil, Sound_condvar(y, pc), Rounds_condvar(pc, iter), Quiet(i)
    PROVE  \E s : Leads(i, s)
  <1>1. /\ pc[i] \in Stacks /\ pc \in [Phil -> Stacks] /\ TIMES \in Nat \ {0} /\ iter \in [Phil -> Nat]
        /\ iter[i] <= TIMES
        /\ Top(pc, i) # "start" => iter[i] > 0
    BY DEF Sound_condvar, Core_condvar, Rounds_condvar
  <1>2. CASE think_condvar(i)
    <2>1. Top(pc, i) = "start" /\ Head(<<"take">>) = "take" /\ Head(<<"quit">>) = "quit"
      BY <1>2 DEF think_condvar, At_condvar, Top
    <2>2. CASE iter[i] < TIMES
      <3>1. Leads(i, <<"take">>)
        BY <1>1, <1>2, <2>1, <2>2 DEF think_condvar, Goto_condvar, Apart, Leads
      <3> QED
        BY <3>1
    <2>3. CASE ~(iter[i] < TIMES)
      <3>1. Leads(i, <<"quit">>)
        BY <1>1, <1>2, <2>1, <2>3 DEF think_condvar, Goto_condvar, Apart, Leads
      <3> QED
        BY <3>1
    <2> QED
      BY <2>2, <2>3
  <1>3. CASE take_mutex_condvar(i) \/ take_forks_condvar(i) \/ eat_condvar(i) \/ put_mutex_condvar(i) \/ put_leave(i)
    <2>1. /\ Head(<<"hungry">>) = "hungry" /\ Head(<<"eat">>) = "eat" /\ Head(<<"full">>) = "full"
          /\ Head(<<"put">>) = "put" /\ Head(<<"start">>) = "start" /\ Head(<<"waited", "eat">>) = "waited"
      OBVIOUS
    <2>2. CASE take_mutex_condvar(i)
      <3>1. Leads(i, <<"hungry">>)
        BY <1>1, <2>1, <2>2 DEF take_mutex_condvar, Goto_condvar, At_condvar, Top, Apart, Leads
      <3> QED
        BY <3>1
    <2>3. CASE take_forks_condvar(i)
      <3>1. Leads(i, <<"waited", "eat">>) \/ Leads(i, <<"eat">>)
        BY <1>1, <2>1, <2>3 DEF take_forks_condvar, Goto_condvar, At_condvar, Top, Apart, Leads
      <3> QED
        BY <3>1
    <2>4. CASE eat_condvar(i) \/ put_mutex_condvar(i)
      <3>1. Leads(i, <<"full">>) \/ Leads(i, <<"put">>)
        BY <1>1, <2>1, <2>4 DEF eat_condvar, put_mutex_condvar, Goto_condvar, At_condvar, Top, Apart, Leads
      <3> QED
        BY <3>1
    <2>5. CASE put_leave(i)
      <3>1. Leads(i, <<"start">>)
        BY <1>1, <2>1, <2>5 DEF put_leave, Goto_condvar, At_condvar, Top, Apart, Leads
      <3> QED
        BY <3>1
    <2> QED
      BY <1>3, <2>2, <2>3, <2>4, <2>5
  <1>4. CASE waited(i)
    <2>1. Top(pc, i) = "waited" /\ pc' = [pc EXCEPT ![i] = Tail(pc[i])] /\ iter' = iter
      BY <1>4 DEF waited, Goto_condvar, At_condvar, Top
    <2>2. pc[i] = <<"waited", "eat">>
      BY <1>1, <2>1 DEF Stacks, Top
    <2>3. Tail(<<"waited", "eat">>) = <<"eat">> /\ Head(<<"eat">>) = "eat"
      OBVIOUS
    <2>4. Head(Tail(pc[i])) = "eat"
      BY <2>2, <2>3
    <2>5. Leads(i, Tail(pc[i]))
      BY <1>1, <2>1, <2>4 DEF Apart, Leads
    <2> QED
      BY <2>5
  <1>5. CASE signalled(i)
    <2>1. Top(pc, i) = "signalled" /\ pc' = [pc EXCEPT ![i] = Tail(pc[i])] /\ iter' = iter
      BY <1>5 DEF signalled, Goto_condvar, At_condvar, Top
    <2>2. pc[i] = <<"signalled", "right">> \/ pc[i] = <<"signalled", "leave">>
      BY <1>1, <2>1 DEF Stacks, Top
    <2>3. /\ Tail(<<"signalled", "right">>) = <<"right">> /\ Tail(<<"signalled", "leave">>) = <<"leave">>
          /\ Head(<<"right">>) = "right" /\ Head(<<"leave">>) = "leave"
      OBVIOUS
    <2>4. Head(Tail(pc[i])) \in {"right", "leave"}
      BY <2>2, <2>3
    <2>5. Leads(i, Tail(pc[i]))
      BY <1>1, <2>1, <2>4 DEF Apart, Leads
    <2> QED
      BY <2>5
  <1> QED
    BY <1>2, <1>3, <1>4, <1>5 DEF Quiet

(* Such a step at the table. *)
LEMMA QuietDines ==
    ASSUME NEW i \in Phil, Sound_condvar(y, pc), Rounds_condvar(pc, iter), Calm(y, pc), Quiet(i)
    PROVE  Dines_condvar /\ Rounds_condvar(pc', iter') /\ Calm(y', pc')
  <1>1. /\ y \in Systems_condvar /\ pc \in [Phil -> Stacks] /\ TIMES \in Nat \ {0} /\ iter \in [Phil -> Nat]
        /\ iter[i] <= TIMES
    BY DEF Sound_condvar, Core_condvar, Rounds_condvar
  <1>2. y'.state = y.state
    BY <1>1, QuietMoods_condvar
  <1>3. PICK s : Leads(i, s)
    BY QuietStacks
  <1>4. Top(pc', i) = Head(s) /\ \A o \in Phil : o # i => Top(pc', o) = Top(pc, o)
    BY <1>1, <1>3 DEF Leads, Top
  <1>5. iter' = iter \/ (/\ iter[i] < TIMES /\ iter' = [iter EXCEPT ![i] = @ + 1]
                         /\ Top(pc, i) = "start")
    BY DEF Quiet, think_condvar, take_mutex_condvar, take_forks_condvar, waited, eat_condvar,
           put_mutex_condvar, put_leave, signalled, At_condvar, Top
  <1>6. Calm(y', pc')
    BY <1>2, <1>3, <1>4 DEF Calm, Leads
  <1>7. Rounds_condvar(pc', iter')
    <2>1. /\ iter' \in [Phil -> Nat] /\ iter'[i] <= TIMES
          /\ \A o \in Phil : o # i => iter'[o] = iter[o]
      BY <1>1, <1>5
    <2>2. /\ Top(pc', i) = "quit" => iter'[i] = TIMES
          /\ Top(pc', i) # "start" => iter'[i] > 0
      BY <1>3, <1>4 DEF Leads
    <2>3. ASSUME NEW o \in Phil
          PROVE  /\ iter'[o] <= TIMES
                 /\ Top(pc', o) # "start" => iter'[o] > 0
                 /\ Top(pc', o) = "quit" => iter'[o] = TIMES
      <3>1. CASE o = i
        BY <2>1, <2>2, <3>1
      <3>2. CASE o # i
        BY <1>4, <2>1, <3>2 DEF Rounds_condvar
      <3> QED
        BY <3>1, <3>2
    <2> QED
      BY <1>1, <2>1, <2>3 DEF Rounds_condvar
  <1>8. Dines_condvar
    BY <1>2, <1>5 DEF Dines_condvar, DM!Think, Calm, Apart
  <1> QED
    BY <1>6, <1>7, <1>8

(* A step with a test: i comes to back, or is in cond_signal below it, and *)
(* iter stays.                                                             *)
LEMMA TestStacks ==
    ASSUME NEW i \in Phil, NEW v, NEW j, NEW back, pc \in [Phil -> Stacks],
           phi_test_condvar(i, v, j, back), back \in {"tested", "right", "leave"},
           back = "tested" => v.count[j] = 0
    PROVE  /\ Top(pc', i) \in IF back = "tested" THEN {"tested"} ELSE {"right", "leave", "signalled"}
           /\ \A o \in Phil : o # i => Top(pc', o) = Top(pc, o)
  <1>1. pc' = [pc EXCEPT ![i] = <<back>>]
        \/ (back # "tested" /\ pc' = [pc EXCEPT ![i] = <<"signalled", back>>])
    BY DEF phi_test_condvar, Goto_condvar
  <1>2. Head(<<back>>) = back /\ Head(<<"signalled", back>>) = "signalled"
    OBVIOUS
  <1> QED
    BY <1>1, <1>2 DEF Top

(* It counts nothing. *)
LEMMA TestRounds ==
    ASSUME NEW i \in Phil, Rounds_condvar(pc, iter), iter' = iter, Top(pc, i) # "start",
           Top(pc', i) # "quit", \A o \in Phil : o # i => Top(pc', o) = Top(pc, o)
    PROVE  Rounds_condvar(pc', iter')
  BY DEF Rounds_condvar

(* The test of oneself: hungry, or eating at once. *)
LEMMA TakeTestDines_condvar ==
    ASSUME NEW i \in Phil, Ring, Sound_condvar(y, pc), Rounds_condvar(pc, iter), Calm(y, pc), take_test_condvar(i)
    PROVE  Dines_condvar /\ Rounds_condvar(pc', iter') /\ Calm(y', pc')
  <1> DEFINE v == [y EXCEPT !.state[i] = "HUNGRY"]
  <1>1. /\ At_condvar(i, "hungry") /\ phi_test_condvar(i, v, i, "tested") /\ iter' = iter
    BY DEF take_test_condvar
  <1>2. /\ y \in Systems_condvar /\ pc \in [Phil -> Stacks] /\ Top(pc, i) = "hungry" /\ y.count[i] = 0
    BY <1>1, CurrentFacts
  <1>3. HasState(v) /\ v.state = [y.state EXCEPT ![i] = "HUNGRY"] /\ y.state \in [Phil -> Moods]
    BY <1>2, OwnMood_condvar, SystemsHaveState_condvar
  <1>4. v.count[i] = 0
    BY <1>2 DEF Systems_condvar
  <1> HIDE DEF v
  <1>5. Tested(v, y', i)
    BY <1>1, <1>3, TestMoods_condvar
  <1>6. Top(pc', i) = "tested" /\ \A o \in Phil : o # i => Top(pc', o) = Top(pc, o)
    BY <1>1, <1>2, <1>4, TestStacks
  <1>7. y'.state = [y.state EXCEPT ![i] = "HUNGRY"] \/ y'.state = [y.state EXCEPT ![i] = "EATING"]
    BY <1>3, <1>5 DEF Tested
  <1>8. Dines_condvar
    BY <1>1, <1>2, <1>7 DEF Dines_condvar, DM!Hunger, Calm, Apart, Rounds_condvar
  <1>9. Calm(y', pc')
    BY <1>3, <1>6, <1>7 DEF Calm, Apart
  <1> QED
    BY <1>1, <1>2, <1>6, <1>8, <1>9, TestRounds

(* One gets up, and the left neighbour may be served. *)
LEMMA PutLeftDines ==
    ASSUME NEW i \in Phil, Ring, Sound_condvar(y, pc), Rounds_condvar(pc, iter), Calm(y, pc), put_left(i)
    PROVE  Dines_condvar /\ Rounds_condvar(pc', iter') /\ Calm(y', pc')
  <1> DEFINE v == [y EXCEPT !.state[i] = "THINKING"]
             l == LEFT(i)
  <1>1. /\ At_condvar(i, "put") /\ phi_test_condvar(i, v, l, "right") /\ iter' = iter
    BY DEF put_left
  <1>2. /\ y \in Systems_condvar /\ pc \in [Phil -> Stacks] /\ Top(pc, i) = "put" /\ Fits_condvar(y, pc, i)
    BY <1>1, CurrentFacts
  <1>3. HasState(v) /\ v.state = [y.state EXCEPT ![i] = "THINKING"] /\ y.state \in [Phil -> Moods]
    BY <1>2, OwnMood_condvar, SystemsHaveState_condvar
  <1> HIDE DEF v
  <1>4. Tested(v, y', l)
    BY <1>1, <1>3, TestMoods_condvar
  <1>5. /\ Top(pc', i) \in {"right", "leave", "signalled"}
        /\ \A o \in Phil : o # i => Top(pc', o) = Top(pc, o)
    BY <1>1, <1>2, TestStacks
  <1>6. l \in Phil /\ l # i /\ l \in DM!Neighbours(i)
    BY Circle, Neighbourhood DEF Ring
  <1>7. y.state[i] = "EATING"
    BY <1>2 DEF Fits_condvar
  <1> HIDE DEF l
  <1> DEFINE served == IF y'.state = v.state THEN {} ELSE {l}
  <1>8. served \in SUBSET {j \in DM!Neighbours(i) : y.state[j] = "HUNGRY"}
    BY <1>3, <1>4, <1>6 DEF Tested
  <1>9. y'.state = [j \in Phil |-> IF j = i THEN "THINKING"
                                  ELSE IF j \in served THEN "EATING" ELSE y.state[j]]
    BY <1>3, <1>4, <1>6 DEF Tested
  <1>10. Dines_condvar
    <2> HIDE DEF served
    <2> QED
      BY <1>1, <1>7, <1>8, <1>9 DEF Dines_condvar, DM!GetUp, DM!Phil, Phil
  <1>11. Calm(y', pc')
    BY <1>3, <1>4, <1>5, <1>6 DEF Calm, Apart, Tested
  <1> QED
    BY <1>1, <1>2, <1>5, <1>10, <1>11, TestRounds

(* The right neighbour may be served, some time later. *)
LEMMA PutRightDines ==
    ASSUME NEW i \in Phil, Ring, Sound_condvar(y, pc), Rounds_condvar(pc, iter), Calm(y, pc), put_right(i)
    PROVE  Dines_condvar /\ Rounds_condvar(pc', iter') /\ Calm(y', pc')
  <1> DEFINE r == RIGHT(i)
  <1>1. /\ At_condvar(i, "right") /\ phi_test_condvar(i, y, r, "leave") /\ iter' = iter
    BY DEF put_right
  <1>2. /\ y \in Systems_condvar /\ pc \in [Phil -> Stacks] /\ Top(pc, i) = "right"
    BY <1>1, CurrentFacts
  <1>3. HasState(y) /\ y.state \in [Phil -> Moods]
    BY <1>2, SystemsHaveState_condvar
  <1>4. Tested(y, y', r)
    BY <1>1, <1>3, TestMoods_condvar
  <1>5. /\ Top(pc', i) \in {"right", "leave", "signalled"}
        /\ \A o \in Phil : o # i => Top(pc', o) = Top(pc, o)
    BY <1>1, <1>2, TestStacks
  <1>6. r \in Phil /\ r # i
    BY Circle DEF Ring
  <1>7. y.state[i] = "THINKING"
    BY <1>2 DEF Calm, Apart
  <1> HIDE DEF r
  <1>8. Dines_condvar
    BY <1>1, <1>4, <1>6 DEF Dines_condvar, DM!Serve, Tested
  <1>9. Calm(y', pc')
    BY <1>3, <1>4, <1>5, <1>6, <1>7 DEF Calm, Apart, Tested
  <1> QED
    BY <1>1, <1>2, <1>5, <1>8, <1>9, TestRounds

(* Every step of the system at the table. *)
LEMMA StepDines_condvar ==
    ASSUME Ring, Sound_condvar(y, pc), Rounds_condvar(pc, iter), Calm(y, pc), Step_condvar \/ \E i \in Phil : timer(i)
    PROVE  Dines_condvar /\ Rounds_condvar(pc', iter') /\ Calm(y', pc')
  <1>1. y \in Systems_condvar /\ 0 \in Phil
    BY DEF Sound_condvar, Core_condvar, Ring, Phil
  <1>2. ASSUME NEW i \in Phil, timer(i) \/ cpu_idle
        PROVE  Dines_condvar /\ Rounds_condvar(pc', iter') /\ Calm(y', pc')
    <2>1. y'.state = y.state /\ iter' = iter /\ pc' = pc
      BY <1>1, <1>2, QuietMoods_condvar DEF timer, cpu_idle
    <2> QED
      BY <2>1 DEF Dines_condvar, Rounds_condvar, Calm
  <1>3. ASSUME NEW i \in Phil, Thread_condvar(i) PROVE Dines_condvar /\ Rounds_condvar(pc', iter') /\ Calm(y', pc')
    BY <1>3, QuietDines, TakeTestDines_condvar, PutLeftDines, PutRightDines DEF Thread_condvar, Quiet
  <1> QED
    BY <1>1, <1>2, <1>3 DEF Step_condvar

(* The table is laid again. *)
LEMMA BeginDines ==
    ASSUME TIMES \in Nat \ {0}, Begin
    PROVE  /\ Rounds_condvar(pc', iter') /\ Calm(y', pc')
           /\ y'.state = [i \in Phil |-> "THINKING"] /\ iter' = [i \in Phil |-> 0]
  <1>1. \A i \in Phil : Top(pc', i) = "start"
    <2>1. Head(<<"start">>) = "start" /\ pc' = [i \in Phil |-> <<"start">>]
      BY DEF Begin
    <2> QED
      BY <2>1 DEF Top
  <1>2. y'.state = [i \in Phil |-> "THINKING"] /\ iter' = [i \in Phil |-> 0]
    BY DEF Begin
  <1> QED
    BY <1>1, <1>2 DEF Rounds_condvar, Calm

-----------------------------------------------------------------------------
(* The invariant of check_sync: that of the half which runs. *)
IInv ==
    \/ half = "semaphore" /\ Sound_sema(y, pc, {})
    \/ half = "condvar" /\ Sound_condvar(y, pc)

(* check_sync starts with the semaphores. *)
LEMMA Initially == Init => IInv
  BY IsRing, InitSound DEF Init, IInv

(* The second half starts afresh, a timer belongs to the half that runs. *)
LEMMA StepKeeps == IInv /\ [Next]_vars => IInv'
  <1> SUFFICES ASSUME IInv, [Next]_vars PROVE IInv'
    OBVIOUS
  <1>1. CASE semaphore_step \/ condvar_step \/ \E i \in Phil : timer(i)
    <2>1. CASE half = "semaphore"
      <3>1. Sound_sema(y, pc, {}) /\ half' = "semaphore"
        BY <1>1, <2>1 DEF IInv, semaphore_step, condvar_step, timer
      <3>2. Step_sema \/ \E i \in Phil : timer(i)
        BY <1>1, <2>1 DEF semaphore_step, condvar_step
      <3> QED
        BY <3>1, <3>2, IsRing, StepSound_sema DEF IInv
    <2>2. CASE half = "condvar"
      <3>1. Sound_condvar(y, pc) /\ half' = "condvar"
        BY <1>1, <2>2 DEF IInv, semaphore_step, condvar_step, timer
      <3>2. Step_condvar \/ \E i \in Phil : timer(i)
        BY <1>1, <2>2 DEF semaphore_step, condvar_step
      <3> QED
        BY <3>1, <3>2, IsRing, StepSound_condvar DEF IInv
    <2> QED
      BY <2>1, <2>2 DEF IInv
  <1>2. CASE check_condvar
    BY <1>2, IsRing, BeginSound DEF check_condvar, IInv
  <1>3. CASE UNCHANGED vars
    BY <1>3 DEF vars, IInv, Sound_sema, Sound_condvar
  <1> QED
    BY <1>1, <1>2, <1>3 DEF Next, Kernel_step, check_sync_done

(* What the invariants say, in the words of CheckSync. *)
LEMMA Safe == IInv => NeighboursDoNotEat /\ NobodyForgotten /\ WokenMayEat
  <1>1. ASSUME IInv, half = "semaphore"
        PROVE  NeighboursDoNotEat_sema /\ NobodyForgotten_sema
    BY <1>1, IsRing, SoundMeans_sema DEF IInv
  <1>2. ASSUME IInv, half # "semaphore"
        PROVE  half = "condvar" /\ NeighboursDoNotEat_condvar /\ WokenMayEat_condvar
    BY <1>2, IsRing, SoundMeans_condvar DEF IInv
  <1> QED
    BY <1>1, <1>2 DEF NeighboursDoNotEat, NobodyForgotten, WokenMayEat

(* Whoever sits at the table, however often they eat: from the return of   *)
(* take_forks to the end of put_forks no neighbour is between the two.     *)
THEOREM ForksAreExclusive == FairSpec => []NeighboursDoNotEat
  BY Initially, StepKeeps, Safe, PTL DEF FairSpec

(* phi_put_forks_sema tests both neighbours and under the mutex, so that a *)
(* philosopher who sleeps on his semaphore has a neighbour who eats.       *)
THEOREM PutForksForgetsNobody == FairSpec => []NobodyForgotten
  BY Initially, StepKeeps, Safe, PTL DEF FairSpec

(* cond_signal is called behind the state it announces, and nobody takes   *)
(* that state back before the waiter runs: the if of phi_take_forks_condvar *)
(* is enough.                                                              *)
THEOREM SignalMeansEating == FairSpec => []WokenMayEat
  BY Initially, StepKeeps, Safe, PTL DEF FairSpec

(* Which half runs, and in the monitor also whose it is. *)
MInv == half = "condvar" => Monitor(y, pc)

LEMMA StepOwns == IInv /\ MInv /\ [Next]_vars => MInv'
  <1> SUFFICES ASSUME IInv, MInv, [Next]_vars, half' = "condvar" PROVE Monitor(y', pc')
    BY DEF MInv
  <1>1. CASE condvar_step \/ (half = "condvar" /\ \E i \in Phil : timer(i))
    BY <1>1, IsRing, StepMonitor DEF IInv, MInv, condvar_step
  <1>2. CASE check_condvar
    BY <1>2, IsRing, BeginMonitor DEF check_condvar
  <1>3. CASE UNCHANGED vars
    <2>1. y' = y /\ pc' = pc /\ half' = half
      BY <1>3 DEF vars
    <2> QED
      BY <2>1 DEF MInv
  <1>4. CASE semaphore_step \/ (half # "condvar" /\ \E i \in Phil : timer(i))
    BY <1>4 DEF semaphore_step, timer
  <1> QED
    BY <1>1, <1>2, <1>3, <1>4 DEF Next, Kernel_step, check_sync_done

LEMMA HandedOver == IInv /\ MInv => HandedOverOnce /\ Counted
  <1>1. ASSUME IInv, half = "semaphore" PROVE OnePermit
    <2>1. Sound_sema(y, pc, {})
      BY <1>1 DEF IInv
    <2>2. ASSUME NEW i \in Phil PROVE HasForks_sema(i) <=> Holds(y, pc, i)
      <3>1. y.queue[i] \in Seq(Phil)
        BY <2>1 DEF Sound_sema, Core_sema, Systems_sema, Sems_sema
      <3>2. ToSet(y.queue[i]) = In(y.queue[i])
        BY <3>1, InIsToSet
      <3> QED
        BY <3>2 DEF HasForks_sema, Holds, Queued
    <2>3. ASSUME NEW i \in Phil PROVE y.value[i] + Moving(i) = IF y.state[i] = "EATING" THEN 1 ELSE 0
      <3>1. Fits_sema(y, pc, i)
        BY <2>1 DEF Sound_sema
      <3> QED
        BY <2>2, <3>1 DEF Fits_sema, Moving
    <2> QED
      BY <2>3 DEF OnePermit
  <1>2. ASSUME IInv, MInv, half # "semaphore" PROVE half = "condvar" /\ OneInMonitor /\ Counted_condvar
    BY <1>2, IsRing, MonitorMeans DEF IInv, MInv
  <1> QED
    BY <1>1, <1>2 DEF HandedOverOnce, Counted

(* up hands a permit, and the monitor, from one thread to exactly one other, *)
(* and no third can come in between before that one runs.                  *)
THEOREM MonitorHandsOver == FairSpec => []HandedOverOnce
  <1>1. Init => MInv
    BY DEF Init, MInv
  <1> QED
    BY <1>1, Initially, StepKeeps, StepOwns, HandedOver, PTL DEF FairSpec

(* count and next_count are exact at every point where another thread may    *)
(* run, and no signal is saved up in the semaphores behind them.           *)
THEOREM CountsAreExact == FairSpec => []Counted
  <1>1. Init => MInv
    BY DEF Init, MInv
  <1> QED
    BY <1>1, Initially, StepKeeps, StepOwns, HandedOver, PTL DEF FairSpec

-----------------------------------------------------------------------------
(* The invariant behind the refinement: rounds are counted at the head of  *)
(* the loop, and whoever is apart from the forks thinks.                   *)
TInv ==
    \/ half = "semaphore" /\ Rounds_sema(pc, iter)
    \/ half = "condvar" /\ Rounds_condvar(pc, iter) /\ Calm(y, pc)

Course == IF half = "semaphore" THEN 1 ELSE 2
tableVars == <<y.state, iter, Course>>

(* A step of either half at its table is one at the table of check_sync.   *)
LEMMA DinesAtTable ==
    ASSUME \/ Dines_sema /\ DS!Exclusive(y'.state)
           \/ Dines_condvar /\ DM!Exclusive(y'.state),
           half' = half
    PROVE  [Table!Next]_tableVars
  <1>1. Table!Exclusive(y'.state)
    BY DEF DS!Exclusive, DM!Exclusive, Table!Exclusive, DS!Neighbours, DM!Neighbours,
           Table!Neighbours, DS!Phil, DM!Phil, Table!Phil
  <1>2. CASE UNCHANGED <<y.state, iter>>
    BY <1>2 DEF tableVars, Course
  <1>3. CASE \E i \in Phil : DS!Think(i) \/ DS!Hunger(i) \/ DS!GetUp(i)
    <2>1. \E i \in Table!Phil : Table!Think(i) \/ Table!Hunger(i) \/ Table!GetUp(i)
      BY <1>3 DEF DS!Think, Table!Think, DS!Hunger, Table!Hunger, DS!GetUp, Table!GetUp,
                  DS!Neighbours, Table!Neighbours, DS!Phil, Table!Phil, Phil
    <2> QED
      BY <1>1, <2>1 DEF Table!Next
  <1>4. CASE \E i \in Phil : DM!Think(i) \/ DM!Hunger(i) \/ DM!Serve(i) \/ DM!GetUp(i)
    <2>1. \E i \in Table!Phil : Table!Think(i) \/ Table!Hunger(i) \/ Table!Serve(i) \/ Table!GetUp(i)
      BY <1>4 DEF DM!Think, Table!Think, DM!Hunger, Table!Hunger, DM!Serve, Table!Serve,
                  DM!GetUp, Table!GetUp,
                  DM!Neighbours, Table!Neighbours, DM!Phil, Table!Phil, Phil
    <2> QED
      BY <1>1, <2>1 DEF Table!Next
  <1> QED
    BY <1>2, <1>3, <1>4 DEF Dines_sema, Dines_condvar

(* check_sync starts with an empty table. *)
LEMMA TableInitially == Init => TInv /\ Table!Init
  <1> SUFFICES ASSUME Init PROVE TInv /\ Table!Init
    OBVIOUS
  <1>1. /\ pc = [i \in 0 .. N - 1 |-> "start"] /\ iter = [i \in 0 .. N - 1 |-> 0]
        /\ y.state = [i \in 0 .. N - 1 |-> "THINKING"] /\ half = "semaphore"
    BY DEF Init, Init_sema, Phil
  <1>2. TInv
    BY <1>1, TableAssumption DEF TInv, Rounds_sema, Phil
  <1>3. Table!Init
    BY <1>1 DEF Table!Init, Table!Phil, Course
  <1> QED
    BY <1>2, <1>3

(* One step, from invariant to invariant. *)
LEMMA TableStep ==
    IInv /\ IInv' /\ TInv /\ [Next]_vars => TInv' /\ [Table!Next]_tableVars
  <1> SUFFICES ASSUME IInv, IInv', TInv, [Next]_vars PROVE TInv' /\ [Table!Next]_tableVars
    OBVIOUS
  <1>1. CASE semaphore_step \/ condvar_step \/ \E i \in Phil : timer(i)
    <2>1. CASE half = "semaphore"
      <3>1. /\ Sound_sema(y, pc, {}) /\ Rounds_sema(pc, iter) /\ half' = "semaphore"
            /\ Sound_sema(y', pc', {})
        BY <1>1, <2>1 DEF IInv, TInv, semaphore_step, condvar_step, timer
      <3>2. Step_sema \/ \E i \in Phil : timer(i)
        BY <1>1, <2>1 DEF semaphore_step, condvar_step
      <3>3. Dines_sema /\ Rounds_sema(pc', iter')
        BY <3>1, <3>2, IsRing, StepDines_sema
      <3>4. DS!Exclusive(y'.state)
        BY <3>1, IsRing, SoundIsExclusive_sema
      <3> QED
        BY <2>1, <3>1, <3>3, <3>4, DinesAtTable DEF TInv
    <2>2. CASE half = "condvar"
      <3>1. /\ Sound_condvar(y, pc) /\ Rounds_condvar(pc, iter) /\ Calm(y, pc) /\ half' = "condvar"
            /\ Sound_condvar(y', pc')
        BY <1>1, <2>2 DEF IInv, TInv, semaphore_step, condvar_step, timer
      <3>2. Step_condvar \/ \E i \in Phil : timer(i)
        BY <1>1, <2>2 DEF semaphore_step, condvar_step
      <3>3. Dines_condvar /\ Rounds_condvar(pc', iter') /\ Calm(y', pc')
        BY <3>1, <3>2, IsRing, StepDines_condvar
      <3>4. DM!Exclusive(y'.state)
        BY <3>1, IsRing, SoundIsExclusive_condvar
      <3> QED
        BY <2>2, <3>1, <3>3, <3>4, DinesAtTable DEF TInv
    <2> QED
      BY <2>1, <2>2 DEF IInv
  <1>2. CASE check_condvar
    <2>1. /\ half = "semaphore" /\ half' = "condvar" /\ Sound_sema(y, pc, {}) /\ Rounds_sema(pc, iter)
          /\ \A i \in Phil : pc[i] = "quit"
      BY <1>2 DEF check_condvar, IInv, TInv, AllQuit_sema
    <2>2. Begin
      BY <1>2 DEF check_condvar
    <2>3. /\ Rounds_condvar(pc', iter') /\ Calm(y', pc')
          /\ y'.state = [i \in Phil |-> "THINKING"] /\ iter' = [i \in Phil |-> 0]
      BY <2>2, TableAssumption, BeginDines
    <2>4. \A i \in Phil : y.state[i] = "THINKING" /\ iter[i] = TIMES
      BY <2>1 DEF Sound_sema, Fits_sema, Rounds_sema
    <2>5. y.state \in [Phil -> Moods]
      BY <2>1 DEF Sound_sema, Core_sema, Systems_sema
    <2>6. y'.state = y.state
      BY <2>3, <2>4, <2>5
    <2>7. Table!LayAgain
      BY <2>1, <2>3, <2>4, <2>6 DEF Table!LayAgain, Table!Phil, Phil, Course
    <2> QED
      BY <2>1, <2>3, <2>7 DEF TInv, Table!Next
  <1>3. CASE UNCHANGED vars
    BY <1>3 DEF vars, TInv, Rounds_sema, Rounds_condvar, Calm, tableVars, Course
  <1> QED
    BY <1>1, <1>2, <1>3 DEF Next, Kernel_step, check_sync_done

(* Seen from the forks, with all the scheduling, semaphores and monitors   *)
(* taken away, check_sync is a dining table: every step of either program  *)
(* is one of Dining or changes nothing that Dining speaks of.              *)
THEOREM ImplementsDining == FairSpec => TableSpec
  <1>1. FairSpec => [](IInv /\ TInv)
    <2>1. IInv /\ TInv /\ [Next]_vars => IInv' /\ TInv'
      BY StepKeeps, TableStep
    <2> QED
      BY <2>1, Initially, TableInitially, PTL DEF FairSpec
  <1>2. IInv /\ TInv /\ [Next]_vars => [Table!Next]_<<y.state, iter, IF half = "semaphore" THEN 1 ELSE 2>>
    BY StepKeeps, TableStep DEF tableVars, Course
  <1> QED
    BY <1>1, <1>2, TableInitially, PTL DEF FairSpec, TableSpec, Table!Spec, Table!vars
=============================================================================
