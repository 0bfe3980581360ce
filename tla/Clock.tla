---------------------------------- MODULE Clock --------------------------------
(***************************************************************************)
(* The clock interrupt (kern/trap/trap.c, IRQ_S_TIMER) and those who wait   *)
(* for it: run_timer_list for the processes in do_sleep, then, when         *)
(* cons_getc has a character, dev_stdin_write for those in dev_stdin_read.  *)
(***************************************************************************)
EXTENDS Integers, Sequences

CONSTANTS Proc,      \* the processes
          MaxTicks,  \* bound on the argument of do_sleep
          BUFSIZE,   \* STDIN_BUFSIZE
          MaxLen,    \* bound on the length of a read
          Char       \* what can be typed

ASSUME ClockAssumption ==
    /\ MaxTicks \in Nat \ {0} /\ BUFSIZE \in Nat \ {0} /\ MaxLen \in Nat \ {0}
    /\ Char # {}

VARIABLES timers, asleep, buffer, p_rpos, p_wpos, wait_queue, reader

T == INSTANCE Timers
S == INSTANCE Stdin

stdin == <<buffer, p_rpos, p_wpos, wait_queue, reader>>
vars == <<timers, asleep, stdin>>

Init == T!Init /\ S!Init

(* A process is in one system call at a time. *)
do_sleep(p, ticks) == ~S!Reading(p) /\ T!do_sleep(p, ticks) /\ UNCHANGED stdin
wake_up(p) == T!wake_up(p) /\ UNCHANGED stdin
read(p, len) == p \notin asleep /\ S!dev_stdin_read(p, len) /\ UNCHANGED <<timers, asleep>>
read_resume(p) == S!read_resume(p) /\ UNCHANGED <<timers, asleep>>
kill(p) == S!kill(p) /\ UNCHANGED <<timers, asleep>>

interrupt ==
    /\ T!run_timer_list
    /\ \/ UNCHANGED stdin
       \/ \E c \in Char : S!dev_stdin_write(c)

Next ==
    \/ \E p \in Proc :
         \/ \E ticks \in 1 .. MaxTicks : do_sleep(p, ticks)
         \/ wake_up(p)
         \/ \E len \in 1 .. MaxLen : read(p, len)
         \/ read_resume(p) \/ kill(p)
    \/ interrupt

Spec == Init /\ [][Next]_vars

-----------------------------------------------------------------------------
(* No timer outlives its stack frame in do_sleep, none is linked twice, and *)
(* the head always has something left to wait when run_timer_list asserts so. *)
NoDanglingTimer == T!NoDanglingTimer

(* Every sleeper is woken by exactly the tick it asked for, whichever timers *)
(* were inserted before it or deleted around it.                           *)
AlarmClock == INSTANCE Alarm WITH
                  left <- [p \in Proc |-> T!TicksLeft(p)], rung <- T!Rung

AlarmSpec == AlarmClock!Spec

(* No key is lost to a waiting reader: whoever nobody has woken is on the   *)
(* queue and the buffer is empty.                                          *)
WaitersAreHungry == S!WaitersAreHungry

(* The ring buffer is a line of characters, from which every reader takes   *)
(* the oldest and no two the same.                                         *)
Typist == INSTANCE Keyboard WITH
              line <- S!Line, got <- [p \in Proc |-> reader[p].buf]

KeyboardSpec == Typist!Spec
=============================================================================
