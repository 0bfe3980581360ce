--------------------------------- MODULE Stdin ---------------------------------
(***************************************************************************)
(* The keyboard device (kern/fs/devs/dev_stdin.c): a ring buffer that the  *)
(* clock interrupt fills and the readers empty, both with interrupts off.  *)
(*                                                                         *)
(* A reader runs until its request is satisfied or the buffer is empty; it  *)
(* then waits on wait_queue with a wait_t in its stack frame, until a key   *)
(* or a kill wakes it, and goes on some time later.                        *)
(***************************************************************************)
EXTENDS Integers, Sequences, SequencesExt

CONSTANTS Proc,     \* the processes that read
          BUFSIZE,  \* STDIN_BUFSIZE
          MaxLen,   \* bound on the length a reader asks for
          Char      \* what can be typed

VARIABLES buffer,     \* stdin_buffer
          p_rpos, p_wpos,
          wait_queue,
          reader      \* the frames of dev_stdin_read

(* Positions are kept modulo 2 * BUFSIZE: that leaves the place in the      *)
(* buffer and the number of unread characters what they are.               *)
Position == 0 .. 2 * BUFSIZE - 1
Wrap(pos) == IF pos < 2 * BUFSIZE THEN pos ELSE pos - 2 * BUFSIZE
Forward(pos, n) == Wrap(pos + n)
Unread == Wrap(p_wpos + 2 * BUFSIZE - p_rpos)
Place(pos) == IF pos < BUFSIZE THEN pos ELSE pos - BUFSIZE
At(b, pos) == b[Place(Wrap(pos))]

(* A frame: buf as far as it is filled, len - ret, and wait->wakeup_flags   *)
(* ("kill" for WT_INTERRUPTED, "" until somebody wakes the reader).        *)
Frame(buf, left) == [buf |-> buf, left |-> left, woken |-> ""]
Outside == Frame(<<>>, 0)
Reading(p) == reader[p].left > 0

Init ==
    /\ buffer = [i \in 0 .. BUFSIZE - 1 |-> ""]
    /\ p_rpos = 0 /\ p_wpos = 0
    /\ wait_queue = <<>>
    /\ reader = [p \in Proc |-> Outside]

(* The loop from try_again: take what is there, then return or wait.  The   *)
(* entry of an earlier wait has been taken off the queue.                  *)
Take(p, frame, queue) ==
    LET n == IF frame.left <= Unread THEN frame.left ELSE Unread
        taken == [i \in 1 .. n |-> At(buffer, p_rpos + i - 1)]
    IN  /\ p_rpos' = Forward(p_rpos, n)
        /\ \/ /\ n = frame.left
              /\ reader' = [reader EXCEPT ![p] = Outside]
              /\ wait_queue' = queue
           \/ /\ n < frame.left
              /\ reader' = [reader EXCEPT ![p] = Frame(frame.buf \o taken, frame.left - n)]
              /\ wait_queue' = Append(queue, p)

dev_stdin_read(p, len) ==
    /\ ~Reading(p)
    /\ Take(p, Frame(<<>>, len), wait_queue)
    /\ UNCHANGED <<buffer, p_wpos>>

(* wait_current_del: nothing, once a key has emptied the queue.            *)
Without(queue, p) ==
    IF p \in ToSet(queue) THEN RemoveAt(queue, CHOOSE i \in 1 .. Len(queue) : queue[i] = p)
    ELSE queue

(* Back from schedule(): wait_current_del, and again if it was a key. *)
read_resume(p) ==
    LET queue == Without(wait_queue, p) IN
    /\ reader[p].woken # ""
    /\ \/ reader[p].woken = "key" /\ Take(p, reader[p], queue)
       \/ /\ reader[p].woken = "kill"
          /\ reader' = [reader EXCEPT ![p] = Outside]
          /\ wait_queue' = queue
          /\ UNCHANGED p_rpos
    /\ UNCHANGED <<buffer, p_wpos>>

(* do_kill wakes a reader that sleeps; its wait_t stays on the queue.      *)
kill(p) ==
    /\ Reading(p) /\ reader[p].woken = ""
    /\ reader' = [reader EXCEPT ![p].woken = "kill"]
    /\ UNCHANGED <<buffer, p_rpos, p_wpos, wait_queue>>

(* dev_stdin_write stores the character before it looks whether there is   *)
(* room; wakeup_queue empties the queue and sets all wakeup_flags, those of *)
(* a reader that a kill has woken before included.                         *)
Woken_First(r) ==
    [p \in Proc |-> IF wait_queue # <<>> /\ p = Head(wait_queue) THEN [r[p] EXCEPT !.woken = "key"] ELSE r[p]]
Woken(r) ==
    [p \in Proc |-> IF p \in ToSet(wait_queue) THEN [r[p] EXCEPT !.woken = "key"] ELSE r[p]]

dev_stdin_write_LateStore(c) ==
    /\ IF Unread < BUFSIZE
         THEN /\ p_wpos' = Forward(p_wpos, 1)
              /\ buffer' = [buffer EXCEPT ![Place(p_wpos')] = c]
         ELSE UNCHANGED <<p_wpos, buffer>>
    /\ reader' = Woken(reader)
    /\ wait_queue' = <<>>
    /\ UNCHANGED p_rpos

dev_stdin_write(c) ==
    /\ buffer' = [buffer EXCEPT ![Place(p_wpos)] = c]
    /\ p_wpos' = IF Unread < BUFSIZE THEN Forward(p_wpos, 1) ELSE p_wpos
    /\ reader' = Woken(reader)
    /\ wait_queue' = <<>>
    /\ UNCHANGED p_rpos

-----------------------------------------------------------------------------
(* No lost wakeup: a reader that nobody has woken is on the queue and there  *)
(* is nothing to read; and only frames of dev_stdin_read are on the queue,  *)
(* once each.                                                              *)
WaitersAreHungry ==
    /\ \A p \in Proc : Reading(p) /\ reader[p].woken = "" => p \in ToSet(wait_queue) /\ Unread = 0
    /\ \A p \in ToSet(wait_queue) : Reading(p)
    /\ IsInjective(wait_queue)

(* What has been typed and not been read yet. *)
Line == [i \in 1 .. Unread |-> At(buffer, p_rpos + i - 1)]
=============================================================================
