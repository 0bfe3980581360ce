--------------------------------- MODULE Alarm ---------------------------------
(***************************************************************************)
(* What do_sleep relies on: a process that asks for n ticks is woken by the *)
(* n-th tick from then, unless it has left do_sleep before (it was killed). *)
(* Nothing a process does to its own alarm moves the alarm of another.      *)
(***************************************************************************)
EXTENDS Naturals

CONSTANTS Proc, MaxTicks

VARIABLES left,   \* ticks until the alarm of each process; 0: no alarm
          rung    \* processes whose alarm went off and that have not left do_sleep

vars == <<left, rung>>

Init == left = [p \in Proc |-> 0] /\ rung = {}

Set(p, n) ==
    /\ left[p] = 0 /\ p \notin rung
    /\ left' = [left EXCEPT ![p] = n]
    /\ UNCHANGED rung

(* del_timer when do_sleep returns, early or late. *)
Leave(p) ==
    /\ left[p] # 0 \/ p \in rung
    /\ left' = [left EXCEPT ![p] = 0]
    /\ rung' = rung \ {p}

Tick ==
    /\ left' = [p \in Proc |-> IF left[p] = 0 THEN 0 ELSE left[p] - 1]
    /\ rung' = rung \cup {p \in Proc : left[p] = 1}

Next ==
    \/ \E p \in Proc, n \in 1 .. MaxTicks : Set(p, n)
    \/ \E p \in Proc : Leave(p)
    \/ Tick

Spec == Init /\ [][Next]_vars
=============================================================================
