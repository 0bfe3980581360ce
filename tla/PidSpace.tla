------------------------------- MODULE PidSpace -------------------------------
(***************************************************************************)
(* What do_fork relies on: "get_pid - alloc a unique pid for process"       *)
(* (kern/process/proc.c).  A pid is granted only while no process uses it,  *)
(* it is in use from then until do_wait reaps the process, and pids change  *)
(* in no other way.                                                         *)
(***************************************************************************)
CONSTANT Pid

VARIABLES used,     \* the pids of the processes on proc_list
          granted   \* the pid returned to do_fork and not yet given to a process

vars == <<used, granted>>

Init == used = {} /\ granted = {}

Grant ==
    /\ granted = {}
    /\ \E p \in Pid \ used : granted' = {p}
    /\ UNCHANGED used

Enter ==
    /\ granted # {}
    /\ used' = used \cup granted
    /\ granted' = {}

Reap ==
    /\ granted = {}
    /\ \E p \in used : used' = used \ {p}
    /\ UNCHANGED granted

Next == Grant \/ Enter \/ Reap

Spec == Init /\ [][Next]_vars
=============================================================================
