------------------------------- MODULE PidAlloc -------------------------------
(***************************************************************************)
(* get_pid (kern/process/proc.c): the allocator of process identifiers.     *)
(*                                                                         *)
(* The allocator keeps two static variables.  lastPid is the identifier it  *)
(* handed out last; nextSafe is a promise that no live process has an       *)
(* identifier strictly between lastPid and nextSafe, so that most calls     *)
(* need not look at proc_list at all.  When the promise runs out the        *)
(* allocator walks proc_list, moving lastPid up past every collision and    *)
(* starting the walk again when it reaches nextSafe.                        *)
(*                                                                         *)
(* One step of the model is one evaluation of the loop body; nothing else   *)
(* runs during the walk, for the kernel is not preemptive and do_fork does  *)
(* not block between get_pid and set_links.                                 *)
(***************************************************************************)
EXTENDS Integers, Sequences, SequencesExt

CONSTANTS MAX_PID,      \* identifiers are 1 .. MAX_PID - 1; idleproc has 0
          MAX_PROCESS   \* bound on nr_process, which counts idleproc too

(* static_assert(MAX_PID > MAX_PROCESS), the first line of get_pid.         *)
ASSUME PidAssumption ==
    /\ MAX_PROCESS \in Nat \ {0}
    /\ MAX_PID \in Nat
    /\ MAX_PID > MAX_PROCESS

VARIABLES procList,  \* the pids on proc_list, in list order (idleproc is not on it)
          lastPid,   \* static int last_pid
          nextSafe,  \* static int next_safe
          pc,        \* "idle": no call in progress; "scan": inside the walk;
                     \* "done": get_pid returned lastPid, set_links not done yet
          at         \* how many elements of proc_list the walk has looked at

vars == <<procList, lastPid, nextSafe, pc, at>>

Live == {procList[i] : i \in 1 .. Len(procList)}

Init ==
    /\ procList = <<>>
    /\ lastPid = MAX_PID
    /\ nextSafe = MAX_PID
    /\ pc = "idle"
    /\ at = 0

-----------------------------------------------------------------------------
(* do_fork reaches get_pid only below the process limit: nr_process counts  *)
(* idleproc and the processes on proc_list.                                 *)
MayFork_Always == TRUE
MayFork == Len(procList) + 1 < MAX_PROCESS

(* The call: last_pid is incremented; past the end it restarts at 1 and the *)
(* list is walked, past next_safe the list is walked, otherwise the promise *)
(* of next_safe makes the new value free.                                   *)
Call_NoWalkAfterWrap ==
    /\ pc = "idle"
    /\ MayFork
    /\ LET wraps == lastPid + 1 >= MAX_PID
           walks == ~wraps /\ lastPid + 1 >= nextSafe
       IN  /\ lastPid' = IF wraps THEN 1 ELSE lastPid + 1
           /\ nextSafe' = IF walks THEN MAX_PID ELSE nextSafe
           /\ pc' = IF walks THEN "scan" ELSE "done"
    /\ at' = 0
    /\ UNCHANGED procList

Call ==
    /\ pc = "idle"
    /\ MayFork
    /\ LET wraps == lastPid + 1 >= MAX_PID
           walks == wraps \/ lastPid + 1 >= nextSafe
       IN  /\ lastPid' = IF wraps THEN 1 ELSE lastPid + 1
           /\ nextSafe' = IF walks THEN MAX_PID ELSE nextSafe
           /\ pc' = IF walks THEN "scan" ELSE "done"
    /\ at' = 0
    /\ UNCHANGED procList

(* The walk meets a process that already has last_pid. *)
Collide ==
    /\ pc = "scan"
    /\ at < Len(procList)
    /\ procList[at + 1] = lastPid
    /\ IF lastPid + 1 >= nextSafe
         THEN /\ lastPid' = IF lastPid + 1 >= MAX_PID THEN 1 ELSE lastPid + 1
              /\ nextSafe' = MAX_PID
              /\ at' = 0
         ELSE /\ lastPid' = lastPid + 1
              /\ at' = at + 1
              /\ UNCHANGED nextSafe
    /\ UNCHANGED <<procList, pc>>

(* The walk meets another process; it may bound next_safe. *)
Pass_KeepsNextSafe ==
    /\ pc = "scan"
    /\ at < Len(procList)
    /\ procList[at + 1] # lastPid
    /\ at' = at + 1
    /\ UNCHANGED <<procList, lastPid, nextSafe, pc>>

Pass ==
    /\ pc = "scan"
    /\ at < Len(procList)
    /\ procList[at + 1] # lastPid
    /\ nextSafe' = IF procList[at + 1] > lastPid /\ nextSafe > procList[at + 1]
                     THEN procList[at + 1] ELSE nextSafe
    /\ at' = at + 1
    /\ UNCHANGED <<procList, lastPid, pc>>

(* The walk is back at the list head: get_pid returns last_pid. *)
Finish ==
    /\ pc = "scan"
    /\ at = Len(procList)
    /\ pc' = "done"
    /\ UNCHANGED <<procList, lastPid, nextSafe, at>>

(* do_fork gives the child the pid and set_links puts it at the list head.  *)
SetLinks ==
    /\ pc = "done"
    /\ procList' = <<lastPid>> \o procList
    /\ pc' = "idle"
    /\ at' = 0
    /\ UNCHANGED <<lastPid, nextSafe>>

(* do_wait reaps the i-th process: remove_links takes it off proc_list.     *)
(* Never during a call, for get_pid does not give up the CPU.               *)
RemoveLinks ==
    /\ pc = "idle"
    /\ \E i \in 1 .. Len(procList) : procList' = RemoveAt(procList, i)
    /\ UNCHANGED <<lastPid, nextSafe, pc, at>>

Next == Call \/ Collide \/ Pass \/ Finish \/ SetLinks \/ RemoveLinks

Spec == Init /\ [][Next]_vars

(* A call runs to its end: the CPU is not taken away inside get_pid. *)
FairSpec == Spec /\ WF_vars(Collide \/ Pass \/ Finish)

-----------------------------------------------------------------------------
TypeOK ==
    /\ procList \in Seq(1 .. MAX_PID - 1)
    /\ Len(procList) < MAX_PROCESS
    /\ lastPid \in 1 .. MAX_PID
    /\ nextSafe \in 1 .. MAX_PID
    /\ pc \in {"idle", "scan", "done"}
    /\ at \in 0 .. Len(procList)

(* The promise of next_safe, between calls: no live process has a pid       *)
(* strictly between last_pid and next_safe, however many processes were     *)
(* forked and reaped since the list was last walked.                        *)
GapIsFree ==
    pc = "idle" => \A i \in 1 .. Len(procList) :
                       procList[i] <= lastPid \/ procList[i] >= nextSafe

(* The pid that get_pid returns is a valid one and no live process has it.  *)
FreshPid ==
    pc = "done" => lastPid \in 1 .. MAX_PID - 1 /\ lastPid \notin Live

(* What "alloc a unique pid" promises of the whole table. *)
UniquePids ==
    \A i, j \in 1 .. Len(procList) : procList[i] = procList[j] => i = j

(* What the walk has established so far, and what it leaves behind: every    *)
(* process looked at is outside [last_pid, next_safe).  With the three       *)
(* properties above it is inductive.                                         *)
WalkInv ==
    /\ IF pc = "idle" THEN at = 0 ELSE MayFork
    /\ pc = "scan" => /\ lastPid < nextSafe
                      /\ \A i \in 1 .. at : procList[i] < lastPid \/ procList[i] >= nextSafe
    /\ pc = "done" => /\ lastPid < nextSafe
                      /\ \A i \in 1 .. Len(procList) :
                            procList[i] < lastPid \/ procList[i] >= nextSafe

(* The inductive invariant: the type, the three safety properties and what   *)
(* the walk knows half-way.                                                  *)
IInv == TypeOK /\ GapIsFree /\ FreshPid /\ UniquePids /\ WalkInv

(* Every call returns, though the walk may restart many times: below the    *)
(* process limit there is always a free pid to run into.                    *)
CallReturns == pc = "scan" ~> pc = "done"

(* Seen from do_fork and do_wait the allocator is a set of used pids from    *)
(* which an unused one is granted; the walk is invisible.                    *)
Space == INSTANCE PidSpace WITH
             Pid <- 1 .. MAX_PID - 1,
             used <- Live,
             granted <- IF pc = "done" THEN {lastPid} ELSE {}

PidSpaceSpec == Space!Spec
=============================================================================
