--------------------------------- MODULE Shares --------------------------------
(***************************************************************************)
(* What the stride scheduler promises, without machine words: accounts of  *)
(* CPU time are kept as numbers that never end, lead[p][q] is how far p's   *)
(* is ahead of q's, and the CPU goes to a process that is ahead of nobody. *)
(*                                                                         *)
(* The books may be lost when somebody joins, and found again when there   *)
(* are fewer processes or a turn later; in between nothing is promised but *)
(* that somebody gets the CPU.                                             *)
(***************************************************************************)
EXTENDS Integers

CONSTANTS Proc, idleproc, Priority,
          Pass(_)     \* what a turn costs at a priority

VARIABLES pool, current, asleep, priority,
          kept,       \* are there books?
          lead        \* between processes that are not asleep, 0 elsewhere

vars == <<pool, current, asleep, priority, kept, lead>>

Nothing == [p \in Proc |-> [q \in Proc |-> 0]]

(* l is how far the accounts of S are ahead of one another.                *)
Books(l, S) == \A p, q, r \in S : l[p][q] + l[q][r] = l[p][r]

Init ==
    /\ \E p \in Proc : pool = {p}
    /\ current = idleproc /\ asleep = {}
    /\ priority = [p \in Proc |-> 0]
    /\ kept = TRUE /\ lead = Nothing

Members == pool \cup ({current} \ {idleproc})

(* The turn of p, out of S, is entered at once.                            *)
Entered(S, p, cost) ==
    [x \in Proc |-> [y \in Proc |->
       IF {x, y} \subseteq S
         THEN lead[x][y] + (IF x = p THEN cost ELSE 0) - (IF y = p THEN cost ELSE 0)
         ELSE 0]]

Run(S, p) ==
    /\ p \in S
    /\ pool' = S \ {p} /\ current' = p
    /\ priority' = [priority EXCEPT ![p] = IF @ = 0 THEN 1 ELSE @]
    /\ \/ kept /\ (\A q \in S : lead[p][q] <= 0)
          /\ kept' /\ lead' = Entered(S, p, Pass(priority[p]))
       \/ ~kept /\ kept' /\ Books(lead', S)
       \/ ~kept /\ ~kept' /\ lead' = Nothing

Rest(S) ==
    /\ S = {} /\ pool' = {} /\ current' = idleproc
    /\ kept' = TRUE /\ lead' = Nothing
    /\ UNCHANGED priority

Schedule(S) == Rest(S) \/ \E p \in S : Run(S, p)

Turn == Schedule(Members) /\ UNCHANGED asleep
Sleep == current # idleproc /\ Schedule(pool) /\ asleep' = asleep \cup {current}
Exit == current # idleproc /\ Schedule(pool) /\ UNCHANGED asleep

(* Somebody who is back from sleep, or new, joins.                         *)
Join(p) ==
    /\ p \notin Members
    /\ pool' = pool \cup {p}
    /\ \/ /\ kept /\ kept' /\ Books(lead', Members \cup {p})
          /\ \A x, y \in Members : lead'[x][y] = lead[x][y]
       \/ ~kept' /\ lead' = Nothing /\ Members # {}
    /\ UNCHANGED current

Wake(p) == p \in asleep /\ Join(p) /\ asleep' = asleep \ {p} /\ UNCHANGED priority
Fork(p) == p \notin asleep /\ Join(p) /\ priority' = [priority EXCEPT ![p] = 0] /\ UNCHANGED asleep

SetPriority ==
    /\ current # idleproc
    /\ \E n \in Priority : priority' = [priority EXCEPT ![current] = IF n = 0 THEN 1 ELSE n]
    /\ UNCHANGED <<pool, current, asleep, kept, lead>>

Next == Turn \/ Sleep \/ Exit \/ SetPriority \/ \E p \in Proc : Wake(p) \/ Fork(p)

Spec == Init /\ [][Next]_vars
=============================================================================
