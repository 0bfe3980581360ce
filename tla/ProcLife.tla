------------------------------- MODULE ProcLife --------------------------------
(***************************************************************************)
(* What fork, exit and wait promise user programs.  A process is created by *)
(* a living parent, dies, and stays a zombie until its parent -- or, when    *)
(* the parent died first, the first process -- waits for it; only then may  *)
(* its slot and its pid be used again.                                      *)
(***************************************************************************)
CONSTANTS Proc, First, Boot   \* First inherits orphans; Boot created it
CONSTANT None

VARIABLES life,    \* "none", "alive" or "zombie"
          parent

vars == <<life, parent>>

Init ==
    /\ life = [p \in Proc |-> IF p \in {First, Boot} THEN "alive" ELSE "none"]
    /\ parent = [p \in Proc |-> IF p = First THEN Boot ELSE None]

Fork(p, c) ==
    /\ life[p] = "alive" /\ life[c] = "none"
    /\ life' = [life EXCEPT ![c] = "alive"]
    /\ parent' = [parent EXCEPT ![c] = p]

Exit(p) ==
    /\ life[p] = "alive" /\ p \notin {First, Boot}
    /\ life' = [life EXCEPT ![p] = "zombie"]
    /\ parent' = [c \in Proc |-> IF parent[c] = p THEN First ELSE parent[c]]

Wait(p, c) ==
    /\ life[p] = "alive" /\ life[c] = "zombie" /\ parent[c] = p
    /\ life' = [life EXCEPT ![c] = "none"]
    /\ parent' = [parent EXCEPT ![c] = None]

(* The first conjunct follows from the second; it spares TLC the quantifiers *)
(* where nothing happens.                                                  *)
Next ==
    /\ life' # life
    /\ \E p \in Proc : Exit(p) \/ \E c \in Proc : Fork(p, c) \/ Wait(p, c)

Spec == Init /\ [][Next]_vars
=============================================================================
