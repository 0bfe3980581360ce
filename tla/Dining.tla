--------------------------------- MODULE Dining --------------------------------
(***************************************************************************)
(* The dining table of check_sync: N philosophers in a ring think, become  *)
(* hungry and eat, neighbours never at the same time, a given number of    *)
(* times.  Who gets up may let hungry neighbours eat in the same step.     *)
(* When everybody is done the table may be laid a second time.             *)
(***************************************************************************)
EXTENDS Integers

CONSTANTS N, Meals

VARIABLES mood,    \* "THINKING", "HUNGRY" or "EATING"
          round,   \* how often each philosopher has sat down to think
          course   \* 1 or 2, how often the table has been laid

vars == <<mood, round, course>>

Phil == 0 .. N - 1
Neighbours(i) == {(i + N - 1) % N, (i + 1) % N}
Exclusive(m) == \A i \in Phil : m[i] = "EATING" => \A j \in Neighbours(i) : m[j] # "EATING"

Init == mood = [i \in Phil |-> "THINKING"] /\ round = [i \in Phil |-> 0] /\ course = 1

Think(i) ==
    /\ mood[i] = "THINKING" /\ round[i] < Meals
    /\ round' = [round EXCEPT ![i] = @ + 1]
    /\ UNCHANGED mood

(* The forks may lie ready, then he eats at once. *)
Hunger(i) ==
    /\ mood[i] = "THINKING" /\ round[i] > 0
    /\ \E m \in {"HUNGRY", "EATING"} : mood' = [mood EXCEPT ![i] = m]
    /\ UNCHANGED round

Serve(i) ==
    /\ mood[i] = "HUNGRY"
    /\ mood' = [mood EXCEPT ![i] = "EATING"]
    /\ UNCHANGED round

GetUp(i) ==
    /\ mood[i] = "EATING"
    /\ \E served \in SUBSET {j \in Neighbours(i) : mood[j] = "HUNGRY"} :
         mood' = [j \in Phil |-> IF j = i THEN "THINKING"
                                 ELSE IF j \in served THEN "EATING" ELSE mood[j]]
    /\ UNCHANGED round

LayAgain ==
    /\ course = 1
    /\ \A i \in Phil : mood[i] = "THINKING" /\ round[i] = Meals
    /\ course' = 2
    /\ round' = [i \in Phil |-> 0]
    /\ UNCHANGED mood

Next ==
    \/ /\ \E i \in Phil : Think(i) \/ Hunger(i) \/ Serve(i) \/ GetUp(i)
       /\ Exclusive(mood')
       /\ UNCHANGED course
    \/ LayAgain

Spec == Init /\ [][Next]_vars
=============================================================================
