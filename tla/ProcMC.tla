-------------------------------- MODULE ProcMC ---------------------------------
(* Small instances of Proc for TLC. *)
EXTENDS Proc

(* The slots of user processes are interchangeable. *)
Symmetry == Permutations(User)
=============================================================================
