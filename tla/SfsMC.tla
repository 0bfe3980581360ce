--------------------------------- MODULE SfsMC ---------------------------------
(***************************************************************************)
(* Sfs for TLC: it does not matter which descriptor is which.              *)
(***************************************************************************)
EXTENDS Sfs, TLC

Descriptors == Permutations(Fd)
=============================================================================
