------------------------ MODULE MCDistributedLimiters ------------------------
(***************************************************************************)
(* The distributed limiters for TLC, which may exchange their callers.     *)
(***************************************************************************)
EXTENDS DistributedLimiters, TLC

MCSymmetry == Permutations(DistCallers)
===============================================================================
