------------------------------ MODULE MCWorker ------------------------------
(***************************************************************************)
(* The worker on small instances.                                          *)
(***************************************************************************)
EXTENDS Worker, TLC

Symmetry == Permutations(Jobs)
=============================================================================
