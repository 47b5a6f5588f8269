------------------------------ MODULE MCEngine ------------------------------
(***************************************************************************)
(* The engine on small instances.  The .cfg files choose the jobs and the  *)
(* sizes; the jobs are interchangeable where no liveness is checked.       *)
(***************************************************************************)
EXTENDS EngineRefinement, EngineClaims, TLC

Symmetry == Permutations(Jobs)

\* Bound of the run `pool`: no two callers ask for the same.
Unlike == \A j, k \in Jobs : req[j] = req[k] => j = k

\* Bound of the run `narrow`, of three slots: callers wait for the whole reply.
Patient == open /\ \A j \in Jobs : ~cancel[j]

\* Bound of the run `live`: one job, always the same, asks for more tokens.
First       == CHOOSE j \in Jobs : TRUE
OneAsksMore == \A j, k \in Jobs : req[j].asked > req[k].asked <=> j = First /\ k # First
=============================================================================
