------------------------------ MODULE MCPacing ------------------------------
(***************************************************************************)
(* Pacing on small instances: what a step of k rows takes.                 *)
(***************************************************************************)
EXTENDS Pacing

\* Every row adds the same.
Linear == [k \in 1 .. MaxInflight |-> 20 + 10 * k]
=============================================================================
