----------------------------- MODULE MCProcess -----------------------------
(***************************************************************************)
(* Owners of engines in one process, on small instances.                   *)
(***************************************************************************)
EXTENDS Process

\* Bound: at most one engine thread panics.
Panicked == {o \in Owners : thread[o] \in {"panicking", "panicked"}}
OnePanic == \A o, p \in Panicked : o = p
=============================================================================
