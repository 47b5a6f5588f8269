------------------------------- MODULE Pacing -------------------------------
(***************************************************************************)
(* How large `admit` of llm-engine/src/lib.rs lets the batch grow under a  *)
(* step target.  Engine keeps the smoothed cost of a step as one bit; here *)
(* it is the number the code computes, jobs are only counted, and a step   *)
(* costs what the size of its batch makes it cost.                         *)
(*                                                                         *)
(* Times are integers, of any unit; the code's are doubles in              *)
(* microseconds, so a smoothed value is rounded down here.                 *)
(*                                                                         *)
(* As in Engine, X_y is X with a mistake.                                  *)
(***************************************************************************)
EXTENDS Integers

CONSTANTS
    MaxInflight,  \* slots
    MaxWaiting,   \* bound on the queue
    Target,       \* target_step_us; zero is no target
    Cost,         \* Cost[k] is how long a decode of k rows takes
    Slope         \* ... and what one more row adds to it, at most

ASSUME PacingAssumption ==
    /\ MaxInflight \in Nat \ {0} /\ MaxWaiting \in Nat \ {0}
    /\ Target \in Nat /\ Slope \in Nat
    /\ Cost \in [1 .. MaxInflight -> Nat \ {0}]
    /\ \A j, k \in 1 .. MaxInflight : j <= k => Cost[j] <= Cost[k]
    /\ \A k \in 1 .. MaxInflight - 1 : Cost[k + 1] <= Cost[k] + Slope

VARIABLES
    queue,     \* jobs waiting for a slot
    active,    \* slots occupied
    ready,     \* ... of these, with nothing left to hand to their caller
    owed,      \* whether the outbox holds anything
    step_us,   \* the smoothed cost of a step; zero is none measured yet
    phase,     \* of a pass of the loop: flush, admit, step
    prompt     \* no caller has kept a slot or the outbox waiting so far

vars == <<queue, active, ready, owed, step_us, phase, prompt>>

Init ==
    /\ queue = 0 /\ active = 0 /\ ready = 0 /\ owed = FALSE
    /\ step_us = 0 /\ phase = "flush" /\ prompt = TRUE

Arrive ==
    /\ queue < MaxWaiting /\ queue' = queue + 1
    /\ UNCHANGED <<active, ready, owed, step_us, phase, prompt>>

\* The outbox pass and the flush of every slot.  A caller that is behind keeps
\* its slot out of the batch; one that is gone, or stays behind, gives it back,
\* with last words for the outbox.
Flush ==
    /\ phase = "flush" /\ phase' = "admit"
    /\ active' \in 0 .. active /\ ready' \in 0 .. active'
    /\ owed' \in IF active' < active THEN {TRUE} ELSE {owed, FALSE}
    /\ prompt' = (prompt /\ ready' = active' /\ (owed' => active' < active))
    /\ UNCHANGED <<queue, step_us>>

Idle == active = 0 /\ ~owed
Shut == ~Idle /\ Target > 0 /\ step_us >= Target
Paced_off == FALSE
Paced == Target > 0 /\ ~Idle
MayTake == active < MaxInflight /\ ~Shut

\* The loop of admit returns; with nothing to do at all it blocks instead.
AdmitReturn ==
    /\ phase = "admit" /\ phase' = "step"
    /\ ~MayTake \/ (queue = 0 /\ ~Idle)
    /\ UNCHANGED <<queue, active, ready, owed, step_us, prompt>>

\* A job is prefilled and its first piece pending: it joins the next batch.
AdmitRunning ==
    /\ phase = "admit" /\ MayTake /\ queue > 0
    /\ queue' = queue - 1 /\ active' = active + 1
    /\ phase' = IF Paced THEN "step" ELSE "admit"
    /\ UNCHANGED <<ready, owed, step_us, prompt>>

\* ... or it is cancelled, failed or finished, and answered at once.
AdmitAnswered ==
    /\ phase = "admit" /\ MayTake /\ queue > 0
    /\ queue' = queue - 1 /\ owed' = TRUE
    /\ UNCHANGED <<active, ready, step_us, phase, prompt>>

Smoothed_fromZero(cost) == (7 * step_us + 3 * cost) \div 10
Smoothed(cost) == IF step_us = 0 THEN cost ELSE (7 * step_us + 3 * cost) \div 10

\* Slots found cancelled leave, the ready ones of the rest are decoded, and
\* any of these may end.  A decode that fails ends them all, unmeasured.
Measure(rows) == step_us' = IF rows = 0 THEN step_us ELSE Smoothed(Cost[rows])

Step ==
    /\ phase = "step" /\ phase' = "flush"
    /\ \E cancelled \in 0 .. active : \E rows \in 0 .. ready :
          /\ ready - cancelled <= rows /\ rows <= active - cancelled
          /\ \/ Measure(rows) /\ active' \in active - cancelled - rows .. active - cancelled
             \/ rows > 0 /\ active' = active - cancelled - rows /\ UNCHANGED step_us
    /\ owed' = (owed \/ active' < active)
    /\ ready' = 0
    /\ UNCHANGED <<queue, prompt>>

Next == Arrive \/ Flush \/ AdmitReturn \/ AdmitRunning \/ AdmitAnswered \/ Step

Spec == Init /\ [][Next]_vars

-----------------------------------------------------------------------------
\* Every variable has its type, and the measure is one of a real step.
TypeOK ==
    /\ queue \in 0 .. MaxWaiting /\ active \in 0 .. MaxInflight /\ ready \in 0 .. active
    /\ owed \in BOOLEAN /\ prompt \in BOOLEAN /\ phase \in {"flush", "admit", "step"}
    /\ step_us \in Nat
    /\ step_us # 0 => Cost[1] <= step_us /\ step_us <= Cost[MaxInflight]

\* README.md:123-125, "`--target-step-ms` caps how long a decode step may
\* take": the measure admissions go by lags behind, so the cap is exceeded,
\* but by less than four and a third sequences (and the rounding), however
\* many slots and however long the queue, as long as callers keep up.  Up to
\* three sequences join whatever the target, before there is a measure.
HeldToTarget ==
    Target > 0 /\ prompt /\ active > 3 =>
        3 * Cost[active] < 3 * Target + 13 * Slope + 9

\* tests/engine.rs:246-247: with a target "Below any real step", "the engine should
\* never decode more than the one request it always admits"; lines 270-273
\* allow for two.  Its callers are never behind.
TargetHoldsTheBatchDown == Target \in 1 .. Cost[1] /\ prompt => active <= 2
=============================================================================
