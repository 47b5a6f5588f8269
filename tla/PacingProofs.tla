---------------------------- MODULE PacingProofs ----------------------------
(***************************************************************************)
(* How far a step target can be exceeded, for any number of slots, any     *)
(* target and any cost that grows with the batch by at most Slope a row.   *)
(*                                                                         *)
(* The argument is about the lag, by how much the measure is short of what *)
(* the batch costs.  A decode takes three tenths of it away; before the    *)
(* next decode at most one more sequence has joined, and adds Slope.  So   *)
(* the lag stays below 10/3 Slope before a decode and 7/3 after it, plus   *)
(* what is lost by rounding.  The gate looks at the measure when two       *)
(* sequences are not in it: the one about to join and the one before.      *)
(***************************************************************************)
EXTENDS Pacing, TLAPS

\* The measure is short of what k rows cost by no more than a decode leaves.
Trails(k) == k >= 1 => 3 * Cost[k] <= 3 * step_us + 7 * Slope + 9

\* Between two passes, all but the last to join are measured.
AfterStep ==
    phase = "flush" =>
        /\ step_us = 0 => active <= 2
        /\ step_us # 0 => Trails(active - 1)

\* In a pass, the ready ones are those it began with.
InPass ==
    phase # "flush" =>
        /\ step_us = 0 => ready <= 2
        /\ step_us # 0 => Trails(ready - 1)
        /\ active <= IF ready = 0 THEN 2 ELSE ready + 1
        /\ phase = "admit" => active = ready \/ (ready = 0 /\ active = 1)

PacingInv == Target > 0 /\ prompt => AfterStep /\ InPass /\ HeldToTarget

\* The types, without what they say of the cost.
LEMMA Numbers ==
    ASSUME TypeOK
    PROVE  /\ queue \in Nat /\ active \in Nat /\ ready \in Nat /\ step_us \in Nat
           /\ queue <= MaxWaiting /\ active <= MaxInflight /\ ready <= active
           /\ owed \in BOOLEAN /\ prompt \in BOOLEAN /\ phase \in {"flush", "admit", "step"}
BY DEF TypeOK

\* What the constants say of the batches there are.
LEMMA Sizes == MaxInflight \in Nat /\ MaxInflight >= 1 /\ MaxWaiting \in Nat /\ Slope \in Nat /\ Target \in Nat
BY PacingAssumption

LEMMA CostOf == \A k \in 1 .. MaxInflight : Cost[k] \in Nat /\ Cost[k] >= 1
BY PacingAssumption

LEMMA CostGrows == \A j, k \in 1 .. MaxInflight : j <= k => Cost[j] <= Cost[k]
BY PacingAssumption

LEMMA CostOfOneMore == \A k \in 1 .. MaxInflight - 1 : Cost[k + 1] <= Cost[k] + Slope
BY PacingAssumption

LEMMA InitPaced == Init => TypeOK /\ PacingInv
<1> SUFFICES ASSUME Init PROVE TypeOK /\ PacingInv
  OBVIOUS
<1>1. TypeOK
  <2>1. 0 \in 0 .. MaxWaiting /\ 0 \in 0 .. MaxInflight /\ 0 \in 0 .. 0
    BY Sizes
  <2> QED
    BY <2>1 DEF Init, TypeOK
<1>2. PacingInv
  BY DEF Init, PacingInv, AfterStep, InPass, HeldToTarget
<1> QED
  BY <1>1, <1>2

\* A decode takes three tenths of the lag away.
LEMMA Smoothing ==
    ASSUME TypeOK, NEW k \in 1 .. MaxInflight
    PROVE  /\ Smoothed(Cost[k]) \in Nat
           /\ Cost[1] <= Smoothed(Cost[k]) /\ Smoothed(Cost[k]) <= Cost[MaxInflight]
           /\ step_us = 0 => Smoothed(Cost[k]) = Cost[k]
           /\ step_us # 0 /\ 3 * Cost[k] <= 3 * step_us + 10 * Slope + 9
                => 3 * Cost[k] <= 3 * Smoothed(Cost[k]) + 7 * Slope + 9
<1> DEFINE m == (7 * step_us + 3 * Cost[k]) \div 10
<1>1. /\ Cost[k] \in Nat \ {0} /\ Cost[1] \in Nat \ {0} /\ Cost[MaxInflight] \in Nat
      /\ Cost[1] <= Cost[k] /\ Cost[k] <= Cost[MaxInflight] /\ step_us \in Nat /\ Slope \in Nat
  BY PacingAssumption DEF TypeOK
<1>2. /\ m \in Int /\ 10 * m <= 7 * step_us + 3 * Cost[k]
      /\ 7 * step_us + 3 * Cost[k] <= 10 * m + 9
  BY <1>1
<1>3. CASE step_us = 0
  BY <1>1, <1>3 DEF Smoothed
<1>4. CASE step_us # 0
  <2>1. Smoothed(Cost[k]) = m
    BY <1>4 DEF Smoothed
  <2>2. Cost[1] <= step_us /\ step_us <= Cost[MaxInflight]
    BY <1>4 DEF TypeOK
  <2> HIDE DEF m
  <2> QED
    BY <1>1, <1>2, <1>4, <2>1, <2>2
<1> QED
  BY <1>3, <1>4

LEMMA StepTypes ==
    ASSUME TypeOK, Step PROVE TypeOK'
<1> PICK c \in 0 .. active, k \in 0 .. ready :
        /\ ready - c <= k /\ k <= active - c
        /\ \/ Measure(k) /\ active' \in active - c - k .. active - c
           \/ k > 0 /\ active' = active - c - k /\ UNCHANGED step_us
  BY DEF Step
<1>1. active' \in 0 .. MaxInflight
  BY PacingAssumption DEF TypeOK
<1>2. step_us' \in Nat /\ (step_us' # 0 => Cost[1] <= step_us' /\ step_us' <= Cost[MaxInflight])
  <2>1. CASE k = 0 \/ UNCHANGED step_us
    BY <2>1 DEF Measure, TypeOK
  <2>2. CASE k # 0 /\ step_us' = Smoothed(Cost[k])
    <3>1. k \in 1 .. MaxInflight
      BY <2>2, PacingAssumption DEF TypeOK
    <3> QED
      BY <2>2, <3>1, Smoothing
  <2> QED
    BY <2>1, <2>2 DEF Measure, TypeOK
<1> QED
  BY <1>1, <1>2 DEF Step, TypeOK

\* What the flush leaves, and what it was if all callers keep up.
LEMMA Flushed ==
    ASSUME TypeOK, Flush
    PROVE  /\ phase = "flush" /\ phase' = "admit" /\ step_us' = step_us /\ queue' = queue
           /\ active' \in Nat /\ active' <= active /\ ready' \in 0 .. active'
           /\ owed' \in BOOLEAN /\ prompt' \in BOOLEAN
           /\ prompt' => prompt /\ ready' = active'
<1>1. /\ phase = "flush" /\ phase' = "admit" /\ step_us' = step_us /\ queue' = queue
      /\ active' \in 0 .. active /\ ready' \in 0 .. active'
  BY DEF Flush
<1>2. owed' \in BOOLEAN
  BY Numbers, Zenon DEF Flush
<1>3. prompt' \in BOOLEAN /\ (prompt' => prompt /\ ready' = active')
  BY Zenon DEF Flush
<1> QED
  BY <1>1, <1>2, <1>3, Numbers

LEMMA PassTypes ==
    ASSUME TypeOK, Arrive \/ Flush \/ AdmitReturn \/ AdmitRunning \/ AdmitAnswered
    PROVE  TypeOK'
<1>1. CASE Arrive
  BY <1>1, Sizes, Numbers DEF Arrive, TypeOK
<1>2. CASE Flush
  BY <1>2, Flushed, Sizes, Numbers DEF TypeOK
<1>3. CASE AdmitReturn
  BY <1>3, Sizes, Numbers DEF AdmitReturn, TypeOK
<1>4. CASE AdmitRunning
  BY <1>4, Sizes, Numbers DEF AdmitRunning, MayTake, TypeOK
<1>5. CASE AdmitAnswered
  BY <1>5, Sizes, Numbers DEF AdmitAnswered, TypeOK
<1> QED
  BY <1>1, <1>2, <1>3, <1>4, <1>5

\* Joining: two sequences are not in the measure the gate looks at.
LEMMA JoinPaced ==
    ASSUME TypeOK, PacingInv, AdmitRunning PROVE PacingInv'
<1> SUFFICES ASSUME Target > 0, prompt PROVE (AfterStep /\ InPass /\ HeldToTarget)'
  BY DEF PacingInv, AdmitRunning
<1>1. /\ AfterStep /\ InPass /\ HeldToTarget
      /\ phase = "admit" /\ active' = active + 1 /\ active < MaxInflight
      /\ phase' = IF Paced THEN "step" ELSE "admit"
      /\ UNCHANGED <<ready, owed, step_us, prompt>>
  BY DEF PacingInv, AdmitRunning, MayTake
<1>2. AfterStep'
  BY <1>1 DEF AfterStep
<1>3. InPass'
  BY <1>1, Sizes, Numbers DEF InPass, Trails, Paced, Idle
<1>4. ASSUME active' > 3 PROVE 3 * Cost[active'] < 3 * Target + 13 * Slope + 9
  <2>1. active = ready /\ ready >= 3 /\ step_us # 0
    BY <1>1, <1>4, Sizes, Numbers DEF InPass
  <2>2. step_us < Target
    <3>1. ~Idle
      BY <2>1, Numbers DEF Idle
    <3>2. ~(step_us >= Target)
      BY <3>1 DEF AdmitRunning, MayTake, Shut
    <3> QED
      BY <3>2, Sizes, Numbers
  <2>3. 3 * Cost[ready - 1] <= 3 * step_us + 7 * Slope + 9
    <3>1. Trails(ready - 1)
      BY <1>1, <2>1 DEF InPass
    <3>2. ready - 1 >= 1
      BY <2>1, Numbers
    <3> QED
      BY <3>1, <3>2 DEF Trails
  <2>4. /\ ready - 1 \in 1 .. MaxInflight - 1 /\ ready \in 1 .. MaxInflight - 1
        /\ active' = ready + 1
    BY <1>1, <2>1, Sizes, Numbers
  <2>5. Cost[ready] <= Cost[ready - 1] + Slope
    <3>1. Cost[(ready - 1) + 1] <= Cost[ready - 1] + Slope
      BY <2>4, CostOfOneMore
    <3>2. (ready - 1) + 1 = ready
      BY <2>4
    <3> QED
      BY <3>1, <3>2
  <2>6. Cost[ready + 1] <= Cost[ready] + Slope
    BY <2>4, CostOfOneMore
  <2>7. Cost[ready - 1] \in Nat /\ Cost[ready] \in Nat /\ Cost[ready + 1] \in Nat
    <3>1. ready - 1 \in 1 .. MaxInflight /\ ready \in 1 .. MaxInflight /\ ready + 1 \in 1 .. MaxInflight
      BY <2>4, Sizes, Numbers
    <3> QED
      BY <3>1, CostOf
  <2>8. 3 * Cost[ready + 1] < 3 * Target + 13 * Slope + 9
    <3> DEFINE a == Cost[ready - 1]
    <3> DEFINE b == Cost[ready]
    <3> DEFINE d == Cost[ready + 1]
    <3>1. a \in Nat /\ b \in Nat /\ d \in Nat /\ b <= a + Slope /\ d <= b + Slope
          /\ 3 * a <= 3 * step_us + 7 * Slope + 9
      BY <2>3, <2>5, <2>6, <2>7
    <3> HIDE DEF a, b, d
    <3>2. 3 * d < 3 * Target + 13 * Slope + 9
      BY <2>2, <3>1, Sizes, Numbers
    <3> QED
      BY <3>2 DEF d
  <2> QED
    BY <2>4, <2>8
<1>5. HeldToTarget'
  BY <1>1, <1>4 DEF HeldToTarget
<1> QED
  BY <1>2, <1>3, <1>5

\* How many rows there were, if two sequences or more are left.
LEMMA Rows ==
    ASSUME NEW a \in Nat, NEW b \in Nat, NEW c \in Nat, NEW k \in Nat, NEW r \in Nat,
           a <= r + 1, r - c <= k, b <= a - c, b >= 2
    PROVE  k >= 1 /\ b - 1 \in 1 .. k
OBVIOUS

\* Decoding: what is left of the batch is measured but for the last to join.
LEMMA DecodePaced ==
    ASSUME TypeOK, PacingInv, Step PROVE PacingInv'
<1> SUFFICES ASSUME Target > 0, prompt PROVE (AfterStep /\ InPass /\ HeldToTarget)'
  BY DEF PacingInv, Step
<1> PICK c \in 0 .. active, k \in 0 .. ready :
        /\ ready - c <= k /\ k <= active - c
        /\ \/ Measure(k) /\ active' \in active - c - k .. active - c
           \/ k > 0 /\ active' = active - c - k /\ UNCHANGED step_us
  BY DEF Step
<1>1. AfterStep /\ InPass /\ HeldToTarget /\ phase = "step" /\ phase' = "flush" /\ prompt' = prompt
  BY DEF PacingInv, Step
<1>2. active' \in 0 .. active /\ active <= IF ready = 0 THEN 2 ELSE ready + 1
  <2>1. active' \in 0 .. active
    BY Numbers
  <2>2. active <= IF ready = 0 THEN 2 ELSE ready + 1
    BY <1>1 DEF InPass
  <2> QED
    BY <2>1, <2>2
<1>3. HeldToTarget'
  <2>1. ASSUME active' > 3
        PROVE  /\ Cost[active'] <= Cost[active] /\ Cost[active'] \in Nat /\ Cost[active] \in Nat
               /\ active > 3
    <3>1. active' \in 1 .. MaxInflight /\ active \in 1 .. MaxInflight /\ active' <= active /\ active > 3
      BY <1>2, <2>1, Sizes, Numbers
    <3> QED
      BY <3>1, CostOf, CostGrows
  <2> QED
    BY <1>1, <2>1, Sizes, Numbers DEF HeldToTarget
<1>4. InPass'
  BY <1>1 DEF InPass
<1>5. TypeOK'
  BY StepTypes
<1>6. CASE ready = 0 \/ active' <= 1
  <2>1. active' \in Nat /\ active' <= 2
    BY <1>2, <1>6, Sizes, Numbers
  <2>2. step_us' # 0 /\ active' = 2 => 3 * Cost[1] <= 3 * step_us' + 7 * Slope + 9
    <3>1. Cost[1] \in Nat
      BY Sizes, Numbers, CostOf
    <3> QED
      BY <1>5, <3>1, Sizes DEF TypeOK
  <2>3. step_us' # 0 => Trails(active - 1)'
    <3>1. CASE active' = 2
      BY <2>2, <3>1 DEF Trails
    <3>2. CASE active' < 2
      <4> DEFINE left == active'
      <4>1. left \in Nat /\ left < 2
        BY <2>1, <3>2
      <4> HIDE DEF left
      <4>2. ~(left - 1 >= 1)
        BY <4>1
      <4>3. ~(active' - 1 >= 1)
        BY <4>2 DEF left
      <4> QED
        BY <4>3 DEF Trails
    <3> QED
      BY <2>1, <3>1, <3>2
  <2> QED
    BY <1>1, <1>3, <1>4, <2>1, <2>3 DEF AfterStep
<1>7. CASE ready # 0 /\ active' >= 2
  <2>1. k >= 1 /\ active' - 1 \in 1 .. k /\ step_us' = Smoothed(Cost[k])
    <3>1. /\ active' \in Nat /\ active \in Nat /\ ready \in Nat /\ k \in Nat /\ c \in Nat
          /\ active <= ready + 1
      BY <1>2, <1>7, Numbers
    <3>2. CASE Measure(k) /\ active' \in active - c - k .. active - c
      <4>1. active' <= active - c /\ active' >= 2
        BY <1>7, <3>1, <3>2
      <4>2. k >= 1 /\ active' - 1 \in 1 .. k
        BY <3>1, <4>1, Rows
      <4>3. k # 0
        BY <4>2
      <4> QED
        BY <3>2, <4>2, <4>3 DEF Measure
    <3>3. CASE k > 0 /\ active' = active - c - k /\ UNCHANGED step_us
      <4>1. active' <= 1
        BY <3>1, <3>3
      <4> QED
        BY <1>7, <3>1, <4>1
    <3> QED
      BY <3>2, <3>3
  <2>2. k \in 1 .. MaxInflight /\ ready \in 1 .. MaxInflight /\ active' - 1 \in 1 .. MaxInflight
    BY <1>7, <2>1, Sizes, Numbers
  <2>3. /\ Cost[active' - 1] \in Nat /\ Cost[k] \in Nat \ {0} /\ Cost[ready] \in Nat /\ Slope \in Nat
        /\ Cost[active' - 1] <= Cost[k] /\ Cost[k] <= Cost[ready]
    <3>1. active' - 1 <= k /\ k <= ready
      BY <2>1, Numbers
    <3> QED
      BY <2>2, <3>1, CostOf, CostGrows, Sizes
  <2>4. step_us # 0 => 3 * Cost[ready] <= 3 * step_us + 10 * Slope + 9
    <3> HAVE step_us # 0
    <3>1. CASE ready = 1
      <4>1. Cost[1] <= step_us /\ Cost[ready] = Cost[1]
        BY <3>1 DEF TypeOK
      <4> QED
        BY <2>3, <4>1, Numbers
    <3>2. CASE ready > 1
      <4>1. ready - 1 \in 1 .. MaxInflight - 1
        BY <2>2, <3>2, Sizes
      <4>2. 3 * Cost[ready - 1] <= 3 * step_us + 7 * Slope + 9
        <5>1. Trails(ready - 1)
          BY <1>1 DEF InPass
        <5>2. ready - 1 >= 1
          BY <4>1
        <5> QED
          BY <5>1, <5>2 DEF Trails
      <4>3. Cost[ready] <= Cost[ready - 1] + Slope /\ Cost[ready - 1] \in Nat
        <5>1. (ready - 1) + 1 = ready /\ ready - 1 \in 1 .. MaxInflight
          BY <4>1, Sizes, Numbers
        <5>2. Cost[(ready - 1) + 1] <= Cost[ready - 1] + Slope
          BY <4>1, CostOfOneMore
        <5> QED
          BY <5>1, <5>2, CostOf
      <4> QED
        BY <2>3, <4>2, <4>3, Numbers
    <3> QED
      BY <2>2, <3>1, <3>2
  <2>5. 3 * Cost[k] <= 3 * step_us' + 7 * Slope + 9
    <3> DEFINE s == Smoothed(Cost[k])
    <3>1. s \in Nat /\ (step_us = 0 => s = Cost[k])
          /\ (step_us # 0 /\ 3 * Cost[k] <= 3 * step_us + 10 * Slope + 9
                => 3 * Cost[k] <= 3 * s + 7 * Slope + 9)
      BY <2>2, Smoothing
    <3>2. step_us' = s
      BY <2>1
    <3> HIDE DEF s
    <3> QED
      BY <2>3, <2>4, <3>1, <3>2, Numbers
  <2>6. step_us' # 0
    <3>1. Cost[1] <= step_us' /\ step_us' \in Nat
      BY <2>1, <2>2, Smoothing
    <3>2. Cost[1] \in Nat /\ Cost[1] >= 1
      BY Sizes, CostOf
    <3> QED
      BY <3>1, <3>2
  <2>7. Trails(active - 1)'
    <3>1. step_us' \in Nat
      BY <1>5 DEF TypeOK
    <3>2. 3 * Cost[active' - 1] <= 3 * step_us' + 7 * Slope + 9
      BY <2>3, <2>5, <3>1
    <3> QED
      BY <3>2 DEF Trails
  <2> QED
    BY <1>1, <1>3, <1>4, <2>6, <2>7 DEF AfterStep
<1> QED
  BY <1>2, <1>6, <1>7

LEMMA OthersPaced ==
    ASSUME TypeOK, PacingInv, Arrive \/ Flush \/ AdmitReturn \/ AdmitAnswered
    PROVE  PacingInv'
<1> SUFFICES ASSUME (Target > 0 /\ prompt)' PROVE (AfterStep /\ InPass /\ HeldToTarget)'
  BY DEF PacingInv
<1>1. AfterStep /\ InPass /\ HeldToTarget
  <2>1. prompt
    BY Flushed DEF Arrive, AdmitReturn, AdmitAnswered
  <2> QED
    BY <2>1 DEF PacingInv
<1>2. CASE Arrive
  BY <1>1, <1>2 DEF Arrive, AfterStep, InPass, Trails, HeldToTarget
<1>3. CASE AdmitReturn
  BY <1>1, <1>3, Numbers DEF AdmitReturn, AfterStep, InPass, Trails, HeldToTarget
<1>4. CASE AdmitAnswered
  BY <1>1, <1>4, Numbers DEF AdmitAnswered, AfterStep, InPass, Trails, HeldToTarget
<1>5. CASE Flush
  <2>1. PICK left \in Nat : left = active' /\ left = ready' /\ left <= active
    BY <1>5, Flushed
  <2>0. left \in Nat /\ left <= active
    BY <2>1
  <2>2. phase = "flush" /\ phase' = "admit" /\ step_us' = step_us
    BY <1>5, Flushed
  <2>3. (step_us = 0 => active <= 2) /\ (step_us # 0 => Trails(active - 1))
    BY <1>1, <2>2 DEF AfterStep
  <2>4. step_us # 0 => Trails(left - 1)
    <3> SUFFICES ASSUME step_us # 0, left - 1 >= 1
                 PROVE  3 * Cost[left - 1] <= 3 * step_us + 7 * Slope + 9
      BY DEF Trails
    <3>1. left - 1 \in 1 .. MaxInflight /\ active - 1 \in 1 .. MaxInflight /\ left - 1 <= active - 1
      BY <2>0, Sizes, Numbers
    <3>2. /\ Cost[left - 1] \in Nat /\ Cost[active - 1] \in Nat
          /\ Cost[left - 1] <= Cost[active - 1]
      BY <3>1, CostOf, CostGrows
    <3>3. 3 * Cost[active - 1] <= 3 * step_us + 7 * Slope + 9
      BY <2>3, <3>1 DEF Trails
    <3> QED
      BY <3>2, <3>3, Sizes, Numbers
  <2>5. /\ step_us = 0 => left <= 2
        /\ left <= IF left = 0 THEN 2 ELSE left + 1
    BY <2>0, <2>3, Numbers
  <2>6. left > 3 => 3 * Cost[left] < 3 * Target + 13 * Slope + 9
    <3> SUFFICES ASSUME left > 3 PROVE 3 * Cost[left] < 3 * Target + 13 * Slope + 9
      OBVIOUS
    <3>1. left \in 1 .. MaxInflight /\ active \in 1 .. MaxInflight /\ active > 3
      BY <2>1, Sizes, Numbers
    <3>2. Cost[left] \in Nat /\ Cost[active] \in Nat /\ Cost[left] <= Cost[active]
      BY <2>1, <3>1, CostOf, CostGrows
    <3>3. 3 * Cost[active] < 3 * Target + 13 * Slope + 9
      <4>1. Target > 0 /\ prompt
        BY <1>5, Flushed
      <4> QED
        BY <1>1, <3>1, <4>1 DEF HeldToTarget
    <3> QED
      BY <3>2, <3>3, Sizes
  <2>7. AfterStep'
    BY <2>2 DEF AfterStep
  <2>8. InPass'
    BY <2>1, <2>2, <2>4, <2>5 DEF InPass, Trails
  <2>9. HeldToTarget'
    BY <2>1, <2>6 DEF HeldToTarget
  <2> QED
    BY <2>7, <2>8, <2>9
<1> QED
  BY <1>2, <1>3, <1>4, <1>5

\* The inductive invariant.
THEOREM PacingIsInvariant == Spec => [](TypeOK /\ PacingInv)
<1>1. TypeOK /\ PacingInv /\ Next => (TypeOK /\ PacingInv)'
  BY StepTypes, PassTypes, JoinPaced, DecodePaced, OthersPaced DEF Next
<1>2. TypeOK /\ PacingInv /\ UNCHANGED vars => (TypeOK /\ PacingInv)'
  <2> SUFFICES ASSUME TypeOK, PacingInv, UNCHANGED vars PROVE (TypeOK /\ PacingInv)'
    OBVIOUS
  <2>1. TypeOK'
    BY DEF vars, TypeOK
  <2>2. AfterStep' = AfterStep /\ InPass' = InPass /\ HeldToTarget' = HeldToTarget /\ prompt' = prompt
    BY DEF vars, AfterStep, InPass, HeldToTarget, Trails
  <2> QED
    BY <2>1, <2>2 DEF PacingInv
<1>3. TypeOK /\ PacingInv /\ [Next]_vars => (TypeOK /\ PacingInv)'
  BY <1>1, <1>2
<1> QED
  BY <1>3, InitPaced, PTL DEF Spec

\* The measure is always one of a real step.
THEOREM MeasureIsReal == Spec => []TypeOK
<1>1. TypeOK /\ PacingInv => TypeOK
  OBVIOUS
<1> QED
  BY <1>1, PacingIsInvariant, PTL

\* With a target, and callers that keep up, a batch of more than three
\* sequences costs less than the target and four and a third sequences more.
THEOREM TargetIsHeld == Spec => []HeldToTarget
<1>1. TypeOK /\ PacingInv => HeldToTarget
  BY DEF PacingInv, HeldToTarget
<1> QED
  BY <1>1, PacingIsInvariant, PTL
=============================================================================
