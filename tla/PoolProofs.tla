----------------------------- MODULE PoolProofs -----------------------------
(***************************************************************************)
(* Proofs about where the jobs of the engine are and the meters that count *)
(* them, and about what is decoded and what the sequences of the shared    *)
(* context hold: for every number of jobs and slots, every queue, window   *)
(* and batch size, and every width of the meter that can hold the jobs.    *)
(*                                                                         *)
(* OnePlacePerJob and InflightIsOccupancy are, with the invariants of      *)
(* EngineProofs, inductive as they stand: every step leaves each job where *)
(* it is, or moves one job by one place and the meter with it.             *)
(***************************************************************************)
EXTENDS EngineProofs

(***************************************************************************)
(* Sequences without repetitions.                                          *)
(***************************************************************************)
Distinct(s) == \A i, k \in DOMAIN s : s[i] = s[k] => i = k
Elements(s) == {s[i] : i \in DOMAIN s}

\* One more element at the end.
LEMMA AppendDistinct ==
    ASSUME NEW S, NEW s \in Seq(S), NEW e \in S, Distinct(s), e \notin Elements(s)
    PROVE  Distinct(Append(s, e)) /\ Elements(Append(s, e)) = Elements(s) \cup {e}
<1> DEFINE t == Append(s, e)
<1>1. /\ Len(s) \in Nat /\ DOMAIN s = 1 .. Len(s) /\ DOMAIN t = 1 .. Len(s) + 1
      /\ t[Len(s) + 1] = e /\ \A i \in 1 .. Len(s) : t[i] = s[i]
  BY AppendProperties, LenProperties
<1> HIDE DEF t
<1>2. \A i \in 1 .. Len(s) : t[i] # e
  BY <1>1 DEF Elements
<1>3. Distinct(t)
  BY <1>1, <1>2 DEF Distinct
<1>4. Elements(t) = Elements(s) \cup {e}
  BY <1>1 DEF Elements
<1> QED
  BY <1>3, <1>4 DEF t

\* One less at the front.
LEMMA TailDistinct ==
    ASSUME NEW S, NEW s \in Seq(S), s # <<>>, Distinct(s)
    PROVE  /\ Head(s) \in Elements(s)
           /\ Distinct(Tail(s)) /\ Elements(Tail(s)) = Elements(s) \ {Head(s)}
<1> DEFINE t == Tail(s)
<1>1. /\ Len(s) \in Nat \ {0} /\ DOMAIN s = 1 .. Len(s) /\ DOMAIN t = 1 .. Len(s) - 1
      /\ Head(s) = s[1] /\ \A i \in 1 .. Len(s) - 1 : t[i] = s[i + 1]
  BY EmptySeq, HeadTailProperties, LenProperties
<1> HIDE DEF t
<1>2. Distinct(t)
  <2>1. \A i, k \in DOMAIN t : t[i] = t[k] => i + 1 = k + 1
    BY <1>1 DEF Distinct
  <2> QED
    BY <1>1, <2>1 DEF Distinct
<1>3. ASSUME NEW e PROVE e \in Elements(t) <=> e \in Elements(s) \ {Head(s)}
  <2>1. ASSUME NEW i \in DOMAIN t PROVE t[i] \in Elements(s) /\ t[i] # Head(s)
    BY <1>1 DEF Elements, Distinct
  <2>2. ASSUME NEW i \in DOMAIN s, s[i] # Head(s) PROVE s[i] \in Elements(t)
    <3>1. i - 1 \in DOMAIN t /\ t[i - 1] = s[i]
      BY <1>1, <2>2
    <3> QED
      BY <3>1 DEF Elements
  <2> QED
    BY <2>1, <2>2 DEF Elements
<1>4. Elements(t) = Elements(s) \ {Head(s)}
  BY <1>3
<1>5. Head(s) \in Elements(s)
  BY <1>1 DEF Elements
<1> QED
  BY <1>2, <1>4, <1>5 DEF t

\* Its elements are as many as it is long.
LEMMA DistinctCount ==
    ASSUME NEW S, NEW s \in Seq(S), Distinct(s)
    PROVE  Cardinality(Elements(s)) = Len(s)
<1>1. Len(s) \in Nat /\ s \in [1 .. Len(s) -> S] /\ DOMAIN s = 1 .. Len(s)
  BY LenProperties
<1>2. /\ s \in [1 .. Len(s) -> Elements(s)]
      /\ \A i, k \in 1 .. Len(s) : s[i] = s[k] => i = k
      /\ \A e \in Elements(s) : \E i \in 1 .. Len(s) : s[i] = e
  BY <1>1 DEF Elements, Distinct
<1>3. s \in Bijection(1 .. Len(s), Elements(s))
  BY <1>1, <1>2 DEF Bijection, Injection, Surjection, IsInjective
<1>4. ExistsBijection(1 .. Len(s), Elements(s))
  BY <1>3 DEF ExistsBijection
<1>5. IsFiniteSet(1 .. Len(s)) /\ Cardinality(1 .. Len(s)) = Len(s)
  BY <1>1, FS_Interval
<1> QED
  BY <1>4, <1>5, FS_Bijection

(***************************************************************************)
(* The meter.                                                              *)
(***************************************************************************)

\* The jobs in the engine and those not yet counted are among the jobs, and
\* there are fewer of either than the meter can count.
LEMMA Counts ==
    ASSUME TypeOK
    PROVE  /\ Occupying \subseteq Jobs /\ Sent \subseteq Jobs
           /\ Queued \subseteq Jobs /\ Decoding \subseteq Jobs
           /\ IsFiniteSet(Occupying) /\ IsFiniteSet(Sent)
           /\ Cardinality(Occupying) \in 0 .. Wrap - 1 /\ Cardinality(Sent) \in 0 .. Wrap - 1
<1>1. Queued \subseteq Jobs
  BY SeqTypes DEF TypeOK, Queued
<1>2. Decoding \subseteq Jobs
  BY DEF TypeOK, Decoding, Occupied, Slot
<1>3. Occupying \subseteq Jobs /\ Sent \subseteq Jobs
  BY <1>1, <1>2 DEF TypeOK, Occupying, Sent
<1>4. ASSUME NEW A \in SUBSET Jobs
      PROVE  IsFiniteSet(A) /\ Cardinality(A) \in 0 .. Wrap - 1
  <2>1. IsFiniteSet(A) /\ Cardinality(A) <= Cardinality(Jobs) /\ Cardinality(A) \in Nat
    BY JobsAssumption, FS_Subset, FS_CardinalityType
  <2>2. Cardinality(Jobs) \in Nat
    BY JobsAssumption, FS_CardinalityType
  <2> QED
    BY <2>1, <2>2, WrapAssumption
<1> QED
  BY <1>1, <1>2, <1>3, <1>4

\* A number of absolute value below w, modulo w.
LEMMA Modulo ==
    ASSUME NEW w \in Nat, w > 0, NEW x \in Int, -w < x, x < w
    PROVE  x % w = IF x < 0 THEN x + w ELSE x
<1>1. CASE x >= 0
  BY <1>1
<1>2. CASE x < 0
  BY <1>2
<1> QED
  BY <1>1, <1>2

\* A job leaves, and is counted out: the meter wraps below zero when it has
\* not been counted in yet.
LEMMA MeterLeaves ==
    ASSUME TypeOK, InflightIsOccupancy, NEW j \in Occupying,
           Occupying' = Occupying \ {j}, Sent' = Sent, inflight' = CountDown
    PROVE  InflightIsOccupancy'
<1> DEFINE n == Cardinality(Occupying)  m == Cardinality(Sent)
<1>1. Cardinality(Occupying') = n - 1 /\ Cardinality(Occupying') \in Nat
  BY Counts, FS_RemoveElement, FS_CardinalityType
<1>2. /\ n \in 0 .. Wrap - 1 /\ m \in 0 .. Wrap - 1
      /\ Wrap \in Nat /\ Wrap > 0
  BY Counts, Sizes
<1>3. inflight = (n - m) % Wrap /\ inflight' = IF inflight = 0 THEN Wrap - 1 ELSE inflight - 1
  BY DEF InflightIsOccupancy, CountDown
<1> HIDE DEF n, m
<1>4. /\ n - 1 \in Nat
      /\ (n - m) % Wrap = IF n - m < 0 THEN n - m + Wrap ELSE n - m
      /\ (n - 1 - m) % Wrap = IF n - 1 - m < 0 THEN n - 1 - m + Wrap ELSE n - 1 - m
  BY <1>1, <1>2, Modulo
<1>5. inflight' = (n - 1 - m) % Wrap
  BY <1>2, <1>3, <1>4
<1> QED
  BY <1>1, <1>5 DEF InflightIsOccupancy, m

\* A submitted job is counted in, before or after it has left.
LEMMA MeterCounts ==
    ASSUME TypeOK, InflightIsOccupancy, NEW j \in Sent,
           Occupying' = Occupying, Sent' = Sent \ {j}, inflight' = CountUp
    PROVE  InflightIsOccupancy'
<1> DEFINE n == Cardinality(Occupying)  m == Cardinality(Sent)
<1>1. Cardinality(Sent') = m - 1 /\ Cardinality(Sent') \in Nat
  BY Counts, FS_RemoveElement, FS_CardinalityType
<1>2. /\ n \in 0 .. Wrap - 1 /\ m \in 0 .. Wrap - 1
      /\ Wrap \in Nat /\ Wrap > 0
  BY Counts, Sizes
<1>3. inflight = (n - m) % Wrap /\ inflight' = IF inflight = Wrap - 1 THEN 0 ELSE inflight + 1
  BY DEF InflightIsOccupancy, CountUp
<1> HIDE DEF n, m
<1>4. /\ m - 1 \in Nat
      /\ (n - m) % Wrap = IF n - m < 0 THEN n - m + Wrap ELSE n - m
      /\ (n - (m - 1)) % Wrap = IF n - (m - 1) < 0 THEN n - (m - 1) + Wrap ELSE n - (m - 1)
  BY <1>1, <1>2, Modulo
<1>5. inflight' = (n - (m - 1)) % Wrap
  BY <1>2, <1>3, <1>4
<1> QED
  BY <1>1, <1>5 DEF InflightIsOccupancy, n

\* A job is queued: it is in the engine and not counted.
LEMMA MeterEnters ==
    ASSUME TypeOK, InflightIsOccupancy, NEW j, j \notin Occupying, j \notin Sent,
           Occupying' = Occupying \cup {j}, Sent' = Sent \cup {j}, inflight' = inflight
    PROVE  InflightIsOccupancy'
<1>1. /\ Cardinality(Occupying') = Cardinality(Occupying) + 1
      /\ Cardinality(Sent') = Cardinality(Sent) + 1
  BY Counts, FS_AddElement
<1>2. /\ Cardinality(Occupying) \in Int /\ Cardinality(Sent) \in Int
  BY Counts
<1>3. Cardinality(Occupying') - Cardinality(Sent') = Cardinality(Occupying) - Cardinality(Sent)
  BY <1>1, <1>2
<1> QED
  BY <1>3 DEF InflightIsOccupancy

(***************************************************************************)
(* What the steps do to the places.                                        *)
(***************************************************************************)
PlaceInv == OnePlacePerJob /\ InflightIsOccupancy

\* The places and the meter depend on nothing else, and of a slot on its job.
LEMMA PlaceFrame ==
    ASSUME PlaceInv, UNCHANGED <<caller, queue, taken, inflight>>,
           \A s \in SeqIds : slots'[s].job = slots[s].job
    PROVE  PlaceInv'
<1>1. Occupied' = Occupied
  BY DEF Occupied
<1>2. Decoding' = Decoding
  BY <1>1 DEF Decoding, Occupied
<1>3. Queued' = Queued
  BY DEF Queued
<1>4. Occupying' = Occupying /\ Sent' = Sent
  BY <1>2, <1>3 DEF Occupying, Sent
<1>5. \A s, t \in Occupied' : slots'[s].job = slots'[t].job => s = t
  BY <1>1 DEF PlaceInv, OnePlacePerJob, Occupied
<1> QED
  BY <1>2, <1>3, <1>4, <1>5 DEF PlaceInv, OnePlacePerJob, InflightIsOccupancy

\* Giving back a slot takes its job, and no other, out of the engine.
LEMMA VacatePlaces ==
    ASSUME TypeOK, PlaceInv, NEW s \in SeqIds, slots[s].job # NoJob, Vacate(s),
           UNCHANGED <<caller, queue, taken>>
    PROVE  PlaceInv'
<1> DEFINE j == slots[s].job
<1>1. slots' = [slots EXCEPT ![s] = Vacant] /\ inflight' = CountDown
  BY DEF Vacate
<1>2. /\ slots'[s].job = NoJob
      /\ \A t \in SeqIds : t # s => slots'[t] = slots[t]
  BY <1>1 DEF TypeOK, Vacant
<1>3. Occupied' = Occupied \ {s} /\ s \in Occupied
  BY <1>2 DEF Occupied
<1>4. Decoding' = Decoding \ {j} /\ j \in Decoding
  BY <1>2, <1>3 DEF Decoding, Occupied, PlaceInv, OnePlacePerJob
<1>5. Queued' = Queued /\ Sent' = Sent
  BY DEF Queued, Sent
<1>6. j \notin Queued /\ j # taken
  BY <1>4 DEF PlaceInv, OnePlacePerJob
<1> HIDE DEF j
<1>7. Occupying' = Occupying \ {j} /\ j \in Occupying
  BY <1>4, <1>5, <1>6 DEF Occupying
<1>8. OnePlacePerJob'
  <2>1. \A t, u \in Occupied' : slots'[t].job = slots'[u].job => t = u
    BY <1>2, <1>3 DEF PlaceInv, OnePlacePerJob, Occupied
  <2> QED
    BY <1>4, <1>5, <1>7, <2>1 DEF PlaceInv, OnePlacePerJob
<1> QED
  BY <1>1, <1>5, <1>7, <1>8, MeterLeaves DEF PlaceInv

\* The steps of callers: a submission enters the queue, and is counted later.
LEMMA CallerPlaces ==
    ASSUME TypeOK, PlaceInv, CallerStep
    PROVE  PlaceInv'
<1> USE DEF poolVars, loopVars, sharedVars, callerVars
<1>1. ASSUME NEW j \in Jobs, SubmitQueued(j) PROVE PlaceInv'
  <2>1. j \notin Occupying /\ j \notin Sent
    BY <1>1 DEF SubmitQueued, PlaceInv, OnePlacePerJob, Sent
  <2>2. queue \in Seq(Jobs) /\ Distinct(queue) /\ Queued = Elements(queue) /\ j \notin Queued
    BY <2>1 DEF TypeOK, PlaceInv, OnePlacePerJob, Distinct, Queued, Elements, Occupying
  <2>3. Distinct(queue') /\ Elements(queue') = Elements(queue) \cup {j}
    BY <1>1, <2>2, AppendDistinct DEF SubmitQueued
  <2>4. Queued' = Queued \cup {j}
    BY <2>2, <2>3 DEF Queued, Elements
  <2>5. Decoding' = Decoding /\ Occupied' = Occupied /\ taken' = taken /\ slots' = slots
    BY <1>1 DEF SubmitQueued, Decoding, Occupied
  <2>6. Occupying' = Occupying \cup {j}
    BY <2>4, <2>5 DEF Occupying
  <2>7. /\ caller'[j] = "sent"
        /\ \A k \in Jobs : k # j => caller'[k] = caller[k]
    BY <1>1 DEF SubmitQueued, TypeOK
  <2>8. Sent' = Sent \cup {j}
    BY <2>7 DEF Sent
  <2>9. InflightIsOccupancy'
    BY <1>1, <2>1, <2>6, <2>8, MeterEnters DEF SubmitQueued, PlaceInv
  <2>10. \A k \in Occupying' : caller'[k] \notin {"idle", "refused"}
    BY <2>6, <2>7, Counts DEF PlaceInv, OnePlacePerJob
  <2>11. j # taken /\ j \notin Decoding
    BY <2>1, Sizes DEF Occupying
  <2>12. \A i, k \in DOMAIN queue' : queue'[i] = queue'[k] => i = k
    BY <2>3 DEF Distinct
  <2> QED
    BY <2>4, <2>5, <2>9, <2>10, <2>11, <2>12 DEF PlaceInv, OnePlacePerJob
<1>2. ASSUME NEW j \in Jobs, SubmitRefused(j) PROVE PlaceInv'
  <2>1. UNCHANGED <<queue, taken, slots, inflight>> /\ j \notin Occupying
        /\ caller[j] = "idle" /\ caller' = [caller EXCEPT ![j] = "refused"]
    BY <1>2 DEF SubmitRefused, PlaceInv, OnePlacePerJob
  <2>2. UNCHANGED <<Queued, Decoding, Occupied, Occupying>>
    BY <2>1 DEF Queued, Decoding, Occupied, Occupying
  <2>3. Sent' = Sent
    BY <2>1 DEF Sent, TypeOK
  <2>4. \A k \in Occupying : caller'[k] = caller[k]
    BY <2>1, Counts DEF TypeOK
  <2> QED
    BY <2>1, <2>2, <2>3, <2>4 DEF PlaceInv, OnePlacePerJob, InflightIsOccupancy
<1>3. ASSUME NEW j \in Jobs, CountIn(j) PROVE PlaceInv'
  <2>1. UNCHANGED <<queue, taken, slots>> /\ inflight' = CountUp
        /\ caller[j] = "sent" /\ caller' = [caller EXCEPT ![j] = "holding"]
    BY <1>3 DEF CountIn
  <2>2. UNCHANGED <<Queued, Decoding, Occupied, Occupying>>
    BY <2>1 DEF Queued, Decoding, Occupied, Occupying
  <2>3. Sent' = Sent \ {j} /\ j \in Sent
    BY <2>1 DEF Sent, TypeOK
  <2>4. InflightIsOccupancy'
    BY <2>1, <2>2, <2>3, MeterCounts DEF PlaceInv
  <2>5. \A k \in Occupying : caller'[k] \notin {"idle", "refused"}
    BY <2>1, Counts DEF TypeOK, PlaceInv, OnePlacePerJob
  <2> QED
    BY <2>1, <2>2, <2>4, <2>5 DEF PlaceInv, OnePlacePerJob
<1>4. ASSUME NEW j \in Jobs, Recv(j) \/ Cancel(j) PROVE PlaceInv'
  BY <1>4, PlaceFrame DEF Recv, Cancel
<1>5. ASSUME NEW j \in Jobs, DropGeneration(j) PROVE PlaceInv'
  <2>1. UNCHANGED <<queue, taken, slots, inflight>>
        /\ caller[j] = "holding" /\ caller' = [caller EXCEPT ![j] = "dropped"]
    BY <1>5 DEF DropGeneration
  <2>2. UNCHANGED <<Queued, Decoding, Occupied, Occupying>>
    BY <2>1 DEF Queued, Decoding, Occupied, Occupying
  <2>3. Sent' = Sent
    BY <2>1 DEF Sent, TypeOK
  <2>4. \A k \in Occupying : caller'[k] \notin {"idle", "refused"}
    BY <2>1, Counts DEF TypeOK, PlaceInv, OnePlacePerJob
  <2> QED
    BY <2>1, <2>2, <2>3, <2>4 DEF PlaceInv, OnePlacePerJob, InflightIsOccupancy
<1>6. CASE DropHandle
  BY <1>6, PlaceFrame DEF DropHandle
<1> QED
  BY <1>1, <1>2, <1>3, <1>4, <1>5, <1>6 DEF CallerStep

\* The first of the queue: it is nowhere else, and the rest of the queue is.
LEMMA DequeuePlaces ==
    ASSUME TypeOK, PlaceInv, queue # <<>>, Dequeue
    PROVE  /\ Head(queue) \in Jobs /\ Head(queue) \in Queued
           /\ Head(queue) \notin Decoding /\ Head(queue) # taken
           /\ Queued' = Queued \ {Head(queue)}
           /\ \A i, k \in DOMAIN queue' : queue'[i] = queue'[k] => i = k
<1>1. queue \in Seq(Jobs) /\ Distinct(queue) /\ Queued = Elements(queue)
  BY DEF TypeOK, PlaceInv, OnePlacePerJob, Distinct, Queued, Elements
<1>2. /\ Head(queue) \in Elements(queue) /\ Distinct(queue')
      /\ Elements(queue') = Elements(queue) \ {Head(queue)}
  BY <1>1, TailDistinct DEF Dequeue
<1>3. Queued' = Elements(queue')
  BY DEF Queued, Elements
<1> QED
  BY <1>1, <1>2, <1>3, Counts DEF Distinct, PlaceInv, OnePlacePerJob

\* A job cancelled while queued leaves; the next one goes on to prefill.
LEMMA AdmitPlaces ==
    ASSUME TypeOK, PlaceInv, taken = NoJob, AdmitCancelled \/ AdmitTake
    PROVE  PlaceInv'
<1> USE DEF poolVars, loopVars, sharedVars, callerVars
<1> DEFINE j == Head(queue)
<1>1. queue # <<>> /\ Dequeue /\ UNCHANGED <<caller, slots>>
  BY DEF AdmitCancelled, AdmitTake
<1>2. /\ j \in Jobs /\ j \in Queued /\ j \notin Decoding
      /\ Queued' = Queued \ {j}
      /\ \A i, k \in DOMAIN queue' : queue'[i] = queue'[k] => i = k
  BY <1>1, DequeuePlaces
<1>3. UNCHANGED <<Decoding, Occupied, Sent>>
  BY <1>1 DEF Decoding, Occupied, Sent
<1>4. CASE AdmitCancelled
  <2>1. inflight' = CountDown /\ taken' = taken
    BY <1>4 DEF AdmitCancelled
  <2> HIDE DEF j
  <2>2. Occupying' = Occupying \ {j} /\ j \in Occupying
    BY <1>2, <1>3, <2>1 DEF Occupying
  <2>3. OnePlacePerJob'
    BY <1>1, <1>2, <1>3, <2>1, <2>2 DEF PlaceInv, OnePlacePerJob
  <2> QED
    BY <1>3, <2>1, <2>2, <2>3, MeterLeaves DEF PlaceInv
<1>5. CASE AdmitTake
  <2>1. inflight' = inflight /\ taken' = j
    BY <1>5 DEF AdmitTake
  <2> HIDE DEF j
  <2>2. Occupying' = Occupying
    BY <1>2, <1>3, <2>1, Sizes DEF Occupying
  <2>3. j \notin Queued'
    BY <1>2
  <2>4. OnePlacePerJob'
    BY <1>1, <1>2, <1>3, <2>1, <2>2, <2>3 DEF PlaceInv, OnePlacePerJob
  <2> QED
    BY <1>3, <2>1, <2>2, <2>4 DEF PlaceInv, InflightIsOccupancy
<1> QED
  BY <1>4, <1>5

\* The taken job gets a slot, or leaves.
LEMMA PrefillPlaces ==
    ASSUME TypeOK, PoolInv, PlaceInv, NEW s \in SeqIds,
           PrefillRun(s) \/ PrefillFinish(s) \/ PrefillFail(s)
    PROVE  PlaceInv'
<1> USE DEF poolVars, loopVars, sharedVars, callerVars
<1>1. /\ taken \in Jobs /\ slots[s].job = NoJob /\ taken' = NoJob
      /\ UNCHANGED <<caller, queue>>
  BY DEF TypeOK, PoolInv, PhaseInv, PrefillRun, PrefillFinish, PrefillFail, Settle,
         IsFirstFree, Free, Occupied
<1>2. taken \notin Queued /\ taken \notin Decoding /\ taken # NoJob /\ NoJob \notin Queued
  BY <1>1, Sizes, Counts DEF PlaceInv, OnePlacePerJob
<1>3. Queued' = Queued /\ Sent' = Sent
  BY <1>1 DEF Queued, Sent
<1>4. CASE PrefillRun(s)
  <2>1. /\ slots'[s].job = taken /\ inflight' = inflight
        /\ \A t \in SeqIds : t # s => slots'[t] = slots[t]
    BY <1>4 DEF PrefillRun, TypeOK
  <2>2. Occupied' = Occupied \cup {s} /\ s \notin Occupied
    BY <1>1, <1>2, <2>1 DEF Occupied
  <2>3. Decoding' = Decoding \cup {taken}
    BY <2>1, <2>2 DEF Decoding, Occupied
  <2>4. Occupying' = Occupying
    BY <1>1, <1>2, <1>3, <2>3 DEF Occupying
  <2>5. \A t, u \in Occupied' : slots'[t].job = slots'[u].job => t = u
    BY <1>2, <2>1, <2>2 DEF PlaceInv, OnePlacePerJob, Occupied, Decoding
  <2>6. NoJob \notin Decoding'
    BY <1>2, <2>3 DEF Decoding, Occupied
  <2>7. OnePlacePerJob'
    BY <1>1, <1>2, <1>3, <2>3, <2>4, <2>5, <2>6 DEF PlaceInv, OnePlacePerJob
  <2> QED
    BY <1>3, <2>1, <2>4, <2>7 DEF PlaceInv, InflightIsOccupancy
<1>5. CASE PrefillFinish(s) \/ PrefillFail(s)
  <2>1. slots' = slots /\ inflight' = CountDown
    BY <1>5 DEF PrefillFinish, PrefillFail, Settle
  <2>2. UNCHANGED <<Decoding, Occupied>>
    BY <2>1 DEF Decoding, Occupied
  <2>3. Occupying' = Occupying \ {taken} /\ taken \in Occupying
    BY <1>1, <1>2, <1>3, <2>2 DEF Occupying
  <2>4. NoJob \notin Decoding'
    BY <2>2 DEF Decoding, Occupied
  <2>5. OnePlacePerJob'
    BY <1>1, <1>2, <1>3, <2>1, <2>2, <2>3, <2>4 DEF PlaceInv, OnePlacePerJob
  <2> QED
    BY <1>3, <2>1, <2>3, <2>5, MeterLeaves DEF PlaceInv
<1> QED
  BY <1>4, <1>5

\* A job is out of the queue and in no slot only during prefill.
TakenInPrefill == pc # "prefill" => taken = NoJob

LEMMA TakenStep ==
    ASSUME TypeOK, TakenInPrefill, [Next]_vars
    PROVE  TakenInPrefill'
<1> USE DEF poolVars, loopVars, sharedVars, callerVars
<1>1. CASE UNCHANGED vars
  BY <1>1 DEF vars, TakenInPrefill
<1>2. CASE CallerStep
  <2>1. UNCHANGED <<pc, taken>>
    BY <1>2 DEF CallerStep, SubmitQueued, SubmitRefused, CountIn, Recv, Cancel,
                DropGeneration, DropHandle
  <2> QED
    BY <2>1 DEF TakenInPrefill
<1>3. CASE AdmitTake
  BY <1>3 DEF AdmitTake, TakenInPrefill
<1>4. ASSUME NEW s \in SeqIds, PrefillRun(s) \/ PrefillFinish(s) \/ PrefillFail(s)
      PROVE  TakenInPrefill'
  BY <1>4 DEF PrefillRun, PrefillFinish, PrefillFail, Settle, TakenInPrefill
<1>5. CASE EngineStep /\ ~AdmitTake
            /\ \A s \in SeqIds : ~(PrefillRun(s) \/ PrefillFinish(s) \/ PrefillFail(s))
  <2>1. taken' = taken /\ pc # "prefill"
    BY <1>5 DEF EngineStep, DrainDeliver, DrainKeep, DrainDiscard, DrainEnd, FlushReady,
         FlushDeliver, FlushStalled, StallTimeout, FlushClosed, FlushEnd, AdmitNone,
         AdmitClosed, AdmitCancelled, MeterExit, MeterStep, CollectSkip, CollectCancelled,
         CollectRow, CollectFail, CollectEnd, DecodeOk, DecodeFail, FailRow, FailEnd,
         SampleEog, SampleFail, SampleToken, SampleLast, SampleEnd
  <2> QED
    BY <2>1 DEF TakenInPrefill
<1> QED
  BY <1>1, <1>2, <1>3, <1>4, <1>5 DEF Next

\* The flush and the collection: a slot given back holds a job.
LEMMA SlotPlaces ==
    ASSUME TypeOK, PoolInv, PlaceInv, NEW s \in SeqIds,
           \/ FlushReady(s) \/ FlushDeliver(s) \/ FlushStalled(s)
           \/ StallTimeout(s) \/ FlushClosed(s)
           \/ CollectSkip(s) \/ CollectCancelled(s) \/ CollectRow(s) \/ CollectFail(s)
    PROVE  PlaceInv'
<1> USE DEF poolVars, loopVars, sharedVars, callerVars
<1>1. CASE FlushReady(s) \/ CollectSkip(s) \/ CollectRow(s)
  BY <1>1, PlaceFrame DEF FlushReady, CollectSkip, CollectRow
<1>2. CASE FlushDeliver(s) \/ FlushStalled(s)
  <2>1. UNCHANGED <<caller, queue, taken, inflight>>
    BY <1>2 DEF FlushDeliver, FlushStalled
  <2>2. CASE FlushDeliver(s)
    <3>1. \A t \in SeqIds : slots'[t].job = slots[t].job
      BY <2>2 DEF FlushDeliver, TypeOK, Slot
    <3> QED
      BY <2>1, <3>1, PlaceFrame
  <2>3. CASE FlushStalled(s)
    <3>1. \A t \in SeqIds : slots'[t].job = slots[t].job
      BY <2>3 DEF FlushStalled, TypeOK, Slot
    <3> QED
      BY <2>1, <3>1, PlaceFrame
  <2> QED
    BY <1>2, <2>2, <2>3
<1>3. CASE StallTimeout(s) \/ FlushClosed(s) \/ CollectCancelled(s) \/ CollectFail(s)
  <2>1. Vacate(s) /\ UNCHANGED <<caller, queue, taken>>
    BY <1>3 DEF StallTimeout, FlushClosed, CollectCancelled, CollectFail, Retire, Fail
  <2>2. slots[s].job # NoJob
    BY <1>3 DEF StallTimeout, FlushClosed, CollectCancelled, CollectFail, Cancelled, Ready,
                PoolInv, PhaseInv
  <2> QED
    BY <2>1, <2>2, VacatePlaces
<1> QED
  BY <1>1, <1>2, <1>3

\* The rows.
LEMMA RowPlaces ==
    ASSUME TypeOK, PoolInv, PlaceInv,
           FailRow \/ SampleEog \/ SampleFail \/ SampleToken \/ SampleLast
    PROVE  PlaceInv'
<1> USE DEF poolVars, loopVars, sharedVars, callerVars
<1>1. RowSlot \in SeqIds /\ slots[RowSlot].job # NoJob
  BY HeadRow, Sizes DEF PoolInv, FailRow, SampleEog, SampleFail, SampleToken, SampleLast
<1>2. CASE SampleToken
  <2>1. UNCHANGED <<caller, queue, taken, inflight>>
        /\ \A t \in SeqIds : slots'[t].job = slots[t].job
    BY <1>2 DEF SampleToken, TypeOK, Slot, Sampled
  <2> QED
    BY <2>1, PlaceFrame
<1>3. CASE FailRow \/ SampleEog \/ SampleFail \/ SampleLast
  <2>1. Vacate(RowSlot) /\ UNCHANGED <<caller, queue, taken>>
    BY <1>3 DEF FailRow, SampleEog, SampleFail, SampleLast, Fail, Retire, RowSlot
  <2> QED
    BY <1>1, <2>1, VacatePlaces
<1> QED
  BY <1>2, <1>3

\* Every step keeps each job in at most one place, and the meter right.
LEMMA PlaceStep ==
    TypeOK /\ PoolInv /\ PlaceInv /\ TakenInPrefill /\ [Next]_vars => PlaceInv'
<1> SUFFICES ASSUME TypeOK, PoolInv, PlaceInv, TakenInPrefill, [Next]_vars
             PROVE  PlaceInv'
  OBVIOUS
<1> USE DEF poolVars, loopVars, sharedVars, callerVars
<1>1. CASE UNCHANGED vars
  BY <1>1, PlaceFrame DEF vars
<1>2. CASE \/ DrainDeliver \/ DrainKeep \/ DrainDiscard \/ DrainEnd \/ FlushEnd
           \/ AdmitNone \/ AdmitClosed \/ MeterExit \/ MeterStep \/ CollectEnd
           \/ DecodeOk \/ DecodeFail \/ FailEnd \/ SampleEnd
  <2>1. UNCHANGED <<caller, queue, taken, inflight, slots>>
    BY <1>2 DEF DrainDeliver, DrainKeep, DrainDiscard, DrainEnd, FlushEnd, AdmitNone,
         AdmitClosed, MeterExit, MeterStep, CollectEnd, DecodeOk, DecodeFail, FailEnd, SampleEnd
  <2> QED
    BY <2>1, PlaceFrame
<1>3. CASE AdmitCancelled \/ AdmitTake
  BY <1>3, AdmitPlaces DEF AdmitCancelled, AdmitTake, TakenInPrefill
<1> QED
  BY <1>1, <1>2, <1>3, CallerPlaces, SlotPlaces, PrefillPlaces, RowPlaces DEF Next, EngineStep

(***************************************************************************)
(* The theorems.                                                           *)
(***************************************************************************)

\* Initially the engine is empty, and its meter is 0.
LEMMA InitPlaces == Init => PlaceInv /\ TakenInPrefill
<1> SUFFICES ASSUME Init PROVE PlaceInv /\ TakenInPrefill
  OBVIOUS
<1>1. Occupied = {} /\ taken = NoJob /\ DOMAIN queue = {}
  BY DEF Init, Occupied, Vacant
<1>2. Queued = {} /\ Decoding = {} /\ Occupying = {} /\ Sent = {}
  BY <1>1 DEF Init, Queued, Decoding, Occupying, Sent
<1>3. inflight = 0 /\ Cardinality({}) = 0 /\ (0 - 0) % Wrap = 0
  BY Sizes, FS_EmptySet DEF Init
<1> QED
  BY <1>1, <1>2, <1>3 DEF PlaceInv, OnePlacePerJob, InflightIsOccupancy, TakenInPrefill

\* The inductive invariant.
THEOREM PlacesAreConsistent == Spec => [](PlaceInv /\ TakenInPrefill)
<1>1. TypeOK /\ PoolInv /\ PlaceInv /\ TakenInPrefill /\ [Next]_vars
        => (PlaceInv /\ TakenInPrefill)'
  BY PlaceStep, TakenStep
<1> QED
  BY PoolIsConsistent, InitPlaces, <1>1, PTL DEF Spec

\* No job is in two slots, or in the queue twice, or queued again once taken.
THEOREM EachJobHasOnePlace == Spec => []OnePlacePerJob
<1>1. PlaceInv => OnePlacePerJob
  BY DEF PlaceInv
<1> QED
  BY PlacesAreConsistent, <1>1, PTL

\* The meter, moved without a lock by any number of submits and by the engine
\* thread, in any order, is the number of jobs in the engine less those not yet
\* counted, as long as usize can hold the number of jobs.
THEOREM MeterIsTrue == Spec => []InflightIsOccupancy
<1>1. PlaceInv => InflightIsOccupancy
  BY DEF PlaceInv
<1> QED
  BY PlacesAreConsistent, <1>1, PTL

\* A refused submission found at least as many jobs in the engine as it has
\* slots, whatever depth was configured.
THEOREM RefusedWhenBusy == Spec => RefusedOnlyWhenBusy
<1>1. ASSUME TypeOK, PlaceInv, [Next]_vars, NEW j \in Jobs,
             caller[j] = "idle", caller'[j] = "refused"
      PROVE  MaxInflight <= Cardinality(Occupying)
  <2> USE DEF poolVars, loopVars, sharedVars, callerVars
  <2>1. SubmitRefused(j)
    <3>1. caller' # caller
      BY <1>1
    <3>2. CallerStep
      BY <1>1, <3>1
         DEF vars, Next, EngineStep, DrainDeliver, DrainKeep, DrainDiscard, DrainEnd, FlushReady,
         FlushDeliver, FlushStalled, StallTimeout, FlushClosed, FlushEnd, AdmitNone,
         AdmitClosed, AdmitCancelled, AdmitTake, PrefillRun, PrefillFinish, PrefillFail,
         MeterExit, MeterStep, CollectSkip, CollectCancelled,
         CollectRow, CollectFail, CollectEnd, DecodeOk, DecodeFail, FailRow, FailEnd,
         SampleEog, SampleFail, SampleToken, SampleLast, SampleEnd
    <3>3. ASSUME NEW k \in Jobs,
                 SubmitQueued(k) \/ CountIn(k) \/ Recv(k) \/ Cancel(k) \/ DropGeneration(k)
          PROVE  FALSE
      BY <1>1, <3>3 DEF SubmitQueued, CountIn, Recv, Cancel, DropGeneration, TypeOK
    <3>4. ASSUME NEW k \in Jobs, SubmitRefused(k) PROVE k = j
      BY <1>1, <3>4 DEF SubmitRefused, TypeOK
    <3>5. ~DropHandle
      BY <1>1 DEF DropHandle
    <3> QED
      BY <3>2, <3>3, <3>4, <3>5 DEF CallerStep
  <2>2. MaxInflight <= Len(queue)
    BY <1>1, <2>1, Sizes, SizeAssumption, LenProperties DEF SubmitRefused, QueueFull, QueueLimit, TypeOK
  <2>3. Cardinality(Queued) = Len(queue)
    <3>1. queue \in Seq(Jobs) /\ Distinct(queue) /\ Queued = Elements(queue)
      BY <1>1 DEF TypeOK, PlaceInv, OnePlacePerJob, Distinct, Queued, Elements
    <3> QED
      BY <3>1, DistinctCount
  <2>4. Cardinality(Queued) <= Cardinality(Occupying)
    BY <1>1, Counts, FS_Subset DEF Occupying
  <2> QED
    BY <1>1, <2>2, <2>3, <2>4, Counts, Sizes
<1>2. TypeOK /\ PlaceInv /\ [Next]_vars =>
        [\A j \in Jobs : caller[j] = "idle" /\ caller'[j] = "refused"
            => MaxInflight <= Cardinality(Occupying)]_vars
  BY <1>1
<1> QED
  BY PoolIsConsistent, PlacesAreConsistent, <1>2, PTL DEF Spec, RefusedOnlyWhenBusy


(***************************************************************************)
(* The published number of jobs in the batch.                              *)
(***************************************************************************)
Stepping == {"collect", "decode", "failing", "sample"}

\* During a step the slots occupied are those there were when it began, or
\* fewer.
DecodingInv == pc \in Stepping => Cardinality(Occupied) <= decoding

LEMMA OccupiedFinite ==
    /\ IsFiniteSet(Occupied) /\ Cardinality(Occupied) \in Nat
    /\ \A A \in SUBSET Occupied : IsFiniteSet(A) /\ Cardinality(A) \in Nat
                                  /\ Cardinality(A) <= Cardinality(Occupied)
<1>1. IsFiniteSet(SeqIds)
  BY Sizes, FS_Interval DEF SeqIds
<1>2. IsFiniteSet(Occupied)
  BY <1>1, FS_Subset DEF Occupied
<1> QED
  BY <1>2, FS_Subset, FS_CardinalityType

\* There is at most one row for each occupied slot.
LEMMA RowsAreFew ==
    ASSUME TypeOK, RowsMatchSlots
    PROVE  Len(rows) <= Cardinality(Occupied)
<1> DEFINE t == [i \in 1 .. Len(rows) |-> rows[i][1]]
<1>1. rows \in Seq(SeqIds \X Nat) /\ Len(rows) \in Nat /\ DOMAIN rows = 1 .. Len(rows)
  BY LenProperties DEF TypeOK
<1>2. \A i \in 1 .. Len(rows) : rows[i] \in SeqIds \X Nat
  BY <1>1, SeqTypes
<1>3. \A i \in 1 .. Len(rows) : rows[i][1] \in Occupied
  BY <1>1, <1>2 DEF RowsMatchSlots, RowMatches, Occupied
<1>4. t \in Seq(SeqIds) /\ Len(t) = Len(rows) /\ DOMAIN t = 1 .. Len(rows)
  BY <1>1, <1>2
<1>5. Distinct(t)
  BY <1>1, <1>4 DEF Distinct, RowsMatchSlots
<1>6. Elements(t) \subseteq Occupied
  BY <1>3, <1>4 DEF Elements
<1> HIDE DEF t
<1>7. Cardinality(Elements(t)) = Len(rows)
  BY <1>4, <1>5, DistinctCount
<1> QED
  BY <1>6, <1>7, OccupiedFinite

\* A slot given back is one less.
LEMMA VacateOccupied ==
    ASSUME TypeOK, NEW s \in SeqIds, Vacate(s)
    PROVE  Occupied' \subseteq Occupied
<1>1. \A t \in SeqIds : slots'[t].job # NoJob => slots'[t] = slots[t]
  BY DEF Vacate, TypeOK, Vacant
<1> QED
  BY <1>1 DEF Occupied

LEMMA DecodingStep == TypeOK /\ DecodingInv /\ [Next]_vars => DecodingInv'
<1> SUFFICES ASSUME TypeOK, DecodingInv, [Next]_vars, pc' \in Stepping
             PROVE  Cardinality(Occupied') <= decoding'
  BY DEF DecodingInv
<1> USE DEF poolVars, loopVars, sharedVars, callerVars
<1>1. ASSUME pc \in Stepping, decoding' = decoding, Occupied' \subseteq Occupied
      PROVE  Cardinality(Occupied') <= decoding'
  <2>1. Cardinality(Occupied') <= Cardinality(Occupied) /\ Cardinality(Occupied') \in Nat
    BY <1>1, OccupiedFinite
  <2> QED
    BY <1>1, <2>1, OccupiedFinite DEF DecodingInv, TypeOK
<1>2. CASE MeterStep
  <2>1. Occupied' = Occupied /\ decoding' = Cardinality(Occupied)
    BY <1>2 DEF MeterStep, Occupied
  <2> QED
    BY <2>1, OccupiedFinite
<1>3. CASE UNCHANGED vars \/ CallerStep \/ CollectEnd \/ DecodeOk \/ DecodeFail
  <2>1. UNCHANGED <<slots, decoding>>
    BY <1>3 DEF vars, CallerStep, SubmitQueued, SubmitRefused, CountIn, Recv, Cancel,
                DropGeneration, DropHandle, CollectEnd, DecodeOk, DecodeFail
  <2>2. pc \in Stepping
    BY <1>3 DEF vars, CallerStep, SubmitQueued, SubmitRefused, CountIn, Recv, Cancel,
                DropGeneration, DropHandle, CollectEnd, DecodeOk, DecodeFail, Stepping
  <2> QED
    BY <1>1, <2>1, <2>2 DEF Occupied
<1>4. ASSUME NEW s \in SeqIds,
             CollectSkip(s) \/ CollectCancelled(s) \/ CollectRow(s) \/ CollectFail(s)
      PROVE  Cardinality(Occupied') <= decoding'
  <2>1. pc \in Stepping /\ decoding' = decoding
    BY <1>4 DEF CollectSkip, CollectCancelled, CollectRow, CollectFail, Stepping
  <2>2. slots' = slots \/ Vacate(s)
    BY <1>4 DEF CollectSkip, CollectCancelled, CollectRow, CollectFail, Retire, Fail
  <2>3. Occupied' \subseteq Occupied
    BY <2>2, VacateOccupied DEF Occupied
  <2> QED
    BY <1>1, <2>1, <2>3
<1>5. CASE FailRow \/ SampleEog \/ SampleFail \/ SampleToken \/ SampleLast
  <2>1. pc \in Stepping /\ decoding' = decoding
    BY <1>5 DEF FailRow, SampleEog, SampleFail, SampleToken, SampleLast, Stepping
  <2>2. CASE SampleToken
    <3>1. \A t \in SeqIds : slots'[t].job = slots[t].job
      BY <2>2 DEF SampleToken, Sampled, TypeOK, Slot
    <3> QED
      BY <1>1, <2>1, <3>1 DEF Occupied
  <2>3. CASE ~SampleToken
    <3>1. slots' = [slots EXCEPT ![RowSlot] = Vacant]
      BY <1>5, <2>3 DEF FailRow, SampleEog, SampleFail, SampleLast, Retire, Fail, Vacate, RowSlot
    <3>2. \A t \in SeqIds : slots'[t].job # NoJob => slots'[t] = slots[t]
      BY <3>1 DEF TypeOK, Vacant
    <3> QED
      BY <1>1, <2>1, <3>2 DEF Occupied
  <2> QED
    BY <2>2, <2>3
<1>6. CASE EngineStep
  <2>1. \/ MeterStep \/ CollectEnd \/ DecodeOk \/ DecodeFail
        \/ FailRow \/ SampleEog \/ SampleFail \/ SampleToken \/ SampleLast
        \/ \E s \in SeqIds :
             CollectSkip(s) \/ CollectCancelled(s) \/ CollectRow(s) \/ CollectFail(s)
    BY <1>6 DEF EngineStep, DrainDeliver, DrainKeep, DrainDiscard, DrainEnd, FlushReady,
         FlushDeliver, FlushStalled, StallTimeout, FlushClosed, FlushEnd, AdmitNone,
         AdmitClosed, AdmitCancelled, AdmitTake, PrefillRun, PrefillFinish, PrefillFail,
         Settle, MeterExit, FailEnd, SampleEnd, Stepping
  <2> QED
    BY <1>2, <1>3, <1>4, <1>5, <2>1
<1> QED
  BY <1>3, <1>6 DEF Next

\* A scheduler that reads `decoding` during a step reads no less than what the
\* step decodes, whichever slots are given back meanwhile.
THEOREM DecodingIsCovered == Spec => []DecodingCoversTheBatch
<1>1. Init => DecodingInv
  BY DEF Init, DecodingInv, Stepping
<1>2. TypeOK /\ PoolInv /\ DecodingInv => DecodingCoversTheBatch
  <2> SUFFICES ASSUME TypeOK, PoolInv, DecodingInv, pc \in Stepping
               PROVE  Cardinality(Occupied) <= decoding /\ Len(rows) <= decoding
    BY DEF DecodingCoversTheBatch, Stepping
  <2>1. Len(rows) <= Cardinality(Occupied) /\ Len(rows) \in Nat
    BY RowsAreFew, LenProperties DEF PoolInv, TypeOK
  <2> QED
    BY <2>1, OccupiedFinite DEF DecodingInv, TypeOK
<1> QED
  BY PoolIsConsistent, DecodingStep, <1>1, <1>2, PTL DEF Spec

(***************************************************************************)
(* What a sequence holds.                                                  *)
(*                                                                         *)
(* Between steps a sequence holds the positions up to n_cur.  A step puts  *)
(* the position n_cur in the sequence of every row, and then moves n_cur   *)
(* on, or gives the slot back, one row after another.                      *)
(***************************************************************************)
Positions(s) == {c.pos : c \in kv[s]}
RowSlots     == {rows[i][1] : i \in DOMAIN rows}

\* A slot's counters are those of the job's request, and leave room for a token.
OnCourse(slot) ==
    LET r == req[slot.job]
    IN  /\ Fits(r)
        /\ slot.budget = Budget(r) /\ slot.budget > 0
        /\ slot.context_bound = ContextBound(r)
        /\ slot.n_cur = r.prompt + slot.n_decoded - 1
        /\ slot.n_decoded = 1 \/ slot.n_decoded \in 2 .. slot.budget - 1
CourseInv == \A s \in Occupied : OnCourse(slots[s])

\* Every row of the batch is one of those to sample, and in that order.
BatchIsRows ==
    pc \in {"collect", "decode"} =>
        /\ Len(rows) = Len(batch)
        /\ \A i \in DOMAIN batch : rows[i] = <<batch[i].seq, i - 1>>

\* The slots whose row is written and not yet sampled, or may have been written.
Marked(s) == pc \in {"sample", "failing"} /\ s \in RowSlots

CellsInv ==
    \A s \in Occupied :
        /\ 0 .. slots[s].n_cur - 1 \subseteq Positions(s)
        /\ Positions(s) \subseteq 0 .. slots[s].n_cur
        /\ ~Marked(s) => slots[s].n_cur \notin Positions(s)
        /\ Marked(s) /\ pc = "sample" => slots[s].n_cur \in Positions(s)

\* The counters of a slot, and its job, are as they were.
SameCourse(s) ==
    /\ slots'[s].job = slots[s].job /\ slots'[s].n_cur = slots[s].n_cur
    /\ slots'[s].n_decoded = slots[s].n_decoded /\ slots'[s].budget = slots[s].budget
    /\ slots'[s].context_bound = slots[s].context_bound

\* What a step does to the slots and their sequences: nothing, or to one slot
\* one of a few things.
LEMMA SlotSteps ==
    ASSUME TypeOK, PoolInv, [Next]_vars
    PROVE  \/ UNCHANGED <<slots, kv>>
           \/ \E s \in SeqIds : FlushDeliver(s) \/ FlushStalled(s)
           \/ \E s \in SeqIds : Vacate(s) /\ slots[s].job # NoJob
           \/ \E s \in SeqIds : PrefillRun(s)
           \/ \E s \in SeqIds : s \notin Occupied /\ slots' = slots
                                /\ kv' = [kv EXCEPT ![s] = {}]
           \/ DecodeOk \/ DecodeFail \/ SampleToken
<1> USE DEF poolVars, loopVars, sharedVars, callerVars
<1>1. CASE UNCHANGED vars \/ CallerStep
  BY <1>1 DEF vars, CallerStep, SubmitQueued, SubmitRefused, CountIn, Recv, Cancel,
              DropGeneration, DropHandle
<1>2. CASE \/ DrainDeliver \/ DrainKeep \/ DrainDiscard \/ DrainEnd \/ FlushEnd
           \/ AdmitNone \/ AdmitClosed \/ AdmitCancelled \/ AdmitTake
           \/ MeterExit \/ MeterStep \/ CollectEnd \/ FailEnd \/ SampleEnd
  BY <1>2 DEF DrainDeliver, DrainKeep, DrainDiscard, DrainEnd, FlushEnd, AdmitNone,
       AdmitClosed, AdmitCancelled, AdmitTake, MeterExit, MeterStep, CollectEnd,
       FailEnd, SampleEnd
<1>3. ASSUME NEW s \in SeqIds, FlushReady(s) \/ CollectSkip(s) \/ CollectRow(s)
      PROVE  UNCHANGED <<slots, kv>>
  BY <1>3 DEF FlushReady, CollectSkip, CollectRow
<1>4. ASSUME NEW s \in SeqIds,
             StallTimeout(s) \/ FlushClosed(s) \/ CollectCancelled(s) \/ CollectFail(s)
      PROVE  Vacate(s) /\ slots[s].job # NoJob
  BY <1>4 DEF StallTimeout, FlushClosed, CollectCancelled, CollectFail, Retire, Fail,
              Cancelled, Ready, PoolInv, PhaseInv
<1>5. ASSUME NEW s \in SeqIds, PrefillFinish(s) \/ PrefillFail(s)
      PROVE  s \notin Occupied /\ slots' = slots /\ kv' = [kv EXCEPT ![s] = {}]
  BY <1>5 DEF PrefillFinish, PrefillFail, Settle, IsFirstFree, Free
<1>6. CASE FailRow \/ SampleEog \/ SampleFail \/ SampleLast
  <2>1. RowSlot \in SeqIds /\ slots[RowSlot].job # NoJob
    BY <1>6, HeadRow, Sizes DEF PoolInv, FailRow, SampleEog, SampleFail, SampleLast
  <2>2. Vacate(RowSlot)
    BY <1>6 DEF FailRow, SampleEog, SampleFail, SampleLast, Fail, Retire, RowSlot
  <2> QED
    BY <2>1, <2>2
<1> QED
  BY <1>1, <1>2, <1>3, <1>4, <1>5, <1>6 DEF Next, EngineStep

\* A request never changes once made.
LEMMA RequestsAreFixed == [Next]_vars => req' = req
<1> USE DEF poolVars, loopVars, sharedVars, callerVars
<1>1. UNCHANGED vars \/ CallerStep => req' = req
  BY DEF vars, CallerStep, SubmitQueued, SubmitRefused, CountIn, Recv, Cancel,
         DropGeneration, DropHandle
<1>2. EngineStep => req' = req
  BY DEF EngineStep, DrainDeliver, DrainKeep, DrainDiscard, DrainEnd, FlushReady,
         FlushDeliver, FlushStalled, StallTimeout, FlushClosed, FlushEnd, AdmitNone,
         AdmitClosed, AdmitCancelled, AdmitTake, PrefillRun, PrefillFinish, PrefillFail,
         MeterExit, MeterStep, CollectSkip, CollectCancelled,
         CollectRow, CollectFail, CollectEnd, DecodeOk, DecodeFail, FailRow, FailEnd,
         SampleEog, SampleFail, SampleToken, SampleLast, SampleEnd
<1> QED
  BY <1>1, <1>2 DEF Next

\* Slots that are as they were, or were given back.
LEMMA VacateRest ==
    ASSUME TypeOK, NEW s \in SeqIds, Vacate(s)
    PROVE  /\ s \notin Occupied'
           /\ \A t \in SeqIds : t # s => slots'[t] = slots[t] /\ kv'[t] = kv[t]
           /\ \A t \in Occupied' : t \in Occupied /\ t # s
<1>1. slots'[s].job = NoJob
      /\ \A t \in SeqIds : t # s => slots'[t] = slots[t] /\ kv'[t] = kv[t]
  BY DEF Vacate, TypeOK, Vacant
<1> QED
  BY <1>1 DEF Occupied

\* A delivery, or a stall, moves no counter.
LEMMA FlushKeepsCourse ==
    ASSUME TypeOK, NEW s \in SeqIds, FlushDeliver(s) \/ FlushStalled(s)
    PROVE  kv' = kv /\ \A t \in SeqIds : SameCourse(t)
<1>1. CASE FlushDeliver(s)
  BY <1>1 DEF FlushDeliver, TypeOK, Slot, SameCourse
<1>2. CASE FlushStalled(s)
  <2>1. kv' = kv /\ slots' = [slots EXCEPT ![s].stalled = TRUE] /\ slots \in [SeqIds -> Slot]
    BY <1>2 DEF FlushStalled, TypeOK
  <2>2. \A t \in SeqIds : slots'[t] = slots[t] \/ slots'[t] = [slots[t] EXCEPT !.stalled = TRUE]
    BY <2>1
  <2> QED
    BY <2>1, <2>2 DEF SameCourse, Slot
<1> QED
  BY <1>1, <1>2

\* The slot that gets the token, and the others.
LEMMA SampleTokenSlots ==
    ASSUME TypeOK, PoolInv, SampleToken
    PROVE  /\ RowSlot \in Occupied /\ slots[RowSlot] \in Slot
           /\ slots'[RowSlot] = Sampled
           /\ \A t \in SeqIds : t # RowSlot => slots'[t] = slots[t]
           /\ Occupied' = Occupied /\ kv' = kv
<1> USE DEF poolVars, loopVars, sharedVars, callerVars
<1>1. RowSlot \in SeqIds /\ slots[RowSlot].job \in Jobs /\ slots[RowSlot] \in Slot
  BY HeadRow DEF PoolInv, SampleToken
<1>2. slots' = [slots EXCEPT ![RowSlot] = Sampled] /\ kv' = kv
  BY DEF SampleToken
<1>3. /\ slots'[RowSlot] = Sampled
      /\ \A t \in SeqIds : t # RowSlot => slots'[t] = slots[t]
  BY <1>1, <1>2 DEF TypeOK
<1>4. Sampled.job = slots[RowSlot].job
  BY DEF Sampled
<1> QED
  BY <1>1, <1>2, <1>3, <1>4, Sizes DEF Occupied

\* The slot that is filled, and the others.
LEMMA PrefillRunSlots ==
    ASSUME TypeOK, PoolInv, NEW s \in SeqIds, PrefillRun(s)
    PROVE  /\ s \notin Occupied /\ Occupied' = Occupied \cup {s}
           /\ \A t \in SeqIds : t # s => slots'[t] = slots[t] /\ kv'[t] = kv[t]
           /\ slots'[s] = [job |-> taken, n_cur |-> req[taken].prompt, n_decoded |-> 1,
                    budget |-> Budget(req[taken]),
                    context_bound |-> ContextBound(req[taken]),
                    pending |-> Token(taken, 1), stalled |-> FALSE]
           /\ kv'[s] = PromptCells(taken) /\ taken \in Jobs
           /\ req[taken] \in Request /\ Fits(req[taken]) /\ Budget(req[taken]) > 0
<1> USE DEF poolVars, loopVars, sharedVars, callerVars
<1>1. taken \in Jobs /\ slots[s].job = NoJob
  BY DEF TypeOK, PoolInv, PhaseInv, PrefillRun, IsFirstFree, Free, Occupied
<1>2. kv[s] = {}
  BY <1>1, VacantIsEmpty DEF PoolInv
<1>3. kv'[s] = PromptCells(taken) /\ \A t \in SeqIds : t # s => slots'[t] = slots[t] /\ kv'[t] = kv[t]
  BY <1>2 DEF PrefillRun, TypeOK
<1>4. slots'[s] = [job |-> taken, n_cur |-> req[taken].prompt, n_decoded |-> 1,
                    budget |-> Budget(req[taken]),
                    context_bound |-> ContextBound(req[taken]),
                    pending |-> Token(taken, 1), stalled |-> FALSE]
  BY DEF PrefillRun, TypeOK
<1>5. slots'[s].job = taken
  BY <1>4
<1>6. s \notin Occupied /\ Occupied' = Occupied \cup {s}
  BY <1>1, <1>3, <1>5, Sizes DEF Occupied
<1>7. req[taken] \in Request /\ Fits(req[taken]) /\ Budget(req[taken]) > 0
  BY <1>1 DEF TypeOK, PrefillRun
<1> QED
  BY <1>1, <1>3, <1>4, <1>6, <1>7

\* The counters stay on the course the request set.
LEMMA CourseStep == TypeOK /\ PoolInv /\ CourseInv /\ [Next]_vars => CourseInv'
<1> SUFFICES ASSUME TypeOK, PoolInv, CourseInv, [Next]_vars PROVE CourseInv'
  OBVIOUS
<1> USE DEF poolVars, loopVars, sharedVars, callerVars
<1>1. req' = req
  BY RequestsAreFixed
<1>2. ASSUME \A t \in Occupied' : t \in Occupied /\ SameCourse(t)
      PROVE  CourseInv'
  BY <1>1, <1>2 DEF CourseInv, OnCourse, SameCourse
<1>3. CASE UNCHANGED slots
  BY <1>2, <1>3 DEF Occupied, SameCourse
<1>4. ASSUME NEW s \in SeqIds, FlushDeliver(s) \/ FlushStalled(s) PROVE CourseInv'
  <2>1. \A t \in SeqIds : SameCourse(t)
    BY <1>4, FlushKeepsCourse
  <2> QED
    BY <1>2, <2>1 DEF SameCourse, Occupied
<1>5. ASSUME NEW s \in SeqIds, Vacate(s) PROVE CourseInv'
  <2>1. \A t \in Occupied' : t \in Occupied /\ slots'[t] = slots[t]
    BY <1>5, VacateRest DEF Occupied
  <2> QED
    BY <1>2, <2>1 DEF SameCourse
<1>6. ASSUME NEW s \in SeqIds, PrefillRun(s) PROVE CourseInv'
  <2>1. req[taken].prompt \in Nat
    BY <1>6, PrefillRunSlots, RequestAssumption DEF Request
  <2>2. OnCourse(slots[s])'
    BY <1>1, <1>6, <2>1, PrefillRunSlots DEF OnCourse
  <2>3. \A t \in Occupied : t # s => OnCourse(slots[t])'
    BY <1>1, <1>6, PrefillRunSlots DEF OnCourse, CourseInv, Occupied
  <2> QED
    BY <1>6, <2>2, <2>3, PrefillRunSlots DEF CourseInv
<1>7. CASE SampleToken
  <2> DEFINE old == slots[RowSlot]
  <2>1. RowSlot \in Occupied /\ OnCourse(old) /\ old \in Slot
    BY <1>7, SampleTokenSlots DEF CourseInv
  <2>2. /\ Sampled.job = old.job /\ Sampled.n_cur = old.n_cur + 1
        /\ Sampled.n_decoded = old.n_decoded + 1 /\ Sampled.budget = old.budget
        /\ Sampled.context_bound = old.context_bound
    BY <2>1 DEF Sampled, Slot
  <2>3. /\ old.n_cur \in Nat /\ old.n_decoded \in Nat /\ old.budget \in Nat
        /\ old.n_decoded + 1 < old.budget
    BY <1>7, <2>1, <2>2 DEF Slot, SampleToken
  <2>4. req[old.job].prompt \in Nat
    <3>1. old.job \in Jobs
      BY <2>1 DEF Occupied, Slot
    <3> QED
      BY <3>1, RequestAssumption DEF TypeOK, Request
  <2> HIDE DEF old
  <2>5. Sampled.n_decoded \in 2 .. Sampled.budget - 1
    BY <2>1, <2>2, <2>3 DEF OnCourse
  <2>6. Sampled.n_cur = req[old.job].prompt + Sampled.n_decoded - 1
    BY <2>1, <2>2, <2>3, <2>4 DEF OnCourse
  <2>7. OnCourse(Sampled)
    BY <2>1, <2>2, <2>5, <2>6 DEF OnCourse
  <2>8. \A t \in Occupied' : t # RowSlot => OnCourse(slots[t])'
    BY <1>1, <1>7, SampleTokenSlots DEF OnCourse, CourseInv, Occupied
  <2> QED
    BY <1>1, <1>7, <2>7, <2>8, SampleTokenSlots DEF CourseInv, OnCourse
<1>8. CASE DecodeOk \/ DecodeFail
  BY <1>3, <1>8 DEF DecodeOk, DecodeFail
<1> QED
  BY <1>3, <1>4, <1>5, <1>6, <1>7, <1>8, SlotSteps

(***************************************************************************)
(* The rows and the cells.                                                 *)
(***************************************************************************)

\* Rows are collected into the batch and into the list of rows alike.
LEMMA BatchStep == TypeOK /\ BatchIsRows /\ [Next]_vars => BatchIsRows'
<1> SUFFICES ASSUME TypeOK, BatchIsRows, [Next]_vars, pc' \in {"collect", "decode"}
             PROVE  BatchIsRows'
  BY DEF BatchIsRows
<1> USE DEF poolVars, loopVars, sharedVars, callerVars
<1>1. ASSUME UNCHANGED <<rows, batch>>, pc \in {"collect", "decode"} PROVE BatchIsRows'
  BY <1>1 DEF BatchIsRows
<1>2. CASE UNCHANGED vars \/ CallerStep
  <2>1. UNCHANGED <<rows, batch, pc>>
    BY <1>2 DEF vars, CallerStep, SubmitQueued, SubmitRefused, CountIn, Recv, Cancel,
                DropGeneration, DropHandle
  <2> QED
    BY <1>1, <2>1
<1>3. CASE MeterStep
  BY <1>3, EmptySeq DEF MeterStep, BatchIsRows
<1>4. CASE CollectEnd \/ \E s \in SeqIds : CollectSkip(s) \/ CollectCancelled(s) \/ CollectFail(s)
  <2>1. UNCHANGED <<rows, batch>> /\ pc = "collect"
    BY <1>4 DEF CollectEnd, CollectSkip, CollectCancelled, CollectFail
  <2> QED
    BY <1>1, <2>1
<1>5. ASSUME NEW s \in SeqIds, CollectRow(s) PROVE BatchIsRows'
  <2> DEFINE row == [seq |-> s, pos |-> slots[s].n_cur, job |-> slots[s].job]
             at  == <<s, Len(batch)>>
  <2>1. /\ pc = "collect" /\ batch' = Append(batch, row) /\ rows' = Append(rows, at)
        /\ row \in Row /\ at \in SeqIds \X Nat /\ row.seq = s
    <3>1. slots[s] \in Slot /\ slots[s].job # NoJob
      BY <1>5 DEF CollectRow, Ready, TypeOK
    <3>2. row \in Row
      BY <3>1 DEF Slot, Row
    <3>3. Len(batch) \in Nat
      BY LenProperties DEF TypeOK
    <3> QED
      BY <1>5, <3>2, <3>3 DEF CollectRow, NextRow
  <2> HIDE DEF row
  <2>2. /\ Len(batch) \in Nat /\ Len(rows) = Len(batch)
        /\ DOMAIN batch = 1 .. Len(batch) /\ DOMAIN rows = 1 .. Len(batch)
    BY <2>1, LenProperties DEF TypeOK, BatchIsRows
  <2>3. /\ Len(batch') = Len(batch) + 1 /\ Len(rows') = Len(batch) + 1
        /\ batch'[Len(batch) + 1] = row /\ rows'[Len(batch) + 1] = at
        /\ \A i \in 1 .. Len(batch) : batch'[i] = batch[i] /\ rows'[i] = rows[i]
        /\ DOMAIN batch' = 1 .. Len(batch) + 1
    <3>1. batch \in Seq(Row) /\ rows \in Seq(SeqIds \X Nat)
      BY DEF TypeOK
    <3>2. /\ batch' \in Seq(Row) /\ Len(batch') = Len(batch) + 1
          /\ batch'[Len(batch) + 1] = row
          /\ \A i \in 1 .. Len(batch) : batch'[i] = batch[i]
      BY <2>1, <3>1, AppendProperties
    <3>3. /\ Len(rows') = Len(batch) + 1 /\ rows'[Len(batch) + 1] = at
          /\ \A i \in 1 .. Len(batch) : rows'[i] = rows[i]
      BY <2>1, <2>2, <3>1, AppendProperties
    <3> QED
      BY <3>2, <3>3, LenProperties
  <2>4. \A i \in 1 .. Len(batch) : rows[i] = <<batch[i].seq, i - 1>>
    BY <2>1, <2>2 DEF BatchIsRows
  <2>5. \A i \in DOMAIN batch' : rows'[i] = <<batch'[i].seq, i - 1>>
    BY <2>1, <2>2, <2>3, <2>4
  <2> QED
    BY <2>3, <2>5 DEF BatchIsRows
<1>6. CASE EngineStep
  <2>1. \/ MeterStep \/ CollectEnd
        \/ \E s \in SeqIds :
             CollectSkip(s) \/ CollectCancelled(s) \/ CollectRow(s) \/ CollectFail(s)
    BY <1>6 DEF EngineStep, DrainDeliver, DrainKeep, DrainDiscard, DrainEnd, FlushReady,
         FlushDeliver, FlushStalled, StallTimeout, FlushClosed, FlushEnd, AdmitNone,
         AdmitClosed, AdmitCancelled, AdmitTake, PrefillRun, PrefillFinish, PrefillFail,
         Settle, MeterExit, DecodeOk, DecodeFail, FailRow, FailEnd, SampleEog, SampleFail,
         SampleToken, SampleLast, SampleEnd
  <2> QED
    BY <1>3, <1>4, <1>5, <2>1
<1> QED
  BY <1>2, <1>6 DEF Next

\* What a decode, whole or in part, adds to a sequence: the position n_cur of
\* a slot with a row, and nothing elsewhere.
LEMMA WrittenPositions ==
    ASSUME TypeOK, PoolInv, BatchIsRows, pc = "decode", NEW s \in SeqIds,
           NEW part \in SUBSET DOMAIN batch
    PROVE  /\ \A c \in Written(s, part) : c.pos = slots[s].n_cur /\ s \in RowSlots
           /\ part = DOMAIN batch /\ s \in RowSlots =>
                \E c \in Written(s, part) : c.pos = slots[s].n_cur
<1>1. /\ Len(rows) = Len(batch) /\ Len(batch) \in Nat
      /\ DOMAIN batch = 1 .. Len(batch) /\ DOMAIN rows = 1 .. Len(batch)
  BY LenProperties DEF TypeOK, BatchIsRows
<1>2. ASSUME NEW i \in DOMAIN batch
      PROVE  /\ i \in DOMAIN rows /\ rows[i][1] = batch[i].seq
             /\ batch[i].pos = slots[batch[i].seq].n_cur
  <2>1. i \in DOMAIN rows /\ rows[i] = <<batch[i].seq, i - 1>> /\ i \in Nat
    BY <1>1, <1>2 DEF BatchIsRows
  <2>2. RowMatches(rows[i][1], rows[i][2])
    BY <2>1 DEF PoolInv, RowsMatchSlots
  <2>3. rows[i][1] = batch[i].seq /\ rows[i][2] + 1 = i
    BY <2>1
  <2>4. batch[i] = [seq |-> batch[i].seq, pos |-> slots[batch[i].seq].n_cur,
                    job |-> slots[batch[i].seq].job]
    BY <2>2, <2>3 DEF RowMatches
  <2>5. batch[i].pos = slots[batch[i].seq].n_cur
    BY <2>4
  <2> QED
    BY <2>1, <2>3, <2>5
<1>3. \A c \in Written(s, part) : c.pos = slots[s].n_cur /\ s \in RowSlots
  BY <1>2 DEF Written, RowSlots
<1>4. ASSUME part = DOMAIN batch, s \in RowSlots
      PROVE  \E c \in Written(s, part) : c.pos = slots[s].n_cur
  <2>1. PICK i \in DOMAIN batch : rows[i][1] = s
    BY <1>1, <1>4 DEF RowSlots
  <2>2. batch[i].seq = s /\ batch[i].pos = slots[s].n_cur
    BY <1>2, <2>1
  <2>3. [pos |-> batch[i].pos, job |-> batch[i].job] \in Written(s, part)
    BY <1>4, <2>2 DEF Written
  <2> QED
    BY <2>2, <2>3
<1> QED
  BY <1>3, <1>4

\* When the first row is done with, the others are as they were.
LEMMA TailRowSlots ==
    ASSUME TypeOK, RowsMatchSlots, rows # <<>>, rows' = Tail(rows)
    PROVE  RowSlots' = RowSlots \ {RowSlot}
<1>1. /\ Len(rows) \in Nat \ {0} /\ DOMAIN rows = 1 .. Len(rows)
      /\ DOMAIN rows' = 1 .. Len(rows) - 1 /\ Head(rows) = rows[1]
      /\ \A i \in 1 .. Len(rows) - 1 : rows'[i] = rows[i + 1]
  BY EmptySeq, HeadTailProperties, LenProperties DEF TypeOK
<1>2. RowSlot = rows[1][1]
  BY <1>1 DEF RowSlot
<1>3. \A i \in DOMAIN rows' : rows'[i][1] \in RowSlots /\ rows'[i][1] # RowSlot
  <2>1. ASSUME NEW i \in DOMAIN rows'
        PROVE  i + 1 \in DOMAIN rows /\ rows'[i] = rows[i + 1] /\ i + 1 # 1 /\ 1 \in DOMAIN rows
    BY <1>1
  <2> QED
    BY <1>2, <2>1 DEF RowSlots, RowsMatchSlots
<1>4. \A i \in DOMAIN rows : rows[i][1] # RowSlot => rows[i][1] \in RowSlots'
  <2>1. ASSUME NEW i \in DOMAIN rows, i # 1
        PROVE  i - 1 \in DOMAIN rows' /\ rows'[i - 1] = rows[i]
    BY <1>1, <2>1
  <2> QED
    BY <1>2, <2>1 DEF RowSlots
<1>5. RowSlots' \subseteq RowSlots \ {RowSlot}
  BY <1>3 DEF RowSlots
<1>6. RowSlots \ {RowSlot} \subseteq RowSlots'
  BY <1>4 DEF RowSlots
<1> QED
  BY <1>5, <1>6

\* A slot that keeps its n_cur, its cells and its mark keeps what CellsInv says.
LEMMA CellsFrame ==
    ASSUME CellsInv,
           \A t \in Occupied' :
              /\ t \in Occupied /\ slots'[t].n_cur = slots[t].n_cur /\ kv'[t] = kv[t]
              /\ Marked(t)' <=> Marked(t)
              /\ Marked(t) => pc' = pc
    PROVE  CellsInv'
<1> SUFFICES ASSUME NEW t \in Occupied'
             PROVE  /\ 0 .. slots'[t].n_cur - 1 \subseteq Positions(t)'
                    /\ Positions(t)' \subseteq 0 .. slots'[t].n_cur
                    /\ ~Marked(t)' => slots'[t].n_cur \notin Positions(t)'
                    /\ Marked(t)' /\ pc' = "sample" => slots'[t].n_cur \in Positions(t)'
  BY DEF CellsInv
<1>1. Positions(t)' = Positions(t)
  BY DEF Positions
<1> QED
  BY <1>1 DEF CellsInv

\* The positions of a prompt.
LEMMA PromptPositions ==
    ASSUME NEW j, req[j].prompt \in Nat
    PROVE  {c.pos : c \in PromptCells(j)} = 0 .. req[j].prompt - 1
<1>1. \A x \in 0 .. req[j].prompt - 1 : [pos |-> x, job |-> j] \in PromptCells(j)
  BY DEF PromptCells
<1>2. \A c \in PromptCells(j) : c.pos \in 0 .. req[j].prompt - 1
  BY DEF PromptCells
<1>3. \A x \in 0 .. req[j].prompt - 1 : [pos |-> x, job |-> j].pos = x
  OBVIOUS
<1> QED
  BY <1>1, <1>2, <1>3

\* Outside of the sampling no slot is marked.
LEMMA UnmarkedFrame ==
    ASSUME CellsInv, pc \notin {"sample", "failing"}, pc' \notin {"sample", "failing"},
           \A t \in Occupied' :
              t \in Occupied /\ slots'[t].n_cur = slots[t].n_cur /\ kv'[t] = kv[t]
    PROVE  CellsInv'
<1>1. \A t : ~Marked(t) /\ ~Marked(t)'
  BY DEF Marked
<1> QED
  BY <1>1, CellsFrame

\* The steps that leave the sequences of the remaining slots as they are.
LEMMA QuietCells ==
    ASSUME TypeOK, PoolInv, CellsInv,
           \/ UNCHANGED vars \/ CallerStep
           \/ DrainDeliver \/ DrainKeep \/ DrainDiscard \/ DrainEnd \/ FlushEnd
           \/ AdmitNone \/ AdmitClosed \/ AdmitCancelled \/ AdmitTake
           \/ MeterExit \/ MeterStep \/ CollectEnd \/ FailEnd \/ SampleEnd
           \/ \E s \in SeqIds : \/ FlushReady(s) \/ FlushDeliver(s) \/ FlushStalled(s)
                                \/ StallTimeout(s) \/ FlushClosed(s)
                                \/ PrefillFinish(s) \/ PrefillFail(s)
                                \/ CollectSkip(s) \/ CollectCancelled(s)
                                \/ CollectRow(s) \/ CollectFail(s)
    PROVE  CellsInv'
<1> USE DEF poolVars, loopVars, sharedVars, callerVars
<1>1. CASE UNCHANGED vars \/ CallerStep
  <2>1. UNCHANGED <<slots, kv, pc, rows>>
    BY <1>1 DEF vars, CallerStep, SubmitQueued, SubmitRefused, CountIn, Recv, Cancel,
                DropGeneration, DropHandle
  <2>2. UNCHANGED <<Occupied, RowSlots>>
    BY <2>1 DEF Occupied, RowSlots
  <2>3. \A t : Marked(t)' <=> Marked(t)
    BY <2>1, <2>2 DEF Marked
  <2> QED
    BY <2>1, <2>2, <2>3, CellsFrame
<1>2. CASE \/ DrainDeliver \/ DrainKeep \/ DrainDiscard \/ DrainEnd \/ FlushEnd
           \/ AdmitNone \/ AdmitClosed \/ AdmitCancelled \/ AdmitTake
           \/ MeterExit \/ MeterStep \/ CollectEnd
           \/ \E s \in SeqIds : FlushReady(s) \/ CollectSkip(s) \/ CollectRow(s)
  <2>1. UNCHANGED <<slots, kv>>
    BY <1>2 DEF DrainDeliver, DrainKeep, DrainDiscard, DrainEnd, FlushEnd, AdmitNone,
         AdmitClosed, AdmitCancelled, AdmitTake, MeterExit, MeterStep, CollectEnd,
         FlushReady, CollectSkip, CollectRow
  <2>2. pc \notin {"sample", "failing"} /\ pc' \notin {"sample", "failing"}
    BY <1>2 DEF DrainDeliver, DrainKeep, DrainDiscard, DrainEnd, FlushEnd, AdmitNone,
         AdmitClosed, AdmitCancelled, AdmitTake, MeterExit, MeterStep, CollectEnd,
         FlushReady, CollectSkip, CollectRow
  <2>3. Occupied' = Occupied
    BY <2>1 DEF Occupied
  <2> QED
    BY <2>1, <2>2, <2>3, UnmarkedFrame
<1>3. CASE FailEnd \/ SampleEnd
  <2>1. UNCHANGED <<slots, kv, rows>> /\ rows = <<>> /\ pc' = "drain"
    BY <1>3 DEF FailEnd, SampleEnd
  <2>2. \A t : ~Marked(t) /\ ~Marked(t)'
    BY <2>1 DEF Marked, RowSlots
  <2>3. Occupied' = Occupied
    BY <2>1 DEF Occupied
  <2> QED
    BY <2>1, <2>2, <2>3, CellsFrame
<1>4. ASSUME NEW s \in SeqIds, FlushDeliver(s) \/ FlushStalled(s) PROVE CellsInv'
  <2>1. kv' = kv /\ pc = "flush" /\ pc' = "flush" /\ \A t \in SeqIds : SameCourse(t)
    BY <1>4, FlushKeepsCourse DEF FlushDeliver, FlushStalled
  <2>2. Occupied' = Occupied
    BY <2>1 DEF Occupied, SameCourse
  <2> QED
    BY <2>1, <2>2, UnmarkedFrame DEF SameCourse, Occupied
<1>5. ASSUME NEW s \in SeqIds,
             StallTimeout(s) \/ FlushClosed(s) \/ CollectCancelled(s) \/ CollectFail(s)
      PROVE  CellsInv'
  <2>1. Vacate(s) /\ pc \in {"flush", "collect"} /\ pc' = pc
    BY <1>5 DEF StallTimeout, FlushClosed, CollectCancelled, CollectFail, Retire, Fail
  <2>2. \A t \in Occupied' : t \in Occupied /\ slots'[t] = slots[t] /\ kv'[t] = kv[t]
    BY <2>1, VacateRest DEF Occupied
  <2> QED
    BY <2>1, <2>2, UnmarkedFrame
<1>6. ASSUME NEW s \in SeqIds, PrefillFinish(s) \/ PrefillFail(s) PROVE CellsInv'
  <2>1. /\ s \notin Occupied /\ slots' = slots /\ kv' = [kv EXCEPT ![s] = {}]
        /\ pc = "prefill" /\ pc' = "admit"
    BY <1>6 DEF PrefillFinish, PrefillFail, Settle, IsFirstFree, Free
  <2>2. Occupied' = Occupied /\ \A t \in Occupied : kv'[t] = kv[t]
    BY <2>1 DEF Occupied, TypeOK
  <2> QED
    BY <2>1, <2>2, UnmarkedFrame
<1> QED
  BY <1>1, <1>2, <1>3, <1>4, <1>5, <1>6

\* A prompt fills its sequence up to n_cur.
LEMMA PrefillCells ==
    ASSUME TypeOK, PoolInv, CellsInv, NEW s \in SeqIds, PrefillRun(s)
    PROVE  CellsInv'
<1> USE DEF poolVars, loopVars, sharedVars, callerVars
<1>1. pc = "prefill" /\ pc' \in {"meter", "admit"}
  BY DEF PrefillRun
<1>2. \A t : ~Marked(t) /\ ~Marked(t)'
  BY <1>1 DEF Marked
<1>3. req[taken].prompt \in Nat
  BY PrefillRunSlots, RequestAssumption DEF Request
<1>4. slots'[s].n_cur = req[taken].prompt /\ Positions(s)' = 0 .. req[taken].prompt - 1
  BY <1>3, PrefillRunSlots, PromptPositions DEF Positions
<1>5. \A t \in Occupied : t # s => slots'[t] = slots[t] /\ Positions(t)' = Positions(t)
  BY PrefillRunSlots DEF Positions, Occupied
<1>6. ASSUME NEW t \in Occupied'
      PROVE  /\ 0 .. slots'[t].n_cur - 1 \subseteq Positions(t)'
             /\ Positions(t)' \subseteq 0 .. slots'[t].n_cur
             /\ slots'[t].n_cur \notin Positions(t)'
  <2>1. CASE t = s
    <3> DEFINE n == req[taken].prompt
    <3>1. n \in Nat /\ slots'[t].n_cur = n /\ Positions(t)' = 0 .. n - 1
      BY <1>3, <1>4, <2>1
    <3> HIDE DEF n
    <3>2. 0 .. n - 1 \subseteq 0 .. n /\ n \notin 0 .. n - 1
      BY <3>1
    <3> QED
      BY <3>1, <3>2
  <2>2. CASE t # s
    <3>1. t \in Occupied
      BY <2>2, PrefillRunSlots
    <3> QED
      BY <1>2, <1>5, <2>2, <3>1 DEF CellsInv
  <2> QED
    BY <2>1, <2>2
<1> QED
  BY <1>2, <1>6 DEF CellsInv

\* A decode adds the position n_cur to the slots with a row: to all of them,
\* or when it fails to any of them.
LEMMA DecodeCells ==
    ASSUME TypeOK, PoolInv, BatchIsRows, CellsInv, DecodeOk \/ DecodeFail
    PROVE  CellsInv'
<1> USE DEF poolVars, loopVars, sharedVars, callerVars
<1>1. /\ pc = "decode" /\ UNCHANGED <<slots, rows, batch>>
      /\ \/ pc' = "sample" /\ DecodeOk
         \/ pc' = "failing"
  BY DEF DecodeOk, DecodeFail
<1>2. PICK part \in SUBSET DOMAIN batch :
         /\ kv' = [s \in SeqIds |-> kv[s] \cup Written(s, part)]
         /\ pc' = "sample" => part = DOMAIN batch
  BY <1>1 DEF DecodeOk, DecodeFail
<1>3. Occupied' = Occupied /\ RowSlots' = RowSlots
  BY <1>1 DEF Occupied, RowSlots
<1>4. \A t : ~Marked(t) /\ (Marked(t)' <=> t \in RowSlots)
  BY <1>1, <1>3 DEF Marked
<1>5. ASSUME NEW t \in Occupied
      PROVE  /\ 0 .. slots'[t].n_cur - 1 \subseteq Positions(t)'
             /\ Positions(t)' \subseteq 0 .. slots'[t].n_cur
             /\ ~Marked(t)' => slots'[t].n_cur \notin Positions(t)'
             /\ Marked(t)' /\ pc' = "sample" => slots'[t].n_cur \in Positions(t)'
  <2> DEFINE n == slots[t].n_cur
             added == {c.pos : c \in Written(t, part)}
  <2>1. t \in SeqIds /\ n \in Nat /\ slots'[t].n_cur = n
    BY <1>1 DEF Occupied, TypeOK, Slot
  <2>2. Positions(t)' = Positions(t) \cup added
    BY <1>2, <2>1 DEF Positions
  <2>3. \A c \in Written(t, part) : c.pos = n /\ t \in RowSlots
    BY <1>1, <2>1, WrittenPositions
  <2>4. part = DOMAIN batch /\ t \in RowSlots => \E c \in Written(t, part) : c.pos = n
    BY <1>1, <2>1, WrittenPositions
  <2>5. added \subseteq {n} /\ (t \notin RowSlots => added = {})
    BY <2>3
  <2>6. part = DOMAIN batch /\ t \in RowSlots => n \in added
    BY <2>4
  <2>7. 0 .. n - 1 \subseteq Positions(t) /\ Positions(t) \subseteq 0 .. n /\ n \notin Positions(t)
    BY <1>4 DEF CellsInv
  <2> HIDE DEF n, added
  <2>8. n \in 0 .. n
    BY <2>1
  <2> QED
    BY <1>2, <1>4, <2>1, <2>2, <2>5, <2>6, <2>7, <2>8
<1> QED
  BY <1>3, <1>5 DEF CellsInv

\* A row failed, or sampled for the last time: its slot is given back.
LEMMA RowVacateCells ==
    ASSUME TypeOK, PoolInv, CellsInv,
           FailRow \/ SampleEog \/ SampleFail \/ SampleLast
    PROVE  CellsInv'
<1> USE DEF poolVars, loopVars, sharedVars, callerVars
<1>1. /\ pc' = pc /\ rows # <<>> /\ rows' = Tail(rows) /\ Vacate(RowSlot)
  BY DEF FailRow, SampleEog, SampleFail, SampleLast, Fail, Retire, RowSlot
<1>2. RowSlot \in SeqIds
  BY <1>1, HeadRow DEF PoolInv
<1>3. \A t \in Occupied' : /\ t \in Occupied /\ t # RowSlot
                           /\ slots'[t] = slots[t] /\ kv'[t] = kv[t]
  BY <1>1, <1>2, VacateRest DEF Occupied
<1>4. RowSlots' = RowSlots \ {RowSlot}
  BY <1>1, TailRowSlots DEF PoolInv
<1>5. \A t \in Occupied' : Marked(t)' <=> Marked(t)
  BY <1>1, <1>3, <1>4 DEF Marked
<1> QED
  BY <1>1, <1>3, <1>5, CellsFrame

\* A row sampled: n_cur moves past the position just written.
LEMMA TokenCells ==
    ASSUME TypeOK, PoolInv, CellsInv, SampleToken
    PROVE  CellsInv'
<1> USE DEF poolVars, loopVars, sharedVars, callerVars
<1>0. RowSlot \in SeqIds /\ slots[RowSlot].n_cur \in Nat
  BY SampleTokenSlots DEF Occupied, Slot
<1> PICK r \in SeqIds, n \in Nat : r = RowSlot /\ n = slots[r].n_cur
  BY <1>0
<1>1. pc = "sample" /\ pc' = pc /\ rows # <<>> /\ rows' = Tail(rows)
  BY DEF SampleToken
<1>2. RowSlots' = RowSlots \ {r} /\ r \in RowSlots
  <2>1. RowSlots' = RowSlots \ {RowSlot}
    BY <1>1, TailRowSlots DEF PoolInv
  <2>2. 1 \in DOMAIN rows /\ RowSlot = rows[1][1]
    BY <1>1, HeadRow DEF RowSlot, PoolInv
  <2> QED
    BY <2>1, <2>2 DEF RowSlots
<1>3. slots'[r].n_cur = n + 1 /\ r \in Occupied
  BY SampleTokenSlots DEF Sampled, Slot
<1>4. Marked(r) /\ ~Marked(r)'
  BY <1>1, <1>2 DEF Marked
<1>5. ASSUME NEW t \in Occupied, t # r
      PROVE  /\ slots'[t].n_cur = slots[t].n_cur /\ Positions(t)' = Positions(t)
             /\ Marked(t)' <=> Marked(t)
  BY <1>1, <1>2, <1>5, SampleTokenSlots DEF Marked, Positions, Occupied
<1>6. /\ 0 .. n - 1 \subseteq Positions(r) /\ Positions(r) \subseteq 0 .. n /\ n \in Positions(r)
      /\ Positions(r)' = Positions(r)
  BY <1>1, <1>3, <1>4, SampleTokenSlots DEF CellsInv, Positions
<1>7. /\ 0 .. (n + 1) - 1 \subseteq Positions(r)' /\ Positions(r)' \subseteq 0 .. n + 1
      /\ n + 1 \notin Positions(r)'
  <2>1. 0 .. (n + 1) - 1 = (0 .. n - 1) \cup {n} /\ 0 .. n \subseteq 0 .. n + 1 /\ n + 1 \notin 0 .. n
    BY <1>3
  <2> QED
    BY <1>6, <2>1
<1>8. ASSUME NEW t \in Occupied
      PROVE  /\ 0 .. slots'[t].n_cur - 1 \subseteq Positions(t)'
             /\ Positions(t)' \subseteq 0 .. slots'[t].n_cur
             /\ ~Marked(t)' => slots'[t].n_cur \notin Positions(t)'
             /\ Marked(t)' /\ pc' = "sample" => slots'[t].n_cur \in Positions(t)'
  <2>1. CASE t = r
    BY <1>3, <1>4, <1>7, <2>1 DEF Marked
  <2>2. CASE t # r
    BY <1>1, <1>5, <2>2 DEF CellsInv
  <2> QED
    BY <2>1, <2>2
<1> QED
  BY <1>8, SampleTokenSlots DEF CellsInv

LEMMA CellsStep == TypeOK /\ PoolInv /\ BatchIsRows /\ CellsInv /\ [Next]_vars => CellsInv'
<1> SUFFICES ASSUME TypeOK, PoolInv, BatchIsRows, CellsInv, [Next]_vars PROVE CellsInv'
  OBVIOUS
<1> QED
  BY QuietCells, PrefillCells, DecodeCells, RowVacateCells, TokenCells DEF Next, EngineStep

\* A batch is its rows, a slot's counters are its request's, and its sequence
\* holds the positions they say.
THEOREM BatchIsConsistent == Spec => [](BatchIsRows /\ CourseInv /\ CellsInv)
<1> DEFINE IInv == BatchIsRows /\ CourseInv /\ CellsInv
<1>1. Init => IInv
  <2> SUFFICES ASSUME Init PROVE IInv
    OBVIOUS
  <2>1. Occupied = {} /\ pc = "drain"
    BY DEF Init, Occupied, Vacant
  <2> QED
    BY <2>1 DEF BatchIsRows, CourseInv, CellsInv
<1>2. TypeOK /\ PoolInv /\ IInv /\ [Next]_vars => IInv'
  BY BatchStep, CourseStep, CellsStep
<1> QED
  BY PoolIsConsistent, <1>1, <1>2, PTL DEF Spec

\* Every sequence is, between steps, the prompt and the tokens fed back so far,
\* without a gap, and stays within the window, whatever fails and whenever.
THEOREM SequencesAreTheReplies == Spec => []KvIsTheReplySoFar
<1>1. TypeOK /\ BatchIsRows /\ CourseInv /\ CellsInv => KvIsTheReplySoFar
  <2> SUFFICES ASSUME TypeOK, BatchIsRows, CourseInv, CellsInv, NEW s \in Occupied
               PROVE  /\ slots[s].n_cur = req[slots[s].job].prompt + slots[s].n_decoded - 1
                      /\ pc \in {"drain", "flush", "admit", "meter", "collect"} =>
                            Positions(s) = 0 .. slots[s].n_cur - 1
                      /\ \A c \in kv[s] : c.pos < NCtx
    BY DEF KvIsTheReplySoFar, Positions
  <2> DEFINE n == slots[s].n_cur
  <2>1. slots[s] \in Slot /\ n \in Nat /\ slots[s].job \in Jobs
    BY DEF TypeOK, Occupied, Slot
  <2>2. OnCourse(slots[s])
    BY DEF CourseInv
  <2>3. req[slots[s].job] \in Request /\ req[slots[s].job].prompt \in Nat
    BY <2>1, RequestAssumption DEF TypeOK, Request
  <2>4. 0 .. n - 1 \subseteq Positions(s) /\ Positions(s) \subseteq 0 .. n
        /\ (~Marked(s) => n \notin Positions(s))
    BY DEF CellsInv
  <2>5. ASSUME pc \in {"drain", "flush", "admit", "meter", "collect"}
        PROVE  Positions(s) = 0 .. n - 1
    <3>1. n \notin Positions(s)
      BY <2>4, <2>5 DEF Marked
    <3> HIDE DEF n
    <3>2. 0 .. n = (0 .. n - 1) \cup {n}
      BY <2>1
    <3> QED
      BY <2>4, <3>1, <3>2
  <2>6. n < NCtx
    <3> DEFINE r == req[slots[s].job]  d == slots[s].n_decoded  b == slots[s].budget
    <3>1. r.prompt \in Nat /\ r.asked \in Int /\ d \in Nat /\ NCtx \in Nat
      BY <2>1, <2>3, RequestAssumption, Sizes DEF Request, Slot
    <3>2. n = r.prompt + d - 1 /\ b = Budget(r) /\ b > 0 /\ (d = 1 \/ d \in 2 .. b - 1)
      BY <2>2 DEF OnCourse
    <3> HIDE DEF r, d, b, n
    <3>3. b \in Int /\ b <= NCtx - r.prompt
      BY <3>1, <3>2 DEF Budget, Asked, Room
    <3> QED
      BY <3>1, <3>2, <3>3
  <2>7. \A c \in kv[s] : c.pos < NCtx
    <3>1. \A c \in kv[s] : c.pos \in 0 .. n
      BY <2>4 DEF Positions
    <3> HIDE DEF n
    <3> QED
      BY <2>1, <2>6, <3>1, Sizes
  <2> QED
    BY <2>2, <2>5, <2>7 DEF OnCourse
<1> QED
  BY PoolIsConsistent, BatchIsConsistent, <1>1, PTL
=============================================================================
