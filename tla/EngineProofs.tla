---------------------------- MODULE EngineProofs ----------------------------
(***************************************************************************)
(* Proofs about the engine for every number of jobs and slots, every       *)
(* window, channel and queue, with and without a step target.              *)
(***************************************************************************)
EXTENDS Engine, SequenceTheorems, FiniteSetTheorems, TLAPS

(***************************************************************************)
(* Facts about the data.                                                   *)
(***************************************************************************)

\* The sequence ids are naturals and the limits are positive.
LEMMA Sizes ==
    /\ MaxInflight \in Nat \ {0} /\ SeqIds \subseteq Nat
    /\ \A s \in SeqIds : s \in 0 .. MaxInflight /\ s + 1 \in 0 .. MaxInflight
    /\ ChanCap \in Nat \ {0} /\ NCtx \in Nat \ {0} /\ BatchCap \in Nat \ {0}
    /\ NoJob \notin Jobs /\ Wrap \in Nat \ {0}
<1>1. Cardinality(Jobs) \in Nat
  BY JobsAssumption, FS_CardinalityType
<1> QED
  BY <1>1, SizeAssumption, JobsAssumption, WrapAssumption DEF SeqIds, BatchCap

\* The meter stays a usize, whichever way it is moved.
LEMMA CountTypes ==
    ASSUME inflight \in 0 .. Wrap - 1
    PROVE  CountUp \in 0 .. Wrap - 1 /\ CountDown \in 0 .. Wrap - 1
  BY Sizes DEF CountUp, CountDown

\* Events and vacant slots are well formed.
LEMMA EventTypes ==
    /\ NoEvent \in Event /\ Vacant \in Slot
    /\ \A j \in Jobs : \A n \in Nat :
          /\ Token(j, n) \in Event /\ Token(j, n) # NoEvent
          /\ Failed(j) \in Event
          /\ \A stop \in Stops : Done(j, stop, n) \in Event
  BY DEF NoEvent, Vacant, Slot, Event, Token, Done, Failed

\* An outbox stays one when an entry is added or a slot's last words are.
LEMMA PostTypes ==
    ASSUME NEW box \in Seq(Entry), NEW j \in Jobs, NEW e \in Event
    PROVE  Post(j, e) \in Entry /\ Append(box, Post(j, e)) \in Seq(Entry)
<1>1. Post(j, e) \in Entry
  BY DEF Post, Entry
<1> QED
  BY <1>1, AppendProperties

LEMMA LastWordsTypes ==
    ASSUME NEW box \in Seq(Entry), NEW slot \in Slot, slot.job \in Jobs,
           NEW stop \in Stops
    PROVE  box \o LastWords(slot, stop) \in Seq(Entry)
<1> DEFINE done == Post(slot.job, Done(slot.job, stop, slot.n_decoded))
           piece == Post(slot.job, slot.pending)
<1>1. slot.n_decoded \in Nat /\ slot.pending \in Event
  BY DEF Slot
<1>2. done \in Entry /\ piece \in Entry
  BY <1>1, EventTypes, EmptySeq, PostTypes
<1> HIDE DEF done, piece
<1>3. <<done>> \in Seq(Entry) /\ <<piece>> \in Seq(Entry) /\ <<>> \in Seq(Entry)
  BY <1>2
<1>4. LastWords(slot, stop) =
        (IF slot.pending = NoEvent THEN <<>> ELSE <<piece>>) \o <<done>>
  BY DEF LastWords, done, piece
<1>5. LastWords(slot, stop) \in Seq(Entry)
  BY <1>3, <1>4, ConcatProperties
<1> QED
  BY <1>5, ConcatProperties

\* What retire and fail do to the types.
LEMMA VacateTypes ==
    ASSUME TypeOK, NEW s \in SeqIds, Vacate(s)
    PROVE  /\ slots' \in [SeqIds -> Slot] /\ kv' \in [SeqIds -> SUBSET Cell]
           /\ inflight' \in 0 .. Wrap - 1
  BY EventTypes, CountTypes DEF Vacate, TypeOK

LEMMA RetireTypes ==
    ASSUME TypeOK, NEW s \in SeqIds, NEW slot \in Slot, slot.job \in Jobs,
           NEW stop \in Stops, Retire(s, slot, stop)
    PROVE  /\ slots' \in [SeqIds -> Slot] /\ kv' \in [SeqIds -> SUBSET Cell]
           /\ inflight' \in 0 .. Wrap - 1 /\ outbox' \in Seq(Entry)
  BY VacateTypes, LastWordsTypes DEF Retire, TypeOK

LEMMA FailTypes ==
    ASSUME TypeOK, NEW s \in SeqIds, slots[s].job \in Jobs, Fail(s)
    PROVE  /\ slots' \in [SeqIds -> Slot] /\ kv' \in [SeqIds -> SUBSET Cell]
           /\ inflight' \in 0 .. Wrap - 1 /\ outbox' \in Seq(Entry)
<1>1. Failed(slots[s].job) \in Event
  BY EventTypes DEF Failed, Event
<1> QED
  BY <1>1, VacateTypes, PostTypes DEF Fail, TypeOK

\* The rows and cells of a prompt.
LEMMA PromptTypes ==
    ASSUME TypeOK, NEW j \in Jobs, NEW s \in SeqIds
    PROVE  PromptRows(j, s) \in Seq(Row) /\ PromptCells(j) \subseteq Cell
<1>1. req[j].prompt \in Nat
  BY RequestAssumption DEF TypeOK, Request
<1>2. \A i \in 1 .. req[j].prompt : [seq |-> s, pos |-> i - 1, job |-> j] \in Row
  BY <1>1 DEF Row
<1>3. PromptRows(j, s) \in [1 .. req[j].prompt -> Row]
  BY <1>2 DEF PromptRows
<1> QED
  BY <1>1, <1>3 DEF PromptCells, Cell

(***************************************************************************)
(* Types: TypeOK is preserved by every step.  PoolInv is needed where a    *)
(* slot is given back (it holds a job) and where a row is looked up.       *)
(***************************************************************************)

\* A sequence of a known type: its head and tail, and one more element.
LEMMA SeqTypes ==
    ASSUME NEW S, NEW s \in Seq(S)
    PROVE  /\ s # <<>> => Head(s) \in S /\ Tail(s) \in Seq(S)
           /\ \A e \in S : Append(s, e) \in Seq(S)
           /\ \A i \in DOMAIN s : s[i] \in S
  BY HeadTailProperties, AppendProperties, LenProperties, ElementOfSeq

\* The steps of callers.
LEMMA CallerTypes == TypeOK /\ CallerStep => TypeOK'
<1> SUFFICES ASSUME TypeOK, CallerStep PROVE TypeOK'
  OBVIOUS
<1> USE DEF poolVars, loopVars, sharedVars, callerVars
<1>1. ASSUME NEW j \in Jobs, SubmitQueued(j) PROVE TypeOK'
  BY <1>1, SeqTypes DEF SubmitQueued, TypeOK
<1>2. ASSUME NEW j \in Jobs, SubmitRefused(j) PROVE TypeOK'
  BY <1>2 DEF SubmitRefused, TypeOK
<1>3. ASSUME NEW j \in Jobs, CountIn(j) PROVE TypeOK'
  BY <1>3, CountTypes DEF CountIn, TypeOK
<1>4. ASSUME NEW j \in Jobs, Recv(j) PROVE TypeOK'
  <2>1. events[j] \in Seq(Event) /\ got[j] \in Seq(Event)
    BY DEF TypeOK
  <2>2. Tail(events[j]) \in Seq(Event) /\ Append(got[j], Head(events[j])) \in Seq(Event)
    BY <1>4, <2>1, SeqTypes DEF Recv
  <2> QED
    BY <1>4, <2>2 DEF Recv, TypeOK
<1>5. ASSUME NEW j \in Jobs, Cancel(j) PROVE TypeOK'
  BY <1>5 DEF Cancel, TypeOK
<1>6. ASSUME NEW j \in Jobs, DropGeneration(j) PROVE TypeOK'
  BY <1>6, EmptySeq DEF DropGeneration, TypeOK
<1>7. CASE DropHandle
  BY <1>7 DEF DropHandle, TypeOK
<1> QED
  BY <1>1, <1>2, <1>3, <1>4, <1>5, <1>6, <1>7 DEF CallerStep

\* The outbox pass.
LEMMA DrainTypes ==
    TypeOK /\ (DrainDeliver \/ DrainKeep \/ DrainDiscard \/ DrainEnd) => TypeOK'
<1> SUFFICES ASSUME TypeOK, DrainDeliver \/ DrainKeep \/ DrainDiscard \/ DrainEnd
             PROVE  TypeOK'
  OBVIOUS
<1> USE DEF poolVars, loopVars, sharedVars, callerVars
<1>1. ASSUME outbox # <<>>
      PROVE  Head(outbox) \in Entry /\ Tail(outbox) \in Seq(Entry)
  BY <1>1, SeqTypes DEF TypeOK
<1>2. CASE DrainDeliver
  <2>1. Head(outbox).job \in Jobs /\ Head(outbox).event \in Event
    BY <1>1, <1>2 DEF DrainDeliver, Entry
  <2>2. Append(events[Head(outbox).job], Head(outbox).event) \in Seq(Event)
    BY <2>1, SeqTypes DEF TypeOK
  <2> QED
    BY <1>1, <1>2, <2>1, <2>2 DEF DrainDeliver, Send, TypeOK
<1>3. CASE DrainKeep
  BY <1>1, <1>3, SeqTypes DEF DrainKeep, TypeOK
<1>4. CASE DrainDiscard
  BY <1>1, <1>4 DEF DrainDiscard, TypeOK
<1>5. CASE DrainEnd
  BY <1>5, EmptySeq, Sizes DEF DrainEnd, TypeOK
<1> QED
  BY <1>2, <1>3, <1>4, <1>5

\* The flush of the slots.
LEMMA FlushTypes ==
    ASSUME TypeOK, PoolInv, NEW s \in SeqIds,
           FlushReady(s) \/ FlushDeliver(s) \/ FlushStalled(s) \/ StallTimeout(s) \/ FlushClosed(s)
    PROVE  TypeOK'
<1> USE DEF poolVars, loopVars, sharedVars, callerVars
<1>1. slots[s] \in Slot
  BY DEF TypeOK
<1>2. Waiting(s) => slots[s].job \in Jobs /\ slots[s].pending \in Event
  BY <1>1 DEF PoolInv, PhaseInv, Slot
<1>3. CASE FlushReady(s)
  BY <1>3, Sizes DEF FlushReady, TypeOK
<1>4. CASE FlushDeliver(s)
  <2>1. Append(events[slots[s].job], slots[s].pending) \in Seq(Event)
    BY <1>2, <1>4, SeqTypes DEF FlushDeliver, TypeOK
  <2>2. [slots[s] EXCEPT !.pending = NoEvent, !.stalled = FALSE] \in Slot
    BY <1>1, EventTypes DEF Slot
  <2>3. slots' \in [SeqIds -> Slot]
    BY <1>4, <2>2 DEF FlushDeliver, TypeOK
  <2>4. cursor' \in 0 .. MaxInflight
    BY <1>4, Sizes DEF FlushDeliver
  <2> QED
    BY <1>2, <1>4, <2>1, <2>3, <2>4 DEF FlushDeliver, Send, TypeOK
<1>5. CASE FlushStalled(s)
  <2>1. [slots[s] EXCEPT !.stalled = TRUE] \in Slot
    BY <1>1 DEF Slot
  <2>2. slots' \in [SeqIds -> Slot]
    BY <1>5, <2>1 DEF FlushStalled, TypeOK
  <2> QED
    BY <1>5, <2>2, Sizes DEF FlushStalled, TypeOK
<1>6. CASE StallTimeout(s)
  <2>1. Retire(s, slots[s], "Cancelled") /\ "Cancelled" \in Stops /\ slots[s].job \in Jobs
    BY <1>2, <1>6 DEF StallTimeout, Stops
  <2>2. /\ slots' \in [SeqIds -> Slot] /\ kv' \in [SeqIds -> SUBSET Cell]
        /\ inflight' \in 0 .. Wrap - 1 /\ outbox' \in Seq(Entry)
    BY <1>1, <2>1, RetireTypes
  <2> QED
    BY <1>6, <2>2, Sizes DEF StallTimeout, TypeOK
<1>7. CASE FlushClosed(s)
  <2> DEFINE slot == [slots[s] EXCEPT !.pending = NoEvent]
  <2>1. slot \in Slot /\ slot.job = slots[s].job
    BY <1>1, EventTypes DEF Slot
  <2>2. Retire(s, slot, "Cancelled") /\ "Cancelled" \in Stops /\ slots[s].job \in Jobs
    BY <1>2, <1>7 DEF FlushClosed, Stops
  <2> HIDE DEF slot
  <2>3. /\ slots' \in [SeqIds -> Slot] /\ kv' \in [SeqIds -> SUBSET Cell]
        /\ inflight' \in 0 .. Wrap - 1 /\ outbox' \in Seq(Entry)
    BY <2>1, <2>2, RetireTypes
  <2> QED
    BY <1>7, <2>3, Sizes DEF FlushClosed, TypeOK
<1> QED
  BY <1>3, <1>4, <1>5, <1>6, <1>7

\* Admission.
LEMMA AdmitTypes ==
    TypeOK /\ (FlushEnd \/ AdmitNone \/ AdmitClosed \/ AdmitCancelled \/ AdmitTake) => TypeOK'
<1> SUFFICES ASSUME TypeOK, FlushEnd \/ AdmitNone \/ AdmitClosed \/ AdmitCancelled \/ AdmitTake
             PROVE  TypeOK'
  OBVIOUS
<1> USE DEF poolVars, loopVars, sharedVars, callerVars
<1>1. queue # <<>> => Head(queue) \in Jobs /\ Tail(queue) \in Seq(Jobs)
  BY SeqTypes DEF TypeOK
<1>2. CASE FlushEnd
  BY <1>2 DEF FlushEnd, TypeOK
<1>3. CASE AdmitNone
  BY <1>3 DEF AdmitNone, TypeOK
<1>4. CASE AdmitClosed
  BY <1>4 DEF AdmitClosed, TypeOK
<1>5. CASE AdmitCancelled
  <2> DEFINE done == Done(Head(queue), "Cancelled", 0)
  <2>1. Head(queue) \in Jobs /\ done \in Event
    BY <1>1, <1>5, EventTypes DEF AdmitCancelled, Stops
  <2>2. Append(outbox, Post(Head(queue), done)) \in Seq(Entry)
    BY <2>1, PostTypes DEF TypeOK
  <2> QED
    BY <1>1, <1>5, <2>2, CountTypes DEF AdmitCancelled, Dequeue, TypeOK
<1>6. CASE AdmitTake
  BY <1>1, <1>6 DEF AdmitTake, Dequeue, TypeOK
<1> QED
  BY <1>2, <1>3, <1>4, <1>5, <1>6

\* Prefill.
LEMMA PrefillTypes ==
    ASSUME TypeOK, PoolInv, NEW s \in SeqIds,
           PrefillRun(s) \/ PrefillFinish(s) \/ PrefillFail(s)
    PROVE  TypeOK'
<1> USE DEF poolVars, loopVars, sharedVars, callerVars
<1>1. taken \in Jobs
  BY DEF TypeOK, PoolInv, PhaseInv, PrefillRun, PrefillFinish, PrefillFail
<1>2. PromptRows(taken, s) \in Seq(Row) /\ PromptCells(taken) \subseteq Cell
  BY <1>1, PromptTypes
<1>3. ASSUME NEW e \in Event, Settle(s, e)
      PROVE  /\ outbox' \in Seq(Entry) /\ inflight' \in 0 .. Wrap - 1
             /\ kv' \in [SeqIds -> SUBSET Cell]
  BY <1>1, <1>3, PostTypes, CountTypes DEF Settle, TypeOK
<1>4. CASE PrefillRun(s)
  <2>1. req[taken] \in Request /\ req[taken].prompt \in Nat /\ req[taken].asked \in Int
    BY <1>1, RequestAssumption DEF TypeOK, Request
  <2>2. Budget(req[taken]) \in Nat
    BY <1>4, <2>1, Sizes DEF PrefillRun, Budget, Asked, Room, Fits
  <2>3. ContextBound(req[taken]) \in BOOLEAN
    BY DEF ContextBound
  <2> DEFINE slot == [job |-> taken, n_cur |-> req[taken].prompt, n_decoded |-> 1,
                      budget |-> Budget(req[taken]),
                      context_bound |-> ContextBound(req[taken]),
                      pending |-> Token(taken, 1), stalled |-> FALSE]
  <2>4. slot \in Slot
    BY <1>1, <2>1, <2>2, <2>3, EventTypes DEF Slot
  <2>5. slots' = [slots EXCEPT ![s] = slot]
    BY <1>4 DEF PrefillRun
  <2> HIDE DEF slot
  <2>6. slots' \in [SeqIds -> Slot]
    BY <2>4, <2>5 DEF TypeOK
  <2>7. kv' \in [SeqIds -> SUBSET Cell]
    BY <1>2, <1>4 DEF PrefillRun, TypeOK
  <2> QED
    BY <1>2, <1>4, <2>6, <2>7 DEF PrefillRun, TypeOK
<1>5. CASE PrefillFinish(s)
  <2>1. Done(taken, "EndOfGeneration", 0) \in Event /\ Done(taken, "ContextFull", 0) \in Event
    BY <1>1, EventTypes DEF Stops
  <2>2. /\ outbox' \in Seq(Entry) /\ inflight' \in 0 .. Wrap - 1
        /\ kv' \in [SeqIds -> SUBSET Cell] /\ taken' = NoJob /\ pc' = "admit"
    BY <1>3, <1>5, <2>1 DEF PrefillFinish, Settle
  <2> QED
    BY <1>2, <1>5, <2>2 DEF PrefillFinish, TypeOK
<1>6. CASE PrefillFail(s)
  <2>1. Failed(taken) \in Event
    BY <1>1, EventTypes DEF Failed, Event
  <2>2. /\ outbox' \in Seq(Entry) /\ inflight' \in 0 .. Wrap - 1
        /\ kv' \in [SeqIds -> SUBSET Cell] /\ taken' = NoJob /\ pc' = "admit"
    BY <1>3, <1>6, <2>1 DEF PrefillFail, Settle
  <2>3. batch' \in Seq(Row)
    BY <1>2, <1>6 DEF PrefillFail, TypeOK
  <2> QED
    BY <1>6, <2>2, <2>3 DEF PrefillFail, TypeOK
<1> QED
  BY <1>4, <1>5, <1>6

\* The meter, and the collection of rows.
LEMMA MeterTypes == TypeOK /\ (MeterExit \/ MeterStep) => TypeOK'
<1> SUFFICES ASSUME TypeOK, MeterExit \/ MeterStep PROVE TypeOK'
  OBVIOUS
<1> USE DEF poolVars, loopVars, sharedVars, callerVars
<1>1. Cardinality(Occupied) \in Nat
  <2>1. IsFiniteSet(SeqIds)
    BY Sizes, FS_Interval DEF SeqIds
  <2> QED
    BY <2>1, FS_Subset, FS_CardinalityType DEF Occupied
<1>2. CASE MeterExit
  BY <1>1, <1>2 DEF MeterExit, TypeOK
<1>3. CASE MeterStep
  BY <1>1, <1>3, EmptySeq, Sizes DEF MeterStep, TypeOK
<1> QED
  BY <1>2, <1>3

LEMMA CollectTypes ==
    ASSUME TypeOK, NEW s \in SeqIds,
           CollectSkip(s) \/ CollectCancelled(s) \/ CollectRow(s) \/ CollectFail(s)
    PROVE  TypeOK'
<1> USE DEF poolVars, loopVars, sharedVars, callerVars
<1>1. slots[s] \in Slot /\ slots[s].n_cur \in Nat
  BY DEF TypeOK, Slot
<1>2. CASE CollectSkip(s)
  BY <1>2, Sizes DEF CollectSkip, TypeOK
<1>3. CASE CollectCancelled(s)
  <2>1. Retire(s, slots[s], "Cancelled") /\ "Cancelled" \in Stops /\ slots[s].job \in Jobs
    BY <1>1, <1>3 DEF CollectCancelled, Cancelled, Stops, Slot
  <2>2. /\ slots' \in [SeqIds -> Slot] /\ kv' \in [SeqIds -> SUBSET Cell]
        /\ inflight' \in 0 .. Wrap - 1 /\ outbox' \in Seq(Entry)
    BY <1>1, <2>1, RetireTypes
  <2> QED
    BY <1>3, <2>2, Sizes DEF CollectCancelled, TypeOK
<1>4. CASE CollectRow(s)
  <2>1. [seq |-> s, pos |-> slots[s].n_cur, job |-> slots[s].job] \in Row
    BY <1>1, <1>4 DEF CollectRow, Ready, Slot, Row
  <2>2. batch' \in Seq(Row)
    BY <1>4, <2>1, SeqTypes DEF CollectRow, TypeOK
  <2>3. Len(batch) \in Nat
    BY LenProperties DEF TypeOK
  <2>4. <<s, NextRow(s)>> \in SeqIds \X Nat
    BY <2>3 DEF NextRow
  <2>5. rows' \in Seq(SeqIds \X Nat)
    BY <1>4, <2>4, SeqTypes DEF CollectRow, TypeOK
  <2> QED
    BY <1>4, <2>2, <2>5, Sizes DEF CollectRow, TypeOK
<1>5. CASE CollectFail(s)
  <2>1. Fail(s) /\ slots[s].job \in Jobs
    BY <1>1, <1>5 DEF CollectFail, Ready, Slot
  <2>2. /\ slots' \in [SeqIds -> Slot] /\ kv' \in [SeqIds -> SUBSET Cell]
        /\ inflight' \in 0 .. Wrap - 1 /\ outbox' \in Seq(Entry)
    BY <2>1, FailTypes
  <2> QED
    BY <1>5, <2>2, Sizes DEF CollectFail, TypeOK
<1> QED
  BY <1>2, <1>3, <1>4, <1>5

\* The row being sampled or failed: its slot is occupied, waits for nobody,
\* and its logits are those of the slot's own job.
LEMMA HeadRow ==
    ASSUME TypeOK, RowsMatchSlots, rows # <<>>
    PROVE  /\ 1 \in DOMAIN rows /\ Head(rows) = rows[1] /\ RowSlot \in SeqIds
           /\ slots[RowSlot] \in Slot /\ slots[RowSlot].job \in Jobs
           /\ RowJob = slots[RowSlot].job /\ ~Waiting(RowSlot)
           /\ Tail(rows) \in Seq(SeqIds \X Nat)
<1>1. rows \in Seq(SeqIds \X Nat) /\ Len(rows) \in Nat \ {0} /\ DOMAIN rows = 1 .. Len(rows)
  BY EmptySeq, LenProperties DEF TypeOK
<1>2. Head(rows) = rows[1] /\ Tail(rows) \in Seq(SeqIds \X Nat)
  BY <1>1, SeqTypes
<1>3. 1 \in DOMAIN rows /\ rows[1] \in SeqIds \X Nat
  BY <1>1, SeqTypes
<1>4. RowSlot \in SeqIds /\ slots[RowSlot] \in Slot
  BY <1>2, <1>3 DEF RowSlot, TypeOK
<1>5. slots[RowSlot].job # NoJob /\ ~Waiting(RowSlot) /\ RowJob = slots[RowSlot].job
  <2>1. /\ batch[rows[1][2] + 1] = [seq |-> rows[1][1], pos |-> slots[rows[1][1]].n_cur,
                                     job |-> slots[rows[1][1]].job]
        /\ slots[rows[1][1]].job # NoJob /\ ~Waiting(rows[1][1])
    BY <1>3 DEF RowsMatchSlots, RowMatches
  <2> QED
    BY <1>2, <2>1 DEF RowSlot, RowJob
<1> QED
  BY <1>2, <1>3, <1>4, <1>5 DEF Slot

\* The decode.
LEMMA DecodeTypes ==
    TypeOK /\ (CollectEnd \/ DecodeOk \/ DecodeFail \/ FailEnd \/ SampleEnd) => TypeOK'
<1> SUFFICES ASSUME TypeOK, CollectEnd \/ DecodeOk \/ DecodeFail \/ FailEnd \/ SampleEnd
             PROVE  TypeOK'
  OBVIOUS
<1> USE DEF poolVars, loopVars, sharedVars, callerVars
<1>1. ASSUME NEW s \in SeqIds, NEW part \in SUBSET DOMAIN batch
      PROVE  Written(s, part) \subseteq Cell
  <2>1. \A i \in DOMAIN batch : batch[i].pos \in Nat /\ batch[i].job \in Jobs
    <3>1. \A i \in DOMAIN batch : batch[i] \in Row
      BY SeqTypes DEF TypeOK
    <3> QED
      BY <3>1 DEF Row
  <2> QED
    BY <2>1 DEF Written, Cell
<1>2. CASE CollectEnd
  BY <1>2 DEF CollectEnd, TypeOK
<1>3. CASE DecodeOk
  <2>1. kv' \in [SeqIds -> SUBSET Cell]
    BY <1>1, <1>3 DEF DecodeOk, TypeOK
  <2> QED
    BY <1>3, <2>1 DEF DecodeOk, TypeOK
<1>4. CASE DecodeFail
  <2>1. kv' \in [SeqIds -> SUBSET Cell]
    BY <1>1, <1>4 DEF DecodeFail, TypeOK
  <2> QED
    BY <1>4, <2>1 DEF DecodeFail, TypeOK
<1>5. CASE FailEnd
  BY <1>5 DEF FailEnd, TypeOK
<1>6. CASE SampleEnd
  BY <1>6, ChoiceAssumption DEF SampleEnd, TypeOK
<1> QED
  BY <1>2, <1>3, <1>4, <1>5, <1>6

\* The rows: a failed one, and the four ways to sample one.
LEMMA RowTypes ==
    ASSUME TypeOK, PoolInv,
           FailRow \/ SampleEog \/ SampleFail \/ SampleToken \/ SampleLast
    PROVE  TypeOK'
<1> USE DEF poolVars, loopVars, sharedVars, callerVars
<1>1. /\ RowSlot \in SeqIds /\ slots[RowSlot] \in Slot /\ slots[RowSlot].job \in Jobs
      /\ RowJob = slots[RowSlot].job /\ Tail(rows) \in Seq(SeqIds \X Nat)
  BY HeadRow DEF PoolInv, FailRow, SampleEog, SampleFail, SampleToken, SampleLast
<1>2. Sampled \in Slot /\ Sampled.job = slots[RowSlot].job
  <2>1. /\ slots[RowSlot].n_cur + 1 \in Nat
        /\ slots[RowSlot].n_decoded + 1 \in Nat
    BY <1>1 DEF Slot
  <2>2. Token(RowJob, slots[RowSlot].n_decoded + 1) \in Event
    BY <1>1, <2>1, EventTypes
  <2> QED
    BY <1>1, <2>1, <2>2 DEF Sampled, Slot
<1>3. ASSUME Fail(RowSlot)
      PROVE  /\ slots' \in [SeqIds -> Slot] /\ kv' \in [SeqIds -> SUBSET Cell]
             /\ inflight' \in 0 .. Wrap - 1 /\ outbox' \in Seq(Entry)
  BY <1>1, <1>3, FailTypes
<1>4. ASSUME NEW slot \in Slot, slot.job \in Jobs, NEW stop \in Stops,
             Retire(RowSlot, slot, stop)
      PROVE  /\ slots' \in [SeqIds -> Slot] /\ kv' \in [SeqIds -> SUBSET Cell]
             /\ inflight' \in 0 .. Wrap - 1 /\ outbox' \in Seq(Entry)
  BY <1>1, <1>4, RetireTypes
<1>5. CASE FailRow
  BY <1>1, <1>3, <1>5 DEF FailRow, RowSlot, TypeOK
<1>6. CASE SampleEog
  <2>1. "EndOfGeneration" \in Stops
    BY DEF Stops
  <2> QED
    BY <1>1, <1>4, <1>6, <2>1 DEF SampleEog, TypeOK
<1>7. CASE SampleFail
  BY <1>1, <1>3, <1>7 DEF SampleFail, TypeOK
<1>8. CASE SampleToken
  BY <1>1, <1>2, <1>8 DEF SampleToken, TypeOK
<1>9. CASE SampleLast
  <2>1. (IF Sampled.context_bound THEN "ContextFull" ELSE "Limit") \in Stops
    BY DEF Stops
  <2> QED
    BY <1>1, <1>2, <1>4, <1>9, <2>1 DEF SampleLast, TypeOK
<1> QED
  BY <1>5, <1>6, <1>7, <1>8, <1>9

\* Every step preserves the types.
LEMMA TypeStep == TypeOK /\ PoolInv /\ [Next]_vars => TypeOK'
<1> SUFFICES ASSUME TypeOK, PoolInv, [Next]_vars PROVE TypeOK'
  OBVIOUS
<1>1. CASE UNCHANGED vars
  BY <1>1 DEF vars, callerVars, sharedVars, poolVars, loopVars, TypeOK
<1>2. CASE CallerStep
  BY <1>2, CallerTypes
<1>3. CASE EngineStep
  BY <1>3, DrainTypes, FlushTypes, AdmitTypes, PrefillTypes, MeterTypes,
     CollectTypes, DecodeTypes, RowTypes DEF EngineStep
<1> QED
  BY <1>1, <1>2, <1>3 DEF Next

(***************************************************************************)
(* The pool: PoolInv is preserved by every step.                           *)
(***************************************************************************)

\* Most steps leave alone everything PoolInv speaks of.
LEMMA PoolFrame ==
    ASSUME PoolInv, UNCHANGED <<slots, rows, batch, kv, pc, cursor, taken>>
    PROVE  PoolInv'
  BY DEF PoolInv, PhaseInv, RowsMatchSlots, RowMatches, RowsBehindCursor,
         BatchIsOfSlots, KvIsolation, Waiting

\* Outside a step there are no rows, and nothing is about to be decoded.
Between == {"drain", "flush", "admit", "prefill", "meter", "exited"}

LEMMA NoRows == PoolInv /\ pc \in Between => rows = <<>>
  BY DEF PoolInv, PhaseInv, Between

\* A sequence of a vacant slot is empty.
LEMMA VacantIsEmpty ==
    ASSUME TypeOK, KvIsolation, NEW s \in SeqIds, slots[s].job = NoJob
    PROVE  kv[s] = {}
<1>1. \A c \in kv[s] : c.job \in Jobs /\ c.job = NoJob
  BY DEF TypeOK, KvIsolation, Cell
<1> QED
  BY <1>1, Sizes

\* Giving back a slot keeps the sequences apart.
LEMMA VacateKv ==
    ASSUME TypeOK, KvIsolation, NEW s \in SeqIds, Vacate(s)
    PROVE  KvIsolation'
<1>1. SUFFICES ASSUME NEW t \in SeqIds, NEW c \in kv'[t] PROVE c.job = slots'[t].job
  BY DEF KvIsolation
<1>2. t # s /\ kv'[t] = kv[t] /\ slots'[t] = slots[t]
  BY <1>1 DEF Vacate, TypeOK
<1> QED
  BY <1>1, <1>2 DEF KvIsolation

\* ... and leaves nothing waiting in the vacated one.
LEMMA VacateWaiting ==
    ASSUME TypeOK, PhaseInv, NEW s \in SeqIds, Vacate(s)
    PROVE  \A t \in SeqIds : Waiting(t)' => slots'[t].job # NoJob
<1>1. \A t \in SeqIds : t # s => slots'[t] = slots[t]
  BY DEF Vacate, TypeOK
<1>2. slots'[s].pending = NoEvent
  BY DEF Vacate, TypeOK, Vacant
<1> QED
  BY <1>1, <1>2 DEF PhaseInv, Waiting

\* With no rows and no step under way, only the rest of PoolInv is left.
LEMMA BetweenSteps ==
    ASSUME rows' = <<>>, pc' \in Between, pc' = "prefill" => taken' # NoJob,
           \A t \in SeqIds : Waiting(t)' => slots'[t].job # NoJob, KvIsolation'
    PROVE  PoolInv'
<1>1. DOMAIN rows' = {}
  OBVIOUS
<1> QED
  BY <1>1 DEF PoolInv, PhaseInv, RowsMatchSlots, RowsBehindCursor, BatchIsOfSlots, Between

\* The steps of callers, the outbox pass, and the ends of the passes.
LEMMA PassPool ==
    ASSUME TypeOK, PoolInv,
           \/ CallerStep \/ DrainDeliver \/ DrainKeep \/ DrainDiscard \/ AdmitCancelled
           \/ DrainEnd \/ FlushEnd \/ AdmitNone \/ AdmitClosed \/ AdmitTake \/ MeterExit
    PROVE  PoolInv'
<1> USE DEF poolVars, loopVars, sharedVars, callerVars
<1>1. CASE CallerStep
  <2>1. UNCHANGED <<slots, rows, batch, kv, pc, cursor, taken>>
    BY <1>1 DEF CallerStep, SubmitQueued, SubmitRefused, CountIn, Recv, Cancel,
                DropGeneration, DropHandle
  <2> QED
    BY <2>1, PoolFrame
<1>2. CASE DrainDeliver \/ DrainKeep \/ DrainDiscard \/ AdmitCancelled
  <2>1. UNCHANGED <<slots, rows, batch, kv, pc, cursor, taken>>
    BY <1>2 DEF DrainDeliver, DrainKeep, DrainDiscard, AdmitCancelled
  <2> QED
    BY <2>1, PoolFrame
<1>3. CASE DrainEnd \/ FlushEnd \/ AdmitNone \/ AdmitClosed \/ AdmitTake \/ MeterExit
  <2>1. pc \in Between /\ pc' \in Between /\ UNCHANGED <<slots, rows, kv>>
    BY <1>3 DEF DrainEnd, FlushEnd, AdmitNone, AdmitClosed, AdmitTake, MeterExit, Between
  <2>2. pc' = "prefill" => taken' # NoJob
    <3>1. CASE AdmitTake
      <4>1. Head(queue) \in Jobs
        BY <3>1, SeqTypes DEF AdmitTake, TypeOK
      <4> QED
        BY <3>1, <4>1, Sizes DEF AdmitTake
    <3>2. CASE DrainEnd \/ FlushEnd \/ AdmitNone \/ AdmitClosed \/ MeterExit
      BY <3>2 DEF DrainEnd, FlushEnd, AdmitNone, AdmitClosed, MeterExit
    <3> QED
      BY <1>3, <3>1, <3>2
  <2>3. rows' = <<>>
    BY <2>1, NoRows
  <2>4. KvIsolation' /\ \A t \in SeqIds : Waiting(t)' => slots'[t].job # NoJob
    BY <2>1 DEF PoolInv, PhaseInv, KvIsolation, Waiting
  <2> QED
    BY <2>1, <2>2, <2>3, <2>4, BetweenSteps
<1> QED
  BY <1>1, <1>2, <1>3

\* The flush of the slots.
LEMMA FlushPool ==
    ASSUME TypeOK, PoolInv, NEW s \in SeqIds,
           FlushReady(s) \/ FlushDeliver(s) \/ FlushStalled(s) \/ StallTimeout(s) \/ FlushClosed(s)
    PROVE  PoolInv'
<1> USE DEF poolVars, loopVars, sharedVars, callerVars
<1>1. pc = "flush" /\ pc' = "flush" /\ rows' = rows
  BY DEF FlushReady, FlushDeliver, FlushStalled, StallTimeout, FlushClosed
<1>2. rows' = <<>> /\ pc' \in Between
  BY <1>1, NoRows DEF Between
<1>3. CASE FlushReady(s) \/ FlushDeliver(s) \/ FlushStalled(s)
  <2>1. kv' = kv /\ \A t \in SeqIds : /\ slots'[t].job = slots[t].job
                                      /\ Waiting(t)' => Waiting(t)
    <3>1. CASE FlushReady(s)
      BY <3>1 DEF FlushReady, Waiting
    <3>2. CASE FlushDeliver(s)
      BY <3>2 DEF FlushDeliver, Waiting, TypeOK, Slot
    <3>3. CASE FlushStalled(s)
      BY <3>3 DEF FlushStalled, Waiting, TypeOK, Slot
    <3> QED
      BY <1>3, <3>1, <3>2, <3>3
  <2>2. KvIsolation' /\ \A t \in SeqIds : Waiting(t)' => slots'[t].job # NoJob
    BY <2>1 DEF PoolInv, PhaseInv, KvIsolation
  <2> QED
    BY <1>1, <1>2, <2>2, BetweenSteps
<1>4. CASE StallTimeout(s) \/ FlushClosed(s)
  <2>1. Vacate(s)
    BY <1>4 DEF StallTimeout, FlushClosed, Retire
  <2>2. KvIsolation' /\ \A t \in SeqIds : Waiting(t)' => slots'[t].job # NoJob
    BY <2>1, VacateKv, VacateWaiting DEF PoolInv
  <2> QED
    BY <1>1, <1>2, <2>2, BetweenSteps
<1> QED
  BY <1>3, <1>4

\* Prefill fills a sequence that was empty, or leaves it empty.
LEMMA PrefillPool ==
    ASSUME TypeOK, PoolInv, NEW s \in SeqIds,
           PrefillRun(s) \/ PrefillFinish(s) \/ PrefillFail(s)
    PROVE  PoolInv'
<1> USE DEF poolVars, loopVars, sharedVars, callerVars
<1>1. pc = "prefill" /\ pc' \in {"meter", "admit"} /\ rows' = rows
  BY DEF PrefillRun, PrefillFinish, PrefillFail, Settle
<1>2. rows' = <<>> /\ pc' \in Between /\ (pc' = "prefill" => taken' # NoJob)
  BY <1>1, NoRows DEF Between
<1>3. taken \in Jobs /\ slots[s].job = NoJob
  BY DEF TypeOK, PoolInv, PhaseInv, PrefillRun, PrefillFinish, PrefillFail,
         IsFirstFree, Free, Occupied
<1>4. CASE PrefillRun(s)
  <2>1. /\ slots'[s].job = taken
        /\ \A t \in SeqIds : t # s => slots'[t] = slots[t] /\ kv'[t] = kv[t]
    BY <1>4 DEF PrefillRun, TypeOK
  <2>2. kv'[s] = PromptCells(taken)
    BY <1>3, <1>4, VacantIsEmpty DEF PrefillRun, TypeOK, PoolInv
  <2>3. \A c \in kv'[s] : c.job = slots'[s].job
    BY <2>1, <2>2 DEF PromptCells
  <2>4. KvIsolation'
    BY <2>1, <2>3 DEF KvIsolation, PoolInv
  <2>5. \A t \in SeqIds : Waiting(t)' => slots'[t].job # NoJob
    BY <1>3, <2>1, Sizes DEF Waiting, PoolInv, PhaseInv
  <2> QED
    BY <1>2, <2>4, <2>5, BetweenSteps
<1>5. CASE PrefillFinish(s) \/ PrefillFail(s)
  <2>1. slots' = slots /\ kv' = [kv EXCEPT ![s] = {}]
    BY <1>5 DEF PrefillFinish, PrefillFail, Settle
  <2>2. KvIsolation'
    BY <2>1 DEF KvIsolation, PoolInv, TypeOK
  <2>3. \A t \in SeqIds : Waiting(t)' => slots'[t].job # NoJob
    BY <2>1 DEF Waiting, PoolInv, PhaseInv
  <2> QED
    BY <1>2, <2>2, <2>3, BetweenSteps
<1> QED
  BY <1>4, <1>5

\* A step starts with no rows and an empty batch.
LEMMA MeterPool == PoolInv /\ MeterStep => PoolInv'
<1> SUFFICES ASSUME PoolInv, MeterStep PROVE PoolInv'
  OBVIOUS
<1>1. /\ rows' = <<>> /\ batch' = <<>> /\ pc' = "collect"
      /\ slots' = slots /\ kv' = kv
  BY DEF MeterStep
<1>2. DOMAIN rows' = {} /\ DOMAIN batch' = {}
  BY <1>1
<1> QED
  BY <1>1, <1>2 DEF PoolInv, PhaseInv, RowsMatchSlots, RowsBehindCursor,
                    BatchIsOfSlots, KvIsolation, Waiting

\* While rows are collected, giving back the slot at the cursor disturbs none
\* of them: they are all of slots before it.
LEMMA CollectVacatePool ==
    ASSUME TypeOK, PoolInv, NEW s \in SeqIds, pc = "collect", cursor = s, Vacate(s),
           cursor' = cursor + 1, UNCHANGED <<pc, taken, rows, batch>>
    PROVE  PoolInv'
<1>1. \A t \in SeqIds : t # s => slots'[t] = slots[t]
  BY DEF Vacate, TypeOK
<1>2. \A i \in DOMAIN rows : rows[i] \in SeqIds \X Nat
  BY SeqTypes DEF TypeOK
<1>3. \A i \in DOMAIN rows : rows[i][1] \in SeqIds /\ rows[i][1] < cursor
  BY <1>2 DEF PoolInv, RowsBehindCursor
<1>4. \A i \in DOMAIN rows : slots'[rows[i][1]] = slots[rows[i][1]]
  BY <1>1, <1>3, Sizes
<1>5. RowsMatchSlots' /\ RowsBehindCursor'
  <2>1. \A i \in DOMAIN rows : RowMatches(rows[i][1], rows[i][2])'
    BY <1>4 DEF PoolInv, RowsMatchSlots, RowMatches, Waiting
  <2> QED
    <3>1. RowsMatchSlots'
      BY <2>1 DEF PoolInv, RowsMatchSlots
    <3>2. ASSUME NEW i \in DOMAIN rows PROVE rows[i][1] < cursor + 1
      <4>1. rows[i][1] \in Nat /\ cursor \in Nat /\ rows[i][1] < cursor
        BY <1>3, Sizes
      <4> QED
        BY <4>1
    <3> QED
      BY <3>1, <3>2 DEF RowsBehindCursor
<1>6. BatchIsOfSlots'
  <2>1. \A i \in DOMAIN batch : batch[i] \in Row
    BY SeqTypes DEF TypeOK
  <2>2. \A i \in DOMAIN batch : batch[i].seq \in SeqIds /\ batch[i].seq < cursor
    BY <2>1 DEF Row, PoolInv, BatchIsOfSlots
  <2> QED
    BY <1>1, <2>2, Sizes DEF PoolInv, BatchIsOfSlots
<1>7. KvIsolation' /\ \A t \in SeqIds : Waiting(t)' => slots'[t].job # NoJob
  BY VacateKv, VacateWaiting DEF PoolInv
<1> QED
  BY <1>5, <1>6, <1>7 DEF PoolInv, PhaseInv

\* A new row is of the slot at the cursor, and is the last of the batch.
LEMMA CollectRowPool ==
    ASSUME TypeOK, PoolInv, NEW s \in SeqIds, CollectRow(s)
    PROVE  PoolInv'
<1> USE DEF poolVars, loopVars, sharedVars, callerVars
<1> DEFINE row == [seq |-> s, pos |-> slots[s].n_cur, job |-> slots[s].job]
           at  == <<s, Len(batch)>>
<1>1. /\ pc = "collect" /\ pc' = "collect" /\ cursor = s /\ cursor' = s + 1
      /\ batch' = Append(batch, row) /\ rows' = Append(rows, at)
      /\ UNCHANGED <<slots, kv, taken>> /\ slots[s].job # NoJob /\ ~Waiting(s)
  BY DEF CollectRow, NextRow, Ready
<1>2. slots[s] \in Slot /\ batch \in Seq(Row) /\ rows \in Seq(SeqIds \X Nat)
  BY DEF TypeOK
<1>3. row \in Row /\ at \in SeqIds \X Nat
  BY <1>1, <1>2, LenProperties DEF Slot, Row
<1> HIDE DEF row, at
<1>4. /\ Len(batch) \in Nat /\ DOMAIN batch = 1 .. Len(batch)
      /\ DOMAIN batch' = 1 .. Len(batch) + 1
      /\ batch'[Len(batch) + 1] = row
      /\ \A i \in DOMAIN batch : batch'[i] = batch[i]
  <2>1. batch' \in Seq(Row) /\ Len(batch') = Len(batch) + 1
    BY <1>1, <1>2, <1>3, AppendProperties
  <2> QED
    BY <1>1, <1>2, <1>3, <2>1, AppendProperties, LenProperties
<1>5. /\ Len(rows) \in Nat /\ DOMAIN rows = 1 .. Len(rows)
      /\ DOMAIN rows' = 1 .. Len(rows) + 1
      /\ rows'[Len(rows) + 1] = at
      /\ \A i \in DOMAIN rows : rows'[i] = rows[i]
  <2>1. rows' \in Seq(SeqIds \X Nat) /\ Len(rows') = Len(rows) + 1
    BY <1>1, <1>2, <1>3, AppendProperties
  <2> QED
    BY <1>1, <1>2, <1>3, <2>1, AppendProperties, LenProperties
<1>6. \A i \in DOMAIN rows : rows[i] \in SeqIds \X Nat /\ rows[i][1] < cursor
  BY <1>1, <1>2, SeqTypes DEF PoolInv, RowsBehindCursor
<1>7. RowsMatchSlots'
  <2>1. ASSUME NEW i \in DOMAIN rows', NEW t, NEW k, t = rows'[i][1], k = rows'[i][2]
        PROVE  RowMatches(t, k)'
    <3>1. CASE i = Len(rows) + 1
      <4>1. t = s /\ k = Len(batch)
        BY <1>5, <2>1, <3>1 DEF at
      <4>2. k + 1 \in DOMAIN batch' /\ batch'[k + 1] = row
        BY <1>4, <4>1
      <4> QED
        BY <1>1, <4>1, <4>2 DEF RowMatches, Waiting, row
    <3>2. CASE i # Len(rows) + 1
      <4>1. i \in DOMAIN rows /\ t = rows[i][1] /\ k = rows[i][2]
        BY <1>5, <2>1, <3>2
      <4>2. RowMatches(t, k)
        BY <4>1 DEF PoolInv, RowsMatchSlots
      <4>3. k \in Nat /\ k + 1 \in DOMAIN batch' /\ batch'[k + 1] = batch[k + 1]
        BY <1>4, <1>6, <4>1, <4>2 DEF RowMatches
      <4> QED
        BY <1>1, <4>2, <4>3 DEF RowMatches, Waiting
    <3> QED
      BY <3>1, <3>2
  <2>3. \A i \in DOMAIN rows' : RowMatches(rows[i][1], rows[i][2])'
    BY <2>1 DEF RowMatches, Waiting
  <2>4. \A i, k \in DOMAIN rows' : rows'[i][1] = rows'[k][1] => i = k
    <3>1. rows'[Len(rows) + 1][1] = s
      BY <1>5 DEF at
    <3>2. \A i \in DOMAIN rows : rows'[i][1] # s
      BY <1>1, <1>5, <1>6, Sizes
    <3>3. \A i, k \in DOMAIN rows : rows'[i][1] = rows'[k][1] => i = k
      BY <1>5 DEF PoolInv, RowsMatchSlots
    <3> QED
      BY <1>5, <3>1, <3>2, <3>3
  <2> QED
    BY <2>3, <2>4 DEF RowsMatchSlots
<1>8. RowsBehindCursor'
  <2>1. ASSUME NEW i \in DOMAIN rows', NEW t, t = rows'[i][1]
        PROVE  t < s + 1
    <3>1. CASE i = Len(rows) + 1
      <4>1. t = s
        BY <1>5, <2>1, <3>1 DEF at
      <4> QED
        BY <4>1, Sizes
    <3>2. CASE i # Len(rows) + 1
      <4>1. i \in DOMAIN rows /\ t = rows[i][1]
        BY <1>5, <2>1, <3>2
      <4>2. t \in Nat /\ t < s
        BY <1>1, <1>2, <1>6, <4>1, Sizes
      <4> QED
        BY <4>2, Sizes
    <3> QED
      BY <3>1, <3>2
  <2>2. \A i \in DOMAIN rows' : rows'[i][1] < s + 1
    BY <2>1
  <2> QED
    BY <1>1, <2>2 DEF RowsBehindCursor
<1>9. BatchIsOfSlots'
  <2>1. \A i \in DOMAIN batch : batch[i].job = slots[batch[i].seq].job /\ batch[i].seq < cursor
    BY <1>1 DEF PoolInv, BatchIsOfSlots
  <2>2. \A i \in DOMAIN batch : batch[i].seq \in Nat
    <3>1. \A i \in DOMAIN batch : batch[i] \in Row
      BY <1>2, SeqTypes
    <3> QED
      BY <3>1, Sizes DEF Row
  <2>3. row.seq = s /\ row.job = slots[s].job
    BY DEF row
  <2>4. \A i \in DOMAIN batch' : i \in DOMAIN batch \/ i = Len(batch) + 1
    BY <1>4
  <2>5. \A i \in DOMAIN batch' :
           batch'[i].job = slots'[batch'[i].seq].job /\ batch'[i].seq < s + 1
    BY <1>1, <1>4, <2>1, <2>2, <2>3, <2>4, Sizes
  <2> QED
    BY <1>1, <2>5 DEF BatchIsOfSlots
<1> QED
  BY <1>1, <1>7, <1>8, <1>9 DEF PoolInv, PhaseInv, KvIsolation, Waiting

\* The collection.
LEMMA CollectPool ==
    ASSUME TypeOK, PoolInv, NEW s \in SeqIds,
           CollectSkip(s) \/ CollectCancelled(s) \/ CollectRow(s) \/ CollectFail(s)
    PROVE  PoolInv'
<1> USE DEF poolVars, loopVars, sharedVars, callerVars
<1>1. CASE CollectSkip(s)
  <2>1. /\ pc = "collect" /\ pc' = "collect" /\ cursor \in Nat /\ cursor' = cursor + 1
        /\ UNCHANGED <<slots, rows, batch, kv, taken>>
    BY <1>1, Sizes DEF CollectSkip
  <2>2. \A i \in DOMAIN rows : rows[i][1] \in Nat /\ rows[i][1] < cursor
    <3>1. \A i \in DOMAIN rows : rows[i] \in SeqIds \X Nat
      BY SeqTypes DEF TypeOK
    <3> QED
      BY <2>1, <3>1, Sizes DEF PoolInv, RowsBehindCursor
  <2>3. \A i \in DOMAIN batch : batch[i].seq \in Nat /\ batch[i].seq < cursor
    <3>1. \A i \in DOMAIN batch : batch[i] \in Row
      BY SeqTypes DEF TypeOK
    <3>2. \A i \in DOMAIN batch : batch[i].seq \in Nat
      BY <3>1, Sizes DEF Row
    <3> QED
      BY <2>1, <3>2 DEF PoolInv, BatchIsOfSlots
  <2>4. RowsBehindCursor' /\ BatchIsOfSlots'
    BY <2>1, <2>2, <2>3 DEF PoolInv, RowsBehindCursor, BatchIsOfSlots
  <2> QED
    BY <2>1, <2>4 DEF PoolInv, PhaseInv, RowsMatchSlots, RowMatches, KvIsolation, Waiting
<1>2. CASE CollectCancelled(s)
  BY <1>2, CollectVacatePool DEF CollectCancelled, Retire
<1>3. CASE CollectRow(s)
  BY <1>3, CollectRowPool
<1>4. CASE CollectFail(s)
  BY <1>4, CollectVacatePool DEF CollectFail, Fail
<1> QED
  BY <1>1, <1>2, <1>3, <1>4

\* The end of the collection, the decode, and the end of the step.
LEMMA DecodePool ==
    ASSUME TypeOK, PoolInv, CollectEnd \/ DecodeOk \/ DecodeFail \/ FailEnd \/ SampleEnd
    PROVE  PoolInv'
<1> USE DEF poolVars, loopVars, sharedVars, callerVars
<1>1. UNCHANGED <<slots, rows, batch, taken>>
  BY DEF CollectEnd, DecodeOk, DecodeFail, FailEnd, SampleEnd
<1>2. RowsMatchSlots' /\ \A t \in SeqIds : Waiting(t)' => slots'[t].job # NoJob
  BY <1>1 DEF PoolInv, PhaseInv, RowsMatchSlots, RowMatches, Waiting
<1>3. CASE CollectEnd
  BY <1>1, <1>2, <1>3 DEF CollectEnd, PoolInv, PhaseInv, RowsBehindCursor,
                          BatchIsOfSlots, KvIsolation
<1>4. CASE DecodeOk \/ DecodeFail
  <2>1. /\ pc = "decode" /\ pc' \in {"sample", "failing"}
        /\ \E part \in SUBSET DOMAIN batch :
              kv' = [s \in SeqIds |-> kv[s] \cup Written(s, part)]
    BY <1>4 DEF DecodeOk, DecodeFail
  <2>2. \A s \in SeqIds : \A part \in SUBSET DOMAIN batch :
           \A c \in Written(s, part) : c.job = slots[s].job
    BY <2>1 DEF Written, PoolInv, BatchIsOfSlots
  <2>3. KvIsolation'
    BY <1>1, <2>1, <2>2 DEF KvIsolation, PoolInv
  <2> QED
    BY <1>1, <1>2, <2>1, <2>3 DEF PoolInv, PhaseInv, RowsBehindCursor, BatchIsOfSlots
<1>5. CASE FailEnd \/ SampleEnd
  BY <1>1, <1>2, <1>5 DEF FailEnd, SampleEnd, PoolInv, PhaseInv, RowsBehindCursor,
                          BatchIsOfSlots, KvIsolation
<1> QED
  BY <1>3, <1>4, <1>5

\* When the first row is done with, the others still match: they are of other
\* slots than the one it was read for.
LEMMA RowDone ==
    ASSUME TypeOK, RowsMatchSlots, rows # <<>>, rows' = Tail(rows), batch' = batch,
           \A t \in SeqIds : t # RowSlot => slots'[t] = slots[t]
    PROVE  RowsMatchSlots'
<1>1. rows \in Seq(SeqIds \X Nat)
  BY DEF TypeOK
<1>2. /\ Len(rows) \in Nat \ {0} /\ DOMAIN rows = 1 .. Len(rows)
      /\ DOMAIN rows' = 1 .. Len(rows) - 1
      /\ \A i \in DOMAIN rows' : rows'[i] = rows[i + 1]
  BY <1>1, EmptySeq, HeadTailProperties, LenProperties
<1>3. RowSlot = rows[1][1] /\ 1 \in DOMAIN rows
  BY HeadRow DEF RowSlot
<1>4. ASSUME NEW i \in DOMAIN rows', NEW t, NEW k, t = rows'[i][1], k = rows'[i][2]
      PROVE  RowMatches(t, k)'
  <2>1. i + 1 \in DOMAIN rows /\ i + 1 # 1 /\ t = rows[i + 1][1] /\ k = rows[i + 1][2]
    BY <1>2, <1>4
  <2>2. t \in SeqIds
    <3>1. rows[i + 1] \in SeqIds \X Nat
      BY <1>1, <2>1, SeqTypes
    <3> QED
      BY <2>1, <3>1
  <2>3. t # RowSlot
    BY <1>3, <2>1 DEF RowsMatchSlots
  <2>4. RowMatches(t, k)
    BY <2>1 DEF RowsMatchSlots
  <2> QED
    BY <2>2, <2>3, <2>4 DEF RowMatches, Waiting
<1>5. \A i \in DOMAIN rows' : RowMatches(rows[i][1], rows[i][2])'
  BY <1>4 DEF RowMatches, Waiting
<1>6. \A i, k \in DOMAIN rows' : rows'[i][1] = rows'[k][1] => i = k
  <2>1. \A i, k \in DOMAIN rows' : /\ i + 1 \in DOMAIN rows /\ k + 1 \in DOMAIN rows
                                   /\ rows'[i] = rows[i + 1] /\ rows'[k] = rows[k + 1]
    BY <1>2
  <2>2. \A i, k \in DOMAIN rows' : rows'[i][1] = rows'[k][1] => i + 1 = k + 1
    BY <2>1 DEF RowsMatchSlots
  <2> QED
    BY <1>2, <2>2
<1> QED
  BY <1>5, <1>6 DEF RowsMatchSlots

\* A failed row, and the four ways to sample one.
LEMMA RowPool ==
    ASSUME TypeOK, PoolInv,
           FailRow \/ SampleEog \/ SampleFail \/ SampleToken \/ SampleLast
    PROVE  PoolInv'
<1> USE DEF poolVars, loopVars, sharedVars, callerVars
<1>1. /\ pc \in {"failing", "sample"} /\ pc' = pc /\ rows # <<>>
      /\ rows' = Tail(rows) /\ batch' = batch
  BY DEF FailRow, SampleEog, SampleFail, SampleToken, SampleLast
<1>2. RowSlot \in SeqIds /\ slots[RowSlot].job \in Jobs
  BY <1>1, HeadRow DEF PoolInv
<1>3. CASE SampleToken
  <2>1. Sampled.job = slots[RowSlot].job
    BY DEF Sampled
  <2>2. /\ slots' = [slots EXCEPT ![RowSlot] = Sampled] /\ kv' = kv
    BY <1>3 DEF SampleToken
  <2>3. /\ slots'[RowSlot] = Sampled
        /\ \A t \in SeqIds : t # RowSlot => slots'[t] = slots[t]
    BY <1>2, <2>2 DEF TypeOK
  <2>4. \A t \in SeqIds : slots'[t].job = slots[t].job
    BY <2>1, <2>3
  <2>5. RowsMatchSlots'
    BY <1>1, <2>3, RowDone DEF PoolInv
  <2>6. KvIsolation'
    BY <2>2, <2>4 DEF PoolInv, KvIsolation
  <2>7. \A t \in SeqIds : Waiting(t)' => slots'[t].job # NoJob
    BY <1>2, <2>3, <2>4, Sizes DEF PoolInv, PhaseInv, Waiting
  <2> QED
    BY <1>1, <2>5, <2>6, <2>7 DEF PoolInv, PhaseInv, RowsBehindCursor, BatchIsOfSlots
<1>4. CASE FailRow \/ SampleEog \/ SampleFail \/ SampleLast
  <2>1. Vacate(RowSlot)
    BY <1>4 DEF FailRow, SampleEog, SampleFail, SampleLast, Fail, Retire, RowSlot
  <2>2. \A t \in SeqIds : t # RowSlot => slots'[t] = slots[t]
    BY <2>1 DEF Vacate, TypeOK
  <2>3. RowsMatchSlots'
    BY <1>1, <2>2, RowDone DEF PoolInv
  <2>4. KvIsolation' /\ \A t \in SeqIds : Waiting(t)' => slots'[t].job # NoJob
    BY <1>2, <2>1, VacateKv, VacateWaiting DEF PoolInv
  <2> QED
    BY <1>1, <2>3, <2>4 DEF PoolInv, PhaseInv, RowsBehindCursor, BatchIsOfSlots
<1> QED
  BY <1>3, <1>4

\* Every step preserves the pool's invariant.
LEMMA PoolStep == TypeOK /\ PoolInv /\ [Next]_vars => PoolInv'
<1> SUFFICES ASSUME TypeOK, PoolInv, [Next]_vars PROVE PoolInv'
  OBVIOUS
<1>1. CASE UNCHANGED vars
  BY <1>1, PoolFrame DEF vars, callerVars, sharedVars, poolVars, loopVars
<1>2. CASE CallerStep
  BY <1>2, PassPool
<1>3. CASE EngineStep
  BY <1>3, PassPool, FlushPool, PrefillPool, MeterPool, CollectPool, DecodePool, RowPool
     DEF EngineStep
<1> QED
  BY <1>1, <1>2, <1>3 DEF Next

(***************************************************************************)
(* The theorems.                                                           *)
(***************************************************************************)

\* The initial states have the types and the invariant of the pool.
LEMMA InitPool == Init => TypeOK /\ PoolInv
<1> SUFFICES ASSUME Init PROVE TypeOK /\ PoolInv
  OBVIOUS
<1>1. TypeOK
  <2>1. /\ got \in [Jobs -> Seq(Event)] /\ events \in [Jobs -> Seq(Event)]
        /\ queue \in Seq(Jobs) /\ outbox \in Seq(Entry) /\ kept \in Seq(Entry)
        /\ batch \in Seq(Row) /\ rows \in Seq(SeqIds \X Nat)
    BY EmptySeq DEF Init
  <2>2. slots \in [SeqIds -> Slot]
    BY EventTypes DEF Init
  <2>3. /\ caller \in [Jobs -> {"idle", "sent", "holding", "dropped", "refused"}]
        /\ cancel \in [Jobs -> BOOLEAN]
    BY DEF Init
  <2>4. inflight \in 0 .. Wrap - 1 /\ decoding \in Nat /\ cursor \in 0 .. MaxInflight
    BY Sizes DEF Init
  <2> QED
    BY <2>1, <2>2, <2>3, <2>4 DEF Init, TypeOK
<1>2. \A s \in SeqIds : slots[s].job = NoJob /\ slots[s].pending = NoEvent
  BY DEF Init, Vacant
<1>3. DOMAIN rows = {}
  BY DEF Init
<1>4. PoolInv
  BY <1>2, <1>3 DEF Init, PoolInv, PhaseInv, RowsMatchSlots, RowsBehindCursor,
                    BatchIsOfSlots, KvIsolation, Waiting
<1> QED
  BY <1>1, <1>4

\* The inductive invariant, from which the theorems below follow.
THEOREM PoolIsConsistent == Spec => [](TypeOK /\ PoolInv)
<1>1. TypeOK /\ PoolInv /\ [Next]_vars => (TypeOK /\ PoolInv)'
  BY TypeStep, PoolStep
<1> QED
  BY InitPool, <1>1, PTL DEF Spec

\* Every variable of the engine keeps its type, the meter its width included.
THEOREM TypeCorrect == Spec => []TypeOK
  BY PoolIsConsistent, PTL

\* No sequence of the shared context ever holds a cell of another job than
\* the one in its slot, through retirement, failed prefills, decodes that
\* failed halfway, and the reuse of the sequence by the next job.
THEOREM KvIsIsolated == Spec => []KvIsolation
<1>1. PoolInv => KvIsolation
  BY DEF PoolInv
<1> QED
  BY PoolIsConsistent, <1>1, PTL

\* Every token is sampled from the row its own slot put in the batch, however
\* many slots were retired or failed between the collection and the sampling.
THEOREM RowsAreOfTheirSlots == Spec => []RowsMatchSlots
<1>1. PoolInv => RowsMatchSlots
  BY DEF PoolInv
<1> QED
  BY PoolIsConsistent, <1>1, PTL

=============================================================================
