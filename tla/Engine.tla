------------------------------- MODULE Engine -------------------------------
(***************************************************************************)
(* The engine of llm-engine/src/lib.rs: callers that submit requests from  *)
(* any thread, and the one thread that owns the model and batches them.    *)
(*                                                                         *)
(* A step of a caller is one atomic operation on what it shares with the   *)
(* engine: a channel, the cancel flag, a meter.  A step of the engine      *)
(* thread is the code between two such operations; pc says where the loop  *)
(* of `serve` is.                                                          *)
(*                                                                         *)
(* Text, sampling parameters and times are left out.  A token is the name  *)
(* of the job whose row it was sampled from and its number in the reply;   *)
(* the sampler and the failures of llama.cpp are choices.                  *)
(*                                                                         *)
(* An operator named X_y stands just before X and is X with a mistake that *)
(* could be made in the code; it is used only to show that a property      *)
(* tells the two apart.                                                    *)
(***************************************************************************)
EXTENDS Integers, Sequences, FiniteSets

CONSTANTS
    Jobs,         \* the submissions, each made at most once
    NoJob,        \* the content of a vacant slot
    MaxInflight,  \* EngineConfig::max_inflight
    QueueDepth,   \* EngineConfig::queue_depth
    ChanCap,      \* events a Generation buffers (256 in the code)
    NCtx,         \* EngineConfig::n_ctx, the window of one slot
    MinBatch,     \* the least batch size (512 in the code)
    Prompts,      \* prompt lengths callers send, in tokens
    Asks,         \* values of max_tokens callers send
    HasTarget,    \* target_step_ms > 0
    StepCosts,    \* what a step may turn out to be: TRUE is "over target"
    Faults,       \* the fallible calls that may fail
    Wrap          \* the modulus of usize

ASSUME JobsAssumption == IsFiniteSet(Jobs) /\ NoJob \notin Jobs
ASSUME SizeAssumption ==
    /\ QueueDepth \in Nat
    /\ {MaxInflight, ChanCap, NCtx, MinBatch} \subseteq Nat \ {0}
ASSUME RequestAssumption == Prompts \subseteq Nat \ {0} /\ Asks \subseteq Int
ASSUME ChoiceAssumption ==
    /\ HasTarget \in BOOLEAN
    /\ StepCosts \subseteq BOOLEAN /\ StepCosts # {}
    /\ Faults \subseteq {"prompt", "decode", "piece"}
ASSUME WrapAssumption == Wrap \in Nat /\ Cardinality(Jobs) < Wrap

VARIABLES
    \* what the callers hold
    caller,   \* idle, sent (queued, not yet counted), holding, dropped, refused
    req,      \* the request of a job
    got,      \* the events its caller has received, oldest first
    \* what callers and engine share
    cancel,   \* Job::cancel
    events,   \* the bounded channel of each Generation
    queue,    \* the bounded channel of jobs
    open,     \* some Engine handle is alive
    inflight, \* Meters::inflight
    decoding, \* Meters::decoding
    \* what the engine thread holds
    pc, cursor, closed,
    taken,    \* the job in prefill
    slots, outbox,
    kept,     \* the outbox entries `retain` has decided to keep, this pass
    batch, rows,
    slow,     \* step_us >= target_step_us
    kv        \* the cells of each sequence of the shared context

callerVars == <<caller, req, got>>
sharedVars == <<cancel, events, queue, open, inflight, decoding>>
poolVars   == <<slots, outbox, kept, batch, rows, slow, kv>>
loopVars   == <<pc, cursor, closed, taken>>
vars == <<callerVars, sharedVars, poolVars, loopVars>>

SeqIds     == 0 .. MaxInflight - 1
QueueLimit == IF QueueDepth < MaxInflight THEN MaxInflight ELSE QueueDepth
BatchCap   == IF NCtx < MinBatch THEN MinBatch ELSE NCtx

(***************************************************************************)
(* Data.                                                                   *)
(***************************************************************************)
Stops == {"EndOfGeneration", "Limit", "ContextFull", "Cancelled"}
Request == [prompt : Prompts, asked : Asks]

Token(j, n)      == [kind |-> "token",  of |-> j, n |-> n, stop |-> ""]
Done(j, stop, n) == [kind |-> "done",   of |-> j, n |-> n, stop |-> stop]
Failed(j)        == [kind |-> "failed", of |-> j, n |-> 0, stop |-> ""]
NoEvent          == [kind |-> "none", of |-> NoJob, n |-> 0, stop |-> ""]
IsTerminal(e)    == e.kind \in {"done", "failed"}

\* An empty place in the pool.
Vacant == [job |-> NoJob, n_cur |-> 0, n_decoded |-> 0, budget |-> 0,
           context_bound |-> FALSE, pending |-> NoEvent, stalled |-> FALSE]

Occupied == {s \in SeqIds : slots[s].job # NoJob}
Free     == SeqIds \ Occupied
IsFirstFree(s) == s \in Free /\ \A t \in Free : s <= t
Idle     == Occupied = {} /\ outbox = <<>>

\* What a request may still generate after its prompt, and why it stops then.
Room(r)   == NCtx - r.prompt
Asked(r)  == IF r.asked < 0 THEN 0 ELSE r.asked
Budget(r) == IF Asked(r) < Room(r) THEN Asked(r) ELSE Room(r)

Fits_reserving(r) == r.prompt + r.asked < NCtx
Fits(r)   == r.prompt < NCtx
ContextBound_reversed(r) == Asked(r) < Room(r)
ContextBound(r) == Asked(r) > Room(r)

\* The rows of the batch that ingests the prompt of job j on sequence s.
PromptRows(j, s) ==
    [i \in 1 .. req[j].prompt |-> [seq |-> s, pos |-> i - 1, job |-> j]]
\* ... and the cells it fills.
PromptCells(j) == [pos : 0 .. req[j].prompt - 1, job : {j}]

\* usize arithmetic of the inflight meter.
CountUp   == IF inflight = Wrap - 1 THEN 0 ELSE inflight + 1
CountDown_signed == inflight - 1
CountDown == IF inflight = 0 THEN Wrap - 1 ELSE inflight - 1

\* Sending on the channel of job j: tokio's try_send.
SendClosed(j) == caller[j] = "dropped"
SendFull(j)   == ~SendClosed(j) /\ Len(events[j]) >= ChanCap
SendOk(j)     == ~SendClosed(j) /\ Len(events[j]) < ChanCap
Send(j, e)    == events' = [events EXCEPT ![j] = Append(@, e)]

Post(j, e) == [job |-> j, event |-> e]

Init ==
    /\ caller = [j \in Jobs |-> "idle"]
    /\ req \in [Jobs -> Request]
    /\ got = [j \in Jobs |-> <<>>]
    /\ cancel = [j \in Jobs |-> FALSE]
    /\ events = [j \in Jobs |-> <<>>]
    /\ queue = <<>> /\ open = TRUE
    /\ inflight = 0 /\ decoding = 0
    /\ pc = "drain" /\ cursor = 0 /\ closed = FALSE /\ taken = NoJob
    /\ slots = [s \in SeqIds |-> Vacant]
    /\ outbox = <<>> /\ kept = <<>> /\ batch = <<>> /\ rows = <<>>
    /\ slow = FALSE
    /\ kv = [s \in SeqIds |-> {}]

(***************************************************************************)
(* Callers: Engine::submit, the Generation it returns, the engine handle.  *)
(***************************************************************************)

\* What decides whether try_send takes the job.
QueueFull_byMeter == inflight >= QueueLimit
QueueFull == Len(queue) >= QueueLimit

\* submit, up to and including a try_send that succeeds.
SubmitQueued(j) ==
    /\ caller[j] = "idle" /\ open /\ ~QueueFull
    /\ queue' = Append(queue, j)
    /\ caller' = [caller EXCEPT ![j] = "sent"]
    /\ UNCHANGED <<req, got, cancel, events, open, inflight, decoding, poolVars, loopVars>>

\* submit, when try_send finds the queue full.
SubmitRefused(j) ==
    /\ caller[j] = "idle" /\ open /\ QueueFull
    /\ caller' = [caller EXCEPT ![j] = "refused"]
    /\ UNCHANGED <<req, got, sharedVars, poolVars, loopVars>>

\* The rest of submit: the meter goes up after the job is in the queue.
CountIn(j) ==
    /\ caller[j] = "sent"
    /\ inflight' = CountUp
    /\ caller' = [caller EXCEPT ![j] = "holding"]
    /\ UNCHANGED <<req, got, cancel, events, queue, open, decoding, poolVars, loopVars>>

\* Generation::recv
Recv(j) ==
    /\ caller[j] = "holding" /\ events[j] # <<>>
    /\ got' = [got EXCEPT ![j] = Append(@, Head(events[j]))]
    /\ events' = [events EXCEPT ![j] = Tail(@)]
    /\ UNCHANGED <<caller, req, cancel, queue, open, inflight, decoding, poolVars, loopVars>>

\* Generation::cancel
Cancel(j) ==
    /\ caller[j] = "holding" /\ ~cancel[j]
    /\ cancel' = [cancel EXCEPT ![j] = TRUE]
    /\ UNCHANGED <<callerVars, events, queue, open, inflight, decoding, poolVars, loopVars>>

\* Drop for Generation: the flag is set and the receiver closes.
DropGeneration(j) ==
    /\ caller[j] = "holding"
    /\ caller' = [caller EXCEPT ![j] = "dropped"]
    /\ cancel' = [cancel EXCEPT ![j] = TRUE]
    /\ events' = [events EXCEPT ![j] = <<>>]
    /\ UNCHANGED <<req, got, queue, open, inflight, decoding, poolVars, loopVars>>

\* Drop for Inner: the last handle closes the queue (and then joins the
\* thread).  A submit under way holds a handle.
DropHandle ==
    /\ open /\ \A j \in Jobs : caller[j] # "sent"
    /\ open' = FALSE
    /\ UNCHANGED <<callerVars, cancel, events, queue, inflight, decoding, poolVars, loopVars>>

CallerStep ==
    \/ \E j \in Jobs : \/ SubmitQueued(j) \/ SubmitRefused(j) \/ CountIn(j)
                       \/ Recv(j) \/ Cancel(j) \/ DropGeneration(j)
    \/ DropHandle

(***************************************************************************)
(* Giving back a slot: `retire` and `fail`.                                *)
(***************************************************************************)
Vacate_uncounted(s) ==
    /\ slots' = [slots EXCEPT ![s] = Vacant]
    /\ kv' = [kv EXCEPT ![s] = {}]
    /\ UNCHANGED inflight
Vacate(s) ==
    /\ slots' = [slots EXCEPT ![s] = Vacant]
    /\ kv' = [kv EXCEPT ![s] = {}]
    /\ inflight' = CountDown

\* The last piece, when the caller has not taken it, then the terminal event.
LastWords_pieceDropped(slot, stop) ==
    <<Post(slot.job, Done(slot.job, stop, slot.n_decoded))>>
LastWords_pieceOnly(slot, stop) ==
    IF slot.pending = NoEvent
    THEN <<Post(slot.job, Done(slot.job, stop, slot.n_decoded))>>
    ELSE <<Post(slot.job, slot.pending)>>
LastWords(slot, stop) ==
    (IF slot.pending = NoEvent THEN <<>> ELSE <<Post(slot.job, slot.pending)>>)
    \o <<Post(slot.job, Done(slot.job, stop, slot.n_decoded))>>

\* slot is the content of slots[s] at the time of the call, pending included.
Retire(s, slot, stop) ==
    /\ outbox' = outbox \o LastWords(slot, stop)
    /\ Vacate(s)

Fail_unanswered(s) == Vacate(s) /\ UNCHANGED outbox
Fail(s) ==
    /\ outbox' = Append(outbox, Post(slots[s].job, Failed(slots[s].job)))
    /\ Vacate(s)

(***************************************************************************)
(* serve: the outbox pass.  `retain` offers each entry once, in order, and *)
(* keeps those whose channel is full.                                      *)
(***************************************************************************)
DrainDeliver ==
    /\ pc = "drain" /\ outbox # <<>> /\ SendOk(Head(outbox).job)
    /\ Send(Head(outbox).job, Head(outbox).event)
    /\ outbox' = Tail(outbox)
    /\ UNCHANGED <<callerVars, cancel, queue, open, inflight, decoding,
                   slots, kept, batch, rows, slow, kv, loopVars>>

DrainKeep ==
    /\ pc = "drain" /\ outbox # <<>> /\ SendFull(Head(outbox).job)
    /\ kept' = Append(kept, Head(outbox))
    /\ outbox' = Tail(outbox)
    /\ UNCHANGED <<callerVars, sharedVars, slots, batch, rows, slow, kv, loopVars>>

DrainDiscard ==
    /\ pc = "drain" /\ outbox # <<>> /\ SendClosed(Head(outbox).job)
    /\ outbox' = Tail(outbox)
    /\ UNCHANGED <<callerVars, sharedVars, slots, kept, batch, rows, slow, kv, loopVars>>

DrainEnd ==
    /\ pc = "drain" /\ outbox = <<>>
    /\ outbox' = kept /\ kept' = <<>>
    /\ pc' = "flush" /\ cursor' = 0
    /\ UNCHANGED <<callerVars, sharedVars, slots, batch, rows, slow, kv, closed, taken>>

(***************************************************************************)
(* serve: Slot::flush on every slot, and what the loop does with its       *)
(* verdict.                                                                *)
(***************************************************************************)
Waiting(s) == slots[s].pending # NoEvent

FlushReady(s) ==
    /\ pc = "flush" /\ cursor = s /\ ~Waiting(s)
    /\ cursor' = cursor + 1
    /\ UNCHANGED <<callerVars, sharedVars, poolVars, pc, closed, taken>>

FlushDeliver(s) ==
    /\ pc = "flush" /\ cursor = s /\ Waiting(s) /\ SendOk(slots[s].job)
    /\ Send(slots[s].job, slots[s].pending)
    /\ slots' = [slots EXCEPT ![s].pending = NoEvent, ![s].stalled = FALSE]
    /\ cursor' = cursor + 1
    /\ UNCHANGED <<callerVars, cancel, queue, open, inflight, decoding,
                   outbox, kept, batch, rows, slow, kv, pc, closed, taken>>

\* The channel is full and STALL_TIMEOUT has not passed.
FlushStalled(s) ==
    /\ pc = "flush" /\ cursor = s /\ Waiting(s) /\ SendFull(slots[s].job)
    /\ slots' = [slots EXCEPT ![s].stalled = TRUE]
    /\ cursor' = cursor + 1
    /\ UNCHANGED <<callerVars, sharedVars, outbox, kept, batch, rows, slow, kv, pc, closed, taken>>

\* The channel is still full after STALL_TIMEOUT: the piece is kept for the
\* outbox and the slot is taken back.
StallTimeout_never(s) == FALSE
StallTimeout(s) ==
    /\ pc = "flush" /\ cursor = s /\ Waiting(s) /\ SendFull(slots[s].job)
    /\ slots[s].stalled
    /\ Retire(s, slots[s], "Cancelled")
    /\ cursor' = cursor + 1
    /\ UNCHANGED <<callerVars, cancel, events, queue, open, decoding,
                   kept, batch, rows, slow, pc, closed, taken>>

\* The receiver is gone: the piece went down with the failed send.
FlushClosed(s) ==
    /\ pc = "flush" /\ cursor = s /\ Waiting(s) /\ SendClosed(slots[s].job)
    /\ Retire(s, [slots[s] EXCEPT !.pending = NoEvent], "Cancelled")
    /\ cursor' = cursor + 1
    /\ UNCHANGED <<callerVars, cancel, events, queue, open, decoding,
                   kept, batch, rows, slow, pc, closed, taken>>

FlushEnd ==
    /\ pc = "flush" /\ cursor = MaxInflight
    /\ pc' = "admit"
    /\ UNCHANGED <<callerVars, sharedVars, poolVars, cursor, closed, taken>>

(***************************************************************************)
(* admit.                                                                  *)
(***************************************************************************)
Gate_always == HasTarget /\ slow
Gate == ~Idle /\ HasTarget /\ slow

\* Receiving the next job.
Dequeue_peek == UNCHANGED queue
Dequeue == queue' = Tail(queue)

\* admit returns FALSE: every slot is occupied, a step already costs the
\* target, or there is work to do and nothing queued.
AdmitNone ==
    /\ pc = "admit"
    /\ \/ Free = {}
       \/ Gate
       \/ ~Idle /\ queue = <<>> /\ open
    /\ pc' = "meter"
    /\ UNCHANGED <<callerVars, sharedVars, poolVars, cursor, closed, taken>>

\* admit returns TRUE: every sender is gone and the queue is empty.
AdmitClosed ==
    /\ pc = "admit" /\ Free # {} /\ ~Gate
    /\ queue = <<>> /\ ~open
    /\ closed' = TRUE /\ pc' = "meter"
    /\ UNCHANGED <<callerVars, sharedVars, poolVars, cursor, taken>>

\* A job cancelled while queued is answered without a prefill.
AdmitCancelled ==
    /\ pc = "admit" /\ Free # {} /\ ~Gate
    /\ queue # <<>> /\ cancel[Head(queue)]
    /\ Dequeue
    /\ inflight' = CountDown
    /\ outbox' = Append(outbox, Post(Head(queue), Done(Head(queue), "Cancelled", 0)))
    /\ UNCHANGED <<callerVars, cancel, events, open, decoding,
                   slots, kept, batch, rows, slow, kv, loopVars>>

\* An idle engine waits in blocking_recv: this is the step that wakes it.
AdmitTake ==
    /\ pc = "admit" /\ Free # {} /\ ~Gate
    /\ queue # <<>> /\ ~cancel[Head(queue)]
    /\ taken' = Head(queue) /\ Dequeue
    /\ pc' = "prefill"
    /\ UNCHANGED <<callerVars, cancel, events, open, inflight, decoding, poolVars, cursor, closed>>

(***************************************************************************)
(* prefill of the taken job on the first vacant slot, and what admit does  *)
(* with its result.                                                        *)
(***************************************************************************)
Settle_uncleared(s, e) ==
    /\ outbox' = Append(outbox, Post(taken, e))
    /\ inflight' = CountDown
    /\ kv' = [kv EXCEPT ![s] = PromptCells(taken)]
    /\ taken' = NoJob /\ pc' = "admit"
Settle(s, e) ==
    /\ outbox' = Append(outbox, Post(taken, e))
    /\ inflight' = CountDown
    /\ kv' = [kv EXCEPT ![s] = {}]
    /\ taken' = NoJob /\ pc' = "admit"

\* Ok(Running): with a target set, and other work in flight, one admission
\* per step.
PrefillRun(s) ==
    /\ pc = "prefill" /\ IsFirstFree(s)
    /\ Fits(req[taken]) /\ Budget(req[taken]) > 0
    /\ batch' = PromptRows(taken, s)
    /\ kv' = [kv EXCEPT ![s] = @ \cup PromptCells(taken)]
    /\ slots' = [slots EXCEPT ![s] =
                   [job |-> taken, n_cur |-> req[taken].prompt, n_decoded |-> 1,
                    budget |-> Budget(req[taken]),
                    context_bound |-> ContextBound(req[taken]),
                    pending |-> Token(taken, 1), stalled |-> FALSE]]
    /\ pc' = IF HasTarget /\ ~Idle THEN "meter" ELSE "admit"
    /\ taken' = NoJob
    /\ UNCHANGED <<callerVars, sharedVars, outbox, kept, rows, slow, cursor, closed>>

\* Ok(Finished): the first token ends the generation, or there is no budget.
PrefillFinish(s) ==
    /\ pc = "prefill" /\ IsFirstFree(s)
    /\ Fits(req[taken])
    /\ \/ Settle(s, Done(taken, "EndOfGeneration", 0))
       \/ /\ Budget(req[taken]) = 0
          /\ Settle(s, Done(taken, "ContextFull", 0))
    /\ batch' = PromptRows(taken, s)
    /\ UNCHANGED <<callerVars, cancel, events, queue, open, decoding,
                   slots, kept, rows, slow, cursor, closed>>

\* Err: no template or no tokens, a prompt as long as the window, a failed
\* decode (which may have filled part of the sequence), a bad piece.
PrefillFail(s) ==
    /\ pc = "prefill" /\ IsFirstFree(s)
    /\ \/ /\ ~Fits(req[taken]) \/ "prompt" \in Faults
          /\ UNCHANGED batch
       \/ /\ Fits(req[taken])
          /\ \/ "decode" \in Faults
             \/ "piece" \in Faults /\ Budget(req[taken]) > 0
          /\ batch' = PromptRows(taken, s)
    /\ Settle(s, Failed(taken))
    /\ UNCHANGED <<callerVars, cancel, events, queue, open, decoding,
                   slots, kept, rows, slow, cursor, closed>>

(***************************************************************************)
(* serve: publish `decoding`, leave the loop, or start a step.             *)
(***************************************************************************)
Finished == closed /\ Occupied = {} /\ outbox = <<>>

MeterExit ==
    /\ pc = "meter" /\ Finished
    /\ decoding' = Cardinality(Occupied)
    /\ pc' = "exited"
    /\ UNCHANGED <<callerVars, cancel, events, queue, open, inflight, poolVars,
                   cursor, closed, taken>>

MeterStep_onlyIdle ==
    /\ pc = "meter" /\ ~Finished
    /\ decoding' = IF Occupied = {} THEN 0 ELSE decoding
    /\ batch' = <<>> /\ rows' = <<>>
    /\ pc' = "collect" /\ cursor' = 0
    /\ UNCHANGED <<callerVars, cancel, events, queue, open, inflight,
                   slots, outbox, kept, slow, kv, closed, taken>>
MeterStep ==
    /\ pc = "meter" /\ ~Finished
    /\ decoding' = Cardinality(Occupied)
    /\ batch' = <<>> /\ rows' = <<>>
    /\ pc' = "collect" /\ cursor' = 0
    /\ UNCHANGED <<callerVars, cancel, events, queue, open, inflight,
                   slots, outbox, kept, slow, kv, closed, taken>>

(***************************************************************************)
(* step: collect a row from every slot that is ready.                      *)
(***************************************************************************)
Cancelled(s) == slots[s].job # NoJob /\ cancel[slots[s].job]

\* A vacant slot, or one waiting on its caller.
CollectSkip(s) ==
    /\ pc = "collect" /\ cursor = s
    /\ slots[s].job = NoJob \/ (Waiting(s) /\ ~Cancelled(s))
    /\ cursor' = cursor + 1
    /\ UNCHANGED <<callerVars, sharedVars, poolVars, pc, closed, taken>>

CollectCancelled(s) ==
    /\ pc = "collect" /\ cursor = s /\ Cancelled(s)
    /\ Retire(s, slots[s], "Cancelled")
    /\ cursor' = cursor + 1
    /\ UNCHANGED <<callerVars, cancel, events, queue, open, decoding,
                   kept, batch, rows, slow, pc, closed, taken>>

Ready(s) == slots[s].job # NoJob /\ ~Cancelled(s) /\ ~Waiting(s)

NextRow_slot(s) == s
NextRow(s) == Len(batch)

CollectRow(s) ==
    /\ pc = "collect" /\ cursor = s /\ Ready(s)
    /\ Len(batch) < BatchCap
    /\ batch' = Append(batch, [seq |-> s, pos |-> slots[s].n_cur, job |-> slots[s].job])
    /\ rows' = Append(rows, <<s, NextRow(s)>>)
    /\ cursor' = cursor + 1
    /\ UNCHANGED <<callerVars, sharedVars, slots, outbox, kept, slow, kv, pc, closed, taken>>

\* LlamaBatch::add refuses a row beyond the size the batch was made with.
CollectFail(s) ==
    /\ pc = "collect" /\ cursor = s /\ Ready(s)
    /\ Len(batch) >= BatchCap
    /\ Fail(s)
    /\ cursor' = cursor + 1
    /\ UNCHANGED <<callerVars, cancel, events, queue, open, decoding,
                   kept, batch, rows, slow, pc, closed, taken>>

\* No rows: IDLE_TICK, then the next pass.
CollectEnd ==
    /\ pc = "collect" /\ cursor = MaxInflight
    /\ pc' = IF rows = <<>> THEN "drain" ELSE "decode"
    /\ UNCHANGED <<callerVars, sharedVars, poolVars, cursor, closed, taken>>

(***************************************************************************)
(* step: the decode, for all rows at once.                                 *)
(***************************************************************************)
Written(s, part) == {[pos |-> batch[i].pos, job |-> batch[i].job] :
                        i \in {i \in part : batch[i].seq = s}}

DecodeOk ==
    /\ pc = "decode"
    /\ kv' = [s \in SeqIds |-> kv[s] \cup Written(s, DOMAIN batch)]
    /\ pc' = "sample"
    /\ UNCHANGED <<callerVars, sharedVars, slots, outbox, kept, batch, rows, slow,
                   cursor, closed, taken>>

\* A failed decode may have written any of its rows.
DecodeFail ==
    /\ pc = "decode" /\ "decode" \in Faults
    /\ \E part \in SUBSET DOMAIN batch :
          kv' = [s \in SeqIds |-> kv[s] \cup Written(s, part)]
    /\ pc' = "failing"
    /\ UNCHANGED <<callerVars, sharedVars, slots, outbox, kept, batch, rows, slow,
                   cursor, closed, taken>>

\* ... and every slot in it fails.
FailRow ==
    /\ pc = "failing" /\ rows # <<>>
    /\ Fail(Head(rows)[1])
    /\ rows' = Tail(rows)
    /\ UNCHANGED <<callerVars, cancel, events, queue, open, decoding,
                   kept, batch, slow, loopVars>>

FailEnd ==
    /\ pc = "failing" /\ rows = <<>>
    /\ pc' = "drain"
    /\ UNCHANGED <<callerVars, sharedVars, poolVars, cursor, closed, taken>>

(***************************************************************************)
(* step: one token for every row.                                          *)
(***************************************************************************)
RowSlot == Head(rows)[1]
RowJob  == batch[Head(rows)[2] + 1].job   \* whose logits that row holds

SampleEog ==
    /\ pc = "sample" /\ rows # <<>>
    /\ Retire(RowSlot, slots[RowSlot], "EndOfGeneration")
    /\ rows' = Tail(rows)
    /\ UNCHANGED <<callerVars, cancel, events, queue, open, decoding,
                   kept, batch, slow, loopVars>>

SampleFail ==
    /\ pc = "sample" /\ rows # <<>> /\ "piece" \in Faults
    /\ Fail(RowSlot)
    /\ rows' = Tail(rows)
    /\ UNCHANGED <<callerVars, cancel, events, queue, open, decoding,
                   kept, batch, slow, loopVars>>

\* The slot once it has its next token.
Sampled_inPlace == [slots[RowSlot] EXCEPT
              !.n_decoded = @ + 1,
              !.pending = Token(RowJob, slots[RowSlot].n_decoded + 1)]
Sampled == [slots[RowSlot] EXCEPT
              !.n_cur = @ + 1, !.n_decoded = @ + 1,
              !.pending = Token(RowJob, slots[RowSlot].n_decoded + 1)]

SampleToken ==
    /\ pc = "sample" /\ rows # <<>>
    /\ Sampled.n_decoded < Sampled.budget
    /\ slots' = [slots EXCEPT ![RowSlot] = Sampled]
    /\ rows' = Tail(rows)
    /\ UNCHANGED <<callerVars, sharedVars, outbox, kept, batch, slow, kv, loopVars>>

\* The token that spends the budget.
SampleLast ==
    /\ pc = "sample" /\ rows # <<>>
    /\ Sampled.n_decoded >= Sampled.budget
    /\ Retire(RowSlot, Sampled, IF Sampled.context_bound THEN "ContextFull" ELSE "Limit")
    /\ rows' = Tail(rows)
    /\ UNCHANGED <<callerVars, cancel, events, queue, open, decoding,
                   kept, batch, slow, loopVars>>

\* The smoothed cost moves to either side of the target.
SampleEnd ==
    /\ pc = "sample" /\ rows = <<>>
    /\ slow' \in StepCosts
    /\ pc' = "drain"
    /\ UNCHANGED <<callerVars, sharedVars, slots, outbox, kept, batch, rows, kv,
                   cursor, closed, taken>>

EngineStep ==
    \/ DrainDeliver \/ DrainKeep \/ DrainDiscard \/ DrainEnd
    \/ \E s \in SeqIds : \/ FlushReady(s) \/ FlushDeliver(s) \/ FlushStalled(s)
                         \/ StallTimeout(s) \/ FlushClosed(s)
    \/ FlushEnd
    \/ AdmitNone \/ AdmitClosed \/ AdmitCancelled \/ AdmitTake
    \/ \E s \in SeqIds : PrefillRun(s) \/ PrefillFinish(s) \/ PrefillFail(s)
    \/ MeterExit \/ MeterStep
    \/ \E s \in SeqIds : \/ CollectSkip(s) \/ CollectCancelled(s)
                         \/ CollectRow(s) \/ CollectFail(s)
    \/ CollectEnd
    \/ DecodeOk \/ DecodeFail \/ FailRow \/ FailEnd
    \/ SampleEog \/ SampleFail \/ SampleToken \/ SampleLast \/ SampleEnd

Next == CallerStep \/ EngineStep

Spec == Init /\ [][Next]_vars

(***************************************************************************)
(* Fairness.  The thread keeps running; time passes, so a caller that      *)
(* never reads meets STALL_TIMEOUT in the end; a submit that has started   *)
(* finishes.  Nothing obliges a caller to read: LiveSpec lets callers do   *)
(* as they like.  ReaderSpec has them read what they are sent, and needs   *)
(* no time to pass.                                                        *)
(***************************************************************************)
EngineFairness ==
    /\ WF_vars(EngineStep)
    /\ \A s \in SeqIds : SF_vars(StallTimeout(s))
    /\ \A j \in Jobs : WF_vars(CountIn(j))

LiveSpec   == Spec /\ EngineFairness
ReaderSpec ==
    /\ Spec /\ WF_vars(EngineStep)
    /\ \A j \in Jobs : WF_vars(CountIn(j)) /\ WF_vars(Recv(j))

-----------------------------------------------------------------------------
(***************************************************************************)
(* Types.                                                                  *)
(***************************************************************************)
Event == [kind : {"token", "done", "failed", "none"}, of : Jobs \cup {NoJob},
          n : Nat, stop : Stops \cup {""}]
Slot  == [job : Jobs \cup {NoJob}, n_cur : Nat, n_decoded : Nat, budget : Nat,
          context_bound : BOOLEAN, pending : Event, stalled : BOOLEAN]
Entry == [job : Jobs, event : Event]
Row   == [seq : SeqIds, pos : Nat, job : Jobs]
Cell  == [pos : Nat, job : Jobs]

\* Every variable has its type.
TypeOK ==
    /\ caller \in [Jobs -> {"idle", "sent", "holding", "dropped", "refused"}]
    /\ req \in [Jobs -> Request]
    /\ got \in [Jobs -> Seq(Event)]
    /\ cancel \in [Jobs -> BOOLEAN]
    /\ events \in [Jobs -> Seq(Event)]
    /\ queue \in Seq(Jobs)
    /\ open \in BOOLEAN
    /\ inflight \in 0 .. Wrap - 1
    /\ decoding \in Nat
    /\ pc \in {"drain", "flush", "admit", "prefill", "meter", "collect",
               "decode", "sample", "failing", "exited"}
    /\ cursor \in 0 .. MaxInflight
    /\ closed \in BOOLEAN
    /\ taken \in Jobs \cup {NoJob}
    /\ slots \in [SeqIds -> Slot]
    /\ outbox \in Seq(Entry) /\ kept \in Seq(Entry)
    /\ batch \in Seq(Row)
    /\ rows \in Seq(SeqIds \X Nat)
    /\ slow \in BOOLEAN
    /\ kv \in [SeqIds -> SUBSET Cell]

(***************************************************************************)
(* Where a job is, and the reply its caller has been or will be given.     *)
(***************************************************************************)
Queued    == {queue[i] : i \in DOMAIN queue}
Decoding  == {slots[s].job : s \in Occupied}
Occupying == Queued \cup ({taken} \ {NoJob}) \cup Decoding
Sent      == {j \in Jobs : caller[j] = "sent"}

\* The events of job j among the entries of an outbox, in their order.
EventsOf(j, entries) ==
    LET upTo[n \in 0 .. Len(entries)] ==
          IF n = 0 THEN <<>>
          ELSE IF entries[n].job = j THEN Append(upTo[n - 1], entries[n].event)
          ELSE upTo[n - 1]
    IN  upTo[Len(entries)]
PendingOf(j) ==
    LET at == {s \in Occupied : slots[s].job = j /\ Waiting(s)}
    IN  IF at = {} THEN <<>> ELSE <<slots[CHOOSE s \in at : TRUE].pending>>
Reply(j) == got[j] \o events[j] \o PendingOf(j) \o EventsOf(j, kept \o outbox)

\* The tokens among the first i events of a reply.
TokensTo(reply, i) == Cardinality({k \in 1 .. i : reply[k].kind = "token"})

\* The jobs whose caller still expects a reply.
Expecting == {j \in Jobs : caller[j] \in {"sent", "holding"}}

(***************************************************************************)
(* Safety.                                                                 *)
(***************************************************************************)

\* The meter is the number of jobs queued, in prefill or in a slot, less the
\* submits that have queued a job and not yet counted it (modulo usize).
\* `submit` and the engine thread move it from both sides, in no fixed order.
InflightIsOccupancy ==
    inflight = (Cardinality(Occupying) - Cardinality(Sent)) % Wrap

\* A job is in at most one place: once in the queue, or in prefill, or in one
\* slot, and nowhere once its submission was refused or not yet made.
OnePlacePerJob ==
    /\ \A i, k \in DOMAIN queue : queue[i] = queue[k] => i = k
    /\ \A s, t \in Occupied : slots[s].job = slots[t].job => s = t
    /\ taken \notin Queued \cup Decoding
    /\ Queued \cap Decoding = {}
    /\ \A j \in Occupying : caller[j] \notin {"idle", "refused"}

\* Every caller gets exactly one terminal event, and it exists exactly when
\* the engine has let go of the job: not before, so a caller that sees it and
\* reads capacity() never finds the job still counted; and never none, so no
\* Generation ends without an answer.
AnsweredOnce ==
    \A j \in Expecting :
        Cardinality({i \in DOMAIN Reply(j) : IsTerminal(Reply(j)[i])})
            = (IF j \in Occupying THEN 0 ELSE 1)

\* No token of a reply is lost, repeated or another job's, whichever of the
\* channel, the slot and the outbox holds it, and Done counts them all.
ReplyIsWhole ==
    \A j \in Expecting : \A i \in DOMAIN Reply(j) :
        LET reply == Reply(j)
        IN  /\ reply[i].of = j
            /\ reply[i].kind = "token" => reply[i] = Token(j, TokensTo(reply, i))
            /\ reply[i].kind = "done"  => reply[i].n = TokensTo(reply, Len(reply))

\* A sequence of the shared context holds cells of the job in its slot and of
\* no other: nothing of a finished job is left for the next one to attend to,
\* not even after a prefill or a decode that failed halfway.
KvIsolation == \A s \in SeqIds : \A c \in kv[s] : c.job = slots[s].job

\* Between steps a sequence is the prompt and the tokens fed back so far,
\* with no gap, and it never outgrows the window of its slot.
KvIsTheReplySoFar ==
    \A s \in Occupied :
        /\ slots[s].n_cur = req[slots[s].job].prompt + slots[s].n_decoded - 1
        /\ pc \in {"drain", "flush", "admit", "meter", "collect"} =>
              {c.pos : c \in kv[s]} = 0 .. slots[s].n_cur - 1
        /\ \A c \in kv[s] : c.pos < NCtx

\* Row `at` of the batch is that of slot s, which is there and ready for it.
RowMatches(s, at) ==
    /\ at + 1 \in DOMAIN batch
    /\ batch[at + 1] = [seq |-> s, pos |-> slots[s].n_cur, job |-> slots[s].job]
    /\ slots[s].job # NoJob /\ ~Waiting(s)

\* A row read from the logits is the row of the slot that gets the token, at
\* the slot's own position, and the slot is still that slot: retiring or
\* failing one slot of a step never shifts the rows of the others.
RowsMatchSlots ==
    /\ \A i \in DOMAIN rows : RowMatches(rows[i][1], rows[i][2])
    /\ \A i, k \in DOMAIN rows : rows[i][1] = rows[k][1] => i = k

\* lib.rs:202, `decoding` is what is "Actually in the batch": from the batch's
\* first row to its last sample a scheduler reads no fewer than the slots
\* occupied and the rows decoded, whichever of them retire or fail meanwhile.
\* (An engine asleep leaves the number of its last busy pass.)
DecodingCoversTheBatch ==
    pc \in {"collect", "decode", "failing", "sample"} =>
        Cardinality(Occupied) <= decoding /\ Len(rows) <= decoding

\* Every reason in Done has one of the causes the code gives it (lib.rs:754-764,
\* 777-792, 877-884 and wherever `retire` is called), which are more than the
\* documentation names (EngineClaims!StopMeansWhatItSays):
\*  - Limit: exactly max_tokens tokens were generated; two for a max_tokens of 1,
\*    as the first token, which prefill samples, is never compared with it;
\*  - ContextFull: prompt and reply fill the window; or max_tokens was not
\*    positive, and no token was generated;
\*  - Cancelled: the caller cancelled or dropped the Generation; or left its
\*    channel full, which takes more tokens than the channel holds.
StopHasACause ==
    \A j \in Expecting : \A i \in DOMAIN Reply(j) :
        LET e == Reply(j)[i]  r == req[j]
        IN  e.kind = "done" =>
              CASE e.stop = "Limit"       -> 0 < r.asked /\ e.n = IF r.asked = 1 THEN 2 ELSE r.asked
                [] e.stop = "ContextFull" -> NCtx <= r.prompt + e.n \/ (r.asked <= 0 /\ e.n = 0)
                [] e.stop = "Cancelled"   -> cancel[j] \/ ChanCap < e.n
                [] OTHER                  -> TRUE

\* A generation fails only if something failed: otherwise only a prompt as
\* long as the window, or a batch shorter than the slots are many.
FailureHasACause ==
    \A j \in Expecting : \A i \in DOMAIN Reply(j) :
        Reply(j)[i].kind = "failed" =>
            Faults # {} \/ MaxInflight > BatchCap \/ req[j].prompt >= NCtx

\* A submission is turned away only when the jobs the engine already has are
\* at least as many as its slots, however shallow a queue was configured.
RefusedOnlyWhenBusy ==
    [][\A j \in Jobs : caller[j] = "idle" /\ caller'[j] = "refused"
            => MaxInflight <= Cardinality(Occupying)]_vars

\* The inductive strengthening of TypeOK, RowsMatchSlots and KvIsolation:
\* what the phase of the loop says of the taken job and of the rows, ...
PhaseInv ==
    /\ pc = "prefill" => taken # NoJob
    /\ rows # <<>> => pc \in {"collect", "decode", "sample", "failing"}
    /\ \A s \in SeqIds : Waiting(s) => slots[s].job # NoJob
\* ... that the rows collected so far are of slots the cursor has passed, ...
RowsBehindCursor == pc = "collect" => \A i \in DOMAIN rows : rows[i][1] < cursor
\* ... and that what is about to be decoded belongs to the slots' own jobs.
BatchIsOfSlots ==
    pc \in {"collect", "decode"} =>
        \A i \in DOMAIN batch :
            /\ batch[i].job = slots[batch[i].seq].job
            /\ pc = "collect" => batch[i].seq < cursor

PoolInv ==
    PhaseInv /\ RowsMatchSlots /\ RowsBehindCursor /\ BatchIsOfSlots /\ KvIsolation

(***************************************************************************)
(* Liveness.                                                               *)
(***************************************************************************)

\* Dropping the last handle ends the thread, so that the join returns.
ShutdownCompletes == ~open ~> (pc = "exited")
=============================================================================
