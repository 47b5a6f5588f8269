# A verification of llm-worker

TLA+ models of the engine, the worker, the processes that own them, the wire
format and the chat page of this repository, the TLC runs that check them on
small instances, and proofs, checked by the TLA+ proof system, of what holds on
every instance. Sources are under `src/`; `lib.rs` below is
`src/llm-engine/src/lib.rs`, `worker.rs` is `src/llm-worker/src/worker.rs`.

## 1. The system

A client posts a chat completion. An *ingress* parks it in a *ring* of streams;
a *worker* claims a stream, reads the request, submits it to its *engine*, and
writes tokens to the stream's response lane as the engine produces them. The
engine owns one llama.cpp context, cut into one sequence (slot) per concurrent
generation, and decodes all of them in one batch per step.

| Part | State | Operations | Talks to |
|---|---|---|---|
| Engine handle (`Engine`, `Generation`; lib.rs:209-360) | job queue (bounded), meters `inflight` and `decoding`, per generation an event channel (256) and a cancel flag | `submit`, `capacity`, `recv`, `cancel`, drop of a `Generation`, drop of the last handle (closes the queue, joins the thread) | engine thread, through the queue, the channels, the flags and the meters |
| Engine thread (`serve`; lib.rs:525-956) | slots, outbox, batch, smoothed step cost, KV cells of each sequence, `closed` | outbox pass, `flush`, `admit` + `prefill`, `step`, `retire`, `fail` | callers; llama.cpp |
| Engine start (`spawn`, `engine_thread`, `Runtime::load`, `shared_backend`) | ready channel, one backend per process | load, report, give up | caller of `spawn` |
| Prompt templating (`build_prompt`) | none | text to text, may fail | model |
| Worker (`LlmWorker::serve`; worker.rs:118-220) | per job: request, generation, response writer, buffered text | `read_request`, submit, write loop, error paths | ring, engine |
| Wire format (`protocol.rs`) | none | parse, defaults, frames | client |
| Processes (three `main.rs`) | who holds engine handles and Generations | spawn, attach, interrupt, drop | engine, ring, HTTP server |
| Ingress routing (`ingress.rs`) | none | constant answers, health, hand-over to the ring | ring, engine |
| Chat page (`ui/index.html`) | message list, frame buffer | ask, stop | ingress |
| Outside the repository | ring, gpu-worker loop, HTTP server, llama.cpp, tokio | | |

What is hard about it: callers and the engine thread share a queue, channels,
flags and counters with no lock; a slot is reused while messages of its last job
are still undelivered; a call that fails halfway leaves cells in a shared
context; a slow, silent or vanished caller must cost nobody else anything; the
numbers of a batch's rows outlive the loop that made them; and shutdown joins a
thread that may be waiting for readers. `PROJECT.json` lists these hazards at
their lines with the properties that watch them.

## 2. Modules

| Module | What it is |
|---|---|
| `Engine` | The engine: handles and thread, from lib.rs. Constants, state, actions, specification, properties. |
| `Lifecycle` | What the engine promises its callers, abstractly: jobs taken up first come first served, at most so many at once, each once, all let go of; every caller sent its own tokens in order and one end. |
| `EngineRefinement` | The mapping under which `Engine` implements `Lifecycle`, with and without fairness. |
| `EngineClaims` | Statements of comments, docs and tests that the code does not keep. |
| `EngineProofs` | Theorems about `Engine`: types, rows and isolation of sequences. |
| `PoolProofs` | Where a job is, the meter, refusals; the batch of a step, the published number, what a sequence holds. Extends `EngineProofs`. |
| `ReplyProofs` | What a caller is sent, why a generation ends and why it fails. Extends `PoolProofs`. |
| `RefinementProofs` | `Engine` implements `Lifecycle`, step by step. Extends `EngineRefinement` and `ReplyProofs`. |
| `Pacing`, `PacingProofs` | How far admissions by a smoothed measurement let the batch exceed a step target: `Engine` with jobs counted and costs as numbers. |
| `Worker`, `WorkerProofs` | `serve` of worker.rs for several streams at once, composed with `Lifecycle`. |
| `Process`, `ProcessProofs` | Engines being started, shared and taken down by the three programs. |
| `Protocol` | protocol.rs as operators: what a request asks for, what a reply is on the wire. |
| `Page`, `PageProofs` | The chat page's `ask`, over `Protocol`. |
| `MCEngine`, `MCPacing`, `MCWorker`, `MCProcess`, `MCPage` | What the runs share: symmetry, values of constants, the state constraints `Unlike`, `Patient`, `OneAsksMore` and `OnePanic`. |

The two halves meet in `Lifecycle`: `Engine` is shown to implement it, and
`Worker` uses it (`E == INSTANCE Lifecycle`) in place of the engine, so that
streams and clients can be explored without slots, batches and channels. The
one liberty `Lifecycle` takes follows the code: what is owed at the end of a
reply, the last piece and the terminal event, may arrive in either order.

### How Engine corresponds to the code

A caller's step is one atomic operation on shared state: `try_send` on the
queue (`SubmitQueued`, `SubmitRefused`), `fetch_add` on the meter (`CountIn`,
a separate step because the code does it after the job is in the queue),
`recv`, the store to the cancel flag, the drop of a `Generation` (flag and
receiver; between the two the state is that of `Cancel`), and the drop of the
last handle.

The thread's program counter `pc` follows the loop of `serve`:

    drain -> flush -> admit <-> prefill
      ^                 |
      |               meter -> exited
      |                 |
      +--- sample <- decode <- collect        (collect -> drain: nothing to decode)
      +--- failing <---+

Each step is the code between two operations a caller can observe or
influence: one outbox entry (`Drain...`), one slot flushed (`Flush...`), one job
taken or answered (`Admit...`, `Prefill...`), one slot collected
(`Collect...`, where the cancel flag is read), the decode, one row sampled
(`Sample...`) or failed (`FailRow`). `cursor` is the loop index over slots.
Every caller step may fall between any two of them.

`retire` and `fail` are the operators `Retire` and `Fail`; a step that calls
them includes the KV clear, the meter and the outbox pushes. `kept` holds the
outbox entries that `Vec::retain` has decided to keep in the pass under way.

Abstractions. A token is `[of, n]`: the job whose row of logits it was sampled
from, and its number in the reply. `kv` is, for each sequence, the set of
(position, job) cells. The sampler chooses freely between an
end-of-generation token and another one. The fallible calls fail when `Faults`
allows it: `"prompt"` (template, tokeniser), `"decode"`, `"piece"`
(`token_to_piece`); a failed decode may have written any of its rows. The
smoothed step cost is kept as the one bit `admit` reads, "over target", chosen
after each step from `StepCosts`. STALL_TIMEOUT may fire at any flush of a slot
that was already found full at an earlier one. Not modelled in the engine:
texts, roles, sampling parameters, elapsed times, logs.

Constants are bounds, each named: `Jobs` (submissions), `MaxInflight`,
`QueueDepth`, `ChanCap` (256 in the code), `NCtx`, `MinBatch` (512 in the code),
`Prompts`, `Asks`, and `Wrap`, the modulus of `usize`, which is small so that a
meter that wraps is seen to.

### How Worker corresponds to the code

`serve` runs once per claimed stream. A step is what it does between two awaits:
`Claim` (the ring's loop hands over a stream while fewer than `Claims` are in
hand; worker.rs:99-116 passes it the number), `ReadFail` or `Submit` /
`SubmitRefused` (read_request and the synchronous submit after it),
`RecvToken`, `RecvDone`, `RecvFailed` (one per arm of the match on `recv`), and
`Write` / `WriteFailed` for each awaited write. `todo` is the list of
frames a piece of code is about to write one await after another (`write_json`
is head, body, end), `final` says whether `serve` returns after them. Returning,
by whichever way, drops the `Generation` in the same step (`LetGo`).
`streams` says which requests asked for a stream.

Waiting for the head is a stage of its own (`ReadHead`), as it has no timeout. The ring is
outside the repository. The model assumes that it claims no more than it was told to, that a
write to a stream fails exactly when its client has left (`HangUp`), and that awaits on it
return, except the one for the head. Local and remote jobs differ in code only in where they
read and write. `recv` returning None (worker.rs:155) is not an action: `NeverSilent` shows
that `serve` is never there.

### How Process corresponds to the code

`thread` follows `engine_thread`, `Runtime::load` and `serve` up to its loop, one
step for every call that can fail: the model file is resolved, the process-wide
backend is waited for or initialised (`Locked`, `InitBackend`, `BackendDone`), the
model loaded, the context made, the outcome sent on the ready channel (`Report`,
`Refuse`). `Panic` is the binding giving up without a message, on the way up, which
`recv` of `spawn` sees as a channel with no sender (`HungUp`), or in the loop, while
handles and Generations live; the join ignores it. `resident` is what the thread
has built; `Unwind` drops it one by one, outermost first, on every way out.
`Engine`, `Lifecycle` and `Worker` are about an engine that does not panic.

`owner` follows the main function of the command line (`Ask`, `Answered`), the
worker (`AttachRemote`, `InterruptWorker`) or the server (`AttachLocal`,
`InterruptServer`, `ServerFinished`); one instance is free to be any of them.
`holders` says who still keeps a clone of the `Engine` from being dropped (main,
the claiming loop, the router, each task of the worker), `generations` who has a
Generation. After `returned` the runtime is dropped: every task's future goes, its
Generation before its handle (`MayRelease`, since `serve` borrows the worker), in any
order among tasks. The last handle joins the thread (`Joined`).

### How Protocol and Page correspond to the code

An optional field is a set of at most one value; `Or` and `UnwrapOr` are the calls of
`to_generate_request`. The wire is a sequence of units, each a byte or a run of
bytes that is never a line feed: what matters to a reader is where a frame ends
and where a character is cut in two, so the alphabet is an ordinary character, a
line feed (escaped in JSON) and a character of two bytes. `Streamed` is everything
`serve` writes for one reply.

`Page` sends `Body` (`Submit`), the engine answers anything it may (`Respond`), and
the page reads any number of units at a time (`Read`), decodes them with the
first byte of a cut character held back (`Held`), takes frames one by one
(`TakeFrame`), and ends by `ReadDone`, or by the catch (`Caught`) after `Stop`,
`Broken` or an error frame. `Stop` and `Broken` take effect where the page awaits the
network, as the script's single thread has it. `ReadDone` may come with part of the
reply unread: a response that ends early without an error is one the page cannot tell
from a whole one. `given` remembers every reply as it was given, and the messages it
answered.

### How Pacing corresponds to the code

A pass of the loop is `Flush`, some of `AdmitRunning` and `AdmitAnswered`, `AdmitReturn`,
and `Step`. `Flush` also gives back the slots of callers that are gone or stay behind, whose
last words go to the outbox. Slots are counted, `ready` of them have nothing pending when
the pass begins; one that is prefilled in this pass still owes its first piece and is not in
the step. A step of k rows takes `Cost[k]`, and `Smoothed` is the average the code keeps, in
integers. Costs grow with k by at most `Slope` a row; that, and the callers being prompt
(`prompt`), is what the bound rests on.

## 3. Properties

Safety: `InflightIsOccupancy` (the meter is the number of jobs in the engine less the
submits that have not counted themselves yet), `OnePlacePerJob`, `AnsweredOnce` (exactly one
terminal event, in existence exactly when the engine has let go of the job), `ReplyIsWhole`
(no token lost, repeated or crossed between jobs, and `Done` counts them), `StopHasACause`
(all the causes the code has for each reason in `Done`; they are more than the documentation
names, see `claim_stop` below), `FailureHasACause`, `KvIsolation`, `KvIsTheReplySoFar`,
`RowsMatchSlots`, `DecodingCoversTheBatch` (during a step the published number is never
below what is being decoded), and the action property `RefusedOnlyWhenBusy`. `AnsweredOnce`
and `ReplyIsWhole` look at the whole path of a reply: what the caller received, the channel,
the slot's pending piece, the outbox in both halves of its pass. `HeldToTarget` bounds the
batch under a step target.

Refinement: with fairness `ImplementsLiveLifecycle`, of which `ImplementsLifecycle` is the
safety half (proved, and checked as part of the other two); it says that every accepted job
is taken up and let go of, whatever any caller does.

Liveness: `ImplementsReaderLifecycle` (with callers that read, also under a step
target, everything promised arrives) and `ShutdownCompletes`.

Worker: `LaneIsOneAnswer` (whatever fails and whenever, a lane holds one answer of
the status its request deserves, or a beginning of it, with its own tokens in
order), `AnsweredUnlessGone` (no path returns without a finished response while
the client is there), `NeverSilent`, `OccupancyIsClaimed` (once a stream is done
with, its job no longer counts against the engine, unless the client left),
`RefusedOnlyByDepartures` (a worker that claims no more than the engine has
slots is refused only when clients that left fill the queue), `HangupCancels` (of
a stream whose client has left the worker receives at most one more event), and
`EveryClaimEnds`. `LaneIsOneAnswer` allows the last piece to be missing: that is
what the engine's reordering (`claim_terminal`) comes to for a client.

Process: `HandleMeansServing` (nobody has a handle without a running loop, a model and a
context behind it, unless the binding has panicked), `OneBackend`, `JoinNeedsNoReader` (when
the last handle goes no Generation is left, so the join cannot wait for a reader),
`ExitIsClean`, and, live, `SpawnReturns` and `OwnersEnd`.

Page: `ShownIsTheReply` (what is shown is a beginning of the reply, and when noted as
finished it is text, reason and usage of the buffered answer), `NoteIsTrue` (the page
says "token limit" or "failed" only of replies of which it is true), `HistoryIsReplies`
(the assistant's words sent back in later turns were given in answer to those very
messages, none of them stopped, failed or broken off; whole, unless a response ended early
without an error), and `AskEnds`.

Fairness. `WF(EngineStep)`: the thread runs as long as it has something to do.
`SF(StallTimeout(s))`: time passes, so a channel found full pass after pass is found full
after STALL_TIMEOUT (the flush of one slot is enabled once per pass, hence strong); replies
are finite, so this forces no timeout on a caller that keeps reading. `WF(CountIn(j))`: a
`submit` that has started returns. Nothing makes a caller read, cancel or hang up in
`LiveSpec`. `ReaderSpec` asks for callers that read, and then needs no time to pass: the
thread runs, submits return, and a channel that is full is emptied by its reader. Only the
properties of the run `reader` use it. In `Worker`, `LiveSpec` takes over the engine's
promises (`Serves`, `Delivers`), which the runs `live` and `reader` show it to keep, and
`WF(Serve(j))`: tokio runs a task that can go on, and reading the body ends by itself or by
`request_timeout`; nothing makes the head arrive. In `Process`, what runs goes on: the
thread (`LoopEnds` only while nobody holds a Generation, since it may wait for a reader),
`spawn`, the server's shutdown, and the drop of the runtime, handle by handle; nothing
interrupts an owner or ends a task before that. `Panic` has no fairness. In `Page` the
server answers and the network delivers what is left of a response or breaks; the person
need not do anything. `Pacing` has no liveness.

## 4. Runs

| Run | Instance | What it shows |
|---|---|---|
| `pool` | 2 jobs with unlike requests (`Unlike`), 2 slots, channel of 1, window 4, prompts 1 and 4, max_tokens 0, 2 and 4 | replies, meters and placement, every stop reason, a prompt as long as the window; rows and sequences of two slots in one batch |
| `narrow` | 3 jobs, 3 slots, window 2, batch of 2 rows, max_tokens 1, every call may fail, callers patient (`Patient`) | the slot that has no row fails alone; every caller is answered once; nothing is left in a sequence |
| `live` | 2 jobs, 1 slot, channel of 1, no target, a queue configured to 0, one job for 3 tokens and one for 1 (`OneAsksMore`), `LiveSpec` | refinement of `Lifecycle` with its fairness; refusals |
| `reader` | 2 jobs, 2 slots, channel of 2, max_tokens 1, a target every step exceeds, `ReaderSpec` | refinement of `Lifecycle`; answers and shutdown with paced admission |
| `serve` | 2 streams of either kind, 1 claim, 1 slot, queue of 1, replies of up to 2 tokens, `LiveSpec` | the worker's properties |
| `process` | 2 engines in one process, each under any owner, 2 tasks each, at most one panics (`OnePanic`), `LiveSpec` | start, sharing, shutdown |
| `page` | 2 questions, replies of up to 2 tokens (empty, or a two-byte character and a blank line), limit 2 against a default of 1, reads of any length, `LiveSpec` | what is shown, noted and remembered |
| `pacing` | 9 slots, queue of 1, k rows cost 20 + 10k, target 45 | the batch under a target |
| `claim_terminal` | 2 jobs, 1 slot, channel of 1, max_tokens 2 | refutes `TerminalIsLast` |
| `claim_queue` | as `reader`, max_tokens 2, channel of 1, `LiveSpec` | refutes `QueueIsServed` |
| `claim_stop` | 1 job, 1 slot, channel of 4, max_tokens 1 | refutes `StopMeansWhatItSays` |
| `claim_target` | as `pacing`, target 1 | refutes `TargetHoldsTheBatchDown` |

Why the bounds are enough. Two jobs and one slot make a job wait behind, and then follow,
another in the same sequence (`live`; in `narrow` and `pool` a job that comes late follows
another too); two slots make a batch, and two unlike requests one in which a slot goes on
while the other is given back; three slots and a window of two make the batch too short. In
`live` the queue holds one job, as many as there are slots, though it is configured to hold
none: the second job is refused whenever it comes while the first is queued. A channel of
one event is full after one unread token, so every step meets full, empty and closed
channels; the one of two in `reader` is filled by the two tokens a request for one is given,
which leaves the terminal event for the outbox. A job of three tokens is stopped by a full
channel in the middle of its reply, so that `pool` and `live` have stall timeouts. A window of four
leaves room for prompt, several tokens and both bounds on the budget (asked for, and room
left). The worker needs two streams, since only a client that left and its successor meet in
the engine, and a queue of one, so that one departure fills it. Two engines race for the
backend; a third would find it as the second did. Two tasks and main are enough for a
Generation to outlive another's handle. The page needs a second question for a history, and
its texts hold the two ways a cut can go wrong, inside a character and between two line
feeds. Nine slots are more than the bound of `HeldToTarget` lets the batch reach, which is
seven of them, and one waiting job is always there when a pass asks. `Patient` (only in
`narrow`) drops states in which a caller has cancelled or the engine was closed; the other
runs have them. `OneAsksMore` (only in `live`) drops requests: it keeps one of the two ways
to hand out a long and a short one, which differ in the names of the jobs. `Unlike` (only in
`pool`) drops pairs of equal requests, which `narrow` and `reader` have. `OnePanic` (only in
`process`) drops states in which both engines have panicked; engines share the backend only,
which a panic leaves as it is. Deadlock is checked only of `Pacing`: any other system stops
when its callers are done, or do not read.

### Disagreements between code and words

Each is a finding in `PROJECT.json` with the quotation, and has a run: a terminal event can
overtake the last piece of its reply (`claim_terminal`); a queued job can wait behind an
empty pool while someone else's last message is unread (`claim_queue`); `max_tokens = 1`
yields two tokens (`claim_stop`; the property it refutes fails as well for
`max_tokens <= 0`, answered `ContextFull`, and for a caller slower than STALL_TIMEOUT, told
`Cancelled`, on instances with such requests or a smaller channel); and under a target no
step meets three jobs are admitted, where the test allows two (`claim_target`): two in the
first pass, as the idle engine goes on admitting after the first, and a third in the next,
as neither was decoded in that pass and the measurement is still zero.

Others, seen while modelling and without a run of their own:

- `submit` counts a job after queueing it, so `inflight` can be below the number of
  jobs, and wrap below zero, for a moment (lib.rs:326, against 200);
  `InflightIsOccupancy` says by exactly how much.
- A last message that nobody reads keeps the thread from ending (lib.rs:589, against
  999-1001). `ShutdownCompletes` is checked with callers that read;
  `JoinNeedsNoReader` shows that the programs never join with such a caller left.
- A client that leaves while a buffered answer is generated does not stop it
  (worker.rs:166, against ingress.rs:151-153): `HangupCancels` is about streams.
- `decoding` keeps the last busy value while the engine sleeps (lib.rs:588, against 202).
- The page keeps the text of a response that ended early without an error as if it were
  the whole answer (index.html:152 and 188): it does not look for a finish_reason.
- With callers that fall behind, slots leave the steps that are measured and come back
  later, so a step target does not bound the batch: `HeldToTarget` needs `prompt`.
- An engine whose start failed is not joined, so its teardown can race the exit of the
  process (lib.rs:275-277, against 247-249); `ExitIsClean` is about engines that started.
- "Caller gave up while we were loading" (lib.rs:552-554) does not happen: `spawn` waits.
- The command line waits for ctrl-c anew in every round of its loop
  (src/llm-engine/src/main.rs:116-123); whether an interrupt between two rounds is seen
  is tokio's matter.

## 5. Proofs

`EngineProofs` proves, for every value of the constants that satisfies the
assumptions (finitely many jobs, positive sizes and any queue depth, fewer jobs than `Wrap`):

- `TypeCorrect`: `Spec => []TypeOK`
- `RowsAreOfTheirSlots`: `Spec => []RowsMatchSlots`
- `KvIsIsolated`: `Spec => []KvIsolation`

all three from `PoolIsConsistent`: `Spec => [](TypeOK /\ PoolInv)`. Neither of the
latter two is inductive alone. A row is safe while it waits in `rows` because
steps that empty a slot concern either the slot of the row just removed or a
slot the collecting cursor is at, which no row names yet (`RowsBehindCursor`); a
decode keeps sequences apart because the batch it writes was collected from the
slots as they still are (`BatchIsOfSlots`); and `PhaseInv` says in which phases
rows can exist at all. The type invariant needs the same facts, because
`slots[s].job` of a retired row must be a job. TLC checks `TypeOK`,
`RowsMatchSlots` and `KvIsolation` on the instances above.

The proof follows the specification: one lemma per group of actions for types,
one per group for `PoolInv`, shared lemmas for `Vacate`, `Retire`, `Fail` and
sequences, and a last step by temporal logic.

`PoolProofs` proves, under the same assumptions, of the places of jobs:

- `EachJobHasOnePlace`: `Spec => []OnePlacePerJob`
- `MeterIsTrue`: `Spec => []InflightIsOccupancy`
- `RefusedWhenBusy`: `Spec => RefusedOnlyWhenBusy`

from `PlacesAreConsistent`. `PlaceInv` says that the queue repeats nothing, that no two
slots hold one job, that a job taken off the queue exists only in the phase
`prefill`, and that the meter is `Cardinality(InEngine)` less the submits that have not
counted themselves, modulo `Wrap`; every step that moves a job changes the set and the
meter together, or leaves both. A refusal is then arithmetic: the queue alone is as
long as the pool.

and of the batch:

- `DecodingIsCovered`: `Spec => []DecodingCoversTheBatch`
- `SequencesAreTheReplies`: `Spec => []KvIsTheReplySoFar`

from `BatchIsConsistent` (`BatchIsRows`: rows are numbered like the entries they came from and
each names its own slot; `CourseInv`: how a slot's counters relate to its request and to
the phase; `CellsInv`: which positions of a sequence are written in which phase). The
set of positions alone is not inductive: while a batch is decoded it may be partly
written, and what a failed decode leaves behind is cleared only when its rows have been
failed one by one.

`ReplyProofs` proves:

- `EachCallerIsAnsweredOnce`: `Spec => []AnsweredOnce`
- `RepliesAreWhole`: `Spec => []ReplyIsWhole`
- `StopsHaveCauses`: `Spec => []StopHasACause`
- `FailuresHaveCauses`: `Spec => []FailureHasACause`

from `RepliesAreConsistent`. `ReplyInv` follows one reply over its whole path: what was received,
what is in the channel, the piece pending in the slot, the entries of the outbox in
both halves of its pass. While the job is in a slot these are its tokens, in order and
nothing else; from the step that lets go of it they are its tokens and one end, of
which at most two events are in the outbox, and only those two can change places. Which
events a path holds is the function `EventsOf`, a recursive function of a position; that
it exists, and what it makes of a concatenation, is proved by induction on the length,
stated for a set of numbers closed under successor (lemma `Induction`) because an
induction rule that takes a predicate cannot be used here. `FailingInv` says which phase
a failure can come from.

`RefinementProofs` proves `EngineImplementsLifecycle`: `Spec => ImplementsLifecycle`. Initial states
map to initial states. `SubmitQueued` is `Submit`, `SubmitRefused` `Refuse`, `Cancel` and
`Drop` themselves; `AdmitTake`, which takes a job off the queue, is `Start`, and
`AdmitCancelled` is `Skip`; a step that gets a piece into the channel (`FlushDeliver` and
its like) is `Speak`; a step that retires or fails a job, one whose prefill came to
nothing included, is `Finish`, with whatever it leaves owed; `DrainDeliver`, which gets an
outbox entry into the channel, is `Deliver`. Everything else (counting, flushing nothing,
collecting, decoding, publishing, receiving) leaves the mapped state as it was. The proof
needs `ReplyInv`: that what `Finish` owes is what the outbox holds, and that nothing is
sent after it.

`WorkerProofs` proves, for any number of streams, claims, slots and tokens:

- `WorkerTypes`: `Spec => []TypeOK`
- `WorkerLaneIsOneAnswer`: `Spec => []LaneIsOneAnswer`
- `WorkerAnswersUnlessGone`: `Spec => []AnsweredUnlessGone`
- `WorkerNeverSilent`: `Spec => []NeverSilent`
- `WorkerOccupancyIsClaimed`: `Spec => []OccupancyIsClaimed`
- `WorkerHangupCancels`: `Spec => []HangupCancels`
- `WorkerRefusedOnlyByDepartures`: `Spec => RefusedOnlyByDepartures`

from `WorkerInvariant`. Its invariant has a half for the engine (`EngineInv`: each job in
one place; a reply is its first tokens, then, once the job is settled, an end that may have
overtaken the last of them), which every step of `Lifecycle` keeps, and one for each job
(`JobInv`): while it is receiving, what the lane holds and `todo` completes is the beginning
of an answer with as many tokens as were received (`Passing`); once nothing follows, lane
and `todo` together are an answer (`Ending`); a job that has returned is dropped, and
settled unless its client left (`Ended`). A step of one job, or of the engine, leaves of
another job everything `JobInv` reads (`KeptFor`, `SameJob`), so each action is proved once,
for the job that takes it. The refusals follow by counting: the queued jobs of clients that
are still there are in hand, distinct, and not the one being refused. The only assumption is
that the sizes are positive.

`ProcessProofs` proves, for any set of owners and tasks:

- `ProcessTypes`: `Spec => []TypeOK`
- `HandlesAreServed`: `Spec => []HandleMeansServing`
- `BackendIsShared`: `Spec => []OneBackend`
- `JoinsAreSafe`: `Spec => []JoinNeedsNoReader`
- `ExitsAreClean`: `Spec => []ExitIsClean`

from `ProcessIsConsistent`, whose invariant says, for each place the thread can be at,
what it has built (`BuiltSoFar`) and reported (`ReportedSoFar`), and for each place an owner
can be at, who holds what (`HeldSoFar`). A handle means a running loop because
handles come only from the ready message, which is sent with everything built, and
the loop ends only when the last of them is gone: none of these is inductive without
the others. `inits` is bounded because a thread initialises only an unset backend.
The assumption is that tasks are not called main, loop or router.

`PacingProofs` proves, for any number of slots, any target and any cost that grows by at
most `Slope` a row:

- `MeasureIsReal`: `Spec => []TypeOK`
- `TargetIsHeld`: `Spec => []HeldToTarget`

from `PacingIsInvariant`. `HeldToTarget` is not inductive: the gate looks at the measure,
so one has to know how far that lags behind the cost of the batch. A decode takes three
tenths of the lag away and at most one sequence joins before the next, so the lag stays
below 7/3 of `Slope` after a decode (`Trails`, in `AfterStep` and `InPass`); when the gate is
passed two sequences are not in the measure, the joining one and the one before it,
which gives 13/3. `9` is what the rounding of an integer average can lose.

`PageProofs` proves, for texts and replies of any length, any number of questions and
reads of any length:

- `StreamedFrames`: what `Streamed` writes decodes to the frames of the reply, in order
- `PageTypes`: `Spec => []TypeOK`
- `ShownIsAlwaysTheReply`: `Spec => []ShownIsTheReply`
- `NoteIsAlwaysTrue`: `Spec => []NoteIsTrue`
- `HistoryIsAlwaysReplies`: `Spec => []HistoryIsReplies`

the last four from `PageInvariant`, under the assumption that limits and bounds are naturals
and texts are sequences of characters. None of them is inductive: what a page shows is
right because of what it has yet to read. `PageInv` says that some k frames of the reply
have been taken (`Taken(k)`): the held-back byte, the buffer and the wire decode together to
all the others, and text, note and reply so far are what the first k say (`Shown(k)`,
`Noted(k)`). Its other parts are for the rest of a turn: `Conversation` (what the page
keeps), `Requested` (the body sent), `Fetching` (nothing read yet). The argument about the
wire has three steps. Of what is written, every first byte is followed by its second
(`Paired`), so decoding a read and holding back its last byte loses and doubles nothing,
wherever the cut falls (`ReadKeeps`). A frame is a line without a line feed and a blank
line, so the first blank line in the buffer ends the next frame and no other, also when a
text is itself nothing but line feeds (`LeftNext`, `TakeOne`). And parsing the line gives
back fields and text (`LineData`). What all texts have in common is proved by induction on
their length, stated for a set of sequences closed under `Append` (`SeqInduction`), because
the library's rules, which take a predicate, cannot be used here.

Every safety property that a passing run checks, state or action, and the safety half of the
refinement, is thus a theorem.

Model-checked only is what needs fairness or ENABLED, out of these provers' reach:
`ImplementsLiveLifecycle`, `ImplementsReaderLifecycle`, `ShutdownCompletes`,
`EveryClaimEnds`, `SpawnReturns`, `OwnersEnd` and `AskEnds`.

## 6. Not modelled, and the plan

The plan of modules, runs and theorems is carried out. What could be added are finer
models of what is now one step or one bit: the times behind the smoothed step cost in
`Engine` (`Pacing` has them apart), and a ring of bounded lanes under `Worker`.

Left out for good: `build_prompt` (a pure call into llama.cpp's template engine), the
text of prompts and tokens, UTF-8 decoding of pieces, sampling, argument parsing, TLS,
the routing of constant pages and `/health` (no state of its own; the numbers it prints
are the meters of `Engine`), `load.sh`, and the internals of the ring, the HTTP server,
llama.cpp and tokio, which are not in the repository and appear only as the code
uses them.
