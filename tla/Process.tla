------------------------------ MODULE Process ------------------------------
(***************************************************************************)
(* A process that owns engines: how one is started, shared and taken down. *)
(* The engine side is `spawn`, `engine_thread`, `shared_backend`,          *)
(* `Runtime::load` and the two ends of `serve` of llm-engine/src/lib.rs;   *)
(* the owners are the three programs: the engine's command line, the       *)
(* worker and the example server.  A process has one owner when it is one  *)
(* of these, and several in the tests, which share its llama backend.      *)
(*                                                                         *)
(* As in Engine, X_y is X with a mistake.                                  *)
(***************************************************************************)
EXTENDS Naturals

CONSTANTS
    Owners,   \* the functions that spawn an engine, one each
    Tasks     \* the jobs a worker has in hand at once

ASSUME ProcessAssumption ==
    /\ Tasks \cap {"main", "loop", "router"} = {}

VARIABLES
    backend,      \* the OnceLock: unset, initialising, ready, failed
    inits,        \* calls of LlamaBackend::init
    thread,       \* where the engine thread is
    resident,     \* what it has built and not dropped yet
    ready,        \* the message of the ready channel: none, ok, err
    owner,        \* where the owner is
    holders,      \* who keeps a clone of the Engine from being dropped
    generations   \* ... and has a Generation

starting  == <<backend, inits, thread, resident, ready>>
ownerSide == <<owner, holders, generations>>
vars == <<starting, ownerSide>>

Holders == {"main", "loop", "router"} \cup Tasks

Init ==
    /\ backend = "unset" /\ inits = 0
    /\ thread = [o \in Owners |-> "none"]
    /\ resident = [o \in Owners |-> {}]
    /\ ready = [o \in Owners |-> "none"]
    /\ owner = [o \in Owners |-> "starting"]
    /\ holders = [o \in Owners |-> {}]
    /\ generations = [o \in Owners |-> {}]

(***************************************************************************)
(* The engine thread.                                                      *)
(***************************************************************************)
At(o, where)   == thread[o] = where
Goto(o, where) == thread' = [thread EXCEPT ![o] = where]

\* A step of Runtime::load, or of serve before its loop, returns Err: the
\* thread says so, and what it has built is dropped as it returns.
Refuse(o) == Goto(o, "unwinding") /\ ready' = [ready EXCEPT ![o] = "err"]

Resolve(o) ==
    /\ At(o, "resolving")
    /\ \/ Goto(o, "locking") /\ UNCHANGED ready
       \/ Refuse(o)
    /\ UNCHANGED <<backend, inits, resident, ownerSide>>

\* OnceLock::get_or_init: one thread calls init, the others wait for it.
MayInit_racing == backend \in {"unset", "initialising"}
MayInit == backend = "unset"

InitBackend(o) ==
    /\ At(o, "locking") /\ MayInit
    /\ backend' = "initialising" /\ inits' = inits + 1
    /\ Goto(o, "initialising")
    /\ UNCHANGED <<resident, ready, ownerSide>>

BackendDone(o) ==
    /\ At(o, "initialising")
    /\ backend' \in {"ready", "failed"}
    /\ Goto(o, "locking")
    /\ UNCHANGED <<inits, resident, ready, ownerSide>>

\* The outcome is kept for ever, a failure too.
Locked(o) ==
    /\ At(o, "locking")
    /\ \/ backend = "ready" /\ Goto(o, "loading") /\ UNCHANGED ready
       \/ backend = "failed" /\ Refuse(o)
    /\ UNCHANGED <<backend, inits, resident, ownerSide>>

Load(o) ==
    /\ At(o, "loading")
    /\ \/ /\ resident' = [resident EXCEPT ![o] = {"model"}]
          /\ Goto(o, "opening") /\ UNCHANGED ready
       \/ Refuse(o) /\ UNCHANGED resident
    /\ UNCHANGED <<backend, inits, ownerSide>>

NewContext(o) ==
    /\ At(o, "opening")
    /\ \/ /\ resident' = [resident EXCEPT ![o] = @ \cup {"context"}]
          /\ Goto(o, "reporting") /\ UNCHANGED ready
       \/ Refuse(o) /\ UNCHANGED resident
    /\ UNCHANGED <<backend, inits, ownerSide>>

\* The binding may panic, on the way up or in the loop, whatever the engine
\* has in hand: the thread unwinds and sends nothing.
Panic(o) ==
    /\ thread[o] \in {"resolving", "loading", "opening", "serving"}
    /\ Goto(o, "panicking")
    /\ UNCHANGED <<backend, inits, resident, ready, ownerSide>>

MayReport_early(o) == thread[o] \in {"opening", "reporting"}
MayReport(o) == At(o, "reporting")

Report(o) ==
    /\ MayReport(o)
    /\ ready' = [ready EXCEPT ![o] = "ok"]
    /\ Goto(o, "serving")
    /\ UNCHANGED <<backend, inits, resident, ownerSide>>

\* The queue has closed, slots and outbox are empty.  Messages nobody reads
\* may put this off for as long as their Generation lives.
LoopEnds(o) ==
    /\ At(o, "serving") /\ ready[o] = "taken" /\ holders[o] = {}
    /\ Goto(o, "unwinding")
    /\ UNCHANGED <<backend, inits, resident, ready, ownerSide>>

\* The context is a local of serve, the model of engine_thread, the backend
\* of neither.
Outermost_model(o) == IF "model" \in resident[o] THEN "model" ELSE "context"
Outermost(o) == IF "context" \in resident[o] THEN "context" ELSE "model"

Unwind(o) ==
    /\ thread[o] \in {"unwinding", "panicking"} /\ resident[o] # {}
    /\ resident' = [resident EXCEPT ![o] = @ \ {Outermost(o)}]
    /\ UNCHANGED <<backend, inits, thread, ready, ownerSide>>

ThreadEnds(o) ==
    /\ thread[o] \in {"unwinding", "panicking"} /\ resident[o] = {}
    /\ Goto(o, IF At(o, "panicking") THEN "panicked" ELSE "ended")
    /\ UNCHANGED <<backend, inits, resident, ready, ownerSide>>

Thread(o) ==
    \/ Resolve(o) \/ InitBackend(o) \/ BackendDone(o) \/ Locked(o) \/ Load(o)
    \/ NewContext(o) \/ Report(o) \/ Unwind(o) \/ ThreadEnds(o)

(***************************************************************************)
(* spawn.                                                                  *)
(***************************************************************************)
Move(o, from, to) == owner[o] = from /\ owner' = [owner EXCEPT ![o] = to]

Spawn(o) ==
    /\ Move(o, "starting", "spawning")
    /\ Goto(o, "resolving")
    /\ UNCHANGED <<backend, inits, resident, ready, holders, generations>>

SpawnOk(o) ==
    /\ Move(o, "spawning", "running") /\ ready[o] = "ok"
    /\ ready' = [ready EXCEPT ![o] = "taken"]
    /\ holders' = [holders EXCEPT ![o] = {"main"}]
    /\ UNCHANGED <<backend, inits, thread, resident, generations>>

\* recv fails when the thread has dropped its end.
HungUp_never(o) == FALSE
HungUp(o) == ready[o] = "none" /\ thread[o] \in {"panicking", "panicked"}

\* The owner returns the error; nobody joins the thread.
SpawnErr(o) ==
    /\ Move(o, "spawning", "refused")
    /\ ready[o] = "err" \/ HungUp(o)
    /\ UNCHANGED <<starting, holders, generations>>

(***************************************************************************)
(* The three owners.                                                       *)
(***************************************************************************)
\* The command line submits one request, and leaves when it is answered;
\* an interrupt only cancels the request.
Ask(o) ==
    /\ Move(o, "running", "asking")
    /\ generations' = [generations EXCEPT ![o] = {"main"}]
    /\ UNCHANGED <<starting, holders>>

Answered(o) ==
    /\ Move(o, "asking", "returned")
    /\ UNCHANGED <<starting, holders, generations>>

\* The worker attaches to remote ingresses, unless it has nothing to attach
\* with, and an interrupt aborts its loop.
AttachRemote(o) ==
    /\ \/ /\ Move(o, "running", "attached")
          /\ holders' = [holders EXCEPT ![o] = @ \cup {"loop"}]
       \/ Move(o, "running", "returned") /\ UNCHANGED holders
    /\ UNCHANGED <<starting, generations>>

InterruptWorker(o) ==
    /\ Move(o, "attached", "returned")
    /\ UNCHANGED <<starting, holders, generations>>

\* The server's router takes main's handle over.  Building or starting the
\* server may fail with the worker running.
AttachLocal(o) ==
    /\ owner[o] = "running"
    /\ owner' \in {[owner EXCEPT ![o] = "listening"], [owner EXCEPT ![o] = "returned"]}
    /\ holders' = [holders EXCEPT ![o] = {"loop", "router"}]
    /\ UNCHANGED <<starting, generations>>

InterruptServer(o) ==
    /\ Move(o, "listening", "stopping")
    /\ UNCHANGED <<starting, holders, generations>>

\* The server has finished, and dropped its router.
ServerFinished(o) ==
    /\ Move(o, "stopping", "returned")
    /\ holders' = [holders EXCEPT ![o] = @ \ {"router"}]
    /\ UNCHANGED <<starting, generations>>

(***************************************************************************)
(* The worker's tasks, and what becomes of them when the runtime is        *)
(* dropped after main has returned.                                        *)
(***************************************************************************)
\* The loop hands a job to a task of its own, with a clone of the worker.  What
\* a task still does after main has returned is as if done before.
StartJob(o, t) ==
    /\ "loop" \in holders[o] /\ t \notin holders[o] /\ owner[o] # "returned"
    /\ holders' = [holders EXCEPT ![o] = @ \cup {t}]
    /\ UNCHANGED <<starting, owner, generations>>

Submit(o, t) ==
    /\ t \in holders[o] \ generations[o] /\ owner[o] # "returned"
    /\ generations' = [generations EXCEPT ![o] = @ \cup {t}]
    /\ UNCHANGED <<starting, owner, holders>>

\* serve returns, or its future is dropped at an await.  Who has dropped the
\* last handle does nothing more: it is in join.
DropGeneration(o, h) ==
    /\ h \in generations[o] /\ holders[o] # {} /\ (h \in Tasks \/ owner[o] = "returned")
    /\ generations' = [generations EXCEPT ![o] = @ \ {h}]
    /\ UNCHANGED <<starting, owner, holders>>

\* serve borrows the worker, main declares its engine first: the Generation
\* goes before the handle.
MayRelease_any(o, h) == TRUE
MayRelease(o, h) == h \notin generations[o]

Release(o, h) ==
    /\ h \in holders[o] /\ MayRelease(o, h)
    /\ h \in Tasks \/ owner[o] = "returned"
    /\ holders' = [holders EXCEPT ![o] = @ \ {h}]
    /\ UNCHANGED <<starting, owner, generations>>

\* The last handle joins the thread as it is dropped; a panic is ignored.
Gone(o) == thread[o] \in {"ended", "panicked"}
Joined_notWaited(o) == holders[o] = {}
Joined(o) == holders[o] = {} /\ Gone(o)

Exit(o) ==
    /\ Joined(o)
    /\ Move(o, "returned", "exited")
    /\ UNCHANGED <<starting, holders, generations>>

Owner(o) ==
    \/ Spawn(o) \/ SpawnOk(o) \/ SpawnErr(o)
    \/ Ask(o) \/ Answered(o) \/ AttachRemote(o) \/ InterruptWorker(o)
    \/ AttachLocal(o) \/ InterruptServer(o) \/ ServerFinished(o) \/ Exit(o)

Next == \E o \in Owners :
    \/ Thread(o) \/ LoopEnds(o) \/ Panic(o) \/ Owner(o)
    \/ \E t \in Tasks : StartJob(o, t) \/ Submit(o, t)
    \/ \E h \in Holders : DropGeneration(o, h) \/ Release(o, h)

Spec == Init /\ [][Next]_vars

\* What runs goes on: the thread, unless it waits for a reader; spawn; the
\* server's shutdown; the drop of the runtime, task by task.
LiveSpec == Spec /\ \A o \in Owners :
    /\ WF_vars(Thread(o)) /\ WF_vars(LoopEnds(o) /\ generations[o] = {})
    /\ WF_vars(SpawnOk(o) \/ SpawnErr(o)) /\ WF_vars(ServerFinished(o) \/ Exit(o))
    /\ \A h \in Holders : WF_vars(owner[o] = "returned" /\ (DropGeneration(o, h) \/ Release(o, h)))

-----------------------------------------------------------------------------
\* Every variable has its type.
TypeOK ==
    /\ backend \in {"unset", "initialising", "ready", "failed"} /\ inits \in {0, 1}
    /\ thread \in [Owners -> {"none", "resolving", "locking", "initialising", "loading",
                              "opening", "reporting", "serving", "unwinding", "ended",
                              "panicking", "panicked"}]
    /\ resident \in [Owners -> SUBSET {"model", "context"}]
    /\ ready \in [Owners -> {"none", "ok", "err", "taken"}]
    /\ owner \in [Owners -> {"starting", "spawning", "refused", "running", "asking", "attached",
                             "listening", "stopping", "returned", "exited"}]
    /\ holders \in [Owners -> SUBSET Holders]
    /\ generations \in [Owners -> SUBSET Holders]

\* main.rs:147-148, "the worker must not publish capacity it cannot honour":
\* while anyone has a handle, model and context are there and the loop runs,
\* unless the binding has panicked in it.
HandleMeansServing ==
    \A o \in Owners : holders[o] # {} /\ thread[o] \notin {"panicking", "panicked"} =>
        At(o, "serving") /\ resident[o] = {"model", "context"}

\* lib.rs:384-387: LlamaBackend::init is called once in a process, however
\* many engines start at a time, and nothing of llama.cpp outlives what it
\* was made from.
OneBackend ==
    /\ inits <= 1
    /\ \A o \in Owners : /\ "context" \in resident[o] => "model" \in resident[o]
                         /\ "model" \in resident[o] => backend = "ready"

\* Whoever drops the last handle waits for the thread; nobody who could still
\* have to read for it to end is left by then.
JoinNeedsNoReader == \A o \in Owners : holders[o] = {} => generations[o] = {}

\* lib.rs:247-249: an owner whose engine started is gone only after the GPU
\* teardown.
ExitIsClean ==
    \A o \in Owners : owner[o] = "exited" => Gone(o) /\ resident[o] = {}

\* spawn returns, whatever becomes of the thread.
SpawnReturns == \A o \in Owners : (owner[o] = "spawning") ~> (owner[o] # "spawning")

\* After an interrupt, or an error on the way up, the owner ends; and a start
\* that failed frees what it had built, with nobody to join it.
OwnersEnd ==
    \A o \in Owners :
        /\ (owner[o] \in {"stopping", "returned"}) ~> (owner[o] = "exited")
        /\ (owner[o] = "refused") ~> (Gone(o) /\ resident[o] = {})
=============================================================================
