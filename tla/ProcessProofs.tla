--------------------------- MODULE ProcessProofs ---------------------------
(***************************************************************************)
(* What holds of a process with any number of owners and tasks.            *)
(*                                                                         *)
(* The invariant says, for each place the thread can be at, what it has    *)
(* built and what it has reported, and for each place the owner can be at, *)
(* who has a handle.  That a handle means a running loop rests on both:    *)
(* the message is sent with everything built, handles are made only from   *)
(* the message, and the loop ends only when the last of them is gone.      *)
(***************************************************************************)
EXTENDS Process, TLAPS

\* What the thread has built, and where it stands with the backend.
BuiltSoFar(o) ==
    /\ thread[o] \in {"none", "resolving", "locking", "initialising", "loading", "ended",
                      "panicked"} => resident[o] = {}
    /\ thread[o] = "opening" => resident[o] = {"model"}
    /\ thread[o] \in {"reporting", "serving"} => resident[o] = {"model", "context"}
    /\ resident[o] # {} => "model" \in resident[o]
    /\ resident[o] # {} \/ thread[o] = "loading" => backend = "ready"

\* What it has reported.
ReportedSoFar(o) ==
    /\ ready[o] = "ok" => thread[o] \in {"serving", "panicking", "panicked"}
    /\ ready[o] = "err" => thread[o] \in {"unwinding", "ended"}
    /\ ready[o] = "taken" => thread[o] \in {"serving", "unwinding", "ended", "panicking", "panicked"}
    /\ thread[o] \notin {"serving", "unwinding", "ended", "panicking", "panicked"}
          => ready[o] = "none"
    /\ owner[o] = "starting" => thread[o] = "none"
    /\ owner[o] \in {"starting", "spawning"} => ready[o] # "taken"

\* Who has a handle, and who a Generation.
HeldSoFar(o) ==
    /\ owner[o] \in {"starting", "spawning", "refused"} => holders[o] = {}
    /\ owner[o] = "running" => holders[o] = {"main"} /\ generations[o] = {}
    /\ owner[o] = "asking" => "main" \in holders[o]
    /\ generations[o] \subseteq holders[o]
    /\ generations[o] \subseteq {"main"} \cup Tasks
    /\ holders[o] # {} =>
          ready[o] = "taken" /\ thread[o] \in {"serving", "panicking", "panicked"}
    /\ owner[o] = "exited" => Gone(o)

BackendOnce ==
    /\ inits = IF backend = "unset" THEN 0 ELSE 1
    /\ \A o \in Owners : thread[o] = "initialising" => backend = "initialising"
    /\ \A o, p \in Owners : thread[o] = "initialising" /\ thread[p] = "initialising" => o = p

OwnersInv == \A o \in Owners : BuiltSoFar(o) /\ ReportedSoFar(o) /\ HeldSoFar(o)

ProcessInv == TypeOK /\ BackendOnce /\ OwnersInv

LEMMA StartsInvariant == Init => ProcessInv
BY DEF Init, ProcessInv, TypeOK, BackendOnce, OwnersInv, BuiltSoFar, ReportedSoFar, HeldSoFar, Gone

\* The engine thread's steps touch neither owners nor handles.
LEMMA ThreadKeeps ==
    ASSUME ProcessInv, NEW o \in Owners, Thread(o) \/ LoopEnds(o) \/ Panic(o)
    PROVE  ProcessInv'
<1> USE DEF ProcessInv, TypeOK, BackendOnce, OwnersInv, BuiltSoFar, ReportedSoFar, HeldSoFar, Gone,
            ownerSide, At, Goto, Refuse
<1>1. CASE Resolve(o)
  BY <1>1 DEF Resolve
<1>2. CASE InitBackend(o)
  BY <1>2 DEF InitBackend, MayInit
<1>3. CASE BackendDone(o)
  BY <1>3 DEF BackendDone
<1>4. CASE Locked(o)
  BY <1>4 DEF Locked
<1>5. CASE Load(o)
  BY <1>5 DEF Load
<1>6. CASE NewContext(o)
  BY <1>6 DEF NewContext
<1>7. CASE Panic(o)
  BY <1>7 DEF Panic
<1>8. CASE Report(o)
  BY <1>8 DEF Report, MayReport
<1>9. CASE Unwind(o)
  BY <1>9 DEF Unwind, Outermost
<1>10. CASE ThreadEnds(o)
  BY <1>10 DEF ThreadEnds
<1>11. CASE LoopEnds(o)
  BY <1>11 DEF LoopEnds
<1> QED
  BY <1>1, <1>2, <1>3, <1>4, <1>5, <1>6, <1>7, <1>8, <1>9, <1>10, <1>11 DEF Thread

LEMMA OwnerKeeps ==
    ASSUME ProcessInv, NEW o \in Owners, Owner(o)
    PROVE  ProcessInv'
<1> USE DEF ProcessInv, TypeOK, BackendOnce, OwnersInv, BuiltSoFar, ReportedSoFar, HeldSoFar, Gone,
            starting, At, Goto, Move, Holders
<1>1. CASE Spawn(o)
  BY <1>1 DEF Spawn
<1>2. CASE SpawnOk(o)
  BY <1>2 DEF SpawnOk
<1>3. CASE SpawnErr(o)
  BY <1>3 DEF SpawnErr
<1>4. CASE Ask(o)
  BY <1>4 DEF Ask
<1>5. CASE Answered(o)
  BY <1>5 DEF Answered
<1>6. CASE AttachRemote(o)
  BY <1>6 DEF AttachRemote
<1>7. CASE InterruptWorker(o)
  BY <1>7 DEF InterruptWorker
<1>8. CASE AttachLocal(o)
  BY SMTT(30), <1>8 DEF AttachLocal
<1>9. CASE InterruptServer(o)
  BY <1>9 DEF InterruptServer
<1>10. CASE ServerFinished(o)
  BY <1>10, ProcessAssumption DEF ServerFinished
<1>11. CASE Exit(o)
  BY <1>11 DEF Exit, Joined
<1> QED
  BY <1>1, <1>2, <1>3, <1>4, <1>5, <1>6, <1>7, <1>8, <1>9, <1>10, <1>11 DEF Owner

LEMMA TasksKeep ==
    ASSUME ProcessInv, NEW o \in Owners,
           \/ \E t \in Tasks : StartJob(o, t) \/ Submit(o, t)
           \/ \E h \in Holders : DropGeneration(o, h) \/ Release(o, h)
    PROVE  ProcessInv'
<1> USE DEF ProcessInv, TypeOK, BackendOnce, OwnersInv, BuiltSoFar, ReportedSoFar, HeldSoFar, Gone,
            starting, At, Holders
<1>1. CASE \E t \in Tasks : StartJob(o, t)
  BY <1>1 DEF StartJob
<1>2. CASE \E t \in Tasks : Submit(o, t)
  BY <1>2, ProcessAssumption DEF Submit
<1>3. CASE \E h \in Holders : DropGeneration(o, h)
  BY <1>3 DEF DropGeneration
<1>4. CASE \E h \in Holders : Release(o, h)
  BY <1>4, ProcessAssumption DEF Release, MayRelease
<1> QED
  BY <1>1, <1>2, <1>3, <1>4

LEMMA StutteringKeeps == ProcessInv /\ UNCHANGED vars => ProcessInv'
BY DEF ProcessInv, TypeOK, BackendOnce, OwnersInv, BuiltSoFar, ReportedSoFar, HeldSoFar, Gone,
       vars, starting, ownerSide

\* The inductive invariant.
THEOREM ProcessIsConsistent == Spec => []ProcessInv
<1>1. ProcessInv /\ [Next]_vars => ProcessInv'
  BY ThreadKeeps, OwnerKeeps, TasksKeep, StutteringKeeps DEF Next
<1> QED
  BY <1>1, StartsInvariant, PTL DEF Spec

THEOREM ProcessTypes == Spec => []TypeOK
<1>1. ProcessInv => TypeOK
  BY DEF ProcessInv
<1> QED
  BY <1>1, ProcessIsConsistent, PTL

\* Whoever has a handle has a loaded model, a context and a running loop, unless
\* the binding has panicked in it.
THEOREM HandlesAreServed == Spec => []HandleMeansServing
<1>1. ProcessInv => HandleMeansServing
  BY DEF ProcessInv, OwnersInv, BuiltSoFar, HeldSoFar, HandleMeansServing, At
<1> QED
  BY <1>1, ProcessIsConsistent, PTL

\* However many engines start at a time, the backend is initialised once and
\* outlives every model, which outlives its context.
THEOREM BackendIsShared == Spec => []OneBackend
<1>1. ProcessInv => OneBackend
  BY DEF ProcessInv, TypeOK, OwnersInv, BuiltSoFar, OneBackend
<1> QED
  BY <1>1, ProcessIsConsistent, PTL

\* When the last handle goes, no Generation is left that the thread, which is
\* about to be joined, could be waiting for.
THEOREM JoinsAreSafe == Spec => []JoinNeedsNoReader
<1>1. ProcessInv => JoinNeedsNoReader
  BY DEF ProcessInv, OwnersInv, HeldSoFar, JoinNeedsNoReader
<1> QED
  BY <1>1, ProcessIsConsistent, PTL

\* An owner that ended left nothing of its engine behind.
THEOREM ExitsAreClean == Spec => []ExitIsClean
<1>1. ProcessInv => ExitIsClean
  BY DEF ProcessInv, OwnersInv, BuiltSoFar, HeldSoFar, ExitIsClean, Gone
<1> QED
  BY <1>1, ProcessIsConsistent, PTL
=============================================================================
