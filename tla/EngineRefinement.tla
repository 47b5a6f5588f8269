-------------------------- MODULE EngineRefinement --------------------------
(***************************************************************************)
(* The engine implements Lifecycle: a job is being served from the moment  *)
(* admit takes it from the queue until its slot is given back, and what it *)
(* has been sent is what its caller has received or can receive next.      *)
(***************************************************************************)
EXTENDS Engine

Word(e)  == [kind |-> e.kind, of |-> e.of, n |-> e.n]
Words(s) == [i \in DOMAIN s |-> Word(s[i])]
Gone     == {j \in Jobs : caller[j] = "dropped"}
WordsOwed(j) == LET last == EventsOf(j, kept \o outbox)
                IN  {Word(last[i]) : i \in DOMAIN last}

L == INSTANCE Lifecycle WITH
        MaxServing <- MaxInflight,
        MaxWaiting <- QueueLimit,
        MaxTokens  <- NCtx,
        waiting    <- queue,
        serving    <- ({taken} \ {NoJob}) \cup Decoding,
        settled    <- {j \in Jobs : caller[j] \notin {"idle", "refused"}} \ Occupying,
        refused    <- {j \in Jobs : caller[j] = "refused"},
        cancelled  <- {j \in Jobs : cancel[j]},
        gone       <- Gone,
        reply      <- [j \in Jobs |-> IF j \in Gone THEN <<>> ELSE Words(got[j] \o events[j])],
        owed       <- [j \in Jobs |-> IF j \in Gone THEN {} ELSE WordsOwed(j)]

\* Every step of callers and engine is a step of Lifecycle or changes nothing
\* there: jobs are taken up first come first served, never more than
\* max_inflight at once, never again once let go of, and each caller is sent
\* its own tokens, in order, and the end once the engine has let go.
ImplementsLifecycle == L!Spec

\* ... and with the engine thread running, and no step target, none waits or
\* is worked on for ever: a caller that stops reading, cancels or hangs up
\* keeps no other caller waiting, and gives its own slot back in the end.
ImplementsLiveLifecycle == L!LiveSpec

\* ... and callers that read are sent everything they are owed.
ImplementsReaderLifecycle == L!ReaderSpec
=============================================================================
