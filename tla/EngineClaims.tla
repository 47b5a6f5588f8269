---------------------------- MODULE EngineClaims ----------------------------
(***************************************************************************)
(* Statements the documentation, comments and tests make about the engine  *)
(* which its code does not keep.  Each is refuted by a run of its own.     *)
(***************************************************************************)
EXTENDS Engine

\* lib.rs:879-880, "`retire` hands both it and the terminal event to the
\* outbox, in order": a terminal event is the last a caller receives.
\* `retain` gives each entry its own try_send, so a Done may be sent after a
\* caller made room, past the piece that was kept for want of it.
TerminalIsLast ==
    \A j \in Jobs : \A i \in DOMAIN got[j] :
        IsTerminal(got[j][i]) => i = Len(got[j])

\* lib.rs:621-622, "An idle engine always admits: a queue that nothing is
\* working on serves nobody": a queued job is taken up, whatever other
\* callers do.  The unread last words of another job make the engine not
\* idle, and then the last measured step, over target, keeps the queue shut.
QueueIsServed == \A j \in Jobs : (j \in Queued) ~> (j \notin Queued)

\* The reason in Done is what the documentation says it is: "at `max_tokens`"
\* (README.md:38) and "`max_tokens` was reached." (lib.rs:174), "The context
\* window filled." (lib.rs:176), "The caller cancelled, or dropped the
\* `Generation`." (lib.rs:179).  A reply limited to one token is sent two; one
\* limited to none ends as ContextFull; a caller that is only slow to read is
\* told it cancelled.
StopMeansWhatItSays ==
    \A j \in Jobs : \A i \in DOMAIN got[j] :
        LET e == got[j][i]
        IN  e.kind = "done" =>
              CASE e.stop = "Limit"       -> e.n = req[j].asked
                [] e.stop = "ContextFull" -> NCtx <= req[j].prompt + e.n
                [] e.stop = "Cancelled"   -> cancel[j]
                [] OTHER                  -> TRUE
=============================================================================
