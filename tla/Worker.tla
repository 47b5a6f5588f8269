------------------------------- MODULE Worker -------------------------------
(***************************************************************************)
(* The worker of llm-worker/src/worker.rs: `serve`, run concurrently for   *)
(* every stream it has claimed, over the engine as Lifecycle describes it. *)
(*                                                                         *)
(* As in Engine, X_y is X with a mistake.                                  *)
(*                                                                         *)
(* A step of a job is what it does between two awaits.  The ring is not in *)
(* this repository: it hands a stream to the worker while fewer than       *)
(* Claims are in hand, takes what is written to the response lane, and     *)
(* fails every write to a stream its client has closed.                    *)
(***************************************************************************)
EXTENDS Naturals, Sequences, FiniteSets, SequencesExt

CONSTANTS
    Jobs,        \* the streams of the ring, one request each
    Claims,      \* WorkerConfig::max_inflight
    MaxServing, MaxWaiting, MaxTokens   \* of the engine

ASSUME WorkerAssumption ==
    /\ Claims \in Nat \ {0} /\ MaxServing \in Nat \ {0}
    /\ MaxWaiting \in Nat \ {0} /\ MaxTokens \in Nat \ {0}

VARIABLES
    waiting, serving, settled, refused, cancelled, gone, reply, owed, \* the engine
    streams,  \* the jobs whose request asks for a stream
    closed,   \* the streams whose client has left
    stage,    \* where serve is: parked, heading, reading, receiving, writing, returned
    read,     \* events of the reply received
    seen,     \* ... and how many they were when the client left
    text,     \* the tokens of a buffered answer
    todo,     \* the frames about to be written, one await each
    final,    \* nothing follows them
    lane      \* the response lane

engineVars == <<waiting, serving, settled, refused, cancelled, gone, reply, owed>>
jobVars    == <<streams, stage, read, text, todo, final>>
laneVars   == <<closed, seen, lane>>
vars == <<engineVars, jobVars, laneVars>>

E == INSTANCE Lifecycle

(***************************************************************************)
(* Frames of the response lane.                                            *)
(***************************************************************************)
Head200    == [kind |-> "head", status |-> 200]
Open       == [kind |-> "open"]
Chunk(e)   == [kind |-> "chunk", of |-> e.of, n |-> e.n]
Close(e)   == [kind |-> "close", of |-> e.of, n |-> e.n]
Whole(j, e) == [kind |-> "whole", of |-> e.of, n |-> e.n, text |-> text[j]]
Error      == [kind |-> "error"]
End        == [kind |-> "end"]

Json(status, body)  == << [kind |-> "head", status |-> status], body, End >>
Refusal(status)     == Json(status, Error)

Init ==
    /\ E!Init
    /\ streams \in SUBSET Jobs
    /\ closed = {}
    /\ stage = [j \in Jobs |-> "parked"]
    /\ read = [j \in Jobs |-> 0] /\ seen = [j \in Jobs |-> 0]
    /\ text = [j \in Jobs |-> <<>>]
    /\ todo = [j \in Jobs |-> <<>>] /\ final = [j \in Jobs |-> FALSE]
    /\ lane = [j \in Jobs |-> <<>>]

(***************************************************************************)
(* Outside the worker.                                                     *)
(***************************************************************************)
InHand == {j \in Jobs : stage[j] \notin {"parked", "returned"}}

CanClaim_oneMore == Cardinality(InHand) <= Claims
CanClaim == Cardinality(InHand) < Claims

\* The worker loop of the ring hands over a stream.
Claim(j) ==
    /\ stage[j] = "parked" /\ CanClaim
    /\ stage' = [stage EXCEPT ![j] = "heading"]
    /\ UNCHANGED <<engineVars, streams, read, text, todo, final, laneVars>>

\* The client leaves before its answer is complete.  One that leaves earlier
\* is as one that leaves as soon as its stream is claimed.
HangUp(j) ==
    /\ j \in InHand \ closed
    /\ closed' = closed \cup {j}
    /\ seen' = [seen EXCEPT ![j] = read[j]]
    /\ UNCHANGED <<engineVars, jobVars, lane>>

EngineStep == E!Work /\ UNCHANGED <<jobVars, laneVars>>

(***************************************************************************)
(* serve.                                                                  *)
(***************************************************************************)
Goto(j, where) == stage' = [stage EXCEPT ![j] = where]

\* Frames to write, and whether serve returns after them.
WriteNext_empty(j, frames, last) ==
    /\ Goto(j, "writing") /\ UNCHANGED todo
    /\ final' = [final EXCEPT ![j] = last]
WriteNext(j, frames, last) ==
    /\ Goto(j, "writing")
    /\ todo' = [todo EXCEPT ![j] = frames]
    /\ final' = [final EXCEPT ![j] = last]

\* Return: the Generation, if there is one, is dropped.
LetGo(j) == IF j \in E!Accepted THEN E!Drop(j) ELSE UNCHANGED engineVars

\* request_head returns; it is awaited for as long as that takes.
ReadHead(j) ==
    /\ stage[j] = "heading" /\ Goto(j, "reading")
    /\ UNCHANGED <<engineVars, streams, read, text, todo, final, laneVars>>

\* read_request fails: no head, a body that is late, cut short or not a
\* request.
ReadFail(j) ==
    /\ stage[j] \in {"heading", "reading"}
    /\ WriteNext(j, Refusal(400), TRUE)
    /\ UNCHANGED <<engineVars, streams, read, text, laneVars>>

Opening_noHead == << Open >>
Opening == << Head200, Open >>

\* The request is read and submitted, with no await in between.
Submit(j) ==
    /\ stage[j] = "reading" /\ E!Submit(j)
    /\ IF j \in streams
       THEN WriteNext(j, Opening, FALSE)
       ELSE Goto(j, "receiving") /\ UNCHANGED <<todo, final>>
    /\ UNCHANGED <<streams, read, text, laneVars>>

SubmitRefused(j) ==
    /\ stage[j] = "reading" /\ E!Refuse(j)
    /\ WriteNext(j, Refusal(503), TRUE)
    /\ UNCHANGED <<streams, read, text, laneVars>>

\* Generation::recv returns the next event, of the given kind.
Coming(j) == reply[j][read[j] + 1]
Recv(j, kind) ==
    /\ stage[j] = "receiving" /\ read[j] < Len(reply[j])
    /\ Coming(j).kind = kind
    /\ read' = [read EXCEPT ![j] = @ + 1]

\* recv returns None: the engine has dropped every sender.  serve answers
\* nothing then; NeverSilent says that it does not come to that.
HearsNothing(j) ==
    stage[j] = "receiving" /\ read[j] = Len(reply[j]) /\ j \in settled /\ owed[j] = {}

RecvToken(j) ==
    /\ Recv(j, "token")
    /\ \/ /\ j \in streams
          /\ WriteNext(j, << Chunk(Coming(j)) >>, FALSE)
          /\ UNCHANGED text
       \/ /\ j \notin streams
          /\ text' = [text EXCEPT ![j] = Append(@, Coming(j))]
          /\ UNCHANGED <<stage, todo, final>>
    /\ UNCHANGED <<engineVars, streams, laneVars>>

RecvDone(j) ==
    /\ Recv(j, "done")
    /\ WriteNext(j, IF j \in streams THEN << Close(Coming(j)), End >>
                                     ELSE Json(200, Whole(j, Coming(j))), TRUE)
    /\ UNCHANGED <<engineVars, streams, text, laneVars>>

\* A stream has its status line already, so the error is a frame of it.
FailureFrames_unended(j) == IF j \in streams THEN << Error >> ELSE Refusal(500)
FailureFrames(j) == IF j \in streams THEN << Error, End >> ELSE Refusal(500)

RecvFailed(j) ==
    /\ Recv(j, "failed")
    /\ WriteNext(j, FailureFrames(j), TRUE)
    /\ UNCHANGED <<engineVars, streams, text, laneVars>>

\* One awaited write.  After the last frame serve returns or listens again.
Write(j) ==
    /\ stage[j] = "writing" /\ j \notin closed
    /\ lane' = [lane EXCEPT ![j] = Append(@, Head(todo[j]))]
    /\ todo' = [todo EXCEPT ![j] = Tail(@)]
    /\ \/ /\ Len(todo[j]) > 1
          /\ UNCHANGED <<engineVars, stage>>
       \/ /\ Len(todo[j]) = 1 /\ ~final[j]
          /\ Goto(j, "receiving") /\ UNCHANGED engineVars
       \/ /\ Len(todo[j]) = 1 /\ final[j]
          /\ Goto(j, "returned") /\ LetGo(j)
    /\ UNCHANGED <<streams, read, text, final, closed, seen>>

WriteFailed_ignored(j) ==
    /\ stage[j] = "writing" /\ j \in closed
    /\ \/ final[j] /\ Goto(j, "returned") /\ LetGo(j)
       \/ ~final[j] /\ Goto(j, "receiving") /\ UNCHANGED engineVars
    /\ UNCHANGED <<streams, read, text, todo, final, laneVars>>
WriteFailed(j) ==
    /\ stage[j] = "writing" /\ j \in closed
    /\ Goto(j, "returned") /\ LetGo(j)
    /\ UNCHANGED <<streams, read, text, todo, final, laneVars>>

Serve(j) ==
    \/ ReadHead(j) \/ ReadFail(j) \/ Submit(j) \/ SubmitRefused(j)
    \/ RecvToken(j) \/ RecvDone(j) \/ RecvFailed(j)
    \/ Write(j) \/ WriteFailed(j)

Next == EngineStep \/ \E j \in Jobs : Claim(j) \/ HangUp(j) \/ Serve(j)

Spec == Init /\ [][Next]_vars

\* A task that can go on does; a body is read or the reading times out; and the
\* engine keeps its promises.  Nothing limits the wait for a head.
LiveSpec == Spec /\ E!Serves /\ E!Delivers /\
            \A j \in Jobs : WF_vars(stage[j] # "heading" /\ Serve(j))

-----------------------------------------------------------------------------
\* Every variable the worker adds has its type.
TypeOK ==
    /\ streams \subseteq Jobs /\ closed \subseteq Jobs
    /\ stage \in [Jobs -> {"parked", "heading", "reading", "receiving", "writing", "returned"}]
    /\ read \in [Jobs -> 0 .. MaxTokens + 1] /\ seen \in [Jobs -> 0 .. MaxTokens + 1]
    /\ \A j \in Jobs : /\ Len(text[j]) <= MaxTokens
                       /\ stage[j] = "writing" => todo[j] # <<>>
                       /\ Len(lane[j]) <= MaxTokens + 4
    /\ final \in [Jobs -> BOOLEAN]

(***************************************************************************)
(* What a client may see: one of these answers, or a beginning of it.      *)
(***************************************************************************)
Numbered(j, n)  == [i \in 1 .. n |-> E!Token(j, i)]
ClosedAt(j, n)  == << Close(E!Done(j, n)), End >>
\* The last piece may be missing: the end can overtake it in the engine.
StreamAnswer(j, n, m) ==
    << Head200, Open >> \o [i \in 1 .. n |-> Chunk(E!Token(j, i))] \o ClosedAt(j, m)
BrokenStream(j, n) ==
    << Head200, Open >> \o [i \in 1 .. n |-> Chunk(E!Token(j, i))] \o << Error, End >>
WholeAnswer(j, n, m) ==
    Json(200, [kind |-> "whole", of |-> j, n |-> m, text |-> Numbered(j, n)])

Answers(j) ==
    IF j \in refused THEN { Refusal(503) }
    ELSE IF j \notin E!Accepted THEN { Refusal(400) }
    ELSE IF j \in streams
    THEN {StreamAnswer(j, n, m) : n \in 0 .. MaxTokens, m \in 0 .. MaxTokens}
            \cup {BrokenStream(j, n) : n \in 0 .. MaxTokens}
    ELSE {WholeAnswer(j, n, m) : n \in 0 .. MaxTokens, m \in 0 .. MaxTokens}
            \cup { Refusal(500) }
Counted(a) == \A i \in DOMAIN a :
                /\ a[i].kind = "close" => a[i].n \in {i - 3, i - 2}
                /\ a[i].kind = "whole" => a[i].n \in {Len(a[i].text), Len(a[i].text) + 1}

\* A response lane is one answer, of the status its request deserves: the
\* tokens of its own generation and no other, in order and from the first, at
\* most the last of those it counts missing, one ending and nothing after it.
LaneIsOneAnswer ==
    \A j \in Jobs : \E a \in Answers(j) : Counted(a) /\ IsPrefix(lane[j], a)

\* "A caller waiting on a response lane deserves an answer": serve returns
\* with a finished response whichever call failed, unless the client has left.
AnsweredUnlessGone ==
    \A j \in Jobs : stage[j] = "returned" /\ j \notin closed =>
        lane[j] # <<>> /\ Last(lane[j]) = End

\* The engine never closes a reply without having ended it.
NeverSilent == \A j \in Jobs : ~HearsNothing(j)

\* Once serve returns, and the ring may hand over another stream, its job no
\* longer counts against the engine, unless the client left halfway.
OccupancyIsClaimed ==
    {waiting[i] : i \in DOMAIN waiting} \cup serving \subseteq InHand \cup closed

\* The engine refuses a worker that claims no more than it has slots only
\* when clients that have left fill the queue.
RefusedOnlyByDepartures ==
    [][refused' # refused =>
         MaxWaiting < Claims + Cardinality({i \in DOMAIN waiting : waiting[i] \in gone})]_vars

\* Every stream claimed is let go of once its head has come, so that the worker
\* goes on claiming: request_timeout bounds the body, the engine the rest.
EveryClaimEnds == \A j \in Jobs : (stage[j] = "reading") ~> (stage[j] = "returned")

\* ingress.rs:151-153, "When the client goes away the stream is closed, which
\* is what makes the worker's next write fail and its generation cancel": serve
\* takes at most one more event for a streaming client that has left.  (A
\* buffered answer has no write before its end, and is generated in full.)
HangupCancels == \A j \in closed \cap streams : read[j] <= seen[j] + 1
=============================================================================
