----------------------------- MODULE Lifecycle ------------------------------
(***************************************************************************)
(* What the engine promises its callers, with no batches, meters or slots. *)
(* Jobs are taken up in the order they were submitted, at most MaxServing  *)
(* at a time, each once, and every one is let go of in the end; one is let *)
(* go of without being taken up only if it was cancelled, and only when    *)
(* its turn comes.  A caller is told the tokens of its own job in order,   *)
(* and how it ended once it has been let go of.  What is said last (the    *)
(* final token and the end) is owed for a while and may arrive in any      *)
(* order.  As in Engine, X_y is X with a mistake.                          *)
(***************************************************************************)
EXTENDS Naturals, Sequences, FiniteSets

CONSTANTS
    Jobs,        \* the submissions
    MaxServing,  \* jobs worked on at once
    MaxWaiting,  \* jobs that may wait
    MaxTokens    \* tokens of one reply

VARIABLES
    waiting,   \* the jobs not yet taken up, oldest first
    serving,   \* the jobs being worked on
    settled,   \* the jobs let go of
    refused,   \* the submissions turned away
    cancelled, \* the jobs nobody wants any more
    gone,      \* ... of which those nobody listens to
    reply,     \* what each caller has been sent
    owed       \* what it has yet to be sent, of a settled job

vars == <<waiting, serving, settled, refused, cancelled, gone, reply, owed>>

Token(j, n) == [kind |-> "token",  of |-> j, n |-> n]
Done(j, n)  == [kind |-> "done",   of |-> j, n |-> n]
Failed(j)   == [kind |-> "failed", of |-> j, n |-> 0]

Accepted == {waiting[i] : i \in DOMAIN waiting} \cup serving \cup settled
Said(j)  == Cardinality({i \in DOMAIN reply[j] : reply[j][i].kind = "token"})
Say(j, e) == reply' = [reply EXCEPT ![j] = Append(@, e)]
Owe_lost(j, words) == UNCHANGED owed
Owe(j, words) == owed' = [owed EXCEPT ![j] = IF j \in gone THEN {} ELSE words]

Init ==
    /\ waiting = <<>> /\ serving = {} /\ settled = {} /\ refused = {}
    /\ cancelled = {} /\ gone = {}
    /\ reply = [j \in Jobs |-> <<>>] /\ owed = [j \in Jobs |-> {}]

Submit(j) ==
    /\ j \notin Accepted \cup refused /\ Len(waiting) < MaxWaiting
    /\ waiting' = Append(waiting, j)
    /\ UNCHANGED <<serving, settled, refused, cancelled, gone, reply, owed>>

Refuse(j) ==
    /\ j \notin Accepted \cup refused /\ Len(waiting) >= MaxWaiting
    /\ refused' = refused \cup {j}
    /\ UNCHANGED <<waiting, serving, settled, cancelled, gone, reply, owed>>

Cancel(j) ==
    /\ j \in Accepted
    /\ cancelled' = cancelled \cup {j}
    /\ UNCHANGED <<waiting, serving, settled, refused, gone, reply, owed>>

\* The caller lets go of the reply.
Drop(j) ==
    /\ j \in Accepted
    /\ cancelled' = cancelled \cup {j} /\ gone' = gone \cup {j}
    /\ reply' = [reply EXCEPT ![j] = <<>>] /\ owed' = [owed EXCEPT ![j] = {}]
    /\ UNCHANGED <<waiting, serving, settled, refused>>

Start ==
    /\ waiting # <<>> /\ Cardinality(serving) < MaxServing
    /\ serving' = serving \cup {Head(waiting)}
    /\ waiting' = Tail(waiting)
    /\ UNCHANGED <<settled, refused, cancelled, gone, reply, owed>>

Skip ==
    /\ waiting # <<>> /\ Cardinality(serving) < MaxServing
    /\ Head(waiting) \in cancelled
    /\ settled' = settled \cup {Head(waiting)}
    /\ waiting' = Tail(waiting)
    /\ Owe(Head(waiting), {Done(Head(waiting), 0)})
    /\ UNCHANGED <<serving, refused, cancelled, gone, reply>>

Speak(j) ==
    /\ j \in serving \ gone /\ Said(j) < MaxTokens
    /\ Say(j, Token(j, Said(j) + 1))
    /\ UNCHANGED <<waiting, serving, settled, refused, cancelled, gone, owed>>

LeaveServing_late(j) == UNCHANGED serving
LeaveServing(j) == serving' = serving \ {j}

Finish(j) ==
    /\ j \in serving
    /\ LeaveServing(j)
    /\ settled' = settled \cup {j}
    /\ \/ Owe(j, {Done(j, Said(j))})
       \/ /\ Said(j) < MaxTokens
          /\ Owe(j, {Token(j, Said(j) + 1), Done(j, Said(j) + 1)})
       \/ Owe(j, {Failed(j)})
    /\ UNCHANGED <<waiting, refused, cancelled, gone, reply>>

Deliver(j) ==
    /\ \E e \in owed[j] : Say(j, e) /\ owed' = [owed EXCEPT ![j] = @ \ {e}]
    /\ UNCHANGED <<waiting, serving, settled, refused, cancelled, gone>>

\* The steps that are the engine's own, and those of its callers.
Work == Start \/ Skip \/ \E j \in Jobs : Speak(j) \/ Finish(j) \/ Deliver(j)
Next == Work \/ \E j \in Jobs : Submit(j) \/ Refuse(j) \/ Cancel(j) \/ Drop(j)

Spec == Init /\ [][Next]_vars

\* Every job is taken up and let go of, whatever callers do ...
Serves   == WF_vars(Start \/ Skip) /\ \A j \in Jobs : WF_vars(Finish(j))
LiveSpec == Spec /\ Serves
\* ... and callers that read what they are sent are sent all of it.
Delivers   == \A j \in Jobs : WF_vars(Deliver(j))
ReaderSpec == LiveSpec /\ Delivers
=============================================================================
