-------------------------------- MODULE Page --------------------------------
(***************************************************************************)
(* The chat page of examples/serve/ui/index.html: `ask`, from the message  *)
(* it sends to the answer it shows, over the wire format of Protocol.  The *)
(* engine answers whatever it may answer to the request it is given; the   *)
(* network hands over the response in pieces of any length and may fail;   *)
(* the person may stop it at any time.                                     *)
(*                                                                         *)
(* As in Engine, X_y is X with a mistake.                                  *)
(***************************************************************************)
EXTENDS FiniteSets, Protocol

CONSTANTS
    Limits,      \* what the page's limit field may hold
    Defaults,    \* RequestDefaults
    Texts,       \* the texts a token may have
    MostTokens,  \* bound on a reply
    MostTurns    \* bound on the questions asked

ASSUME PageAssumption ==
    /\ Limits \subseteq Nat /\ MostTokens \in Nat /\ MostTurns \in Nat
    /\ Texts \subseteq Seq(Chars)

VARIABLES
    messages,  \* the conversation
    asking,    \* where ask is: no, fetching, reading
    request,   \* the body it has sent
    wire,      \* what of the response it has not read
    partial,   \* the byte TextDecoder holds back
    buffer,    \* the tail that is no whole frame yet
    text,      \* the answer shown
    note,      \* the line under it
    reply,     \* what the engine answered
    trouble,   \* whether the server or the network failed since asked
    given      \* every answer as it was given, and to which messages

pageVars == <<messages, asking, request, partial, buffer, text, note>>
vars == <<pageVars, wire, reply, trouble, given>>

NoReply == [tokens |-> <<>>, stop |-> "None", prompt |-> 0, counted |-> 0]
NoNote  == [kind |-> "none"]
Whole(r) == FlattenSeq(r.tokens)

Init ==
    /\ messages = <<>> /\ asking = "no" /\ request = <<>>
    /\ wire = <<>> /\ partial = <<>> /\ buffer = <<>>
    /\ text = <<>> /\ note = NoNote
    /\ reply = NoReply /\ trouble = FALSE /\ given = {}

(***************************************************************************)
(* ask, up to fetch.                                                       *)
(***************************************************************************)
Says(role, content) == [role |-> role, content |-> content]

\* The page sends plain strings, streams, and wants usage.
Body(history, limit) ==
    [ messages |-> [i \in DOMAIN history |-> Says(history[i].role, Plain(history[i].content))],
      max_tokens |-> {limit}, max_completion_tokens |-> {},
      think |-> {}, enable_thinking |-> {} ]

Questions == {i \in DOMAIN messages : messages[i].role = "user"}

Submit(limit) ==
    /\ asking = "no" /\ Cardinality(Questions) < MostTurns
    /\ messages' = Append(messages, Says("user", <<"a">>))
    /\ request' = Body(messages', limit)
    /\ asking' = "fetching"
    /\ text' = <<>> /\ note' = NoNote /\ partial' = <<>> /\ buffer' = <<>>
    /\ wire' = <<>> /\ reply' = NoReply /\ trouble' = FALSE
    /\ UNCHANGED given

(***************************************************************************)
(* The server.                                                             *)
(***************************************************************************)
Asked == ToGenerateRequest(request, Defaults)

\* What the engine may answer.  It ends for the limit only once that is
\* reached, and counts a last piece that its end has overtaken.
Replies ==
    {r \in [tokens : UNION {[1 .. n -> Texts] : n \in 0 .. MostTokens},
            stop : {"EndOfGeneration", "Limit", "ContextFull", "Cancelled", "Failed"},
            prompt : {Len(Asked.messages)}, counted : 0 .. MostTokens + 1] :
        /\ r.counted \in {Len(r.tokens), Len(r.tokens) + 1}
        /\ r.stop = "Limit" => r.counted >= Asked.max_tokens
        /\ r.stop = "Failed" => r.counted = Len(r.tokens)}

Respond ==
    /\ asking = "fetching" /\ asking' = "reading"
    /\ reply' \in Replies
    /\ wire' = Streamed(reply')
    /\ given' = given \cup
         (IF reply'.stop = "Failed" THEN {} ELSE {[to |-> Asked.messages, text |-> Whole(reply')]})
    /\ UNCHANGED <<messages, request, partial, buffer, text, note, trouble>>

(***************************************************************************)
(* ask, from the response on.                                              *)
(***************************************************************************)
\* The first blank line of the buffer, if it has one.
Cuts == {i \in 1 .. Len(buffer) - 1 : buffer[i].is = "nl" /\ buffer[i + 1].is = "nl"}
Cut  == CHOOSE i \in Cuts : \A j \in Cuts : i <= j

\* ask awaits the network only when it has taken every whole frame.
Awaiting == asking \in {"fetching", "reading"} /\ Cuts = {}

\* The catch, and the finally.
Caught_kept(why) ==
    /\ asking' = "no" /\ note' = [kind |-> why] /\ wire' = <<>>
    /\ messages' = IF text = <<>> THEN messages ELSE Append(messages, Says("assistant", text))
    /\ UNCHANGED <<request, partial, text, reply, given>>
Caught(why) ==
    /\ asking' = "no" /\ note' = [kind |-> why] /\ wire' = <<>>
    /\ UNCHANGED <<messages, request, partial, text, reply, given>>

\* A status that is not OK, or a connection that breaks.
Broken ==
    /\ Awaiting /\ Caught("failed")
    /\ trouble' = TRUE /\ UNCHANGED buffer

Stop ==
    /\ Awaiting /\ Caught("cancelled")
    /\ UNCHANGED <<trouble, buffer>>

\* TextDecoder, streaming: the first byte of two waits for the second.
Held_none(bytes) == <<>>
Held(bytes) == IF bytes # <<>> /\ Last(bytes).is = "hi" THEN << Last(bytes) >> ELSE <<>>
Decoded(bytes, held) ==
    LET whole == SubSeq(bytes, 1, Len(bytes) - Len(held))
    IN  FlattenSeq([i \in DOMAIN whole |->
                      IF whole[i].is # "hi" THEN << whole[i] >>
                      ELSE IF i = Len(whole) THEN << Unit("?") >> ELSE <<>>])

Read(n) ==
    /\ asking = "reading" /\ Awaiting
    /\ LET bytes == partial \o SubSeq(wire, 1, n)
       IN  partial' = Held(bytes) /\ buffer' = buffer \o Decoded(bytes, Held(bytes))
    /\ wire' = SubSeq(wire, n + 1, Len(wire))
    /\ UNCHANGED <<messages, asking, request, text, note, reply, trouble, given>>

AfterCut_same(buf, cut) == SubSeq(buf, cut, Len(buf))
AfterCut_none(buf, cut) == <<>>
AfterCut(buf, cut) == SubSeq(buf, cut + 2, Len(buf))

\* JSON.parse, of a string that is one object.
Parses(data)  == Len(data) >= 2 /\ data[1].is = "{" /\ Last(data).is = "}"
Content(data) ==
    LET inner == SubSeq(data, 2, Len(data) - 1)
    IN  [i \in DOMAIN inner |-> IF inner[i].is = "\\n" THEN "nl"
                               ELSE IF inner[i].is = "lo" THEN "acute"
                               ELSE inner[i].is]

\* One chunk: its text is added, its finish reason noted.
Show(data) ==
    LET fields == data[1].fields
    IN  /\ text' = text \o Content(data)
        /\ note' = IF fields.finish = {} THEN note
                   ELSE [kind |-> "finished", why |-> UnwrapOr(fields.finish, ""),
                         used |-> UnwrapOr(fields.usage, NewUsage(0, 0))]
        /\ UNCHANGED <<messages, asking, request, wire, partial, reply, given>>

TakeFrame ==
    /\ asking = "reading" /\ Cuts # {}
    /\ buffer' = AfterCut(buffer, Cut)
    /\ UNCHANGED trouble
    /\ LET frame   == SubSeq(buffer, 1, Cut - 1)
           data    == Tail(frame)
           carries == frame # <<>> /\ frame[1].is = "data: " /\ data # << Unit("[DONE]") >>
       IN  \/ ~carries /\ UNCHANGED <<messages, asking, request, text, note, wire, partial, reply, given>>
           \/ carries /\ Parses(data) /\ ~data[1].fields.error /\ Show(data)
           \/ carries /\ (Parses(data) => data[1].fields.error) /\ Caught("failed")

\* The response has ended.  If it ends early, and no error says so, the page
\* cannot tell: what was shown is then the answer it was given.
ReadDone ==
    /\ asking = "reading" /\ Awaiting /\ asking' = "no"
    /\ messages' = IF text = <<>> THEN messages ELSE Append(messages, Says("assistant", text))
    /\ wire' = <<>>
    /\ given' = IF wire = <<>> THEN given ELSE given \cup {[to |-> messages, text |-> text]}
    /\ UNCHANGED <<request, partial, buffer, text, note, reply, trouble>>

Reading == TakeFrame \/ ReadDone \/ \E n \in 1 .. Len(wire) : Read(n)

Next == (\E limit \in Limits : Submit(limit)) \/ Respond \/ Broken \/ Stop \/ Reading

Spec == Init /\ [][Next]_vars

\* The server answers, the network delivers, and the page runs.
LiveSpec == Spec /\ WF_vars(Respond) /\ WF_vars(Reading)

-----------------------------------------------------------------------------
\* Every variable has its type; no character is replaced on the way.
TypeOK ==
    /\ asking \in {"no", "fetching", "reading"} /\ trouble \in BOOLEAN
    /\ \A i \in DOMAIN messages : messages[i].role \in {"user", "assistant"}
    /\ Len(partial) <= 1 /\ \A i \in DOMAIN text : text[i] \in Chars
    /\ note.kind \in {"none", "cancelled", "failed", "finished"}

\* protocol.rs:253-254, the two shapes "cannot drift", and index.html:149-150,
\* no frame is lost or taken twice however the response is cut into reads: the
\* text shown is a beginning of the reply, and once it is noted as finished
\* text, reason and usage are those a buffered answer would have.
ShownIsTheReply ==
    /\ IsPrefix(text, Whole(reply))
    /\ note.kind = "finished" =>
         [content |-> text, finish |-> note.why, usage |-> note.used] =
            Completion(Whole(reply), reply.stop, NewUsage(reply.prompt, reply.counted))

\* What the page says of an answer is what happened: "hit the token limit" means
\* the limit typed into the page or the end of the context, "failed" a failure.
NoteIsTrue ==
    /\ note.kind = "failed" => trouble \/ reply.stop = "Failed"
    /\ note.kind = "finished" /\ note.why = "length" =>
         reply.stop = "ContextFull" \/ \A limit \in request.max_tokens : note.used.completion >= limit

\* What the page sends back as the assistant's words in later turns is, word
\* for word, the whole reply to the messages before it: nothing that was
\* stopped, failed, broken off or half read.  (All of a response that ended
\* early without an error counts as a reply here: the page, which looks for no
\* finish_reason, keeps it.)
HistoryIsReplies ==
    \A i \in DOMAIN messages : messages[i].role = "assistant" =>
        [to |-> SubSeq(messages, 1, i - 1), text |-> messages[i].content] \in given

\* The page can be used again: every question is answered or given up.
AskEnds == (asking = "fetching") ~> (asking = "no")
=============================================================================
