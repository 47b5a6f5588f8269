------------------------------ MODULE Protocol ------------------------------
(***************************************************************************)
(* The wire format of llm-worker/src/protocol.rs: what a request asks of   *)
(* the engine, and what a reply is as server-sent events or as one body.   *)
(*                                                                         *)
(* An optional field is a set of at most one value.  A text is a sequence  *)
(* of the characters in Chars, of which "nl" must be escaped in JSON and   *)
(* "acute" takes two bytes.  The wire is a sequence of units: a unit is a  *)
(* byte of a text, a line feed, or a run of bytes that never holds one.    *)
(*                                                                         *)
(* As in Engine, X_y is X with a mistake.                                  *)
(***************************************************************************)
EXTENDS Naturals, Sequences, SequencesExt

Chars == {"a", "nl", "acute"}

(***************************************************************************)
(* Requests.                                                               *)
(***************************************************************************)
Or(one, other)      == IF one # {} THEN one ELSE other
UnwrapOr(one, else) == IF one = {} THEN else ELSE CHOOSE x \in one : TRUE

\* A content is a sequence of parts; a plain string is one part, of text.
Plain(text) == << [kind |-> "text", text |-> {text}] >>
ContentText(parts) ==
    FlattenSeq([i \in DOMAIN parts |->
                  IF parts[i].kind = "text" THEN UnwrapOr(parts[i].text, <<>>) ELSE <<>>])

MaxTokens_newOnly(request, defaults) ==
    UnwrapOr(request.max_completion_tokens, defaults.max_tokens)
MaxTokens(request, defaults) ==
    UnwrapOr(Or(request.max_completion_tokens, request.max_tokens), defaults.max_tokens)

ToGenerateRequest(request, defaults) ==
    [ messages   |-> [i \in DOMAIN request.messages |->
                        [role    |-> request.messages[i].role,
                         content |-> ContentText(request.messages[i].content)]],
      max_tokens |-> MaxTokens(request, defaults),
      think      |-> UnwrapOr(Or(request.think, request.enable_thinking), defaults.think) ]

(***************************************************************************)
(* Replies.                                                                *)
(***************************************************************************)
FinishReason(stop) == IF stop \in {"Limit", "ContextFull"} THEN "length" ELSE "stop"

NewUsage(prompt, completion) ==
    [prompt |-> prompt, completion |-> completion, total |-> prompt + completion]

Unit(is)    == [is |-> is]
LineFeed    == Unit("nl")
ErrorBody   == [error |-> TRUE, finish |-> {}, usage |-> {}]
Chunk(finish, usage) == [error |-> FALSE, finish |-> finish, usage |-> usage]

\* A character of a JSON string, in UTF-8.
Escaped(c) ==
    IF c = "nl" THEN << Unit("\\n") >>
    ELSE IF c = "acute" THEN << Unit("hi"), Unit("lo") >>
    ELSE << Unit(c) >>
Bytes(text) == FlattenSeq([i \in DOMAIN text |-> Escaped(text[i])])

Sse(fields, text) ==
    << Unit("data: "), [is |-> "{", fields |-> fields] >> \o Bytes(text)
        \o << Unit("}"), LineFeed, LineFeed >>
DoneFrame == << Unit("data: "), Unit("[DONE]"), LineFeed, LineFeed >>

StreamOpen               == Sse(Chunk({}, {}), <<>>)
StreamToken(text)        == Sse(Chunk({}, {}), text)
StreamClose(stop, usage) == Sse(Chunk({FinishReason(stop)}, usage), <<>>) \o DoneFrame
ErrorFrame               == Sse(ErrorBody, <<>>) \o DoneFrame

\* The buffered shape of the same reply.
Completion(text, stop, usage) ==
    [content |-> text, finish |-> FinishReason(stop), usage |-> usage]

\* Everything `serve` writes to the lane of a streamed reply.
Streamed(reply) ==
    StreamOpen \o FlattenSeq([i \in DOMAIN reply.tokens |-> StreamToken(reply.tokens[i])])
        \o IF reply.stop = "Failed" THEN ErrorFrame
           ELSE StreamClose(reply.stop, {NewUsage(reply.prompt, reply.counted)})
=============================================================================
