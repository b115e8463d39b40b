------------------------- MODULE AnthropicMessages --------------------------
(***************************************************************************)
(* kodkod-anthropic/src/lib.rs: requests of the Messages API, and how the  *)
(* events of one streamed response become content blocks and a message.    *)
(*                                                                         *)
(* A block is [type, ...] as on the wire.  Thinking blocks are opaque:     *)
(* signed by the model that thought them, and replayed in place of the     *)
(* assistant message they came with.  Indices start at 1.  The input of a  *)
(* tool is JSON text, sent in fragments.  Byte limits, usage and the       *)
(* wording of errors are left out.                                         *)
(***************************************************************************)
EXTENDS Messages

CONSTANT MaxBlocks                           \* MAX_STREAM_CONTENT_BLOCKS

-----------------------------------------------------------------------------
(* Content blocks.                                                         *)

Text(text) == [type |-> "text", text |-> text]
ToolUse(id, name, input) == [type |-> "tool_use", id |-> id, name |-> name, input |-> input]
Thinking(text, signature) == [type |-> "thinking", thinking |-> text, signature |-> signature]
Attached(type, of) == [type |-> type, of |-> of]
ToolResult(result) ==
    [type |-> "tool_result", call |-> result.call, outcome |-> result.outcome]

NoInput == <<"{", "}">>

\* What a model may answer: it signs its own thoughts.
Produced(output, model) ==
    /\ IsSequence(output)
    /\ \A n \in DOMAIN output :
          LET block == output[n]
          IN  CASE block.type = "text" -> block = Text(block.text) /\ IsSequence(block.text)
                [] block.type = "tool_use" ->
                      /\ block = ToolUse(block.id, block.name, block.input)
                      /\ IsSequence(block.input)
                [] block.type = "thinking" ->
                      /\ block = Thinking(block.thinking, block.signature)
                      /\ IsSequence(block.thinking) /\ block.signature \in Seq({model.id})
                [] OTHER -> block = Attached("redacted_thinking", model.id)

BlockTypes == {"text", "tool_use", "thinking", "redacted_thinking"}

OfType(content, type) == Select(content, {n \in DOMAIN content : content[n].type = type})

\* parse_content: texts are joined, thinking is passed over, and nothing is a message too.
Parsed(content) ==
    LET texts == OfType(content, "text")
        uses == OfType(content, "tool_use")
    IN  Assistant(FlattenSeq([n \in DOMAIN texts |-> texts[n].text]),
                  [n \in DOMAIN uses |-> Call(uses[n].id, uses[n].name, uses[n].input)],
                  <<>>)

\* validate_stop_reason
Stops(reason, message) ==
    \/ reason \in {"end_turn", "stop_sequence"} /\ message.calls = <<>>
    \/ reason = "tool_use" /\ message.calls # <<>>

\* The answer to a whole body, or to the blocks of a stream: at most one.
Answers(content, reason) ==
    IF Stops(reason, Parsed(content)) /\ \A n \in DOMAIN content : content[n].type \in BlockTypes
    THEN {[message |-> Parsed(content), content |-> content]} ELSE {}

-----------------------------------------------------------------------------
(* The continuation.                                                       *)

Checkpoint(model, messages, answer) ==
    [model |-> model.id, index |-> Len(messages) + 1,
     assistant |-> answer.message, content |-> answer.content]

\* validate_continuation.  (An operator named X_Y is X with the mistake Y.)
Valid_AnyModel(messages, checkpoints, model) ==
    \A n \in DOMAIN checkpoints :
        /\ checkpoints[n].index \in DOMAIN messages
        /\ messages[checkpoints[n].index] = checkpoints[n].assistant
Valid(messages, checkpoints, model) ==
    \A n \in DOMAIN checkpoints :
        /\ checkpoints[n].model = model.id
        /\ n > 1 => checkpoints[n - 1].index < checkpoints[n].index
        /\ checkpoints[n].index \in DOMAIN messages
        /\ messages[checkpoints[n].index] = checkpoints[n].assistant

\* validate_documents, and a document that says it is text must be.
Sendable(messages, model) ==
    \A document \in Documents(messages) :
        \/ document.mime = Pdf /\ model.vision
        \/ document.mime = PlainText /\ document.utf8

-----------------------------------------------------------------------------
(* build_request                                                           *)

Images(images) == [n \in DOMAIN images |-> Attached("image", images[n])]

UserEntry(user) ==
    [role |-> "user",
     content |-> [n \in DOMAIN user.documents |-> Attached("document", user.documents[n])]
                   \o Images(user.images) \o <<Text(user.content)>>]

\* The results of consecutive calls are one user entry, each with its images.
ResultsEntry(results) ==
    [role |-> "user",
     content |-> FlattenSeq([n \in DOMAIN results |->
                     <<ToolResult(results[n])>> \o Images(results[n].images)])]

AssistantEntry(message) ==
    [role |-> "assistant",
     content |-> (IF message.content = <<>> THEN <<>> ELSE <<Text(message.content)>>)
                   \o [n \in DOMAIN message.calls |->
                          ToolUse(message.calls[n].id, message.calls[n].name,
                                  message.calls[n].input)]]

Entry(messages, checkpoints, i) ==
    LET at == {n \in DOMAIN checkpoints : checkpoints[n].index = i}
    IN  CASE StartsResults(messages, i) -> <<ResultsEntry(ResultsFrom(messages, i))>>
          [] messages[i].role = "user" -> <<UserEntry(messages[i])>>
          [] messages[i].role = "assistant" /\ at = {} -> <<AssistantEntry(messages[i])>>
          [] messages[i].role = "assistant" /\ at # {} ->
                <<[role |-> "assistant", content |-> checkpoints[Min(at)].content]>>
          [] OTHER -> <<>>

Request(messages, checkpoints, tools) ==
    [system |-> Systems(messages),
     entries |-> FlattenSeq([i \in DOMAIN messages |-> Entry(messages, checkpoints, i)]),
     tools |-> tools]

\* What the service understands of an entry: the messages it was made from.
Read(entry) ==
    LET block == entry.content
        Of(type) == LET some == OfType(block, type) IN [n \in DOMAIN some |-> some[n].of]
        ImagesBehind(n) == [k \in {j \in 1 .. Len(block) - n :
                                      \A l \in n + 1 .. n + j : block[l].type = "image"}
                               |-> block[n + k].of]
        results == {n \in DOMAIN block : block[n].type = "tool_result"}
        inOrder == InOrder(results, Len(block))
    IN  IF entry.role = "assistant" THEN <<Parsed(block)>>
        ELSE IF results # {}
        THEN [n \in DOMAIN inOrder |->
                 Result(block[inOrder[n]].call, block[inOrder[n]].outcome,
                        ImagesBehind(inOrder[n]))]
        ELSE <<User(Last(block).text, Of("image"), Of("document"))>>

Understood(request) ==
    FlattenSeq([n \in DOMAIN request.entries |-> Read(request.entries[n])])

-----------------------------------------------------------------------------
(* The events of a stream.                                                 *)

BlockStart(i, block) == [kind |-> "content_block_start", index |-> i, block |-> block]
BlockDelta(i, field, text) ==
    [kind |-> "content_block_delta", index |-> i, field |-> field, text |-> text]
BlockStop(i) == [kind |-> "content_block_stop", index |-> i]
MessageDelta(reason) == [kind |-> "message_delta", reason |-> reason]
Other(kind) == [kind |-> kind]

Letters(i, field, text) == [n \in DOMAIN text |-> BlockDelta(i, field, <<text[n]>>)]

\* A service that tells a response block by block.
BlockTold(i, block) ==
    CASE block.type = "text" ->
            <<BlockStart(i, Text(<<>>))>> \o Letters(i, "text", block.text) \o <<BlockStop(i)>>
      [] block.type = "tool_use" ->
            <<BlockStart(i, [block EXCEPT !.input = NoInput])>>
              \o (IF block.input = NoInput THEN <<>> ELSE Letters(i, "input", block.input))
              \o <<BlockStop(i)>>
      [] block.type = "thinking" ->
            <<BlockStart(i, Thinking(<<>>, <<>>))>> \o Letters(i, "thinking", block.thinking)
              \o <<BlockDelta(i, "signature", block.signature), BlockStop(i)>>
      [] OTHER -> <<BlockStart(i, block), BlockStop(i)>>
Told(content) ==
    <<Other("message_start")>>
      \o FlattenSeq([i \in DOMAIN content |-> BlockTold(i, content[i])])
      \o <<MessageDelta(IF Parsed(content).calls = <<>> THEN "end_turn" ELSE "tool_use"),
           Other("message_stop")>>

\* The same with one thing wrong that is not lost text: an event too many or with
\* another reason, and whatever is not a delta told twice, never, or too early.
Troubled(told) ==
    LET delta == {n \in DOMAIN told : told[n].kind = "content_block_delta"}
        Reason(n, reason) == [told EXCEPT ![n] = MessageDelta(reason)]
    IN  {InsertAt(told, n, Other(kind)) :
            n \in DOMAIN told, kind \in {"ping", "error", "unknown", "message_stop"}}
        \cup {Reason(Len(told) - 1, reason) :
                 reason \in {"stop_sequence", "tool_use", "end_turn", "max_tokens", "refusal"}}
        \cup (UNION {{RemoveAt(told, n), InsertAt(told, n, told[n])} :
                        n \in DOMAIN told \ delta})
        \cup {[told EXCEPT ![n] = told[n + 1], ![n + 1] = told[n]] :
                 n \in {k \in 1 .. Len(told) - 1 : k \notin delta \/ k + 1 \notin delta}}

-----------------------------------------------------------------------------
(* AnthropicStreamAccumulator: each operator gives what becomes of an      *)
(* accumulator, and nothing where the code gives an error.                 *)

NoBlocks == [blocks |-> <<>>, reason |-> <<>>, finished |-> FALSE]

NoEffect(acc) == {[acc |-> acc, text |-> <<>>]}
Updated(acc, i, block) == NoEffect([acc EXCEPT !.blocks[i] = block])

Started(acc, event) ==
    IF /\ event.index = Len(acc.blocks) + 1 /\ Len(acc.blocks) < MaxBlocks
       /\ event.block.type \in BlockTypes
    THEN NoEffect([acc EXCEPT !.blocks =
                      Append(@, [value |-> event.block, partial |-> <<>>, stopped |-> FALSE])])
    ELSE {}

Open(acc, i) == i \in DOMAIN acc.blocks /\ ~acc.blocks[i].stopped

\* Only the text of a text block is shown.
Grown(acc, event) ==
    LET i == event.index
        type == acc.blocks[i].value.type
        old == acc.blocks[i]
    IN  CASE ~Open(acc, i) -> {}
          [] Open(acc, i) /\ event.field = "text" /\ type = "text" ->
                {[acc |-> [acc EXCEPT !.blocks[i].value.text = @ \o event.text],
                  text |-> event.text]}
          [] Open(acc, i) /\ event.field = "input" /\ type = "tool_use" ->
                Updated(acc, i, [old EXCEPT !.partial = @ \o event.text])
          [] Open(acc, i) /\ event.field = "thinking" /\ type = "thinking" ->
                Updated(acc, i, [old EXCEPT !.value.thinking = @ \o event.text])
          [] Open(acc, i) /\ event.field = "signature" /\ type = "thinking" ->
                Updated(acc, i, [old EXCEPT !.value.signature = @ \o event.text])
          [] OTHER -> {}

\* The fragments must be JSON by then; without any the input stays that of the start.
Stopped(acc, event) ==
    LET i == event.index
        block == acc.blocks[i]
    IN  IF ~Open(acc, i) THEN {}
        ELSE IF block.partial = <<>> THEN Updated(acc, i, [block EXCEPT !.stopped = TRUE])
        ELSE IF IsObject(block.partial)
        THEN Updated(acc, i, [value |-> [block.value EXCEPT !.input = block.partial],
                              partial |-> <<>>, stopped |-> TRUE])
        ELSE {}

ReasonGiven(acc, event) ==
    IF acc.reason \in {<<>>, <<event.reason>>}
    THEN NoEffect([acc EXCEPT !.reason = <<event.reason>>]) ELSE {}

MessageStopped_AnyBlock(acc) == NoEffect([acc EXCEPT !.finished = TRUE])
MessageStopped(acc) ==
    IF \A i \in DOMAIN acc.blocks : acc.blocks[i].stopped
    THEN NoEffect([acc EXCEPT !.finished = TRUE]) ELSE {}

Pushed(acc, event) ==
    CASE event.kind = "content_block_start" -> Started(acc, event)
      [] event.kind = "content_block_delta" -> Grown(acc, event)
      [] event.kind = "content_block_stop" -> Stopped(acc, event)
      [] event.kind = "message_delta" -> ReasonGiven(acc, event)
      [] event.kind = "message_stop" -> MessageStopped(acc)
      [] event.kind \in {"message_start", "ping"} -> NoEffect(acc)
      [] OTHER -> {}

\* finish
Finished(acc) ==
    IF acc.reason = <<>> THEN {}
    ELSE Answers([i \in DOMAIN acc.blocks |-> acc.blocks[i].value], Head(acc.reason))
=============================================================================
