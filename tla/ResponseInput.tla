---------------------------- MODULE ResponseInput ----------------------------
(***************************************************************************)
(* kodkod-openai/src/responses.rs over the messages of a conversation:     *)
(* the requests of the Responses API, and one streamed response as an      *)
(* accumulator.  How output is told and assembled is in ResponseOutput;    *)
(* the windows of the native compaction are in module Responses.           *)
(*                                                                         *)
(* The code's input is one list of items.  Here it is kept by message, as  *)
(* entries that the input is the concatenation of.  An item of the output  *)
(* has, besides the fields of ResponseOutput, the name and input of a call *)
(* and the model that encrypted a reasoning item.                          *)
(***************************************************************************)
EXTENDS Messages

CONSTANT MaxItems                            \* MAX_OUTPUT_ITEMS

Output == INSTANCE ResponseOutput

-----------------------------------------------------------------------------
(* Items of an output.                                                     *)

Message(id, parts) == [type |-> "message", id |-> id, call |-> Output!NoId, parts |-> parts]
FunctionCall(id, call, name, input) ==
    [type |-> "function_call", id |-> id, call |-> call, parts |-> <<>>,
     name |-> name, input |-> input]
Reasoning(id, of) ==
    [type |-> "reasoning", id |-> id, call |-> Output!NoId, parts |-> <<>>, of |-> of]

\* What a model may answer: reasoning is encrypted by the model.
Produced(output, model) ==
    /\ IsSequence(output)
    /\ \A n \in DOMAIN output :
          LET item == output[n]
          IN  CASE item.type = "message" ->
                      /\ item = Message(item.id, item.parts) /\ IsSequence(item.parts)
                      /\ \A j \in DOMAIN item.parts : IsSequence(item.parts[j])
                [] item.type = "function_call" ->
                      item = FunctionCall(item.id, item.call, item.name, item.input)
                [] OTHER -> item = Reasoning(item.id, model.id)

\* parse_output_with_profile
Parsed(output) ==
    LET calling == Select(output, {n \in DOMAIN output : output[n].type = "function_call"})
    IN  Assistant(Output!Joined(Output!Texts(output)),
                  [n \in DOMAIN calling |->
                      Call(calling[n].call, calling[n].name, calling[n].input)],
                  <<>>)
Usable(output) == Output!Known(output) /\ Output!Answers(Parsed(output))

-----------------------------------------------------------------------------
(* The continuation.                                                       *)

Checkpoint(model, messages, answer) ==
    [model |-> model.id, index |-> Len(messages) + 1,
     assistant |-> answer.message, output |-> answer.content]

\* validate_continuation_provenance
Provenance(checkpoints, model) ==
    \A n \in DOMAIN checkpoints :
        /\ checkpoints[n].model = model.id
        /\ n > 1 => checkpoints[n - 1].index < checkpoints[n].index
        /\ Output!Bounded(checkpoints[n].output)

\* validate_continuation_for_endpoint
Valid(messages, checkpoints, model) ==
    /\ Provenance(checkpoints, model)
    /\ \A n \in DOMAIN checkpoints :
          /\ checkpoints[n].index \in DOMAIN messages
          /\ messages[checkpoints[n].index] = checkpoints[n].assistant

\* supports_inline_document: two of the eighteen types.
Inline == {Pdf, PlainText}

\* validate_documents
Sendable(messages, model) ==
    \A document \in Documents(messages) :
        document.mime \in Inline /\ (document.mime = Pdf => model.vision)

-----------------------------------------------------------------------------
(* build_request_for_endpoint                                              *)

Input(text, images, documents) ==
    [type |-> "input", text |-> text, images |-> images, documents |-> documents]
CallOutput(result) ==
    [type |-> "function_call_output", call |-> result.call, outcome |-> result.outcome]
ImagesOf(call) == <<"images of", call>>

\* convert_tool_result: the images of a result follow it, as if the user showed them.
\* (An operator named X_Y is X with the mistake Y.)
ResultItems_Bare(result) == <<CallOutput(result)>>
ResultItems(result) ==
    <<CallOutput(result)>>
      \o (IF result.images = <<>> THEN <<>>
          ELSE <<Input(ImagesOf(result.call), result.images, <<>>)>>)

\* convert_message_with_profile
AssistantItems(message) ==
    (IF message.content = <<>> THEN <<>> ELSE <<Message(Output!NoId, <<message.content>>)>>)
      \o [n \in DOMAIN message.calls |->
             FunctionCall(Output!NoId, message.calls[n].id, message.calls[n].name,
                          message.calls[n].input)]
Items(message) ==
    CASE message.role = "system" -> <<Input(message.content, <<>>, <<>>)>>
      [] message.role = "user" -> <<Input(message.content, message.images, message.documents)>>
      [] message.role = "assistant" -> AssistantItems(message)
      [] message.role = "tool" -> ResultItems(message)

\* build_input_for_endpoint: a checkpoint's output stands for its message.
Entry(messages, checkpoints, i) ==
    LET at == {n \in DOMAIN checkpoints : checkpoints[n].index = i}
    IN  [role |-> messages[i].role,
         content |-> IF at = {} THEN Items(messages[i]) ELSE checkpoints[Max(at)].output]

Request(messages, checkpoints, tools) ==
    [entries |-> [i \in DOMAIN messages |-> Entry(messages, checkpoints, i)], tools |-> tools]

\* What the service understands of an entry: the message it was made from.
Read(entry) ==
    LET items == entry.content
        named == Select(items, {n \in DOMAIN items : /\ items[n].type = "input"
                                                     /\ items[n].text = ImagesOf(items[1].call)})
    IN  CASE entry.role = "system" -> System(items[1].text)
          [] entry.role = "user" -> User(items[1].text, items[1].images, items[1].documents)
          [] entry.role = "assistant" -> Parsed(items)
          [] entry.role = "tool" ->
                Result(items[1].call, items[1].outcome,
                       FlattenSeq([n \in DOMAIN named |-> named[n].images]))

Understood(request) == [n \in DOMAIN request.entries |-> Read(request.entries[n])]

-----------------------------------------------------------------------------
(* One response as an accumulator: `final` has the output once it is       *)
(* complete.  Each operator gives what becomes of an accumulator, and      *)
(* nothing where the code gives an error.                                  *)

Told(output) == Output!Told(output)

\* Texts without their index, and the loss of the last item where nothing else tells
\* of it, which only shorten the answer, are in module Responses.
Troubled(told) ==
    LET needed == {told[n] : n \in {k \in DOMAIN told :
                      told[k].kind = "delta" \/ k + 1 = Len(told)}}
    IN  {wire \in Output!Troubled(told) : needed \subseteq ToSet(wire)}

NoOutput == [items |-> Output!NoItems, part |-> <<>>, final |-> <<>>]

\* separate_text_part, handle_sse_event
Pushed(acc, event) ==
    CASE event.kind = "delta" ->
            {[acc |-> [acc EXCEPT !.part = Output!PartAfter(event, @)],
              text |-> Output!Preview(event, acc.part)]}
      [] event.kind = "done" /\ Output!Insertable(acc.items, event) ->
            {[acc |-> [acc EXCEPT !.items = Output!Inserted(@, event)], text |-> <<>>]}
      [] event.kind = "completed" ->
            {[acc |-> [acc EXCEPT !.final = <<output>>], text |-> <<>>] :
                output \in Output!FinalOutput(acc.items, event.output)}
      [] event.kind = "other" -> {[acc |-> acc, text |-> <<>>]}
      [] OTHER -> {}

Finished(acc) ==
    {[message |-> Parsed(output), content |-> output] :
        output \in {o \in ToSet(acc.final) : Usable(o)}}

\* The kind of failure an event is refused with.
Failure(event) ==
    CASE event.kind = "failed" -> "ProviderResponse"
      [] event.kind = "incomplete" -> "Incomplete"
      [] OTHER -> "Protocol"
=============================================================================
