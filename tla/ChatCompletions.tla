-------------------------- MODULE ChatCompletions ---------------------------
(***************************************************************************)
(* kodkod-openai/src/convert.rs and completion.rs: requests of the Chat    *)
(* Completions API, and how the chunks of one streamed response become a   *)
(* message.  There is no continuation: what a model must see again of its  *)
(* reasoning is in the message.                                            *)
(*                                                                         *)
(* The arguments of a call are JSON text, sent in fragments by the index   *)
(* of the call, or, by older services, as one call without index or id.    *)
(* Indices start at 1.  Usage, limits in bytes and wording are left out.   *)
(***************************************************************************)
EXTENDS Messages

LegacyId == "legacy_function_call"
NoArguments == <<"{", "}">>

\* What a model may answer.
Produced(output) ==
    /\ output = Assistant(output.content, output.calls, output.reasoning)
    /\ IsSequence(output.calls)

-----------------------------------------------------------------------------
(* build_request_with_options                                              *)

\* `of` is the call whose images a user entry brings, if it brings any.
UserEntry(content, images, documents, of) ==
    [role |-> "user", content |-> content, images |-> images, documents |-> documents,
     of |-> of]

ToolEntry(result) == [role |-> "tool", call |-> result.call, outcome |-> result.outcome]
ImagesEntry(result) == UserEntry(<<>>, result.images, <<>>, <<result.call>>)

\* The images of a group of results follow the group, which nothing may interrupt.
\* (An operator named X_Y is X with the mistake Y.)
ResultEntries_OneByOne(results) ==
    FlattenSeq([n \in DOMAIN results |->
        IF results[n].images = <<>> THEN <<ToolEntry(results[n])>>
        ELSE <<ToolEntry(results[n]), ImagesEntry(results[n])>>])
ResultEntries(results) ==
    LET pictured == Select(results, {n \in DOMAIN results : results[n].images # <<>>})
    IN  [n \in DOMAIN results |-> ToolEntry(results[n])]
          \o [n \in DOMAIN pictured |-> ImagesEntry(pictured[n])]

Entry(messages, i) ==
    LET message == messages[i]
    IN  CASE StartsResults(messages, i) -> ResultEntries(ResultsFrom(messages, i))
          [] message.role = "user" ->
                <<UserEntry(message.content, message.images, message.documents, <<>>)>>
          [] message.role \in {"assistant", "system"} -> <<message>>
          [] OTHER -> <<>>

Request(messages, tools) ==
    [entries |-> FlattenSeq([i \in DOMAIN messages |-> Entry(messages, i)]),
     tools |-> tools]

\* validate_documents, where a service is told to take PDFs.
Sendable(messages, model) ==
    \A document \in Documents(messages) : model.pdf /\ model.vision /\ document.mime = Pdf

\* What the service understands: the images behind a group belong to its results,
\* and nothing stands between a call and its result but other results.
Understood(request) ==
    LET entries == request.entries
        Group(i) == {j \in i .. Len(entries) :
                        \A k \in i .. j : \/ entries[k].role = "tool"
                                          \/ entries[k].role = "user" /\ entries[k].of # <<>>}
        ImagesOf(i) ==
            FlattenSeq([n \in 1 .. Cardinality(Group(i)) |->
                LET entry == entries[i + n - 1]
                IN  IF entry.role = "user" /\ entry.of = <<entries[i].call>>
                    THEN entry.images ELSE <<>>])
        Read(i) ==
            CASE entries[i].role = "tool" /\ entries[i - 1].role \in {"assistant", "tool"} ->
                    <<Result(entries[i].call, entries[i].outcome, ImagesOf(i))>>
              [] entries[i].role = "user" /\ entries[i].of = <<>> ->
                    <<User(entries[i].content, entries[i].images, entries[i].documents)>>
              [] entries[i].role \in {"assistant", "system"} -> <<entries[i]>>
              [] OTHER -> <<>>
    IN  FlattenSeq([i \in DOMAIN entries |-> Read(i)])

-----------------------------------------------------------------------------
(* An answer in one body.                                                  *)

\* A service may refuse in words, and an older one calls one function.
Body(message) ==
    LET legacy == message.calls # <<>> /\ message.calls[1].id = LegacyId
        content == IF message.content = <<>> THEN <<>> ELSE <<message.content>>
        told == [content |-> content, refusal |-> <<>>, reasoning |-> message.reasoning,
                 calls |-> IF legacy THEN <<>> ELSE message.calls,
                 legacy |-> IF legacy THEN <<message.calls[1]>> ELSE <<>>]
    IN  {told, [told EXCEPT !.content = <<>>, !.refusal = content]}

\* parse_assistant_message: the reason to finish is not looked at.
Parsed(body) ==
    LET said == body.content \o body.refusal
        calls == IF body.calls = <<>> THEN body.legacy ELSE body.calls
    IN  Assistant(IF said = <<>> THEN <<>> ELSE said[1],
                  [n \in DOMAIN calls |->
                      Call(IF body.calls = <<>> THEN LegacyId ELSE calls[n].id,
                           calls[n].name, calls[n].input)],
                  body.reasoning)

-----------------------------------------------------------------------------
(* The chunks of a stream.                                                 *)

Fragment(i, id, name, arguments) ==
    [index |-> i, id |-> id, name |-> name, arguments |-> arguments]
Nothing == [kind |-> "chunk", text |-> <<>>, reasoning |-> <<>>, calls |-> <<>>,
            legacy |-> <<>>, reason |-> <<>>]
TextChunk(letter) == [Nothing EXCEPT !.text = <<letter>>]
ReasoningChunk(text) == [Nothing EXCEPT !.reasoning = <<text>>]
CallChunk(i, id, name, arguments) ==
    [Nothing EXCEPT !.calls = <<Fragment(i, id, name, arguments)>>]
LegacyChunk(name, arguments) ==
    [Nothing EXCEPT !.legacy = <<[name |-> name, arguments |-> arguments]>>]
ReasonChunk(reason) == [Nothing EXCEPT !.reason = <<reason>>]
Other(kind) == [kind |-> kind]

\* A call is announced, and its arguments, if it has any, follow letter by letter.
Announced(i, call) == CallChunk(i, <<call.id>>, <<call.name>>, <<>>)
Letters(call, Chunk(_)) ==
    LET letters == IF call.input = NoArguments THEN <<>> ELSE call.input
    IN  [n \in DOMAIN letters |-> Chunk(<<letters[n]>>)]
CallTold(i, call) ==
    IF call.id = LegacyId
    THEN <<LegacyChunk(<<call.name>>, <<>>)>>
           \o Letters(call, LAMBDA letters : LegacyChunk(<<>>, letters))
    ELSE <<Announced(i, call)>>
           \o Letters(call, LAMBDA letters : CallChunk(i, <<>>, <<>>, letters))

Ending(message) ==
    <<ReasonChunk(IF message.calls = <<>> THEN "stop" ELSE "tool_calls"),
      Other("usage"), Other("[DONE]")>>
Beginning(message) ==
    [n \in DOMAIN message.reasoning |-> ReasoningChunk(message.reasoning[n])]
      \o [n \in DOMAIN message.content |-> TextChunk(message.content[n])]
InTurn(message) ==
    Beginning(message)
      \o FlattenSeq([i \in DOMAIN message.calls |-> CallTold(i, message.calls[i])])
      \o Ending(message)
\* The calls side by side, letter for letter.
SideBySide(message) ==
    LET told == [i \in DOMAIN message.calls |-> CallTold(i, message.calls[i])]
        rounds == UNION {DOMAIN told[i] : i \in DOMAIN told}
    IN  Beginning(message)
          \o FlattenSeq([n \in rounds |->
                FlattenSeq([i \in DOMAIN told |->
                    IF n \in DOMAIN told[i] THEN <<told[i][n]>> ELSE <<>>])])
          \o Ending(message)
Told(message) ==
    {InTurn(message)} \cup (IF Len(message.calls) > 1 THEN {SideBySide(message)} ELSE {})

\* The same with one thing wrong that is not lost text or letters: an event too
\* many or with another reason, and what announces or ends told twice, never, or
\* too early.
Troubled(told) ==
    LET bare == {n \in DOMAIN told : told[n].kind = "chunk"
                     /\ (told[n].text # <<>> \/ told[n].reasoning # <<>>)}
        letter == bare \cup {n \in DOMAIN told : told[n].kind = "chunk"
                     /\ \/ told[n].calls # <<>> /\ told[n].calls[1].id = <<>>
                        \/ told[n].legacy # <<>> /\ told[n].legacy[1].name = <<>>}
    IN  {InsertAt(told, n, Other(kind)) :
            n \in DOMAIN told, kind \in {"error", "malformed", "[DONE]", "second choice"}}
        \cup {[told EXCEPT ![Len(told) - 2] = ReasonChunk(reason)] :
                 reason \in {"stop", "tool_calls", "length", "unheard of"}}
        \cup (UNION {{RemoveAt(told, n), InsertAt(told, n, told[n])} :
                        n \in DOMAIN told \ letter})
        \cup {[told EXCEPT ![n] = told[n + 1], ![n + 1] = told[n]] :
                 n \in {k \in 1 .. Len(told) - 1 : k \notin letter \/ k + 1 \notin letter}}

-----------------------------------------------------------------------------
(* ChatStreamAccumulator: each operator gives what becomes of an           *)
(* accumulator, and nothing where the code gives an error.                 *)

NoCall == [id |-> <<>>, name |-> <<>>, arguments |-> <<>>]
NoDelta == [text |-> <<>>, reasoning |-> <<>>, calls |-> <<>>, legacy |-> <<>>, reason |-> <<>>]

\* append_once: what is told again must be what was told.
Same(old, new) == new = <<>> \/ old \in {<<>>, new}
Once(old, new) == IF old = <<>> THEN new ELSE old

Agrees(call, fragment) == Same(call.id, fragment.id) /\ Same(call.name, fragment.name)
Extended(call, fragment) ==
    [id |-> Once(call.id, fragment.id), name |-> Once(call.name, fragment.name),
     arguments |-> call.arguments \o fragment.arguments]

PartAt(calls, i) == IF i \in DOMAIN calls THEN calls[i] ELSE NoCall

\* The calls by index: a function, with holes until all of them are announced.
WithFragment(calls, fragment) ==
    [i \in DOMAIN calls \cup {fragment.index} |->
        IF i = fragment.index THEN Extended(PartAt(calls, i), fragment) ELSE calls[i]]

WithLegacy(legacy, piece) ==
    <<Extended(IF legacy = <<>> THEN [NoCall EXCEPT !.id = <<LegacyId>>] ELSE legacy[1],
               [id |-> <<>>, name |-> piece.name, arguments |-> piece.arguments])>>

\* The fragments of a chunk are of different calls.
Accepts(acc, chunk) ==
    /\ Same(acc.reason, chunk.reason)
    /\ \A n \in DOMAIN chunk.calls :
          Agrees(PartAt(acc.calls, chunk.calls[n].index), chunk.calls[n])
    /\ \A n \in DOMAIN chunk.legacy :
          acc.legacy # <<>> => Same(acc.legacy[1].name, chunk.legacy[n].name)

Taken(acc, chunk) ==
    [text |-> acc.text \o chunk.text,
     reasoning |-> IF chunk.reasoning = <<>> THEN acc.reasoning
                   ELSE <<FlattenSeq(acc.reasoning \o chunk.reasoning)>>,
     calls |-> FoldLeft(WithFragment, acc.calls, chunk.calls),
     legacy |-> IF chunk.legacy = <<>> THEN acc.legacy
                ELSE WithLegacy(acc.legacy, chunk.legacy[1]),
     reason |-> Once(acc.reason, chunk.reason)]

\* A chunk without choices, which has the usage, is passed over.
Pushed(acc, event) ==
    CASE event.kind = "usage" -> {[acc |-> acc, text |-> <<>>]}
      [] event.kind = "chunk" ->
            {[acc |-> Taken(acc, chunk), text |-> chunk.text] :
                chunk \in {c \in {event} : Accepts(acc, c)}}
      [] OTHER -> {}

\* finish_tool_call
Whole(call) ==
    /\ call.id # <<>> /\ call.name # <<>>
    /\ call.arguments = <<>> \/ IsObject(call.arguments)
Made(call) ==
    Call(call.id[1], call.name[1],
         IF call.arguments = <<>> THEN NoArguments ELSE call.arguments)

Contiguous_Any(calls) == TRUE
Contiguous(calls) == \E n \in {0} \cup DOMAIN calls : n \in Nat /\ DOMAIN calls = 1 .. n

\* finish: at most one message.
Finished(acc) ==
    LET indices == InOrder(DOMAIN acc.calls, Max({0} \cup DOMAIN acc.calls))
        parts == [n \in DOMAIN indices |-> acc.calls[indices[n]]] \o acc.legacy
        calls == [n \in DOMAIN parts |-> Made(parts[n])]
    IN  IF /\ acc.reason # <<>>
           /\ Contiguous(acc.calls)
           /\ \A n \in DOMAIN parts : Whole(parts[n])
           /\ \/ acc.reason[1] = "stop" /\ parts = <<>>
              \/ acc.reason[1] \in {"tool_calls", "function_call"} /\ parts # <<>>
           /\ acc.text # <<>> \/ parts # <<>>
        THEN {Assistant(acc.text, calls, acc.reasoning)}
        ELSE {}
=============================================================================
