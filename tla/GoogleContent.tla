--------------------------- MODULE GoogleContent ----------------------------
(***************************************************************************)
(* kodkod-google/src/lib.rs: requests of generateContent, and how the      *)
(* parts of one response, streamed or not, become a message.               *)
(*                                                                         *)
(* A part may be signed: a thought signature of the model that made it.    *)
(* The parts of an answer are replayed as they came, in place of the       *)
(* message.  A function call may have no id: the message gives it one, and *)
(* the request does not tell the service of it.  The arguments of a call   *)
(* are the sequence of their fields, no two of one key.  Options are       *)
(* sequences of at most one.  Usage, limits in bytes and the wording of    *)
(* errors are left out.                                                    *)
(***************************************************************************)
EXTENDS Messages, TLC

-----------------------------------------------------------------------------
(* Parts.                                                                  *)

Text(text) == [type |-> "text", text |-> text, thought |-> FALSE, signature |-> <<>>]
Thought(text) == [type |-> "text", text |-> text, thought |-> TRUE, signature |-> <<>>]
FunctionCall(id, name, args) ==
    [type |-> "functionCall", id |-> id, name |-> name, args |-> args, signature |-> <<>>]
FunctionResponse(id, name, outcome) ==
    [type |-> "functionResponse", id |-> id, name |-> name, outcome |-> outcome,
     signature |-> <<>>]
InlineData(of) == [type |-> "inlineData", of |-> of, signature |-> <<>>]
Bare == [type |-> "bare", signature |-> <<>>]           \* nothing but a signature
Code == [type |-> "executableCode", signature |-> <<>>] \* and others that are refused
Signed(part, signature) == [part EXCEPT !.signature = <<signature>>]

\* What a model may answer: it signs its own parts.
Produced(output, model) ==
    /\ IsSequence(output)
    /\ \A n \in DOMAIN output :
          LET part == output[n]
              unsigned == [part EXCEPT !.signature = <<>>]
          IN  /\ part.signature \in {<<>>, <<model.id>>}
              /\ CASE part.type = "text" -> unsigned \in {Text(part.text), Thought(part.text)}
                   [] part.type = "functionCall" ->
                         /\ unsigned = FunctionCall(part.id, part.name, part.args)
                         /\ part.id # <<>> => part.id = <<part.id[1]>>
                   [] OTHER -> unsigned = Bare

OfType(parts, type) == Select(parts, {n \in DOMAIN parts : parts[n].type = type})
IsCall(part) == part.type = "functionCall"

\* No call of a message has an id which says nothing.
Named(parts) == \A n \in DOMAIN parts : IsCall(parts[n]) => parts[n].id # <<"">>

\* fallback_tool_call_id: of the k-th call of the message at index i.
FallbackId(i, k) == "google-" \o ToString(i) \o "-" \o ToString(k)

\* parse_parts, for a message at index i.
Parsed(parts, i) ==
    LET Said(thought) ==
            LET texts == Select(parts, {n \in DOMAIN parts : /\ parts[n].type = "text"
                                                             /\ parts[n].thought = thought})
            IN  FlattenSeq([n \in DOMAIN texts |-> texts[n].text])
        calls == OfType(parts, "functionCall")
    IN  Assistant(Said(FALSE),
                  [k \in DOMAIN calls |->
                      Call(IF calls[k].id \in {<<>>, <<"">>} THEN FallbackId(i, k) ELSE calls[k].id[1],
                           calls[k].name, calls[k].args)],
                  IF Said(TRUE) = <<>> THEN <<>> ELSE <<Said(TRUE)>>)

Known(part) == part.type \in {"text", "functionCall", "bare"} \/ part.signature # <<>>

\* The answer at index i, to a whole body or to the parts of a stream: at most one.
Answers(parts, reason, i) ==
    LET message == Parsed(parts, i)
    IN  IF /\ reason = "STOP" /\ \A n \in DOMAIN parts : Known(parts[n])
           /\ message.content # <<>> \/ message.calls # <<>>
        THEN {[message |-> message, content |-> parts]} ELSE {}

-----------------------------------------------------------------------------
(* The continuation.                                                       *)

\* checkpoint_google
Checkpoint(model, messages, answer) ==
    [model |-> model.id, index |-> Len(messages) + 1,
     assistant |-> answer.message, content |-> answer.content]

\* validate_continuation
Valid(messages, checkpoints, model) ==
    \A n \in DOMAIN checkpoints :
        /\ checkpoints[n].model = model.id
        /\ n > 1 => checkpoints[n - 1].index < checkpoints[n].index
        /\ checkpoints[n].index \in DOMAIN messages
        /\ messages[checkpoints[n].index] = checkpoints[n].assistant

\* compact_context: `retained` is the new index of every message kept, by the old.
\* (An operator named X_Y is X with the mistake Y.)
Rebased_InPlace(checkpoints, retained) ==
    Select(checkpoints, {n \in DOMAIN checkpoints : checkpoints[n].index \in DOMAIN retained})
Rebased(checkpoints, retained) ==
    LET kept == Rebased_InPlace(checkpoints, retained)
    IN  [n \in DOMAIN kept |-> [kept[n] EXCEPT !.index = retained[@]]]

\* validate_documents
Sendable(messages, model) ==
    /\ \A i \in Has(messages, "user") : messages[i].images # <<>> => model.vision
    /\ \A document \in Documents(messages) :
          /\ model.pdf /\ model.vision
          /\ document.mime = Pdf

-----------------------------------------------------------------------------
(* build_request                                                           *)

Inline(items) == [n \in DOMAIN items |-> InlineData(items[n])]

UserParts(user) ==
    (IF user.content # <<>> \/ (user.images = <<>> /\ user.documents = <<>>)
     THEN <<Text(user.content)>> ELSE <<>>)
      \o Inline(user.images) \o Inline(user.documents)

AssistantParts(message) ==
    (IF message.content = <<>> THEN <<>> ELSE <<Text(message.content)>>)
      \o [k \in DOMAIN message.calls |->
             FunctionCall(<<message.calls[k].id>>, message.calls[k].name,
                          message.calls[k].input)]

At(checkpoints, i) == {n \in DOMAIN checkpoints : checkpoints[n].index = i}

\* The assistant message that the call with this id, answered by message i, is looked
\* for in: the nearest before it.
Makers(messages, i, id) ==
    {j \in Has(messages, "assistant") :
        j < i /\ \E k \in DOMAIN messages[j].calls : messages[j].calls[k].id = id}
Maker(messages, i, id) == Max(Makers(messages, i, id))

\* find_tool_call: the name of the call that message i answers and its id, if the
\* service gave it one.  What was signed must be the same call; one that came with the
\* empty id, in place of which the message has another, is not.
FoundCall(messages, i, checkpoints) ==
    LET id == messages[i].call
        j == Maker(messages, i, id)
        calls == messages[j].calls
        k == Min({l \in DOMAIN calls : calls[l].id = id})
        at == At(checkpoints, j)
        signed == OfType(checkpoints[Min(at)].content, "functionCall")
    IN  IF Makers(messages, i, id) = {} THEN {}
        ELSE IF at = {} THEN {[name |-> calls[k].name, id |-> <<id>>]}
        ELSE IF /\ k \in DOMAIN signed /\ signed[k].name = calls[k].name
                /\ signed[k].id \in {<<>>, <<id>>}
        THEN {[name |-> calls[k].name, id |-> signed[k].id]}
        ELSE {}

\* convert_tool_result
ResultParts(messages, i, checkpoints) ==
    LET found == CHOOSE f \in FoundCall(messages, i, checkpoints) : TRUE
    IN  <<FunctionResponse(found.id, found.name, messages[i].outcome)>>
          \o Inline(messages[i].images)

Entry(messages, checkpoints, i) ==
    LET at == At(checkpoints, i)
        message == messages[i]
        results == ResultsFrom(messages, i)
    IN  CASE StartsResults(messages, i) ->
                <<[role |-> "user",
                   content |-> FlattenSeq([n \in DOMAIN results |->
                                  ResultParts(messages, i + n - 1, checkpoints)])]>>
          [] message.role = "user" -> <<[role |-> "user", content |-> UserParts(message)]>>
          [] message.role = "assistant" /\ at = {} ->
                <<[role |-> "assistant", content |-> AssistantParts(message)]>>
          [] message.role = "assistant" /\ at # {} ->
                <<[role |-> "assistant", content |-> checkpoints[Min(at)].content]>>
          [] OTHER -> <<>>

\* At most one: a result must answer a call, and there must be something to say.
Request(messages, checkpoints, tools) ==
    IF /\ \A i \in Has(messages, "tool") : FoundCall(messages, i, checkpoints) # {}
       /\ \E i \in DOMAIN messages : messages[i].role # "system"
    THEN {[system |-> Systems(messages),
           entries |-> FlattenSeq([i \in DOMAIN messages |-> Entry(messages, checkpoints, i)]),
           tools |-> tools]}
    ELSE {}

\* What the service understands of entry n.  A response without an id answers the
\* calls of its name that have none, in order.
Read(entries, n) ==
    LET parts == entries[n].content
        Responses(p) == {q \in 1 .. p : parts[q].type = "functionResponse"}
        calls == OfType(entries[n - 1].content, "functionCall")
        nameless(name) == InOrder({k \in DOMAIN calls :
                              calls[k].name = name /\ calls[k].id = <<>>}, Len(calls))
        Earlier(p) == {q \in Responses(p) : parts[q].name = parts[p].name /\ parts[q].id = <<>>}
        Answered(p) ==
            IF parts[p].id # <<>> THEN parts[p].id[1]
            ELSE FallbackId(n - 1, nameless(parts[p].name)[Cardinality(Earlier(p))])
        Behind(p) == {q \in p + 1 .. Len(parts) :
                         \A l \in p + 1 .. q : parts[l].type = "inlineData"}
        Told(places) == LET inOrder == InOrder(places, Len(parts))
                        IN  [l \in DOMAIN inOrder |-> parts[inOrder[l]].of]
        results == InOrder(Responses(Len(parts)), Len(parts))
    IN  IF entries[n].role = "assistant" THEN <<Parsed(parts, n)>>
        ELSE IF results # <<>>
        THEN [l \in DOMAIN results |->
                 Result(Answered(results[l]), parts[results[l]].outcome,
                        Told(Behind(results[l])))]
        ELSE LET Of(IsDocument(_)) ==
                     Told({q \in DOMAIN parts : /\ parts[q].type = "inlineData"
                                                /\ IsDocument(parts[q].of)})
             IN  <<User(FlattenSeq([l \in DOMAIN OfType(parts, "text") |->
                                       OfType(parts, "text")[l].text]),
                        Of(LAMBDA of : "mime" \notin DOMAIN of),
                        Of(LAMBDA of : "mime" \in DOMAIN of))>>

Understood(request) ==
    FlattenSeq([n \in DOMAIN request.entries |-> Read(request.entries, n)])

-----------------------------------------------------------------------------
(* The chunks of a stream.                                                 *)

Chunk(parts, reason) == [kind |-> "chunk", parts |-> parts, reason |-> reason]
Other(kind) == [kind |-> kind]

\* A call with an id may come in two pieces, the signature with the second.
Pieces(part) ==
    IF IsCall(part) /\ part.id # <<>> /\ part.args # <<>>
    THEN <<Chunk(<<[part EXCEPT !.args = <<Head(@)>>, !.signature = <<>>]>>, <<>>),
           Chunk(<<[part EXCEPT !.args = Tail(@)]>>, <<>>)>>
    ELSE <<Chunk(<<part>>, <<>>)>>

\* The reason comes with the last part, or after it with the usage.
Told(parts) ==
    LET bare == [n \in DOMAIN parts |-> Chunk(<<parts[n]>>, <<>>)]
    IN  {FlattenSeq([n \in DOMAIN parts |-> Pieces(parts[n])])
            \o <<Chunk(<<>>, <<"STOP">>), Other("usage")>>,
         [bare EXCEPT ![Len(bare)] = [@ EXCEPT !.reason = <<"STOP">>]]}

WithReason(told, n, reason) == [told EXCEPT ![n].reason = reason]

\* The same with one thing wrong that is not a lost part or one without id told
\* twice: an event too many or with another reason, the reason told twice, never or
\* too early, and a call with an id told twice.
Troubled(told) ==
    LET final == {n \in DOMAIN told : told[n].kind = "chunk" /\ told[n].reason # <<>>}
        named == {n \in DOMAIN told : told[n].kind = "chunk" /\ told[n].parts # <<>>
                     /\ IsCall(told[n].parts[1]) /\ told[n].parts[1].id # <<>>}
    IN  {InsertAt(told, n, Other(kind)) :
            n \in DOMAIN told, kind \in {"[DONE]", "error", "blocked", "malformed", "usage"}}
        \cup {InsertAt(told, n, Chunk(<<Code>>, <<>>)) : n \in DOMAIN told}
        \cup {WithReason(told, n, reason) :
                 n \in final, reason \in {<<>>, <<"MAX_TOKENS">>, <<"SAFETY">>, <<"unheard of">>}}
        \cup {InsertAt(told, n, told[n]) : n \in named \cup final}
        \cup {[told EXCEPT ![n - 1] = told[n], ![n] = told[n - 1]] : n \in final \ {1}}

-----------------------------------------------------------------------------
(* GoogleStreamAccumulator: each operator gives what becomes of an         *)
(* accumulator, and nothing where the code gives an error.                 *)

NoParts == [parts |-> <<>>, reason |-> <<>>]

\* append_stream_part: a call told in pieces is one call, by name and id; its
\* arguments are merged and the rest is that of the latest piece.
SameCall(part, incoming) ==
    IsCall(part) /\ IsCall(incoming) /\ incoming.id # <<>>
      /\ part.name = incoming.name /\ part.id = incoming.id
Merged(part, incoming) ==
    [part EXCEPT !.args = @ \o Select(incoming.args, {n \in DOMAIN incoming.args :
                                          incoming.args[n] \notin ToSet(part.args)}),
                 !.signature = IF incoming.signature = <<>> THEN @ ELSE incoming.signature]
Apart(parts) ==
    \A n, l \in DOMAIN parts : n # l => ~SameCall(parts[n], parts[l])
WithPart_Always(parts, incoming) == Append(parts, incoming)
WithPart(parts, incoming) ==
    LET same == {n \in DOMAIN parts : SameCall(parts[n], incoming)}
    IN  IF same = {} THEN Append(parts, incoming)
        ELSE [parts EXCEPT ![Min(same)] = Merged(@, incoming)]

\* Only text that is no thought is shown.
Shown(parts) == Parsed(parts, 1).content

\* A chunk without candidates, which has the usage, is passed over.
Pushed(acc, event) ==
    CASE event.kind \in {"[DONE]", "usage"} -> {[acc |-> acc, text |-> <<>>]}
      [] event.kind = "chunk" ->
            IF /\ acc.reason # <<>> => event.parts = <<>> /\ event.reason = <<>>
            THEN {[acc |-> [parts |-> FoldLeft(WithPart, acc.parts, event.parts),
                            reason |-> acc.reason \o event.reason],
                   text |-> Shown(event.parts)]}
            ELSE {}
      [] OTHER -> {}

\* finish, for a message at index i.
Finished(acc, i) == IF acc.reason = <<>> THEN {} ELSE Answers(acc.parts, acc.reason[1], i)
=============================================================================
