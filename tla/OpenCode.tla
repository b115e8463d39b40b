------------------------------ MODULE OpenCode ------------------------------
(***************************************************************************)
(* kodkod-providers/src/opencode.rs: one provider that hands each model to *)
(* the adapter of its protocol, seen by one host.  The host keeps a        *)
(* conversation, runs tools, and keeps the continuation that came with its *)
(* last answer; it switches between models, renews the continuation, and   *)
(* compacts.  The adapters are AnthropicMessages, ChatCompletions,         *)
(* GoogleContent and ResponseInput, whose native compaction this provider  *)
(* leaves off.                                                             *)
(*                                                                         *)
(* Every await and every yield is a place where the host may drop the      *)
(* call.  An observer of requests is attached, which only two of the       *)
(* adapters tell of them.  What the service sends is chosen when the       *)
(* response starts.  Limits in bytes, usage, request metadata and what the *)
(* credentials are, are left out.                                          *)
(***************************************************************************)
EXTENDS Messages

CONSTANTS
    Models,             \* [id, service, protocol, vision, pdf, reasoning]
    Service,            \* of the provider
    Tools,              \* the host's, as made by Messages!Tool
    Sayings,            \* what the user may say
    Outputs(_),         \* what each model may answer, in its own form
    MaxBlocks,          \* MAX_STREAM_CONTENT_BLOCKS
    MaxItems,           \* MAX_OUTPUT_ITEMS
    MaxMessages         \* bound: messages, but for results

ASSUME BoundsAssumption == {MaxBlocks, MaxItems, MaxMessages} \subseteq Nat

Protocols == {"Messages", "ChatCompletions", "GenerateContent", "Responses"}
ASSUME ModelsAssumption == \A m \in Models : m.protocol \in Protocols

ASSUME ToolsAssumption == \A tool \in Tools : IsSequence(tool.images)

ASSUME SayingsAssumption ==
    \A user \in Sayings : user = User(user.content, user.images, user.documents)

VARIABLES
    conversation,       \* host: its messages
    continuation,       \* host: OpenCodeContinuation
    contents,           \* history: what the service sent for each message, since
                        \* the continuation was fresh
    model,              \* host: the model it uses
    pc,                 \* where the call is; "idle" between calls
    kept,               \* what a compaction keeps; nothing in a completion
    attempt,            \* RequestAttemptGuard: "none" | "open" | "terminal"
    diagnostics,        \* what the observer saw of the latest request, until the
    outcome,            \* host turns to something else, and what its caller got
    response,           \* history: the output the model meant to send
    untroubled,         \* history: and told without fault
    wire,               \* events still to come
    acc,                \* the adapter's stream accumulator
    shown,              \* text deltas yielded
    answer              \* ProviderCompletion or ContextCompaction

host == <<conversation, continuation, contents, model>>
guard == <<attempt, diagnostics, outcome>>
stream == <<response, untroubled, wire, acc, shown>>
vars == <<host, pc, kept, guard, stream, answer>>

A == INSTANCE AnthropicMessages
C == INSTANCE ChatCompletions
G == INSTANCE GoogleContent
R == INSTANCE ResponseInput
Attempt == INSTANCE RequestAttempt WITH reported <- diagnostics

ASSUME OutputsAssumption ==
    \A m \in Models : \A output \in Outputs(m) :
        /\ m.protocol = "Messages" => A!Produced(output, m)
        /\ m.protocol = "ChatCompletions" => C!Produced(output)
        /\ m.protocol = "GenerateContent" => G!Produced(output, m)
        /\ m.protocol = "Responses" => R!Produced(output, m)

-----------------------------------------------------------------------------
(* Routing.                                                                *)

Protocol == model.protocol

\* Route(a, c, g, r): a of the Messages adapter, c of Chat, g of Google, r of Responses.
Route(a, c, g, r) ==
    CASE Protocol = "Messages" -> a
      [] Protocol = "ChatCompletions" -> c
      [] Protocol = "GenerateContent" -> g
      [] Protocol = "Responses" -> r

Fresh == [protocol |-> Protocol, checkpoints |-> <<>>]
NoAnswer == [conversation |-> <<>>, continuation |-> [protocol |-> "none", checkpoints |-> <<>>],
             contents |-> <<>>]

\* prepare_reasoning_replay, ensure_reasoning_content
Reasoned(message) ==
    IF model.reasoning /\ message.role = "assistant" /\ message.reasoning = <<>>
    THEN [message EXCEPT !.reasoning = << <<>> >>] ELSE message
Replay(messages, tools) ==
    IF tools = {} THEN messages ELSE [i \in DOMAIN messages |-> Reasoned(messages[i])]

SupportsDocument(mime) ==
    model.service = Service /\ model.pdf /\ model.vision /\ mime = Pdf

\* validate_documents, and each adapter's own check.
Sendable(messages) ==
    /\ \A document \in Documents(messages) : SupportsDocument(document.mime)
    /\ Route(A!Sendable(messages, model), C!Sendable(messages, model),
             G!Sendable(messages, model), R!Sendable(messages, model))

Valid(messages, c) ==
    /\ c.protocol = Protocol
    /\ Route(A!Valid(messages, c.checkpoints, model), TRUE,
             G!Valid(messages, c.checkpoints, model), R!Valid(messages, c.checkpoints, model))

\* The request that is made of messages: at most one.
Requests(messages, c, tools) ==
    IF ~Valid(messages, c) THEN {}
    ELSE Route({A!Request(messages, c.checkpoints, tools)},
               {C!Request(Replay(messages, tools), tools)},
               G!Request(messages, c.checkpoints, tools),
               {R!Request(messages, c.checkpoints, tools)})

\* complete_with_usage and complete_stream
Accepts(messages, c, tools) ==
    /\ model.service = Service
    /\ Sendable(messages)
    /\ Requests(messages, c, tools) # {}

-----------------------------------------------------------------------------
Init ==
    /\ conversation = <<>> /\ contents = <<>> /\ model \in Models
    /\ continuation = Fresh
    /\ pc = "idle" /\ kept = {} /\ attempt = "none" /\ Attempt!Init
    /\ response = <<>> /\ untroubled = FALSE /\ wire = <<>>
    /\ acc = <<>> /\ shown = <<>> /\ answer = NoAnswer

-----------------------------------------------------------------------------
(* The host between calls, which is the agent: a turn's tools run before   *)
(* anything else is said, and their results come in any order.             *)

Forgotten == attempt' = "none" /\ diagnostics' = <<>> /\ outcome' = "dropped"
Idle == pc = "idle" /\ Forgotten /\ UNCHANGED <<pc, kept, stream, answer>>
Room == Cardinality(DOMAIN conversation \ Has(conversation, "tool")) < MaxMessages
LastRole == IF conversation = <<>> THEN "none" ELSE Last(conversation).role

\* The calls of the last answer that have no result yet.
Pending ==
    LET i == Max({0} \cup Has(conversation, "assistant"))
        Answered(call) == \E j \in i + 1 .. Len(conversation) :
                             conversation[j].role = "tool" /\ conversation[j].call = call.id
    IN  IF i = 0 THEN {}
        ELSE {call \in ToSet(conversation[i].calls) : ~Answered(call)}

Pushed(message) ==
    /\ conversation' = Append(conversation, message)
    /\ contents' = Append(contents, <<>>)
    /\ UNCHANGED <<continuation, model>>

Say(user) ==
    /\ Idle /\ Room /\ Pending = {} /\ LastRole \in {"none", "assistant"}
    /\ Pushed(user)

RunTool ==
    /\ Idle
    /\ \E call \in Pending : \E result \in Executed(Tools, call, model.vision, FALSE) :
          Pushed(result)

Switch(other) ==
    /\ Idle /\ Pending = {} /\ other # model
    /\ model' = other
    /\ UNCHANGED <<conversation, continuation, contents>>

\* create_continuation
Renew ==
    /\ Idle /\ continuation # Fresh
    /\ continuation' = Fresh
    /\ contents' = [i \in DOMAIN contents |-> <<>>]
    /\ UNCHANGED <<conversation, model>>

-----------------------------------------------------------------------------
(* The request and its guard.                                              *)

Sent == IF model.vision THEN conversation ELSE WithoutImages(conversation)
Specs == SpecsFor(Tools, model.vision, FALSE)

\* (An operator named X_Y is X with the mistake Y.)
Reported_Again(diagnostic) ==
    IF attempt # "none" THEN Append(diagnostics, diagnostic) ELSE diagnostics
Reported(diagnostic) ==
    IF attempt = "open" THEN Append(diagnostics, diagnostic) ELSE diagnostics

\* The guard's end, in the step in which the caller learns of it.
Ended(diagnostic, how) ==
    /\ diagnostics' = Reported(diagnostic)
    /\ IF attempt = "open"
       THEN attempt' = "terminal" /\ outcome' = how
       ELSE UNCHANGED <<attempt, outcome>>
Finish(failure) == Ended(Attempt!Finished(failure), failure)

\* What a call has in hand goes with it.
Over ==
    /\ pc' = "idle" /\ kept' = {} /\ answer' = NoAnswer
    /\ response' = <<>> /\ untroubled' = FALSE /\ wire' = <<>>
    /\ acc' = <<>> /\ shown' = <<>>
Fail(failure) == Over /\ Finish(failure) /\ UNCHANGED host

Calling(keep) ==
    /\ pc = "idle" /\ Pending = {}
    /\ pc' = "credentials" /\ kept' = keep /\ Forgotten
    /\ UNCHANGED <<host, stream, answer>>

Complete == Room /\ LastRole \in {"user", "tool"} /\ Calling({})

\* compact_context: what is kept is the latest user message and a suffix that begins
\* with no result.  Google's adapter validates before it summarizes.
Compact(keep) ==
    /\ model.service = Service /\ continuation.protocol = Protocol
    /\ Route(TRUE, TRUE, Valid(conversation, continuation), TRUE)
    /\ Calling(keep)

Keeps ==
    LET latest == {Max({1} \cup Has(conversation, "user"))}
    IN  {latest \cup (tail .. Len(conversation)) :
            tail \in {t \in 2 .. Len(conversation) + 1 :
                         t \in DOMAIN conversation => conversation[t].role # "tool"}}
          \ {DOMAIN conversation}

Compacting == kept # {}
Dropped == DOMAIN conversation \ kept

\* No credentials, or a request that is refused: nothing was started.
Refused ==
    /\ pc = "credentials" /\ Over
    /\ UNCHANGED <<host, guard>>

\* Only these adapters tell the observer.
Observed == Protocol \in {"GenerateContent", "Responses"}

\* RequestAttemptGuard::start
Opened == attempt' = "open" /\ outcome' = "pending" /\ diagnostics' = <<Attempt!Started>>

Start ==
    /\ pc = "credentials" /\ pc' = "sending"
    /\ IF Compacting THEN model.service = Service /\ Sendable(Select(conversation, Dropped))
       ELSE Accepts(Sent, continuation, Specs)
    /\ IF Observed THEN Opened ELSE UNCHANGED guard
    /\ UNCHANGED <<host, kept, stream, answer>>

SendFails == pc = "sending" /\ Fail("Transport")

HeadersArrive(next) ==
    /\ pc = "sending" /\ pc' = next
    /\ diagnostics' = Reported(Attempt!Headers)
    /\ UNCHANGED <<host, kept, attempt, outcome, answer>>

Rejected == HeadersArrive("error body") /\ UNCHANGED stream
ErrorBodyRead == pc = "error body" /\ Fail("HttpStatus")

-----------------------------------------------------------------------------
(* The response, in one body or event by event.                            *)

Here == Len(conversation) + 1               \* where the answer will be

\* What of a response the conversation does not have.
Opaque(content) == Route(<<content>>, <<>>, <<content>>, <<content>>)

Completes(found) ==
    /\ pc' = "completed" /\ Finish("none")
    /\ answer' =
          [conversation |-> Append(conversation, found.message),
           continuation |->
               Route([continuation EXCEPT !.checkpoints =
                         Append(@, A!Checkpoint(model, conversation, found))],
                     continuation,
                     [continuation EXCEPT !.checkpoints =
                         Append(@, G!Checkpoint(model, conversation, found))],
                     [continuation EXCEPT !.checkpoints =
                         Append(@, R!Checkpoint(model, conversation, found))]),
           contents |-> Append(contents, Opaque(found.content))]
    /\ UNCHANGED <<host, kept, stream>>

\* The answer if there is one, or else the error.
Ends(found, failure) ==
    \/ found = {} /\ Fail(failure)
    \/ \E f \in found : Completes(f)

\* A response that is not streamed, or that a streaming request is answered with.
\* Those of the Responses protocol always are.
Bodies(output) ==
    Route({<<reason>> : reason \in {"end_turn", "tool_use", "max_tokens"}},
          {<<body>> : body \in C!Body(output)},
          {<<reason>> : reason \in {"STOP", "MAX_TOKENS"}}, {})

BodyArrives ==
    /\ ~Compacting /\ HeadersArrive("body")
    /\ \E output \in Outputs(model) : response' = output /\ wire' \in Bodies(output)
    /\ untroubled' = TRUE /\ shown' = <<>> /\ UNCHANGED acc

BodyRead ==
    /\ pc = "body" /\ ~Compacting
    /\ Ends(Route(A!Answers(response, wire[1]),
                  {[message |-> Reasoned(C!Parsed(wire[1])), content |-> <<>>]},
                  G!Answers(response, wire[1], Here), {}),
            IF wire[1] = "MAX_TOKENS" THEN "Incomplete" ELSE "Protocol")

\* The body cannot be read; that of a summary may also be refused for what it says.
BodyFails ==
    /\ pc = "body"
    /\ \/ Fail("Transport") \/ Fail("Protocol")
       \/ Compacting /\ Fail("Incomplete")
       \/ Compacting /\ Protocol = "Responses" /\ Fail("ProviderResponse")

StreamStarts ==
    /\ ~Compacting /\ HeadersArrive("stream")
    /\ \E output \in Outputs(model) :
          /\ response' = output
          /\ \E told \in Route({A!Told(output)}, C!Told(output), G!Told(output),
                              R!Told(output)) :
                \/ wire' = told /\ untroubled' = TRUE
                \/ /\ untroubled' = FALSE
                   /\ wire' \in Route(A!Troubled(told), C!Troubled(told), G!Troubled(told),
                                    R!Troubled(told))
    /\ acc' = Route(A!NoBlocks, C!NoDelta, G!NoParts, R!NoOutput) /\ shown' = <<>>

\* What the adapter makes of the accumulator at the end.
Final(a) ==
    Route(A!Finished(a),
          {[message |-> Reasoned(message), content |-> <<>>] : message \in C!Finished(a)},
          G!Finished(a, Here),
          R!Finished(a))
FinalFailure(a) == IF a.reason = <<"MAX_TOKENS">> THEN "Incomplete" ELSE "Protocol"

EventFailure(event) ==
    IF Protocol = "Responses" THEN R!Failure(event)
    ELSE IF event.kind = "error" THEN "HttpStatus" ELSE "Protocol"

\* A response of the Messages or the Responses protocol ends with the event that
\* finishes it.
EventRead ==
    /\ pc = "stream" /\ wire # <<>>
    /\ ~(Protocol = "ChatCompletions" /\ Head(wire).kind = "[DONE]")
    /\ LET pushed == Route(A!Pushed(acc, Head(wire)), C!Pushed(acc, Head(wire)),
                           G!Pushed(acc, Head(wire)), R!Pushed(acc, Head(wire)))
       IN  \/ pushed = {} /\ Fail(EventFailure(Head(wire)))
           \/ \E step \in pushed :
                 IF Route(step.acc.finished, FALSE, FALSE, step.acc.final # <<>>)
                 THEN Ends(Final(step.acc), "Protocol")
                 ELSE /\ acc' = step.acc /\ shown' = shown \o step.text /\ wire' = Tail(wire)
                      /\ UNCHANGED <<host, pc, kept, guard, response, untroubled, answer>>

\* One of Chat Completions ends with its mark,
MarkRead ==
    /\ pc = "stream" /\ wire # <<>>
    /\ Protocol = "ChatCompletions" /\ Head(wire).kind = "[DONE]"
    /\ Ends(Final(acc), "Protocol")

\* and one of Google with the connection, which for the others ends too soon.  Of a
\* response that is told without fault some may be missing.
ConnectionEnds ==
    /\ pc = "stream"
    /\ wire = <<>> \/ untroubled
    /\ IF Protocol = "GenerateContent" THEN Ends(Final(acc), FinalFailure(acc))
       ELSE Fail("Protocol")

\* The connection, or the decoder, fails.
StreamBreaks == pc = "stream" /\ (Fail("Transport") \/ Fail("Protocol"))

-----------------------------------------------------------------------------
(* compact_context: the summary stands where the first message stood that  *)
(* it replaces (module Compaction).                                        *)

Summary == Assistant(<<"summary">>, <<>>, <<>>)
Retained ==
    [i \in kept |-> Rank(kept, i) + (IF i > Min(Dropped) THEN 1 ELSE 0)]

SummaryArrives == Compacting /\ HeadersArrive("body") /\ UNCHANGED stream

Compacted ==
    LET before == {i \in kept : i < Min(Dropped)}
        Lineage(n) == {i \in kept : Retained[i] = n}
    IN  /\ pc = "body" /\ Compacting
        /\ pc' = "completed" /\ Finish("none")
        /\ answer' =
              [conversation |-> Select(conversation, before) \o <<Summary>>
                                 \o Select(conversation, kept \ before),
               continuation |->
                   Route(Fresh, Fresh,
                         [continuation EXCEPT !.checkpoints = G!Rebased(@, Retained)],
                         Fresh),
               contents |->
                   [n \in 1 .. Cardinality(kept) + 1 |->
                       IF Protocol = "GenerateContent" /\ Lineage(n) # {}
                       THEN contents[CHOOSE i \in Lineage(n) : TRUE] ELSE <<>>]]
        /\ UNCHANGED <<host, kept, stream>>

\* The request is answered, but not with a summary.
NoSummary ==
    /\ pc = "body" /\ Compacting
    /\ Over /\ Finish("none")
    /\ UNCHANGED host

-----------------------------------------------------------------------------
(* The caller takes the answer and the continuation together, or neither.  *)

Adopt ==
    /\ pc = "completed" /\ Over /\ Forgotten
    /\ conversation' = answer.conversation /\ continuation' = answer.continuation
    /\ contents' = answer.contents
    /\ UNCHANGED model

Drop ==
    /\ pc # "idle" /\ Over
    /\ Ended(Attempt!Abandoned, "dropped")
    /\ UNCHANGED host

Next ==
    \/ \E user \in Sayings : Say(user)
    \/ RunTool \/ Renew
    \/ \E other \in Models : Switch(other)
    \/ Complete \/ \E keep \in Keeps : Compact(keep)
    \/ Refused \/ Start \/ SendFails \/ Rejected \/ ErrorBodyRead
    \/ BodyArrives \/ BodyRead \/ BodyFails
    \/ StreamStarts \/ EventRead \/ MarkRead \/ ConnectionEnds \/ StreamBreaks
    \/ SummaryArrives \/ Compacted \/ NoSummary
    \/ Adopt \/ Drop

Spec == Init /\ [][Next]_vars

-----------------------------------------------------------------------------
(* What the provider promises.                                             *)

\* Every request that is reported over at all is so exactly once, with what its
\* caller learns and no later than that, whichever adapter takes the next one.
AttemptSpec == Attempt!Spec

\* The answer is the model's response, its opaque parts included: fragments of its
\* calls are put together whichever way they are interleaved, and a response that is
\* told short, twice or out of order is refused wherever the protocol lets it be
\* noticed (lost text apart).  A preview reads like the message.  Calls of one name
\* that all have the empty id are not kept apart in a stream (lib.rs:1127).
AnswerIsTheResponse ==
    pc = "completed" /\ ~Compacting /\ (Protocol = "GenerateContent" => G!Apart(response)) =>
        LET meant == Route(A!Parsed(response), Reasoned(response), G!Parsed(response, Here),
                           R!Parsed(response))
            got == Last(answer.conversation)
        IN  /\ got = meant
            /\ Last(answer.contents) = Opaque(response)
            /\ shown # <<>> => shown = got.content

\* How messages read, whichever way a call is named: a result answers the nearest
\* call of its id before it.
CallOf(messages, i) ==
    LET makers == {j \in Has(messages, "assistant") :
                      j < i /\ \E k \in DOMAIN messages[j].calls :
                                  messages[j].calls[k].id = messages[i].call}
        calls == messages[Max(makers)].calls
    IN  <<Max(makers), Min({k \in DOMAIN calls : calls[k].id = messages[i].call})>>
Reading(messages) ==
    LET Reads(i) ==
            CASE messages[i].role = "assistant" ->
                    [said |-> messages[i].content,
                     calls |-> [k \in DOMAIN messages[i].calls |->
                                  <<messages[i].calls[k].name, messages[i].calls[k].input>>]]
              [] messages[i].role = "tool" ->
                    [answers |-> CallOf(messages, i), outcome |-> messages[i].outcome,
                     images |-> messages[i].images]
              [] OTHER -> messages[i]
    IN  [i \in DOMAIN messages |-> Reads(i)]

\* "parallel_same_name_calls_without_native_ids_stay_distinct_and_replay_by_ordinal"
\* (kodkod-google/src/lib.rs:1992): results of calls of one reply that are sent under
\* one name and without an id come in the order of those calls.
ReplayedByOrdinal ==
    pc = "sending" /\ ~Compacting /\ Protocol = "GenerateContent" =>
        \A i, j \in Has(Sent, "tool") :
            LET Found(n) == G!FoundCall(Sent, n, continuation.checkpoints)
                first == CallOf(Sent, i)
                second == CallOf(Sent, j)
            IN  i < j /\ first[1] = second[1] /\ Found(i) = Found(j)
                  /\ (\A found \in Found(i) : found.id = <<>>)
                => first[2] < second[2]

\* What the service understands of a request is the conversation, each result and each
\* image with its call, whichever adapter writes it, whichever made the messages and
\* in whichever order the tools were done: except where Google's service has nothing
\* but the order to go by, and it is another (ReplayedByOrdinal).
RequestTellsConversation ==
    pc = "sending" /\ ~Compacting /\ ReplayedByOrdinal =>
        \A request \in Requests(Sent, continuation, Specs) :
            Reading(Sent) = Reading(Route(A!Understood(request), C!Understood(request),
                                          G!Understood(request), R!Understood(request)))

\* Who made what the host cannot read of a block, if there is any such thing in it.
MadeBy(block) ==
    CASE block.type \in {"redacted_thinking", "reasoning"} -> {block.of}
      [] "signature" \in DOMAIN block -> ToSet(block.signature)
      [] OTHER -> {}

\* README.md:39, "opaque thinking-block replay": an answer is replayed as it came, by
\* the index it has by now; and no model is shown what another one signed.
ThoughtsReplayed ==
    pc = "sending" /\ ~Compacting /\ Protocol # "ChatCompletions" =>
        \A request \in Requests(Sent, continuation, Specs) :
            LET said == Select(request.entries, Has(request.entries, "assistant"))
                own == InOrder(Has(conversation, "assistant"), Len(conversation))
            IN  \A n \in DOMAIN own :
                    /\ contents[own[n]] # <<>> => said[n].content = contents[own[n]][1]
                    /\ \A b \in DOMAIN said[n].content :
                          MadeBy(said[n].content[b]) \subseteq {model.id}

\* An output of more than MAX_OUTPUT_ITEMS items is never accepted (module Responses).
Replayable == Protocol = "Responses" => \A output \in ToSet(Last(answer.contents)) :
                                            Len(output) <= MaxItems

\* "Opaque signed assistant parts which Gemini requires on later turns"
\* (kodkod-google/src/lib.rs:74): the continuation that comes with an answer or a
\* compaction is one the same model accepts with the conversation that comes with it,
\* when the tools it called have answered.
EveryAnswerContinues ==
    pc = "completed" /\ Replayable =>
        LET calls == Last(answer.conversation).calls
            results == [k \in DOMAIN calls |-> Result(calls[k].id, "success", <<>>)]
        IN  Requests(answer.conversation \o (IF Compacting THEN <<>> ELSE results),
                     answer.continuation, Specs) # {}

\* It is, for all adapters and after any switches and compactions, unless the
\* continuation holds a call of Google's that came with the empty id.
Answerable == Protocol = "GenerateContent" =>
                  \A checkpoint \in ToSet(answer.continuation.checkpoints) :
                      G!Named(checkpoint.content)
NextRequestAccepted == Answerable => EveryAnswerContinues
=============================================================================
