------------------------------ MODULE Responses ------------------------------
(***************************************************************************)
(* kodkod-openai/src/responses.rs: the stateless adapter of the Responses  *)
(* API, seen by one host that keeps a conversation and the continuation    *)
(* that came with its last answer.  Opaque output is replayed in place of  *)
(* the assistant messages made from it, and a native compaction replaces   *)
(* the conversation by a window that only its own route can read.          *)
(*                                                                         *)
(* Every await and every yield is a place where the host may drop the      *)
(* call: the dropped RequestAttemptGuard then reports the attempt.  An     *)
(* observer of requests is attached.  What the server sends is chosen when *)
(* the response starts; chunks and their decoding are left to whoever      *)
(* decodes them, and may fail before any event.  Request metadata,         *)
(* document limits and byte limits are left out.                           *)
(***************************************************************************)
EXTENDS ResponseOutput

CONSTANTS
    Routes,             \* [model, profile, endpoint, native]: configured adapters
    Sayings,            \* what a user may say
    Letters,            \* what texts are made of
    Outputs,            \* what the model may answer
    MaxMessages         \* bound: messages of the transcript

ASSUME BoundsAssumption == MaxMessages \in Nat
ASSUME OutputsAssumption ==
    \A output \in Outputs :
        /\ output \in Seq(Range(output))
        /\ \A i \in DOMAIN output : output[i].parts \in Seq(Seq(Letters))

VARIABLES
    conversation,       \* host: the messages it sends
    continuation,       \* host: ResponsesContinuation
    transcript,         \* history: every message, as last edited
    route,              \* host: the adapter it uses
    pc,                 \* where the call is; "idle" between calls
    operation,          \* "completion" | "compaction"
    attempt,            \* RequestAttemptGuard: "none" | "open" | "terminal"
    diagnostics,        \* what the observer saw of the latest request
    outcome,            \* what its caller got
    response,           \* history: the output the model meant to send
    untroubled,         \* history: and told without fault
    wire,               \* events still to come
    items,              \* OutputAccumulator
    part,               \* the previous text part
    shown,              \* text deltas yielded
    answer              \* ProviderCompletion or ContextCompaction

host == <<conversation, continuation, transcript, route>>
guard == <<attempt, diagnostics, outcome>>
stream == <<response, untroubled, wire, items, part, shown>>
vars == <<host, pc, operation, guard, stream, answer>>

Attempt == INSTANCE RequestAttempt WITH reported <- diagnostics

-----------------------------------------------------------------------------
(* Continuations.                                                          *)

NoWindow == [tells |-> <<>>, model |-> "none", profile |-> "none", endpoint |-> "none"]
Fresh == [checkpoints |-> <<>>, window |-> NoWindow]
NoAnswer == [output |-> <<>>, next |-> Fresh]

User(text) == [role |-> "user", content |-> <<text>>, calls |-> <<>>]
Result(call) == [role |-> "tool", content |-> <<>>, calls |-> <<call>>]
Summary(messages) == [role |-> "summary", tells |-> messages]

Checkpoint_AtReply(output) ==
    [model |-> route.model, profile |-> route.profile, index |-> Len(conversation),
     assistant |-> Parsed(output), output |-> output]
Checkpoint(output) ==
    [model |-> route.model, profile |-> route.profile, index |-> Len(conversation) + 1,
     assistant |-> Parsed(output), output |-> output]

\* A native window can only be read by the model, profile and endpoint it is of.
Opens(window, r) ==
    window.model = r.model /\ window.profile = r.profile /\ window.endpoint = r.endpoint

\* validate_continuation_provenance
Provenance_AnyRoute(c, r) ==
    \A n \in DOMAIN c.checkpoints :
        Bounded(c.checkpoints[n].output)
Provenance(c, r) ==
    /\ \A n \in DOMAIN c.checkpoints :
          /\ c.checkpoints[n].model = r.model /\ c.checkpoints[n].profile = r.profile
          /\ n > 1 => c.checkpoints[n - 1].index < c.checkpoints[n].index
          /\ Bounded(c.checkpoints[n].output)
    /\ c.window = NoWindow \/ Opens(c.window, r)

\* validate_continuation_for_endpoint
Valid(messages, c, r) ==
    /\ Provenance(c, r)
    /\ \A n \in DOMAIN c.checkpoints :
          LET checkpoint == c.checkpoints[n]
          IN  /\ checkpoint.index \in DOMAIN messages
              /\ messages[checkpoint.index] = checkpoint.assistant

\* build_input_for_endpoint: the window, then each message, as the opaque output
\* of its checkpoint where there is one.
Input(messages, c) ==
    LET Items(i) ==
            LET at == {n \in DOMAIN c.checkpoints : c.checkpoints[n].index = i}
            IN  IF at = {} THEN [opaque |-> FALSE, message |-> messages[i]]
                ELSE [opaque |-> TRUE,
                      output |-> c.checkpoints[CHOOSE n \in at : TRUE].output]
    IN  [window |-> c.window, items |-> [i \in DOMAIN messages |-> Items(i)]]

\* What the service understands of an input that a route sends it.
Understood(input, r) ==
    LET Reads(item) == IF item.opaque THEN <<Parsed(item.output)>>
                       ELSE IF item.message.role = "summary" THEN item.message.tells
                       ELSE <<item.message>>
    IN  (IF Opens(input.window, r) THEN input.window.tells ELSE <<>>)
          \o FlattenSeq([i \in DOMAIN input.items |-> Reads(input.items[i])])

-----------------------------------------------------------------------------
Init ==
    /\ conversation = <<>> /\ continuation = Fresh /\ transcript = <<>>
    /\ route \in Routes
    /\ pc = "idle" /\ operation = "completion"
    /\ attempt = "none" /\ Attempt!Init
    /\ response = <<>> /\ untroubled = FALSE /\ wire = <<>>
    /\ items = NoItems /\ part = <<>> /\ shown = <<>> /\ answer = NoAnswer

-----------------------------------------------------------------------------
(* The host between calls.                                                 *)

Idle == pc = "idle" /\ UNCHANGED <<pc, operation, guard, stream, answer>>
Room == Len(transcript) < MaxMessages

LastRole == IF conversation = <<>> THEN "none" ELSE Last(conversation).role

(* A user message, or the results of the tools the last answer called.     *)
Say(text) ==
    /\ Idle /\ Room /\ LastRole # "user"
    /\ LastRole = "assistant" => Last(conversation).calls = <<>>
    /\ conversation' = Append(conversation, User(text))
    /\ transcript' = Append(transcript, User(text))
    /\ UNCHANGED <<continuation, route>>

RunTool ==
    /\ Idle /\ Room /\ LastRole = "assistant" /\ Last(conversation).calls # <<>>
    /\ LET result == Result(Head(Last(conversation).calls))
       IN  /\ conversation' = Append(conversation, result)
           /\ transcript' = Append(transcript, result)
    /\ UNCHANGED <<continuation, route>>

(* The caller edits one of its messages, or truncates the history.         *)
Edit(i, text) ==
    /\ Idle /\ conversation[i].role = "user" /\ conversation[i] # User(text)
    /\ conversation' = [conversation EXCEPT ![i] = User(text)]
    /\ transcript' = [transcript EXCEPT
                        ![Len(transcript) - Len(conversation) + i] = User(text)]
    /\ UNCHANGED <<continuation, route>>

Truncate ==
    /\ Idle /\ LastRole \notin {"none", "summary"}
    /\ conversation' = Front(conversation) /\ transcript' = Front(transcript)
    /\ UNCHANGED <<continuation, route>>

(* create_continuation, where no native window would be lost by it.        *)
Renew ==
    /\ Idle /\ continuation # Fresh /\ continuation.window = NoWindow
    /\ continuation' = Fresh
    /\ UNCHANGED <<conversation, transcript, route>>

Switch(r) ==
    /\ Idle /\ r # route
    /\ route' = r
    /\ UNCHANGED <<conversation, continuation, transcript>>

(* compact_context of a route without the native operation: what comes     *)
(* before the latest request is summarized (module Compaction), with a     *)
(* fresh continuation; a native window is never summarized away.           *)
CompactPortably ==
    /\ Idle /\ ~route.native /\ continuation.window = NoWindow
    /\ LastRole = "user" /\ Len(conversation) > 1
    /\ conversation' = <<Summary(Front(transcript)), Last(conversation)>>
    /\ continuation' = Fresh
    /\ UNCHANGED <<transcript, route>>

-----------------------------------------------------------------------------
(* The request and its guard.                                              *)

\* What the guard reports, unless it has reported the end already.
Reported_Again(diagnostic) ==
    IF attempt # "none" THEN Append(diagnostics, diagnostic) ELSE diagnostics
Reported(diagnostic) ==
    IF attempt = "open" THEN Append(diagnostics, diagnostic) ELSE diagnostics

\* RequestAttemptGuard::finish, in the step in which the caller learns of it.
Finish(failure) ==
    /\ diagnostics' = Reported(Attempt!Finished(failure))
    /\ attempt' = "terminal" /\ outcome' = failure

Fail(failure) ==
    /\ pc' = "idle" /\ Finish(failure)
    /\ UNCHANGED <<host, operation, stream, answer>>

Call(op) ==
    /\ pc = "idle" /\ pc' = "credentials"
    /\ operation' = op /\ attempt' = "none"
    /\ UNCHANGED <<host, diagnostics, outcome, stream, answer>>

Complete == Room /\ LastRole \in {"user", "tool"} /\ Call("completion")

(* compact_native builds its input before it asks for credentials.         *)
CompactNatively ==
    /\ route.native /\ conversation # <<>>
    /\ Valid(conversation, continuation, route)
    /\ Call("compaction")

\* No credentials, or a continuation that is refused: nothing was started.
Refused ==
    /\ pc = "credentials" /\ pc' = "idle"
    /\ UNCHANGED <<host, operation, guard, stream, answer>>

\* RequestAttemptGuard::start
Opened == attempt' = "open" /\ outcome' = "pending" /\ diagnostics' = <<Attempt!Started>>

Start ==
    /\ pc = "credentials" /\ Valid(conversation, continuation, route)
    /\ pc' = "sending" /\ Opened
    /\ UNCHANGED <<host, operation, stream, answer>>

SendFails == pc = "sending" /\ Fail("Transport")

HeadersArrive(next) ==
    /\ pc = "sending" /\ pc' = next
    /\ diagnostics' = Append(diagnostics, Attempt!Headers)
    /\ UNCHANGED <<host, operation, attempt, outcome, answer>>

Rejected == HeadersArrive("error body") /\ UNCHANGED stream
ErrorBodyRead == pc = "error body" /\ Fail("HttpStatus")

ResponseStarts ==
    /\ operation = "completion" /\ HeadersArrive("stream")
    /\ response' \in Outputs
    /\ \E told \in Told(response') :
          \/ wire' = told /\ untroubled' = TRUE
          \/ wire' \in Troubled(told) /\ untroubled' = FALSE
    /\ items' = NoItems /\ part' = <<>> /\ shown' = <<>>

CompactionAnswered ==
    operation = "compaction" /\ HeadersArrive("body") /\ UNCHANGED stream

-----------------------------------------------------------------------------
(* The stream, event by event.                                             *)

Event(kind) == pc = "stream" /\ wire # <<>> /\ Head(wire).kind = kind
Take ==
    /\ wire' = Tail(wire)
    /\ UNCHANGED <<host, pc, operation, guard, response, untroubled, answer>>

TextDelta ==
    /\ Event("delta") /\ Take
    /\ shown' = shown \o Preview(Head(wire), part)
    /\ part' = PartAfter(Head(wire), part)
    /\ UNCHANGED items

ItemDone ==
    /\ Event("done")
    /\ IF Insertable(items, Head(wire))
       THEN Take /\ items' = Inserted(items, Head(wire)) /\ UNCHANGED <<part, shown>>
       ELSE Fail("Protocol")

PassedOver == Event("other") /\ Take /\ UNCHANGED <<items, part, shown>>

ResponseFailed == Event("failed") /\ Fail("ProviderResponse")
ResponseIncomplete == Event("incomplete") /\ Fail("Incomplete")
Malformed == Event("malformed") /\ Fail("Protocol")

Usable(output) == Known(output) /\ Answers(Parsed(output))

\* Finished is reported before Completed is yielded.
ResponseCompleted ==
    /\ Event("completed")
    /\ LET final == {o \in FinalOutput(items, Head(wire).output) : Usable(o)}
       IN  \/ final = {} /\ Fail("Protocol")
           \/ /\ \E output \in final :
                    answer' = [output |-> output,
                               next |-> [continuation EXCEPT
                                           !.checkpoints = Append(@, Checkpoint(output))]]
              /\ pc' = "completed" /\ Finish("none")
              /\ UNCHANGED <<host, operation, stream>>

\* The connection, or the decoder, fails; or the stream ends too soon.
StreamBreaks ==
    /\ pc = "stream"
    /\ Fail("Transport") \/ Fail("Protocol")

-----------------------------------------------------------------------------
(* compact_native: the window tells whatever the input told the service.   *)

Window ==
    [tells |-> Understood(Input(conversation, continuation), route),
     model |-> route.model, profile |-> route.profile, endpoint |-> route.endpoint]

Compacted ==
    /\ pc = "body" /\ pc' = "completed" /\ Finish("none")
    /\ answer' = [output |-> <<>>, next |-> [Fresh EXCEPT !.window = Window]]
    /\ UNCHANGED <<host, operation, stream>>

CompactionUnreadable ==
    /\ pc = "body"
    /\ Fail("Transport") \/ Fail("Protocol")

-----------------------------------------------------------------------------
(* The caller takes the answer and the continuation together, or neither.  *)

Adopt ==
    /\ pc = "completed" /\ pc' = "idle"
    /\ continuation' = answer.next
    /\ IF operation = "completion"
       THEN /\ conversation' = Append(conversation, Parsed(answer.output))
            /\ transcript' = Append(transcript, Parsed(answer.output))
       ELSE conversation' = <<>> /\ UNCHANGED transcript
    /\ answer' = NoAnswer
    /\ UNCHANGED <<route, operation, guard, stream>>

Drop ==
    /\ pc # "idle" /\ pc' = "idle"
    /\ diagnostics' = Reported(Attempt!Abandoned)
    /\ IF attempt = "open"
       THEN attempt' = "terminal" /\ outcome' = "dropped"
       ELSE UNCHANGED <<attempt, outcome>>
    /\ answer' = NoAnswer
    /\ UNCHANGED <<host, operation, stream>>

Next ==
    \/ \E text \in Sayings : Say(text) \/ \E i \in DOMAIN conversation : Edit(i, text)
    \/ RunTool \/ Truncate \/ Renew \/ CompactPortably
    \/ \E r \in Routes : Switch(r)
    \/ Complete \/ CompactNatively \/ Refused \/ Start \/ SendFails
    \/ Rejected \/ ErrorBodyRead \/ ResponseStarts \/ CompactionAnswered
    \/ TextDelta \/ ItemDone \/ PassedOver
    \/ ResponseFailed \/ ResponseIncomplete \/ Malformed
    \/ ResponseCompleted \/ StreamBreaks
    \/ Compacted \/ CompactionUnreadable
    \/ Adopt \/ Drop

Spec == Init /\ [][Next]_vars

-----------------------------------------------------------------------------
(* What the adapter promises.                                              *)

\* Every request is reported over exactly once, with what its caller learns and
\* no later than that, whichever of the exits it takes and wherever it is
\* dropped.
AttemptSpec == Attempt!Spec

\* An accepted answer has no hole: whatever the service left out or told twice,
\* it begins as the model's output does; and where nothing went wrong it is all
\* of it and the preview, if there was one, reads like the message.
AnswerIsTheResponse ==
    pc = "completed" /\ operation = "completion" =>
        /\ IsPrefix(answer.output, response)
        /\ untroubled => answer.output = response
        /\ untroubled /\ shown # <<>> => shown = Parsed(answer.output).content

\* "Replayed only when the model and normalized conversation still match", and
\* "a native window ... must be replayed": what the service understands of a
\* request is the transcript, through compactions, switches of the adapter,
\* edits and truncations.
InputTellsTranscript ==
    pc = "sending" => Understood(Input(conversation, continuation), route) = transcript

\* The continuation that comes with an answer is one the same adapter accepts
\* with the conversation that has the answer (outputs of more than
\* MAX_OUTPUT_ITEMS apart, which are accepted once and refused ever after).
NextRequestAccepted ==
    pc = "completed" =>
        IF operation = "compaction" THEN Valid(<<>>, answer.next, route)
        ELSE Len(answer.output) <= MaxItems =>
                 Valid(Append(conversation, Parsed(answer.output)), answer.next, route)
=============================================================================
