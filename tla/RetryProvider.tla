---------------------------- MODULE RetryProvider ----------------------------
(***************************************************************************)
(* kodkod-core/src/retry: the provider that wraps another one and asks     *)
(* again after a transient failure.  One call of complete_stream           *)
(* (Streaming) or complete_with_usage, from the first request to the       *)
(* terminal event, with the inner provider that answers each request in    *)
(* some way, the clock, and a consumer that may let go at any time.  The   *)
(* inner provider is one of the three adapters, or OpenCode over them,     *)
(* which make an error of what the service answers.                        *)
(***************************************************************************)
EXTENDS Integers, Sequences

CONSTANTS
    Streaming,          \* complete_stream, or complete_with_usage
    MaxAttempts,        \* RetryPolicy::max_attempts; may be zero
    InitialBackoff,     \* the policy's three other fields, in whole units
    MaxBackoff,
    Multiplier,
    Responses,          \* the failures the inner provider may meet
    MaxDelay,           \* RetryAfter::MAX_DELAY
    MaxSeconds,         \* the largest number of seconds that parses (u64)
    MaxDeltas           \* bound: text deltas of one request

ASSUME StreamingAssumption == Streaming \in BOOLEAN
ASSUME PolicyAssumption ==
    {MaxAttempts, InitialBackoff, MaxBackoff, Multiplier, MaxDelay} \subseteq Nat
ASSUME ResponsesAssumption ==
    \A response \in Responses :
        /\ response.after \in Int
        /\ {"kind", "status", "form", "after"} \subseteq DOMAIN response

VARIABLES
    pc,                 \* "ready" | "asked" | "backoff" | "done"
    attempt,
    text,               \* what the outstanding request has yielded
    clock,
    earliest,           \* history: the server asked not to be called before
    shown,              \* what the consumer was shown
    message,            \* the completed message
    outcome

vars == <<pc, attempt, text, clock, earliest, shown, message, outcome>>

-----------------------------------------------------------------------------
(* RetryAfter.                                                             *)

NoDelay == -1
BeyondMaximum == -2

(* An operator named X_Y is X with the mistake Y; nothing here uses it.    *)
FromHeader_Unparsed(response) ==
    IF response.status \notin {429, 503} \/ response.form \notin {"seconds", "date"}
         \/ (response.form = "seconds" /\ response.after > MaxSeconds)
    THEN NoDelay
    ELSE IF response.after > MaxDelay THEN BeyondMaximum
    ELSE IF response.after < 0 THEN 0 ELSE response.after

(* An empty or unreadable header is none; a number too large to parse is   *)
(* beyond the maximum like any delay too long to be scheduled; a date that *)
(* has passed (a negative `after`) asks for no delay.                      *)
FromHeader(response) ==
    IF response.status \notin {429, 503} \/ response.form \notin {"seconds", "date"}
    THEN NoDelay
    ELSE IF \/ response.form = "seconds" /\ response.after > MaxSeconds
            \/ response.after > MaxDelay
    THEN BeyondMaximum
    ELSE IF response.after < 0 THEN 0 ELSE response.after

-----------------------------------------------------------------------------
(* The errors that the adapters make of a response.                        *)

(* The header of a refusal is read before its body, which may tell a code; *)
(* a body that cannot be read tells none, and the refusal stays one.       *)
Errors_HeaderLast(response) ==
    {response} \cup
    (IF response.kind = "api" THEN {[response EXCEPT !.code = "none", !.form = "absent"]} ELSE {})
Errors(response) ==
    {response} \cup
    (IF response.kind = "api" THEN {[response EXCEPT !.code = "none"]} ELSE {})

(* A response that failed has a status of its own in no protocol but that  *)
(* of OpenAI, where a code that is not there may be told by the one        *)
(* overload message the adapter knows; an error told in Google's stream    *)
(* has the status of the stream.                                           *)
OpenAiRetryable(error) ==
    \/ error.kind \in {"transport", "empty_output"}
    \/ /\ error.kind = "api" /\ error.code # "sharing_limit"
       /\ error.status \in {429, 500, 502, 503, 504}
    \/ /\ error.kind = "failed"
       /\ error.code \in {"server_error", "overloaded_error", "overload_text"}

AnthropicRetryable(error) ==
    \/ error.kind = "transport"
    \/ error.kind = "api" /\ error.status \in {429, 500, 502, 503, 504, 529}

GoogleRetryable(error) ==
    \/ error.kind = "transport"
    \/ error.kind = "api" /\ error.status \in {408, 429, 500, 502, 503, 504, 529}

(* ProviderError hands on to the adapter that the error came from.         *)
IsRetryable(error) ==
    CASE error.adapter = "openai" -> OpenAiRetryable(error)
      [] error.adapter = "anthropic" -> AnthropicRetryable(error)
      [] error.adapter = "google" -> GoogleRetryable(error)
      [] OTHER -> FALSE                     \* a configuration error

RetryAfter(error) ==
    IF error.kind = "api" THEN FromHeader(error) ELSE NoDelay

-----------------------------------------------------------------------------
(* RetryPolicy.                                                            *)

Attempts == IF MaxAttempts = 0 THEN 1 ELSE MaxAttempts

Capped(millis) == IF millis \in 0..MaxBackoff THEN millis ELSE MaxBackoff
BackoffAfterAttempt(n) == Capped(InitialBackoff * Multiplier ^ (n - 1))

MayRetry_AfterText(error) ==
    /\ RetryAfter(error) = NoDelay /\ IsRetryable(error)
    /\ attempt < Attempts
MayRetry_OneMore(error) ==
    /\ text = <<>> /\ RetryAfter(error) = NoDelay /\ IsRetryable(error)
    /\ attempt <= Attempts

(* Nothing of this attempt was shown, the server named no delay, the error *)
(* is transient and the policy allows another attempt.                     *)
MayRetry(error) ==
    /\ text = <<>>
    /\ RetryAfter(error) = NoDelay
    /\ IsRetryable(error)
    /\ attempt < Attempts

-----------------------------------------------------------------------------
(* One call.                                                               *)

Init ==
    /\ pc = "ready" /\ attempt = 0 /\ clock = 0 /\ earliest = 0
    /\ text = <<>> /\ shown = <<>> /\ message = <<>> /\ outcome = "open"

Request ==
    /\ pc = "ready"
    /\ pc' = "asked" /\ attempt' = attempt + 1 /\ text' = <<>>
    /\ UNCHANGED <<clock, earliest, shown, message, outcome>>

(* The inner stream yields text, which is passed on at once.               *)
TextDelta ==
    /\ pc = "asked" /\ Streaming /\ Len(text) < MaxDeltas
    /\ text' = Append(text, attempt)
    /\ shown' = Append(shown, attempt)
    /\ UNCHANGED <<pc, attempt, clock, earliest, message, outcome>>

(* The completion of the request: the whole message.                       *)
Completed ==
    /\ pc = "asked" /\ pc' = "done" /\ outcome' = "completed"
    /\ message' = IF text = <<>> THEN <<attempt>> ELSE text
    /\ UNCHANGED <<attempt, text, clock, earliest, shown>>

(* The error is swallowed and the wait begins, or it is the caller's.      *)
Failed(response, error) ==
    /\ pc = "asked"
    /\ earliest' = IF /\ response.kind = "api" /\ response.status \in {429, 503}
                      /\ response.form \in {"seconds", "date"}
                      /\ clock + response.after > earliest
                   THEN clock + response.after ELSE earliest
    /\ IF MayRetry(error)
       THEN pc' = "backoff" /\ UNCHANGED outcome
       ELSE pc' = "done" /\ outcome' = "failed"
    /\ UNCHANGED <<attempt, text, clock, shown, message>>

(* An inner stream that ends without a terminal event ends the call, and   *)
(* the agent reports AgentError::ProviderStreamEnded.                      *)
Ended ==
    /\ pc = "asked" /\ Streaming
    /\ pc' = "done" /\ outcome' = "failed"
    /\ UNCHANGED <<attempt, text, clock, earliest, shown, message>>

BackoffOver ==
    /\ pc = "backoff" /\ pc' = "ready"
    /\ clock' = clock + BackoffAfterAttempt(attempt)
    /\ UNCHANGED <<attempt, text, earliest, shown, message, outcome>>

(* The consumer drops the future or stream, at whatever it waits for.      *)
Drop ==
    /\ pc # "done" /\ pc' = "done" /\ outcome' = "dropped"
    /\ UNCHANGED <<attempt, text, clock, earliest, shown, message>>

Answer ==
    \/ Completed
    \/ \E response \in Responses : \E error \in Errors(response) : Failed(response, error)
Next == Request \/ TextDelta \/ Answer \/ Ended \/ BackoffOver \/ Drop

Spec == Init /\ [][Next]_vars
(* The wrapper runs, its timer fires and every request is answered.        *)
FairSpec == Spec /\ WF_vars(Request) /\ WF_vars(Answer) /\ WF_vars(BackoffOver)

-----------------------------------------------------------------------------
(* What the wrapper promises.                                              *)

TypeOK ==
    /\ pc \in {"ready", "asked", "backoff", "done"}
    /\ {attempt, clock} \subseteq Nat
    /\ earliest \in Int
    /\ outcome \in {"open", "completed", "failed", "dropped"}
    /\ outcome = "open" <=> pc # "done"
    /\ {text, shown, message} \subseteq Seq(Nat)

(* A wrapped provider is a provider: retries are invisible, and the text   *)
(* shown is all of one attempt, the one whose message is completed.        *)
Stream == INSTANCE ProviderStream
StreamSpec == Stream!Spec

(* retry_after.rs:23 "shortening would retry before the server's requested *)
(* minimum delay": no request is made earlier than a 429 or 503 asked for, *)
(* whatever the form and size of its Retry-After.                          *)
NeverEarly == [][attempt' > attempt => clock >= earliest]_vars

(* policy.rs:6 "Maximum number of attempts": whatever the failures, a call *)
(* makes no more requests, and it ends.                                    *)
CallEnds == <>(outcome # "open" /\ attempt <= Attempts)

(* What the refinement rests on: everything shown is the text of the       *)
(* outstanding attempt, so a retry begins with nothing shown, and with no  *)
(* server delay pending.                                                   *)
RetryInvariant ==
    /\ TypeOK
    /\ shown = text
    /\ pc \in {"ready", "backoff"} => shown = <<>>
    /\ pc # "done" => clock >= earliest
=============================================================================
