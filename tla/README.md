# A TLA+ verification project for kodkod

kodkod is a Rust library for running model-driven agents: an application owns a
`Conversation`, hands it to an `Agent`, and consumes the stream of events of one
user turn while other threads steer, cancel or ask for compaction. This
directory holds TLA+ modules translated from its source, TLC configurations
that check them on small instances, and proofs that TLAPS checks for every
value of the constants. `PROJECT.json` maps each definition to the lines it
models. Paths below are relative to the repository.

    tlc -workers 2 -config TaskControl_race.cfg MC_TaskControl
    tlapm Host_proofs.tla

## The system

| Component | State it keeps | Operations | What makes it hard |
|---|---|---|---|
| Task control, `kodkod-core/src/agent/control.rs` | cancelled and compaction flags, admission, queue of steers, two events | `steer`, `queue_steer`, `cancel`, `request_compact`; `open`, drain, `close_if_empty`, `close` for the agent | threads race; wake-ups may be lost; last steer against end of turn |
| Agent turn, `agent.rs` | conversation, continuation, round flags, usage | `run_turn`, `run_turn_in`, `run_turn_context`, the shared loop `run_opened` | cancel, drop and steer at every suspension point; overflow recovery; maintenance |
| Durable context, `context.rs`, `agent.rs` | cursor, checkpoint, binding, measurement | `context_from_history`, checkpoints, `restore_context`, manual `compact_context` | crash between two stores; edited history; foreign binding |
| Compaction, `compact.rs`, `estimate.rs`, `conversation.rs` | none between calls | plan, splice, bounded summarizing, image retention | protocol-safe boundaries; nothing forgotten; bounds |
| Retry, `retry/` | attempt counter, back-off | `complete_with_usage`, `complete_stream` | text already shown; server delay; bounds |
| OpenAI Responses, `kodkod-openai/src/responses.rs` | output accumulator, request guard; the host keeps the continuation | streaming, stateless replay, native compaction, diagnostics | one terminal report on every exit; continuation bound to history and route |
| Request diagnostics, `request_diagnostics.rs` | identity of an attempt | started, headers, finished, abandoned | exactly one end |
| Messages, tools and turns, `message.rs`, `tool/`, `turns.rs` | tool map | capability filter, dispatch | error results; results in order of completion |
| HTTP, `kodkod-http` | SSE buffer | decode, credentials | chunk boundaries, size limits |
| Chat Completions, `completion.rs`, `convert.rs` | fragments of calls by index, reasoning | both kinds of answer, conversion | interleaved fragments; results and their images |
| Anthropic Messages, `kodkod-anthropic` | content blocks by index; the host keeps the continuation | both kinds of answer, conversion, replay | event order; signatures of another model |
| Google generateContent, `kodkod-google` | parts, request guard; the host keeps the continuation | both kinds of answer, conversion, replay, rebase | calls without ids; compaction moves signed parts |
| OpenCode, `kodkod-providers` | the host keeps a continuation of one of the protocols | routing, checks of models and documents, reasoning replay | conversations that change protocol |
| Codex, ChatGPT, catalogue, facade, `kodkod-providers`, `kodkod`, `scripts` | none | configuration and re-exports | |

The host's threads share a `TaskControl` with the running turn. The agent drains
it at each round boundary, maintains the context if a policy or a request asks
for it, sends conversation and continuation to the provider, commits reply and
continuation together, runs the requested tools, and goes round again. Events,
some with a checkpoint, go to the host, which stores them and polls again; it
may drop or cancel the task at any suspension point. The retry layer and an
adapter sit between the agent and the network.

What makes each part correct, in a line: a correction that was accepted is
delivered once, in order, or the turn does not complete; a cancelled turn ends
and leaves its context alone; a request never carries a broken tool exchange or
provider state for other messages; a stored checkpoint restores to exactly the
transcript it was stored with; a compaction forgets nothing and splits nothing;
a retry is invisible and never early; a request is reported over exactly once;
an answer is the whole response or none of it, however it was cut into chunks
and events; what a service understands of a request is the conversation.

## Modules

| Module | Models | State and actions |
|---|---|---|
| `SteeringMailbox` | what `TaskControl` promises | an abstract queue with phases fresh, open, closed, cancelled; `Accept`, `Refuse`, `Take`, `Finish`, `Close`, `Cancel` |
| `TaskControl` | `control.rs`, and the skeleton of `agent.rs` that uses it | one action per critical section of the mailbox mutex, per atomic swap, per notification, per registration of a listener and per re-check |
| `AgentTurn` | `run_turn*` and `run_opened` | one action per stretch of code between two suspension points; uses the control through `INSTANCE SteeringMailbox` |
| `DurableContext` | `context.rs`, `context_from_history`, `restore_context`, `compact_context`, the updates of a turn | the active context, the host's transcript, and a disk that holds either part; crash at any point |
| `Compaction` | `compact.rs`, `estimate.rs`, image retention | a job with its plan; one action per summarizer request and answer |
| `ProviderStream`, `RetryProvider` | `provider.rs`'s stream contract; `retry/`, and the errors of the three adapters | one call; one action per request, event, failure and back-off |
| `RequestAttempt` | `request_diagnostics.rs` | the reports of one physical request |
| `ResponseOutput`, `Responses` | `responses.rs` | pure operators for events, items and parts; the adapter with its guard, event by event, and a host |
| `SseDecoder` | `kodkod-http`'s decoder | the buffer; one action per chunk, of any length, and the end of the body |
| `Messages` | `message.rs`, `tool/` | pure: messages, the tools a model is told of, what a call is answered with |
| `AnthropicMessages`, `ChatCompletions`, `GoogleContent`, `ResponseInput` | the four adapters: conversion of a conversation, reading of a body, accumulator of a stream | pure: `Request`, `Parsed`, `Pushed`, `Finished`, and the service beside them, `Told`, `Troubled`, `Understood` |
| `OpenCode` | `opencode.rs` over the four adapters, with a host | one action per suspension point of a call, per event of a stream, and per thing the host does between calls |
| `Selection` | what of a sequence a set of positions or of kinds selects | pure |
| `MC_*` | | small instances, one per component |
| `*_proofs` | | theorems; those of `Selection_proofs` are about sequences and are used by the others |

An accumulator is a function from a state and an event to a set of at most one
state: none when the adapter refuses the event. What the host does with an
adapter, and where it may drop it, is then written once, in `OpenCode`.

Refinements: `TaskControl` implements `SteeringMailbox` (checked and proved),
which is what `AgentTurn` stands on. `RetryProvider` implements `ProviderStream`
(checked and proved): a wrapped provider is a provider. `Responses` and `OpenCode`
implement `RequestAttempt` (checked and proved). `AgentTurn` is a user of
`SteeringMailbox` (proved). `DurableContext` abstracts a turn to the updates it
yields, which `AgentTurn` details, and a compaction to "a summary tells of what
it replaced", which is `Compaction`'s `NothingForgotten`. `Responses` takes its
portable compaction as one step for the same reason, and `OpenCode` a summary,
whose request it takes through the same states as any other. `ResponseInput` is
the part of `responses.rs` that `OpenCode` uses: tools, images and documents,
without the windows of the native compaction, which `opencode.rs` leaves off.

Abstractions common to all modules: a message is a record with its role and
what the properties tell apart; texts are letters or model values; a token
estimate is a small number; wording, logging, JSON layout and limits in bytes
are left out. An operator named `X_Y` is `X` with a mistake a programmer might
make. Nothing uses it: substituting it for `X` makes the property listed beside
it in `PROJECT.json` fail, which shows that the run can tell.

## Runs

| Run | Instance | Shows |
|---|---|---|
| `control_race` | two executions, two steerers of which one queues early, one canceller, immediate steering | types, call order, completion loses nothing, refinement of the mailbox; a cancel ends the turn and a steer interrupts a silent stream, both without help of the provider |
| `turn_request` | two steers (one with an unsupported document), two parallel calls, one tool round, compaction on request, three provider rounds | corrections answered, tool exchanges whole, continuation fits at every suspension point, a cancel freezes the context |
| `turn_policy` | immediate steering, compactions portable or opaque, budget 6, trigger 4, growth 3, requests measured two below or one above their estimate, six rounds | no request fills the budget by the heuristic, nor by the measured estimate but for corrections that came after the decision; usage of replies and finished compactions is summed; soft maintenance only when it is due again; the turn ends |
| `compact_history` | nine kinds of message, transcripts of four messages that are compacted twice and grow between, tail of 0 or 6 tokens, images kept all or one, budget 5 | the promises of compaction |
| `retry` | four attempts, failures of all three adapters with delays below, above and far above the maximum and too large to parse, refusals whose body may be unreadable, three deltas | stream contract, never early, every call ends |
| `durable` | two interchangeable identities that differ in their endpoints, compared as the Responses adapter does, three messages, any number of crashes, partial saves and restores | the context tells of the transcript; checkpoints restore; dispatch is fenced |
| `responses` | three adapters (two endpoints, one other model without native compaction), five outputs, one fault per response, three messages | guard, reassembly, replay, next request |
| `sse` | every body of six of data, event, both halves of a character, CR and LF, cut into chunks in every way; blocks up to four | the events are those of the text; a body is refused when and only when its text so far is broken, and is called truncated when and only when it ends within an event |
| `opencode` | five models of four protocols (two of Anthropic's, one without vision), two tools, two to five outputs each, Google's calls with ids, without, or with empty ones, one fault per response, three messages besides results | guard, answers, conversion, replay, next request |
| `turn_usage`, `turn_growth`, `opencode_empty_id` | as above, as small as the disagreement allows | three of the disagreements below |

Why these bounds are enough to meet the interesting cases. *Control*: order
needs two steerers; a second execution is needed for a refused `open`; the flag
and the events are shared, so a second canceller only repeats the `swap` that
returns at once. *Turn*: three rounds hold a reply with calls, an interrupted or
retried round and a final one; `MaxAttempts` only stops the model from starting
further rounds, and under a policy it leaves room for one tool round, one
overflow with its retry, and interrupts. A policy measures below and above its
estimate in one run, since each direction breaks something else. *Compaction*: with budget 5, one token
of overhead and summaries of one token a chunk holds one or two messages, so
four messages need several chunks; a third compaction starts from the same kinds
of transcript as the second. *Durable context*: three messages hold a prompt, a
reply with a call and a result, with a checkpoint after each; the bounds
"one system note at a time" and "one edit between two complete saves" only keep
the same state from being reached with longer sequences. The theorems about
`DurableContext` hold for every `MaxMessages`, with those two bounds. `Compared` says
what of an identity an adapter compares, for the windows of a native compaction and for
what else a provider keeps, and `Ways` which compactions it can do; the run has
those of the Responses adapter. That Google's, which rebases what it has, fits too is
what the theorem says, and `opencode` checks in detail. *Responses*: outputs with
one part, with reasoning and several parts of two messages (one empty), with a
call, with nothing but reasoning, and with more items than an accumulator keeps;
three messages reach two checkpoints around a tool result or a user message.
*Decoder*: six bytes hold two events, or one with a name, a character cut in
two, both kinds of line end at a chunk's edge, and blocks below, at and above the
limit. *OpenCode*: a question, an answer with two calls, their results in either
order and a second answer fit into three messages besides results, so every
protocol is told of calls that each other protocol made, and a compaction moves
an answer that is then replayed. Google's two calls of one tool have no ids or empty ones
in some answers and their results come in either order. A fault loses, repeats, swaps or cuts what is
told at any one place; two faults in one response are not tried.
`durable` has some three million states, `turn_policy` and `responses` two million
each, `turn_request` and `opencode` one million each; `compact_history` is a deep
search of two hundred thousand, and the rest is smaller.

Deadlock is checked in `responses` and `opencode` and nowhere else: the others model
turns, calls, bodies and bounded histories that really stop.

### Fairness

* `TaskControl!FairSpec`: weak fairness of each execution's own steps (the
  executor polls a task that was woken), of a steering call and of a cancelling
  call once begun (threads are scheduled and hold no lock at those points).
  Nothing is assumed of `open`, providers, tools, hosts or spurious polls:
  `CancelEndsTurn` and `SteerInterruptsStream` must follow from the wake-ups alone.
* `AgentTurn!FairSpec`: the host polls the stream it started, and a cancel that
  began returns. `TurnTerminates` adds as a premise that what the turn waits for
  is answered somehow: `WF_vars(Answers) => ...`. Text deltas are no answer. `turn_policy` is the
  instance in which maintenance, interrupts and overflow could feed each other.
* `Compaction!FairSpec`: a summarizer request is answered or fails.
* `RetryProvider!FairSpec`: the wrapper runs, its timer fires and each request
  is answered.

## Proofs

All proofs hold for every value of the constants that satisfies the `ASSUME`s of the
modules. These are type conditions, and one of `OpenCode` is more: in what a model may answer
(`OutputsAssumption`, `Produced` of the four adapters) signatures and opaque blocks are its
own. `ToolsAssumption` says that the images of a tool are a sequence. Two constants are there for the provers, which do
not know that a string literal is in `STRING`: the ids of calls in `Compaction`
(`CallIds`) and the letters of texts in `Responses` (`Letters`; `OutputsAssumption`
says there that an output is a sequence of items whose parts are sequences of them).

**How recursion is reasoned about.** The provers cannot instantiate the induction
theorems of the library, which have an operator as a parameter. A set does as
well: `SetInduction` of `Selection_proofs` says that a set with 0 and all successors
of its members holds every natural number, and is cited with the set of those `n`
for which the fact holds. It follows from well-foundedness, which the library
states with sets. From it come `Recursion` (a function defined by recursion exists),
`SequenceInduction`, `DownwardInduction` and `WalkRecursion` in `Compaction_proofs`,
and what `Select`, `OfKinds`, `FlattenSeq` and `FoldLeft` return for every sequence.
The model is written so that this is enough: selections, and a set of positions in
order, are a recursive function on positions (module `Selection`), which the library's
`SelectSeq` and `SetToSortSeq` are not, the chunks and
the sums of `Compaction` are recursive functions too, and folds go
through `FoldLeft`, whose definition `Folding` unfolds.

* `Host_proofs`, on the two things a host holds of an agent.
  - `ControlInvariant` for `TaskControl`, proved together with `TypeOK`, has three parts:
    `LateInv` (a late caller, or a cancel that got beyond its swap, implies the
    flag), `OpenInv` (who got past `open`, at most one, and what the admission then
    is) and `QueueInv` (`delivered \o pending` is the sequence of accepted
    corrections, each once, and respects `earlier`). The last is needed because
    neither order nor completeness of `delivered` is inductive without the queue.
    From it follow `DeliveredInCallOrder`, `CompletedLosesNothing`,
    `LateSteerRefused`, `OneExecution`, `NeverReopened` and the refinement of
    `SteeringMailbox`, for any number of executions and threads.
  - `DurableInvariant` for `DurableContext`: `DurableTypeOK`, `TellsTranscript`,
    `ContinuationFits`, and what they need to survive a crash: without a context
    nothing is unsaved; while a part is to be stored, the others are stored;
    a stored checkpoint told of its own cursor; and unless the host set the pair
    apart its cursor begins both the stored and the current transcript. From it follow
    `SavedRestores` and `DispatchIsStored`. Nothing is assumed of what an adapter compares:
    `ContinuationFits` says that all the state a request carries was `Made` by identities that
    agree with the one it is sent to as far as that, and so that an adapter
    that compares nothing is promised nothing.
* `Transport_proofs`, on the two layers around an adapter, the wrapper above it and the
  decoder below it.
  - `RetryInvariant` for `RetryProvider`: all that was shown is the text of the
    outstanding attempt, so that a retry, which needs an attempt without text,
    begins with nothing shown; and the clock has passed every delay a server asked
    for whenever the call is not over, because an error with a delay is never
    retried. From it follow the refinement of `ProviderStream` and `NeverEarly`,
    for every policy and every set of failures.
  - `SseInvariant` for `DecodedAsSent` and `RefusedForTheText` of `SseDecoder`, for every
    limit, every body and every way of cutting it. The properties speak of the whole text, the
    decoder holds a rest of it; so what was sent is cut in two. The front is `Settled`: its last
    boundary ends it, no block of it is too long or ill-formed, and reading it leaves
    no line and no block begun (`Clear`). The rest, the buffer, has no boundary. The proof
    rests on what two texts make of each other (`JoinedBoundaries`, `JoinedBehind`):
    their boundaries and blocks are those of the whole, except where a CR ends
    the first and the LF behind it begins the second (`Torn`), which the decoder takes
    for a blank block and the whole text for one line end; either way it tells nothing.
    Then one turn of the loop moves a block to the front (`FitTurn`,
    `TurnTells`) or shows the text broken (`UnfitTurn`), and as many turns as there are
    bytes leave no boundary (`PushDecodes`). Of the constants they use only that the
    limit is a number and that CR and LF are bytes (`LimitFacts`). For `RefusedForTheText`
    the rest counts too: the buffer alone decides whether the whole text is `Broken`
    (`Settled` says that the front is not) and, at the end of the body, whether it is
    `Unfinished` (`SettledIsFinished`, `UnfinishedEnd`). That text once broken stays broken, so that what one
    way of cutting refuses no other reads to the end, is `BrokenStays`.
* `AgentTurn_proofs`. Every safety and action property of a turn, for every policy,
  entry point, set of parallel calls and number of rounds.
  - `TurnInvariant` and `ContextInvariant` type the state: what is drained are
    corrections, calls at hand are the reply's, `turn_usage` is what replies and finished
    compactions reported.
    They are carried through every action together with "the step is one of
    `SteeringMailbox` or leaves it alone", from which `UsesMailbox` (every way
    out of a turn closes its control, and none takes part of the queue),
    `UsageSummed` and `CancelFreezesContext` follow. The last needs the typing:
    that what still joins a cancelled context is a correction or a result follows
    only from where it was kept before. `ContinuationFits` is inductive on them.
  - `ExchangeInvariant` for `CallsAnswered`: results stand behind their reply with
    nothing but results and corrections between; each call but those at hand has
    exactly one; `toStart` and `running` are disjoint. `CallsAnswered` speaks of the
    moment a request is out, and that moment says nothing of the round in between.
  - `SteersInvariant` for `SteersAnswered`: the steers of the conversation and those
    drained are those delivered, in order. That compactions keep it is what
    `OfKinds` needs its lemmas for.
  - `BudgetInvariant` for `WithinBudget`: at each of the three places between the
    decision and the end of the request the conversation fits by the heuristic, and what
    of it there was before the last corrections fits by the measured estimate. The
    second part has to hold from where the decision was made, through a maintenance that
    was refused or failed (`DecidedBelow`, `BelowStays`), since nothing looks at it again.
  - `GrowthInvariant` for `SoftNeedsGrowth`: the threshold of soft maintenance is `Growth`
    beyond what the last maintenance left, or beyond what the first request after a
    native one was measured at. The second case, which has no lower bound, is why
    `GrowthBetweenMaintenance` is false (below).
* `Compaction_proofs`. Every safety and action property of a compaction, for
  transcripts, budgets, tails and image limits of every size.
  - `StateInvariant`: types, and the plan at hand is the one made for the projected
    transcript. `RetainedIndicesAgree` needs nothing else. With what a chunk's walk
    computes (`WalkRecursion`: where it stops both fit) it gives `RequestsFit`.
  - `MemoryInvariant` for `NothingForgotten`, `OrderKept` and
    `LatestRequestVerbatim`: a message that is no summary is one of the history, but
    for its image (`Faithful`), whatever stands behind it covers later ones only
    (`Ordered`), the latest ones are themselves there (`Verbatim`), and together they tell of
    all. None is inductive alone: that a splice keeps the order needs to know what
    a summary covers, and that it keeps the latest request needs to know that
    no older message stands behind it.
  - `JobInvariant` for `TailIsLeastSafe`, `RequestsArePaired` and
    `RefusedForOneExchange`: the walk over boundaries finds exactly the suffixes that are well
    paired. That a cut splits no exchange when as many results stand behind a reply as it
    made calls is a counting argument (`PairedOn`, `Window`), and that chunks of a projected
    transcript stay paired is one about moving positions (`Moved`).
* `Responses_proofs`. Every property of the adapter and its host.
  - `GuardInvariant` for `AttemptSpec`: a reported attempt is open exactly while the
    adapter waits for the service, its caller is answered exactly when it is not, and
    until the headers come nothing but its start was told. The state of the guard
    alone is not inductive: a return that left it open would show only in the next
    request.
  - `AnswerInvariant`: what the accumulator holds is a part of what the service
    output, in the places it was told in (`Remembering`). From it follows that an answer has
    no hole, whatever one fault did to the events: lost, told twice, exchanged or cut short.
  - `PreviewInvariant`: some telling of the output consists of what was read,
    followed by what is on the wire, and what was shown is what that first part reads
    like. The breaks between paragraphs are the point: the preview makes them from the indices of
    deltas, the message from the places of parts, and the two agree because a
    telling is in order. With the former it gives `AnswerIsTheResponse`.
  - `HostInvariant` for `InputTellsTranscript` and `NextRequestAccepted`: the windows and
    checkpoints the host keeps stand for a beginning of its transcript (`Recalled`),
    the rest of the transcript is its conversation (`Recent`), and a request on the wire is one the
    continuation is valid for. Both properties are about a request; what makes them inductive is
    what the host does between two of them.
* `OpenCode_proofs`. Any number of models, tools, messages and answers, one provider.
  - `GuardInvariant` as above, for adapters that report and adapters
    that do not taking turns, and from it `AttemptSpec`.
  - `ConversationInvariant`, in four parts. `HostInvariant`: messages are well formed, a
    result stands behind its call with only results between (`Grouped`), calls that are not answered
    are those of the last answer (`Awaited`), a checkpoint holds what its own model
    sent and, for Google, a signed call for every call of its message (`Faithful`), and only
    what a checkpoint holds is known of what was sent (`Traced`). `CallInvariant`: a call begins with
    all calls answered, keeps what `compact_context` may keep, and is out only where
    its request is made. `StreamInvariant`: what is on the wire and in the accumulator is of
    the model in use, in every telling and with every fault; that the four accumulators only
    ever put own blocks together is what `MessagesPushed`, `GooglePushed` and
    `ResponsesPushed` say. `AnswerInvariant`: what is offered to the caller satisfies
    all this too. None of the parts is inductive alone: that the compaction of a conversation
    is well formed needs to know where results stand, and a switch of model
    that no call was waiting for an answer.
  - `NextRequestAccepted` is part of it. After an answer the one new checkpoint is in place
    because checkpoints are bound to the messages they stand for (`Bound`), and a Google result finds its
    call because no other message stands between (`GoogleAccepts`); after a compaction
    `Rebased` keeps the order and the messages that checkpoints are bound to
    (`RebasedCheckpoints`), since what is kept moves by one place or by none
    (`ShortenedOrder`). The theorem needs no bound on items but that of the property, and
    speaks of conversations without a call of Google's that has the empty id (`Answerable`,
    `Named`): such a call is looked up by another id than it has (below). That the
    calls of a checkpoint and of its message are the same (`SameCalls`) is inductive only
    where all calls are `Named`.
  - `ThoughtsReplayed` follows: the entries a request makes of a conversation have one
    entry of the assistant for each answer, in the order of the answers (`AnswersInOrder`,
    though some messages become no entry and several become one), and that entry is the checkpoint's
    content where there is one (`Checkpointed`) and otherwise readable by all
    (`WrittenAnew`).
* `RequestReading_proofs`, on top of it: `RequestTellsConversation` for Chat Completions, the one
  protocol that replays from messages alone. In a request each message has entries at known
  places, but for the images of results, which go behind the whole group so that nothing
  stands between two results of one reply. So an entry is found by its message (`ChatAt`), a
  group's images by their call, which only one result of the group answers (`AnsweredOnce`,
  part of `HostInvariant`), and what the service reads in order (`ReadInOrder`) is the conversation.

Only model-checked: liveness (`CancelEndsTurn`, `SteerInterruptsStream`,
`TurnTerminates`, `CompactionEnds`, `CallEnds`), which needs fairness and lies
beyond these provers; and, of `OpenCode`, one invariant and three quarters of another. `AnswerIsTheResponse` compares what four
accumulators make of every telling with one fault with what was meant: a proof has to follow the
accumulator letter by letter through each telling, as `PreviewInvariant` does for
one adapter. `RequestTellsConversation` reads a request back as the service would,
by inverses (`Understood`); beyond Chat Completions it stays with TLC. The other three replay the content of
checkpoints, so that a proof needs what each accumulator made of an answer to be what its
message says; and Google's finds calls by names made from numbers (`FallbackId`), and
holds only of answers whose ids are not such names, which the run's are not.

## Where code and documentation disagree

Three runs state what is documented and find it violated.

* `compact.rs:118`: a summarization that fails after a provider reported its usage, on an
  answer without a summary or on a later chunk, returns an error that carries none, and
  the turn goes on without it (`agent.rs:667`, `agent.rs:774`); `README.md:79` says that
  `Completed` has the aggregate of all tool and compaction rounds (`AllUsageReported`;
  `UsageSummed` shows what is summed).
* `agent.rs:910`: the first request after a native compaction sets the soft threshold to
  the measured tokens plus the growth, while the estimate is the heuristic's when that is
  larger. With a provider that counts fewer tokens soft maintenance runs again without the
  growth that `context.rs:25` asks for (`GrowthBetweenMaintenance`; `SoftNeedsGrowth`
  shows that nothing else makes it run early).
* `kodkod-google/src/lib.rs:747`: a call with the id `""` gets an id of its own in the message
  (`lib.rs:951`) but is looked up by `""`, so every later request with its
  continuation is refused, which `lib.rs:74` says Gemini requires
  (`EveryAnswerContinues`; `NextRequestAccepted` excepts such a call).

The others no run states; where a property shows what does hold instead, it is named.

* `agent.rs:708`: after a maintenance only the heuristic is held against the budget, not
  the measured estimate that made the maintenance due (`agent.rs:532`). If a soft one
  fails while corrections arrive, a request leaves whose estimate fills the budget;
  `kodkod-core/README.md:168` says that the core checks before model requests.
  `WithinBudget` shows that only those corrections can do it.
* `agent.rs:394`: only `restore_context` looks at the binding, which names the account. A
  turn or a compaction asks `validate_context`, which compares no account and by default
  nothing (`provider.rs:98`), so a context takes up the state of another account and is
  restored under the first one's binding; `agent.rs:333` says that incompatible accounts
  require an explicit rebase. `ContinuationFits` promises what an adapter compares.
* `control.rs:166`: a second `open` of a control closes the mailbox of the
  turn that is running, whose steers are refused from then on although
  `control.rs:113` says a steer is queued if and only if its turn is open. `MailboxSpec`
  allows it: `Close` may come at any time until then.
* `compact.rs:168`: one call that was never answered suppresses every later
  chunk boundary, and a transcript of small exchanges is refused as oversized;
  `kodkod-core/README.md:172` speaks of single oversized exchanges.
  `RefusedForOneExchange` shows that well-paired transcripts are safe.
* `responses.rs:1432`: only the assistant messages of checkpoints are compared,
  so a rewritten user message before a checkpoint goes unnoticed;
  `README.md:39` says edits of the bound history are rejected.
  `InputTellsTranscript` shows that the request tells of the conversation as edited.
* `kodkod-google/src/lib.rs:694`: results of parallel calls of one name without ids are sent
  with the name alone, in the order in which the tools finish (`agent.rs:961`). The test
  at `lib.rs:1992` has such calls replayed "by ordinal", converting the results in the
  order of the calls. `RequestTellsConversation` excepts a request with
  such calls answered out of order (`ReplayedByOrdinal`), and only it.
* `kodkod-google/src/lib.rs:1127`: a stream's two calls of one name with the id `""`, which
  elsewhere counts as no id (`lib.rs:951`), become one; the same test has calls without
  ids stay distinct. `AnswerIsTheResponse` excepts such a pair (`Apart`).
* `agent.rs:924`: a cancel that returned after the final reply was accepted is
  answered with `Completed`; `README.md:106` says `Cancelled`.
* `opencode.rs:340` promises diagnostics "from every routed provider"; only
  `GenerateContent` and `Responses` report (`Observed`). The Anthropic adapter has
  the no-op of `provider.rs:58`.
* The Chat Completions body is read without its `finish_reason`, and an empty
  message is accepted there but not in a stream.
* What no protocol lets an adapter notice is left out of the faults: a trailing
  call wholly lost by a Chat service, a call without id told twice by Google.

## What is left out

* System prompt and serialization of `DurableContext`; a hash is its input.
  Errors of a failed maintenance there change nothing and are no actions.
* `RetryProvider`'s delegating methods.
* Request metadata, fingerprints and limits in bytes of the adapters; an output
  over the item limit of `responses.rs:1470` is accepted once and refused in every
  later replay, and `NextRequestAccepted` excludes it.
* `Responses` has messages with no more than text and one call, and every lost or
  repeated event; `ResponseInput` has tools, images and documents, and leaves text
  without a part index and a lost last item to `Responses`.
* Usage of the adapters, plain arithmetic on fields, their recognition of a context
  overflow in the text of an error (`AgentTurn` has both outcomes), and the PDF
  policy of other Chat services.
* The checks of names and types that a message or a tool is constructed with.
* `told` in `DurableContext` is unchanged by a compaction by definition, as
  `Compaction` shows for portable ones; an opaque window is trusted to tell what
  its service was told, there and in `Responses`.
* The space after a colon, in `SseDecoder`.
* `turns.rs` is a view that nothing in the library reads; Codex and ChatGPT
  configure the Responses adapter; catalogue, facade and script are data.

## Plan

1. `turns.rs`: a steer does not begin a turn, and a turn survives serialization.
2. Metadata, fingerprints and usage of an attempt, once, for both adapters that
   report; validation before any request.
3. `Codex` and `ChatGPT` as instances of `Responses` with their credentials.
4. Proofs: `RequestTellsConversation` for the three adapters with checkpoints, and
   `AnswerIsTheResponse`, adapter by adapter.
