------------------------------ MODULE AgentTurn ------------------------------
(***************************************************************************)
(* kodkod-core/src/agent.rs: one logical user turn, Agent::run_turn,       *)
(* run_turn_in or run_turn_context and the loop they share, run_opened.    *)
(*                                                                         *)
(* An action is the code between two points at which the task can be       *)
(* suspended (a yield or an await), or a part of it.  Between two actions  *)
(* the host and its threads may steer, cancel, ask for a compaction or     *)
(* drop the task.  The control is used through SteeringMailbox, which      *)
(* TaskControl implements: `phase` is "cancelled" from the swap in         *)
(* TaskControl::cancel on, `notified` from its notification on.            *)
(*                                                                         *)
(* A message is a record with a kind; its size is 1 and a conversation's   *)
(* token estimate is its length.  The provider and the tools are the       *)
(* environment: a round answers with any set of calls, fails or stays      *)
(* silent, in the order the environment chooses.                           *)
(***************************************************************************)
EXTENDS Integers, Sequences, FiniteSets, SequencesExt, Selection

CONSTANTS
    Steers,             \* corrections the host may offer during the turn
    BadSteers,          \* those with a document the model does not support
    Calls,              \* tool calls a reply may contain
    MaxToolRounds,      \* Agent::max_tool_rounds
    Immediate,          \* Agent::immediate_steering
    OnRequest,          \* run_turn_in with Some(TurnCompaction)
    Policy,             \* run_turn_context with Some(CompactionPolicy)
    Budget,             \* CompactionPolicy::budget
    Trigger,            \* maintenance_trigger_tokens
    Growth,             \* maintenance_growth_tokens
    Opaque,             \* whether a compaction may give opaque state, or portable
    Excess,             \* reported tokens of a request minus its estimate
    MaxAttempts         \* bound: provider rounds started

ASSUME ConfigAssumption ==
    /\ BadSteers \subseteq Steers
    /\ {Immediate, OnRequest, Policy} \cup Opaque \subseteq BOOLEAN
    /\ ~(OnRequest /\ Policy)
    /\ {MaxToolRounds, Budget, Trigger, MaxAttempts} \subseteq Nat
    /\ Growth \in Nat \ {0}
    /\ Excess \subseteq Int

VARIABLES
    phase, queue, delivered, refused, finished,     \* SteeringMailbox
    notified,           \* the cancellation event has fired
    compactRequested,   \* AtomicBool of TaskControl
    pc,                 \* where the task is
    waiting,            \* cancel_or has been polled, uncancelled
    outcome,            \* how the turn ended
    conversation,       \* active messages
    continuation,       \* provider state: the prefix it stands for
    drained,            \* drained steers not yet pushed
    due,                \* why maintenance was started
    maint,              \* ContextMaintenanceState, measurement, loop flags
    calls,              \* calls of the last reply: to start, running
    toolRounds,         \* tool_rounds_executed
    usage,              \* turn_usage
    attempt,            \* history: provider rounds started
    preview,            \* history: rounds with text on the host's screen
    spent,              \* history: usage of replies and finished compactions
    lost,               \* history: usage of compactions that failed
    settled             \* history: the estimate that maintenance left, and the
                        \*   first measurement of it if it was opaque

Mailbox == INSTANCE SteeringMailbox WITH Message <- Steers

control == <<phase, queue, delivered, refused, finished, notified>>
active == <<conversation, continuation>>
history == <<attempt, preview, spent, lost, settled>>
vars == <<control, compactRequested, pc, waiting, outcome, active, drained, due,
          maint, calls, toolRounds, usage, history>>
-----------------------------------------------------------------------------
(* Messages, continuations, estimates and usage.                           *)

User == [kind |-> "user"]
Steer(s) == [kind |-> "steer", steer |-> s]
Reply(n, C) == [kind |-> "reply", round |-> n, calls |-> C]
Result(n, c) == [kind |-> "result", round |-> n, call |-> c]
Summary(n) == [kind |-> "summary", round |-> n]     \* written after round n

\* What earlier turns left behind.
Earlier == <<[kind |-> "old"], Reply(0, {})>>

\* A continuation stands for the conversation's first `upTo` messages, the
\* last of which is `last`; a fresh one stands for none.
Fresh == [upTo |-> 0, last |-> User]
Covering(messages) == [upTo |-> Len(messages), last |-> Last(messages)]

Size(messages) == Len(messages)
None == -1              \* Option::None for token counts
Larger(a, b) == IF a >= b THEN a ELSE b

\* An operator named X_Y is X with the mistake Y; nothing here uses it.

\* TokenUsage::add_round: unknown counts stay unknown.
AddRound_UnknownIsZero(total, round) == IF round = None THEN total ELSE total + round
AddRound(total, round) == IF None \in {total, round} THEN None ELSE total + round
Reported(total, tokens) == IF None \in {total, tokens} THEN None ELSE total + 1
Cost(tokens) == IF tokens = None THEN None ELSE 1

\* A summarization fails before a provider reported anything, or after: on an
\* answer without a summary, or on a later chunk of a long transcript.
Losses == {lost} \cup {Reported(lost, t) : t \in {None, Size(conversation)}}

\* Kept when older messages are summarized; where a kept tail may start.
Pinned_UserOnly == {"user"}
Pinned == {"user", "steer"}
SafeStart_Anywhere(messages, i) == TRUE
SafeStart(messages, i) == i <= Len(messages) => messages[i].kind # "result"

\* What compaction may make of a conversation (compact.rs): a summary, the
\* turn's user message and its steers from the dropped prefix, and a tail that
\* does not start with the result of a dropped call.
Compacted(messages) ==
    {<<Summary(attempt)>> \o OfKinds(SubSeq(messages, 1, k - 1), Pinned)
                 \o SubSeq(messages, k, Len(messages)) :
        k \in {i \in 2..Len(messages) + 1 : SafeStart(messages, i)}}

\* The estimate a policy decides on: the heuristic, or the last measured
\* request plus what was added since, whichever is larger.
EstimateOf(messages) ==
    LET raw == Size(messages)
        added == IF raw > maint.estimated THEN raw - maint.estimated ELSE 0
    IN  IF maint.measured = None THEN raw ELSE Larger(raw, maint.measured + added)
Estimate == EstimateOf(conversation)
-----------------------------------------------------------------------------
Waits == {"maintaining", "compacting", "stream", "tools"}

NotDue == [estimate |-> 0, hard |-> FALSE, soft |-> FALSE, manual |-> FALSE]
NoCalls == [toStart |-> {}, running |-> {}]

Init ==
    /\ Mailbox!Init
    /\ notified = FALSE /\ compactRequested = FALSE
    /\ pc = "new" /\ waiting = FALSE /\ outcome = "none"
    /\ conversation = Earlier /\ continuation = Fresh
    /\ drained = <<>> /\ due = NotDue /\ calls = NoCalls /\ toolRounds = 0
    /\ maint = [measured |-> None, estimated |-> 0, softAfter |-> None,
                awaiting |-> FALSE, force |-> FALSE, recovered |-> FALSE]
    /\ usage = 0 /\ spent = 0 /\ lost = 0 /\ attempt = 0 /\ preview = {}
    /\ settled = [estimate |-> None, measured |-> None]
-----------------------------------------------------------------------------
(* The host's threads.                                                     *)

QueueSteer(s) ==
    /\ Mailbox!Accept(s) \/ Mailbox!Refuse(s)
    /\ UNCHANGED <<notified, compactRequested, pc, waiting, outcome, active, drained,
                   due, maint, calls, toolRounds, usage, history>>

Cancel ==
    /\ Mailbox!Cancel
    /\ UNCHANGED <<notified, compactRequested, pc, waiting, outcome, active, drained,
                   due, maint, calls, toolRounds, usage, history>>

CancelNotify ==
    /\ phase = "cancelled" /\ ~notified
    /\ notified' = TRUE
    /\ UNCHANGED <<phase, queue, delivered, refused, finished, compactRequested, pc,
                   waiting, outcome, active, drained, due, maint, calls, toolRounds,
                   usage, history>>

RequestCompact ==
    /\ (OnRequest \/ Policy) /\ ~compactRequested
    /\ compactRequested' = TRUE
    /\ UNCHANGED <<control, pc, waiting, outcome, active, drained, due, maint, calls,
                   toolRounds, usage, history>>
-----------------------------------------------------------------------------
(* Where the task goes next, and how it ends.                              *)

Goto(step) == pc' = step /\ outcome' = outcome

\* An error ends the stream; dropping the task does the same from outside.
\* Either way TurnGuard closes the mailbox and local futures are dropped.
End(how) ==
    /\ pc' = "done" /\ outcome' = how
    /\ phase' = IF phase = "cancelled" THEN phase ELSE "closed"
    /\ UNCHANGED <<queue, delivered, refused, finished, notified>>

\* run_turn: the mailbox opens and the user's message is pushed at once.
Start ==
    /\ pc = "new"
    /\ \/ /\ Mailbox!Start
          /\ conversation' = Append(conversation, User)
          /\ Goto("boundary") /\ UNCHANGED notified
       \/ /\ phase # "fresh"
          /\ End("refused") /\ UNCHANGED conversation
    /\ UNCHANGED <<compactRequested, waiting, continuation, drained, due, maint, calls,
                   toolRounds, usage, history>>

\* drain_pending_steers_unless_cancelled
Drain ==
    /\ pc \in {"boundary", "redrain"}
    /\ \/ /\ Mailbox!Take
          /\ drained' = queue
          /\ Goto(IF pc = "boundary" THEN "steers" ELSE "resteers")
          /\ UNCHANGED notified
       \/ /\ phase = "cancelled"
          /\ End("cancelled") /\ UNCHANGED drained
    /\ UNCHANGED <<compactRequested, waiting, active, due, maint, calls, toolRounds,
                   usage, history>>

\* One Steered event; the host may act before the next one is pushed.
PushSteer ==
    /\ pc \in {"steers", "resteers"} /\ drained # <<>>
    /\ conversation' = Append(conversation, Steer(Head(drained)))
    /\ drained' = Tail(drained)
    /\ UNCHANGED <<control, compactRequested, pc, waiting, outcome, continuation, due,
                   maint, calls, toolRounds, usage, history>>

SteersPushed ==
    /\ pc \in {"steers", "resteers"} /\ drained = <<>>
    /\ Goto(IF pc = "resteers" THEN "refit"
            ELSE IF Policy THEN "maintenance" ELSE "dispatch")
    /\ UNCHANGED <<control, compactRequested, waiting, active, drained, due, maint,
                   calls, toolRounds, usage, history>>
-----------------------------------------------------------------------------
(* Automatic maintenance under a CompactionPolicy.                         *)

OverBudget_Exceeds(size) == size > Budget
OverBudget(size) == size >= Budget

SoftDue_NoMemory == Estimate >= Trigger
SoftDue ==
    /\ Estimate >= Trigger
    /\ maint.softAfter = None \/ Estimate >= maint.softAfter

DecideMaintenance ==
    /\ pc = "maintenance"
    /\ due' = [estimate |-> Estimate,
               hard |-> OverBudget(Estimate),
               soft |-> SoftDue,
               manual |-> compactRequested]
    /\ compactRequested' = FALSE
    /\ Goto(IF maint.force \/ due'.hard \/ due'.soft \/ due'.manual
            THEN "maintaining" ELSE "dispatch")
    /\ UNCHANGED <<control, waiting, active, drained, maint, calls, toolRounds, usage,
                   history>>

\* is_cancelled() once more when a result is at hand.
Uncancelled_NotChecked == TRUE
Uncancelled == phase # "cancelled"

\* create_continuation goes with every replaced conversation.
Renewed_Kept == continuation
Renewed == Fresh

\* What a maintenance leaves to grow from.
Settles(estimate) == settled' = [estimate |-> estimate, measured |-> None]

Required == due.hard \/ maint.force
SoftOnly == due.soft /\ ~Required /\ ~due.manual

\* maintain() answered with a replacement, and the turn is not cancelled.
Maintained(replacement, opaque, tokens) ==
    LET next == Size(replacement)
        useless == next >= due.estimate /\ ~opaque
        base == IF opaque
                THEN Larger(Larger(due.estimate, next), Larger(tokens, 0))
                ELSE next
        kept == [maint EXCEPT !.softAfter = base + Growth, !.awaiting = opaque,
                              !.force = FALSE]
    IN  /\ usage' = AddRound(usage, Cost(tokens))
        /\ spent' = Reported(spent, tokens)
        /\ \/ /\ Required /\ useless
              /\ End("maintenance")
              /\ UNCHANGED <<active, maint, settled>>
           \/ /\ useless /\ SoftOnly
              /\ maint' = kept /\ Settles(due.estimate)
              /\ Goto("redrain") /\ UNCHANGED <<control, active>>
           \/ /\ ~(useless /\ (Required \/ SoftOnly))
              /\ conversation' = replacement
              /\ continuation' = IF opaque THEN Covering(replacement) ELSE Renewed
              /\ maint' = [kept EXCEPT !.measured = None] /\ Settles(next)
              /\ Goto("redrain") /\ UNCHANGED control

MaintainOk ==
    /\ pc = "maintaining" /\ waiting /\ Uncancelled
    /\ \E r \in Compacted(conversation), t \in {None, Size(conversation)}, opaque \in Opaque :
          Maintained(r, opaque, t)
    /\ waiting' = FALSE /\ due' = NotDue
    /\ UNCHANGED <<compactRequested, drained, calls, toolRounds, attempt, preview, lost>>

\* NothingToCompact or another error, which is final only if the context has
\* to shrink; soft maintenance waits until the context has grown.  The error
\* carries no usage.
MaintainFailed ==
    /\ pc = "maintaining" /\ waiting /\ ~notified
    /\ IF Required
       THEN End("maintenance") /\ UNCHANGED <<maint, settled>>
       ELSE /\ IF due.soft THEN Settles(due.estimate) ELSE UNCHANGED settled
            /\ maint' = [maint EXCEPT !.softAfter =
                            IF due.soft THEN due.estimate + Growth ELSE @]
            /\ Goto("redrain") /\ UNCHANGED control
    /\ lost' \in Losses
    /\ waiting' = FALSE /\ due' = NotDue
    /\ UNCHANGED <<compactRequested, active, drained, calls, toolRounds, usage, attempt,
                   preview, spent>>

\* Steers that arrived during maintenance count too, by the heuristic alone.
FitsBudget ==
    /\ pc = "refit"
    /\ IF OverBudget(Size(conversation))
       THEN End("maintenance")
       ELSE Goto("dispatch") /\ UNCHANGED control
    /\ UNCHANGED <<compactRequested, waiting, active, drained, due, maint, calls,
                   toolRounds, usage, history>>
-----------------------------------------------------------------------------
(* Compaction on request, and the start of a provider round.               *)

Dispatch ==
    /\ pc = "dispatch"
    /\ \/ /\ \E s \in BadSteers : Steer(s) \in Range(conversation)
          /\ End("document") /\ UNCHANGED compactRequested
       \/ /\ \A s \in BadSteers : Steer(s) \notin Range(conversation)
          /\ compactRequested' = (compactRequested /\ ~OnRequest)
          /\ Goto(IF OnRequest /\ compactRequested THEN "compacting" ELSE "send")
          /\ UNCHANGED control
    /\ UNCHANGED <<waiting, active, drained, due, maint, calls, toolRounds, usage, history>>

CompactOk ==
    /\ pc = "compacting" /\ waiting /\ Uncancelled
    /\ conversation' \in Compacted(conversation)
    /\ continuation' = Renewed
    /\ \E t \in {None, Size(conversation)} :
          /\ usage' = AddRound(usage, Cost(t))
          /\ spent' = Reported(spent, t)
    /\ Goto("send")
    /\ waiting' = FALSE
    /\ UNCHANGED <<control, compactRequested, drained, due, maint, calls, toolRounds,
                   attempt, preview, lost, settled>>

\* A failed compaction on request leaves the turn to go on, without its usage.
CompactFailed ==
    /\ pc = "compacting" /\ waiting /\ Uncancelled
    /\ Goto("send")
    /\ lost' \in Losses
    /\ waiting' = FALSE
    /\ UNCHANGED <<control, compactRequested, active, drained, due, maint, calls,
                   toolRounds, usage, attempt, preview, spent, settled>>

Send ==
    /\ pc = "send" /\ attempt < MaxAttempts
    /\ attempt' = attempt + 1
    /\ Goto("stream")
    /\ UNCHANGED <<control, compactRequested, waiting, active, drained, due, maint, calls,
                   toolRounds, usage, preview, spent, lost, settled>>
-----------------------------------------------------------------------------
(* Awaiting an operation: cancel_or.                                       *)

\* Its first poll looks at the flag.
Poll ==
    /\ pc \in Waits /\ ~waiting /\ phase # "cancelled"
    /\ waiting' = TRUE
    /\ UNCHANGED <<control, compactRequested, pc, outcome, active, drained, due, maint,
                   calls, toolRounds, usage, history>>

\* Later ones are woken by the event; a finished maintenance, compaction or
\* stream item is discarded if the flag is set by then.
Noticed_AtFirst == ~waiting
Noticed == waiting => notified \/ pc # "tools"

Cancelled ==
    /\ pc \in Waits /\ phase = "cancelled" /\ Noticed
    /\ End("cancelled")
    /\ waiting' = FALSE
    /\ UNCHANGED <<compactRequested, active, drained, due, maint, calls, toolRounds,
                   usage, history>>
-----------------------------------------------------------------------------
(* The provider's stream.                                                  *)

\* With immediate steering a pending steer is looked at before the stream.
StreamPolled ==
    /\ pc = "stream" /\ waiting
    /\ Immediate => queue = <<>> /\ phase # "cancelled"

\* AssistantPreviewReset withdraws an abandoned round's text.
Withdrawn == {}

Interrupt ==
    /\ Immediate /\ pc = "stream" /\ waiting /\ queue # <<>> /\ phase # "cancelled"
    /\ preview' = Withdrawn
    /\ Goto("boundary")
    /\ waiting' = FALSE
    /\ UNCHANGED <<control, compactRequested, active, drained, due, maint, calls,
                   toolRounds, usage, attempt, spent, lost, settled>>

\* One delta stands for a round's text.
TextDelta ==
    /\ StreamPolled /\ Uncancelled /\ attempt \notin preview
    /\ preview' = preview \cup {attempt}
    /\ waiting' = FALSE
    /\ UNCHANGED <<control, compactRequested, pc, outcome, active, drained, due, maint,
                   calls, toolRounds, usage, attempt, spent, lost, settled>>

\* The measurement of the accepted request, and the soft threshold that a
\* native compaction left to be measured.
Measured(tokens, size) ==
    IF ~Policy \/ tokens = None THEN maint
    ELSE [maint EXCEPT !.measured = tokens, !.estimated = size,
                       !.softAfter = IF maint.awaiting THEN tokens + Growth ELSE @,
                       !.awaiting = FALSE]

\* Completed: message, continuation and cursor become one checkpoint with no
\* look at the cancellation in between.
Accept(C, tokens) ==
    LET accepted == Append(conversation, Reply(attempt, C))
    IN  /\ conversation' = accepted
        /\ continuation' = Covering(accepted)
        /\ maint' = [Measured(tokens, Size(accepted)) EXCEPT !.recovered = FALSE]
        /\ usage' = AddRound(usage, Cost(tokens))
        /\ spent' = Reported(spent, tokens)
        /\ settled' = IF Policy /\ maint.awaiting /\ tokens # None
                      THEN [settled EXCEPT !.measured = tokens] ELSE settled
        /\ calls' = [toStart |-> C, running |-> {}]

Completed ==
    /\ StreamPolled /\ Uncancelled
    /\ \E C \in SUBSET Calls,
          t \in {None} \cup {Size(conversation) + 1 + x : x \in Excess} :
          Accept(C, t)
    /\ Goto("replied")
    /\ waiting' = FALSE
    /\ UNCHANGED <<control, compactRequested, drained, due, toolRounds, attempt, preview,
                   lost>>

\* One retry after a typed overflow, with maintenance forced in between.
MayRecover == Policy /\ ~maint.recovered
Recovering == [maint EXCEPT !.recovered = TRUE, !.force = TRUE]

Overflow ==
    /\ StreamPolled /\ ~notified
    /\ IF MayRecover
       THEN /\ maint' = Recovering
            /\ preview' = Withdrawn
            /\ Goto("boundary") /\ UNCHANGED control
       ELSE End("provider") /\ UNCHANGED <<maint, preview>>
    /\ waiting' = FALSE
    /\ UNCHANGED <<compactRequested, active, drained, due, calls, toolRounds, usage,
                   attempt, spent, lost, settled>>

StreamFailed ==
    /\ StreamPolled /\ ~notified
    /\ End("provider") \/ End("ended")
    /\ waiting' = FALSE
    /\ UNCHANGED <<compactRequested, active, drained, due, maint, calls, toolRounds,
                   usage, history>>
-----------------------------------------------------------------------------
(* After the reply was yielded.                                            *)

\* No calls: the turn is over unless a steer came first (close_if_empty).
Finish ==
    /\ pc = "replied" /\ calls.toStart = {}
    /\ preview' = {}
    /\ \/ /\ Mailbox!Finish
          /\ pc' = "done" /\ outcome' = "completed" /\ UNCHANGED notified
       \/ queue # <<>> /\ Goto("boundary") /\ UNCHANGED control
    /\ UNCHANGED <<compactRequested, waiting, active, drained, due, maint, calls,
                   toolRounds, usage, attempt, spent, lost, settled>>

BeginTools ==
    /\ pc = "replied" /\ calls.toStart # {}
    /\ preview' = {}
    /\ IF toolRounds >= MaxToolRounds
       THEN End("rounds")
       ELSE Goto("start") /\ UNCHANGED control
    /\ UNCHANGED <<compactRequested, waiting, active, drained, due, maint, calls,
                   toolRounds, usage, attempt, spent, lost, settled>>

\* One ToolStarted event; all are yielded before any tool runs.
ToolStarted ==
    /\ pc = "start" /\ calls.toStart # {}
    /\ \E c \in calls.toStart :
          calls' = [toStart |-> calls.toStart \ {c}, running |-> calls.running \cup {c}]
    /\ Goto(IF calls'.toStart = {} THEN "tools" ELSE "start")
    /\ UNCHANGED <<control, compactRequested, waiting, active, drained, due, maint,
                   toolRounds, usage, history>>

\* A round of tools counts towards max_tool_rounds, steered or not.
Executed == toolRounds + 1

\* The results are accepted in the order in which the tools finish.
ToolFinished ==
    /\ pc = "tools" /\ waiting /\ ~notified
    /\ \E c \in calls.running :
          /\ conversation' = Append(conversation, Result(attempt, c))
          /\ calls' = [calls EXCEPT !.running = @ \ {c}]
    /\ waiting' = FALSE
    /\ IF calls'.running = {}
       THEN Goto("boundary") /\ toolRounds' = Executed
       ELSE Goto("tools") /\ UNCHANGED toolRounds
    /\ UNCHANGED <<control, compactRequested, continuation, drained, due, maint, usage,
                   history>>

Drop ==
    /\ pc \notin {"new", "done"}
    /\ End("dropped")
    /\ waiting' = FALSE
    /\ UNCHANGED <<compactRequested, active, drained, due, maint, calls, toolRounds,
                   usage, history>>
-----------------------------------------------------------------------------
Internal ==
    \/ Drain \/ PushSteer \/ SteersPushed \/ DecideMaintenance \/ FitsBudget
    \/ Dispatch \/ Send \/ Poll \/ Cancelled \/ Interrupt
    \/ Finish \/ BeginTools \/ ToolStarted

Operations ==
    \/ MaintainOk \/ MaintainFailed \/ CompactOk \/ CompactFailed
    \/ TextDelta \/ Completed \/ Overflow \/ StreamFailed \/ ToolFinished

Host ==
    \/ Start \/ Cancel \/ CancelNotify \/ RequestCompact \/ Drop
    \/ \E s \in Steers : QueueSteer(s)

Next == Internal \/ Operations \/ Host

Spec == Init /\ [][Next]_vars

\* The host polls the stream it started and a cancel that began returns; the
\* provider, the tools and further host actions owe nothing.
FairSpec == Spec /\ WF_vars(Start) /\ WF_vars(Internal) /\ WF_vars(CancelNotify)

\* What a provider or a tool does when it answers what the turn waits for.
Answers == Operations /\ ~TextDelta
-----------------------------------------------------------------------------
(* Properties.                                                              *)

Corrections(steers) == [i \in DOMAIN steers |-> Steer(steers[i])]

\* A turn completes only after every correction that was accepted is in the
\* conversation, in order of acceptance, with a reply after it: none is lost
\* to an interrupted round, a compaction, or the race between a last steer and
\* close_if_empty.
SteersAnswered ==
    outcome = "completed" =>
        /\ queue = <<>>
        /\ OfKinds(conversation, {"steer"}) = Corrections(delivered)
        /\ Last(conversation).kind = "reply"

\* Whatever was interrupted, compacted or reordered, a request never goes out
\* with a call that lacks its result, has two, or a result without its call.
CallsAnswered ==
    pc \in {"send", "stream"} =>
        /\ \A i \in DOMAIN conversation : conversation[i].kind = "reply" =>
              \A c \in conversation[i].calls :
                 Cardinality({j \in DOMAIN conversation :
                     j > i /\ conversation[j] = Result(conversation[i].round, c)}) = 1
        /\ \A j \in DOMAIN conversation : conversation[j].kind = "result" =>
              \E i \in 1..j - 1 : /\ conversation[i].kind = "reply"
                                  /\ conversation[i].round = conversation[j].round

\* "The transcript and continuation are one logical checkpoint": at every
\* suspension point, dropped or cancelled turns included, the provider state
\* stands for a prefix of the very conversation it is kept with.
ContinuationFits ==
    continuation # Fresh =>
        /\ continuation.upTo \in DOMAIN conversation
        /\ conversation[continuation.upTo] = continuation.last

\* Completed reports the usage of every reply and of every compaction that
\* finished, one whose result was thrown away included, each once, and is
\* unknown exactly if one of them is.  The usage of compactions that fail is
\* not in it.
UsageSummed == outcome = "completed" => usage = spent

\* "the final `Completed` event carries the aggregate for the turn, including
\* any tool and compaction rounds" (README.md:80): all that was reported.
AllUsageReported ==
    outcome = "completed" => usage = IF None \in {spent, lost} THEN None ELSE spent + lost

\* The measured estimate was below the budget before the corrections came that
\* the conversation ends with.
BelowBeforeSteers ==
    \E k \in 0..Len(conversation) :
       /\ \A i \in k + 1..Len(conversation) : conversation[i].kind = "steer"
       /\ EstimateOf(SubSeq(conversation, 1, k)) < Budget

\* Under a policy a request leaves only with a conversation whose heuristic
\* size is below the budget, steers that arrived while maintenance made room
\* included, and whose measured estimate was below it but for corrections at
\* its end: those that came after the decision count by the heuristic alone.
WithinBudget ==
    Policy /\ pc \in {"send", "stream"} =>
        /\ Size(conversation) < Budget
        /\ BelowBeforeSteers

\* "A failed/cancelled replacement never replaces accepted context": from the
\* cancel on, the conversation can only gain steers and tool results.
CancelFreezesContext ==
    [][phase = "cancelled" =>
          \/ UNCHANGED active
          \/ /\ UNCHANGED continuation
             /\ \E m \in {Steer(s) : s \in Steers}
                        \cup {Result(attempt, c) : c \in Calls} :
                   conversation' = Append(conversation, m)]_vars

\* Maintenance that nothing but the soft trigger asks for.
OnlySoftDue == due = NotDue /\ due'.soft /\ ~due'.hard /\ ~due'.manual /\ ~maint.force
GrownFrom(tokens) == due'.estimate >= tokens + Growth

\* It finds the estimate Growth beyond what the last maintenance left, or
\* beyond what the first measured request after a native compaction counted.
SoftNeedsGrowth ==
    [][OnlySoftDue => \/ settled.estimate = None
                      \/ GrownFrom(settled.estimate)
                      \/ settled.measured # None /\ GrownFrom(settled.measured)]_vars

\* "Minimum growth after maintenance before soft maintenance runs again"
\* (context.rs:25): it finds that estimate Growth beyond what was left.
GrowthBetweenMaintenance ==
    [][OnlySoftDue => settled.estimate = None \/ GrownFrom(settled.estimate)]_vars

\* If every round and every tool is answered somehow, the turn ends: overflow
\* recovery, maintenance, interrupts and tool rounds cannot feed each other
\* for ever.
TurnTerminates == WF_vars(Answers) => (pc = "boundary" ~> pc = "done")
=============================================================================
