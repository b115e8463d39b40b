----------------------------- MODULE TaskControl -----------------------------
(***************************************************************************)
(* kodkod-core/src/agent/control.rs: the handle shared by the host threads *)
(* that steer and cancel a turn and by the agent that runs it.             *)
(*                                                                         *)
(* Every critical section of the mailbox mutex is one action: the only     *)
(* thing such a section reads that the mutex does not protect is one load  *)
(* of `cancelled`, at which the action takes place.  What lies outside a   *)
(* section - the swap of `cancelled`, the notification that follows an     *)
(* unlock, each registration of a listener and each re-check - is a step   *)
(* of its own and interleaves freely.                                      *)
(*                                                                         *)
(* The agent side is the skeleton of agent.rs that uses the control: open, *)
(* drain at a round boundary, wait on an operation under cancel_or (with   *)
(* steering_ready when immediate steering is on), close_if_empty, and the  *)
(* TurnGuard that closes on every other exit.                              *)
(***************************************************************************)
EXTENDS Integers, Sequences, FiniteSets, Functions

CONSTANTS
    Agents,             \* executions that try to start with this control
    Steerers,           \* threads that offer one correction each
    EarlySteerers,      \* those that call queue_steer instead of steer
    Cancellers,         \* threads that call cancel
    Immediate           \* Agent::immediate_steering

ASSUME SteererAssumption == EarlySteerers \subseteq Steerers
ASSUME ImmediateAssumption == Immediate \in BOOLEAN

VARIABLES
    cancelled,          \* AtomicBool
    admission,          \* Admission, under the mailbox mutex
    pending,            \* the mailbox's queue, under the same mutex
    cancelListener,     \* each agent's listener on the cancellation event
    steerListener,      \* each agent's listener on steering_available
    apc,                \* where each execution is
    wait,               \* what it waits for under cancel_or
    spc,                \* where each steering call is
    cpc,                \* where each cancelling call is
    delivered,          \* history: corrections drained by the agent
    earlier,            \* history: calls accepted before a call began
    late                \* history: calls begun after cancel took effect

vars == <<cancelled, admission, pending, cancelListener, steerListener,
          apc, wait, spc, cpc, delivered, earlier, late>>
mailbox == <<admission, pending, delivered>>
threads == <<spc, cpc, earlier, late>>
agents == <<apc, wait, cancelListener, steerListener>>

Admissions == {"fresh", "open", "closed"}
Listeners == {"none", "waiting", "notified"}
Waits == {"maintenance", "stream", "tools"}
AgentSteps == {"new", "boundary", "redrain", "check", "listen", "recheck",
               "guard", "steerListen", "steerCheck", "operate", "asleep",
               "accept", "closing", "failing", "refused", "completed", "failed"}
SteerSteps == {"idle", "called", "notify", "accepted", "refused"}
CancelSteps == {"idle", "close", "notify", "returned"}

Running(a) == apc[a] \notin {"new", "refused", "completed", "failed"}

TypeOK ==
    /\ cancelled \in BOOLEAN
    /\ admission \in Admissions
    /\ pending \in Seq(Steerers)
    /\ delivered \in Seq(Steerers)
    /\ cancelListener \in [Agents -> Listeners]
    /\ steerListener \in [Agents -> Listeners]
    /\ apc \in [Agents -> AgentSteps]
    /\ wait \in [Agents -> Waits]
    /\ spc \in [Steerers -> SteerSteps]
    /\ cpc \in [Cancellers -> CancelSteps]
    /\ earlier \in [Steerers -> SUBSET Steerers]
    /\ late \in SUBSET Steerers

Init ==
    /\ cancelled = FALSE
    /\ admission = "fresh"
    /\ pending = <<>>
    /\ delivered = <<>>
    /\ cancelListener = [a \in Agents |-> "none"]
    /\ steerListener = [a \in Agents |-> "none"]
    /\ apc = [a \in Agents |-> "new"]
    /\ wait = [a \in Agents |-> "stream"]
    /\ spc = [s \in Steerers |-> "idle"]
    /\ cpc = [c \in Cancellers |-> "idle"]
    /\ earlier = [s \in Steerers |-> {}]
    /\ late = {}

-----------------------------------------------------------------------------
(* An operator named X_Y is X with the mistake Y; nothing here uses it.     *)

(* Event::notify(usize::MAX): every listener registered now is notified.   *)
Notified(listener) ==
    [a \in Agents |-> IF listener[a] = "waiting" THEN "notified" ELSE listener[a]]

-----------------------------------------------------------------------------
(* steer and queue_steer.                                                   *)

SteerCall(s) ==
    /\ spc[s] = "idle"
    /\ spc' = [spc EXCEPT ![s] = "called"]
    /\ earlier' = [earlier EXCEPT ![s] = {t \in Steerers : spc[t] = "accepted"}]
    /\ late' = IF cancelled THEN late \cup {s} ELSE late
    /\ UNCHANGED <<cancelled, mailbox, agents, cpc>>

\* The `accepting` condition and the load of `cancelled`, under the lock.
Accepting_QueuesWhenClosed(s) ==
    ~cancelled /\ (admission = "open" \/ s \in EarlySteerers)
Accepting(s) ==
    /\ ~cancelled
    /\ admission = "open" \/ (s \in EarlySteerers /\ admission = "fresh")

Queued_InFront(s) == <<s>> \o pending
Queued(s) == Append(pending, s)

EnqueueSteer(s) ==
    /\ spc[s] = "called"
    /\ Accepting(s)
    /\ pending' = Queued(s)
    /\ spc' = [spc EXCEPT ![s] = "notify"]
    /\ UNCHANGED <<cancelled, admission, delivered, agents, cpc, earlier, late>>

RefuseSteer(s) ==
    /\ spc[s] = "called"
    /\ ~Accepting(s)
    /\ spc' = [spc EXCEPT ![s] = "refused"]
    /\ UNCHANGED <<cancelled, mailbox, agents, cpc, earlier, late>>

SteerNotify(s) ==
    /\ spc[s] = "notify"
    /\ steerListener' = Notified(steerListener)
    /\ spc' = [spc EXCEPT ![s] = "accepted"]
    /\ UNCHANGED <<cancelled, mailbox, apc, wait, cancelListener, cpc, earlier, late>>

-----------------------------------------------------------------------------
(* cancel: a swap, then the close, then the notification.                   *)

CancelSwap(c) ==
    /\ cpc[c] = "idle"
    /\ cancelled' = TRUE
    /\ cpc' = [cpc EXCEPT ![c] = IF cancelled THEN "returned" ELSE "close"]
    /\ UNCHANGED <<mailbox, agents, spc, earlier, late>>

CancelClose(c) ==
    /\ cpc[c] = "close"
    /\ admission' = "closed"
    /\ cpc' = [cpc EXCEPT ![c] = "notify"]
    /\ UNCHANGED <<cancelled, pending, delivered, agents, spc, earlier, late>>

CancelNotify(c) ==
    /\ cpc[c] = "notify"
    /\ cancelListener' = Notified(cancelListener)
    /\ cpc' = [cpc EXCEPT ![c] = "returned"]
    /\ UNCHANGED <<cancelled, mailbox, apc, wait, steerListener, spc, earlier, late>>

-----------------------------------------------------------------------------
(* The agent.  Goto(a, p) moves its program counter alone.                  *)

Goto(a, p) == apc' = [apc EXCEPT ![a] = p]

\* open: any attempt but the first one, or one after a cancel, closes.
MayOpen == admission = "fresh" /\ ~cancelled

Open(a) ==
    /\ apc[a] = "new"
    /\ IF MayOpen
       THEN admission' = "open" /\ Goto(a, "boundary")
       ELSE admission' = "closed" /\ Goto(a, "refused")
    /\ UNCHANGED <<cancelled, pending, delivered, wait,
                   cancelListener, steerListener, threads>>

\* drain_pending_steers_unless_cancelled, at the top of a round and again
\* after maintenance under a policy.
Drain(a) ==
    /\ apc[a] \in {"boundary", "redrain"}
    /\ ~cancelled
    /\ delivered' = delivered \o pending
    /\ pending' = <<>>
    /\ \E w \in {"stream"} \cup (IF apc[a] = "boundary" THEN {"maintenance"} ELSE {}) :
          wait' = [wait EXCEPT ![a] = w]
    /\ Goto(a, "check")
    /\ UNCHANGED <<cancelled, admission, cancelListener, steerListener, threads>>

DrainCancelled(a) ==
    /\ apc[a] \in {"boundary", "redrain"}
    /\ cancelled
    /\ Goto(a, "failing")
    /\ UNCHANGED <<cancelled, mailbox, wait, cancelListener, steerListener, threads>>

\* cancelled(): load, listen, load again, and only then wait.
CheckCancelled(a) ==
    /\ apc[a] \in {"check", "recheck"}
    /\ \/ cancelled /\ Goto(a, "failing")
       \/ ~cancelled /\ apc[a] = "check" /\ Goto(a, "listen")
       \/ ~cancelled /\ apc[a] = "recheck"
          /\ Goto(a, IF Immediate /\ wait[a] = "stream" THEN "guard" ELSE "operate")
    /\ UNCHANGED <<cancelled, mailbox, wait, cancelListener, steerListener, threads>>

ListenCancelled_NoRecheck(a) ==
    /\ apc[a] = "listen"
    /\ cancelListener' = [cancelListener EXCEPT ![a] = "waiting"]
    /\ Goto(a, "operate")
    /\ UNCHANGED <<cancelled, mailbox, wait, steerListener, threads>>
ListenCancelled(a) ==
    /\ apc[a] = "listen"
    /\ cancelListener' = [cancelListener EXCEPT ![a] = "waiting"]
    /\ Goto(a, "recheck")
    /\ UNCHANGED <<cancelled, mailbox, wait, steerListener, threads>>

\* The poll_fn of immediate steering: cancellation, then steering, then the
\* provider's stream.
GuardStream(a) ==
    /\ apc[a] = "guard"
    /\ Goto(a, IF cancelled THEN "failing"
               ELSE IF steerListener[a] = "waiting" THEN "operate" ELSE "steerListen")
    /\ UNCHANGED <<cancelled, mailbox, wait, cancelListener, steerListener, threads>>

\* steering_ready(): listen, look into the mailbox, and only then wait.
ListenSteering_NoCheck(a) ==
    /\ apc[a] = "steerListen"
    /\ steerListener' = [steerListener EXCEPT ![a] = "waiting"]
    /\ Goto(a, "operate")
    /\ UNCHANGED <<cancelled, mailbox, wait, cancelListener, threads>>
ListenSteering(a) ==
    /\ apc[a] = "steerListen"
    /\ steerListener' = [steerListener EXCEPT ![a] = "waiting"]
    /\ Goto(a, "steerCheck")
    /\ UNCHANGED <<cancelled, mailbox, wait, cancelListener, threads>>

Unlistened(listener, a) == [listener EXCEPT ![a] = "none"]

CheckSteering(a) ==
    /\ apc[a] = "steerCheck"
    /\ \/ /\ pending = <<>>
          /\ Goto(a, IF steerListener[a] = "notified" THEN "steerListen" ELSE "operate")
          /\ UNCHANGED <<cancelListener, steerListener>>
       \/ /\ pending # <<>>                     \* the stream is dropped
          /\ Goto(a, "boundary")
          /\ cancelListener' = Unlistened(cancelListener, a)
          /\ steerListener' = Unlistened(steerListener, a)
    /\ UNCHANGED <<cancelled, mailbox, wait, threads>>

\* The operation itself is ready, or the task goes to sleep.
OperationReady(a) ==
    /\ apc[a] = "operate"
    /\ Goto(a, "accept")
    /\ cancelListener' = Unlistened(cancelListener, a)
    /\ steerListener' = Unlistened(steerListener, a)
    /\ UNCHANGED <<cancelled, mailbox, wait, threads>>

Suspend(a) ==
    /\ apc[a] = "operate"
    /\ Goto(a, "asleep")
    /\ UNCHANGED <<cancelled, mailbox, wait, cancelListener, steerListener, threads>>

\* A wake-up polls the cancellation first.
WakeCancelled(a) ==
    /\ apc[a] = "asleep"
    /\ cancelListener[a] = "notified"
    /\ Goto(a, "check")
    /\ UNCHANGED <<cancelled, mailbox, wait, cancelListener, steerListener, threads>>

Repoll(a) ==
    /\ apc[a] = "asleep"
    /\ cancelListener[a] # "notified"
    /\ Goto(a, IF Immediate /\ wait[a] = "stream" THEN "guard" ELSE "operate")
    /\ UNCHANGED <<cancelled, mailbox, wait, cancelListener, steerListener, threads>>

WakeSteering(a) == steerListener[a] = "notified" /\ Repoll(a)
WakeOperation(a) == Repoll(a)

\* What the agent does with a finished operation.  A stream's item counts
\* only if the turn is not cancelled by now, a tool's result counts anyway.
\* A text delta or a further tool result starts another wait.
AcceptStream(a) ==
    /\ apc[a] = "accept" /\ wait[a] = "stream"
    /\ IF cancelled
       THEN Goto(a, "failing") /\ UNCHANGED wait
       ELSE \/ Goto(a, "check") /\ UNCHANGED wait            \* text delta
            \/ Goto(a, "closing") /\ UNCHANGED wait          \* reply, no calls
            \/ Goto(a, "check") /\ wait' = [wait EXCEPT ![a] = "tools"]
    /\ UNCHANGED <<cancelled, mailbox, cancelListener, steerListener, threads>>

AcceptMaintenance(a) ==
    /\ apc[a] = "accept" /\ wait[a] = "maintenance"
    /\ \/ Goto(a, "redrain") /\ UNCHANGED wait               \* policy
       \/ /\ ~cancelled                                      \* on request
          /\ Goto(a, "check")
          /\ wait' = [wait EXCEPT ![a] = "stream"]
    /\ UNCHANGED <<cancelled, mailbox, cancelListener, steerListener, threads>>

AcceptToolResult(a) ==
    /\ apc[a] = "accept" /\ wait[a] = "tools"
    /\ Goto(a, "check") \/ Goto(a, "boundary")
    /\ UNCHANGED <<cancelled, mailbox, wait, cancelListener, steerListener, threads>>

\* The operation's result, or a check before it starts, ends the turn.
TurnFailed(a) ==
    /\ apc[a] \in {"accept", "check"}
    /\ Goto(a, "failing")
    /\ UNCHANGED <<cancelled, mailbox, wait, cancelListener, steerListener, threads>>

\* The reply asked for no tool: close_if_empty decides whether it is the end.
CloseIfEmpty_NoLook(a) ==
    /\ apc[a] = "closing"
    /\ admission' = "closed"
    /\ Goto(a, "completed")
    /\ UNCHANGED <<cancelled, pending, delivered, wait,
                   cancelListener, steerListener, threads>>
CloseIfEmpty(a) ==
    /\ apc[a] = "closing"
    /\ IF pending = <<>>
       THEN admission' = "closed" /\ Goto(a, "completed")
       ELSE UNCHANGED admission /\ Goto(a, "boundary")
    /\ UNCHANGED <<cancelled, pending, delivered, wait,
                   cancelListener, steerListener, threads>>

\* The host drops the task at a yield or while it is pending.
DropTask(a) ==
    /\ apc[a] \in {"boundary", "redrain", "check", "asleep", "closing"}
    /\ Goto(a, "failing")
    /\ UNCHANGED <<cancelled, mailbox, wait, cancelListener, steerListener, threads>>

\* TurnGuard::drop.
GuardClose(a) ==
    /\ apc[a] = "failing"
    /\ admission' = "closed"
    /\ Goto(a, "failed")
    /\ cancelListener' = Unlistened(cancelListener, a)
    /\ steerListener' = Unlistened(steerListener, a)
    /\ UNCHANGED <<cancelled, pending, delivered, wait, threads>>
-----------------------------------------------------------------------------
\* Steps a scheduled task takes without help from a provider, tool or host.
AgentStep(a) ==
    \/ Drain(a) \/ DrainCancelled(a)
    \/ CheckCancelled(a) \/ ListenCancelled(a)
    \/ GuardStream(a) \/ ListenSteering(a) \/ CheckSteering(a)
    \/ Suspend(a) \/ WakeCancelled(a) \/ WakeSteering(a)
    \/ AcceptStream(a) \/ AcceptMaintenance(a) \/ AcceptToolResult(a)
    \/ CloseIfEmpty(a) \/ GuardClose(a)

SteerStep(s) == EnqueueSteer(s) \/ RefuseSteer(s) \/ SteerNotify(s)
CancelStep(c) == CancelClose(c) \/ CancelNotify(c)

Environment ==
    \/ \E a \in Agents : \/ Open(a) \/ OperationReady(a) \/ WakeOperation(a)
                         \/ TurnFailed(a) \/ DropTask(a)
    \/ \E s \in Steerers : SteerCall(s)
    \/ \E c \in Cancellers : CancelSwap(c)

Next ==
    \/ Environment
    \/ \E a \in Agents : AgentStep(a)
    \/ \E s \in Steerers : SteerStep(s)
    \/ \E c \in Cancellers : CancelStep(c)

Spec == Init /\ [][Next]_vars

\* The executor polls a task that was woken, a thread that holds no lock runs
\* on; nothing is assumed of providers, tools or hosts.
FairSpec ==
    /\ Spec
    /\ \A a \in Agents : WF_vars(AgentStep(a))
    /\ \A s \in Steerers : WF_vars(SteerStep(s))
    /\ \A c \in Cancellers : WF_vars(CancelStep(c))
-----------------------------------------------------------------------------
(* Properties.                                                              *)

Outcome(s) == spc[s] \in {"notify", "accepted"}
PastOpen(a) == apc[a] \notin {"new", "refused"}

\* Corrections reach the model in the order in which their callers were told
\* "accepted": of two calls one of which returned before the other began, the
\* later one is never handed over first, and none is handed over twice
\* (enqueue_steer's push_back, the drain under the same lock).
DeliveredInCallOrder ==
    \A i, j \in DOMAIN delivered :
        /\ delivered[i] = delivered[j] => i = j
        /\ delivered[i] \in earlier[delivered[j]] => i < j

\* A turn that completed has handed over every correction that any caller saw
\* accepted, then and for ever after: close_if_empty leaves no window between
\* its look at the queue and the close.
CompletedLosesNothing ==
    \A a \in Agents, s \in Steerers :
        apc[a] = "completed" /\ Outcome(s) => s \in Range(delivered)

\* Whoever steers after a cancel took effect gets the message back, even while
\* that cancel has not closed the mailbox yet.
LateSteerRefused == \A s \in late : ~Outcome(s)

\* "One-execution handle": at most one execution ever gets past open.
OneExecution ==
    Cardinality({a \in Agents : PastOpen(a)}) <= 1

\* A mailbox that was closed stays closed, and no execution opens after a
\* cancel has returned to its caller.
NeverReopened ==
    [][/\ admission = "closed" => admission' = "closed"
       /\ (\E c \in Cancellers : cpc[c] = "returned") => \A a \in Agents :
             apc[a] = "new" => apc'[a] \in {"new", "refused"}]_vars

\* Cancelling is noticed without any help from the provider, a tool or the
\* host: no wake-up is lost between the checks and the wait of cancelled().
CancelEndsTurn ==
    \A a \in Agents : (cancelled /\ Running(a)) ~> ~Running(a)

\* With immediate steering a correction interrupts a silent provider: no
\* wake-up is lost between the look into the mailbox and the wait.
SteerInterruptsStream ==
    \A a \in Agents :
        (Immediate /\ Running(a) /\ wait[a] = "stream" /\ pending # <<>>)
            ~> (~Running(a) \/ pending = <<>> \/ wait[a] # "stream")

\* Everything that was ever accepted, in order of acceptance.
Accepted == delivered \o pending

LateInv ==
    /\ (late # {} \/ \E c \in Cancellers : cpc[c] # "idle") => cancelled
    /\ \A s \in late : spc[s] # "idle" /\ ~Outcome(s)
OpenInv ==
    /\ admission = "fresh" => \A a \in Agents : apc[a] = "new"
    /\ \A a, b \in Agents : PastOpen(a) /\ PastOpen(b) => a = b
    /\ \A a \in Agents : apc[a] = "completed" => pending = <<>> /\ admission = "closed"
QueueInv ==
    /\ \A s \in Steerers : Outcome(s) <=> s \in Range(Accepted)
    /\ \A s, t \in Steerers : t \in earlier[s] => spc[t] = "accepted"
    /\ \A i, j \in DOMAIN Accepted :
          /\ Accepted[i] = Accepted[j] => i = j
          /\ Accepted[i] \in earlier[Accepted[j]] => i < j

\* The inductive invariant behind the safety properties above: a late call was
\* made after the cancel; only one execution is past open, and a fresh mailbox
\* has seen none; a completed one left an empty closed mailbox; and the queue
\* with the history is exactly what callers saw accepted, in call order.
ControlInvariant == LateInv /\ OpenInv /\ QueueInv

\* The mailbox implements its abstract specification.
Mailbox == INSTANCE SteeringMailbox WITH
    Message <- Steerers,
    phase <- IF cancelled THEN "cancelled" ELSE admission,
    queue <- pending,
    refused <- {s \in Steerers : spc[s] = "refused"},
    finished <- \E a \in Agents : apc[a] = "completed"

MailboxSpec == Mailbox!Spec
=============================================================================
