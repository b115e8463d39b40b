------------------------------ MODULE Host_proofs ------------------------------
(***************************************************************************)
(* Proofs about the two things a host holds of an agent.  About            *)
(* TaskControl, the handle on a running task: for every number of          *)
(* executions, steering threads and cancelling threads, with and without   *)
(* immediate steering.  About DurableContext, what it saves: for           *)
(* transcripts of any content, for any identities, and for every number of *)
(* compactions, crashes and saves.                                         *)
(***************************************************************************)
EXTENDS TaskControl, DurableContext, FiniteSetTheorems, SequenceTheorems, TLAPS

-----------------------------------------------------------------------------
(* TaskControl.                                                            *)

(***************************************************************************)
(* An execution's steps, sorted by what they do to the shared state.       *)
(* A quiet step moves one running execution on and touches nothing that    *)
(* the steering and cancelling threads can see.                            *)
(***************************************************************************)
Quiet(a) ==
    /\ apc[a] \notin {"new", "refused", "completed", "failed"}
    /\ \E p \in AgentSteps \ {"new", "refused", "completed", "failed"} :
          apc' = [apc EXCEPT ![a] = p]
    /\ wait' \in {wait} \cup {[wait EXCEPT ![a] = w] : w \in Waits}
    /\ cancelListener' \in {cancelListener}
         \cup {[cancelListener EXCEPT ![a] = l] : l \in Listeners}
    /\ steerListener' \in {steerListener}
         \cup {[steerListener EXCEPT ![a] = l] : l \in Listeners}
    /\ UNCHANGED <<cancelled, mailbox, threads>>

AgentAction(a) ==
    Open(a) \/ Drain(a) \/ CloseIfEmpty(a) \/ GuardClose(a) \/ Quiet(a)

\* Every step of an execution that is none of the four that use the mailbox
\* is a quiet one.
LEMMA QuietSteps ==
    ASSUME NEW a \in Agents,
           \/ DrainCancelled(a) \/ CheckCancelled(a) \/ ListenCancelled(a)
           \/ GuardStream(a) \/ ListenSteering(a) \/ CheckSteering(a)
           \/ OperationReady(a) \/ Suspend(a) \/ WakeCancelled(a) \/ Repoll(a)
           \/ AcceptStream(a) \/ AcceptMaintenance(a) \/ AcceptToolResult(a)
           \/ TurnFailed(a) \/ DropTask(a)
    PROVE  Quiet(a)
<1>1. CASE DrainCancelled(a) \/ CheckCancelled(a) \/ ListenCancelled(a)
  BY <1>1 DEF DrainCancelled, CheckCancelled, ListenCancelled, Goto, Quiet,
     AgentSteps, Listeners, Waits, mailbox, threads
<1>2. CASE GuardStream(a) \/ ListenSteering(a) \/ CheckSteering(a)
  BY <1>2 DEF GuardStream, ListenSteering, CheckSteering, Unlistened, Goto, Quiet,
     AgentSteps, Listeners, Waits, mailbox, threads
<1>3. CASE OperationReady(a) \/ Suspend(a) \/ WakeCancelled(a) \/ Repoll(a)
  BY <1>3 DEF OperationReady, Suspend, WakeCancelled, Repoll, Unlistened, Goto, Quiet,
     AgentSteps, Listeners, Waits, mailbox, threads
<1>4. CASE AcceptStream(a) \/ AcceptMaintenance(a) \/ AcceptToolResult(a)
  BY <1>4 DEF AcceptStream, AcceptMaintenance, AcceptToolResult, Goto, Quiet,
     AgentSteps, Listeners, Waits, mailbox, threads
<1>5. CASE TurnFailed(a) \/ DropTask(a)
  BY <1>5 DEF TurnFailed, DropTask, Goto, Quiet,
     AgentSteps, Listeners, Waits, mailbox, threads
<1> QED
  BY <1>1, <1>2, <1>3, <1>4, <1>5

\* The next-state relation in terms of that classification.
LEMMA NextCases ==
    ASSUME Next
    PROVE  \/ \E a \in Agents : AgentAction(a)
           \/ \E s \in Steerers : SteerCall(s) \/ EnqueueSteer(s)
                                  \/ RefuseSteer(s) \/ SteerNotify(s)
           \/ \E c \in Cancellers : CancelSwap(c) \/ CancelClose(c) \/ CancelNotify(c)
<1>1. ASSUME NEW a \in Agents,
             AgentStep(a) \/ Open(a) \/ OperationReady(a) \/ WakeOperation(a)
                \/ TurnFailed(a) \/ DropTask(a)
      PROVE  AgentAction(a)
  BY <1>1, QuietSteps, Zenon DEF AgentStep, WakeSteering, WakeOperation, AgentAction
<1> QED
  BY <1>1, Zenon DEF Next, Environment, SteerStep, CancelStep

-----------------------------------------------------------------------------
(* Type correctness.                                                       *)

\* A new control is well typed.
LEMMA TypeInit == Init => TypeOK
<1> SUFFICES ASSUME Init PROVE TypeOK
  OBVIOUS
<1>1. cancelled \in BOOLEAN /\ admission \in Admissions
  BY DEF Init, Admissions
<1>2. pending \in Seq(Steerers) /\ delivered \in Seq(Steerers)
  BY DEF Init
<1>3. /\ cancelListener \in [Agents -> Listeners]
      /\ steerListener \in [Agents -> Listeners]
  BY DEF Init, Listeners
<1>4. apc \in [Agents -> AgentSteps] /\ wait \in [Agents -> Waits]
  BY DEF Init, AgentSteps, Waits
<1>5. spc \in [Steerers -> SteerSteps] /\ cpc \in [Cancellers -> CancelSteps]
  BY DEF Init, SteerSteps, CancelSteps
<1>6. earlier \in [Steerers -> SUBSET Steerers] /\ late \in SUBSET Steerers
  BY DEF Init
<1> QED
  BY <1>1, <1>2, <1>3, <1>4, <1>5, <1>6 DEF TypeOK

\* Every step keeps it so.
LEMMA TypeNext == TypeOK /\ [Next]_vars => TypeOK'
<1> USE DEF TypeOK, mailbox, threads, agents
<1> SUFFICES ASSUME TypeOK, [Next]_vars
             PROVE  TypeOK'
  OBVIOUS
<1>1. ASSUME NEW a \in Agents, AgentAction(a)
      PROVE  TypeOK'
  <2>1. CASE Open(a)
    BY <2>1 DEF Open, Goto, AgentSteps, Admissions
  <2>2. CASE Drain(a)
    BY <2>2 DEF Drain, Goto, AgentSteps, Waits
  <2>3. CASE CloseIfEmpty(a)
    BY <2>3 DEF CloseIfEmpty, Goto, AgentSteps, Admissions
  <2>4. CASE GuardClose(a)
    BY <2>4 DEF GuardClose, Goto, AgentSteps, Admissions, Unlistened, Listeners
  <2>5. CASE Quiet(a)
    BY <2>5 DEF Quiet
  <2> QED
    BY <1>1, <2>1, <2>2, <2>3, <2>4, <2>5 DEF AgentAction
<1>2. ASSUME NEW s \in Steerers,
             SteerCall(s) \/ EnqueueSteer(s) \/ RefuseSteer(s) \/ SteerNotify(s)
      PROVE  TypeOK'
  <2>1. CASE SteerCall(s)
    BY <2>1 DEF SteerCall, SteerSteps
  <2>2. CASE EnqueueSteer(s)
    BY <2>2 DEF EnqueueSteer, Queued, SteerSteps
  <2>3. CASE RefuseSteer(s)
    BY <2>3 DEF RefuseSteer, SteerSteps
  <2>4. CASE SteerNotify(s)
    BY <2>4 DEF SteerNotify, Notified, SteerSteps, Listeners
  <2> QED
    BY <1>2, <2>1, <2>2, <2>3, <2>4
<1>3. ASSUME NEW c \in Cancellers, CancelSwap(c) \/ CancelClose(c) \/ CancelNotify(c)
      PROVE  TypeOK'
  BY <1>3 DEF CancelSwap, CancelClose, CancelNotify, Notified,
     CancelSteps, Admissions, Listeners
<1>4. CASE UNCHANGED vars
  BY <1>4 DEF vars
<1> QED
  BY <1>1, <1>2, <1>3, <1>4, NextCases

\* Every reachable state of a TaskControl is well typed.
THEOREM TypeCorrect == Spec => []TypeOK
BY TypeInit, TypeNext, PTL DEF Spec

-----------------------------------------------------------------------------
(* The inductive invariant.                                                *)

\* A new control satisfies the invariant.
LEMMA InvInit == Init => ControlInvariant
BY DEF Init, ControlInvariant, LateInv, OpenInv, QueueInv, Accepted, Outcome, PastOpen, Range

\* Whoever comes late sees the flag, after every step.
LEMMA LateNext == TypeOK /\ LateInv /\ [Next]_vars => LateInv'
<1> USE DEF LateInv, Outcome, mailbox, threads, agents
<1> SUFFICES ASSUME TypeOK, LateInv, [Next]_vars
             PROVE  LateInv'
  OBVIOUS
<1>1. ASSUME NEW a \in Agents, AgentAction(a)
      PROVE  LateInv'
  BY <1>1 DEF AgentAction, Open, Drain, CloseIfEmpty, GuardClose, Quiet
<1>2. ASSUME NEW s \in Steerers,
             SteerCall(s) \/ EnqueueSteer(s) \/ RefuseSteer(s) \/ SteerNotify(s)
      PROVE  LateInv'
  <2>1. CASE SteerCall(s)
    BY <2>1 DEF SteerCall, TypeOK
  <2>2. CASE EnqueueSteer(s)
    BY <2>2 DEF EnqueueSteer, Accepting, TypeOK
  <2>3. CASE RefuseSteer(s) \/ SteerNotify(s)
    BY <2>3 DEF RefuseSteer, SteerNotify, TypeOK
  <2> QED
    BY <1>2, <2>1, <2>2, <2>3
<1>3. ASSUME NEW c \in Cancellers, CancelSwap(c) \/ CancelClose(c) \/ CancelNotify(c)
      PROVE  LateInv'
  BY <1>3 DEF CancelSwap, CancelClose, CancelNotify, TypeOK
<1>4. CASE UNCHANGED vars
  BY <1>4 DEF vars
<1> QED
  BY <1>1, <1>2, <1>3, <1>4, NextCases

\* At most one execution is past open, after every step.
LEMMA OpenNext == TypeOK /\ OpenInv /\ [Next]_vars => OpenInv'
<1> USE DEF OpenInv, PastOpen, mailbox, threads, agents
<1> SUFFICES ASSUME TypeOK, OpenInv, [Next]_vars
             PROVE  OpenInv'
  OBVIOUS
<1>1. ASSUME NEW a \in Agents, AgentAction(a)
      PROVE  OpenInv'
  <2>1. CASE Open(a)
    BY <2>1 DEF Open, MayOpen, Goto, TypeOK
  <2>2. CASE Drain(a)
    BY <2>2 DEF Drain, Goto, TypeOK
  <2>3. CASE CloseIfEmpty(a)
    BY <2>3 DEF CloseIfEmpty, Goto, TypeOK
  <2>4. CASE GuardClose(a)
    BY <2>4 DEF GuardClose, Goto, TypeOK
  <2>5. CASE Quiet(a)
    BY <2>5 DEF Quiet, TypeOK
  <2> QED
    BY <1>1, <2>1, <2>2, <2>3, <2>4, <2>5 DEF AgentAction
<1>2. ASSUME NEW s \in Steerers,
             SteerCall(s) \/ EnqueueSteer(s) \/ RefuseSteer(s) \/ SteerNotify(s)
      PROVE  OpenInv'
  BY <1>2 DEF SteerCall, EnqueueSteer, Accepting, RefuseSteer, SteerNotify
<1>3. ASSUME NEW c \in Cancellers, CancelSwap(c) \/ CancelClose(c) \/ CancelNotify(c)
      PROVE  OpenInv'
  BY <1>3 DEF CancelSwap, CancelClose, CancelNotify
<1>4. CASE UNCHANGED vars
  BY <1>4 DEF vars
<1> QED
  BY <1>1, <1>2, <1>3, <1>4, NextCases

\* Handing the queue over leaves the sequence of accepted corrections alone,
\* and accepting one appends it there.
LEMMA AcceptedMoves ==
    ASSUME NEW S, NEW d \in Seq(S), NEW q \in Seq(S), NEW s \in S
    PROVE  /\ (d \o q) \o <<>> = d \o q
           /\ d \o Append(q, s) = Append(d \o q, s)
           /\ d \o q \in Seq(S)
OBVIOUS

\* No step loses, repeats or reorders a correction.
LEMMA QueueNext == TypeOK /\ QueueInv /\ [Next]_vars => QueueInv'
<1> USE DEF mailbox, threads, agents
<1> SUFFICES ASSUME TypeOK, QueueInv, [Next]_vars
             PROVE  QueueInv'
  OBVIOUS
<1>0. Accepted \in Seq(Steerers) /\ spc \in [Steerers -> SteerSteps]
      /\ earlier \in [Steerers -> SUBSET Steerers]
  BY DEF TypeOK, Accepted
<1>1. ASSUME NEW a \in Agents, AgentAction(a)
      PROVE  QueueInv'
  <2>1. UNCHANGED <<spc, earlier>>
    BY <1>1 DEF AgentAction, Open, Drain, CloseIfEmpty, GuardClose, Quiet
  <2>2. Accepted' = Accepted
    <3>1. CASE Drain(a)
      BY <3>1, AcceptedMoves DEF Drain, Accepted, TypeOK
    <3>2. CASE Open(a) \/ CloseIfEmpty(a) \/ GuardClose(a) \/ Quiet(a)
      BY <3>2 DEF Open, CloseIfEmpty, GuardClose, Quiet, Accepted
    <3> QED
      BY <1>1, <3>1, <3>2 DEF AgentAction
  <2> QED
    BY <2>1, <2>2 DEF QueueInv, Outcome
<1>2. ASSUME NEW s \in Steerers, EnqueueSteer(s)
      PROVE  QueueInv'
  <2>1. Accepted' = Append(Accepted, s)
    BY <1>2, AcceptedMoves DEF EnqueueSteer, Queued, Accepted, TypeOK
  <2>2. spc[s] = "called" /\ spc' = [spc EXCEPT ![s] = "notify"] /\ earlier' = earlier
    BY <1>2 DEF EnqueueSteer
  <2>3. DOMAIN Accepted = 1..Len(Accepted) /\ DOMAIN Accepted' = 1..(Len(Accepted) + 1)
        /\ Len(Accepted) \in Nat
    BY <1>0, <2>1
  <2>4. /\ \A i \in DOMAIN Accepted : Accepted'[i] = Accepted[i] /\ Accepted[i] \in Steerers
        /\ Accepted'[Len(Accepted) + 1] = s
    BY <1>0, <2>1
  <2>5. s \notin Range(Accepted)
    BY <2>2 DEF QueueInv, Outcome
  <2>6. \A t \in Steerers : Outcome(t)' <=> t \in Range(Accepted')
    <3>1. Range(Accepted') = Range(Accepted) \cup {s}
      BY <2>3, <2>4 DEF Range
    <3> QED
      BY <1>0, <2>2, <3>1 DEF QueueInv, Outcome
  <2>7. \A t, u \in Steerers : u \in earlier'[t] => spc'[u] = "accepted"
    BY <1>0, <2>2 DEF QueueInv
  <2>8. \A i, j \in DOMAIN Accepted' :
           /\ Accepted'[i] = Accepted'[j] => i = j
           /\ Accepted'[i] \in earlier'[Accepted'[j]] => i < j
    <3> TAKE i, j \in DOMAIN Accepted'
    <3>1. CASE i \in DOMAIN Accepted /\ j \in DOMAIN Accepted
      BY <3>1, <2>2, <2>4 DEF QueueInv
    <3>2. CASE i = Len(Accepted) + 1 /\ j \in DOMAIN Accepted
      <4>1. s \notin earlier[Accepted[j]]
        BY <3>2, <2>2, <2>4 DEF QueueInv
      <4> QED
        BY <3>2, <4>1, <2>2, <2>4, <2>5 DEF Range
    <3>3. CASE j = Len(Accepted) + 1 /\ i \in DOMAIN Accepted
      BY <3>3, <2>3, <2>4, <2>5 DEF Range
    <3>4. CASE i = Len(Accepted) + 1 /\ j = Len(Accepted) + 1
      <4>1. s \notin earlier[s]
        BY <2>2 DEF QueueInv
      <4> QED
        BY <3>4, <4>1, <2>2, <2>4
    <3> QED
      BY <2>3, <3>1, <3>2, <3>3, <3>4
  <2> QED
    BY <2>6, <2>7, <2>8 DEF QueueInv
<1>3. ASSUME NEW s \in Steerers, SteerCall(s)
      PROVE  QueueInv'
  <2>1. /\ spc[s] = "idle" /\ spc' = [spc EXCEPT ![s] = "called"]
        /\ earlier' = [earlier EXCEPT ![s] = {t \in Steerers : spc[t] = "accepted"}]
        /\ Accepted' = Accepted
    BY <1>3 DEF SteerCall, Accepted
  <2>2. \A i \in DOMAIN Accepted : Accepted[i] \in Steerers /\ Accepted[i] # s
    BY <1>0, <2>1 DEF QueueInv, Outcome, Range
  <2> QED
    BY <1>0, <2>1, <2>2 DEF QueueInv, Outcome
<1>4. ASSUME NEW s \in Steerers, RefuseSteer(s) \/ SteerNotify(s)
      PROVE  QueueInv'
  <2>1. /\ spc[s] \in {"called", "notify"}
        /\ \/ spc[s] = "called" /\ spc' = [spc EXCEPT ![s] = "refused"]
           \/ spc[s] = "notify" /\ spc' = [spc EXCEPT ![s] = "accepted"]
        /\ earlier' = earlier /\ Accepted' = Accepted
    BY <1>4 DEF RefuseSteer, SteerNotify, Accepted
  <2> QED
    BY <1>0, <2>1 DEF QueueInv, Outcome
<1>5. ASSUME NEW c \in Cancellers, CancelSwap(c) \/ CancelClose(c) \/ CancelNotify(c)
      PROVE  QueueInv'
  BY <1>5 DEF CancelSwap, CancelClose, CancelNotify, QueueInv, Accepted, Outcome
<1>6. CASE UNCHANGED vars
  BY <1>6 DEF vars, QueueInv, Accepted, Outcome
<1> QED
  BY <1>1, <1>2, <1>3, <1>4, <1>5, <1>6, NextCases

\* ControlInvariant holds in every reachable state.
THEOREM InvariantHolds == Spec => []ControlInvariant
<1>1. Init => TypeOK /\ ControlInvariant
  BY TypeInit, InvInit
<1>2. TypeOK /\ ControlInvariant /\ [Next]_vars => TypeOK' /\ ControlInvariant'
  BY TypeNext, LateNext, OpenNext, QueueNext DEF ControlInvariant
<1> QED
  BY <1>1, <1>2, PTL DEF Spec

-----------------------------------------------------------------------------
(* The safety properties.                                                  *)

\* Corrections are handed over once each and in call order, however the
\* steering threads, the drains and the cancels interleave.
THEOREM InCallOrder == Spec => []DeliveredInCallOrder
<1>1. TypeOK /\ ControlInvariant => DeliveredInCallOrder
  <2> SUFFICES ASSUME TypeOK, QueueInv PROVE DeliveredInCallOrder
    BY DEF ControlInvariant
  <2>1. \A i \in DOMAIN delivered : i \in DOMAIN Accepted /\ Accepted[i] = delivered[i]
    BY DEF TypeOK, Accepted
  <2> QED
    BY <2>1 DEF QueueInv, DeliveredInCallOrder
<1> QED
  BY <1>1, TypeCorrect, InvariantHolds, PTL

\* A turn that completed lost no accepted correction.
THEOREM NothingLost == Spec => []CompletedLosesNothing
<1>1. TypeOK /\ ControlInvariant => CompletedLosesNothing
  <2> SUFFICES ASSUME TypeOK, OpenInv, QueueInv,
                      NEW a \in Agents, apc[a] = "completed",
                      NEW s \in Steerers, Outcome(s)
               PROVE  s \in Range(delivered)
    BY DEF ControlInvariant, CompletedLosesNothing
  <2>1. Accepted = delivered
    BY DEF OpenInv, Accepted, TypeOK
  <2> QED
    BY <2>1 DEF QueueInv
<1> QED
  BY <1>1, TypeCorrect, InvariantHolds, PTL

\* A correction offered after a cancel took effect goes back to its caller.
THEOREM LateRefused == Spec => []LateSteerRefused
<1>1. ControlInvariant => LateSteerRefused
  BY DEF ControlInvariant, LateInv, LateSteerRefused
<1> QED
  BY <1>1, InvariantHolds, PTL

\* One control never runs two executions.
THEOREM AtMostOneExecution == Spec => []OneExecution
<1>1. ControlInvariant => OneExecution
  <2> SUFFICES ASSUME OpenInv PROVE OneExecution
    BY DEF ControlInvariant
  <2> DEFINE Past == {a \in Agents : PastOpen(a)}
  <2>1. CASE Past = {}
    BY <2>1, FS_EmptySet DEF OneExecution
  <2>2. CASE Past # {}
    <3>1. PICK a : Past = {a}
      BY <2>2 DEF OpenInv
    <3>2. Cardinality(Past) = 1
      BY <3>1, FS_Singleton
    <3> QED
      BY <3>2 DEF OneExecution
  <2> QED
    BY <2>1, <2>2
<1> QED
  BY <1>1, InvariantHolds, PTL

\* A closed mailbox stays closed, and nothing opens once a cancel returned.
THEOREM StaysClosed == Spec => NeverReopened
<1>1. TypeOK /\ ControlInvariant /\ [Next]_vars =>
         [/\ admission = "closed" => admission' = "closed"
          /\ (\E c \in Cancellers : cpc[c] = "returned") => \A a \in Agents :
                apc[a] = "new" => apc'[a] \in {"new", "refused"}]_vars
  <2> USE DEF mailbox, threads, agents
  <2> SUFFICES ASSUME TypeOK, LateInv, [Next]_vars
               PROVE  /\ admission = "closed" => admission' = "closed"
                      /\ (\E c \in Cancellers : cpc[c] = "returned") => \A a \in Agents :
                            apc[a] = "new" => apc'[a] \in {"new", "refused"}
    BY DEF ControlInvariant
  <2>1. ASSUME NEW a \in Agents, AgentAction(a)
        PROVE  /\ admission = "closed" => admission' = "closed"
               /\ cancelled => \A b \in Agents :
                     apc[b] = "new" => apc'[b] \in {"new", "refused"}
    <3>1. CASE Open(a)
      BY <3>1 DEF Open, MayOpen, Goto, TypeOK
    <3>2. CASE Drain(a) \/ CloseIfEmpty(a) \/ GuardClose(a)
      BY <3>2 DEF Drain, CloseIfEmpty, GuardClose, Goto, TypeOK
    <3>3. CASE Quiet(a)
      BY <3>3 DEF Quiet, TypeOK
    <3> QED
      BY <2>1, <3>1, <3>2, <3>3 DEF AgentAction
  <2>2. (\E c \in Cancellers : cpc[c] = "returned") => cancelled
    BY DEF LateInv
  <2>3. ASSUME NEW s \in Steerers,
               SteerCall(s) \/ EnqueueSteer(s) \/ RefuseSteer(s) \/ SteerNotify(s)
        PROVE  admission' = admission /\ apc' = apc
    BY <2>3 DEF SteerCall, EnqueueSteer, RefuseSteer, SteerNotify
  <2>4. ASSUME NEW c \in Cancellers, CancelSwap(c) \/ CancelClose(c) \/ CancelNotify(c)
        PROVE  admission' \in {admission, "closed"} /\ apc' = apc
    BY <2>4 DEF CancelSwap, CancelClose, CancelNotify
  <2>5. CASE UNCHANGED vars
    BY <2>5 DEF vars
  <2> QED
    BY <2>1, <2>2, <2>3, <2>4, <2>5, NextCases
<1> QED
  BY <1>1, TypeCorrect, InvariantHolds, PTL DEF Spec, NeverReopened

-----------------------------------------------------------------------------
(* TaskControl implements SteeringMailbox.                                 *)

\* The control, with its atomics, lock sections, listeners and racing threads,
\* behaves as the abstract mailbox.
THEOREM ImplementsMailbox == Spec => MailboxSpec
<1>1. Init => Mailbox!Init
  BY DEF Init, Mailbox!Init
<1>2. TypeOK /\ ControlInvariant /\ [Next]_vars => [Mailbox!Next]_(Mailbox!mailboxVars)
  <2> USE DEF mailbox, threads, agents
  <2> SUFFICES ASSUME TypeOK, OpenInv, QueueInv, [Next]_vars
               PROVE  [Mailbox!Next]_(Mailbox!mailboxVars)
    BY DEF ControlInvariant
  <2> DEFINE Refused == {s \in Steerers : spc[s] = "refused"}
             Finished == \E a \in Agents : apc[a] = "completed"
             Phase == IF cancelled THEN "cancelled" ELSE admission
  <2>1. ASSUME NEW a \in Agents, AgentAction(a)
        PROVE  [Mailbox!Next]_(Mailbox!mailboxVars)
    <3>1. Refused' = Refused
      BY <2>1 DEF AgentAction, Open, Drain, CloseIfEmpty, GuardClose, Quiet
    <3>2. CASE Open(a)
      <4>1. Finished' = Finished
        BY <3>2 DEF Open, Goto, TypeOK
      <4>2. UNCHANGED <<pending, delivered, cancelled>>
        BY <3>2 DEF Open
      <4>3. Phase' = Phase \/ (Phase = "fresh" /\ Phase' = "open")
               \/ (Phase \in {"fresh", "open"} /\ Phase' = "closed")
        BY <3>2 DEF Open, MayOpen, TypeOK, Admissions
      <4> QED
        BY <3>1, <4>1, <4>2, <4>3 DEF Mailbox!Next, Mailbox!Start, Mailbox!Close,
           Mailbox!mailboxVars
    <3>3. CASE Drain(a)
      <4>1. Finished' = Finished
        BY <3>3 DEF Drain, Goto, TypeOK
      <4>2. Phase' = Phase /\ Phase \in {"open", "closed"}
        BY <3>3 DEF Drain, OpenInv, TypeOK, Admissions
      <4> QED
        BY <3>1, <3>3, <4>1, <4>2 DEF Drain, Mailbox!Next, Mailbox!Take
    <3>4. CASE CloseIfEmpty(a)
      <4>1. CASE pending = <<>>
        <5>1. Finished' = TRUE /\ Phase' = IF Phase = "cancelled" THEN "cancelled" ELSE "closed"
          BY <3>4, <4>1 DEF CloseIfEmpty, Goto, TypeOK, Admissions
        <5> QED
          BY <3>1, <3>4, <4>1, <5>1 DEF CloseIfEmpty, Mailbox!Next, Mailbox!Finish
      <4>2. CASE pending # <<>>
        <5>1. Finished' = Finished /\ Phase' = Phase
          BY <3>4, <4>2 DEF CloseIfEmpty, Goto, TypeOK
        <5> QED
          BY <3>1, <3>4, <4>2, <5>1 DEF CloseIfEmpty, Mailbox!mailboxVars
      <4> QED
        BY <4>1, <4>2
    <3>5. CASE GuardClose(a)
      <4>1. Finished' = Finished
        BY <3>5 DEF GuardClose, Goto, TypeOK
      <4>2. Phase' = Phase \/ (Phase \in {"fresh", "open"} /\ Phase' = "closed")
        BY <3>5 DEF GuardClose, TypeOK, Admissions
      <4> QED
        BY <3>1, <3>5, <4>1, <4>2 DEF GuardClose, Mailbox!Next, Mailbox!Close,
           Mailbox!mailboxVars
    <3>6. CASE Quiet(a)
      <4>1. Finished' = Finished /\ Phase' = Phase
        BY <3>6 DEF Quiet, TypeOK
      <4> QED
        BY <3>1, <3>6, <4>1 DEF Quiet, Mailbox!mailboxVars
    <3> QED
      BY <2>1, <3>2, <3>3, <3>4, <3>5, <3>6 DEF AgentAction
  <2>2. ASSUME NEW s \in Steerers,
               SteerCall(s) \/ EnqueueSteer(s) \/ RefuseSteer(s) \/ SteerNotify(s)
        PROVE  [Mailbox!Next]_(Mailbox!mailboxVars)
    <3>1. Finished' = Finished /\ Phase' = Phase /\ delivered' = delivered
      BY <2>2 DEF SteerCall, EnqueueSteer, RefuseSteer, SteerNotify
    <3>2. ASSUME spc[s] = "called"
          PROVE  s \notin Range(pending) \cup Range(delivered) \cup Refused
      <4>1. Range(pending) \cup Range(delivered) \subseteq Range(Accepted)
        <5>1. ASSUME NEW i \in DOMAIN pending
              PROVE  /\ Len(delivered) + i \in DOMAIN Accepted
                     /\ Accepted[Len(delivered) + i] = pending[i]
          BY DEF Accepted, TypeOK
        <5>2. ASSUME NEW i \in DOMAIN delivered
              PROVE  i \in DOMAIN Accepted /\ Accepted[i] = delivered[i]
          BY DEF Accepted, TypeOK
        <5> QED
          BY <5>1, <5>2 DEF Range
      <4> QED
        BY <3>2, <4>1 DEF QueueInv, Outcome
    <3>3. CASE SteerCall(s) \/ SteerNotify(s)
      <4>1. Refused' = Refused /\ pending' = pending
        BY <3>3 DEF SteerCall, SteerNotify, TypeOK
      <4> QED
        BY <3>1, <4>1 DEF Mailbox!mailboxVars
    <3>4. CASE EnqueueSteer(s)
      <4>1. /\ Refused' = Refused /\ pending' = Append(pending, s)
            /\ Phase \in {"fresh", "open"}
        BY <3>4 DEF EnqueueSteer, Queued, Accepting, TypeOK
      <4>2. spc[s] = "called"
        BY <3>4 DEF EnqueueSteer
      <4> QED
        BY <3>1, <3>2, <4>1, <4>2 DEF Mailbox!Next, Mailbox!Accept, Mailbox!Offered, Mailbox!Range, Range
    <3>5. CASE RefuseSteer(s)
      <4>1. /\ Refused' = Refused \cup {s} /\ pending' = pending
            /\ Phase # "open"
        BY <3>5 DEF RefuseSteer, Accepting, TypeOK
      <4>2. spc[s] = "called"
        BY <3>5 DEF RefuseSteer
      <4> QED
        BY <3>1, <3>2, <4>1, <4>2 DEF Mailbox!Next, Mailbox!Refuse, Mailbox!Offered, Mailbox!Range, Range
    <3> QED
      BY <2>2, <3>3, <3>4, <3>5
  <2>3. ASSUME NEW c \in Cancellers, CancelSwap(c) \/ CancelClose(c) \/ CancelNotify(c)
        PROVE  [Mailbox!Next]_(Mailbox!mailboxVars)
    <3>1. /\ Finished' = Finished /\ Refused' = Refused
          /\ UNCHANGED <<pending, delivered>>
      BY <2>3 DEF CancelSwap, CancelClose, CancelNotify
    <3>2. \/ Phase' = Phase
          \/ Phase # "cancelled" /\ Phase' = "cancelled"
          \/ Phase \in {"fresh", "open"} /\ Phase' = "closed"
      BY <2>3 DEF CancelSwap, CancelClose, CancelNotify, TypeOK, Admissions
    <3> QED
      BY <3>1, <3>2 DEF Mailbox!Next, Mailbox!Cancel, Mailbox!Close, Mailbox!mailboxVars
  <2>4. CASE UNCHANGED vars
    BY <2>4 DEF vars, Mailbox!mailboxVars
  <2> QED
    BY <2>1, <2>2, <2>3, <2>4, NextCases
<1> QED
  BY <1>1, <1>2, TypeCorrect, InvariantHolds, PTL DEF Spec, MailboxSpec, Mailbox!Spec

-----------------------------------------------------------------------------
(* DurableContext.                                                         *)

(***************************************************************************)
(* Sequences.                                                              *)
(***************************************************************************)

\* A sequence begins itself.
LEMMA BeginsItself ==
    ASSUME NEW S, NEW s \in Seq(S)
    PROVE  Begins(s, s)
BY DEF Begins

\* A beginning stays one when something is appended.
LEMMA BeginsAppend ==
    ASSUME NEW S, NEW s \in Seq(S), NEW t \in Seq(S), NEW e \in S, Begins(s, t)
    PROVE  Begins(s, Append(t, e))
BY DEF Begins

\* A part begins what is made longer.
LEMMA BeginsConcat ==
    ASSUME NEW S, NEW s \in Seq(S), NEW t \in Seq(S), NEW u \in Seq(S), Begins(s, t)
    PROVE  Begins(s, t \o u)
BY ConcatProperties DEF Begins

\* Nothing begins everything.
LEMMA BeginsEmpty ==
    ASSUME NEW S, NEW t \in Seq(S)
    PROVE  Begins(<<>>, t)
BY DEF Begins

\* A prefix and the suffix after it make up the whole.
LEMMA PrefixSuffix ==
    ASSUME NEW S, NEW t \in Seq(S), NEW s \in Seq(S),
           Len(s) <= Len(t), SubSeq(t, 1, Len(s)) = s
    PROVE  /\ SubSeq(t, Len(s) + 1, Len(t)) \in Seq(S)
           /\ s \o SubSeq(t, Len(s) + 1, Len(t)) = t
           /\ Begins(s, t)
<1> DEFINE u == SubSeq(t, Len(s) + 1, Len(t))
<1>1. /\ u \in Seq(S)
      /\ Len(u) = Len(t) - Len(s)
      /\ \A i \in 1..Len(u) : u[i] = t[Len(s) + i]
  OBVIOUS
<1>2. \A i \in 1..Len(s) : s[i] = t[i]
  OBVIOUS
<1>3. /\ s \o u \in Seq(S) /\ Len(s \o u) = Len(t)
      /\ \A i \in 1..Len(t) : (s \o u)[i] = IF i <= Len(s) THEN s[i] ELSE u[i - Len(s)]
  BY <1>1, ConcatProperties
<1>4. \A i \in 1..Len(t) : (s \o u)[i] = t[i]
  BY <1>1, <1>2, <1>3
<1>5. s \o u = t
  BY <1>3, <1>4, SeqEqual
<1> QED
  BY <1>1, <1>2, <1>5 DEF Begins

(***************************************************************************)
(* What each operation makes of a context.                                 *)
(***************************************************************************)

\* Messages are entries of an active transcript.
LEMMA MessageActive == Seq(Message) \subseteq Seq(Active)
BY DEF Active

\* A pushed message leaves the context well formed.
LEMMA PushContext ==
    ASSUME NEW c \in Context, NEW message \in Message
    PROVE  /\ Push(c, message) \in Context
           /\ Push(c, message).told = Append(c.told, message)
           /\ Push(c, message).cursor = Append(c.cursor, message)
           /\ Push(c, message).managed = c.managed
           /\ Push(c, message).covers = c.covers
           /\ Push(c, message).made = c.made
           /\ Push(c, message).messages = Append(c.messages, message)
           /\ Begins(c.covers, c.messages)
                => Begins(c.covers, Push(c, message).messages)
<1>1. c.messages \in Seq(Active) /\ c.covers \in Seq(Active) /\ message \in Active
  BY DEF Context, Active
<1>2. Begins(c.covers, c.messages) => Begins(c.covers, Append(c.messages, message))
  BY <1>1, BeginsAppend
<1>3. /\ Append(c.told, message) \in Seq(Message)
      /\ Append(c.cursor, message) \in Seq(Message)
      /\ Append(c.messages, message) \in Seq(Active)
  BY <1>1 DEF Context
<1> DEFINE told == Append(c.told, message)
           messages == Append(c.messages, message)
           cursor == Append(c.cursor, message)
<1>4. Push(c, message)
        = [c EXCEPT !.told = told, !.messages = messages, !.cursor = cursor]
  BY DEF Push
<1> HIDE DEF told, messages, cursor
<1>5. Push(c, message) =
        [told |-> told, messages |-> messages, covers |-> c.covers, made |-> c.made,
         cursor |-> cursor, binding |-> c.binding, managed |-> c.managed]
  BY <1>4 DEF Context
<1>6. Push(c, message) =
        [told |-> Append(c.told, message), messages |-> Append(c.messages, message),
         covers |-> c.covers, made |-> c.made, cursor |-> Append(c.cursor, message),
         binding |-> c.binding, managed |-> c.managed]
  BY <1>5 DEF told, messages, cursor
<1>7. Push(c, message) \in Context
  BY <1>3, <1>6 DEF Context
<1> QED
  BY <1>2, <1>6, <1>7

\* So does a reply with its continuation.
LEMMA RepliedContext ==
    ASSUME NEW c \in Context, NEW message \in Message,
           model \in Identities, Validates(c, model)
    PROVE  /\ Replied(c, message) \in Context
           /\ Replied(c, message).told = Append(c.told, message)
           /\ Replied(c, message).cursor = Append(c.cursor, message)
           /\ Replied(c, message).managed = c.managed
           /\ Validates(Replied(c, message), model)
           /\ Begins(Replied(c, message).covers, Replied(c, message).messages)
<1>1. c.messages \in Seq(Active) /\ message \in Active
  BY DEF Context, Active
<1>2. Append(c.messages, message) \in Seq(Active)
  BY <1>1
<1>3. Begins(Append(c.messages, message), Append(c.messages, message))
  BY <1>2, BeginsItself
<1> DEFINE made == c.made \cup {Made("round", model)}
           covers == Append(c.messages, message)
<1>4. made \in SUBSET [kind : Kinds, by : Identities]
  BY DEF Made, Kinds, Context
<1>5. Replied(c, message) = [Push(c, message) EXCEPT !.covers = covers, !.made = made]
  BY PushContext DEF Replied
<1>6. \A m \in made : Compared[m.kind][m.by] = Compared[m.kind][model]
  BY DEF Validates, Made
<1> HIDE DEF made, covers
<1>7. /\ Replied(c, message).covers = covers /\ Replied(c, message).made = made
      /\ Replied(c, message).messages = Push(c, message).messages
      /\ Replied(c, message).told = Push(c, message).told
      /\ Replied(c, message).cursor = Push(c, message).cursor
      /\ Replied(c, message).managed = Push(c, message).managed
  BY <1>5, PushContext DEF Context
<1>8. Replied(c, message) \in Context
  <2>1. covers \in Seq(Active)
    BY <1>2 DEF covers
  <2> QED
    BY <1>4, <1>5, <2>1, PushContext DEF Context
<1>9. Begins(covers, Push(c, message).messages)
  BY <1>3, PushContext DEF covers
<1> QED
  BY <1>6, <1>7, <1>8, <1>9, PushContext DEF Validates

\* So does a compaction.
LEMMA CompactedContext ==
    ASSUME NEW c \in Context, NEW k \in 2..Len(c.messages), NEW way \in Ways,
           NEW identity \in Identities, Validates(c, identity)
    PROVE  /\ Compacted(c, k, way, identity) \in Context
           /\ Compacted(c, k, way, identity).told = c.told
           /\ Compacted(c, k, way, identity).cursor = c.cursor
           /\ Compacted(c, k, way, identity).managed = c.managed
           /\ Validates(Compacted(c, k, way, identity), identity)
           /\ Begins(Compacted(c, k, way, identity).covers,
                     Compacted(c, k, way, identity).messages)
<1> DEFINE tail == SubSeq(c.messages, k + 1, Len(c.messages))
           messages == <<Summary(Len(c.told))>> \o tail
<1>1. c.messages \in Seq(Active) /\ Len(c.told) \in Nat
  BY DEF Context
<1>2. tail \in Seq(Active)
  BY <1>1
<1>3. <<Summary(Len(c.told))>> \in Seq(Active)
  BY <1>1 DEF Summary, Active
<1>4. messages \in Seq(Active)
  BY <1>2, <1>3
<1>5. Begins(messages, messages) /\ Begins(<<>>, messages)
  BY <1>4, BeginsItself, BeginsEmpty
<1> DEFINE covers == IF way = "portable" THEN <<>> ELSE messages
           made == CASE way = "portable" -> {}
                     [] way = "window" -> {Made("window", identity)}
                     [] way = "rebased" -> c.made
<1>6. Compacted(c, k, way, identity)
        = [c EXCEPT !.messages = messages, !.covers = covers, !.made = made]
  BY DEF Compacted
<1>7. made = {} \/ made = {Made("window", identity)} \/ made = c.made
  BY BoundsAssumption DEF BoundsAssumption
<1>8. /\ made \in SUBSET [kind : Kinds, by : Identities]
      /\ \A m \in made : Compared[m.kind][m.by] = Compared[m.kind][identity]
  <2>1. /\ c.made \in SUBSET [kind : Kinds, by : Identities]
        /\ \A m \in c.made : Compared[m.kind][m.by] = Compared[m.kind][identity]
    BY DEF Validates, Context
  <2>2. /\ Made("window", identity) \in [kind : Kinds, by : Identities]
        /\ Made("window", identity).by = identity
    BY DEF Made, Kinds
  <2> HIDE DEF made
  <2>3. CASE made = {}
    BY <2>3
  <2>4. CASE made = {Made("window", identity)}
    BY <2>2, <2>4
  <2>5. CASE made = c.made
    BY <2>1, <2>5
  <2> QED
    BY <1>7, <2>3, <2>4, <2>5
<1>9. covers \in Seq(Active) /\ Begins(covers, messages)
  BY <1>4, <1>5
<1> HIDE DEF messages, covers, made
<1>10. Compacted(c, k, way, identity) =
        [told |-> c.told, messages |-> messages, covers |-> covers, made |-> made,
         cursor |-> c.cursor, binding |-> c.binding, managed |-> c.managed]
  BY <1>6 DEF Context
<1>11. Compacted(c, k, way, identity) \in Context
  BY <1>4, <1>8, <1>9, <1>10 DEF Context
<1> QED
  BY <1>8, <1>9, <1>10, <1>11 DEF Validates

\* A restored context tells of the whole transcript it is restored against.
LEMMA RestoredContext ==
    ASSUME NEW c \in Context, NEW identity, transcript \in Seq(Message),
           Restorable(c, identity), c.told = c.cursor, Begins(c.covers, c.messages)
    PROVE  /\ Restored(c) \in Context
           /\ Restored(c).told = transcript /\ Restored(c).cursor = transcript
           /\ Restored(c).managed
           /\ Begins(Restored(c).covers, Restored(c).messages)
<1>1. /\ c.cursor \in Seq(Message) /\ c.messages \in Seq(Active)
      /\ c.covers \in Seq(Active)
  BY DEF Context
<1>2. Suffix(c) \in Seq(Message) /\ c.cursor \o Suffix(c) = transcript
  BY <1>1, PrefixSuffix DEF Restorable, Suffix
<1>3. Suffix(c) \in Seq(Active)
  BY <1>2, MessageActive
<1>4. Begins(c.covers, c.messages \o Suffix(c)) /\ c.messages \o Suffix(c) \in Seq(Active)
  BY <1>1, <1>3, BeginsConcat, ConcatProperties
<1> QED
  BY <1>2, <1>4 DEF Restored, Context

(***************************************************************************)
(* The invariant.                                                          *)
(***************************************************************************)

\* A fresh host satisfies the invariant.
LEMMA InvariantInit == DurableInit => DurableInvariant
<1> SUFFICES ASSUME DurableInit
             PROVE  DurableInvariant
  OBVIOUS
<1>1. NoContext \in Context
  BY DEF NoContext, Context
<1>2. disk \in [transcript : Seq(Message), checkpointed : BOOLEAN, checkpoint : Context]
  BY <1>1 DEF DurableInit
<1>3. DurableTypeOK
  BY <1>1, <1>2 DEF DurableInit, DurableTypeOK, Turns
<1>4. StoredOrPending /\ TellsTranscript /\ ContinuationFits
  BY DEF DurableInit, StoredOrPending, TellsTranscript, ContinuationFits
<1> QED
  BY <1>3, <1>4 DEF DurableInit, DurableInvariant

\* A step that leaves the store alone and puts a context in its place that
\* tells of the transcript as it is then.
LEMMA ContextStep ==
    ASSUME DurableInvariant,
           ctx' \in Context, transcript' \in Seq(Message),
           alive', ctx'.managed => ctx'.told = transcript' /\ ctx'.cursor = transcript',
           ctx'.managed => Begins(ctx'.covers, ctx'.messages),
           model' \in Identities \cup {"none"}, turn' # "none" => model' \in Identities,
           turn' \in Turns, turn' # "none" => ctx'.managed /\ Validates(ctx', model'),
           \/ toSave' = Parts /\ ctx'.managed
           \/ toSave' = {} /\ turn' # "dispatch",
           UNCHANGED <<disk, strayed>>,
           disk.checkpointed /\ ~strayed => Begins(disk.checkpoint.cursor, transcript')
    PROVE  DurableInvariant'
<1>1. DurableTypeOK'
  BY DEF DurableInvariant, DurableTypeOK, Parts
<1>2. TellsTranscript'
  BY DEF TellsTranscript
<1>3. ContinuationFits'
  BY DEF DurableInvariant, ContinuationFits, Validates, Begins
<1>4. StoredOrPending'
  BY DEF StoredOrPending, Parts
<1>5. (turn # "none" \/ toSave # {} => alive /\ ctx.managed)'
  OBVIOUS
<1>6. (disk.checkpointed => disk.checkpoint.told = disk.checkpoint.cursor)'
  BY DEF DurableInvariant
<1>7. (disk.checkpointed /\ ~strayed =>
          /\ Begins(disk.checkpoint.cursor, disk.transcript)
          /\ Begins(disk.checkpoint.cursor, transcript))'
  BY DEF DurableInvariant, Begins
<1> QED
  BY <1>1, <1>2, <1>3, <1>4, <1>5, <1>6, <1>7 DEF DurableInvariant

\* A message is accepted: into the context and into the transcript.
LEMMA PushStep ==
    ASSUME DurableInvariant, NEW message \in Message,
           ctx' = Push(ctx, message), transcript' = Append(transcript, message),
           alive, ctx.managed, turn' \in Turns, Validates(ctx', model'),
           \/ toSave' = Parts
           \/ toSave' = {} /\ turn' # "dispatch",
           UNCHANGED <<disk, alive, strayed>>, model' \in Identities
    PROVE  DurableInvariant'
<1>1. /\ transcript \in Seq(Message) /\ ctx \in Context
      /\ disk.checkpoint.cursor \in Seq(Message)
  BY DEF DurableInvariant, DurableTypeOK, Context
<1>2. /\ ctx.told = transcript /\ ctx.cursor = transcript
      /\ Begins(ctx.covers, ctx.messages)
  BY DEF DurableInvariant, TellsTranscript, ContinuationFits
<1> DEFINE pushed == Push(ctx, message)
<1>3. /\ pushed \in Context /\ pushed.managed = ctx.managed
      /\ pushed.told = Append(ctx.told, message)
      /\ pushed.cursor = Append(ctx.cursor, message)
      /\ Begins(pushed.covers, pushed.messages)
  <2>1. /\ pushed.covers = ctx.covers
        /\ Begins(ctx.covers, pushed.messages)
    BY <1>1, <1>2, PushContext
  <2>2. Begins(pushed.covers, pushed.messages)
    BY <2>1
  <2> QED
    BY <1>1, <2>2, PushContext
<1> HIDE DEF pushed
<1>4. ctx' = pushed
  BY DEF pushed
<1>5. /\ ctx' \in Context /\ ctx'.managed
      /\ ctx'.told = transcript' /\ ctx'.cursor = transcript'
      /\ Begins(ctx'.covers, ctx'.messages)
  BY <1>2, <1>3, <1>4
<1>6. /\ transcript' \in Seq(Message)
      /\ disk.checkpointed /\ ~strayed => Begins(disk.checkpoint.cursor, transcript')
  BY <1>1, BeginsAppend DEF DurableInvariant
<1> QED
  BY <1>5, <1>6, ContextStep

\* The host changes its stored history while there is no context.
LEMMA HistoryStep ==
    ASSUME DurableInvariant, ~alive, toSave = {}, turn = "none",
           transcript' \in Seq(Message),
           disk' = [disk EXCEPT !.transcript = transcript'],
           strayed' \in BOOLEAN, strayed => strayed',
           disk.checkpointed /\ ~strayed' => Begins(disk.checkpoint.cursor, transcript'),
           UNCHANGED <<toSave, alive, ctx, turn, model>>
    PROVE  DurableInvariant'
<1>1. /\ disk'.transcript = transcript' /\ disk'.checkpointed = disk.checkpointed
      /\ disk'.checkpoint = disk.checkpoint
  BY DEF DurableInvariant, DurableTypeOK
<1>2. DurableTypeOK'
  BY DEF DurableInvariant, DurableTypeOK
<1>3. ContinuationFits'
  BY <1>1 DEF DurableInvariant, ContinuationFits, Begins
<1> QED
  BY <1>1, <1>2, <1>3 DEF DurableInvariant, TellsTranscript, StoredOrPending, Begins

\* The store takes the transcript, the checkpoint, or both.
LEMMA SaveStep ==
    ASSUME DurableInvariant, NEW parts \in SUBSET Parts, Save(parts)
    PROVE  DurableInvariant'
<1>1. /\ transcript \in Seq(Message) /\ ctx \in Context
      /\ disk.transcript \in Seq(Message) /\ disk.checkpoint \in Context
      /\ disk.checkpointed \in BOOLEAN /\ toSave \subseteq Parts
  BY DEF DurableInvariant, DurableTypeOK
<1>2. /\ parts \subseteq toSave /\ parts # {} /\ toSave' = toSave \ parts
      /\ disk'.transcript = IF "transcript" \in parts THEN transcript ELSE disk.transcript
      /\ disk'.checkpointed = (disk.checkpointed \/ "checkpoint" \in parts)
      /\ disk'.checkpoint = IF "checkpoint" \in parts THEN ctx ELSE disk.checkpoint
      /\ strayed' = IF toSave' = {} THEN FALSE ELSE strayed \/ "checkpoint" \in parts
      /\ UNCHANGED <<transcript, alive, ctx, turn, model>>
  BY DEF Save
<1>3. alive /\ ctx.managed /\ ctx.told = transcript /\ ctx.cursor = transcript
  BY <1>2 DEF DurableInvariant, TellsTranscript
<1>4. Begins(transcript, transcript) /\ Begins(ctx.covers, ctx.messages)
  BY <1>1, <1>3, BeginsItself DEF DurableInvariant, ContinuationFits
<1>5. DurableTypeOK'
  BY <1>1, <1>2 DEF DurableInvariant, DurableTypeOK, Save
<1>6. ContinuationFits'
  <2>1. (alive /\ ctx.managed => Begins(ctx.covers, ctx.messages))'
    BY <1>2, <1>4
  <2>2. (turn # "none" => ctx.managed /\ Validates(ctx, model))'
    BY <1>2 DEF DurableInvariant, ContinuationFits
  <2>3. (disk.checkpointed => Begins(disk.checkpoint.covers, disk.checkpoint.messages))'
    <3>1. CASE "checkpoint" \in parts
      BY <1>2, <1>4, <3>1
    <3>2. CASE "checkpoint" \notin parts
      BY <1>2, <3>2 DEF DurableInvariant, ContinuationFits
    <3> QED
      BY <3>1, <3>2
  <2> QED
    BY <2>1, <2>2, <2>3 DEF ContinuationFits
<1>7. StoredOrPending'
  BY <1>1, <1>2, <1>3 DEF DurableInvariant, StoredOrPending, Parts
<1>8. (disk.checkpointed => disk.checkpoint.told = disk.checkpoint.cursor)'
  BY <1>2, <1>3 DEF DurableInvariant
<1>9. (disk.checkpointed /\ ~strayed =>
          /\ Begins(disk.checkpoint.cursor, disk.transcript)
          /\ Begins(disk.checkpoint.cursor, transcript))'
  BY <1>1, <1>2, <1>3, <1>4 DEF DurableInvariant, StoredOrPending, Parts, Begins
<1> QED
  BY <1>2, <1>3, <1>5, <1>6, <1>7, <1>8, <1>9 DEF DurableInvariant, TellsTranscript

\* Every step keeps it, a crash included.
LEMMA InvariantNext == DurableInvariant /\ [DurableNext]_durable => DurableInvariant'
<1> SUFFICES ASSUME DurableInvariant, [DurableNext]_durable
             PROVE  DurableInvariant'
  OBVIOUS
<1>0. /\ strayed \in BOOLEAN /\ turn \in Turns /\ model \in Identities \cup {"none"}
      /\ transcript \in Seq(Message) /\ ctx \in Context
      /\ disk.transcript \in Seq(Message) /\ disk.checkpoint \in Context
      /\ disk.checkpoint.cursor \in Seq(Message)
      /\ turn # "none" => model \in Identities
  BY DEF DurableInvariant, DurableTypeOK, Context
<1>1. ASSUME NEW identity \in Identities, Seed(identity)
      PROVE  DurableInvariant'
  <2>1. FromHistory(identity) \in Context
    BY <1>0, MessageActive DEF FromHistory, Context
  <2>2. Begins(<<>>, transcript)
    BY <1>0, BeginsEmpty
  <2> QED
    BY <1>0, <1>1, <2>1, <2>2, ContextStep
       DEF Seed, Between, FromHistory, DurableInvariant
<1>2. ASSUME NEW identity \in Identities, Restore(identity)
      PROVE  DurableInvariant'
  <2>1. /\ disk.checkpoint.told = disk.checkpoint.cursor
        /\ Begins(disk.checkpoint.covers, disk.checkpoint.messages)
    BY <1>2 DEF Restore, DurableInvariant, ContinuationFits
  <2>2. /\ Restored(disk.checkpoint) \in Context
        /\ Restored(disk.checkpoint).told = transcript
        /\ Restored(disk.checkpoint).cursor = transcript
        /\ Restored(disk.checkpoint).managed
        /\ Begins(Restored(disk.checkpoint).covers, Restored(disk.checkpoint).messages)
    BY <1>0, <1>2, <2>1, RestoredContext DEF Restore
  <2> QED
    BY <1>0, <1>2, <2>2, ContextStep DEF Restore, Between, DurableInvariant
<1>3. CASE AppendSystemContext
  <2>1. Note \in Active /\ ctx.messages \in Seq(Active) /\ ctx.covers \in Seq(Active)
    BY <1>0 DEF Active, Context
  <2>2. Begins(ctx.covers, ctx.messages)
          => Begins(ctx.covers, Append(ctx.messages, Note))
    BY <2>1, BeginsAppend
  <2>3. Append(ctx.messages, Note) \in Seq(Active)
    BY <2>1
  <2> DEFINE messages == Append(ctx.messages, Note)
  <2>4. ctx' = [ctx EXCEPT !.messages = messages]
    BY <1>3 DEF AppendSystemContext
  <2> HIDE DEF messages
  <2>5. /\ messages \in Seq(Active) => ctx' \in Context
        /\ ctx'.messages = messages /\ ctx'.told = ctx.told
        /\ ctx'.cursor = ctx.cursor /\ ctx'.covers = ctx.covers
        /\ ctx'.managed = ctx.managed
    BY <1>0, <2>4 DEF Context
  <2> QED
    BY <1>0, <1>3, <2>2, <2>3, <2>5, ContextStep
       DEF messages, AppendSystemContext, Between, DurableInvariant, TellsTranscript,
           ContinuationFits
<1>4. ASSUME NEW identity \in Identities, LegacyTurn(identity)
      PROVE  DurableInvariant'
  <2>1. <<Foreign>> \in Seq(Active)
    BY DEF Active
  <2>2. ctx.made \cup {Made("round", identity)} \in SUBSET [kind : Kinds, by : Identities]
    BY <1>0 DEF Made, Kinds, Context
  <2>3. ctx' \in Context /\ ~ctx'.managed
    BY <1>0, <1>4, <2>1, <2>2 DEF LegacyTurn, Context
  <2> QED
    BY <1>0, <1>4, <2>3, ContextStep DEF LegacyTurn, Between, DurableInvariant
<1>5. ASSUME NEW t \in Texts, NEW identity \in Identities, Prompt(t, identity)
      PROVE  DurableInvariant'
  <2>1. User(t) \in Message
    BY DEF Message
  <2>2. /\ ctx' = Push(ctx, User(t)) /\ transcript' = Append(transcript, User(t))
        /\ turn' = "round" /\ model' = identity /\ toSave' = {}
        /\ alive /\ ctx.managed /\ Validates(ctx, identity)
        /\ UNCHANGED <<disk, alive, strayed>>
    BY <1>5 DEF Prompt, Between
  <2>3. Validates(ctx', model')
    BY <1>0, <2>1, <2>2, PushContext DEF Validates
  <2> QED
    BY <1>0, <2>1, <2>2, <2>3, PushStep DEF Turns
<1>6. ASSUME NEW t \in Texts, Steered(t)
      PROVE  DurableInvariant'
  <2>1. User(t) \in Message
    BY DEF Message
  <2>2. /\ ctx' = Push(ctx, User(t)) /\ transcript' = Append(transcript, User(t))
        /\ turn' = "round" /\ model' = model /\ toSave' = Parts
        /\ turn # "none"
        /\ UNCHANGED <<disk, alive, strayed>>
    BY <1>6 DEF Steered, Polled, Yield, Carries
  <2>3. alive /\ ctx.managed /\ Validates(ctx, model)
    BY <2>2 DEF DurableInvariant, ContinuationFits
  <2>4. Validates(ctx', model')
    BY <1>0, <2>1, <2>2, <2>3, PushContext DEF Validates
  <2> QED
    BY <1>0, <2>1, <2>2, <2>3, <2>4, PushStep DEF Turns
<1>7. CASE ToolFinished
  <2>1. Result \in Message
    BY DEF Message
  <2>2. /\ ctx' = Push(ctx, Result) /\ transcript' = Append(transcript, Result)
        /\ turn' = "round" /\ model' = model /\ toSave' = Parts
        /\ turn # "none"
        /\ UNCHANGED <<disk, alive, strayed>>
    BY <1>7 DEF ToolFinished, Polled, Yield, Carries
  <2>3. alive /\ ctx.managed /\ Validates(ctx, model)
    BY <2>2 DEF DurableInvariant, ContinuationFits
  <2>4. Validates(ctx', model')
    BY <1>0, <2>1, <2>2, <2>3, PushContext DEF Validates
  <2> QED
    BY <1>0, <2>1, <2>2, <2>3, <2>4, PushStep DEF Turns
<1>8. CASE AssistantReply
  <2>1. Assistant \in Message
    BY DEF Message
  <2>2. /\ ctx' = Replied(ctx, Assistant)
        /\ transcript' = Append(transcript, Assistant)
        /\ turn' \in Turns /\ model' = model /\ toSave' = Parts
        /\ turn # "none"
        /\ UNCHANGED <<disk, alive, strayed>>
    BY <1>8 DEF AssistantReply, Polled, Yield, Carries, Turns
  <2>3. /\ alive /\ ctx.managed /\ ctx.told = transcript /\ ctx.cursor = transcript
        /\ Validates(ctx, model) /\ model \in Identities
    BY <1>0, <2>2 DEF DurableInvariant, TellsTranscript, ContinuationFits
  <2>4. /\ ctx' \in Context /\ ctx'.managed
        /\ ctx'.told = transcript' /\ ctx'.cursor = transcript'
        /\ Validates(ctx', model') /\ Begins(ctx'.covers, ctx'.messages)
    BY <1>0, <2>1, <2>2, <2>3, RepliedContext
  <2>5. /\ transcript' \in Seq(Message)
        /\ disk.checkpointed /\ ~strayed => Begins(disk.checkpoint.cursor, transcript')
    BY <1>0, <2>1, <2>2, BeginsAppend DEF DurableInvariant
  <2> QED
    BY <2>1, <2>2, <2>3, <2>4, <2>5, ContextStep
<1>9. ASSUME NEW k \in 2..Len(ctx.messages), NEW way \in Ways,
             NEW identity \in Identities, CompactIdle(k, way, identity)
      PROVE  DurableInvariant'
  <2>1. /\ ctx' = Compacted(ctx, k, way, identity)
        /\ turn' = "none" /\ toSave' = {} /\ alive /\ ctx.managed /\ Validates(ctx, identity)
        /\ UNCHANGED <<transcript, disk, alive, model, strayed>>
    BY <1>9 DEF CompactIdle, Between
  <2>2. /\ ctx' \in Context /\ ctx'.managed
        /\ ctx'.told = ctx.told /\ ctx'.cursor = ctx.cursor
        /\ Begins(ctx'.covers, ctx'.messages)
    BY <1>0, <2>1, CompactedContext
  <2> QED
    BY <1>0, <2>1, <2>2, ContextStep DEF DurableInvariant, TellsTranscript, Turns
<1>10. ASSUME NEW k \in 2..Len(ctx.messages), NEW way \in Ways,
              CompactInTurn(k, way)
       PROVE  DurableInvariant'
  <2>1. /\ ctx' = Compacted(ctx, k, way, model)
        /\ turn' = "round" /\ turn # "none" /\ toSave' = Parts /\ model' = model
        /\ UNCHANGED <<transcript, disk, alive, strayed>>
    BY <1>10 DEF CompactInTurn, Polled, Yield, Carries
  <2>2. alive /\ ctx.managed /\ model \in Identities /\ Validates(ctx, model)
    BY <1>0, <2>1 DEF DurableInvariant, ContinuationFits
  <2>3. /\ ctx' \in Context /\ ctx'.managed
        /\ ctx'.told = ctx.told /\ ctx'.cursor = ctx.cursor
        /\ Validates(ctx', model') /\ Begins(ctx'.covers, ctx'.messages)
    BY <1>0, <2>1, <2>2, CompactedContext
  <2> QED
    BY <1>0, <2>1, <2>2, <2>3, ContextStep DEF DurableInvariant, TellsTranscript, Turns
<1>11. CASE Dispatch \/ TurnEnds
  <2>1. /\ turn # "none" /\ alive /\ ctx.managed
        /\ turn' \in {"none", "tools"} /\ toSave' = {}
        /\ turn' = "tools" => model' = model
        /\ model' \in Identities \cup {"none"}
        /\ UNCHANGED <<transcript, disk, alive, ctx, strayed>>
    BY <1>0, <1>11 DEF Dispatch, Polled, TurnEnds, DurableInvariant
  <2>2. turn' # "none" => Validates(ctx', model')
    BY <2>1 DEF DurableInvariant, ContinuationFits
  <2> QED
    BY <1>0, <2>1, <2>2, ContextStep
       DEF DurableInvariant, TellsTranscript, ContinuationFits, Turns
<1>16. CASE Export
  <2>1. /\ turn' = "none" /\ turn = "none" /\ toSave' = Parts /\ alive /\ ctx.managed
        /\ UNCHANGED <<transcript, disk, alive, ctx, model, strayed>>
    BY <1>16 DEF Export, Between
  <2> QED
    BY <1>0, <2>1, ContextStep
       DEF DurableInvariant, TellsTranscript, ContinuationFits, Turns
<1>17. CASE UNCHANGED durable
  BY <1>17 DEF durable, DurableInvariant, DurableTypeOK, TellsTranscript, ContinuationFits,
               StoredOrPending, Begins, Validates
<1>12. CASE Crash
  <2>1. NoContext \in Context /\ ~NoContext.managed
    BY DEF NoContext, Context
  <2> QED
    BY <1>0, <1>12, <2>1
       DEF Crash, Turns, DurableInvariant, DurableTypeOK, TellsTranscript, ContinuationFits,
           StoredOrPending, Begins
<1>13. ASSUME NEW t \in Texts, AppendHistory(t)
       PROVE  DurableInvariant'
  <2>1. User(t) \in Message
    BY DEF Message
  <2>2. /\ transcript' = Append(transcript, User(t))
        /\ disk' = [disk EXCEPT !.transcript = transcript']
        /\ ~alive /\ toSave = {} /\ turn = "none" /\ transcript = disk.transcript
        /\ UNCHANGED <<toSave, alive, ctx, turn, model, strayed>>
    BY <1>13 DEF AppendHistory, Between, DurableInvariant, StoredOrPending
  <2>3. transcript' \in Seq(Message)
    BY <1>0, <2>1, <2>2
  <2>4. disk.checkpointed /\ ~strayed => Begins(disk.checkpoint.cursor, transcript')
    BY <1>0, <2>1, <2>2, BeginsAppend DEF DurableInvariant
  <2> QED
    BY <1>0, <2>2, <2>3, <2>4, HistoryStep
<1>14. ASSUME NEW i \in DOMAIN transcript, NEW t \in Texts, EditHistory(i, t)
       PROVE  DurableInvariant'
  <2>1. User(t) \in Message /\ i \in 1..Len(transcript)
    BY <1>0 DEF Message
  <2>2. /\ transcript' = [transcript EXCEPT ![i] = User(t)]
              \/ transcript' = SubSeq(transcript, 1, i - 1)
        /\ disk' = [disk EXCEPT !.transcript = transcript']
        /\ ~alive /\ toSave = {} /\ turn = "none" /\ strayed' = TRUE
        /\ UNCHANGED <<toSave, alive, ctx, turn, model>>
    BY <1>14 DEF EditHistory, Between
  <2>3. [transcript EXCEPT ![i] = User(t)] \in Seq(Message)
    BY <1>0, <2>1, ExceptSeq
  <2>4. SubSeq(transcript, 1, i - 1) \in Seq(Message)
    BY <1>0, <2>1
  <2>5. transcript' \in Seq(Message)
    BY <2>2, <2>3, <2>4
  <2> QED
    BY <2>2, <2>5, HistoryStep
<1>15. ASSUME NEW parts \in SUBSET Parts, Save(parts)
       PROVE  DurableInvariant'
  BY <1>15, SaveStep
<1> QED
  BY <1>1, <1>2, <1>3, <1>4, <1>5, <1>6, <1>7, <1>8, <1>9, <1>10, <1>11, <1>12,
     <1>13, <1>14, <1>15, <1>16, <1>17 DEF DurableNext

\* In every reachable state, a context in use tells of exactly the host's
\* transcript and its continuation of exactly its first messages, and what
\* is stored did so when it was stored.
THEOREM Durable == DurableSpec => []DurableInvariant
BY InvariantInit, InvariantNext, PTL DEF DurableSpec

\* Through compactions, crashes, partial saves, edits of the stored history
\* and restores, a usable context neither forgets a message nor tells of one
\* that was edited away (agent.rs:335-374, context.rs:49).
THEOREM NothingForgotten == DurableSpec => []TellsTranscript
<1>1. DurableInvariant => TellsTranscript
  BY DEF DurableInvariant
<1> QED
  BY <1>1, Durable, PTL

\* A continuation is only sent beside the messages it does not stand for, and all of
\* its state agrees with the identity it is sent to in what the adapter compares, be
\* that little or nothing (agent.rs:394, 886-892, provider.rs:97-104).
THEOREM FitToSend == DurableSpec => []ContinuationFits
<1>1. DurableInvariant => ContinuationFits
  BY DEF DurableInvariant
<1> QED
  BY <1>1, Durable, PTL

\* Stored together or transcript first, a checkpoint's cursor always names a
\* beginning of the stored transcript, whenever the host crashes.
THEOREM Restores == DurableSpec => []SavedRestores
<1>1. DurableInvariant => SavedRestores
  BY DEF DurableInvariant, SavedRestores
<1> QED
  BY <1>1, Durable, PTL

\* No tool starts before the reply that called it is stored with its context:
\* the update fences the dispatch (agent.rs:376-377).
THEOREM Fenced == DurableSpec => DispatchIsStored
<1>1. DurableInvariant /\ [DurableNext]_durable
        => [turn # "tools" /\ turn' = "tools"
              => disk.transcript = transcript /\ disk.checkpointed
                   /\ disk.checkpoint = ctx]_durable
  <2> SUFFICES ASSUME DurableInvariant, DurableNext, turn # "tools", turn' = "tools"
               PROVE  /\ disk.transcript = transcript /\ disk.checkpointed
                      /\ disk.checkpoint = ctx
    BY DEF durable
  <2>1. Dispatch
    BY DEF DurableNext, Seed, Restore, AppendSystemContext, LegacyTurn, Prompt, Steered,
           AppendHistory, AssistantReply, CompactIdle, CompactInTurn, ToolFinished,
           TurnEnds, Export, Crash, Save, EditHistory, Between, Polled
  <2> QED
    BY <2>1 DEF Dispatch, Polled, DurableInvariant, StoredOrPending
<1> QED
  BY <1>1, Durable, PTL DEF DurableSpec, DispatchIsStored
=============================================================================
