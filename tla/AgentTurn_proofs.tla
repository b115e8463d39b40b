-------------------------- MODULE AgentTurn_proofs --------------------------
(***************************************************************************)
(* Proofs about AgentTurn for every set of steers and calls, every policy  *)
(* and every entry point.                                                  *)
(***************************************************************************)
EXTENDS AgentTurn, Selection_proofs

\* What is queued or drained are steers, the calls at hand are calls, and what came with
\* replies and finished compactions is in the turn's usage.
TurnInvariant ==
    /\ phase \in {"fresh", "open", "closed", "cancelled"}
    /\ queue \in Seq(Steers) /\ drained \in Seq(Steers)
    /\ calls \in [toStart : SUBSET Calls, running : SUBSET Calls]
    /\ usage = spent

-----------------------------------------------------------------------------
(* The parts of a step.                                                    *)

\* The turn's end closes the mailbox and leaves what is in it.
LEMMA EndCloses ==
    ASSUME NEW how, End(how), TurnInvariant
    PROVE  /\ phase' \in {"fresh", "open", "closed", "cancelled"}
           /\ queue' = queue
           /\ [Mailbox!Next]_(Mailbox!mailboxVars)
BY DEF End, TurnInvariant, Mailbox!Next, Mailbox!Close, Mailbox!mailboxVars

\* add_round and the history of what was spent agree on every round.
LEMMA RoundAdded ==
    ASSUME usage = spent, NEW tokens
    PROVE  AddRound(usage, Cost(tokens)) = Reported(spent, tokens)
BY DEF AddRound, Cost, Reported, None

\* A step that leaves the mailbox alone is none of it.
LEMMA MailboxAlone ==
    ASSUME UNCHANGED <<phase, queue, delivered, refused, finished>>
    PROVE  [Mailbox!Next]_(Mailbox!mailboxVars)
BY DEF Mailbox!mailboxVars

-----------------------------------------------------------------------------
(* The invariant, and the turn as a user of the mailbox: one step of the   *)
(* proof per action.                                                       *)

\* A conversation before its turn satisfies the invariant.
LEMMA InvariantInit == Init => TurnInvariant
BY DEF Init, TurnInvariant, Mailbox!Init, NoCalls

\* What the host does keeps the invariant and is a step of the mailbox or none.
LEMMA HostStep ==
    ASSUME TurnInvariant, Host
    PROVE  TurnInvariant' /\ [Mailbox!Next]_(Mailbox!mailboxVars)
<1>1. CASE Start
  <2>1. CASE Mailbox!Start
    BY <1>1, <2>1 DEF Start, TurnInvariant, history, Mailbox!Start, Mailbox!Next
  <2>2. CASE End("refused")
    BY <1>1, <2>2, EndCloses DEF Start, TurnInvariant, history
  <2> QED
    BY <1>1, <2>1, <2>2 DEF Start
<1>2. CASE Cancel
  BY <1>2 DEF Cancel, TurnInvariant, history, Mailbox!Cancel, Mailbox!Next
<1>3. CASE CancelNotify \/ RequestCompact
  BY <1>3, MailboxAlone DEF CancelNotify, RequestCompact, TurnInvariant, history, control
<1>4. CASE Drop
  BY <1>4, EndCloses DEF Drop, TurnInvariant, history
<1>5. ASSUME NEW s \in Steers, QueueSteer(s)
      PROVE  TurnInvariant' /\ [Mailbox!Next]_(Mailbox!mailboxVars)
  <2>1. UNCHANGED <<drained, calls, usage, spent>>
    BY <1>5 DEF QueueSteer, history
  <2>2. CASE Mailbox!Accept(s)
    BY <2>1, <2>2 DEF TurnInvariant, Mailbox!Accept, Mailbox!Next
  <2>3. CASE Mailbox!Refuse(s)
    BY <2>1, <2>3 DEF TurnInvariant, Mailbox!Refuse, Mailbox!Next
  <2> QED
    BY <1>5, <2>2, <2>3 DEF QueueSteer
<1> QED
  BY <1>1, <1>2, <1>3, <1>4, <1>5 DEF Host

\* So is the agent's own work between two suspension points.
LEMMA InternalStep ==
    ASSUME TurnInvariant, Internal
    PROVE  TurnInvariant' /\ [Mailbox!Next]_(Mailbox!mailboxVars)
<1>1. CASE Drain
  <2>1. CASE Mailbox!Take /\ drained' = queue
    BY <1>1, <2>1 DEF Drain, TurnInvariant, history, Mailbox!Take, Mailbox!Next
  <2>2. CASE End("cancelled") /\ UNCHANGED drained
    BY <1>1, <2>2, EndCloses DEF Drain, TurnInvariant, history
  <2> QED
    BY <1>1, <2>1, <2>2 DEF Drain
<1>2. CASE PushSteer
  <2>1. drained' \in Seq(Steers)
    BY <1>2 DEF PushSteer, TurnInvariant
  <2> QED
    BY <1>2, <2>1, MailboxAlone DEF PushSteer, TurnInvariant, history, control
<1>3. CASE \/ SteersPushed \/ DecideMaintenance \/ Send \/ Poll \/ Interrupt
  BY <1>3, MailboxAlone
     DEF SteersPushed, DecideMaintenance, Send, Poll, Interrupt, TurnInvariant,
         history, control
<1>4. CASE FitsBudget \/ Dispatch \/ Cancelled \/ BeginTools
  <2>1. UNCHANGED <<drained, calls, usage, spent>>
    BY <1>4 DEF FitsBudget, Dispatch, Cancelled, BeginTools, history
  <2>2. CASE UNCHANGED control
    BY <2>1, <2>2, MailboxAlone DEF TurnInvariant, control
  <2>3. CASE \E how \in {"maintenance", "document", "cancelled", "rounds"} : End(how)
    BY <2>1, <2>3, EndCloses DEF TurnInvariant
  <2> QED
    BY <1>4, <2>2, <2>3 DEF FitsBudget, Dispatch, Cancelled, BeginTools
<1>5. CASE Finish
  <2>1. UNCHANGED <<drained, calls, usage, spent>>
    BY <1>5 DEF Finish
  <2>2. CASE Mailbox!Finish
    BY <2>1, <2>2 DEF TurnInvariant, Mailbox!Finish, Mailbox!Next
  <2>3. CASE UNCHANGED control
    BY <2>1, <2>3, MailboxAlone DEF TurnInvariant, control
  <2> QED
    BY <1>5, <2>2, <2>3 DEF Finish
<1>6. CASE ToolStarted
  <2>1. calls' \in [toStart : SUBSET Calls, running : SUBSET Calls]
    BY <1>6 DEF ToolStarted, TurnInvariant
  <2> QED
    BY <1>6, <2>1, MailboxAlone DEF ToolStarted, TurnInvariant, history, control
<1> QED
  BY <1>1, <1>2, <1>3, <1>4, <1>5, <1>6 DEF Internal

\* So is an answer of a provider, of maintenance or of a tool.
LEMMA OperationStep ==
    ASSUME TurnInvariant, Operations
    PROVE  TurnInvariant' /\ [Mailbox!Next]_(Mailbox!mailboxVars)
<1>1. CASE MaintainOk
  <2>1. PICK r, t, opaque : Maintained(r, opaque, t)
    BY <1>1 DEF MaintainOk
  <2>2. UNCHANGED <<drained, calls>>
    BY <1>1 DEF MaintainOk
  <2>3. usage' = spent'
    BY <2>1, RoundAdded DEF Maintained, TurnInvariant
  <2>4. End("maintenance") \/ UNCHANGED control
    BY <2>1 DEF Maintained
  <2>5. CASE End("maintenance")
    BY <2>2, <2>3, <2>5, EndCloses DEF TurnInvariant
  <2>6. CASE UNCHANGED control
    BY <2>2, <2>3, <2>6, MailboxAlone DEF TurnInvariant, control
  <2> QED
    BY <2>4, <2>5, <2>6
<1>2. CASE CompactOk
  <2>1. usage' = spent'
    BY <1>2, RoundAdded DEF CompactOk, TurnInvariant
  <2> QED
    BY <1>2, <2>1, MailboxAlone DEF CompactOk, TurnInvariant, control
<1>3. CASE MaintainFailed \/ Overflow \/ StreamFailed
  <2>1. UNCHANGED <<drained, calls, usage, spent>>
    BY <1>3 DEF MaintainFailed, Overflow, StreamFailed, history
  <2>2. CASE UNCHANGED control
    BY <2>1, <2>2, MailboxAlone DEF TurnInvariant, control
  <2>3. CASE \E how \in {"maintenance", "provider", "ended"} : End(how)
    BY <2>1, <2>3, EndCloses DEF TurnInvariant
  <2> QED
    BY <1>3, <2>2, <2>3 DEF MaintainFailed, Overflow, StreamFailed
<1>4. CASE CompactFailed \/ TextDelta
  BY <1>4, MailboxAlone DEF CompactFailed, TextDelta, TurnInvariant, history, control
<1>5. CASE Completed
  <2>1. PICK C \in SUBSET Calls : \E t : Accept(C, t)
    BY <1>5 DEF Completed
  <2>2. calls' \in [toStart : SUBSET Calls, running : SUBSET Calls]
    BY <2>1 DEF Accept
  <2>3. usage' = spent'
    BY <2>1, RoundAdded DEF Accept, TurnInvariant
  <2> QED
    BY <1>5, <2>2, <2>3, MailboxAlone DEF Completed, TurnInvariant, control
<1>6. CASE ToolFinished
  <2>1. calls' \in [toStart : SUBSET Calls, running : SUBSET Calls]
    BY <1>6 DEF ToolFinished, TurnInvariant
  <2> QED
    BY <1>6, <2>1, MailboxAlone DEF ToolFinished, TurnInvariant, history, control
<1> QED
  BY <1>1, <1>2, <1>3, <1>4, <1>5, <1>6 DEF Operations

\* Every step keeps the invariant and is a step of the mailbox or none.
LEMMA TurnStep ==
    ASSUME TurnInvariant, [Next]_vars
    PROVE  TurnInvariant' /\ [Mailbox!Next]_(Mailbox!mailboxVars)
<1>1. CASE UNCHANGED vars
  BY <1>1, MailboxAlone DEF vars, control, history, TurnInvariant
<1> QED
  BY <1>1, HostStep, InternalStep, OperationStep DEF Next

\* At every suspension point of a turn the mailbox holds corrections and nothing else,
\* what is started or running are calls of the last reply, and turn_usage is what came
\* with replies and with compactions that finished.
THEOREM Invariance == Spec => []TurnInvariant
<1>1. TurnInvariant /\ [Next]_vars => TurnInvariant'
  BY TurnStep
<1> QED
  BY InvariantInit, <1>1, PTL DEF Spec

\* A turn touches its control in no other way than the mailbox allows: it takes all of
\* the queue or none, completes only with an empty one, and closes it on every exit,
\* an error, a drop or a cancel at any suspension point included.
THEOREM UsesMailbox == Spec => Mailbox!Spec
<1>1. Init => Mailbox!Init
  BY DEF Init
<1>2. TurnInvariant /\ [Next]_vars => [Mailbox!Next]_(Mailbox!mailboxVars)
  BY TurnStep
<1> QED
  BY Invariance, <1>1, <1>2, PTL DEF Spec, Mailbox!Spec

\* No usage of a reply or a finished compaction is missing from a completed turn or in it
\* twice, and an unknown count makes the sum unknown, whatever rounds, retries and
\* compactions it had; what compactions cost that failed is not in it.
THEOREM UsageReported == Spec => []UsageSummed
<1>1. TurnInvariant => UsageSummed
  BY DEF TurnInvariant, UsageSummed
<1> QED
  BY Invariance, <1>1, PTL

-----------------------------------------------------------------------------
(* What a cancelled turn may still do to its context.                      *)

\* The context stays, or a correction or the result of a tool joins it.
Frozen ==
    \/ UNCHANGED active
    \/ /\ UNCHANGED continuation
       /\ \E m \in {Steer(s) : s \in Steers} \cup {Result(attempt, c) : c \in Calls} :
             conversation' = Append(conversation, m)

\* What the host does after a cancel leaves the context frozen.
LEMMA HostFreezes == ASSUME phase = "cancelled", Host PROVE Frozen
BY DEF Host, Start, Mailbox!Start, End, Cancel, CancelNotify, RequestCompact, Drop,
       QueueSteer, Frozen, active

\* So does the agent's own work, but for corrections already drained.
LEMMA InternalFreezes ==
    ASSUME TurnInvariant, Internal
    PROVE  Frozen
<1>1. CASE PushSteer
  <2>1. Head(drained) \in Steers
    BY <1>1 DEF PushSteer, TurnInvariant
  <2> QED
    BY <1>1, <2>1 DEF PushSteer, Frozen
<1> QED
  BY <1>1 DEF Internal, Drain, SteersPushed, DecideMaintenance, FitsBudget, Dispatch, Send,
              Poll, Cancelled, Interrupt, Finish, BeginTools, ToolStarted, history,
              Frozen, active

\* So does an answer that comes late, but for results of started calls.
LEMMA OperationFreezes ==
    ASSUME TurnInvariant, phase = "cancelled", Operations
    PROVE  Frozen
<1>1. CASE ToolFinished
  <2>1. PICK c \in calls.running : conversation' = Append(conversation, Result(attempt, c))
    BY <1>1 DEF ToolFinished
  <2>2. c \in Calls
    BY <2>1 DEF TurnInvariant
  <2> QED
    BY <1>1, <2>1, <2>2 DEF ToolFinished, Frozen
<1>2. CASE MaintainFailed \/ Overflow \/ StreamFailed
  BY <1>2 DEF MaintainFailed, Overflow, StreamFailed, Frozen, active
<1> QED
  BY <1>1, <1>2 DEF Operations, MaintainOk, CompactOk, CompactFailed, TextDelta, Completed,
                    Uncancelled

\* From the cancel on, no reply, compaction or continuation is committed: what is left
\* to come are the corrections already drained and results of calls already started.
THEOREM CancelFreezes == Spec => CancelFreezesContext
<1>1. TurnInvariant /\ [Next]_vars => [phase = "cancelled" => Frozen]_vars
  <2> SUFFICES ASSUME TurnInvariant, [Next]_vars, phase = "cancelled" PROVE Frozen
    OBVIOUS
  <2>1. CASE UNCHANGED vars
    BY <2>1 DEF vars, Frozen
  <2> QED
    BY <2>1, HostFreezes, InternalFreezes, OperationFreezes DEF Next
<1> QED
  BY Invariance, <1>1, PTL DEF Spec, CancelFreezesContext, Frozen, active

-----------------------------------------------------------------------------
(* What the context consists of.                                           *)

Messages ==
    {User, [kind |-> "old"]} \cup {Steer(s) : s \in Steers}
        \cup {Reply(n, C) : n \in Nat, C \in SUBSET Calls}
        \cup {Result(n, c) : n \in Nat, c \in Calls}
        \cup {Summary(n) : n \in Nat}

Maintenance == [measured : Int, estimated : Int, softAfter : Int,
                awaiting : BOOLEAN, force : BOOLEAN, recovered : BOOLEAN]

Due == [estimate : Int, hard : BOOLEAN, soft : BOOLEAN, manual : BOOLEAN]

\* The conversation is one of messages and is never empty, rounds are counted,
\* and the policy's figures are numbers.
ContextInvariant ==
    /\ conversation \in Seq(Messages) /\ conversation # <<>>
    /\ delivered \in Seq(Steers)
    /\ attempt \in Nat /\ compactRequested \in BOOLEAN
    /\ maint \in Maintenance /\ due \in Due

\* A message has its kind and the fields of it.
LEMMA KindsOfMessages ==
    ASSUME NEW m \in Messages
    PROVE  /\ m.kind \in {"user", "old", "steer", "reply", "result", "summary"}
           /\ m.kind = "reply" =>
                 m.round \in Nat /\ m.calls \in SUBSET Calls /\ m = Reply(m.round, m.calls)
           /\ m.kind = "result" =>
                 m.round \in Nat /\ m.call \in Calls /\ m = Result(m.round, m.call)
BY DEF Messages, User, Steer, Reply, Result, Summary

\* Whatever compaction makes of a conversation: some messages that are neither
\* replies nor results, then the conversation from a position on that is not a result's;
\* the corrections are the same ones.
LEMMA CompactedShape ==
    ASSUME NEW messages \in Seq(Messages), NEW r \in Compacted(messages), attempt \in Nat
    PROVE  /\ r \in Seq(Messages)
           /\ \E l, d \in Nat :
                 /\ l >= 1 /\ d \in 1 .. Len(messages)
                 /\ Len(r) = l + (Len(messages) - d)
                 /\ \A i \in 1 .. l : r[i].kind \notin {"reply", "result"}
                 /\ \A i \in 1 .. Len(messages) - d : r[l + i] = messages[d + i]
                 /\ d < Len(messages) => messages[d + 1].kind # "result"
           /\ OfKinds(r, {"steer"}) = OfKinds(messages, {"steer"})
<1> DEFINE N == Len(messages)
<1>1. PICK k \in 2 .. N + 1 :
         /\ SafeStart(messages, k)
         /\ r = <<Summary(attempt)>> \o OfKinds(SubSeq(messages, 1, k - 1), Pinned)
                                     \o SubSeq(messages, k, N)
  BY DEF Compacted
<1> DEFINE h == <<Summary(attempt)>>
           p == SubSeq(messages, 1, k - 1)
           o == OfKinds(p, Pinned)
           q == SubSeq(messages, k, N)
           d == k - 1
<1>2. N \in Nat /\ d \in 1 .. N /\ d + 1 = k
  BY LenProperties
<1>3. h \in Seq(Messages) /\ Len(h) = 1 /\ h[1].kind = "summary"
  <2>1. Summary(attempt) \in Messages /\ Summary(attempt).kind = "summary"
    BY DEF Messages, Summary
  <2> QED
    BY <2>1
<1>4. /\ p \in Seq(Messages) /\ q \in Seq(Messages)
      /\ Len(q) = N - d /\ \A i \in 1 .. N - d : q[i] = messages[d + i]
  <2>1. p \in Seq(Messages) /\ q \in Seq(Messages)
    BY <1>2, SubSeqProperties
  <2>2. Len(q) = N - d
    BY <1>2
  <2>3. \A i \in 1 .. N - d : q[i] = messages[d + i]
    BY <1>2
  <2> QED
    BY <2>1, <2>2, <2>3
<1>5. /\ o \in Seq(Messages) /\ Len(o) \in Nat
      /\ \A i \in 1 .. Len(o) : o[i].kind \in Pinned
  <2> HIDE DEF p
  <2> QED
    BY <1>4, OfKindsType, LenProperties
<1>6. OfKinds(messages, {"steer"}) = OfKinds(p, {"steer"}) \o OfKinds(q, {"steer"})
  BY <1>2, OfKindsSplit
<1>7. OfKinds(o, {"steer"}) = OfKinds(p, {"steer"})
  <2>1. Pinned \cap {"steer"} = {"steer"}
    BY DEF Pinned
  <2> HIDE DEF p
  <2> QED
    BY <1>4, <2>1, OfKindsTwice
<1>8. OfKinds(h, {"steer"}) = <<>>
  <2>1. Summary(attempt) \in Messages /\ Summary(attempt).kind \notin {"steer"}
    BY DEF Messages, Summary
  <2> QED
    BY <2>1, OfKindsOne
<1> HIDE DEF h, p, o, q, d, N
<1>9. r = (h \o o) \o q
  BY <1>1 DEF h, p, o, q
<1>10. /\ h \o o \in Seq(Messages) /\ Len(h \o o) = 1 + Len(o)
       /\ \A i \in 1 .. 1 + Len(o) : (h \o o)[i].kind \notin {"reply", "result"}
  <2>1. /\ h \o o \in Seq(Messages) /\ Len(h \o o) = 1 + Len(o)
        /\ \A i \in 1 .. 1 + Len(o) :
              (h \o o)[i] = IF i <= 1 THEN h[i] ELSE o[i - 1]
    <3>1. /\ h \o o \in Seq(Messages) /\ Len(h \o o) = Len(h) + Len(o)
          /\ \A i \in 1 .. Len(h) + Len(o) :
                (h \o o)[i] = IF i <= Len(h) THEN h[i] ELSE o[i - Len(h)]
      <4>1. h \in Seq(Messages) /\ o \in Seq(Messages)
        BY <1>3, <1>5
      <4> QED
        BY <4>1, ConcatProperties
    <3> QED
      BY <1>3, <3>1
  <2>2. ASSUME NEW i \in 1 .. 1 + Len(o) PROVE (h \o o)[i].kind \notin {"reply", "result"}
    <3>1. CASE i = 1
      BY <1>3, <2>1, <3>1
    <3>2. CASE i # 1
      <4>1. (h \o o)[i] = o[i - 1] /\ i - 1 \in 1 .. Len(o)
        BY <1>5, <2>1, <3>2
      <4> QED
        BY <1>5, <4>1 DEF Pinned
    <3> QED
      BY <3>1, <3>2
  <2> QED
    BY <2>1, <2>2
<1>11. /\ r \in Seq(Messages) /\ Len(r) = 1 + Len(o) + (N - d)
       /\ \A i \in 1 .. 1 + Len(o) : r[i] = (h \o o)[i]
       /\ \A i \in 1 .. N - d : r[1 + Len(o) + i] = q[i]
  <2> DEFINE ho == h \o o
             m == 1 + Len(o)
  <2>1. ho \in Seq(Messages) /\ Len(ho) = m /\ m \in Nat
    BY <1>5, <1>10
  <2> HIDE DEF ho, m
  <2>2. /\ r = ho \o q /\ ho \o q \in Seq(Messages) /\ Len(ho \o q) = m + Len(q)
        /\ \A i \in 1 .. m : (ho \o q)[i] = ho[i]
        /\ \A i \in 1 .. Len(q) : (ho \o q)[m + i] = q[i]
    <3>1. /\ ho \o q \in Seq(Messages) /\ Len(ho \o q) = m + Len(q)
          /\ \A i \in 1 .. m + Len(q) : (ho \o q)[i] = IF i <= m THEN ho[i] ELSE q[i - m]
      BY <1>4, <2>1, ConcatProperties
    <3>2. Len(q) \in Nat
      BY <1>4
    <3>3. \A i \in 1 .. Len(q) : (ho \o q)[m + i] = q[i]
      BY <2>1, <3>1, <3>2
    <3>4. \A i \in 1 .. m : (ho \o q)[i] = ho[i]
      BY <2>1, <3>1, <3>2
    <3> QED
      BY <1>9, <3>1, <3>3, <3>4 DEF ho
  <2> QED
    BY <1>4, <2>2 DEF ho, m
<1>12. OfKinds(r, {"steer"}) = OfKinds(messages, {"steer"})
  <2>1. OfKinds(r, {"steer"}) = OfKinds(h \o o, {"steer"}) \o OfKinds(q, {"steer"})
    <3> DEFINE ho == h \o o
    <3> DEFINE K == {"steer"}
               M == Messages
    <3>1. ho \in Seq(M) /\ q \in Seq(M)
      BY <1>4, <1>10
    <3> HIDE DEF ho, K, M
    <3>2. OfKinds(ho \o q, K) = OfKinds(ho, K) \o OfKinds(q, K)
      BY ONLY <3>1, OfKindsConcat
    <3> QED
      BY <1>9, <3>2 DEF ho, K
  <2>2. OfKinds(h \o o, {"steer"}) = OfKinds(h, {"steer"}) \o OfKinds(o, {"steer"})
    BY <1>3, <1>5, OfKindsConcat
  <2>3. OfKinds(o, {"steer"}) \in Seq(Messages)
    BY <1>5, OfKindsType
  <2>4. <<>> \o OfKinds(o, {"steer"}) = OfKinds(o, {"steer"})
    BY <2>3, ConcatEmptySeq
  <2> QED
    BY <1>6, <1>7, <1>8, <2>1, <2>2, <2>4
<1>13. d < N => messages[d + 1].kind # "result"
  BY <1>1, <1>2 DEF SafeStart, N
<1> QED
  <2>1. /\ 1 + Len(o) \in Nat /\ d \in Nat /\ 1 + Len(o) >= 1 /\ d \in 1 .. N
        /\ \A i \in 1 .. 1 + Len(o) : r[i].kind \notin {"reply", "result"}
        /\ \A i \in 1 .. N - d : r[1 + Len(o) + i] = messages[d + i]
    <3>1. \A i \in 1 .. 1 + Len(o) : r[i].kind \notin {"reply", "result"}
      BY <1>10, <1>11
    <3>2. \A i \in 1 .. N - d : r[1 + Len(o) + i] = messages[d + i]
      BY <1>4, <1>11
    <3> QED
      BY <1>2, <1>5, <3>1, <3>2
  <2> QED
    BY <1>11, <1>12, <1>13, <2>1 DEF N

\* A message added to a conversation gives a conversation.
LEMMA MessageAdded ==
    ASSUME ContextInvariant, NEW m \in Messages, conversation' = Append(conversation, m)
    PROVE  conversation' \in Seq(Messages) /\ conversation' # <<>>
BY AppendProperties DEF ContextInvariant

\* So does compaction.
LEMMA MessagesReplaced ==
    ASSUME ContextInvariant, NEW r \in Compacted(conversation)
    PROVE  r \in Seq(Messages) /\ r # <<>>
<1>1. conversation \in Seq(Messages) /\ attempt \in Nat
  BY DEF ContextInvariant
<1>2. /\ r \in Seq(Messages)
      /\ \E l, d \in Nat : /\ l >= 1 /\ d \in 1 .. Len(conversation)
                           /\ Len(r) = l + (Len(conversation) - d)
  <2> HIDE DEF Compacted, Messages
  <2> QED
    BY <1>1, CompactedShape
<1>3. Len(r) > 0
  BY <1>1, <1>2
<1> QED
  BY <1>2, <1>3

\* A conversation before its turn is well formed.
LEMMA ContextInit == ConfigAssumption /\ Init => ContextInvariant
<1> SUFFICES ASSUME Init PROVE ContextInvariant
  OBVIOUS
<1>1. [kind |-> "old"] \in Messages /\ Reply(0, {}) \in Messages
  BY DEF Messages
<1>2. Earlier \in Seq(Messages) /\ Earlier # <<>>
  BY <1>1 DEF Earlier
<1>3. maint \in Maintenance /\ due \in Due
  BY DEF Init, Maintenance, Due, NotDue, None
<1>4. /\ conversation = Earlier /\ delivered = <<>> /\ attempt = 0
      /\ compactRequested = FALSE
  BY DEF Init, Mailbox!Init
<1>5. delivered \in Seq(Steers) /\ attempt \in Nat
  BY <1>4
<1>6. compactRequested \in BOOLEAN
  BY <1>4
<1> QED
  BY <1>2, <1>3, <1>4, <1>5, <1>6, Zenon DEF ContextInvariant

\* What the host does leaves the context well formed.
LEMMA HostKeepsContext ==
    ASSUME ContextInvariant, Host
    PROVE  ContextInvariant'
<1>1. CASE Start
  <2>1. User \in Messages
    BY DEF Messages
  <2>2. CASE conversation' = Append(conversation, User) /\ Mailbox!Start
    BY <1>1, <2>1, <2>2, MessageAdded DEF Start, Mailbox!Start, ContextInvariant, history
  <2>3. CASE End("refused") /\ UNCHANGED conversation
    BY <1>1, <2>3 DEF Start, End, ContextInvariant, history
  <2> QED
    BY <1>1, <2>2, <2>3 DEF Start
<1>2. CASE Cancel \/ CancelNotify \/ RequestCompact \/ Drop
  BY <1>2 DEF Cancel, Mailbox!Cancel, CancelNotify, RequestCompact, Drop, End, control, active,
              history, ContextInvariant
<1>3. CASE \E s \in Steers : QueueSteer(s)
  BY <1>3 DEF QueueSteer, Mailbox!Accept, Mailbox!Refuse, active, history, ContextInvariant
<1> QED
  BY <1>1, <1>2, <1>3 DEF Host

\* So does the agent's own work: corrections pushed, a round decided on, a request sent.
LEMMA InternalKeepsContext ==
    ASSUME ConfigAssumption, TurnInvariant, ContextInvariant, Internal
    PROVE  ContextInvariant'
<1>1. CASE Drain
  <2>1. delivered' \in Seq(Steers)
    <3>1. delivered \in Seq(Steers) /\ queue \in Seq(Steers)
      BY DEF TurnInvariant, ContextInvariant
    <3>2. delivered' \in {delivered, delivered \o queue}
      BY <1>1 DEF Drain, Mailbox!Take, End
    <3> QED
      BY <3>1, <3>2, ConcatProperties
  <2> QED
    BY <1>1, <2>1 DEF Drain, active, history, ContextInvariant
<1>2. CASE PushSteer
  <2>1. Head(drained) \in Steers
    BY <1>2 DEF PushSteer, TurnInvariant
  <2>2. Steer(Head(drained)) \in Messages
    BY <2>1 DEF Messages
  <2> QED
    BY <1>2, <2>2, MessageAdded DEF PushSteer, control, history, ContextInvariant
<1>3. CASE DecideMaintenance
  <2>1. Estimate \in Int
    BY DEF Estimate, EstimateOf, Size, Larger, ContextInvariant, Maintenance
  <2>2. OverBudget(Estimate) \in BOOLEAN /\ SoftDue \in BOOLEAN
    BY DEF OverBudget, SoftDue
  <2>3. due' \in Due
    BY <1>3, <2>1, <2>2 DEF DecideMaintenance, Due, ContextInvariant
  <2> QED
    BY <1>3, <2>3 DEF DecideMaintenance, control, active, history, ContextInvariant
<1>4. CASE Dispatch
  BY <1>4 DEF Dispatch, End, control, active, history, ContextInvariant
<1>5. CASE Send
  BY <1>5 DEF Send, control, active, history, ContextInvariant
<1>6. CASE SteersPushed \/ FitsBudget \/ Poll \/ Cancelled \/ Interrupt \/ BeginTools \/ ToolStarted
  BY <1>6 DEF SteersPushed, FitsBudget, Poll, Cancelled, Interrupt, BeginTools, ToolStarted, End,
              control, active, history, ContextInvariant
<1>7. CASE Finish
  BY <1>7 DEF Finish, Mailbox!Finish, control, active, ContextInvariant
<1> QED
  BY <1>1, <1>2, <1>3, <1>4, <1>5, <1>6, <1>7 DEF Internal

\* So does an answer: a reply, a compaction, a result, an error.
LEMMA OperationKeepsContext ==
    ASSUME ConfigAssumption, TurnInvariant, ContextInvariant, Operations
    PROVE  ContextInvariant'
<1>0. /\ maint \in Maintenance /\ due \in Due /\ Growth \in Nat /\ Size(conversation) \in Nat
      /\ NotDue \in Due
  BY DEF ContextInvariant, ConfigAssumption, Size, Due, NotDue
<1>1. CASE MaintainOk
  <2>1. PICK r \in Compacted(conversation), t \in {None, Size(conversation)}, opaque \in Opaque :
           Maintained(r, opaque, t)
    BY <1>1 DEF MaintainOk
  <2>2. r \in Seq(Messages) /\ r # <<>>
    BY MessagesReplaced
  <2>3. conversation' \in {conversation, r}
    BY <2>1 DEF Maintained, active
  <2>4. maint' \in Maintenance
    <3> DEFINE base == IF opaque
                       THEN Larger(Larger(due.estimate, Size(r)), Larger(t, 0))
                       ELSE Size(r)
               kept == [maint EXCEPT !.softAfter = base + Growth, !.awaiting = opaque,
                                     !.force = FALSE]
    <3>1. base \in Int
      <4>1. Size(r) \in Int /\ t \in Int /\ due.estimate \in Int
        BY <1>0, <2>2 DEF Size, None, Due
      <4> QED
        BY <4>1 DEF Larger
    <3>2. opaque \in BOOLEAN
      BY DEF ConfigAssumption
    <3> HIDE DEF base
    <3>3. kept \in Maintenance
      <4> DEFINE after == base + Growth
      <4>1. after \in Int
        BY <1>0, <3>1
      <4> HIDE DEF after
      <4>2. [maint EXCEPT !.softAfter = after, !.awaiting = opaque, !.force = FALSE]
               \in Maintenance
        BY <1>0, <3>2, <4>1 DEF Maintenance
      <4> QED
        BY <4>2 DEF after
    <3> HIDE DEF kept
    <3>4. [kept EXCEPT !.measured = None] \in Maintenance
      BY <3>3 DEF Maintenance, None
    <3>5. maint' \in {maint, kept, [kept EXCEPT !.measured = None]}
      BY <2>1 DEF Maintained, base, kept
    <3> QED
      BY <1>0, <3>3, <3>4, <3>5
  <2>5. delivered' = delivered
    BY <2>1 DEF Maintained, End, control
  <2> QED
    BY <1>0, <1>1, <2>2, <2>3, <2>4, <2>5 DEF MaintainOk, ContextInvariant
<1>2. CASE CompactOk
  BY <1>2, MessagesReplaced DEF CompactOk, control, ContextInvariant
<1>3. CASE MaintainFailed
  <2>1. maint' \in Maintenance
    BY <1>0, <1>3 DEF MaintainFailed, Maintenance, Due
  <2> QED
    BY <1>0, <1>3, <2>1 DEF MaintainFailed, End, control, active, ContextInvariant
<1>4. CASE Overflow
  <2>1. maint' \in Maintenance
    BY <1>0, <1>4 DEF Overflow, Recovering, Maintenance
  <2> QED
    BY <1>4, <2>1 DEF Overflow, End, control, active, ContextInvariant
<1>5. CASE CompactFailed \/ TextDelta \/ StreamFailed
  BY <1>5 DEF CompactFailed, TextDelta, StreamFailed, End, control, active, history,
              ContextInvariant
<1>6. CASE Completed
  <2>1. PICK C \in SUBSET Calls, t \in {None} \cup {Size(conversation) + 1 + x : x \in Excess} :
           Accept(C, t)
    BY <1>6 DEF Completed
  <2>2. Reply(attempt, C) \in Messages
    BY DEF Messages, ContextInvariant
  <2>3. conversation' = Append(conversation, Reply(attempt, C))
    BY <2>1 DEF Accept
  <2>4. conversation' \in Seq(Messages) /\ conversation' # <<>>
    BY <2>2, <2>3, MessageAdded
  <2>5. maint' \in Maintenance
    <3>1. t \in Int
      BY <1>0 DEF ConfigAssumption, None
    <3>2. Size(conversation') \in Int
      BY <2>4 DEF Size
    <3>3. Measured(t, Size(conversation')) \in Maintenance
      <4>1. CASE ~Policy \/ t = None
        BY <1>0, <4>1 DEF Measured
      <4>2. CASE ~(~Policy \/ t = None)
        <5>1. (IF maint.awaiting THEN t + Growth ELSE maint.softAfter) \in Int
          BY <1>0, <3>1 DEF Maintenance
        <5>2. [maint EXCEPT !.measured = t, !.estimated = Size(conversation'),
                            !.softAfter = IF maint.awaiting THEN t + Growth ELSE @,
                            !.awaiting = FALSE] \in Maintenance
          BY <1>0, <3>1, <3>2, <5>1 DEF Maintenance
        <5> QED
          BY <4>2, <5>2 DEF Measured
      <4> QED
        BY <4>1, <4>2
    <3>4. maint' = [Measured(t, Size(conversation')) EXCEPT !.recovered = FALSE]
      BY <2>1, <2>3 DEF Accept
    <3> QED
      BY <3>3, <3>4 DEF Maintenance
  <2> QED
    BY <1>6, <2>4, <2>5 DEF Completed, control, ContextInvariant
<1>7. CASE ToolFinished
  <2>1. PICK c \in calls.running : conversation' = Append(conversation, Result(attempt, c))
    BY <1>7 DEF ToolFinished
  <2>2. Result(attempt, c) \in Messages
    BY DEF Messages, ContextInvariant, TurnInvariant
  <2> QED
    BY <1>7, <2>1, <2>2, MessageAdded DEF ToolFinished, control, history, ContextInvariant
<1> QED
  BY <1>1, <1>2, <1>3, <1>4, <1>5, <1>6, <1>7 DEF Operations

\* What the invariants below build on.
Typed == TurnInvariant /\ ContextInvariant

\* The conversation of a turn consists of messages and is never empty, its steers
\* were delivered as steers, its rounds are numbered, and a policy's figures are numbers
\* or the None of an unknown.
THEOREM ContextTyped == Spec => []Typed
<1>1. TurnInvariant /\ ContextInvariant /\ [Next]_vars => ContextInvariant'
  <2> SUFFICES ASSUME TurnInvariant, ContextInvariant, [Next]_vars PROVE ContextInvariant'
    OBVIOUS
  <2>1. CASE UNCHANGED vars
    BY <2>1 DEF vars, control, active, history, ContextInvariant
  <2> QED
    BY <2>1, ConfigAssumption, HostKeepsContext, InternalKeepsContext, OperationKeepsContext
       DEF Next
<1>2. Init => ContextInvariant
  BY ConfigAssumption, ContextInit
<1> QED
  BY Invariance, <1>1, <1>2, PTL DEF Spec, Typed

-----------------------------------------------------------------------------
(* The provider state and the conversation are one checkpoint.             *)

\* What is added later does not part them.
LEMMA FitsAppended ==
    ASSUME Typed, ContinuationFits, UNCHANGED continuation,
           NEW m \in Messages, conversation' = Append(conversation, m)
    PROVE  ContinuationFits'
<1>1. /\ DOMAIN conversation = 1 .. Len(conversation) /\ Len(conversation) \in Nat
      /\ DOMAIN conversation' = 1 .. Len(conversation) + 1
      /\ \A i \in 1 .. Len(conversation) : conversation'[i] = conversation[i]
  BY AppendProperties, LenProperties DEF Typed, ContextInvariant
<1> QED
  BY <1>1 DEF ContinuationFits

\* Provider state for a whole conversation stands for a prefix of it.
LEMMA CoveringFits ==
    ASSUME conversation' \in Seq(Messages), conversation' # <<>>,
           continuation' \in {Covering(conversation'), Fresh}
    PROVE  ContinuationFits'
<1>1. Len(conversation') \in DOMAIN conversation'
  BY EmptySeq, LenProperties
<1> QED
  BY <1>1 DEF Covering, ContinuationFits, Last

\* At every point at which a turn can be suspended, cancelled or dropped, the provider
\* state it would go on with stands for a prefix of the conversation it is kept with.
THEOREM CheckpointFits == Spec => []ContinuationFits
<1>1. Init => ContinuationFits
  BY DEF Init, ContinuationFits
<1>2. Typed /\ ContinuationFits /\ [Next]_vars => ContinuationFits'
  <2> SUFFICES ASSUME Typed, ContinuationFits, [Next]_vars PROVE ContinuationFits'
    OBVIOUS
  <2>1. CASE UNCHANGED active
    BY <2>1 DEF active, ContinuationFits
  <2>2. CASE Start
    <3>1. User \in Messages
      BY DEF Messages
    <3> QED
      BY <2>1, <2>2, <3>1, FitsAppended DEF Start, active
  <2>3. CASE PushSteer
    <3>1. Steer(Head(drained)) \in Messages
      BY <2>3 DEF Messages, PushSteer, Typed, TurnInvariant
    <3> QED
      BY <2>3, <3>1, FitsAppended DEF PushSteer
  <2>4. CASE MaintainOk
    <3>1. PICK r \in Compacted(conversation) : \E t, opaque : Maintained(r, opaque, t)
      BY <2>4 DEF MaintainOk
    <3>2. r \in Seq(Messages) /\ r # <<>>
      BY MessagesReplaced DEF Typed
    <3>3. \/ UNCHANGED active
          \/ conversation' = r /\ continuation' \in {Covering(conversation'), Fresh}
      BY <3>1 DEF Maintained, active, Renewed
    <3> QED
      BY <2>1, <3>2, <3>3, CoveringFits
  <2>5. CASE CompactOk
    BY <2>5 DEF CompactOk, Renewed, ContinuationFits
  <2>6. CASE Completed
    <3>1. PICK C \in SUBSET Calls : \E t : Accept(C, t)
      BY <2>6 DEF Completed
    <3>2. Reply(attempt, C) \in Messages
      BY DEF Messages, Typed, ContextInvariant
    <3>3. /\ conversation' = Append(conversation, Reply(attempt, C))
          /\ continuation' = Covering(conversation')
      BY <3>1 DEF Accept
    <3>4. conversation' \in Seq(Messages) /\ conversation' # <<>>
      BY <3>2, <3>3, MessageAdded DEF Typed
    <3> QED
      BY <3>3, <3>4, CoveringFits
  <2>7. CASE ToolFinished
    <3>1. PICK c \in calls.running : conversation' = Append(conversation, Result(attempt, c))
      BY <2>7 DEF ToolFinished
    <3>2. Result(attempt, c) \in Messages
      BY DEF Messages, Typed, ContextInvariant, TurnInvariant
    <3> QED
      BY <2>7, <3>1, <3>2, FitsAppended DEF ToolFinished
  <2>8. CASE \/ Drain \/ SteersPushed \/ DecideMaintenance \/ FitsBudget \/ Dispatch \/ Send
             \/ Poll \/ Cancelled \/ Interrupt \/ Finish \/ BeginTools \/ ToolStarted
    BY <2>1, <2>8 DEF Drain, SteersPushed, DecideMaintenance, FitsBudget, Dispatch, Send, Poll,
                      Cancelled, Interrupt, Finish, BeginTools, ToolStarted
  <2>9. CASE \/ MaintainFailed \/ CompactFailed \/ TextDelta \/ Overflow \/ StreamFailed
             \/ Cancel \/ CancelNotify \/ RequestCompact \/ Drop
             \/ \E s \in Steers : QueueSteer(s)
    BY <2>1, <2>9 DEF MaintainFailed, CompactFailed, TextDelta, Overflow, StreamFailed, Cancel,
                      CancelNotify, RequestCompact, Drop, QueueSteer
  <2> QED
    BY <2>1, <2>2, <2>3, <2>4, <2>5, <2>6, <2>7, <2>8, <2>9
       DEF Next, Internal, Operations, Host, vars
<1> QED
  BY ContextTyped, <1>1, <1>2, PTL DEF Spec

-----------------------------------------------------------------------------
(* Calls and their results.  CallsAnswered says nothing of the points      *)
(* between a reply and the last of its results, where it does not hold;    *)
(* the invariant says what holds there, and why no round is ever confused  *)
(* with an earlier one.                                                    *)

\* No message belongs to a round that has not completed.
Rounds(messages, n) ==
    \A i \in DOMAIN messages :
        messages[i].kind \in {"reply", "result"} => messages[i].round <= n

\* Results stand directly behind the reply whose calls they answer.
ResultsFollow(messages) ==
    \A j \in DOMAIN messages : messages[j].kind = "result" =>
        \E i \in 1 .. j - 1 :
            /\ messages[i].kind = "reply" /\ messages[i].round = messages[j].round
            /\ \A k \in i + 1 .. j - 1 : messages[k].kind = "result"

AnswersTo(messages, i, c) ==
    {j \in DOMAIN messages : j > i /\ messages[j] = Result(messages[i].round, c)}

AnsweredOnce(messages, i, c) ==
    \E j \in AnswersTo(messages, i, c) : \A k \in AnswersTo(messages, i, c) : k = j

\* Every call has one result, but for the open calls of round n, which have none.
Exchanges(messages, n, open) ==
    \A i \in DOMAIN messages : messages[i].kind = "reply" =>
        \A c \in messages[i].calls :
            IF messages[i].round = n /\ c \in open
            THEN AnswersTo(messages, i, c) = {}
            ELSE AnsweredOnce(messages, i, c)

\* The conversation ends with the reply of round n and results.
EndsWithRound(messages, n) ==
    \E i \in DOMAIN messages :
        /\ messages[i].kind = "reply" /\ messages[i].round = n
        /\ \A k \in i + 1 .. Len(messages) : messages[k].kind = "result"

Paired(messages, n, open) ==
    ResultsFollow(messages) /\ Exchanges(messages, n, open)

InExchange == pc \in {"replied", "start", "tools"}
Pending == IF InExchange THEN calls.toStart \cup calls.running ELSE {}
LatestRound == IF pc = "stream" THEN attempt - 1 ELSE attempt

ExchangeInvariant ==
    /\ pc # "done" =>
          /\ Rounds(conversation, LatestRound)
          /\ Paired(conversation, attempt, Pending)
    /\ pc = "replied" =>
          calls.running = {} /\ Last(conversation) = Reply(attempt, calls.toStart)
    /\ InExchange =>
          calls.toStart \cap calls.running = {} /\ EndsWithRound(conversation, attempt)
    /\ pc = "tools" => calls.toStart = {}

\* Where the messages of an appended conversation stand.
LEMMA Appended ==
    ASSUME NEW messages \in Seq(Messages), NEW m \in Messages, NEW longer,
           longer = Append(messages, m)
    PROVE  /\ longer \in Seq(Messages) /\ Len(messages) \in Nat
           /\ Len(longer) = Len(messages) + 1
           /\ DOMAIN messages = 1 .. Len(messages)
           /\ DOMAIN longer = 1 .. Len(messages) + 1
           /\ longer[Len(messages) + 1] = m
           /\ \A i \in 1 .. Len(messages) : longer[i] = messages[i]
BY AppendProperties, LenProperties

\* A result answers no call of another round.
LEMMA ResultsDiffer ==
    ASSUME NEW n, NEW m, NEW c, NEW d, Result(n, c) = Result(m, d)
    PROVE  n = m /\ c = d
BY DEF Result

\* The user's message and a correction neither open nor answer a call.
LEMMA OtherAppended ==
    ASSUME NEW messages \in Seq(Messages), NEW m \in Messages,
           m.kind \notin {"reply", "result"}, NEW n, NEW open, NEW longer,
           longer = Append(messages, m), Paired(messages, n, open)
    PROVE  Paired(longer, n, open)
<1> DEFINE N == Len(messages)
<1>1. /\ N \in Nat /\ DOMAIN messages = 1 .. N /\ DOMAIN longer = 1 .. N + 1
      /\ longer[N + 1] = m /\ \A i \in 1 .. N : longer[i] = messages[i]
  BY Appended
<1> HIDE DEF N
<1>2. ResultsFollow(longer)
  <2> SUFFICES ASSUME NEW j \in 1 .. N + 1, longer[j].kind = "result"
               PROVE  \E i \in 1 .. j - 1 :
                         /\ longer[i].kind = "reply" /\ longer[i].round = longer[j].round
                         /\ \A k \in i + 1 .. j - 1 : longer[k].kind = "result"
    BY <1>1 DEF ResultsFollow
  <2>1. j \in 1 .. N /\ messages[j] = longer[j]
    BY <1>1
  <2>2. PICK i \in 1 .. j - 1 :
           /\ messages[i].kind = "reply" /\ messages[i].round = messages[j].round
           /\ \A k \in i + 1 .. j - 1 : messages[k].kind = "result"
    BY <1>1, <2>1 DEF Paired, ResultsFollow
  <2>3. i \in 1 .. N /\ \A k \in i + 1 .. j - 1 : k \in 1 .. N
    BY <1>1, <2>1, <2>2
  <2> QED
    BY <1>1, <2>1, <2>2, <2>3
<1>3. ASSUME NEW i \in 1 .. N, NEW c PROVE AnswersTo(longer, i, c) = AnswersTo(messages, i, c)
  <2>1. \A j \in 1 .. N + 1 : longer[j] = Result(longer[i].round, c) => j \in 1 .. N
    BY <1>1 DEF Result
  <2> QED
    BY <1>1, <2>1 DEF AnswersTo
<1>4. \A i \in DOMAIN longer : longer[i].kind = "reply" =>
          i \in 1 .. N /\ longer[i] = messages[i]
  BY <1>1
<1>5. Exchanges(longer, n, open)
  BY <1>1, <1>3, <1>4 DEF Paired, Exchanges, AnsweredOnce
<1> QED
  BY <1>2, <1>5 DEF Paired

\* No message of a later round comes with one that belongs to round n or to none.
LEMMA RoundsAppended ==
    ASSUME NEW messages \in Seq(Messages), NEW m \in Messages, NEW n \in Int, NEW longer,
           longer = Append(messages, m), Rounds(messages, n),
           m.kind \in {"reply", "result"} => m.round <= n
    PROVE  Rounds(longer, n)
BY Appended DEF Rounds

\* Nor is there one if rounds have gone on.
LEMMA RoundsLater ==
    ASSUME NEW messages \in Seq(Messages), NEW n \in Int, NEW l \in Int, n <= l,
           Rounds(messages, n)
    PROVE  Rounds(messages, l)
<1> SUFFICES ASSUME NEW i \in DOMAIN messages, messages[i].kind \in {"reply", "result"}
             PROVE  messages[i].round <= l
  BY DEF Rounds
<1>1. messages[i] \in Messages
  OBVIOUS
<1>2. messages[i].round \in Nat
  BY <1>1, KindsOfMessages
<1>3. messages[i].round <= n
  BY DEF Rounds
<1> QED
  BY <1>2, <1>3

\* The reply of a new round opens its calls and leaves the answered ones alone.
LEMMA ReplyAppended ==
    ASSUME NEW messages \in Seq(Messages), NEW n \in Nat, NEW C \in SUBSET Calls, NEW longer,
           longer = Append(messages, Reply(n, C)), Rounds(messages, n - 1),
           Paired(messages, n, {})
    PROVE  Paired(longer, n, C) /\ EndsWithRound(longer, n)
<1> DEFINE N == Len(messages)
           m == Reply(n, C)
<1>0. /\ m \in Messages /\ m.kind = "reply" /\ m.round = n /\ m.calls = C
      /\ \A k, c : m # Result(k, c)
  <2>1. m \in Messages
    BY DEF Messages
  <2>2. m.kind = "reply" /\ m.round = n /\ m.calls = C
    BY DEF Reply
  <2>3. \A k, c : Result(k, c).kind = "result"
    BY DEF Result
  <2> QED
    BY <2>1, <2>2, <2>3
<1>1. /\ N \in Nat /\ DOMAIN messages = 1 .. N /\ DOMAIN longer = 1 .. N + 1
      /\ Len(longer) = N + 1 /\ longer[N + 1] = m
      /\ \A i \in 1 .. N : longer[i] = messages[i]
  <2> HIDE DEF m
  <2> QED
    BY <1>0, Appended DEF m
<1> HIDE DEF N, m
<1>2. ResultsFollow(longer)
  <2> SUFFICES ASSUME NEW j \in 1 .. N + 1, longer[j].kind = "result"
               PROVE  \E i \in 1 .. j - 1 :
                         /\ longer[i].kind = "reply" /\ longer[i].round = longer[j].round
                         /\ \A k \in i + 1 .. j - 1 : longer[k].kind = "result"
    BY <1>1 DEF ResultsFollow
  <2>1. j \in 1 .. N /\ messages[j] = longer[j]
    BY <1>0, <1>1
  <2>2. PICK i \in 1 .. j - 1 :
           /\ messages[i].kind = "reply" /\ messages[i].round = messages[j].round
           /\ \A k \in i + 1 .. j - 1 : messages[k].kind = "result"
    BY <1>1, <2>1 DEF Paired, ResultsFollow
  <2>3. i \in 1 .. N /\ \A k \in i + 1 .. j - 1 : k \in 1 .. N
    BY <1>1, <2>1, <2>2
  <2> QED
    BY <1>1, <2>1, <2>2, <2>3
<1>3. ASSUME NEW i \in 1 .. N, NEW c PROVE AnswersTo(longer, i, c) = AnswersTo(messages, i, c)
  <2>1. \A j \in 1 .. N + 1 : longer[j] = Result(longer[i].round, c) => j \in 1 .. N
    BY <1>0, <1>1
  <2> QED
    BY <1>1, <2>1 DEF AnswersTo
<1>4. \A c : AnswersTo(longer, N + 1, c) = {}
  BY <1>1 DEF AnswersTo
<1>5. ASSUME NEW i \in 1 .. N, messages[i].kind = "reply", NEW c \in messages[i].calls
      PROVE  messages[i].round # n /\ AnsweredOnce(longer, i, c)
  <2>1. messages[i] \in Messages
    BY <1>1
  <2>2. messages[i].round \in Nat
    BY <1>5, <2>1, KindsOfMessages
  <2>3. messages[i].round <= n - 1
    BY <1>1, <1>5 DEF Rounds
  <2>4. AnsweredOnce(messages, i, c)
    BY <1>1, <1>5 DEF Paired, Exchanges
  <2> QED
    BY <1>3, <2>2, <2>3, <2>4 DEF AnsweredOnce
<1>6. Exchanges(longer, n, C)
  <2> SUFFICES ASSUME NEW i \in 1 .. N + 1, longer[i].kind = "reply", NEW c \in longer[i].calls
               PROVE  IF longer[i].round = n /\ c \in C
                      THEN AnswersTo(longer, i, c) = {}
                      ELSE AnsweredOnce(longer, i, c)
    BY <1>1 DEF Exchanges
  <2>1. CASE i = N + 1
    BY <1>0, <1>1, <1>4, <2>1
  <2>2. CASE i \in 1 .. N
    BY <1>1, <1>5, <2>2
  <2> QED
    BY <1>1, <2>1, <2>2
<1>7. EndsWithRound(longer, n)
  <2>1. N + 1 \in DOMAIN longer /\ \A k \in (N + 1) + 1 .. Len(longer) : FALSE
    BY <1>1
  <2> QED
    BY <1>0, <1>1, <2>1 DEF EndsWithRound
<1> QED
  BY <1>2, <1>6, <1>7 DEF Paired

\* The result of an open call closes this call and no other.
LEMMA ResultAppended ==
    ASSUME NEW messages \in Seq(Messages), NEW n \in Nat, NEW open \in SUBSET Calls,
           NEW c \in open, NEW longer, longer = Append(messages, Result(n, c)),
           Paired(messages, n, open), EndsWithRound(messages, n)
    PROVE  Paired(longer, n, open \ {c}) /\ EndsWithRound(longer, n)
<1> DEFINE N == Len(messages)
           m == Result(n, c)
<1>0. m \in Messages /\ m.kind = "result" /\ m.round = n
  BY DEF Messages, Result
<1>1. /\ N \in Nat /\ DOMAIN messages = 1 .. N /\ DOMAIN longer = 1 .. N + 1
      /\ Len(longer) = N + 1 /\ longer[N + 1] = m
      /\ \A i \in 1 .. N : longer[i] = messages[i]
  <2> HIDE DEF m
  <2> QED
    BY <1>0, Appended DEF m
<1>2. PICK e \in 1 .. N :
         /\ messages[e].kind = "reply" /\ messages[e].round = n
         /\ \A k \in e + 1 .. N : messages[k].kind = "result"
  BY <1>1 DEF EndsWithRound
<1> HIDE DEF N, m
<1>3. \A k \in e + 1 .. N + 1 : longer[k].kind = "result"
  <2> SUFFICES ASSUME NEW k \in e + 1 .. N + 1 PROVE longer[k].kind = "result"
    OBVIOUS
  <2>1. CASE k = N + 1
    BY <1>0, <1>1, <2>1
  <2>2. CASE k # N + 1
    <3>1. k \in e + 1 .. N /\ k \in 1 .. N
      BY <1>1, <2>2
    <3> QED
      BY <1>1, <1>2, <3>1
  <2> QED
    BY <2>1, <2>2
<1>4. EndsWithRound(longer, n)
  <2>1. e \in DOMAIN longer /\ longer[e].kind = "reply" /\ longer[e].round = n
    BY <1>1, <1>2
  <2> QED
    BY <1>1, <1>3, <2>1 DEF EndsWithRound
<1>5. ResultsFollow(longer)
  <2> SUFFICES ASSUME NEW j \in 1 .. N + 1, longer[j].kind = "result"
               PROVE  \E i \in 1 .. j - 1 :
                         /\ longer[i].kind = "reply" /\ longer[i].round = longer[j].round
                         /\ \A k \in i + 1 .. j - 1 : longer[k].kind = "result"
    BY <1>1 DEF ResultsFollow
  <2>1. CASE j = N + 1
    <3>1. e \in 1 .. j - 1 /\ longer[e].kind = "reply" /\ longer[e].round = longer[j].round
      BY <1>0, <1>1, <1>2, <2>1
    <3>2. \A k \in e + 1 .. j - 1 : longer[k].kind = "result"
      BY <1>1, <1>3, <2>1
    <3> QED
      BY <3>1, <3>2
  <2>2. CASE j # N + 1
    <3>1. j \in 1 .. N /\ messages[j] = longer[j]
      BY <1>1, <2>2
    <3>2. PICK i \in 1 .. j - 1 :
             /\ messages[i].kind = "reply" /\ messages[i].round = messages[j].round
             /\ \A k \in i + 1 .. j - 1 : messages[k].kind = "result"
      BY <1>1, <3>1 DEF Paired, ResultsFollow
    <3>3. i \in 1 .. N /\ \A k \in i + 1 .. j - 1 : k \in 1 .. N
      BY <1>1, <3>1, <3>2
    <3> QED
      BY <1>1, <3>1, <3>2, <3>3
  <2> QED
    BY <2>1, <2>2
<1>6. ASSUME NEW i \in 1 .. N, NEW d
      PROVE  AnswersTo(longer, i, d) =
               IF messages[i].round = n /\ d = c THEN AnswersTo(messages, i, d) \cup {N + 1}
               ELSE AnswersTo(messages, i, d)
  <2>1. longer[N + 1] = Result(longer[i].round, d) <=> messages[i].round = n /\ d = c
    BY <1>1, ResultsDiffer DEF m
  <2> QED
    BY <1>1, <2>1 DEF AnswersTo
<1>7. Exchanges(longer, n, open \ {c})
  <2> SUFFICES ASSUME NEW i \in 1 .. N + 1, longer[i].kind = "reply", NEW d \in longer[i].calls
               PROVE  IF longer[i].round = n /\ d \in open \ {c}
                      THEN AnswersTo(longer, i, d) = {}
                      ELSE AnsweredOnce(longer, i, d)
    BY <1>1 DEF Exchanges
  <2>1. i \in 1 .. N /\ longer[i] = messages[i]
    BY <1>0, <1>1
  <2>2. IF messages[i].round = n /\ d \in open
        THEN AnswersTo(messages, i, d) = {}
        ELSE AnsweredOnce(messages, i, d)
    BY <1>1, <2>1 DEF Paired, Exchanges
  <2>3. CASE messages[i].round = n /\ d = c
    <3>1. AnswersTo(longer, i, d) = {N + 1}
      BY <1>6, <2>1, <2>2, <2>3
    <3> QED
      BY <2>1, <2>3, <3>1 DEF AnsweredOnce
  <2>4. CASE ~(messages[i].round = n /\ d = c)
    <3>1. AnswersTo(longer, i, d) = AnswersTo(messages, i, d)
      BY <1>6, <2>1, <2>4
    <3> QED
      BY <2>1, <2>2, <2>4, <3>1 DEF AnsweredOnce
  <2> QED
    BY <2>3, <2>4
<1> QED
  BY <1>4, <1>5, <1>7 DEF Paired

\* Compaction keeps every call it keeps together with its result.
LEMMA CompactionPairs ==
    ASSUME NEW messages \in Seq(Messages), NEW r \in Compacted(messages), attempt \in Nat,
           NEW n, Rounds(messages, n), Paired(messages, n, {}), NEW k
    PROVE  Rounds(r, n) /\ Paired(r, k, {})
<1> DEFINE N == Len(messages)
<1>1. PICK l \in Nat, d \in Nat :
         /\ l >= 1 /\ d \in 1 .. N /\ Len(r) = l + (N - d)
         /\ \A i \in 1 .. l : r[i].kind \notin {"reply", "result"}
         /\ \A i \in 1 .. N - d : r[l + i] = messages[d + i]
         /\ d < N => messages[d + 1].kind # "result"
  BY CompactedShape
<1>2. N \in Nat /\ DOMAIN messages = 1 .. N /\ DOMAIN r = 1 .. l + (N - d)
  BY <1>1, CompactedShape, LenProperties
<1> HIDE DEF N
<1>3. ASSUME NEW i \in DOMAIN r, r[i].kind \in {"reply", "result"}
      PROVE  /\ i \in l + 1 .. l + (N - d) /\ (i - l) + d \in d + 1 .. N
             /\ (i - l) + d \in 1 .. N /\ r[i] = messages[(i - l) + d]
  <2>1. i \in l + 1 .. l + (N - d)
    BY <1>1, <1>2, <1>3
  <2>2. i - l \in 1 .. N - d /\ l + (i - l) = i /\ d + (i - l) = (i - l) + d
    <3>1. i \in Int /\ l \in Int /\ d \in Int /\ N \in Int
      BY <1>1, <1>2, <2>1
    <3> QED
      BY <2>1, <3>1
  <2>3. r[l + (i - l)] = messages[d + (i - l)]
    BY <1>1, <2>2
  <2>4. (i - l) + d \in d + 1 .. N /\ (i - l) + d \in 1 .. N
    BY <1>1, <1>2, <2>2
  <2> QED
    BY <2>1, <2>2, <2>3, <2>4
<1>4. Rounds(r, n)
  BY <1>2, <1>3 DEF Rounds
<1>5. ResultsFollow(r)
  <2> SUFFICES ASSUME NEW j \in DOMAIN r, r[j].kind = "result"
               PROVE  \E i \in 1 .. j - 1 :
                         /\ r[i].kind = "reply" /\ r[i].round = r[j].round
                         /\ \A h \in i + 1 .. j - 1 : r[h].kind = "result"
    BY DEF ResultsFollow
  <2> DEFINE f == (j - l) + d
  <2>1. j \in l + 1 .. l + (N - d) /\ f \in d + 1 .. N /\ f \in 1 .. N /\ r[j] = messages[f]
    BY <1>3
  <2>2. PICK e \in 1 .. f - 1 :
           /\ messages[e].kind = "reply" /\ messages[e].round = messages[f].round
           /\ \A h \in e + 1 .. f - 1 : messages[h].kind = "result"
    BY <1>2, <2>1 DEF Paired, ResultsFollow
  <2>3. e > d
    <3> SUFFICES ASSUME e <= d PROVE FALSE
      BY <1>2, <2>1, <2>2
    <3>1. messages[d + 1].kind # "result"
      BY <1>1, <1>2, <2>1
    <3>2. d + 1 = f \/ d + 1 \in e + 1 .. f - 1
      BY <1>1, <1>2, <2>1, <2>2
    <3> QED
      BY <2>1, <2>2, <3>1, <3>2
  <2> DEFINE i == (e - d) + l
  <2>4. /\ e - d \in 1 .. N - d /\ i = l + (e - d) /\ d + (e - d) = e
        /\ i \in 1 .. j - 1
    BY <1>1, <1>2, <2>1, <2>2, <2>3
  <2>5. r[i] = messages[e]
    BY <1>1, <2>4
  <2>6. ASSUME NEW h \in i + 1 .. j - 1 PROVE r[h].kind = "result"
    <3>1. /\ h - l \in 1 .. N - d /\ l + (h - l) = h
          /\ d + (h - l) \in e + 1 .. f - 1
      BY <1>1, <1>2, <2>1, <2>2, <2>3, <2>4
    <3>2. r[h] = messages[d + (h - l)]
      BY <1>1, <3>1
    <3> QED
      BY <2>2, <3>1, <3>2
  <2> QED
    BY <2>1, <2>2, <2>4, <2>5, <2>6
<1>6. Exchanges(r, k, {})
  <2> SUFFICES ASSUME NEW i \in DOMAIN r, r[i].kind = "reply", NEW c \in r[i].calls
               PROVE  AnsweredOnce(r, i, c)
    BY DEF Exchanges
  <2> DEFINE e == (i - l) + d
  <2>1. i \in l + 1 .. l + (N - d) /\ e \in d + 1 .. N /\ e \in 1 .. N /\ r[i] = messages[e]
    BY <1>3
  <2>2. AnsweredOnce(messages, e, c)
    BY <1>2, <2>1 DEF Paired, Exchanges
  <2>3. PICK f \in AnswersTo(messages, e, c) : \A h \in AnswersTo(messages, e, c) : h = f
    BY <2>2 DEF AnsweredOnce
  <2>4. f \in 1 .. N /\ f > e /\ messages[f] = Result(r[i].round, c)
    BY <1>2, <2>1, <2>3 DEF AnswersTo
  <2> DEFINE j == (f - d) + l
  <2>5. /\ f - d \in 1 .. N - d /\ j = l + (f - d) /\ d + (f - d) = f
        /\ j \in DOMAIN r /\ j > i
    BY <1>1, <1>2, <2>1, <2>4
  <2>6. r[j] = messages[f]
    BY <1>1, <2>5
  <2>7. j \in AnswersTo(r, i, c)
    BY <2>4, <2>5, <2>6 DEF AnswersTo
  <2>8. ASSUME NEW h \in AnswersTo(r, i, c) PROVE h = j
    <3>1. h \in DOMAIN r /\ h > i /\ r[h] = Result(r[i].round, c)
      BY DEF AnswersTo
    <3>2. r[h].kind = "result"
      BY <3>1 DEF Result
    <3> DEFINE g == (h - l) + d
    <3>3. h \in l + 1 .. l + (N - d) /\ g \in 1 .. N /\ r[h] = messages[g]
      BY <1>3, <3>1, <3>2
    <3>4. g > e
      BY <1>1, <1>2, <2>1, <3>1, <3>3
    <3>5. g \in AnswersTo(messages, e, c)
      BY <1>2, <2>1, <3>1, <3>3, <3>4 DEF AnswersTo
    <3>6. g = f
      BY <2>3, <3>5
    <3> QED
      BY <1>1, <1>2, <2>1, <2>4, <3>3, <3>6
  <2> QED
    BY <2>7, <2>8 DEF AnsweredOnce
<1> QED
  BY <1>4, <1>5, <1>6 DEF Paired

\* Where a step leaves the context and the calls alone, no call is opened or closed.
LEMMA NoExchange ==
    ASSUME Typed, ExchangeInvariant, UNCHANGED <<conversation, attempt, calls>>,
           ~InExchange, pc # "done", ~InExchange', pc' = "stream" <=> pc = "stream"
    PROVE  ExchangeInvariant'
BY DEF ExchangeInvariant, InExchange, Pending, LatestRound

\* The end of a turn leaves nothing to be answered.
LEMMA EndExchange == pc' = "done" => ExchangeInvariant'
BY DEF ExchangeInvariant, InExchange

\* Between rounds the conversation may gain a message that is no part of one.
LEMMA OtherExchange ==
    ASSUME Typed, ExchangeInvariant, ~InExchange, pc \notin {"stream", "done"},
           pc' \notin {"replied", "start", "tools", "stream"}, UNCHANGED attempt,
           NEW m \in Messages, m.kind \notin {"reply", "result"},
           conversation' = Append(conversation, m)
    PROVE  ExchangeInvariant'
<1>1. /\ conversation \in Seq(Messages) /\ attempt \in Int
      /\ Rounds(conversation, attempt) /\ Paired(conversation, attempt, {})
  BY DEF Typed, ContextInvariant, ExchangeInvariant, LatestRound, Pending, InExchange
<1>2. Rounds(conversation', attempt)
  BY <1>1, RoundsAppended
<1>3. Paired(conversation', attempt, {})
  BY <1>1, OtherAppended
<1> QED
  BY <1>2, <1>3 DEF ExchangeInvariant, InExchange, Pending, LatestRound

\* Between rounds it may be compacted.
LEMMA CompactedExchange ==
    ASSUME Typed, ExchangeInvariant, ~InExchange, pc \notin {"stream", "done"},
           pc' \notin {"replied", "start", "tools", "stream"}, UNCHANGED attempt,
           conversation' \in Compacted(conversation)
    PROVE  ExchangeInvariant'
<1>1. /\ conversation \in Seq(Messages) /\ attempt \in Nat
      /\ Rounds(conversation, attempt) /\ Paired(conversation, attempt, {})
  BY DEF Typed, ContextInvariant, ExchangeInvariant, LatestRound, Pending, InExchange
<1>2. Rounds(conversation', attempt) /\ Paired(conversation', attempt, {})
  BY <1>1, CompactionPairs
<1> QED
  BY <1>2 DEF ExchangeInvariant, InExchange, Pending, LatestRound

\* Before the turn no call is open.
LEMMA ExchangeInit == Init => ExchangeInvariant
<1> SUFFICES ASSUME Init PROVE ExchangeInvariant
  OBVIOUS
<1>1. /\ pc = "new" /\ attempt = 0 /\ conversation = Earlier
  BY DEF Init
<1>2. /\ Len(Earlier) = 2 /\ DOMAIN Earlier = 1 .. 2
      /\ Earlier[1].kind = "old" /\ Earlier[2] = Reply(0, {})
  BY DEF Earlier
<1>3. Reply(0, {}).kind = "reply" /\ Reply(0, {}).round = 0 /\ Reply(0, {}).calls = {}
  BY DEF Reply
<1>4. \A i \in DOMAIN Earlier : i = 1 \/ i = 2
  BY <1>2
<1>5. \A i \in DOMAIN Earlier : Earlier[i].kind # "result"
  BY <1>2, <1>3, <1>4
<1>6. Rounds(Earlier, 0)
  BY <1>2, <1>3, <1>4 DEF Rounds
<1>7. ResultsFollow(Earlier)
  BY <1>5 DEF ResultsFollow
<1>8. Exchanges(Earlier, 0, {})
  BY <1>2, <1>3, <1>4 DEF Exchanges
<1> QED
  BY <1>1, <1>6, <1>7, <1>8 DEF ExchangeInvariant, InExchange, Pending, LatestRound, Paired

\* Every step opens the calls of one reply, answers one of them, or touches none.
LEMMA ExchangeStep ==
    ASSUME Typed, ExchangeInvariant, [Next]_vars
    PROVE  ExchangeInvariant'
<1>1. CASE UNCHANGED <<pc, conversation, attempt, calls>>
  BY <1>1 DEF ExchangeInvariant, InExchange, Pending, LatestRound
<1>2. CASE pc' = "done"
  BY <1>2, EndExchange
<1>3. CASE Start
  <2>1. User \in Messages /\ User.kind = "user"
    BY DEF Messages, User
  <2> QED
    BY <1>2, <1>3, <2>1, OtherExchange DEF Start, End, Goto, InExchange, history
<1>4. CASE PushSteer
  <2>1. Steer(Head(drained)) \in Messages /\ Steer(Head(drained)).kind = "steer"
    BY <1>4 DEF Messages, Steer, PushSteer, Typed, TurnInvariant
  <2> QED
    BY <1>4, <2>1, OtherExchange DEF PushSteer, InExchange, history
<1>5. CASE MaintainOk
  <2>1. PICK r \in Compacted(conversation) : \E t, opaque : Maintained(r, opaque, t)
    BY <1>5 DEF MaintainOk
  <2>2. pc = "maintaining" /\ UNCHANGED <<attempt, calls>>
    BY <1>5 DEF MaintainOk
  <2>3. pc' = "done" \/ (pc' = "redrain" /\ conversation' \in {conversation, r})
    BY <2>1 DEF Maintained, End, Goto, active
  <2> QED
    BY <1>2, <2>2, <2>3, NoExchange, CompactedExchange DEF InExchange
<1>6. CASE CompactOk
  BY <1>6, CompactedExchange DEF CompactOk, Goto, InExchange
<1>7. CASE Send
  <2>1. /\ conversation' = conversation /\ attempt' = attempt + 1 /\ attempt \in Nat
        /\ pc' = "stream" /\ pc = "send"
    BY <1>7 DEF Send, Goto, active, Typed, ContextInvariant
  <2>2. Rounds(conversation', attempt' - 1) /\ Paired(conversation', attempt', {})
    BY <2>1 DEF ExchangeInvariant, InExchange, Pending, LatestRound, Paired, Exchanges
  <2> QED
    BY <2>1, <2>2 DEF ExchangeInvariant, InExchange, Pending, LatestRound
<1>8. CASE Completed
  <2>1. PICK C \in SUBSET Calls : \E t : Accept(C, t)
    BY <1>8 DEF Completed
  <2>2. /\ conversation' = Append(conversation, Reply(attempt, C))
        /\ calls' = [toStart |-> C, running |-> {}]
        /\ pc = "stream" /\ pc' = "replied" /\ attempt' = attempt
    BY <1>8, <2>1 DEF Accept, Completed, StreamPolled, Goto
  <2>3. /\ conversation \in Seq(Messages) /\ attempt \in Nat /\ attempt - 1 \in Int
        /\ Rounds(conversation, attempt - 1) /\ Paired(conversation, attempt, {})
    BY <2>2 DEF Typed, ContextInvariant, ExchangeInvariant, InExchange, Pending, LatestRound
  <2>4. Paired(conversation', attempt, C) /\ EndsWithRound(conversation', attempt)
    BY <2>2, <2>3, ReplyAppended
  <2>5. /\ Reply(attempt, C) \in Messages
        /\ Reply(attempt, C).kind \in {"reply", "result"} => Reply(attempt, C).round <= attempt
    <3>1. Reply(attempt, C) \in Messages
      BY <2>3 DEF Messages
    <3>2. Reply(attempt, C).round <= attempt
      BY <2>3 DEF Reply
    <3> QED
      BY <3>1, <3>2
  <2>6. Rounds(conversation, attempt)
    BY <2>3, RoundsLater
  <2>7. Rounds(conversation', attempt)
    <3> DEFINE m == Reply(attempt, C)
    <3>1. m \in Messages /\ (m.kind \in {"reply", "result"} => m.round <= attempt)
      BY <2>5
    <3>2. conversation' = Append(conversation, m)
      BY <2>2
    <3>3. conversation \in Seq(Messages) /\ attempt \in Int
      BY <2>3
    <3> HIDE DEF m
    <3> QED
      BY <2>6, <3>1, <3>2, <3>3, RoundsAppended
  <2>8. Last(conversation') = Reply(attempt, C)
    BY <2>2, <2>3, <2>5, AppendProperties DEF Last
  <2> QED
    BY <2>2, <2>4, <2>7, <2>8 DEF ExchangeInvariant, InExchange, Pending, LatestRound
<1>9. CASE Finish
  <2>1. /\ pc = "replied" /\ calls.toStart = {} /\ calls.running = {} /\ pc' \in {"done", "boundary"}
        /\ UNCHANGED <<conversation, attempt, calls>>
    BY <1>9 DEF Finish, Goto, active, ExchangeInvariant
  <2> QED
    BY <1>2, <2>1 DEF ExchangeInvariant, InExchange, Pending, LatestRound
<1>10. CASE BeginTools
  <2>1. /\ pc = "replied" /\ pc' \in {"done", "start"}
        /\ UNCHANGED <<conversation, attempt, calls>>
    BY <1>10 DEF BeginTools, End, Goto, active
  <2> QED
    BY <1>2, <2>1 DEF ExchangeInvariant, InExchange, Pending, LatestRound
<1>11. CASE ToolStarted
  <2>1. PICK c \in calls.toStart :
           calls' = [toStart |-> calls.toStart \ {c}, running |-> calls.running \cup {c}]
    BY <1>11 DEF ToolStarted
  <2>2. /\ pc = "start" /\ pc' = IF calls'.toStart = {} THEN "tools" ELSE "start"
        /\ UNCHANGED <<conversation, attempt>>
    BY <1>11 DEF ToolStarted, Goto, active, history
  <2>3. calls'.toStart \cup calls'.running = calls.toStart \cup calls.running
    BY <2>1
  <2>4. calls.toStart \cap calls.running = {} => calls'.toStart \cap calls'.running = {}
    BY <2>1
  <2> QED
    BY <2>2, <2>3, <2>4 DEF ExchangeInvariant, InExchange, Pending, LatestRound
<1>12. CASE ToolFinished
  <2>1. PICK c \in calls.running :
           /\ conversation' = Append(conversation, Result(attempt, c))
           /\ calls' = [calls EXCEPT !.running = @ \ {c}]
    BY <1>12 DEF ToolFinished
  <2>2. /\ pc = "tools" /\ UNCHANGED attempt
        /\ pc' = IF calls'.running = {} THEN "boundary" ELSE "tools"
    BY <1>12 DEF ToolFinished, Goto, history
  <2>3. /\ conversation \in Seq(Messages) /\ attempt \in Nat /\ attempt \in Int
        /\ calls.running \in SUBSET Calls /\ calls.toStart = {}
        /\ calls.toStart \cup calls.running = calls.running
        /\ Rounds(conversation, attempt) /\ EndsWithRound(conversation, attempt)
        /\ Paired(conversation, attempt, calls.running)
    <3>1. /\ conversation \in Seq(Messages) /\ attempt \in Nat /\ attempt \in Int
          /\ calls.running \in SUBSET Calls
      BY DEF Typed, TurnInvariant, ContextInvariant
    <3>2. calls.toStart = {} /\ EndsWithRound(conversation, attempt)
      BY <2>2 DEF ExchangeInvariant, InExchange
    <3>3. Rounds(conversation, attempt) /\ Paired(conversation, attempt, Pending)
      BY <2>2 DEF ExchangeInvariant, LatestRound
    <3>4. Pending = calls.running
      BY <2>2, <3>2 DEF Pending, InExchange
    <3> QED
      BY <3>1, <3>2, <3>3, <3>4
  <2>4. /\ Paired(conversation', attempt, calls.running \ {c})
        /\ EndsWithRound(conversation', attempt)
    BY <2>1, <2>3, ResultAppended
  <2>5. /\ Result(attempt, c) \in Messages
        /\ Result(attempt, c).kind \in {"reply", "result"} => Result(attempt, c).round <= attempt
    <3>1. Result(attempt, c) \in Messages
      BY <2>3 DEF Messages
    <3>2. Result(attempt, c).round <= attempt
      BY <2>3 DEF Result
    <3> QED
      BY <3>1, <3>2
  <2>6. Rounds(conversation', attempt)
    BY <2>1, <2>3, <2>5, RoundsAppended
  <2>7. calls'.toStart = {} /\ calls'.running = calls.running \ {c}
    BY <2>1, <2>3 DEF Typed, TurnInvariant
  <2>8. calls'.toStart \cup calls'.running = calls.running \ {c}
    BY <2>7
  <2> QED
    BY <2>2, <2>4, <2>6, <2>7, <2>8
       DEF ExchangeInvariant, InExchange, Pending, LatestRound
<1>13. CASE Interrupt \/ Overflow
  <2>1. /\ pc = "stream" /\ pc' \in {"done", "boundary"}
        /\ UNCHANGED <<conversation, attempt, calls>>
    BY <1>13 DEF Interrupt, Overflow, StreamPolled, End, Goto, active
  <2>2. /\ conversation \in Seq(Messages) /\ attempt \in Int /\ attempt - 1 \in Int
        /\ attempt - 1 <= attempt
        /\ Rounds(conversation, attempt - 1)
    BY <2>1 DEF Typed, ContextInvariant, ExchangeInvariant, LatestRound
  <2>3. Rounds(conversation, attempt)
    BY <2>2, RoundsLater
  <2> QED
    BY <1>2, <2>1, <2>3 DEF ExchangeInvariant, InExchange, Pending, LatestRound
<1>14. CASE Drain \/ SteersPushed \/ DecideMaintenance \/ FitsBudget \/ Dispatch
  <2>1. /\ pc \in {"boundary", "redrain", "steers", "resteers", "maintenance", "refit", "dispatch"}
        /\ pc' \in {"steers", "resteers", "done", "refit", "maintenance", "dispatch",
                    "maintaining", "compacting", "send"}
        /\ UNCHANGED <<conversation, attempt, calls>>
    BY <1>14 DEF Drain, SteersPushed, DecideMaintenance, FitsBudget, Dispatch, End, Goto, active,
                 history
  <2> QED
    BY <1>2, <2>1, NoExchange DEF InExchange
<1>15. CASE MaintainFailed \/ CompactFailed
  <2>1. /\ pc \in {"maintaining", "compacting"} /\ pc' \in {"done", "redrain", "send"}
        /\ UNCHANGED <<conversation, attempt, calls>>
    BY <1>15 DEF MaintainFailed, CompactFailed, End, Goto, active, history
  <2> QED
    BY <1>2, <2>1, NoExchange DEF InExchange
<1>16. CASE Poll \/ TextDelta \/ Cancel \/ CancelNotify \/ RequestCompact
  BY <1>1, <1>16 DEF Poll, TextDelta, Cancel, CancelNotify, RequestCompact, active, history
<1>17. CASE Cancelled \/ StreamFailed \/ Drop
  BY <1>2, <1>17 DEF Cancelled, StreamFailed, Drop, End
<1>18. CASE \E s \in Steers : QueueSteer(s)
  BY <1>1, <1>18 DEF QueueSteer, active, history
<1>19. CASE UNCHANGED vars
  BY <1>1, <1>19 DEF vars, active, history
<1> QED
  BY <1>3, <1>4, <1>5, <1>6, <1>7, <1>8, <1>9, <1>10, <1>11, <1>12, <1>13, <1>14, <1>15, <1>16,
     <1>17, <1>18, <1>19 DEF Next, Internal, Operations, Host

\* Whatever the order of replies, results, interrupts, corrections and compactions: the
\* results of a round stand behind its reply, every call but those still at hand has
\* exactly one, and those at hand have none.
THEOREM ExchangesHold == Spec => []ExchangeInvariant
<1>1. Typed /\ ExchangeInvariant /\ [Next]_vars => ExchangeInvariant'
  BY ExchangeStep
<1> QED
  BY ContextTyped, ExchangeInit, <1>1, PTL DEF Spec

\* No request goes out with a call that lacks its result or has two, or with a result
\* whose call is gone.
THEOREM RequestsAnswered == Spec => []CallsAnswered
<1>1. Typed /\ ExchangeInvariant => CallsAnswered
  <2> SUFFICES ASSUME Typed, ExchangeInvariant, pc \in {"send", "stream"}
               PROVE  CallsAnswered
    BY DEF CallsAnswered
  <2>1. ResultsFollow(conversation) /\ Exchanges(conversation, attempt, {})
    BY DEF ExchangeInvariant, InExchange, Pending, Paired
  <2>2. ASSUME NEW i \in DOMAIN conversation, conversation[i].kind = "reply",
               NEW c \in conversation[i].calls
        PROVE  Cardinality({j \in DOMAIN conversation :
                   j > i /\ conversation[j] = Result(conversation[i].round, c)}) = 1
    <3>1. AnsweredOnce(conversation, i, c)
      BY <2>1, <2>2 DEF Exchanges
    <3>2. PICK j : AnswersTo(conversation, i, c) = {j}
      BY <3>1 DEF AnsweredOnce
    <3>3. Cardinality({j}) = 1
      BY FS_Singleton
    <3> QED
      BY <3>2, <3>3 DEF AnswersTo
  <2>3. ASSUME NEW j \in DOMAIN conversation, conversation[j].kind = "result"
        PROVE  \E i \in 1 .. j - 1 : /\ conversation[i].kind = "reply"
                                     /\ conversation[i].round = conversation[j].round
    BY <2>1, <2>3 DEF ResultsFollow
  <2> QED
    BY <2>2, <2>3 DEF CallsAnswered
<1> QED
  BY ContextTyped, ExchangesHold, <1>1, PTL

-----------------------------------------------------------------------------
(* Corrections.  What was handed to the turn is, in order, what stands in  *)
(* the conversation followed by what is drained and not yet pushed; a      *)
(* compaction must not part the two.                                       *)

SteersInvariant ==
    /\ OfKinds(conversation, {"steer"}) \o Corrections(drained) = Corrections(delivered)
    /\ pc \notin {"steers", "resteers", "done"} => drained = <<>>
    /\ pc = "done" => phase \in {"closed", "cancelled"}
    /\ outcome = "completed" =>
          pc = "done" /\ drained = <<>> /\ queue = <<>> /\ Last(conversation).kind = "reply"

\* Corrections of a sequence of steers, one by one.
LEMMA CorrectionsType ==
    ASSUME NEW s \in Seq(Steers)
    PROVE  /\ Corrections(s) \in Seq(Messages) /\ Len(Corrections(s)) = Len(s)
           /\ \A i \in 1 .. Len(s) : Corrections(s)[i] = Steer(s[i])
<1>1. /\ Len(s) \in Nat /\ DOMAIN s = 1 .. Len(s)
      /\ \A i \in 1 .. Len(s) : Steer(s[i]) \in Messages
  BY LenProperties DEF Messages
<1>2. Corrections(s) = [i \in 1 .. Len(s) |-> Steer(s[i])]
  BY <1>1 DEF Corrections
<1> QED
  BY <1>1, <1>2

\* Batches are corrected one after the other.
LEMMA CorrectionsConcat ==
    ASSUME NEW s \in Seq(Steers), NEW t \in Seq(Steers)
    PROVE  Corrections(s \o t) = Corrections(s) \o Corrections(t)
<1> DEFINE a == Corrections(s)
           b == Corrections(t)
           c == Corrections(s \o t)
<1>1. /\ s \o t \in Seq(Steers) /\ Len(s \o t) = Len(s) + Len(t)
      /\ \A i \in 1 .. Len(s) + Len(t) : (s \o t)[i] = IF i <= Len(s) THEN s[i] ELSE t[i - Len(s)]
  BY ConcatProperties
<1>2. /\ a \in Seq(Messages) /\ Len(a) = Len(s) /\ \A i \in 1 .. Len(s) : a[i] = Steer(s[i])
      /\ b \in Seq(Messages) /\ Len(b) = Len(t) /\ \A i \in 1 .. Len(t) : b[i] = Steer(t[i])
  BY CorrectionsType
<1>3. /\ c \in Seq(Messages) /\ Len(c) = Len(s) + Len(t)
      /\ \A i \in 1 .. Len(s) + Len(t) : c[i] = Steer((s \o t)[i])
  BY <1>1, CorrectionsType
<1> HIDE DEF a, b, c
<1>4. /\ a \o b \in Seq(Messages) /\ Len(a \o b) = Len(s) + Len(t)
      /\ \A i \in 1 .. Len(s) + Len(t) : (a \o b)[i] = IF i <= Len(s) THEN a[i] ELSE b[i - Len(s)]
  <2>1. /\ a \o b \in Seq(Messages) /\ Len(a \o b) = Len(a) + Len(b)
        /\ \A i \in 1 .. Len(a) + Len(b) :
              (a \o b)[i] = IF i <= Len(a) THEN a[i] ELSE b[i - Len(a)]
    <3>1. a \in Seq(Messages) /\ b \in Seq(Messages)
      BY <1>2
    <3> QED
      BY <3>1, ConcatProperties
  <2> QED
    BY <1>2, <2>1
<1>5. ASSUME NEW i \in 1 .. Len(s) + Len(t) PROVE c[i] = (a \o b)[i]
  <2>0. Len(s) \in Nat /\ Len(t) \in Nat
    OBVIOUS
  <2>1. CASE i <= Len(s)
    BY <1>1, <1>2, <1>3, <1>4, <2>0, <2>1
  <2>2. CASE ~(i <= Len(s))
    <3>1. i - Len(s) \in 1 .. Len(t)
      BY <2>0, <2>2
    <3> QED
      BY <1>1, <1>2, <1>3, <1>4, <2>2, <3>1
  <2> QED
    BY <2>1, <2>2
<1>6. c = a \o b
  <2> DEFINE ab == a \o b
  <2>1. ab \in Seq(Messages) /\ Len(c) = Len(ab) /\ \A i \in 1 .. Len(c) : c[i] = ab[i]
    BY <1>3, <1>4, <1>5
  <2> HIDE DEF ab
  <2>2. c = ab
    BY <1>3, <2>1, SeqEqual
  <2> QED
    BY <2>2 DEF ab
<1> QED
  BY <1>6 DEF a, b, c

\* The first correction, and those after it.
LEMMA CorrectionsHead ==
    ASSUME NEW s \in Seq(Steers), s # <<>>
    PROVE  Corrections(s) = <<Steer(Head(s))>> \o Corrections(Tail(s))
<1>1. /\ Head(s) \in Steers /\ Tail(s) \in Seq(Steers) /\ s = <<Head(s)>> \o Tail(s)
      /\ <<Head(s)>> \in Seq(Steers)
  OBVIOUS
<1>2. Corrections(<<Head(s)>>) = <<Steer(Head(s))>>
  BY DEF Corrections
<1> DEFINE h == <<Head(s)>>
           r == Tail(s)
<1>3. h \in Seq(Steers) /\ r \in Seq(Steers) /\ s = h \o r
  BY <1>1
<1> HIDE DEF h, r
<1>4. Corrections(h \o r) = Corrections(h) \o Corrections(r)
  BY <1>3, CorrectionsConcat
<1> QED
  BY <1>2, <1>3, <1>4 DEF h, r

\* A step within the turn that moves no correction.
LEMMA NoSteers ==
    ASSUME SteersInvariant, pc \notin {"steers", "resteers", "done"}, pc' # "done",
           UNCHANGED <<outcome, drained, delivered>>,
           OfKinds(conversation', {"steer"}) = OfKinds(conversation, {"steer"})
    PROVE  SteersInvariant'
BY DEF SteersInvariant

\* A turn that ends without completing.
LEMMA EndSteers ==
    ASSUME TurnInvariant, SteersInvariant, NEW how, how # "completed", End(how),
           UNCHANGED <<conversation, drained>>
    PROVE  SteersInvariant'
BY DEF SteersInvariant, End, TurnInvariant

\* A message that is no correction moves none.
LEMMA OtherSteers ==
    ASSUME ContextInvariant, NEW m \in Messages, m.kind # "steer",
           conversation' = Append(conversation, m)
    PROVE  OfKinds(conversation', {"steer"}) = OfKinds(conversation, {"steer"})
<1>1. conversation \in Seq(Messages) /\ m.kind \notin {"steer"}
  BY DEF ContextInvariant
<1>2. OfKinds(Append(conversation, m), {"steer"}) = OfKinds(conversation, {"steer"})
  BY <1>1, OfKindsAppend
<1> QED
  BY <1>2

\* Nor does a compaction.
LEMMA CompactedSteers ==
    ASSUME ContextInvariant, NEW r \in Compacted(conversation)
    PROVE  OfKinds(r, {"steer"}) = OfKinds(conversation, {"steer"})
BY CompactedShape DEF ContextInvariant

\* Before the turn no correction was accepted.
LEMMA SteersInit == Init => SteersInvariant
<1> SUFFICES ASSUME Init PROVE SteersInvariant
  OBVIOUS
<1>1. /\ pc = "new" /\ outcome = "none" /\ drained = <<>> /\ delivered = <<>>
      /\ conversation = Earlier
  BY DEF Init, Mailbox!Init
<1> DEFINE o == [kind |-> "old"]
           r == Reply(0, {})
<1>2. <<o>> \in Seq(Messages) /\ r \in Messages /\ o \in Messages
  BY DEF Messages
<1>3. OfKinds(<<o>>, {"steer"}) = <<>>
  <2>1. o.kind \notin {"steer"}
    OBVIOUS
  <2> HIDE DEF o
  <2> QED
    BY <1>2, <2>1, OfKindsOne
<1>4. OfKinds(Append(<<o>>, r), {"steer"}) = OfKinds(<<o>>, {"steer"})
  <2> DEFINE s == <<o>>
  <2>1. s \in Seq(Messages) /\ r.kind \notin {"steer"}
    BY <1>2 DEF Reply
  <2> HIDE DEF s, r
  <2>2. OfKinds(Append(s, r), {"steer"}) = OfKinds(s, {"steer"})
    BY <1>2, <2>1, OfKindsAppend
  <2> QED
    BY <2>2 DEF s
<1>5. Earlier = Append(<<o>>, r)
  BY DEF Earlier
<1>6. Corrections(<<>>) = <<>>
  BY DEF Corrections
<1> HIDE DEF o, r
<1>7. OfKinds(conversation, {"steer"}) = <<>>
  BY <1>1, <1>3, <1>4, <1>5
<1>8. <<>> \o <<>> = <<>>
  OBVIOUS
<1> QED
  BY <1>1, <1>6, <1>7, <1>8 DEF SteersInvariant

\* Every step moves corrections on together: accepted, drained, pushed, answered.
LEMMA SteersStep ==
    ASSUME Typed, ExchangeInvariant, SteersInvariant, [Next]_vars
    PROVE  SteersInvariant'
<1>0. /\ TurnInvariant /\ ContextInvariant
      /\ conversation \in Seq(Messages) /\ delivered \in Seq(Steers)
      /\ queue \in Seq(Steers) /\ drained \in Seq(Steers)
  BY DEF Typed, TurnInvariant, ContextInvariant
<1> DEFINE O == OfKinds(conversation, {"steer"})
<1>00. /\ O \in Seq(Messages) /\ Corrections(<<>>) = <<>> /\ O \o <<>> = O
  <2>1. O \in Seq(Messages)
    BY <1>0, OfKindsType
  <2>2. Corrections(<<>>) = <<>>
    BY DEF Corrections
  <2> HIDE DEF O
  <2> QED
    BY <2>1, <2>2, ConcatEmptySeq
<1> HIDE DEF O
<1>1. CASE Start
  <2>1. User \in Messages /\ User.kind = "user"
    BY DEF Messages, User
  <2>2. CASE End("refused") /\ UNCHANGED conversation
    BY <1>0, <1>1, <2>2, EndSteers DEF Start
  <2>3. CASE conversation' = Append(conversation, User) /\ Mailbox!Start /\ Goto("boundary")
    <3>1. OfKinds(conversation', {"steer"}) = OfKinds(conversation, {"steer"})
      BY <1>0, <2>1, <2>3, OtherSteers
    <3> QED
      BY <1>1, <2>3, <3>1, NoSteers DEF Start, Mailbox!Start, Goto
  <2> QED
    BY <1>1, <2>2, <2>3 DEF Start
<1>2. CASE Drain
  <2>1. CASE End("cancelled") /\ UNCHANGED drained
    BY <1>0, <1>2, <2>1, EndSteers DEF Drain, active
  <2>2. CASE Mailbox!Take /\ drained' = queue /\ pc' \in {"steers", "resteers"}
             /\ UNCHANGED outcome
    <3>1. drained = <<>> /\ outcome # "completed"
      BY <1>2 DEF Drain, SteersInvariant
    <3>2. O = Corrections(delivered)
      BY <1>00, <3>1 DEF SteersInvariant, O
    <3>3. delivered' = delivered \o queue /\ conversation' = conversation
      BY <1>2, <2>2 DEF Drain, Mailbox!Take, active
    <3>4. Corrections(delivered \o queue) = Corrections(delivered) \o Corrections(queue)
      BY <1>0, CorrectionsConcat
    <3>5. OfKinds(conversation', {"steer"}) \o Corrections(drained') = Corrections(delivered')
      BY <2>2, <3>2, <3>3, <3>4 DEF O
    <3> QED
      BY <2>2, <3>1, <3>5 DEF SteersInvariant
  <2> QED
    BY <1>2, <2>1, <2>2 DEF Drain, Goto
<1>3. CASE PushSteer
  <2> DEFINE h == Steer(Head(drained))
             rest == Corrections(Tail(drained))
  <2>1. /\ pc \in {"steers", "resteers"} /\ drained # <<>>
        /\ conversation' = Append(conversation, h) /\ drained' = Tail(drained)
        /\ UNCHANGED <<pc, outcome, delivered>>
    BY <1>3 DEF PushSteer, control
  <2>2. h \in Messages /\ h.kind = "steer" /\ Tail(drained) \in Seq(Steers)
    BY <1>0, <2>1 DEF Messages, Steer
  <2>3. rest \in Seq(Messages) /\ <<h>> \in Seq(Messages)
    <3>1. \A s \in Seq(Steers) : Corrections(s) \in Seq(Messages)
      BY CorrectionsType
    <3>2. rest \in Seq(Messages)
      BY <2>2, <3>1
    <3> HIDE DEF h, rest
    <3>3. <<h>> \in Seq(Messages)
      BY <2>2
    <3> QED
      BY <3>2, <3>3
  <2>4. Corrections(drained) = <<h>> \o rest
    BY <1>0, <2>1, CorrectionsHead
  <2> HIDE DEF h, rest
  <2>5. OfKinds(Append(conversation, h), {"steer"}) = Append(O, h)
    <3>1. h.kind \in {"steer"}
      BY <2>2
    <3> QED
      BY <1>0, <2>2, <3>1, OfKindsAppend DEF O
  <2>6. Append(O, h) = O \o <<h>>
    BY <1>00, <2>2, AppendIsConcat
  <2>7. (O \o <<h>>) \o rest = O \o (<<h>> \o rest)
    BY <1>00, <2>3, ConcatAssociative
  <2>8. O \o Corrections(drained) = Corrections(delivered)
    BY DEF SteersInvariant, O
  <2>9. OfKinds(conversation', {"steer"}) \o Corrections(drained') = Corrections(delivered')
    BY <2>1, <2>4, <2>5, <2>6, <2>7, <2>8 DEF rest
  <2> QED
    BY <2>1, <2>9 DEF SteersInvariant
<1>4. CASE SteersPushed
  BY <1>4 DEF SteersPushed, Goto, SteersInvariant, control, active
<1>5. CASE MaintainOk
  <2>1. PICK r \in Compacted(conversation) : \E t, opaque : Maintained(r, opaque, t)
    BY <1>5 DEF MaintainOk
  <2>2. CASE End("maintenance") /\ UNCHANGED active
    BY <1>0, <1>5, <2>2, EndSteers DEF MaintainOk, active
  <2>3. CASE Goto("redrain") /\ UNCHANGED control /\ conversation' \in {conversation, r}
    <3>1. OfKinds(conversation', {"steer"}) = OfKinds(conversation, {"steer"})
      BY <1>0, <2>3, CompactedSteers
    <3> QED
      BY <1>5, <2>3, <3>1, NoSteers DEF MaintainOk, Goto, control
  <2> QED
    BY <2>1, <2>2, <2>3 DEF Maintained, active
<1>6. CASE CompactOk
  <2>1. OfKinds(conversation', {"steer"}) = OfKinds(conversation, {"steer"})
    BY <1>0, <1>6, CompactedSteers DEF CompactOk
  <2> QED
    BY <1>6, <2>1, NoSteers DEF CompactOk, Goto, control
<1>7. CASE Completed
  <2>1. PICK C \in SUBSET Calls : \E t : Accept(C, t)
    BY <1>7 DEF Completed
  <2>2. Reply(attempt, C) \in Messages /\ Reply(attempt, C).kind # "steer"
    <3>1. Reply(attempt, C) \in Messages
      BY <1>0 DEF Messages, ContextInvariant
    <3> QED
      BY <3>1 DEF Reply
  <2>3. OfKinds(conversation', {"steer"}) = OfKinds(conversation, {"steer"})
    <3>1. conversation' = Append(conversation, Reply(attempt, C))
      BY <2>1 DEF Accept
    <3> QED
      BY <1>0, <2>2, <3>1, OtherSteers
  <2> QED
    BY <1>7, <2>3, NoSteers DEF Completed, StreamPolled, Goto, control
<1>8. CASE ToolFinished
  <2>1. PICK c \in calls.running : conversation' = Append(conversation, Result(attempt, c))
    BY <1>8 DEF ToolFinished
  <2>2. Result(attempt, c) \in Messages /\ Result(attempt, c).kind # "steer"
    <3>1. Result(attempt, c) \in Messages
      BY <1>0 DEF Messages, ContextInvariant, TurnInvariant
    <3> QED
      BY <3>1 DEF Result
  <2>3. OfKinds(conversation', {"steer"}) = OfKinds(conversation, {"steer"})
    BY <1>0, <2>1, <2>2, OtherSteers
  <2> QED
    BY <1>8, <2>3, NoSteers DEF ToolFinished, Goto, control
<1>9. CASE Finish
  <2>1. /\ pc = "replied" /\ UNCHANGED <<conversation, drained, delivered>>
        /\ drained = <<>> /\ calls.toStart = {}
    BY <1>9 DEF Finish, SteersInvariant, active, Mailbox!Finish, control
  <2>2. CASE Goto("boundary") /\ UNCHANGED control
    BY <2>1, <2>2, NoSteers DEF Goto
  <2>3. CASE Mailbox!Finish /\ pc' = "done"
    <3>1. Last(conversation).kind = "reply"
      BY <2>1 DEF ExchangeInvariant, Reply
    <3>2. phase' \in {"closed", "cancelled"} /\ queue' = <<>>
      BY <2>3 DEF Mailbox!Finish
    <3>3. Last(conversation').kind = "reply"
      BY <2>1, <3>1
    <3> QED
      BY <2>1, <2>3, <3>2, <3>3 DEF SteersInvariant
  <2> QED
    BY <1>9, <2>2, <2>3 DEF Finish
<1>10. CASE \/ DecideMaintenance \/ Send \/ Interrupt \/ ToolStarted \/ CompactFailed
  <2>1. /\ pc \notin {"steers", "resteers", "done"} /\ pc' # "done"
        /\ UNCHANGED <<outcome, drained, delivered, conversation>>
    BY <1>10 DEF DecideMaintenance, Send, Interrupt, ToolStarted, CompactFailed, Goto, control,
                 active
  <2> QED
    BY <2>1, NoSteers
<1>11. CASE FitsBudget \/ Dispatch \/ BeginTools \/ MaintainFailed \/ Overflow
  <2>1. UNCHANGED <<drained, conversation>> /\ pc \notin {"steers", "resteers", "done"}
    BY <1>11 DEF FitsBudget, Dispatch, BeginTools, MaintainFailed, Overflow, StreamPolled, active
  <2>2. \/ \E how \in {"maintenance", "document", "rounds", "provider"} : End(how)
        \/ UNCHANGED control /\ \E step : step # "done" /\ Goto(step)
    <3>1. \A step : step \in {"dispatch", "compacting", "send", "start", "redrain", "boundary"}
                        => step # "done"
      OBVIOUS
    <3>2. \/ \E how \in {"maintenance", "document", "rounds", "provider"} : End(how)
          \/ /\ UNCHANGED control
             /\ \E step \in {"dispatch", "compacting", "send", "start", "redrain", "boundary"} :
                   Goto(step)
      BY <1>11 DEF FitsBudget, Dispatch, BeginTools, MaintainFailed, Overflow
    <3> QED
      BY <3>1, <3>2
  <2>3. CASE \E how \in {"maintenance", "document", "rounds", "provider"} : End(how)
    BY <1>0, <2>1, <2>3, EndSteers
  <2>4. CASE UNCHANGED control /\ \E step : step # "done" /\ Goto(step)
    BY <2>1, <2>4, NoSteers DEF Goto, control
  <2> QED
    BY <2>2, <2>3, <2>4
<1>12. CASE Cancelled \/ StreamFailed \/ Drop
  <2>1. UNCHANGED <<drained, conversation>>
    BY <1>12 DEF Cancelled, StreamFailed, Drop, active
  <2>2. \E how \in {"cancelled", "provider", "ended", "dropped"} : End(how)
    BY <1>12 DEF Cancelled, StreamFailed, Drop
  <2> QED
    BY <1>0, <2>1, <2>2, EndSteers
<1>13. CASE Poll \/ TextDelta \/ CancelNotify \/ RequestCompact
  BY <1>13 DEF Poll, TextDelta, CancelNotify, RequestCompact, control, active, SteersInvariant
<1>14. CASE Cancel
  BY <1>14 DEF Cancel, Mailbox!Cancel, active, SteersInvariant
<1>15. CASE \E s \in Steers : QueueSteer(s)
  <2>1. UNCHANGED <<pc, outcome, conversation, drained, delivered, phase>>
    BY <1>15 DEF QueueSteer, Mailbox!Accept, Mailbox!Refuse, active
  <2>2. pc = "done" => UNCHANGED queue
    BY <1>15 DEF QueueSteer, Mailbox!Accept, Mailbox!Refuse, SteersInvariant
  <2> QED
    BY <2>1, <2>2 DEF SteersInvariant
<1>16. CASE UNCHANGED vars
  BY <1>16 DEF vars, control, active, SteersInvariant
<1> QED
  BY <1>1, <1>2, <1>3, <1>4, <1>5, <1>6, <1>7, <1>8, <1>9, <1>10, <1>11, <1>12, <1>13, <1>14,
     <1>15, <1>16 DEF Next, Internal, Operations, Host

\* No correction that was accepted is lost: a turn that completes has every one of
\* them in its conversation, in the order of acceptance, and a reply behind them.
THEOREM CorrectionsAnswered == Spec => []SteersAnswered
<1>1. Typed /\ ExchangeInvariant /\ SteersInvariant /\ [Next]_vars => SteersInvariant'
  BY SteersStep
<1>2. Typed /\ SteersInvariant => SteersAnswered
  <2> SUFFICES ASSUME Typed, SteersInvariant, outcome = "completed" PROVE SteersAnswered
    BY DEF SteersAnswered
  <2> DEFINE O == OfKinds(conversation, {"steer"})
  <2>1. O \in Seq(Messages)
    BY OfKindsType DEF Typed, ContextInvariant
  <2>2. O \o Corrections(drained) = Corrections(delivered) /\ drained = <<>>
    BY DEF SteersInvariant
  <2>3. Corrections(<<>>) = <<>>
    BY DEF Corrections
  <2> HIDE DEF O
  <2>4. O \o <<>> = O
    BY <2>1, ConcatEmptySeq
  <2>5. O = Corrections(delivered)
    BY <2>2, <2>3, <2>4
  <2> QED
    BY <2>5 DEF SteersAnswered, SteersInvariant, O
<1> QED
  BY ContextTyped, ExchangesHold, SteersInit, <1>1, <1>2, PTL DEF Spec

-----------------------------------------------------------------------------
(* What a policy guarantees.                                               *)

\* Wherever a request is on its way under a policy, the conversation has been found to
\* fit, by both measures, and nothing but corrections has come since.
BudgetInvariant ==
    /\ pc = "compacting" => OnRequest
    /\ Policy /\ pc \in {"dispatch", "send", "stream"} =>
          Size(conversation) < Budget /\ BelowBeforeSteers
    /\ pc \in {"redrain", "resteers", "refit"} => maint.measured = None \/ BelowBeforeSteers
    /\ pc = "maintaining" => due.estimate = Estimate /\ due.hard = OverBudget(Estimate)

\* A policy never decides on less than the conversation's own size.
LEMMA EstimateCovers ==
    ASSUME ContextInvariant
    PROVE  /\ Estimate \in Int /\ Estimate >= Size(conversation) /\ Size(conversation) \in Nat
           /\ maint.measured = None => Estimate = Size(conversation)
<1>1. Size(conversation) \in Nat /\ maint.measured \in Int /\ maint.estimated \in Int
  BY DEF ContextInvariant, Size, Maintenance
<1> QED
  BY <1>1 DEF Estimate, EstimateOf, Larger

\* What is below the budget now was so before the corrections at the end.
LEMMA BelowNow ==
    ASSUME conversation \in Seq(Messages), Estimate < Budget
    PROVE  BelowBeforeSteers
<1>1. SubSeq(conversation, 1, Len(conversation)) = conversation
  BY SubSeqFull
<1>2. Len(conversation) \in 0..Len(conversation)
  BY LenProperties
<1>3. \A i \in Len(conversation) + 1..Len(conversation) : conversation[i].kind = "steer"
  BY LenProperties
<1> QED
  BY <1>1, <1>2, <1>3 DEF BelowBeforeSteers, Estimate

\* One more correction is one of those at the end.
LEMMA BelowWithSteer ==
    ASSUME conversation \in Seq(Messages), NEW m \in Messages, m.kind = "steer",
           conversation' = Append(conversation, m), BelowBeforeSteers,
           maint'.measured = maint.measured, maint'.estimated = maint.estimated
    PROVE  BelowBeforeSteers'
<1>1. PICK k \in 0..Len(conversation) :
         /\ \A i \in k + 1..Len(conversation) : conversation[i].kind = "steer"
         /\ EstimateOf(SubSeq(conversation, 1, k)) < Budget
  BY DEF BelowBeforeSteers
<1>2. /\ Len(conversation) \in Nat /\ Len(conversation') = Len(conversation) + 1
      /\ \A i \in 1..Len(conversation) : conversation'[i] = conversation[i]
      /\ conversation'[Len(conversation) + 1] = m /\ conversation' \in Seq(Messages)
  BY AppendProperties, LenProperties
<1>3. k \in 0..Len(conversation') /\ k \in Nat
  BY <1>2
<1>4. Len(SubSeq(conversation, 1, k)) = k /\ Len(SubSeq(conversation', 1, k)) = k
  BY <1>2, <1>3
<1>5. EstimateOf(SubSeq(conversation, 1, k))' < Budget
  <2>1. EstimateOf(SubSeq(conversation, 1, k))' = EstimateOf(SubSeq(conversation, 1, k))
    BY <1>4 DEF EstimateOf, Size, Larger
  <2> QED
    BY <1>1, <2>1
<1>6. \A i \in k + 1..Len(conversation') : conversation'[i].kind = "steer"
  <2> TAKE i \in k + 1..Len(conversation')
  <2>1. CASE i = Len(conversation) + 1
    BY <1>2, <2>1
  <2>2. CASE i # Len(conversation) + 1
    BY <1>1, <1>2, <1>3, <2>2
  <2> QED
    BY <2>1, <2>2
<1> QED
  BY <1>3, <1>5, <1>6 DEF BelowBeforeSteers

\* A step that leaves the conversation and its measurement alone.
LEMMA BelowStays ==
    ASSUME conversation' = conversation, BelowBeforeSteers,
           maint'.measured = maint.measured, maint'.estimated = maint.estimated
    PROVE  BelowBeforeSteers'
BY DEF BelowBeforeSteers, EstimateOf, Size, Larger

\* Maintenance that is not due for the budget was decided on below it.
LEMMA DecidedBelow ==
    ASSUME BudgetInvariant, pc = "maintaining", ~due.hard, Estimate \in Int, Budget \in Nat
    PROVE  Estimate < Budget
<1>1. ~OverBudget(Estimate)
  BY DEF BudgetInvariant
<1> QED
  BY <1>1 DEF OverBudget

\* A round that is sent was estimated within the budget, or has none.
LEMMA BudgetStep ==
    ASSUME ConfigAssumption, Typed, BudgetInvariant, [Next]_vars
    PROVE  BudgetInvariant'
<1>0. /\ Budget \in Nat /\ ~(OnRequest /\ Policy)
      /\ Estimate \in Int /\ Estimate >= Size(conversation) /\ Size(conversation) \in Nat
      /\ maint.measured = None => Estimate = Size(conversation)
      /\ conversation \in Seq(Messages) /\ maint \in Maintenance /\ due \in Due
  BY EstimateCovers DEF ConfigAssumption, Typed, ContextInvariant
<1>1. CASE UNCHANGED <<pc, conversation, maint, due>>
  BY <1>1, BelowStays DEF BudgetInvariant, Size, Estimate, EstimateOf, Larger
<1>2. CASE pc' \notin {"compacting", "dispatch", "send", "stream", "redrain", "resteers", "refit",
                       "maintaining"}
  BY <1>2 DEF BudgetInvariant
<1>3. CASE Start
  BY <1>2, <1>3 DEF Start, End, Goto
<1>4. CASE PushSteer
  <2>1. /\ Steer(Head(drained)) \in Messages /\ Steer(Head(drained)).kind = "steer"
        /\ conversation' = Append(conversation, Steer(Head(drained)))
        /\ UNCHANGED <<pc, maint>> /\ pc \in {"steers", "resteers"}
    BY <1>4 DEF Messages, PushSteer, Typed, TurnInvariant, Steer
  <2>2. BelowBeforeSteers => BelowBeforeSteers'
    BY <1>0, <2>1, BelowWithSteer
  <2> QED
    BY <2>1, <2>2 DEF BudgetInvariant
<1>5. CASE SteersPushed
  <2>1. /\ UNCHANGED <<conversation, maint>>
        /\ pc' \in {"refit", "maintenance", "dispatch"}
        /\ pc' = "refit" => pc = "resteers"
    BY <1>5 DEF SteersPushed, Goto, active
  <2>2. pc' = "dispatch" => ~Policy
    BY <1>5 DEF SteersPushed, Goto
  <2>3. BelowBeforeSteers => BelowBeforeSteers'
    BY <2>1, BelowStays
  <2> QED
    BY <2>1, <2>2, <2>3 DEF BudgetInvariant
<1>6. CASE DecideMaintenance
  <2>1. /\ UNCHANGED <<conversation, maint>> /\ pc' \in {"maintaining", "dispatch"}
        /\ due'.estimate = Estimate /\ due'.hard = OverBudget(Estimate)
        /\ pc' = "dispatch" => ~OverBudget(Estimate)
    BY <1>6 DEF DecideMaintenance, Goto, active
  <2>2. Estimate' = Estimate /\ OverBudget(Estimate)' = OverBudget(Estimate)
    BY <2>1 DEF Estimate, EstimateOf, Size, Larger, OverBudget
  <2>3. pc' = "dispatch" => Size(conversation') < Budget /\ BelowBeforeSteers'
    <3>1. SUFFICES ASSUME pc' = "dispatch"
                   PROVE  Size(conversation') < Budget /\ BelowBeforeSteers'
      OBVIOUS
    <3>2. Estimate < Budget
      BY <1>0, <2>1, <3>1 DEF OverBudget
    <3>3. BelowBeforeSteers
      BY <1>0, <3>2, BelowNow
    <3> QED
      BY <1>0, <2>1, <3>2, <3>3, BelowStays
  <2> QED
    BY <2>1, <2>2, <2>3 DEF BudgetInvariant
<1>7. CASE FitsBudget
  <2>1. /\ UNCHANGED <<conversation, maint>> /\ pc = "refit" /\ pc' \in {"done", "dispatch"}
        /\ pc' = "dispatch" => ~OverBudget(Size(conversation))
    BY <1>7 DEF FitsBudget, End, Goto, active
  <2>2. pc' = "dispatch" => Size(conversation) < Budget
    BY <1>0, <2>1 DEF OverBudget
  <2>3. pc' = "dispatch" => BelowBeforeSteers
    <3>1. maint.measured = None \/ BelowBeforeSteers
      BY <2>1 DEF BudgetInvariant
    <3>2. maint.measured = None /\ pc' = "dispatch" => Estimate < Budget
      BY <1>0, <2>2
    <3> QED
      BY <1>0, <3>1, <3>2, BelowNow
  <2>4. BelowBeforeSteers => BelowBeforeSteers'
    BY <2>1, BelowStays
  <2> QED
    BY <2>1, <2>2, <2>3, <2>4 DEF BudgetInvariant
<1>8. CASE Dispatch \/ Send
  <2>1. /\ UNCHANGED <<conversation, maint>> /\ pc \in {"dispatch", "send"}
        /\ pc' \in {"done", "compacting", "send", "stream"}
        /\ pc' = "compacting" => OnRequest
    BY <1>8 DEF Dispatch, Send, End, Goto, active
  <2>2. BelowBeforeSteers => BelowBeforeSteers'
    BY <2>1, BelowStays
  <2> QED
    BY <2>1, <2>2 DEF BudgetInvariant, Size
<1>9. CASE CompactOk \/ CompactFailed
  BY <1>0, <1>9 DEF CompactOk, CompactFailed, Goto, BudgetInvariant
<1>10. CASE MaintainFailed
  <2>1. /\ pc = "maintaining" /\ pc' \in {"done", "redrain"} /\ conversation' = conversation
        /\ pc' = "redrain" => ~due.hard
    BY <1>10 DEF MaintainFailed, End, Goto, active, Required
  <2>2. maint'.measured = maint.measured /\ maint'.estimated = maint.estimated
    BY <1>0, <1>10 DEF MaintainFailed, Maintenance
  <2>3. pc' = "redrain" => Estimate < Budget
    BY <1>0, <2>1, DecidedBelow
  <2>4. pc' = "redrain" => BelowBeforeSteers'
    BY <1>0, <2>1, <2>2, <2>3, BelowNow, BelowStays
  <2> QED
    BY <2>1, <2>4 DEF BudgetInvariant
<1>11. CASE MaintainOk
  <2>1. PICK r, t, opaque : Maintained(r, opaque, t)
    BY <1>11 DEF MaintainOk
  <2>2. \/ pc' = "done"
        \/ /\ SoftOnly /\ pc' = "redrain" /\ conversation' = conversation
           /\ maint'.measured = maint.measured /\ maint'.estimated = maint.estimated
        \/ pc' = "redrain" /\ maint'.measured = None
    BY <1>0, <2>1 DEF Maintained, End, Goto, active, Maintenance
  <2>3. CASE SoftOnly /\ pc' = "redrain" /\ conversation' = conversation
             /\ maint'.measured = maint.measured /\ maint'.estimated = maint.estimated
    <3>1. ~due.hard /\ pc = "maintaining"
      BY <1>11, <2>3 DEF SoftOnly, Required, MaintainOk
    <3>2. Estimate < Budget
      BY <1>0, <3>1, DecidedBelow
    <3> QED
      BY <1>0, <2>3, <3>2, BelowNow, BelowStays DEF BudgetInvariant
  <2> QED
    BY <1>2, <2>2, <2>3 DEF BudgetInvariant
<1>12. CASE Completed \/ ToolFinished \/ ToolStarted \/ BeginTools \/ Finish
  BY <1>2, <1>12 DEF Completed, ToolFinished, ToolStarted, BeginTools, Finish, Goto, End
<1>13. CASE Drain
  <2>1. /\ UNCHANGED <<conversation, maint>> /\ pc \in {"boundary", "redrain"}
        /\ pc' \in {"steers", "resteers", "done"}
        /\ pc' = "resteers" => pc = "redrain"
    BY <1>13 DEF Drain, Goto, End, active
  <2>2. BelowBeforeSteers => BelowBeforeSteers'
    BY <2>1, BelowStays
  <2> QED
    BY <2>1, <2>2 DEF BudgetInvariant
<1>14. CASE Interrupt \/ Overflow \/ StreamFailed \/ Cancelled \/ Drop
  BY <1>2, <1>14 DEF Interrupt, Overflow, StreamFailed, Cancelled, Drop, Goto, End
<1>15. CASE Poll \/ TextDelta \/ Cancel \/ CancelNotify \/ RequestCompact
  BY <1>1, <1>15 DEF Poll, TextDelta, Cancel, CancelNotify, RequestCompact, active
<1>16. CASE \E s \in Steers : QueueSteer(s)
  BY <1>1, <1>16 DEF QueueSteer, active
<1>17. CASE UNCHANGED vars
  BY <1>1, <1>17 DEF vars, active
<1> QED
  BY <1>3, <1>4, <1>5, <1>6, <1>7, <1>8, <1>9, <1>10, <1>11, <1>12, <1>13, <1>14, <1>15, <1>16,
     <1>17 DEF Next, Internal, Operations, Host

\* Under a policy no request is sent whose conversation fills the budget by the
\* heuristic, or filled it by the last measurement before the corrections at its end
\* came, wherever corrections, results or a replacement came in between.
THEOREM BudgetKept == Spec => []WithinBudget
<1>1. Init => BudgetInvariant
  BY DEF Init, BudgetInvariant
<1>2. Typed /\ BudgetInvariant /\ [Next]_vars => BudgetInvariant'
  BY ConfigAssumption, BudgetStep
<1>3. BudgetInvariant => WithinBudget
  BY DEF BudgetInvariant, WithinBudget, BelowBeforeSteers
<1> QED
  BY ContextTyped, <1>1, <1>2, <1>3, PTL DEF Spec

\* What the policy remembers of the last maintenance keeps the next soft one Growth
\* away from what it left, by its estimate or by the first measurement after it.
GrowthInvariant ==
    /\ settled \in [estimate : Int, measured : Int]
    /\ settled.estimate # None =>
          \/ maint.softAfter >= settled.estimate + Growth
          \/ settled.measured # None /\ maint.softAfter >= settled.measured + Growth

\* Before the turn nothing was settled.
LEMMA GrowthInit == Init => GrowthInvariant
BY DEF Init, GrowthInvariant, None

\* A maintenance that settles an estimate sets the threshold Growth beyond it.
LEMMA SettledAnew ==
    ASSUME NEW estimate \in Int, Settles(estimate), maint'.softAfter >= estimate + Growth
    PROVE  GrowthInvariant'
BY DEF Settles, GrowthInvariant, None

\* A step that leaves the policy's memory alone.
LEMMA NothingSettled ==
    ASSUME GrowthInvariant, settled' = settled, maint'.softAfter = maint.softAfter
    PROVE  GrowthInvariant'
BY DEF GrowthInvariant

\* Every step leaves what was settled and its threshold alone, or sets both anew.
LEMMA GrowthStep ==
    ASSUME ConfigAssumption, Typed, GrowthInvariant, [Next]_vars
    PROVE  GrowthInvariant'
<1>0. /\ conversation \in Seq(Messages) /\ Size(conversation) \in Nat
      /\ maint \in Maintenance /\ due \in Due /\ due.estimate \in Int /\ Growth \in Nat
  BY EstimateCovers DEF Typed, ContextInvariant, ConfigAssumption, Due
<1>1. CASE UNCHANGED <<maint, settled>>
  BY <1>1, NothingSettled
<1>2. CASE Start \/ PushSteer \/ SteersPushed \/ DecideMaintenance \/ FitsBudget
  BY <1>1, <1>2 DEF Start, PushSteer, SteersPushed, DecideMaintenance, FitsBudget, history
<1>3. CASE Dispatch \/ CompactOk \/ CompactFailed \/ Send \/ Drain \/ Poll \/ Cancelled
  BY <1>1, <1>3 DEF Dispatch, CompactOk, CompactFailed, Send, Drain, Poll, Cancelled, history
<1>4. CASE Interrupt \/ TextDelta \/ StreamFailed \/ Finish \/ BeginTools
  BY <1>1, <1>4 DEF Interrupt, TextDelta, StreamFailed, Finish, BeginTools, history
<1>5. CASE ToolStarted \/ ToolFinished \/ Drop \/ Cancel \/ CancelNotify \/ RequestCompact
  BY <1>1, <1>5 DEF ToolStarted, ToolFinished, Drop, Cancel, CancelNotify, RequestCompact, history
<1>6. CASE \E s \in Steers : QueueSteer(s)
  BY <1>1, <1>6 DEF QueueSteer, history
<1>7. CASE UNCHANGED vars
  BY <1>1, <1>7 DEF vars, history
<1>8. CASE MaintainFailed
  <2>1. CASE UNCHANGED <<maint, settled>>
    BY <1>1, <2>1
  <2>2. CASE /\ due.soft /\ Settles(due.estimate)
             /\ maint' = [maint EXCEPT !.softAfter = due.estimate + Growth]
    <3>1. maint'.softAfter = due.estimate + Growth
      BY <1>0, <2>2 DEF Maintenance
    <3>2. due.estimate + Growth \in Int
      BY <1>0
    <3> QED
      BY <1>0, <2>2, <3>1, <3>2, SettledAnew
  <2>3. CASE ~due.soft
    <3>1. maint' = maint /\ settled' = settled
      BY <1>0, <1>8, <2>3 DEF MaintainFailed, Maintenance
    <3> QED
      BY <1>1, <3>1
  <2> QED
    BY <1>8, <2>1, <2>2, <2>3 DEF MaintainFailed
<1>9. CASE MaintainOk
  <2>1. PICK r \in Compacted(conversation), t \in {None, Size(conversation)}, opaque \in Opaque :
           Maintained(r, opaque, t)
    BY <1>9 DEF MaintainOk
  <2> DEFINE next == Size(r)
             base == IF opaque THEN Larger(Larger(due.estimate, next), Larger(t, 0)) ELSE next
             kept == [maint EXCEPT !.softAfter = base + Growth, !.awaiting = opaque,
                                   !.force = FALSE]
             useless == next >= due.estimate /\ ~opaque
  <2>2. next \in Nat /\ t \in Int
    <3>1. r \in Seq(Messages)
      BY MessagesReplaced DEF Typed
    <3> QED
      BY <1>0, <3>1 DEF Size, None
  <2>3. base \in Int /\ base >= next /\ (useless => base >= due.estimate)
    BY <1>0, <2>2 DEF Larger
  <2>4. \/ UNCHANGED <<maint, settled>>
        \/ maint' = kept /\ Settles(due.estimate) /\ useless
        \/ maint' = [kept EXCEPT !.measured = None] /\ Settles(next)
    <3> HIDE DEF kept, base
    <3> QED
      BY <2>1 DEF Maintained, kept, base
  <2> HIDE DEF base
  <2>5. /\ kept.softAfter = base + Growth
        /\ [kept EXCEPT !.measured = None].softAfter = base + Growth
    BY <1>0 DEF Maintenance
  <2> HIDE DEF kept, useless, next
  <2>6. CASE maint' = kept /\ Settles(due.estimate) /\ useless
    <3>1. maint'.softAfter >= due.estimate + Growth
      BY <1>0, <2>3, <2>5, <2>6
    <3> QED
      BY <1>0, <2>6, <3>1, SettledAnew
  <2>7. CASE maint' = [kept EXCEPT !.measured = None] /\ Settles(next)
    <3>1. maint'.softAfter >= next + Growth
      BY <1>0, <2>2, <2>3, <2>5, <2>7
    <3> QED
      BY <2>2, <2>7, <3>1, SettledAnew
  <2> QED
    BY <1>1, <2>4, <2>6, <2>7
<1>10. CASE Completed
  <2>1. PICK C \in SUBSET Calls, t \in {None} \cup {Size(conversation) + 1 + x : x \in Excess} :
           Accept(C, t)
    BY <1>10 DEF Completed
  <2>2. t \in Int
    BY <1>0, <2>1 DEF None, ConfigAssumption
  <2> DEFINE accepted == Append(conversation, Reply(attempt, C))
             renewed == Policy /\ maint.awaiting /\ t # None
  <2>3. CASE ~renewed
    <3>1. settled' = settled
      BY <2>1, <2>3 DEF Accept
    <3>2. maint'.softAfter = maint.softAfter
      BY <1>0, <2>1, <2>3 DEF Accept, Measured, Maintenance
    <3> QED
      BY <3>1, <3>2, NothingSettled
  <2>4. CASE renewed
    <3>1. settled' = [settled EXCEPT !.measured = t]
      BY <2>1, <2>4 DEF Accept
    <3>2. Measured(t, Size(accepted)) =
            [maint EXCEPT !.measured = t, !.estimated = Size(accepted),
                          !.softAfter = t + Growth, !.awaiting = FALSE]
      BY <2>4 DEF Measured
    <3>3. maint' = [Measured(t, Size(accepted)) EXCEPT !.recovered = FALSE]
      BY <2>1 DEF Accept
    <3> HIDE DEF accepted
    <3>4. maint'.softAfter = t + Growth
      BY <1>0, <3>2, <3>3 DEF Maintenance
    <3>5. t + Growth \in Int
      BY <1>0, <2>2
    <3> QED
      BY <2>2, <2>4, <3>1, <3>4, <3>5 DEF GrowthInvariant
  <2> QED
    BY <2>3, <2>4
<1>11. CASE Overflow
  <2>1. maint'.softAfter = maint.softAfter /\ settled' = settled
    BY <1>0, <1>11 DEF Overflow, Recovering, Maintenance
  <2> QED
    BY <2>1, NothingSettled
<1> QED
  BY <1>2, <1>3, <1>4, <1>5, <1>6, <1>7, <1>8, <1>9, <1>10, <1>11 DEF Next, Internal, Operations,
     Host

\* What soft maintenance waits for.
Spaced ==
    \/ settled.estimate = None
    \/ GrownFrom(settled.estimate)
    \/ settled.measured # None /\ GrownFrom(settled.measured)

\* Soft maintenance is decided on nowhere else, and remembers what was settled.
LEMMA GrowthAwaited ==
    ASSUME ContextInvariant, GrowthInvariant, [Next]_vars, OnlySoftDue
    PROVE  Spaced
<1>1. due = NotDue /\ due'.soft
  BY DEF OnlySoftDue
<1>2. due' # due /\ due' # NotDue
  BY <1>1 DEF NotDue
<1>3. DecideMaintenance
  BY <1>1, <1>2
     DEF Next, Internal, Operations, Host, Start, Cancel, CancelNotify, RequestCompact, Drop,
         QueueSteer, Drain, PushSteer, SteersPushed, FitsBudget, Dispatch, Send, Poll, Cancelled,
         Interrupt, Finish, BeginTools, ToolStarted, MaintainOk, MaintainFailed, CompactOk,
         CompactFailed, TextDelta, Completed, Overflow, StreamFailed, ToolFinished, vars
<1>4. /\ due'.estimate = Estimate /\ Estimate \in Int /\ Estimate >= 0
      /\ maint.softAfter = None \/ Estimate >= maint.softAfter
  BY <1>1, <1>3, EstimateCovers DEF DecideMaintenance, SoftDue
<1>5. /\ maint.softAfter \in Int /\ settled \in [estimate : Int, measured : Int] /\ Growth \in Nat
  BY ConfigAssumption DEF ContextInvariant, Maintenance, GrowthInvariant, ConfigAssumption
<1>6. Estimate >= maint.softAfter
  BY <1>4, <1>5 DEF None
<1> QED
  BY <1>4, <1>5, <1>6 DEF GrowthInvariant, Spaced, GrownFrom

\* Soft maintenance that nothing else asks for runs again only when the context has
\* grown by Growth since the last one, a refused, a useless and a native one included:
\* since what it left by the heuristic, or since the first measured request after a
\* native one, whatever tokens the provider reports.
THEOREM SoftMaintenanceSpaced == Spec => SoftNeedsGrowth
<1>1. Typed /\ GrowthInvariant /\ [Next]_vars => GrowthInvariant'
  BY ConfigAssumption, GrowthStep
<1>2. Typed /\ GrowthInvariant /\ [Next]_vars => [OnlySoftDue => Spaced]_vars
  BY GrowthAwaited DEF Typed
<1> QED
  BY ContextTyped, GrowthInit, <1>1, <1>2, PTL DEF Spec, SoftNeedsGrowth, Spaced
=============================================================================
