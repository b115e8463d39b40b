--------------------------- MODULE OpenCode_proofs ---------------------------
(***************************************************************************)
(* Proofs about OpenCode, for every set of models, tools and answers: the  *)
(* guard of a request, what a continuation is accepted with, and what is   *)
(* replayed from it, whichever adapters were in use since it was fresh.    *)
(***************************************************************************)
EXTENDS OpenCode, Selection_proofs

\* Where a request is out.
OnTheWire == {"sending", "error body", "body", "stream"}

\* A request that is reported is open only where one is out, its caller waits exactly
\* then, and until the headers come nothing but its start was told.
GuardInvariant ==
    /\ attempt = "open" => pc \in OnTheWire
    /\ attempt = "open" <=> outcome = "pending"
    /\ attempt = "open" /\ pc = "sending" => diagnostics = <<Attempt!Started>>

-----------------------------------------------------------------------------
(* What becomes of the guard where it is used.                             *)

\* The end of an attempt that is reported, and nothing for one that is not.
LEMMA FinishImplements ==
    ASSUME GuardInvariant, NEW failure \in Attempt!Failures \cup {"none"}, Finish(failure)
    PROVE  GuardInvariant' /\ [Attempt!Next]_(Attempt!vars)
<1>1. CASE attempt = "open"
  <2>1. Attempt!Finish(failure)
    BY <1>1 DEF GuardInvariant, Finish, Ended, Reported, Attempt!Finish
  <2>2. GuardInvariant'
    BY <1>1 DEF GuardInvariant, Finish, Ended, Attempt!Failures
  <2> QED
    BY <2>1, <2>2 DEF Attempt!Next
<1>2. CASE attempt # "open"
  BY <1>2 DEF GuardInvariant, Finish, Ended, Reported, Attempt!vars
<1> QED
  BY <1>1, <1>2

\* A failed call reports its end at most once.
LEMMA FailImplements ==
    ASSUME GuardInvariant, NEW failure \in Attempt!Failures, Fail(failure)
    PROVE  GuardInvariant' /\ [Attempt!Next]_(Attempt!vars)
BY FinishImplements DEF Fail

\* One that is not reported has no headers to report either.
LEMMA HeadersImplement ==
    ASSUME GuardInvariant, NEW next \in OnTheWire \ {"sending"}, HeadersArrive(next)
    PROVE  GuardInvariant' /\ [Attempt!Next]_(Attempt!vars)
<1>1. CASE attempt = "open"
  <2>1. Attempt!SeeHeaders
    BY <1>1 DEF GuardInvariant, HeadersArrive, Reported, Attempt!SeeHeaders
  <2>2. GuardInvariant'
    BY <1>1 DEF GuardInvariant, HeadersArrive, OnTheWire
  <2> QED
    BY <2>1, <2>2 DEF Attempt!Next
<1>2. CASE attempt # "open"
  BY <1>2 DEF GuardInvariant, HeadersArrive, Reported, Attempt!vars
<1> QED
  BY <1>1, <1>2

\* A call starts its attempt, if its adapter reports.
LEMMA StartImplements ==
    ASSUME GuardInvariant, Start
    PROVE  GuardInvariant' /\ [Attempt!Next]_(Attempt!vars)
<1>1. attempt # "open" /\ pc' = "sending"
  BY DEF GuardInvariant, Start, OnTheWire
<1>2. CASE Opened
  BY <1>1, <1>2 DEF GuardInvariant, Opened, OnTheWire, Attempt!Start, Attempt!Next
<1>3. CASE UNCHANGED guard
  BY <1>1, <1>3 DEF GuardInvariant, guard, Attempt!vars
<1> QED
  BY <1>2, <1>3 DEF Start

\* Dropping a call ends what it had started.
LEMMA DropImplements ==
    ASSUME GuardInvariant, Drop
    PROVE  GuardInvariant' /\ [Attempt!Next]_(Attempt!vars)
<1>1. CASE attempt = "open"
  BY <1>1 DEF GuardInvariant, Drop, Ended, Reported, Attempt!Abandon, Attempt!Next
<1>2. CASE attempt # "open"
  BY <1>2 DEF GuardInvariant, Drop, Ended, Reported, Attempt!vars
<1> QED
  BY <1>1, <1>2

\* What is forgotten was over.
LEMMA ForgetImplements ==
    ASSUME GuardInvariant, pc \notin OnTheWire, Forgotten
    PROVE  GuardInvariant' /\ [Attempt!Next]_(Attempt!vars)
BY DEF GuardInvariant, Forgotten, Attempt!Forget, Attempt!Next

-----------------------------------------------------------------------------
(* Every step of the provider and its host is a step of the attempt, or    *)
(* none.                                                                   *)

\* The host reports nothing, but a drop abandons the attempt.
LEMMA HostImplements ==
    ASSUME GuardInvariant,
           \/ \E user \in Sayings : Say(user)
           \/ RunTool \/ Renew
           \/ \E other \in Models : Switch(other)
           \/ Complete \/ \E keep \in Keeps : Compact(keep)
           \/ Adopt
    PROVE  GuardInvariant' /\ [Attempt!Next]_(Attempt!vars)
<1>1. Forgotten /\ pc \in {"idle", "completed"}
  BY DEF Say, RunTool, Renew, Switch, Complete, Compact, Calling, Adopt, Idle
<1> QED
  BY <1>1, ForgetImplements DEF OnTheWire

\* The end of a response, with an answer or without.
LEMMA EndsImplements ==
    ASSUME GuardInvariant, NEW found, NEW failure \in Attempt!Failures, Ends(found, failure)
    PROVE  GuardInvariant' /\ [Attempt!Next]_(Attempt!vars)
<1>1. CASE Fail(failure)
  BY <1>1, FailImplements
<1>2. ASSUME NEW f \in found, Completes(f)
      PROVE  GuardInvariant' /\ [Attempt!Next]_(Attempt!vars)
  BY <1>2, FinishImplements DEF Completes
<1> QED
  BY <1>1, <1>2 DEF Ends

\* An event of a stream reports nothing but its end.
LEMMA EventImplements ==
    ASSUME GuardInvariant, EventRead
    PROVE  GuardInvariant' /\ [Attempt!Next]_(Attempt!vars)
<1>1. EventFailure(Head(wire)) \in Attempt!Failures
  BY DEF EventFailure, R!Failure, Attempt!Failures
<1>2. \/ Fail(EventFailure(Head(wire)))
      \/ \E a : Ends(Final(a), "Protocol")
      \/ UNCHANGED <<pc, guard>>
  BY DEF EventRead
<1>3. CASE UNCHANGED <<pc, guard>>
  BY <1>3 DEF GuardInvariant, guard, Attempt!vars
<1> QED
  BY <1>1, <1>2, <1>3, FailImplements, EndsImplements DEF Attempt!Failures

\* So does a response.
LEMMA ResponseImplements ==
    ASSUME GuardInvariant,
           \/ BodyRead \/ BodyFails \/ MarkRead \/ ConnectionEnds \/ StreamBreaks
           \/ SendFails \/ ErrorBodyRead
    PROVE  GuardInvariant' /\ [Attempt!Next]_(Attempt!vars)
<1>1. FinalFailure(acc) \in Attempt!Failures
  BY DEF FinalFailure, Attempt!Failures
<1>2. \E failure \in Attempt!Failures : Fail(failure) \/ \E found : Ends(found, failure)
  BY <1>1 DEF BodyRead, BodyFails, MarkRead, ConnectionEnds, StreamBreaks, SendFails,
              ErrorBodyRead, Attempt!Failures
<1> QED
  BY <1>2, FailImplements, EndsImplements

\* Before the first call no attempt is open.
LEMMA InvariantInit == Init => GuardInvariant /\ Attempt!Init
BY DEF Init, GuardInvariant, Attempt!Init

\* Every step is one of the attempt or a stutter.
LEMMA StepImplements ==
    ASSUME GuardInvariant, [Next]_vars
    PROVE  GuardInvariant' /\ [Attempt!Next]_(Attempt!vars)
<1>1. CASE \/ \E user \in Sayings : Say(user)
           \/ RunTool \/ Renew
           \/ \E other \in Models : Switch(other)
           \/ Complete \/ \E keep \in Keeps : Compact(keep)
           \/ Adopt
  BY <1>1, HostImplements
<1>2. CASE Refused
  BY <1>2 DEF GuardInvariant, Refused, Over, OnTheWire, guard, Attempt!vars
<1>3. CASE Start
  BY <1>3, StartImplements
<1>4. CASE Rejected \/ BodyArrives \/ StreamStarts \/ SummaryArrives
  BY <1>4, HeadersImplement
     DEF Rejected, BodyArrives, StreamStarts, SummaryArrives, OnTheWire
<1>5. CASE \/ BodyRead \/ BodyFails \/ MarkRead \/ ConnectionEnds \/ StreamBreaks
           \/ SendFails \/ ErrorBodyRead
  BY <1>5, ResponseImplements
<1>6. CASE EventRead
  BY <1>6, EventImplements
<1>7. CASE Compacted \/ NoSummary
  BY <1>7, FinishImplements DEF Compacted, NoSummary
<1>8. CASE Drop
  BY <1>8, DropImplements
<1>9. CASE UNCHANGED vars
  BY <1>9 DEF vars, guard, GuardInvariant, Attempt!vars
<1> QED
  BY <1>1, <1>2, <1>3, <1>4, <1>5, <1>6, <1>7, <1>8, <1>9 DEF Next

\* Whichever adapter a call was routed to, an attempt that an observer was told of is
\* open only while the adapter waits for the service: no return leaves it open.
THEOREM GuardInvariance == Spec => []GuardInvariant
<1>1. GuardInvariant /\ [Next]_vars => GuardInvariant'
  BY StepImplements
<1> QED
  BY InvariantInit, <1>1, PTL DEF Spec

\* Every request of the provider that is reported at all is reported over exactly once,
\* in the step in which its caller learns how it ended and with what it learns, also
\* when adapters that report and adapters that do not take turns.
THEOREM ReportsOnce == Spec => AttemptSpec
<1>1. Init => Attempt!Init
  BY InvariantInit
<1>2. GuardInvariant /\ [Next]_vars => [Attempt!Next]_(Attempt!vars)
  BY StepImplements
<1> QED
  BY GuardInvariance, <1>1, <1>2, PTL DEF Spec, AttemptSpec, Attempt!Spec

-----------------------------------------------------------------------------
(* What the host and the adapters keep, for every set of models and tools. *)

\* A message of a conversation.
Formed(message) ==
    /\ message.role \in {"user", "assistant", "tool"}
    /\ message.role = "user" =>
          message = User(message.content, message.images, message.documents)
    /\ message.role = "assistant" =>
          /\ message = Assistant(message.content, message.calls, message.reasoning)
          /\ IsSequence(message.calls)
    /\ message.role = "tool" =>
          /\ message = Result(message.call, message.outcome, message.images)
          /\ IsSequence(message.images)

\* Between a result and the call it answers there are only other results.
Asks(message, id) == \E k \in DOMAIN message.calls : message.calls[k].id = id
Grouped(messages) ==
    \A i \in Has(messages, "tool") : \E j \in Has(messages, "assistant") :
        /\ j < i /\ Asks(messages[j], messages[i].call)
        /\ \A n \in j + 1 .. i : messages[n].role = "tool"

\* Results that stand together answer different calls.
AnsweredOnce(messages) ==
    \A i, j \in Has(messages, "tool") :
        i < j /\ messages[i].call = messages[j].call =>
            \E n \in i .. j : messages[n].role # "tool"

\* Where calls of the last answer are not answered, nothing else was said since.
Settled(messages, i) ==
    \A k \in DOMAIN messages[i].calls : \E n \in i + 1 .. Len(messages) :
        messages[n].role = "tool" /\ messages[n].call = messages[i].calls[k].id
Interrupted(messages, i) == \E n \in i + 1 .. Len(messages) : messages[n].role # "tool"
LastAnswer(messages, i) ==
    /\ i \in Has(messages, "assistant")
    /\ \A n \in Has(messages, "assistant") : n <= i
Awaited(messages) ==
    \A i \in DOMAIN messages : LastAnswer(messages, i) =>
        Settled(messages, i) \/ ~Interrupted(messages, i)

Sound(messages, told) ==
    /\ IsSequence(messages) /\ IsSequence(told) /\ Len(told) = Len(messages)
    /\ \A i \in DOMAIN messages : Formed(messages[i])
    /\ Grouped(messages) /\ AnsweredOnce(messages) /\ Awaited(messages)

\* What nobody but its model can read is its own.
Own(block, id) ==
    /\ MadeBy(block) \subseteq {id} /\ "type" \in DOMAIN block
    /\ block.type \in {"redacted_thinking", "reasoning"} => "of" \in DOMAIN block
    /\ "signature" \in DOMAIN block => block.signature \in Seq({id})

\* What an answer is replayed as, and that its calls can be found there.
Content(c, n) ==
    IF c.protocol = "Responses" THEN c.checkpoints[n].output ELSE c.checkpoints[n].content
Recorded(c, n) ==
    LET checkpoint == c.checkpoints[n]
    IN  IF c.protocol = "Responses"
        THEN [model |-> checkpoint.model, index |-> checkpoint.index,
              assistant |-> checkpoint.assistant, output |-> checkpoint.output]
        ELSE [model |-> checkpoint.model, index |-> checkpoint.index,
              assistant |-> checkpoint.assistant, content |-> checkpoint.content]
SameCalls(checkpoint) ==
    LET signed == G!OfType(checkpoint.content, "functionCall")
        calls == checkpoint.assistant.calls
    IN  G!Named(checkpoint.content) => \A k \in DOMAIN calls :
            /\ k \in DOMAIN signed /\ signed[k].name = calls[k].name
            /\ signed[k].id \in {<<>>, <<calls[k].id>>}
AllNamed(c) == \A n \in DOMAIN c.checkpoints : G!Named(c.checkpoints[n].content)
Faithful(c) ==
    /\ c = [protocol |-> c.protocol, checkpoints |-> c.checkpoints]
    /\ c.protocol \in Protocols /\ IsSequence(c.checkpoints)
    /\ \A n \in DOMAIN c.checkpoints :
          /\ c.checkpoints[n] = Recorded(c, n)
          /\ c.checkpoints[n].index \in Nat
          /\ c.checkpoints[n].assistant.role = "assistant" /\ IsSequence(Content(c, n))
          /\ \A b \in DOMAIN Content(c, n) :
                MadeBy(Content(c, n)[b]) \subseteq {c.checkpoints[n].model}
          /\ c.protocol = "GenerateContent" => SameCalls(c.checkpoints[n])

\* Only what is in the continuation is known of what a service sent.
Traced(told, c) ==
    \A i \in DOMAIN told : told[i] # <<>> =>
        \E n \in DOMAIN c.checkpoints :
            c.checkpoints[n].index = i /\ told[i] = <<Content(c, n)>>

HostInvariant ==
    /\ model \in Models
    /\ Sound(conversation, contents) /\ Faithful(continuation) /\ Traced(contents, continuation)

\* A call is made when all calls of tools are answered, and goes on where its request
\* was accepted.
CallInvariant ==
    /\ pc = "idle" => kept = {}
    /\ pc # "idle" => Pending = {}
    /\ Compacting => kept \in Keeps
    /\ Compacting /\ Protocol = "GenerateContent" => Valid(conversation, continuation)
    /\ ~Compacting /\ pc \notin {"idle", "credentials"} =>
          Requests(Sent, continuation, Specs) # {}

\* What a response brings, and what the adapters have of it.
PartOwn(part) ==
    /\ Own(part, model.id) /\ "signature" \in DOMAIN part
    /\ part.type \notin {"redacted_thinking", "reasoning"}
    /\ part.type = "functionCall" =>
          /\ "id" \in DOMAIN part
          /\ part.id # <<>> => part.id = <<part.id[1]>>
MessagesEvent(event) ==
    /\ event.kind = "content_block_start" => Own(event.block, model.id)
    /\ event.kind = "content_block_delta" /\ event.field = "signature" =>
          event.text \in Seq({model.id})
GoogleEvent(event) ==
    event.kind = "chunk" =>
        /\ event = G!Chunk(event.parts, event.reason) /\ IsSequence(event.parts)
        /\ \A n \in DOMAIN event.parts : PartOwn(event.parts[n])
Items(output) ==
    /\ IsSequence(output)
    /\ \A n \in DOMAIN output : MadeBy(output[n]) \subseteq {model.id}
ResponsesEvent(event) ==
    /\ event.kind = "done" => MadeBy(event.item) \subseteq {model.id}
    /\ event.kind = "completed" => Items(event.output)

MessagesAcc(a) ==
    /\ a = [blocks |-> a.blocks, reason |-> a.reason, finished |-> a.finished]
    /\ IsSequence(a.blocks)
    /\ \A n \in DOMAIN a.blocks :
          /\ a.blocks[n] = [value |-> a.blocks[n].value, partial |-> a.blocks[n].partial,
                            stopped |-> a.blocks[n].stopped]
          /\ Own(a.blocks[n].value, model.id)
GoogleAcc(a) ==
    /\ IsSequence(a.parts) /\ \A n \in DOMAIN a.parts : PartOwn(a.parts[n])
ResponsesAcc(a) ==
    /\ a = [items |-> a.items, part |-> a.part, final |-> a.final]
    /\ IsFiniteSet(DOMAIN a.items)
    /\ \A n \in DOMAIN a.items : MadeBy(a.items[n]) \subseteq {model.id}
    /\ \A output \in ToSet(a.final) : Items(output)

Meant(output) ==
    Route(/\ IsSequence(output) /\ \A n \in DOMAIN output : Own(output[n], model.id), TRUE,
          /\ IsSequence(output) /\ \A n \in DOMAIN output : PartOwn(output[n]),
          Items(output))
EventOwn(event) ==
    Route(MessagesEvent(event), TRUE, GoogleEvent(event), ResponsesEvent(event))
AccOwn(a) == Route(MessagesAcc(a), IsSequence(a.legacy), GoogleAcc(a), ResponsesAcc(a))
StreamInvariant ==
    /\ ~Compacting /\ pc = "body" =>
          /\ Meant(response)
          /\ Protocol = "ChatCompletions" =>
                IsSequence(wire[1].calls) /\ IsSequence(wire[1].legacy)
    /\ pc = "stream" =>
          /\ ~Compacting /\ AccOwn(acc)
          /\ Protocol # "ChatCompletions" =>
                IsSequence(wire) /\ \A n \in DOMAIN wire : EventOwn(wire[n])

AnswerInvariant ==
    pc = "completed" =>
        /\ Sound(answer.conversation, answer.contents) /\ Faithful(answer.continuation)
        /\ Traced(answer.contents, answer.continuation)
        /\ NextRequestAccepted

ConversationInvariant ==
    HostInvariant /\ CallInvariant /\ StreamInvariant /\ AnswerInvariant

-----------------------------------------------------------------------------
(* Sequences of anything.                                                  *)

\* A sequence is one of its own elements.
LEMMA ListOf ==
    ASSUME NEW X, NEW s \in Seq(X)
    PROVE  /\ IsSequence(s) /\ ToSet(s) \subseteq X
           /\ Len(s) \in Nat /\ DOMAIN s = 1 .. Len(s)
<1>1. Len(s) \in Nat /\ DOMAIN s = 1 .. Len(s) /\ \A i \in 1 .. Len(s) : s[i] \in X
  BY LenProperties, ElementOfSeq
<1>2. s \in [1 .. Len(s) -> X]
  BY LenProperties
<1>3. s \in [1 .. Len(s) -> ToSet(s)]
  BY <1>1, <1>2 DEF ToSet
<1>4. s \in Seq(ToSet(s))
  BY <1>1, <1>3, SeqDef
<1> QED
  BY <1>1, <1>4 DEF IsSequence, ToSet

\* What a sequence is.
LEMMA ListDomain ==
    ASSUME NEW s, IsSequence(s)
    PROVE  /\ s \in Seq(ToSet(s)) /\ Len(s) \in Nat /\ DOMAIN s = 1 .. Len(s)
           /\ \A i \in 1 .. Len(s) : s[i] \in ToSet(s)
BY ListOf, ElementOfSeq DEF IsSequence

\* A function on the first numbers is a sequence.
LEMMA ListMade ==
    ASSUME NEW n \in Nat, NEW s, DOMAIN s = 1 .. n, s = [i \in 1 .. n |-> s[i]]
    PROVE  IsSequence(s) /\ Len(s) = n
<1>1. s \in [1 .. n -> ToSet(s)]
  BY DEF ToSet
<1>2. s \in Seq(ToSet(s))
  BY <1>1, SeqDef
<1> QED
  BY <1>2, LenProperties DEF IsSequence

\* One more element.
LEMMA ListAppend ==
    ASSUME NEW s, NEW e, IsSequence(s)
    PROVE  LET t == Append(s, e)
           IN  /\ IsSequence(t) /\ Len(t) = Len(s) + 1 /\ DOMAIN t = 1 .. Len(s) + 1
               /\ t[Len(s) + 1] = e /\ \A i \in 1 .. Len(s) : t[i] = s[i]
<1> DEFINE X == ToSet(s) \cup {e}
<1>1. s \in Seq(X) /\ e \in X
  <2>1. s \in Seq(ToSet(s)) /\ ToSet(s) \subseteq X
    BY DEF IsSequence
  <2> QED
    BY <2>1, SeqMonotonic
<1> HIDE DEF X
<1>2. /\ Append(s, e) \in Seq(X) /\ Len(Append(s, e)) = Len(s) + 1
      /\ Append(s, e)[Len(s) + 1] = e /\ \A i \in 1 .. Len(s) : Append(s, e)[i] = s[i]
  BY <1>1, AppendProperties
<1>3. IsSequence(Append(s, e)) /\ DOMAIN Append(s, e) = 1 .. Len(Append(s, e))
  BY <1>2, ListOf
<1> QED
  BY <1>2, <1>3

\* One sequence behind another.
LEMMA ListConcat ==
    ASSUME NEW s, NEW t, IsSequence(s), IsSequence(t)
    PROVE  LET u == s \o t
           IN  /\ IsSequence(u) /\ Len(u) = Len(s) + Len(t) /\ DOMAIN u = 1 .. Len(s) + Len(t)
               /\ \A i \in 1 .. Len(s) : u[i] = s[i]
               /\ \A i \in 1 .. Len(t) : u[Len(s) + i] = t[i]
<1> DEFINE X == ToSet(s) \cup ToSet(t)
<1>1. s \in Seq(X) /\ t \in Seq(X)
  <2>1. s \in Seq(ToSet(s)) /\ ToSet(s) \subseteq X /\ t \in Seq(ToSet(t)) /\ ToSet(t) \subseteq X
    BY DEF IsSequence
  <2> QED
    BY <2>1, SeqMonotonic
<1> HIDE DEF X
<1>2. /\ s \o t \in Seq(X) /\ Len(s \o t) = Len(s) + Len(t)
      /\ \A i \in 1 .. Len(s) + Len(t) :
            (s \o t)[i] = IF i <= Len(s) THEN s[i] ELSE t[i - Len(s)]
  BY <1>1, ConcatProperties
<1>3. IsSequence(s \o t) /\ DOMAIN (s \o t) = 1 .. Len(s) + Len(t)
  BY <1>2, ListOf
<1>4. Len(s) \in Nat /\ Len(t) \in Nat
  BY <1>1, LenProperties
<1>5. \A i \in 1 .. Len(s) : (s \o t)[i] = s[i]
  BY <1>2, <1>4
<1>6. ASSUME NEW i \in 1 .. Len(t) PROVE (s \o t)[Len(s) + i] = t[i]
  <2>1. Len(s) + i \in 1 .. Len(s) + Len(t) /\ ~(Len(s) + i <= Len(s)) /\ (Len(s) + i) - Len(s) = i
    BY <1>4
  <2> QED
    BY <1>2, <2>1
<1> QED
  BY <1>2, <1>3, <1>5, <1>6

\* A sequence without its first element.
LEMMA ListTail ==
    ASSUME NEW s, IsSequence(s), s # <<>>
    PROVE  /\ IsSequence(Tail(s)) /\ Head(s) = s[1] /\ 1 \in DOMAIN s
           /\ \A i \in DOMAIN Tail(s) : i + 1 \in DOMAIN s /\ Tail(s)[i] = s[i + 1]
<1> DEFINE X == ToSet(s)
<1>1. s \in Seq(X)
  BY DEF IsSequence
<1> HIDE DEF X
<1>2. /\ Head(s) \in X /\ Tail(s) \in Seq(X) /\ Len(Tail(s)) = Len(s) - 1
      /\ \A i \in 1 .. Len(Tail(s)) : Tail(s)[i] = s[i + 1]
  BY <1>1, HeadTailProperties
<1>3. /\ Len(s) \in Nat /\ DOMAIN s = 1 .. Len(s) /\ DOMAIN Tail(s) = 1 .. Len(Tail(s))
      /\ IsSequence(Tail(s)) /\ Len(Tail(s)) \in Nat
  BY <1>1, <1>2, ListOf
<1>4. Len(s) # 0
  BY <1>1, EmptySeq, LenProperties, SeqEqual
<1>5. Head(s) = s[1]
  BY <1>1
<1> QED
  BY <1>2, <1>3, <1>4, <1>5

-----------------------------------------------------------------------------
(* The adapters' own copies of the operators on messages and sequences.    *)

\* Those of sequences,
LEMMA SameSelect ==
    /\ \A s, I : A!Select(s, I) = Select(s, I)
    /\ \A s, I : G!Select(s, I) = Select(s, I)
    /\ \A s, I : R!Select(s, I) = Select(s, I)
BY DEF A!Select, G!Select, R!Select, Select,
       A!Selections, G!Selections, R!Selections, Selections

\* of the accumulator of Chat Completions,
LEMMA SameChat ==
    /\ \A indices, n : C!InOrder(indices, n) = InOrder(indices, n)
    /\ \A s : C!Max(s) = Max(s) /\ C!IsSequence(s) = IsSequence(s)
    /\ \A a, b, c : C!Assistant(a, b, c) = Assistant(a, b, c)
BY DEF C!InOrder, InOrder, C!Select, Select, C!Selections, Selections, C!Max, Max,
       C!IsSequence, IsSequence, C!ToSet, ToSet, C!Assistant, Assistant

\* what is joined,
LEMMA SameFlatten ==
    /\ \A s : A!FlattenSeq(s) = FlattenSeq(s)
    /\ \A s : G!FlattenSeq(s) = FlattenSeq(s)
BY DEF A!FlattenSeq, G!FlattenSeq, FlattenSeq

\* bounds,
LEMMA SameBounds ==
    /\ \A s : G!Max(s) = Max(s) /\ R!Max(s) = Max(s)
    /\ \A s : G!Min(s) = Min(s) /\ A!Min(s) = Min(s)
BY DEF G!Max, R!Max, Max, G!Min, A!Min, Min

\* and those of messages.
LEMMA SameMessages ==
    /\ \A m, r : A!Has(m, r) = Has(m, r) /\ G!Has(m, r) = Has(m, r)
    /\ \A a, b, c : /\ A!Assistant(a, b, c) = Assistant(a, b, c)
                    /\ G!Assistant(a, b, c) = Assistant(a, b, c)
                    /\ R!Assistant(a, b, c) = Assistant(a, b, c)
    /\ \A a, b, c : /\ A!Call(a, b, c) = Call(a, b, c)
                    /\ G!Call(a, b, c) = Call(a, b, c)
                    /\ R!Call(a, b, c) = Call(a, b, c)
    /\ \A s : A!IsSequence(s) = IsSequence(s) /\ G!IsSequence(s) = IsSequence(s)
               /\ R!IsSequence(s) = IsSequence(s)
BY DEF A!Has, G!Has, Has, A!Assistant, G!Assistant, R!Assistant, Assistant,
       A!Call, G!Call, R!Call, Call, A!IsSequence, G!IsSequence, R!IsSequence, IsSequence,
       A!ToSet, G!ToSet, R!ToSet, ToSet

\* The first position of some.
LEMMA LeastPosition ==
    ASSUME NEW T \in SUBSET Nat, T # {}
    PROVE  Min(T) \in T /\ \A y \in T : Min(T) <= y
<1>1. \E x \in T : \A y \in T : x <= y
  BY LeastNatural
<1> QED
  BY <1>1 DEF Min

\* What is selected of a sequence is one, of its elements at the positions selected.
LEMMA ListSelect ==
    ASSUME NEW s, NEW I, IsSequence(s)
    PROVE  LET t == Select(s, I)
           IN  /\ IsSequence(t)
               /\ \A n \in DOMAIN t : \E i \in DOMAIN s : i \in I /\ n = Rank(I, i) /\ t[n] = s[i]
               /\ \A i \in DOMAIN s : i \in I =>
                     Rank(I, i) \in DOMAIN t /\ t[Rank(I, i)] = s[i]
<1> DEFINE X == ToSet(s)
           t == Select(s, I)
<1>1. s \in Seq(X)
  BY DEF IsSequence
<1> HIDE DEF X
<1>2. t \in Seq(X)
  BY <1>1, SelectType
<1>3. IsSequence(t) /\ DOMAIN t = 1 .. Len(t) /\ DOMAIN s = 1 .. Len(s)
  BY <1>1, <1>2, ListOf
<1>4. /\ \A i \in 1 .. Len(s) : i \in I => Rank(I, i) \in 1 .. Len(t) /\ t[Rank(I, i)] = s[i]
      /\ \A n \in 1 .. Len(t) : \E i \in 1 .. Len(s) : i \in I /\ n = Rank(I, i)
  BY <1>1, SelectRanks
<1> HIDE DEF t
<1> QED
  BY <1>3, <1>4 DEF t

\* The calls of a message are the calls among the parts that it was made of.
LEMMA GoogleSameCalls ==
    ASSUME NEW checkpoint, NEW i, IsSequence(checkpoint.content),
           checkpoint.assistant = G!Parsed(checkpoint.content, i),
           \A n \in DOMAIN checkpoint.content : PartOwn(checkpoint.content[n])
    PROVE  SameCalls(checkpoint)
<1> DEFINE content == checkpoint.content
           I == {n \in DOMAIN content : content[n].type = "functionCall"}
           signed == Select(content, I)
           calls == checkpoint.assistant.calls
<1>1. G!OfType(content, "functionCall") = signed
  BY SameSelect DEF G!OfType
<1>2. calls = [k \in DOMAIN signed |->
                 Call(IF signed[k].id \in {<<>>, <<"">>} THEN G!FallbackId(i, k) ELSE signed[k].id[1],
                      signed[k].name, signed[k].args)]
  <2> DEFINE own == G!OfType(content, "functionCall")
  <2>1. calls = [k \in DOMAIN own |->
                  Call(IF own[k].id \in {<<>>, <<"">>} THEN G!FallbackId(i, k) ELSE own[k].id[1],
                       own[k].name, own[k].args)]
    <3> DEFINE made ==
                 [k \in DOMAIN own |->
                    Call(IF own[k].id \in {<<>>, <<"">>} THEN G!FallbackId(i, k) ELSE own[k].id[1],
                         own[k].name, own[k].args)]
    <3>1. \E said, thought : G!Parsed(content, i) = Assistant(said, made, thought)
      BY ONLY TRUE DEF G!Parsed, G!Assistant, Assistant, G!Call, Call, own
    <3>2. calls = checkpoint.assistant.calls /\ checkpoint.assistant = G!Parsed(content, i)
      OBVIOUS
    <3> HIDE DEF made, own, calls, content
    <3> SUFFICES calls = made
      BY DEF made
    <3> QED
      BY <3>1, <3>2 DEF Assistant
  <2> HIDE DEF own
  <2>2. own = signed
    BY <1>1 DEF own
  <2> HIDE DEF signed, calls
  <2> QED
    BY <2>1, <2>2
<1>3. \A k \in DOMAIN signed : \E n \in DOMAIN content : n \in I /\ signed[k] = content[n]
  <2>1. IsSequence(content)
    OBVIOUS
  <2> HIDE DEF content, I
  <2> QED
    BY <2>1, ListSelect
<1>4. \A k \in DOMAIN signed :
         /\ signed[k].id # <<>> => signed[k].id = <<signed[k].id[1]>>
         /\ G!Named(content) => signed[k].id # <<"">>
  BY <1>3 DEF PartOwn, G!Named, G!IsCall
<1> HIDE DEF signed, calls, content
<1>5. ASSUME G!Named(content), NEW k \in DOMAIN calls
      PROVE  /\ k \in DOMAIN signed /\ signed[k].name = calls[k].name
             /\ signed[k].id \in {<<>>, <<calls[k].id>>}
  <2>1. /\ DOMAIN calls = DOMAIN signed /\ calls[k].name = signed[k].name
        /\ calls[k].id = IF signed[k].id \in {<<>>, <<"">>} THEN G!FallbackId(i, k)
                         ELSE signed[k].id[1]
    BY <1>2, <1>5 DEF Call
  <2> QED
    BY <1>4, <1>5, <2>1
<1> QED
  BY <1>1, <1>5 DEF SameCalls, calls, content

\* The call that a result answers is found, be it signed or not, unless one came with
\* the empty id.
LEMMA GoogleFinds ==
    ASSUME NEW messages, NEW c, NEW i \in Has(messages, "tool"),
           IsSequence(messages), Faithful(c), AllNamed(c), c.protocol = "GenerateContent",
           \A n \in DOMAIN c.checkpoints :
               messages[c.checkpoints[n].index] = c.checkpoints[n].assistant,
           \E j \in Has(messages, "assistant") : j < i /\ Asks(messages[j], messages[i].call)
    PROVE  G!FoundCall(messages, i, c.checkpoints) # {}
<1> DEFINE id == messages[i].call
           makers == G!Makers(messages, i, id)
           j == G!Maker(messages, i, id)
           calls == messages[j].calls
           K == {l \in DOMAIN calls : calls[l].id = id}
           at == G!At(c.checkpoints, j)
           first == c.checkpoints[Min(at)]
           signed == G!OfType(first.content, "functionCall")
<1>1. DOMAIN messages = 1 .. Len(messages) /\ Len(messages) \in Nat
  BY ListDomain
<1>2. makers \in SUBSET (1 .. Len(messages)) /\ makers # {}
  BY <1>1, SameMessages DEF G!Makers, Has, Asks
<1>3. j \in makers
  <2>1. Max(makers) \in makers
    BY <1>1, <1>2, GreatestPosition
  <2> QED
    BY <2>1, SameBounds DEF G!Maker
<1>4. K # {}
  BY <1>3 DEF G!Makers
<1>5. CASE at = {}
  BY <1>2, <1>5 DEF G!FoundCall
<1>6. CASE at # {}
  <2>1. DOMAIN c.checkpoints = 1 .. Len(c.checkpoints) /\ Len(c.checkpoints) \in Nat
    BY ListDomain DEF Faithful
  <2>2. at \in SUBSET Nat
    BY <2>1 DEF G!At
  <2>3. Min(at) \in at
    BY <1>6, <2>2, LeastPosition
  <2>4. Min(at) \in DOMAIN c.checkpoints /\ first.index = j
    BY <2>3 DEF G!At
  <2>5. calls = first.assistant.calls
    BY <2>4
  <2>6. SameCalls(first) /\ IsSequence(first.content) /\ G!Named(first.content)
    BY <2>4 DEF Faithful, Content, AllNamed
  <2>7. /\ DOMAIN calls \subseteq DOMAIN signed
        /\ \A k \in DOMAIN calls : /\ signed[k].name = calls[k].name
                                   /\ signed[k].id \in {<<>>, <<calls[k].id>>}
    BY <2>5, <2>6 DEF SameCalls
  <2>8. DOMAIN signed \subseteq Nat
    <3>1. IsSequence(signed)
      BY <2>6, SameSelect, ListSelect DEF G!OfType
    <3> QED
      BY <3>1, ListDomain
  <2>9. Min(K) \in K
    <3>1. K \in SUBSET Nat
      BY <2>7, <2>8
    <3> QED
      BY <1>4, <3>1, LeastPosition
  <2>10. /\ Min(K) \in DOMAIN signed /\ signed[Min(K)].name = calls[Min(K)].name
         /\ signed[Min(K)].id \in {<<>>, <<id>>}
    BY <2>7, <2>9
  <2>11. G!Min(K) = Min(K) /\ G!Min(at) = Min(at)
    BY SameBounds
  <2> HIDE DEF calls, K, j, at, makers, id
  <2> QED
    BY <1>2, <1>6, <2>10, <2>11 DEF G!FoundCall, calls, K, j, at, makers, id
<1> QED
  BY <1>5, <1>6

\* So a request can be made of a conversation whose results are all behind their calls.
LEMMA GoogleAccepts ==
    ASSUME NEW messages, NEW c, NEW tools,
           IsSequence(messages), Faithful(c), AllNamed(c), c.protocol = "GenerateContent",
           \A n \in DOMAIN c.checkpoints :
               messages[c.checkpoints[n].index] = c.checkpoints[n].assistant,
           \A i \in Has(messages, "tool") :
              \E j \in Has(messages, "assistant") : j < i /\ Asks(messages[j], messages[i].call),
           \E i \in DOMAIN messages : messages[i].role # "system"
    PROVE  G!Request(messages, c.checkpoints, tools) # {}
<1>1. \A i \in G!Has(messages, "tool") : G!FoundCall(messages, i, c.checkpoints) # {}
  BY GoogleFinds, SameMessages
<1> QED
  BY <1>1 DEF G!Request

-----------------------------------------------------------------------------
(* A conversation grows.                                                   *)

\* Its positions and what is there.
LEMMA Grown ==
    ASSUME NEW messages, NEW told, NEW e, Sound(messages, told)
    PROVE  LET more == Append(messages, e)
               N == Len(messages)
           IN  /\ N \in Nat /\ DOMAIN messages = 1 .. N
               /\ IsSequence(more) /\ Len(more) = N + 1 /\ DOMAIN more = 1 .. N + 1
               /\ more[N + 1] = e /\ \A i \in 1 .. N : more[i] = messages[i]
<1>1. IsSequence(messages)
  BY DEF Sound
<1>2. Len(messages) \in Nat /\ DOMAIN messages = 1 .. Len(messages)
  BY <1>1, ListDomain
<1> QED
  BY <1>1, <1>2, ListAppend

\* What is known of what a service sent grows with it.
LEMMA ToldMore ==
    ASSUME NEW messages, NEW told, NEW x, Sound(messages, told)
    PROVE  LET more == Append(told, x)
               N == Len(messages)
           IN  /\ IsSequence(more) /\ Len(more) = N + 1 /\ DOMAIN more = 1 .. N + 1
               /\ more[N + 1] = x /\ \A i \in 1 .. N : more[i] = told[i]
<1>1. IsSequence(told) /\ Len(told) = Len(messages)
  BY DEF Sound
<1> QED
  BY <1>1, ListAppend

\* A result stays behind its call, whatever comes next that is no result.
LEMMA GroupedGrows ==
    ASSUME NEW messages, NEW told, NEW e, Sound(messages, told),
           e.role = "tool" =>
               \E j \in Has(messages, "assistant") :
                  /\ Asks(messages[j], e.call)
                  /\ \A n \in j + 1 .. Len(messages) : messages[n].role = "tool"
    PROVE  Grouped(Append(messages, e))
<1> DEFINE more == Append(messages, e)
           N == Len(messages)
<1>1. /\ N \in Nat /\ DOMAIN messages = 1 .. N /\ DOMAIN more = 1 .. N + 1
      /\ more[N + 1] = e /\ \A i \in 1 .. N : more[i] = messages[i]
  BY Grown
<1>2. Grouped(messages)
  BY DEF Sound
<1> HIDE DEF more, N
<1>3. SUFFICES ASSUME NEW i \in Has(more, "tool")
               PROVE  \E j \in Has(more, "assistant") :
                         /\ j < i /\ Asks(more[j], more[i].call)
                         /\ \A n \in j + 1 .. i : more[n].role = "tool"
  BY DEF Grouped, more
<1>4. CASE i = N + 1
  <2>1. PICK j \in Has(messages, "assistant") :
               /\ Asks(messages[j], e.call)
               /\ \A n \in j + 1 .. N : messages[n].role = "tool"
    BY <1>1, <1>3, <1>4 DEF Has, N
  <2>2. j \in 1 .. N /\ j \in Has(more, "assistant") /\ more[j] = messages[j]
    BY <1>1 DEF Has
  <2>3. ASSUME NEW n \in j + 1 .. i PROVE more[n].role = "tool"
    BY <1>1, <1>3, <1>4, <2>1, <2>2, <2>3 DEF Has
  <2> QED
    BY <1>1, <1>4, <2>1, <2>2, <2>3
<1>5. CASE i # N + 1
  <2>1. i \in 1 .. N /\ i \in Has(messages, "tool")
    BY <1>1, <1>3, <1>5 DEF Has
  <2>2. PICK j \in Has(messages, "assistant") :
               /\ j < i /\ Asks(messages[j], messages[i].call)
               /\ \A n \in j + 1 .. i : messages[n].role = "tool"
    BY <1>2, <2>1 DEF Grouped
  <2>3. j \in 1 .. N /\ j \in Has(more, "assistant") /\ more[j] = messages[j] /\ more[i] = messages[i]
    BY <1>1, <2>1 DEF Has
  <2>4. \A n \in j + 1 .. i : more[n].role = "tool"
    BY <1>1, <2>1, <2>2, <2>3
  <2> QED
    BY <2>2, <2>3, <2>4
<1> QED
  BY <1>4, <1>5

\* as does that no two of them together answer one call.
LEMMA OnceGrows ==
    ASSUME NEW messages, NEW told, NEW e, Sound(messages, told),
           e.role = "tool" =>
              \A i \in Has(messages, "tool") : messages[i].call = e.call =>
                  \E n \in i .. Len(messages) : messages[n].role # "tool"
    PROVE  AnsweredOnce(Append(messages, e))
<1> DEFINE more == Append(messages, e)
           N == Len(messages)
<1>1. /\ N \in Nat /\ DOMAIN messages = 1 .. N /\ DOMAIN more = 1 .. N + 1
      /\ more[N + 1] = e /\ \A i \in 1 .. N : more[i] = messages[i]
  BY Grown
<1>2. AnsweredOnce(messages)
  BY DEF Sound
<1>3. e.role = "tool" =>
         \A i \in Has(messages, "tool") : messages[i].call = e.call =>
            \E n \in i .. N : messages[n].role # "tool"
  OBVIOUS
<1> HIDE DEF more, N
<1>4. ASSUME NEW i \in Has(more, "tool"), NEW j \in Has(more, "tool"),
             i < j, more[i].call = more[j].call
      PROVE  \E n \in i .. j : more[n].role # "tool"
  <2>1. i \in 1 .. N /\ i \in Has(messages, "tool") /\ more[i] = messages[i] /\ j \in 1 .. N + 1
    BY <1>1, <1>4 DEF Has
  <2>2. CASE j = N + 1
    <3>1. e.role = "tool" /\ messages[i].call = e.call
      BY <1>1, <1>4, <2>1, <2>2 DEF Has
    <3>2. PICK n \in i .. N : messages[n].role # "tool"
      BY <1>3, <2>1, <3>1
    <3>3. n \in 1 .. N /\ n \in i .. j
      BY <1>1, <2>1, <2>2
    <3> QED
      BY <1>1, <3>2, <3>3
  <2>3. CASE j # N + 1
    <3>1. j \in 1 .. N /\ j \in Has(messages, "tool") /\ more[j] = messages[j]
      BY <1>1, <1>4, <2>1, <2>3 DEF Has
    <3>2. PICK n \in i .. j : messages[n].role # "tool"
      BY <1>2, <1>4, <2>1, <3>1 DEF AnsweredOnce
    <3>3. n \in 1 .. N
      BY <1>1, <2>1, <3>1
    <3> QED
      BY <1>1, <3>2, <3>3
  <2> QED
    BY <2>2, <2>3
<1> QED
  BY <1>4 DEF AnsweredOnce, more

\* An answer is said,
LEMMA SoundAnswer ==
    ASSUME NEW messages, NEW told, NEW e, NEW x, Sound(messages, told),
           Formed(e), e.role = "assistant"
    PROVE  Sound(Append(messages, e), Append(told, x))
<1> DEFINE more == Append(messages, e)
           N == Len(messages)
<1>1. /\ N \in Nat /\ DOMAIN messages = 1 .. N
      /\ IsSequence(more) /\ Len(more) = N + 1 /\ DOMAIN more = 1 .. N + 1
      /\ more[N + 1] = e /\ \A i \in 1 .. N : more[i] = messages[i]
  BY Grown
<1>7. IsSequence(Append(told, x)) /\ Len(Append(told, x)) = N + 1
  BY ToldMore
<1>2. Grouped(more)
  BY GroupedGrows
<1>8. AnsweredOnce(more)
  BY OnceGrows
<1>3. \A i \in DOMAIN messages : Formed(messages[i])
  BY DEF Sound
<1> HIDE DEF more, N
<1>4. \A i \in DOMAIN more : Formed(more[i])
  BY <1>1, <1>3
<1>5. ASSUME NEW i \in DOMAIN more, LastAnswer(more, i) PROVE ~Interrupted(more, i)
  <2>1. N + 1 \in Has(more, "assistant")
    BY <1>1 DEF Has
  <2>2. N + 1 <= i
    BY <1>5, <2>1 DEF LastAnswer
  <2>3. i + 1 .. Len(more) = {}
    BY <1>1, <2>2
  <2> QED
    BY <2>3 DEF Interrupted
<1>6. Awaited(more)
  BY <1>5 DEF Awaited
<1> QED
  BY <1>1, <1>2, <1>4, <1>6, <1>7, <1>8 DEF Sound, more

\* the user speaks when all calls are answered,
LEMMA SoundUser ==
    ASSUME NEW messages, NEW told, NEW e, NEW x, Sound(messages, told),
           Formed(e), e.role = "user",
           \A i \in DOMAIN messages : LastAnswer(messages, i) => Settled(messages, i)
    PROVE  Sound(Append(messages, e), Append(told, x))
<1> DEFINE more == Append(messages, e)
           N == Len(messages)
<1>1. /\ N \in Nat /\ DOMAIN messages = 1 .. N
      /\ IsSequence(more) /\ Len(more) = N + 1 /\ DOMAIN more = 1 .. N + 1
      /\ more[N + 1] = e /\ \A i \in 1 .. N : more[i] = messages[i]
  BY Grown
<1>7. IsSequence(Append(told, x)) /\ Len(Append(told, x)) = N + 1
  BY ToldMore
<1>2. Grouped(more)
  BY GroupedGrows
<1>8. AnsweredOnce(more)
  BY OnceGrows
<1>3. \A i \in DOMAIN messages : Formed(messages[i])
  BY DEF Sound
<1>0. N = Len(messages)
  OBVIOUS
<1> HIDE DEF more, N
<1>4. \A i \in DOMAIN more : Formed(more[i])
  BY <1>1, <1>3
<1>5. ASSUME NEW i \in DOMAIN more, LastAnswer(more, i) PROVE Settled(more, i)
  <2>1. i \in 1 .. N
    BY <1>1, <1>5 DEF LastAnswer, Has
  <2>2. LastAnswer(messages, i)
    BY <1>1, <1>5, <2>1 DEF LastAnswer, Has
  <2>3. Settled(messages, i)
    BY <1>1, <2>1, <2>2
  <2> QED
    BY <1>0, <1>1, <2>1, <2>3 DEF Settled
<1>6. Awaited(more)
  BY <1>5 DEF Awaited
<1> QED
  BY <1>1, <1>2, <1>4, <1>6, <1>7, <1>8 DEF Sound, more

\* and a tool answers a call of the last answer, behind other results.
LEMMA SoundResult ==
    ASSUME NEW messages, NEW told, NEW e, NEW x, Sound(messages, told),
           Formed(e), e.role = "tool",
           NEW j \in DOMAIN messages, LastAnswer(messages, j), Asks(messages[j], e.call),
           ~Interrupted(messages, j), \A n \in j + 1 .. Len(messages) : messages[n].call # e.call
    PROVE  Sound(Append(messages, e), Append(told, x))
<1> DEFINE more == Append(messages, e)
           N == Len(messages)
<1>1. /\ N \in Nat /\ DOMAIN messages = 1 .. N
      /\ IsSequence(more) /\ Len(more) = N + 1 /\ DOMAIN more = 1 .. N + 1
      /\ more[N + 1] = e /\ \A i \in 1 .. N : more[i] = messages[i]
  BY Grown
<1>7. IsSequence(Append(told, x)) /\ Len(Append(told, x)) = N + 1
  BY ToldMore
<1>2. Grouped(more)
  <2>1. j \in Has(messages, "assistant") /\ \A n \in j + 1 .. Len(messages) : messages[n].role = "tool"
    BY DEF LastAnswer, Interrupted
  <2> QED
    BY <2>1, GroupedGrows
<1>8. AnsweredOnce(more)
  <2>1. j \in 1 .. N /\ messages[j].role = "assistant"
    BY <1>1 DEF LastAnswer, Has
  <2>2. ASSUME NEW i \in Has(messages, "tool"), messages[i].call = e.call
        PROVE  \E n \in i .. N : messages[n].role # "tool"
    <3>1. i \in 1 .. N /\ i # j
      BY <1>1, <2>1, <2>2 DEF Has
    <3>2. i < j
      BY <1>1, <2>1, <2>2, <3>1
    <3>3. j \in i .. N
      BY <1>1, <2>1, <3>1, <3>2
    <3> QED
      BY <2>1, <3>3
  <2>3. e.role = "tool" =>
           \A i \in Has(messages, "tool") : messages[i].call = e.call =>
              \E n \in i .. Len(messages) : messages[n].role # "tool"
    BY <2>2
  <2> QED
    BY ONLY <2>3, OnceGrows, Sound(messages, told)
<1>3. \A i \in DOMAIN messages : Formed(messages[i])
  BY DEF Sound
<1>0. N = Len(messages)
  OBVIOUS
<1> HIDE DEF more, N
<1>4. \A i \in DOMAIN more : Formed(more[i])
  BY <1>1, <1>3
<1>5. ASSUME NEW i \in DOMAIN more, LastAnswer(more, i) PROVE ~Interrupted(more, i)
  <2>1. i \in 1 .. N /\ LastAnswer(messages, i)
    BY <1>1, <1>5 DEF LastAnswer, Has
  <2>2. i = j
    BY <1>1, <2>1 DEF LastAnswer, Has
  <2> QED
    BY <1>0, <1>1, <2>1, <2>2 DEF Interrupted
<1>6. Awaited(more)
  BY <1>5 DEF Awaited
<1> QED
  BY <1>1, <1>2, <1>4, <1>6, <1>7, <1>8 DEF Sound, more

\* What is awaited are the calls of the last answer.
LEMMA PendingCalls ==
    ASSUME Sound(conversation, contents)
    PROVE  /\ Pending = {} => \A i \in DOMAIN conversation :
                                 LastAnswer(conversation, i) => Settled(conversation, i)
           /\ \A call \in Pending : \E i \in DOMAIN conversation :
                 /\ LastAnswer(conversation, i) /\ Asks(conversation[i], call.id)
                 /\ ~Interrupted(conversation, i)
                 /\ \A n \in i + 1 .. Len(conversation) : conversation[n].call # call.id
<1> DEFINE said == Has(conversation, "assistant")
           T == {0} \cup said
           i == Max(T)
           N == Len(conversation)
           Answered(call) == \E j \in i + 1 .. N :
                                conversation[j].role = "tool" /\ conversation[j].call = call.id
<1>1. N \in Nat /\ DOMAIN conversation = 1 .. N
  BY ListDomain DEF Sound
<1>2. i \in T /\ \A y \in T : y <= i
  <2>1. \A y \in T : y \in 0 .. N
    BY <1>1 DEF Has
  <2> DEFINE U == {N - y : y \in T}
  <2>2. U \in SUBSET Nat /\ U # {}
    BY <1>1, <2>1
  <2>3. PICK u \in U : \A v \in U : u <= v
    BY <2>2, LeastNatural
  <2>4. PICK x \in T : u = N - x
    BY <2>3
  <2>5. ASSUME NEW y \in T PROVE y <= x
    <3>1. N - y \in U
      OBVIOUS
    <3>2. N - x <= N - y /\ x \in 0 .. N /\ y \in 0 .. N
      BY <2>1, <2>3, <2>4, <3>1
    <3> QED
      BY <1>1, <3>2
  <2> HIDE DEF T
  <2> QED
    BY <2>4, <2>5 DEF Max
<1>3. Pending = IF i = 0 THEN {}
                ELSE {call \in ToSet(conversation[i].calls) : ~Answered(call)}
  BY DEF Pending
<1>4. \A y \in DOMAIN conversation : LastAnswer(conversation, y) <=> (y = i /\ i # 0)
  BY <1>1, <1>2 DEF LastAnswer, Has
<1>5. ASSUME Pending = {}, NEW y \in DOMAIN conversation, LastAnswer(conversation, y)
      PROVE  Settled(conversation, y)
  <2>1. y = i /\ i # 0
    BY <1>4, <1>5
  <2>2. \A call \in ToSet(conversation[i].calls) : Answered(call)
    BY <1>3, <1>5, <2>1
  <2>3. \A k \in DOMAIN conversation[i].calls :
           conversation[i].calls[k] \in ToSet(conversation[i].calls)
    BY DEF ToSet
  <2> QED
    BY <2>1, <2>2, <2>3 DEF Settled
<1>6. ASSUME NEW call \in Pending
      PROVE  \E y \in DOMAIN conversation :
                 /\ LastAnswer(conversation, y) /\ Asks(conversation[y], call.id)
                 /\ ~Interrupted(conversation, y)
                 /\ \A n \in y + 1 .. Len(conversation) : conversation[n].call # call.id
  <2>1. i # 0 /\ call \in ToSet(conversation[i].calls) /\ ~Answered(call)
    BY <1>3, <1>6
  <2>2. i \in DOMAIN conversation /\ LastAnswer(conversation, i)
    BY <1>1, <1>2, <1>4, <2>1 DEF Has
  <2>3. PICK k \in DOMAIN conversation[i].calls : conversation[i].calls[k] = call
    BY <2>1 DEF ToSet
  <2>4. Asks(conversation[i], call.id) /\ ~Settled(conversation, i)
    BY <2>1, <2>3 DEF Asks, Settled
  <2>5. ~Interrupted(conversation, i)
    BY <2>2, <2>4 DEF Sound, Awaited
  <2>6. \A n \in i + 1 .. N : conversation[n].call # call.id
    BY <2>1, <2>5 DEF Interrupted
  <2> QED
    BY <2>2, <2>4, <2>5, <2>6
<1> QED
  BY <1>5, <1>6

-----------------------------------------------------------------------------
(* When a request is made.                                                 *)

\* That the checkpoints are those of a conversation, as every adapter asks that has any,
Bound(messages, checkpoints, id) ==
    \A n \in DOMAIN checkpoints :
        /\ checkpoints[n].model = id
        /\ n > 1 => checkpoints[n - 1].index < checkpoints[n].index
        /\ checkpoints[n].index \in DOMAIN messages
        /\ messages[checkpoints[n].index] = checkpoints[n].assistant

\* and what else it takes for a request.
Accepted(m, messages, c, tools) ==
    /\ c.protocol = m.protocol
    /\ c.protocol # "ChatCompletions" => Bound(messages, c.checkpoints, m.id)
    /\ c.protocol = "Responses" =>
          \A n \in DOMAIN c.checkpoints : Len(c.checkpoints[n].output) \in 1 .. MaxItems
    /\ c.protocol = "GenerateContent" => G!Request(messages, c.checkpoints, tools) # {}

\* Only these things.
LEMMA AcceptedRequests ==
    ASSUME model \in Models, NEW messages, NEW c, NEW tools
    PROVE  Requests(messages, c, tools) # {} <=> Accepted(model, messages, c, tools)
<1>1. model.protocol \in Protocols
  BY ModelsAssumption
<1>2. /\ A!Valid(messages, c.checkpoints, model) <=> Bound(messages, c.checkpoints, model.id)
      /\ G!Valid(messages, c.checkpoints, model) <=> Bound(messages, c.checkpoints, model.id)
  BY DEF A!Valid, G!Valid, Bound
<1>3. R!Valid(messages, c.checkpoints, model) <=>
         /\ Bound(messages, c.checkpoints, model.id)
         /\ \A n \in DOMAIN c.checkpoints : Len(c.checkpoints[n].output) \in 1 .. MaxItems
  BY DEF R!Valid, R!Provenance, R!Output!Bounded, Bound
<1>4. CASE Protocol = "Messages"
  BY <1>2, <1>4 DEF Requests, Valid, Route, Accepted, Protocol
<1>5. CASE Protocol = "ChatCompletions"
  BY <1>5 DEF Requests, Valid, Route, Accepted, Protocol
<1>6. CASE Protocol = "GenerateContent"
  BY <1>2, <1>6 DEF Requests, Valid, Route, Accepted, Protocol
<1>7. CASE Protocol = "Responses"
  BY <1>3, <1>7 DEF Requests, Valid, Route, Accepted, Protocol
<1> QED
  BY <1>1, <1>4, <1>5, <1>6, <1>7 DEF Protocols, Protocol

\* What the next request is made of.
Acceptable(m, compacting, a, tools) ==
    LET calls == Last(a.conversation).calls
        results == [k \in DOMAIN calls |-> Result(calls[k].id, "success", <<>>)]
    IN  Accepted(m, a.conversation \o (IF compacting THEN <<>> ELSE results),
                 a.continuation, tools)

\* So it is accepted.
NextIsAcceptable ==
    model \in Models =>
        (NextRequestAccepted <=>
            (Answerable /\ pc = "completed" /\ Replayable =>
                Acceptable(model, Compacting, answer, Specs)))
LEMMA AcceptableNow == NextIsAcceptable
BY AcceptedRequests DEF NextIsAcceptable, NextRequestAccepted, EveryAnswerContinues, Acceptable
LEMMA AcceptableNext == NextIsAcceptable'
BY AcceptableNow, PTL

-----------------------------------------------------------------------------
(* A continuation grows with the conversation.                             *)

\* What is recorded of an answer.
Record(protocol, id, index, message, content) ==
    IF protocol = "Responses"
    THEN [model |-> id, index |-> index, assistant |-> message, output |-> content]
    ELSE [model |-> id, index |-> index, assistant |-> message, content |-> content]

\* It is added to what was.
Recording(c, id, index, message, content, new, next) ==
    /\ Faithful(c) /\ index \in Nat /\ new = Record(c.protocol, id, index, message, content)
    /\ next = [protocol |-> c.protocol, checkpoints |-> Append(c.checkpoints, new)]
    /\ message.role = "assistant" /\ IsSequence(content)
    /\ \A b \in DOMAIN content : MadeBy(content[b]) \subseteq {id}
    /\ c.protocol = "GenerateContent" => SameCalls(new)
LEMMA FaithfulGrows ==
    ASSUME NEW c, NEW id, NEW index, NEW message, NEW content, NEW new, NEW next,
           Recording(c, id, index, message, content, new, next)
    PROVE  /\ Faithful(next) /\ next.protocol = c.protocol
           /\ next.checkpoints = Append(c.checkpoints, new)
           /\ \A n \in DOMAIN c.checkpoints : Content(next, n) = Content(c, n)
           /\ Content(next, Len(c.checkpoints) + 1) = content
<1> USE DEF Recording
<1> DEFINE old == c.checkpoints
           more == next.checkpoints
           N == Len(old)
<1>1. /\ c = [protocol |-> c.protocol, checkpoints |-> old] /\ c.protocol \in Protocols
      /\ IsSequence(old)
  BY DEF Faithful
<1>2. /\ next = [protocol |-> c.protocol, checkpoints |-> Append(old, new)]
      /\ next.protocol = c.protocol /\ more = Append(old, new)
  BY <1>1
<1>3. /\ N \in Nat /\ DOMAIN old = 1 .. N
      /\ IsSequence(more) /\ DOMAIN more = 1 .. N + 1
      /\ more[N + 1] = new /\ \A n \in 1 .. N : more[n] = old[n]
  BY <1>1, <1>2, ListDomain, ListAppend
<1> HIDE DEF more, N
<1>4. ASSUME NEW n \in DOMAIN old
      PROVE  Content(next, n) = Content(c, n) /\ Recorded(next, n) = Recorded(c, n)
  BY <1>2, <1>3 DEF Content, Recorded, more
<1>5. /\ Content(next, N + 1) = content /\ Recorded(next, N + 1) = new
      /\ new.model = id /\ new.index = index /\ new.assistant = message
  BY <1>2, <1>3 DEF Content, Recorded, Record, more
<1>6. ASSUME NEW n \in DOMAIN more
      PROVE  /\ more[n] = Recorded(next, n) /\ more[n].index \in Nat
             /\ more[n].assistant.role = "assistant" /\ IsSequence(Content(next, n))
             /\ \A b \in DOMAIN Content(next, n) :
                   MadeBy(Content(next, n)[b]) \subseteq {more[n].model}
             /\ next.protocol = "GenerateContent" => SameCalls(more[n])
  <2>1. CASE n = N + 1
    BY <1>2, <1>3, <1>5, <2>1
  <2>2. CASE n # N + 1
    <3>1. n \in DOMAIN old /\ more[n] = old[n]
      BY <1>3, <2>2
    <3> QED
      BY <1>2, <1>4, <3>1 DEF Faithful
  <2> QED
    BY <2>1, <2>2
<1>7. Faithful(next)
  BY <1>1, <1>2, <1>3, <1>6 DEF Faithful, more
<1> QED
  BY <1>2, <1>4, <1>5, <1>7 DEF more, N

\* It is bound to the answer in the conversation, and so is the rest.
Extending(sent, checkpoints, id, messages, more, new) ==
    /\ Bound(sent, checkpoints, id) /\ IsSequence(checkpoints) /\ IsSequence(messages)
    /\ DOMAIN sent = DOMAIN messages
    /\ \A n \in DOMAIN checkpoints :
          messages[checkpoints[n].index] = checkpoints[n].assistant
    /\ DOMAIN messages \subseteq DOMAIN more /\ Len(messages) + 1 \in DOMAIN more
    /\ \A i \in DOMAIN messages : more[i] = messages[i]
    /\ new.model = id /\ new.index = Len(messages) + 1
    /\ more[Len(messages) + 1] = new.assistant
LEMMA BoundGrows ==
    ASSUME NEW sent, NEW checkpoints, NEW id, NEW messages, NEW more, NEW new,
           Extending(sent, checkpoints, id, messages, more, new)
    PROVE  Bound(more, Append(checkpoints, new), id)
<1> USE DEF Extending
<1> DEFINE all == Append(checkpoints, new)
           N == Len(checkpoints)
           L == Len(messages)
<1>1. /\ N \in Nat /\ DOMAIN checkpoints = 1 .. N /\ DOMAIN all = 1 .. N + 1
      /\ all[N + 1] = new /\ \A n \in 1 .. N : all[n] = checkpoints[n]
  BY ListDomain, ListAppend
<1>2. L \in Nat /\ DOMAIN messages = 1 .. L
  BY ListDomain
<1>3. L + 1 \in DOMAIN more /\ new.index = L + 1 /\ more[L + 1] = new.assistant
  OBVIOUS
<1> HIDE DEF all, N, L
<1>4. ASSUME NEW n \in DOMAIN all
      PROVE  /\ all[n].model = id
             /\ n > 1 => all[n - 1].index < all[n].index
             /\ all[n].index \in DOMAIN more
             /\ more[all[n].index] = all[n].assistant
  <2>1. CASE n = N + 1
    <3>1. n > 1 => all[n - 1] = checkpoints[N] /\ N \in 1 .. N
      BY <1>1, <2>1
    <3>2. n > 1 => checkpoints[N].index \in 1 .. L
      BY <1>1, <1>2, <3>1 DEF Bound
    <3> QED
      BY <1>1, <1>2, <1>3, <2>1, <3>1, <3>2
  <2>2. CASE n # N + 1
    <3>1. n \in 1 .. N /\ all[n] = checkpoints[n]
      BY <1>1, <2>2
    <3>2. n > 1 => n - 1 \in 1 .. N /\ all[n - 1] = checkpoints[n - 1]
      BY <1>1, <3>1
    <3>3. /\ checkpoints[n].model = id
          /\ n > 1 => checkpoints[n - 1].index < checkpoints[n].index
          /\ checkpoints[n].index \in DOMAIN messages
      BY <1>1, <3>1 DEF Bound
    <3>4. more[checkpoints[n].index] = checkpoints[n].assistant
      BY <1>1, <3>1, <3>3
    <3> QED
      BY <3>1, <3>2, <3>3, <3>4
  <2> QED
    BY <2>1, <2>2
<1> QED
  BY <1>4 DEF Bound, all

\* Without its images a conversation is the same, answers above all.
LEMMA SameSent ==
    ASSUME NEW told, Sound(conversation, told)
    PROVE  /\ DOMAIN Sent = DOMAIN conversation /\ IsSequence(Sent)
           /\ \A i \in DOMAIN conversation :
                 /\ Sent[i].role = conversation[i].role
                 /\ conversation[i].role = "assistant" => Sent[i] = conversation[i]
                 /\ conversation[i].role = "tool" => Sent[i].call = conversation[i].call
<1>1. IsSequence(conversation) /\ \A i \in DOMAIN conversation : Formed(conversation[i])
  BY DEF Sound
<1>2. DOMAIN conversation = 1 .. Len(conversation) /\ Len(conversation) \in Nat
  BY <1>1, ListDomain
<1>3. CASE ~model.vision
  <2>1. Sent = [i \in DOMAIN conversation |->
                  IF conversation[i].role \in {"user", "tool"}
                  THEN [conversation[i] EXCEPT !.images = <<>>] ELSE conversation[i]]
    BY <1>3 DEF Sent, WithoutImages
  <2>2. IsSequence(Sent)
    <3>1. Sent = [i \in 1 .. Len(conversation) |-> Sent[i]] /\ DOMAIN Sent = 1 .. Len(conversation)
      BY <1>2, <2>1
    <3> QED
      BY <1>2, <3>1, ListMade
  <2>3. ASSUME NEW i \in DOMAIN conversation
        PROVE  /\ Sent[i].role = conversation[i].role
               /\ conversation[i].role = "assistant" => Sent[i] = conversation[i]
               /\ conversation[i].role = "tool" => Sent[i].call = conversation[i].call
    <3>1. Formed(conversation[i])
      BY <1>1
    <3>2. CASE conversation[i].role = "assistant"
      BY <2>1, <3>2
    <3>3. CASE conversation[i].role = "user"
      <4>1. conversation[i] = [role |-> "user", content |-> conversation[i].content,
                               images |-> conversation[i].images,
                               documents |-> conversation[i].documents]
        BY <3>1, <3>3 DEF Formed, User
      <4> QED
        BY <2>1, <3>3, <4>1
    <3>4. CASE conversation[i].role = "tool"
      <4>1. conversation[i] = [role |-> "tool", call |-> conversation[i].call,
                               outcome |-> conversation[i].outcome,
                               images |-> conversation[i].images]
        BY <3>1, <3>4 DEF Formed, Result
      <4> QED
        BY <2>1, <3>4, <4>1
    <3> QED
      BY <3>1, <3>2, <3>3, <3>4 DEF Formed
  <2> QED
    BY <2>1, <2>2, <2>3
<1>4. CASE model.vision
  BY <1>1, <1>4 DEF Sent
<1> QED
  BY <1>3, <1>4

-----------------------------------------------------------------------------
(* An answer is completed.                                                 *)

\* What an adapter finds in a response.
Found(f) ==
    /\ Formed(f.message) /\ f.message.role = "assistant"
    /\ Protocol # "ChatCompletions" =>
          /\ IsSequence(f.content) /\ IsSequence(f.message.calls)
          /\ \A b \in DOMAIN f.content : MadeBy(f.content[b]) \subseteq {model.id}
    /\ Protocol = "GenerateContent" =>
          /\ f.message = G!Parsed(f.content, Here)
          /\ \A b \in DOMAIN f.content : PartOwn(f.content[b])
    /\ Protocol = "Responses" => f.content # <<>>

\* What it gives to its caller.
Completion(f) ==
    [conversation |-> Append(conversation, f.message),
     continuation |->
         IF Protocol = "ChatCompletions" THEN continuation
         ELSE [continuation EXCEPT !.checkpoints =
                  Append(@, Record(Protocol, model.id, Here, f.message, f.content))],
     contents |-> Append(contents, IF Protocol = "ChatCompletions" THEN <<>> ELSE <<f.content>>)]

LEMMA CompletesWith ==
    ASSUME NEW f, Completes(f), model \in Models
    PROVE  answer' = Completion(f)
<1>1. model.protocol \in Protocols
  BY ModelsAssumption
<1>2. /\ A!Checkpoint(model, conversation, f) = Record("Messages", model.id, Here, f.message, f.content)
      /\ G!Checkpoint(model, conversation, f) =
            Record("GenerateContent", model.id, Here, f.message, f.content)
      /\ R!Checkpoint(model, conversation, f) = Record("Responses", model.id, Here, f.message, f.content)
  BY DEF A!Checkpoint, G!Checkpoint, R!Checkpoint, Record, Here
<1>3. CASE Protocol = "Messages"
  BY <1>2, <1>3 DEF Completes, Completion, Route, Opaque
<1>4. CASE Protocol = "ChatCompletions"
  BY <1>4 DEF Completes, Completion, Route, Opaque
<1>5. CASE Protocol = "GenerateContent"
  BY <1>2, <1>5 DEF Completes, Completion, Route, Opaque
<1>6. CASE Protocol = "Responses"
  BY <1>2, <1>6 DEF Completes, Completion, Route, Opaque
<1> QED
  BY <1>1, <1>3, <1>4, <1>5, <1>6 DEF Protocols, Protocol

\* The continuation that comes with it is faithful, and has what was received.
LEMMA CompletionFaithful ==
    ASSUME NEW f, HostInvariant, Found(f), continuation.protocol = Protocol
    PROVE  LET a == Completion(f)
           IN  /\ Faithful(a.continuation) /\ Traced(a.contents, a.continuation)
               /\ a.continuation.protocol = Protocol
<1> DEFINE N == Len(conversation)
           new == Record(Protocol, model.id, Here, f.message, f.content)
           next == [continuation EXCEPT !.checkpoints = Append(@, new)]
           old == continuation.checkpoints
           x == IF Protocol = "ChatCompletions" THEN <<>> ELSE <<f.content>>
           told == Append(contents, x)
<1>1. /\ Sound(conversation, contents) /\ Faithful(continuation)
      /\ Traced(contents, continuation)
  BY DEF HostInvariant
<1>2. /\ N \in Nat /\ DOMAIN contents = 1 .. N
      /\ IsSequence(told) /\ Len(told) = N + 1 /\ DOMAIN told = 1 .. N + 1
      /\ told[N + 1] = x /\ \A i \in 1 .. N : told[i] = contents[i]
  <2>1. N \in Nat /\ DOMAIN contents = 1 .. N
    BY <1>1, ListDomain DEF Sound
  <2> QED
    BY <1>1, <2>1, ToldMore
<1>3. Here = N + 1
  BY DEF Here
<1> HIDE DEF N, told
<1>4. CASE Protocol = "ChatCompletions"
  <2>1. x = <<>>
    BY <1>4
  <2>2. \A i \in DOMAIN told : told[i] # <<>> => i \in DOMAIN contents /\ told[i] = contents[i]
    BY <1>2, <2>1
  <2>3. Traced(told, continuation)
    BY <1>1, <2>2 DEF Traced
  <2> QED
    BY <1>1, <1>4, <2>3 DEF Completion, told
<1>5. CASE Protocol # "ChatCompletions"
  <2>1. x = <<f.content>>
    BY <1>5
  <2>2. Protocol = "GenerateContent" => SameCalls(new)
    <3>1. SUFFICES ASSUME Protocol = "GenerateContent" PROVE SameCalls(new)
      OBVIOUS
    <3>2. new.content = f.content /\ new.assistant = f.message
      BY <3>1 DEF Record
    <3>3. /\ IsSequence(f.content) /\ f.message = G!Parsed(f.content, Here)
          /\ \A b \in DOMAIN f.content : PartOwn(f.content[b])
      BY <3>1 DEF Found
    <3> HIDE DEF new
    <3> QED
      BY <3>2, <3>3, GoogleSameCalls
  <2>3. /\ Here \in Nat /\ f.message.role = "assistant" /\ IsSequence(f.content)
        /\ \A b \in DOMAIN f.content : MadeBy(f.content[b]) \subseteq {model.id}
    <3>1. Here \in Nat
      BY <1>2, <1>3
    <3>2. /\ f.message.role = "assistant" /\ IsSequence(f.content)
          /\ \A b \in DOMAIN f.content : MadeBy(f.content[b]) \subseteq {model.id}
      BY ONLY Found(f), <1>5 DEF Found
    <3> QED
      BY <3>1, <3>2
  <2>4. /\ Faithful(next) /\ next.protocol = Protocol
        /\ next.checkpoints = Append(old, new)
        /\ \A n \in DOMAIN old : Content(next, n) = Content(continuation, n)
        /\ Content(next, Len(old) + 1) = f.content
    <3>1. new = Record(continuation.protocol, model.id, Here, f.message, f.content)
      OBVIOUS
    <3>2. next = [continuation EXCEPT !.checkpoints = Append(@, new)]
      OBVIOUS
    <3>3. Protocol = continuation.protocol
      OBVIOUS
    <3> HIDE DEF new, next
    <3>4. /\ Faithful(next) /\ next.protocol = continuation.protocol
          /\ next.checkpoints = Append(continuation.checkpoints, new)
          /\ \A n \in DOMAIN continuation.checkpoints :
                Content(next, n) = Content(continuation, n)
          /\ Content(next, Len(continuation.checkpoints) + 1) = f.content
      <4>1. Recording(continuation, model.id, Here, f.message, f.content, new, next)
        BY ONLY <1>1, <2>2, <2>3, <3>1, <3>2, <3>3 DEF Recording, Faithful
      <4> QED
        BY ONLY <4>1, FaithfulGrows
    <3> QED
      BY <3>3, <3>4
  <2>5. new.index = Here
    BY DEF Record
  <2>6. Append(old, new)[Len(old) + 1] = new /\ Len(old) + 1 \in DOMAIN Append(old, new)
        /\ \A n \in DOMAIN old : n \in DOMAIN Append(old, new) /\ Append(old, new)[n] = old[n]
    <3>1. IsSequence(old)
      BY <1>1 DEF Faithful
    <3>2. DOMAIN old = 1 .. Len(old) /\ Len(old) \in Nat
      BY <3>1, ListDomain
    <3> HIDE DEF new
    <3>3. /\ DOMAIN Append(old, new) = 1 .. Len(old) + 1 /\ Append(old, new)[Len(old) + 1] = new
          /\ \A n \in 1 .. Len(old) : Append(old, new)[n] = old[n]
      BY <3>1, ListAppend
    <3> QED
      BY <3>2, <3>3
  <2> HIDE DEF new, next, x, old
  <2>7. ASSUME NEW i \in DOMAIN told, told[i] # <<>>
        PROVE  \E n \in DOMAIN next.checkpoints :
                  next.checkpoints[n].index = i /\ told[i] = <<Content(next, n)>>
    <3>1. CASE i = N + 1
      BY <1>2, <1>3, <2>1, <2>4, <2>5, <2>6, <3>1
    <3>2. CASE i # N + 1
      <4>1. i \in DOMAIN contents /\ told[i] = contents[i]
        BY <1>2, <3>2
      <4>2. PICK n \in DOMAIN old : old[n].index = i /\ contents[i] = <<Content(continuation, n)>>
        BY <1>1, <2>7, <4>1 DEF Traced, old
      <4> QED
        BY <2>4, <2>6, <4>1, <4>2
    <3> QED
      BY <3>1, <3>2
  <2>8. Traced(told, next)
    BY <2>7 DEF Traced
  <2> QED
    BY <1>5, <2>4, <2>8 DEF Completion, told, next, new, x
<1> QED
  BY <1>4, <1>5

\* A conversation in which the tools answer the calls of the answer.
Answered(messages, message) ==
    Append(messages, message)
      \o [k \in DOMAIN message.calls |-> Result(message.calls[k].id, "success", <<>>)]

\* The tools answer the calls of the answer.
LEMMA Answering ==
    ASSUME NEW messages, NEW told, NEW message, Sound(messages, told), IsSequence(message.calls)
    PROVE  LET N == Len(messages)
               all == Answered(messages, message)
           IN  /\ N \in Nat /\ DOMAIN messages = 1 .. N /\ IsSequence(all)
               /\ 1 .. N + 1 \subseteq DOMAIN all /\ all[N + 1] = message
               /\ \A i \in 1 .. N : all[i] = messages[i]
               /\ \A i \in DOMAIN all : i > N + 1 =>
                     /\ all[i].role = "tool" /\ Asks(message, all[i].call)
<1> DEFINE N == Len(messages)
           calls == message.calls
           results == [k \in DOMAIN calls |-> Result(calls[k].id, "success", <<>>)]
           more == Append(messages, message)
           all == more \o results
           K == Len(calls)
<1>1. /\ N \in Nat /\ DOMAIN messages = 1 .. N
      /\ IsSequence(more) /\ Len(more) = N + 1 /\ DOMAIN more = 1 .. N + 1
      /\ more[N + 1] = message /\ \A i \in 1 .. N : more[i] = messages[i]
  BY Grown
<1>2. K \in Nat /\ DOMAIN calls = 1 .. K
  BY ListDomain
<1>3. IsSequence(results) /\ Len(results) = K /\ DOMAIN results = 1 .. K
  <2>1. DOMAIN results = 1 .. K /\ results = [k \in 1 .. K |-> results[k]]
    BY <1>2
  <2> HIDE DEF results, K
  <2> QED
    BY <1>2, <2>1, ListMade
<1>4. \A k \in 1 .. K : results[k].role = "tool" /\ results[k].call = calls[k].id
  BY <1>2 DEF Result
<1> HIDE DEF N, K, results, more, calls
<1>5. /\ IsSequence(all) /\ DOMAIN all = 1 .. (N + 1) + K
      /\ \A i \in 1 .. N + 1 : all[i] = more[i]
      /\ \A k \in 1 .. K : all[(N + 1) + k] = results[k]
  BY <1>1, <1>3, ListConcat
<1> HIDE DEF all
<1>6. ASSUME NEW i \in DOMAIN all, i > N + 1
      PROVE  all[i].role = "tool" /\ Asks(message, all[i].call)
  <2> DEFINE k == i - (N + 1)
  <2>1. k \in 1 .. K /\ i = (N + 1) + k
    BY <1>1, <1>2, <1>5, <1>6
  <2> HIDE DEF k
  <2>2. all[i].role = "tool" /\ all[i].call = calls[k].id
    BY <1>4, <1>5, <2>1
  <2>3. k \in DOMAIN message.calls /\ message.calls[k].id = all[i].call
    BY <1>2, <2>1, <2>2 DEF calls
  <2> QED
    BY <2>2, <2>3 DEF Asks
<1>7. 1 .. N + 1 \subseteq DOMAIN all /\ all[N + 1] = message /\ \A i \in 1 .. N : all[i] = messages[i]
  BY <1>1, <1>2, <1>5
<1> QED
  BY <1>1, <1>5, <1>6, <1>7 DEF N, all, more, results, calls, Answered

\* And the same model takes it all.
LEMMA CompletionAccepted ==
    ASSUME NEW f, HostInvariant, Found(f), Accepted(model, Sent, continuation, Specs),
           Protocol = "Responses" => Len(f.content) <= MaxItems,
           Protocol = "GenerateContent" => AllNamed(Completion(f).continuation)
    PROVE  Acceptable(model, FALSE, Completion(f), Specs)
<1> DEFINE N == Len(conversation)
           new == Record(Protocol, model.id, Here, f.message, f.content)
           a == Completion(f)
           next == a.continuation
           calls == f.message.calls
           all == Answered(conversation, f.message)
           old == continuation.checkpoints
<1>1. /\ Sound(conversation, contents) /\ Faithful(continuation)
      /\ IsSequence(conversation) /\ IsSequence(old)
      /\ N \in Nat /\ DOMAIN conversation = 1 .. N
  <2>1. Sound(conversation, contents) /\ Faithful(continuation)
    BY DEF HostInvariant
  <2> QED
    BY <2>1, ListDomain DEF Sound, Faithful
<1>2. continuation.protocol = Protocol /\ Protocol \in Protocols
  BY <1>1 DEF Accepted, Protocol, Faithful
<1>3. Faithful(next) /\ next.protocol = Protocol
  BY <1>2, CompletionFaithful
<1>4. Last(a.conversation) = f.message
  <2>1. a.conversation = Append(conversation, f.message)
    BY DEF Completion
  <2>2. /\ Len(Append(conversation, f.message)) = N + 1
        /\ Append(conversation, f.message)[N + 1] = f.message
    BY <1>1, Grown
  <2> QED
    BY <2>1, <2>2 DEF Last
<1>5. Acceptable(model, FALSE, a, Specs) <=> Accepted(model, all, next, Specs)
  <2>1. a.conversation = Append(conversation, f.message)
    BY DEF Completion
  <2> HIDE DEF a
  <2> QED
    BY <1>4, <2>1 DEF Acceptable, Answered
<1>6. CASE Protocol = "ChatCompletions"
  BY <1>3, <1>5, <1>6 DEF Accepted, Protocol
<1>7. CASE Protocol # "ChatCompletions"
  <2>1. next.checkpoints = Append(old, new)
    <3>1. continuation = [protocol |-> continuation.protocol, checkpoints |-> old]
      BY <1>1 DEF Faithful
    <3> QED
      BY <1>7, <3>1 DEF Completion
  <2>2. IsSequence(calls)
    BY <1>7 DEF Found
  <2>3. /\ IsSequence(all)
        /\ 1 .. N + 1 \subseteq DOMAIN all /\ all[N + 1] = f.message
        /\ \A i \in 1 .. N : all[i] = conversation[i]
        /\ \A i \in DOMAIN all : i > N + 1 =>
              /\ all[i].role = "tool" /\ Asks(f.message, all[i].call)
    <3>1. Sound(conversation, contents) /\ IsSequence(f.message.calls)
      BY <1>1, <2>2
    <3> QED
      BY ONLY <3>1, Answering
  <2>4. Bound(Sent, old, model.id)
    BY <1>2, <1>7 DEF Accepted
  <2>5. \A n \in DOMAIN old : /\ old[n].index \in 1 .. N
                              /\ conversation[old[n].index] = old[n].assistant
    <3>1. SUFFICES ASSUME NEW n \in DOMAIN old
                   PROVE  /\ old[n].index \in 1 .. N
                          /\ conversation[old[n].index] = old[n].assistant
      OBVIOUS
    <3>2. old[n].assistant.role = "assistant"
      BY <1>1 DEF Faithful
    <3>3. old[n].index \in DOMAIN Sent /\ Sent[old[n].index] = old[n].assistant
      BY <2>4 DEF Bound
    <3> QED
      BY <1>1, <3>2, <3>3, SameSent
  <2>6. new.model = model.id /\ new.index = N + 1 /\ new.assistant = f.message
    BY DEF Record, Here
  <2>7. Bound(all, next.checkpoints, model.id)
    <3>1. DOMAIN Sent = DOMAIN conversation
      BY <1>1, SameSent
    <3> HIDE DEF all, new, next, a
    <3>2. Extending(Sent, old, model.id, conversation, all, new)
      BY <1>1, <2>3, <2>4, <2>5, <2>6, <3>1 DEF Extending
    <3> QED
      BY <2>1, <3>2, BoundGrows
  <2>8. /\ IsSequence(next.checkpoints) /\ DOMAIN next.checkpoints = 1 .. Len(old) + 1
        /\ Len(old) \in Nat /\ DOMAIN old = 1 .. Len(old)
        /\ next.checkpoints[Len(old) + 1] = new
        /\ \A n \in 1 .. Len(old) : next.checkpoints[n] = old[n]
    <3> HIDE DEF new, next, a
    <3> QED
      BY <1>1, <2>1, ListAppend, ListDomain
  <2>9. Protocol = "Responses" =>
           \A n \in DOMAIN next.checkpoints : Len(next.checkpoints[n].output) \in 1 .. MaxItems
    <3>1. SUFFICES ASSUME Protocol = "Responses", NEW n \in DOMAIN next.checkpoints
                   PROVE  Len(next.checkpoints[n].output) \in 1 .. MaxItems
      OBVIOUS
    <3>2. CASE n = Len(old) + 1
      <4>1. new.output = f.content
        BY <3>1 DEF Record
      <4>2. IsSequence(f.content) /\ f.content # <<>> /\ Len(f.content) <= MaxItems
        BY <3>1 DEF Found
      <4>3. Len(f.content) \in Nat /\ Len(f.content) # 0
        BY <4>2, ListDomain, EmptySeq, SeqEqual DEF IsSequence
      <4>4. MaxItems \in Nat
        BY BoundsAssumption
      <4> QED
        BY <2>8, <3>2, <4>1, <4>2, <4>3, <4>4
    <3>3. CASE n # Len(old) + 1
      <4>1. n \in DOMAIN old /\ next.checkpoints[n] = old[n]
        BY <2>8, <3>1, <3>3
      <4> QED
        BY <1>2, <3>1, <4>1 DEF Accepted
    <3> QED
      BY <3>2, <3>3
  <2>10. Protocol = "GenerateContent" => G!Request(all, next.checkpoints, Specs) # {}
    <3>1. SUFFICES ASSUME Protocol = "GenerateContent"
                   PROVE  G!Request(all, next.checkpoints, Specs) # {}
      OBVIOUS
    <3>2. \A n \in DOMAIN next.checkpoints :
             all[next.checkpoints[n].index] = next.checkpoints[n].assistant
      BY <2>7 DEF Bound
    <3>3. f.message.role = "assistant"
      BY DEF Found
    <3>4. N + 1 \in DOMAIN all /\ all[N + 1].role # "system"
      BY <1>1, <2>3, <3>3
    <3>6. AllNamed(next)
      BY <3>1
    <3> HIDE DEF all, next, a
    <3>5. ASSUME NEW i \in Has(all, "tool")
          PROVE  \E j \in Has(all, "assistant") : j < i /\ Asks(all[j], all[i].call)
      <4>0. DOMAIN all = 1 .. Len(all) /\ Len(all) \in Nat /\ i \in DOMAIN all /\ all[i].role = "tool"
        BY <2>3, ListDomain DEF Has
      <4>1. CASE i > N + 1
        <5>1. N + 1 \in Has(all, "assistant") /\ Asks(f.message, all[i].call)
          BY <2>3, <3>3, <3>4, <4>0, <4>1 DEF Has
        <5> QED
          BY <2>3, <4>1, <5>1
      <4>2. CASE i = N + 1
        BY <2>3, <3>3, <4>0, <4>2
      <4>3. CASE i < N + 1
        <5>1. i \in 1 .. N /\ i \in Has(conversation, "tool")
          BY <1>1, <2>3, <4>0, <4>3 DEF Has
        <5>2. PICK j \in Has(conversation, "assistant") :
                     j < i /\ Asks(conversation[j], conversation[i].call)
          BY <1>1, <5>1 DEF Sound, Grouped
        <5>3. j \in 1 .. N /\ j \in DOMAIN all /\ all[j] = conversation[j] /\ all[i] = conversation[i]
          BY <1>1, <2>3, <5>1, <5>2 DEF Has
        <5>4. j \in Has(all, "assistant")
          BY <5>2, <5>3 DEF Has
        <5> QED
          BY <5>2, <5>3, <5>4
      <4> QED
        BY <1>1, <4>0, <4>1, <4>2, <4>3
    <3> QED
      BY <1>3, <2>3, <3>1, <3>2, <3>4, <3>5, <3>6, GoogleAccepts
  <2> QED
    BY <1>3, <1>5, <2>7, <2>9, <2>10 DEF Accepted, Protocol
<1> QED
  BY <1>6, <1>7

\* What a completed call gives to its caller is as good as what it was made from.
LEMMA CompletesInvariant ==
    ASSUME HostInvariant, CallInvariant, ~Compacting, pc \notin {"idle", "credentials"},
           NEW f, Found(f), Completes(f)
    PROVE  AnswerInvariant'
<1>1. Accepted(model, Sent, continuation, Specs) /\ model \in Models
  BY AcceptedRequests DEF HostInvariant, CallInvariant
<1>2. /\ Sound(conversation, contents) /\ Formed(f.message) /\ f.message.role = "assistant"
  BY DEF HostInvariant, Found
<1>3. /\ answer' = Completion(f) /\ UNCHANGED <<conversation, continuation, contents, model, kept>>
      /\ pc' = "completed"
  BY <1>1, CompletesWith DEF Completes, host
<1>4. continuation.protocol = Protocol
  BY <1>1 DEF Accepted, Protocol
<1>5. LET a == Completion(f)
      IN  /\ Faithful(a.continuation) /\ Traced(a.contents, a.continuation)
          /\ a.continuation.protocol = Protocol
  BY ONLY HostInvariant, Found(f), <1>4, CompletionFaithful
<1>6. LET a == Completion(f) IN Sound(a.conversation, a.contents)
  BY <1>2, SoundAnswer DEF Completion
<1>7. (Protocol' = Protocol) /\ (Specs' = Specs) /\ ~Compacting'
  BY <1>3 DEF Protocol, Specs, Compacting
<1>8. NextRequestAccepted'
  <2>1. SUFFICES ASSUME Replayable', Answerable'
                 PROVE  Acceptable(model, FALSE, Completion(f), Specs)
    <3>1. model' \in Models
      BY <1>1, <1>3
    <3>2. NextRequestAccepted' <=>
             (Answerable' /\ pc' = "completed" /\ Replayable' =>
                  Acceptable(model', Compacting', answer', Specs'))
      BY <3>1, AcceptableNext DEF NextIsAcceptable
    <3>3. Compacting' = FALSE
      BY <1>7
    <3>4. Acceptable(model', Compacting', answer', Specs')
             = Acceptable(model, FALSE, Completion(f), Specs)
      BY <1>3, <1>7, <3>3
    <3> QED
      BY <3>2, <3>4
  <2>2. Protocol = "Responses" => Len(f.content) <= MaxItems
    <3>1. SUFFICES ASSUME Protocol = "Responses" PROVE Len(f.content) <= MaxItems
      OBVIOUS
    <3>2. Completion(f).contents = Append(contents, <<f.content>>)
      BY <3>1 DEF Completion
    <3>3. Last(Append(contents, <<f.content>>)) = <<f.content>>
      <4>1. /\ Len(Append(contents, <<f.content>>)) = Len(conversation) + 1
            /\ Append(contents, <<f.content>>)[Len(conversation) + 1] = <<f.content>>
        <5> DEFINE x == <<f.content>>
        <5> HIDE DEF x
        <5>1. /\ Len(Append(contents, x)) = Len(conversation) + 1
              /\ Append(contents, x)[Len(conversation) + 1] = x
          <6>1. IsSequence(contents) /\ Len(contents) = Len(conversation)
            BY <1>2 DEF Sound
          <6> QED
            BY <6>1, ListAppend
        <5> QED
          BY <5>1 DEF x
      <4> QED
        BY <4>1 DEF Last
    <3>4. f.content \in ToSet(<<f.content>>)
      BY DEF ToSet
    <3> QED
      BY <1>3, <1>7, <2>1, <3>1, <3>2, <3>3, <3>4 DEF Replayable
  <2>3. Protocol = "GenerateContent" => AllNamed(Completion(f).continuation)
    BY <1>3, <1>7, <2>1 DEF Answerable, AllNamed, ToSet
  <2> QED
    BY ONLY HostInvariant, Found(f), <1>1, <2>2, <2>3, CompletionAccepted
<1> QED
  BY <1>3, <1>5, <1>6, <1>8 DEF AnswerInvariant

\* Something for every element of a sequence is a sequence.
LEMMA ListImage ==
    ASSUME NEW s, IsSequence(s), NEW t, DOMAIN t = DOMAIN s, t = [n \in DOMAIN s |-> t[n]]
    PROVE  IsSequence(t) /\ Len(t) = Len(s)
<1>1. Len(s) \in Nat /\ DOMAIN s = 1 .. Len(s)
  BY ListDomain
<1> QED
  BY <1>1, ListMade

\* The adapters find answers as they should: that of the Messages API,
LEMMA MessagesFound ==
    ASSUME Protocol = "Messages", NEW content, NEW reason, IsSequence(content),
           \A n \in DOMAIN content : Own(content[n], model.id),
           NEW f \in A!Answers(content, reason)
    PROVE  Found(f)
<1> DEFINE uses == A!OfType(content, "tool_use")
           calls == [n \in DOMAIN uses |-> Call(uses[n].id, uses[n].name, uses[n].input)]
<1>1. f.message = A!Parsed(content) /\ f.content = content
  BY DEF A!Answers
<1>2. \E said : A!Parsed(content) = Assistant(said, calls, <<>>)
  BY DEF A!Parsed, A!Assistant, Assistant, A!Call, Call
<1>3. IsSequence(uses)
  BY SameSelect, ListSelect DEF A!OfType
<1>4. IsSequence(calls)
  <2> HIDE DEF uses
  <2>1. DOMAIN calls = DOMAIN uses /\ calls = [n \in DOMAIN uses |-> calls[n]]
    OBVIOUS
  <2> HIDE DEF calls
  <2> QED
    BY <1>3, <2>1, ListImage
<1> HIDE DEF calls
<1>5. Formed(f.message) /\ f.message.role = "assistant" /\ f.message.calls = calls
  BY <1>1, <1>2, <1>4 DEF Formed, Assistant
<1>6. \A b \in DOMAIN content : MadeBy(content[b]) \subseteq {model.id}
  BY DEF Own
<1> QED
  BY <1>1, <1>4, <1>5, <1>6 DEF Found

\* of generateContent,
LEMMA GoogleFound ==
    ASSUME Protocol = "GenerateContent", NEW parts, NEW reason, IsSequence(parts),
           \A n \in DOMAIN parts : PartOwn(parts[n]),
           NEW f \in G!Answers(parts, reason, Here)
    PROVE  Found(f)
<1> DEFINE own == G!OfType(parts, "functionCall")
           calls == [k \in DOMAIN own |->
                      Call(IF own[k].id \in {<<>>, <<"">>} THEN G!FallbackId(Here, k) ELSE own[k].id[1],
                           own[k].name, own[k].args)]
<1>1. f.message = G!Parsed(parts, Here) /\ f.content = parts
  BY DEF G!Answers
<1>2. \E said, thought : G!Parsed(parts, Here) = Assistant(said, calls, thought)
  BY ONLY TRUE DEF G!Parsed, G!Assistant, Assistant, G!Call, Call, own, calls
<1>3. IsSequence(own)
  BY SameSelect, ListSelect DEF G!OfType
<1>4. IsSequence(calls)
  <2> HIDE DEF own
  <2>1. DOMAIN calls = DOMAIN own /\ calls = [n \in DOMAIN own |-> calls[n]]
    OBVIOUS
  <2> HIDE DEF calls
  <2> QED
    BY <1>3, <2>1, ListImage
<1> HIDE DEF calls
<1>5. Formed(f.message) /\ f.message.role = "assistant" /\ f.message.calls = calls
  BY <1>1, <1>2, <1>4 DEF Formed, Assistant
<1>6. \A b \in DOMAIN parts : MadeBy(parts[b]) \subseteq {model.id}
  BY DEF PartOwn, Own
<1> QED
  BY <1>1, <1>4, <1>5, <1>6 DEF Found

\* of the Responses API,
LEMMA ResponsesFound ==
    ASSUME Protocol = "Responses", NEW a, ResponsesAcc(a), NEW f \in R!Finished(a)
    PROVE  Found(f)
<1>1. PICK output \in ToSet(a.final) :
             /\ R!Usable(output) /\ f = [message |-> R!Parsed(output), content |-> output]
  BY DEF R!Finished, R!ToSet, ToSet
<1> DEFINE calling == Select(output, {n \in DOMAIN output : output[n].type = "function_call"})
           calls == [n \in DOMAIN calling |->
                      Call(calling[n].call, calling[n].name, calling[n].input)]
<1>2. Items(output) /\ output # <<>>
  BY <1>1 DEF ResponsesAcc, R!Usable, R!Output!Known
<1>3. IsSequence(calling)
  BY <1>2, ListSelect DEF Items
<1>4. \E said : R!Parsed(output) = Assistant(said, calls, <<>>)
  <2>1. \E said : R!Parsed(output) =
           Assistant(said,
             [n \in DOMAIN R!Select(output, {n \in DOMAIN output : output[n].type = "function_call"}) |->
               Call(R!Select(output, {m \in DOMAIN output : output[m].type = "function_call"})[n].call,
                    R!Select(output, {m \in DOMAIN output : output[m].type = "function_call"})[n].name,
                    R!Select(output, {m \in DOMAIN output : output[m].type = "function_call"})[n].input)], <<>>)
    BY ONLY TRUE DEF R!Parsed, R!Assistant, Assistant, R!Call, Call
  <2> QED
    BY <2>1, SameSelect DEF calls, calling
<1>5. IsSequence(calls)
  <2> HIDE DEF calling
  <2>1. DOMAIN calls = DOMAIN calling /\ calls = [n \in DOMAIN calling |-> calls[n]]
    OBVIOUS
  <2> HIDE DEF calls
  <2> QED
    BY <1>3, <2>1, ListImage
<1> HIDE DEF calls
<1>6. Formed(f.message) /\ f.message.role = "assistant" /\ f.message.calls = calls
  BY <1>1, <1>4, <1>5 DEF Formed, Assistant
<1> QED
  BY <1>1, <1>2, <1>5, <1>6 DEF Found, Items

\* and of Chat Completions.
LEMMA ChatFound ==
    ASSUME Protocol = "ChatCompletions", NEW message, IsSequence(message.calls),
           message = Assistant(message.content, message.calls, message.reasoning),
           NEW f, f = [message |-> Reasoned(message), content |-> <<>>]
    PROVE  Found(f)
<1>1. /\ Reasoned(message) = Assistant(Reasoned(message).content, Reasoned(message).calls,
                                       Reasoned(message).reasoning)
      /\ Reasoned(message).calls = message.calls
  BY DEF Reasoned, Assistant
<1> HIDE DEF Reasoned
<1> QED
  BY <1>1 DEF Found, Formed, Assistant

\* What its accumulator ends with is a message.
LEMMA ChatFinished ==
    ASSUME NEW a, IsSequence(a.legacy), NEW message \in C!Finished(a)
    PROVE  /\ message = Assistant(message.content, message.calls, message.reasoning)
           /\ IsSequence(message.calls)
<1> DEFINE places == DOMAIN a.calls
           indices == InOrder(places, Max({0} \cup places))
           listed == [n \in DOMAIN indices |-> a.calls[indices[n]]]
           parts == listed \o a.legacy
           calls == [n \in DOMAIN parts |-> C!Made(parts[n])]
<1>1. message = Assistant(a.text, calls, a.reasoning) /\ C!Contiguous(a.calls)
  BY SameChat DEF C!Finished
<1>2. PICK n \in Nat : places = 1 .. n
  BY <1>1 DEF C!Contiguous
<1> HIDE DEF places
<1>3. Max({0} \cup places) = n
  BY <1>2 DEF Max
<1>4. IsSequence(indices)
  <2> DEFINE s == [i \in 1 .. n |-> i]
  <2>1. IsSequence(s)
    <3>1. n \in Nat /\ DOMAIN s = 1 .. n /\ s = [i \in 1 .. n |-> s[i]]
      BY <1>2
    <3> HIDE DEF s
    <3> QED
      BY <3>1, ListMade
  <2>2. indices = Select(s, places)
    BY <1>3 DEF InOrder
  <2> HIDE DEF s
  <2> QED
    BY <2>1, <2>2, ListSelect
<1> HIDE DEF indices
<1>5. IsSequence(listed)
  <2>1. DOMAIN listed = DOMAIN indices /\ listed = [i \in DOMAIN indices |-> listed[i]]
    OBVIOUS
  <2> HIDE DEF listed
  <2> QED
    BY <1>4, <2>1, ListImage
<1> HIDE DEF listed
<1>6. IsSequence(parts)
  BY <1>5, ListConcat
<1> HIDE DEF parts
<1>7. IsSequence(calls)
  <2>1. DOMAIN calls = DOMAIN parts /\ calls = [i \in DOMAIN parts |-> calls[i]]
    OBVIOUS
  <2> HIDE DEF calls
  <2> QED
    BY <1>6, <2>1, ListImage
<1> HIDE DEF calls
<1> QED
  BY <1>1, <1>7 DEF Assistant

\* A response in one body has an answer,
LEMMA BodyFound ==
    ASSUME model \in Models, Meant(response), NEW reason,
           Protocol = "ChatCompletions" =>
              IsSequence(reason.calls) /\ IsSequence(reason.legacy),
           NEW f \in Route(A!Answers(response, reason),
                           {[message |-> Reasoned(C!Parsed(reason)), content |-> <<>>]},
                           G!Answers(response, reason, Here), {})
    PROVE  Found(f)
<1>1. Protocol \in Protocols
  BY ModelsAssumption DEF Protocol
<1>2. CASE Protocol = "Messages"
  BY <1>2, MessagesFound DEF Route, Meant
<1>3. CASE Protocol = "ChatCompletions"
  <2>1. f = [message |-> Reasoned(C!Parsed(reason)), content |-> <<>>]
    BY <1>3 DEF Route
  <2> DEFINE made == IF reason.calls = <<>> THEN reason.legacy ELSE reason.calls
             calls == [n \in DOMAIN made |->
                         Call(IF reason.calls = <<>> THEN C!LegacyId ELSE made[n].id,
                              made[n].name, made[n].input)]
  <2>2. \E said : C!Parsed(reason) = Assistant(said, calls, reason.reasoning)
    BY ONLY TRUE DEF C!Parsed, C!Assistant, Assistant, C!Call, Call
  <2>3. IsSequence(calls)
    <3>1. IsSequence(made)
      BY <1>3
    <3> HIDE DEF made
    <3>2. DOMAIN calls = DOMAIN made /\ calls = [n \in DOMAIN made |-> calls[n]]
      OBVIOUS
    <3> HIDE DEF calls
    <3> QED
      BY <3>1, <3>2, ListImage
  <2> HIDE DEF calls
  <2>4. LET message == C!Parsed(reason)
        IN  /\ message = Assistant(message.content, message.calls, message.reasoning)
            /\ message.calls = calls
    BY <2>2 DEF Assistant
  <2> QED
    BY <1>3, <2>1, <2>3, <2>4, ChatFound
<1>4. CASE Protocol = "GenerateContent"
  BY <1>4, GoogleFound DEF Route, Meant
<1>5. CASE Protocol = "Responses"
  BY <1>5 DEF Route
<1> QED
  BY <1>1, <1>2, <1>3, <1>4, <1>5 DEF Protocols

\* and so has one in a stream.
LEMMA FinalFound ==
    ASSUME model \in Models, NEW a, AccOwn(a), NEW f \in Final(a)
    PROVE  Found(f)
<1>1. Protocol \in Protocols
  BY ModelsAssumption DEF Protocol
<1>2. CASE Protocol = "Messages"
  <2> DEFINE content == [i \in DOMAIN a.blocks |-> a.blocks[i].value]
  <2>1. MessagesAcc(a) /\ f \in A!Finished(a)
    BY <1>2 DEF Route, AccOwn, Final
  <2>2. f \in A!Answers(content, Head(a.reason))
    BY <2>1 DEF A!Finished
  <2>3. DOMAIN content = DOMAIN a.blocks /\ \A n \in DOMAIN content : Own(content[n], model.id)
    BY <2>1 DEF MessagesAcc
  <2>4. IsSequence(a.blocks) /\ content = [n \in DOMAIN a.blocks |-> content[n]]
    BY <2>1 DEF MessagesAcc
  <2> HIDE DEF content
  <2>5. IsSequence(content)
    BY <2>3, <2>4, ListImage
  <2> QED
    BY <1>2, <2>2, <2>3, <2>5, MessagesFound
<1>3. CASE Protocol = "ChatCompletions"
  <2>1. PICK message \in C!Finished(a) : f = [message |-> Reasoned(message), content |-> <<>>]
    BY <1>3 DEF Route, Final
  <2>2. IsSequence(a.legacy)
    BY <1>3 DEF Route, AccOwn
  <2> QED
    BY <1>3, <2>1, <2>2, ChatFinished, ChatFound
<1>4. CASE Protocol = "GenerateContent"
  <2>1. GoogleAcc(a) /\ f \in G!Finished(a, Here)
    BY <1>4 DEF Route, AccOwn, Final
  <2>2. f \in G!Answers(a.parts, a.reason[1], Here)
    BY <2>1 DEF G!Finished
  <2> QED
    BY <1>4, <2>1, <2>2, GoogleFound DEF GoogleAcc
<1>5. CASE Protocol = "Responses"
  BY <1>5, ResponsesFound DEF Route, AccOwn, Final
<1> QED
  BY <1>1, <1>2, <1>3, <1>4, <1>5 DEF Protocols

-----------------------------------------------------------------------------
(* What the service tells.                                                 *)

\* Events whose opaque parts are the model's own.
Wired(s) == IsSequence(s) /\ \A n \in DOMAIN s : EventOwn(s[n])

\* In other words,
LEMMA WiredType ==
    ASSUME NEW s
    PROVE  /\ \A X : s \in Seq({e \in X : EventOwn(e)}) => Wired(s)
           /\ Wired(s) => s \in Seq({e \in ToSet(s) : EventOwn(e)})
<1>1. ASSUME NEW X, s \in Seq({e \in X : EventOwn(e)}) PROVE Wired(s)
  <2> DEFINE Y == {e \in X : EventOwn(e)}
  <2>1. s \in Seq(Y) /\ \A e \in Y : EventOwn(e)
    BY <1>1
  <2> HIDE DEF Y
  <2>2. IsSequence(s) /\ DOMAIN s = 1 .. Len(s) /\ \A n \in 1 .. Len(s) : s[n] \in Y
    BY <2>1, ListOf, ElementOfSeq
  <2> QED
    BY <2>1, <2>2 DEF Wired
<1>2. ASSUME Wired(s) PROVE s \in Seq({e \in ToSet(s) : EventOwn(e)})
  <2> DEFINE Y == {e \in ToSet(s) : EventOwn(e)}
  <2>1. IsSequence(s) /\ \A n \in DOMAIN s : s[n] \in ToSet(s) /\ EventOwn(s[n])
    BY <1>2 DEF Wired, ToSet
  <2>2. s \in [1 .. Len(s) -> ToSet(s)] /\ Len(s) \in Nat
    BY <2>1, LenProperties DEF IsSequence
  <2>3. \A n \in 1 .. Len(s) : s[n] \in Y
    BY <2>1, <2>2
  <2> HIDE DEF Y
  <2>4. s \in [1 .. Len(s) -> Y]
    BY <2>2, <2>3
  <2>5. s \in Seq(Y)
    BY <2>2, <2>4, SeqDef
  <2> QED
    BY <2>5 DEF Y
<1> QED
  BY <1>1, <1>2

\* one event,
LEMMA WiredOne ==
    ASSUME NEW e, EventOwn(e)
    PROVE  Wired(<<e>>)
<1>1. <<e>> \in Seq({e})
  OBVIOUS
<1>2. IsSequence(<<e>>)
  BY <1>1, ListOf
<1> QED
  BY <1>2 DEF Wired

\* and those behind others.
LEMMA WiredConcat ==
    ASSUME NEW s, NEW t, Wired(s), Wired(t)
    PROVE  Wired(s \o t)
<1>1. IsSequence(s) /\ IsSequence(t)
  BY DEF Wired
<1>2. /\ Len(s) \in Nat /\ Len(t) \in Nat /\ DOMAIN s = 1 .. Len(s) /\ DOMAIN t = 1 .. Len(t)
  BY <1>1, ListDomain
<1>3. /\ IsSequence(s \o t) /\ DOMAIN (s \o t) = 1 .. Len(s) + Len(t)
      /\ \A i \in 1 .. Len(s) : (s \o t)[i] = s[i]
      /\ \A i \in 1 .. Len(t) : (s \o t)[Len(s) + i] = t[i]
  BY <1>1, ListConcat
<1>4. ASSUME NEW n \in DOMAIN (s \o t) PROVE EventOwn((s \o t)[n])
  <2>1. CASE n \in 1 .. Len(s)
    BY <1>2, <1>3, <2>1 DEF Wired
  <2>2. CASE n \notin 1 .. Len(s)
    <3> DEFINE i == n - Len(s)
    <3>1. i \in 1 .. Len(t) /\ n = Len(s) + i
      BY <1>2, <1>3, <2>2
    <3> HIDE DEF i
    <3>2. (s \o t)[n] = t[i]
      BY <1>3, <3>1
    <3> QED
      BY <1>2, <3>1, <3>2 DEF Wired
  <2> QED
    BY <2>1, <2>2
<1> QED
  BY <1>3, <1>4 DEF Wired

\* So are some for each part of a response,
LEMMA WiredFlatten ==
    ASSUME NEW s, IsSequence(s), \A i \in DOMAIN s : Wired(s[i])
    PROVE  Wired(FlattenSeq(s))
<1> DEFINE B == UNION {ToSet(s[i]) : i \in DOMAIN s}
           Y == {e \in B : EventOwn(e)}
<1>1. Len(s) \in Nat /\ DOMAIN s = 1 .. Len(s)
  BY ListDomain
<1>2. ASSUME NEW i \in DOMAIN s PROVE s[i] \in Seq(Y)
  <2> DEFINE Z == {e \in ToSet(s[i]) : EventOwn(e)}
  <2>1. s[i] \in Seq(Z) /\ Z \subseteq Y
    BY WiredType
  <2> HIDE DEF Z, Y
  <2> QED
    BY <2>1, SeqMonotonic
<1> HIDE DEF Y
<1>3. s \in Seq(Seq(Y))
  <2> DEFINE Q == Seq(Y)
  <2>1. s \in [1 .. Len(s) -> ToSet(s)]
    BY LenProperties DEF IsSequence
  <2>2. \A i \in 1 .. Len(s) : s[i] \in Q
    BY <1>1, <1>2
  <2> HIDE DEF Q
  <2>3. s \in [1 .. Len(s) -> Q]
    BY <2>1, <2>2
  <2>4. s \in Seq(Q)
    BY <1>1, <2>3, SeqDef
  <2> QED
    BY <2>4 DEF Q
<1>4. FlattenSeq(s) \in Seq(Y)
  BY <1>3, FlattenType
<1> QED
  BY <1>4, WiredType DEF Y

\* and they stay so when one is added, taken away or changed.
LEMMA ListEdit ==
    ASSUME NEW X, NEW s \in Seq(X), NEW k \in DOMAIN s, NEW e \in X
    PROVE  InsertAt(s, k, e) \in Seq(X) /\ RemoveAt(s, k) \in Seq(X) /\ [s EXCEPT ![k] = e] \in Seq(X)
<1> DEFINE N == Len(s)
           below == k - 1
           above == k + 1
<1>1. N \in Nat /\ DOMAIN s = 1 .. N /\ k \in 1 .. N /\ \A i \in 1 .. N : s[i] \in X
  BY ListOf, ElementOfSeq
<1>2. /\ 1 \in Int /\ below \in Int /\ k \in Int /\ above \in Int /\ N \in Int
      /\ \A i \in 1 .. below : s[i] \in X
      /\ \A i \in k .. N : s[i] \in X
      /\ \A i \in above .. N : s[i] \in X
  BY <1>1
<1>3. [s EXCEPT ![k] = e] \in Seq(X)
  <2>1. s \in [1 .. N -> X]
    BY LenProperties
  <2> HIDE DEF N
  <2>2. [s EXCEPT ![k] = e] \in [1 .. N -> X]
    BY <1>1, <2>1
  <2> QED
    BY <1>1, <2>2, SeqDef
<1> HIDE DEF N, below, above
<1>4. SubSeq(s, 1, below) \in Seq(X) /\ SubSeq(s, k, N) \in Seq(X) /\ SubSeq(s, above, N) \in Seq(X)
  BY <1>2, SubSeqProperties
<1>5. <<e>> \in Seq(X)
  OBVIOUS
<1>6. SubSeq(s, 1, below) \o <<e>> \in Seq(X)
  BY <1>4, <1>5, ConcatProperties
<1>7. SubSeq(s, 1, below) \o <<e>> \o SubSeq(s, k, N) \in Seq(X)
  BY <1>4, <1>6, ConcatProperties
<1>8. SubSeq(s, 1, below) \o SubSeq(s, above, N) \in Seq(X)
  BY <1>4, ConcatProperties
<1> QED
  BY <1>3, <1>7, <1>8 DEF InsertAt, RemoveAt, N, below, above

LEMMA WiredEdit ==
    ASSUME NEW s, Wired(s), NEW k \in DOMAIN s, NEW e, EventOwn(e)
    PROVE  Wired(InsertAt(s, k, e)) /\ Wired(RemoveAt(s, k)) /\ Wired([s EXCEPT ![k] = e])
<1> DEFINE B == ToSet(s) \cup {e}
           X == {x \in B : EventOwn(x)}
           Y == {x \in ToSet(s) : EventOwn(x)}
<1>1. s \in Seq(X)
  <2>1. s \in Seq(Y) /\ Y \subseteq X
    BY WiredType
  <2> HIDE DEF X, Y
  <2> QED
    BY <2>1, SeqMonotonic
<1>2. e \in X
  OBVIOUS
<1> HIDE DEF X
<1>3. InsertAt(s, k, e) \in Seq(X) /\ RemoveAt(s, k) \in Seq(X) /\ [s EXCEPT ![k] = e] \in Seq(X)
  BY <1>1, <1>2, ListEdit
<1> HIDE DEF B
<1> QED
  BY <1>3, WiredType DEF X

\* Two of them may change places.
LEMMA WiredSwap ==
    ASSUME NEW s, Wired(s), NEW k \in DOMAIN s, NEW l \in DOMAIN s
    PROVE  Wired([s EXCEPT ![k] = s[l], ![l] = s[k]])
<1> DEFINE t == [s EXCEPT ![k] = s[l]]
<1>1. Wired(t)
  BY WiredEdit DEF Wired
<1>2. l \in DOMAIN t /\ EventOwn(s[k])
  BY DEF Wired
<1> HIDE DEF t
<1>3. Wired([t EXCEPT ![l] = s[k]])
  BY <1>1, <1>2, WiredEdit
<1> QED
  BY <1>3 DEF t

\* The adapters' own copies.
LEMMA SameEdits ==
    /\ \A s, k, e : /\ A!InsertAt(s, k, e) = InsertAt(s, k, e)
                    /\ G!InsertAt(s, k, e) = InsertAt(s, k, e)
                    /\ R!Output!InsertAt(s, k, e) = InsertAt(s, k, e)
    /\ \A s, k : /\ A!RemoveAt(s, k) = RemoveAt(s, k)
                 /\ R!Output!RemoveAt(s, k) = RemoveAt(s, k)
    /\ \A s : R!Output!FlattenSeq(s) = FlattenSeq(s)
BY DEF A!InsertAt, G!InsertAt, R!Output!InsertAt, InsertAt, A!RemoveAt, R!Output!RemoveAt, RemoveAt,
       R!Output!FlattenSeq, FlattenSeq

\* Events that have nothing of the model's, one for every letter.
LEMMA WiredLetters ==
    ASSUME NEW text, IsSequence(text), NEW s, DOMAIN s = DOMAIN text,
           s = [n \in DOMAIN text |-> s[n]], \A n \in DOMAIN text : EventOwn(s[n])
    PROVE  Wired(s)
BY ListImage DEF Wired

\* Two events,
LEMMA WiredTwo ==
    ASSUME NEW e, NEW f, EventOwn(e), EventOwn(f)
    PROVE  Wired(<<e, f>>)
<1>1. <<e, f>> \in Seq({e, f})
  OBVIOUS
<1>2. IsSequence(<<e, f>>)
  BY <1>1, ListOf
<1>3. \A n \in DOMAIN <<e, f>> : <<e, f>>[n] \in {e, f}
  OBVIOUS
<1> QED
  BY <1>2, <1>3 DEF Wired

\* A block of the model,
LEMMA MessagesBlockWired ==
    ASSUME Protocol = "Messages", NEW i, NEW output, A!Produced(output, model), NEW n \in DOMAIN output
    PROVE  Own(output[n], model.id) /\ Wired(A!BlockTold(i, output[n]))
<1> DEFINE block == output[n]
<1>1. \A e : EventOwn(e) <=> MessagesEvent(e)
  BY DEF EventOwn, Route
<1>2. CASE block.type = "text"
  <2>1. block = A!Text(block.text) /\ A!IsSequence(block.text)
    BY <1>2 DEF A!Produced
  <2>2. Own(block, model.id)
    BY <1>2, <2>1 DEF Own, MadeBy, A!Text
  <2>3. MessagesEvent(A!BlockStart(i, A!Text(<<>>))) /\ MessagesEvent(A!BlockStop(i))
    BY DEF MessagesEvent, A!BlockStart, A!BlockStop, A!Text, Own, MadeBy
  <2> DEFINE text == block.text
             letters == A!Letters(i, "text", text)
  <2>4. DOMAIN letters = DOMAIN text /\ letters = [k \in DOMAIN text |-> letters[k]]
        /\ \A k \in DOMAIN text : MessagesEvent(letters[k])
    BY DEF A!Letters, A!BlockDelta, MessagesEvent
  <2>5. A!BlockTold(i, block) = <<A!BlockStart(i, A!Text(<<>>))>> \o letters \o <<A!BlockStop(i)>>
    BY <1>2 DEF A!BlockTold
  <2>6. IsSequence(text)
    BY <2>1, SameMessages
  <2> HIDE DEF letters, text
  <2>7. Wired(letters)
    BY <1>1, <2>4, <2>6, WiredLetters
  <2>8. Wired(<<A!BlockStart(i, A!Text(<<>>))>>) /\ Wired(<<A!BlockStop(i)>>)
    BY <1>1, <2>3, WiredOne
  <2>9. Wired(<<A!BlockStart(i, A!Text(<<>>))>> \o letters)
    BY ONLY <2>7, <2>8, WiredConcat
  <2>10. Wired(<<A!BlockStart(i, A!Text(<<>>))>> \o letters \o <<A!BlockStop(i)>>)
    BY ONLY <2>8, <2>9, WiredConcat
  <2> QED
    BY <2>2, <2>5, <2>10
<1>3. CASE block.type = "tool_use"
  <2>1. block = A!ToolUse(block.id, block.name, block.input) /\ A!IsSequence(block.input)
    BY <1>3 DEF A!Produced
  <2>2. Own(block, model.id)
    BY <1>3, <2>1 DEF Own, MadeBy, A!ToolUse
  <2> DEFINE start == A!BlockStart(i, [block EXCEPT !.input = A!NoInput])
             stop == A!BlockStop(i)
             text == block.input
             letters == A!Letters(i, "input", text)
             middle == IF text = A!NoInput THEN <<>> ELSE letters
  <2>3. MessagesEvent(start) /\ MessagesEvent(stop)
    <3>1. [block EXCEPT !.input = A!NoInput] = A!ToolUse(block.id, block.name, A!NoInput)
      BY <2>1 DEF A!ToolUse
    <3>2. MessagesEvent(A!BlockStart(i, A!ToolUse(block.id, block.name, A!NoInput)))
      BY DEF MessagesEvent, A!BlockStart, A!ToolUse, Own, MadeBy
    <3>3. MessagesEvent(A!BlockStop(i))
      BY DEF MessagesEvent, A!BlockStop
    <3> QED
      BY <3>1, <3>2, <3>3
  <2>4. DOMAIN letters = DOMAIN text /\ letters = [k \in DOMAIN text |-> letters[k]]
        /\ \A k \in DOMAIN text : MessagesEvent(letters[k])
    BY DEF A!Letters, A!BlockDelta, MessagesEvent
  <2>5. A!BlockTold(i, block) = <<start>> \o middle \o <<stop>>
    BY <1>3 DEF A!BlockTold
  <2>6. IsSequence(text)
    BY <2>1, SameMessages
  <2> HIDE DEF letters, text, start, stop
  <2>7. Wired(letters) /\ Wired(<<>>)
    <3>1. Wired(<<>>)
      <4>1. <<>> \in Seq({}) /\ DOMAIN <<>> = {}
        OBVIOUS
      <4>2. IsSequence(<<>>)
        BY <4>1, ListOf
      <4> QED
        BY <4>1, <4>2 DEF Wired
    <3> QED
      BY <1>1, <2>4, <2>6, <3>1, WiredLetters
  <2>8. Wired(<<start>>) /\ Wired(<<stop>>) /\ Wired(middle)
    BY <1>1, <2>3, <2>7, WiredOne
  <2> HIDE DEF middle
  <2>9. Wired(<<start>> \o middle)
    BY ONLY <2>8, WiredConcat
  <2>10. Wired(<<start>> \o middle \o <<stop>>)
    BY ONLY <2>8, <2>9, WiredConcat
  <2> QED
    BY <2>2, <2>5, <2>10
<1>4. CASE block.type = "thinking"
  <2>1. /\ block = A!Thinking(block.thinking, block.signature) /\ A!IsSequence(block.thinking)
        /\ block.signature \in Seq({model.id})
    BY <1>4 DEF A!Produced
  <2>2. Own(block, model.id)
    <3>1. MadeBy(block) = ToSet(block.signature)
      BY <1>4, <2>1 DEF MadeBy, A!Thinking
    <3>2. "type" \in DOMAIN block
      BY <2>1 DEF A!Thinking
    <3> QED
      BY <1>4, <2>1, <3>1, <3>2, ListOf DEF Own
  <2> DEFINE start == A!BlockStart(i, A!Thinking(<<>>, <<>>))
             signed == A!BlockDelta(i, "signature", block.signature)
             stop == A!BlockStop(i)
             text == block.thinking
             letters == A!Letters(i, "thinking", text)
  <2>3. MessagesEvent(start) /\ MessagesEvent(stop) /\ MessagesEvent(signed)
    <3>1. Own(A!Thinking(<<>>, <<>>), model.id)
      <4>1. MadeBy(A!Thinking(<<>>, <<>>)) = {}
        BY DEF MadeBy, A!Thinking, ToSet
      <4>2. <<>> \in Seq({model.id})
        OBVIOUS
      <4> QED
        BY <4>1, <4>2 DEF Own, A!Thinking
    <3> QED
      BY <2>1, <3>1 DEF MessagesEvent, A!BlockStart, A!BlockStop, A!BlockDelta
  <2>4. DOMAIN letters = DOMAIN text /\ letters = [k \in DOMAIN text |-> letters[k]]
        /\ \A k \in DOMAIN text : MessagesEvent(letters[k])
    BY DEF A!Letters, A!BlockDelta, MessagesEvent
  <2>5. A!BlockTold(i, block) = <<start>> \o letters \o <<signed, stop>>
    BY <1>4 DEF A!BlockTold
  <2>6. IsSequence(text)
    BY <2>1, SameMessages
  <2> HIDE DEF letters, text, start, stop, signed
  <2>7. Wired(letters)
    BY <1>1, <2>4, <2>6, WiredLetters
  <2>8. Wired(<<start>>) /\ Wired(<<stop>>) /\ Wired(<<signed>>)
    BY <1>1, <2>3, WiredOne
  <2>9. Wired(<<start>> \o letters)
    BY ONLY <2>7, <2>8, WiredConcat
  <2>10. Wired(<<signed, stop>>)
    BY <1>1, <2>3, WiredTwo
  <2>11. Wired(<<start>> \o letters \o <<signed, stop>>)
    BY ONLY <2>9, <2>10, WiredConcat
  <2> QED
    BY <2>2, <2>5, <2>11
<1>5. CASE block.type \notin {"text", "tool_use", "thinking"}
  <2>1. block = A!Attached("redacted_thinking", model.id)
    BY <1>5 DEF A!Produced
  <2>2. Own(block, model.id)
    BY <2>1 DEF Own, MadeBy, A!Attached
  <2> DEFINE start == A!BlockStart(i, block)
             stop == A!BlockStop(i)
  <2>3. MessagesEvent(start) /\ MessagesEvent(stop)
    BY <2>2 DEF MessagesEvent, A!BlockStart, A!BlockStop
  <2>4. A!BlockTold(i, block) = <<start, stop>>
    BY <1>5 DEF A!BlockTold
  <2> HIDE DEF start, stop
  <2>5. Wired(<<start, stop>>)
    BY <1>1, <2>3, WiredTwo
  <2> QED
    BY <2>2, <2>4, <2>5
<1> QED
  BY <1>2, <1>3, <1>4, <1>5

\* a response of the Messages API, also one that is told with a fault,
LEMMA MessagesTold ==
    ASSUME Protocol = "Messages", NEW output, A!Produced(output, model)
    PROVE  /\ Meant(output) /\ Wired(A!Told(output))
           /\ \A told \in A!Troubled(A!Told(output)) : Wired(told)
<1> DEFINE parts == [i \in DOMAIN output |-> A!BlockTold(i, output[i])]
           reason == IF A!Parsed(output).calls = <<>> THEN "end_turn" ELSE "tool_use"
           first == A!Other("message_start")
           delta == A!MessageDelta(reason)
           stop == A!Other("message_stop")
           told == A!Told(output)
<1>1. \A e : EventOwn(e) <=> MessagesEvent(e)
  BY DEF EventOwn, Route
<1>2. IsSequence(output)
  BY SameMessages DEF A!Produced
<1>3. \A n \in DOMAIN output : Own(output[n], model.id) /\ Wired(A!BlockTold(n, output[n]))
  BY MessagesBlockWired
<1>4. Meant(output)
  BY <1>2, <1>3 DEF Meant, Route
<1>5. told = <<first>> \o FlattenSeq(parts) \o <<delta, stop>>
  BY SameFlatten DEF A!Told
<1>6. /\ \A kind \in {"message_start", "message_stop", "ping", "error", "unknown"} :
            EventOwn(A!Other(kind))
      /\ \A r : EventOwn(A!MessageDelta(r))
  BY <1>1 DEF MessagesEvent, A!Other, A!MessageDelta
<1>7. Wired(told)
  <2>1. DOMAIN parts = DOMAIN output /\ parts = [i \in DOMAIN output |-> parts[i]]
        /\ \A i \in DOMAIN parts : Wired(parts[i])
    BY <1>3
  <2> HIDE DEF parts, told
  <2>2. IsSequence(parts)
    BY <1>2, <2>1, ListImage
  <2>3. Wired(FlattenSeq(parts))
    BY <2>1, <2>2, WiredFlatten
  <2>4. Wired(<<first>>) /\ Wired(<<delta, stop>>)
    BY <1>6, WiredOne, WiredTwo
  <2> HIDE DEF first, delta, stop
  <2>5. Wired(<<first>> \o FlattenSeq(parts))
    BY ONLY <2>3, <2>4, WiredConcat
  <2>6. Wired(<<first>> \o FlattenSeq(parts) \o <<delta, stop>>)
    BY ONLY <2>4, <2>5, WiredConcat
  <2> QED
    BY <1>5, <2>6
<1> HIDE DEF told
<1>8. ASSUME NEW wired \in A!Troubled(told) PROVE Wired(wired)
  <2> DEFINE N == Len(told)
  <2>1. /\ N \in Nat /\ DOMAIN told = 1 .. N
    BY <1>7, ListDomain DEF Wired
  <2>2. \/ \E n \in DOMAIN told, kind \in {"ping", "error", "unknown", "message_stop"} :
              wired = InsertAt(told, n, A!Other(kind))
        \/ \E r : wired = [told EXCEPT ![Len(told) - 1] = A!MessageDelta(r)]
        \/ \E n \in DOMAIN told : wired \in {RemoveAt(told, n), InsertAt(told, n, told[n])}
        \/ \E n \in 1 .. N - 1 : wired = [told EXCEPT ![n] = told[n + 1], ![n + 1] = told[n]]
    <3> DEFINE loose == {n \in DOMAIN told : told[n].kind = "content_block_delta"}
               added == {A!InsertAt(told, n, A!Other(kind)) :
                            n \in DOMAIN told, kind \in {"ping", "error", "unknown", "message_stop"}}
               other == {[told EXCEPT ![Len(told) - 1] = A!MessageDelta(r)] :
                            r \in {"stop_sequence", "tool_use", "end_turn", "max_tokens", "refusal"}}
               twice == UNION {{A!RemoveAt(told, n), A!InsertAt(told, n, told[n])} :
                                 n \in DOMAIN told \ loose}
               early == {[told EXCEPT ![n] = told[n + 1], ![n + 1] = told[n]] :
                            n \in {k \in 1 .. Len(told) - 1 : k \notin loose \/ k + 1 \notin loose}}
    <3>1. A!Troubled(told) = added \cup other \cup twice \cup early
      BY DEF A!Troubled
    <3>2. wired \in added => \E n \in DOMAIN told, kind \in {"ping", "error", "unknown", "message_stop"} :
                                wired = InsertAt(told, n, A!Other(kind))
      BY SameEdits
    <3>3. wired \in other => \E r : wired = [told EXCEPT ![Len(told) - 1] = A!MessageDelta(r)]
      OBVIOUS
    <3>4. wired \in twice => \E n \in DOMAIN told :
                                wired \in {RemoveAt(told, n), InsertAt(told, n, told[n])}
      BY SameEdits
    <3>5. wired \in early => \E n \in 1 .. N - 1 :
                                wired = [told EXCEPT ![n] = told[n + 1], ![n + 1] = told[n]]
      OBVIOUS
    <3> HIDE DEF added, other, twice, early
    <3> QED
      BY <1>8, <3>1, <3>2, <3>3, <3>4, <3>5
  <2>3. CASE \E n \in DOMAIN told, kind \in {"ping", "error", "unknown", "message_stop"} :
                wired = InsertAt(told, n, A!Other(kind))
    BY <1>6, <1>7, <2>3, WiredEdit
  <2>4. CASE \E r : wired = [told EXCEPT ![Len(told) - 1] = A!MessageDelta(r)]
    <3>1. PICK r : wired = [told EXCEPT ![Len(told) - 1] = A!MessageDelta(r)]
      BY <2>4
    <3>2. CASE Len(told) - 1 \in DOMAIN told
      BY <1>6, <1>7, <3>1, <3>2, WiredEdit
    <3>3. CASE Len(told) - 1 \notin DOMAIN told
      <4>1. wired = told
        <5>1. told = [n \in DOMAIN told |-> told[n]]
          BY <2>1, <1>7, LenProperties DEF Wired, IsSequence
        <5> QED
          BY <3>1, <3>3, <5>1
      <4> QED
        BY <1>7, <4>1
    <3> QED
      BY <3>2, <3>3
  <2>5. CASE \E n \in DOMAIN told : wired \in {RemoveAt(told, n), InsertAt(told, n, told[n])}
    <3>1. PICK n \in DOMAIN told : wired \in {RemoveAt(told, n), InsertAt(told, n, told[n])}
      BY <2>5
    <3>2. EventOwn(told[n])
      BY <1>7 DEF Wired
    <3>3. Wired(InsertAt(told, n, told[n])) /\ Wired(RemoveAt(told, n))
      BY <1>7, <3>2, WiredEdit
    <3> QED
      BY <3>1, <3>3
  <2>6. CASE \E n \in 1 .. N - 1 : wired = [told EXCEPT ![n] = told[n + 1], ![n + 1] = told[n]]
    <3>1. PICK n \in 1 .. N - 1 : wired = [told EXCEPT ![n] = told[n + 1], ![n + 1] = told[n]]
      BY <2>6
    <3>2. n \in DOMAIN told /\ n + 1 \in DOMAIN told
      BY <2>1
    <3> QED
      BY <1>7, <3>1, <3>2, WiredSwap
  <2> QED
    BY <2>2, <2>3, <2>4, <2>5, <2>6
<1> QED
  BY <1>4, <1>7, <1>8 DEF told

\* A part of the model is its own, in one piece or in two,
LEMMA GooglePartOwn ==
    ASSUME NEW output, G!Produced(output, model), NEW n \in DOMAIN output
    PROVE  /\ PartOwn(output[n])
           /\ G!IsCall(output[n]) =>
                 \A args : /\ PartOwn([output[n] EXCEPT !.args = args])
                           /\ PartOwn([output[n] EXCEPT !.args = args, !.signature = <<>>])
<1> DEFINE part == output[n]
           unsigned == [part EXCEPT !.signature = <<>>]
           id == model.id
<1>1. /\ part.signature \in {<<>>, <<id>>}
      /\ CASE part.type = "text" -> unsigned \in {G!Text(part.text), G!Thought(part.text)}
           [] part.type = "functionCall" ->
                 /\ unsigned = G!FunctionCall(part.id, part.name, part.args)
                 /\ part.id # <<>> => part.id = <<part.id[1]>>
           [] OTHER -> unsigned = G!Bare
  BY DEF G!Produced
<1> HIDE DEF part
<1>2. DOMAIN unsigned = DOMAIN part /\ (part.type # "signature" => TRUE)
  OBVIOUS
<1>3. /\ {"type", "signature"} \subseteq DOMAIN part
      /\ part.type = "functionCall" => DOMAIN part = {"type", "id", "name", "args", "signature"}
  BY <1>1, <1>2 DEF G!Text, G!Thought, G!FunctionCall, G!Bare
<1>4. part.type \notin {"redacted_thinking", "reasoning"}
  <2>1. CASE part.type \in {"text", "functionCall"}
    BY <2>1
  <2>2. CASE part.type \notin {"text", "functionCall"}
    <3>1. unsigned = G!Bare
      BY <1>1, <2>2
    <3>2. unsigned.type = "bare" /\ unsigned.type = part.type
      BY <1>2, <1>3, <3>1 DEF G!Bare
    <3> QED
      BY <3>2
  <2> QED
    BY <2>1, <2>2
<1>5. \A s \in {<<>>, <<id>>} : s \in Seq({id}) /\ ToSet(s) \subseteq {id}
  <2>1. <<>> \in Seq({id}) /\ <<id>> \in Seq({id})
    OBVIOUS
  <2> QED
    BY <2>1, ListOf
\* What a part says of itself.
<1> DEFINE Good(p) ==
      /\ {"type", "signature"} \subseteq DOMAIN p /\ p.signature \in {<<>>, <<id>>}
      /\ p.type \notin {"redacted_thinking", "reasoning"}
      /\ p.type = "functionCall" => "id" \in DOMAIN p /\ (p.id # <<>> => p.id = <<p.id[1]>>)
<1>6. ASSUME NEW p, Good(p) PROVE PartOwn(p)
  <2>1. MadeBy(p) = ToSet(p.signature)
    BY <1>6 DEF MadeBy
  <2> QED
    BY <1>5, <1>6, <2>1 DEF PartOwn, Own
<1>7. Good(part)
  BY <1>1, <1>3, <1>4
<1>8. ASSUME G!IsCall(part), NEW args
      PROVE  Good([part EXCEPT !.args = args]) /\ Good([part EXCEPT !.args = args, !.signature = <<>>])
  <2>1. part.type = "functionCall" /\ DOMAIN part = {"type", "id", "name", "args", "signature"}
    BY <1>3, <1>8 DEF G!IsCall
  <2>2. part.id # <<>> => part.id = <<part.id[1]>>
    BY <1>1, <2>1
  <2>3. Good([part EXCEPT !.args = args])
    <3> DEFINE p == [part EXCEPT !.args = args]
    <3>1. /\ DOMAIN p = DOMAIN part /\ p.type = part.type /\ p.id = part.id
          /\ p.signature = part.signature
      BY <2>1
    <3> HIDE DEF p
    <3>2. Good(p)
      BY <1>1, <2>1, <2>2, <3>1
    <3> QED
      BY <3>2 DEF p
  <2>4. Good([part EXCEPT !.args = args, !.signature = <<>>])
    <3> DEFINE p == [part EXCEPT !.args = args, !.signature = <<>>]
    <3>1. /\ DOMAIN p = DOMAIN part /\ p.type = part.type /\ p.id = part.id
          /\ p.signature = <<>>
      BY <2>1
    <3> HIDE DEF p
    <3>2. Good(p)
      BY <1>1, <2>1, <2>2, <3>1
    <3> QED
      BY <3>2 DEF p
  <2> QED
    BY <2>3, <2>4
<1> HIDE DEF Good
<1> QED
  BY <1>6, <1>7, <1>8 DEF part

\* and so is a chunk of it.
LEMMA GoogleChunkOwn ==
    ASSUME Protocol = "GenerateContent"
    PROVE  /\ \A part, reason : PartOwn(part) => EventOwn(G!Chunk(<<part>>, reason))
           /\ \A reason : EventOwn(G!Chunk(<<>>, reason))
           /\ \A kind : kind # "chunk" => EventOwn(G!Other(kind))
           /\ \A e, reason : e.kind = "chunk" /\ EventOwn(e) =>
                 EventOwn([e EXCEPT !.reason = reason])
<1>1. \A e : EventOwn(e) <=> GoogleEvent(e)
  BY DEF EventOwn, Route
<1>2. ASSUME NEW part, NEW reason, PartOwn(part) PROVE EventOwn(G!Chunk(<<part>>, reason))
  <2>1. <<part>> \in Seq({part}) /\ \A n \in DOMAIN <<part>> : <<part>>[n] = part
    OBVIOUS
  <2>2. IsSequence(<<part>>)
    BY <2>1, ListOf
  <2> QED
    BY <1>1, <1>2, <2>1, <2>2 DEF GoogleEvent, G!Chunk
<1>3. ASSUME NEW reason PROVE EventOwn(G!Chunk(<<>>, reason))
  <2>1. <<>> \in Seq({}) /\ DOMAIN <<>> = {}
    OBVIOUS
  <2>2. IsSequence(<<>>)
    BY <2>1, ListOf
  <2> QED
    BY <1>1, <2>1, <2>2 DEF GoogleEvent, G!Chunk
<1>4. ASSUME NEW kind, kind # "chunk" PROVE EventOwn(G!Other(kind))
  BY <1>1, <1>4 DEF GoogleEvent, G!Other
<1>5. ASSUME NEW e, NEW reason, e.kind = "chunk", EventOwn(e) PROVE EventOwn([e EXCEPT !.reason = reason])
  <2>1. [e EXCEPT !.reason = reason] = G!Chunk(e.parts, reason)
    BY <1>1, <1>5 DEF GoogleEvent, G!Chunk
  <2> QED
    BY <1>1, <1>5, <2>1 DEF GoogleEvent, G!Chunk
<1> QED
  BY <1>2, <1>3, <1>4, <1>5

\* Nothing is told where an event is changed that is not there.
LEMMA WiredSet ==
    ASSUME NEW s, Wired(s), NEW k, NEW e, k \in DOMAIN s => EventOwn(e)
    PROVE  Wired([s EXCEPT ![k] = e])
<1>1. CASE k \in DOMAIN s
  BY <1>1, WiredEdit
<1>2. CASE k \notin DOMAIN s
  <2>1. s = [n \in DOMAIN s |-> s[n]]
    BY LenProperties DEF Wired, IsSequence
  <2>2. [s EXCEPT ![k] = e] = s
    BY <1>2, <2>1
  <2> QED
    BY <2>2
<1> QED
  BY <1>1, <1>2

\* A response of generateContent,
LEMMA GoogleTold ==
    ASSUME Protocol = "GenerateContent", NEW output, G!Produced(output, model),
           NEW told \in G!Told(output)
    PROVE  Meant(output) /\ Wired(told)
<1> DEFINE bare == [n \in DOMAIN output |-> G!Chunk(<<output[n]>>, <<>>)]
           pieces == [n \in DOMAIN output |-> G!Pieces(output[n])]
           final == G!Chunk(<<>>, <<"STOP">>)
           usage == G!Other("usage")
<1>1. IsSequence(output) /\ \A n \in DOMAIN output : PartOwn(output[n])
  BY SameMessages, GooglePartOwn DEF G!Produced
<1>2. Meant(output)
  BY <1>1 DEF Meant, Route
<1>3. \/ told = FlattenSeq(pieces) \o <<final, usage>>
      \/ told = [bare EXCEPT ![Len(bare)] = [@ EXCEPT !.reason = <<"STOP">>]]
  BY SameFlatten DEF G!Told
<1>4. ASSUME NEW n \in DOMAIN output PROVE Wired(G!Pieces(output[n]))
  <2> DEFINE part == output[n]
             one == G!Chunk(<<[part EXCEPT !.args = <<Head(@)>>, !.signature = <<>>]>>, <<>>)
             two == G!Chunk(<<[part EXCEPT !.args = Tail(@)]>>, <<>>)
             whole == G!Chunk(<<part>>, <<>>)
  <2>1. G!Pieces(part) = IF G!IsCall(part) /\ part.id # <<>> /\ part.args # <<>>
                         THEN <<one, two>> ELSE <<whole>>
    BY DEF G!Pieces
  <2>2. EventOwn(whole)
    BY <1>1, GoogleChunkOwn
  <2>3. ASSUME G!IsCall(part) PROVE EventOwn(one) /\ EventOwn(two)
    <3>1. \A args : /\ PartOwn([output[n] EXCEPT !.args = args])
                    /\ PartOwn([output[n] EXCEPT !.args = args, !.signature = <<>>])
      BY <2>3, GooglePartOwn
    <3>2. PartOwn([part EXCEPT !.args = Tail(@)])
      BY <3>1
    <3>3. PartOwn([part EXCEPT !.args = <<Head(@)>>, !.signature = <<>>])
      BY <3>1
    <3> QED
      BY <3>2, <3>3, GoogleChunkOwn
  <2> HIDE DEF one, two, whole
  <2>4. Wired(<<whole>>) /\ (G!IsCall(part) => Wired(<<one, two>>))
    BY <2>2, <2>3, WiredOne, WiredTwo
  <2> QED
    BY <2>1, <2>4
<1>5. Wired(FlattenSeq(pieces))
  <2>1. DOMAIN pieces = DOMAIN output /\ pieces = [i \in DOMAIN output |-> pieces[i]]
        /\ \A i \in DOMAIN pieces : Wired(pieces[i])
    BY <1>4
  <2> HIDE DEF pieces
  <2>2. IsSequence(pieces)
    BY <1>1, <2>1, ListImage
  <2> QED
    BY <2>1, <2>2, WiredFlatten
<1>6. Wired(<<final, usage>>)
  <2>1. EventOwn(final) /\ EventOwn(usage)
    BY GoogleChunkOwn
  <2> HIDE DEF final, usage
  <2> QED
    BY <2>1, WiredTwo
<1>7. Wired(bare) /\ \A n \in DOMAIN bare : bare[n].kind = "chunk"
  <2>1. DOMAIN bare = DOMAIN output /\ bare = [i \in DOMAIN output |-> bare[i]]
        /\ \A i \in DOMAIN output : EventOwn(bare[i])
    BY <1>1, GoogleChunkOwn
  <2>2. \A n \in DOMAIN bare : bare[n].kind = "chunk"
    BY DEF G!Chunk
  <2> HIDE DEF bare
  <2> QED
    BY <1>1, <2>1, <2>2, WiredLetters
<1> HIDE DEF bare, pieces, final, usage
<1>8. CASE told = FlattenSeq(pieces) \o <<final, usage>>
  BY <1>2, <1>5, <1>6, <1>8, WiredConcat
<1>9. CASE told = [bare EXCEPT ![Len(bare)] = [@ EXCEPT !.reason = <<"STOP">>]]
  <2> DEFINE e == [bare[Len(bare)] EXCEPT !.reason = <<"STOP">>]
  <2>1. told = [bare EXCEPT ![Len(bare)] = e]
    BY <1>9
  <2>2. Len(bare) \in DOMAIN bare => EventOwn(e)
    BY <1>7, GoogleChunkOwn DEF Wired
  <2> HIDE DEF e
  <2>3. Wired([bare EXCEPT ![Len(bare)] = e])
    BY <1>7, <2>2, WiredSet
  <2> QED
    BY <1>2, <2>1, <2>3
<1> QED
  BY <1>3, <1>8, <1>9

\* also one that is told with a fault,
LEMMA GoogleTroubled ==
    ASSUME Protocol = "GenerateContent", NEW told, Wired(told)
    PROVE  \A wired \in G!Troubled(told) : Wired(wired)
<1> DEFINE final == {n \in DOMAIN told : told[n].kind = "chunk" /\ told[n].reason # <<>>}
           named == {n \in DOMAIN told : told[n].kind = "chunk" /\ told[n].parts # <<>>
                        /\ G!IsCall(told[n].parts[1]) /\ told[n].parts[1].id # <<>>}
           kinds == {"[DONE]", "error", "blocked", "malformed", "usage"}
           added == {G!InsertAt(told, n, G!Other(kind)) : n \in DOMAIN told, kind \in kinds}
           code == {G!InsertAt(told, n, G!Chunk(<<G!Code>>, <<>>)) : n \in DOMAIN told}
           reasons == {<<>>, <<"MAX_TOKENS">>, <<"SAFETY">>, <<"unheard of">>}
           other == {G!WithReason(told, n, reason) : n \in final, reason \in reasons}
           twice == {G!InsertAt(told, n, told[n]) : n \in named \cup final}
           early == {[told EXCEPT ![n - 1] = told[n], ![n] = told[n - 1]] : n \in final \ {1}}
<1>1. G!Troubled(told) = added \cup code \cup other  \cup twice \cup early
  BY DEF G!Troubled
<1>2. \A n \in DOMAIN told : EventOwn(told[n])
  BY DEF Wired
<1>3. ASSUME NEW wired, wired \in added PROVE Wired(wired)
  <2>1. PICK n \in DOMAIN told, kind \in kinds : wired = InsertAt(told, n, G!Other(kind))
    BY ONLY <1>3, SameEdits
  <2> DEFINE e == G!Other(kind)
  <2>2. EventOwn(e) /\ wired = InsertAt(told, n, e)
    BY <2>1, GoogleChunkOwn
  <2> HIDE DEF e
  <2> QED
    BY <2>2, WiredEdit
<1>4. ASSUME NEW wired, wired \in code PROVE Wired(wired)
  <2>1. PICK n \in DOMAIN told : wired = InsertAt(told, n, G!Chunk(<<G!Code>>, <<>>))
    BY ONLY <1>4, SameEdits
  <2>2. PartOwn(G!Code)
    <3>1. <<>> \in Seq({model.id}) /\ ToSet(<<>>) = {}
      BY DEF ToSet
    <3> QED
      BY <3>1 DEF PartOwn, Own, MadeBy, G!Code
  <2>3. EventOwn(G!Chunk(<<G!Code>>, <<>>))
    BY <2>2, GoogleChunkOwn
  <2> QED
    BY <2>1, <2>3, WiredEdit
<1>5. ASSUME NEW n \in final, NEW reason PROVE Wired(G!WithReason(told, n, reason))
  <2> DEFINE e == [told[n] EXCEPT !.reason = reason]
  <2>1. EventOwn(e)
    BY <1>2, GoogleChunkOwn
  <2>2. G!WithReason(told, n, reason) = [told EXCEPT ![n] = e]
    BY DEF G!WithReason
  <2> HIDE DEF e
  <2>3. Wired([told EXCEPT ![n] = e])
    BY <2>1, WiredEdit
  <2> QED
    BY <2>2, <2>3
<1>8. ASSUME NEW wired, wired \in other PROVE Wired(wired)
  <2>1. PICK n \in final, reason \in reasons : wired = G!WithReason(told, n, reason)
    <3> HIDE DEF final, reasons
    <3>1. wired \in other
      BY <1>8
    <3> QED
      BY ONLY <3>1
  <2> HIDE DEF other
  <2> QED
    BY <1>5, <2>1
<1>6. ASSUME NEW wired, wired \in twice PROVE Wired(wired)
  <2>1. PICK n \in DOMAIN told : wired = InsertAt(told, n, told[n])
    BY ONLY <1>6, SameEdits
  <2> QED
    BY <1>2, <2>1, WiredEdit
<1>7. ASSUME NEW wired, wired \in early PROVE Wired(wired)
  <2>1. PICK n \in final \ {1} : wired = [told EXCEPT ![n - 1] = told[n], ![n] = told[n - 1]]
    BY ONLY <1>7
  <2>2. n \in DOMAIN told /\ n - 1 \in DOMAIN told
    BY ListDomain DEF Wired
  <2> QED
    BY <2>1, <2>2, WiredSwap
<1> HIDE DEF added, code, other, twice, early
<1> QED
  BY <1>1, <1>3, <1>4, <1>6, <1>7, <1>8

\* A response of the Responses API, be it told or not,
LEMMA ResponsesOwn ==
    ASSUME Protocol = "Responses", NEW output, R!Produced(output, model)
    PROVE  Meant(output) /\ \A n \in DOMAIN output : IsSequence(output[n].parts)
               /\ \A j \in DOMAIN output[n].parts : IsSequence(output[n].parts[j])
<1>1. IsSequence(output)
  BY SameMessages DEF R!Produced
<1>0. IsSequence(<<>>) /\ DOMAIN <<>> = {}
  <2>1. <<>> \in Seq({}) /\ DOMAIN <<>> = {}
    OBVIOUS
  <2> QED
    BY <2>1, ListOf
<1>2. ASSUME NEW n \in DOMAIN output
      PROVE  /\ MadeBy(output[n]) \subseteq {model.id} /\ IsSequence(output[n].parts)
             /\ \A j \in DOMAIN output[n].parts : IsSequence(output[n].parts[j])
  <2> DEFINE item == output[n]
  <2>1. CASE item.type = "message"
    <3>1. /\ item = R!Message(item.id, item.parts) /\ IsSequence(item.parts)
          /\ \A j \in DOMAIN item.parts : IsSequence(item.parts[j])
      BY <2>1, SameMessages DEF R!Produced
    <3>2. MadeBy(item) = {}
      BY <3>1 DEF MadeBy, R!Message
    <3> QED
      BY <3>1, <3>2
  <2>2. CASE item.type = "function_call"
    <3>1. item = R!FunctionCall(item.id, item.call, item.name, item.input)
      BY <2>2 DEF R!Produced
    <3>2. MadeBy(item) = {} /\ item.parts = <<>>
      BY <3>1 DEF MadeBy, R!FunctionCall
    <3> QED
      BY <1>0, <3>2
  <2>3. CASE item.type \notin {"message", "function_call"}
    <3>1. item = R!Reasoning(item.id, model.id)
      BY <2>3 DEF R!Produced
    <3>2. MadeBy(item) = {model.id} /\ item.parts = <<>>
      BY <3>1 DEF MadeBy, R!Reasoning
    <3> QED
      BY <1>0, <3>2
  <2> QED
    BY <2>1, <2>2, <2>3
<1> QED
  BY <1>1, <1>2 DEF Meant, Route, Items

\* when it is told,
LEMMA ResponsesTold ==
    ASSUME Protocol = "Responses", NEW output, R!Produced(output, model), NEW told \in R!Told(output)
    PROVE  Meant(output) /\ Wired(told)
<1>0. \A e : EventOwn(e) <=> ResponsesEvent(e)
  BY DEF EventOwn, Route
<1>1. /\ Meant(output) /\ Items(output) /\ Items(<<>>) /\ IsSequence(output)
      /\ \A n \in DOMAIN output : IsSequence(output[n].parts)
               /\ \A j \in DOMAIN output[n].parts : IsSequence(output[n].parts[j])
  <2>1. Meant(output) /\ Items(output)
    BY ResponsesOwn DEF Meant, Route
  <2>2. Items(<<>>)
    <3>1. <<>> \in Seq({}) /\ DOMAIN <<>> = {}
      OBVIOUS
    <3> QED
      BY <3>1, ListOf DEF Items
  <2> QED
    BY <2>1, <2>2, ResponsesOwn DEF Items
<1>2. /\ \A i, j, letter : EventOwn(R!Output!Delta(i, j, letter))
      /\ \A i, item : MadeBy(item) \subseteq {model.id} => EventOwn(R!Output!Done(i, item))
      /\ EventOwn(R!Output!Completed(output)) /\ EventOwn(R!Output!Completed(<<>>))
  BY <1>0, <1>1 DEF ResponsesEvent, R!Output!Delta, R!Output!Done, R!Output!Completed
<1>3. ASSUME NEW i \in DOMAIN output PROVE Wired(R!Output!DeltasOf(i, output[i]))
  <2> DEFINE parts == output[i].parts
             Letters(j) == [n \in DOMAIN parts[j] |-> R!Output!Delta(i, j, parts[j][n])]
             letters == [j \in DOMAIN parts |-> Letters(j)]
  <2>1. R!Output!DeltasOf(i, output[i]) = FlattenSeq(letters)
    BY SameEdits DEF R!Output!DeltasOf
  <2>2. IsSequence(parts) /\ \A j \in DOMAIN parts : IsSequence(parts[j])
    BY <1>1
  <2>3. ASSUME NEW j \in DOMAIN parts PROVE Wired(letters[j])
    <3> DEFINE text == parts[j]
               s == Letters(j)
    <3>1. DOMAIN s = DOMAIN text /\ s = [n \in DOMAIN text |-> s[n]]
          /\ \A n \in DOMAIN text : EventOwn(s[n])
      BY <1>2
    <3>2. IsSequence(text) /\ letters[j] = s
      BY <2>2
    <3> HIDE DEF s, text, letters
    <3>3. Wired(s)
      BY ONLY <3>1, <3>2, WiredLetters
    <3> QED
      BY <3>2, <3>3
  <2>4. DOMAIN letters = DOMAIN parts /\ letters = [j \in DOMAIN parts |-> letters[j]]
    OBVIOUS
  <2> HIDE DEF letters, parts
  <2>5. IsSequence(letters)
    BY <2>2, <2>4, ListImage
  <2>6. Wired(FlattenSeq(letters))
    BY <2>3, <2>4, <2>5, WiredFlatten
  <2> QED
    BY <2>1, <2>6
<1>4. ASSUME NEW last, EventOwn(R!Output!Completed(last)) PROVE Wired(R!Output!Streamed(output, last))
  <2> DEFINE Part(i) == R!Output!DeltasOf(i, output[i]) \o <<R!Output!Done(i, output[i])>>
             parts == [i \in DOMAIN output |-> Part(i)]
             end == R!Output!Completed(last)
  <2>1. R!Output!Streamed(output, last) = FlattenSeq(parts) \o <<end>>
    BY SameEdits DEF R!Output!Streamed
  <2>2. ASSUME NEW i \in DOMAIN output PROVE Wired(parts[i])
    <3> DEFINE s == R!Output!DeltasOf(i, output[i])
               e == R!Output!Done(i, output[i])
    <3>1. Wired(s) /\ EventOwn(e)
      BY <1>1, <1>2, <1>3 DEF Items
    <3>2. parts[i] = s \o <<e>>
      OBVIOUS
    <3> HIDE DEF s, e, parts
    <3>3. Wired(<<e>>)
      BY <3>1, WiredOne
    <3>4. Wired(s \o <<e>>)
      BY ONLY <3>1, <3>3, WiredConcat
    <3> QED
      BY <3>2, <3>4
  <2>3. DOMAIN parts = DOMAIN output /\ parts = [i \in DOMAIN output |-> parts[i]]
    OBVIOUS
  <2> HIDE DEF parts
  <2>4. IsSequence(parts)
    BY <1>1, <2>3, ListImage
  <2>5. Wired(FlattenSeq(parts))
    BY <2>2, <2>3, <2>4, WiredFlatten
  <2>6. EventOwn(end)
    BY <1>4
  <2> HIDE DEF end
  <2>7. Wired(<<end>>)
    BY <2>6, WiredOne
  <2>8. Wired(FlattenSeq(parts) \o <<end>>)
    BY ONLY <2>5, <2>7, WiredConcat
  <2> QED
    BY <2>1, <2>8
<1>5. \/ told = R!Output!Streamed(output, output) \/ told = R!Output!Streamed(output, <<>>)
      \/ told = <<R!Output!Completed(output)>>
  BY DEF R!Told, R!Output!Told
<1>6. Wired(<<R!Output!Completed(output)>>)
  BY <1>2, WiredOne
<1> QED
  BY <1>1, <1>2, <1>4, <1>5, <1>6

\* and when it is told with a fault.
LEMMA ResponsesTroubled ==
    ASSUME Protocol = "Responses", NEW told, Wired(told)
    PROVE  \A wired \in R!Troubled(told) : Wired(wired)
<1> DEFINE kinds == {"failed", "incomplete", "malformed", "other"}
           done == {n \in DOMAIN told : told[n].kind = "done"}
           added == {R!Output!InsertAt(told, k, R!Output!Other(kind)) : k \in DOMAIN told, kind \in kinds}
           twice == {R!Output!InsertAt(told, k, told[k]) : k \in done}
           never == {R!Output!RemoveAt(told, k) : k \in done}
           bare == [n \in DOMAIN told |->
                      IF told[n].kind = "delta" THEN [told[n] EXCEPT !.part = <<>>] ELSE told[n]]
<1>0. \A e : EventOwn(e) <=> ResponsesEvent(e)
  BY DEF EventOwn, Route
<1>1. R!Output!Troubled(told) = added \cup twice \cup never \cup {bare}
  BY DEF R!Output!Troubled
<1>2. IsSequence(told) /\ \A n \in DOMAIN told : EventOwn(told[n])
  BY DEF Wired
<1>3. ASSUME NEW wired, wired \in added PROVE Wired(wired)
  <2>1. PICK n \in DOMAIN told, kind \in kinds : wired = InsertAt(told, n, R!Output!Other(kind))
    BY ONLY <1>3, SameEdits
  <2> DEFINE e == R!Output!Other(kind)
  <2>2. EventOwn(e) /\ wired = InsertAt(told, n, e)
    BY <1>0, <2>1 DEF ResponsesEvent, R!Output!Other
  <2> HIDE DEF e
  <2> QED
    BY <2>2, WiredEdit
<1>4. ASSUME NEW wired, wired \in twice PROVE Wired(wired)
  <2>1. PICK n \in DOMAIN told : wired = InsertAt(told, n, told[n])
    BY ONLY <1>4, SameEdits
  <2> QED
    BY <1>2, <2>1, WiredEdit
<1>5. ASSUME NEW wired, wired \in never PROVE Wired(wired)
  <2>1. PICK n \in DOMAIN told : wired = RemoveAt(told, n)
    BY ONLY <1>5, SameEdits
  <2> QED
    BY <1>2, <2>1, WiredEdit
<1>6. Wired(bare)
  <2>1. ASSUME NEW n \in DOMAIN told PROVE EventOwn(bare[n])
    <3>1. CASE told[n].kind = "delta"
      <4>1. bare[n] = [told[n] EXCEPT !.part = <<>>]
        BY <3>1
      <4> HIDE DEF bare
      <4>2. bare[n].kind = "delta"
        BY <3>1, <4>1
      <4> QED
        BY <1>0, <4>2 DEF ResponsesEvent
    <3>2. CASE told[n].kind # "delta"
      BY <1>2, <3>2
    <3> QED
      BY <3>1, <3>2
  <2>2. DOMAIN bare = DOMAIN told /\ bare = [n \in DOMAIN told |-> bare[n]]
    OBVIOUS
  <2> HIDE DEF bare
  <2> QED
    BY <1>2, <2>1, <2>2, ListImage DEF Wired
<1> HIDE DEF added, twice, never, bare
<1>7. \A wired \in R!Troubled(told) : wired \in R!Output!Troubled(told)
  BY DEF R!Troubled
<1> QED
  BY <1>1, <1>3, <1>4, <1>5, <1>6, <1>7

\* Nothing has been heard at the start.
LEMMA NothingHeard ==
    ASSUME Protocol \in Protocols
    PROVE  AccOwn(Route(A!NoBlocks, C!NoDelta, G!NoParts, R!NoOutput))
<1>0. IsSequence(<<>>) /\ DOMAIN <<>> = {}
  BY DEF IsSequence
<1>1. CASE Protocol = "Messages"
  <2>1. MessagesAcc(A!NoBlocks)
    BY <1>0 DEF MessagesAcc, A!NoBlocks
  <2> QED
    BY <1>1, <2>1 DEF AccOwn, Route
<1>2. CASE Protocol = "ChatCompletions"
  BY <1>0, <1>2 DEF AccOwn, Route, C!NoDelta
<1>3. CASE Protocol = "GenerateContent"
  <2>1. GoogleAcc(G!NoParts)
    BY <1>0 DEF GoogleAcc, G!NoParts
  <2> QED
    BY <1>3, <2>1 DEF AccOwn, Route
<1>4. CASE Protocol = "Responses"
  <2>1. IsFiniteSet(DOMAIN R!Output!NoItems) /\ DOMAIN R!Output!NoItems = {}
    BY FS_EmptySet DEF R!Output!NoItems
  <2>2. ToSet(<<>>) = {}
    BY DEF ToSet
  <2> QED
    BY <1>4, <2>1, <2>2 DEF AccOwn, Route, ResponsesAcc, R!NoOutput
<1> QED
  BY <1>1, <1>2, <1>3, <1>4 DEF Protocols

\* A response is told by its own model.
LEMMA StreamBegins ==
    ASSUME HostInvariant, StreamStarts
    PROVE  StreamInvariant'
<1>1. model \in Models /\ model' = model /\ kept' = kept /\ pc' = "stream" /\ ~Compacting
  BY DEF HostInvariant, StreamStarts, HeadersArrive, host
<1>2. Protocol \in Protocols
  BY <1>1, ModelsAssumption DEF Protocol
<1>3. AccOwn(acc)'
  <2>1. acc' = Route(A!NoBlocks, C!NoDelta, G!NoParts, R!NoOutput)
    BY DEF StreamStarts
  <2>2. AccOwn(acc')
    BY <1>2, <2>1, NothingHeard
  <2> QED
    BY <1>1, <2>2 DEF AccOwn, Route, Protocol, MessagesAcc, GoogleAcc, ResponsesAcc, PartOwn, Items
<1>4. Protocol # "ChatCompletions" => Wired(wire')
  <2>1. PICK output, told :
          /\ output \in Outputs(model)
          /\ told \in Route({A!Told(output)}, C!Told(output), G!Told(output), R!Told(output))
          /\ \/ wire' = told
             \/ wire' \in Route(A!Troubled(told), C!Troubled(told), G!Troubled(told),
                                R!Troubled(told))
    BY DEF StreamStarts
  <2>2. CASE Protocol = "Messages"
    <3>1. A!Produced(output, model) /\ told = A!Told(output)
      BY <1>1, <2>1, <2>2, OutputsAssumption DEF Route, Protocol
    <3>2. wire' = told \/ wire' \in A!Troubled(told)
      BY <2>1, <2>2 DEF Route
    <3> QED
      BY <2>2, <3>1, <3>2, MessagesTold
  <2>3. CASE Protocol = "GenerateContent"
    <3>1. G!Produced(output, model) /\ told \in G!Told(output)
      BY <1>1, <2>1, <2>3, OutputsAssumption DEF Route, Protocol
    <3>2. wire' = told \/ wire' \in G!Troubled(told)
      BY <2>1, <2>3 DEF Route
    <3> QED
      BY <2>3, <3>1, <3>2, GoogleTold, GoogleTroubled
  <2>4. CASE Protocol = "Responses"
    <3>1. R!Produced(output, model) /\ told \in R!Told(output)
      BY <1>1, <2>1, <2>4, OutputsAssumption DEF Route, Protocol
    <3>2. wire' = told \/ wire' \in R!Troubled(told)
      BY <2>1, <2>4 DEF Route
    <3> QED
      BY <2>4, <3>1, <3>2, ResponsesTold, ResponsesTroubled
  <2> QED
    BY <1>2, <2>2, <2>3, <2>4 DEF Protocols
<1>5. Protocol' # "ChatCompletions" =>
        IsSequence(wire') /\ \A n \in DOMAIN wire' : EventOwn(wire'[n])
  BY <1>1, <1>4 DEF Protocol, Wired
<1>6. \A n \in DOMAIN wire' : EventOwn(wire'[n]) => EventOwn(wire[n])'
  BY <1>1 DEF EventOwn, Route, Protocol, MessagesEvent, GoogleEvent, ResponsesEvent, PartOwn, Items
<1> QED
  BY <1>1, <1>3, <1>5, <1>6 DEF StreamInvariant, Compacting

\* So is a whole one.
LEMMA BodyBegins ==
    ASSUME HostInvariant, BodyArrives
    PROVE  StreamInvariant'
<1>1. model \in Models /\ model' = model /\ kept' = kept /\ pc' = "body" /\ ~Compacting
  BY DEF HostInvariant, BodyArrives, HeadersArrive, host
<1>2. Protocol \in Protocols
  BY <1>1, ModelsAssumption DEF Protocol
<1>3. PICK output \in Outputs(model) : response' = output
  BY DEF BodyArrives
<1>4. Protocol = "Messages" => Meant(output)
  BY <1>1, <1>3, OutputsAssumption, MessagesTold DEF Protocol
<1>5. Protocol = "ChatCompletions" => Meant(output)
  BY DEF Meant, Route
<1>6. ASSUME Protocol = "GenerateContent" PROVE Meant(output)
  <2>1. G!Produced(output, model)
    BY <1>1, <1>6, OutputsAssumption DEF Protocol
  <2>2. IsSequence(output)
    BY <2>1, SameMessages DEF G!Produced
  <2>3. \A n \in DOMAIN output : PartOwn(output[n])
    BY <2>1, GooglePartOwn
  <2> QED
    BY <1>6, <2>2, <2>3 DEF Meant, Route
<1>7. Protocol = "Responses" => Meant(output)
  BY <1>1, <1>3, OutputsAssumption, ResponsesOwn DEF Protocol
<1>8. Meant(output)
  BY <1>2, <1>4, <1>5, <1>6, <1>7 DEF Protocols
<1>9. Meant(response)'
  BY <1>1, <1>3, <1>8 DEF Meant, Route, Protocol, PartOwn, Items
<1>10. ASSUME Protocol = "ChatCompletions"
       PROVE  IsSequence(wire'[1].calls) /\ IsSequence(wire'[1].legacy)
  <2>1. PICK told \in Outputs(model) : wire' \in {<<body>> : body \in C!Body(told)}
    BY <1>10 DEF BodyArrives, Bodies, Route
  <2>2. PICK body \in C!Body(told) : wire' = <<body>>
    BY <2>1
  <2>3. IsSequence(told.calls)
    BY <1>1, <1>10, <2>1, OutputsAssumption, SameChat DEF C!Produced, Protocol
  <2>4. IsSequence(<<>>) /\ IsSequence(<<told.calls[1]>>)
    BY DEF IsSequence, ToSet
  <2>5. body.calls \in {<<>>, told.calls} /\ body.legacy \in {<<>>, <<told.calls[1]>>}
    <3> DEFINE legacy == told.calls # <<>> /\ told.calls[1].id = C!LegacyId
               content == IF told.content = <<>> THEN <<>> ELSE <<told.content>>
               plain == [content |-> content, refusal |-> <<>>, reasoning |-> told.reasoning,
                         calls |-> IF legacy THEN <<>> ELSE told.calls,
                         legacy |-> IF legacy THEN <<told.calls[1]>> ELSE <<>>]
               refused == [plain EXCEPT !.content = <<>>, !.refusal = content]
    <3>1. body \in {plain, refused}
      BY <2>2 DEF C!Body
    <3>2. plain.calls \in {<<>>, told.calls} /\ plain.legacy \in {<<>>, <<told.calls[1]>>}
      BY ONLY TRUE
    <3>3. refused.calls = plain.calls /\ refused.legacy = plain.legacy
      BY ONLY TRUE
    <3> HIDE DEF plain, refused
    <3> QED
      BY <3>1, <3>2, <3>3
  <2> QED
    BY <2>2, <2>3, <2>4, <2>5
<1>11. Protocol' = Protocol
  BY <1>1 DEF Protocol
<1> QED
  BY <1>1, <1>9, <1>10, <1>11 DEF StreamInvariant, Compacting

-----------------------------------------------------------------------------
(* What the adapters keep of it.                                           *)

\* What can be read of a block says nothing of whose it is.
LEMMA OwnEdit ==
    ASSUME NEW v, NEW id, Own(v, id), NEW x
    PROVE  Own([v EXCEPT !.text = x], id) /\ Own([v EXCEPT !.thinking = x], id)
             /\ Own([v EXCEPT !.input = x], id)
<1> DEFINE Same(w) == /\ DOMAIN w = DOMAIN v /\ w.type = v.type
                      /\ "of" \in DOMAIN v => w.of = v.of
                      /\ "signature" \in DOMAIN v => w.signature = v.signature
<1>1. "type" \in DOMAIN v
  BY DEF Own
<1>2. ASSUME NEW w, Same(w) PROVE Own(w, id)
  <2>1. MadeBy(w) = MadeBy(v)
    BY <1>2 DEF MadeBy, Own
  <2> QED
    BY <1>2, <2>1 DEF Own
<1>3. Same([v EXCEPT !.text = x]) /\ Same([v EXCEPT !.thinking = x]) /\ Same([v EXCEPT !.input = x])
  BY <1>1
<1> HIDE DEF Same
<1> QED
  BY <1>2, <1>3

\* A thought is signed piece by piece.
LEMMA OwnSigned ==
    ASSUME NEW v, NEW id, Own(v, id), v.type = "thinking", NEW text \in Seq({id})
    PROVE  Own([v EXCEPT !.signature = @ \o text], id)
<1> DEFINE w == [v EXCEPT !.signature = @ \o text]
<1>1. /\ "type" \in DOMAIN v /\ DOMAIN w = DOMAIN v /\ w.type = v.type
      /\ "signature" \in DOMAIN v => w.signature = v.signature \o text
  BY DEF Own
<1> HIDE DEF w
<1>2. "signature" \in DOMAIN v => w.signature \in Seq({id})
  <2>1. "signature" \in DOMAIN v => v.signature \in Seq({id})
    BY DEF Own
  <2> QED
    BY <1>1, <2>1, ConcatProperties
<1>3. "signature" \in DOMAIN v => ToSet(w.signature) \subseteq {id}
  BY <1>2, ListOf
<1>4. MadeBy(w) \subseteq {id}
  BY <1>1, <1>3 DEF MadeBy
<1> QED
  BY <1>1, <1>2, <1>4 DEF Own, w

\* A block that is being heard.
Hearing(value, partial, stopped) == [value |-> value, partial |-> partial, stopped |-> stopped]

\* A list of such blocks of which one is changed.
Replaced(a, i, block) == [a EXCEPT !.blocks[i] = block]

\* What is left of it.
LEMMA HearingEdited ==
    ASSUME NEW v, NEW p, NEW z
    PROVE  LET old == Hearing(v, p, z)
           IN  /\ old.value = v /\ old.partial = p /\ old.stopped = z
               /\ \A w : [old EXCEPT !.value = w] = Hearing(w, p, z)
               /\ \A q : [old EXCEPT !.partial = q] = Hearing(v, q, z)
               /\ \A y : [old EXCEPT !.stopped = y] = Hearing(v, p, y)
<1> DEFINE old == Hearing(v, p, z)
<1>1. old.value = v /\ old.partial = p /\ old.stopped = z
  BY DEF Hearing
<1>2. \A w : [old EXCEPT !.value = w] = Hearing(w, p, z)
  BY DEF Hearing
<1>3. \A q : [old EXCEPT !.partial = q] = Hearing(v, q, z)
  BY DEF Hearing
<1>4. \A y : [old EXCEPT !.stopped = y] = Hearing(v, p, y)
  BY DEF Hearing
<1> QED
  BY <1>1, <1>2, <1>3, <1>4

\* The list stays one of the model's own.
LEMMA MessagesUpdated ==
    ASSUME NEW a, MessagesAcc(a), NEW i \in DOMAIN a.blocks, NEW v, NEW p, NEW z, Own(v, model.id)
    PROVE  MessagesAcc(Replaced(a, i, Hearing(v, p, z)))
<1> DEFINE block == Hearing(v, p, z)
           blocks == [a.blocks EXCEPT ![i] = block]
           b == Replaced(a, i, block)
<1>0. /\ block = [value |-> block.value, partial |-> block.partial, stopped |-> block.stopped]
      /\ block.value = v
  BY DEF Hearing
<1> HIDE DEF block
<1>1. a = [blocks |-> a.blocks, reason |-> a.reason, finished |-> a.finished]
  BY DEF MessagesAcc
<1>2. b = [blocks |-> blocks, reason |-> a.reason, finished |-> a.finished]
  BY <1>1 DEF Replaced
<1> HIDE DEF b
<1>3. IsSequence(blocks)
  <2>1. IsSequence(a.blocks)
    BY DEF MessagesAcc
  <2>2. DOMAIN blocks = DOMAIN a.blocks /\ blocks = [n \in DOMAIN a.blocks |-> blocks[n]]
    OBVIOUS
  <2> HIDE DEF blocks
  <2> QED
    BY <2>1, <2>2, ListImage
<1>4. \A n \in DOMAIN blocks : blocks[n] = IF n = i THEN block ELSE a.blocks[n]
  OBVIOUS
<1>5. DOMAIN blocks = DOMAIN a.blocks
  OBVIOUS
<1> HIDE DEF blocks
<1>6. MessagesAcc(b)
  BY <1>0, <1>2, <1>3, <1>4, <1>5 DEF MessagesAcc
<1> QED
  BY <1>6 DEF b, block

\* What is heard of a block is put behind what was.
LEMMA MessagesGrown ==
    ASSUME NEW a, MessagesAcc(a), NEW event, MessagesEvent(event),
           event.kind = "content_block_delta", NEW step \in A!Grown(a, event)
    PROVE  MessagesAcc(step.acc)
<1> DEFINE i == event.index
           old == a.blocks[i]
           x == event.text
<1>1. /\ i \in DOMAIN a.blocks
      /\ \/ event.field = "text" /\ old.value.type = "text"
            /\ step.acc = [a EXCEPT !.blocks[i].value.text = @ \o x]
         \/ event.field = "input" /\ old.value.type = "tool_use"
            /\ step.acc = Replaced(a, i, [old EXCEPT !.partial = @ \o x])
         \/ event.field = "thinking" /\ old.value.type = "thinking"
            /\ step.acc = Replaced(a, i, [old EXCEPT !.value.thinking = @ \o x])
         \/ event.field = "signature" /\ old.value.type = "thinking"
            /\ step.acc = Replaced(a, i, [old EXCEPT !.value.signature = @ \o x])
  <2>1. i \in DOMAIN a.blocks
    BY DEF A!Grown, A!Open
  <2>2. \/ event.field = "text" /\ old.value.type = "text"
        \/ event.field = "input" /\ old.value.type = "tool_use"
        \/ event.field = "thinking" /\ old.value.type = "thinking"
        \/ event.field = "signature" /\ old.value.type = "thinking"
    BY DEF A!Grown
  <2>3. CASE event.field = "text" /\ old.value.type = "text"
    BY <2>1, <2>3 DEF A!Grown
  <2>4. CASE event.field = "input" /\ old.value.type = "tool_use"
    BY <2>1, <2>4 DEF A!Grown, A!Updated, A!NoEffect, Replaced
  <2>5. CASE event.field = "thinking" /\ old.value.type = "thinking"
    BY <2>1, <2>5 DEF A!Grown, A!Updated, A!NoEffect, Replaced
  <2>6. CASE event.field = "signature" /\ old.value.type = "thinking"
    BY <2>1, <2>6 DEF A!Grown, A!Updated, A!NoEffect, Replaced
  <2> QED
    BY <2>2, <2>3, <2>4, <2>5, <2>6
<1>2. PICK v, p, z : old = Hearing(v, p, z) /\ Own(v, model.id)
  BY <1>1 DEF MessagesAcc, Hearing
<1>3. event.field = "signature" => x \in Seq({model.id})
  BY DEF MessagesEvent
<1>4. [a EXCEPT !.blocks[i].value.text = @ \o x] = Replaced(a, i, [old EXCEPT !.value.text = @ \o x])
  <2>1. a = [blocks |-> a.blocks, reason |-> a.reason, finished |-> a.finished]
    BY DEF MessagesAcc
  <2> QED
    BY <1>1, <2>1 DEF Replaced
<1>5. \/ step.acc = Replaced(a, i, [old EXCEPT !.value.text = @ \o x])
      \/ step.acc = Replaced(a, i, [old EXCEPT !.partial = @ \o x])
      \/ step.acc = Replaced(a, i, [old EXCEPT !.value.thinking = @ \o x])
      \/ /\ old.value.type = "thinking" /\ x \in Seq({model.id})
         /\ step.acc = Replaced(a, i, [old EXCEPT !.value.signature = @ \o x])
  BY <1>1, <1>3, <1>4
<1> HIDE DEF old, x, i
<1>6. \/ step.acc = Replaced(a, i, Hearing([v EXCEPT !.text = @ \o x], p, z))
      \/ step.acc = Replaced(a, i, Hearing(v, p \o x, z))
      \/ step.acc = Replaced(a, i, Hearing([v EXCEPT !.thinking = @ \o x], p, z))
      \/ /\ v.type = "thinking" /\ x \in Seq({model.id})
         /\ step.acc = Replaced(a, i, Hearing([v EXCEPT !.signature = @ \o x], p, z))
  <2>1. /\ [old EXCEPT !.value.text = @ \o x] = Hearing([v EXCEPT !.text = @ \o x], p, z)
        /\ [old EXCEPT !.value.thinking = @ \o x] = Hearing([v EXCEPT !.thinking = @ \o x], p, z)
        /\ [old EXCEPT !.value.signature = @ \o x] = Hearing([v EXCEPT !.signature = @ \o x], p, z)
        /\ [old EXCEPT !.partial = @ \o x] = Hearing(v, p \o x, z)
        /\ old.value = v
    <3>1. /\ old.value = v /\ old.partial = p
          /\ \A w : [old EXCEPT !.value = w] = Hearing(w, p, z)
          /\ \A q : [old EXCEPT !.partial = q] = Hearing(v, q, z)
      BY ONLY <1>2, HearingEdited
    <3> QED
      BY ONLY <3>1
  <2> QED
    BY ONLY <1>5, <2>1
<1>7. PICK w, q : step.acc = Replaced(a, i, Hearing(w, q, z)) /\ Own(w, model.id)
  BY <1>2, <1>6, OwnEdit, OwnSigned
<1>8. i \in DOMAIN a.blocks
  BY <1>1
<1> QED
  BY <1>7, <1>8, MessagesUpdated

\* Its end brings what it was given.
LEMMA MessagesStopped ==
    ASSUME NEW a, MessagesAcc(a), NEW event, NEW step \in A!Stopped(a, event)
    PROVE  MessagesAcc(step.acc)
<1> DEFINE i == event.index
           old == a.blocks[i]
<1>1. /\ i \in DOMAIN a.blocks
      /\ \/ step.acc = Replaced(a, i, [old EXCEPT !.stopped = TRUE])
         \/ step.acc = Replaced(a, i, Hearing([old.value EXCEPT !.input = old.partial], <<>>, TRUE))
  BY DEF A!Stopped, A!Open, A!Updated, A!NoEffect, Replaced, Hearing
<1>2. PICK v, p, z : old = Hearing(v, p, z) /\ Own(v, model.id)
  BY <1>1 DEF MessagesAcc, Hearing
<1> HIDE DEF old, i
<1>3. \/ step.acc = Replaced(a, i, Hearing(v, p, TRUE))
      \/ step.acc = Replaced(a, i, Hearing([v EXCEPT !.input = p], <<>>, TRUE))
  <2>1. /\ [old EXCEPT !.stopped = TRUE] = Hearing(v, p, TRUE)
        /\ old.value = v /\ old.partial = p
    <3>1. /\ old.value = v /\ old.partial = p
          /\ \A y : [old EXCEPT !.stopped = y] = Hearing(v, p, y)
      BY ONLY <1>2, HearingEdited
    <3> QED
      BY ONLY <3>1
  <2> QED
    BY ONLY <1>1, <2>1
<1>4. PICK w, q : step.acc = Replaced(a, i, Hearing(w, q, TRUE)) /\ Own(w, model.id)
  <2>1. Own([v EXCEPT !.input = p], model.id)
    BY ONLY <1>2, OwnEdit
  <2> QED
    BY ONLY <1>2, <1>3, <2>1
<1>5. i \in DOMAIN a.blocks
  BY <1>1
<1> QED
  BY <1>4, <1>5, MessagesUpdated

\* Every event leaves what is the model's own.
LEMMA MessagesPushed ==
    ASSUME Protocol = "Messages", NEW a, MessagesAcc(a), NEW event, MessagesEvent(event),
           NEW step \in A!Pushed(a, event)
    PROVE  MessagesAcc(step.acc)
<1>1. /\ a = [blocks |-> a.blocks, reason |-> a.reason, finished |-> a.finished]
      /\ IsSequence(a.blocks)
  BY DEF MessagesAcc
<1>2. CASE event.kind = "content_block_start"
  <2> DEFINE block == [value |-> event.block, partial |-> <<>>, stopped |-> FALSE]
             blocks == Append(a.blocks, block)
  <2>1. step.acc = [a EXCEPT !.blocks = Append(@, block)]
    BY <1>2 DEF A!Pushed, A!Started, A!NoEffect
  <2>2. step.acc = [blocks |-> blocks, reason |-> a.reason, finished |-> a.finished]
    BY <1>1, <2>1
  <2>3. Own(block.value, model.id)
    BY <1>2 DEF MessagesEvent
  <2>4. block = [value |-> block.value, partial |-> block.partial, stopped |-> block.stopped]
    OBVIOUS
  <2> HIDE DEF block
  <2>5. /\ IsSequence(blocks) /\ DOMAIN blocks = 1 .. Len(a.blocks) + 1
        /\ blocks[Len(a.blocks) + 1] = block
        /\ \A n \in 1 .. Len(a.blocks) : blocks[n] = a.blocks[n]
    BY ONLY <1>1, ListAppend
  <2>6. DOMAIN a.blocks = 1 .. Len(a.blocks) /\ Len(a.blocks) \in Nat
    BY ONLY <1>1, ListDomain
  <2>7. \A n \in DOMAIN blocks : n \in DOMAIN a.blocks \/ n = Len(a.blocks) + 1
    BY <2>5, <2>6
  <2> HIDE DEF blocks
  <2>8. ASSUME NEW n \in DOMAIN blocks
        PROVE  /\ blocks[n] = [value |-> blocks[n].value, partial |-> blocks[n].partial,
                               stopped |-> blocks[n].stopped]
               /\ Own(blocks[n].value, model.id)
    <3>1. CASE n \in DOMAIN a.blocks
      BY <2>5, <2>6, <3>1 DEF MessagesAcc
    <3>2. CASE n = Len(a.blocks) + 1
      BY <2>3, <2>4, <2>5, <3>2
    <3> QED
      BY <2>7, <3>1, <3>2
  <2> QED
    BY <2>2, <2>5, <2>8 DEF MessagesAcc
<1>3. CASE event.kind = "content_block_delta"
  BY <1>3, MessagesGrown DEF A!Pushed
<1>4. CASE event.kind = "content_block_stop"
  BY <1>4, MessagesStopped DEF A!Pushed
<1>5. CASE event.kind = "message_delta"
  <2>1. step.acc = [a EXCEPT !.reason = <<event.reason>>]
    BY <1>5 DEF A!Pushed, A!ReasonGiven, A!NoEffect
  <2>2. step.acc = [blocks |-> a.blocks, reason |-> <<event.reason>>, finished |-> a.finished]
    BY <1>1, <2>1
  <2> QED
    BY <2>2 DEF MessagesAcc
<1>6. CASE event.kind = "message_stop"
  <2>1. step.acc = [a EXCEPT !.finished = TRUE]
    <3>1. step \in A!MessageStopped(a)
      BY <1>6 DEF A!Pushed
    <3>2. step \in {[acc |-> [a EXCEPT !.finished = TRUE], text |-> <<>>]}
      BY <3>1, Zenon DEF A!MessageStopped, A!NoEffect
    <3> QED
      BY <3>2
  <2>2. step.acc = [blocks |-> a.blocks, reason |-> a.reason, finished |-> TRUE]
    BY <1>1, <2>1
  <2> QED
    BY <2>2 DEF MessagesAcc
<1>7. CASE event.kind \in {"message_start", "ping"}
  BY <1>7 DEF A!Pushed, A!NoEffect
<1>8. event.kind \in {"content_block_start", "content_block_delta", "content_block_stop",
                      "message_delta", "message_stop", "message_start", "ping"}
  BY DEF A!Pushed
<1> QED
  BY <1>2, <1>3, <1>4, <1>5, <1>6, <1>7, <1>8

\* Parts of the model's own.
OwnParts(parts) == IsSequence(parts) /\ \A n \in DOMAIN parts : PartOwn(parts[n])

\* One more leaves them so, whether it is new or a piece of one that is there.
LEMMA GoogleWithPart ==
    ASSUME NEW parts, OwnParts(parts), NEW incoming, PartOwn(incoming)
    PROVE  OwnParts(G!WithPart(parts, incoming))
<1> DEFINE same == {n \in DOMAIN parts : G!SameCall(parts[n], incoming)}
<1>1. IsSequence(parts) /\ \A n \in DOMAIN parts : PartOwn(parts[n])
  BY DEF OwnParts
<1>2. DOMAIN parts = 1 .. Len(parts) /\ Len(parts) \in Nat
  BY ONLY <1>1, ListDomain
<1>3. CASE same = {}
  <2> DEFINE more == Append(parts, incoming)
  <2>1. G!WithPart(parts, incoming) = more
    BY <1>3 DEF G!WithPart
  <2>2. /\ IsSequence(more) /\ DOMAIN more = 1 .. Len(parts) + 1
        /\ more[Len(parts) + 1] = incoming
        /\ \A n \in 1 .. Len(parts) : more[n] = parts[n]
    BY ONLY <1>1, ListAppend
  <2> HIDE DEF more
  <2>3. \A n \in DOMAIN more : PartOwn(more[n])
    <3>1. \A n \in DOMAIN more : n \in DOMAIN parts \/ n = Len(parts) + 1
      BY <1>2, <2>2
    <3> QED
      BY <1>1, <1>2, <2>2, <3>1
  <2> QED
    BY <2>1, <2>2, <2>3 DEF OwnParts
<1>4. CASE same # {}
  <2> DEFINE k == Min(same)
             merged == G!Merged(parts[k], incoming)
             next == [parts EXCEPT ![k] = merged]
  <2>1. k \in same
    <3>1. same \in SUBSET Nat
      BY <1>2
    <3> HIDE DEF same
    <3> QED
      BY <1>4, <3>1, LeastPosition
  <2>2. k \in DOMAIN parts /\ G!SameCall(parts[k], incoming)
    BY <2>1
  <2>3. G!WithPart(parts, incoming) = next
    BY <1>4, SameBounds DEF G!WithPart
  <2> HIDE DEF k
  <2>4. PartOwn(merged)
    <3> DEFINE part == parts[k]
    <3>1. /\ PartOwn(part) /\ part.type = "functionCall"
          /\ {"type", "signature", "id"} \subseteq DOMAIN part
      BY <1>1, <2>2 DEF G!SameCall, G!IsCall, PartOwn, Own
    <3>2. /\ DOMAIN merged = DOMAIN part /\ merged.type = part.type /\ merged.id = part.id
          /\ merged.signature \in {part.signature, incoming.signature}
      BY <3>1 DEF G!Merged
    <3> HIDE DEF merged
    <3>3. merged.signature \in Seq({model.id})
      BY <3>1, <3>2 DEF PartOwn, Own
    <3>4. MadeBy(merged) = ToSet(merged.signature)
      BY <3>1, <3>2 DEF MadeBy
    <3>5. MadeBy(merged) \subseteq {model.id}
      BY <3>3, <3>4, ListOf
    <3> QED
      BY <3>1, <3>2, <3>3, <3>5 DEF PartOwn, Own
  <2> HIDE DEF merged
  <2>5. IsSequence(next)
    <3>1. DOMAIN next = DOMAIN parts /\ next = [n \in DOMAIN parts |-> next[n]]
      OBVIOUS
    <3> HIDE DEF next
    <3> QED
      BY <1>1, <3>1, ListImage
  <2>6. \A n \in DOMAIN next : PartOwn(next[n])
    BY <1>1, <2>4
  <2> QED
    BY <2>3, <2>5, <2>6 DEF OwnParts
<1> QED
  BY <1>3, <1>4

\* How far the parts of a chunk are taken up.
TakenUp(h, parts, incoming, n) ==
    h = [s \in SUBSET (1 .. n) |-> IF s = {} THEN parts
                                   ELSE G!WithPart(h[s \ {Max(s)}], incoming[Max(s)])]

\* They can be taken up one after the other.
LEMMA GoogleTakesUp ==
    ASSUME NEW parts, NEW incoming, NEW N \in Nat
    PROVE  \E h : TakenUp(h, parts, incoming, N)
<1> DEFINE S == {n \in Nat : \E h : TakenUp(h, parts, incoming, n)}
<1>1. 0 \in S
  <2> DEFINE h == [s \in SUBSET (1 .. 0) |-> parts]
  <2>1. TakenUp(h, parts, incoming, 0)
    BY DEF TakenUp
  <2> QED
    BY <2>1
<1>2. ASSUME NEW n \in Nat, n \in S PROVE n + 1 \in S
  <2>1. PICK g : TakenUp(g, parts, incoming, n)
    BY <1>2
  <2> DEFINE x == n + 1
             D == SUBSET (1 .. n)
             E == SUBSET (1 .. x)
             h == [s \in E |-> IF x \in s THEN G!WithPart(g[s \ {x}], incoming[x]) ELSE g[s]]
  <2>2. \A s \in E : IF x \in s THEN s \ {x} \in D ELSE s \in D
    OBVIOUS
  <2>3. \A s \in E : x \in s => Max(s) = x
    <3>1. SUFFICES ASSUME NEW s \in E, x \in s PROVE Max(s) = x
      OBVIOUS
    <3>2. x \in Nat /\ s \in SUBSET (1 .. x) /\ s # {}
      BY <3>1
    <3>3. Max(s) \in s /\ \A y \in s : Max(s) >= y
      BY <3>2, GreatestPosition
    <3>4. Max(s) \in 1 .. x /\ Max(s) >= x
      BY <3>1, <3>2, <3>3
    <3> QED
      BY ONLY <3>2, <3>4
  <2>4. \A s \in D : g[s] = IF s = {} THEN parts ELSE G!WithPart(g[s \ {Max(s)}], incoming[Max(s)])
    BY <2>1 DEF TakenUp
  <2>5. \A s \in D : x \notin s /\ s \in E
    OBVIOUS
  <2>6. \A s \in D : h[s] = g[s]
    BY <2>5
  <2>7. \A s \in E : x \in s => h[s] = G!WithPart(g[s \ {x}], incoming[x])
    OBVIOUS
  <2>8. DOMAIN h = E /\ h = [s \in E |-> h[s]]
    OBVIOUS
  <2> HIDE DEF h, D
  <2>9. ASSUME NEW s \in E
        PROVE  h[s] = IF s = {} THEN parts ELSE G!WithPart(h[s \ {Max(s)}], incoming[Max(s)])
    <3>1. CASE x \in s
      BY <2>2, <2>3, <2>6, <2>7, <3>1
    <3>2. CASE x \notin s
      <4>1. s \in D /\ s \ {Max(s)} \in D
        BY <2>2, <3>2 DEF D
      <4> QED
        BY <2>4, <2>6, <4>1
    <3> QED
      BY <3>1, <3>2
  <2>10. TakenUp(h, parts, incoming, x)
    BY <2>8, <2>9 DEF TakenUp
  <2> QED
    BY <2>10
<1> HIDE DEF S
<1>3. N \in S
  BY <1>1, <1>2, SetInduction
<1> QED
  BY <1>3 DEF S

\* So a chunk of the model's own leaves them so.
LEMMA GoogleFolded ==
    ASSUME NEW parts, OwnParts(parts), NEW incoming, OwnParts(incoming)
    PROVE  OwnParts(G!FoldLeft(G!WithPart, parts, incoming))
<1> DEFINE N == Len(incoming)
           D == SUBSET (1 .. N)
           iter == CHOOSE f : TakenUp(f, parts, incoming, N)
<1>1. N \in Nat /\ DOMAIN incoming = 1 .. N /\ \A n \in 1 .. N : PartOwn(incoming[n])
  BY ListDomain DEF OwnParts
<1>2. G!FoldLeft(G!WithPart, parts, incoming) = iter[1 .. N]
  BY <1>1, SameBounds DEF G!FoldLeft, G!MapThenFoldSet, TakenUp
<1>3. TakenUp(iter, parts, incoming, N)
  BY <1>1, GoogleTakesUp
<1> HIDE DEF iter
<1>4. \A s \in D : iter[s] = IF s = {} THEN parts
                             ELSE G!WithPart(iter[s \ {Max(s)}], incoming[Max(s)])
  BY <1>3 DEF TakenUp
<1> DEFINE S == {n \in Nat : n <= N => OwnParts(iter[1 .. n])}
<1>5. 0 \in S
  <2>1. 1 .. 0 = {} /\ {} \in D
    OBVIOUS
  <2> QED
    BY <1>4, <2>1
<1>6. ASSUME NEW n \in Nat, n \in S PROVE n + 1 \in S
  <2>1. SUFFICES ASSUME n + 1 <= N PROVE OwnParts(iter[1 .. n + 1])
    OBVIOUS
  <2> DEFINE s == 1 .. n + 1
  <2>2. s \in D /\ s # {} /\ n + 1 \in s /\ s \ {n + 1} = 1 .. n /\ n <= N /\ n + 1 \in 1 .. N
    <3>1. n + 1 \in s /\ n <= N /\ n + 1 \in 1 .. N
      BY <1>1, <2>1
    <3>2. s \ {n + 1} = 1 .. n
      OBVIOUS
    <3>3. \A y \in s : y \in 1 .. N
      BY <1>1, <2>1
    <3> QED
      BY <3>1, <3>2, <3>3
  <2>3. Max(s) = n + 1
    <3>1. Max(s) \in s /\ \A y \in s : Max(s) >= y
      BY <1>1, <2>2, GreatestPosition
    <3> QED
      BY <2>2, <3>1
  <2> HIDE DEF s
  <2>4. iter[s] = G!WithPart(iter[1 .. n], incoming[n + 1])
    BY <1>4, <2>2, <2>3
  <2>5. OwnParts(iter[1 .. n]) /\ PartOwn(incoming[n + 1])
    BY <1>1, <1>6, <2>2
  <2> QED
    BY <2>4, <2>5, GoogleWithPart DEF s
<1> HIDE DEF S
<1>7. N \in S
  BY <1>1, <1>5, <1>6, SetInduction
<1> QED
  BY <1>1, <1>2, <1>7 DEF S

\* A chunk is taken up whole.
LEMMA GooglePushed ==
    ASSUME NEW a, GoogleAcc(a), NEW event, GoogleEvent(event), NEW step \in G!Pushed(a, event)
    PROVE  GoogleAcc(step.acc)
<1>1. CASE event.kind = "chunk"
  <2> DEFINE parts == G!FoldLeft(G!WithPart, a.parts, event.parts)
  <2>1. step.acc.parts = parts
    <3> HIDE DEF parts
    <3>1. G!Pushed(a, event) \subseteq {[acc |-> [parts |-> parts, reason |-> a.reason \o event.reason],
                                         text |-> G!Shown(event.parts)]}
      BY <1>1 DEF G!Pushed, parts
    <3>2. step = [acc |-> [parts |-> parts, reason |-> a.reason \o event.reason],
                  text |-> G!Shown(event.parts)]
      BY <3>1, Zenon
    <3>3. step.acc = [parts |-> parts, reason |-> a.reason \o event.reason]
      BY <3>2, Zenon
    <3> QED
      BY <3>3
  <2>2. OwnParts(parts)
    BY <1>1, GoogleFolded DEF OwnParts, GoogleAcc, GoogleEvent
  <2> HIDE DEF parts
  <2> QED
    BY <2>1, <2>2 DEF GoogleAcc, OwnParts
<1>2. CASE event.kind # "chunk"
  BY <1>2 DEF G!Pushed
<1> QED
  BY <1>1, <1>2

\* Items are put in by their index, and put together when all are there.
LEMMA ResponsesPushed ==
    ASSUME NEW a, ResponsesAcc(a), NEW event, ResponsesEvent(event), NEW step \in R!Pushed(a, event)
    PROVE  ResponsesAcc(step.acc)
<1>1. PICK items, part, final : a = [items |-> items, part |-> part, final |-> final]
  BY DEF ResponsesAcc
<1>2. /\ IsFiniteSet(DOMAIN items) /\ \A n \in DOMAIN items : MadeBy(items[n]) \subseteq {model.id}
      /\ \A output \in ToSet(final) : Items(output)
  BY <1>1 DEF ResponsesAcc
<1>3. ASSUME NEW x, NEW y, NEW z, step.acc = [items |-> x, part |-> y, final |-> z],
             IsFiniteSet(DOMAIN x), \A n \in DOMAIN x : MadeBy(x[n]) \subseteq {model.id},
             \A output \in ToSet(z) : Items(output)
      PROVE  ResponsesAcc(step.acc)
  BY <1>3 DEF ResponsesAcc
<1>4. CASE event.kind = "delta"
  <2>1. step.acc = [a EXCEPT !.part = R!Output!PartAfter(event, @)]
    BY <1>4 DEF R!Pushed
  <2>2. step.acc = [items |-> items, part |-> R!Output!PartAfter(event, part), final |-> final]
    BY <1>1, <2>1
  <2> QED
    BY <1>2, <1>3, <2>2
<1>5. CASE event.kind = "done"
  <2> DEFINE more == R!Output!Inserted(items, event)
  <2>1. step.acc = [a EXCEPT !.items = R!Output!Inserted(@, event)]
    BY <1>5 DEF R!Pushed
  <2>2. step.acc = [items |-> more, part |-> part, final |-> final]
    BY <1>1, <2>1
  <2>3. DOMAIN more = DOMAIN items \cup {event.index}
    BY DEF R!Output!Inserted
  <2>4. IsFiniteSet(DOMAIN more)
    BY <1>2, <2>3, FS_AddElement
  <2>5. \A n \in DOMAIN more : MadeBy(more[n]) \subseteq {model.id}
    BY <1>2, <1>5, <2>3 DEF ResponsesEvent, R!Output!Inserted
  <2> HIDE DEF more
  <2> QED
    BY <1>2, <1>3, <2>2, <2>4, <2>5
<1>6. CASE event.kind = "completed"
  <2>1. PICK output \in R!Output!FinalOutput(items, event.output) :
            step.acc = [a EXCEPT !.final = <<output>>]
    BY <1>1, <1>6 DEF R!Pushed
  <2>2. step.acc = [items |-> items, part |-> part, final |-> <<output>>]
    BY <1>1, <2>1
  <2>3. Items(output)
    <3>1. CASE output = event.output
      BY <1>6, <3>1 DEF ResponsesEvent
    <3>2. CASE output \in R!Output!Assembled(items)
      <4> DEFINE N == Cardinality(DOMAIN items)
      <4>1. N \in Nat
        BY <1>2, FS_CardinalityType
      <4>2. R!Output!Cardinality(DOMAIN items) = N
        BY DEF R!Output!Cardinality, Cardinality
      <4>3. DOMAIN items = 1 .. N /\ output = [n \in 1 .. N |-> items[n]]
        BY <3>2, <4>2 DEF R!Output!Assembled
      <4> HIDE DEF N
      <4>4. IsSequence(output)
        <5>1. DOMAIN output = 1 .. N /\ output = [n \in 1 .. N |-> output[n]]
          BY <4>3
        <5> QED
          BY <4>1, <5>1, ListMade
      <4> QED
        BY <1>2, <4>3, <4>4 DEF Items
    <3> QED
      BY <2>1, <3>1, <3>2 DEF R!Output!FinalOutput
  <2>4. ToSet(<<output>>) = {output}
    BY DEF ToSet
  <2> QED
    BY <1>2, <1>3, <2>2, <2>3, <2>4
<1>7. CASE event.kind = "other"
  BY <1>7 DEF R!Pushed
<1>8. event.kind \in {"delta", "done", "completed", "other"}
  BY DEF R!Pushed
<1> QED
  BY <1>4, <1>5, <1>6, <1>7, <1>8

\* Whatever an adapter keeps of a response is its model's own.
LEMMA PushedOwn ==
    ASSUME model \in Models, NEW a, AccOwn(a), NEW event,
           Protocol # "ChatCompletions" => EventOwn(event),
           NEW step \in Route(A!Pushed(a, event), C!Pushed(a, event),
                              G!Pushed(a, event), R!Pushed(a, event))
    PROVE  AccOwn(step.acc)
<1>1. Protocol \in Protocols
  BY ModelsAssumption DEF Protocol
<1>2. CASE Protocol = "Messages"
  BY <1>2, MessagesPushed DEF Route, AccOwn, EventOwn
<1>3. CASE Protocol = "ChatCompletions"
  <2>1. step \in C!Pushed(a, event) /\ IsSequence(a.legacy)
    BY <1>3 DEF Route, AccOwn
  <2>2. step.acc = a \/ step.acc = C!Taken(a, event)
    BY <2>1 DEF C!Pushed
  <2>3. \A legacy, piece : IsSequence(C!WithLegacy(legacy, piece))
    BY DEF C!WithLegacy, IsSequence, ToSet
  <2>4. IsSequence(C!Taken(a, event).legacy)
    BY <2>1, <2>3 DEF C!Taken
  <2> QED
    BY <1>3, <2>1, <2>2, <2>4 DEF Route, AccOwn
<1>4. CASE Protocol = "GenerateContent"
  BY <1>4, GooglePushed DEF Route, AccOwn, EventOwn
<1>5. CASE Protocol = "Responses"
  BY <1>5, ResponsesPushed DEF Route, AccOwn, EventOwn
<1> QED
  BY <1>1, <1>2, <1>3, <1>4, <1>5 DEF Protocols

-----------------------------------------------------------------------------
(* Steps that leave the conversation alone.                                *)

\* What a call was let through with.
RequestIsAcceptable ==
    model \in Models =>
        /\ Requests(Sent, continuation, Specs) # {} <=>
              Accepted(model, Sent, continuation, Specs)
        /\ Protocol = "GenerateContent" =>
              (Valid(conversation, continuation) <=>
                  /\ continuation.protocol = model.protocol
                  /\ Bound(conversation, continuation.checkpoints, model.id))

\* It depends on the host alone,
LEMMA RequestNow == RequestIsAcceptable
<1>1. G!Valid(conversation, continuation.checkpoints, model) <=>
         Bound(conversation, continuation.checkpoints, model.id)
  BY DEF G!Valid, Bound
<1>2. Protocol = "GenerateContent" =>
        (Valid(conversation, continuation) <=>
            /\ continuation.protocol = model.protocol
            /\ Bound(conversation, continuation.checkpoints, model.id))
  BY <1>1 DEF Valid, Route, Protocol
<1> QED
  BY <1>2, AcceptedRequests DEF RequestIsAcceptable

\* after a step too.
LEMMA RequestNext == RequestIsAcceptable'
BY RequestNow, PTL

\* The host keeps what it has.
LEMMA HostStays ==
    ASSUME HostInvariant, UNCHANGED host
    PROVE  HostInvariant'
BY DEF HostInvariant, host

\* A call that goes on is one that was let through.
LEMMA CallStays ==
    ASSUME HostInvariant, CallInvariant, UNCHANGED <<host, kept>>,
           pc # "idle", pc' # "idle",
           \/ pc # "credentials" \/ pc' = "credentials" \/ Compacting
           \/ Requests(Sent, continuation, Specs) # {}
    PROVE  CallInvariant'
<1>1. /\ conversation' = conversation /\ continuation' = continuation /\ contents' = contents
      /\ model' = model /\ kept' = kept
  BY DEF host
<1>2. /\ Protocol' = Protocol /\ Specs' = Specs /\ Sent' = Sent /\ Pending' = Pending
      /\ Keeps' = Keeps /\ Compacting' = Compacting
  BY <1>1 DEF Protocol, Specs, Sent, Pending, Keeps, Compacting
<1>3. model \in Models
  BY DEF HostInvariant
<1>4. /\ Requests(Sent, continuation, Specs) # {} <=> (Requests(Sent, continuation, Specs) # {})'
      /\ Protocol = "GenerateContent" =>
            (Valid(conversation, continuation) <=> Valid(conversation, continuation)')
  BY <1>1, <1>2, <1>3, RequestNow, RequestNext DEF RequestIsAcceptable
<1> QED
  BY <1>1, <1>2, <1>4 DEF CallInvariant

\* A call that is over leaves nothing.
LEMMA NothingLeft ==
    ASSUME HostInvariant', pc' = "idle", kept' = {}
    PROVE  ConversationInvariant'
<1>1. ~Compacting'
  BY DEF Compacting
<1> QED
  BY <1>1 DEF ConversationInvariant, CallInvariant, StreamInvariant, AnswerInvariant

\* So a failure changes nothing for the host.
LEMMA FailKeeps ==
    ASSUME HostInvariant, Over, UNCHANGED host
    PROVE  ConversationInvariant'
BY HostStays, NothingLeft DEF Over

\* The end of a response that was received whole.
LEMMA EndsKeeps ==
    ASSUME ConversationInvariant, ~Compacting, pc \notin {"idle", "credentials"},
           NEW found, \A f \in found : Found(f), NEW failure, Ends(found, failure)
    PROVE  ConversationInvariant'
<1>1. CASE Fail(failure)
  BY <1>1, FailKeeps DEF Fail, ConversationInvariant
<1>2. ASSUME NEW f \in found, Completes(f) PROVE ConversationInvariant'
  <2>1. HostInvariant /\ CallInvariant /\ Found(f)
    BY DEF ConversationInvariant
  <2>2. AnswerInvariant'
    BY ONLY ~Compacting, pc \notin {"idle", "credentials"}, <1>2, <2>1, CompletesInvariant
  <2>3. pc' = "completed" /\ UNCHANGED <<host, kept>>
    BY <1>2 DEF Completes
  <2>4. HostInvariant' /\ CallInvariant'
    BY <2>1, <2>3, HostStays, CallStays
  <2> QED
    BY <2>2, <2>3, <2>4 DEF ConversationInvariant, StreamInvariant
<1> QED
  BY <1>1, <1>2 DEF Ends

-----------------------------------------------------------------------------
(* The host between calls.                                                 *)

\* What it says or does then is only of the conversation.
LEMMA HostStep ==
    ASSUME ConversationInvariant, Idle, HostInvariant'
    PROVE  ConversationInvariant'
<1>1. pc' = "idle" /\ kept' = {}
  BY DEF ConversationInvariant, CallInvariant, Idle
<1> QED
  BY <1>1, NothingLeft

\* A message that is new is not in the continuation.
LEMMA PushedKeeps ==
    ASSUME HostInvariant, NEW message, Pushed(message),
           Sound(Append(conversation, message), Append(contents, <<>>))
    PROVE  HostInvariant'
<1> DEFINE more == Append(contents, <<>>)
<1>1. conversation' = Append(conversation, message) /\ contents' = more
      /\ UNCHANGED <<continuation, model>>
  BY DEF Pushed
<1>2. Sound(conversation, contents) /\ Traced(contents, continuation)
  BY DEF HostInvariant
<1>3. IsSequence(contents)
  BY <1>2 DEF Sound
<1>4. DOMAIN contents = 1 .. Len(contents) /\ Len(contents) \in Nat
  BY ONLY <1>3, ListDomain
<1>5. /\ DOMAIN more = 1 .. Len(contents) + 1 /\ more[Len(contents) + 1] = <<>>
      /\ \A i \in 1 .. Len(contents) : more[i] = contents[i]
  <2> DEFINE x == <<>>
  <2> HIDE DEF x
  <2>1. /\ DOMAIN Append(contents, x) = 1 .. Len(contents) + 1
        /\ Append(contents, x)[Len(contents) + 1] = x
        /\ \A i \in 1 .. Len(contents) : Append(contents, x)[i] = contents[i]
    BY ONLY <1>3, ListAppend
  <2> QED
    BY <2>1 DEF x
<1> HIDE DEF more
<1>6. Traced(more, continuation)
  <2>1. SUFFICES ASSUME NEW i \in DOMAIN more, more[i] # <<>>
                 PROVE  \E n \in DOMAIN continuation.checkpoints :
                           /\ continuation.checkpoints[n].index = i
                           /\ more[i] = <<Content(continuation, n)>>
    BY DEF Traced
  <2>2. i \in DOMAIN contents /\ more[i] = contents[i]
    BY <1>4, <1>5, <2>1
  <2> QED
    BY <1>2, <2>1, <2>2 DEF Traced
<1> QED
  BY <1>1, <1>6 DEF HostInvariant, more

\* The user speaks when every call is answered.
LEMMA SayKeeps ==
    ASSUME ConversationInvariant, NEW user \in Sayings, Say(user)
    PROVE  ConversationInvariant'
<1>1. HostInvariant /\ Sound(conversation, contents) /\ Pending = {}
  BY DEF ConversationInvariant, HostInvariant, Say
<1>2. \A i \in DOMAIN conversation : LastAnswer(conversation, i) => Settled(conversation, i)
  BY <1>1, PendingCalls
<1>3. Formed(user) /\ user.role = "user"
  <2>1. user = User(user.content, user.images, user.documents)
    BY SayingsAssumption
  <2> HIDE DEF Formed
  <2>2. user.role = "user"
    BY <2>1 DEF User
  <2> QED
    BY <2>1, <2>2 DEF Formed
<1> DEFINE x == <<>>
<1> HIDE DEF x
<1>4. Sound(Append(conversation, user), Append(contents, x))
  BY ONLY <1>1, <1>2, <1>3, SoundUser
<1>5. HostInvariant'
  BY <1>1, <1>4, PushedKeeps DEF Say, x
<1> QED
  BY <1>5, HostStep DEF Say

\* A tool answers a call.
LEMMA ResultFormed ==
    ASSUME NEW call, NEW vision, NEW result \in Executed(Tools, call, vision, FALSE)
    PROVE  Formed(result) /\ result.role = "tool" /\ result.call = call.id
<1>0. IsSequence(<<>>)
  BY DEF IsSequence
<1>1. \E how, images : result = Result(call.id, how, images) /\ IsSequence(images)
  <2> DEFINE named == {t \in Tools : t.name = call.name}
  <2>1. CASE named = {}
    BY <1>0, <2>1 DEF Executed
  <2>2. CASE named # {}
    <3>1. PICK t \in named :
              result \in IF Permitted(t, vision, FALSE)
                         THEN {Result(call.id, "success", t.images),
                               Result(call.id, "failed", <<>>)}
                         ELSE {Result(call.id, "refused", <<>>)}
      BY <2>2 DEF Executed
    <3>2. IsSequence(t.images)
      BY ToolsAssumption
    <3> QED
      BY <1>0, <3>1, <3>2
  <2> QED
    BY <2>1, <2>2
<1> QED
  BY <1>1 DEF Formed, Result

\* It is one of the last answer.
LEMMA RunToolKeeps ==
    ASSUME ConversationInvariant, RunTool
    PROVE  ConversationInvariant'
<1>1. HostInvariant /\ Sound(conversation, contents)
  BY DEF ConversationInvariant, HostInvariant
<1>2. PICK call \in Pending : \E result \in Executed(Tools, call, model.vision, FALSE) : Pushed(result)
  BY DEF RunTool
<1>3. PICK result \in Executed(Tools, call, model.vision, FALSE) : Pushed(result)
  BY <1>2
<1>4. Formed(result) /\ result.role = "tool" /\ result.call = call.id
  BY ResultFormed
<1>5. PICK i \in DOMAIN conversation :
          /\ LastAnswer(conversation, i) /\ Asks(conversation[i], call.id)
          /\ ~Interrupted(conversation, i)
          /\ \A n \in i + 1 .. Len(conversation) : conversation[n].call # call.id
  BY <1>1, PendingCalls
<1> DEFINE x == <<>>
<1> HIDE DEF x
<1>6. Sound(Append(conversation, result), Append(contents, x))
  BY ONLY <1>1, <1>4, <1>5, SoundResult
<1>7. HostInvariant'
  BY <1>1, <1>3, <1>6, PushedKeeps DEF x
<1> QED
  BY <1>7, HostStep DEF RunTool

\* A new continuation has nothing in it.
LEMMA RenewKeeps ==
    ASSUME ConversationInvariant, Renew
    PROVE  ConversationInvariant'
<1>1. /\ model \in Models /\ Sound(conversation, contents)
  BY DEF ConversationInvariant, HostInvariant
<1>2. /\ contents' = [i \in DOMAIN contents |-> <<>>] /\ continuation' = Fresh
      /\ UNCHANGED <<conversation, model>>
  BY DEF Renew
<1>3. Sound(conversation, contents')
  <2>1. IsSequence(contents) /\ Len(contents) = Len(conversation)
    BY <1>1 DEF Sound
  <2>2. DOMAIN contents' = DOMAIN contents /\ contents' = [i \in DOMAIN contents |-> contents'[i]]
    BY <1>2
  <2>3. IsSequence(contents') /\ Len(contents') = Len(contents)
    BY ONLY <2>1, <2>2, ListImage
  <2> QED
    BY <1>1, <2>1, <2>3 DEF Sound
<1>4. Faithful(Fresh)
  <2>1. IsSequence(<<>>) /\ DOMAIN <<>> = {}
    BY DEF IsSequence
  <2> QED
    BY <1>1, <2>1, ModelsAssumption DEF Faithful, Fresh, Protocol
<1>5. Traced(contents', Fresh)
  BY <1>2 DEF Traced
<1>6. HostInvariant'
  BY <1>1, <1>2, <1>3, <1>4, <1>5 DEF HostInvariant
<1> QED
  BY <1>6, HostStep DEF Renew

\* Another model is given the same.
LEMMA SwitchKeeps ==
    ASSUME ConversationInvariant, NEW other \in Models, Switch(other)
    PROVE  ConversationInvariant'
<1>1. HostInvariant'
  BY DEF ConversationInvariant, HostInvariant, Switch
<1> QED
  BY <1>1, HostStep DEF Switch

\* A call begins when all calls of tools are answered; a compaction by Google's adapter
\* with a continuation that is valid.
LEMMA CallingKeeps ==
    ASSUME ConversationInvariant, Complete \/ \E keep \in Keeps : Compact(keep)
    PROVE  ConversationInvariant'
<1>1. PICK keep : /\ Calling(keep)
                  /\ keep = {} \/ /\ keep \in Keeps
                                  /\ Protocol = "GenerateContent" => Valid(conversation, continuation)
  BY DEF Complete, Compact, Route
<1>2. /\ pc' = "credentials" /\ kept' = keep /\ Pending = {} /\ UNCHANGED host
      /\ HostInvariant
  BY <1>1 DEF Calling, ConversationInvariant
<1>3. HostInvariant'
  BY <1>2, HostStays
<1>4. /\ conversation' = conversation /\ continuation' = continuation /\ model' = model
      /\ Protocol' = Protocol /\ Pending' = Pending /\ Keeps' = Keeps
  BY <1>2 DEF host, Protocol, Pending, Keeps
<1>5. Compacting' =>
         /\ kept' \in Keeps'
         /\ Protocol' = "GenerateContent" => Valid(conversation, continuation)'
  <2>1. SUFFICES ASSUME Compacting'
                 PROVE  /\ kept' \in Keeps'
                        /\ Protocol' = "GenerateContent" => Valid(conversation, continuation)'
    OBVIOUS
  <2>2. keep # {}
    BY <1>2, <2>1 DEF Compacting
  <2>3. Protocol = "GenerateContent" =>
           (Valid(conversation, continuation) <=> Valid(conversation, continuation)')
    BY <1>2, <1>4, RequestNow, RequestNext DEF RequestIsAcceptable, HostInvariant
  <2> QED
    BY <1>1, <1>2, <1>4, <2>2, <2>3
<1>6. CallInvariant'
  BY <1>2, <1>4, <1>5 DEF CallInvariant
<1> QED
  BY <1>2, <1>3, <1>6 DEF ConversationInvariant, StreamInvariant, AnswerInvariant

\* The caller takes what it was given.
LEMMA AdoptKeeps ==
    ASSUME ConversationInvariant, Adopt
    PROVE  ConversationInvariant'
<1>1. HostInvariant'
  BY DEF ConversationInvariant, HostInvariant, AnswerInvariant, Adopt
<1> QED
  BY <1>1, NothingLeft DEF Adopt, Over

-----------------------------------------------------------------------------
(* A call.                                                                 *)

\* A request is made of what was accepted.
LEMMA StartKeeps ==
    ASSUME ConversationInvariant, Start
    PROVE  ConversationInvariant'
<1>1. /\ pc = "credentials" /\ pc' = "sending" /\ UNCHANGED <<host, kept>>
      /\ ~Compacting => Requests(Sent, continuation, Specs) # {}
  BY DEF Start, Accepts
<1>2. HostInvariant /\ CallInvariant
  BY DEF ConversationInvariant
<1>3. HostInvariant' /\ CallInvariant'
  BY <1>1, <1>2, HostStays, CallStays
<1> QED
  BY <1>1, <1>3 DEF ConversationInvariant, StreamInvariant, AnswerInvariant

\* Its headers come.
LEMMA HeadersKeep ==
    ASSUME ConversationInvariant, NEW next, HeadersArrive(next),
           next \in {"error body", "body", "stream"}, StreamInvariant'
    PROVE  ConversationInvariant'
<1>1. pc = "sending" /\ pc' = next /\ UNCHANGED <<host, kept>>
  BY DEF HeadersArrive
<1>2. HostInvariant /\ CallInvariant
  BY DEF ConversationInvariant
<1>3. HostInvariant' /\ CallInvariant'
  BY <1>1, <1>2, HostStays, CallStays
<1> QED
  BY <1>1, <1>3 DEF ConversationInvariant, AnswerInvariant

\* With what comes behind them.
LEMMA ArrivalKeeps ==
    ASSUME ConversationInvariant, Rejected \/ SummaryArrives \/ BodyArrives \/ StreamStarts
    PROVE  ConversationInvariant'
<1>1. HostInvariant
  BY DEF ConversationInvariant
<1>2. CASE Rejected
  <2>1. HeadersArrive("error body")
    BY <1>2 DEF Rejected
  <2>2. StreamInvariant'
    BY <2>1 DEF HeadersArrive, StreamInvariant
  <2> QED
    BY <2>1, <2>2, HeadersKeep
<1>3. CASE SummaryArrives
  <2>1. HeadersArrive("body") /\ Compacting
    BY <1>3 DEF SummaryArrives
  <2>2. StreamInvariant'
    BY <2>1 DEF HeadersArrive, StreamInvariant, Compacting
  <2> QED
    BY <2>1, <2>2, HeadersKeep
<1>4. CASE BodyArrives
  <2>1. HeadersArrive("body") /\ StreamInvariant'
    BY <1>1, <1>4, BodyBegins DEF BodyArrives
  <2> QED
    BY <2>1, HeadersKeep
<1>5. CASE StreamStarts
  <2>1. HeadersArrive("stream") /\ StreamInvariant'
    BY <1>1, <1>5, StreamBegins DEF StreamStarts
  <2> QED
    BY <2>1, HeadersKeep
<1> QED
  BY <1>2, <1>3, <1>4, <1>5

\* A body is read whole.
LEMMA BodyKeeps ==
    ASSUME ConversationInvariant, BodyRead
    PROVE  ConversationInvariant'
<1> DEFINE found == Route(A!Answers(response, wire[1]),
                          {[message |-> Reasoned(C!Parsed(wire[1])), content |-> <<>>]},
                          G!Answers(response, wire[1], Here), {})
<1>1. /\ pc = "body" /\ ~Compacting /\ model \in Models /\ Meant(response)
      /\ Protocol = "ChatCompletions" =>
            IsSequence(wire[1].calls) /\ IsSequence(wire[1].legacy)
      /\ \E failure : Ends(found, failure)
  BY DEF BodyRead, ConversationInvariant, HostInvariant, StreamInvariant
<1>2. \A f \in found : Found(f)
  BY <1>1, BodyFound
<1> HIDE DEF found
<1> QED
  BY <1>1, <1>2, EndsKeeps

\* A stream is read event by event.
LEMMA EventKeeps ==
    ASSUME ConversationInvariant, EventRead
    PROVE  ConversationInvariant'
<1> DEFINE event == Head(wire)
           pushed == Route(A!Pushed(acc, event), C!Pushed(acc, event),
                           G!Pushed(acc, event), R!Pushed(acc, event))
<1>1. /\ pc = "stream" /\ wire # <<>> /\ ~Compacting /\ model \in Models /\ AccOwn(acc)
      /\ Protocol # "ChatCompletions" => IsSequence(wire) /\ \A n \in DOMAIN wire : EventOwn(wire[n])
      /\ HostInvariant /\ CallInvariant
  BY DEF EventRead, ConversationInvariant, HostInvariant, StreamInvariant
<1>2. Protocol # "ChatCompletions" =>
         /\ EventOwn(event) /\ IsSequence(Tail(wire))
         /\ \A n \in DOMAIN Tail(wire) : EventOwn(Tail(wire)[n])
  <2>1. SUFFICES ASSUME Protocol # "ChatCompletions"
                 PROVE  /\ EventOwn(event) /\ IsSequence(Tail(wire))
                        /\ \A n \in DOMAIN Tail(wire) : EventOwn(Tail(wire)[n])
    OBVIOUS
  <2>2. /\ IsSequence(Tail(wire)) /\ event = wire[1] /\ 1 \in DOMAIN wire
        /\ \A i \in DOMAIN Tail(wire) : i + 1 \in DOMAIN wire /\ Tail(wire)[i] = wire[i + 1]
    BY <1>1, <2>1, ListTail
  <2> QED
    BY <1>1, <2>1, <2>2
<1>3. \A step \in pushed : AccOwn(step.acc)
  BY <1>1, <1>2, PushedOwn
<1>4. \/ \E failure : Fail(failure)
      \/ \E step \in pushed : \/ \E failure : Ends(Final(step.acc), failure)
                              \/ /\ acc' = step.acc /\ wire' = Tail(wire)
                                 /\ UNCHANGED <<host, pc, kept>>
  BY DEF EventRead
<1> HIDE DEF event, pushed
<1>5. CASE \E failure : Fail(failure)
  BY <1>1, <1>5, FailKeeps DEF Fail
<1>6. ASSUME NEW step \in pushed, NEW failure, Ends(Final(step.acc), failure)
      PROVE  ConversationInvariant'
  <2>1. \A f \in Final(step.acc) : Found(f)
    BY <1>1, <1>3, FinalFound
  <2> QED
    BY <1>1, <1>6, <2>1, EndsKeeps
<1>7. ASSUME NEW step \in pushed, acc' = step.acc, wire' = Tail(wire), UNCHANGED <<host, pc, kept>>
      PROVE  ConversationInvariant'
  <2>1. HostInvariant' /\ CallInvariant'
    BY <1>1, <1>7, HostStays, CallStays
  <2>2. pc' = "stream" /\ model' = model /\ ~Compacting'
    BY <1>1, <1>7 DEF host, Compacting
  <2>3. AccOwn(acc')
    BY <1>3, <1>7
  <2>4. AccOwn(acc)'
    BY <2>2, <2>3 DEF AccOwn, Route, Protocol, MessagesAcc, GoogleAcc, ResponsesAcc, PartOwn, Items
  <2>5. Protocol' # "ChatCompletions" =>
          IsSequence(wire') /\ \A n \in DOMAIN wire' : EventOwn(wire'[n])
    BY <1>2, <1>7, <2>2 DEF Protocol
  <2>6. \A n \in DOMAIN wire' : EventOwn(wire'[n]) => EventOwn(wire[n])'
    BY <2>2 DEF EventOwn, Route, Protocol, MessagesEvent, GoogleEvent, ResponsesEvent, PartOwn, Items
  <2> QED
    BY <2>1, <2>2, <2>4, <2>5, <2>6 DEF ConversationInvariant, StreamInvariant, AnswerInvariant
<1> QED
  BY <1>4, <1>5, <1>6, <1>7

\* Its end is that of its connection, or a mark.
LEMMA LastKeeps ==
    ASSUME ConversationInvariant, MarkRead \/ ConnectionEnds
    PROVE  ConversationInvariant'
<1>1. /\ pc = "stream" /\ ~Compacting /\ model \in Models /\ AccOwn(acc) /\ HostInvariant
  BY DEF MarkRead, ConnectionEnds, ConversationInvariant, HostInvariant, StreamInvariant
<1>2. \A f \in Final(acc) : Found(f)
  BY <1>1, FinalFound
<1>3. \/ \E failure : Ends(Final(acc), failure)
      \/ \E failure : Fail(failure)
  BY DEF MarkRead, ConnectionEnds
<1> QED
  BY <1>1, <1>2, <1>3, EndsKeeps, FailKeeps DEF Fail

\* What goes wrong leaves nothing.
LEMMA FailureKeeps ==
    ASSUME ConversationInvariant,
           \/ Refused \/ SendFails \/ ErrorBodyRead \/ BodyFails \/ StreamBreaks
           \/ NoSummary \/ Drop
    PROVE  ConversationInvariant'
<1>1. Over /\ UNCHANGED host
  BY DEF Refused, SendFails, ErrorBodyRead, BodyFails, StreamBreaks, NoSummary, Drop, Fail
<1> QED
  BY <1>1, FailKeeps DEF ConversationInvariant

-----------------------------------------------------------------------------
(* A conversation is compacted.                                            *)

\* What stands before a hole, and what behind it.
LEMMA RankSplit ==
    ASSUME NEW K, NEW d \in Nat \ {0}, d \notin K, 1 .. d - 1 \subseteq K, NEW n \in Nat
    PROVE  LET B == {i \in K : i < d}
           IN  /\ n < d => Rank(B, n) = n /\ Rank(K \ B, n) = 0 /\ Rank(K, n) = n
               /\ n >= d => Rank(B, n) = d - 1 /\ Rank(K \ B, n) = Rank(K, n) - (d - 1)
<1> DEFINE B == {i \in K : i < d}
           Q == K \ B
           S == {m \in Nat :
                   /\ m < d => Rank(B, m) = m /\ Rank(Q, m) = 0 /\ Rank(K, m) = m
                   /\ m >= d => Rank(B, m) = d - 1 /\ Rank(Q, m) = Rank(K, m) - (d - 1)}
<1>1. \A i \in Nat : (i \in B <=> i \in K /\ i < d) /\ (i \in Q <=> i \in K /\ ~(i < d))
  OBVIOUS
<1>2. \A m \in Nat : m + 1 < d => m + 1 \in K
  OBVIOUS
<1> HIDE DEF B, Q
<1>3. 0 \in S
  BY RankStep
<1>4. ASSUME NEW m \in Nat, m \in S PROVE m + 1 \in S
  <2>1. /\ Rank(B, m) \in Nat /\ Rank(Q, m) \in Nat /\ Rank(K, m) \in Nat
        /\ Rank(B, m + 1) = IF m + 1 \in B THEN Rank(B, m) + 1 ELSE Rank(B, m)
        /\ Rank(Q, m + 1) = IF m + 1 \in Q THEN Rank(Q, m) + 1 ELSE Rank(Q, m)
        /\ Rank(K, m + 1) = IF m + 1 \in K THEN Rank(K, m) + 1 ELSE Rank(K, m)
    BY RankStep
  <2>2. m + 1 \in Nat
    OBVIOUS
  <2>3. CASE m + 1 < d
    BY <1>1, <1>2, <1>4, <2>1, <2>2, <2>3
  <2>4. CASE m + 1 = d
    BY <1>1, <1>4, <2>1, <2>2, <2>4
  <2>5. CASE m + 1 > d
    BY <1>1, <1>4, <2>1, <2>2, <2>5
  <2> QED
    BY <2>3, <2>4, <2>5
<1> HIDE DEF S
<1>5. n \in S
  BY <1>3, <1>4, SetInduction
<1> QED
  BY <1>5 DEF S, Q, B

\* What is left of the conversation, and where it stands.
Before == {i \in kept : i < Min(Dropped)}
Shortened == Select(conversation, Before) \o <<Summary>> \o Select(conversation, kept \ Before)
Keeping == IsSequence(conversation) /\ kept \subseteq DOMAIN conversation /\ Dropped # {}

\* The summary stands where the first message stood that is gone.
LEMMA Hole ==
    ASSUME Keeping
    PROVE  LET d == Min(Dropped)
           IN  /\ d \in Nat \ {0} /\ d \in DOMAIN conversation /\ d \notin kept
               /\ 1 .. d - 1 \subseteq kept /\ \A i \in Dropped : d <= i
<1> DEFINE d == Min(Dropped)
<1>1. DOMAIN conversation = 1 .. Len(conversation) /\ Len(conversation) \in Nat
  BY ListDomain DEF Keeping
<1>2. d \in Dropped /\ \A i \in Dropped : d <= i
  <2>1. Dropped \in SUBSET Nat
    BY <1>1 DEF Dropped
  <2> QED
    BY <2>1, LeastPosition DEF Keeping
<1>3. d \in 1 .. Len(conversation) /\ d \notin kept
  BY <1>1, <1>2 DEF Dropped
<1>4. \A i \in 1 .. d - 1 : i \in kept
  <2>1. SUFFICES ASSUME NEW i \in 1 .. d - 1, i \notin kept PROVE FALSE
    OBVIOUS
  <2> HIDE DEF d
  <2>2. i \in Dropped /\ i \in Nat /\ i < d
    BY <1>1, <1>3, <2>1 DEF Dropped
  <2> QED
    BY <1>2, <1>3, <2>2
<1> HIDE DEF d
<1> QED
  BY <1>1, <1>2, <1>3, <1>4 DEF d

\* Everything that is kept is there, in its order.
LEMMA ShortenedPlaces ==
    ASSUME Keeping
    PROVE  LET d == Min(Dropped)
           IN  /\ IsSequence(Shortened) /\ Len(Shortened) = Cardinality(kept) + 1
               /\ d \in DOMAIN Shortened /\ Shortened[d] = Summary
               /\ \A i \in kept : /\ Retained[i] \in DOMAIN Shortened /\ Retained[i] \in Nat
                                  /\ Shortened[Retained[i]] = conversation[i]
               /\ \A n \in DOMAIN Shortened : n # d => \E i \in kept : n = Retained[i]
<1> DEFINE d == Min(Dropped)
           N == Len(conversation)
           Q == kept \ Before
           one == Select(conversation, Before)
           two == Select(conversation, Q)
           e == Summary
<1>1. /\ d \in Nat \ {0} /\ d \in DOMAIN conversation /\ d \notin kept
      /\ 1 .. d - 1 \subseteq kept
  BY Hole
<1>2. IsSequence(conversation) /\ DOMAIN conversation = 1 .. N /\ N \in Nat /\ kept \subseteq 1 .. N
  BY ListDomain DEF Keeping
<1>3. conversation \in Seq(ToSet(conversation))
  BY <1>2 DEF IsSequence
<1>4. Before = {i \in kept : i < d}
  BY DEF Before
<1>5. \A i \in kept : Retained[i] = Rank(kept, i) + (IF i > d THEN 1 ELSE 0)
  BY DEF Retained
<1> HIDE DEF d, N, e
<1>6. \A n \in Nat : /\ n < d => Rank(Before, n) = n /\ Rank(Q, n) = 0 /\ Rank(kept, n) = n
                     /\ n >= d => Rank(Before, n) = d - 1 /\ Rank(Q, n) = Rank(kept, n) - (d - 1)
  BY <1>1, <1>4, RankSplit
<1>7. /\ Len(one) = Rank(Before, N)
      /\ \A i \in 1 .. N : i \in Before =>
            Rank(Before, i) \in 1 .. Len(one) /\ one[Rank(Before, i)] = conversation[i]
      /\ \A n \in 1 .. Len(one) : \E i \in 1 .. N : i \in Before /\ n = Rank(Before, i)
      /\ IsSequence(one)
  BY <1>3, SelectRanks, SelectType, ListOf DEF N
<1> HIDE DEF Q
<1>8. /\ Len(two) = Rank(Q, N)
      /\ \A i \in 1 .. N : i \in Q =>
            Rank(Q, i) \in 1 .. Len(two) /\ two[Rank(Q, i)] = conversation[i]
      /\ \A n \in 1 .. Len(two) : \E i \in 1 .. N : i \in Q /\ n = Rank(Q, i)
      /\ IsSequence(two)
  BY <1>3, SelectRanks, SelectType, ListOf DEF N
<1> HIDE DEF one, two
<1> DEFINE first == one \o <<e>>
           all == first \o two
<1>9. IsSequence(<<e>>) /\ Len(<<e>>) = 1 /\ <<e>>[1] = e
  BY DEF IsSequence, ToSet
<1>10. /\ IsSequence(first) /\ Len(first) = Len(one) + 1
       /\ \A i \in 1 .. Len(one) : first[i] = one[i]
       /\ first[Len(one) + 1] = e
  <2> DEFINE f == <<e>>
  <2>1. IsSequence(f) /\ Len(f) = 1 /\ f[1] = e /\ IsSequence(one)
    BY <1>7, <1>9
  <2> HIDE DEF f
  <2>2. LET u == one \o f
        IN  /\ IsSequence(u) /\ Len(u) = Len(one) + Len(f)
            /\ \A i \in 1 .. Len(one) : u[i] = one[i]
            /\ \A i \in 1 .. Len(f) : u[Len(one) + i] = f[i]
    <3>1. IsSequence(one) /\ IsSequence(f)
      BY <2>1
    <3> QED
      BY ONLY <3>1, ListConcat
  <2>3. 1 \in 1 .. Len(f)
    BY <2>1
  <2> QED
    BY <2>1, <2>2, <2>3 DEF f
<1> HIDE DEF first
<1>11. /\ IsSequence(all) /\ Len(all) = Len(first) + Len(two)
       /\ DOMAIN all = 1 .. Len(first) + Len(two)
       /\ \A i \in 1 .. Len(first) : all[i] = first[i]
       /\ \A i \in 1 .. Len(two) : all[Len(first) + i] = two[i]
  <2>1. IsSequence(first) /\ IsSequence(two)
    BY <1>8, <1>10
  <2> QED
    BY ONLY <2>1, ListConcat
<1>12. Shortened = all
  BY DEF Shortened, all, first, one, two, Q, e
<1> HIDE DEF all
<1>13. /\ Len(one) = d - 1 /\ Len(first) = d
       /\ Len(two) = Rank(kept, N) - (d - 1) /\ Len(all) = Rank(kept, N) + 1
  <2>1. N >= d /\ Rank(kept, N) \in Nat
    BY <1>1, <1>2, RankStep
  <2> QED
    BY <1>1, <1>2, <1>6, <1>7, <1>8, <1>10, <1>11, <2>1
<1>14. Rank(kept, N) = Cardinality(kept)
  <2>1. kept \cap 1 .. N = kept
    BY <1>2
  <2> QED
    BY <2>1 DEF Rank
<1>15. d \in DOMAIN all /\ all[d] = e
  <2>1. Rank(kept, N) \in Nat /\ Rank(Q, N) \in Nat
    BY <1>2, RankStep
  <2> QED
    BY <1>1, <1>8, <1>10, <1>11, <1>13, <2>1
<1>16. ASSUME NEW i \in kept
       PROVE  Retained[i] \in DOMAIN all /\ Retained[i] \in Nat /\ all[Retained[i]] = conversation[i]
  <2>1. i \in 1 .. N /\ i # d /\ Rank(kept, i) \in Nat /\ Rank(Q, N) \in Nat
    BY <1>1, <1>2, RankStep
  <2>2. CASE i < d
    <3>1. i \in Before /\ Retained[i] = i /\ Rank(Before, i) = i
      BY <1>1, <1>4, <1>5, <1>6, <2>1, <2>2
    <3>2. i \in 1 .. Len(one) /\ one[i] = conversation[i]
      BY <1>7, <2>1, <3>1
    <3> QED
      BY <1>1, <1>10, <1>11, <1>8, <1>13, <2>1, <3>1, <3>2
  <2>3. CASE i > d
    <3>1. i \in Q /\ Retained[i] = Rank(kept, i) + 1 /\ Rank(Q, i) = Rank(kept, i) - (d - 1)
      BY <1>1, <1>4, <1>5, <1>6, <2>1, <2>3 DEF Q
    <3>2. Rank(Q, i) \in 1 .. Len(two) /\ two[Rank(Q, i)] = conversation[i]
      BY <1>8, <2>1, <3>1
    <3>3. Retained[i] = Len(first) + Rank(Q, i)
      BY <1>1, <1>13, <2>1, <3>1
    <3> QED
      BY <1>1, <1>8, <1>11, <1>13, <2>1, <3>2, <3>3
  <2> QED
    BY <1>1, <2>1, <2>2, <2>3
<1>17. ASSUME NEW n \in DOMAIN all, n # d PROVE \E i \in kept : n = Retained[i]
  <2>1. Rank(kept, N) \in Nat /\ Rank(Q, N) \in Nat
    BY <1>2, RankStep
  <2>2. CASE n < d
    <3>1. n \in kept /\ n \in Nat
      BY <1>1, <1>11, <1>13, <1>8, <2>1, <2>2
    <3>2. Retained[n] = n
      BY <1>1, <1>5, <1>6, <2>2, <3>1
    <3> QED
      BY <3>1, <3>2
  <2>3. CASE n > d
    <3>1. n - d \in 1 .. Len(two)
      BY <1>1, <1>8, <1>11, <1>13, <2>1, <2>3
    <3>2. PICK i \in 1 .. N : i \in Q /\ n - d = Rank(Q, i)
      BY <1>8, <3>1
    <3>3. i \in kept /\ i # d /\ ~(i < d) /\ i \in Nat
      BY <1>1, <1>4, <3>2 DEF Q
    <3>4. Rank(Q, i) = Rank(kept, i) - (d - 1) /\ Rank(kept, i) \in Nat
      BY <1>1, <1>6, <3>3, RankStep
    <3>5. Retained[i] = Rank(kept, i) + 1
      BY <1>1, <1>5, <3>3
    <3>6. n \in Nat
      BY <1>11, <1>13, <2>1, <1>8, <1>1
    <3> QED
      BY <1>1, <3>2, <3>3, <3>4, <3>5, <3>6
  <2>4. n \in Int
    BY <1>11, <1>13, <2>1, <1>8, <1>1
  <2> QED
    BY <1>1, <1>17, <2>2, <2>3, <2>4
<1> QED
  BY <1>11, <1>12, <1>13, <1>14, <1>15, <1>16, <1>17 DEF d, e

\* The order is that of the conversation, and nothing comes between what was together
\* behind the hole.
LEMMA ShortenedOrder ==
    ASSUME Keeping
    PROVE  /\ \A i \in kept, j \in kept : i < j <=> Retained[i] < Retained[j]
           /\ \A i \in kept : i + 1 \in kept /\ Min(Dropped) < i => Retained[i + 1] = Retained[i] + 1
           /\ \A i \in kept : Min(Dropped) < i <=> Min(Dropped) < Retained[i]
<1> DEFINE d == Min(Dropped)
<1>1. /\ d \in Nat \ {0} /\ d \notin kept /\ 1 .. d - 1 \subseteq kept
  BY Hole
<1>2. \A i \in kept : i \in Nat
  BY ListDomain DEF Keeping
<1>3. \A i \in kept : Retained[i] = Rank(kept, i) + (IF i > d THEN 1 ELSE 0)
  BY DEF Retained
<1> HIDE DEF d
<1>4. ASSUME NEW i \in kept, NEW j \in kept, i < j PROVE Retained[i] < Retained[j]
  <2>1. Rank(kept, i) < Rank(kept, j) /\ Rank(kept, i) \in Nat /\ Rank(kept, j) \in Nat
    BY <1>2, <1>4, RankMonotone, RankStep
  <2> QED
    BY <1>1, <1>2, <1>3, <1>4, <2>1
<1>5. ASSUME NEW i \in kept, NEW j \in kept, Retained[i] < Retained[j] PROVE i < j
  <2>1. i \in Nat /\ j \in Nat
    BY <1>2
  <2>2. Rank(kept, i) \in Nat /\ Rank(kept, j) \in Nat
    BY <2>1, RankStep
  <2>3. Retained[i] \in Nat /\ Retained[j] \in Nat
    BY <1>3, <2>2
  <2> QED
    BY <1>4, <1>5, <2>1, <2>3
<1>6. ASSUME NEW i \in kept, i + 1 \in kept, d < i PROVE Retained[i + 1] = Retained[i] + 1
  <2>1. Rank(kept, i + 1) = Rank(kept, i) + 1 /\ Rank(kept, i) \in Nat
    BY <1>2, <1>6, RankStep
  <2> QED
    BY <1>1, <1>2, <1>3, <1>6, <2>1
<1>7. ASSUME NEW i \in kept PROVE d < i <=> d < Retained[i]
  <2> DEFINE B == {x \in kept : x < d}
  <2>1. i \in Nat /\ i # d /\ Rank(kept, i) \in Nat /\ Rank(kept \ B, i) \in Nat
    BY <1>1, <1>2, RankStep
  <2>2. /\ d \in Nat \ {0} /\ 1 .. d - 1 \subseteq kept /\ d \notin kept /\ i \in Nat
    BY <1>1, <2>1
  <2>4. /\ i < d => Rank(kept, i) = i
        /\ i >= d => Rank(kept \ B, i) = Rank(kept, i) - (d - 1)
    BY ONLY <2>2, RankSplit, ZenonT(60)
  <2>3. ASSUME i > d PROVE Rank(kept \ B, i) > 0
    <3>1. i \in kept \ B /\ i - 1 \in Nat /\ (i - 1) + 1 = i
      BY <1>1, <2>1, <2>3
    <3> HIDE DEF B
    <3>2. Rank(kept \ B, i) = Rank(kept \ B, i - 1) + 1 /\ Rank(kept \ B, i - 1) \in Nat
      BY <3>1, RankStep
    <3> QED
      BY <3>2
  <2> HIDE DEF B
  <2> QED
    BY <1>1, <1>3, <2>1, <2>3, <2>4
<1> QED
  BY <1>4, <1>5, <1>6, <1>7 DEF d

\* What is kept is the latest message of the user, and an end that begins with no result.
LEMMA KeptShape ==
    ASSUME Sound(conversation, contents), kept \in Keeps
    PROVE  LET N == Len(conversation)
           IN  /\ Keeping /\ N \in Nat /\ DOMAIN conversation = 1 .. N
               /\ \E t \in 2 .. N + 1 :
                     /\ t .. N \subseteq kept /\ Min(Dropped) < t
                     /\ t <= N => conversation[t].role # "tool"
                     /\ \A i \in kept : i < t => conversation[i].role # "tool"
                     /\ \A i \in kept : i < t /\ Min(Dropped) < i => conversation[i].role # "assistant"
<1> DEFINE N == Len(conversation)
           U == {1} \cup Has(conversation, "user")
           l == Max(U)
<1>1. IsSequence(conversation) /\ N \in Nat /\ DOMAIN conversation = 1 .. N /\ Grouped(conversation)
  BY ListDomain DEF Sound
<1>2. PICK t \in 2 .. N + 1 :
          /\ kept = {l} \cup (t .. N) /\ kept # DOMAIN conversation
          /\ t \in DOMAIN conversation => conversation[t].role # "tool"
  BY DEF Keeps
<1>3. l \in U /\ \A y \in U : l >= y
  <2>1. U \in SUBSET (1 .. N) /\ U # {}
    BY <1>1, <1>2 DEF Has
  <2> HIDE DEF U, N
  <2> QED
    BY <1>1, <2>1, GreatestPosition
<1>4. l \in 1 .. N
  BY <1>1, <1>2, <1>3 DEF Has
<1>5. l = 1 \/ conversation[l].role = "user"
  BY <1>3 DEF Has
<1> HIDE DEF l, N
<1>6. kept \subseteq DOMAIN conversation /\ Dropped # {} /\ \A i \in Dropped : i \in 1 .. N /\ i < t
  <2>1. kept \subseteq 1 .. N
    BY <1>2, <1>4
  <2>2. Dropped # {}
    BY <1>1, <1>2, <2>1 DEF Dropped
  <2> QED
    BY <1>1, <1>2, <2>1, <2>2 DEF Dropped
<1>7. Keeping
  BY <1>1, <1>6 DEF Keeping
<1>8. Min(Dropped) \in Dropped /\ \A i \in Dropped : Min(Dropped) <= i
  <2>1. Dropped \in SUBSET Nat
    BY <1>6
  <2> QED
    BY <1>6, <2>1, LeastPosition
<1>9. \A i \in kept : i < t => i = l
  BY <1>1, <1>2
<1>10. conversation[l].role # "tool"
  <2>1. SUFFICES ASSUME l = 1, conversation[l].role = "tool" PROVE FALSE
    BY <1>5
  <2>2. l \in Has(conversation, "tool")
    BY <1>1, <1>4, <2>1 DEF Has
  <2>3. PICK j \in Has(conversation, "assistant") : j < l
    BY <1>1, <2>2 DEF Grouped
  <2> QED
    BY <1>1, <2>1, <2>3 DEF Has
<1>11. ASSUME Min(Dropped) < l PROVE conversation[l].role # "assistant"
  BY <1>4, <1>5, <1>6, <1>8, <1>11
<1>12. t <= N => conversation[t].role # "tool"
  BY <1>1, <1>2
<1> HIDE DEF U
<1> QED
  BY <1>1, <1>2, <1>6, <1>7, <1>8, <1>9, <1>10, <1>11, <1>12 DEF N

\* A result is kept with everything from the call it answers.
LEMMA ShortenedGrouped ==
    ASSUME Sound(conversation, contents), kept \in Keeps
    PROVE  Grouped(Shortened)
<1> DEFINE N == Len(conversation)
           d == Min(Dropped)
           after == Shortened
<1>1. Keeping /\ N \in Nat /\ DOMAIN conversation = 1 .. N /\ Grouped(conversation)
  BY KeptShape DEF Sound
<1>2. PICK t \in 2 .. N + 1 :
          /\ t .. N \subseteq kept /\ d < t
          /\ t <= N => conversation[t].role # "tool"
          /\ \A i \in kept : i < t => conversation[i].role # "tool"
  BY KeptShape
<1>3. /\ d \in DOMAIN after /\ after[d] = Summary
      /\ \A i \in kept : /\ Retained[i] \in DOMAIN after /\ Retained[i] \in Nat
                         /\ after[Retained[i]] = conversation[i]
      /\ \A n \in DOMAIN after : n # d => \E i \in kept : n = Retained[i]
      /\ IsSequence(after)
  BY <1>1, ShortenedPlaces
<1>4. /\ \A i \in kept, j \in kept : i < j <=> Retained[i] < Retained[j]
      /\ \A i \in kept : i + 1 \in kept /\ d < i => Retained[i + 1] = Retained[i] + 1
      /\ \A i \in kept : d < i <=> d < Retained[i]
  BY <1>1, ShortenedOrder
<1>5. d \in Nat /\ kept \subseteq 1 .. N
  BY <1>1, Hole DEF Keeping
<1>6. Summary.role = "assistant" /\ Summary.calls = <<>>
  BY DEF Summary, Assistant
<1>7. DOMAIN after = 1 .. Len(after) /\ Len(after) \in Nat
  BY <1>3, ListDomain
<1> HIDE DEF after, d, N
<1>8. ASSUME NEW n \in Has(after, "tool")
      PROVE  \E j \in Has(after, "assistant") :
                /\ j < n /\ Asks(after[j], after[n].call)
                /\ \A m \in j + 1 .. n : after[m].role = "tool"
  <2>1. n \in DOMAIN after /\ after[n].role = "tool" /\ n # d
    BY <1>3, <1>6 DEF Has
  <2>2. PICK i \in kept : n = Retained[i]
    BY <1>3, <2>1
  <2>3. i \in Has(conversation, "tool") /\ after[n] = conversation[i] /\ i \in 1 .. N
    BY <1>1, <1>3, <1>5, <2>1, <2>2 DEF Has
  <2>4. PICK j \in Has(conversation, "assistant") :
            /\ j < i /\ Asks(conversation[j], conversation[i].call)
            /\ \A m \in j + 1 .. i : conversation[m].role = "tool"
    BY <1>1, <2>3 DEF Grouped
  <2>5. j \in 1 .. N
    BY <1>1, <2>4 DEF Has
  <2>6. ~(i < t)
    BY <1>2, <2>3 DEF Has
  <2>7. ~(j < t)
    <3>1. SUFFICES ASSUME j < t PROVE FALSE
      OBVIOUS
    <3>2. t \in j + 1 .. i /\ t <= N
      BY <1>1, <1>2, <2>3, <2>5, <2>6, <3>1
    <3> QED
      BY <1>2, <2>4, <3>2
  <2>8. j \in kept /\ after[Retained[j]] = conversation[j] /\ Retained[j] \in DOMAIN after
    <3>1. j \in t .. N
      BY <2>5, <2>7
    <3> QED
      BY <1>2, <1>3, <3>1
  <2>9. Retained[j] \in Has(after, "assistant") /\ Retained[j] < n
    BY <1>4, <2>2, <2>4, <2>8 DEF Has
  <2>10. ASSUME NEW m \in Retained[j] + 1 .. n PROVE after[m].role = "tool"
    <3>1. Retained[j] \in Nat /\ n \in Nat /\ d < Retained[j]
      BY <1>2, <1>3, <1>4, <1>5, <2>2, <2>5, <2>7, <2>8
    <3>2. m \in DOMAIN after /\ m # d /\ m \in Nat
      BY <1>5, <1>7, <2>1, <2>8, <3>1
    <3>3. PICK k \in kept : m = Retained[k]
      BY <1>3, <3>2
    <3>4. j < k /\ ~(i < k)
      BY <1>4, <2>2, <2>8, <2>10, <3>1, <3>2, <3>3
    <3>5. k \in j + 1 .. i
      BY <1>5, <2>3, <2>5, <3>4
    <3> QED
      BY <1>3, <2>4, <3>3, <3>5
  <2> QED
    BY <2>3, <2>4, <2>8, <2>9, <2>10
<1> QED
  BY <1>8 DEF Grouped, after

\* What was called is answered there too.
LEMMA ShortenedAwaited ==
    ASSUME Sound(conversation, contents), kept \in Keeps, Pending = {}
    PROVE  Awaited(Shortened)
<1> DEFINE N == Len(conversation)
           d == Min(Dropped)
           after == Shortened
<1>1. Keeping /\ N \in Nat /\ DOMAIN conversation = 1 .. N
  BY KeptShape DEF Sound
<1>2. PICK t \in 2 .. N + 1 :
          /\ t .. N \subseteq kept /\ d < t
          /\ \A i \in kept : i < t /\ d < i => conversation[i].role # "assistant"
  BY KeptShape
<1>3. /\ d \in DOMAIN after /\ after[d] = Summary
      /\ \A i \in kept : /\ Retained[i] \in DOMAIN after /\ Retained[i] \in Nat
                         /\ after[Retained[i]] = conversation[i]
      /\ \A n \in DOMAIN after : n # d => \E i \in kept : n = Retained[i]
      /\ IsSequence(after)
  BY <1>1, ShortenedPlaces
<1>4. /\ \A i \in kept, j \in kept : i < j <=> Retained[i] < Retained[j]
      /\ \A i \in kept : d < i <=> d < Retained[i]
  BY <1>1, ShortenedOrder
<1>5. d \in Nat /\ d \notin kept /\ kept \subseteq 1 .. N
  BY <1>1, Hole DEF Keeping
<1>6. Summary.role = "assistant" /\ Summary.calls = <<>>
  BY DEF Summary, Assistant
<1>7. DOMAIN after = 1 .. Len(after) /\ Len(after) \in Nat
  BY <1>3, ListDomain
<1>8. \A i \in DOMAIN conversation : LastAnswer(conversation, i) => Settled(conversation, i)
  BY PendingCalls
<1>0. N = Len(conversation)
  OBVIOUS
<1> HIDE DEF after, d, N
<1>9. ASSUME NEW n \in DOMAIN after, LastAnswer(after, n) PROVE Settled(after, n)
  <2>1. CASE n = d
    <3>1. DOMAIN after[n].calls = {}
      BY <1>3, <1>6, <2>1
    <3> QED
      BY <3>1 DEF Settled
  <2>2. CASE n # d
    <3>1. PICK j \in kept : n = Retained[j]
      BY <1>3, <2>2
    <3>2. after[n] = conversation[j] /\ conversation[j].role = "assistant" /\ j \in 1 .. N
      BY <1>3, <1>5, <1>9, <3>1 DEF LastAnswer, Has
    <3>3. d <= n
      BY <1>3, <1>6, <1>9 DEF LastAnswer, Has
    <3>4. d < j
      BY <1>3, <1>4, <1>5, <2>2, <3>1, <3>3
    <3>5. ~(j < t)
      BY <1>2, <3>2, <3>4
    <3>6. ASSUME NEW i \in Has(conversation, "assistant") PROVE i <= j
      <4>1. i \in 1 .. N
        BY <1>1 DEF Has
      <4>2. SUFFICES ASSUME j < i PROVE FALSE
        BY <3>2, <4>1
      <4>3. i \in kept
        BY <1>2, <3>2, <3>5, <4>1, <4>2
      <4>4. Retained[i] \in Has(after, "assistant") /\ Retained[j] < Retained[i]
        BY <1>3, <1>4, <4>2, <4>3 DEF Has
      <4>5. Retained[i] <= n /\ Retained[i] \in Nat /\ Retained[j] \in Nat
        BY <1>3, <1>9, <4>3, <4>4 DEF LastAnswer
      <4> QED
        BY <3>1, <4>4, <4>5
    <3>7. Settled(conversation, j)
      BY <1>1, <1>8, <3>2, <3>6 DEF LastAnswer, Has
    <3>8. ASSUME NEW k \in DOMAIN after[n].calls
          PROVE  \E m \in n + 1 .. Len(after) :
                    after[m].role = "tool" /\ after[m].call = after[n].calls[k].id
      <4>1. PICK m \in j + 1 .. N :
                conversation[m].role = "tool" /\ conversation[m].call = conversation[j].calls[k].id
        BY <1>0, <3>2, <3>7 DEF Settled
      <4>2. m \in kept /\ j < m
        BY <1>2, <3>2, <3>5, <4>1
      <4>3. /\ Retained[m] \in DOMAIN after /\ Retained[m] \in Nat
            /\ after[Retained[m]] = conversation[m] /\ n < Retained[m] /\ n \in Nat
        BY <1>3, <1>4, <3>1, <4>2
      <4>4. Retained[m] \in n + 1 .. Len(after)
        BY <1>7, <4>3
      <4> QED
        BY <3>2, <4>1, <4>3, <4>4
    <3> QED
      BY <3>8 DEF Settled
  <2> QED
    BY <2>1, <2>2
<1> QED
  BY <1>9 DEF Awaited, after

\* Results that stand together there did so before.
LEMMA ShortenedOnce ==
    ASSUME Sound(conversation, contents), kept \in Keeps
    PROVE  AnsweredOnce(Shortened)
<1> DEFINE N == Len(conversation)
           d == Min(Dropped)
           after == Shortened
<1>1. Keeping /\ N \in Nat /\ DOMAIN conversation = 1 .. N /\ AnsweredOnce(conversation)
  BY KeptShape DEF Sound
<1>2. PICK t \in 2 .. N + 1 :
          /\ t .. N \subseteq kept /\ d < t
          /\ \A i \in kept : i < t => conversation[i].role # "tool"
  BY KeptShape
<1>3. /\ after[d] = Summary
      /\ \A i \in kept : /\ Retained[i] \in DOMAIN after /\ Retained[i] \in Nat
                         /\ after[Retained[i]] = conversation[i]
      /\ \A n \in DOMAIN after : n # d => \E i \in kept : n = Retained[i]
  BY <1>1, ShortenedPlaces
<1>4. \A i \in kept, j \in kept : i < j <=> Retained[i] < Retained[j]
  BY <1>1, ShortenedOrder
<1>5. kept \subseteq 1 .. N
  BY <1>1 DEF Keeping
<1>6. Summary.role = "assistant"
  BY DEF Summary, Assistant
<1> HIDE DEF after, d, N
<1>7. ASSUME NEW k \in Has(after, "tool")
      PROVE  \E i \in kept : k = Retained[i] /\ after[k] = conversation[i]
                             /\ i \in Has(conversation, "tool") /\ i \in t .. N
  <2>1. k \in DOMAIN after /\ after[k].role = "tool" /\ k # d
    BY <1>3, <1>6 DEF Has
  <2>2. PICK i \in kept : k = Retained[i]
    BY <1>3, <2>1
  <2>3. i \in Has(conversation, "tool") /\ after[k] = conversation[i] /\ i \in 1 .. N
    BY <1>1, <1>3, <1>5, <2>1, <2>2 DEF Has
  <2>4. ~(i < t)
    BY <1>2, <2>3 DEF Has
  <2>5. i \in t .. N
    BY <2>3, <2>4
  <2> QED
    BY <2>2, <2>3, <2>5
<1>8. ASSUME NEW k \in Has(after, "tool"), NEW l \in Has(after, "tool"),
             k < l, after[k].call = after[l].call
      PROVE  \E n \in k .. l : after[n].role # "tool"
  <2>1. PICK i \in kept : /\ k = Retained[i] /\ after[k] = conversation[i]
                         /\ i \in Has(conversation, "tool") /\ i \in t .. N
    BY <1>7
  <2>2. PICK j \in kept : /\ l = Retained[j] /\ after[l] = conversation[j]
                         /\ j \in Has(conversation, "tool") /\ j \in t .. N
    BY <1>7
  <2>3. i < j /\ conversation[i].call = conversation[j].call
    BY <1>4, <1>8, <2>1, <2>2
  <2>4. PICK n \in i .. j : conversation[n].role # "tool"
    BY <1>1, <2>1, <2>2, <2>3 DEF AnsweredOnce
  <2>5. n \in t .. N /\ ~(n < i) /\ ~(j < n)
    BY <1>1, <1>2, <2>1, <2>2
  <2>6. n \in kept
    BY <1>2, <2>5
  <2>7. ~(Retained[n] < k) /\ ~(l < Retained[n]) /\ Retained[n] \in Nat /\ k \in Nat /\ l \in Nat
    BY <1>3, <1>4, <2>1, <2>2, <2>5, <2>6
  <2>8. Retained[n] \in k .. l
    BY <2>7
  <2> QED
    BY <1>3, <2>4, <2>6, <2>8
<1> QED
  BY <1>8 DEF AnsweredOnce, after

\* So it is as good a conversation as the one before.
LEMMA ShortenedSound ==
    ASSUME Sound(conversation, contents), kept \in Keeps, Pending = {},
           NEW told, IsSequence(told), Len(told) = Cardinality(kept) + 1
    PROVE  Sound(Shortened, told)
<1> DEFINE d == Min(Dropped)
           after == Shortened
<1>1. Keeping
  BY KeptShape
<1>2. /\ IsSequence(after) /\ Len(after) = Cardinality(kept) + 1 /\ after[d] = Summary
      /\ \A i \in kept : after[Retained[i]] = conversation[i]
      /\ \A n \in DOMAIN after : n # d => \E i \in kept : n = Retained[i]
  BY <1>1, ShortenedPlaces
<1>3. Formed(Summary)
  <2>1. /\ Summary = Assistant(Summary.content, Summary.calls, Summary.reasoning)
        /\ Summary.role = "assistant" /\ Summary.calls = <<>>
    BY DEF Summary, Assistant
  <2>2. IsSequence(<<>>)
    BY DEF IsSequence
  <2> QED
    BY <2>1, <2>2 DEF Formed
<1>4. \A i \in kept : Formed(conversation[i])
  BY <1>1 DEF Sound, Keeping
<1> HIDE DEF after, d
<1>5. \A n \in DOMAIN after : Formed(after[n])
  BY <1>2, <1>3, <1>4
<1>6. Grouped(after) /\ AnsweredOnce(after) /\ Awaited(after)
  BY ShortenedGrouped, ShortenedOnce, ShortenedAwaited DEF after
<1> QED
  BY <1>2, <1>5, <1>6 DEF Sound, after

\* The checkpoints of a conversation are in its order.
LEMMA CheckpointsOrdered ==
    ASSUME NEW messages, NEW checkpoints, NEW id, IsSequence(checkpoints),
           Bound(messages, checkpoints, id),
           \A n \in DOMAIN checkpoints : checkpoints[n].index \in Nat
    PROVE  \A i \in DOMAIN checkpoints, j \in DOMAIN checkpoints :
              i < j <=> checkpoints[i].index < checkpoints[j].index
<1> DEFINE N == Len(checkpoints)
           at(n) == checkpoints[n].index
           S == {k \in Nat : \A i \in 1 .. N : i + k + 1 \in 1 .. N => at(i) < at(i + k + 1)}
<1>1. DOMAIN checkpoints = 1 .. N /\ N \in Nat
  BY ListDomain
<1>2. \A n \in 1 .. N : at(n) \in Nat /\ (n > 1 => at(n - 1) < at(n))
  BY <1>1 DEF Bound
<1> HIDE DEF at, N
<1>3. \A n \in 1 .. N : n + 1 \in 1 .. N => at(n) < at(n + 1)
  <2>1. SUFFICES ASSUME NEW n \in 1 .. N, n + 1 \in 1 .. N PROVE at(n) < at(n + 1)
    OBVIOUS
  <2>2. n + 1 > 1 /\ (n + 1) - 1 = n
    OBVIOUS
  <2> QED
    BY <1>2, <2>1, <2>2
<1>4. 0 \in S
  BY <1>1, <1>3
<1>5. ASSUME NEW k \in Nat, k \in S PROVE k + 1 \in S
  <2>1. SUFFICES ASSUME NEW i \in 1 .. N, i + (k + 1) + 1 \in 1 .. N PROVE at(i) < at(i + (k + 1) + 1)
    OBVIOUS
  <2> DEFINE m == i + k + 1
  <2>2. m \in 1 .. N /\ m + 1 \in 1 .. N /\ i + (k + 1) + 1 = m + 1
    BY <1>1, <2>1
  <2>3. at(i) < at(m)
    BY <1>5, <2>2
  <2> HIDE DEF m
  <2>4. at(m) < at(m + 1)
    BY <1>3, <2>2
  <2> QED
    BY <1>2, <2>2, <2>3, <2>4
<1> HIDE DEF S
<1>6. \A k \in Nat : k \in S
  BY <1>4, <1>5, SetInduction
<1>7. ASSUME NEW i \in 1 .. N, NEW j \in 1 .. N, i < j PROVE at(i) < at(j)
  <2>1. j - i - 1 \in Nat /\ i + (j - i - 1) + 1 = j
    BY <1>7
  <2>2. j - i - 1 \in S
    BY <1>6, <2>1
  <2> QED
    BY <2>1, <2>2 DEF S
<1>8. ASSUME NEW i \in 1 .. N, NEW j \in 1 .. N, at(i) < at(j) PROVE i < j
  <2>1. i \in Nat /\ j \in Nat /\ at(i) \in Nat /\ at(j) \in Nat
    BY <1>1, <1>2
  <2>2. ASSUME j < i PROVE FALSE
    <3>1. at(j) < at(i)
      BY <1>7, <2>2
    <3> QED
      BY <1>8, <2>1, <3>1
  <2>3. i # j
    BY <1>8, <2>1
  <2> QED
    BY <2>1, <2>2, <2>3
<1> QED
  BY <1>1, <1>7, <1>8 DEF at

\* The continuation when it is told of the new places.
Rebasing == [continuation EXCEPT !.checkpoints = G!Rebased(@, Retained)]

\* Each of its checkpoints is one of those before at its new place.
LEMMA RebasedCheckpoints ==
    ASSUME Faithful(continuation), Keeping, continuation.protocol = "GenerateContent",
           Bound(conversation, continuation.checkpoints, model.id)
    PROVE  LET old == continuation.checkpoints
               new == Rebasing.checkpoints
           IN  /\ Rebasing = [protocol |-> "GenerateContent", checkpoints |-> new] /\ IsSequence(new)
               /\ \A n \in DOMAIN new : \E i \in DOMAIN old :
                     /\ old[i].index \in kept
                     /\ new[n] = [model |-> old[i].model, index |-> Retained[old[i].index],
                                  assistant |-> old[i].assistant, content |-> old[i].content]
               /\ \A i \in DOMAIN old : old[i].index \in kept =>
                     \E n \in DOMAIN new :
                        /\ new[n].index = Retained[old[i].index]
                        /\ new[n].content = old[i].content
               /\ \A n \in DOMAIN new : n > 1 => new[n - 1].index < new[n].index
<1> DEFINE old == continuation.checkpoints
           I == {n \in DOMAIN old : old[n].index \in kept}
           some == Select(old, I)
           new == [n \in DOMAIN some |-> [some[n] EXCEPT !.index = Retained[@]]]
<1>1. DOMAIN Retained = kept
  BY DEF Retained
<1>2. G!Rebased(old, Retained) = new
  BY <1>1, SameSelect DEF G!Rebased, G!Rebased_InPlace
<1>3. continuation = [protocol |-> "GenerateContent", checkpoints |-> old]
  BY DEF Faithful
<1>4. Rebasing = [protocol |-> "GenerateContent", checkpoints |-> new]
  <2> HIDE DEF new
  <2> QED
    BY <1>2, <1>3 DEF Rebasing
<1>5. IsSequence(old) /\ \A i \in DOMAIN old :
        /\ old[i] = [model |-> old[i].model, index |-> old[i].index,
                     assistant |-> old[i].assistant, content |-> old[i].content]
        /\ old[i].index \in Nat
  BY DEF Faithful, Recorded
<1>6. DOMAIN old = 1 .. Len(old) /\ Len(old) \in Nat
  BY <1>5, ListDomain
<1>7. \A i \in DOMAIN old, j \in DOMAIN old : i < j <=> old[i].index < old[j].index
  BY <1>5, CheckpointsOrdered
<1> DEFINE Moved(c) == [model |-> c.model, index |-> Retained[c.index],
                        assistant |-> c.assistant, content |-> c.content]
<1> HIDE DEF I
<1>8. /\ IsSequence(some)
      /\ \A n \in DOMAIN some : \E i \in DOMAIN old : i \in I /\ n = Rank(I, i) /\ some[n] = old[i]
      /\ \A i \in DOMAIN old : i \in I => Rank(I, i) \in DOMAIN some /\ some[Rank(I, i)] = old[i]
  BY ONLY <1>5, ListSelect
<1> HIDE DEF old, some
<1>9. \A n \in DOMAIN some : \A i \in DOMAIN old : some[n] = old[i] => new[n] = Moved(old[i])
  BY <1>5
<1>10. DOMAIN new = DOMAIN some /\ new = [n \in DOMAIN some |-> new[n]]
  OBVIOUS
<1> HIDE DEF new
<1>11. IsSequence(new)
  BY <1>8, <1>10, ListImage
<1>12. \A i \in DOMAIN old : i \in I <=> old[i].index \in kept
  BY DEF I, old
<1>13. DOMAIN some = 1 .. Len(some) /\ Len(some) \in Nat
  BY <1>8, ListDomain
<1>14. ASSUME NEW n \in DOMAIN new, n > 1 PROVE new[n - 1].index < new[n].index
  <2>1. n \in DOMAIN some /\ n - 1 \in DOMAIN some
    BY <1>10, <1>13, <1>14
  <2>2. PICK i \in DOMAIN old : i \in I /\ n - 1 = Rank(I, i) /\ some[n - 1] = old[i]
    BY <1>8, <2>1
  <2>3. PICK j \in DOMAIN old : j \in I /\ n = Rank(I, j) /\ some[n] = old[j]
    BY <1>8, <2>1
  <2>4. i < j
    <3>1. i \in Nat /\ j \in Nat /\ n \in Nat
      BY <1>6, <1>13, <2>1
    <3>2. SUFFICES ASSUME j <= i PROVE FALSE
      BY <3>1
    <3>3. Rank(I, j) <= Rank(I, i)
      BY <3>1, <3>2, RankMonotone
    <3> QED
      BY <2>2, <2>3, <3>1, <3>3
  <2>5. old[i].index < old[j].index /\ old[i].index \in kept /\ old[j].index \in kept
    BY <1>7, <1>12, <2>2, <2>3, <2>4 DEF old
  <2>6. Retained[old[i].index] < Retained[old[j].index]
    BY <2>5, ShortenedOrder
  <2>7. new[n - 1] = Moved(old[i]) /\ new[n] = Moved(old[j])
    BY <1>9, <2>1, <2>2, <2>3
  <2> QED
    BY <2>6, <2>7
<1>15. ASSUME NEW n \in DOMAIN new
       PROVE  \E i \in DOMAIN old : old[i].index \in kept /\ new[n] = Moved(old[i])
  BY <1>8, <1>9, <1>10, <1>12
<1>16. ASSUME NEW i \in DOMAIN old, old[i].index \in kept
       PROVE  \E n \in DOMAIN new : new[n] = Moved(old[i])
  BY <1>8, <1>9, <1>10, <1>12, <1>16
<1>17. Rebasing.checkpoints = new
  BY <1>4
<1> QED
  BY <1>4, <1>11, <1>14, <1>15, <1>16, <1>17 DEF old

\* The continuation that comes with a compaction, and what is known of what a service
\* sent for the messages that are left.
Continued == Route(Fresh, Fresh, Rebasing, Fresh)
Lineage(n) == {i \in kept : Retained[i] = n}
Carried ==
    [n \in 1 .. Cardinality(kept) + 1 |->
        IF Protocol = "GenerateContent" /\ Lineage(n) # {}
        THEN contents[CHOOSE i \in Lineage(n) : TRUE] ELSE <<>>]

\* Google's continuation goes on with the conversation that is left.
LEMMA RebasingGoesOn ==
    ASSUME HostInvariant, CallInvariant, Compacting, Protocol = "GenerateContent"
    PROVE  /\ Faithful(Rebasing) /\ Rebasing.protocol = Protocol
           /\ Bound(Shortened, Rebasing.checkpoints, model.id)
           /\ Traced(Carried, Rebasing)
<1> DEFINE old == continuation.checkpoints
           new == Rebasing.checkpoints
<1>1. /\ model \in Models /\ Sound(conversation, contents) /\ Faithful(continuation)
      /\ Traced(contents, continuation)
  BY DEF HostInvariant
<1>2. Keeping
  BY <1>1, KeptShape DEF CallInvariant
<1>3. continuation.protocol = "GenerateContent" /\ Bound(conversation, old, model.id)
  BY <1>1, RequestNow DEF CallInvariant, RequestIsAcceptable, Protocol
<1>4. /\ Rebasing = [protocol |-> "GenerateContent", checkpoints |-> new] /\ IsSequence(new)
      /\ \A n \in DOMAIN new : \E i \in DOMAIN old :
            /\ old[i].index \in kept
            /\ new[n] = [model |-> old[i].model, index |-> Retained[old[i].index],
                         assistant |-> old[i].assistant, content |-> old[i].content]
      /\ \A i \in DOMAIN old : old[i].index \in kept =>
            \E n \in DOMAIN new :
               /\ new[n].index = Retained[old[i].index]
               /\ new[n].content = old[i].content
      /\ \A n \in DOMAIN new : n > 1 => new[n - 1].index < new[n].index
  BY ONLY <1>1, <1>2, <1>3, RebasedCheckpoints
<1>5. \A i \in kept : /\ Retained[i] \in DOMAIN Shortened /\ Retained[i] \in Nat
                      /\ Shortened[Retained[i]] = conversation[i]
  BY ONLY <1>2, ShortenedPlaces
<1> HIDE DEF new
<1>6. Rebasing.protocol = "GenerateContent" /\ \A n \in DOMAIN new : Content(Rebasing, n) = new[n].content
  BY <1>4 DEF Content, new
<1>7. \A n \in DOMAIN new : Recorded(Rebasing, n) =
         [model |-> new[n].model, index |-> new[n].index,
          assistant |-> new[n].assistant, content |-> new[n].content]
  BY <1>6 DEF Recorded, new
<1>8. \A i \in DOMAIN old :
         /\ Content(continuation, i) = old[i].content
         /\ old[i].assistant.role = "assistant" /\ IsSequence(old[i].content)
         /\ \A b \in DOMAIN old[i].content : MadeBy(old[i].content[b]) \subseteq {old[i].model}
         /\ SameCalls(old[i])
         /\ old[i].model = model.id /\ conversation[old[i].index] = old[i].assistant
  BY <1>1, <1>3 DEF Faithful, Content, Bound
<1> HIDE DEF old
<1>9. ASSUME NEW n \in DOMAIN new
      PROVE  /\ new[n] = Recorded(Rebasing, n)
             /\ new[n].index \in Nat
             /\ new[n].assistant.role = "assistant" /\ IsSequence(new[n].content)
             /\ \A b \in DOMAIN new[n].content : MadeBy(new[n].content[b]) \subseteq {new[n].model}
             /\ SameCalls(new[n])
             /\ new[n].model = model.id /\ new[n].index \in DOMAIN Shortened
             /\ Shortened[new[n].index] = new[n].assistant
  <2>1. PICK i \in DOMAIN old :
            /\ old[i].index \in kept
            /\ new[n] = [model |-> old[i].model, index |-> Retained[old[i].index],
                         assistant |-> old[i].assistant, content |-> old[i].content]
    BY <1>4 DEF old, new
  <2>2. /\ new[n].model = old[i].model /\ new[n].index = Retained[old[i].index]
        /\ new[n].assistant = old[i].assistant /\ new[n].content = old[i].content
    BY <2>1
  <2>3. new[n] = Recorded(Rebasing, n)
    BY <1>7, <2>1
  <2>4. SameCalls(new[n])
    <3>1. SameCalls(old[i])
      BY <1>8
    <3> QED
      BY <2>2, <3>1 DEF SameCalls
  <2>5. /\ Retained[old[i].index] \in DOMAIN Shortened /\ Retained[old[i].index] \in Nat
        /\ Shortened[Retained[old[i].index]] = old[i].assistant
    BY <1>5, <1>8, <2>1
  <2> QED
    BY <1>8, <2>2, <2>3, <2>4, <2>5
<1>10. Faithful(Rebasing)
  BY <1>4, <1>6, <1>9 DEF Faithful, Protocols, new
<1>11. Bound(Shortened, new, model.id)
  BY <1>4, <1>9 DEF Bound, new
<1>12. Traced(Carried, Rebasing)
  <2>1. SUFFICES ASSUME NEW n \in DOMAIN Carried, Carried[n] # <<>>
                 PROVE  \E k \in DOMAIN new :
                           new[k].index = n /\ Carried[n] = <<Content(Rebasing, k)>>
    BY DEF Traced, new
  <2>2. Lineage(n) # {} /\ Carried[n] = contents[CHOOSE i \in Lineage(n) : TRUE]
    BY <2>1 DEF Carried
  <2> DEFINE i == CHOOSE i \in Lineage(n) : TRUE
  <2>3. i \in kept /\ Retained[i] = n
    BY <2>2 DEF Lineage
  <2> HIDE DEF i
  <2>4. i \in DOMAIN contents /\ contents[i] # <<>> /\ Carried[n] = contents[i]
    <3>1. i \in DOMAIN conversation /\ DOMAIN contents = DOMAIN conversation
      <4>1. IsSequence(conversation) /\ IsSequence(contents) /\ Len(contents) = Len(conversation)
        BY <1>1 DEF Sound
      <4> QED
        BY <1>2, <2>3, <4>1, ListDomain DEF Keeping
    <3> QED
      BY <2>1, <2>2, <3>1 DEF i
  <2>5. PICK m \in DOMAIN old : old[m].index = i /\ contents[i] = <<Content(continuation, m)>>
    BY <1>1, <2>4 DEF Traced, old
  <2>6. PICK k \in DOMAIN new : new[k].index = Retained[old[m].index] /\ new[k].content = old[m].content
    BY <1>4, <2>3, <2>5 DEF old, new
  <2>7. Content(Rebasing, k) = Content(continuation, m)
    BY <1>6, <1>8, <2>6
  <2> QED
    BY <2>3, <2>4, <2>5, <2>6, <2>7
<1> QED
  BY <1>6, <1>10, <1>11, <1>12 DEF new

\* So does every other, which is new.
LEMMA ContinuedGoesOn ==
    ASSUME HostInvariant, CallInvariant, Compacting
    PROVE  /\ Faithful(Continued) /\ Continued.protocol = Protocol
           /\ Bound(Shortened, Continued.checkpoints, model.id)
           /\ Traced(Carried, Continued)
           /\ Protocol # "GenerateContent" => Continued.checkpoints = <<>>
<1>1. CASE Protocol = "GenerateContent"
  <2>1. Continued = Rebasing
    BY <1>1 DEF Continued, Route
  <2> QED
    BY <1>1, <2>1, RebasingGoesOn
<1>2. CASE Protocol # "GenerateContent"
  <2>1. Protocol \in Protocols
    BY ModelsAssumption DEF HostInvariant, Protocol
  <2>2. Continued = Fresh
    BY <1>2, <2>1 DEF Continued, Route, Protocols
  <2>3. IsSequence(<<>>) /\ DOMAIN <<>> = {}
    BY DEF IsSequence
  <2>4. Fresh = [protocol |-> Protocol, checkpoints |-> <<>>]
    BY DEF Fresh
  <2>5. Faithful(Fresh)
    BY <2>1, <2>3, <2>4 DEF Faithful
  <2>6. Traced(Carried, Fresh)
    BY <1>2 DEF Traced, Carried
  <2> QED
    BY <1>2, <2>2, <2>3, <2>4, <2>5, <2>6 DEF Bound
<1> QED
  BY <1>1, <1>2

\* The request that is made of it next is accepted.
LEMMA CompactionAccepted ==
    ASSUME HostInvariant, CallInvariant, Compacting, Pending = {},
           NEW a, a.conversation = Shortened, a.continuation = Continued,
           Protocol = "GenerateContent" => AllNamed(Continued)
    PROVE  Acceptable(model, TRUE, a, Specs)
<1>1. Sound(conversation, contents) /\ kept \in Keeps /\ model \in Models
  BY DEF HostInvariant, CallInvariant
<1>2. Keeping
  BY <1>1, KeptShape
<1>3. /\ IsSequence(Shortened) /\ Min(Dropped) \in DOMAIN Shortened
      /\ Shortened[Min(Dropped)] = Summary
  BY ONLY <1>2, ShortenedPlaces
<1>4. Grouped(Shortened)
  BY <1>1, ShortenedGrouped
<1>5. /\ Faithful(Continued) /\ Continued.protocol = Protocol
      /\ Bound(Shortened, Continued.checkpoints, model.id)
      /\ Protocol # "GenerateContent" => Continued.checkpoints = <<>>
  BY ContinuedGoesOn
<1>6. Shortened \o <<>> = Shortened
  <2>1. Shortened \in Seq(ToSet(Shortened))
    BY <1>3 DEF IsSequence
  <2> HIDE DEF Shortened
  <2> QED
    BY <2>1, ConcatEmptySeq
<1> HIDE DEF Shortened, Continued
<1>7. ASSUME Protocol = "GenerateContent"
      PROVE  G!Request(Shortened, Continued.checkpoints, Specs) # {}
  <2>1. \A n \in DOMAIN Continued.checkpoints :
           Shortened[Continued.checkpoints[n].index] = Continued.checkpoints[n].assistant
    BY <1>5 DEF Bound
  <2>2. \A i \in Has(Shortened, "tool") :
           \E j \in Has(Shortened, "assistant") : j < i /\ Asks(Shortened[j], Shortened[i].call)
    BY <1>4 DEF Grouped
  <2>3. \E i \in DOMAIN Shortened : Shortened[i].role # "system"
    BY <1>3 DEF Summary, Assistant
  <2> QED
    BY <1>3, <1>5, <1>7, <2>1, <2>2, <2>3, GoogleAccepts
<1>8. Protocol = "Responses" => DOMAIN Continued.checkpoints = {}
  BY <1>5
<1>9. Accepted(model, Shortened, Continued, Specs)
  BY <1>5, <1>7, <1>8 DEF Accepted, Protocol
<1> QED
  BY <1>6, <1>9 DEF Acceptable

\* A compaction gives its caller what is as good as what it was made of.
LEMMA CompactedKeeps ==
    ASSUME ConversationInvariant, Compacted
    PROVE  ConversationInvariant'
<1>1. HostInvariant /\ CallInvariant
  BY DEF ConversationInvariant
<1>2. /\ pc = "body" /\ Compacting /\ pc' = "completed"
      /\ UNCHANGED <<host, kept>>
  BY DEF Compacted
<1>3. answer'.conversation = Shortened /\ answer'.continuation = Continued /\ answer'.contents = Carried
  BY DEF Compacted, Shortened, Before, Continued, Rebasing, Carried, Lineage
<1>4. Sound(conversation, contents) /\ kept \in Keeps /\ model \in Models /\ Pending = {}
  BY <1>1, <1>2 DEF HostInvariant, CallInvariant
<1>5. IsSequence(Carried) /\ Len(Carried) = Cardinality(kept) + 1
  <2>1. Keeping
    BY <1>4, KeptShape
  <2>2. IsSequence(Shortened) /\ Len(Shortened) = Cardinality(kept) + 1
    BY ONLY <2>1, ShortenedPlaces
  <2>3. Cardinality(kept) + 1 \in Nat
    BY <2>2, ListDomain
  <2>4. DOMAIN Carried = 1 .. Cardinality(kept) + 1
        /\ Carried = [n \in 1 .. Cardinality(kept) + 1 |-> Carried[n]]
    BY DEF Carried
  <2> QED
    BY <2>3, <2>4, ListMade
<1>6. Sound(Shortened, Carried)
  BY ONLY <1>4, <1>5, ShortenedSound
<1>7. Faithful(Continued) /\ Traced(Carried, Continued)
  BY <1>1, <1>2, ContinuedGoesOn
<1>8. NextRequestAccepted'
  <2>1. ASSUME Answerable' PROVE Acceptable(model, TRUE, answer', Specs)
    <3>1. Protocol' = Protocol
      BY <1>2 DEF Protocol, host
    <3>2. Protocol = "GenerateContent" => AllNamed(Continued)
      BY <1>3, <2>1, <3>1 DEF Answerable, AllNamed, ToSet
    <3> QED
      BY ONLY <1>1, <1>2, <1>3, <1>4, <3>2, CompactionAccepted
  <2>2. model' = model /\ kept' = kept
    BY <1>2 DEF host
  <2>3. Specs' = Specs /\ Compacting' = TRUE
    BY <1>2, <2>2 DEF Specs, Compacting
  <2>4. NextRequestAccepted' <=>
           (Answerable' /\ pc' = "completed" /\ Replayable' =>
                Acceptable(model', Compacting', answer', Specs'))
    BY <1>4, <2>2, AcceptableNext DEF NextIsAcceptable
  <2>5. Acceptable(model', Compacting', answer', Specs') = Acceptable(model, TRUE, answer', Specs)
    BY <2>2, <2>3
  <2> QED
    BY <2>1, <2>4, <2>5
<1>9. AnswerInvariant'
  BY <1>3, <1>6, <1>7, <1>8 DEF AnswerInvariant
<1>10. HostInvariant' /\ CallInvariant'
  BY <1>1, <1>2, HostStays, CallStays
<1> QED
  BY <1>2, <1>9, <1>10 DEF ConversationInvariant, StreamInvariant

-----------------------------------------------------------------------------
(* Every step of the host and of a call.                                   *)

\* Nothing is said yet.
LEMMA ConversationInit == Init => ConversationInvariant
<1>1. SUFFICES ASSUME Init PROVE ConversationInvariant
  OBVIOUS
<1>2. /\ conversation = <<>> /\ contents = <<>> /\ model \in Models /\ continuation = Fresh
      /\ pc = "idle" /\ kept = {}
  BY <1>1 DEF Init
<1>3. IsSequence(<<>>) /\ DOMAIN <<>> = {} /\ Len(<<>>) = 0
  BY DEF IsSequence
<1>4. Sound(conversation, contents)
  BY <1>2, <1>3 DEF Sound, Grouped, AnsweredOnce, Awaited, Has
<1>5. Faithful(continuation)
  <2>1. Protocol \in Protocols
    BY <1>2, ModelsAssumption DEF Protocol
  <2> QED
    BY <1>2, <1>3, <2>1 DEF Faithful, Fresh
<1>6. Traced(contents, continuation)
  BY <1>2, <1>3 DEF Traced
<1> QED
  BY <1>2, <1>4, <1>5, <1>6 DEF ConversationInvariant, HostInvariant, CallInvariant,
     StreamInvariant, AnswerInvariant, Compacting

\* What nothing happens to stays as it is.
LEMMA ConversationStutters ==
    ASSUME ConversationInvariant, UNCHANGED vars
    PROVE  ConversationInvariant'
<1>1. UNCHANGED <<conversation, continuation, contents, model, pc, kept, response, wire, acc, answer>>
  BY DEF vars, host, stream
<1>2. HostInvariant'
  BY <1>1, HostStays DEF ConversationInvariant, host
<1>3. UNCHANGED <<Protocol, Specs, Sent, Pending, Keeps, Compacting>>
  BY <1>1 DEF Protocol, Specs, Sent, Pending, Keeps, Compacting
<1>4. CallInvariant'
  <2>1. model \in Models
    BY DEF ConversationInvariant, HostInvariant
  <2>2. /\ Requests(Sent, continuation, Specs) # {} <=> (Requests(Sent, continuation, Specs) # {})'
        /\ Protocol = "GenerateContent" =>
              (Valid(conversation, continuation) <=> Valid(conversation, continuation)')
    BY <1>1, <1>3, <2>1, RequestNow, RequestNext DEF RequestIsAcceptable
  <2> QED
    BY <1>1, <1>3, <2>2 DEF ConversationInvariant, CallInvariant
<1>5. StreamInvariant'
  <2>1. (~Compacting /\ pc = "body" => Meant(response))
           => (~Compacting /\ pc = "body" => Meant(response))'
    BY <1>1, <1>3 DEF Meant, Route, Items, PartOwn
  <2>2. AccOwn(acc) => AccOwn(acc)'
    BY <1>1, <1>3 DEF AccOwn, Route, MessagesAcc, GoogleAcc, ResponsesAcc, Items, PartOwn
  <2>3. (\A n \in DOMAIN wire : EventOwn(wire[n])) => (\A n \in DOMAIN wire : EventOwn(wire[n]))'
    <3>1. model' = model /\ wire' = wire
      BY <1>1
    <3>2. ASSUME NEW n \in DOMAIN wire, EventOwn(wire[n]) PROVE EventOwn(wire[n])'
      <4>1. MessagesEvent(wire[n]) <=> MessagesEvent(wire[n])'
        BY ONLY <3>1 DEF MessagesEvent
      <4>2. GoogleEvent(wire[n]) <=> GoogleEvent(wire[n])'
        BY ONLY <3>1 DEF GoogleEvent, PartOwn
      <4>3. ResponsesEvent(wire[n]) <=> ResponsesEvent(wire[n])'
        BY ONLY <3>1 DEF ResponsesEvent, Items
      <4>4. Protocol \in Protocols /\ Protocol' = Protocol
        BY <1>3, ModelsAssumption DEF ConversationInvariant, HostInvariant, Protocol
      <4>5. CASE Protocol = "Messages"
        BY <3>2, <4>1, <4>4, <4>5 DEF EventOwn, Route
      <4>6. CASE Protocol = "ChatCompletions"
        BY <4>4, <4>6 DEF EventOwn, Route
      <4>7. CASE Protocol = "GenerateContent"
        BY <3>2, <4>2, <4>4, <4>7 DEF EventOwn, Route
      <4>8. CASE Protocol = "Responses"
        BY <3>2, <4>3, <4>4, <4>8 DEF EventOwn, Route
      <4> QED
        BY <4>4, <4>5, <4>6, <4>7, <4>8 DEF Protocols
    <3> QED
      BY <3>1, <3>2
  <2> QED
    BY <1>1, <1>3, <2>1, <2>2, <2>3 DEF ConversationInvariant, StreamInvariant
<1>6. AnswerInvariant'
  BY <1>1, <1>3, AcceptableNow, AcceptableNext DEF ConversationInvariant, AnswerInvariant, HostInvariant,
     NextIsAcceptable, Replayable, Answerable
<1> QED
  BY <1>2, <1>4, <1>5, <1>6 DEF ConversationInvariant

\* It stays so with each step.
LEMMA ConversationStep == ConversationInvariant /\ [Next]_vars => ConversationInvariant'
<1> SUFFICES ASSUME ConversationInvariant, [Next]_vars PROVE ConversationInvariant'
  OBVIOUS
<1>1. ASSUME NEW user \in Sayings, Say(user) PROVE ConversationInvariant'
  BY <1>1, SayKeeps
<1>2. CASE RunTool
  BY <1>2, RunToolKeeps
<1>3. CASE Renew
  BY <1>3, RenewKeeps
<1>4. ASSUME NEW other \in Models, Switch(other) PROVE ConversationInvariant'
  BY <1>4, SwitchKeeps
<1>5. CASE Complete \/ \E keep \in Keeps : Compact(keep)
  BY <1>5, CallingKeeps
<1>6. CASE Refused \/ SendFails \/ ErrorBodyRead \/ BodyFails \/ StreamBreaks \/ NoSummary \/ Drop
  BY <1>6, FailureKeeps
<1>7. CASE Start
  BY <1>7, StartKeeps
<1>8. CASE Rejected \/ SummaryArrives \/ BodyArrives \/ StreamStarts
  BY <1>8, ArrivalKeeps
<1>9. CASE BodyRead
  BY <1>9, BodyKeeps
<1>10. CASE EventRead
  BY <1>10, EventKeeps
<1>11. CASE MarkRead \/ ConnectionEnds
  BY <1>11, LastKeeps
<1>12. CASE Compacted
  BY <1>12, CompactedKeeps
<1>13. CASE Adopt
  BY <1>13, AdoptKeeps
<1>14. CASE UNCHANGED vars
  BY <1>14, ConversationStutters
<1> QED
  BY <1>1, <1>2, <1>3, <1>4, <1>5, <1>6, <1>7, <1>8, <1>9, <1>10, <1>11, <1>12, <1>13, <1>14
     DEF Next

\* The conversation, the continuation and the call stay in step, for every set of models,
\* tools and answers.
THEOREM ConversationInvariance == Spec => []ConversationInvariant
BY ConversationInit, ConversationStep, PTL DEF Spec

\* A continuation is accepted with the conversation it comes with, whatever was answered,
\* dropped, compacted or routed before: every adapter finds its checkpoints where the
\* answers are, and Google's finds the call of every result, but not those of a reply
\* that came with the empty id (Answerable).
THEOREM NextRequestIsAccepted == Spec => []NextRequestAccepted
<1>1. pc # "completed" => NextRequestAccepted
  BY DEF NextRequestAccepted, EveryAnswerContinues
<1>2. ConversationInvariant => NextRequestAccepted
  BY <1>1 DEF ConversationInvariant, AnswerInvariant
<1> QED
  BY <1>2, ConversationInvariance, PTL

-----------------------------------------------------------------------------
(* What a request has of the answers.                                      *)

\* The answers of a conversation, or of the entries of a request, in order.
Answers(s) == Select(s, Has(s, "assistant"))

\* One more entry is one more answer or none.
LEMMA AnswersAppend ==
    ASSUME NEW X, NEW s \in Seq(X), NEW e \in X
    PROVE  Answers(Append(s, e)) =
             IF e.role = "assistant" THEN Append(Answers(s), e) ELSE Answers(s)
<1> DEFINE t == Append(s, e)
           I == Has(s, "assistant")
           J == Has(t, "assistant")
<1>1. /\ t \in Seq(X) /\ Len(t) = Len(s) + 1 /\ Len(s) \in Nat
      /\ DOMAIN s = 1 .. Len(s) /\ DOMAIN t = 1 .. Len(t)
      /\ t[Len(s) + 1] = e /\ \A i \in 1 .. Len(s) : t[i] = s[i]
  BY AppendProperties, LenProperties
<1> HIDE DEF t
<1>2. \A n \in 1 .. Len(s) : n \in I <=> n \in J
  BY <1>1 DEF Has
<1>3. Len(s) + 1 \in J <=> e.role = "assistant"
  BY <1>1 DEF Has
<1> HIDE DEF I, J
<1>4. Select(s, I) = Select(s, J)
  BY <1>2, SelectAgree
<1>5. Select(Append(s, e), J) = IF Len(s) + 1 \in J THEN Append(Select(s, J), e) ELSE Select(s, J)
  BY SelectAppend
<1> QED
  BY <1>3, <1>4, <1>5 DEF Answers, t, I, J

\* Each message makes one entry or none, and an answer one that is an answer.
Entered(messages, parts) ==
    /\ IsSequence(messages) /\ DOMAIN parts = DOMAIN messages
    /\ parts = [i \in DOMAIN messages |-> parts[i]]
    /\ \A i \in DOMAIN messages :
          /\ parts[i] # <<>> =>
                /\ parts[i] = <<parts[i][1]>>
                /\ parts[i][1].role = "assistant" => messages[i].role = "assistant"
          /\ messages[i].role = "assistant" =>
                parts[i] # <<>> /\ parts[i][1].role = "assistant"

\* So the n-th answer makes the n-th entry that is one.
LEMMA AnswersInOrder ==
    ASSUME NEW messages, NEW parts, Entered(messages, parts)
    PROVE  LET said == Answers(FlattenSeq(parts))
               places == Has(messages, "assistant")
           IN  \A i \in places : Rank(places, i) \in DOMAIN said /\ said[Rank(places, i)] = parts[i][1]
<1> DEFINE N == Len(messages)
           places == Has(messages, "assistant")
           X == {parts[i][1] : i \in DOMAIN messages}
           first(n) == FlattenSeq(SubSeq(parts, 1, n))
           said(n) == Answers(first(n))
           Good(n) == /\ IsSequence(said(n)) /\ Len(said(n)) = Rank(places, n)
                      /\ \A i \in places : i <= n => Rank(places, i) \in 1 .. Len(said(n))
                                                /\ said(n)[Rank(places, i)] = parts[i][1]
           S == {n \in Nat : n <= N => Good(n)}
<1>1. N \in Nat /\ DOMAIN messages = 1 .. N /\ places \subseteq 1 .. N
  BY ListDomain DEF Entered, Has
<1>2. /\ DOMAIN parts = 1 .. N /\ parts = [i \in 1 .. N |-> parts[i]]
      /\ \A i \in 1 .. N :
            /\ parts[i] # <<>> =>
                  /\ parts[i] = <<parts[i][1]>>
                  /\ parts[i][1].role = "assistant" => i \in places
            /\ i \in places => parts[i] # <<>> /\ parts[i][1].role = "assistant"
  BY <1>1 DEF Entered, Has
<1>3. \A i \in 1 .. N : parts[i] \in Seq(X)
  <2>1. SUFFICES ASSUME NEW i \in 1 .. N PROVE parts[i] \in Seq(X)
    OBVIOUS
  <2>2. parts[i][1] \in X
    BY <1>1
  <2> HIDE DEF X
  <2>3. <<>> \in Seq(X) /\ <<parts[i][1]>> \in Seq(X)
    BY <2>2
  <2> QED
    BY <1>2, <2>3
<1> HIDE DEF X, places, N
<1>4. parts \in Seq(Seq(X)) /\ Len(parts) = N
  <2> DEFINE Y == Seq(X)
  <2>1. parts \in [1 .. N -> Y]
    BY <1>2, <1>3
  <2> HIDE DEF Y
  <2>2. parts \in Seq(Y)
    BY <1>1, <2>1, SeqDef
  <2> QED
    BY <1>1, <1>2, <2>2, LenProperties DEF Y
<1>5. ASSUME NEW n \in Nat, n < N
      PROVE  /\ first(n) \in Seq(X)
             /\ first(n + 1) = IF parts[n + 1] = <<>> THEN first(n) ELSE Append(first(n), parts[n + 1][1])
             /\ parts[n + 1] # <<>> => parts[n + 1][1] \in X
  <2>1. n < Len(parts)
    BY <1>4, <1>5
  <2>2. first(n) \in Seq(X) /\ first(n + 1) = first(n) \o parts[n + 1]
    BY <1>4, <2>1, FlattenNext
  <2> HIDE DEF first
  <2>3. n + 1 \in 1 .. N
    BY <1>1, <1>5
  <2>4. parts[n + 1][1] \in X
    BY <1>1, <2>3 DEF X
  <2>5. CASE parts[n + 1] = <<>>
    BY <2>2, <2>4, <2>5, ConcatEmptySeq
  <2>6. CASE parts[n + 1] # <<>>
    <3> DEFINE e == parts[n + 1][1]
    <3>1. parts[n + 1] = <<e>> /\ e \in X
      BY <1>2, <2>3, <2>4, <2>6
    <3> HIDE DEF e
    <3>2. first(n) \o <<e>> = Append(first(n), e)
      BY <2>2, <3>1, AppendIsConcat
    <3> QED
      BY <2>2, <2>4, <2>6, <3>1, <3>2 DEF e
  <2> QED
    BY <2>5, <2>6
<1>6. 0 \in S
  <2>1. SubSeq(parts, 1, 0) = <<>>
    OBVIOUS
  <2>2. first(0) = <<>>
    BY <2>1, FlattenEmpty
  <2>3. said(0) = <<>>
    BY <2>2, SelectEmpty DEF Answers
  <2>4. Rank(places, 0) = 0 /\ \A i \in places : ~(i <= 0)
    BY <1>1, RankStep
  <2>5. IsSequence(<<>>) /\ Len(<<>>) = 0
    BY DEF IsSequence
  <2> HIDE DEF said
  <2> QED
    BY <2>3, <2>4, <2>5
<1> HIDE DEF first
<1>7. ASSUME NEW n \in Nat, n \in S PROVE n + 1 \in S
  <2>1. SUFFICES ASSUME n + 1 <= N PROVE Good(n + 1)
    BY DEF S
  <2>2. n < N /\ n + 1 \in 1 .. N /\ Good(n)
    BY <1>1, <1>7, <2>1
  <2>3. /\ Rank(places, n) \in Nat
        /\ Rank(places, n + 1) = IF n + 1 \in places THEN Rank(places, n) + 1 ELSE Rank(places, n)
    BY RankStep
  <2> DEFINE e == parts[n + 1][1]
  <2>4. said(n + 1) = IF n + 1 \in places THEN Append(said(n), e) ELSE said(n)
    <3>1. CASE parts[n + 1] = <<>>
      <4>1. n + 1 \notin places /\ first(n + 1) = first(n)
        BY <1>2, <1>5, <2>2, <3>1
      <4> QED
        BY <4>1
    <3>2. CASE parts[n + 1] # <<>>
      <4>1. first(n + 1) = Append(first(n), e) /\ first(n) \in Seq(X) /\ e \in X
        BY <1>5, <2>2, <3>2
      <4>2. e.role = "assistant" <=> n + 1 \in places
        BY <1>2, <2>2, <3>2
      <4> HIDE DEF e
      <4>3. Answers(Append(first(n), e)) =
               IF e.role = "assistant" THEN Append(Answers(first(n)), e) ELSE Answers(first(n))
        BY <4>1, AnswersAppend
      <4> QED
        BY <4>1, <4>2, <4>3
    <3> QED
      BY <3>1, <3>2
  <2> HIDE DEF said
  <2>5. IsSequence(said(n)) /\ Len(said(n)) = Rank(places, n)
        /\ \A i \in places : i <= n =>
              Rank(places, i) \in 1 .. Len(said(n)) /\ said(n)[Rank(places, i)] = parts[i][1]
    BY <2>2
  <2>6. \A i \in places : i <= n + 1 => i <= n \/ i = n + 1
    BY <1>1
  <2>7. CASE n + 1 \notin places
    BY <2>3, <2>4, <2>5, <2>6, <2>7
  <2>8. CASE n + 1 \in places
    <3> DEFINE old == said(n)
               new == Append(old, e)
    <3>1. IsSequence(old)
      BY <2>5
    <3> HIDE DEF old, e
    <3>2. /\ IsSequence(new) /\ Len(new) = Len(old) + 1
          /\ new[Len(old) + 1] = e /\ \A i \in 1 .. Len(old) : new[i] = old[i]
      BY ONLY <3>1, ListAppend
    <3> HIDE DEF new
    <3>3. said(n + 1) = new
      BY <2>4, <2>8 DEF new, old
    <3>4. Len(old) = Rank(places, n) /\ Rank(places, n + 1) = Len(old) + 1 /\ Len(old) \in Nat
      BY <2>3, <2>5, <2>8 DEF old
    <3>5. ASSUME NEW i \in places, i <= n + 1
          PROVE  Rank(places, i) \in 1 .. Len(new) /\ new[Rank(places, i)] = parts[i][1]
      <4>1. CASE i <= n
        <5>1. Rank(places, i) \in 1 .. Len(old) /\ old[Rank(places, i)] = parts[i][1]
          BY <2>5, <3>5, <4>1 DEF old
        <5> QED
          BY <3>2, <3>4, <5>1
      <4>2. CASE i = n + 1
        BY <3>2, <3>4, <4>2 DEF e
      <4> QED
        BY <2>6, <3>5, <4>1, <4>2
    <3> QED
      BY <3>2, <3>3, <3>4, <3>5
  <2> QED
    BY <2>7, <2>8
<1> HIDE DEF S
<1>8. N \in S
  BY <1>1, <1>6, <1>7, SetInduction
<1>9. Good(N)
  BY <1>1, <1>8 DEF S
<1>10. first(N) = FlattenSeq(parts)
  <2>1. SubSeq(parts, 1, N) = parts
    BY <1>4
  <2> QED
    BY <2>1 DEF first
<1>11. IsSequence(said(N)) => DOMAIN said(N) = 1 .. Len(said(N))
  BY ListDomain
<1>12. \A i \in places : i <= N
  BY <1>1
<1> HIDE DEF said
<1>13. \A i \in places : Rank(places, i) \in DOMAIN said(N) /\ said(N)[Rank(places, i)] = parts[i][1]
  BY <1>9, <1>11, <1>12
<1>14. said(N) = Answers(FlattenSeq(parts))
  BY <1>10 DEF said
<1> QED
  BY <1>13, <1>14 DEF places

\* Where the answers are.
LEMMA AnswerPositions ==
    ASSUME NEW N \in Nat, NEW places, places \subseteq 1 .. N
    PROVE  LET own == InOrder(places, N)
           IN  \A n \in DOMAIN own : own[n] \in places /\ n = Rank(places, own[n])
<1> DEFINE s == [i \in 1 .. N |-> i]
<1>1. IsSequence(s) /\ Len(s) = N
  <2>1. DOMAIN s = 1 .. N /\ s = [i \in 1 .. N |-> s[i]]
    OBVIOUS
  <2> HIDE DEF s
  <2> QED
    BY <2>1, ListMade
<1>2. \A i \in DOMAIN s : s[i] = i
  OBVIOUS
<1>3. InOrder(places, N) = Select(s, places)
  BY DEF InOrder
<1> HIDE DEF s
<1>4. \A n \in DOMAIN Select(s, places) :
         \E i \in DOMAIN s : i \in places /\ n = Rank(places, i) /\ Select(s, places)[n] = s[i]
  BY <1>1, ListSelect
<1> QED
  BY <1>2, <1>3, <1>4

\* How an answer may be replayed.
Replays(content, i) ==
    /\ contents[i] # <<>> => content = contents[i][1]
    /\ \A b \in DOMAIN content : MadeBy(content[b]) \subseteq {model.id}

\* A checkpoint is replayed as it is, and there is one at most.
LEMMA Checkpointed ==
    ASSUME HostInvariant, NEW messages, Bound(messages, continuation.checkpoints, model.id),
           NEW i \in DOMAIN conversation
    PROVE  LET at == {n \in DOMAIN continuation.checkpoints : continuation.checkpoints[n].index = i}
           IN  /\ at # {} => /\ Min(at) = Max(at) /\ Min(at) \in DOMAIN continuation.checkpoints
                             /\ Replays(Content(continuation, Min(at)), i)
               /\ at = {} => contents[i] = <<>>
<1> DEFINE checkpoints == continuation.checkpoints
           at == {n \in DOMAIN checkpoints : checkpoints[n].index = i}
<1>1. Faithful(continuation) /\ Traced(contents, continuation) /\ Sound(conversation, contents)
  BY DEF HostInvariant
<1>2. /\ IsSequence(checkpoints) /\ \A n \in DOMAIN checkpoints : checkpoints[n].index \in Nat
      /\ Bound(messages, checkpoints, model.id)
  BY <1>1 DEF Faithful
<1>3. \A n \in DOMAIN checkpoints, m \in DOMAIN checkpoints :
         n < m <=> checkpoints[n].index < checkpoints[m].index
  BY ONLY <1>2, CheckpointsOrdered
<1>4. DOMAIN checkpoints = 1 .. Len(checkpoints) /\ Len(checkpoints) \in Nat
  BY ONLY <1>2, ListDomain
<1>5. \A n \in DOMAIN checkpoints : \A b \in DOMAIN Content(continuation, n) :
         MadeBy(Content(continuation, n)[b]) \subseteq {model.id}
  BY <1>1, <1>2 DEF Faithful, Bound
<1>6. i \in DOMAIN contents
  <2>1. IsSequence(conversation) /\ IsSequence(contents) /\ Len(contents) = Len(conversation)
    BY <1>1 DEF Sound
  <2> QED
    BY <2>1, ListDomain
<1>7. contents[i] # <<>> =>
         \E n \in DOMAIN checkpoints :
            checkpoints[n].index = i /\ contents[i] = <<Content(continuation, n)>>
  BY <1>1, <1>6 DEF Traced
<1> HIDE DEF checkpoints
<1>8. \A n \in at, m \in at : n = m
  <2>1. SUFFICES ASSUME NEW n \in DOMAIN checkpoints, NEW m \in DOMAIN checkpoints,
                        checkpoints[n].index = i, checkpoints[m].index = i
                 PROVE  n = m
    OBVIOUS
  <2>2. i \in Nat /\ n \in Nat /\ m \in Nat
    BY <1>2, <1>4, <2>1
  <2>3. ~(n < m) /\ ~(m < n)
    BY <1>3, <2>1, <2>2
  <2> QED
    BY <2>2, <2>3
<1>9. ASSUME at # {} PROVE Min(at) = Max(at) /\ Min(at) \in at
  <2>1. at \in SUBSET Nat /\ at \in SUBSET (1 .. Len(checkpoints))
    BY <1>4
  <2> HIDE DEF at
  <2>2. Min(at) \in at
    BY <1>9, <2>1, LeastPosition
  <2>3. Max(at) \in at
    BY <1>4, <1>9, <2>1, GreatestPosition
  <2> QED
    BY <1>8, <2>2, <2>3
<1>10. ASSUME at # {} PROVE Replays(Content(continuation, Min(at)), i)
  <2>1. Min(at) \in at
    BY <1>9, <1>10
  <2>2. ASSUME contents[i] # <<>> PROVE Content(continuation, Min(at)) = contents[i][1]
    <3>1. PICK n \in DOMAIN checkpoints :
              checkpoints[n].index = i /\ contents[i] = <<Content(continuation, n)>>
      BY <1>7, <2>2
    <3>2. n = Min(at)
      <4>1. n \in at
        BY <3>1
      <4> HIDE DEF at
      <4> QED
        BY <1>8, <2>1, <4>1
    <3> QED
      BY <3>1, <3>2
  <2>3. Min(at) \in DOMAIN checkpoints
    BY <2>1
  <2> HIDE DEF at
  <2> QED
    BY <1>5, <2>2, <2>3 DEF Replays
<1> QED
  BY <1>7, <1>9, <1>10 DEF checkpoints

\* Two lists of which nothing is another model's make one.
LEMMA ReadableConcat ==
    ASSUME NEW s, NEW t, NEW id, IsSequence(s), IsSequence(t),
           \A b \in DOMAIN s : MadeBy(s[b]) \subseteq {id},
           \A b \in DOMAIN t : MadeBy(t[b]) \subseteq {id}
    PROVE  \A b \in DOMAIN (s \o t) : MadeBy((s \o t)[b]) \subseteq {id}
<1> DEFINE u == s \o t
<1>0. /\ Len(u) = Len(s) + Len(t) /\ DOMAIN u = 1 .. Len(s) + Len(t)
      /\ \A i \in 1 .. Len(s) : u[i] = s[i]
      /\ \A i \in 1 .. Len(t) : u[Len(s) + i] = t[i]
  <2>1. IsSequence(s) /\ IsSequence(t)
    OBVIOUS
  <2> QED
    BY ONLY <2>1, ListConcat
<1>1. /\ DOMAIN s = 1 .. Len(s) /\ DOMAIN t = 1 .. Len(t) /\ Len(s) \in Nat /\ Len(t) \in Nat
  BY ListDomain
<1> HIDE DEF u
<1>2. ASSUME NEW b \in DOMAIN u PROVE MadeBy(u[b]) \subseteq {id}
  <2>1. CASE b <= Len(s)
    <3>1. b \in DOMAIN s /\ u[b] = s[b]
      BY <1>0, <1>1, <2>1
    <3> QED
      BY <3>1
  <2>2. CASE ~(b <= Len(s))
    <3>1. b - Len(s) \in 1 .. Len(t) /\ Len(s) + (b - Len(s)) = b
      BY <1>0, <1>1, <2>2
    <3>2. u[b] = t[b - Len(s)] /\ b - Len(s) \in DOMAIN t
      BY <1>0, <1>1, <3>1
    <3> QED
      BY <3>2
  <2> QED
    BY <2>1, <2>2
<1> QED
  BY <1>2 DEF u

\* An answer that no checkpoint is of is written anew, with nothing opaque in it:
\* by each of the adapters that have checkpoints.
LEMMA WrittenAnew ==
    ASSUME NEW message, IsSequence(message.calls), NEW id
    PROVE  /\ LET content == A!AssistantEntry(message).content
              IN  \A b \in DOMAIN content : MadeBy(content[b]) \subseteq {id}
           /\ LET content == G!AssistantParts(message)
              IN  \A b \in DOMAIN content : MadeBy(content[b]) \subseteq {id}
           /\ LET content == R!AssistantItems(message)
              IN  \A b \in DOMAIN content : MadeBy(content[b]) \subseteq {id}
<1> DEFINE calls == message.calls
           Clear(s) == IsSequence(s) /\ \A b \in DOMAIN s : MadeBy(s[b]) = {}
           said == message.content = <<>>
<1>1. Clear(<<>>) /\ \A x : MadeBy(x) = {} => Clear(<<x>>)
  <2>1. IsSequence(<<>>) /\ DOMAIN <<>> = {}
    BY DEF IsSequence
  <2>2. ASSUME NEW x PROVE IsSequence(<<x>>) /\ DOMAIN <<x>> = {1} /\ <<x>>[1] = x
    <3>1. <<x>> \in Seq({x}) /\ Len(<<x>>) = 1 /\ <<x>>[1] = x
      OBVIOUS
    <3>2. IsSequence(<<x>>) /\ DOMAIN <<x>> = 1 .. Len(<<x>>)
      BY <3>1, ListOf
    <3> QED
      BY <3>1, <3>2
  <2> QED
    BY <2>1, <2>2
<1>2. ASSUME NEW t, DOMAIN t = DOMAIN calls, t = [k \in DOMAIN calls |-> t[k]],
             \A k \in DOMAIN calls : MadeBy(t[k]) = {}
      PROVE  Clear(t)
  <2>1. IsSequence(t)
    BY ONLY IsSequence(message.calls), <1>2, ListImage
  <2> QED
    BY <1>2, <2>1
<1>3. ASSUME NEW s, NEW t, Clear(s), Clear(t)
      PROVE  \A b \in DOMAIN (s \o t) : MadeBy((s \o t)[b]) \subseteq {id}
  <2>1. /\ IsSequence(s) /\ IsSequence(t)
        /\ \A b \in DOMAIN s : MadeBy(s[b]) \subseteq {id}
        /\ \A b \in DOMAIN t : MadeBy(t[b]) \subseteq {id}
    BY <1>3
  <2> QED
    BY ONLY <2>1, ReadableConcat
<1>4. ToSet(<<>>) = {}
  BY DEF ToSet
<1> HIDE DEF Clear
<1>5. LET content == A!AssistantEntry(message).content
      IN  \A b \in DOMAIN content : MadeBy(content[b]) \subseteq {id}
  <2> DEFINE s == IF said THEN <<>> ELSE <<A!Text(message.content)>>
             t == [n \in DOMAIN calls |-> A!ToolUse(calls[n].id, calls[n].name, calls[n].input)]
  <2>1. Clear(s)
    <3>1. MadeBy(A!Text(message.content)) = {}
      BY DEF MadeBy, A!Text
    <3> QED
      BY <1>1, <3>1
  <2>2. Clear(t)
    <3>1. \A k \in DOMAIN calls : MadeBy(t[k]) = {}
      BY DEF MadeBy, A!ToolUse
    <3>2. DOMAIN t = DOMAIN calls /\ t = [k \in DOMAIN calls |-> t[k]]
      OBVIOUS
    <3> HIDE DEF t
    <3> QED
      BY <1>2, <3>1, <3>2
  <2>3. A!AssistantEntry(message).content = s \o t
    BY DEF A!AssistantEntry
  <2> HIDE DEF s, t
  <2> QED
    BY <1>3, <2>1, <2>2, <2>3
<1>6. LET content == G!AssistantParts(message)
      IN  \A b \in DOMAIN content : MadeBy(content[b]) \subseteq {id}
  <2> DEFINE s == IF said THEN <<>> ELSE <<G!Text(message.content)>>
             t == [k \in DOMAIN calls |-> G!FunctionCall(<<calls[k].id>>, calls[k].name, calls[k].input)]
  <2>1. Clear(s)
    <3>1. MadeBy(G!Text(message.content)) = {}
      BY <1>4 DEF MadeBy, G!Text
    <3> QED
      BY <1>1, <3>1
  <2>2. Clear(t)
    <3>1. \A k \in DOMAIN calls : MadeBy(t[k]) = {}
      BY <1>4 DEF MadeBy, G!FunctionCall
    <3>2. DOMAIN t = DOMAIN calls /\ t = [k \in DOMAIN calls |-> t[k]]
      OBVIOUS
    <3> HIDE DEF t
    <3> QED
      BY <1>2, <3>1, <3>2
  <2>3. G!AssistantParts(message) = s \o t
    BY DEF G!AssistantParts
  <2> HIDE DEF s, t
  <2> QED
    BY <1>3, <2>1, <2>2, <2>3
<1>7. LET content == R!AssistantItems(message)
      IN  \A b \in DOMAIN content : MadeBy(content[b]) \subseteq {id}
  <2> DEFINE s == IF said THEN <<>> ELSE <<R!Message(R!Output!NoId, <<message.content>>)>>
             t == [n \in DOMAIN calls |->
                     R!FunctionCall(R!Output!NoId, calls[n].id, calls[n].name, calls[n].input)]
  <2>1. Clear(s)
    <3>1. MadeBy(R!Message(R!Output!NoId, <<message.content>>)) = {}
      BY DEF MadeBy, R!Message
    <3> QED
      BY <1>1, <3>1
  <2>2. Clear(t)
    <3>1. \A k \in DOMAIN calls : MadeBy(t[k]) = {}
      BY DEF MadeBy, R!FunctionCall
    <3>2. DOMAIN t = DOMAIN calls /\ t = [k \in DOMAIN calls |-> t[k]]
      OBVIOUS
    <3> HIDE DEF t
    <3> QED
      BY <1>2, <3>1, <3>2
  <2>3. R!AssistantItems(message) = s \o t
    BY DEF R!AssistantItems
  <2> HIDE DEF s, t
  <2> QED
    BY <1>3, <2>1, <2>2, <2>3
<1> QED
  BY <1>5, <1>6, <1>7

\* The answers of a request are those of the conversation, and each is replayed.
Replayed(entries) ==
    LET said == Answers(entries)
        places == Has(conversation, "assistant")
    IN  \A i \in places : Replays(said[Rank(places, i)].content, i)

\* What is sent has the answers of the conversation,
LEMMA SentAnswers ==
    ASSUME HostInvariant
    PROVE  /\ IsSequence(Sent) /\ DOMAIN Sent = DOMAIN conversation
           /\ Has(Sent, "assistant") = Has(conversation, "assistant")
           /\ \A i \in DOMAIN conversation :
                 /\ Sent[i].role \in {"user", "assistant", "tool"}
                 /\ Sent[i].role = "assistant" => IsSequence(Sent[i].calls)
<1>1. Sound(conversation, contents)
  BY DEF HostInvariant
<1>2. /\ DOMAIN Sent = DOMAIN conversation /\ IsSequence(Sent)
      /\ \A i \in DOMAIN conversation :
            /\ Sent[i].role = conversation[i].role
            /\ conversation[i].role = "assistant" => Sent[i] = conversation[i]
  BY <1>1, SameSent
<1>3. \A i \in DOMAIN conversation :
            /\ conversation[i].role \in {"user", "assistant", "tool"}
            /\ conversation[i].role = "assistant" => IsSequence(conversation[i].calls)
  BY <1>1 DEF Sound, Formed
<1> QED
  BY <1>2, <1>3 DEF Has

\* and if its entries replay them, so does the request.
LEMMA EntriesReplayed ==
    ASSUME HostInvariant, NEW parts, Entered(Sent, parts),
           \A i \in Has(conversation, "assistant") : Replays(parts[i][1].content, i)
    PROVE  Replayed(FlattenSeq(parts))
<1>1. Has(Sent, "assistant") = Has(conversation, "assistant")
  BY SentAnswers
<1>2. LET said == Answers(FlattenSeq(parts))
          places == Has(conversation, "assistant")
      IN  \A i \in places : Rank(places, i) \in DOMAIN said /\ said[Rank(places, i)] = parts[i][1]
  BY <1>1, AnswersInOrder
<1> QED
  BY <1>2 DEF Replayed

\* The adapter of the Messages API replays what it has,
LEMMA MessagesReplayed ==
    ASSUME HostInvariant, Bound(Sent, continuation.checkpoints, model.id),
           continuation.protocol = "Messages"
    PROVE  Replayed(A!Request(Sent, continuation.checkpoints, Specs).entries)
<1> DEFINE checkpoints == continuation.checkpoints
           parts == [i \in DOMAIN Sent |-> A!Entry(Sent, checkpoints, i)]
           at(i) == {n \in DOMAIN checkpoints : checkpoints[n].index = i}
<1>1. A!Request(Sent, checkpoints, Specs).entries = FlattenSeq(parts)
  BY SameFlatten DEF A!Request
<1>2. /\ IsSequence(Sent) /\ DOMAIN Sent = DOMAIN conversation
      /\ Has(Sent, "assistant") = Has(conversation, "assistant")
      /\ \A i \in DOMAIN conversation :
            /\ Sent[i].role \in {"user", "assistant", "tool"}
            /\ Sent[i].role = "assistant" => IsSequence(Sent[i].calls)
  BY SentAnswers
<1>3. \A i \in DOMAIN conversation : A!StartsResults(Sent, i) => Sent[i].role = "tool"
  BY DEF A!StartsResults, A!Has
<1> HIDE DEF checkpoints
<1>4. ASSUME NEW i \in DOMAIN conversation, Sent[i].role = "assistant"
      PROVE  \E e : /\ A!Entry(Sent, checkpoints, i) = <<e>> /\ e.role = "assistant"
                    /\ Replays(e.content, i)
  <2> DEFINE e == IF at(i) = {} THEN A!AssistantEntry(Sent[i])
                  ELSE [role |-> "assistant", content |-> checkpoints[A!Min(at(i))].content]
  <2>1. A!Entry(Sent, checkpoints, i) = <<e>>
    BY <1>3, <1>4 DEF A!Entry
  <2>2. e.role = "assistant"
    BY DEF A!AssistantEntry
  <2>3. Replays(e.content, i)
    <3>1. CASE at(i) = {}
      <4>1. contents[i] = <<>>
        BY <3>1, Checkpointed DEF checkpoints
      <4>2. IsSequence(Sent[i].calls)
        BY <1>2, <1>4
      <4>3. \A b \in DOMAIN A!AssistantEntry(Sent[i]).content :
               MadeBy(A!AssistantEntry(Sent[i]).content[b]) \subseteq {model.id}
        BY <4>2, WrittenAnew
      <4>4. e.content = A!AssistantEntry(Sent[i]).content
        BY <3>1
      <4> HIDE DEF e
      <4> QED
        BY <4>1, <4>3, <4>4 DEF Replays
    <3>2. CASE at(i) # {}
      <4>1. Min(at(i)) \in DOMAIN checkpoints /\ Replays(Content(continuation, Min(at(i))), i)
        BY <3>2, Checkpointed DEF checkpoints
      <4>2. Content(continuation, Min(at(i))) = e.content
        <5>1. A!Min(at(i)) = Min(at(i))
          BY SameBounds
        <5> HIDE DEF at
        <5> QED
          BY <3>2, <5>1 DEF Content, checkpoints
      <4> QED
        BY <4>1, <4>2
    <3> QED
      BY <3>1, <3>2
  <2> HIDE DEF e
  <2> QED
    BY <2>1, <2>2, <2>3
<1>5. ASSUME NEW i \in DOMAIN conversation, Sent[i].role # "assistant"
      PROVE  \/ A!Entry(Sent, checkpoints, i) = <<>>
             \/ \E e : A!Entry(Sent, checkpoints, i) = <<e>> /\ e.role # "assistant"
  <2>1. CASE A!StartsResults(Sent, i)
    <3>1. A!Entry(Sent, checkpoints, i) = <<A!ResultsEntry(A!ResultsFrom(Sent, i))>>
      BY <1>3, <2>1 DEF A!Entry
    <3>2. A!ResultsEntry(A!ResultsFrom(Sent, i)).role # "assistant"
      BY DEF A!ResultsEntry
    <3> QED
      BY <3>1, <3>2
  <2>2. CASE ~A!StartsResults(Sent, i) /\ Sent[i].role = "user"
    <3>1. A!Entry(Sent, checkpoints, i) = <<A!UserEntry(Sent[i])>>
      BY <2>2 DEF A!Entry
    <3>2. A!UserEntry(Sent[i]).role # "assistant"
      BY DEF A!UserEntry
    <3> QED
      BY <3>1, <3>2
  <2>3. CASE ~A!StartsResults(Sent, i) /\ Sent[i].role = "tool"
    BY <2>3 DEF A!Entry
  <2> QED
    BY <1>2, <1>5, <2>1, <2>2, <2>3
<1>6. \A i \in DOMAIN conversation : parts[i] = A!Entry(Sent, checkpoints, i)
  BY <1>2
<1>7. DOMAIN parts = DOMAIN Sent /\ parts = [i \in DOMAIN Sent |-> parts[i]]
  OBVIOUS
<1> HIDE DEF parts, at
<1>8. \A i \in Has(conversation, "assistant") : i \in DOMAIN conversation /\ Sent[i].role = "assistant"
  BY <1>2 DEF Has
<1>9. \A e : <<e>> # <<>> /\ <<e>>[1] = e
  OBVIOUS
<1>10. Entered(Sent, parts)
  BY <1>2, <1>4, <1>5, <1>6, <1>7, <1>9 DEF Entered
<1>11. \A i \in Has(conversation, "assistant") : Replays(parts[i][1].content, i)
  BY <1>4, <1>6, <1>8, <1>9
<1> QED
  BY <1>1, <1>10, <1>11, EntriesReplayed DEF checkpoints

\* that of generateContent too,
LEMMA GoogleReplayed ==
    ASSUME HostInvariant, Bound(Sent, continuation.checkpoints, model.id),
           continuation.protocol = "GenerateContent",
           NEW request \in G!Request(Sent, continuation.checkpoints, Specs)
    PROVE  Replayed(request.entries)
<1> DEFINE checkpoints == continuation.checkpoints
           parts == [i \in DOMAIN Sent |-> G!Entry(Sent, checkpoints, i)]
           at(i) == {n \in DOMAIN checkpoints : checkpoints[n].index = i}
<1>1. request.entries = FlattenSeq(parts)
  BY SameFlatten DEF G!Request
<1>2. /\ IsSequence(Sent) /\ DOMAIN Sent = DOMAIN conversation
      /\ Has(Sent, "assistant") = Has(conversation, "assistant")
      /\ \A i \in DOMAIN conversation :
            /\ Sent[i].role \in {"user", "assistant", "tool"}
            /\ Sent[i].role = "assistant" => IsSequence(Sent[i].calls)
  BY SentAnswers
<1>3. \A i \in DOMAIN conversation : G!StartsResults(Sent, i) => Sent[i].role = "tool"
  BY DEF G!StartsResults, G!Has
<1>4. \A i : G!At(checkpoints, i) = at(i)
  BY DEF G!At
<1> HIDE DEF checkpoints
<1>5. ASSUME NEW i \in DOMAIN conversation, Sent[i].role = "assistant"
      PROVE  \E e : /\ G!Entry(Sent, checkpoints, i) = <<e>> /\ e.role = "assistant"
                    /\ Replays(e.content, i)
  <2> DEFINE content == IF at(i) = {} THEN G!AssistantParts(Sent[i])
                        ELSE checkpoints[G!Min(at(i))].content
             e == [role |-> "assistant", content |-> content]
  <2>1. G!Entry(Sent, checkpoints, i) = <<e>>
    <3>1. G!At(checkpoints, i) = at(i) /\ ~G!StartsResults(Sent, i)
      BY <1>3, <1>4, <1>5
    <3> HIDE DEF at
    <3> QED
      BY <1>5, <3>1 DEF G!Entry
  <2>2. e.role = "assistant" /\ e.content = content
    OBVIOUS
  <2>3. Replays(content, i)
    <3>1. CASE at(i) = {}
      <4>1. contents[i] = <<>>
        BY <3>1, Checkpointed DEF checkpoints
      <4>2. IsSequence(Sent[i].calls)
        BY <1>2, <1>5
      <4>3. \A b \in DOMAIN G!AssistantParts(Sent[i]) :
               MadeBy(G!AssistantParts(Sent[i])[b]) \subseteq {model.id}
        BY <4>2, WrittenAnew
      <4>4. content = G!AssistantParts(Sent[i])
        BY <3>1
      <4> HIDE DEF content
      <4> QED
        BY <4>1, <4>3, <4>4 DEF Replays
    <3>2. CASE at(i) # {}
      <4>1. Min(at(i)) \in DOMAIN checkpoints /\ Replays(Content(continuation, Min(at(i))), i)
        BY <3>2, Checkpointed DEF checkpoints
      <4>2. Content(continuation, Min(at(i))) = content
        <5>1. G!Min(at(i)) = Min(at(i))
          BY SameBounds
        <5> HIDE DEF at
        <5> QED
          BY <3>2, <5>1 DEF Content, checkpoints
      <4> QED
        BY <4>1, <4>2
    <3> QED
      BY <3>1, <3>2
  <2> HIDE DEF e
  <2> QED
    BY <2>1, <2>2, <2>3
<1>6. ASSUME NEW i \in DOMAIN conversation, Sent[i].role # "assistant"
      PROVE  \/ G!Entry(Sent, checkpoints, i) = <<>>
             \/ \E e : G!Entry(Sent, checkpoints, i) = <<e>> /\ e.role # "assistant"
  <2>1. CASE G!StartsResults(Sent, i)
    <3>1. \E content : G!Entry(Sent, checkpoints, i) = <<[role |-> "user", content |-> content]>>
      BY <1>3, <2>1 DEF G!Entry
    <3> QED
      BY <3>1
  <2>2. CASE ~G!StartsResults(Sent, i) /\ Sent[i].role = "user"
    <3>1. G!Entry(Sent, checkpoints, i) = <<[role |-> "user", content |-> G!UserParts(Sent[i])]>>
      BY <2>2 DEF G!Entry
    <3> QED
      BY <3>1
  <2>3. CASE ~G!StartsResults(Sent, i) /\ Sent[i].role = "tool"
    BY <2>3 DEF G!Entry
  <2> QED
    BY <1>2, <1>6, <2>1, <2>2, <2>3
<1>7. \A i \in DOMAIN conversation : parts[i] = G!Entry(Sent, checkpoints, i)
  BY <1>2
<1>8. DOMAIN parts = DOMAIN Sent /\ parts = [i \in DOMAIN Sent |-> parts[i]]
  OBVIOUS
<1> HIDE DEF parts, at
<1>9. \A i \in Has(conversation, "assistant") : i \in DOMAIN conversation /\ Sent[i].role = "assistant"
  BY <1>2 DEF Has
<1>10. \A e : <<e>> # <<>> /\ <<e>>[1] = e
  OBVIOUS
<1>11. Entered(Sent, parts)
  BY <1>2, <1>5, <1>6, <1>7, <1>8, <1>10 DEF Entered
<1>12. \A i \in Has(conversation, "assistant") : Replays(parts[i][1].content, i)
  BY <1>5, <1>7, <1>9, <1>10
<1> QED
  BY <1>1, <1>11, <1>12, EntriesReplayed DEF checkpoints

\* and that of the Responses API.
LEMMA ResponsesReplayed ==
    ASSUME HostInvariant, Bound(Sent, continuation.checkpoints, model.id),
           continuation.protocol = "Responses"
    PROVE  Replayed(R!Request(Sent, continuation.checkpoints, Specs).entries)
<1> DEFINE checkpoints == continuation.checkpoints
           entries == [i \in DOMAIN Sent |-> R!Entry(Sent, checkpoints, i)]
           at(i) == {n \in DOMAIN checkpoints : checkpoints[n].index = i}
           I == Has(conversation, "assistant")
<1>1. R!Request(Sent, checkpoints, Specs).entries = entries
  BY DEF R!Request
<1>2. /\ IsSequence(Sent) /\ DOMAIN Sent = DOMAIN conversation
      /\ Has(Sent, "assistant") = Has(conversation, "assistant")
      /\ \A i \in DOMAIN conversation :
            /\ Sent[i].role \in {"user", "assistant", "tool"}
            /\ Sent[i].role = "assistant" => IsSequence(Sent[i].calls)
  BY SentAnswers
<1>3. \A i \in DOMAIN Sent :
         /\ entries[i].role = Sent[i].role
         /\ entries[i].content = IF at(i) = {} THEN R!Items(Sent[i])
                                 ELSE checkpoints[R!Max(at(i))].output
  BY DEF R!Entry
<1>4. DOMAIN entries = DOMAIN Sent /\ entries = [i \in DOMAIN Sent |-> entries[i]]
  OBVIOUS
<1> HIDE DEF checkpoints, entries
<1>5. IsSequence(entries)
  BY ONLY <1>2, <1>4, ListImage
<1>6. Has(entries, "assistant") = I
  BY <1>2, <1>3, <1>4 DEF Has
<1>7. \A i \in I : i \in DOMAIN entries /\ Sent[i].role = "assistant"
  BY <1>2, <1>4 DEF Has
<1> HIDE DEF I
<1>8. \A i \in I : Answers(entries)[Rank(I, i)] = entries[i]
  <2>1. Answers(entries) = Select(entries, I)
    BY <1>6 DEF Answers
  <2>2. \A i \in DOMAIN entries : i \in I => Select(entries, I)[Rank(I, i)] = entries[i]
    BY ONLY <1>5, ListSelect
  <2> QED
    BY <1>7, <2>1, <2>2
<1>9. ASSUME NEW i \in I PROVE Replays(entries[i].content, i)
  <2>1. i \in DOMAIN conversation /\ i \in DOMAIN Sent /\ Sent[i].role = "assistant"
    BY <1>2, <1>4, <1>7
  <2>2. CASE at(i) = {}
    <3>1. contents[i] = <<>>
      BY <2>1, <2>2, Checkpointed DEF checkpoints
    <3>2. IsSequence(Sent[i].calls)
      BY <1>2, <2>1
    <3>3. \A b \in DOMAIN R!AssistantItems(Sent[i]) :
             MadeBy(R!AssistantItems(Sent[i])[b]) \subseteq {model.id}
      BY <3>2, WrittenAnew
    <3>4. entries[i].content = R!AssistantItems(Sent[i])
      BY <1>3, <2>1, <2>2 DEF R!Items
    <3> QED
      BY <3>1, <3>3, <3>4 DEF Replays
  <2>3. CASE at(i) # {}
    <3>1. /\ Min(at(i)) = Max(at(i)) /\ Min(at(i)) \in DOMAIN checkpoints
          /\ Replays(Content(continuation, Min(at(i))), i)
      BY <2>1, <2>3, Checkpointed DEF checkpoints
    <3>2. R!Max(at(i)) = Max(at(i))
      BY SameBounds
    <3> HIDE DEF at
    <3>3. Content(continuation, Min(at(i))) = entries[i].content
      BY <1>3, <2>1, <2>3, <3>1, <3>2 DEF Content, checkpoints
    <3> QED
      BY <3>1, <3>3
  <2> QED
    BY <2>2, <2>3
<1>10. \A i \in I : Replays(Answers(entries)[Rank(I, i)].content, i)
  BY <1>8, <1>9
<1> QED
  BY <1>1, <1>10 DEF Replayed, I, checkpoints

\* An answer is replayed as it came, by the index it has by now, however often the
\* conversation was compacted and whatever else was said to other models since; and
\* nothing that one model signed is shown to another.
THEOREM ThoughtsAreReplayed == Spec => []ThoughtsReplayed
<1>1. ConversationInvariant => ThoughtsReplayed
  <2> DEFINE answering == Has(conversation, "assistant")
             own == InOrder(answering, Len(conversation))
  <2>1. SUFFICES ASSUME ConversationInvariant, pc = "sending", ~Compacting,
                        Protocol # "ChatCompletions",
                        NEW request \in Requests(Sent, continuation, Specs), NEW n \in DOMAIN own
                 PROVE  LET said == Answers(request.entries)
                        IN  /\ contents[own[n]] # <<>> => said[n].content = contents[own[n]][1]
                            /\ \A b \in DOMAIN said[n].content :
                                  MadeBy(said[n].content[b]) \subseteq {model.id}
    BY DEF ThoughtsReplayed, Answers
  <2>2. HostInvariant /\ CallInvariant /\ model \in Models /\ Sound(conversation, contents)
    BY <2>1 DEF ConversationInvariant, HostInvariant
  <2>3. Accepted(model, Sent, continuation, Specs)
    BY <2>1, <2>2, RequestNow DEF CallInvariant, RequestIsAcceptable
  <2>4. /\ continuation.protocol = Protocol /\ Protocol \in Protocols
        /\ Bound(Sent, continuation.checkpoints, model.id)
    BY <2>1, <2>2, <2>3, ModelsAssumption DEF Accepted, Protocol
  <2>5. own[n] \in answering /\ n = Rank(answering, own[n])
    <3>1. Len(conversation) \in Nat /\ answering \subseteq 1 .. Len(conversation)
      BY <2>2, ListDomain DEF Sound, Has
    <3> HIDE DEF answering
    <3> QED
      BY <3>1, AnswerPositions
  <2>6. Replayed(request.entries)
    <3>1. CASE Protocol = "Messages"
      <4>1. request = A!Request(Sent, continuation.checkpoints, Specs)
        BY <2>1, <3>1 DEF Requests, Route
      <4> QED
        BY <2>2, <2>4, <3>1, <4>1, MessagesReplayed
    <3>2. CASE Protocol = "GenerateContent"
      <4>1. request \in G!Request(Sent, continuation.checkpoints, Specs)
        BY <2>1, <3>2 DEF Requests, Route
      <4> QED
        BY <2>2, <2>4, <3>2, <4>1, GoogleReplayed
    <3>3. CASE Protocol = "Responses"
      <4>1. request = R!Request(Sent, continuation.checkpoints, Specs)
        BY <2>1, <3>3 DEF Requests, Route
      <4> QED
        BY <2>2, <2>4, <3>3, <4>1, ResponsesReplayed
    <3> QED
      BY <2>1, <2>4, <3>1, <3>2, <3>3 DEF Protocols
  <2>7. Replays(Answers(request.entries)[n].content, own[n])
    <3>1. \A i \in answering : Replays(Answers(request.entries)[Rank(answering, i)].content, i)
      BY <2>6 DEF Replayed
    <3> HIDE DEF own, answering
    <3> QED
      BY <2>5, <3>1
  <2> HIDE DEF own
  <2> QED
    BY <2>7 DEF Replays
<1> QED
  BY <1>1, ConversationInvariance, PTL
=============================================================================
