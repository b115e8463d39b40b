-------------------------- MODULE Responses_proofs --------------------------
(***************************************************************************)
(* Proofs about the guard of a request in Responses, for every set of      *)
(* routes and outputs and whatever the service does.                       *)
(***************************************************************************)
EXTENDS Responses, Selection_proofs

\* Where a request is out.
OnTheWire == {"sending", "error body", "stream", "body"}

\* A request is open exactly where one is out, its caller waits exactly then, and
\* until the headers come nothing but its start was told.
GuardInvariant ==
    /\ attempt = "open" <=> pc \in OnTheWire
    /\ attempt = "open" <=> outcome = "pending"
    /\ pc = "sending" => diagnostics = <<Attempt!Started>>

-----------------------------------------------------------------------------
(* What becomes of the guard where it is used.                             *)

\* RequestAttemptGuard::finish is the end of the attempt.
LEMMA FinishImplements ==
    ASSUME GuardInvariant, pc \in OnTheWire,
           NEW failure \in Attempt!Failures \cup {"none"}, Finish(failure),
           pc' \in {"idle", "completed"}
    PROVE  GuardInvariant' /\ Attempt!Next
<1>1. Attempt!Finish(failure)
  BY DEF GuardInvariant, Finish, Reported, Attempt!Finish
<1>2. GuardInvariant'
  BY DEF GuardInvariant, Finish, OnTheWire, Attempt!Failures
<1> QED
  BY <1>1, <1>2 DEF Attempt!Next

\* A failed call reports its end once.
LEMMA FailImplements ==
    ASSUME GuardInvariant, pc \in OnTheWire, NEW failure \in Attempt!Failures, Fail(failure)
    PROVE  GuardInvariant' /\ Attempt!Next
BY FinishImplements DEF Fail

\* The headers are reported once, before anything else.
LEMMA HeadersImplement ==
    ASSUME GuardInvariant, NEW next \in OnTheWire \ {"sending"}, HeadersArrive(next)
    PROVE  GuardInvariant' /\ Attempt!Next
<1>1. Attempt!SeeHeaders
  BY DEF GuardInvariant, HeadersArrive, OnTheWire, Attempt!SeeHeaders
<1>2. GuardInvariant'
  BY DEF GuardInvariant, HeadersArrive, OnTheWire
<1> QED
  BY <1>1, <1>2 DEF Attempt!Next

\* A call starts its attempt.
LEMMA StartImplements ==
    ASSUME GuardInvariant, Start
    PROVE  GuardInvariant' /\ Attempt!Next
BY DEF GuardInvariant, Start, Opened, OnTheWire, Attempt!Start, Attempt!Next

\* The drop of the guard is the end of the attempt, or of nothing.
LEMMA DropImplements ==
    ASSUME GuardInvariant, Drop
    PROVE  GuardInvariant' /\ [Attempt!Next]_(Attempt!vars)
<1>1. CASE attempt = "open"
  BY <1>1 DEF GuardInvariant, Drop, Reported, OnTheWire, Attempt!Abandon, Attempt!Next
<1>2. CASE attempt # "open"
  BY <1>2 DEF GuardInvariant, Drop, Reported, OnTheWire, Attempt!vars
<1> QED
  BY <1>1, <1>2

\* Everything else leaves the guard alone, and stays where it was as to requests.
LEMMA ElsewhereImplements ==
    ASSUME GuardInvariant, UNCHANGED guard, pc' \in OnTheWire <=> pc \in OnTheWire,
           pc' = "sending" => pc = "sending"
    PROVE  GuardInvariant' /\ UNCHANGED Attempt!vars
BY DEF GuardInvariant, guard, Attempt!vars

-----------------------------------------------------------------------------
(* Every step of the adapter is a step of the attempt, or none.            *)

\* A call is a step of its attempt.
LEMMA CallImplements ==
    ASSUME GuardInvariant, NEW op, Call(op)
    PROVE  GuardInvariant' /\ UNCHANGED Attempt!vars
BY DEF GuardInvariant, Call, OnTheWire, Attempt!vars

\* The host reports nothing, but a drop abandons the attempt.
LEMMA HostImplements ==
    ASSUME GuardInvariant,
           \/ \E text \in Sayings : Say(text) \/ \E i \in DOMAIN conversation : Edit(i, text)
           \/ RunTool \/ Truncate \/ Renew \/ CompactPortably
           \/ \E r \in Routes : Switch(r)
           \/ Refused \/ Adopt
    PROVE  GuardInvariant' /\ UNCHANGED Attempt!vars
<1>1. UNCHANGED guard /\ pc \notin OnTheWire /\ pc' \notin OnTheWire
  BY DEF Say, Edit, RunTool, Truncate, Renew, CompactPortably, Switch, Refused, Adopt,
         Idle, OnTheWire
<1> QED
  BY <1>1, ElsewhereImplements DEF OnTheWire

\* An event that is taken leaves the guard alone.
LEMMA TakeImplements ==
    ASSUME GuardInvariant, Take
    PROVE  GuardInvariant' /\ UNCHANGED Attempt!vars
<1>1. UNCHANGED guard /\ pc' = pc
  BY DEF Take
<1> QED
  BY <1>1, ElsewhereImplements

\* The stream reports nothing but its end.
LEMMA StreamImplements ==
    ASSUME GuardInvariant,
           \/ TextDelta \/ ItemDone \/ PassedOver
           \/ ResponseFailed \/ ResponseIncomplete \/ Malformed
           \/ ResponseCompleted \/ StreamBreaks
    PROVE  GuardInvariant' /\ [Attempt!Next]_(Attempt!vars)
<1>1. pc = "stream"
  BY DEF TextDelta, ItemDone, PassedOver, ResponseFailed, ResponseIncomplete, Malformed,
         ResponseCompleted, StreamBreaks, Event
<1>2. CASE Take
  BY <1>2, TakeImplements
<1>3. CASE \E failure \in Attempt!Failures : Fail(failure)
  BY <1>1, <1>3, FailImplements DEF OnTheWire
<1>4. CASE Finish("none") /\ pc' = "completed"
  BY <1>1, <1>4, FinishImplements DEF OnTheWire
<1>5. ItemDone => Take \/ \E failure \in Attempt!Failures : Fail(failure)
  BY DEF ItemDone, Attempt!Failures
<1>6. ResponseCompleted =>
         \/ \E failure \in Attempt!Failures : Fail(failure)
         \/ Finish("none") /\ pc' = "completed"
  BY DEF ResponseCompleted, Attempt!Failures
<1>7. \/ Take
      \/ \E failure \in Attempt!Failures : Fail(failure)
      \/ Finish("none") /\ pc' = "completed"
  BY <1>5, <1>6
     DEF TextDelta, PassedOver, ResponseFailed, ResponseIncomplete, Malformed,
         StreamBreaks, Attempt!Failures
<1> QED
  BY <1>2, <1>3, <1>4, <1>7

\* Before the first call no attempt is open.
LEMMA InvariantInit == Init => GuardInvariant /\ Attempt!Init
BY DEF Init, GuardInvariant, OnTheWire, Attempt!Init

\* Every step is one of the attempt or a stutter.
LEMMA StepImplements ==
    ASSUME GuardInvariant, [Next]_vars
    PROVE  GuardInvariant' /\ [Attempt!Next]_(Attempt!vars)
<1>1. CASE \/ \E text \in Sayings : Say(text) \/ \E i \in DOMAIN conversation : Edit(i, text)
           \/ RunTool \/ Truncate \/ Renew \/ CompactPortably
           \/ \E r \in Routes : Switch(r)
           \/ Refused \/ Adopt
  BY <1>1, HostImplements
<1>2. CASE Complete \/ CompactNatively
  BY <1>2, CallImplements DEF Complete, CompactNatively
<1>3. CASE Start
  BY <1>3, StartImplements
<1>4. CASE SendFails \/ ErrorBodyRead \/ CompactionUnreadable
  BY <1>4, FailImplements
     DEF SendFails, ErrorBodyRead, CompactionUnreadable, OnTheWire, Attempt!Failures
<1>5. CASE Rejected \/ ResponseStarts \/ CompactionAnswered
  BY <1>5, HeadersImplement DEF Rejected, ResponseStarts, CompactionAnswered, OnTheWire
<1>6. CASE \/ TextDelta \/ ItemDone \/ PassedOver
           \/ ResponseFailed \/ ResponseIncomplete \/ Malformed
           \/ ResponseCompleted \/ StreamBreaks
  BY <1>6, StreamImplements
<1>7. CASE Compacted
  BY <1>7, FinishImplements DEF Compacted, OnTheWire
<1>8. CASE Drop
  BY <1>8, DropImplements
<1>9. CASE UNCHANGED vars
  <2>1. UNCHANGED guard /\ pc' = pc
    BY <1>9 DEF vars
  <2> QED
    BY <2>1, ElsewhereImplements
<1> QED
  BY <1>1, <1>2, <1>3, <1>4, <1>5, <1>6, <1>7, <1>8, <1>9 DEF Next

\* A request is open in the guard exactly while the adapter waits for the service, at
\* every await and every yield: no return leaves it open, and none ends it early.
THEOREM GuardInvariance == Spec => []GuardInvariant
<1>1. GuardInvariant /\ [Next]_vars => GuardInvariant'
  BY StepImplements
<1> QED
  BY InvariantInit, <1>1, PTL DEF Spec

\* Every request is reported over exactly once, in the step in which its caller learns
\* how it ended and with what it learns, on all the returns of complete_stream and
\* compact_native and wherever their caller drops them.
THEOREM ReportsOnce == Spec => AttemptSpec
<1>1. Init => Attempt!Init
  BY InvariantInit
<1>2. GuardInvariant /\ [Next]_vars => [Attempt!Next]_(Attempt!vars)
  BY StepImplements
<1> QED
  BY GuardInvariance, <1>1, <1>2, PTL DEF Spec, AttemptSpec, Attempt!Spec

-----------------------------------------------------------------------------
(* What a service may tell of an output, and how the adapter remembers it. *)

\* What outputs are made of.
Items == UNION {Range(output) : output \in Outputs}

\* Everything that is ever told of a response that was meant to be `output`.
Deltas == {Delta(i, j, letter) : i \in Nat, j \in Nat, letter \in Letters}
Honest(output) ==
    Deltas \cup {[delta EXCEPT !.part = <<>>] : delta \in Deltas}
           \cup {Done(i, output[i]) : i \in DOMAIN output}
           \cup {Completed(output), Completed(<<>>)}
           \cup {Other(kind) : kind \in {"failed", "incomplete", "malformed", "other"}}

\* An output is a sequence of items, an item's parts are sequences of letters.
LEMMA OutputTypes ==
    ASSUME NEW output \in Outputs
    PROVE  /\ output \in Seq(Items) /\ Len(output) \in Nat /\ DOMAIN output = 1 .. Len(output)
           /\ \A i \in DOMAIN output : output[i].parts \in Seq(Seq(Letters))
<1>1. output \in Seq(Range(output))
  BY OutputsAssumption
<1>2. Range(output) \subseteq Items
  BY DEF Items
<1>3. output \in Seq(Items)
  BY <1>1, <1>2, SeqMonotonic
<1> QED
  BY <1>3, LenProperties, OutputsAssumption

\* The letters of an item, part by part, as they are told.
Lettering(i, item) ==
    [j \in DOMAIN item.parts |->
        [n \in DOMAIN item.parts[j] |-> Delta(i, j, item.parts[j][n])]]

\* They are sequences of events, one for each part.
LEMMA LetteringType ==
    ASSUME NEW output \in Outputs, NEW i \in DOMAIN output
    PROVE  /\ Lettering(i, output[i]) \in Seq(Seq(Deltas))
           /\ Len(Lettering(i, output[i])) = Len(output[i].parts)
           /\ \A j \in DOMAIN output[i].parts :
                 Lettering(i, output[i])[j] =
                    [n \in 1 .. Len(output[i].parts[j]) |-> Delta(i, j, output[i].parts[j][n])]
<1> DEFINE parts == output[i].parts
           N == Len(parts)
           Letter(j, n) == Delta(i, j, parts[j][n])
           told == [j \in DOMAIN parts |-> [n \in DOMAIN parts[j] |-> Letter(j, n)]]
<1>1. parts \in Seq(Seq(Letters)) /\ i \in Nat
  BY OutputTypes
<1>2. N \in Nat /\ DOMAIN parts = 1 .. N /\ \A j \in 1 .. N : parts[j] \in Seq(Letters)
  BY <1>1, LenProperties, ElementOfSeq
<1> HIDE DEF parts, N
<1>3. ASSUME NEW j \in 1 .. N PROVE [n \in DOMAIN parts[j] |-> Letter(j, n)] \in Seq(Deltas)
  <2> DEFINE M == Len(parts[j])
  <2>1. parts[j] \in Seq(Letters) /\ j \in Nat
    BY <1>2
  <2>2. M \in Nat /\ DOMAIN parts[j] = 1 .. M /\ \A n \in 1 .. M : parts[j][n] \in Letters
    BY <2>1, LenProperties, ElementOfSeq
  <2>3. \A n \in 1 .. M : Letter(j, n) \in Deltas
    BY <1>1, <2>1, <2>2 DEF Deltas
  <2> HIDE DEF M, Letter
  <2>4. [n \in 1 .. M |-> Letter(j, n)] \in Seq(Deltas)
    BY <2>2, <2>3
  <2> QED
    BY <2>2, <2>4
<1> DEFINE Told1(j) == [n \in DOMAIN parts[j] |-> Letter(j, n)]
<1>4. told \in Seq(Seq(Deltas))
  <2>1. told = [j \in 1 .. N |-> Told1(j)] /\ \A j \in 1 .. N : Told1(j) \in Seq(Deltas)
    BY <1>2, <1>3
  <2> DEFINE D == Seq(Deltas)
  <2> HIDE DEF Told1, told, D
  <2>2. [j \in 1 .. N |-> Told1(j)] \in Seq(D)
    BY <1>2, <2>1 DEF D
  <2> QED
    BY <2>1, <2>2 DEF D
<1>5. told = Lettering(i, output[i])
  BY DEF Lettering, parts
<1>6. Len(told) = N /\ \A j \in 1 .. N : told[j] = Told1(j)
  <2>1. told = [j \in 1 .. N |-> Told1(j)]
    BY <1>2
  <2> HIDE DEF told, Told1
  <2> QED
    BY <1>2, <2>1
<1>7. \A j \in 1 .. N : DOMAIN parts[j] = 1 .. Len(parts[j])
  BY <1>2, LenProperties
<1>8. \A j \in 1 .. N : told[j] = [n \in 1 .. Len(parts[j]) |-> Letter(j, n)]
  <2> HIDE DEF told, Letter
  <2> QED
    BY <1>6, <1>7
<1> QED
  BY <1>2, <1>4, <1>5, <1>6, <1>8 DEF N, parts

\* What is told of an item tells of the output it belongs to.
LEMMA ItemTold ==
    ASSUME NEW output \in Outputs, NEW i \in DOMAIN output
    PROVE  /\ DeltasOf(i, output[i]) \in Seq(Deltas)
           /\ DeltasOf(i, output[i]) \o <<Done(i, output[i])>> \in Seq(Honest(output))
<1> DEFINE told == Lettering(i, output[i])
<1>4. told \in Seq(Seq(Deltas))
  BY LetteringType
<1>5. DeltasOf(i, output[i]) = FlattenSeq(told)
  BY DEF DeltasOf, Lettering
<1>6. DeltasOf(i, output[i]) \in Seq(Deltas)
  BY <1>4, <1>5, FlattenType
<1>7. DeltasOf(i, output[i]) \in Seq(Honest(output))
  <2>1. Deltas \subseteq Honest(output)
    BY DEF Honest
  <2> QED
    BY <1>6, <2>1, SeqMonotonic
<1>8. <<Done(i, output[i])>> \in Seq(Honest(output))
  <2>1. Done(i, output[i]) \in Honest(output)
    BY DEF Honest
  <2> QED
    BY <2>1
<1> QED
  BY <1>6, <1>7, <1>8, ConcatProperties

\* The items of an output as they are told, one after the other.
Tellings(output) ==
    [i \in DOMAIN output |-> DeltasOf(i, output[i]) \o <<Done(i, output[i])>>]

\* They are sequences of events.
LEMMA TellingsType ==
    ASSUME NEW output \in Outputs
    PROVE  /\ Tellings(output) \in Seq(Seq(Honest(output)))
           /\ Len(Tellings(output)) = Len(output)
           /\ \A i \in DOMAIN output :
                 Tellings(output)[i] = DeltasOf(i, output[i]) \o <<Done(i, output[i])>>
<1> DEFINE H == Seq(Honest(output))
           N == Len(output)
           T(i) == DeltasOf(i, output[i]) \o <<Done(i, output[i])>>
<1>1. N \in Nat /\ DOMAIN output = 1 .. N
  BY OutputTypes
<1>2. \A i \in 1 .. N : T(i) \in H
  BY <1>1, ItemTold
<1>3. Tellings(output) = [i \in 1 .. N |-> T(i)]
  BY <1>1 DEF Tellings
<1> HIDE DEF N, H, T
<1>4. [i \in 1 .. N |-> T(i)] \in Seq(H) /\ Len([i \in 1 .. N |-> T(i)]) = N
  BY <1>1, <1>2
<1>5. \A i \in 1 .. N : Tellings(output)[i] = T(i)
  BY <1>3
<1> QED
  BY <1>1, <1>3, <1>4, <1>5 DEF N, H, T

\* A service that tells everything tells of the output alone, and that it is complete
\* at the end and nowhere else.
LEMMA StreamedType ==
    ASSUME NEW output \in Outputs, NEW last \in {output, <<>>}
    PROVE  LET told == Streamed(output, last)
               front == FlattenSeq(Tellings(output))
           IN  /\ front \in Seq(Honest(output))
               /\ told = Append(front, Completed(last))
               /\ told \in Seq(Honest(output))
               /\ \A n \in 1 .. Len(front) : front[n].kind # "completed"
               /\ \A i \in DOMAIN output : \E n \in 1 .. Len(front) : front[n] = Done(i, output[i])
<1> DEFINE H == Honest(output)
           T == Tellings(output)
           front == FlattenSeq(T)
           told == Streamed(output, last)
<1>1. T \in Seq(Seq(H)) /\ front \in Seq(H)
  BY TellingsType, FlattenType
<1>2. Completed(last) \in H
  BY DEF Honest
<1>3. told = front \o <<Completed(last)>>
  BY DEF Streamed, Tellings
<1>4. told = Append(front, Completed(last)) /\ told \in Seq(H)
  <2> HIDE DEF H, front, told
  <2> QED
    BY <1>1, <1>2, <1>3, AppendIsConcat, AppendProperties
<1>5. ASSUME NEW i \in DOMAIN output
      PROVE  /\ \A j \in 1 .. Len(T[i]) : T[i][j].kind # "completed"
             /\ \E j \in 1 .. Len(T[i]) : T[i][j] = Done(i, output[i])
  <2> DEFINE d == DeltasOf(i, output[i])
             e == Done(i, output[i])
             D == Deltas \cup {e}
  <2>1. T[i] = d \o <<e>>
    BY TellingsType
  <2>2. d \in Seq(D)
    <3>1. d \in Seq(Deltas) /\ Deltas \subseteq D
      BY ItemTold
    <3> QED
      BY <3>1, SeqMonotonic
  <2>3. \A x \in D : x.kind # "completed"
    BY DEF Deltas, Delta, Done
  <2>4. e \in D
    OBVIOUS
  <2> HIDE DEF T, d, e, D
  <2>5. T[i] = Append(d, e)
    BY <2>1, <2>2, <2>4, AppendIsConcat
  <2>6. /\ Len(T[i]) = Len(d) + 1 /\ T[i][Len(d) + 1] = e /\ T[i] \in Seq(D) /\ Len(d) \in Nat
    BY <2>2, <2>4, <2>5, AppendProperties, LenProperties
  <2>7. \A j \in 1 .. Len(T[i]) : T[i][j] \in D
    BY <2>6, ElementOfSeq
  <2>8. Len(d) + 1 \in 1 .. Len(T[i])
    BY <2>6
  <2>9. \E j \in 1 .. Len(T[i]) : T[i][j] = e
    BY <2>6, <2>8
  <2> QED
    BY <2>3, <2>7, <2>9 DEF e
<1>6. Len(T) = Len(output) /\ DOMAIN output = 1 .. Len(output)
  BY TellingsType, OutputTypes
<1> HIDE DEF T, H
<1> DEFINE Within(e) == \E i \in 1 .. Len(T) : \E j \in 1 .. Len(T[i]) : T[i][j] = e
<1>7. ASSUME NEW e, \E m \in 1 .. Len(front) : front[m] = e PROVE Within(e)
  BY <1>1, <1>7, FlattenElements
<1>8. ASSUME NEW n \in 1 .. Len(front) PROVE front[n].kind # "completed"
  <2>1. SUFFICES ASSUME NEW e, front[n] = e PROVE e.kind # "completed"
    OBVIOUS
  <2>2. \E m \in 1 .. Len(front) : front[m] = e
    BY <2>1
  <2>3. Within(e)
    BY <1>7, <2>2
  <2> QED
    BY <1>5, <1>6, <2>3
<1>9. ASSUME NEW i \in DOMAIN output PROVE \E n \in 1 .. Len(front) : front[n] = Done(i, output[i])
  <2> DEFINE e == Done(i, output[i])
  <2>1. \E k \in 1 .. Len(T) : \E j \in 1 .. Len(T[k]) : T[k][j] = e
    BY <1>5, <1>6
  <2> HIDE DEF e
  <2>2. \E m \in 1 .. Len(front) : front[m] = e
    BY <1>1, <2>1, FlattenElements
  <2> QED
    BY <2>2 DEF e
<1> QED
  BY <1>1, <1>4, <1>8, <1>9 DEF H, T

\* A part of a sequence is a sequence.
LEMMA PartType ==
    ASSUME NEW X, NEW s \in Seq(X), NEW m \in Nat, NEW n \in Nat, m >= 1, n <= Len(s)
    PROVE  SubSeq(s, m, n) \in Seq(X)
<1>1. \A i \in m .. n : s[i] \in X
  <2>1. m .. n \subseteq 1 .. Len(s)
    BY LenProperties
  <2> QED
    BY <2>1, ElementOfSeq
<1> QED
  BY <1>1, SubSeqProperties

\* What goes wrong leaves every event one of the response.
LEMMA TroubledType ==
    ASSUME NEW output \in Outputs, NEW told \in Seq(Honest(output)),
           NEW troubled \in Troubled(told)
    PROVE  troubled \in Seq(Honest(output))
<1> DEFINE H == Honest(output)
           N == Len(told)
           Loose(n) == IF told[n].kind = "delta" THEN [told[n] EXCEPT !.part = <<>>] ELSE told[n]
<1>1. N \in Nat /\ DOMAIN told = 1 .. N /\ \A n \in 1 .. N : told[n] \in H
  BY LenProperties, ElementOfSeq
<1>2. ASSUME NEW k \in 1 .. N
      PROVE  SubSeq(told, 1, k - 1) \in Seq(H) /\ SubSeq(told, k, N) \in Seq(H)
             /\ SubSeq(told, k + 1, N) \in Seq(H)
  <2> DEFINE one == 1
             below == k - 1
             above == k + 1
  <2>1. /\ one \in Nat /\ below \in Nat /\ k \in Nat /\ above \in Nat /\ N \in Nat
        /\ one >= 1 /\ k >= 1 /\ above >= 1 /\ below <= N /\ N <= N /\ told \in Seq(H)
    BY <1>1
  <2> HIDE DEF H, one, below, above
  <2>2. SubSeq(told, one, below) \in Seq(H)
    BY <2>1, PartType
  <2>3. SubSeq(told, k, N) \in Seq(H)
    BY <2>1, PartType
  <2>4. SubSeq(told, above, N) \in Seq(H)
    BY <2>1, PartType
  <2> QED
    BY <2>2, <2>3, <2>4 DEF one, below, above
<1>3. ASSUME NEW k \in 1 .. N, NEW e \in H PROVE InsertAt(told, k, e) \in Seq(H)
  <2>1. InsertAt(told, k, e) = SubSeq(told, 1, k - 1) \o <<e>> \o SubSeq(told, k, N)
    BY DEF InsertAt
  <2> HIDE DEF H
  <2>2. <<e>> \in Seq(H)
    OBVIOUS
  <2>3. SubSeq(told, 1, k - 1) \o <<e>> \in Seq(H)
    BY <1>2, <2>2, ConcatProperties
  <2> QED
    BY <1>2, <2>1, <2>3, ConcatProperties
<1>4. ASSUME NEW k \in 1 .. N PROVE RemoveAt(told, k) \in Seq(H)
  <2>1. RemoveAt(told, k) = SubSeq(told, 1, k - 1) \o SubSeq(told, k + 1, N)
    BY DEF RemoveAt
  <2> HIDE DEF H
  <2> QED
    BY <1>2, <2>1, ConcatProperties
<1>5. [n \in DOMAIN told |-> Loose(n)] \in Seq(H)
  <2>1. ASSUME NEW n \in 1 .. N PROVE Loose(n) \in H
    <3>1. CASE told[n] \in Deltas
      BY <3>1, <1>1 DEF Honest
    <3>2. CASE told[n] \notin Deltas
      <4>1. told[n] \in H
        BY <1>1
      <4>2. CASE told[n] \in {[delta EXCEPT !.part = <<>>] : delta \in Deltas}
        <5>1. PICK delta \in Deltas : told[n] = [delta EXCEPT !.part = <<>>]
          BY <4>2
        <5>2. PICK i \in Nat, j \in Nat, letter \in Letters : delta = Delta(i, j, letter)
          BY DEF Deltas
        <5>3. told[n] = [kind |-> "delta", part |-> <<>>, text |-> <<letter>>]
          BY <5>1, <5>2 DEF Delta
        <5>4. [told[n] EXCEPT !.part = <<>>] = told[n]
          BY <5>3
        <5> QED
          BY <4>1, <5>4
      <4>3. CASE told[n].kind # "delta"
        BY <4>1, <4>3
      <4> QED
        BY <3>2, <4>1, <4>2, <4>3 DEF Honest, Done, Completed, Other
    <3> QED
      BY <3>1, <3>2
  <2> HIDE DEF H, Loose, N
  <2>2. [n \in 1 .. N |-> Loose(n)] \in Seq(H)
    BY <1>1, <2>1
  <2> QED
    BY <1>1, <2>2
<1>6. \A kind \in {"failed", "incomplete", "malformed", "other"} : Other(kind) \in H
  BY DEF Honest
<1>7. \/ \E k \in 1 .. N : \E kind \in {"failed", "incomplete", "malformed", "other"} :
            troubled = InsertAt(told, k, Other(kind))
      \/ \E k \in 1 .. N : troubled = InsertAt(told, k, told[k])
      \/ \E k \in 1 .. N : troubled = RemoveAt(told, k)
      \/ troubled = [n \in DOMAIN told |-> Loose(n)]
  BY <1>1 DEF Troubled
<1> HIDE DEF H, N, Loose
<1> QED
  BY <1>1, <1>3, <1>4, <1>5, <1>6, <1>7 DEF H

\* What is told of an output, well or not, are events of it.
LEMMA ToldType ==
    ASSUME NEW output \in Outputs, NEW told \in Told(output)
    PROVE  told \in Seq(Honest(output))
<1>1. Streamed(output, output) \in Seq(Honest(output))
  BY StreamedType
<1>2. Streamed(output, <<>>) \in Seq(Honest(output))
  BY StreamedType
<1>3. <<Completed(output)>> \in Seq(Honest(output))
  <2>1. Completed(output) \in Honest(output)
    BY DEF Honest
  <2> QED
    BY <2>1
<1> QED
  BY <1>1, <1>2, <1>3 DEF Told

-----------------------------------------------------------------------------
(* What was remembered of a response is part of it.                        *)

\* While it is told, every event to come is one of the response, and what is remembered
\* stands in it at its index.
Remembering ==
    /\ response \in Outputs
    /\ wire \in Seq(Honest(response))
    /\ DOMAIN items \subseteq DOMAIN response
    /\ \A i \in DOMAIN items : items[i] = response[i]

\* An answer is the response up to some item, and is followed by one checkpoint more.
Answered ==
    /\ response \in Outputs
    /\ \E n \in 1 .. Len(response) : answer.output = SubSeq(response, 1, n)
    /\ answer.next = [continuation EXCEPT !.checkpoints = Append(@, Checkpoint(answer.output))]

AnswerInvariant ==
    /\ pc = "stream" => Remembering
    /\ pc = "completed" /\ operation = "completion" => Answered
    /\ pc = "completed" /\ operation # "completion" =>
          answer.next = [Fresh EXCEPT !.window = Window]
    /\ pc = "stream" => operation = "completion"
    /\ pc = "body" => operation = "compaction"

\* An accepted output is what was remembered, or the response itself.
LEMMA FinalIsPart ==
    ASSUME Remembering, NEW last \in {response, <<>>}, NEW output \in FinalOutput(items, last),
           Usable(output)
    PROVE  /\ \E n \in 1 .. Len(response) : output = SubSeq(response, 1, n)
           /\ output = response \/ (last = <<>> /\ output \in Assembled(items))
<1> DEFINE N == Len(response)
<1>1. /\ response \in Seq(Items) /\ N \in Nat /\ DOMAIN response = 1 .. N /\ output # <<>>
      /\ response # <<>> => N # 0
  BY OutputTypes, EmptySeq DEF Remembering, Usable, Known
<1>2. CASE output = response
  <2>1. output = SubSeq(response, 1, N) /\ N \in 1 .. N
    BY <1>1, <1>2, SubSeqFull
  <2> QED
    BY <1>2, <2>1
<1>3. CASE output # response
  <2>1. last = <<>> /\ output \in Assembled(items)
    BY <1>1, <1>3 DEF FinalOutput
  <2> DEFINE n == Cardinality(DOMAIN items)
  <2>2. DOMAIN items = 1 .. n /\ output = [m \in 1 .. n |-> items[m]]
    BY <2>1 DEF Assembled
  <2>3. n \in Nat /\ n <= N
    <3>1. IsFiniteSet(1 .. N) /\ Cardinality(1 .. N) = N
      BY <1>1, FS_Interval
    <3>2. DOMAIN items \in SUBSET (1 .. N)
      BY <1>1 DEF Remembering
    <3> HIDE DEF N
    <3> QED
      BY <1>1, <3>1, <3>2, FS_Subset, FS_CardinalityType
  <2> HIDE DEF n, N
  <2>4. \A m \in 1 .. n : items[m] = response[m]
    BY <2>2 DEF Remembering
  <2>5. output = SubSeq(response, 1, n)
    BY <1>1, <2>2, <2>3, <2>4
  <2>6. n # 0
    <3>1. SUFFICES ASSUME n = 0 PROVE FALSE
      OBVIOUS
    <3>2. output = <<>>
      BY <2>2, <3>1
    <3> QED
      BY <1>1, <3>2
  <2> QED
    BY <2>1, <2>3, <2>5, <2>6 DEF N
<1> QED
  BY <1>2, <1>3

\* One event is taken off.
LEMMA TailTyped ==
    ASSUME Remembering, wire # <<>>
    PROVE  /\ Head(wire) \in Honest(response) /\ Tail(wire) \in Seq(Honest(response))
           /\ Head(wire) = wire[1]
BY HeadTailProperties DEF Remembering

\* An item that is done stands in the response where it says.
LEMMA DoneTyped ==
    ASSUME Remembering, NEW e \in Honest(response), e.kind = "done"
    PROVE  e.index \in DOMAIN response /\ e.item = response[e.index]
BY DEF Honest, Deltas, Delta, Done, Completed, Other

\* A response that is complete is told as it was meant, or not again.
LEMMA CompletedTyped ==
    ASSUME Remembering, NEW e \in Honest(response), e.kind = "completed"
    PROVE  e.output \in {response, <<>>}
BY DEF Honest, Deltas, Delta, Done, Completed, Other

\* Events are remembered as what they are.
LEMMA StreamRemembers ==
    ASSUME AnswerInvariant, TextDelta \/ ItemDone \/ PassedOver
    PROVE  AnswerInvariant'
<1>1. pc = "stream" /\ Remembering /\ wire # <<>>
  BY DEF TextDelta, ItemDone, PassedOver, Event, AnswerInvariant
<1>2. Head(wire) \in Honest(response) /\ Tail(wire) \in Seq(Honest(response))
  BY <1>1, TailTyped
<1>3. CASE Take /\ UNCHANGED items
  BY <1>1, <1>2, <1>3 DEF Take, AnswerInvariant, Remembering
<1>4. CASE ItemDone /\ Take /\ items' = Inserted(items, Head(wire))
  <2>1. Head(wire).kind = "done"
    BY <1>4 DEF ItemDone, Event
  <2>2. Head(wire).index \in DOMAIN response /\ Head(wire).item = response[Head(wire).index]
    BY <1>1, <1>2, <2>1, DoneTyped
  <2> DEFINE e == Head(wire)
  <2>3. DOMAIN items' = DOMAIN items \cup {e.index}
    BY <1>4 DEF Inserted
  <2>4. \A i \in DOMAIN items' : items'[i] = response[i]
    BY <1>1, <1>4, <2>2 DEF Inserted, Remembering
  <2>5. Remembering'
    BY <1>1, <1>2, <1>4, <2>2, <2>3, <2>4 DEF Take, Remembering
  <2> QED
    BY <1>1, <1>4, <2>5 DEF Take, AnswerInvariant
<1>5. CASE pc' = "idle"
  BY <1>5 DEF AnswerInvariant
<1> QED
  BY <1>3, <1>4, <1>5 DEF TextDelta, ItemDone, PassedOver, Fail

\* A response that starts is told of as it is.
LEMMA StartRemembers ==
    ASSUME AnswerInvariant, ResponseStarts
    PROVE  AnswerInvariant'
<1>1. pc' = "stream" /\ response' \in Outputs /\ operation = "completion" /\ operation' = operation
  BY DEF ResponseStarts, HeadersArrive
<1>2. PICK told \in Told(response') : wire' = told \/ wire' \in Troubled(told)
  BY DEF ResponseStarts
<1>3. told \in Seq(Honest(response'))
  BY <1>1, <1>2, ToldType
<1>4. wire' \in Seq(Honest(response'))
  BY <1>1, <1>2, <1>3, TroubledType
<1>5. DOMAIN items' = {}
  BY DEF ResponseStarts, NoItems
<1>6. Remembering'
  BY <1>1, <1>4, <1>5 DEF Remembering
<1> QED
  BY <1>1, <1>6 DEF AnswerInvariant

\* An answer that is given is part of the response.
LEMMA CompletedAnswers ==
    ASSUME AnswerInvariant, ResponseCompleted
    PROVE  AnswerInvariant'
<1>1. pc = "stream" /\ Remembering /\ wire # <<>> /\ Head(wire).kind = "completed"
      /\ operation = "completion"
  BY DEF ResponseCompleted, Event, AnswerInvariant
<1>2. CASE pc' = "idle"
  BY <1>2 DEF AnswerInvariant
<1>3. CASE pc' = "completed"
  <2> DEFINE last == Head(wire).output
  <2>1. last \in {response, <<>>}
    BY <1>1, TailTyped, CompletedTyped
  <2>2. PICK output \in FinalOutput(items, last) :
          /\ Usable(output)
          /\ answer' = [output |-> output,
                        next |-> [continuation EXCEPT
                                    !.checkpoints = Append(@, Checkpoint(output))]]
    BY <1>3 DEF ResponseCompleted, Fail
  <2>3. UNCHANGED <<host, operation, stream>>
    BY <1>3 DEF ResponseCompleted, Fail
  <2> HIDE DEF last
  <2>4. \E n \in 1 .. Len(response) : output = SubSeq(response, 1, n)
    BY <1>1, <2>1, <2>2, FinalIsPart
  <2>5. Answered'
    BY <1>1, <2>2, <2>3, <2>4 DEF Answered, Remembering, Checkpoint, host, stream
  <2> QED
    BY <1>1, <1>3, <2>3, <2>5 DEF AnswerInvariant
<1> QED
  BY <1>2, <1>3 DEF ResponseCompleted, Fail

\* Every other step comes to a place without promises, or to the answer of a compaction.
LEMMA AnswerStep ==
    ASSUME AnswerInvariant, [Next]_vars
    PROVE  AnswerInvariant'
<1>1. CASE TextDelta \/ ItemDone \/ PassedOver
  BY <1>1, StreamRemembers
<1>2. CASE ResponseStarts
  BY <1>2, StartRemembers
<1>3. CASE ResponseCompleted
  BY <1>3, CompletedAnswers
<1>4. CASE Compacted
  BY <1>4 DEF Compacted, AnswerInvariant, Window, host
<1>5. CASE pc' \notin {"stream", "body", "completed"}
  BY <1>5 DEF AnswerInvariant
<1>6. CASE UNCHANGED vars
  BY <1>6 DEF vars, host, stream, AnswerInvariant, Remembering, Answered, Checkpoint, Window
<1>7. CASE \/ \E text \in Sayings : Say(text) \/ \E i \in DOMAIN conversation : Edit(i, text)
           \/ RunTool \/ Truncate \/ Renew \/ CompactPortably
           \/ \E r \in Routes : Switch(r)
           \/ Refused \/ Adopt \/ Drop
  <2>1. pc' = "idle"
    BY <1>7 DEF Say, Edit, RunTool, Truncate, Renew, CompactPortably, Switch, Refused, Adopt,
                Drop, Idle
  <2> QED
    BY <1>5, <2>1
<1>8. CASE \/ Complete \/ CompactNatively \/ Start \/ SendFails \/ Rejected \/ ErrorBodyRead
           \/ ResponseFailed \/ ResponseIncomplete \/ Malformed
           \/ StreamBreaks \/ CompactionUnreadable
  <2>1. pc' \notin {"stream", "body", "completed"}
    BY <1>8 DEF Complete, CompactNatively, Call, Start, SendFails, Rejected, ErrorBodyRead,
                HeadersArrive, ResponseFailed, ResponseIncomplete, Malformed,
                StreamBreaks, CompactionUnreadable, Fail
  <2> QED
    BY <1>5, <2>1
<1>9. CASE CompactionAnswered
  BY <1>9 DEF CompactionAnswered, HeadersArrive, AnswerInvariant
<1> QED
  BY <1>1, <1>2, <1>3, <1>4, <1>6, <1>7, <1>8, <1>9 DEF Next

\* An accepted answer begins as the response does, with a checkpoint of its own behind
\* those there were; a compacted context is the window alone.
THEOREM AnswersArePart == Spec => []AnswerInvariant
<1>1. Init => AnswerInvariant
  BY DEF Init, AnswerInvariant
<1>2. AnswerInvariant /\ [Next]_vars => AnswerInvariant'
  BY AnswerStep
<1> QED
  BY <1>1, <1>2, PTL DEF Spec

-----------------------------------------------------------------------------
(* What the conversation and the continuation tell together.               *)

\* The messages there are, and what a compaction makes of them.
Users == {User(text) : text \in Sayings}
Replies == {Parsed(output) : output \in Seq(Items)}
Results == {Result(Head(reply.calls)) : reply \in Replies}
Plain == Users \cup Replies \cup Results
Summaries == {Summary(messages) : messages \in Seq(Plain)}

\* The checkpoints and windows there are: of one of the adapters, and of what it said.
CheckpointsOf(r) ==
    {[model |-> r.model, profile |-> r.profile, index |-> n,
      assistant |-> Parsed(output), output |-> output] : n \in Nat, output \in Seq(Items)}
WindowsOf(r) ==
    {[tells |-> messages, model |-> r.model, profile |-> r.profile, endpoint |-> r.endpoint] :
        messages \in Seq(Plain)}
Continuations ==
    [checkpoints : Seq(UNION {CheckpointsOf(r) : r \in Routes}),
     window : {NoWindow} \cup UNION {WindowsOf(r) : r \in Routes}]

\* What a conversation starts with instead of the messages before it, and the rest.
Summarized(messages) == messages # <<>> /\ messages[1].role = "summary"
Recalled(messages, c) ==
    c.window.tells \o (IF Summarized(messages) THEN messages[1].tells ELSE <<>>)
Recent(messages) == IF Summarized(messages) THEN Tail(messages) ELSE messages

\* A host's messages, with a summary at most in front of them, and the continuation it
\* has tell the transcript.
Tells(messages, c, told) ==
    /\ messages \in Seq(Plain \cup Summaries)
    /\ \A i \in DOMAIN messages : messages[i].role = "summary" => i = 1
    /\ c \in Continuations
    /\ told \in Seq(Plain)
    /\ told = Recalled(messages, c) \o Recent(messages)

HostInvariant ==
    /\ operation \in {"completion", "compaction"} /\ route \in Routes
    /\ Tells(conversation, continuation, transcript)
    /\ pc \in OnTheWire \cup {"completed"} => Valid(conversation, continuation, route)

\* Whose message it is shows in its role.
LEMMA Roles ==
    /\ \A m \in Plain : m.role # "summary"
    /\ \A m \in Summaries : m.role = "summary" /\ m.tells \in Seq(Plain)
    /\ \A m \in Plain : m.role = "assistant" => m \in Replies
BY DEF Plain, Users, Replies, Results, Summaries, User, Result, Summary, Parsed

\* A window tells messages.
LEMMA WindowTells ==
    ASSUME NEW c \in Continuations
    PROVE  c.window.tells \in Seq(Plain)
<1>1. c.window = NoWindow \/ \E r \in Routes : c.window \in WindowsOf(r)
  BY DEF Continuations
<1>2. CASE c.window = NoWindow
  BY <1>2, EmptySeq DEF NoWindow
<1>3. ASSUME NEW r \in Routes, c.window \in WindowsOf(r) PROVE c.window.tells \in Seq(Plain)
  BY <1>3 DEF WindowsOf
<1> QED
  BY <1>1, <1>2, <1>3

\* What is recalled and what is recent are messages.
LEMMA TellsTypes ==
    ASSUME NEW messages, NEW c, NEW told, Tells(messages, c, told)
    PROVE  /\ Recent(messages) \in Seq(Plain) /\ Recalled(messages, c) \in Seq(Plain)
           /\ c.window.tells \in Seq(Plain)
           /\ Summarized(messages) => messages[1] \in Summaries
           /\ Len(messages) \in Nat /\ DOMAIN messages = 1 .. Len(messages)
           /\ Summarized(messages) => Len(messages) = Len(Recent(messages)) + 1
           /\ \A i \in DOMAIN messages :
                 /\ messages[i] \in Plain \cup Summaries
                 /\ ~(i = 1 /\ Summarized(messages)) =>
                       /\ messages[i] \in Plain
                       /\ Recent(messages)[IF Summarized(messages) THEN i - 1 ELSE i] = messages[i]
<1> DEFINE N == Len(messages)
           M == Plain \cup Summaries
           R == Recent(messages)
<1>1. N \in Nat /\ DOMAIN messages = 1 .. N /\ messages \in Seq(M)
      /\ \A i \in 1 .. N : messages[i] \in M
  BY LenProperties, ElementOfSeq DEF Tells
<1>2. messages # <<>> => N # 0
  BY <1>1, EmptySeq
<1>3. \A i \in 1 .. N : ~(i = 1 /\ Summarized(messages)) => messages[i] \in Plain
  <2>1. SUFFICES ASSUME NEW i \in 1 .. N, messages[i] \notin Plain
                 PROVE  i = 1 /\ Summarized(messages)
    OBVIOUS
  <2>2. messages[i].role = "summary"
    BY <1>1, <2>1, Roles
  <2>3. i = 1
    BY <1>1, <2>2 DEF Tells
  <2>4. messages # <<>>
    BY <1>1, <2>1, EmptySeq
  <2> QED
    BY <2>2, <2>3, <2>4 DEF Summarized
<1>4. Summarized(messages) => messages[1] \in Summaries
  <2>1. Summarized(messages) => 1 \in 1 .. N /\ messages[1].role = "summary"
    BY <1>1, <1>2 DEF Summarized
  <2> QED
    BY <1>1, <2>1, Roles
<1>5. CASE Summarized(messages)
  <2>1. messages # <<>> /\ R = Tail(messages)
    BY <1>5 DEF Summarized, Recent
  <2> HIDE DEF M
  <2>2. /\ R \in Seq(M) /\ Len(R) = N - 1 /\ \A i \in 1 .. Len(R) : R[i] = messages[i + 1]
    BY <1>1, <2>1, HeadTailProperties
  <2>3. \A i \in 1 .. N - 1 : i + 1 \in 1 .. N /\ ~(i + 1 = 1)
    BY <1>1
  <2>4. \A i \in 1 .. N - 1 : R[i] \in Plain /\ R[i] = messages[i + 1]
    BY <1>3, <2>2, <2>3
  <2>5. R \in Seq(Plain)
    <3> HIDE DEF R, N
    <3> QED
      BY <2>2, <2>4
  <2>6. \A i \in 1 .. N : i # 1 => i - 1 \in 1 .. N - 1 /\ (i - 1) + 1 = i
    BY <1>1
  <2>7. \A i \in 1 .. N : i # 1 => R[i - 1] = messages[i]
    BY <2>4, <2>6
  <2>8. N = Len(R) + 1
    BY <1>1, <2>2
  <2>9. messages[1].tells \in Seq(Plain)
    BY <1>4, <1>5, Roles
  <2>10. c.window.tells \in Seq(Plain)
    BY WindowTells DEF Tells
  <2>11. Recalled(messages, c) \in Seq(Plain)
    BY <1>5, <2>9, <2>10, ConcatProperties DEF Recalled
  <2> QED
    BY <1>1, <1>3, <1>4, <1>5, <2>5, <2>7, <2>8, <2>10, <2>11 DEF M
<1>6. CASE ~Summarized(messages)
  <2>1. R = messages
    BY <1>6 DEF Recent
  <2>2. R \in Seq(Plain)
    <3> HIDE DEF M, N
    <3>1. \A i \in 1 .. N : messages[i] \in Plain
      BY <1>3, <1>6
    <3> QED
      BY <1>1, <2>1, <3>1 DEF N
  <2>3. c.window.tells \in Seq(Plain)
    BY WindowTells DEF Tells
  <2>4. Recalled(messages, c) \in Seq(Plain)
    BY <1>6, <2>3, ConcatEmptySeq DEF Recalled
  <2> QED
    BY <1>1, <1>3, <1>6, <2>1, <2>2, <2>3, <2>4 DEF M
<1> QED
  BY <1>5, <1>6

\* One message more.
LEMMA TellsAppended ==
    ASSUME NEW messages, NEW c, NEW told, Tells(messages, c, told), NEW m \in Plain
    PROVE  Tells(Append(messages, m), c, Append(told, m))
<1> DEFINE M == Plain \cup Summaries
           more == Append(messages, m)
           N == Len(messages)
           R == Recent(messages)
           P == Recalled(messages, c)
<1>1. /\ R \in Seq(Plain) /\ P \in Seq(Plain) /\ N \in Nat /\ DOMAIN messages = 1 .. N
      /\ told \in Seq(Plain) /\ told = P \o R /\ messages \in Seq(M)
  BY TellsTypes DEF Tells
<1>2. m \in M /\ m.role # "summary"
  BY Roles
<1>3. /\ more \in Seq(M) /\ Len(more) = N + 1 /\ more[N + 1] = m /\ more # <<>>
      /\ \A i \in 1 .. N : more[i] = messages[i]
  <2> HIDE DEF M
  <2> QED
    BY <1>1, <1>2, AppendProperties
<1>4. DOMAIN more = 1 .. N + 1
  BY <1>3, LenProperties
<1>5. messages = <<>> <=> N = 0
  BY <1>1, EmptySeq
<1>6. Summarized(more) <=> Summarized(messages)
  <2>1. CASE N = 0
    BY <1>2, <1>3, <1>5, <2>1 DEF Summarized
  <2>2. CASE N # 0
    <3>1. 1 \in 1 .. N
      BY <1>1, <2>2
    <3> HIDE DEF more
    <3> QED
      BY <1>3, <1>5, <2>2, <3>1 DEF Summarized
  <2> QED
    BY <2>1, <2>2
<1>7. Recent(more) = Append(R, m)
  <2>1. CASE Summarized(messages)
    <3>1. messages # <<>>
      BY <2>1 DEF Summarized
    <3> HIDE DEF M
    <3>2. Tail(more) = Append(Tail(messages), m)
      BY <1>1, <3>1, HeadTailAppend
    <3> QED
      BY <1>6, <2>1, <3>2 DEF Recent
  <2>2. CASE ~Summarized(messages)
    BY <1>6, <2>2 DEF Recent
  <2> QED
    BY <2>1, <2>2
<1>8. Recalled(more, c) = P
  <2>1. CASE Summarized(messages)
    <3>1. 1 \in 1 .. N
      BY <1>1, <1>5, <2>1 DEF Summarized
    <3>2. more[1] = messages[1]
      BY <1>3, <3>1
    <3> QED
      BY <1>6, <3>2 DEF Recalled
  <2>2. CASE ~Summarized(messages)
    BY <1>6, <2>2 DEF Recalled
  <2> QED
    BY <2>1, <2>2
<1>9. Append(told, m) = P \o Append(R, m) /\ Append(told, m) \in Seq(Plain)
  <2> HIDE DEF P, R
  <2> DEFINE X == Plain
  <2>1. R \in Seq(X) /\ P \in Seq(X) /\ m \in X
    BY <1>1
  <2> HIDE DEF X
  <2>2. Append(P \o R, m) = P \o Append(R, m)
    BY ONLY <2>1, AppendToConcat
  <2>3. Append(told, m) \in Seq(Plain)
    BY <1>1, AppendProperties
  <2> QED
    BY <1>1, <2>2, <2>3
<1>10. \A i \in DOMAIN more : more[i].role = "summary" => i = 1
  <2>1. ASSUME NEW i \in 1 .. N + 1, more[i].role = "summary" PROVE i = 1
    <3>1. i # N + 1
      BY <1>2, <1>3, <2>1
    <3>2. i \in 1 .. N
      BY <1>1, <3>1
    <3> QED
      BY <1>1, <1>3, <2>1, <3>2 DEF Tells
  <2> QED
    BY <1>4, <2>1
<1> HIDE DEF more, P, R
<1> QED
  BY <1>3, <1>7, <1>8, <1>9, <1>10 DEF Tells, more

\* A message of the user that is edited.
LEMMA TellsEdited ==
    ASSUME NEW messages, NEW c, NEW told, Tells(messages, c, told),
           NEW i \in DOMAIN messages, messages[i].role = "user", NEW m \in Plain
    PROVE  Tells([messages EXCEPT ![i] = m], c,
                 [told EXCEPT ![Len(told) - Len(messages) + i] = m])
<1> DEFINE M == Plain \cup Summaries
           new == [messages EXCEPT ![i] = m]
           N == Len(messages)
           R == Recent(messages)
           P == Recalled(messages, c)
           S == Summarized(messages)
           j == IF S THEN i - 1 ELSE i
           k == Len(told) - N + i
<1>1. /\ R \in Seq(Plain) /\ P \in Seq(Plain) /\ N \in Nat /\ DOMAIN messages = 1 .. N
      /\ told \in Seq(Plain) /\ told = P \o R /\ messages \in Seq(M)
      /\ S => N = Len(R) + 1
  BY TellsTypes DEF Tells
<1>2. ~(i = 1 /\ S)
  BY DEF Summarized
<1>3. j \in 1 .. Len(R) /\ k = Len(P) + j
  <2>1. Len(told) = Len(P) + Len(R) /\ Len(P) \in Nat /\ Len(R) \in Nat
    <3> HIDE DEF P, R
    <3> QED
      BY <1>1, ConcatProperties, LenProperties
  <2>2. CASE S
    <3> HIDE DEF P, R
    <3> QED
      BY <1>1, <1>2, <2>1, <2>2
  <2>3. CASE ~S
    <3>1. Len(R) = N /\ j = i /\ i \in 1 .. N
      BY <1>1, <2>3 DEF Recent
    <3> HIDE DEF P, R, N, S
    <3> QED
      BY <2>1, <3>1
  <2> QED
    BY <2>2, <2>3
<1>4. m \in M /\ m.role # "summary"
  BY Roles
<1>5. /\ new \in Seq(M) /\ Len(new) = N
      /\ \A l \in 1 .. N : new[l] = IF l = i THEN m ELSE messages[l]
  <2> HIDE DEF M
  <2> QED
    BY <1>1, <1>4, ExceptSeq
<1>6. DOMAIN new = 1 .. N /\ N # 0 /\ 1 \in 1 .. N /\ messages # <<>> /\ new # <<>>
  <2> HIDE DEF new, M
  <2>1. DOMAIN new = 1 .. N
    BY <1>5, LenProperties
  <2>2. N # 0 /\ 1 \in 1 .. N
    <3> HIDE DEF N
    <3> QED
      BY <1>1
  <2>3. messages # <<>> /\ new # <<>>
    BY <1>1, <1>5, <2>2, EmptySeq
  <2> QED
    BY <2>1, <2>2, <2>3
<1>7. Summarized(new) <=> S
  <2>1. i = 1 => ~S
    BY <1>2
  <2> HIDE DEF new
  <2> QED
    BY <1>4, <1>5, <1>6, <2>1 DEF Summarized
<1>8. Recent(new) = [R EXCEPT ![j] = m]
  <2>1. CASE S
    <3> DEFINE tail == Tail(messages)
               left == Tail(new)
    <3> HIDE DEF M, new
    <3>1. /\ tail \in Seq(M) /\ Len(tail) = N - 1
          /\ \A l \in 1 .. Len(tail) : tail[l] = messages[l + 1]
      BY <1>1, <1>6, HeadTailProperties
    <3>2. /\ left \in Seq(M) /\ Len(left) = N - 1
          /\ \A l \in 1 .. Len(left) : left[l] = new[l + 1]
      BY <1>5, <1>6, HeadTailProperties
    <3>3. R = tail /\ Recent(new) = left
      BY <1>7, <2>1 DEF Recent
    <3> HIDE DEF tail, left
    <3>4. j \in 1 .. Len(tail) /\ j = i - 1
      BY <1>3, <2>1, <3>3
    <3> DEFINE right == [tail EXCEPT ![j] = m]
    <3>5. /\ right \in Seq(M) /\ Len(right) = N - 1
          /\ \A l \in 1 .. N - 1 : right[l] = IF l = j THEN m ELSE tail[l]
      BY <1>4, <3>1, <3>4, ExceptSeq
    <3> HIDE DEF right
    <3>6. ASSUME NEW l \in 1 .. N - 1 PROVE left[l] = right[l]
      <4> HIDE DEF j, N
      <4>1. l + 1 \in 1 .. N /\ (l = j <=> l + 1 = i)
        BY <1>1, <3>4
      <4> QED
        BY <1>5, <3>1, <3>2, <3>5, <4>1
    <3>7. Len(left) = Len(right) /\ \A l \in 1 .. Len(left) : left[l] = right[l]
      BY <3>2, <3>5, <3>6
    <3>8. left = right
      BY <3>2, <3>5, <3>7, SeqEqual
    <3> QED
      BY <3>3, <3>8 DEF right
  <2>2. CASE ~S
    BY <1>7, <2>2 DEF Recent
  <2> QED
    BY <2>1, <2>2
<1>9. Recalled(new, c) = P
  <2>1. CASE S
    <3>1. new[1] = messages[1]
      <4>1. 1 \in 1 .. N /\ i # 1
        BY <1>1, <1>2, <1>6, <2>1
      <4> HIDE DEF new
      <4> QED
        BY <1>5, <4>1
    <3> HIDE DEF new
    <3> QED
      BY <1>7, <2>1, <3>1 DEF Recalled
  <2>2. CASE ~S
    BY <1>7, <2>2 DEF Recalled
  <2> QED
    BY <2>1, <2>2
<1>10. [told EXCEPT ![k] = m] = P \o [R EXCEPT ![j] = m]
  <2> DEFINE X == Plain
  <2>1. R \in Seq(X) /\ P \in Seq(X) /\ m \in X
    BY <1>1
  <2> HIDE DEF X, P, R, j, k
  <2>2. \A l \in 1 .. Len(R) : [P \o R EXCEPT ![Len(P) + l] = m] = P \o [R EXCEPT ![l] = m]
    BY ONLY <2>1, ConcatChanged
  <2> QED
    BY <1>1, <1>3, <2>2
<1>11. [told EXCEPT ![k] = m] \in Seq(Plain)
  <2>1. [R EXCEPT ![j] = m] \in Seq(Plain)
    <3> HIDE DEF R, j
    <3> QED
      BY <1>1, <1>3, ExceptSeq
  <2>2. P \o [R EXCEPT ![j] = m] \in Seq(Plain)
    BY <1>1, <2>1, ConcatProperties
  <2> HIDE DEF P, R, j, k
  <2> QED
    BY <1>10, <2>2
<1>12. \A l \in DOMAIN new : new[l].role = "summary" => l = 1
  BY <1>1, <1>4, <1>5, <1>6 DEF Tells
<1> HIDE DEF new, P, R, j, k
<1> QED
  BY <1>5, <1>8, <1>9, <1>10, <1>11, <1>12 DEF Tells, new, k

\* The last message that is dropped, when it is not a summary.
LEMMA TellsTruncated ==
    ASSUME NEW messages, NEW c, NEW told, Tells(messages, c, told),
           messages # <<>>, Last(messages).role # "summary"
    PROVE  Tells(Front(messages), c, Front(told))
<1> DEFINE M == Plain \cup Summaries
           new == Front(messages)
           N == Len(messages)
           R == Recent(messages)
           P == Recalled(messages, c)
           S == Summarized(messages)
<1>1. /\ R \in Seq(Plain) /\ P \in Seq(Plain) /\ N \in Nat /\ DOMAIN messages = 1 .. N
      /\ told \in Seq(Plain) /\ told = P \o R /\ messages \in Seq(M)
      /\ S => N = Len(R) + 1
      /\ \A i \in 1 .. N : messages[i] \in M
  BY TellsTypes DEF Tells
<1>2. N # 0 /\ N - 1 \in Nat /\ messages[N].role # "summary"
  <2>1. N # 0
    BY <1>1, EmptySeq
  <2>2. Last(messages) = messages[N]
    BY DEF Last
  <2> HIDE DEF N, S, R
  <2> QED
    BY <1>1, <2>1, <2>2
<1>3. S => N # 1
  BY <1>2 DEF Summarized
<1>4. /\ new \in Seq(M) /\ Len(new) = N - 1 /\ \A i \in 1 .. N - 1 : new[i] = messages[i]
  <2> DEFINE n == N - 1
  <2>1. n \in Nat /\ new = SubSeq(messages, 1, n)
    BY <1>2 DEF Front
  <2>2. \A i \in 1 .. n : messages[i] \in M
    <3> HIDE DEF N, S, R, M
    <3> QED
      BY <1>1
  <2> HIDE DEF M, n, new
  <2>3. new \in Seq(M) /\ Len(new) = n /\ \A i \in 1 .. n : new[i] = messages[i]
    BY <2>1, <2>2, SubSeqProperties
  <2> QED
    BY <2>3 DEF n
<1>5. DOMAIN new = 1 .. N - 1 /\ (new = <<>> <=> N = 1)
  <2> HIDE DEF new, M
  <2>1. DOMAIN new = 1 .. N - 1 /\ (new = <<>> <=> N - 1 = 0)
    BY <1>4, LenProperties, EmptySeq
  <2> HIDE DEF N
  <2> QED
    BY <1>1, <2>1
<1>6. Summarized(new) <=> S
  <2>1. CASE N = 1
    BY <1>3, <1>5, <2>1 DEF Summarized
  <2>2. CASE N # 1
    <3>1. 1 \in 1 .. N - 1 /\ new # <<>>
      <4>1. new # <<>>
        BY <1>5, <2>2
      <4> HIDE DEF N, S, R, new
      <4> QED
        BY <1>1, <1>2, <2>2, <4>1
    <3> HIDE DEF new
    <3> QED
      BY <1>4, <3>1 DEF Summarized
  <2> QED
    BY <2>1, <2>2
<1>7. R # <<>> /\ Recent(new) = Front(R)
  <2>1. CASE S
    <3> DEFINE tail == Tail(messages)
               left == Tail(new)
               right == SubSeq(tail, 1, N - 2)
    <3>0. N - 2 \in Nat /\ new # <<>>
      BY <1>1, <1>2, <1>3, <1>5, <2>1
    <3> HIDE DEF M, new, N
    <3>1. /\ tail \in Seq(M) /\ Len(tail) = N - 1
          /\ \A l \in 1 .. Len(tail) : tail[l] = messages[l + 1]
      BY <1>1, HeadTailProperties DEF N
    <3>2. /\ left \in Seq(M) /\ Len(left) = N - 2
          /\ \A l \in 1 .. Len(left) : left[l] = new[l + 1]
      <4>1. left \in Seq(M) /\ Len(left) = Len(new) - 1
            /\ \A l \in 1 .. Len(left) : left[l] = new[l + 1]
        BY <1>4, <3>0, HeadTailProperties
      <4> QED
        BY <1>1, <1>4, <4>1
    <3>3. R = tail /\ Recent(new) = left
      BY <1>6, <2>1 DEF Recent
    <3> HIDE DEF tail, left
    <3>4. \A l \in 1 .. N - 2 : tail[l] \in M
      <4>1. \A l \in 1 .. N - 2 : l \in 1 .. Len(tail)
        BY <1>1, <3>1
      <4> QED
        BY <3>1, <4>1, ElementOfSeq
    <3>5. /\ right \in Seq(M) /\ Len(right) = N - 2 /\ \A l \in 1 .. N - 2 : right[l] = tail[l]
      BY <3>0, <3>4, SubSeqProperties
    <3> HIDE DEF right
    <3>6. ASSUME NEW l \in 1 .. N - 2 PROVE left[l] = right[l]
      <4>1. l \in 1 .. N - 1 /\ l + 1 \in 1 .. N - 1
        BY <1>1
      <4> QED
        BY <1>4, <3>1, <3>2, <3>5, <4>1
    <3>7. left = right
      BY <3>2, <3>5, <3>6, SeqEqual
    <3>8. Len(tail) - 1 = N - 2
      BY <1>1, <3>1
    <3>9. tail # <<>>
      <4>1. Len(tail) # 0
        BY <1>1, <3>0, <3>1
      <4> QED
        BY <4>1, EmptySeq
    <3> QED
      BY <3>3, <3>7, <3>8, <3>9 DEF right, Front
  <2>2. CASE ~S
    BY <1>6, <2>2 DEF Recent
  <2> QED
    BY <2>1, <2>2
<1>8. Recalled(new, c) = P
  <2>1. CASE S
    <3>1. new[1] = messages[1]
      <4>1. 1 \in 1 .. N - 1
        BY <1>1, <1>2, <1>3, <2>1
      <4> HIDE DEF new
      <4> QED
        BY <1>4, <4>1
    <3> HIDE DEF new
    <3> QED
      BY <1>6, <2>1, <3>1 DEF Recalled
  <2>2. CASE ~S
    BY <1>6, <2>2 DEF Recalled
  <2> QED
    BY <2>1, <2>2
<1>9. Front(told) = P \o Front(R) /\ Front(R) \in Seq(Plain)
  <2> DEFINE X == Plain
  <2>1. R \in Seq(X) /\ P \in Seq(X)
    BY <1>1
  <2>2. PICK e \in X : TRUE
    <3>1. 1 \in 1 .. Len(R)
      BY <1>7, <2>1, EmptySeq, LenProperties
    <3> HIDE DEF R, X
    <3> QED
      BY <2>1, <3>1, ElementOfSeq
  <2> HIDE DEF X, P, R
  <2>3. R # <<>> => Front(P \o R) = P \o Front(R)
    BY ONLY <2>1, <2>2, ConcatChanged
  <2>4. \A n \in Nat : n = Len(R) - 1 => SubSeq(R, 1, n) \in Seq(X)
    <3>1. \A i \in 1 .. Len(R) : R[i] \in X
      BY <2>1, ElementOfSeq
    <3>2. ASSUME NEW n \in Nat, n = Len(R) - 1 PROVE SubSeq(R, 1, n) \in Seq(X)
      <4>1. \A i \in 1 .. n : i \in 1 .. Len(R)
        BY <2>1, <3>2, LenProperties
      <4> QED
        BY <3>1, <4>1, SubSeqProperties
    <3> QED
      BY <3>2
  <2>5. Len(R) - 1 \in Nat
    <3>1. Len(R) \in Nat /\ Len(R) # 0
      BY <1>7, <2>1, EmptySeq, LenProperties
    <3> QED
      BY <3>1
  <2> QED
    BY <1>1, <1>7, <2>3, <2>4, <2>5 DEF X, Front
<1>10. Front(told) \in Seq(Plain)
  <2> HIDE DEF P, R
  <2> QED
    BY <1>1, <1>9, ConcatProperties
<1>11. \A l \in DOMAIN new : new[l].role = "summary" => l = 1
  <2>1. ASSUME NEW l \in 1 .. N - 1 PROVE l \in 1 .. N
    <3> HIDE DEF N, S, R
    <3> QED
      BY <1>1, <2>1
  <2> HIDE DEF new
  <2> QED
    BY <1>1, <1>4, <1>5, <2>1 DEF Tells
<1> HIDE DEF new, P, R
<1> QED
  BY <1>4, <1>7, <1>8, <1>9, <1>10, <1>11 DEF Tells, new

\* Everything before the latest request summarized, in a continuation without a window.
LEMMA TellsSummarized ==
    ASSUME NEW messages, NEW c, NEW told, Tells(messages, c, told), c.window = NoWindow,
           messages # <<>>, Last(messages).role = "user"
    PROVE  Tells(<<Summary(Front(told)), Last(messages)>>, Fresh, told)
<1> DEFINE R == Recent(messages)
           P == Recalled(messages, c)
           N == Len(messages)
           K == Len(R)
           m == Last(messages)
           h == Front(told)
           s == Summary(h)
           new == <<s, m>>
<1>1. /\ R \in Seq(Plain) /\ P \in Seq(Plain) /\ N \in Nat /\ DOMAIN messages = 1 .. N
      /\ told \in Seq(Plain) /\ told = P \o R
      /\ Summarized(messages) => N = K + 1
      /\ \A i \in 1 .. N :
            ~(i = 1 /\ Summarized(messages)) =>
               /\ messages[i] \in Plain
               /\ R[IF Summarized(messages) THEN i - 1 ELSE i] = messages[i]
  BY TellsTypes DEF Tells
<1>2. N # 0 /\ N \in 1 .. N /\ m = messages[N] /\ m.role = "user"
  <2>1. N # 0
    BY <1>1, EmptySeq DEF Tells
  <2>2. m = messages[N] /\ m.role = "user"
    BY DEF Last
  <2> HIDE DEF N, R, m
  <2> QED
    BY <1>1, <2>1, <2>2
<1>3. ~(N = 1 /\ Summarized(messages))
  BY <1>2 DEF Summarized
<1>4. K \in Nat /\ K # 0 /\ R[K] = m /\ m \in Plain
  <2>1. K \in Nat
    BY <1>1, LenProperties
  <2>2. CASE Summarized(messages)
    <3>1. N - 1 = K /\ K # 0
      BY <1>1, <1>2, <1>3, <2>1, <2>2
    <3> QED
      BY <1>1, <1>2, <1>3, <2>1, <2>2, <3>1
  <2>3. CASE ~Summarized(messages)
    <3>1. K = N
      BY <2>3 DEF Recent
    <3> QED
      BY <1>1, <1>2, <1>3, <2>1, <2>3, <3>1
  <2> QED
    BY <2>2, <2>3
<1> HIDE DEF R, P
<1>5. Len(told) = Len(P) + K /\ Len(P) \in Nat /\ Len(told) \in Nat /\ Len(told) # 0
      /\ told[Len(told)] = m
  <2>1. Len(told) = Len(P) + K /\ Len(P) \in Nat
        /\ \A i \in 1 .. Len(P) + K : told[i] = IF i <= Len(P) THEN P[i] ELSE R[i - Len(P)]
    BY <1>1, ConcatProperties, LenProperties
  <2> HIDE DEF K
  <2>2. Len(P) + K \in 1 .. Len(P) + K /\ ~(Len(P) + K <= Len(P)) /\ (Len(P) + K) - Len(P) = K
    BY <1>4, <2>1
  <2> QED
    BY <1>4, <2>1, <2>2
<1>6. h \in Seq(Plain) /\ told = Append(h, m)
  <2> DEFINE n == Len(told) - 1
             X == Plain
  <2>1. n \in Nat /\ n < Len(told) /\ n + 1 = Len(told)
    BY <1>5
  <2>2. told \in Seq(X)
    BY <1>1
  <2> HIDE DEF n, X
  <2>3. SubSeq(told, 1, n) \in Seq(X)
        /\ SubSeq(told, 1, n + 1) = Append(SubSeq(told, 1, n), told[n + 1])
    BY ONLY <2>1, <2>2, NextPart
  <2>4. SubSeq(told, 1, Len(told)) = told
    BY <2>2, SubSeqFull
  <2> QED
    BY <1>5, <2>1, <2>3, <2>4 DEF n, X, Front
<1>7. s \in Summaries /\ s.role = "summary" /\ s.tells = h
  BY <1>6 DEF Summaries, Summary
<1> HIDE DEF m, h, s
<1>8. /\ new \in Seq(Plain \cup Summaries) /\ new # <<>> /\ DOMAIN new = 1 .. 2
      /\ new[1] = s /\ new[2] = m
  <2> DEFINE M == Plain \cup Summaries
  <2>1. s \in M /\ m \in M
    BY <1>4, <1>7
  <2> HIDE DEF M
  <2>2. <<s, m>> \in Seq(M) /\ Len(<<s, m>>) = 2
    BY <2>1
  <2> QED
    BY <2>2, EmptySeq, LenProperties DEF M
<1>9. Summarized(new)
  BY <1>7, <1>8 DEF Summarized
<1>10. Recent(new) = <<m>> /\ <<m>> \in Seq(Plain)
  BY <1>4, <1>9 DEF Recent
<1>11. Recalled(new, Fresh) = h
  <2>1. <<>> \o h = h
    BY <1>6, ConcatEmptySeq
  <2> QED
    BY <1>7, <1>8, <1>9, <2>1 DEF Recalled, Fresh, NoWindow
<1>12. told = h \o <<m>>
  BY <1>4, <1>6, AppendIsConcat
<1>13. Fresh \in Continuations
  BY DEF Fresh, Continuations
<1>14. \A i \in DOMAIN new : new[i].role = "summary" => i = 1
  BY <1>2, <1>8 DEF m
<1> HIDE DEF new
<1> QED
  BY <1>1, <1>8, <1>10, <1>11, <1>12, <1>13, <1>14 DEF Tells, new, s, h, m

\* A checkpoint that is valid stands for its message, and never for a summary.
LEMMA CheckpointsStand ==
    ASSUME NEW r, NEW messages, NEW c \in Continuations, Valid(messages, c, r),
           NEW n \in DOMAIN c.checkpoints
    PROVE  LET checkpoint == c.checkpoints[n]
           IN  /\ Parsed(checkpoint.output) = messages[checkpoint.index]
               /\ messages[checkpoint.index].role = "assistant"
               /\ checkpoint.output \in Seq(Items) /\ checkpoint.index \in Nat
<1> DEFINE checkpoint == c.checkpoints[n]
           U == UNION {CheckpointsOf(x) : x \in Routes}
<1>1. checkpoint \in U
  <2>1. c.checkpoints \in Seq(U)
    BY DEF Continuations
  <2> HIDE DEF U
  <2>2. n \in 1 .. Len(c.checkpoints)
    BY <2>1, LenProperties
  <2> QED
    BY <2>1, <2>2, ElementOfSeq
<1>2. PICK x \in Routes : checkpoint \in CheckpointsOf(x)
  BY <1>1
<1>3. /\ checkpoint.assistant = Parsed(checkpoint.output) /\ checkpoint.output \in Seq(Items)
      /\ checkpoint.index \in Nat
  BY <1>2 DEF CheckpointsOf
<1>4. messages[checkpoint.index] = checkpoint.assistant
  BY DEF Valid
<1> QED
  BY <1>3, <1>4 DEF Parsed

\* What a service reads of one item of an input.
Read(item) == IF item.opaque THEN <<Parsed(item.output)>>
              ELSE IF item.message.role = "summary" THEN item.message.tells
              ELSE <<item.message>>

\* What is sent for a message is read as the message, or as what it summarizes.
LEMMA ItemsRead ==
    ASSUME NEW r, NEW messages, NEW c, NEW told, Tells(messages, c, told), Valid(messages, c, r),
           NEW i \in DOMAIN messages
    PROVE  Read(Input(messages, c).items[i])
              = IF i = 1 /\ Summarized(messages) THEN messages[1].tells ELSE <<messages[i]>>
<1> DEFINE at == {n \in DOMAIN c.checkpoints : c.checkpoints[n].index = i}
           n == CHOOSE n \in at : TRUE
           item == Input(messages, c).items[i]
<1>1. item = IF at = {} THEN [opaque |-> FALSE, message |-> messages[i]]
             ELSE [opaque |-> TRUE, output |-> c.checkpoints[n].output]
  BY DEF Input
<1>2. i = 1 /\ Summarized(messages) => messages[i].role = "summary"
  BY DEF Summarized
<1>3. messages[i].role = "summary" => i = 1 /\ Summarized(messages)
  <2>1. messages[i].role = "summary" => i = 1
    BY DEF Tells
  <2>2. messages # <<>>
    BY DEF Tells
  <2> QED
    BY <2>1, <2>2 DEF Summarized
<1>4. CASE at = {}
  BY <1>1, <1>2, <1>3, <1>4 DEF Read
<1>5. CASE at # {}
  <2>1. n \in at
    BY <1>5
  <2> HIDE DEF n
  <2>2. /\ Parsed(c.checkpoints[n].output) = messages[i] /\ messages[i].role = "assistant"
    BY <2>1, CheckpointsStand DEF Tells
  <2>3. ~(i = 1 /\ Summarized(messages))
    BY <1>2, <2>2
  <2> QED
    BY <1>1, <1>5, <2>2, <2>3 DEF Read
<1> QED
  BY <1>4, <1>5

\* A valid continuation tells the service, with the messages, the transcript.
LEMMA InputTells ==
    ASSUME NEW r, NEW messages, NEW c, NEW told, Tells(messages, c, told), Valid(messages, c, r)
    PROVE  Understood(Input(messages, c), r) = told
<1> DEFINE input == Input(messages, c)
           R == Recent(messages)
           w == c.window.tells
           S == Summarized(messages)
           E(i) == IF i = 1 /\ S THEN messages[1].tells ELSE <<messages[i]>>
           seqs == [i \in DOMAIN messages |-> E(i)]
<1>1. DOMAIN input.items = DOMAIN messages /\ input.window = c.window
  BY DEF Input
<1>2. \A i \in DOMAIN messages : Read(input.items[i]) = E(i)
  BY ItemsRead
<1>3. Understood(input, r) = (IF Opens(c.window, r) THEN w ELSE <<>>) \o FlattenSeq(seqs)
  <2>1. [i \in DOMAIN input.items |-> Read(input.items[i])] = seqs
    <3> HIDE DEF input, E
    <3> QED
      BY <1>1, <1>2
  <2> HIDE DEF input, seqs, w
  <2>2. Understood(input, r) =
          (IF Opens(input.window, r) THEN input.window.tells ELSE <<>>)
             \o FlattenSeq([i \in DOMAIN input.items |-> Read(input.items[i])])
    BY DEF Understood, Read
  <2> QED
    BY <1>1, <2>1, <2>2 DEF w
<1>4. (IF Opens(c.window, r) THEN w ELSE <<>>) = w
  BY DEF Valid, Provenance, NoWindow
<1>5. /\ R \in Seq(Plain) /\ w \in Seq(Plain) /\ Recalled(messages, c) \in Seq(Plain)
      /\ S => messages[1] \in Summaries
      /\ Len(messages) \in Nat /\ DOMAIN messages = 1 .. Len(messages)
      /\ S => Len(messages) = Len(R) + 1
      /\ \A i \in DOMAIN messages :
            ~(i = 1 /\ S) => R[IF S THEN i - 1 ELSE i] = messages[i]
  BY TellsTypes
<1>6. told = Recalled(messages, c) \o R
  BY DEF Tells
<1>7. CASE S
  <2> DEFINE h == messages[1].tells
             X == Plain
  <2>1. h \in Seq(X) /\ R \in Seq(X) /\ w \in Seq(X)
    BY <1>5, <1>7, Roles
  <2>2. \A i \in DOMAIN messages : E(i) = IF i = 1 THEN h ELSE <<R[i - 1]>>
    <3> HIDE DEF R, h
    <3> QED
      BY <1>5, <1>7 DEF h
  <2>3. DOMAIN messages = 1 .. Len(R) + 1
    BY <1>5, <1>7
  <2> HIDE DEF E, R, h, X
  <2>4. seqs = [i \in 1 .. Len(R) + 1 |-> IF i = 1 THEN h ELSE <<R[i - 1]>>]
    BY <2>2, <2>3
  <2> HIDE DEF seqs, w
  <2>5. FlattenSeq(seqs) = h \o R
    BY ONLY <2>1, <2>4, FlattenHeaded
  <2>6. w \o (h \o R) = (w \o h) \o R
    BY ONLY <2>1, ConcatAssociative
  <2>7. Recalled(messages, c) = w \o h
    BY <1>7 DEF Recalled, w, h
  <2> QED
    BY <1>3, <1>4, <1>6, <2>5, <2>6, <2>7
<1>8. CASE ~S
  <2> DEFINE X == Plain
  <2>1. R = messages /\ R \in Seq(X) /\ w \in Seq(X)
    BY <1>5, <1>8 DEF Recent
  <2>2. \A i \in DOMAIN messages : E(i) = <<R[i]>>
    BY <1>8, <2>1
  <2>3. DOMAIN messages = 1 .. Len(R)
    BY <1>5, <2>1
  <2> HIDE DEF E, R, X
  <2>4. seqs = [i \in 1 .. Len(R) |-> <<R[i]>>]
    BY <2>2, <2>3
  <2> HIDE DEF seqs, w
  <2>5. FlattenSeq(seqs) = R
    BY ONLY <2>1, <2>4, FlattenSingles
  <2>6. Recalled(messages, c) = w
    <3>1. w \o <<>> = w
      BY <2>1, ConcatEmptySeq
    <3> QED
      BY <1>8, <3>1 DEF Recalled, w
  <2> QED
    BY <1>3, <1>4, <1>6, <2>5, <2>6
<1> QED
  BY <1>7, <1>8

\* Another continuation with a window that tells the same.
LEMMA TellsContinued ==
    ASSUME NEW messages, NEW c, NEW told, Tells(messages, c, told),
           NEW d \in Continuations, d.window.tells = c.window.tells
    PROVE  Tells(messages, d, told)
BY DEF Tells, Recalled

\* A window alone.
LEMMA TellsCompacted ==
    ASSUME NEW r \in Routes, NEW told \in Seq(Plain), NEW c,
           c = [Fresh EXCEPT !.window = [tells |-> told, model |-> r.model,
                                         profile |-> r.profile, endpoint |-> r.endpoint]]
    PROVE  Tells(<<>>, c, told)
<1> DEFINE window == [tells |-> told, model |-> r.model, profile |-> r.profile,
                      endpoint |-> r.endpoint]
<1>1. window \in WindowsOf(r)
  BY DEF WindowsOf
<1>2. c.window = window /\ c.checkpoints = <<>> /\ c = [checkpoints |-> <<>>, window |-> window]
  BY DEF Fresh
<1>3. c \in Continuations
  <2> DEFINE U == UNION {CheckpointsOf(x) : x \in Routes}
             W == {NoWindow} \cup UNION {WindowsOf(x) : x \in Routes}
  <2>1. window \in W
    BY <1>1
  <2>2. Continuations = [checkpoints : Seq(U), window : W]
    BY DEF Continuations
  <2> HIDE DEF window, U, W
  <2>3. <<>> \in Seq(U)
    BY EmptySeq
  <2> QED
    BY <1>2, <2>1, <2>2, <2>3
<1>4. c.window.tells = told
  BY <1>2
<1>5. ~Summarized(<<>>)
  BY DEF Summarized
<1>6. told = (told \o <<>>) \o <<>>
  BY ConcatEmptySeq
<1>7. <<>> \in Seq(Plain \cup Summaries) /\ DOMAIN <<>> = {}
  BY EmptySeq
<1> QED
  BY <1>3, <1>4, <1>5, <1>6, <1>7 DEF Tells, Recalled, Recent

\* One checkpoint more is one of the adapter that is used.
LEMMA CheckpointAdded ==
    ASSUME route \in Routes, NEW c \in Continuations, NEW output \in Seq(Items),
           Len(conversation) \in Nat
    PROVE  LET d == [c EXCEPT !.checkpoints = Append(@, Checkpoint(output))]
           IN  d \in Continuations /\ d.window = c.window
<1> DEFINE U == UNION {CheckpointsOf(r) : r \in Routes}
           W == {NoWindow} \cup UNION {WindowsOf(r) : r \in Routes}
           point == Checkpoint(output)
<1>1. point \in CheckpointsOf(route)
  BY DEF Checkpoint, CheckpointsOf
<1>2. point \in U
  BY <1>1
<1>3. c \in [checkpoints : Seq(U), window : W] /\ Continuations = [checkpoints : Seq(U), window : W]
  BY DEF Continuations
<1> HIDE DEF U, W, point
<1>4. Append(c.checkpoints, point) \in Seq(U)
  BY <1>2, <1>3, AppendProperties
<1> QED
  BY <1>3, <1>4 DEF point

\* What the host does between calls.
LEMMA HostTells ==
    ASSUME HostInvariant,
           \/ \E text \in Sayings : Say(text) \/ \E i \in DOMAIN conversation : Edit(i, text)
           \/ RunTool \/ Truncate \/ Renew \/ CompactPortably
           \/ \E r \in Routes : Switch(r)
    PROVE  Tells(conversation, continuation, transcript)' /\ route' \in Routes /\ pc' = "idle"
<1>1. Tells(conversation, continuation, transcript) /\ route \in Routes
  BY DEF HostInvariant
<1>2. /\ Len(conversation) \in Nat /\ DOMAIN conversation = 1 .. Len(conversation)
      /\ \A i \in DOMAIN conversation : conversation[i] \in Plain \cup Summaries
  BY <1>1, TellsTypes
<1>3. conversation # <<>> => Last(conversation) \in Plain \cup Summaries
  <2>1. conversation # <<>> => Len(conversation) # 0
    BY <1>1, EmptySeq DEF Tells
  <2>2. conversation # <<>> => Len(conversation) \in DOMAIN conversation
    BY <1>2, <2>1
  <2> QED
    BY <1>2, <2>2 DEF Last
<1>4. ASSUME NEW text \in Sayings, Say(text)
      PROVE  Tells(conversation, continuation, transcript)' /\ route' \in Routes /\ pc' = "idle"
  <2>1. User(text) \in Plain
    BY DEF Plain, Users
  <2>2. Tells(Append(conversation, User(text)), continuation, Append(transcript, User(text)))
    BY <1>1, <2>1, TellsAppended
  <2> QED
    BY <1>1, <1>4, <2>2 DEF Say, Idle
<1>5. ASSUME NEW text \in Sayings, NEW i \in DOMAIN conversation, Edit(i, text)
      PROVE  Tells(conversation, continuation, transcript)' /\ route' \in Routes /\ pc' = "idle"
  <2>1. User(text) \in Plain
    BY DEF Plain, Users
  <2>2. Tells([conversation EXCEPT ![i] = User(text)], continuation,
              [transcript EXCEPT ![Len(transcript) - Len(conversation) + i] = User(text)])
    BY <1>1, <1>5, <2>1, TellsEdited DEF Edit
  <2> QED
    BY <1>1, <1>5, <2>2 DEF Edit, Idle
<1>6. CASE RunTool
  <2> DEFINE result == Result(Head(Last(conversation).calls))
  <2>1. conversation # <<>> /\ Last(conversation).role = "assistant"
    BY <1>6 DEF RunTool, LastRole
  <2>2. Last(conversation) \in Replies
    BY <1>3, <2>1, Roles
  <2>3. result \in Plain
    BY <2>2 DEF Plain, Results
  <2> HIDE DEF result
  <2>4. Tells(Append(conversation, result), continuation, Append(transcript, result))
    BY <1>1, <2>3, TellsAppended
  <2> QED
    BY <1>1, <1>6, <2>4 DEF RunTool, Idle, result
<1>7. CASE Truncate
  <2>1. conversation # <<>> /\ Last(conversation).role # "summary"
    BY <1>7 DEF Truncate, LastRole
  <2>2. Tells(Front(conversation), continuation, Front(transcript))
    BY <1>1, <2>1, TellsTruncated
  <2> QED
    BY <1>1, <1>7, <2>2 DEF Truncate, Idle
<1>8. CASE Renew
  <2>1. Fresh \in Continuations /\ Fresh.window = NoWindow /\ continuation.window = NoWindow
    BY <1>8 DEF Renew, Fresh, Continuations
  <2>2. Tells(conversation, Fresh, transcript)
    BY <1>1, <2>1, TellsContinued
  <2> QED
    BY <1>1, <1>8, <2>2 DEF Renew, Idle
<1>9. CASE CompactPortably
  <2>1. conversation # <<>> /\ Last(conversation).role = "user" /\ continuation.window = NoWindow
    BY <1>9 DEF CompactPortably, LastRole
  <2>2. Tells(<<Summary(Front(transcript)), Last(conversation)>>, Fresh, transcript)
    BY <1>1, <2>1, TellsSummarized
  <2> QED
    BY <1>1, <1>9, <2>2 DEF CompactPortably, Idle
<1>10. ASSUME NEW r \in Routes, Switch(r)
       PROVE  Tells(conversation, continuation, transcript)' /\ route' \in Routes /\ pc' = "idle"
  BY <1>1, <1>10 DEF Switch, Idle
<1> QED
  BY <1>4, <1>5, <1>6, <1>7, <1>8, <1>9, <1>10

\* What it gets is taken into both.
LEMMA AdoptTells ==
    ASSUME HostInvariant, AnswerInvariant, Adopt
    PROVE  Tells(conversation, continuation, transcript)' /\ route' \in Routes /\ pc' = "idle"
<1>1. /\ Tells(conversation, continuation, transcript) /\ route \in Routes
      /\ Valid(conversation, continuation, route)
      /\ pc = "completed" /\ pc' = "idle" /\ route' = route /\ continuation' = answer.next
  BY DEF HostInvariant, Adopt
<1>2. CASE operation = "completion"
  <2> DEFINE reply == Parsed(answer.output)
  <2>1. answer.output \in Seq(Items)
    <3>1. response \in Outputs /\ \E n \in 1 .. Len(response) : answer.output = SubSeq(response, 1, n)
      BY <1>1, <1>2 DEF AnswerInvariant, Answered
    <3>2. PICK n \in 1 .. Len(response) : answer.output = SubSeq(response, 1, n)
      BY <3>1
    <3>3. response \in Seq(Items) /\ Len(response) \in Nat
      BY <3>1, OutputTypes
    <3>4. n \in Nat /\ \A i \in 1 .. n : response[i] \in Items
      BY <3>2, <3>3, ElementOfSeq
    <3> QED
      BY <3>2, <3>4, SubSeqProperties
  <2>2. reply \in Plain
    BY <2>1 DEF Plain, Replies
  <2>3. Tells(Append(conversation, reply), continuation, Append(transcript, reply))
    BY <1>1, <2>2, TellsAppended
  <2>4. answer.next = [continuation EXCEPT !.checkpoints = Append(@, Checkpoint(answer.output))]
    BY <1>1, <1>2 DEF AnswerInvariant, Answered
  <2>5. Len(conversation) \in Nat /\ continuation \in Continuations
    BY <1>1, TellsTypes DEF Tells
  <2>6. answer.next \in Continuations /\ answer.next.window = continuation.window
    BY <1>1, <2>1, <2>4, <2>5, CheckpointAdded
  <2> HIDE DEF reply
  <2>7. Tells(Append(conversation, reply), answer.next, Append(transcript, reply))
    BY <2>3, <2>6, TellsContinued
  <2> QED
    BY <1>1, <1>2, <2>7 DEF Adopt, reply
<1>3. CASE operation # "completion"
  <2>1. answer.next = [Fresh EXCEPT !.window = Window]
    BY <1>1, <1>3 DEF AnswerInvariant
  <2>2. Understood(Input(conversation, continuation), route) = transcript
    BY <1>1, InputTells
  <2>3. transcript \in Seq(Plain)
    BY <1>1 DEF Tells
  <2>4. Tells(<<>>, answer.next, transcript)
    BY <1>1, <2>1, <2>2, <2>3, TellsCompacted DEF Window
  <2> QED
    BY <1>1, <1>3, <2>4 DEF Adopt
<1> QED
  BY <1>2, <1>3

\* A call is one of the two.
LEMMA OperationStep ==
    ASSUME HostInvariant, [Next]_vars
    PROVE  operation' \in {"completion", "compaction"}
<1>1. CASE Complete \/ CompactNatively
  BY <1>1 DEF Complete, CompactNatively, Call
<1>2. CASE UNCHANGED operation
  BY <1>2 DEF HostInvariant
<1>3. CASE ItemDone \/ ResponseCompleted \/ StreamBreaks \/ CompactionUnreadable
  BY <1>2, <1>3 DEF ItemDone, ResponseCompleted, StreamBreaks, CompactionUnreadable, Fail, Take
<1> QED
  BY <1>1, <1>2, <1>3
     DEF Next, vars, Say, Edit, RunTool, Truncate, Renew, CompactPortably, Switch, Idle, Refused,
         Start, SendFails, Rejected, ErrorBodyRead, ResponseStarts, CompactionAnswered,
         HeadersArrive, TextDelta, PassedOver, ResponseFailed, ResponseIncomplete, Malformed,
         Compacted, Adopt, Drop, Take, Fail

\* No step makes the messages and the continuation tell anything else.
LEMMA HostStep ==
    ASSUME HostInvariant, AnswerInvariant, [Next]_vars
    PROVE  HostInvariant'
<1>1. Tells(conversation, continuation, transcript) /\ route \in Routes
  BY DEF HostInvariant
<1>0. operation' \in {"completion", "compaction"}
  BY OperationStep
<1>2. CASE Tells(conversation, continuation, transcript)' /\ route' \in Routes /\ pc' = "idle"
  BY <1>0, <1>2 DEF HostInvariant, OnTheWire
<1>3. CASE \/ \E text \in Sayings : Say(text) \/ \E i \in DOMAIN conversation : Edit(i, text)
           \/ RunTool \/ Truncate \/ Renew \/ CompactPortably
           \/ \E r \in Routes : Switch(r)
  BY <1>2, <1>3, HostTells
<1>4. CASE Adopt
  BY <1>2, <1>4, AdoptTells
<1>5. ASSUME UNCHANGED host,
             \/ pc' \notin OnTheWire \cup {"completed"}
             \/ pc \in OnTheWire \cup {"completed"}
             \/ Valid(conversation, continuation, route)
      PROVE  HostInvariant'
  <2>1. Tells(conversation, continuation, transcript)' /\ route' \in Routes
    BY <1>1, <1>5 DEF host
  <2>2. pc' \in OnTheWire \cup {"completed"} => Valid(conversation, continuation, route)
    BY <1>5 DEF HostInvariant
  <2>3. Valid(conversation, continuation, route) => Valid(conversation, continuation, route)'
    BY <1>5 DEF host
  <2> QED
    BY <1>0, <2>1, <2>2, <2>3 DEF HostInvariant
<1>6. CASE Start
  BY <1>5, <1>6 DEF Start
<1>7. CASE Complete \/ CompactNatively \/ Refused \/ Drop
  <2>1. UNCHANGED host /\ pc' \in {"credentials", "idle"}
    BY <1>7 DEF Complete, CompactNatively, Call, Refused, Drop
  <2> QED
    BY <1>5, <2>1 DEF OnTheWire
<1>8. CASE \/ SendFails \/ Rejected \/ ErrorBodyRead \/ ResponseStarts \/ CompactionAnswered
           \/ TextDelta \/ ItemDone \/ PassedOver
           \/ ResponseFailed \/ ResponseIncomplete \/ Malformed
           \/ ResponseCompleted \/ StreamBreaks \/ Compacted \/ CompactionUnreadable
  <2>1. UNCHANGED host /\ pc \in {"sending", "error body", "stream", "body"}
    BY <1>8 DEF SendFails, Rejected, ErrorBodyRead, ResponseStarts, CompactionAnswered,
                TextDelta, ItemDone, PassedOver, ResponseFailed, ResponseIncomplete, Malformed,
                ResponseCompleted, StreamBreaks, Compacted, CompactionUnreadable,
                HeadersArrive, Event, Take, Fail
  <2> QED
    BY <1>5, <2>1 DEF OnTheWire
<1>9. CASE UNCHANGED vars
  BY <1>5, <1>9 DEF vars, HostInvariant
<1> QED
  BY <1>3, <1>4, <1>6, <1>7, <1>8, <1>9 DEF Next

\* The host's messages and continuation tell what was said, and a request that is on
\* its way was validated.
THEOREM HostTellsTranscript == Spec => []HostInvariant
<1>1. Init => HostInvariant
  <2>1. SUFFICES ASSUME Init PROVE HostInvariant
    OBVIOUS
  <2>2. /\ conversation = <<>> /\ continuation = Fresh /\ transcript = <<>> /\ route \in Routes
        /\ pc = "idle" /\ operation = "completion"
    BY <2>1 DEF Init
  <2>3. Fresh \in Continuations /\ Fresh.window.tells = <<>>
    BY DEF Fresh, NoWindow, Continuations
  <2>4. <<>> \in Seq(Plain) /\ <<>> \in Seq(Plain \cup Summaries) /\ DOMAIN <<>> = {}
        /\ (<<>> \o <<>>) \o <<>> = <<>> /\ ~Summarized(<<>>)
    BY EmptySeq, ConcatEmptySeq DEF Summarized
  <2>5. Tells(<<>>, Fresh, <<>>)
    BY <2>3, <2>4 DEF Tells, Recalled, Recent
  <2> QED
    BY <2>2, <2>5 DEF HostInvariant, OnTheWire
<1>2. HostInvariant /\ AnswerInvariant /\ [Next]_vars => HostInvariant'
  BY HostStep
<1> QED
  BY <1>1, <1>2, AnswersArePart, PTL DEF Spec

\* What the service understands of a request is the transcript, through compactions
\* of both kinds, switches of the adapter, edits and truncations: a request is sent
\* only with a continuation that validate_continuation_for_endpoint accepts.
THEOREM RequestsTellTranscript == Spec => []InputTellsTranscript
<1>1. HostInvariant => InputTellsTranscript
  BY InputTells DEF HostInvariant, InputTellsTranscript, OnTheWire
<1> QED
  BY <1>1, HostTellsTranscript, PTL

\* A conversation and the reply to it, with the checkpoint of the reply.
LEMMA RepliedValid ==
    ASSUME HostInvariant, Valid(conversation, continuation, route),
           NEW output \in Seq(Items), Len(output) \in 1 .. MaxItems
    PROVE  Valid(Append(conversation, Parsed(output)),
                 [continuation EXCEPT !.checkpoints = Append(@, Checkpoint(output))], route)
<1> DEFINE U == UNION {CheckpointsOf(r) : r \in Routes}
           M == Plain \cup Summaries
           N == Len(conversation)
           K == Len(continuation.checkpoints)
           old == continuation.checkpoints
           point == Checkpoint(output)
           new == Append(old, point)
           more == Append(conversation, Parsed(output))
           next == [continuation EXCEPT !.checkpoints = new]
<1>1. /\ route \in Routes /\ continuation \in Continuations /\ conversation \in Seq(M)
      /\ Tells(conversation, continuation, transcript)
  BY DEF HostInvariant, Tells
<1>2. N \in Nat /\ DOMAIN conversation = 1 .. N
  BY <1>1, TellsTypes
<1>3. point \in U /\ old \in Seq(U) /\ next.checkpoints = new /\ next.window = continuation.window
  <2>1. point \in CheckpointsOf(route)
    BY <1>1, <1>2 DEF Checkpoint, CheckpointsOf
  <2> QED
    BY <1>1, <2>1 DEF Continuations
<1>4. /\ new \in Seq(U) /\ K \in Nat /\ DOMAIN old = 1 .. K /\ DOMAIN new = 1 .. K + 1
      /\ new[K + 1] = point /\ \A n \in 1 .. K : new[n] = old[n]
  <2> HIDE DEF U, point
  <2>1. /\ new \in Seq(U) /\ Len(new) = K + 1 /\ K \in Nat
        /\ new[K + 1] = point /\ \A n \in 1 .. K : new[n] = old[n]
    BY <1>3, AppendProperties, LenProperties
  <2> QED
    BY <1>3, <2>1, LenProperties
<1>5. /\ DOMAIN more = 1 .. N + 1 /\ more[N + 1] = Parsed(output)
      /\ \A i \in 1 .. N : more[i] = conversation[i]
  <2>1. Parsed(output) \in M
    BY DEF Plain, Replies
  <2> HIDE DEF M
  <2>2. /\ more \in Seq(M) /\ Len(more) = N + 1 /\ more[N + 1] = Parsed(output)
        /\ \A i \in 1 .. N : more[i] = conversation[i]
    BY <1>1, <2>1, AppendProperties
  <2> QED
    BY <2>2, LenProperties
<1>6. \A n \in 1 .. K :
         /\ old[n].model = route.model /\ old[n].profile = route.profile
         /\ n > 1 => old[n - 1].index < old[n].index
         /\ Bounded(old[n].output)
         /\ old[n].index \in 1 .. N /\ conversation[old[n].index] = old[n].assistant
  BY <1>2, <1>4 DEF Valid, Provenance
<1>7. /\ point.model = route.model /\ point.profile = route.profile /\ point.index = N + 1
      /\ point.assistant = Parsed(output) /\ point.output = output /\ Bounded(point.output)
  BY DEF Checkpoint, Bounded
<1>8. continuation.window = NoWindow \/ Opens(continuation.window, route)
  BY DEF Valid, Provenance
<1> HIDE DEF N, K, old, point, new, more
<1>9. ASSUME NEW n \in 1 .. K + 1
      PROVE  /\ new[n].model = route.model /\ new[n].profile = route.profile
             /\ n > 1 => new[n - 1].index < new[n].index
             /\ Bounded(new[n].output)
             /\ new[n].index \in 1 .. N + 1 /\ more[new[n].index] = new[n].assistant
  <2>1. CASE n = K + 1
    <3>1. n > 1 => new[n - 1].index < new[n].index
      <4>1. SUFFICES ASSUME n > 1 PROVE new[n - 1].index < new[n].index
        OBVIOUS
      <4>2. n - 1 = K /\ K \in 1 .. K
        BY <1>4, <2>1, <4>1
      <4>3. new[K] = old[K] /\ old[K].index \in 1 .. N
        BY <1>4, <1>6, <4>2
      <4> QED
        BY <1>2, <1>4, <1>7, <2>1, <4>2, <4>3
    <3>2. new[n] = point /\ N + 1 \in 1 .. N + 1
      BY <1>2, <1>4, <2>1
    <3> QED
      BY <1>5, <1>7, <3>1, <3>2
  <2>2. CASE n # K + 1
    <3>1. n \in 1 .. K /\ (n > 1 => n - 1 \in 1 .. K)
      BY <1>4, <2>2
    <3>2. new[n] = old[n] /\ (n > 1 => new[n - 1] = old[n - 1])
      BY <1>4, <3>1
    <3>3. old[n].index \in 1 .. N /\ old[n].index \in 1 .. N + 1
      BY <1>2, <1>6, <3>1
    <3> QED
      BY <1>5, <1>6, <3>1, <3>2, <3>3
  <2> QED
    BY <2>1, <2>2
<1>10. Valid(more, next, route)
  <2> HIDE DEF next
  <2> QED
    BY <1>3, <1>4, <1>5, <1>8, <1>9 DEF Valid, Provenance
<1> QED
  BY <1>10 DEF more, next, new, point, old

\* The continuation that comes with an answer is accepted with the conversation that
\* has the answer; and a native window alone by the adapter that made it.
THEOREM AnswersAccepted == Spec => []NextRequestAccepted
<1>1. ASSUME HostInvariant, AnswerInvariant PROVE NextRequestAccepted
  <2>1. SUFFICES ASSUME pc = "completed"
                 PROVE  IF operation = "compaction" THEN Valid(<<>>, answer.next, route)
                        ELSE Len(answer.output) <= MaxItems =>
                                Valid(Append(conversation, Parsed(answer.output)), answer.next, route)
    BY DEF NextRequestAccepted
  <2>2. CASE operation = "compaction"
    <3>1. answer.next = [Fresh EXCEPT !.window = Window]
      BY <1>1, <2>1, <2>2 DEF AnswerInvariant
    <3>2. answer.next.checkpoints = <<>> /\ answer.next.window = Window
      BY <3>1 DEF Fresh
    <3>3. DOMAIN <<>> = {} /\ Opens(Window, route)
      BY DEF Opens, Window
    <3> QED
      BY <2>2, <3>2, <3>3 DEF Valid, Provenance
  <2>3. CASE operation # "compaction" /\ Len(answer.output) <= MaxItems
    <3>1. Valid(conversation, continuation, route)
      BY <1>1, <2>1 DEF HostInvariant
    <3>2. Answered
      BY <1>1, <2>1, <2>3 DEF AnswerInvariant, HostInvariant
    <3>3. PICK n \in 1 .. Len(response) : answer.output = SubSeq(response, 1, n)
      BY <3>2 DEF Answered
    <3>4. answer.output \in Seq(Items) /\ Len(answer.output) = n /\ n \in Nat /\ n # 0
      <4>1. response \in Seq(Items) /\ Len(response) \in Nat
        BY <3>2, OutputTypes DEF Answered
      <4>2. n \in Nat /\ n # 0 /\ \A i \in 1 .. n : response[i] \in Items
        BY <3>3, <4>1, ElementOfSeq
      <4> QED
        BY <3>3, <4>2, SubSeqProperties
    <3>5. Len(answer.output) \in 1 .. MaxItems
      BY <2>3, <3>4, MaxItemsAssumption
    <3>6. Valid(Append(conversation, Parsed(answer.output)),
                [continuation EXCEPT !.checkpoints = Append(@, Checkpoint(answer.output))], route)
      BY <1>1, <3>1, <3>4, <3>5, RepliedValid
    <3> QED
      BY <2>3, <3>2, <3>6 DEF Answered
  <2> QED
    BY <2>2, <2>3
<1> QED
  BY <1>1, HostTellsTranscript, AnswersArePart, PTL

-----------------------------------------------------------------------------
(* The text of a message: its parts, the empty ones apart, with a break    *)
(* between them.                                                           *)

\* What texts and breaks are made of, and one part more behind a text.
Glyphs == Letters \cup {Break}
Joint(text, piece) ==
    IF piece = <<>> THEN text
    ELSE IF text = <<>> THEN piece ELSE text \o <<Break>> \o piece

\* A text and a part are a text.
LEMMA JointType ==
    ASSUME NEW text \in Seq(Glyphs), NEW piece \in Seq(Glyphs)
    PROVE  Joint(text, piece) \in Seq(Glyphs)
<1> DEFINE X == Glyphs
           b == <<Break>>
<1>1. text \in Seq(X) /\ piece \in Seq(X) /\ b \in Seq(X)
  <2>1. Break \in X
    BY DEF Glyphs
  <2>2. text \in Seq(X) /\ piece \in Seq(X)
    OBVIOUS
  <2> HIDE DEF X
  <2>3. b \in Seq(X)
    BY <2>1
  <2> QED
    BY <2>2, <2>3
<1> HIDE DEF X, b
<1>2. text \o b \in Seq(X)
  BY <1>1, ConcatProperties
<1>3. (text \o b) \o piece \in Seq(X)
  BY <1>1, <1>2, ConcatProperties
<1> QED
  BY <1>1, <1>3 DEF Joint, X, b

\* Who puts the parts together one after the other gets the text.
LEMMA JoinedRecursion ==
    ASSUME NEW parts \in Seq(Seq(Glyphs)), NEW g,
           g[0] = <<>>,
           \A n \in 1 .. Len(parts) : g[n] \in Seq(Glyphs) /\ g[n] = Joint(g[n - 1], parts[n])
    PROVE  Joined(parts) = g[Len(parts)]
<1> DEFINE N == Len(parts)
           D == SUBSET (1 .. N)
           Y == Seq(Glyphs)
           Rec(f) == [s \in D |-> IF s = {} THEN <<>> ELSE Joint(f[s \ {Max(s)}], parts[Max(s)])]
           iter == CHOOSE f : f = Rec(f)
<1>1. N \in Nat /\ DOMAIN parts = 1 .. N /\ \A n \in 1 .. N : parts[n] \in Y
  BY LenProperties, ElementOfSeq
<1>0. N \in Nat
  BY <1>1
<1>2. Joined(parts) = iter[1 .. N]
  BY <1>1 DEF Joined, FoldLeft, MapThenFoldSet, Joint
<1>3. \E f : f = Rec(f)
  <2> DEFINE step == [n \in 1 .. N |-> [y \in Y |-> Joint(y, parts[n])]]
             base == <<>>
  <2>1. step \in Steps(N, Y) /\ base \in Y
    <3>1. \A n \in 1 .. N, y \in Y : Joint(y, parts[n]) \in Y
      BY <1>1, JointType
    <3>2. base \in Y
      BY EmptySeq
    <3> HIDE DEF Y, N, base
    <3> QED
      BY <3>1, <3>2 DEF Steps
  <2>2. \A n \in 1 .. N, y \in Y : step[n][y] = Joint(y, parts[n])
    OBVIOUS
  <2> HIDE DEF step, base, Y, N
  <2>3. PICK h \in [SUBSET (1 .. N) -> Y] : Folds(h, base, step, N)
    BY ONLY <1>0, <2>1, Folding
  <2>4. ASSUME NEW s \in D, s # {} PROVE h[s] = Joint(h[s \ {Max(s)}], parts[Max(s)])
    <3> DEFINE x == Max(s)
               t == s \ {x}
    <3>1. x \in 1 .. N
      BY <1>1, <2>4, GreatestPosition
    <3> HIDE DEF x
    <3>2. t \in SUBSET (1 .. N)
      OBVIOUS
    <3> HIDE DEF t
    <3>3. h[t] \in Y
      BY <3>2
    <3>4. step[x][h[t]] = Joint(h[t], parts[x])
      BY <2>2, <3>1, <3>3
    <3> QED
      BY <2>3, <2>4, <3>4 DEF x, t, Folds
  <2>5. h = Rec(h)
    <3>1. \A s \in D : h[s] = IF s = {} THEN <<>> ELSE Joint(h[s \ {Max(s)}], parts[Max(s)])
      BY <2>3, <2>4 DEF base, Folds
    <3>2. DOMAIN h = D /\ h = [s \in DOMAIN h |-> h[s]]
      OBVIOUS
    <3> HIDE DEF D
    <3> QED
      BY <3>1, <3>2
  <2> HIDE DEF Rec
  <2> QED
    BY <2>5
<1>4. iter = Rec(iter)
  <2> HIDE DEF Rec
  <2> QED
    BY <1>3
<1> HIDE DEF iter
<1>5. \A s \in D : iter[s] = IF s = {} THEN <<>> ELSE Joint(iter[s \ {Max(s)}], parts[Max(s)])
  <2> HIDE DEF D
  <2> QED
    BY <1>4
<1> DEFINE S == {m \in Nat : m <= N => iter[1 .. m] = g[m]}
<1>6. 0 \in S
  <2>1. 1 .. 0 = {} /\ {} \in D
    OBVIOUS
  <2> HIDE DEF D
  <2>2. iter[{}] = <<>>
    BY <1>5, <2>1
  <2> QED
    BY <2>1, <2>2
<1>7. ASSUME NEW m \in Nat, m \in S PROVE m + 1 \in S
  <2>1. SUFFICES ASSUME m + 1 <= N PROVE iter[1 .. m + 1] = g[m + 1]
    OBVIOUS
  <2> DEFINE s == 1 .. m + 1
  <2>2. Max(s) = m + 1 /\ s \ {Max(s)} = 1 .. m /\ s # {}
    <3>1. m + 1 \in Nat /\ m + 1 # 0 /\ (m + 1) - 1 = m
      OBVIOUS
    <3> HIDE DEF S
    <3> DEFINE k == m + 1
    <3>2. k \in Nat /\ k # 0 /\ k - 1 = m
      BY <3>1
    <3> HIDE DEF k
    <3>3. Max(1 .. k) = k /\ (1 .. k) \ {k} = 1 .. k - 1 /\ 1 .. k # {}
      BY ONLY <3>2, FirstPositions
    <3> QED
      BY <3>2, <3>3 DEF k
  <2>3. s \in D
    BY <1>1, <2>1
  <2> HIDE DEF s, D
  <2>4. iter[s] = Joint(iter[s \ {Max(s)}], parts[Max(s)])
    BY <1>5, <2>2, <2>3
  <2>5. iter[1 .. m] = g[m]
    BY <1>1, <1>7, <2>1
  <2>6. m + 1 \in 1 .. N /\ (m + 1) - 1 = m
    BY <1>1, <2>1
  <2>7. g[m + 1] = Joint(g[(m + 1) - 1], parts[m + 1])
    BY <2>6
  <2> QED
    BY <2>2, <2>4, <2>5, <2>6, <2>7 DEF s
<1> HIDE DEF S
<1>8. N \in S
  BY <1>1, <1>6, <1>7, SetInduction
<1> QED
  BY <1>1, <1>2, <1>8 DEF S

\* The text so far is a function of how many parts were put together.
LEMMA Putting ==
    ASSUME NEW parts \in Seq(Seq(Glyphs))
    PROVE  \E g \in [0 .. Len(parts) -> Seq(Glyphs)] :
              /\ g[0] = <<>>
              /\ \A n \in 1 .. Len(parts) : g[n] = Joint(g[n - 1], parts[n])
              /\ Joined(parts) = g[Len(parts)]
<1> DEFINE N == Len(parts)
           Y == Seq(Glyphs)
           step == [n \in 1 .. N |-> [y \in Y |-> Joint(y, parts[n])]]
           base == <<>>
<1>1. N \in Nat /\ \A n \in 1 .. N : parts[n] \in Y
  BY LenProperties, ElementOfSeq
<1>0. N \in Nat
  BY <1>1
<1>2. step \in Steps(N, Y) /\ base \in Y
  <2>1. \A n \in 1 .. N, y \in Y : Joint(y, parts[n]) \in Y
    BY <1>1, JointType
  <2>2. base \in Y
    BY EmptySeq
  <2> HIDE DEF Y, N, base
  <2> QED
    BY <2>1, <2>2 DEF Steps
<1>3. \A n \in 1 .. N, y \in Y : step[n][y] = Joint(y, parts[n])
  OBVIOUS
<1> HIDE DEF step, base, Y, N
<1>4. PICK g \in [0 .. N -> Y] : Follows(g, base, step, N)
  BY ONLY <1>0, <1>2, Following
<1>5. \A n \in 1 .. N : g[n] \in Y /\ g[n] = Joint(g[n - 1], parts[n])
  <2>1. \A n \in 1 .. N : g[n - 1] \in Y /\ g[n] \in Y
    BY <1>1
  <2> QED
    BY <1>3, <1>4, <2>1 DEF Follows
<1>6. Joined(parts) = g[N]
  BY <1>4, <1>5, JoinedRecursion DEF base, N, Y, Follows
<1> QED
  BY <1>4, <1>5, <1>6 DEF base, N, Y, Follows

\* One part more.
LEMMA JoinedAppend ==
    ASSUME NEW parts \in Seq(Seq(Glyphs)), NEW piece \in Seq(Glyphs)
    PROVE  /\ Joined(parts) \in Seq(Glyphs)
           /\ Joined(Append(parts, piece)) = Joint(Joined(parts), piece)
<1> DEFINE Y == Seq(Glyphs)
           N == Len(parts)
           more == Append(parts, piece)
<1>1. /\ more \in Seq(Y) /\ Len(more) = N + 1 /\ more[N + 1] = piece /\ N \in Nat
      /\ \A n \in 1 .. N : more[n] = parts[n]
  BY AppendProperties, LenProperties
<1>2. PICK g \in [0 .. N -> Y] :
         /\ g[0] = <<>> /\ \A n \in 1 .. N : g[n] = Joint(g[n - 1], parts[n])
         /\ Joined(parts) = g[N]
  BY Putting
<1>3. g[N] \in Y /\ Joint(g[N], piece) \in Y
  BY <1>1, <1>2, JointType
<1> DEFINE h == [n \in 0 .. N + 1 |-> IF n = N + 1 THEN Joint(g[N], piece) ELSE g[n]]
<1> HIDE DEF more, Y, N
<1>4. h[0] = <<>> /\ h[N + 1] = Joint(g[N], piece)
  BY <1>1, <1>2
<1>5. ASSUME NEW n \in 1 .. Len(more) PROVE h[n] \in Y /\ h[n] = Joint(h[n - 1], more[n])
  <2>1. CASE n = N + 1
    <3>1. h[n - 1] = g[N] /\ h[n] = Joint(g[N], piece)
      BY <1>1, <2>1
    <3> QED
      BY <1>1, <1>3, <2>1, <3>1
  <2>2. CASE n \in 1 .. N
    <3>1. h[n] = g[n] /\ h[n - 1] = g[n - 1] /\ n \in 0 .. N /\ more[n] = parts[n]
      BY <1>1, <2>2
    <3> QED
      BY <1>2, <2>2, <3>1
  <2>3. n = N + 1 \/ n \in 1 .. N
    BY <1>1
  <2> QED
    BY <2>1, <2>2, <2>3
<1> HIDE DEF h
<1>6. Joined(more) = h[Len(more)]
  BY <1>1, <1>4, <1>5, JoinedRecursion DEF Y
<1> QED
  BY <1>1, <1>2, <1>3, <1>4, <1>6 DEF more, Y

\* Nothing is the text of no part.
LEMMA JoinedEmpty == Joined(<<>>) = <<>>
<1> DEFINE g == [n \in {0} |-> <<>>]
<1>1. <<>> \in Seq(Seq(Glyphs)) /\ Len(<<>>) = 0 /\ g[0] = <<>>
  BY EmptySeq
<1> HIDE DEF g
<1>2. \A n \in 1 .. Len(<<>>) : g[n] \in Seq(Glyphs) /\ g[n] = Joint(g[n - 1], <<>>[n])
  BY <1>1
<1>3. Joined(<<>>) = g[Len(<<>>)]
  BY <1>1, <1>2, JoinedRecursion
<1> QED
  BY <1>1, <1>3

-----------------------------------------------------------------------------
(* The preview of a response that is told without fault.                   *)

\* What is shown and the part it is in, one event later, and after all of them.
Seens == [shown : Seq(Glyphs), part : {<<>>} \cup (Nat \X Nat)]
Unseen == [shown |-> <<>>, part |-> <<>>]
After(seen, e) ==
    IF e.kind = "delta"
    THEN [shown |-> seen.shown \o Preview(e, seen.part), part |-> PartAfter(e, seen.part)]
    ELSE seen
Seen(w) ==
    LET seen[n \in 0 .. Len(w)] == IF n = 0 THEN Unseen ELSE After(seen[n - 1], w[n])
    IN  seen[Len(w)]

\* What deltas look like.
LEMMA DeltaTyped ==
    ASSUME NEW output, NEW e \in Honest(output), e.kind = "delta"
    PROVE  e.text \in Seq(Glyphs) /\ e.part \in {<<>>} \cup (Nat \X Nat)
<1>1. PICK delta \in Deltas : e = delta \/ e = [delta EXCEPT !.part = <<>>]
  BY DEF Honest, Done, Completed, Other
<1>2. PICK i \in Nat, j \in Nat, letter \in Letters : delta = Delta(i, j, letter)
  BY DEF Deltas
<1>3. letter \in Glyphs
  BY DEF Glyphs
<1>4. <<letter>> \in Seq(Glyphs)
  <2> DEFINE X == Glyphs
  <2>1. letter \in X
    BY <1>3
  <2> HIDE DEF X
  <2>2. <<letter>> \in Seq(X)
    BY <2>1
  <2> QED
    BY <2>2 DEF X
<1>5. e.text = <<letter>> /\ (e.part = <<>> \/ e.part = <<i, j>>)
  BY <1>1, <1>2 DEF Delta
<1>6. <<i, j>> \in Nat \X Nat
  BY <1>2
<1>7. e.part \in {<<>>} \cup (Nat \X Nat)
  BY <1>5, <1>6
<1> DEFINE X == Seq(Glyphs)
<1>8. <<letter>> \in X
  BY <1>4
<1> HIDE DEF X
<1>9. e.text \in X
  BY <1>5, <1>8
<1> QED
  BY <1>7, <1>9 DEF X

\* An event later the preview is still one.
LEMMA AfterType ==
    ASSUME NEW output, NEW e \in Honest(output), NEW seen \in Seens
    PROVE  After(seen, e) \in Seens
<1>1. CASE e.kind # "delta"
  BY <1>1 DEF After
<1>2. CASE e.kind = "delta"
  <2> DEFINE X == Glyphs
             P == {<<>>} \cup (Nat \X Nat)
             b == <<Break>>
  <2>1. e.text \in Seq(X) /\ e.part \in P
    BY <1>2, DeltaTyped
  <2>2. seen.shown \in Seq(X) /\ seen.part \in P /\ Seens = [shown : Seq(X), part : P]
    BY DEF Seens
  <2>3. b \in Seq(X)
    <3>1. Break \in X
      BY DEF Glyphs
    <3> HIDE DEF X
    <3> QED
      BY <3>1
  <2> HIDE DEF X, P, b
  <2>4. b \o e.text \in Seq(X)
    BY <2>1, <2>3, ConcatProperties
  <2>5. Preview(e, seen.part) \in Seq(X) /\ PartAfter(e, seen.part) \in P
    BY <2>1, <2>2, <2>4 DEF Preview, PartAfter, b
  <2>6. seen.shown \o Preview(e, seen.part) \in Seq(X)
    BY <2>2, <2>5, ConcatProperties
  <2> QED
    BY <1>2, <2>2, <2>5, <2>6 DEF After
<1> QED
  BY <1>1, <1>2

\* Who takes the events one after the other sees what is seen of all of them.
LEMMA SeenRecursion ==
    ASSUME NEW output, NEW w \in Seq(Honest(output)), NEW g,
           g[0] = Unseen, \A n \in 1 .. Len(w) : g[n] = After(g[n - 1], w[n])
    PROVE  Seen(w) = g[Len(w)]
<1> DEFINE N == Len(w)
           Rec(f) == [n \in 0 .. N |-> IF n = 0 THEN Unseen ELSE After(f[n - 1], w[n])]
           seen == CHOOSE f : f = Rec(f)
           h == [n \in 0 .. N |-> g[n]]
<1>1. N \in Nat
  BY LenProperties
<1>2. Seen(w) = seen[N]
  BY DEF Seen
<1>3. h = Rec(h)
  <2>1. ASSUME NEW n \in 0 .. N PROVE h[n] = IF n = 0 THEN Unseen ELSE After(h[n - 1], w[n])
    <3>1. CASE n = 0
      BY <3>1
    <3>2. CASE n # 0
      <4>1. n \in 1 .. N /\ n - 1 \in 0 .. N
        BY <1>1, <3>2
      <4>2. h[n] = g[n] /\ h[n - 1] = g[n - 1]
        BY <4>1
      <4> QED
        BY <3>2, <4>1, <4>2
    <3> QED
      BY <3>1, <3>2
  <2> QED
    BY <2>1
<1>4. seen = Rec(seen)
  <2> HIDE DEF Rec, h
  <2> QED
    BY <1>3
<1> HIDE DEF seen
<1>5. \A n \in 0 .. N : seen[n] = IF n = 0 THEN Unseen ELSE After(seen[n - 1], w[n])
  BY <1>4
<1> DEFINE S == {n \in Nat : n <= N => seen[n] = g[n]}
<1>6. 0 \in S
  BY <1>1, <1>5
<1>7. ASSUME NEW n \in Nat, n \in S PROVE n + 1 \in S
  <2>1. SUFFICES ASSUME n + 1 <= N PROVE seen[n + 1] = g[n + 1]
    OBVIOUS
  <2>2. n + 1 \in 0 .. N /\ n + 1 \in 1 .. N /\ n + 1 # 0 /\ (n + 1) - 1 = n /\ n <= N
    BY <1>1, <2>1
  <2> DEFINE m == n + 1
  <2>3. m \in 0 .. N /\ m \in 1 .. N /\ m # 0 /\ m - 1 = n
    BY <2>2
  <2> HIDE DEF m
  <2>4. seen[m] = After(seen[m - 1], w[m]) /\ g[m] = After(g[m - 1], w[m])
    BY <1>5, <2>3
  <2>5. seen[n] = g[n]
    BY <1>7, <2>2
  <2> QED
    BY <2>3, <2>4, <2>5 DEF m
<1> HIDE DEF S
<1>8. N \in S
  BY <1>1, <1>6, <1>7, SetInduction
<1> QED
  BY <1>1, <1>2, <1>8 DEF S

\* What is seen so far is a function of how many events were taken.
LEMMA Seeing ==
    ASSUME NEW output, NEW w \in Seq(Honest(output))
    PROVE  \E g \in [0 .. Len(w) -> Seens] :
              /\ g[0] = Unseen
              /\ \A n \in 1 .. Len(w) : g[n] = After(g[n - 1], w[n])
              /\ Seen(w) = g[Len(w)]
<1> DEFINE N == Len(w)
           Y == Seens
           base == Unseen
           step == [n \in 1 .. N |-> [y \in Y |-> After(y, w[n])]]
<1>0. N \in Nat
  BY LenProperties
<1>1. \A n \in 1 .. N : w[n] \in Honest(output)
  BY ElementOfSeq
<1>2. step \in Steps(N, Y) /\ base \in Y
  <2>1. \A n \in 1 .. N, y \in Y : After(y, w[n]) \in Y
    BY <1>1, AfterType
  <2>2. base \in Y
    <3>1. <<>> \in Seq(Glyphs)
      BY EmptySeq
    <3> QED
      BY <3>1 DEF Unseen, Seens
  <2> HIDE DEF Y, N, base
  <2> QED
    BY <2>1, <2>2 DEF Steps
<1>3. \A n \in 1 .. N, y \in Y : step[n][y] = After(y, w[n])
  OBVIOUS
<1> HIDE DEF step, base, Y, N
<1>4. PICK g \in [0 .. N -> Y] : Follows(g, base, step, N)
  BY ONLY <1>0, <1>2, Following
<1>5. \A n \in 1 .. N : g[n] = After(g[n - 1], w[n])
  <2>1. \A n \in 1 .. N : g[n - 1] \in Y
    BY <1>0
  <2> QED
    BY <1>3, <1>4, <2>1 DEF Follows
<1>6. Seen(w) = g[N]
  BY <1>4, <1>5, SeenRecursion DEF base, N, Follows
<1> QED
  BY <1>4, <1>5, <1>6 DEF base, N, Y, Follows

\* One event more.
LEMMA SeenAppend ==
    ASSUME NEW output, NEW w \in Seq(Honest(output)), NEW e \in Honest(output)
    PROVE  Seen(w) \in Seens /\ Seen(Append(w, e)) = After(Seen(w), e)
<1> DEFINE H == Honest(output)
           N == Len(w)
           more == Append(w, e)
<1>1. /\ more \in Seq(H) /\ Len(more) = N + 1 /\ more[N + 1] = e /\ N \in Nat
      /\ \A n \in 1 .. N : more[n] = w[n]
  <2> HIDE DEF H
  <2>1. w \in Seq(H) /\ e \in H
    BY DEF H
  <2> QED
    BY <2>1, AppendProperties, LenProperties
<1>2. PICK g \in [0 .. N -> Seens] :
         /\ g[0] = Unseen /\ \A n \in 1 .. N : g[n] = After(g[n - 1], w[n])
         /\ Seen(w) = g[N]
  BY Seeing
<1> DEFINE h == [n \in 0 .. N + 1 |-> IF n = N + 1 THEN After(g[N], e) ELSE g[n]]
<1> HIDE DEF more, N
<1>4. h[0] = Unseen /\ h[N + 1] = After(g[N], e)
  BY <1>1, <1>2
<1>5. ASSUME NEW n \in 1 .. Len(more) PROVE h[n] = After(h[n - 1], more[n])
  <2>1. CASE n = N + 1
    <3>1. h[n - 1] = g[N] /\ h[n] = After(g[N], e)
      BY <1>1, <2>1
    <3> QED
      BY <1>1, <2>1, <3>1
  <2>2. CASE n \in 1 .. N
    <3>1. h[n] = g[n] /\ h[n - 1] = g[n - 1] /\ n \in 0 .. N /\ more[n] = w[n]
      BY <1>1, <2>2
    <3> QED
      BY <1>2, <2>2, <3>1
  <2>3. n = N + 1 \/ n \in 1 .. N
    BY <1>1
  <2> QED
    BY <2>1, <2>2, <2>3
<1> HIDE DEF h
<1>6. Seen(more) = h[Len(more)]
  BY <1>1, <1>4, <1>5, SeenRecursion DEF H
<1> QED
  BY <1>1, <1>2, <1>4, <1>6 DEF more

\* Nothing is seen of no event.
LEMMA SeenEmpty == Seen(<<>>) = Unseen
<1>1. Len(<<>>) = 0 /\ <<>> \in Seq(Honest(<<>>))
  BY EmptySeq
<1> DEFINE g == [n \in {0} |-> Unseen]
<1>2. g[0] = Unseen
  OBVIOUS
<1> HIDE DEF g
<1>3. \A n \in 1 .. Len(<<>>) : g[n] = After(g[n - 1], <<>>[n])
  BY <1>1
<1> QED
  BY <1>1, <1>2, <1>3, SeenRecursion

\* The preview has got as far as part j of item i; after events w it reads like texts.
Behind(place, i, j) ==
    place = <<>> \/ \E a \in Nat, b \in Nat : place = <<a, b>> /\ (a < i \/ (a = i /\ b <= j))
Reads(w, texts, i, j) ==
    /\ Seen(w).shown = Joined(texts)
    /\ Seen(w).part = <<>> <=> Joined(texts) = <<>>
    /\ Behind(Seen(w).part, i, j)

\* A letter of the part that is shown, and one of a part behind others.
Lettered(seen, next, place, letter) ==
    /\ next.part = place
    /\ seen.part \in {<<>>, place} => next.shown = seen.shown \o <<letter>>
    /\ seen.part \notin {<<>>, place} =>
          next.shown = seen.shown \o (<<Break>> \o <<letter>>)

\* A letter is shown at the end, behind a break when its part is another.
LEMMA LetterSeen ==
    ASSUME NEW seen \in Seens, NEW i \in Nat, NEW j \in Nat, NEW letter
    PROVE  Lettered(seen, After(seen, Delta(i, j, letter)), <<i, j>>, letter)
<1> DEFINE e == Delta(i, j, letter)
<1>1. e.kind = "delta" /\ e.part = <<i, j>> /\ e.text = <<letter>>
  BY DEF Delta
<1>2. <<i, j>> # <<>>
  OBVIOUS
<1> QED
  BY <1>1, <1>2 DEF After, Preview, PartAfter, Lettered

\* The letters of a part, one after the other.
LEMMA PartSeen ==
    ASSUME NEW output, NEW w \in Seq(Honest(output)), NEW texts \in Seq(Seq(Glyphs)),
           NEW i \in Nat, NEW j \in Nat, NEW p \in Seq(Glyphs), NEW v \in Seq(Honest(output)),
           v = [n \in 1 .. Len(p) |-> Delta(i, j + 1, p[n])], Reads(w, texts, i, j)
    PROVE  Reads(w \o v, Append(texts, p), i, j + 1)
<1> DEFINE H == Honest(output)
           X == Glyphs
           N == Len(p)
           J == Joined(texts)
           k == j + 1
           place == Seen(w).part
           b == <<Break>>
           base == IF J = <<>> THEN <<>> ELSE J \o b
           W(n) == w \o SubSeq(v, 1, n)
<1>1. /\ w \in Seq(H) /\ v \in Seq(H) /\ p \in Seq(X) /\ N \in Nat /\ Len(v) = N
      /\ i \in Nat /\ k \in Nat
  BY LenProperties
<1>2. /\ J \in Seq(X) /\ Joined(Append(texts, p)) = Joint(J, p)
      /\ Seen(w).shown = J /\ (place = <<>> <=> J = <<>>) /\ Behind(place, i, j)
      /\ Seen(w) \in Seens
  <2>1. J \in Seq(X) /\ Joined(Append(texts, p)) = Joint(J, p)
    BY JoinedAppend
  <2>2. Seen(w) \in Seens
    <3>1. PICK g \in [0 .. Len(w) -> Seens] : Seen(w) = g[Len(w)]
      BY Seeing
    <3>2. Len(w) \in 0 .. Len(w)
      BY LenProperties
    <3> QED
      BY <3>1, <3>2
  <2> QED
    BY <2>1, <2>2 DEF Reads
<1>3. b \in Seq(X) /\ base \in Seq(X)
  <2>1. Break \in X
    BY DEF Glyphs
  <2>2. J \in Seq(X)
    BY <1>2
  <2> HIDE DEF X, J
  <2>3. b \in Seq(X)
    BY <2>1
  <2> HIDE DEF b
  <2> QED
    BY <2>2, <2>3, EmptySeq, ConcatProperties
\* It starts in a place of its own.
<1>4. place # <<i, k>>
  <2>1. <<i, k>> # <<>>
    OBVIOUS
  <2>2. ASSUME NEW a \in Nat, NEW c \in Nat, place = <<a, c>>, a < i \/ (a = i /\ c <= j)
        PROVE  place # <<i, k>>
    <3>1. a # i \/ c # k
      BY <2>2
    <3> QED
      BY <2>2, <3>1
  <2> QED
    BY <1>2, <2>1, <2>2 DEF Behind
<1>5. \A n \in 1 .. N : v[n] = Delta(i, k, p[n]) /\ v[n] \in H /\ p[n] \in X
  <2>1. \A n \in 1 .. N : v[n] \in H /\ p[n] \in X
    BY <1>1, ElementOfSeq
  <2> QED
    BY <2>1
<1> HIDE DEF H, X, N, J, k, place, b
<1>6. ASSUME NEW n \in Nat, n < N
      PROVE  /\ W(n) \in Seq(H) /\ W(n + 1) = Append(W(n), v[n + 1])
             /\ SubSeq(p, 1, n) \in Seq(X)
             /\ SubSeq(p, 1, n + 1) = SubSeq(p, 1, n) \o <<p[n + 1]>>
             /\ Seen(W(n)) \in Seens
             /\ Seen(W(n + 1)) = After(Seen(W(n)), Delta(i, k, p[n + 1]))
             /\ p[n + 1] \in X
  <2>1. W(n) \in Seq(H) /\ W(n + 1) = Append(W(n), v[n + 1]) /\ v[n + 1] \in H
    <3>1. w \in Seq(H) /\ v \in Seq(H) /\ n \in Nat /\ n < Len(v)
      BY <1>1, <1>6
    <3>2. /\ w \o SubSeq(v, 1, n) \in Seq(H)
          /\ w \o SubSeq(v, 1, n + 1) = Append(w \o SubSeq(v, 1, n), v[n + 1])
          /\ v[n + 1] \in H
      BY ONLY <3>1, NextPartBehind
    <3> QED
      BY <3>2
  <2>2. /\ SubSeq(p, 1, n) \in Seq(X) /\ SubSeq(p, 1, n + 1) = SubSeq(p, 1, n) \o <<p[n + 1]>>
        /\ p[n + 1] \in X
    BY <1>1, <1>6, NextPart
  <2>5. v[n + 1] = Delta(i, k, p[n + 1])
    <3>1. n + 1 \in 1 .. N
      BY <1>1, <1>6
    <3> QED
      BY <1>5, <3>1
  <2> HIDE DEF W
  <2>6. Seen(W(n)) \in Seens /\ Seen(Append(W(n), v[n + 1])) = After(Seen(W(n)), v[n + 1])
    BY <2>1, SeenAppend DEF H
  <2> QED
    BY <2>1, <2>2, <2>5, <2>6
<1>7. W(0) = w /\ W(N) = w \o v
  <2>1. SubSeq(v, 1, 0) = <<>> /\ w \o <<>> = w
    BY <1>1, SubSeqEmpty, ConcatEmptySeq
  <2>2. SubSeq(v, 1, N) = v
    BY <1>1, SubSeqFull
  <2> QED
    BY <2>1, <2>2
<1> DEFINE Shown(n) == /\ Seen(W(n)).part = <<i, k>>
                       /\ Seen(W(n)).shown = base \o SubSeq(p, 1, n)
           S == {n \in Nat : n \in 1 .. N => Shown(n)}
<1> HIDE DEF W, Shown
<1>8. 0 \in S
  OBVIOUS
<1>9. ASSUME NEW n \in Nat, n \in S PROVE n + 1 \in S
  <2>1. SUFFICES ASSUME n + 1 \in 1 .. N PROVE Shown(n + 1)
    OBVIOUS
  <2>2. n < N
    BY <1>1, <2>1
  <2> DEFINE m == n + 1
             l == p[m]
             seen == Seen(W(n))
             next == Seen(W(m))
             e == Delta(i, k, l)
             q == SubSeq(p, 1, n)
  <2>3. /\ seen \in Seens /\ next = After(seen, e) /\ l \in X
        /\ q \in Seq(X) /\ SubSeq(p, 1, m) = q \o <<l>>
    BY <1>6, <2>2
  <2>4. /\ next.part = <<i, k>>
        /\ seen.part \in {<<>>, <<i, k>>} => next.shown = seen.shown \o <<l>>
        /\ seen.part \notin {<<>>, <<i, k>>} => next.shown = seen.shown \o (b \o <<l>>)
    <3>1. next = After(seen, e) /\ seen \in Seens
      BY <2>3
    <3> HIDE DEF seen, l, next
    <3>2. Lettered(seen, After(seen, Delta(i, k, l)), <<i, k>>, l)
      BY <1>1, <3>1, LetterSeen
    <3> QED
      BY <3>1, <3>2 DEF Lettered, b
  <2>5. <<l>> \in Seq(X)
    BY <2>3
  <2>6. CASE n = 0
    <3>1. seen = Seen(w) /\ seen.part = place /\ seen.shown = J
      BY <1>2, <1>7, <2>6 DEF place
    <3>2. q = <<>> /\ <<>> \o <<l>> = <<l>>
      BY <1>1, <2>5, <2>6, SubSeqEmpty, ConcatEmptySeq
    <3> HIDE DEF seen, next, l, q, e
    <3>3. CASE J = <<>>
      BY <1>2, <2>3, <2>4, <3>1, <3>2, <3>3 DEF m, next, Shown
    <3>4. CASE J # <<>>
      <4>1. next.shown = J \o (b \o <<l>>)
        BY <1>2, <1>4, <2>4, <3>1, <3>4
      <4>2. J \o (b \o <<l>>) = (J \o b) \o <<l>>
        BY <1>2, <1>3, <2>5, ConcatAssociative
      <4> QED
        BY <2>3, <2>4, <3>2, <3>4, <4>1, <4>2 DEF m, next, Shown
    <3> QED
      BY <3>3, <3>4
  <2>7. CASE n # 0
    <3>1. n \in 1 .. N
      BY <1>1, <2>2, <2>7
    <3>2. seen.part = <<i, k>> /\ seen.shown = base \o q
      BY <1>9, <3>1 DEF Shown
    <3> HIDE DEF seen, next, l, q, e, base
    <3>3. next.shown = (base \o q) \o <<l>>
      BY <2>4, <3>2
    <3>4. base \o (q \o <<l>>) = (base \o q) \o <<l>>
      BY <1>3, <2>3, <2>5, ConcatAssociative
    <3> QED
      BY <2>3, <2>4, <3>3, <3>4 DEF m, next, Shown
  <2> QED
    BY <2>6, <2>7
<1> HIDE DEF S
<1>10. N \in S
  BY <1>1, <1>8, <1>9, SetInduction
<1>11. N = 0 <=> p = <<>>
  BY <1>1, EmptySeq DEF N
<1>12. CASE p = <<>>
  <2>1. w \o v = w /\ Joint(J, p) = J
    BY <1>7, <1>11, <1>12 DEF Joint
  <2>2. Behind(place, i, k)
    BY <1>2 DEF Behind, k
  <2> QED
    BY <1>2, <2>1, <2>2 DEF Reads, place, J, k
<1>13. CASE p # <<>>
  <2>1. N \in 1 .. N
    BY <1>1, <1>11, <1>13
  <2>2. SubSeq(p, 1, N) = p
    BY <1>1, SubSeqFull DEF N
  <2>3. Seen(w \o v).part = <<i, k>> /\ Seen(w \o v).shown = base \o p
    BY <1>7, <1>10, <2>1, <2>2 DEF S, Shown
  <2>4. base \o p = Joint(J, p)
    <3>1. <<>> \o p = p
      BY <1>1, ConcatEmptySeq
    <3> QED
      BY <1>13, <3>1 DEF Joint, b
  <2>5. base \o p # <<>>
    <3> HIDE DEF base
    <3>1. base \o p \in Seq(X) /\ Len(base \o p) = Len(base) + N /\ Len(base) \in Nat
      BY <1>1, <1>3, ConcatProperties, LenProperties DEF N
    <3>2. Len(base \o p) # 0
      BY <1>1, <2>1, <3>1
    <3> QED
      BY <3>2, EmptySeq
  <2>6. <<i, k>> # <<>> /\ Behind(<<i, k>>, i, k)
    BY <1>1 DEF Behind
  <2> HIDE DEF base
  <2> QED
    BY <1>2, <2>3, <2>4, <2>5, <2>6 DEF Reads, J, k
<1> QED
  BY <1>12, <1>13

\* What is told of an item, part by part.
LEMMA ItemSeen ==
    ASSUME NEW output \in Outputs, NEW i \in DOMAIN output,
           NEW w \in Seq(Honest(output)), NEW texts \in Seq(Seq(Glyphs)), Reads(w, texts, i, 0)
    PROVE  Reads(w \o DeltasOf(i, output[i]), texts \o output[i].parts, i, Len(output[i].parts))
<1> DEFINE H == Honest(output)
           Y == Seq(Glyphs)
           E == Seq(H)
           parts == output[i].parts
           told == Lettering(i, output[i])
           N == Len(parts)
           F(j) == FlattenSeq(SubSeq(told, 1, j))
           T(j) == SubSeq(parts, 1, j)
<1>1. parts \in Seq(Y) /\ N \in Nat /\ DOMAIN parts = 1 .. N /\ i \in Nat
  <2>1. parts \in Seq(Seq(Letters)) /\ i \in Nat
    BY OutputTypes
  <2>2. Seq(Letters) \subseteq Y
    BY SeqMonotonic DEF Glyphs
  <2> HIDE DEF Y
  <2>3. parts \in Seq(Y)
    BY <2>1, <2>2, SeqMonotonic
  <2> QED
    BY <2>1, <2>3, LenProperties
<1>2. /\ told \in Seq(E) /\ Len(told) = N
      /\ \A j \in 1 .. N : told[j] = [n \in 1 .. Len(parts[j]) |-> Delta(i, j, parts[j][n])]
  <2>1. told \in Seq(Seq(Deltas)) /\ Len(told) = N
        /\ \A j \in 1 .. N : told[j] = [n \in 1 .. Len(parts[j]) |-> Delta(i, j, parts[j][n])]
    BY <1>1, LetteringType
  <2>2. Deltas \subseteq H
    BY DEF Honest
  <2>3. Seq(Deltas) \subseteq E
    BY <2>2, SeqMonotonic
  <2> HIDE DEF E, told
  <2>4. told \in Seq(E)
    BY <2>1, <2>3, SeqMonotonic
  <2> QED
    BY <2>1, <2>4
<1>3. DeltasOf(i, output[i]) = FlattenSeq(told)
  BY DEF DeltasOf, Lettering
<1>4. w \in Seq(H) /\ texts \in Seq(Y)
  OBVIOUS
<1> HIDE DEF told, N, H, Y, parts
<1> DEFINE S == {j \in Nat : j <= N => Reads(w \o F(j), texts \o T(j), i, j)}
<1>5. F(0) = <<>> /\ T(0) = <<>>
  <2>1. SubSeq(told, 1, 0) = <<>> /\ SubSeq(parts, 1, 0) = <<>>
    BY <1>1, <1>2, SubSeqEmpty
  <2> QED
    BY <2>1, FlattenEmpty
<1>6. w \o <<>> = w /\ texts \o <<>> = texts
  BY <1>4, ConcatEmptySeq
<1>7. 0 \in S
  <2> HIDE DEF F, T
  <2> QED
    BY <1>5, <1>6
<1>8. ASSUME NEW j \in Nat, j < N
      PROVE  /\ F(j) \in Seq(H) /\ w \o F(j) \in Seq(H)
             /\ w \o F(j + 1) = (w \o F(j)) \o told[j + 1]
             /\ told[j + 1] \in Seq(H)
             /\ texts \o T(j) \in Seq(Y) /\ texts \o T(j + 1) = Append(texts \o T(j), parts[j + 1])
             /\ parts[j + 1] \in Y
  <2>1. F(j) \in Seq(H) /\ F(j + 1) = F(j) \o told[j + 1] /\ told[j + 1] \in Seq(H)
    BY <1>2, <1>8, FlattenNext
  <2>2. /\ texts \o T(j) \in Seq(Y) /\ texts \o T(j + 1) = Append(texts \o T(j), parts[j + 1])
        /\ parts[j + 1] \in Y
    <3>1. texts \in Seq(Y) /\ parts \in Seq(Y) /\ j \in Nat /\ j < Len(parts)
      BY <1>1, <1>4, <1>8 DEF N
    <3> QED
      BY ONLY <3>1, NextPartBehind
  <2> DEFINE f == F(j)
             v == told[j + 1]
  <2>3. w \o f \in Seq(H) /\ w \o (f \o v) = (w \o f) \o v
    <3>1. w \in Seq(H) /\ f \in Seq(H) /\ v \in Seq(H)
      BY <1>4, <2>1
    <3> HIDE DEF f, v
    <3>2. w \o f \in Seq(H)
      BY <3>1, ConcatProperties
    <3>3. w \o (f \o v) = (w \o f) \o v
      BY <3>1, ConcatAssociative
    <3> QED
      BY <3>2, <3>3
  <2> HIDE DEF F
  <2> QED
    BY <2>1, <2>2, <2>3
<1>9. ASSUME NEW j \in Nat, j \in S PROVE j + 1 \in S
  <2>1. SUFFICES ASSUME j + 1 <= N PROVE Reads(w \o F(j + 1), texts \o T(j + 1), i, j + 1)
    OBVIOUS
  <2> DEFINE u == w \o F(j)
             t == texts \o T(j)
             p == parts[j + 1]
             v == told[j + 1]
  <2>2. Reads(u, t, i, j) /\ j < N /\ j + 1 \in 1 .. N
    BY <1>1, <1>9, <2>1
  <2>3. /\ u \in Seq(Honest(output)) /\ w \o F(j + 1) = u \o v /\ v \in Seq(Honest(output))
        /\ t \in Seq(Seq(Glyphs)) /\ texts \o T(j + 1) = Append(t, p) /\ p \in Seq(Glyphs)
    BY <1>8, <2>2 DEF H, Y
  <2>4. v = [n \in 1 .. Len(p) |-> Delta(i, j + 1, p[n])]
    BY <1>2, <2>2
  <2> HIDE DEF u, t, p, v, F, T
  <2>5. Reads(u \o v, Append(t, p), i, j + 1)
    <3>1. i \in Nat /\ Reads(u, t, i, j)
      BY <1>1, <2>2
    <3> QED
      BY <2>3, <2>4, <3>1, PartSeen
  <2> QED
    BY <2>3, <2>5
<1> HIDE DEF S
<1>10. N \in S
  BY <1>1, <1>7, <1>9, SetInduction
<1>11. F(N) = FlattenSeq(told) /\ T(N) = parts
  <2>1. SubSeq(told, 1, N) = told /\ SubSeq(parts, 1, N) = parts
    BY <1>1, <1>2, SubSeqFull DEF N
  <2> QED
    BY <2>1
<1> HIDE DEF F, T
<1>12. Reads(w \o F(N), texts \o T(N), i, N)
  BY <1>1, <1>10 DEF S
<1> QED
  BY <1>3, <1>11, <1>12 DEF N, parts

\* What is done is not seen; and what comes after an item is another.
LEMMA DoneSeen ==
    ASSUME NEW output \in Outputs, NEW i \in DOMAIN output, NEW j \in Nat,
           NEW w \in Seq(Honest(output)), NEW texts, Reads(w, texts, i, j)
    PROVE  Reads(w \o <<Done(i, output[i])>>, texts, i + 1, 0)
<1> DEFINE e == Done(i, output[i])
<1>1. e \in Honest(output) /\ e.kind = "done" /\ i \in Nat
  <2>1. i \in Nat
    BY OutputTypes
  <2> QED
    BY <2>1 DEF Honest, Done
<1> HIDE DEF e
<1>2. Seen(Append(w, e)) = After(Seen(w), e)
  BY <1>1, SeenAppend
<1>3. After(Seen(w), e) = Seen(w)
  BY <1>1 DEF After
<1>4. Append(w, e) = w \o <<e>>
  BY <1>1, AppendIsConcat
<1>5. Behind(Seen(w).part, i + 1, 0)
  <2>1. Behind(Seen(w).part, i, j)
    BY DEF Reads
  <2>2. \A a \in Nat : a < i \/ a = i => a < i + 1
    BY <1>1
  <2> QED
    BY <2>1, <2>2 DEF Behind
<1> QED
  BY <1>2, <1>3, <1>4, <1>5 DEF Reads, e

\* What was told of a whole output reads like its message.
LEMMA OutputSeen ==
    ASSUME NEW output \in Outputs
    PROVE  Seen(FlattenSeq(Tellings(output))).shown = Parsed(output).content
<1> DEFINE H == Honest(output)
           Y == Seq(Glyphs)
           E == Seq(H)
           Q == Seq(Y)
           told == Tellings(output)
           parts == [i \in DOMAIN output |-> output[i].parts]
           N == Len(output)
           F(n) == FlattenSeq(SubSeq(told, 1, n))
           T(n) == FlattenSeq(SubSeq(parts, 1, n))
<1>1. /\ told \in Seq(E) /\ Len(told) = N /\ N \in Nat /\ DOMAIN output = 1 .. N
      /\ \A i \in 1 .. N : told[i] = DeltasOf(i, output[i]) \o <<Done(i, output[i])>>
  BY OutputTypes, TellingsType
<1>2. \A i \in 1 .. N : output[i].parts \in Q
  <2>1. Seq(Letters) \subseteq Y
    BY SeqMonotonic DEF Glyphs
  <2>2. \A i \in 1 .. N : output[i].parts \in Seq(Seq(Letters))
    BY OutputTypes
  <2> HIDE DEF Y
  <2>3. Seq(Seq(Letters)) \subseteq Seq(Y)
    BY <2>1, SeqMonotonic
  <2> QED
    BY <2>2, <2>3
<1>3. /\ parts \in Seq(Q) /\ Len(parts) = N /\ \A i \in 1 .. N : parts[i] = output[i].parts
      /\ Texts(output) = FlattenSeq(parts)
  <2>1. parts = [i \in 1 .. N |-> output[i].parts]
    BY <1>1
  <2>2. Texts(output) = FlattenSeq(parts)
    BY DEF Texts
  <2> HIDE DEF Q, N, parts
  <2>3. parts \in Seq(Q) /\ Len(parts) = N
    BY <1>1, <1>2, <2>1
  <2> QED
    BY <2>1, <2>2, <2>3
<1> HIDE DEF told, N, H, Y, E, Q, parts
<1> DEFINE S == {n \in Nat : n <= N => Reads(F(n), T(n), n + 1, 0)}
<1>4. F(0) = <<>> /\ T(0) = <<>>
  <2>1. SubSeq(told, 1, 0) = <<>> /\ SubSeq(parts, 1, 0) = <<>>
    BY <1>1, <1>3, SubSeqEmpty
  <2> QED
    BY <2>1, FlattenEmpty
<1>5. 0 \in S
  <2>1. Reads(<<>>, <<>>, 0 + 1, 0)
    BY SeenEmpty, JoinedEmpty DEF Reads, Unseen, Behind
  <2> HIDE DEF F, T
  <2> QED
    BY <1>4, <2>1
<1>6. ASSUME NEW n \in Nat, n \in S PROVE n + 1 \in S
  <2>1. SUFFICES ASSUME n + 1 <= N PROVE Reads(F(n + 1), T(n + 1), (n + 1) + 1, 0)
    OBVIOUS
  <2> DEFINE i == n + 1
             u == F(n)
             t == T(n)
             d == DeltasOf(i, output[i])
             p == output[i].parts
             b == <<Done(i, output[i])>>
  <2>2. Reads(u, t, i, 0) /\ n < N /\ i \in 1 .. N
    BY <1>1, <1>6, <2>1
  <2>3. u \in Seq(H) /\ F(i) = u \o told[i] /\ told[i] \in Seq(H)
    BY <1>1, <2>2, FlattenNext DEF E
  <2>4. t \in Seq(Y) /\ T(i) = t \o parts[i] /\ parts[i] \in Seq(Y)
    BY <1>3, <2>2, FlattenNext DEF Q
  <2>5. parts[i] = p /\ told[i] = d \o b
    BY <1>1, <1>3, <2>2
  <2>6. d \in Seq(H) /\ b \in Seq(H)
    <3>1. i \in DOMAIN output
      BY <1>1, <2>2
    <3>2. Deltas \subseteq H
      BY DEF H, Honest
    <3>3. Done(i, output[i]) \in H
      BY <3>1 DEF H, Honest
    <3> HIDE DEF d, i
    <3>4. d \in Seq(Deltas)
      BY <3>1, ItemTold DEF d
    <3>5. d \in Seq(H)
      BY <3>2, <3>4, SeqMonotonic
    <3> QED
      BY <3>3, <3>5
  <2> HIDE DEF F, T, u, t, i
  <2>7. Reads(u \o d, t \o p, i, Len(p))
    <3>1. i \in DOMAIN output /\ Reads(u, t, i, 0)
      BY <1>1, <2>2
    <3>2. u \in Seq(Honest(output)) /\ t \in Seq(Seq(Glyphs))
      BY <2>3, <2>4 DEF H, Y
    <3> QED
      BY <3>1, <3>2, ItemSeen
  <2>8. Len(p) \in Nat /\ u \o d \in Seq(H)
    <3> HIDE DEF p, d
    <3>1. p \in Seq(Y)
      BY <2>4, <2>5
    <3> QED
      BY <2>3, <2>6, <3>1, ConcatProperties, LenProperties
  <2>9. Reads((u \o d) \o b, t \o p, i + 1, 0)
    <3>1. i \in DOMAIN output /\ u \o d \in Seq(Honest(output))
      BY <1>1, <2>2, <2>8 DEF H
    <3> DEFINE x == u \o d
               y == t \o p
               k == Len(p)
    <3>2. Reads(x, y, i, k) /\ k \in Nat /\ x \in Seq(Honest(output))
      BY <2>7, <2>8, <3>1
    <3> HIDE DEF x, y, k, p, d
    <3>3. Reads(x \o <<Done(i, output[i])>>, y, i + 1, 0)
      BY <3>1, <3>2, DoneSeen
    <3> QED
      BY <3>3 DEF x, y
  <2>10. (u \o d) \o b = u \o (d \o b)
    <3> HIDE DEF d, b
    <3> QED
      BY <2>3, <2>6, ConcatAssociative
  <2> HIDE DEF d, b, p
  <2> QED
    BY <2>3, <2>4, <2>5, <2>9, <2>10 DEF i
<1> HIDE DEF S
<1>7. N \in S
  BY <1>1, <1>5, <1>6, SetInduction
<1>8. F(N) = FlattenSeq(told) /\ T(N) = Texts(output)
  <2>1. SubSeq(told, 1, N) = told /\ SubSeq(parts, 1, N) = parts
    BY <1>1, <1>3, SubSeqFull
  <2> QED
    BY <1>3, <2>1
<1> HIDE DEF F, T
<1>9. Reads(F(N), T(N), N + 1, 0)
  BY <1>1, <1>7 DEF S
<1> QED
  BY <1>8, <1>9 DEF Reads, Parsed, told

\* How far the adapter is in a response that is told without fault: `before` was taken
\* and `rest` is to come; every item that was done is known.
Progress(output, before, rest, text, place, known) ==
    /\ before \o rest \in Told(output)
    /\ text = Seen(before).shown /\ place = Seen(before).part
    /\ \A n \in 1 .. Len(before) : before[n].kind = "done" => before[n].index \in DOMAIN known

PreviewInvariant ==
    /\ pc = "stream" /\ untroubled =>
          \E before \in Seq(Honest(response)) : Progress(response, before, wire, shown, part, items)
    /\ pc = "completed" /\ operation = "completion" /\ untroubled =>
          /\ answer.output = response
          /\ shown # <<>> => shown = Parsed(response).content

\* It takes an event.
LEMMA Progresses ==
    ASSUME NEW output, NEW before \in Seq(Honest(output)), NEW rest \in Seq(Honest(output)),
           rest # <<>>, NEW text, NEW place, NEW known,
           Progress(output, before, rest, text, place, known),
           NEW later, \A i \in DOMAIN known : i \in DOMAIN later,
           Head(rest).kind = "done" => Head(rest).index \in DOMAIN later,
           NEW next, next = After([shown |-> text, part |-> place], Head(rest))
    PROVE  /\ Append(before, Head(rest)) \in Seq(Honest(output))
           /\ Progress(output, Append(before, Head(rest)), Tail(rest), next.shown, next.part, later)
<1> DEFINE H == Honest(output)
           e == Head(rest)
           tail == Tail(rest)
           more == Append(before, e)
           N == Len(before)
<1>1. e \in H /\ tail \in Seq(H) /\ rest = <<e>> \o tail
  <2>1. e \in H /\ tail \in Seq(H)
    BY HeadTailProperties
  <2>2. rest = <<e>> \o tail
    <3>1. rest \in Seq(H) /\ rest # <<>>
      OBVIOUS
    <3> HIDE DEF H
    <3> QED
      BY <3>1
  <2> QED
    BY <2>1, <2>2
<1>2. /\ more \in Seq(H) /\ Len(more) = N + 1 /\ more[N + 1] = e /\ N \in Nat
      /\ \A n \in 1 .. N : more[n] = before[n]
  <2> HIDE DEF H, e
  <2>1. before \in Seq(H) /\ e \in H
    BY <1>1 DEF H
  <2> QED
    BY <2>1, AppendProperties, LenProperties
<1>3. more \o tail = before \o rest
  <2> HIDE DEF H, e, tail
  <2>1. before \in Seq(H) /\ <<e>> \in Seq(H) /\ tail \in Seq(H)
    BY <1>1 DEF H
  <2>2. more = before \o <<e>>
    BY <1>1, <2>1, AppendIsConcat
  <2>3. (before \o <<e>>) \o tail = before \o (<<e>> \o tail)
    BY <2>1, ConcatAssociative
  <2> QED
    BY <1>1, <2>2, <2>3
<1>4. Seen(more) = next
  <2>1. Seen(more) = After(Seen(before), e) /\ Seen(before) \in Seens
    BY <1>1, SeenAppend
  <2>2. Seen(before) = [shown |-> text, part |-> place]
    BY <2>1 DEF Progress, Seens
  <2> QED
    BY <2>1, <2>2
<1>5. \A n \in 1 .. N + 1 : more[n].kind = "done" => more[n].index \in DOMAIN later
  <2>1. ASSUME NEW n \in 1 .. N + 1, more[n].kind = "done" PROVE more[n].index \in DOMAIN later
    <3>1. CASE n = N + 1
      BY <1>2, <2>1, <3>1
    <3>2. CASE n # N + 1
      <4>1. n \in 1 .. N
        BY <1>2, <3>2
      <4>2. more[n] = before[n]
        BY <1>2, <4>1
      <4> QED
        BY <2>1, <4>1, <4>2 DEF Progress
    <3> QED
      BY <3>1, <3>2
  <2> QED
    BY <2>1
<1>6. before \o rest \in Told(output)
  BY DEF Progress
<1> HIDE DEF more, tail
<1>7. Progress(output, more, tail, next.shown, next.part, later)
  BY <1>2, <1>3, <1>4, <1>5, <1>6 DEF Progress
<1> QED
  BY <1>2, <1>7 DEF more, tail

\* What it knows when the response is complete.
LEMMA ProgressEnds ==
    ASSUME NEW output \in Outputs, NEW before \in Seq(Honest(output)),
           NEW rest \in Seq(Honest(output)), rest # <<>>, Head(rest).kind = "completed",
           NEW text, NEW place, NEW known, Progress(output, before, rest, text, place, known)
    PROVE  /\ text # <<>> => text = Parsed(output).content
           /\ Head(rest).output = output \/ DOMAIN output \subseteq DOMAIN known
<1> DEFINE H == Honest(output)
           told == before \o rest
           e == Head(rest)
           M == Len(before)
           N == Len(rest)
<1>1. /\ M \in Nat /\ N \in Nat /\ N # 0 /\ Len(told) = M + N
      /\ \A n \in 1 .. M + N : told[n] = IF n <= M THEN before[n] ELSE rest[n - M]
      /\ e = rest[1]
  BY EmptySeq, LenProperties, ConcatProperties, HeadTailProperties
<1>2. told[M + 1] = e
  <2> HIDE DEF told, M, N, e
  <2>1. M + 1 \in 1 .. M + N /\ ~(M + 1 <= M) /\ (M + 1) - M = 1
    BY <1>1
  <2> QED
    BY <1>1, <2>1
<1>3. \A n \in 1 .. M : told[n] = before[n]
  <2> HIDE DEF told, M, N, e
  <2>1. \A n \in 1 .. M : n \in 1 .. M + N /\ n <= M
    BY <1>1
  <2> QED
    BY <1>1, <2>1
<1>4. text = Seen(before).shown /\ told \in Told(output)
      /\ \A n \in 1 .. M : before[n].kind = "done" => before[n].index \in DOMAIN known
  BY DEF Progress
<1>5. e.kind = "completed"
  OBVIOUS
<1>6. before \in Seq(H) /\ (M = 0 => before = <<>>)
  BY EmptySeq
<1> HIDE DEF told, M, N, e, H
<1>7. CASE told = <<Completed(output)>>
  <2>1. Len(told) = 1 /\ told[1] = Completed(output)
    BY <1>7
  <2>2. M = 0
    <3>1. M \in Nat /\ N \in Nat /\ N # 0 /\ Len(told) = M + N
      BY <1>1
    <3>2. M + N = 1
      BY <2>1, <3>1
    <3> QED
      BY <3>1, <3>2
  <2>3. e = Completed(output)
    BY <1>2, <2>1, <2>2
  <2>4. text = <<>>
    BY <1>4, <1>6, <2>2, SeenEmpty DEF Unseen
  <2> QED
    BY <2>3, <2>4 DEF Completed, e
<1>8. ASSUME NEW last \in {output, <<>>}, told = Streamed(output, last)
      PROVE  /\ text # <<>> => text = Parsed(output).content
             /\ Head(rest).output = output \/ DOMAIN output \subseteq DOMAIN known
  <2> DEFINE front == FlattenSeq(Tellings(output))
             K == Len(front)
             c == Completed(last)
  <2>1. /\ front \in Seq(H) /\ told = Append(front, c)
        /\ \A n \in 1 .. K : front[n].kind # "completed"
        /\ \A i \in DOMAIN output : \E n \in 1 .. K : front[n] = Done(i, output[i])
    BY <1>8, StreamedType DEF H
  <2>2. c \in H /\ c.output = last
    BY DEF H, Honest, Completed
  <2> HIDE DEF front, c
  <2>3. /\ K \in Nat /\ Len(told) = K + 1 /\ told[K + 1] = c
        /\ \A n \in 1 .. K : told[n] = front[n]
    BY <2>1, <2>2, AppendProperties, LenProperties
  <2>4. M = K
    <3>1. M <= K
      BY <1>1, <2>3
    <3>2. ASSUME M + 1 \in 1 .. K PROVE FALSE
      BY <1>2, <1>5, <2>1, <2>3, <3>2
    <3> HIDE DEF K
    <3> QED
      BY <1>1, <2>3, <3>1, <3>2
  <2>5. e = c
    BY <1>2, <2>3, <2>4
  <2>6. before = front
    <3>1. Len(before) = Len(front)
      BY <2>4 DEF M
    <3>2. \A n \in 1 .. Len(before) : before[n] = front[n]
      BY <1>3, <2>3, <2>4 DEF M
    <3> QED
      BY <1>6, <2>1, <3>1, <3>2, SeqEqual
  <2>7. text = Parsed(output).content
    BY <1>4, <2>6, OutputSeen DEF front
  <2>8. DOMAIN output \subseteq DOMAIN known
    <3>1. ASSUME NEW i \in DOMAIN output PROVE i \in DOMAIN known
      <4>1. PICK n \in 1 .. K : front[n] = Done(i, output[i])
        BY <2>1
      <4>2. before[n].kind = "done" /\ before[n].index = i /\ n \in 1 .. M
        BY <2>4, <2>6, <4>1 DEF Done
      <4> QED
        BY <1>4, <4>2
    <3> QED
      BY <3>1
  <2> QED
    BY <2>7, <2>8
<1> QED
  BY <1>4, <1>7, <1>8 DEF Told

\* An answer to a response that was told without fault is all of it.
LEMMA CompletedTells ==
    ASSUME AnswerInvariant, PreviewInvariant, ResponseCompleted, pc' = "completed", untroubled
    PROVE  /\ answer'.output = response
           /\ shown # <<>> => shown = Parsed(response).content
<1>1. pc = "stream" /\ Remembering /\ wire # <<>> /\ Head(wire).kind = "completed"
      /\ response \in Outputs /\ wire \in Seq(Honest(response))
  BY DEF ResponseCompleted, Event, AnswerInvariant, Remembering
<1>2. PICK before \in Seq(Honest(response)) : Progress(response, before, wire, shown, part, items)
  BY <1>1 DEF PreviewInvariant
<1> DEFINE last == Head(wire).output
           N == Len(response)
<1>3. /\ shown # <<>> => shown = Parsed(response).content
      /\ last = response \/ DOMAIN response \subseteq DOMAIN items
  BY <1>1, <1>2, ProgressEnds
<1>4. last \in {response, <<>>}
  BY <1>1, TailTyped, CompletedTyped
<1>5. PICK output \in FinalOutput(items, last) : Usable(output) /\ answer'.output = output
  BY DEF ResponseCompleted, Fail
<1>6. output = response \/ (last = <<>> /\ output \in Assembled(items))
  BY <1>1, <1>4, <1>5, FinalIsPart
<1>7. CASE last = <<>> /\ output \in Assembled(items)
  <2>1. response \in Seq(Items) /\ N \in Nat /\ DOMAIN response = 1 .. N
    BY <1>1, OutputTypes
  <2>2. DOMAIN items = 1 .. N
    <3>1. DOMAIN response \subseteq DOMAIN items
      <4>1. CASE last = response
        <5>1. DOMAIN response = {}
          BY <1>7, <4>1
        <5> QED
          BY <5>1
      <4>2. CASE last # response
        BY <1>3, <4>2
      <4> QED
        BY <4>1, <4>2
    <3> QED
      BY <1>1, <2>1, <3>1 DEF Remembering
  <2>3. Cardinality(1 .. N) = N
    <3>1. N \in Nat
      BY <2>1
    <3> HIDE DEF N
    <3> QED
      BY <3>1, FS_Interval
  <2>4. output = [m \in 1 .. N |-> items[m]]
    BY <1>7, <2>2, <2>3 DEF Assembled
  <2>5. \A m \in 1 .. N : items[m] = response[m]
    BY <1>1, <2>2 DEF Remembering
  <2>6. output = [m \in 1 .. N |-> response[m]]
    BY <2>4, <2>5
  <2>7. response = [m \in 1 .. N |-> response[m]]
    BY <2>1, LenProperties
  <2> QED
    BY <1>3, <1>5, <2>6, <2>7
<1> QED
  BY <1>3, <1>5, <1>6, <1>7

\* Every step keeps what is shown and what was told together.
LEMMA PreviewStep ==
    ASSUME AnswerInvariant, PreviewInvariant, [Next]_vars
    PROVE  PreviewInvariant'
<1>1. CASE TextDelta \/ ItemDone \/ PassedOver
  <2>1. pc = "stream" /\ Remembering /\ wire # <<>>
        /\ response \in Outputs /\ wire \in Seq(Honest(response))
    BY <1>1 DEF TextDelta, ItemDone, PassedOver, Event, AnswerInvariant, Remembering
  <2>2. CASE pc' = "idle"
    BY <2>2 DEF PreviewInvariant
  <2>3. CASE Take
    <3> DEFINE e == Head(wire)
               next == After([shown |-> shown, part |-> part], e)
    <3>1. /\ shown' = next.shown /\ part' = next.part
          /\ \A i \in DOMAIN items : i \in DOMAIN items'
          /\ e.kind = "done" => e.index \in DOMAIN items'
      <4>1. CASE TextDelta
        BY <4>1 DEF TextDelta, Event, After
      <4>2. CASE PassedOver
        BY <4>2 DEF PassedOver, Event, After
      <4>3. CASE ItemDone
        <5>1. e.kind = "done" /\ items' = Inserted(items, e) /\ UNCHANGED <<part, shown>>
          BY <2>1, <2>3, <4>3 DEF ItemDone, Event, Fail, Take
        <5>2. DOMAIN items' = DOMAIN items \cup {e.index}
          BY <5>1 DEF Inserted
        <5> QED
          BY <5>1, <5>2 DEF After
      <4> QED
        BY <1>1, <4>1, <4>2, <4>3
    <3>2. /\ wire' = Tail(wire) /\ response' = response /\ pc' = pc /\ untroubled' = untroubled
          /\ operation' = operation
      BY <2>3 DEF Take
    <3>3. ASSUME untroubled
          PROVE  \E before \in Seq(Honest(response)) :
                    Progress(response, before, Tail(wire), shown', part', items')
      <4>1. PICK before \in Seq(Honest(response)) :
                    Progress(response, before, wire, shown, part, items)
        BY <2>1, <3>3 DEF PreviewInvariant
      <4> HIDE DEF next
      <4>2. next = After([shown |-> shown, part |-> part], Head(wire))
        BY DEF next
      <4>3. /\ Append(before, Head(wire)) \in Seq(Honest(response))
            /\ Progress(response, Append(before, Head(wire)), Tail(wire),
                        next.shown, next.part, items')
        BY <2>1, <3>1, <4>1, <4>2, Progresses
      <4> QED
        BY <3>1, <4>3
    <3> QED
      BY <2>1, <3>2, <3>3 DEF PreviewInvariant
  <2> QED
    BY <1>1, <2>1, <2>2, <2>3 DEF TextDelta, ItemDone, PassedOver, Fail
<1>2. CASE ResponseStarts
  <2>1. pc' = "stream" /\ shown' = <<>> /\ part' = <<>>
    BY <1>2 DEF ResponseStarts, HeadersArrive
  <2>2. ASSUME untroubled'
        PROVE  \E before \in Seq(Honest(response')) :
                  Progress(response', before, wire', shown', part', items')
    <3>1. wire' \in Told(response') /\ response' \in Outputs
      BY <1>2, <2>2 DEF ResponseStarts
    <3>2. wire' \in Seq(Honest(response'))
      BY <3>1, ToldType
    <3>3. <<>> \o wire' = wire' /\ <<>> \in Seq(Honest(response')) /\ Len(<<>>) = 0
      BY <3>2, ConcatEmptySeq, EmptySeq
    <3>4. Progress(response', <<>>, wire', shown', part', items')
      BY <2>1, <3>1, <3>3, SeenEmpty DEF Progress, Unseen
    <3> QED
      BY <3>3, <3>4
  <2> QED
    BY <2>1, <2>2 DEF PreviewInvariant
<1>3. CASE ResponseCompleted
  <2>1. CASE pc' = "idle"
    BY <2>1 DEF PreviewInvariant
  <2>2. CASE pc' = "completed"
    <3>1. UNCHANGED <<host, operation, stream>>
      BY <1>3, <2>2 DEF ResponseCompleted, Fail
    <3>2. untroubled => /\ answer'.output = response
                        /\ shown # <<>> => shown = Parsed(response).content
      BY <1>3, <2>2, CompletedTells
    <3> QED
      BY <2>2, <3>1, <3>2 DEF PreviewInvariant, stream
  <2> QED
    BY <1>3, <2>1, <2>2 DEF ResponseCompleted, Fail
<1>4. CASE Compacted
  <2>1. operation # "completion" /\ operation' = operation /\ pc' = "completed"
    BY <1>4 DEF Compacted, AnswerInvariant
  <2> QED
    BY <2>1 DEF PreviewInvariant
<1>5. CASE pc' \notin {"stream", "completed"}
  BY <1>5 DEF PreviewInvariant
<1>6. CASE UNCHANGED vars
  BY <1>6 DEF vars, stream, PreviewInvariant
<1>7. CASE \/ \E text \in Sayings : Say(text) \/ \E i \in DOMAIN conversation : Edit(i, text)
           \/ RunTool \/ Truncate \/ Renew \/ CompactPortably
           \/ \E r \in Routes : Switch(r)
           \/ Refused \/ Adopt \/ Drop
  <2>1. pc' = "idle"
    BY <1>7 DEF Say, Edit, RunTool, Truncate, Renew, CompactPortably, Switch, Refused, Adopt,
                Drop, Idle
  <2> QED
    BY <1>5, <2>1
<1>8. CASE \/ Complete \/ CompactNatively \/ Start \/ SendFails \/ Rejected \/ ErrorBodyRead
           \/ ResponseFailed \/ ResponseIncomplete \/ Malformed
           \/ StreamBreaks \/ CompactionUnreadable \/ CompactionAnswered
  <2>1. pc' \notin {"stream", "completed"}
    BY <1>8 DEF Complete, CompactNatively, Call, Start, SendFails, Rejected, ErrorBodyRead,
                HeadersArrive, ResponseFailed, ResponseIncomplete, Malformed,
                StreamBreaks, CompactionUnreadable, CompactionAnswered, Fail
  <2> QED
    BY <1>5, <2>1
<1> QED
  BY <1>1, <1>2, <1>3, <1>4, <1>6, <1>7, <1>8 DEF Next

\* Whatever the service left out or told twice, an answer begins as its output does;
\* and where nothing went wrong it is all of it, and the preview reads like the message.
THEOREM AnswersAreResponses == Spec => []AnswerIsTheResponse
<1>1. Init => PreviewInvariant
  BY DEF Init, PreviewInvariant
<1>2. AnswerInvariant /\ PreviewInvariant /\ [Next]_vars => PreviewInvariant'
  BY PreviewStep
<1>3. AnswerInvariant /\ PreviewInvariant => AnswerIsTheResponse
  <2>1. SUFFICES ASSUME AnswerInvariant, PreviewInvariant, pc = "completed",
                        operation = "completion"
                 PROVE  /\ IsPrefix(answer.output, response)
                        /\ untroubled => answer.output = response
                        /\ untroubled /\ shown # <<>> => shown = Parsed(answer.output).content
    BY DEF AnswerIsTheResponse
  <2>2. PICK n \in 1 .. Len(response) : answer.output = SubSeq(response, 1, n)
    BY <2>1 DEF AnswerInvariant, Answered
  <2>3. response \in Seq(Items) /\ Len(response) \in Nat
    BY <2>1, OutputTypes DEF AnswerInvariant, Answered
  <2>4. Len(answer.output) = n
    <3>1. n \in Nat /\ \A i \in 1 .. n : response[i] \in Items
      BY <2>3, ElementOfSeq
    <3> QED
      BY <2>2, <3>1, SubSeqProperties
  <2>5. IsPrefix(answer.output, response)
    BY <2>2, <2>3, <2>4 DEF IsPrefix
  <2> QED
    BY <2>1, <2>5 DEF PreviewInvariant
<1> QED
  BY <1>1, <1>2, <1>3, AnswersArePart, PTL DEF Spec
=============================================================================
