--------------------------- MODULE Transport_proofs ---------------------------
(***************************************************************************)
(* Proofs about the two layers on either side of an adapter: RetryProvider *)
(* above it, for every policy, every set of failures and both ways of      *)
(* calling it, and SseDecoder below it, for every limit, body and way of   *)
(* cutting it into chunks.                                                 *)
(***************************************************************************)
EXTENDS RetryProvider, SseDecoder, Selection_proofs

-----------------------------------------------------------------------------
(* The retrying wrapper.                                                   *)

\* Every wait is some number of whole units.
LEMMA BackoffType == \A n : BackoffAfterAttempt(n) \in Nat
BY PolicyAssumption DEF BackoffAfterAttempt, Capped

\* A failure that the wrapper swallows asked for no delay.
LEMMA RetriedWithoutDelay ==
    ASSUME NEW response \in Responses, NEW error \in Errors(response), MayRetry(error),
           response.kind = "api", response.status \in {429, 503}
    PROVE  response.form \notin {"seconds", "date"}
<1>1. /\ error.kind = "api" /\ error.status = response.status
      /\ error.form = response.form /\ error.after = response.after
  BY ResponsesAssumption DEF Errors
<1> QED
  BY <1>1, PolicyAssumption, ResponsesAssumption
     DEF MayRetry, RetryAfter, FromHeader, NoDelay, BeyondMaximum

-----------------------------------------------------------------------------
(* The invariant.                                                          *)

\* A call that begins has shown nothing.
LEMMA InvariantInit == Init => RetryInvariant
BY DEF Init, RetryInvariant, TypeOK

\* Every step keeps the invariant.
LEMMA InvariantNext == RetryInvariant /\ [Next]_vars => RetryInvariant'
<1> SUFFICES ASSUME RetryInvariant, [Next]_vars
             PROVE  RetryInvariant'
  OBVIOUS
<1> USE DEF RetryInvariant, TypeOK
<1>1. CASE Request
  BY <1>1 DEF Request
<1>2. CASE TextDelta
  BY <1>2 DEF TextDelta
<1>3. CASE Completed
  <2>1. message' \in Seq(Nat)
    BY <1>3 DEF Completed
  <2> QED
    BY <1>3, <2>1 DEF Completed
<1>4. ASSUME NEW response \in Responses, NEW error \in Errors(response),
             Failed(response, error)
      PROVE  RetryInvariant'
  <2>1. CASE ~ MayRetry(error)
    BY <1>4, <2>1, ResponsesAssumption DEF Failed
  <2>2. CASE MayRetry(error)
    <3>1. text = <<>>
      BY <2>2 DEF MayRetry
    <3>2. earliest' = earliest
      BY <1>4, <2>2, RetriedWithoutDelay, ResponsesAssumption DEF Failed
    <3> QED
      BY <1>4, <2>2, <3>1, <3>2 DEF Failed
  <2> QED
    BY <2>1, <2>2
<1>5. CASE Ended
  BY <1>5 DEF Ended
<1>6. CASE BackoffOver
  <2>1. BackoffAfterAttempt(attempt) \in Nat
    BY BackoffType
  <2> QED
    BY <1>6, <2>1 DEF BackoffOver
<1>7. CASE Drop
  BY <1>7 DEF Drop
<1>8. CASE UNCHANGED vars
  BY <1>8 DEF vars
<1> QED
  BY <1>1, <1>2, <1>3, <1>4, <1>5, <1>6, <1>7, <1>8 DEF Next, Answer

\* Throughout a call, what was shown is the text of the outstanding attempt,
\* and a retry begins with nothing shown and no server delay pending: the
\* guard of the retry arm (provider.rs:171-176), with the early return of
\* every other failure.
THEOREM Invariance == Spec => []RetryInvariant
BY InvariantInit, InvariantNext, PTL DEF Spec

-----------------------------------------------------------------------------
(* The wrapper is a provider.                                              *)

\* Every step of the wrapper is a step of a provider's stream, or none.
LEMMA StepImplements ==
    ASSUME RetryInvariant, [Next]_vars
    PROVE  [Stream!Next]_(Stream!vars)
<1> USE DEF RetryInvariant, TypeOK, Stream!vars
<1>1. CASE TextDelta
  BY <1>1 DEF TextDelta, Stream!Next, Stream!TextDelta
<1>2. CASE Completed
  BY <1>2 DEF Completed, Stream!Next, Stream!Completed
<1>3. ASSUME NEW response \in Responses, NEW error \in Errors(response),
             Failed(response, error)
      PROVE  [Stream!Next]_(Stream!vars)
  BY <1>3 DEF Failed, Stream!Next, Stream!Stopped
<1>4. CASE Ended \/ Drop
  BY <1>4 DEF Ended, Drop, Stream!Next, Stream!Stopped
<1>5. CASE Request \/ BackoffOver \/ UNCHANGED vars
  BY <1>5 DEF Request, BackoffOver, vars
<1> QED
  BY <1>1, <1>2, <1>3, <1>4, <1>5 DEF Next, Answer

\* The retrying wrapper keeps the contract of the providers it wraps
\* (provider.rs:34-48): a consumer cannot tell that requests were repeated,
\* and the completed message is the text it was shown.
THEOREM Implements == Spec => StreamSpec
<1>1. Init => Stream!Init
  BY DEF Init, Stream!Init
<1>2. RetryInvariant /\ [Next]_vars => [Stream!Next]_(Stream!vars)
  BY StepImplements
<1> QED
  BY <1>1, <1>2, Invariance, PTL DEF Spec, StreamSpec, Stream!Spec

\* No request leaves before the time the server asked for with a 429 or 503
\* (retry_after.rs:20-23), whatever the form and the size of the header.
THEOREM Patience == Spec => NeverEarly
<1>1. RetryInvariant /\ [Next]_vars
        => [attempt' > attempt => clock >= earliest]_vars
  BY DEF RetryInvariant, TypeOK, Next, Answer, Request, TextDelta, Completed,
         Failed, Ended, BackoffOver, Drop, vars
<1> QED
  BY <1>1, Invariance, PTL DEF Spec, NeverEarly

-----------------------------------------------------------------------------
(* The decoder: what a sequence is divided into.                           *)

\* The limit is a number of bytes, and the ends of lines are bytes.
LEMMA LimitFacts == MaxEventBytes \in Nat /\ "CR" \in Bytes /\ "LF" \in Bytes
BY LimitsAssumption, LineEndsAssumption

\* What a sequence over X is divided into.
Divided(X) == [done : Seq(Seq(X)), rest : Seq(X)]
Undivided == [done |-> <<>>, rest |-> <<>>]

\* An element is put with what is divided already.
LEMMA PutType ==
    ASSUME NEW X, NEW parts \in Divided(X), NEW x \in X, NEW end
    PROVE  Put(parts, x, end) \in Divided(X)
<1>1. parts.done \in Seq(Seq(X)) /\ parts.rest \in Seq(X)
  BY DEF Divided
<1>2. /\ Append(parts.done, parts.rest) \in Seq(Seq(X)) /\ Append(parts.rest, x) \in Seq(X)
      /\ <<>> \in Seq(X)
  BY <1>1, AppendProperties, EmptySeq
<1> DEFINE Y == Seq(X)
           Z == Seq(Y)
<1>3. parts \in [done : Z, rest : Y]
  BY DEF Divided
<1> HIDE DEF Y, Z
<1>4. Put(parts, x, end) \in [done : Z, rest : Y]
  BY <1>2, <1>3 DEF Y, Z, Put
<1> QED
  BY <1>4 DEF Y, Z, Divided

\* Who puts the elements one after the other gets the parts.
LEMMA PartsRecursion ==
    ASSUME NEW X, NEW seq \in Seq(X), NEW end, NEW g,
           g[0] = Undivided,
           \A n \in 1 .. Len(seq) : g[n] \in Divided(X) /\ g[n] = Put(g[n - 1], seq[n], end)
    PROVE  Parts(seq, end) = g[Len(seq)]
<1> DEFINE N == Len(seq)
           D == SUBSET (1 .. N)
           Y == Divided(X)
           Rec(f) == [s \in D |-> IF s = {} THEN Undivided
                                  ELSE Put(f[s \ {Max(s)}], seq[Max(s)], end)]
           iter == CHOOSE f : f = Rec(f)
<1>1. N \in Nat /\ DOMAIN seq = 1 .. N /\ \A n \in 1 .. N : seq[n] \in X
  BY LenProperties, ElementOfSeq
<1>0. N \in Nat
  BY <1>1
<1>2. Parts(seq, end) = iter[1 .. N]
  BY <1>1 DEF Parts, FoldLeft, MapThenFoldSet, Undivided
<1>3. \E f : f = Rec(f)
  <2> DEFINE step == [n \in 1 .. N |-> [y \in Y |-> Put(y, seq[n], end)]]
             base == Undivided
  <2>1. step \in Steps(N, Y) /\ base \in Y
    <3>1. \A n \in 1 .. N, y \in Y : Put(y, seq[n], end) \in Y
      BY <1>1, PutType
    <3>2. base \in Y
      BY EmptySeq DEF Undivided, Divided
    <3> HIDE DEF Y, N, base
    <3> QED
      BY <3>1, <3>2 DEF Steps
  <2>2. \A n \in 1 .. N, y \in Y : step[n][y] = Put(y, seq[n], end)
    OBVIOUS
  <2> HIDE DEF step, base, Y, N
  <2>3. PICK h \in [SUBSET (1 .. N) -> Y] : Folds(h, base, step, N)
    BY ONLY <1>0, <2>1, Folding
  <2>4. ASSUME NEW s \in D, s # {} PROVE h[s] = Put(h[s \ {Max(s)}], seq[Max(s)], end)
    <3> DEFINE x == Max(s)
               t == s \ {x}
    <3>1. x \in 1 .. N
      BY <1>1, <2>4, GreatestPosition
    <3> HIDE DEF x
    <3>2. t \in SUBSET (1 .. N)
      OBVIOUS
    <3> HIDE DEF t
    <3>3. h[t] \in Y
      BY <3>2
    <3>4. step[x][h[t]] = Put(h[t], seq[x], end)
      BY <2>2, <3>1, <3>3
    <3> QED
      BY <2>3, <2>4, <3>4 DEF x, t, Folds
  <2>5. h = Rec(h)
    <3>1. \A s \in D : h[s] = IF s = {} THEN Undivided
                              ELSE Put(h[s \ {Max(s)}], seq[Max(s)], end)
      BY <2>3, <2>4 DEF base, Folds
    <3>2. DOMAIN h = D /\ h = [s \in DOMAIN h |-> h[s]]
      OBVIOUS
    <3> HIDE DEF D
    <3> QED
      BY <3>1, <3>2
  <2> HIDE DEF Rec
  <2> QED
    BY <2>5
<1>4. iter = Rec(iter)
  <2> HIDE DEF Rec
  <2> QED
    BY <1>3
<1> HIDE DEF iter
<1>5. \A s \in D : iter[s] = IF s = {} THEN Undivided
                             ELSE Put(iter[s \ {Max(s)}], seq[Max(s)], end)
  <2> HIDE DEF D
  <2> QED
    BY <1>4
<1> DEFINE S == {m \in Nat : m <= N => iter[1 .. m] = g[m]}
<1>6. 0 \in S
  <2>1. 1 .. 0 = {} /\ {} \in D
    OBVIOUS
  <2> HIDE DEF D
  <2>2. iter[{}] = Undivided
    BY <1>5, <2>1
  <2> QED
    BY <2>1, <2>2
<1>7. ASSUME NEW m \in Nat, m \in S PROVE m + 1 \in S
  <2>1. SUFFICES ASSUME m + 1 <= N PROVE iter[1 .. m + 1] = g[m + 1]
    OBVIOUS
  <2> DEFINE s == 1 .. m + 1
  <2>2. Max(s) = m + 1 /\ s \ {Max(s)} = 1 .. m /\ s # {}
    <3>1. m + 1 \in Nat /\ m + 1 # 0 /\ (m + 1) - 1 = m
      OBVIOUS
    <3> HIDE DEF S
    <3> DEFINE k == m + 1
    <3>2. k \in Nat /\ k # 0 /\ k - 1 = m
      BY <3>1
    <3> HIDE DEF k
    <3>3. Max(1 .. k) = k /\ (1 .. k) \ {k} = 1 .. k - 1 /\ 1 .. k # {}
      BY ONLY <3>2, FirstPositions
    <3> QED
      BY <3>2, <3>3 DEF k
  <2>3. s \in D
    BY <1>1, <2>1
  <2> HIDE DEF s, D
  <2>4. iter[s] = Put(iter[s \ {Max(s)}], seq[Max(s)], end)
    BY <1>5, <2>2, <2>3
  <2>5. iter[1 .. m] = g[m]
    BY <1>1, <1>7, <2>1
  <2>6. m + 1 \in 1 .. N /\ (m + 1) - 1 = m
    BY <1>1, <2>1
  <2>7. g[m + 1] = Put(g[(m + 1) - 1], seq[m + 1], end)
    BY <2>6
  <2> QED
    BY <2>2, <2>4, <2>5, <2>6, <2>7 DEF s
<1> HIDE DEF S
<1>8. N \in S
  BY <1>1, <1>6, <1>7, SetInduction
<1> QED
  BY <1>1, <1>2, <1>8 DEF S

\* g[n] is what the first n elements are divided into.
Divides(g, seq, end) ==
    /\ g[0] = Undivided
    /\ \A n \in 1 .. Len(seq) : g[n] = Put(g[n - 1], seq[n], end)
    /\ Parts(seq, end) = g[Len(seq)]

\* The parts so far are a function of how many elements were put.
LEMMA Dividing ==
    ASSUME NEW X, NEW seq \in Seq(X), NEW end
    PROVE  \E g \in [0 .. Len(seq) -> Divided(X)] : Divides(g, seq, end)
<1> DEFINE N == Len(seq)
           Y == Divided(X)
           step == [n \in 1 .. N |-> [y \in Y |-> Put(y, seq[n], end)]]
           base == Undivided
<1>1. N \in Nat /\ \A n \in 1 .. N : seq[n] \in X
  BY LenProperties, ElementOfSeq
<1>0. N \in Nat
  BY <1>1
<1>2. step \in Steps(N, Y) /\ base \in Y
  <2>1. \A n \in 1 .. N, y \in Y : Put(y, seq[n], end) \in Y
    BY <1>1, PutType
  <2>2. base \in Y
    BY EmptySeq DEF Undivided, Divided
  <2> HIDE DEF Y, N, base
  <2> QED
    BY <2>1, <2>2 DEF Steps
<1>3. \A n \in 1 .. N, y \in Y : step[n][y] = Put(y, seq[n], end)
  OBVIOUS
<1> HIDE DEF step, base, Y, N
<1>4. PICK g \in [0 .. N -> Y] : Follows(g, base, step, N)
  BY ONLY <1>0, <1>2, Following
<1>5. \A n \in 1 .. N : g[n] \in Y /\ g[n] = Put(g[n - 1], seq[n], end)
  <2>1. \A n \in 1 .. N : g[n - 1] \in Y /\ g[n] \in Y
    BY <1>1
  <2> QED
    BY <1>3, <1>4, <2>1 DEF Follows
<1>6. Parts(seq, end) = g[N]
  BY <1>4, <1>5, PartsRecursion DEF base, N, Y, Follows
<1> QED
  BY <1>4, <1>5, <1>6 DEF base, N, Y, Follows, Divides

\* One element more.
LEMMA PartsAppend ==
    ASSUME NEW X, NEW seq \in Seq(X), NEW x \in X, NEW end
    PROVE  /\ Parts(seq, end) \in Divided(X)
           /\ Parts(Append(seq, x), end) = Put(Parts(seq, end), x, end)
<1> DEFINE Y == Divided(X)
           N == Len(seq)
           more == Append(seq, x)
<1>1. /\ more \in Seq(X) /\ Len(more) = N + 1 /\ more[N + 1] = x /\ N \in Nat
      /\ \A n \in 1 .. N : more[n] = seq[n]
  BY AppendProperties, LenProperties
<1>2. PICK g \in [0 .. N -> Y] :
         /\ g[0] = Undivided /\ \A n \in 1 .. N : g[n] = Put(g[n - 1], seq[n], end)
         /\ Parts(seq, end) = g[N]
  <2>1. PICK g \in [0 .. Len(seq) -> Divided(X)] : Divides(g, seq, end)
    BY ONLY seq \in Seq(X), Dividing
  <2> QED
    BY <2>1 DEF Divides
<1>3. g[N] \in Y /\ Put(g[N], x, end) \in Y
  BY <1>1, <1>2, PutType
<1> DEFINE h == [n \in 0 .. N + 1 |-> IF n = N + 1 THEN Put(g[N], x, end) ELSE g[n]]
<1> HIDE DEF more, Y, N
<1>4. h[0] = Undivided /\ h[N + 1] = Put(g[N], x, end)
  BY <1>1, <1>2
<1>5. ASSUME NEW n \in 1 .. Len(more) PROVE h[n] \in Y /\ h[n] = Put(h[n - 1], more[n], end)
  <2>1. CASE n = N + 1
    <3>1. h[n - 1] = g[N] /\ h[n] = Put(g[N], x, end)
      BY <1>1, <2>1
    <3> QED
      BY <1>1, <1>3, <2>1, <3>1
  <2>2. CASE n \in 1 .. N
    <3>1. h[n] = g[n] /\ h[n - 1] = g[n - 1] /\ n \in 0 .. N /\ more[n] = seq[n]
      BY <1>1, <2>2
    <3> QED
      BY <1>2, <2>2, <3>1
  <2>3. n = N + 1 \/ n \in 1 .. N
    BY <1>1
  <2> QED
    BY <2>1, <2>2, <2>3
<1> HIDE DEF h
<1>6. Parts(more, end) = h[Len(more)]
  BY <1>1, <1>4, <1>5, PartsRecursion DEF Y
<1> QED
  BY <1>1, <1>2, <1>3, <1>4, <1>6 DEF more, Y

\* Nothing is not divided.
LEMMA PartsEmpty == \A end : Parts(<<>>, end) = Undivided
<1> SUFFICES ASSUME NEW end PROVE Parts(<<>>, end) = Undivided
  OBVIOUS
<1> DEFINE X == {}
           seq == <<>>
<1>1. seq \in Seq(X) /\ Len(seq) = 0
  BY EmptySeq
<1> HIDE DEF X, seq
<1>2. PICK g \in [0 .. Len(seq) -> Divided(X)] : Divides(g, seq, end)
  BY ONLY <1>1, Dividing
<1> QED
  BY <1>1, <1>2 DEF seq, Divides

-----------------------------------------------------------------------------
(* A text is read byte by byte: its lines, its blocks and its events.      *)

Chars == Bytes \cup {"LF"}
Line(t) == Parts(Normalized(t), "LF").rest
Block(t) == Parts(Lines(t), <<>>).rest

\* What a byte of a text becomes.
Becomes(t, i) ==
    IF i \in LineEnds(t) THEN <<"LF">> ELSE IF t[i] = "LF" THEN <<>> ELSE <<t[i]>>
AfterCr(t) == t # <<>> /\ t[Len(t)] = "CR"

\* A text is normalized byte by byte.
LEMMA NormalizedBytes ==
    ASSUME NEW t \in Seq(Bytes)
    PROVE  /\ Normalized(t) = FlattenSeq([i \in 1 .. Len(t) |-> Becomes(t, i)])
           /\ [i \in 1 .. Len(t) |-> Becomes(t, i)] \in Seq(Seq(Chars))
           /\ Normalized(t) \in Seq(Chars)
<1> DEFINE N == Len(t)
           seqs == [i \in 1 .. N |-> Becomes(t, i)]
<1>1. N \in Nat /\ DOMAIN t = 1 .. N /\ \A i \in 1 .. N : t[i] \in Bytes
  BY LenProperties, ElementOfSeq
<1>2. \A i \in 1 .. N : Becomes(t, i) \in Seq(Chars)
  <2>1. /\ <<>> \in Seq(Chars) /\ <<"LF">> \in Seq(Chars)
        /\ \A b \in Bytes : <<b>> \in Seq(Chars)
    <3>1. "LF" \in Chars /\ \A b \in Bytes : b \in Chars
      BY DEF Chars
    <3> QED
      BY <3>1
  <2> QED
    BY <1>1, <2>1 DEF Becomes
<1>3. Normalized(t) = FlattenSeq(seqs)
  BY <1>1 DEF Normalized, Becomes, LF
<1> HIDE DEF N
<1>4. seqs \in Seq(Seq(Chars))
  <2> DEFINE Y == Seq(Chars)
  <2>1. \A i \in 1 .. N : Becomes(t, i) \in Y
    BY <1>2
  <2> HIDE DEF Y
  <2>2. seqs \in Seq(Y)
    BY <1>1, <2>1, IsASeq
  <2> QED
    BY <2>2 DEF Y
<1>5. FlattenSeq(seqs) \in Seq(Chars)
  BY <1>4, FlattenType
<1> QED
  BY <1>3, <1>4, <1>5 DEF N

\* One byte more: the LF of a CR is dropped, and the rest stays as it was.
LEMMA NormalizedAppend ==
    ASSUME NEW t \in Seq(Bytes), NEW x \in Bytes
    PROVE  Normalized(Append(t, x)) =
              IF x = "LF" /\ AfterCr(t) THEN Normalized(t)
              ELSE Append(Normalized(t), IF x \in {"CR", "LF"} THEN "LF" ELSE x)
<1> DEFINE N == Len(t)
           u == Append(t, x)
           seqs == [i \in 1 .. N |-> Becomes(t, i)]
           more == [i \in 1 .. N + 1 |-> Becomes(u, i)]
           last == Becomes(u, N + 1)
<1>1. /\ N \in Nat /\ DOMAIN t = 1 .. N /\ \A i \in 1 .. N : t[i] \in Bytes
      /\ u \in Seq(Bytes) /\ Len(u) = N + 1 /\ DOMAIN u = 1 .. N + 1
      /\ u[N + 1] = x /\ \A i \in 1 .. N : u[i] = t[i]
  BY LenProperties, ElementOfSeq, AppendProperties
<1>2. \A i \in 1 .. N : Becomes(u, i) = Becomes(t, i)
  <2>1. SUFFICES ASSUME NEW i \in 1 .. N PROVE Becomes(u, i) = Becomes(t, i)
    OBVIOUS
  <2>2. i \in LineEnds(u) <=> i \in LineEnds(t)
    <3>1. i > 1 => i - 1 \in 1 .. N
      BY <1>1
    <3>2. u[i] = t[i] /\ (i > 1 => u[i - 1] = t[i - 1]) /\ i \in DOMAIN u /\ i \in DOMAIN t
      BY <1>1, <3>1
    <3> HIDE DEF u, N
    <3> QED
      BY <3>2 DEF LineEnds
  <2> QED
    BY <1>1, <2>2 DEF Becomes
<1>3. last = IF x = "LF" /\ AfterCr(t) THEN <<>>
             ELSE <<IF x \in {"CR", "LF"} THEN "LF" ELSE x>>
  <2>1. AfterCr(t) <=> N + 1 > 1 /\ u[(N + 1) - 1] = "CR"
    <3>1. t # <<>> <=> N # 0
      BY EmptySeq
    <3>2. N # 0 => N \in 1 .. N /\ u[N] = t[N]
      <4> HIDE DEF u, N
      <4> QED
        BY <1>1
    <3> HIDE DEF u
    <3>3. (N + 1) - 1 = N /\ (N + 1 > 1 <=> N # 0)
      BY <1>1
    <3> QED
      BY <3>1, <3>2, <3>3 DEF AfterCr
  <2>2. N + 1 \in LineEnds(u) <=> x = "CR" \/ (x = "LF" /\ ~AfterCr(t))
    <3>1. N + 1 \in DOMAIN u
      BY <1>1
    <3> HIDE DEF u
    <3> QED
      BY <1>1, <2>1, <3>1 DEF LineEnds, CR, LF
  <2> HIDE DEF u
  <2> QED
    BY <1>1, <2>2 DEF Becomes
<1>4. /\ Normalized(t) = FlattenSeq(seqs) /\ seqs \in Seq(Seq(Chars))
      /\ Normalized(t) \in Seq(Chars)
  BY NormalizedBytes
<1>5. Normalized(u) = FlattenSeq(more)
  BY <1>1, NormalizedBytes
<1> HIDE DEF last
<1>6. more = Append(seqs, last) /\ last \in Seq(Chars)
  <2>1. last \in Seq(Chars)
    <3>1. <<>> \in Seq(Chars) /\ <<"LF">> \in Seq(Chars) /\ <<x>> \in Seq(Chars)
      <4>1. "LF" \in Chars /\ x \in Chars
        BY DEF Chars
      <4> QED
        BY <4>1
    <3> QED
      BY <1>3, <3>1
  <2>2. Len(seqs) = N
    BY <1>1
  <2>3. more[N + 1] = last /\ \A i \in 1 .. N : more[i] = seqs[i]
    <3> HIDE DEF N, u
    <3> QED
      BY <1>1, <1>2 DEF last
  <2>4. more \in Seq(Seq(Chars)) /\ Len(more) = N + 1
    <3>1. [i \in 1 .. Len(u) |-> Becomes(u, i)] \in Seq(Seq(Chars))
      <4> HIDE DEF u
      <4> QED
        BY <1>1, NormalizedBytes
    <3>2. [i \in 1 .. Len(u) |-> Becomes(u, i)] = more
      <4> HIDE DEF u
      <4> QED
        BY <1>1
    <3> QED
      BY <1>1, <3>1, <3>2
  <2> HIDE DEF more, seqs, N, u
  <2>5. /\ Append(seqs, last) \in Seq(Seq(Chars)) /\ Len(Append(seqs, last)) = N + 1
        /\ Append(seqs, last)[N + 1] = last
        /\ \A i \in 1 .. N : Append(seqs, last)[i] = seqs[i]
    BY <1>4, <2>1, <2>2, AppendProperties
  <2>6. \A i \in 1 .. N + 1 : more[i] = Append(seqs, last)[i]
    <3>1. \A i \in 1 .. N + 1 : i = N + 1 \/ i \in 1 .. N
      BY <1>1
    <3> QED
      BY <2>3, <2>5, <3>1
  <2> QED
    BY <2>1, <2>4, <2>5, <2>6, SeqEqual
<1>7. Normalized(u) = Normalized(t) \o last
  <2> HIDE DEF u, more, seqs
  <2> QED
    BY <1>4, <1>5, <1>6, FlattenAppend
<1>8. CASE x = "LF" /\ AfterCr(t)
  BY <1>3, <1>4, <1>7, <1>8, ConcatEmptySeq DEF u
<1>9. CASE ~(x = "LF" /\ AfterCr(t))
  BY <1>3, <1>4, <1>7, <1>9, AppendIsConcat DEF u, Chars
<1> QED
  BY <1>8, <1>9

\* What events there are, and what some blocks tell of them.
Tellable == UNION {Range(Event(lines)) : lines \in Seq(Seq(Chars))}
Told(blocks) == FlattenSeq([n \in 1 .. Len(blocks) |-> Event(blocks[n])])
Blocks(t) == Parts(Lines(t), <<>>).done

\* A block tells an event at most, and an empty one none.
LEMMA EventType ==
    /\ \A lines \in Seq(Seq(Chars)) : Event(lines) \in Seq(Tellable)
    /\ Event(<<>>) = <<>>
<1>1. ASSUME NEW lines \in Seq(Seq(Chars)) PROVE Event(lines) \in Seq(Tellable)
  <2> DEFINE e == Event(lines)
  <2>1. e = <<>> \/ \E event : e = <<event>>
    BY DEF Event
  <2>2. Range(e) \subseteq Tellable
    BY DEF Tellable
  <2> HIDE DEF e
  <2>3. CASE e = <<>>
    BY <2>3, EmptySeq DEF e
  <2>4. ASSUME NEW event, e = <<event>> PROVE e \in Seq(Tellable)
    <3>1. event \in Range(e)
      BY <2>4 DEF Range
    <3> QED
      BY <2>2, <2>4, <3>1
  <2> QED
    BY <2>1, <2>3, <2>4 DEF e
<1>2. Event(<<>>) = <<>>
  <2>1. \A indices : Select(<<>>, indices) = <<>>
    BY SelectEmpty
  <2>2. Values(<<>>, "data") = <<>>
    <3>1. Values(<<>>, "data") = [n \in DOMAIN <<>> |-> Tail(<<>>[n])]
      BY <2>1 DEF Values
    <3>2. DOMAIN <<>> = {}
      OBVIOUS
    <3> QED
      BY <3>1, <3>2
  <2> QED
    BY <2>2 DEF Event
<1> QED
  BY <1>1, <1>2

\* One block more tells its event behind those of the others.
LEMMA ToldAppend ==
    ASSUME NEW blocks \in Seq(Seq(Seq(Chars))), NEW block \in Seq(Seq(Chars))
    PROVE  /\ Told(blocks) \in Seq(Tellable)
           /\ Told(Append(blocks, block)) = Told(blocks) \o Event(block)
<1> DEFINE X == Seq(Seq(Chars))
           Y == Seq(Tellable)
           N == Len(blocks)
           more == Append(blocks, block)
           told == [n \in 1 .. N |-> Event(blocks[n])]
           toldMore == [n \in 1 .. N + 1 |-> Event(more[n])]
           last == Event(block)
<1>1. /\ N \in Nat /\ \A n \in 1 .. N : blocks[n] \in X
      /\ Len(more) = N + 1 /\ more[N + 1] = block /\ \A n \in 1 .. N : more[n] = blocks[n]
  BY LenProperties, ElementOfSeq, AppendProperties
<1>2. last \in Y /\ \A n \in 1 .. N : Event(blocks[n]) \in Y
  BY <1>1, EventType
<1>3. Told(blocks) = FlattenSeq(told) /\ Told(more) = FlattenSeq(toldMore)
  BY <1>1 DEF Told
<1> HIDE DEF X, Y, N, more, last
<1>4. told \in Seq(Y) /\ Len(told) = N
  BY <1>1, <1>2
<1>5. \A n \in 1 .. N + 1 : toldMore[n] = IF n = N + 1 THEN last ELSE told[n]
  <2>1. \A n \in 1 .. N + 1 : n = N + 1 \/ n \in 1 .. N
    BY <1>1
  <2> QED
    BY <1>1, <2>1 DEF last
<1>6. toldMore \in Seq(Y) /\ Len(toldMore) = N + 1
  <2>1. \A n \in 1 .. N + 1 : Event(more[n]) \in Y
    <3>1. \A n \in 1 .. N + 1 : n = N + 1 \/ n \in 1 .. N
      BY <1>1
    <3> QED
      BY <1>1, <1>2, <3>1 DEF last
  <2> QED
    BY <1>1, <2>1
<1> HIDE DEF told, toldMore
<1>7. toldMore = Append(told, last)
  <2> DEFINE a == Append(told, last)
  <2>1. /\ a \in Seq(Y) /\ Len(a) = N + 1 /\ a[N + 1] = last
        /\ \A n \in 1 .. N : a[n] = told[n]
    BY <1>2, <1>4, AppendProperties
  <2> HIDE DEF a
  <2>2. \A n \in 1 .. N + 1 : toldMore[n] = a[n]
    <3>1. \A n \in 1 .. N + 1 : n = N + 1 \/ n \in 1 .. N
      BY <1>1
    <3> QED
      BY <1>5, <2>1, <3>1
  <2> QED
    BY <1>6, <2>1, <2>2, SeqEqual DEF a
<1>8. FlattenSeq(told) \in Y /\ FlattenSeq(toldMore) = FlattenSeq(told) \o last
  BY <1>2, <1>4, <1>7, FlattenType, FlattenAppend DEF Y
<1> QED
  BY <1>3, <1>8 DEF more, last, Y

\* What a text is read as.
LEMMA ReadTypes ==
    ASSUME NEW t \in Seq(Bytes)
    PROVE  /\ Normalized(t) \in Seq(Chars)
           /\ Lines(t) \in Seq(Seq(Chars)) /\ Line(t) \in Seq(Chars)
           /\ Blocks(t) \in Seq(Seq(Seq(Chars))) /\ Block(t) \in Seq(Seq(Chars))
           /\ Parts(Normalized(t), "LF") \in Divided(Chars)
           /\ Parts(Lines(t), <<>>) \in Divided(Seq(Chars))
           /\ EventsOf(t) = Told(Blocks(t)) /\ EventsOf(t) \in Seq(Tellable)
<1> DEFINE lf == "LF"
           Y == Seq(Chars)
           none == <<>>
<1>1. Normalized(t) \in Seq(Chars)
  BY NormalizedBytes
<1>2. Parts(Normalized(t), lf) \in Divided(Chars)
  <2>1. lf \in Chars
    BY DEF Chars
  <2> HIDE DEF lf
  <2> QED
    BY <1>1, <2>1, PartsAppend
<1>3. Lines(t) \in Seq(Y) /\ Line(t) \in Y
  BY <1>2 DEF Divided, Lines, Finished, Line, LF
<1>4. Parts(Lines(t), none) \in Divided(Y)
  <2>1. none \in Y
    BY EmptySeq
  <2> HIDE DEF none, Y
  <2> QED
    BY <1>3, <2>1, PartsAppend
<1>5. Blocks(t) \in Seq(Seq(Y)) /\ Block(t) \in Seq(Y)
  BY <1>4 DEF Divided, Blocks, Block
<1>6. EventsOf(t) = Told(Blocks(t))
  <2>1. Blocks(t) = Finished(Lines(t), <<>>)
    BY DEF Blocks, Finished
  <2>2. DOMAIN Blocks(t) = 1 .. Len(Blocks(t))
    BY <1>5, LenProperties
  <2> QED
    BY <2>1, <2>2 DEF Told, EventsOf
<1>7. Told(Blocks(t)) \in Seq(Tellable)
  <2>1. none \in Seq(Y)
    BY EmptySeq
  <2> HIDE DEF none
  <2> QED
    BY <1>5, <2>1, ToldAppend DEF Y
<1> QED
  BY <1>1, <1>2, <1>3, <1>4, <1>5, <1>6, <1>7

\* A byte of a line is added to it.
LEMMA ReadByte ==
    ASSUME NEW t \in Seq(Bytes), NEW x \in Bytes, x \notin {"CR", "LF"}
    PROVE  /\ Line(Append(t, x)) = Append(Line(t), x)
           /\ Lines(Append(t, x)) = Lines(t)
           /\ Block(Append(t, x)) = Block(t) /\ Blocks(Append(t, x)) = Blocks(t)
<1> DEFINE lf == "LF"
           p == Parts(Normalized(t), lf)
           u == Append(t, x)
<1>1. Normalized(u) = Append(Normalized(t), x)
  BY NormalizedAppend
<1>2. Parts(Normalized(u), lf) = Put(p, x, lf) /\ p \in Divided(Chars)
  <2>1. x \in Chars /\ Normalized(t) \in Seq(Chars)
    BY ReadTypes DEF Chars
  <2> HIDE DEF lf
  <2> QED
    BY <1>1, <2>1, PartsAppend
<1>3. Put(p, x, lf) = [p EXCEPT !.rest = Append(@, x)]
  BY DEF Put
<1>4. Line(u) = Append(Line(t), x) /\ Lines(u) = Lines(t)
  <2> HIDE DEF p
  <2>1. Put(p, x, lf).rest = Append(p.rest, x) /\ Put(p, x, lf).done = p.done
    BY <1>2, <1>3 DEF Divided
  <2> QED
    BY <1>2, <2>1 DEF Line, Lines, Finished, LF, p
<1> QED
  BY <1>4 DEF Block, Blocks

\* An LF behind its CR says nothing.
LEMMA ReadSame ==
    ASSUME NEW t \in Seq(Bytes), AfterCr(t)
    PROVE  /\ Line(Append(t, "LF")) = Line(t) /\ Lines(Append(t, "LF")) = Lines(t)
           /\ Block(Append(t, "LF")) = Block(t) /\ Blocks(Append(t, "LF")) = Blocks(t)
<1> USE LimitFacts
<1>1. Normalized(Append(t, "LF")) = Normalized(t)
  BY NormalizedAppend
<1> QED
  BY <1>1 DEF Line, Lines, Block, Blocks

\* Another CR or LF ends a line, and a block if the line is blank.
LEMMA ReadEnd ==
    ASSUME NEW t \in Seq(Bytes), NEW x \in Bytes, x \in {"CR", "LF"}, ~(x = "LF" /\ AfterCr(t))
    PROVE  /\ Line(Append(t, x)) = <<>>
           /\ Lines(Append(t, x)) = Append(Lines(t), Line(t))
           /\ Line(t) = <<>> => /\ Block(Append(t, x)) = <<>>
                                /\ Blocks(Append(t, x)) = Append(Blocks(t), Block(t))
           /\ Line(t) # <<>> => /\ Block(Append(t, x)) = Append(Block(t), Line(t))
                                /\ Blocks(Append(t, x)) = Blocks(t)
<1> DEFINE lf == "LF"
           none == <<>>
           p == Parts(Normalized(t), lf)
           q == Parts(Lines(t), none)
           u == Append(t, x)
<1>1. Normalized(u) = Append(Normalized(t), lf)
  BY NormalizedAppend
<1>2. Parts(Normalized(u), lf) = Put(p, lf, lf) /\ p \in Divided(Chars)
  <2>1. lf \in Chars /\ Normalized(t) \in Seq(Chars)
    BY ReadTypes DEF Chars
  <2> HIDE DEF lf
  <2> QED
    BY <1>1, <2>1, PartsAppend
<1>3. Line(u) = <<>> /\ Lines(u) = Append(Lines(t), Line(t))
  <2>1. Put(p, lf, lf) = [done |-> Append(p.done, p.rest), rest |-> <<>>]
    BY DEF Put
  <2> QED
    BY <1>2, <2>1 DEF Line, Lines, Finished, LF
<1>4. Parts(Lines(u), none) = Put(q, Line(t), none) /\ q \in Divided(Seq(Chars))
  <2> DEFINE Y == Seq(Chars)
  <2>1. Lines(t) \in Seq(Y) /\ Line(t) \in Y
    BY ReadTypes
  <2> HIDE DEF none, Y
  <2> QED
    BY <1>3, <2>1, PartsAppend DEF Y
<1> HIDE DEF u, q
<1>5. CASE Line(t) = none
  <2>1. Put(q, Line(t), none) = [done |-> Append(q.done, q.rest), rest |-> <<>>]
    BY <1>5 DEF Put
  <2> QED
    BY <1>3, <1>4, <1>5, <2>1 DEF Block, Blocks, q, u
<1>6. CASE Line(t) # none
  <2>1. Put(q, Line(t), none) = [q EXCEPT !.rest = Append(@, Line(t))]
    BY <1>6 DEF Put
  <2>2. Put(q, Line(t), none).rest = Append(q.rest, Line(t))
        /\ Put(q, Line(t), none).done = q.done
    BY <1>4, <2>1 DEF Divided
  <2> QED
    BY <1>3, <1>4, <1>6, <2>2 DEF Block, Blocks, q, u
<1> QED
  BY <1>5, <1>6

\* Where nothing was read, nothing was told.
LEMMA ReadNothing ==
    /\ Line(<<>>) = <<>> /\ Lines(<<>>) = <<>> /\ Block(<<>>) = <<>> /\ Blocks(<<>>) = <<>>
    /\ EventsOf(<<>>) = <<>>
<1>1. Normalized(<<>>) = <<>>
  <2> DEFINE none == <<>>
             seqs == [i \in 1 .. Len(none) |-> Becomes(none, i)]
  <2>1. none \in Seq(Bytes) /\ Len(none) = 0
    BY EmptySeq
  <2>2. Normalized(none) = FlattenSeq(seqs) /\ seqs \in Seq(Seq(Chars))
    <3> HIDE DEF none
    <3> QED
      BY <2>1, NormalizedBytes
  <2>3. seqs = <<>>
    BY <2>1
  <2> QED
    BY <2>2, <2>3, FlattenEmpty
<1>2. Line(<<>>) = <<>> /\ Lines(<<>>) = <<>>
  BY <1>1, PartsEmpty DEF Line, Lines, Finished, Undivided, LF
<1>3. Block(<<>>) = <<>> /\ Blocks(<<>>) = <<>>
  BY <1>2, PartsEmpty DEF Block, Blocks, Undivided
<1>4. EventsOf(<<>>) = <<>>
  <2> DEFINE none == <<>>
  <2>1. none \in Seq(Bytes)
    BY EmptySeq
  <2> HIDE DEF none
  <2>2. EventsOf(none) = Told(Blocks(none))
    BY <2>1, ReadTypes
  <2>3. EventsOf(<<>>) = FlattenSeq([n \in 1 .. 0 |-> Event(<<>>[n])])
    BY <1>3, <2>2 DEF none, Told
  <2>4. [n \in 1 .. 0 |-> Event(<<>>[n])] = <<>>
    OBVIOUS
  <2> QED
    BY <2>3, <2>4, FlattenEmpty
<1> QED
  BY <1>2, <1>3, <1>4

\* A line is begun by a byte that ends none, and only by such a byte.
LEMMA LineBegun ==
    ASSUME NEW t \in Seq(Bytes), t # <<>>
    PROVE  Line(t) = <<>> <=> t[Len(t)] \in {"CR", "LF"}
<1>1. PICK v \in Seq(Bytes), x \in Bytes : t = Append(v, x)
  BY SequenceEmptyOrAppend
<1>2. t[Len(t)] = x
  BY <1>1, AppendProperties
<1>3. CASE x \notin {"CR", "LF"}
  <2>1. Line(t) = Append(Line(v), x) /\ Line(v) \in Seq(Chars) /\ x \in Chars
    BY <1>1, <1>3, ReadByte, ReadTypes DEF Chars
  <2> QED
    BY <1>2, <1>3, <2>1, AppendProperties
<1>4. CASE x \in {"CR", "LF"} /\ ~(x = "LF" /\ AfterCr(v))
  BY <1>1, <1>2, <1>4, ReadEnd
<1>5. CASE x = "LF" /\ AfterCr(v)
  <2>1. PICK u \in Seq(Bytes), y \in Bytes : v = Append(u, y)
    BY <1>5, SequenceEmptyOrAppend DEF AfterCr
  <2>2. y = "CR"
    BY <1>5, <2>1, AppendProperties DEF AfterCr
  <2>3. Line(v) = <<>>
    BY <2>1, <2>2, ReadEnd
  <2>4. Line(t) = Line(v)
    BY <1>1, <1>5, ReadSame
  <2> QED
    BY <1>2, <1>5, <2>3, <2>4
<1> QED
  BY <1>3, <1>4, <1>5

\* What a boundary is.
LEMMA BoundaryAt ==
    ASSUME NEW t \in Seq(Bytes), NEW i
    PROVE  i \in Boundaries(t)
              <=> /\ i \in 1 .. Len(t) /\ t[i] \in {"CR", "LF"}
                  /\ t[i] = "CR" \/ ~(i > 1 /\ t[i - 1] = "CR")
                  /\ i = 1 \/ t[i - 1] \in {"CR", "LF"}
<1>1. DOMAIN t = 1 .. Len(t)
  BY LenProperties
<1> QED
  BY <1>1 DEF Boundaries, LineEnds, CR, LF

-----------------------------------------------------------------------------
(* Reading on behind a finished block.                                     *)

Clear(t) == Line(t) = <<>> /\ Block(t) = <<>>

\* Behind a text whose blocks are finished another one is read as if there were nothing
\* in front of it, up to its first boundary.
ReadsOn(w, v, t) ==
    /\ Line(w) = Line(v) /\ Block(w) = Lines(v) /\ Blocks(w) = Blocks(t)
    /\ v # <<>> => (AfterCr(w) <=> AfterCr(v))

\* What comes first in a text without a boundary there.
LEMMA FirstByte ==
    ASSUME NEW t \in Seq(Bytes), 1 <= Len(t), 1 \notin Boundaries(t)
    PROVE  t[1] \notin {"CR", "LF"}
<1>1. Len(t) \in Nat
  BY LenProperties
<1>2. 1 \in 1 .. Len(t) /\ ~(1 > 1)
  BY <1>1
<1> QED
  BY <1>2, BoundaryAt

\* One byte further.
LEMMA ReadsOnByte ==
    ASSUME NEW t \in Seq(Bytes), NEW body \in Seq(Bytes), NEW k \in Nat, k < Len(body),
           \A b \in Boundaries(body) : b > k + 1,
           ReadsOn(t \o SubSeq(body, 1, k), SubSeq(body, 1, k), t)
    PROVE  ReadsOn(t \o SubSeq(body, 1, k + 1), SubSeq(body, 1, k + 1), t)
<1> DEFINE v == SubSeq(body, 1, k)
           w == t \o v
           x == body[k + 1]
           more == SubSeq(body, 1, k + 1)
           further == t \o more
<1>1. /\ v \in Seq(Bytes) /\ w \in Seq(Bytes) /\ x \in Bytes
      /\ more = Append(v, x) /\ further = Append(w, x)
  BY NextPart, NextPartBehind
<1>2. /\ Len(v) = k /\ Len(body) \in Nat /\ k + 1 \in 1 .. Len(body)
      /\ k # 0 => v[k] = body[k] /\ body[k] \in Bytes
  <2>1. Len(body) \in Nat /\ \A i \in 1 .. k : body[i] \in Bytes
    BY LenProperties, ElementOfSeq
  <2>2. Len(v) = k /\ \A i \in 1 .. k : v[i] = body[i]
    BY <2>1, SubSeqProperties
  <2> QED
    BY <2>1, <2>2
<1>3. k + 1 \notin Boundaries(body)
  OBVIOUS
<1> HIDE DEF v, w, x, more, further
<1>4. ReadsOn(w, v, t)
  BY DEF v, w
<1>5. more # <<>> /\ (AfterCr(more) <=> x = "CR") /\ (AfterCr(further) <=> x = "CR")
  <2>1. \A u \in Seq(Bytes) : Append(u, x) # <<>> /\ Append(u, x)[Len(Append(u, x))] = x
    BY <1>1, AppendProperties
  <2>2. \A u \in Seq(Bytes) : AfterCr(Append(u, x)) <=> x = "CR"
    BY <2>1 DEF AfterCr
  <2> QED
    BY <1>1, <2>1, <2>2
<1>6. CASE x \notin {"CR", "LF"}
  <2>1. /\ Line(more) = Append(Line(v), x) /\ Lines(more) = Lines(v)
        /\ Line(further) = Append(Line(w), x)
        /\ Block(further) = Block(w) /\ Blocks(further) = Blocks(w)
    BY <1>1, <1>6, ReadByte
  <2> QED
    BY <1>4, <1>5, <2>1 DEF ReadsOn, more, further
<1>7. CASE x \in {"CR", "LF"}
  <2>1. k # 0
    <3>1. 1 <= Len(body)
      BY <1>2
    <3>2. k = 0 => 1 \notin Boundaries(body) /\ x = body[1]
      BY <1>3 DEF x
    <3> QED
      BY <1>7, <3>1, <3>2, FirstByte
  <2>2. v # <<>> /\ v[Len(v)] = body[k]
    BY <1>1, <1>2, <2>1, EmptySeq
  <2>3. AfterCr(v) <=> body[k] = "CR"
    BY <2>2 DEF AfterCr
  <2>4. AfterCr(w) <=> AfterCr(v)
    BY <1>4, <2>2 DEF ReadsOn
  <2>5. CASE x = "LF" /\ AfterCr(v)
    <3>1. /\ Line(more) = Line(v) /\ Lines(more) = Lines(v)
          /\ Line(further) = Line(w)
          /\ Block(further) = Block(w) /\ Blocks(further) = Blocks(w)
      BY <1>1, <2>4, <2>5, ReadSame
    <3> QED
      BY <1>4, <1>5, <3>1 DEF ReadsOn, more, further
  <2>6. CASE ~(x = "LF" /\ AfterCr(v))
    <3>1. Line(v) # <<>>
      <4>1. body[k] \notin {"CR", "LF"}
        <5>1. (k + 1) - 1 = k /\ k + 1 # 1
          BY <2>1
        <5>2. x = "CR" \/ ~(body[k] = "CR")
          BY <1>7, <2>3, <2>6
        <5> QED
          BY <1>2, <1>3, <1>7, <5>1, <5>2, BoundaryAt DEF x
      <4> QED
        BY <1>1, <2>2, <4>1, LineBegun
    <3>2. /\ Line(more) = <<>> /\ Lines(more) = Append(Lines(v), Line(v))
          /\ Line(further) = <<>>
          /\ Block(further) = Append(Block(w), Line(w)) /\ Blocks(further) = Blocks(w)
      <4>1. Line(w) # <<>>
        BY <1>4, <3>1 DEF ReadsOn
      <4> QED
        BY <1>1, <1>7, <2>4, <2>6, <4>1, ReadEnd
    <3> QED
      BY <1>4, <1>5, <3>2 DEF ReadsOn, more, further
  <2> QED
    BY <2>5, <2>6
<1> QED
  BY <1>6, <1>7

\* All the way to the first boundary.
LEMMA ReadingOn ==
    ASSUME NEW t \in Seq(Bytes), NEW body \in Seq(Bytes), Clear(t),
           NEW k \in 0 .. Len(body), \A b \in Boundaries(body) : b > k
    PROVE  ReadsOn(t \o SubSeq(body, 1, k), SubSeq(body, 1, k), t)
<1> DEFINE S == {n \in Nat : n <= k => ReadsOn(t \o SubSeq(body, 1, n), SubSeq(body, 1, n), t)}
<1>1. 0 \in S
  <2> DEFINE none == SubSeq(body, 1, 0)
  <2>1. none = <<>>
    BY SubSeqEmpty
  <2>2. t \o none = t
    BY <2>1, ConcatEmptySeq
  <2> HIDE DEF none
  <2>3. ReadsOn(t, none, t)
    BY <2>1, ReadNothing DEF ReadsOn, Clear
  <2> QED
    BY <2>2, <2>3 DEF none
<1>2. ASSUME NEW n \in Nat, n \in S PROVE n + 1 \in S
  <2>1. SUFFICES ASSUME n + 1 <= k
                 PROVE  ReadsOn(t \o SubSeq(body, 1, n + 1), SubSeq(body, 1, n + 1), t)
    OBVIOUS
  <2>2. Len(body) \in Nat /\ k \in Nat
    BY LenProperties
  <2>3. n < Len(body) /\ \A b \in Boundaries(body) : b > n + 1
    <3>1. \A b \in Boundaries(body) : b \in Nat
      BY BoundaryAt
    <3> QED
      BY <2>1, <2>2, <3>1
  <2>4. ReadsOn(t \o SubSeq(body, 1, n), SubSeq(body, 1, n), t)
    BY <1>2, <2>1, <2>2
  <2> HIDE DEF S
  <2> QED
    BY <2>3, <2>4, ReadsOnByte
<1> HIDE DEF S
<1>3. Nat \subseteq S
  BY <1>1, <1>2, SetInduction
<1>4. k \in Nat
  BY LenProperties
<1> QED
  BY <1>3, <1>4 DEF S

-----------------------------------------------------------------------------
(* Where a text is broken, and what two texts make of each other.          *)

Starts(w) == {1} \cup {Behind(w, b) : b \in Boundaries(w)}
LeastFrom(w, s, b) ==
    /\ b \in Boundaries(w) /\ b >= s
    /\ \A d \in Boundaries(w) : d >= s => d >= b
Unfit(w, s, b) == b - s > MaxEventBytes \/ ~Utf8(SubSeq(w, s, b - 1))
Unending(w, s) == (\A d \in Boundaries(w) : d < s) /\ Len(w) - s >= MaxEventBytes

\* The least of some positions.
LEMMA LeastPosition ==
    ASSUME NEW T \in SUBSET Nat, T # {}
    PROVE  Min(T) \in T /\ \A y \in T : Min(T) <= y
<1>1. \E x \in T : \A y \in T : x <= y
  BY LeastNatural
<1> QED
  BY <1>1 DEF Min

\* What is behind the end of a line.
LEMMA BehindAt ==
    ASSUME NEW t \in Seq(Bytes), NEW i \in 1 .. Len(t)
    PROVE  /\ Behind(t, i) = IF t[i] = "CR" /\ i < Len(t) /\ t[i + 1] = "LF"
                                 THEN i + 2 ELSE i + 1
           /\ Behind(t, i) \in Nat /\ Behind(t, i) <= Len(t) + 1
           /\ i < Behind(t, i) /\ i \in Nat /\ Len(t) \in Nat
<1>1. Len(t) \in Nat
  BY LenProperties
<1>2. Behind(t, i) = IF t[i] = "CR" /\ i < Len(t) /\ t[i + 1] = "LF" THEN i + 2 ELSE i + 1
  BY DEF Behind, CR, LF
<1> QED
  BY <1>1, <1>2

\* Every boundary and every start is a position.
LEMMA Positions ==
    ASSUME NEW w \in Seq(Bytes)
    PROVE  /\ Len(w) \in Nat /\ Boundaries(w) \subseteq 1 .. Len(w)
           /\ \A s \in Starts(w) : s \in Nat /\ 1 <= s /\ s <= Len(w) + 1
<1>1. Len(w) \in Nat /\ Boundaries(w) \subseteq 1 .. Len(w)
  BY BoundaryAt, LenProperties
<1>2. ASSUME NEW b \in Boundaries(w)
      PROVE  Behind(w, b) \in Nat /\ 1 <= Behind(w, b) /\ Behind(w, b) <= Len(w) + 1
  <2>1. b \in 1 .. Len(w)
    BY <1>1
  <2>2. Behind(w, b) \in Nat /\ Behind(w, b) <= Len(w) + 1 /\ b < Behind(w, b)
    BY <2>1, BehindAt
  <2> QED
    BY <1>1, <2>1, <2>2
<1> QED
  BY <1>1, <1>2 DEF Starts

\* A text is broken behind one of its starts.
LEMMA BrokenWhere ==
    ASSUME NEW w \in Seq(Bytes)
    PROVE  Broken(w) <=> \E s \in Starts(w) :
                                \/ \E b : LeastFrom(w, s, b) /\ Unfit(w, s, b)
                                \/ Unending(w, s)
<1> USE LimitFacts
<1> DEFINE Later(s) == {b \in Boundaries(w) : b >= s}
           End(s) == IF Later(s) = {} THEN Len(w) ELSE Min(Later(s)) - 1
           Bad(s) == \/ End(s) - s >= MaxEventBytes
                     \/ Later(s) # {} /\ ~Utf8(SubSeq(w, s, End(s)))
           Ill(s) == (\E b : LeastFrom(w, s, b) /\ Unfit(w, s, b)) \/ Unending(w, s)
<1>1. Broken(w) <=> \E s \in Starts(w) : Bad(s)
  BY DEF Broken, Starts
<1>2. ASSUME NEW s \in Starts(w) PROVE Bad(s) <=> Ill(s)
  <2>1. Len(w) \in Nat /\ s \in Nat /\ Boundaries(w) \subseteq Nat
    BY Positions
  <2>2. CASE Later(s) = {}
    <3>1. \A d \in Boundaries(w) : d < s
      BY <2>1, <2>2
    <3>2. ~ \E b : LeastFrom(w, s, b)
      BY <2>2 DEF LeastFrom
    <3>3. End(s) = Len(w)
      BY <2>2
    <3> HIDE DEF End, Later
    <3> QED
      BY <2>2, <3>1, <3>2, <3>3 DEF Unending
  <2>3. CASE Later(s) # {}
    <3> DEFINE m == Min(Later(s))
    <3>1. m \in Later(s) /\ \A y \in Later(s) : m <= y
      <4>1. Later(s) \in SUBSET Nat
        BY <2>1
      <4> HIDE DEF Later
      <4> QED
        BY <2>3, <4>1, LeastPosition
    <3>2. m \in Nat /\ LeastFrom(w, s, m)
      BY <2>1, <3>1 DEF LeastFrom
    <3>3. \A b : LeastFrom(w, s, b) => b = m
      <4>1. SUFFICES ASSUME NEW b, LeastFrom(w, s, b) PROVE b = m
        OBVIOUS
      <4>2. b \in Later(s) /\ b \in Nat /\ m >= b
        BY <2>1, <3>1, <4>1 DEF LeastFrom
      <4>3. m <= b
        BY <3>1, <4>2
      <4> HIDE DEF m
      <4> QED
        BY <3>2, <4>2, <4>3
    <3>4. ~ Unending(w, s)
      BY <2>1, <3>1 DEF Unending
    <3>5. End(s) = m - 1
      BY <2>3
    <3> HIDE DEF m, Later, End
    <3>6. Bad(s) <=> Unfit(w, s, m)
      BY <2>1, <2>3, <3>2, <3>5 DEF Unfit
    <3> HIDE DEF Bad
    <3> QED
      BY <3>2, <3>3, <3>4, <3>6
  <2> QED
    BY <2>2, <2>3
<1> HIDE DEF Bad
<1> QED
  BY <1>1, <1>2

\* Whether the second of two texts begins in the middle of a line end.
Torn(c, r) == AfterCr(c) /\ r # <<>> /\ r[1] = "LF"

\* The two texts, position by position.
LEMMA JoinedAt ==
    ASSUME NEW c \in Seq(Bytes), NEW r \in Seq(Bytes)
    PROVE  /\ c \o r \in Seq(Bytes) /\ Len(c \o r) = Len(c) + Len(r)
           /\ Len(c) \in Nat /\ Len(r) \in Nat
           /\ \A i \in 1 .. Len(c) : (c \o r)[i] = c[i]
           /\ \A j \in 1 .. Len(r) : (c \o r)[Len(c) + j] = r[j]
           /\ (c = <<>> <=> Len(c) = 0) /\ (r = <<>> <=> Len(r) = 0)
           /\ AfterCr(c) <=> Len(c) # 0 /\ c[Len(c)] = "CR"
           /\ Torn(c, r) <=> Len(c) # 0 /\ c[Len(c)] = "CR" /\ Len(r) # 0 /\ r[1] = "LF"
<1> DEFINE w == c \o r
           M == Len(c)
           N == Len(r)
<1>1. /\ w \in Seq(Bytes) /\ Len(w) = M + N /\ M \in Nat /\ N \in Nat
      /\ \A i \in 1 .. M + N : w[i] = IF i <= M THEN c[i] ELSE r[i - M]
  BY ConcatProperties, LenProperties
<1>2. (c = <<>> <=> M = 0) /\ (r = <<>> <=> N = 0)
  BY EmptySeq
<1> HIDE DEF w, M, N
<1>3. \A i \in 1 .. M : w[i] = c[i]
  BY <1>1
<1>4. \A j \in 1 .. N : w[M + j] = r[j]
  <2>1. SUFFICES ASSUME NEW j \in 1 .. N PROVE w[M + j] = r[j]
    OBVIOUS
  <2>2. M + j \in 1 .. M + N /\ ~(M + j <= M) /\ (M + j) - M = j
    BY <1>1
  <2> QED
    BY <1>1, <2>2
<1>5. (AfterCr(c) <=> M # 0 /\ c[M] = "CR")
      /\ (Torn(c, r) <=> M # 0 /\ c[M] = "CR" /\ N # 0 /\ r[1] = "LF")
  BY <1>2 DEF AfterCr, Torn, M
<1> QED
  BY <1>1, <1>2, <1>3, <1>4, <1>5 DEF w, M, N

\* The boundaries of both are those of the whole, but for an LF behind its CR.
LEMMA JoinedBoundaries ==
    ASSUME NEW c \in Seq(Bytes), NEW r \in Seq(Bytes), c = <<>> \/ c[Len(c)] \in {"CR", "LF"}
    PROVE  /\ \A i \in 1 .. Len(c) : i \in Boundaries(c \o r) <=> i \in Boundaries(c)
           /\ \A j \in 1 .. Len(r) :
                 Len(c) + j \in Boundaries(c \o r)
                    <=> j \in Boundaries(r) /\ ~(j = 1 /\ Torn(c, r))
<1> DEFINE w == c \o r
           M == Len(c)
           N == Len(r)
           At(t, L, i) == /\ i \in 1 .. L /\ t[i] \in {"CR", "LF"}
                          /\ t[i] = "CR" \/ ~(i > 1 /\ t[i - 1] = "CR")
                          /\ i = 1 \/ t[i - 1] \in {"CR", "LF"}
<1>1. /\ w \in Seq(Bytes) /\ Len(w) = M + N /\ M \in Nat /\ N \in Nat
      /\ \A i \in 1 .. M : w[i] = c[i]
      /\ \A j \in 1 .. N : w[M + j] = r[j]
      /\ c = <<>> <=> M = 0
      /\ Torn(c, r) <=> M # 0 /\ c[M] = "CR" /\ N # 0 /\ r[1] = "LF"
  BY JoinedAt
<1>2. \A i : /\ i \in Boundaries(w) <=> At(w, M + N, i)
             /\ i \in Boundaries(c) <=> At(c, M, i)
             /\ i \in Boundaries(r) <=> At(r, N, i)
  <2> HIDE DEF w
  <2> QED
    BY <1>1, BoundaryAt
<1>3. c = <<>> \/ c[M] \in {"CR", "LF"}
  OBVIOUS
<1> HIDE DEF w, M, N
<1>4. ASSUME NEW i \in 1 .. M PROVE At(w, M + N, i) <=> At(c, M, i)
  <2>1. w[i] = c[i] /\ (i # 1 => w[i - 1] = c[i - 1]) /\ i \in 1 .. M + N
    <3>1. i # 1 => i - 1 \in 1 .. M
      BY <1>1
    <3> QED
      BY <1>1, <3>1
  <2>2. i > 1 <=> i # 1
    BY <1>1
  <2> QED
    BY <2>1, <2>2
<1>5. ASSUME NEW j \in 1 .. N, j # 1 PROVE At(w, M + N, M + j) <=> At(r, N, j)
  <2>1. j - 1 \in 1 .. N /\ (M + j) - 1 = M + (j - 1)
    BY <1>1, <1>5
  <2>2. w[M + j] = r[j] /\ w[(M + j) - 1] = r[j - 1]
    BY <1>1, <2>1
  <2>3. M + j \in 1 .. M + N /\ M + j > 1 /\ j > 1 /\ M + j # 1
    BY <1>1, <1>5
  <2> QED
    BY <1>5, <2>2, <2>3
<1>6. ASSUME 1 \in 1 .. N
      PROVE  At(w, M + N, M + 1) <=> At(r, N, 1) /\ ~Torn(c, r)
  <2>1. w[M + 1] = r[1] /\ (M + 1) - 1 = M /\ M + 1 \in 1 .. M + N /\ N # 0
    BY <1>1, <1>6
  <2>2. (M + 1 > 1 <=> M # 0) /\ (M + 1 = 1 <=> M = 0)
    BY <1>1
  <2>3. M # 0 => w[M] = c[M] /\ c[M] \in {"CR", "LF"}
    BY <1>1, <1>3
  <2>4. At(r, N, 1) <=> r[1] \in {"CR", "LF"}
    BY <1>6
  <2>5. At(w, M + N, M + 1) <=> /\ r[1] \in {"CR", "LF"}
                                /\ r[1] = "CR" \/ ~(M # 0 /\ w[M] = "CR")
                                /\ M = 0 \/ w[M] \in {"CR", "LF"}
    BY <2>1, <2>2
  <2> QED
    BY <1>1, <2>1, <2>3, <2>4, <2>5
<1>7. \A j \in 1 .. N : M + j \in Boundaries(w)
                           <=> j \in Boundaries(r) /\ ~(j = 1 /\ Torn(c, r))
  BY <1>2, <1>5, <1>6
<1> QED
  BY <1>2, <1>4, <1>7 DEF w, M, N

\* What is behind the end of a line, in the whole text.
LEMMA JoinedBehind ==
    ASSUME NEW c \in Seq(Bytes), NEW r \in Seq(Bytes)
    PROVE  /\ \A i \in 1 .. Len(c) :
                 Behind(c \o r, i)
                    = IF i = Len(c) /\ Torn(c, r) THEN i + 2 ELSE Behind(c, i)
           /\ \A j \in 1 .. Len(r) : Behind(c \o r, Len(c) + j) = Len(c) + Behind(r, j)
<1> DEFINE w == c \o r
           M == Len(c)
           N == Len(r)
           At(t, L, i) == IF t[i] = "CR" /\ i < L /\ t[i + 1] = "LF" THEN i + 2 ELSE i + 1
<1>1. /\ w \in Seq(Bytes) /\ Len(w) = M + N /\ M \in Nat /\ N \in Nat
      /\ \A i \in 1 .. M : w[i] = c[i]
      /\ \A j \in 1 .. N : w[M + j] = r[j]
      /\ Torn(c, r) <=> M # 0 /\ c[M] = "CR" /\ N # 0 /\ r[1] = "LF"
  BY JoinedAt
<1>2. /\ \A i \in 1 .. M + N : Behind(w, i) = At(w, M + N, i)
      /\ \A i \in 1 .. M : Behind(c, i) = At(c, M, i)
      /\ \A i \in 1 .. N : Behind(r, i) = At(r, N, i)
  <2> HIDE DEF w
  <2> QED
    BY <1>1, BehindAt
<1> HIDE DEF w, M, N
<1>3. ASSUME NEW i \in 1 .. M
      PROVE  At(w, M + N, i) = IF i = M /\ Torn(c, r) THEN i + 2 ELSE At(c, M, i)
  <2>1. w[i] = c[i] /\ i \in Nat
    BY <1>1
  <2>2. CASE i < M
    <3>1. i + 1 \in 1 .. M /\ i < M + N /\ i # M
      BY <1>1, <2>2
    <3>2. w[i + 1] = c[i + 1]
      BY <1>1, <3>1
    <3> QED
      BY <2>1, <2>2, <3>1, <3>2
  <2>3. CASE i = M
    <3>1. At(c, M, i) = i + 1
      BY <1>1, <2>3
    <3>2. i < M + N <=> N # 0
      BY <1>1, <2>3
    <3>3. N # 0 => w[i + 1] = r[1]
      BY <1>1, <2>3
    <3> QED
      BY <1>1, <2>1, <2>3, <3>1, <3>2, <3>3
  <2> QED
    BY <1>1, <2>2, <2>3
<1>4. ASSUME NEW j \in 1 .. N PROVE At(w, M + N, M + j) = M + At(r, N, j)
  <2>1. w[M + j] = r[j] /\ (M + j < M + N <=> j < N)
    BY <1>1
  <2>2. j < N => w[(M + j) + 1] = r[j + 1]
    <3>1. j < N => j + 1 \in 1 .. N /\ (M + j) + 1 = M + (j + 1)
      BY <1>1
    <3> QED
      BY <1>1, <3>1
  <2>3. (M + j) + 2 = M + (j + 2) /\ (M + j) + 1 = M + (j + 1)
    BY <1>1
  <2> QED
    BY <2>1, <2>2, <2>3
<1>5. \A i \in 1 .. M : i \in 1 .. M + N
  BY <1>1
<1>6. \A j \in 1 .. N : M + j \in 1 .. M + N
  BY <1>1
<1>7. \A i \in 1 .. M : Behind(w, i) = IF i = M /\ Torn(c, r) THEN i + 2 ELSE Behind(c, i)
  BY <1>2, <1>3, <1>5
<1>8. \A j \in 1 .. N : Behind(w, M + j) = M + Behind(r, j)
  BY <1>2, <1>4, <1>6
<1> QED
  BY <1>7, <1>8 DEF w, M, N

-----------------------------------------------------------------------------
(* What was decoded: a text that its last boundary ends, and that is not   *)
(* broken.                                                                 *)

Settled(c) ==
    /\ c \in Seq(Bytes)
    /\ c = <<>> \/ (c[Len(c)] \in {"CR", "LF"}
                    /\ \E b \in Boundaries(c) : Behind(c, b) = Len(c) + 1)
    /\ ~Broken(c)

\* Nothing is settled.
LEMMA SettledEmpty == Settled(<<>>)
<1> DEFINE none == <<>>
<1> USE LimitFacts
<1>1. SUFFICES ~Broken(none)
  BY EmptySeq DEF Settled
<1>2. none \in Seq(Bytes) /\ Len(none) = 0
  BY EmptySeq
<1> HIDE DEF none
<1>3. Boundaries(none) = {}
  <2>1. Boundaries(none) \subseteq 1 .. Len(none)
    BY <1>2, Positions
  <2> QED
    BY <1>2, <2>1
<1>4. \A s \in Starts(none) : s = 1
  BY <1>3 DEF Starts
<1>5. \A s \in Starts(none) : ~Unending(none, s) /\ \A b : ~LeastFrom(none, s, b)
  BY <1>1, <1>2, <1>3, <1>4 DEF Unending, LeastFrom
<1> QED
  BY <1>1, <1>2, <1>5, BrokenWhere

\* Every start of a settled text, but for the one behind it, has a boundary behind it.
LEMMA SettledStarts ==
    ASSUME NEW c, Settled(c)
    PROVE  /\ \A s \in Starts(c) : s <= Len(c) => \E d \in Boundaries(c) : d >= s
           /\ \A d \in Boundaries(c) :
                 AfterCr(c) /\ d # Len(c) => Behind(c, d) # Len(c) + 1
<1> DEFINE M == Len(c)
<1>1. /\ c \in Seq(Bytes) /\ M \in Nat /\ Boundaries(c) \subseteq 1 .. M
      /\ (c = <<>> <=> M = 0)
      /\ \A s \in Starts(c) : s \in Nat /\ 1 <= s
      /\ c = <<>> \/ (c[M] \in {"CR", "LF"}
                      /\ \E b \in Boundaries(c) : Behind(c, b) = M + 1)
  BY Positions, EmptySeq DEF Settled
<1>2. \A i \in 1 .. M : Behind(c, i) = IF c[i] = "CR" /\ i < M /\ c[i + 1] = "LF"
                                           THEN i + 2 ELSE i + 1
  BY <1>1, BehindAt
<1> HIDE DEF M
<1>3. ASSUME NEW i \in 1 .. M, Behind(c, i) = M + 1
      PROVE  i = M \/ (i = M - 1 /\ c[i] = "CR" /\ c[M] = "LF")
  <2>1. CASE c[i] = "CR" /\ i < M /\ c[i + 1] = "LF"
    <3>1. i + 2 = M + 1
      BY <1>2, <1>3, <2>1
    <3>2. i = M - 1 /\ i + 1 = M
      BY <1>1, <3>1
    <3> QED
      BY <2>1, <3>2
  <2>2. CASE ~(c[i] = "CR" /\ i < M /\ c[i + 1] = "LF")
    <3>1. i + 1 = M + 1
      BY <1>2, <1>3, <2>2
    <3> QED
      BY <1>1, <3>1
  <2> QED
    BY <2>1, <2>2
<1>4. ASSUME NEW s \in Starts(c), s <= M PROVE \E d \in Boundaries(c) : d >= s
  <2>1. s \in Nat /\ 1 <= s
    BY <1>1
  <2>2. M # 0
    BY <1>1, <1>4, <2>1
  <2>3. PICK b \in Boundaries(c) : Behind(c, b) = M + 1
    BY <1>1, <2>2
  <2>4. b \in 1 .. M /\ (b = M \/ (b = M - 1 /\ c[b] = "CR" /\ c[M] = "LF"))
    BY <1>1, <1>3, <2>3
  <2>5. CASE b = M
    BY <1>1, <1>4, <2>1, <2>3, <2>5
  <2>6. CASE b = M - 1 /\ c[b] = "CR" /\ c[M] = "LF"
    <3>1. s # M
      <4>1. SUFFICES ASSUME s = M PROVE FALSE
        OBVIOUS
      <4>2. s # 1
        BY <1>1, <2>4, <2>6, <4>1
      <4>3. PICK d \in Boundaries(c) : s = Behind(c, d)
        BY <4>2 DEF Starts
      <4>4. d \in 1 .. M /\ d \in Nat
        BY <1>1, <4>3
      <4>5. CASE c[d] = "CR" /\ d < M /\ c[d + 1] = "LF"
        <5>1. d + 2 = M
          BY <1>2, <4>1, <4>3, <4>4, <4>5
        <5>2. d + 1 = b
          BY <1>1, <2>6, <4>4, <5>1
        <5> QED
          BY <2>6, <4>5, <5>2
      <4>6. CASE ~(c[d] = "CR" /\ d < M /\ c[d + 1] = "LF")
        <5>1. d + 1 = M
          BY <1>2, <4>1, <4>3, <4>4, <4>6
        <5>2. d = b
          BY <1>1, <2>6, <4>4, <5>1
        <5> QED
          BY <1>1, <2>6, <4>4, <4>6, <5>1, <5>2
      <4> QED
        BY <4>5, <4>6
    <3> QED
      BY <1>1, <1>4, <2>1, <2>3, <2>6, <3>1
  <2> QED
    BY <2>4, <2>5, <2>6
<1>5. ASSUME NEW d \in Boundaries(c), AfterCr(c), d # M PROVE Behind(c, d) # M + 1
  <2>1. d \in 1 .. M /\ c[M] = "CR"
    BY <1>1, <1>5 DEF AfterCr, M
  <2> QED
    BY <1>3, <1>5, <2>1
<1> QED
  BY <1>4, <1>5 DEF M

\* Where a text starts that goes on behind a settled one.
LEMMA JoinedStarts ==
    ASSUME NEW c, Settled(c), NEW r \in Seq(Bytes)
    PROVE  /\ \A s \in Starts(c \o r) :
                 \/ s <= Len(c) /\ s \in Starts(c)
                 \/ s = Len(c) + 1 /\ ~Torn(c, r)
                 \/ s = Len(c) + 2 /\ Torn(c, r)
                 \/ \E j \in Boundaries(r) :
                       ~(j = 1 /\ Torn(c, r)) /\ s = Len(c) + Behind(r, j)
           /\ ~Torn(c, r) => Len(c) + 1 \in Starts(c \o r)
<1> DEFINE w == c \o r
           M == Len(c)
           N == Len(r)
<1>0. c \in Seq(Bytes) /\ (c = <<>> \/ c[Len(c)] \in {"CR", "LF"})
  BY DEF Settled
<1>1. /\ w \in Seq(Bytes) /\ Len(w) = M + N /\ M \in Nat /\ N \in Nat
      /\ (c = <<>> <=> M = 0) /\ (Torn(c, r) => M # 0 /\ AfterCr(c))
  BY <1>0, JoinedAt DEF Torn
<1>2. /\ \A i \in 1 .. M : i \in Boundaries(w) <=> i \in Boundaries(c)
      /\ \A j \in 1 .. N : M + j \in Boundaries(w)
                              <=> j \in Boundaries(r) /\ ~(j = 1 /\ Torn(c, r))
  BY <1>0, JoinedBoundaries
<1>3. /\ \A i \in 1 .. M : Behind(w, i)
                              = IF i = M /\ Torn(c, r) THEN i + 2 ELSE Behind(c, i)
      /\ \A j \in 1 .. N : Behind(w, M + j) = M + Behind(r, j)
  BY <1>0, JoinedBehind
<1>4. \A s \in Starts(c) : s \in Nat /\ s <= M + 1
  BY <1>0, Positions
<1>5. Boundaries(w) \subseteq 1 .. M + N /\ Boundaries(c) \subseteq 1 .. M
  <2> HIDE DEF w
  <2> QED
    BY <1>0, <1>1, Positions
<1>6. \A d \in Boundaries(c) : AfterCr(c) /\ d # M => Behind(c, d) # M + 1
  BY SettledStarts
<1>7. c = <<>> \/ \E b \in Boundaries(c) : Behind(c, b) = M + 1
  BY DEF Settled
<1> HIDE DEF w, M, N
<1>8. ASSUME NEW s \in Starts(w)
      PROVE  \/ s <= M /\ s \in Starts(c)
             \/ s = M + 1 /\ ~Torn(c, r)
             \/ s = M + 2 /\ Torn(c, r)
             \/ \E j \in Boundaries(r) :
                   ~(j = 1 /\ Torn(c, r)) /\ s = M + Behind(r, j)
  <2>1. CASE s = 1
    <3>1. s \in Starts(c)
      BY <2>1 DEF Starts
    <3>2. M = 0 => ~Torn(c, r)
      BY <1>1
    <3>3. M = 0 => s = M + 1
      BY <2>1
    <3>4. M # 0 => s <= M
      BY <1>1, <2>1
    <3> QED
      BY <3>1, <3>2, <3>3, <3>4
  <2>2. ASSUME NEW b \in Boundaries(w), s = Behind(w, b), b \in 1 .. M
        PROVE  \/ s <= M /\ s \in Starts(c)
               \/ s = M + 1 /\ ~Torn(c, r)
               \/ s = M + 2 /\ Torn(c, r)
    <3>1. b \in Boundaries(c)
      BY <1>2, <2>2
    <3>2. CASE b = M /\ Torn(c, r)
      BY <1>3, <2>2, <3>2
    <3>3. CASE ~(b = M /\ Torn(c, r))
      <4>1. s = Behind(c, b) /\ s \in Starts(c)
        BY <1>3, <2>2, <3>1, <3>3 DEF Starts
      <4>2. s \in Nat /\ s <= M + 1
        BY <1>4, <4>1
      <4>3. s = M + 1 => ~Torn(c, r)
        BY <1>1, <1>6, <3>1, <3>3, <4>1
      <4>4. s <= M \/ s = M + 1
        BY <1>1, <4>2
      <4> QED
        BY <4>1, <4>3, <4>4
    <3> QED
      BY <3>2, <3>3
  <2>3. ASSUME NEW b \in Boundaries(w), s = Behind(w, b), b \notin 1 .. M
        PROVE  \E j \in Boundaries(r) : ~(j = 1 /\ Torn(c, r)) /\ s = M + Behind(r, j)
    <3> DEFINE j == b - M
    <3>1. j \in 1 .. N /\ b = M + j
      BY <1>1, <1>5, <2>3
    <3> HIDE DEF j
    <3>2. j \in Boundaries(r) /\ ~(j = 1 /\ Torn(c, r))
      BY <1>2, <3>1
    <3>3. s = M + Behind(r, j)
      BY <1>3, <2>3, <3>1
    <3> QED
      BY <3>2, <3>3
  <2> QED
    BY <2>1, <2>2, <2>3 DEF Starts
<1>9. ASSUME ~Torn(c, r) PROVE M + 1 \in Starts(w)
  <2>1. CASE c = <<>>
    <3>1. M + 1 = 1
      BY <1>1, <2>1
    <3> QED
      BY <3>1 DEF Starts
  <2>2. CASE c # <<>>
    <3>1. PICK b \in Boundaries(c) : Behind(c, b) = M + 1
      BY <1>7, <2>2
    <3>2. b \in 1 .. M
      BY <1>5
    <3>3. b \in Boundaries(w) /\ Behind(w, b) = M + 1
      BY <1>2, <1>3, <1>9, <3>1, <3>2
    <3> QED
      BY <3>3 DEF Starts
  <2> QED
    BY <2>1, <2>2
<1> QED
  BY <1>8, <1>9 DEF w, M

\* What starts in a settled text is as well formed as it was, whatever follows.
LEMMA OldStarts ==
    ASSUME NEW c, Settled(c), NEW r \in Seq(Bytes),
           NEW s \in Starts(c), s <= Len(c)
    PROVE  ~Unending(c \o r, s) /\ \A b : LeastFrom(c \o r, s, b) => ~Unfit(c \o r, s, b)
<1> USE LimitFacts
<1> DEFINE w == c \o r
           M == Len(c)
<1>0. c \in Seq(Bytes) /\ (c = <<>> \/ c[Len(c)] \in {"CR", "LF"}) /\ ~Broken(c)
  BY DEF Settled
<1>1. w \in Seq(Bytes) /\ M \in Nat /\ s \in Nat /\ 1 <= s
  BY <1>0, JoinedAt, Positions
<1>2. \A i \in 1 .. M : i \in Boundaries(w) <=> i \in Boundaries(c)
  BY <1>0, JoinedBoundaries
<1>3. Boundaries(c) \subseteq 1 .. M /\ Boundaries(w) \subseteq Nat \ {0}
  <2> HIDE DEF w
  <2> QED
    BY <1>0, <1>1, Positions
<1>4. PICK d \in Boundaries(c) : d >= s
  BY SettledStarts
<1>5. s <= M
  OBVIOUS
<1> HIDE DEF w, M
<1>6. ~Unending(w, s)
  <2>1. d \in Boundaries(w) /\ d \in Nat
    BY <1>2, <1>3, <1>4
  <2> QED
    BY <1>1, <1>4, <2>1 DEF Unending
<1>7. ASSUME NEW b, LeastFrom(w, s, b), Unfit(w, s, b) PROVE FALSE
  <2>1. b \in Boundaries(w) /\ b >= s /\ \A e \in Boundaries(w) : e >= s => e >= b
    BY <1>7 DEF LeastFrom
  <2>2. b \in 1 .. M
    <3>1. d \in Boundaries(w) /\ d \in 1 .. M
      BY <1>2, <1>3, <1>4
    <3>2. d >= b /\ b \in Nat \ {0}
      BY <1>3, <1>4, <2>1, <3>1
    <3> QED
      BY <1>1, <3>1, <3>2
  <2>3. LeastFrom(c, s, b)
    <3>1. b \in Boundaries(c)
      BY <1>2, <2>1, <2>2
    <3>2. \A e \in Boundaries(c) : e \in Boundaries(w)
      BY <1>2, <1>3
    <3> QED
      BY <2>1, <3>1, <3>2 DEF LeastFrom
  <2>4. SubSeq(w, s, b - 1) = SubSeq(c, s, b - 1)
    <3>1. CASE b = s
      <4>1. b - 1 < s /\ b - 1 \in Int /\ s \in Int
        BY <1>1, <2>2, <3>1
      <4> DEFINE k == b - 1
      <4> HIDE DEF k
      <4>2. SubSeq(w, s, k) = <<>> /\ SubSeq(c, s, k) = <<>>
        BY <4>1, SubSeqEmpty DEF k
      <4> QED
        BY <4>2 DEF k
    <3>2. CASE b # s
      <4> DEFINE k == b - 1
      <4>1. s \in 1 .. M /\ k \in 1 .. M
        BY <1>1, <1>5, <2>1, <2>2, <3>2
      <4> HIDE DEF k
      <4>2. SubSeq(c \o r, s, k) = SubSeq(c, s, k)
        BY <1>0, <4>1, SubSeqOfConcat1 DEF M
      <4> QED
        BY <4>2 DEF k, w
    <3> QED
      BY <3>1, <3>2
  <2>5. Unfit(c, s, b)
    BY <1>7, <2>4 DEF Unfit
  <2> QED
    BY <1>0, <2>3, <2>5, BrokenWhere
<1> QED
  BY <1>6, <1>7 DEF w

\* What starts behind a settled text is what the rest starts with.
LEMMA NewStart ==
    ASSUME NEW c, Settled(c), NEW r \in Seq(Bytes),
           NEW e, LeastFrom(r, 1, e), ~Torn(c, r)
    PROVE  /\ LeastFrom(c \o r, Len(c) + 1, Len(c) + e)
           /\ \A b : LeastFrom(c \o r, Len(c) + 1, b) => b = Len(c) + e
           /\ Unfit(c \o r, Len(c) + 1, Len(c) + e) <=> Unfit(r, 1, e)
<1> USE LimitFacts
<1> DEFINE w == c \o r
           M == Len(c)
           N == Len(r)
<1>0. c \in Seq(Bytes) /\ (c = <<>> \/ c[Len(c)] \in {"CR", "LF"})
  BY DEF Settled
<1>1. w \in Seq(Bytes) /\ Len(w) = M + N /\ M \in Nat /\ N \in Nat
  BY <1>0, JoinedAt
<1>2. \A j \in 1 .. N : M + j \in Boundaries(w) <=> j \in Boundaries(r)
  <2>1. \A j \in 1 .. N : M + j \in Boundaries(w)
                             <=> j \in Boundaries(r) /\ ~(j = 1 /\ Torn(c, r))
    BY <1>0, JoinedBoundaries
  <2> HIDE DEF w, M, N
  <2> QED
    BY <2>1
<1>3. Boundaries(r) \subseteq 1 .. N /\ Boundaries(w) \subseteq 1 .. M + N
  <2> HIDE DEF w
  <2> QED
    BY <1>1, Positions
<1>4. e \in Boundaries(r) /\ e \in 1 .. N /\ \A d \in Boundaries(r) : d >= e
  <2>1. \A d \in Boundaries(r) : d >= 1
    BY <1>3
  <2> QED
    BY <1>3, <2>1 DEF LeastFrom
<1>5. SubSeq(w, M + 1, (M + e) - 1) = SubSeq(r, 1, e - 1)
  <2>1. CASE e = 1
    <3> DEFINE m == M + 1
               n == (M + e) - 1
               k == e - 1
               one == 1
    <3>1. n < m /\ k < one /\ n \in Int /\ m \in Int /\ k \in Int /\ one \in Int
      BY <1>1, <2>1
    <3> HIDE DEF m, n, k, one, w
    <3>2. SubSeq(w, m, n) = <<>> /\ SubSeq(r, one, k) = <<>>
      BY <3>1, SubSeqEmpty
    <3> QED
      BY <3>2 DEF m, n, k, one
  <2>2. CASE e # 1
    <3> DEFINE m == M + 1
               n == (M + e) - 1
    <3>1. m \in M + 1 .. M + N /\ n \in M + 1 .. M + N /\ m - M = 1 /\ n - M = e - 1
      <4> HIDE DEF M, N
      <4> QED
        BY <1>1, <1>4, <2>2
    <3> HIDE DEF m, n
    <3>2. SubSeq(c \o r, m, n) = SubSeq(r, m - Len(c), n - Len(c))
      BY <1>0, <3>1, SubSeqOfConcat2
    <3> QED
      BY <3>1, <3>2 DEF m, n
  <2> QED
    BY <2>1, <2>2
<1> HIDE DEF w, M, N
<1>6. LeastFrom(w, M + 1, M + e)
  <2>1. M + e \in Boundaries(w) /\ M + e >= M + 1
    BY <1>1, <1>2, <1>4
  <2>2. ASSUME NEW d \in Boundaries(w), d >= M + 1 PROVE d >= M + e
    <3> DEFINE j == d - M
    <3>1. j \in 1 .. N /\ d = M + j
      BY <1>1, <1>3, <2>2
    <3> HIDE DEF j
    <3>2. j >= e
      BY <1>2, <1>4, <3>1
    <3> QED
      BY <1>1, <1>4, <3>1, <3>2
  <2> QED
    BY <2>1, <2>2 DEF LeastFrom
<1>7. \A b : LeastFrom(w, M + 1, b) => b = M + e
  <2>1. SUFFICES ASSUME NEW b, LeastFrom(w, M + 1, b) PROVE b = M + e
    OBVIOUS
  <2>2. b >= M + e /\ M + e >= b
    BY <1>6, <2>1 DEF LeastFrom
  <2>3. b \in Nat /\ M + e \in Nat
    BY <1>1, <1>3, <1>4, <2>1 DEF LeastFrom
  <2> QED
    BY <2>2, <2>3
<1>8. Unfit(w, M + 1, M + e) <=> Unfit(r, 1, e)
  <2>1. (M + e) - (M + 1) = e - 1
    BY <1>1, <1>4
  <2> QED
    BY <1>5, <2>1 DEF Unfit
<1> QED
  BY <1>6, <1>7, <1>8 DEF w, M

\* A rest that begins with no line end is not torn off.
LEMMA NotTorn ==
    ASSUME NEW c, NEW r \in Seq(Bytes), 1 \notin Boundaries(r)
    PROVE  ~Torn(c, r)
<1>1. r # <<>> => 1 <= Len(r)
  BY EmptySeq
<1> QED
  BY <1>1, FirstByte DEF Torn

\* An unfinished block breaks the text if it is too long, and not otherwise.
LEMMA RestTurn ==
    ASSUME NEW c, Settled(c), NEW r \in Seq(Bytes),
           Boundaries(r) = {}
    PROVE  Broken(c \o r) <=> Len(r) > MaxEventBytes
<1> USE LimitFacts
<1> DEFINE w == c \o r
           M == Len(c)
           N == Len(r)
<1>0. c \in Seq(Bytes) /\ (c = <<>> \/ c[Len(c)] \in {"CR", "LF"}) /\ ~Torn(c, r)
  <2>1. ~Torn(c, r)
    BY NotTorn
  <2> QED
    BY <2>1 DEF Settled
<1>1. w \in Seq(Bytes) /\ Len(w) = M + N /\ M \in Nat /\ N \in Nat
  BY <1>0, JoinedAt
<1>2. \A j \in 1 .. N : M + j \notin Boundaries(w)
  BY <1>0, JoinedBoundaries
<1>3. Boundaries(w) \subseteq 1 .. M + N
  <2> HIDE DEF w
  <2> QED
    BY <1>1, Positions
<1>4. \A s \in Starts(w) : (s <= M /\ s \in Starts(c)) \/ s = M + 1
  BY <1>0, JoinedStarts
<1>5. M + 1 \in Starts(w)
  BY <1>0, JoinedStarts
<1>6. \A s \in Starts(c) : s <= M =>
         ~Unending(w, s) /\ \A b : LeastFrom(w, s, b) => ~Unfit(w, s, b)
  BY OldStarts
<1> HIDE DEF w, M, N
<1>7. \A d \in Boundaries(w) : d < M + 1
  <2>1. SUFFICES ASSUME NEW d \in Boundaries(w), ~(d < M + 1) PROVE FALSE
    OBVIOUS
  <2> DEFINE j == d - M
  <2>2. j \in 1 .. N /\ d = M + j
    BY <1>1, <1>3, <2>1
  <2> HIDE DEF j
  <2> QED
    BY <1>2, <2>2
<1>8. Unending(w, M + 1) <=> N > MaxEventBytes
  <2>1. Len(w) - (M + 1) >= MaxEventBytes <=> N > MaxEventBytes
    BY <1>1
  <2> QED
    BY <1>7, <2>1 DEF Unending
<1>9. \A b : ~LeastFrom(w, M + 1, b)
  <2>1. SUFFICES ASSUME NEW b, LeastFrom(w, M + 1, b) PROVE FALSE
    OBVIOUS
  <2>2. b \in Boundaries(w) /\ b >= M + 1
    BY <2>1 DEF LeastFrom
  <2>3. b \in Nat /\ b < M + 1
    BY <1>3, <1>7, <2>2
  <2> QED
    BY <1>1, <2>2, <2>3
<1>10. Broken(w) <=> N > MaxEventBytes
  <2>1. Broken(w) <=> \E s \in Starts(w) :
                             \/ \E b : LeastFrom(w, s, b) /\ Unfit(w, s, b)
                             \/ Unending(w, s)
    BY <1>1, BrokenWhere
  <2> QED
    BY <1>4, <1>5, <1>6, <1>8, <1>9, <2>1
<1> QED
  BY <1>10 DEF w, N

\* A finished block that is too long, or no text, breaks the text.
LEMMA UnfitTurn ==
    ASSUME NEW c, Settled(c), NEW r \in Seq(Bytes),
           NEW e, LeastFrom(r, 1, e), Unfit(r, 1, e)
    PROVE  Broken(c \o r)
<1> USE LimitFacts
<1>0. c \in Seq(Bytes) /\ c \o r \in Seq(Bytes) /\ Len(c) \in Nat
  <2>1. c \in Seq(Bytes)
    BY DEF Settled
  <2> QED
    BY <2>1, JoinedAt
<1>1. e # 1
  <2>1. SUFFICES ASSUME e = 1 PROVE FALSE
    OBVIOUS
  <2> DEFINE one == 1
             zero == one - 1
  <2>2. SubSeq(r, one, zero) = <<>>
    <3>1. zero < one /\ zero \in Int /\ one \in Int
      OBVIOUS
    <3> HIDE DEF one, zero
    <3> QED
      BY <3>1, SubSeqEmpty
  <2>3. Utf8(<<>>)
    BY DEF Utf8
  <2>4. one - one = 0 /\ ~(0 > MaxEventBytes)
    OBVIOUS
  <2>5. Unfit(r, one, one)
    BY <2>1
  <2> HIDE DEF one
  <2> QED
    BY <2>2, <2>3, <2>4, <2>5 DEF Unfit
<1>2. 1 \notin Boundaries(r)
  <2>1. e \in Nat /\ e >= 1 /\ \A d \in Boundaries(r) : d >= 1 => d >= e
    BY Positions DEF LeastFrom
  <2> QED
    BY <1>1, <2>1
<1>3. ~Torn(c, r)
  BY <1>2, NotTorn
<1>4. Len(c) + 1 \in Starts(c \o r)
  BY <1>3, JoinedStarts
<1>5. LeastFrom(c \o r, Len(c) + 1, Len(c) + e) /\ Unfit(c \o r, Len(c) + 1, Len(c) + e)
  BY <1>3, NewStart
<1> DEFINE w == c \o r
           s == Len(c) + 1
           b == Len(c) + e
<1>6. w \in Seq(Bytes) /\ s \in Starts(w) /\ LeastFrom(w, s, b) /\ Unfit(w, s, b)
  BY <1>0, <1>4, <1>5
<1> HIDE DEF w, s, b
<1>7. Broken(w)
  BY <1>6, BrokenWhere
<1> QED
  BY <1>7 DEF w

\* The first block of r, u, with the line end behind it.
FirstIs(u, r, e) ==
    /\ u \in Seq(Bytes) /\ Len(u) \in 1 .. Len(r) /\ e \in 1 .. Len(u)
    /\ u[1] = r[1] /\ u[Len(u)] \in {"CR", "LF"}
    /\ LeastFrom(u, 1, e) /\ \A d \in Boundaries(u) : d = e
    /\ Behind(u, e) = Len(u) + 1
    /\ SubSeq(u, 1, e - 1) = SubSeq(r, 1, e - 1)

\* Up to the least boundary, and its LF, a text is one block.
LEMMA FirstBlock ==
    ASSUME NEW r \in Seq(Bytes), NEW e, LeastFrom(r, 1, e)
    PROVE  /\ Behind(r, e) - 1 \in 1 .. Len(r)
           /\ FirstIs(SubSeq(r, 1, Behind(r, e) - 1), r, e)
           /\ Len(SubSeq(r, 1, Behind(r, e) - 1)) = Behind(r, e) - 1
<1> DEFINE N == Len(r)
           n == Behind(r, e) - 1
           u == SubSeq(r, 1, n)
<1>1. /\ N \in Nat /\ e \in 1 .. N /\ e \in Boundaries(r)
      /\ \A d \in Boundaries(r) : d >= e
  <2>1. N \in Nat /\ Boundaries(r) \subseteq 1 .. N
    BY Positions
  <2>2. \A d \in Boundaries(r) : d >= 1
    BY <2>1
  <2> QED
    BY <2>1, <2>2 DEF LeastFrom
<1>2. n = IF r[e] = "CR" /\ e < N /\ r[e + 1] = "LF" THEN e + 1 ELSE e
  <2>1. Behind(r, e) = IF r[e] = "CR" /\ e < N /\ r[e + 1] = "LF" THEN e + 2 ELSE e + 1
    BY <1>1, BehindAt
  <2>2. (e + 2) - 1 = e + 1 /\ (e + 1) - 1 = e
    BY <1>1
  <2> QED
    BY <2>1, <2>2
<1> HIDE DEF N, n
<1>3. n \in 1 .. N /\ e \in 1 .. n /\ n \in Nat
  BY <1>1, <1>2
<1>4. u \in Seq(Bytes) /\ Len(u) = n /\ \A i \in 1 .. n : u[i] = r[i]
  <2>1. \A i \in 1 .. n : r[i] \in Bytes
    BY <1>1, <1>3, ElementOfSeq DEF N
  <2>2. /\ u \in Seq(Bytes) /\ Len(u) = IF 1 <= n THEN n - 1 + 1 ELSE 0
        /\ \A i \in 1 .. n - 1 + 1 : u[i] = r[1 + i - 1]
    BY <1>3, <2>1, SubSeqProperties
  <2> HIDE DEF u
  <2>3. n - 1 + 1 = n /\ 1 <= n /\ \A i \in 1 .. n : 1 + i - 1 = i
    BY <1>3
  <2> QED
    BY <2>2, <2>3
<1> HIDE DEF u
<1>5. /\ \A i \in 1 .. n : i \in Boundaries(u) <=> i \in Boundaries(r)
      /\ Boundaries(u) \subseteq 1 .. n
  <2>1. ASSUME NEW i \in 1 .. n PROVE i \in Boundaries(u) <=> i \in Boundaries(r)
    <3>1. i \in 1 .. N /\ (i # 1 => i - 1 \in 1 .. n) /\ (i > 1 <=> i # 1)
      BY <1>1, <1>3
    <3>2. u[i] = r[i] /\ (i # 1 => u[i - 1] = r[i - 1])
      BY <1>4, <3>1
    <3>3. i \in Boundaries(u)
              <=> /\ u[i] \in {"CR", "LF"}
                  /\ u[i] = "CR" \/ ~(i > 1 /\ u[i - 1] = "CR")
                  /\ i = 1 \/ u[i - 1] \in {"CR", "LF"}
      <4>1. i \in 1 .. Len(u)
        BY <1>4, <3>1 DEF N
      <4>2. i \in Boundaries(u)
               <=> /\ i \in 1 .. Len(u) /\ u[i] \in {"CR", "LF"}
                   /\ u[i] = "CR" \/ ~(i > 1 /\ u[i - 1] = "CR")
                   /\ i = 1 \/ u[i - 1] \in {"CR", "LF"}
        BY ONLY <1>4, BoundaryAt
      <4> QED
        BY <4>1, <4>2
    <3>4. i \in Boundaries(r)
              <=> /\ r[i] \in {"CR", "LF"}
                  /\ r[i] = "CR" \/ ~(i > 1 /\ r[i - 1] = "CR")
                  /\ i = 1 \/ r[i - 1] \in {"CR", "LF"}
      <4>1. i \in 1 .. Len(r)
        BY <1>4, <3>1 DEF N
      <4>2. i \in Boundaries(r)
               <=> /\ i \in 1 .. Len(r) /\ r[i] \in {"CR", "LF"}
                   /\ r[i] = "CR" \/ ~(i > 1 /\ r[i - 1] = "CR")
                   /\ i = 1 \/ r[i - 1] \in {"CR", "LF"}
        BY ONLY r \in Seq(Bytes), BoundaryAt
      <4> QED
        BY <4>1, <4>2
    <3> QED
      BY <3>1, <3>2, <3>3, <3>4
  <2> QED
    BY <1>4, <2>1, Positions
<1>6. n # e => n = e + 1 /\ r[e] = "CR" /\ r[n] = "LF" /\ n \notin Boundaries(r)
  <2>1. SUFFICES ASSUME n # e PROVE n = e + 1 /\ r[e] = "CR" /\ r[n] = "LF" /\ n \notin Boundaries(r)
    OBVIOUS
  <2>2. n = e + 1 /\ r[e] = "CR" /\ r[n] = "LF"
    BY <1>2, <2>1
  <2>3. n > 1 /\ n - 1 = e
    BY <1>1, <2>2
  <2>4. n \notin Boundaries(r)
    BY <2>2, <2>3, BoundaryAt
  <2> QED
    BY <2>2, <2>4
<1>7. \A d \in Boundaries(u) : d = e
  <2>1. SUFFICES ASSUME NEW d \in Boundaries(u) PROVE d = e
    OBVIOUS
  <2>2. d \in 1 .. n /\ d \in Boundaries(r) /\ d >= e
    BY <1>1, <1>5
  <2>3. n = e \/ n = e + 1
    BY <1>6
  <2>4. d = n => n = e
    BY <1>6, <2>2
  <2> QED
    BY <1>1, <1>3, <2>2, <2>3, <2>4
<1>8. e \in Boundaries(u)
  BY <1>1, <1>3, <1>5
<1>9. LeastFrom(u, 1, e)
  <2>1. e >= 1 /\ e >= e
    BY <1>1
  <2> QED
    BY <1>7, <1>8, <2>1 DEF LeastFrom
<1>10. Behind(u, e) = n + 1
  <2>1. Behind(u, e) = IF u[e] = "CR" /\ e < n /\ u[e + 1] = "LF" THEN e + 2 ELSE e + 1
    BY <1>3, <1>4, BehindAt
  <2>2. CASE n = e
    BY <1>3, <2>1, <2>2
  <2>3. CASE n # e
    <3>1. u[e] = "CR" /\ e < n /\ u[e + 1] = "LF"
      BY <1>1, <1>3, <1>4, <1>6, <2>3
    <3> QED
      BY <1>1, <1>6, <2>1, <2>3, <3>1
  <2> QED
    BY <2>2, <2>3
<1>11. u[n] \in {"CR", "LF"}
  <2>1. u[n] = r[n]
    BY <1>3, <1>4
  <2>2. r[e] \in {"CR", "LF"}
    BY <1>1, BoundaryAt
  <2> QED
    BY <1>6, <2>1, <2>2
<1>12. SubSeq(u, 1, e - 1) = SubSeq(r, 1, e - 1)
  <2> DEFINE k == e - 1
             one == 1
  <2>1. CASE e = 1
    <3>1. k < one /\ k \in Int /\ one \in Int
      BY <2>1
    <3> HIDE DEF k, one
    <3>2. SubSeq(u, one, k) = <<>> /\ SubSeq(r, one, k) = <<>>
      BY <3>1, SubSeqEmpty
    <3> QED
      BY <3>2 DEF k, one
  <2>2. CASE e # 1
    <3>1. k \in 1 .. (n - 1) + 1 /\ one \in 1 .. (n - 1) + 1 /\ one \in 1 .. N /\ n \in 1 .. N
      BY <1>1, <1>3, <2>2
    <3>2. 1 + one - 1 = one /\ 1 + k - 1 = k
      BY <1>1
    <3> HIDE DEF k, one
    <3> DEFINE i == 1
    <3>3. i \in 1 .. N /\ one \in 1 .. (n - i) + 1 /\ k \in 1 .. (n - i) + 1
      BY <3>1 DEF one
    <3> HIDE DEF i
    <3>4. SubSeq(SubSeq(r, i, n), one, k) = SubSeq(r, i + one - 1, i + k - 1)
      BY <3>1, <3>3, SubSeqOfSubSeq DEF N
    <3> QED
      BY <3>2, <3>4 DEF u, i, k, one
  <2> QED
    BY <2>1, <2>2
<1>13. u[1] = r[1]
  BY <1>3, <1>4
<1> QED
  BY <1>3, <1>4, <1>7, <1>9, <1>10, <1>11, <1>12, <1>13 DEF FirstIs, u, n, N

\* A finished block that is short enough and a text leaves the text settled behind it.
LEMMA FitTurn ==
    ASSUME NEW c, Settled(c), NEW r \in Seq(Bytes), NEW u,
           NEW e, LeastFrom(r, 1, e), ~Unfit(r, 1, e), FirstIs(u, r, e)
    PROVE  Settled(c \o u)
<1> USE LimitFacts
<1> DEFINE w == c \o u
           M == Len(c)
           n == Len(u)
<1>0. /\ c \in Seq(Bytes) /\ (c = <<>> \/ c[M] \in {"CR", "LF"})
      /\ c = <<>> \/ \E b \in Boundaries(c) : Behind(c, b) = M + 1
  BY DEF Settled
<1>1. /\ u \in Seq(Bytes) /\ e \in 1 .. n /\ u[1] = r[1] /\ u[n] \in {"CR", "LF"}
      /\ LeastFrom(u, 1, e) /\ \A d \in Boundaries(u) : d = e
  BY DEF FirstIs
<1>2. Behind(u, e) = n + 1 /\ n \in 1 .. Len(r)
  BY DEF FirstIs
<1>3. ~Unfit(u, 1, e)
  BY DEF Unfit, FirstIs
<1>4. /\ w \in Seq(Bytes) /\ Len(w) = M + n /\ M \in Nat /\ n \in Nat
      /\ \A j \in 1 .. n : w[M + j] = u[j]
      /\ Torn(c, u) => M # 0 /\ c[M] = "CR" /\ u[1] = "LF"
  <2> HIDE DEF w, M, n
  <2> QED
    BY <1>0, <1>1, JoinedAt DEF w, M, n
<1>5. /\ \A i \in 1 .. M : i \in Boundaries(w) <=> i \in Boundaries(c)
      /\ \A j \in 1 .. n : M + j \in Boundaries(w)
                              <=> j \in Boundaries(u) /\ ~(j = 1 /\ Torn(c, u))
  BY <1>0, <1>1, JoinedBoundaries
<1>6. /\ \A i \in 1 .. M : Behind(w, i)
                              = IF i = M /\ Torn(c, u) THEN i + 2 ELSE Behind(c, i)
      /\ \A j \in 1 .. n : Behind(w, M + j) = M + Behind(u, j)
  BY <1>0, <1>1, JoinedBehind
<1>7. \A s \in Starts(w) :
         \/ s <= M /\ s \in Starts(c)
         \/ s = M + 1 /\ ~Torn(c, u)
         \/ s = M + 2 /\ Torn(c, u)
         \/ \E j \in Boundaries(u) : ~(j = 1 /\ Torn(c, u)) /\ s = M + Behind(u, j)
  BY <1>1, JoinedStarts
<1>8. \A s \in Starts(c) : s <= M =>
         ~Unending(w, s) /\ \A b : LeastFrom(w, s, b) => ~Unfit(w, s, b)
  BY <1>1, OldStarts
<1>9. ~Torn(c, u) =>
         /\ LeastFrom(w, M + 1, M + e) /\ \A b : LeastFrom(w, M + 1, b) => b = M + e
         /\ Unfit(w, M + 1, M + e) <=> Unfit(u, 1, e)
  BY <1>1, NewStart
<1>10. Boundaries(w) \subseteq 1 .. M + n
  <2> HIDE DEF w
  <2> QED
    BY <1>4, Positions
<1>11. Torn(c, u) => e = 1 /\ n = 1
  <2>1. SUFFICES ASSUME Torn(c, u) PROVE e = 1 /\ n = 1
    OBVIOUS
  <2>2. u[1] = "LF" /\ r[1] = "LF"
    BY <1>1, <1>4, <2>1
  <2>3. 1 \in Boundaries(u)
    <3>1. ~(1 > 1) /\ 1 \in 1 .. n
      BY <1>1, <1>4
    <3> QED
      BY <1>1, <2>2, <3>1, BoundaryAt
  <2>4. e = 1
    BY <1>1, <2>3
  <2>5. Behind(u, e) = IF u[e] = "CR" /\ e < Len(u) /\ u[e + 1] = "LF" THEN e + 2 ELSE e + 1
    BY <1>1, BehindAt
  <2>6. Behind(u, e) = 1 + 1
    BY <2>2, <2>4, <2>5
  <2>7. n + 1 = 1 + 1
    BY <1>2, <2>6
  <2> HIDE DEF n
  <2> QED
    BY <1>4, <2>4, <2>7
<1> HIDE DEF w, M, n
<1>12. \A s \in Starts(w) : (s <= M /\ s \in Starts(c)) \/ (s = M + 1 /\ ~Torn(c, u))
                            \/ s = M + n + 1
  <2>1. Torn(c, u) => M + 2 = M + n + 1
    BY <1>4, <1>11
  <2>2. \A j \in Boundaries(u) : M + Behind(u, j) = M + n + 1
    BY <1>1, <1>2, <1>4
  <2> QED
    BY <1>7, <2>1, <2>2
<1>13. ~Unending(w, M + n + 1) /\ \A b : ~LeastFrom(w, M + n + 1, b)
  <2>1. ~(Len(w) - (M + n + 1) >= MaxEventBytes)
    BY <1>4
  <2>2. \A b \in Boundaries(w) : ~(b >= M + n + 1)
    BY <1>4, <1>10
  <2> QED
    BY <2>1, <2>2 DEF Unending, LeastFrom
<1>14. ASSUME ~Torn(c, u)
       PROVE  ~Unending(w, M + 1) /\ \A b : LeastFrom(w, M + 1, b) => ~Unfit(w, M + 1, b)
  <2>1. M + e \in Boundaries(w) /\ ~(M + e < M + 1)
    BY <1>1, <1>4, <1>9, <1>14 DEF LeastFrom
  <2> QED
    BY <1>3, <1>9, <1>14, <2>1 DEF Unending
<1>15. ~Broken(w)
  <2>1. \A s \in Starts(w) : ~Unending(w, s) /\ \A b : LeastFrom(w, s, b) => ~Unfit(w, s, b)
    BY <1>8, <1>12, <1>13, <1>14
  <2> QED
    BY <1>4, <2>1, BrokenWhere
<1>16. w[Len(w)] \in {"CR", "LF"}
  BY <1>1, <1>4
<1>17. \E b \in Boundaries(w) : Behind(w, b) = Len(w) + 1
  <2>1. CASE Torn(c, u)
    <3>1. PICK b \in Boundaries(c) : Behind(c, b) = M + 1
      <4>1. c # <<>>
        BY <2>1 DEF Torn, AfterCr
      <4> QED
        BY <1>0, <4>1
    <3>2. AfterCr(c)
      BY <2>1 DEF Torn
    <3>3. b = M
      BY <3>1, <3>2, SettledStarts DEF M
    <3>4. b \in 1 .. M
      BY <1>0, <3>1, Positions DEF M
    <3>5. b \in Boundaries(w) /\ Behind(w, b) = b + 2
      BY <1>5, <1>6, <2>1, <3>1, <3>3, <3>4
    <3>6. b + 2 = Len(w) + 1
      BY <1>4, <1>11, <2>1, <3>3
    <3> QED
      BY <3>5, <3>6
  <2>2. CASE ~Torn(c, u)
    <3>1. M + e \in Boundaries(w)
      BY <1>9, <2>2 DEF LeastFrom
    <3>2. Behind(w, M + e) = M + (n + 1)
      BY <1>1, <1>2, <1>6
    <3>3. M + (n + 1) = Len(w) + 1
      BY <1>4
    <3> QED
      BY <3>1, <3>2, <3>3
  <2> QED
    BY <2>1, <2>2
<1> QED
  BY <1>4, <1>15, <1>16, <1>17 DEF Settled, w

-----------------------------------------------------------------------------
(* What a turn tells.                                                      *)

\* Behind a first block, its event was told and nothing is left of it.
LEMMA TurnTells ==
    ASSUME NEW c \in Seq(Bytes), Clear(c), NEW u, NEW r, NEW e, FirstIs(u, r, e)
    PROVE  /\ Clear(c \o u)
           /\ EventsOf(c \o u)
                 = EventsOf(c) \o Event(Lines(SubSeq(u, 1, e - 1)))
<1> DEFINE k == e - 1
           v == SubSeq(u, 1, k)
           w == c \o v
           x == u[k + 1]
           w1 == c \o SubSeq(u, 1, k + 1)
           n == Len(u)
<1>1. /\ u \in Seq(Bytes) /\ n \in Nat /\ e \in 1 .. n
      /\ e \in Boundaries(u) /\ \A d \in Boundaries(u) : d = e
      /\ Behind(u, e) = n + 1
  <2>1. u \in Seq(Bytes)
    BY DEF FirstIs
  <2> QED
    BY <2>1, LenProperties DEF FirstIs, LeastFrom
<1> HIDE DEF n
<1>2. k \in Nat /\ k < n /\ k + 1 = e /\ k \in 0 .. n /\ e > k
  BY <1>1
<1> HIDE DEF k
<1>3. /\ u[e] \in {"CR", "LF"}
      /\ k # 0 => u[k] \in {"CR", "LF"} /\ (u[e] = "CR" \/ u[k] # "CR")
  <2>1. e - 1 = k /\ (e > 1 <=> k # 0) /\ (e = 1 <=> k = 0)
    BY <1>2
  <2> QED
    BY <1>1, <2>1, BoundaryAt
<1>4. /\ v \in Seq(Bytes) /\ w \in Seq(Bytes) /\ x \in Bytes /\ w1 = Append(w, x)
  BY <1>1, <1>2, NextPart, NextPartBehind DEF n
<1>5. Len(v) = k /\ (k # 0 => v[k] = u[k]) /\ (v = <<>> <=> k = 0)
  <2>1. \A i \in 1 .. k : u[i] \in Bytes
    BY <1>1, <1>2, ElementOfSeq DEF n
  <2>2. /\ Len(v) = IF 1 <= k THEN k - 1 + 1 ELSE 0
        /\ \A i \in 1 .. k - 1 + 1 : v[i] = u[1 + i - 1]
    BY <1>2, <2>1, SubSeqProperties
  <2> HIDE DEF v
  <2>3. k - 1 + 1 = k /\ (1 <= k <=> k # 0) /\ \A i \in 1 .. k : 1 + i - 1 = i
    BY <1>2
  <2>4. k # 0 => k \in 1 .. k
    BY <1>2
  <2>5. v = <<>> <=> Len(v) = 0
    BY <1>4, EmptySeq
  <2> QED
    BY <2>2, <2>3, <2>4, <2>5
<1>6. ReadsOn(w, v, c)
  <2>1. \A b \in Boundaries(u) : b > k
    BY <1>1, <1>2
  <2> QED
    BY <1>1, <1>2, <2>1, ReadingOn DEF n
<1>7. x = u[e]
  BY <1>2
<1> HIDE DEF v, w, x, w1
<1>8. Line(v) = <<>>
  <2>1. CASE k = 0
    BY <1>5, <2>1, ReadNothing
  <2>2. CASE k # 0
    <3>1. v # <<>> /\ v[Len(v)] \in {"CR", "LF"}
      BY <1>3, <1>5, <2>2
    <3> QED
      BY <1>4, <3>1, LineBegun
  <2> QED
    BY <2>1, <2>2
<1>9. Line(w) = <<>> /\ Block(w) = Lines(v) /\ Blocks(w) = Blocks(c)
  BY <1>6, <1>8 DEF ReadsOn
<1> DEFINE event == Event(Lines(v))
           Said(t) == Clear(t) /\ Told(Blocks(t)) = Told(Blocks(c)) \o event
<1>10. /\ Lines(v) \in Seq(Seq(Chars)) /\ Blocks(c) \in Seq(Seq(Seq(Chars)))
       /\ \A t \in Seq(Bytes) : EventsOf(t) = Told(Blocks(t))
  BY <1>4, ReadTypes
<1>11. Said(w1)
  <2>1. CASE x = "LF" /\ AfterCr(w)
    <3>1. v = <<>>
      <4>1. SUFFICES ASSUME v # <<>> PROVE FALSE
        OBVIOUS
      <4>2. AfterCr(v)
        BY <1>6, <2>1, <4>1 DEF ReadsOn
      <4>3. k # 0 /\ v[k] = "CR"
        BY <1>5, <4>2 DEF AfterCr
      <4> QED
        BY <1>3, <1>5, <1>7, <2>1, <4>3
    <3>2. Line(w1) = Line(w) /\ Block(w1) = Block(w) /\ Blocks(w1) = Blocks(w)
      BY <1>4, <2>1, ReadSame
    <3>3. Lines(v) = <<>> /\ event = <<>>
      BY <3>1, ReadNothing, EventType
    <3>4. Told(Blocks(c)) \o <<>> = Told(Blocks(c))
      <4>1. Told(Blocks(c)) \in Seq(Tellable)
        BY <1>10, ToldAppend
      <4> QED
        BY <4>1, ConcatEmptySeq
    <3> QED
      BY <1>9, <3>2, <3>3, <3>4 DEF Clear
  <2>2. CASE ~(x = "LF" /\ AfterCr(w))
    <3>1. Line(w1) = <<>> /\ Block(w1) = <<>> /\ Blocks(w1) = Append(Blocks(w), Block(w))
      BY <1>3, <1>4, <1>7, <1>9, <2>2, ReadEnd
    <3>2. Told(Append(Blocks(c), Lines(v))) = Told(Blocks(c)) \o event
      BY <1>10, ToldAppend
    <3> QED
      BY <1>9, <3>1, <3>2 DEF Clear
  <2> QED
    BY <2>1, <2>2
<1>12. Said(c \o u)
  <2>1. CASE n = e
    <3>1. SubSeq(u, 1, k + 1) = u
      BY <1>1, <1>2, <2>1, SubSeqFull DEF n
    <3> QED
      BY <1>11, <3>1 DEF w1
  <2>2. CASE n # e
    <3>1. Behind(u, e) = IF u[e] = "CR" /\ e < n /\ u[e + 1] = "LF" THEN e + 2 ELSE e + 1
      BY <1>1, BehindAt DEF n
    <3>2. n = e + 1 /\ u[e] = "CR" /\ u[n] = "LF"
      <4>1. ~(n + 1 = e + 1)
        BY <1>1, <2>2
      <4>2. u[e] = "CR" /\ u[e + 1] = "LF" /\ n + 1 = e + 2
        BY <1>1, <3>1, <4>1
      <4> QED
        BY <1>1, <4>2
    <3>3. /\ c \o SubSeq(u, 1, e + 1) = Append(c \o SubSeq(u, 1, e), u[e + 1])
          /\ c \o SubSeq(u, 1, e) \in Seq(Bytes) /\ u[e + 1] \in Bytes
      <4>1. e \in Nat /\ e < Len(u)
        BY <1>1, <3>2 DEF n
      <4> QED
        BY <1>1, <4>1, NextPartBehind
    <3>4. w1 = c \o SubSeq(u, 1, e)
      BY <1>2 DEF w1
    <3>5. SubSeq(u, 1, e + 1) = u
      BY <1>1, <3>2, SubSeqFull DEF n
    <3>6. c \o u = Append(w1, "LF") /\ w1 \in Seq(Bytes) /\ "LF" \in Bytes
      BY <3>2, <3>3, <3>4, <3>5
    <3>7. AfterCr(w1)
      <4>1. \A t \in Seq(Bytes) : Append(t, x) # <<>> /\ Append(t, x)[Len(Append(t, x))] = x
        BY <1>4, AppendProperties
      <4> QED
        BY <1>4, <1>7, <3>2, <4>1 DEF AfterCr
    <3>8. /\ Line(Append(w1, "LF")) = Line(w1) /\ Block(Append(w1, "LF")) = Block(w1)
          /\ Blocks(Append(w1, "LF")) = Blocks(w1)
      BY <3>6, <3>7, ReadSame
    <3> QED
      BY <1>11, <3>6, <3>8 DEF Clear
  <2> QED
    BY <2>1, <2>2
<1>13. c \o u \in Seq(Bytes)
  BY <1>1, ConcatProperties
<1> QED
  BY <1>10, <1>12, <1>13 DEF v, k

\* An unfinished block tells nothing.
LEMMA RestTells ==
    ASSUME NEW c \in Seq(Bytes), Clear(c), NEW r \in Seq(Bytes), Boundaries(r) = {}
    PROVE  EventsOf(c \o r) = EventsOf(c)
<1>1. Len(r) \in Nat /\ Len(r) \in 0 .. Len(r) /\ SubSeq(r, 1, Len(r)) = r
  BY LenProperties, SubSeqFull
<1>2. ReadsOn(c \o r, r, c)
  <2> DEFINE k == Len(r)
  <2>1. k \in 0 .. Len(r) /\ SubSeq(r, 1, k) = r
    BY <1>1
  <2> HIDE DEF k
  <2> QED
    BY <2>1, ReadingOn
<1>3. c \o r \in Seq(Bytes)
  BY ConcatProperties
<1> QED
  BY <1>2, <1>3, ReadTypes DEF ReadsOn

\* What is told is never taken back, however the text goes on.
LEMMA ToldGrows ==
    ASSUME NEW t \in Seq(Bytes), NEW more \in Seq(Bytes)
    PROVE  \E further \in Seq(Tellable) :
              EventsOf(t \o more) = EventsOf(t) \o further
<1> DEFINE Grown(v) == \E further \in Seq(Tellable) :
                          EventsOf(t \o v) = EventsOf(t) \o further
           S == {v \in Seq(Bytes) : Grown(v)}
<1>1. Grown(<<>>)
  <2>1. t \o <<>> = t
    BY ConcatEmptySeq
  <2>2. EventsOf(t) \in Seq(Tellable)
    BY ReadTypes
  <2>3. EventsOf(t) \o <<>> = EventsOf(t) /\ <<>> \in Seq(Tellable)
    BY <2>2, ConcatEmptySeq, EmptySeq
  <2> QED
    BY <2>1, <2>3
<1>2. ASSUME NEW v \in Seq(Bytes), NEW x \in Bytes, Grown(v) PROVE Grown(Append(v, x))
  <2> DEFINE w == t \o v
             u == t \o Append(v, x)
  <2>1. w \in Seq(Bytes) /\ u = Append(w, x) /\ u \in Seq(Bytes)
    BY ConcatProperties, AppendToConcat, AppendProperties
  <2>2. PICK further \in Seq(Tellable) : EventsOf(w) = EventsOf(t) \o further
    BY <1>2
  <2> HIDE DEF w, u
  <2>3. /\ EventsOf(w) = Told(Blocks(w)) /\ EventsOf(u) = Told(Blocks(u))
        /\ Blocks(w) \in Seq(Seq(Seq(Chars))) /\ Block(w) \in Seq(Seq(Chars))
        /\ EventsOf(t) \in Seq(Tellable)
    BY <2>1, ReadTypes
  <2>4. Blocks(u) = Blocks(w) \/ Blocks(u) = Append(Blocks(w), Block(w))
    <3>1. CASE x \notin {"CR", "LF"}
      BY <2>1, <3>1, ReadByte
    <3>2. CASE x = "LF" /\ AfterCr(w)
      BY <2>1, <3>2, ReadSame
    <3>3. CASE x \in {"CR", "LF"} /\ ~(x = "LF" /\ AfterCr(w))
      BY <2>1, <3>3, ReadEnd
    <3> QED
      BY <3>1, <3>2, <3>3
  <2>5. CASE Blocks(u) = Blocks(w)
    BY <2>2, <2>3, <2>5 DEF u
  <2>6. CASE Blocks(u) = Append(Blocks(w), Block(w))
    <3> DEFINE event == Event(Block(w))
    <3>1. event \in Seq(Tellable)
      BY <2>3, EventType
    <3>2. EventsOf(u) = EventsOf(w) \o event
      BY <2>3, <2>6, ToldAppend
    <3> HIDE DEF event
    <3>3. further \o event \in Seq(Tellable)
      BY <3>1, ConcatProperties
    <3>4. (EventsOf(t) \o further) \o event = EventsOf(t) \o (further \o event)
      <4> DEFINE a == EventsOf(t)
      <4>1. a \in Seq(Tellable)
        BY <2>3
      <4> HIDE DEF a
      <4>2. (a \o further) \o event = a \o (further \o event)
        <5>1. further \in Seq(Tellable)
          OBVIOUS
        <5> QED
          BY ONLY <3>1, <4>1, <5>1, ConcatAssociative
      <4> QED
        BY <4>2 DEF a
    <3> QED
      BY <2>2, <3>2, <3>3, <3>4 DEF u
  <2> QED
    BY <2>4, <2>5, <2>6
<1> HIDE DEF Grown
<1>3. <<>> \in S /\ \A v \in Seq(Bytes), x \in Bytes : v \in S => Append(v, x) \in S
  BY <1>1, <1>2, EmptySeq, AppendProperties
<1>4. Seq(Bytes) \subseteq S
  <2> HIDE DEF S
  <2> QED
    BY <1>3, SequenceInduction
<1> QED
  BY <1>4 DEF Grown

-----------------------------------------------------------------------------
(* The loop of push, turn by turn.                                         *)

Feeds == [rest : Seq(Bytes), told : Seq(Tellable), ok : BOOLEAN]

\* A turn, without its abbreviations.
LEMMA TurnIs ==
    ASSUME NEW fed
    PROVE  LET e == Min(Boundaries(fed.rest))
               payload == SubSeq(fed.rest, 1, e - 1)
               rest == SubSeq(fed.rest, Behind(fed.rest, e), Len(fed.rest))
           IN  Turn(fed) =
                 IF ~fed.ok \/ Boundaries(fed.rest) = {} THEN fed
                 ELSE IF Len(payload) <= MaxEventBytes /\ Utf8(payload)
                 THEN [rest |-> rest, told |-> fed.told \o Event(Lines(payload)), ok |-> TRUE]
                 ELSE [rest |-> rest, told |-> <<>>, ok |-> FALSE]
BY DEF Turn, Fed

\* What a turn takes off the front.
LEMMA TurnParts ==
    ASSUME NEW r \in Seq(Bytes), Boundaries(r) # {}, NEW e, e = Min(Boundaries(r)),
           NEW n, n = Behind(r, e) - 1
    PROVE  /\ LeastFrom(r, 1, e) /\ n \in 1 .. Len(r) /\ e \in 1 .. n /\ e - 1 \in 0 .. Len(r)
           /\ SubSeq(r, 1, n) \in Seq(Bytes) /\ FirstIs(SubSeq(r, 1, n), r, e)
           /\ SubSeq(r, 1, e - 1) \in Seq(Bytes) /\ Len(SubSeq(r, 1, e - 1)) = e - 1
           /\ SubSeq(r, Behind(r, e), Len(r)) \in Seq(Bytes)
           /\ Len(SubSeq(r, Behind(r, e), Len(r))) < Len(r)
           /\ SubSeq(r, 1, n) \o SubSeq(r, Behind(r, e), Len(r)) = r
<1> DEFINE N == Len(r)
           m == Behind(r, e)
           k == e - 1
<1>1. /\ N \in Nat /\ Boundaries(r) \subseteq 1 .. N /\ \A i \in 1 .. N : r[i] \in Bytes
  BY Positions, ElementOfSeq
<1>2. e \in Boundaries(r) /\ \A y \in Boundaries(r) : e <= y
  <2> DEFINE B == Boundaries(r)
  <2>1. B \in SUBSET Nat /\ B # {}
    BY <1>1
  <2> HIDE DEF B
  <2>2. Min(B) \in B /\ \A y \in B : Min(B) <= y
    BY <2>1, LeastPosition
  <2> QED
    BY <2>2 DEF B
<1>3. LeastFrom(r, 1, e)
  BY <1>1, <1>2 DEF LeastFrom
<1>4. n \in 1 .. N /\ FirstIs(SubSeq(r, 1, n), r, e) /\ Len(SubSeq(r, 1, n)) = n
  BY <1>3, FirstBlock
<1>5. SubSeq(r, 1, n) \in Seq(Bytes) /\ e \in 1 .. n
  BY <1>4 DEF FirstIs
<1>6. m \in Nat
  BY <1>1, <1>2, BehindAt
<1> HIDE DEF N, m, k
<1>7. m = n + 1 /\ k \in 0 .. N
  <2>1. n = m - 1 /\ k = e - 1
    BY DEF m, k
  <2> QED
    BY <1>1, <1>4, <1>5, <1>6, <2>1
<1>8. SubSeq(r, 1, k) \in Seq(Bytes) /\ Len(SubSeq(r, 1, k)) = k
  <2>1. \A i \in 1 .. k : r[i] \in Bytes
    BY <1>1, <1>7
  <2>2. /\ SubSeq(r, 1, k) \in Seq(Bytes)
        /\ Len(SubSeq(r, 1, k)) = IF 1 <= k THEN k - 1 + 1 ELSE 0
    BY <1>7, <2>1, SubSeqProperties
  <2>3. k - 1 + 1 = k /\ (~(1 <= k) => k = 0)
    BY <1>7
  <2> QED
    BY <2>2, <2>3
<1>9. SubSeq(r, m, N) \in Seq(Bytes) /\ Len(SubSeq(r, m, N)) < N
  <2>1. \A i \in m .. N : r[i] \in Bytes
    BY <1>1, <1>4, <1>7
  <2>2. /\ SubSeq(r, m, N) \in Seq(Bytes)
        /\ Len(SubSeq(r, m, N)) = IF m <= N THEN N - m + 1 ELSE 0
    BY <1>1, <1>6, <2>1, SubSeqProperties
  <2>3. (IF m <= N THEN N - m + 1 ELSE 0) < N
    BY <1>1, <1>4, <1>7
  <2> QED
    BY <2>2, <2>3
<1>10. SubSeq(r, 1, n) \o SubSeq(r, m, N) = r
  <2> DEFINE one == 1
  <2>1. one \in 1 .. N + 1 /\ n \in one - 1 .. N /\ N \in n .. N
    BY <1>1, <1>4
  <2> HIDE DEF one
  <2>2. SubSeq(r, one, n) \o SubSeq(r, n + 1, N) = SubSeq(r, one, N)
    BY <2>1, ConcatAdjacentSubSeq DEF N
  <2>3. SubSeq(r, 1, N) = r
    BY SubSeqFull DEF N
  <2> QED
    BY <1>7, <2>2, <2>3 DEF one
<1> QED
  BY <1>3, <1>4, <1>5, <1>7, <1>8, <1>9, <1>10 DEF N, m, k

\* A turn makes of a loop's state another one.
LEMMA TurnType ==
    ASSUME NEW fed \in Feeds
    PROVE  Turn(fed) \in Feeds
<1> DEFINE r == fed.rest
           e == Min(Boundaries(r))
           n == Behind(r, e) - 1
           payload == SubSeq(r, 1, e - 1)
           rest == SubSeq(r, Behind(r, e), Len(r))
           event == Event(Lines(payload))
<1>1. r \in Seq(Bytes) /\ fed.told \in Seq(Tellable)
  BY DEF Feeds
<1>2. CASE ~fed.ok \/ Boundaries(r) = {}
  BY <1>2, TurnIs
<1>3. CASE fed.ok /\ Boundaries(r) # {}
  <2>1. payload \in Seq(Bytes) /\ rest \in Seq(Bytes)
    <3> HIDE DEF r, e, n
    <3> QED
      BY <1>1, <1>3, TurnParts DEF e, n
  <2>2. Turn(fed) = IF Len(payload) <= MaxEventBytes /\ Utf8(payload)
                        THEN [rest |-> rest, told |-> fed.told \o event, ok |-> TRUE]
                        ELSE [rest |-> rest, told |-> <<>>, ok |-> FALSE]
    BY <1>3, TurnIs
  <2> HIDE DEF payload, rest
  <2>3. event \in Seq(Tellable)
    <3>1. Lines(payload) \in Seq(Seq(Chars))
      BY <2>1, ReadTypes
    <3> QED
      BY <3>1, EventType
  <2> HIDE DEF event
  <2>4. fed.told \o event \in Seq(Tellable) /\ <<>> \in Seq(Tellable)
    BY <1>1, <2>3, ConcatProperties, EmptySeq
  <2> QED
    BY <2>1, <2>2, <2>4 DEF Feeds
<1> QED
  BY <1>2, <1>3

\* g[n] is the state of the loop after n turns.
Turns(g, t) ==
    /\ g[0] = [rest |-> t, told |-> <<>>, ok |-> TRUE]
    /\ \A n \in 1 .. Len(t) : g[n] = Turn(g[n - 1])
Taken(fed) ==
    IF fed.ok /\ Len(fed.rest) <= MaxEventBytes THEN fed
    ELSE [rest |-> fed.rest, told |-> <<>>, ok |-> FALSE]

\* Who takes one turn after the other has gone through the loop.
LEMMA TurnsRecursion ==
    ASSUME NEW t \in Seq(Bytes), NEW g, Turns(g, t), \A n \in 1 .. Len(t) : g[n] \in Feeds
    PROVE  Turned(t) = g[Len(t)]
<1> DEFINE N == Len(t)
           D == SUBSET (1 .. N)
           Y == Feeds
           base == [rest |-> t, told |-> <<>>, ok |-> TRUE]
           Rec(f) == [s \in D |-> IF s = {} THEN base ELSE Turn(f[s \ {Max(s)}])]
           iter == CHOOSE f : f = Rec(f)
<1>0. N \in Nat /\ DOMAIN t = 1 .. N
  BY LenProperties
<1>1. base \in Y
  BY EmptySeq DEF Feeds
<1>2. Turned(t) = iter[1 .. N]
  BY <1>0 DEF Turned, FoldLeft, MapThenFoldSet, Fed
<1> HIDE DEF Y, base
<1>3. \E f : f = Rec(f)
  <2> DEFINE step == [n \in 1 .. N |-> [y \in Y |-> Turn(y)]]
  <2>1. step \in Steps(N, Y)
    <3>1. \A y \in Y : Turn(y) \in Y
      BY TurnType DEF Y
    <3> HIDE DEF N
    <3> QED
      BY <3>1 DEF Steps
  <2>2. \A n \in 1 .. N, y \in Y : step[n][y] = Turn(y)
    OBVIOUS
  <2> HIDE DEF step, N
  <2>3. PICK h \in [SUBSET (1 .. N) -> Y] : Folds(h, base, step, N)
    BY ONLY <1>0, <1>1, <2>1, Folding
  <2>4. ASSUME NEW s \in D, s # {} PROVE h[s] = Turn(h[s \ {Max(s)}])
    <3> DEFINE x == Max(s)
               r == s \ {x}
    <3>1. x \in 1 .. N
      BY <1>0, <2>4, GreatestPosition
    <3> HIDE DEF x
    <3>2. r \in SUBSET (1 .. N)
      OBVIOUS
    <3> HIDE DEF r
    <3>3. h[r] \in Y
      BY <3>2
    <3>4. step[x][h[r]] = Turn(h[r])
      BY <2>2, <3>1, <3>3
    <3> QED
      BY <2>3, <2>4, <3>4 DEF x, r, Folds
  <2>5. h = Rec(h)
    <3>1. \A s \in D : h[s] = IF s = {} THEN base ELSE Turn(h[s \ {Max(s)}])
      BY <2>3, <2>4 DEF Folds
    <3>2. DOMAIN h = D /\ h = [s \in DOMAIN h |-> h[s]]
      OBVIOUS
    <3> HIDE DEF D
    <3> QED
      BY <3>1, <3>2
  <2> HIDE DEF Rec
  <2> QED
    BY <2>5
<1>4. iter = Rec(iter)
  <2> HIDE DEF Rec
  <2> QED
    BY <1>3
<1> HIDE DEF iter
<1>5. \A s \in D : iter[s] = IF s = {} THEN base ELSE Turn(iter[s \ {Max(s)}])
  <2> HIDE DEF D
  <2> QED
    BY <1>4
<1> DEFINE S == {m \in Nat : m <= N => iter[1 .. m] = g[m]}
<1>6. 0 \in S
  <2>1. 1 .. 0 = {} /\ {} \in D
    OBVIOUS
  <2> HIDE DEF D
  <2>2. iter[{}] = base
    BY <1>5, <2>1
  <2> QED
    BY <2>1, <2>2 DEF Turns, base
<1>7. ASSUME NEW m \in Nat, m \in S PROVE m + 1 \in S
  <2>1. SUFFICES ASSUME m + 1 <= N PROVE iter[1 .. m + 1] = g[m + 1]
    OBVIOUS
  <2> DEFINE s == 1 .. m + 1
  <2>2. s \ {Max(s)} = 1 .. m /\ s # {}
    <3>1. m + 1 \in Nat /\ m + 1 # 0 /\ (m + 1) - 1 = m
      OBVIOUS
    <3> HIDE DEF S
    <3> DEFINE k == m + 1
    <3>2. k \in Nat /\ k # 0 /\ k - 1 = m
      BY <3>1
    <3> HIDE DEF k
    <3>3. Max(1 .. k) = k /\ (1 .. k) \ {k} = 1 .. k - 1 /\ 1 .. k # {}
      BY ONLY <3>2, FirstPositions
    <3> QED
      BY <3>2, <3>3 DEF k
  <2>3. s \in D
    BY <1>0, <2>1
  <2> HIDE DEF s, D
  <2>4. iter[s] = Turn(iter[s \ {Max(s)}])
    BY <1>5, <2>2, <2>3
  <2>5. iter[1 .. m] = g[m]
    BY <1>0, <1>7, <2>1
  <2>6. m + 1 \in 1 .. N /\ (m + 1) - 1 = m
    BY <1>0, <2>1
  <2>7. g[m + 1] = Turn(g[(m + 1) - 1])
    BY <2>6 DEF Turns
  <2> QED
    BY <2>2, <2>4, <2>5, <2>6, <2>7 DEF s
<1> HIDE DEF S
<1>8. N \in S
  BY <1>0, <1>6, <1>7, SetInduction
<1> QED
  BY <1>0, <1>2, <1>8 DEF S

\* The state of the loop is a function of how many turns were taken.
LEMMA Turning ==
    ASSUME NEW t \in Seq(Bytes)
    PROVE  \E g \in [0 .. Len(t) -> Feeds] : Turns(g, t) /\ Pushed(t) = Taken(g[Len(t)])
<1> DEFINE N == Len(t)
           Y == Feeds
           step == [n \in 1 .. N |-> [y \in Y |-> Turn(y)]]
           base == [rest |-> t, told |-> <<>>, ok |-> TRUE]
<1>0. N \in Nat
  BY LenProperties
<1>1. step \in Steps(N, Y) /\ base \in Y
  <2>1. base \in Y
    BY EmptySeq DEF Feeds
  <2>2. \A y \in Y : Turn(y) \in Y
    BY TurnType
  <2> HIDE DEF Y, N, base
  <2> QED
    BY <2>1, <2>2 DEF Steps
<1>2. \A n \in 1 .. N, y \in Y : step[n][y] = Turn(y)
  OBVIOUS
<1> HIDE DEF step, base, Y, N
<1>3. PICK g \in [0 .. N -> Y] : Follows(g, base, step, N)
  BY ONLY <1>0, <1>1, Following
<1>4. \A n \in 1 .. N : g[n] \in Y /\ g[n] = Turn(g[n - 1])
  <2>1. \A n \in 1 .. N : g[n - 1] \in Y /\ g[n] \in Y
    BY <1>0
  <2> QED
    BY <1>2, <1>3, <2>1 DEF Follows
<1>5. Turns(g, t)
  BY <1>3, <1>4 DEF Turns, Follows, base, N
<1>6. Pushed(t) = Taken(g[N])
  BY <1>4, <1>5, TurnsRecursion DEF N, Y, Taken, Pushed, Fed
<1> QED
  BY <1>5, <1>6 DEF N, Y

\* What the decoder has made of a text w that goes on behind a settled one, c.
Decodes(c, w, fed) ==
    IF fed.ok
    THEN \E d \in Seq(Bytes) :
            /\ Settled(d) /\ Clear(d) /\ d \o fed.rest = w
            /\ EventsOf(d) = EventsOf(c) \o fed.told
    ELSE fed.told = <<>> /\ Broken(w)

\* A turn that takes a first block off decodes it, and the rest is shorter.
LEMMA TurnDecodes ==
    ASSUME NEW c \in Seq(Bytes), NEW w, NEW fed \in Feeds,
           Decodes(c, w, fed)
    PROVE  /\ Decodes(c, w, Turn(fed))
           /\ \/ ~Turn(fed).ok
              \/ Boundaries(Turn(fed).rest) = {}
              \/ Len(Turn(fed).rest) < Len(fed.rest)
<1> USE LimitFacts
<1> DEFINE r == fed.rest
           e == Min(Boundaries(r))
           n == Behind(r, e) - 1
           u == SubSeq(r, 1, n)
           payload == SubSeq(r, 1, e - 1)
           rest == SubSeq(r, Behind(r, e), Len(r))
           event == Event(Lines(payload))
<1>1. r \in Seq(Bytes) /\ fed.told \in Seq(Tellable) /\ fed.ok \in BOOLEAN
  BY DEF Feeds
<1>2. CASE ~fed.ok \/ Boundaries(r) = {}
  <2>1. Turn(fed) = fed
    BY <1>2, TurnIs
  <2> QED
    BY <1>2, <2>1
<1>3. CASE fed.ok /\ Boundaries(r) # {}
  <2>1. PICK d \in Seq(Bytes) : /\ Settled(d) /\ Clear(d) /\ d \o r = w
                                /\ EventsOf(d) = EventsOf(c) \o fed.told
    BY <1>3 DEF Decodes
  <2>2. Turn(fed) = IF Len(payload) <= MaxEventBytes /\ Utf8(payload)
                        THEN [rest |-> rest, told |-> fed.told \o event, ok |-> TRUE]
                        ELSE [rest |-> rest, told |-> <<>>, ok |-> FALSE]
    BY <1>3, TurnIs
  <2>3. /\ LeastFrom(r, 1, e) /\ e \in Nat
        /\ u \in Seq(Bytes) /\ FirstIs(u, r, e)
        /\ payload \in Seq(Bytes) /\ Len(payload) = e - 1
        /\ rest \in Seq(Bytes) /\ Len(rest) < Len(r) /\ u \o rest = r
    <3> HIDE DEF r, e, n
    <3>1. /\ LeastFrom(r, 1, e) /\ e \in 1 .. n
          /\ u \in Seq(Bytes) /\ FirstIs(u, r, e)
          /\ payload \in Seq(Bytes) /\ Len(payload) = e - 1
          /\ rest \in Seq(Bytes) /\ Len(rest) < Len(r) /\ u \o rest = r
      BY <1>1, <1>3, TurnParts DEF e, n
    <3>2. e \in Nat
      BY <3>1 DEF FirstIs
    <3> QED
      BY <3>1, <3>2
  <2>4. Unfit(r, 1, e) <=> ~(Len(payload) <= MaxEventBytes /\ Utf8(payload))
    <3> HIDE DEF r, e
    <3> QED
      BY <2>3 DEF Unfit
  <2> HIDE DEF r, e, n, u, payload, rest
  <2>5. CASE Unfit(r, 1, e)
    <3>1. Turn(fed) = [rest |-> rest, told |-> <<>>, ok |-> FALSE]
      BY <2>2, <2>4, <2>5
    <3>2. Broken(w)
      BY <1>1, <2>1, <2>3, <2>5, UnfitTurn
    <3> QED
      BY <3>1, <3>2 DEF Decodes
  <2>6. CASE ~Unfit(r, 1, e)
    <3>1. Turn(fed) = [rest |-> rest, told |-> fed.told \o event, ok |-> TRUE]
      BY <2>2, <2>4, <2>6
    <3> DEFINE more == d \o u
    <3>2. Settled(more)
      BY <1>1, <2>1, <2>3, <2>6, FitTurn
    <3>3. more \in Seq(Bytes) /\ more \o rest = w
      <4>1. more \in Seq(Bytes)
        BY <2>1, <2>3, ConcatProperties
      <4>2. (d \o u) \o rest = d \o (u \o rest)
        <5>1. d \in Seq(Bytes) /\ u \in Seq(Bytes) /\ rest \in Seq(Bytes)
          BY <2>1, <2>3
        <5> QED
          BY ONLY <5>1, ConcatAssociative
      <4> QED
        BY <2>1, <2>3, <4>1, <4>2
    <3>4. Clear(more) /\ EventsOf(more) = EventsOf(d) \o event
      <4>1. /\ Clear(d \o u)
            /\ EventsOf(d \o u)
                  = EventsOf(d) \o Event(Lines(SubSeq(u, 1, e - 1)))
        <5>1. d \in Seq(Bytes) /\ Clear(d) /\ FirstIs(u, r, e)
          BY <2>1, <2>3
        <5> QED
          BY ONLY <5>1, TurnTells
      <4>2. SubSeq(u, 1, e - 1) = payload
        BY <2>3 DEF FirstIs, payload
      <4> QED
        BY <4>1, <4>2
    <3>5. EventsOf(more) = EventsOf(c) \o (fed.told \o event)
      <4> DEFINE a == EventsOf(c)
                 b == fed.told
      <4>1. a \in Seq(Tellable) /\ b \in Seq(Tellable)
        BY <1>1, ReadTypes
      <4>2. event \in Seq(Tellable)
        <5>1. Lines(payload) \in Seq(Seq(Chars))
          BY <2>3, ReadTypes
        <5> QED
          BY <5>1, EventType
      <4>3. EventsOf(more) = (a \o b) \o event
        BY <2>1, <3>4
      <4> HIDE DEF a, b, event, more
      <4>4. (a \o b) \o event = a \o (b \o event)
        BY <4>1, <4>2, ConcatAssociative
      <4> QED
        BY <4>3, <4>4 DEF a, b
    <3> HIDE DEF more, event
    <3>6. Turn(fed).ok /\ Turn(fed).rest = rest /\ Turn(fed).told = fed.told \o event
      BY <3>1
    <3> QED
      BY <2>3, <3>2, <3>3, <3>4, <3>5, <3>6 DEF Decodes, r
  <2> QED
    BY <2>5, <2>6
<1> QED
  BY <1>1, <1>2, <1>3

\* push decodes what it is given, or the text is broken.
LEMMA PushDecodes ==
    ASSUME NEW c \in Seq(Bytes), Settled(c), Clear(c), NEW t \in Seq(Bytes)
    PROVE  /\ Pushed(t) \in Feeds /\ Decodes(c, c \o t, Pushed(t))
           /\ Pushed(t).ok => /\ Boundaries(Pushed(t).rest) = {}
                                  /\ Len(Pushed(t).rest) <= MaxEventBytes
<1> USE LimitFacts
<1> DEFINE N == Len(t)
           w == c \o t
           Y == Feeds
<1>0. N \in Nat
  BY LenProperties
<1>1. PICK g \in [0 .. N -> Y] : Turns(g, t) /\ Pushed(t) = Taken(g[N])
  <2>1. \E g \in [0 .. Len(t) -> Feeds] : Turns(g, t) /\ Pushed(t) = Taken(g[Len(t)])
    BY ONLY t \in Seq(Bytes), Turning
  <2> QED
    BY <2>1
<1> HIDE DEF N, w, Y
<1> DEFINE Short(n) == \/ ~g[n].ok
                       \/ Boundaries(g[n].rest) = {}
                       \/ Len(g[n].rest) + n <= N
           S == {n \in Nat : n <= N => Decodes(c, w, g[n]) /\ Short(n)}
<1>2. 0 \in S
  <2>1. g[0] = [rest |-> t, told |-> <<>>, ok |-> TRUE]
    BY <1>1 DEF Turns
  <2>2. EventsOf(c) \in Seq(Tellable)
    BY ReadTypes
  <2>3. EventsOf(c) \o <<>> = EventsOf(c)
    BY <2>2, ConcatEmptySeq
  <2>4. Decodes(c, w, g[0])
    <3> DEFINE fed == g[0]
    <3>1. fed.ok /\ fed.rest = t /\ fed.told = <<>>
      BY <2>1
    <3> HIDE DEF fed
    <3>2. c \o fed.rest = w /\ EventsOf(c) = EventsOf(c) \o fed.told
      BY <2>3, <3>1 DEF w
    <3>3. Decodes(c, w, fed)
      BY <3>1, <3>2 DEF Decodes
    <3> QED
      BY <3>3 DEF fed
  <2>5. Short(0)
    BY <1>0, <2>1 DEF N
  <2> QED
    BY <2>4, <2>5
<1>3. ASSUME NEW n \in Nat, n \in S PROVE n + 1 \in S
  <2>1. SUFFICES ASSUME n + 1 <= N PROVE Decodes(c, w, g[n + 1]) /\ Short(n + 1)
    <3> HIDE DEF Short
    <3> QED
      OBVIOUS
  <2> DEFINE fed == g[n]
             next == g[n + 1]
  <2>2. n <= N /\ n \in 0 .. N /\ n + 1 \in 1 .. N /\ (n + 1) - 1 = n
    BY <1>0, <2>1
  <2>3. fed \in Feeds /\ next = Turn(fed) /\ Decodes(c, w, fed) /\ Short(n)
    <3>1. g[n] \in Y
      BY <2>2
    <3>2. g[n + 1] = Turn(g[(n + 1) - 1])
      BY <1>1, <2>2 DEF Turns, N
    <3> QED
      BY <1>3, <2>2, <3>1, <3>2 DEF Y
  <2>4. next \in Feeds
    BY <2>3, TurnType
  <2> HIDE DEF fed
  <2>5. /\ Decodes(c, w, Turn(fed))
        /\ \/ ~Turn(fed).ok
           \/ Boundaries(Turn(fed).rest) = {}
           \/ Len(Turn(fed).rest) < Len(fed.rest)
    BY <2>3, TurnDecodes
  <2>6. Short(n + 1)
    <3>1. ~fed.ok \/ Boundaries(fed.rest) = {} => next = fed
      BY <2>3, TurnIs
    <3>2. Len(next.rest) \in Nat /\ Len(fed.rest) \in Nat
      <4>1. next.rest \in Seq(Bytes) /\ fed.rest \in Seq(Bytes)
        BY <2>3, <2>4 DEF Feeds
      <4> QED
        BY <4>1, LenProperties
    <3>3. ~fed.ok \/ Boundaries(fed.rest) = {} \/ Len(fed.rest) + n <= N
      BY <2>3 DEF fed
    <3>4. ~next.ok \/ Boundaries(next.rest) = {} \/ Len(next.rest) < Len(fed.rest)
      BY <2>3, <2>5
    <3>5. ~next.ok \/ Boundaries(next.rest) = {} \/ Len(next.rest) + (n + 1) <= N
      <4> DEFINE a == Len(next.rest)
                 b == Len(fed.rest)
      <4>1. b + n <= N /\ a < b /\ a \in Nat /\ b \in Nat => a + (n + 1) <= N
        <5> HIDE DEF a, b
        <5> QED
          BY <1>0
      <4> HIDE DEF next, Short
      <4>2. CASE ~fed.ok \/ Boundaries(fed.rest) = {}
        BY <3>1, <4>2
      <4>3. CASE ~(~fed.ok \/ Boundaries(fed.rest) = {})
        BY <3>2, <3>3, <3>4, <4>1, <4>3
      <4> QED
        BY <4>2, <4>3
    <3> QED
      BY <3>5
  <2> QED
    BY <2>3, <2>5, <2>6
<1> HIDE DEF S
<1>4. N \in S
  BY <1>0, <1>2, <1>3, SetInduction
<1> DEFINE last == g[N]
<1>5. last \in Feeds /\ Decodes(c, w, last) /\ Short(N)
  <2>1. N \in 0 .. N
    BY <1>0
  <2> QED
    BY <1>0, <1>4, <2>1 DEF S, Y
<1>6. last.rest \in Seq(Bytes) /\ Len(last.rest) \in Nat
  <2>1. last.rest \in Seq(Bytes)
    BY <1>5 DEF Feeds
  <2> QED
    BY <2>1, LenProperties
<1>7. last.ok => Boundaries(last.rest) = {}
  <2>1. SUFFICES ASSUME Len(last.rest) + N <= N PROVE Boundaries(last.rest) = {}
    BY <1>5
  <2>2. Len(last.rest) = 0
    BY <1>0, <1>6, <2>1
  <2>3. Boundaries(last.rest) \subseteq 1 .. Len(last.rest)
    BY <1>6, Positions
  <2> QED
    BY <2>2, <2>3
<1> HIDE DEF last
<1>8. CASE last.ok /\ Len(last.rest) <= MaxEventBytes
  <2>1. Pushed(t) = last
    BY <1>1, <1>8 DEF Taken, last
  <2> QED
    BY <1>5, <1>7, <1>8, <2>1 DEF w
<1>9. CASE ~(last.ok /\ Len(last.rest) <= MaxEventBytes)
  <2>1. Pushed(t) = [rest |-> last.rest, told |-> <<>>, ok |-> FALSE]
    BY <1>1, <1>9 DEF Taken, last
  <2>2. Broken(w)
    <3>1. CASE ~last.ok
      BY <1>5, <3>1 DEF Decodes
    <3>2. CASE last.ok
      <4>1. PICK d \in Seq(Bytes) : Settled(d) /\ d \o last.rest = w
        BY <1>5, <3>2 DEF Decodes
      <4>2. Len(last.rest) > MaxEventBytes
        BY <1>6, <1>9, <3>2
      <4> QED
        BY <1>6, <1>7, <3>2, <4>1, <4>2, RestTurn
    <3> QED
      BY <3>1, <3>2
  <2>3. Pushed(t) \in Feeds
    <3>1. <<>> \in Seq(Tellable)
      BY EmptySeq
    <3> QED
      BY <1>6, <2>1, <3>1 DEF Feeds
  <2>4. ~Pushed(t).ok /\ Pushed(t).told = <<>>
    BY <2>1
  <2> QED
    BY <2>2, <2>3, <2>4 DEF Decodes, w
<1> QED
  BY <1>8, <1>9

-----------------------------------------------------------------------------
(* The end of the body.                                                    *)

\* Only line ends without a boundary: nothing is left.
LEMMA NothingLeft ==
    ASSUME NEW r \in Seq(Bytes), Boundaries(r) = {},
           \A i \in DOMAIN r : r[i] \in {"CR", "LF"}
    PROVE  r = <<>>
<1>1. SUFFICES ASSUME r # <<>> PROVE FALSE
  OBVIOUS
<1>2. 1 <= Len(r) /\ 1 \in DOMAIN r
  <2>1. Len(r) \in Nat \ {0} /\ DOMAIN r = 1 .. Len(r)
    BY <1>1, EmptySeq, LenProperties
  <2> QED
    BY <2>1
<1> QED
  BY <1>2, FirstByte

\* One more LF behind what was told tells nothing.
LEMMA LineEndTells ==
    ASSUME NEW t \in Seq(Bytes), Clear(t)
    PROVE  /\ Append(t, "LF") \in Seq(Bytes) /\ Clear(Append(t, "LF"))
           /\ EventsOf(Append(t, "LF")) = EventsOf(t)
<1> USE LimitFacts
<1> DEFINE u == Append(t, "LF")
<1>1. u \in Seq(Bytes)
  BY AppendProperties
<1>2. /\ EventsOf(t) = Told(Blocks(t)) /\ EventsOf(u) = Told(Blocks(u))
      /\ Blocks(t) \in Seq(Seq(Seq(Chars))) /\ Block(t) \in Seq(Seq(Chars))
      /\ EventsOf(t) \in Seq(Tellable)
  <2> HIDE DEF u
  <2> QED
    BY <1>1, ReadTypes
<1>3. CASE AfterCr(t)
  BY <1>1, <1>2, <1>3, ReadSame DEF Clear
<1>4. CASE ~AfterCr(t)
  <2> DEFINE x == "LF"
  <2>1. x \in Bytes /\ x \in {"CR", "LF"} /\ ~(x = "LF" /\ AfterCr(t))
    BY <1>4
  <2> HIDE DEF x
  <2>2. /\ Line(Append(t, x)) = <<>>
        /\ Line(t) = <<>> => /\ Block(Append(t, x)) = <<>>
                             /\ Blocks(Append(t, x)) = Append(Blocks(t), Block(t))
    BY <2>1, ReadEnd
  <2>3. Line(u) = <<>> /\ Block(u) = <<>> /\ Blocks(u) = Append(Blocks(t), Block(t))
    BY <2>2 DEF x, Clear
  <2>4. Told(Append(Blocks(t), Block(t))) = Told(Blocks(t)) \o Event(Block(t))
    BY <1>2, ToldAppend
  <2>5. Told(Blocks(t)) \o <<>> = Told(Blocks(t))
    BY <1>2, ConcatEmptySeq
  <2> HIDE DEF u
  <2> QED
    BY <1>1, <1>2, <2>3, <2>4, <2>5, EventType DEF Clear, u
<1> QED
  BY <1>3, <1>4

\* Two of them tell nothing either.
LEMMA BlankEndTells ==
    ASSUME NEW t \in Seq(Bytes), Clear(t)
    PROVE  EventsOf(t \o <<"LF", "LF">>) = EventsOf(t)
<1> USE LimitFacts
<1> DEFINE lf == "LF"
           u == Append(t, lf)
<1>1. u \in Seq(Bytes) /\ Clear(u) /\ EventsOf(u) = EventsOf(t)
  BY LineEndTells
<1>2. EventsOf(Append(u, lf)) = EventsOf(u)
  <2> HIDE DEF u
  <2> QED
    BY <1>1, LineEndTells
<1>3. t \o <<lf, lf>> = Append(u, lf)
  <2>1. <<lf>> \in Seq(Bytes) /\ Append(<<lf>>, lf) = <<lf, lf>>
    <3>1. lf \in Bytes
      OBVIOUS
    <3> HIDE DEF lf
    <3>2. <<lf>> \in Seq(Bytes) /\ <<lf, lf>> \in Seq(Bytes) /\ Len(<<lf>>) = 1 /\ <<lf>>[1] = lf
      BY <3>1
    <3>3. Len(<<lf, lf>>) = 2 /\ <<lf, lf>>[1] = lf /\ <<lf, lf>>[2] = lf
      OBVIOUS
    <3> DEFINE a == <<lf>>
               b == <<lf, lf>>
    <3>4. Append(a, lf) = b
      <4> HIDE DEF a, b
      <4>1. a \in Seq(Bytes) /\ b \in Seq(Bytes) /\ Len(a) = 1 /\ a[1] = lf
            /\ Len(b) = 2 /\ b[1] = lf /\ b[2] = lf
        BY <3>2, <3>3 DEF a, b
      <4>2. /\ Append(a, lf) \in Seq(Bytes) /\ Len(Append(a, lf)) = 2
            /\ Append(a, lf)[1] = lf /\ Append(a, lf)[2] = lf
        <5>1. /\ Append(a, lf) \in Seq(Bytes) /\ Len(Append(a, lf)) = Len(a) + 1
              /\ \A i \in 1 .. Len(a) : Append(a, lf)[i] = a[i]
              /\ Append(a, lf)[Len(a) + 1] = lf
          <6>1. a \in Seq(Bytes) /\ lf \in Bytes
            BY <3>1, <4>1
          <6> QED
            BY ONLY <6>1, AppendProperties
        <5>2. Len(a) + 1 = 2 /\ 1 \in 1 .. Len(a)
          BY <4>1
        <5> QED
          BY <4>1, <5>1, <5>2
      <4>3. \A i \in 1 .. 2 : Append(a, lf)[i] = b[i]
        <5>1. \A i \in 1 .. 2 : i = 1 \/ i = 2
          OBVIOUS
        <5> QED
          BY <4>1, <4>2, <5>1
      <4> QED
        BY <4>1, <4>2, <4>3, SeqEqual
    <3> QED
      BY <3>2, <3>4
  <2>2. Append(t \o <<lf>>, lf) = t \o Append(<<lf>>, lf)
    <3> DEFINE v == <<lf>>
    <3>1. t \in Seq(Bytes) /\ v \in Seq(Bytes) /\ lf \in Bytes /\ <<lf>> \in Seq(Bytes)
      BY <2>1
    <3> HIDE DEF v, lf
    <3>2. Append(t \o v, lf) = t \o Append(v, lf)
      <4>1. t \o v \in Seq(Bytes)
        BY <3>1, ConcatProperties
      <4>2. Append(t \o v, lf) = (t \o v) \o <<lf>>
        BY <3>1, <4>1, AppendIsConcat
      <4>3. Append(v, lf) = v \o <<lf>>
        BY <3>1, AppendIsConcat
      <4>4. (t \o v) \o <<lf>> = t \o (v \o <<lf>>)
        BY ONLY <3>1, ConcatAssociative
      <4> QED
        BY <4>2, <4>3, <4>4
    <3> QED
      BY <3>2 DEF v
  <2>3. u = t \o <<lf>>
    BY AppendIsConcat
  <2> QED
    BY <2>1, <2>2, <2>3
<1> QED
  BY <1>1, <1>2, <1>3

\* A text that ends in the middle of an event has something behind its last boundary.
LEMMA UnfinishedEnd ==
    ASSUME NEW c \in Seq(Bytes), Settled(c), NEW r \in Seq(Bytes), Boundaries(r) = {},
           \E j \in DOMAIN r : r[j] \notin {"CR", "LF"}
    PROVE  Unfinished(c \o r)
<1> DEFINE w == c \o r
           M == Len(c)
<1>1. /\ w \in Seq(Bytes) /\ Len(w) = M + Len(r) /\ M \in Nat /\ Len(r) \in Nat
      /\ \A j \in 1 .. Len(r) : w[M + j] = r[j]
  BY JoinedAt
<1>2. c = <<>> \/ c[M] \in {"CR", "LF"}
  BY DEF Settled
<1>3. \A j \in 1 .. Len(r) : M + j \notin Boundaries(w)
  BY <1>2, JoinedBoundaries
<1>4. Boundaries(w) \subseteq 1 .. M + Len(r) /\ DOMAIN w = 1 .. M + Len(r)
  BY <1>1, Positions, LenProperties
<1>5. PICK j \in 1 .. Len(r) : r[j] \notin {"CR", "LF"}
  BY LenProperties
<1> HIDE DEF w, M
<1>6. \A b \in Boundaries(w) : b < M + j
  <2>1. SUFFICES ASSUME NEW b \in Boundaries(w), b > M PROVE FALSE
    BY <1>1, <1>4, <1>5
  <2>2. b - M \in 1 .. Len(r) /\ b = M + (b - M)
    BY <1>1, <1>4, <2>1
  <2> QED
    BY <1>3, <2>2
<1>7. M + j \in DOMAIN w /\ w[M + j] \notin {"CR", "LF"}
  BY <1>1, <1>4, <1>5
<1> QED
  BY <1>6, <1>7 DEF Unfinished, CR, LF, w

\* One that its last boundary ends has nothing there.
LEMMA SettledIsFinished ==
    ASSUME NEW c, Settled(c)
    PROVE  ~Unfinished(c)
<1> DEFINE M == Len(c)
<1>1. /\ c \in Seq(Bytes) /\ M \in Nat /\ DOMAIN c = 1 .. M
      /\ (c = <<>> <=> M = 0)
      /\ c = <<>> \/ (c[M] \in {"CR", "LF"}
                      /\ \E b \in Boundaries(c) : Behind(c, b) = M + 1)
  BY EmptySeq, LenProperties DEF Settled
<1>2. ASSUME NEW i \in 1 .. M, c[i] \notin {"CR", "LF"}, \A b \in Boundaries(c) : b < i
      PROVE  FALSE
  <2>1. PICK b \in Boundaries(c) : Behind(c, b) = M + 1
    BY <1>1, <1>2
  <2>2. b \in 1 .. M
    BY <1>1, Positions
  <2>3. Behind(c, b) \in {b + 1, b + 2}
    BY <1>1, <2>2, BehindAt
  <2>4. b < i /\ M + 1 \in {b + 1, b + 2}
    BY <1>2, <2>1, <2>3
  <2>5. i = M
    <3> HIDE DEF M
    <3> QED
      BY <1>1, <2>2, <2>4
  <2> QED
    BY <1>1, <1>2, <2>5
<1> QED
  BY <1>1, <1>2 DEF Unfinished, CR, LF

-----------------------------------------------------------------------------
(* The decoder's invariant.                                                *)

\* The decoder has decoded c, and the rest of the text has no boundary.
Decoded(c) ==
    /\ Settled(c) /\ Clear(c) /\ c \o buffer = sent /\ events = EventsOf(c)

SseInvariant ==
    /\ sent \in Seq(Bytes)
    /\ status \in {"open", "ended", "truncated", "failed"}
    /\ status = "open" => /\ buffer \in Seq(Bytes) /\ Boundaries(buffer) = {}
                          /\ Len(buffer) <= MaxEventBytes
                          /\ \E c \in Seq(Bytes) : Decoded(c)
    /\ DecodedAsSent
    /\ RefusedForTheText

\* An open decoder has told what the text tells, which is not broken.
LEMMA OpenTold ==
    ASSUME NEW c \in Seq(Bytes), Settled(c), Clear(c),
           NEW r \in Seq(Bytes), Boundaries(r) = {}, Len(r) <= MaxEventBytes
    PROVE  EventsOf(c \o r) = EventsOf(c) /\ ~Broken(c \o r)
<1>1. MaxEventBytes \in Nat /\ Len(r) \in Nat
  BY LimitFacts, LenProperties
<1>2. EventsOf(c \o r) = EventsOf(c)
  BY RestTells
<1>3. ~Broken(c \o r)
  BY <1>1, RestTurn
<1> QED
  BY <1>2, <1>3

\* The stream of events begins with none.
LEMMA SseInit == DecoderInit => SseInvariant
<1> DEFINE none == <<>>
<1>1. SUFFICES ASSUME DecoderInit PROVE SseInvariant
  OBVIOUS
<1>2. sent = none /\ buffer = none /\ events = none /\ status = "open"
  BY <1>1 DEF DecoderInit
<1>3. none \in Seq(Bytes) /\ Len(none) = 0
  BY EmptySeq
<1>4. EventsOf(none) = none /\ Settled(none) /\ Clear(none)
  BY <1>1, ReadNothing, SettledEmpty DEF Clear
<1>5. none \o none = none
  BY <1>3, ConcatEmptySeq
<1> HIDE DEF none
<1>6. Boundaries(none) = {}
  <2>1. Boundaries(none) \subseteq 1 .. Len(none)
    BY <1>3, Positions
  <2> QED
    BY <1>3, <2>1
<1>7. Len(none) <= MaxEventBytes
  BY <1>3, LimitFacts
<1>8. Decoded(none)
  BY <1>2, <1>4, <1>5 DEF Decoded
<1>9. ~Broken(none)
  BY <1>4 DEF Settled
<1> QED
  BY <1>2, <1>3, <1>4, <1>6, <1>7, <1>8, <1>9
     DEF SseInvariant, DecodedAsSent, RefusedForTheText

\* Whatever is pushed is decoded.
LEMMA SsePush ==
    ASSUME SseInvariant, NEW chunk \in Seq(Bytes), Push(chunk)
    PROVE  SseInvariant'
<1> DEFINE r == buffer \o chunk
           fed == Pushed(r)
<1>1. /\ status = "open" /\ sent' = sent \o chunk
      /\ buffer' = fed.rest /\ events' = events \o fed.told
      /\ status' = IF fed.ok THEN "open" ELSE "failed"
  BY DEF Push
<1>3. buffer \in Seq(Bytes) /\ sent \in Seq(Bytes)
  BY <1>1 DEF SseInvariant
<1>4. PICK c \in Seq(Bytes) : Settled(c) /\ Clear(c) /\ c \o buffer = sent /\ events = EventsOf(c)
  BY <1>1 DEF SseInvariant, Decoded
<1>5. r \in Seq(Bytes) /\ sent' = c \o r /\ sent' \in Seq(Bytes)
  <2>1. r \in Seq(Bytes) /\ sent \o chunk \in Seq(Bytes)
    BY <1>3, ConcatProperties
  <2>2. (c \o buffer) \o chunk = c \o (buffer \o chunk)
    <3>1. c \in Seq(Bytes) /\ buffer \in Seq(Bytes) /\ chunk \in Seq(Bytes)
      BY <1>3, <1>4
    <3> QED
      BY ONLY <3>1, ConcatAssociative
  <2> QED
    BY <1>1, <1>4, <2>1, <2>2
<1> HIDE DEF r
<1>6. /\ fed \in Feeds /\ Decodes(c, c \o r, fed)
      /\ fed.ok => Boundaries(fed.rest) = {} /\ Len(fed.rest) <= MaxEventBytes
  <2>1. c \in Seq(Bytes) /\ Settled(c) /\ Clear(c)
    BY <1>4
  <2> QED
    BY ONLY <1>5, <2>1, PushDecodes
<1> HIDE DEF fed
<1>7. fed.rest \in Seq(Bytes) /\ fed.told \in Seq(Tellable) /\ fed.ok \in BOOLEAN
  BY <1>6 DEF Feeds
<1>8. CASE fed.ok
  <2>1. PICK d \in Seq(Bytes) : /\ Settled(d) /\ Clear(d) /\ d \o fed.rest = c \o r
                                /\ EventsOf(d) = EventsOf(c) \o fed.told
    BY <1>6, <1>8 DEF Decodes
  <2>2. status' = "open" /\ events' = EventsOf(d) /\ d \o buffer' = sent'
    BY <1>1, <1>4, <1>5, <1>8, <2>1
  <2>3. EventsOf(d \o fed.rest) = EventsOf(d) /\ ~Broken(d \o fed.rest)
    <3>1. /\ d \in Seq(Bytes) /\ Settled(d) /\ Clear(d) /\ fed.rest \in Seq(Bytes)
          /\ Boundaries(fed.rest) = {} /\ Len(fed.rest) <= MaxEventBytes
      BY <1>6, <1>7, <1>8, <2>1
    <3> QED
      BY ONLY <3>1, OpenTold
  <2>4. events' = EventsOf(sent') /\ ~Broken(sent')
    BY <1>5, <2>1, <2>2, <2>3
  <2>5. Decoded(d)'
    BY <2>1, <2>2 DEF Decoded
  <2>6. /\ buffer' \in Seq(Bytes) /\ Boundaries(buffer') = {}
        /\ Len(buffer') <= MaxEventBytes
    BY <1>1, <1>6, <1>7, <1>8
  <2>7. DecodedAsSent' /\ RefusedForTheText'
    BY <2>2, <2>4 DEF DecodedAsSent, RefusedForTheText
  <2> QED
    BY <1>5, <2>1, <2>2, <2>5, <2>6, <2>7 DEF SseInvariant
<1>9. CASE ~fed.ok
  <2>1. fed.told = <<>> /\ Broken(sent') /\ status' = "failed"
    BY <1>1, <1>5, <1>6, <1>9 DEF Decodes
  <2>2. events' = EventsOf(sent)
    <3>1. events = EventsOf(sent)
      BY <1>1 DEF SseInvariant, DecodedAsSent
    <3>2. EventsOf(sent) \o <<>> = EventsOf(sent)
      <4> DEFINE a == EventsOf(sent)
      <4>1. a \in Seq(Tellable)
        BY <1>3, ReadTypes
      <4> HIDE DEF a
      <4>2. a \o <<>> = a
        BY <4>1, ConcatEmptySeq
      <4> QED
        BY <4>2 DEF a
    <3> QED
      BY <1>1, <2>1, <3>1, <3>2
  <2>3. IsPrefix(events', EventsOf(sent'))
    <3> DEFINE a == EventsOf(sent)
               b == EventsOf(sent')
    <3>1. PICK further \in Seq(Tellable) : b = a \o further
      BY <1>1, <1>3, ToldGrows
    <3>2. a \in Seq(Tellable)
      BY <1>3, ReadTypes
    <3> HIDE DEF a, b
    <3>3. IsPrefix(a, b)
      <4>1. Len(a) \in Nat /\ Len(further) \in Nat /\ Len(b) = Len(a) + Len(further)
            /\ \A i \in 1 .. Len(a) + Len(further) :
                  b[i] = IF i <= Len(a) THEN a[i] ELSE further[i - Len(a)]
        BY <3>1, <3>2, ConcatProperties, LenProperties
      <4>2. SubSeq(a, 1, Len(a)) = SubSeq(b, 1, Len(a))
        BY <4>1
      <4> QED
        BY <4>1, <4>2 DEF IsPrefix
    <3> QED
      BY <2>2, <3>3 DEF a, b
  <2>4. DecodedAsSent' /\ RefusedForTheText'
    BY <2>1, <2>3 DEF DecodedAsSent, RefusedForTheText
  <2> QED
    BY <1>5, <2>1, <2>4 DEF SseInvariant
<1> QED
  BY <1>8, <1>9

\* The end of the body is told from a body that was cut off.
LEMMA SseFinish ==
    ASSUME SseInvariant, Finish
    PROVE  SseInvariant'
<1>1. /\ status = "open" /\ sent' = sent /\ buffer' = buffer /\ events' = events
      /\ status' = IF \A i \in DOMAIN buffer : buffer[i] \in {"CR", "LF"}
                   THEN "ended" ELSE "truncated"
  BY DEF Finish, CR, LF
<1>2. /\ buffer \in Seq(Bytes) /\ sent \in Seq(Bytes) /\ Boundaries(buffer) = {}
      /\ events = EventsOf(sent) /\ ~Broken(sent)
  BY <1>1 DEF SseInvariant, DecodedAsSent, RefusedForTheText
<1>3. PICK c \in Seq(Bytes) : Settled(c) /\ Clear(c) /\ c \o buffer = sent
  BY <1>1 DEF SseInvariant, Decoded
<1>4. "LF" \in Bytes
  BY LimitFacts
<1>5. CASE \A i \in DOMAIN buffer : buffer[i] \in {"CR", "LF"}
  <2>1. buffer = <<>>
    BY <1>2, <1>5, NothingLeft
  <2>2. sent = c
    BY <1>3, <2>1, ConcatEmptySeq
  <2>3. EventsOf(sent \o <<"LF", "LF">>) = EventsOf(sent)
    BY <1>2, <1>3, <1>4, <2>2, BlankEndTells
  <2>4. ~Unfinished(sent)
    BY <1>3, <2>2, SettledIsFinished
  <2>5. DecodedAsSent' /\ RefusedForTheText'
    BY <1>1, <1>2, <1>5, <2>3, <2>4 DEF DecodedAsSent, RefusedForTheText, LF
  <2> QED
    BY <1>1, <1>2, <1>5, <2>5 DEF SseInvariant
<1>6. CASE ~\A i \in DOMAIN buffer : buffer[i] \in {"CR", "LF"}
  <2>1. Unfinished(sent)
    BY <1>2, <1>3, <1>6, UnfinishedEnd
  <2>2. DecodedAsSent' /\ RefusedForTheText'
    BY <1>1, <1>2, <1>6, <2>1 DEF DecodedAsSent, RefusedForTheText
  <2> QED
    BY <1>1, <1>2, <1>6, <2>2 DEF SseInvariant
<1> QED
  BY <1>5, <1>6

\* Every step of the decoder keeps the invariant.
LEMMA SseNext == SseInvariant /\ [DecoderNext]_decoder => SseInvariant'
<1> SUFFICES ASSUME SseInvariant, [DecoderNext]_decoder
             PROVE  SseInvariant'
  OBVIOUS
<1>1. ASSUME NEW chunk \in Chunks(MaxBody - Len(sent)), Push(chunk)
      PROVE  SseInvariant'
  <2>1. PICK n \in 1 .. (MaxBody - Len(sent)) : chunk \in [1 .. n -> Bytes]
    BY DEF Chunks
  <2>2. n \in Nat
    BY <2>1
  <2>3. chunk \in Seq(Bytes)
    BY <2>1, <2>2
  <2> QED
    BY <1>1, <2>3, SsePush
<1>2. CASE Finish
  BY <1>2, SseFinish
<1>3. CASE UNCHANGED decoder
  BY <1>3 DEF decoder, SseInvariant, Decoded, DecodedAsSent, RefusedForTheText
<1> QED
  BY <1>1, <1>2, <1>3 DEF DecoderNext

\* The decoder keeps its invariant, whatever the limit and however the text is cut.
THEOREM Decoding == DecoderSpec => []SseInvariant
BY SseInit, SseNext, PTL DEF DecoderSpec

\* What the reader of the stream is given is what the text says (lib.rs:127-201), wherever
\* the chunks ended: between a CR and its LF, or inside a character.
THEOREM DecodesAsSent == DecoderSpec => []DecodedAsSent
<1>1. SseInvariant => DecodedAsSent
  BY DEF SseInvariant
<1> QED
  BY <1>1, Decoding, PTL

\* Text that was refused is refused with whatever comes behind it (lib.rs:130-141).
THEOREM BrokenStays ==
    ASSUME NEW t \in Seq(Bytes), NEW more \in Seq(Bytes), Broken(t)
    PROVE  Broken(t \o more)
<1> USE LimitFacts
<1> DEFINE w == t \o more
           M == Len(t)
           N == Len(more)
<1>1. /\ w \in Seq(Bytes) /\ Len(w) = M + N /\ M \in Nat /\ N \in Nat
      /\ \A i \in 1 .. M : w[i] = t[i]
  BY JoinedAt
<1>2. \A i \in 1 .. M : i \in Boundaries(w) <=> i \in Boundaries(t)
  <2> HIDE DEF w, M, N
  <2>1. SUFFICES ASSUME NEW i \in 1 .. M PROVE i \in Boundaries(w) <=> i \in Boundaries(t)
    OBVIOUS
  <2>2. w[i] = t[i] /\ (i > 1 => w[i - 1] = t[i - 1]) /\ i \in 1 .. Len(w) /\ i \in 1 .. Len(t)
    BY <1>1 DEF M
  <2>3. i \in Boundaries(w) <=> /\ i \in 1 .. Len(w) /\ w[i] \in {"CR", "LF"}
                                /\ w[i] = "CR" \/ ~(i > 1 /\ w[i - 1] = "CR")
                                /\ i = 1 \/ w[i - 1] \in {"CR", "LF"}
    BY <1>1, BoundaryAt
  <2>4. i \in Boundaries(t) <=> /\ i \in 1 .. Len(t) /\ t[i] \in {"CR", "LF"}
                                /\ t[i] = "CR" \/ ~(i > 1 /\ t[i - 1] = "CR")
                                /\ i = 1 \/ t[i - 1] \in {"CR", "LF"}
    BY BoundaryAt
  <2> QED
    BY <2>2, <2>3, <2>4
<1>3. Boundaries(w) \subseteq 1 .. M + N /\ Boundaries(t) \subseteq 1 .. M
  BY <1>1, Positions
<1>4. PICK s \in Starts(t) : \/ \E b : LeastFrom(t, s, b) /\ Unfit(t, s, b)
                             \/ Unending(t, s)
  BY BrokenWhere
<1>5. s \in Nat /\ 1 <= s /\ s <= M + 1
  BY Positions
<1> HIDE DEF w, M, N
<1>6. s <= M
  BY <1>1, <1>3, <1>4, <1>5 DEF LeastFrom, Unending, M
<1>7. s \in Starts(w)
  <2>1. CASE s = 1
    BY <2>1 DEF Starts
  <2>2. ASSUME NEW b \in Boundaries(t), s = Behind(t, b) PROVE s \in Starts(w)
    <3>1. b \in 1 .. M /\ b \in 1 .. Len(t) /\ b \in 1 .. Len(w)
      BY <1>1, <1>3 DEF M
    <3>2. b < s /\ s = IF t[b] = "CR" /\ b < M /\ t[b + 1] = "LF" THEN b + 2 ELSE b + 1
      BY <2>2, <3>1, BehindAt DEF M
    <3>3. b + 1 \in 1 .. M
      BY <1>1, <1>5, <1>6, <3>1, <3>2
    <3>4. w[b] = t[b] /\ w[b + 1] = t[b + 1] /\ b < M /\ b < Len(w)
      BY <1>1, <3>1, <3>3
    <3>5. Behind(w, b) = IF w[b] = "CR" /\ b < Len(w) /\ w[b + 1] = "LF" THEN b + 2 ELSE b + 1
      BY <1>1, <3>1, BehindAt
    <3>6. Behind(w, b) = s /\ b \in Boundaries(w)
      BY <1>2, <3>1, <3>2, <3>4, <3>5
    <3> QED
      BY <3>6 DEF Starts
  <2> QED
    BY <2>1, <2>2 DEF Starts
<1>8. ASSUME NEW b, LeastFrom(t, s, b), Unfit(t, s, b)
      PROVE  LeastFrom(w, s, b) /\ Unfit(w, s, b)
  <2>1. b \in 1 .. M /\ b \in Boundaries(w) /\ b >= s
    BY <1>2, <1>3, <1>8 DEF LeastFrom
  <2>2. ASSUME NEW d \in Boundaries(w), d >= s PROVE d >= b
    BY <1>1, <1>2, <1>3, <1>8, <2>1, <2>2 DEF LeastFrom
  <2>3. SubSeq(w, s, b - 1) = SubSeq(t, s, b - 1)
    <3>1. \A i \in s .. b - 1 : i \in 1 .. M /\ w[i] = t[i]
      BY <1>1, <1>5, <2>1
    <3> QED
      BY <1>5, <2>1, <3>1
  <2> QED
    BY <1>8, <2>1, <2>2, <2>3 DEF LeastFrom, Unfit
<1>9. ASSUME Unending(t, s)
      PROVE  Unending(w, s) \/ \E b : LeastFrom(w, s, b) /\ Unfit(w, s, b)
  <2> DEFINE Later == {b \in Boundaries(w) : b >= s}
  <2>1. M - s >= MaxEventBytes /\ \A d \in Boundaries(t) : d < s
    BY <1>9 DEF Unending, M
  <2>2. CASE Later = {}
    <3>1. \A d \in Boundaries(w) : d < s
      BY <1>1, <1>3, <1>5, <2>2
    <3>2. Len(w) - s >= MaxEventBytes
      BY <1>1, <1>5, <2>1
    <3> QED
      BY <3>1, <3>2 DEF Unending
  <2>3. CASE Later # {}
    <3>1. Later \in SUBSET Nat
      BY <1>1, <1>3
    <3>2. Min(Later) \in Later /\ \A d \in Later : Min(Later) <= d
      BY <2>3, <3>1, LeastPosition
    <3>3. PICK b \in Later : \A d \in Later : b <= d
      BY <3>2
    <3>4. LeastFrom(w, s, b)
      BY <1>1, <1>3, <3>3 DEF LeastFrom
    <3>5. b \in Nat /\ b > M
      BY <1>1, <1>2, <1>3, <1>5, <2>1, <3>3
    <3>6. b - s > MaxEventBytes
      BY <1>1, <1>5, <2>1, <3>5
    <3> QED
      BY <3>4, <3>6 DEF Unfit
  <2> QED
    BY <2>2, <2>3
<1>10. \E b : (LeastFrom(w, s, b) /\ Unfit(w, s, b)) \/ Unending(w, s)
  BY <1>4, <1>8, <1>9
<1> QED
  BY <1>1, <1>7, <1>10, BrokenWhere DEF w

\* A body is refused for what it says, and only for that, and one that ends is refused
\* just when it ends in the middle of an event (lib.rs:130-151).  With BrokenStays, a
\* body that is refused in one way of cutting it is never decoded to its end in another.
THEOREM RefusesForTheText == DecoderSpec => []RefusedForTheText
<1>1. SseInvariant => RefusedForTheText
  BY DEF SseInvariant
<1> QED
  BY <1>1, Decoding, PTL
=============================================================================
