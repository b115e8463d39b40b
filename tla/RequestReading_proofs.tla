------------------------ MODULE RequestReading_proofs ------------------------
(***************************************************************************)
(* Proofs about what a service understands of a request that OpenCode      *)
(* makes, for every set of models, tools and answers: that it is the       *)
(* conversation.                                                           *)
(***************************************************************************)
EXTENDS OpenCode_proofs

-----------------------------------------------------------------------------
(* What the service understands of a request of Chat Completions: where    *)
(* the entries of a message are in it, and how they are read.              *)

\* Where all sequences but one are empty, that one is their concatenation.
LEMMA FlattenOne ==
    ASSUME NEW X, NEW s \in Seq(X), NEW L \in Nat, NEW u, NEW seqs,
           seqs = [m \in 1 .. L |-> IF m = u THEN s ELSE <<>>]
    PROVE  FlattenSeq(seqs) = IF u \in 1 .. L THEN s ELSE <<>>
<1> DEFINE none == <<>>
           Y == Seq(X)
           g == [n \in 0 .. L |-> IF u \in 1 .. n THEN s ELSE none]
<1>1. none \in Y /\ s \in Y
  OBVIOUS
<1>2. \A x \in Y : x \o none = x /\ none \o x = x
  BY ConcatEmptySeq
<1>3. seqs \in Seq(Y) /\ Len(seqs) = L
  <2>1. seqs \in [1 .. L -> Y]
    BY <1>1
  <2> HIDE DEF Y
  <2>2. seqs \in Seq(Y)
    BY <2>1, SeqDef
  <2> QED
    BY <2>1, <2>2, LenProperties
<1> HIDE DEF none
<1>4. \A n \in 1 .. L : seqs[n] = IF n = u THEN s ELSE none
  BY DEF none
<1> HIDE DEF Y
<1>5. g[0] = none /\ \A n \in 1 .. L : g[n] \in Y /\ g[n] = g[n - 1] \o seqs[n]
  <2>1. g[0] = none
    OBVIOUS
  <2>2. ASSUME NEW n \in 1 .. L PROVE g[n] \in Y /\ g[n] = g[n - 1] \o seqs[n]
    <3>1. n - 1 \in 0 .. L /\ n \in 0 .. L
      OBVIOUS
    <3>2. g[n] = (IF u \in 1 .. n THEN s ELSE none) /\ g[n - 1] = IF u \in 1 .. n - 1 THEN s ELSE none
      BY <3>1
    <3> HIDE DEF g
    <3>3. CASE n = u
      <4>1. u \in 1 .. n /\ u \notin 1 .. n - 1
        BY <3>3
      <4> QED
        BY <1>1, <1>2, <1>4, <3>2, <3>3, <4>1
    <3>4. CASE n # u
      <4>1. u \in 1 .. n <=> u \in 1 .. n - 1
        BY <3>4
      <4> QED
        BY <1>1, <1>2, <1>4, <3>2, <3>4, <4>1
    <3> QED
      BY <3>3, <3>4
  <2> QED
    BY <2>1, <2>2
<1>6. g[L] = IF u \in 1 .. L THEN s ELSE none
  OBVIOUS
<1> HIDE DEF g
<1>7. FlattenSeq(seqs) = g[Len(seqs)]
  <2>1. g[0] = <<>> /\ \A n \in 1 .. Len(seqs) : g[n] \in Seq(X) /\ g[n] = g[n - 1] \o seqs[n]
    BY <1>3, <1>5 DEF none, Y
  <2>2. seqs \in Seq(Seq(X))
    BY <1>3 DEF Y
  <2> QED
    BY ONLY <2>1, <2>2, FlattenRecursion
<1> QED
  BY <1>3, <1>6, <1>7 DEF none

\* Where the parts of a concatenation are in it.
Placed(seqs, all, off) ==
    /\ off \in [0 .. Len(seqs) -> Nat] /\ off[0] = 0 /\ off[Len(seqs)] = Len(all)
    /\ \A n \in 0 .. Len(seqs) : \A m \in 0 .. n : off[m] <= off[n]
    /\ \A n \in 1 .. Len(seqs) :
          /\ off[n] = off[n - 1] + Len(seqs[n])
          /\ \A k \in 1 .. Len(seqs[n]) : all[off[n - 1] + k] = seqs[n][k]
    /\ \A q \in 1 .. Len(all) : \E n \in 1 .. Len(seqs) : \E k \in 1 .. Len(seqs[n]) :
          q = off[n - 1] + k

\* The first part that goes as far as a position has it.
LEMMA PartAt ==
    ASSUME NEW N \in Nat, NEW off \in [0 .. N -> Nat], off[0] = 0,
           NEW q \in 1 .. off[N]
    PROVE  \E n \in 1 .. N : \E k \in 1 .. off[n] - off[n - 1] : q = off[n - 1] + k
<1> DEFINE T == {n \in 0 .. N : q <= off[n]}
<1>1. T # {} /\ T \in SUBSET Nat
  BY DEF T
<1>2. PICK n \in T : \A y \in T : n <= y
  BY <1>1, LeastNatural
<1>3. n \in 1 .. N /\ q <= off[n]
  BY <1>2
<1>4. n - 1 \in 0 .. N /\ n \in 0 .. N
  BY <1>3
<1>5. ~(q <= off[n - 1])
  <2>1. SUFFICES ASSUME q <= off[n - 1] PROVE FALSE
    OBVIOUS
  <2>2. n - 1 \in T
    BY <1>4, <2>1
  <2> HIDE DEF T
  <2> QED
    BY <1>2, <1>3, <2>2
<1>6. off[n] \in Nat /\ off[n - 1] \in Nat
  BY <1>4
<1> DEFINE k == q - off[n - 1]
<1>7. k \in 1 .. off[n] - off[n - 1] /\ q = off[n - 1] + k
  BY <1>3, <1>5, <1>6
<1> QED
  BY <1>3, <1>7

\* A concatenation has places for all of its parts.
LEMMA FlattenPlaces ==
    ASSUME NEW X, NEW seqs \in Seq(Seq(X))
    PROVE  \E off : Placed(seqs, FlattenSeq(seqs), off)
<1> DEFINE all == FlattenSeq(seqs)
           N == Len(seqs)
           Y == Seq(X)
<1>1. PICK g \in [0 .. N -> Y] : /\ g[0] = <<>>
                                 /\ \A n \in 1 .. N : g[n] = g[n - 1] \o seqs[n]
                                 /\ all = g[N]
  BY Flattening
<1>2. N \in Nat /\ \A n \in 1 .. N : seqs[n] \in Y /\ n - 1 \in 0 .. N /\ n \in 0 .. N
  <2>1. N \in Nat /\ \A n \in 1 .. N : seqs[n] \in Y
    <3> HIDE DEF Y
    <3>1. seqs \in Seq(Y)
      BY DEF Y
    <3> QED
      BY <3>1, LenProperties, ElementOfSeq
  <2> QED
    BY <2>1
<1>3. \A n \in 0 .. N : Len(g[n]) \in Nat
  BY <1>1, LenProperties
<1>4. \A n \in 1 .. N : Len(seqs[n]) \in Nat
  BY <1>2, LenProperties
<1> HIDE DEF all, N
<1>5. ASSUME NEW n \in 1 .. N
      PROVE  /\ Len(g[n]) = Len(g[n - 1]) + Len(seqs[n])
             /\ \A k \in 1 .. Len(g[n - 1]) : g[n][k] = g[n - 1][k]
             /\ \A k \in 1 .. Len(seqs[n]) : g[n][Len(g[n - 1]) + k] = seqs[n][k]
  <2> DEFINE s == g[n - 1]
             t == seqs[n]
  <2>1. s \in Seq(X) /\ t \in Seq(X) /\ g[n] = s \o t
    BY <1>1, <1>2
  <2>2. Len(s) \in Nat /\ Len(t) \in Nat
    BY <1>2, <1>3, <1>4
  <2> HIDE DEF s, t
  <2>3. /\ Len(s \o t) = Len(s) + Len(t)
        /\ \A i \in 1 .. Len(s) + Len(t) :
              (s \o t)[i] = IF i <= Len(s) THEN s[i] ELSE t[i - Len(s)]
    BY <2>1, ConcatProperties
  <2>4. \A k \in 1 .. Len(s) : (s \o t)[k] = s[k]
    BY <2>2, <2>3
  <2>5. ASSUME NEW k \in 1 .. Len(t) PROVE (s \o t)[Len(s) + k] = t[k]
    <3>1. /\ Len(s) + k \in 1 .. Len(s) + Len(t) /\ ~(Len(s) + k <= Len(s))
          /\ (Len(s) + k) - Len(s) = k
      BY <2>2
    <3> QED
      BY <2>3, <3>1
  <2> QED
    BY <2>1, <2>3, <2>4, <2>5 DEF s, t
<1> DEFINE Begins(n, m) == /\ Len(g[n]) <= Len(g[m])
                           /\ \A k \in 1 .. Len(g[n]) : g[m][k] = g[n][k]
           S == {m \in Nat : m <= N => \A n \in 0 .. m : Begins(n, m)}
<1>6. 0 \in S
  <2>1. Begins(0, 0)
    BY <1>2, <1>3
  <2> HIDE DEF Begins
  <2> QED
    BY <2>1
<1>7. ASSUME NEW m \in Nat, m \in S PROVE m + 1 \in S
  <2>1. SUFFICES ASSUME m + 1 <= N, NEW n \in 0 .. m + 1 PROVE Begins(n, m + 1)
    BY <1>2
  <2>2. \A l \in 0 .. m : Begins(l, m)
    BY <1>2, <1>7, <2>1
  <2>3. m + 1 \in 1 .. N /\ m + 1 - 1 = m /\ m \in 0 .. N /\ n \in 0 .. N
    BY <1>2, <2>1
  <2>4. CASE n = m + 1
    <3>1. Len(g[n]) \in Nat
      BY <1>3, <2>3
    <3> QED
      BY <2>4, <3>1
  <2> HIDE DEF S
  <2>5. CASE n # m + 1
    <3>1. n \in 0 .. m
      BY <2>5
    <3>2. /\ Len(g[n]) <= Len(g[m]) /\ \A k \in 1 .. Len(g[n]) : g[m][k] = g[n][k]
      BY <2>2, <3>1
    <3>3. /\ Len(g[m + 1]) = Len(g[m]) + Len(seqs[m + 1])
          /\ \A k \in 1 .. Len(g[m]) : g[m + 1][k] = g[m][k]
      <4> DEFINE l == m + 1
      <4>1. l \in 1 .. N /\ l - 1 = m
        BY <2>3
      <4> HIDE DEF l
      <4>2. /\ Len(g[l]) = Len(g[m]) + Len(seqs[l])
            /\ \A k \in 1 .. Len(g[m]) : g[l][k] = g[m][k]
        BY <1>5, <4>1
      <4> QED
        BY <4>2 DEF l
    <3>4. Len(g[n]) \in Nat /\ Len(g[m]) \in Nat /\ Len(seqs[m + 1]) \in Nat
      BY <1>3, <1>4, <2>3
    <3>5. \A k \in 1 .. Len(g[n]) : k \in 1 .. Len(g[m])
      BY <3>2, <3>4
    <3>6. Len(g[n]) <= Len(g[m + 1])
      <4>1. \A a, b, c \in Nat : a <= b => a <= b + c
        OBVIOUS
      <4> QED
        BY ONLY <3>2, <3>3, <3>4, <4>1
    <3> QED
      BY <3>2, <3>3, <3>5, <3>6
  <2> QED
    BY <2>4, <2>5
<1>8. ASSUME NEW m \in 0 .. N, NEW n \in 0 .. m PROVE Begins(n, m)
  <2> HIDE DEF Begins
  <2>1. m \in Nat /\ m <= N
    BY <1>2
  <2>2. m \in S
    <3> HIDE DEF S
    <3>1. Nat \subseteq S
      BY ONLY <1>6, <1>7, SetInduction
    <3> QED
      BY <2>1, <3>1
  <2> QED
    BY <2>1, <2>2
<1> HIDE DEF S
<1> DEFINE off == [n \in 0 .. N |-> Len(g[n])]
<1>9. off \in [0 .. N -> Nat] /\ \A n \in 0 .. N : off[n] = Len(g[n])
  BY <1>3
<1>10. off[0] = 0 /\ off[N] = Len(all)
  BY <1>1, <1>2, <1>9
<1> HIDE DEF off
<1>11. ASSUME NEW n \in 1 .. N
       PROVE  /\ off[n] = off[n - 1] + Len(seqs[n])
              /\ \A k \in 1 .. Len(seqs[n]) : all[off[n - 1] + k] = seqs[n][k]
  <2>1. /\ off[n] = Len(g[n]) /\ off[n - 1] = Len(g[n - 1]) /\ all = g[N]
        /\ Len(g[n]) \in Nat /\ Len(g[n - 1]) \in Nat /\ Len(seqs[n]) \in Nat
    BY <1>1, <1>2, <1>3, <1>4, <1>9
  <2>2. \A k \in 1 .. Len(g[n]) : all[k] = g[n][k]
    <3>1. N \in 0 .. N /\ n \in 0 .. N
      BY <1>2
    <3>2. Begins(n, N)
      BY <1>8, <3>1
    <3> QED
      BY <2>1, <3>2
  <2>3. /\ Len(g[n]) = Len(g[n - 1]) + Len(seqs[n])
        /\ \A k \in 1 .. Len(seqs[n]) : g[n][Len(g[n - 1]) + k] = seqs[n][k]
    BY <1>5
  <2>4. \A k \in 1 .. Len(seqs[n]) : Len(g[n - 1]) + k \in 1 .. Len(g[n])
    <3>1. \A a, b \in Nat : \A k \in 1 .. b : a + k \in 1 .. a + b
      OBVIOUS
    <3> QED
      BY ONLY <2>1, <2>3, <3>1
  <2>5. ASSUME NEW k \in 1 .. Len(seqs[n]) PROVE all[off[n - 1] + k] = seqs[n][k]
    <3>1. off[n - 1] + k \in 1 .. Len(g[n]) /\ g[n][off[n - 1] + k] = seqs[n][k]
      BY <2>1, <2>3, <2>4
    <3> QED
      BY <2>2, <3>1
  <2> QED
    BY <2>1, <2>3, <2>5
<1>12. \A n \in 0 .. N : \A m \in 0 .. n : off[m] <= off[n]
  <2>1. SUFFICES ASSUME NEW n \in 0 .. N, NEW m \in 0 .. n PROVE off[m] <= off[n]
    OBVIOUS
  <2>2. m \in 0 .. N
    BY <1>2
  <2>3. Begins(m, n)
    BY <1>8
  <2> QED
    BY <1>9, <2>2, <2>3
<1>13. ASSUME NEW q \in 1 .. Len(all)
       PROVE  \E n \in 1 .. N : \E k \in 1 .. Len(seqs[n]) : q = off[n - 1] + k
  <2>0. N \in Nat /\ off \in [0 .. N -> Nat] /\ off[0] = 0 /\ q \in 1 .. off[N]
    BY <1>2, <1>9, <1>10
  <2>1. PICK n \in 1 .. N : \E k \in 1 .. off[n] - off[n - 1] : q = off[n - 1] + k
    BY ONLY <2>0, PartAt
  <2>2. off[n] - off[n - 1] = Len(seqs[n])
    <3>1. off[n] \in Nat /\ off[n - 1] \in Nat /\ Len(seqs[n]) \in Nat
      BY <1>2, <1>4, <1>9
    <3> QED
      BY <1>11, <3>1
  <2> QED
    BY <2>1, <2>2
<1>14. Placed(seqs, all, off)
  <2>1. \A n \in 1 .. N :
           /\ off[n] = off[n - 1] + Len(seqs[n])
           /\ \A k \in 1 .. Len(seqs[n]) : all[off[n - 1] + k] = seqs[n][k]
    BY <1>11
  <2>2. \A q \in 1 .. Len(all) : \E n \in 1 .. N : \E k \in 1 .. Len(seqs[n]) : q = off[n - 1] + k
    BY <1>13
  <2> QED
    BY <1>9, <1>10, <1>12, <2>1, <2>2 DEF Placed, N
<1> QED
  BY <1>14 DEF all

\* What is read at rising places, and nowhere else,
ReadInOrder(reads, L, at, s) ==
    /\ reads = [q \in 1 .. L |-> reads[q]]
    /\ \A i \in 1 .. Len(s) : at[i] \in Nat
    /\ \A i \in 1 .. Len(s) : at[i] \in 1 .. L /\ reads[at[i]] = <<s[i]>>
    /\ \A i \in 1 .. Len(s) - 1 : at[i] < at[i + 1]
    /\ \A q \in 1 .. L : reads[q] = <<>> \/ \E i \in 1 .. Len(s) : q = at[i]

\* reads in their order.
LEMMA FlattenRising ==
    ASSUME NEW X, NEW s \in Seq(X), NEW L \in Nat, NEW reads, NEW at,
           ReadInOrder(reads, L, at, s)
    PROVE  FlattenSeq(reads) = s
<1> DEFINE N == Len(s)
           Y == Seq(X)
           none == <<>>
<1>0. /\ \A i \in 1 .. N : at[i] \in Nat
      /\ \A i \in 1 .. N : at[i] \in 1 .. L /\ reads[at[i]] = <<s[i]>>
      /\ \A i \in 1 .. N - 1 : at[i] < at[i + 1]
      /\ \A q \in 1 .. L : reads[q] = none \/ \E i \in 1 .. N : q = at[i]
  BY DEF ReadInOrder
<1>1. N \in Nat /\ \A i \in 1 .. N : s[i] \in X /\ <<s[i]>> \in Y
  <2>1. N \in Nat /\ \A i \in 1 .. N : s[i] \in X
    BY LenProperties, ElementOfSeq
  <2> QED
    BY <2>1
<1>2. none \in Y /\ \A x \in Y : x \o none = x
  BY ConcatEmptySeq
<1>3. \A q \in 1 .. L : reads[q] \in Y
  <2>1. SUFFICES ASSUME NEW q \in 1 .. L PROVE reads[q] \in Y
    OBVIOUS
  <2>2. reads[q] = none \/ \E i \in 1 .. N : reads[q] = <<s[i]>>
    <3>1. reads[q] = none \/ \E i \in 1 .. N : q = at[i]
      BY <1>0
    <3>2. \A i \in 1 .. N : reads[at[i]] = <<s[i]>>
      BY <1>0
    <3> QED
      BY ONLY <3>1, <3>2
  <2> HIDE DEF Y, none, N
  <2> QED
    BY <1>1, <1>2, <2>2
<1>4. reads \in Seq(Y) /\ Len(reads) = L
  <2> HIDE DEF Y
  <2>1. reads \in [1 .. L -> Y]
    BY <1>3 DEF ReadInOrder
  <2> QED
    BY <2>1, SeqDef, LenProperties
<1>5. PICK g \in [0 .. L -> Y] : /\ g[0] = none
                                 /\ \A n \in 1 .. L : g[n] = g[n - 1] \o reads[n]
                                 /\ FlattenSeq(reads) = g[L]
  BY <1>4, Flattening
<1> DEFINE Told(q, n) == /\ g[q] = SubSeq(s, 1, n)
                         /\ \A i \in 1 .. n : at[i] <= q
                         /\ \A i \in n + 1 .. N : q < at[i]
           S == {q \in Nat : q <= L => \E n \in 0 .. N : Told(q, n)}
<1>6. \A i \in 1 .. N : at[i] \in Nat /\ at[i] \in 1 .. L /\ reads[at[i]] = <<s[i]>>
  BY <1>0
<1>7. \A i \in 1 .. N - 1 : at[i] < at[i + 1]
  BY <1>0
<1>8. \A q \in 1 .. L : reads[q] = none \/ \E i \in 1 .. N : q = at[i]
  BY <1>0
<1>9. 0 \in S
  <2>1. SubSeq(s, 1, 0) = none
    BY <1>1
  <2>2. \A i \in 0 + 1 .. N : 0 < at[i]
    <3>1. SUFFICES ASSUME NEW i \in 0 + 1 .. N PROVE 0 < at[i]
      OBVIOUS
    <3>2. i \in 1 .. N
      OBVIOUS
    <3>3. at[i] \in 1 .. L
      BY ONLY <1>6, <3>2
    <3> QED
      BY ONLY <3>3, L \in Nat
  <2>3. \A i \in 1 .. 0 : at[i] <= 0
    OBVIOUS
  <2>4. Told(0, 0)
    BY <1>5, <2>1, <2>2, <2>3
  <2> HIDE DEF Told
  <2> QED
    BY <1>1, <2>4
<1>10. \A n \in 0 .. N - 1 : SubSeq(s, 1, n + 1) = SubSeq(s, 1, n) \o <<s[n + 1]>>
  <2>1. SUFFICES ASSUME NEW n \in 0 .. N - 1
                 PROVE  SubSeq(s, 1, n + 1) = SubSeq(s, 1, n) \o <<s[n + 1]>>
    OBVIOUS
  <2>2. n \in Nat /\ n < Len(s)
    BY <1>1
  <2> QED
    BY ONLY s \in Seq(X), <2>2, NextPart
<1> HIDE DEF N, none, Y
<1>11. ASSUME NEW q \in Nat, q \in S PROVE q + 1 \in S
  <2>1. SUFFICES ASSUME q + 1 <= L PROVE \E n \in 0 .. N : Told(q + 1, n)
    <3> HIDE DEF Told
    <3> QED
      OBVIOUS
  <2>2. PICK n \in 0 .. N : Told(q, n)
    <3> HIDE DEF Told
    <3>1. q <= L
      BY <2>1
    <3> QED
      BY <1>11, <3>1
  <2> HIDE DEF S
  <2>3. /\ g[q] = SubSeq(s, 1, n) /\ g[q] \in Y
        /\ \A i \in 1 .. n : at[i] <= q
        /\ \A i \in n + 1 .. N : q < at[i]
    <3>1. q \in 0 .. L
      BY <2>1
    <3> QED
      BY <1>5, <2>2, <3>1
  <2>4. g[q + 1] = g[q] \o reads[q + 1] /\ q + 1 \in 1 .. L
    <3> DEFINE p == q + 1
    <3>1. p \in 1 .. L /\ p - 1 = q
      BY <2>1
    <3> HIDE DEF p
    <3>2. g[p] = g[q] \o reads[p]
      BY <1>5, <3>1
    <3> QED
      BY <3>1, <3>2 DEF p
  <2>5. ASSUME NEW i \in n + 2 .. N PROVE q + 1 < at[i]
    <3>1. i - 1 \in n + 1 .. N /\ i - 1 \in 1 .. N - 1 /\ (i - 1) + 1 = i /\ i \in 1 .. N
      BY <1>1
    <3>2. q < at[i - 1] /\ at[i - 1] < at[i]
      BY <1>7, <2>3, <3>1
    <3>3. at[i - 1] \in Nat /\ at[i] \in Nat
      BY <1>1, <1>6, <3>1
    <3> QED
      BY <3>2, <3>3
  <2>6. CASE n < N /\ at[n + 1] = q + 1
    <3>1. n + 1 \in 1 .. N /\ n + 1 \in 0 .. N /\ n \in 0 .. N - 1
      BY <1>1, <2>6
    <3>2. reads[q + 1] = <<s[n + 1]>>
      BY <1>6, <2>6, <3>1
    <3>3. g[q + 1] = SubSeq(s, 1, n + 1)
      BY <1>10, <2>3, <2>4, <3>1, <3>2
    <3>4. \A i \in 1 .. n + 1 : at[i] <= q + 1
      <4>1. SUFFICES ASSUME NEW i \in 1 .. n + 1 PROVE at[i] <= q + 1
        OBVIOUS
      <4>2. at[i] \in Nat
        <5>1. i \in 1 .. N
          BY ONLY <1>1, <3>1, i \in 1 .. n + 1, n \in 0 .. N
        <5> QED
          BY ONLY <1>6, <5>1
      <4>3. CASE i = n + 1
        BY <2>6, <4>2, <4>3
      <4>4. CASE i # n + 1
        <5>1. i \in 1 .. n
          BY <4>4
        <5> QED
          BY <2>3, <4>2, <5>1
      <4> QED
        BY <4>3, <4>4
    <3>5. \A i \in n + 1 + 1 .. N : q + 1 < at[i]
      BY <2>5
    <3>6. Told(q + 1, n + 1)
      BY <3>3, <3>4, <3>5
    <3> HIDE DEF Told
    <3> QED
      BY <3>1, <3>6
  <2>7. CASE ~(n < N /\ at[n + 1] = q + 1)
    <3>1. \A i \in n + 1 .. N : q + 1 < at[i]
      <4>1. SUFFICES ASSUME NEW i \in n + 1 .. N PROVE q + 1 < at[i]
        OBVIOUS
      <4>2. i \in 1 .. N /\ at[i] \in Nat /\ q < at[i]
        BY <1>1, <1>6, <2>3
      <4>3. CASE i = n + 1
        BY <1>1, <2>7, <4>2, <4>3
      <4>4. CASE i # n + 1
        BY <1>1, <2>5, <4>4
      <4> QED
        BY <4>3, <4>4
    <3>2. \A i \in 1 .. n : at[i] <= q /\ at[i] \in Nat
      BY <1>1, <1>6, <2>3
    <3>3. ASSUME NEW i \in 1 .. N PROVE q + 1 # at[i]
      <4>1. i \in 1 .. n \/ i \in n + 1 .. N
        BY <1>1
      <4> QED
        BY <3>1, <3>2, <4>1
    <3>4. reads[q + 1] = none
      BY <1>8, <2>4, <3>3
    <3>5. g[q + 1] = SubSeq(s, 1, n)
      BY <1>2, <2>3, <2>4, <3>4
    <3>6. \A i \in 1 .. n : at[i] <= q + 1
      BY <3>2
    <3>7. Told(q + 1, n)
      BY <3>1, <3>5, <3>6
    <3> HIDE DEF Told
    <3> QED
      BY <3>7
  <2> QED
    BY <2>6, <2>7
<1>12. \E n \in 0 .. N : Told(L, n)
  <2>1. L \in S
    <3> HIDE DEF S
    <3> QED
      BY <1>9, <1>11, SetInduction
  <2> HIDE DEF Told
  <2> QED
    BY <2>1
<1>13. PICK n \in 0 .. N : Told(L, n)
  BY <1>12
<1>14. n = N
  <2>1. SUFFICES ASSUME n # N PROVE FALSE
    OBVIOUS
  <2>2. N \in n + 1 .. N /\ N \in 1 .. N
    BY <1>1, <2>1
  <2>3. L < at[N] /\ at[N] \in 1 .. L
    BY <1>6, <1>13, <2>2
  <2> QED
    BY <2>3
<1>15. g[L] = SubSeq(s, 1, N)
  BY <1>13, <1>14
<1>16. SubSeq(s, 1, N) = s
  BY DEF N
<1> QED
  BY <1>5, <1>15, <1>16

\* Sequences of which each is one are a sequence of sequences.
LEMMA ListsOf ==
    ASSUME NEW seqs, NEW N \in Nat, DOMAIN seqs = 1 .. N, seqs = [i \in 1 .. N |-> seqs[i]],
           \A i \in 1 .. N : IsSequence(seqs[i])
    PROVE  \E X : seqs \in Seq(Seq(X)) /\ Len(seqs) = N
<1> DEFINE X == UNION {ToSet(seqs[i]) : i \in 1 .. N}
           Y == Seq(X)
<1>1. ASSUME NEW i \in 1 .. N PROVE seqs[i] \in Y
  <2>1. seqs[i] \in Seq(ToSet(seqs[i])) /\ ToSet(seqs[i]) \subseteq X
    BY DEF IsSequence
  <2> HIDE DEF X
  <2> QED
    BY <2>1, SeqDef
<1> HIDE DEF X, Y
<1>2. seqs \in [1 .. N -> Y]
  BY <1>1
<1>3. seqs \in Seq(Y)
  BY <1>2, SeqDef
<1> QED
  BY <1>2, <1>3, LenProperties DEF Y

\* Results that stand together.
LEMMA ResultsRun ==
    ASSUME NEW messages, IsSequence(messages), NEW i \in Has(messages, "tool")
    PROVE  LET run == ResultsFrom(messages, i)
               n == Len(run)
           IN  /\ IsSequence(run) /\ n \in Nat \ {0} /\ i + n - 1 <= Len(messages)
               /\ \A k \in 1 .. n : run[k] = messages[i + k - 1] /\ run[k].role = "tool"
               /\ i + n <= Len(messages) => messages[i + n].role # "tool"
<1> DEFINE N == Len(messages)
           others == {j \in i .. N : messages[j].role # "tool"}
           last == IF others = {} THEN N ELSE Min(others) - 1
<1>1. /\ messages \in Seq(ToSet(messages)) /\ N \in Nat /\ DOMAIN messages = 1 .. N
      /\ i \in 1 .. N /\ messages[i].role = "tool"
  BY ListDomain DEF Has
<1>2. /\ last \in i .. N /\ \A j \in i .. last : messages[j].role = "tool"
      /\ last + 1 <= N => messages[last + 1].role # "tool"
  <2>1. CASE others = {}
    BY <1>1, <2>1
  <2>2. CASE others # {}
    <3>1. others \in SUBSET Nat
      BY <1>1
    <3>2. Min(others) \in others /\ \A y \in others : Min(others) <= y
      BY <2>2, <3>1, LeastPosition
    <3> DEFINE m == Min(others)
    <3>3. last = m - 1
      BY <2>2
    <3>4. m \in i .. N /\ messages[m].role # "tool" /\ m # i
      BY <1>1, <3>2
    <3> HIDE DEF m, last
    <3>5. \A j \in i .. m - 1 : messages[j].role = "tool"
      <4>1. SUFFICES ASSUME NEW j \in i .. m - 1, messages[j].role # "tool" PROVE FALSE
        OBVIOUS
      <4>2. j \in others
        BY <1>1, <3>4, <4>1
      <4>3. m <= j
        BY <3>2, <4>2 DEF m
      <4> QED
        BY <1>1, <3>4, <4>1, <4>3
    <3> QED
      BY <1>1, <3>3, <3>4, <3>5
  <2> QED
    BY <2>1, <2>2
<1>3. ResultsFrom(messages, i) = SubSeq(messages, i, last)
  BY DEF ResultsFrom
<1> HIDE DEF last, others, N
<1> DEFINE run == SubSeq(messages, i, last)
<1>4. i \in Nat \ {0} /\ last \in Nat /\ i <= last /\ last <= N
  BY <1>1, <1>2
<1>5. run = [k \in 1 .. last - i + 1 |-> messages[i + k - 1]]
  BY <1>1, <1>4 DEF N
<1>6. IsSequence(run) /\ Len(run) = last - i + 1
  <2>1. last - i + 1 \in Nat
    BY <1>4
  <2>2. DOMAIN run = 1 .. last - i + 1 /\ run = [k \in 1 .. last - i + 1 |-> run[k]]
    BY <1>5
  <2> HIDE DEF run
  <2> QED
    BY <2>1, <2>2, ListMade
<1>7. ASSUME NEW k \in 1 .. last - i + 1
      PROVE run[k] = messages[i + k - 1] /\ messages[i + k - 1].role = "tool"
  <2>1. run[k] = messages[i + k - 1]
    BY <1>5
  <2>2. i + k - 1 \in i .. last
    BY <1>4
  <2> QED
    BY <1>2, <2>1, <2>2
<1> HIDE DEF run
<1>8. i + Len(run) = last + 1 /\ Len(run) \in Nat \ {0}
  BY <1>4, <1>6
<1> QED
  BY <1>2, <1>3, <1>4, <1>6, <1>7, <1>8 DEF run, N

\* Chat's own copies of the operators on messages.
LEMMA SameTalk ==
    /\ \A s : C!FlattenSeq(s) = FlattenSeq(s)
    /\ \A s, I : C!Select(s, I) = Select(s, I)
    /\ \A m, r : C!Has(m, r) = Has(m, r)
    /\ \A m, i : C!StartsResults(m, i) = StartsResults(m, i)
    /\ \A m, i : C!ResultsFrom(m, i) = ResultsFrom(m, i)
    /\ \A a, b, c : C!User(a, b, c) = User(a, b, c) /\ C!Result(a, b, c) = Result(a, b, c)
<1>1. \A s, I : C!Select(s, I) = Select(s, I)
  BY DEF C!Select, Select, C!Selections, Selections
<1>2. \A s : C!FlattenSeq(s) = FlattenSeq(s)
  BY DEF C!FlattenSeq, FlattenSeq
<1>3. \A m, r : C!Has(m, r) = Has(m, r)
  BY DEF C!Has, Has
<1>4. \A m, i : C!StartsResults(m, i) = StartsResults(m, i)
  BY <1>3 DEF C!StartsResults, StartsResults
<1>5. \A m, i : C!ResultsFrom(m, i) = ResultsFrom(m, i)
  BY DEF C!ResultsFrom, ResultsFrom, C!Min, Min
<1>6. \A a, b, c : C!User(a, b, c) = User(a, b, c) /\ C!Result(a, b, c) = Result(a, b, c)
  BY DEF C!User, User, C!Result, Result
<1> QED
  BY <1>1, <1>2, <1>3, <1>4, <1>5, <1>6

\* What a conversation reads like, and a request of it.
Talk(messages) ==
    /\ IsSequence(messages) /\ \A i \in DOMAIN messages : Formed(messages[i])
    /\ Grouped(messages) /\ AnsweredOnce(messages)

Pictured(run) == Select(run, {n \in DOMAIN run : run[n].images # <<>>})

\* The entries of results that stand together.
LEMMA ChatResults ==
    ASSUME NEW run, IsSequence(run)
    PROVE  LET e == C!ResultEntries(run)
               n == Len(run)
               p == Len(Pictured(run))
           IN  /\ IsSequence(e) /\ n \in Nat /\ p \in Nat /\ Len(e) = n + p
               /\ \A k \in 1 .. n : e[k] = C!ToolEntry(run[k])
               /\ \A k \in 1 .. p : e[n + k] = C!ImagesEntry(Pictured(run)[k])
<1> DEFINE pictured == Pictured(run)
           n == Len(run)
           p == Len(pictured)
           results == [k \in 1 .. n |-> C!ToolEntry(run[k])]
           images == [k \in 1 .. p |-> C!ImagesEntry(pictured[k])]
<1>1. n \in Nat /\ DOMAIN run = 1 .. n
  BY ListDomain
<1>2. IsSequence(pictured)
  BY ListSelect DEF Pictured
<1>3. p \in Nat /\ DOMAIN pictured = 1 .. p
  BY <1>2, ListDomain
<1>4. C!ResultEntries(run) = results \o images
  <2>1. C!Select(run, {k \in DOMAIN run : run[k].images # <<>>}) = pictured
    BY SameTalk DEF Pictured
  <2> QED
    BY <1>1, <1>3, <2>1 DEF C!ResultEntries
<1> HIDE DEF pictured, n, p
<1>5. IsSequence(results) /\ Len(results) = n
  <2>1. DOMAIN results = 1 .. n /\ results = [k \in 1 .. n |-> results[k]]
    OBVIOUS
  <2> HIDE DEF results
  <2> QED
    BY <1>1, <2>1, ListMade
<1>6. IsSequence(images) /\ Len(images) = p
  <2>1. DOMAIN images = 1 .. p /\ images = [k \in 1 .. p |-> images[k]]
    OBVIOUS
  <2> HIDE DEF images
  <2> QED
    BY <1>3, <2>1, ListMade
<1>7. /\ \A k \in 1 .. n : results[k] = C!ToolEntry(run[k])
      /\ \A k \in 1 .. p : images[k] = C!ImagesEntry(pictured[k])
  OBVIOUS
<1> HIDE DEF results, images
<1>8. /\ IsSequence(results \o images) /\ Len(results \o images) = n + p
      /\ \A k \in 1 .. n : (results \o images)[k] = results[k]
      /\ \A k \in 1 .. p : (results \o images)[n + k] = images[k]
  BY <1>5, <1>6, ListConcat
<1> QED
  BY <1>1, <1>3, <1>4, <1>7, <1>8 DEF pictured, n, p

\* The entries that begin with a message.
LEMMA ChatEntry ==
    ASSUME NEW messages, IsSequence(messages), NEW i \in DOMAIN messages, Formed(messages[i])
    PROVE  LET e == C!Entry(messages, i)
               m == messages[i]
           IN  /\ IsSequence(e)
               /\ m.role = "user" =>
                     e = <<C!UserEntry(m.content, m.images, m.documents, <<>>)>>
               /\ m.role = "assistant" => e = <<m>>
               /\ m.role = "tool" =>
                     e = IF StartsResults(messages, i)
                         THEN C!ResultEntries(ResultsFrom(messages, i)) ELSE <<>>
<1> DEFINE m == messages[i]
           starts == StartsResults(messages, i)
<1>1. C!StartsResults(messages, i) = starts /\ C!ResultsFrom(messages, i) = ResultsFrom(messages, i)
  BY SameTalk
<1>2. m.role \in {"user", "assistant", "tool"}
  BY DEF Formed
<1>3. starts => m.role = "tool" /\ i \in Has(messages, "tool")
  BY DEF StartsResults, Has
<1>4. \A x : IsSequence(<<x>>) /\ IsSequence(<<>>)
  <2>1. SUFFICES ASSUME NEW x PROVE IsSequence(<<x>>) /\ IsSequence(<<>>)
    OBVIOUS
  <2> QED
    BY DEF IsSequence, ToSet
<1>5. CASE m.role = "user"
  <2>1. C!Entry(messages, i) = <<C!UserEntry(m.content, m.images, m.documents, <<>>)>>
    BY <1>1, <1>3, <1>5 DEF C!Entry
  <2> QED
    BY <1>4, <1>5, <2>1
<1>6. CASE m.role = "assistant"
  <2>1. C!Entry(messages, i) = <<m>>
    BY <1>1, <1>3, <1>6 DEF C!Entry
  <2> QED
    BY <1>4, <1>6, <2>1
<1>7. CASE m.role = "tool" /\ ~starts
  <2>1. C!Entry(messages, i) = <<>>
    BY <1>1, <1>7 DEF C!Entry
  <2> QED
    BY <1>4, <1>7, <2>1
<1>8. CASE starts
  <2>1. C!Entry(messages, i) = C!ResultEntries(ResultsFrom(messages, i))
    BY <1>1, <1>3, <1>8 DEF C!Entry
  <2>2. IsSequence(ResultsFrom(messages, i))
    BY <1>3, <1>8, ResultsRun
  <2>3. IsSequence(C!ResultEntries(ResultsFrom(messages, i)))
    BY <2>2, ChatResults
  <2> QED
    BY <1>3, <1>8, <2>1, <2>3
<1> QED
  BY <1>2, <1>5, <1>6, <1>7, <1>8

\* Where the results begin that stand together with one.
FirstOf(messages, i) == Min({s \in 1 .. i : \A n \in s .. i : messages[n].role = "tool"})

\* They do begin there, and nowhere else.
LEMMA RunStart ==
    ASSUME NEW messages, IsSequence(messages), NEW i \in Has(messages, "tool")
    PROVE  LET s == FirstOf(messages, i)
           IN  /\ s \in 1 .. i /\ StartsResults(messages, s)
               /\ \A n \in s .. i : messages[n].role = "tool"
               /\ \A r \in 1 .. i : /\ StartsResults(messages, r)
                                    /\ \A n \in r .. i : messages[n].role = "tool"
                                    => r = s
<1> DEFINE T == {s \in 1 .. i : \A n \in s .. i : messages[n].role = "tool"}
           s == Min(T)
<1>1. /\ DOMAIN messages = 1 .. Len(messages) /\ Len(messages) \in Nat
      /\ i \in 1 .. Len(messages) /\ messages[i].role = "tool"
  BY ListDomain DEF Has
<1>2. i \in T /\ T \in SUBSET Nat
  BY <1>1
<1>3. s \in T /\ \A y \in T : s <= y
  <2> HIDE DEF T
  <2> QED
    BY <1>2, LeastPosition
<1> HIDE DEF s
<1>4. s \in 1 .. i /\ \A n \in s .. i : messages[n].role = "tool"
  BY <1>3
<1>5. s = 1 \/ messages[s - 1].role # "tool"
  <2>1. SUFFICES ASSUME s # 1, messages[s - 1].role = "tool" PROVE FALSE
    OBVIOUS
  <2>2. s - 1 \in 1 .. i
    BY <1>1, <1>4, <2>1
  <2>3. \A n \in s - 1 .. i : messages[n].role = "tool"
    <3>1. \A n \in s - 1 .. i : n = s - 1 \/ n \in s .. i
      BY <1>1, <1>4
    <3> QED
      BY <1>4, <2>1, <3>1
  <2>4. s - 1 \in T
    BY <2>2, <2>3
  <2>5. s <= s - 1
    BY <1>3, <2>4
  <2> QED
    BY <1>4, <2>5
<1>6. StartsResults(messages, s)
  <2>1. s \in DOMAIN messages /\ messages[s].role = "tool"
    BY <1>1, <1>4
  <2> QED
    BY <1>5, <2>1 DEF StartsResults, Has
<1>7. ASSUME NEW r \in 1 .. i, StartsResults(messages, r),
             \A n \in r .. i : messages[n].role = "tool", r # s
      PROVE  FALSE
  <2>1. r \in T
    BY <1>7
  <2>2. s <= r
    BY <1>3, <2>1
  <2>3. r - 1 \in s .. i /\ r # 1
    BY <1>1, <1>4, <1>7, <2>2
  <2>4. messages[r - 1].role = "tool"
    BY <1>4, <2>3
  <2> QED
    BY <1>7, <2>3, <2>4 DEF StartsResults
<1>8. s = FirstOf(messages, i)
  BY DEF s, FirstOf
<1> HIDE DEF T
<1> QED
  BY <1>4, <1>6, <1>7, <1>8

\* Where the entries of the messages are in a request.
ChatParts(messages) == [i \in 1 .. Len(messages) |-> C!Entry(messages, i)]
ChatPlaced(messages, entries, off) ==
    /\ IsSequence(entries) /\ Len(entries) \in Nat
    /\ Placed(ChatParts(messages), entries, off)

\* They are there.
LEMMA ChatPlaces ==
    ASSUME NEW messages, Talk(messages), NEW tools
    PROVE  \E off : ChatPlaced(messages, C!Request(messages, tools).entries, off)
<1> DEFINE parts == ChatParts(messages)
           N == Len(messages)
<1>1. IsSequence(messages) /\ N \in Nat /\ DOMAIN messages = 1 .. N
  BY ListDomain DEF Talk
<1>2. ASSUME NEW i \in 1 .. N PROVE IsSequence(parts[i])
  <2>1. Formed(messages[i])
    BY <1>1 DEF Talk
  <2>2. IsSequence(C!Entry(messages, i))
    BY <1>1, <2>1, ChatEntry
  <2> QED
    BY <2>2 DEF ChatParts
<1>3. DOMAIN parts = 1 .. N /\ parts = [i \in 1 .. N |-> parts[i]]
  BY DEF ChatParts
<1>4. C!Request(messages, tools).entries = FlattenSeq(parts)
  BY <1>1, SameTalk DEF C!Request, ChatParts
<1> HIDE DEF parts
<1>5. PICK X : parts \in Seq(Seq(X)) /\ Len(parts) = N
  BY ONLY <1>1, <1>2, <1>3, ListsOf
<1>6. \E off : Placed(parts, FlattenSeq(parts), off)
  BY <1>5, FlattenPlaces
<1>7. IsSequence(FlattenSeq(parts)) /\ Len(FlattenSeq(parts)) \in Nat
  <2>1. FlattenSeq(parts) \in Seq(X)
    BY <1>5, FlattenType
  <2> QED
    BY <2>1, ListOf, LenProperties
<1> QED
  BY <1>4, <1>6, <1>7 DEF ChatPlaced, parts

\* What is known of the places.
LEMMA ChatOffsets ==
    ASSUME NEW messages, IsSequence(messages), NEW entries, NEW off,
           ChatPlaced(messages, entries, off)
    PROVE  LET N == Len(messages)
           IN  /\ N \in Nat /\ DOMAIN messages = 1 .. N /\ off \in [0 .. N -> Nat]
               /\ off[0] = 0 /\ off[N] = Len(entries)
               /\ DOMAIN entries = 1 .. Len(entries) /\ Len(entries) \in Nat
               /\ \A n \in 0 .. N : \A m \in 0 .. n : off[m] <= off[n]
               /\ \A n \in 1 .. N :
                     /\ off[n] = off[n - 1] + Len(C!Entry(messages, n))
                     /\ \A k \in 1 .. Len(C!Entry(messages, n)) :
                           entries[off[n - 1] + k] = C!Entry(messages, n)[k]
               /\ \A q \in 1 .. Len(entries) :
                     \E n \in 1 .. N : \E k \in 1 .. Len(C!Entry(messages, n)) :
                        q = off[n - 1] + k
<1> DEFINE N == Len(messages)
           parts == ChatParts(messages)
<1>1. N \in Nat /\ DOMAIN messages = 1 .. N
  BY ListDomain
<1>2. Len(parts) = N /\ \A n \in 1 .. N : parts[n] = C!Entry(messages, n)
  <2>1. DOMAIN parts = 1 .. N /\ parts = [i \in 1 .. N |-> parts[i]]
    BY DEF ChatParts
  <2>2. \A n \in 1 .. N : parts[n] = C!Entry(messages, n)
    BY DEF ChatParts
  <2> HIDE DEF parts
  <2> QED
    BY <1>1, <2>1, <2>2, ListMade
<1>3. IsSequence(entries) /\ Len(entries) \in Nat /\ Placed(parts, entries, off)
  BY DEF ChatPlaced
<1>4. DOMAIN entries = 1 .. Len(entries)
  BY <1>3, ListDomain
<1> HIDE DEF parts, N
<1>5. /\ off \in [0 .. N -> Nat]
      /\ off[0] = 0 /\ off[N] = Len(entries)
      /\ \A n \in 0 .. N : \A m \in 0 .. n : off[m] <= off[n]
  BY <1>2, <1>3 DEF Placed
<1>6. \A n \in 1 .. N :
         /\ off[n] = off[n - 1] + Len(C!Entry(messages, n))
         /\ \A k \in 1 .. Len(C!Entry(messages, n)) :
               entries[off[n - 1] + k] = C!Entry(messages, n)[k]
  <2>1. \A n \in 1 .. N :
           /\ off[n] = off[n - 1] + Len(parts[n])
           /\ \A k \in 1 .. Len(parts[n]) : entries[off[n - 1] + k] = parts[n][k]
    BY <1>2, <1>3 DEF Placed
  <2> QED
    BY ONLY <1>2, <2>1
<1>7. \A q \in 1 .. Len(entries) :
         \E n \in 1 .. N : \E k \in 1 .. Len(C!Entry(messages, n)) : q = off[n - 1] + k
  <2>1. \A q \in 1 .. Len(entries) :
           \E n \in 1 .. N : \E k \in 1 .. Len(parts[n]) : q = off[n - 1] + k
    BY <1>2, <1>3 DEF Placed
  <2> QED
    BY ONLY <1>2, <2>1
<1> QED
  BY <1>1, <1>3, <1>4, <1>5, <1>6, <1>7 DEF N

\* The entry of a message that is no result.
LEMMA ChatAlone ==
    ASSUME NEW messages, Talk(messages), NEW entries, NEW off,
           ChatPlaced(messages, entries, off),
           NEW i \in DOMAIN messages, messages[i].role # "tool"
    PROVE  LET q == off[i - 1] + 1
               m == messages[i]
           IN  /\ i \in Nat \ {0} /\ off[i - 1] \in Nat /\ off[i] = q /\ q \in DOMAIN entries
               /\ Len(C!Entry(messages, i)) = 1
               /\ m.role \in {"user", "assistant"}
               /\ m.role = "user" =>
                     entries[q] = C!UserEntry(m.content, m.images, m.documents, <<>>)
               /\ m.role = "assistant" => entries[q] = m
<1> DEFINE e == C!Entry(messages, i)
           m == messages[i]
           N == Len(messages)
<1>1. IsSequence(messages) /\ Formed(m)
  BY DEF Talk
<1>2. /\ N \in Nat /\ DOMAIN messages = 1 .. N /\ off \in [0 .. N -> Nat]
      /\ off[N] = Len(entries) /\ DOMAIN entries = 1 .. Len(entries)
      /\ \A n \in 0 .. N : \A k \in 0 .. n : off[k] <= off[n]
      /\ off[i] = off[i - 1] + Len(e)
      /\ \A k \in 1 .. Len(e) : entries[off[i - 1] + k] = e[k]
  <2>1. N \in Nat /\ DOMAIN messages = 1 .. N
    BY <1>1, ChatOffsets
  <2>2. i \in 1 .. N
    BY <2>1
  <2> QED
    BY <1>1, <2>1, <2>2, ChatOffsets
<1>3. m.role \in {"user", "assistant"}
  BY <1>1 DEF Formed
<1>4. /\ m.role = "user" => e = <<C!UserEntry(m.content, m.images, m.documents, <<>>)>>
      /\ m.role = "assistant" => e = <<m>>
  BY <1>1, ChatEntry
<1>5. /\ Len(e) = 1
      /\ m.role = "user" => e[1] = C!UserEntry(m.content, m.images, m.documents, <<>>)
      /\ m.role = "assistant" => e[1] = m
  <2> HIDE DEF e
  <2> QED
    BY <1>3, <1>4
<1> HIDE DEF e
<1>6. i \in 1 .. N /\ i - 1 \in 0 .. N /\ i \in 0 .. N /\ N \in 0 .. N /\ 1 \in 1 .. 1
  BY <1>2
<1>7. off[i - 1] \in Nat /\ off[i] = off[i - 1] + 1 /\ off[i] \in Nat /\ off[i] <= Len(entries)
  BY <1>2, <1>5, <1>6
<1>8. off[i - 1] + 1 \in DOMAIN entries
  BY <1>2, <1>7
<1>9. entries[off[i - 1] + 1] = e[1]
  BY <1>2, <1>5, <1>6
<1> QED
  BY <1>3, <1>5, <1>6, <1>7, <1>8, <1>9 DEF e

\* The results that stand together with one, and what stands behind them.
Run(messages, i) == ResultsFrom(messages, FirstOf(messages, i))
Begin(messages, off, i) == off[FirstOf(messages, i) - 1]

\* Where the entries of the results with the one at i stand, and what they are.
GroupPlaced(messages, entries, off, i) ==
    LET s == FirstOf(messages, i)
        run == Run(messages, i)
        n == Len(run)
        p == Len(Pictured(run))
        b == Begin(messages, off, i)
    IN  /\ s \in 1 .. i /\ StartsResults(messages, s) /\ i \in Nat /\ s \in DOMAIN messages
        /\ IsSequence(run) /\ n \in Nat /\ p \in Nat /\ b \in Nat
        /\ i - s + 1 \in 1 .. n /\ s + n - 1 <= Len(messages)
        /\ off[s] = b + n + p /\ b + n + p <= Len(entries)
        /\ Len(C!Entry(messages, s)) = n + p
        /\ \A k \in 1 .. n : /\ run[k] = messages[s + k - 1] /\ run[k].role = "tool"
                             /\ entries[b + k] = C!ToolEntry(run[k])
        /\ \A k \in 1 .. p : entries[b + n + k] = C!ImagesEntry(Pictured(run)[k])
        /\ s + n <= Len(messages) => messages[s + n].role # "tool"

\* Their entries.
LEMMA ChatGroup ==
    ASSUME NEW messages, Talk(messages), NEW entries, NEW off,
           ChatPlaced(messages, entries, off), NEW i \in Has(messages, "tool")
    PROVE  GroupPlaced(messages, entries, off, i)
<1> DEFINE s == FirstOf(messages, i)
           run == Run(messages, i)
           n == Len(run)
           p == Len(Pictured(run))
           b == off[s - 1]
           e == C!Entry(messages, s)
           N == Len(messages)
<1>1. IsSequence(messages) /\ \A j \in DOMAIN messages : Formed(messages[j])
  BY DEF Talk
<1>2. /\ N \in Nat /\ DOMAIN messages = 1 .. N /\ off \in [0 .. N -> Nat]
      /\ off[N] = Len(entries)
      /\ \A l \in 0 .. N : \A k \in 0 .. l : off[k] <= off[l]
      /\ \A l \in 1 .. N :
            /\ off[l] = off[l - 1] + Len(C!Entry(messages, l))
            /\ \A k \in 1 .. Len(C!Entry(messages, l)) :
                  entries[off[l - 1] + k] = C!Entry(messages, l)[k]
  BY <1>1, ChatOffsets
<1>3. i \in 1 .. N /\ messages[i].role = "tool"
  BY <1>2 DEF Has
<1>4. /\ s \in 1 .. i /\ StartsResults(messages, s)
      /\ \A j \in s .. i : messages[j].role = "tool"
  BY <1>1, RunStart
<1>5. s \in Has(messages, "tool") /\ s \in 1 .. N /\ messages[s].role = "tool"
  BY <1>2, <1>4 DEF StartsResults, Has
<1> HIDE DEF s
<1>6. /\ IsSequence(run) /\ n \in Nat \ {0} /\ s + n - 1 <= N
      /\ \A k \in 1 .. n : run[k] = messages[s + k - 1] /\ run[k].role = "tool"
      /\ s + n <= N => messages[s + n].role # "tool"
  <2>1. run = ResultsFrom(messages, s)
    BY DEF Run, s
  <2> HIDE DEF run
  <2> QED
    BY <1>1, <1>5, <2>1, ResultsRun
<1>7. e = C!ResultEntries(run)
  <2>1. run = ResultsFrom(messages, s)
    BY DEF Run, s
  <2>2. Formed(messages[s]) /\ s \in DOMAIN messages
    BY <1>1, <1>2, <1>5
  <2>3. e = IF StartsResults(messages, s)
            THEN C!ResultEntries(ResultsFrom(messages, s)) ELSE <<>>
    BY <1>1, <1>5, <2>2, ChatEntry
  <2> QED
    BY <1>4, <2>1, <2>3
<1> HIDE DEF run
<1>8. /\ p \in Nat /\ Len(e) = n + p
      /\ \A k \in 1 .. n : e[k] = C!ToolEntry(run[k])
      /\ \A k \in 1 .. p : e[n + k] = C!ImagesEntry(Pictured(run)[k])
  BY <1>6, <1>7, ChatResults
<1> HIDE DEF e, n, p, N
<1>9. i - s + 1 \in 1 .. n
  <2>1. SUFFICES ASSUME ~(i - s + 1 <= n) PROVE FALSE
    BY <1>2, <1>3, <1>4, <1>6
  <2>2. s + n \in s .. i
    BY <1>3, <1>4, <1>6, <2>1
  <2>3. messages[s + n].role = "tool" /\ s + n <= N
    BY <1>2, <1>3, <1>4, <2>2
  <2> QED
    BY <1>6, <2>3
<1>10. /\ off[s] = b + n + p /\ b \in Nat /\ b + n + p <= Len(entries)
       /\ \A k \in 1 .. n + p : entries[b + k] = e[k]
  <2>1. off[s] = b + Len(e) /\ \A k \in 1 .. Len(e) : entries[b + k] = e[k]
    BY <1>2, <1>5 DEF e
  <2>2. s \in 0 .. N /\ s - 1 \in 0 .. N /\ N \in 0 .. N
    BY <1>2, <1>5
  <2>3. b \in Nat /\ off[s] <= Len(entries)
    BY <1>2, <1>5, <2>2
  <2> HIDE DEF b
  <2> QED
    BY <1>6, <1>8, <2>1, <2>3
<1> HIDE DEF b
<1>11. \A k \in 1 .. n : entries[b + k] = C!ToolEntry(run[k])
  <2>1. \A k \in 1 .. n : k \in 1 .. n + p
    BY <1>6, <1>8
  <2> QED
    BY <1>8, <1>10, <2>1
<1>12. \A k \in 1 .. p : entries[b + n + k] = C!ImagesEntry(Pictured(run)[k])
  <2>1. SUFFICES ASSUME NEW k \in 1 .. p
                 PROVE  entries[b + n + k] = C!ImagesEntry(Pictured(run)[k])
    OBVIOUS
  <2>2. n + k \in 1 .. n + p /\ b + (n + k) = b + n + k
    BY <1>6, <1>8, <1>10
  <2> QED
    BY <1>8, <1>10, <2>2
<1>13. b = Begin(messages, off, i) /\ run = Run(messages, i) /\ s = FirstOf(messages, i)
  BY DEF Begin, b, s, run
<1>14. i \in Nat /\ s \in DOMAIN messages
  BY <1>2, <1>3, <1>5
<1> QED
  BY <1>4, <1>6, <1>8, <1>9, <1>10, <1>11, <1>12, <1>13, <1>14 DEF GroupPlaced, n, p, N, e

\* Where a message stands in its request.
At(messages, off, i) ==
    IF messages[i].role = "tool" THEN Begin(messages, off, i) + (i - FirstOf(messages, i) + 1)
    ELSE off[i - 1] + 1

\* The images behind results that stand together are their entries, not a message's.
Brings(entry) == entry.role = "user" /\ entry.of # <<>>

\* It stands among the entries that its part ends with.
LEMMA ChatAt ==
    ASSUME NEW messages, Talk(messages), NEW entries, NEW off,
           ChatPlaced(messages, entries, off), NEW i \in DOMAIN messages
    PROVE  LET q == At(messages, off, i)
           IN  q \in DOMAIN entries /\ q \in Nat /\ off[i] \in Nat /\ q <= off[i]
<1> DEFINE N == Len(messages)
           q == At(messages, off, i)
<1>1. /\ N \in Nat /\ DOMAIN messages = 1 .. N /\ off \in [0 .. N -> Nat]
      /\ DOMAIN entries = 1 .. Len(entries) /\ Len(entries) \in Nat
      /\ \A l \in 0 .. N : \A k \in 0 .. l : off[k] <= off[l]
  BY ChatOffsets DEF Talk
<1> HIDE DEF N
<1>2. i \in 1 .. N /\ off[i] \in Nat
  BY <1>1
<1>3. CASE messages[i].role # "tool"
  <2>1. off[i - 1] \in Nat /\ off[i] = off[i - 1] + 1 /\ off[i - 1] + 1 \in DOMAIN entries
    BY <1>3, ChatAlone
  <2>2. q = off[i - 1] + 1
    BY <1>3 DEF At
  <2> QED
    BY <1>2, <2>1, <2>2
<1>4. CASE messages[i].role = "tool"
  <2> DEFINE s == FirstOf(messages, i)
             n == Len(Run(messages, i))
             p == Len(Pictured(Run(messages, i)))
             b == Begin(messages, off, i)
  <2>1. i \in Has(messages, "tool")
    BY <1>4 DEF Has
  <2>g. GroupPlaced(messages, entries, off, i)
    BY <2>1, ChatGroup
  <2>2. /\ s \in 1 .. i /\ n \in Nat /\ p \in Nat /\ b \in Nat
        /\ i - s + 1 \in 1 .. n /\ off[s] = b + n + p /\ b + n + p <= Len(entries)
    BY <2>g DEF GroupPlaced
  <2>3. q = b + (i - s + 1)
    BY <1>4 DEF At
  <2> HIDE DEF s, n, p, b, q
  <2>4. s \in 0 .. i /\ i \in 0 .. N
    BY <1>1, <1>2, <2>2
  <2>5. off[s] <= off[i]
    BY <1>1, <2>4
  <2>6. q \in Nat /\ q >= 1 /\ q <= off[s] /\ q <= Len(entries)
    BY <2>2, <2>3
  <2>7. off[s] \in Nat
    BY <2>2
  <2>8. q \in DOMAIN entries /\ q <= off[i]
    BY <1>1, <1>2, <2>5, <2>6, <2>7
  <2> QED
    BY <1>2, <2>6, <2>8 DEF q
<1> QED
  BY <1>3, <1>4

\* The next result begins the next results or goes on with them.
LEMMA ChatStart ==
    ASSUME NEW messages, Talk(messages), NEW i \in Has(messages, "tool"),
           NEW r \in 1 .. i, StartsResults(messages, r),
           \A n \in r .. i : messages[n].role = "tool"
    PROVE  FirstOf(messages, i) = r
<1>1. IsSequence(messages)
  BY DEF Talk
<1> QED
  BY <1>1, RunStart

\* Messages stand in their order.
LEMMA ChatRises ==
    ASSUME NEW messages, Talk(messages), NEW entries, NEW off,
           ChatPlaced(messages, entries, off), NEW i \in 1 .. Len(messages) - 1
    PROVE  At(messages, off, i) < At(messages, off, i + 1)
<1> DEFINE N == Len(messages)
           j == i + 1
<1>0. IsSequence(messages)
  BY DEF Talk
<1>1. N \in Nat /\ DOMAIN messages = 1 .. N
  BY <1>0, ListDomain
<1>2. i \in DOMAIN messages /\ j \in DOMAIN messages /\ i \in Nat /\ j \in Nat /\ j - 1 = i
  BY <1>1
<1>3. At(messages, off, i) \in Nat /\ off[i] \in Nat /\ At(messages, off, i) <= off[i]
  BY <1>2, ChatAt
<1> HIDE DEF j
<1>4. CASE messages[j].role # "tool"
  <2>1. At(messages, off, j) = off[i] + 1
    BY <1>2, <1>4 DEF At
  <2> QED
    BY <1>3, <2>1 DEF j
<1>5. CASE messages[j].role = "tool" /\ messages[i].role # "tool"
  <2>1. j \in Has(messages, "tool") /\ j \in 1 .. j
    BY <1>1, <1>2, <1>5 DEF Has
  <2>2. StartsResults(messages, j)
    BY <1>2, <1>5, <2>1 DEF StartsResults
  <2>3. \A n \in j .. j : messages[n].role = "tool"
    BY <1>2, <1>5
  <2>4. FirstOf(messages, j) = j
    BY <2>1, <2>2, <2>3, ChatStart
  <2>5. At(messages, off, j) = off[i] + 1
    BY <1>2, <1>3, <1>5, <2>4 DEF At, Begin
  <2> QED
    BY <1>3, <2>5 DEF j
<1>6. CASE messages[j].role = "tool" /\ messages[i].role = "tool"
  <2> DEFINE s == FirstOf(messages, i)
  <2>1. j \in Has(messages, "tool") /\ i \in Has(messages, "tool")
    BY <1>2, <1>6 DEF Has
  <2>2. s \in 1 .. i /\ StartsResults(messages, s) /\ \A n \in s .. i : messages[n].role = "tool"
    BY <1>0, <2>1, RunStart
  <2> HIDE DEF s
  <2>3. s \in 1 .. j /\ \A n \in s .. j : messages[n].role = "tool"
    <3>1. s \in 1 .. j /\ \A n \in s .. j : n \in s .. i \/ n = j
      BY <1>2, <2>2 DEF j
    <3> QED
      BY <1>6, <2>2, <3>1
  <2>4. FirstOf(messages, j) = s
    BY <2>1, <2>2, <2>3, ChatStart
  <2>5. /\ At(messages, off, j) = Begin(messages, off, i) + (j - s + 1)
        /\ At(messages, off, i) = Begin(messages, off, i) + (i - s + 1)
    BY <1>6, <2>4 DEF At, Begin, s
  <2>g. GroupPlaced(messages, entries, off, i)
    BY <2>1, ChatGroup
  <2>6. Begin(messages, off, i) \in Nat
    BY <2>g DEF GroupPlaced
  <2> QED
    BY <1>2, <2>2, <2>5, <2>6 DEF j
<1> QED
  BY <1>4, <1>5, <1>6 DEF j

\* Every entry is a message's, or brings images.
LEMMA ChatCovers ==
    ASSUME NEW messages, Talk(messages), NEW entries, NEW off,
           ChatPlaced(messages, entries, off), NEW q \in DOMAIN entries
    PROVE  (\E i \in DOMAIN messages : q = At(messages, off, i)) \/ Brings(entries[q])
<1> DEFINE N == Len(messages)
<1>0. IsSequence(messages) /\ \A i \in DOMAIN messages : Formed(messages[i])
  BY DEF Talk
<1>1. N \in Nat /\ DOMAIN messages = 1 .. N /\ q \in 1 .. Len(entries)
  BY <1>0, ChatOffsets
<1>2. PICK i \in 1 .. N : \E k \in 1 .. Len(C!Entry(messages, i)) : q = off[i - 1] + k
  BY <1>0, <1>1, ChatOffsets
<1>3. PICK k \in 1 .. Len(C!Entry(messages, i)) : q = off[i - 1] + k
  BY <1>2
<1>4. i \in DOMAIN messages /\ Formed(messages[i]) /\ i \in Nat
  BY <1>0, <1>1, <1>2
<1> HIDE DEF N
<1>5. CASE messages[i].role # "tool"
  <2>1. Len(C!Entry(messages, i)) = 1
    BY <1>4, <1>5, ChatAlone
  <2>2. q = At(messages, off, i)
    BY <1>3, <1>5, <2>1 DEF At
  <2> QED
    BY <1>4, <2>2
<1>6. CASE messages[i].role = "tool" /\ ~StartsResults(messages, i)
  <2>1. C!Entry(messages, i) = <<>>
    BY <1>0, <1>4, <1>6, ChatEntry
  <2>2. Len(C!Entry(messages, i)) = 0
    BY <2>1
  <2> QED
    BY <1>3, <2>2
<1>7. CASE StartsResults(messages, i)
  <2> DEFINE run == Run(messages, i)
             n == Len(run)
             p == Len(Pictured(run))
  <2>1. i \in Has(messages, "tool") /\ i \in 1 .. i /\ messages[i].role = "tool"
    BY <1>2, <1>7 DEF StartsResults, Has
  <2>2. \A m \in i .. i : messages[m].role = "tool"
    BY <1>2, <2>1
  <2>3. FirstOf(messages, i) = i
    BY <1>7, <2>1, <2>2, ChatStart
  <2>4. Begin(messages, off, i) = off[i - 1]
    BY <2>3 DEF Begin
  <2> DEFINE s == FirstOf(messages, i)
             b == Begin(messages, off, i)
  <2>g. GroupPlaced(messages, entries, off, i)
    BY <2>1, ChatGroup
  <2>5. /\ n \in Nat /\ p \in Nat /\ b \in Nat /\ s + n - 1 <= Len(messages)
        /\ \A m \in 1 .. n : run[m] = messages[s + m - 1] /\ run[m].role = "tool"
    BY <2>g DEF GroupPlaced
  <2>8. Len(C!Entry(messages, s)) = n + p
    BY <2>g DEF GroupPlaced
  <2>9. \A m \in 1 .. p : entries[b + n + m] = C!ImagesEntry(Pictured(run)[m])
    BY <2>g DEF GroupPlaced
  <2>10. s = i /\ b = off[i - 1] /\ i + n - 1 <= N
    BY <2>3, <2>4, <2>5 DEF N
  <2> HIDE DEF n, p, run, s, b
  <2>6. CASE k <= n
    <3> DEFINE j == i + k - 1
    <3>1. k \in 1 .. n /\ j \in 1 .. N /\ i \in 1 .. j
      <4>1. k \in 1 .. n + p
        BY <1>3, <2>8, <2>10
      <4>2. N \in Nat /\ i \in 1 .. N /\ i \in Nat /\ n \in Nat /\ p \in Nat /\ i + n - 1 <= N /\ k <= n
        BY <1>1, <1>2, <1>4, <2>5, <2>6, <2>10
      <4> QED
        BY ONLY <4>1, <4>2
    <3>2. ASSUME NEW m \in i .. j PROVE messages[m].role = "tool"
      <4>1. m - i + 1 \in 1 .. n /\ s + (m - i + 1) - 1 = m
        BY <1>2, <2>5, <2>10, <3>1, <3>2
      <4> QED
        BY <2>5, <4>1
    <3>3. j \in i .. j /\ j - i + 1 = k
      BY <1>2, <3>1
    <3>4. messages[j].role = "tool" /\ j \in Has(messages, "tool")
      BY <1>1, <3>1, <3>2, <3>3 DEF Has
    <3>5. FirstOf(messages, j) = i
      BY <1>7, <3>1, <3>2, <3>4, ChatStart
    <3> HIDE DEF j
    <3>6. At(messages, off, j) = off[i - 1] + k
      BY <3>3, <3>4, <3>5 DEF At, Begin
    <3> QED
      BY <1>1, <1>3, <3>1, <3>6
  <2>7. CASE ~(k <= n)
    <3>1. k - n \in 1 .. p /\ b + n + (k - n) = q
      BY <1>3, <2>5, <2>7, <2>8, <2>10
    <3>2. entries[q] = C!ImagesEntry(Pictured(run)[k - n])
      BY <2>9, <3>1
    <3> QED
      BY <3>2 DEF C!ImagesEntry, C!UserEntry, Brings
  <2> QED
    BY <2>6, <2>7
<1> QED
  BY <1>5, <1>6, <1>7

\* What stands behind results and their images ends them.
LEMMA ChatBehind ==
    ASSUME NEW messages, Talk(messages), NEW entries, NEW off,
           ChatPlaced(messages, entries, off), NEW i \in Has(messages, "tool"),
           off[FirstOf(messages, i)] + 1 \in DOMAIN entries
    PROVE  LET entry == entries[off[FirstOf(messages, i)] + 1]
           IN  entry.role # "tool" /\ ~Brings(entry)
<1> DEFINE N == Len(messages)
           s == FirstOf(messages, i)
           run == Run(messages, i)
           n == Len(run)
           q == off[s] + 1
<1>0. IsSequence(messages) /\ \A j \in DOMAIN messages : Formed(messages[j])
  BY DEF Talk
<1>1. /\ N \in Nat /\ DOMAIN messages = 1 .. N /\ q \in 1 .. Len(entries)
      /\ off \in [0 .. N -> Nat]
      /\ \A l \in 0 .. N : \A k \in 0 .. l : off[k] <= off[l]
  BY <1>0, ChatOffsets
<1>2. PICK m \in 1 .. N : \E k \in 1 .. Len(C!Entry(messages, m)) : q = off[m - 1] + k
  BY <1>0, <1>1, ChatOffsets
<1>3. PICK k \in 1 .. Len(C!Entry(messages, m)) : q = off[m - 1] + k
  BY <1>2
<1>g. GroupPlaced(messages, entries, off, i)
  BY ChatGroup
<1>4. /\ s \in 1 .. i /\ n \in Nat /\ i - s + 1 \in 1 .. n /\ i \in Nat
      /\ s + n - 1 <= N
      /\ \A l \in 1 .. n : run[l] = messages[s + l - 1] /\ run[l].role = "tool"
      /\ s + n <= N => messages[s + n].role # "tool"
  BY <1>g DEF GroupPlaced
<1>5. off[m] = off[m - 1] + Len(C!Entry(messages, m))
  BY <1>0, ChatOffsets
<1>6. i \in 1 .. N
  BY <1>1 DEF Has
<1> HIDE DEF N, s, n, run
<1>7. /\ s \in 0 .. N /\ m \in 0 .. N /\ m - 1 \in 0 .. N /\ s \in Nat /\ m \in Nat
      /\ n \in Nat \ {0} /\ m \in DOMAIN messages
  BY <1>1, <1>2, <1>4, <1>6
<1>8. Len(C!Entry(messages, m)) \in Nat
  <2>1. IsSequence(C!Entry(messages, m))
    BY <1>0, <1>7, ChatEntry
  <2> QED
    BY <2>1, ListDomain
<1>9. off[m - 1] <= off[s] /\ off[s] < off[m] /\ off[s] \in Nat /\ off[m - 1] \in Nat
  <2>1. off[s] \in Nat /\ off[m] \in Nat /\ off[m - 1] \in Nat
    BY <1>1, <1>7
  <2> QED
    BY <1>3, <1>5, <1>8, <2>1
<1>10. s < m
  <2>1. SUFFICES ASSUME m <= s PROVE FALSE
    BY <1>7
  <2>2. m \in 0 .. s
    BY <1>7, <2>1
  <2>3. off[m] <= off[s] /\ off[m] \in Nat
    BY <1>1, <1>7, <2>2
  <2> QED
    BY <1>9, <2>3
<1>11. CASE messages[m].role # "tool"
  <2>1. /\ Len(C!Entry(messages, m)) = 1
        /\ messages[m].role \in {"user", "assistant"}
        /\ messages[m].role = "user" =>
              entries[off[m - 1] + 1] =
                 C!UserEntry(messages[m].content, messages[m].images, messages[m].documents, <<>>)
        /\ messages[m].role = "assistant" => entries[off[m - 1] + 1] = messages[m]
    BY <1>7, <1>11, ChatAlone
  <2>2. q = off[m - 1] + 1
    BY <1>3, <2>1
  <2> HIDE DEF q
  <2>3. entries[q].role # "tool" /\ ~Brings(entries[q])
    BY <2>1, <2>2 DEF C!UserEntry, Brings
  <2> QED
    BY <2>3 DEF q, s
<1>12. CASE messages[m].role = "tool"
  <2>1. StartsResults(messages, m)
    <3>1. SUFFICES ASSUME ~StartsResults(messages, m) PROVE FALSE
      OBVIOUS
    <3>2. C!Entry(messages, m) = <<>>
      BY <1>0, <1>7, <1>12, <3>1, ChatEntry
    <3>3. Len(C!Entry(messages, m)) = 0
      BY <3>2
    <3> QED
      BY <1>3, <3>3
  <2>2. messages[m - 1].role # "tool"
    BY <1>4, <1>7, <1>10, <2>1 DEF StartsResults
  <2>3. ~(m - 1 <= s + n - 1)
    <3>1. SUFFICES ASSUME m - 1 <= s + n - 1 PROVE FALSE
      OBVIOUS
    <3>2. m - s \in 1 .. n /\ s + (m - s) - 1 = m - 1
      BY <1>7, <1>10, <3>1
    <3> QED
      BY <1>4, <2>2, <3>2
  <2> DEFINE l == s + n
  <2>4. l \in 1 .. N /\ l <= m - 1 /\ s <= l - 1
    BY <1>1, <1>2, <1>7, <2>3, <1>12, <1>4
  <2>5. messages[l].role # "tool" /\ l \in DOMAIN messages
    BY <1>1, <1>4, <2>4
  <2> HIDE DEF l
  <2>6. off[l] = off[l - 1] + 1
    BY <2>5, ChatAlone
  <2>7. l \in 0 .. m - 1 /\ s \in 0 .. l - 1 /\ l - 1 \in 0 .. N /\ l \in 0 .. N
    BY <1>1, <1>7, <2>4
  <2>8. off[l] <= off[m - 1] /\ off[s] <= off[l - 1] /\ off[l] \in Nat /\ off[l - 1] \in Nat
    BY <1>1, <1>7, <2>7
  <2> QED
    BY <1>9, <2>6, <2>8
<1> QED
  BY <1>11, <1>12

\* How the service reads an entry (the parts of C!Understood).
Attached(entries, q) ==
    {j \in q .. Len(entries) : \A k \in q .. j : entries[k].role = "tool" \/ Brings(entries[k])}
ImagesAt(entries, q) ==
    FlattenSeq([n \in 1 .. Cardinality(Attached(entries, q)) |->
        IF entries[q + n - 1].role = "user" /\ entries[q + n - 1].of = <<entries[q].call>>
        THEN entries[q + n - 1].images ELSE <<>>])
ReadAt(entries, q) ==
    CASE entries[q].role = "tool" /\ entries[q - 1].role \in {"assistant", "tool"} ->
            <<Result(entries[q].call, entries[q].outcome, ImagesAt(entries, q))>>
      [] entries[q].role = "user" /\ entries[q].of = <<>> ->
            <<User(entries[q].content, entries[q].images, entries[q].documents)>>
      [] entries[q].role \in {"assistant", "system"} -> <<entries[q]>>
      [] OTHER -> <<>>

\* It understands what it reads.
LEMMA ChatReading ==
    ASSUME NEW request
    PROVE  C!Understood(request) =
             FlattenSeq([q \in DOMAIN request.entries |-> ReadAt(request.entries, q)])
BY DEF C!Understood, ReadAt, ImagesAt, Attached, Brings, C!FlattenSeq, FlattenSeq,
       C!User, User, C!Result, Result, C!Cardinality, Cardinality

\* What belongs to a result ends with the images of its group.
LEMMA ChatAttached ==
    ASSUME NEW messages, Talk(messages), NEW entries, NEW off,
           ChatPlaced(messages, entries, off), NEW i \in Has(messages, "tool")
    PROVE  LET q == At(messages, off, i)
               e == off[FirstOf(messages, i)]
           IN  /\ Attached(entries, q) = q .. e
               /\ Cardinality(Attached(entries, q)) = e - q + 1
<1> DEFINE s == FirstOf(messages, i)
           run == Run(messages, i)
           n == Len(run)
           p == Len(Pictured(run))
           b == Begin(messages, off, i)
           q == At(messages, off, i)
           e == off[s]
           N == Len(entries)
<1>g. GroupPlaced(messages, entries, off, i)
  BY ChatGroup
<1>1. /\ n \in Nat /\ p \in Nat /\ b \in Nat /\ i - s + 1 \in 1 .. n
      /\ e = b + n + p /\ b + n + p <= N
  BY <1>g DEF GroupPlaced
<1>2. \A k \in 1 .. n : entries[b + k] = C!ToolEntry(run[k])
  BY <1>g DEF GroupPlaced
<1>3. \A k \in 1 .. p : entries[b + n + k] = C!ImagesEntry(Pictured(run)[k])
  BY <1>g DEF GroupPlaced
<1>4. q = b + (i - s + 1)
  BY DEF At, Has
<1>5. e + 1 \in DOMAIN entries => entries[e + 1].role # "tool" /\ ~Brings(entries[e + 1])
  BY ChatBehind
<1>6. DOMAIN entries = 1 .. N /\ N \in Nat
  <2>1. IsSequence(entries)
    BY DEF ChatPlaced
  <2> QED
    BY <2>1, ListDomain
<1> HIDE DEF run, n, p, b, q, e, N
<1>7. q \in Nat /\ q <= e /\ b < q /\ e \in Nat /\ e <= N /\ q # 0
  BY <1>1, <1>4
<1>8. ASSUME NEW k \in q .. e PROVE entries[k].role = "tool" \/ Brings(entries[k])
  <2>1. CASE k <= b + n
    <3>1. k - b \in 1 .. n /\ b + (k - b) = k
      BY <1>1, <1>7, <2>1
    <3>2. entries[k] = C!ToolEntry(run[k - b])
      BY <1>2, <3>1
    <3> QED
      BY <3>2 DEF C!ToolEntry
  <2>2. CASE ~(k <= b + n)
    <3>1. k - b - n \in 1 .. p /\ b + n + (k - b - n) = k
      BY <1>1, <1>7, <2>2
    <3>2. entries[k] = C!ImagesEntry(Pictured(run)[k - b - n])
      BY <1>3, <3>1
    <3> QED
      BY <3>2 DEF C!ImagesEntry, C!UserEntry, Brings
  <2> QED
    BY <2>1, <2>2
<1>9. ASSUME NEW j \in q .. e PROVE j \in Attached(entries, q)
  <2>1. j \in q .. N /\ \A k \in q .. j : k \in q .. e
    BY <1>6, <1>7
  <2> QED
    BY <1>8, <2>1 DEF Attached, N
<1>10. ASSUME NEW j \in Attached(entries, q) PROVE j \in q .. e
  <2>1. j \in q .. N /\ \A k \in q .. j : entries[k].role = "tool" \/ Brings(entries[k])
    BY DEF Attached, N
  <2>2. SUFFICES ASSUME ~(j <= e) PROVE FALSE
    BY <1>6, <1>7, <2>1
  <2>3. e + 1 \in q .. j /\ e + 1 \in 1 .. N
    BY <1>6, <1>7, <2>1, <2>2
  <2> QED
    BY <1>5, <1>6, <2>1, <2>3
<1>11. Attached(entries, q) = q .. e
  BY <1>9, <1>10
<1>12. Cardinality(q .. e) = e - q + 1
  BY <1>7, FS_Interval
<1> QED
  BY <1>11, <1>12 DEF q, e, s

\* n results of a run, as they follow one another from s.
Successive(messages, s, run, n) ==
    /\ s \in DOMAIN messages /\ n \in Nat /\ s + n - 1 <= Len(messages)
    /\ \A k \in 1 .. n : run[k] = messages[s + k - 1] /\ run[k].role = "tool"

\* Results that stand together answer different calls.
LEMMA ChatOnce ==
    ASSUME NEW messages, Talk(messages), NEW s, NEW run, NEW n, Successive(messages, s, run, n),
           NEW x \in 1 .. n, NEW y \in 1 .. n, run[x].call = run[y].call
    PROVE  x = y
<1>1. /\ DOMAIN messages = 1 .. Len(messages) /\ Len(messages) \in Nat /\ s \in Nat \ {0}
      /\ s \in DOMAIN messages /\ n \in Nat /\ s + n - 1 <= Len(messages)
      /\ \A k \in 1 .. n : run[k] = messages[s + k - 1] /\ run[k].role = "tool"
  BY ListDomain DEF Talk, Successive
<1>2. ASSUME NEW a \in 1 .. n, NEW b \in 1 .. n, a < b, run[a].call = run[b].call PROVE FALSE
  <2> DEFINE c == s + a - 1
             d == s + b - 1
  <2>1. c \in DOMAIN messages /\ d \in DOMAIN messages /\ c < d
    BY <1>1, <1>2
  <2>2. messages[c] = run[a] /\ messages[d] = run[b]
    BY <1>1, <1>2
  <2>3. ASSUME NEW m \in c .. d PROVE messages[m].role = "tool"
    <3>1. m - s + 1 \in 1 .. n /\ s + (m - s + 1) - 1 = m
      BY <1>1, <1>2, <2>3
    <3> QED
      BY <1>1, <3>1
  <2>4. run[a].role = "tool" /\ run[b].role = "tool"
    BY <1>1
  <2> HIDE DEF c, d
  <2>5. c \in Has(messages, "tool") /\ d \in Has(messages, "tool")
    BY <2>1, <2>2, <2>4 DEF Has
  <2>6. \E m \in c .. d : messages[m].role # "tool"
    BY <1>2, <2>1, <2>2, <2>5 DEF Talk, AnsweredOnce
  <2> QED
    BY <2>3, <2>6
<1> QED
  BY <1>2

\* The images that belong to a result are its own.
LEMMA ChatImages ==
    ASSUME NEW messages, Talk(messages), NEW entries, NEW off,
           ChatPlaced(messages, entries, off), NEW i \in Has(messages, "tool")
    PROVE  ImagesAt(entries, At(messages, off, i)) = messages[i].images
<1> DEFINE s == FirstOf(messages, i)
           run == Run(messages, i)
           n == Len(run)
           I == {m \in DOMAIN run : run[m].images # <<>>}
           pictured == Pictured(run)
           p == Len(pictured)
           b == Begin(messages, off, i)
           q == At(messages, off, i)
           x == i - s + 1
           images == messages[i].images
           L == n + p - x + 1
           u == IF x \in I THEN n + Rank(I, x) - x + 1 ELSE 0
           seqs == [m \in 1 .. L |-> IF m = u THEN images ELSE <<>>]
<1>g. GroupPlaced(messages, entries, off, i)
  BY ChatGroup
<1>1. /\ n \in Nat /\ p \in Nat /\ b \in Nat /\ x \in 1 .. n /\ s \in DOMAIN messages
      /\ off[s] = b + n + p /\ s + n - 1 <= Len(messages) /\ IsSequence(run)
      /\ i \in Nat /\ s \in 1 .. i
  BY <1>g DEF GroupPlaced
<1>2. /\ n \in Nat /\ p \in Nat /\ b \in Nat /\ s + n - 1 <= Len(messages)
      /\ \A k \in 1 .. n : run[k] = messages[s + k - 1] /\ run[k].role = "tool"
  BY <1>g DEF GroupPlaced
<1>3. \A k \in 1 .. n : entries[b + k] = C!ToolEntry(run[k])
  BY <1>g DEF GroupPlaced
<1>4. \A k \in 1 .. p : entries[b + n + k] = C!ImagesEntry(pictured[k])
  BY <1>g DEF GroupPlaced
<1>5. q = b + x
  BY DEF At, Has
<1>6. Cardinality(Attached(entries, q)) = off[s] - q + 1
  BY ChatAttached
<1>7. pictured = Select(run, I)
  BY DEF Pictured
<1>8. Formed(messages[i]) /\ messages[i].role = "tool"
  BY DEF Talk, Has
<1>9. images \in Seq(ToSet(images))
  BY <1>8 DEF Formed, IsSequence
<1> HIDE DEF run, n, p, b, q, s, images, pictured
<1>10. DOMAIN run = 1 .. n
  BY <1>1, ListDomain DEF n
<1>11. /\ IsSequence(pictured)
       /\ \A r \in DOMAIN pictured : \E y \in DOMAIN run : y \in I /\ r = Rank(I, y) /\ pictured[r] = run[y]
       /\ \A y \in DOMAIN run : y \in I => Rank(I, y) \in DOMAIN pictured /\ pictured[Rank(I, y)] = run[y]
  <2> HIDE DEF I
  <2> QED
    BY <1>1, <1>7, ListSelect
<1>12. DOMAIN pictured = 1 .. p
  BY <1>11, ListDomain DEF p
<1>13. x \in 1 .. n /\ x \in Nat /\ run[x] = messages[i] /\ entries[q] = C!ToolEntry(run[x])
  <2>1. s + x - 1 = i /\ x \in 1 .. n /\ x \in Nat
    BY <1>1
  <2> HIDE DEF x
  <2>2. run[x] = messages[s + x - 1] /\ entries[b + x] = C!ToolEntry(run[x])
    BY <1>2, <1>3, <2>1
  <2> QED
    BY ONLY <1>5, <2>1, <2>2
<1>14. x \in I <=> images # <<>>
  BY <1>10, <1>13 DEF images
<1> HIDE DEF x
<1>15. x \in I => Rank(I, x) \in 1 .. p /\ pictured[Rank(I, x)] = run[x]
  BY <1>10, <1>11, <1>12, <1>13
<1> HIDE DEF I
<1>16. L \in Nat /\ off[s] - q + 1 = L
  BY <1>1, <1>5, <1>13
<1>17. ASSUME NEW k \in 1 .. n PROVE entries[b + k].role = "tool"
  <2>1. entries[b + k] = C!ToolEntry(run[k])
    BY <1>3
  <2> QED
    BY ONLY <2>1 DEF C!ToolEntry
<1>18. entries[q].call = run[x].call
  BY <1>13 DEF C!ToolEntry
<1>19. ASSUME NEW m \in 1 .. L
       PROVE  (IF entries[q + m - 1].role = "user" /\ entries[q + m - 1].of = <<entries[q].call>>
               THEN entries[q + m - 1].images ELSE <<>>) = IF m = u THEN images ELSE <<>>
  <2> DEFINE k == x + m - 1
  <2>1. k \in 1 .. n + p /\ q + m - 1 = b + k /\ m = k - x + 1
    BY <1>1, <1>5, <1>13, SMTT(40)
  <2> HIDE DEF k
  <2>2. CASE k <= n
    <3>1. entries[q + m - 1].role = "tool"
      BY <1>1, <1>17, <2>1, <2>2
    <3>2. m # u
      BY <1>1, <1>13, <1>15, <2>1, <2>2
    <3> HIDE DEF u
    <3> QED
      BY <3>1, <3>2
  <2>3. CASE ~(k <= n)
    <3> DEFINE r == k - n
    <3>1. r \in 1 .. p /\ b + n + r = q + m - 1 /\ k = n + r
      BY <1>1, <2>1, <2>3
    <3> HIDE DEF r
    <3>2. PICK y \in DOMAIN run : y \in I /\ r = Rank(I, y) /\ pictured[r] = run[y]
      BY <1>11, <1>12, <3>1
    <3>3. entries[q + m - 1] = C!ImagesEntry(run[y])
      BY <1>4, <3>1, <3>2
    <3>4. /\ entries[q + m - 1].role = "user" /\ entries[q + m - 1].of = <<run[y].call>>
          /\ entries[q + m - 1].images = run[y].images
      BY <3>3 DEF C!ImagesEntry, C!UserEntry
    <3>5. run[y].call = run[x].call => y = x
      <4>1. y \in 1 .. n
        BY <1>10, <3>2
      <4>2. SUFFICES ASSUME run[x].call = run[y].call PROVE x = y
        OBVIOUS
      <4> QED
        <5>1. Successive(messages, s, run, n)
          BY <1>1, <1>2 DEF Successive
        <5>2. Talk(messages) /\ x \in 1 .. n
          BY <1>13
        <5> QED
          BY ONLY <4>1, <4>2, <5>1, <5>2, ChatOnce
    <3>6. CASE y = x
      <4>1. x \in I /\ m = u
        BY <1>1, <1>13, <2>1, <3>1, <3>2, <3>6
      <4>2. run[y].images = images
        BY <1>13, <3>6 DEF images
      <4> HIDE DEF u
      <4> QED
        BY <1>18, <3>4, <3>6, <4>1, <4>2
    <3>7. CASE y # x
      <4>1. m # u
        <5>1. SUFFICES ASSUME m = u PROVE FALSE
          OBVIOUS
        <5>2. x \in I
          BY <5>1
        <5>3. r = Rank(I, x)
          BY <1>1, <1>13, <1>15, <2>1, <3>1, <5>1, <5>2, SMTT(40)
        <5>4. run[x] = run[y]
          BY <1>15, <3>2, <5>2, <5>3
        <5> QED
          BY <3>5, <3>7, <5>4
      <4>2. entries[q + m - 1].of # <<entries[q].call>>
        BY <1>18, <3>4, <3>5, <3>7
      <4> HIDE DEF u
      <4> QED
        BY <4>1, <4>2
    <3> QED
      BY <3>6, <3>7
  <2> QED
    BY <2>2, <2>3
<1>20. u \in 1 .. L <=> x \in I
  BY <1>1, <1>13, <1>15
<1> HIDE DEF u, L
<1>21. ImagesAt(entries, q) = FlattenSeq(seqs)
  <2>1. [m \in 1 .. L |->
           IF entries[q + m - 1].role = "user" /\ entries[q + m - 1].of = <<entries[q].call>>
           THEN entries[q + m - 1].images ELSE <<>>] = seqs
    BY <1>19
  <2>2. Cardinality(Attached(entries, q)) = L
    BY <1>6, <1>16
  <2> HIDE DEF seqs
  <2> QED
    BY <2>1, <2>2 DEF ImagesAt
<1>22. FlattenSeq(seqs) = IF u \in 1 .. L THEN images ELSE <<>>
  <2>1. seqs = [m \in 1 .. L |-> IF m = u THEN images ELSE <<>>]
    OBVIOUS
  <2> HIDE DEF seqs
  <2> QED
    BY ONLY <1>9, <1>16, <2>1, FlattenOne
<1>23. ImagesAt(entries, q) = images
  BY <1>14, <1>20, <1>21, <1>22
<1> QED
  BY <1>23 DEF q, images

\* A message is read where it stands.
LEMMA ChatReads ==
    ASSUME NEW messages, Talk(messages), NEW entries, NEW off,
           ChatPlaced(messages, entries, off), NEW i \in DOMAIN messages
    PROVE  ReadAt(entries, At(messages, off, i)) = <<messages[i]>>
<1> DEFINE m == messages[i]
           q == At(messages, off, i)
<1>1. Formed(m) /\ IsSequence(messages)
  BY DEF Talk
<1>2. CASE m.role # "tool"
  <2>1. q = off[i - 1] + 1
    BY <1>2 DEF At
  <2>2. /\ m.role \in {"user", "assistant"}
        /\ m.role = "user" => entries[q] = C!UserEntry(m.content, m.images, m.documents, <<>>)
        /\ m.role = "assistant" => entries[q] = m
    BY <1>2, <2>1, ChatAlone
  <2>3. m.role = "user" => m = User(m.content, m.images, m.documents)
    BY <1>1 DEF Formed
  <2> HIDE DEF q, m
  <2>4. CASE m.role = "user"
    <3>1. /\ entries[q].role = "user" /\ entries[q].of = <<>>
          /\ entries[q].content = m.content /\ entries[q].images = m.images
          /\ entries[q].documents = m.documents
      BY <2>2, <2>4 DEF C!UserEntry
    <3>2. ReadAt(entries, q) = <<User(entries[q].content, entries[q].images, entries[q].documents)>>
      BY <3>1 DEF ReadAt
    <3> QED
      BY <2>3, <2>4, <3>1, <3>2 DEF q, m
  <2>5. CASE m.role = "assistant"
    <3>1. entries[q] = m /\ entries[q].role = "assistant"
      BY <2>2, <2>5
    <3>2. ReadAt(entries, q) = <<entries[q]>>
      BY <3>1 DEF ReadAt
    <3> QED
      BY <3>1, <3>2 DEF q, m
  <2> QED
    BY <2>2, <2>4, <2>5
<1>3. CASE m.role = "tool"
  <2> DEFINE s == FirstOf(messages, i)
             run == Run(messages, i)
             n == Len(run)
             b == Begin(messages, off, i)
             x == i - s + 1
  <2>1. i \in Has(messages, "tool")
    BY <1>3 DEF Has
  <2>g. GroupPlaced(messages, entries, off, i)
    BY <2>1, ChatGroup
  <2>2. /\ s \in 1 .. i /\ StartsResults(messages, s) /\ n \in Nat /\ b \in Nat /\ x \in 1 .. n
        /\ i \in Nat /\ s \in DOMAIN messages
        /\ \A k \in 1 .. n : run[k] = messages[s + k - 1] /\ run[k].role = "tool"
    BY <2>g DEF GroupPlaced
  <2>3. \A k \in 1 .. n : entries[b + k] = C!ToolEntry(run[k])
    BY <2>g DEF GroupPlaced
  <2>4. q = b + x
    BY <1>3 DEF At
  <2>5. ImagesAt(entries, q) = m.images
    BY <2>1, ChatImages
  <2>6. m = Result(m.call, m.outcome, m.images)
    BY <1>1, <1>3 DEF Formed
  <2>7. b = off[s - 1]
    BY DEF Begin
  <2>8. s + x - 1 = i
    BY <2>2
  <2> HIDE DEF s, run, n, b, x
  <2>9. run[x] = m
    BY <2>2, <2>8
  <2> HIDE DEF q, m
  <2>10. entries[q].role = "tool" /\ entries[q].call = m.call /\ entries[q].outcome = m.outcome
    <3>1. entries[q] = C!ToolEntry(m)
      BY <2>2, <2>3, <2>4, <2>9
    <3> QED
      BY <3>1 DEF C!ToolEntry
  <2>11. entries[q - 1].role \in {"assistant", "tool"}
    <3>1. CASE x = 1
      <4>1. s = i /\ q - 1 = off[s - 1]
        BY <2>2, <2>4, <2>7, <2>8, <3>1
      <4>2. PICK j \in Has(messages, "assistant") :
               /\ j < i /\ \A l \in j + 1 .. i : messages[l].role = "tool"
        BY <2>1 DEF Talk, Grouped
      <4>3. j \in DOMAIN messages /\ j \in Nat \ {0} /\ messages[j].role = "assistant"
        <5>1. DOMAIN messages = 1 .. Len(messages) /\ Len(messages) \in Nat
          BY <1>1, ListDomain
        <5> QED
          BY <5>1 DEF Has
      <4>4. j = s - 1
        <5>1. SUFFICES ASSUME j # s - 1 PROVE FALSE
          OBVIOUS
        <5>2. s # 1 /\ s - 1 \in j + 1 .. i
          BY <2>2, <4>1, <4>2, <4>3, <5>1
        <5>3. messages[s - 1].role # "tool"
          BY <2>2, <5>2 DEF StartsResults
        <5> QED
          BY <4>2, <5>2, <5>3
      <4>5. /\ off[j] = off[j - 1] + 1
            /\ entries[off[j - 1] + 1] = messages[j]
        BY <4>3, ChatAlone
      <4> QED
        BY <4>1, <4>3, <4>4, <4>5
    <3>2. CASE x # 1
      <4>1. x - 1 \in 1 .. n /\ b + (x - 1) = q - 1
        BY <2>2, <2>4, <3>2
      <4>2. entries[q - 1] = C!ToolEntry(run[x - 1])
        BY <2>3, <4>1
      <4> QED
        BY <4>2 DEF C!ToolEntry
    <3> QED
      BY <3>1, <3>2
  <2>12. ReadAt(entries, q) = <<Result(entries[q].call, entries[q].outcome, ImagesAt(entries, q))>>
    BY <2>10, <2>11 DEF ReadAt
  <2>13. ReadAt(entries, q) = <<m>>
    BY <2>5, <2>6, <2>10, <2>12
  <2> QED
    BY <2>13 DEF q, m
<1> QED
  BY <1>2, <1>3

\* What the service understands of a request is the conversation.
LEMMA ChatUnderstood ==
    ASSUME NEW messages, Talk(messages), NEW tools
    PROVE  C!Understood(C!Request(messages, tools)) = messages
<1> DEFINE request == C!Request(messages, tools)
           entries == request.entries
           N == Len(messages)
           L == Len(entries)
           reads == [q \in 1 .. L |-> ReadAt(entries, q)]
<1>1. PICK off : ChatPlaced(messages, entries, off)
  BY ChatPlaces
<1>2. IsSequence(messages) /\ messages \in Seq(ToSet(messages)) /\ N \in Nat /\ DOMAIN messages = 1 .. N
  BY ListDomain DEF Talk
<1>3. L \in Nat /\ DOMAIN entries = 1 .. L
  <2>1. IsSequence(entries)
    BY <1>1 DEF ChatPlaced
  <2> QED
    BY <2>1, ListDomain
<1>4. C!Understood(request) = FlattenSeq(reads)
  <2>1. C!Understood(request) = FlattenSeq([q \in DOMAIN entries |-> ReadAt(entries, q)])
    BY ChatReading
  <2> QED
    BY <1>3, <2>1
<1> HIDE DEF request, entries, L
<1> DEFINE at == [i \in 1 .. N |-> At(messages, off, i)]
<1>5. \A i \in 1 .. N : at[i] = At(messages, off, i)
  OBVIOUS
<1> HIDE DEF at
<1>6. ASSUME NEW i \in 1 .. N
      PROVE  at[i] \in Nat /\ at[i] \in 1 .. L /\ reads[at[i]] = <<messages[i]>>
  <2> DEFINE q == At(messages, off, i)
  <2>1. i \in DOMAIN messages
    BY <1>2
  <2>2. q \in DOMAIN entries /\ q \in Nat
    BY <1>1, <2>1, ChatAt
  <2>3. ReadAt(entries, q) = <<messages[i]>>
    BY <1>1, <2>1, ChatReads
  <2>4. at[i] = q
    BY <1>5
  <2> HIDE DEF q
  <2> QED
    BY <1>3, <2>2, <2>3, <2>4
<1>7. ASSUME NEW i \in 1 .. N - 1 PROVE at[i] < at[i + 1]
  <2>1. At(messages, off, i) < At(messages, off, i + 1)
    BY <1>1, ChatRises
  <2>2. i \in 1 .. N /\ i + 1 \in 1 .. N
    BY <1>2
  <2> QED
    BY <1>5, <2>1, <2>2
<1>8. ASSUME NEW q \in 1 .. L PROVE reads[q] = <<>> \/ \E i \in 1 .. N : q = at[i]
  <2>1. (\E i \in DOMAIN messages : q = At(messages, off, i)) \/ Brings(entries[q])
    BY <1>1, <1>3, ChatCovers
  <2>2. CASE Brings(entries[q])
    <3>1. entries[q].role = "user" /\ entries[q].of # <<>>
      BY <2>2 DEF Brings
    <3>2. ReadAt(entries, q) = <<>>
      BY <3>1 DEF ReadAt
    <3> QED
      BY <3>2
  <2>3. CASE \E i \in DOMAIN messages : q = At(messages, off, i)
    BY <1>2, <1>5, <2>3
  <2> QED
    BY <2>1, <2>2, <2>3
<1>9. reads = [q \in 1 .. L |-> reads[q]]
  OBVIOUS
<1> HIDE DEF reads, N
<1>10. FlattenSeq(reads) = messages
  <2>1. messages \in Seq(ToSet(messages)) /\ L \in Nat
    BY <1>2, <1>3
  <2>2. \A i \in 1 .. Len(messages) : at[i] \in Nat
    BY <1>6 DEF N
  <2>3. \A i \in 1 .. Len(messages) : at[i] \in 1 .. L /\ reads[at[i]] = <<messages[i]>>
    BY <1>6 DEF N
  <2>4. \A i \in 1 .. Len(messages) - 1 : at[i] < at[i + 1]
    BY <1>7 DEF N
  <2>5. \A q \in 1 .. L : reads[q] = <<>> \/ \E i \in 1 .. Len(messages) : q = at[i]
    BY <1>8 DEF N
  <2>6. ReadInOrder(reads, L, at, messages)
    BY ONLY <1>9, <2>2, <2>3, <2>4, <2>5 DEF ReadInOrder
  <2> QED
    BY ONLY <2>1, <2>6, FlattenRising
<1> QED
  BY <1>4, <1>10 DEF request

-----------------------------------------------------------------------------
(* What is sent reads like the conversation.                               *)

\* Messages of the same roles and calls are as good as others.
LEMMA TalkAlike ==
    ASSUME NEW messages, Talk(messages), NEW others, IsSequence(others),
           DOMAIN others = DOMAIN messages,
           \A i \in DOMAIN messages :
              /\ Formed(others[i]) /\ others[i].role = messages[i].role
              /\ messages[i].role = "assistant" => others[i].calls = messages[i].calls
              /\ messages[i].role = "tool" => others[i].call = messages[i].call
    PROVE  Talk(others)
<1>1. \A role : Has(others, role) = Has(messages, role)
  BY DEF Has
<1>2. Grouped(others)
  <2>1. SUFFICES ASSUME NEW i \in Has(others, "tool")
                 PROVE  \E j \in Has(others, "assistant") :
                           /\ j < i /\ Asks(others[j], others[i].call)
                           /\ \A n \in j + 1 .. i : others[n].role = "tool"
    BY DEF Grouped
  <2>2. i \in Has(messages, "tool") /\ others[i].call = messages[i].call
    BY <1>1, <2>1 DEF Has
  <2>3. PICK j \in Has(messages, "assistant") :
               /\ j < i /\ Asks(messages[j], messages[i].call)
               /\ \A n \in j + 1 .. i : messages[n].role = "tool"
    BY <2>2 DEF Talk, Grouped
  <2>4. others[j].calls = messages[j].calls
    BY <2>3 DEF Has
  <2>5. ASSUME NEW n \in j + 1 .. i PROVE others[n].role = "tool"
    <3>1. DOMAIN messages = 1 .. Len(messages) /\ Len(messages) \in Nat
      BY ListDomain DEF Talk
    <3>2. n \in DOMAIN messages
      BY <2>2, <2>3, <2>5, <3>1 DEF Has
    <3> QED
      BY <2>3, <2>5, <3>2
  <2>6. Asks(others[j], others[i].call)
    BY <2>2, <2>3, <2>4 DEF Asks
  <2> QED
    BY <1>1, <2>3, <2>5, <2>6
<1>3. AnsweredOnce(others)
  <2>1. SUFFICES ASSUME NEW i \in Has(others, "tool"), NEW j \in Has(others, "tool"),
                        i < j, others[i].call = others[j].call
                 PROVE  \E n \in i .. j : others[n].role # "tool"
    BY DEF AnsweredOnce
  <2>2. /\ i \in Has(messages, "tool") /\ others[i].call = messages[i].call
        /\ j \in Has(messages, "tool") /\ others[j].call = messages[j].call
    BY <1>1, <2>1 DEF Has
  <2>3. PICK n \in i .. j : messages[n].role # "tool"
    BY <2>1, <2>2 DEF Talk, AnsweredOnce
  <2>4. DOMAIN messages = 1 .. Len(messages) /\ Len(messages) \in Nat
    BY ListDomain DEF Talk
  <2>5. n \in DOMAIN messages
    BY <2>2, <2>3, <2>4 DEF Has
  <2> QED
    BY <2>3, <2>5
<1> QED
  BY <1>2, <1>3 DEF Talk

\* They read the same if they say the same.
LEMMA ReadingAlike ==
    ASSUME NEW messages, Talk(messages), NEW others,
           others = [i \in DOMAIN messages |-> others[i]],
           \A i \in DOMAIN messages :
              /\ others[i].role = messages[i].role
              /\ messages[i].role = "assistant" =>
                    others[i].content = messages[i].content /\ others[i].calls = messages[i].calls
              /\ messages[i].role # "assistant" => others[i] = messages[i]
    PROVE  Reading(others) = Reading(messages)
<1>1. DOMAIN others = DOMAIN messages
  OBVIOUS
<1>2. Has(others, "assistant") = Has(messages, "assistant")
  BY <1>1 DEF Has
<1>3. /\ \A i \in DOMAIN messages : others[i].role = messages[i].role
      /\ \A i \in Has(messages, "assistant") :
            others[i].content = messages[i].content /\ others[i].calls = messages[i].calls
      /\ \A i \in DOMAIN messages : messages[i].role # "assistant" => others[i] = messages[i]
  BY DEF Has
<1>4. ASSUME NEW i \in Has(messages, "tool") PROVE CallOf(others, i) = CallOf(messages, i)
  <2> DEFINE Makes(all) == {j \in Has(all, "assistant") :
                              j < i /\ \E k \in DOMAIN all[j].calls : all[j].calls[k].id = all[i].call}
             makers == Makes(messages)
             m == Max(makers)
  <2>1. others[i] = messages[i]
    BY <1>3 DEF Has
  <2>2. Makes(others) = makers
    BY ONLY <1>2, <1>3, <2>1
  <2>3. m \in Has(messages, "assistant")
    <3>1. makers # {}
      BY DEF Talk, Grouped, Asks
    <3>2. DOMAIN messages = 1 .. Len(messages) /\ Len(messages) \in Nat
      BY ListDomain DEF Talk
    <3>3. makers \in SUBSET (1 .. Len(messages))
      BY <3>2 DEF Has
    <3>4. makers \subseteq Has(messages, "assistant")
      OBVIOUS
    <3> HIDE DEF makers
    <3>5. m \in makers
      BY ONLY <3>1, <3>2, <3>3, GreatestPosition
    <3> QED
      BY <3>4, <3>5
  <2>4. others[m].calls = messages[m].calls
    BY <1>3, <2>3
  <2> DEFINE Told(all, n) == <<n, Min({k \in DOMAIN all[n].calls : all[n].calls[k].id = all[i].call})>>
  <2>5. CallOf(others, i) = Told(others, Max(Makes(others))) /\ CallOf(messages, i) = Told(messages, m)
    BY DEF CallOf
  <2>6. Told(others, m) = Told(messages, m)
    <3> HIDE DEF m
    <3> QED
      BY ONLY <2>1, <2>4
  <2> HIDE DEF Makes, Told
  <2> QED
    BY <2>2, <2>5, <2>6
<1> DEFINE Reads(all, i) ==
              CASE all[i].role = "assistant" ->
                      [said |-> all[i].content,
                       calls |-> [k \in DOMAIN all[i].calls |->
                                    <<all[i].calls[k].name, all[i].calls[k].input>>]]
                [] all[i].role = "tool" ->
                      [answers |-> CallOf(all, i), outcome |-> all[i].outcome,
                       images |-> all[i].images]
                [] OTHER -> all[i]
<1>5. ASSUME NEW i \in DOMAIN messages PROVE Reads(others, i) = Reads(messages, i)
  <2>1. CASE messages[i].role = "assistant"
    <3>1. i \in Has(messages, "assistant")
      BY <2>1 DEF Has
    <3>2. /\ others[i].role = "assistant"
          /\ others[i].content = messages[i].content /\ others[i].calls = messages[i].calls
      BY <1>3, <2>1, <3>1
    <3> QED
      BY ONLY <2>1, <3>2
  <2>2. CASE messages[i].role = "tool"
    <3>1. i \in Has(messages, "tool")
      BY <2>2 DEF Has
    <3>2. CallOf(others, i) = CallOf(messages, i) /\ others[i] = messages[i]
      BY <1>3, <1>4, <2>2, <3>1
    <3> QED
      BY ONLY <2>2, <3>2
  <2>3. CASE messages[i].role \notin {"assistant", "tool"}
    <3>1. others[i] = messages[i]
      BY <1>3, <2>3
    <3> QED
      BY ONLY <2>3, <3>1
  <2> QED
    BY <2>1, <2>2, <2>3
<1>6. /\ Reading(others) = [i \in DOMAIN others |-> Reads(others, i)]
      /\ Reading(messages) = [i \in DOMAIN messages |-> Reads(messages, i)]
  BY DEF Reading
<1> HIDE DEF Reads
<1> QED
  BY ONLY <1>1, <1>5, <1>6

\* Messages without their images are formed like others.
LEMMA SentTalk ==
    ASSUME Sound(conversation, contents)
    PROVE  Talk(Sent)
<1>1. Talk(conversation)
  BY DEF Sound, Talk
<1>2. CASE model.vision
  BY <1>1, <1>2 DEF Sent
<1>3. CASE ~model.vision
  <2>1. /\ DOMAIN Sent = DOMAIN conversation /\ IsSequence(Sent)
        /\ \A i \in DOMAIN conversation :
              /\ Sent[i].role = conversation[i].role
              /\ conversation[i].role = "assistant" => Sent[i] = conversation[i]
              /\ conversation[i].role = "tool" => Sent[i].call = conversation[i].call
    BY SameSent
  <2>2. Sent = [i \in DOMAIN conversation |->
                  IF conversation[i].role \in {"user", "tool"}
                  THEN [conversation[i] EXCEPT !.images = <<>>] ELSE conversation[i]]
    BY <1>3 DEF Sent, WithoutImages
  <2>3. ASSUME NEW i \in DOMAIN conversation PROVE Formed(Sent[i])
    <3> DEFINE m == conversation[i]
    <3>1. Formed(m)
      BY <1>1 DEF Talk
    <3>2. Sent[i] = IF m.role \in {"user", "tool"} THEN [m EXCEPT !.images = <<>>] ELSE m
      BY <2>2
    <3> HIDE DEF m
    <3>3. CASE m.role = "user"
      <4>1. m = [role |-> "user", content |-> m.content, images |-> m.images,
                 documents |-> m.documents]
        BY <3>1, <3>3 DEF Formed, User
      <4>2. Sent[i] = [role |-> "user", content |-> m.content, images |-> <<>>,
                       documents |-> m.documents]
        BY <3>2, <3>3, <4>1
      <4> QED
        BY <4>2 DEF Formed, User
    <3>4. CASE m.role = "tool"
      <4>1. m = [role |-> "tool", call |-> m.call, outcome |-> m.outcome, images |-> m.images]
        BY <3>1, <3>4 DEF Formed, Result
      <4>2. Sent[i] = [role |-> "tool", call |-> m.call, outcome |-> m.outcome, images |-> <<>>]
        BY <3>2, <3>4, <4>1
      <4>3. IsSequence(<<>>)
        BY DEF IsSequence
      <4> QED
        BY <4>2, <4>3 DEF Formed, Result
    <3>5. CASE m.role = "assistant"
      BY <3>1, <3>2, <3>5
    <3> QED
      BY <3>1, <3>3, <3>4, <3>5 DEF Formed
  <2>4. \A i \in DOMAIN conversation :
           conversation[i].role = "assistant" => Sent[i].calls = conversation[i].calls
    BY <2>1
  <2> QED
    BY <1>1, <2>1, <2>3, <2>4, TalkAlike
<1> QED
  BY <1>2, <1>3

\* Reasoning that is asked for is neither said nor called.
LEMMA ReplayReads ==
    ASSUME NEW messages, Talk(messages), NEW tools
    PROVE  Talk(Replay(messages, tools)) /\ Reading(Replay(messages, tools)) = Reading(messages)
<1> DEFINE others == [i \in DOMAIN messages |-> Reasoned(messages[i])]
<1>1. CASE tools = {}
  BY <1>1 DEF Replay
<1>2. CASE tools # {}
  <2>1. Replay(messages, tools) = others
    BY <1>2 DEF Replay
  <2>2. DOMAIN messages = 1 .. Len(messages) /\ Len(messages) \in Nat /\ IsSequence(messages)
    BY ListDomain DEF Talk
  <2>3. DOMAIN others = DOMAIN messages /\ others = [i \in DOMAIN messages |-> others[i]]
    OBVIOUS
  <2>4. ASSUME NEW i \in DOMAIN messages
        PROVE  /\ Formed(others[i]) /\ others[i].role = messages[i].role
               /\ messages[i].role = "assistant" =>
                     others[i].content = messages[i].content /\ others[i].calls = messages[i].calls
               /\ messages[i].role # "assistant" => others[i] = messages[i]
    <3> DEFINE m == messages[i]
    <3>1. others[i] = Reasoned(m) /\ Formed(m)
      BY DEF Talk
    <3> HIDE DEF m, others
    <3>2. CASE m.role # "assistant"
      <4>1. Reasoned(m) = m
        BY <3>2 DEF Reasoned
      <4> QED
        BY <3>1, <3>2, <4>1 DEF m
    <3>3. CASE m.role = "assistant"
      <4>1. /\ m = [role |-> "assistant", content |-> m.content, calls |-> m.calls,
                    reasoning |-> m.reasoning]
            /\ IsSequence(m.calls)
        BY <3>1, <3>3 DEF Formed, Assistant
      <4>2. Reasoned(m) = [role |-> "assistant", content |-> m.content, calls |-> m.calls,
                           reasoning |-> Reasoned(m).reasoning]
        BY <3>3, <4>1 DEF Reasoned
      <4> HIDE DEF Reasoned
      <4>3. Formed(Reasoned(m))
        BY <4>1, <4>2 DEF Formed, Assistant
      <4>4. /\ Reasoned(m).role = "assistant" /\ Reasoned(m).content = m.content
            /\ Reasoned(m).calls = m.calls
        BY <4>2
      <4> QED
        BY <3>1, <3>3, <4>3, <4>4 DEF m
    <3> QED
      BY <3>2, <3>3
  <2> HIDE DEF others
  <2>5. IsSequence(others)
    BY <2>2, <2>3, ListMade
  <2>6. Talk(others)
    <3>1. \A i \in DOMAIN messages :
             /\ Formed(others[i]) /\ others[i].role = messages[i].role
             /\ messages[i].role = "assistant" => others[i].calls = messages[i].calls
             /\ messages[i].role = "tool" => others[i].call = messages[i].call
      BY <2>4
    <3> QED
      BY <2>3, <2>5, <3>1, TalkAlike
  <2>7. Reading(others) = Reading(messages)
    BY <2>3, <2>4, ReadingAlike
  <2> QED
    BY <2>1, <2>6, <2>7
<1> QED
  BY <1>1, <1>2

\* README.md:37, "parallel tool results", of the Chat adapter: whatever is in the
\* conversation, what the service understands of a request is the conversation, each
\* result and each image with its call, although the images of results that stand
\* together go behind all of them.
THEOREM ChatRequestTellsConversation ==
    Spec => [](Protocol = "ChatCompletions" => RequestTellsConversation)
<1>1. ConversationInvariant => (Protocol = "ChatCompletions" => RequestTellsConversation)
  <2>1. SUFFICES ASSUME ConversationInvariant, Protocol = "ChatCompletions", pc = "sending",
                        ~Compacting, NEW request \in Requests(Sent, continuation, Specs)
                 PROVE  Reading(Sent) = Reading(Route(A!Understood(request), C!Understood(request),
                                                G!Understood(request), R!Understood(request)))
    BY DEF RequestTellsConversation
  <2>2. request = C!Request(Replay(Sent, Specs), Specs)
    BY <2>1 DEF Requests, Route
  <2>3. Route(A!Understood(request), C!Understood(request),
              G!Understood(request), R!Understood(request)) = C!Understood(request)
    BY <2>1 DEF Route
  <2>4. Talk(Sent)
    BY <2>1, SentTalk DEF ConversationInvariant, HostInvariant
  <2>5. /\ Talk(Replay(Sent, Specs)) /\ Reading(Replay(Sent, Specs)) = Reading(Sent)
    BY <2>4, ReplayReads
  <2>6. C!Understood(request) = Replay(Sent, Specs)
    BY <2>2, <2>5, ChatUnderstood
  <2> QED
    BY <2>3, <2>5, <2>6
<1> QED
  BY <1>1, ConversationInvariance, PTL
=============================================================================
