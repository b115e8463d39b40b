--------------------------- MODULE Selection_proofs ---------------------------
(***************************************************************************)
(* What Selection's operators and the library's FlattenSeq return, for     *)
(* every sequence and every set of positions.  The induction principles    *)
(* are stated with sets, S for the values a fact holds of, since a set can *)
(* be given by a definition that the provers unfold, where an operator     *)
(* parameter cannot.                                                       *)
(***************************************************************************)
EXTENDS Selection, SequencesExt, FiniteSetTheorems, SequenceTheorems,
        WellFoundedInduction, TLAPS

-----------------------------------------------------------------------------
(* Induction, and functions defined by recursion.                          *)

\* Every set of natural numbers with an element has a least one.
LEMMA LeastNatural ==
    ASSUME NEW T \in SUBSET Nat, T # {}
    PROVE  \E x \in T : \A y \in T : x <= y
<1> DEFINE R == {ss \in Nat \X Nat : ss[1] < ss[2]}
<1>1. IsWellFoundedOn(R, Nat)
  BY NatLessThanWellFounded DEF OpToRel
<1>2. PICK x \in T : \A y \in T : ~(<<y, x>> \in R)
  BY <1>1, WFMin
<1>3. ASSUME NEW y \in T PROVE x <= y
  <2>1. ~(y < x)
    <3>1. SUFFICES ASSUME y < x PROVE FALSE
      OBVIOUS
    <3>2. <<y, x>> \in R
      BY <3>1
    <3> QED
      BY <1>2, <3>2
  <2> QED
    BY <2>1
<1> QED
  BY <1>3

\* A set with 0 that has n + 1 for every n has every natural number.
LEMMA SetInduction ==
    ASSUME NEW S, 0 \in S, \A n \in Nat : n \in S => n + 1 \in S
    PROVE  Nat \subseteq S
<1>1. SUFFICES ASSUME Nat \ S # {} PROVE FALSE
  OBVIOUS
<1>2. PICK x \in Nat \ S : \A y \in Nat \ S : x <= y
  BY <1>1, LeastNatural
<1>3. x - 1 \in Nat /\ ~(x <= x - 1)
  BY <1>2
<1> QED
  BY <1>2, <1>3

\* Steps on X, one per position, have a function that starts with base and takes
\* them in turn: a recursive definition on 0 .. N means something.
LEMMA Recursion ==
    ASSUME NEW X, NEW base \in X, NEW N \in Nat, NEW step \in [1 .. N -> [X -> X]]
    PROVE  \E g \in [0 .. N -> X] : /\ g[0] = base
                                    /\ \A n \in 1 .. N : g[n] = step[n][g[n - 1]]
<1> DEFINE Good(m, g) == /\ g \in [0 .. m -> X] /\ g[0] = base
                         /\ \A n \in 1 .. m : g[n] = step[n][g[n - 1]]
           S == {m \in Nat : m <= N => \E g : Good(m, g)}
<1>1. 0 \in S
  <2>1. Good(0, [n \in 0 .. 0 |-> base])
    OBVIOUS
  <2> QED
    BY <2>1
<1>2. ASSUME NEW m \in Nat, m \in S PROVE m + 1 \in S
  <2>1. SUFFICES ASSUME m + 1 <= N PROVE \E g : Good(m + 1, g)
    OBVIOUS
  <2>2. PICK g : Good(m, g)
    BY <1>2, <2>1
  <2> DEFINE h == [n \in 0 .. m + 1 |-> IF n = m + 1 THEN step[m + 1][g[m]] ELSE g[n]]
  <2>3. g[m] \in X /\ step[m + 1] \in [X -> X]
    BY <2>1, <2>2
  <2>4. h \in [0 .. m + 1 -> X] /\ h[0] = base
    BY <2>2, <2>3
  <2>5. ASSUME NEW n \in 1 .. m + 1 PROVE h[n] = step[n][h[n - 1]]
    <3>1. CASE n = m + 1
      <4>1. h[n] = step[n][g[m]] /\ h[n - 1] = g[m]
        BY <3>1
      <4> QED
        BY <4>1
    <3>2. CASE n \in 1 .. m
      <4>1. h[n] = g[n] /\ h[n - 1] = g[n - 1]
        BY <3>2
      <4> QED
        BY <4>1, <3>2, <2>2
    <3> QED
      BY <3>1, <3>2
  <2>6. Good(m + 1, h)
    BY <2>4, <2>5
  <2> QED
    BY <2>6
<1> HIDE DEF S
<1>3. N \in S
  BY <1>1, <1>2, SetInduction
<1> QED
  BY <1>3 DEF S

\* A set with the empty sequence that is closed under Append has every sequence.
LEMMA SequenceInduction ==
    ASSUME NEW X, NEW S, <<>> \in S,
           \A seq \in Seq(X), e \in X : seq \in S => Append(seq, e) \in S
    PROVE  Seq(X) \subseteq S
<1> DEFINE N == {n \in Nat : \A seq \in Seq(X) : Len(seq) = n => seq \in S}
<1>1. 0 \in N
  BY EmptySeq
<1>2. ASSUME NEW n \in Nat, n \in N PROVE n + 1 \in N
  <2>1. SUFFICES ASSUME NEW seq \in Seq(X), Len(seq) = n + 1 PROVE seq \in S
    OBVIOUS
  <2>2. seq # <<>>
    BY <2>1, EmptySeq
  <2>3. PICK front \in Seq(X), e \in X : seq = Append(front, e)
    BY <2>2, SequenceEmptyOrAppend
  <2>4. Len(front) = n
    BY <2>1, <2>3, AppendProperties, LenProperties
  <2> QED
    BY <1>2, <2>3, <2>4
<1> HIDE DEF N
<1>3. Nat \subseteq N
  BY <1>1, <1>2, SetInduction
<1> QED
  BY <1>3, LenProperties DEF N

\* Appending to a concatenation appends to its second part.
LEMMA AppendToConcat ==
    ASSUME NEW X, NEW s \in Seq(X), NEW t \in Seq(X), NEW e \in X
    PROVE  Append(s \o t, e) = s \o Append(t, e)
<1>1. /\ Append(s \o t, e) = (s \o t) \o <<e>>
      /\ Append(t, e) = t \o <<e>>
  BY ConcatProperties, AppendIsConcat
<1>2. <<e>> \in Seq(X)
  OBVIOUS
<1> QED
  BY <1>1, <1>2, ConcatAssociative

-----------------------------------------------------------------------------
(* What is selected, by the end of the sequence.                           *)

\* Selections is a function and satisfies the recursion it is defined by.
LEMMA Selecting ==
    ASSUME NEW X, NEW seq \in Seq(X), NEW indices
    PROVE  LET f == Selections(seq, indices)
           IN  /\ f \in [0 .. Len(seq) -> Seq(X)]
               /\ f[0] = <<>>
               /\ \A n \in 1 .. Len(seq) :
                     f[n] = IF n \in indices THEN Append(f[n - 1], seq[n]) ELSE f[n - 1]
<1> DEFINE N == Len(seq)
           Y == Seq(X)
           base == <<>>
           Next(n, x) == IF n \in indices THEN Append(x, seq[n]) ELSE x
           Rec(g) == [n \in 0 .. N |-> IF n = 0 THEN <<>>
                                       ELSE IF n \in indices THEN Append(g[n - 1], seq[n])
                                       ELSE g[n - 1]]
           step == [n \in 1 .. N |-> [x \in Y |-> Next(n, x)]]
<1>0. N \in Nat /\ base \in Y
  OBVIOUS
<1>1. \A n \in 1 .. N, x \in Y : Next(n, x) \in Y
  OBVIOUS
<1> DEFINE f == CHOOSE h : h = Rec(h)
<1>2. f = Selections(seq, indices)
  BY DEF Selections
<1>3. \A g : Rec(g) = [n \in 0 .. N |-> IF n = 0 THEN base ELSE Next(n, g[n - 1])]
  OBVIOUS
<1> HIDE DEF N, Y, base, Next, Rec
<1>4. step \in [1 .. N -> [Y -> Y]]
  BY <1>1
<1> HIDE DEF step
<1>5. PICK g \in [0 .. N -> Y] : g[0] = base /\ \A n \in 1 .. N : g[n] = step[n][g[n - 1]]
  BY <1>0, <1>4, Recursion, SMTT(40)
<1>6. ASSUME NEW n \in 1 .. N PROVE g[n] = Next(n, g[n - 1])
  <2>1. n - 1 \in 0 .. N
    BY <1>0
  <2>2. g[n - 1] \in Y
    BY <2>1
  <2> QED
    BY <1>5, <2>2 DEF step
<1>7. g = Rec(g)
  <2>1. g = [n \in 0 .. N |-> g[n]]
    OBVIOUS
  <2>2. \A n \in 0 .. N : g[n] = IF n = 0 THEN base ELSE Next(n, g[n - 1])
    BY <1>0, <1>1, <1>5, <1>6
  <2> QED
    BY <2>1, <2>2, <1>3
<1>8. f = Rec(f)
  BY <1>7
<1> HIDE DEF f
<1>9. f = [n \in 0 .. N |-> IF n = 0 THEN base ELSE Next(n, f[n - 1])]
  BY <1>3, <1>8
<1>10. /\ DOMAIN f = 0 .. N /\ f[0] = base
       /\ \A n \in 1 .. N : f[n] = Next(n, f[n - 1])
  BY <1>0, <1>1, <1>9
<1> DEFINE S == {n \in Nat : n <= N => f[n] \in Y}
<1>11. 0 \in S
  BY <1>0, <1>1, <1>10
<1>12. ASSUME NEW n \in Nat, n \in S PROVE n + 1 \in S
  <2>1. SUFFICES ASSUME n + 1 <= N PROVE f[n + 1] \in Y
    OBVIOUS
  <2>2. f[n + 1] = Next(n + 1, f[n]) /\ n + 1 \in 1 .. N /\ f[n] \in Y
    BY <1>0, <1>1, <1>10, <1>12, <2>1
  <2> QED
    BY <1>0, <1>1, <2>2
<1> HIDE DEF S
<1>13. Nat \subseteq S
  BY <1>11, <1>12, SetInduction
<1>14. f \in [0 .. N -> Y]
  <2>1. \A n \in 0 .. N : f[n] \in Y
    BY <1>0, <1>1, <1>13 DEF S
  <2>2. f = [n \in 0 .. N |-> f[n]]
    BY <1>9, <1>10
  <2> QED
    BY <2>1, <2>2
<1> QED
  BY <1>2, <1>10, <1>14 DEF N, Y, base, Next

\* A selection of messages is a sequence of messages.
LEMMA SelectType ==
    ASSUME NEW X, NEW seq \in Seq(X), NEW indices
    PROVE  Select(seq, indices) \in Seq(X)
BY Selecting DEF Select

\* Nothing is selected of no message (with the length as the hypothesis).
LEMMA SelectNothing ==
    ASSUME NEW X, NEW seq \in Seq(X), NEW indices
    PROVE  Len(seq) = 0 => Select(seq, indices) = <<>>
<1> DEFINE f == Selections(seq, indices)
<1>1. /\ f[0] = <<>>
      /\ \A n \in 1 .. Len(seq) :
            f[n] = IF n \in indices THEN Append(f[n - 1], seq[n]) ELSE f[n - 1]
  BY Selecting
<1> QED
  BY <1>1 DEF Select

\* Nothing is selected of no message.
LEMMA SelectEmpty == ASSUME NEW indices PROVE Select(<<>>, indices) = <<>>
<1>1. \E seq \in Seq({}) : seq = <<>> /\ Len(seq) = 0
  BY EmptySeq
<1> QED
  BY <1>1, SelectNothing

\* What is selected of the first m messages depends on them and on nothing else.
LEMMA SelectionsAgree ==
    ASSUME NEW X, NEW s \in Seq(X), NEW t \in Seq(X), NEW I, NEW J,
           NEW m \in Nat, m <= Len(s), m <= Len(t),
           \A n \in 1 .. m : s[n] = t[n] /\ (n \in I <=> n \in J)
    PROVE  Selections(s, I)[m] = Selections(t, J)[m]
<1> DEFINE f == Selections(s, I)
           g == Selections(t, J)
           S == {n \in Nat : n <= m => f[n] = g[n]}
<1>1. /\ f[0] = <<>>
      /\ \A n \in 1 .. Len(s) : f[n] = IF n \in I THEN Append(f[n - 1], s[n]) ELSE f[n - 1]
  BY Selecting
<1>2. /\ g[0] = <<>>
      /\ \A n \in 1 .. Len(t) : g[n] = IF n \in J THEN Append(g[n - 1], t[n]) ELSE g[n - 1]
  BY Selecting
<1> HIDE DEF f, g
<1>3. 0 \in S
  BY <1>1, <1>2
<1>4. ASSUME NEW n \in Nat, n \in S PROVE n + 1 \in S
  <2>1. SUFFICES ASSUME n + 1 <= m PROVE f[n + 1] = g[n + 1]
    OBVIOUS
  <2>2. f[n + 1] = IF n + 1 \in I THEN Append(f[n], s[n + 1]) ELSE f[n]
    BY <1>1, <2>1
  <2>3. g[n + 1] = IF n + 1 \in J THEN Append(g[n], t[n + 1]) ELSE g[n]
    BY <1>2, <2>1
  <2> QED
    BY <1>4, <2>1, <2>2, <2>3
<1> HIDE DEF S
<1>5. m \in S
  BY <1>3, <1>4, SetInduction
<1> QED
  BY <1>5 DEF S, f, g

\* Positions outside the sequence do not matter.
LEMMA SelectAgree ==
    ASSUME NEW X, NEW s \in Seq(X), NEW I, NEW J,
           \A n \in 1 .. Len(s) : n \in I <=> n \in J
    PROVE  Select(s, I) = Select(s, J)
<1> DEFINE n == Len(s)
<1>1. n \in Nat /\ n <= Len(s)
  OBVIOUS
<1> HIDE DEF n
<1>2. \A i \in 1 .. n : s[i] = s[i] /\ (i \in I <=> i \in J)
  BY DEF n
<1>3. Selections(s, I)[n] = Selections(s, J)[n]
  BY <1>1, <1>2, SelectionsAgree
<1> QED
  BY <1>3 DEF Select, n

\* A message added at the end is added to the selection if its position is in it.
LEMMA SelectAppend ==
    ASSUME NEW X, NEW s \in Seq(X), NEW e \in X, NEW I
    PROVE  Select(Append(s, e), I) =
             IF Len(s) + 1 \in I THEN Append(Select(s, I), e) ELSE Select(s, I)
<1> DEFINE t == Append(s, e)
           n == Len(s)
<1>1. /\ t \in Seq(X) /\ Len(t) = n + 1 /\ t[n + 1] = e /\ n \in Nat
      /\ \A i \in 1 .. n : t[i] = s[i]
  BY AppendProperties, LenProperties
<1> HIDE DEF t
<1>2. Selections(t, I)[n] = Selections(s, I)[n]
  BY <1>1, SelectionsAgree
<1>3. Selections(t, I)[n + 1] =
        IF n + 1 \in I THEN Append(Selections(t, I)[n], t[n + 1]) ELSE Selections(t, I)[n]
  <2>1. n + 1 \in 1 .. Len(t) /\ (n + 1) - 1 = n
    BY <1>1
  <2> QED
    BY <1>1, <2>1, Selecting
<1> QED
  BY <1>1, <1>2, <1>3 DEF Select, t

\* The selection of a concatenation is that of its parts, positions shifted.
LEMMA SelectConcat ==
    ASSUME NEW X, NEW s \in Seq(X), NEW t \in Seq(X), NEW I
    PROVE  Select(s \o t, I) =
             Select(s, I) \o Select(t, {n \in 1 .. Len(t) : Len(s) + n \in I})
<1> DEFINE In(u) == {n \in 1 .. Len(u) : Len(s) + n \in I}
           S == {u \in Seq(X) : Select(s \o u, I) = Select(s, I) \o Select(u, In(u))}
<1>1. <<>> \in S
  <2>1. <<>> \in Seq(X) /\ s \o <<>> = s /\ Select(s, I) \o <<>> = Select(s, I)
    BY EmptySeq, ConcatEmptySeq, SelectType
  <2>2. Select(<<>>, In(<<>>)) = <<>>
    BY SelectEmpty
  <2> QED
    BY <2>1, <2>2
<1>2. ASSUME NEW u \in Seq(X), NEW e \in X, u \in S PROVE Append(u, e) \in S
  <2> DEFINE v == Append(u, e)
             c == s \o u
  <2>1. /\ v \in Seq(X) /\ Len(v) = Len(u) + 1 /\ c \in Seq(X)
        /\ Len(c) = Len(s) + Len(u) /\ Len(s) \in Nat /\ Len(u) \in Nat
    BY AppendProperties, ConcatProperties, LenProperties
  <2>2. s \o v = Append(c, e)
    BY AppendToConcat
  <2>3. Select(Append(c, e), I) =
          IF Len(c) + 1 \in I THEN Append(Select(c, I), e) ELSE Select(c, I)
    <3> HIDE DEF c
    <3> QED
      BY <2>1, SelectAppend
  <2>4. Select(v, In(v)) =
          IF Len(u) + 1 \in In(v) THEN Append(Select(u, In(v)), e) ELSE Select(u, In(v))
    <3> HIDE DEF In
    <3> QED
      BY SelectAppend
  <2>5. Len(u) + 1 \in In(v) <=> Len(c) + 1 \in I
    BY <2>1
  <2>6. Select(u, In(v)) = Select(u, In(u))
    <3>1. \A n \in 1 .. Len(u) : n \in In(v) <=> n \in In(u)
      BY <2>1
    <3> HIDE DEF In
    <3> QED
      BY <3>1, SelectAgree
  <2> HIDE DEF In, v, c
  <2>7. Select(c, I) = Select(s, I) \o Select(u, In(u))
    BY <1>2 DEF c
  <2>8. Select(s, I) \in Seq(X) /\ Select(u, In(u)) \in Seq(X)
    BY SelectType
  <2>9. Append(Select(s, I) \o Select(u, In(u)), e) = Select(s, I) \o Append(Select(u, In(u)), e)
    BY <2>8, AppendToConcat
  <2>10. Select(s \o v, I) = Select(s, I) \o Select(v, In(v))
    BY <2>2, <2>3, <2>4, <2>5, <2>6, <2>7, <2>9
  <2> QED
    BY <2>1, <2>10 DEF v
<1> HIDE DEF S
<1>3. t \in S
  BY <1>1, <1>2, SequenceInduction
<1> QED
  BY <1>3 DEF S

-----------------------------------------------------------------------------
(* Where selected messages stand.                                          *)

\* Rank counts the selected positions up to n.
LEMMA RankStep ==
    ASSUME NEW I, NEW n \in Nat
    PROVE  /\ Rank(I, n) \in Nat /\ Rank(I, 0) = 0
           /\ Rank(I, n + 1) = IF n + 1 \in I THEN Rank(I, n) + 1 ELSE Rank(I, n)
<1>1. ASSUME NEW m \in Nat PROVE IsFiniteSet(I \cap 1 .. m)
  <2>1. IsFiniteSet(1 .. m)
    BY FS_Interval
  <2> QED
    BY <2>1, FS_Subset
<1>2. Rank(I, n) \in Nat
  BY <1>1, FS_CardinalityType DEF Rank
<1>3. Rank(I, 0) = 0
  <2>1. I \cap 1 .. 0 = {}
    OBVIOUS
  <2> QED
    BY <2>1, FS_EmptySet DEF Rank
<1>4. CASE n + 1 \in I
  <2>1. I \cap 1 .. n + 1 = (I \cap 1 .. n) \cup {n + 1} /\ n + 1 \notin I \cap 1 .. n
    BY <1>4
  <2> QED
    BY <1>1, <1>2, <1>3, <1>4, <2>1, FS_AddElement DEF Rank
<1>5. CASE n + 1 \notin I
  <2>1. I \cap 1 .. n + 1 = I \cap 1 .. n
    BY <1>5
  <2> QED
    BY <1>2, <1>3, <1>5, <2>1 DEF Rank
<1> QED
  BY <1>4, <1>5

\* Ranks grow, and a selected position has a higher one than all before it.
LEMMA RankMonotone ==
    ASSUME NEW I, NEW m \in Nat, NEW n \in Nat, m <= n
    PROVE  Rank(I, m) <= Rank(I, n) /\ (m < n /\ n \in I => Rank(I, m) < Rank(I, n))
<1> DEFINE S == {k \in Nat : Rank(I, m) <= Rank(I, m + k)}
<1>1. 0 \in S
  BY RankStep
<1>2. ASSUME NEW k \in Nat, k \in S PROVE k + 1 \in S
  <2>1. Rank(I, m) \in Nat /\ Rank(I, m + k) \in Nat /\ m + k \in Nat
    BY RankStep
  <2>2. Rank(I, (m + k) + 1) = IF (m + k) + 1 \in I THEN Rank(I, m + k) + 1 ELSE Rank(I, m + k)
    BY <2>1, RankStep
  <2>3. Rank(I, m) <= Rank(I, (m + k) + 1)
    BY <1>2, <2>1, <2>2
  <2>4. (m + k) + 1 = m + (k + 1)
    OBVIOUS
  <2> QED
    BY <2>3, <2>4
<1> HIDE DEF S
<1>3. Nat \subseteq S
  BY <1>1, <1>2, SetInduction
<1>4. Rank(I, m) <= Rank(I, n)
  <2>1. n - m \in S /\ m + (n - m) = n
    BY <1>3
  <2> QED
    BY <2>1 DEF S
<1>5. ASSUME m < n, n \in I PROVE Rank(I, m) < Rank(I, n)
  <2>1. n - 1 \in Nat /\ (n - 1) + 1 = n /\ (n - 1) - m \in Nat /\ m + ((n - 1) - m) = n - 1
    BY <1>5
  <2>2. (n - 1) - m \in S
    BY <1>3, <2>1
  <2>3. Rank(I, m) <= Rank(I, n - 1)
    BY <2>1, <2>2 DEF S
  <2>4. Rank(I, (n - 1) + 1) = Rank(I, n - 1) + 1 /\ Rank(I, m) \in Nat /\ Rank(I, n - 1) \in Nat
    <3> DEFINE k == n - 1
    <3>1. k \in Nat /\ k + 1 \in I
      BY <1>5, <2>1
    <3> HIDE DEF k
    <3>2. Rank(I, k + 1) = Rank(I, k) + 1 /\ Rank(I, m) \in Nat /\ Rank(I, k) \in Nat
      BY <3>1, RankStep
    <3> QED
      BY <3>2 DEF k
  <2> QED
    BY <2>1, <2>3, <2>4
<1> QED
  BY <1>4, <1>5

\* The selected messages are at their ranks, and no other message is selected: so
\* order and number are kept.
LEMMA SelectRanks ==
    ASSUME NEW X, NEW seq \in Seq(X), NEW I
    PROVE  /\ Len(Select(seq, I)) = Rank(I, Len(seq))
           /\ \A i \in 1 .. Len(seq) : i \in I =>
                 /\ Rank(I, i) \in 1 .. Len(Select(seq, I))
                 /\ Select(seq, I)[Rank(I, i)] = seq[i]
           /\ \A n \in 1 .. Len(Select(seq, I)) :
                 \E i \in 1 .. Len(seq) : i \in I /\ n = Rank(I, i)
<1> DEFINE Good(s) ==
             /\ Len(Select(s, I)) = Rank(I, Len(s))
             /\ \A i \in 1 .. Len(s) : i \in I =>
                 /\ Rank(I, i) \in 1 .. Len(Select(s, I))
                 /\ Select(s, I)[Rank(I, i)] = s[i]
             /\ \A n \in 1 .. Len(Select(s, I)) :
                 \E i \in 1 .. Len(s) : i \in I /\ n = Rank(I, i)
           S == {s \in Seq(X) : Good(s)}
<1>1. <<>> \in S
  <2>1. <<>> \in Seq(X) /\ Len(<<>>) = 0 /\ Select(<<>>, I) = <<>>
    BY EmptySeq, SelectEmpty
  <2>2. Rank(I, 0) = 0
    BY RankStep
  <2> QED
    BY <2>1, <2>2
<1>2. ASSUME NEW s \in Seq(X), NEW e \in X, s \in S PROVE Append(s, e) \in S
  <2> DEFINE t == Append(s, e)
             l == Len(s)
             f == Select(s, I)
             g == Select(t, I)
  <2>1. /\ t \in Seq(X) /\ Len(t) = l + 1 /\ l \in Nat /\ t[l + 1] = e
        /\ \A i \in 1 .. l : t[i] = s[i]
    BY AppendProperties, LenProperties
  <2>2. g = IF l + 1 \in I THEN Append(f, e) ELSE f
    BY SelectAppend
  <2>3. /\ Rank(I, l) \in Nat
        /\ Rank(I, l + 1) = IF l + 1 \in I THEN Rank(I, l) + 1 ELSE Rank(I, l)
    BY <2>1, RankStep
  <2>4. f \in Seq(X) /\ Good(s)
    BY <1>2, SelectType
  <2> HIDE DEF t, l, f, g
  <2>5. /\ Len(f) = Rank(I, l)
        /\ \A i \in 1 .. l : i \in I => Rank(I, i) \in 1 .. Len(f) /\ f[Rank(I, i)] = s[i]
        /\ \A n \in 1 .. Len(f) : \E i \in 1 .. l : i \in I /\ n = Rank(I, i)
    BY <2>4 DEF f, l
  <2>6. CASE l + 1 \in I
    <3>1. g = Append(f, e) /\ Rank(I, l + 1) = Rank(I, l) + 1
      BY <2>2, <2>3, <2>6
    <3>2. /\ Len(g) = Len(f) + 1 /\ g[Len(f) + 1] = e
          /\ \A i \in 1 .. Len(f) : g[i] = f[i]
      BY <2>4, <3>1, AppendProperties
    <3>3. ASSUME NEW i \in 1 .. l + 1, i \in I
          PROVE  Rank(I, i) \in 1 .. Len(g) /\ g[Rank(I, i)] = t[i]
      <4>1. CASE i = l + 1
        BY <2>1, <2>3, <2>5, <3>1, <3>2, <4>1
      <4>2. CASE i \in 1 .. l
        <5>1. Rank(I, i) \in 1 .. Len(f) /\ f[Rank(I, i)] = t[i]
          BY <2>1, <2>5, <3>3, <4>2
        <5> QED
          BY <2>3, <2>5, <3>2, <5>1
      <4> QED
        BY <2>1, <4>1, <4>2
    <3>4. ASSUME NEW n \in 1 .. Len(g)
          PROVE  \E i \in 1 .. l + 1 : i \in I /\ n = Rank(I, i)
      <4>1. CASE n = Len(f) + 1
        BY <2>1, <2>3, <2>5, <2>6, <3>1, <4>1
      <4>2. CASE n \in 1 .. Len(f)
        BY <2>1, <2>5, <4>2
      <4> QED
        BY <2>3, <2>5, <3>2, <4>1, <4>2
    <3>5. Len(g) = Rank(I, l + 1)
      BY <2>5, <3>1, <3>2
    <3>6. Good(t)
      BY <2>1, <3>3, <3>4, <3>5 DEF g
    <3> QED
      BY <2>1, <3>6 DEF t
  <2>7. CASE l + 1 \notin I
    <3>1. g = f /\ Rank(I, l + 1) = Rank(I, l)
      BY <2>2, <2>3, <2>7
    <3>2. ASSUME NEW i \in 1 .. l + 1, i \in I
          PROVE  Rank(I, i) \in 1 .. Len(g) /\ g[Rank(I, i)] = t[i]
      <4>1. i \in 1 .. l
        BY <2>1, <2>7, <3>2
      <4> QED
        BY <2>1, <2>5, <3>1, <3>2, <4>1
    <3>3. ASSUME NEW n \in 1 .. Len(g)
          PROVE  \E i \in 1 .. l + 1 : i \in I /\ n = Rank(I, i)
      BY <2>1, <2>5, <3>1
    <3>4. Len(g) = Rank(I, l + 1)
      BY <2>5, <3>1
    <3>5. Good(t)
      BY <2>1, <3>2, <3>3, <3>4 DEF g
    <3> QED
      BY <2>1, <3>5 DEF t
  <2> QED
    BY <2>6, <2>7
<1> HIDE DEF S
<1>3. seq \in S
  BY <1>1, <1>2, SequenceInduction
<1> QED
  BY <1>3 DEF S

-----------------------------------------------------------------------------
(* Selection by kind.                                                      *)

\* A selection by kind is a sequence of messages of these kinds.
LEMMA OfKindsType ==
    ASSUME NEW X, NEW s \in Seq(X), NEW K
    PROVE  /\ OfKinds(s, K) \in Seq(X)
           /\ \A n \in 1 .. Len(OfKinds(s, K)) : OfKinds(s, K)[n].kind \in K
<1> DEFINE I == {i \in DOMAIN s : s[i].kind \in K}
<1>1. \A n \in 1 .. Len(Select(s, I)) :
         \E i \in 1 .. Len(s) : i \in I /\ Select(s, I)[n] = s[i]
  <2> HIDE DEF I
  <2> QED
    BY SelectRanks
<1>2. Select(s, I) \in Seq(X)
  <2> HIDE DEF I
  <2> QED
    BY SelectType
<1> QED
  BY <1>1, <1>2 DEF OfKinds

\* A message of such a kind joins the selection, another one does not.
LEMMA OfKindsAppend ==
    ASSUME NEW X, NEW s \in Seq(X), NEW e \in X, NEW K
    PROVE  OfKinds(Append(s, e), K) =
             IF e.kind \in K THEN Append(OfKinds(s, K), e) ELSE OfKinds(s, K)
<1> DEFINE t == Append(s, e)
           I == {i \in DOMAIN s : s[i].kind \in K}
           J == {i \in DOMAIN t : t[i].kind \in K}
<1>1. /\ t \in Seq(X) /\ Len(t) = Len(s) + 1 /\ Len(s) \in Nat
      /\ DOMAIN s = 1 .. Len(s) /\ DOMAIN t = 1 .. Len(t)
      /\ t[Len(s) + 1] = e /\ \A i \in 1 .. Len(s) : t[i] = s[i]
  BY AppendProperties, LenProperties
<1> HIDE DEF t
<1>2. \A n \in 1 .. Len(s) : n \in I <=> n \in J
  BY <1>1
<1>3. Len(s) + 1 \in J <=> e.kind \in K
  BY <1>1
<1> HIDE DEF I, J
<1>4. Select(s, I) = Select(s, J)
  BY <1>2, SelectAgree
<1>5. Select(t, J) = IF Len(s) + 1 \in J THEN Append(Select(s, J), e) ELSE Select(s, J)
  BY SelectAppend DEF t
<1> QED
  BY <1>3, <1>4, <1>5 DEF OfKinds, I, J, t

\* Nothing is of any kind in an empty sequence.
LEMMA OfKindsEmpty == ASSUME NEW K PROVE OfKinds(<<>>, K) = <<>>
BY SelectEmpty DEF OfKinds

\* One message is selected or not.
LEMMA OfKindsOne ==
    ASSUME NEW X, NEW e \in X, NEW K
    PROVE  OfKinds(<<e>>, K) = IF e.kind \in K THEN <<e>> ELSE <<>>
<1> DEFINE z == <<>>
<1>1. z \in Seq(X)
  OBVIOUS
<1>2. OfKinds(z, K) = <<>>
  BY OfKindsEmpty
<1> HIDE DEF z
<1>3. OfKinds(Append(z, e), K) = IF e.kind \in K THEN Append(OfKinds(z, K), e) ELSE OfKinds(z, K)
  BY <1>1, OfKindsAppend
<1>4. Append(<<>>, e) = <<e>>
  OBVIOUS
<1> QED
  BY <1>2, <1>3, <1>4 DEF z

\* A concatenation is selected from part by part.
LEMMA OfKindsConcat ==
    ASSUME NEW X, NEW s \in Seq(X), NEW t \in Seq(X), NEW K
    PROVE  OfKinds(s \o t, K) = OfKinds(s, K) \o OfKinds(t, K)
<1> DEFINE S == {u \in Seq(X) : OfKinds(s \o u, K) = OfKinds(s, K) \o OfKinds(u, K)}
<1>1. <<>> \in S
  <2>1. <<>> \in Seq(X) /\ s \o <<>> = s /\ OfKinds(s, K) \o <<>> = OfKinds(s, K)
    BY EmptySeq, ConcatEmptySeq, OfKindsType
  <2> QED
    BY <2>1, OfKindsEmpty
<1>2. ASSUME NEW u \in Seq(X), NEW e \in X, u \in S PROVE Append(u, e) \in S
  <2> DEFINE c == s \o u
             v == Append(u, e)
  <2>1. c \in Seq(X) /\ v \in Seq(X) /\ s \o v = Append(c, e)
    BY AppendProperties, ConcatProperties, AppendToConcat
  <2> HIDE DEF c
  <2>2. OfKinds(Append(c, e), K) =
          IF e.kind \in K THEN Append(OfKinds(c, K), e) ELSE OfKinds(c, K)
    BY <2>1, OfKindsAppend
  <2>3. OfKinds(v, K) = IF e.kind \in K THEN Append(OfKinds(u, K), e) ELSE OfKinds(u, K)
    BY OfKindsAppend
  <2>4. OfKinds(c, K) = OfKinds(s, K) \o OfKinds(u, K)
    BY <1>2 DEF c
  <2>5. OfKinds(s, K) \in Seq(X) /\ OfKinds(u, K) \in Seq(X)
    BY OfKindsType
  <2> HIDE DEF v
  <2>6. Append(OfKinds(s, K) \o OfKinds(u, K), e) = OfKinds(s, K) \o Append(OfKinds(u, K), e)
    <3> DEFINE p == OfKinds(s, K)
               q == OfKinds(u, K)
    <3>1. p \in Seq(X) /\ q \in Seq(X)
      BY <2>5
    <3> HIDE DEF p, q, S
    <3>2. Append(p \o q, e) = (p \o q) \o <<e>> /\ Append(q, e) = q \o <<e>>
      <4>1. p \o q \in Seq(X)
        BY <3>1
      <4> QED
        BY <3>1, <4>1, AppendIsConcat
    <3>3. (p \o q) \o <<e>> = p \o (q \o <<e>>)
      BY <3>1, ConcatAssociative
    <3> QED
      BY <3>2, <3>3 DEF p, q
  <2>7. OfKinds(s \o v, K) = OfKinds(s, K) \o OfKinds(v, K)
    BY <2>1, <2>2, <2>3, <2>4, <2>6
  <2> QED
    BY <2>1, <2>7 DEF v
<1> HIDE DEF S
<1>3. t \in S
  BY <1>1, <1>2, SequenceInduction
<1> QED
  BY <1>3 DEF S

\* A sequence cut in two is selected from part by part.
LEMMA OfKindsSplit ==
    ASSUME NEW X, NEW s \in Seq(X), NEW k \in 1 .. Len(s) + 1, NEW K
    PROVE  OfKinds(s, K) =
             OfKinds(SubSeq(s, 1, k - 1), K) \o OfKinds(SubSeq(s, k, Len(s)), K)
<1>1. /\ SubSeq(s, 1, k - 1) \in Seq(X) /\ SubSeq(s, k, Len(s)) \in Seq(X)
      /\ s = SubSeq(s, 1, k - 1) \o SubSeq(s, k, Len(s))
  <2> DEFINE m == k - 1
  <2>1. Len(s) \in Nat /\ 1 \in 1 .. Len(s) + 1 /\ m \in 0 .. Len(s) /\ m + 1 = k
    BY LenProperties
  <2>2. SubSeq(s, 1, Len(s)) = s
    OBVIOUS
  <2> QED
    <3>1. SubSeq(s, 1, m) \o SubSeq(s, m + 1, Len(s)) = SubSeq(s, 1, Len(s))
      <4>1. \A i \in 1 .. Len(s) + 1 : \A j \in i - 1 .. Len(s) : \A n \in j .. Len(s) :
               SubSeq(s, i, j) \o SubSeq(s, j + 1, n) = SubSeq(s, i, n)
        BY ConcatAdjacentSubSeq, Zenon
      <4>2. 1 \in 1 .. Len(s) + 1 /\ m \in 1 - 1 .. Len(s) /\ Len(s) \in m .. Len(s)
        BY <2>1
      <4> QED
        BY <4>1, <4>2, Zenon
    <3>2. SubSeq(s, 1, m) \in Seq(X) /\ SubSeq(s, m + 1, Len(s)) \in Seq(X)
      BY <2>1, SubSeqProperties
    <3> QED
      BY <2>1, <2>2, <3>1, <3>2
<1> DEFINE a == SubSeq(s, 1, k - 1)
           b == SubSeq(s, k, Len(s))
<1> HIDE DEF a, b
<1>2. a \in Seq(X) /\ b \in Seq(X) /\ s = a \o b
  BY <1>1 DEF a, b
<1>3. OfKinds(a \o b, K) = OfKinds(a, K) \o OfKinds(b, K)
  BY <1>2, OfKindsConcat
<1> QED
  BY <1>2, <1>3 DEF a, b

\* Selecting twice selects what is of both kinds.
LEMMA OfKindsTwice ==
    ASSUME NEW X, NEW s \in Seq(X), NEW A, NEW B
    PROVE  OfKinds(OfKinds(s, A), B) = OfKinds(s, A \cap B)
<1> DEFINE S == {u \in Seq(X) : OfKinds(OfKinds(u, A), B) = OfKinds(u, A \cap B)}
<1>1. <<>> \in S
  BY OfKindsEmpty, EmptySeq
<1>2. ASSUME NEW u \in Seq(X), NEW e \in X, u \in S PROVE Append(u, e) \in S
  <2> DEFINE v == Append(u, e)
             f == OfKinds(u, A)
  <2>1. v \in Seq(X) /\ f \in Seq(X)
    BY AppendProperties, OfKindsType
  <2>2. OfKinds(v, A) = IF e.kind \in A THEN Append(f, e) ELSE f
    BY OfKindsAppend
  <2>3. OfKinds(v, A \cap B) =
          IF e.kind \in A \cap B THEN Append(OfKinds(u, A \cap B), e) ELSE OfKinds(u, A \cap B)
    BY OfKindsAppend
  <2>4. OfKinds(f, B) = OfKinds(u, A \cap B)
    BY <1>2
  <2> HIDE DEF f, v
  <2>5. OfKinds(Append(f, e), B) = IF e.kind \in B THEN Append(OfKinds(f, B), e) ELSE OfKinds(f, B)
    BY <2>1, OfKindsAppend
  <2>6. OfKinds(OfKinds(v, A), B) = OfKinds(v, A \cap B)
    <3>1. CASE e.kind \in A
      <4>1. OfKinds(v, A) = Append(f, e)
        BY <2>2, <3>1
      <4>2. e.kind \in A \cap B <=> e.kind \in B
        BY <3>1
      <4> QED
        BY <2>3, <2>4, <2>5, <4>1, <4>2
    <3>2. CASE e.kind \notin A
      BY <2>2, <2>3, <2>4, <3>2
    <3> QED
      BY <3>1, <3>2
  <2> QED
    BY <2>1, <2>6 DEF v
<1> HIDE DEF S
<1>3. s \in S
  BY <1>1, <1>2, SequenceInduction
<1> QED
  BY <1>3 DEF S

-----------------------------------------------------------------------------
(* Concatenations of sequences.                                            *)

\* Who joins the sequences one after the other gets the concatenation of all.
LEMMA FlattenRecursion ==
    ASSUME NEW X, NEW seqs \in Seq(Seq(X)), NEW g,
           g[0] = <<>>,
           \A n \in 1 .. Len(seqs) : g[n] \in Seq(X) /\ g[n] = g[n - 1] \o seqs[n]
    PROVE  FlattenSeq(seqs) = g[Len(seqs)]
<1> DEFINE N == Len(seqs)
           Rec(f) == [i \in 1 .. N |-> IF i = 1 THEN seqs[i] ELSE f[i - 1] \o seqs[i]]
           flatten == CHOOSE f : f = Rec(f)
<1>1. N \in Nat /\ \A i \in 1 .. N : seqs[i] \in Seq(X)
  BY LenProperties, ElementOfSeq
<1>2. FlattenSeq(seqs) = IF N = 0 THEN seqs ELSE flatten[N]
  BY DEF FlattenSeq
<1>3. CASE N = 0
  <2>1. seqs = <<>>
    BY <1>3, EmptySeq
  <2> QED
    BY <1>2, <1>3, <2>1
<1>4. CASE N # 0
  <2>1. g[1] = seqs[1]
    <3> DEFINE one == 1
    <3>0. one \in 1 .. N /\ one - 1 = 0
      BY <1>1, <1>4
    <3> HIDE DEF one, N
    <3>1. g[one] = g[0] \o seqs[one] /\ seqs[one] \in Seq(X)
      BY <1>1, <3>0 DEF N
    <3>2. <<>> \o seqs[one] = seqs[one]
      BY <3>1, ConcatEmptySeq
    <3>3. g[0] = <<>>
      OBVIOUS
    <3>4. g[one] = seqs[one]
      BY <3>1, <3>2, <3>3
    <3> QED
      BY <3>4 DEF one
  <2> DEFINE h == [i \in 1 .. N |-> g[i]]
  <2>2. h = Rec(h)
    <3>1. ASSUME NEW i \in 1 .. N PROVE h[i] = IF i = 1 THEN seqs[i] ELSE h[i - 1] \o seqs[i]
      <4>1. CASE i = 1
        BY <2>1, <4>1
      <4>2. CASE i # 1
        <5>1. i - 1 \in 1 .. N
          BY <1>1, <4>2
        <5> QED
          BY <4>2, <5>1
      <4> QED
        BY <4>1, <4>2
    <3> QED
      BY <3>1
  <2>3. flatten = Rec(flatten)
    BY <2>2
  <2> HIDE DEF flatten
  <2>4. \A i \in 1 .. N : flatten[i] = IF i = 1 THEN seqs[i] ELSE flatten[i - 1] \o seqs[i]
    BY <2>3
  <2> DEFINE S == {n \in Nat : n \in 1 .. N => flatten[n] = g[n]}
  <2>5. 0 \in S
    OBVIOUS
  <2>6. ASSUME NEW n \in Nat, n \in S PROVE n + 1 \in S
    <3>1. SUFFICES ASSUME n + 1 \in 1 .. N PROVE flatten[n + 1] = g[n + 1]
      OBVIOUS
    <3>2. CASE n = 0
      BY <2>1, <2>4, <3>1, <3>2
    <3>3. CASE n # 0
      <4>1. n \in 1 .. N /\ (n + 1) - 1 = n
        BY <3>1, <3>3, <1>1
      <4>2. flatten[n] = g[n]
        BY <2>6, <4>1
      <4>3. flatten[n + 1] = flatten[(n + 1) - 1] \o seqs[n + 1]
        <5>1. n + 1 # 1
          BY <3>3
        <5> QED
          BY <2>4, <3>1, <5>1
      <4>4. g[n + 1] = g[(n + 1) - 1] \o seqs[n + 1]
        BY <3>1
      <4> QED
        BY <4>1, <4>2, <4>3, <4>4
    <3> QED
      BY <3>2, <3>3
  <2> HIDE DEF S
  <2>7. N \in S
    BY <1>1, <2>5, <2>6, SetInduction
  <2>8. flatten[N] = g[N]
    BY <1>1, <1>4, <2>7 DEF S
  <2> QED
    BY <1>2, <1>4, <2>8
<1> QED
  BY <1>3, <1>4

\* What can be joined to what.
Joinable(Y) == <<>> \in Y /\ \A x \in Y, y \in Y : x \o y \in Y

\* g[n] joins the first n of the N values e.
Joins(g, e, N) == g[0] = <<>> /\ \A n \in 1 .. N : g[n] = g[n - 1] \o e[n]

\* Values that can be joined can be joined one after the other.
LEMMA Joining ==
    ASSUME NEW Y, Joinable(Y), NEW N \in Nat, NEW e \in [1 .. N -> Y]
    PROVE  \E g \in [0 .. N -> Y] : Joins(g, e, N)
<1> DEFINE base == <<>>
           step == [n \in 1 .. N |-> [x \in Y |-> x \o e[n]]]
<1>1. N \in Nat /\ base \in Y /\ step \in [1 .. N -> [Y -> Y]]
  BY DEF Joinable
<1>2. \A n \in 1 .. N, x \in Y : step[n][x] = x \o e[n]
  OBVIOUS
<1> HIDE DEF base, step
<1>3. PICK g \in [0 .. N -> Y] : g[0] = base /\ \A n \in 1 .. N : g[n] = step[n][g[n - 1]]
  BY ONLY <1>1, Recursion, SMTT(40)
<1>4. \A n \in 1 .. N : g[n] = g[n - 1] \o e[n]
  <2>1. \A n \in 1 .. N : g[n - 1] \in Y
    OBVIOUS
  <2> QED
    BY <1>2, <1>3, <2>1
<1> QED
  BY <1>3, <1>4 DEF base, Joins

\* The concatenation joined so far is a function of how many sequences were joined.
LEMMA Flattening ==
    ASSUME NEW X, NEW seqs \in Seq(Seq(X))
    PROVE  \E g \in [0 .. Len(seqs) -> Seq(X)] :
              /\ g[0] = <<>>
              /\ \A n \in 1 .. Len(seqs) : g[n] = g[n - 1] \o seqs[n]
              /\ FlattenSeq(seqs) = g[Len(seqs)]
<1> DEFINE N == Len(seqs)
           Y == Seq(X)
<1>1. N \in Nat /\ seqs \in [1 .. N -> Y]
  BY LenProperties
<1>2. Joinable(Y)
  BY EmptySeq, ConcatProperties DEF Joinable
<1> HIDE DEF N, Y
<1>3. PICK g \in [0 .. N -> Y] : Joins(g, seqs, N)
  BY ONLY <1>1, <1>2, Joining
<1>4. g[0] = <<>> /\ \A n \in 1 .. N : g[n] \in Y /\ g[n] = g[n - 1] \o seqs[n]
  BY <1>1, <1>3 DEF Joins
<1>5. FlattenSeq(seqs) = g[N]
  BY <1>4, FlattenRecursion DEF N, Y
<1> QED
  BY <1>4, <1>5 DEF N, Y

\* A concatenation is a sequence of what its parts are sequences of.
LEMMA FlattenType ==
    ASSUME NEW X, NEW seqs \in Seq(Seq(X))
    PROVE  FlattenSeq(seqs) \in Seq(X)
<1> DEFINE N == Len(seqs)
<1>1. N \in 0 .. N
  BY LenProperties
<1>2. PICK g \in [0 .. N -> Seq(X)] : FlattenSeq(seqs) = g[N]
  BY Flattening
<1> HIDE DEF N
<1> QED
  BY <1>1, <1>2

\* One sequence more adds its elements at the end.
LEMMA FlattenAppend ==
    ASSUME NEW X, NEW seqs \in Seq(Seq(X)), NEW s \in Seq(X)
    PROVE  FlattenSeq(Append(seqs, s)) = FlattenSeq(seqs) \o s
<1> DEFINE Y == Seq(X)
           N == Len(seqs)
           more == Append(seqs, s)
<1>1. /\ more \in Seq(Y) /\ Len(more) = N + 1 /\ more[N + 1] = s /\ N \in Nat
      /\ \A n \in 1 .. N : more[n] = seqs[n]
  BY AppendProperties, LenProperties
<1>2. PICK g \in [0 .. N -> Y] :
         /\ g[0] = <<>> /\ \A n \in 1 .. N : g[n] = g[n - 1] \o seqs[n]
         /\ FlattenSeq(seqs) = g[N]
  BY Flattening
<1>3. g[N] \in Y /\ g[N] \o s \in Y
  BY <1>1, <1>2, ConcatProperties
<1> DEFINE h == [n \in 0 .. N + 1 |-> IF n = N + 1 THEN g[N] \o s ELSE g[n]]
<1> HIDE DEF more, Y, N
<1>4. h[0] = <<>> /\ h[N + 1] = g[N] \o s
  BY <1>1, <1>2
<1>5. ASSUME NEW n \in 1 .. Len(more) PROVE h[n] \in Y /\ h[n] = h[n - 1] \o more[n]
  <2>1. CASE n = N + 1
    <3>1. h[n - 1] = g[N] /\ h[n] = g[N] \o s
      BY <1>1, <2>1
    <3> QED
      BY <1>1, <1>3, <2>1, <3>1
  <2>2. CASE n \in 1 .. N
    <3>1. h[n] = g[n] /\ h[n - 1] = g[n - 1] /\ n \in 0 .. N /\ more[n] = seqs[n]
      BY <1>1, <2>2
    <3> QED
      BY <1>2, <2>2, <3>1
  <2>3. n = N + 1 \/ n \in 1 .. N
    BY <1>1
  <2> QED
    BY <2>1, <2>2, <2>3
<1> HIDE DEF h
<1>6. FlattenSeq(more) = h[Len(more)]
  BY <1>1, <1>4, <1>5, FlattenRecursion DEF Y
<1> QED
  BY <1>1, <1>2, <1>4, <1>6 DEF more

\* Nothing is the concatenation of no sequence.
LEMMA FlattenEmpty == FlattenSeq(<<>>) = <<>>
<1>1. Len(<<>>) = 0
  BY EmptySeq
<1> QED
  BY <1>1 DEF FlattenSeq

\* The concatenation has the elements of its parts and no others.
LEMMA FlattenElements ==
    ASSUME NEW X, NEW seqs \in Seq(Seq(X)), NEW e
    PROVE  (\E n \in 1 .. Len(FlattenSeq(seqs)) : FlattenSeq(seqs)[n] = e)
              <=> \E i \in 1 .. Len(seqs) : \E j \in 1 .. Len(seqs[i]) : seqs[i][j] = e
<1> DEFINE In(s) == \E n \in 1 .. Len(s) : s[n] = e
           Some(q) == \E i \in 1 .. Len(q) : In(q[i])
           S == {q \in Seq(Seq(X)) : In(FlattenSeq(q)) <=> Some(q)}
<1>1. <<>> \in S
  <2>1. <<>> \in Seq(Seq(X)) /\ Len(<<>>) = 0
    BY EmptySeq
  <2>2. ~In(FlattenSeq(<<>>)) /\ ~Some(<<>>)
    BY <2>1, FlattenEmpty
  <2> QED
    BY <2>1, <2>2
<1>2. ASSUME NEW q \in Seq(Seq(X)), NEW s \in Seq(X), q \in S PROVE Append(q, s) \in S
  <2> DEFINE t == FlattenSeq(q)
             more == Append(q, s)
             N == Len(q)
  <2>1. t \in Seq(X) /\ FlattenSeq(more) = t \o s
    BY FlattenType, FlattenAppend
  <2>2. /\ more \in Seq(Seq(X)) /\ Len(more) = N + 1 /\ more[N + 1] = s /\ N \in Nat
        /\ \A n \in 1 .. N : more[n] = q[n]
    BY AppendProperties, LenProperties
  <2>3. In(t) <=> Some(q)
    BY <1>2
  <2> HIDE DEF t, more
  <2>4. /\ Len(t \o s) = Len(t) + Len(s) /\ Len(t) \in Nat /\ Len(s) \in Nat
        /\ \A n \in 1 .. Len(t) + Len(s) :
              (t \o s)[n] = IF n <= Len(t) THEN t[n] ELSE s[n - Len(t)]
    BY <2>1, ConcatProperties, LenProperties
  <2>5. In(t \o s) => In(t) \/ In(s)
    <3>1. SUFFICES ASSUME NEW n \in 1 .. Len(t) + Len(s), (t \o s)[n] = e PROVE In(t) \/ In(s)
      BY <2>4
    <3>2. CASE n <= Len(t)
      BY <2>4, <3>1, <3>2
    <3>3. CASE n > Len(t)
      <4>1. n - Len(t) \in 1 .. Len(s)
        BY <2>4, <3>3
      <4> QED
        BY <2>4, <3>1, <3>3, <4>1
    <3> QED
      BY <2>4, <3>2, <3>3
  <2>6. In(t) => In(t \o s)
    <3>1. \A n \in 1 .. Len(t) : n \in 1 .. Len(t) + Len(s) /\ n <= Len(t)
      BY <2>4
    <3> QED
      BY <2>4, <3>1
  <2>7. In(s) => In(t \o s)
    <3>1. SUFFICES ASSUME NEW n \in 1 .. Len(s), s[n] = e PROVE In(t \o s)
      OBVIOUS
    <3>2. n + Len(t) \in 1 .. Len(t) + Len(s) /\ ~(n + Len(t) <= Len(t)) /\ (n + Len(t)) - Len(t) = n
      BY <2>4
    <3> QED
      BY <2>4, <3>1, <3>2
  <2>8. Some(more) <=> Some(q) \/ In(s)
    <3> HIDE DEF In
    <3>1. Some(more) => Some(q) \/ In(s)
      BY <2>2
    <3>2. Some(q) => Some(more)
      BY <2>2
    <3>3. In(s) => Some(more)
      BY <2>2
    <3> QED
      BY <3>1, <3>2, <3>3
  <2> HIDE DEF In, Some
  <2>9. In(FlattenSeq(more)) <=> Some(more)
    BY <2>1, <2>3, <2>5, <2>6, <2>7, <2>8
  <2> QED
    BY <2>2, <2>9 DEF more
<1> HIDE DEF S
<1>3. seqs \in S
  BY <1>1, <1>2, SequenceInduction
<1> QED
  BY <1>3 DEF S

\* Longer by one: the first n + 1 elements are the first n and the next.
LEMMA NextPart ==
    ASSUME NEW X, NEW s \in Seq(X), NEW n \in Nat, n < Len(s)
    PROVE  /\ SubSeq(s, 1, n) \in Seq(X)
           /\ SubSeq(s, 1, n + 1) = Append(SubSeq(s, 1, n), s[n + 1])
           /\ SubSeq(s, 1, n + 1) = SubSeq(s, 1, n) \o <<s[n + 1]>>
           /\ s[n + 1] \in X
<1> DEFINE m == n + 1
<1>1. Len(s) \in Nat /\ 1 \in 1 .. Len(s) /\ m \in 1 .. Len(s) /\ m - 1 = n
  BY LenProperties
<1>2. SubSeq(s, 1, m) = SubSeq(s, 1, m - 1) \o <<s[m]>>
  <2> DEFINE one == 1
  <2>1. one \in 1 .. Len(s) /\ m \in one .. Len(s)
    BY <1>1
  <2> HIDE DEF one, m
  <2>2. SubSeq(s, one, m) = SubSeq(s, one, m - 1) \o <<s[m]>>
    BY <2>1, SubSeqRecursiveSecond
  <2> QED
    BY <2>2 DEF one
<1>3. s[m] \in X
  BY <1>1, ElementOfSeq
<1>4. \A i \in 1 .. n : s[i] \in X
  BY <1>1, ElementOfSeq
<1>5. SubSeq(s, 1, n) \in Seq(X)
  BY <1>4, SubSeqProperties
<1>6. Append(SubSeq(s, 1, n), s[m]) = SubSeq(s, 1, n) \o <<s[m]>>
  BY <1>3, <1>5, AppendIsConcat
<1> QED
  BY <1>1, <1>2, <1>3, <1>5, <1>6

\* Behind another sequence, too.
LEMMA NextPartBehind ==
    ASSUME NEW X, NEW w \in Seq(X), NEW v \in Seq(X), NEW n \in Nat, n < Len(v)
    PROVE  /\ w \o SubSeq(v, 1, n) \in Seq(X)
           /\ w \o SubSeq(v, 1, n + 1) = Append(w \o SubSeq(v, 1, n), v[n + 1])
           /\ v[n + 1] \in X
<1> DEFINE s == SubSeq(v, 1, n)
           e == v[n + 1]
<1>1. s \in Seq(X) /\ SubSeq(v, 1, n + 1) = Append(s, e) /\ e \in X
  BY NextPart
<1> HIDE DEF s, e
<1>2. Append(w \o s, e) = w \o Append(s, e)
  <2>1. <<e>> \in Seq(X) /\ w \o s \in Seq(X)
    BY <1>1, ConcatProperties
  <2>2. Append(w \o s, e) = (w \o s) \o <<e>> /\ Append(s, e) = s \o <<e>>
    BY <1>1, <2>1, AppendIsConcat
  <2>3. (w \o s) \o <<e>> = w \o (s \o <<e>>)
    BY <1>1, <2>1, ConcatAssociative
  <2> QED
    BY <2>2, <2>3
<1>3. w \o s \in Seq(X)
  BY <1>1, ConcatProperties
<1> QED
  BY <1>1, <1>2, <1>3 DEF s, e

\* The first n + 1 of several sequences join to the first n and the next.
LEMMA FlattenNext ==
    ASSUME NEW X, NEW seqs \in Seq(Seq(X)), NEW n \in Nat, n < Len(seqs)
    PROVE  /\ FlattenSeq(SubSeq(seqs, 1, n)) \in Seq(X)
           /\ FlattenSeq(SubSeq(seqs, 1, n + 1)) = FlattenSeq(SubSeq(seqs, 1, n)) \o seqs[n + 1]
           /\ seqs[n + 1] \in Seq(X)
<1> DEFINE Y == Seq(X)
           s == SubSeq(seqs, 1, n)
           e == seqs[n + 1]
<1>1. s \in Seq(Y) /\ SubSeq(seqs, 1, n + 1) = Append(s, e) /\ e \in Y
  <2>1. seqs \in Seq(Y)
    OBVIOUS
  <2> HIDE DEF Y
  <2> QED
    BY <2>1, NextPart
<1> HIDE DEF s, e
<1>2. FlattenSeq(Append(s, e)) = FlattenSeq(s) \o e /\ FlattenSeq(s) \in Seq(X)
  BY <1>1, FlattenAppend, FlattenType
<1> QED
  BY <1>1, <1>2 DEF s, e

\* Elements, each a sequence of its own, behind a sequence.
LEMMA FlattenHeaded ==
    ASSUME NEW X, NEW h \in Seq(X), NEW s \in Seq(X), NEW seqs,
           seqs = [i \in 1 .. Len(s) + 1 |-> IF i = 1 THEN h ELSE <<s[i - 1]>>]
    PROVE  FlattenSeq(seqs) = h \o s
<1> DEFINE N == Len(s)
           Y == Seq(X)
           g == [n \in 0 .. N + 1 |-> IF n = 0 THEN <<>> ELSE h \o SubSeq(s, 1, n - 1)]
<1>1. N \in Nat /\ \A i \in 1 .. N : s[i] \in X
  BY LenProperties, ElementOfSeq
<1>2. \A i \in 1 .. N : <<s[i]>> \in Y
  BY <1>1
<1>3. \A i \in 1 .. N + 1 : (IF i = 1 THEN h ELSE <<s[i - 1]>>) \in Y
  <2>1. ASSUME NEW i \in 1 .. N + 1, i # 1 PROVE <<s[i - 1]>> \in Y
    <3>1. i - 1 \in 1 .. N
      BY <1>1, <2>1
    <3> QED
      BY <1>2, <3>1
  <2> QED
    BY <2>1
<1>4. seqs \in Seq(Y) /\ Len(seqs) = N + 1
  <2> HIDE DEF Y
  <2> QED
    BY <1>1, <1>3
<1>5. g[0] = <<>> /\ g[N + 1] = h \o s
  <2>1. SubSeq(s, 1, N) = s
    BY SubSeqFull
  <2>2. g[N + 1] = h \o SubSeq(s, 1, (N + 1) - 1) /\ (N + 1) - 1 = N
    BY <1>1
  <2> QED
    BY <1>1, <2>1, <2>2
<1>6. ASSUME NEW n \in 1 .. N + 1 PROVE g[n] \in Y /\ g[n] = g[n - 1] \o seqs[n]
  <2>1. CASE n = 1
    <3>1. SubSeq(s, 1, 0) = <<>>
      BY SubSeqEmpty
    <3>2. g[1] = h \o SubSeq(s, 1, 0) /\ seqs[1] = h
      BY <1>1
    <3>3. h \o <<>> = h /\ <<>> \o h = h
      BY ConcatEmptySeq
    <3>4. g[n] = h /\ g[n - 1] = <<>> /\ seqs[n] = h
      BY <1>5, <2>1, <3>1, <3>2, <3>3
    <3> HIDE DEF g
    <3> QED
      BY <3>3, <3>4
  <2>2. CASE n # 1
    <3> DEFINE m == n - 2
               p == SubSeq(s, 1, m)
               e == s[m + 1]
    <3>1. m \in Nat /\ m < N /\ n - 1 = m + 1 /\ n - 1 # 0 /\ (n - 1) - 1 = m /\ n # 0
          /\ n - 1 \in 0 .. N + 1 /\ n \in 0 .. N + 1
      BY <1>1, <2>2
    <3>2. p \in Seq(X) /\ SubSeq(s, 1, m + 1) = p \o <<e>> /\ e \in X
      BY <3>1, NextPart
    <3>3. g[n] = h \o SubSeq(s, 1, m + 1)
      BY <3>1
    <3>4. g[n - 1] = h \o p
      BY <3>1
    <3>5. seqs[n] = <<e>>
      BY <2>2, <3>1
    <3>6. <<e>> \in Seq(X)
      BY <3>2
    <3> HIDE DEF p, e, g
    <3>7. h \o (p \o <<e>>) = (h \o p) \o <<e>> /\ h \o (p \o <<e>>) \in Seq(X)
      BY <3>2, <3>6, ConcatAssociative, ConcatProperties
    <3> QED
      BY <3>2, <3>3, <3>4, <3>5, <3>7
  <2> QED
    BY <2>1, <2>2
<1> HIDE DEF g
<1>7. \A n \in 1 .. Len(seqs) : g[n] \in Seq(X) /\ g[n] = g[n - 1] \o seqs[n]
  BY <1>4, <1>6
<1>8. FlattenSeq(seqs) = g[Len(seqs)]
  BY ONLY <1>4, <1>5, <1>7, FlattenRecursion
<1> QED
  BY <1>4, <1>5, <1>8

\* Elements, each a sequence of its own.
LEMMA FlattenSingles ==
    ASSUME NEW X, NEW s \in Seq(X), NEW seqs, seqs = [i \in 1 .. Len(s) |-> <<s[i]>>]
    PROVE  FlattenSeq(seqs) = s
<1> DEFINE N == Len(s)
           Y == Seq(X)
           g == [n \in 0 .. N |-> SubSeq(s, 1, n)]
<1>1. N \in Nat /\ \A i \in 1 .. N : s[i] \in X
  BY LenProperties, ElementOfSeq
<1>2. \A i \in 1 .. N : <<s[i]>> \in Y
  BY <1>1
<1>3. seqs \in Seq(Y) /\ Len(seqs) = N
  <2> HIDE DEF Y
  <2> QED
    BY <1>1, <1>2
<1>4. g[0] = <<>> /\ g[N] = s
  <2>1. SubSeq(s, 1, N) = s /\ SubSeq(s, 1, 0) = <<>>
    BY SubSeqFull, SubSeqEmpty
  <2> QED
    BY <1>1, <2>1
<1>5. ASSUME NEW n \in 1 .. N PROVE g[n] \in Y /\ g[n] = g[n - 1] \o seqs[n]
  <2> DEFINE m == n - 1
  <2>1. m \in Nat /\ m < N /\ m + 1 = n /\ m \in 0 .. N /\ n \in 0 .. N
    BY <1>1
  <2>2. /\ SubSeq(s, 1, m) \in Seq(X) /\ s[m + 1] \in X
        /\ SubSeq(s, 1, m + 1) = SubSeq(s, 1, m) \o <<s[m + 1]>>
    BY <2>1, NextPart
  <2>3. g[n] = SubSeq(s, 1, m + 1) /\ g[m] = SubSeq(s, 1, m) /\ seqs[n] = <<s[m + 1]>>
    BY <2>1
  <2>4. <<s[m + 1]>> \in Seq(X)
    BY <2>2
  <2> QED
    BY <2>2, <2>3, <2>4, ConcatProperties
<1> HIDE DEF g
<1>6. \A n \in 1 .. Len(seqs) : g[n] \in Seq(X) /\ g[n] = g[n - 1] \o seqs[n]
  BY <1>3, <1>5
<1>7. FlattenSeq(seqs) = g[Len(seqs)]
  BY ONLY <1>3, <1>4, <1>6, FlattenRecursion
<1> QED
  BY <1>3, <1>4, <1>7

\* A replaced element, and a dropped one, of the second of two sequences.
LEMMA ConcatChanged ==
    ASSUME NEW X, NEW s \in Seq(X), NEW t \in Seq(X), NEW e \in X
    PROVE  /\ \A j \in 1 .. Len(t) :
                 [s \o t EXCEPT ![Len(s) + j] = e] = s \o [t EXCEPT ![j] = e]
           /\ t # <<>> => Front(s \o t) = s \o Front(t)
<1> DEFINE M == Len(s)
           N == Len(t)
           u == s \o t
<1>1. /\ M \in Nat /\ N \in Nat /\ u \in Seq(X) /\ Len(u) = M + N
      /\ DOMAIN u = 1 .. M + N /\ DOMAIN t = 1 .. N
      /\ \A i \in 1 .. M + N : u[i] = IF i <= M THEN s[i] ELSE t[i - M]
  BY ConcatProperties, LenProperties
<1>2. M \in Nat /\ N \in Nat /\ M = Len(s) /\ N = Len(t) /\ M + N \in Nat
  BY <1>1
<1> HIDE DEF M, N, u
\* Two sequences that agree on both parts are the same.
<1>3. ASSUME NEW v \in Seq(X), NEW w \in Seq(X), Len(w) = M + Len(v),
             \A i \in 1 .. M : w[i] = s[i],
             \A i \in 1 .. Len(v) : w[M + i] = v[i]
      PROVE  w = s \o v
  <2> DEFINE n == Len(v)
  <2>1. n \in Nat /\ Len(w) = M + n
    BY <1>3, LenProperties
  <2>2. /\ s \o v \in Seq(X) /\ Len(s \o v) = Len(s) + n
        /\ \A i \in 1 .. Len(s) + n : (s \o v)[i] = IF i <= Len(s) THEN s[i] ELSE v[i - Len(s)]
    BY ConcatProperties
  <2> HIDE DEF n
  <2>3. /\ Len(s \o v) = M + n
        /\ \A i \in 1 .. M + n : (s \o v)[i] = IF i <= M THEN s[i] ELSE v[i - M]
    BY <1>2, <2>2
  <2>4. ASSUME NEW i \in 1 .. M + n PROVE w[i] = (s \o v)[i]
    <3>1. CASE i <= M
      BY <1>2, <1>3, <2>1, <2>3, <3>1
    <3>2. CASE ~(i <= M)
      <4> DEFINE l == i - M
      <4>1. l \in 1 .. n /\ M + l = i
        BY <1>2, <2>1, <3>2
      <4>2. w[M + l] = v[l]
        BY <1>3, <4>1 DEF n
      <4> QED
        BY <2>3, <3>2, <4>1, <4>2
    <3> QED
      BY <3>1, <3>2
  <2>5. Len(w) = Len(s \o v) /\ \A i \in 1 .. Len(w) : w[i] = (s \o v)[i]
    BY <2>1, <2>3, <2>4
  <2> QED
    BY <2>2, <2>5, SeqEqual
<1>4. ASSUME NEW j \in 1 .. N PROVE [u EXCEPT ![M + j] = e] = s \o [t EXCEPT ![j] = e]
  <2> DEFINE k == M + j
             w == [u EXCEPT ![k] = e]
             v == [t EXCEPT ![j] = e]
  <2>1. v \in Seq(X) /\ Len(v) = N /\ \A i \in 1 .. N : v[i] = IF i = j THEN e ELSE t[i]
    BY <1>2, ExceptSeq
  <2>2. k \in 1 .. Len(u) /\ k = M + j
    BY <1>1
  <2> HIDE DEF k
  <2>3. w \in Seq(X) /\ Len(w) = M + N
        /\ \A i \in 1 .. M + N : w[i] = IF i = k THEN e ELSE u[i]
    BY <1>1, <2>2, ExceptSeq
  <2> HIDE DEF v, w
  <2>4. ASSUME NEW i \in 1 .. M PROVE w[i] = s[i]
    <3>1. i \in 1 .. M + N /\ i # k /\ i <= M
      BY <1>2, <2>2
    <3> QED
      BY <1>1, <2>3, <3>1
  <2>5. ASSUME NEW i \in 1 .. N PROVE w[M + i] = v[i]
    <3>1. M + i \in 1 .. M + N /\ (M + i = k <=> i = j) /\ ~(M + i <= M) /\ (M + i) - M = i
      BY <1>2, <2>2
    <3> QED
      BY <1>1, <2>1, <2>3, <3>1
  <2>6. w = s \o v
    BY <1>3, <2>1, <2>3, <2>4, <2>5
  <2> QED
    BY <2>6 DEF w, v, k
<1>5. ASSUME t # <<>> PROVE Front(u) = s \o Front(t)
  <2> DEFINE n == N - 1
             v == SubSeq(t, 1, n)
             w == SubSeq(u, 1, M + n)
  <2>1. N # 0
    BY <1>2, <1>5, EmptySeq
  <2>2. n \in Nat /\ n < N /\ M + n \in Nat /\ Len(u) - 1 = M + n /\ Len(t) - 1 = n
    BY <1>1, <1>2, <2>1
  <2>3. Front(u) = w /\ Front(t) = v
    BY <2>2 DEF Front
  <2> HIDE DEF n
  <2>4. \A i \in 1 .. n : t[i] \in X
    <3>1. \A i \in 1 .. n : i \in 1 .. N
      BY <1>2, <2>2
    <3> QED
      BY <1>2, <3>1, ElementOfSeq
  <2>5. v \in Seq(X) /\ Len(v) = n /\ \A i \in 1 .. n : v[i] = t[i]
    BY <2>2, <2>4, SubSeqProperties
  <2>6. \A i \in 1 .. M + n : u[i] \in X
    <3>1. \A i \in 1 .. M + n : i \in 1 .. Len(u)
      BY <1>1, <2>2
    <3> QED
      BY <1>1, <3>1, ElementOfSeq
  <2>7. w \in Seq(X) /\ Len(w) = M + n /\ \A i \in 1 .. M + n : w[i] = u[i]
    BY <2>2, <2>6, SubSeqProperties
  <2> HIDE DEF v, w
  <2>8. ASSUME NEW i \in 1 .. M PROVE w[i] = s[i]
    <3>1. i \in 1 .. M + N /\ i \in 1 .. M + n /\ i <= M
      BY <1>2, <2>2
    <3> QED
      BY <1>1, <2>7, <3>1
  <2>9. ASSUME NEW i \in 1 .. n PROVE w[M + i] = v[i]
    <3>1. M + i \in 1 .. M + N /\ M + i \in 1 .. M + n /\ ~(M + i <= M) /\ (M + i) - M = i
      BY <1>2, <2>2
    <3> QED
      BY <1>1, <2>5, <2>7, <3>1
  <2>10. w = s \o v
    BY <1>3, <2>5, <2>7, <2>8, <2>9
  <2> QED
    BY <2>3, <2>10
<1> QED
  BY <1>2, <1>4, <1>5 DEF u

-----------------------------------------------------------------------------
(* Folds over sequences: FoldLeft takes the greatest position off a set.   *)

\* A set of positions with an element has a greatest one.
LEMMA GreatestPosition ==
    ASSUME NEW N \in Nat, NEW s \in SUBSET (1 .. N), s # {}
    PROVE  Max(s) \in s /\ \A y \in s : Max(s) >= y
<1> DEFINE T == {N - x : x \in s}
<1>0. \A x \in s : N - x \in Nat /\ x \in Int
  OBVIOUS
<1>1. T \in SUBSET Nat /\ T # {}
  BY <1>0
<1>2. PICK z \in T : \A y \in T : z <= y
  BY <1>1, LeastNatural
<1>3. PICK x \in s : z = N - x
  BY <1>2
<1>4. ASSUME NEW y \in s PROVE x >= y
  <2>1. N - y \in T
    OBVIOUS
  <2>2. z <= N - y
    BY <1>2, <2>1
  <2> QED
    BY <1>0, <1>3, <2>2
<1> QED
  BY <1>3, <1>4 DEF Max

\* The positions up to m end with m.
LEMMA FirstPositions ==
    ASSUME NEW m \in Nat, m # 0
    PROVE  Max(1 .. m) = m /\ (1 .. m) \ {m} = 1 .. m - 1 /\ 1 .. m # {}
<1>1. m \in 1 .. m /\ \A y \in 1 .. m : m >= y
  OBVIOUS
<1>2. Max(1 .. m) \in 1 .. m /\ Max(1 .. m) >= m
  <2>1. Max(1 .. m) \in 1 .. m /\ \A y \in 1 .. m : Max(1 .. m) >= y
    BY <1>1 DEF Max
  <2> QED
    BY <1>1, <2>1
<1> QED
  BY <1>1, <1>2

\* One step per position; g[n] is what the first n of them come to, and h[s] what those
\* at the positions s do.
Steps(N, Y) == [1 .. N -> [Y -> Y]]
Follows(g, base, step, N) == g[0] = base /\ \A n \in 1 .. N : g[n] = step[n][g[n - 1]]
Folds(h, base, step, N) ==
    /\ h[{}] = base
    /\ \A s \in SUBSET (1 .. N) : s # {} => h[s] = step[Max(s)][h[s \ {Max(s)}]]

\* A definition by recursion means something.
LEMMA Following ==
    ASSUME NEW Y, NEW base \in Y, NEW N \in Nat, NEW step \in Steps(N, Y)
    PROVE  \E g \in [0 .. N -> Y] : Follows(g, base, step, N)
<1>1. step \in [1 .. N -> [Y -> Y]]
  BY DEF Steps
<1>2. PICK g \in [0 .. N -> Y] : g[0] = base /\ \A n \in 1 .. N : g[n] = step[n][g[n - 1]]
  BY <1>1, Recursion, SMTT(40)
<1> QED
  BY <1>2 DEF Follows

\* So does one by the greatest position of a set.
LEMMA Folding ==
    ASSUME NEW Y, NEW base \in Y, NEW N \in Nat, NEW step \in Steps(N, Y)
    PROVE  \E h \in [SUBSET (1 .. N) -> Y] : Folds(h, base, step, N)
<1> DEFINE D == SUBSET (1 .. N)
           Z == [D -> Y]
           zero == [s \in D |-> base]
           then == [m \in 1 .. N |->
                      [f \in Z |-> [s \in D |-> IF m \in s THEN step[m][f[s]] ELSE f[s]]]]
<1>0. step \in [1 .. N -> [Y -> Y]]
  BY DEF Steps
<1>1. zero \in Z /\ then \in [1 .. N -> [Z -> Z]]
  <2>1. \A m \in 1 .. N, f \in Z, s \in D : step[m][f[s]] \in Y /\ f[s] \in Y
    BY <1>0
  <2>2. \A m \in 1 .. N, f \in Z : [s \in D |-> IF m \in s THEN step[m][f[s]] ELSE f[s]] \in Z
    <3> HIDE DEF D
    <3> QED
      BY <2>1
  <2> HIDE DEF D, Z
  <2>3. then \in [1 .. N -> [Z -> Z]]
    BY <2>2
  <2> QED
    BY <2>3 DEF Z
<1>2. \A m \in 1 .. N, f \in Z, s \in D :
         then[m][f][s] = IF m \in s THEN step[m][f[s]] ELSE f[s]
  <2> HIDE DEF D, Z
  <2> QED
    OBVIOUS
<1>3. \A s \in D : zero[s] = base
  OBVIOUS
<1> HIDE DEF zero, then, Z
<1>4. PICK g \in [0 .. N -> Z] : g[0] = zero /\ \A n \in 1 .. N : g[n] = then[n][g[n - 1]]
  <2> HIDE DEF D
  <2> QED
    BY ONLY N \in Nat, <1>1, Recursion, SMTT(40)
<1>5. \A m \in 1 .. N, s \in D :
         g[m][s] = IF m \in s THEN step[m][g[m - 1][s]] ELSE g[m - 1][s]
  <2>1. \A m \in 1 .. N : g[m - 1] \in Z
    OBVIOUS
  <2> HIDE DEF D
  <2> QED
    BY <1>2, <1>4, <2>1
<1>6. \A s \in D : g[0][s] = base
  BY <1>3, <1>4
\* What was done so far depends on the positions up to here.
<1>7. \A m \in 0 .. N : \A s \in D, t \in D :
         (\A x \in 1 .. m : x \in s <=> x \in t) => g[m][s] = g[m][t]
  <2> DEFINE S == {m \in Nat : m <= N => \A s \in D, t \in D :
                      (\A x \in 1 .. m : x \in s <=> x \in t) => g[m][s] = g[m][t]}
  <2>1. 0 \in S
    BY <1>6
  <2>2. ASSUME NEW m \in Nat, m \in S PROVE m + 1 \in S
    <3>1. SUFFICES ASSUME m + 1 <= N, NEW s \in D, NEW t \in D,
                          \A x \in 1 .. m + 1 : x \in s <=> x \in t
                   PROVE  g[m + 1][s] = g[m + 1][t]
      OBVIOUS
    <3>2. m + 1 \in 1 .. N /\ (m + 1) - 1 = m /\ m <= N
      BY <3>1
    <3>3. g[m][s] = g[m][t]
      <4>1. \A x \in 1 .. m : x \in 1 .. m + 1
        OBVIOUS
      <4> HIDE DEF D
      <4> QED
        BY <2>2, <3>1, <3>2, <4>1
    <3>4. m + 1 \in s <=> m + 1 \in t
      <4>1. m + 1 \in 1 .. m + 1
        OBVIOUS
      <4> QED
        BY <3>1, <4>1
    <3>5. /\ g[m + 1][s] = IF m + 1 \in s THEN step[m + 1][g[m][s]] ELSE g[m][s]
          /\ g[m + 1][t] = IF m + 1 \in t THEN step[m + 1][g[m][t]] ELSE g[m][t]
      <4> HIDE DEF D
      <4> QED
        BY <1>5, <3>2
    <3> QED
      BY <3>3, <3>4, <3>5
  <2> HIDE DEF S
  <2>3. Nat \subseteq S
    BY <2>1, <2>2, SetInduction
  <2>4. \A m \in 0 .. N : m \in Nat /\ m <= N
    OBVIOUS
  <2> QED
    BY <2>3, <2>4 DEF S
\* Beyond the positions of a set nothing is done for it.
<1>8. ASSUME NEW x \in 0 .. N, NEW s \in D, \A y \in s : y <= x
      PROVE  g[N][s] = g[x][s]
  <2> DEFINE S == {m \in Nat : x + m <= N => g[x + m][s] = g[x][s]}
  <2>1. 0 \in S
    OBVIOUS
  <2>2. ASSUME NEW m \in Nat, m \in S PROVE m + 1 \in S
    <3>1. SUFFICES ASSUME x + (m + 1) <= N PROVE g[x + (m + 1)][s] = g[x][s]
      OBVIOUS
    <3> DEFINE n == x + (m + 1)
    <3>2. n \in 1 .. N /\ n - 1 = x + m /\ x + m <= N /\ ~(n <= x)
      BY <3>1
    <3> HIDE DEF n
    <3>3. n \notin s
      BY <1>8, <3>2
    <3>4. g[n][s] = g[n - 1][s]
      <4> HIDE DEF D
      <4> QED
        BY <1>5, <1>8, <3>2, <3>3
    <3> QED
      BY <2>2, <3>2, <3>4 DEF n
  <2> HIDE DEF S
  <2>3. N - x \in S
    BY <2>1, <2>2, SetInduction
  <2> QED
    BY <2>3 DEF S
<1> DEFINE h == g[N]
<1>9. h \in Z /\ h[{}] = base
  <2>1. h \in Z
    OBVIOUS
  <2>2. g[N][{}] = g[0][{}]
    BY <1>8
  <2>3. {} \in D
    OBVIOUS
  <2> QED
    BY <1>6, <2>1, <2>2, <2>3
<1>10. ASSUME NEW s \in D, s # {} PROVE h[s] = step[Max(s)][h[s \ {Max(s)}]]
  <2> DEFINE x == Max(s)
             t == s \ {x}
  <2>1. x \in s /\ \A y \in s : x >= y
    BY <1>10, GreatestPosition
  <2>2. x \in 1 .. N /\ s \subseteq 1 .. N /\ t \in D /\ x - 1 \in 0 .. N /\ x \in 0 .. N
    <3>1. x \in 1 .. N /\ s \subseteq 1 .. N
      BY <2>1
    <3> HIDE DEF x
    <3> QED
      BY <3>1
  <2> HIDE DEF x
  <2>3. g[N][s] = g[x][s]
    <3>1. \A y \in s : y <= x
      BY <2>1, <2>2
    <3> HIDE DEF D
    <3> QED
      BY <1>8, <2>2, <3>1
  <2>4. g[x][s] = step[x][g[x - 1][s]]
    <3> HIDE DEF D
    <3> QED
      BY <1>5, <2>1, <2>2
  <2>5. g[x - 1][s] = g[x - 1][t]
    <3>1. \A y \in 1 .. x - 1 : y \in s <=> y \in t
      BY <2>2
    <3> HIDE DEF D, t
    <3> QED
      BY <1>7, <2>2, <3>1
  <2>6. g[N][t] = g[x - 1][t]
    <3>1. \A y \in t : y <= x - 1
      BY <2>1, <2>2
    <3> HIDE DEF D, t
    <3> QED
      BY <1>8, <2>2, <3>1
  <2> QED
    BY <2>3, <2>4, <2>5, <2>6 DEF x
<1> QED
  BY <1>9, <1>10 DEF Z, Folds
=============================================================================
