-------------------------- MODULE Compaction_proofs --------------------------
(***************************************************************************)
(* Proofs about Compaction for every alphabet, every budget and limit, and *)
(* every number of messages and of compactions.                            *)
(***************************************************************************)
EXTENDS Compaction, Selection_proofs

-----------------------------------------------------------------------------
(* The greatest and the least of a set, and recursion from the end.        *)

\* Every bounded set of natural numbers with an element has a greatest one.
LEMMA MaxOfBounded ==
    ASSUME NEW N \in Nat, NEW T \in SUBSET (0 .. N), T # {}
    PROVE  Max(T) \in T /\ \A y \in T : Max(T) >= y
<1> DEFINE R == {N - y : y \in T}
<1>1. R \in SUBSET Nat /\ R # {}
  <2>1. PICK y \in T : TRUE
    OBVIOUS
  <2>2. N - y \in R
    BY <2>1
  <2>3. \A z \in T : N - z \in Nat
    OBVIOUS
  <2> QED
    BY <2>2, <2>3
<1>2. PICK z \in R : \A y \in R : z <= y
  <2> HIDE DEF R
  <2> QED
    BY <1>1, LeastNatural
<1>3. PICK x \in T : z = N - x
  BY <1>2
<1>4. ASSUME NEW y \in T PROVE x >= y
  <2>1. z <= N - y
    BY <1>2
  <2> QED
    BY <2>1, <1>3
<1> QED
  BY <1>3, <1>4 DEF Max

\* Min names the least element.
LEMMA MinOfNaturals ==
    ASSUME NEW T \in SUBSET Nat, T # {}
    PROVE  Min(T) \in T /\ \A y \in T : Min(T) <= y
<1>1. PICK x \in T : \A y \in T : x <= y
  BY LeastNatural
<1> QED
  BY <1>1 DEF Min

\* A set that has i whenever it has every later position has every position.
LEMMA DownwardInduction ==
    ASSUME NEW N \in Nat, NEW S,
           \A i \in 1 .. N + 1 : (\A j \in i + 1 .. N + 1 : j \in S) => i \in S
    PROVE  1 .. N + 1 \subseteq S
<1> DEFINE T == {i \in 0 .. N + 1 : i # 0 /\ i \notin S}
<1>1. SUFFICES ASSUME T # {} PROVE FALSE
  OBVIOUS
<1>2. N + 1 \in Nat /\ T \in SUBSET (0 .. N + 1)
  OBVIOUS
<1>3. Max(T) \in T /\ \A y \in T : Max(T) >= y
  <2> HIDE DEF T
  <2> QED
    BY <1>1, <1>2, MaxOfBounded
<1>4. PICK i \in T : \A y \in T : i >= y
  BY <1>3
<1>5. i \in 1 .. N + 1 /\ i \notin S
  OBVIOUS
<1>6. \A j \in i + 1 .. N + 1 : j \in S
  BY <1>4
<1> QED
  BY <1>5, <1>6

\* Where a walk over 1 .. N + 1 is not done, the next position is a later one.
Onward(N, done, next) ==
    \A i \in 1 .. N + 1 : ~done[i] => next[i] \in i + 1 .. N + 1

\* What g finds from every position is what the walk that starts there finds.
WalkIs(N, done, value, next, g) ==
    \A i \in 1 .. N + 1 : g[i] = IF done[i] THEN value[i] ELSE g[next[i]]

\* A walk that ends where `done` says so and otherwise goes on at a later position
\* is a function: a recursive definition of that form means something.
LEMMA WalkRecursion ==
    ASSUME NEW X, NEW N \in Nat, NEW done \in [1 .. N + 1 -> BOOLEAN],
           NEW value \in [1 .. N + 1 -> X], NEW next \in [1 .. N + 1 -> Nat],
           Onward(N, done, next)
    PROVE  \E g \in [1 .. N + 1 -> X] : WalkIs(N, done, value, next, g)
<1> DEFINE Good(m, g) == /\ g \in [m .. N + 1 -> X]
                         /\ \A i \in m .. N + 1 :
                               g[i] = IF done[i] THEN value[i] ELSE g[next[i]]
           S == {m \in 1 .. N + 1 : \E g : Good(m, g)}
<1>1. ASSUME NEW m \in 1 .. N + 1, \A j \in m + 1 .. N + 1 : j \in S PROVE m \in S
  <2>0. m = N + 1 \/ m + 1 \in m + 1 .. N + 1
    OBVIOUS
  <2>1. PICK g : m = N + 1 \/ Good(m + 1, g)
    <3>1. CASE m = N + 1
      BY <3>1
    <3>2. CASE m + 1 \in m + 1 .. N + 1
      BY <1>1, <3>2
    <3> QED
      BY <2>0, <3>1, <3>2
  <2> DEFINE h == [i \in m .. N + 1 |->
                     IF i = m THEN IF done[m] THEN value[m] ELSE g[next[m]] ELSE g[i]]
  <2>2. ~done[m] => next[m] \in m + 1 .. N + 1 /\ g[next[m]] \in X
    BY <2>1 DEF Onward
  <2>3. h \in [m .. N + 1 -> X]
    BY <2>1, <2>2
  <2>4. ASSUME NEW i \in m .. N + 1
        PROVE  h[i] = IF done[i] THEN value[i] ELSE h[next[i]]
    <3>1. ~done[i] => next[i] \in i + 1 .. N + 1
      BY DEF Onward
    <3>2. ~done[i] => h[next[i]] = g[next[i]]
      BY <3>1
    <3>3. CASE i = m
      BY <3>2, <3>3
    <3>4. CASE i \in m + 1 .. N + 1
      BY <3>2, <3>4, <2>1
    <3> QED
      BY <3>3, <3>4
  <2>5. Good(m, h)
    BY <2>3, <2>4
  <2> QED
    BY <2>5
<1> HIDE DEF S
<1>2. 1 .. N + 1 \subseteq S
  BY <1>1, DownwardInduction
<1>3. 1 \in S
  BY <1>2
<1> QED
  BY <1>3 DEF S, WalkIs

-----------------------------------------------------------------------------
(* Costs.                                                                  *)

Kinds == {"user", "steer", "system", "assistant", "result"}

Message ==
    {m \in [kind : Kinds, calls : Seq(CallIds), answers : CallIds \cup {"none"},
            image : BOOLEAN, size : Nat, summary : BOOLEAN, covers : SUBSET Nat] :
        m.calls # <<>> => m.kind = "assistant"}

\* A message costs a natural number.
LEMMA WeightType == ASSUME NEW msg \in Message PROVE Weight(msg) \in Nat
<1>1. ImageTokens \in Nat
  BY LimitAssumption
<1> QED
  BY <1>1 DEF Weight, Message

\* Costs is a function and satisfies the recursion it is defined by.
LEMMA Costing ==
    ASSUME NEW msgs \in Seq(Message)
    PROVE  LET c == Costs(msgs)
           IN  /\ c \in [0 .. Len(msgs) -> Nat]
               /\ c[0] = 0
               /\ \A n \in 1 .. Len(msgs) : c[n] = c[n - 1] + Weight(msgs[n])
<1> DEFINE N == Len(msgs)
           Then(n, x) == x + Weight(msgs[n])
           Rec(g) == [n \in 0 .. N |-> IF n = 0 THEN 0 ELSE g[n - 1] + Weight(msgs[n])]
           step == [n \in 1 .. N |-> [x \in Nat |-> Then(n, x)]]
<1>0. N \in Nat
  OBVIOUS
<1>1. \A n \in 1 .. N, x \in Nat : Then(n, x) \in Nat
  BY WeightType
<1> DEFINE f == CHOOSE h : h = Rec(h)
<1>2. f = Costs(msgs)
  BY DEF Costs
<1>3. \A g : Rec(g) = [n \in 0 .. N |-> IF n = 0 THEN 0 ELSE Then(n, g[n - 1])]
  OBVIOUS
<1> HIDE DEF N, Then, Rec
<1>4. step \in [1 .. N -> [Nat -> Nat]]
  BY <1>1
<1> HIDE DEF step
<1>5. PICK g \in [0 .. N -> Nat] : g[0] = 0 /\ \A n \in 1 .. N : g[n] = step[n][g[n - 1]]
  <2> DEFINE X == Nat
             base == 0
  <2>1. base \in X /\ step \in [1 .. N -> [X -> X]]
    BY <1>4
  <2> HIDE DEF X, base
  <2>2. \E g \in [0 .. N -> X] : g[0] = base /\ \A n \in 1 .. N : g[n] = step[n][g[n - 1]]
    BY <1>0, <2>1, Recursion, SMTT(40)
  <2> QED
    BY <2>2 DEF X, base
<1>6. ASSUME NEW n \in 1 .. N PROVE g[n] = Then(n, g[n - 1])
  <2>1. n - 1 \in 0 .. N
    BY <1>0
  <2>2. g[n - 1] \in Nat
    BY <2>1
  <2> QED
    BY <1>5, <2>2 DEF step
<1>7. g = Rec(g)
  <2>1. g = [n \in 0 .. N |-> g[n]]
    OBVIOUS
  <2>2. ASSUME NEW n \in 0 .. N PROVE g[n] = IF n = 0 THEN 0 ELSE Then(n, g[n - 1])
    <3>1. CASE n = 0
      BY <1>5, <3>1
    <3>2. CASE n # 0
      <4>1. n \in 1 .. N
        BY <1>0, <3>2
      <4> QED
        BY <1>6, <3>2, <4>1
    <3> QED
      BY <3>1, <3>2
  <2> QED
    BY <2>1, <2>2, <1>3
<1>8. f = Rec(f)
  BY <1>7
<1> HIDE DEF f
<1>9. f = [n \in 0 .. N |-> IF n = 0 THEN 0 ELSE Then(n, f[n - 1])]
  BY <1>3, <1>8
<1>10. /\ DOMAIN f = 0 .. N /\ f[0] = 0
       /\ \A n \in 1 .. N : f[n] = Then(n, f[n - 1])
  <2>1. DOMAIN f = 0 .. N
    BY <1>9
  <2>2. \A n \in 0 .. N : f[n] = IF n = 0 THEN 0 ELSE Then(n, f[n - 1])
    BY <1>9
  <2>3. 0 \in 0 .. N /\ \A n \in 1 .. N : n \in 0 .. N /\ n # 0
    BY <1>0
  <2> QED
    BY <2>1, <2>2, <2>3
<1> DEFINE S == {n \in Nat : n <= N => f[n] \in Nat}
<1>11. 0 \in S
  BY <1>0, <1>10
<1>12. ASSUME NEW n \in Nat, n \in S PROVE n + 1 \in S
  <2>1. SUFFICES ASSUME n + 1 <= N PROVE f[n + 1] \in Nat
    OBVIOUS
  <2>2. f[n + 1] = Then(n + 1, f[n]) /\ n + 1 \in 1 .. N /\ f[n] \in Nat
    BY <1>0, <1>10, <1>12, <2>1
  <2> QED
    BY <1>1, <2>2
<1> HIDE DEF S
<1>13. Nat \subseteq S
  BY <1>11, <1>12, SetInduction
<1>14. f \in [0 .. N -> Nat]
  <2>1. \A n \in 0 .. N : f[n] \in Nat
    BY <1>0, <1>13 DEF S
  <2>2. f = [n \in 0 .. N |-> f[n]]
    BY <1>9, <1>10
  <2> QED
    BY <2>1, <2>2
<1> QED
  BY <1>2, <1>10, <1>14 DEF N, Then

\* The m messages after the a-th of s are those after the b-th of t.
Alike(s, a, t, b, m) ==
    a + m <= Len(s) /\ b + m <= Len(t) /\ \A n \in 1 .. m : s[a + n] = t[b + n]

\* The same run of messages costs the same in every sequence.
LEMMA AlikeCost ==
    ASSUME NEW s \in Seq(Message), NEW t \in Seq(Message), NEW a \in Nat, NEW b \in Nat,
           NEW m \in Nat, Alike(s, a, t, b, m)
    PROVE  CostOf(s, a + 1, a + m) = CostOf(t, b + 1, b + m)
<1> DEFINE f == Costs(s)
           g == Costs(t)
           S == {n \in Nat : n <= m => f[a + n] - f[a] = g[b + n] - g[b]}
<1>1. /\ f \in [0 .. Len(s) -> Nat]
      /\ \A n \in 1 .. Len(s) : f[n] = f[n - 1] + Weight(s[n])
  BY Costing
<1>2. /\ g \in [0 .. Len(t) -> Nat]
      /\ \A n \in 1 .. Len(t) : g[n] = g[n - 1] + Weight(t[n])
  BY Costing
<1>3. Len(s) \in Nat /\ Len(t) \in Nat /\ a + m <= Len(s) /\ b + m <= Len(t)
  BY DEF Alike
<1>9. \A n \in 1 .. m : s[a + n] = t[b + n]
  BY DEF Alike
<1>7. a + 0 = a /\ b + 0 = b /\ f[a] \in Nat /\ g[b] \in Nat
  <2>1. a \in 0 .. Len(s) /\ b \in 0 .. Len(t)
    BY <1>3
  <2> HIDE DEF f, g
  <2> QED
    BY <1>1, <1>2, <2>1
<1> HIDE DEF f, g
<1>4. 0 \in S
  BY <1>7
<1>5. ASSUME NEW n \in Nat, n \in S PROVE n + 1 \in S
  <2>1. SUFFICES ASSUME n + 1 <= m
                 PROVE  f[a + (n + 1)] - f[a] = g[b + (n + 1)] - g[b]
    OBVIOUS
  <2>2. f[a + n] - f[a] = g[b + n] - g[b]
    BY <1>5, <2>1
  <2>3. a + (n + 1) \in 1 .. Len(s) /\ b + (n + 1) \in 1 .. Len(t)
        /\ a + (n + 1) - 1 = a + n /\ b + (n + 1) - 1 = b + n
    BY <1>3, <2>1
  <2>4. s[a + (n + 1)] = t[b + (n + 1)] /\ s[a + (n + 1)] \in Message
    <3>1. n + 1 \in 1 .. m
      BY <2>1
    <3>2. s[a + (n + 1)] \in Message
      BY <2>3, ElementOfSeq
    <3> QED
      BY <1>9, <3>1, <3>2
  <2>5. f[a + (n + 1)] = f[a + n] + Weight(s[a + (n + 1)])
    <3>1. f[a + (n + 1)] = f[a + (n + 1) - 1] + Weight(s[a + (n + 1)])
      BY <1>1, <2>3
    <3> QED
      BY <2>3, <3>1
  <2>6. g[b + (n + 1)] = g[b + n] + Weight(s[a + (n + 1)])
    <3>0. b + (n + 1) \in 1 .. Len(t)
      BY <2>3
    <3>1. g[b + (n + 1)] = g[b + (n + 1) - 1] + Weight(t[b + (n + 1)])
      BY <1>2, <3>0
    <3> QED
      BY <2>3, <2>4, <3>1
  <2>7. Weight(s[a + (n + 1)]) \in Nat
    BY <2>4, WeightType
  <2>8. f[a + n] \in Nat /\ f[a] \in Nat /\ g[b + n] \in Nat /\ g[b] \in Nat
    <3>1. a + n \in 0 .. Len(s) /\ b + n \in 0 .. Len(t)
      BY <1>3, <2>1
    <3> QED
      BY <1>1, <1>2, <1>7, <3>1
  <2> DEFINE w == Weight(s[a + (n + 1)])
  <2> HIDE DEF w
  <2>9. f[a + (n + 1)] - f[a] = (f[a + n] - f[a]) + w
    BY <2>5, <2>7, <2>8 DEF w
  <2>10. g[b + (n + 1)] - g[b] = (g[b + n] - g[b]) + w
    BY <2>6, <2>7, <2>8 DEF w
  <2> QED
    BY <2>2, <2>9, <2>10
<1> HIDE DEF S
<1>6. m \in S
  BY <1>4, <1>5, SetInduction
<1>8. f[a + m] - f[a] = g[b + m] - g[b] /\ a + 1 - 1 = a /\ b + 1 - 1 = b
  BY <1>6 DEF S
<1> QED
  BY <1>8 DEF CostOf, f, g
\* A run of messages costs a natural number, and a longer one at least as much.
LEMMA CostsGrow ==
    ASSUME NEW msgs \in Seq(Message), NEW m \in Nat, NEW n \in Nat, m <= n, n <= Len(msgs)
    PROVE  Costs(msgs)[m] \in Nat /\ Costs(msgs)[n] \in Nat /\ Costs(msgs)[m] <= Costs(msgs)[n]
<1> DEFINE f == Costs(msgs)
           S == {k \in Nat : m + k <= Len(msgs) => f[m] <= f[m + k]}
<1>1. /\ f \in [0 .. Len(msgs) -> Nat]
      /\ \A i \in 1 .. Len(msgs) : f[i] = f[i - 1] + Weight(msgs[i])
  BY Costing
<1>2. Len(msgs) \in Nat
  OBVIOUS
<1> HIDE DEF f
<1>3. \A i \in Nat : i <= Len(msgs) => f[i] \in Nat
  BY <1>1, <1>2
<1>4. 0 \in S
  <2>1. m + 0 = m /\ f[m] \in Nat
    BY <1>2, <1>3
  <2> QED
    BY <2>1
<1>5. ASSUME NEW k \in Nat, k \in S PROVE k + 1 \in S
  <2>1. SUFFICES ASSUME m + (k + 1) <= Len(msgs) PROVE f[m] <= f[m + (k + 1)]
    OBVIOUS
  <2>2. m + (k + 1) \in 1 .. Len(msgs) /\ m + (k + 1) - 1 = m + k /\ m + k <= Len(msgs)
    BY <1>2, <2>1
  <2>3. f[m] <= f[m + k] /\ f[m] \in Nat /\ f[m + k] \in Nat
    BY <1>2, <1>3, <1>5, <2>2
  <2>4. f[m + (k + 1)] = f[m + k] + Weight(msgs[m + (k + 1)])
    <3>1. f[m + (k + 1)] = f[m + (k + 1) - 1] + Weight(msgs[m + (k + 1)])
      BY <1>1, <2>2
    <3> QED
      BY <2>2, <3>1
  <2>5. Weight(msgs[m + (k + 1)]) \in Nat
    BY <2>2, ElementOfSeq, WeightType
  <2> QED
    BY <2>3, <2>4, <2>5
<1> HIDE DEF S
<1>6. n - m \in S /\ m + (n - m) = n
  BY <1>4, <1>5, SetInduction
<1>7. f[m] <= f[n]
  BY <1>6 DEF S
<1> QED
  BY <1>2, <1>3, <1>7 DEF f

\* What a summary and a part of the input cost together, as the bounded request
\* that is made of them.
LEMMA RequestCost ==
    ASSUME NEW s \in Seq(Message), NEW t \in Seq(Message), NEW from \in Nat, NEW to \in Nat,
           from <= to, to <= Len(t)
    PROVE  LET r == s \o SubSeq(t, from + 1, to)
           IN  CostOf(r, 1, Len(r)) = CostOf(s, 1, Len(s)) + CostOf(t, from + 1, to)
<1> DEFINE u == SubSeq(t, from + 1, to)
           r == s \o u
           k == to - from
<1>1. /\ u \in Seq(Message) /\ Len(u) = k /\ \A i \in 1 .. k : u[i] = t[from + i]
  <2>1. \A i \in from + 1 .. to : t[i] \in Message
    BY ElementOfSeq
  <2>2. /\ u \in Seq(Message)
        /\ Len(u) = IF from + 1 <= to THEN to - (from + 1) + 1 ELSE 0
        /\ \A i \in 1 .. to - (from + 1) + 1 : u[i] = t[from + 1 + i - 1]
    BY <2>1, SubSeqProperties
  <2> QED
    BY <2>2
<1> HIDE DEF u
<1>2. /\ r \in Seq(Message) /\ Len(r) = Len(s) + k
      /\ \A i \in 1 .. Len(s) + k : r[i] = IF i <= Len(s) THEN s[i] ELSE u[i - Len(s)]
  <2>1. u \in Seq(Message) /\ Len(u) = k
    BY <1>1
  <2>2. /\ s \o u \in Seq(Message) /\ Len(s \o u) = Len(s) + Len(u)
        /\ \A i \in 1 .. Len(s) + Len(u) :
              (s \o u)[i] = IF i <= Len(s) THEN s[i] ELSE u[i - Len(s)]
    BY <2>1, ConcatProperties
  <2> HIDE DEF k
  <2> QED
    BY <2>1, <2>2
<1> HIDE DEF r
<1>0. r \in Seq(Message)
  BY <1>2
<1>3. Len(s) \in Nat /\ Len(t) \in Nat /\ k \in Nat
  OBVIOUS
<1>4. CostOf(r, 1, Len(s)) = CostOf(s, 1, Len(s))
  <2> DEFINE zero == 0
             n == Len(s)
  <2>1. \A i \in 1 .. n : r[zero + i] = s[zero + i]
    BY <1>2, <1>3
  <2>2. zero + n <= Len(r) /\ zero + n <= Len(s) /\ zero \in Nat /\ n \in Nat
    BY <1>2, <1>3
  <2>3. zero + 1 = 1 /\ zero + n = n
    BY <1>3
  <2> HIDE DEF zero, n
  <2>4. Alike(r, zero, s, zero, n)
    BY <2>1, <2>2 DEF Alike
  <2>5. CostOf(r, zero + 1, zero + n) = CostOf(s, zero + 1, zero + n)
    BY <1>0, <2>2, <2>4, AlikeCost
  <2> QED
    BY <2>3, <2>5 DEF n
<1>5. CostOf(r, Len(s) + 1, Len(s) + k) = CostOf(t, from + 1, to)
  <2> DEFINE n == Len(s)
  <2>1. ASSUME NEW i \in 1 .. k PROVE r[n + i] = t[from + i]
    <3>1. n + i \in 1 .. n + k /\ ~(n + i <= n) /\ n + i - n = i
      BY <1>3
    <3>2. r[n + i] = u[i]
      BY <1>2, <3>1
    <3> QED
      BY <1>1, <3>2
  <2>2. n + k <= Len(r) /\ from + k <= Len(t) /\ n \in Nat /\ k \in Nat /\ from + k = to
    BY <1>2, <1>3
  <2> HIDE DEF k, n
  <2>4. Alike(r, n, t, from, k)
    BY <2>1, <2>2 DEF Alike
  <2>5. CostOf(r, n + 1, n + k) = CostOf(t, from + 1, from + k)
    BY <1>0, <2>2, <2>4, AlikeCost
  <2> QED
    BY <2>2, <2>5 DEF n
<1>6. /\ Costs(r)[0] \in Nat /\ Costs(r)[Len(s)] \in Nat /\ Costs(r)[Len(s) + k] \in Nat
  <2>1. Costs(r) \in [0 .. Len(r) -> Nat]
    BY <1>0, Costing
  <2>2. /\ 0 \in 0 .. Len(r) /\ Len(s) \in 0 .. Len(r) /\ Len(s) + k \in 0 .. Len(r)
    BY <1>2, <1>3
  <2> QED
    BY <2>1, <2>2
<1>7. Len(s) + 1 - 1 = Len(s)
  BY <1>3
<1>8. CostOf(r, 1, Len(r)) = CostOf(r, 1, Len(s)) + CostOf(r, Len(s) + 1, Len(s) + k)
  <2> HIDE DEF k
  <2> QED
    BY <1>2, <1>6, <1>7 DEF CostOf
<1> QED
  BY <1>4, <1>5, <1>8 DEF r, u

-----------------------------------------------------------------------------
(* The verbatim tail.                                                      *)

\* The rule of FirstViolation, with `rest` for what the walk finds further on.
Violating(msgs, i, rest) ==
    IF i > Len(msgs) THEN 0
    ELSE IF msgs[i].kind = "result" THEN i
    ELSE IF ExchangeFault(msgs, i) # {} THEN Min(ExchangeFault(msgs, i))
    ELSE rest

Finished(msgs, i) ==
    i > Len(msgs) \/ msgs[i].kind = "result" \/ ExchangeFault(msgs, i) # {}

\* An exchange without a fault ends within the transcript; a fault is found in it.
LEMMA FaultRange ==
    ASSUME NEW msgs \in Seq(Message), NEW i \in 1 .. Len(msgs)
    PROVE  /\ ExchangeFault(msgs, i) \subseteq i .. Len(msgs)
           /\ ExchangeFault(msgs, i) # {} => Min(ExchangeFault(msgs, i)) \in i .. Len(msgs)
           /\ ExchangeFault(msgs, i) = {} => i + Len(msgs[i].calls) <= Len(msgs)
           /\ Len(msgs[i].calls) \in Nat
<1> DEFINE calls == msgs[i].calls
           Answers(j) ==
             /\ j <= Len(msgs) /\ msgs[j].kind = "result"
             /\ msgs[j].answers \in ToSet(calls)
             /\ \A k \in i + 1 .. j - 1 : msgs[k].answers # msgs[j].answers
           wrong == {j \in i + 1 .. i + Len(calls) : ~Answers(j)}
<1>1. Len(calls) \in Nat /\ Len(msgs) \in Nat
  <2>1. msgs[i] \in Message
    BY ElementOfSeq
  <2> QED
    BY <2>1 DEF Message
<1>2. ExchangeFault(msgs, i) =
        IF ~IsInjective(calls) THEN {i}
        ELSE IF wrong = {} THEN {}
        ELSE IF Min(wrong) <= Len(msgs) /\ msgs[Min(wrong)].kind = "result"
             THEN {Min(wrong)}
             ELSE {i}
  BY DEF ExchangeFault
<1>3. wrong # {} => Min(wrong) \in i + 1 .. i + Len(calls)
  <2>1. wrong \in SUBSET Nat /\ wrong \subseteq i + 1 .. i + Len(calls)
    BY <1>1
  <2> HIDE DEF wrong, calls
  <2> QED
    BY <2>1, MinOfNaturals
<1>4. wrong = {} => i + Len(calls) <= Len(msgs)
  <2>1. CASE Len(calls) = 0
    BY <1>1, <2>1
  <2>2. CASE Len(calls) > 0
    <3>1. i + Len(calls) \in i + 1 .. i + Len(calls)
      BY <1>1, <2>2
    <3> QED
      BY <3>1
  <2> QED
    BY <1>1, <2>1, <2>2
<1>5. \A x \in Nat : Min({x}) = x
  <2>1. ASSUME NEW x \in Nat PROVE Min({x}) = x
    <3>1. {x} \in SUBSET Nat /\ {x} # {}
      OBVIOUS
    <3>2. Min({x}) \in {x}
      BY <3>1, MinOfNaturals
    <3> QED
      BY <3>2
  <2> QED
    BY <2>1
<1> HIDE DEF wrong
<1>6. ExchangeFault(msgs, i) \subseteq i .. Len(msgs)
  BY <1>1, <1>2, <1>3
<1>7. ExchangeFault(msgs, i) = {} \/ \E x \in Nat : ExchangeFault(msgs, i) = {x}
  <2>1. CASE ~IsInjective(calls)
    BY <1>2, <2>1
  <2>2. CASE IsInjective(calls) /\ wrong = {}
    BY <1>2, <2>2
  <2>3. CASE IsInjective(calls) /\ wrong # {}
    <3>1. Min(wrong) \in Nat /\ i \in Nat
      BY <1>1, <1>3, <2>3
    <3> QED
      BY <1>2, <2>3, <3>1
  <2> QED
    BY <2>1, <2>2, <2>3
<1>8. ExchangeFault(msgs, i) = {} => wrong = {}
  BY <1>2
<1>9. ExchangeFault(msgs, i) # {} => Min(ExchangeFault(msgs, i)) \in i .. Len(msgs)
  BY <1>5, <1>6, <1>7
<1> QED
  BY <1>1, <1>4, <1>6, <1>8, <1>9

\* FirstViolation satisfies the recursion it is defined by.
LEMMA ViolationStep ==
    ASSUME NEW msgs \in Seq(Message), NEW i \in 1 .. Len(msgs) + 1
    PROVE  FirstViolation(msgs, i)
             = Violating(msgs, i, FirstViolation(msgs, i + 1 + Len(msgs[i].calls)))
<1> DEFINE N == Len(msgs)
           Rec(g) == [j \in 1 .. N + 1 |->
                        IF j > Len(msgs) THEN 0
                        ELSE IF msgs[j].kind = "result" THEN j
                        ELSE IF ExchangeFault(msgs, j) # {} THEN Min(ExchangeFault(msgs, j))
                        ELSE g[j + 1 + Len(msgs[j].calls)]]
           f == CHOOSE h : h = Rec(h)
           done == [j \in 1 .. N + 1 |-> Finished(msgs, j)]
           value == [j \in 1 .. N + 1 |-> IF Finished(msgs, j) THEN Violating(msgs, j, 0) ELSE 0]
           next == [j \in 1 .. N + 1 |->
                      IF Finished(msgs, j) THEN 0 ELSE j + 1 + Len(msgs[j].calls)]
<1>1. \A j : FirstViolation(msgs, j) = f[j]
  BY DEF FirstViolation
<1>2. \A g : Rec(g) = [j \in 1 .. N + 1 |->
                         Violating(msgs, j, g[j + 1 + Len(msgs[j].calls)])]
  BY DEF Violating
<1>3. N \in Nat
  OBVIOUS
<1>4. ASSUME NEW j \in 1 .. N + 1, ~Finished(msgs, j)
      PROVE  /\ j \in 1 .. N
             /\ j + 1 + Len(msgs[j].calls) \in j + 1 .. N + 1
             /\ \A rest : Violating(msgs, j, rest) = rest
  <2>1. j \in 1 .. N
    BY <1>3, <1>4 DEF Finished
  <2>2. j + Len(msgs[j].calls) <= N /\ Len(msgs[j].calls) \in Nat
    BY <1>4, <2>1, FaultRange DEF Finished
  <2>3. \A rest : Violating(msgs, j, rest) = rest
    BY <1>4 DEF Finished, Violating
  <2> DEFINE len == Len(msgs[j].calls)
  <2>4. j + 1 + len \in j + 1 .. N + 1
    <3>1. j + len <= N /\ len \in Nat
      BY <2>2
    <3> HIDE DEF len, N
    <3> QED
      BY <1>3, <2>1, <3>1
  <2> QED
    BY <2>1, <2>3, <2>4
<1>5. ASSUME NEW j \in 1 .. N + 1, Finished(msgs, j)
      PROVE  \A rest : /\ Violating(msgs, j, rest) = Violating(msgs, j, 0)
                       /\ Violating(msgs, j, rest) \in Nat
  <2>1. j <= N /\ ExchangeFault(msgs, j) # {} => Min(ExchangeFault(msgs, j)) \in Nat
    BY <1>3, FaultRange
  <2> QED
    BY <1>5, <2>1 DEF Finished, Violating
<1>6. done \in [1 .. N + 1 -> BOOLEAN]
  <2>1. \A j \in 1 .. N + 1 : Finished(msgs, j) \in BOOLEAN
    BY DEF Finished
  <2> QED
    BY <2>1
<1>7. value \in [1 .. N + 1 -> Nat]
  BY <1>5
<1>8. next \in [1 .. N + 1 -> Nat]
  BY <1>3, <1>4
<1>9. Onward(N, done, next)
  BY <1>4 DEF Onward
<1>10. \E g \in [1 .. N + 1 -> Nat] :
          \A j \in 1 .. N + 1 : g[j] = IF done[j] THEN value[j] ELSE g[next[j]]
  <2> DEFINE X == Nat
  <2>1. value \in [1 .. N + 1 -> X]
    BY <1>7
  <2> HIDE DEF X, N, done, value, next
  <2>2. \E g \in [1 .. N + 1 -> X] : WalkIs(N, done, value, next, g)
    BY <1>3, <1>6, <1>8, <1>9, <2>1, WalkRecursion, Zenon
  <2> QED
    BY <2>2 DEF X, WalkIs
<1>11. PICK g \in [1 .. N + 1 -> Nat] :
          \A j \in 1 .. N + 1 : g[j] = IF done[j] THEN value[j] ELSE g[next[j]]
  BY <1>10
<1>12. g = Rec(g)
  <2>1. ASSUME NEW j \in 1 .. N + 1
        PROVE  g[j] = Violating(msgs, j, g[j + 1 + Len(msgs[j].calls)])
    <3>1. CASE Finished(msgs, j)
      BY <1>5, <1>11, <3>1
    <3>2. CASE ~Finished(msgs, j)
      BY <1>4, <1>11, <3>2
    <3> QED
      BY <3>1, <3>2
  <2>2. g = [j \in 1 .. N + 1 |-> g[j]]
    OBVIOUS
  <2> HIDE DEF N, Rec
  <2> QED
    BY <1>2, <2>1, <2>2
<1>13. f = Rec(f)
  <2> HIDE DEF Rec
  <2> QED
    BY <1>12
<1> HIDE DEF f
<1>14. f[i] = Violating(msgs, i, f[i + 1 + Len(msgs[i].calls)])
  <2> HIDE DEF Rec
  <2> QED
    BY <1>2, <1>13
<1> QED
  BY <1>1, <1>14

\* A violation found from position i on is at or after it.
LEMMA ViolationRange ==
    ASSUME NEW msgs \in Seq(Message), NEW i \in 1 .. Len(msgs) + 1
    PROVE  FirstViolation(msgs, i) \in {0} \cup i .. Len(msgs)
<1> DEFINE N == Len(msgs)
           S == {j \in 1 .. N + 1 : FirstViolation(msgs, j) \in {0} \cup j .. N}
<1>1. N \in Nat
  OBVIOUS
<1>2. ASSUME NEW j \in 1 .. N + 1, \A k \in j + 1 .. N + 1 : k \in S PROVE j \in S
  <2> DEFINE len == Len(msgs[j].calls)
             k == j + 1 + len
             rest == FirstViolation(msgs, k)
  <2>1. FirstViolation(msgs, j) = Violating(msgs, j, rest)
    BY ViolationStep
  <2>2. CASE j > N
    BY <2>1, <2>2 DEF Violating
  <2>3. CASE j <= N /\ msgs[j].kind = "result"
    BY <2>1, <2>3 DEF Violating
  <2>4. CASE j <= N /\ msgs[j].kind # "result" /\ ExchangeFault(msgs, j) # {}
    <3>1. Min(ExchangeFault(msgs, j)) \in j .. N
      BY <1>1, <2>4, FaultRange
    <3> QED
      BY <2>1, <2>4, <3>1 DEF Violating
  <2>5. CASE j <= N /\ msgs[j].kind # "result" /\ ExchangeFault(msgs, j) = {}
    <3>1. j + len <= N /\ len \in Nat
      BY <1>1, <2>5, FaultRange
    <3>2. k \in j + 1 .. N + 1
      <4> HIDE DEF len, N
      <4> QED
        BY <1>1, <3>1
    <3>3. rest \in {0} \cup k .. N
      BY <1>2, <3>2
    <3>4. FirstViolation(msgs, j) = rest
      <4> HIDE DEF rest
      <4>1. ~(j > Len(msgs))
        BY <1>1, <2>5
      <4> QED
        BY <2>1, <2>5, <4>1 DEF Violating
    <3>5. rest \in {0} \cup j .. N
      <4> HIDE DEF rest, k, N
      <4> QED
        BY <1>1, <3>2, <3>3
    <3> QED
      BY <3>4, <3>5
  <2> QED
    BY <1>1, <2>2, <2>3, <2>4, <2>5
<1> HIDE DEF S
<1>3. 1 .. N + 1 \subseteq S
  <2> HIDE DEF N
  <2> QED
    BY <1>1, <1>2, DownwardInduction
<1> QED
  BY <1>3 DEF S

\* SafeTailStart satisfies the recursion it is defined by, and starts no earlier
\* than it was asked to.
LEMMA SafeTailStep ==
    ASSUME NEW msgs \in Seq(Message), NEW i \in 1 .. Len(msgs) + 1
    PROVE  /\ SafeTailStart(msgs, i) =
                LET violation == FirstViolation(msgs, i)
                IN  IF violation = 0 THEN i ELSE SafeTailStart(msgs, violation + 1)
           /\ SafeTailStart(msgs, i) \in i .. Len(msgs) + 1
           /\ FirstViolation(msgs, SafeTailStart(msgs, i)) = 0
<1> DEFINE N == Len(msgs)
           v(j) == FirstViolation(msgs, j)
           Rec(g) == [j \in 1 .. N + 1 |-> IF v(j) = 0 THEN j ELSE g[v(j) + 1]]
           f == CHOOSE h : h = Rec(h)
           done == [j \in 1 .. N + 1 |-> v(j) = 0]
           value == [j \in 1 .. N + 1 |-> j]
           next == [j \in 1 .. N + 1 |-> v(j) + 1]
<1>1. \A j : SafeTailStart(msgs, j) = f[j]
  BY DEF SafeTailStart
<1>2. N \in Nat
  OBVIOUS
<1>3. \A j \in 1 .. N + 1 : v(j) \in {0} \cup j .. N
  BY ViolationRange
<1> HIDE DEF v, N
<1>4. done \in [1 .. N + 1 -> BOOLEAN]
  OBVIOUS
<1>5. value \in [1 .. N + 1 -> Nat]
  BY <1>2
<1>6. next \in [1 .. N + 1 -> Nat]
  BY <1>2, <1>3
<1>7. Onward(N, done, next)
  <2>1. ASSUME NEW j \in 1 .. N + 1, ~done[j] PROVE next[j] \in j + 1 .. N + 1
    <3>1. v(j) # 0 /\ next[j] = v(j) + 1
      BY <2>1
    <3>2. v(j) \in j .. N
      BY <1>3, <3>1
    <3> HIDE DEF next
    <3> QED
      BY <1>2, <3>1, <3>2
  <2> HIDE DEF done, next
  <2> QED
    BY <2>1 DEF Onward
<1>8. \E g \in [1 .. N + 1 -> Nat] : WalkIs(N, done, value, next, g)
  <2> DEFINE X == Nat
  <2>1. value \in [1 .. N + 1 -> X]
    BY <1>5
  <2> HIDE DEF X, done, value, next
  <2>2. \E g \in [1 .. N + 1 -> X] : WalkIs(N, done, value, next, g)
    BY <1>2, <1>4, <1>6, <1>7, <2>1, WalkRecursion, Zenon
  <2> QED
    BY <2>2 DEF X
<1>9. PICK g \in [1 .. N + 1 -> Nat] : WalkIs(N, done, value, next, g)
  BY <1>8
<1>10. g = Rec(g)
  <2>1. ASSUME NEW j \in 1 .. N + 1 PROVE g[j] = IF v(j) = 0 THEN j ELSE g[v(j) + 1]
    BY <1>9 DEF WalkIs
  <2>2. g = [j \in 1 .. N + 1 |-> g[j]]
    OBVIOUS
  <2> QED
    BY <2>1, <2>2
<1>11. f = Rec(f)
  <2> HIDE DEF Rec
  <2> QED
    BY <1>10
<1> HIDE DEF f
<1>12. \A j \in 1 .. N + 1 : f[j] = IF v(j) = 0 THEN j ELSE f[v(j) + 1]
  BY <1>11
<1> DEFINE S == {j \in 1 .. N + 1 : f[j] \in j .. N + 1 /\ v(f[j]) = 0}
<1>13. ASSUME NEW j \in 1 .. N + 1, \A k \in j + 1 .. N + 1 : k \in S PROVE j \in S
  <2>1. CASE v(j) = 0
    BY <1>2, <1>12, <2>1
  <2>2. CASE v(j) # 0
    <3>1. v(j) + 1 \in j + 1 .. N + 1
      BY <1>2, <1>3, <2>2
    <3>2. f[v(j) + 1] \in v(j) + 1 .. N + 1 /\ v(f[v(j) + 1]) = 0
      BY <1>13, <3>1
    <3>3. f[j] = f[v(j) + 1]
      BY <1>12, <2>2
    <3> QED
      BY <1>2, <3>1, <3>2, <3>3
  <2> QED
    BY <2>1, <2>2
<1> HIDE DEF S
<1>14. 1 .. N + 1 \subseteq S
  BY <1>2, <1>13, DownwardInduction
<1>15. i \in 1 .. N + 1
  BY DEF N
<1>16. f[i] \in i .. N + 1 /\ v(f[i]) = 0
  BY <1>14, <1>15 DEF S
<1>17. f[i] = IF v(i) = 0 THEN i ELSE f[v(i) + 1]
  BY <1>12, <1>15
<1> QED
  BY <1>1, <1>16, <1>17 DEF v, N

\* The cost cut is a position of the transcript or its end, fits, and is the first
\* that does.
LEMMA TailByCostRange ==
    ASSUME NEW msgs \in Seq(Message), NEW keep \in Nat
    PROVE  /\ TailByCost(msgs, keep) \in 1 .. Len(msgs) + 1
           /\ CostOf(msgs, TailByCost(msgs, keep), Len(msgs)) <= keep
           /\ \A s \in 1 .. Len(msgs) + 1 :
                CostOf(msgs, s, Len(msgs)) <= keep => TailByCost(msgs, keep) <= s
<1> DEFINE T == {s \in 1 .. Len(msgs) + 1 : CostOf(msgs, s, Len(msgs)) <= keep}
<1>1. Len(msgs) \in Nat /\ Len(msgs) + 1 - 1 = Len(msgs) /\ Len(msgs) \in 0 .. Len(msgs)
  OBVIOUS
<1>2. Costs(msgs)[Len(msgs)] \in Nat
  <2>1. Costs(msgs) \in [0 .. Len(msgs) -> Nat]
    BY Costing
  <2> QED
    BY <1>1, <2>1
<1>3. CostOf(msgs, Len(msgs) + 1, Len(msgs)) = 0
  BY <1>1, <1>2 DEF CostOf
<1>4. T \in SUBSET Nat /\ T # {}
  <2>1. Len(msgs) + 1 \in T
    BY <1>1, <1>3
  <2> QED
    BY <1>1, <2>1
<1> HIDE DEF T
<1>5. Min(T) \in T /\ \A s \in T : Min(T) <= s
  BY <1>4, MinOfNaturals
<1> QED
  BY <1>5 DEF T, TailByCost

-----------------------------------------------------------------------------
(* The elements of the sequences that a compaction makes.                  *)

\* A concatenation has the elements of both parts.
LEMMA ElementsOfConcat ==
    ASSUME NEW X, NEW s \in Seq(X), NEW t \in Seq(X)
    PROVE  s \o t \in Seq(X) /\ ToSet(s \o t) = ToSet(s) \cup ToSet(t)
<1> DEFINE r == s \o t
<1>1. /\ r \in Seq(X) /\ Len(r) = Len(s) + Len(t)
      /\ \A i \in 1 .. Len(s) + Len(t) : r[i] = IF i <= Len(s) THEN s[i] ELSE t[i - Len(s)]
  BY ConcatProperties
<1>2. /\ Len(s) \in Nat /\ Len(t) \in Nat
      /\ DOMAIN s = 1 .. Len(s) /\ DOMAIN t = 1 .. Len(t) /\ DOMAIN r = 1 .. Len(r)
  BY <1>1, LenProperties
<1> HIDE DEF r
<1>3. ASSUME NEW i \in DOMAIN r PROVE r[i] \in ToSet(s) \cup ToSet(t)
  <2>1. CASE i <= Len(s)
    <3>1. i \in DOMAIN s /\ r[i] = s[i]
      BY <1>1, <1>2, <2>1
    <3> QED
      BY <3>1 DEF ToSet
  <2>2. CASE ~(i <= Len(s))
    <3>1. i - Len(s) \in DOMAIN t /\ r[i] = t[i - Len(s)]
      BY <1>1, <1>2, <2>2
    <3> QED
      BY <3>1 DEF ToSet
  <2> QED
    BY <2>1, <2>2
<1>4. ASSUME NEW i \in DOMAIN s PROVE s[i] \in ToSet(r)
  <2>1. i \in DOMAIN r /\ r[i] = s[i]
    BY <1>1, <1>2
  <2> QED
    BY <2>1 DEF ToSet
<1>5. ASSUME NEW i \in DOMAIN t PROVE t[i] \in ToSet(r)
  <2>1. Len(s) + i \in 1 .. Len(r) /\ ~(Len(s) + i <= Len(s)) /\ Len(s) + i - Len(s) = i
    BY <1>1, <1>2
  <2>2. Len(s) + i \in DOMAIN r /\ r[Len(s) + i] = t[i]
    BY <1>1, <1>2, <2>1
  <2> QED
    BY <2>2 DEF ToSet
<1>6. ToSet(r) \subseteq ToSet(s) \cup ToSet(t)
  BY <1>3 DEF ToSet
<1>7. ToSet(s) \subseteq ToSet(r) /\ ToSet(t) \subseteq ToSet(r)
  BY <1>4, <1>5 DEF ToSet
<1> QED
  BY <1>1, <1>6, <1>7 DEF r

\* A part of a sequence has the elements at its positions.
LEMMA ElementsOfPart ==
    ASSUME NEW X, NEW s \in Seq(X), NEW m \in Nat, m >= 1, NEW n \in Nat, n <= Len(s)
    PROVE  /\ SubSeq(s, m, n) \in Seq(X)
           /\ ToSet(SubSeq(s, m, n)) = {s[i] : i \in m .. n}
<1> DEFINE u == SubSeq(s, m, n)
<1>1. \A i \in m .. n : s[i] \in X
  BY ElementOfSeq
<1>2. /\ u \in Seq(X) /\ Len(u) = (IF m <= n THEN n - m + 1 ELSE 0)
      /\ \A i \in 1 .. n - m + 1 : u[i] = s[m + i - 1]
  BY <1>1, SubSeqProperties
<1>3. DOMAIN u = 1 .. Len(u)
  BY <1>2, LenProperties
<1> HIDE DEF u
<1>4. ASSUME NEW i \in DOMAIN u PROVE u[i] \in {s[k] : k \in m .. n}
  <2>1. i \in 1 .. n - m + 1 /\ m + i - 1 \in m .. n
    BY <1>2, <1>3
  <2> QED
    BY <1>2, <2>1
<1>5. ASSUME NEW k \in m .. n PROVE s[k] \in ToSet(u)
  <2>1. k - m + 1 \in 1 .. n - m + 1 /\ k - m + 1 \in DOMAIN u /\ m + (k - m + 1) - 1 = k
    BY <1>2, <1>3
  <2>2. u[k - m + 1] = s[m + (k - m + 1) - 1]
    BY <1>2, <2>1
  <2> QED
    BY <2>1, <2>2 DEF ToSet
<1> QED
  BY <1>2, <1>4, <1>5 DEF ToSet, u

\* A selection has the elements at the positions selected.
LEMMA ElementsOfSelection ==
    ASSUME NEW X, NEW s \in Seq(X), NEW I
    PROVE  /\ Select(s, I) \in Seq(X)
           /\ ToSet(Select(s, I)) = {s[i] : i \in I \cap 1 .. Len(s)}
<1> DEFINE u == Select(s, I)
<1>1. u \in Seq(X)
  BY SelectType
<1>2. /\ \A i \in 1 .. Len(s) : i \in I => Rank(I, i) \in 1 .. Len(u) /\ u[Rank(I, i)] = s[i]
      /\ \A n \in 1 .. Len(u) : \E i \in 1 .. Len(s) : i \in I /\ n = Rank(I, i)
  BY SelectRanks
<1>3. DOMAIN u = 1 .. Len(u)
  BY <1>1, LenProperties
<1> HIDE DEF u
<1>4. ASSUME NEW n \in DOMAIN u PROVE u[n] \in {s[i] : i \in I \cap 1 .. Len(s)}
  BY <1>2, <1>3
<1>5. ASSUME NEW i \in I \cap 1 .. Len(s) PROVE s[i] \in ToSet(u)
  BY <1>2, <1>3 DEF ToSet
<1> QED
  BY <1>1, <1>4, <1>5 DEF ToSet, u

\* What is told of is told of by an element.
LEMMA ToldByElements ==
    ASSUME NEW c, NEW s
    PROVE  c \in Told(s) <=> \E m \in ToSet(s) : c \in m.covers
BY DEF Told

\* A sequence of one message has that message.
LEMMA ElementsOfOne ==
    ASSUME NEW X, NEW e \in X
    PROVE  <<e>> \in Seq(X) /\ ToSet(<<e>>) = {e} /\ Len(<<e>>) = 1 /\ <<e>>[1] = e
<1>1. <<e>> \in Seq(X) /\ Len(<<e>>) = 1 /\ <<e>>[1] = e
  OBVIOUS
<1>2. DOMAIN <<e>> = {1}
  BY <1>1, LenProperties
<1> QED
  BY <1>1, <1>2 DEF ToSet

-----------------------------------------------------------------------------
(* The splice.                                                             *)

\* A position selected after f, in what is selected after f.
LEMMA RankAfter ==
    ASSUME NEW I, NEW f \in Nat, NEW n \in Nat, f <= n
    PROVE  Rank(I, n) = Rank(I, f) + Rank({i \in I : i > f}, n)
<1> DEFINE J == {i \in I : i > f}
           S == {k \in Nat : Rank(I, f + k) = Rank(I, f) + Rank(J, f + k)}
<1>1. 0 \in S
  <2>1. J \cap 1 .. f = {}
    OBVIOUS
  <2>2. Rank(J, f) = 0
    BY <2>1, FS_EmptySet DEF Rank
  <2>3. Rank(I, f) \in Nat /\ f + 0 = f
    BY RankStep
  <2> HIDE DEF J
  <2> QED
    BY <2>2, <2>3
<1>2. ASSUME NEW k \in Nat, k \in S PROVE k + 1 \in S
  <2>1. /\ Rank(I, f) \in Nat /\ Rank(I, f + k) \in Nat
        /\ Rank(I, (f + k) + 1) = IF (f + k) + 1 \in I THEN Rank(I, f + k) + 1 ELSE Rank(I, f + k)
    BY RankStep
  <2>2. /\ Rank(J, f + k) \in Nat
        /\ Rank(J, (f + k) + 1) = IF (f + k) + 1 \in J THEN Rank(J, f + k) + 1 ELSE Rank(J, f + k)
    <3> HIDE DEF J
    <3> QED
      BY RankStep
  <2>3. (f + k) + 1 \in I <=> (f + k) + 1 \in J
    OBVIOUS
  <2>4. Rank(I, f + k) = Rank(I, f) + Rank(J, f + k)
    BY <1>2
  <2>5. f + (k + 1) = (f + k) + 1
    OBVIOUS
  <2> HIDE DEF J
  <2>6. Rank(I, (f + k) + 1) = Rank(I, f) + Rank(J, (f + k) + 1)
    BY <2>1, <2>2, <2>3, <2>4
  <2> QED
    BY <2>5, <2>6
<1> HIDE DEF S
<1>3. n - f \in S /\ f + (n - f) = n
  BY <1>1, <1>2, SetInduction
<1> QED
  BY <1>3 DEF S

\* Positions that are all selected up to n have the ranks they had.
LEMMA RankAll ==
    ASSUME NEW I, NEW n \in Nat, 1 .. n \subseteq I
    PROVE  Rank(I, n) = n
<1>1. I \cap 1 .. n = 1 .. n
  OBVIOUS
<1>2. Cardinality(1 .. n) = n
  <2>1. Cardinality(1 .. n) = IF 1 > n THEN 0 ELSE n - 1 + 1
    BY FS_Interval
  <2> QED
    BY <2>1
<1> QED
  BY <1>1, <1>2 DEF Rank

\* Where the message kept at position i of msgs stands after the splice.
Place(msgs, kept, i) ==
    Rank(kept, i) + (IF i > FirstDropped(msgs, kept) THEN 1 ELSE 0)

\* The places of kept messages follow their order, and the summary's is between.
LEMMA PlacesOrdered ==
    ASSUME NEW msgs \in Seq(Message), NEW kept \in SUBSET DOMAIN msgs, kept # DOMAIN msgs
    PROVE  /\ FirstDropped(msgs, kept) \in DOMAIN msgs \ kept
           /\ \A j \in DOMAIN msgs \ kept : FirstDropped(msgs, kept) <= j
           /\ Rank(kept, FirstDropped(msgs, kept)) = FirstDropped(msgs, kept) - 1
           /\ \A i \in kept :
                /\ i < FirstDropped(msgs, kept) => Place(msgs, kept, i) = i
                /\ FirstDropped(msgs, kept) < i =>
                     FirstDropped(msgs, kept) < Place(msgs, kept, i)
           /\ \A i, j \in kept : i < j => Place(msgs, kept, i) < Place(msgs, kept, j)
<1> DEFINE first == FirstDropped(msgs, kept)
           D == DOMAIN msgs \ kept
<1>1. DOMAIN msgs = 1 .. Len(msgs) /\ Len(msgs) \in Nat
  BY LenProperties
<1>2. D \in SUBSET Nat /\ D # {}
  <2>1. D # {}
    OBVIOUS
  <2> QED
    BY <1>1, <2>1
<1>3. first \in D /\ \A j \in D : first <= j
  <2>1. first = Min(D)
    BY DEF FirstDropped
  <2> HIDE DEF D, first
  <2> QED
    BY <1>2, <2>1, MinOfNaturals
<1>4. first \in Nat /\ first >= 1 /\ first - 1 \in Nat /\ first - 1 + 1 = first
  <2> HIDE DEF first
  <2> QED
    BY <1>1, <1>3
<1>5. \A i \in 1 .. first - 1 : i \in kept
  <2> HIDE DEF first
  <2> QED
    BY <1>1, <1>3, <1>4
<1> HIDE DEF first
<1>6. ASSUME NEW n \in Nat, n <= first - 1 PROVE Rank(kept, n) = n
  <2>1. 1 .. n \subseteq kept
    BY <1>4, <1>5, <1>6
  <2> QED
    BY <2>1, RankAll
<1>7. Rank(kept, first) = first - 1
  <2> DEFINE n == first - 1
  <2>1. n \in Nat /\ n + 1 = first /\ n <= first - 1
    BY <1>4
  <2>2. Rank(kept, n) = n
    BY <1>6, <2>1
  <2> HIDE DEF n
  <2>3. Rank(kept, n + 1) = IF n + 1 \in kept THEN Rank(kept, n) + 1 ELSE Rank(kept, n)
    BY <2>1, RankStep
  <2>4. first \notin kept
    BY <1>3
  <2>5. Rank(kept, first) = n
    BY <2>1, <2>2, <2>3, <2>4
  <2> QED
    BY <2>5 DEF n
<1>8. \A i \in kept : i \in Nat /\ Rank(kept, i) \in Nat /\ i # first
  <2>1. \A i \in Nat : Rank(kept, i) \in Nat
    BY RankStep
  <2>2. \A i \in kept : i \in Nat
    BY <1>1
  <2> QED
    BY <1>3, <2>1, <2>2
<1>9. \A i \in kept, j \in kept : i < j => Rank(kept, i) < Rank(kept, j)
  BY <1>8, RankMonotone
<1>10. \A i \in kept : first < i => first - 1 < Rank(kept, i)
  <2>1. \A i \in kept : first < i => Rank(kept, first) < Rank(kept, i)
    BY <1>4, <1>8, RankMonotone
  <2> QED
    BY <1>7, <2>1
<1>11. \A i \in kept : Place(msgs, kept, i) = Rank(kept, i) + (IF i > first THEN 1 ELSE 0)
  BY DEF Place, first
<1>12. \A i \in kept : i < first => Place(msgs, kept, i) = i
  BY <1>4, <1>6, <1>8, <1>11
<1>13. \A i \in kept : first < i => first < Place(msgs, kept, i)
  BY <1>4, <1>8, <1>10, <1>11
<1>14. \A i, j \in kept : i < j => Place(msgs, kept, i) < Place(msgs, kept, j)
  BY <1>4, <1>8, <1>9, <1>11
<1> QED
  BY <1>3, <1>7, <1>12, <1>13, <1>14 DEF first

\* The splice has the kept messages at their places and the summary where the first
\* message stood that is not kept.
LEMMA SplicePlaces ==
    ASSUME NEW msgs \in Seq(Message), NEW kept \in SUBSET DOMAIN msgs, kept # DOMAIN msgs,
           NEW text \in Message
    PROVE  LET r == Splice(msgs, kept, text)
               first == FirstDropped(msgs, kept)
           IN  /\ r \in Seq(Message) /\ Len(r) = Rank(kept, Len(msgs)) + 1
               /\ first \in DOMAIN r /\ r[first] = text
               /\ \A i \in kept : /\ Place(msgs, kept, i) \in DOMAIN r
                                  /\ r[Place(msgs, kept, i)] = msgs[i]
               /\ \A n \in DOMAIN r : n = first \/ \E i \in kept : n = Place(msgs, kept, i)
<1> DEFINE r == Splice(msgs, kept, text)
           first == FirstDropped(msgs, kept)
           N == Len(msgs)
           J == {i \in kept : i > first}
           a == SubSeq(msgs, 1, first - 1)
           b == <<text>>
           c == Select(msgs, J)
<1>1. DOMAIN msgs = 1 .. N /\ N \in Nat
  BY LenProperties
<1>2. /\ first \in 1 .. N /\ first \notin kept /\ Rank(kept, first) = first - 1
      /\ \A j \in DOMAIN msgs \ kept : first <= j
      /\ \A i \in kept : i < first => Place(msgs, kept, i) = i
  <2> HIDE DEF N
  <2> QED
    BY <1>1, PlacesOrdered
<1>3. \A i \in kept : Place(msgs, kept, i) = Rank(kept, i) + (IF i > first THEN 1 ELSE 0)
  BY DEF Place
<1> HIDE DEF first
<1>4. /\ a \in Seq(Message) /\ Len(a) = first - 1 /\ \A i \in 1 .. first - 1 : a[i] = msgs[i]
  <2>1. \A i \in 1 .. first - 1 : msgs[i] \in Message
    BY <1>1, <1>2, ElementOfSeq
  <2>2. 1 \in Int /\ first - 1 \in Int
    BY <1>2
  <2>3. /\ a \in Seq(Message)
        /\ Len(a) = IF 1 <= first - 1 THEN first - 1 - 1 + 1 ELSE 0
        /\ \A i \in 1 .. first - 1 - 1 + 1 : a[i] = msgs[1 + i - 1]
    BY <2>1, <2>2, SubSeqProperties
  <2> HIDE DEF a
  <2> QED
    BY <1>1, <1>2, <2>3
<1>5. b \in Seq(Message) /\ Len(b) = 1 /\ b[1] = text
  BY ElementsOfOne
<1>6. /\ c \in Seq(Message) /\ Len(c) = Rank(J, N)
      /\ \A i \in 1 .. N : i \in J => Rank(J, i) \in 1 .. Len(c) /\ c[Rank(J, i)] = msgs[i]
      /\ \A n \in 1 .. Len(c) : \E i \in 1 .. N : i \in J /\ n = Rank(J, i)
  <2> HIDE DEF J
  <2> QED
    BY SelectType, SelectRanks
<1>7. \A n \in Nat : first <= n => Rank(kept, n) = (first - 1) + Rank(J, n)
  BY <1>2, RankAfter
<1>8. \A n \in Nat : Rank(J, n) \in Nat
  BY RankStep
<1>9. r = (a \o b) \o c
  BY DEF Splice, first
<1> HIDE DEF a, b, c, r
<1>10. a \o b \in Seq(Message) /\ Len(a \o b) = first
       /\ \A i \in 1 .. first : (a \o b)[i] = IF i < first THEN msgs[i] ELSE text
  <2>1. /\ a \o b \in Seq(Message) /\ Len(a \o b) = Len(a) + Len(b)
        /\ \A i \in 1 .. Len(a) + Len(b) : (a \o b)[i] = IF i <= Len(a) THEN a[i] ELSE b[i - Len(a)]
    BY <1>4, <1>5, ConcatProperties
  <2> QED
    BY <1>2, <1>4, <1>5, <2>1
<1>11. /\ r \in Seq(Message) /\ Len(r) = first + Len(c)
       /\ \A i \in 1 .. first + Len(c) : r[i] = IF i < first THEN msgs[i] ELSE IF i = first THEN text ELSE c[i - first]
  <2> DEFINE d == a \o b
  <2>1. d \in Seq(Message) /\ Len(d) = first /\ c \in Seq(Message)
    BY <1>6, <1>10
  <2>2. \A i \in 1 .. first : d[i] = IF i < first THEN msgs[i] ELSE text
    BY <1>10
  <2>3. r = d \o c
    BY <1>9
  <2> HIDE DEF d
  <2>4. /\ d \o c \in Seq(Message) /\ Len(d \o c) = Len(d) + Len(c)
        /\ \A i \in 1 .. Len(d) + Len(c) : (d \o c)[i] = IF i <= Len(d) THEN d[i] ELSE c[i - Len(d)]
    BY <2>1, ConcatProperties
  <2>5. Len(c) \in Nat
    BY <2>1
  <2> QED
    BY <1>2, <2>1, <2>2, <2>3, <2>4, <2>5
<1>12. DOMAIN r = 1 .. first + Len(c) /\ Len(c) \in Nat
  BY <1>6, <1>11, LenProperties
<1>13. Len(r) = Rank(kept, N) + 1
  <2>1. Rank(kept, N) = (first - 1) + Rank(J, N) /\ Rank(J, N) \in Nat
    <3> HIDE DEF J, N
    <3> QED
      BY <1>1, <1>2, <1>7, <1>8
  <2> QED
    BY <1>2, <1>6, <1>11, <2>1
<1>14. first \in DOMAIN r /\ r[first] = text
  BY <1>2, <1>11, <1>12
<1>15. ASSUME NEW i \in kept
       PROVE  Place(msgs, kept, i) \in DOMAIN r /\ r[Place(msgs, kept, i)] = msgs[i]
  <2>0. i \in 1 .. N /\ i # first
    BY <1>1, <1>2
  <2>1. CASE i < first
    <3>1. Place(msgs, kept, i) = i
      BY <1>2, <2>1
    <3>2. i \in 1 .. first + Len(c)
      BY <1>2, <1>12, <2>0, <2>1
    <3> QED
      BY <1>11, <1>12, <2>1, <3>1, <3>2
  <2>2. CASE i > first
    <3>1. i \in J
      BY <2>2
    <3>2. Rank(J, i) \in 1 .. Len(c) /\ c[Rank(J, i)] = msgs[i]
      BY <1>6, <2>0, <3>1
    <3>3. Rank(kept, i) = (first - 1) + Rank(J, i)
      BY <1>1, <1>2, <1>7, <2>0, <2>2
    <3>4. Place(msgs, kept, i) = Rank(kept, i) + 1
      BY <1>3, <2>2
    <3> HIDE DEF J
    <3>5. Place(msgs, kept, i) = first + Rank(J, i)
      BY <1>2, <3>2, <3>3, <3>4
    <3>6. first + Rank(J, i) \in 1 .. first + Len(c)
      BY <1>2, <1>12, <3>2
    <3>7. r[first + Rank(J, i)] = c[Rank(J, i)]
      <4> DEFINE n == first + Rank(J, i)
      <4>1. n \in 1 .. first + Len(c) /\ ~(n < first) /\ n # first /\ n - first = Rank(J, i)
        BY <1>2, <1>12, <3>2
      <4> HIDE DEF n
      <4>2. r[n] = c[n - first]
        BY <1>11, <4>1
      <4> QED
        BY <4>1, <4>2 DEF n
    <3> QED
      BY <1>12, <3>2, <3>5, <3>6, <3>7
  <2> QED
    BY <1>2, <2>0, <2>1, <2>2
<1>16. ASSUME NEW n \in DOMAIN r, n # first PROVE \E i \in kept : n = Place(msgs, kept, i)
  <2>1. CASE n < first
    <3>1. n \in kept
      BY <1>1, <1>2, <1>12, <2>1
    <3> QED
      BY <1>2, <2>1, <3>1
  <2>2. CASE n > first
    <3>1. n - first \in 1 .. Len(c)
      BY <1>2, <1>12, <2>2
    <3>2. PICK i \in 1 .. N : i \in J /\ n - first = Rank(J, i)
      BY <1>6, <3>1
    <3>3. i \in kept /\ i > first
      BY <3>2
    <3>4. Rank(kept, i) = (first - 1) + Rank(J, i)
      BY <1>1, <1>2, <1>7, <3>3
    <3>5. Place(msgs, kept, i) = Rank(kept, i) + 1
      BY <1>3, <3>3
    <3> HIDE DEF J
    <3>6. n = Place(msgs, kept, i)
      BY <1>2, <1>12, <3>1, <3>2, <3>4, <3>5
    <3> QED
      BY <3>3, <3>6
  <2> QED
    BY <1>2, <1>12, <1>16, <2>1, <2>2
<1> QED
  BY <1>11, <1>13, <1>14, <1>15, <1>16 DEF r, first, N

-----------------------------------------------------------------------------
(* The state, and what a compaction knows of its source.                   *)

\* The projection of m: m, or m without its image.
Masked(m, p) == p = [m EXCEPT !.image = p.image] /\ (p.image => m.image)

MaskedSequence(s, r) ==
    Len(r) = Len(s) /\ DOMAIN r = DOMAIN s /\ \A i \in DOMAIN s : Masked(s[i], r[i])

TypeInvariant ==
    /\ transcript \in Seq(Message) /\ said \in Seq(Message)
    /\ source \in Seq(Message) /\ summary \in Seq(Message)
    /\ phase \in {"idle", "whole", "chunks"}
    /\ plan \in [kept : SUBSET Nat, tail : Nat, input : Seq(Message), limit : Nat]
    /\ start \in Nat /\ upto \in Nat /\ start <= upto /\ upto <= Len(plan.input)

\* The plan is the one that was made for the source, the source is the projected
\* transcript, and the outstanding bounded request ends where it may.
PlanInvariant ==
    /\ phase # "idle" =>
         /\ plan.limit \in TailTokens
         /\ plan.tail = SafeTailStart(source, TailByCost(source, plan.limit))
         /\ plan.kept = Kept(source, plan.tail) /\ plan.kept # DOMAIN source
         /\ plan.input = SummarizerMessages(source, plan.tail, plan.kept)
         /\ MaskedSequence(transcript, source)
    /\ phase = "whole" => start = 0 /\ summary = <<>> /\ upto = Len(plan.input)
    /\ phase = "chunks" => upto \in ChunkEnds(plan.input, start, summary)

StateInvariant == TypeInvariant /\ PlanInvariant

\* A projected transcript has the messages of the transcript, some without image.
LEMMA ProjectedMasks ==
    ASSUME NEW msgs \in Seq(Message), NEW keep \in KeepImages
    PROVE  Projected(msgs, keep) \in Seq(Message) /\ MaskedSequence(msgs, Projected(msgs, keep))
<1>1. DOMAIN msgs = 1 .. Len(msgs) /\ Len(msgs) \in Nat
  BY LenProperties
<1>2. ASSUME NEW m \in Message
      PROVE  m = [m EXCEPT !.image = m.image]
  BY DEF Message
<1>3. CASE keep = NoLimit
  <2>1. Projected(msgs, keep) = msgs
    BY <1>3 DEF Projected
  <2>2. \A i \in DOMAIN msgs : msgs[i] \in Message
    BY <1>1, ElementOfSeq
  <2> QED
    BY <1>2, <2>1, <2>2 DEF MaskedSequence, Masked
<1>4. CASE keep # NoLimit
  <2> DEFINE Left(i) == msgs[i].image
                          /\ Cardinality({j \in DOMAIN msgs : j > i /\ msgs[j].image}) < keep
             r == [i \in DOMAIN msgs |-> [msgs[i] EXCEPT !.image = Left(i)]]
  <2>1. Projected(msgs, keep) = r
    BY <1>4 DEF Projected, RetainImages
  <2>2. \A i \in DOMAIN msgs : Left(i) \in BOOLEAN /\ (Left(i) => msgs[i].image)
    OBVIOUS
  <2> HIDE DEF Left
  <2>3. ASSUME NEW m \in Message, NEW b \in BOOLEAN
        PROVE  /\ [m EXCEPT !.image = b] \in Message
               /\ [m EXCEPT !.image = b].image = b
    BY DEF Message
  <2>4. \A i \in DOMAIN msgs : msgs[i] \in Message
    BY <1>1, ElementOfSeq
  <2>5. \A i \in DOMAIN msgs : r[i] \in Message /\ r[i].image = Left(i)
    BY <2>2, <2>3, <2>4
  <2>6. r \in [1 .. Len(msgs) -> Message]
    BY <1>1, <2>5
  <2>7. r \in Seq(Message)
    BY <1>1, <2>6, SeqDef
  <2>8. DOMAIN r = DOMAIN msgs /\ \A i \in DOMAIN msgs : r[i] = [msgs[i] EXCEPT !.image = Left(i)]
    OBVIOUS
  <2> HIDE DEF r
  <2>9. DOMAIN r = 1 .. Len(r) /\ Len(r) \in Nat
    BY <2>7, LenProperties
  <2>10. Len(r) = Len(msgs)
    BY <1>1, <2>8, <2>9
  <2>11. \A i \in DOMAIN msgs : Masked(msgs[i], r[i])
    BY <2>2, <2>5, <2>8 DEF Masked
  <2> QED
    BY <2>1, <2>7, <2>8, <2>10, <2>11 DEF MaskedSequence
<1> QED
  BY <1>3, <1>4

\* The safe tail is a position of the transcript or its end.
LEMMA TailRange ==
    ASSUME NEW msgs \in Seq(Message), NEW keep \in Nat
    PROVE  /\ SafeTailStart(msgs, TailByCost(msgs, keep)) \in 1 .. Len(msgs) + 1
           /\ TailByCost(msgs, keep) <= SafeTailStart(msgs, TailByCost(msgs, keep))
<1> DEFINE cut == TailByCost(msgs, keep)
<1>1. cut \in 1 .. Len(msgs) + 1
  BY TailByCostRange
<1> HIDE DEF cut
<1>2. SafeTailStart(msgs, cut) \in cut .. Len(msgs) + 1
  BY <1>1, SafeTailStep
<1>3. Len(msgs) \in Nat
  OBVIOUS
<1>4. SafeTailStart(msgs, cut) \in 1 .. Len(msgs) + 1 /\ cut <= SafeTailStart(msgs, cut)
  BY <1>1, <1>2, <1>3
<1> QED
  BY <1>4 DEF cut

\* What is kept are positions of the transcript.
LEMMA KeptType ==
    ASSUME NEW msgs \in Seq(Message), NEW tail \in 1 .. Len(msgs) + 1
    PROVE  Kept(msgs, tail) \in SUBSET DOMAIN msgs /\ Kept(msgs, tail) \in SUBSET Nat
<1>1. DOMAIN msgs = 1 .. Len(msgs) /\ Len(msgs) \in Nat
  BY LenProperties
<1>2. Pinned(msgs) \subseteq DOMAIN msgs
  BY DEF Pinned, LatestUser, LatestSystem
<1>3. tail .. Len(msgs) \subseteq DOMAIN msgs
  BY <1>1
<1> QED
  BY <1>1, <1>2, <1>3 DEF Kept

\* The summarizer is shown the messages that are dropped, and no message that is not
\* of the transcript; of those that are kept, only the latest system message.
LEMMA InputElements ==
    ASSUME NEW msgs \in Seq(Message), NEW tail \in 1 .. Len(msgs) + 1, NEW kept,
           tail .. Len(msgs) \subseteq kept
    PROVE  LET input == SummarizerMessages(msgs, tail, kept)
           IN  /\ input \in Seq(Message)
               /\ ToSet(input) = {msgs[i] : i \in (DOMAIN msgs \ kept) \cup LatestSystem(msgs)}
<1> DEFINE I == {i \in 1 .. tail - 1 : i \notin kept \/ i \in LatestSystem(msgs)}
           J == {i \in LatestSystem(msgs) : i >= tail}
           a == Select(msgs, I)
           b == Select(msgs, J)
<1>1. DOMAIN msgs = 1 .. Len(msgs) /\ Len(msgs) \in Nat
  BY LenProperties
<1>2. LatestSystem(msgs) \subseteq DOMAIN msgs
  BY DEF LatestSystem
<1>3. a \in Seq(Message) /\ ToSet(a) = {msgs[i] : i \in I \cap 1 .. Len(msgs)}
  <2> HIDE DEF I
  <2> QED
    BY ElementsOfSelection
<1>4. b \in Seq(Message) /\ ToSet(b) = {msgs[i] : i \in J \cap 1 .. Len(msgs)}
  <2> HIDE DEF J
  <2> QED
    BY ElementsOfSelection
<1>5. SummarizerMessages(msgs, tail, kept) = a \o b
  BY DEF SummarizerMessages
<1>6. (I \cap 1 .. Len(msgs)) \cup (J \cap 1 .. Len(msgs))
        = (DOMAIN msgs \ kept) \cup LatestSystem(msgs)
  <2>1. ASSUME NEW i \in DOMAIN msgs \ kept PROVE i \in I \cap 1 .. Len(msgs)
    <3>1. i \notin tail .. Len(msgs)
      OBVIOUS
    <3> QED
      BY <1>1, <3>1
  <2>2. ASSUME NEW i \in LatestSystem(msgs) PROVE i \in (I \cap 1 .. Len(msgs)) \cup (J \cap 1 .. Len(msgs))
    BY <1>1, <1>2
  <2>3. ASSUME NEW i \in I \cap 1 .. Len(msgs) PROVE i \in (DOMAIN msgs \ kept) \cup LatestSystem(msgs)
    BY <1>1
  <2>4. ASSUME NEW i \in J \cap 1 .. Len(msgs) PROVE i \in LatestSystem(msgs)
    OBVIOUS
  <2> HIDE DEF I, J
  <2> QED
    BY <2>1, <2>2, <2>3, <2>4
<1> HIDE DEF a, b, I, J
<1>7. a \o b \in Seq(Message) /\ ToSet(a \o b) = ToSet(a) \cup ToSet(b)
  BY <1>3, <1>4, ElementsOfConcat
<1>8. ToSet(a) \cup ToSet(b) = {msgs[i] : i \in (I \cap 1 .. Len(msgs)) \cup (J \cap 1 .. Len(msgs))}
  BY <1>3, <1>4
<1> QED
  BY <1>5, <1>6, <1>7, <1>8

\* What a message tells of are numbers of messages, and so is what a sequence tells of.
LEMMA ToldType == ASSUME NEW msgs \in Seq(Message) PROVE Told(msgs) \in SUBSET Nat
<1>1. ToSet(msgs) \subseteq Message
  <2>1. DOMAIN msgs = 1 .. Len(msgs)
    BY LenProperties
  <2>2. \A i \in 1 .. Len(msgs) : msgs[i] \in Message
    BY ElementOfSeq
  <2> QED
    BY <2>1, <2>2 DEF ToSet
<1>2. ASSUME NEW c, c \in Told(msgs) PROVE c \in Nat
  <2>1. PICK m \in ToSet(msgs) : c \in m.covers
    BY <1>2, ToldByElements
  <2>2. m.covers \in SUBSET Nat
    BY <1>1 DEF Message
  <2> QED
    BY <2>1, <2>2
<1> QED
  BY <1>2

\* A summary is a message.
LEMMA SummaryType ==
    ASSUME NEW shown \in Seq(Message), NEW size \in Nat
    PROVE  SummaryOf(shown, size) \in Message
<1> DEFINE told == Told(shown)
           empty == <<>>
           no == FALSE
           yes == TRUE
<1>1. told \in SUBSET Nat
  BY ToldType
<1>2. empty \in Seq(CallIds) /\ no \in BOOLEAN /\ yes \in BOOLEAN
  OBVIOUS
<1>3. SummaryOf(shown, size) =
        [kind |-> "assistant", calls |-> empty, answers |-> "none", image |-> no,
         size |-> size, summary |-> yes, covers |-> told]
  BY DEF SummaryOf
<1>4. "assistant" \in Kinds
  BY DEF Kinds
<1>5. "none" \in CallIds \cup {"none"}
  OBVIOUS
<1> HIDE DEF told, empty, no, yes
<1> QED
  BY <1>1, <1>2, <1>3, <1>4, <1>5 DEF Message

\* The outstanding request is a sequence of messages.
LEMMA RequestType ==
    ASSUME TypeInvariant
    PROVE  Request \in Seq(Message)
<1>1. /\ summary \in Seq(Message) /\ plan.input \in Seq(Message)
      /\ start \in Nat /\ upto \in Nat /\ upto <= Len(plan.input)
  BY DEF TypeInvariant
<1> DEFINE u == SubSeq(plan.input, start + 1, upto)
<1>2. u \in Seq(Message)
  <2> DEFINE t == plan.input
             m == start + 1
  <2>1. t \in Seq(Message) /\ m \in Nat /\ m >= 1 /\ upto \in Nat /\ upto <= Len(t)
    BY <1>1
  <2> HIDE DEF t, m
  <2>2. SubSeq(t, m, upto) \in Seq(Message)
    BY <2>1, ElementsOfPart
  <2> QED
    BY <2>2 DEF t, m
<1> HIDE DEF u
<1>3. summary \o u \in Seq(Message)
  BY <1>1, <1>2, ConcatProperties
<1> QED
  BY <1>3 DEF Request, u

\* The next bounded request makes progress and ends where it may, or there is none.
LEMMA ChunkAsked ==
    ASSUME NEW msgs \in Seq(Message), NEW done \in Nat, done <= Len(msgs), NEW sum,
           AskChunk(msgs, done, sum)
    PROVE  /\ upto' \in Nat /\ done <= upto' /\ upto' <= Len(msgs)
           /\ phase' \in {"idle", "chunks"}
           /\ phase' = "chunks" => upto' \in ChunkEnds(msgs, done, sum)
<1> DEFINE ends == ChunkEnds(msgs, done, sum)
<1>1. DOMAIN msgs = 1 .. Len(msgs) /\ Len(msgs) \in Nat
  BY LenProperties
<1>2. \A e \in ends : e \in DOMAIN msgs /\ e > done
  BY DEF ChunkEnds, Boundaries
<1>3. ends = {} => phase' = "idle" /\ upto' = done
  BY DEF AskChunk
<1>4. ends # {} => phase' = "chunks" /\ upto' = Max(ends)
  BY DEF AskChunk
<1> HIDE DEF ends
<1>5. CASE ends = {}
  BY <1>3, <1>5
<1>6. CASE ends # {}
  <2>1. ends \in SUBSET (0 .. Len(msgs))
    BY <1>1, <1>2
  <2>2. Max(ends) \in ends
    BY <1>1, <1>6, <2>1, MaxOfBounded
  <2> QED
    BY <1>1, <1>2, <1>4, <1>6, <2>2 DEF ends
<1> QED
  BY <1>5, <1>6

\* An empty transcript is well formed.
LEMMA StateInit == Init => StateInvariant
<1> SUFFICES ASSUME Init PROVE StateInvariant
  OBVIOUS
<1>1. <<>> \in Seq(Message) /\ Len(<<>>) = 0
  BY EmptySeq
<1>2. plan \in [kept : SUBSET Nat, tail : Nat, input : Seq(Message), limit : Nat]
      /\ plan.input = <<>>
  BY <1>1 DEF Init, NoPlan
<1>3. TypeInvariant
  BY <1>1, <1>2 DEF Init, TypeInvariant
<1>4. PlanInvariant
  BY DEF Init, PlanInvariant
<1> QED
  BY <1>3, <1>4 DEF StateInvariant

\* A message that is appended leaves the state well formed.
LEMMA AppendKeepsState ==
    ASSUME StateInvariant, NEW letter \in Alphabet, Append1(letter)
    PROVE  /\ StateInvariant'
           /\ \E msg \in Message : /\ transcript' = Append(transcript, msg)
                                   /\ said' = Append(said, msg)
                                   /\ ~msg.summary /\ msg.covers = {Len(said) + 1}
                                   /\ msg.image => msg.kind = "result"
<1> DEFINE msg == [kind |-> letter.kind, calls |-> letter.calls,
                   answers |-> letter.answers, image |-> letter.image,
                   size |-> letter.size, summary |-> FALSE, covers |-> {Len(said) + 1}]
<1>1. /\ transcript \in Seq(Message) /\ said \in Seq(Message)
      /\ phase = "idle" /\ UNCHANGED <<phase, job>>
      /\ transcript' = Append(transcript, msg) /\ said' = Append(said, msg)
  BY DEF Append1, StateInvariant, TypeInvariant
<1>2. /\ letter.kind \in Kinds /\ letter.calls \in Seq(CallIds)
      /\ letter.answers \in CallIds \cup {"none"}
      /\ letter.image \in BOOLEAN /\ letter.size \in Nat
      /\ (letter.image => letter.kind = "result") /\ (letter.calls # <<>> => letter.kind = "assistant")
  BY AlphabetAssumption DEF Kinds
<1>3. {Len(said) + 1} \in SUBSET Nat
  BY <1>1
<1>4. msg \in Message
  BY <1>2, <1>3 DEF Message
<1>5. ~msg.summary /\ msg.covers = {Len(said) + 1} /\ (msg.image => msg.kind = "result")
  BY <1>2
<1> HIDE DEF msg
<1>6. transcript' \in Seq(Message) /\ said' \in Seq(Message)
  BY <1>1, <1>4, AppendProperties
<1>7. TypeInvariant'
  BY <1>1, <1>6 DEF StateInvariant, TypeInvariant, job
<1>8. PlanInvariant'
  BY <1>1 DEF PlanInvariant, job
<1> QED
  BY <1>1, <1>4, <1>5, <1>7, <1>8 DEF StateInvariant

\* Nothing is left of a compaction that ended.
LEMMA EndedState ==
    ASSUME StateInvariant, EndJob, phase' = "idle",
           transcript' \in Seq(Message), UNCHANGED said
    PROVE  StateInvariant'
<1>1. <<>> \in Seq(Message) /\ Len(<<>>) = 0
  BY EmptySeq
<1>2. /\ source' = <<>> /\ summary' = <<>> /\ start' = 0 /\ upto' = 0
      /\ plan' = [kept |-> {}, tail |-> 1, input |-> <<>>, limit |-> 0]
  BY DEF EndJob, NoPlan
<1>3. /\ plan' \in [kept : SUBSET Nat, tail : Nat, input : Seq(Message), limit : Nat]
      /\ plan'.input = <<>>
  BY <1>1, <1>2
<1>4. TypeInvariant'
  BY <1>1, <1>2, <1>3 DEF StateInvariant, TypeInvariant
<1>5. PlanInvariant'
  BY DEF PlanInvariant
<1> QED
  BY <1>4, <1>5 DEF StateInvariant

\* A compaction begins: the transcript is projected at once, or planned.
LEMMA BeginKeepsState ==
    ASSUME StateInvariant, NEW t \in TailTokens, NEW k \in KeepImages, Begin(t, k)
    PROVE  /\ StateInvariant' /\ UNCHANGED said /\ phase = "idle"
           /\ \/ /\ transcript' = Projected(transcript, k) /\ phase' = "idle"
              \/ /\ transcript' = transcript /\ source' = Projected(transcript, k)
                 /\ start' = 0 /\ summary' = <<>>
<1> DEFINE msgs == Projected(transcript, k)
           tail == SafeTailStart(msgs, TailByCost(msgs, t))
           kept == Kept(msgs, tail)
           input == SummarizerMessages(msgs, tail, kept)
<1>1. transcript \in Seq(Message) /\ said \in Seq(Message) /\ t \in Nat
  BY LimitAssumption DEF StateInvariant, TypeInvariant
<1>2. msgs \in Seq(Message) /\ MaskedSequence(transcript, msgs)
  BY <1>1, ProjectedMasks
<1>3. phase = "idle" /\ UNCHANGED said
  BY DEF Begin
<1>4. kept = DOMAIN msgs => transcript' = msgs /\ EndJob /\ UNCHANGED phase
  BY DEF Begin
<1>5. kept # DOMAIN msgs =>
        /\ source' = msgs
        /\ plan' = [kept |-> kept, tail |-> tail, input |-> input, limit |-> t]
        /\ start' = 0 /\ summary' = <<>>
        /\ UNCHANGED transcript
        /\ \/ AskChunk(input, 0, <<>>)
           \/ phase' = "whole" /\ upto' = Len(input)
  BY DEF Begin
<1> HIDE DEF msgs
<1>6. tail \in 1 .. Len(msgs) + 1
  BY <1>1, <1>2, TailRange
<1>7. kept \in SUBSET DOMAIN msgs /\ kept \in SUBSET Nat
  <2> HIDE DEF tail
  <2> QED
    BY <1>2, <1>6, KeptType
<1>8. tail .. Len(msgs) \subseteq kept
  BY DEF Kept
<1> HIDE DEF tail
<1>9. input \in Seq(Message)
  <2> HIDE DEF kept
  <2> QED
    BY <1>2, <1>6, <1>8, InputElements
<1>10. CASE kept = DOMAIN msgs
  <2>1. StateInvariant'
    BY <1>2, <1>3, <1>4, <1>10, EndedState
  <2> QED
    BY <1>3, <1>4, <1>10, <2>1 DEF msgs
<1>11. CASE kept # DOMAIN msgs
  <2> HIDE DEF kept, input
  <2>1. /\ plan'.kept = kept /\ plan'.tail = tail /\ plan'.input = input /\ plan'.limit = t
        /\ source' = msgs /\ start' = 0 /\ summary' = <<>> /\ transcript' = transcript
    BY <1>5, <1>11
  <2>2. /\ upto' \in Nat /\ 0 <= upto' /\ upto' <= Len(input)
        /\ phase' \in {"idle", "whole", "chunks"}
        /\ phase' = "whole" => upto' = Len(input)
        /\ phase' = "chunks" => upto' \in ChunkEnds(input, 0, <<>>)
    <3>1. Len(input) \in Nat
      BY <1>9
    <3>2. CASE phase' = "whole" /\ upto' = Len(input)
      BY <3>1, <3>2
    <3>3. CASE AskChunk(input, 0, <<>>)
      <4> DEFINE zero == 0
                 none == <<>>
      <4>1. zero \in Nat /\ zero <= Len(input) /\ AskChunk(input, zero, none)
        BY <3>1, <3>3
      <4> HIDE DEF zero, none
      <4>2. /\ upto' \in Nat /\ zero <= upto' /\ upto' <= Len(input)
            /\ phase' \in {"idle", "chunks"}
            /\ phase' = "chunks" => upto' \in ChunkEnds(input, zero, none)
        BY <1>9, <4>1, ChunkAsked
      <4> QED
        BY <4>2 DEF zero, none
    <3> QED
      BY <1>5, <1>11, <3>2, <3>3
  <2>3. plan' \in [kept : SUBSET Nat, tail : Nat, input : Seq(Message), limit : Nat]
    <3>1. tail \in Nat
      BY <1>2, <1>6
    <3> QED
      BY <1>1, <1>5, <1>7, <1>9, <1>11, <3>1
  <2>4. TypeInvariant'
    <3>1. <<>> \in Seq(Message)
      BY EmptySeq
    <3> QED
      BY <1>1, <1>2, <1>3, <2>1, <2>2, <2>3, <3>1 DEF TypeInvariant
  <2>5. PlanInvariant'
    <3>1. /\ tail = SafeTailStart(msgs, TailByCost(msgs, t)) /\ kept = Kept(msgs, tail)
          /\ input = SummarizerMessages(msgs, tail, kept)
      BY DEF tail, kept, input
    <3> QED
      BY <1>2, <1>11, <2>1, <2>2, <3>1 DEF PlanInvariant
  <2> QED
    BY <1>3, <2>1, <2>4, <2>5 DEF StateInvariant, msgs
<1> QED
  BY <1>10, <1>11

\* The last answer splices the summary of what was asked into what is kept, and one
\* before it begins the next request.
LEMMA ReplyKeepsState ==
    ASSUME StateInvariant, NEW size \in SummarySizes, Reply(size)
    PROVE  LET text == SummaryOf(Request, size)
           IN  /\ StateInvariant' /\ UNCHANGED said /\ phase # "idle" /\ text \in Message
               /\ \/ /\ upto = Len(plan.input) /\ phase' = "idle"
                     /\ transcript' = Splice(source, plan.kept, text)
                  \/ /\ upto < Len(plan.input)
                     /\ summary' = <<text>> /\ start' = upto
                     /\ UNCHANGED <<transcript, source, plan>>
<1> DEFINE text == SummaryOf(Request, size)
           input == plan.input
<1>1. TypeInvariant /\ PlanInvariant /\ size \in Nat
  BY LimitAssumption DEF StateInvariant
<1>2. text \in Message
  <2>1. Request \in Seq(Message)
    BY <1>1, RequestType
  <2> QED
    BY <1>1, <2>1, SummaryType
<1>3. phase # "idle" /\ UNCHANGED said
  BY DEF Reply
<1>4. upto < Len(plan.input) =>
        /\ AskChunk(plan.input, upto, <<text>>)
        /\ summary' = <<text>> /\ start' = upto
        /\ UNCHANGED <<transcript, source, plan>>
  BY DEF Reply
<1>5. ~(upto < Len(plan.input)) =>
        transcript' = Splice(source, plan.kept, text) /\ phase' = "idle" /\ EndJob
  BY DEF Reply
<1> HIDE DEF text
<1>6. /\ input \in Seq(Message) /\ Len(input) \in Nat /\ upto \in Nat /\ upto <= Len(input)
      /\ source \in Seq(Message) /\ plan.kept \in SUBSET Nat
  BY <1>1 DEF TypeInvariant
<1>7. CASE upto < Len(input)
  <2> DEFINE sum == <<text>>
  <2>1. sum \in Seq(Message)
    BY <1>2
  <2>2. AskChunk(input, upto, sum) /\ summary' = sum /\ start' = upto
        /\ transcript' = transcript /\ source' = source /\ plan' = plan
    BY <1>4, <1>7
  <2> HIDE DEF sum
  <2>3. /\ upto' \in Nat /\ upto <= upto' /\ upto' <= Len(input)
        /\ phase' \in {"idle", "chunks"}
        /\ phase' = "chunks" => upto' \in ChunkEnds(input, upto, sum)
    <3> HIDE DEF input
    <3> QED
      BY <1>6, <2>2, ChunkAsked
  <2>4. TypeInvariant'
    BY <1>1, <1>3, <1>6, <2>1, <2>2, <2>3 DEF TypeInvariant
  <2>5. PlanInvariant'
    BY <1>1, <1>3, <2>2, <2>3 DEF PlanInvariant
  <2> QED
    BY <1>2, <1>3, <1>4, <1>7, <2>4, <2>5 DEF StateInvariant, text
<1>8. CASE ~(upto < Len(input))
  <2>1. upto = Len(input)
    BY <1>6, <1>8
  <2>2. /\ plan.kept = Kept(source, plan.tail) /\ plan.kept # DOMAIN source
        /\ plan.tail = SafeTailStart(source, TailByCost(source, plan.limit))
        /\ plan.limit \in Nat
    BY <1>1, <1>3, LimitAssumption DEF PlanInvariant
  <2>3. plan.tail \in 1 .. Len(source) + 1
    BY <1>6, <2>2, TailRange
  <2>4. plan.kept \in SUBSET DOMAIN source
    BY <1>6, <2>2, <2>3, KeptType
  <2>5. Splice(source, plan.kept, text) \in Seq(Message)
    BY <1>2, <1>6, <2>2, <2>4, SplicePlaces
  <2>6. StateInvariant'
    BY <1>3, <1>5, <1>8, <2>5, EndedState
  <2> QED
    BY <1>2, <1>3, <1>5, <1>8, <2>1, <2>6 DEF text
<1> QED
  BY <1>7, <1>8

\* A request that fails leaves the transcript as it is.
LEMMA FailKeepsState ==
    ASSUME StateInvariant, Fail
    PROVE  StateInvariant' /\ UNCHANGED <<said, transcript>> /\ phase' = "idle"
<1>1. EndJob /\ phase' = "idle" /\ UNCHANGED <<said, transcript>>
  BY DEF Fail
<1>2. transcript \in Seq(Message)
  BY DEF StateInvariant, TypeInvariant
<1> QED
  BY <1>1, <1>2, EndedState

\* So does a step that changes nothing.
LEMMA StutterKeepsState ==
    ASSUME StateInvariant, UNCHANGED vars
    PROVE  StateInvariant'
<1>1. UNCHANGED <<transcript, said, phase, source, plan, start, upto, summary>>
  BY DEF vars
<1>2. TypeInvariant'
  BY <1>1 DEF StateInvariant, TypeInvariant
<1>3. PlanInvariant'
  BY <1>1 DEF StateInvariant, PlanInvariant
<1> QED
  BY <1>2, <1>3 DEF StateInvariant

\* So does every step.
LEMMA StateStep == StateInvariant /\ [Next]_vars => StateInvariant'
<1> SUFFICES ASSUME StateInvariant, [Next]_vars PROVE StateInvariant'
  OBVIOUS
<1>1. ASSUME NEW letter \in Alphabet, Append1(letter) PROVE StateInvariant'
  BY <1>1, AppendKeepsState
<1>2. ASSUME NEW t \in TailTokens, NEW k \in KeepImages, Begin(t, k) PROVE StateInvariant'
  BY <1>2, BeginKeepsState
<1>3. ASSUME NEW size \in SummarySizes, Reply(size) PROVE StateInvariant'
  BY <1>3, ReplyKeepsState
<1>4. CASE Fail
  BY <1>4, FailKeepsState
<1>5. CASE UNCHANGED vars
  BY <1>5, StutterKeepsState
<1> QED
  BY <1>1, <1>2, <1>3, <1>4, <1>5 DEF Next

\* The state is well formed, and the plan is the one made for the projected transcript.
THEOREM CompactionTyped == Spec => []StateInvariant
<1> QED
  BY StateInit, StateStep, PTL DEF Spec

\* A chunk's request stays below the budget, the summary it builds on included: its
\* cost is the summary's and the chunk's, and a chunk ends where both fit.
THEOREM RequestsBounded == Spec => []RequestsFit
<1>1. StateInvariant => RequestsFit
  <2> SUFFICES ASSUME StateInvariant, phase = "chunks"
               PROVE  Overhead + CostOf(Request, 1, Len(Request)) < Budget
    BY DEF RequestsFit
  <2> DEFINE t == plan.input
  <2>1. /\ summary \in Seq(Message) /\ t \in Seq(Message) /\ start \in Nat /\ upto \in Nat
        /\ start <= upto /\ upto <= Len(t)
    BY DEF StateInvariant, TypeInvariant
  <2>2. upto \in ChunkEnds(t, start, summary)
    BY DEF StateInvariant, PlanInvariant
  <2> DEFINE a == CostOf(summary, 1, Len(summary))
             b == CostOf(t, start + 1, upto)
  <2>3. Overhead + a + b < Budget
    BY <2>2 DEF ChunkEnds
  <2> HIDE DEF t
  <2>4. CostOf(Request, 1, Len(Request)) = a + b
    <3>1. CostOf(summary \o SubSeq(t, start + 1, upto), 1, Len(summary \o SubSeq(t, start + 1, upto)))
            = a + b
      BY <2>1, RequestCost
    <3> QED
      BY <3>1 DEF Request, t
  <2>5. a \in Nat /\ b \in Nat
    <3>1. /\ Costs(summary) \in [0 .. Len(summary) -> Nat] /\ Costs(t) \in [0 .. Len(t) -> Nat]
      BY <2>1, Costing
    <3>2. /\ Len(summary) \in Nat /\ 1 - 1 = 0 /\ start + 1 - 1 = start
          /\ Len(summary) \in 0 .. Len(summary) /\ Len(t) \in Nat
      BY <2>1
    <3>3. /\ Costs(summary)[0] \in Nat /\ Costs(summary)[Len(summary)] \in Nat
          /\ Costs(summary)[0] <= Costs(summary)[Len(summary)]
      <4> DEFINE zero == 0
      <4>1. zero \in Nat /\ zero <= Len(summary)
        BY <3>2
      <4> HIDE DEF zero
      <4>2. Costs(summary)[zero] \in Nat /\ Costs(summary)[Len(summary)] \in Nat
            /\ Costs(summary)[zero] <= Costs(summary)[Len(summary)]
        BY <2>1, <3>2, <4>1, CostsGrow
      <4> QED
        BY <4>2 DEF zero
    <3>4. Costs(t)[start] \in Nat /\ Costs(t)[upto] \in Nat /\ Costs(t)[start] <= Costs(t)[upto]
      BY <2>1, CostsGrow
    <3>5. a \in Nat
      BY <3>2, <3>3 DEF CostOf
    <3>6. b = Costs(t)[upto] - Costs(t)[start]
      <4>1. b = Costs(t)[upto] - Costs(t)[(start + 1) - 1]
        BY DEF CostOf
      <4>2. (start + 1) - 1 = start
        BY <2>1
      <4> HIDE DEF b
      <4> QED
        BY <4>1, <4>2
    <3> HIDE DEF a, b
    <3>7. b \in Nat
      BY <3>4, <3>6
    <3> QED
      BY <3>5, <3>7
  <2> HIDE DEF a, b
  <2>6. Overhead \in Nat /\ Budget \in Int
    BY LimitAssumption DEF NoLimit
  <2> QED
    BY <2>3, <2>4, <2>5, <2>6
<1> QED
  BY <1>1, CompactionTyped, PTL

\* The pairs that CompactionResult lists name the same message before and after, and
\* name every message kept.
THEOREM IndicesRebased == Spec => RetainedIndicesAgree
<1>1. ASSUME StateInvariant, [Next]_vars, phase # "idle", transcript' # transcript
      PROVE  LET pairs == RetainedIndices(source, plan.kept)
             IN  /\ \A pair \in pairs :
                      /\ pair[2] \in DOMAIN transcript'
                      /\ transcript'[pair[2]] = source[pair[1]]
                 /\ Cardinality(pairs) = Len(transcript') - 1
  <2> DEFINE kept == plan.kept
             pairs == RetainedIndices(source, kept)
  <2>1. ~(\E letter \in Alphabet : Append1(letter))
    BY <1>1 DEF Append1
  <2>2. ~(\E t \in TailTokens, k \in KeepImages : Begin(t, k))
    BY <1>1 DEF Begin
  <2>3. ~Fail /\ ~(UNCHANGED vars)
    BY <1>1 DEF Fail, vars
  <2>4. PICK size \in SummarySizes : Reply(size)
    BY <1>1, <2>1, <2>2, <2>3 DEF Next
  <2>5. PICK text \in Message : transcript' = Splice(source, kept, text)
    BY <1>1, <2>4, ReplyKeepsState
  <2>6. source \in Seq(Message) /\ kept # DOMAIN source /\ kept \in SUBSET DOMAIN source
    <3>1. /\ source \in Seq(Message) /\ plan.limit \in Nat
          /\ plan.tail = SafeTailStart(source, TailByCost(source, plan.limit))
          /\ kept = Kept(source, plan.tail) /\ kept # DOMAIN source
      BY <1>1, LimitAssumption DEF StateInvariant, TypeInvariant, PlanInvariant
    <3>2. plan.tail \in 1 .. Len(source) + 1
      BY <3>1, TailRange
    <3> QED
      BY <3>1, <3>2, KeptType
  <2> HIDE DEF kept
  <2>7. pairs = {<<i, Place(source, kept, i)>> : i \in kept}
    BY DEF RetainedIndices, Place
  <2>8. /\ \A i \in kept : /\ Place(source, kept, i) \in DOMAIN transcript'
                           /\ transcript'[Place(source, kept, i)] = source[i]
        /\ Len(transcript') = Rank(kept, Len(source)) + 1
    BY <2>5, <2>6, SplicePlaces
  <2> HIDE DEF pairs
  <2>9. ASSUME NEW pair \in pairs
        PROVE  pair[2] \in DOMAIN transcript' /\ transcript'[pair[2]] = source[pair[1]]
    BY <2>7, <2>8
  <2>10. Cardinality(pairs) = Cardinality(kept)
    <3> DEFINE f == [i \in kept |-> <<i, Place(source, kept, i)>>]
    <3>1. IsFiniteSet(kept)
      <4>1. DOMAIN source = 1 .. Len(source)
        BY <2>6, LenProperties
      <4>2. IsFiniteSet(1 .. Len(source))
        BY FS_Interval
      <4> QED
        BY <2>6, <4>1, <4>2, FS_Subset
    <3>2. f \in Bijection(kept, pairs)
      <4>1. f \in Surjection(kept, pairs)
        BY <2>7 DEF Surjection
      <4>2. \A i, j \in kept : f[i] = f[j] => i = j
        OBVIOUS
      <4> QED
        BY <4>1, <4>2 DEF Bijection, Injection, Surjection, IsInjective
    <3>3. ExistsBijection(kept, pairs)
      <4> HIDE DEF f
      <4> QED
        BY <3>2 DEF ExistsBijection
    <3> QED
      BY <3>1, <3>3, FS_Bijection
  <2>11. Rank(kept, Len(source)) = Cardinality(kept)
    <3>1. kept \cap 1 .. Len(source) = kept
      BY <2>6, LenProperties
    <3> QED
      BY <3>1 DEF Rank
  <2>12. Cardinality(kept) \in Nat
    <3>1. Len(source) \in Nat
      BY <2>6
    <3> QED
      BY <2>11, <3>1, RankStep
  <2>13. Cardinality(pairs) = Len(transcript') - 1
    BY <2>8, <2>10, <2>11, <2>12
  <2> QED
    BY <2>9, <2>13 DEF pairs, kept
<1>2. StateInvariant /\ [Next]_vars =>
        [(phase # "idle" /\ transcript' # transcript) =>
          LET pairs == RetainedIndices(source, plan.kept)
          IN  /\ \A pair \in pairs :
                   /\ pair[2] \in DOMAIN transcript'
                   /\ transcript'[pair[2]] = source[pair[1]]
              /\ Cardinality(pairs) = Len(transcript') - 1]_vars
  BY <1>1
<1> QED
  BY <1>2, CompactionTyped, PTL DEF Spec, RetainedIndicesAgree

-----------------------------------------------------------------------------
(* What the transcript keeps of what was said.                             *)

\* Every message of msgs is a summary or one that was said, perhaps without image.
Faithful(msgs, hist) ==
    \A p \in DOMAIN msgs :
        /\ msgs[p].summary => msgs[p].kind = "assistant"
        /\ ~msgs[p].summary =>
             \E n \in DOMAIN hist : msgs[p].covers = {n} /\ Masked(hist[n], msgs[p])

\* OrderKept and LatestRequestVerbatim of any sequence of messages.
Replaces(m, hist) == {n \in m.covers : m.summary => hist[n].kind # "system"}

Ordered(msgs, hist) ==
    \A p, q \in DOMAIN msgs :
        p < q /\ ~msgs[p].summary
          => \A n \in msgs[p].covers, k \in Replaces(msgs[q], hist) : n < k

NoLater(hist, n, kind) == \A k \in DOMAIN hist : k > n => hist[k].kind # kind

Latest(hist, n) ==
    \/ hist[n].kind = "user" /\ NoLater(hist, n, "user")
    \/ /\ hist[n].kind = "steer" /\ NoLater(hist, n, "user")
       /\ \E k \in DOMAIN hist : k < n /\ hist[k].kind = "user"
    \/ hist[n].kind = "system" /\ NoLater(hist, n, "system")

Verbatim(msgs, hist) == \A n \in DOMAIN hist : Latest(hist, n) => hist[n] \in ToSet(msgs)

\* What was said tells of itself.
History(hist) ==
    /\ hist \in Seq(Message)
    /\ \A n \in DOMAIN hist : /\ hist[n].covers = {n} /\ ~hist[n].summary
                              /\ hist[n].image => hist[n].kind = "result"

Remembers(msgs, hist) ==
    /\ msgs \in Seq(Message) /\ Faithful(msgs, hist) /\ Ordered(msgs, hist)
    /\ Verbatim(msgs, hist) /\ Told(msgs) = DOMAIN hist

\* A projection changes nothing but the image.
LEMMA MaskedSame ==
    ASSUME NEW m \in Message, NEW p \in Message, Masked(m, p)
    PROVE  /\ p.kind = m.kind /\ p.summary = m.summary /\ p.covers = m.covers
           /\ ~m.image => p = m
           /\ \A q \in Message : Masked(p, q) => Masked(m, q)
<1>1. p = [m EXCEPT !.image = p.image] /\ (p.image => m.image)
      /\ p.image \in BOOLEAN /\ m.image \in BOOLEAN
  BY DEF Masked, Message
<1>2. p.kind = m.kind /\ p.summary = m.summary /\ p.covers = m.covers
  BY <1>1 DEF Message
<1>3. ~m.image => p = m
  <2>1. m = [m EXCEPT !.image = m.image]
    BY DEF Message
  <2> QED
    BY <1>1, <2>1
<1>4. ASSUME NEW q \in Message, Masked(p, q) PROVE Masked(m, q)
  <2>1. q = [p EXCEPT !.image = q.image] /\ (q.image => p.image)
    BY <1>4 DEF Masked
  <2>2. [p EXCEPT !.image = q.image] = [m EXCEPT !.image = q.image]
    <3>1. \A b : [[m EXCEPT !.image = p.image] EXCEPT !.image = b] = [m EXCEPT !.image = b]
      BY DEF Message
    <3> QED
      BY <1>1, <3>1
  <2> QED
    BY <1>1, <2>1, <2>2 DEF Masked
<1> QED
  BY <1>2, <1>3, <1>4

\* A later message that is no summary was said later.
LEMMA SaidLater ==
    ASSUME NEW hist, History(hist), NEW s, Remembers(s, hist),
           NEW i \in DOMAIN s, NEW n \in DOMAIN hist, s[i] = hist[n],
           NEW j \in DOMAIN s, i < j, ~s[j].summary
    PROVE  \E k \in DOMAIN hist : n < k /\ hist[k].kind = s[j].kind
<1>1. PICK k \in DOMAIN hist : s[j].covers = {k} /\ Masked(hist[k], s[j])
  BY DEF Remembers, Faithful
<1>2. n \in s[i].covers /\ ~s[i].summary
  BY DEF History
<1>3. k \in Replaces(s[j], hist)
  BY <1>1 DEF Replaces
<1>4. n < k
  BY <1>2, <1>3 DEF Remembers, Ordered
<1>5. hist[k] \in Message /\ s[j] \in Message
  BY LenProperties, ElementOfSeq DEF History, Remembers
<1>6. hist[k].kind = s[j].kind
  BY <1>1, <1>5, MaskedSame
<1> QED
  BY <1>4, <1>6

\* The messages that must stay verbatim are pinned.
LEMMA LatestPinned ==
    ASSUME NEW hist, History(hist), NEW s, Remembers(s, hist),
           NEW n \in DOMAIN hist, Latest(hist, n)
    PROVE  \E i \in Pinned(s) : s[i] = hist[n]
<1>1. \A j \in DOMAIN s : s[j].kind # "assistant" => ~s[j].summary
  BY DEF Remembers, Faithful
<1>2. ASSUME NEW m \in DOMAIN hist, Latest(hist, m)
      PROVE  \E i \in DOMAIN s : s[i] = hist[m]
  <2>1. hist[m] \in ToSet(s)
    BY <1>2 DEF Remembers, Verbatim
  <2> QED
    BY <2>1 DEF ToSet
<1>3. DOMAIN s = 1 .. Len(s) /\ Len(s) \in Nat /\ DOMAIN hist = 1 .. Len(hist) /\ Len(hist) \in Nat
  BY LenProperties DEF Remembers, History
<1>4. ASSUME NEW m \in DOMAIN hist, NEW kind \in {"user", "system"}, NoLater(hist, m, kind),
             NEW i \in DOMAIN s, s[i] = hist[m],
             NEW j \in DOMAIN s, j > i
      PROVE  s[j].kind # kind
  <2>1. SUFFICES ASSUME s[j].kind = kind PROVE FALSE
    OBVIOUS
  <2>2. ~s[j].summary /\ i < j
    BY <1>1, <1>3, <1>4, <2>1
  <2>3. PICK k \in DOMAIN hist : m < k /\ hist[k].kind = s[j].kind
    BY <1>4, <2>2, SaidLater
  <2> QED
    BY <1>3, <1>4, <2>1, <2>3 DEF NoLater
<1>5. ASSUME NEW m \in DOMAIN hist, hist[m].kind = "user", NoLater(hist, m, "user")
      PROVE  \E i \in LatestUser(s) : s[i] = hist[m]
  <2>1. PICK i \in DOMAIN s : s[i] = hist[m]
    BY <1>2, <1>5 DEF Latest
  <2>2. \A j \in DOMAIN s : j > i => s[j].kind # "user"
    BY <1>4, <1>5, <2>1
  <2>3. i \in LatestUser(s)
    BY <1>5, <2>1, <2>2 DEF LatestUser
  <2> QED
    BY <2>1, <2>3
<1>6. CASE hist[n].kind = "user" /\ NoLater(hist, n, "user")
  BY <1>5, <1>6 DEF Pinned
<1>7. CASE hist[n].kind = "system" /\ NoLater(hist, n, "system")
  <2>1. PICK i \in DOMAIN s : s[i] = hist[n]
    BY <1>2
  <2>2. \A j \in DOMAIN s : j > i => s[j].kind # "system"
    BY <1>4, <1>7, <2>1
  <2>3. i \in LatestSystem(s)
    BY <1>7, <2>1, <2>2 DEF LatestSystem
  <2> QED
    BY <2>1, <2>3 DEF Pinned
<1>8. CASE /\ hist[n].kind = "steer" /\ NoLater(hist, n, "user")
           /\ \E k \in DOMAIN hist : k < n /\ hist[k].kind = "user"
  <2> DEFINE U == {k \in DOMAIN hist : hist[k].kind = "user"}
  <2>1. U \in SUBSET (0 .. Len(hist)) /\ U # {}
    BY <1>3, <1>8
  <2>2. Max(U) \in U /\ \A k \in U : Max(U) >= k
    <3> HIDE DEF U
    <3> QED
      BY <1>3, <2>1, MaxOfBounded
  <2>3. PICK u \in U : \A k \in U : u >= k
    BY <2>2
  <2>4. u \in DOMAIN hist /\ hist[u].kind = "user" /\ NoLater(hist, u, "user")
    BY <1>3, <2>3 DEF NoLater
  <2>5. PICK iu \in LatestUser(s) : s[iu] = hist[u]
    BY <1>5, <2>4
  <2>6. PICK i \in DOMAIN s : s[i] = hist[n]
    BY <1>2
  <2>7. iu \in DOMAIN s /\ s[iu].kind = "user" /\ s[i].kind = "steer"
    BY <1>8, <2>4, <2>5, <2>6 DEF LatestUser
  <2>8. ~(iu > i)
    BY <1>4, <1>8, <2>6, <2>7
  <2>9. iu < i
    <3>1. iu # i
      BY <2>7
    <3> QED
      BY <1>3, <2>6, <2>7, <2>8, <3>1
  <2>10. i \in Pinned(s)
    BY <2>5, <2>6, <2>7, <2>9 DEF Pinned
  <2> QED
    BY <2>6, <2>10
<1> QED
  BY <1>6, <1>7, <1>8 DEF Latest

\* What is remembered is remembered by the projection.
LEMMA ProjectionRemembers ==
    ASSUME NEW hist, History(hist), NEW s, Remembers(s, hist),
           NEW r \in Seq(Message), MaskedSequence(s, r)
    PROVE  Remembers(r, hist)
<1>1. DOMAIN s = 1 .. Len(s) /\ DOMAIN r = DOMAIN s /\ \A i \in DOMAIN s : Masked(s[i], r[i])
  BY LenProperties DEF Remembers, MaskedSequence
<1>2. \A i \in DOMAIN s : s[i] \in Message /\ r[i] \in Message
  <2>1. DOMAIN r = 1 .. Len(r) /\ s \in Seq(Message)
    BY LenProperties DEF Remembers
  <2> QED
    BY <1>1, <2>1, ElementOfSeq
<1>3. ASSUME NEW i \in DOMAIN s
      PROVE  /\ r[i].kind = s[i].kind /\ r[i].summary = s[i].summary
             /\ r[i].covers = s[i].covers
             /\ ~s[i].image => r[i] = s[i]
  BY <1>1, <1>2, MaskedSame
<1>4. Faithful(r, hist)
  <2>1. ASSUME NEW i \in DOMAIN r, ~r[i].summary
        PROVE  \E n \in DOMAIN hist : r[i].covers = {n} /\ Masked(hist[n], r[i])
    <3>1. PICK n \in DOMAIN hist : s[i].covers = {n} /\ Masked(hist[n], s[i])
      BY <1>1, <1>3, <2>1 DEF Remembers, Faithful
    <3>2. hist[n] \in Message /\ s[i] \in Message /\ r[i] \in Message /\ Masked(s[i], r[i])
      BY <1>1, <1>2, LenProperties, ElementOfSeq DEF History
    <3>3. Masked(hist[n], r[i])
      BY <3>1, <3>2, MaskedSame
    <3> QED
      BY <1>1, <1>3, <3>1, <3>3
  <2>2. \A i \in DOMAIN r : r[i].summary => r[i].kind = "assistant"
    BY <1>1, <1>3 DEF Remembers, Faithful
  <2> QED
    BY <2>1, <2>2 DEF Faithful
<1>5. Ordered(r, hist)
  <2>1. \A i \in DOMAIN s : Replaces(r[i], hist) = Replaces(s[i], hist)
    BY <1>3 DEF Replaces
  <2> QED
    BY <1>1, <1>3, <2>1 DEF Ordered, Remembers
<1>6. Verbatim(r, hist)
  <2>1. SUFFICES ASSUME NEW n \in DOMAIN hist, Latest(hist, n) PROVE hist[n] \in ToSet(r)
    BY DEF Verbatim
  <2>2. PICK i \in DOMAIN s : s[i] = hist[n]
    BY <2>1 DEF Remembers, Verbatim, ToSet
  <2>3. ~hist[n].image
    BY <2>1 DEF Latest, History
  <2>4. r[i] = hist[n]
    BY <1>3, <2>2, <2>3
  <2> QED
    BY <1>1, <2>4 DEF ToSet
<1>7. Told(r) = DOMAIN hist
  <2>1. \A c : c \in Told(r) <=> \E i \in DOMAIN r : c \in r[i].covers
    BY DEF Told, ToSet
  <2>2. \A c : c \in Told(s) <=> \E i \in DOMAIN s : c \in s[i].covers
    BY DEF Told, ToSet
  <2>3. \A c : c \in Told(r) <=> c \in Told(s)
    BY <1>1, <1>3, <2>1, <2>2
  <2>4. Told(r) = Told(s)
    BY <2>3
  <2> QED
    BY <2>4 DEF Remembers
<1> QED
  BY <1>4, <1>5, <1>6, <1>7 DEF Remembers

\* What is remembered is remembered by the splice, whose summary tells of what the
\* summarizer was shown.
LEMMA SpliceRemembers ==
    ASSUME NEW hist, History(hist), NEW s, Remembers(s, hist),
           NEW tail \in 1 .. Len(s) + 1, NEW kept, kept = Kept(s, tail), kept # DOMAIN s,
           NEW text \in Message, text.summary, text.kind = "assistant",
           text.covers = Told(SummarizerMessages(s, tail, kept))
    PROVE  Remembers(Splice(s, kept, text), hist)
<1> DEFINE r == Splice(s, kept, text)
           first == FirstDropped(s, kept)
           input == SummarizerMessages(s, tail, kept)
<1>1. s \in Seq(Message) /\ DOMAIN s = 1 .. Len(s) /\ Len(s) \in Nat
  BY LenProperties DEF Remembers
<1>2. kept \in SUBSET DOMAIN s
  BY <1>1, KeptType
<1>3. /\ r \in Seq(Message) /\ first \in DOMAIN r /\ r[first] = text
      /\ \A i \in kept : Place(s, kept, i) \in DOMAIN r /\ r[Place(s, kept, i)] = s[i]
      /\ \A n \in DOMAIN r : n = first \/ \E i \in kept : n = Place(s, kept, i)
  <2>1. /\ r \in Seq(Message) /\ Len(r) = Rank(kept, Len(s)) + 1
        /\ first \in DOMAIN r /\ r[first] = text
        /\ \A i \in kept : /\ Place(s, kept, i) \in DOMAIN r
                           /\ r[Place(s, kept, i)] = s[i]
        /\ \A n \in DOMAIN r : n = first \/ \E i \in kept : n = Place(s, kept, i)
    BY <1>1, <1>2, SplicePlaces
  <2> QED
    BY <2>1
<1>4. /\ first \in DOMAIN s \ kept /\ \A j \in DOMAIN s \ kept : first <= j
      /\ \A i \in kept : /\ i < first => Place(s, kept, i) = i
                         /\ first < i => first < Place(s, kept, i)
      /\ \A i, j \in kept : i < j => Place(s, kept, i) < Place(s, kept, j)
  BY <1>1, <1>2, PlacesOrdered
<1>5. ToSet(input) = {s[i] : i \in (DOMAIN s \ kept) \cup LatestSystem(s)}
  <2>1. tail .. Len(s) \subseteq kept
    BY DEF Kept
  <2> QED
    BY <1>1, <2>1, InputElements
<1>6. \A c : c \in text.covers
               <=> \E j \in (DOMAIN s \ kept) \cup LatestSystem(s) : c \in s[j].covers
  <2>1. \A c : c \in text.covers <=> \E m \in ToSet(input) : c \in m.covers
    BY ToldByElements
  <2> HIDE DEF input
  <2> QED
    BY <1>5, <2>1
<1>7. \A i \in kept : Place(s, kept, i) \in DOMAIN r /\ i \in DOMAIN s
  BY <1>2, <1>3
<1>8. DOMAIN r \subseteq Nat
  BY <1>3, LenProperties
<1> HIDE DEF r, first, input
<1>9. Faithful(r, hist)
  <2>1. ASSUME NEW p \in DOMAIN r
        PROVE  /\ r[p].summary => r[p].kind = "assistant"
               /\ ~r[p].summary =>
                    \E n \in DOMAIN hist : r[p].covers = {n} /\ Masked(hist[n], r[p])
    <3>1. r[p] = text \/ \E i \in DOMAIN s : r[p] = s[i]
      BY <1>3, <1>7
    <3> QED
      BY <3>1 DEF Remembers, Faithful
  <2> QED
    BY <2>1 DEF Faithful
<1>10. Ordered(r, hist)
  <2>1. SUFFICES ASSUME NEW p \in DOMAIN r, NEW q \in DOMAIN r, p < q, ~r[p].summary,
                        NEW n \in r[p].covers, NEW k \in Replaces(r[q], hist)
                 PROVE  n < k
    BY DEF Ordered
  <2>2. PICK i \in kept : p = Place(s, kept, i)
    BY <1>3, <2>1
  <2>3. i \in DOMAIN s /\ i \in Nat /\ ~s[i].summary /\ n \in s[i].covers
    BY <1>1, <1>3, <1>7, <2>1, <2>2
  <2>4. ASSUME NEW j \in DOMAIN s, i < j, k \in Replaces(s[j], hist) PROVE n < k
    BY <2>3, <2>4 DEF Remembers, Ordered
  <2>5. CASE q = first
    <3>1. i < first
      <4>1. i # first
        BY <1>4
      <4>2. ~(first < i)
        BY <1>4, <1>8, <2>1, <2>2, <2>5
      <4> QED
        BY <1>1, <1>4, <2>3, <4>1, <4>2
    <3>2. k \in text.covers /\ hist[k].kind # "system"
      BY <1>3, <2>1, <2>5 DEF Replaces
    <3>3. PICK j \in (DOMAIN s \ kept) \cup LatestSystem(s) : k \in s[j].covers
      BY <1>6, <3>2
    <3>4. CASE j \in DOMAIN s \ kept
      <4>1. i < j
        BY <1>1, <1>4, <2>3, <3>1, <3>4
      <4>2. k \in Replaces(s[j], hist)
        BY <3>2, <3>3 DEF Replaces
      <4> QED
        BY <2>4, <3>4, <4>1, <4>2
    <3>5. CASE j \in LatestSystem(s)
      <4>1. j \in DOMAIN s /\ s[j].kind = "system"
        BY <3>5 DEF LatestSystem
      <4>2. ~s[j].summary
        BY <4>1 DEF Remembers, Faithful
      <4>3. PICK m \in DOMAIN hist : s[j].covers = {m} /\ Masked(hist[m], s[j])
        BY <4>1, <4>2 DEF Remembers, Faithful
      <4>4. hist[m] \in Message /\ s[j] \in Message
        BY <1>1, <4>1, LenProperties, ElementOfSeq DEF History
      <4>5. hist[m].kind = "system"
        BY <4>1, <4>3, <4>4, MaskedSame
      <4> QED
        BY <3>2, <3>3, <4>3, <4>5
    <3> QED
      BY <3>3, <3>4, <3>5
  <2>6. CASE q # first
    <3>1. PICK j \in kept : q = Place(s, kept, j)
      BY <1>3, <2>6
    <3>2. j \in DOMAIN s /\ j \in Nat /\ r[q] = s[j]
      BY <1>1, <1>3, <1>7, <3>1
    <3>3. i < j
      <4>1. ~(j < i) /\ i # j
        BY <1>4, <1>8, <2>1, <2>2, <3>1
      <4> QED
        BY <2>3, <3>2, <4>1
    <3> QED
      BY <2>1, <2>4, <3>2, <3>3
  <2> QED
    BY <2>5, <2>6
<1>11. Verbatim(r, hist)
  <2>1. SUFFICES ASSUME NEW n \in DOMAIN hist, Latest(hist, n) PROVE hist[n] \in ToSet(r)
    BY DEF Verbatim
  <2>2. PICK i \in Pinned(s) : s[i] = hist[n]
    BY <2>1, LatestPinned
  <2>3. i \in kept
    BY DEF Kept
  <2> QED
    BY <1>3, <2>2, <2>3 DEF ToSet
<1>12. Told(r) = DOMAIN hist
  <2>1. \A c : c \in Told(r) <=> \E p \in DOMAIN r : c \in r[p].covers
    BY DEF Told, ToSet
  <2>2. \A c : c \in Told(s) <=> \E i \in DOMAIN s : c \in s[i].covers
    BY DEF Told, ToSet
  <2>3. ASSUME NEW c, c \in Told(r) PROVE c \in Told(s)
    <3>1. PICK p \in DOMAIN r : c \in r[p].covers
      BY <2>1, <2>3
    <3>2. CASE p = first
      <4>1. PICK j \in (DOMAIN s \ kept) \cup LatestSystem(s) : c \in s[j].covers
        BY <1>3, <1>6, <3>1, <3>2
      <4>2. j \in DOMAIN s
        BY DEF LatestSystem
      <4> QED
        BY <2>2, <4>1, <4>2
    <3>3. CASE p # first
      BY <1>3, <1>7, <2>2, <3>1, <3>3
    <3> QED
      BY <3>2, <3>3
  <2>4. ASSUME NEW c, c \in Told(s) PROVE c \in Told(r)
    <3>1. PICK i \in DOMAIN s : c \in s[i].covers
      BY <2>2, <2>4
    <3>2. CASE i \in kept
      BY <1>3, <2>1, <3>1, <3>2
    <3>3. CASE i \notin kept
      BY <1>3, <1>6, <2>1, <3>1, <3>3
    <3> QED
      BY <3>2, <3>3
  <2>5. Told(r) = Told(s)
    BY <2>3, <2>4
  <2> QED
    BY <2>5 DEF Remembers
<1> QED
  BY <1>3, <1>9, <1>10, <1>11, <1>12 DEF Remembers, r

\* What is remembered of what was said is remembered with one message more.
LEMMA AppendRemembers ==
    ASSUME NEW hist, History(hist), NEW s, Remembers(s, hist),
           NEW msg \in Message, ~msg.summary, msg.covers = {Len(hist) + 1},
           msg.image => msg.kind = "result"
    PROVE  History(Append(hist, msg)) /\ Remembers(Append(s, msg), Append(hist, msg))
<1> DEFINE h == Append(hist, msg)
           r == Append(s, msg)
           n == Len(hist) + 1
           e == Len(s) + 1
<1>1. /\ s \in Seq(Message) /\ DOMAIN s = 1 .. Len(s) /\ Len(s) \in Nat
      /\ hist \in Seq(Message) /\ DOMAIN hist = 1 .. Len(hist) /\ Len(hist) \in Nat
  BY LenProperties DEF Remembers, History
<1>2. /\ r \in Seq(Message) /\ Len(r) = Len(s) + 1 /\ r[e] = msg
      /\ \A i \in 1 .. Len(s) : r[i] = s[i]
  BY <1>1, AppendProperties
<1>3. /\ h \in Seq(Message) /\ Len(h) = Len(hist) + 1 /\ h[n] = msg
      /\ \A i \in 1 .. Len(hist) : h[i] = hist[i]
  BY <1>1, AppendProperties
<1> HIDE DEF h, r
<1>4. DOMAIN r = DOMAIN s \cup {e} /\ DOMAIN h = DOMAIN hist \cup {n}
      /\ e \in Nat /\ n \in Nat
  <2>1. DOMAIN r = 1 .. Len(r) /\ DOMAIN h = 1 .. Len(h)
    BY <1>2, <1>3, LenProperties
  <2> QED
    BY <1>1, <1>2, <1>3, <2>1
<1>5. (\A i \in DOMAIN s : r[i] = s[i] /\ i # e) /\ (\A i \in DOMAIN hist : h[i] = hist[i] /\ i # n)
  BY <1>1, <1>2, <1>3, <1>4
<1>6. \A i \in DOMAIN s : i \in Nat /\ i < e
  BY <1>1
<1>7. \A i \in DOMAIN hist : i \in Nat /\ i < n
  BY <1>1
<1>8. r[e] = msg /\ h[n] = msg /\ msg.covers = {n} /\ n \notin DOMAIN hist /\ e \notin DOMAIN s
  BY <1>2, <1>3, <1>6, <1>7
<1> HIDE DEF n, e
<1>9. History(h)
  BY <1>3, <1>4, <1>5, <1>8 DEF History
<1>10. \A i \in DOMAIN s : s[i].covers \subseteq DOMAIN hist
  BY DEF Remembers, Told, ToSet
<1>11. Faithful(r, h)
  <2>1. ASSUME NEW p \in DOMAIN r
        PROVE  /\ r[p].summary => r[p].kind = "assistant"
               /\ ~r[p].summary =>
                    \E k \in DOMAIN h : r[p].covers = {k} /\ Masked(h[k], r[p])
    <3>1. CASE p \in DOMAIN s
      <4>1. /\ s[p].summary => s[p].kind = "assistant"
            /\ ~s[p].summary =>
                 \E k \in DOMAIN hist : s[p].covers = {k} /\ Masked(hist[k], s[p])
        BY <3>1 DEF Remembers, Faithful
      <4> QED
        BY <1>4, <1>5, <3>1, <4>1
    <3>2. CASE p = e
      <4>1. Masked(msg, msg)
        BY DEF Masked, Message
      <4> QED
        BY <1>4, <1>8, <3>2, <4>1
    <3> QED
      BY <1>4, <3>1, <3>2
  <2> QED
    BY <2>1 DEF Faithful
<1>12. Ordered(r, h)
  <2>1. SUFFICES ASSUME NEW p \in DOMAIN r, NEW q \in DOMAIN r, p < q, ~r[p].summary,
                        NEW a \in r[p].covers, NEW k \in Replaces(r[q], h)
                 PROVE  a < k
    BY DEF Ordered
  <2>2. p \in DOMAIN s
    <3>1. p # e
      <4>1. SUFFICES ASSUME p = e PROVE FALSE
        OBVIOUS
      <4>2. q = e \/ q < e
        BY <1>4, <1>6
      <4>3. e \in Nat /\ q \in Nat
        BY <1>4, <1>6
      <4> QED
        BY <2>1, <4>1, <4>2, <4>3
    <3> QED
      BY <1>4, <3>1
  <2>3. r[p] = s[p] /\ a \in DOMAIN hist
    BY <1>5, <1>10, <2>1, <2>2
  <2>4. CASE q = e
    <3>1. k = n
      BY <1>8, <2>1, <2>4 DEF Replaces
    <3> QED
      BY <1>7, <2>3, <3>1
  <2>5. CASE q \in DOMAIN s
    <3>1. r[q] = s[q] /\ k \in s[q].covers /\ k \in DOMAIN hist
      BY <1>5, <1>10, <2>1, <2>5 DEF Replaces
    <3>2. h[k] = hist[k]
      BY <1>5, <3>1
    <3>3. k \in Replaces(s[q], hist)
      BY <2>1, <3>1, <3>2 DEF Replaces
    <3> QED
      BY <2>1, <2>2, <2>3, <2>5, <3>3 DEF Remembers, Ordered
  <2> QED
    BY <1>4, <2>4, <2>5
<1>13. Verbatim(r, h)
  <2>1. SUFFICES ASSUME NEW k \in DOMAIN h, Latest(h, k) PROVE h[k] \in ToSet(r)
    BY DEF Verbatim
  <2>2. CASE k = n
    BY <1>4, <1>8, <2>2 DEF ToSet
  <2>3. CASE k \in DOMAIN hist
    <3>1. \A kind : NoLater(h, k, kind) => NoLater(hist, k, kind)
      BY <1>4, <1>5 DEF NoLater
    <3>2. ASSUME NEW j \in DOMAIN h, j < k PROVE j \in DOMAIN hist
      BY <1>4, <1>7, <2>3, <3>2
    <3>3. Latest(hist, k)
      BY <1>5, <2>1, <2>3, <3>1, <3>2 DEF Latest
    <3>4. hist[k] \in ToSet(s)
      BY <2>3, <3>3 DEF Remembers, Verbatim
    <3>5. PICK i \in DOMAIN s : s[i] = hist[k]
      BY <3>4 DEF ToSet
    <3>6. i \in DOMAIN r /\ r[i] = h[k]
      BY <1>4, <1>5, <2>3, <3>5
    <3> QED
      BY <3>6 DEF ToSet
  <2> QED
    BY <1>4, <2>2, <2>3
<1>14. Told(r) = DOMAIN h
  <2>1. \A c : c \in Told(r) <=> \E p \in DOMAIN r : c \in r[p].covers
    BY DEF Told, ToSet
  <2>2. \A c : c \in DOMAIN hist <=> \E i \in DOMAIN s : c \in s[i].covers
    BY DEF Remembers, Told, ToSet
  <2>3. \A c : c \in Told(r) <=> c \in DOMAIN hist \/ c = n
    BY <1>4, <1>5, <1>8, <2>1, <2>2
  <2> QED
    BY <1>4, <2>3
<1> QED
  BY <1>2, <1>9, <1>11, <1>12, <1>13, <1>14 DEF Remembers, h, r

-----------------------------------------------------------------------------
(* What the summary tells of.                                              *)

\* A concatenation tells of what its parts tell of.
LEMMA ToldByBoth ==
    ASSUME NEW s \in Seq(Message), NEW t \in Seq(Message)
    PROVE  Told(s \o t) = Told(s) \cup Told(t)
<1>1. ToSet(s \o t) = ToSet(s) \cup ToSet(t)
  BY ElementsOfConcat
<1> DEFINE r == s \o t
<1>2. ToSet(r) = ToSet(s) \cup ToSet(t)
  BY <1>1
<1> HIDE DEF r
<1>3. Told(r) = Told(s) \cup Told(t)
  BY <1>2 DEF Told
<1> QED
  BY <1>3 DEF r

\* The first messages tell of what two consecutive parts of them tell of.
LEMMA ToldByParts ==
    ASSUME NEW t \in Seq(Message), NEW a \in Nat, NEW b \in Nat, a <= b, b <= Len(t)
    PROVE  /\ Told(SubSeq(t, 1, b)) = Told(SubSeq(t, 1, a)) \cup Told(SubSeq(t, a + 1, b))
           /\ SubSeq(t, a + 1, b) \in Seq(Message)
           /\ Told(SubSeq(t, 1, Len(t))) = Told(t)
<1>0. Len(t) \in Nat /\ DOMAIN t = 1 .. Len(t)
  BY LenProperties
<1>1. ASSUME NEW m \in Nat, m >= 1, NEW n \in Nat, n <= Len(t)
      PROVE  Told(SubSeq(t, m, n)) = UNION {t[i].covers : i \in m .. n}
             /\ SubSeq(t, m, n) \in Seq(Message)
  <2> DEFINE u == SubSeq(t, m, n)
  <2>1. u \in Seq(Message) /\ ToSet(u) = {t[i] : i \in m .. n}
    BY <1>1, ElementsOfPart
  <2> HIDE DEF u
  <2>2. Told(u) = UNION {t[i].covers : i \in m .. n}
    BY <2>1 DEF Told
  <2> QED
    BY <2>1, <2>2 DEF u
<1>2. a + 1 \in Nat /\ a + 1 >= 1 /\ a <= Len(t)
  BY <1>0
<1>3. /\ Told(SubSeq(t, 1, b)) = UNION {t[i].covers : i \in 1 .. b}
      /\ Told(SubSeq(t, 1, a)) = UNION {t[i].covers : i \in 1 .. a}
      /\ Told(SubSeq(t, 1, Len(t))) = UNION {t[i].covers : i \in 1 .. Len(t)}
  <2> DEFINE one == 1
  <2>1. one \in Nat /\ one >= 1
    OBVIOUS
  <2> HIDE DEF one
  <2>2. /\ Told(SubSeq(t, one, b)) = UNION {t[i].covers : i \in one .. b}
        /\ Told(SubSeq(t, one, a)) = UNION {t[i].covers : i \in one .. a}
        /\ Told(SubSeq(t, one, Len(t))) = UNION {t[i].covers : i \in one .. Len(t)}
    BY <1>0, <1>1, <1>2, <2>1
  <2> QED
    BY <2>2 DEF one
<1>4. Told(SubSeq(t, a + 1, b)) = UNION {t[i].covers : i \in a + 1 .. b}
      /\ SubSeq(t, a + 1, b) \in Seq(Message)
  <2> DEFINE m == a + 1
  <2>1. m \in Nat /\ m >= 1
    BY <1>2
  <2> HIDE DEF m
  <2>2. Told(SubSeq(t, m, b)) = UNION {t[i].covers : i \in m .. b}
        /\ SubSeq(t, m, b) \in Seq(Message)
    BY <1>1, <2>1
  <2> QED
    BY <2>2 DEF m
<1>5. 1 .. b = 1 .. a \cup a + 1 .. b
  OBVIOUS
<1>6. Told(t) = UNION {t[i].covers : i \in 1 .. Len(t)}
  BY <1>0 DEF Told, ToSet
<1> QED
  BY <1>3, <1>4, <1>5, <1>6

-----------------------------------------------------------------------------
(* The inductive invariant: what the transcript remembers, and what the    *)
(* summary so far tells of.                                                *)

MemoryInvariant ==
    /\ StateInvariant /\ History(said) /\ Remembers(transcript, said)
    /\ phase # "idle" => Told(summary) = Told(SubSeq(plan.input, 1, start))

\* An empty transcript remembers all that was said, which is nothing.
LEMMA MemoryInit == Init => MemoryInvariant
<1> SUFFICES ASSUME Init PROVE MemoryInvariant
  OBVIOUS
<1>1. StateInvariant
  BY StateInit
<1>2. transcript = <<>> /\ said = <<>> /\ phase = "idle"
  BY DEF Init
<1>3. <<>> \in Seq(Message) /\ DOMAIN <<>> = {}
  BY EmptySeq
<1>4. History(said)
  BY <1>2, <1>3 DEF History
<1>5. Told(transcript) = {}
  BY <1>2, <1>3 DEF Told, ToSet
<1>6. Remembers(transcript, said)
  BY <1>2, <1>3, <1>5 DEF Remembers, Faithful, Ordered, Verbatim
<1> QED
  BY <1>1, <1>2, <1>4, <1>6 DEF MemoryInvariant

\* The beginning of a compaction forgets nothing: only images go.
LEMMA BeginRemembers ==
    ASSUME MemoryInvariant, NEW t \in TailTokens, NEW k \in KeepImages, Begin(t, k)
    PROVE  MemoryInvariant'
<1>1. StateInvariant
  BY DEF MemoryInvariant
<1>2. /\ StateInvariant' /\ said' = said
      /\ \/ transcript' = Projected(transcript, k) /\ phase' = "idle"
         \/ transcript' = transcript /\ start' = 0 /\ summary' = <<>>
  BY <1>1, BeginKeepsState
<1>3. History(said) /\ Remembers(transcript, said) /\ transcript \in Seq(Message)
  BY DEF MemoryInvariant, Remembers
<1>4. CASE transcript' = Projected(transcript, k) /\ phase' = "idle"
  <2> DEFINE r == Projected(transcript, k)
  <2>1. r \in Seq(Message) /\ MaskedSequence(transcript, r)
    BY <1>3, ProjectedMasks
  <2> HIDE DEF r
  <2>2. Remembers(r, said)
    BY <1>3, <2>1, ProjectionRemembers
  <2>3. Remembers(transcript', said') /\ History(said')
    BY <1>2, <1>3, <1>4, <2>2 DEF r
  <2> QED
    BY <1>2, <1>4, <2>3 DEF MemoryInvariant
<1>5. CASE transcript' = transcript /\ start' = 0 /\ summary' = <<>>
  <2> DEFINE input == plan'.input
             one == 1
             zero == 0
  <2>1. /\ one \in Nat /\ one >= 1 /\ zero \in Nat /\ zero <= Len(input)
        /\ input \in Seq(Message) /\ one .. zero = {}
    BY <1>2, <1>5 DEF StateInvariant, TypeInvariant
  <2> HIDE DEF input, one, zero
  <2>2. ToSet(SubSeq(input, one, zero)) = {input[i] : i \in one .. zero}
    BY <2>1, ElementsOfPart
  <2>3. Told(SubSeq(input, one, zero)) = {}
    <3> DEFINE u == SubSeq(input, one, zero)
    <3>1. ToSet(u) = {}
      BY <2>1, <2>2
    <3> HIDE DEF u
    <3>2. Told(u) = {}
      BY <3>1 DEF Told
    <3> QED
      BY <3>2 DEF u
  <2>4. Told(<<>>) = {}
    BY DEF Told, ToSet
  <2>5. Told(summary') = Told(SubSeq(plan'.input, 1, start'))
    BY <1>5, <2>3, <2>4 DEF input, one, zero
  <2>6. Told(summary)' = Told(summary') /\ Told(SubSeq(plan.input, 1, start))' = Told(SubSeq(plan'.input, 1, start'))
    BY DEF Told
  <2> QED
    BY <1>2, <1>3, <1>5, <2>5, <2>6 DEF MemoryInvariant
<1> QED
  BY <1>2, <1>4, <1>5

\* Nor does an answer: the summary tells of what its request showed.
LEMMA ReplyRemembers ==
    ASSUME MemoryInvariant, NEW size \in SummarySizes, Reply(size)
    PROVE  MemoryInvariant'
<1> DEFINE text == SummaryOf(Request, size)
           input == plan.input
           kept == plan.kept
<1>1. StateInvariant /\ History(said) /\ Remembers(transcript, said)
  BY DEF MemoryInvariant
<1>2. /\ StateInvariant' /\ said' = said /\ phase # "idle" /\ text \in Message
      /\ \/ /\ upto = Len(input) /\ phase' = "idle"
            /\ transcript' = Splice(source, kept, text)
         \/ /\ summary' = <<text>> /\ start' = upto
            /\ transcript' = transcript /\ plan' = plan
  BY <1>1, ReplyKeepsState
<1>3. /\ input \in Seq(Message) /\ summary \in Seq(Message) /\ source \in Seq(Message)
      /\ start \in Nat /\ upto \in Nat /\ start <= upto /\ upto <= Len(input)
  BY <1>1 DEF StateInvariant, TypeInvariant
<1>4. text.covers = Told(Request) /\ text.summary /\ text.kind = "assistant"
  BY DEF SummaryOf
<1>5. Told(Request) = Told(SubSeq(input, 1, upto))
  <2> DEFINE u == SubSeq(input, start + 1, upto)
  <2>1. Told(summary) = Told(SubSeq(input, 1, start))
    BY <1>2 DEF MemoryInvariant
  <2>2. /\ Told(SubSeq(input, 1, upto)) = Told(SubSeq(input, 1, start)) \cup Told(u)
        /\ u \in Seq(Message)
    <3> HIDE DEF input
    <3> QED
      BY <1>3, ToldByParts
  <2>3. Request = summary \o u
    BY DEF Request
  <2> HIDE DEF u, input
  <2>4. Told(summary \o u) = Told(summary) \cup Told(u)
    BY <1>3, <2>2, ToldByBoth
  <2> QED
    BY <2>1, <2>2, <2>3, <2>4
<1> HIDE DEF text
<1>6. CASE upto = Len(input) /\ phase' = "idle" /\ transcript' = Splice(source, kept, text)
  <2>1. /\ kept = Kept(source, plan.tail) /\ kept # DOMAIN source
        /\ input = SummarizerMessages(source, plan.tail, kept)
        /\ plan.tail = SafeTailStart(source, TailByCost(source, plan.limit))
        /\ plan.limit \in Nat /\ MaskedSequence(transcript, source)
    BY <1>1, <1>2, LimitAssumption DEF StateInvariant, PlanInvariant
  <2>2. plan.tail \in 1 .. Len(source) + 1
    BY <1>3, <2>1, TailRange
  <2>3. Remembers(source, said)
    BY <1>1, <1>3, <2>1, ProjectionRemembers
  <2>4. text.covers = Told(input)
    <3>1. Told(SubSeq(input, 1, Len(input))) = Told(input)
      <4> HIDE DEF input
      <4> QED
        BY <1>3, ToldByParts
    <3> QED
      BY <1>4, <1>5, <1>6, <3>1
  <2>5. text.covers = Told(SummarizerMessages(source, plan.tail, kept))
    BY <2>1, <2>4
  <2> DEFINE tail == plan.tail
  <2>6. /\ tail \in 1 .. Len(source) + 1 /\ kept = Kept(source, tail) /\ kept # DOMAIN source
        /\ text.covers = Told(SummarizerMessages(source, tail, kept))
    BY <2>1, <2>2, <2>5
  <2> HIDE DEF tail, kept, input
  <2>7. Remembers(Splice(source, kept, text), said)
    BY <1>1, <1>2, <1>4, <2>3, <2>6, SpliceRemembers
  <2>8. History(said') /\ Remembers(transcript', said')
    BY <1>1, <1>2, <1>6, <2>7
  <2> QED
    BY <1>2, <1>6, <2>8 DEF MemoryInvariant
<1>7. CASE summary' = <<text>> /\ start' = upto /\ transcript' = transcript /\ plan' = plan
  <2>1. Told(<<text>>) = text.covers
    <3> DEFINE one == <<text>>
    <3>1. ToSet(one) = {text}
      BY <1>2, ElementsOfOne
    <3> HIDE DEF one
    <3>2. Told(one) = text.covers
      BY <3>1 DEF Told
    <3> QED
      BY <3>2 DEF one
  <2>2. Told(summary') = Told(SubSeq(plan'.input, 1, start'))
    BY <1>4, <1>5, <1>7, <2>1
  <2>3. Told(summary)' = Told(summary') /\ Told(SubSeq(plan.input, 1, start))' = Told(SubSeq(plan'.input, 1, start'))
    BY DEF Told
  <2>4. History(said') /\ Remembers(transcript', said')
    BY <1>1, <1>2, <1>7
  <2> QED
    BY <1>2, <2>2, <2>3, <2>4 DEF MemoryInvariant
<1> QED
  BY <1>2, <1>6, <1>7

\* Nor does any step.
LEMMA MemoryStep == MemoryInvariant /\ [Next]_vars => MemoryInvariant'
<1> SUFFICES ASSUME MemoryInvariant, [Next]_vars PROVE MemoryInvariant'
  OBVIOUS
<1>1. StateInvariant /\ History(said) /\ Remembers(transcript, said)
  BY DEF MemoryInvariant
<1>2. StateInvariant'
  BY <1>1, StateStep
<1>3. ASSUME NEW letter \in Alphabet, Append1(letter) PROVE MemoryInvariant'
  <2>1. PICK msg \in Message : /\ transcript' = Append(transcript, msg)
                               /\ said' = Append(said, msg)
                               /\ ~msg.summary /\ msg.covers = {Len(said) + 1}
                               /\ msg.image => msg.kind = "result"
    BY <1>1, <1>3, AppendKeepsState
  <2>2. History(Append(said, msg)) /\ Remembers(Append(transcript, msg), Append(said, msg))
    BY <1>1, <2>1, AppendRemembers
  <2>3. History(said') /\ Remembers(transcript', said')
    BY <2>1, <2>2
  <2>4. phase' = "idle"
    BY <1>3 DEF Append1
  <2> QED
    BY <1>2, <2>3, <2>4 DEF MemoryInvariant
<1>4. ASSUME NEW t \in TailTokens, NEW k \in KeepImages, Begin(t, k) PROVE MemoryInvariant'
  BY <1>4, BeginRemembers
<1>5. ASSUME NEW size \in SummarySizes, Reply(size) PROVE MemoryInvariant'
  BY <1>5, ReplyRemembers
<1>6. CASE Fail
  <2>1. said' = said /\ transcript' = transcript /\ phase' = "idle"
    BY <1>1, <1>6, FailKeepsState
  <2> QED
    BY <1>1, <1>2, <2>1 DEF MemoryInvariant
<1>7. CASE UNCHANGED vars
  <2>1. UNCHANGED <<transcript, said, phase, plan, start, summary>>
    BY <1>7 DEF vars
  <2>2. Told(summary)' = Told(summary) /\ Told(SubSeq(plan.input, 1, start))' = Told(SubSeq(plan.input, 1, start))
    BY <2>1 DEF Told
  <2> QED
    BY <1>1, <1>2, <2>1, <2>2 DEF MemoryInvariant
<1> QED
  BY <1>3, <1>4, <1>5, <1>6, <1>7 DEF Next

\* The transcript remembers what was said, through any number of compactions.
THEOREM Memory == Spec => []MemoryInvariant
<1> QED
  BY MemoryInit, MemoryStep, PTL DEF Spec

\* Every message ever appended is in the transcript or was shown to the model that
\* wrote a summary in it.
THEOREM NothingLost == Spec => []NothingForgotten
<1>1. MemoryInvariant => NothingForgotten
  BY DEF MemoryInvariant, Remembers, NothingForgotten
<1> QED
  BY <1>1, Memory, PTL

\* Messages keep their order, and a summary stands where the oldest message it
\* replaces stood.
THEOREM OrderPreserved == Spec => []OrderKept
<1>1. MemoryInvariant => OrderKept
  BY DEF MemoryInvariant, Remembers, Ordered, Replaces, OrderKept
<1> QED
  BY <1>1, Memory, PTL

\* The latest ordinary user message, the steers after it and the latest system
\* message are in the transcript word for word.
THEOREM LatestKept == Spec => []LatestRequestVerbatim
<1>1. MemoryInvariant => LatestRequestVerbatim
  <2> SUFFICES ASSUME MemoryInvariant PROVE LatestRequestVerbatim
    OBVIOUS
  <2>1. \A n \in DOMAIN said : Latest(said, n) => said[n] \in ToSet(transcript)
    BY DEF MemoryInvariant, Remembers, Verbatim
  <2> QED
    BY <2>1 DEF Latest, NoLater, LatestRequestVerbatim
<1> QED
  BY <1>1, Memory, PTL


-----------------------------------------------------------------------------
(* Calls and their answers.                                                *)

\* Calls without repetition are as many as their ids.
LEMMA CallsCount ==
    ASSUME NEW calls \in Seq(CallIds), IsInjective(calls)
    PROVE  IsFiniteSet(ToSet(calls)) /\ Cardinality(ToSet(calls)) = Len(calls)
<1> DEFINE N == Len(calls)
           D == 1 .. N
<1>1. N \in Nat /\ DOMAIN calls = D /\ calls \in [D -> CallIds]
  BY LenProperties
<1>2. IsFiniteSet(D) /\ Cardinality(D) = N
  <2> HIDE DEF N
  <2> QED
    BY <1>1, FS_Interval
<1>3. calls \in Bijection(D, ToSet(calls))
  <2>1. \A n \in D : calls[n] \in ToSet(calls)
    BY <1>1 DEF ToSet
  <2>2. \A id \in ToSet(calls) : \E n \in D : calls[n] = id
    BY <1>1 DEF ToSet
  <2>3. \A m, n \in D : calls[m] = calls[n] => m = n
    BY <1>1 DEF IsInjective
  <2> QED
    BY <1>1, <2>1, <2>2, <2>3 DEF Bijection, Injection, Surjection, IsInjective
<1>4. ExistsBijection(D, ToSet(calls))
  BY <1>3 DEF ExistsBijection
<1> QED
  BY <1>2, <1>4, FS_Bijection

\* As many answers as calls, all to them, leave no call out if and only if no call
\* is answered twice.
LEMMA AnswersCount ==
    ASSUME NEW calls \in Seq(CallIds), IsInjective(calls), NEW W, IsFiniteSet(W),
           Cardinality(W) = Len(calls), NEW ans \in [W -> ToSet(calls)]
    PROVE  ToSet(calls) = {ans[j] : j \in W} <=> \A j, k \in W : ans[j] = ans[k] => j = k
<1> DEFINE T == ToSet(calls)
<1>1. IsFiniteSet(T) /\ Cardinality(T) = Cardinality(W)
  BY CallsCount
<1> HIDE DEF T
<1>2. ans \in [W -> T]
  BY DEF T
<1>3. ASSUME T = {ans[j] : j \in W} PROVE \A j, k \in W : ans[j] = ans[k] => j = k
  <2>1. ans \in Surjection(W, T)
    BY <1>2, <1>3 DEF Surjection
  <2>2. ans \in Injection(W, T)
    BY <1>1, <2>1, FS_Surjection
  <2> QED
    BY <2>2, <1>2 DEF Injection, IsInjective
<1>4. ASSUME \A j, k \in W : ans[j] = ans[k] => j = k PROVE T = {ans[j] : j \in W}
  <2>1. ans \in Injection(W, T)
    BY <1>2, <1>4 DEF Injection, IsInjective
  <2>2. ans \in Surjection(W, T)
    BY <1>1, <2>1, FS_Injection
  <2> QED
    BY <1>2, <2>2 DEF Surjection
<1> QED
  BY <1>3, <1>4 DEF T

\* Fewer answers than calls leave a call out.
LEMMA AnswersLack ==
    ASSUME NEW calls \in Seq(CallIds), IsInjective(calls), NEW W, IsFiniteSet(W),
           Cardinality(W) < Len(calls), NEW ans, DOMAIN ans = W, ans = [j \in W |-> ans[j]]
    PROVE  ~(ToSet(calls) \subseteq {ans[j] : j \in W})
<1> DEFINE T == ToSet(calls)
           A == {ans[j] : j \in W}
<1>1. IsFiniteSet(T) /\ Cardinality(T) = Len(calls) /\ Len(calls) \in Nat
  BY CallsCount
<1>2. IsFiniteSet(A) /\ Cardinality(A) <= Cardinality(W)
  <2>1. ans \in Surjection(W, A)
    BY DEF Surjection
  <2> HIDE DEF A
  <2> QED
    BY <2>1, FS_Surjection
<1>3. Cardinality(A) \in Nat /\ Cardinality(W) \in Nat
  BY <1>2, FS_CardinalityType
<1> HIDE DEF T, A
<1>4. SUFFICES ASSUME T \subseteq A PROVE FALSE
  BY DEF T, A
<1>5. Cardinality(T) <= Cardinality(A)
  BY <1>2, <1>4, FS_Subset
<1> QED
  BY <1>1, <1>2, <1>3, <1>5

\* What WellPaired says of message i, whose answers are at `Window`.
Window(msgs, i) == i + 1 .. i + Len(msgs[i].calls)

\* WellPaired of the messages at the positions D, with nothing left out between.
PairedOn(msgs, D) ==
    /\ \A i \in D : /\ IsInjective(msgs[i].calls)
                    /\ Window(msgs, i) \subseteq D
                    /\ {msgs[j].answers : j \in Window(msgs, i)} = ToSet(msgs[i].calls)
    /\ \A j \in D : msgs[j].kind = "result" <=> \E i \in D : j \in Window(msgs, i)

\* The messages u are those of r at D, moved by g: what is behind a call stays there.
Moved(r, D, g, u) ==
    /\ \A i \in D : g[i] \in DOMAIN u /\ u[g[i]] = r[i]
    /\ \A n \in DOMAIN u : \E i \in D : g[i] = n
    /\ \A i \in D : Window(r, i) \subseteq D <=> Window(u, g[i]) \subseteq DOMAIN u
    /\ \A i, j \in D : j \in Window(r, i) <=> g[j] \in Window(u, g[i])

\* What a message calls is behind it, and only an assistant calls.
LEMMA CallersCall ==
    ASSUME NEW msgs \in Seq(Message), NEW i \in 1 .. Len(msgs)
    PROVE  /\ msgs[i] \in Message /\ msgs[i].calls \in Seq(CallIds) /\ Len(msgs[i].calls) \in Nat
           /\ Window(msgs, i) \subseteq Nat /\ \A j \in Window(msgs, i) : i < j
           /\ msgs[i].kind # "assistant" =>
                /\ Window(msgs, i) = {} /\ msgs[i].calls = <<>> /\ IsInjective(msgs[i].calls)
                /\ ToSet(msgs[i].calls) = {}
<1>1. msgs[i] \in Message
  BY ElementOfSeq
<1>2. /\ msgs[i].calls \in Seq(CallIds) /\ Len(msgs[i].calls) \in Nat
      /\ msgs[i].calls # <<>> => msgs[i].kind = "assistant"
  BY <1>1 DEF Message
<1>3. Window(msgs, i) \subseteq Nat /\ \A j \in Window(msgs, i) : i < j
  BY <1>2 DEF Window
<1>4. ASSUME msgs[i].calls = <<>>
      PROVE  /\ Window(msgs, i) = {} /\ IsInjective(msgs[i].calls) /\ ToSet(msgs[i].calls) = {}
  <2>1. DOMAIN msgs[i].calls = {} /\ Len(msgs[i].calls) = 0
    BY <1>4
  <2> QED
    BY <2>1 DEF Window, IsInjective, ToSet
<1> QED
  BY <1>1, <1>2, <1>3, <1>4

\* Positions behind one of an interval stay in it if the last one does.
LEMMA IntervalWithin ==
    ASSUME NEW a \in Int, NEW b \in Int, NEW i \in a .. b, NEW len \in Nat
    PROVE  i + 1 .. i + len \subseteq a .. b <=> i + len <= b
<1>1. CASE len = 0
  BY <1>1
<1>2. CASE len > 0
  <2>1. i + len \in i + 1 .. i + len
    BY <1>2
  <2> QED
    BY <2>1
<1> QED
  BY <1>1, <1>2

\* A sequence is well paired if all of it is.
LEMMA PairedWhole ==
    ASSUME NEW msgs
    PROVE  WellPaired(msgs) <=> PairedOn(msgs, DOMAIN msgs)
BY DEF WellPaired, PairedOn, Window

\* Messages that are moved together are as well paired as they were.
LEMMA PairedMoved ==
    ASSUME NEW r, NEW D, NEW g, NEW u, Moved(r, D, g, u)
    PROVE  WellPaired(u) <=> PairedOn(r, D)
<1> DEFINE E == DOMAIN u
           ToIt(m, i) == {m[j].answers : j \in Window(m, i)}
<1>1. /\ \A i \in D : g[i] \in E /\ u[g[i]] = r[i]
      /\ \A n \in E : \E i \in D : g[i] = n
      /\ \A i \in D : Window(r, i) \subseteq D <=> Window(u, g[i]) \subseteq E
      /\ \A i, j \in D : j \in Window(r, i) <=> g[j] \in Window(u, g[i])
  BY DEF Moved
<1> HIDE DEF E
<1>2. ASSUME NEW i \in D, Window(r, i) \subseteq D PROVE ToIt(r, i) = ToIt(u, g[i])
  <2>1. Window(u, g[i]) \subseteq E
    BY <1>1, <1>2
  <2>2. ASSUME NEW j \in Window(r, i) PROVE r[j].answers \in ToIt(u, g[i])
    <3>1. j \in D /\ g[j] \in Window(u, g[i]) /\ u[g[j]] = r[j]
      BY <1>1, <1>2
    <3> QED
      BY <3>1
  <2>3. ASSUME NEW n \in Window(u, g[i]) PROVE u[n].answers \in ToIt(r, i)
    <3>1. PICK j \in D : g[j] = n
      BY <1>1, <2>1
    <3>2. j \in Window(r, i) /\ u[n] = r[j]
      BY <1>1, <3>1
    <3> QED
      BY <3>2
  <2> QED
    BY <2>2, <2>3
<1>3. ASSUME PairedOn(r, D) PROVE PairedOn(u, E)
  <2>1. ASSUME NEW n \in E
        PROVE  /\ IsInjective(u[n].calls) /\ Window(u, n) \subseteq E
               /\ ToIt(u, n) = ToSet(u[n].calls)
               /\ u[n].kind = "result" <=> \E i \in E : n \in Window(u, i)
    <3>1. PICK i \in D : g[i] = n
      BY <1>1
    <3>2. /\ IsInjective(r[i].calls) /\ Window(r, i) \subseteq D
          /\ ToIt(r, i) = ToSet(r[i].calls)
          /\ r[i].kind = "result" <=> \E j \in D : i \in Window(r, j)
      BY <1>3 DEF PairedOn
    <3>3. u[n] = r[i] /\ ToIt(r, i) = ToIt(u, n) /\ Window(u, n) \subseteq E
      BY <1>1, <1>2, <3>1, <3>2
    <3>4. (\E j \in D : i \in Window(r, j)) <=> \E m \in E : n \in Window(u, m)
      BY <1>1, <3>1
    <3> QED
      BY <3>2, <3>3, <3>4
  <2> QED
    BY <2>1 DEF PairedOn
<1>4. ASSUME PairedOn(u, E) PROVE PairedOn(r, D)
  <2>1. ASSUME NEW i \in D
        PROVE  /\ IsInjective(r[i].calls) /\ Window(r, i) \subseteq D
               /\ ToIt(r, i) = ToSet(r[i].calls)
               /\ r[i].kind = "result" <=> \E j \in D : i \in Window(r, j)
    <3> DEFINE n == g[i]
    <3>1. n \in E /\ u[n] = r[i]
      BY <1>1
    <3>2. /\ IsInjective(u[n].calls) /\ Window(u, n) \subseteq E
          /\ ToIt(u, n) = ToSet(u[n].calls)
          /\ u[n].kind = "result" <=> \E m \in E : n \in Window(u, m)
      BY <1>4, <3>1 DEF PairedOn
    <3>3. Window(r, i) \subseteq D
      BY <1>1, <3>2
    <3>4. ToIt(r, i) = ToIt(u, n)
      BY <1>2, <3>3
    <3>5. (\E j \in D : i \in Window(r, j)) <=> \E m \in E : n \in Window(u, m)
      BY <1>1
    <3> HIDE DEF n
    <3> QED
      BY <3>1, <3>2, <3>3, <3>4, <3>5
  <2> QED
    BY <2>1 DEF PairedOn
<1> QED
  BY <1>3, <1>4, PairedWhole DEF E

\* A part of a sequence is well paired if its positions are.
LEMMA PairedPart ==
    ASSUME NEW msgs \in Seq(Message), NEW a \in Nat, a >= 1, NEW b \in Nat, b <= Len(msgs)
    PROVE  WellPaired(SubSeq(msgs, a, b)) <=> PairedOn(msgs, a .. b)
<1> DEFINE u == SubSeq(msgs, a, b)
           g == [i \in a .. b |-> i - a + 1]
<1>1. \A i \in a .. b : msgs[i] \in Message
  BY ElementOfSeq
<1>2. /\ u \in Seq(Message) /\ Len(u) = (IF a <= b THEN b - a + 1 ELSE 0)
      /\ \A n \in 1 .. b - a + 1 : u[n] = msgs[a + n - 1]
  BY <1>1, SubSeqProperties
<1>3. DOMAIN u = 1 .. Len(u)
  BY <1>2, LenProperties
<1> HIDE DEF u
<1>4. \A i \in a .. b : g[i] = i - a + 1 /\ g[i] \in 1 .. b - a + 1 /\ a + g[i] - 1 = i
  OBVIOUS
<1> HIDE DEF g
<1>5. \A i \in a .. b : g[i] \in DOMAIN u /\ u[g[i]] = msgs[i]
  BY <1>2, <1>3, <1>4
<1>6. ASSUME NEW n \in DOMAIN u PROVE \E i \in a .. b : g[i] = n
  <2>1. n \in 1 .. b - a + 1 /\ n + a - 1 \in a .. b /\ (n + a - 1) - a + 1 = n
    BY <1>2, <1>3
  <2> QED
    BY <1>4, <2>1
<1>7. ASSUME NEW i \in a .. b
      PROVE  Window(msgs, i) \subseteq a .. b <=> Window(u, g[i]) \subseteq DOMAIN u
  <2> DEFINE len == Len(msgs[i].calls)
  <2>1. Window(msgs, i) = i + 1 .. i + len /\ Window(u, g[i]) = g[i] + 1 .. g[i] + len
    BY <1>5 DEF Window
  <2>2. len \in Nat
    BY <1>1 DEF Message
  <2>3. a <= b /\ Len(u) = b - a + 1
    BY <1>2
  <2> HIDE DEF len
  <2>4. i + 1 .. i + len \subseteq a .. b <=> i + len <= b
    BY <2>2, IntervalWithin
  <2>5. g[i] + 1 .. g[i] + len \subseteq 1 .. Len(u) <=> g[i] + len <= Len(u)
    <3> DEFINE x == g[i]
               one == 1
               last == Len(u)
    <3>1. x \in one .. last /\ one \in Int /\ last \in Int
      BY <1>2, <1>4, <2>3
    <3> HIDE DEF x, one, last
    <3>2. x + 1 .. x + len \subseteq one .. last <=> x + len <= last
      BY <2>2, <3>1, IntervalWithin
    <3> QED
      BY <3>2 DEF x, one, last
  <2>6. i + len <= b <=> g[i] + len <= Len(u)
    BY <1>4, <2>2, <2>3
  <2> QED
    BY <1>3, <2>1, <2>4, <2>5, <2>6
<1>8. ASSUME NEW i \in a .. b, NEW j \in a .. b
      PROVE  j \in Window(msgs, i) <=> g[j] \in Window(u, g[i])
  <2> DEFINE len == Len(msgs[i].calls)
  <2>1. Window(msgs, i) = i + 1 .. i + len /\ Window(u, g[i]) = g[i] + 1 .. g[i] + len
    BY <1>5 DEF Window
  <2>2. len \in Nat
    BY <1>1 DEF Message
  <2>3. g[i] = i - a + 1 /\ g[j] = j - a + 1
    BY <1>4
  <2> HIDE DEF len
  <2>4. j \in i + 1 .. i + len <=> j - a + 1 \in (i - a + 1) + 1 .. (i - a + 1) + len
    BY <2>2
  <2> QED
    BY <2>1, <2>3, <2>4
<1>9. Moved(msgs, a .. b, g, u)
  BY <1>5, <1>6, <1>7, <1>8 DEF Moved
<1>10. WellPaired(u) <=> PairedOn(msgs, a .. b)
  BY <1>9, PairedMoved
<1> QED
  BY <1>10 DEF u

\* A concatenation of well-paired sequences is well paired.
LEMMA PairedConcat ==
    ASSUME NEW s \in Seq(Message), NEW t \in Seq(Message), WellPaired(s), WellPaired(t)
    PROVE  WellPaired(s \o t)
<1> DEFINE r == s \o t
           m == Len(s)
           n == Len(t)
           A == 1 .. m
           B == m + 1 .. m + n
           f == [i \in A |-> i]
           g == [i \in B |-> i - m]
<1>1. /\ r \in Seq(Message) /\ Len(r) = m + n
      /\ \A i \in 1 .. m + n : r[i] = IF i <= m THEN s[i] ELSE t[i - m]
  BY ConcatProperties
<1>2. /\ m \in Nat /\ n \in Nat
      /\ DOMAIN s = 1 .. m /\ DOMAIN t = 1 .. n /\ DOMAIN r = 1 .. m + n
  BY <1>1, LenProperties
<1>3. ASSUME NEW i \in 1 .. m + n PROVE r[i] \in Message /\ Len(r[i].calls) \in Nat
  <2>1. i \in 1 .. Len(r)
    BY <1>1
  <2> HIDE DEF r
  <2> QED
    BY <1>1, <2>1, CallersCall
<1> HIDE DEF r, m, n
<1>4. \A i \in A : i \in 1 .. m + n /\ r[i] = s[i] /\ f[i] = i
  BY <1>1, <1>2
<1>5. \A i \in B : i \in 1 .. m + n /\ r[i] = t[i - m] /\ g[i] = i - m /\ g[i] \in 1 .. n
  BY <1>1, <1>2
<1> HIDE DEF f, g
<1>6. Moved(r, A, f, s)
  BY <1>2, <1>4 DEF Moved, Window
<1>7. Moved(r, B, g, t)
  <2>1. \A i \in B : g[i] \in DOMAIN t /\ t[g[i]] = r[i]
    BY <1>2, <1>5
  <2>2. ASSUME NEW k \in DOMAIN t PROVE \E i \in B : g[i] = k
    <3> DEFINE i == k + m
    <3>1. i \in B /\ i - m = k
      BY <1>2
    <3> HIDE DEF i, B
    <3>2. g[i] = i - m
      BY <1>5, <3>1
    <3> QED
      BY <3>1, <3>2
  <2>3. ASSUME NEW i \in B
        PROVE  Window(r, i) \subseteq B <=> Window(t, g[i]) \subseteq DOMAIN t
    <3> DEFINE len == Len(r[i].calls)
    <3>1. Window(r, i) = i + 1 .. i + len /\ Window(t, g[i]) = g[i] + 1 .. g[i] + len
      BY <2>1 DEF Window
    <3>2. len \in Nat
      BY <1>3, <1>5
    <3> HIDE DEF len
    <3>3. i + 1 .. i + len \subseteq m + 1 .. m + n <=> i + len <= m + n
      <4> DEFINE first == m + 1
                 last == m + n
      <4>1. first \in Int /\ last \in Int /\ i \in first .. last
        BY <1>2
      <4> HIDE DEF first, last
      <4>2. i + 1 .. i + len \subseteq first .. last <=> i + len <= last
        BY <3>2, <4>1, IntervalWithin
      <4> QED
        BY <4>2 DEF first, last
    <3>4. g[i] + 1 .. g[i] + len \subseteq 1 .. n <=> g[i] + len <= n
      <4> DEFINE x == g[i]
                 one == 1
      <4>1. x \in one .. n /\ one \in Int /\ n \in Int
        BY <1>2, <1>5
      <4> HIDE DEF x, one
      <4>2. x + 1 .. x + len \subseteq one .. n <=> x + len <= n
        BY <3>2, <4>1, IntervalWithin
      <4> QED
        BY <4>2 DEF x, one
    <3>5. i + len <= m + n <=> g[i] + len <= n
      BY <1>2, <1>5, <3>2
    <3> QED
      BY <1>2, <3>1, <3>3, <3>4, <3>5
  <2>4. ASSUME NEW i \in B, NEW j \in B PROVE j \in Window(r, i) <=> g[j] \in Window(t, g[i])
    <3> DEFINE len == Len(r[i].calls)
    <3>1. Window(r, i) = i + 1 .. i + len /\ Window(t, g[i]) = g[i] + 1 .. g[i] + len
      BY <2>1 DEF Window
    <3>2. len \in Nat
      BY <1>3, <1>5
    <3> HIDE DEF len
    <3> QED
      BY <1>2, <1>5, <3>1, <3>2
  <2> HIDE DEF B
  <2> QED
    BY <2>1, <2>2, <2>3, <2>4 DEF Moved
<1>8. PairedOn(r, A) /\ PairedOn(r, B)
  BY <1>6, <1>7, PairedMoved
<1>9. 1 .. m + n = A \cup B /\ A \cap B = {}
  BY <1>2
<1> HIDE DEF A, B
<1>10. PairedOn(r, A \cup B)
  BY <1>8, <1>9 DEF PairedOn
<1>11. WellPaired(r)
  BY <1>2, <1>9, <1>10, PairedWhole
<1> QED
  BY <1>11 DEF r

\* So is a selection of messages that are well paired among themselves.
LEMMA PairedSelection ==
    ASSUME NEW msgs \in Seq(Message), NEW D \in SUBSET (1 .. Len(msgs)), PairedOn(msgs, D)
    PROVE  WellPaired(Select(msgs, D))
<1> DEFINE u == Select(msgs, D)
           g == [i \in D |-> Rank(D, i)]
<1>1. /\ \A i \in 1 .. Len(msgs) : i \in D => Rank(D, i) \in 1 .. Len(u) /\ u[Rank(D, i)] = msgs[i]
      /\ \A n \in 1 .. Len(u) : \E i \in 1 .. Len(msgs) : i \in D /\ n = Rank(D, i)
  BY SelectRanks
<1>2. u \in Seq(Message) /\ DOMAIN u = 1 .. Len(u) /\ Len(u) \in Nat /\ Len(msgs) \in Nat
  BY SelectType, LenProperties
<1> HIDE DEF u
<1>3. \A i \in D : g[i] = Rank(D, i) /\ g[i] \in DOMAIN u /\ u[g[i]] = msgs[i] /\ i \in Nat
  BY <1>1, <1>2
<1> HIDE DEF g
<1>4. ASSUME NEW n \in DOMAIN u PROVE \E i \in D : g[i] = n
  <2>1. PICK i \in 1 .. Len(msgs) : i \in D /\ n = Rank(D, i)
    BY <1>1, <1>2
  <2> QED
    BY <1>3, <2>1
<1>5. ASSUME NEW i \in D
      PROVE  /\ Window(msgs, i) \subseteq D /\ Window(u, g[i]) \subseteq DOMAIN u
             /\ \A j \in D : j \in Window(msgs, i) <=> g[j] \in Window(u, g[i])
  <2> DEFINE len == Len(msgs[i].calls)
  <2>1. len \in Nat
    <3>1. msgs[i] \in Message
      BY ElementOfSeq
    <3> QED
      BY <3>1 DEF Message
  <2>2. Window(msgs, i) = i + 1 .. i + len /\ Window(u, g[i]) = g[i] + 1 .. g[i] + len
    BY <1>3 DEF Window
  <2>3. i + 1 .. i + len \subseteq D
    BY <2>2 DEF PairedOn
  <2> HIDE DEF len
  <2>4. \A k \in 0 .. len : Rank(D, i + k) = Rank(D, i) + k
    <3> DEFINE S == {k \in Nat : k <= len => Rank(D, i + k) = Rank(D, i) + k}
    <3>0. i \in Nat /\ Rank(D, i) \in Nat
      BY <1>3, RankStep
    <3>1. 0 \in S
      BY <3>0
    <3>2. ASSUME NEW k \in Nat, k \in S PROVE k + 1 \in S
      <4> SUFFICES ASSUME k + 1 <= len PROVE Rank(D, i + (k + 1)) = Rank(D, i) + (k + 1)
        OBVIOUS
      <4>1. Rank(D, i + k) = Rank(D, i) + k
        BY <2>1, <3>2
      <4>2. (i + k) + 1 \in D /\ i + k \in Nat /\ (i + k) + 1 = i + (k + 1)
        BY <2>1, <2>3, <3>0
      <4>3. Rank(D, (i + k) + 1) = Rank(D, i + k) + 1
        BY <4>2, RankStep
      <4> QED
        BY <3>0, <4>1, <4>2, <4>3
    <3> HIDE DEF S
    <3>3. Nat \subseteq S
      BY <3>1, <3>2, SetInduction
    <3> QED
      BY <2>1, <3>3 DEF S
  <2>5. ASSUME NEW n \in g[i] + 1 .. g[i] + len
        PROVE  n \in DOMAIN u
    <3>1. n - g[i] \in 1 .. len /\ g[i] \in Nat
      BY <1>2, <1>3, <2>1
    <3>2. i + (n - g[i]) \in D /\ Rank(D, i + (n - g[i])) = Rank(D, i) + (n - g[i])
      BY <1>3, <2>1, <2>3, <2>4, <3>1
    <3>3. Rank(D, i + (n - g[i])) \in DOMAIN u
      BY <1>3, <3>2
    <3>4. g[i] + (n - g[i]) = n /\ Rank(D, i) = g[i]
      BY <1>3, <3>1
    <3> QED
      BY <3>2, <3>3, <3>4
  <2>6. ASSUME NEW j \in D
        PROVE  j \in i + 1 .. i + len <=> g[j] \in g[i] + 1 .. g[i] + len
    <3>0. i \in Nat /\ j \in Nat /\ g[i] \in Nat /\ g[j] \in Nat /\ i + len \in Nat
          /\ g[i] = Rank(D, i) /\ g[j] = Rank(D, j)
      BY <1>2, <1>3, <2>1
    <3>1. CASE j \in i + 1 .. i + len
      <4>1. j - i \in 1 .. len /\ i + (j - i) = j
        BY <2>1, <3>0, <3>1
      <4>2. Rank(D, j) = Rank(D, i) + (j - i)
        BY <2>4, <4>1
      <4>3. g[j] = g[i] + (j - i)
        BY <3>0, <4>2
      <4> QED
        BY <2>1, <3>0, <3>1, <4>1, <4>3
    <3>2. CASE j <= i
      <4>1. Rank(D, j) <= Rank(D, i)
        BY <3>0, <3>2, RankMonotone
      <4> QED
        BY <2>1, <3>0, <3>2, <4>1
    <3>3. CASE j > i + len
      <4>1. Rank(D, i + len) < Rank(D, j)
        BY <3>0, <3>3, RankMonotone
      <4>2. Rank(D, i + len) = Rank(D, i) + len
        BY <2>1, <2>4
      <4> QED
        BY <2>1, <3>0, <3>3, <4>1, <4>2
    <3> QED
      BY <2>1, <3>0, <3>1, <3>2, <3>3
  <2> QED
    BY <2>2, <2>3, <2>5, <2>6
<1>6. Moved(msgs, D, g, u)
  BY <1>3, <1>4, <1>5 DEF Moved
<1>7. WellPaired(u)
  BY <1>6, PairedMoved
<1> QED
  BY <1>7 DEF u

-----------------------------------------------------------------------------
(* The verbatim tail is the longest that is well paired.                   *)

\* An exchange has no fault if and only if its calls are answered right behind it;
\* a fault behind its start comes after results only, and is one.
LEMMA FaultMeans ==
    ASSUME NEW msgs \in Seq(Message), NEW i \in 1 .. Len(msgs)
    PROVE  /\ ExchangeFault(msgs, i) = {} <=>
                /\ IsInjective(msgs[i].calls)
                /\ Window(msgs, i) \subseteq 1 .. Len(msgs)
                /\ \A j \in Window(msgs, i) : msgs[j].kind = "result"
                /\ {msgs[j].answers : j \in Window(msgs, i)} = ToSet(msgs[i].calls)
           /\ \A x \in ExchangeFault(msgs, i) :
                \A j \in i + 1 .. x : msgs[j].kind = "result"
<1> DEFINE calls == msgs[i].calls
           W == i + 1 .. i + Len(calls)
           Answers(j) ==
             /\ j <= Len(msgs) /\ msgs[j].kind = "result"
             /\ msgs[j].answers \in ToSet(calls)
             /\ \A k \in i + 1 .. j - 1 : msgs[k].answers # msgs[j].answers
           wrong == {j \in W : ~Answers(j)}
           ans == [j \in W |-> msgs[j].answers]
<1>1. /\ calls \in Seq(CallIds) /\ Len(calls) \in Nat /\ Len(msgs) \in Nat
      /\ W = Window(msgs, i)
  <2>1. msgs[i] \in Message
    BY ElementOfSeq
  <2> QED
    BY <2>1 DEF Message, Window
<1>2. ExchangeFault(msgs, i) =
        IF ~IsInjective(calls) THEN {i}
        ELSE IF wrong = {} THEN {}
        ELSE IF Min(wrong) <= Len(msgs) /\ msgs[Min(wrong)].kind = "result"
             THEN {Min(wrong)}
             ELSE {i}
  BY DEF ExchangeFault
<1>3. IsFiniteSet(W) /\ Cardinality(W) = Len(calls)
  <2> DEFINE a == i + 1
             b == i + Len(calls)
  <2>1. a \in Int /\ b \in Int /\ b - a + 1 = Len(calls) /\ (a > b <=> Len(calls) = 0)
    BY <1>1
  <2> HIDE DEF a, b
  <2>2. IsFiniteSet(a .. b) /\ Cardinality(a .. b) = IF a > b THEN 0 ELSE b - a + 1
    BY <2>1, FS_Interval
  <2>3. Cardinality(a .. b) = Len(calls)
    BY <2>1, <2>2
  <2> QED
    BY <2>2, <2>3 DEF a, b
<1> HIDE DEF calls
<1>4. ASSUME IsInjective(calls), W \subseteq 1 .. Len(msgs),
             \A j \in W : msgs[j].kind = "result",
             {msgs[j].answers : j \in W} = ToSet(calls)
      PROVE  wrong = {}
  <2>1. ans \in [W -> ToSet(calls)] /\ ToSet(calls) = {ans[j] : j \in W}
    BY <1>4
  <2>2. \A j, k \in W : ans[j] = ans[k] => j = k
    <3>1. IsInjective(calls)
      BY <1>4
    <3> HIDE DEF W, ans
    <3>2. ToSet(calls) = {ans[j] : j \in W} <=> \A j, k \in W : ans[j] = ans[k] => j = k
      BY <1>1, <1>3, <2>1, <3>1, AnswersCount
    <3> QED
      BY <2>1, <3>2
  <2>3. ASSUME NEW j \in W PROVE Answers(j)
    <3>1. j <= Len(msgs) /\ msgs[j].kind = "result" /\ msgs[j].answers \in ToSet(calls)
      BY <1>1, <1>4
    <3>2. ASSUME NEW k \in i + 1 .. j - 1 PROVE msgs[k].answers # msgs[j].answers
      <4>1. k \in W /\ k # j
        BY <1>1
      <4> QED
        BY <2>2, <4>1
    <3> QED
      BY <3>1, <3>2
  <2> QED
    BY <2>3
<1>5. ASSUME IsInjective(calls), wrong = {}
      PROVE  /\ W \subseteq 1 .. Len(msgs) /\ \A j \in W : msgs[j].kind = "result"
             /\ {msgs[j].answers : j \in W} = ToSet(calls)
  <2>1. \A j \in W : Answers(j)
    BY <1>5
  <2>2. W \subseteq 1 .. Len(msgs) /\ \A j \in W : msgs[j].kind = "result"
    BY <1>1, <2>1
  <2>3. ans \in [W -> ToSet(calls)]
    BY <2>1
  <2>4. \A j, k \in W : ans[j] = ans[k] => j = k
    <3>1. ASSUME NEW j \in W, NEW k \in W, ans[j] = ans[k], j < k PROVE FALSE
      <4>1. j \in i + 1 .. k - 1
        BY <1>1, <3>1
      <4>2. msgs[j].answers # msgs[k].answers
        BY <2>1, <4>1
      <4> QED
        BY <3>1, <4>2
    <3>2. \A j, k \in W : j = k \/ j < k \/ k < j
      BY <1>1
    <3> QED
      BY <3>1, <3>2
  <2>5. ToSet(calls) = {ans[j] : j \in W}
    <3> HIDE DEF W, ans
    <3> QED
      BY <1>1, <1>3, <1>5, <2>3, <2>4, AnswersCount
  <2> QED
    BY <2>2, <2>5
<1>6. ASSUME wrong # {}
      PROVE  Min(wrong) \in W /\ \A j \in i + 1 .. Min(wrong) - 1 : msgs[j].kind = "result"
  <2>1. wrong \in SUBSET Nat /\ wrong \subseteq W
    BY <1>1
  <2>2. Min(wrong) \in wrong /\ \A y \in wrong : Min(wrong) <= y
    <3> HIDE DEF wrong
    <3> QED
      BY <1>6, <2>1, MinOfNaturals
  <2>3. Min(wrong) \in W
    BY <2>1, <2>2
  <2>4. ASSUME NEW j \in i + 1 .. Min(wrong) - 1 PROVE msgs[j].kind = "result"
    <3> DEFINE least == Min(wrong)
    <3>1. least \in W /\ \A y \in wrong : least <= y
      BY <2>2, <2>3
    <3>2. j \in i + 1 .. least - 1
      OBVIOUS
    <3> HIDE DEF least
    <3>3. j \in W /\ ~(least <= j)
      BY <1>1, <3>1, <3>2
    <3>4. j \notin wrong
      BY <3>1, <3>3
    <3> QED
      BY <3>3, <3>4
  <2> QED
    BY <2>3, <2>4
<1> HIDE DEF wrong
<1>7. ASSUME NEW x \in ExchangeFault(msgs, i), NEW j \in i + 1 .. x
      PROVE  msgs[j].kind = "result"
  <2>1. i \in Nat
    OBVIOUS
  <2>2. x # i
    BY <2>1, <1>7
  <2>3. wrong # {} /\ x = Min(wrong) /\ msgs[Min(wrong)].kind = "result"
    BY <1>2, <1>7, <2>2
  <2>4. Min(wrong) \in Nat
    BY <1>1, <1>6, <2>3
  <2> QED
    BY <1>6, <1>7, <2>1, <2>3, <2>4
<1>8. ExchangeFault(msgs, i) = {} <=> IsInjective(calls) /\ wrong = {}
  BY <1>2
<1>9. ExchangeFault(msgs, i) = {} <=>
        /\ IsInjective(calls)
        /\ W \subseteq 1 .. Len(msgs)
        /\ \A j \in W : msgs[j].kind = "result"
        /\ {msgs[j].answers : j \in W} = ToSet(calls)
  <2> HIDE DEF W
  <2> QED
    BY <1>4, <1>5, <1>8
<1> HIDE DEF W
<1> QED
  BY <1>1, <1>7, <1>9 DEF calls

\* The walk from a position finds no violation if and only if the messages from
\* there on are well paired.
LEMMA ViolationMeans ==
    ASSUME NEW msgs \in Seq(Message), NEW s \in 1 .. Len(msgs) + 1
    PROVE  FirstViolation(msgs, s) = 0 <=> PairedOn(msgs, s .. Len(msgs))
<1> DEFINE N == Len(msgs)
           Good(i) == FirstViolation(msgs, i) = 0 <=> PairedOn(msgs, i .. N)
           S == {i \in 1 .. N + 1 : Good(i)}
<1>1. N \in Nat
  OBVIOUS
<1>2. ASSUME NEW i \in 1 .. N + 1, \A k \in i + 1 .. N + 1 : k \in S PROVE Good(i)
  <2> DEFINE len == Len(msgs[i].calls)
             k == i + 1 + len
             rest == FirstViolation(msgs, k)
             W == Window(msgs, i)
  <2>1. FirstViolation(msgs, i) = Violating(msgs, i, rest)
    BY ViolationStep
  <2>2. CASE i > N
    <3>1. i .. N = {}
      BY <1>1, <2>2
    <3>2. PairedOn(msgs, i .. N)
      BY <3>1 DEF PairedOn
    <3> QED
      BY <2>1, <2>2, <3>2 DEF Violating
  <2>3. CASE i <= N /\ msgs[i].kind = "result"
    <3>1. FirstViolation(msgs, i) = i /\ i # 0
      BY <2>1, <2>3 DEF Violating
    <3>2. ~PairedOn(msgs, i .. N)
      <4>1. SUFFICES ASSUME PairedOn(msgs, i .. N) PROVE FALSE
        OBVIOUS
      <4>2. i \in i .. N /\ \A j \in i .. N : j \in 1 .. Len(msgs) /\ i <= j
        BY <1>1, <2>3
      <4>3. PICK j \in i .. N : i \in Window(msgs, j)
        BY <2>3, <4>1, <4>2 DEF PairedOn
      <4>4. j < i
        BY <4>2, <4>3, CallersCall
      <4> QED
        BY <4>2, <4>4
    <3> QED
      BY <3>1, <3>2
  <2>4. CASE i <= N /\ msgs[i].kind # "result"
    <3>0. i \in 1 .. Len(msgs)
      BY <1>1, <2>4
    <3>1. /\ len \in Nat /\ W = i + 1 .. i + len
          /\ W \subseteq Nat /\ \A j \in W : i < j
      BY <3>0, CallersCall DEF Window
    <3> DEFINE fault == ExchangeFault(msgs, i)
    <3>2. /\ fault = {} <=>
               /\ IsInjective(msgs[i].calls) /\ W \subseteq 1 .. N
               /\ \A j \in W : msgs[j].kind = "result"
               /\ {msgs[j].answers : j \in W} = ToSet(msgs[i].calls)
          /\ fault # {} => Min(fault) \in i .. N
          /\ fault = {} => i + len <= N
      BY <3>0, FaultMeans, FaultRange
    <3>3. ASSUME PairedOn(msgs, i .. N) PROVE fault = {}
      <4>1. i \in i .. N
        BY <1>1, <2>4
      <4>2. /\ IsInjective(msgs[i].calls) /\ W \subseteq i .. N
            /\ {msgs[j].answers : j \in W} = ToSet(msgs[i].calls)
            /\ \A j \in W : msgs[j].kind = "result"
        BY <3>3, <4>1 DEF PairedOn
      <4>3. i .. N \subseteq 1 .. N
        BY <1>1
      <4> QED
        BY <3>2, <4>2, <4>3
    <3>4. CASE fault # {}
      <4>1. FirstViolation(msgs, i) = Min(fault)
        <5>1. ~(i > Len(msgs))
          BY <1>1, <2>4
        <5> QED
          BY <2>1, <2>4, <3>4, <5>1 DEF Violating
      <4>2. FirstViolation(msgs, i) # 0
        BY <1>1, <3>2, <3>4, <4>1
      <4> QED
        BY <3>3, <3>4, <4>2
    <3>5. CASE fault = {}
      <4>1. FirstViolation(msgs, i) = rest
        <5>1. ~(i > Len(msgs))
          BY <1>1, <2>4
        <5> HIDE DEF rest
        <5> QED
          BY <2>1, <2>4, <3>5, <5>1 DEF Violating
      <4>2. k \in i + 1 .. N + 1 /\ k <= N + 1 /\ k \in Nat
        <5> HIDE DEF len, N
        <5> QED
          BY <1>1, <3>1, <3>2, <3>5
      <4>3. rest = 0 <=> PairedOn(msgs, k .. N)
        BY <1>2, <4>2
      <4>4. /\ i .. N = {i} \cup W \cup k .. N /\ \A j \in W : j < k /\ i < j
            /\ i < k
        <5> HIDE DEF len, N
        <5> QED
          BY <1>1, <3>1, <3>2, <3>5, <2>4
      <4>5. /\ IsInjective(msgs[i].calls) /\ W \subseteq i .. N
            /\ {msgs[j].answers : j \in W} = ToSet(msgs[i].calls)
            /\ \A j \in W : msgs[j].kind = "result"
        <5>1. W \subseteq i .. N
          BY <4>4
        <5> QED
          BY <3>2, <3>5, <5>1
      <4> DEFINE T == k .. N
                 D == i .. N
      <4>6. /\ D = {i} \cup W \cup T /\ \A j \in T : j \in Nat /\ k <= j /\ j \in D
            /\ T \subseteq D /\ i \in D /\ W \subseteq D
            /\ \A j \in D : j \in 1 .. Len(msgs) /\ i <= j
        <5> HIDE DEF k, W
        <5>1. D = {i} \cup W \cup T
          BY <4>4
        <5>2. \A j \in T : j \in Nat /\ k <= j
          BY <4>2
        <5>3. \A j \in D : j \in 1 .. Len(msgs) /\ i <= j
          BY <1>1
        <5> HIDE DEF T, D
        <5> QED
          BY <5>1, <5>2, <5>3
      <4> HIDE DEF T, D, W, len, k, rest
      <4>7. \A j \in W : /\ IsInjective(msgs[j].calls) /\ Window(msgs, j) = {}
                         /\ ToSet(msgs[j].calls) = {}
        <5>1. \A j \in W : j \in 1 .. Len(msgs) /\ msgs[j].kind # "assistant"
          BY <4>5, <4>6
        <5> QED
          BY <5>1, CallersCall
      <4>8. \A j \in D : \A x \in Window(msgs, j) : j < x
        BY <4>6, CallersCall
      <4>9. W = Window(msgs, i) /\ (\A j \in W : j \in Nat) /\ \A j \in W : j < k
        BY <3>1, <4>4 DEF W
      <4>10. ASSUME PairedOn(msgs, T) PROVE PairedOn(msgs, D)
        <5>1. ASSUME NEW j \in D
              PROVE  /\ IsInjective(msgs[j].calls) /\ Window(msgs, j) \subseteq D
                     /\ {msgs[x].answers : x \in Window(msgs, j)} = ToSet(msgs[j].calls)
          <6>1. CASE j = i
            BY <4>5, <4>6, <4>9, <6>1
          <6>2. CASE j \in W
            BY <4>7, <6>2
          <6>3. CASE j \in T
            BY <4>6, <4>10, <6>3 DEF PairedOn
          <6> QED
            BY <4>6, <6>1, <6>2, <6>3
        <5>2. ASSUME NEW j \in D
              PROVE  msgs[j].kind = "result" <=> \E x \in D : j \in Window(msgs, x)
          <6>1. CASE j = i
            <7>1. \A x \in D : ~(x < i)
              BY <4>6
            <7> QED
              BY <2>4, <4>8, <6>1, <7>1
          <6>2. CASE j \in W
            BY <4>5, <4>6, <4>9, <6>2
          <6>3. CASE j \in T
            <7>1. j \notin W
              BY <4>6, <4>9, <4>2, <6>3
            <7>2. ASSUME NEW x \in D, j \in Window(msgs, x) PROVE x \in T
              BY <4>6, <4>7, <4>9, <7>1, <7>2
            <7>3. msgs[j].kind = "result" <=> \E x \in T : j \in Window(msgs, x)
              BY <4>10, <6>3 DEF PairedOn
            <7> QED
              BY <4>6, <7>2, <7>3
          <6> QED
            BY <4>6, <6>1, <6>2, <6>3
        <5> QED
          BY <5>1, <5>2 DEF PairedOn
      <4>11. ASSUME PairedOn(msgs, D) PROVE PairedOn(msgs, T)
        <5>1. ASSUME NEW j \in T
              PROVE  /\ IsInjective(msgs[j].calls) /\ Window(msgs, j) \subseteq T
                     /\ {msgs[x].answers : x \in Window(msgs, j)} = ToSet(msgs[j].calls)
          <6>1. /\ IsInjective(msgs[j].calls) /\ Window(msgs, j) \subseteq D
                /\ {msgs[x].answers : x \in Window(msgs, j)} = ToSet(msgs[j].calls)
            BY <4>6, <4>11 DEF PairedOn
          <6>2. ASSUME NEW x \in Window(msgs, j) PROVE x \in T
            <7>1. x \in D /\ j < x /\ k <= j /\ i < k
              BY <4>4, <4>6, <4>8, <6>1
            <7>2. x # i /\ x \notin W
              BY <4>2, <4>6, <4>9, <7>1
            <7> QED
              BY <4>6, <7>1, <7>2
          <6> QED
            BY <6>1, <6>2
        <5>2. ASSUME NEW j \in T
              PROVE  msgs[j].kind = "result" <=> \E x \in T : j \in Window(msgs, x)
          <6>1. j \notin W /\ j \in D
            BY <4>2, <4>6, <4>9
          <6>2. msgs[j].kind = "result" <=> \E x \in D : j \in Window(msgs, x)
            BY <4>11, <6>1 DEF PairedOn
          <6>3. ASSUME NEW x \in D, j \in Window(msgs, x) PROVE x \in T
            BY <4>6, <4>7, <4>9, <6>1, <6>3
          <6> QED
            BY <4>6, <6>2, <6>3
        <5> QED
          BY <5>1, <5>2 DEF PairedOn
      <4> QED
        BY <4>1, <4>3, <4>10, <4>11 DEF T, D
    <3> QED
      BY <3>4, <3>5
  <2> QED
    BY <1>1, <2>2, <2>3, <2>4
<1>3. ASSUME NEW i \in 1 .. N + 1, \A k \in i + 1 .. N + 1 : k \in S PROVE i \in S
  BY <1>2, <1>3
<1> HIDE DEF S
<1>4. 1 .. N + 1 \subseteq S
  <2> HIDE DEF N
  <2> QED
    BY <1>1, <1>3, DownwardInduction
<1> QED
  BY <1>4 DEF S

\* From no position up to the violation that is found is the walk without one.
LEMMA ViolationSpan ==
    ASSUME NEW msgs \in Seq(Message), NEW s \in 1 .. Len(msgs) + 1
    PROVE  \A x \in s .. FirstViolation(msgs, s) : FirstViolation(msgs, x) # 0
<1> DEFINE N == Len(msgs)
           v(i) == FirstViolation(msgs, i)
           Good(i) == \A x \in i .. v(i) : v(x) # 0
           S == {i \in 1 .. N + 1 : Good(i)}
<1>1. N \in Nat
  OBVIOUS
<1>2. ASSUME NEW i \in 1 .. N, msgs[i].kind = "result" PROVE v(i) = i
  <2>1. ~(i > Len(msgs)) /\ i \in 1 .. Len(msgs) + 1
    BY <1>1
  <2>2. v(i) = Violating(msgs, i, v(i + 1 + Len(msgs[i].calls)))
    BY <2>1, ViolationStep
  <2> QED
    BY <1>2, <2>1, <2>2 DEF Violating
<1>3. ASSUME NEW i \in 1 .. N + 1, \A k \in i + 1 .. N + 1 : k \in S PROVE Good(i)
  <2> DEFINE len == Len(msgs[i].calls)
             k == i + 1 + len
             rest == v(k)
             fault == ExchangeFault(msgs, i)
  <2>1. v(i) = Violating(msgs, i, rest) /\ v(i) \in {0} \cup i .. N
    BY ViolationStep, ViolationRange
  <2>2. SUFFICES ASSUME NEW x \in i .. v(i), x # i PROVE v(x) # 0
    BY <1>1
  <2>3. v(i) # 0 /\ v(i) \in i .. N /\ i \in 1 .. N /\ ~(i > Len(msgs)) /\ x \in i + 1 .. v(i)
        /\ x \in 1 .. N
    <3> DEFINE last == v(i)
    <3>1. last \in {0} \cup i .. N /\ x \in i .. last /\ x # i
      BY <2>1, <2>2
    <3>2. Len(msgs) = N
      OBVIOUS
    <3> HIDE DEF last, N
    <3>3. last # 0 /\ last \in i .. N /\ i \in 1 .. N /\ x \in i + 1 .. last /\ x \in 1 .. N
      BY <1>1, <3>1
    <3> QED
      BY <3>2, <3>3 DEF last
  <2>4. msgs[i].kind # "result"
    BY <1>2, <2>2, <2>3
  <2>5. CASE fault # {}
    <3>1. v(i) = Min(fault)
      BY <2>1, <2>3, <2>4, <2>5 DEF Violating
    <3>2. Min(fault) \in fault
      <4>1. fault \in SUBSET Nat
        BY <1>1, <2>3, FaultRange
      <4> HIDE DEF fault
      <4> QED
        BY <2>5, <4>1, MinOfNaturals
    <3>3. msgs[x].kind = "result"
      BY <2>3, <3>1, <3>2, FaultMeans
    <3> QED
      BY <1>2, <2>3, <3>3
  <2>6. CASE fault = {}
    <3>1. v(i) = rest
      <4> HIDE DEF rest, v
      <4> QED
        BY <2>1, <2>3, <2>4, <2>6 DEF Violating
    <3>2. /\ len \in Nat /\ i + len <= N /\ Window(msgs, i) = i + 1 .. i + len
          /\ \A j \in Window(msgs, i) : msgs[j].kind = "result"
      <4>1. i \in 1 .. Len(msgs)
        BY <2>3
      <4> QED
        BY <2>6, <4>1, FaultMeans, FaultRange DEF Window
    <3>3. k \in i + 1 .. N + 1
      <4> HIDE DEF len, N
      <4> QED
        BY <1>1, <2>3, <3>2
    <3>4. \A y \in k .. rest : v(y) # 0
      BY <1>3, <3>3
    <3>5. CASE x \in i + 1 .. i + len
      BY <1>2, <2>3, <3>2, <3>5
    <3>6. CASE x \in k .. rest
      BY <3>4, <3>6
    <3>7. x \in i + 1 .. i + len \/ x \in k .. rest
      <4>1. k = i + 1 + len
        OBVIOUS
      <4> HIDE DEF len, N, k, rest, v
      <4> QED
        BY <1>1, <2>3, <3>1, <3>2, <4>1
    <3> QED
      BY <3>5, <3>6, <3>7
  <2> QED
    BY <2>5, <2>6
<1>4. ASSUME NEW i \in 1 .. N + 1, \A k \in i + 1 .. N + 1 : k \in S PROVE i \in S
  BY <1>3, <1>4
<1> HIDE DEF S
<1>5. 1 .. N + 1 \subseteq S
  <2> HIDE DEF N
  <2> QED
    BY <1>1, <1>4, DownwardInduction
<1> QED
  BY <1>5 DEF S

\* From no position before the safe tail, from where it was looked for, is the walk
\* without violation.
LEMMA SafeTailLeast ==
    ASSUME NEW msgs \in Seq(Message), NEW s \in 1 .. Len(msgs) + 1
    PROVE  \A x \in s .. SafeTailStart(msgs, s) - 1 : FirstViolation(msgs, x) # 0
<1> DEFINE N == Len(msgs)
           v(i) == FirstViolation(msgs, i)
           q(i) == SafeTailStart(msgs, i)
           Good(i) == \A x \in i .. q(i) - 1 : v(x) # 0
           S == {i \in 1 .. N + 1 : Good(i)}
<1>1. N \in Nat
  OBVIOUS
<1>2. ASSUME NEW i \in 1 .. N + 1, \A k \in i + 1 .. N + 1 : k \in S PROVE Good(i)
  <2>1. /\ q(i) = IF v(i) = 0 THEN i ELSE q(v(i) + 1)
        /\ v(i) \in {0} \cup i .. N
    BY SafeTailStep, ViolationRange
  <2>2. \A x \in i .. v(i) : v(x) # 0
    BY ViolationSpan
  <2>3. v(i) # 0 => \A x \in v(i) + 1 .. q(v(i) + 1) - 1 : v(x) # 0
    <3>1. v(i) # 0 => v(i) + 1 \in i + 1 .. N + 1
      BY <1>1, <2>1
    <3> QED
      BY <1>2, <3>1
  <2> HIDE DEF v, q
  <2>4. CASE v(i) = 0
    BY <1>1, <2>1, <2>4
  <2>5. CASE v(i) # 0
    <3>1. SUFFICES ASSUME NEW x \in i .. q(i) - 1 PROVE v(x) # 0
      OBVIOUS
    <3>2. v(i) \in i .. N /\ q(i) = q(v(i) + 1)
      BY <2>1, <2>5
    <3>3. CASE x <= v(i)
      BY <1>1, <2>2, <3>2, <3>3
    <3>4. CASE x > v(i)
      <4>1. x \in v(i) + 1 .. q(v(i) + 1) - 1
        BY <1>1, <3>2, <3>4
      <4> QED
        BY <2>3, <2>5, <4>1
    <3> QED
      BY <1>1, <3>2, <3>3, <3>4
  <2> QED
    BY <2>4, <2>5
<1>3. ASSUME NEW i \in 1 .. N + 1, \A k \in i + 1 .. N + 1 : k \in S PROVE i \in S
  BY <1>2, <1>3
<1> HIDE DEF S
<1>4. 1 .. N + 1 \subseteq S
  <2> HIDE DEF N
  <2> QED
    BY <1>1, <1>3, DownwardInduction
<1> QED
  BY <1>4 DEF S

\* The tail that is kept verbatim is well paired and within the limit, and no longer
\* suffix is both, whatever calls and orphans the transcript has.
THEOREM TailLeastSafe == Spec => []TailIsLeastSafe
<1>1. ASSUME StateInvariant PROVE TailIsLeastSafe
  <2> DEFINE N == Len(source)
             tail == plan.tail
             limit == plan.limit
             cut == TailByCost(source, limit)
             Suffix(s) == SubSeq(source, s, N)
             Fits(s) == CostOf(source, s, N) <= limit
  <2> SUFFICES ASSUME phase # "idle"
               PROVE  /\ WellPaired(Suffix(tail)) /\ Fits(tail)
                      /\ \A s \in 1 .. tail - 1 : ~(WellPaired(Suffix(s)) /\ Fits(s))
    BY DEF TailIsLeastSafe
  <2>1. source \in Seq(Message) /\ limit \in Nat /\ tail = SafeTailStart(source, cut)
    BY <1>1, LimitAssumption DEF StateInvariant, TypeInvariant, PlanInvariant
  <2> HIDE DEF limit, tail
  <2>2. N \in Nat /\ cut \in 1 .. N + 1 /\ tail \in 1 .. N + 1 /\ cut <= tail
    BY <2>1, TailByCostRange, TailRange
  <2>3. /\ CostOf(source, cut, N) <= limit
        /\ \A s \in 1 .. N + 1 : CostOf(source, s, N) <= limit => cut <= s
    BY <2>1, TailByCostRange
  <2> HIDE DEF cut
  <2>4. FirstViolation(source, tail) = 0 /\ \A s \in cut .. tail - 1 : FirstViolation(source, s) # 0
    BY <2>1, <2>2, SafeTailStep, SafeTailLeast
  <2>5. ASSUME NEW s \in 1 .. N + 1 PROVE WellPaired(Suffix(s)) <=> FirstViolation(source, s) = 0
    <3>1. s \in Nat /\ s >= 1 /\ N \in Nat /\ N <= Len(source)
      BY <2>2
    <3>2. WellPaired(SubSeq(source, s, N)) <=> PairedOn(source, s .. N)
      <4> HIDE DEF N
      <4> QED
        BY <2>1, <3>1, PairedPart
    <3>3. FirstViolation(source, s) = 0 <=> PairedOn(source, s .. Len(source))
      BY <2>1, ViolationMeans
    <3> QED
      BY <3>2, <3>3
  <2>6. Fits(tail)
    <3> DEFINE a == cut - 1
               b == tail - 1
    <3>1. a \in Nat /\ b \in Nat /\ a <= b /\ b <= N
      BY <2>2
    <3> HIDE DEF a, b
    <3>2. /\ Costs(source)[a] \in Nat /\ Costs(source)[b] \in Nat /\ Costs(source)[a] <= Costs(source)[b]
      BY <2>1, <3>1, CostsGrow
    <3>3. Costs(source)[N] \in Nat
      <4>1. Costs(source) \in [0 .. Len(source) -> Nat]
        BY <2>1, Costing
      <4> QED
        BY <2>2, <4>1
    <3>4. CostOf(source, cut, N) = Costs(source)[N] - Costs(source)[a]
      BY DEF CostOf, a
    <3>5. CostOf(source, tail, N) = Costs(source)[N] - Costs(source)[b]
      BY DEF CostOf, b
    <3> QED
      BY <2>1, <2>3, <3>2, <3>3, <3>4, <3>5
  <2>7. ASSUME NEW s \in 1 .. tail - 1 PROVE ~(WellPaired(Suffix(s)) /\ Fits(s))
    <3>1. s \in 1 .. N + 1 /\ (s < cut \/ s \in cut .. tail - 1)
      BY <2>2
    <3>2. CASE s < cut
      <4>1. ~(cut <= s)
        BY <2>2, <3>2
      <4> QED
        BY <2>3, <3>1, <4>1
    <3>3. CASE s \in cut .. tail - 1
      BY <2>4, <2>5, <3>1, <3>3
    <3> QED
      BY <3>1, <3>2, <3>3
  <2> QED
    BY <2>2, <2>4, <2>5, <2>6, <2>7
<1> QED
  BY <1>1, CompactionTyped, PTL

-----------------------------------------------------------------------------
(* No request separates a call from its results.                           *)

\* Of a well-paired transcript, what is dropped is well paired when what is kept at
\* its end is: what is pinned before it neither calls nor answers.
LEMMA InputPaired ==
    ASSUME NEW msgs \in Seq(Message), NEW tail \in 1 .. Len(msgs) + 1,
           WellPaired(msgs), PairedOn(msgs, tail .. Len(msgs))
    PROVE  WellPaired(SummarizerMessages(msgs, tail, Kept(msgs, tail)))
<1> DEFINE N == Len(msgs)
           D == {i \in 1 .. tail - 1 : i \notin Kept(msgs, tail) \/ i \in LatestSystem(msgs)}
           J == {i \in LatestSystem(msgs) : i >= tail}
<1>1. DOMAIN msgs = 1 .. N /\ N \in Nat
  BY LenProperties
<1>2. \A i \in Pinned(msgs) \cup LatestSystem(msgs) :
         i \in 1 .. N /\ msgs[i].kind # "assistant" /\ msgs[i].kind # "result"
  BY <1>1 DEF Pinned, LatestUser, LatestSystem
<1>3. \A i \in LatestSystem(msgs) : i \in Pinned(msgs)
  BY DEF Pinned
<1>4. \A i \in 1 .. tail - 1 : i \in 1 .. N /\ (i \in Kept(msgs, tail) <=> i \in Pinned(msgs))
  BY <1>1 DEF Kept
<1>5. ASSUME NEW i \in 1 .. N
      PROVE  /\ IsInjective(msgs[i].calls) /\ Window(msgs, i) \subseteq 1 .. N
             /\ {msgs[j].answers : j \in Window(msgs, i)} = ToSet(msgs[i].calls)
             /\ msgs[i].kind = "result" <=> \E j \in 1 .. N : i \in Window(msgs, j)
             /\ Window(msgs, i) = i + 1 .. i + Len(msgs[i].calls)
             /\ Len(msgs[i].calls) \in Nat
             /\ \A j \in Window(msgs, i) : i < j /\ msgs[i].kind = "assistant"
  <2>1. PairedOn(msgs, 1 .. N)
    BY <1>1, PairedWhole
  <2>2. \A j \in Window(msgs, i) : i < j /\ msgs[i].kind = "assistant"
    BY CallersCall
  <2> QED
    BY <2>1, <2>2, CallersCall DEF PairedOn, Window
<1> HIDE DEF N
<1>6. ASSUME NEW i \in 1 .. tail - 1, NEW j \in Window(msgs, i)
      PROVE  j \in 1 .. tail - 1
  <2>1. /\ i \in 1 .. N /\ j \in 1 .. N /\ msgs[j].kind = "result"
        /\ i < j /\ j <= i + Len(msgs[i].calls) /\ Len(msgs[i].calls) \in Nat
    <3>1. i \in 1 .. N
      BY <1>4
    <3>2. j \in 1 .. N
      BY <1>5, <3>1
    <3>3. msgs[j].kind = "result"
      BY <1>5, <3>1, <3>2
    <3>4. i < j /\ Window(msgs, i) = i + 1 .. i + Len(msgs[i].calls) /\ Len(msgs[i].calls) \in Nat
      BY <1>5, <3>1
    <3> QED
      BY <3>1, <3>2, <3>3, <3>4
  <2>2. SUFFICES ASSUME j \in tail .. N PROVE FALSE
    BY <1>1, <2>1
  <2>3. PICK x \in tail .. N : j \in Window(msgs, x)
    BY <2>1, <2>2 DEF PairedOn, N
  <2>4. x \in 1 .. N /\ x < j /\ msgs[x].kind = "assistant"
    <3>1. x \in 1 .. N
      BY <1>1, <2>3
    <3> QED
      BY <1>5, <2>3, <3>1
  <2>5. x \in Window(msgs, i)
    <3> DEFINE len == Len(msgs[i].calls)
    <3>1. Window(msgs, i) = i + 1 .. i + len /\ len \in Nat /\ j <= i + len
      BY <1>5, <2>1
    <3> HIDE DEF len
    <3> QED
      BY <1>1, <2>1, <2>3, <2>4, <3>1
  <2>6. msgs[x].kind = "result"
    BY <1>5, <2>1, <2>4, <2>5
  <2> QED
    BY <2>4, <2>6
<1>7. PairedOn(msgs, D)
  <2>1. ASSUME NEW i \in D, NEW j \in Window(msgs, i) PROVE j \in D
    <3>1. j \in 1 .. tail - 1 /\ i \in 1 .. N /\ j \in 1 .. N
      BY <1>4, <1>6
    <3>2. msgs[j].kind = "result"
      BY <1>5, <3>1
    <3>3. j \notin Pinned(msgs)
      BY <1>2, <3>2
    <3> QED
      BY <1>4, <3>1, <3>3
  <2>2. ASSUME NEW j \in D, msgs[j].kind = "result" PROVE \E i \in D : j \in Window(msgs, i)
    <3>1. j \in 1 .. tail - 1 /\ j \in 1 .. N
      BY <1>4
    <3>2. PICK i \in 1 .. N : j \in Window(msgs, i)
      BY <1>5, <2>2, <3>1
    <3>3. i < j /\ msgs[i].kind = "assistant"
      BY <1>5, <3>2
    <3>4. i \in 1 .. tail - 1 /\ i \notin Pinned(msgs)
      BY <1>2, <3>1, <3>3
    <3> QED
      BY <1>4, <3>2, <3>4
  <2>3. \A i \in D : i \in 1 .. N
    BY <1>4
  <2> HIDE DEF D
  <2>4. ASSUME NEW j \in D, NEW i \in D, j \in Window(msgs, i) PROVE msgs[j].kind = "result"
    BY <1>5, <2>3, <2>4
  <2>5. \A i \in D : /\ IsInjective(msgs[i].calls)
                     /\ {msgs[j].answers : j \in Window(msgs, i)} = ToSet(msgs[i].calls)
    BY <1>5, <2>3
  <2> QED
    BY <2>1, <2>2, <2>4, <2>5 DEF PairedOn
<1>8. PairedOn(msgs, J)
  <2>1. \A i \in J : i \in 1 .. Len(msgs) /\ msgs[i].kind # "assistant" /\ msgs[i].kind # "result"
    BY <1>2 DEF N
  <2> HIDE DEF J
  <2>2. ASSUME NEW i \in J
        PROVE  /\ Window(msgs, i) = {} /\ IsInjective(msgs[i].calls)
               /\ ToSet(msgs[i].calls) = {}
    BY <2>1, CallersCall
  <2> QED
    BY <2>1, <2>2 DEF PairedOn
<1>9. D \in SUBSET (1 .. Len(msgs)) /\ J \in SUBSET (1 .. Len(msgs))
  BY <1>2, <1>4 DEF N
<1> HIDE DEF D, J
<1>10. /\ WellPaired(Select(msgs, D)) /\ WellPaired(Select(msgs, J))
       /\ Select(msgs, D) \in Seq(Message) /\ Select(msgs, J) \in Seq(Message)
  BY <1>7, <1>8, <1>9, PairedSelection, SelectType
<1>11. WellPaired(Select(msgs, D) \o Select(msgs, J))
  <2> DEFINE a == Select(msgs, D)
             b == Select(msgs, J)
  <2>1. a \in Seq(Message) /\ b \in Seq(Message) /\ WellPaired(a) /\ WellPaired(b)
    BY <1>10
  <2> HIDE DEF a, b
  <2>2. WellPaired(a \o b)
    BY <2>1, PairedConcat
  <2> QED
    BY <2>2 DEF a, b
<1> QED
  BY <1>11 DEF SummarizerMessages, D, J

\* Behind a chunk's end there is no result of a call before it.
LEMMA BoundaryUncrossed ==
    ASSUME NEW msgs \in Seq(Message), WellPaired(msgs), NEW e \in Boundaries(msgs),
           NEW i \in 1 .. e
    PROVE  Window(msgs, i) \subseteq 1 .. e
<1> DEFINE calls == msgs[i].calls
           len == Len(calls)
           W == i + 1 .. e
           ans == [j \in W |-> msgs[j].answers]
<1>1. DOMAIN msgs = 1 .. Len(msgs) /\ Len(msgs) \in Nat
  BY LenProperties
<1>2. e \in 1 .. Len(msgs) /\ i \in 1 .. Len(msgs)
  BY <1>1 DEF Boundaries
<1>3. /\ calls \in Seq(CallIds) /\ len \in Nat /\ IsInjective(calls)
      /\ Window(msgs, i) = i + 1 .. i + len
  BY <1>1, <1>2, CallersCall DEF WellPaired, Window
<1>4. \A id \in ToSet(calls) : \E j \in W : msgs[j].answers = id
  BY DEF Boundaries
<1>5. ToSet(calls) \subseteq {ans[j] : j \in W}
  <2>1. ASSUME NEW id \in ToSet(calls) PROVE id \in {ans[j] : j \in W}
    <3>1. PICK j \in W : msgs[j].answers = id
      BY <1>4
    <3>2. ans[j] = id
      BY <3>1
    <3> QED
      BY <3>2
  <2> QED
    BY <2>1
<1>6. IsFiniteSet(W) /\ Cardinality(W) = e - i
  <2> DEFINE a == i + 1
  <2>1. a \in Int /\ e \in Int /\ (a > e => e - i = 0) /\ e - a + 1 = e - i
    BY <1>1, <1>2
  <2> HIDE DEF a
  <2>2. IsFiniteSet(a .. e) /\ Cardinality(a .. e) = IF a > e THEN 0 ELSE e - a + 1
    BY <2>1, FS_Interval
  <2>3. Cardinality(a .. e) = e - i
    BY <2>1, <2>2
  <2> QED
    BY <2>2, <2>3 DEF a
<1>7. ~(e - i < len)
  <2>1. DOMAIN ans = W /\ ans = [j \in W |-> ans[j]]
    OBVIOUS
  <2> HIDE DEF ans, W, calls
  <2>2. SUFFICES ASSUME e - i < len PROVE FALSE
    OBVIOUS
  <2>3. Cardinality(W) < Len(calls)
    BY <1>6, <2>2
  <2>4. ~(ToSet(calls) \subseteq {ans[j] : j \in W})
    BY <1>3, <1>6, <2>1, <2>3, AnswersLack
  <2> QED
    BY <1>5, <2>4
<1> HIDE DEF len
<1> QED
  BY <1>1, <1>2, <1>3, <1>7

\* A chunk of a well-paired input is well paired.
LEMMA ChunkPaired ==
    ASSUME NEW msgs \in Seq(Message), WellPaired(msgs), NEW a, NEW b,
           a \in Boundaries(msgs) \cup {0}, b \in Boundaries(msgs) \cup {Len(msgs)}, a <= b
    PROVE  WellPaired(SubSeq(msgs, a + 1, b))
<1> DEFINE N == Len(msgs)
           D == a + 1 .. b
<1>1. DOMAIN msgs = 1 .. N /\ N \in Nat
  BY LenProperties
<1>2. a \in 0 .. N /\ b \in 0 .. N
  BY <1>1 DEF Boundaries
<1>3. PairedOn(msgs, 1 .. N)
  BY <1>1, PairedWhole
<1>4. \A i \in 1 .. a : Window(msgs, i) \subseteq 1 .. a
  BY <1>2, BoundaryUncrossed
<1>5. \A i \in 1 .. b : Window(msgs, i) \subseteq 1 .. b
  BY <1>2, <1>3, BoundaryUncrossed DEF PairedOn
<1>6. \A i \in 1 .. N : \A j \in Window(msgs, i) : i < j /\ j \in Nat
  BY CallersCall
<1>7. \A i \in D : i \in 1 .. N /\ i \in 1 .. b /\ a < i
  <2> HIDE DEF N
  <2>1. a \in Nat /\ b \in Nat /\ b <= N
    BY <1>1, <1>2
  <2> QED
    BY <1>1, <2>1
<1>8. ASSUME NEW i \in D, NEW j \in Window(msgs, i) PROVE j \in D
  <2>1. i < j /\ j \in 1 .. b /\ a < i
    BY <1>5, <1>6, <1>7
  <2> QED
    BY <1>2, <2>1
<1>9. ASSUME NEW j \in D, msgs[j].kind = "result" PROVE \E i \in D : j \in Window(msgs, i)
  <2>1. PICK i \in 1 .. N : j \in Window(msgs, i)
    BY <1>3, <1>7, <1>9 DEF PairedOn
  <2>2. ~(i <= a)
    BY <1>2, <1>4, <1>7, <2>1
  <2>3. i < j
    BY <1>6, <2>1
  <2>4. i \in D
    BY <1>2, <1>7, <2>2, <2>3
  <2> QED
    BY <2>1, <2>4
<1>10. PairedOn(msgs, D)
  <2>1. \A i \in D : /\ IsInjective(msgs[i].calls)
                     /\ {msgs[j].answers : j \in Window(msgs, i)} = ToSet(msgs[i].calls)
    BY <1>3, <1>7 DEF PairedOn
  <2>2. \A j \in D : (\E i \in D : j \in Window(msgs, i)) => msgs[j].kind = "result"
    BY <1>3, <1>7 DEF PairedOn
  <2> HIDE DEF D
  <2> QED
    BY <1>8, <1>9, <2>1, <2>2 DEF PairedOn
<1>11. WellPaired(SubSeq(msgs, a + 1, b)) <=> PairedOn(msgs, a + 1 .. b)
  <2> DEFINE c == a + 1
  <2>1. c \in Nat /\ c >= 1 /\ b \in Nat /\ b <= Len(msgs)
    <3>1. a \in Nat /\ b \in Nat /\ b <= N
      <4> HIDE DEF N
      <4> QED
        BY <1>1, <1>2
    <3> QED
      BY <3>1
  <2> HIDE DEF c
  <2>2. WellPaired(SubSeq(msgs, c, b)) <=> PairedOn(msgs, c .. b)
    BY <2>1, PairedPart
  <2> QED
    BY <2>2 DEF c
<1> QED
  BY <1>10, <1>11

\* A chunk begins and ends where no exchange is cut, and the plan is kept with the
\* refusal of its next request.
JobInvariant ==
    /\ phase # "idle" => error # "oversized"
    /\ phase # "idle" \/ error = "oversized" =>
         /\ plan.limit \in TailTokens
         /\ plan.tail = SafeTailStart(source, TailByCost(source, plan.limit))
         /\ plan.kept = Kept(source, plan.tail)
         /\ plan.input = SummarizerMessages(source, plan.tail, plan.kept)
         /\ start \in Boundaries(plan.input) \cup {0}
         /\ WellPaired(summary)
    /\ error = "oversized" =>
         /\ upto \in Boundaries(plan.input) \cup {0} /\ upto < Len(plan.input)
         /\ ChunkEnds(plan.input, upto, summary) = {}

\* Nothing, and a summary, are well paired.
LEMMA SummaryPaired ==
    /\ WellPaired(<<>>)
    /\ \A shown, size : WellPaired(<<SummaryOf(shown, size)>>)
<1>1. WellPaired(<<>>)
  <2>1. DOMAIN <<>> = {}
    OBVIOUS
  <2> QED
    BY <2>1 DEF WellPaired
<1>2. ASSUME NEW text, text.kind = "assistant", text.calls = <<>>
      PROVE  WellPaired(<<text>>)
  <2> DEFINE u == <<text>>
  <2>1. DOMAIN u = {1} /\ u[1] = text
    OBVIOUS
  <2>2. Len(u[1].calls) = 0 /\ DOMAIN u[1].calls = {}
    BY <1>2
  <2> HIDE DEF u
  <2>3. Window(u, 1) = {} /\ IsInjective(u[1].calls) /\ ToSet(u[1].calls) = {}
    BY <2>2 DEF Window, IsInjective, ToSet
  <2>4. PairedOn(u, DOMAIN u)
    BY <1>2, <2>1, <2>3 DEF PairedOn
  <2> QED
    BY <2>4, PairedWhole DEF u
<1>3. ASSUME NEW shown, NEW size
      PROVE  SummaryOf(shown, size).kind = "assistant" /\ SummaryOf(shown, size).calls = <<>>
  BY DEF SummaryOf
<1> QED
  BY <1>1, <1>2, <1>3

\* Where a request was asked for, JobInvariant needs only what was known before.
LEMMA AskedJob ==
    ASSUME NEW done, AskChunk(plan'.input, done, summary'),
           plan'.input \in Seq(Message), done \in Boundaries(plan'.input) \cup {0},
           done < Len(plan'.input),
           plan'.limit \in TailTokens,
           plan'.tail = SafeTailStart(source', TailByCost(source', plan'.limit)),
           plan'.kept = Kept(source', plan'.tail),
           plan'.input = SummarizerMessages(source', plan'.tail, plan'.kept),
           start' = done, WellPaired(summary')
    PROVE  JobInvariant'
<1> DEFINE ends == ChunkEnds(plan'.input, done, summary')
<1>1. ends = {} => phase' = "idle" /\ error' = "oversized" /\ upto' = done
  BY DEF AskChunk
<1>2. ends # {} => phase' = "chunks" /\ error' = "none"
  BY DEF AskChunk
<1>3. ends = {} => ChunkEnds(plan'.input, upto', summary') = {}
  BY <1>1
<1> HIDE DEF ends
<1>4. CASE ends = {}
  BY <1>1, <1>3, <1>4 DEF JobInvariant
<1>5. CASE ends # {}
  BY <1>2, <1>5 DEF JobInvariant
<1> QED
  BY <1>4, <1>5

\* A new transcript has no job.
LEMMA JobInit == Init => JobInvariant
BY DEF Init, JobInvariant

\* A compaction begins at the start of what it summarizes, which is not empty.
LEMMA BeginKeepsJob ==
    ASSUME StateInvariant, NEW t \in TailTokens, NEW k \in KeepImages, Begin(t, k)
    PROVE  JobInvariant'
<1> DEFINE msgs == Projected(transcript, k)
           tail == SafeTailStart(msgs, TailByCost(msgs, t))
           kept == Kept(msgs, tail)
           input == SummarizerMessages(msgs, tail, kept)
<1>1. transcript \in Seq(Message) /\ t \in Nat
  BY LimitAssumption DEF StateInvariant, TypeInvariant
<1>2. msgs \in Seq(Message)
  BY <1>1, ProjectedMasks
<1>3. kept = DOMAIN msgs => phase' = "idle" /\ error' # "oversized"
  BY DEF Begin
<1>4. kept # DOMAIN msgs =>
        /\ source' = msgs
        /\ plan' = [kept |-> kept, tail |-> tail, input |-> input, limit |-> t]
        /\ start' = 0 /\ summary' = <<>>
        /\ \/ AskChunk(input, 0, <<>>)
           \/ phase' = "whole" /\ error' = "none"
  BY DEF Begin
<1> HIDE DEF msgs
<1>5. tail \in 1 .. Len(msgs) + 1
  BY <1>1, <1>2, TailRange
<1>6. kept \in SUBSET DOMAIN msgs /\ tail .. Len(msgs) \subseteq kept
  <2>1. kept \in SUBSET DOMAIN msgs
    <3> HIDE DEF tail
    <3> QED
      BY <1>2, <1>5, KeptType
  <2> QED
    BY <2>1 DEF Kept
<1>7. input \in Seq(Message)
      /\ ToSet(input) = {msgs[i] : i \in (DOMAIN msgs \ kept) \cup LatestSystem(msgs)}
  <2> HIDE DEF kept, tail
  <2> QED
    BY <1>2, <1>5, <1>6, InputElements
<1>8. CASE kept = DOMAIN msgs
  BY <1>3, <1>8 DEF JobInvariant
<1>9. CASE kept # DOMAIN msgs
  <2>1. /\ source' = msgs /\ start' = 0 /\ summary' = <<>>
        /\ plan'.kept = kept /\ plan'.tail = tail /\ plan'.input = input /\ plan'.limit = t
    BY <1>4, <1>9
  <2>2. 0 < Len(input)
    <3>1. PICK i \in DOMAIN msgs : i \notin kept
      BY <1>6, <1>9
    <3>2. msgs[i] \in ToSet(input)
      BY <1>7, <3>1
    <3> HIDE DEF input
    <3>3. PICK n \in DOMAIN input : input[n] = msgs[i]
      BY <3>2 DEF ToSet
    <3>4. DOMAIN input = 1 .. Len(input) /\ Len(input) \in Nat
      BY <1>7, LenProperties
    <3> QED
      BY <3>3, <3>4
  <2>3. /\ plan'.tail = SafeTailStart(source', TailByCost(source', plan'.limit))
        /\ plan'.kept = Kept(source', plan'.tail)
        /\ plan'.input = SummarizerMessages(source', plan'.tail, plan'.kept)
    BY <2>1
  <2>4. WellPaired(summary')
    BY <2>1, SummaryPaired
  <2> HIDE DEF input, kept, tail
  <2>5. CASE AskChunk(input, 0, <<>>)
    <3> DEFINE done == 0
    <3>1. AskChunk(plan'.input, done, summary')
      BY <2>1, <2>5
    <3>2. done \in Boundaries(plan'.input) \cup {0} /\ done < Len(plan'.input) /\ start' = done
      BY <2>1, <2>2
    <3> HIDE DEF done
    <3> QED
      BY <1>7, <2>1, <2>3, <2>4, <3>1, <3>2, AskedJob
  <2>6. CASE phase' = "whole" /\ error' = "none"
    BY <2>1, <2>3, <2>4, <2>6 DEF JobInvariant
  <2> QED
    BY <1>4, <1>9, <2>5, <2>6
<1> QED
  BY <1>8, <1>9

\* The next chunk begins where the last one ended.
LEMMA ReplyKeepsJob ==
    ASSUME StateInvariant, JobInvariant, NEW size \in SummarySizes, Reply(size)
    PROVE  JobInvariant'
<1> DEFINE text == SummaryOf(Request, size)
<1>1. phase # "idle" /\ TypeInvariant /\ PlanInvariant
  BY DEF Reply, StateInvariant
<1>2. /\ plan.input \in Seq(Message) /\ upto \in Nat /\ upto <= Len(plan.input)
  BY <1>1 DEF TypeInvariant
<1>3. CASE upto < Len(plan.input)
  <2>1. /\ AskChunk(plan.input, upto, <<text>>) /\ summary' = <<text>> /\ start' = upto
        /\ source' = source /\ plan' = plan
    BY <1>3 DEF Reply
  <2>2. upto \in Boundaries(plan.input)
    <3>1. phase = "chunks"
      BY <1>1, <1>2, <1>3 DEF TypeInvariant, PlanInvariant
    <3> QED
      BY <1>1, <3>1 DEF PlanInvariant, ChunkEnds
  <2>3. WellPaired(summary')
    BY <2>1, SummaryPaired
  <2> HIDE DEF text
  <2>4. /\ plan'.limit \in TailTokens
        /\ plan'.tail = SafeTailStart(source', TailByCost(source', plan'.limit))
        /\ plan'.kept = Kept(source', plan'.tail)
        /\ plan'.input = SummarizerMessages(source', plan'.tail, plan'.kept)
    BY <1>1, <2>1 DEF PlanInvariant
  <2> DEFINE done == upto
  <2>5. /\ AskChunk(plan'.input, done, summary') /\ plan'.input \in Seq(Message)
        /\ done \in Boundaries(plan'.input) \cup {0} /\ done < Len(plan'.input)
        /\ start' = done
    BY <1>2, <1>3, <2>1, <2>2
  <2> HIDE DEF done
  <2> QED
    BY <2>3, <2>4, <2>5, AskedJob
<1>4. CASE ~(upto < Len(plan.input))
  <2>1. phase' = "idle" /\ error' = error
    BY <1>4 DEF Reply
  <2> QED
    BY <1>1, <2>1 DEF JobInvariant
<1> QED
  BY <1>3, <1>4

\* Every step keeps what is known of the job.
LEMMA JobStep == StateInvariant /\ JobInvariant /\ [Next]_vars => JobInvariant'
<1> SUFFICES ASSUME StateInvariant, JobInvariant, [Next]_vars PROVE JobInvariant'
  OBVIOUS
<1>1. ASSUME NEW letter \in Alphabet, Append1(letter) PROVE JobInvariant'
  BY <1>1 DEF Append1, job, JobInvariant
<1>2. ASSUME NEW t \in TailTokens, NEW k \in KeepImages, Begin(t, k) PROVE JobInvariant'
  BY <1>2, BeginKeepsJob
<1>3. ASSUME NEW size \in SummarySizes, Reply(size) PROVE JobInvariant'
  BY <1>3, ReplyKeepsJob
<1>4. CASE Fail
  BY <1>4 DEF Fail, JobInvariant
<1>5. CASE UNCHANGED vars
  BY <1>5 DEF vars, JobInvariant
<1> QED
  BY <1>1, <1>2, <1>3, <1>4, <1>5 DEF Next

\* The invariant holds of every compaction.
LEMMA JobHolds == Spec => []JobInvariant
BY CompactionTyped, JobInit, JobStep, PTL DEF Spec

\* The input of a well-paired transcript is well paired.
LEMMA PlannedInput ==
    ASSUME StateInvariant, JobInvariant, phase # "idle" \/ error = "oversized",
           WellPaired(source)
    PROVE  WellPaired(plan.input)
<1>1. /\ source \in Seq(Message) /\ plan.limit \in Nat
      /\ plan.tail = SafeTailStart(source, TailByCost(source, plan.limit))
      /\ plan.input = SummarizerMessages(source, plan.tail, Kept(source, plan.tail))
  BY LimitAssumption DEF StateInvariant, TypeInvariant, JobInvariant
<1> DEFINE tail == plan.tail
           cut == TailByCost(source, plan.limit)
<1>2. tail \in 1 .. Len(source) + 1 /\ cut \in 1 .. Len(source) + 1
  BY <1>1, TailRange, TailByCostRange
<1>3. FirstViolation(source, tail) = 0
  <2> HIDE DEF cut
  <2>1. FirstViolation(source, SafeTailStart(source, cut)) = 0
    BY <1>1, <1>2, SafeTailStep
  <2> QED
    BY <1>1, <2>1 DEF cut
<1> HIDE DEF tail
<1>4. PairedOn(source, tail .. Len(source))
  BY <1>1, <1>2, <1>3, ViolationMeans
<1>5. WellPaired(SummarizerMessages(source, tail, Kept(source, tail)))
  BY <1>1, <1>2, <1>4, InputPaired
<1> QED
  BY <1>1, <1>5 DEF tail

\* No request for a well-paired transcript separates a call from its results, however
\* the images, the tail and the chunks were cut.
THEOREM RequestsPaired == Spec => []RequestsArePaired
<1>1. ASSUME StateInvariant, JobInvariant PROVE RequestsArePaired
  <2> SUFFICES ASSUME phase # "idle", WellPaired(source) PROVE WellPaired(Request)
    BY DEF RequestsArePaired
  <2> DEFINE t == plan.input
  <2>1. /\ t \in Seq(Message) /\ summary \in Seq(Message) /\ WellPaired(summary)
        /\ start \in Nat /\ upto \in Nat /\ start <= upto /\ upto <= Len(t)
        /\ start \in Boundaries(t) \cup {0}
    BY <1>1 DEF StateInvariant, TypeInvariant, JobInvariant
  <2>2. upto \in Boundaries(t) \cup {Len(t)}
    BY <1>1 DEF StateInvariant, TypeInvariant, PlanInvariant, ChunkEnds
  <2>3. WellPaired(t)
    BY <1>1, PlannedInput
  <2> HIDE DEF t
  <2>4. WellPaired(SubSeq(t, start + 1, upto))
    BY <2>1, <2>2, <2>3, ChunkPaired
  <2>5. SubSeq(t, start + 1, upto) \in Seq(Message)
    <3> DEFINE m == start + 1
    <3>1. m \in Nat /\ m >= 1
      BY <2>1
    <3> HIDE DEF m
    <3>2. SubSeq(t, m, upto) \in Seq(Message)
      BY <2>1, <3>1, ElementsOfPart
    <3> QED
      BY <3>2 DEF m
  <2> DEFINE u == SubSeq(t, start + 1, upto)
  <2>6. WellPaired(summary \o u)
    <3>1. u \in Seq(Message) /\ WellPaired(u)
      BY <2>4, <2>5
    <3> HIDE DEF u
    <3> QED
      BY <2>1, <3>1, PairedConcat
  <2> QED
    BY <2>6 DEF Request, t
<1> QED
  BY <1>1, CompactionTyped, JobHolds, PTL

\* A well-paired transcript is refused as oversized only if the next exchange of it,
\* with the summary so far, does not fit a request by itself.
THEOREM RefusalJustified == Spec => []RefusedForOneExchange
<1>1. ASSUME StateInvariant, JobInvariant PROVE RefusedForOneExchange
  <2> SUFFICES ASSUME error = "oversized", WellPaired(source) PROVE ~NextExchangeFits(upto)
    BY DEF RefusedForOneExchange
  <2> DEFINE t == plan.input
             i == upto + 1
             len == Len(t[i].calls)
             e == upto + 1 + len
  <2>1. /\ t \in Seq(Message) /\ upto \in Nat /\ upto < Len(t)
        /\ upto \in Boundaries(t) \cup {0} /\ ChunkEnds(t, upto, summary) = {}
    BY <1>1 DEF StateInvariant, TypeInvariant, JobInvariant
  <2>2. WellPaired(t)
    BY <1>1, PlannedInput
  <2> HIDE DEF t
  <2>3. DOMAIN t = 1 .. Len(t) /\ Len(t) \in Nat /\ i \in 1 .. Len(t)
    BY <2>1, LenProperties
  <2>4. PairedOn(t, 1 .. Len(t))
    BY <2>2, <2>3, PairedWhole
  <2> HIDE DEF i
  <2>5. /\ len \in Nat /\ Window(t, i) = i + 1 .. i + len /\ Window(t, i) \subseteq 1 .. Len(t)
        /\ {t[j].answers : j \in Window(t, i)} = ToSet(t[i].calls)
        /\ \A j \in Window(t, i) : j \in 1 .. Len(t) /\ t[j].kind = "result"
    <3>1. /\ len \in Nat /\ Window(t, i) = i + 1 .. i + len
      BY <2>1, <2>3, CallersCall DEF Window
    <3>2. /\ Window(t, i) \subseteq 1 .. Len(t)
          /\ {t[j].answers : j \in Window(t, i)} = ToSet(t[i].calls)
      BY <2>3, <2>4 DEF PairedOn
    <3>3. \A j \in Window(t, i) : j \in 1 .. Len(t) /\ t[j].kind = "result"
      BY <2>3, <2>4, <3>2 DEF PairedOn
    <3> QED
      BY <3>1, <3>2, <3>3
  <2>6. e = i + len
    BY DEF i
  <2> HIDE DEF len, e
  <2>7. e \in 1 .. Len(t) /\ e > upto
    <3>1. i + len <= Len(t)
      <4> DEFINE one == 1
                 last == Len(t)
      <4>1. one \in Int /\ last \in Int /\ i \in one .. last
        BY <2>3
      <4>2. i + 1 .. i + len \subseteq one .. last
        BY <2>5
      <4> HIDE DEF one, last
      <4>3. i + len <= last
        BY <2>5, <4>1, <4>2, IntervalWithin
      <4> QED
        BY <4>3 DEF last
    <3>2. i > upto
      BY <2>1 DEF i
    <3> QED
      BY <2>1, <2>3, <2>5, <2>6, <3>1, <3>2
  <2>8. ASSUME NEW x \in 1 .. e, NEW id \in ToSet(t[x].calls)
        PROVE  \E j \in x + 1 .. e : t[j].kind = "result" /\ t[j].answers = id
    <3>1. x <= upto \/ x = i \/ x \in i + 1 .. i + len
      BY <2>1, <2>5, <2>6 DEF i
    <3>2. CASE x <= upto
      <4>1. upto \in Boundaries(t) /\ x \in 1 .. upto
        BY <2>1, <3>2
      <4>2. PICK j \in x + 1 .. upto : t[j].kind = "result" /\ t[j].answers = id
        BY <4>1 DEF Boundaries
      <4>3. j \in x + 1 .. e
        BY <2>1, <2>7, <4>2
      <4> QED
        BY <4>2, <4>3
    <3>3. CASE x = i
      <4>1. PICK j \in Window(t, i) : t[j].answers = id
        BY <2>5, <3>3
      <4>2. t[j].kind = "result" /\ j \in x + 1 .. e
        BY <2>5, <2>6, <3>3
      <4> QED
        BY <4>1, <4>2
    <3>4. CASE x \in i + 1 .. i + len
      <4>1. x \in 1 .. Len(t) /\ t[x].kind = "result"
        BY <2>5, <3>4
      <4>2. ToSet(t[x].calls) = {}
        BY <2>1, <4>1, CallersCall
      <4> QED
        BY <4>2
    <3> QED
      BY <3>1, <3>2, <3>3, <3>4
  <2>9. e \in Boundaries(t)
    BY <2>3, <2>7, <2>8 DEF Boundaries
  <2>10. ~(Overhead + CostOf(summary, 1, Len(summary)) + CostOf(t, upto + 1, e) < Budget)
    BY <2>1, <2>7, <2>9 DEF ChunkEnds
  <2> QED
    BY <2>10 DEF NextExchangeFits, e, len, i, t
<1> QED
  BY <1>1, CompactionTyped, JobHolds, PTL
=============================================================================
