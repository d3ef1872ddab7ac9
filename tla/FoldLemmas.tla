----------------------------- MODULE FoldLemmas -----------------------------
(***************************************************************************)
(* Induction over the natural numbers, and what it says about the folds    *)
(* the models use.  The induction theorems of the library take an operator *)
(* and the provers cannot instantiate one; here the induction is over a    *)
(* set, and the steps of a fold are a function, which they can.            *)
(***************************************************************************)
EXTENDS Integers, Sequences, SequencesExt, TLAPS, SequenceTheorems, WellFoundedInduction

\* Induction over the natural numbers, for the set of those that qualify.
LEMMA Induction ==
    ASSUME NEW S, 0 \in S, \A n \in S \cap Nat : n + 1 \in S
    PROVE  Nat \subseteq S
<1> DEFINE R == OpToRel(<, Nat)
<1>1. IsWellFoundedOn(R, Nat)
  BY NatLessThanWellFounded
<1>2. \A x, y \in Nat : y < x => <<y, x>> \in R
  BY DEF OpToRel
<1> HIDE DEF R
<1>3. SUFFICES ASSUME Nat \ S # {} PROVE FALSE
  OBVIOUS
<1>4. PICK x \in Nat \ S : \A y \in Nat \ S : ~(<<y, x>> \in R)
  BY <1>1, <1>3, WFMin
<1>5. x # 0 /\ x - 1 \in Nat /\ x - 1 < x
  BY <1>4
<1>6. x - 1 \in S
  BY <1>2, <1>4, <1>5
<1>7. (x - 1) + 1 \in S
  BY <1>5, <1>6
<1> QED BY <1>4, <1>5, <1>7

\* The same up to a bound.
LEMMA InductionTo ==
    ASSUME NEW N \in Nat, NEW S, 0 \in S, \A n \in 0 .. (N - 1) : n \in S => n + 1 \in S
    PROVE  0 .. N \subseteq S
<1> DEFINE T == {n \in Nat : n <= N => n \in S}
<1>1. 0 \in T
  OBVIOUS
<1>2. ASSUME NEW n \in T \cap Nat PROVE n + 1 \in T
  <2>1. CASE n + 1 <= N
    BY <2>1
  <2>2. CASE ~(n + 1 <= N)
    BY <2>2
  <2> QED BY <2>1, <2>2
<1>3. Nat \subseteq T
  <2> HIDE DEF T
  <2> QED BY <1>1, <1>2, Induction
<1> QED BY <1>3

\* A bounded set of positive numbers has a greatest one.
LEMMA Greatest ==
    ASSUME NEW N \in Nat, NEW t \in SUBSET (1 .. N), t # {}
    PROVE  Max(t) \in t /\ \A x \in t : x <= Max(t)
<1> DEFINE S == {n \in Nat : \A v \in SUBSET (1 .. n) :
                   v # {} => \E x \in v : \A y \in v : x >= y}
<1>1. 0 \in S
  <2>1. 1 .. 0 = {}
    OBVIOUS
  <2> QED BY <2>1
<1>2. ASSUME NEW n \in S \cap Nat PROVE n + 1 \in S
  <2> SUFFICES ASSUME NEW v \in SUBSET (1 .. n + 1), v # {}
               PROVE  \E x \in v : \A y \in v : x >= y
    OBVIOUS
  <2>1. CASE n + 1 \in v
    BY <2>1
  <2>2. CASE n + 1 \notin v
    <3>1. v \in SUBSET (1 .. n)
      BY <2>2
    <3> QED BY <3>1
  <2> QED BY <2>1, <2>2
<1>3. Nat \subseteq S
  <2> HIDE DEF S
  <2> QED BY <1>1, <1>2, Induction
<1>4. \E x \in t : \A y \in t : x >= y
  BY <1>3
<1> QED BY <1>4 DEF Max

LEMMA GreatestOfInterval ==
    ASSUME NEW n \in Nat \ {0}
    PROVE  Max(1 .. n) = n /\ (1 .. n) \ {n} = 1 .. (n - 1)
<1> DEFINE t == 1 .. n
<1>1. n \in Nat /\ t \in SUBSET (1 .. n) /\ t # {} /\ n \in t
  <2>1. n \in t
    OBVIOUS
  <2> QED BY <2>1
<1>2. Max(t) \in t /\ \A x \in t : x <= Max(t)
  <2> HIDE DEF t
  <2> QED BY <1>1, Greatest
<1>3. Max(t) = n
  BY <1>1, <1>2
<1> QED BY <1>3

\* The recursive function of a fold over 1 .. N exists when its steps, from D
\* to D, are given as a function.
IsFold(N, base, G, h) ==
    h = [t \in SUBSET (1 .. N) |->
           IF t = {} THEN base ELSE G[Max(t)][h[t \ {Max(t)}]]]

\* The values the fold takes on the way to its result.
IsTrace(N, base, G, f, result) ==
    /\ f[0] = base
    /\ \A n \in 1 .. N : f[n] = G[n][f[n - 1]]
    /\ f[N] = result

LEMMA FoldExists ==
    ASSUME NEW N \in Nat, NEW D, NEW base \in D, NEW G \in [1 .. N -> [D -> D]]
    PROVE  \E h \in [SUBSET (1 .. N) -> D] : IsFold(N, base, G, h)
<1> DEFINE S == {n \in Nat : \E h \in [SUBSET (1 .. n) -> D] :
                   IsFold(n, base, G, h)}
<1>1. 0 \in S
  <2> DEFINE h == [t \in SUBSET (1 .. 0) |-> base]
  <2>1. h \in [SUBSET (1 .. 0) -> D]
    OBVIOUS
  <2>2. IsFold(0, base, G, h)
    BY DEF IsFold
  <2> QED BY <2>1, <2>2
<1>2. ASSUME NEW n \in 0 .. (N - 1), n \in S PROVE n + 1 \in S
  <2>1. PICK h \in [SUBSET (1 .. n) -> D] : IsFold(n, base, G, h)
    BY <1>2
  <2> DEFINE g == [t \in SUBSET (1 .. n + 1) |->
                     IF n + 1 \in t THEN G[n + 1][h[t \ {n + 1}]] ELSE h[t]]
  <2>2. ASSUME NEW t \in SUBSET (1 .. n + 1)
        PROVE  /\ g[t] \in D
               /\ g[t] = IF t = {} THEN base ELSE G[Max(t)][g[t \ {Max(t)}]]
    <3>1. CASE n + 1 \in t
      <4>1. Max(t) = n + 1
        <5>1. n + 1 \in Nat /\ t # {}
          BY <3>1
        <5>2. Max(t) \in t /\ \A x \in t : x <= Max(t)
          <6> HIDE DEF g, S
          <6> QED BY <5>1, Greatest
        <5>3. Max(t) \in 1 .. n + 1
          BY <5>2
        <5> QED BY <3>1, <5>2, <5>3
      <4>2. t \ {n + 1} \in SUBSET (1 .. n) /\ t \ {n + 1} \in SUBSET (1 .. n + 1)
        OBVIOUS
      <4>3. g[t \ {n + 1}] = h[t \ {n + 1}]
        BY <4>2
      <4>4. g[t] = G[n + 1][h[t \ {n + 1}]]
        BY <3>1
      <4>5. G[n + 1] \in [D -> D] /\ h[t \ {n + 1}] \in D
        BY <2>1, <4>2
      <4> HIDE DEF g
      <4> QED BY <3>1, <4>1, <4>3, <4>4, <4>5
    <3>2. CASE n + 1 \notin t
      <4>1. t \in SUBSET (1 .. n) /\ t \ {Max(t)} \in SUBSET (1 .. n)
            /\ t \ {Max(t)} \in SUBSET (1 .. n + 1)
        <5>1. \A x \in t : x \in 1 .. n
          BY <3>2
        <5> QED BY <5>1
      <4>2. g[t] = h[t] /\ g[t \ {Max(t)}] = h[t \ {Max(t)}]
        BY <3>2, <4>1
      <4>3. h[t] = IF t = {} THEN base ELSE G[Max(t)][h[t \ {Max(t)}]]
        BY <2>1, <4>1 DEF IsFold
      <4>4. h[t] \in D
        BY <2>1, <4>1
      <4> HIDE DEF g
      <4> QED BY <4>2, <4>3, <4>4
    <3> QED BY <3>1, <3>2
  <2>3. g \in [SUBSET (1 .. n + 1) -> D]
    <3>1. \A t \in SUBSET (1 .. n + 1) : g[t] \in D
      BY <2>2
    <3> QED BY <3>1
  <2>4. IsFold(n + 1, base, G, g)
    <3>1. g = [t \in SUBSET (1 .. n + 1) |-> g[t]]
      OBVIOUS
    <3> HIDE DEF g
    <3> QED BY <2>2, <3>1 DEF IsFold
  <2> HIDE DEF g
  <2> QED BY <2>3, <2>4
<1>3. 0 .. N \subseteq S
  <2> HIDE DEF S
  <2> QED BY <1>1, <1>2, InductionTo
<1>4. N \in S
  <2>1. N \in 0 .. N
    OBVIOUS
  <2> HIDE DEF S
  <2> QED BY <1>3, <2>1
<1> QED BY <1>4

\* The values a fold takes on the way: from h[{}] to h[1 .. N].
LEMMA FoldTrace ==
    ASSUME NEW N \in Nat, NEW D, NEW base \in D, NEW G \in [1 .. N -> [D -> D]],
           NEW h, h[{}] = base,
           \A n \in 1 .. N : h[1 .. (n - 1)] \in D =>
                               h[1 .. n] = G[n][h[1 .. (n - 1)]]
    PROVE  \E f \in [0 .. N -> D] : IsTrace(N, base, G, f, h[1 .. N])
<1> DEFINE S == {n \in Nat : h[1 .. n] \in D}
           f == [n \in 0 .. N |-> h[1 .. n]]
<1>1. 0 \in S
  <2>1. 1 .. 0 = {}
    OBVIOUS
  <2> QED BY <2>1
<1>2. ASSUME NEW n \in 0 .. (N - 1), n \in S PROVE n + 1 \in S
  <2>1. n + 1 \in 1 .. N /\ (n + 1) - 1 = n
    OBVIOUS
  <2>2. h[1 .. ((n + 1) - 1)] \in D
    BY <1>2, <2>1
  <2>3. h[1 .. (n + 1)] = G[n + 1][h[1 .. ((n + 1) - 1)]]
    BY <2>1, <2>2
  <2> QED BY <2>1, <2>2, <2>3
<1>3. 0 .. N \subseteq S
  <2> HIDE DEF S
  <2> QED BY <1>1, <1>2, InductionTo
<1>4. f \in [0 .. N -> D]
  BY <1>3
<1>5. f[0] = base
  <2>1. 1 .. 0 = {}
    OBVIOUS
  <2> QED BY <2>1
<1>6. ASSUME NEW n \in 1 .. N PROVE f[n] = G[n][f[n - 1]]
  <2>1. n - 1 \in 0 .. N /\ n \in 0 .. N
    OBVIOUS
  <2>2. h[1 .. (n - 1)] \in D
    BY <1>3, <2>1
  <2> QED BY <2>1, <2>2
<1>7. f[N] = h[1 .. N]
  OBVIOUS
<1> HIDE DEF f
<1> QED BY <1>4, <1>5, <1>6, <1>7 DEF IsTrace

\* A fold as the equation it solves.
IsSolution(N, D, base, G, g) ==
    /\ g[{}] = base
    /\ g = [t \in SUBSET (1 .. N) |-> g[t]]
    /\ \A t \in SUBSET (1 .. N) : t # {} =>
         /\ Max(t) \in 1 .. N
         /\ g[t \ {Max(t)}] \in D
         /\ g[t] = G[Max(t)][g[t \ {Max(t)}]]

LEMMA FoldSolution ==
    ASSUME NEW N \in Nat, NEW D, NEW base \in D, NEW G \in [1 .. N -> [D -> D]]
    PROVE  \E g : IsSolution(N, D, base, G, g)
<1>1. PICK g \in [SUBSET (1 .. N) -> D] : IsFold(N, base, G, g)
  BY FoldExists
<1>2. ASSUME NEW t \in SUBSET (1 .. N), t # {}
      PROVE  /\ Max(t) \in 1 .. N /\ g[t \ {Max(t)}] \in D
             /\ g[t] = G[Max(t)][g[t \ {Max(t)}]]
  <2>1. Max(t) \in 1 .. N /\ t \ {Max(t)} \in SUBSET (1 .. N)
    BY <1>2, Greatest
  <2>2. g[t] = G[Max(t)][g[t \ {Max(t)}]]
    BY <1>1, <1>2 DEF IsFold
  <2> QED BY <1>1, <2>1, <2>2
<1>3. g[{}] = base
  BY <1>1 DEF IsFold
<1>4. g = [t \in SUBSET (1 .. N) |-> g[t]]
  BY <1>1
<1> QED BY <1>2, <1>3, <1>4 DEF IsSolution

Total(s) == FoldLeft(+, 0, s)

\* The sums of the beginnings of a sequence of numbers.
LEMMA SumTrace ==
    ASSUME NEW s \in Seq(Int)
    PROVE  \E f \in [0 .. Len(s) -> Int] :
             /\ f[0] = 0
             /\ \A n \in 1 .. Len(s) : f[n] = f[n - 1] + s[n]
             /\ f[Len(s)] = Total(s)
<1> DEFINE N == Len(s)
           D == Int
           base == 0
           G == [x \in 1 .. N |-> [y \in Int |-> y + s[x]]]
           Eq(h) == h = [t \in SUBSET (DOMAIN s) |->
                           IF t = {} THEN 0 ELSE h[t \ {Max(t)}] + s[Max(t)]]
           h == CHOOSE g : Eq(g)
<1>1. /\ N \in Nat /\ DOMAIN s = 1 .. N /\ \A x \in 1 .. N : s[x] \in Int
      /\ base \in D
  OBVIOUS
<1>2. G \in [1 .. N -> [D -> D]]
  BY <1>1
<1>3. Total(s) = h[DOMAIN s]
  BY DEF Total, FoldLeft, MapThenFoldSet
<1>4. Eq(h)
  <2>1. PICK g \in [SUBSET (1 .. N) -> D] : IsFold(N, base, G, g)
    <3> HIDE DEF N, G, D, Eq, h, base
    <3> QED BY <1>1, <1>2, FoldExists
  <2>2. ASSUME NEW t \in SUBSET (1 .. N), t # {}
        PROVE  G[Max(t)][g[t \ {Max(t)}]] = g[t \ {Max(t)}] + s[Max(t)]
    <3>1. Max(t) \in 1 .. N /\ t \ {Max(t)} \in SUBSET (1 .. N)
      <4> HIDE DEF N, G, Eq
      <4> QED BY <1>1, <2>2, Greatest
    <3>2. g[t \ {Max(t)}] \in Int
      BY <2>1, <3>1
    <3> HIDE DEF N, h, Eq
    <3> QED BY <3>1, <3>2
  <2>3. Eq(g)
    <3> HIDE DEF N, G, h
    <3> QED BY <1>1, <2>1, <2>2 DEF IsFold
  <2> HIDE DEF Eq
  <2> QED BY <2>3
<1>5. h[{}] = base
  <2> HIDE DEF N, G, h
  <2> QED BY <1>4
<1>6. ASSUME NEW n \in 1 .. N, h[1 .. (n - 1)] \in Int
      PROVE  h[1 .. n] = G[n][h[1 .. (n - 1)]]
  <2>1. Max(1 .. n) = n /\ (1 .. n) \ {n} = 1 .. (n - 1)
    BY <1>1, GreatestOfInterval
  <2>2. 1 .. n \in SUBSET (DOMAIN s) /\ n \in 1 .. n
    <3> HIDE DEF h, Eq, G, N
    <3> QED BY <1>1
  <2>3. h[1 .. n] = h[1 .. (n - 1)] + s[n]
    <3> HIDE DEF N, G, h
    <3> QED BY <1>4, <2>1, <2>2
  <2> HIDE DEF N, h, Eq
  <2> QED BY <1>6, <2>3
<1>7. \E f \in [0 .. N -> D] : IsTrace(N, base, G, f, h[1 .. N])
  <2>1. \A n \in 1 .. N : h[1 .. (n - 1)] \in D =>
                           h[1 .. n] = G[n][h[1 .. (n - 1)]]
    BY <1>6
  <2> HIDE DEF N, G, h, Eq, D, base
  <2> QED BY <1>1, <1>2, <1>5, <2>1, FoldTrace
<1> QED
  <2>1. PICK f \in [0 .. N -> Int] :
          /\ f[0] = 0
          /\ \A n \in 1 .. N : f[n] = G[n][f[n - 1]]
          /\ f[N] = h[1 .. N]
    <3> HIDE DEF N, G, h, Eq
    <3> QED BY <1>7 DEF IsTrace
  <2>2. ASSUME NEW n \in 1 .. N PROVE f[n] = f[n - 1] + s[n]
    <3>1. f[n - 1] \in Int
      BY <1>1, <2>1
    <3>2. f[n] = G[n][f[n - 1]]
      BY <2>1
    <3> HIDE DEF N, h, Eq
    <3> QED BY <3>1, <3>2
  <2> HIDE DEF h, G, Eq
  <2> QED BY <1>1, <1>3, <2>1, <2>2

\* Whatever adds up the elements one by one arrives at the sum.
LEMMA SumByParts ==
    ASSUME NEW s \in Seq(Int), NEW f \in [0 .. Len(s) -> Int], f[0] = 0,
           \A n \in 1 .. Len(s) : f[n] = f[n - 1] + s[n]
    PROVE  f[Len(s)] = Total(s)
<1>1. PICK g \in [0 .. Len(s) -> Int] :
        /\ g[0] = 0
        /\ \A n \in 1 .. Len(s) : g[n] = g[n - 1] + s[n]
        /\ g[Len(s)] = Total(s)
  BY SumTrace
<1> DEFINE N == Len(s)
           S == {n \in Nat : f[n] = g[n]}
<1>2. N \in Nat /\ 0 \in S
  <2>1. f[0] = g[0]
    BY <1>1
  <2> QED BY <2>1
<1>3. ASSUME NEW n \in 0 .. (N - 1), n \in S PROVE n + 1 \in S
  <2>1. n + 1 \in 1 .. Len(s) /\ (n + 1) - 1 = n
    BY <1>2
  <2>2. f[n + 1] = f[n] + s[n + 1] /\ g[n + 1] = g[n] + s[n + 1]
    BY <1>1, <2>1
  <2> QED BY <1>3, <2>1, <2>2
<1>4. 0 .. N \subseteq S
  <2> HIDE DEF S, N
  <2> QED BY <1>2, <1>3, InductionTo
<1>5. N \in 0 .. N
  BY <1>2
<1> QED BY <1>1, <1>4, <1>5

LEMMA SumEmpty == Total(<<>>) = 0
<1>1. <<>> \in Seq(Int) /\ Len(<<>>) = 0
  OBVIOUS
<1>2. \E f \in [0 .. Len(<<>>) -> Int] :
        /\ f[0] = 0
        /\ \A n \in 1 .. Len(<<>>) : f[n] = f[n - 1] + <<>>[n]
        /\ f[Len(<<>>)] = Total(<<>>)
  BY <1>1, SumTrace
<1> QED BY <1>1, <1>2

\* The sum of a sequence with an element more at its end, or one less at its
\* front.
LEMMA SumAppend ==
    ASSUME NEW s \in Seq(Int), NEW x \in Int
    PROVE  Total(Append(s, x)) = Total(s) + x
<1> DEFINE N == Len(s)
           t == Append(s, x)
<1>1. PICK f \in [0 .. N -> Int] :
        /\ f[0] = 0
        /\ \A n \in 1 .. N : f[n] = f[n - 1] + s[n]
        /\ f[N] = Total(s)
  BY SumTrace
<1> DEFINE g == [n \in 0 .. Len(t) |-> IF n = N + 1 THEN f[N] + x ELSE f[n]]
<1>2. /\ t \in Seq(Int) /\ Len(t) = N + 1 /\ N \in Nat /\ t[N + 1] = x
      /\ \A n \in 1 .. N : t[n] = s[n]
  OBVIOUS
<1>3. g \in [0 .. Len(t) -> Int] /\ g[0] = 0 /\ g[Len(t)] = f[N] + x
  <2> HIDE DEF N, t
  <2>1. N \in 0 .. N /\ f[N] \in Int /\ 0 # N + 1
    <3>1. N \in 0 .. N /\ 0 # N + 1
      BY <1>2
    <3> QED BY <1>1, <3>1
  <2>2. ASSUME NEW n \in 0 .. Len(t), n # N + 1 PROVE f[n] \in Int
    <3>1. n \in 0 .. N
      BY <1>2, <2>2
    <3> QED BY <1>1, <3>1
  <2>3. \A n \in 0 .. Len(t) : g[n] \in Int
    BY <2>1, <2>2
  <2>4. 0 \in 0 .. Len(t) /\ N + 1 \in 0 .. Len(t)
    BY <1>2
  <2> QED BY <1>1, <1>2, <2>1, <2>3, <2>4
<1>4. ASSUME NEW n \in 1 .. Len(t) PROVE g[n] = g[n - 1] + t[n]
  <2>1. n \in 0 .. Len(t) /\ n - 1 \in 0 .. Len(t) /\ n - 1 # N + 1
    BY <1>2
  <2>2. CASE n = N + 1
    BY <1>2, <2>1, <2>2
  <2>3. CASE n # N + 1
    <3>1. n \in 1 .. N
      BY <1>2, <2>3
    <3>2. f[n] = f[n - 1] + s[n] /\ t[n] = s[n]
      BY <1>1, <1>2, <3>1
    <3>3. g[n] = f[n] /\ g[n - 1] = f[n - 1]
      BY <2>1, <2>3
    <3> QED BY <3>2, <3>3
  <2> QED BY <2>2, <2>3
<1>5. g[Len(t)] = Total(t)
  <2> HIDE DEF g, t, N
  <2> QED BY <1>2, <1>3, <1>4, SumByParts
<1> QED BY <1>1, <1>3, <1>5

LEMMA SumTail ==
    ASSUME NEW s \in Seq(Int), s # <<>>
    PROVE  Total(Tail(s)) = Total(s) - Head(s)
<1> DEFINE N == Len(s)
           t == Tail(s)
<1>1. PICK f \in [0 .. N -> Int] :
        /\ f[0] = 0
        /\ \A n \in 1 .. N : f[n] = f[n - 1] + s[n]
        /\ f[N] = Total(s)
  BY SumTrace
<1> DEFINE g == [n \in 0 .. Len(t) |-> f[n + 1] - s[1]]
<1>2. /\ N \in Nat \ {0} /\ t \in Seq(Int) /\ Len(t) = N - 1
      /\ Head(s) = s[1] /\ s[1] \in Int
      /\ \A n \in 1 .. Len(t) : t[n] = s[n + 1]
  <2>1. N \in Nat \ {0}
    OBVIOUS
  <2> QED BY <2>1
<1>3. g \in [0 .. Len(t) -> Int]
  <2>1. ASSUME NEW n \in 0 .. Len(t) PROVE f[n + 1] - s[1] \in Int
    <3>1. n + 1 \in 0 .. N
      BY <1>2
    <3>2. f[n + 1] \in Int
      <4> HIDE DEF N, t
      <4> QED BY <1>1, <3>1
    <3> HIDE DEF N, t
    <3> QED BY <1>2, <3>2
  <2> QED BY <2>1
<1>4. g[0] = 0 /\ g[Len(t)] = f[N] - s[1]
  <2> HIDE DEF N, t
  <2>1. 1 \in 1 .. N /\ 1 - 1 = 0 /\ 0 + 1 = 1
    BY <1>2
  <2>2. f[1] = s[1]
    <3> HIDE DEF g
    <3>1. f[1] = f[1 - 1] + s[1]
      BY <1>1, <2>1
    <3>2. f[0] = 0
      BY <1>1
    <3> QED BY <1>2, <2>1, <3>1, <3>2
  <2>3. 0 \in 0 .. Len(t) /\ Len(t) \in 0 .. Len(t) /\ Len(t) + 1 = N
    BY <1>2
  <2> QED BY <1>2, <2>1, <2>2, <2>3
<1>5. ASSUME NEW n \in 1 .. Len(t) PROVE g[n] = g[n - 1] + t[n]
  <2>1. n + 1 \in 1 .. N /\ (n + 1) - 1 = n /\ n \in 0 .. N /\ n + 1 \in 0 .. N
        /\ n \in 0 .. Len(t) /\ n - 1 \in 0 .. Len(t) /\ (n - 1) + 1 = n
    BY <1>2
  <2>2. f[n + 1] = f[n] + s[n + 1] /\ t[n] = s[n + 1]
    BY <1>1, <1>2, <2>1
  <2>3. g[n] = f[n + 1] - s[1] /\ g[n - 1] = f[n] - s[1]
    BY <2>1
  <2>4. f[n] \in Int /\ f[n + 1] \in Int /\ s[1] \in Int
    <3> HIDE DEF N, t
    <3> QED BY <1>1, <1>2, <2>1
  <2>5. s[n + 1] \in Int
    BY <2>1
  <2> HIDE DEF N, t, g
  <2> QED BY <2>2, <2>3, <2>4, <2>5
<1>6. g[Len(t)] = Total(t)
  <2> HIDE DEF g, t, N
  <2> QED BY <1>2, <1>3, <1>4, <1>5, SumByParts
<1> QED BY <1>1, <1>2, <1>4, <1>6

LEMMA SumType ==
    ASSUME NEW s \in Seq(Int)
    PROVE  Total(s) \in Int
<1>1. PICK f \in [0 .. Len(s) -> Int] : f[Len(s)] = Total(s)
  BY SumTrace
<1>2. Len(s) \in 0 .. Len(s)
  OBVIOUS
<1> QED BY <1>1, <1>2

\* A sequence with one element more at its end.
LEMMA IsAppend ==
    ASSUME NEW T, NEW s \in Seq(T), NEW x \in T, NEW t \in Seq(T),
           Len(t) = Len(s) + 1, t[Len(s) + 1] = x,
           \A i \in 1 .. Len(s) : t[i] = s[i]
    PROVE  t = Append(s, x)
<1> DEFINE u == Append(s, x)
<1>1. u \in Seq(T) /\ Len(u) = Len(t)
  BY AppendProperties
<1>2. \A i \in 1 .. Len(t) : t[i] = u[i]
  <2>1. \A i \in 1 .. Len(t) : i = Len(s) + 1 \/ i \in 1 .. Len(s)
    OBVIOUS
  <2> QED BY <2>1, AppendProperties
<1> HIDE DEF u
<1>3. t = u
  BY <1>1, <1>2, SeqEqual
<1> QED BY <1>3 DEF u

\* The beginnings of a sequence.
LEMMA LongerPrefix ==
    ASSUME NEW T, NEW s \in Seq(T), NEW n \in 0 .. (Len(s) - 1)
    PROVE  SubSeq(s, 1, n + 1) = Append(SubSeq(s, 1, n), s[n + 1])
<1>0. Len(s) \in Nat /\ n \in Int /\ n + 1 \in Int /\ n + 1 \in 1 .. Len(s)
      /\ \A i \in 1 .. Len(s) : s[i] \in T
  OBVIOUS
<1> DEFINE a == SubSeq(s, 1, n)
           b == SubSeq(s, 1, n + 1)
<1>1. a \in Seq(T) /\ Len(a) = n /\ \A i \in 1 .. n : a[i] = s[i]
  <2>1. \A i \in 1 .. n : s[i] \in T
    BY <1>0
  <2>2. /\ a \in Seq(T) /\ Len(a) = IF 1 <= n THEN n - 1 + 1 ELSE 0
        /\ \A i \in 1 .. n - 1 + 1 : a[i] = s[1 + i - 1]
    BY <1>0, <2>1, SubSeqProperties
  <2>3. n - 1 + 1 = n /\ (~(1 <= n) => n = 0) /\ \A i \in 1 .. n : 1 + i - 1 = i
    BY <1>0
  <2> HIDE DEF a
  <2> QED BY <2>2, <2>3
<1>2. b \in Seq(T) /\ Len(b) = n + 1 /\ \A i \in 1 .. n + 1 : b[i] = s[i]
  <2>1. \A i \in 1 .. n + 1 : s[i] \in T
    BY <1>0
  <2>2. /\ b \in Seq(T) /\ Len(b) = IF 1 <= n + 1 THEN (n + 1) - 1 + 1 ELSE 0
        /\ \A i \in 1 .. (n + 1) - 1 + 1 : b[i] = s[1 + i - 1]
    BY <1>0, <2>1, SubSeqProperties
  <2>3. (n + 1) - 1 + 1 = n + 1 /\ 1 <= n + 1 /\ \A i \in 1 .. n + 1 : 1 + i - 1 = i
    BY <1>0
  <2> HIDE DEF b
  <2> QED BY <2>2, <2>3
<1>3. \A i \in 1 .. n : i \in 1 .. n + 1
  BY <1>0
<1> HIDE DEF a, b
<1>4. b = Append(a, s[n + 1])
  BY <1>0, <1>1, <1>2, <1>3, IsAppend
<1> QED BY <1>4 DEF a, b

\* Sums of natural numbers are natural numbers, and no less than each of them.
LEMMA SumNat ==
    ASSUME NEW s \in Seq(Nat)
    PROVE  Total(s) \in Nat /\ \A n \in 1 .. Len(s) : s[n] <= Total(s)
<1>0. s \in Seq(Int) /\ Len(s) \in Nat
  OBVIOUS
<1>1. PICK f \in [0 .. Len(s) -> Int] :
        /\ f[0] = 0
        /\ \A n \in 1 .. Len(s) : f[n] = f[n - 1] + s[n]
        /\ f[Len(s)] = Total(s)
  BY <1>0, SumTrace
<1> DEFINE S == {n \in 0 .. Len(s) : f[n] >= 0 /\ \A i \in 1 .. n : s[i] <= f[n]}
<1>2. 0 \in S
  BY <1>0, <1>1
<1>3. ASSUME NEW n \in 0 .. (Len(s) - 1), n \in S PROVE n + 1 \in S
  <2>1. n + 1 \in 1 .. Len(s) /\ (n + 1) - 1 = n /\ n + 1 \in 0 .. Len(s)
    BY <1>0
  <2>2. f[n + 1] = f[n] + s[n + 1] /\ s[n + 1] \in Nat /\ f[n] \in Int /\ f[n] >= 0
    BY <1>1, <1>3, <2>1
  <2>3. ASSUME NEW i \in 1 .. (n + 1) PROVE s[i] <= f[n + 1]
    <3>1. CASE i = n + 1
      BY <2>2, <3>1
    <3>2. CASE i # n + 1
      <4>1. i \in 1 .. n /\ s[i] \in Int
        BY <2>1, <3>2
      <4>2. s[i] <= f[n]
        BY <1>3, <4>1
      <4> QED BY <2>2, <4>1, <4>2
    <3> QED BY <3>1, <3>2
  <2> QED BY <2>1, <2>2, <2>3
<1>4. 0 .. Len(s) \subseteq S
  <2> HIDE DEF S
  <2> QED BY <1>0, <1>2, <1>3, InductionTo
<1>5. Len(s) \in 0 .. Len(s)
  BY <1>0
<1>6. f[Len(s)] \in Int /\ f[Len(s)] >= 0 /\ \A i \in 1 .. Len(s) : s[i] <= f[Len(s)]
  BY <1>1, <1>4, <1>5
<1> HIDE DEF S
<1> QED BY <1>1, <1>6

\* The sequence w is v with a elements x before it and c, none or one, behind.
Between(w, v, a, c, x) ==
    /\ Len(w) = a + Len(v) + c
    /\ \A i \in 1 .. a : w[i] = x
    /\ \A i \in 1 .. Len(v) : w[a + i] = v[i]
    /\ c = 1 => w[a + Len(v) + 1] = x


\* The sum of a sequence between equal elements, all 0 or all 1: a of them in
\* front of it and c, one or none, behind.
LEMMA SumBetween ==
    ASSUME NEW a \in Nat, NEW c \in {0, 1}, NEW x \in {0, 1},
           NEW v \in Seq(Int), NEW w \in Seq(Int), Between(w, v, a, c, x)
    PROVE  Total(w) = Total(v) + (IF x = 1 THEN a + c ELSE 0)
<1> USE DEF Between
<1> DEFINE n == Len(v)
<1>0. n \in Nat
  OBVIOUS
<1>1. PICK g \in [0 .. n -> Int] :
        /\ g[0] = 0
        /\ \A i \in 1 .. n : g[i] = g[i - 1] + v[i]
        /\ g[n] = Total(v)
  BY SumTrace
<1> DEFINE ones(i) == IF x = 1 THEN i ELSE 0
           f == [i \in 0 .. Len(w) |->
                   IF i <= a THEN ones(i)
                   ELSE IF i <= a + n THEN ones(a) + g[i - a]
                   ELSE ones(a + 1) + g[n]]
<1>2. Len(w) = a + n + c /\ Len(w) \in Nat
  BY <1>0
<1>3. \A i \in 0 .. n : g[i] \in Int
  BY <1>1
<1> HIDE DEF n
<1>4. f \in [0 .. Len(w) -> Int]
  <2> SUFFICES ASSUME NEW i \in 0 .. Len(w)
               PROVE  (IF i <= a THEN ones(i)
                       ELSE IF i <= a + n THEN ones(a) + g[i - a]
                       ELSE ones(a + 1) + g[n]) \in Int
    OBVIOUS
  <2> HIDE DEF f
  <2>1. CASE i <= a
    BY <1>2, <2>1
  <2>2. CASE a < i /\ i <= a + n
    <3>1. i - a \in 0 .. n /\ ~(i <= a)
      BY <1>0, <1>2, <2>2
    <3>2. g[i - a] \in Int
      BY <1>3, <3>1
    <3> QED BY <2>2, <3>1, <3>2
  <2>3. CASE i > a + n
    <3>1. g[n] \in Int /\ ~(i <= a) /\ ~(i <= a + n)
      BY <1>0, <1>2, <1>3, <2>3
    <3> QED BY <3>1
  <2> QED BY <1>0, <1>2, <2>1, <2>2, <2>3
<1>5. f[0] = 0
  <2>1. 0 \in 0 .. Len(w) /\ 0 <= a
    BY <1>2
  <2> QED BY <2>1
<1>6. ASSUME NEW i \in 1 .. Len(w) PROVE f[i] = f[i - 1] + w[i]
  <2>0. i \in 0 .. Len(w) /\ i - 1 \in 0 .. Len(w)
    BY <1>2
  <2>1. CASE i <= a
    <3>1. i \in 1 .. a /\ i - 1 <= a
      BY <2>1
    <3>2. w[i] = x
      BY <3>1
    <3>3. f[i] = ones(i) /\ f[i - 1] = ones(i - 1)
      BY <2>0, <2>1, <3>1
    <3> HIDE DEF f
    <3> QED BY <3>2, <3>3
  <2>2. CASE a < i /\ i <= a + n
    <3>1. i - a \in 1 .. n /\ a + (i - a) = i /\ ~(i <= a)
      BY <1>0, <1>2, <2>2
    <3>2. w[i] = v[i - a] /\ g[i - a] = g[(i - a) - 1] + v[i - a]
      BY <1>1, <3>1 DEF n
    <3>3. f[i] = ones(a) + g[i - a]
      BY <2>0, <2>2, <3>1
    <3>4. f[i - 1] = ones(a) + g[(i - a) - 1]
      <4>1. CASE i - 1 <= a
        <5>1. i - 1 = a /\ (i - a) - 1 = 0
          BY <2>2, <4>1
        <5>2. f[i - 1] = ones(a)
          BY <2>0, <4>1, <5>1
        <5> HIDE DEF f
        <5> QED BY <1>1, <5>1, <5>2
      <4>2. CASE ~(i - 1 <= a)
        <5>1. i - 1 <= a + n /\ (i - 1) - a = (i - a) - 1
          BY <1>0, <2>2
        <5> QED BY <2>0, <4>2, <5>1
      <4> QED BY <4>1, <4>2
    <3>5. g[(i - a) - 1] \in Int /\ v[i - a] \in Int
      <4>1. (i - a) - 1 \in 0 .. n
        BY <1>0, <3>1
      <4> QED BY <1>3, <3>1, <4>1 DEF n
    <3> HIDE DEF f
    <3> QED BY <3>2, <3>3, <3>4, <3>5, SMTT(60)
  <2>3. CASE i > a + n
    <3>1. c = 1 /\ i = a + n + 1 /\ i - 1 = a + n /\ ~(i <= a) /\ ~(i <= a + n)
      BY <1>0, <1>2, <2>3
    <3>2. w[i] = x
      BY <3>1 DEF n
    <3>3. f[i] = ones(a + 1) + g[n]
      BY <2>0, <3>1
    <3>4. f[i - 1] = ones(a) + g[n]
      <4>1. CASE n = 0
        <5>1. i - 1 <= a /\ i - 1 = a
          BY <3>1, <4>1
        <5>2. f[i - 1] = ones(a)
          BY <2>0, <5>1
        <5> HIDE DEF f
        <5> QED BY <1>1, <4>1, <5>2
      <4>2. CASE n # 0
        <5>1. ~(i - 1 <= a) /\ i - 1 <= a + n /\ (i - 1) - a = n
          BY <1>0, <3>1, <4>2
        <5> QED BY <2>0, <5>1
      <4> QED BY <4>1, <4>2
    <3>5. g[n] \in Int
      BY <1>0, <1>3
    <3> HIDE DEF f
    <3> QED BY <3>2, <3>3, <3>4, <3>5
  <2> QED BY <1>0, <1>2, <2>1, <2>2, <2>3
<1>7. f[Len(w)] = Total(w)
  <2> HIDE DEF f
  <2> QED BY <1>4, <1>5, <1>6, SumByParts
<1>8. f[Len(w)] = g[n] + ones(a + c)
  <2>0. Len(w) \in 0 .. Len(w)
    BY <1>2
  <2>1. CASE Len(w) <= a
    <3>1. n = 0 /\ c = 0 /\ Len(w) = a
      BY <1>0, <1>2, <2>1
    <3>2. f[Len(w)] = ones(a)
      BY <2>0, <2>1, <3>1
    <3> HIDE DEF f
    <3> QED BY <1>1, <3>1, <3>2
  <2>2. CASE a < Len(w) /\ Len(w) <= a + n
    <3>1. c = 0 /\ Len(w) - a = n /\ ~(Len(w) <= a)
      <4> HIDE DEF f
      <4>1. a + n + c <= a + n
        BY <1>2, <2>2
      <4>2. c = 0
        BY <1>0, <4>1
      <4> QED BY <1>0, <1>2, <2>2, <4>2
    <3>2. f[Len(w)] = ones(a) + g[n]
      BY <2>0, <2>2, <3>1
    <3>3. g[n] \in Int
      BY <1>0, <1>3
    <3> HIDE DEF f
    <3> QED BY <3>1, <3>2, <3>3
  <2>3. CASE Len(w) > a + n
    <3>1. c = 1 /\ ~(Len(w) <= a) /\ ~(Len(w) <= a + n)
      BY <1>0, <1>2, <2>3
    <3>2. f[Len(w)] = ones(a + 1) + g[n]
      BY <2>0, <3>1
    <3>3. g[n] \in Int
      BY <1>0, <1>3
    <3> HIDE DEF f
    <3> QED BY <3>1, <3>2, <3>3
  <2> QED BY <1>0, <1>2, <2>1, <2>2, <2>3
<1> HIDE DEF f
<1> QED BY <1>1, <1>7, <1>8

\* Sums add up.
LEMMA SumPlus ==
    ASSUME NEW u \in Seq(Int), NEW v \in Seq(Int), NEW w \in Seq(Int),
           Len(u) = Len(w), Len(v) = Len(w),
           \A i \in 1 .. Len(w) : w[i] = u[i] + v[i]
    PROVE  Total(w) = Total(u) + Total(v)
<1> DEFINE n == Len(w)
<1>1. PICK f \in [0 .. n -> Int] :
        /\ f[0] = 0
        /\ \A i \in 1 .. n : f[i] = f[i - 1] + u[i]
        /\ f[n] = Total(u)
  BY SumTrace
<1>2. PICK g \in [0 .. n -> Int] :
        /\ g[0] = 0
        /\ \A i \in 1 .. n : g[i] = g[i - 1] + v[i]
        /\ g[n] = Total(v)
  BY SumTrace
<1> DEFINE h == [i \in 0 .. n |-> f[i] + g[i]]
<1>3. n \in Nat /\ \A i \in 1 .. n : u[i] \in Int /\ v[i] \in Int
  OBVIOUS
<1> HIDE DEF n
<1>4. h \in [0 .. n -> Int] /\ \A i \in 0 .. n : h[i] = f[i] + g[i]
  OBVIOUS
<1>5. 0 \in 0 .. n /\ n \in 0 .. n
  BY <1>3
<1> HIDE DEF h
<1>6. h[0] = 0 /\ h[n] = Total(u) + Total(v)
  BY <1>1, <1>2, <1>4, <1>5
<1>7. ASSUME NEW i \in 1 .. n PROVE h[i] = h[i - 1] + w[i]
  <2>1. i \in 0 .. n /\ i - 1 \in 0 .. n
    BY <1>3
  <2>2. f[i] = f[i - 1] + u[i] /\ g[i] = g[i - 1] + v[i]
    BY <1>1, <1>2
  <2>3. w[i] = u[i] + v[i] /\ u[i] \in Int /\ v[i] \in Int /\ f[i - 1] \in Int /\ g[i - 1] \in Int
    BY <1>3, <2>1 DEF n
  <2> QED BY <1>4, <2>1, <2>2, <2>3, SMTT(60)
<1>8. h[n] = Total(w)
  BY <1>4, <1>6, <1>7, SumByParts DEF n
<1> QED BY <1>6, <1>8

-----------------------------------------------------------------------------
(* FlattenSeq, a recursive function.                                       *)

\* The sequences it is built from.
LEMMA FlattenTrace ==
    ASSUME NEW T, NEW s \in Seq(Seq(T)), s # <<>>
    PROVE  \E f \in [1 .. Len(s) -> Seq(T)] :
             /\ f[1] = s[1]
             /\ \A n \in 2 .. Len(s) : f[n] = f[n - 1] \o s[n]
             /\ f[Len(s)] = FlattenSeq(s)
<1> DEFINE N == Len(s)
           Eq(h) == h = [i \in 1 .. N |-> IF i = 1 THEN s[i] ELSE h[i - 1] \o s[i]]
           h == CHOOSE g : Eq(g)
           Long(n, f) == /\ f[1] = s[1]
                         /\ \A i \in 2 .. n : f[i] = f[i - 1] \o s[i]
           S == {n \in 0 .. (N - 1) : \E f \in [1 .. n + 1 -> Seq(T)] : Long(n + 1, f)}
<1>1. N \in Nat /\ N >= 1 /\ N - 1 \in Nat /\ \A i \in 1 .. N : s[i] \in Seq(T)
  OBVIOUS
<1>2. FlattenSeq(s) = h[N]
  BY <1>1 DEF FlattenSeq
<1> HIDE DEF N
<1>3. 0 \in S
  <2> DEFINE f == [i \in 1 .. 1 |-> s[1]]
  <2>1. s[1] \in Seq(T)
    BY <1>1
  <2>2. f \in [1 .. 1 -> Seq(T)] /\ f[1] = s[1]
    BY <2>1
  <2>3. 0 + 1 = 1 /\ 0 \in 0 .. (N - 1) /\ 2 .. 1 = {}
    BY <1>1
  <2> HIDE DEF f
  <2>4. Long(0 + 1, f)
    BY <2>2, <2>3
  <2> HIDE DEF Long
  <2> QED BY <2>2, <2>3, <2>4
<1>4. ASSUME NEW n \in 0 .. (N - 1 - 1), n \in S PROVE n + 1 \in S
  <2>1. PICK f \in [1 .. n + 1 -> Seq(T)] : Long(n + 1, f)
    BY <1>4
  <2> DEFINE m == n + 1
             k == (n + 1) + 1
             g == [i \in 1 .. k |-> IF i = k THEN f[m] \o s[k] ELSE f[i]]
  <2>2. m \in 1 .. m /\ k \in 1 .. N /\ m \in 0 .. (N - 1) /\ k - 1 = m /\ 1 # k /\ 1 \in 1 .. k
    BY <1>1
  <2>3. \A i \in 1 .. k : i # k => i \in 1 .. m
    BY <1>1
  <2>4. f \in [1 .. m -> Seq(T)] /\ f[m] \o s[k] \in Seq(T)
    BY <1>1, <2>1, <2>2
  <2>5. g \in [1 .. k -> Seq(T)]
    <3> HIDE DEF m, k
    <3> QED BY <2>3, <2>4
  <2>6. \A i \in 1 .. k : g[i] = IF i = k THEN f[m] \o s[k] ELSE f[i]
    OBVIOUS
  <2>7. \A i \in 2 .. k : /\ i \in 1 .. k
                          /\ i # k => i \in 2 .. m /\ i - 1 \in 1 .. k /\ i - 1 # k
    BY <1>1
  <2>8. m \in 1 .. k /\ m # k
    BY <1>1
  <2> HIDE DEF g, m, k
  <2>9. Long(k, g)
    <3>1. g[1] = s[1]
      BY <2>1, <2>2, <2>6 DEF m
    <3>2. ASSUME NEW i \in 2 .. k PROVE g[i] = g[i - 1] \o s[i]
      <4>1. CASE i = k
        BY <2>2, <2>6, <2>7, <2>8, <4>1
      <4>2. CASE i # k
        <5>1. g[i] = f[i] /\ g[i - 1] = f[i - 1] /\ i \in 2 .. m
          BY <2>6, <2>7, <4>2
        <5> QED BY <2>1, <5>1 DEF m
      <4> QED BY <4>1, <4>2
    <3> QED BY <3>1, <3>2
  <2> HIDE DEF Long
  <2> QED BY <2>2, <2>5, <2>9 DEF m, k
<1>5. 0 .. (N - 1) \subseteq S
  <2> HIDE DEF S
  <2> QED BY <1>1, <1>3, <1>4, InductionTo
<1>6. PICK f \in [1 .. N -> Seq(T)] : Long(N, f)
  <2>1. N - 1 \in S /\ (N - 1) + 1 = N
    <3> HIDE DEF S
    <3> QED BY <1>1, <1>5
  <2> HIDE DEF Long
  <2> QED BY <2>1
<1>7. \A i \in 1 .. N : i # 1 => i \in 2 .. N /\ i - 1 \in 1 .. N
  BY <1>1
<1>8. Eq(h)
  <2>1. f = [i \in 1 .. N |-> f[i]]
    OBVIOUS
  <2>2. \A i \in 1 .. N : f[i] = IF i = 1 THEN s[i] ELSE f[i - 1] \o s[i]
    BY <1>6, <1>7
  <2>3. Eq(f)
    <3> HIDE DEF h
    <3> QED BY <2>1, <2>2, Zenon
  <2> HIDE DEF Eq
  <2> QED BY <2>3
<1>9. \A i \in 1 .. N : h[i] = IF i = 1 THEN s[i] ELSE h[i - 1] \o s[i]
  <2> HIDE DEF h
  <2> QED BY <1>8
<1>10. 1 \in 1 .. N /\ \A i \in 2 .. N : i \in 1 .. N /\ i # 1
  BY <1>1
<1> DEFINE R == {n \in 0 .. (N - 1) : h[n + 1] = f[n + 1]}
<1> HIDE DEF h, Eq
<1>11. 0 \in R
  <2>1. 0 + 1 = 1 /\ 0 \in 0 .. (N - 1)
    BY <1>1
  <2>2. h[1] = s[1] /\ f[1] = s[1]
    BY <1>6, <1>9, <1>10
  <2> QED BY <2>1, <2>2
<1>12. ASSUME NEW n \in 0 .. (N - 1 - 1), n \in R PROVE n + 1 \in R
  <2> DEFINE k == (n + 1) + 1
  <2>1. k \in 2 .. N /\ k - 1 = n + 1 /\ n + 1 \in 0 .. (N - 1)
    BY <1>1
  <2>2. h[n + 1] = f[n + 1]
    BY <1>12
  <2> HIDE DEF k, R
  <2>3. h[k] = h[k - 1] \o s[k] /\ f[k] = f[k - 1] \o s[k]
    BY <1>6, <1>9, <1>10, <2>1
  <2>4. h[k] = f[k]
    BY <2>1, <2>2, <2>3
  <2> QED BY <2>1, <2>4 DEF R, k
<1>13. h[N] = f[N]
  <2>1. 0 .. (N - 1) \subseteq R
    <3> HIDE DEF R
    <3> QED BY <1>1, <1>11, <1>12, InductionTo
  <2>2. N - 1 \in R /\ (N - 1) + 1 = N
    <3> HIDE DEF R
    <3> QED BY <1>1, <2>1
  <2> QED BY <2>2
<1> QED BY <1>2, <1>6, <1>13 DEF N

LEMMA FlattenType ==
    ASSUME NEW T, NEW s \in Seq(Seq(T))
    PROVE  FlattenSeq(s) \in Seq(T) /\ Len(FlattenSeq(s)) \in Nat
<1>1. CASE s = <<>>
  <2>1. FlattenSeq(s) = s
    BY <1>1 DEF FlattenSeq
  <2>2. <<>> \in Seq(T)
    OBVIOUS
  <2> QED BY <1>1, <2>1, <2>2
<1>2. CASE s # <<>>
  <2>1. PICK f \in [1 .. Len(s) -> Seq(T)] : f[Len(s)] = FlattenSeq(s)
    BY <1>2, FlattenTrace
  <2>2. Len(s) \in 1 .. Len(s)
    BY <1>2
  <2>3. FlattenSeq(s) \in Seq(T)
    BY <2>1, <2>2
  <2> QED BY <2>3
<1> QED BY <1>1, <1>2

\* One sequence more at the end.
LEMMA FlattenAppend ==
    ASSUME NEW T, NEW s \in Seq(Seq(T)), NEW x \in Seq(T)
    PROVE  FlattenSeq(Append(s, x)) = FlattenSeq(s) \o x
<1> DEFINE U == Seq(T)
           t == Append(s, x)
           N == Len(s)
<1>1. /\ N \in Nat /\ t \in Seq(U) /\ Len(t) = N + 1 /\ t[N + 1] = x /\ t # <<>>
      /\ \A i \in 1 .. N : t[i] = s[i]
  <2>1. s \in Seq(U) /\ x \in U
    OBVIOUS
  <2> HIDE DEF U
  <2> QED BY <2>1
<1> HIDE DEF t
<1>2. PICK g \in [1 .. Len(t) -> U] :
        /\ g[1] = t[1]
        /\ \A n \in 2 .. Len(t) : g[n] = g[n - 1] \o t[n]
        /\ g[Len(t)] = FlattenSeq(t)
  BY <1>1, FlattenTrace
<1>3. CASE s = <<>>
  <2>1. N = 0 /\ FlattenSeq(s) = <<>>
    BY <1>3 DEF FlattenSeq
  <2>2. FlattenSeq(t) = x
    BY <1>1, <1>2, <2>1
  <2>3. <<>> \o x = x
    OBVIOUS
  <2> QED BY <2>1, <2>2, <2>3 DEF t
<1>4. CASE s # <<>>
  <2>1. PICK f \in [1 .. N -> U] :
          /\ f[1] = s[1]
          /\ \A n \in 2 .. N : f[n] = f[n - 1] \o s[n]
          /\ f[N] = FlattenSeq(s)
    BY <1>4, FlattenTrace
  <2>2. N - 1 \in Nat /\ N \in 1 .. N /\ 1 \in 1 .. N
    <3>1. N # 0
      BY <1>4
    <3> HIDE DEF N
    <3> QED BY <1>1, <3>1
  <2> DEFINE R == {n \in 0 .. (N - 1) : g[n + 1] = f[n + 1]}
  <2> HIDE DEF N, U
  <2>3. 0 \in R
    <3>1. 0 \in 0 .. (N - 1) /\ 0 + 1 = 1
      BY <2>2
    <3> QED BY <1>1, <1>2, <2>1, <2>2, <3>1
  <2>4. ASSUME NEW n \in 0 .. (N - 1 - 1), n \in R PROVE n + 1 \in R
    <3> DEFINE k == (n + 1) + 1
    <3>1. /\ k \in 2 .. N /\ k \in 1 .. N /\ k \in 2 .. Len(t) /\ k - 1 = n + 1
          /\ n + 1 \in 0 .. (N - 1)
      BY <1>1, <2>2
    <3>2. g[n + 1] = f[n + 1]
      BY <2>4
    <3> HIDE DEF k, R
    <3>3. g[k] = g[k - 1] \o t[k] /\ f[k] = f[k - 1] \o s[k] /\ t[k] = s[k]
      BY <1>1, <1>2, <2>1, <3>1
    <3>4. g[k] = f[k]
      BY <3>1, <3>2, <3>3
    <3> QED BY <3>1, <3>4 DEF R, k
  <2>5. 0 .. (N - 1) \subseteq R
    <3> HIDE DEF R
    <3> QED BY <2>2, <2>3, <2>4, InductionTo
  <2>6. g[N] = f[N]
    <3>1. N - 1 \in R /\ (N - 1) + 1 = N
      <4> HIDE DEF R
      <4> QED BY <1>1, <2>2, <2>5
    <3> QED BY <3>1
  <2>7. N + 1 \in 2 .. Len(t) /\ (N + 1) - 1 = N /\ N + 1 = Len(t)
    BY <1>1, <2>2
  <2>8. g[N + 1] = g[N] \o t[N + 1]
    BY <1>2, <2>7
  <2> QED BY <1>1, <1>2, <2>1, <2>6, <2>7, <2>8 DEF t
<1> QED BY <1>3, <1>4

\* The first sequence comes first.
LEMMA FlattenHead ==
    ASSUME NEW T, NEW s \in Seq(Seq(T)), s # <<>>
    PROVE  FlattenSeq(s) = Head(s) \o FlattenSeq(Tail(s))
<1> DEFINE U == Seq(T)
           t == Tail(s)
           N == Len(t)
           x == Head(s)
<1>1. /\ t \in Seq(U) /\ x \in U /\ x = s[1] /\ N \in Nat /\ Len(s) = N + 1
      /\ \A i \in 1 .. N : t[i] = s[i + 1] /\ t[i] \in U
  <2>1. s \in Seq(U) /\ s # <<>>
    OBVIOUS
  <2> HIDE DEF U
  <2> QED BY <2>1
<1>2. PICK f \in [1 .. Len(s) -> U] :
        /\ f[1] = s[1]
        /\ \A n \in 2 .. Len(s) : f[n] = f[n - 1] \o s[n]
        /\ f[Len(s)] = FlattenSeq(s)
  BY FlattenTrace
<1>3. CASE t = <<>>
  <2> HIDE DEF t, x
  <2>1. N = 0 /\ FlattenSeq(t) = <<>>
    BY <1>3 DEF FlattenSeq
  <2> HIDE DEF N
  <2>2. Len(s) = 1
    BY <1>1, <2>1
  <2>3. FlattenSeq(s) = x
    BY <1>1, <1>2, <2>2
  <2>4. x \o <<>> = x
    BY <1>1
  <2> QED BY <2>1, <2>3, <2>4 DEF x, t
<1>4. CASE t # <<>>
  <2> HIDE DEF t, x
  <2>1. PICK g \in [1 .. N -> U] :
          /\ g[1] = t[1]
          /\ \A n \in 2 .. N : g[n] = g[n - 1] \o t[n]
          /\ g[N] = FlattenSeq(t)
    BY <1>1, <1>4, FlattenTrace
  <2>2. N - 1 \in Nat /\ N \in 1 .. N /\ 1 \in 1 .. N
    <3>1. N # 0
      BY <1>1, <1>4
    <3> HIDE DEF N
    <3> QED BY <1>1, <3>1
  <2> DEFINE R == {n \in 0 .. (N - 1) : f[(n + 1) + 1] = x \o g[n + 1]}
  <2> HIDE DEF N
  <2>3. 0 \in R
    <3>1. 0 \in 0 .. (N - 1) /\ 0 + 1 = 1 /\ 1 + 1 = 2 /\ 2 - 1 = 1 /\ 2 \in 2 .. Len(s)
      BY <1>1, <2>2
    <3>2. f[2] = f[1] \o s[2] /\ t[1] = s[1 + 1]
      BY <1>1, <1>2, <2>2, <3>1
    <3> QED BY <1>1, <1>2, <2>1, <3>1, <3>2
  <2>4. ASSUME NEW n \in 0 .. (N - 1 - 1), n \in R PROVE n + 1 \in R
    <3> DEFINE k == (n + 1) + 1
    <3>1. /\ k \in 2 .. N /\ k \in 1 .. N /\ k + 1 \in 2 .. Len(s) /\ (k + 1) - 1 = k
          /\ k - 1 = n + 1 /\ n + 1 \in 0 .. (N - 1) /\ n + 1 \in 1 .. N
      BY <1>1, <2>2
    <3>2. f[k] = x \o g[n + 1]
      BY <2>4
    <3> HIDE DEF k, R
    <3>3. f[k + 1] = f[k] \o s[k + 1] /\ g[k] = g[n + 1] \o t[k] /\ t[k] = s[k + 1]
      BY <1>1, <1>2, <2>1, <3>1
    <3>4. f[k + 1] = x \o g[k]
      <4> DEFINE y == g[n + 1]
                 z == t[k]
      <4>1. x \in Seq(T) /\ y \in Seq(T) /\ z \in Seq(T)
        BY <1>1, <2>1, <3>1
      <4> HIDE DEF y, z
      <4>2. (x \o y) \o z = x \o (y \o z)
        BY ONLY <4>1, ConcatAssociative
      <4> QED BY <3>2, <3>3, <4>2 DEF y, z
    <3> QED BY <3>1, <3>4 DEF R, k
  <2>5. 0 .. (N - 1) \subseteq R
    <3> HIDE DEF R
    <3> QED BY <2>2, <2>3, <2>4, InductionTo
  <2>6. f[N + 1] = x \o g[N]
    <3>1. N - 1 \in R /\ (N - 1) + 1 = N
      <4> HIDE DEF R
      <4> QED BY <1>1, <2>2, <2>5
    <3> QED BY <3>1
  <2> QED BY <1>1, <1>2, <2>1, <2>6 DEF x, t
<1> QED BY <1>3, <1>4
=============================================================================
