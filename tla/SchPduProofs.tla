---------------------------- MODULE SchPduProofs ----------------------------
(***************************************************************************)
(* What SchPdu's operators do for any length of a MAC PDU: the accounting  *)
(* of the bytes that remain adds up, the header has room in front of the   *)
(* SDUs, and parse_packet finds what was written.                          *)
(***************************************************************************)
EXTENDS SchPdu, FoldLemmas

USE SchPduAssumption DEF SchPduAssumption

-----------------------------------------------------------------------------
(* The folds.                                                              *)

LEMMA AddTrace ==
  ASSUME NEW s, NEW N \in Nat, DOMAIN s = 1 .. N, NEW D, init_tx \in D,
         \A n \in 1 .. N : \A y \in D : add_sdu(y, s[n]) \in D
  PROVE  \E f \in [0 .. N -> D] :
           /\ f[0] = init_tx
           /\ \A n \in 1 .. N : f[n] = add_sdu(f[n - 1], s[n])
           /\ f[N] = FoldLeft(add_sdu, init_tx, s)
<1> DEFINE G == [n \in 1 .. N |-> [y \in D |-> add_sdu(y, s[n])]]
           base == init_tx
           Eq(h) == h = [t \in SUBSET (DOMAIN s) |->
                           IF t = {} THEN base ELSE add_sdu(h[t \ {Max(t)}], s[Max(t)])]
           h == CHOOSE g : Eq(g)
<1>1. G \in [1 .. N -> [D -> D]] /\ base \in D
  OBVIOUS
<1>2. FoldLeft(add_sdu, init_tx, s) = h[DOMAIN s]
  BY DEF FoldLeft, MapThenFoldSet
<1>3. Eq(h)
  <2>1. PICK g : IsSolution(N, D, base, G, g)
    <3> HIDE DEF G, Eq, h, base
    <3> QED BY <1>1, FoldSolution
  <2>2. ASSUME NEW t \in SUBSET (1 .. N), t # {}
        PROVE  g[t] = add_sdu(g[t \ {Max(t)}], s[Max(t)])
    <3> HIDE DEF h, Eq
    <3> QED BY <2>1, <2>2 DEF IsSolution
  <2>3. Eq(g)
    <3> HIDE DEF G, h, base
    <3> QED BY <2>1, <2>2 DEF IsSolution
  <2> HIDE DEF Eq
  <2> QED BY <2>3
<1>4. h[{}] = base
  <2> HIDE DEF G, h, base
  <2> QED BY <1>3
<1>5. ASSUME NEW n \in 1 .. N PROVE h[1 .. n] = add_sdu(h[1 .. (n - 1)], s[n])
  <2>1. Max(1 .. n) = n /\ (1 .. n) \ {n} = 1 .. (n - 1) /\ n \in 1 .. n
    BY GreatestOfInterval
  <2>2. 1 .. n \in SUBSET (DOMAIN s)
    OBVIOUS
  <2> HIDE DEF G, h, base
  <2> QED BY <1>3, <2>1, <2>2
<1>6. ASSUME NEW n \in 1 .. N, h[1 .. (n - 1)] \in D
      PROVE  h[1 .. n] = G[n][h[1 .. (n - 1)]]
  <2> HIDE DEF h, Eq
  <2> QED BY <1>5, <1>6
<1>7. \E f \in [0 .. N -> D] : IsTrace(N, base, G, f, h[1 .. N])
  <2> HIDE DEF G, h, Eq, base
  <2> QED BY <1>1, <1>4, <1>6, FoldTrace
<1>8. PICK f \in [0 .. N -> D] :
        f[0] = base /\ f[N] = h[1 .. N] /\ \A n \in 1 .. N : f[n] = G[n][f[n - 1]]
  <2> HIDE DEF G, h, Eq, base
  <2> QED BY <1>7 DEF IsTrace
<1>9. ASSUME NEW n \in 1 .. N PROVE f[n] = add_sdu(f[n - 1], s[n])
  <2>1. f[n - 1] \in D
    OBVIOUS
  <2> HIDE DEF h, Eq
  <2> QED BY <1>8, <2>1
<1> HIDE DEF h, G
<1> QED BY <1>2, <1>8, <1>9


-----------------------------------------------------------------------------
(* The bytes that remain.                                                  *)

Lens == Seq(Nat \ {0})

\* The sizes of the SDUs' sub-headers, before and after the last is known to be.
FullHeads(s) == [i \in 1 .. Len(s) |-> size_header_sdu(s[i])]

Heads(s) == [i \in 1 .. Len(s) |-> IF i = Len(s) THEN 1 ELSE size_header_sdu(s[i])]

\* A MAC PDU of SDUs of the lengths s.
Msg(s) == [rem_len |-> PDU_LEN - Total(s) - Total(Heads(s)), sdus |-> s]

LEMMA HeadSizes == \A n \in Int : size_header_sdu(n) \in {2, 3}
BY DEF size_header_sdu

LEMMA HeadTypes ==
  ASSUME NEW s \in Lens
  PROVE  /\ Heads(s) \in Seq(Nat) /\ Len(Heads(s)) = Len(s)
         /\ FullHeads(s) \in Seq(Nat) /\ Len(FullHeads(s)) = Len(s)
         /\ Heads(s) \in Seq(Int) /\ FullHeads(s) \in Seq(Int)
         /\ s \in Seq(Nat) /\ s \in Seq(Int) /\ Len(s) \in Nat
         /\ Total(s) \in Nat /\ Total(Heads(s)) \in Nat /\ Total(FullHeads(s)) \in Nat
<1>1. s \in Seq(Nat) /\ s \in Seq(Int) /\ Len(s) \in Nat /\ \A i \in 1 .. Len(s) : s[i] \in Int
  BY DEF Lens
<1>2. \A i \in 1 .. Len(s) : size_header_sdu(s[i]) \in Nat
  BY <1>1, HeadSizes
<1>3. FullHeads(s) \in Seq(Nat) /\ Len(FullHeads(s)) = Len(s)
  BY <1>1, <1>2 DEF FullHeads
<1>4. Heads(s) \in Seq(Nat) /\ Len(Heads(s)) = Len(s)
  BY <1>1, <1>2 DEF Heads
<1>5. Heads(s) \in Seq(Int) /\ FullHeads(s) \in Seq(Int)
  BY <1>3, <1>4
<1> QED BY <1>1, <1>3, <1>4, <1>5, SumNat

\* Another sub-header follows: the last one grows, the new one has one byte.
LEMMA HeadsAppend ==
  ASSUME NEW s \in Lens, NEW x \in Nat \ {0}
  PROVE  /\ Append(s, x) \in Lens
         /\ Total(Heads(Append(s, x))) = Total(FullHeads(s)) + 1
<1> DEFINE t == Append(s, x)
           n == Len(s)
<1>1. /\ t \in Lens /\ n \in Nat /\ Len(t) = n + 1
      /\ \A i \in 1 .. n : t[i] = s[i]
  BY DEF Lens
<1>2. Heads(t) = Append(FullHeads(s), 1)
  <2>1. \A i \in 1 .. n : FullHeads(s)[i] = size_header_sdu(s[i])
    BY DEF FullHeads
  <2>2. \A i \in 1 .. Len(t) : Heads(t)[i] = IF i = Len(t) THEN 1 ELSE size_header_sdu(t[i])
    BY DEF Heads
  <2>3. /\ Heads(t) \in Seq(Int) /\ Len(Heads(t)) = n + 1
        /\ FullHeads(s) \in Seq(Int) /\ Len(FullHeads(s)) = n
    BY <1>1, HeadTypes
  <2> HIDE DEF t, n
  <2>4. Heads(t)[n + 1] = 1 /\ \A i \in 1 .. n : Heads(t)[i] = FullHeads(s)[i]
    BY <1>1, <2>1, <2>2
  <2> QED BY <2>3, <2>4, IsAppend
<1>3. Total(Append(FullHeads(s), 1)) = Total(FullHeads(s)) + 1
  BY HeadTypes, SumAppend
<1> QED BY <1>1, <1>2, <1>3

LEMMA HeadsGrow ==
  ASSUME NEW s \in Lens, NEW p, p.sdus = s
  PROVE  Total(FullHeads(s)) = Total(Heads(s)) + one_more(p)
<1>1. Len(s) \in Nat /\ s \in Seq(Nat)
  BY HeadTypes
<1>2. CASE s = <<>>
  <2>1. FullHeads(s) = <<>> /\ Heads(s) = <<>>
    BY <1>2 DEF FullHeads, Heads
  <2> QED BY <1>2, <2>1, SumEmpty DEF one_more
<1>3. CASE s # <<>>
  <2> DEFINE n == Len(s)
             h == size_header_sdu(s[n])
             F == FullHeads(s)
             H == Heads(s)
             P == [i \in 1 .. (n - 1) |-> size_header_sdu(s[i])]
  <2>1. n \in 1 .. n /\ n - 1 \in Nat /\ \A i \in 1 .. n : s[i] \in Int
    BY <1>1, <1>3
  <2>2. /\ P \in Seq(Int) /\ Len(P) = n - 1 /\ h \in {2, 3}
    <3>1. \A i \in 1 .. n : size_header_sdu(s[i]) \in {2, 3}
      BY <2>1, HeadSizes
    <3>2. \A i \in 1 .. (n - 1) : size_header_sdu(s[i]) \in Int
      BY <2>1, <3>1
    <3> HIDE DEF n
    <3> QED BY <2>1, <3>1, <3>2, SMTT(60)
  <2>3. F = Append(P, h) /\ H = Append(P, 1)
    <3>1. /\ F \in Seq(Int) /\ Len(F) = (n - 1) + 1 /\ H \in Seq(Int) /\ Len(H) = (n - 1) + 1
      BY <2>1, HeadTypes
    <3>2. /\ \A i \in 1 .. (n - 1) : P[i] = size_header_sdu(s[i])
          /\ \A i \in 1 .. n : F[i] = size_header_sdu(s[i])
          /\ \A i \in 1 .. n : H[i] = IF i = n THEN 1 ELSE size_header_sdu(s[i])
      BY DEF FullHeads, Heads
    <3>3. \A i \in 1 .. (n - 1) : i \in 1 .. n /\ i # n
      BY <2>1
    <3>4. (n - 1) + 1 = n
      BY <2>1
    <3> HIDE DEF F, H, P, n
    <3> QED BY <2>1, <2>2, <3>1, <3>2, <3>3, <3>4, IsAppend DEF h
  <2>5. one_more(p) = h - 1
    BY <1>3 DEF one_more, Last
  <2> HIDE DEF F, H, P, h, n
  <2>6. Total(F) = Total(P) + h /\ Total(H) = Total(P) + 1 /\ Total(P) \in Int
    BY <2>2, <2>3, SumAppend, SumType
  <2> QED BY <2>2, <2>5, <2>6 DEF F, H
<1> QED BY <1>2, <1>3

\* add_sdu() keeps the account.
LEMMA AddToMsg ==
  ASSUME NEW s \in Lens, NEW x \in Nat \ {0}
  PROVE  add_sdu(Msg(s), x) = Msg(Append(s, x))
<1>1. Total(Append(s, x)) = Total(s) + x
  BY HeadTypes, SumAppend
<1>2. Total(Heads(Append(s, x))) = Total(FullHeads(s)) + 1
  BY HeadsAppend
<1>3. Total(FullHeads(s)) = Total(Heads(s)) + one_more(Msg(s))
  BY HeadsGrow DEF Msg
<1>4. Total(s) \in Int /\ Total(Heads(s)) \in Int /\ one_more(Msg(s)) \in Int
  <2>1. Total(s) \in Int /\ Total(Heads(s)) \in Int
    BY HeadTypes
  <2>2. s # <<>> => size_header_sdu(s[Len(s)]) \in Int
    <3>1. s # <<>> => s[Len(s)] \in Int
      BY HeadTypes
    <3> QED BY <3>1, HeadSizes
  <2>3. one_more(Msg(s)) \in Int
    BY <2>2 DEF one_more, Msg, Last
  <2> QED BY <2>1, <2>3
<1>5. get_sdu_space(Msg(s)) - x = PDU_LEN - Total(Append(s, x)) - Total(Heads(Append(s, x)))
  BY <1>1, <1>2, <1>3, <1>4 DEF get_sdu_space, Msg
<1> QED BY <1>5 DEF add_sdu, Msg

\* A MAC PDU is what its SDUs' lengths say.
LEMMA MsgOfLengths ==
  ASSUME NEW s \in Lens
  PROVE  FoldLeft(add_sdu, init_tx, s) = Msg(s)
<1> DEFINE N == Len(s)
           D == {Msg(t) : t \in Lens}
<1>1. /\ N \in Nat /\ DOMAIN s = 1 .. N /\ \A n \in 1 .. N : s[n] \in Nat \ {0}
      /\ s \in Seq(Nat)
  BY DEF Lens
<1>2. <<>> \in Lens /\ Msg(<<>>) = init_tx
  <2>1. Heads(<<>>) = <<>> /\ <<>> \in Lens
    BY DEF Heads, Lens
  <2> QED BY <2>1, SumEmpty DEF Msg, init_tx
<1>3. init_tx \in D
  BY <1>2
<1>4. \A n \in 1 .. N : \A y \in D : add_sdu(y, s[n]) \in D
  <2> SUFFICES ASSUME NEW n \in 1 .. N, NEW t \in Lens PROVE add_sdu(Msg(t), s[n]) \in D
    OBVIOUS
  <2>1. add_sdu(Msg(t), s[n]) = Msg(Append(t, s[n])) /\ Append(t, s[n]) \in Lens
    BY <1>1, AddToMsg, HeadsAppend
  <2> QED BY <2>1
<1> HIDE DEF N, D
<1>5. PICK f \in [0 .. N -> D] :
        /\ f[0] = init_tx
        /\ \A n \in 1 .. N : f[n] = add_sdu(f[n - 1], s[n])
        /\ f[N] = FoldLeft(add_sdu, init_tx, s)
  BY <1>1, <1>3, <1>4, AddTrace
<1> DEFINE S == {n \in 0 .. N : SubSeq(s, 1, n) \in Lens /\ f[n] = Msg(SubSeq(s, 1, n))}
<1>6. 0 \in S
  <2>1. SubSeq(s, 1, 0) = <<>> /\ 0 \in 0 .. N
    BY <1>1, SubSeqEmpty
  <2> QED BY <1>2, <1>5, <2>1
<1>7. ASSUME NEW n \in 0 .. (N - 1), n \in S PROVE n + 1 \in S
  <2>1. n + 1 \in 1 .. N /\ (n + 1) - 1 = n /\ n + 1 \in 0 .. N
    BY <1>1
  <2>2. SubSeq(s, 1, n + 1) = Append(SubSeq(s, 1, n), s[n + 1])
    BY <1>1, <2>1, LongerPrefix DEF N
  <2>3. f[n + 1] = add_sdu(Msg(SubSeq(s, 1, n)), s[n + 1]) /\ SubSeq(s, 1, n) \in Lens
    BY <1>5, <1>7, <2>1
  <2>4. s[n + 1] \in Nat \ {0}
    BY <1>1, <2>1
  <2> HIDE DEF S
  <2>5. f[n + 1] = Msg(SubSeq(s, 1, n + 1)) /\ SubSeq(s, 1, n + 1) \in Lens
    BY <2>2, <2>3, <2>4, AddToMsg, HeadsAppend
  <2> QED BY <2>1, <2>5 DEF S
<1>8. 0 .. N \subseteq S
  <2> HIDE DEF S
  <2> QED BY <1>1, <1>6, <1>7, InductionTo
<1>9. SubSeq(s, 1, N) = s /\ N \in 0 .. N
  BY <1>1, SubSeqFull DEF N
<1> QED BY <1>5, <1>8, <1>9

-----------------------------------------------------------------------------
(* The sub-headers.                                                        *)

Subheader == [pad : BOOLEAN, L : Nat, e : BOOLEAN]

PadHeader(more) == [pad |-> TRUE, L |-> 0, e |-> more]

\* The sub-header of a payload of n bytes, and of the last one if nothing
\* follows.
SduHeader(n, more) == [pad |-> FALSE, L |-> IF more THEN n ELSE 0, e |-> more]

behind(p) == IF multibyte_padding(p) THEN 1 ELSE 0

\* Sequences of known elements.
Repeat(x, a) == [i \in 1 .. a |-> x]

LEMMA Repeated ==
  ASSUME NEW T, NEW x \in T, NEW a \in Nat
  PROVE  /\ Repeat(x, a) \in Seq(T) /\ Len(Repeat(x, a)) = a
         /\ \A i \in 1 .. a : Repeat(x, a)[i] = x
BY DEF Repeat

LEMMA Single ==
  ASSUME NEW T, NEW x \in T
  PROVE  <<x>> \in Seq(T) /\ Len(<<x>>) = 1 /\ <<x>>[1] = x
OBVIOUS

LEMMA ConcatThree ==
  ASSUME NEW T, NEW A \in Seq(T), NEW B \in Seq(T), NEW C \in Seq(T),
         NEW a, a = Len(A), NEW n, n = Len(B), NEW c, c = Len(C),
         NEW s, s = A \o B \o C
  PROVE  /\ s \in Seq(T) /\ Len(s) = a + n + c
         /\ \A i \in 1 .. a : s[i] = A[i]
         /\ \A i \in 1 .. n : s[a + i] = B[i]
         /\ \A i \in 1 .. c : s[a + n + i] = C[i]
<1> DEFINE AB == A \o B
           t == AB \o C
<1>0. a \in Nat /\ n \in Nat /\ c \in Nat
  OBVIOUS
<1>1. /\ AB \in Seq(T) /\ Len(AB) = a + n
      /\ \A i \in 1 .. a + n : AB[i] = IF i <= a THEN A[i] ELSE B[i - a]
  BY ConcatProperties
<1> HIDE DEF AB
<1>2. /\ s \in Seq(T) /\ Len(s) = a + n + c
      /\ \A i \in 1 .. a + n + c : s[i] = IF i <= a + n THEN AB[i] ELSE C[i - (a + n)]
  <2>1. /\ t \in Seq(T) /\ Len(t) = Len(AB) + Len(C)
        /\ \A i \in 1 .. Len(AB) + Len(C) :
             t[i] = IF i <= Len(AB) THEN AB[i] ELSE C[i - Len(AB)]
    <3>1. AB \in Seq(T)
      BY <1>1
    <3> QED BY <3>1, ConcatProperties
  <2>2. s = t
    BY DEF AB
  <2> HIDE DEF t
  <2> QED BY <1>1, <2>1, <2>2
<1> HIDE DEF t
<1>3. \A i \in 1 .. a : s[i] = A[i]
  <2>1. \A i \in 1 .. a : /\ i \in 1 .. a + n + c /\ i <= a + n
                          /\ i \in 1 .. a + n /\ i <= a
    BY <1>0
  <2> QED BY <1>1, <1>2, <2>1
<1>4. \A i \in 1 .. n : s[a + i] = B[i]
  <2>1. \A i \in 1 .. n : /\ a + i \in 1 .. a + n + c /\ a + i <= a + n
                          /\ a + i \in 1 .. a + n /\ ~(a + i <= a) /\ (a + i) - a = i
    BY <1>0
  <2> QED BY <1>1, <1>2, <2>1
<1>5. \A i \in 1 .. c : s[a + n + i] = C[i]
  <2>1. \A i \in 1 .. c : /\ a + n + i \in 1 .. a + n + c /\ ~(a + n + i <= a + n)
                          /\ (a + n + i) - (a + n) = i
    BY <1>0
  <2> QED BY <1>2, <2>1
<1> QED BY <1>2, <1>3, <1>4, <1>5

\* The sub-headers hs are a of padding, one of each of the SDUs, c of padding.
LaidOut(hs, s, a, c) ==
    /\ a \in Nat /\ c \in {0, 1}
    /\ hs \in Seq(Subheader) /\ Len(hs) = a + Len(s) + c
    /\ DOMAIN hs = 1 .. a + Len(s) + c
    /\ \A i \in 1 .. a : hs[i] = PadHeader(TRUE)
    /\ \A i \in 1 .. Len(s) : hs[a + i] = SduHeader(s[i], c = 1 \/ i < Len(s))
    /\ c = 1 => hs[a + Len(s) + 1] = PadHeader(FALSE)

LEMMA SubheaderParts ==
  ASSUME NEW s \in Lens, NEW p, p.sdus = s, p.rem_len \in Nat
  PROVE  LaidOut(subheaders(p), s, onetwo_padding(p), behind(p))
<1> DEFINE hs == subheaders(p)
           a == onetwo_padding(p)
           n == Len(s)
           c == behind(p)
           A == [i \in 1 .. a |-> PadHeader(TRUE)]
           B == [i \in 1 .. n |-> SduHeader(s[i], c = 1 \/ i < n)]
           C == IF c = 1 THEN <<PadHeader(FALSE)>> ELSE <<>>
<1>1. a \in Nat /\ c \in {0, 1} /\ n \in Nat /\ (c = 1 <=> multibyte_padding(p))
  <2>1. n \in Nat
    BY HeadTypes
  <2> QED BY <2>1 DEF onetwo_padding, behind
<1>2. hs = A \o B \o C
  <2>1. B = [i \in 1 .. Len(p.sdus) |->
               IF multibyte_padding(p) \/ i < Len(p.sdus)
               THEN [pad |-> FALSE, L |-> p.sdus[i], e |-> TRUE]
               ELSE [pad |-> FALSE, L |-> 0, e |-> FALSE]]
    <3>1. ASSUME NEW i \in 1 .. n
          PROVE  SduHeader(s[i], c = 1 \/ i < n) =
                   IF multibyte_padding(p) \/ i < Len(p.sdus)
                   THEN [pad |-> FALSE, L |-> p.sdus[i], e |-> TRUE]
                   ELSE [pad |-> FALSE, L |-> 0, e |-> FALSE]
      <4> HIDE DEF c
      <4> QED BY <1>1 DEF SduHeader
    <3> HIDE DEF c
    <3> QED BY <3>1
  <2>2. A = [i \in 1 .. onetwo_padding(p) |-> [pad |-> TRUE, L |-> 0, e |-> TRUE]]
    BY DEF PadHeader
  <2>3. C = IF multibyte_padding(p)
            THEN <<[pad |-> TRUE, L |-> 0, e |-> FALSE]>> ELSE <<>>
    BY DEF PadHeader, behind
  <2> HIDE DEF A, B, C
  <2> QED BY <2>1, <2>2, <2>3 DEF subheaders
<1>3. /\ PadHeader(TRUE) \in Subheader /\ PadHeader(FALSE) \in Subheader
      /\ \A i \in 1 .. n : SduHeader(s[i], c = 1 \/ i < n) \in Subheader
  <2>1. PadHeader(TRUE) \in Subheader /\ PadHeader(FALSE) \in Subheader
    BY DEF PadHeader, Subheader
  <2>2. ASSUME NEW i \in 1 .. n PROVE SduHeader(s[i], c = 1 \/ i < n) \in Subheader
    <3>1. s[i] \in Nat
      BY HeadTypes
    <3>2. (c = 1 \/ i < n) \in BOOLEAN
      OBVIOUS
    <3> DEFINE more == c = 1 \/ i < n
    <3> HIDE DEF more
    <3>3. SduHeader(s[i], more) \in Subheader
      BY <3>1, <3>2 DEF SduHeader, Subheader, more
    <3> QED BY <3>3 DEF more
  <2> QED BY <2>1, <2>2
<1>4. /\ A \in Seq(Subheader) /\ Len(A) = a /\ \A i \in 1 .. a : A[i] = PadHeader(TRUE)
      /\ B \in Seq(Subheader) /\ Len(B) = n
      /\ \A i \in 1 .. n : B[i] = SduHeader(s[i], c = 1 \/ i < n)
      /\ C \in Seq(Subheader) /\ Len(C) = c /\ (c = 1 => C[1] = PadHeader(FALSE))
  <2> DEFINE x == PadHeader(TRUE)
             y == PadHeader(FALSE)
  <2> HIDE DEF x, y
  <2>0. x \in Subheader /\ y \in Subheader /\ x = PadHeader(TRUE) /\ y = PadHeader(FALSE)
    BY <1>3 DEF x, y
  <2>1. A \in Seq(Subheader) /\ Len(A) = a /\ \A i \in 1 .. a : A[i] = PadHeader(TRUE)
    <3> DEFINE E == Repeat(x, a)
    <3>1. E \in Seq(Subheader) /\ Len(E) = a /\ \A i \in 1 .. a : E[i] = x
      <4> HIDE DEF a
      <4> QED BY <1>1, <2>0, Repeated
    <3>2. A = E
      BY DEF x, Repeat
    <3> HIDE DEF A, E, a
    <3> QED BY <2>0, <3>1, <3>2
  <2>2. B \in Seq(Subheader) /\ Len(B) = n
        /\ \A i \in 1 .. n : B[i] = SduHeader(s[i], c = 1 \/ i < n)
    <3> HIDE DEF n, c
    <3> QED BY <1>1, <1>3
  <2>3. C \in Seq(Subheader) /\ Len(C) = c /\ (c = 1 => C[1] = PadHeader(FALSE))
    <3>1. C = IF c = 1 THEN <<y>> ELSE <<>>
      BY DEF y
    <3>2. <<y>> \in Seq(Subheader) /\ Len(<<y>>) = 1 /\ <<y>>[1] = y
      <4> HIDE DEF A, B, C, a, c, n, hs
      <4> QED BY <2>0, Single
    <3>3. <<>> \in Seq(Subheader) /\ Len(<<>>) = 0
      OBVIOUS
    <3>4. CASE c = 1
      <4>1. C = <<y>>
        BY <3>1, <3>4
      <4> HIDE DEF C, c
      <4> QED BY <3>2, <3>4, <4>1, <2>0
    <3>5. CASE c = 0
      <4>1. C = <<>>
        <5> HIDE DEF C, c
        <5> QED BY <3>1, <3>5
      <4> HIDE DEF C, c
      <4> QED BY <3>3, <3>5, <4>1
    <3> HIDE DEF c, C
    <3> QED BY <1>1, <3>4, <3>5
  <2> QED BY <2>1, <2>2, <2>3
<1> HIDE DEF A, B, C, a, n, c
<1> DEFINE ABC == A \o B \o C
<1>5. /\ ABC \in Seq(Subheader) /\ Len(ABC) = a + n + c
      /\ \A i \in 1 .. a : ABC[i] = A[i]
      /\ \A i \in 1 .. n : ABC[a + i] = B[i]
      /\ \A i \in 1 .. c : ABC[a + n + i] = C[i]
  <2>1. /\ A \in Seq(Subheader) /\ B \in Seq(Subheader) /\ C \in Seq(Subheader)
        /\ a = Len(A) /\ n = Len(B) /\ c = Len(C) /\ ABC = A \o B \o C
    BY <1>4
  <2> HIDE DEF ABC
  <2> QED BY <2>1, ConcatThree
<1>6. c = 1 => 1 \in 1 .. c
  BY <1>1
<1> HIDE DEF ABC
<1>7. hs = ABC
  BY <1>2 DEF ABC
<1> HIDE DEF hs
<1>8. /\ hs \in Seq(Subheader) /\ Len(hs) = a + n + c /\ DOMAIN hs = 1 .. a + n + c
      /\ \A i \in 1 .. a : hs[i] = PadHeader(TRUE)
  <2>1. hs \in Seq(Subheader) /\ Len(hs) = a + n + c
    BY <1>5, <1>7
  <2>2. DOMAIN hs = 1 .. a + n + c
    BY <2>1
  <2>3. \A i \in 1 .. a : hs[i] = PadHeader(TRUE)
    BY <1>4, <1>5, <1>7
  <2> QED BY <2>1, <2>2, <2>3
<1>9. \A i \in 1 .. n : hs[a + i] = SduHeader(s[i], c = 1 \/ i < n)
  BY <1>4, <1>5, <1>7
<1>10. c = 1 => hs[a + n + 1] = PadHeader(FALSE)
  BY <1>4, <1>5, <1>6, <1>7
<1> QED BY <1>1, <1>8, <1>9, <1>10 DEF hs, a, n, c, LaidOut

\* What one of the sub-headers is counted for.
LEMMA HeaderBytes ==
  ASSUME NEW n \in Nat, NEW more \in BOOLEAN
  PROVE  /\ get_header_size(PadHeader(more)) = 1
         /\ write_subheader(PadHeader(more)) = 1
         /\ get_header_size(SduHeader(n, more)) = IF more THEN size_header_sdu(n) ELSE 1
         /\ write_subheader(SduHeader(n, more)) = IF more THEN size_header_sdu(n) ELSE 1
         /\ size_plus_header(PadHeader(more)) = 1
         /\ size_plus_header(SduHeader(n, TRUE)) = size_header_sdu(n) + n
BY DEF get_header_size, write_subheader, PadHeader, SduHeader, size_header_sdu, size_plus_header

LEMMA SubheaderSizes ==
  ASSUME NEW h \in Subheader
  PROVE  /\ get_header_size(h) \in Int /\ write_subheader(h) \in Int
         /\ size_plus_header(h) \in Int
BY DEF get_header_size, write_subheader, Subheader, size_header_sdu, size_plus_header

\* w is x for padding and v for SDUs, of which the first is behind a others.
Counted(w, hs, a, v, x) ==
    /\ Len(w) = Len(hs)
    /\ \A i \in DOMAIN hs : \A more \in BOOLEAN : hs[i] = PadHeader(more) => w[i] = x
    /\ \A i \in 1 .. Len(v) : w[a + i] = v[i]

LEMMA HeaderSum ==
  ASSUME NEW s \in Lens, NEW hs, NEW a, NEW c, LaidOut(hs, s, a, c),
         NEW x \in {0, 1}, NEW v \in Seq(Int), Len(v) = Len(s),
         NEW w \in Seq(Int), Counted(w, hs, a, v, x)
  PROVE  Total(w) = Total(v) + (IF x = 1 THEN a + c ELSE 0)
<1> DEFINE n == Len(s)
<1>1. n \in Nat /\ Len(v) = n
  BY HeadTypes
<1>2. /\ a \in Nat /\ c \in {0, 1} /\ DOMAIN hs = 1 .. a + n + c /\ Len(w) = a + n + c
      /\ \A i \in 1 .. a : hs[i] = PadHeader(TRUE)
      /\ c = 1 => hs[a + n + 1] = PadHeader(FALSE)
  BY DEF LaidOut, Counted
<1> HIDE DEF n
<1>3. Len(v) = n /\ \A i \in 1 .. n : w[a + i] = v[i]
  BY <1>1 DEF Counted
<1>4. \A i \in DOMAIN hs : (hs[i] = PadHeader(TRUE) \/ hs[i] = PadHeader(FALSE)) => w[i] = x
  BY DEF Counted
<1>5. \A i \in 1 .. a : w[i] = x
  <2>1. \A i \in 1 .. a : i \in 1 .. a + n + c
    BY <1>1, <1>2
  <2> QED BY <1>2, <1>4, <2>1
<1>6. c = 1 => w[a + n + 1] = x
  <2>1. c = 1 => a + n + 1 \in 1 .. a + n + c
    BY <1>1, <1>2
  <2> QED BY <1>2, <1>4, <2>1
<1>7. Between(w, v, a, c, x)
  BY <1>2, <1>3, <1>5, <1>6 DEF Between
<1>8. a \in Nat /\ c \in {0, 1}
  BY <1>2
<1> QED BY <1>7, <1>8, SumBetween

\* w is the sizes of the sub-headers hs.
Sized(w, hs) ==
    \A i \in DOMAIN hs : \A more \in BOOLEAN :
      /\ hs[i] = PadHeader(more) => w[i] = 1
      /\ \A n \in Nat : hs[i] = SduHeader(n, more) =>
                          w[i] = IF more THEN size_header_sdu(n) ELSE 1

LEMMA SizesSum ==
  ASSUME NEW s \in Lens, NEW hs, NEW a, NEW c, LaidOut(hs, s, a, c),
         NEW w \in Seq(Int), Len(w) = Len(hs), Sized(w, hs)
  PROVE  Total(w) = Total(IF c = 1 THEN FullHeads(s) ELSE Heads(s)) + a + c
<1> DEFINE v == IF c = 1 THEN FullHeads(s) ELSE Heads(s)
           n == Len(s)
<1>1. /\ v \in Seq(Int) /\ Len(v) = n
      /\ \A i \in 1 .. n : v[i] = IF c = 1 \/ i < n THEN size_header_sdu(s[i]) ELSE 1
  <2>1. n \in Nat /\ /\ FullHeads(s) \in Seq(Int) /\ Len(FullHeads(s)) = n
                     /\ Heads(s) \in Seq(Int) /\ Len(Heads(s)) = n
    BY HeadTypes
  <2>2. \A i \in 1 .. n : /\ FullHeads(s)[i] = size_header_sdu(s[i])
                          /\ Heads(s)[i] = IF i = n THEN 1 ELSE size_header_sdu(s[i])
    BY DEF FullHeads, Heads
  <2>3. \A i \in 1 .. n : i < n <=> i # n
    BY <2>1
  <2> HIDE DEF n
  <2> QED BY <2>1, <2>2, <2>3 DEF n
<1>2. /\ a \in Nat /\ c \in {0, 1} /\ n \in Nat /\ Len(hs) = a + n + c
      /\ DOMAIN hs = 1 .. a + n + c
      /\ \A i \in 1 .. n : hs[a + i] = SduHeader(s[i], c = 1 \/ i < n)
      /\ \A i \in 1 .. n : s[i] \in Nat
  <2>1. n \in Nat /\ \A i \in 1 .. n : s[i] \in Nat
    BY HeadTypes
  <2> QED BY <2>1 DEF LaidOut
<1> HIDE DEF v, n
<1>3. \A i \in 1 .. n : w[a + i] = v[i]
  <2> SUFFICES ASSUME NEW i \in 1 .. n PROVE w[a + i] = v[i]
    OBVIOUS
  <2> DEFINE more == c = 1 \/ i < n
  <2>1. a + i \in DOMAIN hs /\ more \in BOOLEAN
    BY <1>2
  <2>2. hs[a + i] = SduHeader(s[i], more) /\ s[i] \in Nat
    BY <1>2
  <2>3. v[i] = IF more THEN size_header_sdu(s[i]) ELSE 1
    BY <1>1
  <2> HIDE DEF more
  <2>4. w[a + i] = IF more THEN size_header_sdu(s[i]) ELSE 1
    BY <2>1, <2>2 DEF Sized
  <2> QED BY <2>3, <2>4
<1>4. Total(w) = Total(v) + (IF 1 = 1 THEN a + c ELSE 0)
  <2>1. Counted(w, hs, a, v, 1)
    BY <1>1, <1>3 DEF Counted, Sized
  <2> QED BY <1>1, <2>1, HeaderSum DEF n
<1>5. Total(v) \in Int
  BY <1>1, SumType
<1>6. Total(w) = Total(v) + a + c
  BY <1>2, <1>4, <1>5
<1> QED BY <1>6 DEF v

\* The header is counted, and written, with the sizes of the sub-headers.
LEMMA HeaderBytesAddUp ==
  ASSUME NEW s \in Lens, NEW p, p.sdus = s, p.rem_len \in Nat
  PROVE  /\ header_sz(p) = Total(IF behind(p) = 1 THEN FullHeads(s) ELSE Heads(s))
                             + onetwo_padding(p) + behind(p)
         /\ header_sz(p) = sum([i \in DOMAIN subheaders(p) |->
                                  write_subheader(subheaders(p)[i])])
<1> DEFINE hs == subheaders(p)
           a == onetwo_padding(p)
           c == behind(p)
           v == [i \in DOMAIN hs |-> get_header_size(hs[i])]
           w == [i \in DOMAIN hs |-> write_subheader(hs[i])]
<1>1. LaidOut(hs, s, a, c)
  BY SubheaderParts
<1>2. header_sz(p) = Total(v) /\ sum(w) = Total(w)
  BY DEF header_sz, sum, Total
<1> HIDE DEF hs, a, c
<1>3. hs \in Seq(Subheader) /\ \A i \in DOMAIN hs : hs[i] \in Subheader
  BY <1>1 DEF LaidOut
<1>4. /\ v \in Seq(Int) /\ Len(v) = Len(hs) /\ \A i \in DOMAIN hs : v[i] = get_header_size(hs[i])
      /\ w \in Seq(Int) /\ Len(w) = Len(hs) /\ \A i \in DOMAIN hs : w[i] = write_subheader(hs[i])
  <2>1. /\ \A i \in DOMAIN hs : get_header_size(hs[i]) \in Int /\ write_subheader(hs[i]) \in Int
        /\ DOMAIN hs = 1 .. Len(hs) /\ Len(hs) \in Nat
    BY <1>3, SubheaderSizes
  <2>2. v \in Seq(Int) /\ Len(v) = Len(hs)
    BY <2>1
  <2>3. w \in Seq(Int) /\ Len(w) = Len(hs)
    BY <2>1
  <2> QED BY <2>2, <2>3
<1> HIDE DEF v, w
<1>5. ASSUME NEW i \in DOMAIN hs, NEW more \in BOOLEAN
      PROVE  /\ hs[i] = PadHeader(more) => v[i] = 1 /\ w[i] = 1
             /\ \A n \in Nat : hs[i] = SduHeader(n, more) =>
                  /\ v[i] = IF more THEN size_header_sdu(n) ELSE 1
                  /\ w[i] = IF more THEN size_header_sdu(n) ELSE 1
  <2>1. 0 \in Nat /\ v[i] = get_header_size(hs[i]) /\ w[i] = write_subheader(hs[i])
    BY <1>4
  <2> QED BY <2>1, HeaderBytes
<1>6. Sized(v, hs) /\ Sized(w, hs)
  BY <1>5 DEF Sized
<1>7. v \in Seq(Int) /\ Len(v) = Len(hs) /\ w \in Seq(Int) /\ Len(w) = Len(hs)
  BY <1>4
<1>8. Total(v) = Total(IF c = 1 THEN FullHeads(s) ELSE Heads(s)) + a + c
  BY <1>1, <1>6, <1>7, SizesSum
<1>9. Total(w) = Total(IF c = 1 THEN FullHeads(s) ELSE Heads(s)) + a + c
  BY <1>1, <1>6, <1>7, SizesSum
<1> QED BY <1>2, <1>8, <1>9 DEF v, w, hs, a, c

\* Sub-headers of three bytes are few: each is of LONG bytes of SDU.
LEMMA ThreeByteHeads ==
  ASSUME NEW s \in Lens
  PROVE  \E k \in Nat : Total(FullHeads(s)) = 2 * Len(s) + k /\ LONG * k <= Total(s)
<1> DEFINE N == Len(s)
           v == FullHeads(s)
<1>1. /\ N \in Nat /\ s \in Seq(Int) /\ v \in Seq(Int) /\ Len(v) = N
      /\ LONG \in Nat
  BY HeadTypes
<1>2. \A i \in 1 .. N : s[i] \in Nat /\ v[i] = size_header_sdu(s[i])
  <2>1. \A i \in 1 .. N : s[i] \in Nat
    BY HeadTypes
  <2>2. \A i \in 1 .. N : v[i] = size_header_sdu(s[i])
    BY DEF FullHeads
  <2> QED BY <2>1, <2>2
<1>3. PICK f \in [0 .. N -> Int] :
        /\ f[0] = 0 /\ \A n \in 1 .. N : f[n] = f[n - 1] + s[n]
        /\ f[N] = Total(s)
  BY <1>1, SumTrace
<1> HIDE DEF v, N
<1>4. PICK g \in [0 .. N -> Int] :
        /\ g[0] = 0 /\ \A n \in 1 .. N : g[n] = g[n - 1] + v[n]
        /\ g[N] = Total(v)
  BY <1>1, SumTrace
<1> DEFINE S == {n \in 0 .. N : \E k \in Nat : g[n] = 2 * n + k /\ LONG * k <= f[n]}
<1>5. 0 \in S
  <2>1. 0 \in 0 .. N /\ g[0] = 2 * 0 + 0 /\ LONG * 0 <= f[0]
    BY <1>1, <1>3, <1>4
  <2> QED BY <2>1
<1>6. ASSUME NEW n \in 0 .. (N - 1), n \in S PROVE n + 1 \in S
  <2>1. n + 1 \in 1 .. N /\ (n + 1) - 1 = n /\ n + 1 \in 0 .. N /\ n \in 0 .. N
    BY <1>1
  <2>2. PICK k \in Nat : g[n] = 2 * n + k /\ LONG * k <= f[n]
    BY <1>6
  <2>3. f[n + 1] = f[n] + s[n + 1] /\ g[n + 1] = g[n] + v[n + 1] /\ f[n] \in Int
    BY <1>3, <1>4, <2>1
  <2>4. s[n + 1] \in Nat /\ v[n + 1] = size_header_sdu(s[n + 1])
    BY <1>2, <2>1
  <2>5. CASE s[n + 1] < LONG
    <3>1. g[n + 1] = 2 * (n + 1) + k
      BY <2>2, <2>3, <2>4, <2>5 DEF size_header_sdu
    <3>2. LONG * k \in Int
      BY <1>1
    <3>3. LONG * k <= f[n + 1]
      BY <2>2, <2>3, <2>4, <3>2
    <3> QED BY <2>1, <3>1, <3>3
  <2>6. CASE s[n + 1] >= LONG
    <3>0. v[n + 1] = 3
      BY <1>1, <2>4, <2>6, SMTT(60) DEF size_header_sdu
    <3>1. g[n + 1] = 2 * (n + 1) + (k + 1)
      BY <2>2, <2>3, <3>0
    <3> DEFINE m == LONG * k
    <3>2. LONG * (k + 1) = m + LONG /\ m \in Int
      BY <1>1
    <3>3. LONG * (k + 1) <= f[n + 1]
      <4>1. m <= f[n]
        BY <2>2
      <4> HIDE DEF m
      <4>2. f[n] \in Int /\ s[n + 1] \in Nat /\ LONG \in Nat /\ m \in Int
        BY <1>1, <2>3, <2>4, <3>2
      <4>3. m + LONG <= f[n] + s[n + 1]
        BY <2>6, <4>1, <4>2
      <4> QED BY <2>3, <3>2, <4>3
    <3>4. k + 1 \in Nat
      OBVIOUS
    <3> QED BY <2>1, <3>1, <3>3, <3>4
  <2> QED BY <1>1, <2>4, <2>5, <2>6, SMTT(60)
<1>7. 0 .. N \subseteq S
  <2> HIDE DEF S
  <2> QED BY <1>1, <1>5, <1>6, InductionTo
<1>8. N \in S
  <2> HIDE DEF S
  <2> QED BY <1>1, <1>7
<1> QED BY <1>3, <1>4, <1>8 DEF v, N

-----------------------------------------------------------------------------
(* write_packet() succeeds.                                                *)

\* As long as bytes remain, and a sub-header for padding, the header has room
\* in front of the SDUs and all the bytes add up.
LEMMA MsgIsWritten ==
  ASSUME NEW s \in Lens, Msg(s).rem_len >= 0, Len(s) < MAX_SUBH
  PROVE  Written(Msg(s)) /\ padding(Msg(s)) >= 0
<1> DEFINE p == Msg(s)
           rem == p.rem_len
           a == onetwo_padding(p)
           c == behind(p)
           n == Len(s)
           full == Total(FullHeads(s))
           heads == Total(Heads(s))
           bytes == Total(s)
           more == one_more(p)
<1>1. /\ p.sdus = s /\ rem = PDU_LEN - bytes - heads
      /\ n \in Nat /\ bytes \in Nat /\ heads \in Nat /\ full \in Nat
  BY HeadTypes DEF Msg
<1>2. rem \in Nat /\ PDU_LEN \in Nat /\ LONG \in Nat \ {0} /\ MAX_SUBH \in Nat
  <2>1. rem >= 0
    OBVIOUS
  <2>2. PDU_LEN \in Nat /\ LONG \in Nat \ {0} /\ MAX_SUBH \in Nat
    OBVIOUS
  <2> HIDE DEF p, heads, bytes, rem
  <2> QED BY <1>1, <2>1, <2>2
<1>3. full = heads + more /\ more \in 0 .. 2
  <2>1. full = heads + more
    BY HeadsGrow, <1>1
  <2>2. more \in 0 .. 2
    <3>1. CASE s = <<>>
      BY <1>1, <3>1 DEF one_more
    <3>2. CASE s # <<>>
      <4>1. s[Len(s)] \in Int
        BY <3>2, HeadTypes
      <4>2. size_header_sdu(s[Len(s)]) \in {2, 3}
        BY <4>1, HeadSizes
      <4>3. more = size_header_sdu(s[Len(s)]) - 1
        BY <1>1, <3>2 DEF one_more, Last
      <4> HIDE DEF more
      <4> QED BY <4>2, <4>3
    <3> QED BY <3>1, <3>2
  <2> QED BY <2>1, <2>2
<1>4. PICK k \in Nat : full = 2 * n + k /\ LONG * k <= bytes
  BY ThreeByteHeads
<1>5. k < 13
  <2>1. LONG * k < 13 * LONG /\ LONG \in Nat \ {0}
    <3> DEFINE m == LONG * k
    <3>1. m \in Nat /\ LONG \in Nat \ {0}
      OBVIOUS
    <3>2. m <= bytes
      BY <1>4
    <3> HIDE DEF m, bytes, heads, rem
    <3>3. bytes <= PDU_LEN
      BY <1>1, <1>2
    <3>4. m < 13 * LONG
      BY <1>1, <1>2, <3>1, <3>2, <3>3, FewLongAssumption DEF FewLongAssumption
    <3> QED BY <3>1, <3>4 DEF m
  <2>2. ASSUME k >= 13 PROVE LONG * k >= 13 * LONG
    <3>1. LONG * k = 13 * LONG + LONG * (k - 13) /\ LONG * (k - 13) >= 0
      BY <2>1, <2>2
    <3> QED BY <2>1, <3>1
  <2> QED BY <2>1, <2>2
<1>6. /\ header_sz(p) = (IF c = 1 THEN full ELSE heads) + a + c
      /\ header_sz(p) = sum([i \in DOMAIN subheaders(p) |->
                               write_subheader(subheaders(p)[i])])
  <2>1. IF c = 1 THEN full = Total(IF c = 1 THEN FullHeads(s) ELSE Heads(s))
                 ELSE heads = Total(IF c = 1 THEN FullHeads(s) ELSE Heads(s))
    OBVIOUS
  <2>2. p.rem_len \in Nat
    BY <1>2
  <2> QED BY <1>1, <2>1, <2>2, HeaderBytesAddUp
<1>7. sum(p.sdus) = bytes
  BY <1>1 DEF sum, Total
<1>8. /\ multibyte_padding(p) <=> rem > 2
      /\ a = IF rem > 2 THEN 0 ELSE rem
      /\ c = IF rem > 2 THEN 1 ELSE 0
      /\ padding(p) = IF rem > 2 THEN rem - 1 - more ELSE 0
  BY DEF multibyte_padding, onetwo_padding, behind, padding
<1> DEFINE h == header_sz(p)
           d == padding(p)
<1> HIDE DEF a, c, n, full, heads, bytes, more, rem, h, d
<1>9. h = (IF c = 1 THEN full ELSE heads) + a + c
  BY <1>6 DEF h
<1>10. d = (IF rem > 2 THEN rem - 1 - more ELSE 0) /\ d >= 0
  BY <1>2, <1>3, <1>8 DEF d
<1>11. d + h + bytes = PDU_LEN
  <2>1. CASE rem > 2
    <3>1. a = 0 /\ c = 1 /\ h = heads + more + 1
      BY <1>1, <1>3, <1>8, <1>9, <2>1
    <3> QED BY <1>1, <1>2, <1>3, <1>10, <2>1, <3>1
  <2>2. CASE ~(rem > 2)
    <3>1. a = rem /\ c = 0 /\ h = heads + rem
      BY <1>1, <1>2, <1>8, <1>9, <2>2
    <3> QED BY <1>1, <1>2, <1>10, <2>2, <3>1
  <2> QED BY <2>1, <2>2
<1>12. h < 2 * MAX_SUBH + 13
  <2>1. h <= full + 2
    BY <1>1, <1>2, <1>3, <1>8, <1>9
  <2>2. n < MAX_SUBH /\ MAX_SUBH \in Nat /\ h \in Int
    BY <1>1, <1>2, <1>8, <1>9 DEF n
  <2> QED BY <1>1, <1>4, <1>5, <2>1, <2>2
<1>13. p.rem_len >= 0
  BY <1>2 DEF rem
<1> QED BY <1>6, <1>7, <1>10, <1>11, <1>12, <1>13 DEF Written, h, d

-----------------------------------------------------------------------------
(* Reading.                                                                *)

\* What parse_packet does at a sub-header.
payload(hs, i) == [at |-> sum([j \in 1 .. i - 1 |-> hs[j].L]),
                   size |-> IF i = Len(hs) THEN last_size(hs) ELSE hs[i].L]

read(hs, found, i) == IF hs[i].pad THEN found ELSE Append(found, payload(hs, i))

\* The payloads found on the way.
LEMMA ReadTrace ==
  ASSUME NEW hs, NEW N \in Nat, DOMAIN hs = 1 .. N, NEW D, <<>> \in D,
         \A n \in 1 .. N : \A y \in D : read(hs, y, n) \in D
  PROVE  \E f \in [0 .. N -> D] :
           /\ f[0] = <<>>
           /\ \A n \in 1 .. N : f[n] = read(hs, f[n - 1], n)
           /\ f[N] = parse_packet(hs)
<1> DEFINE s == [i \in DOMAIN hs |-> i]
           G == [n \in 1 .. N |-> [y \in D |-> read(hs, y, s[n])]]
           base == <<>>
           Eq(h) == h = [t \in SUBSET (DOMAIN s) |->
                           IF t = {} THEN base ELSE read(hs, h[t \ {Max(t)}], s[Max(t)])]
           h == CHOOSE g : Eq(g)
<1>1. G \in [1 .. N -> [D -> D]] /\ base \in D
  OBVIOUS
<1>2. parse_packet(hs) = h[DOMAIN s]
  BY DEF FoldLeft, MapThenFoldSet, parse_packet, read, payload
<1>3. Eq(h)
  <2>1. PICK g : IsSolution(N, D, base, G, g)
    <3> HIDE DEF G, Eq, h, base
    <3> QED BY <1>1, FoldSolution
  <2>2. ASSUME NEW t \in SUBSET (1 .. N), t # {}
        PROVE  g[t] = read(hs, g[t \ {Max(t)}], s[Max(t)])
    <3> HIDE DEF h, Eq
    <3> QED BY <2>1, <2>2 DEF IsSolution
  <2>3. Eq(g)
    <3> HIDE DEF G, h, base
    <3> QED BY <2>1, <2>2 DEF IsSolution
  <2> HIDE DEF Eq
  <2> QED BY <2>3
<1>4. h[{}] = base
  <2> HIDE DEF G, h, base
  <2> QED BY <1>3
<1>5. ASSUME NEW n \in 1 .. N PROVE h[1 .. n] = read(hs, h[1 .. (n - 1)], s[n])
  <2>1. Max(1 .. n) = n /\ (1 .. n) \ {n} = 1 .. (n - 1) /\ n \in 1 .. n
    BY GreatestOfInterval
  <2>2. 1 .. n \in SUBSET (DOMAIN s)
    OBVIOUS
  <2> HIDE DEF G, h, base
  <2> QED BY <1>3, <2>1, <2>2
<1>6. ASSUME NEW n \in 1 .. N, h[1 .. (n - 1)] \in D
      PROVE  h[1 .. n] = G[n][h[1 .. (n - 1)]]
  <2> HIDE DEF h, Eq
  <2> QED BY <1>5, <1>6
<1>7. \E f \in [0 .. N -> D] : IsTrace(N, base, G, f, h[1 .. N])
  <2> HIDE DEF G, h, Eq, base
  <2> QED BY <1>1, <1>4, <1>6, FoldTrace
<1>8. PICK f \in [0 .. N -> D] :
        f[0] = base /\ f[N] = h[1 .. N] /\ \A n \in 1 .. N : f[n] = G[n][f[n - 1]]
  <2> HIDE DEF G, h, Eq, base
  <2> QED BY <1>7 DEF IsTrace
<1>9. ASSUME NEW n \in 1 .. N PROVE f[n] = read(hs, f[n - 1], s[n])
  <2>1. f[n - 1] \in D
    OBVIOUS
  <2> HIDE DEF h, Eq
  <2> QED BY <1>8, <2>1
<1> HIDE DEF h, G
<1> QED BY <1>2, <1>8, <1>9


\* A payload and the part of a PDU that holds it.
Whole(t) == [i \in 1 .. Len(t) |-> size_header_sdu(t[i]) + t[i]]

LEMMA SumWhole ==
  ASSUME NEW t \in Lens
  PROVE  /\ Whole(t) \in Seq(Int) /\ Len(Whole(t)) = Len(t)
         /\ Total(Whole(t)) = Total(FullHeads(t)) + Total(t)
<1> DEFINE w == Whole(t)
           v == FullHeads(t)
<1>1. /\ Len(t) \in Nat /\ t \in Seq(Int) /\ v \in Seq(Int) /\ Len(v) = Len(t)
  BY HeadTypes
<1>2. \A i \in 1 .. Len(t) : v[i] \in Int /\ t[i] \in Int /\ v[i] = size_header_sdu(t[i])
  <2>1. \A i \in 1 .. Len(t) : v[i] \in Int /\ t[i] \in Int
    <3> HIDE DEF v
    <3> QED BY <1>1
  <2>2. \A i \in 1 .. Len(t) : v[i] = size_header_sdu(t[i])
    BY DEF FullHeads
  <2> QED BY <2>1, <2>2
<1>3. w \in Seq(Int) /\ Len(w) = Len(t)
  <2>1. \A i \in 1 .. Len(t) : size_header_sdu(t[i]) + t[i] \in Int
    BY <1>2
  <2> QED BY <1>1, <2>1 DEF Whole
<1>4. \A i \in 1 .. Len(w) : w[i] = v[i] + t[i]
  <2>1. \A i \in 1 .. Len(t) : w[i] = size_header_sdu(t[i]) + t[i]
    BY DEF Whole
  <2> HIDE DEF w, v
  <2> QED BY <1>2, <1>3, <2>1
<1> HIDE DEF w, v
<1>5. Total(w) = Total(v) + Total(t)
  BY <1>1, <1>3, <1>4, SumPlus, ZenonT(60)
<1> QED BY <1>3, <1>5 DEF w, v

\* What a sequence of the first sub-headers has of the SDUs.
LEMMA FirstHeaders ==
  ASSUME NEW s \in Lens, NEW hs, NEW a, NEW c, LaidOut(hs, s, a, c),
         NEW j \in 1 .. Len(s)
  PROVE  /\ Total([i \in 1 .. a + j - 1 |-> hs[i].L]) = Total(SubSeq(s, 1, j - 1))
         /\ Total([i \in 1 .. a + j - 1 |-> size_plus_header(hs[i])]) =
              a + Total(Whole(SubSeq(s, 1, j - 1)))
<1> DEFINE n == Len(s)
           t == SubSeq(s, 1, j - 1)
           m == a + j - 1
           w == [i \in 1 .. m |-> hs[i].L]
           z == [i \in 1 .. m |-> size_plus_header(hs[i])]
<1>1. /\ n \in Nat /\ a \in Nat /\ m \in Nat /\ m < Len(hs) /\ j - 1 \in 0 .. n
      /\ \A i \in 1 .. n : s[i] \in Nat
  <2>1. n \in Nat /\ \A i \in 1 .. n : s[i] \in Nat
    BY HeadTypes, SMTT(60)
  <2>2. a \in Nat /\ c \in {0, 1} /\ Len(hs) = a + n + c
    BY DEF LaidOut
  <2> HIDE DEF n
  <2>3. j \in 1 .. n
    BY DEF n
  <2> QED BY <2>1, <2>2, <2>3
<1>2. /\ t \in Lens /\ t \in Seq(Int) /\ Len(t) = j - 1
      /\ \A i \in 1 .. j - 1 : t[i] = s[i]
  <2>1. s \in Seq(Nat \ {0}) /\ s \in Seq(Int)
    BY HeadTypes DEF Lens
  <2>2. /\ t \in Seq(Nat \ {0}) /\ Len(t) = j - 1
        /\ \A i \in 1 .. j - 1 : t[i] = s[i]
    BY <1>1, <2>1
  <2>3. t \in Seq(Int)
    BY <2>2
  <2> QED BY <2>2, <2>3 DEF Lens
<1>3. /\ \A i \in 1 .. a : hs[i].L = 0 /\ size_plus_header(hs[i]) = 1
      /\ \A i \in 1 .. j - 1 : /\ hs[a + i].L = t[i]
                               /\ size_plus_header(hs[a + i]) = size_header_sdu(t[i]) + t[i]
  <2>1. ASSUME NEW i \in 1 .. a PROVE hs[i].L = 0 /\ size_plus_header(hs[i]) = 1
    <3>1. hs[i] = PadHeader(TRUE)
      BY DEF LaidOut
    <3>2. PadHeader(TRUE).L = 0
      BY DEF PadHeader
    <3>3. size_plus_header(PadHeader(TRUE)) = 1
      <4>1. 0 \in Nat
        OBVIOUS
      <4> QED BY <4>1, HeaderBytes
    <3> QED BY <3>1, <3>2, <3>3
  <2>2. ASSUME NEW i \in 1 .. j - 1
        PROVE  /\ hs[a + i].L = t[i]
               /\ size_plus_header(hs[a + i]) = size_header_sdu(t[i]) + t[i]
    <3>1. i \in 1 .. n /\ i < n
      BY <1>1
    <3>2. hs[a + i] = SduHeader(s[i], TRUE) /\ s[i] \in Nat
      BY <1>1, <3>1 DEF LaidOut
    <3>3. SduHeader(s[i], TRUE).L = s[i]
      BY DEF SduHeader
    <3>4. size_plus_header(SduHeader(s[i], TRUE)) = size_header_sdu(s[i]) + s[i]
      BY <3>2, HeaderBytes
    <3> HIDE DEF t
    <3> QED BY <1>2, <3>2, <3>3, <3>4
  <2> QED BY <2>1, <2>2
<1> HIDE DEF n, t
<1>4. /\ w \in Seq(Int) /\ Len(w) = a + Len(t) + 0
      /\ z \in Seq(Int) /\ Len(z) = a + Len(t) + 0
  <2>1. \A i \in 1 .. m : hs[i].L \in Int /\ size_plus_header(hs[i]) \in Int
    <3> SUFFICES ASSUME NEW i \in 1 .. m PROVE hs[i].L \in Int /\ size_plus_header(hs[i]) \in Int
      OBVIOUS
    <3>1. hs[i] \in Subheader
      <4>1. hs \in Seq(Subheader) /\ Len(hs) \in Nat
        BY DEF LaidOut
      <4>2. i \in 1 .. Len(hs)
        BY <1>1, <4>1
      <4> QED BY <4>1, <4>2
    <3> QED BY <3>1, SubheaderSizes DEF Subheader
  <2>2. m = a + Len(t) + 0
    BY <1>1, <1>2
  <2> HIDE DEF m
  <2>3. w \in Seq(Int) /\ Len(w) = m
    BY <1>1, <2>1
  <2>4. z \in Seq(Int) /\ Len(z) = m
    BY <1>1, <2>1
  <2> QED BY <2>2, <2>3, <2>4
<1>5. \A i \in 1 .. m : w[i] = hs[i].L /\ z[i] = size_plus_header(hs[i])
  OBVIOUS
<1>6. /\ \A i \in 1 .. a : i \in 1 .. m
      /\ \A i \in 1 .. j - 1 : a + i \in 1 .. m
  BY <1>1
<1> HIDE DEF w, z, m
<1>7. Between(w, t, a, 0, 0)
  <2>1. \A i \in 1 .. a : w[i] = 0
    BY <1>3, <1>5, <1>6
  <2>2. \A i \in 1 .. Len(t) : w[a + i] = t[i]
    BY <1>2, <1>3, <1>5, <1>6
  <2> QED BY <1>4, <2>1, <2>2 DEF Between
<1>8. Total(w) = Total(t)
  <2>1. Total(w) = Total(t) + (IF 0 = 1 THEN a + 0 ELSE 0)
    BY <1>1, <1>2, <1>4, <1>7, SumBetween
  <2>2. Total(t) \in Int
    BY <1>2, SumType
  <2> QED BY <2>1, <2>2
<1> DEFINE v == Whole(t)
<1>9. v \in Seq(Int) /\ Len(v) = Len(t)
  BY <1>2, SumWhole
<1>10. Between(z, v, a, 0, 1)
  <2>1. \A i \in 1 .. a : z[i] = 1
    BY <1>3, <1>5, <1>6
  <2>2. \A i \in 1 .. Len(t) : v[i] = size_header_sdu(t[i]) + t[i]
    BY DEF Whole
  <2> HIDE DEF v
  <2>3. \A i \in 1 .. Len(v) : z[a + i] = v[i]
    BY <1>2, <1>3, <1>5, <1>6, <1>9, <2>2
  <2> QED BY <1>4, <1>9, <2>1, <2>3 DEF Between
<1> HIDE DEF v
<1>11. Total(z) = a + Total(v)
  <2>1. Total(z) = Total(v) + (IF 1 = 1 THEN a + 0 ELSE 0)
    BY <1>1, <1>4, <1>9, <1>10, SumBetween
  <2>2. Total(v) \in Int
    BY <1>9, SumType
  <2> QED BY <1>1, <2>1, <2>2
<1> QED BY <1>8, <1>11 DEF w, z, v, t, m

\* The sub-header of an SDU gives its place and its length; the last one's
\* length is what the rest of the PDU leaves.
LEMMA PayloadOfSdu ==
  ASSUME NEW s \in Lens, Msg(s).rem_len >= 0, NEW j \in 1 .. Len(s)
  PROVE  LET p == Msg(s)
             hs == subheaders(p)
             i == onetwo_padding(p) + j
         IN /\ ~hs[i].pad
            /\ payload(hs, i) = [at |-> sum(SubSeq(s, 1, j - 1)), size |-> s[j]]
<1> DEFINE p == Msg(s)
           hs == subheaders(p)
           a == onetwo_padding(p)
           c == behind(p)
           n == Len(s)
           t == SubSeq(s, 1, j - 1)
           rem == p.rem_len
           more == c = 1 \/ j < n
<1>1. /\ p.sdus = s /\ rem = PDU_LEN - Total(s) - Total(Heads(s))
      /\ n \in Nat /\ Total(s) \in Nat /\ Total(Heads(s)) \in Nat /\ PDU_LEN \in Nat
      /\ rem >= 0 /\ s[j] \in Nat \ {0}
  BY HeadTypes DEF Msg, Lens
<1>2. rem \in Nat
  <2> HIDE DEF p
  <2> QED BY <1>1
<1>3. LaidOut(hs, s, a, c)
  BY <1>1, <1>2, SubheaderParts
<1>4. /\ a = IF rem > 2 THEN 0 ELSE rem
      /\ c = IF rem > 2 THEN 1 ELSE 0
  BY DEF multibyte_padding, onetwo_padding, behind
<1> HIDE DEF hs, a, c, p
<1>5. a \in Nat /\ c \in {0, 1} /\ Len(hs) = a + n + c /\ hs[a + j] = SduHeader(s[j], more)
  BY <1>3 DEF LaidOut
<1>6. hs[a + j].pad = FALSE /\ (more => hs[a + j].L = s[j])
  BY <1>5 DEF SduHeader
<1>7. /\ Total([i \in 1 .. a + j - 1 |-> hs[i].L]) = Total(t)
      /\ Total([i \in 1 .. a + j - 1 |-> size_plus_header(hs[i])]) = a + Total(Whole(t))
  BY <1>3, FirstHeaders
<1>8. sum([i \in 1 .. a + j - 1 |-> hs[i].L]) = sum(t)
  BY <1>7 DEF sum, Total
<1>9. (IF a + j = Len(hs) THEN last_size(hs) ELSE hs[a + j].L) = s[j]
  <2>1. CASE a + j # Len(hs)
    <3>1. more
      <4> HIDE DEF n
      <4> QED BY <1>1, <1>5, <2>1, SMTT(60) DEF n
    <3> QED BY <1>6, <2>1, <3>1
  <2>2. CASE a + j = Len(hs)
    <3>1. c = 0 /\ j = n /\ a + j - 1 = Len(hs) - 1
      <4> HIDE DEF n
      <4>1. j \in 1 .. n
        BY DEF n
      <4> QED BY <1>1, <1>5, <2>2, <4>1
    <3>2. a = rem
      BY <1>2, <1>4, <3>1
    <3>3. last_size(hs) = PDU_LEN - (a + Total(Whole(t))) - 1
      <4>1. last_size(hs) = PDU_LEN - Total([i \in 1 .. Len(hs) - 1 |-> size_plus_header(hs[i])]) - 1
        BY DEF last_size, sum, Total
      <4>2. Total([i \in 1 .. Len(hs) - 1 |-> size_plus_header(hs[i])]) = a + Total(Whole(t))
        BY <1>7, <3>1, Zenon
      <4> QED BY <4>1, <4>2
    <3>4. t \in Lens /\ s = Append(t, s[j])
      <4>1. s \in Seq(Nat \ {0}) /\ j - 1 \in 0 .. Len(s) - 1 /\ (j - 1) + 1 = j
        BY <1>1 DEF Lens
      <4>2. SubSeq(s, 1, j) = Append(t, s[j])
        BY <4>1, LongerPrefix
      <4>3. SubSeq(s, 1, j) = s
        BY <3>1, <4>1, SubSeqFull
      <4>4. t \in Seq(Nat \ {0})
        BY <4>1
      <4> HIDE DEF t
      <4> QED BY <4>2, <4>3, <4>4 DEF Lens
    <3> HIDE DEF t
    <3> DEFINE x == s[j]
               u == Append(t, x)
    <3>5. x \in Nat \ {0} /\ s = u
      BY <1>1, <3>4
    <3>6. Total(u) = Total(t) + x /\ Total(Heads(u)) = Total(FullHeads(t)) + 1
      <4> HIDE DEF x
      <4> QED BY <3>4, <3>5, HeadTypes, HeadsAppend, SumAppend
    <3>7. Total(Whole(t)) = Total(FullHeads(t)) + Total(t)
      BY <3>4, SumWhole
    <3>8. Total(t) \in Int /\ Total(FullHeads(t)) \in Int
      BY <3>4, HeadTypes
    <3>9. rem = PDU_LEN - (Total(t) + x) - (Total(FullHeads(t)) + 1)
      <4> HIDE DEF x, u
      <4> QED BY <1>1, <3>5, <3>6
    <3> HIDE DEF x, u, rem
    <3> DEFINE y == Total(t)
               z == Total(FullHeads(t))
    <3>10. last_size(hs) = x
      <4>1. y \in Int /\ z \in Int /\ x \in Int /\ PDU_LEN \in Int /\ rem \in Int
        BY <1>1, <1>2, <3>5, <3>8
      <4>2. last_size(hs) = PDU_LEN - (rem + (z + y)) - 1
        BY <3>2, <3>3, <3>7
      <4>3. rem = PDU_LEN - (y + x) - (z + 1)
        BY <3>9
      <4> HIDE DEF y, z
      <4> QED BY <4>1, <4>2, <4>3
    <3> QED BY <2>2, <3>10 DEF x
  <2> QED BY <2>1, <2>2
<1>10. payload(hs, a + j) = [at |-> sum(t), size |-> s[j]]
  <2> HIDE DEF t
  <2> DEFINE i == a + j
             at == sum([k \in 1 .. i - 1 |-> hs[k].L])
             size == IF i = Len(hs) THEN last_size(hs) ELSE hs[i].L
  <2>1. payload(hs, i) = [at |-> at, size |-> size]
    BY DEF payload
  <2>2. at = sum(t)
    <3> DEFINE sums(m) == sum([k \in 1 .. m |-> hs[k].L])
    <3>1. a + j - 1 = i - 1
      BY <1>1, <1>5
    <3>2. sums(a + j - 1) = sum(t)
      BY <1>8, Zenon
    <3> HIDE DEF sums, i
    <3>3. sums(i - 1) = sum(t)
      BY <3>1, <3>2
    <3> QED BY <3>3, Zenon DEF sums
  <2>3. size = s[j]
    BY <1>9, Zenon
  <2> HIDE DEF i, at, size
  <2> QED BY <2>1, <2>2, <2>3 DEF i
<1> QED BY <1>6, <1>10 DEF hs, a, t, p

\* The payloads of the first m SDUs.
Payloads(s, m) ==
    [j \in 1 .. m |-> [at |-> sum(SubSeq(s, 1, j - 1)), size |-> s[j]]]

LEMMA PayloadsAppend ==
  ASSUME NEW s, NEW m \in Nat
  PROVE  Payloads(s, m + 1) =
           Append(Payloads(s, m), [at |-> sum(SubSeq(s, 1, (m + 1) - 1)), size |-> s[m + 1]])
<1> DEFINE x(j) == [at |-> sum(SubSeq(s, 1, j - 1)), size |-> s[j]]
           T == {x(j) : j \in 1 .. m + 1}
           P == Payloads(s, m)
           Q == Payloads(s, m + 1)
<1>1. P = [j \in 1 .. m |-> x(j)] /\ Q = [j \in 1 .. m + 1 |-> x(j)]
  BY DEF Payloads
<1>2. \A j \in 1 .. m + 1 : x(j) \in T
  OBVIOUS
<1>3. \A j \in 1 .. m : j \in 1 .. m + 1
  OBVIOUS
<1> HIDE DEF x, T, P, Q
<1>4. P \in Seq(T) /\ Len(P) = m /\ \A j \in 1 .. m : P[j] = x(j)
  BY <1>1, <1>2, <1>3
<1>5. Q \in Seq(T) /\ Len(Q) = m + 1 /\ \A j \in 1 .. m + 1 : Q[j] = x(j)
  BY <1>1, <1>2
<1>6. x(m + 1) \in T /\ m + 1 \in 1 .. m + 1
  BY <1>2
<1>7. Q = Append(P, x(m + 1))
  BY <1>3, <1>4, <1>5, <1>6, IsAppend
<1> QED BY <1>7 DEF P, Q, x

\* parse_packet finds every SDU of a PDU.
LEMMA MsgIsParsed ==
  ASSUME NEW s \in Lens, Msg(s).rem_len >= 0
  PROVE  parse_packet(subheaders(Msg(s))) = Payloads(s, Len(s))
<1> DEFINE p == Msg(s)
           hs == subheaders(p)
           a == onetwo_padding(p)
           c == behind(p)
           n == Len(s)
           N == a + n + c
           D == Seq({payload(hs, i) : i \in 1 .. N})
           sdus(i) == IF i <= a THEN 0 ELSE IF i <= a + n THEN i - a ELSE n
<1>1. n \in Nat /\ LaidOut(hs, s, a, c)
  <2>1. p.sdus = s /\ p.rem_len \in Nat /\ n \in Nat
    <3>1. /\ p.sdus = s /\ p.rem_len = PDU_LEN - Total(s) - Total(Heads(s))
          /\ Total(s) \in Nat /\ Total(Heads(s)) \in Nat /\ PDU_LEN \in Nat /\ p.rem_len >= 0
      BY HeadTypes DEF Msg
    <3>2. p.rem_len \in Nat
      <4> HIDE DEF p
      <4> QED BY <3>1
    <3> QED BY <3>1, <3>2, HeadTypes
  <2> QED BY <2>1, SubheaderParts
<1>2. \A j \in 1 .. n : /\ ~hs[a + j].pad
                        /\ payload(hs, a + j) = [at |-> sum(SubSeq(s, 1, j - 1)), size |-> s[j]]
  BY PayloadOfSdu
<1> HIDE DEF hs, a, c, p, n
<1>3. /\ a \in Nat /\ c \in {0, 1} /\ N \in Nat /\ DOMAIN hs = 1 .. N
      /\ \A i \in 1 .. a : hs[i].pad
      /\ c = 1 => hs[a + n + 1].pad
  <2>1. PadHeader(TRUE).pad /\ PadHeader(FALSE).pad
    BY DEF PadHeader
  <2>2. a \in Nat /\ c \in {0, 1} /\ N \in Nat
    BY <1>1 DEF LaidOut
  <2> QED BY <1>1, <2>1, <2>2 DEF LaidOut, n
<1> HIDE DEF N
<1>4. <<>> \in D /\ \A i \in 1 .. N : \A y \in D : read(hs, y, i) \in D
  <2> SUFFICES ASSUME NEW i \in 1 .. N, NEW y \in D PROVE read(hs, y, i) \in D
    OBVIOUS
  <2>1. Append(y, payload(hs, i)) \in D
    OBVIOUS
  <2> HIDE DEF D
  <2> QED BY <2>1 DEF read
<1> HIDE DEF D
<1>5. PICK f \in [0 .. N -> D] :
        /\ f[0] = <<>>
        /\ \A i \in 1 .. N : f[i] = read(hs, f[i - 1], i)
        /\ f[N] = parse_packet(hs)
  BY <1>3, <1>4, ReadTrace
<1> DEFINE S == {i \in 0 .. N : f[i] = Payloads(s, sdus(i))}
<1>6. 0 \in S
  <2>1. Payloads(s, 0) = <<>>
    BY DEF Payloads
  <2>2. sdus(0) = 0 /\ 0 \in 0 .. N
    BY <1>3
  <2> QED BY <1>5, <2>1, <2>2
<1>7. ASSUME NEW i \in 0 .. (N - 1), i \in S PROVE i + 1 \in S
  <2>1. i + 1 \in 1 .. N /\ (i + 1) - 1 = i /\ i + 1 \in 0 .. N /\ i \in Nat
    BY <1>3
  <2>2. f[i + 1] = read(hs, Payloads(s, sdus(i)), i + 1)
    <3>1. f[i] = Payloads(s, sdus(i))
      BY <1>7
    <3> HIDE DEF S, sdus
    <3> QED BY <1>5, <2>1, <3>1
  <2>3. CASE i + 1 <= a
    <3>1. hs[i + 1].pad /\ sdus(i + 1) = sdus(i)
      BY <1>3, <2>1, <2>3
    <3> HIDE DEF sdus
    <3>2. f[i + 1] = Payloads(s, sdus(i + 1))
      BY <2>2, <3>1 DEF read
    <3> QED BY <2>1, <3>2
  <2>4. CASE a < i + 1 /\ i + 1 <= a + n
    <3> DEFINE j == (i + 1) - a
    <3>1. /\ j \in 1 .. n /\ a + j = i + 1 /\ sdus(i + 1) = j /\ sdus(i) = j - 1
          /\ j - 1 \in Nat /\ (j - 1) + 1 = j
      BY <1>1, <1>3, <2>1, <2>4
    <3> HIDE DEF sdus, j, S
    <3>2. f[i + 1] = Append(Payloads(s, j - 1), [at |-> sum(SubSeq(s, 1, j - 1)), size |-> s[j]])
      BY <1>2, <2>2, <3>1 DEF read
    <3>3. f[i + 1] = Payloads(s, (j - 1) + 1)
      BY <3>1, <3>2, PayloadsAppend
    <3>4. f[i + 1] = Payloads(s, sdus(i + 1))
      BY <3>1, <3>3
    <3> QED BY <2>1, <3>4 DEF S
  <2>5. CASE a + n < i + 1
    <3>1. c = 1 /\ i + 1 = a + n + 1 /\ sdus(i + 1) = n /\ sdus(i) = n
      BY <1>1, <1>3, <2>1, <2>5 DEF N
    <3> HIDE DEF sdus
    <3>2. f[i + 1] = Payloads(s, sdus(i + 1))
      BY <1>3, <2>2, <3>1 DEF read
    <3> QED BY <2>1, <3>2
  <2> QED BY <1>1, <1>3, <2>1, <2>3, <2>4, <2>5
<1>8. 0 .. N \subseteq S
  <2> HIDE DEF S
  <2> QED BY <1>3, <1>6, <1>7, InductionTo
<1>9. N \in 0 .. N /\ sdus(N) = n
  BY <1>1, <1>3 DEF N
<1> HIDE DEF sdus
<1>10. f[N] = Payloads(s, n)
  BY <1>8, <1>9
<1> QED BY <1>5, <1>10 DEF hs, p, n
=============================================================================
