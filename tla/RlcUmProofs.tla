---------------------------- MODULE RlcUmProofs ----------------------------
(***************************************************************************)
(* Proofs about the RLC UM entities and the MAC PDUs between them, for any *)
(* number of UEs, any grants, any window and any loss.  First what the     *)
(* transmitter builds (pieces of SDUs, framed as they say, as long as it   *)
(* returns), then what the receiver keeps between two calls (segments of   *)
(* one SDU, in order, whose next numbers are behind the window), then the  *)
(* MAC PDUs, and last the invariants of the whole.                         *)
(***************************************************************************)
EXTENDS RlcUm, SchPduProofs

-----------------------------------------------------------------------------
(* Pieces of SDUs.                                                         *)

\* The bytes i to j of the SDU s.
Piece(s, i, j) == [k \in 1 .. (j - i) + 1 |-> <<s, i + (k - 1)>>]

\* p is n bytes of s from the i-th on.
IsPiece(p, S, s, i, n) ==
    /\ p \in Seq(S \X Nat) /\ Len(p) = n
    /\ \A k \in 1 .. n : p[k] = <<s, i + (k - 1)>>

LEMMA PieceFacts ==
  ASSUME NEW S, NEW s \in S, NEW i \in Nat \ {0}, NEW j \in Nat, i <= j + 1
  PROVE  /\ IsPiece(Piece(s, i, j), S, s, i, (j - i) + 1)
         /\ Piece(s, i, j) = <<>> <=> i = j + 1
<1> DEFINE n == (j - i) + 1
           p == Piece(s, i, j)
<1>1. n \in Nat /\ \A k \in 1 .. n : <<s, i + (k - 1)>> \in S \X Nat
  OBVIOUS
<1>2. p = [k \in 1 .. n |-> <<s, i + (k - 1)>>]
  BY DEF Piece
<1>3. n = 0 <=> i = j + 1
  OBVIOUS
<1> HIDE DEF p, n
<1>4. p \in Seq(S \X Nat) /\ Len(p) = n /\ \A k \in 1 .. n : p[k] = <<s, i + (k - 1)>>
  BY <1>1, <1>2
<1>5. p = <<>> <=> n = 0
  BY <1>4
<1>6. IsPiece(p, S, s, i, n)
  BY <1>4 DEF IsPiece
<1> QED BY <1>3, <1>5, <1>6 DEF p, n

\* Pieces are cut in pieces.
LEMMA PieceCut ==
  ASSUME NEW S, NEW s \in S, NEW i \in Nat \ {0}, NEW j \in Nat, i <= j + 1,
         NEW n \in 0 .. (j - i) + 1
  PROVE  /\ SubSeq(Piece(s, i, j), 1, n) = Piece(s, i, i + (n - 1))
         /\ SubSeq(Piece(s, i, j), n + 1, Len(Piece(s, i, j))) = Piece(s, i + n, j)
<1> DEFINE p == Piece(s, i, j)
           l == (j - i) + 1
           q == Piece(s, i, i + (n - 1))
           r == Piece(s, i + n, j)
           a == SubSeq(p, 1, n)
           b == SubSeq(p, n + 1, l)
<1>1. p \in Seq(S \X Nat) /\ Len(p) = l /\ \A k \in 1 .. l : p[k] = <<s, i + (k - 1)>>
  <2>1. IsPiece(p, S, s, i, l)
    BY PieceFacts
  <2> HIDE DEF p, l
  <2> QED BY <2>1 DEF IsPiece
<1>2. /\ i + (n - 1) \in Nat /\ i <= (i + (n - 1)) + 1 /\ ((i + (n - 1)) - i) + 1 = n
      /\ i + n \in Nat \ {0} /\ i + n <= j + 1 /\ (j - (i + n)) + 1 = l - n
      /\ l \in Nat /\ n \in Nat /\ n <= l
  OBVIOUS
<1>3. /\ q \in Seq(S \X Nat) /\ Len(q) = n /\ \A k \in 1 .. n : q[k] = <<s, i + (k - 1)>>
  <2> DEFINE m == i + (n - 1)
  <2>1. m \in Nat /\ i <= m + 1 /\ (m - i) + 1 = n
    BY <1>2
  <2> HIDE DEF m
  <2>2. IsPiece(Piece(s, i, m), S, s, i, (m - i) + 1)
    BY <2>1, PieceFacts
  <2> QED BY <2>1, <2>2 DEF m, IsPiece
<1>4. /\ r \in Seq(S \X Nat) /\ Len(r) = l - n
      /\ \A k \in 1 .. l - n : r[k] = <<s, (i + n) + (k - 1)>>
  <2> DEFINE m == i + n
  <2>1. m \in Nat \ {0} /\ m <= j + 1 /\ (j - m) + 1 = l - n
    BY <1>2
  <2> HIDE DEF m, l
  <2>2. IsPiece(Piece(s, m, j), S, s, m, (j - m) + 1)
    BY <2>1, PieceFacts
  <2> QED BY <2>1, <2>2 DEF m, IsPiece
<1> HIDE DEF p, q, r, l
<1>5. a \in Seq(S \X Nat) /\ Len(a) = n /\ \A k \in 1 .. n : a[k] = p[k]
  <2>1. \A k \in 1 .. n : k \in 1 .. l /\ 1 + k - 1 = k
    BY <1>2
  <2>2. \A k \in 1 .. n : p[k] \in S \X Nat
    BY <1>1, <2>1
  <2>3. /\ a \in Seq(S \X Nat) /\ Len(a) = IF 1 <= n THEN n - 1 + 1 ELSE 0
        /\ \A k \in 1 .. n - 1 + 1 : a[k] = p[1 + k - 1]
    BY <1>1, <1>2, <2>2, SubSeqProperties
  <2>4. n - 1 + 1 = n /\ (~(1 <= n) => n = 0)
    BY <1>2
  <2> HIDE DEF a
  <2> QED BY <2>1, <2>3, <2>4
<1>6. b \in Seq(S \X Nat) /\ Len(b) = l - n /\ \A k \in 1 .. l - n : b[k] = p[n + k]
  <2>1. \A k \in (n + 1) .. l : k \in 1 .. l
    BY <1>2
  <2>2. \A k \in (n + 1) .. l : p[k] \in S \X Nat
    BY <1>1, <2>1
  <2>3. /\ b \in Seq(S \X Nat) /\ Len(b) = IF n + 1 <= l THEN l - (n + 1) + 1 ELSE 0
        /\ \A k \in 1 .. l - (n + 1) + 1 : b[k] = p[(n + 1) + k - 1]
    <3> DEFINE m == n + 1
    <3>1. m \in 1 .. Len(p) + 1 /\ l \in (m - 1) .. Len(p) /\ m \in Int /\ l \in Int
      BY <1>1, <1>2
    <3>2. p \in Seq(S \X Nat) /\ \A k \in m .. l : p[k] \in S \X Nat
      BY <1>1, <2>2
    <3> HIDE DEF m
    <3>3. /\ SubSeq(p, m, l) \in Seq(S \X Nat)
          /\ Len(SubSeq(p, m, l)) = IF m <= l THEN l - m + 1 ELSE 0
          /\ \A k \in 1 .. l - m + 1 : SubSeq(p, m, l)[k] = p[m + k - 1]
      BY <3>1, <3>2, SubSeqProperties
    <3> QED BY <3>3 DEF m
  <2>4. /\ l - (n + 1) + 1 = l - n /\ (~(n + 1 <= l) => l - n = 0)
        /\ \A k \in 1 .. l - n : (n + 1) + k - 1 = n + k
    BY <1>2
  <2> HIDE DEF b
  <2> QED BY <2>3, <2>4
<1> HIDE DEF a, b
<1>7. a = q
  <2>1. \A k \in 1 .. n : a[k] = q[k]
    <3>1. \A k \in 1 .. n : k \in 1 .. l
      BY <1>2
    <3> QED BY <1>1, <1>3, <1>5, <3>1
  <2> QED BY <1>3, <1>5, <2>1, SeqEqual
<1>8. b = r
  <2>1. \A k \in 1 .. l - n : b[k] = r[k]
    <3> SUFFICES ASSUME NEW k \in 1 .. l - n PROVE b[k] = r[k]
      OBVIOUS
    <3>1. n + k \in 1 .. l /\ i + ((n + k) - 1) = (i + n) + (k - 1)
      BY <1>2
    <3>2. b[k] = <<s, i + ((n + k) - 1)>>
      BY <1>1, <1>6, <3>1
    <3> QED BY <1>4, <3>1, <3>2
  <2> QED BY <1>4, <1>6, <2>1, SeqEqual
<1>9. Len(p) = l
  BY <1>1
<1> QED BY <1>7, <1>8, <1>9 DEF a, b, p, q, r

LEMMA WholePiece ==
  ASSUME NEW S, NEW s \in S, s[2] \in Nat
  PROVE  Bytes(s) = Piece(s, 1, s[2])
<1>1. (s[2] - 1) + 1 = s[2] /\ \A i \in 1 .. s[2] : 1 + (i - 1) = i
  OBVIOUS
<1> QED BY <1>1 DEF Bytes, Piece

-----------------------------------------------------------------------------
(* The fold.                                                               *)

\* The loop that pulls SDUs from the queue s.
Pulled(b0, s) == FoldLeft(PullIfRoom, b0, s)

KeptBy(D, N, s) == \A n \in 1 .. N : \A y \in D : PullIfRoom(y, s[n]) \in D

PulledBy(f, N, b0, s) ==
    /\ f[0] = b0
    /\ \A n \in 1 .. N : f[n] = PullIfRoom(f[n - 1], s[n])
    /\ f[N] = Pulled(b0, s)

LEMMA PullTrace ==
  ASSUME NEW s, NEW N \in Nat, DOMAIN s = 1 .. N, NEW D, NEW b0 \in D,
         KeptBy(D, N, s)
  PROVE  \E f \in [0 .. N -> D] : PulledBy(f, N, b0, s)
<1>k. \A n \in 1 .. N : \A y \in D : PullIfRoom(y, s[n]) \in D
  BY DEF KeptBy
<1> DEFINE G == [n \in 1 .. N |-> [y \in D |-> PullIfRoom(y, s[n])]]
           base == b0
           Eq(h) == h = [t \in SUBSET (DOMAIN s) |->
                           IF t = {} THEN base ELSE PullIfRoom(h[t \ {Max(t)}], s[Max(t)])]
           h == CHOOSE g : Eq(g)
<1>1. G \in [1 .. N -> [D -> D]] /\ base \in D
  BY <1>k
<1>2. Pulled(b0, s) = h[DOMAIN s]
  BY DEF FoldLeft, MapThenFoldSet, Pulled
<1>3. Eq(h)
  <2>1. PICK g : IsSolution(N, D, base, G, g)
    <3> HIDE DEF G, Eq, h, base
    <3> QED BY <1>1, FoldSolution
  <2>2. ASSUME NEW t \in SUBSET (1 .. N), t # {}
        PROVE  g[t] = PullIfRoom(g[t \ {Max(t)}], s[Max(t)])
    <3> HIDE DEF h, Eq
    <3> QED BY <2>1, <2>2 DEF IsSolution
  <2>3. Eq(g)
    <3> HIDE DEF G, h, base
    <3> QED BY <2>1, <2>2 DEF IsSolution
  <2> HIDE DEF Eq
  <2> QED BY <2>3
<1>4. h[{}] = base
  <2> HIDE DEF G, h, base
  <2> QED BY <1>3
<1>5. ASSUME NEW n \in 1 .. N PROVE h[1 .. n] = PullIfRoom(h[1 .. (n - 1)], s[n])
  <2>1. Max(1 .. n) = n /\ (1 .. n) \ {n} = 1 .. (n - 1) /\ n \in 1 .. n
    BY GreatestOfInterval
  <2>2. 1 .. n \in SUBSET (DOMAIN s)
    OBVIOUS
  <2> HIDE DEF G, h, base
  <2> QED BY <1>3, <2>1, <2>2
<1>6. ASSUME NEW n \in 1 .. N, h[1 .. (n - 1)] \in D
      PROVE  h[1 .. n] = G[n][h[1 .. (n - 1)]]
  <2> HIDE DEF h, Eq
  <2> QED BY <1>5, <1>6
<1>7. \E f \in [0 .. N -> D] : IsTrace(N, base, G, f, h[1 .. N])
  <2> HIDE DEF G, h, Eq, base
  <2> QED BY <1>1, <1>4, <1>6, FoldTrace
<1>8. PICK f \in [0 .. N -> D] :
        f[0] = base /\ f[N] = h[1 .. N] /\ \A n \in 1 .. N : f[n] = G[n][f[n - 1]]
  <2> HIDE DEF G, h, Eq, base
  <2> QED BY <1>7 DEF IsTrace
<1>9. ASSUME NEW n \in 1 .. N PROVE f[n] = PullIfRoom(f[n - 1], s[n])
  <2>1. f[n - 1] \in D
    OBVIOUS
  <2> HIDE DEF h, Eq
  <2> QED BY <1>8, <2>1
<1> HIDE DEF h, G
<1> QED BY <1>2, <1>8, <1>9 DEF PulledBy


-----------------------------------------------------------------------------
(* A PDU under construction.                                               *)

Wholes(S) == {Bytes(s) : s \in S}

\* The end of s from byte i on; of the whole of it if `begins'.
IsEnd(S, p, begins) ==
    \E s \in S : \E i \in 1 .. s[2] : p = Piece(s, i, s[2]) /\ (begins => i = 1)

\* last and what is left over of the SDU it belongs to.
IsSplit(S, last, rest, begins) ==
    \E s \in S : \E i \in 1 .. s[2] : \E j \in i .. s[2] :
      /\ last = Piece(s, i, j - 1) /\ rest = Piece(s, j, s[2])
      /\ begins => i = 1

TxRecords(S, sn, q) ==
    {t \in [vt_us : {sn}, tx_sdu : Seq(S \X Nat), tx_sdu_queue : Seq(Wholes(S))] :
       Len(t.tx_sdu_queue) <= q}

Builders(S, sn, q) ==
    [segs : Seq(Seq(S \X Nat)), last : Seq(S \X Nat), pdu_space : Int,
     t : TxRecords(S, sn, q)]

\* The segments that are complete: all but the first are of whole SDUs.
Complete(S, segs, aligned) ==
    \A i \in 1 .. Len(segs) : IsEnd(S, segs[i], aligned \/ i > 1)

\* The last segment is complete, too, or it took the room and leaves a rest.
LastOf(S, b, aligned) ==
    LET begins == aligned \/ b.segs # <<>> IN
      \/ b.last = <<>> /\ b.t.tx_sdu = <<>> /\ b.segs = <<>>
      \/ IsEnd(S, b.last, begins) /\ b.t.tx_sdu = <<>>
      \/ /\ IsSplit(S, b.last, b.t.tx_sdu, begins)
         /\ b.pdu_space <= packed_length(Len(b.segs))

Building(S, sn, q, aligned) ==
    {b \in Builders(S, sn, q) : Complete(S, b.segs, aligned) /\ LastOf(S, b, aligned)}

Sdus(S) == \A s \in S : s[2] \in Nat \ {0}

LEMMA EndFacts ==
  ASSUME NEW S, Sdus(S), NEW p, NEW begins, IsEnd(S, p, begins)
  PROVE  p \in Seq(S \X Nat) /\ p # <<>>
<1>0. PICK s \in S : \E i \in 1 .. s[2] : p = Piece(s, i, s[2])
  BY DEF IsEnd
<1>1. PICK i \in 1 .. s[2] : p = Piece(s, i, s[2])
  BY <1>0
<1>2. s[2] \in Nat /\ i \in Nat \ {0} /\ i <= s[2] + 1 /\ i # s[2] + 1
  BY <1>1 DEF Sdus
<1>3. IsPiece(Piece(s, i, s[2]), S, s, i, (s[2] - i) + 1) /\ Piece(s, i, s[2]) # <<>>
  BY <1>2, PieceFacts
<1> QED BY <1>1, <1>3 DEF IsPiece

LEMMA SplitFacts ==
  ASSUME NEW S, Sdus(S), NEW p, NEW r, NEW begins, IsSplit(S, p, r, begins)
  PROVE  /\ p \in Seq(S \X Nat) /\ r \in Seq(S \X Nat) /\ r # <<>>
         /\ IsEnd(S, r, FALSE)
<1>0. PICK s \in S : \E i \in 1 .. s[2] : \E j \in i .. s[2] :
        p = Piece(s, i, j - 1) /\ r = Piece(s, j, s[2])
  BY DEF IsSplit
<1>a. PICK i \in 1 .. s[2] : \E j \in i .. s[2] :
        p = Piece(s, i, j - 1) /\ r = Piece(s, j, s[2])
  BY <1>0
<1>1. PICK j \in i .. s[2] : p = Piece(s, i, j - 1) /\ r = Piece(s, j, s[2])
  BY <1>a
<1>2. /\ s[2] \in Nat /\ i \in Nat \ {0} /\ j - 1 \in Nat /\ i <= (j - 1) + 1
      /\ j \in 1 .. s[2]
  BY <1>1 DEF Sdus
<1>3. IsEnd(S, r, FALSE)
  BY <1>1, <1>2 DEF IsEnd
<1>4. p \in Seq(S \X Nat)
  <2> DEFINE m == j - 1
  <2>1. m \in Nat /\ i <= m + 1
    BY <1>2
  <2> HIDE DEF m
  <2>2. IsPiece(Piece(s, i, m), S, s, i, (m - i) + 1)
    BY <1>2, <2>1, PieceFacts
  <2> QED BY <1>1, <2>2 DEF IsPiece, m
<1> QED BY <1>3, <1>4, EndFacts

LEMMA PackedLength ==
  ASSUME NEW n \in Nat
  PROVE  packed_length(n) \in Nat \ {0, 1}
BY DEF packed_length, li_bytes

\* An SDU, or the rest of one, moves into the PDU as far as there is room.
LEMMA MoveStep ==
  ASSUME NEW S, Sdus(S), NEW sn, NEW q \in Int, NEW aligned \in BOOLEAN,
         NEW b \in Builders(S, sn, q), Complete(S, b.segs, aligned),
         NEW sdu, IsEnd(S, sdu, aligned \/ b.segs # <<>>)
  PROVE  /\ Move(b, sdu) \in Building(S, sn, q, aligned)
         /\ Move(b, sdu).t.tx_sdu_queue = b.t.tx_sdu_queue
         /\ Move(b, sdu).last # <<>> \/ Move(b, sdu).t.tx_sdu # <<>>
<1> DEFINE begins == aligned \/ b.segs # <<>>
           li == packed_length(Len(b.segs))
           room == b.pdu_space - li
           n == to_move(room, sdu)
           m == Move(b, sdu)
<1>0. PICK s \in S : \E i \in 1 .. s[2] : sdu = Piece(s, i, s[2]) /\ (begins => i = 1)
  BY DEF IsEnd
<1>1. PICK i \in 1 .. s[2] : sdu = Piece(s, i, s[2]) /\ (begins => i = 1)
  BY <1>0
<1> DEFINE l == (s[2] - i) + 1
<1>2. /\ s[2] \in Nat \ {0} /\ i \in Nat \ {0} /\ i <= s[2] + 1 /\ i <= s[2]
      /\ l \in Nat \ {0}
  BY <1>1 DEF Sdus
<1>3. /\ b.segs \in Seq(Seq(S \X Nat)) /\ b.pdu_space \in Int
      /\ b.t \in TxRecords(S, sn, q) /\ Len(b.segs) \in Nat
  BY DEF Builders
<1>4. li \in Nat /\ room \in Int
  <2>1. li \in Nat
    BY <1>3, PackedLength
  <2> HIDE DEF li
  <2> QED BY <1>3, <2>1
<1>5. Len(sdu) = l
  <2>1. IsPiece(Piece(s, i, s[2]), S, s, i, (s[2] - i) + 1)
    BY <1>2, PieceFacts
  <2> QED BY <1>1, <2>1 DEF IsPiece
<1>6. /\ n \in 0 .. l
      /\ n = l \/ n = room
  <2> HIDE DEF room, l
  <2> QED BY <1>2, <1>4, <1>5 DEF to_move
<1> DEFINE last == SubSeq(sdu, 1, n)
           rest == SubSeq(sdu, n + 1, Len(sdu))
<1>7. last = Piece(s, i, i + (n - 1)) /\ rest = Piece(s, i + n, s[2])
  <2> DEFINE e == s[2]
  <2>1. /\ n \in 0 .. (e - i) + 1 /\ e \in Nat /\ i \in Nat \ {0} /\ i <= e + 1
        /\ sdu = Piece(s, i, e)
    BY <1>1, <1>2, <1>6
  <2> HIDE DEF n, e, room, li, m, begins, l
  <2>2. /\ SubSeq(Piece(s, i, e), 1, n) = Piece(s, i, i + (n - 1))
        /\ SubSeq(Piece(s, i, e), n + 1, Len(Piece(s, i, e))) = Piece(s, i + n, e)
    BY <2>1, PieceCut, ZenonT(60)
  <2> QED BY <2>1, <2>2 DEF e
<1>8. /\ m = [b EXCEPT !.last = last, !.pdu_space = b.pdu_space - n, !.t.tx_sdu = rest]
  BY DEF Move
<1> HIDE DEF m, n, room, li, l
<1>9. \/ n = l /\ last = sdu /\ rest = <<>>
      \/ /\ n = room /\ IsSplit(S, last, rest, begins)
  <2>1. CASE n = l
    <3>1. i + (n - 1) = s[2] /\ i + n = s[2] + 1 /\ i + n \in Nat \ {0} /\ i + n <= s[2] + 1
      BY <1>2, <2>1 DEF l
    <3>2. Piece(s, i + n, s[2]) = <<>>
      <4> DEFINE k == i + n
      <4>1. k \in Nat \ {0} /\ k <= s[2] + 1 /\ k = s[2] + 1 /\ s[2] \in Nat
        BY <1>2, <3>1
      <4> HIDE DEF k
      <4> QED BY <4>1, PieceFacts DEF k
    <3> HIDE DEF last, rest
    <3> QED BY <1>1, <1>7, <2>1, <3>1, <3>2
  <2>2. CASE n # l
    <3> DEFINE j == i + n
    <3>1. j \in i .. s[2] /\ i + (n - 1) = j - 1 /\ n = room
      BY <1>2, <1>6, <2>2 DEF l
    <3> HIDE DEF last, rest, j
    <3>2. last = Piece(s, i, j - 1) /\ rest = Piece(s, j, s[2])
      BY <1>7, <3>1 DEF j
    <3> QED BY <1>1, <3>1, <3>2 DEF IsSplit
  <2> QED BY <2>1, <2>2
<1>10. last \in Seq(S \X Nat) /\ rest \in Seq(S \X Nat) /\ (last # <<>> \/ rest # <<>>)
  <2> HIDE DEF last, rest
  <2>1. sdu \in Seq(S \X Nat) /\ sdu # <<>>
    BY EndFacts
  <2>2. <<>> \in Seq(S \X Nat)
    OBVIOUS
  <2> QED BY <1>9, <2>1, <2>2, SplitFacts
<1> HIDE DEF last, rest
<1>11. /\ m.segs = b.segs /\ m.last = last /\ m.pdu_space = b.pdu_space - n
       /\ m.t = [b.t EXCEPT !.tx_sdu = rest]
       /\ m \in [segs : {b.segs}, last : {last}, pdu_space : {b.pdu_space - n},
                 t : {[b.t EXCEPT !.tx_sdu = rest]}]
  BY <1>8 DEF Builders
<1>12. /\ m.t \in TxRecords(S, sn, q) /\ m.t.tx_sdu = rest
       /\ m.t.tx_sdu_queue = b.t.tx_sdu_queue
  BY <1>3, <1>10, <1>11 DEF TxRecords
<1>13. m \in Builders(S, sn, q)
  <2>1. b.pdu_space - n \in Int
    BY <1>3, <1>6
  <2> QED BY <1>3, <1>10, <1>11, <1>12, <2>1 DEF Builders
<1>14. LastOf(S, m, aligned)
  <2>1. CASE n = l /\ last = sdu /\ rest = <<>>
    BY <1>11, <1>12, <2>1 DEF LastOf
  <2>2. CASE n = room /\ IsSplit(S, last, rest, begins)
    <3>1. m.pdu_space <= li
      BY <1>3, <1>4, <1>11, <2>2 DEF room
    <3> QED BY <1>11, <1>12, <2>2, <3>1 DEF LastOf, li
  <2> QED BY <1>9, <2>1, <2>2
<1> QED BY <1>10, <1>11, <1>12, <1>13, <1>14 DEF Building, m

\* Every turn of the loop keeps what is said of a PDU under construction.
LEMMA PullStep ==
  ASSUME NEW S, Sdus(S), NEW sn, NEW q \in Int, NEW aligned \in BOOLEAN,
         NEW b \in Building(S, sn, q, aligned), NEW unused
  PROVE  /\ PullIfRoom(b, unused) \in Building(S, sn, q, aligned)
         /\ \/ b.last # <<>> \/ b.t.tx_sdu # <<>>
            \/ b.pdu_space > packed_length(Len(b.segs)) /\ b.t.tx_sdu_queue # <<>>
            => \/ PullIfRoom(b, unused).last # <<>>
               \/ PullIfRoom(b, unused).t.tx_sdu # <<>>
<1> DEFINE go == b.pdu_space > packed_length(Len(b.segs)) /\ n_unread(b.t) > 0
           queue == b.t.tx_sdu_queue
           segs == IF b.last = <<>> THEN b.segs ELSE Append(b.segs, b.last)
           c == [b EXCEPT !.segs = segs, !.t.tx_sdu_queue = Tail(queue)]
           sdu == Head(queue)
<1>1. /\ b \in Builders(S, sn, q) /\ Complete(S, b.segs, aligned) /\ LastOf(S, b, aligned)
      /\ b.segs \in Seq(Seq(S \X Nat)) /\ b.last \in Seq(S \X Nat) /\ b.pdu_space \in Int
      /\ b.t \in TxRecords(S, sn, q) /\ Len(b.segs) \in Nat
      /\ queue \in Seq(Wholes(S)) /\ Len(queue) <= q
  BY DEF Building, Builders, TxRecords
<1>2. queue # <<>> <=> n_unread(b.t) > 0
  <2> HIDE DEF queue
  <2>1. n_unread(b.t) = Len(queue)
    BY DEF n_unread, queue
  <2> QED BY <1>1, <2>1
<1>3. CASE ~go
  <2>1. PullIfRoom(b, unused) = b
    BY <1>3 DEF PullIfRoom
  <2>2. ~(b.pdu_space > packed_length(Len(b.segs)) /\ queue # <<>>)
    BY <1>2, <1>3
  <2> QED BY <2>1, <2>2
<1>4. CASE go
  <2>1. PullIfRoom(b, unused) = Move(c, sdu)
    BY <1>4 DEF PullIfRoom, Pull
  <2>2. queue # <<>> /\ ~(b.pdu_space <= packed_length(Len(b.segs)))
    <3>1. packed_length(Len(b.segs)) \in Int
      BY <1>1, PackedLength
    <3> HIDE DEF queue
    <3> QED BY <1>1, <1>2, <1>4, <3>1
  <2>3. sdu \in Wholes(S) /\ Tail(queue) \in Seq(Wholes(S)) /\ Len(Tail(queue)) = Len(queue) - 1
    <3> HIDE DEF queue
    <3> QED BY <1>1, <2>2
  <2>4. \/ b.last = <<>> /\ b.segs = <<>>
        \/ IsEnd(S, b.last, aligned \/ b.segs # <<>>)
    BY <1>1, <2>2 DEF LastOf
  <2>5. segs \in Seq(Seq(S \X Nat)) /\ Complete(S, segs, aligned)
    <3>1. CASE b.last = <<>>
      BY <1>1, <3>1
    <3>2. CASE b.last # <<>>
      <4> DEFINE n == Len(b.segs)
                 a == Append(b.segs, b.last)
      <4>1. /\ a \in Seq(Seq(S \X Nat)) /\ Len(a) = n + 1 /\ a[n + 1] = b.last
            /\ \A i \in 1 .. n : a[i] = b.segs[i]
        BY <1>1
      <4>2. IsEnd(S, b.last, aligned \/ b.segs # <<>>)
        BY <2>4, <3>2
      <4>3. n \in Nat /\ (n + 1 > 1 <=> b.segs # <<>>)
        BY <1>1
      <4>4. segs = a
        BY <3>2
      <4> HIDE DEF a, n
      <4>5. ASSUME NEW i \in 1 .. Len(a) PROVE IsEnd(S, a[i], aligned \/ i > 1)
        <5>1. CASE i = n + 1
          <6>1. (aligned \/ b.segs # <<>>) = (aligned \/ i > 1)
            BY <4>3, <5>1
          <6> QED BY <4>1, <4>2, <5>1, <6>1
        <5>2. CASE i # n + 1
          <6>1. i \in 1 .. n
            BY <4>1, <4>3, <5>2
          <6> QED BY <1>1, <4>1, <6>1 DEF Complete, n
        <5> QED BY <5>1, <5>2
      <4> QED BY <4>1, <4>4, <4>5 DEF Complete
    <3> QED BY <3>1, <3>2
  <2> HIDE DEF segs
  <2>6. /\ c.segs = segs /\ c.last = b.last /\ c.pdu_space = b.pdu_space
        /\ c.t = [b.t EXCEPT !.tx_sdu_queue = Tail(queue)]
        /\ c \in [segs : {segs}, last : {b.last}, pdu_space : {b.pdu_space},
                  t : {[b.t EXCEPT !.tx_sdu_queue = Tail(queue)]}]
    BY <1>1 DEF Builders
  <2>7. c.t \in TxRecords(S, sn, q)
    <3> DEFINE rest == Tail(queue)
    <3>1. rest \in Seq(Wholes(S)) /\ Len(rest) <= q
      <4>1. rest \in Seq(Wholes(S)) /\ Len(rest) = Len(queue) - 1 /\ Len(queue) \in Nat
        BY <1>1, <2>3
      <4> HIDE DEF rest, queue
      <4> QED BY <1>1, <4>1
    <3>2. c.t = [b.t EXCEPT !.tx_sdu_queue = rest]
      BY <2>6
    <3> HIDE DEF rest, c
    <3> QED BY <1>1, <3>1, <3>2 DEF TxRecords
  <2> HIDE DEF c
  <2>8. c \in Builders(S, sn, q)
    BY <1>1, <2>5, <2>6, <2>7 DEF Builders
  <2>9. IsEnd(S, sdu, aligned \/ c.segs # <<>>)
    <3>1. PICK s \in S : sdu = Bytes(s)
      BY <2>3 DEF Wholes
    <3>2. s[2] \in Nat \ {0} /\ 1 \in 1 .. s[2]
      BY <3>1 DEF Sdus
    <3>3. sdu = Piece(s, 1, s[2])
      BY <3>1, <3>2, WholePiece
    <3> HIDE DEF sdu
    <3> QED BY <3>2, <3>3 DEF IsEnd
  <2> HIDE DEF sdu
  <2>10. /\ Move(c, sdu) \in Building(S, sn, q, aligned)
         /\ Move(c, sdu).last # <<>> \/ Move(c, sdu).t.tx_sdu # <<>>
    BY <2>5, <2>6, <2>8, <2>9, MoveStep
  <2> QED BY <2>1, <2>10
<1> QED BY <1>3, <1>4

\* The state of a transmitter between two PDUs.
TxStates(S) ==
    {t \in [vt_us : 0 .. (SN_MOD - 1), tx_sdu : Seq(S \X Nat),
            tx_sdu_queue : Seq(Wholes(S))] :
       t.tx_sdu # <<>> => IsEnd(S, t.tx_sdu, FALSE)}

Pdus(S) ==
    [sn : 0 .. (SN_MOD - 1), start : BOOLEAN, end : BOOLEAN,
     segs : Seq(Seq(S \X Nat)) \ {<<>>}]

\* Every segment of a PDU is a piece of an SDU; it begins and ends where the
\* PDU says so.
Framed(S, p) ==
    \A i \in 1 .. Len(p.segs) :
      \E s \in S : \E k \in 1 .. s[2] : \E j \in (k - 1) .. s[2] :
        /\ p.segs[i] = Piece(s, k, j)
        /\ p.start \/ i > 1 => k = 1
        /\ p.end \/ i < Len(p.segs) => j = s[2]

\* Something was moved into the PDU or is left over.
Started(b) == b.last # <<>> \/ b.t.tx_sdu # <<>>

LEMMA FillBuilds ==
  ASSUME NEW S, Sdus(S), NEW t \in TxStates(S), NEW nof_bytes \in Int
  PROVE  /\ Fill(t, nof_bytes) \in
              Building(S, t.vt_us, Len(t.tx_sdu_queue), t.tx_sdu = <<>>)
         /\ \/ t.tx_sdu # <<>>
            \/ t.tx_sdu_queue # <<>> /\ nof_bytes > packed_length(0)
            => Started(Fill(t, nof_bytes))
<1> DEFINE queue == t.tx_sdu_queue
           N == Len(queue)
           al == t.tx_sdu = <<>>
           b == [segs |-> <<>>, last |-> <<>>, pdu_space |-> nof_bytes, t |-> t]
           b0 == IF t.tx_sdu = <<>> THEN b ELSE Move(b, t.tx_sdu)
           D == Building(S, t.vt_us, N, al)
           some == t.tx_sdu # <<>> \/ (queue # <<>> /\ nof_bytes > packed_length(0))
<1>1. /\ queue \in Seq(Wholes(S)) /\ t.tx_sdu \in Seq(S \X Nat)
      /\ t.tx_sdu # <<>> => IsEnd(S, t.tx_sdu, FALSE)
      /\ t \in [vt_us : {t.vt_us}, tx_sdu : Seq(S \X Nat), tx_sdu_queue : Seq(Wholes(S))]
      /\ t \in [vt_us : 0 .. (SN_MOD - 1), tx_sdu : Seq(S \X Nat),
                tx_sdu_queue : Seq(Wholes(S))]
  <2>1. /\ t \in [vt_us : 0 .. (SN_MOD - 1), tx_sdu : Seq(S \X Nat),
                  tx_sdu_queue : Seq(Wholes(S))]
        /\ t.tx_sdu # <<>> => IsEnd(S, t.tx_sdu, FALSE)
    BY DEF TxStates
  <2> QED BY <2>1
<1>2. N \in Nat /\ DOMAIN queue = 1 .. N /\ al \in BOOLEAN
  <2> HIDE DEF queue
  <2> QED BY <1>1
<1>3. t \in TxRecords(S, t.vt_us, N)
  BY <1>1, <1>2 DEF TxRecords
<1>4. b \in Builders(S, t.vt_us, N) /\ b.segs = <<>> /\ b.last = <<>> /\ b.t = t
      /\ b.pdu_space = nof_bytes
  <2>1. <<>> \in Seq(Seq(S \X Nat)) /\ <<>> \in Seq(S \X Nat)
    OBVIOUS
  <2> QED BY <1>3, <2>1 DEF Builders
<1> HIDE DEF b, N
<1>5. Complete(S, b.segs, al)
  <2>1. 1 .. Len(b.segs) = {}
    BY <1>4
  <2> QED BY <2>1 DEF Complete
<1>6. b0 \in D /\ (t.tx_sdu # <<>> => Started(b0))
      /\ (t.tx_sdu = <<>> => b0 = b)
  <2>1. CASE t.tx_sdu = <<>>
    <3>1. b0 = b
      BY <2>1
    <3>2. LastOf(S, b, al)
      BY <1>4, <2>1 DEF LastOf
    <3> QED BY <1>4, <1>5, <2>1, <3>1, <3>2 DEF Building
  <2>2. CASE t.tx_sdu # <<>>
    <3>1. b0 = Move(b, t.tx_sdu)
      BY <2>2
    <3>2. IsEnd(S, t.tx_sdu, al \/ b.segs # <<>>)
      <4>1. (al \/ b.segs # <<>>) = FALSE
        BY <1>4, <2>2
      <4> QED BY <1>1, <2>2, <4>1
    <3>3. N \in Int
      BY <1>2
    <3> HIDE DEF al
    <3>4. /\ Move(b, t.tx_sdu) \in D
          /\ Move(b, t.tx_sdu).last # <<>> \/ Move(b, t.tx_sdu).t.tx_sdu # <<>>
      BY <1>2, <1>4, <1>5, <3>2, <3>3, MoveStep
    <3> QED BY <2>2, <3>1, <3>4 DEF Started
  <2> QED BY <2>1, <2>2
<1> HIDE DEF b0, D, queue
<1>7. \A y \in D : \A x : PullIfRoom(y, x) \in D
  <2> HIDE DEF al
  <2> QED BY <1>2, PullStep DEF D
<1>8. \E f \in [0 .. N -> D] : PulledBy(f, N, b0, queue)
  <2>1. KeptBy(D, N, queue)
    BY <1>7 DEF KeptBy
  <2> HIDE DEF al, some
  <2> QED BY <1>2, <1>6, <2>1, PullTrace
<1>a. PICK f \in [0 .. N -> D] :
        /\ f[0] = b0
        /\ \A n \in 1 .. N : f[n] = PullIfRoom(f[n - 1], queue[n])
        /\ f[N] = Pulled(b0, queue)
  BY <1>8 DEF PulledBy
<1>9. Fill(t, nof_bytes) = f[N]
  BY <1>a DEF Fill, Pulled, b0, b, queue
<1>10. Fill(t, nof_bytes) \in D
  BY <1>2, <1>a, <1>9
<1>11. ASSUME some PROVE Started(f[N])
  <2> DEFINE P == {n \in 0 .. N : (n >= 1 \/ t.tx_sdu # <<>>) => Started(f[n])}
  <2>1. 0 \in P
    BY <1>2, <1>6, <1>a
  <2>2. ASSUME NEW n \in 0 .. (N - 1), n \in P PROVE n + 1 \in P
    <3>1. n \in 0 .. N /\ n + 1 \in 0 .. N /\ n + 1 \in 1 .. N /\ (n + 1) - 1 = n
      BY <1>2
    <3>2. f[n] \in D /\ f[n + 1] = PullIfRoom(f[n], queue[n + 1])
      BY <1>a, <3>1
    <3>3. \/ Started(f[n])
          \/ f[n].pdu_space > packed_length(Len(f[n].segs)) /\ f[n].t.tx_sdu_queue # <<>>
      <4>1. CASE n >= 1 \/ t.tx_sdu # <<>>
        BY <2>2, <4>1
      <4>2. CASE n = 0 /\ t.tx_sdu = <<>>
        <5>1. f[n] = b
          BY <1>6, <1>a, <4>2
        <5>2. Len(b.segs) = 0
          BY <1>4
        <5> QED BY <1>4, <1>11, <4>2, <5>1, <5>2 DEF queue
      <4> QED BY <4>1, <4>2
    <3> DEFINE y == f[n]
               x == queue[n + 1]
    <3> HIDE DEF y, x
    <3>4. Started(PullIfRoom(y, x))
      <4>1. y \in Building(S, t.vt_us, N, al) /\ N \in Int /\ al \in BOOLEAN
        BY <1>2, <3>2 DEF y, D
      <4>2. \/ y.last # <<>> \/ y.t.tx_sdu # <<>>
            \/ y.pdu_space > packed_length(Len(y.segs)) /\ y.t.tx_sdu_queue # <<>>
        BY <3>3 DEF y, Started
      <4> HIDE DEF al
      <4> QED BY <4>1, <4>2, PullStep DEF Started
    <3> QED BY <3>1, <3>2, <3>4 DEF y, x
  <2>3. 0 .. N \subseteq P
    <3> HIDE DEF P
    <3> QED BY <1>2, <2>1, <2>2, InductionTo
  <2>4. N \in P /\ N \in Nat /\ (N >= 1 \/ t.tx_sdu # <<>>)
    <3>1. N \in P
      <4> HIDE DEF P
      <4> QED BY <1>2, <2>3
    <3>2. queue # <<>> => N >= 1
      BY <1>1, <1>2 DEF N
    <3> QED BY <1>2, <1>11, <3>1, <3>2
  <2> QED BY <2>4
<1> QED BY <1>9, <1>10, <1>11 DEF D, queue, N

\* The length build_data_pdu() returns for a PDU with these segments.
length_of(segs) == packed_length(Len(segs) - 1) + Len(FlattenSeq(segs))

\* d is what build_data_pdu(t, nof_bytes) may return.
Built(S, t, d) ==
    /\ d.t \in TxStates(S)
    /\ Len(d.t.tx_sdu_queue) <= Len(t.tx_sdu_queue)
    /\ \/ d.len = 0 /\ d.t = t
       \/ /\ d.len \in Nat \ {0} /\ d.len = length_of(d.pdu.segs)
          /\ d.pdu \in Pdus(S) /\ Framed(S, d.pdu) /\ d.pdu.sn = t.vt_us
          /\ d.t.vt_us = next_sn(t.vt_us)

\* The segments of the PDU begin and end where it says.
LEMMA SegmentsFramed ==
  ASSUME NEW S, Sdus(S), NEW p \in Pdus(S), NEW segs \in Seq(Seq(S \X Nat)),
         NEW last, p.segs = Append(segs, last), Complete(S, segs, p.start),
         \/ IsEnd(S, last, p.start \/ segs # <<>>)
         \/ ~p.end /\ \E rest : IsSplit(S, last, rest, p.start \/ segs # <<>>)
  PROVE  Framed(S, p)
<1> DEFINE n == Len(segs)
           all == p.segs
           begins == p.start \/ segs # <<>>
<1>1. /\ n \in Nat /\ Len(all) = n + 1 /\ all[n + 1] = last
      /\ \A i \in 1 .. n : all[i] = segs[i]
      /\ n + 1 > 1 <=> segs # <<>>
  OBVIOUS
<1> HIDE DEF n, all
<1>2. SUFFICES ASSUME NEW i \in 1 .. n + 1
               PROVE  \E s \in S : \E k \in 1 .. s[2] : \E j \in (k - 1) .. s[2] :
                        /\ all[i] = Piece(s, k, j)
                        /\ p.start \/ i > 1 => k = 1
                        /\ p.end \/ i < n + 1 => j = s[2]
  BY <1>1, ZenonT(60) DEF Framed, all
<1>3. ASSUME NEW x, NEW b \in BOOLEAN, IsEnd(S, x, b), p.start \/ i > 1 => b, all[i] = x
      PROVE  \E s \in S : \E k \in 1 .. s[2] : \E j \in (k - 1) .. s[2] :
                        /\ all[i] = Piece(s, k, j)
                        /\ p.start \/ i > 1 => k = 1
                        /\ p.end \/ i < n + 1 => j = s[2]
  <2>1. PICK s \in S : \E k \in 1 .. s[2] : x = Piece(s, k, s[2]) /\ (b => k = 1)
    BY <1>3 DEF IsEnd
  <2>2. PICK k \in 1 .. s[2] : x = Piece(s, k, s[2]) /\ (b => k = 1)
    BY <2>1
  <2>3. s[2] \in Nat /\ s[2] \in (k - 1) .. s[2]
    BY DEF Sdus
  <2> QED BY <1>3, <2>2, <2>3
<1>4. CASE i \in 1 .. n
  <2>1. IsEnd(S, segs[i], p.start \/ i > 1) /\ all[i] = segs[i]
    BY <1>1, <1>4 DEF Complete, n
  <2>2. (p.start \/ i > 1) \in BOOLEAN
    OBVIOUS
  <2> QED BY <1>3, <2>1, <2>2
<1>5. CASE i = n + 1 /\ IsEnd(S, last, begins)
  <2>1. all[i] = last /\ (p.start \/ i > 1 => begins) /\ begins \in BOOLEAN
    BY <1>1, <1>5 DEF Pdus
  <2> HIDE DEF begins
  <2> QED BY <1>3, <1>5, <2>1
<1>6. CASE i = n + 1 /\ ~p.end /\ \E rest : IsSplit(S, last, rest, begins)
  <2>1. all[i] = last /\ (p.start \/ i > 1 => begins)
    BY <1>1, <1>6
  <2>2. PICK s \in S : \E k \in 1 .. s[2] : \E j \in k .. s[2] :
          last = Piece(s, k, j - 1) /\ (begins => k = 1)
    BY <1>6 DEF IsSplit
  <2>3. PICK k \in 1 .. s[2] : \E j \in k .. s[2] :
          last = Piece(s, k, j - 1) /\ (begins => k = 1)
    BY <2>2
  <2>4. PICK j \in k .. s[2] : last = Piece(s, k, j - 1) /\ (begins => k = 1)
    BY <2>3
  <2> DEFINE e == j - 1
  <2>5. s[2] \in Nat /\ e \in (k - 1) .. s[2] /\ last = Piece(s, k, e)
    BY <2>4 DEF Sdus
  <2>6. ~(p.end \/ i < n + 1)
    BY <1>1, <1>6
  <2> HIDE DEF e, begins
  <2> QED BY <2>1, <2>4, <2>5, <2>6
<1> QED BY <1>1, <1>4, <1>5, <1>6

LEMMA BuildFacts ==
  ASSUME SN_MOD \in Nat \ {0},
         NEW S, Sdus(S), NEW t \in TxStates(S), NEW nof_bytes \in Int
  PROVE  Built(S, t, build_data_pdu(t, nof_bytes))
<1> DEFINE d == build_data_pdu(t, nof_bytes)
           none == buffer_state(t) = 0 \/ nof_bytes <= packed_length(0)
           q == Len(t.tx_sdu_queue)
           b == Fill(t, nof_bytes)
           segs == Append(b.segs, b.last)
           pdu == [sn |-> t.vt_us, start |-> start_aligned(t, b),
                   end |-> b.t.tx_sdu = <<>>, segs |-> segs]
           t1 == [b.t EXCEPT !.vt_us = next_sn(@)]
<1>1. /\ t \in [vt_us : 0 .. (SN_MOD - 1), tx_sdu : Seq(S \X Nat),
                tx_sdu_queue : Seq(Wholes(S))]
      /\ t.tx_sdu # <<>> => IsEnd(S, t.tx_sdu, FALSE)
      /\ q \in Nat
  <2>1. /\ t \in [vt_us : 0 .. (SN_MOD - 1), tx_sdu : Seq(S \X Nat),
                  tx_sdu_queue : Seq(Wholes(S))]
        /\ t.tx_sdu # <<>> => IsEnd(S, t.tx_sdu, FALSE)
    BY DEF TxStates
  <2>2. t.tx_sdu_queue \in Seq(Wholes(S))
    BY <2>1
  <2>3. q \in Nat
    BY <2>2
  <2> QED BY <2>1, <2>3
<1>2. CASE none
  <2>1. d = [len |-> 0, pdu |-> <<>>, t |-> t]
    BY <1>2 DEF build_data_pdu
  <2> QED BY <1>1, <2>1 DEF Built
<1>3. CASE ~none
  <2>1. d = [len |-> packed_length(Len(b.segs)) + Len(FlattenSeq(segs)),
             pdu |-> pdu, t |-> t1]
    BY <1>3 DEF build_data_pdu
  <2>2. t.tx_sdu # <<>> \/ (t.tx_sdu_queue # <<>> /\ nof_bytes > packed_length(0))
    <3>1. t.tx_sdu # <<>> \/ t.tx_sdu_queue # <<>>
      BY <1>3 DEF buffer_state
    <3>2. packed_length(0) \in Int
      BY PackedLength
    <3> QED BY <1>3, <3>1, <3>2
  <2> HIDE DEF d, none, t1, pdu, segs, b
  <2>3. b \in Building(S, t.vt_us, q, t.tx_sdu = <<>>) /\ Started(b)
    BY <2>2, FillBuilds DEF b
  <2>4. /\ b.segs \in Seq(Seq(S \X Nat)) /\ b.last \in Seq(S \X Nat)
        /\ Complete(S, b.segs, t.tx_sdu = <<>>) /\ LastOf(S, b, t.tx_sdu = <<>>)
        /\ b.t \in TxRecords(S, t.vt_us, q)
    BY <2>3 DEF Building, Builders
  <2>5. /\ b.t \in [vt_us : {t.vt_us}, tx_sdu : Seq(S \X Nat), tx_sdu_queue : Seq(Wholes(S))]
        /\ Len(b.t.tx_sdu_queue) <= q
    BY <2>4 DEF TxRecords
  <2>6. /\ segs \in Seq(Seq(S \X Nat)) /\ segs # <<>>
        /\ Len(segs) - 1 = Len(b.segs) /\ Len(b.segs) \in Nat
    <3> DEFINE x == b.segs
               y == b.last
               U == Seq(S \X Nat)
    <3>1. x \in Seq(U) /\ y \in U
      BY <2>4
    <3> HIDE DEF x, y, U
    <3>2. /\ Append(x, y) \in Seq(U) /\ Append(x, y) # <<>>
          /\ Len(Append(x, y)) = Len(x) + 1 /\ Len(x) \in Nat
      BY <3>1
    <3>3. Len(Append(x, y)) - 1 = Len(x)
      BY <3>2
    <3> QED BY <3>2, <3>3 DEF segs, x, y, U
  <2>7. d.len \in Nat \ {0} /\ d.len = length_of(segs) /\ d.pdu = pdu /\ d.t = t1
    <3>1. packed_length(Len(b.segs)) \in Nat \ {0, 1}
      BY <2>6, PackedLength
    <3>2. Len(FlattenSeq(segs)) \in Nat
      BY <2>6, FlattenType
    <3>3. d.len = packed_length(Len(b.segs)) + Len(FlattenSeq(segs)) /\ d.pdu = pdu /\ d.t = t1
      BY <2>1
    <3>4. d.len = length_of(segs)
      BY <2>6, <3>3 DEF length_of
    <3> QED BY <3>1, <3>2, <3>3, <3>4
  <2>8. next_sn(t.vt_us) \in 0 .. (SN_MOD - 1)
    <3>1. t.vt_us \in Int
      BY <1>1
    <3> QED BY <3>1 DEF next_sn
  <2>9. /\ t1 \in [vt_us : 0 .. (SN_MOD - 1), tx_sdu : Seq(S \X Nat),
                   tx_sdu_queue : Seq(Wholes(S))]
        /\ t1.vt_us = next_sn(t.vt_us) /\ t1.tx_sdu = b.t.tx_sdu
        /\ t1.tx_sdu_queue = b.t.tx_sdu_queue
    BY <2>5, <2>8 DEF t1
  <2> DEFINE al == t.tx_sdu = <<>>
             begins == al \/ b.segs # <<>>
  <2>10. \/ IsEnd(S, b.last, begins) /\ b.t.tx_sdu = <<>>
         \/ IsSplit(S, b.last, b.t.tx_sdu, begins)
    BY <2>3, <2>4 DEF LastOf, Started
  <2>11. b.t.tx_sdu # <<>> => IsEnd(S, b.t.tx_sdu, FALSE)
    BY <2>10, SplitFacts
  <2>12. t1 \in TxStates(S)
    BY <2>9, <2>11 DEF TxStates
  <2>13. pdu \in Pdus(S) /\ pdu.sn = t.vt_us /\ pdu.start = al /\ pdu.segs = segs
         /\ pdu.end = (b.t.tx_sdu = <<>>)
    BY <1>1, <2>6 DEF pdu, Pdus, start_aligned
  <2>14. Framed(S, pdu)
    <3>1. \/ IsEnd(S, b.last, begins)
          \/ ~pdu.end /\ \E rest : IsSplit(S, b.last, rest, begins)
      BY <2>10, <2>13, SplitFacts
    <3>2. pdu.segs = Append(b.segs, b.last) /\ begins = (pdu.start \/ b.segs # <<>>)
      BY <2>13 DEF segs
    <3>3. Complete(S, b.segs, pdu.start)
      BY <2>4, <2>13
    <3> HIDE DEF begins, al
    <3> QED BY <2>4, <2>13, <3>1, <3>2, <3>3, SegmentsFramed
  <2>15. d.t \in TxStates(S) /\ Len(d.t.tx_sdu_queue) <= Len(t.tx_sdu_queue)
    BY <2>5, <2>7, <2>9, <2>12 DEF q
  <2> QED BY <2>7, <2>9, <2>13, <2>14, <2>15 DEF Built, d
<1> QED BY <1>2, <1>3

-----------------------------------------------------------------------------
(* No byte is left out and none comes twice.                               *)

\* What is in the PDU under construction and what comes after it.
Held(b) == FlattenSeq(b.segs) \o b.last \o b.t.tx_sdu \o FlattenSeq(b.t.tx_sdu_queue)

\* What a transmitter still has to send.
Unsent(t) == t.tx_sdu \o FlattenSeq(t.tx_sdu_queue)

LEMMA EmptyConcat ==
  ASSUME NEW T, NEW s \in Seq(T)
  PROVE  <<>> \o s = s /\ s \o <<>> = s
OBVIOUS

LEMMA WholesAreSeqs ==
  ASSUME NEW S, Sdus(S)
  PROVE  Wholes(S) \subseteq Seq(S \X Nat)
<1>1. ASSUME NEW s \in S PROVE Bytes(s) \in Seq(S \X Nat)
  <2>1. s[2] \in Nat
    BY DEF Sdus
  <2>2. \A i \in 1 .. s[2] : <<s, i>> \in S \X Nat
    BY <2>1
  <2> QED BY <2>1, <2>2 DEF Bytes
<1> QED BY <1>1 DEF Wholes

\* The first part of the SDU is in the PDU, the rest is left.
Divided(S, b, sdu, m) ==
    /\ m.last \in Seq(S \X Nat) /\ m.t.tx_sdu \in Seq(S \X Nat)
    /\ m.last \o m.t.tx_sdu = sdu
    /\ m.segs = b.segs /\ m.t.tx_sdu_queue = b.t.tx_sdu_queue

LEMMA MoveHolds ==
  ASSUME NEW S, NEW sn, NEW q, NEW b \in Builders(S, sn, q), NEW sdu \in Seq(S \X Nat),
         NEW m, m = Move(b, sdu)
  PROVE  Divided(S, b, sdu, m)
<1> DEFINE T == S \X Nat
           room == b.pdu_space - packed_length(Len(b.segs))
           n == to_move(room, sdu)
           l == Len(sdu)
           last == SubSeq(sdu, 1, n)
           rest == SubSeq(sdu, n + 1, l)
<1>1. l \in Nat /\ room \in Int
  <2>1. b.pdu_space \in Int /\ b.segs \in Seq(Seq(S \X Nat))
    BY DEF Builders
  <2>2. Len(b.segs) \in Nat
    BY <2>1
  <2>3. packed_length(Len(b.segs)) \in Nat
    BY <2>2, PackedLength
  <2> QED BY <2>1, <2>3
<1>2. n \in 0 .. l
  <2> HIDE DEF room, l
  <2> QED BY <1>1 DEF to_move, l
<1>3. m = [b EXCEPT !.last = last, !.pdu_space = b.pdu_space - n, !.t.tx_sdu = rest]
  BY DEF Move
<1> HIDE DEF n, room
<1>4. m.last = last /\ m.segs = b.segs
      /\ m.t.tx_sdu = rest /\ m.t.tx_sdu_queue = b.t.tx_sdu_queue
  <2>1. m.last = last /\ m.segs = b.segs /\ m.t = [b.t EXCEPT !.tx_sdu = rest]
    BY <1>3 DEF Builders
  <2>2. b.t \in [vt_us : {sn}, tx_sdu : Seq(S \X Nat), tx_sdu_queue : Seq(Wholes(S))]
    BY DEF Builders, TxRecords
  <2> HIDE DEF last, rest
  <2> QED BY <2>1, <2>2
<1>5. /\ last \in Seq(T) /\ rest \in Seq(T)
      /\ last \o rest = sdu
  <2>1. sdu \in Seq(T)
    OBVIOUS
  <2> HIDE DEF T
  <2>2. 1 \in 1 .. Len(sdu) + 1 /\ n \in 1 - 1 .. Len(sdu) /\ l \in n .. Len(sdu)
    BY <1>1, <1>2
  <2>3. last \o rest = SubSeq(sdu, 1, l)
    BY <2>1, <2>2, ConcatAdjacentSubSeq
  <2>4. SubSeq(sdu, 1, l) = sdu
    BY <2>1, SubSeqFull
  <2>5. last \in Seq(T) /\ rest \in Seq(T)
    <3>1. \A i \in 1 .. l : sdu[i] \in T
      BY <1>1, <2>1
    <3>2. (\A i \in 1 .. n : i \in 1 .. l) /\ \A i \in (n + 1) .. l : i \in 1 .. l
      BY <1>1, <1>2
    <3>3. last \in Seq(T)
      BY <1>1, <1>2, <3>1, <3>2
    <3>4. rest \in Seq(T)
      BY <1>1, <1>2, <3>1, <3>2
    <3> QED BY <3>3, <3>4
  <2> QED BY <2>3, <2>4, <2>5
<1> QED BY <1>4, <1>5 DEF Divided

LEMMA PullHolds ==
  ASSUME NEW S, Sdus(S), NEW sn, NEW q \in Int, NEW aligned \in BOOLEAN,
         NEW b \in Building(S, sn, q, aligned), NEW unused
  PROVE  Held(PullIfRoom(b, unused)) = Held(b)
<1> DEFINE T == S \X Nat
           go == b.pdu_space > packed_length(Len(b.segs)) /\ n_unread(b.t) > 0
           queue == b.t.tx_sdu_queue
           tail == Tail(queue)
           segs == IF b.last = <<>> THEN b.segs ELSE Append(b.segs, b.last)
           c == [b EXCEPT !.segs = segs, !.t.tx_sdu_queue = tail]
           sdu == Head(queue)
           m == Move(c, sdu)
<1>1. /\ b \in Builders(S, sn, q) /\ LastOf(S, b, aligned)
      /\ b.segs \in Seq(Seq(T)) /\ b.last \in Seq(T) /\ b.pdu_space \in Int
      /\ b.t \in TxRecords(S, sn, q) /\ Len(b.segs) \in Nat
      /\ queue \in Seq(Wholes(S)) /\ Len(queue) <= q
  BY DEF Building, Builders, TxRecords
<1>2. CASE ~go
  <2>1. PullIfRoom(b, unused) = b
    BY <1>2 DEF PullIfRoom
  <2> QED BY <2>1
<1>3. CASE go
  <2>1. PullIfRoom(b, unused) = m
    BY <1>3 DEF PullIfRoom, Pull
  <2>2. b.t.tx_sdu = <<>>
    <3>1. packed_length(Len(b.segs)) \in Int
      BY <1>1, PackedLength
    <3> QED BY <1>1, <1>3, <3>1 DEF LastOf
  <2>3. queue \in Seq(Seq(T)) /\ queue # <<>>
    <3>1. Wholes(S) \subseteq Seq(T)
      BY WholesAreSeqs
    <3> DEFINE U == Seq(T)
    <3> HIDE DEF U, queue
    <3>2. Len(queue) > 0
      BY <1>3 DEF n_unread, queue
    <3> QED BY <1>1, <3>1, <3>2 DEF U
  <2>4. /\ sdu \in Seq(T) /\ tail \in Seq(Seq(T)) /\ tail \in Seq(Wholes(S))
        /\ Len(tail) <= q /\ FlattenSeq(queue) = sdu \o FlattenSeq(tail)
    <3> DEFINE U == Seq(T)
    <3> HIDE DEF queue
    <3>1. sdu \in Seq(T) /\ tail \in Seq(Seq(T))
      <4>1. queue \in Seq(U)
        BY <2>3
      <4> HIDE DEF U
      <4>2. sdu \in U /\ tail \in Seq(U)
        BY <2>3, <4>1
      <4> QED BY <4>2 DEF U
    <3>2. tail \in Seq(Wholes(S)) /\ Len(tail) = Len(queue) - 1 /\ Len(queue) \in Nat
      BY <1>1, <2>3
    <3>3. FlattenSeq(queue) = sdu \o FlattenSeq(tail)
      BY <2>3, FlattenHead
    <3>4. Len(tail) <= q
      <4> HIDE DEF tail
      <4> QED BY <1>1, <3>2
    <3> QED BY <3>1, <3>2, <3>3, <3>4
  <2>5. segs \in Seq(Seq(T)) /\ FlattenSeq(segs) = FlattenSeq(b.segs) \o b.last
    <3>1. CASE b.last = <<>>
      <4>1. FlattenSeq(b.segs) \in Seq(T)
        BY <1>1, FlattenType
      <4>2. FlattenSeq(b.segs) \o <<>> = FlattenSeq(b.segs)
        BY ONLY <4>1, EmptyConcat
      <4> QED BY <1>1, <3>1, <4>2
    <3>2. CASE b.last # <<>>
      <4>1. FlattenSeq(Append(b.segs, b.last)) = FlattenSeq(b.segs) \o b.last
        BY <1>1, FlattenAppend
      <4>2. Append(b.segs, b.last) \in Seq(Seq(T))
        <5> DEFINE U == Seq(T)
        <5>1. b.segs \in Seq(U) /\ b.last \in U
          BY <1>1
        <5> HIDE DEF U
        <5>2. Append(b.segs, b.last) \in Seq(U)
          BY <5>1
        <5> QED BY <5>2 DEF U
      <4> QED BY <3>2, <4>1, <4>2
    <3> QED BY <3>1, <3>2
  <2>6. c \in Builders(S, sn, q) /\ c.segs = segs /\ c.t.tx_sdu_queue = tail
    <3> HIDE DEF segs, tail, queue
    <3>1. b.t \in [vt_us : {sn}, tx_sdu : Seq(T), tx_sdu_queue : Seq(Wholes(S))]
      BY <1>1 DEF TxRecords
    <3> DEFINE t == [b.t EXCEPT !.tx_sdu_queue = tail]
    <3>2. t \in TxRecords(S, sn, q) /\ t.tx_sdu_queue = tail
      BY <2>4, <3>1 DEF TxRecords
    <3>3. c.segs = segs /\ c.last = b.last /\ c.pdu_space = b.pdu_space /\ c.t = t
          /\ c \in [segs : {segs}, last : {b.last}, pdu_space : {b.pdu_space}, t : {t}]
      BY <1>1 DEF Builders
    <3> HIDE DEF c, t
    <3> QED BY <1>1, <2>5, <3>2, <3>3 DEF Builders
  <2> HIDE DEF c, segs, tail, sdu, queue
  <2>7. /\ m.last \in Seq(T) /\ m.t.tx_sdu \in Seq(T) /\ m.last \o m.t.tx_sdu = sdu
        /\ m.segs = segs /\ m.t.tx_sdu_queue = tail
    <3>1. /\ m.last \in Seq(S \X Nat) /\ m.t.tx_sdu \in Seq(S \X Nat)
          /\ m.last \o m.t.tx_sdu = sdu
          /\ m.segs = c.segs /\ m.t.tx_sdu_queue = c.t.tx_sdu_queue
      <4>1. c \in Builders(S, sn, q) /\ sdu \in Seq(S \X Nat) /\ m = Move(c, sdu)
        BY <2>4, <2>6
      <4> HIDE DEF m
      <4>2. Divided(S, c, sdu, m)
        BY ONLY <4>1, MoveHolds
      <4> QED BY <4>2 DEF Divided
    <3> QED BY <2>6, <3>1
  <2> DEFINE f == FlattenSeq(b.segs)
             g == FlattenSeq(tail)
             x == m.last
             y == m.t.tx_sdu
             z == b.last
  <2>8. f \in Seq(T) /\ g \in Seq(T) /\ x \in Seq(T) /\ y \in Seq(T) /\ z \in Seq(T)
    BY <1>1, <2>4, <2>7, FlattenType
  <2>9. Held(m) = (((f \o z) \o x) \o y) \o g
    BY <2>5, <2>7 DEF Held
  <2>10. Held(b) = ((f \o z) \o <<>>) \o (sdu \o g)
    BY <2>2, <2>4 DEF Held, queue
  <2>11. sdu = x \o y
    BY <2>7
  <2> HIDE DEF f, g, x, y, z, m, T
  <2> DEFINE h == f \o z
  <2>12. h \in Seq(T)
    BY <2>8, ConcatProperties
  <2> HIDE DEF h
  <2>13. g \in Seq(T) /\ x \in Seq(T) /\ y \in Seq(T)
    BY <2>8
  <2>14. h \in Seq(T) /\ x \in Seq(T) /\ y \in Seq(T)
    BY <2>12, <2>13
  <2>15. (h \o x) \o y = h \o (x \o y)
    BY ONLY <2>14, ConcatAssociative
  <2> DEFINE xy == x \o y
  <2>16. xy \in Seq(T)
    BY <2>13, ConcatProperties
  <2> HIDE DEF xy
  <2>17. h \in Seq(T) /\ xy \in Seq(T) /\ g \in Seq(T)
    BY <2>12, <2>13, <2>16
  <2>18. (h \o xy) \o g = h \o (xy \o g)
    BY ONLY <2>17, ConcatAssociative
  <2>19. h \o <<>> = h
    BY ONLY <2>12, EmptyConcat
  <2> QED BY <2>1, <2>9, <2>10, <2>11, <2>15, <2>18, <2>19 DEF h, xy
<1> QED BY <1>2, <1>3

LEMMA FillHolds ==
  ASSUME NEW S, Sdus(S), NEW t \in TxStates(S), NEW nof_bytes \in Int
  PROVE  Held(Fill(t, nof_bytes)) = Unsent(t)
<1> DEFINE T == S \X Nat
           queue == t.tx_sdu_queue
           N == Len(queue)
           al == t.tx_sdu = <<>>
           b == [segs |-> <<>>, last |-> <<>>, pdu_space |-> nof_bytes, t |-> t]
           b0 == IF t.tx_sdu = <<>> THEN b ELSE Move(b, t.tx_sdu)
           D == {x \in Building(S, t.vt_us, N, al) : Held(x) = Unsent(t)}
<1>1. /\ queue \in Seq(Wholes(S)) /\ t.tx_sdu \in Seq(T)
      /\ t.tx_sdu # <<>> => IsEnd(S, t.tx_sdu, FALSE)
      /\ t \in [vt_us : {t.vt_us}, tx_sdu : Seq(T), tx_sdu_queue : Seq(Wholes(S))]
  <2>1. /\ t \in [vt_us : 0 .. (SN_MOD - 1), tx_sdu : Seq(S \X Nat),
                  tx_sdu_queue : Seq(Wholes(S))]
        /\ t.tx_sdu # <<>> => IsEnd(S, t.tx_sdu, FALSE)
    BY DEF TxStates
  <2> QED BY <2>1
<1>2. N \in Nat /\ DOMAIN queue = 1 .. N /\ al \in BOOLEAN
  <2> HIDE DEF queue
  <2> QED BY <1>1
<1>3. FlattenSeq(queue) \in Seq(T)
  <2>1. Wholes(S) \subseteq Seq(T)
    BY WholesAreSeqs
  <2> DEFINE U == Seq(T)
  <2> HIDE DEF queue, U
  <2>2. queue \in Seq(U)
    BY <1>1, <2>1 DEF U
  <2> QED BY <2>2, FlattenType DEF U
<1>4. t \in TxRecords(S, t.vt_us, N)
  BY <1>1, <1>2 DEF TxRecords
<1>5. b \in Builders(S, t.vt_us, N) /\ b.segs = <<>> /\ b.last = <<>> /\ b.t = t
  <2>1. <<>> \in Seq(Seq(S \X Nat)) /\ <<>> \in Seq(S \X Nat)
    OBVIOUS
  <2> QED BY <1>4, <2>1 DEF Builders
<1> HIDE DEF b, N
<1>6. Complete(S, b.segs, al) /\ FlattenSeq(b.segs) = <<>>
  <2>1. 1 .. Len(b.segs) = {}
    BY <1>5
  <2> QED BY <1>5, <2>1 DEF Complete, FlattenSeq
<1> DEFINE x == t.tx_sdu
           g == FlattenSeq(queue)
           e == FlattenSeq(b.segs) \o b.last
<1>7. e = <<>> /\ x \in Seq(T) /\ g \in Seq(T)
  BY <1>1, <1>3, <1>5, <1>6
<1>8. b0 \in D
  <2>1. CASE t.tx_sdu = <<>>
    <3>1. b0 = b
      BY <2>1
    <3>2. LastOf(S, b, al)
      BY <1>5, <2>1 DEF LastOf
    <3>3. Held(b) = (e \o x) \o g
      BY <1>5 DEF Held
    <3> HIDE DEF e, x, g
    <3>4. <<>> \o x = x
      BY ONLY <1>7, EmptyConcat
    <3>5. Held(b) = Unsent(t)
      BY <1>7, <3>3, <3>4 DEF Unsent, x, g
    <3> QED BY <1>5, <1>6, <2>1, <3>1, <3>2, <3>5 DEF Building
  <2>2. CASE t.tx_sdu # <<>>
    <3> DEFINE m == Move(b, t.tx_sdu)
    <3>1. b0 = m
      BY <2>2
    <3>2. IsEnd(S, t.tx_sdu, al \/ b.segs # <<>>)
      <4>1. (al \/ b.segs # <<>>) = FALSE
        BY <1>5, <2>2
      <4> QED BY <1>1, <2>2, <4>1
    <3>3. N \in Int
      BY <1>2
    <3>4. m \in Building(S, t.vt_us, N, al)
      <4> HIDE DEF al
      <4> QED BY <1>2, <1>5, <1>6, <3>2, <3>3, MoveStep
    <3>5. /\ m.last \in Seq(T) /\ m.t.tx_sdu \in Seq(T)
          /\ m.last \o m.t.tx_sdu = x
          /\ m.segs = b.segs /\ m.t.tx_sdu_queue = queue
      <4>1. /\ m.last \in Seq(S \X Nat) /\ m.t.tx_sdu \in Seq(S \X Nat)
            /\ m.last \o m.t.tx_sdu = t.tx_sdu
            /\ m.segs = b.segs /\ m.t.tx_sdu_queue = b.t.tx_sdu_queue
        <5> DEFINE sn == t.vt_us
                   sdu == t.tx_sdu
        <5>1. b \in Builders(S, sn, N) /\ sdu \in Seq(S \X Nat) /\ m = Move(b, sdu)
          BY <1>1, <1>5
        <5> HIDE DEF m, sn, sdu
        <5>2. Divided(S, b, sdu, m)
          BY ONLY <5>1, MoveHolds
        <5> QED BY <5>2 DEF sdu, Divided
      <4> QED BY <1>5, <4>1
    <3> HIDE DEF m, queue, x
    <3> DEFINE y == m.last
               z == m.t.tx_sdu
    <3>6. Held(m) = ((<<>> \o y) \o z) \o g
      BY <1>5, <1>6, <3>5 DEF Held
    <3>7. <<>> \o y = y
      BY ONLY <3>5, EmptyConcat
    <3>8. Held(m) = Unsent(t)
      BY <3>5, <3>6, <3>7 DEF Unsent, x, queue
    <3> QED BY <3>1, <3>4, <3>8
  <2> QED BY <2>1, <2>2
<1> HIDE DEF b0, queue
<1>9. KeptBy(D, N, queue)
  <2>1. ASSUME NEW y \in D, NEW z PROVE PullIfRoom(y, z) \in D
    <3>1. y \in Building(S, t.vt_us, N, al) /\ N \in Int /\ al \in BOOLEAN
      BY <1>2
    <3> HIDE DEF al
    <3>2. PullIfRoom(y, z) \in Building(S, t.vt_us, N, al)
      BY <3>1, PullStep
    <3>3. Held(PullIfRoom(y, z)) = Held(y)
      BY <3>1, PullHolds
    <3> QED BY <3>2, <3>3
  <2> HIDE DEF D
  <2> QED BY <2>1 DEF KeptBy
<1> HIDE DEF D
<1>10. PICK f \in [0 .. N -> D] : PulledBy(f, N, b0, queue)
  BY <1>2, <1>8, <1>9, PullTrace
<1>11. Fill(t, nof_bytes) = f[N]
  BY <1>10 DEF Fill, PulledBy, Pulled, b0, b, queue
<1>12. Fill(t, nof_bytes) \in D
  BY <1>2, <1>11
<1> QED BY <1>12 DEF D

\* The bytes of the PDU and what is left are what there was.
LEMMA BuildHolds ==
  ASSUME SN_MOD \in Nat \ {0},
         NEW S, Sdus(S), NEW t \in TxStates(S), NEW nof_bytes \in Int
  PROVE  LET d == build_data_pdu(t, nof_bytes) IN
           /\ d.len = 0 => d.t = t
           /\ d.len # 0 => FlattenSeq(d.pdu.segs) \o Unsent(d.t) = Unsent(t)
<1> DEFINE T == S \X Nat
           d == build_data_pdu(t, nof_bytes)
           none == buffer_state(t) = 0 \/ nof_bytes <= packed_length(0)
           b == Fill(t, nof_bytes)
           segs == Append(b.segs, b.last)
           t1 == [b.t EXCEPT !.vt_us = next_sn(@)]
<1>1. CASE none
  <2>1. d.len = 0 /\ d.t = t
    BY <1>1 DEF build_data_pdu
  <2> QED BY <2>1
<1>2. CASE ~none
  <2>1. d.len = packed_length(Len(b.segs)) + Len(FlattenSeq(segs))
        /\ d.pdu.segs = segs /\ d.t = t1
    BY <1>2 DEF build_data_pdu
  <2> HIDE DEF d, b, none
  <2> DEFINE q == Len(t.tx_sdu_queue)
             al == t.tx_sdu = <<>>
  <2>2. b \in Building(S, t.vt_us, q, al)
    BY FillBuilds DEF b
  <2>3. /\ b.segs \in Seq(Seq(T)) /\ b.last \in Seq(T)
        /\ b.t \in [vt_us : {t.vt_us}, tx_sdu : Seq(T), tx_sdu_queue : Seq(Wholes(S))]
    BY <2>2 DEF Building, Builders, TxRecords
  <2>4. t1.tx_sdu = b.t.tx_sdu /\ t1.tx_sdu_queue = b.t.tx_sdu_queue
    BY <2>3
  <2> HIDE DEF t1
  <2> DEFINE f == FlattenSeq(b.segs)
             z == b.last
             y == b.t.tx_sdu
             g == FlattenSeq(b.t.tx_sdu_queue)
  <2>5. FlattenSeq(segs) = f \o z
    BY <2>3, FlattenAppend
  <2>6. f \in Seq(T) /\ z \in Seq(T) /\ y \in Seq(T) /\ g \in Seq(T)
    <3>1. Wholes(S) \subseteq Seq(T)
      BY WholesAreSeqs
    <3> DEFINE U == Seq(T)
               queue == b.t.tx_sdu_queue
    <3>2. queue \in Seq(Wholes(S))
      BY <2>3
    <3> HIDE DEF U, queue
    <3>3. queue \in Seq(U)
      BY <3>1, <3>2 DEF U
    <3>4. FlattenSeq(queue) \in Seq(T)
      BY <3>3, FlattenType DEF U
    <3>5. f \in Seq(T)
      BY <2>3, FlattenType
    <3> QED BY <2>3, <3>4, <3>5 DEF queue
  <2>7. Held(b) = Unsent(t)
    BY FillHolds DEF b
  <2>8. Held(b) = ((f \o z) \o y) \o g
    BY DEF Held
  <2>9. Unsent(d.t) = y \o g
    BY <2>1, <2>4 DEF Unsent
  <2> DEFINE h == f \o z
  <2> HIDE DEF f, z, y, g, T
  <2>10. h \in Seq(T) /\ y \in Seq(T) /\ g \in Seq(T)
    BY <2>6, ConcatProperties
  <2> HIDE DEF h
  <2>11. (h \o y) \o g = h \o (y \o g)
    BY ONLY <2>10, ConcatAssociative
  <2>12. FlattenSeq(d.pdu.segs) \o Unsent(d.t) = Unsent(t)
    BY <2>1, <2>5, <2>7, <2>8, <2>9, <2>11 DEF h
  <2>13. d.len # 0
    <3>1. Built(S, t, d)
      BY BuildFacts DEF d
    <3>2. Len(b.segs) \in Nat /\ FlattenSeq(segs) \in Seq(T)
      BY <2>3, <2>5, <2>10 DEF h
    <3> DEFINE n == Len(b.segs)
               e == FlattenSeq(segs)
    <3>3. n \in Nat /\ e \in Seq(T)
      BY <3>2
    <3>4. d.len = packed_length(n) + Len(e)
      BY <2>1
    <3> HIDE DEF n, e, d, segs, b
    <3>5. packed_length(n) \in Nat \ {0, 1}
      BY ONLY <3>3, PackedLength
    <3>6. Len(e) \in Nat
      BY ONLY <3>3
    <3> QED BY ONLY <3>4, <3>5, <3>6
  <2> QED BY <2>12, <2>13 DEF d
<1> QED BY <1>1, <1>2

-----------------------------------------------------------------------------
(***************************************************************************)
(* The receiver.                                                           *)
(***************************************************************************)

USE WindowAssumption DEF WindowAssumption

-----------------------------------------------------------------------------
(* The folds.                                                              *)

ClosedUnderMiddle(D, N, p) ==
    \A n \in 1 .. N : \A y \in D : Middle(p, y, Front(p.segs)[n]) \in D

\* f are the states while the segments before the last one are absorbed.
AbsorbedBy(f, N, p, r) ==
    /\ f[0] = r
    /\ \A n \in 1 .. N : f[n] = Middle(p, f[n - 1], Front(p.segs)[n])
    /\ Absorb(p, r) = LastSegment(p, f[N])

LEMMA AbsorbTrace ==
  ASSUME NEW p, NEW N \in Nat, DOMAIN Front(p.segs) = 1 .. N, NEW D, NEW r \in D,
         ClosedUnderMiddle(D, N, p)
  PROVE  \E f \in [0 .. N -> D] : AbsorbedBy(f, N, p, r)
<1>k. \A n \in 1 .. N : \A y \in D : Middle(p, y, Front(p.segs)[n]) \in D
  BY DEF ClosedUnderMiddle
<1> DEFINE s == Front(p.segs)
           G == [n \in 1 .. N |-> [y \in D |-> Middle(p, y, s[n])]]
           base == r
           Eq(h) == h = [t \in SUBSET (DOMAIN s) |->
                           IF t = {} THEN base ELSE Middle(p, h[t \ {Max(t)}], s[Max(t)])]
           h == CHOOSE g : Eq(g)
<1>1. G \in [1 .. N -> [D -> D]] /\ base \in D
  BY <1>k
<1>2. Absorb(p, r) = LastSegment(p, h[DOMAIN s])
  BY DEF Absorb, FoldLeft, MapThenFoldSet
<1>3. Eq(h)
  <2>1. PICK g : IsSolution(N, D, base, G, g)
    <3> HIDE DEF G, Eq, h, base
    <3> QED BY <1>1, FoldSolution
  <2>2. ASSUME NEW t \in SUBSET (1 .. N), t # {}
        PROVE  g[t] = Middle(p, g[t \ {Max(t)}], s[Max(t)])
    <3> HIDE DEF h, Eq
    <3> QED BY <2>1, <2>2 DEF IsSolution
  <2>3. Eq(g)
    <3> HIDE DEF G, h, base
    <3> QED BY <2>1, <2>2 DEF IsSolution
  <2> HIDE DEF Eq
  <2> QED BY <2>3
<1>4. h[{}] = base
  <2> HIDE DEF G, h, base
  <2> QED BY <1>3
<1>5. ASSUME NEW n \in 1 .. N PROVE h[1 .. n] = Middle(p, h[1 .. (n - 1)], s[n])
  <2>1. Max(1 .. n) = n /\ (1 .. n) \ {n} = 1 .. (n - 1) /\ n \in 1 .. n
    BY GreatestOfInterval
  <2>2. 1 .. n \in SUBSET (DOMAIN s)
    OBVIOUS
  <2> HIDE DEF G, h, base
  <2> QED BY <1>3, <2>1, <2>2
<1>6. ASSUME NEW n \in 1 .. N, h[1 .. (n - 1)] \in D
      PROVE  h[1 .. n] = G[n][h[1 .. (n - 1)]]
  <2> HIDE DEF h, Eq
  <2> QED BY <1>5, <1>6
<1>7. \E f \in [0 .. N -> D] : IsTrace(N, base, G, f, h[1 .. N])
  <2> HIDE DEF G, h, Eq, base
  <2> QED BY <1>1, <1>4, <1>6, FoldTrace
<1>8. PICK f \in [0 .. N -> D] :
        f[0] = base /\ f[N] = h[1 .. N] /\ \A n \in 1 .. N : f[n] = G[n][f[n - 1]]
  <2> HIDE DEF G, h, Eq, base
  <2> QED BY <1>7 DEF IsTrace
<1>9. ASSUME NEW n \in 1 .. N PROVE f[n] = Middle(p, f[n - 1], s[n])
  <2>1. f[n - 1] \in D
    OBVIOUS
  <2> HIDE DEF h, Eq
  <2> QED BY <1>8, <2>1
<1> HIDE DEF h, G
<1> QED BY <1>2, <1>8, <1>9 DEF AbsorbedBy


\* D is closed under one turn of the loops of reassemble_rx_sdus(); f are its
\* states.
ClosedUnderPassSn(D, N) == \A n \in 1 .. N : \A y \in D : PassSn(y, n) \in D

PassedBy(f, N, r) ==
    /\ f[0] = r
    /\ \A n \in 1 .. N : f[n] = PassSn(f[n - 1], n)
    /\ f[N] = Pass(r, N)

LEMMA PassTrace ==
  ASSUME NEW N \in Nat, NEW D, NEW r \in D, ClosedUnderPassSn(D, N)
  PROVE  \E f \in [0 .. N -> D] : PassedBy(f, N, r)
<1>k. \A n \in 1 .. N : \A y \in D : PassSn(y, n) \in D
  BY DEF ClosedUnderPassSn
<1> DEFINE s == [i \in 1 .. N |-> i]
           G == [n \in 1 .. N |-> [y \in D |-> PassSn(y, s[n])]]
           base == r
           Eq(h) == h = [t \in SUBSET (DOMAIN s) |->
                           IF t = {} THEN base ELSE PassSn(h[t \ {Max(t)}], s[Max(t)])]
           h == CHOOSE g : Eq(g)
<1>1. G \in [1 .. N -> [D -> D]] /\ base \in D
  BY <1>k
<1>2. Pass(r, N) = h[DOMAIN s]
  BY DEF FoldLeft, MapThenFoldSet, Pass
<1>3. Eq(h)
  <2>1. PICK g : IsSolution(N, D, base, G, g)
    <3> HIDE DEF G, Eq, h, base
    <3> QED BY <1>1, FoldSolution
  <2>2. ASSUME NEW t \in SUBSET (1 .. N), t # {}
        PROVE  g[t] = PassSn(g[t \ {Max(t)}], s[Max(t)])
    <3> HIDE DEF h, Eq
    <3> QED BY <2>1, <2>2 DEF IsSolution
  <2>3. Eq(g)
    <3> HIDE DEF G, h, base
    <3> QED BY <2>1, <2>2 DEF IsSolution
  <2> HIDE DEF Eq
  <2> QED BY <2>3
<1>4. h[{}] = base
  <2> HIDE DEF G, h, base
  <2> QED BY <1>3
<1>5. ASSUME NEW n \in 1 .. N PROVE h[1 .. n] = PassSn(h[1 .. (n - 1)], s[n])
  <2>1. Max(1 .. n) = n /\ (1 .. n) \ {n} = 1 .. (n - 1) /\ n \in 1 .. n
    BY GreatestOfInterval
  <2>2. 1 .. n \in SUBSET (DOMAIN s)
    OBVIOUS
  <2> HIDE DEF G, h, base
  <2> QED BY <1>3, <2>1, <2>2
<1>6. ASSUME NEW n \in 1 .. N, h[1 .. (n - 1)] \in D
      PROVE  h[1 .. n] = G[n][h[1 .. (n - 1)]]
  <2> HIDE DEF h, Eq
  <2> QED BY <1>5, <1>6
<1>7. \E f \in [0 .. N -> D] : IsTrace(N, base, G, f, h[1 .. N])
  <2> HIDE DEF G, h, Eq, base
  <2> QED BY <1>1, <1>4, <1>6, FoldTrace
<1>8. PICK f \in [0 .. N -> D] :
        f[0] = base /\ f[N] = h[1 .. N] /\ \A n \in 1 .. N : f[n] = G[n][f[n - 1]]
  <2> HIDE DEF G, h, Eq, base
  <2> QED BY <1>7 DEF IsTrace
<1>9. ASSUME NEW n \in 1 .. N PROVE f[n] = PassSn(f[n - 1], s[n])
  <2>1. f[n - 1] \in D
    OBVIOUS
  <2> HIDE DEF h, Eq
  <2> QED BY <1>8, <2>1
<1> HIDE DEF h, G
<1> QED BY <1>2, <1>8, <1>9 DEF PassedBy


\* The same of the loop of timer_expired().
AllGivenUp(r, n) == FoldLeft(GiveUp, r, [i \in 1 .. n |-> i])

ClosedUnderGiveUp(D, N) == \A n \in 1 .. N : \A y \in D : GiveUp(y, n) \in D

GivenUpBy(f, N, r) ==
    /\ f[0] = r
    /\ \A n \in 1 .. N : f[n] = GiveUp(f[n - 1], n)
    /\ f[N] = AllGivenUp(r, N)

LEMMA GiveUpTrace ==
  ASSUME NEW N \in Nat, NEW D, NEW r \in D, ClosedUnderGiveUp(D, N)
  PROVE  \E f \in [0 .. N -> D] : GivenUpBy(f, N, r)
<1>k. \A n \in 1 .. N : \A y \in D : GiveUp(y, n) \in D
  BY DEF ClosedUnderGiveUp
<1> DEFINE s == [i \in 1 .. N |-> i]
           G == [n \in 1 .. N |-> [y \in D |-> GiveUp(y, s[n])]]
           base == r
           Eq(h) == h = [t \in SUBSET (DOMAIN s) |->
                           IF t = {} THEN base ELSE GiveUp(h[t \ {Max(t)}], s[Max(t)])]
           h == CHOOSE g : Eq(g)
<1>1. G \in [1 .. N -> [D -> D]] /\ base \in D
  BY <1>k
<1>2. AllGivenUp(r, N) = h[DOMAIN s]
  BY DEF FoldLeft, MapThenFoldSet, AllGivenUp
<1>3. Eq(h)
  <2>1. PICK g : IsSolution(N, D, base, G, g)
    <3> HIDE DEF G, Eq, h, base
    <3> QED BY <1>1, FoldSolution
  <2>2. ASSUME NEW t \in SUBSET (1 .. N), t # {}
        PROVE  g[t] = GiveUp(g[t \ {Max(t)}], s[Max(t)])
    <3> HIDE DEF h, Eq
    <3> QED BY <2>1, <2>2 DEF IsSolution
  <2>3. Eq(g)
    <3> HIDE DEF G, h, base
    <3> QED BY <2>1, <2>2 DEF IsSolution
  <2> HIDE DEF Eq
  <2> QED BY <2>3
<1>4. h[{}] = base
  <2> HIDE DEF G, h, base
  <2> QED BY <1>3
<1>5. ASSUME NEW n \in 1 .. N PROVE h[1 .. n] = GiveUp(h[1 .. (n - 1)], s[n])
  <2>1. Max(1 .. n) = n /\ (1 .. n) \ {n} = 1 .. (n - 1) /\ n \in 1 .. n
    BY GreatestOfInterval
  <2>2. 1 .. n \in SUBSET (DOMAIN s)
    OBVIOUS
  <2> HIDE DEF G, h, base
  <2> QED BY <1>3, <2>1, <2>2
<1>6. ASSUME NEW n \in 1 .. N, h[1 .. (n - 1)] \in D
      PROVE  h[1 .. n] = G[n][h[1 .. (n - 1)]]
  <2> HIDE DEF h, Eq
  <2> QED BY <1>5, <1>6
<1>7. \E f \in [0 .. N -> D] : IsTrace(N, base, G, f, h[1 .. N])
  <2> HIDE DEF G, h, Eq, base
  <2> QED BY <1>1, <1>4, <1>6, FoldTrace
<1>8. PICK f \in [0 .. N -> D] :
        f[0] = base /\ f[N] = h[1 .. N] /\ \A n \in 1 .. N : f[n] = G[n][f[n - 1]]
  <2> HIDE DEF G, h, Eq, base
  <2> QED BY <1>7 DEF IsTrace
<1>9. ASSUME NEW n \in 1 .. N PROVE f[n] = GiveUp(f[n - 1], s[n])
  <2>1. f[n - 1] \in D
    OBVIOUS
  <2> HIDE DEF h, Eq
  <2> QED BY <1>8, <2>1
<1> HIDE DEF h, G
<1> QED BY <1>2, <1>8, <1>9 DEF GivenUpBy


-----------------------------------------------------------------------------
(* Sequence numbers.                                                       *)

Nums == 0 .. (SN_MOD - 1)

LEMMA Modulo ==
  ASSUME NEW M \in Nat \ {0}, NEW x \in Int
  PROVE  /\ x % M \in 0 .. (M - 1)
         /\ x \in 0 .. (M - 1) => x % M = x
         /\ x \in M .. (2 * M - 1) => x % M = x - M
         /\ x \in 2 * M .. (3 * M - 1) => x % M = x - 2 * M
         /\ x \in - M .. -1 => x % M = x + M
         /\ x \in (- 2 * M) .. (- M - 1) => x % M = x + 2 * M
<1>1. x % M \in 0 .. (M - 1)
  OBVIOUS
<1>2. x \in 0 .. (M - 1) => x % M = x
  OBVIOUS
<1>3. x \in M .. (2 * M - 1) => x % M = x - M
  OBVIOUS
<1>4. x \in 2 * M .. (3 * M - 1) => x % M = x - 2 * M
  OBVIOUS
<1>5. x \in - M .. -1 => x % M = x + M
  OBVIOUS
<1>6. x \in (- 2 * M) .. (- M - 1) => x % M = x + 2 * M
  OBVIOUS
<1> QED BY <1>1, <1>2, <1>3, <1>4, <1>5, <1>6

\* The sequence number j further on than a.
Plus(a, j) == (a + j) % SN_MOD

LEMMA PlusFacts ==
  ASSUME NEW a \in Nums, NEW j \in 0 .. SN_MOD
  PROVE  /\ Plus(a, j) \in Nums
         /\ \/ a + j < SN_MOD /\ Plus(a, j) = a + j
            \/ a + j >= SN_MOD /\ Plus(a, j) = a + j - SN_MOD
<1>1. a + j \in Int /\ SN_MOD \in Nat \ {0} /\ a + j >= 0 /\ a + j < 2 * SN_MOD
  BY DEF Nums
<1>2. a + j \in 0 .. (SN_MOD - 1) \/ a + j \in SN_MOD .. (2 * SN_MOD - 1)
  BY <1>1
<1> DEFINE x == a + j
<1>3. x \in Int /\ (x \in 0 .. (SN_MOD - 1) \/ x \in SN_MOD .. (2 * SN_MOD - 1))
  BY <1>1, <1>2
<1> HIDE DEF x
<1>4. /\ x % SN_MOD \in 0 .. (SN_MOD - 1)
      /\ x \in 0 .. (SN_MOD - 1) => x % SN_MOD = x
      /\ x \in SN_MOD .. (2 * SN_MOD - 1) => x % SN_MOD = x - SN_MOD
  BY <1>1, <1>3, Modulo, ZenonT(60)
<1>5. /\ x % SN_MOD \in Nums
      /\ \/ x < SN_MOD /\ x % SN_MOD = x
         \/ x >= SN_MOD /\ x % SN_MOD = x - SN_MOD
  BY <1>3, <1>4 DEF Nums
<1>6. Plus(a, j) = x % SN_MOD /\ x = a + j /\ a \in Int /\ x \in Int
  BY <1>3 DEF Plus, x, Nums
<1> QED BY <1>5, <1>6

LEMMA PlusZero ==
  ASSUME NEW a \in Nums
  PROVE  Plus(a, 0) = a /\ Plus(a, SN_MOD) = a
<1>1. 0 \in 0 .. SN_MOD /\ SN_MOD \in 0 .. SN_MOD /\ a \in 0 .. (SN_MOD - 1)
  BY DEF Nums
<1> QED BY <1>1, PlusFacts

LEMMA PlusOnce ==
  ASSUME NEW a \in Nums, NEW i \in Nums, NEW j \in Nums, Plus(a, i) = Plus(a, j)
  PROVE  i = j
<1>1. i \in 0 .. SN_MOD /\ j \in 0 .. SN_MOD /\ i < SN_MOD /\ j < SN_MOD /\ a \in 0 .. (SN_MOD - 1)
  BY DEF Nums
<1> QED BY <1>1, PlusFacts

LEMMA PlusAny ==
  ASSUME NEW a \in Nums, NEW x \in Nums
  PROVE  \E j \in Nums : x = Plus(a, j)
<1> DEFINE j == IF x >= a THEN x - a ELSE x - a + SN_MOD
<1>1. j \in Nums /\ j \in 0 .. SN_MOD
  BY DEF Nums
<1>2. /\ a + j < SN_MOD => a + j = x
      /\ a + j >= SN_MOD => a + j - SN_MOD = x
  BY DEF Nums
<1> HIDE DEF j
<1> QED BY <1>1, <1>2, PlusFacts

LEMMA PlusPlus ==
  ASSUME NEW a \in Nums, NEW i \in 0 .. SN_MOD, NEW j \in 0 .. SN_MOD, i + j <= SN_MOD
  PROVE  Plus(Plus(a, i), j) = Plus(a, i + j)
<1>1. Plus(a, i) \in Nums /\ i + j \in 0 .. SN_MOD
  BY PlusFacts
<1> DEFINE b == Plus(a, i)
           c == Plus(b, j)
           d == Plus(a, i + j)
<1>2. /\ \/ a + i < SN_MOD /\ b = a + i
         \/ a + i >= SN_MOD /\ b = a + i - SN_MOD
      /\ b \in Nums
  BY PlusFacts
<1>3. c \in Nums /\ (c = b + j \/ c = b + j - SN_MOD)
  <2> HIDE DEF b
  <2> QED BY <1>2, PlusFacts
<1>4. d \in Nums /\ (d = a + (i + j) \/ d = a + (i + j) - SN_MOD)
  <2> DEFINE k == i + j
  <2>1. k \in 0 .. SN_MOD
    BY <1>1
  <2> HIDE DEF k
  <2>2. Plus(a, k) \in Nums /\ (Plus(a, k) = a + k \/ Plus(a, k) = a + k - SN_MOD)
    BY <2>1, PlusFacts
  <2> QED BY <2>2 DEF k
<1> HIDE DEF b, c, d
<1>5. c = d
  <2>1. a \in Int /\ c \in 0 .. (SN_MOD - 1) /\ d \in 0 .. (SN_MOD - 1)
    BY <1>3, <1>4 DEF Nums
  <2> QED BY <1>2, <1>3, <1>4, <2>1
<1> QED BY <1>5 DEF b, c, d

\* RX_MOD_BASE by the distances from vr_ur.
Base(k, j) == IF j < k - WINDOW THEN j - k + 3 * WINDOW
              ELSE IF j < k + WINDOW THEN j - k + WINDOW
              ELSE j - k - WINDOW

LEMMA BaseOfPlus ==
  ASSUME NEW r, r.vr_ur \in Nums, NEW k \in 0 .. SN_MOD, r.vr_uh = Plus(r.vr_ur, k),
         NEW j \in 0 .. SN_MOD
  PROVE  RX_MOD_BASE(r, Plus(r.vr_ur, j)) = Base(k, j)
<1> DEFINE a == r.vr_ur
           h == Plus(a, k)
           s == Plus(a, j)
           x == s - h - WINDOW
<1>1. h \in Nums /\ (h = a + k \/ h = a + k - SN_MOD)
  BY PlusFacts
<1>2. s \in Nums /\ (s = a + j \/ s = a + j - SN_MOD)
  BY PlusFacts
<1>3. RX_MOD_BASE(r, s) = x % SN_MOD
  BY DEF RX_MOD_BASE
<1> HIDE DEF a, h, s
<1>4. /\ \/ x = j - k - WINDOW
         \/ x = j - k - WINDOW - SN_MOD
         \/ x = j - k - WINDOW + SN_MOD
      /\ x \in Int /\ x >= - 2 * SN_MOD /\ x < SN_MOD
  <2>1. h \in 0 .. (SN_MOD - 1) /\ s \in 0 .. (SN_MOD - 1) /\ a \in Int
    BY <1>1, <1>2 DEF Nums, a
  <2> QED BY <1>1, <1>2, <2>1
<1> HIDE DEF x
<1>5. /\ x \in 0 .. (SN_MOD - 1) => x % SN_MOD = x
      /\ x \in - SN_MOD .. -1 => x % SN_MOD = x + SN_MOD
      /\ x \in (- 2 * SN_MOD) .. (- SN_MOD - 1) => x % SN_MOD = x + 2 * SN_MOD
      /\ x % SN_MOD \in 0 .. (SN_MOD - 1)
  <2>1. x \in Int /\ SN_MOD \in Nat \ {0}
    BY <1>4
  <2> QED BY ONLY <2>1, Modulo
<1>6. \/ x % SN_MOD = x \/ x % SN_MOD = x + SN_MOD \/ x % SN_MOD = x + 2 * SN_MOD
  BY <1>4, <1>5
<1>7. x % SN_MOD = Base(k, j)
  BY <1>4, <1>5, <1>6 DEF Base
<1> QED BY <1>3, <1>7 DEF s, a

LEMMA BasesOfEdges ==
  ASSUME NEW r, r.vr_uh \in Nums
  PROVE  RX_MOD_BASE(r, r.vr_uh) = WINDOW /\ RX_MOD_BASE(r, r.vr_uh - WINDOW) = 0
<1>1. /\ r.vr_uh - r.vr_uh - WINDOW = - WINDOW
      /\ (r.vr_uh - WINDOW) - r.vr_uh - WINDOW = - SN_MOD
  BY DEF Nums
<1>2. (- WINDOW) % SN_MOD = WINDOW /\ (- SN_MOD) % SN_MOD = 0
  <2>1. - WINDOW \in Int /\ - SN_MOD \in Int /\ - WINDOW \in - SN_MOD .. -1
        /\ - SN_MOD \in - SN_MOD .. -1 /\ SN_MOD \in Nat \ {0}
    OBVIOUS
  <2>2. (- WINDOW) % SN_MOD = - WINDOW + SN_MOD
    BY <2>1, Modulo
  <2>3. (- SN_MOD) % SN_MOD = - SN_MOD + SN_MOD
    BY <2>1, Modulo
  <2> QED BY <2>2, <2>3
<1> QED BY <1>1, <1>2 DEF RX_MOD_BASE

\* vr_ur is inside the reordering window unless it is behind it.
LEMMA InsideFrom ==
  ASSUME NEW r, r.vr_ur \in Nums, NEW k \in 0 .. SN_MOD, r.vr_uh = Plus(r.vr_ur, k),
         NEW j \in 0 .. k
  PROVE  inside_reordering_window(r, Plus(r.vr_ur, j)) <=> k - WINDOW <= j /\ j < k
<1>1. r.vr_uh \in Nums /\ j \in 0 .. SN_MOD
  BY PlusFacts
<1>2. RX_MOD_BASE(r, r.vr_uh) = WINDOW /\ RX_MOD_BASE(r, r.vr_uh - WINDOW) = 0
  BY <1>1, BasesOfEdges
<1>3. RX_MOD_BASE(r, Plus(r.vr_ur, j)) = Base(k, j)
  BY <1>1, BaseOfPlus
<1> QED BY <1>2, <1>3 DEF inside_reordering_window, Base

-----------------------------------------------------------------------------
(* The reassembly.  B are the bytes there are.                             *)

PdusOf(B) ==
    [sn : Nums, start : BOOLEAN, end : BOOLEAN, segs : Seq(Seq(B)) \ {<<>>}]

RxStates(B) ==
    [vr_ur : Nums, vr_ux : Nums, vr_uh : Nums, vr_ur_in_rx_sdu : Nums,
     pdu_lost : BOOLEAN, rx_sdu : Seq(B), window : SUBSET PdusOf(B),
     running : BOOLEAN, out : Seq(Seq(B))]

\* Those that differ from r in what is reassembled only.
SameWindow(B, r) ==
    {x \in RxStates(B) :
       /\ x.vr_ur = r.vr_ur /\ x.vr_ux = r.vr_ux /\ x.vr_uh = r.vr_uh
       /\ x.window = r.window /\ x.running = r.running}

LEMMA FlushKeeps ==
  ASSUME NEW B, NEW r, NEW x \in SameWindow(B, r), NEW dropped \in BOOLEAN
  PROVE  Flush(x, dropped) \in SameWindow(B, r)
<1>1. x \in RxStates(B)
  BY DEF SameWindow
<1> DEFINE o == IF dropped THEN x.out ELSE Append(x.out, x.rx_sdu)
           f == Flush(x, dropped)
<1>2. o \in Seq(Seq(B)) /\ <<>> \in Seq(B)
  <2> DEFINE U == Seq(B)
             a == x.out
             b == x.rx_sdu
  <2>1. a \in Seq(U) /\ b \in U
    BY <1>1 DEF RxStates
  <2> HIDE DEF U, a, b
  <2>2. Append(a, b) \in Seq(U)
    BY <2>1
  <2>3. <<>> \in Seq(B)
    OBVIOUS
  <2> QED BY <2>1, <2>2, <2>3 DEF U, a, b
<1>3. f = [x EXCEPT !.out = o, !.rx_sdu = <<>>, !.pdu_lost = FALSE]
  BY DEF Flush
<1> HIDE DEF f, o
<1>4. f \in RxStates(B)
  BY <1>1, <1>2, <1>3 DEF RxStates
<1>5. /\ f.vr_ur = x.vr_ur /\ f.vr_ux = x.vr_ux /\ f.vr_uh = x.vr_uh
      /\ f.window = x.window /\ f.running = x.running
  BY <1>1, <1>3 DEF RxStates
<1> QED BY <1>4, <1>5 DEF SameWindow, f

LEMMA MiddleKeeps ==
  ASSUME NEW B, NEW r, NEW x \in SameWindow(B, r), NEW p \in PdusOf(B), NEW seg \in Seq(B)
  PROVE  Middle(p, x, seg) \in SameWindow(B, r)
<1> DEFINE s == x.rx_sdu \o seg
           y == [x EXCEPT !.rx_sdu = s]
           d == Orphan(x, p) \/ ~continues(x)
<1>1. x \in RxStates(B)
  BY DEF SameWindow
<1>2. s \in Seq(B)
  <2> DEFINE a == x.rx_sdu
  <2>1. a \in Seq(B)
    BY <1>1 DEF RxStates
  <2> HIDE DEF a
  <2>2. a \o seg \in Seq(B)
    BY <2>1
  <2> QED BY <2>2 DEF a
<1>3. Middle(p, x, seg) = Flush(y, d) /\ d \in BOOLEAN
  BY DEF Middle
<1> HIDE DEF s, d
<1>4. y \in SameWindow(B, r)
  BY <1>1, <1>2 DEF SameWindow, RxStates
<1> HIDE DEF y
<1> QED BY <1>3, <1>4, FlushKeeps

LEMMA LastKeeps ==
  ASSUME NEW B, NEW r, NEW x \in SameWindow(B, r), NEW p \in PdusOf(B)
  PROVE  LastSegment(p, x) \in SameWindow(B, r)
<1> DEFINE s == x.rx_sdu \o Last(p.segs)
           y == [x EXCEPT !.rx_sdu = s, !.vr_ur_in_rx_sdu = x.vr_ur]
           d == Orphan(x, p)
<1>1. x \in RxStates(B) /\ p.segs \in Seq(Seq(B)) /\ p.segs # <<>>
  BY DEF SameWindow, PdusOf
<1>2. s \in Seq(B)
  <2> DEFINE a == x.rx_sdu
             U == Seq(B)
             q == p.segs
  <2>1. a \in Seq(B) /\ q \in Seq(U) /\ q # <<>>
    BY <1>1 DEF RxStates
  <2> HIDE DEF U, q, a
  <2>2. Last(q) \in U
    BY <2>1 DEF Last
  <2>3. \A b \in Seq(B) : a \o b \in Seq(B)
    BY <2>1
  <2> QED BY <2>2, <2>3 DEF U, a, q
<1>3. LastSegment(p, x) = IF p.end THEN Flush(y, d) ELSE y
  BY DEF LastSegment
<1>4. d \in BOOLEAN
  BY DEF Orphan
<1> HIDE DEF s, d
<1>5. y \in SameWindow(B, r)
  BY <1>1, <1>2 DEF SameWindow, RxStates
<1> HIDE DEF y
<1> QED BY <1>3, <1>4, <1>5, FlushKeeps

\* f are the states while a PDU is absorbed.
LEMMA AbsorbStates ==
  ASSUME NEW B, NEW r \in RxStates(B), NEW p \in PdusOf(B)
  PROVE  LET N == Len(p.segs) - 1 IN
           /\ N \in Nat /\ \A n \in 1 .. N : Front(p.segs)[n] = p.segs[n]
           /\ \E f \in [0 .. N -> SameWindow(B, r)] : AbsorbedBy(f, N, p, r)
<1> DEFINE s == Front(p.segs)
           N == Len(p.segs) - 1
           D == SameWindow(B, r)
<1>1. /\ N \in Nat /\ DOMAIN s = 1 .. N /\ \A n \in 1 .. N : s[n] \in Seq(B)
      /\ \A n \in 1 .. N : s[n] = p.segs[n]
  <2> DEFINE U == Seq(B)
             q == p.segs
  <2>1. q \in Seq(U) /\ q # <<>>
    BY DEF PdusOf
  <2> HIDE DEF U, q
  <2>2. /\ Len(q) - 1 \in Nat /\ DOMAIN Front(q) = 1 .. (Len(q) - 1)
        /\ \A n \in 1 .. (Len(q) - 1) : Front(q)[n] \in U /\ Front(q)[n] = q[n]
    BY <2>1 DEF Front
  <2> QED BY <2>2 DEF U, q
<1>2. r \in D
  BY DEF SameWindow
<1> HIDE DEF N, D
<1>3. ClosedUnderMiddle(D, N, p)
  <2> SUFFICES ASSUME NEW n \in 1 .. N, NEW y \in D
               PROVE  Middle(p, y, s[n]) \in D
    BY DEF ClosedUnderMiddle
  <2>1. s[n] \in Seq(B)
    BY <1>1
  <2> HIDE DEF s
  <2> QED BY <2>1, MiddleKeeps DEF D
<1>4. \E f \in [0 .. N -> D] : AbsorbedBy(f, N, p, r)
  <2>1. DOMAIN Front(p.segs) = 1 .. N /\ N \in Nat
    BY <1>1
  <2> HIDE DEF s
  <2> QED BY <1>2, <1>3, <2>1, AbsorbTrace
<1> QED BY <1>1, <1>4 DEF N, D

LEMMA AbsorbKeeps ==
  ASSUME NEW B, NEW r \in RxStates(B), NEW p \in PdusOf(B)
  PROVE  Absorb(p, r) \in SameWindow(B, r)
<1> DEFINE N == Len(p.segs) - 1
           D == SameWindow(B, r)
<1>1. N \in Nat /\ \E f \in [0 .. N -> D] : AbsorbedBy(f, N, p, r)
  BY AbsorbStates
<1> HIDE DEF N, D
<1>2. PICK f \in [0 .. N -> D] : AbsorbedBy(f, N, p, r)
  BY <1>1
<1>3. f[N] \in D
  BY <1>1
<1>4. Absorb(p, r) = LastSegment(p, f[N])
  BY <1>2 DEF AbsorbedBy
<1>5. LastSegment(p, f[N]) \in D
  BY <1>3, LastKeeps DEF D
<1> QED BY <1>4, <1>5 DEF D

-----------------------------------------------------------------------------
(* The loops.                                                              *)

Distinct(r) == \A p, q \in r.window : p.sn = q.sn => p = q

\* vr_uh is k ahead of vr_ur, and the PDUs are between them.
Span(r, k) ==
    /\ r.vr_uh = Plus(r.vr_ur, k)
    /\ \A p \in r.window : \E j \in 0 .. (k - 1) : p.sn = Plus(r.vr_ur, j)

Spanning(B, k) == {r \in RxStates(B) : Distinct(r) /\ Span(r, k)}

\* x is r after n turns.
Moved(r, x, n) ==
    /\ x.vr_ur = Plus(r.vr_ur, n)
    /\ x.vr_uh = r.vr_uh /\ x.vr_ux = r.vr_ux /\ x.running = r.running
    /\ x.window \subseteq r.window

\* The PDU a turn uses up.
Used(r) == IF InWindow(r, r.vr_ur) THEN {PduOf(r, r.vr_ur)} ELSE {}

LEMMA PassShape ==
  ASSUME NEW B, NEW r \in RxStates(B), NEW unused
  PROVE  LET x == PassSn(r, unused) IN
           /\ x \in RxStates(B) /\ x.vr_ur = Plus(r.vr_ur, 1) /\ x.vr_ux = r.vr_ux
           /\ x.vr_uh = r.vr_uh /\ x.running = r.running /\ x.window = r.window \ Used(r)
<1>1. r \in RxStates(B)
  OBVIOUS
<1> DEFINE a == r.vr_ur
           p == PduOf(r, a)
           there == InWindow(r, a)
           r1 == IF there THEN [Absorb(p, r) EXCEPT !.window = @ \ {p}]
                 ELSE [r EXCEPT !.rx_sdu = <<>>]
           x == PassSn(r, unused)
           gone == IF there THEN {p} ELSE {}
<1>2. a \in Nums /\ r.window \in SUBSET PdusOf(B)
  BY <1>1 DEF RxStates
<1>3. there => p \in r.window /\ p.sn = a
  BY DEF InWindow, PduOf
<1>4. x = [r1 EXCEPT !.vr_ur = (@ + 1) % SN_MOD]
  BY DEF PassSn
<1> HIDE DEF p, x
<1>5. /\ r1 \in RxStates(B) /\ r1.vr_ur = a /\ r1.vr_ux = r.vr_ux /\ r1.vr_uh = r.vr_uh
      /\ r1.running = r.running /\ r1.window = r.window \ gone
  <2>1. CASE there
    <3> DEFINE y == Absorb(p, r)
    <3>1. p \in PdusOf(B)
      BY <1>2, <1>3, <2>1
    <3>2. y \in SameWindow(B, r)
      BY <1>1, <3>1, AbsorbKeeps
    <3> HIDE DEF y
    <3>3. /\ y \in RxStates(B) /\ y.vr_ur = a /\ y.vr_ux = r.vr_ux /\ y.vr_uh = r.vr_uh
          /\ y.running = r.running /\ y.window = r.window
      BY <3>2 DEF SameWindow
    <3>4. r1 = [y EXCEPT !.window = y.window \ {p}]
      BY <2>1 DEF y
    <3> HIDE DEF r1
    <3> QED BY <2>1, <3>3, <3>4 DEF RxStates
  <2>2. CASE ~there
    <3>1. r1 = [r EXCEPT !.rx_sdu = <<>>] /\ <<>> \in Seq(B)
      BY <2>2
    <3> HIDE DEF r1
    <3> QED BY <1>1, <2>2, <3>1 DEF RxStates
  <2> QED BY <2>1, <2>2
<1> HIDE DEF r1
<1>6. Plus(a, 1) \in Nums /\ 1 \in 0 .. SN_MOD
  BY <1>2, PlusFacts
<1>7. x = [r1 EXCEPT !.vr_ur = Plus(a, 1)]
  BY <1>4, <1>5 DEF Plus, RxStates
<1>8. /\ x \in RxStates(B) /\ x.vr_ur = Plus(a, 1) /\ x.vr_ux = r.vr_ux /\ x.vr_uh = r.vr_uh
      /\ x.running = r.running /\ x.window = r.window \ gone
  BY <1>5, <1>6, <1>7 DEF RxStates
<1>9. gone = Used(r)
  BY DEF Used, p
<1> HIDE DEF gone
<1> QED BY <1>8, <1>9 DEF x

LEMMA PassOne ==
  ASSUME NEW B, NEW k \in 1 .. SN_MOD, NEW r \in Spanning(B, k), NEW unused
  PROVE  /\ PassSn(r, unused) \in Spanning(B, k - 1)
         /\ Moved(r, PassSn(r, unused), 1)
<1> DEFINE a == r.vr_ur
           x == PassSn(r, unused)
<1>1. r \in RxStates(B) /\ Distinct(r) /\ Span(r, k)
  BY DEF Spanning
<1>2. a \in Nums /\ r.window \in SUBSET PdusOf(B)
  BY <1>1 DEF RxStates
<1>6. Plus(a, 1) \in Nums /\ 1 \in 0 .. SN_MOD
  BY <1>2, PlusFacts
<1>8. /\ x \in RxStates(B) /\ x.vr_ur = Plus(a, 1) /\ x.vr_ux = r.vr_ux /\ x.vr_uh = r.vr_uh
      /\ x.running = r.running /\ x.window = r.window \ Used(r)
  BY <1>1, PassShape
<1> HIDE DEF x
<1>9. Moved(r, x, 1)
  BY <1>8 DEF Moved
<1>10. Distinct(x)
  BY <1>1, <1>8 DEF Distinct
<1>11. x.vr_uh = Plus(x.vr_ur, k - 1)
  <2> DEFINE l == k - 1
  <2>1. l \in 0 .. SN_MOD /\ 1 + l <= SN_MOD /\ 1 + l = k
    OBVIOUS
  <2> HIDE DEF l
  <2>2. Plus(Plus(a, 1), l) = Plus(a, 1 + l)
    BY <1>2, <1>6, <2>1, PlusPlus
  <2> QED BY <1>1, <1>8, <2>1, <2>2 DEF Span, l
<1>12. ASSUME NEW q \in x.window PROVE \E j \in 0 .. ((k - 1) - 1) : q.sn = Plus(x.vr_ur, j)
  <2>1. q \in r.window /\ q \notin Used(r)
    BY <1>8
  <2>2. PICK j \in 0 .. (k - 1) : q.sn = Plus(a, j)
    BY <1>1, <2>1 DEF Span
  <2>3. j # 0
    <3> SUFFICES ASSUME j = 0 PROVE FALSE
      OBVIOUS
    <3>1. q.sn = a
      BY <1>2, <2>2, PlusZero
    <3>2. InWindow(r, a)
      BY <2>1, <3>1 DEF InWindow
    <3>3. PduOf(r, a) \in r.window /\ PduOf(r, a).sn = a
      BY <3>2 DEF InWindow, PduOf
    <3>4. q = PduOf(r, a)
      BY <1>1, <2>1, <3>1, <3>3 DEF Distinct
    <3> QED BY <2>1, <3>2, <3>4 DEF Used
  <2> DEFINE i == j - 1
  <2>4. i \in 0 .. ((k - 1) - 1) /\ i \in 0 .. SN_MOD /\ 1 + i <= SN_MOD /\ 1 + i = j
    BY <2>3
  <2> HIDE DEF i
  <2>5. Plus(Plus(a, 1), i) = Plus(a, 1 + i)
    BY <1>2, <1>6, <2>4, PlusPlus
  <2> QED BY <1>8, <2>2, <2>4, <2>5
<1>13. Span(x, k - 1)
  BY <1>11, <1>12 DEF Span
<1> QED BY <1>8, <1>9, <1>10, <1>13 DEF Spanning, x

LEMMA MovedType ==
  ASSUME NEW B, NEW k \in 0 .. SN_MOD, NEW r \in Spanning(B, k)
  PROVE  /\ r \in RxStates(B) /\ r.vr_ur \in Nums /\ r.vr_uh \in Nums /\ r.vr_ux \in Nums
         /\ r.window \in SUBSET PdusOf(B) /\ r.running \in BOOLEAN
         /\ r.vr_uh = Plus(r.vr_ur, k)
         /\ \A p \in r.window : p.sn \in Nums /\ \E j \in 0 .. (k - 1) : p.sn = Plus(r.vr_ur, j)
<1>1. r \in RxStates(B) /\ Distinct(r) /\ Span(r, k)
  BY DEF Spanning
<1>2. /\ r.vr_ur \in Nums /\ r.vr_uh \in Nums /\ r.vr_ux \in Nums
      /\ r.window \in SUBSET PdusOf(B) /\ r.running \in BOOLEAN
  BY <1>1 DEF RxStates
<1>3. \A p \in r.window : p.sn \in Nums
  BY <1>2 DEF PdusOf
<1> QED BY <1>1, <1>2, <1>3 DEF Span

LEMMA PassMany ==
  ASSUME NEW B, NEW k \in 0 .. SN_MOD, NEW r \in Spanning(B, k), NEW n \in 0 .. k
  PROVE  Pass(r, n) \in Spanning(B, k - n) /\ Moved(r, Pass(r, n), n)
<1> DEFINE D == RxStates(B)
<1>1. r \in D /\ n \in Nat /\ r.vr_ur \in Nums
  BY MovedType
<1>2. ClosedUnderPassSn(D, n)
  BY PassShape DEF ClosedUnderPassSn
<1> HIDE DEF D
<1>3. PICK f \in [0 .. n -> D] : PassedBy(f, n, r)
  BY <1>1, <1>2, PassTrace
<1>4. /\ f[0] = r /\ f[n] = Pass(r, n)
      /\ \A i \in 1 .. n : f[i] = PassSn(f[i - 1], i)
  BY <1>3 DEF PassedBy
<1> DEFINE P == {i \in 0 .. n : f[i] \in Spanning(B, k - i) /\ Moved(r, f[i], i)}
<1>5. 0 \in P
  <2>1. Moved(r, r, 0)
    BY <1>1, PlusZero DEF Moved
  <2>2. k - 0 = k /\ 0 \in 0 .. n
    OBVIOUS
  <2> QED BY <1>4, <2>1, <2>2
<1>6. ASSUME NEW i \in 0 .. (n - 1), i \in P PROVE i + 1 \in P
  <2> DEFINE y == f[i]
             x == f[i + 1]
             l == k - i
  <2>1. /\ i + 1 \in 1 .. n /\ i + 1 \in 0 .. n /\ (i + 1) - 1 = i /\ l \in 1 .. SN_MOD
        /\ l - 1 = k - (i + 1) /\ i \in 0 .. SN_MOD /\ i + 1 <= SN_MOD
    OBVIOUS
  <2>2. y \in Spanning(B, l) /\ Moved(r, y, i)
    BY <1>6
  <2>3. x = PassSn(y, i + 1)
    BY <1>4, <2>1
  <2> HIDE DEF l, x, y
  <2>4. PassSn(y, i + 1) \in Spanning(B, l - 1) /\ Moved(y, PassSn(y, i + 1), 1)
    BY <2>1, <2>2, PassOne
  <2>5. Plus(Plus(r.vr_ur, i), 1) = Plus(r.vr_ur, i + 1)
    BY <1>1, <2>1, PlusPlus
  <2>6. Moved(r, x, i + 1)
    BY <2>2, <2>3, <2>4, <2>5 DEF Moved
  <2>7. x \in Spanning(B, k - (i + 1))
    BY <2>1, <2>3, <2>4
  <2> QED BY <2>1, <2>6, <2>7 DEF x
<1>7. 0 .. n \subseteq P
  <2> HIDE DEF P
  <2> QED BY <1>1, <1>5, <1>6, InductionTo
<1>8. n \in P
  <2> HIDE DEF P
  <2> QED BY <1>7
<1> QED BY <1>4, <1>8

LEMMA BehindIs ==
  ASSUME NEW B, NEW k \in 1 .. SN_MOD, NEW r \in Spanning(B, k)
  PROVE  Behind(r) = IF k > WINDOW THEN k - WINDOW ELSE 0
<1> DEFINE n == IF k > WINDOW THEN k - WINDOW ELSE 0
           Inside(j) == inside_reordering_window(r, (r.vr_ur + j) % SN_MOD)
           Is(j) == Inside(j) /\ \A i \in 0 .. (j - 1) : ~Inside(i)
<1>1. k \in 0 .. SN_MOD /\ r.vr_ur \in Nums /\ r.vr_uh = Plus(r.vr_ur, k)
  <2>1. k \in 0 .. SN_MOD
    OBVIOUS
  <2> QED BY <2>1, MovedType
<1>2. ASSUME NEW j \in 0 .. k PROVE Inside(j) <=> k - WINDOW <= j /\ j < k
  BY <1>1, InsideFrom DEF Plus
<1> HIDE DEF Inside
<1>3. n \in 0 .. SN_MOD /\ n \in 0 .. k /\ k - WINDOW <= n /\ n < k
      /\ \A i \in 0 .. (n - 1) : i \in 0 .. k /\ ~(k - WINDOW <= i)
  OBVIOUS
<1>4. Is(n)
  <2> HIDE DEF n
  <2> QED BY <1>2, <1>3
<1>5. ASSUME NEW m \in 0 .. SN_MOD, Is(m) PROVE m = n
  <2>1. CASE m < n
    <3>1. m \in 0 .. (n - 1)
      BY <1>3, <2>1
    <3> HIDE DEF n
    <3> QED BY <1>4, <1>5, <3>1
  <2>2. CASE m > n
    <3>1. n \in 0 .. (m - 1)
      BY <1>3, <2>2
    <3> HIDE DEF n
    <3> QED BY <1>4, <1>5, <3>1
  <2>3. n \in Int
    BY <1>3
  <2> HIDE DEF n, Is
  <2> QED BY <2>1, <2>2, <2>3
<1>6. Behind(r) = CHOOSE m \in 0 .. SN_MOD : Is(m)
  BY DEF Behind, Inside
<1> HIDE DEF Is, n
<1>7. Behind(r) = n
  BY <1>3, <1>4, <1>5, <1>6
<1> QED BY <1>7 DEF n

LEMMA InSequenceIs ==
  ASSUME NEW B, NEW k \in 0 .. WINDOW, NEW r \in Spanning(B, k)
  PROVE  /\ InSequence(r) \in 0 .. k
         /\ ~InWindow(r, Plus(r.vr_ur, InSequence(r)))
<1> DEFINE There(j) == InWindow(r, (r.vr_ur + j) % SN_MOD)
           Is(j) == ~There(j) /\ \A i \in 0 .. (j - 1) : There(i)
<1>1. /\ k \in 0 .. SN_MOD /\ k \in Nums /\ k \in Nat /\ r.vr_ur \in Nums
      /\ \A p \in r.window : \E j \in 0 .. (k - 1) : p.sn = Plus(r.vr_ur, j)
  <2>1. k \in 0 .. SN_MOD /\ k \in Nums
    BY DEF Nums
  <2> QED BY <2>1, MovedType
<1>2. ~There(k)
  <2> SUFFICES ASSUME NEW p \in r.window, p.sn = Plus(r.vr_ur, k) PROVE FALSE
    BY DEF InWindow, Plus
  <2>1. PICK j \in 0 .. (k - 1) : p.sn = Plus(r.vr_ur, j)
    BY <1>1
  <2>2. j \in Nums /\ j # k
    BY DEF Nums
  <2> QED BY <1>1, <2>1, <2>2, PlusOnce
<1> HIDE DEF There
<1>3. \E n \in 0 .. k : Is(n)
  <2> SUFFICES ASSUME \A n \in 0 .. k : ~Is(n) PROVE FALSE
    OBVIOUS
  <2> DEFINE P == {n \in 0 .. k : \A i \in 0 .. (n - 1) : There(i)}
  <2>1. 0 \in P
    BY <1>1
  <2>2. ASSUME NEW n \in 0 .. (k - 1), n \in P PROVE n + 1 \in P
    <3>1. n \in 0 .. k /\ n + 1 \in 0 .. k
      BY <1>1
    <3>2. There(n)
      BY <2>2, <3>1
    <3>3. \A i \in 0 .. ((n + 1) - 1) : i \in 0 .. (n - 1) \/ i = n
      BY <3>1
    <3> QED BY <2>2, <3>1, <3>2, <3>3
  <2>3. 0 .. k \subseteq P
    <3> HIDE DEF P
    <3> QED BY <1>1, <2>1, <2>2, InductionTo
  <2>4. k \in P /\ k \in 0 .. k
    <3> HIDE DEF P
    <3> QED BY <1>1, <2>3
  <2> QED BY <1>2, <2>4
<1>4. InSequence(r) = CHOOSE m \in 0 .. SN_MOD : Is(m)
  BY DEF InSequence, There
<1> DEFINE n == InSequence(r)
<1>5. n \in 0 .. SN_MOD /\ Is(n)
  <2>1. \E m \in 0 .. SN_MOD : Is(m)
    BY <1>1, <1>3
  <2> HIDE DEF Is
  <2> QED BY <1>4, <2>1
<1> HIDE DEF n
<1>6. n <= k
  <2> SUFFICES ASSUME ~(n <= k) PROVE FALSE
    OBVIOUS
  <2>1. k \in 0 .. (n - 1)
    BY <1>1, <1>5
  <2> QED BY <1>2, <1>5, <2>1
<1>7. ~There(n) /\ n \in 0 .. k
  BY <1>5, <1>6
<1> QED BY <1>7 DEF There, Plus, n

-----------------------------------------------------------------------------
(* Between two operations.                                                 *)

\* vr_ur is at most WINDOW behind vr_uh, and its PDU is missing.
Resting(B, k) == {r \in Spanning(B, k) : ~InWindow(r, r.vr_ur)}

AtRest(B) == UNION {Resting(B, k) : k \in 0 .. WINDOW}

LEMMA Reassembled ==
  ASSUME NEW B, NEW k \in 1 .. SN_MOD, NEW r \in Spanning(B, k)
  PROVE  /\ reassemble_rx_sdus(r) \in AtRest(B)
         /\ reassemble_rx_sdus(r).vr_uh = r.vr_uh
         /\ reassemble_rx_sdus(r).vr_ux = r.vr_ux
         /\ reassemble_rx_sdus(r).running = r.running
<1> DEFINE n == Behind(r)
           c == Pass(r, n)
           l == k - n
           m == InSequence(c)
           x == Pass(c, m)
<1>1. n \in 0 .. k /\ l \in 1 .. WINDOW /\ k \in 0 .. SN_MOD
  BY BehindIs
<1>2. c \in Spanning(B, l) /\ Moved(r, c, n)
  BY <1>1, PassMany
<1>3. reassemble_rx_sdus(r) = x
  BY DEF reassemble_rx_sdus
<1> HIDE DEF n, c, l
<1>4. l \in 0 .. WINDOW /\ l \in 0 .. SN_MOD
  BY <1>1
<1>5. m \in 0 .. l /\ ~InWindow(c, Plus(c.vr_ur, m))
  BY <1>2, <1>4, InSequenceIs
<1> HIDE DEF m
<1>6. x \in Spanning(B, l - m) /\ Moved(c, x, m)
  BY <1>2, <1>4, <1>5, PassMany
<1> HIDE DEF x
<1>7. l - m \in 0 .. WINDOW
  BY <1>4, <1>5
<1>8. ~InWindow(x, x.vr_ur)
  BY <1>5, <1>6 DEF Moved, InWindow
<1>9. x \in AtRest(B)
  <2>1. x \in Resting(B, l - m)
    BY <1>6, <1>8 DEF Resting
  <2> QED BY <1>7, <2>1 DEF AtRest
<1> QED BY <1>2, <1>3, <1>6, <1>9 DEF Moved

LEMMA RestType ==
  ASSUME NEW B, NEW r \in AtRest(B)
  PROVE  \E k \in 0 .. WINDOW :
           /\ r \in Spanning(B, k) /\ k \in 0 .. SN_MOD
           /\ r.vr_ur \in Nums /\ r.vr_uh = Plus(r.vr_ur, k) /\ r.vr_uh \in Nums
           /\ k = 0 => r.window = {}
           /\ RX_MOD_BASE(r, r.vr_ur) = WINDOW - k
           /\ ~InWindow(r, r.vr_ur)
<1>1. PICK k \in 0 .. WINDOW : r \in Spanning(B, k) /\ ~InWindow(r, r.vr_ur)
  BY DEF AtRest, Resting
<1>2. k \in 0 .. SN_MOD /\ 0 \in 0 .. SN_MOD
  OBVIOUS
<1>3. /\ r.vr_ur \in Nums /\ r.vr_uh = Plus(r.vr_ur, k) /\ r.vr_uh \in Nums
      /\ \A p \in r.window : \E j \in 0 .. (k - 1) : p.sn = Plus(r.vr_ur, j)
  BY <1>1, <1>2, MovedType
<1>4. k = 0 => r.window = {}
  BY <1>3
<1>5. RX_MOD_BASE(r, r.vr_ur) = Base(k, 0) /\ Base(k, 0) = WINDOW - k
  <2>1. RX_MOD_BASE(r, Plus(r.vr_ur, 0)) = Base(k, 0)
    BY <1>2, <1>3, BaseOfPlus
  <2>2. Base(k, 0) = WINDOW - k
    BY DEF Base
  <2> QED BY <1>3, <2>1, <2>2, PlusZero
<1> QED BY <1>1, <1>2, <1>3, <1>4, <1>5

\* The timer runs, or is started, unless everything has been passed on.
LEMMA Armed ==
  ASSUME NEW B, NEW r \in AtRest(B)
  PROVE  /\ arm(r) \in AtRest(B)
         /\ arm(r).window # {} => arm(r).running
<1>1. PICK k \in 0 .. WINDOW :
        /\ r \in Spanning(B, k) /\ k \in 0 .. SN_MOD
        /\ r.vr_ur \in Nums /\ r.vr_uh = Plus(r.vr_ur, k) /\ r.vr_uh \in Nums
        /\ k = 0 => r.window = {}
        /\ RX_MOD_BASE(r, r.vr_ur) = WINDOW - k
        /\ ~InWindow(r, r.vr_ur)
  BY RestType
<1>2. RX_MOD_BASE(r, r.vr_uh) = WINDOW
  BY <1>1, BasesOfEdges
<1>3. CASE k = 0
  <2>1. arm(r) = r
    BY <1>1, <1>2, <1>3 DEF arm
  <2> QED BY <1>1, <1>3, <2>1
<1>4. CASE k > 0
  <2> DEFINE x == arm(r)
  <2>1. x = [r EXCEPT !.running = TRUE, !.vr_ux = r.vr_uh]
    BY <1>1, <1>2, <1>4 DEF arm
  <2> HIDE DEF x
  <2>2. r \in RxStates(B) /\ Distinct(r) /\ Span(r, k)
    BY <1>1 DEF Spanning
  <2>3. /\ x \in RxStates(B) /\ x.vr_ur = r.vr_ur /\ x.vr_uh = r.vr_uh /\ x.window = r.window
        /\ x.running
    BY <1>1, <2>1, <2>2 DEF RxStates
  <2>4. Distinct(x) /\ Span(x, k) /\ ~InWindow(x, x.vr_ur)
    BY <1>1, <2>2, <2>3 DEF Distinct, Span, InWindow
  <2> QED BY <2>3, <2>4 DEF AtRest, Resting, Spanning, x
<1> QED BY <1>3, <1>4

\* The fields that no window depends on.
LEMMA Restarted ==
  ASSUME NEW B, NEW r \in AtRest(B), NEW x \in RxStates(B),
         x.vr_ur = r.vr_ur, x.vr_uh = r.vr_uh, x.window = r.window
  PROVE  x \in AtRest(B)
<1>1. PICK k \in 0 .. WINDOW : r \in Spanning(B, k) /\ ~InWindow(r, r.vr_ur)
  BY DEF AtRest, Resting
<1>2. Distinct(r) /\ Span(r, k)
  BY <1>1 DEF Spanning
<1>3. Distinct(x) /\ Span(x, k) /\ ~InWindow(x, x.vr_ur)
  BY <1>1, <1>2 DEF Distinct, Span, InWindow
<1> QED BY <1>3 DEF AtRest, Resting, Spanning

-----------------------------------------------------------------------------
(* The operations.                                                         *)

LEMMA HandleStep ==
  ASSUME NEW B, NEW r \in AtRest(B), NEW p \in PdusOf(B)
  PROVE  LET x == handle_data_pdu(r, p) IN
           /\ x \in AtRest(B)
           /\ x = r \/ (x.window # {} => x.running)
<1> DEFINE stored == [r EXCEPT !.window = @ \cup {p}]
           raised == IF inside_reordering_window(stored, p.sn) THEN stored
                     ELSE [stored EXCEPT !.vr_uh = (p.sn + 1) % SN_MOD]
           put == reassemble_rx_sdus(raised)
           timed == IF put.running /\ TimerDone(put)
                    THEN [put EXCEPT !.running = FALSE] ELSE put
           last == IF timed.running THEN timed ELSE arm(timed)
<1>1. PICK k \in 0 .. WINDOW :
        /\ r \in Spanning(B, k) /\ k \in 0 .. SN_MOD
        /\ r.vr_ur \in Nums /\ r.vr_uh = Plus(r.vr_ur, k) /\ r.vr_uh \in Nums
        /\ k = 0 => r.window = {}
        /\ RX_MOD_BASE(r, r.vr_ur) = WINDOW - k
        /\ ~InWindow(r, r.vr_ur)
  BY RestType
<1>2. handle_data_pdu(r, p) = IF TooLate(r, p) \/ InWindow(r, p.sn) THEN r ELSE last
  BY DEF handle_data_pdu
<1>3. CASE TooLate(r, p) \/ InWindow(r, p.sn)
  BY <1>2, <1>3
<1>4. CASE ~TooLate(r, p) /\ ~InWindow(r, p.sn)
  <2>1. r \in RxStates(B) /\ Distinct(r) /\ Span(r, k) /\ p.sn \in Nums
    BY <1>1 DEF Spanning, PdusOf
  <2>2. PICK j \in Nums : p.sn = Plus(r.vr_ur, j)
    BY <1>1, <2>1, PlusAny
  <2>3. j \in 0 .. SN_MOD /\ j < SN_MOD
    BY DEF Nums
  <2>4. RX_MOD_BASE(r, p.sn) = Base(k, j)
    BY <1>1, <2>2, <2>3, BaseOfPlus
  <2>5. RX_MOD_BASE(r, r.vr_uh) = WINDOW /\ RX_MOD_BASE(r, r.vr_uh - WINDOW) = 0
    BY <1>1, BasesOfEdges
  <2>6. j < k + WINDOW
    BY <1>1, <1>4, <2>3, <2>4, <2>5 DEF TooLate, Base
  <2>7. /\ stored \in RxStates(B) /\ stored.vr_ur = r.vr_ur /\ stored.vr_uh = r.vr_uh
        /\ stored.window = r.window \cup {p}
    BY <2>1 DEF RxStates
  <2>8. Distinct(stored)
    BY <1>4, <2>1, <2>7 DEF Distinct, InWindow
  <2>9. inside_reordering_window(stored, p.sn) <=> j < k
    <3>1. inside_reordering_window(stored, p.sn) = inside_reordering_window(r, p.sn)
      BY <2>7 DEF inside_reordering_window, RX_MOD_BASE
    <3>2. inside_reordering_window(r, p.sn) <=> Base(k, j) >= 0 /\ Base(k, j) < WINDOW
      BY <2>4, <2>5 DEF inside_reordering_window
    <3> QED BY <2>3, <2>6, <3>1, <3>2 DEF Base
  <2> HIDE DEF stored
  <2>10. \E l \in 1 .. SN_MOD : raised \in Spanning(B, l)
    <3>1. CASE j < k
      <4>1. raised = stored
        BY <2>9, <3>1
      <4>2. j \in 0 .. (k - 1) /\ k \in 1 .. SN_MOD
        BY <2>3, <3>1
      <4>3. Span(stored, k)
        BY <2>1, <2>2, <2>7, <4>2 DEF Span
      <4> HIDE DEF raised
      <4> QED BY <2>7, <2>8, <4>1, <4>2, <4>3 DEF Spanning
    <3>2. CASE ~(j < k)
      <4> DEFINE l == j + 1
      <4>1. l \in 1 .. SN_MOD /\ l \in 0 .. SN_MOD /\ j \in 0 .. (l - 1) /\ k - 1 <= l - 1
        BY <2>3, <3>2
      <4>2. raised = [stored EXCEPT !.vr_uh = Plus(p.sn, 1)]
        BY <2>9, <3>2 DEF Plus
      <4>3. Plus(p.sn, 1) = Plus(r.vr_ur, l) /\ Plus(p.sn, 1) \in Nums
        <5>1. 1 \in 0 .. SN_MOD /\ j + 1 <= SN_MOD
          BY <2>3
        <5>2. Plus(Plus(r.vr_ur, j), 1) = Plus(r.vr_ur, j + 1)
          BY <1>1, <2>3, <5>1, PlusPlus, ZenonT(60)
        <5>3. Plus(p.sn, 1) \in Nums
          BY <2>1, <5>1, PlusFacts
        <5> QED BY <2>2, <5>2, <5>3
      <4> HIDE DEF raised, l
      <4>4. /\ raised \in RxStates(B) /\ raised.vr_ur = r.vr_ur /\ raised.vr_uh = Plus(r.vr_ur, l)
            /\ raised.window = r.window \cup {p}
        BY <2>7, <4>2, <4>3 DEF RxStates
      <4>5. Distinct(raised)
        BY <2>7, <2>8, <4>4 DEF Distinct
      <4>6. ASSUME NEW q \in raised.window PROVE \E i \in 0 .. (l - 1) : q.sn = Plus(r.vr_ur, i)
        <5>1. CASE q = p
          BY <2>2, <4>1, <5>1
        <5>2. CASE q \in r.window
          <6>1. PICK i \in 0 .. (k - 1) : q.sn = Plus(r.vr_ur, i)
            BY <2>1, <5>2 DEF Span
          <6>2. i \in 0 .. (l - 1)
            BY <4>1
          <6> QED BY <6>1, <6>2
        <5> QED BY <4>4, <5>1, <5>2
      <4>7. Span(raised, l)
        BY <4>4, <4>6 DEF Span
      <4> QED BY <4>1, <4>4, <4>5, <4>7 DEF Spanning
    <3> QED BY <3>1, <3>2
  <2> HIDE DEF raised
  <2>11. put \in AtRest(B)
    BY <2>10, Reassembled
  <2> HIDE DEF put
  <2>12. put \in RxStates(B)
    BY <2>11 DEF AtRest, Resting, Spanning
  <2>13. timed \in AtRest(B)
    <3>1. CASE timed = put
      BY <2>11, <3>1
    <3>2. CASE timed = [put EXCEPT !.running = FALSE]
      <4> HIDE DEF timed
      <4>1. timed \in RxStates(B) /\ timed.vr_ur = put.vr_ur /\ timed.vr_uh = put.vr_uh
            /\ timed.window = put.window
        BY <2>12, <3>2 DEF RxStates
      <4> QED BY <2>11, <4>1, Restarted
    <3> QED BY <3>1, <3>2
  <2> HIDE DEF timed
  <2>14. arm(timed) \in AtRest(B) /\ (arm(timed).window # {} => arm(timed).running)
    BY <2>13, Armed
  <2>15. last \in AtRest(B) /\ (last.window # {} => last.running)
    BY <2>13, <2>14
  <2> HIDE DEF last
  <2> QED BY <1>2, <1>4, <2>15
<1> QED BY <1>3, <1>4

LEMMA GiveUpStep ==
  ASSUME NEW B, NEW r \in AtRest(B), NEW unused
  PROVE  GiveUp(r, unused) \in AtRest(B)
<1> DEFINE x == [r EXCEPT !.vr_ur = (@ + 1) % SN_MOD]
<1>1. PICK k \in 0 .. WINDOW :
        /\ r \in Spanning(B, k) /\ k \in 0 .. SN_MOD
        /\ r.vr_ur \in Nums /\ r.vr_uh = Plus(r.vr_ur, k) /\ r.vr_uh \in Nums
        /\ k = 0 => r.window = {}
        /\ RX_MOD_BASE(r, r.vr_ur) = WINDOW - k
        /\ ~InWindow(r, r.vr_ur)
  BY RestType
<1>2. GiveUp(r, unused) = r \/ GiveUp(r, unused) = reassemble_rx_sdus(x)
  BY DEF GiveUp
<1> DEFINE a == r.vr_ur
           b == Plus(a, 1)
           l == IF k >= 2 THEN k - 1 ELSE IF k = 1 THEN SN_MOD ELSE SN_MOD - 1
<1>3. r \in RxStates(B) /\ Distinct(r) /\ Span(r, k)
  BY <1>1 DEF Spanning
<1>4. 1 \in 0 .. SN_MOD /\ b \in Nums
  BY <1>1, PlusFacts
<1>5. /\ x \in RxStates(B) /\ x.vr_ur = b /\ x.vr_uh = r.vr_uh /\ x.window = r.window
  <2>1. x = [r EXCEPT !.vr_ur = b]
    BY DEF Plus
  <2> HIDE DEF x, b
  <2> QED BY <1>3, <1>4, <2>1 DEF RxStates
<1> HIDE DEF x
<1>6. l \in 1 .. SN_MOD
  OBVIOUS
<1>7. ASSUME NEW q \in r.window
      PROVE  \E i \in 0 .. (k - 2) : q.sn = Plus(b, i)
  <2>1. PICK j \in 0 .. (k - 1) : q.sn = Plus(a, j)
    BY <1>3 DEF Span
  <2>2. j # 0
    <3>1. j = 0 => q.sn = a
      BY <1>1, <2>1, PlusZero
    <3> QED BY <1>1, <3>1 DEF InWindow
  <2> DEFINE i == j - 1
  <2>3. i \in 0 .. (k - 2) /\ i \in 0 .. SN_MOD /\ 1 + i <= SN_MOD /\ 1 + i = j
    BY <2>2
  <2> HIDE DEF i, b
  <2>4. Plus(Plus(a, 1), i) = Plus(a, 1 + i)
    BY <1>1, <1>4, <2>3, PlusPlus
  <2> QED BY <2>1, <2>3, <2>4 DEF b
<1>8. r.vr_uh = Plus(b, l)
  <2>1. CASE k >= 1 /\ l = k - 1
    <3>1. l \in 0 .. SN_MOD /\ 1 + l <= SN_MOD /\ 1 + l = k
      BY <2>1
    <3> HIDE DEF l, b
    <3>2. Plus(Plus(a, 1), l) = Plus(a, 1 + l)
      BY <1>1, <1>4, <3>1, PlusPlus
    <3> QED BY <1>1, <3>1, <3>2 DEF b
  <2>2. CASE k = 1 /\ l = SN_MOD
    <3> HIDE DEF b, l
    <3>1. Plus(b, SN_MOD) = b
      BY <1>4, PlusZero
    <3> QED BY <1>1, <2>2, <3>1 DEF b
  <2>3. CASE k = 0 /\ l = SN_MOD - 1
    <3>1. l \in 0 .. SN_MOD /\ 1 + l <= SN_MOD /\ 1 + l = SN_MOD
      BY <2>3
    <3> HIDE DEF l, b
    <3>2. Plus(Plus(a, 1), l) = Plus(a, 1 + l)
      BY <1>1, <1>4, <3>1, PlusPlus
    <3>3. Plus(a, SN_MOD) = a /\ Plus(a, 0) = a
      BY <1>1, PlusZero
    <3> QED BY <1>1, <2>3, <3>1, <3>2, <3>3 DEF b
  <2> QED BY <1>1, <2>1, <2>2, <2>3
<1>9. ASSUME NEW q \in x.window PROVE \E i \in 0 .. (l - 1) : q.sn = Plus(x.vr_ur, i)
  <2>1. PICK i \in 0 .. (k - 2) : q.sn = Plus(b, i)
    BY <1>5, <1>7
  <2>2. i \in 0 .. (l - 1)
    BY <1>1
  <2> HIDE DEF l, b
  <2> QED BY <1>5, <2>1, <2>2
<1> HIDE DEF l, b
<1>10. Span(x, l)
  BY <1>5, <1>8, <1>9 DEF Span
<1>11. x \in Spanning(B, l)
  BY <1>3, <1>5, <1>10 DEF Spanning, Distinct
<1>12. reassemble_rx_sdus(x) \in AtRest(B)
  BY <1>6, <1>11, Reassembled
<1> QED BY <1>2, <1>12

LEMMA ExpireStep ==
  ASSUME NEW B, NEW r \in AtRest(B)
  PROVE  LET x == timer_expired(r) IN
           x \in AtRest(B) /\ (x.window # {} => x.running)
<1> DEFINE lost == [r EXCEPT !.pdu_lost = TRUE, !.rx_sdu = <<>>]
           given_up == AllGivenUp(lost, SN_MOD)
           stopped == [given_up EXCEPT !.running = FALSE]
           D == AtRest(B)
<1>1. timer_expired(r) = arm(stopped)
  BY DEF timer_expired, timer_loop, AllGivenUp
<1>2. r \in RxStates(B)
  BY DEF AtRest, Resting, Spanning
<1>3. /\ lost \in RxStates(B) /\ lost.vr_ur = r.vr_ur /\ lost.vr_uh = r.vr_uh
      /\ lost.window = r.window
  <2>1. <<>> \in Seq(B)
    OBVIOUS
  <2> QED BY <1>2, <2>1 DEF RxStates
<1> HIDE DEF lost
<1>4. lost \in D
  BY <1>3, Restarted
<1>5. given_up \in D
  <2>1. ClosedUnderGiveUp(D, SN_MOD)
    BY GiveUpStep DEF ClosedUnderGiveUp
  <2>2. SN_MOD \in Nat
    OBVIOUS
  <2> HIDE DEF D
  <2>3. PICK f \in [0 .. SN_MOD -> D] : GivenUpBy(f, SN_MOD, lost)
    BY <1>4, <2>1, <2>2, GiveUpTrace
  <2> QED BY <2>2, <2>3 DEF GivenUpBy
<1> HIDE DEF given_up
<1>6. given_up \in RxStates(B)
  BY <1>5 DEF AtRest, Resting, Spanning
<1>7. /\ stopped \in RxStates(B) /\ stopped.vr_ur = given_up.vr_ur
      /\ stopped.vr_uh = given_up.vr_uh /\ stopped.window = given_up.window
  BY <1>6 DEF RxStates
<1> HIDE DEF stopped
<1>8. stopped \in AtRest(B)
  BY <1>5, <1>7, Restarted
<1> QED BY <1>1, <1>8, Armed

-----------------------------------------------------------------------------
(***************************************************************************)
(* The whole.                                                              *)
(***************************************************************************)

USE RlcAssumption, SchPduAssumption DEF RlcAssumption, SchPduAssumption

-----------------------------------------------------------------------------
(* MAC PDUs.                                                               *)

\* Whatever the IP thread may write.
AllSdus == (Rnti \X Nat) \X SduLen

RlcPdus == {p \in Pdus(AllSdus) : Framed(AllSdus, p)}

Lengths(m) == [i \in DOMAIN m |-> pdu_len(m[i])]

\* The sub-headers fit in their number and the RLC PDUs in the space.
MacPdus ==
    {m \in Seq(RlcPdus) : Len(m) < MAX_SUBH /\ Msg(Lengths(m)).rem_len >= 0}

LEMMA SnModType == SN_MOD \in Nat \ {0} /\ WINDOW \in Nat \ {0} /\ SN_MOD = 2 * WINDOW
OBVIOUS

LEMMA AllSdusHaveBytes == Sdus(AllSdus)
BY DEF Sdus, AllSdus

LEMMA PduLength ==
  ASSUME NEW p \in RlcPdus
  PROVE  pdu_len(p) \in Nat \ {0} /\ pdu_len(p) = length_of(p.segs)
<1>1. p.segs \in Seq(Seq(AllSdus \X Nat)) /\ p.segs # <<>>
  BY DEF RlcPdus, Pdus
<1> DEFINE n == Len(p.segs) - 1
<1>2. n \in Nat
  <2> DEFINE x == p.segs
             U == Seq(AllSdus \X Nat)
  <2>1. x \in Seq(U) /\ x # <<>>
    BY <1>1
  <2> HIDE DEF x, U
  <2>2. Len(x) - 1 \in Nat
    BY <2>1
  <2> QED BY <2>2 DEF x
<1> HIDE DEF n
<1>3. packed_length(n) \in Nat \ {0, 1}
  BY <1>2, PackedLength
<1>4. Len(FlattenSeq(p.segs)) \in Nat
  BY <1>1, FlattenType
<1>5. packed_length(n) + Len(FlattenSeq(p.segs)) \in Nat \ {0}
  BY <1>3, <1>4
<1> QED BY <1>5 DEF pdu_len, length_of, n

LEMMA LengthsFacts ==
  ASSUME NEW m \in Seq(RlcPdus)
  PROVE  /\ Lengths(m) \in Lens /\ Len(Lengths(m)) = Len(m)
         /\ pdu_msg(m) = Msg(Lengths(m))
         /\ \A p \in RlcPdus : Append(m, p) \in Seq(RlcPdus)
                               /\ Lengths(Append(m, p)) = Append(Lengths(m), pdu_len(p))
<1>1. \A i \in DOMAIN m : m[i] \in RlcPdus /\ pdu_len(m[i]) \in Nat \ {0}
  BY PduLength
<1>2. DOMAIN m = 1 .. Len(m) /\ Len(m) \in Nat
  OBVIOUS
<1>3. Lengths(m) \in Lens /\ Len(Lengths(m)) = Len(m)
  BY <1>1, <1>2 DEF Lengths, Lens
<1>4. pdu_msg(m) = Msg(Lengths(m))
  <2>1. pdu_msg(m) = FoldLeft(add_sdu, init_tx, Lengths(m))
    BY DEF pdu_msg, Lengths
  <2> QED BY <1>3, <2>1, MsgOfLengths
<1>5. ASSUME NEW p \in RlcPdus
      PROVE  Append(m, p) \in Seq(RlcPdus)
             /\ Lengths(Append(m, p)) = Append(Lengths(m), pdu_len(p))
  <2> DEFINE a == Append(m, p)
             s == Lengths(m)
             n == Len(m)
             x == pdu_len(p)
             b == Append(s, x)
  <2>1. /\ a \in Seq(RlcPdus) /\ Len(a) = n + 1 /\ a[n + 1] = p
        /\ \A i \in 1 .. n : a[i] = m[i]
    OBVIOUS
  <2>2. x \in Nat \ {0} /\ s \in Lens /\ Len(s) = n /\ n \in Nat
    BY <1>2, <1>3, PduLength
  <2>3. DOMAIN a = 1 .. n + 1 /\ \A i \in 1 .. n : s[i] = pdu_len(m[i])
    <3>1. DOMAIN a = 1 .. n + 1
      <4> HIDE DEF a, n
      <4> QED BY <2>1
    <3>2. \A i \in 1 .. n : s[i] = pdu_len(m[i])
      BY <1>2 DEF Lengths
    <3> QED BY <3>1, <3>2
  <2> HIDE DEF s, n, x
  <2>4. /\ b \in Seq(Nat \ {0}) /\ Len(b) = n + 1 /\ b[n + 1] = x
        /\ \A i \in 1 .. n : b[i] = s[i]
    BY <2>2 DEF Lens
  <2> HIDE DEF a, b
  <2>5. \A i \in 1 .. n + 1 : pdu_len(a[i]) = b[i]
    <3> SUFFICES ASSUME NEW i \in 1 .. n + 1 PROVE pdu_len(a[i]) = b[i]
      OBVIOUS
    <3>1. CASE i = n + 1
      BY <2>1, <2>4, <3>1 DEF x
    <3>2. CASE i # n + 1
      <4>1. i \in 1 .. n
        BY <2>2, <3>2
      <4> QED BY <2>1, <2>3, <2>4, <4>1
    <3> QED BY <3>1, <3>2
  <2>6. Lengths(a) = b
    <3> DEFINE l == Lengths(a)
    <3>1. l = [i \in 1 .. n + 1 |-> pdu_len(a[i])]
      BY <2>3 DEF Lengths
    <3>2. \A i \in 1 .. n + 1 : pdu_len(a[i]) \in Nat \ {0}
      BY <2>4, <2>5
    <3> HIDE DEF l
    <3>3. l \in Seq(Nat \ {0}) /\ Len(l) = n + 1 /\ \A i \in 1 .. n + 1 : l[i] = b[i]
      BY <2>2, <2>5, <3>1, <3>2
    <3> QED BY <2>4, <3>3, SeqEqual DEF l
  <2> QED BY <2>1, <2>6 DEF a, b, s, x
<1> QED BY <1>3, <1>4, <1>5

LEMMA EmptyMacPdu == <<>> \in MacPdus
<1>1. <<>> \in Seq(RlcPdus) /\ Len(<<>>) = 0
  OBVIOUS
<1> DEFINE s == Lengths(<<>>)
<1>2. s \in Lens /\ Len(s) = 0
  BY <1>1, LengthsFacts
<1>3. Heads(s) \in Seq(Nat) /\ Len(Heads(s)) = 0 /\ s \in Seq(Nat)
  BY <1>2, HeadTypes
<1> HIDE DEF s
<1>4. s = <<>> /\ Heads(s) = <<>>
  BY <1>2, <1>3
<1>5. Total(s) = 0 /\ Total(Heads(s)) = 0
  BY <1>4, SumEmpty
<1>6. Msg(s).rem_len = PDU_LEN
  BY <1>5 DEF Msg
<1> QED BY <1>1, <1>6 DEF MacPdus, s

LEMMA SpaceLeft ==
  ASSUME NEW m \in MacPdus
  PROVE  /\ pdu_msg(m) = Msg(Lengths(m)) /\ Len(Msg(Lengths(m)).sdus) = Len(m)
         /\ get_sdu_space(pdu_msg(m)) \in Int
         /\ get_sdu_space(pdu_msg(m)) <= PDU_LEN - 1
<1>1. m \in Seq(RlcPdus)
  BY DEF MacPdus
<1> DEFINE s == Lengths(m)
<1>2. s \in Lens /\ Len(s) = Len(m) /\ pdu_msg(m) = Msg(s)
  BY <1>1, LengthsFacts
<1>3. Msg(s).sdus = s /\ Msg(s).rem_len = PDU_LEN - Total(s) - Total(Heads(s))
  BY DEF Msg
<1>4. Total(s) \in Nat /\ Total(Heads(s)) \in Nat
  BY <1>2, HeadTypes
<1>5. one_more(Msg(s)) \in Nat
  <2> HIDE DEF s
  <2>1. Total(FullHeads(s)) = Total(Heads(s)) + one_more(Msg(s))
    BY <1>2, <1>3, HeadsGrow
  <2>2. one_more(Msg(s)) \in {0} \cup {size_header_sdu(Last(s)) - 1}
    BY <1>3 DEF one_more
  <2>3. size_header_sdu(Last(s)) \in {2, 3}
    BY DEF size_header_sdu
  <2> QED BY <2>2, <2>3
<1>6. get_sdu_space(Msg(s)) = Msg(s).rem_len - one_more(Msg(s)) - 1
  BY DEF get_sdu_space
<1> HIDE DEF s
<1>7. get_sdu_space(Msg(s)) \in Int /\ get_sdu_space(Msg(s)) <= PDU_LEN - 1
  BY <1>3, <1>4, <1>5, <1>6
<1> QED BY <1>2, <1>3, <1>7 DEF s

\* set_sdu() adds a PDU that is no longer than the space.
LEMMA AcceptedFits ==
  ASSUME NEW m \in MacPdus, NEW p \in RlcPdus, new_subh(pdu_msg(m)),
         pdu_len(p) <= get_sdu_space(pdu_msg(m))
  PROVE  Append(m, p) \in MacPdus
<1> DEFINE s == Lengths(m)
           x == pdu_len(p)
           a == Append(m, p)
<1>1. m \in Seq(RlcPdus)
  BY DEF MacPdus
<1>2. /\ s \in Lens /\ Len(s) = Len(m) /\ pdu_msg(m) = Msg(s)
      /\ a \in Seq(RlcPdus) /\ Lengths(a) = Append(s, x)
  BY <1>1, LengthsFacts
<1>3. x \in Nat \ {0}
  BY PduLength
<1>4. Len(a) = Len(m) + 1 /\ Len(m) \in Nat
  BY <1>1
<1>5. Msg(s).sdus = s
  BY DEF Msg
<1>6. Len(a) < MAX_SUBH
  BY <1>2, <1>4, <1>5 DEF new_subh
<1> HIDE DEF s, x, a
<1>7. Msg(Append(s, x)) = add_sdu(Msg(s), x)
  BY <1>2, <1>3, AddToMsg
<1>8. add_sdu(Msg(s), x).rem_len = get_sdu_space(Msg(s)) - x
  BY DEF add_sdu
<1>9. get_sdu_space(Msg(s)) \in Int
  BY <1>2, SpaceLeft
<1>10. add_sdu(Msg(s), x).rem_len >= 0
  BY <1>2, <1>3, <1>8, <1>9 DEF x
<1> QED BY <1>2, <1>6, <1>7, <1>10 DEF MacPdus, a

LEMMA MacPduIsWritten ==
  ASSUME NEW m \in MacPdus
  PROVE  Written(pdu_msg(m)) /\ padding(pdu_msg(m)) >= 0
<1>1. m \in Seq(RlcPdus) /\ Len(m) < MAX_SUBH /\ Msg(Lengths(m)).rem_len >= 0
  BY DEF MacPdus
<1>2. /\ Lengths(m) \in Lens /\ Len(Lengths(m)) = Len(m)
      /\ pdu_msg(m) = Msg(Lengths(m))
  BY <1>1, LengthsFacts
<1> QED BY <1>1, <1>2, MsgIsWritten

LEMMA MacPduIsParsed ==
  ASSUME NEW m \in MacPdus
  PROVE  /\ pdu_msg(m).sdus = Lengths(m)
         /\ parse_packet(subheaders(pdu_msg(m))) = Payloads(Lengths(m), Len(Lengths(m)))
<1>1. m \in Seq(RlcPdus) /\ Msg(Lengths(m)).rem_len >= 0
  BY DEF MacPdus
<1>2. Lengths(m) \in Lens /\ pdu_msg(m) = Msg(Lengths(m))
  BY <1>1, LengthsFacts
<1> QED BY <1>1, <1>2, MsgIsParsed DEF Msg

-----------------------------------------------------------------------------
(* The sender's side and the MAC PDUs on their way.                        *)

SenderType ==
    /\ written \in [Rnti -> {s \in Seq(AllSdus) : Len(s) <= N_SDU}]
    /\ tx \in [Rnti -> TxStates(AllSdus)]
    /\ tpc \in [Rnti -> {"poll", "alloc", "build", "send"}]
    /\ grant \in [Rnti -> 0 .. (PDU_LEN - 1)]
    /\ mac_pdu \in [Rnti -> MacPdus]
    /\ aux_line \in [Rnti -> Seq(RlcPdus)]
    /\ aux_first \in [Rnti -> Nat]

QueuesBounded == \A u \in Rnti : n_unread(tx[u]) <= QUEUE_CAP

\* What allocate_sdu() asked for is still there when read_pdu() is called.
GrantsFit ==
    \A u \in Rnti : tpc[u] = "build" =>
      /\ grant[u] <= space(u)
      /\ new_subh(pdu_msg(mac_pdu[u]))

AirType ==
    /\ air \in [Rnti -> SUBSET (Nat \X (MacPdus \ {<<>>}))]
    /\ aux_next \in [Rnti -> Nat] /\ aux_fit \in BOOLEAN

SenderInv == SenderType /\ QueuesBounded /\ GrantsFit /\ AirType

LEMMA SenderInit == Init => SenderInv
<1> SUFFICES ASSUME Init PROVE SenderInv
  OBVIOUS
<1>1. /\ 0 \in 0 .. (PDU_LEN - 1) /\ 0 \in 0 .. (SN_MOD - 1) /\ 0 \in Nat
      /\ <<>> \in {s \in Seq(AllSdus) : Len(s) <= N_SDU} /\ <<>> \in Seq(RlcPdus)
  <2>1. \A S : <<>> \in Seq(S) /\ Len(<<>>) = 0
    OBVIOUS
  <2> QED BY <2>1
<1>2. tx_reset \in TxStates(AllSdus) /\ n_unread(tx_reset) = 0
  <2>1. <<>> \in Seq(AllSdus \X Nat) /\ <<>> \in Seq(Wholes(AllSdus)) /\ Len(<<>>) = 0
    OBVIOUS
  <2> QED BY <1>1, <2>1 DEF tx_reset, TxStates, n_unread
<1>3. SenderType
  BY <1>1, <1>2, EmptyMacPdu DEF Init, SenderType
<1>4. QueuesBounded
  BY <1>2 DEF Init, QueuesBounded
<1>5. GrantsFit
  BY DEF Init, GrantsFit
<1>6. AirType
  BY <1>1 DEF Init, AirType
<1> QED BY <1>3, <1>4, <1>5, <1>6 DEF SenderInv

LEMMA SenderWrite ==
  ASSUME SenderInv, NEW u \in Rnti, NEW n \in SduLen, WriteSdu(u, n)
  PROVE  SenderInv'
<1> DEFINE s == <<<<u, Len(written[u]) + 1>>, n>>
           Short == {q \in Seq(AllSdus) : Len(q) <= N_SDU}
           t == write_sdu(tx[u], s)
<1>1. /\ Len(written[u]) < N_SDU /\ n_unread(tx[u]) < QUEUE_CAP
      /\ written' = [written EXCEPT ![u] = Append(@, s)] /\ tx' = [tx EXCEPT ![u] = t]
      /\ UNCHANGED <<tpc, grant, mac_pdu, aux_line, aux_first, air, aux_next, aux_fit>>
  BY DEF WriteSdu, airVars
<1>2. SenderType /\ QueuesBounded /\ GrantsFit /\ AirType
  BY DEF SenderInv
<1>3. written[u] \in Short /\ tx[u] \in TxStates(AllSdus)
  BY <1>2 DEF SenderType
<1>4. Append(written[u], s) \in Short /\ s \in AllSdus
  <2>1. Len(written[u]) \in Nat /\ written[u] \in Seq(AllSdus)
    BY <1>3
  <2>2. s \in AllSdus
    BY <2>1 DEF AllSdus
  <2> HIDE DEF s
  <2>3. /\ Append(written[u], s) \in Seq(AllSdus)
        /\ Len(Append(written[u], s)) = Len(written[u]) + 1
    BY <2>1, <2>2
  <2> QED BY <1>1, <2>1, <2>2, <2>3
<1> HIDE DEF s
<1>5. t \in TxStates(AllSdus) /\ n_unread(t) = n_unread(tx[u]) + 1
  <2> DEFINE q == tx[u].tx_sdu_queue
             W == Wholes(AllSdus)
             q1 == Append(q, Bytes(s))
  <2>1. tx[u] \in [vt_us : 0 .. (SN_MOD - 1), tx_sdu : Seq(AllSdus \X Nat),
                   tx_sdu_queue : Seq(W)]
        /\ (tx[u].tx_sdu # <<>> => IsEnd(AllSdus, tx[u].tx_sdu, FALSE))
    BY <1>3 DEF TxStates
  <2>2. q \in Seq(W) /\ Bytes(s) \in W
    BY <1>4, <2>1 DEF Wholes
  <2>3. t = [tx[u] EXCEPT !.tx_sdu_queue = q1]
    BY DEF write_sdu
  <2> HIDE DEF t, q, W
  <2>4. q1 \in Seq(W) /\ Len(q1) = Len(q) + 1
    BY <2>2
  <2> HIDE DEF q1
  <2>5. /\ t \in [vt_us : 0 .. (SN_MOD - 1), tx_sdu : Seq(AllSdus \X Nat),
                  tx_sdu_queue : Seq(W)]
        /\ t.tx_sdu = tx[u].tx_sdu /\ t.tx_sdu_queue = q1
    BY <2>1, <2>3, <2>4
  <2> QED BY <2>1, <2>4, <2>5 DEF TxStates, W, n_unread, q
<1> HIDE DEF t
<1>6. n_unread(tx[u]) \in Int
  <2>1. tx[u].tx_sdu_queue \in Seq(Wholes(AllSdus))
    BY <1>3 DEF TxStates
  <2> QED BY <2>1 DEF n_unread
<1>7. SenderType'
  <2> HIDE DEF Short
  <2>1. written \in [Rnti -> Short]
    BY <1>2 DEF SenderType, Short
  <2>2. written' \in [Rnti -> Short]
    BY <1>1, <1>4, <2>1
  <2> QED BY <1>1, <1>2, <1>5, <2>2 DEF SenderType, Short
<1>8. QueuesBounded'
  <2>1. ASSUME NEW v \in Rnti PROVE n_unread(tx'[v]) <= QUEUE_CAP
    <3>1. tx'[v] = IF v = u THEN t ELSE tx[v]
      BY <1>1, <1>2 DEF SenderType
    <3> QED BY <1>1, <1>2, <1>5, <1>6, <3>1 DEF QueuesBounded
  <2> QED BY <2>1 DEF QueuesBounded
<1>9. GrantsFit' /\ AirType'
  BY <1>1, <1>2 DEF GrantsFit, AirType, space
<1> QED BY <1>7, <1>8, <1>9 DEF SenderInv

LEMMA SenderPoll ==
  ASSUME SenderInv, NEW u \in Rnti, Poll(u)
  PROVE  SenderInv'
<1>1. /\ tpc[u] = "poll" /\ tpc' = [tpc EXCEPT ![u] = "alloc"]
      /\ UNCHANGED <<written, tx, grant, mac_pdu, aux_line, aux_first, air, aux_next, aux_fit>>
  BY DEF Poll, airVars
<1>2. SenderType /\ QueuesBounded /\ GrantsFit /\ AirType
  BY DEF SenderInv
<1>3. SenderType' /\ QueuesBounded' /\ AirType'
  BY <1>1, <1>2 DEF SenderType, QueuesBounded, AirType
<1>4. \A v \in Rnti : tpc'[v] = "build" => tpc[v] = "build"
  BY <1>1, <1>2 DEF SenderType
<1>5. GrantsFit'
  BY <1>1, <1>2, <1>4 DEF GrantsFit, space
<1> QED BY <1>3, <1>5 DEF SenderInv

\* What allocate_sdu() asks for is in the space.
LEMMA RequestedFits ==
  ASSUME SenderInv, NEW u \in Rnti
  PROVE  Requested(u) \in Int /\ Requested(u) <= space(u) /\ space(u) <= PDU_LEN - 1
<1>1. mac_pdu[u] \in MacPdus /\ tx[u] \in TxStates(AllSdus)
  BY DEF SenderInv, SenderType
<1>2. space(u) \in Int /\ space(u) <= PDU_LEN - 1
  BY <1>1, SpaceLeft DEF space
<1>3. buffer_state(tx[u]) \in Int
  <2> DEFINE U == Seq(AllSdus \X Nat)
             q == tx[u].tx_sdu_queue
             a == tx[u].tx_sdu
             sdus == IF a = <<>> THEN q ELSE <<a>> \o q
  <2>1. q \in Seq(Wholes(AllSdus)) /\ a \in U
    BY <1>1 DEF TxStates
  <2>2. Wholes(AllSdus) \subseteq U
    <3>1. ASSUME NEW s \in AllSdus PROVE Bytes(s) \in U
      <4>1. s[2] \in Nat
        BY AllSdusHaveBytes DEF Sdus
      <4>2. \A i \in 1 .. s[2] : <<s, i>> \in AllSdus \X Nat
        BY <4>1
      <4> QED BY <4>1, <4>2 DEF Bytes
    <3> HIDE DEF U
    <3> QED BY <3>1 DEF Wholes
  <2> HIDE DEF U, q, a
  <2>3. q \in Seq(U)
    BY <2>1, <2>2
  <2>4. sdus \in Seq(U) /\ Len(sdus) \in Nat
    <3>1. <<a>> \in Seq(U)
      BY <2>1
    <3>2. <<a>> \o q \in Seq(U)
      BY <2>3, <3>1
    <3> QED BY <2>3, <3>2
  <2>5. buffer_state(tx[u]) =
          IF sdus = <<>> THEN 0
          ELSE Len(FlattenSeq(sdus)) + li_bytes(Len(sdus) - 1) + 2
    BY DEF buffer_state, q, a
  <2> HIDE DEF sdus
  <2>6. Len(FlattenSeq(sdus)) \in Nat
    BY <2>4, FlattenType DEF U
  <2>7. li_bytes(Len(sdus) - 1) \in Int
    BY <2>4 DEF li_bytes
  <2> QED BY <2>5, <2>6, <2>7
<1> QED BY <1>2, <1>3 DEF Requested

LEMMA SenderAllocate ==
  ASSUME SenderInv, NEW u \in Rnti, Allocate(u)
  PROVE  SenderInv'
<1>1. SenderType /\ QueuesBounded /\ GrantsFit /\ AirType
  BY DEF SenderInv
<1>2. Requested(u) \in Int /\ Requested(u) <= space(u) /\ space(u) <= PDU_LEN - 1
  BY RequestedFits
<1>3. space(u) \in Int
  BY <1>1, SpaceLeft DEF space, SenderType
<1>4. UNCHANGED <<written, tx, mac_pdu, aux_line, aux_first, air, aux_next, aux_fit>>
  BY DEF Allocate, airVars
<1>5. QueuesBounded' /\ AirType'
  BY <1>1, <1>4 DEF QueuesBounded, AirType
<1>6. CASE Requested(u) > 0 /\ new_subh(pdu_msg(mac_pdu[u]))
  <2>1. grant' = [grant EXCEPT ![u] = Requested(u)] /\ tpc' = [tpc EXCEPT ![u] = "build"]
    BY <1>6 DEF Allocate
  <2>2. Requested(u) \in 0 .. (PDU_LEN - 1)
    BY <1>2, <1>3, <1>6
  <2>3. SenderType'
    BY <1>1, <1>4, <2>1, <2>2 DEF SenderType
  <2>4. ASSUME NEW v \in Rnti, tpc'[v] = "build"
        PROVE  grant'[v] <= space(v)' /\ new_subh(pdu_msg(mac_pdu'[v]))
    <3>1. space(v)' = space(v) /\ mac_pdu'[v] = mac_pdu[v]
      BY <1>4 DEF space
    <3>2. CASE v = u
      <4>1. grant'[v] = Requested(u)
        BY <1>1, <2>1, <3>2 DEF SenderType
      <4> QED BY <1>2, <1>6, <3>1, <3>2, <4>1
    <3>3. CASE v # u
      <4>1. grant'[v] = grant[v] /\ tpc[v] = "build"
        BY <1>1, <2>1, <2>4, <3>3 DEF SenderType
      <4> QED BY <1>1, <3>1, <4>1 DEF GrantsFit
    <3> QED BY <3>2, <3>3
  <2>5. GrantsFit'
    BY <2>4 DEF GrantsFit
  <2> QED BY <1>5, <2>3, <2>5 DEF SenderInv
<1>7. CASE ~(Requested(u) > 0 /\ new_subh(pdu_msg(mac_pdu[u])))
  <2>1. grant' = grant /\ tpc' = [tpc EXCEPT ![u] = "send"]
    BY <1>7 DEF Allocate
  <2>2. SenderType'
    BY <1>1, <1>4, <2>1 DEF SenderType
  <2>3. \A v \in Rnti : tpc'[v] = "build" => tpc[v] = "build"
    BY <1>1, <2>1 DEF SenderType
  <2>4. GrantsFit'
    BY <1>1, <1>4, <2>1, <2>3 DEF GrantsFit, space
  <2> QED BY <1>5, <2>2, <2>4 DEF SenderInv
<1> QED BY <1>6, <1>7

LEMMA SenderBuild ==
  ASSUME SenderInv, NEW u \in Rnti, Build(u)
  PROVE  SenderInv'
<1> DEFINE b == build_data_pdu(tx[u], grant[u])
<1>1. SenderType /\ QueuesBounded /\ GrantsFit /\ AirType
  BY DEF SenderInv
<1>2. /\ tpc[u] = "build" /\ tx' = [tx EXCEPT ![u] = b.t]
      /\ grant' = [grant EXCEPT ![u] = 0]
      /\ \/ /\ accepted(u, b.len) /\ tpc' = [tpc EXCEPT ![u] = "alloc"]
            /\ mac_pdu' = [mac_pdu EXCEPT ![u] = Append(@, b.pdu)]
         \/ tpc' = [tpc EXCEPT ![u] = "send"] /\ mac_pdu' = mac_pdu
      /\ aux_line' = [aux_line EXCEPT ![u] = IF b.len = 0 THEN @ ELSE Append(@, b.pdu)]
      /\ UNCHANGED <<written, aux_first, air, aux_next, aux_fit>>
  BY DEF Build, airVars
<1>3. /\ tx[u] \in TxStates(AllSdus) /\ mac_pdu[u] \in MacPdus
      /\ grant[u] \in 0 .. (PDU_LEN - 1)
      /\ grant[u] <= space(u) /\ new_subh(pdu_msg(mac_pdu[u]))
  BY <1>1, <1>2 DEF SenderType, GrantsFit
<1>4. Built(AllSdus, tx[u], b)
  <2>1. grant[u] \in Int
    BY <1>3
  <2> HIDE DEF b
  <2> QED BY <1>3, <2>1, AllSdusHaveBytes, SnModType, BuildFacts DEF b
<1> HIDE DEF b
<1>5. b.t \in TxStates(AllSdus) /\ n_unread(b.t) <= n_unread(tx[u])
  BY <1>4 DEF Built, n_unread
<1>6. QueuesBounded'
  <2>1. ASSUME NEW v \in Rnti PROVE n_unread(tx'[v]) <= QUEUE_CAP
    <3>1. tx'[v] = IF v = u THEN b.t ELSE tx[v]
      BY <1>1, <1>2 DEF SenderType
    <3>2. n_unread(tx[u]) \in Int /\ n_unread(b.t) \in Int
      <4>1. \A t \in TxStates(AllSdus) : t.tx_sdu_queue \in Seq(Wholes(AllSdus))
        BY DEF TxStates
      <4> QED BY <1>3, <1>5, <4>1 DEF n_unread
    <3> QED BY <1>1, <1>5, <3>1, <3>2 DEF QueuesBounded
  <2> QED BY <2>1 DEF QueuesBounded
<1>7. \A v \in Rnti : tpc'[v] = "build" =>
        tpc[v] = "build" /\ grant'[v] = grant[v] /\ mac_pdu'[v] = mac_pdu[v]
  BY <1>1, <1>2 DEF SenderType
<1>8. GrantsFit'
  BY <1>1, <1>7 DEF GrantsFit, space
<1>9. AirType'
  BY <1>1, <1>2 DEF AirType
<1>10. mac_pdu' \in [Rnti -> MacPdus]
  <2>1. CASE accepted(u, b.len) /\ mac_pdu' = [mac_pdu EXCEPT ![u] = Append(@, b.pdu)]
    <3>1. b.len \in Nat \ {0} /\ b.len = length_of(b.pdu.segs) /\ b.pdu \in RlcPdus
      BY <1>4, <2>1 DEF Built, accepted, RlcPdus
    <3>2. pdu_len(b.pdu) = b.len /\ b.len <= grant[u]
      BY <2>1, <3>1, PduLength DEF accepted
    <3>3. space(u) \in Int /\ space(u) = get_sdu_space(pdu_msg(mac_pdu[u]))
      BY <1>3, SpaceLeft DEF space
    <3>4. pdu_len(b.pdu) <= get_sdu_space(pdu_msg(mac_pdu[u]))
      BY <1>3, <3>1, <3>2, <3>3
    <3>5. Append(mac_pdu[u], b.pdu) \in MacPdus
      BY <1>3, <3>1, <3>4, AcceptedFits
    <3> QED BY <1>1, <2>1, <3>5 DEF SenderType
  <2>2. CASE mac_pdu' = mac_pdu
    BY <1>1, <2>2 DEF SenderType
  <2> QED BY <1>2, <2>1, <2>2
<1>11. aux_line' \in [Rnti -> Seq(RlcPdus)]
  <2>1. aux_line \in [Rnti -> Seq(RlcPdus)]
    BY <1>1 DEF SenderType
  <2>2. CASE b.len = 0
    <3>1. aux_line' = aux_line
      BY <1>2, <2>1, <2>2
    <3> QED BY <2>1, <3>1
  <2>3. CASE b.len # 0
    <3>1. b.pdu \in RlcPdus
      BY <1>4, <2>3 DEF Built, RlcPdus
    <3>2. Append(aux_line[u], b.pdu) \in Seq(RlcPdus)
      BY <2>1, <3>1
    <3> QED BY <1>2, <2>1, <2>3, <3>2
  <2> QED BY <2>2, <2>3
<1>12. SenderType'
  <2>1. 0 \in 0 .. (PDU_LEN - 1)
    OBVIOUS
  <2> QED BY <1>1, <1>2, <1>5, <1>10, <1>11, <2>1 DEF SenderType
<1> QED BY <1>6, <1>8, <1>9, <1>12 DEF SenderInv

LEMMA SenderSend ==
  ASSUME SenderInv, NEW u \in Rnti, Send(u)
  PROVE  SenderInv'
<1>1. SenderType /\ QueuesBounded /\ GrantsFit /\ AirType
  BY DEF SenderInv
<1>2. /\ tpc[u] = "send" /\ tpc' = [tpc EXCEPT ![u] = "poll"]
      /\ mac_pdu' = [mac_pdu EXCEPT ![u] = <<>>]
      /\ aux_first' = [aux_first EXCEPT ![u] = Len(aux_line[u])]
      /\ UNCHANGED <<written, tx, grant, aux_line, aux_next, aux_fit>>
  BY DEF Send
<1>3. air' \in [Rnti -> SUBSET (Nat \X (MacPdus \ {<<>>}))]
  <2> DEFINE M == MacPdus \ {<<>>}
             new == {n \in {mac_pdu[u]} \ {<<>>} : Written(pdu_msg(n))}
             more == {<<aux_first[u], m>> : m \in new}
  <2>1. air' = [air EXCEPT ![u] = @ \cup more]
    BY DEF Send
  <2>2. new \subseteq M /\ aux_first[u] \in Nat
    BY <1>1 DEF SenderType
  <2>3. air \in [Rnti -> SUBSET (Nat \X M)]
    BY <1>1 DEF AirType
  <2> HIDE DEF new, M
  <2>4. more \subseteq Nat \X M
    BY <2>2
  <2> HIDE DEF more
  <2>5. air[u] \cup more \in SUBSET (Nat \X M)
    BY <2>3, <2>4
  <2> QED BY <2>1, <2>3, <2>5 DEF M
<1>4. \A v \in Rnti : tpc'[v] = "build" => tpc[v] = "build" /\ mac_pdu'[v] = mac_pdu[v]
  BY <1>1, <1>2 DEF SenderType
<1>5. SenderType' /\ QueuesBounded'
  <2>1. Len(aux_line[u]) \in Nat
    BY <1>1 DEF SenderType
  <2> QED BY <1>1, <1>2, <2>1, EmptyMacPdu DEF SenderType, QueuesBounded
<1>6. GrantsFit'
  BY <1>1, <1>2, <1>4 DEF GrantsFit, space
<1>7. AirType'
  BY <1>1, <1>2, <1>3 DEF AirType
<1> QED BY <1>5, <1>6, <1>7 DEF SenderInv

LEMMA SenderDeliver ==
  ASSUME SenderInv, NEW u \in Rnti, NEW a \in air[u], Deliver(u, a[1], a[2])
  PROVE  SenderInv'
<1>1. SenderType /\ QueuesBounded /\ GrantsFit /\ AirType
  BY DEF SenderInv
<1>2. UNCHANGED <<written, tx, tpc, grant, mac_pdu, aux_line, aux_first, air>>
  BY DEF Deliver, txVars
<1>3. aux_next' \in [Rnti -> Nat] /\ aux_fit' \in BOOLEAN
  <2>1. a[1] \in Nat /\ a[2] \in MacPdus
    BY <1>1 DEF AirType
  <2>2. Len(a[2]) \in Nat
    BY <2>1 DEF MacPdus
  <2>3. aux_next \in [Rnti -> Nat] /\ a[1] + Len(a[2]) \in Nat
    BY <1>1, <2>1, <2>2 DEF AirType
  <2>4. PICK x \in Nat : aux_next' = [aux_next EXCEPT ![u] = x]
    BY <2>3 DEF Deliver
  <2>5. aux_fit' \in BOOLEAN
    BY DEF Deliver
  <2> QED BY <2>3, <2>4, <2>5
<1>4. SenderType' /\ QueuesBounded' /\ GrantsFit'
  BY <1>1, <1>2 DEF SenderType, QueuesBounded, GrantsFit, space
<1>5. AirType'
  BY <1>1, <1>2, <1>3 DEF AirType
<1> QED BY <1>4, <1>5 DEF SenderInv

LEMMA SenderRest ==
  ASSUME SenderInv, UNCHANGED <<txVars, airVars>>
  PROVE  SenderInv'
BY DEF SenderInv, SenderType, QueuesBounded, GrantsFit, AirType, space, txVars, airVars

LEMMA SenderStep == SenderInv /\ [Next]_vars => SenderInv'
<1> SUFFICES ASSUME SenderInv, [Next]_vars PROVE SenderInv'
  OBVIOUS
<1>1. CASE UNCHANGED vars
  BY <1>1, SenderRest DEF vars
<1>2. CASE Next
  <2>1. PICK u \in Rnti :
          \/ \E n \in SduLen : WriteSdu(u, n)
          \/ Poll(u) \/ Allocate(u) \/ Build(u) \/ Send(u)
          \/ \E a \in air[u] : Deliver(u, a[1], a[2])
          \/ UeThread(u)
    BY <1>2 DEF Next
  <2>2. ASSUME NEW n \in SduLen, WriteSdu(u, n) PROVE SenderInv'
    BY <2>2, SenderWrite
  <2>3. ASSUME NEW a \in air[u], Deliver(u, a[1], a[2]) PROVE SenderInv'
    BY <2>3, SenderDeliver
  <2>4. CASE UeThread(u)
    <3>1. UNCHANGED <<txVars, airVars>>
      BY <2>4 DEF UeThread, WritePdu, Demuxed, StepTimer, TimerExpired, TimerOff
    <3> QED BY <3>1, SenderRest
  <2> QED BY <2>1, <2>2, <2>3, <2>4, SenderPoll, SenderAllocate, SenderBuild, SenderSend
<1> QED BY <1>1, <1>2

LEMMA SenderAlways == Spec => []SenderInv
<1>1. Init => SenderInv
  BY SenderInit
<1>2. SenderInv /\ [Next]_vars => SenderInv'
  BY SenderStep
<1> QED BY <1>1, <1>2, PTL DEF Spec

-----------------------------------------------------------------------------
(* What they carry.                                                        *)

LEMMA FitsAlways == SenderInv => MacPduFits
<1> SUFFICES ASSUME SenderInv, NEW u \in Rnti
             PROVE  Written(pdu_msg(mac_pdu[u])) /\ padding(pdu_msg(mac_pdu[u])) >= 0
  BY DEF MacPduFits
<1>1. mac_pdu[u] \in MacPdus
  BY DEF SenderInv, SenderType
<1> QED BY <1>1, MacPduIsWritten

LEMMA ParsedAlways == SenderInv => ParsedAsWritten
<1> SUFFICES ASSUME SenderInv, NEW u \in Rnti, NEW a \in air[u], NEW m, m = a[2]
             PROVE  parse_packet(subheaders(pdu_msg(m))) =
                      [j \in DOMAIN pdu_msg(m).sdus |->
                         [at |-> sum(SubSeq(pdu_msg(m).sdus, 1, j - 1)),
                          size |-> pdu_msg(m).sdus[j]]]
  BY DEF ParsedAsWritten
<1> DEFINE s == Lengths(m)
<1>1. m \in MacPdus
  BY DEF SenderInv, AirType
<1>2. /\ pdu_msg(m).sdus = s
      /\ parse_packet(subheaders(pdu_msg(m))) = Payloads(s, Len(s))
  BY <1>1, MacPduIsParsed
<1>3. m \in Seq(RlcPdus)
  BY <1>1 DEF MacPdus
<1>4. s \in Lens
  BY <1>3, LengthsFacts
<1> HIDE DEF s
<1>5. DOMAIN s = 1 .. Len(s)
  BY <1>4 DEF Lens
<1> QED BY <1>2, <1>5 DEF Payloads

\* A segment of a PDU: from byte k to byte j of the SDU s.
LEMMA SegmentFacts ==
  ASSUME NEW s \in AllSdus, NEW k \in 1 .. s[2], NEW j \in (k - 1) .. s[2], NEW seg,
         seg = Piece(s, k, j)
  PROVE  /\ OneSdu(seg)
         /\ k = 1 => Begins(seg)
         /\ j = s[2] => Ends(seg)
<1>1. s[2] \in Nat /\ k \in Nat \ {0} /\ j \in Nat /\ k <= j + 1
  BY AllSdusHaveBytes DEF Sdus
<1> DEFINE n == (j - k) + 1
<1>2. IsPiece(Piece(s, k, j), AllSdus, s, k, (j - k) + 1)
  BY <1>1, PieceFacts
<1>3. n \in Nat
  BY <1>1
<1>4. /\ seg \in Seq(AllSdus \X Nat) /\ Len(seg) = n
      /\ \A i \in 1 .. n : seg[i] = <<s, k + (i - 1)>>
  <2> HIDE DEF n
  <2> QED BY <1>2 DEF IsPiece, n
<1>5. \A i \in 1 .. n : seg[i][1] = s /\ seg[i][2] = k + (i - 1)
  BY <1>4
<1>6. OneSdu(seg)
  <2> SUFFICES ASSUME NEW i \in 1 .. n
               PROVE  seg[i][1] = seg[1][1] /\ seg[i][2] = seg[1][2] + i - 1
    BY <1>4 DEF OneSdu
  <2>1. 1 \in 1 .. n
    BY <1>3
  <2>2. seg[1][1] = s /\ seg[1][2] = k + (1 - 1)
    BY <1>5, <2>1
  <2>3. seg[i][1] = s /\ seg[i][2] = k + (i - 1)
    BY <1>5
  <2>4. k + (i - 1) = (k + (1 - 1)) + i - 1
    BY <1>1, <1>3
  <2> QED BY <2>2, <2>3, <2>4
<1>7. ASSUME k = 1 PROVE Begins(seg)
  <2>1. CASE seg = <<>>
    BY <2>1 DEF Begins
  <2>2. CASE seg # <<>>
    <3>1. 1 \in 1 .. n
      BY <1>3, <1>4, <2>2
    <3>2. Head(seg) = seg[1]
      BY <1>4, <2>2
    <3>3. seg[1][2] = k + (1 - 1)
      BY <1>5, <3>1
    <3> QED BY <1>7, <3>2, <3>3 DEF Begins
  <2> QED BY <2>1, <2>2
<1>8. ASSUME j = s[2] PROVE Ends(seg)
  <2>1. n \in 1 .. n /\ k + (n - 1) = s[2]
    BY <1>1, <1>8
  <2>2. seg # <<>>
    BY <1>4, <2>1
  <2>3. Last(seg) = seg[n]
    BY <1>4 DEF Last
  <2>4. seg[n][1] = s /\ seg[n][2] = k + (n - 1)
    BY <1>5, <2>1
  <2> QED BY <2>1, <2>2, <2>3, <2>4 DEF Ends
<1> QED BY <1>6, <1>7, <1>8

LEMMA FramedTruly ==
  ASSUME NEW p \in RlcPdus
  PROVE  /\ \A i \in 1 .. Len(p.segs) : OneSdu(p.segs[i])
         /\ p.start => Begins(p.segs[1])
         /\ \A i \in 2 .. Len(p.segs) : Begins(p.segs[i]) /\ Ends(p.segs[i - 1])
         /\ p.end => Ends(Last(p.segs))
<1> DEFINE segs == p.segs
           n == Len(segs)
<1>1. segs \in Seq(Seq(AllSdus \X Nat)) /\ segs # <<>> /\ Framed(AllSdus, p)
  BY DEF RlcPdus, Pdus
<1>2. n \in Nat \ {0}
  <2> DEFINE U == Seq(AllSdus \X Nat)
  <2>1. segs \in Seq(U) /\ segs # <<>>
    BY <1>1
  <2> HIDE DEF segs, U
  <2> QED BY <2>1
<1>3. ASSUME NEW i \in 1 .. n
      PROVE  /\ OneSdu(segs[i])
             /\ p.start \/ i > 1 => Begins(segs[i])
             /\ p.end \/ i < n => Ends(segs[i])
  <2>1. PICK s \in AllSdus : \E k \in 1 .. s[2] : \E j \in (k - 1) .. s[2] :
          /\ segs[i] = Piece(s, k, j)
          /\ p.start \/ i > 1 => k = 1
          /\ p.end \/ i < n => j = s[2]
    BY <1>1 DEF Framed
  <2>2. PICK k \in 1 .. s[2] : \E j \in (k - 1) .. s[2] :
          /\ segs[i] = Piece(s, k, j)
          /\ p.start \/ i > 1 => k = 1
          /\ p.end \/ i < n => j = s[2]
    BY <2>1
  <2>3. PICK j \in (k - 1) .. s[2] :
          /\ segs[i] = Piece(s, k, j)
          /\ p.start \/ i > 1 => k = 1
          /\ p.end \/ i < n => j = s[2]
    BY <2>2
  <2> DEFINE seg == segs[i]
  <2> HIDE DEF seg, n
  <2>4. seg = Piece(s, k, j)
    BY <2>3 DEF seg
  <2>5. OneSdu(seg) /\ (k = 1 => Begins(seg)) /\ (j = s[2] => Ends(seg))
    BY <2>4, SegmentFacts
  <2> QED BY <2>3, <2>5 DEF seg
<1> HIDE DEF segs, n
<1>4. p.start => Begins(segs[1])
  BY <1>2, <1>3
<1>5. \A i \in 2 .. n : Begins(segs[i]) /\ Ends(segs[i - 1])
  <2> SUFFICES ASSUME NEW i \in 2 .. n PROVE Begins(segs[i]) /\ Ends(segs[i - 1])
    OBVIOUS
  <2> DEFINE h == i - 1
  <2>1. i \in 1 .. n /\ i > 1 /\ h \in 1 .. n /\ h < n
    BY <1>2
  <2> HIDE DEF h
  <2> QED BY <1>3, <2>1 DEF h
<1>6. p.end => Ends(Last(segs))
  <2>1. n \in 1 .. n /\ Last(segs) = segs[n]
    BY <1>2 DEF Last, n
  <2> QED BY <1>3, <2>1
<1> QED BY <1>3, <1>4, <1>5, <1>6 DEF segs, n

LEMMA FramingAlways == SenderInv => FramingTrue
<1> SUFFICES ASSUME SenderInv, NEW u \in Rnti, NEW a \in air[u], NEW m, m = a[2],
                    NEW j \in 1 .. Len(m)
             PROVE  /\ \A i \in 1 .. Len(m[j].segs) : OneSdu(m[j].segs[i])
                    /\ m[j].start => Begins(m[j].segs[1])
                    /\ \A i \in 2 .. Len(m[j].segs) :
                         Begins(m[j].segs[i]) /\ Ends(m[j].segs[i - 1])
                    /\ m[j].end => Ends(Last(m[j].segs))
  BY DEF FramingTrue
<1>1. m \in MacPdus
  BY DEF SenderInv, AirType
<1>2. m \in Seq(RlcPdus)
  BY <1>1 DEF MacPdus
<1>3. m[j] \in RlcPdus
  BY <1>2
<1> DEFINE p == m[j]
<1> HIDE DEF p
<1>4. p \in RlcPdus
  BY <1>3 DEF p
<1>5. /\ \A i \in 1 .. Len(p.segs) : OneSdu(p.segs[i])
      /\ p.start => Begins(p.segs[1])
      /\ \A i \in 2 .. Len(p.segs) : Begins(p.segs[i]) /\ Ends(p.segs[i - 1])
      /\ p.end => Ends(Last(p.segs))
  BY <1>4, FramedTruly
<1> QED BY <1>5 DEF p

\* write_packet() (test/pdu.cc:93) never refuses the MAC PDU that pdu_get()
\* collected, for any lengths of SDUs and any length of a MAC PDU, and the
\* padding it fills has no negative length: allocate_sdu() asks for no more
\* than the space, and set_sdu() refuses a longer RLC PDU.
THEOREM MacPduAlwaysFits == Spec => []MacPduFits
BY SenderAlways, FitsAlways, PTL

\* The demultiplexer finds the RLC PDUs in a MAC PDU where the multiplexer put
\* them, with their lengths, whatever padding there is (parse_packet(),
\* test/pdu.cc:74).
THEOREM AlwaysParsedAsWritten == Spec => []ParsedAsWritten
BY SenderAlways, ParsedAlways, PTL

\* What the header of every RLC PDU on its way says of its first and its last
\* byte and of its length indicators is true (build_data_pdu(),
\* test/rlc_um.cc).
THEOREM FramingAlwaysTrue == Spec => []FramingTrue
BY SenderAlways, FramingAlways, PTL

-----------------------------------------------------------------------------
(* The stream of bytes.                                                    *)

\* f of every element.
Map(f, s) == [i \in DOMAIN s |-> f[s[i]]]

Mapped(f, s, x, T) ==
    Map(f, s) \in Seq(T) /\ Map(f, Append(s, x)) = Append(Map(f, s), f[x])

LEMMA MapAppend ==
  ASSUME NEW S, NEW s \in Seq(S), NEW x \in S, NEW T, NEW f \in [S -> T]
  PROVE  Mapped(f, s, x, T)
<1> DEFINE a == Map(f, s)
           b == Map(f, Append(s, x))
           n == Len(s)
           t == Append(s, x)
           c == Append(a, f[x])
<1>1. /\ n \in Nat /\ t \in Seq(S) /\ Len(t) = n + 1 /\ t[n + 1] = x
      /\ \A i \in 1 .. n : t[i] = s[i] /\ s[i] \in S
  OBVIOUS
<1>2. DOMAIN s = 1 .. n /\ DOMAIN t = 1 .. n + 1
  <2>1. DOMAIN s = 1 .. n
    OBVIOUS
  <2>2. DOMAIN t = 1 .. Len(t)
    <3> HIDE DEF t
    <3> QED BY <1>1
  <2> QED BY <1>1, <2>1, <2>2
<1>3. b = [i \in 1 .. n + 1 |-> f[t[i]]] /\ a = [i \in 1 .. n |-> f[s[i]]]
  BY <1>2 DEF Map
<1> HIDE DEF n, t, a, b
<1>4. a \in Seq(T) /\ Len(a) = n /\ \A i \in 1 .. n : a[i] = f[s[i]]
  BY <1>1, <1>3
<1>5. /\ c \in Seq(T) /\ Len(c) = n + 1 /\ c[n + 1] = f[x]
      /\ \A i \in 1 .. n : c[i] = a[i]
  <2>1. f[x] \in T
    OBVIOUS
  <2> QED BY <1>4, <2>1
<1> HIDE DEF c
<1>6. \A i \in 1 .. n + 1 : t[i] \in S /\ f[t[i]] \in T
  <2>1. \A i \in 1 .. n + 1 : t[i] \in S
    BY <1>1
  <2> QED BY <2>1
<1>7. b \in Seq(T) /\ Len(b) = n + 1 /\ \A i \in 1 .. n + 1 : b[i] = f[t[i]]
  BY <1>1, <1>3, <1>6
<1>8. \A i \in 1 .. n + 1 : b[i] = c[i]
  <2> SUFFICES ASSUME NEW i \in 1 .. n + 1 PROVE b[i] = c[i]
    OBVIOUS
  <2>1. CASE i = n + 1
    BY <1>1, <1>5, <1>7, <2>1
  <2>2. CASE i # n + 1
    <3>1. i \in 1 .. n
      BY <1>1, <2>2
    <3> QED BY <1>1, <1>4, <1>5, <1>7, <3>1
  <2> QED BY <2>1, <2>2
<1> QED BY <1>4, <1>5, <1>7, <1>8, SeqEqual DEF a, b, c, t, Mapped

AllBytes == AllSdus \X Nat

WrittenBytes(w) == FlattenSeq([i \in DOMAIN w |-> Bytes(w[i])])

\* One PDU more.
LEMMA LineAppend ==
  ASSUME NEW l \in Seq(RlcPdus), NEW p \in RlcPdus
  PROVE  /\ BytesOf(l) \in Seq(AllBytes) /\ FlattenSeq(p.segs) \in Seq(AllBytes)
         /\ BytesOf(Append(l, p)) = BytesOf(l) \o FlattenSeq(p.segs)
<1> DEFINE T == Seq(AllBytes)
           f == [q \in RlcPdus |-> FlattenSeq(q.segs)]
           a == [i \in DOMAIN l |-> FlattenSeq(l[i].segs)]
           b == [i \in DOMAIN Append(l, p) |-> FlattenSeq(Append(l, p)[i].segs)]
<1>1. \A q \in RlcPdus : FlattenSeq(q.segs) \in T
  <2> SUFFICES ASSUME NEW q \in RlcPdus PROVE FlattenSeq(q.segs) \in T
    OBVIOUS
  <2>1. q.segs \in Seq(Seq(AllBytes))
    BY DEF RlcPdus, Pdus, AllBytes
  <2> QED BY <2>1, FlattenType
<1>2. f \in [RlcPdus -> T]
  BY <1>1
<1>3. a = Map(f, l)
  <2>1. \A i \in DOMAIN l : l[i] \in RlcPdus
    OBVIOUS
  <2> QED BY <2>1 DEF Map
<1>4. b = Map(f, Append(l, p))
  <2> DEFINE m == Append(l, p)
  <2>1. m \in Seq(RlcPdus)
    OBVIOUS
  <2> HIDE DEF m
  <2>2. \A i \in DOMAIN m : m[i] \in RlcPdus
    BY <2>1
  <2> QED BY <2>2 DEF m, Map
<1>5. BytesOf(l) = FlattenSeq(a) /\ BytesOf(Append(l, p)) = FlattenSeq(b)
  BY DEF BytesOf
<1>6. f[p] = FlattenSeq(p.segs) /\ f[p] \in T
  BY <1>1
<1> HIDE DEF f, a, b, T
<1>7. a \in Seq(T) /\ b = Append(a, f[p])
  <2>1. l \in Seq(RlcPdus) /\ p \in RlcPdus /\ f \in [RlcPdus -> T]
    BY <1>2
  <2>2. Mapped(f, l, p, T)
    BY ONLY <2>1, MapAppend
  <2> QED BY <1>3, <1>4, <2>2 DEF Mapped
<1>8. a \in Seq(Seq(AllBytes)) /\ f[p] \in Seq(AllBytes)
  BY <1>6, <1>7 DEF T
<1>9. FlattenSeq(Append(a, f[p])) = FlattenSeq(a) \o f[p]
  BY ONLY <1>8, FlattenAppend
<1>10. FlattenSeq(a) \in Seq(AllBytes)
  BY ONLY <1>8, FlattenType
<1> QED BY <1>5, <1>6, <1>7, <1>8, <1>9, <1>10

\* One SDU more.
LEMMA WrittenAppend ==
  ASSUME NEW w \in Seq(AllSdus), NEW s \in AllSdus
  PROVE  /\ WrittenBytes(w) \in Seq(AllBytes) /\ Bytes(s) \in Seq(AllBytes)
         /\ WrittenBytes(Append(w, s)) = WrittenBytes(w) \o Bytes(s)
<1> DEFINE T == Seq(AllBytes)
           f == [q \in AllSdus |-> Bytes(q)]
           a == [i \in DOMAIN w |-> Bytes(w[i])]
           b == [i \in DOMAIN Append(w, s) |-> Bytes(Append(w, s)[i])]
<1>1. \A q \in AllSdus : Bytes(q) \in T
  BY AllSdusHaveBytes, WholesAreSeqs DEF Wholes, AllBytes
<1>2. f \in [AllSdus -> T]
  BY <1>1
<1>3. a = Map(f, w)
  <2>1. \A i \in DOMAIN w : w[i] \in AllSdus
    OBVIOUS
  <2> QED BY <2>1 DEF Map
<1>4. b = Map(f, Append(w, s))
  <2> DEFINE m == Append(w, s)
  <2>1. m \in Seq(AllSdus)
    OBVIOUS
  <2> HIDE DEF m
  <2>2. \A i \in DOMAIN m : m[i] \in AllSdus
    BY <2>1
  <2> QED BY <2>2 DEF m, Map
<1>5. WrittenBytes(w) = FlattenSeq(a) /\ WrittenBytes(Append(w, s)) = FlattenSeq(b)
  BY DEF WrittenBytes
<1>6. f[s] = Bytes(s) /\ f[s] \in T
  BY <1>1
<1> HIDE DEF f, a, b, T
<1>7. a \in Seq(T) /\ b = Append(a, f[s])
  <2>1. w \in Seq(AllSdus) /\ s \in AllSdus /\ f \in [AllSdus -> T]
    BY <1>2
  <2>2. Mapped(f, w, s, T)
    BY ONLY <2>1, MapAppend
  <2> QED BY <1>3, <1>4, <2>2 DEF Mapped
<1>8. a \in Seq(Seq(AllBytes)) /\ f[s] \in Seq(AllBytes)
  BY <1>6, <1>7 DEF T
<1>9. FlattenSeq(Append(a, f[s])) = FlattenSeq(a) \o f[s]
  BY ONLY <1>8, FlattenAppend
<1>10. FlattenSeq(a) \in Seq(AllBytes)
  BY ONLY <1>8, FlattenType
<1> QED BY <1>5, <1>6, <1>7, <1>8, <1>9, <1>10

\* What a transmitter has, and the bytes before it.
LEMMA UnsentFacts ==
  ASSUME NEW t \in TxStates(AllSdus), NEW l \in Seq(AllBytes)
  PROVE  /\ t.tx_sdu \in Seq(AllBytes) /\ t.tx_sdu_queue \in Seq(Seq(AllBytes))
         /\ FlattenSeq(t.tx_sdu_queue) \in Seq(AllBytes) /\ Unsent(t) \in Seq(AllBytes)
         /\ (l \o t.tx_sdu) \o FlattenSeq(t.tx_sdu_queue) = l \o Unsent(t)
<1> DEFINE U == Seq(AllBytes)
           x == t.tx_sdu
           q == t.tx_sdu_queue
           g == FlattenSeq(q)
<1>1. x \in U /\ q \in Seq(Wholes(AllSdus))
  BY DEF TxStates, AllBytes
<1>2. Wholes(AllSdus) \subseteq U
  BY AllSdusHaveBytes, WholesAreSeqs DEF AllBytes
<1> HIDE DEF U, x, q
<1>3. q \in Seq(U)
  BY <1>1, <1>2
<1>4. g \in Seq(AllBytes) /\ x \in Seq(AllBytes) /\ q \in Seq(Seq(AllBytes))
  BY <1>1, <1>3, FlattenType DEF U
<1>5. Unsent(t) = x \o g
  BY DEF Unsent, x, q
<1> HIDE DEF g
<1>6. x \o g \in Seq(AllBytes)
  BY <1>4, ConcatProperties
<1>7. l \in Seq(AllBytes) /\ x \in Seq(AllBytes) /\ g \in Seq(AllBytes)
  BY <1>4
<1>8. (l \o x) \o g = l \o (x \o g)
  BY ONLY <1>7, ConcatAssociative
<1> QED BY <1>4, <1>5, <1>6, <1>8 DEF x, q, g

StreamOf(u) ==
    BytesOf(aux_line[u]) \o tx[u].tx_sdu \o FlattenSeq(tx[u].tx_sdu_queue) =
      WrittenBytes(written[u])

LEMMA StreamInit == Init => StreamIntact
<1> SUFFICES ASSUME Init, NEW u \in Rnti PROVE StreamOf(u)
  BY DEF StreamIntact, StreamOf, WrittenBytes
<1>1. /\ aux_line[u] = <<>> /\ written[u] = <<>>
      /\ tx[u].tx_sdu = <<>> /\ tx[u].tx_sdu_queue = <<>>
  BY DEF Init, tx_reset
<1>2. \A T : <<>> \in Seq(T)
  OBVIOUS
<1>3. FlattenSeq(<<>>) = <<>>
  BY DEF FlattenSeq
<1>4. BytesOf(<<>>) = <<>>
  <2>1. [i \in DOMAIN <<>> |-> FlattenSeq(<<>>[i].segs)] = <<>>
    OBVIOUS
  <2> QED BY <1>3, <2>1 DEF BytesOf
<1>5. WrittenBytes(<<>>) = <<>>
  <2>1. [i \in DOMAIN <<>> |-> Bytes(<<>>[i])] = <<>>
    OBVIOUS
  <2> QED BY <1>3, <2>1 DEF WrittenBytes
<1>6. <<>> \o <<>> = <<>>
  BY <1>2, EmptyConcat
<1> QED BY <1>1, <1>3, <1>4, <1>5, <1>6 DEF StreamOf

LEMMA StreamWrite ==
  ASSUME SenderInv, NEW u \in Rnti, StreamOf(u), NEW n \in SduLen, WriteSdu(u, n)
  PROVE  StreamOf(u)'
<1> DEFINE s == <<<<u, Len(written[u]) + 1>>, n>>
           t == tx[u]
           t1 == write_sdu(t, s)
           l == BytesOf(aux_line[u])
           x == t.tx_sdu
           q == t.tx_sdu_queue
           w == written[u]
<1>1. written \in [Rnti -> {z \in Seq(AllSdus) : Len(z) <= N_SDU}]
      /\ tx \in [Rnti -> TxStates(AllSdus)] /\ aux_line \in [Rnti -> Seq(RlcPdus)]
  BY DEF SenderInv, SenderType
<1>2. written'[u] = Append(w, s) /\ tx'[u] = t1 /\ aux_line' = aux_line
  BY <1>1 DEF WriteSdu
<1>3. w \in Seq(AllSdus) /\ s \in AllSdus
  <2>1. w \in Seq(AllSdus) /\ Len(w) \in Nat
    BY <1>1
  <2> QED BY <2>1 DEF AllSdus
<1>4. t \in TxStates(AllSdus) /\ aux_line[u] \in Seq(RlcPdus)
  BY <1>1
<1>5. l \in Seq(AllBytes)
  <2>1. CASE RlcPdus = {}
    <3>1. aux_line[u] = <<>>
      BY <1>4, <2>1
    <3>2. [i \in DOMAIN <<>> |-> FlattenSeq(<<>>[i].segs)] = <<>> /\ <<>> \in Seq(AllBytes)
      OBVIOUS
    <3> QED BY <3>1, <3>2 DEF BytesOf, FlattenSeq
  <2>2. CASE RlcPdus # {}
    BY <1>4, <2>2, LineAppend
  <2> QED BY <2>1, <2>2
<1>6. t1.tx_sdu = x /\ t1.tx_sdu_queue = Append(q, Bytes(s))
  BY <1>4 DEF write_sdu, TxStates
<1> HIDE DEF s, t, t1, l, w
<1>7. x \in Seq(AllBytes) /\ q \in Seq(Seq(AllBytes)) /\ FlattenSeq(q) \in Seq(AllBytes)
  BY <1>4, <1>5, UnsentFacts
<1>8. /\ WrittenBytes(w) \in Seq(AllBytes) /\ Bytes(s) \in Seq(AllBytes)
      /\ WrittenBytes(Append(w, s)) = WrittenBytes(w) \o Bytes(s)
  BY <1>3, WrittenAppend
<1>9. FlattenSeq(Append(q, Bytes(s))) = FlattenSeq(q) \o Bytes(s)
  <2> HIDE DEF q
  <2> QED BY <1>7, <1>8, FlattenAppend
<1> DEFINE h == l \o x
           g == FlattenSeq(q)
           b == Bytes(s)
<1>10. h \o g = WrittenBytes(w)
  BY DEF StreamOf, l, t, w
<1>11. h \in Seq(AllBytes)
  BY <1>5, <1>7, ConcatProperties
<1> HIDE DEF h, g, b, x, q
<1>12. h \in Seq(AllBytes) /\ g \in Seq(AllBytes) /\ b \in Seq(AllBytes)
  BY <1>7, <1>8, <1>11 DEF g, b
<1>13. (h \o g) \o b = h \o (g \o b)
  BY ONLY <1>12, ConcatAssociative
<1>14. h \o FlattenSeq(Append(q, Bytes(s))) = WrittenBytes(Append(w, s))
  BY <1>8, <1>9, <1>10, <1>13 DEF g, b
<1> QED BY <1>2, <1>6, <1>14 DEF StreamOf, h, l

LEMMA StreamBuild ==
  ASSUME SenderInv, NEW u \in Rnti, StreamOf(u), Build(u)
  PROVE  StreamOf(u)'
<1> DEFINE d == build_data_pdu(tx[u], grant[u])
           t == tx[u]
           line == aux_line[u]
           l == BytesOf(line)
           w == written[u]
<1>1. /\ tx \in [Rnti -> TxStates(AllSdus)] /\ aux_line \in [Rnti -> Seq(RlcPdus)]
      /\ grant \in [Rnti -> 0 .. (PDU_LEN - 1)]
  BY DEF SenderInv, SenderType
<1>2. /\ tx'[u] = d.t /\ written' = written
      /\ aux_line'[u] = IF d.len = 0 THEN line ELSE Append(line, d.pdu)
  BY <1>1 DEF Build
<1>3. t \in TxStates(AllSdus) /\ line \in Seq(RlcPdus) /\ grant[u] \in Int
  BY <1>1
<1>4. /\ Built(AllSdus, t, d)
      /\ d.len = 0 => d.t = t
      /\ d.len # 0 => FlattenSeq(d.pdu.segs) \o Unsent(d.t) = Unsent(t)
  <2> HIDE DEF t
  <2>1. d = build_data_pdu(t, grant[u])
    BY DEF t
  <2> HIDE DEF d
  <2> QED BY <1>3, <2>1, AllSdusHaveBytes, SnModType, BuildFacts, BuildHolds
<1> HIDE DEF d
<1>5. CASE d.len = 0
  BY <1>2, <1>4, <1>5 DEF StreamOf
<1>6. CASE d.len # 0
  <2>1. d.pdu \in RlcPdus /\ d.t \in TxStates(AllSdus)
    BY <1>4, <1>6 DEF Built, RlcPdus
  <2> HIDE DEF t, l, w, line
  <2> DEFINE f == FlattenSeq(d.pdu.segs)
             r == Unsent(d.t)
             l1 == BytesOf(Append(line, d.pdu))
  <2>2. l \in Seq(AllBytes) /\ f \in Seq(AllBytes) /\ l1 = l \o f
    BY <1>3, <2>1, LineAppend DEF l
  <2> HIDE DEF f, l1
  <2>3. l1 \in Seq(AllBytes)
    BY <2>2, ConcatProperties
  <2>4. r \in Seq(AllBytes)
        /\ (l1 \o d.t.tx_sdu) \o FlattenSeq(d.t.tx_sdu_queue) = l1 \o r
    BY <2>1, <2>3, UnsentFacts
  <2>5. (l \o t.tx_sdu) \o FlattenSeq(t.tx_sdu_queue) = l \o Unsent(t)
    BY <1>3, <2>2, UnsentFacts
  <2>6. f \o r = Unsent(t)
    BY <1>4, <1>6 DEF f
  <2> HIDE DEF r
  <2>7. l \in Seq(AllBytes) /\ f \in Seq(AllBytes) /\ r \in Seq(AllBytes)
    BY <2>2, <2>4
  <2>8. (l \o f) \o r = l \o (f \o r)
    BY ONLY <2>7, ConcatAssociative
  <2>9. (l1 \o d.t.tx_sdu) \o FlattenSeq(d.t.tx_sdu_queue) = WrittenBytes(w)
    BY <2>2, <2>4, <2>5, <2>6, <2>8 DEF StreamOf, l, t, w, line
  <2> QED BY <1>2, <1>6, <2>9 DEF StreamOf, l1, w
<1> QED BY <1>5, <1>6

LEMMA StreamRest ==
  ASSUME NEW v \in Rnti, StreamOf(v), aux_line'[v] = aux_line[v], tx'[v] = tx[v],
         written'[v] = written[v]
  PROVE  StreamOf(v)'
BY DEF StreamOf

LEMMA StreamStep == SenderInv /\ StreamIntact /\ [Next]_vars => StreamIntact'
<1> SUFFICES ASSUME SenderInv, StreamIntact, [Next]_vars, NEW v \in Rnti PROVE StreamOf(v)'
  BY DEF StreamIntact, StreamOf, WrittenBytes
<1>1. StreamOf(v)
  BY DEF StreamIntact, StreamOf, WrittenBytes
<1>2. /\ tx \in [Rnti -> TxStates(AllSdus)] /\ aux_line \in [Rnti -> Seq(RlcPdus)]
      /\ written \in [Rnti -> {s \in Seq(AllSdus) : Len(s) <= N_SDU}]
  BY DEF SenderInv, SenderType
<1>3. CASE UNCHANGED <<written, tx, aux_line>>
  BY <1>1, <1>3, StreamRest
<1>4. CASE Next
  <2>1. PICK u \in Rnti :
          \/ \E n \in SduLen : WriteSdu(u, n)
          \/ Poll(u) \/ Allocate(u) \/ Build(u) \/ Send(u)
          \/ \E a \in air[u] : Deliver(u, a[1], a[2])
          \/ UeThread(u)
    BY <1>4 DEF Next
  <2>2. ASSUME NEW n \in SduLen, WriteSdu(u, n) PROVE StreamOf(v)'
    <3>1. CASE v = u
      BY <1>1, <2>2, <3>1, StreamWrite
    <3>2. CASE v # u
      <4>1. aux_line'[v] = aux_line[v] /\ tx'[v] = tx[v] /\ written'[v] = written[v]
        BY <1>2, <2>2, <3>2 DEF WriteSdu
      <4> QED BY <1>1, <4>1, StreamRest
    <3> QED BY <3>1, <3>2
  <2>3. CASE Build(u)
    <3>1. CASE v = u
      BY <1>1, <2>3, <3>1, StreamBuild
    <3>2. CASE v # u
      <4>1. aux_line'[v] = aux_line[v] /\ tx'[v] = tx[v] /\ written'[v] = written[v]
        BY <1>2, <2>3, <3>2 DEF Build
      <4> QED BY <1>1, <4>1, StreamRest
    <3> QED BY <3>1, <3>2
  <2>4. CASE Poll(u) \/ Allocate(u) \/ Send(u)
    <3>1. UNCHANGED <<written, tx, aux_line>>
      BY <2>4 DEF Poll, Allocate, Send
    <3> QED BY <1>3, <3>1
  <2>5. ASSUME NEW a \in air[u], Deliver(u, a[1], a[2]) PROVE StreamOf(v)'
    <3>1. UNCHANGED <<written, tx, aux_line>>
      BY <2>5 DEF Deliver, txVars
    <3> QED BY <1>3, <3>1
  <2>6. CASE UeThread(u)
    <3>1. UNCHANGED <<written, tx, aux_line>>
      BY <2>6 DEF UeThread, WritePdu, Demuxed, StepTimer, TimerExpired, TimerOff, txVars
    <3> QED BY <1>3, <3>1
  <2> QED BY <2>1, <2>2, <2>3, <2>4, <2>5, <2>6
<1> QED BY <1>3, <1>4 DEF vars, txVars

\* The RLC PDUs that are built, the rest of the SDU that is cut and the SDUs
\* in the queue are the bytes the IP thread wrote, in order, each once, for
\* any grants and SDU lengths (build_data_pdu(), test/rlc_um.cc): what the UE
\* does not get was lost behind the multiplexer, or refused by set_sdu().
THEOREM StreamAlwaysIntact == Spec => []StreamIntact
<1>1. Init => StreamIntact
  BY StreamInit
<1>2. SenderInv /\ StreamIntact /\ [Next]_vars => StreamIntact'
  BY StreamStep
<1> QED BY <1>1, <1>2, SenderAlways, PTL DEF Spec

-----------------------------------------------------------------------------
(* Unpacking.                                                              *)

payloads(m) == parse_packet(subheaders(pdu_msg(m)))

\* What Unpacked does at a payload.
taken(m, found, q) ==
    LET p == pdu_msg(m)
        begins(j) == sum(SubSeq(p.sdus, 1, j - 1))
    IN IF \E j \in DOMAIN m : begins(j) = q.at
       THEN Append(found, m[CHOOSE j \in DOMAIN m : begins(j) = q.at])
       ELSE found

ClosedUnderTaken(D, N, m) ==
    \A n \in 1 .. N : \A y \in D : taken(m, y, payloads(m)[n]) \in D

\* f are the RLC PDUs found on the way.
UnpackedBy(f, N, m) ==
    /\ f[0] = <<>>
    /\ \A n \in 1 .. N : f[n] = taken(m, f[n - 1], payloads(m)[n])
    /\ f[N] = Unpacked(m)

LEMMA UnpackTrace ==
  ASSUME NEW m, NEW N \in Nat, DOMAIN payloads(m) = 1 .. N, NEW D, <<>> \in D,
         ClosedUnderTaken(D, N, m)
  PROVE  \E f \in [0 .. N -> D] : UnpackedBy(f, N, m)
<1> DEFINE s == payloads(m)
           G == [n \in 1 .. N |-> [y \in D |-> taken(m, y, s[n])]]
           base == <<>>
           Eq(h) == h = [t \in SUBSET (DOMAIN s) |->
                           IF t = {} THEN base ELSE taken(m, h[t \ {Max(t)}], s[Max(t)])]
           h == CHOOSE g : Eq(g)
<1>1. G \in [1 .. N -> [D -> D]] /\ base \in D
  BY DEF ClosedUnderTaken
<1>2. Unpacked(m) = h[DOMAIN s]
  BY DEF FoldLeft, MapThenFoldSet, Unpacked, taken, payloads
<1>3. Eq(h)
  <2>1. PICK g : IsSolution(N, D, base, G, g)
    <3> HIDE DEF G, Eq, h, base
    <3> QED BY <1>1, FoldSolution
  <2>2. ASSUME NEW t \in SUBSET (1 .. N), t # {}
        PROVE  g[t] = taken(m, g[t \ {Max(t)}], s[Max(t)])
    <3> HIDE DEF h, Eq
    <3> QED BY <2>1, <2>2 DEF IsSolution
  <2>3. Eq(g)
    <3> HIDE DEF G, h, base
    <3> QED BY <2>1, <2>2 DEF IsSolution
  <2> HIDE DEF Eq
  <2> QED BY <2>3
<1>4. h[{}] = base
  <2> HIDE DEF G, h, base
  <2> QED BY <1>3
<1>5. ASSUME NEW n \in 1 .. N PROVE h[1 .. n] = taken(m, h[1 .. (n - 1)], s[n])
  <2>1. Max(1 .. n) = n /\ (1 .. n) \ {n} = 1 .. (n - 1) /\ n \in 1 .. n
    BY GreatestOfInterval
  <2>2. 1 .. n \in SUBSET (DOMAIN s)
    OBVIOUS
  <2> HIDE DEF G, h, base
  <2> QED BY <1>3, <2>1, <2>2
<1>6. ASSUME NEW n \in 1 .. N, h[1 .. (n - 1)] \in D
      PROVE  h[1 .. n] = G[n][h[1 .. (n - 1)]]
  <2> HIDE DEF h, Eq
  <2> QED BY <1>5, <1>6
<1>7. \E f \in [0 .. N -> D] : IsTrace(N, base, G, f, h[1 .. N])
  <2> HIDE DEF G, h, Eq, base
  <2> QED BY <1>1, <1>4, <1>6, FoldTrace
<1>8. PICK f \in [0 .. N -> D] :
        f[0] = base /\ f[N] = h[1 .. N] /\ \A n \in 1 .. N : f[n] = G[n][f[n - 1]]
  <2> HIDE DEF G, h, Eq, base
  <2> QED BY <1>7 DEF IsTrace
<1>9. ASSUME NEW n \in 1 .. N PROVE f[n] = taken(m, f[n - 1], s[n])
  <2>1. f[n - 1] \in D
    OBVIOUS
  <2> HIDE DEF h, Eq
  <2> QED BY <1>8, <2>1
<1> HIDE DEF h, G
<1> QED BY <1>2, <1>8, <1>9 DEF UnpackedBy

\* No two payloads begin at the same byte.
LEMMA BeginsGrow ==
  ASSUME NEW s \in Lens, NEW i \in 1 .. Len(s), NEW j \in 1 .. Len(s),
         sum(SubSeq(s, 1, i - 1)) = sum(SubSeq(s, 1, j - 1))
  PROVE  i = j
<1> DEFINE N == Len(s)
           T(n) == sum(SubSeq(s, 1, n))
           P == {n \in 0 .. N : T(n) \in Int /\ \A h \in 0 .. (n - 1) : T(h) \in Int /\ T(h) < T(n)}
<1>1. /\ N \in Nat /\ s \in Seq(Int) /\ s \in Seq(Nat \ {0})
      /\ \A n \in 1 .. N : s[n] \in Nat \ {0}
  BY HeadTypes DEF Lens
<1>2. 0 \in P
  <2>1. SubSeq(s, 1, 0) = <<>>
    BY <1>1, SubSeqEmpty
  <2>2. T(0) = 0
    BY <2>1, SumEmpty DEF sum, Total
  <2>3. \A h \in 0 .. (0 - 1) : FALSE
    OBVIOUS
  <2> HIDE DEF T
  <2> QED BY <1>1, <2>2, <2>3
<1>3. ASSUME NEW n \in 0 .. (N - 1), n \in P PROVE n + 1 \in P
  <2>1. n + 1 \in 1 .. N /\ n + 1 \in 0 .. N /\ n \in Int
    BY <1>1
  <2>2. SubSeq(s, 1, n + 1) = Append(SubSeq(s, 1, n), s[n + 1])
    BY <1>1, LongerPrefix
  <2>3. SubSeq(s, 1, n) \in Seq(Int)
    <3>1. \A h \in 1 .. n : s[h] \in Int
      BY <1>1
    <3>2. 1 \in 1 .. Len(s) + 1 /\ n \in (1 - 1) .. Len(s)
      BY <1>1
    <3> QED BY <1>1, <3>1, <3>2, SubSeqProperties
  <2>4. s[n + 1] \in Nat \ {0} /\ s[n + 1] \in Int
    BY <1>1, <2>1
  <2>5. Total(Append(SubSeq(s, 1, n), s[n + 1])) = Total(SubSeq(s, 1, n)) + s[n + 1]
    BY <2>3, <2>4, SumAppend
  <2>6. T(n + 1) = T(n) + s[n + 1]
    BY <2>2, <2>5 DEF sum, Total
  <2> HIDE DEF T
  <2>7. T(n) \in Int /\ \A h \in 0 .. (n - 1) : T(h) \in Int /\ T(h) < T(n)
    BY <1>3
  <2>8. T(n + 1) \in Int /\ T(n) < T(n + 1)
    BY <2>4, <2>6, <2>7
  <2>9. \A h \in 0 .. ((n + 1) - 1) : T(h) \in Int /\ T(h) < T(n + 1)
    <3> SUFFICES ASSUME NEW h \in 0 .. ((n + 1) - 1) PROVE T(h) \in Int /\ T(h) < T(n + 1)
      OBVIOUS
    <3>1. h = n \/ h \in 0 .. (n - 1)
      BY <2>1
    <3> QED BY <2>7, <2>8, <3>1
  <2> QED BY <2>1, <2>8, <2>9
<1>4. 0 .. N \subseteq P
  <2> HIDE DEF P
  <2> QED BY <1>1, <1>2, <1>3, InductionTo
<1> DEFINE a == i - 1
           b == j - 1
<1>5. a \in 0 .. N /\ b \in 0 .. N
  OBVIOUS
<1>6. T(a) = T(b)
  OBVIOUS
<1> HIDE DEF T, a, b, N
<1>7. a = b
  <2>1. CASE a < b
    <3>1. a \in 0 .. (b - 1) /\ b \in P
      BY <1>4, <1>5, <2>1, SMTT(60)
    <3>2. T(a) \in Int /\ T(a) < T(b)
      BY <3>1
    <3> QED BY <1>6, <3>2
  <2>2. CASE b < a
    <3>1. b \in 0 .. (a - 1) /\ a \in P
      BY <1>4, <1>5, <2>2
    <3>2. T(b) \in Int /\ T(b) < T(a)
      BY <3>1
    <3> QED BY <1>6, <3>2
  <2> QED BY <1>5, <2>1, <2>2
<1> QED BY <1>7 DEF a, b

LEMMA UnpackedAsPacked ==
  ASSUME NEW m \in MacPdus
  PROVE  Unpacked(m) = m
<1> DEFINE s == Lengths(m)
           N == Len(m)
           D == Seq(RlcPdus)
<1>1. m \in D /\ N \in Nat /\ DOMAIN m = 1 .. N
  BY DEF MacPdus
<1>2. s \in Lens /\ Len(s) = N
  BY <1>1, LengthsFacts
<1>3. pdu_msg(m).sdus = s /\ payloads(m) = Payloads(s, N)
  BY <1>2, MacPduIsParsed DEF payloads
<1>4. DOMAIN payloads(m) = 1 .. N
      /\ \A n \in 1 .. N : payloads(m)[n].at = sum(SubSeq(s, 1, n - 1))
  BY <1>3 DEF Payloads
<1> HIDE DEF s
<1>5. ASSUME NEW n \in 1 .. N, NEW y
      PROVE  taken(m, y, payloads(m)[n]) = Append(y, m[n])
  <2> DEFINE begins(j) == sum(SubSeq(s, 1, j - 1))
             q == payloads(m)[n]
  <2>1. q.at = begins(n)
    BY <1>4
  <2>2. taken(m, y, q) = IF \E j \in DOMAIN m : begins(j) = q.at
                         THEN Append(y, m[CHOOSE j \in DOMAIN m : begins(j) = q.at])
                         ELSE y
    BY <1>3 DEF taken
  <2>3. \A j \in 1 .. N : begins(j) = begins(n) => j = n
    BY <1>2, BeginsGrow
  <2> HIDE DEF begins, q
  <2>4. (CHOOSE j \in DOMAIN m : begins(j) = q.at) = n
    BY <1>1, <2>1, <2>3
  <2> QED BY <1>1, <2>1, <2>2, <2>4 DEF q
<1> HIDE DEF N
<1>6. ClosedUnderTaken(D, N, m) /\ <<>> \in D
  <2>1. \A n \in 1 .. N : \A y \in D : Append(y, m[n]) \in D
    BY <1>1
  <2>2. <<>> \in D
    OBVIOUS
  <2> HIDE DEF D
  <2> QED BY <1>5, <2>1, <2>2 DEF ClosedUnderTaken
<1> HIDE DEF D
<1>7. PICK f \in [0 .. N -> D] : UnpackedBy(f, N, m)
  BY <1>1, <1>4, <1>6, UnpackTrace
<1>8. /\ f[0] = <<>> /\ f[N] = Unpacked(m)
      /\ \A n \in 1 .. N : f[n] = taken(m, f[n - 1], payloads(m)[n])
  BY <1>7 DEF UnpackedBy
<1> DEFINE P == {n \in 0 .. N : f[n] = SubSeq(m, 1, n)}
<1>9. 0 \in P
  <2>1. SubSeq(m, 1, 0) = <<>>
    BY <1>1, SubSeqEmpty DEF D
  <2>2. 0 \in 0 .. N
    BY <1>1
  <2>3. f[0] = SubSeq(m, 1, 0)
    BY <1>8, <2>1
  <2> QED BY <2>2, <2>3
<1>10. ASSUME NEW n \in 0 .. (N - 1), n \in P PROVE n + 1 \in P
  <2>1. n + 1 \in 1 .. N /\ n + 1 \in 0 .. N /\ (n + 1) - 1 = n
    BY <1>1
  <2>2. f[n + 1] = Append(SubSeq(m, 1, n), m[n + 1])
    BY <1>5, <1>8, <1>10, <2>1
  <2>3. SubSeq(m, 1, n + 1) = Append(SubSeq(m, 1, n), m[n + 1])
    BY <1>1, LongerPrefix DEF D, N
  <2> QED BY <2>1, <2>2, <2>3
<1>11. 0 .. N \subseteq P
  <2> HIDE DEF P
  <2> QED BY <1>1, <1>9, <1>10, InductionTo
<1>12. N \in P
  <2> HIDE DEF P
  <2> QED BY <1>1, <1>11
<1>13. SubSeq(m, 1, N) = m
  BY <1>1, SubSeqFull DEF D, N
<1> QED BY <1>8, <1>12, <1>13

-----------------------------------------------------------------------------
(* The receiver.                                                           *)

ReceiverType ==
    /\ rx \in AtRest(AllBytes) /\ rx.out = <<>>
    /\ upc \in [Rnti -> {"recv", "demux", "timer", "callback"}]
    /\ todo \in [Rnti -> Seq(RlcPdus)]
    /\ delivered \in Seq(Seq(AllBytes))

ReceiverInv == ReceiverType /\ NothingStranded

LEMMA SamePdus == RlcPdus \subseteq PdusOf(AllBytes)
BY DEF RlcPdus, Pdus, PdusOf, Nums, AllBytes

LEMMA FirstRest == rx_reset \in AtRest(AllBytes)
<1> DEFINE B == AllBytes
<1>1. 0 \in Nums /\ 0 \in 0 .. WINDOW
  BY DEF Nums
<1>2. <<>> \in Seq(B) /\ <<>> \in Seq(Seq(B))
  OBVIOUS
<1> HIDE DEF B
<1>3. /\ rx_reset \in RxStates(B) /\ rx_reset.vr_ur = 0 /\ rx_reset.vr_uh = 0
      /\ rx_reset.window = {}
  BY <1>1, <1>2 DEF rx_reset, RxStates
<1>4. Plus(0, 0) = 0
  BY <1>1, PlusZero
<1>5. rx_reset \in Resting(B, 0)
  BY <1>3, <1>4 DEF Resting, Spanning, Distinct, Span, InWindow
<1> QED BY <1>1, <1>5 DEF AtRest, B

LEMMA ReceiverInit == Init => ReceiverInv
<1> SUFFICES ASSUME Init PROVE ReceiverInv
  OBVIOUS
<1>1. /\ rx = rx_reset /\ upc = [u \in Rnti |-> "recv"] /\ todo = [u \in Rnti |-> <<>>]
      /\ delivered = <<>>
  BY DEF Init
<1>2. rx_reset.out = <<>> /\ rx_reset.window = {}
  BY DEF rx_reset
<1>3. <<>> \in Seq(RlcPdus) /\ <<>> \in Seq(Seq(AllBytes))
  OBVIOUS
<1>4. ReceiverType
  BY <1>1, <1>2, <1>3, FirstRest DEF ReceiverType
<1>5. NothingStranded
  BY <1>1, <1>2 DEF NothingStranded
<1> QED BY <1>4, <1>5 DEF ReceiverInv

\* The step of the receiver whose result is r.
LEMMA Updated ==
  ASSUME ReceiverType, NEW r \in AtRest(AllBytes), Update(r)
  PROVE  /\ rx' \in AtRest(AllBytes) /\ rx'.out = <<>>
         /\ rx'.window = r.window /\ rx'.running = r.running
         /\ delivered' \in Seq(Seq(AllBytes))
<1> DEFINE B == AllBytes
<1> HIDE DEF B
<1>1. r \in RxStates(B)
  BY DEF AtRest, Resting, Spanning, B
<1>2. rx' = [r EXCEPT !.out = <<>>] /\ delivered' \in {delivered, delivered \o r.out}
  BY DEF Update
<1>3. <<>> \in Seq(Seq(B))
  OBVIOUS
<1>4. /\ rx' \in RxStates(B) /\ rx'.vr_ur = r.vr_ur /\ rx'.vr_uh = r.vr_uh
      /\ rx'.window = r.window /\ rx'.out = <<>> /\ rx'.running = r.running
  BY <1>1, <1>2, <1>3 DEF RxStates
<1>5. rx' \in AtRest(B)
  BY <1>4, Restarted DEF B
<1>6. delivered' \in Seq(Seq(B))
  <2> DEFINE U == Seq(B)
             o == r.out
  <2>1. o \in Seq(U) /\ delivered \in Seq(U)
    BY <1>1 DEF RxStates, ReceiverType, B
  <2> HIDE DEF U, o
  <2>2. delivered \o o \in Seq(U)
    BY <2>1
  <2> QED BY <1>2, <2>1, <2>2 DEF U, o
<1> QED BY <1>4, <1>5, <1>6 DEF B

LEMMA ReceiverDeliver ==
  ASSUME SenderInv, ReceiverInv, NEW u \in Rnti, NEW a \in air[u], NEW m, m = a[2],
         Deliver(u, a[1], m)
  PROVE  ReceiverInv'
<1>1. ReceiverType /\ NothingStranded
  BY DEF ReceiverInv
<1>2. /\ upc[u] = "recv" /\ upc' = [upc EXCEPT ![u] = "demux"]
      /\ todo' = [todo EXCEPT ![u] = Unpacked(m)]
      /\ UNCHANGED <<rx, delivered>>
  BY DEF Deliver
<1>3. m \in MacPdus
  BY DEF SenderInv, AirType
<1>4. Unpacked(m) \in Seq(RlcPdus)
  <2>1. m \in Seq(RlcPdus)
    BY <1>3 DEF MacPdus
  <2> QED BY <1>3, <2>1, UnpackedAsPacked
<1>5. ReceiverType'
  BY <1>1, <1>2, <1>4 DEF ReceiverType
<1>6. \A v \in Rnti : upc[v] = "callback" => upc'[v] = "callback"
  BY <1>1, <1>2 DEF ReceiverType
<1>7. NothingStranded'
  BY <1>1, <1>2, <1>6 DEF NothingStranded
<1> QED BY <1>5, <1>7 DEF ReceiverInv

LEMMA ReceiverWrite ==
  ASSUME ReceiverInv, NEW u \in Rnti, WritePdu(u)
  PROVE  ReceiverInv'
<1> DEFINE p == Head(todo[u])
           r == handle_data_pdu(rx, p)
<1>1. ReceiverType /\ NothingStranded
  BY DEF ReceiverInv
<1>2. /\ todo[u] # <<>> /\ Update(r) /\ todo' = [todo EXCEPT ![u] = Tail(@)] /\ upc' = upc
  BY DEF WritePdu
<1>3. p \in PdusOf(AllBytes) /\ Tail(todo[u]) \in Seq(RlcPdus)
  <2> DEFINE q == todo[u]
  <2>1. q \in Seq(RlcPdus) /\ q # <<>>
    BY <1>1, <1>2 DEF ReceiverType
  <2> HIDE DEF q
  <2>2. Head(q) \in RlcPdus /\ Tail(q) \in Seq(RlcPdus)
    BY <2>1
  <2> QED BY <2>2, SamePdus DEF q
<1>4. rx \in AtRest(AllBytes)
  BY <1>1 DEF ReceiverType
<1> HIDE DEF p
<1>5. /\ r \in AtRest(AllBytes)
      /\ r = rx \/ (r.window # {} => r.running)
  BY <1>3, <1>4, HandleStep
<1> HIDE DEF r
<1>6. /\ rx' \in AtRest(AllBytes) /\ rx'.out = <<>>
      /\ rx'.window = r.window /\ rx'.running = r.running
      /\ delivered' \in Seq(Seq(AllBytes))
  BY <1>1, <1>2, <1>5, Updated
<1>7. ReceiverType'
  BY <1>1, <1>2, <1>3, <1>6 DEF ReceiverType
<1>8. NothingStranded'
  BY <1>1, <1>2, <1>5, <1>6 DEF NothingStranded
<1> QED BY <1>7, <1>8 DEF ReceiverInv

LEMMA ReceiverStep ==
  ASSUME ReceiverInv, NEW u \in Rnti, StepTimer(u)
  PROVE  ReceiverInv'
<1>1. ReceiverType /\ NothingStranded
  BY DEF ReceiverInv
<1>2. /\ rx' = [rx EXCEPT !.running = FALSE] /\ upc' = [upc EXCEPT ![u] = "callback"]
      /\ UNCHANGED <<todo, delivered>>
  BY DEF StepTimer
<1> DEFINE B == AllBytes
<1>3. rx \in AtRest(B) /\ rx \in RxStates(B) /\ rx.out = <<>>
  BY <1>1 DEF ReceiverType, AtRest, Resting, Spanning
<1> HIDE DEF B
<1>4. /\ rx' \in RxStates(B) /\ rx'.vr_ur = rx.vr_ur /\ rx'.vr_uh = rx.vr_uh
      /\ rx'.window = rx.window /\ rx'.out = <<>>
  BY <1>2, <1>3 DEF RxStates
<1>5. rx' \in AtRest(B)
  BY <1>3, <1>4, Restarted
<1>6. ReceiverType'
  BY <1>1, <1>2, <1>4, <1>5 DEF ReceiverType, B
<1>7. upc'[u] = "callback"
  BY <1>1, <1>2 DEF ReceiverType
<1>8. NothingStranded'
  BY <1>7 DEF NothingStranded
<1> QED BY <1>6, <1>8 DEF ReceiverInv

LEMMA ReceiverExpired ==
  ASSUME ReceiverInv, NEW u \in Rnti, TimerExpired(u)
  PROVE  ReceiverInv'
<1> DEFINE r == timer_expired(rx)
<1>1. ReceiverType /\ NothingStranded
  BY DEF ReceiverInv
<1>2. Update(r) /\ upc' = [upc EXCEPT ![u] = "timer"] /\ todo' = todo
  BY DEF TimerExpired
<1>3. rx \in AtRest(AllBytes)
  BY <1>1 DEF ReceiverType
<1>4. r \in AtRest(AllBytes) /\ (r.window # {} => r.running)
  BY <1>3, ExpireStep
<1> HIDE DEF r
<1>5. /\ rx' \in AtRest(AllBytes) /\ rx'.out = <<>>
      /\ rx'.window = r.window /\ rx'.running = r.running
      /\ delivered' \in Seq(Seq(AllBytes))
  BY <1>1, <1>2, <1>4, Updated
<1>6. ReceiverType'
  BY <1>1, <1>2, <1>5 DEF ReceiverType
<1>7. NothingStranded'
  BY <1>4, <1>5 DEF NothingStranded
<1> QED BY <1>6, <1>7 DEF ReceiverInv

\* The thread goes on to its next loop.
LEMMA ReceiverGoesOn ==
  ASSUME ReceiverInv, NEW u \in Rnti, Demuxed(u) \/ TimerOff(u)
  PROVE  ReceiverInv'
<1>1. ReceiverType /\ NothingStranded
  BY DEF ReceiverInv
<1>2. /\ upc[u] # "callback" /\ UNCHANGED <<rx, todo, delivered>>
      /\ \/ upc' = [upc EXCEPT ![u] = "timer"]
         \/ upc' = [upc EXCEPT ![u] = "recv"]
  BY DEF Demuxed, TimerOff
<1>3. ReceiverType'
  BY <1>1, <1>2 DEF ReceiverType
<1>4. \A v \in Rnti : upc[v] = "callback" => upc'[v] = "callback"
  BY <1>1, <1>2 DEF ReceiverType
<1>5. NothingStranded'
  BY <1>1, <1>2, <1>4 DEF NothingStranded
<1> QED BY <1>3, <1>5 DEF ReceiverInv

LEMMA ReceiverRest ==
  ASSUME ReceiverInv, UNCHANGED ueVars
  PROVE  ReceiverInv'
BY DEF ReceiverInv, ReceiverType, NothingStranded, ueVars

LEMMA ReceiverSteps == SenderInv /\ ReceiverInv /\ [Next]_vars => ReceiverInv'
<1> SUFFICES ASSUME SenderInv, ReceiverInv, [Next]_vars PROVE ReceiverInv'
  OBVIOUS
<1>1. CASE UNCHANGED vars
  BY <1>1, ReceiverRest DEF vars
<1>2. CASE Next
  <2>1. PICK u \in Rnti :
          \/ \E n \in SduLen : WriteSdu(u, n)
          \/ Poll(u) \/ Allocate(u) \/ Build(u) \/ Send(u)
          \/ \E a \in air[u] : Deliver(u, a[1], a[2])
          \/ UeThread(u)
    BY <1>2 DEF Next
  <2>2. CASE \/ \E n \in SduLen : WriteSdu(u, n)
             \/ Poll(u) \/ Allocate(u) \/ Build(u) \/ Send(u)
    <3>1. UNCHANGED ueVars
      BY <2>2 DEF WriteSdu, Poll, Allocate, Build, Send
    <3> QED BY <3>1, ReceiverRest
  <2>3. ASSUME NEW a \in air[u], Deliver(u, a[1], a[2]) PROVE ReceiverInv'
    BY <2>3, ReceiverDeliver
  <2>4. CASE UeThread(u)
    BY <2>4, ReceiverWrite, ReceiverStep, ReceiverExpired, ReceiverGoesOn DEF UeThread
  <2> QED BY <2>1, <2>2, <2>3, <2>4
<1> QED BY <1>1, <1>2

LEMMA ReceiverAlways == Spec => []ReceiverInv
<1>1. Init => ReceiverInv
  BY ReceiverInit
<1>2. SenderInv /\ ReceiverInv /\ [Next]_vars => ReceiverInv'
  BY ReceiverSteps
<1> QED BY <1>1, <1>2, SenderAlways, PTL DEF Spec

LEMMA TypeFollows == SenderInv /\ ReceiverInv => RlcTypeOK
<1> SUFFICES ASSUME SenderInv, ReceiverInv PROVE RlcTypeOK
  OBVIOUS
<1>1. SenderType /\ QueuesBounded /\ AirType /\ ReceiverType
  BY DEF SenderInv, ReceiverInv
<1>2. \A u \in Rnti : tx[u].vt_us \in Sn /\ n_unread(tx[u]) <= QUEUE_CAP
  <2>1. \A t \in TxStates(AllSdus) : t.vt_us \in Sn
    BY DEF TxStates, Sn
  <2> QED BY <1>1, <2>1 DEF SenderType, QueuesBounded
<1>3. rx \in RxStates(AllBytes) /\ rx.out = <<>>
  BY <1>1 DEF ReceiverType, AtRest, Resting, Spanning
<1>4. /\ {rx.vr_ur, rx.vr_ux, rx.vr_uh, rx.vr_ur_in_rx_sdu} \subseteq Sn
      /\ {rx.pdu_lost, rx.running} \subseteq BOOLEAN
  BY <1>3 DEF RxStates, Nums, Sn
<1>5. \A u \in Rnti : Len(written[u]) \in 0 .. N_SDU
  BY <1>1 DEF SenderType
<1> QED BY <1>1, <1>2, <1>3, <1>4, <1>5 DEF RlcTypeOK, SenderType, AirType, ReceiverType

\* Type correctness of the RLC model: the queues keep their bound and every
\* sequence number that of SN_MOD (rlc_um.cc of both programs).
THEOREM RlcTypeCorrect == Spec => []RlcTypeOK
<1>1. SenderInv /\ ReceiverInv => RlcTypeOK
  BY TypeFollows
<1> QED BY <1>1, SenderAlways, ReceiverAlways, PTL

\* No PDU stays in the reordering window without the timer that gives up what
\* it waits for, for any number of RNTIs and any window: at rest vr_ur is at
\* most WINDOW behind vr_uh, with all PDUs between them, and arm()'s test
\* (handle_data_pdu() and timer_expired() of the UE's rlc_um.cc) is false only
\* when vr_ur has reached vr_uh.
THEOREM NothingEverStranded == Spec => []NothingStranded
<1>1. ReceiverInv => NothingStranded
  BY DEF ReceiverInv
<1> QED BY <1>1, ReceiverAlways, PTL

=============================================================================
