-------------------------- MODULE RlcJourneyProofs --------------------------
(***************************************************************************)
(* What the UE writes to its tun device are SDUs of the eNB, whole and in  *)
(* order, for as long as what HARQ delivers fits the window, for any       *)
(* lengths, any grants, any window and any loss.                           *)
(*                                                                         *)
(* First the stream: the transmitter takes the SDUs up where it left them, *)
(* so that a PDU carries them from one place to the next.  Then the        *)
(* receiver along the stream: vr_ur is the number of one of its PDUs, and  *)
(* what is in reassembly, unless it is to be dropped, is the beginning of  *)
(* the SDU that PDU goes on with.  Last the whole: a MAC PDU that fits is  *)
(* made of old PDUs, or of the next ones within the window; and once a MAC *)
(* PDU does not fit nothing is asked of the receiver any more.             *)
(***************************************************************************)
EXTENDS RlcUmProofs

-----------------------------------------------------------------------------
(* The stream of SDUs.  z are the SDUs in the order written.               *)

\* The SDUs from the v-th on.
Onward(z, v) == [j \in 1 .. (Len(z) + 1) - v |-> Bytes(z[v + (j - 1)])]

\* Where the k-th segment of a PDU begins if n bytes of its first SDU went
\* out before.
From(k, n) == IF k = 1 THEN n + 1 ELSE 1

\* The SDU w is next and n bytes of it are sent.
Line(z, w, n, t) ==
    \/ /\ t.tx_sdu = <<>> /\ n = 0 /\ w <= Len(z) + 1
       /\ t.tx_sdu_queue = Onward(z, w)
    \/ /\ w <= Len(z) /\ n < z[w][2]
       /\ t.tx_sdu = Piece(z[w], n + 1, z[w][2])
       /\ t.tx_sdu_queue = Onward(z, w + 1)

\* The first m segments of segs are the SDUs w, w + 1, ... to their ends.
Through(z, w, n, segs, m) ==
    \A k \in 1 .. m :
      segs[k] = Piece(z[w + (k - 1)], From(k, n), z[w + (k - 1)][2])

\* What is in last and tx_sdu is the SDU v, cut after byte e.
CutAt(z, v, from, e, b) ==
    /\ b.last = Piece(z[v], from, e)
    /\ b.t.tx_sdu = Piece(z[v], e + 1, z[v][2])
    /\ e < z[v][2] => b.pdu_space <= packed_length(Len(b.segs))

\* The PDU under construction took the stream up from SDU w, byte n.
Drawn(z, w, n, b) ==
    /\ Through(z, w, n, b.segs, Len(b.segs))
    /\ \/ /\ b.segs = <<>> /\ b.last = <<>> /\ b.t.tx_sdu = <<>> /\ n = 0
          /\ w <= Len(z) + 1 /\ b.t.tx_sdu_queue = Onward(z, w)
       \/ LET v == w + Len(b.segs)
              from == From(Len(b.segs) + 1, n)
          IN /\ v <= Len(z) /\ from <= z[v][2]
             /\ b.t.tx_sdu_queue = Onward(z, v + 1)
             /\ \E e \in (from - 1) .. z[v][2] : CutAt(z, v, from, e, b)

\* What is left to read begins with the v-th SDU, unless there is none.
LEMMA OnwardFacts ==
  ASSUME NEW S, Sdus(S), NEW z \in Seq(S), NEW v \in 1 .. Len(z) + 1
  PROVE  /\ Onward(z, v) \in Seq(Wholes(S)) /\ Len(Onward(z, v)) = (Len(z) + 1) - v
         /\ v <= Len(z) => /\ Onward(z, v) # <<>>
                           /\ Head(Onward(z, v)) = Bytes(z[v])
                           /\ Tail(Onward(z, v)) = Onward(z, v + 1)
         /\ v = Len(z) + 1 => Onward(z, v) = <<>>
<1> DEFINE l == (Len(z) + 1) - v
           o == Onward(z, v)
<1>1. Len(z) \in Nat /\ v \in Nat \ {0} /\ l \in Nat /\ v <= Len(z) + 1
  OBVIOUS
<1>2. o = [j \in 1 .. l |-> Bytes(z[v + (j - 1)])]
  BY DEF Onward
<1>3. ASSUME NEW j \in 1 .. l PROVE Bytes(z[v + (j - 1)]) \in Wholes(S)
  <2>1. v + (j - 1) \in 1 .. Len(z)
    BY <1>1
  <2>2. z[v + (j - 1)] \in S
    BY <2>1
  <2> QED BY <2>2 DEF Wholes
<1> HIDE DEF o, l
<1>4. o \in Seq(Wholes(S)) /\ Len(o) = l
  BY <1>1, <1>2, <1>3
<1>5. ASSUME v <= Len(z)
      PROVE  o # <<>> /\ Head(o) = Bytes(z[v]) /\ Tail(o) = Onward(z, v + 1)
  <2>1. l \in Nat \ {0} /\ 1 \in 1 .. l /\ v + (1 - 1) = v /\ l - 1 = (Len(z) + 1) - (v + 1)
    BY <1>1, <1>5 DEF l
  <2>2. o # <<>> /\ Head(o) = o[1] /\ Tail(o) = [j \in 1 .. (l - 1) |-> o[j + 1]]
    BY <1>1, <1>2, <2>1, SMTT(60)
  <2>3. o[1] = Bytes(z[v])
    BY <1>2, <2>1
  <2>4. ASSUME NEW j \in 1 .. (l - 1) PROVE o[j + 1] = Bytes(z[(v + 1) + (j - 1)])
    <3>1. j + 1 \in 1 .. l /\ v + ((j + 1) - 1) = (v + 1) + (j - 1)
      BY <1>1, <2>1
    <3> QED BY <1>2, <3>1
  <2>5. Onward(z, v + 1) = [j \in 1 .. (l - 1) |-> Bytes(z[(v + 1) + (j - 1)])]
    BY <2>1 DEF Onward
  <2> QED BY <2>2, <2>3, <2>4, <2>5
<1>6. v = Len(z) + 1 => o = <<>>
  BY <1>1, <1>4 DEF l
<1> QED BY <1>4, <1>5, <1>6 DEF o, l

\* Where an SDU that moves into the PDU is cut.
LEMMA MoveCut ==
  ASSUME NEW S, Sdus(S), NEW sn, NEW q \in Int, NEW b \in Builders(S, sn, q),
         NEW s \in S, NEW i \in 1 .. s[2]
  PROVE  LET x == Move(b, Piece(s, i, s[2])) IN
           /\ x.segs = b.segs /\ x.t.tx_sdu_queue = b.t.tx_sdu_queue
           /\ \E e \in (i - 1) .. s[2] :
                /\ x.last = Piece(s, i, e) /\ x.t.tx_sdu = Piece(s, e + 1, s[2])
                /\ e < s[2] => x.pdu_space <= packed_length(Len(b.segs))
<1> DEFINE sdu == Piece(s, i, s[2])
           li == packed_length(Len(b.segs))
           room == b.pdu_space - li
           n == to_move(room, sdu)
           m == Move(b, sdu)
           l == (s[2] - i) + 1
<1>2. /\ s[2] \in Nat \ {0} /\ i \in Nat \ {0} /\ i <= s[2] + 1 /\ i <= s[2]
      /\ l \in Nat \ {0}
  BY DEF Sdus
<1>3. /\ b.segs \in Seq(Seq(S \X Nat)) /\ b.pdu_space \in Int
      /\ b.t \in TxRecords(S, sn, q) /\ Len(b.segs) \in Nat
  BY DEF Builders
<1>4. li \in Nat /\ room \in Int
  <2>1. li \in Nat
    BY <1>3, PackedLength
  <2> HIDE DEF li
  <2> QED BY <1>3, <2>1
<1>5. Len(sdu) = l
  <2>1. IsPiece(Piece(s, i, s[2]), S, s, i, (s[2] - i) + 1)
    BY <1>2, PieceFacts
  <2> QED BY <2>1 DEF IsPiece
<1>6. /\ n \in 0 .. l
      /\ n = l \/ n = room
  <2> HIDE DEF room, l, sdu
  <2> QED BY <1>2, <1>4, <1>5 DEF to_move
<1> DEFINE last == SubSeq(sdu, 1, n)
           rest == SubSeq(sdu, n + 1, Len(sdu))
           e == i + (n - 1)
<1>7. last = Piece(s, i, e) /\ rest = Piece(s, e + 1, s[2])
  <2> DEFINE y == s[2]
  <2>1. /\ n \in 0 .. (y - i) + 1 /\ y \in Nat /\ i \in Nat \ {0} /\ i <= y + 1
        /\ e + 1 = i + n
    BY <1>2, <1>6
  <2> HIDE DEF n, y, room, li, m, l
  <2>2. /\ SubSeq(Piece(s, i, y), 1, n) = Piece(s, i, i + (n - 1))
        /\ SubSeq(Piece(s, i, y), n + 1, Len(Piece(s, i, y))) = Piece(s, i + n, y)
    BY ONLY <2>1, PieceCut, ZenonT(150)
  <2> QED BY <2>1, <2>2 DEF y
<1>8. /\ m = [b EXCEPT !.last = last, !.pdu_space = b.pdu_space - n, !.t.tx_sdu = rest]
  BY DEF Move
<1>9. e \in (i - 1) .. s[2] /\ (e < s[2] => n = room)
  <2> HIDE DEF n, room
  <2> QED BY <1>2, <1>6
<1> HIDE DEF m, n, room, li, l, last, rest, e
<1>11. /\ m.segs = b.segs /\ m.last = last /\ m.pdu_space = b.pdu_space - n
       /\ m.t = [b.t EXCEPT !.tx_sdu = rest]
  BY <1>8 DEF Builders
<1>12. m.t.tx_sdu = rest /\ m.t.tx_sdu_queue = b.t.tx_sdu_queue
  BY <1>3, <1>11 DEF TxRecords
<1>13. e < s[2] => m.pdu_space <= li
  BY <1>3, <1>4, <1>9, <1>11 DEF room
<1> QED BY <1>7, <1>9, <1>11, <1>12, <1>13 DEF m, li

\* Taking one more SDU from the queue goes on along the stream.
LEMMA DrawnMore ==
  ASSUME NEW S, Sdus(S), NEW sn, NEW q \in Int, NEW aligned \in BOOLEAN,
         NEW b \in Building(S, sn, q, aligned), NEW unused,
         NEW z \in Seq(S), NEW w \in Nat \ {0}, NEW n \in Nat, Drawn(z, w, n, b)
  PROVE  Drawn(z, w, n, PullIfRoom(b, unused))
<1> DEFINE m == Len(b.segs)
           go == b.pdu_space > packed_length(m) /\ n_unread(b.t) > 0
           queue == b.t.tx_sdu_queue
           segs == IF b.last = <<>> THEN b.segs ELSE Append(b.segs, b.last)
           c == [b EXCEPT !.segs = segs, !.t.tx_sdu_queue = Tail(queue)]
           v == w + m
           from == From(m + 1, n)
<1>1. /\ b \in Builders(S, sn, q)
      /\ b.segs \in Seq(Seq(S \X Nat)) /\ b.last \in Seq(S \X Nat) /\ b.pdu_space \in Int
      /\ b.t \in TxRecords(S, sn, q) /\ m \in Nat
      /\ queue \in Seq(Wholes(S)) /\ Len(queue) <= q /\ b.t.tx_sdu \in Seq(S \X Nat)
  BY DEF Building, Builders, TxRecords
<1>2. Len(z) \in Nat /\ v \in Nat \ {0} /\ packed_length(m) \in Int /\ from \in Nat \ {0}
  <2>1. packed_length(m) \in Int
    <3>1. m \in Nat
      BY <1>1
    <3> HIDE DEF m
    <3> QED BY <3>1, PackedLength
  <2>2. from \in Nat \ {0}
    BY <1>1 DEF From
  <2>3. Len(z) \in Nat
    OBVIOUS
  <2> HIDE DEF m, from
  <2> QED BY <1>1, <2>1, <2>2, <2>3
<1>3. CASE ~go
  BY <1>3 DEF PullIfRoom
<1>4. CASE go
  <2>1. PullIfRoom(b, unused) = Move(c, Head(queue))
    BY <1>4 DEF PullIfRoom, Pull
  <2>2. ~(b.pdu_space <= packed_length(m)) /\ queue # <<>>
    <3>1. n_unread(b.t) = Len(queue)
      BY DEF n_unread
    <3> HIDE DEF queue, m
    <3> QED BY <1>1, <1>2, <1>4, <3>1
  \* The next SDU is y, the segments before it are complete.
  <2>3. \E y \in 1 .. Len(z) :
          /\ queue = Onward(z, y) /\ y = w + Len(segs)
          /\ Through(z, w, n, segs, Len(segs)) /\ segs \in Seq(Seq(S \X Nat))
          /\ segs = <<>> => n = 0
    <3>1. CASE b.segs = <<>> /\ b.last = <<>> /\ n = 0 /\ w <= Len(z) + 1 /\ queue = Onward(z, w)
      <4>1. w # Len(z) + 1
        BY <2>2, <3>1, OnwardFacts
      <4>2. w \in 1 .. Len(z) /\ segs = b.segs /\ m = 0
        BY <1>2, <3>1, <4>1
      <4> QED BY <1>1, <3>1, <4>2 DEF Drawn
    <3>2. CASE /\ v <= Len(z) /\ from <= z[v][2] /\ queue = Onward(z, v + 1)
               /\ \E e \in (from - 1) .. z[v][2] : CutAt(z, v, from, e, b)
      <4>1. PICK e \in (from - 1) .. z[v][2] : CutAt(z, v, from, e, b)
        BY <3>2
      <4>2. z[v] \in S /\ z[v][2] \in Nat
        <5>1. v \in 1 .. Len(z)
          BY <1>2, <3>2
        <5> QED BY <5>1 DEF Sdus
      <4>3. e = z[v][2] /\ b.last = Piece(z[v], from, z[v][2])
        BY <2>2, <4>1, <4>2 DEF CutAt
      <4>4. b.last # <<>>
        <5> DEFINE s == z[v]
        <5>1. s \in S /\ s[2] \in Nat /\ from <= s[2] + 1 /\ from # s[2] + 1
          BY <1>2, <3>2, <4>2, SMTT(60)
        <5> HIDE DEF s, from
        <5>2. Piece(s, from, s[2]) # <<>>
          BY <1>2, <5>1, PieceFacts
        <5> QED BY <4>3, <5>2 DEF s
      <4> DEFINE a == Append(b.segs, b.last)
      <4>5. /\ segs = a /\ a \in Seq(Seq(S \X Nat)) /\ Len(a) = m + 1 /\ a[m + 1] = b.last
            /\ \A i \in 1 .. m : a[i] = b.segs[i]
        BY <1>1, <4>4
      <4> HIDE DEF a, segs
      <4>6. ASSUME NEW k \in 1 .. m + 1
            PROVE  a[k] = Piece(z[w + (k - 1)], From(k, n), z[w + (k - 1)][2])
        <5>1. CASE k = m + 1
          <6>1. w + (k - 1) = v /\ From(k, n) = from
            BY <1>1, <5>1
          <6> HIDE DEF v, from
          <6> QED BY <4>3, <4>5, <5>1, <6>1
        <5>2. CASE k # m + 1
          <6>1. k \in 1 .. m
            BY <1>1, <5>2
          <6> QED BY <4>5, <6>1 DEF Drawn, Through
        <5> QED BY <5>1, <5>2
      <4>7. v + 1 \in 1 .. Len(z)
        <5>1. v + 1 # Len(z) + 1
          <6>1. v + 1 \in 1 .. Len(z) + 1
            BY <1>2, <3>2
          <6> HIDE DEF queue, v
          <6> QED BY <2>2, <3>2, <6>1, OnwardFacts
        <5> QED BY <1>2, <3>2, <5>1, SMTT(60)
      <4>8. v + 1 = w + Len(segs) /\ segs # <<>>
        <5>1. Len(segs) = m + 1 /\ segs \in Seq(Seq(S \X Nat))
          BY <4>5
        <5> HIDE DEF m
        <5>2. segs # <<>>
          BY <1>1, <5>1
        <5> QED BY <1>1, <5>1, <5>2
      <4>9. Through(z, w, n, segs, Len(segs))
        BY <4>5, <4>6 DEF Through
      <4> QED BY <3>2, <4>5, <4>7, <4>8, <4>9
    <3> QED BY <3>1, <3>2 DEF Drawn
  <2>4. PICK y \in 1 .. Len(z) :
          /\ queue = Onward(z, y) /\ y = w + Len(segs)
          /\ Through(z, w, n, segs, Len(segs)) /\ segs \in Seq(Seq(S \X Nat))
          /\ segs = <<>> => n = 0
    BY <2>3
  <2> DEFINE s == z[y]
             l == Len(segs)
  <2>5. s \in S /\ s[2] \in Nat \ {0} /\ 1 \in 1 .. s[2] /\ y \in 1 .. Len(z) + 1 /\ y \in Nat \ {0}
    BY <1>2 DEF Sdus
  <2>6. Head(queue) = Piece(s, 1, s[2]) /\ Tail(queue) = Onward(z, y + 1)
    <3>1. Head(queue) = Bytes(s) /\ Tail(queue) = Onward(z, y + 1)
      <4>1. y <= Len(z) /\ queue = Onward(z, y)
        BY <1>2, <2>4
      <4> HIDE DEF queue
      <4> QED BY <2>5, <4>1, OnwardFacts
    <3> HIDE DEF s, queue
    <3>2. Bytes(s) = Piece(s, 1, s[2])
      BY <2>5, WholePiece
    <3> QED BY <3>1, <3>2
  <2>7. Tail(queue) \in Seq(Wholes(S)) /\ Len(Tail(queue)) <= q
    <3> HIDE DEF queue
    <3> QED BY <1>1, <2>2
  <2>8. From(l + 1, n) = 1 /\ l \in Nat
    <3>1. l \in Nat /\ (l = 0 <=> segs = <<>>)
      <4> HIDE DEF segs
      <4> QED BY <2>4
    <3> QED BY <2>4, <3>1 DEF From
  <2> HIDE DEF segs
  <2>9. /\ c.segs = segs /\ c.last = b.last /\ c.pdu_space = b.pdu_space
        /\ c.t = [b.t EXCEPT !.tx_sdu_queue = Tail(queue)]
        /\ c \in [segs : {segs}, last : {b.last}, pdu_space : {b.pdu_space},
                  t : {[b.t EXCEPT !.tx_sdu_queue = Tail(queue)]}]
    BY <1>1 DEF Builders
  <2>10. c.t \in TxRecords(S, sn, q) /\ c.t.tx_sdu_queue = Tail(queue)
    <3> DEFINE rest == Tail(queue)
    <3>1. c.t = [b.t EXCEPT !.tx_sdu_queue = rest]
      BY <2>9
    <3> HIDE DEF rest, c
    <3> QED BY <1>1, <2>7, <3>1 DEF TxRecords, rest
  <2> HIDE DEF c
  <2>11. c \in Builders(S, sn, q)
    BY <1>1, <2>4, <2>9, <2>10 DEF Builders
  <2> DEFINE x == Move(c, Piece(s, 1, s[2]))
  <2>12. /\ x.segs = segs /\ x.t.tx_sdu_queue = Onward(z, y + 1)
         /\ \E e \in (1 - 1) .. s[2] :
              /\ x.last = Piece(s, 1, e) /\ x.t.tx_sdu = Piece(s, e + 1, s[2])
              /\ e < s[2] => x.pdu_space <= packed_length(Len(segs))
    <3>1. c.t.tx_sdu_queue = Onward(z, y + 1) /\ c.segs = segs
      BY <2>6, <2>9, <2>10
    <3> HIDE DEF s, queue
    <3> QED BY <2>5, <2>11, <3>1, MoveCut, SMTT(60)
  <2>13. PullIfRoom(b, unused) = x
    BY <2>1, <2>6
  <2> HIDE DEF x
  <2>14. \E e \in (1 - 1) .. s[2] : CutAt(z, y, 1, e, x)
    BY <2>12 DEF CutAt
  <2>15. y <= Len(z) /\ 1 <= z[y][2]
    BY <2>5
  <2> QED BY <2>4, <2>8, <2>12, <2>13, <2>14, <2>15 DEF Drawn
<1> QED BY <1>3, <1>4

\* So does the loop that takes SDUs as long as there is room.
LEMMA FillDraws ==
  ASSUME NEW S, Sdus(S), NEW t \in TxStates(S), NEW nof_bytes \in Int,
         NEW z \in Seq(S), NEW w \in Nat \ {0}, NEW n \in Nat, Line(z, w, n, t)
  PROVE  Drawn(z, w, n, Fill(t, nof_bytes))
<1> DEFINE queue == t.tx_sdu_queue
           N == Len(queue)
           al == t.tx_sdu = <<>>
           b == [segs |-> <<>>, last |-> <<>>, pdu_space |-> nof_bytes, t |-> t]
           b0 == IF t.tx_sdu = <<>> THEN b ELSE Move(b, t.tx_sdu)
           D == {y \in Building(S, t.vt_us, N, al) : Drawn(z, w, n, y)}
<1>1. /\ queue \in Seq(Wholes(S)) /\ t.tx_sdu \in Seq(S \X Nat)
      /\ t.tx_sdu # <<>> => IsEnd(S, t.tx_sdu, FALSE)
      /\ t \in [vt_us : {t.vt_us}, tx_sdu : Seq(S \X Nat), tx_sdu_queue : Seq(Wholes(S))]
  <2>1. /\ t \in [vt_us : 0 .. (SN_MOD - 1), tx_sdu : Seq(S \X Nat),
                  tx_sdu_queue : Seq(Wholes(S))]
        /\ t.tx_sdu # <<>> => IsEnd(S, t.tx_sdu, FALSE)
    BY DEF TxStates
  <2> QED BY <2>1
<1>2. N \in Nat /\ DOMAIN queue = 1 .. N /\ al \in BOOLEAN
  <2> HIDE DEF queue
  <2> QED BY <1>1
<1>3. t \in TxRecords(S, t.vt_us, N)
  BY <1>1, <1>2 DEF TxRecords
<1>4. b \in Builders(S, t.vt_us, N) /\ b.segs = <<>> /\ b.last = <<>> /\ b.t = t
      /\ b.pdu_space = nof_bytes
  <2>1. <<>> \in Seq(Seq(S \X Nat)) /\ <<>> \in Seq(S \X Nat)
    OBVIOUS
  <2> QED BY <1>3, <2>1 DEF Builders
<1> HIDE DEF b, N
<1>5. Complete(S, b.segs, al) /\ Through(z, w, n, b.segs, Len(b.segs)) /\ Len(b.segs) = 0
  <2>1. 1 .. Len(b.segs) = {} /\ Len(b.segs) = 0
    BY <1>4
  <2> QED BY <2>1 DEF Complete, Through
<1>6. b0 \in D
  <2>1. CASE t.tx_sdu = <<>>
    <3>1. b0 = b
      BY <2>1
    <3>2. LastOf(S, b, al)
      BY <1>4, <2>1 DEF LastOf
    <3>3. b \in Building(S, t.vt_us, N, al)
      BY <1>4, <1>5, <3>2 DEF Building
    <3>4. n = 0 /\ w <= Len(z) + 1 /\ t.tx_sdu_queue = Onward(z, w)
      <4>1. CASE w <= Len(z) /\ n < z[w][2] /\ t.tx_sdu = Piece(z[w], n + 1, z[w][2])
        <5>1. w \in 1 .. Len(z)
          BY <4>1
        <5> DEFINE s == z[w]
        <5>2. s \in S /\ s[2] \in Nat /\ n + 1 <= s[2] + 1 /\ n + 1 # s[2] + 1 /\ n + 1 \in Nat \ {0}
          BY <4>1, <5>1 DEF Sdus
        <5> HIDE DEF s
        <5>3. Piece(s, n + 1, s[2]) # <<>>
          BY <5>2, PieceFacts, ZenonT(60)
        <5> QED BY <2>1, <4>1, <5>3 DEF s
      <4> QED BY <4>1 DEF Line
    <3>5. Drawn(z, w, n, b)
      BY <1>4, <1>5, <2>1, <3>4 DEF Drawn
    <3> QED BY <3>1, <3>3, <3>5
  <2>2. CASE t.tx_sdu # <<>>
    <3>1. b0 = Move(b, t.tx_sdu)
      BY <2>2
    <3>2. IsEnd(S, t.tx_sdu, al \/ b.segs # <<>>)
      <4>1. (al \/ b.segs # <<>>) = FALSE
        BY <1>4, <2>2
      <4> QED BY <1>1, <2>2, <4>1
    <3>3. N \in Int
      BY <1>2
    <3>4. Move(b, t.tx_sdu) \in Building(S, t.vt_us, N, al)
      <4> HIDE DEF al
      <4> QED BY <1>2, <1>4, <1>5, <3>2, <3>3, MoveStep
    <3> DEFINE s == z[w]
               i == n + 1
    <3>5. /\ w <= Len(z) /\ n < s[2] /\ t.tx_sdu = Piece(s, i, s[2])
          /\ t.tx_sdu_queue = Onward(z, w + 1)
      BY <2>2 DEF Line
    <3>6. s \in S /\ i \in 1 .. s[2] /\ s[2] \in Nat \ {0}
      <4>1. w \in 1 .. Len(z)
        BY <3>5
      <4>2. s \in S /\ s[2] \in Nat \ {0}
        BY <4>1 DEF Sdus
      <4> QED BY <3>5, <4>2
    <3> HIDE DEF s, i
    <3> DEFINE x == Move(b, Piece(s, i, s[2]))
    <3>7. /\ x.segs = b.segs /\ x.t.tx_sdu_queue = b.t.tx_sdu_queue
          /\ \E e \in (i - 1) .. s[2] :
               /\ x.last = Piece(s, i, e) /\ x.t.tx_sdu = Piece(s, e + 1, s[2])
               /\ e < s[2] => x.pdu_space <= packed_length(Len(b.segs))
      BY <1>4, <3>3, <3>6, MoveCut
    <3> HIDE DEF x
    <3>8. \E e \in (i - 1) .. s[2] : CutAt(z, w, i, e, x)
      BY <3>7 DEF CutAt, s
    <3>9. w + Len(b.segs) = w /\ From(Len(b.segs) + 1, n) = i
      BY <1>5 DEF From, i
    <3>10. Drawn(z, w, n, x)
      <4>1. Through(z, w, n, x.segs, Len(x.segs))
        BY <1>5, <3>7
      <4>2. i <= s[2]
        BY <3>6
      <4>3. /\ w + Len(x.segs) = w /\ From(Len(x.segs) + 1, n) = i
            /\ x.t.tx_sdu_queue = Onward(z, w + 1)
        BY <1>4, <3>5, <3>7, <3>9
      <4> QED BY <3>5, <3>8, <4>1, <4>2, <4>3 DEF Drawn, s
    <3> QED BY <3>1, <3>4, <3>5, <3>10 DEF x
  <2> QED BY <2>1, <2>2
<1> HIDE DEF b0, queue
<1>7. ASSUME NEW y \in D, NEW x PROVE PullIfRoom(y, x) \in D
  <2>1. N \in Int /\ y \in Building(S, t.vt_us, N, al) /\ Drawn(z, w, n, y)
    BY <1>2
  <2> HIDE DEF al
  <2>2. PullIfRoom(y, x) \in Building(S, t.vt_us, N, al)
    BY <1>2, <2>1, PullStep
  <2>3. Drawn(z, w, n, PullIfRoom(y, x))
    BY <1>2, <2>1, DrawnMore
  <2> QED BY <2>2, <2>3
<1> HIDE DEF D
<1>8. \E f \in [0 .. N -> D] : PulledBy(f, N, b0, queue)
  <2>1. KeptBy(D, N, queue)
    BY <1>7 DEF KeptBy
  <2> HIDE DEF al
  <2> QED BY <1>2, <1>6, <2>1, PullTrace
<1>9. PICK f \in [0 .. N -> D] : f[N] = Pulled(b0, queue)
  BY <1>8 DEF PulledBy
<1>10. Fill(t, nof_bytes) = f[N]
  BY <1>9 DEF Fill, Pulled, b0, b, queue
<1>11. Fill(t, nof_bytes) \in D
  BY <1>2, <1>9, <1>10
<1> QED BY <1>11 DEF D

\* The PDU p carries the stream from the byte after c[2] of the SDU c[1] to
\* the byte d[2] of the SDU d[1].
Carries(z, p, c, d) ==
    LET n == Len(p.segs)
        v == c[1] + (n - 1)
    IN /\ v <= Len(z)
       /\ p.start => c[2] = 0
       /\ Through(z, c[1], c[2], p.segs, n - 1)
       /\ IF p.end
          THEN /\ p.segs[n] = Piece(z[v], From(n, c[2]), z[v][2])
               /\ d = <<v + 1, 0>>
          ELSE /\ p.segs[n] = Piece(z[v], From(n, c[2]), d[2])
               /\ d[1] = v /\ d[2] + 1 >= From(n, c[2])

Cursor == (Nat \ {0}) \X Nat

\* What build_data_pdu() does to the stream.
BuiltAlong(z, c, t, b) ==
    \/ b.len = 0 /\ b.t = t
    \/ /\ b.len # 0 /\ b.pdu.start = (t.tx_sdu = <<>>)
       /\ b.pdu.end = (b.t.tx_sdu = <<>>)
       /\ \E d \in Cursor : Carries(z, b.pdu, c, d) /\ Line(z, d[1], d[2], b.t)

\* build_data_pdu() takes up the stream where the transmitter left it.
LEMMA BuildCarries ==
  ASSUME SN_MOD \in Nat \ {0},
         NEW S, Sdus(S), NEW t \in TxStates(S), NEW nof_bytes \in Int,
         NEW z \in Seq(S), NEW c \in Cursor, Line(z, c[1], c[2], t)
  PROVE  BuiltAlong(z, c, t, build_data_pdu(t, nof_bytes))
<1> DEFINE d == build_data_pdu(t, nof_bytes)
           none == buffer_state(t) = 0 \/ nof_bytes <= packed_length(0)
           q == Len(t.tx_sdu_queue)
           b == Fill(t, nof_bytes)
           segs == Append(b.segs, b.last)
           pdu == [sn |-> t.vt_us, start |-> start_aligned(t, b),
                   end |-> b.t.tx_sdu = <<>>, segs |-> segs]
           t1 == [b.t EXCEPT !.vt_us = next_sn(@)]
           w == c[1]
           n == c[2]
<1>1. w \in Nat \ {0} /\ n \in Nat
  BY DEF Cursor
<1>2. CASE none
  <2>1. d = [len |-> 0, pdu |-> <<>>, t |-> t]
    BY <1>2 DEF build_data_pdu
  <2> QED BY <2>1 DEF BuiltAlong
<1>3. CASE ~none
  <2>1. d = [len |-> packed_length(Len(b.segs)) + Len(FlattenSeq(segs)),
             pdu |-> pdu, t |-> t1]
    BY <1>3 DEF build_data_pdu
  <2>2. t.tx_sdu # <<>> \/ (t.tx_sdu_queue # <<>> /\ nof_bytes > packed_length(0))
    <3>1. t.tx_sdu # <<>> \/ t.tx_sdu_queue # <<>>
      BY <1>3 DEF buffer_state
    <3>2. packed_length(0) \in Int
      BY PackedLength
    <3> QED BY <1>3, <3>1, <3>2
  <2> HIDE DEF none, t1, pdu, segs, b
  <2>3. b \in Building(S, t.vt_us, q, t.tx_sdu = <<>>) /\ Started(b)
    BY <2>2, FillBuilds DEF b
  <2>4. Drawn(z, w, n, b)
    <3> HIDE DEF w, n
    <3> QED BY <1>1, FillDraws DEF w, n, b
  <2>5. /\ b.segs \in Seq(Seq(S \X Nat)) /\ b.last \in Seq(S \X Nat)
        /\ b.t \in TxRecords(S, t.vt_us, q) /\ Len(b.segs) \in Nat
    BY <2>3 DEF Building, Builders
  <2>6. t1.tx_sdu = b.t.tx_sdu /\ t1.tx_sdu_queue = b.t.tx_sdu_queue
    BY <2>5 DEF t1, TxRecords
  <2>7. pdu.start = (t.tx_sdu = <<>>) /\ pdu.segs = segs /\ pdu.end = (b.t.tx_sdu = <<>>)
    BY DEF pdu, start_aligned
  <2>8. d.len # 0
    <3>1. packed_length(Len(b.segs)) \in Nat \ {0, 1}
      BY <2>5, PackedLength
    <3>2. Len(FlattenSeq(segs)) \in Nat
      <4>1. segs \in Seq(Seq(S \X Nat))
        <5> DEFINE x == b.segs
                   y == b.last
                   U == Seq(S \X Nat)
        <5>1. x \in Seq(U) /\ y \in U
          BY <2>5
        <5> HIDE DEF x, y, U
        <5>2. Append(x, y) \in Seq(U)
          BY <5>1
        <5> QED BY <5>2 DEF x, y, U, segs
      <4> QED BY <4>1, FlattenType
    <3> QED BY <2>1, <3>1, <3>2
  <2> DEFINE m == Len(b.segs)
             v == w + m
             from == From(m + 1, n)
  <2>9. /\ v <= Len(z) /\ from <= z[v][2]
        /\ b.t.tx_sdu_queue = Onward(z, v + 1)
        /\ \E e \in (from - 1) .. z[v][2] : CutAt(z, v, from, e, b)
    BY <2>3, <2>4 DEF Drawn, Started
  <2>10. PICK e \in (from - 1) .. z[v][2] : CutAt(z, v, from, e, b)
    BY <2>9
  <2>11. /\ v \in 1 .. Len(z) /\ z[v] \in S /\ z[v][2] \in Nat \ {0} /\ from \in Nat \ {0}
         /\ e \in Nat /\ e <= z[v][2] /\ e + 1 >= from
    <3>1. v \in 1 .. Len(z)
      BY <1>1, <2>5, <2>9
    <3>2. z[v] \in S /\ z[v][2] \in Nat \ {0}
      BY <3>1 DEF Sdus
    <3>3. from \in Nat \ {0}
      BY <1>1, <2>5 DEF From
    <3> HIDE DEF v, from
    <3> QED BY <2>10, <3>1, <3>2, <3>3
  <2>12. e = z[v][2] <=> b.t.tx_sdu = <<>>
    <3> DEFINE s == z[v]
               i == e + 1
    <3>1. s \in S /\ s[2] \in Nat /\ i \in Nat \ {0} /\ i <= s[2] + 1
      BY <2>11
    <3>2. b.t.tx_sdu = Piece(s, i, s[2])
      BY <2>10 DEF CutAt
    <3> HIDE DEF s, i
    <3>3. b.t.tx_sdu = <<>> <=> i = s[2] + 1
      BY <3>1, <3>2, PieceFacts, SMTT(60)
    <3> QED BY <2>11, <3>3 DEF s, i
  <2>13. /\ Len(segs) = m + 1 /\ segs[m + 1] = b.last
         /\ \A k \in 1 .. m : segs[k] = b.segs[k]
    BY <2>5 DEF segs
  <2>14. Through(z, w, n, segs, m)
    BY <2>4, <2>13 DEF Drawn, Through
  <2>15. pdu.start => n = 0
    <3>1. ASSUME t.tx_sdu = <<>> PROVE n = 0
      <4>1. CASE w <= Len(z) /\ n < z[w][2] /\ t.tx_sdu = Piece(z[w], n + 1, z[w][2])
        <5>1. w \in 1 .. Len(z)
          BY <1>1, <4>1
        <5> DEFINE s == z[w]
        <5>2. s \in S /\ s[2] \in Nat /\ n + 1 <= s[2] + 1 /\ n + 1 # s[2] + 1 /\ n + 1 \in Nat \ {0}
          BY <1>1, <4>1, <5>1 DEF Sdus
        <5> HIDE DEF s
        <5>3. Piece(s, n + 1, s[2]) # <<>>
          BY ONLY <5>2, PieceFacts, ZenonT(150)
        <5> QED BY <3>1, <4>1, <5>3 DEF s
      <4> QED BY <4>1 DEF Line
    <3> QED BY <2>7, <3>1
  <2> DEFINE x == IF pdu.end THEN <<v + 1, 0>> ELSE <<v, e>>
  <2>16. x \in Cursor /\ x[1] = (IF pdu.end THEN v + 1 ELSE v) /\ x[2] = (IF pdu.end THEN 0 ELSE e)
    <3>1. v + 1 \in Nat \ {0} /\ v \in Nat \ {0} /\ e \in Nat /\ 0 \in Nat
      BY <2>11
    <3> HIDE DEF v
    <3>2. CASE pdu.end
      BY <3>1, <3>2 DEF Cursor
    <3>3. CASE ~pdu.end
      BY <3>1, <3>3 DEF Cursor
    <3> QED BY <3>2, <3>3
  <2>17. Len(pdu.segs) = m + 1 /\ w + ((m + 1) - 1) = v /\ (m + 1) - 1 = m
    BY <1>1, <2>5, <2>7, <2>13
  <2>18. pdu.segs[m + 1] = Piece(z[v], from, e)
    BY <2>7, <2>10, <2>13 DEF CutAt
  <2>19. Carries(z, pdu, c, x)
    <3> HIDE DEF m, v, from
    <3>1. CASE pdu.end
      BY <2>7, <2>9, <2>12, <2>14, <2>15, <2>16, <2>17, <2>18, <3>1 DEF Carries, from
    <3>2. CASE ~pdu.end
      BY <2>7, <2>9, <2>11, <2>14, <2>15, <2>16, <2>17, <2>18, <3>2 DEF Carries, from
    <3> QED BY <3>1, <3>2
  <2>20. Line(z, x[1], x[2], t1)
    <3> HIDE DEF m, from
    <3>1. CASE pdu.end
      <4>1. v + 1 <= Len(z) + 1
        BY <2>11
      <4> QED BY <2>6, <2>7, <2>9, <2>16, <3>1, <4>1 DEF Line
    <3>2. CASE ~pdu.end
      <4>1. v <= Len(z) /\ e < z[v][2]
        <5> DEFINE l == z[v][2]
        <5>1. e # l /\ e <= l /\ e \in Nat /\ l \in Nat /\ v <= Len(z)
          BY <2>7, <2>9, <2>11, <2>12, <3>2
        <5> HIDE DEF l, v
        <5>2. e < l
          BY <5>1
        <5> QED BY <5>1, <5>2 DEF l
      <4> QED BY <2>6, <2>9, <2>10, <2>16, <3>2, <4>1 DEF Line, CutAt
    <3> QED BY <3>1, <3>2
  <2>21. d.pdu = pdu /\ d.t = t1
    BY <2>1
  <2> HIDE DEF d, x
  <2> QED BY <2>6, <2>7, <2>8, <2>16, <2>19, <2>20, <2>21 DEF BuiltAlong, d
<1> QED BY <1>2, <1>3

USE WindowAssumption DEF WindowAssumption

-----------------------------------------------------------------------------
(* What the receiver makes of the stream.                                  *)

\* The SDUs s are some of z, whole and in order, all before the v-th.
InOrder(z, s, v) ==
    \E f \in [1 .. Len(s) -> 1 .. Len(z)] :
      /\ \A i \in 1 .. Len(s) : s[i] = Bytes(z[f[i]]) /\ f[i] < v
      /\ \A i, j \in 1 .. Len(s) : i < j => f[i] < f[j]

\* The v-th SDU may follow SDUs from before it.
LEMMA InOrderMore ==
  ASSUME NEW T, NEW s \in Seq(T), NEW R, NEW z \in Seq(R), NEW v \in 1 .. Len(z),
         Bytes(z[v]) \in T, InOrder(z, s, v)
  PROVE  InOrder(z, Append(s, Bytes(z[v])), v + 1)
<1> DEFINE l == Len(s)
           x == Bytes(z[v])
           t == Append(s, x)
           D == 1 .. Len(z)
<1>1. PICK f \in [1 .. l -> D] :
        /\ \A i \in 1 .. l : s[i] = Bytes(z[f[i]]) /\ f[i] < v
        /\ \A i, j \in 1 .. l : i < j => f[i] < f[j]
  BY DEF InOrder
<1>2. l \in Nat /\ v \in Int /\ v \in D /\ D \subseteq Int
  OBVIOUS
<1>3. /\ Len(t) = l + 1 /\ t[l + 1] = x /\ \A i \in 1 .. l : t[i] = s[i]
  <2> HIDE DEF x
  <2> QED OBVIOUS
<1> DEFINE g == [i \in 1 .. (l + 1) |-> IF i = l + 1 THEN v ELSE f[i]]
<1> HIDE DEF l, t, D
<1>4. ASSUME NEW i \in 1 .. (l + 1) PROVE (i \in 1 .. l /\ i # l + 1) \/ i = l + 1
  BY <1>2
<1>5. /\ g \in [1 .. (l + 1) -> D] /\ g[l + 1] = v
      /\ \A i \in 1 .. l : g[i] = f[i]
  <2>1. l + 1 \in 1 .. (l + 1) /\ \A i \in 1 .. l : i \in 1 .. (l + 1) /\ i # l + 1
    BY <1>2
  <2> QED BY <1>1, <1>2, <1>4, <2>1
<1> HIDE DEF g
<1>6. ASSUME NEW i \in 1 .. (l + 1) PROVE t[i] = Bytes(z[g[i]]) /\ g[i] < v + 1
  <2>1. CASE i = l + 1
    BY <1>2, <1>3, <1>5, <2>1 DEF x
  <2>2. CASE i \in 1 .. l
    <3>1. g[i] = f[i] /\ f[i] < v /\ f[i] \in Int /\ t[i] = s[i] /\ s[i] = Bytes(z[f[i]])
      BY <1>1, <1>2, <1>3, <1>5, <2>2
    <3>2. f[i] < v + 1
      BY <1>2, <3>1
    <3> QED BY <3>1, <3>2
  <2> QED BY <1>4, <2>1, <2>2
<1>7. ASSUME NEW i \in 1 .. (l + 1), NEW j \in 1 .. (l + 1), i < j PROVE g[i] < g[j]
  <2>1. i \in 1 .. l
    BY <1>2, <1>7
  <2>2. CASE j = l + 1
    BY <1>1, <1>5, <2>1, <2>2
  <2>3. CASE j \in 1 .. l
    BY <1>1, <1>5, <1>7, <2>1, <2>3
  <2> QED BY <1>4, <2>2, <2>3
<1>8. g \in [1 .. Len(t) -> 1 .. Len(z)]
  BY <1>3, <1>5 DEF D
<1> QED BY <1>3, <1>6, <1>7, <1>8 DEF InOrder, t, x

\* SDUs from before the v-th are from before any later one.
LEMMA InOrderLater ==
  ASSUME NEW z, Len(z) \in Nat, NEW s, NEW v \in Int, NEW w \in Int, v <= w, InOrder(z, s, v)
  PROVE  InOrder(z, s, w)
<1> DEFINE I == 1 .. Len(s)
<1>1. PICK f \in [I -> 1 .. Len(z)] :
        /\ \A i \in I : s[i] = Bytes(z[f[i]]) /\ f[i] < v
        /\ \A i, j \in I : i < j => f[i] < f[j]
  BY DEF InOrder
<1> HIDE DEF I
<1>2. \A i \in I : f[i] < w
  <2> SUFFICES ASSUME NEW i \in I PROVE f[i] < w
    OBVIOUS
  <2>1. f[i] \in 1 .. Len(z) /\ f[i] < v
    BY <1>1
  <2> QED BY <2>1
<1> QED BY <1>1, <1>2 DEF InOrder, I

\* Two sequences are joined to one that has their elements in turn.
LEMMA JoinSame ==
  ASSUME NEW B, NEW p \in Seq(B), NEW q \in Seq(B), NEW t \in Seq(B),
         Len(t) = Len(p) + Len(q),
         \A k \in 1 .. Len(p) : p[k] = t[k],
         \A k \in 1 .. Len(q) : q[k] = t[Len(p) + k]
  PROVE  p \o q = t
<1>1. Len(p \o q) = Len(t) /\ p \o q \in Seq(B)
  OBVIOUS
<1>2. ASSUME NEW k \in 1 .. Len(t) PROVE (p \o q)[k] = t[k]
  <2>1. CASE k <= Len(p)
    BY <2>1
  <2>2. CASE ~(k <= Len(p))
    <3>1. k - Len(p) \in 1 .. Len(q) /\ Len(p) + (k - Len(p)) = k
      BY <2>2
    <3>2. (p \o q)[k] = q[k - Len(p)]
      BY <2>2
    <3> QED BY <3>1, <3>2
  <2> QED BY <2>1, <2>2
<1> QED BY <1>1, <1>2

\* A piece joins the beginning of its SDU.
LEMMA PieceJoin ==
  ASSUME NEW S, NEW s \in S, NEW i \in Nat \ {0}, NEW e \in Nat, i <= e + 1
  PROVE  Piece(s, 1, i - 1) \o Piece(s, i, e) = Piece(s, 1, e)
<1> DEFINE p == Piece(s, 1, i - 1)
           q == Piece(s, i, e)
           t == Piece(s, 1, e)
<1>1. i - 1 \in Nat /\ 1 \in Nat \ {0} /\ 1 <= (i - 1) + 1 /\ 1 <= e + 1
      /\ ((i - 1) - 1) + 1 = i - 1 /\ (e - 1) + 1 = e /\ (e - i) + 1 \in Nat
      /\ (i - 1) + ((e - i) + 1) = e
  OBVIOUS
<1>2. IsPiece(p, S, s, 1, i - 1)
  BY <1>1, PieceFacts
<1>3. IsPiece(q, S, s, i, (e - i) + 1)
  BY PieceFacts
<1>4. IsPiece(t, S, s, 1, e)
  BY <1>1, PieceFacts
<1> HIDE DEF p, q, t
<1>5. /\ p \in Seq(S \X Nat) /\ q \in Seq(S \X Nat) /\ t \in Seq(S \X Nat)
      /\ Len(p) = i - 1 /\ Len(q) = (e - i) + 1 /\ Len(t) = e
  BY <1>2, <1>3, <1>4 DEF IsPiece
<1>6. /\ \A k \in 1 .. (i - 1) : p[k] = <<s, 1 + (k - 1)>>
      /\ \A k \in 1 .. ((e - i) + 1) : q[k] = <<s, i + (k - 1)>>
      /\ \A k \in 1 .. e : t[k] = <<s, 1 + (k - 1)>>
  BY <1>2, <1>3, <1>4 DEF IsPiece
<1>7. \A k \in 1 .. (i - 1) : p[k] = t[k]
  <2> SUFFICES ASSUME NEW k \in 1 .. (i - 1) PROVE p[k] = t[k]
    OBVIOUS
  <2>1. k \in 1 .. e
    BY <1>1
  <2> QED BY <1>6, <2>1
<1>8. \A k \in 1 .. ((e - i) + 1) : q[k] = t[(i - 1) + k]
  <2> SUFFICES ASSUME NEW k \in 1 .. ((e - i) + 1) PROVE q[k] = t[(i - 1) + k]
    OBVIOUS
  <2>1. (i - 1) + k \in 1 .. e /\ 1 + (((i - 1) + k) - 1) = i + (k - 1)
    BY <1>1
  <2> QED BY <1>6, <2>1
<1> DEFINE B == S \X Nat
<1>9. p \in Seq(B) /\ q \in Seq(B) /\ t \in Seq(B)
  BY <1>5
<1> HIDE DEF B
<1>10. Len(p) = i - 1 /\ Len(q) = (e - i) + 1 /\ Len(t) = e
  BY <1>5
<1>11. p \o q = t
  <2>1. /\ Len(t) = Len(p) + Len(q)
        /\ \A k \in 1 .. Len(p) : p[k] = t[k]
        /\ \A k \in 1 .. Len(q) : q[k] = t[Len(p) + k]
    BY ONLY <1>1, <1>7, <1>8, <1>10
  <2> QED BY ONLY <1>9, <2>1, JoinSame
<1> QED BY <1>11 DEF p, q, t

-----------------------------------------------------------------------------
(* A PDU is absorbed.                                                      *)

\* What y has of the SDU in reassembly when the stream is at c.
Holds(z, c, aligned, y) ==
    IF aligned THEN y.rx_sdu = <<>>
    ELSE y.pdu_lost \/ y.rx_sdu = Piece(z[c[1]], 1, c[2])

\* The SDUs s, and those that y wrote, are in order and all before the v-th.
Wrote(z, s, v, y) == InOrder(z, s \o y.out, v)

\* y expects byte i of the SDU x, or will drop x.
Expects(p, x, i, y) == Orphan(y, p) \/ y.rx_sdu = Piece(x, 1, i - 1)

\* x is y after the SDU before the v-th.
Flushed(z, s, v, x) == x.rx_sdu = <<>> /\ ~x.pdu_lost /\ Wrote(z, s, v, x)

\* A complete SDU is written behind the earlier ones, or dropped.
LEMMA FlushInOrder ==
  ASSUME NEW y \in RxStates(AllBytes), NEW z \in Seq(AllSdus), NEW s \in Seq(Seq(AllBytes)),
         NEW v \in 1 .. Len(z), Wrote(z, s, v, y), NEW dropped \in BOOLEAN,
         dropped \/ y.rx_sdu = Bytes(z[v])
  PROVE  Flushed(z, s, v + 1, Flush(y, dropped))
<1> DEFINE x == Flush(y, dropped)
           T == Seq(AllBytes)
<1>1. y.out \in Seq(T) /\ s \in Seq(T) /\ y.rx_sdu \in T
  BY DEF RxStates
<1>2. x = [y EXCEPT !.out = IF dropped THEN y.out ELSE Append(y.out, y.rx_sdu),
                    !.rx_sdu = <<>>, !.pdu_lost = FALSE]
  BY DEF Flush
<1> HIDE DEF x, T
<1>3. /\ x.rx_sdu = <<>> /\ x.pdu_lost = FALSE
      /\ x.out = IF dropped THEN y.out ELSE Append(y.out, y.rx_sdu)
  BY <1>2 DEF RxStates
<1>4. v \in Int /\ v + 1 \in Int /\ v <= v + 1 /\ Len(z) \in Nat
  OBVIOUS
<1>5. CASE dropped
  <2>1. s \o x.out = s \o y.out
    BY <1>3, <1>5
  <2>2. InOrder(z, s \o y.out, v)
    BY DEF Wrote
  <2>3. InOrder(z, s \o y.out, v + 1)
    BY <1>4, <2>2, InOrderLater
  <2> QED BY <1>3, <2>1, <2>3 DEF Flushed, Wrote, x
<1>6. CASE ~dropped
  <2>1. x.out = Append(y.out, y.rx_sdu) /\ y.rx_sdu = Bytes(z[v])
    BY <1>3, <1>6
  <2>2. s \o x.out = Append(s \o y.out, y.rx_sdu) /\ s \o y.out \in Seq(T)
    BY <1>1, <2>1
  <2>3. InOrder(z, s \o y.out, v)
    BY DEF Wrote
  <2>4. InOrder(z, Append(s \o y.out, Bytes(z[v])), v + 1)
    <3>1. Bytes(z[v]) \in T
      BY <1>1, <2>1
    <3> QED BY <2>2, <2>3, <3>1, InOrderMore
  <2> QED BY <1>3, <2>1, <2>2, <2>4 DEF Flushed, Wrote, x
<1> QED BY <1>5, <1>6

\* The v-th SDU and its length.
LEMMA SduFacts ==
  ASSUME NEW z \in Seq(AllSdus), NEW v \in 1 .. Len(z)
  PROVE  z[v] \in AllSdus /\ z[v][2] \in Nat \ {0} /\ Bytes(z[v]) = Piece(z[v], 1, z[v][2])
<1>1. z[v] \in AllSdus
  OBVIOUS
<1>2. z[v][2] \in Nat \ {0}
  BY <1>1, AllSdusHaveBytes DEF Sdus
<1>3. Bytes(z[v]) = Piece(z[v], 1, z[v][2])
  <2> DEFINE x == z[v]
  <2> HIDE DEF x
  <2>1. x \in AllSdus /\ x[2] \in Nat
    BY <1>1, <1>2 DEF x
  <2>2. Bytes(x) = Piece(x, 1, x[2])
    BY ONLY <2>1, WholePiece
  <2> QED BY <2>2 DEF x
<1> QED BY <1>1, <1>2, <1>3

\* A segment comes to what is in reassembly.
LEMMA SegmentJoins ==
  ASSUME NEW p, NEW x \in AllSdus, NEW i \in Nat \ {0}, NEW e \in Nat, i <= e + 1,
         NEW y, Expects(p, x, i, y)
  PROVE  Orphan(y, p) \/ y.rx_sdu \o Piece(x, i, e) = Piece(x, 1, e)
BY PieceJoin DEF Expects

\* A segment that ends its SDU.
LEMMA MiddleInOrder ==
  ASSUME NEW y \in RxStates(AllBytes), NEW p \in PdusOf(AllBytes),
         NEW z \in Seq(AllSdus), NEW s \in Seq(Seq(AllBytes)),
         NEW v \in 1 .. Len(z), Wrote(z, s, v, y),
         NEW i \in Nat \ {0}, i <= z[v][2] + 1, Expects(p, z[v], i, y)
  PROVE  Flushed(z, s, v + 1, Middle(p, y, Piece(z[v], i, z[v][2])))
<1> DEFINE seg == Piece(z[v], i, z[v][2])
           more == y.rx_sdu \o seg
           y1 == [y EXCEPT !.rx_sdu = more]
           drop == Orphan(y, p) \/ ~continues(y)
<1>1. z[v] \in AllSdus /\ z[v][2] \in Nat \ {0} /\ Bytes(z[v]) = Piece(z[v], 1, z[v][2])
  BY SduFacts
<1>2. seg \in Seq(AllBytes)
  <2> DEFINE x == z[v]
             e == x[2]
  <2>1. x \in AllSdus /\ e \in Nat /\ i <= e + 1
    BY <1>1
  <2> HIDE DEF x, e
  <2>2. IsPiece(Piece(x, i, e), AllSdus, x, i, (e - i) + 1)
    BY <2>1, PieceFacts
  <2>3. Piece(x, i, e) \in Seq(AllBytes)
    BY <2>2 DEF IsPiece, AllBytes
  <2> QED BY <2>3 DEF x, e
<1>3. Orphan(y, p) \/ y.rx_sdu \o seg = Bytes(z[v])
  <2> DEFINE x == z[v]
             e == x[2]
  <2>1. x \in AllSdus /\ e \in Nat /\ i <= e + 1 /\ Expects(p, x, i, y)
    BY <1>1
  <2> HIDE DEF x, e
  <2>2. Orphan(y, p) \/ y.rx_sdu \o Piece(x, i, e) = Piece(x, 1, e)
    BY ONLY <2>1, SegmentJoins, ZenonT(60)
  <2> QED BY <1>1, <2>2 DEF x, e
<1>4. drop \in BOOLEAN
  BY DEF PdusOf, RxStates, Orphan, continues
<1>6. Middle(p, y, seg) = Flush(y1, drop)
  BY DEF Middle
<1> HIDE DEF seg
<1>5. y1 \in RxStates(AllBytes) /\ y1.rx_sdu = y.rx_sdu \o seg /\ y1.out = y.out
  <2>1. y.rx_sdu \in Seq(AllBytes)
    BY DEF RxStates
  <2>2. more \in Seq(AllBytes)
    BY <1>2, <2>1
  <2>3. y1.rx_sdu = more
    BY DEF RxStates
  <2> HIDE DEF more
  <2>4. y1 \in RxStates(AllBytes) /\ y1.out = y.out
    BY <2>2 DEF RxStates
  <2> QED BY <2>3, <2>4 DEF more
<1> HIDE DEF y1
<1>7. drop \/ y1.rx_sdu = Bytes(z[v])
  BY <1>3, <1>5
<1> HIDE DEF drop
<1>8. Wrote(z, s, v, y1)
  BY <1>5 DEF Wrote
<1>9. Flushed(z, s, v + 1, Flush(y1, drop))
  BY <1>4, <1>5, <1>7, <1>8, FlushInOrder
<1> QED BY <1>6, <1>9 DEF seg

\* The last segment of a PDU, whether or not it ends its SDU.
LEMMA LastInOrder ==
  ASSUME NEW y \in RxStates(AllBytes), NEW p \in PdusOf(AllBytes),
         NEW z \in Seq(AllSdus), NEW s \in Seq(Seq(AllBytes)),
         NEW v \in 1 .. Len(z), Wrote(z, s, v, y),
         NEW i \in Nat \ {0}, NEW e \in Nat, i <= e + 1, Expects(p, z[v], i, y),
         Last(p.segs) = Piece(z[v], i, e)
  PROVE  /\ p.end /\ e = z[v][2] => Flushed(z, s, v + 1, LastSegment(p, y))
         /\ ~p.end => /\ \/ LastSegment(p, y).pdu_lost
                         \/ LastSegment(p, y).rx_sdu = Piece(z[v], 1, e)
                      /\ Wrote(z, s, v, LastSegment(p, y))
<1> DEFINE seg == Last(p.segs)
           more == y.rx_sdu \o seg
           y1 == [y EXCEPT !.rx_sdu = more, !.vr_ur_in_rx_sdu = y.vr_ur]
           drop == Orphan(y, p)
<1>1. z[v] \in AllSdus /\ z[v][2] \in Nat \ {0} /\ Bytes(z[v]) = Piece(z[v], 1, z[v][2])
  BY SduFacts
<1>2. seg \in Seq(AllBytes)
  <2> DEFINE x == z[v]
  <2>1. x \in AllSdus
    BY <1>1
  <2> HIDE DEF x
  <2>2. IsPiece(Piece(x, i, e), AllSdus, x, i, (e - i) + 1)
    BY <2>1, PieceFacts
  <2>3. Piece(x, i, e) \in Seq(AllBytes)
    BY <2>2 DEF IsPiece, AllBytes
  <2> QED BY <2>3 DEF x
<1>3. drop \/ y.rx_sdu \o seg = Piece(z[v], 1, e)
  <2> DEFINE x == z[v]
  <2>1. x \in AllSdus /\ Expects(p, x, i, y) /\ e \in Nat /\ i <= e + 1
    BY <1>1
  <2>2. Last(p.segs) = Piece(x, i, e)
    OBVIOUS
  <2> HIDE DEF x, drop
  <2>3. Orphan(y, p) \/ y.rx_sdu \o Piece(x, i, e) = Piece(x, 1, e)
    BY ONLY <2>1, SegmentJoins, ZenonT(60)
  <2> QED BY <2>2, <2>3 DEF x, drop
<1>4. drop \in BOOLEAN /\ (drop => y.pdu_lost) /\ p.end \in BOOLEAN
  BY DEF PdusOf, RxStates, Orphan
<1> HIDE DEF seg
<1>5. /\ y1 \in RxStates(AllBytes) /\ y1.rx_sdu = y.rx_sdu \o seg /\ y1.out = y.out
      /\ y1.pdu_lost = y.pdu_lost
  <2>1. y.rx_sdu \in Seq(AllBytes) /\ y.vr_ur \in Nums
    BY DEF RxStates
  <2>2. more \in Seq(AllBytes)
    BY <1>2, <2>1
  <2>3. y1.rx_sdu = more
    BY DEF RxStates
  <2> HIDE DEF more
  <2>4. y1 \in RxStates(AllBytes) /\ y1.out = y.out /\ y1.pdu_lost = y.pdu_lost
    BY <2>1, <2>2 DEF RxStates
  <2> QED BY <2>3, <2>4 DEF more
<1>6. LastSegment(p, y) = IF p.end THEN Flush(y1, drop) ELSE y1
  BY DEF LastSegment, seg
<1> HIDE DEF y1, drop
<1>7. Wrote(z, s, v, y1)
  BY <1>5 DEF Wrote
<1>8. ASSUME p.end, e = z[v][2] PROVE Flushed(z, s, v + 1, LastSegment(p, y))
  <2>1. drop \/ y1.rx_sdu = Bytes(z[v])
    BY <1>1, <1>3, <1>5, <1>8
  <2>2. Flushed(z, s, v + 1, Flush(y1, drop))
    BY <1>4, <1>5, <1>7, <2>1, FlushInOrder
  <2> QED BY <1>6, <1>8, <2>2
<1>9. ASSUME ~p.end
      PROVE  /\ \/ LastSegment(p, y).pdu_lost
                \/ LastSegment(p, y).rx_sdu = Piece(z[v], 1, e)
             /\ Wrote(z, s, v, LastSegment(p, y))
  BY <1>3, <1>4, <1>5, <1>6, <1>7, <1>9
<1> QED BY <1>8, <1>9

\* c is the beginning of an SDU, or a place in the middle of one.
Place(z, c) == c[2] = 0 \/ (c[1] <= Len(z) /\ c[2] < z[c[1]][2])

\* Nothing in reassembly is the beginning of any SDU.
LEMMA NothingExpected ==
  ASSUME NEW x \in AllSdus, NEW p, NEW y, y.rx_sdu = <<>>
  PROVE  Expects(p, x, 1, y)
<1>1. Piece(x, 1, 0) = <<>>
  BY PieceFacts
<1> QED BY <1>1 DEF Expects

\* reassemble_rx_sdus() with one PDU goes along the stream with it.
LEMMA AbsorbInOrder ==
  ASSUME NEW r \in RxStates(AllBytes), NEW p \in PdusOf(AllBytes),
         NEW z \in Seq(AllSdus), NEW s \in Seq(Seq(AllBytes)),
         NEW c \in Cursor, NEW d \in Cursor, Carries(z, p, c, d), Place(z, c),
         Holds(z, c, p.start, r), Wrote(z, s, c[1], r)
  PROVE  Holds(z, d, p.end, Absorb(p, r)) /\ Wrote(z, s, d[1], Absorb(p, r))
<1> DEFINE N == Len(p.segs) - 1
           w == c[1]
           B == AllBytes
<1>1. PICK f \in [0 .. N -> SameWindow(B, r)] : AbsorbedBy(f, N, p, r)
  BY AbsorbStates
<1>2. N \in Nat /\ \A n \in 1 .. N : Front(p.segs)[n] = p.segs[n]
  BY AbsorbStates
<1>3. /\ f[0] = r /\ Absorb(p, r) = LastSegment(p, f[N])
      /\ \A n \in 1 .. N : f[n] = Middle(p, f[n - 1], p.segs[n])
  BY <1>1, <1>2 DEF AbsorbedBy
<1>4. \A n \in 0 .. N : f[n] \in RxStates(B)
  BY <1>1 DEF SameWindow
<1>5. /\ w \in Nat \ {0} /\ c[2] \in Nat /\ d[1] \in Nat \ {0} /\ d[2] \in Nat
      /\ w + N \in 1 .. Len(z) /\ Len(z) \in Nat
  <2>1. w \in Nat \ {0} /\ c[2] \in Nat /\ d[1] \in Nat \ {0} /\ d[2] \in Nat
    BY DEF Cursor
  <2>2. w + N <= Len(z)
    BY DEF Carries
  <2> HIDE DEF N, w
  <2> QED BY <1>2, <2>1, <2>2
<1>6. /\ \A k \in 1 .. N : p.segs[k] = Piece(z[w + (k - 1)], From(k, c[2]), z[w + (k - 1)][2])
      /\ p.start => c[2] = 0
      /\ IF p.end
         THEN /\ p.segs[N + 1] = Piece(z[w + N], From(N + 1, c[2]), z[w + N][2])
              /\ d = <<w + N + 1, 0>>
         ELSE /\ p.segs[N + 1] = Piece(z[w + N], From(N + 1, c[2]), d[2])
              /\ d[1] = w + N /\ d[2] + 1 >= From(N + 1, c[2])
  <2>1. Len(p.segs) = N + 1
    <3> DEFINE l == Len(p.segs)
    <3>1. l \in Int
      BY <1>2 DEF PdusOf
    <3> HIDE DEF l
    <3> QED BY <3>1 DEF l
  <2> QED BY <2>1 DEF Carries, Through
<1> HIDE DEF N
<1>7. ASSUME NEW k \in 0 .. N
      PROVE  /\ w + k \in 1 .. Len(z) /\ z[w + k] \in AllSdus /\ z[w + k][2] \in Nat \ {0}
             /\ From(k + 1, c[2]) \in Nat \ {0} /\ From(k + 1, c[2]) <= z[w + k][2] + 1
  <2>1. w + k \in 1 .. Len(z)
    BY <1>2, <1>5
  <2>2. z[w + k] \in AllSdus /\ z[w + k][2] \in Nat \ {0}
    BY <2>1, SduFacts
  <2> DEFINE l == z[w + k][2]
  <2>3. k = 0 => c[2] = 0 \/ c[2] < l
    BY <1>5 DEF Place
  <2> HIDE DEF l
  <2>4. l \in Nat \ {0}
    BY <2>2 DEF l
  <2>5. From(k + 1, c[2]) = IF k = 0 THEN c[2] + 1 ELSE 1
    BY <1>2 DEF From
  <2>6. From(k + 1, c[2]) \in Nat \ {0} /\ From(k + 1, c[2]) <= l + 1
    BY <1>5, <2>3, <2>4, <2>5
  <2> QED BY <2>1, <2>2, <2>6 DEF l
<1> DEFINE Before(k) == /\ Wrote(z, s, w + k, f[k])
                        /\ Expects(p, z[w + k], From(k + 1, c[2]), f[k])
           P == {k \in 0 .. N : Before(k)}
<1>8. Before(0)
  <2>1. w + 0 = w /\ From(0 + 1, c[2]) = c[2] + 1 /\ (c[2] + 1) - 1 = c[2] /\ 0 \in 0 .. N
    BY <1>2, <1>5 DEF From
  <2>2. Expects(p, z[w], c[2] + 1, r)
    <3>1. CASE p.start
      <4>1. r.rx_sdu = <<>> /\ c[2] + 1 = 1 /\ z[w] \in AllSdus
        BY <1>6, <1>7, <2>1, <3>1 DEF Holds
      <4> QED BY <4>1, NothingExpected
    <3>2. CASE ~p.start
      BY <2>1, <3>2 DEF Holds, Expects, Orphan
    <3> QED BY <3>1, <3>2
  <2> QED BY <1>3, <2>1, <2>2
<1>9. ASSUME NEW k \in 0 .. (N - 1), Before(k) PROVE Before(k + 1)
  <2> DEFINE v == w + k
             i == From(k + 1, c[2])
             y == f[k]
  <2>1. /\ k \in 0 .. N /\ k + 1 \in 0 .. N /\ k + 1 \in 1 .. N /\ (k + 1) - 1 = k
        /\ w + (k + 1) = (w + k) + 1
    <3>1. N \in Nat
      BY <1>2
    <3>2. w \in Nat
      BY <1>5
    <3> HIDE DEF w, P, v, i, y
    <3> QED BY ONLY <3>1, <3>2
  <2>2. v \in 1 .. Len(z) /\ i \in Nat \ {0} /\ i <= z[v][2] + 1
    BY <1>7, <2>1
  <2>3. y \in RxStates(B) /\ Wrote(z, s, v, y) /\ Expects(p, z[v], i, y)
    BY <1>4, <1>9, <2>1
  <2>4. f[k + 1] = Middle(p, y, Piece(z[v], i, z[v][2]))
    BY <1>3, <1>6, <2>1
  <2>5. w + (k + 1) = v + 1
    BY <2>1
  <2> HIDE DEF v, i, y
  <2>6. Flushed(z, s, v + 1, f[k + 1])
    BY <2>2, <2>3, <2>4, MiddleInOrder
  <2>7. From((k + 1) + 1, c[2]) = 1
    BY <2>1 DEF From
  <2>8. Expects(p, z[w + (k + 1)], 1, f[k + 1])
    BY <1>7, <2>1, <2>6, NothingExpected DEF Flushed
  <2> QED BY <2>5, <2>6, <2>7, <2>8 DEF Flushed
<1> HIDE DEF Before
<1>10. 0 .. N \subseteq P
  <2>1. 0 \in P
    BY <1>2, <1>8
  <2>2. \A k \in 0 .. (N - 1) : k \in P => k + 1 \in P
    BY <1>2, <1>9
  <2> HIDE DEF P
  <2> QED BY <1>2, <2>1, <2>2, InductionTo
<1>11. Before(N) /\ N \in 0 .. N
  BY <1>2, <1>10
<1> DEFINE v == w + N
           i == From(N + 1, c[2])
           y == f[N]
<1>12. /\ v \in 1 .. Len(z) /\ i \in Nat \ {0} /\ i <= z[v][2] + 1 /\ z[v][2] \in Nat
       /\ y \in RxStates(B) /\ Wrote(z, s, v, y) /\ Expects(p, z[v], i, y)
  BY <1>4, <1>7, <1>11 DEF Before
<1>13. Last(p.segs) = p.segs[N + 1]
  <2>1. Len(p.segs) = N + 1
    <3> DEFINE l == Len(p.segs)
    <3>1. l \in Int
      BY <1>2 DEF PdusOf, N
    <3> HIDE DEF l
    <3> QED BY <3>1 DEF l, N
  <2> QED BY <2>1 DEF Last
<1>14. CASE p.end
  <2>1. Last(p.segs) = Piece(z[v], i, z[v][2]) /\ d = <<v + 1, 0>>
    BY <1>6, <1>13, <1>14
  <2> HIDE DEF v, i, y
  <2>2. Flushed(z, s, v + 1, LastSegment(p, y))
    BY <1>12, <1>14, <2>1, LastInOrder
  <2> QED BY <1>3, <1>14, <2>1, <2>2 DEF Flushed, Holds, y
<1>15. CASE ~p.end
  <2>1. Last(p.segs) = Piece(z[v], i, d[2]) /\ d[1] = v /\ d[2] + 1 >= i
    BY <1>6, <1>13, <1>15
  <2>2. i <= d[2] + 1
    BY <1>5, <1>12, <2>1
  <2> DEFINE e == d[2]
  <2>3. e \in Nat /\ i <= e + 1 /\ Last(p.segs) = Piece(z[v], i, e)
    BY <1>5, <2>1, <2>2
  <2> HIDE DEF v, i, y, e
  <2>4. /\ LastSegment(p, y).pdu_lost \/ LastSegment(p, y).rx_sdu = Piece(z[v], 1, e)
        /\ Wrote(z, s, v, LastSegment(p, y))
    BY <1>12, <1>15, <2>3, LastInOrder
  <2> QED BY <1>3, <1>15, <2>1, <2>4 DEF Holds, y, e
<1> QED BY <1>14, <1>15 DEF PdusOf

-----------------------------------------------------------------------------
(* What an RNTI has sent: its SDUs, the RLC PDUs made of them, counted from *)
(* 0, their sequence numbers, and the place in the SDUs where each begins.  *)

Aligned(g, i) == i = 0 \/ g.pdu[i - 1].end

\* The PDU i takes the stream from its place to the next.
Follows(g, i) ==
    /\ g.sn[i + 1] = Plus(g.sn[i], 1)
    /\ g.pdu[i].sn = g.sn[i] /\ g.pdu[i].start = Aligned(g, i)
    /\ Carries(g.sdus, g.pdu[i], g.at[i], g.at[i + 1])

Stream(g) ==
    /\ g.sdus \in Seq(AllSdus) /\ g.n \in Nat
    /\ g.pdu \in [0 .. (g.n - 1) -> RlcPdus]
    /\ g.sn \in [0 .. g.n -> Nums] /\ g.sn[0] = 0
    /\ g.at \in [0 .. g.n -> Cursor] /\ g.at[0] = <<1, 0>>
    /\ \A i \in 0 .. g.n : Place(g.sdus, g.at[i])
    /\ \A i \in 0 .. (g.n - 1) : Follows(g, i)

\* Sequence numbers along the stream.
LEMMA StreamSn ==
  ASSUME NEW g, Stream(g), NEW i \in 0 .. g.n, NEW j \in 0 .. SN_MOD, i + j <= g.n
  PROVE  g.sn[i] \in Nums /\ g.sn[i + j] \in Nums /\ g.sn[i + j] = Plus(g.sn[i], j)
<1> DEFINE n == g.n
           v == g.sn
<1>1. /\ n \in Nat /\ v \in [0 .. n -> Nums]
      /\ \A k \in 0 .. (n - 1) : v[k + 1] = Plus(v[k], 1)
  BY DEF Stream, Follows
<1>2. i \in 0 .. n /\ i + j <= n /\ j \in Nat /\ v[i] \in Nums
  BY <1>1
<1> HIDE DEF n, v
<1> DEFINE P == {k \in 0 .. j : v[i + k] = Plus(v[i], k)}
<1>3. 0 \in P
  <2>1. i + 0 = i /\ 0 \in 0 .. j
    BY <1>1, <1>2
  <2> QED BY <1>2, <2>1, PlusZero
<1>4. ASSUME NEW k \in 0 .. (j - 1), k \in P PROVE k + 1 \in P
  <2>1. /\ k + 1 \in 0 .. j /\ i + k \in 0 .. (n - 1) /\ (i + k) + 1 = i + (k + 1)
        /\ k \in 0 .. SN_MOD /\ 1 \in 0 .. SN_MOD /\ k + 1 <= SN_MOD
    BY <1>1, <1>2
  <2>2. v[i + (k + 1)] = Plus(v[i + k], 1) /\ v[i + k] = Plus(v[i], k)
    BY <1>1, <1>4, <2>1
  <2>3. Plus(Plus(v[i], k), 1) = Plus(v[i], k + 1)
    BY <1>2, <2>1, PlusPlus
  <2> QED BY <2>1, <2>2, <2>3
<1>5. 0 .. j \subseteq P
  <2> HIDE DEF P
  <2> QED BY <1>2, <1>3, <1>4, InductionTo
<1>6. j \in P /\ i + j \in 0 .. n
  <2>1. j \in 0 .. j /\ i + j \in 0 .. n
    BY <1>1, <1>2
  <2> HIDE DEF P
  <2> QED BY <1>5, <2>1
<1>7. v[i] \in Nums /\ v[i + j] \in Nums /\ v[i + j] = Plus(v[i], j)
  BY <1>1, <1>2, <1>6
<1> QED BY <1>7 DEF v

\* The number of a PDU counted from the one k.
LEMMA StreamFrom ==
  ASSUME NEW g, Stream(g), NEW i \in 0 .. g.n, NEW k \in 0 .. g.n, k <= i, i - k <= SN_MOD
  PROVE  /\ g.sn[k] \in Nums /\ g.sn[i] \in Nums /\ i - k \in 0 .. SN_MOD
         /\ g.sn[i] = Plus(g.sn[k], i - k)
<1>1. g.n \in Nat
  BY DEF Stream
<1>2. i - k \in 0 .. SN_MOD /\ k + (i - k) = i /\ k + (i - k) <= g.n
  BY <1>1
<1>3. /\ g.sn[k] \in Nums /\ g.sn[k + (i - k)] \in Nums
      /\ g.sn[k + (i - k)] = Plus(g.sn[k], i - k)
  BY <1>2, StreamSn
<1> QED BY <1>2, <1>3

\* No number comes twice in less than SN_MOD PDUs.
LEMMA StreamOnce ==
  ASSUME NEW g, Stream(g), NEW i \in 0 .. g.n, NEW k \in 0 .. g.n,
         i - k < SN_MOD, k - i < SN_MOD, g.sn[i] = g.sn[k]
  PROVE  i = k
<1>1. g.n \in Nat /\ i \in Int /\ k \in Int
  BY DEF Stream
<1>2. ASSUME NEW a \in 0 .. g.n, NEW b \in 0 .. g.n, a <= b, b - a < SN_MOD, g.sn[a] = g.sn[b]
      PROVE  a = b
  <2>1. b - a \in 0 .. SN_MOD /\ b - a <= SN_MOD /\ b - a \in Nums /\ 0 \in Nums
    BY <1>1, <1>2 DEF Nums
  <2>2. g.sn[a] \in Nums /\ g.sn[b] = Plus(g.sn[a], b - a)
    BY <1>2, <2>1, StreamFrom
  <2>3. g.sn[a] = Plus(g.sn[a], 0)
    BY <2>2, PlusZero
  <2>4. b - a = 0
    BY <1>2, <2>1, <2>2, <2>3, PlusOnce
  <2> QED BY <1>1, <2>4
<1>3. CASE k <= i
  BY <1>2, <1>3
<1>4. CASE ~(k <= i)
  <2>1. i <= k
    BY <1>1, <1>4
  <2> QED BY <1>2, <2>1
<1> QED BY <1>3, <1>4

\* From a place to the next.
LEMMA StreamGoesOn ==
  ASSUME NEW g, Stream(g), NEW i \in 0 .. (g.n - 1)
  PROVE  /\ g.n \in Nat /\ i \in 0 .. g.n /\ i + 1 \in 0 .. g.n
         /\ g.pdu[i] \in RlcPdus /\ g.pdu[i] \in PdusOf(AllBytes) /\ Follows(g, i)
         /\ g.at[i] \in Cursor /\ g.at[i + 1] \in Cursor /\ Place(g.sdus, g.at[i])
         /\ g.at[i][1] \in Nat /\ g.at[i + 1][1] \in Nat /\ g.at[i][1] <= g.at[i + 1][1]
         /\ Aligned(g, i + 1) = g.pdu[i].end
<1>1. g.n \in Nat /\ i \in 0 .. g.n /\ i + 1 \in 0 .. g.n /\ i + 1 # 0 /\ (i + 1) - 1 = i
  <2>1. g.n \in Nat
    BY DEF Stream
  <2> QED BY <2>1
<1> DEFINE p == g.pdu[i]
           c == g.at[i]
           d == g.at[i + 1]
<1>2. /\ p \in RlcPdus /\ Follows(g, i) /\ c \in Cursor /\ d \in Cursor /\ Place(g.sdus, c)
      /\ Carries(g.sdus, p, c, d)
  BY <1>1 DEF Stream, Follows
<1>3. p \in PdusOf(AllBytes)
  BY <1>2, SamePdus
<1>4. p.end \in BOOLEAN
  BY <1>3 DEF PdusOf
<1>5. c[1] \in Nat /\ d[1] \in Nat
  BY <1>2 DEF Cursor
<1>6. c[1] <= d[1]
  <2> DEFINE l == Len(p.segs) - 1
  <2>1. l \in Nat
    <3> DEFINE U == Seq(AllBytes)
               q == p.segs
    <3>1. q \in Seq(U) /\ q # <<>>
      BY <1>3 DEF PdusOf
    <3> HIDE DEF U, q
    <3>2. Len(q) - 1 \in Nat
      BY <3>1
    <3> QED BY <3>2 DEF q
  <2>2. d[1] = c[1] + l \/ d[1] = c[1] + l + 1
    BY <1>2 DEF Carries
  <2> HIDE DEF l, c, d
  <2> QED BY <1>5, <2>1, <2>2
<1>7. Aligned(g, i + 1) = p.end
  BY <1>1, <1>4 DEF Aligned
<1> QED BY <1>1, <1>2, <1>3, <1>5, <1>6, <1>7

-----------------------------------------------------------------------------
(* The receiver along the stream.                                          *)

\* vr_ur is at the PDU R, vr_uh at h, and the PDUs from a on are there.
At(g, R, a, h, r) ==
    /\ r \in RxStates(AllBytes)
    /\ R \in 0 .. g.n /\ a \in 0 .. g.n /\ h \in 0 .. g.n
    /\ R <= a /\ a <= h /\ h - R <= WINDOW
    /\ r.vr_ur = g.sn[R] /\ r.vr_uh = g.sn[h]
    /\ r.window = {g.pdu[i] : i \in a .. (h - 1)}

\* What is reassembled, and what was written, is as the stream has it at R.
Behaves(g, s, R, r) ==
    /\ Holds(g.sdus, g.at[R], Aligned(g, R), r)
    /\ Wrote(g.sdus, s, g.at[R][1], r)

\* The numbers of a receiver at a place of the stream.
LEMMA AtNumbers ==
  ASSUME NEW g, Stream(g), NEW R, NEW a, NEW h, NEW r, At(g, R, a, h, r)
  PROVE  /\ g.n \in Nat /\ R \in Nat /\ a \in Nat /\ h \in Nat /\ R <= a /\ a <= h /\ h <= g.n
         /\ h - R \in 0 .. WINDOW /\ h - R \in 0 .. SN_MOD
         /\ r.vr_ur \in Nums /\ r.vr_uh = Plus(r.vr_ur, h - R)
         /\ \A i \in a .. (h - 1) : /\ i \in 0 .. (g.n - 1) /\ i \in 0 .. g.n
                                    /\ g.pdu[i].sn = g.sn[i] /\ g.pdu[i] \in r.window
<1>1. g.n \in Nat
  BY DEF Stream
<1>2. /\ R \in 0 .. g.n /\ a \in 0 .. g.n /\ h \in 0 .. g.n
      /\ R <= a /\ a <= h /\ h - R <= WINDOW
      /\ r.vr_ur = g.sn[R] /\ r.vr_uh = g.sn[h]
      /\ r.window = {g.pdu[i] : i \in a .. (h - 1)}
  BY DEF At
<1>3. /\ R \in Nat /\ a \in Nat /\ h \in Nat /\ h <= g.n /\ R <= h
      /\ h - R \in 0 .. WINDOW /\ h - R \in 0 .. SN_MOD /\ h - R <= SN_MOD
  BY <1>1, <1>2
<1>4. g.sn[R] \in Nums /\ g.sn[h] = Plus(g.sn[R], h - R)
  BY <1>2, <1>3, StreamFrom
<1>5. ASSUME NEW i \in a .. (h - 1)
      PROVE  /\ i \in 0 .. (g.n - 1) /\ i \in 0 .. g.n
             /\ g.pdu[i].sn = g.sn[i] /\ g.pdu[i] \in r.window
  <2>1. i \in 0 .. (g.n - 1) /\ i \in 0 .. g.n
    BY <1>1, <1>2
  <2>2. Follows(g, i)
    BY <2>1 DEF Stream
  <2> QED BY <1>2, <2>1, <2>2 DEF Follows
<1> QED BY <1>1, <1>2, <1>3, <1>4, <1>5

\* Its window has the PDUs of the stream and no other.
LEMMA AtWindow ==
  ASSUME NEW g, Stream(g), NEW R, NEW a, NEW h, NEW r, At(g, R, a, h, r),
         NEW i \in 0 .. g.n, R <= i, i - R < SN_MOD
  PROVE  /\ InWindow(r, g.sn[i]) <=> i \in a .. (h - 1)
         /\ i \in a .. (h - 1) => PduOf(r, g.sn[i]) = g.pdu[i]
<1>1. /\ g.n \in Nat /\ R \in Nat /\ a \in Nat /\ h \in Nat /\ R <= a /\ a <= h /\ h <= g.n
      /\ h - R \in 0 .. WINDOW
      /\ \A k \in a .. (h - 1) : k \in 0 .. g.n /\ g.pdu[k].sn = g.sn[k] /\ g.pdu[k] \in r.window
  BY AtNumbers
<1>2. r.window = {g.pdu[k] : k \in a .. (h - 1)}
  BY DEF At
<1>3. ASSUME NEW p \in r.window, p.sn = g.sn[i]
      PROVE  i \in a .. (h - 1) /\ p = g.pdu[i]
  <2>1. PICK k \in a .. (h - 1) : p = g.pdu[k]
    BY <1>2
  <2>2. k \in 0 .. g.n /\ g.sn[i] = g.sn[k] /\ i - k < SN_MOD /\ k - i < SN_MOD
    BY <1>1, <1>3, <2>1
  <2>3. i = k
    BY <2>2, StreamOnce
  <2> QED BY <2>1, <2>3
<1>4. InWindow(r, g.sn[i]) => i \in a .. (h - 1)
  BY <1>3 DEF InWindow
<1>5. ASSUME i \in a .. (h - 1) PROVE InWindow(r, g.sn[i]) /\ PduOf(r, g.sn[i]) = g.pdu[i]
  <2>1. g.pdu[i] \in r.window /\ g.pdu[i].sn = g.sn[i]
    BY <1>1, <1>5
  <2> QED BY <1>3, <2>1 DEF InWindow, PduOf
<1> QED BY <1>4, <1>5

\* The window spans what is between vr_ur and vr_uh.
LEMMA AtSpans ==
  ASSUME NEW g, Stream(g), NEW R, NEW a, NEW h, NEW r, At(g, R, a, h, r)
  PROVE  r \in Spanning(AllBytes, h - R) /\ r \in RxStates(AllBytes)
<1>1. /\ g.n \in Nat /\ R \in Nat /\ a \in Nat /\ h \in Nat /\ R <= a /\ a <= h /\ h <= g.n
      /\ h - R \in 0 .. WINDOW /\ r.vr_uh = Plus(r.vr_ur, h - R)
      /\ \A k \in a .. (h - 1) : k \in 0 .. g.n /\ g.pdu[k].sn = g.sn[k] /\ g.pdu[k] \in r.window
  BY AtNumbers
<1>2. /\ r.window = {g.pdu[k] : k \in a .. (h - 1)} /\ r.vr_ur = g.sn[R] /\ R \in 0 .. g.n
      /\ r \in RxStates(AllBytes)
  BY DEF At
<1>3. Distinct(r)
  <2> SUFFICES ASSUME NEW p \in r.window, NEW q \in r.window, p.sn = q.sn PROVE p = q
    BY DEF Distinct
  <2>1. PICK i \in a .. (h - 1) : p = g.pdu[i]
    BY <1>2
  <2>2. PICK k \in a .. (h - 1) : q = g.pdu[k]
    BY <1>2
  <2>3. /\ i \in 0 .. g.n /\ k \in 0 .. g.n /\ g.sn[i] = g.sn[k]
        /\ i - k < SN_MOD /\ k - i < SN_MOD
    BY <1>1, <2>1, <2>2
  <2>4. i = k
    BY <2>3, StreamOnce
  <2> QED BY <2>1, <2>2, <2>4
<1>4. ASSUME NEW p \in r.window PROVE \E j \in 0 .. ((h - R) - 1) : p.sn = Plus(r.vr_ur, j)
  <2>1. PICK i \in a .. (h - 1) : p = g.pdu[i]
    BY <1>2
  <2>2. i \in 0 .. g.n /\ R <= i /\ i - R <= SN_MOD /\ i - R \in 0 .. ((h - R) - 1)
        /\ p.sn = g.sn[i]
    BY <1>1, <2>1
  <2>3. g.sn[i] = Plus(g.sn[R], i - R)
    BY <1>2, <2>2, StreamFrom
  <2> QED BY <1>2, <2>2, <2>3
<1> QED BY <1>1, <1>2, <1>3, <1>4 DEF Spanning, Span

\* The timer is as before.
SameTimer(r, x) == x.vr_ux = r.vr_ux /\ x.running = r.running

\* The PDU vr_ur is passed on: vr_ur is at the next.
LEMMA PassAt ==
  ASSUME NEW g, Stream(g), NEW R, NEW h, NEW r, At(g, R, R, h, r), R < h,
         NEW s \in Seq(Seq(AllBytes)), Behaves(g, s, R, r), NEW unused
  PROVE  LET x == PassSn(r, unused) IN
           At(g, R + 1, R + 1, h, x) /\ Behaves(g, s, R + 1, x) /\ SameTimer(r, x)
<1> DEFINE x == PassSn(r, unused)
           p == g.pdu[R]
           y == Absorb(p, r)
<1>1. /\ g.n \in Nat /\ R \in Nat /\ h \in Nat /\ R <= h /\ h <= g.n
      /\ h - R \in 0 .. WINDOW /\ h - R \in 0 .. SN_MOD /\ r.vr_ur \in Nums
      /\ \A k \in R .. (h - 1) : k \in 0 .. g.n /\ g.pdu[k].sn = g.sn[k] /\ g.pdu[k] \in r.window
  BY AtNumbers
<1>2. /\ r.window = {g.pdu[k] : k \in R .. (h - 1)} /\ r.vr_ur = g.sn[R] /\ r.vr_uh = g.sn[h]
      /\ r \in RxStates(AllBytes)
  BY DEF At
<1>3. R \in R .. (h - 1) /\ R \in 0 .. (g.n - 1) /\ R \in 0 .. g.n /\ R - R < SN_MOD
      /\ R + 1 \in 0 .. g.n /\ h \in 0 .. g.n /\ R + 1 <= h /\ h - (R + 1) <= WINDOW
      /\ R + 1 \in (R + 1) .. h
  BY <1>1
<1>4. InWindow(r, r.vr_ur) /\ PduOf(r, r.vr_ur) = p
  BY <1>1, <1>2, <1>3, AtWindow
<1>5. /\ p \in PdusOf(AllBytes) /\ Follows(g, R) /\ g.at[R] \in Cursor /\ g.at[R + 1] \in Cursor
      /\ Place(g.sdus, g.at[R]) /\ Aligned(g, R + 1) = p.end
  BY <1>3, StreamGoesOn
<1>6. /\ g.sn[R + 1] = Plus(g.sn[R], 1) /\ p.start = Aligned(g, R)
      /\ Carries(g.sdus, p, g.at[R], g.at[R + 1])
  BY <1>5 DEF Follows
<1>7. Holds(g.sdus, g.at[R + 1], p.end, y) /\ Wrote(g.sdus, s, g.at[R + 1][1], y)
  <2>1. g.sdus \in Seq(AllSdus)
    BY DEF Stream
  <2>2. Holds(g.sdus, g.at[R], p.start, r) /\ Wrote(g.sdus, s, g.at[R][1], r)
    BY <1>6 DEF Behaves
  <2> HIDE DEF p, y
  <2> QED BY <1>2, <1>5, <1>6, <2>1, <2>2, AbsorbInOrder DEF y
<1>8. y \in SameWindow(AllBytes, r)
  BY <1>2, <1>5, AbsorbKeeps
<1>9. /\ x \in RxStates(AllBytes) /\ x.vr_ur = Plus(r.vr_ur, 1) /\ x.vr_ux = r.vr_ux
      /\ x.vr_uh = r.vr_uh /\ x.running = r.running /\ x.window = r.window \ {p}
  BY <1>2, <1>4, PassShape DEF Used
<1>10. x.rx_sdu = y.rx_sdu /\ x.pdu_lost = y.pdu_lost /\ x.out = y.out
  <2>1. y \in RxStates(AllBytes)
    BY <1>8 DEF SameWindow
  <2> HIDE DEF p
  <2>2. x = [[Absorb(p, r) EXCEPT !.window = @ \ {p}] EXCEPT !.vr_ur = (@ + 1) % SN_MOD]
    BY <1>4 DEF PassSn
  <2> HIDE DEF x, y
  <2> QED BY <2>1, <2>2 DEF RxStates, y
<1>11. x.window = {g.pdu[k] : k \in (R + 1) .. (h - 1)}
  <2>1. ASSUME NEW k \in (R + 1) .. (h - 1) PROVE k \in R .. (h - 1) /\ g.pdu[k] # p
    <3>1. k \in R .. (h - 1) /\ k # R /\ k - R < SN_MOD /\ R - k < SN_MOD
      BY <1>1
    <3>2. g.sn[k] # g.sn[R]
      BY <1>1, <1>3, <3>1, StreamOnce
    <3> QED BY <1>1, <1>3, <3>1, <3>2
  <2>2. ASSUME NEW k \in R .. (h - 1) PROVE k = R \/ k \in (R + 1) .. (h - 1)
    BY <1>1
  <2> HIDE DEF x
  <2> QED BY <1>2, <1>9, <2>1, <2>2
<1> HIDE DEF x, y
<1>12. At(g, R + 1, R + 1, h, x)
  <2>1. R + 1 <= R + 1
    BY <1>1
  <2> QED BY <1>2, <1>3, <1>6, <1>9, <1>11, <2>1 DEF At
<1>13. Behaves(g, s, R + 1, x)
  BY <1>5, <1>7, <1>10 DEF Behaves, Holds, Wrote
<1> QED BY <1>9, <1>12, <1>13 DEF SameTimer, x

\* All PDUs up to vr_uh are passed on, one after the other.
LEMMA PassAll ==
  ASSUME NEW g, Stream(g), NEW R, NEW h, NEW r, At(g, R, R, h, r),
         NEW s \in Seq(Seq(AllBytes)), Behaves(g, s, R, r)
  PROVE  LET x == Pass(r, h - R) IN
           At(g, h, h, h, x) /\ Behaves(g, s, h, x) /\ SameTimer(r, x)
<1> DEFINE D == RxStates(AllBytes)
           n == h - R
<1>1. R \in Nat /\ h \in Nat /\ R <= h /\ n \in Nat /\ n \in 0 .. WINDOW
  <2>1. R \in Nat /\ h \in Nat /\ R <= h /\ n \in 0 .. WINDOW
    BY AtNumbers
  <2> HIDE DEF n
  <2> QED BY <2>1
<1>2. r \in D
  BY DEF At
<1>3. ClosedUnderPassSn(D, n)
  BY PassShape DEF ClosedUnderPassSn
<1> HIDE DEF D
<1>4. PICK f \in [0 .. n -> D] : PassedBy(f, n, r)
  <2> HIDE DEF n
  <2> QED BY <1>1, <1>2, <1>3, PassTrace
<1>5. /\ f[0] = r /\ f[n] = Pass(r, n)
      /\ \A i \in 1 .. n : f[i] = PassSn(f[i - 1], i)
  BY <1>4 DEF PassedBy
<1> DEFINE Passed(i) == /\ At(g, R + i, R + i, h, f[i]) /\ Behaves(g, s, R + i, f[i])
                        /\ SameTimer(r, f[i])
           P == {i \in 0 .. n : Passed(i)}
<1>6. Passed(0)
  <2>1. R + 0 = R
    BY <1>1
  <2> QED BY <1>5, <2>1 DEF SameTimer
<1>7. ASSUME NEW i \in 0 .. (n - 1), Passed(i) PROVE Passed(i + 1)
  <2>1. /\ i + 1 \in 1 .. n /\ (i + 1) - 1 = i /\ R + i < h /\ (R + i) + 1 = R + (i + 1)
    BY <1>1
  <2> DEFINE k == R + i
             y == f[i]
  <2>2. f[i + 1] = PassSn(y, i + 1)
    BY <1>5, <2>1
  <2>3. At(g, k, k, h, y) /\ Behaves(g, s, k, y) /\ SameTimer(r, y) /\ k < h
    BY <1>7, <2>1
  <2> HIDE DEF k, y
  <2>4. /\ At(g, k + 1, k + 1, h, PassSn(y, i + 1)) /\ Behaves(g, s, k + 1, PassSn(y, i + 1))
        /\ SameTimer(y, PassSn(y, i + 1))
    BY <2>3, PassAt
  <2>5. k + 1 = R + (i + 1)
    BY <2>1 DEF k
  <2> QED BY <2>2, <2>3, <2>4, <2>5 DEF SameTimer
<1> HIDE DEF Passed
<1>8. 0 .. n \subseteq P
  <2>1. 0 \in P
    BY <1>1, <1>6
  <2>2. \A i \in 0 .. (n - 1) : i \in P => i + 1 \in P
    BY <1>1, <1>7
  <2> HIDE DEF P, n
  <2> QED BY <1>1, <2>1, <2>2, InductionTo
<1>9. Passed(n) /\ R + n = h
  <2>1. n \in P
    BY <1>1, <1>8
  <2> QED BY <1>1, <2>1
<1> QED BY <1>5, <1>9 DEF Passed

\* Nothing to pass on.
LEMMA PassNone ==
  ASSUME NEW r
  PROVE  Pass(r, 0) = r
<1>1. 0 \in Nat /\ r \in {r} /\ ClosedUnderPassSn({r}, 0)
  BY DEF ClosedUnderPassSn
<1>2. PICK f \in [0 .. 0 -> {r}] : PassedBy(f, 0, r)
  BY ONLY <1>1, PassTrace
<1> QED BY <1>2 DEF PassedBy

\* The PDU of vr_ur is missing: the loops end at once.
LEMMA NoneInSequence ==
  ASSUME NEW r, r.vr_ur \in Nums, ~InWindow(r, r.vr_ur)
  PROVE  InSequence(r) = 0
<1> DEFINE There(j) == InWindow(r, (r.vr_ur + j) % SN_MOD)
           Is(j) == ~There(j) /\ \A i \in 0 .. (j - 1) : There(i)
<1>1. (r.vr_ur + 0) % SN_MOD = r.vr_ur
  BY PlusZero DEF Plus
<1>2. ~There(0)
  BY <1>1
<1>3. InSequence(r) = CHOOSE m \in 0 .. SN_MOD : Is(m)
  BY DEF InSequence
<1> HIDE DEF There
<1>4. Is(0) /\ 0 \in 0 .. SN_MOD
  BY <1>2
<1>5. ASSUME NEW m \in 0 .. SN_MOD, Is(m) PROVE m = 0
  <2> SUFFICES ASSUME m # 0 PROVE FALSE
    OBVIOUS
  <2>1. 0 \in 0 .. (m - 1)
    OBVIOUS
  <2> QED BY <1>2, <1>5, <2>1
<1> HIDE DEF Is
<1> QED BY <1>3, <1>4, <1>5

\* vr_ur is inside the reordering window.
LEMMA NotBehind ==
  ASSUME NEW g, Stream(g), NEW R, NEW a, NEW h, NEW r, At(g, R, a, h, r), R < h
  PROVE  reassemble_rx_sdus(r) = Pass(r, InSequence(r))
<1> DEFINE k == h - R
<1>1. k \in 1 .. SN_MOD /\ ~(k > WINDOW)
  <2>1. R \in Nat /\ h \in Nat /\ h - R \in 0 .. WINDOW
    BY AtNumbers
  <2> QED BY <2>1
<1>2. r \in Spanning(AllBytes, k)
  BY AtSpans
<1> HIDE DEF k
<1>3. Behind(r) = 0
  BY <1>1, <1>2, BehindIs
<1> QED BY <1>3, PassNone DEF reassemble_rx_sdus

\* reassemble_rx_sdus() when no PDU is missing.
LEMMA ReassembleAll ==
  ASSUME NEW g, Stream(g), NEW R, NEW h, NEW r, At(g, R, R, h, r), R < h,
         NEW s \in Seq(Seq(AllBytes)), Behaves(g, s, R, r)
  PROVE  LET x == reassemble_rx_sdus(r) IN
           At(g, h, h, h, x) /\ Behaves(g, s, h, x) /\ SameTimer(r, x)
<1> DEFINE k == h - R
           j == InSequence(r)
<1>1. /\ R \in Nat /\ h \in Nat /\ h <= g.n /\ g.n \in Nat
      /\ k \in 0 .. WINDOW /\ r.vr_ur \in Nums /\ r.vr_ur = g.sn[R] /\ R \in 0 .. g.n
  BY AtNumbers DEF At
<1>2. r \in Spanning(AllBytes, k)
  BY AtSpans
<1>3. j \in 0 .. k /\ ~InWindow(r, Plus(r.vr_ur, j))
  <2> HIDE DEF k
  <2> QED BY <1>1, <1>2, InSequenceIs
<1> HIDE DEF j
<1>4. j = k
  <2> SUFFICES ASSUME j # k PROVE FALSE
    OBVIOUS
  <2>1. /\ R + j \in 0 .. g.n /\ R <= R + j /\ (R + j) - R < SN_MOD /\ R + j \in R .. (h - 1)
        /\ j \in 0 .. SN_MOD /\ R + j <= g.n
    BY <1>1, <1>3
  <2>2. g.sn[R + j] = Plus(g.sn[R], j)
    BY <1>1, <2>1, StreamSn
  <2> QED BY <1>1, <1>3, <2>1, <2>2, AtWindow
<1>5. reassemble_rx_sdus(r) = Pass(r, h - R)
  BY <1>4, NotBehind DEF j
<1> QED BY <1>5, PassAll

\* reassemble_rx_sdus() when the first PDU is missing.
LEMMA ReassembleNone ==
  ASSUME NEW g, Stream(g), NEW R, NEW a, NEW h, NEW r, At(g, R, a, h, r), R < a, R < h
  PROVE  reassemble_rx_sdus(r) = r
<1>1. /\ R \in Nat /\ a \in Nat /\ r.vr_ur \in Nums /\ r.vr_ur = g.sn[R] /\ R \in 0 .. g.n
  BY AtNumbers DEF At
<1>2. ~(R \in a .. (h - 1)) /\ R <= R /\ R - R < SN_MOD
  BY <1>1
<1>3. ~InWindow(r, r.vr_ur)
  BY <1>1, <1>2, AtWindow
<1> QED BY <1>1, <1>3, NoneInSequence, NotBehind, PassNone

-----------------------------------------------------------------------------
(* The operations of the receiver along the stream.                        *)

\* All PDUs are passed on, or one at least is missing before the first.
Rest(g, R, a, h, r) == At(g, R, a, h, r) /\ ((R = a /\ a = h) \/ (R < a /\ a < h))

\* The timer waits for PDUs before vr_ux, which is between vr_ur and vr_uh.
Waits(g, R, h, r) == \E X \in (R + 1) .. h : r.vr_ux = g.sn[X]

\* What a step of the receiver leaves behind.
Rests(g, s, R, h, x) ==
    \E R1 \in R .. h : \E a1 \in 0 .. h :
      /\ Rest(g, R1, a1, h, x) /\ Behaves(g, s, R1, x)
      /\ x.running => Waits(g, R1, h, x)
      /\ R1 < h => x.running

\* x differs from r in its window and its timer only.
SameReassembly(r, x) ==
    /\ x \in RxStates(AllBytes) /\ x.vr_ur = r.vr_ur
    /\ x.rx_sdu = r.rx_sdu /\ x.pdu_lost = r.pdu_lost /\ x.out = r.out

\* x differs from r in its timer only.
Retimes(r, x) == SameReassembly(r, x) /\ x.vr_uh = r.vr_uh /\ x.window = r.window

\* The timer has no part in what is received.
LEMMA Retimed ==
  ASSUME NEW g, NEW s, NEW R, NEW a, NEW h, NEW r, At(g, R, a, h, r), Behaves(g, s, R, r),
         NEW x, Retimes(r, x)
  PROVE  At(g, R, a, h, x) /\ Behaves(g, s, R, x)
<1>1. At(g, R, a, h, x)
  BY DEF At, Retimes, SameReassembly
<1>2. Behaves(g, s, R, x)
  BY DEF Behaves, Holds, Wrote, Retimes, SameReassembly
<1> QED BY <1>1, <1>2

\* The timer is started or stopped.
LEMMA TimerSet ==
  ASSUME NEW r \in RxStates(AllBytes), NEW b \in BOOLEAN, NEW X \in Nums
  PROVE  LET x == [r EXCEPT !.running = b]
             y == [r EXCEPT !.running = b, !.vr_ux = X]
         IN /\ Retimes(r, x) /\ x.running = b /\ x.vr_ux = r.vr_ux
            /\ Retimes(r, y) /\ y.running = b /\ y.vr_ux = X
BY DEF RxStates, Retimes, SameReassembly

\* The comparisons of sequence numbers, in terms of the stream.
LEMMA BasesAt ==
  ASSUME NEW g, Stream(g), NEW R, NEW a, NEW h, NEW r, At(g, R, a, h, r)
  PROVE  /\ RX_MOD_BASE(r, r.vr_uh) = WINDOW /\ RX_MOD_BASE(r, r.vr_uh - WINDOW) = 0
         /\ RX_MOD_BASE(r, r.vr_ur) = WINDOW - (h - R)
<1> DEFINE k == h - R
<1>1. k \in 0 .. WINDOW /\ k \in 0 .. SN_MOD /\ r.vr_ur \in Nums /\ r.vr_uh = Plus(r.vr_ur, k)
  BY AtNumbers
<1> HIDE DEF k
<1>2. r.vr_uh \in Nums /\ 0 \in 0 .. SN_MOD /\ Plus(r.vr_ur, 0) = r.vr_ur
  BY <1>1, PlusFacts, PlusZero
<1>3. RX_MOD_BASE(r, Plus(r.vr_ur, 0)) = Base(k, 0)
  BY <1>1, <1>2, BaseOfPlus
<1>4. Base(k, 0) = WINDOW - k
  BY <1>1 DEF Base
<1> QED BY <1>2, <1>3, <1>4, BasesOfEdges DEF k

\* The timer is started if a PDU is missing.
LEMMA ArmAt ==
  ASSUME NEW g, Stream(g), NEW s, NEW R, NEW a, NEW h, NEW r, Rest(g, R, a, h, r),
         Behaves(g, s, R, r), ~r.running
  PROVE  Rests(g, s, R, h, arm(r))
<1>1. /\ R \in Nat /\ h \in Nat /\ h - R \in 0 .. WINDOW /\ a \in Nat /\ R <= a /\ a <= h
      /\ r.vr_ur \in Nums
  BY AtNumbers DEF Rest
<1>2. R \in R .. h /\ a \in 0 .. h
  BY <1>1
<1>3. RX_MOD_BASE(r, r.vr_uh) > RX_MOD_BASE(r, r.vr_ur) <=> R < h
  <2>1. /\ RX_MOD_BASE(r, r.vr_uh) = WINDOW
        /\ RX_MOD_BASE(r, r.vr_ur) = WINDOW - (h - R)
    BY BasesAt DEF Rest
  <2> QED BY <1>1, <2>1
<1>4. CASE R < h
  <2> DEFINE n == r.vr_uh
             x == [r EXCEPT !.running = TRUE, !.vr_ux = n]
  <2>1. arm(r) = x
    BY <1>3, <1>4 DEF arm
  <2>2. r.vr_uh \in Nums /\ r.vr_uh = g.sn[h]
    BY DEF Rest, At, RxStates
  <2>3. Retimes(r, x) /\ x.running = TRUE /\ x.vr_ux = r.vr_uh
    <3>1. r \in RxStates(AllBytes) /\ TRUE \in BOOLEAN
      BY DEF Rest, At
    <3>2. n \in Nums
      BY <2>2
    <3> HIDE DEF n
    <3>3. Retimes(r, x) /\ x.running = TRUE /\ x.vr_ux = n
      BY ONLY <3>1, <3>2, TimerSet, ZenonT(150)
    <3> QED BY <3>3 DEF n
  <2> HIDE DEF x
  <2>4. At(g, R, a, h, x) /\ Behaves(g, s, R, x) /\ x.running = TRUE /\ x.vr_ux = r.vr_uh
    BY <2>3, Retimed DEF Rest
  <2>5. Waits(g, R, h, x)
    <3>1. h \in (R + 1) .. h
      BY <1>1, <1>4
    <3> QED BY <2>2, <2>4, <3>1 DEF Waits
  <2>6. Rest(g, R, a, h, x)
    BY <2>4 DEF Rest
  <2> QED BY <1>2, <2>1, <2>4, <2>5, <2>6 DEF Rests
<1>5. CASE ~(R < h)
  <2>1. arm(r) = r
    BY <1>3, <1>5 DEF arm
  <2> QED BY <1>2, <1>5, <2>1 DEF Rests
<1> QED BY <1>4, <1>5

\* A PDU from behind vr_uh, when all are passed on, is too late.
LEMMA HandleOld ==
  ASSUME NEW g, Stream(g), NEW h, NEW r, At(g, h, h, h, r),
         NEW c \in 0 .. (h - 1), h - c <= WINDOW
  PROVE  handle_data_pdu(r, g.pdu[c]) = r
<1> DEFINE p == g.pdu[c]
           d == h - c
<1>1. g.n \in Nat /\ h \in Nat /\ h <= g.n /\ r.vr_ur \in Nums /\ r.vr_uh = Plus(r.vr_ur, h - h)
  BY AtNumbers
<1>2. /\ c \in 0 .. (g.n - 1) /\ c \in 0 .. g.n /\ h \in 0 .. g.n /\ c <= h /\ h - c <= SN_MOD
      /\ d \in 1 .. WINDOW /\ h - h = 0
  BY <1>1
<1>3. p.sn = g.sn[c]
  BY <1>2 DEF Stream, Follows
<1>4. g.sn[c] \in Nums /\ g.sn[h] = Plus(g.sn[c], d)
  BY <1>2, StreamFrom
<1>5. r.vr_ur = g.sn[h] /\ r.vr_uh = Plus(r.vr_ur, 0)
  BY <1>1, <1>2 DEF At
<1> HIDE DEF d, p
<1>6. /\ d \in 0 .. SN_MOD /\ SN_MOD - d \in 0 .. SN_MOD /\ d + (SN_MOD - d) = SN_MOD
      /\ 0 \in 0 .. SN_MOD
  BY <1>2
<1>7. g.sn[c] = Plus(g.sn[h], SN_MOD - d)
  <2>1. Plus(Plus(g.sn[c], d), SN_MOD - d) = Plus(g.sn[c], d + (SN_MOD - d))
    BY <1>4, <1>6, PlusPlus
  <2>2. Plus(g.sn[c], SN_MOD) = g.sn[c]
    BY <1>4, PlusZero
  <2> QED BY <1>4, <1>6, <2>1, <2>2
<1>8. RX_MOD_BASE(r, Plus(r.vr_ur, SN_MOD - d)) = Base(0, SN_MOD - d)
  BY <1>1, <1>5, <1>6, BaseOfPlus
<1>9. Base(0, SN_MOD - d) = WINDOW - d
  BY <1>2 DEF Base
<1>10. RX_MOD_BASE(r, p.sn) = WINDOW - d
  BY <1>3, <1>5, <1>7, <1>8, <1>9
<1>11. RX_MOD_BASE(r, r.vr_uh - WINDOW) = 0 /\ RX_MOD_BASE(r, r.vr_ur) = WINDOW
  BY <1>2, BasesAt
<1>12. TooLate(r, p)
  BY <1>2, <1>10, <1>11 DEF TooLate
<1> QED BY <1>12 DEF handle_data_pdu, p

\* The next PDU, or the first after some that are lost, is stored.
LEMMA StoreNext ==
  ASSUME NEW g, Stream(g), NEW s, NEW R, NEW a, NEW h, NEW r, Rest(g, R, a, h, r),
         Behaves(g, s, R, r), NEW c \in h .. (g.n - 1), (c + 1) - R <= WINDOW,
         h < c => R = h,
         NEW x, SameReassembly(r, x), SameTimer(r, x), x.vr_uh = g.sn[c + 1],
         x.window = r.window \cup {g.pdu[c]}
  PROVE  \E a1 \in 0 .. c :
           /\ R <= a1 /\ At(g, R, a1, c + 1, x) /\ Behaves(g, s, R, x)
           /\ R = h /\ h = c => a1 = R
           /\ ~(R = h /\ h = c) => R < a1
<1> DEFINE p == g.pdu[c]
           a1 == IF R = h THEN c ELSE a
<1>1. /\ g.n \in Nat /\ h \in Nat /\ h <= g.n /\ R \in Nat /\ a \in Nat /\ R <= a /\ a <= h
  BY AtNumbers DEF Rest
<1>2. /\ c \in 0 .. (g.n - 1) /\ c \in Nat /\ c + 1 \in 0 .. g.n /\ R \in 0 .. g.n
      /\ h <= c /\ R <= c
  BY <1>1
<1>4. /\ r \in RxStates(AllBytes) /\ r.vr_ur = g.sn[R]
      /\ r.window = {g.pdu[i] : i \in a .. (h - 1)}
      /\ (R = a /\ a = h) \/ (R < a /\ a < h)
  BY DEF Rest, At
<1>5. /\ a1 \in 0 .. c /\ a1 \in 0 .. g.n /\ R <= a1 /\ a1 <= c + 1
      /\ R = h /\ h = c => a1 = R
      /\ ~(R = h /\ h = c) => R < a1
  BY <1>1, <1>2, <1>4
<1> HIDE DEF p
<1>6. /\ x \in RxStates(AllBytes) /\ x.vr_ur = r.vr_ur /\ x.vr_uh = g.sn[c + 1]
      /\ x.window = r.window \cup {p}
      /\ x.rx_sdu = r.rx_sdu /\ x.pdu_lost = r.pdu_lost /\ x.out = r.out
  BY DEF SameReassembly, p
<1>7. x.window = {g.pdu[i] : i \in a1 .. ((c + 1) - 1)}
  <2>1. CASE R = h
    <3>1. a1 .. ((c + 1) - 1) = {c} /\ a .. (h - 1) = {}
      BY <1>1, <1>2, <1>4, <2>1
    <3> HIDE DEF a1
    <3> QED BY <1>4, <1>6, <3>1 DEF p
  <2>2. CASE R # h
    <3>1. a1 .. ((c + 1) - 1) = (a .. (h - 1)) \cup {c}
      BY <1>1, <1>2, <1>4, <2>2
    <3> HIDE DEF a1
    <3> QED BY <1>4, <1>6, <3>1 DEF p
  <2> QED BY <2>1, <2>2
<1> HIDE DEF a1
<1>8. At(g, R, a1, c + 1, x)
  BY <1>2, <1>4, <1>5, <1>6, <1>7 DEF At
<1>9. Behaves(g, s, R, x)
  BY <1>6 DEF Behaves, Holds, Wrote
<1> QED BY <1>5, <1>8, <1>9

\* It is neither too late nor there already, and it raises vr_uh.
LEMMA NextIsTaken ==
  ASSUME NEW g, Stream(g), NEW R, NEW a, NEW h, NEW r, Rest(g, R, a, h, r),
         NEW c \in h .. (g.n - 1), (c + 1) - R <= WINDOW
  PROVE  LET p == g.pdu[c]
             stored == [r EXCEPT !.window = @ \cup {p}]
         IN /\ ~TooLate(r, p) /\ ~InWindow(r, p.sn)
            /\ ~inside_reordering_window(stored, p.sn)
            /\ (p.sn + 1) % SN_MOD = g.sn[c + 1]
<1> DEFINE p == g.pdu[c]
           k == h - R
           j == c - R
           stored == [r EXCEPT !.window = @ \cup {p}]
<1>1. /\ g.n \in Nat /\ h \in Nat /\ h <= g.n /\ R \in Nat /\ a \in Nat /\ R <= a /\ a <= h
      /\ k \in 0 .. WINDOW /\ r.vr_ur \in Nums /\ r.vr_uh = Plus(r.vr_ur, k)
  BY AtNumbers DEF Rest
<1>2. /\ c \in 0 .. (g.n - 1) /\ c \in 0 .. g.n /\ R \in 0 .. g.n /\ R <= c /\ c - R <= SN_MOD
      /\ c - R < SN_MOD /\ j \in 0 .. SN_MOD /\ k \in 0 .. SN_MOD /\ k <= j /\ j < WINDOW
      /\ ~(c \in a .. (h - 1)) /\ j \in Int
  BY <1>1
<1>3. At(g, R, a, h, r) /\ r.vr_ur = g.sn[R] /\ r \in RxStates(AllBytes)
  BY DEF Rest, At
<1>4. Follows(g, c)
  BY <1>2 DEF Stream
<1>5. p.sn = g.sn[c] /\ (p.sn + 1) % SN_MOD = g.sn[c + 1]
  BY <1>4 DEF Follows, Plus
<1>6. g.sn[c] = Plus(r.vr_ur, j)
  BY <1>2, <1>3, StreamFrom
<1> HIDE DEF j, k, p
<1>7. RX_MOD_BASE(r, p.sn) = Base(k, j)
  BY <1>1, <1>2, <1>5, <1>6, BaseOfPlus
<1>8. Base(k, j) = (j - k) + WINDOW
  BY <1>1, <1>2 DEF Base
<1>9. /\ RX_MOD_BASE(r, r.vr_uh) = WINDOW
      /\ RX_MOD_BASE(r, r.vr_ur) = WINDOW - k
  BY <1>3, BasesAt DEF k
<1>10. ~TooLate(r, p)
  BY <1>1, <1>2, <1>7, <1>8, <1>9 DEF TooLate
<1>11. ~InWindow(r, p.sn)
  BY <1>2, <1>3, <1>5, AtWindow
<1>12. ~inside_reordering_window(stored, p.sn)
  <2>1. stored.vr_uh = r.vr_uh
    BY <1>3 DEF RxStates
  <2> HIDE DEF stored
  <2>2. /\ RX_MOD_BASE(stored, p.sn) = RX_MOD_BASE(r, p.sn)
        /\ RX_MOD_BASE(stored, stored.vr_uh) = RX_MOD_BASE(r, r.vr_uh)
    BY <2>1 DEF RX_MOD_BASE
  <2> QED BY <1>1, <1>2, <1>7, <1>8, <1>9, <2>2 DEF inside_reordering_window
<1> QED BY <1>5, <1>10, <1>11, <1>12 DEF p

\* A PDU of the stream from vr_uh on is received: those between are missing.
LEMMA HandleNext ==
  ASSUME NEW g, Stream(g), NEW s \in Seq(Seq(AllBytes)),
         NEW R, NEW a, NEW h, NEW r, Rest(g, R, a, h, r),
         Behaves(g, s, R, r), r.running => Waits(g, R, h, r),
         NEW c \in h .. (g.n - 1), (c + 1) - R <= WINDOW, h < c => R = h
  PROVE  Rests(g, s, R, c + 1, handle_data_pdu(r, g.pdu[c]))
<1> DEFINE p == g.pdu[c]
           stored == [r EXCEPT !.window = @ \cup {p}]
           raised == [stored EXCEPT !.vr_uh = (p.sn + 1) % SN_MOD]
           put == reassemble_rx_sdus(raised)
           timed == IF put.running /\ TimerDone(put)
                    THEN [put EXCEPT !.running = FALSE] ELSE put
           x == handle_data_pdu(r, p)
<1>1. /\ g.n \in Nat /\ h \in Nat /\ h <= g.n /\ R \in Nat /\ a \in Nat /\ R <= a /\ a <= h
      /\ h \in 0 .. g.n /\ R \in 0 .. g.n /\ c \in Nat /\ h <= c /\ R < c + 1
  <2>1. /\ g.n \in Nat /\ h \in Nat /\ h <= g.n /\ R \in Nat /\ a \in Nat /\ R <= a /\ a <= h
    BY AtNumbers DEF Rest
  <2> QED BY <2>1
<1>2. /\ ~TooLate(r, p) /\ ~InWindow(r, p.sn)
      /\ ~inside_reordering_window(stored, p.sn)
      /\ (p.sn + 1) % SN_MOD = g.sn[c + 1]
  BY NextIsTaken
<1>3. x = IF timed.running THEN timed ELSE arm(timed)
  BY <1>2 DEF handle_data_pdu
<1>4. r \in RxStates(AllBytes)
  BY DEF Rest, At
<1>5. /\ SameReassembly(r, raised) /\ SameTimer(r, raised)
      /\ raised.vr_uh = g.sn[c + 1] /\ raised.window = r.window \cup {p}
  <2>1. /\ c \in 0 .. (g.n - 1) /\ c + 1 \in 0 .. g.n
    BY <1>1
  <2>2. p \in PdusOf(AllBytes)
    BY <2>1, StreamGoesOn
  <2>3. g.sn[c + 1] \in Nums
    BY <2>1 DEF Stream
  <2> HIDE DEF p
  <2>4. raised = [r EXCEPT !.window = r.window \cup {p}, !.vr_uh = g.sn[c + 1]]
    BY <1>2, <1>4 DEF RxStates
  <2> HIDE DEF raised
  <2> QED BY <1>4, <2>2, <2>3, <2>4 DEF RxStates, SameReassembly, SameTimer
<1> HIDE DEF p, stored, raised, put, timed, x
<1>6. PICK a1 \in 0 .. c :
        /\ R <= a1 /\ At(g, R, a1, c + 1, raised) /\ Behaves(g, s, R, raised)
        /\ R = h /\ h = c => a1 = R
        /\ ~(R = h /\ h = c) => R < a1
  BY <1>5, StoreNext DEF p
\* Wherever vr_ur comes to, the timer is as it should be.
<1>7. ASSUME NEW R2 \in R .. (c + 1), NEW a2 \in 0 .. (c + 1), Rest(g, R2, a2, c + 1, put),
             Behaves(g, s, R2, put), put.running => Waits(g, R2, c + 1, put)
      PROVE  Rests(g, s, R, c + 1, x)
  <2>1. put.running \in BOOLEAN
    BY <1>7 DEF Rest, At, RxStates
  <2>2. /\ Rest(g, R2, a2, c + 1, timed) /\ Behaves(g, s, R2, timed)
        /\ timed.running => Waits(g, R2, c + 1, timed)
    <3>1. CASE timed = put
      BY <1>7, <3>1
    <3>2. CASE timed # put
      <4> DEFINE y == [put EXCEPT !.running = FALSE]
      <4>1. timed = y
        BY <3>2 DEF timed
      <4>2. At(g, R2, a2, c + 1, put) /\ put \in RxStates(AllBytes) /\ FALSE \in BOOLEAN /\ 0 \in Nums
        BY <1>7 DEF Rest, At, Nums
      <4>4. Retimes(put, y) /\ y.running = FALSE
        BY <4>2, TimerSet
      <4> HIDE DEF y
      <4>3. At(g, R2, a2, c + 1, y) /\ Behaves(g, s, R2, y)
        BY <1>7, <4>2, <4>4, Retimed
      <4> QED BY <1>7, <4>1, <4>3, <4>4 DEF Rest
    <3> QED BY <3>1, <3>2
  <2>3. R2 \in Nat /\ R <= R2 /\ R2 <= c + 1
    BY <1>1
  <2>4. CASE timed.running
    <3>1. x = timed
      BY <1>3, <2>4
    <3> QED BY <2>2, <2>4, <3>1 DEF Rests
  <2>5. CASE ~timed.running
    <3>1. Rests(g, s, R2, c + 1, arm(timed))
      BY <2>2, <2>5, ArmAt
    <3>2. x = arm(timed)
      BY <1>3, <2>5
    <3>3. \A i \in R2 .. (c + 1) : i \in R .. (c + 1)
      BY <1>1, <2>3
    <3> QED BY <3>1, <3>2, <3>3 DEF Rests
  <2> QED BY <2>4, <2>5
<1>8. CASE R = h /\ h = c
  <2>1. a1 = R
    BY <1>6, <1>8
  <2>2. At(g, c + 1, c + 1, c + 1, put) /\ Behaves(g, s, c + 1, put) /\ SameTimer(raised, put)
    BY <1>1, <1>6, <2>1, ReassembleAll DEF put
  <2>3. ~r.running
    <3>1. (R + 1) .. h = {}
      BY <1>1, <1>8
    <3> QED BY <3>1 DEF Waits
  <2>4. c + 1 \in R .. (c + 1) /\ c + 1 \in 0 .. (c + 1)
    BY <1>1
  <2>5. ~put.running
    BY <1>5, <2>2, <2>3 DEF SameTimer
  <2>6. Rest(g, c + 1, c + 1, c + 1, put)
    BY <2>2 DEF Rest
  <2> QED BY <1>7, <2>2, <2>4, <2>5, <2>6 DEF x, p
<1>9. CASE ~(R = h /\ h = c)
  <2>1. R < a1
    BY <1>6, <1>9
  <2>2. put = raised
    BY <1>1, <1>6, <2>1, ReassembleNone DEF put
  <2>3. R \in R .. (c + 1) /\ a1 \in 0 .. (c + 1) /\ a1 < c + 1
    BY <1>1
  <2>4. ASSUME put.running PROVE Waits(g, R, c + 1, put)
    <3>1. r.running /\ put.vr_ux = r.vr_ux
        BY <1>5, <2>2, <2>4 DEF SameTimer
    <3>2. PICK X \in (R + 1) .. h : r.vr_ux = g.sn[X]
      BY <3>1 DEF Waits
    <3>3. X \in (R + 1) .. (c + 1)
      BY <1>1
    <3> QED BY <3>1, <3>2, <3>3 DEF Waits
  <2>5. Rest(g, R, a1, c + 1, put) /\ Behaves(g, s, R, put)
    BY <1>6, <2>1, <2>2, <2>3 DEF Rest
  <2> QED BY <1>7, <2>3, <2>4, <2>5 DEF x, p
<1> QED BY <1>8, <1>9

\* Between two turns of the loop of timer_expired(): nothing is in reassembly
\* while vr_ur has not reached the first PDU there is; then all is passed on.
GivesUp(g, s, R, a, h, X, x) ==
    /\ x.vr_ux = g.sn[X]
    /\ \/ At(g, h, h, h, x) /\ Behaves(g, s, h, x)
       \/ \E R1 \in R .. (a - 1) :
            /\ At(g, R1, a, h, x) /\ Behaves(g, s, R1, x)
            /\ x.pdu_lost /\ x.rx_sdu = <<>>

\* A number is given up.
LEMMA SkipOne ==
  ASSUME NEW g, Stream(g), NEW s, NEW R, NEW a, NEW h, NEW r, At(g, R, a, h, r), R < a,
         Behaves(g, s, R, r), r.pdu_lost, r.rx_sdu = <<>>
  PROVE  LET x == [r EXCEPT !.vr_ur = (@ + 1) % SN_MOD] IN
           /\ At(g, R + 1, a, h, x) /\ Behaves(g, s, R + 1, x) /\ SameTimer(r, x)
           /\ x.pdu_lost /\ x.rx_sdu = <<>>
<1> DEFINE x == [r EXCEPT !.vr_ur = (@ + 1) % SN_MOD]
<1>1. /\ g.n \in Nat /\ h \in Nat /\ h <= g.n /\ R \in Nat /\ a \in Nat /\ R <= a /\ a <= h
      /\ h - R \in 0 .. WINDOW
  BY AtNumbers
<1>2. /\ R \in 0 .. (g.n - 1) /\ R + 1 \in 0 .. g.n /\ R + 1 <= a /\ h - (R + 1) <= WINDOW
  BY <1>1
<1>3. /\ r \in RxStates(AllBytes) /\ r.vr_ur = g.sn[R] /\ r.vr_uh = g.sn[h]
      /\ a \in 0 .. g.n /\ h \in 0 .. g.n /\ r.window = {g.pdu[i] : i \in a .. (h - 1)}
  BY DEF At
<1>4. /\ g.at[R][1] \in Nat /\ g.at[R + 1][1] \in Nat /\ g.at[R][1] <= g.at[R + 1][1]
      /\ Follows(g, R)
  BY <1>2, StreamGoesOn
<1>5. g.sn[R + 1] = (g.sn[R] + 1) % SN_MOD /\ g.sn[R + 1] \in Nums
  BY <1>2, <1>4 DEF Follows, Plus, Stream
<1>6. x = [r EXCEPT !.vr_ur = g.sn[R + 1]]
  BY <1>3, <1>5 DEF RxStates
<1> HIDE DEF x
<1>7. /\ x \in RxStates(AllBytes) /\ x.vr_ur = g.sn[R + 1]
      /\ x.vr_uh = r.vr_uh /\ x.window = r.window /\ x.vr_ux = r.vr_ux /\ x.running = r.running
      /\ x.rx_sdu = r.rx_sdu /\ x.pdu_lost = r.pdu_lost /\ x.out = r.out
  BY <1>3, <1>5, <1>6 DEF RxStates
<1>8. At(g, R + 1, a, h, x)
  BY <1>1, <1>2, <1>3, <1>7 DEF At
<1>9. Behaves(g, s, R + 1, x)
  <2>1. Len(g.sdus) \in Nat
    BY DEF Stream
  <2>2. InOrder(g.sdus, s \o x.out, g.at[R + 1][1])
    <3>1. InOrder(g.sdus, s \o x.out, g.at[R][1])
      BY <1>7 DEF Behaves, Wrote
    <3>2. g.at[R][1] \in Int /\ g.at[R + 1][1] \in Int
      BY <1>4
    <3> QED BY <1>4, <2>1, <3>1, <3>2, InOrderLater
  <2>3. Holds(g.sdus, g.at[R + 1], Aligned(g, R + 1), x)
    BY <1>7 DEF Holds
  <2> QED BY <2>2, <2>3 DEF Behaves, Wrote
<1> QED BY <1>7, <1>8, <1>9 DEF SameTimer, x

\* All are passed on: the loop does nothing more.
LEMMA GiveUpEnds ==
  ASSUME NEW g, Stream(g), NEW h, NEW r, At(g, h, h, h, r),
         NEW X \in 1 .. h, h - X <= WINDOW, r.vr_ux = g.sn[X], NEW unused
  PROVE  GiveUp(r, unused) = r
<1> DEFINE d == h - X
<1>1. /\ g.n \in Nat /\ h \in Nat /\ h <= g.n /\ r.vr_ur \in Nums /\ r.vr_uh = Plus(r.vr_ur, h - h)
  BY AtNumbers
<1>2. /\ h \in 0 .. g.n /\ X \in 0 .. g.n /\ X <= h /\ h - X <= SN_MOD /\ h - h = 0
      /\ d \in 0 .. WINDOW
  BY <1>1
<1>3. g.sn[X] \in Nums /\ g.sn[h] = Plus(g.sn[X], d) /\ d \in 0 .. SN_MOD
  BY <1>2, StreamFrom
<1>4. r.vr_ur = g.sn[h]
  BY DEF At
<1> HIDE DEF d
<1>5. /\ SN_MOD - d \in 0 .. SN_MOD /\ d + (SN_MOD - d) = SN_MOD /\ 0 \in 0 .. SN_MOD
  BY <1>2
<1>6. g.sn[X] = Plus(g.sn[h], SN_MOD - d)
  <2>1. Plus(Plus(g.sn[X], d), SN_MOD - d) = Plus(g.sn[X], d + (SN_MOD - d))
    BY <1>3, <1>5, PlusPlus
  <2>2. Plus(g.sn[X], SN_MOD) = g.sn[X]
    BY <1>3, PlusZero
  <2> QED BY <1>3, <1>5, <2>1, <2>2
<1>7. RX_MOD_BASE(r, Plus(r.vr_ur, SN_MOD - d)) = Base(0, SN_MOD - d)
  BY <1>1, <1>2, <1>5, BaseOfPlus
<1>8. Base(0, SN_MOD - d) <= WINDOW
  BY <1>2 DEF Base
<1>9. RX_MOD_BASE(r, r.vr_ur) = WINDOW
  BY <1>2, BasesAt
<1>10. Base(0, SN_MOD - d) \in Int
  BY <1>2 DEF Base
<1>11. ~(RX_MOD_BASE(r, r.vr_ur) < RX_MOD_BASE(r, r.vr_ux))
  BY <1>4, <1>6, <1>7, <1>8, <1>9, <1>10
<1>12. GivenUp(r)
  BY <1>8, <1>9, <1>10, <1>11, <1>4, <1>6, <1>7 DEF GivenUp
<1> QED BY <1>12 DEF GiveUp

\* A turn of the loop of timer_expired().
LEMMA GiveUpInOrder ==
  ASSUME NEW g, Stream(g), NEW s \in Seq(Seq(AllBytes)),
         NEW R \in Nat, NEW a \in Nat, NEW h \in Nat, a < h, h - R <= WINDOW,
         NEW X \in (R + 1) .. h, NEW r, GivesUp(g, s, R, a, h, X, r), NEW unused
  PROVE  GivesUp(g, s, R, a, h, X, GiveUp(r, unused))
<1>1. r.vr_ux = g.sn[X]
  BY DEF GivesUp
<1>2. CASE At(g, h, h, h, r) /\ Behaves(g, s, h, r)
  <2>1. X \in 1 .. h /\ h - X <= WINDOW
    OBVIOUS
  <2>2. GiveUp(r, unused) = r
    BY <1>1, <1>2, <2>1, GiveUpEnds
  <2> QED BY <2>2
<1>3. ASSUME NEW R1 \in R .. (a - 1), At(g, R1, a, h, r), Behaves(g, s, R1, r),
             r.pdu_lost, r.rx_sdu = <<>>
      PROVE  GivesUp(g, s, R, a, h, X, GiveUp(r, unused))
  <2> DEFINE y == [r EXCEPT !.vr_ur = (@ + 1) % SN_MOD]
             x == reassemble_rx_sdus(y)
  <2>1. GiveUp(r, unused) = r \/ GiveUp(r, unused) = x
    BY DEF GiveUp
  <2>2. R1 < a /\ R1 + 1 \in Nat /\ R1 + 1 <= a /\ R1 + 1 < h
    OBVIOUS
  <2>3. /\ At(g, R1 + 1, a, h, y) /\ Behaves(g, s, R1 + 1, y) /\ SameTimer(r, y)
        /\ y.pdu_lost /\ y.rx_sdu = <<>>
    BY <1>3, <2>2, SkipOne
  <2> HIDE DEF y
  <2>4. CASE R1 + 1 = a
    <3>1. At(g, h, h, h, x) /\ Behaves(g, s, h, x) /\ SameTimer(y, x)
      BY <2>2, <2>3, <2>4, ReassembleAll
    <3> HIDE DEF x
    <3>2. GivesUp(g, s, R, a, h, X, x)
      BY <1>1, <2>3, <3>1 DEF GivesUp, SameTimer
    <3> QED BY <2>1, <3>2
  <2>5. CASE R1 + 1 # a
    <3>1. R1 + 1 < a /\ R1 + 1 \in R .. (a - 1)
      BY <2>2, <2>5
    <3>2. x = y
      BY <2>2, <2>3, <3>1, ReassembleNone
    <3> HIDE DEF x
    <3>3. GivesUp(g, s, R, a, h, X, x)
      BY <1>1, <2>3, <3>1, <3>2 DEF GivesUp, SameTimer
    <3> QED BY <2>1, <3>3
  <2> QED BY <2>4, <2>5
<1> QED BY <1>2, <1>3 DEF GivesUp

\* timer_expired() gives up what is missing and passes on the rest.
LEMMA ExpireInOrder ==
  ASSUME NEW g, Stream(g), NEW s \in Seq(Seq(AllBytes)),
         NEW R, NEW a, NEW h, NEW r, Rest(g, R, a, h, r), Behaves(g, s, R, r), Waits(g, R, h, r)
  PROVE  Rests(g, s, R, h, timer_expired(r))
<1> DEFINE lost == [r EXCEPT !.pdu_lost = TRUE, !.rx_sdu = <<>>]
           given_up == AllGivenUp(lost, SN_MOD)
           x == [given_up EXCEPT !.running = FALSE]
<1>1. /\ g.n \in Nat /\ h \in Nat /\ h <= g.n /\ R \in Nat /\ a \in Nat /\ R <= a /\ a <= h
      /\ h - R \in 0 .. WINDOW /\ h - R <= WINDOW
  <2>1. /\ g.n \in Nat /\ h \in Nat /\ h <= g.n /\ R \in Nat /\ a \in Nat /\ R <= a /\ a <= h
        /\ h - R \in 0 .. WINDOW
    BY AtNumbers DEF Rest
  <2> QED BY <2>1
<1>2. PICK X \in (R + 1) .. h : r.vr_ux = g.sn[X]
  BY DEF Waits
<1>3. R < a /\ a < h /\ At(g, R, a, h, r) /\ r \in RxStates(AllBytes)
  <2>1. R # h
    BY <1>1
  <2> QED BY <2>1 DEF Rest, At
<1>4. timer_expired(r) = arm(x)
  BY DEF timer_expired, timer_loop, AllGivenUp
<1>5. GivesUp(g, s, R, a, h, X, lost) /\ lost \in RxStates(AllBytes)
  <2>1. /\ lost \in RxStates(AllBytes) /\ lost.vr_ur = r.vr_ur /\ lost.vr_ux = r.vr_ux
        /\ lost.vr_uh = r.vr_uh /\ lost.window = r.window /\ lost.out = r.out
        /\ lost.pdu_lost /\ lost.rx_sdu = <<>>
    <3> DEFINE none == <<>>
    <3>1. none \in Seq(AllBytes) /\ r \in RxStates(AllBytes)
      BY <1>3
    <3>2. lost = [r EXCEPT !.pdu_lost = TRUE, !.rx_sdu = none]
      OBVIOUS
    <3> HIDE DEF none, lost, given_up, x
    <3>3. /\ lost \in RxStates(AllBytes) /\ lost.vr_ur = r.vr_ur /\ lost.vr_ux = r.vr_ux
          /\ lost.vr_uh = r.vr_uh /\ lost.window = r.window /\ lost.out = r.out
          /\ lost.pdu_lost = TRUE /\ lost.rx_sdu = none
      BY <3>1, <3>2 DEF RxStates
    <3> QED BY <3>3 DEF none
  <2> HIDE DEF lost
  <2>2. At(g, R, a, h, lost)
    BY <1>3, <2>1 DEF At
  <2>3. Behaves(g, s, R, lost)
    BY <2>1 DEF Behaves, Holds, Wrote
  <2>4. R \in R .. (a - 1)
    BY <1>1, <1>3
  <2> QED BY <1>2, <2>1, <2>2, <2>3, <2>4 DEF GivesUp
<1> HIDE DEF lost, x
<1> DEFINE D == {y \in RxStates(AllBytes) : GivesUp(g, s, R, a, h, X, y)}
<1>6. ClosedUnderGiveUp(D, SN_MOD)
  <2> SUFFICES ASSUME NEW n \in 1 .. SN_MOD, NEW y \in D PROVE GiveUp(y, n) \in D
    BY DEF ClosedUnderGiveUp
  <2> DEFINE w == GiveUp(y, n)
  <2>1. GivesUp(g, s, R, a, h, X, w)
    BY <1>1, <1>3, GiveUpInOrder
  <2> HIDE DEF w
  <2>2. w \in RxStates(AllBytes)
    BY <2>1 DEF GivesUp, At
  <2> QED BY <2>1, <2>2 DEF w
<1> HIDE DEF D
<1>7. lost \in D
  BY <1>5 DEF D
<1>8. PICK f \in [0 .. SN_MOD -> D] : GivenUpBy(f, SN_MOD, lost)
  <2>1. SN_MOD \in Nat
    OBVIOUS
  <2> QED BY <1>6, <1>7, <2>1, GiveUpTrace
<1>9. given_up \in D
  <2>1. f[SN_MOD] \in D
    OBVIOUS
  <2> QED BY <1>8, <2>1 DEF GivenUpBy
<1> HIDE DEF given_up
<1>10. given_up \in RxStates(AllBytes) /\ GivesUp(g, s, R, a, h, X, given_up)
  BY <1>9 DEF D
<1>11. Retimes(given_up, x) /\ x.running = FALSE
  <2>1. FALSE \in BOOLEAN /\ 0 \in Nums
    BY DEF Nums
  <2> QED BY <1>10, <2>1, TimerSet DEF x
<1>12. ASSUME NEW R1 \in R .. h, NEW a1 \in 0 .. h, Rest(g, R1, a1, h, given_up),
              Behaves(g, s, R1, given_up)
       PROVE  Rests(g, s, R, h, arm(x))
  <2>1. At(g, R1, a1, h, given_up)
    BY <1>12 DEF Rest
  <2>2. At(g, R1, a1, h, x) /\ Behaves(g, s, R1, x)
    BY <1>11, <1>12, <2>1, Retimed
  <2>3. Rest(g, R1, a1, h, x)
    BY <1>12, <2>2 DEF Rest
  <2>4. Rests(g, s, R1, h, arm(x))
    BY <1>11, <2>2, <2>3, ArmAt
  <2>5. \A i \in R1 .. h : i \in R .. h
    BY <1>1
  <2> QED BY <2>4, <2>5 DEF Rests
<1>13. CASE At(g, h, h, h, given_up) /\ Behaves(g, s, h, given_up)
  <2>1. h \in R .. h /\ h \in 0 .. h
    BY <1>1
  <2>2. Rest(g, h, h, h, given_up)
    BY <1>13 DEF Rest
  <2> QED BY <1>4, <1>12, <1>13, <2>1, <2>2
<1>14. ASSUME NEW R1 \in R .. (a - 1), At(g, R1, a, h, given_up), Behaves(g, s, R1, given_up)
       PROVE  Rests(g, s, R, h, timer_expired(r))
  <2>1. R1 \in R .. h /\ a \in 0 .. h /\ R1 < a
    BY <1>1
  <2>2. Rest(g, R1, a, h, given_up)
    BY <1>3, <1>14, <2>1 DEF Rest
  <2> QED BY <1>4, <1>12, <1>14, <2>1, <2>2
<1> QED BY <1>10, <1>13, <1>14 DEF GivesUp

USE RlcAssumption, SchPduAssumption, MacPduAssumption
    DEF RlcAssumption, SchPduAssumption, MacPduAssumption

-----------------------------------------------------------------------------
(* The whole, for one RNTI u: what it built so far, g, of which the PDUs    *)
(* before S went to HARQ in MAC PDUs, and those before A are old news.      *)

\* The RLC PDUs x, x + 1, ... of a MAC PDU.
Slice(g, x, l) == [j \in 1 .. l |-> g.pdu[x + (j - 1)]]

IsSlice(g, x, m) == m = Slice(g, x, Len(m))

\* The sender of u: the SDUs w written, the number n of PDUs built, rlc_test, its
\* program counter and the MAC PDU collected so far.  A PDU that was refused is
\* the last.
Sends(g, S, u, w, n, t, pc, m) ==
    /\ g.sdus = w /\ \A i \in 1 .. Len(g.sdus) : g.sdus[i][1] = <<u, i>>
    /\ g.n = n
    /\ t.vt_us = g.sn[g.n]
    /\ Line(g.sdus, g.at[g.n][1], g.at[g.n][2], t)
    /\ ((t.tx_sdu = <<>>) <=> Aligned(g, g.n))
    /\ S \in 0 .. g.n /\ IsSlice(g, S, m)
    /\ \/ g.n = S + Len(m)
       \/ pc = "send" /\ g.n = S + Len(m) + 1

\* The MAC PDU m of the PDUs from x on.  None begins or ends in the middle of
\* another; K are the ends.
OnAir(g, S, K, x, m) ==
    /\ x \in 0 .. S /\ IsSlice(g, x, m) /\ x + Len(m) <= S /\ x + Len(m) \in K
    /\ \A k \in K : k <= x \/ x + Len(m) <= k

\* HARQ: the MAC PDUs ms it was handed.
Flies(g, S, A, K, ms) ==
    /\ A \in 0 .. S
    /\ K \subseteq 0 .. S /\ A \in K
    /\ \A e \in ms : OnAir(g, S, K, e[1], e[2])

\* What is left of the MAC PDU received: old PDUs, or the newest.
Left(g, R, h, A, t) ==
    \E c \in 0 .. A :
      /\ IsSlice(g, c, t) /\ c + Len(t) <= A
      /\ \/ R = h /\ h = A /\ A - c <= WINDOW
         \/ /\ h <= c /\ c + Len(t) = A
            /\ h < c => R = h
            /\ t = <<>> => h = c

\* The UE: rlc3, what it wrote, the thread's program counter, and what is left
\* of the MAC PDU it received.
Receives(g, A, r, s, pc, t) ==
    \E R \in 0 .. A : \E a \in 0 .. A : \E h \in 0 .. A :
      /\ Rest(g, R, a, h, r) /\ Behaves(g, s, R, r) /\ A - R <= WINDOW
      /\ r.running \/ pc = "callback" => Waits(g, R, h, r)
      /\ ~r.running /\ pc # "callback" => R = h
      /\ pc \in {"callback", "recv"} => ~r.running
      /\ pc # "demux" => h = A
      /\ pc = "demux" => Left(g, R, h, A, t)

\* All that came to the UE so far fits, and came from u.
Alone(u) == aux_fit /\ \A v \in Rnti \ {u} : aux_next[v] = 0

\* The sender's stream and the MAC PDUs of it.
Goes(g, K, u) ==
    /\ Stream(g)
    /\ Sends(g, aux_first[u], u, written[u], Len(aux_line[u]), tx[u], tpc[u], mac_pdu[u])
    /\ Flies(g, aux_first[u], aux_next[u], K, air[u])

Arrived(g, u) == Receives(g, aux_next[u], rx, delivered, upc[u], todo[u])

Journey(u) == \E g, K : Goes(g, K, u) /\ (Alone(u) => Arrived(g, u))

-----------------------------------------------------------------------------
(* When more is sent, what was sent stays as it was.                       *)

Longer(g, g2) ==
    /\ g.n <= g2.n /\ Len(g.sdus) <= Len(g2.sdus)
    /\ \A w \in 1 .. Len(g.sdus) : g2.sdus[w] = g.sdus[w]
    /\ \A i \in 0 .. g.n : g2.sn[i] = g.sn[i] /\ g2.at[i] = g.at[i]
    /\ \A i \in 0 .. (g.n - 1) : g2.pdu[i] = g.pdu[i]

\* A MAC PDU is part of a longer stream too.
LEMMA SameSlice ==
  ASSUME NEW g, Stream(g), NEW g2, Longer(g, g2), NEW x \in Nat, NEW m, Len(m) \in Nat,
         x + Len(m) <= g.n, IsSlice(g, x, m)
  PROVE  IsSlice(g2, x, m)
<1> DEFINE l == Len(m)
<1>1. g.n \in Nat
  BY DEF Stream
<1>2. \A j \in 1 .. l : g2.pdu[x + (j - 1)] = g.pdu[x + (j - 1)]
  <2> SUFFICES ASSUME NEW j \in 1 .. l PROVE g2.pdu[x + (j - 1)] = g.pdu[x + (j - 1)]
    OBVIOUS
  <2>1. x + (j - 1) \in 0 .. (g.n - 1)
    BY <1>1
  <2> QED BY <2>1 DEF Longer
<1> HIDE DEF l
<1> QED BY <1>2 DEF IsSlice, Slice, l

\* So is one on its way,
LEMMA SameOnAir ==
  ASSUME NEW g, Stream(g), NEW g2, Longer(g, g2), NEW S \in 0 .. g.n, NEW K,
         NEW x, NEW m, Len(m) \in Nat, OnAir(g, S, K, x, m)
  PROVE  OnAir(g2, S, K, x, m)
<1>1. g.n \in Nat
  BY DEF Stream
<1>2. /\ x \in 0 .. S /\ IsSlice(g, x, m) /\ x + Len(m) <= S /\ x + Len(m) \in K
      /\ \A k \in K : k <= x \/ x + Len(m) <= k
  BY DEF OnAir
<1>3. x \in Nat /\ x + Len(m) <= g.n
  BY <1>1, <1>2
<1>4. IsSlice(g2, x, m)
  BY <1>2, <1>3, SameSlice
<1> QED BY <1>2, <1>4 DEF OnAir

\* a place of the receiver,
LEMMA SameAt ==
  ASSUME NEW g, Stream(g), NEW g2, Stream(g2), Longer(g, g2),
         NEW R, NEW a, NEW h, NEW r, At(g, R, a, h, r)
  PROVE  At(g2, R, a, h, r)
<1>1. /\ R \in Nat /\ a \in Nat /\ h \in Nat /\ R <= a /\ a <= h /\ h <= g.n /\ g.n \in Nat
      /\ \A i \in a .. (h - 1) : i \in 0 .. (g.n - 1)
  BY AtNumbers
<1>2. g2.n \in Nat /\ g.n <= g2.n
  BY DEF Stream, Longer
<1>3. R \in 0 .. g2.n /\ a \in 0 .. g2.n /\ h \in 0 .. g2.n
  BY <1>1, <1>2
<1>4. {g.pdu[i] : i \in a .. (h - 1)} = {g2.pdu[i] : i \in a .. (h - 1)}
  <2>1. \A i \in a .. (h - 1) : g2.pdu[i] = g.pdu[i]
    BY <1>1 DEF Longer
  <2> QED BY <2>1
<1>5. g2.sn[R] = g.sn[R] /\ g2.sn[h] = g.sn[h]
  BY DEF At, Longer
<1> QED BY <1>3, <1>4, <1>5 DEF At

\* what it reassembled and wrote,
LEMMA SameBehaviour ==
  ASSUME NEW g, Stream(g), NEW g2, Stream(g2), Longer(g, g2), NEW R \in 0 .. g.n,
         NEW s, NEW r, Behaves(g, s, R, r)
  PROVE  Behaves(g2, s, R, r)
<1> DEFINE c == g.at[R]
           z == g.sdus
           z2 == g2.sdus
<1>1. /\ g.n \in Nat /\ g2.n \in Nat /\ z \in Seq(AllSdus) /\ z2 \in Seq(AllSdus)
      /\ c \in Cursor /\ Place(z, c) /\ c[1] \in Nat \ {0} /\ c[2] \in Nat
  BY DEF Stream, Cursor
<1>2. /\ g2.at[R] = c /\ Len(z) <= Len(z2) /\ \A w \in 1 .. Len(z) : z2[w] = z[w]
  BY DEF Longer
<1>3. Aligned(g2, R) = Aligned(g, R)
  <2>1. CASE R = 0
    BY <2>1 DEF Aligned
  <2>2. CASE R # 0
    <3>1. R - 1 \in 0 .. (g.n - 1) /\ R - 1 \in 0 .. (g2.n - 1)
      BY <1>1, <2>2 DEF Longer
    <3>2. g2.pdu[R - 1] = g.pdu[R - 1]
      BY <3>1 DEF Longer
    <3> QED BY <2>2, <3>2 DEF Aligned
  <2> QED BY <2>1, <2>2
<1> HIDE DEF c, z, z2
<1>4. Piece(z[c[1]], 1, c[2]) = Piece(z2[c[1]], 1, c[2])
  <2>1. CASE c[1] <= Len(z)
    <3>1. c[1] \in 1 .. Len(z)
      BY <1>1, <2>1
    <3> QED BY <1>2, <3>1
  <2>2. CASE c[2] = 0
    <3>1. 1 .. ((0 - 1) + 1) = {}
      OBVIOUS
    <3> QED BY <2>2, <3>1 DEF Piece
  <2> QED BY <1>1, <2>1, <2>2 DEF Place
<1>5. Holds(z2, c, Aligned(g2, R), r)
  <2>1. Holds(z, c, Aligned(g, R), r)
    BY DEF Behaves, z, c
  <2> QED BY <1>3, <1>4, <2>1 DEF Holds
<1>6. ASSUME NEW v, NEW t, InOrder(z, t, v) PROVE InOrder(z2, t, v)
  <2> DEFINE I == 1 .. Len(t)
  <2>1. PICK f \in [I -> 1 .. Len(z)] :
          /\ \A i \in I : t[i] = Bytes(z[f[i]]) /\ f[i] < v
          /\ \A i, j \in I : i < j => f[i] < f[j]
    BY <1>6 DEF InOrder
  <2> HIDE DEF I
  <2>2. Len(z) \in Nat /\ Len(z2) \in Nat
    BY <1>1
  <2>3. 1 .. Len(z) \subseteq 1 .. Len(z2)
    BY <1>2, <2>2
  <2>4. f \in [I -> 1 .. Len(z2)] /\ \A i \in I : z2[f[i]] = z[f[i]]
    BY <1>2, <2>1, <2>3
  <2> QED BY <2>1, <2>4 DEF InOrder, I
<1>7. Wrote(z2, s, c[1], r)
  <2>1. InOrder(z, s \o r.out, c[1])
    BY DEF Behaves, Wrote, z, c
  <2> QED BY <1>6, <2>1 DEF Wrote
<1> QED BY <1>2, <1>5, <1>7 DEF Behaves, c, z2

\* everything on its way,
LEMMA SameFlight ==
  ASSUME NEW g, Stream(g), NEW g2, Longer(g, g2), NEW S \in 0 .. g.n,
         NEW A, NEW K, NEW ms, \A e \in ms : Len(e[2]) \in Nat, Flies(g, S, A, K, ms)
  PROVE  Flies(g2, S, A, K, ms)
<1>1. /\ A \in 0 .. S
      /\ K \subseteq 0 .. S /\ A \in K
      /\ \A e \in ms : OnAir(g, S, K, e[1], e[2])
  BY DEF Flies
<1>2. ASSUME NEW e \in ms PROVE OnAir(g2, S, K, e[1], e[2])
  <2> DEFINE x == e[1]
             m == e[2]
  <2>1. OnAir(g, S, K, x, m) /\ Len(m) \in Nat
    BY <1>1
  <2> HIDE DEF x, m
  <2>2. OnAir(g2, S, K, x, m)
    BY <2>1, SameOnAir
  <2> QED BY <2>2 DEF x, m
<1> QED BY <1>1, <1>2 DEF Flies

\* and everything the UE has.
LEMMA SameReception ==
  ASSUME NEW g, Stream(g), NEW g2, Stream(g2), Longer(g, g2),
         NEW A \in 0 .. g.n, NEW r, NEW s, NEW pc, NEW t, Len(t) \in Nat,
         Receives(g, A, r, s, pc, t)
  PROVE  Receives(g2, A, r, s, pc, t)
<1>1. PICK R \in 0 .. A, a \in 0 .. A, h \in 0 .. A :
        /\ Rest(g, R, a, h, r) /\ Behaves(g, s, R, r) /\ A - R <= WINDOW
        /\ r.running \/ pc = "callback" => Waits(g, R, h, r)
        /\ ~r.running /\ pc # "callback" => R = h
        /\ pc \in {"callback", "recv"} => ~r.running
        /\ pc # "demux" => h = A
        /\ pc = "demux" => Left(g, R, h, A, t)
  BY DEF Receives
<1>2. g.n \in Nat /\ R \in 0 .. g.n /\ h \in 0 .. g.n /\ R \in Nat /\ h <= g.n
  <2>1. g.n \in Nat
    BY DEF Stream
  <2> QED BY <1>1, <2>1
<1>3. Rest(g2, R, a, h, r)
  BY <1>1, SameAt DEF Rest
<1>4. Behaves(g2, s, R, r)
  BY <1>1, <1>2, SameBehaviour
<1>5. Waits(g, R, h, r) => Waits(g2, R, h, r)
  <2> SUFFICES ASSUME NEW X \in (R + 1) .. h, r.vr_ux = g.sn[X] PROVE Waits(g2, R, h, r)
    BY DEF Waits
  <2>1. X \in 0 .. g.n
    BY <1>2
  <2>2. g2.sn[X] = g.sn[X]
    BY <2>1 DEF Longer
  <2> QED BY <2>2 DEF Waits
<1>6. ASSUME Left(g, R, h, A, t) PROVE Left(g2, R, h, A, t)
  <2>1. PICK c \in 0 .. A :
          /\ IsSlice(g, c, t) /\ c + Len(t) <= A
          /\ \/ R = h /\ h = A /\ A - c <= WINDOW
             \/ /\ h <= c /\ c + Len(t) = A
                /\ h < c => R = h
                /\ t = <<>> => h = c
    BY <1>6 DEF Left
  <2>2. c \in Nat /\ c + Len(t) <= g.n
    BY <1>2, <2>1, SMTT(60)
  <2>3. IsSlice(g2, c, t)
    BY <2>1, <2>2, SameSlice
  <2> QED BY <2>1, <2>3 DEF Left
<1> QED BY <1>1, <1>3, <1>4, <1>5, <1>6 DEF Receives

\* A stream is as long as itself.
LEMMA LongerSelf ==
  ASSUME NEW g, Stream(g)
  PROVE  Longer(g, g)
<1>1. g.n \in Nat /\ Len(g.sdus) \in Nat
  BY DEF Stream
<1> QED BY <1>1 DEF Longer

\* What is on its way and what is left to unpack has a length.
LEMMA HaveLengths ==
  ASSUME SenderInv, ReceiverType, NEW u \in Rnti
  PROVE  /\ \A e \in air[u] : Len(e[2]) \in Nat
         /\ Len(todo[u]) \in Nat /\ Len(mac_pdu[u]) \in Nat
<1>1. \A m \in MacPdus : Len(m) \in Nat
  BY DEF MacPdus
<1>2. (\A e \in air[u] : e[2] \in MacPdus) /\ mac_pdu[u] \in MacPdus
  <2>1. air[u] \in SUBSET (Nat \X (MacPdus \ {<<>>}))
    BY DEF SenderInv, AirType
  <2> QED BY <2>1 DEF SenderInv, SenderType
<1>3. todo[u] \in Seq(RlcPdus)
  BY DEF ReceiverType
<1> QED BY <1>1, <1>2, <1>3

\* What Goes says of the numbers.
LEMMA GoesNumbers ==
  ASSUME NEW u, NEW g, NEW K, Goes(g, K, u)
  PROVE  /\ Stream(g) /\ g.n \in Nat /\ g.n = Len(aux_line[u])
         /\ aux_first[u] \in 0 .. g.n /\ aux_next[u] \in 0 .. g.n
<1>1. /\ Stream(g) /\ g.n \in Nat /\ g.n = Len(aux_line[u])
      /\ aux_first[u] \in 0 .. g.n /\ aux_next[u] \in 0 .. aux_first[u]
  BY DEF Goes, Stream, Sends, Flies
<1> QED BY <1>1

\* A step of the sender of u that leaves HARQ and the UE alone.
LEMMA SenderGoesOn ==
  ASSUME NEW u \in Rnti, SenderInv, ReceiverType, NEW g, NEW K, Goes(g, K, u),
         Alone(u) => Arrived(g, u),
         UNCHANGED <<airVars, ueVars>>, aux_first'[u] = aux_first[u],
         NEW g2, Stream(g2), Longer(g, g2),
         Sends(g2, aux_first[u], u, written'[u], Len(aux_line'[u]), tx'[u], tpc'[u], mac_pdu'[u])
  PROVE  Journey(u)'
<1> DEFINE S == aux_first[u]
           A == aux_next[u]
<1>1. Stream(g) /\ S \in 0 .. g.n /\ A \in 0 .. g.n
  BY GoesNumbers
<1>2. (\A e \in air[u] : Len(e[2]) \in Nat) /\ Len(todo[u]) \in Nat
  BY HaveLengths
<1>3. /\ air' = air /\ aux_next' = aux_next /\ aux_fit' = aux_fit /\ rx' = rx
      /\ delivered' = delivered /\ upc' = upc /\ todo' = todo
  BY DEF airVars, ueVars
<1>4. Flies(g2, S, A, K, air[u])
  <2>1. Flies(g, S, A, K, air[u])
    BY DEF Goes
  <2> HIDE DEF S, A
  <2> QED BY <1>1, <1>2, <2>1, SameFlight
<1>5. Goes(g2, K, u)'
  BY <1>3, <1>4 DEF Goes
<1>6. ASSUME Alone(u)' PROVE Arrived(g2, u)'
  <2>1. Alone(u)
    BY <1>3, <1>6 DEF Alone
  <2>2. Receives(g, A, rx, delivered, upc[u], todo[u])
    BY <2>1 DEF Arrived
  <2> HIDE DEF S, A
  <2>3. Receives(g2, A, rx, delivered, upc[u], todo[u])
    BY <1>1, <1>2, <2>2, SameReception
  <2> QED BY <1>3, <2>3 DEF Arrived, A
<1> QED BY <1>5, <1>6 DEF Journey

-----------------------------------------------------------------------------
(* The sender.                                                             *)

\* The SDU x is written behind the others.
WithSdu(g, x) ==
    [sdus |-> Append(g.sdus, x), n |-> g.n, pdu |-> g.pdu, sn |-> g.sn, at |-> g.at]

\* A PDU carries the same of more SDUs.
LEMMA CarriesLonger ==
  ASSUME NEW z \in Seq(AllSdus), NEW x \in AllSdus, NEW p \in PdusOf(AllBytes),
         NEW c \in Cursor, NEW d \in Cursor, Carries(z, p, c, d)
  PROVE  Carries(Append(z, x), p, c, d)
<1> DEFINE y == Append(z, x)
           l == Len(p.segs)
           w == c[1]
<1>1. l \in Nat \ {0} /\ w \in Nat \ {0} /\ Len(z) \in Nat
  <2> DEFINE T == Seq(AllBytes)
             q == p.segs
  <2>1. q \in Seq(T) /\ q # <<>>
    BY DEF PdusOf
  <2> HIDE DEF T, q
  <2>2. Len(q) \in Nat \ {0}
    BY <2>1
  <2> QED BY <2>2 DEF q, Cursor
<1>2. Len(y) = Len(z) + 1 /\ \A i \in 1 .. Len(z) : y[i] = z[i]
  OBVIOUS
<1>3. w + (l - 1) <= Len(z)
  BY DEF Carries
<1> HIDE DEF l, w, y
<1>4. \A k \in 1 .. l : y[w + (k - 1)] = z[w + (k - 1)]
  <2> SUFFICES ASSUME NEW k \in 1 .. l PROVE y[w + (k - 1)] = z[w + (k - 1)]
    OBVIOUS
  <2>1. w + (k - 1) \in 1 .. Len(z)
    BY <1>1, <1>3
  <2> QED BY <1>2, <2>1
<1>5. l \in 1 .. l /\ \A k \in 1 .. (l - 1) : k \in 1 .. l
  BY <1>1
<1>6. w + (l - 1) <= Len(y)
  BY <1>1, <1>2, <1>3
<1>7. Through(y, w, c[2], p.segs, l - 1)
  BY <1>4, <1>5 DEF Carries, Through, l, w
<1>8. y[w + (l - 1)] = z[w + (l - 1)]
  BY <1>4, <1>5
<1> QED BY <1>6, <1>7, <1>8 DEF Carries, l, w, y

\* A written SDU makes the stream longer.
LEMMA StreamWithSdu ==
  ASSUME NEW g, Stream(g), NEW x \in AllSdus
  PROVE  Stream(WithSdu(g, x)) /\ Longer(g, WithSdu(g, x))
<1> DEFINE z == g.sdus
           g2 == WithSdu(g, x)
<1>1. /\ g.n \in Nat /\ z \in Seq(AllSdus)
      /\ \A i \in 0 .. g.n : g.at[i] \in Cursor /\ Place(z, g.at[i])
      /\ \A i \in 0 .. (g.n - 1) : Follows(g, i)
  BY DEF Stream
<1>2. g2.sdus = Append(z, x) /\ g2.n = g.n /\ g2.pdu = g.pdu /\ g2.sn = g.sn /\ g2.at = g.at
  BY DEF WithSdu
<1>3. /\ Append(z, x) \in Seq(AllSdus) /\ Len(Append(z, x)) = Len(z) + 1 /\ Len(z) \in Nat
      /\ \A w \in 1 .. Len(z) : Append(z, x)[w] = z[w]
  BY <1>1
<1> HIDE DEF z, g2
<1>4. ASSUME NEW i \in 0 .. g.n PROVE Place(Append(z, x), g.at[i])
  <2> DEFINE c == g.at[i]
  <2>1. Place(z, c) /\ c[1] \in Nat \ {0}
    BY <1>1 DEF Cursor
  <2> HIDE DEF c
  <2>2. CASE c[1] <= Len(z) /\ c[2] < z[c[1]][2]
    <3>1. c[1] \in 1 .. Len(z) /\ c[1] <= Len(z) + 1
      BY <1>3, <2>1, <2>2
    <3>2. Append(z, x)[c[1]] = z[c[1]]
      BY <1>3, <3>1
    <3> QED BY <1>3, <2>2, <3>1, <3>2 DEF Place, c
  <2>3. CASE c[2] = 0
    BY <2>3 DEF Place, c
  <2> QED BY <2>1, <2>2, <2>3 DEF Place
<1>5. ASSUME NEW i \in 0 .. (g.n - 1) PROVE Follows(g2, i)
  <2>1. Follows(g, i) /\ Aligned(g2, i) = Aligned(g, i)
    BY <1>1, <1>2 DEF Aligned
  <2>2. g.pdu[i] \in PdusOf(AllBytes) /\ g.at[i] \in Cursor /\ g.at[i + 1] \in Cursor
    BY StreamGoesOn
  <2>3. Carries(Append(z, x), g.pdu[i], g.at[i], g.at[i + 1])
    BY <1>1, <2>1, <2>2, CarriesLonger DEF Follows, z
  <2> QED BY <1>2, <2>1, <2>3 DEF Follows
<1>6. Stream(g2)
  BY <1>1, <1>2, <1>3, <1>4, <1>5 DEF Stream
<1>7. Longer(g, g2)
  BY <1>1, <1>2, <1>3 DEF Longer, z
<1> QED BY <1>6, <1>7 DEF g2

\* Append as a function.
LEMMA AppendIs ==
  ASSUME NEW W, NEW o \in Seq(W), NEW l \in Nat, Len(o) = l, NEW b \in W
  PROVE  Append(o, b) = [j \in 1 .. (l + 1) |-> IF j = l + 1 THEN b ELSE o[j]]
<1> DEFINE y == Append(o, b)
           f == [j \in 1 .. (l + 1) |-> IF j = l + 1 THEN b ELSE o[j]]
<1>1. y \in Seq(W) /\ Len(y) = l + 1 /\ y[l + 1] = b /\ \A j \in 1 .. l : y[j] = o[j]
  OBVIOUS
<1>2. \A j \in 1 .. (l + 1) : f[j] = IF j = l + 1 THEN b ELSE o[j]
  OBVIOUS
<1>3. \A j \in 1 .. (l + 1) : j = l + 1 \/ j \in 1 .. l
  OBVIOUS
<1>4. f \in Seq(W) /\ Len(f) = l + 1
  <2>1. \A j \in 1 .. l : o[j] \in W
    OBVIOUS
  <2> QED BY <1>3, <2>1
<1> HIDE DEF y, f
<1>5. \A j \in 1 .. (l + 1) : y[j] = f[j]
  BY <1>1, <1>2, <1>3
<1>6. y = f
  BY <1>1, <1>4, <1>5, SeqEqual
<1> QED BY <1>6 DEF y, f

\* A written SDU is the last to be read.
LEMMA OnwardLonger ==
  ASSUME NEW z \in Seq(AllSdus), NEW x \in AllSdus, NEW v \in Nat \ {0}, v <= Len(z) + 1
  PROVE  Onward(Append(z, x), v) = Append(Onward(z, v), Bytes(x))
<1> DEFINE y == Append(z, x)
           o == Onward(z, v)
           W == Wholes(AllSdus)
           l == (Len(z) + 1) - v
<1>1. /\ Len(z) \in Nat /\ y \in Seq(AllSdus) /\ Len(y) = Len(z) + 1
      /\ \A i \in 1 .. Len(z) : y[i] = z[i]
      /\ y[Len(z) + 1] = x /\ l \in Nat /\ v + l = Len(z) + 1
      /\ v \in 1 .. Len(z) + 1
  OBVIOUS
<1>2. o \in Seq(W) /\ Len(o) = l
  BY <1>1, AllSdusHaveBytes, OnwardFacts
<1>3. Bytes(x) \in W
  BY DEF Wholes
<1>4. \A j \in 1 .. l : o[j] = Bytes(z[v + (j - 1)])
  BY DEF Onward
<1>5. Onward(y, v) = [j \in 1 .. (l + 1) |-> Bytes(y[v + (j - 1)])]
  <2>1. (Len(y) + 1) - v = l + 1
    BY <1>1
  <2> HIDE DEF y, l
  <2> QED BY <2>1 DEF Onward
<1> DEFINE b == Bytes(x)
<1> HIDE DEF o, W, y, b, l
<1>6. Append(o, b) = [j \in 1 .. (l + 1) |-> IF j = l + 1 THEN b ELSE o[j]]
  <2>1. b \in W
    BY <1>3 DEF b
  <2>2. l \in Nat
    BY <1>1
  <2> QED BY ONLY <1>2, <2>1, <2>2, AppendIs
<1>7. ASSUME NEW j \in 1 .. (l + 1)
      PROVE  Bytes(y[v + (j - 1)]) = IF j = l + 1 THEN b ELSE o[j]
  <2>1. CASE j = l + 1
    <3>1. v + (j - 1) = Len(z) + 1
      BY <1>1, <2>1
    <3> QED BY <1>1, <2>1, <3>1 DEF b
  <2>2. CASE j # l + 1
    <3>1. v + (j - 1) \in 1 .. Len(z) /\ j \in 1 .. l
      BY <1>1, <2>2
    <3> QED BY <1>1, <1>4, <2>2, <3>1
  <2> QED BY <2>1, <2>2
<1> QED BY <1>5, <1>6, <1>7 DEF o, y, b

\* write_sdu() puts it behind the others.
LEMMA LineLonger ==
  ASSUME NEW z \in Seq(AllSdus), NEW x \in AllSdus, NEW w \in Nat \ {0}, NEW n \in Nat,
         NEW t \in TxStates(AllSdus), Line(z, w, n, t)
  PROVE  /\ Line(Append(z, x), w, n, write_sdu(t, x))
         /\ write_sdu(t, x).vt_us = t.vt_us /\ write_sdu(t, x).tx_sdu = t.tx_sdu
<1> DEFINE y == Append(z, x)
           t2 == write_sdu(t, x)
           b == Bytes(x)
<1>1. /\ Len(z) \in Nat /\ Len(y) = Len(z) + 1
      /\ \A i \in 1 .. Len(z) : y[i] = z[i]
  OBVIOUS
<1>2. t2 = [t EXCEPT !.tx_sdu_queue = Append(t.tx_sdu_queue, b)]
  BY DEF write_sdu
<1> HIDE DEF t2, b
<1>3. /\ t2.tx_sdu = t.tx_sdu /\ t2.vt_us = t.vt_us
      /\ t2.tx_sdu_queue = Append(t.tx_sdu_queue, b)
  BY <1>2 DEF TxStates
<1>4. CASE /\ t.tx_sdu = <<>> /\ n = 0 /\ w <= Len(z) + 1
           /\ t.tx_sdu_queue = Onward(z, w)
  <2>1. Onward(y, w) = Append(Onward(z, w), b)
    BY <1>4, OnwardLonger DEF b
  <2>2. w <= Len(y) + 1
    BY <1>1, <1>4
  <2> HIDE DEF y
  <2>3. Line(y, w, n, t2)
    BY <1>3, <1>4, <2>1, <2>2 DEF Line
  <2> QED BY <1>3, <2>3 DEF y, t2
<1>5. CASE /\ w <= Len(z) /\ n < z[w][2]
           /\ t.tx_sdu = Piece(z[w], n + 1, z[w][2])
           /\ t.tx_sdu_queue = Onward(z, w + 1)
  <2>1. w + 1 \in Nat \ {0} /\ w + 1 <= Len(z) + 1 /\ w <= Len(y) /\ w \in 1 .. Len(z)
    <3>1. /\ Len(z) \in Nat /\ Len(y) = Len(z) + 1
          /\ w <= Len(z) /\ w \in Nat \ {0}
      BY <1>1, <1>5
    <3> HIDE DEF y
    <3> QED BY ONLY <3>1
  <2>2. Onward(y, w + 1) = Append(Onward(z, w + 1), b)
    BY <2>1, OnwardLonger DEF b
  <2>3. y[w] = z[w]
    BY <1>1, <2>1
  <2> HIDE DEF y
  <2>4. Line(y, w, n, t2)
    BY <1>3, <1>5, <2>1, <2>2, <2>3 DEF Line
  <2> QED BY <1>3, <2>4 DEF y, t2
<1> QED BY <1>4, <1>5 DEF Line

\* The sender after the write.
LEMMA SendsMore ==
  ASSUME NEW g, Stream(g), NEW S, NEW u, NEW q, NEW k, k = Len(q), NEW l,
         NEW n, <<<<u, k + 1>>, n>> \in AllSdus,
         NEW t \in TxStates(AllSdus), NEW pc, NEW m, Sends(g, S, u, q, l, t, pc, m)
  PROVE  LET x == <<<<u, k + 1>>, n>> IN
           Sends(WithSdu(g, x), S, u, Append(q, x), l, write_sdu(t, x), pc, m)
<1> DEFINE x == <<<<u, k + 1>>, n>>
           z == g.sdus
           g2 == WithSdu(g, x)
           c == g.at[g.n]
           t2 == write_sdu(t, x)
<1>1. /\ g2.sdus = Append(z, x) /\ g2.n = g.n /\ g2.pdu = g.pdu /\ g2.sn = g.sn
      /\ g2.at = g.at
  BY DEF WithSdu
<1>2. x \in AllSdus /\ x[1] = <<u, k + 1>>
  OBVIOUS
<1> HIDE DEF x, g2
<1>3. /\ z = q /\ Len(z) = k /\ \A i \in 1 .. Len(z) : z[i][1] = <<u, i>>
      /\ g.n = l
      /\ t.vt_us = g.sn[g.n] /\ Line(z, c[1], c[2], t)
      /\ ((t.tx_sdu = <<>>) <=> Aligned(g, g.n))
      /\ S \in 0 .. g.n /\ IsSlice(g, S, m)
      /\ \/ g.n = S + Len(m)
         \/ pc = "send" /\ g.n = S + Len(m) + 1
  BY DEF Sends
<1>4. z \in Seq(AllSdus) /\ c[1] \in Nat \ {0} /\ c[2] \in Nat
  <2>1. g.n \in Nat
    BY DEF Stream
  <2>2. g.n \in 0 .. g.n
    BY <2>1
  <2> QED BY <2>2 DEF Stream, Cursor
<1>5. /\ Len(Append(z, x)) = k + 1
      /\ \A i \in 1 .. (k + 1) : Append(z, x)[i][1] = <<u, i>>
  <2>1. /\ Len(Append(z, x)) = Len(z) + 1
        /\ \A i \in 1 .. Len(z) : Append(z, x)[i] = z[i]
        /\ Append(z, x)[Len(z) + 1] = x
    BY <1>2, <1>4
  <2>2. \A i \in 1 .. (k + 1) : i \in 1 .. Len(z) \/ i = k + 1
    BY <1>3
  <2> HIDE DEF z
  <2> QED BY <1>2, <1>3, <2>1, <2>2
<1>6. /\ Line(Append(z, x), c[1], c[2], t2) /\ t2.vt_us = t.vt_us /\ t2.tx_sdu = t.tx_sdu
  <2> DEFINE w == c[1]
             i == c[2]
  <2>1. w \in Nat \ {0} /\ i \in Nat /\ Line(z, w, i, t) /\ z \in Seq(AllSdus)
    BY <1>3, <1>4
  <2> HIDE DEF w, i, z
  <2>2. Line(Append(z, x), w, i, t2) /\ t2.vt_us = t.vt_us /\ t2.tx_sdu = t.tx_sdu
    BY <1>2, <2>1, LineLonger
  <2> QED BY <2>2 DEF w, i
<1>7. IsSlice(g2, S, m) /\ Aligned(g2, g2.n) = Aligned(g, g.n)
  BY <1>1, <1>3 DEF IsSlice, Slice, Aligned
<1>8. /\ g2.sdus = Append(q, x) /\ \A i \in 1 .. Len(g2.sdus) : g2.sdus[i][1] = <<u, i>>
  BY <1>1, <1>3, <1>5
<1>9. g2.at[g2.n] = c /\ g2.sn[g2.n] = g.sn[g.n] /\ g2.n = g.n /\ g2.sdus = Append(z, x)
  BY <1>1
<1> HIDE DEF z, c, t2
<1>10. Line(g2.sdus, g2.at[g2.n][1], g2.at[g2.n][2], t2)
  BY <1>6, <1>9
<1>11. Sends(g2, S, u, Append(q, x), l, t2, pc, m)
  BY <1>3, <1>6, <1>7, <1>8, <1>9, <1>10 DEF Sends
<1> QED BY <1>11 DEF g2, t2, x

\* The IP thread writes an SDU.
LEMMA JourneyWrite ==
  ASSUME NEW u \in Rnti, SenderInv, ReceiverType, Journey(u), NEW n \in SduLen, WriteSdu(u, n)
  PROVE  Journey(u)'
<1>1. PICK g, K : Goes(g, K, u) /\ (Alone(u) => Arrived(g, u))
  BY DEF Journey
<1> DEFINE q == written[u]
           k == Len(q)
           x == <<<<u, k + 1>>, n>>
           g2 == WithSdu(g, x)
           t == tx[u]
           S == aux_first[u]
           l == Len(aux_line[u])
<1>2. /\ k \in Nat /\ t \in TxStates(AllSdus)
      /\ written \in [Rnti -> {s \in Seq(AllSdus) : Len(s) <= N_SDU}]
      /\ tx \in [Rnti -> TxStates(AllSdus)]
  BY DEF SenderInv, SenderType
<1>3. /\ written'[u] = Append(q, x) /\ tx'[u] = write_sdu(t, x) /\ aux_line' = aux_line
      /\ tpc' = tpc /\ mac_pdu' = mac_pdu /\ UNCHANGED <<airVars, ueVars>>
      /\ aux_first' = aux_first
  <2>1. /\ written' = [written EXCEPT ![u] = Append(written[u], x)]
        /\ tx' = [tx EXCEPT ![u] = write_sdu(t, x)] /\ aux_line' = aux_line
        /\ tpc' = tpc /\ mac_pdu' = mac_pdu /\ UNCHANGED <<airVars, ueVars>>
        /\ aux_first' = aux_first
    BY DEF WriteSdu
  <2> HIDE DEF x, t, k
  <2> QED BY <1>2, <2>1
<1>4. x \in AllSdus
  <2> HIDE DEF k
  <2> QED BY <1>2 DEF AllSdus
<1>5. Stream(g) /\ Sends(g, S, u, q, l, t, tpc[u], mac_pdu[u])
  BY <1>1 DEF Goes
<1>6. Sends(g2, S, u, Append(q, x), l, write_sdu(t, x), tpc[u], mac_pdu[u])
  <2>1. k = Len(q)
    OBVIOUS
  <2> HIDE DEF k, q, t, S, l
  <2> QED BY ONLY <1>2, <1>4, <1>5, <2>1, SendsMore
<1> HIDE DEF x
<1>7. Stream(g2) /\ Longer(g, g2)
  BY <1>4, <1>5, StreamWithSdu
<1> HIDE DEF g2
<1>8. Sends(g2, aux_first[u], u, written'[u], Len(aux_line'[u]), tx'[u], tpc'[u], mac_pdu'[u])
  BY <1>3, <1>6
<1>9. aux_first'[u] = aux_first[u]
  BY <1>3
<1> QED BY ONLY u \in Rnti, SenderInv, ReceiverType, <1>1, <1>3, <1>7, <1>8, <1>9, SenderGoesOn

\* The sender goes on to its next step, having refused no PDU.
LEMMA SendsNext ==
  ASSUME NEW g, NEW S, NEW u, NEW w, NEW n, NEW t, NEW pc, NEW pc2, NEW m,
         pc # "send", Sends(g, S, u, w, n, t, pc, m)
  PROVE  Sends(g, S, u, w, n, t, pc2, m)
BY DEF Sends

\* The sender polls the queue or asks for a MAC PDU.
LEMMA JourneyPoll ==
  ASSUME NEW u \in Rnti, SenderInv, ReceiverType, Journey(u), Poll(u) \/ Allocate(u)
  PROVE  Journey(u)'
<1>1. PICK g, K : Goes(g, K, u) /\ (Alone(u) => Arrived(g, u))
  BY DEF Journey
<1>2. /\ tpc[u] # "send" /\ written' = written /\ tx' = tx /\ mac_pdu' = mac_pdu
      /\ aux_line' = aux_line /\ aux_first' = aux_first
      /\ UNCHANGED <<airVars, ueVars>>
  BY DEF Poll, Allocate
<1> DEFINE S == aux_first[u]
           l == Len(aux_line[u])
<1>3. Stream(g) /\ Sends(g, S, u, written[u], l, tx[u], tpc[u], mac_pdu[u])
  BY <1>1 DEF Goes
<1>4. Sends(g, S, u, written[u], l, tx[u], tpc'[u], mac_pdu[u])
  <2> HIDE DEF S, l
  <2> QED BY <1>2, <1>3, SendsNext
<1>5. /\ aux_first'[u] = aux_first[u]
      /\ Sends(g, aux_first[u], u, written'[u], Len(aux_line'[u]), tx'[u], tpc'[u], mac_pdu'[u])
  BY <1>2, <1>4
<1>6. Stream(g) /\ Longer(g, g)
  BY <1>3, LongerSelf
<1> QED BY ONLY u \in Rnti, SenderInv, ReceiverType, <1>1, <1>2, <1>5, <1>6, SenderGoesOn

-----------------------------------------------------------------------------
(* A PDU is built.                                                         *)

\* The PDU p is the next; d is where the one after it begins.
WithPdu(g, p, d) ==
    [sdus |-> g.sdus, n |-> g.n + 1,
     pdu |-> [i \in 0 .. g.n |-> IF i = g.n THEN p ELSE g.pdu[i]],
     sn |-> [i \in 0 .. (g.n + 1) |-> IF i = g.n + 1 THEN next_sn(g.sn[g.n]) ELSE g.sn[i]],
     at |-> [i \in 0 .. (g.n + 1) |-> IF i = g.n + 1 THEN d ELSE g.at[i]]]

\* What the next PDU adds.
LEMMA WithPduIs ==
  ASSUME NEW g, g.n \in Nat, NEW p, NEW d
  PROVE  LET g2 == WithPdu(g, p, d) IN
           /\ g2.sdus = g.sdus /\ g2.n = g.n + 1 /\ g2.pdu[g.n] = p
           /\ g2.sn[g.n + 1] = next_sn(g.sn[g.n]) /\ g2.at[g.n + 1] = d
           /\ \A i \in 0 .. g.n : g2.sn[i] = g.sn[i] /\ g2.at[i] = g.at[i]
           /\ \A i \in 0 .. (g.n - 1) : g2.pdu[i] = g.pdu[i]
<1> DEFINE n == g.n
           x == next_sn(g.sn[n])
           P == [i \in 0 .. n |-> IF i = n THEN p ELSE g.pdu[i]]
           Q == [i \in 0 .. (n + 1) |-> IF i = n + 1 THEN x ELSE g.sn[i]]
           T == [i \in 0 .. (n + 1) |-> IF i = n + 1 THEN d ELSE g.at[i]]
           g2 == WithPdu(g, p, d)
<1>1. /\ g2.sdus = g.sdus /\ g2.n = n + 1 /\ g2.pdu = P /\ g2.sn = Q /\ g2.at = T
  BY DEF WithPdu
<1>2. /\ n \in Nat /\ n \in 0 .. n /\ n + 1 \in 0 .. (n + 1)
      /\ \A i \in 0 .. n : i \in 0 .. (n + 1) /\ i # n + 1
      /\ \A i \in 0 .. (n - 1) : i \in 0 .. n /\ i # n
  OBVIOUS
<1> HIDE DEF n, x, g2
<1>3. /\ P[n] = p /\ \A i \in 0 .. (n - 1) : P[i] = g.pdu[i]
  BY <1>2
<1>4. /\ Q[n + 1] = x /\ \A i \in 0 .. n : Q[i] = g.sn[i]
  BY <1>2
<1>5. /\ T[n + 1] = d /\ \A i \in 0 .. n : T[i] = g.at[i]
  BY <1>2
<1> QED BY <1>1, <1>3, <1>4, <1>5 DEF n, x, g2

\* A PDU that carries on makes the stream longer.
LEMMA StreamWithPdu ==
  ASSUME NEW g, Stream(g), NEW p \in RlcPdus, NEW d \in Cursor,
         p.sn = g.sn[g.n], p.start = Aligned(g, g.n),
         Carries(g.sdus, p, g.at[g.n], d), Place(g.sdus, d)
  PROVE  Stream(WithPdu(g, p, d)) /\ Longer(g, WithPdu(g, p, d))
<1> DEFINE n == g.n
           x == next_sn(g.sn[n])
           g2 == WithPdu(g, p, d)
<1>1. /\ g.sdus \in Seq(AllSdus) /\ n \in Nat
      /\ g.pdu \in [0 .. (n - 1) -> RlcPdus]
      /\ g.sn \in [0 .. n -> Nums] /\ g.sn[0] = 0
      /\ g.at \in [0 .. n -> Cursor] /\ g.at[0] = <<1, 0>>
      /\ \A i \in 0 .. n : Place(g.sdus, g.at[i])
      /\ \A i \in 0 .. (n - 1) : Follows(g, i)
  BY DEF Stream
<1>2. /\ g2.sdus = g.sdus /\ g2.n = n + 1 /\ g2.pdu[n] = p
      /\ g2.sn[n + 1] = x /\ g2.at[n + 1] = d
      /\ \A i \in 0 .. n : g2.sn[i] = g.sn[i] /\ g2.at[i] = g.at[i]
      /\ \A i \in 0 .. (n - 1) : g2.pdu[i] = g.pdu[i]
  <2>1. g.n \in Nat
    BY <1>1
  <2> QED BY ONLY <2>1, WithPduIs
<1>3. /\ \A i \in 0 .. (n + 1) : i = n + 1 \/ i \in 0 .. n
      /\ \A i \in 0 .. n : i = n \/ i \in 0 .. (n - 1)
      /\ \A i \in 0 .. (n - 1) : i \in 0 .. n /\ i + 1 \in 0 .. n
      /\ n \in 0 .. n /\ 0 \in 0 .. n /\ n + 1 - 1 = n
      /\ \A i \in 0 .. n : i = 0 \/ i - 1 \in 0 .. (n - 1)
  <2>1. n \in Nat
    BY <1>1
  <2> HIDE DEF n
  <2> QED BY ONLY <2>1
<1>4. x \in Nums /\ x = Plus(g.sn[n], 1)
  <2>1. g.sn[n] \in Nums
    BY <1>1, <1>3
  <2> QED BY <2>1 DEF Nums, next_sn, Plus
<1>5. /\ g2.pdu \in [0 .. n -> RlcPdus] /\ g2.sn \in [0 .. (n + 1) -> Nums]
      /\ g2.at \in [0 .. (n + 1) -> Cursor]
  <2> DEFINE P == [i \in 0 .. n |-> IF i = n THEN p ELSE g.pdu[i]]
             Q == [i \in 0 .. (n + 1) |-> IF i = n + 1 THEN x ELSE g.sn[i]]
             T == [i \in 0 .. (n + 1) |-> IF i = n + 1 THEN d ELSE g.at[i]]
  <2>1. g2.pdu = P /\ g2.sn = Q /\ g2.at = T
    BY DEF WithPdu
  <2> HIDE DEF x, n, g2
  <2>2. P \in [0 .. n -> RlcPdus]
    BY <1>1, <1>3
  <2>3. Q \in [0 .. (n + 1) -> Nums]
    BY <1>1, <1>3, <1>4
  <2>4. T \in [0 .. (n + 1) -> Cursor]
    BY <1>1, <1>3
  <2> QED BY <2>1, <2>2, <2>3, <2>4
<1> HIDE DEF n, x, g2
<1>6. \A i \in 0 .. n : Aligned(g2, i) = Aligned(g, i)
  BY <1>2, <1>3 DEF Aligned
<1>7. ASSUME NEW i \in 0 .. n PROVE Follows(g2, i)
  <2>1. CASE i = n
    <3>1. g2.sn[n + 1] = Plus(g2.sn[n], 1)
      BY <1>2, <1>3, <1>4
    <3>2. g2.pdu[n].sn = g2.sn[n] /\ g2.pdu[n].start = Aligned(g2, n)
      BY <1>2, <1>3, <1>6 DEF n
    <3>3. Carries(g2.sdus, g2.pdu[n], g2.at[n], g2.at[n + 1])
      <4>1. g2.at[n] = g.at[n]
        BY <1>2, <1>3
      <4> QED BY <1>2, <4>1 DEF n
    <3> QED BY <2>1, <3>1, <3>2, <3>3 DEF Follows
  <2>2. CASE i \in 0 .. (n - 1)
    <3>1. Follows(g, i)
      BY <1>1, <2>2
    <3>2. /\ g2.sn[i] = g.sn[i] /\ g2.sn[i + 1] = g.sn[i + 1] /\ g2.pdu[i] = g.pdu[i]
          /\ g2.at[i] = g.at[i] /\ g2.at[i + 1] = g.at[i + 1]
      BY <1>2, <1>3, <2>2
    <3> QED BY <1>2, <1>6, <3>1, <3>2 DEF Follows
  <2> QED BY <1>3, <2>1, <2>2
<1>8. \A i \in 0 .. (n + 1) : Place(g2.sdus, g2.at[i])
  BY <1>1, <1>2, <1>3
<1>9. g2.sn[0] = 0 /\ g2.at[0] = <<1, 0>> /\ n + 1 \in Nat
  BY <1>1, <1>2, <1>3
<1>10. g2.pdu \in [0 .. (g2.n - 1) -> RlcPdus] /\ g2.n - 1 = n
  BY <1>1, <1>2, <1>5, SMTT(60)
<1>11. Stream(g2)
  BY <1>1, <1>2, <1>5, <1>7, <1>8, <1>9, <1>10 DEF Stream
<1>12. Longer(g, g2)
  BY <1>1, <1>2 DEF Longer, n
<1> QED BY <1>11, <1>12 DEF g2

\* The MAC PDU is one RLC PDU longer.
LEMMA LongerSlice ==
  ASSUME NEW g, NEW x \in Nat, NEW m \in Seq(RlcPdus), NEW p \in RlcPdus,
         IsSlice(g, x, m), g.pdu[x + Len(m)] = p
  PROVE  IsSlice(g, x, Append(m, p))
<1> DEFINE l == Len(m)
<1>1. l \in Nat /\ Len(Append(m, p)) = l + 1
  OBVIOUS
<1>2. Append(m, p) = [j \in 1 .. (l + 1) |-> IF j = l + 1 THEN p ELSE m[j]]
  BY <1>1, AppendIs
<1>3. ASSUME NEW j \in 1 .. (l + 1)
      PROVE  (IF j = l + 1 THEN p ELSE m[j]) = g.pdu[x + (j - 1)]
  <2>1. CASE j = l + 1
    <3>1. x + (j - 1) = x + l
      BY <1>1, <2>1
    <3> QED BY <2>1, <3>1
  <2>2. CASE j # l + 1
    <3>1. j \in 1 .. l
      BY <1>1, <2>2
    <3>2. m[j] = g.pdu[x + (j - 1)]
      <4>1. m = [i \in 1 .. l |-> g.pdu[x + (i - 1)]]
        BY DEF IsSlice, Slice
      <4> HIDE DEF l
      <4> QED BY <3>1, <4>1
    <3> QED BY <2>2, <3>2
  <2> QED BY <2>1, <2>2
<1> HIDE DEF l
<1>4. Append(m, p) = [j \in 1 .. (l + 1) |-> g.pdu[x + (j - 1)]]
  BY <1>2, <1>3
<1> QED BY <1>1, <1>4 DEF IsSlice, Slice

\* The sender after a PDU was built, taken by the MAC PDU or refused.
LEMMA SendsBuilt ==
  ASSUME NEW g, Stream(g), NEW S, NEW u, NEW w, NEW l, NEW t \in TxStates(AllSdus), NEW pc,
         pc # "send", NEW m \in Seq(RlcPdus), Sends(g, S, u, w, l, t, pc, m),
         NEW b, Built(AllSdus, t, b), BuiltAlong(g.sdus, g.at[g.n], t, b), b.len # 0,
         NEW pc2, NEW m2, m2 = Append(m, b.pdu) \/ (pc2 = "send" /\ m2 = m)
  PROVE  \E g2 : Stream(g2) /\ Longer(g, g2) /\ Sends(g2, S, u, w, l + 1, b.t, pc2, m2)
<1> DEFINE z == g.sdus
           n == g.n
           c == g.at[n]
           p == b.pdu
<1>1. /\ z = w /\ (\A i \in 1 .. Len(z) : z[i][1] = <<u, i>>) /\ n = l
      /\ t.vt_us = g.sn[n] /\ ((t.tx_sdu = <<>>) <=> Aligned(g, n))
      /\ S \in 0 .. n /\ IsSlice(g, S, m) /\ n = S + Len(m)
  BY DEF Sends
<1>2. n \in Nat /\ n \in 0 .. n /\ S \in Nat /\ Len(m) \in Nat
  <2>1. n \in Nat
    BY DEF Stream
  <2> HIDE DEF n
  <2> QED BY <1>1, <2>1
<1>3. /\ p \in RlcPdus /\ p.sn = t.vt_us /\ b.t.vt_us = next_sn(t.vt_us)
  BY DEF Built, RlcPdus
<1>4. /\ p.start = (t.tx_sdu = <<>>) /\ p.end = (b.t.tx_sdu = <<>>)
      /\ \E d \in Cursor : Carries(z, p, c, d) /\ Line(z, d[1], d[2], b.t)
  BY DEF BuiltAlong
<1>5. PICK d \in Cursor : Carries(z, p, c, d) /\ Line(z, d[1], d[2], b.t)
  BY <1>4
<1>6. Place(z, d)
  BY <1>5 DEF Line, Place
<1> DEFINE g2 == WithPdu(g, p, d)
<1>7. Aligned(g, n) \in BOOLEAN
  <2>1. n # 0 => g.pdu[n - 1] \in RlcPdus
    <3>1. n # 0 => n - 1 \in 0 .. (n - 1)
      <4> HIDE DEF n
      <4> QED BY <1>2
    <3> QED BY <3>1 DEF Stream
  <2>2. n # 0 => g.pdu[n - 1].end \in BOOLEAN
    BY <2>1 DEF RlcPdus, Pdus
  <2> HIDE DEF n
  <2> QED BY <2>2 DEF Aligned
<1>8. Stream(g2) /\ Longer(g, g2)
  <2>1. p.sn = g.sn[g.n] /\ p.start = Aligned(g, g.n)
    BY <1>1, <1>3, <1>4, <1>7
  <2> HIDE DEF g2
  <2> QED BY <1>3, <1>5, <1>6, <2>1, StreamWithPdu DEF g2
<1>9. /\ g2.sdus = z /\ g2.n = n + 1 /\ g2.pdu[n] = p
      /\ g2.sn[n + 1] = next_sn(g.sn[n]) /\ g2.at[n + 1] = d
  <2>1. g.n \in Nat
    BY <1>2
  <2> QED BY ONLY <2>1, WithPduIs
<1>10. IsSlice(g2, S, m)
  <2>1. S + Len(m) <= g.n
    <3> HIDE DEF n
    <3> QED BY <1>1, <1>2 DEF n
  <2> HIDE DEF g2
  <2> QED BY <1>1, <1>2, <1>8, <2>1, SameSlice
<1> HIDE DEF g2, z, n, c, p
<1>11. Aligned(g2, n + 1) = (b.t.tx_sdu = <<>>)
  <2>1. n \in 0 .. (g2.n - 1)
    BY <1>2, <1>9
  <2>2. Aligned(g2, n + 1) = g2.pdu[n].end
    BY ONLY <1>8, <2>1, StreamGoesOn
  <2> QED BY ONLY <1>4, <1>9, <2>2
<1>12. /\ IsSlice(g2, S, m2)
       /\ \/ g2.n = S + Len(m2)
          \/ pc2 = "send" /\ g2.n = S + Len(m2) + 1
  <2>1. CASE m2 = Append(m, p)
    <3>1. g2.pdu[S + Len(m)] = p
      BY <1>1, <1>9
    <3>2. IsSlice(g2, S, m2)
      BY <1>2, <1>3, <1>10, <2>1, <3>1, LongerSlice
    <3>3. Len(m2) = Len(m) + 1
      BY <1>3, <2>1
    <3>4. g2.n = S + Len(m2)
      BY <1>1, <1>2, <1>9, <3>3
    <3> QED BY <3>2, <3>4
  <2>2. CASE pc2 = "send" /\ m2 = m
    BY <1>1, <1>2, <1>9, <1>10, <2>2
  <2> QED BY <2>1, <2>2 DEF p
<1>13. S \in 0 .. g2.n
  BY <1>1, <1>2, <1>9
<1>14. /\ g2.sdus = w /\ (\A i \in 1 .. Len(g2.sdus) : g2.sdus[i][1] = <<u, i>>) /\ g2.n = l + 1
       /\ b.t.vt_us = g2.sn[g2.n] /\ Line(g2.sdus, g2.at[g2.n][1], g2.at[g2.n][2], b.t)
       /\ ((b.t.tx_sdu = <<>>) <=> Aligned(g2, g2.n))
  BY <1>1, <1>3, <1>5, <1>9, <1>11
<1>15. Sends(g2, S, u, w, l + 1, b.t, pc2, m2)
  BY <1>12, <1>13, <1>14 DEF Sends
<1> QED BY <1>8, <1>15

\* The sender builds an RLC PDU.
LEMMA JourneyBuild ==
  ASSUME NEW u \in Rnti, SenderInv, ReceiverType, Journey(u), Build(u)
  PROVE  Journey(u)'
<1>1. PICK g, K : Goes(g, K, u) /\ (Alone(u) => Arrived(g, u))
  BY DEF Journey
<1> DEFINE t == tx[u]
           b == build_data_pdu(t, grant[u])
           m == mac_pdu[u]
           m2 == mac_pdu'[u]
           pc2 == tpc'[u]
           S == aux_first[u]
           l == Len(aux_line[u])
           l2 == Len(aux_line'[u])
           w == written[u]
<1>2. /\ t \in TxStates(AllSdus) /\ m \in MacPdus /\ grant[u] \in Int
      /\ tx \in [Rnti -> TxStates(AllSdus)] /\ mac_pdu \in [Rnti -> MacPdus]
      /\ tpc \in [Rnti -> {"poll", "alloc", "build", "send"}]
      /\ aux_line \in [Rnti -> Seq(RlcPdus)]
  BY DEF SenderInv, SenderType
<1>3. /\ tpc[u] = "build" /\ tx'[u] = b.t /\ written' = written
      /\ \/ accepted(u, b.len) /\ pc2 = "alloc" /\ m2 = Append(m, b.pdu)
         \/ pc2 = "send" /\ m2 = m
      /\ UNCHANGED <<airVars, ueVars>> /\ aux_first' = aux_first
  <2>1. /\ tpc[u] = "build" /\ tx' = [tx EXCEPT ![u] = b.t] /\ written' = written
        /\ \/ /\ accepted(u, b.len) /\ tpc' = [tpc EXCEPT ![u] = "alloc"]
              /\ mac_pdu' = [mac_pdu EXCEPT ![u] = Append(@, b.pdu)]
           \/ tpc' = [tpc EXCEPT ![u] = "send"] /\ mac_pdu' = mac_pdu
        /\ UNCHANGED <<airVars, ueVars>> /\ aux_first' = aux_first
    BY DEF Build
  <2> HIDE DEF b
  <2> QED BY <1>2, <2>1
<1>4. m \in Seq(RlcPdus)
  BY <1>2 DEF MacPdus
<1>5. /\ Stream(g) /\ Sends(g, S, u, w, l, t, tpc[u], m)
      /\ S \in 0 .. g.n /\ Line(g.sdus, g.at[g.n][1], g.at[g.n][2], t)
  BY <1>1 DEF Goes, Sends
<1>6. Built(AllSdus, t, b)
  <2> HIDE DEF t
  <2> QED BY <1>2, AllSdusHaveBytes, SnModType, BuildFacts
<1>7. BuiltAlong(g.sdus, g.at[g.n], t, b)
  <2> DEFINE z == g.sdus
             c == g.at[g.n]
             room == grant[u]
  <2>1. z \in Seq(AllSdus) /\ c \in Cursor /\ Line(z, c[1], c[2], t) /\ room \in Int
    <3>1. g.n \in Nat
      BY <1>5 DEF Stream
    <3>2. g.n \in 0 .. g.n
      BY <3>1
    <3> QED BY <1>2, <1>5, <3>2 DEF Stream
  <2> HIDE DEF z, c, t, room
  <2>2. BuiltAlong(z, c, t, build_data_pdu(t, room))
    BY <1>2, <2>1, AllSdusHaveBytes, SnModType, BuildCarries
  <2> QED BY <2>2 DEF z, c, room
<1>8. l2 = IF b.len = 0 THEN l ELSE l + 1
  <2>1. aux_line' = [aux_line EXCEPT ![u] = IF b.len = 0 THEN @ ELSE Append(@, b.pdu)]
    BY DEF Build
  <2>2. b.len # 0 => b.pdu \in RlcPdus
    BY <1>6 DEF Built, RlcPdus
  <2> HIDE DEF b
  <2>3. aux_line[u] \in Seq(RlcPdus)
    BY <1>2
  <2>4. aux_line'[u] = IF b.len = 0 THEN aux_line[u] ELSE Append(aux_line[u], b.pdu)
    BY <1>2, <2>1
  <2> QED BY <2>2, <2>3, <2>4
<1>9. \E g2 : /\ Stream(g2) /\ Longer(g, g2)
              /\ Sends(g2, S, u, w, l2, b.t, pc2, m2)
  <2>1. CASE b.len = 0
    <3>1. b.t = t
      BY <1>6, <2>1 DEF Built
    <3>2. ~accepted(u, b.len)
      BY <2>1 DEF accepted
    <3>3. m2 = m
      BY <1>3, <3>2
    <3>4. Sends(g, S, u, w, l, t, pc2, m)
      <4>1. tpc[u] # "send"
        BY <1>3
      <4> HIDE DEF t, m, pc2, S, l, w
      <4> QED BY <1>5, <4>1, SendsNext
    <3>5. Longer(g, g)
      BY <1>5, LongerSelf
    <3>6. l2 = l
      BY <1>8, <2>1
    <3> QED BY <1>5, <3>1, <3>3, <3>4, <3>5, <3>6
  <2>2. CASE b.len # 0
    <3>1. m2 = Append(m, b.pdu) \/ (pc2 = "send" /\ m2 = m)
      BY <1>3
    <3>2. tpc[u] # "send" /\ l2 = l + 1
      BY <1>3, <1>8, <2>2
    <3> HIDE DEF t, b, m, m2, pc2, S, l, l2, w
    <3>3. \E g2 : Stream(g2) /\ Longer(g, g2) /\ Sends(g2, S, u, w, l + 1, b.t, pc2, m2)
      BY <1>2, <1>4, <1>5, <1>6, <1>7, <2>2, <3>1, <3>2, SendsBuilt
    <3> QED BY <3>2, <3>3
  <2> QED BY <2>1, <2>2
<1>10. PICK g2 : /\ Stream(g2) /\ Longer(g, g2)
                 /\ Sends(g2, S, u, w, l2, b.t, pc2, m2)
  BY <1>9
<1> HIDE DEF b
<1>11. /\ aux_first'[u] = aux_first[u]
       /\ Sends(g2, aux_first[u], u, written'[u], Len(aux_line'[u]), tx'[u], tpc'[u], mac_pdu'[u])
  BY <1>3, <1>10
<1> QED BY ONLY u \in Rnti, SenderInv, ReceiverType, <1>1, <1>3, <1>10, <1>11, SenderGoesOn

-----------------------------------------------------------------------------
(* HARQ.                                                                   *)

\* A MAC PDU is handed to HARQ, or was empty.
LEMMA FliesOn ==
  ASSUME NEW g, Stream(g), NEW S \in 0 .. g.n, NEW m \in MacPdus, IsSlice(g, S, m),
         \/ g.n = S + Len(m)
         \/ g.n = S + Len(m) + 1,
         NEW A, NEW K, NEW ms \in SUBSET (Nat \X (MacPdus \ {<<>>})), Flies(g, S, A, K, ms),
         NEW ms2, ms2 \subseteq ms \cup ({<<S, m>>})
  PROVE  Flies(g, g.n, A, K \cup {S + Len(m)}, ms2)
<1> DEFINE n == g.n
           l == Len(m)
           K2 == K \cup {S + l}
<1>1. /\ A \in 0 .. S
      /\ K \subseteq 0 .. S /\ A \in K
      /\ \A e \in ms : OnAir(g, S, K, e[1], e[2])
  BY DEF Flies
<1>2. /\ n \in Nat /\ l \in Nat /\ S \in Nat /\ S + l \in 0 .. n /\ S \in 0 .. n /\ S + l <= n
  <2>1. g.n \in Nat /\ l \in Nat
    BY DEF Stream, MacPdus
  <2> HIDE DEF l
  <2> QED BY <2>1 DEF l
<1>3. \A k \in 0 .. S : k \in 0 .. n /\ k <= S
  <2> HIDE DEF n
  <2> QED BY <1>2
<1>4. K2 \subseteq 0 .. n /\ A \in 0 .. n /\ A \in K2 /\ \A k \in K : k <= S
  BY <1>1, <1>2, <1>3
<1>5. ASSUME NEW e \in ms2 PROVE OnAir(g, n, K2, e[1], e[2])
  <2>1. CASE e \in ms
    <3> DEFINE x == e[1]
               d == Len(e[2])
    <3>1. /\ x \in 0 .. S /\ IsSlice(g, x, e[2]) /\ x + d <= S /\ x + d \in K
          /\ \A k \in K : k <= x \/ x + d <= k
      BY <1>1, <2>1 DEF OnAir
    <3>2. e[2] \in MacPdus \ {<<>>}
      BY <2>1
    <3>3. d \in Nat
      BY <3>2 DEF MacPdus
    <3> HIDE DEF x, d
    <3>4. x \in 0 .. n /\ x + d <= S + l /\ x + d <= n
      BY <1>2, <3>1, <3>3
    <3>5. \A k \in K2 : k <= x \/ x + d <= k
      BY <3>1, <3>4
    <3> HIDE DEF n, K2
    <3>6. x + d \in K2
      BY <3>1 DEF K2
    <3> QED BY <3>1, <3>4, <3>5, <3>6 DEF OnAir, x, d
  <2>2. CASE e = <<S, m>>
    <3>1. \A k \in K2 : k <= S \/ S + l <= k
      BY <1>2, <1>4
    <3>2. S + l \in K2
      OBVIOUS
    <3> HIDE DEF n, K2
    <3>3. OnAir(g, n, K2, S, m)
      BY <1>2, <3>1, <3>2 DEF OnAir, l
    <3> QED BY <2>2, <3>3
  <2> QED BY <2>1, <2>2
<1> HIDE DEF n, K2
<1>6. Flies(g, n, A, K2, ms2)
  BY <1>4, <1>5 DEF Flies
<1> QED BY <1>6 DEF n, K2, l

\* The MAC PDU is handed to HARQ.
LEMMA JourneySend ==
  ASSUME NEW u \in Rnti, SenderInv, ReceiverType, Journey(u), Send(u)
  PROVE  Journey(u)'
<1>1. PICK g, K : Goes(g, K, u) /\ (Alone(u) => Arrived(g, u))
  BY DEF Journey
<1> DEFINE m == mac_pdu[u]
           t == tx[u]
           S == aux_first[u]
           A == aux_next[u]
           ms == air[u]
           ms2 == air'[u]
<1>2. /\ m \in MacPdus /\ mac_pdu \in [Rnti -> MacPdus] /\ aux_first \in [Rnti -> Nat]
      /\ air \in [Rnti -> SUBSET (Nat \X (MacPdus \ {<<>>}))]
  BY DEF SenderInv, SenderType, AirType
<1>3. /\ g.sdus = written[u] /\ (\A i \in 1 .. Len(g.sdus) : g.sdus[i][1] = <<u, i>>)
      /\ g.n = Len(aux_line[u])
      /\ t.vt_us = g.sn[g.n] /\ Line(g.sdus, g.at[g.n][1], g.at[g.n][2], t)
      /\ ((t.tx_sdu = <<>>) <=> Aligned(g, g.n))
      /\ S \in 0 .. g.n /\ IsSlice(g, S, m)
      /\ (g.n = S + Len(m) \/ g.n = S + Len(m) + 1)
      /\ Stream(g) /\ Flies(g, S, A, K, ms)
  BY <1>1 DEF Goes, Sends
<1>4. /\ written' = written /\ tx' = tx /\ mac_pdu'[u] = <<>> /\ aux_next' = aux_next
      /\ aux_line' = aux_line /\ aux_first'[u] = g.n /\ aux_fit' = aux_fit
      /\ UNCHANGED ueVars
      /\ ms2 \subseteq ms \cup {<<S, m>>}
  <2> DEFINE more == {<<S, i>> : i \in {n \in {m} \ {<<>>} : Written(pdu_msg(n))}}
  <2>1. /\ air' = [air EXCEPT ![u] = air[u] \cup more]
        /\ mac_pdu' = [mac_pdu EXCEPT ![u] = <<>>]
        /\ aux_first' = [aux_first EXCEPT ![u] = Len(aux_line[u])]
        /\ written' = written /\ tx' = tx /\ aux_next' = aux_next /\ aux_line' = aux_line
        /\ aux_fit' = aux_fit /\ UNCHANGED ueVars
    BY DEF Send
  <2>2. more \subseteq {<<S, m>>}
    OBVIOUS
  <2> HIDE DEF more
  <2>3. air'[u] = air[u] \cup more /\ mac_pdu'[u] = <<>> /\ aux_first'[u] = Len(aux_line[u])
    BY <1>2, <2>1
  <2> QED BY <1>3, <2>1, <2>2, <2>3
<1> PICK k : k = K \cup {S + Len(m)}
  OBVIOUS
<1>5. Flies(g, g.n, A, k, ms2)
  <2>1. ms \in SUBSET (Nat \X (MacPdus \ {<<>>}))
    BY <1>2
  <2> HIDE DEF ms, ms2, m, t, S, A
  <2>2. Flies(g, g.n, A, K \cup {S + Len(m)}, ms2)
    BY ONLY <1>2, <1>3, <1>4, <2>1, FliesOn
  <2> QED BY <2>2 DEF S, m
<1>6. Sends(g, g.n, u, written[u], g.n, t, tpc'[u], <<>>)
  <2>1. g.n \in Nat
    BY <1>3 DEF Stream
  <2>2. IsSlice(g, g.n, <<>>) /\ Len(<<>>) = 0
    <3>1. Slice(g, g.n, 0) = <<>>
      BY DEF Slice
    <3> QED BY <3>1 DEF IsSlice
  <2>3. g.n = g.n + Len(<<>>) /\ g.n \in 0 .. g.n
    BY <2>1, <2>2
  <2> QED BY <1>3, <2>2, <2>3 DEF Sends
<1>7. Goes(g, k, u)'
  <2>1. Sends(g, aux_first'[u], u, written'[u], Len(aux_line'[u]), tx'[u], tpc'[u], mac_pdu'[u])
    BY <1>3, <1>4, <1>6
  <2>2. Flies(g, aux_first'[u], aux_next'[u], k, air'[u])
    BY <1>4, <1>5
  <2> QED BY <1>3, <2>1, <2>2 DEF Goes
<1>8. Alone(u)' = Alone(u) /\ Arrived(g, u)' = Arrived(g, u)
  BY <1>4 DEF Alone, Arrived, ueVars
<1> QED BY ONLY <1>1, <1>7, <1>8 DEF Journey

\* A MAC PDU arrives: it is the newest so far, or what it holds is old.
LEMMA Arrives ==
  ASSUME NEW g, Stream(g), NEW S \in 0 .. g.n,
         NEW A, NEW K, NEW ms, Flies(g, S, A, K, ms),
         NEW c, NEW m \in MacPdus \ {<<>>}, OnAir(g, S, K, c, m),
         A - WINDOW <= c, c + Len(m) <= A + WINDOW,
         NEW r, NEW s, NEW t, Receives(g, A, r, s, "recv", t),
         NEW B, B = IF c + Len(m) > A THEN c + Len(m) ELSE A
  PROVE  Receives(g, B, r, s, "demux", m)
<1> DEFINE l == Len(m)
<1>1. A \in 0 .. S /\ K \subseteq 0 .. S /\ A \in K
  BY DEF Flies
<1>2. /\ c \in 0 .. S /\ IsSlice(g, c, m) /\ c + l <= S
      /\ \A k \in K : k <= c \/ c + l <= k
  BY DEF OnAir
<1>3. PICK R \in 0 .. A, a \in 0 .. A, h \in 0 .. A :
        /\ Rest(g, R, a, h, r) /\ Behaves(g, s, R, r)
        /\ ~r.running /\ R = h /\ h = A
  BY DEF Receives
<1>4. /\ S \in Nat /\ A \in Nat /\ c \in Nat /\ l \in Nat \ {0} /\ WINDOW \in Nat
      /\ c + l <= A + WINDOW /\ A - WINDOW <= c
  <2>1. g.n \in Nat /\ l \in Nat \ {0}
    BY DEF Stream, MacPdus
  <2> HIDE DEF l
  <2>2. S \in Nat
    BY <2>1
  <2> QED BY <1>1, <1>2, <2>1, <2>2 DEF l
<1> HIDE DEF l
<1>5. CASE c + l > A
  <2>1. A <= c
    <3>1. A <= c \/ c + l <= A
      BY <1>1, <1>2
    <3>2. A \in Nat /\ c \in Nat /\ l \in Nat \ {0}
      BY <1>4
    <3> QED BY ONLY <1>5, <3>1, <3>2
  <2>2. /\ R \in 0 .. B /\ a \in 0 .. B /\ h \in 0 .. B /\ c \in 0 .. B /\ B - R <= WINDOW
        /\ h <= c /\ B = c + l
    BY <1>3, <1>4, <1>5, <2>1 DEF l
  <2>3. Left(g, R, h, B, m)
    <3>1. m # <<>>
      OBVIOUS
    <3>2. c + Len(m) = B /\ c + Len(m) <= B
      BY <1>4, <2>2 DEF l
    <3> QED BY <1>2, <1>3, <2>2, <3>1, <3>2 DEF Left
  <2> QED BY <1>3, <2>2, <2>3 DEF Receives
<1>6. CASE ~(c + l > A)
  <2>1. B = A /\ c + l <= A
    BY <1>4, <1>6 DEF l
  <2>2. /\ A - c <= WINDOW /\ c \in 0 .. A /\ A - R <= WINDOW
    BY <1>3, <1>4, <2>1
  <2>3. Left(g, R, h, A, m)
    <3>1. c + Len(m) <= A
      BY <2>1 DEF l
    <3> QED BY <1>2, <1>3, <2>2, <3>1 DEF Left
  <2>4. Receives(g, A, r, s, "demux", m)
    BY <1>3, <2>2, <2>3 DEF Receives
  <2> QED BY <2>1, <2>4
<1> QED BY <1>5, <1>6

\* What came to the UE is in the past of the sender still.
LEMMA FliesArrived ==
  ASSUME NEW g, NEW S, NEW A, NEW K, NEW ms, Flies(g, S, A, K, ms),
         NEW c, NEW m, OnAir(g, S, K, c, m), Len(m) \in Nat,
         NEW B, B = c + Len(m) \/ B = A
  PROVE  Flies(g, S, B, K, ms)
<1>1. /\ A \in 0 .. S /\ K \subseteq 0 .. S /\ A \in K
      /\ \A e \in ms : OnAir(g, S, K, e[1], e[2])
  BY DEF Flies
<1>2. B \in K
  BY <1>1 DEF OnAir
<1>3. B \in 0 .. S
  BY <1>1, <1>2
<1> QED BY <1>1, <1>2, <1>3 DEF Flies

\* HARQ delivers a MAC PDU that may be old, or be delivered again.
LEMMA JourneyDeliver ==
  ASSUME NEW u \in Rnti, SenderInv, ReceiverType, Journey(u), NEW e \in air[u],
         Deliver(u, e[1], e[2])
  PROVE  Journey(u)'
<1>1. PICK g, K : Goes(g, K, u) /\ (Alone(u) => Arrived(g, u))
  BY DEF Journey
<1> DEFINE c == e[1]
           m == e[2]
           S == aux_first[u]
           A == aux_next[u]
           B == IF c + Len(m) > A THEN c + Len(m) ELSE A
<1>2. /\ aux_next \in [Rnti -> Nat] /\ c \in Nat /\ m \in MacPdus \ {<<>>}
      /\ upc \in [Rnti -> {"recv", "demux", "timer", "callback"}]
      /\ todo \in [Rnti -> Seq(RlcPdus)]
  <2>1. air[u] \in SUBSET (Nat \X (MacPdus \ {<<>>})) /\ aux_next \in [Rnti -> Nat]
    BY DEF SenderInv, AirType
  <2> QED BY <2>1 DEF ReceiverType
<1>3. Unpacked(m) = m /\ Len(m) \in Nat
  BY <1>2, UnpackedAsPacked DEF MacPdus
<1>4. /\ upc[u] = "recv" /\ upc'[u] = "demux" /\ todo'[u] = m
      /\ aux_next'[u] = B
      /\ aux_fit' = (aux_fit /\ Fits(u, c, m))
      /\ \A v \in Rnti \ {u} : aux_next'[v] = aux_next[v]
      /\ UNCHANGED <<txVars, air, rx, delivered>>
  BY <1>2, <1>3 DEF Deliver
<1>5. /\ Stream(g) /\ S \in 0 .. g.n /\ A \in 0 .. g.n
  BY <1>1, GoesNumbers
<1>6. Flies(g, S, A, K, air[u]) /\ OnAir(g, S, K, c, m)
  BY <1>1 DEF Goes, Flies
<1> HIDE DEF c, m, S, A
<1>7. Flies(g, S, B, K, air[u])
  <2>1. B = c + Len(m) \/ B = A
    OBVIOUS
  <2> HIDE DEF B
  <2> QED BY <1>3, <1>6, <2>1, FliesArrived
<1>8. Goes(g, K, u)'
  BY <1>1, <1>4, <1>7 DEF Goes, txVars, S
<1>9. ASSUME Alone(u)' PROVE Arrived(g, u)'
  <2>1. aux_fit /\ Fits(u, c, m) /\ Alone(u)
    BY <1>4, <1>9 DEF Alone
  <2>2. A - WINDOW <= c /\ c + Len(m) <= A + WINDOW
    BY <2>1 DEF Fits, Within, A
  <2>3. Receives(g, A, rx, delivered, "recv", todo[u])
    BY <1>1, <1>4, <2>1 DEF Arrived, A
  <2>4. B = IF c + Len(m) > A THEN c + Len(m) ELSE A
    OBVIOUS
  <2> HIDE DEF B
  <2>5. Receives(g, B, rx, delivered, "demux", m)
    BY <1>2, <1>5, <1>6, <2>2, <2>3, <2>4, Arrives
  <2> QED BY <1>4, <2>5 DEF Arrived
<1> QED BY <1>8, <1>9 DEF Journey

-----------------------------------------------------------------------------
(* The UE.                                                                 *)

\* What was written to the tun device goes to the history.
Emptied(x) == [x EXCEPT !.out = <<>>]

\* The history takes what was written, and nothing else changes.
LEMMA EmptiedIs ==
  ASSUME NEW x \in RxStates(AllBytes)
  PROVE  /\ Emptied(x) \in RxStates(AllBytes) /\ Emptied(x).out = <<>>
         /\ Emptied(x).vr_ur = x.vr_ur /\ Emptied(x).vr_ux = x.vr_ux
         /\ Emptied(x).vr_uh = x.vr_uh /\ Emptied(x).window = x.window
         /\ Emptied(x).rx_sdu = x.rx_sdu /\ Emptied(x).pdu_lost = x.pdu_lost
         /\ Emptied(x).running = x.running
         /\ x.out = <<>> => Emptied(x) = x
<1> DEFINE none == <<>>
<1>1. none \in Seq(Seq(AllBytes)) /\ none = <<>>
  OBVIOUS
<1>2. Emptied(x) = [x EXCEPT !.out = none]
  BY DEF Emptied
<1> HIDE DEF none
<1> QED BY <1>1, <1>2 DEF RxStates

\* What was written and what is in the history are taken together.
LEMMA HistoryGrows ==
  ASSUME NEW g, NEW s \in Seq(Seq(AllBytes)), NEW R, NEW a, NEW h, NEW x,
         Rest(g, R, a, h, x), Behaves(g, s, R, x)
  PROVE  LET y == Emptied(x) IN
           /\ Rest(g, R, a, h, y) /\ Behaves(g, s \o x.out, R, y) /\ SameTimer(x, y)
<1> DEFINE y == Emptied(x)
           s2 == s \o x.out
<1>1. x \in RxStates(AllBytes) /\ At(g, R, a, h, x)
  BY DEF Rest, At
<1>2. /\ y \in RxStates(AllBytes) /\ y.out = <<>>
      /\ y.vr_ur = x.vr_ur /\ y.vr_ux = x.vr_ux /\ y.vr_uh = x.vr_uh
      /\ y.window = x.window /\ y.rx_sdu = x.rx_sdu /\ y.pdu_lost = x.pdu_lost
      /\ y.running = x.running
  BY <1>1, EmptiedIs
<1>3. s2 \o y.out = s2
  <2> DEFINE U == Seq(AllBytes)
             o == x.out
  <2>1. s \in Seq(U) /\ o \in Seq(U)
    BY <1>1 DEF RxStates
  <2> HIDE DEF U, o, y
  <2>2. (s \o o) \o <<>> = s \o o
    BY <2>1
  <2> QED BY <1>2, <2>2 DEF o
<1> HIDE DEF y, s2
<1>4. At(g, R, a, h, y)
  BY <1>1, <1>2 DEF At
<1>5. Rest(g, R, a, h, y) /\ SameTimer(x, y)
  BY <1>2, <1>4 DEF Rest, SameTimer
<1>6. Holds(g.sdus, g.at[R], Aligned(g, R), y)
  BY <1>2 DEF Behaves, Holds
<1>7. Wrote(g.sdus, s2, g.at[R][1], y)
  BY <1>3 DEF Behaves, Wrote, s2
<1>8. Behaves(g, s2, R, y)
  BY <1>6, <1>7 DEF Behaves
<1> QED BY <1>5, <1>8 DEF y, s2

\* The rest of a MAC PDU without its first RLC PDU.
LEMMA TailSlice ==
  ASSUME NEW g, NEW c \in Nat, NEW t \in Seq(RlcPdus), t # <<>>, IsSlice(g, c, t)
  PROVE  /\ Head(t) = g.pdu[c] /\ IsSlice(g, c + 1, Tail(t)) /\ Tail(t) \in Seq(RlcPdus)
         /\ Len(t) \in Nat \ {0} /\ Len(Tail(t)) = Len(t) - 1
<1> DEFINE l == Len(t)
           q == Tail(t)
<1>1. /\ l \in Nat \ {0} /\ Head(t) = t[1] /\ q \in Seq(RlcPdus) /\ Len(q) = l - 1
      /\ \A j \in 1 .. (l - 1) : q[j] = t[j + 1]
  OBVIOUS
<1>2. \A j \in 1 .. l : t[j] = g.pdu[c + (j - 1)]
  <2>1. t = [i \in 1 .. l |-> g.pdu[c + (i - 1)]]
    BY DEF IsSlice, Slice
  <2> HIDE DEF l
  <2> QED BY <2>1
<1> HIDE DEF l, q
<1>3. Head(t) = g.pdu[c]
  <2>1. 1 \in 1 .. l /\ c + (1 - 1) = c
    BY <1>1
  <2> QED BY <1>1, <1>2, <2>1
<1>4. \A j \in 1 .. (l - 1) : q[j] = g.pdu[(c + 1) + (j - 1)]
  <2> SUFFICES ASSUME NEW j \in 1 .. (l - 1) PROVE q[j] = g.pdu[(c + 1) + (j - 1)]
    OBVIOUS
  <2>1. j + 1 \in 1 .. l /\ c + ((j + 1) - 1) = (c + 1) + (j - 1)
    BY <1>1
  <2> QED BY <1>1, <1>2, <2>1
<1>5. q = [j \in 1 .. (l - 1) |-> q[j]]
  BY <1>1
<1>6. q = [j \in 1 .. (l - 1) |-> g.pdu[(c + 1) + (j - 1)]]
  BY <1>4, <1>5
<1>7. IsSlice(g, c + 1, q)
  BY <1>1, <1>6 DEF IsSlice, Slice
<1> QED BY <1>1, <1>3, <1>7 DEF l, q

\* The next RLC PDU of the MAC PDU is passed to rlc3.
LEMMA Reads ==
  ASSUME NEW g, Stream(g), NEW A \in 0 .. g.n, NEW r, r.out = <<>>,
         NEW s \in Seq(Seq(AllBytes)), NEW t \in Seq(RlcPdus), t # <<>>,
         Receives(g, A, r, s, "demux", t)
  PROVE  LET x == handle_data_pdu(r, Head(t)) IN
           Receives(g, A, Emptied(x), s \o x.out, "demux", Tail(t))
<1> DEFINE q == Tail(t)
           x == handle_data_pdu(r, Head(t))
           y == Emptied(x)
           s2 == s \o x.out
<1>1. PICK R \in 0 .. A, a \in 0 .. A, h \in 0 .. A :
        /\ Rest(g, R, a, h, r) /\ Behaves(g, s, R, r) /\ A - R <= WINDOW
        /\ r.running => Waits(g, R, h, r)
        /\ ~r.running => R = h
        /\ Left(g, R, h, A, t)
  BY DEF Receives
<1>2. PICK c \in 0 .. A :
        /\ IsSlice(g, c, t) /\ c + Len(t) <= A
        /\ \/ R = h /\ h = A /\ A - c <= WINDOW
           \/ /\ h <= c /\ c + Len(t) = A
              /\ h < c => R = h
  BY <1>1 DEF Left
<1>3. g.n \in Nat /\ A \in Nat /\ c \in Nat /\ R \in Nat /\ h \in Nat /\ a \in Nat
  <2>1. g.n \in Nat
    BY DEF Stream
  <2> QED BY <2>1
<1>4. /\ Head(t) = g.pdu[c] /\ IsSlice(g, c + 1, q)
      /\ Len(t) \in Nat \ {0} /\ Len(q) = Len(t) - 1
  BY <1>2, <1>3, TailSlice
<1> HIDE DEF q, x, y, s2
<1>5. c + 1 \in 0 .. A /\ (c + 1) + Len(q) = c + Len(t) /\ (c + 1) + Len(q) <= A /\ c < A
  <2>1. c + Len(t) <= A
    BY <1>2
  <2>2. Len(t) \in Nat \ {0} /\ Len(q) = Len(t) - 1
    BY <1>4
  <2>3. A \in Nat /\ c \in Nat
    BY <1>3
  <2> DEFINE l == Len(t)
  <2> HIDE DEF l
  <2>4. /\ c + 1 \in 0 .. A /\ (c + 1) + (l - 1) = c + l /\ (c + 1) + (l - 1) <= A /\ c < A
    BY ONLY <2>1, <2>2, <2>3 DEF l
  <2> QED BY ONLY <2>2, <2>4 DEF l
<1>6. CASE R = h /\ h = A /\ A - c <= WINDOW
  <2>1. R = a /\ a = h /\ At(g, h, h, h, r)
    <3>1. At(g, R, a, h, r) /\ ((R = a /\ a = h) \/ (R < a /\ a < h))
      BY <1>1 DEF Rest
    <3>2. R = a
      BY <1>3, <1>6, <3>1
    <3> QED BY <1>6, <3>1, <3>2
  <2>2. x = r
    <3>1. c \in 0 .. (h - 1) /\ h - c <= WINDOW
      BY <1>3, <1>5, <1>6
    <3>2. handle_data_pdu(r, g.pdu[c]) = r
      BY <2>1, <3>1, HandleOld
    <3> QED BY <1>4, <3>2 DEF x
  <2>3. y = r /\ s2 = s
    <3>1. r \in RxStates(AllBytes)
      BY <2>1 DEF At
    <3>2. s \o <<>> = s
      OBVIOUS
    <3> QED BY <2>2, <3>1, <3>2, EmptiedIs DEF y, s2
  <2>4. Left(g, R, h, A, q)
    <3>1. A - (c + 1) <= WINDOW
      BY <1>3, <1>6
    <3> QED BY <1>4, <1>5, <1>6, <3>1 DEF Left
  <2>5. Receives(g, A, r, s, "demux", q)
    BY <1>1, <2>4 DEF Receives
  <2> QED BY <2>3, <2>5 DEF x, y, s2, q
<1>7. CASE /\ h <= c /\ c + Len(t) = A
           /\ h < c => R = h
  <2>1. c \in h .. (g.n - 1) /\ (c + 1) - R <= WINDOW
    <3>1. A <= g.n
      BY <1>3
    <3>2. A - R <= WINDOW /\ h <= c /\ c + 1 <= A /\ WINDOW \in Nat
      BY <1>1, <1>3, <1>5, <1>7
    <3> QED BY ONLY <1>3, <3>1, <3>2
  <2>2. Rests(g, s, R, c + 1, x)
    <3>1. Rests(g, s, R, c + 1, handle_data_pdu(r, g.pdu[c]))
      BY <1>1, <1>7, <2>1, HandleNext
    <3> QED BY <1>4, <3>1 DEF x
  <2>3. PICK R1 \in R .. (c + 1), a1 \in 0 .. (c + 1) :
          /\ Rest(g, R1, a1, c + 1, x) /\ Behaves(g, s, R1, x)
          /\ x.running => Waits(g, R1, c + 1, x)
          /\ R1 < c + 1 => x.running
    BY <2>2 DEF Rests
  <2>4. Rest(g, R1, a1, c + 1, y) /\ Behaves(g, s2, R1, y) /\ SameTimer(x, y)
    BY <2>3, HistoryGrows DEF y, s2
  <2>5. R1 \in 0 .. A /\ a1 \in 0 .. A /\ A - R1 <= WINDOW /\ (R1 < c + 1 \/ R1 = c + 1)
    BY <1>1, <1>3, <1>5, <2>3
  <2>6. y.running => Waits(g, R1, c + 1, y)
    BY <2>3, <2>4 DEF SameTimer, Waits
  <2>7. ~y.running => R1 = c + 1
    BY <2>3, <2>4, <2>5 DEF SameTimer
  <2>8. Left(g, R1, c + 1, A, q)
    <3>1. (c + 1) + Len(q) = A /\ c + 1 <= c + 1 /\ ~(c + 1 < c + 1)
      BY <1>3, <1>5, <1>7
    <3> QED BY <1>4, <1>5, <3>1 DEF Left
  <2>9. Receives(g, A, y, s2, "demux", q)
    BY <1>5, <2>4, <2>5, <2>6, <2>7, <2>8 DEF Receives
  <2> QED BY <2>9 DEF x, y, s2, q
<1> QED BY <1>2, <1>6, <1>7

\* The MAC PDU is read.
LEMMA ReadAll ==
  ASSUME NEW g, Stream(g), NEW A \in 0 .. g.n, NEW r, NEW s,
         Receives(g, A, r, s, "demux", <<>>)
  PROVE  Receives(g, A, r, s, "timer", <<>>)
<1>1. PICK R \in 0 .. A, a \in 0 .. A, h \in 0 .. A :
        /\ Rest(g, R, a, h, r) /\ Behaves(g, s, R, r) /\ A - R <= WINDOW
        /\ r.running => Waits(g, R, h, r)
        /\ ~r.running => R = h
        /\ Left(g, R, h, A, <<>>)
  BY DEF Receives
<1>2. h = A
  <2>1. Len(<<>>) = 0 /\ g.n \in Nat
    BY DEF Stream
  <2>2. PICK c \in 0 .. A : (R = h /\ h = A) \/ (c + Len(<<>>) = A /\ h = c)
    BY <1>1 DEF Left
  <2> QED BY <2>1, <2>2
<1> QED BY <1>1, <1>2 DEF Receives

\* The timer has come to its end.
LEMMA Ticks ==
  ASSUME NEW g, NEW A, NEW r, NEW s, NEW t, NEW t2,
         r.running, Receives(g, A, r, s, "timer", t)
  PROVE  Receives(g, A, [r EXCEPT !.running = FALSE], s, "callback", t2)
<1> DEFINE x == [r EXCEPT !.running = FALSE]
<1>1. PICK R \in 0 .. A, a \in 0 .. A, h \in 0 .. A :
        /\ Rest(g, R, a, h, r) /\ Behaves(g, s, R, r) /\ A - R <= WINDOW
        /\ Waits(g, R, h, r) /\ h = A
  BY DEF Receives
<1>2. r \in RxStates(AllBytes) /\ At(g, R, a, h, r)
  BY <1>1 DEF Rest, At
<1>3. Retimes(r, x) /\ x.running = FALSE /\ x.vr_ux = r.vr_ux
  <2>1. r.vr_ux \in Nums /\ FALSE \in BOOLEAN
    BY <1>2 DEF RxStates
  <2> QED BY <1>2, <2>1, TimerSet
<1> HIDE DEF x
<1>4. At(g, R, a, h, x) /\ Behaves(g, s, R, x)
  BY <1>1, <1>2, <1>3, Retimed
<1>5. Rest(g, R, a, h, x)
  BY <1>1, <1>4 DEF Rest
<1>6. Waits(g, R, h, x)
  BY <1>1, <1>3 DEF Waits
<1>7. Receives(g, A, x, s, "callback", t2)
  BY <1>1, <1>3, <1>4, <1>5, <1>6 DEF Receives
<1> QED BY <1>7 DEF x

\* The callback of the timer.
LEMMA Expires ==
  ASSUME NEW g, Stream(g), NEW A \in 0 .. g.n, NEW r, NEW s \in Seq(Seq(AllBytes)),
         NEW t, NEW t2, Receives(g, A, r, s, "callback", t)
  PROVE  LET x == timer_expired(r) IN
           Receives(g, A, Emptied(x), s \o x.out, "timer", t2)
<1> DEFINE x == timer_expired(r)
           y == Emptied(x)
           s2 == s \o x.out
<1>1. PICK R \in 0 .. A, a \in 0 .. A, h \in 0 .. A :
        /\ Rest(g, R, a, h, r) /\ Behaves(g, s, R, r) /\ A - R <= WINDOW
        /\ Waits(g, R, h, r) /\ h = A
  BY DEF Receives
<1>2. A \in Nat /\ R \in Nat /\ h \in Nat
  <2>1. g.n \in Nat
    BY DEF Stream
  <2> QED BY <2>1
<1>3. Rests(g, s, R, h, x)
  BY <1>1, ExpireInOrder
<1> HIDE DEF x, y, s2
<1>4. PICK R1 \in R .. h, a1 \in 0 .. h :
        /\ Rest(g, R1, a1, h, x) /\ Behaves(g, s, R1, x)
        /\ x.running => Waits(g, R1, h, x)
        /\ R1 < h => x.running
  BY <1>3 DEF Rests
<1>5. Rest(g, R1, a1, h, y) /\ Behaves(g, s2, R1, y) /\ SameTimer(x, y)
  BY <1>4, HistoryGrows DEF y, s2
<1>6. R1 \in 0 .. A /\ a1 \in 0 .. A /\ A - R1 <= WINDOW /\ (R1 < h \/ R1 = h)
  BY <1>1, <1>2, <1>4, SMTT(60)
<1>7. y.running => Waits(g, R1, h, y)
  BY <1>4, <1>5 DEF SameTimer, Waits
<1>8. ~y.running => R1 = h
  BY <1>4, <1>5, <1>6 DEF SameTimer
<1>9. Receives(g, A, y, s2, "timer", t2)
  BY <1>1, <1>5, <1>6, <1>7, <1>8 DEF Receives
<1> QED BY <1>9 DEF x, y, s2

\* The timer is not running: the thread waits for its socket.
LEMMA Stops ==
  ASSUME NEW g, NEW A, NEW r, NEW s, NEW t, NEW t2,
         ~r.running, Receives(g, A, r, s, "timer", t)
  PROVE  Receives(g, A, r, s, "recv", t2)
BY DEF Receives

\* A step of the thread of the UE for u.
LEMMA JourneyUe ==
  ASSUME NEW u \in Rnti, SenderInv, ReceiverType, Journey(u), UeThread(u)
  PROVE  Journey(u)'
<1>1. PICK g, K : Goes(g, K, u) /\ (Alone(u) => Arrived(g, u))
  BY DEF Journey
<1>2. UNCHANGED <<txVars, airVars>>
  BY DEF UeThread, WritePdu, Demuxed, StepTimer, TimerExpired, TimerOff
<1>3. Goes(g, K, u)' /\ (Alone(u)' => Alone(u))
  BY <1>1, <1>2 DEF Goes, Alone, txVars, airVars
<1> SUFFICES ASSUME Alone(u) PROVE Arrived(g, u)'
  BY <1>3 DEF Journey
<1> DEFINE r == rx
           s == delivered
           t == todo[u]
           A == aux_next[u]
<1>4. /\ r.out = <<>> /\ s \in Seq(Seq(AllBytes)) /\ t \in Seq(RlcPdus)
      /\ upc \in [Rnti -> {"recv", "demux", "timer", "callback"}]
      /\ todo \in [Rnti -> Seq(RlcPdus)]
  BY DEF ReceiverType
<1>5. /\ Stream(g) /\ A \in 0 .. g.n /\ Receives(g, A, rx, delivered, upc[u], todo[u])
      /\ aux_fit
  <2>1. Stream(g) /\ A \in 0 .. g.n
    BY <1>1, GoesNumbers
  <2> QED BY <1>1, <2>1 DEF Arrived, Alone
<1>6. SUFFICES Receives(g, A, rx', delivered', upc'[u], todo'[u])
  BY <1>2 DEF Arrived, airVars
<1> HIDE DEF A
<1>7. CASE WritePdu(u)
  <2> DEFINE x == handle_data_pdu(r, Head(t))
  <2>1. /\ upc[u] = "demux" /\ t # <<>> /\ rx' = Emptied(x) /\ delivered' = s \o x.out
        /\ upc' = upc /\ todo'[u] = Tail(t)
    BY <1>4, <1>5, <1>7 DEF WritePdu, Update, Emptied
  <2>2. Receives(g, A, r, s, "demux", t)
    BY <1>5, <2>1
  <2> HIDE DEF r, s, t
  <2>3. Receives(g, A, Emptied(x), s \o x.out, "demux", Tail(t))
    BY <1>4, <1>5, <2>1, <2>2, Reads
  <2> HIDE DEF x
  <2> QED BY <2>1, <2>3
<1>8. CASE Demuxed(u)
  <2>1. /\ upc[u] = "demux" /\ t = <<>> /\ rx' = rx /\ delivered' = delivered
        /\ upc'[u] = "timer" /\ todo' = todo
    BY <1>4, <1>8 DEF Demuxed
  <2>2. Receives(g, A, r, s, "demux", <<>>)
    BY <1>5, <2>1
  <2>3. Receives(g, A, r, s, "timer", <<>>)
    BY <1>5, <2>2, ReadAll
  <2> QED BY <2>1, <2>3
<1>9. CASE StepTimer(u)
  <2>1. /\ upc[u] = "timer" /\ r.running /\ rx' = [r EXCEPT !.running = FALSE]
        /\ delivered' = delivered /\ upc'[u] = "callback" /\ todo' = todo
    BY <1>4, <1>9 DEF StepTimer
  <2>2. Receives(g, A, r, s, "timer", t)
    BY <1>5, <2>1
  <2> HIDE DEF r
  <2>3. Receives(g, A, [r EXCEPT !.running = FALSE], s, "callback", todo'[u])
    BY <2>1, <2>2, Ticks
  <2> QED BY <2>1, <2>3
<1>10. CASE TimerExpired(u)
  <2> DEFINE x == timer_expired(r)
  <2>1. /\ upc[u] = "callback" /\ rx' = Emptied(x) /\ delivered' = s \o x.out
        /\ upc'[u] = "timer" /\ todo' = todo
    BY <1>4, <1>5, <1>10 DEF TimerExpired, Update, Emptied
  <2>2. Receives(g, A, r, s, "callback", t)
    BY <1>5, <2>1
  <2> HIDE DEF r, s, t
  <2>3. Receives(g, A, Emptied(x), s \o x.out, "timer", todo'[u])
    BY <1>4, <1>5, <2>2, Expires
  <2> HIDE DEF x
  <2> QED BY <2>1, <2>3
<1>11. CASE TimerOff(u)
  <2>1. /\ upc[u] = "timer" /\ ~r.running /\ rx' = rx
        /\ delivered' = delivered /\ upc'[u] = "recv" /\ todo' = todo
    BY <1>4, <1>11 DEF TimerOff
  <2>2. Receives(g, A, r, s, "timer", t)
    BY <1>5, <2>1
  <2> HIDE DEF r
  <2>3. Receives(g, A, r, s, "recv", t)
    BY <2>1, <2>2, Stops
  <2> QED BY <2>1, <2>3 DEF r
<1> QED BY <1>7, <1>8, <1>9, <1>10, <1>11 DEF UeThread

-----------------------------------------------------------------------------
(* The invariant.                                                          *)

\* Nothing is sent yet.
NoStream ==
    [sdus |-> <<>>, n |-> 0, pdu |-> [i \in 0 .. -1 |-> <<>>],
     sn |-> [i \in 0 .. 0 |-> 0], at |-> [i \in 0 .. 0 |-> <<1, 0>>]]

\* The stream before anything is sent.
LEMMA NoStreamIs ==
  /\ Stream(NoStream) /\ NoStream.sdus = <<>> /\ NoStream.n = 0
  /\ NoStream.sn[0] = 0 /\ NoStream.at[0] = <<1, 0>>
<1> DEFINE g == NoStream
<1>1. /\ g.sdus = <<>> /\ g.n = 0 /\ g.pdu = [i \in 0 .. -1 |-> <<>>]
      /\ g.sn = [i \in 0 .. 0 |-> 0] /\ g.at = [i \in 0 .. 0 |-> <<1, 0>>]
  BY DEF NoStream
<1>2. 0 .. 0 = {0} /\ 0 .. -1 = {} /\ 0 .. (0 - 1) = {} /\ 0 \in Nums
  BY DEF Nums
<1>3. <<1, 0>> \in Cursor /\ <<1, 0>>[2] = 0
  BY DEF Cursor
<1> HIDE DEF g
<1>4. g.sn[0] = 0 /\ g.at[0] = <<1, 0>>
  BY <1>1, <1>2
<1>5. /\ g.sdus \in Seq(AllSdus) /\ g.n \in Nat
      /\ g.pdu \in [0 .. (g.n - 1) -> RlcPdus]
      /\ g.sn \in [0 .. g.n -> Nums] /\ g.at \in [0 .. g.n -> Cursor]
  BY <1>1, <1>2, <1>3
<1>6. \A i \in 0 .. g.n : Place(g.sdus, g.at[i])
  BY <1>1, <1>2, <1>3, <1>4 DEF Place
<1>7. \A i \in 0 .. (g.n - 1) : Follows(g, i)
  BY <1>1, <1>2
<1>8. Stream(g)
  BY <1>4, <1>5, <1>6, <1>7 DEF Stream
<1> QED BY <1>1, <1>4, <1>8 DEF g

\* Initially.
LEMMA JourneyInit ==
  ASSUME NEW u \in Rnti, Init
  PROVE  Journey(u)
<1> DEFINE g == NoStream
<1>1. /\ Stream(g) /\ g.sdus = <<>> /\ g.n = 0 /\ g.sn[0] = 0 /\ g.at[0] = <<1, 0>>
  BY NoStreamIs
<1> HIDE DEF g
<1>2. /\ written[u] = <<>> /\ aux_line[u] = <<>> /\ aux_first[u] = 0 /\ tx[u] = tx_reset /\ mac_pdu[u] = <<>> /\ air[u] = {}
      /\ aux_next[u] = 0 /\ rx = rx_reset /\ upc[u] = "recv" /\ delivered = <<>>
  BY DEF Init
<1>3. Len(<<>>) = 0 /\ 0 \in 0 .. 0 /\ 0 + 0 = 0 /\ 0 - 0 = 0 /\ 0 <= 0
  OBVIOUS
<1>4. Sends(g, 0, u, <<>>, 0, tx_reset, tpc[u], <<>>)
  <2>1. /\ tx_reset.vt_us = 0 /\ tx_reset.tx_sdu = <<>> /\ tx_reset.tx_sdu_queue = <<>>
    BY DEF tx_reset
  <2>2. Onward(<<>>, 1) = <<>>
    BY <1>3 DEF Onward
  <2>3. Line(<<>>, 1, 0, tx_reset)
    BY <1>3, <2>1, <2>2 DEF Line
  <2>4. <<1, 0>>[1] = 1 /\ <<1, 0>>[2] = 0
    OBVIOUS
  <2>5. IsSlice(g, 0, <<>>)
    <3>1. Slice(g, 0, 0) = <<>>
      BY DEF Slice
    <3> QED BY <1>3, <3>1 DEF IsSlice
  <2>6. Aligned(g, 0)
    BY DEF Aligned
  <2>7. 1 .. 0 = {}
    OBVIOUS
  <2> QED BY <1>1, <1>3, <2>1, <2>3, <2>4, <2>5, <2>6, <2>7 DEF Sends
<1>5. Flies(g, 0, 0, {0}, {})
  BY <1>1, <1>3 DEF Flies
<1>6. Receives(g, 0, rx_reset, <<>>, "recv", todo[u])
  <2> DEFINE r == rx_reset
  <2>1. /\ r.vr_ur = 0 /\ r.vr_ux = 0 /\ r.vr_uh = 0 /\ r.pdu_lost = FALSE
        /\ r.rx_sdu = <<>> /\ r.window = {} /\ r.running = FALSE /\ r.out = <<>>
    BY DEF rx_reset
  <2>2. r \in RxStates(AllBytes)
    <3>1. 0 \in Nums
      BY DEF Nums
    <3> QED BY <3>1 DEF rx_reset, RxStates
  <2> HIDE DEF r
  <2>3. At(g, 0, 0, 0, r)
    <3>1. 0 .. (0 - 1) = {}
      OBVIOUS
    <3>2. {g.pdu[i] : i \in 0 .. (0 - 1)} = {}
      BY <3>1
    <3> QED BY <1>1, <1>3, <2>1, <2>2, <3>2 DEF At
  <2>4. Behaves(g, <<>>, 0, r)
    <3>1. Holds(g.sdus, g.at[0], Aligned(g, 0), r)
      BY <2>1 DEF Holds, Aligned
    <3>2. Wrote(g.sdus, <<>>, g.at[0][1], r)
      <4>1. <<>> \o r.out = <<>>
        BY <2>1
      <4>2. InOrder(g.sdus, <<>>, g.at[0][1])
        <5>1. 1 .. Len(<<>>) = {}
          OBVIOUS
        <5>2. \E f \in [{} -> 1 .. Len(g.sdus)] : TRUE
          <6>1. [i \in {} |-> 0] \in [{} -> 1 .. Len(g.sdus)]
            OBVIOUS
          <6> QED BY <6>1
        <5> QED BY <5>1, <5>2 DEF InOrder
      <4> QED BY <4>1, <4>2 DEF Wrote
    <3> QED BY <3>1, <3>2 DEF Behaves
  <2>5. Rest(g, 0, 0, 0, r)
    BY <2>3 DEF Rest
  <2>6. Receives(g, 0, r, <<>>, "recv", todo[u])
    BY <1>3, <2>1, <2>4, <2>5 DEF Receives
  <2> QED BY <2>6 DEF r
<1>7. Goes(g, {0}, u) /\ Arrived(g, u)
  BY <1>1, <1>2, <1>3, <1>4, <1>5, <1>6 DEF Goes, Arrived
<1> QED BY <1>7 DEF Journey

\* A step elsewhere.
LEMMA JourneyElsewhere ==
  ASSUME NEW u, Journey(u),
         written'[u] = written[u], tx'[u] = tx[u], tpc'[u] = tpc[u], mac_pdu'[u] = mac_pdu[u],
         aux_line'[u] = aux_line[u], aux_first'[u] = aux_first[u], air'[u] = air[u],
         aux_next'[u] = aux_next[u],
         Alone(u)' => /\ Alone(u) /\ rx' = rx /\ delivered' = delivered
                      /\ upc'[u] = upc[u] /\ todo'[u] = todo[u]
  PROVE  Journey(u)'
<1>1. PICK g, K : Goes(g, K, u) /\ (Alone(u) => Arrived(g, u))
  BY DEF Journey
<1>2. Goes(g, K, u)'
  BY <1>1 DEF Goes
<1>3. Alone(u)' => Arrived(g, u)'
  BY <1>1 DEF Arrived
<1> QED BY <1>2, <1>3 DEF Journey

\* Nothing has come for an RNTI whose thread never left its socket.
Quiet == \A v \in Rnti : aux_next[v] = 0 => upc[v] = "recv"

\* As long as all fits, one RNTI was heard.
OneHeard == aux_fit => \A v, w \in Rnti : aux_next[v] # 0 /\ aux_next[w] # 0 => v = w

HeardInv == Quiet /\ OneHeard

\* What a MAC PDU that arrives does to the numbers.
LEMMA DeliverFacts ==
  ASSUME SenderInv, ReceiverType, NEW v \in Rnti, NEW e \in air[v], Deliver(v, e[1], e[2])
  PROVE  /\ aux_next'[v] # 0 /\ upc'[v] = "demux"
         /\ \A u \in Rnti \ {v} : /\ aux_next'[u] = aux_next[u]
                                  /\ upc'[u] = upc[u] /\ todo'[u] = todo[u]
         /\ aux_fit' => aux_fit /\ \A u \in Rnti \ {v} : aux_next[u] = 0
         /\ UNCHANGED <<txVars, air, rx, delivered>>
<1> DEFINE c == e[1]
           l == Len(e[2])
           A == aux_next[v]
           B == IF c + l > A THEN c + l ELSE A
<1>1. /\ aux_next \in [Rnti -> Nat]
      /\ upc \in [Rnti -> {"recv", "demux", "timer", "callback"}]
      /\ todo \in [Rnti -> Seq(RlcPdus)]
  BY DEF SenderInv, AirType, ReceiverType
<1>2. c \in Nat /\ e[2] \in MacPdus \ {<<>>}
  <2>1. air[v] \in SUBSET (Nat \X (MacPdus \ {<<>>}))
    BY DEF SenderInv, AirType
  <2> QED BY <2>1
<1>3. l \in Nat \ {0}
  BY <1>2 DEF MacPdus
<1>4. /\ aux_next' = [aux_next EXCEPT ![v] = B] /\ upc' = [upc EXCEPT ![v] = "demux"]
      /\ todo' = [todo EXCEPT ![v] = Unpacked(e[2])]
      /\ aux_fit' = (aux_fit /\ Fits(v, c, e[2]))
      /\ UNCHANGED <<txVars, air, rx, delivered>>
  BY DEF Deliver
<1>5. A \in Nat
  BY <1>1
<1> HIDE DEF c, l, A
<1>6. B # 0
  BY <1>2, <1>3, <1>5
<1> HIDE DEF B
<1>7. /\ aux_next'[v] = B /\ upc'[v] = "demux"
      /\ \A u \in Rnti \ {v} : /\ aux_next'[u] = aux_next[u]
                               /\ upc'[u] = upc[u] /\ todo'[u] = todo[u]
  BY <1>1, <1>4
<1>8. aux_fit' => aux_fit /\ \A u \in Rnti \ {v} : aux_next[u] = 0
  BY <1>4 DEF Fits
<1> QED BY <1>4, <1>6, <1>7, <1>8

\* What a step of the UE's thread leaves alone.
LEMMA UeFacts ==
  ASSUME ReceiverType, NEW v \in Rnti, UeThread(v)
  PROVE  /\ UNCHANGED <<txVars, airVars>> /\ upc[v] # "recv"
         /\ \A u \in Rnti \ {v} : upc'[u] = upc[u] /\ todo'[u] = todo[u]
<1>1. UNCHANGED <<txVars, airVars>> /\ upc[v] # "recv"
  BY DEF UeThread, WritePdu, Demuxed, StepTimer, TimerExpired, TimerOff
<1>2. /\ upc \in [Rnti -> {"recv", "demux", "timer", "callback"}]
      /\ todo \in [Rnti -> Seq(RlcPdus)]
  BY DEF ReceiverType
<1>3. /\ \/ upc' = upc
         \/ \E c : upc' = [upc EXCEPT ![v] = c]
      /\ \/ todo' = todo
         \/ \E t : todo' = [todo EXCEPT ![v] = t]
  BY DEF UeThread, WritePdu, Demuxed, StepTimer, TimerExpired, TimerOff
<1>4. \A u \in Rnti \ {v} : upc'[u] = upc[u] /\ todo'[u] = todo[u]
  BY <1>2, <1>3
<1> QED BY <1>1, <1>4

LEMMA HeardStep ==
  ASSUME SenderInv, ReceiverType, HeardInv, [Next]_vars
  PROVE  HeardInv'
<1>1. Quiet /\ OneHeard
  BY DEF HeardInv
<1>2. ASSUME UNCHANGED <<upc, airVars>> PROVE HeardInv'
  BY <1>1, <1>2 DEF HeardInv, Quiet, OneHeard, airVars
<1>3. CASE UNCHANGED vars
  BY <1>2, <1>3 DEF vars, ueVars
<1>4. CASE Next
  <2>1. PICK v \in Rnti :
          \/ \E n \in SduLen : WriteSdu(v, n)
          \/ Poll(v) \/ Allocate(v) \/ Build(v) \/ Send(v)
          \/ \E e \in air[v] : Deliver(v, e[1], e[2])
          \/ UeThread(v)
    BY <1>4 DEF Next
  <2>2. CASE \/ \E n \in SduLen : WriteSdu(v, n)
             \/ Poll(v) \/ Allocate(v) \/ Build(v) \/ Send(v)
    <3>1. upc' = upc /\ aux_next' = aux_next /\ aux_fit' = aux_fit
      BY <2>2 DEF WriteSdu, Poll, Allocate, Build, Send, airVars, ueVars
    <3> QED BY <1>1, <3>1 DEF HeardInv, Quiet, OneHeard
  <2>3. ASSUME NEW e \in air[v], Deliver(v, e[1], e[2]) PROVE HeardInv'
    <3>1. /\ aux_next'[v] # 0 /\ upc'[v] = "demux"
          /\ \A u \in Rnti \ {v} : aux_next'[u] = aux_next[u] /\ upc'[u] = upc[u]
          /\ aux_fit' => \A u \in Rnti \ {v} : aux_next[u] = 0
      BY <2>3, DeliverFacts
    <3>2. Quiet'
      BY <1>1, <3>1 DEF Quiet
    <3>3. OneHeard'
      BY <3>1 DEF OneHeard
    <3> QED BY <3>2, <3>3 DEF HeardInv
  <2>4. CASE UeThread(v)
    <3>1. /\ UNCHANGED airVars /\ upc[v] # "recv"
          /\ \A u \in Rnti \ {v} : upc'[u] = upc[u]
      BY <2>4, UeFacts
    <3>2. Quiet'
      BY <1>1, <3>1 DEF Quiet, airVars
    <3>3. OneHeard'
      BY <1>1, <3>1 DEF OneHeard, airVars
    <3> QED BY <3>2, <3>3 DEF HeardInv
  <2> QED BY <2>1, <2>2, <2>3, <2>4
<1> QED BY <1>3, <1>4

\* A step of the sender of v, or of HARQ for it.
LEMMA JourneyOfOther ==
  ASSUME NEW u \in Rnti, NEW v \in Rnti \ {u}, SenderInv, ReceiverType, Quiet, Journey(u),
         \/ \E n \in SduLen : WriteSdu(v, n)
         \/ Poll(v) \/ Allocate(v) \/ Build(v) \/ Send(v)
         \/ \E e \in air[v] : Deliver(v, e[1], e[2])
         \/ UeThread(v)
  PROVE  Journey(u)'
<1>1. CASE \/ \E n \in SduLen : WriteSdu(v, n)
           \/ Poll(v) \/ Allocate(v) \/ Build(v) \/ Send(v)
  <2>1. /\ written \in [Rnti -> {s \in Seq(AllSdus) : Len(s) <= N_SDU}]
        /\ tx \in [Rnti -> TxStates(AllSdus)]
        /\ tpc \in [Rnti -> {"poll", "alloc", "build", "send"}]
        /\ mac_pdu \in [Rnti -> MacPdus] /\ aux_line \in [Rnti -> Seq(RlcPdus)]
        /\ aux_first \in [Rnti -> Nat]
        /\ air \in [Rnti -> SUBSET (Nat \X (MacPdus \ {<<>>}))]
    BY DEF SenderInv, SenderType, AirType
  <2>2. written'[u] = written[u] /\ tx'[u] = tx[u] /\ tpc'[u] = tpc[u] /\ air'[u] = air[u]
    BY <1>1, <2>1 DEF WriteSdu, Poll, Allocate, Build, Send, airVars
  <2>3. /\ mac_pdu'[u] = mac_pdu[u] /\ aux_line'[u] = aux_line[u]
        /\ aux_first'[u] = aux_first[u]
    BY <1>1, <2>1 DEF WriteSdu, Poll, Allocate, Build, Send
  <2>4. aux_next' = aux_next /\ aux_fit' = aux_fit /\ UNCHANGED ueVars
    BY <1>1 DEF WriteSdu, Poll, Allocate, Build, Send, airVars
  <2>5. Alone(u)' = Alone(u)
    BY <2>4 DEF Alone
  <2> QED BY <2>2, <2>3, <2>4, <2>5, JourneyElsewhere DEF ueVars
<1>2. ASSUME NEW e \in air[v], Deliver(v, e[1], e[2]) PROVE Journey(u)'
  <2>1. aux_next'[v] # 0 /\ aux_next'[u] = aux_next[u] /\ UNCHANGED <<txVars, air>>
    BY <1>2, DeliverFacts
  <2>2. ~Alone(u)'
    BY <2>1 DEF Alone
  <2> QED BY <2>1, <2>2, JourneyElsewhere DEF txVars
<1>3. CASE UeThread(v)
  <2>1. UNCHANGED <<txVars, airVars>> /\ aux_next[v] # 0
    BY <1>3, UeFacts DEF Quiet
  <2>2. ~Alone(u)'
    BY <2>1 DEF Alone, airVars
  <2> QED BY <2>1, <2>2, JourneyElsewhere DEF txVars, airVars
<1> QED BY <1>1, <1>2, <1>3

\* Every step of the system.
LEMMA JourneyStep ==
  ASSUME NEW u \in Rnti, SenderInv, ReceiverType, Quiet, Journey(u), [Next]_vars
  PROVE  Journey(u)'
<1>1. CASE UNCHANGED vars
  <2>1. Alone(u)' = Alone(u)
    BY <1>1 DEF Alone, vars, airVars
  <2> QED BY <1>1, <2>1, JourneyElsewhere DEF vars, txVars, airVars, ueVars
<1>2. CASE Next
  <2>1. PICK v \in Rnti :
          \/ \E n \in SduLen : WriteSdu(v, n)
          \/ Poll(v) \/ Allocate(v) \/ Build(v) \/ Send(v)
          \/ \E e \in air[v] : Deliver(v, e[1], e[2])
          \/ UeThread(v)
    BY <1>2 DEF Next
  <2>2. CASE v = u
    <3>1. ASSUME NEW n \in SduLen, WriteSdu(u, n) PROVE Journey(u)'
      BY <3>1, JourneyWrite
    <3>2. CASE Poll(u) \/ Allocate(u)
      BY <3>2, JourneyPoll
    <3>3. CASE Build(u)
      BY <3>3, JourneyBuild
    <3>4. CASE Send(u)
      BY <3>4, JourneySend
    <3>5. ASSUME NEW e \in air[u], Deliver(u, e[1], e[2]) PROVE Journey(u)'
      BY <3>5, JourneyDeliver
    <3>6. CASE UeThread(u)
      BY <3>6, JourneyUe
    <3> QED BY <2>1, <2>2, <3>1, <3>2, <3>3, <3>4, <3>5, <3>6
  <2>3. CASE v # u
    BY <2>1, <2>3, JourneyOfOther
  <2> QED BY <2>2, <2>3
<1> QED BY <1>1, <1>2

JourneyInv == HeardInv /\ \A u \in Rnti : Journey(u)

LEMMA JourneyAlways == Spec => []JourneyInv
<1>1. Init => JourneyInv
  <2>1. Init => HeardInv
    BY DEF Init, HeardInv, Quiet, OneHeard
  <2> QED BY <2>1, JourneyInit DEF JourneyInv
<1>2. SenderInv /\ ReceiverInv /\ JourneyInv /\ [Next]_vars => JourneyInv'
  <2> SUFFICES ASSUME SenderInv, ReceiverInv, JourneyInv, [Next]_vars PROVE JourneyInv'
    OBVIOUS
  <2>1. ReceiverType /\ HeardInv /\ Quiet
    BY DEF ReceiverInv, JourneyInv, HeardInv
  <2>2. HeardInv'
    BY <2>1, HeardStep
  <2>3. \A u \in Rnti : Journey(u)'
    BY <2>1, JourneyStep DEF JourneyInv
  <2> QED BY <2>2, <2>3 DEF JourneyInv
<1> QED BY <1>1, <1>2, SenderAlways, ReceiverAlways, PTL DEF Spec

-----------------------------------------------------------------------------
(* What the UE writes to its tun device.                                   *)

\* The SDUs d are whole, and each comes once and in its place.
EachWhole(d) == \A i \in 1 .. Len(d) : d[i] # <<>> /\ d[i] = Bytes(d[i][1][1])

Name(d, i) == d[i][1][1][1]

OnceEach(d) ==
    \A i, j \in 1 .. Len(d) :
      i < j /\ Name(d, i)[1] = Name(d, j)[1] => Name(d, i)[2] < Name(d, j)[2]

\* What InOrder says of the SDUs of one RNTI.
LEMMA InOrderIsOnce ==
  ASSUME NEW u, NEW z \in Seq(AllSdus), \A i \in 1 .. Len(z) : z[i][1] = <<u, i>>,
         NEW d, NEW v, InOrder(z, d, v)
  PROVE  EachWhole(d) /\ OnceEach(d)
<1> DEFINE I == 1 .. Len(d)
<1>1. PICK f \in [I -> 1 .. Len(z)] :
        /\ \A i \in I : d[i] = Bytes(z[f[i]])
        /\ \A i, j \in I : i < j => f[i] < f[j]
  BY DEF InOrder
<1>2. ASSUME NEW i \in I
      PROVE  /\ d[i] # <<>> /\ d[i][1][1] = z[f[i]] /\ d[i] = Bytes(d[i][1][1])
             /\ d[i][1][1][1] = <<u, f[i]>>
  <2> DEFINE x == z[f[i]]
  <2>1. f[i] \in 1 .. Len(z) /\ d[i] = Bytes(x)
    BY <1>1
  <2>2. x \in AllSdus /\ x[2] \in Nat \ {0} /\ x[1] = <<u, f[i]>>
    BY <2>1, SduFacts
  <2> HIDE DEF x
  <2>3. Bytes(x) # <<>> /\ Bytes(x)[1] = <<x, 1>>
    <3>1. 1 \in 1 .. x[2]
      BY <2>2
    <3>2. Bytes(x) = [k \in 1 .. x[2] |-> <<x, k>>]
      BY DEF Bytes
    <3>3. Len(Bytes(x)) = x[2]
      BY <2>2, <3>2
    <3> QED BY <2>2, <3>1, <3>2, <3>3
  <2> QED BY <2>1, <2>2, <2>3 DEF x
<1>3. EachWhole(d)
  BY <1>2 DEF EachWhole
<1>4. OnceEach(d)
  <2>1. ASSUME NEW i \in I, NEW j \in I, i < j PROVE Name(d, i)[2] < Name(d, j)[2]
    <3>1. Name(d, i) = <<u, f[i]>> /\ Name(d, j) = <<u, f[j]>>
      BY <1>2 DEF Name
    <3> QED BY <1>1, <2>1, <3>1
  <2> QED BY <2>1 DEF OnceEach
<1> QED BY <1>3, <1>4

\* What the stream says of the SDUs written to the tun device.
LEMMA GoodIfAlone ==
  ASSUME NEW u, NEW g, Stream(g), NEW S, NEW w, NEW n, NEW t, NEW pc, NEW m,
         Sends(g, S, u, w, n, t, pc, m),
         NEW A, NEW r, r.out = <<>>, NEW s \in Seq(Seq(AllBytes)), NEW upc1, NEW todo1,
         Receives(g, A, r, s, upc1, todo1)
  PROVE  EachWhole(s) /\ OnceEach(s)
<1> DEFINE z == g.sdus
<1>1. /\ z \in Seq(AllSdus) /\ \A i \in 1 .. Len(z) : z[i][1] = <<u, i>>
  BY DEF Stream, Sends
<1>2. PICK R : Wrote(z, s, g.at[R][1], r)
  BY DEF Receives, Behaves
<1>3. s \o r.out = s
  <2> DEFINE U == Seq(AllBytes)
  <2>1. s \in Seq(U)
    OBVIOUS
  <2> HIDE DEF U
  <2> QED BY <2>1
<1> HIDE DEF z
<1>4. InOrder(z, s, g.at[R][1])
  BY <1>2, <1>3 DEF Wrote
<1> QED BY <1>1, <1>4, InOrderIsOnce

Contract == EachWhole(delivered) /\ OnceEach(delivered)

LEMMA ContractStep ==
  ASSUME ReceiverType', JourneyInv, JourneyInv', Contract, ReceiverType, [Next]_vars
  PROVE  Contract'
<1>1. CASE delivered' = delivered
  BY <1>1 DEF Contract
<1>2. ASSUME NEW v \in Rnti, UeThread(v), delivered' # delivered PROVE Contract'
  <2>1. UNCHANGED airVars /\ aux_next[v] # 0 /\ aux_fit
    <3>1. UNCHANGED airVars /\ upc[v] # "recv"
      BY <1>2, UeFacts
    <3>2. aux_fit
      BY <1>2 DEF UeThread, WritePdu, Demuxed, StepTimer, TimerExpired, TimerOff, Update
    <3> QED BY <3>1, <3>2 DEF JourneyInv, HeardInv, Quiet
  <2>2. Alone(v)'
    BY <2>1 DEF JourneyInv, HeardInv, OneHeard, Alone, airVars
  <2>3. PICK g, K : Goes(g, K, v)' /\ Arrived(g, v)'
    <3>1. Journey(v)'
      BY DEF JourneyInv
    <3> QED BY <2>2, <3>1 DEF Journey
  <2>4. rx'.out = <<>> /\ delivered' \in Seq(Seq(AllBytes))
    BY DEF ReceiverType
  <2>5. /\ Stream(g)
        /\ Sends(g, aux_first'[v], v, written'[v], Len(aux_line'[v]), tx'[v], tpc'[v], mac_pdu'[v])
        /\ Receives(g, aux_next'[v], rx', delivered', upc'[v], todo'[v])
    BY <2>3 DEF Goes, Arrived
  <2>6. EachWhole(delivered') /\ OnceEach(delivered')
    BY ONLY <2>4, <2>5, GoodIfAlone
  <2> QED BY <2>6 DEF Contract
<1>3. CASE UNCHANGED vars
  BY <1>1, <1>3 DEF vars, ueVars
<1>4. CASE Next
  <2>1. PICK v \in Rnti :
          \/ \E n \in SduLen : WriteSdu(v, n)
          \/ Poll(v) \/ Allocate(v) \/ Build(v) \/ Send(v)
          \/ \E e \in air[v] : Deliver(v, e[1], e[2])
          \/ UeThread(v)
    BY <1>4 DEF Next
  <2>2. UeThread(v) \/ delivered' = delivered
    BY <2>1 DEF WriteSdu, Poll, Allocate, Build, Send, Deliver, ueVars
  <2> QED BY <1>1, <1>2, <2>2
<1> QED BY <1>3, <1>4

LEMMA ContractAlways == Spec => []Contract
<1>1. Init => Contract
  <2>1. 1 .. Len(<<>>) = {}
    OBVIOUS
  <2> QED BY <2>1 DEF Init, Contract, EachWhole, OnceEach
<1>2. /\ ReceiverInv /\ ReceiverInv' /\ JourneyInv /\ JourneyInv' /\ Contract /\ [Next]_vars
      => Contract'
  BY ContractStep DEF ReceiverInv
<1> QED BY <1>1, <1>2, ReceiverAlways, JourneyAlways, PTL DEF Spec

\* Whatever HARQ loses, repeats and reorders, for as long as every MAC PDU that
\* comes is of one RNTI and no more than WINDOW numbers out of place (aux_fit),
\* the UE writes whole SDUs of the eNB to its tun device (rlc_um.cc of the UE):
\* for any RNTIs, lengths and numbers of SDUs, grants and window.
THEOREM SdusAlwaysWhole == Spec => []SdusWhole
<1>1. Contract => SdusWhole
  BY DEF Contract, EachWhole, SdusWhole
<1> QED BY <1>1, ContractAlways, PTL

\* For as long, they come in the order they were written, and none twice,
\* although the UE gets MAC PDUs again after having used them.
THEOREM AlwaysInOrderOnce == Spec => []InOrderOnce
<1>1. Contract => InOrderOnce
  BY DEF Contract, OnceEach, Name, InOrderOnce, SduOf
<1> QED BY <1>1, ContractAlways, PTL
=============================================================================
