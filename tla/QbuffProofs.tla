---------------------------- MODULE QbuffProofs ----------------------------
(***************************************************************************)
(* What the operations of one ring keep, for every size of the ring and    *)
(* every set of PDUs.  The entity's proofs use these facts and no longer   *)
(* look into the ring.                                                     *)
(***************************************************************************)
EXTENDS Qbuff, Sequences, FiniteSetTheorems, TLAPS

\* The arithmetic of the ring indices: one further, and around at the end.
LEMMA AdvanceWraps ==
    ASSUME NEW i \in Slot
    PROVE  /\ advance(i) \in Slot
           /\ advance(i) = IF i + 1 = NOF_BUFFER_PDUS THEN 0 ELSE i + 1
<1>1. NOF_BUFFER_PDUS \in Nat /\ NOF_BUFFER_PDUS > 0
  BY QbuffAssumption
<1>2. CASE i + 1 = NOF_BUFFER_PDUS
  <2>1. (i + 1) % NOF_BUFFER_PDUS = 0
    BY <1>1, <1>2, Z3
  <2> QED BY <1>1, <1>2, <2>1 DEF advance, Slot
<1>3. CASE i + 1 # NOF_BUFFER_PDUS
  <2>1. i + 1 < NOF_BUFFER_PDUS
    BY <1>1, <1>3 DEF Slot
  <2>2. (i + 1) % NOF_BUFFER_PDUS = i + 1
    BY <1>1, <2>1 DEF Slot
  <2> QED BY <1>1, <1>3, <2>1, <2>2 DEF advance, Slot
<1> QED BY <1>2, <1>3

\* A flushed ring is an empty ring of the right shape.
LEMMA FlushShape == flush \in Ring /\ WellShaped(flush) /\ isempty(flush)
<1>1. 0 \in Slot
  BY QbuffAssumption DEF Slot
<1> QED BY <1>1 DEF flush, Ring, WellShaped, InSpan, isempty

\* What qbuff::send() keeps: the shape, and every PDU the ring already holds;
\* afterwards the ring is not empty.
LEMMA SendShape ==
    ASSUME NEW q \in Ring, NEW m \in Pdu, WellShaped(q)
    PROVE  /\ send(q, m) \in Ring
           /\ WellShaped(send(q, m))
           /\ ~isempty(send(q, m))
           /\ ~isempty(q) => pop(send(q, m)) = pop(q)
<1>1. CASE isfull(q)
  <2>1. ~isempty(q)
    BY <1>1 DEF isfull, isempty, WellShaped, InSpan, Ring, Slot
  <2> QED BY <1>1, <2>1 DEF send
<1>2. CASE ~isfull(q)
  <2> DEFINE r == push(q, m)
  <2>1. send(q, m) = r
    BY <1>2 DEF send
  <2>2. /\ q.wp \in Slot /\ q.rp \in Slot
        /\ q.packets \in [Slot -> Pdu \cup {NULL}]
        /\ NULL \notin Pdu
        /\ NOF_BUFFER_PDUS \in Nat
    BY QbuffAssumption DEF Ring
  <2>3. /\ advance(q.wp) \in Slot
        /\ advance(q.wp) =
             IF q.wp + 1 = NOF_BUFFER_PDUS THEN 0 ELSE q.wp + 1
    BY <2>2, AdvanceWraps
  <2>4. /\ r.packets = [q.packets EXCEPT ![q.wp] = m]
        /\ r.rp = q.rp
        /\ r.wp = advance(q.wp)
    BY DEF push
  <2>5. r \in Ring
    BY <2>2, <2>3 DEF push, Ring
  <2>6. \A s \in Slot : r.packets[s] = IF s = q.wp THEN m ELSE q.packets[s]
    BY <2>2, <2>4
  <2>7. q.packets[q.wp] = NULL
    BY <1>2 DEF isfull
  <2>8. WellShaped(r)
    <3> SUFFICES ASSUME NEW s \in Slot
                 PROVE  r.packets[s] # NULL <=> InSpan(r, s)
      BY DEF WellShaped
    <3>1. \A t \in Slot : q.packets[t] # NULL <=> InSpan(q, t)
      BY DEF WellShaped
    <3>2. CASE r.rp = r.wp
      BY <2>2, <2>3, <2>4, <2>6, <2>7, <3>1, <3>2 DEF InSpan, Slot
    <3>3. CASE r.rp # r.wp
      BY <2>2, <2>3, <2>4, <2>6, <2>7, <3>1, <3>3 DEF InSpan, Slot
    <3> QED BY <3>2, <3>3
  <2>9. ~isempty(q) => q.rp # q.wp
    BY <2>7 DEF isempty
  <2>10. isempty(q) => q.rp = q.wp
    BY <2>2 DEF isempty, WellShaped, InSpan, Slot
  <2> QED BY <2>1, <2>2, <2>4, <2>5, <2>6, <2>8, <2>9, <2>10 DEF isempty, pop
<1> QED BY <1>1, <1>2

\* What qbuff::release() keeps when there is a packet to release.
LEMMA ReleaseShape ==
    ASSUME NEW q \in Ring, WellShaped(q), ~isempty(q)
    PROVE  release(q) \in Ring /\ WellShaped(release(q))
<1> DEFINE r == release(q)
<1>1. /\ q.wp \in Slot /\ q.rp \in Slot
      /\ q.packets \in [Slot -> Pdu \cup {NULL}]
      /\ NOF_BUFFER_PDUS \in Nat
  BY QbuffAssumption DEF Ring
<1>2. /\ advance(q.rp) \in Slot
      /\ advance(q.rp) =
           IF q.rp + 1 = NOF_BUFFER_PDUS THEN 0 ELSE q.rp + 1
  BY <1>1, AdvanceWraps
<1>3. /\ r.packets = [q.packets EXCEPT ![q.rp] = NULL]
      /\ r.rp = advance(q.rp)
      /\ r.wp = q.wp
  BY DEF release
<1>4. r \in Ring
  BY <1>1, <1>2 DEF release, Ring
<1>5. \A s \in Slot : r.packets[s] = IF s = q.rp THEN NULL ELSE q.packets[s]
  BY <1>1, <1>3
<1>6. q.packets[q.rp] # NULL
  BY DEF isempty
<1>7. WellShaped(r)
  <2> SUFFICES ASSUME NEW s \in Slot
               PROVE  r.packets[s] # NULL <=> InSpan(r, s)
    BY DEF WellShaped
  <2>1. \A t \in Slot : q.packets[t] # NULL <=> InSpan(q, t)
    BY DEF WellShaped
  <2>2. CASE r.rp = r.wp
    BY <1>1, <1>2, <1>3, <1>5, <1>6, <2>1, <2>2 DEF InSpan, Slot
  <2>3. CASE r.rp # r.wp
    BY <1>1, <1>2, <1>3, <1>5, <1>6, <2>1, <2>3 DEF InSpan, Slot
  <2> QED BY <2>2, <2>3
<1> QED BY <1>4, <1>7

\* send() and release() leave a ring, whatever its shape.
LEMMA RingType ==
    ASSUME NEW q \in Ring
    PROVE  /\ \A m \in Pdu : send(q, m) \in Ring
           /\ release(q) \in Ring
<1>1. advance(q.wp) \in Slot /\ advance(q.rp) \in Slot
  BY AdvanceWraps DEF Ring
<1>2. \A m \in Pdu : send(q, m) \in Ring
  BY <1>1 DEF send, push, Ring
<1>3. release(q) \in Ring
  BY <1>1 DEF release, Ring
<1> QED BY <1>2, <1>3

\* What pop() returns is a PDU, or NULL for an empty ring only.
LEMMA PopType ==
    ASSUME NEW q \in Ring
    PROVE  /\ pop(q) \in Pdu \cup {NULL}
           /\ isempty(q) <=> pop(q) = NULL
BY DEF pop, isempty, Ring

-----------------------------------------------------------------------------
(* The queue a ring stands for.                                            *)

\* The slot j further on than s, and the number of PDUs, both without `%'.
Further(s, j) == IF s + j < NOF_BUFFER_PDUS THEN s + j ELSE s + j - NOF_BUFFER_PDUS

Count(q) ==
    IF isempty(q) THEN 0
    ELSE IF q.rp < q.wp THEN q.wp - q.rp ELSE q.wp + NOF_BUFFER_PDUS - q.rp

\* The parts of a ring that is in use, with what the provers need to know.
LEMMA RingFacts ==
    ASSUME NEW q \in Ring
    PROVE  /\ NOF_BUFFER_PDUS \in Nat /\ NOF_BUFFER_PDUS > 0 /\ NULL \notin Pdu
           /\ q.packets \in [Slot -> Pdu \cup {NULL}]
           /\ q.rp \in Slot /\ q.wp \in Slot
           /\ q.rp \in Nat /\ q.rp < NOF_BUFFER_PDUS
           /\ q.wp \in Nat /\ q.wp < NOF_BUFFER_PDUS
BY QbuffAssumption DEF Ring, Slot

LEMMA ModWraps ==
    ASSUME NEW s \in Slot, NEW j \in Slot
    PROVE  /\ (s + j) % NOF_BUFFER_PDUS = Further(s, j)
           /\ Further(s, j) \in Slot
<1>1. NOF_BUFFER_PDUS \in Nat /\ NOF_BUFFER_PDUS > 0 /\ s \in Nat /\ j \in Nat
      /\ s < NOF_BUFFER_PDUS /\ j < NOF_BUFFER_PDUS
  BY QbuffAssumption DEF Slot
<1>2. CASE s + j < NOF_BUFFER_PDUS
  <2>1. (s + j) % NOF_BUFFER_PDUS = s + j
    BY <1>1, <1>2
  <2> QED BY <1>1, <1>2, <2>1 DEF Further, Slot
<1>3. CASE ~(s + j < NOF_BUFFER_PDUS)
  <2>1. (s + j) % NOF_BUFFER_PDUS = s + j - NOF_BUFFER_PDUS
    BY <1>1, <1>3, Z3
  <2> QED BY <1>1, <1>3, <2>1 DEF Further, Slot
<1> QED BY <1>2, <1>3

LEMMA CountBounds ==
    ASSUME NEW q \in Ring, WellShaped(q)
    PROVE  /\ Count(q) \in 0 .. NOF_BUFFER_PDUS
           /\ isempty(q) <=> Count(q) = 0
           /\ isfull(q) <=> Count(q) = NOF_BUFFER_PDUS
<1>1. \A s \in Slot : q.packets[s] # NULL <=> InSpan(q, s)
  BY DEF WellShaped
<1>2. CASE q.rp = q.wp
  BY <1>2, RingFacts DEF Count, isempty, isfull
<1>3. CASE q.rp # q.wp
  <2>1. q.packets[q.rp] # NULL /\ q.packets[q.wp] = NULL
    BY <1>1, <1>3, RingFacts DEF InSpan
  <2>2. Count(q) \in 1 .. (NOF_BUFFER_PDUS - 1)
    BY <1>3, <2>1, RingFacts DEF Count, isempty
  <2> QED BY <2>1, <2>2, RingFacts DEF isempty, isfull
<1> QED BY <1>2, <1>3

LEMMA HalfOpen ==
    ASSUME NEW a \in Nat, NEW n \in Nat, a <= n
    PROVE  IsFiniteSet(a .. (n - 1)) /\ Cardinality(a .. (n - 1)) = n - a
<1> DEFINE b == n - 1
<1>1. a \in Int /\ b \in Int
  OBVIOUS
<1> HIDE DEF b
<1>2. IsFiniteSet(a .. b) /\ Cardinality(a .. b) = IF a > b THEN 0 ELSE b - a + 1
  BY <1>1, FS_Interval
<1> USE DEF b
<1>3. (IF a > b THEN 0 ELSE b - a + 1) = n - a
  OBVIOUS
<1> QED BY <1>2, <1>3

LEMMA CountIsPending ==
    ASSUME NEW q \in Ring, WellShaped(q)
    PROVE  pending_msgs(q) = Count(q)
<1> DEFINE V == {s \in Slot : q.packets[s] # NULL}
           N == NOF_BUFFER_PDUS
<1>1. \A s \in Slot : q.packets[s] # NULL <=> InSpan(q, s)
  BY DEF WellShaped
<1>2. /\ N \in Nat /\ N > 0
      /\ q.rp \in Nat /\ q.rp < N /\ q.wp \in Nat /\ q.wp < N
  BY RingFacts
<1> HIDE DEF N
<1>0. \A s : s \in Slot <=> s \in Int /\ 0 <= s /\ s < N
  BY <1>2 DEF Slot, N
<1>3. CASE isempty(q)
  <2>1. V = {}
    <3>1. q.rp = q.wp
      BY <1>0, <1>1, <1>2, <1>3 DEF isempty, InSpan
    <3>2. \A s \in Slot : q.packets[s] = NULL
      BY <1>1, <1>2, <1>3, <3>1 DEF isempty, InSpan
    <3> QED BY <3>2
  <2> QED BY <1>3, <2>1, FS_EmptySet DEF pending_msgs, Count
<1>4. CASE ~isempty(q) /\ q.rp < q.wp
  <2>1. V = q.rp .. (q.wp - 1)
    <3>1. \A s \in Slot : s \in V <=> q.rp <= s /\ s < q.wp
      BY <1>1, <1>4 DEF InSpan
    <3>2. \A s : s \in q.rp .. (q.wp - 1) <=> s \in Slot /\ q.rp <= s /\ s < q.wp
      BY <1>0, <1>2
    <3> QED BY <3>1, <3>2
  <2>2. Cardinality(q.rp .. (q.wp - 1)) = q.wp - q.rp
    BY <1>2, <1>4, HalfOpen
  <2> QED BY <1>4, <2>1, <2>2 DEF pending_msgs, Count
<1>5. CASE ~isempty(q) /\ ~(q.rp < q.wp)
  <2> DEFINE A == q.rp .. (N - 1)
             B == 0 .. (q.wp - 1)
  <2>1. V = A \cup B
    <3>1. \A s \in Slot : s \in V <=> q.rp <= s \/ s < q.wp
      BY <1>0, <1>1, <1>2, <1>5 DEF isempty, InSpan
    <3>2. \A s : s \in A \cup B <=> s \in Slot /\ (q.rp <= s \/ s < q.wp)
      BY <1>0, <1>2
    <3> QED BY <3>1, <3>2
  <2>2. A \cap B = {}
    BY <1>2, <1>5
  <2>3. /\ IsFiniteSet(A) /\ Cardinality(A) = N - q.rp
        /\ IsFiniteSet(B) /\ Cardinality(B) = q.wp
    <3>1. IsFiniteSet(A) /\ Cardinality(A) = N - q.rp
      BY <1>2, HalfOpen
    <3>2. IsFiniteSet(B) /\ Cardinality(B) = q.wp - 0
      BY <1>2, HalfOpen
    <3> QED BY <1>2, <3>1, <3>2
  <2>4. Cardinality(A \cap B) = 0
    BY <2>2, FS_EmptySet
  <2> HIDE DEF A, B
  <2>5. Cardinality(A \cup B) = Cardinality(A) + Cardinality(B) - Cardinality(A \cap B)
    BY <2>3, FS_Union
  <2>6. Cardinality(V) = q.wp + N - q.rp
    BY <1>2, <2>1, <2>3, <2>4, <2>5
  <2> QED BY <1>5, <2>6 DEF pending_msgs, Count, N
<1> QED BY <1>3, <1>4, <1>5

\* What pop(len, idx) shows is the PDU idx slots on, as long as there is one.
LEMMA PopAtIs ==
    ASSUME NEW q \in Ring, WellShaped(q), NEW j \in 0 .. (Count(q) - 1)
    PROVE  /\ popAt(q, j) = q.packets[Further(q.rp, j)]
           /\ popAt(q, j) \in Pdu
<1>1. \A s \in Slot : q.packets[s] # NULL <=> InSpan(q, s)
  BY DEF WellShaped
<1>2. Count(q) \in 0 .. NOF_BUFFER_PDUS
  BY CountBounds
<1>3. \A i \in 0 .. j :
        /\ i \in Slot
        /\ (q.rp + i) % NOF_BUFFER_PDUS = Further(q.rp, i)
        /\ Further(q.rp, i) \in Slot
  <2> TAKE i \in 0 .. j
  <2>1. i \in Slot /\ q.rp \in Slot
    BY <1>2, RingFacts DEF Slot
  <2> QED BY <2>1, ModWraps
<1>4. \A i \in 0 .. j : q.packets[Further(q.rp, i)] # NULL
  <2> TAKE i \in 0 .. j
  <2>1. i \in Nat /\ i < Count(q) /\ Count(q) > 0
    BY <1>2, RingFacts
  <2>2. ~isempty(q)
    BY <2>1 DEF Count
  <2>3. InSpan(q, Further(q.rp, i))
    <3>1. CASE q.rp < q.wp
      <4>1. q.rp + i < q.wp
        BY <2>1, <2>2, <3>1, RingFacts DEF Count
      <4> QED BY <2>1, <3>1, <4>1, RingFacts DEF Further, InSpan
    <3>2. CASE q.wp <= q.rp
      <4>1. q.rp + i < q.wp + NOF_BUFFER_PDUS
        BY <2>1, <2>2, <3>2, RingFacts DEF Count
      <4> QED BY <2>1, <2>2, <3>2, <4>1, RingFacts DEF Further, InSpan, isempty
    <3> QED BY <3>1, <3>2, RingFacts
  <2> QED BY <1>1, <1>3, <2>3
<1>5. j \in 0 .. j
  BY <1>2, RingFacts
<1>6. popAt(q, j) = q.packets[Further(q.rp, j)]
  BY <1>3, <1>4, <1>5 DEF popAt
<1> QED BY <1>3, <1>4, <1>5, <1>6, RingFacts

\* The queue a ring stands for.
LEMMA ContentsIs ==
    ASSUME NEW q \in Ring, WellShaped(q)
    PROVE  /\ Contents(q) = [i \in 1 .. Count(q) |-> q.packets[Further(q.rp, i - 1)]]
           /\ Contents(q) \in Seq(Pdu)
           /\ Len(Contents(q)) = Count(q)
           /\ Count(q) \in Nat
<1>1. Count(q) \in Nat
  BY CountBounds, RingFacts
<1>2. pending_msgs(q) = Count(q)
  BY CountIsPending
<1>3. \A i \in 1 .. Count(q) :
        /\ popAt(q, i - 1) = q.packets[Further(q.rp, i - 1)]
        /\ popAt(q, i - 1) \in Pdu
  <2> TAKE i \in 1 .. Count(q)
  <2>1. i - 1 \in 0 .. (Count(q) - 1)
    BY <1>1
  <2> QED BY <2>1, PopAtIs
<1>4. Contents(q) = [i \in 1 .. Count(q) |-> q.packets[Further(q.rp, i - 1)]]
  BY <1>2, <1>3 DEF Contents
<1>5. Contents(q) \in [1 .. Count(q) -> Pdu]
  BY <1>3, <1>4
<1>6. Contents(q) \in Seq(Pdu) /\ Len(Contents(q)) = Count(q)
  BY <1>1, <1>5
<1> QED BY <1>1, <1>4, <1>6

\* A flushed ring stands for the empty queue.
LEMMA FlushContents == Contents(flush) = <<>>
<1>1. Count(flush) = 0
  BY FlushShape DEF Count
<1>2. Contents(flush) \in Seq(Pdu) /\ Len(Contents(flush)) = 0
  BY <1>1, FlushShape, ContentsIs
<1> QED BY <1>2

-----------------------------------------------------------------------------
(* The operations.                                                         *)

\* send() to a ring with a slot puts the PDU at the end of the queue.
LEMMA PushAppends ==
    ASSUME NEW q \in Ring, WellShaped(q), ~isfull(q), NEW m \in Pdu
    PROVE  /\ push(q, m) \in Ring /\ WellShaped(push(q, m))
           /\ Contents(push(q, m)) = Append(Contents(q), m)
<1> DEFINE r == push(q, m)
           c == Count(q)
<1>1. r \in Ring /\ WellShaped(r) /\ ~isempty(r)
  BY SendShape DEF send
<1>2. /\ r.rp = q.rp /\ r.wp = advance(q.wp)
      /\ \A s \in Slot : r.packets[s] = IF s = q.wp THEN m ELSE q.packets[s]
  BY RingFacts DEF push
<1>3. c \in Nat /\ c < NOF_BUFFER_PDUS /\ (isempty(q) <=> c = 0)
  BY CountBounds, RingFacts
<1>4. advance(q.wp) = IF q.wp + 1 = NOF_BUFFER_PDUS THEN 0 ELSE q.wp + 1
  BY RingFacts, AdvanceWraps
<1>5. isempty(q) <=> q.rp = q.wp
  BY RingFacts DEF isempty, isfull, WellShaped, InSpan
<1>6. Count(r) = c + 1
  BY <1>1, <1>2, <1>4, <1>5, RingFacts DEF Count
<1>7. Further(q.rp, c) = q.wp
  BY <1>5, RingFacts DEF Further, Count
<1>8. \A j \in 0 .. c : Further(q.rp, j) \in Slot /\ (Further(q.rp, j) = q.wp => j = c)
  <2> TAKE j \in 0 .. c
  <2>1. j \in Slot
    BY <1>3, RingFacts DEF Slot
  <2>2. Further(q.rp, j) \in Slot
    BY <2>1, RingFacts, ModWraps
  <2>3. Further(q.rp, j) = Further(q.rp, c) => j = c
    BY <1>3, RingFacts DEF Further
  <2> QED BY <1>7, <2>2, <2>3
<1> HIDE DEF r, c
<1>9. Contents(r) = [k \in 1 .. (c + 1) |-> r.packets[Further(q.rp, k - 1)]]
  BY <1>1, <1>2, <1>6, ContentsIs
<1>10. /\ Contents(q) = [k \in 1 .. c |-> q.packets[Further(q.rp, k - 1)]]
       /\ Contents(q) \in Seq(Pdu) /\ Len(Contents(q)) = c
  BY ContentsIs DEF c
<1>11. \A k \in 1 .. (c + 1) :
         r.packets[Further(q.rp, k - 1)] = IF k = c + 1 THEN m ELSE Contents(q)[k]
  <2> TAKE k \in 1 .. (c + 1)
  <2>1. k - 1 \in 0 .. c
    BY <1>3
  <2>2. CASE k = c + 1
    BY <1>2, <1>3, <1>7, <1>8, <2>1, <2>2
  <2>3. CASE k # c + 1
    <3>1. k - 1 # c /\ k \in 1 .. c
      BY <1>3, <2>3
    <3> QED BY <1>2, <1>8, <1>10, <2>1, <2>3, <3>1
  <2> QED BY <2>2, <2>3
<1>12. Append(Contents(q), m) =
         [k \in 1 .. (c + 1) |-> IF k = c + 1 THEN m ELSE Contents(q)[k]]
  BY <1>3, <1>10
<1>13. Contents(r) = Append(Contents(q), m)
  BY <1>9, <1>11, <1>12
<1> QED BY <1>1, <1>13 DEF r

\* release() takes the first PDU off the queue; it is the one pop() returns.
LEMMA ReleaseTakes ==
    ASSUME NEW q \in Ring, WellShaped(q), pop(q) # NULL
    PROVE  /\ release(q) \in Ring /\ WellShaped(release(q))
           /\ Contents(q) # <<>>
           /\ pop(q) = Head(Contents(q)) /\ pop(q) \in Pdu
           /\ Contents(release(q)) = Tail(Contents(q))
<1> DEFINE r == release(q)
           c == Count(q)
<1>1. ~isempty(q)
  BY DEF pop, isempty
<1>2. r \in Ring /\ WellShaped(r)
  BY <1>1, ReleaseShape
<1>3. /\ r.wp = q.wp /\ r.rp = advance(q.rp)
      /\ \A s \in Slot : r.packets[s] = IF s = q.rp THEN NULL ELSE q.packets[s]
  BY RingFacts DEF release
<1>4. c \in Nat /\ 1 <= c /\ c <= NOF_BUFFER_PDUS
  BY <1>1, CountBounds, RingFacts
<1>5. advance(q.rp) = IF q.rp + 1 = NOF_BUFFER_PDUS THEN 0 ELSE q.rp + 1
  BY RingFacts, AdvanceWraps
<1>6. Count(r) = c - 1
  <2>1. isempty(r) <=> r.rp = r.wp
    <3>1. CASE r.rp = r.wp
      <4>1. r.packets[r.rp] = NULL
        <5>1. CASE r.rp = q.rp
          BY <1>3, <5>1, RingFacts
        <5>2. CASE r.rp # q.rp
          BY <1>1, <1>3, <1>5, <3>1, <5>2, RingFacts
             DEF WellShaped, InSpan, isempty
        <5> QED BY <5>1, <5>2
      <4> QED BY <3>1, <4>1 DEF isempty
    <3>2. CASE r.rp # r.wp
      BY <1>2, <3>2, RingFacts DEF WellShaped, InSpan, isempty
    <3> QED BY <3>1, <3>2
  <2> QED BY <1>1, <1>3, <1>5, <2>1, RingFacts DEF Count
<1>7. \A j \in 0 .. (c - 2) :
        /\ Further(r.rp, j) = Further(q.rp, j + 1)
        /\ Further(r.rp, j) # q.rp
        /\ Further(r.rp, j) \in Slot
  <2> TAKE j \in 0 .. (c - 2)
  <2>1. j \in Slot /\ r.rp \in Slot
    BY <1>2, <1>4, RingFacts DEF Slot
  <2>2. Further(r.rp, j) \in Slot
    BY <2>1, ModWraps
  <2> QED BY <1>3, <1>4, <1>5, <2>2, RingFacts DEF Further
<1> HIDE DEF r, c
<1>8. Contents(r) = [k \in 1 .. (c - 1) |-> r.packets[Further(r.rp, k - 1)]]
  BY <1>2, <1>6, ContentsIs
<1>9. /\ Contents(q) = [k \in 1 .. c |-> q.packets[Further(q.rp, k - 1)]]
      /\ Contents(q) \in Seq(Pdu) /\ Len(Contents(q)) = c
  BY ContentsIs DEF c
<1>10. \A k \in 1 .. (c - 1) : r.packets[Further(r.rp, k - 1)] = Contents(q)[k + 1]
  <2> TAKE k \in 1 .. (c - 1)
  <2>1. k - 1 \in 0 .. (c - 2) /\ k + 1 \in 1 .. c /\ (k - 1) + 1 = (k + 1) - 1
    BY <1>4
  <2>2. r.packets[Further(r.rp, k - 1)] = q.packets[Further(q.rp, (k - 1) + 1)]
    BY <1>3, <1>7, <2>1
  <2>3. Contents(q)[k + 1] = q.packets[Further(q.rp, (k + 1) - 1)]
    BY <1>9, <2>1
  <2> QED BY <2>1, <2>2, <2>3
<1>11. Tail(Contents(q)) = [k \in 1 .. (c - 1) |-> Contents(q)[k + 1]]
  BY <1>4, <1>9
<1>12. Contents(r) = Tail(Contents(q))
  BY <1>8, <1>10, <1>11
<1>13. Head(Contents(q)) = pop(q) /\ Contents(q) # <<>>
  <2>1. Further(q.rp, 0) = q.rp
    BY RingFacts DEF Further
  <2>2. Contents(q)[1] = q.packets[q.rp]
    BY <1>4, <1>9, <2>1
  <2> QED BY <1>4, <1>9, <2>2 DEF pop
<1>14. pop(q) \in Pdu
  BY PopType
<1> QED BY <1>2, <1>12, <1>13, <1>14 DEF r
=============================================================================
