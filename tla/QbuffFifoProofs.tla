-------------------------- MODULE QbuffFifoProofs --------------------------
(***************************************************************************)
(* The rings implement the bounded queues, for every size of the rings,    *)
(* every set of rings and every set of PDUs.                               *)
(***************************************************************************)
EXTENDS QbuffFifo, QbuffProofs

-----------------------------------------------------------------------------
(* The refinement.                                                         *)

RingsInv == /\ ring \in [Queue -> Ring]
            /\ \A f \in Queue : WellShaped(ring[f])

\* The queues the rings stand for.
Items == [f \in Queue |-> Contents(ring[f])]

LEMMA StepPut ==
    ASSUME RingsInv, NEW f \in Queue, NEW m \in Pdu, Send(f, m)
    PROVE  RingsInv' /\ (Fifo!Put(f, m) \/ UNCHANGED Items)
<1>1. ring[f] \in Ring /\ WellShaped(ring[f])
  BY DEF RingsInv
<1>2. CASE isfull(ring[f])
  <2>1. ring' = ring
    BY <1>2 DEF Send, send, RingsInv
  <2> QED BY <2>1 DEF RingsInv, Items
<1>3. CASE ~isfull(ring[f])
  <2> DEFINE q == push(ring[f], m)
  <2>1. ring' = [ring EXCEPT ![f] = q]
    BY <1>3 DEF Send, send
  <2>2. /\ q \in Ring /\ WellShaped(q)
        /\ Contents(q) = Append(Contents(ring[f]), m)
    BY <1>1, <1>3, PushAppends
  <2>3. Len(Contents(ring[f])) < NOF_BUFFER_PDUS
    BY <1>1, <1>3, ContentsIs, CountBounds, RingFacts
  <2> HIDE DEF q
  <2>4. RingsInv'
    BY <2>1, <2>2 DEF RingsInv
  <2>5. Items' = [Items EXCEPT ![f] = Append(Items[f], m)]
    BY <2>1, <2>2 DEF Items, RingsInv
  <2>6. Fifo!Put(f, m)
    BY <2>3, <2>5 DEF Fifo!Put, Items
  <2> QED BY <2>4, <2>6
<1> QED BY <1>2, <1>3

LEMMA StepTake ==
    ASSUME RingsInv, NEW f \in Queue, Recv(f)
    PROVE  RingsInv' /\ Fifo!Take(f)
<1> DEFINE q == release(ring[f])
<1>1. ring' = [ring EXCEPT ![f] = q] /\ pop(ring[f]) # NULL
  BY DEF Recv
<1>2. /\ q \in Ring /\ WellShaped(q)
      /\ Contents(ring[f]) # <<>>
      /\ Contents(q) = Tail(Contents(ring[f]))
  BY <1>1, ReleaseTakes DEF RingsInv
<1> HIDE DEF q
<1>3. RingsInv'
  BY <1>1, <1>2 DEF RingsInv
<1>4. Items' = [Items EXCEPT ![f] = Tail(Items[f])]
  BY <1>1, <1>2 DEF Items, RingsInv
<1>5. Fifo!Take(f)
  BY <1>2, <1>4 DEF Fifo!Take, Items
<1> QED BY <1>3, <1>5

LEMMA StepMove ==
    ASSUME RingsInv, NEW f \in Queue, NEW g \in Queue, MoveTo(f, g)
    PROVE  RingsInv' /\ Fifo!Move(f, g)
<1> DEFINE q == release(ring[f])
           r == push(ring[g], pop(ring[f]))
<1>1. /\ f # g /\ pop(ring[f]) # NULL /\ ~isfull(ring[g])
      /\ ring' = [ring EXCEPT ![f] = q, ![g] = r]
  BY DEF MoveTo, RingsInv
<1>2. /\ q \in Ring /\ WellShaped(q)
      /\ Contents(ring[f]) # <<>>
      /\ pop(ring[f]) = Head(Contents(ring[f])) /\ pop(ring[f]) \in Pdu
      /\ Contents(q) = Tail(Contents(ring[f]))
  BY <1>1, ReleaseTakes DEF RingsInv
<1>3. /\ r \in Ring /\ WellShaped(r)
      /\ Contents(r) = Append(Contents(ring[g]), pop(ring[f]))
  BY <1>1, <1>2, PushAppends DEF RingsInv
<1>4. Len(Contents(ring[g])) < NOF_BUFFER_PDUS
  BY <1>1, ContentsIs, CountBounds, RingFacts DEF RingsInv
<1> HIDE DEF q, r
<1>5. RingsInv'
  BY <1>1, <1>2, <1>3 DEF RingsInv
<1>6. Items' = [Items EXCEPT ![f] = Tail(Items[f]),
                             ![g] = Append(Items[g], Head(Items[f]))]
  BY <1>1, <1>2, <1>3 DEF Items, RingsInv
<1>7. Fifo!Move(f, g)
  BY <1>1, <1>2, <1>4, <1>6 DEF Fifo!Move, Items
<1> QED BY <1>5, <1>7

(***************************************************************************)
(* Rings used through send(), recv() or pop() and release(), and move_to() *)
(* are bounded FIFO queues (qbuff.cc): the indices, the `valid' flags and  *)
(* the wrap at the end of the array do not show.                           *)
(***************************************************************************)
THEOREM RingsAreQueues == Spec => ImplementsFifo
<1>1. Init => RingsInv
  BY FlushShape DEF Init, RingsInv
<1>2. RingsInv /\ [Next]_ring => RingsInv' /\ [Fifo!Next]_Items
  <2> SUFFICES ASSUME RingsInv, [Next]_ring
               PROVE  RingsInv' /\ [Fifo!Next]_Items
    OBVIOUS
  <2>1. CASE Next
    BY <2>1, StepPut, StepTake, StepMove DEF Next, Fifo!Next
  <2>2. CASE UNCHANGED ring
    BY <2>2 DEF RingsInv, Items
  <2> QED BY <2>1, <2>2
<1>3. Init => Fifo!Init
  BY FlushContents DEF Init, Fifo!Init
<1> QED BY <1>1, <1>2, <1>3, PTL DEF Spec, ImplementsFifo, Fifo!Spec, Items
=============================================================================
