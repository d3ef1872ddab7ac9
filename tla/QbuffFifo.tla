----------------------------- MODULE QbuffFifo -----------------------------
(***************************************************************************)
(* Rings used as class qbuff (test/qbuff.cc) offers them: stored into with *)
(* send(), emptied with recv() or with pop() and release(), and moved from *)
(* one to the other with move_to().  They implement the queues of PduFifo. *)
(***************************************************************************)
EXTENDS Qbuff, Sequences

CONSTANT Queue      \* the rings

VARIABLE ring

Init == ring = [f \in Queue |-> flush]

\* send() by a user that ignores its result, as pdu_store() does: a PDU that
\* does not fit is dropped.
Send(f, m) == ring' = [ring EXCEPT ![f] = send(@, m)]

\* recv() into a buffer that is large enough, or pop() and then release().
Recv(f) ==
    /\ pop(ring[f]) # NULL
    /\ ring' = [ring EXCEPT ![f] = release(@)]

\* The head goes to g if g has a slot; otherwise nothing happens.
MoveTo(f, g) ==
    /\ f # g
    /\ pop(ring[f]) # NULL
    /\ ~isfull(ring[g])
    /\ ring' = [ring EXCEPT ![f] = release(@), ![g] = push(@, pop(ring[f]))]

Next ==
    \E f \in Queue :
      \/ \E m \in Pdu : Send(f, m)
      \/ Recv(f)
      \/ \E g \in Queue : MoveTo(f, g)

Spec == Init /\ [][Next]_ring

-----------------------------------------------------------------------------
(* The refinement.                                                         *)

Fifo == INSTANCE PduFifo
          WITH items <- [f \in Queue |-> Contents(ring[f])],
               Item <- Pdu, CAPACITY <- NOF_BUFFER_PDUS

(***************************************************************************)
(* The rings behave as bounded FIFO queues: through any number of turns of *)
(* rp and wp, PDUs come out in the order in which they were stored, none   *)
(* twice, and a full ring changes nothing.                                 *)
(***************************************************************************)
ImplementsFifo == Fifo!Spec
=============================================================================
