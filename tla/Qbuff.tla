------------------------------- MODULE Qbuff -------------------------------
(***************************************************************************)
(* The PDU ring of one HARQ process (class qbuff, test/qbuff.cc): a fixed  *)
(* array of packets with a read index rp and a write index wp.             *)
(*                                                                         *)
(* A slot holds the PDU stored in it, or NULL when the slot's `valid' flag *)
(* is down.  The bytes, `len' and `ptr' of a packet are abstracted into    *)
(* the PDU.  Every operation is an operator on the record of the ring, so  *)
(* that the modules of its users call it by name.                          *)
(***************************************************************************)
EXTENDS Naturals, FiniteSets

CONSTANTS
    NOF_BUFFER_PDUS,   \* slots of a ring (64 in hdr/common/pdu_queue.h)
    Pdu,               \* the PDUs
    NULL               \* the null pointer

ASSUME QbuffAssumption ==
    /\ NOF_BUFFER_PDUS \in Nat \ {0}
    /\ NULL \notin Pdu

Slot == 0 .. (NOF_BUFFER_PDUS - 1)

Ring == [packets : [Slot -> Pdu \cup {NULL}], rp : Slot, wp : Slot]

advance(i) == (i + 1) % NOF_BUFFER_PDUS

flush == [packets |-> [s \in Slot |-> NULL], rp |-> 0, wp |-> 0]

isempty(q) == q.packets[q.rp] = NULL

isfull(q) == q.packets[q.wp] # NULL

\* push() marks the slot at wp valid without looking at what it holds.
push(q, m) == [packets |-> [q.packets EXCEPT ![q.wp] = m],
               rp      |-> q.rp,
               wp      |-> advance(q.wp)]

\* Mutant of send: the slot is taken although the ring is full.
sendOverFull(q, m) == push(q, m)

\* request() gives no slot when the ring is full, and send() then fails.
send(q, m) == IF isfull(q) THEN q ELSE push(q, m)

\* pop() returns the packet at rp, NULL when it is not valid, and leaves it.
pop(q) == q.packets[q.rp]

\* pop(len, idx) walks over valid slots only, at most idx of them.
popAt(q, idx) ==
    IF \E i \in 0 .. idx : q.packets[(q.rp + i) % NOF_BUFFER_PDUS] = NULL
    THEN NULL
    ELSE q.packets[(q.rp + idx) % NOF_BUFFER_PDUS]

\* release() does not ask whether the ring is empty.
release(q) == [packets |-> [q.packets EXCEPT ![q.rp] = NULL],
               rp      |-> advance(q.rp),
               wp      |-> q.wp]

pending_msgs(q) == Cardinality({s \in Slot : q.packets[s] # NULL})

\* The PDUs of a ring from the oldest on, as pop(len, idx) shows them.
Contents(q) == [i \in 1 .. pending_msgs(q) |-> popAt(q, i - 1)]

-----------------------------------------------------------------------------

(***************************************************************************)
(* The shape of a ring nobody has misused: the valid slots are exactly     *)
(* those from rp up to wp, cyclically.  When rp = wp the ring is empty or  *)
(* full.                                                                   *)
(***************************************************************************)
InSpan(q, s) ==
    IF q.rp < q.wp THEN q.rp <= s /\ s < q.wp
    ELSE IF q.wp < q.rp THEN q.rp <= s \/ s < q.wp
    ELSE q.packets[q.rp] # NULL

WellShaped(q) == \A s \in Slot : q.packets[s] # NULL <=> InSpan(q, s)
=============================================================================
