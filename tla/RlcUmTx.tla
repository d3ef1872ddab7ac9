------------------------------ MODULE RlcUmTx ------------------------------
(***************************************************************************)
(* The transmitting side of the RLC UM entity (test/rlc_um.cc): SDUs are   *)
(* cut and concatenated into PDUs of the size the multiplexer grants.      *)
(*                                                                         *)
(* An SDU is <<id, n>>, its identity and its length; a byte is             *)
(* <<SDU, position>>.  A PDU holds the bytes between two length indicators *)
(* as one segment; fi says whether its first byte continues an SDU begun   *)
(* in the PDU before (NOT_START) and whether its last SDU goes on in the   *)
(* next (NOT_END).  The packing of the header into bits is abstracted to   *)
(* its length.  The state of a transmitter is a record, the operations are *)
(* operators on it.                                                        *)
(***************************************************************************)
EXTENDS Integers, Sequences, SequencesExt

CONSTANT SN_MOD      \* rx_mod and tx_mod (1024)

Bytes(s) == [i \in 1 .. s[2] |-> <<s, i>>]

\* No SDU in transmission (tx_sdu = NULL), nothing queued.
tx_reset == [vt_us |-> 0, tx_sdu |-> <<>>, tx_sdu_queue |-> <<>>]

n_unread(t) == Len(t.tx_sdu_queue)

write_sdu(t, s) == [t EXCEPT !.tx_sdu_queue = Append(@, Bytes(s))]

\* 1.5 bytes for each length indicator, rounded up.
li_bytes(n) == (3 * n + 1) \div 2

\* rlc_um_packed_length() for sequence numbers of 10 bits.
packed_length(N_li) == 2 + li_bytes(N_li)

\* get_buffer_state(): the bytes of all SDUs and the header they need.
buffer_state(t) ==
    LET sdus == IF t.tx_sdu = <<>> THEN t.tx_sdu_queue
                ELSE <<t.tx_sdu>> \o t.tx_sdu_queue
        bytes == Len(FlattenSeq(sdus))
    IN IF sdus = <<>> THEN 0 ELSE bytes + li_bytes(Len(sdus) - 1) + 2

\* int against uint32_t: a negative room is larger than every length.
to_move(room, sdu) ==
    IF room < 0 \/ room >= Len(sdu) THEN Len(sdu) ELSE room

\* Mutant of Move: the rest of the SDU begins one byte late.
MoveRestLate(b, sdu) ==
    LET n == to_move(b.pdu_space - packed_length(Len(b.segs)), sdu)
    IN [b EXCEPT !.last = SubSeq(sdu, 1, n),
                 !.pdu_space = @ - n,
                 !.t.tx_sdu = SubSeq(sdu, n + 2, Len(sdu))]

\* The PDU under construction: complete segments, the last one, the space
\* left, and the transmitter.
Move(b, sdu) ==
    LET n == to_move(b.pdu_space - packed_length(Len(b.segs)), sdu)
    IN [b EXCEPT !.last = SubSeq(sdu, 1, n),
                 !.pdu_space = @ - n,
                 !.t.tx_sdu = SubSeq(sdu, n + 1, Len(sdu))]

\* Pull the next SDU from the queue, closing the segment before it.
Pull(b) ==
    Move([b EXCEPT !.segs = IF b.last = <<>> THEN @ ELSE Append(@, b.last),
                   !.t.tx_sdu_queue = Tail(@)],
         Head(b.t.tx_sdu_queue))

\* One turn of the loop, if it goes on.
PullIfRoom(b, unused) ==
    IF b.pdu_space > packed_length(Len(b.segs)) /\ n_unread(b.t) > 0
    THEN Pull(b) ELSE b

\* The PDU when the rest of an SDU, if there is one, and the queue have filled it.
Fill(t, nof_bytes) ==
    LET b == [segs |-> <<>>, last |-> <<>>, pdu_space |-> nof_bytes, t |-> t]
    IN FoldLeft(PullIfRoom,
                IF t.tx_sdu = <<>> THEN b ELSE Move(b, t.tx_sdu),
                t.tx_sdu_queue)

\* Mutant of next_sn: no wrap.
next_snUnwrapped(sn) == sn + 1

next_sn(sn) == (sn + 1) % SN_MOD

\* Mutant of start_aligned: the flag tells of the rest that is left over.
start_alignedAfter(t, b) == b.t.tx_sdu = <<>>

start_aligned(t, b) == t.tx_sdu = <<>>

\* build_data_pdu(): the PDU and its length, and the transmitter afterwards.
\* Without data, or without room for one byte, the length is 0.
build_data_pdu(t, nof_bytes) ==
    LET b == Fill(t, nof_bytes)
        segs == Append(b.segs, b.last)
    IN IF buffer_state(t) = 0 \/ nof_bytes <= packed_length(0)
       THEN [len |-> 0, pdu |-> <<>>, t |-> t]
       ELSE [len |-> packed_length(Len(b.segs)) + Len(FlattenSeq(segs)),
             pdu |-> [sn |-> t.vt_us,
                      start |-> start_aligned(t, b),
                      end |-> b.t.tx_sdu = <<>>,
                      segs |-> segs],
             t |-> [b.t EXCEPT !.vt_us = next_sn(@)]]
=============================================================================
