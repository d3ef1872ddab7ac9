------------------------------ MODULE RlcUmRx ------------------------------
(***************************************************************************)
(* The receiving side of the RLC UM entity (test/rlc_um.cc of the UE): the *)
(* reordering window, the reordering timer and the reassembly of SDUs from *)
(* the PDUs RlcUmTx builds.                                                *)
(*                                                                         *)
(* The state of a receiver is a record.  `window' is the map rx_window as  *)
(* a set of PDUs, of which no two have the same sn; `running' is the state *)
(* of the reordering timer; `out' are the SDUs written to the tun device   *)
(* by the operation, in order.  rx_sdu is a sequence of bytes.             *)
(***************************************************************************)
EXTENDS RlcUmTx

CONSTANT WINDOW      \* rx_window_size (512)

ASSUME WindowAssumption ==
    /\ WINDOW \in Nat \ {0}
    /\ SN_MOD = 2 * WINDOW

rx_reset ==
    [vr_ur |-> 0, vr_ux |-> 0, vr_uh |-> 0, vr_ur_in_rx_sdu |-> 0,
     pdu_lost |-> FALSE, rx_sdu |-> <<>>, window |-> {}, running |-> FALSE,
     out |-> <<>>]

RX_MOD_BASE(r, sn) == (sn - r.vr_uh - WINDOW) % SN_MOD

inside_reordering_window(r, sn) ==
    /\ RX_MOD_BASE(r, sn) >= RX_MOD_BASE(r, r.vr_uh - WINDOW)
    /\ RX_MOD_BASE(r, sn) < RX_MOD_BASE(r, r.vr_uh)

InWindow(r, sn) == \E p \in r.window : p.sn = sn

PduOf(r, sn) == CHOOSE p \in r.window : p.sn = sn

\* rx_sdu was last written by the PDU before vr_ur.
continues(r) == r.vr_ur = (r.vr_ur_in_rx_sdu + 1) % SN_MOD

\* Mutant of Orphan: the flag is not looked at.
OrphanNever(r, p) == FALSE

\* The tail of a lost PDU: dropped.
Orphan(r, p) == r.pdu_lost /\ ~p.start

\* Mutant of Flush: the buffer of the SDU is used on.
FlushUncleared(r, dropped) ==
    [r EXCEPT !.out = IF dropped THEN @ ELSE Append(@, r.rx_sdu),
              !.pdu_lost = FALSE]

\* A complete SDU goes to the tun device, unless it is dropped.
Flush(r, dropped) ==
    [r EXCEPT !.out = IF dropped THEN @ ELSE Append(@, r.rx_sdu),
              !.rx_sdu = <<>>,
              !.pdu_lost = FALSE]

\* A segment that a length indicator ends.
Middle(p, r, seg) ==
    LET r1 == [r EXCEPT !.rx_sdu = @ \o seg]
    IN Flush(r1, Orphan(r, p) \/ ~continues(r))

\* The last segment of a PDU.
LastSegment(p, r) ==
    LET r1 == [r EXCEPT !.rx_sdu = @ \o Last(p.segs), !.vr_ur_in_rx_sdu = r.vr_ur]
    IN IF p.end THEN Flush(r1, Orphan(r, p)) ELSE r1

Absorb(p, r) ==
    LastSegment(p, FoldLeft(LAMBDA a, seg : Middle(p, a, seg), r, Front(p.segs)))

\* One turn of either loop of reassemble_rx_sdus(): vr_ur moves on, over a
\* PDU that is there or over one that is missing.
PassSn(r, unused) ==
    LET p == PduOf(r, r.vr_ur)
        r1 == IF InWindow(r, r.vr_ur)
              THEN [Absorb(p, r) EXCEPT !.window = @ \ {p}]
              ELSE [r EXCEPT !.rx_sdu = <<>>]
    IN [r1 EXCEPT !.vr_ur = (@ + 1) % SN_MOD]

\* The turns of the first loop: until vr_ur is inside the window.
Behind(r) ==
    CHOOSE n \in 0 .. SN_MOD :
      /\ inside_reordering_window(r, (r.vr_ur + n) % SN_MOD)
      /\ \A i \in 0 .. (n - 1) :
           ~inside_reordering_window(r, (r.vr_ur + i) % SN_MOD)

\* The turns of the second: while the PDU is there.
InSequence(r) ==
    CHOOSE n \in 0 .. SN_MOD :
      /\ ~InWindow(r, (r.vr_ur + n) % SN_MOD)
      /\ \A i \in 0 .. (n - 1) : InWindow(r, (r.vr_ur + i) % SN_MOD)

Pass(r, n) == FoldLeft(PassSn, r, [i \in 1 .. n |-> i])

reassemble_rx_sdus(r) ==
    LET caught_up == Pass(r, Behind(r))
    IN Pass(caught_up, InSequence(caught_up))

\* Mutant of arm: the timer is not started again.
armForgotten(r) == r

\* Mutant of arm: started again although nothing is missing.
armAgain(r) == [r EXCEPT !.running = TRUE, !.vr_ux = r.vr_uh]

\* The timer is started when PDUs are missing below vr_uh.
arm(r) ==
    IF RX_MOD_BASE(r, r.vr_uh) > RX_MOD_BASE(r, r.vr_ur)
    THEN [r EXCEPT !.running = TRUE, !.vr_ux = r.vr_uh]
    ELSE r

\* Mutant of TooLate: a PDU below vr_ur is taken once more.
TooLateIgnored(r, p) == FALSE

TooLate(r, p) ==
    /\ RX_MOD_BASE(r, p.sn) >= RX_MOD_BASE(r, r.vr_uh - WINDOW)
    /\ RX_MOD_BASE(r, p.sn) < RX_MOD_BASE(r, r.vr_ur)

TimerDone(r) ==
    \/ RX_MOD_BASE(r, r.vr_ux) <= RX_MOD_BASE(r, r.vr_ur)
    \/ ~inside_reordering_window(r, r.vr_ux) /\ r.vr_ux # r.vr_uh

handle_data_pdu(r, p) ==
    LET stored == [r EXCEPT !.window = @ \cup {p}]
        raised == IF inside_reordering_window(stored, p.sn) THEN stored
                  ELSE [stored EXCEPT !.vr_uh = (p.sn + 1) % SN_MOD]
        put == reassemble_rx_sdus(raised)
        timed == IF put.running /\ TimerDone(put)
                 THEN [put EXCEPT !.running = FALSE] ELSE put
    IN IF TooLate(r, p) \/ InWindow(r, p.sn) THEN r
       ELSE IF timed.running THEN timed ELSE arm(timed)

\* The condition of the loop of timer_expired().
GivenUp(r) == RX_MOD_BASE(r, r.vr_ur) >= RX_MOD_BASE(r, r.vr_ux)

\* One turn of it.
GiveUp(r, unused) ==
    IF GivenUp(r) THEN r
    ELSE reassemble_rx_sdus([r EXCEPT !.vr_ur = (@ + 1) % SN_MOD])

\* If it has not ended after SN_MOD turns, it never does.
timer_loop(r) ==
    LET lost == [r EXCEPT !.pdu_lost = TRUE, !.rx_sdu = <<>>]
    IN FoldLeft(GiveUp, lost, [i \in 1 .. SN_MOD |-> i])

timer_expired(r) == arm([timer_loop(r) EXCEPT !.running = FALSE])
=============================================================================
