------------------------------- MODULE RlcUm -------------------------------
(***************************************************************************)
(* From the SDUs the IP thread writes to those the UE writes to its tun    *)
(* device:                                                                 *)
(*                                                                         *)
(*   - the IP thread fills the queue of each RNTI's rlc_um, a msg_queue    *)
(*     whose write() blocks when it is full;                               *)
(*   - the sender of the RNTI polls that queue, and mux::pdu_get()         *)
(*     collects RLC PDUs into a MAC PDU for as long as there are data and  *)
(*     space (allocate_sdu, sch_subh::set_sdu), laid out as SchPdu says;   *)
(*   - HARQ delivers MAC PDUs late, out of order, more than once, or not   *)
(*     at all;                                                             *)
(*   - a thread of the UE for each RNTI passes the RLC PDUs of a MAC PDU   *)
(*     to the one rlc_um of the UE (rlc3) and then steps the one timer     *)
(*     until it has expired (test/lte-rece.cc of the UE).                  *)
(*                                                                         *)
(* Nothing is asked of HARQ.  A MAC PDU that was handed to it may come at  *)
(* any time from then on, as often as it likes, or never: harq_busy()      *)
(* scans from process 0 each time, so a NACKed PDU of a higher process     *)
(* waits for as long as the lower ones are answered.  The variables aux_   *)
(* record, with numbers that do not wrap, what was built and what came, so *)
(* that a property can say how well HARQ did.                              *)
(***************************************************************************)
EXTENDS RlcUmRx, SchPdu

CONSTANTS
    Rnti,
    N_SDU,        \* bound: SDUs the IP thread writes for an RNTI
    SduLen,       \* the lengths of SDUs
    QUEUE_CAP,    \* capacity of tx_sdu_queue (16)
    REACH         \* bound: how far from the newest a MAC PDU comes, either way

ASSUME RlcAssumption ==
    /\ SduLen \subseteq Nat \ {0}
    /\ {N_SDU, QUEUE_CAP} \subseteq Nat \ {0}
    /\ REACH \in Nat

\* 20 sub-headers, a window of 512.
ASSUME MacPduAssumption == MAX_SUBH < WINDOW

VARIABLES
    \* --- IP thread and sender, per RNTI
    written,      \* history: the SDUs written
    tx,           \* rlc_test[rnti]
    tpc,
    grant,        \* requested_bytes
    mac_pdu,      \* the RLC PDUs collected so far
    aux_line,     \* history: the RLC PDUs built, those set_sdu() refused too
    aux_first,    \* how many were built before those of mac_pdu
    \* --- HARQ, per RNTI
    air,          \* the MAC PDUs handed to it, each with its aux_first
    aux_next,     \* the number, in aux_line, after the newest delivered
    aux_fit,      \* every MAC PDU so far Fits
    \* --- the UE
    rx,           \* rlc3 and its timer
    upc,          \* per RNTI
    todo,         \* RLC PDUs of the received MAC PDU, per RNTI
    delivered     \* history: the SDUs written to the tun device while aux_fit

txVars == <<written, tx, tpc, grant, mac_pdu, aux_line, aux_first>>
airVars == <<air, aux_next, aux_fit>>
ueVars == <<rx, upc, todo, delivered>>
vars == <<txVars, airVars, ueVars>>

Init ==
    /\ written = [u \in Rnti |-> <<>>]
    /\ tx = [u \in Rnti |-> tx_reset]
    /\ tpc = [u \in Rnti |-> "poll"]
    /\ grant = [u \in Rnti |-> 0]
    /\ mac_pdu = [u \in Rnti |-> <<>>]
    /\ aux_line = [u \in Rnti |-> <<>>]
    /\ aux_first = [u \in Rnti |-> 0]
    /\ air = [u \in Rnti |-> {}]
    /\ aux_next = [u \in Rnti |-> 0]
    /\ aux_fit = TRUE
    /\ rx = rx_reset
    /\ upc = [u \in Rnti |-> "recv"]
    /\ todo = [u \in Rnti |-> <<>>]
    /\ delivered = <<>>

-----------------------------------------------------------------------------
(* The IP thread and the sender.                                           *)

WriteSdu(u, n) ==
    LET s == <<<<u, Len(written[u]) + 1>>, n>> IN
      /\ Len(written[u]) < N_SDU
      /\ n_unread(tx[u]) < QUEUE_CAP
      /\ written' = [written EXCEPT ![u] = Append(@, s)]
      /\ tx' = [tx EXCEPT ![u] = write_sdu(@, s)]
      /\ UNCHANGED <<tpc, grant, mac_pdu, aux_line, aux_first, airVars, ueVars>>

\* n_unread() > 0: pdu_get() begins a MAC PDU.
Poll(u) ==
    /\ tpc[u] = "poll"
    /\ n_unread(tx[u]) > 0
    /\ tpc' = [tpc EXCEPT ![u] = "alloc"]
    /\ UNCHANGED <<written, tx, grant, mac_pdu, aux_line, aux_first, airVars, ueVars>>

\* The bytes of an RLC PDU, and the sch_pdu that holds some.
pdu_len(p) == packed_length(Len(p.segs) - 1) + Len(FlattenSeq(p.segs))

pdu_msg(m) == FoldLeft(add_sdu, init_tx, [i \in DOMAIN m |-> pdu_len(m[i])])

space(u) == get_sdu_space(pdu_msg(mac_pdu[u]))

Requested(u) ==
    IF buffer_state(tx[u]) <= space(u) THEN buffer_state(tx[u]) ELSE space(u)

\* allocate_sdu() asks for what is there, at most the space that is left.
Allocate(u) ==
    /\ tpc[u] = "alloc"
    /\ IF Requested(u) > 0 /\ new_subh(pdu_msg(mac_pdu[u]))
         THEN /\ grant' = [grant EXCEPT ![u] = Requested(u)]
              /\ tpc' = [tpc EXCEPT ![u] = "build"]
         ELSE /\ tpc' = [tpc EXCEPT ![u] = "send"]
              /\ UNCHANGED grant
    /\ UNCHANGED <<written, tx, mac_pdu, aux_line, aux_first, airVars, ueVars>>

\* Mutant of accepted: set_sdu() does not compare the length with the request.
acceptedAnyway(u, len) == len > 0

\* set_sdu() refuses a PDU longer than requested; the sub-header is deleted.
accepted(u, len) == 0 < len /\ len <= grant[u]

\* read_pdu().  A PDU that is refused is gone, its SDUs and number used up.
Build(u) ==
    LET b == build_data_pdu(tx[u], grant[u]) IN
      /\ tpc[u] = "build"
      /\ tx' = [tx EXCEPT ![u] = b.t]
      /\ grant' = [grant EXCEPT ![u] = 0]
      /\ aux_line' = [aux_line EXCEPT ![u] = IF b.len = 0 THEN @ ELSE Append(@, b.pdu)]
      /\ IF accepted(u, b.len)
           THEN /\ mac_pdu' = [mac_pdu EXCEPT ![u] = Append(@, b.pdu)]
                /\ tpc' = [tpc EXCEPT ![u] = "alloc"]
           ELSE /\ tpc' = [tpc EXCEPT ![u] = "send"]
                /\ UNCHANGED mac_pdu
      /\ UNCHANGED <<written, aux_first, airVars, ueVars>>

-----------------------------------------------------------------------------
(* HARQ.                                                                   *)

\* write_packet(), and the MAC PDU is handed to HARQ.  One of padding only
\* tells the receiver nothing.
Send(u) ==
    /\ tpc[u] = "send"
    /\ air' = [air EXCEPT ![u] =
                 @ \cup {<<aux_first[u], m>> :
                          m \in {n \in {mac_pdu[u]} \ {<<>>} : Written(pdu_msg(n))}}]
    /\ tpc' = [tpc EXCEPT ![u] = "poll"]
    /\ mac_pdu' = [mac_pdu EXCEPT ![u] = <<>>]
    /\ aux_first' = [aux_first EXCEPT ![u] = Len(aux_line[u])]
    /\ UNCHANGED <<written, tx, grant, aux_line, aux_next, aux_fit, ueVars>>

\* The RLC PDUs whose first bytes the payloads of the MAC PDU begin with.
Unpacked(m) ==
    LET p == pdu_msg(m)
        begins(j) == sum(SubSeq(p.sdus, 1, j - 1))
        take(found, q) ==
          IF \E j \in DOMAIN m : begins(j) = q.at
          THEN Append(found, m[CHOOSE j \in DOMAIN m : begins(j) = q.at])
          ELSE found
    IN FoldLeft(take, <<>>, parse_packet(subheaders(p)))

\* The MAC PDU m, of the RLC PDUs from number n on, lies among the d numbers
\* before aux_next[u] and the d from there on.
Within(d, u, n, m) ==
    /\ aux_next[u] - d <= n
    /\ n + Len(m) <= aux_next[u] + d

\* What the receiver is made for: the PDUs of one stream, none out of place by
\* more than the window.
Fits(u, n, m) ==
    /\ Within(WINDOW, u, n, m)
    /\ \A v \in Rnti \ {u} : aux_next[v] = 0

\* A MAC PDU arrives at the UE, perhaps not for the last time.
Deliver(u, n, m) ==
    /\ upc[u] = "recv"
    /\ <<n, m>> \in air[u]
    /\ Within(REACH, u, n, m)
    /\ todo' = [todo EXCEPT ![u] = Unpacked(m)]
    /\ upc' = [upc EXCEPT ![u] = "demux"]
    /\ aux_next' = [aux_next EXCEPT ![u] = IF n + Len(m) > @ THEN n + Len(m) ELSE @]
    /\ aux_fit' = (aux_fit /\ Fits(u, n, m))
    /\ UNCHANGED <<txVars, air, rx, delivered>>

-----------------------------------------------------------------------------
(* The UE's thread for an RNTI.                                            *)

\* What the receiver wrote to the tun device goes to the history.
Update(r) ==
    /\ rx' = [r EXCEPT !.out = <<>>]
    /\ delivered' = IF aux_fit THEN delivered \o r.out ELSE delivered

\* rlc_um::write_pdu() for the next sub-header of the MAC PDU.
WritePdu(u) ==
    /\ upc[u] = "demux"
    /\ todo[u] # <<>>
    /\ Update(handle_data_pdu(rx, Head(todo[u])))
    /\ todo' = [todo EXCEPT ![u] = Tail(@)]
    /\ UNCHANGED <<txVars, airVars, upc>>

Demuxed(u) ==
    /\ upc[u] = "demux"
    /\ todo[u] = <<>>
    /\ upc' = [upc EXCEPT ![u] = "timer"]
    /\ UNCHANGED <<txVars, airVars, rx, todo, delivered>>

\* The last step() of the timer: it stops and calls back.
StepTimer(u) ==
    /\ upc[u] = "timer"
    /\ rx.running
    /\ rx' = [rx EXCEPT !.running = FALSE]
    /\ upc' = [upc EXCEPT ![u] = "callback"]
    /\ UNCHANGED <<txVars, airVars, todo, delivered>>

\* If its loop does not end, the thread stays in it.  The others then wait for
\* its mutex; here they may go on, which allows more than the code does.
TimerExpired(u) ==
    /\ upc[u] = "callback"
    /\ GivenUp(timer_loop(rx))
    /\ Update(timer_expired(rx))
    /\ upc' = [upc EXCEPT ![u] = "timer"]
    /\ UNCHANGED <<txVars, airVars, todo>>

\* is_expired(): the loop ends.
TimerOff(u) ==
    /\ upc[u] = "timer"
    /\ ~rx.running
    /\ upc' = [upc EXCEPT ![u] = "recv"]
    /\ UNCHANGED <<txVars, airVars, rx, todo, delivered>>

UeThread(u) ==
    WritePdu(u) \/ Demuxed(u) \/ StepTimer(u) \/ TimerExpired(u) \/ TimerOff(u)

-----------------------------------------------------------------------------

Next ==
    \E u \in Rnti :
      \/ \E n \in SduLen : WriteSdu(u, n)
      \/ Poll(u) \/ Allocate(u) \/ Build(u) \/ Send(u)
      \/ \E a \in air[u] : Deliver(u, a[1], a[2])
      \/ UeThread(u)

\* The UE's threads are scheduled; nothing is asked of the others.  This is
\* WF_vars(UeThread(u)): a thread can step unless it waits for its socket or
\* stays in timer_expired().
CanStep(u) ==
    /\ upc[u] # "recv"
    /\ upc[u] = "callback" => GivenUp(timer_loop(rx))

Fairness ==
    \A u \in Rnti : <>[]CanStep(u) => []<><<UeThread(u)>>_vars

Spec == Init /\ [][Next]_vars /\ Fairness
-----------------------------------------------------------------------------
(* Properties.                                                             *)

Sn == 0 .. (SN_MOD - 1)

RlcTypeOK ==
    /\ \A u \in Rnti :
         /\ Len(written[u]) \in 0 .. N_SDU
         /\ tx[u].vt_us \in Sn /\ n_unread(tx[u]) <= QUEUE_CAP
    /\ tpc \in [Rnti -> {"poll", "alloc", "build", "send"}]
    /\ grant \in [Rnti -> 0 .. (PDU_LEN - 1)]
    /\ aux_next \in [Rnti -> Nat] /\ aux_fit \in BOOLEAN
    /\ {rx.vr_ur, rx.vr_ux, rx.vr_uh, rx.vr_ur_in_rx_sdu} \subseteq Sn
    /\ {rx.pdu_lost, rx.running} \subseteq BOOLEAN
    /\ rx.out = <<>>
    /\ upc \in [Rnti -> {"recv", "demux", "timer", "callback"}]

(***************************************************************************)
(* What build_data_pdu() says of a PDU is true: a first byte that is said  *)
(* to begin an SDU does, a last byte that is said to end one does, and a   *)
(* length indicator separates two SDUs.  (A PDU that is said to continue   *)
(* an SDU may begin with its first byte: when a length indicator takes the *)
(* last room, the SDU it makes room for goes whole into the next PDU.)     *)
(***************************************************************************)
Begins(seg) == seg # <<>> => Head(seg)[2] = 1

Ends(seg) == seg # <<>> /\ Last(seg)[2] = Last(seg)[1][2]

OneSdu(seg) == \A i \in 1 .. Len(seg) :
    seg[i][1] = seg[1][1] /\ seg[i][2] = seg[1][2] + i - 1

FramingTrue ==
    \A u \in Rnti : \A a \in air[u] : \A j \in 1 .. Len(a[2]) :
      LET p == a[2][j] IN
        /\ \A i \in 1 .. Len(p.segs) : OneSdu(p.segs[i])
        /\ p.start => Begins(p.segs[1])
        /\ \A i \in 2 .. Len(p.segs) : Begins(p.segs[i]) /\ Ends(p.segs[i - 1])
        /\ p.end => Ends(Last(p.segs))

(***************************************************************************)
(* write_packet() (test/pdu.cc:93) never returns NULL for want of room and *)
(* the padding it fills has no negative length, although a length          *)
(* indicator that takes the last room makes build_data_pdu() take to_move  *)
(* from a negative number and move a whole SDU, and although the last      *)
(* sub-header grows by one byte or two when another follows.               *)
(***************************************************************************)
MacPduFits ==
    \A u \in Rnti : tpc[u] = "send" =>
      /\ Written(pdu_msg(mac_pdu[u]))
      /\ padding(pdu_msg(mac_pdu[u])) >= 0

(***************************************************************************)
(* The demultiplexer of the UE finds in a MAC PDU the RLC PDUs the         *)
(* multiplexer of the eNB put there, each at its place and with its        *)
(* length, whatever padding fills the rest, none, one or two bytes in      *)
(* front of the sub-headers, or more behind them: the length of the last   *)
(* payload, which the PDU does not carry, is worked out (pdu.cc:74).       *)
(***************************************************************************)
ParsedAsWritten ==
    \A u \in Rnti : \A a \in air[u] :
      LET p == pdu_msg(a[2]) IN
        parse_packet(subheaders(p)) =
          [j \in DOMAIN p.sdus |-> [at |-> sum(SubSeq(p.sdus, 1, j - 1)),
                                   size |-> p.sdus[j]]]

(***************************************************************************)
(* Every packet the UE writes to its tun device is an SDU of the eNB, not  *)
(* a piece of one and not pieces of two, whatever HARQ loses, repeats and  *)
(* reorders, for as long as every MAC PDU that comes Fits: it is of the    *)
(* one RNTI heard so far, and no more than WINDOW numbers out of place.    *)
(* The program gives neither: its main()s start four threads, and          *)
(* harq_busy() bounds no delay (test/FX_MAC.h:243 of the eNB).             *)
(***************************************************************************)
SdusWhole ==
    \A i \in 1 .. Len(delivered) :
      /\ delivered[i] # <<>>
      /\ delivered[i] = Bytes(delivered[i][1][1])

(***************************************************************************)
(* The SDUs of an RNTI come out in the order the IP thread wrote them, and *)
(* none twice, for as long as every MAC PDU that comes Fits, although the  *)
(* UE gets every third one again after having used it: its NACKs do not    *)
(* depend on what it received.  The WINDOW is what it takes: a MAC PDU     *)
(* that comes again one number later is new to handle_data_pdu(), and its  *)
(* SDUs are written again.                                                 *)
(***************************************************************************)
SduOf(i) == delivered[i][1][1][1]

InOrderOnce ==
    \A i, j \in 1 .. Len(delivered) :
      i < j /\ SduOf(i)[1] = SduOf(j)[1] => SduOf(i)[2] < SduOf(j)[2]

(***************************************************************************)
(* A PDU is kept in the reordering window only while the timer runs or is  *)
(* about to call back; so it is delivered or given up without waiting for  *)
(* another PDU to arrive.                                                  *)
(***************************************************************************)
NothingStranded ==
    rx.window # {} => rx.running \/ \E u \in Rnti : upc[u] = "callback"

(***************************************************************************)
(* The loop in which the UE steps the timer to its end after each MAC PDU  *)
(* (lte-UE/ue/test/lte-rece.cc:164) ends, although timer_expired() may     *)
(* start the timer again: the thread comes back to its sockets.            *)
(***************************************************************************)
UeReturns == \A u \in Rnti : upc[u] # "recv" ~> upc[u] = "recv"

(***************************************************************************)
(* build_data_pdu() neither leaves out a byte of an SDU nor sends one      *)
(* twice, nor does it change their order: the RLC PDUs of an RNTI, the SDU *)
(* it has cut and those it has not begun are together what was written,    *)
(* although a length indicator that takes the last room makes it move a    *)
(* whole SDU into a PDU that set_sdu() then refuses.                       *)
(***************************************************************************)
BytesOf(pdus) == FlattenSeq([i \in DOMAIN pdus |-> FlattenSeq(pdus[i].segs)])

StreamIntact ==
    \A u \in Rnti :
      BytesOf(aux_line[u]) \o tx[u].tx_sdu \o FlattenSeq(tx[u].tx_sdu_queue) =
        FlattenSeq([i \in DOMAIN written[u] |-> Bytes(written[u][i])])

(***************************************************************************)
(* vr_uh is the "SN following PDU with highest SN among rxed PDUs"         *)
(* (lte-UE/ue/hdr/upper/rlc_um.h:126).                                     *)
(***************************************************************************)
VrUhIsHighest ==
    (\A u \in Rnti : upc[u] # "demux") =>
      \E u \in Rnti :
        /\ rx.vr_uh = aux_next[u] % SN_MOD
        /\ \A v \in Rnti : aux_next[v] <= aux_next[u]

=============================================================================
