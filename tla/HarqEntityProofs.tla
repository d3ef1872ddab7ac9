------------------------- MODULE HarqEntityProofs -------------------------
(***************************************************************************)
(* Proofs about the HARQ entities, alone and across the network, for every *)
(* set of UEs and PDUs, every number of processes and every size of the    *)
(* rings.                                                                  *)
(***************************************************************************)
EXTENDS HarqLink, QbuffProofs, FiniteSetTheorems, SequenceTheorems,
        WellFoundedInduction

-----------------------------------------------------------------------------
(* The scans.                                                              *)

\* A set of natural numbers that is not empty has a least element.
LEMMA SmallestMember ==
    ASSUME NEW S \in SUBSET Nat, S # {}
    PROVE  \E n \in S : \A m \in S : n <= m
<1> DEFINE R == OpToRel(<, Nat)
<1>1. IsWellFoundedOn(R, Nat)
  BY NatLessThanWellFounded
<1>2. \A x, y \in Nat : y < x => <<y, x>> \in R
  BY DEF OpToRel
<1> HIDE DEF R
<1>3. PICK x \in S : \A y \in S : ~(<<y, x>> \in R)
  BY <1>1, WFMin
<1>4. \A y \in S : x <= y
  <2> TAKE y \in S
  <2>1. x \in Nat /\ y \in Nat
    OBVIOUS
  <2>2. ~(y < x)
    BY <1>2, <1>3, <2>1
  <2> QED BY <2>1, <2>2
<1> QED BY <1>4

\* The scan of pdu_in and of harq_busy stops at a process it looks for, if
\* there is one.
LEMMA FirstFromIn ==
    ASSUME NEW S \in SUBSET Pid, S # {}, NEW p \in Nat
    PROVE  FirstFrom(S, p) \in S
<1> DEFINE d(x) == (x + HARQ_NUM - p) % HARQ_NUM
           D == {d(x) : x \in S}
<1>1. \A x \in Pid : d(x) \in Nat
  <2> TAKE x \in Pid
  <2> DEFINE a == x + HARQ_NUM - p
  <2>1. a \in Int /\ HARQ_NUM \in Nat /\ HARQ_NUM > 0
    BY HarqAssumption DEF Pid
  <2> HIDE DEF a
  <2>2. a % HARQ_NUM \in Nat
    BY <2>1
  <2> USE DEF a
  <2> QED BY <2>2
<1>2. D \in SUBSET Nat /\ D # {}
  BY <1>1
<1>3. PICK n \in D : \A m \in D : n <= m
  <2> HIDE DEF D
  <2> QED BY <1>2, SmallestMember
<1>4. PICK x \in S : n = d(x)
  BY <1>3
<1>5. \A y \in S : d(x) <= d(y)
  BY <1>3, <1>4
<1> QED BY <1>5 DEF FirstFrom

\* The process pdu_in stores into is one of the entity's.
LEMMA StorePidType ==
    ASSUME NEW u \in Rnti, TypeOK, busy_num[u] < HARQ_NUM => Idle(u) # {}
    PROVE  StorePid(u) \in Pid
<1>1. tmp[u] \in Nat /\ HARQ_NUM \in Nat /\ HARQ_NUM > 0
  BY HarqAssumption DEF TypeOK
<1>2. CASE busy_num[u] < HARQ_NUM
  <2>1. Idle(u) \in SUBSET Pid
    BY DEF Idle
  <2>2. FirstFrom(Idle(u), tmp[u]) \in Idle(u)
    BY <1>1, <1>2, <2>1, FirstFromIn
  <2> QED BY <1>2, <2>1, <2>2 DEF StorePid
<1>3. CASE ~(busy_num[u] < HARQ_NUM)
  <2> DEFINE t == tmp[u] + 1
  <2>1. t \in Nat
    BY <1>1
  <2> HIDE DEF t
  <2>2. t % HARQ_NUM \in 0 .. (HARQ_NUM - 1)
    BY <1>1, <2>1
  <2> USE DEF t
  <2> QED BY <1>3, <2>2 DEF StorePid, Pid
<1> QED BY <1>2, <1>3

\* The process harq_busy takes is neither busy nor empty.
LEMMA ScannedPid ==
    ASSUME NEW u \in Rnti, Ready(u) # {}
    PROVE  /\ FirstFrom(Ready(u), 0) \in Pid
           /\ ~busy_index[u][FirstFrom(Ready(u), 0)]
           /\ ~isempty(pdu_q[u][FirstFrom(Ready(u), 0)])
<1>1. Ready(u) \in SUBSET Pid
  BY DEF Ready, Idle
<1>2. FirstFrom(Ready(u), 0) \in Ready(u)
  BY <1>1, FirstFromIn
<1> QED BY <1>2 DEF Ready, Idle

-----------------------------------------------------------------------------
(* Type correctness.                                                       *)

LEMMA InitType == Init => TypeOK
<1> SUFFICES ASSUME Init PROVE TypeOK
  OBVIOUS
<1>1. 0 \in Pid /\ 0 \in 0 .. retrans_limit /\ 0 \in 0 .. (UINT_MOD - 1)
  BY HarqAssumption DEF Pid, retrans_limit
<1>2. 0 \in 0 .. (retrans_limit + 1)
  BY DEF retrans_limit
<1>3. flush \in Ring
  BY FlushShape
<1> QED BY <1>1, <1>2, <1>3 DEF Init, TypeOK, NoReply, SendPc, RecePc

\* The drop of a ring's head, in TcAcked and TcDiscard.
LEMMA AdvanceType ==
    ASSUME TypeOK, NEW u \in Rnti, Advance(u)
    PROVE  /\ pdu_q' \in [Rnti -> [Pid -> Ring]]
           /\ payload_tosend' \in [Rnti -> Pdu \cup {NULL}]
           /\ aux_tx' \in [Rnti -> [Pdu -> 0 .. (retrans_limit + 1)]]
           /\ aux_acked' \in [Rnti -> SUBSET Pdu]
<1> DEFINE q == pdu_q[u][pid_now[u]]
<1>1. q \in Ring
  BY DEF TypeOK
<1>2. release(q) \in Ring /\ pop(release(q)) \in Pdu \cup {NULL}
  BY <1>1, RingType, PopType
<1>3. 0 \in 0 .. (retrans_limit + 1)
  BY DEF retrans_limit
<1>4. pdu_q' = [pdu_q EXCEPT ![u][pid_now[u]] = release(q)]
  BY DEF Advance
<1>5. payload_tosend' = [payload_tosend EXCEPT ![u] = pop(release(q))]
  BY DEF Advance
<1> HIDE DEF q
<1>6. pdu_q' \in [Rnti -> [Pid -> Ring]]
  BY <1>2, <1>4 DEF TypeOK
<1>7. payload_tosend' \in [Rnti -> Pdu \cup {NULL}]
  BY <1>2, <1>5 DEF TypeOK
<1>8. aux_tx' \in [Rnti -> [Pdu -> 0 .. (retrans_limit + 1)]]
      /\ aux_acked' \in [Rnti -> SUBSET Pdu]
  BY <1>3 DEF Advance, Forget, TypeOK
<1> QED BY <1>6, <1>7, <1>8

\* Stepping busy_num down wraps around and stays a uint32_t.
LEMMA DecrType ==
    ASSUME TypeOK, NEW u \in Rnti
    PROVE  decr(busy_num[u]) \in 0 .. (UINT_MOD - 1)
<1>1. busy_num[u] \in 0 .. (UINT_MOD - 1)
  BY DEF TypeOK
<1>2. UINT_MOD \in Nat /\ UINT_MOD > 0
  BY HarqAssumption
<1> QED BY <1>1, <1>2 DEF decr

LEMMA SenderType ==
    ASSUME TypeOK, NEW u \in Rnti, Sender(u)
    PROVE  TypeOK'
<1> USE DEF at, SendPc, RecePc, entityVars, staticVars, sendVars, receVars,
            envVars
<1>1. HARQ_NUM \in Nat \ {0} /\ UINT_MOD \in Nat /\ UINT_MOD > HARQ_NUM
  BY HarqAssumption
<1>2. ASSUME NEW d \in Pdu \cup {NULL}, PduGet(u, d)
      PROVE  TypeOK'
  <2>1. 0 \in 0 .. (retrans_limit + 1)
    BY DEF retrans_limit
  <2>2. CASE d \in Pdu \ InUse(u) /\ Forget(u, d)
    BY <1>2, <2>1, <2>2 DEF PduGet, Forget, TypeOK
  <2>3. CASE d = NULL /\ UNCHANGED <<aux_tx, aux_acked>>
    BY <1>2, <2>3 DEF PduGet, TypeOK
  <2> QED BY <1>2, <2>2, <2>3 DEF PduGet
<1>4. CASE InLock(u)
  <2>1. pid_not_busy \in Nat
    BY DEF TypeOK, Pid
  <2> QED BY <1>4, <2>1 DEF InLock, TypeOK
<1>5. CASE InStore(u)
  <2>1. StorePid(u) \in Pid
    BY <1>5, StorePidType DEF InStore
  <2>2. pid_not_busy' \in Pid
    BY <1>5, <2>1 DEF InStore, TypeOK
  <2>3. pdu_q' \in [Rnti -> [Pid -> Ring]]
    <3>1. pdu_q[u][StorePid(u)] \in Ring
      BY <2>1 DEF TypeOK
    <3>2. payload_back[u] # NULL => payload_back[u] \in Pdu
      BY DEF TypeOK
    <3>3. payload_back[u] # NULL =>
            send(pdu_q[u][StorePid(u)], payload_back[u]) \in Ring
      BY <3>1, <3>2, RingType
    <3>4. pdu_store(u, StorePid(u))
      BY <1>5 DEF InStore
    <3> QED BY <2>1, <3>3, <3>4 DEF pdu_store, TypeOK
  <2> QED BY <1>5, <2>2, <2>3, ZenonT(60) DEF InStore, TypeOK
<1>6. CASE InRewind(u)
  <2>1. 0 \in Pid
    BY <1>1 DEF Pid
  <2> QED BY <1>6, <2>1 DEF InRewind, TypeOK
<1>7. CASE HbLock(u)
  BY <1>7 DEF HbLock, TypeOK
<1>8. CASE HbWait(u)
  BY <1>8 DEF HbWait, TypeOK
<1>9. CASE HbReturn(u)
  BY <1>9 DEF HbReturn, TypeOK
<1>10. CASE HbScan(u)
  <2>1. FirstFrom(Ready(u), 0) \in Pid
    BY <1>10, ScannedPid DEF HbScan
  <2>2. busy_num[u] + 1 \in 0 .. (UINT_MOD - 1)
    BY <1>1, <1>10 DEF HbScan, TypeOK
  <2> QED BY <1>10, <2>1, <2>2 DEF HbScan, TypeOK
<1>11. CASE TcAcked(u)
  BY <1>11, AdvanceType DEF TcAcked, TypeOK
<1>12. CASE TcNacked(u)
  <2>1. retrans_times[pid_now[u]] \in 0 .. retrans_limit
    BY DEF TypeOK
  <2>2. retrans_times[pid_now[u]] \in Nat
    BY <2>1 DEF retrans_limit
  <2> QED BY <1>12, <2>2 DEF TcNacked, TypeOK
<1>13. incr(tmp[u]) \in 0 .. retrans_limit
  <2>1. tmp[u] \in Nat
    BY DEF TypeOK
  <2> QED BY <2>1 DEF incr, retrans_limit
<1>14. CASE TcRetransmit(u)
  <2>1. pop(pdu_q[u][pid_now[u]]) \in Pdu \cup {NULL}
    BY PopType DEF TypeOK
  <2> QED BY <1>13, <1>14, <2>1 DEF TcRetransmit, TypeOK
<1>15. CASE TcOverflow(u)
  BY <1>13, <1>15 DEF TcOverflow, TypeOK
<1>16. CASE TcDiscard(u)
  <2>1. 0 \in 0 .. retrans_limit
    BY DEF retrans_limit
  <2> QED BY <1>16, <2>1, AdvanceType DEF TcDiscard, TypeOK
<1>17. CASE SendDci(u)
  BY <1>17 DEF SendDci, TypeOK
<1>18. CASE SendFails(u)
  BY <1>18 DEF SendFails, TypeOK
<1>19. CASE SendData(u)
  <2>1. 0 \in Pid
    BY <1>1 DEF Pid
  <2>2. \A n \in 0 .. (retrans_limit + 1) :
          (IF n > retrans_limit THEN n ELSE n + 1) \in 0 .. (retrans_limit + 1)
    BY DEF retrans_limit
  <2>3. aux_tx' \in [Rnti -> [Pdu -> 0 .. (retrans_limit + 1)]]
    <3> DEFINE C == 0 .. (retrans_limit + 1)
               step(n) == IF n > retrans_limit THEN n ELSE n + 1
    <3>1. aux_tx \in [Rnti -> [Pdu -> C]]
      BY DEF TypeOK
    <3>2. aux_tx' = [aux_tx EXCEPT ![u][payload_tosend[u]] = step(@)]
      BY <1>19 DEF SendData
    <3>3. \A n \in C : step(n) \in C
      BY <2>2
    <3> HIDE DEF C, step
    <3>4. aux_tx' \in [Rnti -> [Pdu -> C]]
      BY <3>1, <3>2, <3>3
    <3> QED BY <3>4 DEF C
  <2> QED BY <1>19, <2>1, <2>3 DEF SendData, EndLoop, TypeOK
<1>20. decr(busy_num[u]) \in 0 .. (UINT_MOD - 1)
  BY DecrType
<1>21. CASE Reset(u)
  <2>1. 0 \in Pid
    BY <1>1 DEF Pid
  <2> QED BY <1>20, <1>21, <2>1 DEF Reset, EndLoop, TypeOK
<1> QED
  BY <1>2, <1>4, <1>5, <1>6, <1>7, <1>8, <1>9, <1>10, <1>11, <1>12,
     <1>14, <1>15, <1>16, <1>17, <1>18, <1>19, <1>21
     DEF Sender, SenderStep, pdu_in, harq_busy, trans_control, HbWake,
         HbSpurious

LEMMA ReceiverType ==
    ASSUME TypeOK, NEW u \in Rnti, AnyFeedback(u) \/ Apply(u)
    PROVE  TypeOK'
<1> USE DEF RecePc, entityVars, staticVars, sendVars, receVars, envVars
<1>1. ASSUME NEW p \in Pid, NEW ok \in BOOLEAN, Recv(u, p, ok)
      PROVE  TypeOK'
  <2>1. air[u][p] # NULL => air[u][p] \in Pdu
    BY DEF TypeOK
  <2>2. aux_acked' \in [Rnti -> SUBSET Pdu]
    BY <1>1, <2>1 DEF Recv, TypeOK
  <2>3. /\ ack_reply' \in [Rnti -> [ACK_pid : Pid, ack_0 : BOOLEAN]]
        /\ air' \in [Rnti -> [Pid -> Pdu \cup {NULL}]]
        /\ aux_fb' \in [Rnti -> [Pid -> BOOLEAN]]
    BY <1>1 DEF Recv, TypeOK
  <2> QED BY <1>1, <2>2, <2>3 DEF Recv, TypeOK
<1>2. CASE LockAck(u)
  BY <1>2 DEF LockAck, TypeOK
<1>3. CASE AckRecv(u)
  <2>1. decr(busy_num[u]) \in 0 .. (UINT_MOD - 1)
    BY DecrType
  <2>2. busy_index' \in [Rnti -> [Pid -> BOOLEAN]]
    BY <1>3 DEF AckRecv, TypeOK
  <2>3. woken' \in [Rnti -> BOOLEAN]
    BY <1>3 DEF AckRecv, signal, TypeOK
  <2> QED BY <1>3, <2>1, <2>2, <2>3 DEF AckRecv, TypeOK
<1>4. CASE SetAck(u)
  <2>1. NoReply \in [ACK_pid : Pid, ack_0 : BOOLEAN]
    BY HarqAssumption DEF NoReply, Pid
  <2>2. ACK' \in [Rnti -> [Pid -> BOOLEAN]]
    BY <1>4 DEF SetAck, TypeOK
  <2> QED BY <1>4, <2>1, <2>2 DEF SetAck, TypeOK
<1> QED BY <1>1, <1>2, <1>3, <1>4 DEF AnyFeedback, Apply

LEMMA StutterType == TypeOK /\ UNCHANGED vars => TypeOK'
BY DEF TypeOK, vars, entityVars, staticVars, sendVars, receVars, envVars

(***************************************************************************)
(* The state of the entities and of their threads keeps its types, whatever *)
(* feedback arrives: busy_num stays a uint32_t, a ring a ring, and every   *)
(* process a thread works on is one of the entity's HARQ_NUM.              *)
(***************************************************************************)
THEOREM TypeCorrect == Spec => []TypeOK
<1>1. Init => TypeOK
  BY InitType
<1>2. TypeOK /\ [Next]_vars => TypeOK'
  <2> SUFFICES ASSUME TypeOK, [Next]_vars PROVE TypeOK'
    OBVIOUS
  <2>1. CASE Next
    BY <2>1, SenderType, ReceiverType DEF Next
  <2>2. CASE UNCHANGED vars
    BY <2>2, StutterType
  <2> QED BY <2>1, <2>2
<1> QED BY <1>1, <1>2, PTL DEF Spec

-----------------------------------------------------------------------------
(* The rings.                                                              *)

\* Between the scan of harq_busy and trans_control's drop, the ring of the
\* process the sender has in hand holds a PDU.
Loaded ==
    \A u \in Rnti :
      pc[u] \in {"tc_lock", "tc_count", "tc_discard"} =>
        ~isempty(pdu_q[u][pid_now[u]])

RingInv == TypeOK /\ RingsWellShaped /\ Loaded

\* Only three actions of the sender write a ring.
LEMMA RingWriters ==
    ASSUME NEW u \in Rnti, Sender(u)
    PROVE  \/ InStore(u)
           \/ TcAcked(u)
           \/ TcDiscard(u)
           \/ UNCHANGED pdu_q
BY DEF Sender, PduGet, SenderStep, pdu_in, InLock, InRewind,
       harq_busy, HbLock, HbWait, HbWake, HbReturn, HbScan, trans_control,
       TcNacked, TcRetransmit, TcOverflow, SendDci, SendData, Reset, SendFails,
       HbSpurious, entityVars

LEMMA RingsStep ==
    ASSUME RingInv, NEW u \in Rnti, Sender(u)
    PROVE  RingsWellShaped'
<1> USE DEF RingInv
<1>1. \A v \in Rnti, p \in Pid :
        pdu_q[v][p] \in Ring /\ WellShaped(pdu_q[v][p])
  BY DEF TypeOK, RingsWellShaped
<1>2. pdu_q \in [Rnti -> [Pid -> Ring]]
  BY DEF TypeOK
<1>3. CASE InStore(u)
  <2> DEFINE s == StorePid(u)
             m == payload_back[u]
  <2>1. s \in Pid
    BY <1>3, StorePidType DEF InStore
  <2>2. m \in Pdu \cup {NULL}
    BY DEF TypeOK
  <2>3. pdu_q' = IF m = NULL THEN pdu_q
                 ELSE [pdu_q EXCEPT ![u][s] = send(@, m)]
    BY <1>3 DEF InStore, pdu_store
  <2>4. m \in Pdu => WellShaped(send(pdu_q[u][s], m))
    BY <1>1, <2>1, SendShape
  <2> HIDE DEF s, m
  <2> QED BY <1>1, <1>2, <2>1, <2>2, <2>3, <2>4 DEF RingsWellShaped
<1>4. CASE TcAcked(u) \/ TcDiscard(u)
  <2> DEFINE h == pid_now[u]
  <2>1. h \in Pid
    BY DEF TypeOK
  <2>2. ~isempty(pdu_q[u][h])
    BY <1>4 DEF Loaded, TcAcked, TcDiscard
  <2>3. pdu_q' = [pdu_q EXCEPT ![u][h] = release(pdu_q[u][h])]
    BY <1>4 DEF TcAcked, TcDiscard, Advance
  <2>4. WellShaped(release(pdu_q[u][h]))
    BY <1>1, <2>1, <2>2, ReleaseShape
  <2> HIDE DEF h
  <2> QED BY <1>1, <1>2, <2>1, <2>3, <2>4 DEF RingsWellShaped
<1>5. CASE UNCHANGED pdu_q
  BY <1>5 DEF RingsWellShaped
<1> QED BY <1>3, <1>4, <1>5, RingWriters

LEMMA LoadedStep ==
    ASSUME RingInv, NEW u \in Rnti, Sender(u)
    PROVE  Loaded'
<1> SUFFICES ASSUME NEW v \in Rnti,
                    pc'[v] \in {"tc_lock", "tc_count", "tc_discard"}
             PROVE  ~isempty(pdu_q'[v][pid_now'[v]])
  BY DEF Loaded
<1> USE DEF RingInv
<1>1. /\ pc \in [Rnti -> SendPc]
      /\ pid_now \in [Rnti -> Pid]
      /\ pdu_q \in [Rnti -> [Pid -> Ring]]
  BY DEF TypeOK
<1>2. CASE v # u
  <2>1. pc'[v] = pc[v] /\ pid_now'[v] = pid_now[v] /\ pdu_q'[v] = pdu_q[v]
    BY <1>1, <1>2
       DEF Sender, PduGet, SenderStep, pdu_in, InLock, InStore,
           InRewind, harq_busy, HbLock, HbWait, HbWake, HbReturn, HbScan,
           trans_control, TcAcked, TcNacked, TcRetransmit, TcOverflow,
           TcDiscard, Advance, SendDci, SendData, Reset, EndLoop, SendFails,
           HbSpurious, at, pdu_store, entityVars
  <2> QED BY <2>1 DEF Loaded
<1>3. CASE v = u
  <2>1. HbScan(u) \/ TcNacked(u) \/ TcOverflow(u)
    BY <1>1, <1>3
       DEF Sender, PduGet, SenderStep, pdu_in, InLock, InStore,
           InRewind, harq_busy, HbLock, HbWait, HbWake, HbReturn,
           trans_control, TcAcked, TcRetransmit, TcDiscard, SendDci, SendData,
           Reset, EndLoop, SendFails, HbSpurious, at, SendPc
  <2>2. CASE HbScan(u)
    <3>1. /\ pid_now'[u] = FirstFrom(Ready(u), 0)
          /\ UNCHANGED pdu_q
          /\ Ready(u) # {}
      BY <1>1, <2>2 DEF HbScan
    <3> QED BY <1>3, <3>1, ScannedPid
  <2>3. CASE TcNacked(u) \/ TcOverflow(u)
    <3>1. /\ pc[u] \in {"tc_lock", "tc_count"}
          /\ UNCHANGED <<pid_now, pdu_q>>
      BY <2>3 DEF TcNacked, TcOverflow, entityVars
    <3> QED BY <1>3, <3>1 DEF Loaded
  <2> QED BY <2>1, <2>2, <2>3
<1> QED BY <1>2, <1>3

\* The rings and what the sender has in hand, step by step.
LEMMA RingInvariant == Spec => []RingInv
<1>1. Init => RingInv
  <2>1. Init => RingsWellShaped
    BY FlushShape DEF Init, RingsWellShaped
  <2>2. Init => Loaded
    BY DEF Init, Loaded
  <2> QED BY <2>1, <2>2, InitType DEF RingInv
<1>2. RingInv /\ [Next]_vars => RingInv'
  <2> SUFFICES ASSUME RingInv, [Next]_vars PROVE RingInv'
    OBVIOUS
  <2>1. ASSUME NEW u \in Rnti, Sender(u)
        PROVE  RingInv'
    BY <2>1, SenderType, RingsStep, LoadedStep DEF RingInv
  <2>2. ASSUME NEW u \in Rnti, AnyFeedback(u) \/ Apply(u)
        PROVE  RingInv'
    <3>1. UNCHANGED <<pdu_q, pc, pid_now>>
      BY <2>2 DEF AnyFeedback, Recv, Apply, LockAck, AckRecv, SetAck,
                  entityVars, sendVars
    <3>2. TypeOK'
      BY <2>2, ReceiverType DEF RingInv
    <3> QED BY <3>1, <3>2 DEF RingInv, RingsWellShaped, Loaded
  <2>3. CASE UNCHANGED vars
    <3>1. UNCHANGED <<pdu_q, pc, pid_now>>
      BY <2>3 DEF vars, entityVars, sendVars
    <3> QED BY <2>3, <3>1, StutterType DEF RingInv, RingsWellShaped, Loaded
  <2> QED BY <2>1, <2>2, <2>3 DEF Next
<1> QED BY <1>1, <1>2, PTL DEF Spec

(***************************************************************************)
(* No ring is ever released when it is empty, whatever feedback arrives:   *)
(* rp and wp of every ring enclose exactly the PDUs it holds.  The         *)
(* invariant needs Loaded: trans_control releases what harq_busy found.    *)
(***************************************************************************)
THEOREM RingsKeepShape == Spec => []RingsWellShaped
<1>1. RingInv => RingsWellShaped
  BY DEF RingInv
<1> QED BY <1>1, RingInvariant, PTL

-----------------------------------------------------------------------------
(* Who has a process.                                                      *)

\* OneOwner and BusyNumExact for one entity, and what SendData relies on.
Own(u) ==
    /\ Busy(u) = SenderHas(u) \cup AirHas(u) \cup ReceiverHas(u)
    /\ SenderHas(u) \cap AirHas(u) = {}
    /\ SenderHas(u) \cap ReceiverHas(u) = {}
    /\ AirHas(u) \cap ReceiverHas(u) = {}
    /\ busy_num[u] = Cardinality(Busy(u))
    /\ pc[u] = "data" => payload_tosend[u] # NULL

OwnInv == TypeOK /\ \A u \in Rnti : Own(u)

\* Feedback that is due is feedback.
LEMMA DueIsFeedback ==
    ASSUME NEW u \in Rnti, DueFeedback(u)
    PROVE  AnyFeedback(u)
BY DEF DueFeedback, RecvDue, AnyFeedback

\* The assumption on the network only removes steps.
LEMMA DueIsSpec == SpecDue => Spec
<1>1. [NextDue]_vars => [Next]_vars
  BY DueIsFeedback DEF NextDue, Next
<1> QED BY <1>1, PTL DEF SpecDue, Spec

\* Taking a process and giving it back, as busy_num counts them.
LEMMA BusyCount ==
    ASSUME TypeOK, NEW u \in Rnti
    PROVE  /\ Cardinality(Busy(u)) \in Nat
           /\ \A p \in Pid \ Busy(u) :
                Cardinality(Busy(u) \cup {p}) = Cardinality(Busy(u)) + 1
           /\ \A p \in Busy(u) :
                /\ Cardinality(Busy(u) \ {p}) = Cardinality(Busy(u)) - 1
                /\ Cardinality(Busy(u)) # 0
<1>1. IsFiniteSet(Pid)
  BY HarqAssumption, FS_Interval DEF Pid
<1>2. IsFiniteSet(Busy(u))
  BY <1>1, FS_Subset DEF Busy
<1>3. Cardinality(Busy(u)) \in Nat
  BY <1>2, FS_CardinalityType
<1>4. \A p \in Pid \ Busy(u) :
        Cardinality(Busy(u) \cup {p}) = Cardinality(Busy(u)) + 1
  BY <1>2, FS_AddElement
<1>5. \A p \in Busy(u) :
        /\ Cardinality(Busy(u) \ {p}) = Cardinality(Busy(u)) - 1
        /\ Cardinality(Busy(u)) # 0
  BY <1>2, FS_RemoveElement, FS_EmptySet
<1> QED BY <1>3, <1>4, <1>5

\* What a step leaves alone for every other entity.
LEMMA OwnFrame ==
    ASSUME NEW v \in Rnti, Own(v),
           UNCHANGED <<busy_index[v], busy_num[v], pc[v], pid_now[v],
                       payload_tosend[v], rpc[v], ack_reply[v], air[v]>>
    PROVE  Own(v)'
BY DEF Own, Busy, SenderHas, AirHas, ReceiverHas

LEMMA OtherEntities ==
    ASSUME TypeOK, NEW u \in Rnti, Sender(u) \/ DueFeedback(u) \/ Apply(u),
           NEW v \in Rnti, v # u
    PROVE  UNCHANGED <<busy_index[v], busy_num[v], pc[v], pid_now[v],
                       payload_tosend[v], rpc[v], ack_reply[v], air[v]>>
<1>1. CASE Sender(u)
  BY <1>1, SMTT(60)
     DEF Sender, PduGet, SenderStep, pdu_in, InLock, InStore,
         InRewind, harq_busy, HbLock, HbWait, HbWake, HbReturn, HbScan,
         trans_control, TcAcked, TcNacked, TcRetransmit, TcOverflow,
         TcDiscard, Advance, SendDci, SendData, Reset, EndLoop, SendFails,
         HbSpurious, at, entityVars, sendVars, receVars, envVars, TypeOK
<1>2. CASE DueFeedback(u) \/ Apply(u)
  BY <1>2
     DEF DueFeedback, RecvDue, Recv, Apply, LockAck, AckRecv, SetAck,
         entityVars, sendVars, receVars, envVars, TypeOK
<1> QED BY <1>1, <1>2

LEMMA OwnSender ==
    ASSUME TypeOK, NEW u \in Rnti, Own(u), Sender(u)
    PROVE  Own(u)'
<1>1. CASE HbScan(u)
  <2> DEFINE p == FirstFrom(Ready(u), 0)
  <2>1. p \in Pid \ Busy(u)
    BY <1>1, ScannedPid DEF HbScan, Busy
  <2>2. /\ busy_index' = [busy_index EXCEPT ![u][p] = TRUE]
        /\ pid_now' = [pid_now EXCEPT ![u] = p]
        /\ busy_num' = [busy_num EXCEPT ![u] = @ + 1]
        /\ pc' = [pc EXCEPT ![u] = "tc_lock"]
        /\ pc[u] = "hb_test"
        /\ UNCHANGED <<payload_tosend, rpc, ack_reply, air>>
    BY <1>1 DEF HbScan, at, receVars, envVars
  <2> HIDE DEF p
  <2>3. Busy(u)' = Busy(u) \cup {p}
    BY <2>1, <2>2 DEF Busy, TypeOK
  <2>4. /\ SenderHas(u)' = {p} /\ SenderHas(u) = {}
        /\ AirHas(u)' = AirHas(u)
        /\ ReceiverHas(u)' = ReceiverHas(u)
        /\ pc'[u] # "data"
        /\ busy_num'[u] = busy_num[u] + 1
    BY <2>2 DEF SenderHas, AirHas, ReceiverHas, TypeOK
  <2>5. Cardinality(Busy(u) \cup {p}) = Cardinality(Busy(u)) + 1
    BY <2>1, BusyCount
  <2>6. busy_num'[u] = Cardinality(Busy(u)')
    BY <2>3, <2>4, <2>5 DEF Own
  <2> QED BY <2>1, <2>3, <2>4, <2>6 DEF Own
<1>2. CASE SendData(u)
  <2>1. /\ air' = [air EXCEPT ![u][pid_now[u]] = payload_tosend[u]]
        /\ pc[u] = "data" /\ pc' = [pc EXCEPT ![u] = "poll"]
        /\ UNCHANGED <<busy_index, busy_num, rpc, ack_reply>>
        /\ pid_now[u] \in Pid
    BY <1>2 DEF SendData, EndLoop, at, entityVars, receVars, TypeOK
  <2>2. AirHas(u)' = AirHas(u) \cup {pid_now[u]}
    BY <2>1 DEF AirHas, Own, TypeOK
  <2>3. /\ SenderHas(u) = {pid_now[u]} /\ SenderHas(u)' = {}
        /\ Busy(u)' = Busy(u)
        /\ ReceiverHas(u)' = ReceiverHas(u)
        /\ busy_num'[u] = busy_num[u]
        /\ pc'[u] = "poll"
    BY <2>1 DEF SenderHas, Busy, ReceiverHas, TypeOK
  <2> QED BY <2>2, <2>3 DEF Own
<1>3. CASE Reset(u)
  <2>1. /\ busy_index' = [busy_index EXCEPT ![u][pid_now[u]] = FALSE]
        /\ busy_num' = [busy_num EXCEPT ![u] = decr(@)]
        /\ pc[u] = "reset" /\ pc' = [pc EXCEPT ![u] = "poll"]
        /\ UNCHANGED <<air, rpc, ack_reply>>
        /\ pid_now[u] \in Pid
    BY <1>3 DEF Reset, EndLoop, at, receVars, envVars, TypeOK
  <2>2. Busy(u)' = Busy(u) \ {pid_now[u]}
    BY <2>1 DEF Busy, TypeOK
  <2>3. /\ SenderHas(u) = {pid_now[u]} /\ SenderHas(u)' = {}
        /\ AirHas(u)' = AirHas(u)
        /\ ReceiverHas(u)' = ReceiverHas(u)
        /\ busy_num'[u] = decr(busy_num[u])
        /\ pc'[u] = "poll"
    BY <2>1 DEF SenderHas, AirHas, ReceiverHas, TypeOK
  <2>4. pid_now[u] \in Busy(u)
    BY <2>3 DEF Own
  <2>5. /\ Cardinality(Busy(u) \ {pid_now[u]}) = Cardinality(Busy(u)) - 1
        /\ Cardinality(Busy(u)) # 0
    BY <2>4, BusyCount
  <2>6. busy_num'[u] = Cardinality(Busy(u)')
    BY <2>2, <2>3, <2>5 DEF Own, decr
  <2> QED BY <2>2, <2>3, <2>6 DEF Own
<1>4. CASE ~HbScan(u) /\ ~SendData(u) /\ ~Reset(u)
  <2>1. UNCHANGED <<busy_index, busy_num, rpc, ack_reply, air, pid_now>>
    BY <1>4
       DEF Sender, PduGet, SenderStep, pdu_in, InLock, InStore,
           InRewind, harq_busy, HbLock, HbWait, HbWake, HbReturn,
           trans_control, TcAcked, TcNacked, TcRetransmit, TcOverflow,
           TcDiscard, SendDci, SendFails, HbSpurious, entityVars,
           receVars, envVars, Forget
  <2>2. SenderHas(u)' = SenderHas(u)
    BY <1>4, <2>1
       DEF Sender, PduGet, SenderStep, pdu_in, InLock, InStore,
           InRewind, harq_busy, HbLock, HbWait, HbWake, HbReturn,
           trans_control, TcAcked, TcNacked, TcRetransmit, TcOverflow,
           TcDiscard, SendDci, SendFails, HbSpurious, at, SenderHas, TypeOK
  <2>3. pc'[u] = "data" => payload_tosend'[u] # NULL
    BY <1>4
       DEF Sender, PduGet, SenderStep, pdu_in, InLock, InStore,
           InRewind, harq_busy, HbLock, HbWait, HbWake, HbReturn,
           trans_control, TcAcked, TcNacked, TcRetransmit, TcOverflow,
           TcDiscard, SendDci, SendFails, HbSpurious, at, TypeOK
  <2> QED BY <2>1, <2>2, <2>3 DEF Own, Busy, AirHas, ReceiverHas
<1> QED BY <1>1, <1>2, <1>3, <1>4

LEMMA OwnReceiver ==
    ASSUME TypeOK, NEW u \in Rnti, Own(u), DueFeedback(u) \/ Apply(u)
    PROVE  Own(u)'
<1>1. ASSUME NEW p \in Pid, NEW ok \in BOOLEAN, RecvDue(u, p, ok)
      PROVE  Own(u)'
  <2>1. /\ rpc[u] = "recv" /\ rpc' = [rpc EXCEPT ![u] = "ack_lock"]
        /\ air[u][p] # NULL /\ air' = [air EXCEPT ![u][p] = NULL]
        /\ ack_reply'[u].ACK_pid = p
        /\ UNCHANGED <<busy_index, busy_num, pc, pid_now, payload_tosend>>
    BY <1>1 DEF RecvDue, Recv, entityVars, sendVars, TypeOK
  <2>2. /\ p \in AirHas(u) /\ AirHas(u)' = AirHas(u) \ {p}
        /\ ReceiverHas(u) = {} /\ ReceiverHas(u)' = {p}
    BY <2>1 DEF AirHas, ReceiverHas, TypeOK
  <2>3. SenderHas(u)' = SenderHas(u) /\ Busy(u)' = Busy(u)
    BY <2>1 DEF SenderHas, Busy
  <2> QED BY <2>1, <2>2, <2>3 DEF Own
<1>2. CASE LockAck(u)
  <2>1. /\ rpc[u] = "ack_lock" /\ rpc' = [rpc EXCEPT ![u] = "ack_busy"]
        /\ UNCHANGED <<busy_index, busy_num, pc, pid_now, payload_tosend,
                       ack_reply, air>>
    BY <1>2 DEF LockAck, sendVars, envVars
  <2>2. ReceiverHas(u)' = ReceiverHas(u)
    BY <2>1 DEF ReceiverHas, TypeOK
  <2> QED BY <2>1, <2>2 DEF Own, SenderHas, AirHas, Busy
<1>3. CASE AckRecv(u)
  <2> DEFINE p == ack_reply[u].ACK_pid
  <2>1. /\ rpc[u] = "ack_busy" /\ rpc' = [rpc EXCEPT ![u] = "ack_set"]
        /\ busy_index' = [busy_index EXCEPT ![u][p] = FALSE]
        /\ busy_num' = [busy_num EXCEPT ![u] = decr(@)]
        /\ UNCHANGED <<pc, pid_now, payload_tosend, air>>
    BY <1>3 DEF AckRecv, envVars
  <2>2. p \in Pid
    BY DEF TypeOK
  <2>3. ReceiverHas(u) = {p} /\ ReceiverHas(u)' = {}
    BY <2>1 DEF ReceiverHas, TypeOK
  <2>4. p \in Busy(u)
    BY <2>3 DEF Own
  <2> HIDE DEF p
  <2>5. Busy(u)' = Busy(u) \ {p} /\ busy_num'[u] = decr(busy_num[u])
    BY <2>1, <2>2 DEF Busy, TypeOK
  <2>6. /\ Cardinality(Busy(u) \ {p}) = Cardinality(Busy(u)) - 1
        /\ Cardinality(Busy(u)) # 0
    BY <2>4, BusyCount
  <2>7. busy_num'[u] = Cardinality(Busy(u)')
    BY <2>5, <2>6 DEF Own, decr
  <2>8. SenderHas(u)' = SenderHas(u) /\ AirHas(u)' = AirHas(u)
    BY <2>1 DEF SenderHas, AirHas
  <2>9. pc'[u] = "data" => payload_tosend'[u] # NULL
    BY <2>1 DEF Own
  <2> QED BY <2>3, <2>5, <2>7, <2>8, <2>9 DEF Own
<1>4. CASE SetAck(u)
  <2>1. /\ rpc[u] = "ack_set" /\ rpc' = [rpc EXCEPT ![u] = "recv"]
        /\ UNCHANGED <<busy_index, busy_num, pc, pid_now, payload_tosend, air>>
    BY <1>4 DEF SetAck, sendVars, envVars
  <2>2. ReceiverHas(u)' = ReceiverHas(u)
    BY <2>1 DEF ReceiverHas, TypeOK
  <2> QED BY <2>1, <2>2 DEF Own, SenderHas, AirHas, Busy
<1> QED BY <1>1, <1>2, <1>3, <1>4 DEF DueFeedback, Apply

\* What every theorem about SpecDue starts from.
LEMMA OwnInvariant == SpecDue => []OwnInv
<1>1. Init => OwnInv
  <2> SUFFICES ASSUME Init, NEW u \in Rnti PROVE Own(u)
    BY InitType DEF OwnInv
  <2>1. /\ Busy(u) = {} /\ SenderHas(u) = {} /\ AirHas(u) = {}
        /\ ReceiverHas(u) = {}
    BY DEF Init, Busy, SenderHas, AirHas, ReceiverHas
  <2>2. busy_num[u] = 0 /\ pc[u] = "poll"
    BY DEF Init
  <2>3. Cardinality({}) = 0
    BY FS_EmptySet
  <2> QED BY <2>1, <2>2, <2>3 DEF Own
<1>2. OwnInv /\ [NextDue]_vars => OwnInv'
  <2> SUFFICES ASSUME OwnInv, [NextDue]_vars PROVE OwnInv'
    OBVIOUS
  <2>1. ASSUME NEW u \in Rnti, Sender(u) \/ DueFeedback(u) \/ Apply(u)
        PROVE  OwnInv'
    <3>1. TypeOK'
      BY <2>1, SenderType, ReceiverType, DueIsFeedback DEF OwnInv
    <3>2. ASSUME NEW v \in Rnti PROVE Own(v)'
      <4>1. CASE v = u
        BY <2>1, <4>1, OwnSender, OwnReceiver DEF OwnInv
      <4>2. CASE v # u
        BY <2>1, <4>2, OtherEntities, OwnFrame DEF OwnInv
      <4> QED BY <4>1, <4>2
    <3> QED BY <3>1, <3>2 DEF OwnInv
  <2>2. CASE UNCHANGED vars
    <3>1. \A v \in Rnti : Own(v)'
      BY <2>2, OwnFrame
         DEF OwnInv, vars, entityVars, sendVars, receVars, envVars
    <3> QED BY <2>2, <3>1, StutterType DEF OwnInv
  <2> QED BY <2>1, <2>2 DEF NextDue
<1> QED BY <1>1, <1>2, PTL DEF SpecDue

(***************************************************************************)
(* When every transmission is answered at most once, a busy process is in  *)
(* the hands of exactly one of the sender, the air and the receiver.       *)
(***************************************************************************)
THEOREM ProcessHasOneOwner == SpecDue => []OneOwner
<1>1. OwnInv => OneOwner
  BY DEF OwnInv, Own, OneOwner
<1> QED BY <1>1, OwnInvariant, PTL

(***************************************************************************)
(* busy_num counts the busy processes exactly: the decrements of reset and *)
(* ack_recv, which test nothing, never wrap the uint32_t around.           *)
(***************************************************************************)
THEOREM BusyNumCounts == SpecDue => []BusyNumExact
<1>1. OwnInv => BusyNumExact
  BY DEF OwnInv, Own, BusyNumExact
<1> QED BY <1>1, OwnInvariant, PTL

-----------------------------------------------------------------------------
(***************************************************************************)
(* When every transmission is answered at most once (SpecDue): the PDU in  *)
(* the air stays at the head of its ring, the scans under busy_LOCK find   *)
(* what they look for, and the sender reads the last feedback.  This rests *)
(* on who has a process (Own) and on the shape of the rings (RingInv).     *)
(***************************************************************************)

DueStep(u) == Sender(u) \/ DueFeedback(u) \/ Apply(u)

-----------------------------------------------------------------------------
(* The PDU in the air.                                                     *)

\* What is in the air, and what the sender is about to send, is the head of
\* its ring; a process whose feedback is being applied still has a PDU.
Heads(u) ==
    /\ \A p \in Pid : air[u][p] # NULL => pop(pdu_q[u][p]) = air[u][p]
    /\ pc[u] \in {"dci", "data"} =>
         payload_tosend[u] = pop(pdu_q[u][pid_now[u]])
    /\ \A p \in ReceiverHas(u) : ~isempty(pdu_q[u][p])

Known == OwnInv /\ RingInv

LEMMA KnownInvariant == SpecDue => []Known
BY OwnInvariant, RingInvariant, DueIsSpec, PTL DEF Known

LEMMA OtherHeads ==
    ASSUME TypeOK, NEW u \in Rnti, DueStep(u), NEW v \in Rnti, v # u, Heads(v)
    PROVE  Heads(v)'
<1>1. UNCHANGED <<pc[v], pid_now[v], payload_tosend[v], rpc[v], ack_reply[v],
                  air[v]>>
  BY OtherEntities DEF DueStep
<1>2. UNCHANGED pdu_q[v]
  <2>1. CASE Sender(u)
    BY <2>1, RingWriters DEF InStore, pdu_store, TcAcked, TcDiscard, Advance,
                             TypeOK
  <2>2. CASE DueFeedback(u) \/ Apply(u)
    BY <2>2 DEF DueFeedback, RecvDue, Recv, Apply, LockAck, AckRecv, SetAck,
                entityVars
  <2> QED BY <2>1, <2>2 DEF DueStep
<1> QED BY <1>1, <1>2 DEF Heads, ReceiverHas

LEMMA HeadsSender ==
    ASSUME Known, NEW u \in Rnti, Heads(u), Sender(u)
    PROVE  Heads(u)'
<1> USE DEF Known, OwnInv
<1>1. /\ \A p \in Pid : pdu_q[u][p] \in Ring /\ WellShaped(pdu_q[u][p])
      /\ pdu_q \in [Rnti -> [Pid -> Ring]]
      /\ pid_now[u] \in Pid
  BY DEF RingInv, RingsWellShaped, TypeOK
<1>2. ReceiverHas(u) \in SUBSET Pid
  BY DEF ReceiverHas, TypeOK
<1>3. CASE InStore(u)
  <2> DEFINE s == StorePid(u)
             m == payload_back[u]
  <2>1. s \in Pid /\ m \in Pdu \cup {NULL}
    BY <1>3, StorePidType DEF InStore, TypeOK
  <2>2. pdu_q' = IF m = NULL THEN pdu_q
                 ELSE [pdu_q EXCEPT ![u][s] = send(@, m)]
    BY <1>3 DEF InStore, pdu_store
  <2>3. m \in Pdu =>
          /\ ~isempty(send(pdu_q[u][s], m))
          /\ ~isempty(pdu_q[u][s]) =>
               pop(send(pdu_q[u][s], m)) = pop(pdu_q[u][s])
    BY <1>1, <2>1, SendShape
  <2> HIDE DEF s, m
  <2>4. \A p \in Pid : ~isempty(pdu_q[u][p]) =>
          ~isempty(pdu_q'[u][p]) /\ pop(pdu_q'[u][p]) = pop(pdu_q[u][p])
    BY <1>1, <2>1, <2>2, <2>3
  <2>5. /\ pc'[u] \in {"in_rewind", "hb_lock"}
        /\ UNCHANGED <<air, rpc, ack_reply>>
    BY <1>3 DEF InStore, at, receVars, envVars, TypeOK
  <2>6. \A p \in Pid : air[u][p] # NULL => ~isempty(pdu_q[u][p])
    BY <1>1, PopType DEF Heads
  <2> QED BY <1>2, <2>4, <2>5, <2>6 DEF Heads, ReceiverHas
<1>4. CASE TcAcked(u) \/ TcDiscard(u)
  <2> DEFINE h == pid_now[u]
             r == release(pdu_q[u][h])
  <2>1. /\ pdu_q' = [pdu_q EXCEPT ![u][h] = r]
        /\ payload_tosend' = [payload_tosend EXCEPT ![u] = pop(r)]
        /\ pid_now' = pid_now
        /\ UNCHANGED <<air, rpc, ack_reply>>
    BY <1>4 DEF TcAcked, TcDiscard, Advance, receVars
  <2>2. h \in SenderHas(u)
    BY <1>4 DEF TcAcked, TcDiscard, SenderHas
  <2>3. h \notin ReceiverHas(u) /\ air[u][h] = NULL
    BY <1>1, <2>2 DEF Own, AirHas
  <2> HIDE DEF r
  <2>4. /\ pdu_q'[u][h] = r
        /\ \A p \in Pid : p # h => pdu_q'[u][p] = pdu_q[u][p]
        /\ payload_tosend'[u] = pop(r)
    BY <1>1, <2>1 DEF TypeOK
  <2>5. ReceiverHas(u)' = ReceiverHas(u)
    BY <2>1 DEF ReceiverHas
  <2> QED BY <1>1, <1>2, <2>1, <2>3, <2>4, <2>5 DEF Heads
<1>5. CASE TcRetransmit(u)
  BY <1>5 DEF TcRetransmit, Heads, ReceiverHas, receVars, envVars, TypeOK
<1>6. CASE SendData(u)
  <2>1. /\ air' = [air EXCEPT ![u][pid_now[u]] = payload_tosend[u]]
        /\ pc[u] = "data" /\ pc'[u] = "poll"
        /\ UNCHANGED <<pdu_q, rpc, ack_reply>>
    BY <1>6 DEF SendData, EndLoop, at, entityVars, receVars, TypeOK
  <2> QED BY <1>1, <2>1 DEF Heads, ReceiverHas, TypeOK
<1>7. CASE ~InStore(u) /\ ~TcAcked(u) /\ ~TcDiscard(u) /\ ~TcRetransmit(u)
             /\ ~SendData(u)
  <2>1. /\ UNCHANGED <<pdu_q, air, rpc, ack_reply>>
        /\ pc'[u] \in {"dci", "data"} =>
             /\ pc[u] \in {"dci", "data"}
             /\ UNCHANGED <<pid_now[u], payload_tosend[u]>>
    BY <1>7
       DEF Sender, PduGet, SenderStep, pdu_in, InLock, InRewind,
           harq_busy, HbLock, HbWait, HbWake, HbReturn, HbScan, trans_control,
           TcNacked, TcOverflow, SendDci, Reset, EndLoop, SendFails,
           HbSpurious, at, entityVars, receVars, envVars, TypeOK
  <2> QED BY <2>1 DEF Heads, ReceiverHas
<1> QED BY <1>3, <1>4, <1>5, <1>6, <1>7

LEMMA HeadsReceiver ==
    ASSUME TypeOK, NEW u \in Rnti, Heads(u), DueFeedback(u) \/ Apply(u)
    PROVE  Heads(u)'
<1>1. ASSUME NEW p \in Pid, NEW ok \in BOOLEAN, RecvDue(u, p, ok)
      PROVE  Heads(u)'
  <2>1. /\ air[u][p] # NULL /\ air' = [air EXCEPT ![u][p] = NULL]
        /\ rpc[u] = "recv" /\ rpc'[u] = "ack_lock"
        /\ ack_reply'[u].ACK_pid = p
        /\ UNCHANGED <<pdu_q, pc, pid_now, payload_tosend>>
    BY <1>1 DEF RecvDue, Recv, entityVars, sendVars, TypeOK
  <2>2. ~isempty(pdu_q[u][p])
    BY <2>1, PopType DEF Heads, TypeOK
  <2>3. ReceiverHas(u)' = {p}
    BY <2>1 DEF ReceiverHas
  <2>4. \A x \in Pid : air'[u][x] # NULL => air'[u][x] = air[u][x]
    BY <2>1 DEF TypeOK
  <2> QED BY <2>1, <2>2, <2>3, <2>4 DEF Heads
<1>2. CASE Apply(u)
  <2>1. /\ UNCHANGED <<pdu_q, pc, pid_now, payload_tosend, air>>
        /\ ReceiverHas(u)' \in SUBSET ReceiverHas(u)
    BY <1>2 DEF Apply, LockAck, AckRecv, SetAck, entityVars, sendVars,
                envVars, ReceiverHas, TypeOK
  <2> QED BY <2>1 DEF Heads
<1> QED BY <1>1, <1>2 DEF DueFeedback

LEMMA HeadsInvariant == SpecDue => [](\A u \in Rnti : Heads(u))
<1> DEFINE Inv == \A u \in Rnti : Heads(u)
<1>1. Init => Inv
  BY DEF Init, Heads, ReceiverHas
<1>2. Known /\ Inv /\ [NextDue]_vars => Inv'
  <2> SUFFICES ASSUME Known, Inv, [NextDue]_vars, NEW v \in Rnti
               PROVE  Heads(v)'
    OBVIOUS
  <2>1. ASSUME NEW u \in Rnti, DueStep(u)
        PROVE  Heads(v)'
    BY <2>1, HeadsSender, HeadsReceiver, OtherHeads
       DEF DueStep, Known, OwnInv
  <2>2. CASE UNCHANGED vars
    <3>1. UNCHANGED <<pdu_q, pc, pid_now, payload_tosend, air, rpc, ack_reply>>
      BY <2>2 DEF vars, entityVars, sendVars, receVars, envVars
    <3> QED BY <3>1 DEF Heads, ReceiverHas
  <2> QED BY <2>1, <2>2 DEF NextDue, DueStep
<1> QED BY <1>1, <1>2, KnownInvariant, PTL DEF SpecDue

(***************************************************************************)
(* The PDU a process has in the air stays at the head of its ring until    *)
(* its feedback arrives: pdu_in may add to the ring, but trans_control     *)
(* only works on a process that nobody else has.                           *)
(***************************************************************************)
THEOREM HeadStaysInFlight == SpecDue => []HeadInFlight
<1>1. (\A u \in Rnti : Heads(u)) => HeadInFlight
  BY DEF Heads, HeadInFlight
<1> QED BY <1>1, HeadsInvariant, PTL

-----------------------------------------------------------------------------
(* Stop and wait.                                                          *)

\* The queues the rings of the processes stand for.
Queues == [u \in Rnti |-> [p \in Pid |-> Contents(pdu_q[u][p])]]

LEMMA QueueChanges ==
    ASSUME TypeOK, NEW u \in Rnti, NEW p \in Pid, NEW r,
           pdu_q' = [pdu_q EXCEPT ![u][p] = r]
    PROVE  /\ Queues[u][p] = Contents(pdu_q[u][p])
           /\ Queues'[u][p] = Contents(r)
           /\ Queues' = [Queues EXCEPT ![u][p] = Contents(r)]
<1>1. pdu_q \in [Rnti -> [Pid -> Ring]]
  BY DEF TypeOK
<1>2. /\ pdu_q'[u][p] = r
      /\ \A v \in Rnti, x \in Pid :
           v # u \/ x # p => pdu_q'[v][x] = pdu_q[v][x]
  BY <1>1
<1>3. /\ Queues[u][p] = Contents(pdu_q[u][p])
      /\ Queues'[u][p] = Contents(r)
  BY <1>2 DEF Queues
<1>4. Queues' = [v \in Rnti |-> [x \in Pid |->
                   IF v = u /\ x = p THEN Contents(r) ELSE Queues[v][x]]]
  BY <1>2 DEF Queues
<1>5. [Queues EXCEPT ![u][p] = Contents(r)] =
        [v \in Rnti |-> [x \in Pid |->
           IF v = u /\ x = p THEN Contents(r) ELSE Queues[v][x]]]
  BY DEF Queues
<1> QED BY <1>3, <1>4, <1>5

LEMMA QueuesStay == UNCHANGED pdu_q => Queues' = Queues
BY DEF Queues

\* The rings and the processes of an entity, with what the operations need.
LEMMA ProcessFacts ==
    ASSUME Known, NEW u \in Rnti
    PROVE  /\ TypeOK /\ pid_now[u] \in Pid
           /\ \A p \in Pid : pdu_q[u][p] \in Ring /\ WellShaped(pdu_q[u][p])
           /\ pid_now[u] \in SenderHas(u) => air[u][pid_now[u]] = NULL
BY DEF Known, OwnInv, Own, RingInv, RingsWellShaped, TypeOK, AirHas

LEMMA StoreAccepts ==
    ASSUME Known, NEW u \in Rnti, InStore(u)
    PROVE  \/ \E p \in Pid : Processes!Accept(u, p)
           \/ UNCHANGED <<Queues, air>>
<1> DEFINE s == StorePid(u)
           m == payload_back[u]
           q == pdu_q[u][s]
<1>1. TypeOK /\ s \in Pid /\ m \in Pdu \cup {NULL}
  <2>1. TypeOK
    BY ProcessFacts
  <2> QED BY <2>1, StorePidType DEF InStore, TypeOK
<1>2. /\ pdu_q' = IF m = NULL THEN pdu_q ELSE [pdu_q EXCEPT ![u][s] = send(q, m)]
      /\ air' = air
  BY DEF InStore, pdu_store, envVars
<1>3. q \in Ring /\ WellShaped(q)
  BY <1>1, ProcessFacts
<1> HIDE DEF s, m
<1>4. CASE m = NULL \/ isfull(q)
  <2>1. pdu_q' = pdu_q
    BY <1>1, <1>2, <1>4 DEF send, TypeOK
  <2> QED BY <1>2, <2>1, QueuesStay
<1>5. CASE m \in Pdu /\ ~isfull(q)
  <2>1. NULL \notin Pdu
    BY QbuffAssumption
  <2>2. pdu_q' = [pdu_q EXCEPT ![u][s] = push(q, m)]
    BY <1>2, <1>5, <2>1 DEF send
  <2>3. Contents(push(q, m)) = Append(Contents(q), m)
    BY <1>3, <1>5, PushAppends
  <2>4. Len(Contents(q)) < NOF_BUFFER_PDUS
    BY <1>3, <1>5, ContentsIs, CountBounds, RingFacts
  <2> DEFINE r == push(q, m)
  <2> HIDE DEF r
  <2>5. /\ Queues[u][s] = Contents(q)
        /\ Queues'[u][s] = Contents(r)
        /\ Queues' = [Queues EXCEPT ![u][s] = Contents(r)]
    <3>1. pdu_q' = [pdu_q EXCEPT ![u][s] = r]
      BY <2>2 DEF r
    <3> QED BY <1>1, <3>1, QueueChanges
  <2>6. Queues'[u][s] = Append(Queues[u][s], m)
    BY <2>3, <2>5 DEF r
  <2>7. Queues' = [Queues EXCEPT ![u][s] = Queues'[u][s]]
    BY <2>5
  <2>8. Processes!Accept(u, s)
    BY <1>2, <1>5, <2>4, <2>5, <2>6, <2>7 DEF Processes!Accept, Queues
  <2> QED BY <1>1, <2>8
<1> QED BY <1>1, <1>4, <1>5

LEMMA AdvanceDrops ==
    ASSUME Known, NEW u \in Rnti, TcAcked(u) \/ TcDiscard(u)
    PROVE  Processes!Drop(u, pid_now[u])
<1> DEFINE h == pid_now[u]
           q == pdu_q[u][h]
           r == release(q)
<1>1. /\ pc[u] \in {"tc_lock", "tc_discard"}
      /\ pdu_q' = [pdu_q EXCEPT ![u][h] = r]
      /\ air' = air
  BY DEF TcAcked, TcDiscard, Advance
<1>2. TypeOK /\ h \in Pid /\ q \in Ring /\ WellShaped(q)
  BY ProcessFacts
<1>3. air[u][h] = NULL
  BY <1>1, ProcessFacts DEF SenderHas
<1>4. pop(q) # NULL
  BY <1>1, <1>2, PopType DEF Known, RingInv, Loaded
<1>5. Contents(q) # <<>> /\ Contents(r) = Tail(Contents(q))
  BY <1>2, <1>4, ReleaseTakes
<1> HIDE DEF r
<1>6. /\ Queues[u][h] = Contents(q)
      /\ Queues' = [Queues EXCEPT ![u][h] = Contents(r)]
  BY <1>1, <1>2, QueueChanges
<1>7. Queues' = [Queues EXCEPT ![u][h] = Tail(Queues[u][h])]
  BY <1>5, <1>6
<1> QED BY <1>1, <1>3, <1>5, <1>6, <1>7 DEF Processes!Drop, Processes!Ready, Queues

LEMMA SendDataTransmits ==
    ASSUME Known, NEW u \in Rnti, Heads(u), SendData(u)
    PROVE  Processes!Transmit(u, pid_now[u])
<1> DEFINE h == pid_now[u]
           q == pdu_q[u][h]
<1>1. /\ pc[u] = "data" /\ pdu_q' = pdu_q
      /\ air' = [air EXCEPT ![u][h] = payload_tosend[u]]
  BY DEF SendData, entityVars
<1>2. h \in Pid /\ q \in Ring /\ WellShaped(q)
  BY ProcessFacts
<1>3. air[u][h] = NULL
  BY <1>1, ProcessFacts DEF SenderHas
<1>4. payload_tosend[u] = pop(q) /\ pop(q) # NULL
  BY <1>1 DEF Heads, Known, OwnInv, Own
<1>5. Contents(q) # <<>> /\ pop(q) = Head(Contents(q))
  BY <1>2, <1>4, ReleaseTakes
<1>6. Queues[u][h] = Contents(q) /\ Queues' = Queues
  BY <1>1, <1>2, QueuesStay DEF Queues
<1>7. air' = [air EXCEPT ![u][h] = Head(Queues[u][h])]
  BY <1>1, <1>4, <1>5, <1>6
<1> QED BY <1>3, <1>5, <1>6, <1>7
        DEF Processes!Transmit, Processes!Ready, Queues

LEMMA WaitSender ==
    ASSUME Known, NEW u \in Rnti, Heads(u), Sender(u)
    PROVE  \/ \E p \in Pid : \/ Processes!Accept(u, p)
                             \/ Processes!Transmit(u, p)
                             \/ Processes!Drop(u, p)
           \/ UNCHANGED <<Queues, air>>
<1>1. pid_now[u] \in Pid
  BY ProcessFacts
<1>2. CASE InStore(u)
  BY <1>2, StoreAccepts
<1>3. CASE TcAcked(u) \/ TcDiscard(u)
  BY <1>1, <1>3, AdvanceDrops
<1>4. CASE SendData(u)
  BY <1>1, <1>4, SendDataTransmits
<1>5. CASE ~InStore(u) /\ ~TcAcked(u) /\ ~TcDiscard(u) /\ ~SendData(u)
  <2>1. UNCHANGED <<pdu_q, air>>
    BY <1>5, SMTT(60)
       DEF Sender, PduGet, SenderStep, pdu_in, InLock, InRewind,
           harq_busy, HbLock, HbWait, HbWake, HbReturn, HbScan, trans_control,
           TcNacked, TcRetransmit, TcOverflow, SendDci, Reset, SendFails,
           HbSpurious, entityVars, envVars
  <2> QED BY <2>1, QueuesStay
<1> QED BY <1>2, <1>3, <1>4, <1>5

LEMMA WaitReceiver ==
    ASSUME NEW u \in Rnti, DueFeedback(u) \/ Apply(u)
    PROVE  (\E p \in Pid : Processes!Answer(u, p)) \/ UNCHANGED <<Queues, air>>
<1>1. ASSUME NEW p \in Pid, NEW ok \in BOOLEAN, RecvDue(u, p, ok)
      PROVE  Processes!Answer(u, p)
  <2>1. /\ air[u][p] # NULL /\ air' = [air EXCEPT ![u][p] = NULL]
        /\ pdu_q' = pdu_q
    BY <1>1 DEF RecvDue, Recv, entityVars
  <2> QED BY <2>1, QueuesStay DEF Processes!Answer, Queues
<1>2. CASE Apply(u)
  <2>1. UNCHANGED <<pdu_q, air>>
    BY <1>2 DEF Apply, LockAck, AckRecv, SetAck, entityVars, envVars
  <2> QED BY <2>1, QueuesStay
<1> QED BY <1>1, <1>2 DEF DueFeedback

(***************************************************************************)
(* When every transmission is answered at most once, the entities          *)
(* (FX_MAC.h, lte-udp.cc, lte-rece.cc) implement stop-and-wait processes,  *)
(* although harq_busy, trans_control, reset and ack_recv share what they   *)
(* know of a process in four variables under two locks.                    *)
(***************************************************************************)
THEOREM ProcessesStopAndWait == SpecDue => ImplementsStopAndWait
<1> DEFINE Inv == Known /\ \A u \in Rnti : Heads(u)
<1>1. Init => Processes!Init
  BY FlushContents DEF Init, Processes!Init
<1>2. Inv /\ [NextDue]_vars => [Processes!Next]_<<Queues, air>>
  <2> SUFFICES ASSUME Inv, [NextDue]_vars
               PROVE  [Processes!Next]_<<Queues, air>>
    OBVIOUS
  <2>1. ASSUME NEW u \in Rnti, DueStep(u)
        PROVE  [Processes!Next]_<<Queues, air>>
    <3>1. \/ \E p \in Pid : \/ Processes!Accept(u, p)
                            \/ Processes!Transmit(u, p)
                            \/ Processes!Drop(u, p)
                            \/ Processes!Answer(u, p)
          \/ UNCHANGED <<Queues, air>>
      BY <2>1, WaitSender, WaitReceiver DEF DueStep
    <3> QED BY <3>1 DEF Processes!Next
  <2>2. CASE UNCHANGED vars
    BY <2>2, QueuesStay DEF vars, entityVars, envVars
  <2> QED BY <2>1, <2>2 DEF NextDue, DueStep
<1>3. SpecDue => []Inv
  BY KnownInvariant, HeadsInvariant, PTL
<1> HIDE DEF Inv
<1>4. SpecDue => Processes!Init
  BY <1>1, PTL DEF SpecDue
<1>5. SpecDue => [][Processes!Next]_<<Queues, air>>
  BY <1>2, <1>3, PTL DEF SpecDue
<1> QED BY <1>4, <1>5, PTL
        DEF ImplementsStopAndWait, Processes!Spec, Queues

-----------------------------------------------------------------------------
(* The feedback the sender reads.                                          *)

\* ACK_LOCK is held around ack_recv() and the write of ACK[]; before that
\* write, only the process named in ack_reply may have an old ACK.
Fresh(u) ==
    /\ ACK_LOCK[u] = "rece" <=> rpc[u] \in {"ack_busy", "ack_set"}
    /\ rpc[u] # "recv" => ack_reply[u].ack_0 = aux_fb[u][ack_reply[u].ACK_pid]
    /\ \A p \in Pid :
         ACK[u][p] = aux_fb[u][p] \/ (rpc[u] # "recv" /\ ack_reply[u].ACK_pid = p)

FreshInv == TypeOK /\ \A u \in Rnti : Fresh(u)

LEMMA FreshSender ==
    ASSUME FreshInv, NEW u \in Rnti, Sender(u)
    PROVE  FreshInv'
<1>1. UNCHANGED <<ACK_LOCK, rpc, ack_reply, aux_fb, ACK>>
  BY DEF Sender, PduGet, SenderStep, pdu_in, InLock, InStore,
         InRewind, harq_busy, HbLock, HbWait, HbWake, HbReturn, HbScan,
         trans_control, TcAcked, TcNacked, TcRetransmit, TcOverflow, TcDiscard,
         SendDci, SendData, Reset, SendFails, HbSpurious, entityVars, receVars,
         envVars
<1>2. TypeOK'
  BY SenderType DEF FreshInv
<1> QED BY <1>1, <1>2 DEF FreshInv, Fresh

LEMMA FreshReceiver ==
    ASSUME FreshInv, NEW u \in Rnti, AnyFeedback(u) \/ Apply(u)
    PROVE  FreshInv'
<1>1. TypeOK'
  BY ReceiverType DEF FreshInv
<1>2. ASSUME NEW v \in Rnti PROVE Fresh(v)'
  <2>1. Fresh(v) /\ TypeOK
    BY DEF FreshInv
  <2>2. CASE v # u
    <3>1. UNCHANGED <<ACK_LOCK[v], rpc[v], ack_reply[v], aux_fb[v], ACK[v]>>
      BY <2>1, <2>2 DEF AnyFeedback, Recv, Apply, LockAck, AckRecv, SetAck,
                        entityVars, envVars, TypeOK
    <3> QED BY <2>1, <3>1 DEF Fresh
  <2>3. CASE v = u
    <3>1. ASSUME NEW p \in Pid, NEW ok \in BOOLEAN, Recv(u, p, ok)
          PROVE  Fresh(u)'
      <4>1. /\ rpc[u] = "recv" /\ rpc'[u] = "ack_lock"
            /\ ack_reply'[u].ACK_pid = p /\ ack_reply'[u].ack_0 = ok
            /\ aux_fb' = [aux_fb EXCEPT ![u][p] = ok]
            /\ UNCHANGED <<ACK_LOCK, ACK>>
        BY <2>1, <3>1 DEF Recv, entityVars, TypeOK
      <4>2. \A x \in Pid : aux_fb'[u][x] = IF x = p THEN ok ELSE aux_fb[u][x]
        BY <2>1, <4>1 DEF TypeOK
      <4> QED BY <2>1, <2>3, <4>1, <4>2 DEF Fresh
    <3>2. CASE LockAck(u)
      BY <2>1, <2>3, <3>2 DEF LockAck, Fresh, TypeOK, envVars
    <3>3. CASE AckRecv(u)
      BY <2>1, <2>3, <3>3 DEF AckRecv, Fresh, TypeOK, envVars
    <3>4. CASE SetAck(u)
      <4> DEFINE p == ack_reply[u].ACK_pid
      <4>1. /\ rpc[u] = "ack_set" /\ rpc'[u] = "recv"
            /\ ACK_LOCK'[u] = "free"
            /\ ACK' = [ACK EXCEPT ![u][p] = ack_reply[u].ack_0]
            /\ UNCHANGED aux_fb
            /\ p \in Pid
        BY <2>1, <3>4 DEF SetAck, envVars, TypeOK
      <4>2. ack_reply[u].ack_0 = aux_fb[u][p]
        BY <2>1, <2>3, <4>1 DEF Fresh
      <4>3. \A x \in Pid : ACK'[u][x] = IF x = p THEN aux_fb[u][p] ELSE ACK[u][x]
        BY <2>1, <4>1, <4>2 DEF TypeOK
      <4> QED BY <2>1, <2>3, <4>1, <4>3 DEF Fresh
    <3> QED BY <2>3, <3>1, <3>2, <3>3, <3>4 DEF AnyFeedback, Apply
  <2> QED BY <2>2, <2>3
<1> QED BY <1>1, <1>2 DEF FreshInv

LEMMA FreshInvariant == Spec => []FreshInv
<1>1. Init => FreshInv
  BY InitType DEF Init, FreshInv, Fresh
<1>2. FreshInv /\ [Next]_vars => FreshInv'
  <2>1. FreshInv /\ UNCHANGED vars => FreshInv'
    <3>1. UNCHANGED vars => UNCHANGED <<ACK_LOCK, rpc, ack_reply, aux_fb, ACK>>
      BY DEF vars, entityVars, receVars, envVars
    <3> QED BY <3>1, StutterType DEF FreshInv, Fresh
  <2> QED BY <2>1, FreshSender, FreshReceiver DEF Next
<1> QED BY <1>1, <1>2, PTL DEF Spec

(***************************************************************************)
(* When trans_control reads ACK[pid], it reads the last feedback that      *)
(* arrived for the process.  Between ack_recv and the write of ACK[] the   *)
(* sender may pick the process again, and it is ACK_LOCK that stops it;    *)
(* before ACK_LOCK is taken, the process is still the receiver's (Own).    *)
(***************************************************************************)
THEOREM SenderReadsFreshAck == SpecDue => []FreshAck
<1>1. Known /\ FreshInv => FreshAck
  <2> SUFFICES ASSUME Known, FreshInv, NEW u \in Rnti,
                      pc[u] = "tc_lock", ACK_LOCK[u] = "free"
               PROVE  ACK[u][pid_now[u]] = aux_fb[u][pid_now[u]]
    BY DEF FreshAck
  <2>1. rpc[u] \in {"recv", "ack_lock"}
    BY DEF FreshInv, Fresh, TypeOK, RecePc
  <2>2. rpc[u] = "ack_lock" => ack_reply[u].ACK_pid # pid_now[u]
    BY DEF Known, OwnInv, Own, SenderHas, ReceiverHas
  <2>3. pid_now[u] \in Pid
    BY DEF FreshInv, TypeOK
  <2> QED BY <2>1, <2>2, <2>3 DEF FreshInv, Fresh
<1> QED BY <1>1, KnownInvariant, FreshInvariant, DueIsSpec, PTL

-----------------------------------------------------------------------------
(* The scans.                                                              *)

\* Once pdu_in has stored its PDU, harq_busy has a process to find, or every
\* process is busy; and pdu_in has a PDU to store.
Found(u) ==
    /\ pc[u] \in {"in_lock", "in_store"} => payload_back[u] # NULL
    /\ pc[u] \in {"in_rewind", "hb_lock", "hb_test", "hb_wait"} =>
         Ready(u) # {} \/ Busy(u) = Pid

LEMMA PidCount == IsFiniteSet(Pid) /\ Cardinality(Pid) = HARQ_NUM
<1>1. HARQ_NUM \in Nat /\ HARQ_NUM > 0
  BY HarqAssumption
<1>2. /\ IsFiniteSet(0 .. (HARQ_NUM - 1))
      /\ Cardinality(0 .. (HARQ_NUM - 1)) =
           IF 0 > HARQ_NUM - 1 THEN 0 ELSE (HARQ_NUM - 1) - 0 + 1
  BY <1>1, FS_Interval
<1> QED BY <1>1, <1>2 DEF Pid

\* A count below HARQ_NUM leaves a process that is not busy.
LEMMA IdleLeft ==
    ASSUME TypeOK, NEW u \in Rnti, Own(u), busy_num[u] < HARQ_NUM
    PROVE  Busy(u) # Pid /\ Idle(u) # {}
<1>1. busy_num[u] = Cardinality(Busy(u)) /\ busy_num[u] # HARQ_NUM
  BY HarqAssumption DEF Own, TypeOK
<1>2. Busy(u) # Pid
  BY <1>1, PidCount
<1> QED BY <1>2 DEF Busy, Idle

LEMMA OtherFound ==
    ASSUME TypeOK, NEW u \in Rnti, DueStep(u), NEW v \in Rnti, v # u, Found(v)
    PROVE  Found(v)'
<1>1. UNCHANGED <<pc[v], busy_index[v]>>
  BY OtherEntities DEF DueStep
<1>2. UNCHANGED <<pdu_q[v], payload_back[v]>>
  <2>1. CASE Sender(u)
    <3>1. UNCHANGED pdu_q[v]
      BY <2>1, RingWriters DEF InStore, pdu_store, TcAcked, TcDiscard, Advance,
                               TypeOK
    <3>2. UNCHANGED payload_back[v]
      BY <2>1
         DEF Sender, PduGet, SenderStep, pdu_in, InLock, InStore,
             InRewind, harq_busy, HbLock, HbWait, HbWake, HbReturn, HbScan,
             trans_control, TcAcked, TcNacked, TcRetransmit, TcOverflow,
             TcDiscard, SendDci, SendData, Reset, SendFails, HbSpurious, TypeOK
    <3> QED BY <3>1, <3>2
  <2>2. CASE DueFeedback(u) \/ Apply(u)
    BY <2>2 DEF DueFeedback, RecvDue, Recv, Apply, LockAck, AckRecv, SetAck,
                entityVars, sendVars
  <2> QED BY <2>1, <2>2 DEF DueStep
<1> QED BY <1>1, <1>2 DEF Found, Ready, Idle, Busy

LEMMA FoundSender ==
    ASSUME ~PduGetMayFail, Known, NEW u \in Rnti, Found(u), Sender(u)
    PROVE  Found(u)'
<1> USE DEF Known, OwnInv
<1>1. CASE InStore(u)
  <2> DEFINE s == StorePid(u)
             m == payload_back[u]
  <2>1. s \in Pid /\ m \in Pdu
    BY <1>1, StorePidType DEF InStore, TypeOK, Found
  <2>2. /\ pdu_q' = [pdu_q EXCEPT ![u][s] = send(@, m)]
        /\ UNCHANGED busy_index
        /\ pc'[u] \in {"in_rewind", "hb_lock"}
    BY <1>1, <2>1, QbuffAssumption DEF InStore, pdu_store, at, TypeOK
  <2>3. pdu_q[u][s] \in Ring /\ WellShaped(pdu_q[u][s])
    BY <2>1 DEF RingInv, RingsWellShaped, TypeOK
  <2>4. ~isempty(send(pdu_q[u][s], m))
    BY <2>1, <2>3, SendShape
  <2>5. Idle(u) # {} => s \in Idle(u)
    <3>1. ASSUME Idle(u) # {} PROVE busy_num[u] < HARQ_NUM
      <4>1. PICK p \in Pid \ Busy(u) : TRUE
        BY <3>1 DEF Idle, Busy
      <4>2. /\ Busy(u) \cup {p} \in SUBSET Pid
            /\ Cardinality(Busy(u) \cup {p}) = Cardinality(Busy(u)) + 1
            /\ Cardinality(Busy(u)) \in Nat
        BY <4>1, BusyCount DEF Busy
      <4>3. Cardinality(Busy(u) \cup {p}) <= HARQ_NUM
        BY <4>2, PidCount, FS_Subset
      <4> QED BY <4>2, <4>3, HarqAssumption DEF Own
    <3>2. tmp[u] \in Nat /\ Idle(u) \in SUBSET Pid
      BY DEF TypeOK, Idle
    <3> QED BY <3>1, <3>2, FirstFromIn DEF StorePid
  <2> HIDE DEF s, m
  <2>6. Idle(u)' = Idle(u) /\ Busy(u)' = Busy(u)
    BY <2>2 DEF Idle, Busy
  <2>7. CASE Idle(u) # {}
    <3>1. pdu_q'[u][s] = send(pdu_q[u][s], m)
      BY <2>1, <2>2 DEF TypeOK
    <3>2. s \in Ready(u)'
      BY <2>4, <2>5, <2>6, <2>7, <3>1 DEF Ready
    <3> QED BY <2>2, <3>2 DEF Found
  <2>8. CASE Idle(u) = {}
    <3>1. Busy(u)' = Pid
      BY <2>6, <2>8 DEF Idle, Busy
    <3> QED BY <2>2, <3>1 DEF Found
  <2> QED BY <2>7, <2>8
<1>2. ASSUME NEW d \in Pdu \cup {NULL}, PduGet(u, d)
      PROVE  Found(u)'
  BY <1>2, QbuffAssumption DEF PduGet, at, Found, TypeOK
<1>3. CASE InLock(u) \/ InRewind(u) \/ HbLock(u) \/ HbWait(u) \/ HbReturn(u)
  <2>1. UNCHANGED <<pdu_q, busy_index, payload_back>>
    BY <1>3 DEF InLock, InRewind, HbLock, HbWait, HbReturn
  <2>2. \/ pc[u] = "in_lock" /\ pc'[u] = "in_store"
        \/ /\ pc[u] \in {"in_rewind", "hb_lock", "hb_test", "hb_wait"}
           /\ pc'[u] \in {"hb_lock", "hb_test", "hb_wait"}
    BY <1>3 DEF InLock, InRewind, HbLock, HbWait, HbReturn, at, TypeOK
  <2> QED BY <2>1, <2>2 DEF Found, Ready, Idle, Busy
<1>4. CASE HbScan(u) \/ trans_control(u) \/ SendDci(u) \/ SendFails(u)
             \/ SendData(u) \/ Reset(u)
  <2>1. pc'[u] \notin {"in_lock", "in_store", "in_rewind", "hb_lock", "hb_test",
                       "hb_wait"}
    BY <1>4 DEF HbScan, trans_control, TcAcked, TcNacked, TcRetransmit,
                TcOverflow, TcDiscard, SendDci, SendFails, SendData, Reset,
                EndLoop, at, TypeOK
  <2> QED BY <2>1 DEF Found
<1> QED BY <1>1, <1>2, <1>3, <1>4
        DEF Sender, SenderStep, pdu_in, harq_busy, HbWake, HbSpurious

LEMMA FoundReceiver ==
    ASSUME TypeOK, NEW u \in Rnti, Heads(u), Found(u),
           DueFeedback(u) \/ Apply(u)
    PROVE  Found(u)'
<1>1. CASE AckRecv(u)
  <2> DEFINE p == ack_reply[u].ACK_pid
  <2>1. /\ p \in Pid
        /\ busy_index' = [busy_index EXCEPT ![u][p] = FALSE]
        /\ UNCHANGED <<pdu_q, pc, payload_back>>
        /\ p \in ReceiverHas(u)
    BY <1>1 DEF AckRecv, TypeOK, ReceiverHas
  <2>2. ~isempty(pdu_q[u][p])
    BY <2>1 DEF Heads
  <2>3. p \in Ready(u)'
    BY <2>1, <2>2 DEF Ready, Idle, TypeOK
  <2> QED BY <2>1, <2>3 DEF Found
<1>2. CASE DueFeedback(u) \/ LockAck(u) \/ SetAck(u)
  <2>1. UNCHANGED <<busy_index, pdu_q, pc, payload_back>>
    BY <1>2 DEF DueFeedback, RecvDue, Recv, LockAck, SetAck, entityVars,
                sendVars
  <2> QED BY <2>1 DEF Found, Ready, Idle, Busy
<1> QED BY <1>1, <1>2 DEF Apply

(***************************************************************************)
(* If the multiplexer always returns a PDU and every transmission is       *)
(* answered at most once, the two scans that run under busy_LOCK find a    *)
(* process: pdu_in one that is not busy, since busy_num counts exactly,    *)
(* and harq_busy one with a PDU, since a process that is freed still has   *)
(* the PDU it transmitted.                                                 *)
(***************************************************************************)
THEOREM ScansFind ==
    ASSUME ~PduGetMayFail
    PROVE  SpecDue => []ScanFinds
<1> DEFINE Inv == \A u \in Rnti : Found(u)
<1>1. Init => Inv
  BY DEF Init, Found
<1>2. Known /\ (\A u \in Rnti : Heads(u)) /\ Inv /\ [NextDue]_vars => Inv'
  <2> SUFFICES ASSUME Known, \A u \in Rnti : Heads(u), Inv, [NextDue]_vars,
                      NEW v \in Rnti
               PROVE  Found(v)'
    OBVIOUS
  <2>1. ASSUME NEW u \in Rnti, DueStep(u)
        PROVE  Found(v)'
    BY <2>1, FoundSender, FoundReceiver, OtherFound DEF DueStep, Known, OwnInv
  <2>2. CASE UNCHANGED vars
    <3>1. UNCHANGED <<busy_index, pdu_q, pc, payload_back>>
      BY <2>2 DEF vars, entityVars, sendVars
    <3> QED BY <3>1 DEF Found, Ready, Idle, Busy
  <2> QED BY <2>1, <2>2 DEF NextDue, DueStep
<1>3. Known /\ Inv => ScanFinds
  <2> SUFFICES ASSUME Known, NEW u \in Rnti, Found(u), busy_num[u] < HARQ_NUM
               PROVE  /\ pc[u] = "in_store" => Idle(u) # {}
                      /\ pc[u] = "hb_test" => Ready(u) # {}
    BY DEF ScanFinds
  <2> QED BY IdleLeft DEF Known, OwnInv, Found
<1> QED BY <1>1, <1>2, <1>3, KnownInvariant, HeadsInvariant, PTL DEF SpecDue

-----------------------------------------------------------------------------
(***************************************************************************)
(* The limit of transmissions, for an entity that has retrans_times[] for  *)
(* itself.  Nothing is assumed of the feedback: it may be lost, repeated   *)
(* or name any process.                                                    *)
(***************************************************************************)

\* Slot s of the ring of process p.
Stored(u, p, s) == pdu_q[u][p].packets[s]

\* No PDU is in two slots, and one that pdu_in has still to store is in none
\* and has not been sent.
Placed(u) ==
    /\ \A p, r \in Pid : \A s, t \in Slot :
         Stored(u, p, s) # NULL /\ Stored(u, p, s) = Stored(u, r, t)
           => p = r /\ s = t
    /\ payload_back[u] # NULL =>
         /\ aux_tx[u][payload_back[u]] = 0
         /\ \A p \in Pid, s \in Slot : Stored(u, p, s) # payload_back[u]

\* A head has been sent at most once more than the counter of its process says,
\* what is behind it has not been sent.
Counts(u) ==
    \A p \in Pid, s \in Slot :
      Stored(u, p, s) # NULL =>
        aux_tx[u][Stored(u, p, s)] <=
          IF s = pdu_q[u][p].rp THEN retrans_times[p] + 1 ELSE 0

\* The counter reaches the limit only for the moment before it is cleared.
BelowLimit(u) ==
    /\ \A p \in Pid :
         retrans_times[p] = retrans_limit => pc[u] = "tc_discard" /\ pid_now[u] = p
    /\ pc[u] = "tc_count" => tmp[u] = retrans_times[pid_now[u]]

\* What is about to be sent is a head, and the counter has counted this.
AboutToSend(u) ==
    pc[u] \in {"dci", "data"} /\ payload_tosend[u] # NULL =>
      /\ payload_tosend[u] = pop(pdu_q[u][pid_now[u]])
      /\ aux_tx[u][payload_tosend[u]] <= retrans_times[pid_now[u]]

SentAtMost(u) == \A d \in Pdu : aux_tx[u][d] <= retrans_limit

Limited(u) == Placed(u) /\ Counts(u) /\ BelowLimit(u) /\ AboutToSend(u) /\ SentAtMost(u)

\* What Limited(u) reads, but for the control of the sender.
Slots(u) == <<pdu_q[u], payload_back[u], aux_tx[u], retrans_times>>

-----------------------------------------------------------------------------

LEMMA RingParts ==
    ASSUME TypeOK, NEW u \in Rnti, NEW p \in Pid
    PROVE  /\ pdu_q[u][p].packets \in [Slot -> Pdu \cup {NULL}]
           /\ pdu_q[u][p].rp \in Slot /\ pdu_q[u][p].wp \in Slot
           /\ retrans_times[p] \in 0 .. retrans_limit
           /\ aux_tx[u] \in [Pdu -> 0 .. (retrans_limit + 1)]
BY DEF TypeOK, Ring

LEMMA StoredType ==
    ASSUME TypeOK, NEW u \in Rnti
    PROVE  \A p \in Pid, s \in Slot : Stored(u, p, s) \in Pdu \cup {NULL}
<1> TAKE p \in Pid, s \in Slot
<1>1. pdu_q[u][p].packets \in [Slot -> Pdu \cup {NULL}]
  BY RingParts
<1> QED BY <1>1 DEF Stored

LEMMA LimitedInit ==
    ASSUME Init, NEW u \in Rnti
    PROVE  Limited(u)
<1>1. \A p \in Pid, s \in Slot : Stored(u, p, s) = NULL
  BY DEF Init, Stored, flush
<1> QED BY <1>1 DEF Init, Limited, Placed, Counts, BelowLimit, AboutToSend,
                    SentAtMost, retrans_limit

\* Steps that change neither the rings nor the counts, and bring no PDU to send.
LEMMA LimitedControl ==
    ASSUME NEW u \in Rnti, Limited(u), UNCHANGED Slots(u),
           pc[u] # "tc_discard", pc'[u] # "tc_count",
           pc'[u] \in {"dci", "data"} =>
             /\ pc[u] \in {"dci", "data"}
             /\ UNCHANGED <<payload_tosend[u], pid_now[u]>>
    PROVE  Limited(u)'
<1>1. Placed(u)' /\ Counts(u)' /\ SentAtMost(u)'
  BY DEF Limited, Slots, Placed, Counts, SentAtMost, Stored
<1>2. BelowLimit(u)' /\ AboutToSend(u)'
  BY DEF Limited, Slots, BelowLimit, AboutToSend
<1> QED BY <1>1, <1>2 DEF Limited

\* Steps of the other thread.
LEMMA LimitedFrame ==
    ASSUME NEW u \in Rnti, Limited(u), UNCHANGED Slots(u),
           UNCHANGED <<pc[u], pid_now[u], payload_tosend[u], tmp[u]>>
    PROVE  Limited(u)'
<1>1. Placed(u)' /\ Counts(u)' /\ SentAtMost(u)'
  BY DEF Limited, Slots, Placed, Counts, SentAtMost, Stored
<1>2. BelowLimit(u)' /\ AboutToSend(u)'
  BY DEF Limited, Slots, BelowLimit, AboutToSend
<1> QED BY <1>1, <1>2 DEF Limited

\* The multiplexer's PDU is new, or there is none.
LEMMA LimitedPduGet ==
    ASSUME TypeOK, NEW u \in Rnti, Limited(u),
           NEW d \in Pdu \cup {NULL}, PduGet(u, d)
    PROVE  Limited(u)'
<1>1. /\ pc[u] = "poll" /\ pc'[u] = "in_lock"
      /\ UNCHANGED <<pdu_q, retrans_times, pid_now, payload_tosend, tmp>>
  BY DEF PduGet, at, entityVars, staticVars, TypeOK
<1>2. /\ payload_back'[u] = d
      /\ d # NULL => d \notin InUse(u)
      /\ aux_tx'[u] = IF d = NULL THEN aux_tx[u] ELSE [aux_tx[u] EXCEPT ![d] = 0]
  <2>1. CASE d = NULL
    BY <2>1, QbuffAssumption DEF PduGet, TypeOK
  <2>2. CASE d # NULL
    BY <2>2, QbuffAssumption DEF PduGet, Forget, TypeOK
  <2> QED BY <2>1, <2>2
<1>3. \A p \in Pid, s \in Slot : Stored(u, p, s)' = Stored(u, p, s)
  BY <1>1 DEF Stored
<1>4. d # NULL => \A p \in Pid, s \in Slot : Stored(u, p, s) # d
  BY <1>2 DEF InUse, Stored
<1>5. /\ aux_tx[u] \in [Pdu -> 0 .. (retrans_limit + 1)]
      /\ \A p \in Pid, s \in Slot : Stored(u, p, s) \in Pdu \cup {NULL}
  BY StoredType DEF TypeOK
<1>6. /\ d # NULL => aux_tx'[u][d] = 0
      /\ \A e \in Pdu : e # d => aux_tx'[u][e] = aux_tx[u][e]
  BY <1>2, <1>5
<1>7. Placed(u)'
  BY <1>2, <1>3, <1>4, <1>6 DEF Limited, Placed
<1>8. Counts(u)'
  BY <1>1, <1>3, <1>4, <1>5, <1>6 DEF Limited, Counts
<1>9. SentAtMost(u)'
  BY <1>6, QbuffAssumption DEF Limited, SentAtMost, retrans_limit
<1>10. BelowLimit(u)' /\ AboutToSend(u)'
  BY <1>1 DEF Limited, BelowLimit, AboutToSend
<1> QED BY <1>7, <1>8, <1>9, <1>10 DEF Limited

\* A PDU goes behind the ones that are stored, unsent.
LEMMA LimitedInStore ==
    ASSUME TypeOK, NEW u \in Rnti, Limited(u), InStore(u)
    PROVE  Limited(u)'
<1> DEFINE r == StorePid(u)
           d == payload_back[u]
<1>1. r \in Pid
  BY StorePidType DEF InStore
<1>2. /\ pc[u] = "in_store" /\ pc'[u] \in {"in_rewind", "hb_lock"}
      /\ payload_back'[u] = NULL
      /\ UNCHANGED <<retrans_times, aux_tx>>
      /\ pdu_q' = IF d = NULL THEN pdu_q
                  ELSE [pdu_q EXCEPT ![u][r] = send(pdu_q[u][r], d)]
  BY DEF InStore, pdu_store, at, envVars, TypeOK
<1> HIDE DEF r
<1>3. BelowLimit(u)' /\ AboutToSend(u)'
  BY <1>2 DEF Limited, BelowLimit, AboutToSend
<1>4. CASE d = NULL \/ isfull(pdu_q[u][r])
  <2>1. pdu_q'[u] = pdu_q[u]
    BY <1>1, <1>2, <1>4 DEF send, TypeOK
  <2>2. \A p \in Pid, s \in Slot : Stored(u, p, s)' = Stored(u, p, s)
    BY <2>1 DEF Stored
  <2>3. Placed(u)' /\ Counts(u)' /\ SentAtMost(u)'
    BY <1>2, <2>1, <2>2 DEF Limited, Placed, Counts, SentAtMost
  <2> QED BY <1>3, <2>3 DEF Limited
<1>5. CASE d # NULL /\ ~isfull(pdu_q[u][r])
  <2>1. pdu_q'[u] = [pdu_q[u] EXCEPT ![r] = push(pdu_q[u][r], d)]
    BY <1>1, <1>2, <1>5 DEF send, TypeOK
  <2>2. \A p \in Pid : pdu_q'[u][p].rp = pdu_q[u][p].rp
    BY <1>1, <2>1 DEF push, TypeOK
  <2>3. \A p \in Pid, s \in Slot :
          Stored(u, p, s)' =
            IF p = r /\ s = pdu_q[u][r].wp THEN d ELSE Stored(u, p, s)
    BY <1>1, <2>1, RingParts DEF Stored, push, TypeOK
  <2>4. /\ aux_tx[u][d] = 0
        /\ \A p \in Pid, s \in Slot : Stored(u, p, s) # d
        /\ \A p \in Pid : retrans_times[p] + 1 >= 0
    BY <1>5, RingParts DEF Limited, Placed
  <2>5. Placed(u)'
    BY <1>2, <2>3, <2>4 DEF Limited, Placed
  <2>6. Counts(u)'
    BY <1>2, <2>2, <2>3, <2>4 DEF Limited, Counts
  <2>7. SentAtMost(u)'
    BY <1>2 DEF Limited, SentAtMost
  <2> QED BY <1>3, <2>5, <2>6, <2>7 DEF Limited
<1> QED BY <1>4, <1>5

\* What is behind a head that is dropped becomes the head, unsent.
LEMMA LimitedAdvance ==
    ASSUME TypeOK, NEW u \in Rnti, Limited(u), Advance(u),
           pc'[u] = "dci", UNCHANGED <<payload_back, pid_now>>,
           \A p \in Pid : \/ /\ retrans_times'[p] = retrans_times[p]
                             /\ retrans_times[p] < retrans_limit
                          \/ retrans_times'[p] = 0 /\ p = pid_now[u]
    PROVE  Limited(u)'
<1> DEFINE r == pid_now[u]
           q == pdu_q[u][r]
           d == pop(q)
<1>1. r \in Pid /\ q \in Ring /\ q.rp \in Slot
  BY DEF TypeOK, Ring
<1>2. /\ pdu_q'[u] = [pdu_q[u] EXCEPT ![r] = release(q)]
      /\ payload_tosend'[u] = pop(release(q))
      /\ aux_tx'[u] = [aux_tx[u] EXCEPT ![d] = 0]
  BY <1>1 DEF Advance, Forget, TypeOK
<1>3. d = Stored(u, r, q.rp)
  BY DEF Stored, pop
<1>4. \A p \in Pid, s \in Slot :
        Stored(u, p, s)' = IF p = r /\ s = q.rp THEN NULL ELSE Stored(u, p, s)
  BY <1>1, <1>2, RingParts DEF Stored, release, TypeOK
<1>5. pdu_q'[u][r] = release(q) /\ pdu_q'[u][r].rp \in Slot
  <2>1. pdu_q'[u][r] = release(q)
    BY <1>1, <1>2 DEF TypeOK
  <2>2. release(q) \in Ring
    BY <1>1, RingType
  <2> QED BY <2>1, <2>2 DEF Ring
<1>6. \A p \in Pid : p # r => pdu_q'[u][p] = pdu_q[u][p]
  BY <1>1, <1>2 DEF TypeOK
<1>7. /\ aux_tx[u] \in [Pdu -> 0 .. (retrans_limit + 1)]
      /\ \A p \in Pid, s \in Slot : Stored(u, p, s) \in Pdu \cup {NULL}
  BY StoredType DEF TypeOK
<1>8. \A e \in Pdu : aux_tx'[u][e] = IF e = d THEN 0 ELSE aux_tx[u][e]
  BY <1>2, <1>7
<1>9. payload_tosend'[u] = pop(pdu_q'[u][r])
  BY <1>2, <1>5
<1>10. \A p \in Pid : retrans_times'[p] \in Nat
  BY RingParts DEF retrans_limit
<1> HIDE DEF r, q, d
<1>11. Placed(u)'
  <2>1. payload_back[u] \in Pdu \cup {NULL}
    BY DEF TypeOK
  <2>2. payload_back[u] # NULL => aux_tx'[u][payload_back[u]] = 0
    BY <1>8, <2>1 DEF Limited, Placed
  <2>3. payload_back[u] # NULL =>
          \A p \in Pid, s \in Slot : Stored(u, p, s)' # payload_back[u]
    BY <1>4 DEF Limited, Placed
  <2>4. \A p, o \in Pid : \A s, t \in Slot :
          Stored(u, p, s)' # NULL /\ Stored(u, p, s)' = Stored(u, o, t)'
            => p = o /\ s = t
    BY <1>4 DEF Limited, Placed
  <2> QED BY <2>2, <2>3, <2>4 DEF Placed
<1>12. \A p \in Pid, s \in Slot :
         Stored(u, p, s)' # NULL =>
           /\ Stored(u, p, s)' \in Pdu
           /\ p = r => s # q.rp /\ aux_tx'[u][Stored(u, p, s)'] = 0
           /\ p # r =>
                aux_tx'[u][Stored(u, p, s)'] <=
                  IF s = pdu_q[u][p].rp THEN retrans_times[p] + 1 ELSE 0
  <2> SUFFICES ASSUME NEW p \in Pid, NEW s \in Slot, Stored(u, p, s)' # NULL
               PROVE  /\ Stored(u, p, s)' \in Pdu
                      /\ p = r => s # q.rp /\ aux_tx'[u][Stored(u, p, s)'] = 0
                      /\ p # r =>
                           aux_tx'[u][Stored(u, p, s)'] <=
                             IF s = pdu_q[u][p].rp THEN retrans_times[p] + 1 ELSE 0
    OBVIOUS
  <2>1. Stored(u, p, s)' = Stored(u, p, s) /\ ~(p = r /\ s = q.rp)
    BY <1>4
  <2>2. Stored(u, p, s) \in Pdu
    BY <1>7, <2>1
  <2>3. aux_tx[u][Stored(u, p, s)] <=
          IF s = pdu_q[u][p].rp THEN retrans_times[p] + 1 ELSE 0
    BY <2>1 DEF Limited, Counts
  <2>4. aux_tx'[u][Stored(u, p, s)] \in {0, aux_tx[u][Stored(u, p, s)]}
    BY <1>8, <2>2
  <2>5. aux_tx[u][Stored(u, p, s)] \in Nat /\ retrans_times[p] \in Nat
    BY <1>7, <2>2, RingParts
  <2>6. q.rp = pdu_q[u][r].rp
    BY DEF q
  <2> QED BY <2>1, <2>2, <2>3, <2>4, <2>5, <2>6
<1>13. Counts(u)'
  <2> SUFFICES ASSUME NEW p \in Pid, NEW s \in Slot, Stored(u, p, s)' # NULL
               PROVE  aux_tx'[u][Stored(u, p, s)'] <=
                        IF s = pdu_q'[u][p].rp THEN retrans_times'[p] + 1 ELSE 0
    BY DEF Counts
  <2>1. CASE p = r
    BY <1>10, <1>12, <2>1
  <2>2. CASE p # r
    <3>1. pdu_q'[u][p] = pdu_q[u][p]
      BY <1>6, <2>2
    <3>2. retrans_times'[p] = retrans_times[p]
      BY <2>2 DEF r
    <3> QED BY <1>12, <2>2, <3>1, <3>2
  <2> QED BY <2>1, <2>2
<1>14. AboutToSend(u)'
  <2> SUFFICES ASSUME payload_tosend'[u] # NULL
               PROVE  aux_tx'[u][payload_tosend'[u]] <= retrans_times'[pid_now[u]]
    BY <1>9 DEF AboutToSend, r
  <2>0. pdu_q'[u][r].rp \in Slot /\ r \in Pid
    BY <1>1, <1>5
  <2>1. payload_tosend'[u] = pdu_q'[u][r].packets[pdu_q'[u][r].rp]
    BY <1>9 DEF pop
  <2>2. \A s \in Slot :
          pdu_q'[u][r].packets[s] # NULL => aux_tx'[u][pdu_q'[u][r].packets[s]] = 0
    BY <2>0, <1>12 DEF Stored
  <2>3. aux_tx'[u][payload_tosend'[u]] = 0
    BY <2>0, <2>1, <2>2
  <2> QED BY <2>0, <1>10, <2>3 DEF r
<1>15. SentAtMost(u)'
  BY <1>8, QbuffAssumption DEF Limited, SentAtMost, retrans_limit
<1>16. BelowLimit(u)'
  BY DEF BelowLimit, retrans_limit
<1> QED BY <1>11, <1>13, <1>14, <1>15, <1>16 DEF Limited

LEMMA LimitedAcked ==
    ASSUME TypeOK, NEW u \in Rnti, Limited(u), TcAcked(u)
    PROVE  Limited(u)'
<1>1. /\ Advance(u) /\ pc'[u] = "dci"
      /\ UNCHANGED <<payload_back, pid_now, retrans_times>>
  BY DEF TcAcked, at, staticVars, TypeOK
<1>2. \A p \in Pid : retrans_times[p] < retrans_limit
  <2> TAKE p \in Pid
  <2>1. retrans_times[p] # retrans_limit
    BY DEF Limited, BelowLimit, TcAcked
  <2> QED BY <2>1, RingParts DEF retrans_limit
<1> QED BY <1>1, <1>2, LimitedAdvance

LEMMA LimitedDiscard ==
    ASSUME TypeOK, NEW u \in Rnti, Limited(u), TcDiscard(u)
    PROVE  Limited(u)'
<1>1. /\ Advance(u) /\ pc[u] = "tc_discard" /\ pc'[u] = "dci"
      /\ UNCHANGED <<payload_back, pid_now>>
      /\ retrans_times' = [retrans_times EXCEPT ![pid_now[u]] = 0]
  BY DEF TcDiscard, at, TypeOK
<1>2. \A p \in Pid : \/ /\ retrans_times'[p] = retrans_times[p]
                        /\ retrans_times[p] < retrans_limit
                     \/ retrans_times'[p] = 0 /\ p = pid_now[u]
  <2> TAKE p \in Pid
  <2>1. CASE p = pid_now[u]
    BY <1>1, <2>1 DEF TypeOK
  <2>2. CASE p # pid_now[u]
    <3>1. retrans_times[p] # retrans_limit
      BY <2>2 DEF Limited, BelowLimit
    <3>2. retrans_times[p] \in 0 .. 3
      BY RingParts DEF retrans_limit
    <3>3. retrans_times'[p] = retrans_times[p]
      BY <1>1, <2>2 DEF TypeOK
    <3> QED BY <3>1, <3>2, <3>3 DEF retrans_limit
  <2> QED BY <2>1, <2>2
<1> QED BY <1>1, <1>2, LimitedAdvance

\* The counter is loaded: it is below the limit.
LEMMA LimitedNacked ==
    ASSUME TypeOK, NEW u \in Rnti, Limited(u), TcNacked(u)
    PROVE  Limited(u)'
<1>1. /\ pc[u] = "tc_lock" /\ pc'[u] = "tc_count"
      /\ tmp'[u] = retrans_times[pid_now[u]]
      /\ UNCHANGED <<pdu_q, payload_back, aux_tx, retrans_times, pid_now>>
  BY DEF TcNacked, at, entityVars, staticVars, envVars, TypeOK
<1>2. Placed(u)' /\ Counts(u)' /\ SentAtMost(u)'
  BY <1>1 DEF Limited, Placed, Counts, SentAtMost, Stored
<1>3. BelowLimit(u)' /\ AboutToSend(u)'
  BY <1>1 DEF Limited, BelowLimit, AboutToSend
<1> QED BY <1>2, <1>3 DEF Limited

\* The counter of pid_now goes up by one.
LEMMA LimitedCount ==
    ASSUME TypeOK, NEW u \in Rnti, Limited(u), TcRetransmit(u) \/ TcOverflow(u)
    PROVE  Limited(u)'
<1> DEFINE r == pid_now[u]
<1>1. /\ pc[u] = "tc_count" /\ r \in Pid
      /\ UNCHANGED <<pdu_q, payload_back, aux_tx, pid_now>>
      /\ retrans_times' = [retrans_times EXCEPT ![r] = incr(tmp[u])]
      /\ \/ /\ pc'[u] = "dci" /\ incr(tmp[u]) < retrans_limit
            /\ payload_tosend'[u] = pop(pdu_q[u][r])
         \/ pc'[u] = "tc_discard"
  BY DEF TcRetransmit, TcOverflow, at, entityVars, envVars, TypeOK
<1>2. /\ tmp[u] = retrans_times[r]
      /\ \A p \in Pid : retrans_times[p] \in 0 .. 2
  <2>1. \A p \in Pid : retrans_times[p] # retrans_limit
    BY <1>1 DEF Limited, BelowLimit
  <2>2. \A p \in Pid : retrans_times[p] \in 0 .. 3
    BY RingParts DEF retrans_limit
  <2> QED BY <1>1, <2>1, <2>2 DEF Limited, BelowLimit, retrans_limit
<1>3. \A p \in Pid :
        retrans_times'[p] = IF p = r THEN retrans_times[r] + 1 ELSE retrans_times[p]
  <2>1. incr(tmp[u]) = retrans_times[r] + 1
    BY <1>1, <1>2 DEF incr, retrans_limit
  <2>2. retrans_times' = [retrans_times EXCEPT ![r] = retrans_times[r] + 1]
    BY <1>1, <2>1
  <2>3. retrans_times \in [Pid -> 0 .. retrans_limit]
    BY DEF TypeOK
  <2> HIDE DEF r
  <2> QED BY <2>2, <2>3
<1>4. Stored(u, r, pdu_q[u][r].rp) = pop(pdu_q[u][r]) /\ pdu_q[u][r].rp \in Slot
  BY <1>1, RingParts DEF Stored, pop
<1>5. \A d \in Pdu : aux_tx[u][d] \in Nat
  BY RingParts, <1>1 DEF retrans_limit
<1> HIDE DEF r
<1>6. Placed(u)' /\ SentAtMost(u)'
  BY <1>1 DEF Limited, Placed, SentAtMost, Stored
<1>7. Counts(u)'
  <2>1. \A p \in Pid, s \in Slot : Stored(u, p, s)' = Stored(u, p, s)
    BY <1>1 DEF Stored
  <2>2. SUFFICES ASSUME NEW p \in Pid, NEW s \in Slot, Stored(u, p, s) # NULL
                 PROVE  aux_tx[u][Stored(u, p, s)] <=
                          IF s = pdu_q[u][p].rp THEN retrans_times'[p] + 1 ELSE 0
    BY <1>1, <2>1 DEF Counts
  <2>3. aux_tx[u][Stored(u, p, s)] <=
          IF s = pdu_q[u][p].rp THEN retrans_times[p] + 1 ELSE 0
    BY <2>2 DEF Limited, Counts
  <2>4. aux_tx[u][Stored(u, p, s)] \in Nat
    BY <1>5, <2>2, StoredType
  <2> QED BY <1>1, <1>2, <1>3, <2>3, <2>4
<1>8. BelowLimit(u)'
  <2>1. CASE pc'[u] = "tc_discard"
    BY <1>1, <1>2, <1>3, <2>1 DEF BelowLimit, retrans_limit, r
  <2>2. CASE pc'[u] = "dci" /\ incr(tmp[u]) < retrans_limit
    BY <1>1, <1>2, <1>3, <2>2 DEF BelowLimit, incr, retrans_limit
  <2> QED BY <1>1, <2>1, <2>2
<1>9. AboutToSend(u)'
  <2>1. CASE pc'[u] = "tc_discard"
    BY <2>1 DEF AboutToSend
  <2>2. CASE pc'[u] = "dci" /\ payload_tosend'[u] = pop(pdu_q[u][r])
    <3>1. payload_tosend'[u] # NULL =>
            aux_tx[u][payload_tosend'[u]] <= retrans_times[r] + 1
      BY <1>1, <1>4, <2>2 DEF Limited, Counts
    <3> QED BY <1>1, <1>3, <2>2, <3>1 DEF AboutToSend, r
  <2> QED BY <1>1, <2>1, <2>2
<1> QED BY <1>6, <1>7, <1>8, <1>9 DEF Limited

\* The head goes out; the counter has counted it already.
LEMMA LimitedSendData ==
    ASSUME TypeOK, NEW u \in Rnti, Limited(u), SendData(u),
           payload_tosend[u] # NULL
    PROVE  Limited(u)'
<1> DEFINE r == pid_now[u]
           d == payload_tosend[u]
<1>1. /\ pc[u] = "data" /\ pc'[u] = "poll" /\ r \in Pid /\ d \in Pdu
      /\ UNCHANGED <<pdu_q, payload_back, retrans_times>>
  BY DEF SendData, EndLoop, at, entityVars, staticVars, TypeOK
<1>2. d = Stored(u, r, pdu_q[u][r].rp) /\ aux_tx[u][d] <= retrans_times[r]
  BY <1>1 DEF Limited, AboutToSend, Stored, pop
<1>3. /\ \A p \in Pid : retrans_times[p] \in 0 .. 2
      /\ \A e \in Pdu : aux_tx[u][e] \in Nat
  <2>1. \A p \in Pid : retrans_times[p] # retrans_limit
    BY <1>1 DEF Limited, BelowLimit
  <2>2. \A p \in Pid : retrans_times[p] \in 0 .. 3
    BY RingParts DEF retrans_limit
  <2> QED BY <1>1, <2>1, <2>2, RingParts DEF retrans_limit
<1>4. \A e \in Pdu : aux_tx'[u][e] = IF e = d THEN aux_tx[u][d] + 1 ELSE aux_tx[u][e]
  <2>1. ~(aux_tx[u][d] > retrans_limit)
    BY <1>1, <1>2, <1>3 DEF retrans_limit
  <2>2. aux_tx' = [aux_tx EXCEPT ![u][d] = aux_tx[u][d] + 1]
    BY <2>1 DEF SendData
  <2>3. aux_tx \in [Rnti -> [Pdu -> 0 .. (retrans_limit + 1)]]
    BY DEF TypeOK
  <2> HIDE DEF d, r
  <2> QED BY <1>1, <2>2, <2>3
<1>5. pdu_q[u][r].rp \in Slot
  BY <1>1, RingParts
<1> HIDE DEF r, d
<1>6. \A p \in Pid, s \in Slot : Stored(u, p, s)' = Stored(u, p, s)
  BY <1>1 DEF Stored
<1>7. Placed(u)'
  <2>1. payload_back[u] # NULL => payload_back[u] # d /\ payload_back[u] \in Pdu
    BY <1>1, <1>2, <1>5 DEF Limited, Placed, TypeOK
  <2> QED BY <1>1, <1>4, <1>6, <2>1 DEF Limited, Placed
<1>8. Counts(u)'
  <2> SUFFICES ASSUME NEW p \in Pid, NEW s \in Slot, Stored(u, p, s) # NULL
               PROVE  aux_tx'[u][Stored(u, p, s)] <=
                        IF s = pdu_q[u][p].rp THEN retrans_times[p] + 1 ELSE 0
    BY <1>1, <1>6 DEF Counts
  <2>1. Stored(u, p, s) \in Pdu
    BY StoredType
  <2>2. CASE Stored(u, p, s) = d
    <3>1. p = r /\ s = pdu_q[u][r].rp
      BY <1>1, <1>2, <1>5, <2>2 DEF Limited, Placed
    <3> QED BY <1>1, <1>2, <1>3, <1>4, <2>2, <3>1
  <2>3. CASE Stored(u, p, s) # d
    <3>1. aux_tx'[u][Stored(u, p, s)] = aux_tx[u][Stored(u, p, s)]
      BY <1>4, <2>1, <2>3
    <3> QED BY <3>1 DEF Limited, Counts
  <2> QED BY <2>2, <2>3
<1>9. SentAtMost(u)'
  BY <1>1, <1>2, <1>3, <1>4 DEF Limited, SentAtMost, retrans_limit
<1>10. BelowLimit(u)' /\ AboutToSend(u)'
  BY <1>1 DEF Limited, BelowLimit, AboutToSend
<1> QED BY <1>7, <1>8, <1>9, <1>10 DEF Limited

-----------------------------------------------------------------------------

\* A step of the sender.
LEMMA LimitedSender ==
    ASSUME TypeOK, NEW u \in Rnti, Limited(u), Sender(u)
    PROVE  Limited(u)'
<1> USE DEF at, Slots, entityVars, staticVars, envVars
<1>1. CASE \E d \in Pdu \cup {NULL} : PduGet(u, d)
  BY <1>1, LimitedPduGet
<1>2. CASE InLock(u)
  BY <1>2, LimitedControl DEF InLock, TypeOK
<1>3. CASE InStore(u)
  BY <1>3, LimitedInStore
<1>4. CASE InRewind(u)
  BY <1>4, LimitedControl DEF InRewind, TypeOK
<1>5. CASE HbLock(u)
  BY <1>5, LimitedControl DEF HbLock, TypeOK
<1>6. CASE HbWait(u)
  BY <1>6, LimitedControl DEF HbWait, TypeOK
<1>7. CASE HbReturn(u)
  BY <1>7, LimitedControl DEF HbReturn, TypeOK
<1>8. CASE HbScan(u)
  BY <1>8, LimitedControl DEF HbScan, TypeOK
<1>9. CASE TcAcked(u)
  BY <1>9, LimitedAcked
<1>10. CASE TcNacked(u)
  BY <1>10, LimitedNacked
<1>11. CASE TcRetransmit(u) \/ TcOverflow(u)
  BY <1>11, LimitedCount
<1>12. CASE TcDiscard(u)
  BY <1>12, LimitedDiscard
<1>13. CASE SendDci(u)
  BY <1>13, LimitedControl DEF SendDci, TypeOK
<1>14. CASE SendFails(u)
  BY <1>14, LimitedControl DEF SendFails, TypeOK
<1>15. CASE SendData(u) /\ payload_tosend[u] # NULL
  BY <1>15, LimitedSendData
<1>16. CASE SendData(u) /\ payload_tosend[u] = NULL
  <2>1. NULL \notin Pdu /\ aux_tx[u] \in [Pdu -> 0 .. (retrans_limit + 1)]
    BY QbuffAssumption DEF TypeOK
  <2>2. aux_tx'[u] = aux_tx[u]
    BY <1>16, <2>1 DEF SendData, TypeOK
  <2> QED BY <1>16, <2>2, LimitedControl DEF SendData, EndLoop, TypeOK
<1>17. CASE Reset(u)
  BY <1>17, LimitedControl DEF Reset, EndLoop, TypeOK
<1> QED
  BY <1>1, <1>2, <1>3, <1>4, <1>5, <1>6, <1>7, <1>8, <1>9, <1>10, <1>11,
     <1>12, <1>13, <1>14, <1>15, <1>16, <1>17
     DEF Sender, SenderStep, pdu_in, harq_busy, trans_control, HbWake, HbSpurious

\* A step of the receiver.
LEMMA LimitedReceiver ==
    ASSUME NEW u \in Rnti, Limited(u), AnyFeedback(u) \/ Apply(u)
    PROVE  Limited(u)'
<1> USE DEF Slots, entityVars, staticVars, sendVars, envVars
<1>1. CASE AnyFeedback(u)
  BY <1>1, LimitedFrame DEF AnyFeedback, Recv
<1>2. CASE LockAck(u)
  BY <1>2, LimitedFrame DEF LockAck
<1>3. CASE AckRecv(u)
  BY <1>3, LimitedFrame DEF AckRecv
<1>4. CASE SetAck(u)
  BY <1>4, LimitedFrame DEF SetAck
<1> QED BY <1>1, <1>2, <1>3, <1>4 DEF Apply

LEMMA LimitedStutter ==
    ASSUME NEW u \in Rnti, Limited(u), UNCHANGED vars
    PROVE  Limited(u)'
BY LimitedFrame DEF vars, Slots, entityVars, staticVars, sendVars, envVars

(***************************************************************************)
(* An entity alone never sends a PDU more often than retrans_limit, even   *)
(* if feedback is lost, repeated or names any process, and although an ACK *)
(* does not clear the counter, which the next PDU of the process inherits. *)
(* With a second entity, which counts in the same retrans_times[], the     *)
(* run shared_count shows that it does not hold (FX_MAC.h:171).            *)
(***************************************************************************)
THEOREM AloneTransmissionsBounded ==
    ASSUME NEW self, Rnti = {self}
    PROVE  Spec => []TransmissionsBounded
<1> DEFINE Inv == Limited(self)
<1>1. self \in Rnti
  OBVIOUS
<1>2. Init => Inv
  BY <1>1, LimitedInit
<1>3. TypeOK /\ Inv /\ [Next]_vars => Inv'
  <2> SUFFICES ASSUME TypeOK, Inv, [Next]_vars PROVE Inv'
    OBVIOUS
  <2>1. CASE Next
    <3>1. Sender(self) \/ AnyFeedback(self) \/ Apply(self)
      BY <2>1 DEF Next
    <3> QED BY <1>1, <3>1, LimitedSender, LimitedReceiver
  <2>2. CASE UNCHANGED vars
    BY <1>1, <2>2, LimitedStutter
  <2> QED BY <2>1, <2>2
<1>4. Inv => TransmissionsBounded
  BY DEF Limited, SentAtMost, TransmissionsBounded
<1> HIDE DEF Inv
<1> QED BY <1>2, <1>3, <1>4, TypeCorrect, PTL DEF Spec

-----------------------------------------------------------------------------
(***************************************************************************)
(* The entities composed with the sockets and the UE still behave as the   *)
(* entities do under arbitrary feedback, so that what is proved of Spec    *)
(* holds across the network, with or without loss.  And busy_num counts    *)
(* what is still to come back across it.                                   *)
(***************************************************************************)

Feedback == [ACK_pid : Pid, ack_0 : BOOLEAN]

\* Taking a datagram from a socket and putting one in.
LEMMA SocketType ==
    ASSUME NEW D, NEW s \in Seq(D)
    PROVE  /\ \A d \in D : Append(s, d) \in Seq(D)
           /\ s # <<>> => Head(s) \in D /\ Tail(s) \in Seq(D)
BY AppendProperties, HeadTailProperties

\* Every step of the composition is a step of the entities or leaves them
\* alone: the feedback the UE sends names one of the HARQ_NUM processes.
LEMMA LinkStepIsEntityStep ==
    ASSUME LinkTypeOK, [LinkNext]_allVars
    PROVE  [Next]_vars
<1>1. ASSUME NEW u \in Rnti, LinkLocal(u)
      PROVE  Next
  BY <1>1 DEF LinkLocal, Next, Sender, SenderStep
<1>2. ASSUME NEW u \in Rnti, LinkSendDci(u) \/ LinkSendData(u)
      PROVE  Next
  BY <1>2 DEF LinkSendDci, LinkSendData, Next, Sender, SenderStep
<1>3. ASSUME NEW u \in Rnti, LinkRecv(u)
      PROVE  Next
  <2>1. Head(ack[u]) \in Feedback
    BY <1>3, SocketType DEF LinkRecv, LinkTypeOK, Feedback
  <2>2. AnyFeedback(u)
    BY <1>3, <2>1 DEF LinkRecv, AnyFeedback, Feedback
  <2> QED BY <2>2 DEF Next
<1>4. ASSUME NEW u \in Rnti, UeDci(u) \/ UeData(u) \/ Lose(u)
      PROVE  UNCHANGED vars
  BY <1>4 DEF UeDci, UeData, Lose
<1> QED BY <1>1, <1>2, <1>3, <1>4 DEF LinkNext, allVars

\* The sockets and the UE.
LinkRest ==
    /\ dci \in [Rnti -> Seq(Pid)]
    /\ data \in [Rnti -> Seq(Datagram)]
    /\ ack \in [Rnti -> Seq(Feedback)]
    /\ ue_pc \in [Rnti -> {"dci", "data"}]
    /\ ue_dci \in [Rnti -> Pid]
    /\ k \in [Rnti -> 0 .. (K_WRAP - 1)]
    /\ aux_lost \in BOOLEAN

\* The datagram of SendData: the sender has a PDU in hand.
DataInHand == \A u \in Rnti : pc[u] = "data" => payload_tosend[u] # NULL

LEMMA DataInHandStep ==
    ASSUME TypeOK, DataInHand, [Next]_vars
    PROVE  DataInHand'
<1> SUFFICES ASSUME NEW v \in Rnti, pc'[v] = "data"
             PROVE  payload_tosend'[v] # NULL
  BY DEF DataInHand
<1>1. ASSUME NEW u \in Rnti, Sender(u)
      PROVE  payload_tosend'[v] # NULL
  BY <1>1
     DEF DataInHand, Sender, PduGet, SenderStep, pdu_in, InLock,
         InStore, InRewind, harq_busy, HbLock, HbWait, HbWake, HbReturn,
         HbScan, trans_control, TcAcked, TcNacked, TcRetransmit, TcOverflow,
         TcDiscard, Advance, SendDci, SendData, Reset, EndLoop, SendFails,
         HbSpurious, at, TypeOK
<1>2. ASSUME NEW u \in Rnti, AnyFeedback(u) \/ Apply(u)
      PROVE  UNCHANGED <<pc, payload_tosend>>
  BY <1>2 DEF AnyFeedback, Recv, Apply, LockAck, AckRecv, SetAck, sendVars
<1>3. CASE UNCHANGED vars
  BY <1>3 DEF DataInHand, vars, sendVars
<1> QED BY <1>1, <1>2, <1>3 DEF Next, DataInHand

LEMMA LinkRestStep ==
    ASSUME LinkTypeOK, DataInHand, [LinkNext]_allVars
    PROVE  LinkRest'
<1> USE DEF LinkTypeOK, Feedback
<1>1. LinkRest
  BY DEF LinkRest
<1>2. ASSUME NEW u \in Rnti, LinkSendDci(u)
      PROVE  LinkRest'
  <2>1. Append(dci[u], pid_now[u]) \in Seq(Pid)
    BY SocketType DEF TypeOK
  <2> QED BY <1>1, <1>2, <2>1 DEF LinkSendDci, LinkRest
<1>3. ASSUME NEW u \in Rnti, LinkSendData(u)
      PROVE  LinkRest'
  <2> DEFINE sent == [pdu |-> payload_tosend[u], aux_pid |-> pid_now[u]]
  <2>1. sent \in Datagram
    BY <1>3 DEF LinkSendData, SendData, DataInHand, TypeOK, Datagram
  <2> HIDE DEF sent
  <2>2. Append(data[u], sent) \in Seq(Datagram)
    BY <2>1, SocketType
  <2> USE DEF sent
  <2> QED BY <1>1, <1>3, <2>2 DEF LinkSendData, LinkRest
<1>4. ASSUME NEW u \in Rnti, LinkRecv(u)
      PROVE  LinkRest'
  <2>1. Tail(ack[u]) \in Seq(Feedback)
    BY <1>4, SocketType DEF LinkRecv
  <2> QED BY <1>1, <1>4, <2>1 DEF LinkRecv, LinkRest
<1>5. ASSUME NEW u \in Rnti, UeDci(u)
      PROVE  LinkRest'
  <2>1. Head(dci[u]) \in Pid /\ Tail(dci[u]) \in Seq(Pid)
    BY <1>5, SocketType DEF UeDci
  <2> QED BY <1>1, <1>5, <2>1 DEF UeDci, LinkRest
<1>6. ASSUME NEW u \in Rnti, UeData(u)
      PROVE  LinkRest'
  <2> DEFINE f == [ACK_pid |-> ue_dci[u], ack_0 |-> ack_0(k[u])]
             n == k[u] + 1
  <2>1. f \in Feedback
    BY DEF ack_0
  <2>2. n \in Nat /\ K_WRAP \in Nat /\ K_WRAP > 0 /\ 0 \in Pid
    BY LinkAssumption, HarqAssumption DEF Pid
  <2> HIDE DEF f, n
  <2>3. Append(ack[u], f) \in Seq(Feedback)
    BY <2>1, SocketType
  <2>4. Tail(data[u]) \in Seq(Datagram)
    BY <1>6, SocketType DEF UeData
  <2>5. n % K_WRAP \in 0 .. (K_WRAP - 1)
    BY <2>2
  <2>6. /\ ack' = [ack EXCEPT ![u] = Append(@, f)]
        /\ data' = [data EXCEPT ![u] = Tail(@)]
        /\ k' = [k EXCEPT ![u] = n % K_WRAP]
        /\ ue_dci' = [ue_dci EXCEPT ![u] = 0]
        /\ ue_pc' = [ue_pc EXCEPT ![u] = "dci"]
        /\ dci' = dci /\ aux_lost' = aux_lost
    BY <1>6 DEF UeData, next_k, f, n
  <2> QED BY <1>1, <2>2, <2>3, <2>4, <2>5, <2>6 DEF LinkRest
<1>7. ASSUME NEW u \in Rnti, Lose(u)
      PROVE  LinkRest'
  <2>1. /\ dci[u] # <<>> => Tail(dci[u]) \in Seq(Pid)
        /\ data[u] # <<>> => Tail(data[u]) \in Seq(Datagram)
        /\ ack[u] # <<>> => Tail(ack[u]) \in Seq(Feedback)
    BY SocketType
  <2> QED BY <1>1, <1>7, <2>1 DEF Lose, LinkRest
<1>8. ASSUME UNCHANGED linkVars
      PROVE  LinkRest'
  BY <1>1, <1>8 DEF linkVars, LinkRest
<1> QED BY <1>2, <1>3, <1>4, <1>5, <1>6, <1>7, <1>8
        DEF LinkNext, LinkLocal, allVars

LinkInv == LinkTypeOK /\ DataInHand

LEMMA LinkInvariant == LinkSpec => []LinkInv
<1>1. LinkInit => LinkInv
  <2> SUFFICES ASSUME LinkInit PROVE LinkInv
    OBVIOUS
  <2>1. TypeOK /\ DataInHand
    BY InitType DEF LinkInit, Init, DataInHand
  <2>2. 0 \in Pid /\ 0 \in 0 .. (K_WRAP - 1)
    BY HarqAssumption, LinkAssumption DEF Pid
  <2>3. /\ <<>> \in Seq(Pid) /\ <<>> \in Seq(Datagram)
        /\ <<>> \in Seq([ACK_pid : Pid, ack_0 : BOOLEAN])
    BY EmptySeq
  <2> QED BY <2>1, <2>2, <2>3 DEF LinkInit, LinkInv, LinkTypeOK
<1>2. LinkInv /\ [LinkNext]_allVars => LinkInv'
  <2> SUFFICES ASSUME LinkInv, [LinkNext]_allVars PROVE LinkInv'
    OBVIOUS
  <2>1. [Next]_vars
    BY LinkStepIsEntityStep DEF LinkInv
  <2>2. TypeOK'
    BY <2>1, SenderType, ReceiverType, StutterType
       DEF LinkInv, LinkTypeOK, Next
  <2>3. DataInHand' /\ LinkRest'
    BY <2>1, DataInHandStep, LinkRestStep DEF LinkInv, LinkTypeOK
  <2> QED BY <2>2, <2>3 DEF LinkInv, LinkTypeOK, LinkRest, Feedback
<1> QED BY <1>1, <1>2, PTL DEF LinkSpec

(***************************************************************************)
(* The sockets carry process numbers, PDUs and feedback; in particular     *)
(* every ACK names one of the HARQ_NUM processes.                          *)
(***************************************************************************)
THEOREM LinkTypeCorrect == LinkSpec => []LinkTypeOK
<1>1. LinkInv => LinkTypeOK
  BY DEF LinkInv
<1> QED BY <1>1, LinkInvariant, PTL

(***************************************************************************)
(* The composition implements the entities under arbitrary feedback: the   *)
(* network and the UE, losing datagrams or pairing PDUs with the wrong     *)
(* DCIs, do nothing to an entity that Spec does not allow.                 *)
(***************************************************************************)
THEOREM LinkImplementsEntity == LinkSpec => ImplementsEntity
<1>1. LinkInit => Init
  BY DEF LinkInit
<1>2. LinkInv /\ [LinkNext]_allVars => [Next]_vars
  BY LinkStepIsEntityStep DEF LinkInv
<1> QED BY <1>1, <1>2, LinkInvariant, PTL DEF LinkSpec, Spec, ImplementsEntity

(***************************************************************************)
(* Across a network that loses datagrams and a UE that answers for the     *)
(* wrong process, no ring is released when it is empty.                    *)
(***************************************************************************)
THEOREM LinkRingsKeepShape == LinkSpec => []RingsWellShaped
BY LinkImplementsEntity, RingsKeepShape, PTL DEF ImplementsEntity

-----------------------------------------------------------------------------
(* What busy_num counts across the network.                                *)

\* A thread has a process in hand, the sender a PDU whose DCI has gone out,
\* the UE a DCI.
InHand(u) ==
    IF pc[u] \in {"tc_lock", "tc_count", "tc_discard", "dci", "data", "reset"}
    THEN 1 ELSE 0

Answering(u) == IF rpc[u] \in {"ack_lock", "ack_busy"} THEN 1 ELSE 0

PduToFollow(u) == IF pc[u] = "data" THEN 1 ELSE 0

DciTaken(u) == IF ue_pc[u] = "data" THEN 1 ELSE 0

Due(u) == InHand(u) + Len(data[u]) + Len(ack[u]) + Answering(u)

\* A PDU whose DCI has gone out counts as a PDU: SendData puts it in the socket.
Counted(u) ==
    /\ busy_num[u] >= Due(u)
    /\ ~aux_lost =>
         /\ busy_num[u] = Due(u)
         /\ Len(data[u]) + PduToFollow(u) <= Len(dci[u]) + DciTaken(u)

CountInv == LinkInv /\ \A u \in Rnti : Counted(u)

LEMMA CountTypes ==
    ASSUME NEW u \in Rnti
    PROVE  /\ InHand(u) \in {0, 1} /\ Answering(u) \in {0, 1}
           /\ PduToFollow(u) \in {0, 1} /\ DciTaken(u) \in {0, 1}
           /\ InHand(u)' \in {0, 1} /\ Answering(u)' \in {0, 1}
           /\ PduToFollow(u)' \in {0, 1} /\ DciTaken(u)' \in {0, 1}
BY DEF InHand, Answering, PduToFollow, DciTaken

LEMMA SocketLengths ==
    ASSUME LinkTypeOK, NEW u \in Rnti
    PROVE  /\ Len(dci[u]) \in Nat /\ Len(data[u]) \in Nat /\ Len(ack[u]) \in Nat
           /\ busy_num[u] \in Nat
<1>1. dci[u] \in Seq(Pid) /\ data[u] \in Seq(Datagram) /\ ack[u] \in Seq(Feedback)
  BY DEF LinkTypeOK, Feedback
<1>2. busy_num[u] \in Nat
  BY HarqAssumption DEF LinkTypeOK, TypeOK
<1> QED BY <1>1, <1>2, LenProperties

\* The members of SenderHas and ReceiverHas are at most one each.
LEMMA HandsCounted ==
    ASSUME NEW u \in Rnti
    PROVE  /\ Cardinality(SenderHas(u)) = InHand(u)
           /\ Cardinality(ReceiverHas(u)) = Answering(u)
BY FS_EmptySet, FS_Singleton DEF SenderHas, ReceiverHas, InHand, Answering

\* A socket grows and shrinks by one.
LEMMA SocketSteps ==
    ASSUME NEW D, NEW s \in Seq(D)
    PROVE  /\ \A d \in D : Len(Append(s, d)) = Len(s) + 1
           /\ s # <<>> => Len(Tail(s)) = Len(s) - 1
BY AppendProperties, HeadTailProperties

\* What the threads of the other entities do is not seen here.
LEMMA CountedFrame ==
    ASSUME NEW v \in Rnti, Counted(v),
           UNCHANGED <<busy_num[v], pc[v], rpc[v], ue_pc[v], dci[v], data[v],
                       ack[v]>>,
           aux_lost => aux_lost'
    PROVE  Counted(v)'
BY DEF Counted, Due, InHand, Answering, PduToFollow, DciTaken

LEMMA OtherLinks ==
    ASSUME LinkTypeOK, NEW u \in Rnti, NEW v \in Rnti, v # u,
           \/ LinkLocal(u) \/ LinkSendDci(u) \/ LinkSendData(u) \/ LinkRecv(u)
           \/ UeDci(u) \/ UeData(u) \/ Lose(u)
    PROVE  /\ UNCHANGED <<busy_num[v], pc[v], rpc[v], ue_pc[v], dci[v], data[v],
                          ack[v]>>
           /\ aux_lost => aux_lost'
<1>1. CASE LinkLocal(u)
  <2>1. UNCHANGED <<busy_num[v], pc[v], rpc[v]>>
    BY <1>1, SMTT(150)
       DEF LinkLocal, PduGet, pdu_in, InLock, InStore, InRewind,
           harq_busy, HbLock, HbWait, HbWake, HbReturn, HbScan, trans_control,
           TcAcked, TcNacked, TcRetransmit, TcOverflow, TcDiscard, Reset,
           EndLoop, SendFails, HbSpurious, Apply, LockAck, AckRecv, SetAck, at,
           entityVars, sendVars, receVars, TypeOK, LinkTypeOK
  <2> QED BY <1>1, <2>1 DEF LinkLocal, linkVars
<1>2. CASE LinkSendDci(u) \/ LinkSendData(u)
  <2>1. /\ pc \in [Rnti -> SendPc] /\ dci \in [Rnti -> Seq(Pid)]
        /\ data \in [Rnti -> Seq(Datagram)]
    BY DEF TypeOK, LinkTypeOK
  <2>2. UNCHANGED <<busy_num, rpc, ue_pc, ack, aux_lost>>
    BY <1>2 DEF LinkSendDci, LinkSendData, SendDci, SendData, EndLoop,
                entityVars, receVars
  <2>3. pc'[v] = pc[v]
    BY <1>2, <2>1 DEF LinkSendDci, LinkSendData, SendDci, SendData, EndLoop, at
  <2>4. dci'[v] = dci[v] /\ data'[v] = data[v]
    BY <1>2, <2>1 DEF LinkSendDci, LinkSendData
  <2> QED BY <2>2, <2>3, <2>4
<1>3. CASE LinkRecv(u)
  BY <1>3 DEF LinkRecv, Recv, entityVars, sendVars, TypeOK, LinkTypeOK
<1>4. CASE UeDci(u) \/ UeData(u) \/ Lose(u)
  BY <1>4 DEF UeDci, UeData, Lose, vars, entityVars, sendVars, receVars,
              LinkTypeOK
<1> QED BY <1>1, <1>2, <1>3, <1>4

\* A PDU sent is one less to follow.
LEMMA FewerToFollow ==
    ASSUME NEW p \in Int, NEW pp \in Int, NEW d \in Int, NEW c \in Int,
           NEW t \in Int, pp <= p, d + p <= c + t
    PROVE  d + pp <= c + t
OBVIOUS

\* Without the sockets: busy_num follows the processes in hand.
LEMMA CountedLocal ==
    ASSUME LinkTypeOK, NEW u \in Rnti, Counted(u), LinkLocal(u)
    PROVE  Counted(u)'
<1>0. /\ InHand(u) \in {0, 1} /\ Answering(u) \in {0, 1}
      /\ PduToFollow(u) \in {0, 1} /\ DciTaken(u) \in {0, 1}
      /\ InHand(u)' \in {0, 1} /\ Answering(u)' \in {0, 1}
      /\ PduToFollow(u)' \in {0, 1} /\ DciTaken(u)' \in {0, 1}
      /\ Len(dci[u]) \in Nat /\ Len(data[u]) \in Nat /\ Len(ack[u]) \in Nat
      /\ busy_num[u] \in Nat
  BY CountTypes, SocketLengths
<1>1. UNCHANGED <<dci[u], data[u], ack[u], ue_pc[u], aux_lost>>
  BY DEF LinkLocal, linkVars
<1>2. DciTaken(u)' = DciTaken(u)
  BY <1>1 DEF DciTaken
<1>3. SUFFICES
        /\ busy_num'[u] - InHand(u)' - Answering(u)' =
             busy_num[u] - InHand(u) - Answering(u)
        /\ busy_num'[u] \in Int
        /\ PduToFollow(u)' <= PduToFollow(u)
  <2>1. /\ Due(u) = InHand(u) + Len(data[u]) + Len(ack[u]) + Answering(u)
        /\ Due(u)' = InHand(u)' + Len(data[u]) + Len(ack[u]) + Answering(u)'
    BY <1>1 DEF Due
  <2>2. /\ busy_num[u] \in Int /\ Len(data[u]) \in Int /\ Len(ack[u]) \in Int
        /\ InHand(u) \in Int /\ InHand(u)' \in Int
        /\ Answering(u) \in Int /\ Answering(u)' \in Int
    BY <1>0
  <2>3. /\ busy_num[u] >= Due(u) => busy_num'[u] >= Due(u)'
        /\ busy_num[u] = Due(u) => busy_num'[u] = Due(u)'
    <3> DEFINE h == InHand(u)
               hh == InHand(u)'
               a == Answering(u)
               aa == Answering(u)'
               d == Len(data[u])
               c == Len(ack[u])
               b == busy_num[u]
               bb == busy_num'[u]
    <3>1. /\ h \in Int /\ hh \in Int /\ a \in Int /\ aa \in Int /\ d \in Int
          /\ c \in Int /\ b \in Int /\ bb \in Int /\ bb - hh - aa = b - h - a
      BY <1>3, <2>2
    <3> HIDE DEF h, hh, a, aa, d, c, b, bb
    <3>2. /\ b >= h + d + c + a => bb >= hh + d + c + aa
          /\ b = h + d + c + a => bb = hh + d + c + aa
      BY <3>1
    <3> QED BY <2>1, <3>2 DEF h, hh, a, aa, d, c, b, bb
  <2>4. Len(data[u]) + PduToFollow(u) <= Len(dci[u]) + DciTaken(u) =>
          Len(data[u]) + PduToFollow(u)' <= Len(dci[u]) + DciTaken(u)
    BY <1>0, <1>3, FewerToFollow
  <2> QED BY <1>1, <1>2, <2>3, <2>4 DEF Counted
<1>4. pc \in [Rnti -> SendPc] /\ rpc \in [Rnti -> RecePc]
      /\ busy_num \in [Rnti -> 0 .. (UINT_MOD - 1)]
  BY DEF LinkTypeOK, TypeOK
<1>5. busy_num[u] >= InHand(u) + Answering(u)
  BY <1>0 DEF Counted, Due
<1>6. CASE HbScan(u)
  <2>1. /\ busy_num'[u] = busy_num[u] + 1
        /\ pc[u] = "hb_test" /\ pc'[u] = "tc_lock" /\ rpc'[u] = rpc[u]
    BY <1>4, <1>6 DEF HbScan, at, receVars
  <2>2. /\ InHand(u) = 0 /\ InHand(u)' = 1 /\ Answering(u)' = Answering(u)
        /\ PduToFollow(u)' = 0
    BY <2>1 DEF InHand, Answering, PduToFollow
  <2> QED BY <2>1, <2>2, <1>0
<1>7. CASE Reset(u)
  <2>1. /\ busy_num'[u] = decr(busy_num[u])
        /\ pc[u] = "reset" /\ pc'[u] = "poll" /\ rpc'[u] = rpc[u]
    BY <1>4, <1>7 DEF Reset, EndLoop, at, receVars
  <2>2. /\ InHand(u) = 1 /\ InHand(u)' = 0 /\ Answering(u)' = Answering(u)
        /\ PduToFollow(u)' = 0
    BY <2>1 DEF InHand, Answering, PduToFollow
  <2>3. busy_num'[u] = busy_num[u] - 1
    BY <1>5, <2>1, <2>2, <1>0 DEF decr
  <2> QED BY <2>2, <2>3, <1>0
<1>8. CASE AckRecv(u)
  <2>1. /\ busy_num'[u] = decr(busy_num[u])
        /\ rpc[u] = "ack_busy" /\ rpc'[u] = "ack_set" /\ pc'[u] = pc[u]
    BY <1>4, <1>8 DEF AckRecv
  <2>2. /\ Answering(u) = 1 /\ Answering(u)' = 0 /\ InHand(u)' = InHand(u)
        /\ PduToFollow(u)' = PduToFollow(u)
    BY <2>1 DEF InHand, Answering, PduToFollow
  <2>3. busy_num'[u] = busy_num[u] - 1
    BY <1>5, <2>1, <2>2, <1>0 DEF decr
  <2> QED BY <2>2, <2>3, <1>0
<1>9. CASE LockAck(u) \/ SetAck(u)
  <2>1. /\ busy_num' = busy_num /\ pc' = pc
        /\ \/ rpc[u] = "ack_lock" /\ rpc'[u] = "ack_busy"
           \/ rpc[u] = "ack_set" /\ rpc'[u] = "recv"
    BY <1>4, <1>9 DEF LockAck, SetAck, entityVars, sendVars
  <2>2. /\ Answering(u)' = Answering(u) /\ InHand(u)' = InHand(u)
        /\ PduToFollow(u)' = PduToFollow(u)
    BY <2>1 DEF InHand, Answering, PduToFollow
  <2> QED BY <2>1, <2>2, <1>0
<1>10. CASE ~HbScan(u) /\ ~Reset(u) /\ ~Apply(u)
  <2>1. /\ busy_num' = busy_num /\ rpc' = rpc
        /\ \/ /\ pc[u] \in {"poll", "in_lock", "in_store", "in_rewind",
                            "hb_lock", "hb_test", "hb_wait"}
              /\ pc'[u] \in {"in_lock", "in_store", "in_rewind", "hb_lock",
                             "hb_test", "hb_wait"}
           \/ /\ pc[u] \in {"tc_lock", "tc_count", "tc_discard", "dci", "data"}
              /\ pc'[u] \in {"tc_count", "tc_discard", "dci", "reset"}
    BY <1>4, <1>10
       DEF LinkLocal, PduGet, pdu_in, InLock, InStore, InRewind,
           harq_busy, HbLock, HbWait, HbWake, HbReturn, trans_control,
           TcAcked, TcNacked, TcRetransmit, TcOverflow, TcDiscard, SendFails,
           HbSpurious, at, entityVars, receVars
  <2>2. /\ Answering(u)' = Answering(u) /\ InHand(u)' = InHand(u)
        /\ PduToFollow(u)' = 0
    BY <2>1 DEF InHand, Answering, PduToFollow
  <2> QED BY <2>1, <2>2, <1>0
<1> QED BY <1>6, <1>7, <1>8, <1>9, <1>10 DEF Apply

\* With the sockets: a transmission moves from hand to hand.
LEMMA CountedSockets ==
    ASSUME LinkTypeOK, NEW u \in Rnti, Counted(u),
           \/ LinkSendDci(u) \/ LinkSendData(u) \/ LinkRecv(u)
           \/ UeDci(u) \/ UeData(u) \/ Lose(u)
    PROVE  Counted(u)'
<1>0. /\ InHand(u) \in {0, 1} /\ Answering(u) \in {0, 1}
      /\ PduToFollow(u) \in {0, 1} /\ DciTaken(u) \in {0, 1}
      /\ Len(dci[u]) \in Nat /\ Len(data[u]) \in Nat /\ Len(ack[u]) \in Nat
      /\ busy_num[u] \in Nat
  BY CountTypes, SocketLengths
<1>1. /\ pc \in [Rnti -> SendPc] /\ rpc \in [Rnti -> RecePc]
      /\ dci \in [Rnti -> Seq(Pid)] /\ data \in [Rnti -> Seq(Datagram)]
      /\ ack \in [Rnti -> Seq(Feedback)] /\ ue_pc \in [Rnti -> {"dci", "data"}]
  BY DEF LinkTypeOK, TypeOK, Feedback
<1>2. CASE LinkSendDci(u)
  <2>1. /\ pc[u] = "dci" /\ pc'[u] \in {"reset", "data"}
        /\ dci'[u] = Append(dci[u], pid_now[u])
        /\ UNCHANGED <<busy_num, rpc, ue_pc, data, ack, aux_lost>>
    BY <1>1, <1>2 DEF LinkSendDci, SendDci, at, entityVars, receVars
  <2>2. Len(dci'[u]) = Len(dci[u]) + 1
    BY <1>1, <2>1, SocketSteps DEF LinkTypeOK, TypeOK
  <2>3. /\ InHand(u)' = InHand(u) /\ Answering(u)' = Answering(u)
        /\ DciTaken(u)' = DciTaken(u) /\ PduToFollow(u) = 0
        /\ PduToFollow(u)' \in {0, 1}
    BY <2>1 DEF InHand, Answering, DciTaken, PduToFollow
  <2>4. Due(u)' = Due(u)
    BY <2>1, <2>3 DEF Due
  <2>5. Len(data[u]) <= Len(dci[u]) + DciTaken(u) =>
          Len(data'[u]) + PduToFollow(u)' <= Len(dci'[u]) + DciTaken(u)'
    BY <1>0, <2>1, <2>2, <2>3
  <2>6. Len(data[u]) + PduToFollow(u) = Len(data[u])
    BY <1>0, <2>3
  <2> QED BY <2>1, <2>4, <2>5, <2>6 DEF Counted
<1>3. CASE LinkSendData(u)
  <2> DEFINE sent == [pdu |-> payload_tosend[u], aux_pid |-> pid_now[u]]
  <2>1. /\ pc[u] = "data" /\ pc'[u] = "poll"
        /\ data'[u] = Append(data[u], sent)
        /\ UNCHANGED <<busy_num, rpc, ue_pc, dci, ack, aux_lost>>
    BY <1>1, <1>3 DEF LinkSendData, SendData, EndLoop, at, entityVars, receVars
  <2> HIDE DEF sent
  <2>2. Len(data'[u]) = Len(data[u]) + 1
    BY <1>1, <2>1, AppendProperties
  <2>3. /\ InHand(u) = 1 /\ InHand(u)' = 0 /\ Answering(u)' = Answering(u)
        /\ DciTaken(u)' = DciTaken(u) /\ PduToFollow(u) = 1
        /\ PduToFollow(u)' = 0
    BY <2>1 DEF InHand, Answering, DciTaken, PduToFollow
  <2>4. Due(u)' = Due(u)
    <3> DEFINE a == Answering(u)
               d == Len(data[u])
               c == Len(ack[u])
    <3>1. Due(u)' = 0 + (d + 1) + c + a /\ Due(u) = 1 + d + c + a
      BY <2>1, <2>2, <2>3 DEF Due
    <3>2. a \in Int /\ d \in Int /\ c \in Int
      BY <1>0
    <3> HIDE DEF a, d, c
    <3> QED BY <3>1, <3>2
  <2>5. Len(data'[u]) + PduToFollow(u)' = Len(data[u]) + PduToFollow(u)
    BY <1>0, <2>2, <2>3
  <2> QED BY <2>1, <2>3, <2>4, <2>5 DEF Counted
<1>4. CASE LinkRecv(u)
  <2>1. /\ rpc[u] = "recv" /\ rpc'[u] = "ack_lock"
        /\ ack[u] # <<>> /\ ack'[u] = Tail(ack[u])
        /\ UNCHANGED <<busy_num, pc, ue_pc, dci, data, aux_lost>>
    BY <1>1, <1>4 DEF LinkRecv, Recv, entityVars, sendVars
  <2>2. Len(ack'[u]) = Len(ack[u]) - 1
    BY <1>1, <2>1, SocketSteps
  <2>3. /\ Answering(u) = 0 /\ Answering(u)' = 1 /\ InHand(u)' = InHand(u)
        /\ DciTaken(u)' = DciTaken(u) /\ PduToFollow(u)' = PduToFollow(u)
    BY <2>1 DEF InHand, Answering, DciTaken, PduToFollow
  <2>4. Due(u)' = Due(u)
    BY <1>0, <2>1, <2>2, <2>3 DEF Due
  <2> QED BY <2>1, <2>3, <2>4 DEF Counted
<1>5. CASE UeDci(u)
  <2>1. /\ ue_pc[u] = "dci" /\ ue_pc'[u] = "data"
        /\ dci[u] # <<>> /\ dci'[u] = Tail(dci[u])
        /\ UNCHANGED <<busy_num, pc, rpc, data, ack, aux_lost>>
    BY <1>1, <1>5 DEF UeDci, vars, entityVars, sendVars, receVars
  <2>2. Len(dci'[u]) = Len(dci[u]) - 1
    BY <1>1, <2>1, SocketSteps
  <2>3. /\ DciTaken(u) = 0 /\ DciTaken(u)' = 1 /\ InHand(u)' = InHand(u)
        /\ Answering(u)' = Answering(u) /\ PduToFollow(u)' = PduToFollow(u)
    BY <2>1 DEF InHand, Answering, DciTaken, PduToFollow
  <2>4. Due(u)' = Due(u)
    BY <2>1, <2>3 DEF Due
  <2>5. Len(dci'[u]) + DciTaken(u)' = Len(dci[u]) + DciTaken(u)
    BY <1>0, <2>2, <2>3
  <2> QED BY <2>1, <2>3, <2>4, <2>5 DEF Counted
<1>6. CASE UeData(u)
  <2> DEFINE f == [ACK_pid |-> ue_dci[u], ack_0 |-> ack_0(k[u])]
  <2>1. f \in Feedback
    BY DEF Feedback, LinkTypeOK, ack_0
  <2>2. /\ ue_pc[u] = "data" /\ ue_pc'[u] = "dci"
        /\ data[u] # <<>> /\ data'[u] = Tail(data[u])
        /\ ack'[u] = Append(ack[u], f)
        /\ UNCHANGED <<busy_num, pc, rpc, dci, aux_lost>>
    BY <1>1, <1>6 DEF UeData, vars, entityVars, sendVars, receVars
  <2> HIDE DEF f
  <2>3. Len(data'[u]) = Len(data[u]) - 1 /\ Len(ack'[u]) = Len(ack[u]) + 1
    BY <1>1, <2>1, <2>2, SocketSteps
  <2>4. /\ DciTaken(u) = 1 /\ DciTaken(u)' = 0 /\ InHand(u)' = InHand(u)
        /\ Answering(u)' = Answering(u) /\ PduToFollow(u)' = PduToFollow(u)
    BY <2>2 DEF InHand, Answering, DciTaken, PduToFollow
  <2>5. Due(u)' = Due(u)
    <3> DEFINE h == InHand(u)
               a == Answering(u)
               d == Len(data[u])
               c == Len(ack[u])
    <3>1. Due(u)' = h + (d - 1) + (c + 1) + a /\ Due(u) = h + d + c + a
      BY <2>3, <2>4 DEF Due
    <3>2. h \in Int /\ a \in Int /\ d \in Int /\ c \in Int
      BY <1>0
    <3> HIDE DEF h, a, d, c
    <3> QED BY <3>1, <3>2
  <2>6. Len(data[u]) + PduToFollow(u) <= Len(dci[u]) + DciTaken(u) =>
          Len(data'[u]) + PduToFollow(u)' <= Len(dci'[u]) + DciTaken(u)'
    BY <1>0, <2>2, <2>3, <2>4
  <2> QED BY <2>2, <2>5, <2>6 DEF Counted
<1>7. CASE Lose(u)
  <2>1. UNCHANGED <<busy_num, pc, rpc, ue_pc>> /\ aux_lost'
    BY <1>7 DEF Lose, vars, entityVars, sendVars, receVars
  <2>2. /\ Len(data'[u]) \in Nat /\ Len(ack'[u]) \in Nat
        /\ Len(data'[u]) + Len(ack'[u]) <= Len(data[u]) + Len(ack[u])
    <3>1. CASE UNCHANGED <<data, ack>>
      BY <1>0, <3>1
    <3>2. CASE data[u] # <<>> /\ data'[u] = Tail(data[u]) /\ ack' = ack
      BY <1>0, <1>1, <3>2, SocketSteps, HeadTailProperties, LenProperties
    <3>3. CASE ack[u] # <<>> /\ ack'[u] = Tail(ack[u]) /\ data' = data
      BY <1>0, <1>1, <3>3, SocketSteps, HeadTailProperties, LenProperties
    <3> QED BY <1>1, <1>7, <3>1, <3>2, <3>3 DEF Lose
  <2>3. InHand(u)' = InHand(u) /\ Answering(u)' = Answering(u)
    BY <2>1 DEF InHand, Answering
  <2>4. Due(u)' <= Due(u) /\ Due(u) \in Nat /\ Due(u)' \in Nat
    <3> DEFINE h == InHand(u)
               a == Answering(u)
               d == Len(data[u])
               c == Len(ack[u])
               dd == Len(data'[u])
               cc == Len(ack'[u])
    <3>1. Due(u)' = h + dd + cc + a /\ Due(u) = h + d + c + a
      BY <2>3 DEF Due
    <3>2. h \in Nat /\ a \in Nat /\ d \in Nat /\ c \in Nat
      BY <1>0
    <3>3. dd \in Nat /\ cc \in Nat /\ dd + cc <= d + c
      BY <2>2
    <3> HIDE DEF h, a, d, c, dd, cc
    <3>4. h + dd + cc + a <= h + d + c + a
      BY <3>2, <3>3
    <3>5. h + d + c + a \in Nat /\ h + dd + cc + a \in Nat
      BY <3>2, <3>3
    <3> QED BY <3>1, <3>4, <3>5
  <2>5. busy_num[u] >= Due(u)'
    BY <1>0, <2>4 DEF Counted
  <2> QED BY <2>1, <2>5 DEF Counted
<1> QED BY <1>2, <1>3, <1>4, <1>5, <1>6, <1>7

LEMMA CountInvariant == LinkSpec => []CountInv
<1>1. LinkInit => \A u \in Rnti : Counted(u)
  <2> SUFFICES ASSUME LinkInit, NEW u \in Rnti PROVE Counted(u)
    OBVIOUS
  <2>1. /\ busy_num[u] = 0 /\ pc[u] = "poll" /\ rpc[u] = "recv"
        /\ data[u] = <<>> /\ ack[u] = <<>> /\ dci[u] = <<>> /\ ue_pc[u] = "dci"
    BY DEF LinkInit, Init
  <2>2. Len(<<>>) = 0
    BY EmptySeq
  <2>3. /\ InHand(u) = 0 /\ Answering(u) = 0 /\ PduToFollow(u) = 0
        /\ DciTaken(u) = 0
    BY <2>1 DEF InHand, Answering, PduToFollow, DciTaken
  <2> QED BY <2>1, <2>2, <2>3 DEF Counted, Due
<1>2. LinkInv /\ (\A u \in Rnti : Counted(u)) /\ [LinkNext]_allVars =>
        (\A u \in Rnti : Counted(u))'
  <2> SUFFICES ASSUME LinkInv, \A u \in Rnti : Counted(u), [LinkNext]_allVars,
                      NEW v \in Rnti
               PROVE  Counted(v)'
    OBVIOUS
  <2>1. ASSUME NEW u \in Rnti,
               \/ LinkLocal(u) \/ LinkSendDci(u) \/ LinkSendData(u)
               \/ LinkRecv(u) \/ UeDci(u) \/ UeData(u) \/ Lose(u)
        PROVE  Counted(v)'
    <3>1. CASE v = u
      BY <2>1, <3>1, CountedLocal, CountedSockets DEF LinkInv
    <3>2. CASE v # u
      BY <2>1, <3>2, OtherLinks, CountedFrame DEF LinkInv
    <3> QED BY <3>1, <3>2
  <2>2. CASE UNCHANGED allVars
    BY <2>2, CountedFrame
       DEF allVars, vars, entityVars, sendVars, receVars, linkVars
  <2> QED BY <2>1, <2>2 DEF LinkNext
<1> QED BY <1>1, <1>2, LinkInvariant, PTL DEF LinkSpec, CountInv

(***************************************************************************)
(* As long as no datagram is lost, busy_num is exactly what is in the      *)
(* hands of the threads and of the network, although the answers may name  *)
(* processes other than those the PDUs were sent for.                      *)
(***************************************************************************)
THEOREM LinkBusyNumExact == LinkSpec => []BusyNumCountsUnanswered
<1>1. CountInv => BusyNumCountsUnanswered
  BY HandsCounted DEF CountInv, Counted, Due, BusyNumCountsUnanswered
<1> QED BY <1>1, CountInvariant, PTL

(***************************************************************************)
(* Whatever is lost, busy_num covers the answers that may still come: the  *)
(* uint32_t is never stepped down below 0.                                 *)
(***************************************************************************)
THEOREM LinkBusyNumNeverWraps == LinkSpec => []BusyNumCoversUnanswered
<1>1. CountInv => BusyNumCoversUnanswered
  BY HandsCounted DEF CountInv, Counted, Due, BusyNumCoversUnanswered
<1> QED BY <1>1, CountInvariant, PTL

(***************************************************************************)
(* As long as no datagram is lost, no PDU waits at the UE for a DCI that   *)
(* will not come.                                                          *)
(***************************************************************************)
THEOREM DcisPrecedePdus == LinkSpec => []EveryPduHasADci
<1>1. CountInv => EveryPduHasADci
  <2> SUFFICES ASSUME CountInv, ~aux_lost, NEW u \in Rnti
               PROVE  Len(data[u]) <= Len(dci[u]) + DciTaken(u)
    BY DEF EveryPduHasADci, DciTaken
  <2>1. Len(data[u]) + PduToFollow(u) <= Len(dci[u]) + DciTaken(u)
    BY DEF CountInv, Counted
  <2>2. /\ Len(data[u]) \in Nat /\ Len(dci[u]) \in Nat
        /\ PduToFollow(u) \in {0, 1} /\ DciTaken(u) \in {0, 1}
    BY CountTypes, SocketLengths DEF CountInv, LinkInv
  <2> QED BY <2>1, <2>2
<1> QED BY <1>1, CountInvariant, PTL
=============================================================================
