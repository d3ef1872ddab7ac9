----------------------------- MODULE HarqEntity -----------------------------
(***************************************************************************)
(* The HARQ entities of the eNB (class UE_process_FX, test/FX_MAC.h), one  *)
(* per RNTI, with the two threads that work on each of them:               *)
(*                                                                         *)
(*   - the sender (lte_send_udp, test/lte-udp.cc) takes a MAC PDU from the *)
(*     multiplexer, stores it in the ring of a HARQ process (pdu_in),      *)
(*     picks a process (harq_busy), decides what that process transmits    *)
(*     (trans_control), and sends a DCI and the PDU;                       *)
(*   - the receiver (lte_rece, test/lte-rece.cc) takes ACK/NACK feedback   *)
(*     and applies it (ack_recv and the write of ACK[]).                   *)
(*                                                                         *)
(* An action is the code between two points at which another thread can    *)
(* see or change what it uses: the lock operations, and the accesses to    *)
(* the two function-level statics, pid_not_busy and retrans_times, which   *)
(* every entity shares although each has locks of its own.  A local        *)
(* variable goes back to its initial value where its last value is dead.   *)
(***************************************************************************)
EXTENDS Qbuff, Integers

CONSTANTS
    Rnti,            \* the UEs (0..3 in test/lte-ue-main.cc)
    HARQ_NUM,        \* HARQ processes of an entity (8)
    UINT_MOD,        \* one more than the largest uint32_t
    PduGetMayFail    \* whether mux::pdu_get() may return NULL

ASSUME HarqAssumption ==
    /\ HARQ_NUM \in Nat \ {0}
    /\ UINT_MOD \in Nat /\ UINT_MOD > HARQ_NUM
    /\ PduGetMayFail \in BOOLEAN

Pid == 0 .. (HARQ_NUM - 1)

retrans_limit == 3

VARIABLES
    \* --- class UE_process_FX, one per RNTI
    busy_LOCK,       \* "free", or the thread that holds it
    ACK_LOCK,
    busy_num,        \* uint32_t
    busy_index,
    ACK,
    pdu_q,           \* pdu_queue_test.pdu_q, the ring of each process
    \* --- statics shared by all the entities
    pid_not_busy,
    retrans_times,
    \* --- the sender thread of each RNTI
    pc,
    pid_now,
    payload_back,    \* the PDU pdu_get() returned
    payload_tosend,
    tmp,             \* the register a static is loaded into
    woken,           \* busy_signal was signalled while the sender waited
    \* --- the receiver thread of each RNTI
    rpc,
    ack_reply,       \* the feedback it is applying
    \* --- the air interface and the UE
    air,             \* the PDU of each process whose feedback is due, or NULL
    \* --- history
    aux_tx,          \* transmissions of a PDU, saturating at retrans_limit+1
    aux_acked,       \* the PDUs the UE acknowledged
    aux_fb           \* the last feedback that arrived for a process

entityVars == <<busy_LOCK, ACK_LOCK, busy_num, busy_index, ACK, pdu_q>>
staticVars == <<pid_not_busy, retrans_times>>
sendVars   == <<pc, pid_now, payload_back, payload_tosend, tmp, woken>>
receVars   == <<rpc, ack_reply>>
envVars    == <<air, aux_tx, aux_acked, aux_fb>>
vars == <<entityVars, staticVars, sendVars, receVars, envVars>>

SendPc == {"poll", "in_lock", "in_store", "in_rewind", "hb_lock", "hb_test",
           "hb_wait", "tc_lock", "tc_count", "tc_discard", "dci", "data",
           "reset"}

RecePc == {"recv", "ack_lock", "ack_busy", "ack_set"}

-----------------------------------------------------------------------------
(* Helpers.                                                                *)

\* The first member of S met when the processes are walked cyclically from p.
FirstFrom(S, p) ==
    CHOOSE x \in S : \A y \in S :
        (x + HARQ_NUM - p) % HARQ_NUM <= (y + HARQ_NUM - p) % HARQ_NUM

Idle(u) == {p \in Pid : ~busy_index[u][p]}

\* Mutants of Ready: the scan of harq_busy forgets one of its two conditions.
ReadyThoughBusy(u) == {p \in Pid : ~isempty(pdu_q[u][p])}

ReadyThoughEmpty(u) == Idle(u)

\* What the scan of harq_busy() looks for: neither busy nor empty.
Ready(u) == {p \in Idle(u) : ~isempty(pdu_q[u][p])}

\* Mutant of decr: a process is freed and not counted.
decrForgotten(n) == n

\* busy_num-- on a uint32_t.
decr(n) == IF n = 0 THEN UINT_MOD - 1 ELSE n - 1

\* Mutant of incr: retransmissions are not counted.
incrForgotten(n) == n

\* retrans_times[pid]++ on an int.  Two entities that store over each other's
\* zero can count on for ever; only n < retrans_limit is asked, so the counter
\* saturates there.
incr(n) == IF n < retrans_limit THEN n + 1 ELSE retrans_limit

\* The PDUs of u that are still somewhere; the others' names can be used again.
InUse(u) ==
    {pdu_q[u][p].packets[s] : p \in Pid, s \in Slot}
      \cup {air[u][p] : p \in Pid}

\* The history of a PDU begins when it is built and ends when it is dropped.
Forget(u, d) ==
    /\ aux_tx' = [aux_tx EXCEPT ![u][d] = 0]
    /\ aux_acked' = [aux_acked EXCEPT ![u] = @ \ {d}]

NoReply == [ACK_pid |-> 0, ack_0 |-> FALSE]

at(u, label) == pc' = [pc EXCEPT ![u] = label]

Init ==
    /\ busy_LOCK = [u \in Rnti |-> "free"]
    /\ ACK_LOCK = [u \in Rnti |-> "free"]
    /\ busy_num = [u \in Rnti |-> 0]
    /\ busy_index = [u \in Rnti |-> [p \in Pid |-> FALSE]]
    /\ ACK = [u \in Rnti |-> [p \in Pid |-> FALSE]]
    /\ pdu_q = [u \in Rnti |-> [p \in Pid |-> flush]]
    /\ pid_not_busy = 0
    /\ retrans_times = [p \in Pid |-> 0]
    /\ pc = [u \in Rnti |-> "poll"]
    /\ pid_now = [u \in Rnti |-> 0]
    /\ payload_back = [u \in Rnti |-> NULL]
    /\ payload_tosend = [u \in Rnti |-> NULL]
    /\ tmp = [u \in Rnti |-> 0]
    /\ woken = [u \in Rnti |-> FALSE]
    /\ rpc = [u \in Rnti |-> "recv"]
    /\ ack_reply = [u \in Rnti |-> NoReply]
    /\ air = [u \in Rnti |-> [p \in Pid |-> NULL]]
    /\ aux_tx = [u \in Rnti |-> [d \in Pdu |-> 0]]
    /\ aux_acked = [u \in Rnti |-> {}]
    /\ aux_fb = [u \in Rnti |-> [p \in Pid |-> FALSE]]

-----------------------------------------------------------------------------
(* The sender: taking a PDU and storing it (pdu_in).                       *)

\* The RLC has an SDU queued.  The multiplexer builds a PDU, or it fails, and
\* its NULL goes through pdu_in all the same.
PduGet(u, d) ==
    /\ pc[u] = "poll"
    /\ \/ d \in Pdu \ InUse(u) /\ Forget(u, d)
       \/ d = NULL /\ PduGetMayFail /\ UNCHANGED <<aux_tx, aux_acked>>
    /\ payload_back' = [payload_back EXCEPT ![u] = d]
    /\ at(u, "in_lock")
    /\ UNCHANGED <<entityVars, staticVars, pid_now, payload_tosend, tmp, woken,
                   receVars, air, aux_fb>>

\* busy_LOCK, and the load of the static.
InLock(u) ==
    /\ pc[u] = "in_lock"
    /\ busy_LOCK[u] = "free"
    /\ busy_LOCK' = [busy_LOCK EXCEPT ![u] = "send"]
    /\ tmp' = [tmp EXCEPT ![u] = pid_not_busy]
    /\ at(u, "in_store")
    /\ UNCHANGED <<ACK_LOCK, busy_num, busy_index, ACK, pdu_q, staticVars,
                   pid_now, payload_back, payload_tosend, woken, receVars,
                   envVars>>

\* pdu_store(): nothing for a NULL payload, nothing when the ring is full.
pdu_store(u, p) ==
    pdu_q' = IF payload_back[u] = NULL THEN pdu_q
             ELSE [pdu_q EXCEPT ![u][p] = send(@, payload_back[u])]

\* Mutants of StorePid: pdu_in does not look for a process that is not busy;
\* with none free, the next index is not taken modulo HARQ_NUM.
StorePidAnywhere(u) == tmp[u]

StorePidUnwrapped(u) ==
    IF busy_num[u] < HARQ_NUM THEN FirstFrom(Idle(u), tmp[u]) ELSE tmp[u] + 1

\* The process after the scan: with a free one, the first not busy; otherwise
\* simply the next.  Without an idle process the first loop does not end.
StorePid(u) ==
    IF busy_num[u] < HARQ_NUM THEN FirstFrom(Idle(u), tmp[u])
    ELSE (tmp[u] + 1) % HARQ_NUM

\* The scan moved, so `flag' is set and the static is rewound afterwards.
Moved(u) == busy_num[u] < HARQ_NUM /\ busy_index[u][tmp[u]]

\* The process the static names is free and is taken; nothing is written back.
Stayed(u) == busy_num[u] < HARQ_NUM /\ ~busy_index[u][tmp[u]]

InStore(u) ==
    /\ pc[u] = "in_store"
    /\ busy_num[u] < HARQ_NUM => Idle(u) # {}
    /\ pid_not_busy' = IF Stayed(u) THEN pid_not_busy ELSE StorePid(u)
    /\ pdu_store(u, StorePid(u))
    /\ IF Moved(u)
         THEN /\ at(u, "in_rewind")
              /\ UNCHANGED busy_LOCK
         ELSE /\ at(u, "hb_lock")
              /\ busy_LOCK' = [busy_LOCK EXCEPT ![u] = "free"]
    /\ payload_back' = [payload_back EXCEPT ![u] = NULL]
    /\ tmp' = [tmp EXCEPT ![u] = 0]
    /\ UNCHANGED <<ACK_LOCK, busy_num, busy_index, ACK, retrans_times,
                   pid_now, payload_tosend, woken, receVars, envVars>>

InRewind(u) ==
    /\ pc[u] = "in_rewind"
    /\ pid_not_busy' = 0
    /\ busy_LOCK' = [busy_LOCK EXCEPT ![u] = "free"]
    /\ at(u, "hb_lock")
    /\ UNCHANGED <<ACK_LOCK, busy_num, busy_index, ACK, pdu_q, retrans_times,
                   pid_now, payload_back, payload_tosend, tmp, woken, receVars,
                   envVars>>

-----------------------------------------------------------------------------
(* The sender: picking a process (harq_busy) and what it sends             *)
(* (trans_control).                                                        *)

HbLock(u) ==
    /\ pc[u] = "hb_lock"
    /\ busy_LOCK[u] = "free"
    /\ busy_LOCK' = [busy_LOCK EXCEPT ![u] = "send"]
    /\ at(u, "hb_test")
    /\ UNCHANGED <<ACK_LOCK, busy_num, busy_index, ACK, pdu_q, staticVars,
                   pid_now, payload_back, payload_tosend, tmp, woken, receVars,
                   envVars>>

\* pthread_cond_wait() releases busy_LOCK.
HbWait(u) ==
    /\ pc[u] = "hb_test"
    /\ busy_num[u] >= HARQ_NUM
    /\ busy_LOCK' = [busy_LOCK EXCEPT ![u] = "free"]
    /\ at(u, "hb_wait")
    /\ UNCHANGED <<ACK_LOCK, busy_num, busy_index, ACK, pdu_q, staticVars,
                   pid_now, payload_back, payload_tosend, tmp, woken, receVars,
                   envVars>>

\* It returns with the lock, after a signal or spuriously.
HbReturn(u) ==
    /\ pc[u] = "hb_wait"
    /\ busy_LOCK[u] = "free"
    /\ busy_LOCK' = [busy_LOCK EXCEPT ![u] = "send"]
    /\ woken' = [woken EXCEPT ![u] = FALSE]
    /\ at(u, "hb_test")
    /\ UNCHANGED <<ACK_LOCK, busy_num, busy_index, ACK, pdu_q, staticVars,
                   pid_now, payload_back, payload_tosend, tmp, receVars,
                   envVars>>

HbWake(u) == woken[u] /\ HbReturn(u)

HbSpurious(u) == ~woken[u] /\ HbReturn(u)

\* The scan; with no process to find it runs for ever, and busy_LOCK is held.
HbScan(u) ==
    /\ pc[u] = "hb_test"
    /\ busy_num[u] < HARQ_NUM
    /\ Ready(u) # {}
    /\ LET p == FirstFrom(Ready(u), 0) IN
         /\ busy_index' = [busy_index EXCEPT ![u][p] = TRUE]
         /\ pid_now' = [pid_now EXCEPT ![u] = p]
    /\ busy_num' = [busy_num EXCEPT ![u] = @ + 1]
    /\ at(u, "tc_lock")
    /\ UNCHANGED <<busy_LOCK, ACK_LOCK, ACK, pdu_q, staticVars, payload_back,
                   payload_tosend, tmp, woken, receVars, envVars>>

\* Mutant of Advance: the PDU to send is taken before the head is dropped.
AdvanceTooLate(u) ==
    LET q == pdu_q[u][pid_now[u]] IN
      /\ pdu_q' = [pdu_q EXCEPT ![u][pid_now[u]] = release(q)]
      /\ payload_tosend' = [payload_tosend EXCEPT ![u] = pop(q)]
      /\ Forget(u, pop(q))

\* trans_control() drops the head of the ring and takes the next, if any.
Advance(u) ==
    LET q == release(pdu_q[u][pid_now[u]]) IN
      /\ pdu_q' = [pdu_q EXCEPT ![u][pid_now[u]] = q]
      /\ payload_tosend' = [payload_tosend EXCEPT ![u] = pop(q)]
      /\ Forget(u, pop(pdu_q[u][pid_now[u]]))

\* ACK_LOCK is free, ACK[pid] is up: the next PDU.  busy_LOCK is released.
TcAcked(u) ==
    /\ pc[u] = "tc_lock"
    /\ ACK_LOCK[u] = "free"
    /\ ACK[u][pid_now[u]]
    /\ Advance(u)
    /\ busy_LOCK' = [busy_LOCK EXCEPT ![u] = "free"]
    /\ at(u, "dci")
    /\ UNCHANGED <<ACK_LOCK, busy_num, busy_index, ACK, staticVars, pid_now,
                   payload_back, tmp, woken, receVars, air, aux_fb>>

\* ACK[pid] is down: the load of retrans_times[pid].
TcNacked(u) ==
    /\ pc[u] = "tc_lock"
    /\ ACK_LOCK[u] = "free"
    /\ ~ACK[u][pid_now[u]]
    /\ tmp' = [tmp EXCEPT ![u] = retrans_times[pid_now[u]]]
    /\ at(u, "tc_count")
    /\ UNCHANGED <<entityVars, staticVars, pid_now, payload_back,
                   payload_tosend, woken, receVars, envVars>>

\* The incremented counter is stored and tested: the same PDU once more.
TcRetransmit(u) ==
    /\ pc[u] = "tc_count"
    /\ incr(tmp[u]) < retrans_limit
    /\ retrans_times' = [retrans_times EXCEPT ![pid_now[u]] = incr(tmp[u])]
    /\ payload_tosend' =
         [payload_tosend EXCEPT ![u] = pop(pdu_q[u][pid_now[u]])]
    /\ busy_LOCK' = [busy_LOCK EXCEPT ![u] = "free"]
    /\ tmp' = [tmp EXCEPT ![u] = 0]
    /\ at(u, "dci")
    /\ UNCHANGED <<ACK_LOCK, busy_num, busy_index, ACK, pdu_q, pid_not_busy,
                   pid_now, payload_back, woken, receVars, envVars>>

TcOverflow(u) ==
    /\ pc[u] = "tc_count"
    /\ incr(tmp[u]) >= retrans_limit
    /\ retrans_times' = [retrans_times EXCEPT ![pid_now[u]] = incr(tmp[u])]
    /\ tmp' = [tmp EXCEPT ![u] = 0]
    /\ at(u, "tc_discard")
    /\ UNCHANGED <<entityVars, pid_not_busy, pid_now, payload_back,
                   payload_tosend, woken, receVars, envVars>>

\* Too often: the counter is cleared and the next PDU takes its place.
TcDiscard(u) ==
    /\ pc[u] = "tc_discard"
    /\ retrans_times' = [retrans_times EXCEPT ![pid_now[u]] = 0]
    /\ Advance(u)
    /\ busy_LOCK' = [busy_LOCK EXCEPT ![u] = "free"]
    /\ at(u, "dci")
    /\ UNCHANGED <<ACK_LOCK, busy_num, busy_index, ACK, pid_not_busy, pid_now,
                   payload_back, tmp, woken, receVars, air, aux_fb>>

-----------------------------------------------------------------------------
(* The sender: the DCI and the PDU.                                        *)

\* sendto() of the DCI succeeds, and there is a PDU to follow it or not.
SendDci(u) ==
    /\ pc[u] = "dci"
    /\ at(u, IF payload_tosend[u] = NULL THEN "reset" ELSE "data")
    /\ UNCHANGED <<entityVars, staticVars, pid_now, payload_back,
                   payload_tosend, tmp, woken, receVars, envVars>>

\* sendto() of the DCI or of the PDU returns -1.
SendFails(u) ==
    /\ pc[u] \in {"dci", "data"}
    /\ at(u, "reset")
    /\ UNCHANGED <<entityVars, staticVars, pid_now, payload_back,
                   payload_tosend, tmp, woken, receVars, envVars>>

\* Back to the top of the loop; pid_now and payload_tosend are dead.
EndLoop(u) ==
    /\ at(u, "poll")
    /\ pid_now' = [pid_now EXCEPT ![u] = 0]
    /\ payload_tosend' = [payload_tosend EXCEPT ![u] = NULL]

\* sendto() of the PDU succeeds: the feedback of this process is now due.
SendData(u) ==
    /\ pc[u] = "data"
    /\ air' = [air EXCEPT ![u][pid_now[u]] = payload_tosend[u]]
    /\ aux_tx' = [aux_tx EXCEPT ![u][payload_tosend[u]] =
                    IF @ > retrans_limit THEN @ ELSE @ + 1]
    /\ EndLoop(u)
    /\ UNCHANGED <<entityVars, staticVars, payload_back, tmp, woken, receVars,
                   aux_acked, aux_fb>>

\* reset(pid_now), and the loop begins again.
Reset(u) ==
    /\ pc[u] = "reset"
    /\ busy_LOCK[u] = "free"
    /\ busy_index' = [busy_index EXCEPT ![u][pid_now[u]] = FALSE]
    /\ busy_num' = [busy_num EXCEPT ![u] = decr(@)]
    /\ EndLoop(u)
    /\ UNCHANGED <<busy_LOCK, ACK_LOCK, ACK, pdu_q, staticVars, payload_back,
                   tmp, woken, receVars, envVars>>

-----------------------------------------------------------------------------
(* The receiver.                                                           *)

\* recv() returns feedback for process p.
Recv(u, p, ok) ==
    /\ rpc[u] = "recv"
    /\ ack_reply' = [ack_reply EXCEPT ![u] = [ACK_pid |-> p, ack_0 |-> ok]]
    /\ rpc' = [rpc EXCEPT ![u] = "ack_lock"]
    /\ air' = [air EXCEPT ![u][p] = NULL]
    /\ aux_acked' = [aux_acked EXCEPT ![u] =
                       IF ok /\ air[u][p] # NULL THEN @ \cup {air[u][p]} ELSE @]
    /\ aux_fb' = [aux_fb EXCEPT ![u][p] = ok]
    /\ UNCHANGED <<entityVars, staticVars, sendVars, aux_tx>>

\* The UE answers a transmission, and only once: what the test bed intends.
RecvDue(u, p, ok) == air[u][p] # NULL /\ Recv(u, p, ok)

\* Mutant of LockAck: ACK_LOCK is not taken.
LockAckForgotten(u) ==
    /\ rpc[u] = "ack_lock"
    /\ rpc' = [rpc EXCEPT ![u] = "ack_busy"]
    /\ UNCHANGED <<entityVars, staticVars, sendVars, ack_reply, envVars>>

LockAck(u) ==
    /\ rpc[u] = "ack_lock"
    /\ ACK_LOCK[u] = "free"
    /\ ACK_LOCK' = [ACK_LOCK EXCEPT ![u] = "rece"]
    /\ rpc' = [rpc EXCEPT ![u] = "ack_busy"]
    /\ UNCHANGED <<busy_LOCK, busy_num, busy_index, ACK, pdu_q, staticVars,
                   sendVars, ack_reply, envVars>>

\* Mutant of signal: the wake-up is forgotten.
signalForgotten(u) == UNCHANGED woken

\* pthread_cond_signal(&busy_signal).
signal(u) == woken' = [woken EXCEPT ![u] = @ \/ pc[u] = "hb_wait"]

\* ack_recv(): under busy_LOCK, with ACK_LOCK held.  The decrement and the
\* signal do not depend on whether the process was busy.
AckRecv(u) ==
    /\ rpc[u] = "ack_busy"
    /\ busy_LOCK[u] = "free"
    /\ busy_index' = [busy_index EXCEPT ![u][ack_reply[u].ACK_pid] = FALSE]
    /\ busy_num' = [busy_num EXCEPT ![u] = decr(@)]
    /\ signal(u)
    /\ rpc' = [rpc EXCEPT ![u] = "ack_set"]
    /\ UNCHANGED <<busy_LOCK, ACK_LOCK, ACK, pdu_q, staticVars, pc, pid_now,
                   payload_back, payload_tosend, tmp, ack_reply, envVars>>

SetAck(u) ==
    /\ rpc[u] = "ack_set"
    /\ ACK' = [ACK EXCEPT ![u][ack_reply[u].ACK_pid] = ack_reply[u].ack_0]
    /\ ACK_LOCK' = [ACK_LOCK EXCEPT ![u] = "free"]
    /\ ack_reply' = [ack_reply EXCEPT ![u] = NoReply]
    /\ rpc' = [rpc EXCEPT ![u] = "recv"]
    /\ UNCHANGED <<busy_LOCK, busy_num, busy_index, pdu_q, staticVars,
                   sendVars, envVars>>

-----------------------------------------------------------------------------
(* Specifications.                                                         *)

pdu_in(u) == InLock(u) \/ InStore(u) \/ InRewind(u)

trans_control(u) ==
    TcAcked(u) \/ TcNacked(u) \/ TcRetransmit(u) \/ TcOverflow(u) \/ TcDiscard(u)

harq_busy(u) == HbLock(u) \/ HbWait(u) \/ HbWake(u) \/ HbScan(u) \/ trans_control(u)

\* The loop of lte_send_udp once it has a PDU, spurious wake-ups aside.
SenderStep(u) ==
    pdu_in(u) \/ harq_busy(u) \/ SendDci(u) \/ SendData(u) \/ Reset(u)

Sender(u) ==
    \/ \E d \in Pdu \cup {NULL} : PduGet(u, d)
    \/ SenderStep(u)
    \/ SendFails(u)
    \/ HbSpurious(u)

\* The loop of lte_rece once feedback has arrived.
Apply(u) == LockAck(u) \/ AckRecv(u) \/ SetAck(u)

\* Any feedback at any time: UDP may lose, repeat or delay it, and the UE may
\* name a process that was not waiting for it.
AnyFeedback(u) == \E p \in Pid, ok \in BOOLEAN : Recv(u, p, ok)

DueFeedback(u) == \E p \in Pid, ok \in BOOLEAN : RecvDue(u, p, ok)

Next == \E u \in Rnti : Sender(u) \/ AnyFeedback(u) \/ Apply(u)

NextDue == \E u \in Rnti : Sender(u) \/ DueFeedback(u) \/ Apply(u)

Spec == Init /\ [][Next]_vars

SpecDue == Init /\ [][NextDue]_vars

\* Both threads run, and the network delivers every PDU and its feedback.  The
\* receiver gets a mutex that is free again and again: the sender sleeps for
\* 5 ms with no lock held in every turn of its loop.
Fairness ==
    \A u \in Rnti :
      /\ WF_vars(SenderStep(u))
      /\ SF_vars(Apply(u))
      /\ WF_vars(DueFeedback(u))

FairSpecDue == SpecDue /\ Fairness

-----------------------------------------------------------------------------
(* Properties.                                                             *)

TypeOK ==
    /\ busy_LOCK \in [Rnti -> {"free", "send"}]
    /\ ACK_LOCK \in [Rnti -> {"free", "rece"}]
    /\ busy_num \in [Rnti -> 0 .. (UINT_MOD - 1)]
    /\ busy_index \in [Rnti -> [Pid -> BOOLEAN]]
    /\ ACK \in [Rnti -> [Pid -> BOOLEAN]]
    /\ pdu_q \in [Rnti -> [Pid -> Ring]]
    /\ pid_not_busy \in Pid
    /\ retrans_times \in [Pid -> 0 .. retrans_limit]
    /\ pc \in [Rnti -> SendPc]
    /\ pid_now \in [Rnti -> Pid]
    /\ payload_back \in [Rnti -> Pdu \cup {NULL}]
    /\ payload_tosend \in [Rnti -> Pdu \cup {NULL}]
    /\ tmp \in [Rnti -> Nat]
    /\ woken \in [Rnti -> BOOLEAN]
    /\ rpc \in [Rnti -> RecePc]
    /\ ack_reply \in [Rnti -> [ACK_pid : Pid, ack_0 : BOOLEAN]]
    /\ air \in [Rnti -> [Pid -> Pdu \cup {NULL}]]
    /\ aux_tx \in [Rnti -> [Pdu -> 0 .. (retrans_limit + 1)]]
    /\ aux_acked \in [Rnti -> SUBSET Pdu]
    /\ aux_fb \in [Rnti -> [Pid -> BOOLEAN]]

(***************************************************************************)
(* Whatever the network and the other entities do, trans_control never     *)
(* releases a slot of an empty ring: rp and wp of every ring keep          *)
(* enclosing exactly the stored PDUs, so that no PDU is stranded behind    *)
(* the read index.  qbuff::release() does not check this itself.           *)
(***************************************************************************)
RingsWellShaped == \A u \in Rnti, p \in Pid : WellShaped(pdu_q[u][p])

\* The processes the sender, the air and the receiver have in hand.
SenderHas(u) ==
    IF pc[u] \in {"tc_lock", "tc_count", "tc_discard", "dci", "data", "reset"}
    THEN {pid_now[u]} ELSE {}

AirHas(u) == {p \in Pid : air[u][p] # NULL}

ReceiverHas(u) ==
    IF rpc[u] \in {"ack_lock", "ack_busy"} THEN {ack_reply[u].ACK_pid} ELSE {}

Busy(u) == {p \in Pid : busy_index[u][p]}

(***************************************************************************)
(* Stop and wait: when every transmission is answered at most once, a busy *)
(* process is in the hands of exactly one of sender, air and receiver, an  *)
(* idle one of none; in particular no process is transmitted again while   *)
(* its feedback is due (harq_busy, reset, ack_recv).                       *)
(***************************************************************************)
OneOwner ==
    \A u \in Rnti :
      /\ Busy(u) = SenderHas(u) \cup AirHas(u) \cup ReceiverHas(u)
      /\ SenderHas(u) \cap AirHas(u) = {}
      /\ SenderHas(u) \cap ReceiverHas(u) = {}
      /\ AirHas(u) \cap ReceiverHas(u) = {}

(***************************************************************************)
(* busy_num, which three functions step up and down without looking at     *)
(* busy_index, counts the busy processes: it neither underflows nor        *)
(* exceeds HARQ_NUM.                                                       *)
(***************************************************************************)
BusyNumExact == \A u \in Rnti : busy_num[u] = Cardinality(Busy(u))

(***************************************************************************)
(* The two scans that run under busy_LOCK until they find a process have   *)
(* one to find: pdu_in one that is not busy, once it has read busy_num,    *)
(* and harq_busy one that is neither busy nor empty.  A scan that finds    *)
(* none keeps busy_LOCK, which ack_recv needs to free a process.           *)
(* (FX_MAC.h:126 and 244; reference.md:141: "the case that all queues are  *)
(* empty is not considered at present".)                                   *)
(***************************************************************************)
ScanFinds ==
    \A u \in Rnti : busy_num[u] < HARQ_NUM =>
      /\ pc[u] = "in_store" => Idle(u) # {}
      /\ pc[u] = "hb_test" => Ready(u) # {}

(***************************************************************************)
(* The PDU a process has in the air is still at the head of its ring, so   *)
(* that a NACK retransmits that PDU and an ACK discards that one.          *)
(***************************************************************************)
HeadInFlight ==
    \A u \in Rnti, p \in Pid :
      air[u][p] # NULL => pop(pdu_q[u][p]) = air[u][p]

(***************************************************************************)
(* When the sender reads ACK[pid] it reads the last feedback that arrived  *)
(* for the process: ack_recv frees the process before ACK[] is written,    *)
(* and it is ACK_LOCK, held around both, that makes the sender wait.       *)
(***************************************************************************)
FreshAck ==
    \A u \in Rnti :
      pc[u] = "tc_lock" /\ ACK_LOCK[u] = "free" =>
        ACK[u][pid_now[u]] = aux_fb[u][pid_now[u]]

(***************************************************************************)
(* No PDU is transmitted more often than retrans_limit, although the       *)
(* counter belongs to the process and is not cleared by an ACK.  It holds  *)
(* for an entity that has the static retrans_times[] to itself; that two   *)
(* entities share the array is enough to break it (MCHarqShared.cfg).      *)
(***************************************************************************)
TransmissionsBounded ==
    \A u \in Rnti, d \in Pdu : aux_tx[u][d] <= retrans_limit

\* trans_control releases the head of the ring of pid_now[u] in this step.
Releases(u) == pdu_q[u][pid_now[u]].rp # pdu_q'[u][pid_now[u]].rp

(***************************************************************************)
(* FX_MAC.h:195: on an ACK, the PDU that is dropped is the one the ACK     *)
(* was received for.                                                       *)
(***************************************************************************)
OnlyAckedReleased ==
    [][\A u \in Rnti :
         pc[u] = "tc_lock" /\ Releases(u) =>
           pop(pdu_q[u][pid_now[u]]) \in aux_acked[u]]_vars

(***************************************************************************)
(* The two threads of an entity wait for each other: the sender holds      *)
(* busy_LOCK and wants ACK_LOCK, the receiver the other way round.         *)
(***************************************************************************)
LockCycle(u) ==
    /\ pc[u] = "tc_lock" /\ ACK_LOCK[u] = "rece"
    /\ rpc[u] = "ack_busy" /\ busy_LOCK[u] = "send"

(***************************************************************************)
(* A sender with a PDU in hand comes back to the top of its loop, unless   *)
(* the two threads are caught in the lock cycle: the signal of ack_recv is *)
(* not lost, no scan runs for ever, and no process stays busy.             *)
(***************************************************************************)
SenderReturns ==
    \A u \in Rnti : pc[u] # "poll" ~> (pc[u] = "poll" \/ LockCycle(u))

(***************************************************************************)
(* FX_MAC.h:235: harq_busy, once it has a process that is not busy, hands  *)
(* its PDU to the physical layer.                                          *)
(***************************************************************************)
HarqBusyReturns ==
    \A u \in Rnti : pc[u] = "tc_lock" ~> pc[u] = "dci"

Processes == INSTANCE StopAndWait
               WITH Entity <- Rnti, Process <- Pid, Item <- Pdu,
                    CAPACITY <- NOF_BUFFER_PDUS, NONE <- NULL,
                    queue <- [u \in Rnti |-> [p \in Pid |-> Contents(pdu_q[u][p])]],
                    flying <- air

(***************************************************************************)
(* When every transmission is answered at most once, the threads, locks,   *)
(* counters and shared statics of the entities implement stop-and-wait     *)
(* processes: what a process transmits is the head of its queue, nothing   *)
(* takes the place of that PDU while its feedback is due, and the PDUs of  *)
(* a process go out in the order they were stored.                         *)
(***************************************************************************)
ImplementsStopAndWait == Processes!Spec
=============================================================================
