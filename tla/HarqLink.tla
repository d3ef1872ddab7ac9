------------------------------ MODULE HarqLink ------------------------------
(***************************************************************************)
(* The HARQ entities of the eNB composed with the UE program across UDP.   *)
(*                                                                         *)
(* The eNB sends each DCI and each PDU on a socket of its own (ports 7707  *)
(* and 6604 plus the RNTI).  The thread lte_rece of the UE                 *)
(* (lte-UE/ue/test/lte-rece.cc) takes one datagram from the first socket,  *)
(* then one from the second, hands the PDU to the demultiplexer, and sends *)
(* an ACK or NACK for the process the DCI named (port 5500 plus the RNTI). *)
(* Nothing but the order of arrival ties a PDU to its DCI.                 *)
(*                                                                         *)
(* A socket is a FIFO of datagrams.  Loss is a choice of the constant      *)
(* MayLose; sendto() failing is part of HarqEntity.                        *)
(***************************************************************************)
EXTENDS HarqEntity, Sequences

CONSTANTS
    K_WRAP,      \* the UE's datagram counter k goes back to 0 here (1000)
    MayLose,     \* whether the network may lose a datagram
    SOCKET_CAP   \* bound: datagrams waiting in a socket

ASSUME LinkAssumption ==
    /\ K_WRAP \in Nat \ {0}
    /\ MayLose \in BOOLEAN
    /\ SOCKET_CAP \in Nat \ {0}

VARIABLES
    dci,       \* port 7707: process numbers
    data,      \* port 6604: PDUs, each with the process it was sent for
    ack,       \* port 5500: the feedback
    ue_pc,     \* the UE's thread: waits for a DCI or for a PDU
    ue_dci,    \* its local dci.N_pid_now
    k,         \* its counter of received PDUs
    aux_lost   \* history: a datagram has been lost

linkVars == <<dci, data, ack, ue_pc, ue_dci, k, aux_lost>>
allVars == <<vars, linkVars>>

\* Mutant of next_k: the counter runs past the UE's 1000 buffers.
next_kUnwrapped(n) == n + 1

\* k++, and back to 0 at the top of the loop.
next_k(n) == (n + 1) % K_WRAP

\* The UE acknowledges by counting: every third PDU is NACKed.
ack_0(n) == n % 3 # 0

LinkInit ==
    /\ Init
    /\ dci = [u \in Rnti |-> <<>>]
    /\ data = [u \in Rnti |-> <<>>]
    /\ ack = [u \in Rnti |-> <<>>]
    /\ ue_pc = [u \in Rnti |-> "dci"]
    /\ ue_dci = [u \in Rnti |-> 0]
    /\ k = [u \in Rnti |-> 0]
    /\ aux_lost = FALSE

-----------------------------------------------------------------------------
(* The eNB's ends of the sockets.                                          *)

\* Mutants of LinkSendDci: no DCI goes out; processes are counted from 1.
LinkSendDciForgotten(u) == SendDci(u) /\ UNCHANGED linkVars

LinkSendDciFromOne(u) ==
    /\ Len(dci[u]) < SOCKET_CAP
    /\ SendDci(u)
    /\ dci' = [dci EXCEPT ![u] = Append(@, pid_now[u] + 1)]
    /\ UNCHANGED <<data, ack, ue_pc, ue_dci, k, aux_lost>>

LinkSendDci(u) ==
    /\ Len(dci[u]) < SOCKET_CAP
    /\ SendDci(u)
    /\ dci' = [dci EXCEPT ![u] = Append(@, pid_now[u])]
    /\ UNCHANGED <<data, ack, ue_pc, ue_dci, k, aux_lost>>

LinkSendData(u) ==
    /\ Len(data[u]) < SOCKET_CAP
    /\ SendData(u)
    /\ data' = [data EXCEPT ![u] =
                  Append(@, [pdu |-> payload_tosend[u], aux_pid |-> pid_now[u]])]
    /\ UNCHANGED <<dci, ack, ue_pc, ue_dci, k, aux_lost>>

\* Mutant of LinkRecv: an answer is delivered more than once.
LinkRecvTwice(u) ==
    /\ ack[u] # <<>>
    /\ Recv(u, Head(ack[u]).ACK_pid, Head(ack[u]).ack_0)
    /\ UNCHANGED linkVars

LinkRecv(u) ==
    /\ ack[u] # <<>>
    /\ Recv(u, Head(ack[u]).ACK_pid, Head(ack[u]).ack_0)
    /\ ack' = [ack EXCEPT ![u] = Tail(@)]
    /\ UNCHANGED <<dci, data, ue_pc, ue_dci, k, aux_lost>>

\* What the eNB does without the sockets.
LinkLocal(u) ==
    /\ \/ \E d \in Pdu \cup {NULL} : PduGet(u, d)
       \/ pdu_in(u)
       \/ harq_busy(u)
       \/ HbSpurious(u)
       \/ SendFails(u)
       \/ Reset(u)
       \/ Apply(u)
    /\ UNCHANGED linkVars

-----------------------------------------------------------------------------
(* The UE's thread.                                                        *)

\* recvfrom() on the DCI socket.
UeDci(u) ==
    /\ ue_pc[u] = "dci"
    /\ dci[u] # <<>>
    /\ ue_dci' = [ue_dci EXCEPT ![u] = Head(dci[u])]
    /\ dci' = [dci EXCEPT ![u] = Tail(@)]
    /\ ue_pc' = [ue_pc EXCEPT ![u] = "data"]
    /\ UNCHANGED <<vars, data, ack, k, aux_lost>>

\* recvfrom() on the data socket, process_pdu(), the ACK, and k++.
UeData(u) ==
    /\ ue_pc[u] = "data"
    /\ data[u] # <<>>
    /\ Len(ack[u]) < SOCKET_CAP
    /\ ack' = [ack EXCEPT ![u] =
                 Append(@, [ACK_pid |-> ue_dci[u], ack_0 |-> ack_0(k[u])])]
    /\ data' = [data EXCEPT ![u] = Tail(@)]
    /\ ue_dci' = [ue_dci EXCEPT ![u] = 0]
    /\ ue_pc' = [ue_pc EXCEPT ![u] = "dci"]
    /\ k' = [k EXCEPT ![u] = next_k(@)]
    /\ UNCHANGED <<vars, dci, aux_lost>>

-----------------------------------------------------------------------------
(* The network.                                                            *)

Lose(u) ==
    /\ MayLose
    /\ \/ /\ dci[u] # <<>>
          /\ dci' = [dci EXCEPT ![u] = Tail(@)]
          /\ UNCHANGED <<data, ack>>
       \/ /\ data[u] # <<>>
          /\ data' = [data EXCEPT ![u] = Tail(@)]
          /\ UNCHANGED <<dci, ack>>
       \/ /\ ack[u] # <<>>
          /\ ack' = [ack EXCEPT ![u] = Tail(@)]
          /\ UNCHANGED <<dci, data>>
    /\ aux_lost' = TRUE
    /\ UNCHANGED <<vars, ue_pc, ue_dci, k>>

-----------------------------------------------------------------------------

LinkNext ==
    \E u \in Rnti :
      \/ LinkLocal(u) \/ LinkSendDci(u) \/ LinkSendData(u) \/ LinkRecv(u)
      \/ UeDci(u) \/ UeData(u)
      \/ Lose(u)

LinkSpec == LinkInit /\ [][LinkNext]_allVars

-----------------------------------------------------------------------------
(* Properties.                                                             *)

Datagram == [pdu : Pdu, aux_pid : Pid]

LinkTypeOK ==
    /\ TypeOK
    /\ dci \in [Rnti -> Seq(Pid)]
    /\ data \in [Rnti -> Seq(Datagram)]
    /\ ack \in [Rnti -> Seq([ACK_pid : Pid, ack_0 : BOOLEAN])]
    /\ ue_pc \in [Rnti -> {"dci", "data"}]
    /\ ue_dci \in [Rnti -> Pid]
    /\ k \in [Rnti -> 0 .. (K_WRAP - 1)]
    /\ aux_lost \in BOOLEAN

(***************************************************************************)
(* lte-UE/ue/test/lte-rece.cc:134, on receiving a DCI: "The next PDU       *)
(* belongs to NO.%d".  A PDU is taken with the DCI that was sent for it.   *)
(***************************************************************************)
NextPduBelongs ==
    \A u \in Rnti :
      ue_pc[u] = "data" /\ data[u] # <<>> =>
        Head(data[u]).aux_pid = ue_dci[u]

(***************************************************************************)
(* Without loss, busy_num counts the transmissions that are not yet        *)
(* answered, plus the process the sender has in hand: it does not          *)
(* underflow and the sender waits no longer than needed, even when the     *)
(* answers name the wrong processes.                                       *)
(***************************************************************************)
BusyNumCountsUnanswered ==
    ~aux_lost => \A u \in Rnti :
      busy_num[u] = Cardinality(SenderHas(u)) + Len(data[u]) + Len(ack[u])
                      + Cardinality(ReceiverHas(u))

(***************************************************************************)
(* With loss, the feedback that may still come never outnumbers busy_num:  *)
(* however DCIs, PDUs and answers are lost, the decrement of ack_recv does *)
(* not wrap busy_num around, which would block the sender for good.        *)
(***************************************************************************)
BusyNumCoversUnanswered ==
    \A u \in Rnti :
      busy_num[u] >= Cardinality(SenderHas(u)) + Len(data[u]) + Len(ack[u])
                       + Cardinality(ReceiverHas(u))

(***************************************************************************)
(* The network and the UE program are one of the environments Spec allows: *)
(* what holds of the entities under arbitrary feedback holds here.         *)
(***************************************************************************)
ImplementsEntity == Spec

(***************************************************************************)
(* Without loss, the DCIs that wait for their PDU are at least as many as  *)
(* the PDUs on the way: the UE never runs out of DCIs before it runs out   *)
(* of PDUs, so no PDU is left in its socket once all threads have come to  *)
(* rest.                                                                   *)
(***************************************************************************)
EveryPduHasADci ==
    ~aux_lost => \A u \in Rnti :
      Len(data[u]) <= Len(dci[u]) + (IF ue_pc[u] = "data" THEN 1 ELSE 0)
=============================================================================
