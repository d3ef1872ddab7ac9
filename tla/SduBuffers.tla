----------------------------- MODULE SduBuffers -----------------------------
(***************************************************************************)
(* The buffers of the eNB's downlink packets and the threads that hand     *)
(* them on:                                                                *)
(*                                                                         *)
(*   - the IP thread (test/lte-ip-pkt.cc) fills its N_IP buffers in turn   *)
(*     and writes them to the RNTIs' queues in turn;                       *)
(*   - a queue is a msg_queue (hdr/common/msg_queue.h): write() waits on a *)
(*     condition while it is full, read() notifies after its unlock;       *)
(*   - the sender of an RNTI makes RLC PDUs of the queue's buffers         *)
(*     (rlc_um::build_data_pdu, called by mux::allocate_sdu).  It takes    *)
(*     the buffer of a PDU from buffer_pool, and gives to buffer_pool the  *)
(*     PDU's buffer and every IP buffer it has used up;                    *)
(*   - buffer_pool is a linked list of free buffers whose deallocate()     *)
(*     takes any buffer.                                                   *)
(*                                                                         *)
(* Buffers are numbers, those of the IP thread first.  Lengths are counted *)
(* in units, a packet has one or two; how much a PDU has room for is left  *)
(* open, but the first PDU of a MAC PDU has some.  HARQ is left out: the   *)
(* sender comes back for the next MAC PDU.                                 *)
(***************************************************************************)
EXTENDS Integers, Sequences, FiniteSets, SequencesExt

CONSTANTS
    N_RNTI,       \* RNTIs the IP thread serves in turn (4)
    CAP,          \* capacity of tx_sdu_queue (16)
    N_IP,         \* sdu_bufs of the IP thread (200)
    POOL_SIZE,    \* buffers of the pool (2048)
    LongPackets,  \* packets that may be split between two PDUs
    MAX_READS,    \* bound: packets read from the tun device
    MAX_LEAKS,    \* bound: RLC PDUs for which there was too little room
    NULL

ASSUME SduBuffersAssumption ==
    /\ {N_RNTI, CAP, N_IP, POOL_SIZE} \subseteq Nat \ {0}
    /\ {MAX_READS, MAX_LEAKS} \subseteq Nat
    /\ NULL \notin Int

\* More buffers than the queues, and for each RNTI an SDU in work, can hold.
ASSUME EnoughBuffers == N_RNTI * (CAP + 1) < N_IP

Rnti == 0 .. (N_RNTI - 1)
N_BUF == N_IP + POOL_SIZE
Buffer == 0 .. (N_BUF - 1)

VARIABLES
    \* --- byte_buffer_t, per buffer
    n_bytes,          \* N_bytes
    content,          \* the packet msg points to, 0: the buffer's own storage
    next,
    \* --- buffer_pool
    first_available,
    \* --- the IP thread
    reads,            \* packets read: k and i are reads modulo N_IP and N_RNTI
    ipc,
    \* --- per RNTI: msg_queue
    queue,            \* the unread elements of buf
    unread_bytes,
    \* --- per RNTI: the sender
    spc,
    tx_sdu,
    pdu,
    \* --- history
    aux_sdus,         \* per RNTI: packets accepted and not used up
    aux_leaks         \* buffers forgotten for want of room

bufVars == <<n_bytes, content>>
poolVars == <<next, first_available>>
ipVars == <<reads, ipc>>
queueVars == <<queue, unread_bytes>>
senderVars == <<spc, tx_sdu, pdu>>
auxVars == <<aux_sdus, aux_leaks>>
vars == <<bufVars, poolVars, ipVars, queueVars, senderVars, auxVars>>

\* The length of a packet, in units that a PDU does not split.
length(packet) == IF packet \in LongPackets THEN 2 ELSE 1

\* Mutant of k: it goes back to 0 one buffer early.
kShort == reads % (N_IP - 1)

\* The packet that is read or written now has its buffer and its RNTI.
k == reads % N_IP
i == reads % N_RNTI

Init ==
    /\ n_bytes = [b \in Buffer |-> 0]
    /\ content = [b \in Buffer |-> 0]
    /\ next = [b \in Buffer |->
                 IF b < N_IP \/ b = N_BUF - 1 THEN NULL ELSE b + 1]
    /\ first_available = N_IP
    /\ reads = 0
    /\ ipc = "read"
    /\ queue = [u \in Rnti |-> <<>>]
    /\ unread_bytes = [u \in Rnti |-> 0]
    /\ spc = [u \in Rnti |-> "poll"]
    /\ tx_sdu = [u \in Rnti |-> NULL]
    /\ pdu = [u \in Rnti |-> NULL]
    /\ aux_sdus = [u \in Rnti |-> <<>>]
    /\ aux_leaks = 0

-----------------------------------------------------------------------------
(* The IP thread.                                                          *)

\* Mutant of is_full: one more fits in.
is_fullLate(u) == Len(queue[u]) = CAP + 1

is_full(u) == Len(queue[u]) = CAP

\* A packet comes from the tun device into buffer k.
ReadTun ==
    /\ ipc = "read"
    /\ reads < MAX_READS
    /\ content' = [content EXCEPT ![k] = reads + 1]
    /\ n_bytes' = [n_bytes EXCEPT ![k] = length(reads + 1)]
    /\ ipc' = "write"
    /\ UNCHANGED <<poolVars, reads, queueVars, senderVars, auxVars>>

\* write() appends, with the lock held ...
Write ==
    /\ ipc = "write"
    /\ ~is_full(i)
    /\ queue' = [queue EXCEPT ![i] = Append(@, k)]
    /\ unread_bytes' = [unread_bytes EXCEPT ![i] = @ + n_bytes[k]]
    /\ aux_sdus' = [aux_sdus EXCEPT ![i] = Append(@, reads + 1)]
    /\ reads' = reads + 1
    /\ ipc' = "read"
    /\ UNCHANGED <<bufVars, poolVars, senderVars, aux_leaks>>

\* ... or waits for not_full, which gives up the lock in the same step ...
Wait ==
    /\ ipc = "write"
    /\ is_full(i)
    /\ ipc' = "wait"
    /\ UNCHANGED <<bufVars, poolVars, reads, queueVars, senderVars, auxVars>>

\* ... and may wake without having been notified.
WakeSpuriously ==
    /\ ipc = "wait"
    /\ ipc' = "write"
    /\ UNCHANGED <<bufVars, poolVars, reads, queueVars, senderVars, auxVars>>

-----------------------------------------------------------------------------
(* buffer_pool.  Each is one step, under the pool's mutex.                 *)

\* Mutant of allocate: the buffer stays in the list.
allocateStays == UNCHANGED <<first_available, next>>

\* A buffer leaves the list, to be the PDU of u or to be forgotten.
allocate == first_available' = next[first_available] /\ UNCHANGED next

\* reset(), and to the front of the list.
deallocate(b, lengths) ==
    /\ n_bytes' = [lengths EXCEPT ![b] = 0]
    /\ content' = [content EXCEPT ![b] = 0]
    /\ next' = [next EXCEPT ![b] = first_available]
    /\ first_available' = b

-----------------------------------------------------------------------------
(* The sender of an RNTI.                                                  *)

Goto(u, pc) == spc' = [spc EXCEPT ![u] = pc]

\* get_buffer_state(), from the lengths counted when the SDUs were written.
\* Length indicators, of which there are some for two SDUs or more, need less
\* than a unit.
buffer_state(u) ==
    2 * (unread_bytes[u] + (IF tx_sdu[u] = NULL THEN 0 ELSE n_bytes[tx_sdu[u]]))
      + (IF Len(queue[u]) > (IF tx_sdu[u] = NULL THEN 1 ELSE 0) THEN 1 ELSE 0)

\* allocate_sdu() asks for an RLC PDU: n_unread() > 0 began a MAC PDU, or
\* there is more space in it.  (What u has queued only grows in between.)
Asks(u) ==
    /\ \/ spc[u] = "poll" /\ queue[u] # <<>>
       \/ spc[u] = "more"
    /\ buffer_state(u) > 0

\* There is no more space, or nothing to send.
EndPdu(u) ==
    /\ spc[u] = "more"
    /\ Goto(u, "poll")
    /\ UNCHANGED <<bufVars, poolVars, ipVars, queueVars, tx_sdu, pdu, auxVars>>

\* build_data_pdu() has data and a buffer: the rest of an SDU comes first.
BeginBuild(u) ==
    /\ Asks(u)
    /\ tx_sdu[u] # NULL \/ queue[u] # <<>>
    /\ first_available # NULL
    /\ n_bytes[first_available] = 0
    /\ pdu' = [pdu EXCEPT ![u] = first_available]
    /\ allocate
    /\ Goto(u, IF tx_sdu[u] # NULL THEN "move" ELSE "pull")
    /\ UNCHANGED <<bufVars, ipVars, queueVars, tx_sdu, auxVars>>

\* It returns 0 and the MAC PDU is sent as it is: the pool is empty, ...
BuildWithoutPool(u) ==
    /\ Asks(u)
    /\ first_available = NULL
    /\ Goto(u, "poll")
    /\ UNCHANGED <<bufVars, poolVars, ipVars, queueVars, tx_sdu, pdu, auxVars>>

\* ... or the buffer it has taken is not empty, or there is no room for a
\* header.  That buffer is not given back.
BuildLeaks(u) ==
    /\ Asks(u)
    /\ first_available # NULL
    /\ \/ n_bytes[first_available] # 0 /\ UNCHANGED aux_leaks
       \/ spc[u] = "more" /\ aux_leaks < MAX_LEAKS /\ aux_leaks' = aux_leaks + 1
    /\ allocate
    /\ Goto(u, "poll")
    /\ UNCHANGED <<bufVars, ipVars, queueVars, tx_sdu, pdu, aux_sdus>>

\* read() takes an SDU from the queue; it would wait if there were none ...
Pull(u) ==
    /\ spc[u] = "pull"
    /\ queue[u] # <<>>
    /\ tx_sdu' = [tx_sdu EXCEPT ![u] = Head(queue[u])]
    /\ queue' = [queue EXCEPT ![u] = Tail(@)]
    /\ unread_bytes' = [unread_bytes EXCEPT ![u] = @ - n_bytes[Head(queue[u])]]
    /\ Goto(u, "notify")
    /\ UNCHANGED <<bufVars, poolVars, ipVars, pdu, auxVars>>

\* Mutant of Notify: nobody is woken.
NotifyNobody(u) ==
    /\ spc[u] = "notify"
    /\ Goto(u, "move")
    /\ UNCHANGED <<bufVars, poolVars, ipVars, queueVars, tx_sdu, pdu, auxVars>>

\* ... and notifies not_full, where the IP thread waits if it is full of i.
Notify(u) ==
    /\ spc[u] = "notify"
    /\ ipc' = IF ipc = "wait" /\ i = u THEN "write" ELSE ipc
    /\ Goto(u, "move")
    /\ UNCHANGED <<bufVars, poolVars, reads, queueVars, tx_sdu, pdu, auxVars>>

\* Mutant of MovePart: the SDU's buffer is given up although a part is left.
MovePartFrees(u) ==
    /\ spc[u] = "move"
    /\ n_bytes[tx_sdu[u]] > 1
    /\ deallocate(tx_sdu[u], n_bytes)
    /\ Goto(u, "finish")
    /\ UNCHANGED <<ipVars, queueVars, tx_sdu, pdu, auxVars>>

\* A part of the SDU fills the PDU, or none if it is not the first in it: its
\* length indicator has taken the last room.
MovePart(u) ==
    /\ spc[u] = "move"
    /\ \E n \in 0 .. (n_bytes[tx_sdu[u]] - 1) :
         /\ n = 0 => n_bytes[pdu[u]] > 0
         /\ n_bytes' =
              [n_bytes EXCEPT ![pdu[u]] = @ + n, ![tx_sdu[u]] = @ - n]
    /\ Goto(u, "finish")
    /\ UNCHANGED <<content, poolVars, ipVars, queueVars, tx_sdu, pdu, auxVars>>

\* Mutant of MoveAll: the loop does not look whether there is another SDU.
MoveAllBlind(u) ==
    /\ spc[u] = "move"
    /\ deallocate(tx_sdu[u],
                  [n_bytes EXCEPT ![pdu[u]] = @ + n_bytes[tx_sdu[u]]])
    /\ tx_sdu' = [tx_sdu EXCEPT ![u] = NULL]
    /\ aux_sdus' = [aux_sdus EXCEPT ![u] = Tail(@)]
    /\ \/ Goto(u, "pull")
       \/ Goto(u, "finish")
    /\ UNCHANGED <<ipVars, queueVars, pdu, aux_leaks>>

\* All of it goes in, and its buffer to the pool, the IP thread's own too.
\* The loop over the queue goes on while there are room and SDUs.
MoveAll(u) ==
    /\ spc[u] = "move"
    /\ deallocate(tx_sdu[u],
                  [n_bytes EXCEPT ![pdu[u]] = @ + n_bytes[tx_sdu[u]]])
    /\ tx_sdu' = [tx_sdu EXCEPT ![u] = NULL]
    /\ aux_sdus' = [aux_sdus EXCEPT ![u] = Tail(@)]
    /\ \/ queue[u] # <<>> /\ Goto(u, "pull")
       \/ Goto(u, "finish")
    /\ UNCHANGED <<ipVars, queueVars, pdu, aux_leaks>>

\* The PDU has been copied into the MAC PDU, which takes it or refuses it.
Finish(u) ==
    /\ spc[u] = "finish"
    /\ deallocate(pdu[u], n_bytes)
    /\ pdu' = [pdu EXCEPT ![u] = NULL]
    /\ \E pc \in {"more", "poll"} : Goto(u, pc)
    /\ UNCHANGED <<ipVars, queueVars, tx_sdu, auxVars>>

Sender(u) ==
    \/ BeginBuild(u) \/ BuildWithoutPool(u) \/ BuildLeaks(u) \/ EndPdu(u)
    \/ Pull(u) \/ Notify(u) \/ MovePart(u) \/ MoveAll(u) \/ Finish(u)

-----------------------------------------------------------------------------

Next == ReadTun \/ Write \/ Wait \/ WakeSpuriously \/ \E u \in Rnti : Sender(u)

\* A sender can step unless it polls an empty queue or polls the pool.
SenderCanStep(u) ==
    \/ spc[u] \in {"more", "notify", "move", "finish"}
    \/ spc[u] = "pull" /\ queue[u] # <<>>
    \/ /\ Asks(u)
       /\ first_available # NULL
       /\ n_bytes[first_available] = 0 \/ next[first_available] # first_available

\* The threads are scheduled; packets and spurious wake-ups need not come.
\* This is weak fairness of Write \/ Wait and of Sender(u).
Fairness ==
    /\ <>[](ipc = "write") => []<><<Write \/ Wait>>_vars
    /\ \A u \in Rnti : <>[]SenderCanStep(u) => []<><<Sender(u)>>_vars

Spec == Init /\ [][Next]_vars /\ Fairness
-----------------------------------------------------------------------------
(* Properties.                                                             *)

BuffersTypeOK ==
    /\ n_bytes \in [Buffer -> Nat]
    /\ content \in [Buffer -> 0 .. MAX_READS]
    /\ next \in [Buffer -> Buffer \cup {NULL}]
    /\ first_available \in Buffer \cup {NULL}
    /\ reads \in 0 .. MAX_READS
    /\ ipc \in {"read", "write", "wait"}
    /\ queue \in [Rnti -> Seq(Buffer)]
    /\ \A u \in Rnti : Len(queue[u]) <= CAP
    /\ unread_bytes \in [Rnti -> Int]
    /\ spc \in [Rnti -> {"poll", "more", "pull", "notify", "move", "finish"}]
    /\ tx_sdu \in [Rnti -> Buffer \cup {NULL}]
    /\ pdu \in [Rnti -> Buffer \cup {NULL}]
    /\ aux_sdus \in [Rnti -> Seq(1 .. MAX_READS)]
    /\ aux_leaks \in 0 .. MAX_LEAKS

(***************************************************************************)
(* The IP thread waits for not_full only while the queue it waits for is   *)
(* full, or its reader is about to notify: no wake-up is lost between      *)
(* read()'s unlock and its notify_one() (msg_queue.h:55-56).               *)
(***************************************************************************)
WriterNotForgotten == ipc = "wait" => is_full(i) \/ spc[i] = "notify"

(***************************************************************************)
(* build_data_pdu() never calls read() on an empty queue, where it would   *)
(* sleep for ever holding mux's mutex: the SDUs it has seen are there      *)
(* still, and it has not already begun one.                                *)
(***************************************************************************)
ReadDoesNotBlock ==
    \A u \in Rnti : spc[u] = "pull" => queue[u] # <<>> /\ tx_sdu[u] = NULL

(***************************************************************************)
(* The buffers of u's unfinished SDUs, oldest first.                       *)
(***************************************************************************)
Unfinished(u) ==
    (IF tx_sdu[u] = NULL THEN <<>> ELSE <<tx_sdu[u]>>) \o queue[u]

(***************************************************************************)
(* The IP thread, which never asks whether a buffer is free again, does    *)
(* not read a packet into one that an RNTI has still to send: the full     *)
(* queues stop it first (lte-ip-pkt.cc:32, "reads and writes will          *)
(* certainly not overlap").                                                *)
(***************************************************************************)
NeverOverwrites ==
    [][ReadTun => \A u \in Rnti : \A j \in DOMAIN Unfinished(u) :
                    Unfinished(u)[j] # k]_vars

(***************************************************************************)
(* Each RNTI's packets, in the order they were read, are what its queue    *)
(* holds: the bytes of every packet accepted stay in its buffer, and at    *)
(* full length until it is the turn of the packet to be sent.              *)
(***************************************************************************)
PacketsIntact ==
    \A u \in Rnti :
      /\ Len(Unfinished(u)) = Len(aux_sdus[u])
      /\ \A j \in DOMAIN Unfinished(u) :
           content[Unfinished(u)[j]] = aux_sdus[u][j]
      /\ \A j \in DOMAIN queue[u] :
           n_bytes[queue[u][j]] = length(content[queue[u][j]])

\* The IP thread has not yet used a buffer for the second time.
FirstRound == reads < N_IP \/ (reads = N_IP /\ ipc = "read")

(***************************************************************************)
(* In the first round nothing happens to a packet between the IP thread    *)
(* and the RLC PDU it goes into, and size_bytes() is the length of what is *)
(* queued, although it is summed up when lengths were written and read.    *)
(***************************************************************************)
FirstRoundIntact ==
    FirstRound =>
      /\ PacketsIntact
      /\ \A u \in Rnti :
           unread_bytes[u] =
             FoldLeft(+, 0, [j \in DOMAIN queue[u] |-> n_bytes[queue[u][j]]])

\* The free list, followed from its head.
Chain[n \in 0 .. N_BUF] ==
    IF n = 0 THEN first_available
    ELSE LET b == Chain[n - 1] IN IF b = NULL THEN NULL ELSE next[b]

Free == {Chain[n] : n \in 0 .. (N_BUF - 1)} \ {NULL}

\* What u holds: its unfinished SDUs, and the PDU it is building.
Held(u) == Range(Unfinished(u)) \cup ({pdu[u]} \ {NULL})

(***************************************************************************)
(* In the first round the free list ends, and no buffer has two owners:    *)
(* the list, an RNTI, or the IP thread that has still to use it; although  *)
(* the list takes in the IP thread's buffers, and PDUs are built in them.  *)
(***************************************************************************)
FirstRoundOwners ==
    FirstRound =>
      /\ Chain[N_BUF] = NULL
      /\ \A u \in Rnti :
           /\ Cardinality(Held(u)) =
                Len(Unfinished(u)) + (IF pdu[u] = NULL THEN 0 ELSE 1)
           /\ Held(u) \cap (Free \cup (reads .. N_IP - 1)) = {}
           /\ \A v \in Rnti \ {u} : Held(u) \cap Held(v) = {}
      /\ Free \cap (reads .. N_IP - 1) = {}

(***************************************************************************)
(* buffer_pool.h:45: the pool "uses a linked list to keep track of         *)
(* available buffers".  No RNTI holds a buffer of the list, and the IP     *)
(* thread is not filling one.                                              *)
(***************************************************************************)
ListedAreAvailable ==
    /\ \A u \in Rnti : Held(u) \cap Free = {}
    /\ ipc # "read" => k \notin Free

(***************************************************************************)
(* A write that waits for room in one RNTI's queue, and with it the        *)
(* traffic of all RNTIs, goes on: senders that come back for PDUs are      *)
(* enough, with the buffers there are and MAX_LEAKS of them lost.          *)
(***************************************************************************)
WriteEnds == []<>(ipc = "read")
=============================================================================
