# TLA+ models of the HARQ test bed

The repository holds two programs derived from srsUE. The **eNB program**
(`src/lte-eNB/enb_ue`) takes IP packets from a tun device, passes them through
an RLC UM transmitter and a MAC multiplexer for each of four UEs (RNTI 0 to 3),
and sends the MAC PDUs over UDP under the control of a stop-and-wait HARQ with
eight processes per RNTI. The **UE program** (`src/lte-UE/ue`) receives PDUs,
answers ACK or NACK, and passes the PDUs to a demultiplexer and an RLC UM
receiver. Ports, each plus the RNTI: 6604 data, 7707 "DCI" (which process the
next PDU belongs to), 5500 ACK.

What the repository adds to srsUE, and what this project models first, is the
HARQ: `test/FX_MAC.h` and the sender and receiver threads around it. Paths below
are relative to `src/lte-eNB/enb_ue/` unless they begin with `UE:`
(`src/lte-UE/ue/`).

Contents: [inventory](#1-inventory) · [modules](#2-modules-and-how-they-correspond-to-the-code) ·
[runs](#3-what-the-runs-check) · [fairness](#4-fairness) · [proofs](#5-what-is-proved) ·
[findings](#6-where-the-code-and-its-documentation-disagree) ·
[abstractions](#7-abstractions-and-what-is-not-modelled) · [plan](#8-plan)

## 1. Inventory

### Components

| component | state | operations | correct when |
|---|---|---|---|
| **qbuff**, ring of PDUs (`test/qbuff.cc`) | `packets[64]` with `valid` flags, `rp`, `wp` | `init/flush`, `send`, `push`, `pop`, `pop(idx)`, `release`, `recv`, `move_to`, `isempty`, `isfull` | a bounded FIFO; never released when empty |
| **UE_process_FX**, HARQ entity (`test/FX_MAC.h`) | `busy_num`, `busy_index[8]`, `ACK[8]`, a ring per process, `busy_LOCK`, `ACK_LOCK`, `busy_signal`; the function-level statics `pid_not_busy` and `retrans_times[8]`, which **all** entities share | `pdu_store`, `pdu_in`, `harq_busy`, `trans_control`, `reset`, `ack_recv` | `busy_num` counts; a process in the air is not picked; feedback is applied to the PDU it was sent for; no PDU is sent more often than the limit; the scans end |
| **sender**, one thread per RNTI (`test/lte-udp.cc`) | `pid_now`, `payload_back`, `payload_tosend` | poll the RLC, `pdu_get`, `pdu_in`, `harq_busy`, send DCI, send PDU, `reset` when a send fails or there is no PDU | returns to its poll; DCIs and PDUs stay in step |
| **receiver**, one thread per RNTI (`test/lte-rece.cc`) | `ack_reply` | receive feedback, `ack_recv`, write `ACK[]` | no feedback lost; no deadlock with the sender |
| **UE receiver** (`UE:test/lte-rece.cc`) | counter `k`, `dci` | receive DCI, receive PDU, deliver, answer (every third NACKed), run the reordering timer to its end | answers for the process the PDU was sent on |
| **pdu_queue** (`test/pdu_queue.cc`) | `pdu_q[8]` of rings | `init`; `request_buffer`, `push_pdu`, `process_pdus` reached by no thread | as qbuff |
| **msg_queue** (`hdr/common/msg_queue.h`) | ring of buffer pointers, `unread`, `unread_bytes` | blocking `write` and `read`, `try_read`, sizes | FIFO; nobody waits for ever |
| **IP thread** (`test/lte-ip-pkt.cc`) | 200 `sdu_bufs`, RNTI to serve next | read tun, write to the RLC of the next RNTI | a buffer is not reused while queued |
| **rlc_um** (`test/rlc_um.cc`) | TX: `tx_sdu`, `tx_sdu_queue`, `vt_us`; RX: `vr_ur`, `vr_ux`, `vr_uh`, `rx_window`, `rx_sdu`, reordering timer | segmentation; reordering, reassembly, timer expiry | TX: no byte of an SDU is left out or sent twice; RX: of one transmitter's PDUs, SDUs come out in order, uncorrupted, at most once |
| **buffer_pool** (`test/buffer_pool.cc`) | free list, used list | `allocate`, `deallocate` | a buffer has one owner |
| **timers** (`hdr/common/timers.h`) | counter, timeout, running | `run`, `stop`, `step_all` | the callback runs once per expiry |
| **mux** (`test/mux.cc`) | logical channels, `Bj`, a mutex | `pdu_get`, `allocate_sdu` | no SDU bytes lost |
| **demux, sch_pdu** (`test/demux.cc`, `test/pdu.cc`) | sub-headers of one PDU | `write_packet`, `parse_packet`, `process_pdu` | what is written is what is parsed |
| **start-up** (`test/lte-ue-main.cc`) | barrier of 9, thread ids | create 4+4 threads, wait | all state is initialised before it is used |
| UE uplink, tun, BSR/PHR, `dl_harq.cc`, upstream sources | | | see "not modelled" |

### How they interact

```
 tun -> IP thread -> msg_queue[rnti] -> rlc_um -> mux.pdu_get()
                                                     |
             sender[rnti]: pdu_in -> ring of a process -> harq_busy/trans_control
                 |  DCI 7707      |  PDU 6604                    ^ busy_LOCK, ACK_LOCK
                 v                v                              | busy_signal
             UE receiver[rnti] -> demux -> rlc_um            receiver[rnti]
                 |______________ ACK 5500 ______________________^
```

* Sender and receiver of one RNTI share the entity. `pdu_in`, `reset` and
  `harq_busy` take `busy_LOCK`; `trans_control`, called by `harq_busy` with
  `busy_LOCK` held, takes `ACK_LOCK`; the receiver takes `ACK_LOCK` and then, in
  `ack_recv`, `busy_LOCK`.
* The IP thread and the senders share the queues, each under its own mutex, and
  the senders share the buffer pool; buffers go from one to the other by pointer.
* Senders of *different* RNTIs share `pid_not_busy` and `retrans_times`, each
  under its own entity's lock, that is, under none.
* The eNB and the UE share only the three sockets. No sequence number ties a
  PDU to its DCI, or an answer to a transmission.

### What is hard

`PROJECT.json` lists each hazard with its line. The groups: lock order and lost
wake-ups between sender and receiver; two unsynchronised statics; `ACK[]` and
`retrans_times[]` that outlive the PDU they were about; unbounded scans with a
lock held; an unsigned counter stepped down by whatever arrives; DCI and PDU on
separate sockets; loss without a timeout; rings, queues and pools at their
limits; sequence-number windows in the RLC.

## 2. Modules and how they correspond to the code

| module | role |
|---|---|
| `Qbuff` | class `qbuff`: the ring as a record, each method as an operator. No variables, so that its users call it by name. |
| `QbuffFifo`, `PduFifo` | rings driven through the whole interface; the abstract bounded queue they implement, with the refinement mapping `Contents` (of `Qbuff`). |
| `HarqEntity` | the HARQ entities, the sender and the receiver threads, for any set of RNTIs. `Spec`: any feedback at any time. `SpecDue`: each transmission is answered at most once. `FairSpecDue`: with fairness. |
| `StopAndWait` | what `SpecDue` implements: processes with a bounded queue each, which send its head and wait. |
| `HarqLink` | `HarqEntity` composed with the three sockets and the UE's thread. |
| `RlcUmTx`, `RlcUmRx` | the RLC's transmitter and receiver, as records and operators. |
| `SchPdu` | the layout of a MAC PDU: what the multiplexer of the eNB writes, what the UE reads of it. |
| `RlcUm` | `RlcUmTx`, `RlcUmRx` and `SchPdu` composed: the IP thread, the sender's multiplexer, HARQ as a channel of which nothing is asked, the UE's demultiplexer and timer. |
| `SduBuffers` | the buffers packets are in: IP thread, blocking queues, senders and buffer pool, at the grain of their locks. |
| `MCHarqEntity`, `MCHarqLink` | symmetry sets and views for TLC. |
| `QbuffProofs`, `QbuffFifoProofs`, `HarqEntityProofs`, `SduBuffersProofs`, `SchPduProofs`, `RlcUmProofs`, `RlcJourneyProofs` | the theorems, section 5; `HarqEntityProofs` has those about `HarqLink` too. |
| `FoldLemmas` | what the last four need about folds over sequences and about their concatenation. |

`RlcUm` and `SduBuffers` are two views of the same code, `build_data_pdu`: in
`RlcUm` a build is one step and what goes into a PDU is exact; in `SduBuffers` a
build has the steps other threads can see, and how much goes into a PDU is open.

**Qbuff.** A slot holds its PDU, or `NULL` for `valid == false`. `push`, `pop`
and `release` check as little as the code does: `release` clears the slot at
`rp` and moves on, `push` overwrites the slot at `wp`. `send` is what
`request()` followed by `push()` gives.

**HarqEntity.** One action is the code between two points at which another
thread can see or change what it uses.

| code | actions |
|---|---|
| `lte_send_udp` up to `pdu_get()` | `PduGet`, with a PDU or `NULL` |
| `pdu_in` | `InLock` (lock, load of `pid_not_busy`), `InStore` (the scan, `pdu_store`, store of `pid_not_busy`), `InRewind` (`flag`: back to 0) |
| `harq_busy` | `HbLock`, `HbWait`, `HbWake`, `HbSpurious`, `HbScan` |
| `trans_control` | `TcAcked`; or `TcNacked` (load of `retrans_times[pid]`) and then `TcRetransmit`, or `TcOverflow` and `TcDiscard` |
| the rest of `lte_send_udp` | `SendDci`, `SendData`, `SendFails`, `Reset` |
| `lte_rece` | `Recv`, `LockAck`, `AckRecv` (`ack_recv`), `SetAck` |

The two statics are shared by threads that hold different locks: a data race,
undefined in C++. What a compiled build does, and what the model does, is to
load them into a register (`tmp`) and to store them later; any thread may step
in between. `ACK_LOCK` is held by the sender within one step only: nothing that
it reads under it can change before it lets go, since the receiver needs
`ACK_LOCK` to write `ACK[]`.

A scan without a process to find is a disabled action, not an action that gives
up: the code spins with `busy_LOCK` held. `ScanFinds` says when that does not
happen.

`air[u][p]` is the PDU whose feedback is due. `aux_tx`, `aux_acked` and `aux_fb`
are history: no guard reads them.

The abstract view of an entity is `StopAndWait`: the queue of a process is what
its ring holds (`Contents`), what it has in flight is `air`. `busy_num`,
`busy_index`, `ACK`, the locks, the statics and both program counters are hidden.

**HarqLink.** A socket is a FIFO. `LinkSendDci`, `LinkSendData` and `LinkRecv`
are actions of `HarqEntity` with a datagram put in or taken out; `LinkLocal` is
everything the eNB does without one. `UeDci` and `UeData` are the two receives
of the UE's loop. A datagram of data carries the process it was sent for as
`aux_pid`, which no action reads. The UE decides between ACK and NACK from its
counter `k` only.

**RlcUmTx, RlcUmRx, RlcUm.** The eNB's RLC transmitter and the UE's receiver
are records, their functions operators on them (`build_data_pdu`,
`handle_data_pdu`, `reassemble_rx_sdus`, `timer_expired`); `RlcUm` is the system
around them.

| code | actions |
|---|---|
| `lte_send_ip_3`: `write_sdu` to a queue that blocks when full | `WriteSdu` |
| `lte_send_udp`: poll of `n_unread()`, `mux::pdu_get` | `Poll`, then `Allocate` (what `allocate_sdu` asks for) and `Build` (`set_sdu`, `read_pdu`) in turn, with the space `SchPdu` leaves |
| `sch_pdu::write_packet`, then HARQ between the two programs | `Send`: the MAC PDU is its sub-headers and its RLC PDUs |
| UE: `sch_pdu::parse_packet` | `Deliver`: the payloads are where the sub-headers say |
| UE: `demux::process_sch_pdu`, `rlc_um::write_pdu` | `WritePdu`, `Demuxed` |
| UE: `while(!is_expired()) step();` | `StepTimer`, `TimerExpired`, `TimerOff` |

The IP thread may write between `get_buffer_state` and `build_data_pdu`, and a
write during `build_data_pdu` is the same as one before it. A byte is its SDU
and its position in it, so that the receiver's output can be compared with what
was written.

`Send` and `Deliver` stand for the HARQ of the other modules. A MAC PDU that was
handed over (`air`, which only grows) may come at any time from then on, any
number of times, or never. The code gives no bound on how late that is:
`harq_busy` scans from process 0 in every turn (`test/FX_MAC.h:243`), so that a
NACKed PDU of process 1 waits for as long as process 0 is answered in time, with
no ring full and nothing lost. Every RNTI of `Rnti` has a transmitter; there is one
receiver, `rx`, as there is one `rlc3`.

Two properties hold only of what an RLC receiver is made for, and the state says
when that is the case. `aux_line` records every RLC PDU built, `aux_first` and
`aux_next` are places in it, numbers that do not wrap; a MAC PDU `Fits` when it
lies no more than `WINDOW` numbers before, or behind, the place after the newest
that came, and no other RNTI has been heard. `aux_fit` says that every one so far
did; `delivered` records the SDUs written to the tun device while it is true. No
guard reads these variables, `REACH` excepted, which is a bound of the runs
(section 3).

`timer_expired` passes PDUs on in a loop that ends when `vr_ur` has left the part
of the window below `vr_ux` (`UE:test/rlc_um.cc:198`). It may never end: while a
thread has stopped the timer and waits to call back, the thread of another RNTI
may pass on more than a window of PDUs, and `vr_ux` is then outside. `timer_loop`
makes `SN_MOD` turns, no fewer than a loop that ends; if `GivenUp` is then still
false, `TimerExpired` is disabled and the thread stays there. (The code's thread
then holds the RLC's mutex, and the others wait for it; in the model they may go
on, which allows more.)

**SchPdu.** A PDU being written is the space left and the lengths of its SDUs
(`init_tx`, `new_subh`, `get_sdu_space`, `add_sdu` with `update_space_sdu`). From
that `subheaders` builds what `write_packet` writes: one or two bytes of padding
in front, more behind, in which case the last SDU's sub-header is no longer the
last and grows to its full size. `Written` is that `write_packet` finds its sizes
to add up and does not return `NULL`. `parse_packet` sees the sub-headers only
and works out the size of the last payload from what is left.

**SduBuffers.** Buffers are numbers, the IP thread's 200 first and the pool's
after them; the free list is the code's linked list, `first_available` and
`next`, since what goes wrong with it is a matter of the links.

| code | actions |
|---|---|
| `lte_send_ip_3`: the read of a packet into `sdu_bufs[k]` | `ReadTun` |
| `msg_queue::write` | `Write`, or `Wait` on `not_full` and then, notified or not (`WakeSpuriously`), again |
| `mux::allocate_sdu` asks `rlc_um` for a PDU | `BeginBuild`; `BuildWithoutPool` when the pool is empty; `BuildLeaks` when the buffer is forgotten on an early return |
| `msg_queue::read` in `build_data_pdu` | `Pull` under the lock, `Notify` after the unlock |
| the copy of an SDU into the PDU | `MovePart`, or `MoveAll`, which gives the SDU's buffer to the pool |
| the end of `build_data_pdu` and of `pdu_get` | `Finish`, `EndPdu` |
| `buffer_pool` | `allocate`, `deallocate`, each under the pool's mutex |

## 3. What the runs check

TLC finishes each of the passing runs. The state counts are orders of magnitude.

| run | instance | checks | states |
|---|---|---|---|
| `qbuff_fifo` | 2 rings of 3 slots, 3 PDUs; deadlock checked | `ImplementsFifo` | 14 k |
| `harq_due` | 1 entity, 2 processes, rings of 2, 3 PDUs, fair | `TypeOK`, `OneOwner`, `BusyNumExact`, `HeadInFlight`, `FreshAck`, `RingsWellShaped`, `TransmissionsBounded`, `ImplementsStopAndWait`, `SenderReturns` | 1.0 M |
| `harq_two` | 2 entities sharing the statics, 2 processes, rings of 1, 2 PDUs | `BusyNumExact`, `ScanFinds` | 1.5 M |
| `link` | 1 entity, the sockets and the UE, rings of 1, 3 PDUs, loss on each socket, a failing multiplexer | `LinkTypeOK`, `BusyNumCountsUnanswered`, `BusyNumCoversUnanswered`, `EveryPduHasADci`, `ImplementsEntity` | 840 k |
| `rlc_um` | 1 RNTI, 4 SDUs of 1, 4 or 26 bytes, MAC PDUs of 12 bytes with long sub-headers from 6 bytes on, queue of 2, sequence numbers mod 8 with a window of 4 | `RlcTypeOK`, `FramingTrue`, `MacPduFits`, `ParsedAsWritten`, `StreamIntact`, `SdusWhole`, `InOrderOnce`, `NothingStranded`, `UeReturns` | 367 k |
| `sdu_buffers` | 2 RNTIs, queues of 1, 5 IP buffers, a pool of 2, 6 packets of which one may be split, 1 buffer forgotten | `BuffersTypeOK`, `WriterNotForgotten`, `ReadDoesNotBlock`, `FirstRoundIntact`, `FirstRoundOwners`, `NeverOverwrites`, `WriteEnds` | 5.1 M |

The violation runs are described in section 6.

What the properties say:

* `ImplementsFifo` – through any number of turns of `rp` and `wp`, PDUs leave a
  ring in the order they came, and a full ring changes nothing.
* `OneOwner` – a busy process is in the hands of exactly one of sender, air and
  receiver. This is stop-and-wait.
* `BusyNumExact` – the counter, stepped by three functions that do not look at
  `busy_index`, equals the number of busy processes.
* `ScanFinds` – the two loops that run under `busy_LOCK` end.
* `HeadInFlight` – the PDU that feedback is about is the one it is applied to.
* `ImplementsStopAndWait` – seen from outside, an entity is a set of stop-and-wait
  processes: each sends the head of its queue, does nothing to that head before
  the answer, and then sends it again or drops it. It says what `OneOwner` and
  `HeadInFlight` are for, and what neither does: PDUs of a process go out in the
  order stored, and what is sent is the head at that moment. It does not say that
  a PDU is sent before it is dropped, which is false (`stale_ack`).
* `FreshAck` – between `ack_recv` freeing a process and the write of `ACK[]`,
  the sender cannot read the old entry. This is what `ACK_LOCK` is for, and it
  is the reason the deadlock below is there.
* `TransmissionsBounded` – holds for one entity; the sharing of
  `retrans_times` breaks it for two. The count is not cleared by an ACK, so that
  a PDU may inherit one and be dropped after fewer transmissions than the limit:
  the bound is from above only.
* `SenderReturns` – no lost wake-up and no endless scan; the one way not to
  return is the lock cycle.
* `BusyNumCountsUnanswered`, `BusyNumCoversUnanswered` – `busy_num` counts what
  can still be answered even when the answers name the wrong process; with loss
  it only errs upwards, so that it never wraps around (it blocks instead). The
  first is about the time before anything has been lost (`aux_lost`).
* `EveryPduHasADci` – while nothing has been lost, DCIs may get ahead of PDUs,
  never behind.
* `ImplementsEntity` – the network and the UE are one of the environments of
  `Spec`.
* `FramingTrue` – what a PDU says of its first and last byte is true, and a
  length indicator stands between two SDUs, also when `build_data_pdu` finds no
  room after one.
* `MacPduFits` – the arithmetic of the spaces, in the RLC (with its comparison
  of a negative `int` with a `uint32_t`) and in `sch_pdu`, always adds up to a MAC
  PDU: `write_packet` never returns `NULL`.
* `ParsedAsWritten` – the UE finds every SDU of a MAC PDU at the place and of the
  size it was written with, whatever the padding, although neither the padding
  nor the last SDU has its length in the PDU.
* `StreamIntact` – the RLC PDUs of an RNTI, one after the other, with the SDU that is
  cut and those that wait, are the bytes the IP thread wrote: `build_data_pdu`
  leaves nothing out and repeats nothing. (What `set_sdu` then refuses counts as
  built; the receiver sees a gap.)
* `SdusWhole`, `InOrderOnce` – what the tun device gets are SDUs, in the order
  written and none twice, for as long as every MAC PDU that comes `Fits`. SDUs
  may be lost: UM does not promise more. `WINDOW` is exactly what it takes. One
  more on the old side, `WINDOW + 1` for `aux_next[u] - d`, and TLC finds `InOrderOnce`
  violated: a MAC PDU that was used and NACKed comes again so late that its
  numbers are ahead of `vr_uh` modulo `SN_MOD`; `vr_uh` goes back to it, the timer gives
  up what is between, its SDUs are written a second time, and the PDUs that
  follow are discarded as too late.
* `VrUhIsHighest` (run `rlc_streams`) – what `rlc_um.h` says of `vr_uh`; two
  RNTIs in the one `rlc3` break it (section 6).
* `NothingStranded` – a PDU kept for a gap below it is under the timer.
* `UeReturns` – the UE's loop around the timer ends although the callback may
  start the timer again.
* `WriterNotForgotten`, `ReadDoesNotBlock` – no wake-up of the one IP thread is
  lost between `read()`'s unlock and its notification, and a sender, which reads
  with `mux`'s mutex held, never sleeps in `read()`.
* `NeverOverwrites` – the IP thread never tests whether one of its 200 buffers
  is free again. That it never reads a packet into one still to be sent, as the
  comment at `test/lte-ip-pkt.cc:32` says, holds because the full queues stop it
  first: 4 queues of 16 and an SDU in work for each are 68 buffers.
* `FirstRoundIntact`, `FirstRoundOwners` – as long as the IP thread has not gone
  round its buffers once, a packet stays as it was read until it is sent, the
  queue's sum of bytes is right, and every buffer has one owner. Both say
  `FirstRound`, because `deallocate()` adopts the IP thread's buffers: from the
  second round on they have two owners (run `sdu_owner`). In the program that is
  packet 201; what was adopted first is handed out again as a PDU's buffer while
  the IP thread fills it.
* `WriteEnds` – a write that waits for room ends; needs fewer forgotten buffers
  than the pool has.

**Bounds.** Two processes are enough for a scan to pass over a busy one, to wrap
around, and for one process to wait while the other is answered; all counts are
against `HARQ_NUM`, not 8. Rings of two slots fill, wrap and hold a PDU behind
the one in the air; `harq_two` and `link` have rings of one, in which every PDU
stored is the head. Three PDUs fill a ring and leave one in hand for it, or for the
other. `UINT_MOD`
stands for 2^32 and is far enough above `HARQ_NUM` for a wrap to be seen.
`K_WRAP` (1000 in the UE) is 4 or 3: the ACK pattern has period 3, so that 4
also meets the place where the wrap breaks the pattern. `SOCKET_CAP` bounds the
datagrams waiting in a socket; a sender that would exceed it is not scheduled,
so the runs see every order of up to three datagrams per socket.
PDU names are reused once a PDU is nowhere any more, so the runs are not
bounded in length. `aux_tx` saturates one above the limit, and `retrans_times`
at the limit, above which the code does not tell values apart.

A multiplexer that may fail (`PduGetMayFail`) stands for more than the code does:
`MacPduFits` says that `write_packet` does not return `NULL`. Properties that hold with
it hold without. `link` has it on; `harq_due` has it off, since a sender whose
multiplexer fails may scan empty rings for ever (`ScanFinds`), and so have the runs
that show something going wrong.

In `rlc_um` an SDU of 26 bytes spans three PDUs, one of 4 shares a PDU, and one
of 1 leaves a PDU in which a length indicator takes the last room. MAC PDUs of 12
bytes with `LONG` = 6 meet every layout of `sch_pdu`: sub-headers of two and of
three bytes, two RLC PDUs in a MAC PDU, and no padding, one byte, two, more, and
nothing but padding. Four SDUs take more sequence numbers than `SN_MOD`. `REACH`
is how far from the newest a MAC PDU may come; in `rlc_um` it is 12, one window of
4 and one turn of 8, so that what is late by more than the window, and what is late
by a whole turn, comes too. The run has one RNTI: with two, `aux_fit` is false from the
second one's first MAC PDU on, and what is left to check does not depend on who
else sends. `rlc_streams` has two, sequence numbers mod 6 with a window of 3, two
SDUs of 27 bytes each, and a `REACH` of 1: each stream by itself comes nearly in
order.

In `sdu_buffers` five buffers are the least that `EnoughBuffers` allows for two
RNTIs with queues of one (2·2 < 5), so that the IP thread comes as close to its own
tail as it ever can, and six packets take it into its second round. The pool of
two lets two senders compete for the last buffer; one forgotten buffer leaves one.

`CHECK_DEADLOCK FALSE`: in the HARQ runs the system really may stop, by the lock
cycle, and with loss by running out of processes; the RLC runs end when all SDUs
are written and HARQ delivers no more, or a thread of the UE stays in
`timer_expired`, `sdu_buffers` when all packets are sent.

**Views.** `Bare` and `LinkBare` leave out history variables that no guard and
no property of that run reads.

## 4. Fairness

`Fairness` of `HarqEntity` has three parts, per RNTI; `RlcUm` has one of its own:

* `WF(SenderStep)` – the sender thread is scheduled while it has a step. Not
  included: the arrival of SDUs (`PduGet`), failing sends, spurious wake-ups.
* `SF(Apply)` – the receiver gets a mutex that is free again and again. Plain
  mutexes do not promise this; the code's `usleep(5000)` at the end of every
  turn of the sender's loop, with no lock held, does in practice.
* `WF(DueFeedback)` – every transmission is answered. That is an assumption on
  the network; without it a lost answer keeps its process busy for ever, since
  the code has no timeout.

`RlcUm` assumes weak fairness of the UE's thread alone, with its condition for
being enabled written out (`CanStep`): a thread of the UE runs unless it waits for
its socket or stays in `timer_expired`. Nothing is asked of the sender, the IP thread or HARQ.

`SduBuffers` assumes weak fairness of the IP thread's write and of each sender,
again with the conditions written out (`SenderCanStep`). Packets and spurious
wake-ups need not come. A sender that finds a pool whose first buffer is not
empty takes and forgets it: that is a step of the code, not progress assumed.

## 5. What is proved

TLAPS checks the following for all values of the constants. The constants are
only assumed to be of their types: at least one slot and one process, `NULL` not
a PDU, `UINT_MOD > HARQ_NUM`, `K_WRAP` and `SOCKET_CAP` positive; nothing is
assumed of the sets `Rnti` and `Pdu`. `SduBuffers` also assumes `EnoughBuffers`,
`N_RNTI * (CAP + 1) < N_IP`, which in the code is 68 < 200. `SchPdu` assumes that
few SDUs of a PDU can have long sub-headers (`FewLongAssumption`, 300 < 13 * 128), and
`RlcUm` that sequence numbers are twice the window and that a MAC PDU has fewer
RLC PDUs than the window (`MacPduAssumption`, 20 < 512). Of HARQ `RlcUm` assumes
nothing.

| theorem | statement |
|---|---|
| `RingsAreQueues` | `Spec => ImplementsFifo` of `QbuffFifo` |
| `TypeCorrect` | `Spec => []TypeOK` |
| `RingsKeepShape` | `Spec => []RingsWellShaped` |
| `ProcessHasOneOwner`, `BusyNumCounts` | `SpecDue => []OneOwner`, `[]BusyNumExact` |
| `HeadStaysInFlight` | `SpecDue => []HeadInFlight` |
| `ProcessesStopAndWait` | `SpecDue => ImplementsStopAndWait` |
| `SenderReadsFreshAck` | `SpecDue => []FreshAck` |
| `ScansFind` | `SpecDue => []ScanFinds`, if `PduGetMayFail` is false |
| `AloneTransmissionsBounded` | `Spec => []TransmissionsBounded`, if there is one RNTI |
| `LinkTypeCorrect` | `LinkSpec => []LinkTypeOK` |
| `LinkImplementsEntity` | `LinkSpec => Spec` |
| `LinkRingsKeepShape` | `LinkSpec => []RingsWellShaped` |
| `LinkBusyNumExact`, `LinkBusyNumNeverWraps` | `LinkSpec => []BusyNumCountsUnanswered`, `[]BusyNumCoversUnanswered` |
| `DcisPrecedePdus` | `LinkSpec => []EveryPduHasADci` |
| `BuffersTypeCorrect` | `Spec => []BuffersTypeOK` |
| `WriterIsNotForgotten`, `ReadNeverBlocks` | `Spec => []WriterNotForgotten`, `[]ReadDoesNotBlock` |
| `BuffersNeverOverwritten` | `Spec => NeverOverwrites` |
| `FirstRoundStaysIntact`, `FirstRoundOneOwner` | `Spec => []FirstRoundIntact`, `[]FirstRoundOwners` |
| `MacPduAlwaysFits` | `Spec => []MacPduFits` of `RlcUm` |
| `AlwaysParsedAsWritten` | `Spec => []ParsedAsWritten` |
| `FramingAlwaysTrue` | `Spec => []FramingTrue` |
| `RlcTypeCorrect` | `Spec => []RlcTypeOK` |
| `NothingEverStranded` | `Spec => []NothingStranded` |
| `StreamAlwaysIntact` | `Spec => []StreamIntact` |
| `SdusAlwaysWhole`, `AlwaysInOrderOnce` | `Spec => []SdusWhole`, `[]InOrderOnce`, which are about what is delivered while `aux_fit` is true |

The arguments:

* *Queues.* On a ring of the right shape the number of valid slots is the distance
  from `rp` to `wp` (`CountIsPending`, by the size of intervals), and `pop(idx)`
  meets no invalid slot before it (`PopAtIs`). `push` then appends to `Contents`
  and `release` takes its head (`PushAppends`, `ReleaseTakes`), also where an
  index goes back to 0; each operation on rings is one on the queues, or a stutter
  where a full ring refuses.
* *Types.* The step that needs work is `pdu_in`'s scan: `FirstFrom(S, p)`
  chooses the member of `S` nearest after `p`, and that it is in `S` needs the
  existence of a least element (`SmallestMember`, by well-foundedness of `Nat`).
* *Rings.* `WellShaped` is not inductive for the entity, because `release` is
  called without a test. `Loaded` is the strengthening: while the sender is
  between its scan and the release, the ring of `pid_now` is not empty. `Qbuff`'s
  lemmas then carry the shape through `send` and `release`.
* *Owners.* `Own(u)` states `OneOwner` for one entity together with the
  exactness of `busy_num`. `SenderHas`, `AirHas` and `ReceiverHas` are disjoint
  and their union is `Busy`; each action moves a process from one to the next.
  Other entities do not touch what `Own(u)` reads (`OtherEntities`).
* *Heads.* A PDU in the air is a head because `Ready` excludes busy processes,
  `release` is reached for the process in hand only, and `send` at a full ring
  does nothing. `Heads` adds that what the sender is about to send is the head.
* *Stop and wait.* From `Own`, `Heads`, `Loaded` and the lemmas on queues: `InStore` is
  an `Accept`, or a stutter when there is no PDU or the ring is full; `SendData` is a
  `Transmit`, because the process the sender has in hand has nothing in the air and
  what it sends is the head; `TcAcked` and `TcDiscard` are a `Drop`, because the ring
  is loaded; a due answer is an `Answer`; every other step is a stutter.
* *Fresh feedback.* `Fresh`: whatever the sender may pick has `ACK[p] = aux_fb[p]`
  unless the receiver, holding `ACK_LOCK`, is about to write it.
* *Scans.* `Found`: when `busy_num < HARQ_NUM` some process is idle (by counting,
  `IdleLeft`), and from `pdu_in`'s store to `harq_busy`'s scan an idle process
  has a PDU. The condition that `pdu_get` returns a PDU is needed: a `NULL`
  stores nothing, and `harq_busy` then scans rings that may all be empty.
* *Link.* A step of `LinkNext` is a step of `Next` or leaves `vars` unchanged;
  the step lemma needs that a datagram being sent is a PDU (`DataInHand`).

* *Transmissions.* `Limited`: the head of a ring has been sent at most once more
  than its process's counter says, and what is behind it not at all. The counter
  is at the limit only between `TcOverflow` and `TcDiscard`, so that what the
  sender has in hand for sending has been sent at most twice. That no PDU is in
  two slots (`Placed`) is needed when one is sent or dropped. The argument uses
  no assumption on the feedback, and fails with a second RNTI at `BelowLimit`.
* *Counting on the link.* `Counted` relates `busy_num` to what can still come
  back: the PDU in hand, the PDUs and the ACKs on their sockets, the answer being
  applied. Each action moves one from one term to the next; a loss takes one away
  and leaves `busy_num`. A PDU whose DCI has gone out, but which has not, is
  counted apart (`PduToFollow`).
* *Buffers.* `BuffersInv`. `Recent` is the reason nothing is overwritten: an RNTI
  is served every `N_RNTI` packets, so that the j-th unfinished packet from the
  end was read within the last j turns; there are at most `CAP + 1` of them, and
  `k` comes back to a buffer only after `N_IP` packets.

* *First round.* `OwnersInv`. The links of the free list are those of a sequence
  of buffers without repetition (`Chain`), so that `allocate` takes its head and
  `deallocate` puts one in front; the buffers of the list, of the queues, of the
  senders and of the IP thread are disjoint, until `k` comes back to the first.
* *Layout.* With n SDUs of given lengths the space left is the size of the PDU less
  the lengths and the sub-headers, the last of which is short (`Msg`). What
  `subheaders` writes is then n sub-headers between the padding, and `parse_packet`
  reads them one by one with the place it has reached (`MsgIsParsed`); the size
  of the last payload comes out because what is behind it is counted.
* *Sender.* `SenderInv`. A queue holds whole SDUs and `tx_sdu` the rest of one
  (`QueuesBounded`); `Built` says what `build_data_pdu` does to them for any
  grant: the PDU's segments are that rest and SDUs of the queue, cut at the end,
  its framing is true, and its length is the one returned. `MacPduFits` follows
  because what `Allocate` asks for is at most what `SchPdu` has left (`GrantsFit`)
  and `set_sdu` refuses a PDU that is longer.
* *Receiver.* `ReceiverInv`. Between two calls the receiver is in `AtRest`: the
  window holds PDUs from `vr_ur` to before `vr_uh` only (`Span`), one of each number
  and none of `vr_ur`, and `vr_uh` is at most `WINDOW` ahead of `vr_ur`. From a state at
  rest `handle_data_pdu` and `timer_expired` lead to one at rest, in which the timer
  is running if the window is not empty. Nothing is assumed of what arrives, so
  that this holds with four transmitters in one window too.
* *Stream.* `StreamBuild`: one build, for any grant, leaves the bytes of its PDU, of
  `tx_sdu` and of the queue together what they were. `StreamWrite`: the IP thread
  adds to the end of both sides. The other actions touch neither.
* *Journey.* What was sent is a history `g` that no variable of the model holds: the
  SDUs written, the RLC PDUs built, their numbers, and the place among the
  SDUs' bytes where each PDU begins (`Stream`). `Journey(u)` says there is such a history
  that fits the state of the RNTI `u`, and each action is shown to keep it or to
  make it longer. It has two parts, of which the first holds for every RNTI:
  - The sender is at the end of it: `tx_sdu` and the queue are what is left
    from there on, and the PDU that `build_data_pdu` makes carries the
    stream from that place to the next (`Sends`, `BuildCarries`).
  - Every MAC PDU that may come is a run of consecutive PDUs of the stream, from
    the number on that `air` gives, and runs do not overlap in part (`Flies`).

  The second holds while `u` is `Alone`, that is, all that came was from `u` and
  fitted:
  - The receiver's `vr_ur` and `vr_uh` are the numbers of two PDUs of the stream,
    `R` and `h`, and its window has the PDUs from some `a` to `h` (`At`). Unless
    reassembly is to drop it, what it has is the beginning of the SDU that PDU
    `R` goes on with, and what it wrote are whole SDUs from before that place,
    in order (`Behaves`).
  - A number then stands for one PDU only, because everything that can be
    compared is closer together than `SN_MOD`: a MAC PDU that fits is at most
    `WINDOW` from the newest, and `vr_ur` is at most `WINDOW` behind `vr_uh`. So a
    repeated MAC PDU is told from a new one by its numbers (`HandleOld`,
    `HandleNext`).

  `HeardInv` says that while `aux_fit` is true one RNTI at most has been heard and
  the threads of the others wait, so that it is its `Journey` that `delivered` is the
  end of (`Contract`). With the first MAC PDU that does not fit, `aux_fit` is false for
  good, `delivered` stays as it is, and nothing is claimed of the receiver but
  `NothingStranded`.

  How far this carries in the program: the IP thread gives its packets to the four
  RNTIs in turn (`test/lte-ip-pkt.cc:75`) and all go into `rlc3`, so that with traffic
  the condition is soon false. The theorems are what `rlc_um` does for one
  transmitter, the use it is written for; what happens to them as the program uses it
  is the finding `rlc_streams`. What the eNB's half promises, `StreamIntact`,
  `FramingTrue`, `MacPduFits` and `ParsedAsWritten`, has no such condition.

Recursion is within reach where it is over something the provers can name: a
fold's partial results are a function on `0 .. n`, which exists by induction over a
*set* of numbers (`FoldLemmas`), and a trace lemma for each fold of the model
(`PullTrace`, `AbsorbTrace`, ...) hands it to the rest of the proof.

Only model-checked: `SenderReturns`, `WriteEnds` and `UeReturns`, since liveness
under fairness is beyond the prover. Every invariant and
every refinement that a passing run checks is stated by a theorem.

## 6. Where the code and its documentation disagree

Each is a run whose one property TLC violates.

| run | property | what happens |
|---|---|---|
| `lock_cycle` | `HarqBusyReturns` | the sender holds `busy_LOCK` and waits for `ACK_LOCK`, the receiver the other way round, for ever |
| `stale_ack` | `OnlyAckedReleased` | `ACK[pid]` stays set when its PDU is gone: the next PDU put in that ring is dropped untransmitted |
| `shared_count` | `TransmissionsBounded` | with two entities the shared count of one is cleared by the other: more transmissions than the limit |
| `link_pairing` | `NextPduBelongs` | a DCI goes out before it is known that there is no PDU: every later PDU is read with an earlier DCI, without any loss |
| `rlc_streams` | `VrUhIsHighest` | two RNTIs send into the one `rlc3`: a PDU of the slower one, more than the window behind, is taken for a new one, and `vr_uh` goes back to it |
| `sdu_owner` | `ListedAreAvailable` | `deallocate()` takes the IP thread's buffers into the pool's list: a buffer of the list is being filled |

## 7. Abstractions, and what is not modelled

* In the HARQ modules a PDU is a model value: its bytes are left out. That an SDU
  is waiting, which the sender polls for, is a free choice there; `RlcUm` and
  `SduBuffers` have the poll.
* Several functions return no value although they are declared to; no caller
  uses the results.
* `recv()` and `recvfrom()` failing changes no state and is left out. UDP over
  the loopback or one link does not reorder within a socket; it may lose
  (`MayLose`). Duplication is covered for the entity by `Spec`'s arbitrary
  feedback, not in `HarqLink`.
* Logging, `printf` and the sleeps are left out. A sleep matters only for
  fairness.
* *pdu_queue*: the paths that only `demux::push_pdu` and `demux::process_pdus`
  reach are left out: no thread of the two programs calls those.
* *mux*: every PBR is infinite, so that `Bj` is never read and `set_priority`
  decides nothing with one channel; the C-RNTI element and msg3 are never set.
* *sch_pdu*: no control element is ever inserted, and the PDUs of the random
  access response are not used. When the only SDU has been refused,
  `test/pdu.cc:105` reads the element before `subheaders[0]`; what it reads is
  overwritten and has no effect on the layout.
* *rlc_um*: the bits of headers (their lengths are modelled), the bytes of SDUs,
  `empty_queue`, and the paths of the eNB's receiver and the UE's transmitter.
  The receiver's buffers are left out: one per SDU is given up and never comes
  back, whatever the threads do, until the UE's pool is empty.
* *timers*: the steps before the last are not seen by anybody.
* *start-up*: threads are created in loops and meet at a barrier, the IP thread
  excepted; `Init` is the state after it. The threads get the address of an element of a local array
  (`test/lte-ue-main.cc:186`, `temp_in[]`), and the UE's `id[3]`
  (`UE:test/lte-ue-main.cc:168`) is indexed past its end by the loops that create
  threads; what a build does with either is not in the source.
* *UE uplink*: the UE program creates no thread that runs `lte_send_udp`, so that
  its IP thread fills the queue and stops in `write()`. Nothing of HARQ runs from
  the UE to the eNB.
* *The UE's four threads* share one demultiplexer with one `mac_msg`, one RLC and
  one timer. `RlcUm` has the RLC and the timer shared by the threads of all RNTIs
  (the RLC's functions lock its mutex), but not `mac_msg`, which they overwrite
  without a lock, nor the accesses to the timer's counter below a step.
* BSR/PHR: every call is commented out. `dl_harq.cc` and `ip-harq-entity.cc` are
  not linked. The tun device is pure I/O.
* Everything else. Of the repository's lines nearly all are copies of srsUE and
  `liblte` (`src/`, `liblte/`, `lte-UE/liblte`, each several times, among them an
  ASN.1 codec of 13 598 lines) which the two makefiles do not link or of which
  they link logging and bit helpers. The program itself is the two dozen files in
  the directories called `test/` and the headers in `hdr/common/`; these are what
  the modules translate.

## 8. Plan

Done: `Qbuff`, then `HarqEntity` on it, then `HarqLink`, which composes the
entity with the UE and the network; `RlcUmTx`, `RlcUmRx` and `SchPdu`, composed
in `RlcUm` with a HARQ of which nothing is asked; `SduBuffers`. `StopAndWait` is
the abstract specification of the entities.

To model: in `RlcUm`, the accesses of the UE's threads to `mac_msg` and to the
timer's counter; the start-up, if the repository comes to say what the threads may rely on.

To prove: the liveness properties, with a prover for fairness. That every MAC PDU
`Fits` is not something to prove: the code bounds no delay, and its four threads
pass four streams to one receiver.
