---------------------------- MODULE StopAndWait ----------------------------
(***************************************************************************)
(* What the HARQ processes of some entities promise: each transmits the    *)
(* item at the head of its bounded queue, waits for the answer before it   *)
(* does anything else with it, and then transmits it again or drops it.    *)
(***************************************************************************)
EXTENDS Naturals, Sequences

CONSTANTS Entity, Process, Item, NONE, CAPACITY

VARIABLES queue, flying

Init ==
    /\ queue = [e \in Entity |-> [p \in Process |-> <<>>]]
    /\ flying = [e \in Entity |-> [p \in Process |-> NONE]]

\* The process has nothing in flight, and something to transmit.
Ready(e, p) == flying[e][p] = NONE /\ queue[e][p] # <<>>

Accept(e, p) ==
    /\ Len(queue[e][p]) < CAPACITY
    /\ \E x \in Item : queue'[e][p] = Append(queue[e][p], x)
    /\ queue' = [queue EXCEPT ![e][p] = queue'[e][p]]
    /\ UNCHANGED flying

Transmit(e, p) ==
    /\ Ready(e, p)
    /\ flying' = [flying EXCEPT ![e][p] = Head(queue[e][p])]
    /\ UNCHANGED queue

Answer(e, p) ==
    /\ flying[e][p] # NONE
    /\ flying' = [flying EXCEPT ![e][p] = NONE]
    /\ UNCHANGED queue

Drop(e, p) ==
    /\ Ready(e, p)
    /\ queue' = [queue EXCEPT ![e][p] = Tail(@)]
    /\ UNCHANGED flying

Next ==
    \E e \in Entity, p \in Process :
      Transmit(e, p) \/ Answer(e, p) \/ Drop(e, p) \/ Accept(e, p)

Spec == Init /\ [][Next]_<<queue, flying>>
=============================================================================
