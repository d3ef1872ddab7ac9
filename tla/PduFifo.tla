------------------------------ MODULE PduFifo ------------------------------
(***************************************************************************)
(* What the users of a qbuff rely on: a bounded first-in first-out queue   *)
(* of PDUs.  An item is taken out in the order in which it was put in, a   *)
(* full queue refuses, and an item that is moved is in one queue only.     *)
(***************************************************************************)
EXTENDS Naturals, Sequences

CONSTANTS Queue, Item, CAPACITY

VARIABLE items

Init == items = [f \in Queue |-> <<>>]

Put(f, x) ==
    /\ Len(items[f]) < CAPACITY
    /\ items' = [items EXCEPT ![f] = Append(@, x)]

Take(f) ==
    /\ items[f] # <<>>
    /\ items' = [items EXCEPT ![f] = Tail(@)]

Move(f, g) ==
    /\ f # g
    /\ items[f] # <<>>
    /\ Len(items[g]) < CAPACITY
    /\ items' = [items EXCEPT ![f] = Tail(@),
                              ![g] = Append(@, Head(items[f]))]

Next ==
    \E f \in Queue :
      \/ \E x \in Item : Put(f, x)
      \/ Take(f)
      \/ \E g \in Queue : Move(f, g)

Spec == Init /\ [][Next]_items
=============================================================================
