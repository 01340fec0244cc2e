-------------------------------- MODULE Fifo ---------------------------------
(***************************************************************************)
(* A first-in first-out buffer of at most Capacity items.  slot[t] is the  *)
(* item thread t is handing over, or the item it was handed last.          *)
(***************************************************************************)
EXTENDS Integers, Sequences

CONSTANTS Item, NoItem, Thread, Capacity

VARIABLES items, slot

vars == <<items, slot>>

Init == items = <<>> /\ slot = [t \in Thread |-> NoItem]

Offer(t, i) ==
  /\ slot' = [slot EXCEPT ![t] = i]
  /\ UNCHANGED items

Put(t) ==
  /\ slot[t] # NoItem /\ Len(items) < Capacity
  /\ items' = Append(items, slot[t])
  /\ slot' = [slot EXCEPT ![t] = NoItem]

Get(t) ==
  /\ items # <<>>
  /\ slot' = [slot EXCEPT ![t] = Head(items)]
  /\ items' = Tail(items)

Next ==
  \E t \in Thread : (\E i \in Item : Offer(t, i)) \/ Put(t) \/ Get(t)

Spec == Init /\ [][Next]_vars

=============================================================================
