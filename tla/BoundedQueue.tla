----------------------------- MODULE BoundedQueue -----------------------------
(***************************************************************************)
(* What the queue of the asynchronous loggers promises, whatever threads   *)
(* do and however the items are stored: items leave in the order in which  *)
(* they came, never more than Capacity are held, and an item is given up   *)
(* only when a new one takes its place in a full queue.                    *)
(***************************************************************************)
EXTENDS Naturals, Sequences

CONSTANTS Item, Capacity

VARIABLE items

Init == items = <<>>

Put(m) ==
    /\ Len(items) < Capacity
    /\ items' = Append(items, m)

Overrun(m) ==
    /\ Len(items) = Capacity
    /\ items' = Tail(Append(items, m))

Take ==
    /\ items # <<>>
    /\ items' = Tail(items)

Next == Take \/ \E m \in Item : Put(m) \/ Overrun(m)

Spec == Init /\ [][Next]_items

=============================================================================
