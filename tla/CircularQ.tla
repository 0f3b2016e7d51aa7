------------------------------- MODULE CircularQ -------------------------------
(***************************************************************************)
(* spdlog's circular_q: a queue kept in a vector of max_items slots, one   *)
(* of which always stays free to tell a full queue from an empty one. It   *)
(* is the buffer of the asynchronous loggers and the list of file names of *)
(* the daily sink.                                                         *)
(***************************************************************************)
EXTENDS Naturals, Sequences

CONSTANT NoItem   \* a slot that was never written or was moved from

\* circular_q(n): room for n items.
NewQ(n) ==
    [max_items |-> n + 1, head |-> 0, tail |-> 0, overrun |-> 0,
     v |-> [i \in 0 .. n |-> NoItem]]

Succ(q, i) == (i + 1) % q.max_items

Size(q) ==
    IF q.tail >= q.head THEN q.tail - q.head ELSE q.max_items - (q.head - q.tail)

\* at(i) and front(), for an index that is in range.
ItemAt(q, i) == q.v[(q.head + i) % q.max_items]

Front(q) == q.v[q.head]

IsEmpty(q) == q.tail = q.head

\* Mutant: the slot of the marker is used.
FullAtMarker(q) == Size(q) = q.max_items

Full(q) == Succ(q, q.tail) = q.head

\* Mutant: the oldest item is not given up.
PushBackKeepsHead(q, item) ==
    [q EXCEPT !.v[q.tail] = item, !.tail = Succ(q, @)]

PushBack(q, item) ==
    LET v    == [q.v EXCEPT ![q.tail] = item]
        next == Succ(q, q.tail)
    IN  IF next = q.head
        THEN [q EXCEPT !.v = v, !.tail = next, !.head = Succ(q, q.head), !.overrun = @ + 1]
        ELSE [q EXCEPT !.v = v, !.tail = next]

\* std::move(front()) leaves an empty slot in front.
MoveFront(q) == [q EXCEPT !.v = [q.v EXCEPT ![q.head] = NoItem]]

PopFront(q) == [q EXCEPT !.head = Succ(q, q.head)]

\* The items from front to back, as at() returns them.
Items(q) == [i \in 1 .. Size(q) |-> ItemAt(q, i - 1)]

=============================================================================
