---------------------------- MODULE CircularQProofs ----------------------------
(***************************************************************************)
(* What the circular buffer does, seen as a sequence: a push appends, and  *)
(* gives up the first item when the buffer is full; a pop takes the first  *)
(* item off. Proved for every capacity, 0 included, and every item.        *)
(***************************************************************************)
EXTENDS CircularQ, TLAPS

\* The buffers for n items out of S.
QOf(n, S) ==
    [max_items : {n + 1}, head : 0 .. n, tail : 0 .. n, overrun : Nat, v : [0 .. n -> S]]

\* Where i + 1 lies, where the i-th item lies, and how many items there are.
Following(n, i)    == IF i = n THEN 0 ELSE i + 1
Slot(n, head, i)   == IF head + i <= n + 1 THEN head + i - 1 ELSE head + i - 1 - (n + 1)
Count(n, head, tail) == IF tail >= head THEN tail - head ELSE n + 1 - (head - tail)

-----------------------------------------------------------------------------
(* Indices                                                                  *)

\* The remainder that circular_q computes, without %.
LEMMA FollowingIsSucc ==
    ASSUME NEW n \in Nat, NEW i \in 0 .. n
    PROVE  (i + 1) % (n + 1) = Following(n, i) /\ Following(n, i) \in 0 .. n
  BY DEF Following

\* The same for at().
LEMMA SlotIsAt ==
    ASSUME NEW n \in Nat, NEW head \in 0 .. n, NEW i \in 1 .. n + 1
    PROVE  (head + (i - 1)) % (n + 1) = Slot(n, head, i) /\ Slot(n, head, i) \in 0 .. n
<1> DEFINE k == head + (i - 1)
<1>1. k \in 0 .. 2 * n + 1
  OBVIOUS
<1>2. k % (n + 1) = IF k <= n THEN k ELSE k - (n + 1)
  <2> HIDE DEF k
  <2> QED
    BY <1>1
<1> QED
  BY <1>2 DEF Slot

\* The tail is the slot behind the last item ...
LEMMA TailIsFree ==
    ASSUME NEW n \in Nat, NEW head \in 0 .. n, NEW tail \in 0 .. n
    PROVE  Slot(n, head, Count(n, head, tail) + 1) = tail
  BY DEF Count, Slot

\* ... and the slot of no item.
LEMMA ItemsAreNotAtTail ==
    ASSUME NEW n \in Nat, NEW head \in 0 .. n, NEW tail \in 0 .. n,
           NEW i \in 1 .. Count(n, head, tail)
    PROVE  Slot(n, head, i) # tail
  BY DEF Count, Slot

\* Moving the tail adds an item, moving the head takes one off.
LEMMA CountMoves ==
    ASSUME NEW n \in Nat, NEW head \in 0 .. n, NEW tail \in 0 .. n
    PROVE  /\ Following(n, tail) # head =>
                 Count(n, head, Following(n, tail)) = Count(n, head, tail) + 1
           /\ tail # head =>
                 Count(n, Following(n, head), tail) = Count(n, head, tail) - 1
           /\ Following(n, tail) = head =>
                 Count(n, Following(n, head), Following(n, tail)) = n
  BY DEF Count, Following

\* The items stay where they are when the head moves.
LEMMA SlotMoves ==
    ASSUME NEW n \in Nat, NEW head \in 0 .. n, NEW i \in 1 .. n
    PROVE  Slot(n, Following(n, head), i) = Slot(n, head, i + 1)
  BY DEF Slot, Following

\* The second item and those behind it are not at the head.
LEMMA LaterSlots ==
    ASSUME NEW n \in Nat, NEW head \in 0 .. n, NEW i \in 1 .. n - 1
    PROVE  Slot(n, head, i + 1) \in 0 .. n /\ Slot(n, head, i + 1) # head
  BY DEF Slot

-----------------------------------------------------------------------------
(* The buffer                                                               *)

\* The fields of a buffer and its indices.
LEMMA QFields ==
    ASSUME NEW n \in Nat, NEW S, NEW q \in QOf(n, S)
    PROVE  /\ q.max_items = n + 1 /\ q.head \in 0 .. n /\ q.tail \in 0 .. n
           /\ q.overrun \in Nat /\ q.v \in [0 .. n -> S]
           /\ \A i \in 0 .. n : Succ(q, i) = Following(n, i)
           /\ Size(q) = Count(n, q.head, q.tail)
<1>1. /\ q.max_items = n + 1 /\ q.head \in 0 .. n /\ q.tail \in 0 .. n
      /\ q.overrun \in Nat /\ q.v \in [0 .. n -> S]
  BY DEF QOf
<1>2. \A i \in 0 .. n : Succ(q, i) = Following(n, i)
  BY <1>1, FollowingIsSucc DEF Succ
<1>3. Size(q) = Count(n, q.head, q.tail)
  <2>1. CASE q.tail >= q.head
    BY <2>1 DEF Size, Count
  <2>2. CASE ~ (q.tail >= q.head)
    BY <1>1, <2>2 DEF Size, Count
  <2> QED
    BY <2>1, <2>2
<1> QED
  BY <1>1, <1>2, <1>3

\* size, empty and full agree with each other.
LEMMA SizeFacts ==
    ASSUME NEW n \in Nat, NEW S, NEW q \in QOf(n, S)
    PROVE  /\ Size(q) \in 0 .. n
           /\ IsEmpty(q) <=> Size(q) = 0
           /\ Full(q) <=> Size(q) = n
<1> DEFINE h == q.head
           t == q.tail
<1>1. h \in 0 .. n /\ t \in 0 .. n /\ Size(q) = Count(n, h, t)
  BY QFields
<1>2. /\ IsEmpty(q) <=> t = h
      /\ Full(q) <=> Following(n, t) = h
  BY <1>1, QFields DEF IsEmpty, Full
<1> HIDE DEF h, t
<1>3. /\ Count(n, h, t) \in 0 .. n
      /\ Count(n, h, t) = 0 <=> t = h
      /\ Count(n, h, t) = n <=> Following(n, t) = h
  BY <1>1 DEF Count, Following
<1> QED
  BY <1>1, <1>2, <1>3

\* The items are a sequence of that length, in the slots from head on.
LEMMA ItemsFacts ==
    ASSUME NEW n \in Nat, NEW S, NEW q \in QOf(n, S)
    PROVE  /\ Items(q) \in Seq(S)
           /\ Len(Items(q)) = Size(q)
           /\ \A i \in 1 .. Size(q) : Items(q)[i] = q.v[Slot(n, q.head, i)]
<1>1. Size(q) \in 0 .. n
  BY SizeFacts
<1>2. ASSUME NEW i \in 1 .. Size(q)
      PROVE  ItemAt(q, i - 1) = q.v[Slot(n, q.head, i)] /\ ItemAt(q, i - 1) \in S
  <2>1. /\ q.max_items = n + 1 /\ q.head \in 0 .. n /\ q.v \in [0 .. n -> S] /\ i \in 1 .. n + 1
    BY <1>1, QFields
  <2>2. (q.head + (i - 1)) % (n + 1) = Slot(n, q.head, i) /\ Slot(n, q.head, i) \in 0 .. n
    BY <2>1, SlotIsAt
  <2>3. ItemAt(q, i - 1) = q.v[Slot(n, q.head, i)]
    BY <2>1, <2>2, Zenon DEF ItemAt
  <2> QED
    BY <2>1, <2>2, <2>3
<1> DEFINE at(i) == ItemAt(q, i - 1)
<1>3. Items(q) = [i \in 1 .. Size(q) |-> at(i)]
  BY DEF Items
<1>4. \A i \in 1 .. Size(q) : at(i) = q.v[Slot(n, q.head, i)] /\ at(i) \in S
  BY <1>2
<1> HIDE DEF at
<1> QED
  BY <1>1, <1>3, <1>4

\* A new buffer is empty.
LEMMA NewQFacts ==
    ASSUME NEW n \in Nat, NEW S, NoItem \in S
    PROVE  NewQ(n) \in QOf(n, S) /\ Items(NewQ(n)) = <<>>
<1>1. NewQ(n) \in QOf(n, S)
  BY DEF NewQ, QOf
<1>2. Size(NewQ(n)) = 0
  BY DEF NewQ, Size
<1>3. Items(NewQ(n)) \in Seq(S) /\ Len(Items(NewQ(n))) = 0
  BY <1>1, <1>2, ItemsFacts
<1> QED
  BY <1>1, <1>3

\* push_back: at the end, and at the cost of the first item when there is no room.
THEOREM PushBackFacts ==
    ASSUME NEW n \in Nat, NEW S, NEW q \in QOf(n, S), NEW item \in S
    PROVE  /\ PushBack(q, item) \in QOf(n, S)
           /\ ~ Full(q) => Items(PushBack(q, item)) = Append(Items(q), item)
           /\ Full(q) => Items(PushBack(q, item)) = Tail(Append(Items(q), item))
<1> DEFINE v    == [q.v EXCEPT ![q.tail] = item]
           next == Succ(q, q.tail)
           h    == Succ(q, q.head)
           all  == Append(Items(q), item)
           more == [q EXCEPT !.v = v, !.tail = next]
           over == [q EXCEPT !.v = v, !.tail = next, !.head = h, !.overrun = @ + 1]
<1>1. PushBack(q, item) = IF next = q.head THEN over ELSE more
  BY DEF PushBack
<1>2. /\ v \in [0 .. n -> S]
      /\ next \in 0 .. n /\ next = Following(n, q.tail)
      /\ h \in 0 .. n /\ h = Following(n, q.head)
      /\ q.overrun + 1 \in Nat
  <2>1. /\ q.head \in 0 .. n /\ q.tail \in 0 .. n /\ q.v \in [0 .. n -> S]
        /\ q.overrun \in Nat /\ \A i \in 0 .. n : Succ(q, i) = Following(n, i)
    BY QFields
  <2>2. v \in [0 .. n -> S]
    BY <2>1
  <2>3. next = Following(n, q.tail) /\ h = Following(n, q.head)
    BY <2>1, Zenon
  <2>4. Following(n, q.tail) \in 0 .. n /\ Following(n, q.head) \in 0 .. n
    BY <2>1, FollowingIsSucc, Zenon
  <2> QED
    BY <2>1, <2>2, <2>3, <2>4
<1> HIDE DEF v, next, h
<1>3. /\ q.head \in 0 .. n /\ q.tail \in 0 .. n /\ q.v \in [0 .. n -> S]
      /\ Full(q) <=> next = q.head
      /\ Size(q) = Count(n, q.head, q.tail) /\ Size(q) \in 0 .. n
  BY QFields, SizeFacts DEF Full, next
<1>4. /\ all \in Seq(S) /\ Len(all) = Size(q) + 1
      /\ \A i \in 1 .. Size(q) : all[i] = q.v[Slot(n, q.head, i)]
      /\ all[Size(q) + 1] = item
  BY <1>3, ItemsFacts
<1> HIDE DEF all
<1>5. ASSUME NEW i \in 1 .. Size(q) + 1
      PROVE  all[i] = v[Slot(n, q.head, i)]
  <2>1. Slot(n, q.head, Size(q) + 1) = q.tail
    <3>1. Slot(n, q.head, Count(n, q.head, q.tail) + 1) = q.tail
      BY <1>3, TailIsFree, Zenon
    <3> QED
      BY <1>3, <3>1
  <2>2. CASE i = Size(q) + 1
    BY <1>3, <1>4, <2>1, <2>2 DEF v
  <2>3. CASE i \in 1 .. Size(q)
    <3>1. Slot(n, q.head, i) # q.tail
      <4>1. \A k \in 1 .. Count(n, q.head, q.tail) : Slot(n, q.head, k) # q.tail
        BY <1>3, ItemsAreNotAtTail, Zenon
      <4> QED
        BY <1>3, <2>3, <4>1
    <3>2. Slot(n, q.head, i) \in 0 .. n
      <4>1. i \in 1 .. n + 1
        BY <1>3, <2>3
      <4> QED
        BY <1>3, <4>1, SlotIsAt, Zenon
    <3>3. all[i] = q.v[Slot(n, q.head, i)]
      BY <1>4, <2>3
    <3>4. \A k \in 0 .. n : k # q.tail => v[k] = q.v[k]
      BY <1>3 DEF v
    <3> QED
      BY <3>1, <3>2, <3>3, <3>4, Zenon
  <2> QED
    BY <1>3, <2>2, <2>3
<1>6. CASE ~ Full(q)
  <2>1. PushBack(q, item) = more
    BY <1>1, <1>3, <1>6
  <2>2. more \in QOf(n, S) /\ more.head = q.head /\ more.tail = next /\ more.v = v
    BY <1>2 DEF QOf
  <2> HIDE DEF more
  <2>3. Size(more) = Size(q) + 1
    <3>1. Size(more) = Count(n, q.head, next)
      BY <2>2, QFields
    <3> QED
      BY <1>2, <1>3, <1>6, <3>1, CountMoves
  <2>4. /\ Items(more) \in Seq(S) /\ Len(Items(more)) = Size(q) + 1
        /\ \A i \in 1 .. Size(q) + 1 : Items(more)[i] = v[Slot(n, q.head, i)]
    BY <2>2, <2>3, ItemsFacts
  <2>5. Items(more) = all
    BY <1>3, <1>4, <1>5, <2>4
  <2> QED
    BY <1>6, <2>1, <2>2, <2>5 DEF all
<1>7. CASE Full(q)
  <2>1. PushBack(q, item) = over
    BY <1>1, <1>3, <1>7
  <2>2. over \in QOf(n, S) /\ over.head = h /\ over.tail = next /\ over.v = v
    BY <1>2 DEF QOf
  <2> HIDE DEF over
  <2>3. Size(q) = n /\ Size(over) = n
    <3>1. Size(over) = Count(n, h, next)
      BY <2>2, QFields
    <3>2. Size(q) = n
      BY <1>7, SizeFacts
    <3> QED
      BY <1>2, <1>3, <1>7, <3>1, <3>2, CountMoves
  <2>4. /\ Items(over) \in Seq(S) /\ Len(Items(over)) = n
        /\ \A i \in 1 .. n : Items(over)[i] = v[Slot(n, h, i)]
    BY <2>2, <2>3, ItemsFacts
  <2>5. \A i \in 1 .. n : Slot(n, h, i) = Slot(n, q.head, i + 1)
    BY <1>2, <1>3, SlotMoves
  <2>6. /\ Tail(all) \in Seq(S) /\ Len(Tail(all)) = n
        /\ \A i \in 1 .. n : Tail(all)[i] = all[i + 1]
    BY <1>4, <2>3
  <2>7. \A i \in 1 .. n : Items(over)[i] = Tail(all)[i]
    BY <1>5, <2>3, <2>4, <2>5, <2>6
  <2>8. Items(over) = Tail(all)
    BY <2>4, <2>6, <2>7
  <2> QED
    BY <1>7, <2>1, <2>2, <2>8 DEF all
<1> QED
  BY <1>6, <1>7

\* front and pop_front: the first item comes out.
THEOREM PopFrontFacts ==
    ASSUME NEW n \in Nat, NEW S, NEW q \in QOf(n, S), ~ IsEmpty(q)
    PROVE  /\ PopFront(q) \in QOf(n, S)
           /\ Items(q) # <<>> /\ Front(q) = Head(Items(q))
           /\ Items(PopFront(q)) = Tail(Items(q))
<1> DEFINE h == Following(n, q.head)
           r == [q EXCEPT !.head = h]
<1>1. /\ q.head \in 0 .. n /\ q.tail \in 0 .. n /\ q.tail # q.head /\ q.v \in [0 .. n -> S]
      /\ h \in 0 .. n
  BY QFields, FollowingIsSucc DEF IsEmpty
<1>2. PopFront(q) = r
  BY <1>1, QFields DEF PopFront
<1>3. r \in QOf(n, S) /\ r.head = h /\ r.tail = q.tail /\ r.v = q.v
  <2> HIDE DEF h
  <2> QED
    BY <1>1 DEF QOf
<1> HIDE DEF r
<1>4. Size(q) = Count(n, q.head, q.tail) /\ Size(q) \in 1 .. n /\ Size(r) = Size(q) - 1
  <2>1. Size(q) = Count(n, q.head, q.tail) /\ Size(r) = Count(n, h, q.tail)
    BY <1>3, QFields
  <2>2. Size(q) \in 0 .. n /\ Size(q) # 0
    BY SizeFacts
  <2> QED
    BY <1>1, <2>1, <2>2, CountMoves
<1>5. /\ Items(q) \in Seq(S) /\ Len(Items(q)) = Size(q)
      /\ \A i \in 1 .. Size(q) : Items(q)[i] = q.v[Slot(n, q.head, i)]
  BY ItemsFacts
<1>6. Items(q) # <<>> /\ Front(q) = Head(Items(q))
  <2>1. Slot(n, q.head, 1) = q.head
    BY <1>1 DEF Slot
  <2>2. Items(q)[1] = q.v[q.head]
    BY <1>4, <1>5, <2>1
  <2> QED
    BY <1>4, <1>5, <2>2 DEF Front
<1>7. /\ Items(r) \in Seq(S) /\ Len(Items(r)) = Size(q) - 1
      /\ \A i \in 1 .. Size(q) - 1 : Items(r)[i] = q.v[Slot(n, h, i)]
  <2>1. /\ Items(r) \in Seq(S) /\ Len(Items(r)) = Size(r)
        /\ \A i \in 1 .. Size(r) : Items(r)[i] = r.v[Slot(n, r.head, i)]
    BY <1>3, ItemsFacts
  <2> HIDE DEF h
  <2> QED
    BY <1>3, <1>4, <2>1
<1>8. ASSUME NEW i \in 1 .. Size(q) - 1
      PROVE  Items(r)[i] = Items(q)[i + 1]
  <2>1. i \in 1 .. n
    BY <1>4
  <2>2. Slot(n, h, i) = Slot(n, q.head, i + 1)
    BY <1>1, <2>1, SlotMoves, Zenon
  <2> QED
    BY <1>4, <1>5, <1>7, <2>2
<1>9. /\ Tail(Items(q)) \in Seq(S) /\ Len(Tail(Items(q))) = Size(q) - 1
      /\ \A i \in 1 .. Size(q) - 1 : Tail(Items(q))[i] = Items(q)[i + 1]
  BY <1>4, <1>5
<1>10. Items(r) = Tail(Items(q))
  BY <1>7, <1>8, <1>9
<1> QED
  BY <1>2, <1>3, <1>6, <1>10

\* The slot that std::move leaves empty is the one that pop_front gives back.
LEMMA MoveFrontFacts ==
    ASSUME NEW n \in Nat, NEW S, NoItem \in S, NEW q \in QOf(n, S), ~ IsEmpty(q)
    PROVE  /\ PopFront(MoveFront(q)) \in QOf(n, S)
           /\ Items(PopFront(MoveFront(q))) = Tail(Items(q))
<1> DEFINE v == [q.v EXCEPT ![q.head] = NoItem]
           s == [q EXCEPT !.v = v]
<1>1. /\ q.head \in 0 .. n /\ q.tail \in 0 .. n /\ q.tail # q.head /\ q.v \in [0 .. n -> S]
      /\ v \in [0 .. n -> S] /\ \A j \in 0 .. n : j # q.head => v[j] = q.v[j]
  BY QFields DEF IsEmpty
<1>2. MoveFront(q) = s
  BY DEF MoveFront
<1>3. s \in QOf(n, S) /\ s.head = q.head /\ s.tail = q.tail /\ s.v = v
  <2> HIDE DEF v
  <2> QED
    BY <1>1 DEF QOf
<1> HIDE DEF s, v
<1>4. ~ IsEmpty(s)
  BY <1>1, <1>3 DEF IsEmpty
<1>5. PopFront(s) \in QOf(n, S) /\ Items(PopFront(s)) = Tail(Items(s))
  BY <1>3, <1>4, PopFrontFacts
<1>6. Size(q) \in 1 .. n /\ Size(s) = Size(q)
  <2>1. Size(q) = Count(n, q.head, q.tail) /\ Size(s) = Count(n, s.head, s.tail)
    BY <1>3, QFields
  <2>2. Size(q) \in 0 .. n /\ Size(q) # 0
    BY SizeFacts
  <2> QED
    BY <1>3, <2>1, <2>2
<1>7. /\ Items(q) \in Seq(S) /\ Len(Items(q)) = Size(q)
      /\ \A i \in 1 .. Size(q) : Items(q)[i] = q.v[Slot(n, q.head, i)]
  BY ItemsFacts
<1>8. /\ Items(s) \in Seq(S) /\ Len(Items(s)) = Size(q)
      /\ \A i \in 1 .. Size(q) : Items(s)[i] = v[Slot(n, q.head, i)]
  <2>1. /\ Items(s) \in Seq(S) /\ Len(Items(s)) = Size(s)
        /\ \A i \in 1 .. Size(s) : Items(s)[i] = s.v[Slot(n, s.head, i)]
    BY <1>3, ItemsFacts
  <2> QED
    BY <1>3, <1>6, <2>1
<1>9. ASSUME NEW i \in 1 .. Size(q) - 1
      PROVE  Items(s)[i + 1] = Items(q)[i + 1]
  <2> DEFINE j == Slot(n, q.head, i + 1)
  <2>1. j \in 0 .. n /\ j # q.head
    <3>1. i \in 1 .. n - 1 /\ q.head \in 0 .. n
      BY <1>1, <1>6
    <3> QED
      BY <3>1, LaterSlots
  <2>2. Items(s)[i + 1] = v[j] /\ Items(q)[i + 1] = q.v[j]
    BY <1>6, <1>7, <1>8
  <2> HIDE DEF j
  <2> QED
    BY <1>1, <2>1, <2>2
<1>10. Tail(Items(s)) = Tail(Items(q))
  BY <1>6, <1>7, <1>8, <1>9
<1> QED
  BY <1>2, <1>5, <1>10

=============================================================================
