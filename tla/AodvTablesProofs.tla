---------------------------- MODULE AodvTablesProofs ----------------------------
(* The tables of an AODV node, for every set of destinations, interfaces,       *)
(* packets and neighbours and every length of a behaviour.                      *)
(*                                                                              *)
(* The request queue: every call takes entries out of a list, or adds one at    *)
(* its end, and each time one of three counts of its packet goes up by one.     *)
(* QueueGood says so of a list and four counts, and is followed through the     *)
(* purge each call begins with, whether it ends or is cut short.                *)
(*                                                                              *)
(* Neighbours: an address is listed once, so whatever the second walk of Purge  *)
(* takes out is closed and was reported by the first.                           *)
(*                                                                              *)
(* Routes: a table is followed through Purge first: the walk may end after any  *)
(* prefix, in any order of the HashMap, so the two facts about tables (their    *)
(* type, and that only routes in search count requests) are stated of a table t *)
(* and not of the variable.                                                     *)
EXTENDS AodvTables, Sequences, FunctionTheorems, FiniteSetTheorems,
        WellFoundedInduction, TLAPS

----------------------------------------------------------------------------
(* Lists, as the loops that remove from them leave them *)

\* w is s with the element at position i taken out.
TakenOut(s, i, w) ==
  /\ i \in 1 .. Len(s)
  /\ Len(w) = Len(s) - 1
  /\ \A j \in 1 .. Len(s) - 1 : w[j] = IF j < i THEN s[j] ELSE s[j + 1]

\* List.remove at a position takes out the element there.
LEMMA WithoutTakesOut ==
  ASSUME NEW S, NEW s \in Seq(S), NEW i \in 1 .. Len(s)
  PROVE  LET w == SubSeq(s, 1, i - 1) \o SubSeq(s, i + 1, Len(s))
         IN  w \in Seq(S) /\ TakenOut(s, i, w)
<1>. DEFINE a == SubSeq(s, 1, i - 1)
            b == SubSeq(s, i + 1, Len(s))
<1>1. /\ a \in Seq(S) /\ Len(a) = i - 1
      /\ \A j \in 1 .. i - 1 : a[j] = s[j]
  OBVIOUS
<1>2. /\ b \in Seq(S) /\ Len(b) = Len(s) - i
      /\ \A j \in 1 .. Len(s) - i : b[j] = s[i + j]
  OBVIOUS
<1>. HIDE DEF a, b
<1>3. a \o b \in Seq(S) /\ Len(a \o b) = Len(s) - 1
  <2>1. a \in Seq(S) /\ b \in Seq(S) BY <1>1, <1>2
  <2>2. a \o b \in Seq(S) /\ Len(a \o b) = Len(a) + Len(b) BY <2>1
  <2>. QED BY <1>1, <1>2, <2>2
<1>4. ASSUME NEW j \in 1 .. Len(s) - 1
      PROVE  (a \o b)[j] = IF j < i THEN s[j] ELSE s[j + 1]
  <2>1. CASE j < i
    <3>1. (a \o b)[j] = a[j] BY <1>1, <1>2, <2>1
    <3>. QED BY <1>1, <2>1, <3>1
  <2>2. CASE ~ (j < i)
    <3>1. (a \o b)[j] = b[j - (i - 1)] BY <1>1, <1>2, <2>2
    <3>2. b[j - (i - 1)] = s[i + (j - (i - 1))] /\ i + (j - (i - 1)) = j + 1
      BY <1>2, <2>2
    <3>. QED BY <2>2, <3>1, <3>2
  <2>. QED BY <2>1, <2>2
<1>. QED BY <1>3, <1>4 DEF TakenOut, a, b

\* So does dropping the first one.
LEMMA TailTakesOut ==
  ASSUME NEW S, NEW s \in Seq(S), s # <<>>
  PROVE  Tail(s) \in Seq(S) /\ TakenOut(s, 1, Tail(s)) /\ Head(s) = s[1]
BY DEF TakenOut

\* The first of some positions is one of them, and no other comes before it.
LEMMA FirstPosition ==
  ASSUME NEW ms \in SUBSET Nat, ms # {}
  PROVE  LET f == CHOOSE i \in ms : \A j \in ms : i <= j
         IN  f \in ms /\ \A j \in ms : f <= j
<1>1. PICK i \in ms : \A j \in ms : ~ (<<j, i>> \in OpToRel(<, Nat))
  BY NatLessThanWellFounded, WFMin
<1>2. \A j \in ms : i <= j
  <2>. SUFFICES ASSUME NEW j \in ms, j < i PROVE FALSE OBVIOUS
  <2>1. <<j, i>> \in OpToRel(<, Nat) BY DEF OpToRel
  <2>. QED BY <1>1, <2>1
<1>. QED BY <1>2

----------------------------------------------------------------------------
(* The request queue *)

\* The places a packet holds in a queue.
Places(q, p) == {i \in 1 .. Len(q) : q[i].pkt = p}

\* Every packet that was accepted waits, was reported or was handed out.
Accounted(q, er, tk, ac) ==
  \A p \in Packets : ac[p] = er[p] + tk[p] + Cardinality(Places(q, p))

\* Age marks grow from the front to the back, from lt[a] on for address a.
InOrder(q, lt) ==
  /\ \A i, j \in 1 .. Len(q) : i < j => q[i].mark < q[j].mark
  /\ \A i \in 1 .. Len(q) : lt[Queue!Destination(q[i])] < q[i].mark

\* The entries of a queue, stamped no later than n.
QueueEntry == [pkt : Packets, ref : HeaderRefs, expire : Int, mark : Nat]

IsQueue(q, n) ==
  /\ q \in Seq(QueueEntry)
  /\ \A i \in 1 .. Len(q) : q[i].mark <= n

Counts == [Packets -> Nat]

QueueGood(q, er, tk, ac, lt, n) ==
  /\ n \in Nat /\ er \in Counts /\ tk \in Counts /\ ac \in Counts
  /\ lt \in [Queue!Destinations -> Nat] /\ \A a \in Queue!Destinations : lt[a] <= n
  /\ IsQueue(q, n) /\ InOrder(q, lt) /\ Accounted(q, er, tk, ac)

QueueInv ==
  /\ heap \in Seq(Int) /\ m_queueTimeout \in 1 .. Len(heap) /\ qNow \in Int
  /\ QueueGood(m_queue, errored, taken, accepted, lastTaken, serial)

\* Places are finitely many.
LEMMA PlacesFinite ==
  ASSUME NEW q, NEW p, Len(q) \in Nat
  PROVE  IsFiniteSet(Places(q, p)) /\ Cardinality(Places(q, p)) \in Nat
<1>1. IsFiniteSet(1 .. Len(q)) BY FS_Interval
<1>2. Places(q, p) \in SUBSET (1 .. Len(q)) BY DEF Places
<1>3. IsFiniteSet(Places(q, p)) BY <1>1, <1>2, FS_Subset
<1>. QED BY <1>3, FS_CardinalityType

\* Taking out an entry takes one place from its packet.
LEMMA PlacesTakenOut ==
  ASSUME NEW q, NEW i, NEW w, NEW p, Len(q) \in Nat, TakenOut(q, i, w)
  PROVE  Cardinality(Places(w, p)) =
           Cardinality(Places(q, p)) - (IF q[i].pkt = p THEN 1 ELSE 0)
<1>. DEFINE S == Places(q, p) \ {i}
            T == Places(w, p)
            f == [j \in T |-> IF j < i THEN j ELSE j + 1]
<1>1. /\ i \in 1 .. Len(q) /\ Len(w) = Len(q) - 1
      /\ \A j \in 1 .. Len(q) - 1 : w[j] = IF j < i THEN q[j] ELSE q[j + 1]
  BY DEF TakenOut
<1>2. \A j \in T : f[j] \in S
  BY <1>1 DEF Places
<1>3. \A j, k \in T : f[j] = f[k] => j = k
  BY <1>1 DEF Places
<1>4. ASSUME NEW k \in S PROVE \E j \in T : f[j] = k
  <2>1. k \in 1 .. Len(q) /\ q[k].pkt = p /\ k # i BY DEF Places
  <2>2. CASE k < i
    <3>1. k \in T BY <1>1, <2>1, <2>2 DEF Places
    <3>. QED BY <2>2, <3>1
  <2>3. CASE k > i
    <3>1. k - 1 \in 1 .. Len(q) - 1 /\ ~ (k - 1 < i) /\ (k - 1) + 1 = k
      BY <1>1, <2>1, <2>3
    <3>2. k - 1 \in T BY <1>1, <2>1, <3>1 DEF Places
    <3>. QED BY <3>1, <3>2
  <2>. QED BY <1>1, <2>1, <2>2, <2>3
<1>5. f \in Bijection(T, S)
  <2>. HIDE DEF S, T
  <2>1. f \in [T -> S] BY <1>2
  <2>. HIDE DEF f
  <2>. QED BY <1>3, <1>4, <2>1, Fun_IsBij
<1>6. IsFiniteSet(T) /\ IsFiniteSet(Places(q, p)) /\ Cardinality(Places(q, p)) \in Nat
  BY <1>1, PlacesFinite
<1>7. Cardinality(S) = Cardinality(T)
  <2>. HIDE DEF S, T, f
  <2>. QED BY <1>5, <1>6, FS_Bijection DEF ExistsBijection
<1>8. Cardinality(S) =
        IF i \in Places(q, p) THEN Cardinality(Places(q, p)) - 1 ELSE Cardinality(Places(q, p))
  <2>. HIDE DEF T, f
  <2>. QED BY <1>6, FS_RemoveElement, Zenon
<1>9. i \in Places(q, p) <=> q[i].pkt = p
  BY <1>1 DEF Places
<1>. HIDE DEF S, T, f
<1>. QED BY <1>6, <1>7, <1>8, <1>9 DEF T

\* Adding an entry gives its packet one more place.
LEMMA PlacesAppend ==
  ASSUME NEW S, NEW q \in Seq(S), NEW e \in S, NEW p
  PROVE  Cardinality(Places(Append(q, e), p)) =
           Cardinality(Places(q, p)) + (IF e.pkt = p THEN 1 ELSE 0)
<1>. DEFINE w == Append(q, e)
            n == Len(q) + 1
<1>1. /\ Len(q) \in Nat /\ Len(w) = n /\ w[n] = e
      /\ \A j \in 1 .. Len(q) : w[j] = q[j]
  OBVIOUS
<1>. HIDE DEF w
<1>2. n \notin Places(q, p) /\ IsFiniteSet(Places(q, p))
  <2>1. n \notin Places(q, p) BY <1>1 DEF Places
  <2>2. IsFiniteSet(Places(q, p)) BY <1>1, PlacesFinite, Zenon
  <2>. QED BY <2>1, <2>2
<1>3. CASE e.pkt = p
  <2>1. Places(w, p) = Places(q, p) \cup {n} BY <1>1, <1>3 DEF Places
  <2>2. Cardinality(Places(w, p)) = Cardinality(Places(q, p)) + 1
    BY <1>2, <2>1, FS_AddElement, Zenon
  <2>. QED BY <1>3, <2>2 DEF w
<1>4. CASE e.pkt # p
  <2>1. Places(w, p) = Places(q, p) BY <1>1, <1>4 DEF Places
  <2>2. Cardinality(Places(q, p)) \in Nat BY <1>1, PlacesFinite
  <2>. QED BY <1>4, <2>1, <2>2 DEF w
<1>. QED BY <1>3, <1>4

\* The queue counts as this module does.
LEMMA QueueCardinality == \A S : Queue!Cardinality(S) = Cardinality(S)
BY DEF Queue!Cardinality, Cardinality

\* The error callback is called once for the packet of a removed entry.
LEMMA ReportOne ==
  ASSUME NEW er \in Counts, NEW e, e.pkt \in Packets
  PROVE  Queue!Report(er, <<e>>) = [p \in Packets |-> er[p] + (IF e.pkt = p THEN 1 ELSE 0)]
<1>. SUFFICES ASSUME NEW p \in Packets
              PROVE  Cardinality({i \in 1 .. Len(<<e>>) : <<e>>[i].pkt = p}) =
                       IF e.pkt = p THEN 1 ELSE 0
  BY QueueCardinality DEF Queue!Report
<1>1. {i \in 1 .. Len(<<e>>) : <<e>>[i].pkt = p} = IF e.pkt = p THEN {1} ELSE {}
  OBVIOUS
<1>. QED BY <1>1, FS_EmptySet, FS_Singleton

\* No removed entry, no call.
LEMMA ReportNone ==
  ASSUME NEW er \in Counts
  PROVE  Queue!Report(er, <<>>) = er
<1>1. \A p \in Packets : {i \in 1 .. Len(<<>>) : <<>>[i].pkt = p} = {}
  OBVIOUS
<1>2. \A p \in Packets : Cardinality({i \in 1 .. Len(<<>>) : <<>>[i].pkt = p}) = 0
  BY <1>1, FS_EmptySet
<1>3. Queue!Report(er, <<>>) = [p \in Packets |-> er[p] + 0]
  BY <1>2, QueueCardinality DEF Queue!Report
<1>. QED BY <1>3 DEF Counts

\* The fields of an entry.
LEMMA EntryFields ==
  ASSUME NEW q \in Seq(QueueEntry), NEW i \in 1 .. Len(q)
  PROVE  /\ q[i] \in QueueEntry /\ q[i].pkt \in Packets /\ q[i].ref \in HeaderRefs
         /\ q[i].mark \in Nat /\ Queue!Destination(q[i]) \in Queue!Destinations
<1>1. q[i] \in QueueEntry OBVIOUS
<1>. QED BY <1>1 DEF QueueEntry, Queue!Destination, Queue!Destinations

\* Taking out an entry keeps the order of the others.
LEMMA TakenOutInOrder ==
  ASSUME NEW q, NEW lt, NEW n, IsQueue(q, n), InOrder(q, lt),
         NEW i, NEW w \in Seq(QueueEntry), TakenOut(q, i, w)
  PROVE  IsQueue(w, n) /\ InOrder(w, lt)
<1>1. /\ Len(q) \in Nat /\ i \in 1 .. Len(q) /\ Len(w) = Len(q) - 1
      /\ \A j \in 1 .. Len(q) - 1 : w[j] = IF j < i THEN q[j] ELSE q[j + 1]
  BY DEF TakenOut, IsQueue
<1>2. ASSUME NEW j \in 1 .. Len(w)
      PROVE  w[j].mark <= n /\ lt[Queue!Destination(w[j])] < w[j].mark
  <2>1. PICK k \in 1 .. Len(q) : w[j] = q[k] BY <1>1
  <2>. QED BY <2>1 DEF IsQueue, InOrder
<1>3. ASSUME NEW j \in 1 .. Len(w), NEW k \in 1 .. Len(w), j < k
      PROVE  w[j].mark < w[k].mark
  <2>1. PICK a \in 1 .. Len(q), b \in 1 .. Len(q) : a < b /\ w[j] = q[a] /\ w[k] = q[b]
    <3>1. CASE j < i /\ k < i BY <1>1, <1>3, <3>1
    <3>2. CASE j < i /\ ~ (k < i)
      <4>1. j \in 1 .. Len(q) /\ k + 1 \in 1 .. Len(q) /\ j < k + 1 BY <1>1, <1>3
      <4>2. w[j] = q[j] /\ w[k] = q[k + 1] BY <1>1, <3>2
      <4>. QED BY <4>1, <4>2
    <3>3. CASE ~ (j < i)
      <4>1. j + 1 \in 1 .. Len(q) /\ k + 1 \in 1 .. Len(q) /\ j + 1 < k + 1 BY <1>1, <1>3
      <4>2. w[j] = q[j + 1] /\ w[k] = q[k + 1] BY <1>1, <1>3, <3>3
      <4>. QED BY <4>1, <4>2
    <3>. QED BY <3>1, <3>2, <3>3
  <2>. QED BY <2>1 DEF InOrder
<1>. QED BY <1>2, <1>3 DEF IsQueue, InOrder

\* An entry that leaves the queue and is reported stays accounted for.
LEMMA ReportedGood ==
  ASSUME NEW q, NEW er, NEW tk, NEW ac, NEW lt, NEW n, QueueGood(q, er, tk, ac, lt, n),
         NEW i, NEW w \in Seq(QueueEntry), TakenOut(q, i, w)
  PROVE  QueueGood(w, Queue!Report(er, <<q[i]>>), tk, ac, lt, n)
<1>. DEFINE u == Queue!Report(er, <<q[i]>>)
<1>1. q \in Seq(QueueEntry) /\ Len(q) \in Nat /\ i \in 1 .. Len(q)
  BY DEF QueueGood, IsQueue, TakenOut
<1>2. er \in Counts /\ q[i].pkt \in Packets
  BY <1>1, EntryFields DEF QueueGood
<1>3. u = [p \in Packets |-> er[p] + (IF q[i].pkt = p THEN 1 ELSE 0)]
  BY <1>2, ReportOne
<1>. HIDE DEF u
<1>4. u \in Counts BY <1>2, <1>3 DEF Counts
<1>5. Accounted(w, u, tk, ac)
  <2>. SUFFICES ASSUME NEW p \in Packets
                PROVE  ac[p] = u[p] + tk[p] + Cardinality(Places(w, p))
    BY DEF Accounted
  <2>1. /\ ac[p] = er[p] + tk[p] + Cardinality(Places(q, p))
        /\ er[p] \in Nat /\ tk[p] \in Nat
    BY DEF QueueGood, Accounted, Counts
  <2>2. Cardinality(Places(q, p)) \in Nat BY <1>1, PlacesFinite
  <2>3. Cardinality(Places(w, p)) =
          Cardinality(Places(q, p)) - (IF q[i].pkt = p THEN 1 ELSE 0)
    BY <1>1, PlacesTakenOut
  <2>4. u[p] = er[p] + (IF q[i].pkt = p THEN 1 ELSE 0) BY <1>3
  <2>. QED BY <2>1, <2>2, <2>3, <2>4
<1>6. IsQueue(w, n) /\ InOrder(w, lt) BY TakenOutInOrder DEF QueueGood
<1>. QED BY <1>4, <1>5, <1>6 DEF QueueGood, u

\* An entry that is handed out stays accounted for.
LEMMA TakenAccounted ==
  ASSUME NEW q, NEW er, NEW tk, NEW ac, NEW lt, NEW n, QueueGood(q, er, tk, ac, lt, n),
         NEW i, NEW w, TakenOut(q, i, w)
  PROVE  Accounted(w, er, [tk EXCEPT ![q[i].pkt] = @ + 1], ac)
<1>. DEFINE u == [tk EXCEPT ![q[i].pkt] = @ + 1]
<1>1. /\ q \in Seq(QueueEntry) /\ Len(q) \in Nat /\ i \in 1 .. Len(q)
      /\ tk \in [Packets -> Nat]
  BY DEF QueueGood, IsQueue, TakenOut, Counts
<1>2. \A p \in Packets : u[p] = tk[p] + (IF q[i].pkt = p THEN 1 ELSE 0)
  BY <1>1
<1>. HIDE DEF u
<1>3. Accounted(w, er, u, ac)
  <2>. SUFFICES ASSUME NEW p \in Packets
                PROVE  ac[p] = er[p] + u[p] + Cardinality(Places(w, p))
    BY DEF Accounted
  <2>1. /\ ac[p] = er[p] + tk[p] + Cardinality(Places(q, p))
        /\ er[p] \in Nat /\ tk[p] \in Nat
    BY DEF QueueGood, Accounted, Counts
  <2>2. Cardinality(Places(q, p)) \in Nat BY <1>1, PlacesFinite
  <2>3. Cardinality(Places(w, p)) =
          Cardinality(Places(q, p)) - (IF q[i].pkt = p THEN 1 ELSE 0)
    BY <1>1, PlacesTakenOut
  <2>4. CASE q[i].pkt = p
    <3>1. u[p] = tk[p] + 1 BY <1>2, <2>4
    <3>2. Cardinality(Places(w, p)) = Cardinality(Places(q, p)) - 1 BY <2>3, <2>4, Zenon
    <3>. QED BY <2>1, <2>2, <3>1, <3>2
  <2>5. CASE q[i].pkt # p
    <3>1. u[p] = tk[p] + 0 BY <1>2, <2>5
    <3>2. Cardinality(Places(w, p)) = Cardinality(Places(q, p)) - 0 BY <2>3, <2>5, Zenon
    <3>. QED BY <2>1, <2>2, <3>1, <3>2
  <2>. QED BY <2>4, <2>5
<1>. QED BY <1>3 DEF u

\* An entry Dequeue takes, the first one for its destination.
LEMMA TakenGood ==
  ASSUME NEW q, NEW er, NEW tk, NEW ac, NEW lt, NEW n, QueueGood(q, er, tk, ac, lt, n),
         NEW i, NEW w \in Seq(QueueEntry), TakenOut(q, i, w), NEW a,
         Queue!Destination(q[i]) = a,
         \A j \in 1 .. Len(q) : Queue!Destination(q[j]) = a => i <= j
  PROVE  QueueGood(w, er, [tk EXCEPT ![q[i].pkt] = @ + 1], ac,
                   [lt EXCEPT ![a] = q[i].mark], n)
<1>. DEFINE u == [tk EXCEPT ![q[i].pkt] = @ + 1]
            v == [lt EXCEPT ![a] = q[i].mark]
<1>1. q \in Seq(QueueEntry) /\ Len(q) \in Nat /\ i \in 1 .. Len(q)
  BY DEF QueueGood, IsQueue, TakenOut
<1>2. /\ tk \in [Packets -> Nat] /\ q[i].pkt \in Packets /\ q[i].mark \in Nat
      /\ q[i].mark <= n /\ n \in Nat
      /\ a \in Queue!Destinations /\ lt \in [Queue!Destinations -> Nat]
      /\ \A b \in Queue!Destinations : lt[b] <= n
  BY <1>1, EntryFields DEF QueueGood, Counts, IsQueue
<1>3. /\ u \in Counts
      /\ \A p \in Packets : u[p] = tk[p] + (IF q[i].pkt = p THEN 1 ELSE 0)
  BY <1>2 DEF Counts
<1>4. /\ v \in [Queue!Destinations -> Nat] /\ v[a] = q[i].mark
      /\ \A b \in Queue!Destinations : v[b] <= n /\ (b # a => v[b] = lt[b])
  BY <1>2
<1>. HIDE DEF u, v
<1>5. Accounted(w, er, u, ac) BY TakenAccounted DEF u
<1>6. IsQueue(w, n) /\ InOrder(w, lt) BY TakenOutInOrder DEF QueueGood
<1>7. ASSUME NEW j \in 1 .. Len(w)
      PROVE  v[Queue!Destination(w[j])] < w[j].mark
  <2>1. /\ Len(w) = Len(q) - 1
        /\ \A k \in 1 .. Len(q) - 1 : w[k] = IF k < i THEN q[k] ELSE q[k + 1]
    BY DEF TakenOut
  <2>2. Queue!Destination(w[j]) \in Queue!Destinations BY EntryFields
  <2>3. CASE Queue!Destination(w[j]) # a
    BY <1>4, <1>6, <2>2, <2>3 DEF InOrder
  <2>4. CASE Queue!Destination(w[j]) = a
    <3>1. CASE j < i
      <4>1. w[j] = q[j] /\ j \in 1 .. Len(q) BY <1>1, <2>1, <3>1
      <4>. QED BY <1>1, <2>4, <3>1, <4>1
    <3>2. CASE ~ (j < i)
      <4>1. w[j] = q[j + 1] /\ j + 1 \in 1 .. Len(q) /\ i < j + 1 BY <1>1, <2>1, <3>2
      <4>2. q[i].mark < q[j + 1].mark BY <1>1, <4>1 DEF QueueGood, InOrder
      <4>. QED BY <1>4, <2>4, <4>1, <4>2
    <3>. QED BY <3>1, <3>2
  <2>. QED BY <2>3, <2>4
<1>8. IsQueue(w, n) /\ InOrder(w, v) BY <1>6, <1>7 DEF InOrder
<1>. QED BY <1>3, <1>4, <1>5, <1>8 DEF QueueGood, u, v

\* An entry Enqueue accepts, stamped later than the others.
LEMMA AddedGood ==
  ASSUME NEW q, NEW er, NEW tk, NEW ac, NEW lt, NEW n, QueueGood(q, er, tk, ac, lt, n),
         NEW e \in QueueEntry, e.mark = n + 1
  PROVE  QueueGood(Append(q, e), er, tk, [ac EXCEPT ![e.pkt] = @ + 1], lt, n + 1)
<1>. DEFINE w == Append(q, e)
            u == [ac EXCEPT ![e.pkt] = @ + 1]
<1>1. /\ q \in Seq(QueueEntry) /\ Len(q) \in Nat /\ n \in Nat /\ n + 1 \in Nat
      /\ ac \in [Packets -> Nat]
      /\ lt \in [Queue!Destinations -> Nat]
      /\ \A b \in Queue!Destinations : lt[b] <= n
  BY DEF QueueGood, IsQueue, Counts
<1>2. /\ w \in Seq(QueueEntry) /\ Len(w) = Len(q) + 1 /\ w[Len(q) + 1] = e
      /\ \A j \in 1 .. Len(q) : w[j] = q[j]
  BY <1>1
<1>3. e.pkt \in Packets /\ Queue!Destination(e) \in Queue!Destinations
  BY DEF QueueEntry, Queue!Destination, Queue!Destinations
<1>4. /\ u \in Counts
      /\ \A p \in Packets : u[p] = ac[p] + (IF e.pkt = p THEN 1 ELSE 0)
  BY <1>1, <1>3 DEF Counts
<1>5. ASSUME NEW p \in Packets
      PROVE  Cardinality(Places(w, p)) =
               Cardinality(Places(q, p)) + (IF e.pkt = p THEN 1 ELSE 0)
  BY <1>1, PlacesAppend
<1>. HIDE DEF w, u
<1>6. Accounted(w, er, tk, u)
  <2>. SUFFICES ASSUME NEW p \in Packets
                PROVE  u[p] = er[p] + tk[p] + Cardinality(Places(w, p))
    BY DEF Accounted
  <2>1. /\ ac[p] = er[p] + tk[p] + Cardinality(Places(q, p))
        /\ er[p] \in Nat /\ tk[p] \in Nat
    BY DEF QueueGood, Accounted, Counts
  <2>2. Cardinality(Places(q, p)) \in Nat BY <1>1, PlacesFinite
  <2>. QED BY <1>4, <1>5, <2>1, <2>2
<1>7. \A j \in 1 .. Len(w) : j \in 1 .. Len(q) \/ j = Len(q) + 1 BY <1>1, <1>2
<1>8. \A j \in 1 .. Len(q) : q[j].mark <= n /\ q[j].mark \in Nat
                             /\ lt[Queue!Destination(q[j])] < q[j].mark
  BY <1>1, EntryFields DEF QueueGood, IsQueue, InOrder
<1>9. ASSUME NEW j \in 1 .. Len(w)
      PROVE  w[j].mark <= n + 1 /\ lt[Queue!Destination(w[j])] < w[j].mark
  <2>1. CASE j \in 1 .. Len(q) BY <1>1, <1>2, <1>8, <2>1
  <2>2. CASE j = Len(q) + 1
    <3>1. lt[Queue!Destination(e)] <= n /\ lt[Queue!Destination(e)] \in Nat BY <1>1, <1>3
    <3>. QED BY <1>1, <1>2, <2>2, <3>1
  <2>. QED BY <1>7, <2>1, <2>2
<1>10. ASSUME NEW j \in 1 .. Len(w), NEW k \in 1 .. Len(w), j < k
       PROVE  w[j].mark < w[k].mark
  <2>1. j \in 1 .. Len(q) BY <1>1, <1>2, <1>10
  <2>2. CASE k \in 1 .. Len(q) BY <1>2, <1>10, <2>1, <2>2 DEF QueueGood, InOrder
  <2>3. CASE k = Len(q) + 1 BY <1>1, <1>2, <1>8, <2>1, <2>3
  <2>. QED BY <1>7, <2>2, <2>3
<1>11. IsQueue(w, n + 1) /\ InOrder(w, lt) BY <1>2, <1>9, <1>10 DEF IsQueue, InOrder
<1>12. \A b \in Queue!Destinations : lt[b] <= n + 1 BY <1>1
<1>. QED BY <1>1, <1>4, <1>6, <1>11, <1>12 DEF QueueGood, w, u

\* Purge takes out nothing, or one entry, which it hands to the error callback.
LEMMA PurgeTakes ==
  ASSUME NEW q \in Seq(QueueEntry)
  PROVE  LET pg == Queue!Purge(q)
         IN  \/ pg.list = q /\ pg.removed = <<>>
             \/ \E i \in 1 .. Len(q) :
                  /\ pg.removed = <<q[i]>> /\ pg.list \in Seq(QueueEntry)
                  /\ TakenOut(q, i, pg.list)
<1>. DEFINE ms == {i \in 1 .. Len(q) : Queue!IsOutdated(q[i])}
            f  == CHOOSE i \in ms : \A j \in ms : i <= j
            g  == IF ms = {} THEN 0 ELSE f
            w  == SubSeq(q, 1, g - 1) \o SubSeq(q, g + 1, Len(q))
<1>1. Queue!Purge(q) =
        IF g = 0
          THEN [list |-> q, removed |-> <<>>, throws |-> FALSE]
          ELSE [list |-> w, removed |-> <<q[g]>>, throws |-> g < Len(q) - 1]
  BY DEF Queue!Purge, Queue!LinkedSweep, Queue!FirstMatch, Queue!Matches, Queue!Without
<1>2. CASE ms = {} BY <1>1, <1>2
<1>3. CASE ms # {}
  <2>1. f \in ms
    <3>1. ms \in SUBSET Nat OBVIOUS
    <3>. HIDE DEF ms
    <3>. QED BY <1>3, <3>1, FirstPosition
  <2>2. g \in 1 .. Len(q) /\ g # 0
    <3>1. f \in 1 .. Len(q) /\ g = f
      <4>. HIDE DEF f
      <4>. QED BY <1>3, <2>1
    <3>. HIDE DEF f, g, ms
    <3>. QED BY <3>1
  <2>. HIDE DEF g
  <2>3. w \in Seq(QueueEntry) /\ TakenOut(q, g, w) BY <2>2, WithoutTakesOut
  <2>. HIDE DEF w
  <2>. QED BY <1>1, <2>2, <2>3
<1>. QED BY <1>2, <1>3

\* The sweep of DropPacketWithDst.
DropSweep(q, a) == Queue!LinkedSweep(q, LAMBDA e : Queue!Destination(e) = a)

LEMMA DropTakes ==
  ASSUME NEW q \in Seq(QueueEntry), NEW a
  PROVE  LET sw == DropSweep(q, a)
         IN  \/ sw.list = q /\ sw.removed = <<>>
             \/ \E i \in 1 .. Len(q) :
                  /\ sw.removed = <<q[i]>> /\ sw.list \in Seq(QueueEntry)
                  /\ TakenOut(q, i, sw.list)
<1>. DEFINE ms == {i \in 1 .. Len(q) : Queue!Destination(q[i]) = a}
            f  == CHOOSE i \in ms : \A j \in ms : i <= j
            g  == IF ms = {} THEN 0 ELSE f
            w  == SubSeq(q, 1, g - 1) \o SubSeq(q, g + 1, Len(q))
<1>1. DropSweep(q, a) =
        IF g = 0
          THEN [list |-> q, removed |-> <<>>, throws |-> FALSE]
          ELSE [list |-> w, removed |-> <<q[g]>>, throws |-> g < Len(q) - 1]
  BY DEF DropSweep, Queue!LinkedSweep, Queue!FirstMatch, Queue!Matches, Queue!Without
<1>2. CASE ms = {} BY <1>1, <1>2
<1>3. CASE ms # {}
  <2>1. f \in ms
    <3>1. ms \in SUBSET Nat OBVIOUS
    <3>. HIDE DEF ms
    <3>. QED BY <1>3, <3>1, FirstPosition
  <2>2. g \in 1 .. Len(q) /\ g # 0
    <3>1. f \in 1 .. Len(q) /\ g = f
      <4>. HIDE DEF f
      <4>. QED BY <1>3, <2>1
    <3>. HIDE DEF f, g, ms
    <3>. QED BY <3>1
  <2>. HIDE DEF g
  <2>3. w \in Seq(QueueEntry) /\ TakenOut(q, g, w) BY <2>2, WithoutTakesOut
  <2>. HIDE DEF w
  <2>. QED BY <1>1, <2>2, <2>3
<1>. QED BY <1>2, <1>3

\* The entry Dequeue looks for.
LEMMA EarliestIsFirst ==
  ASSUME NEW q \in Seq(QueueEntry), NEW a, Queue!Earliest(q, a) # 0
  PROVE  LET i == Queue!Earliest(q, a)
         IN  /\ i \in 1 .. Len(q) /\ Queue!Destination(q[i]) = a
             /\ \A j \in 1 .. Len(q) : Queue!Destination(q[j]) = a => i <= j
<1>. DEFINE ms == {i \in 1 .. Len(q) : Queue!Destination(q[i]) = a}
            f  == CHOOSE i \in ms : \A j \in ms : i <= j
<1>1. Queue!Earliest(q, a) = IF ms = {} THEN 0 ELSE f
  BY DEF Queue!Earliest, Queue!FirstMatch, Queue!Matches
<1>2. ms # {} BY <1>1
<1>3. f \in ms /\ \A j \in ms : f <= j
  <2>1. ms \in SUBSET Nat OBVIOUS
  <2>. HIDE DEF ms
  <2>. QED BY <1>2, <2>1, FirstPosition
<1>4. Queue!Earliest(q, a) = f BY <1>1, <1>2
<1>. HIDE DEF f
<1>. QED BY <1>3, <1>4

\* The purge a call begins with, reported.
LEMMA PurgeReported ==
  ASSUME QueueInv
  PROVE  LET pg == Queue!Purge(m_queue)
         IN  QueueGood(pg.list, Queue!Report(errored, pg.removed), taken, accepted,
                       lastTaken, serial)
<1>. DEFINE pg == Queue!Purge(m_queue)
<1>1. /\ QueueGood(m_queue, errored, taken, accepted, lastTaken, serial)
      /\ m_queue \in Seq(QueueEntry) /\ errored \in Counts
  BY DEF QueueInv, QueueGood, IsQueue
<1>2. \/ pg.list = m_queue /\ pg.removed = <<>>
      \/ \E i \in 1 .. Len(m_queue) :
           /\ pg.removed = <<m_queue[i]>> /\ pg.list \in Seq(QueueEntry)
           /\ TakenOut(m_queue, i, pg.list)
  BY <1>1, PurgeTakes
<1>. HIDE DEF pg
<1>3. CASE pg.list = m_queue /\ pg.removed = <<>>
  BY <1>1, <1>3, ReportNone DEF pg
<1>4. CASE \E i \in 1 .. Len(m_queue) :
             /\ pg.removed = <<m_queue[i]>> /\ pg.list \in Seq(QueueEntry)
             /\ TakenOut(m_queue, i, pg.list)
  BY <1>1, <1>4, ReportedGood DEF pg
<1>. QED BY <1>2, <1>3, <1>4

----------------------------------------------------------------------------
(* The steps of the request queue *)

LEMMA QueueInitInv == Queue!Init => QueueInv
<1>. SUFFICES ASSUME Queue!Init PROVE QueueInv OBVIOUS
<1>1. /\ m_queue = <<>> /\ heap = <<QueueTimeout>> /\ m_queueTimeout = 1 /\ serial = 0
      /\ qNow = Epoch /\ QueueTimeout \in Int /\ Epoch \in Int
      /\ errored = [p \in Packets |-> 0] /\ taken = [p \in Packets |-> 0]
      /\ accepted = [p \in Packets |-> 0]
      /\ lastTaken = [a \in Queue!Destinations |-> 0]
  BY TablesAssumption DEF Queue!Init, Queue!QueueAssumption
<1>2. /\ errored \in Counts /\ taken \in Counts /\ accepted \in Counts
      /\ lastTaken \in [Queue!Destinations -> Nat]
  BY <1>1 DEF Counts
<1>3. Accounted(m_queue, errored, taken, accepted)
  <2>1. ASSUME NEW p \in Packets
        PROVE  accepted[p] = errored[p] + taken[p] + Cardinality(Places(m_queue, p))
    <3>1. accepted[p] = 0 /\ errored[p] = 0 /\ taken[p] = 0 BY <1>1
    <3>2. Places(m_queue, p) = {} BY <1>1 DEF Places
    <3>3. Cardinality(Places(m_queue, p)) = 0 BY <3>2, FS_EmptySet
    <3>. QED BY <3>1, <3>3
  <2>. QED BY <2>1 DEF Accounted
<1>4. IsQueue(m_queue, serial) /\ InOrder(m_queue, lastTaken)
  BY <1>1 DEF IsQueue, InOrder
<1>. QED BY <1>1, <1>2, <1>3, <1>4 DEF QueueInv, QueueGood

\* Enqueue purges, drops the oldest entry of a full queue and adds its own.
LEMMA EnqueueInv ==
  ASSUME QueueInv, NEW p \in Packets, NEW r \in HeaderRefs, Queue!Enqueue(p, r)
  PROVE  QueueInv'
<1>. DEFINE pg == Queue!Purge(m_queue)
            er == Queue!Report(errored, pg.removed)
            e  == [pkt |-> p, ref |-> r, expire |-> m_queueTimeout, mark |-> serial + 1]
            full == Queue!IsFull(pg.list)
<1>1. QueueGood(pg.list, er, taken, accepted, lastTaken, serial)
  BY PurgeReported
<1>2. m_queueTimeout' = m_queueTimeout /\ taken' = taken /\ lastTaken' = lastTaken
  BY DEF Queue!Enqueue
<1>h. heap' \in Seq(Int) /\ Len(heap') = Len(heap) /\ qNow' = qNow
  <2>1. /\ heap \in Seq(Int) /\ m_queueTimeout \in 1 .. Len(heap) /\ qNow \in Int
        /\ heap[m_queueTimeout] + qNow \in Int
    BY DEF QueueInv
  <2>2. /\ heap' = heap \/ heap' = [heap EXCEPT ![m_queueTimeout] = heap[m_queueTimeout] + qNow]
        /\ qNow' = qNow
    BY DEF Queue!Enqueue, Queue!PurgeThrows
  <2>3. LET h == [heap EXCEPT ![m_queueTimeout] = heap[m_queueTimeout] + qNow]
        IN  h \in Seq(Int) /\ Len(h) = Len(heap)
    BY <2>1
  <2>. QED BY <2>1, <2>2, <2>3
<1>3. e \in QueueEntry /\ e.mark = serial + 1 /\ e.pkt = p
  BY DEF QueueInv, QueueGood, QueueEntry
<1>4. \/ /\ m_queue' = pg.list /\ errored' = er /\ accepted' = accepted
         /\ (serial' = serial \/ serial' = serial + 1)
      \/ /\ ~ (full /\ pg.list = <<>>)
         /\ m_queue' = Append(IF full THEN Tail(pg.list) ELSE pg.list, e)
         /\ errored' = Queue!Report(er, IF full THEN <<Head(pg.list)>> ELSE <<>>)
         /\ accepted' = [accepted EXCEPT ![p] = @ + 1] /\ serial' = serial + 1
  BY DEF Queue!Enqueue, Queue!PurgeThrows, Queue!Add
<1>. HIDE DEF pg, er, e, full
<1>5. CASE /\ m_queue' = pg.list /\ errored' = er /\ accepted' = accepted
           /\ (serial' = serial \/ serial' = serial + 1)
  <2>1. QueueGood(pg.list, er, taken, accepted, lastTaken, serial + 1)
    <3>1. serial \in Nat /\ lastTaken \in [Queue!Destinations -> Nat]
      BY <1>1 DEF QueueGood
    <3>2. \A i \in 1 .. Len(pg.list) : pg.list[i].mark \in Nat
      BY <1>1, EntryFields DEF QueueGood, IsQueue
    <3>. QED BY <1>1, <3>1, <3>2 DEF QueueGood, IsQueue
  <2>. QED BY <1>1, <1>2, <1>h, <1>5, <2>1 DEF QueueInv
<1>6. CASE /\ ~ full
           /\ m_queue' = Append(pg.list, e) /\ errored' = Queue!Report(er, <<>>)
           /\ accepted' = [accepted EXCEPT ![p] = @ + 1] /\ serial' = serial + 1
  <2>1. errored' = er BY <1>1, <1>6, ReportNone DEF QueueGood
  <2>2. QueueGood(Append(pg.list, e), er, taken, [accepted EXCEPT ![e.pkt] = @ + 1],
                  lastTaken, serial + 1)
    BY <1>1, <1>3, AddedGood
  <2>. QED BY <1>2, <1>h, <1>3, <1>6, <2>1, <2>2 DEF QueueInv
<1>7. CASE /\ full /\ pg.list # <<>>
           /\ m_queue' = Append(Tail(pg.list), e)
           /\ errored' = Queue!Report(er, <<Head(pg.list)>>)
           /\ accepted' = [accepted EXCEPT ![p] = @ + 1] /\ serial' = serial + 1
  <2>1. pg.list \in Seq(QueueEntry) BY <1>1 DEF QueueGood, IsQueue
  <2>2. /\ Tail(pg.list) \in Seq(QueueEntry) /\ TakenOut(pg.list, 1, Tail(pg.list))
        /\ Head(pg.list) = pg.list[1]
    BY <1>7, <2>1, TailTakesOut
  <2>3. QueueGood(Tail(pg.list), Queue!Report(er, <<Head(pg.list)>>), taken, accepted,
                  lastTaken, serial)
    BY <1>1, <2>2, ReportedGood
  <2>4. QueueGood(Append(Tail(pg.list), e), Queue!Report(er, <<Head(pg.list)>>), taken,
                  [accepted EXCEPT ![e.pkt] = @ + 1], lastTaken, serial + 1)
    BY <1>3, <2>3, AddedGood
  <2>. QED BY <1>2, <1>h, <1>3, <1>7, <2>4 DEF QueueInv
<1>. QED BY <1>4, <1>5, <1>6, <1>7

\* Dequeue purges and takes the first entry for its destination.
LEMMA DequeueInv ==
  ASSUME QueueInv, NEW a \in Queue!Destinations, Queue!Dequeue(a)
  PROVE  QueueInv'
<1>. DEFINE pg == Queue!Purge(m_queue)
            er == Queue!Report(errored, pg.removed)
            i  == Queue!Earliest(pg.list, a)
<1>1. QueueGood(pg.list, er, taken, accepted, lastTaken, serial)
  BY PurgeReported
<1>2. UNCHANGED <<heap, m_queueTimeout, qNow, accepted, serial>>
  BY DEF Queue!Dequeue
<1>3. \/ m_queue' = pg.list /\ errored' = er /\ taken' = taken /\ lastTaken' = lastTaken
      \/ /\ i # 0 /\ m_queue' = Queue!Without(pg.list, i) /\ errored' = er
         /\ taken' = [taken EXCEPT ![pg.list[i].pkt] = @ + 1]
         /\ lastTaken' = [lastTaken EXCEPT ![a] = pg.list[i].mark]
  BY DEF Queue!Dequeue, Queue!PurgeThrows
<1>4. i # 0 => /\ i \in 1 .. Len(pg.list) /\ Queue!Destination(pg.list[i]) = a
               /\ \A j \in 1 .. Len(pg.list) : Queue!Destination(pg.list[j]) = a => i <= j
  BY EarliestIsFirst, <1>1 DEF QueueGood, IsQueue
<1>. HIDE DEF pg, er, i
<1>5. CASE m_queue' = pg.list /\ errored' = er /\ taken' = taken /\ lastTaken' = lastTaken
  BY <1>1, <1>2, <1>5 DEF QueueInv
<1>6. CASE /\ i # 0 /\ m_queue' = Queue!Without(pg.list, i) /\ errored' = er
           /\ taken' = [taken EXCEPT ![pg.list[i].pkt] = @ + 1]
           /\ lastTaken' = [lastTaken EXCEPT ![a] = pg.list[i].mark]
  <2>. DEFINE w == Queue!Without(pg.list, i)
  <2>1. w \in Seq(QueueEntry) /\ TakenOut(pg.list, i, w)
    BY <1>1, <1>4, <1>6, WithoutTakesOut DEF Queue!Without, QueueGood, IsQueue
  <2>. HIDE DEF w
  <2>2. QueueGood(w, er, [taken EXCEPT ![pg.list[i].pkt] = @ + 1], accepted,
                  [lastTaken EXCEPT ![a] = pg.list[i].mark], serial)
    BY <1>1, <1>4, <1>6, <2>1, TakenGood
  <2>. QED BY <1>2, <1>6, <2>2 DEF QueueInv, w
<1>. QED BY <1>3, <1>5, <1>6

\* DropPacketWithDst purges and sweeps once more.
LEMMA DropInv ==
  ASSUME QueueInv, NEW a \in Queue!Destinations, Queue!DropPacketWithDst(a)
  PROVE  QueueInv'
<1>. DEFINE pg == Queue!Purge(m_queue)
            er == Queue!Report(errored, pg.removed)
            sw == DropSweep(pg.list, a)
<1>1. QueueGood(pg.list, er, taken, accepted, lastTaken, serial)
  BY PurgeReported
<1>2. UNCHANGED <<heap, m_queueTimeout, qNow, taken, accepted, serial, lastTaken>>
  BY DEF Queue!DropPacketWithDst
<1>3. \/ m_queue' = pg.list /\ errored' = er
      \/ m_queue' = sw.list /\ errored' = Queue!Report(er, sw.removed)
  BY DEF Queue!DropPacketWithDst, Queue!PurgeThrows, DropSweep
<1>4. \/ sw.list = pg.list /\ sw.removed = <<>>
      \/ \E i \in 1 .. Len(pg.list) :
           /\ sw.removed = <<pg.list[i]>> /\ sw.list \in Seq(QueueEntry)
           /\ TakenOut(pg.list, i, sw.list)
  BY <1>1, DropTakes DEF QueueGood, IsQueue
<1>. HIDE DEF pg, er, sw
<1>5. QueueGood(sw.list, Queue!Report(er, sw.removed), taken, accepted, lastTaken, serial)
  <2>1. CASE sw.list = pg.list /\ sw.removed = <<>>
    BY <1>1, <2>1, ReportNone DEF QueueGood
  <2>2. ASSUME NEW i \in 1 .. Len(pg.list), sw.removed = <<pg.list[i]>>,
               sw.list \in Seq(QueueEntry), TakenOut(pg.list, i, sw.list)
        PROVE  QueueGood(sw.list, Queue!Report(er, sw.removed), taken, accepted, lastTaken,
                         serial)
    BY <1>1, <2>2, ReportedGood
  <2>. QED BY <1>4, <2>1, <2>2
<1>. QED BY <1>1, <1>2, <1>3, <1>5 DEF QueueInv

LEMMA QueueNextInv == QueueInv /\ [Queue!Next]_queueVars => QueueInv'
<1>. SUFFICES ASSUME QueueInv, [Queue!Next]_queueVars PROVE QueueInv' OBVIOUS
<1>1. ASSUME NEW p \in Packets, NEW r \in HeaderRefs, Queue!Enqueue(p, r) PROVE QueueInv'
  BY <1>1, EnqueueInv
<1>2. ASSUME NEW a \in Queue!Destinations, Queue!Dequeue(a) PROVE QueueInv'
  BY <1>2, DequeueInv
<1>3. ASSUME NEW a \in Queue!Destinations, Queue!DropPacketWithDst(a) PROVE QueueInv'
  BY <1>3, DropInv
<1>4. CASE Queue!GetSize
  BY <1>4, PurgeReported DEF Queue!GetSize, QueueInv
<1>5. ASSUME NEW len \in MaxLens, Queue!SetMaxQueueLen(len) PROVE QueueInv'
  BY <1>5 DEF Queue!SetMaxQueueLen, Queue!history, QueueInv
<1>6. CASE Queue!SetQueueTimeout
  <2>1. UNCHANGED <<m_queue, qNow, errored, taken, accepted, serial, lastTaken>>
    BY <1>6 DEF Queue!SetQueueTimeout, Queue!history
  <2>2. /\ heap' = Append(heap, QueueTimeout) /\ m_queueTimeout' = Len(heap) + 1
        /\ heap \in Seq(Int) /\ QueueTimeout \in Int
    BY <1>6, TablesAssumption DEF Queue!SetQueueTimeout, Queue!QueueAssumption, QueueInv
  <2>3. /\ Append(heap, QueueTimeout) \in Seq(Int) /\ Len(heap) \in Nat
        /\ Len(Append(heap, QueueTimeout)) = Len(heap) + 1
    BY <2>2
  <2>. QED BY <2>1, <2>2, <2>3 DEF QueueInv
<1>7. CASE Queue!Tick
  BY <1>7 DEF Queue!Tick, Queue!history, QueueInv
<1>8. CASE UNCHANGED queueVars
  BY <1>8 DEF queueVars, QueueInv
<1>. QED BY <1>1, <1>2, <1>3, <1>4, <1>5, <1>6, <1>7, <1>8 DEF Queue!Next

LEMMA QueueInvariant == TablesSpec => []QueueInv
<1>1. TablesInit => QueueInv BY QueueInitInv DEF TablesInit
<1>2. QueueInv /\ [TablesNext]_<<which, vars, queueVars, nbVars>> => QueueInv'
  <2>. SUFFICES ASSUME QueueInv, [TablesNext]_<<which, vars, queueVars, nbVars>>
                PROVE  QueueInv'
    OBVIOUS
  <2>1. [Queue!Next]_queueVars BY DEF TablesNext
  <2>. QED BY <2>1, QueueNextInv
<1>. QED BY <1>1, <1>2, PTL DEF TablesSpec

\* RequestQueue.java: whatever calls come in whatever order and whatever purge
\* throws half way, a packet accepted is queued, reported or handed out, once for
\* each time it was accepted.
THEOREM PacketsAreAccounted == TablesSpec => []EveryPacketAccounted
<1>1. QueueInv => EveryPacketAccounted
  BY QueueCardinality DEF QueueInv, QueueGood, Accounted, Places, EveryPacketAccounted,
     Queue!EveryPacketAccounted
<1>. QED BY <1>1, QueueInvariant, PTL

\* RequestQueue.java: Dequeue serves each destination in the order of arrival.
THEOREM DequeuesOldestFirst == TablesSpec => []OldestFirst
<1>1. QueueInv => OldestFirst
  BY DEF QueueInv, QueueGood, InOrder, OldestFirst, Queue!OldestFirst
<1>. QED BY <1>1, QueueInvariant, PTL

----------------------------------------------------------------------------
(* The neighbours *)

\* A neighbour is listed once.
OneEach(list) ==
  \A i, j \in 1 .. Len(list) : list[i].m_neighborAddress = list[j].m_neighborAddress => i = j

NbInv ==
  /\ m_nb \in Seq(Nb!Neighbor) /\ OneEach(m_nb) /\ nbNow \in Nat
  /\ failures \in [NeighborRefs -> Nat] /\ removed \in [NeighborRefs -> Nat]
  /\ NoSilentRemoval

\* The fields of a neighbour.
LEMMA NeighborFields ==
  ASSUME NEW list \in Seq(Nb!Neighbor), NEW i \in 1 .. Len(list)
  PROVE  /\ list[i] \in Nb!Neighbor /\ list[i].m_neighborAddress \in NeighborRefs
         /\ list[i].m_expireTime \in Nat /\ list[i].close \in BOOLEAN
<1>1. list[i] \in Nb!Neighbor OBVIOUS
<1>. QED BY <1>1 DEF Nb!Neighbor

\* Update finds a neighbour at the only place it can be.
LEMMA FindFinds ==
  ASSUME NEW list, Len(list) \in Nat, NEW r
  PROVE  /\ Nb!Find(list, r) # 0 =>
              /\ Nb!Find(list, r) \in 1 .. Len(list)
              /\ list[Nb!Find(list, r)].m_neighborAddress = r
         /\ Nb!Find(list, r) = 0 => \A i \in 1 .. Len(list) : list[i].m_neighborAddress # r
<1>. DEFINE ms == {i \in 1 .. Len(list) : list[i].m_neighborAddress = r}
            f  == CHOOSE i \in ms : \A j \in ms : i <= j
<1>1. Nb!Find(list, r) = IF ms = {} THEN 0 ELSE f
  BY DEF Nb!Find, Nb!FirstMatch, Nb!Matches
<1>2. CASE ms = {} BY <1>1, <1>2
<1>3. CASE ms # {}
  <2>1. f \in ms
    <3>1. ms \in SUBSET Nat OBVIOUS
    <3>. HIDE DEF ms
    <3>. QED BY <1>3, <3>1, FirstPosition
  <2>2. Nb!Find(list, r) = f BY <1>1, <1>3
  <2>. HIDE DEF f
  <2>. QED BY <2>1, <2>2
<1>. QED BY <1>2, <1>3

\* The second walk of Purge takes out nothing, or one neighbour that is closed.
LEMMA NbSweepTakes ==
  ASSUME NEW q \in Seq(Nb!Neighbor)
  PROVE  LET sw == Nb!ArraySweep(q, Nb!CloseNeighbor)
         IN  \/ sw.list = q /\ sw.removed = <<>>
             \/ \E i \in 1 .. Len(q) :
                  /\ Nb!CloseNeighbor(q[i])
                  /\ sw.removed = <<q[i]>> /\ sw.list \in Seq(Nb!Neighbor)
                  /\ TakenOut(q, i, sw.list)
<1>. DEFINE ms == {i \in 1 .. Len(q) : Nb!CloseNeighbor(q[i])}
            f  == CHOOSE i \in ms : \A j \in ms : i <= j
            g  == IF ms = {} THEN 0 ELSE f
            w  == SubSeq(q, 1, g - 1) \o SubSeq(q, g + 1, Len(q))
<1>1. Nb!ArraySweep(q, Nb!CloseNeighbor) =
        IF g = 0
          THEN [list |-> q, removed |-> <<>>, throws |-> FALSE]
          ELSE [list |-> w, removed |-> <<q[g]>>, throws |-> g # Len(q) - 1]
  BY DEF Nb!ArraySweep, Nb!FirstMatch, Nb!Matches, Nb!Without
<1>2. CASE ms = {} BY <1>1, <1>2
<1>3. CASE ms # {}
  <2>1. f \in ms
    <3>1. ms \in SUBSET Nat OBVIOUS
    <3>. HIDE DEF ms
    <3>. QED BY <1>3, <3>1, FirstPosition
  <2>2. g \in 1 .. Len(q) /\ g # 0 /\ Nb!CloseNeighbor(q[g])
    <3>1. f \in 1 .. Len(q) /\ g = f /\ Nb!CloseNeighbor(q[f])
      <4>. HIDE DEF f
      <4>. QED BY <1>3, <2>1
    <3>. HIDE DEF f, g, ms
    <3>. QED BY <3>1
  <2>. HIDE DEF g
  <2>3. w \in Seq(Nb!Neighbor) /\ TakenOut(q, g, w) BY <2>2, WithoutTakesOut
  <2>. HIDE DEF w
  <2>. QED BY <1>1, <2>2, <2>3
<1>. QED BY <1>2, <1>3

\* Taking out a neighbour leaves the others, once each.
LEMMA TakenOutOneEach ==
  ASSUME NEW q, NEW i, NEW w, Len(q) \in Nat, OneEach(q), TakenOut(q, i, w)
  PROVE  /\ OneEach(w)
         /\ \A k \in 1 .. Len(q) : k # i =>
              \E j \in 1 .. Len(w) : w[j] = q[k]
<1>1. /\ i \in 1 .. Len(q) /\ Len(w) = Len(q) - 1
      /\ \A j \in 1 .. Len(q) - 1 : w[j] = IF j < i THEN q[j] ELSE q[j + 1]
  BY DEF TakenOut
<1>2. OneEach(w) BY <1>1 DEF OneEach
<1>3. ASSUME NEW k \in 1 .. Len(q), k # i
      PROVE  \E j \in 1 .. Len(w) : w[j] = q[k]
  <2>1. CASE k < i BY <1>1, <2>1
  <2>2. CASE k > i
    <3>1. k - 1 \in 1 .. Len(q) - 1 /\ ~ (k - 1 < i) /\ (k - 1) + 1 = k
      BY <1>1, <2>2
    <3>2. w[k - 1] = q[k] /\ k - 1 \in 1 .. Len(w) BY <1>1, <3>1
    <3>. QED BY <3>2
  <2>. QED BY <1>1, <1>3, <2>1, <2>2
<1>. QED BY <1>2, <1>3

\* Purge of a list: what was told and what was removed agree, and a neighbour
\* that is alive stays and is not reported.
LEMMA NbPurge ==
  ASSUME NbInv, NEW op, NEW q \in Seq(Nb!Neighbor), OneEach(q), Nb!Purge(op, q),
         UNCHANGED nbNow
  PROVE  /\ NbInv'
         /\ \A k \in 1 .. Len(q) : ~ Nb!CloseNeighbor(q[k]) =>
              /\ Nb!Find(m_nb', q[k].m_neighborAddress) # 0
              /\ failures'[q[k].m_neighborAddress] = failures[q[k].m_neighborAddress]
<1>. DEFINE sw == Nb!ArraySweep(q, Nb!CloseNeighbor)
<1>0. /\ nbNow \in Nat /\ Len(q) \in Nat
      /\ failures \in [NeighborRefs -> Nat] /\ removed \in [NeighborRefs -> Nat]
      /\ \A r \in NeighborRefs : removed[r] <= failures[r]
  BY DEF NbInv, NoSilentRemoval, Nb!NoSilentRemoval
<1>1. CASE q = <<>>
  <2>1. m_nb' = q /\ UNCHANGED <<failures, removed>> BY <1>1 DEF Nb!Purge
  <2>. QED BY <1>0, <1>1, <2>1 DEF NbInv, NoSilentRemoval, Nb!NoSilentRemoval
<1>2. CASE q # <<>>
  <2>1. /\ failures' = [r \in NeighborRefs |->
              failures[r] + IF handler /\ r \in Nb!Closed(q) THEN 1 ELSE 0]
        /\ m_nb' = sw.list
        /\ removed' = [r \in NeighborRefs |->
              removed[r] + IF handler /\ Nb!Find(sw.removed, r) # 0 THEN 1 ELSE 0]
    BY <1>2 DEF Nb!Purge, Nb!Reported
  <2>2. \/ sw.list = q /\ sw.removed = <<>>
        \/ \E i \in 1 .. Len(q) :
             /\ Nb!CloseNeighbor(q[i])
             /\ sw.removed = <<q[i]>> /\ sw.list \in Seq(Nb!Neighbor)
             /\ TakenOut(q, i, sw.list)
    BY NbSweepTakes
  <2>. HIDE DEF sw
  <2>3. Nb!Closed(q) = {q[i].m_neighborAddress : i \in {j \in 1 .. Len(q) : Nb!CloseNeighbor(q[j])}}
    BY DEF Nb!Closed, Nb!Matches
  <2>4. /\ m_nb' \in Seq(Nb!Neighbor) /\ OneEach(m_nb')
        /\ \A k \in 1 .. Len(q) : ~ Nb!CloseNeighbor(q[k]) =>
              \E j \in 1 .. Len(m_nb') : m_nb'[j] = q[k]
    <3>1. CASE sw.list = q BY <2>1, <3>1
    <3>2. ASSUME NEW i \in 1 .. Len(q), Nb!CloseNeighbor(q[i]),
                 sw.list \in Seq(Nb!Neighbor), TakenOut(q, i, sw.list)
          PROVE  /\ m_nb' \in Seq(Nb!Neighbor) /\ OneEach(m_nb')
                 /\ \A k \in 1 .. Len(q) : ~ Nb!CloseNeighbor(q[k]) =>
                       \E j \in 1 .. Len(m_nb') : m_nb'[j] = q[k]
      <4>1. /\ OneEach(sw.list)
            /\ \A k \in 1 .. Len(q) : k # i => \E j \in 1 .. Len(sw.list) : sw.list[j] = q[k]
        BY <1>0, <3>2, TakenOutOneEach
      <4>. QED BY <2>1, <3>2, <4>1
    <3>. QED BY <2>2, <3>1, <3>2
  <2>5. ASSUME NEW r \in NeighborRefs, Nb!Find(sw.removed, r) # 0
        PROVE  r \in Nb!Closed(q)
    <3>1. CASE sw.removed = <<>>
      BY <2>5, <3>1, FindFinds
    <3>2. ASSUME NEW i \in 1 .. Len(q), Nb!CloseNeighbor(q[i]), sw.removed = <<q[i]>>
          PROVE  r \in Nb!Closed(q)
      <4>1. q[i].m_neighborAddress = r
        BY <2>5, <3>2, FindFinds
      <4>. QED BY <2>3, <3>2, <4>1
    <3>. QED BY <2>2, <3>1, <3>2
  <2>6. /\ failures' \in [NeighborRefs -> Nat] /\ removed' \in [NeighborRefs -> Nat]
        /\ \A r \in NeighborRefs : removed'[r] <= failures'[r]
    <3>1. ASSUME NEW r \in NeighborRefs
          PROVE  /\ failures'[r] \in Nat /\ removed'[r] \in Nat /\ removed'[r] <= failures'[r]
      <4>1. failures[r] \in Nat /\ removed[r] \in Nat /\ removed[r] <= failures[r] BY <1>0
      <4>2. CASE handler /\ Nb!Find(sw.removed, r) # 0
        <5>1. failures'[r] = failures[r] + 1 /\ removed'[r] = removed[r] + 1
          BY <2>1, <2>5, <4>2
        <5>. QED BY <4>1, <5>1
      <4>3. CASE ~ (handler /\ Nb!Find(sw.removed, r) # 0)
        <5>1. removed'[r] = removed[r] + 0 BY <2>1, <4>3
        <5>2. failures'[r] = failures[r] + 0 \/ failures'[r] = failures[r] + 1
          BY <2>1, Zenon
        <5>. QED BY <4>1, <5>1, <5>2
      <4>. QED BY <4>2, <4>3
    <3>2. /\ failures' = [r \in NeighborRefs |-> failures'[r]]
          /\ removed' = [r \in NeighborRefs |-> removed'[r]]
      BY <2>1
    <3>. QED BY <3>1, <3>2
  <2>7. ASSUME NEW k \in 1 .. Len(q), ~ Nb!CloseNeighbor(q[k])
        PROVE  /\ Nb!Find(m_nb', q[k].m_neighborAddress) # 0
               /\ failures'[q[k].m_neighborAddress] = failures[q[k].m_neighborAddress]
    <3>1. PICK j \in 1 .. Len(m_nb') : m_nb'[j] = q[k] BY <2>4, <2>7
    <3>2. Len(m_nb') \in Nat BY <2>4
    <3>3. Nb!Find(m_nb', q[k].m_neighborAddress) # 0 BY <3>1, <3>2, FindFinds
    <3>4. q[k].m_neighborAddress \notin Nb!Closed(q)
      <4>. SUFFICES ASSUME NEW i \in 1 .. Len(q), Nb!CloseNeighbor(q[i]),
                           q[i].m_neighborAddress = q[k].m_neighborAddress
                    PROVE  FALSE
        BY <2>3
      <4>. QED BY <2>7 DEF OneEach
    <3>5. q[k].m_neighborAddress \in NeighborRefs BY NeighborFields
    <3>6. failures[q[k].m_neighborAddress] \in Nat BY <1>0, <3>5
    <3>7. failures'[q[k].m_neighborAddress] = failures[q[k].m_neighborAddress] + 0
      BY <2>1, <3>4, <3>5
    <3>. QED BY <3>3, <3>6, <3>7
  <2>8. NbInv'
    BY <1>0, <2>4, <2>6 DEF NbInv, NoSilentRemoval, Nb!NoSilentRemoval
  <2>. QED BY <2>7, <2>8
<1>. QED BY <1>1, <1>2

\* Update of a neighbour that is listed changes its fields where it is.
Updated(q, i, t, mac) ==
  [q EXCEPT ![i].m_expireTime = t, ![i].m_hardwareAddress = mac]

LEMMA UpdatedInPlace ==
  ASSUME NEW q \in Seq(Nb!Neighbor), OneEach(q), NEW i \in 1 .. Len(q),
         NEW t \in Nat, NEW mac \in Macs \union {NoMac}
  PROVE  LET w == Updated(q, i, t, mac)
         IN  /\ w \in Seq(Nb!Neighbor) /\ OneEach(w) /\ Len(w) = Len(q)
             /\ \A k \in 1 .. Len(q) : w[k].m_neighborAddress = q[k].m_neighborAddress
<1>. DEFINE x == [q[i] EXCEPT !.m_expireTime = t, !.m_hardwareAddress = mac]
            w == [q EXCEPT ![i] = x]
<1>1. Updated(q, i, t, mac) = w
  BY DEF Updated
<1>2. q[i] \in Nb!Neighbor OBVIOUS
<1>3. x \in Nb!Neighbor /\ x.m_neighborAddress = q[i].m_neighborAddress
  BY <1>2 DEF Nb!Neighbor
<1>. HIDE DEF x
<1>4. /\ w \in Seq(Nb!Neighbor) /\ Len(w) = Len(q) /\ w[i] = x
      /\ \A k \in 1 .. Len(q) : k # i => w[k] = q[k]
  BY <1>3
<1>. HIDE DEF w
<1>5. \A k \in 1 .. Len(q) : w[k].m_neighborAddress = q[k].m_neighborAddress
  BY <1>3, <1>4
<1>6. OneEach(w) BY <1>4, <1>5 DEF OneEach
<1>. QED BY <1>1, <1>4, <1>5, <1>6

\* Update keeps the neighbours that are alive, and the list as it should be.
LEMMA UpdateNb ==
  ASSUME NbInv, NEW r \in NeighborRefs, NEW mac \in Macs \union {NoMac}, Nb!Update(r, mac)
  PROVE  /\ NbInv'
         /\ \A k \in 1 .. Len(m_nb) : ~ Nb!CloseNeighbor(m_nb[k]) =>
              /\ Nb!Find(m_nb', m_nb[k].m_neighborAddress) # 0
              /\ failures'[m_nb[k].m_neighborAddress] = failures[m_nb[k].m_neighborAddress]
<1>. DEFINE i == Nb!Find(m_nb, r)
            x == [m_neighborAddress |-> r, m_hardwareAddress |-> mac,
                  m_expireTime |-> NeighborLifeTime + nbNow, close |-> FALSE]
            q == Append(m_nb, x)
<1>1. /\ m_nb \in Seq(Nb!Neighbor) /\ Len(m_nb) \in Nat /\ OneEach(m_nb)
      /\ nbNow \in Nat /\ NeighborLifeTime + nbNow \in Nat
  BY TablesAssumption DEF NbInv, Nb!NeighborsAssumption
<1>2. nbNow' = nbNow BY DEF Nb!Update
<1>3. CASE i # 0
  <2>1. i \in 1 .. Len(m_nb) BY <1>1, <1>3, FindFinds
  <2>2. m_nb[i].m_expireTime \in Nat /\ m_nb[i].m_hardwareAddress \in Macs \union {NoMac}
    <3>. HIDE DEF i
    <3>1. m_nb[i] \in Nb!Neighbor BY <1>1, <2>1
    <3>. QED BY <3>1 DEF Nb!Neighbor
  <2>. DEFINE t == Nb!Later(NeighborLifeTime + nbNow, m_nb[i].m_expireTime)
              m == IF m_nb[i].m_hardwareAddress = NoMac THEN mac
                                                        ELSE m_nb[i].m_hardwareAddress
              w == Updated(m_nb, i, t, m)
  <2>3. m_nb' = w /\ UNCHANGED <<failures, removed>> BY <1>3 DEF Nb!Update, Updated
  <2>4. t \in Nat /\ m \in Macs \union {NoMac} BY <1>1, <2>2 DEF Nb!Later
  <2>. HIDE DEF t, m, i
  <2>5. /\ w \in Seq(Nb!Neighbor) /\ OneEach(w) /\ Len(w) = Len(m_nb)
        /\ \A k \in 1 .. Len(m_nb) : w[k].m_neighborAddress = m_nb[k].m_neighborAddress
    BY <1>1, <2>1, <2>4, UpdatedInPlace
  <2>. HIDE DEF w
  <2>6. \A k \in 1 .. Len(m_nb) : Nb!Find(w, m_nb[k].m_neighborAddress) # 0
    BY <1>1, <2>5, FindFinds
  <2>. QED BY <1>2, <2>3, <2>5, <2>6 DEF NbInv, NoSilentRemoval, Nb!NoSilentRemoval
<1>4. CASE i = 0
  <2>1. Nb!Purge("Update", q) BY <1>4 DEF Nb!Update
  <2>2. x \in Nb!Neighbor /\ x.m_neighborAddress = r BY <1>1 DEF Nb!Neighbor
  <2>3. \A k \in 1 .. Len(m_nb) : m_nb[k].m_neighborAddress # r
    BY <1>1, <1>4, FindFinds
  <2>. HIDE DEF x, i
  <2>4. /\ q \in Seq(Nb!Neighbor) /\ Len(q) = Len(m_nb) + 1 /\ q[Len(m_nb) + 1] = x
        /\ \A k \in 1 .. Len(m_nb) : q[k] = m_nb[k]
    BY <1>1, <2>2
  <2>. HIDE DEF q
  <2>5. OneEach(q)
    <3>. SUFFICES ASSUME NEW j \in 1 .. Len(q), NEW k \in 1 .. Len(q),
                         q[j].m_neighborAddress = q[k].m_neighborAddress
                  PROVE  j = k
      BY DEF OneEach
    <3>1. /\ j \in 1 .. Len(m_nb) \/ j = Len(m_nb) + 1
          /\ k \in 1 .. Len(m_nb) \/ k = Len(m_nb) + 1
      BY <1>1, <2>4
    <3>2. CASE j \in 1 .. Len(m_nb) /\ k \in 1 .. Len(m_nb)
      BY <1>1, <2>4, <3>2 DEF OneEach
    <3>. QED BY <2>2, <2>3, <2>4, <3>1, <3>2
  <2>6. /\ NbInv'
        /\ \A k \in 1 .. Len(q) : ~ Nb!CloseNeighbor(q[k]) =>
              /\ Nb!Find(m_nb', q[k].m_neighborAddress) # 0
              /\ failures'[q[k].m_neighborAddress] = failures[q[k].m_neighborAddress]
    BY <1>2, <2>1, <2>4, <2>5, NbPurge
  <2>7. \A k \in 1 .. Len(m_nb) : k \in 1 .. Len(q) BY <1>1, <2>4
  <2>. QED BY <2>4, <2>6, <2>7
<1>. QED BY <1>3, <1>4

LEMMA NbInitInv == Nb!Init => NbInv
BY DEF Nb!Init, NbInv, OneEach, NoSilentRemoval, Nb!NoSilentRemoval

LEMMA NbNextInv == NbInv /\ [Nb!Next]_nbVars => NbInv'
<1>. SUFFICES ASSUME NbInv, [Nb!Next]_nbVars PROVE NbInv' OBVIOUS
<1>. USE DEF NoSilentRemoval, Nb!NoSilentRemoval
<1>1. CASE Nb!IsNeighbor
  BY <1>1, NbPurge DEF Nb!IsNeighbor, NbInv
<1>2. ASSUME NEW r \in NeighborRefs, NEW mac \in Macs \union {NoMac}, Nb!Update(r, mac)
      PROVE  NbInv'
  BY <1>2, UpdateNb
<1>3. ASSUME NEW mac \in Macs, Nb!ProcessTxError(mac) PROVE NbInv'
  <2>. DEFINE q == [i \in 1 .. Len(m_nb) |->
                      IF m_nb[i].m_hardwareAddress = mac
                        THEN [m_nb[i] EXCEPT !.close = TRUE] ELSE m_nb[i]]
  <2>1. Nb!Purge("ProcessTxError", q) /\ nbNow' = nbNow
    BY <1>3 DEF Nb!ProcessTxError
  <2>2. ASSUME NEW i \in 1 .. Len(m_nb)
        PROVE  q[i] \in Nb!Neighbor /\ q[i].m_neighborAddress = m_nb[i].m_neighborAddress
    <3>1. m_nb[i] \in Nb!Neighbor BY DEF NbInv
    <3>. QED BY <3>1 DEF Nb!Neighbor
  <2>3. Len(m_nb) \in Nat BY DEF NbInv
  <2>4. q \in Seq(Nb!Neighbor) /\ Len(q) = Len(m_nb)
    <3>1. q = [i \in 1 .. Len(m_nb) |-> q[i]] OBVIOUS
    <3>. HIDE DEF q
    <3>. QED BY <2>2, <2>3, <3>1
  <2>. HIDE DEF q
  <2>5. OneEach(q) BY <2>2, <2>4 DEF NbInv, OneEach
  <2>. QED BY <2>1, <2>4, <2>5, NbPurge
<1>4. CASE Nb!ScheduleTimer BY <1>4 DEF Nb!ScheduleTimer, NbInv
<1>5. CASE Nb!Clear BY <1>5 DEF Nb!Clear, NbInv, OneEach
<1>6. CASE Nb!SetCallback BY <1>6 DEF Nb!SetCallback, NbInv
<1>7. CASE Nb!Tick BY <1>7 DEF Nb!Tick, NbInv
<1>8. CASE UNCHANGED nbVars BY <1>8 DEF nbVars, NbInv
<1>. QED BY <1>1, <1>2, <1>3, <1>4, <1>5, <1>6, <1>7, <1>8 DEF Nb!Next

LEMMA NbInvariant == TablesSpec => []NbInv
<1>1. TablesInit => NbInv BY NbInitInv DEF TablesInit
<1>2. NbInv /\ [TablesNext]_<<which, vars, queueVars, nbVars>> => NbInv'
  <2>. SUFFICES ASSUME NbInv, [TablesNext]_<<which, vars, queueVars, nbVars>>
                PROVE  NbInv'
    OBVIOUS
  <2>1. [Nb!Next]_nbVars BY DEF TablesNext
  <2>. QED BY <2>1, NbNextInv
<1>. QED BY <1>1, <1>2, PTL DEF TablesSpec

\* Neighbors.java: once the protocol has set its handler, no walk of Purge, not
\* even one that an exception cuts short, removes a neighbour it has not told the
\* handler about.
THEOREM NeighborsNotSilentlyRemoved == TablesSpec => []NoSilentRemoval
<1>1. NbInv => NoSilentRemoval BY DEF NbInv
<1>. QED BY <1>1, NbInvariant, PTL

\* Neighbors.java: a lookup or an update neither removes nor reports a neighbour
\* heard within its lifetime that the link layer has not closed.
THEOREM LiveNeighborsAreKept == TablesSpec => LiveNeighborsKept
<1>. DEFINE KeepsLive ==
       nbLast'.op \in {"IsNeighbor", "Update"}
         => \A i \in 1 .. Len(m_nb) :
              (m_nb[i].m_expireTime >= nbNow /\ ~ m_nb[i].close)
                => /\ Nb!Find(m_nb', m_nb[i].m_neighborAddress) # 0
                   /\ failures'[m_nb[i].m_neighborAddress] = failures[m_nb[i].m_neighborAddress]
<1>1. ASSUME NbInv, Nb!Next, nbLast'.op \in {"IsNeighbor", "Update"},
             NEW k \in 1 .. Len(m_nb),
             m_nb[k].m_expireTime >= nbNow /\ ~ m_nb[k].close
      PROVE  /\ Nb!Find(m_nb', m_nb[k].m_neighborAddress) # 0
             /\ failures'[m_nb[k].m_neighborAddress] = failures[m_nb[k].m_neighborAddress]
  <2>1. ~ Nb!CloseNeighbor(m_nb[k])
    BY <1>1, NeighborFields DEF Nb!CloseNeighbor, NbInv
  <2>2. CASE Nb!IsNeighbor
    BY <1>1, <2>1, <2>2, NbPurge DEF Nb!IsNeighbor, NbInv
  <2>3. ASSUME NEW r \in NeighborRefs, NEW mac \in Macs \union {NoMac}, Nb!Update(r, mac)
        PROVE  /\ Nb!Find(m_nb', m_nb[k].m_neighborAddress) # 0
               /\ failures'[m_nb[k].m_neighborAddress] = failures[m_nb[k].m_neighborAddress]
    BY <1>1, <2>1, <2>3, UpdateNb
  <2>4. ASSUME NEW mac \in Macs, Nb!ProcessTxError(mac) PROVE FALSE
    BY <1>1, <2>4 DEF Nb!ProcessTxError, Nb!Purge
  <2>5. ~ Nb!ScheduleTimer /\ ~ Nb!Clear /\ ~ Nb!SetCallback /\ ~ Nb!Tick
    BY <1>1 DEF Nb!ScheduleTimer, Nb!Clear, Nb!SetCallback, Nb!Tick
  <2>. QED BY <1>1, <2>2, <2>3, <2>4, <2>5 DEF Nb!Next
<1>2. NbInv /\ Nb!Next => KeepsLive BY <1>1
<1>3. NbInv /\ [TablesNext]_<<which, vars, queueVars, nbVars>> => [KeepsLive]_(Nb!vars)
  <2>. HIDE DEF KeepsLive
  <2>. QED BY <1>2 DEF TablesNext, nbVars, Nb!vars
<1>. QED BY <1>3, NbInvariant, PTL DEF TablesSpec, LiveNeighborsKept, Nb!LiveNeighborsKept

----------------------------------------------------------------------------
(* The routing table *)

\* The contents of a table are entries under addresses.
IsTable(t) ==
  /\ DOMAIN t \subseteq Addresses
  /\ \A k \in DOMAIN t : t[k] \in Entry

\* Only routes in search count requests, of a table t.
Counted(t) == \A k \in DOMAIN t : t[k].m_reqCount # 0 => t[k].m_flag = "IN_SEARCH"

\* What every operation keeps.
Good(t) == IsTable(t) /\ Counted(t)

\* An entry that counts only when in search.
GoodEntry(e) == e \in Entry /\ (e.m_reqCount # 0 => e.m_flag = "IN_SEARCH")

IInv == TypeOK /\ CountOnlyInSearch

USE RankAssumption, TableAssumption

----------------------------------------------------------------------------
(* Entries *)

\* Reading a lifetime leaves an integer.
LEMMA LifeLeftInt ==
  ASSUME now \in Nat, NEW e \in Entry PROVE LifeLeft(e) \in Int
BY DEF LifeLeft, Entry

\* Invalidation keeps an entry good: it resets the count.
LEMMA InvalidateGood ==
  ASSUME now \in Nat, NEW e, GoodEntry(e) PROVE GoodEntry(Invalidate(e))
<1>1. e \in Entry BY DEF GoodEntry
<1>2. BadLinkLifetime + now \in Int OBVIOUS
<1>3. CASE e.m_flag = "INVALID" BY <1>3 DEF Invalidate
<1>4. CASE e.m_flag # "INVALID"
  <2>1. Invalidate(e) = [e EXCEPT !.m_flag = "INVALID", !.m_reqCount = 0,
                                  !.m_lifeTime = BadLinkLifetime + now]
    BY <1>4 DEF Invalidate
  <2>. QED BY <1>1, <1>2, <2>1 DEF GoodEntry, Entry, RouteFlags
<1>. QED BY <1>3, <1>4

\* The walk of Purge keeps an entry good.
LEMMA SweptGood ==
  ASSUME now \in Nat, NEW e, GoodEntry(e) PROVE GoodEntry(Swept(e))
<1>1. e \in Entry BY DEF GoodEntry
<1>2. LifeLeft(e) \in Int BY <1>1, LifeLeftInt
<1>. HIDE DEF LifeLeft
<1>4. CASE LifeLeft(e) < 0 /\ e.m_flag = "VALID"
  <2>1. Swept(e) = Invalidate(e) BY <1>4 DEF Swept
  <2>. QED BY <2>1, InvalidateGood
<1>5. CASE ~(LifeLeft(e) < 0 /\ e.m_flag = "VALID")
  <2>1. Swept(e) = [e EXCEPT !.m_lifeTime = LifeLeft(e)]
    BY <1>5 DEF Swept
  <2>. QED BY <1>1, <1>2, <2>1 DEF GoodEntry, Entry, RouteFlags
<1>. QED BY <1>4, <1>5

\* What AddRoute and Update store is good.
LEMMA StoredGood ==
  ASSUME NEW e \in Entry PROVE GoodEntry(Stored(e))
BY DEF Stored, GoodEntry, Entry

\* Good tables have good entries, and conversely.
LEMMA GoodByEntry ==
  ASSUME NEW t
  PROVE  Good(t) <=> DOMAIN t \subseteq Addresses /\ \A k \in DOMAIN t : GoodEntry(t[k])
BY DEF Good, IsTable, Counted, GoodEntry

----------------------------------------------------------------------------
(* Tables *)

\* A purge, whether it ends or is cut short, leaves a good table.
LEMMA PurgeGood ==
  ASSUME now \in Nat, NEW t, Good(t) PROVE Good(Purge(t).table)
<1>1. DOMAIN t \subseteq Addresses /\ \A k \in DOMAIN t : GoodEntry(t[k])
  BY GoodByEntry
<1>2. \A k \in DOMAIN t : GoodEntry(Swept(t[k])) BY <1>1, SweptGood
<1>3. CASE t = NoRoutes \/ Outdated(t) = {}
  <2>1. Purge(t).table = [k \in DOMAIN t |-> Swept(t[k])] BY <1>3 DEF Purge
  <2>. QED BY <1>1, <1>2, <2>1, GoodByEntry
<1>4. CASE ~(t = NoRoutes \/ Outdated(t) = {})
  <2>. DEFINE v == FirstOf(Outdated(t))
  <2>1. Purge(t).table = [k \in DOMAIN t \ {v} |->
                            IF Rank[k] < Rank[v] THEN Swept(t[k]) ELSE t[k]]
    BY <1>4 DEF Purge
  <2>. HIDE DEF v
  <2>. QED BY <1>1, <1>2, <2>1, GoodByEntry
<1>. QED BY <1>3, <1>4

\* Setting and removing one key.
LEMMA PutGood ==
  ASSUME NEW t, Good(t), NEW k \in Addresses, NEW e, GoodEntry(e)
  PROVE  Good(Put(t, k, e))
BY GoodByEntry DEF Put

\* DeleteRoute: removing a key keeps a table good.
LEMMA RemoveGood ==
  ASSUME NEW t, Good(t), NEW k PROVE Good(Remove(t, k))
BY GoodByEntry DEF Remove

\* The table of the constructor and of Clear.
LEMMA EmptyGood == Good(NoRoutes)
BY DEF Good, IsTable, Counted, NoRoutes

\* The loop of InvalidateRoutesWithDst.
LEMMA InvalidatedGood ==
  ASSUME now \in Nat, NEW t, Good(t), NEW u PROVE Good(Invalidated(t, u))
<1>1. DOMAIN t \subseteq Addresses /\ \A k \in DOMAIN t : GoodEntry(t[k])
  BY GoodByEntry
<1>2. \A k \in DOMAIN t : GoodEntry(Invalidate(t[k])) BY <1>1, InvalidateGood
<1>. QED BY <1>1, <1>2, GoodByEntry DEF Invalidated

----------------------------------------------------------------------------
(* Operations *)

\* The deadlines stay numbers.
LEMMA DeadlinesType ==
  ASSUME now \in Nat, due \in [Addresses -> Nat], NEW t
  PROVE  Deadlines(t) \in [Addresses -> Nat]
BY DEF Deadlines

\* What a step has to establish: a good table, an outcome, the deadlines.
Outcomes == {"ok", "true", "false", "exception"}
Kept == Good(table') /\ due' \in [Addresses -> Nat] /\ last'.out \in Outcomes /\ now' = now

\* A call that leaves a good table, a known outcome and deadlines keeps all three.
LEMMA DoneGood ==
  ASSUME NEW op, NEW out \in Outcomes, NEW t, Good(t), Done(op, out, t),
         due' \in [Addresses -> Nat]
  PROVE  Kept
BY DEF Done, Kept, table

\* The facts every operation starts from.
LEMMA CallPremises ==
  ASSUME IInv
  PROVE  /\ now \in Nat /\ Good(table) /\ due \in [Addresses -> Nat]
         /\ Good(Purge(table).table)
         /\ \A t : Deadlines(t) \in [Addresses -> Nat]
<1>1. now \in Nat /\ Good(table) /\ due \in [Addresses -> Nat]
  BY DEF IInv, TypeOK, CountOnlyInSearch, Good, IsTable, Counted
<1>. QED BY <1>1, PurgeGood, DeadlinesType

\* A call that opens with Purge may leave by an exception at once.
LEMMA ThrowGood ==
  ASSUME IInv, NEW op, Done(op, "exception", Purge(table).table),
         due' = Deadlines(Purge(table).table)
  PROVE  Kept
BY CallPremises, DoneGood DEF Outcomes

\* AddRoute
LEMMA AddRouteGood ==
  ASSUME IInv, NEW dst \in Addresses, NEW e \in Entry, NEW lt \in Nat,
         AddRoute(dst, e, lt)
  PROVE  Kept
<1>. DEFINE t == Purge(table).table
<1>1. Good(Put(t, dst, Stored(e))) BY CallPremises, StoredGood, PutGood
<1>2. CASE Purge(table).throws
  BY <1>2, ThrowGood DEF AddRoute, AfterPurge
<1>3. CASE ~Purge(table).throws
  <2>1. Done(Purging, "true", Put(t, dst, Stored(e)))
        /\ due' = [Deadlines(t) EXCEPT ![dst] = now + lt]
    BY <1>3 DEF AddRoute, AfterPurge
  <2>2. due' \in [Addresses -> Nat] BY CallPremises, <2>1
  <2>. QED BY <1>1, <2>1, <2>2, DoneGood DEF Outcomes
<1>. QED BY <1>2, <1>3

\* Update: only what is in the table is replaced.
LEMMA UpdateGood ==
  ASSUME IInv, NEW dst \in Addresses, NEW e \in Entry, NEW lt \in Nat,
         Update(dst, e, lt)
  PROVE  Kept
<1>1. CASE dst \in DOMAIN table
  <2>1. Good(Put(table, dst, Stored(e))) BY CallPremises, StoredGood, PutGood
  <2>2. Done(Other, "true", Put(table, dst, Stored(e)))
        /\ due' = [due EXCEPT ![dst] = now + lt]
    BY <1>1 DEF Update
  <2>3. due' \in [Addresses -> Nat] BY CallPremises, <2>2
  <2>. QED BY <2>1, <2>2, <2>3, DoneGood DEF Outcomes
<1>2. CASE dst \notin DOMAIN table
  BY <1>2, CallPremises, DoneGood DEF Update, Outcomes
<1>. QED BY <1>1, <1>2

\* DeleteRoute
LEMMA DeleteRouteGood ==
  ASSUME IInv, NEW dst, DeleteRoute(dst) PROVE Kept
<1>. DEFINE t == Purge(table).table
<1>1. Good(Remove(t, dst)) BY CallPremises, RemoveGood
<1>2. CASE Purge(table).throws BY <1>2, ThrowGood DEF DeleteRoute, AfterPurge
<1>3. CASE ~Purge(table).throws
  <2>1. PICK out \in Outcomes : Done(Other, out, Remove(t, dst))
    BY <1>3 DEF DeleteRoute, AfterPurge, Outcomes
  <2>2. due' = Deadlines(Remove(t, dst)) BY <1>3 DEF DeleteRoute, AfterPurge
  <2>. QED BY <1>1, <2>1, <2>2, CallPremises, DoneGood
<1>. QED BY <1>2, <1>3

\* The lookups, and Purge itself: nothing changes beyond the purge.
LEMMA LookupGood ==
  ASSUME IInv,
         \/ \E dst \in Addresses : LookupRoute(dst) \/ LookupValidRoute(dst)
         \/ GetListOfDestinationWithNextHop
         \/ PurgeCall
  PROVE  Kept
<1>. DEFINE t == Purge(table).table
<1>1. CASE Purge(table).throws
  BY <1>1, ThrowGood DEF LookupRoute, LookupValidRoute, GetListOfDestinationWithNextHop,
                         PurgeCall, AfterPurge
<1>2. CASE ~Purge(table).throws
  <2>1. PICK out \in Outcomes : Done(Purging, out, t)
    BY <1>2 DEF LookupRoute, LookupValidRoute, GetListOfDestinationWithNextHop,
                PurgeCall, AfterPurge, Outcomes
  <2>2. due' = Deadlines(t)
    BY <1>2 DEF LookupRoute, LookupValidRoute, GetListOfDestinationWithNextHop,
                PurgeCall, AfterPurge
  <2>. QED BY <2>1, <2>2, CallPremises, DoneGood
<1>. QED BY <1>1, <1>2

\* InvalidateRoutesWithDst
LEMMA InvalidateRoutesGood ==
  ASSUME IInv, NEW u, InvalidateRoutesWithDst(u) PROVE Kept
<1>. DEFINE t == Purge(table).table
            op == <<"InvalidateRoutesWithDst", u>>
<1>1. Good(Invalidated(t, u)) BY CallPremises, InvalidatedGood
<1>2. CASE Purge(table).throws
  BY <1>2, ThrowGood DEF InvalidateRoutesWithDst, AfterPurge
<1>3. CASE ~Purge(table).throws
  <2>1. Done(op, "ok", Invalidated(t, u)) /\ due' = Deadlines(Invalidated(t, u))
    BY <1>3 DEF InvalidateRoutesWithDst, AfterPurge
  <2>. QED BY <1>1, <2>1, CallPremises, DoneGood DEF Outcomes
<1>. QED BY <1>2, <1>3

\* The two operations that change an entry in place reset its count.
LEMMA InPlaceGood ==
  ASSUME IInv, NEW dst \in Addresses,
         (\E state \in RouteFlags : SetEntryState(dst, state)) \/ MarkLinkAsUnidirectional(dst)
  PROVE  Kept
<1>1. DOMAIN table \subseteq Addresses /\ \A k \in DOMAIN table : GoodEntry(table[k])
  BY CallPremises, GoodByEntry
<1>2. ASSUME NEW state \in RouteFlags, dst \in DOMAIN table
      PROVE  Good([table EXCEPT ![dst].m_flag = state, ![dst].m_reqCount = 0])
  <2>. DEFINE e == [table[dst] EXCEPT !.m_flag = state, !.m_reqCount = 0]
              t == [k \in DOMAIN table |-> IF k = dst THEN e ELSE table[k]]
  <2>1. [table EXCEPT ![dst].m_flag = state, ![dst].m_reqCount = 0] = t OBVIOUS
  <2>2. table[dst] \in Entry BY <1>1, <1>2 DEF GoodEntry
  <2>3. GoodEntry(e) BY <2>2 DEF GoodEntry, Entry
  <2>. QED BY <1>1, <2>1, <2>3, GoodByEntry
<1>3. ASSUME dst \in DOMAIN table
      PROVE  Good([table EXCEPT ![dst].m_reqCount = 0])
  <2>. DEFINE e == [table[dst] EXCEPT !.m_reqCount = 0]
              t == [k \in DOMAIN table |-> IF k = dst THEN e ELSE table[k]]
  <2>1. [table EXCEPT ![dst].m_reqCount = 0] = t OBVIOUS
  <2>2. table[dst] \in Entry BY <1>1, <1>3 DEF GoodEntry
  <2>3. GoodEntry(e) BY <2>2 DEF GoodEntry, Entry
  <2>. QED BY <1>1, <2>1, <2>3, GoodByEntry
<1>4. ASSUME NEW state \in RouteFlags, SetEntryState(dst, state) PROVE Kept
  <2>1. CASE dst \in DOMAIN table
    BY <1>2, <1>4, <2>1, CallPremises, DoneGood DEF SetEntryState, Outcomes
  <2>2. CASE dst \notin DOMAIN table
    BY <1>4, <2>2, CallPremises, DoneGood DEF SetEntryState, Outcomes
  <2>. QED BY <2>1, <2>2
<1>5. ASSUME MarkLinkAsUnidirectional(dst) PROVE Kept
  <2>1. CASE dst \in DOMAIN table
    BY <1>3, <1>5, <2>1, CallPremises, DoneGood DEF MarkLinkAsUnidirectional, Outcomes
  <2>2. CASE dst \notin DOMAIN table
    BY <1>5, <2>2, CallPremises, DoneGood DEF MarkLinkAsUnidirectional, Outcomes
  <2>. QED BY <2>1, <2>2
<1>. QED BY <1>4, <1>5

\* DeleteAllRoutesFromInterface: at most one key is removed.
LEMMA DeleteInterfaceGood ==
  ASSUME IInv, NEW i, DeleteAllRoutesFromInterface(i) PROVE Kept
<1>. DEFINE op    == <<"DeleteAllRoutesFromInterface", i>>
            found == {k \in DOMAIN table : table[k].m_iface = i}
<1>1. due' \in [Addresses -> Nat] BY CallPremises DEF DeleteAllRoutesFromInterface
<1>2. Good(Remove(table, FirstOf(found))) BY CallPremises, RemoveGood
<1>3. CASE found = {}
  <2>1. Done(op, "ok", table) BY <1>3 DEF DeleteAllRoutesFromInterface
  <2>. QED BY <1>1, <2>1, CallPremises, DoneGood DEF Outcomes
<1>4. CASE found # {}
  <2>1. PICK out \in Outcomes : Done(op, out, Remove(table, FirstOf(found)))
    BY <1>4 DEF DeleteAllRoutesFromInterface, Outcomes
  <2>. QED BY <1>1, <1>2, <2>1, DoneGood
<1>. QED BY <1>3, <1>4

\* The entries Next builds are entries.
LEMMA NewEntryType ==
  ASSUME now \in Nat, NEW flag \in RouteFlags, NEW cnt \in {0, MaxCnt}, NEW i \in Ifaces,
         NEW lt \in Nat
  PROVE  NewEntry(flag, cnt, i, lt) \in Entry
BY DEF NewEntry, Entry

----------------------------------------------------------------------------
(* The invariant *)

\* The constructor leaves an empty table.
LEMMA InitIInv == Init => IInv
BY DEF Init, IInv, TypeOK, CountOnlyInSearch, NoRoutes, table

\* Every call keeps the table good.
LEMMA CallKeeps == ASSUME IInv, Next PROVE Kept \/ Tick
<1>1. ASSUME NEW dst \in Addresses, NEW flag \in {"VALID", "IN_SEARCH"}, NEW cnt \in {0, MaxCnt},
             NEW i \in Ifaces, NEW lt \in LifeTimes,
             \/ AddRoute(dst, NewEntry(flag, cnt, i, lt), lt)
             \/ Update(dst, NewEntry(flag, cnt, i, lt), lt)
      PROVE  Kept
  <2>1. lt \in Nat /\ flag \in RouteFlags BY DEF RouteFlags
  <2>2. NewEntry(flag, cnt, i, lt) \in Entry BY <2>1, CallPremises, NewEntryType
  <2>. QED BY <1>1, <2>1, <2>2, AddRouteGood, UpdateGood
<1>2. ASSUME NEW dst \in Addresses, DeleteRoute(dst) PROVE Kept
  BY <1>2, DeleteRouteGood
<1>3. ASSUME \/ \E dst \in Addresses : LookupRoute(dst) \/ LookupValidRoute(dst)
             \/ GetListOfDestinationWithNextHop
             \/ PurgeCall
      PROVE  Kept
  BY <1>3, LookupGood
<1>4. ASSUME NEW dst \in Addresses,
             (\E state \in RouteFlags : SetEntryState(dst, state)) \/ MarkLinkAsUnidirectional(dst)
      PROVE  Kept
  BY <1>4, InPlaceGood
<1>5. ASSUME NEW u, InvalidateRoutesWithDst(u) PROVE Kept
  BY <1>5, InvalidateRoutesGood
<1>6. ASSUME NEW i, DeleteAllRoutesFromInterface(i) PROVE Kept
  BY <1>6, DeleteInterfaceGood
<1>7. ASSUME Clear PROVE Kept
  <2>1. Done(Other, "ok", NoRoutes) /\ due' \in [Addresses -> Nat] BY <1>7 DEF Clear
  <2>. QED BY <2>1, EmptyGood, DoneGood DEF Outcomes
<1>. QED BY <1>1, <1>2, <1>3, <1>4, <1>5, <1>6, <1>7 DEF Next

\* Every step keeps the invariant.
LEMMA NextIInv == IInv /\ [Next]_vars => IInv'
<1>. SUFFICES ASSUME IInv, [Next]_vars PROVE IInv'
  OBVIOUS
<1>1. CASE UNCHANGED vars
  BY <1>1 DEF vars, IInv, TypeOK, CountOnlyInSearch, table
<1>2. CASE Tick
  BY <1>2 DEF Tick, IInv, TypeOK, CountOnlyInSearch, table
<1>3. CASE Kept
  <2>1. now' \in Epoch..(Epoch + MaxTicks) BY <1>3 DEF Kept, IInv, TypeOK
  <2>2. TypeOK' BY <1>3, <2>1 DEF Kept, TypeOK, Good, IsTable, Outcomes, table, Entry
  <2>3. CountOnlyInSearch' BY <1>3 DEF Kept, CountOnlyInSearch, Good, Counted, table
  <2>. QED BY <2>2, <2>3 DEF IInv
<1>. QED BY <1>1, <1>2, <1>3, CallKeeps

\* The inductive invariant of the table.
THEOREM TableInvariant == Spec => []IInv
BY InitIInv, NextIInv, PTL DEF Spec

\* The fields of the table and of its entries keep their types, for every set of
\* destinations and through every purge that is cut short.
THEOREM TableTypeCorrect == Spec => []TypeOK
<1>1. IInv => TypeOK BY DEF IInv
<1>. QED BY <1>1, TableInvariant, PTL

\* RoutingTable.java: no chain of updates, invalidations, state changes and purges
\* leaves a count of requests in a route that is not in search.
THEOREM CountsOnlyInSearch == Spec => []CountOnlyInSearch
<1>1. IInv => CountOnlyInSearch BY DEF IInv
<1>. QED BY <1>1, TableInvariant, PTL

----------------------------------------------------------------------------
(* Which routes a walk removes *)

\* A walk that removes ends at a key it meant to remove: of the matches, one comes
\* first in the order of the HashMap.
LEMMA FirstOfMember ==
  ASSUME NEW keys, keys \subseteq Addresses, keys # {}
  PROVE  FirstOf(keys) \in keys
<1>. DEFINE ranks == {Rank[k] : k \in keys}
<1>1. ranks \subseteq Nat /\ ranks # {} OBVIOUS
<1>2. PICK r \in ranks : \A s \in ranks : ~(<<s, r>> \in OpToRel(<, Nat))
  BY <1>1, NatLessThanWellFounded, WFMin
<1>3. \A s \in ranks : r <= s
  <2>. SUFFICES ASSUME NEW s \in ranks, s < r PROVE FALSE BY <1>1
  <2>1. <<s, r>> \in OpToRel(<, Nat) BY <1>1 DEF OpToRel
  <2>. QED BY <1>2, <2>1
<1>4. PICK k \in keys : Rank[k] = r OBVIOUS
<1>5. \A j \in keys : Rank[k] <= Rank[j] BY <1>3, <1>4
<1>. QED BY <1>5 DEF FirstOf

\* Purge removes at most one route, and only an invalid one.
LEMMA PurgeRemovesInvalid ==
  ASSUME NEW t, DOMAIN t \subseteq Addresses
  PROVE  \A k \in DOMAIN t \ DOMAIN Purge(t).table : t[k].m_flag = "INVALID"
<1>1. CASE t = NoRoutes \/ Outdated(t) = {}
  <2>1. Purge(t).table = [k \in DOMAIN t |-> Swept(t[k])] BY <1>1 DEF Purge
  <2>. QED BY <2>1
<1>2. CASE ~(t = NoRoutes \/ Outdated(t) = {})
  <2>. DEFINE v == FirstOf(Outdated(t))
  <2>1. Outdated(t) \subseteq Addresses BY DEF Outdated
  <2>2. v \in Outdated(t) BY <1>2, <2>1, FirstOfMember
  <2>3. t[v].m_flag = "INVALID" BY <2>2 DEF Outdated
  <2>4. Purge(t).table = [k \in DOMAIN t \ {v} |->
                            IF Rank[k] < Rank[v] THEN Swept(t[k]) ELSE t[k]]
    BY <1>2 DEF Purge
  <2>. HIDE DEF v
  <2>5. DOMAIN Purge(t).table = DOMAIN t \ {v} BY <2>4
  <2>. QED BY <2>3, <2>5
<1>. QED BY <1>1, <1>2

\* What a step does to the set of destinations: a caller deletes, or nothing but
\* the opening purge removes.
Deleting == last'.op = Other \/ \E i \in Ifaces : last'.op = <<"DeleteAllRoutesFromInterface", i>>
Purged == DOMAIN Purge(table).table \subseteq DOMAIN table'

\* Every step is of one of the two kinds.
LEMMA StepDeletesOrPurges == ASSUME Next PROVE Deleting \/ Purged
<1>1. ASSUME NEW dst \in Addresses, NEW e, NEW lt, AddRoute(dst, e, lt) PROVE Purged
  <2>1. CASE Purge(table).throws
    BY <1>1, <2>1 DEF AddRoute, AfterPurge, Done, Purged, table
  <2>2. CASE ~Purge(table).throws
    <3>1. table' = Put(Purge(table).table, dst, Stored(e))
      BY <1>1, <2>2 DEF AddRoute, AfterPurge, Done, table
    <3>. QED BY <3>1 DEF Purged, Put
  <2>. QED BY <2>1, <2>2
<1>2. ASSUME NEW dst \in Addresses, NEW e, NEW lt, Update(dst, e, lt) PROVE Deleting
  BY <1>2 DEF Update, Done, Deleting
<1>3. ASSUME NEW dst \in Addresses, DeleteRoute(dst) PROVE Deleting
  BY <1>3 DEF DeleteRoute, AfterPurge, Done, Deleting
<1>4. ASSUME \/ \E dst \in Addresses : LookupRoute(dst) \/ LookupValidRoute(dst)
             \/ GetListOfDestinationWithNextHop
             \/ PurgeCall
      PROVE  Purged
  BY <1>4 DEF LookupRoute, LookupValidRoute, GetListOfDestinationWithNextHop, PurgeCall,
              AfterPurge, Done, Purged, table
<1>5. ASSUME NEW dst \in Addresses,
             (\E state \in RouteFlags : SetEntryState(dst, state)) \/ MarkLinkAsUnidirectional(dst)
      PROVE  Deleting
  <2>1. \E out, t : Done(Other, out, t)
    BY <1>5 DEF SetEntryState, MarkLinkAsUnidirectional
  <2>. QED BY <2>1 DEF Done, Deleting
<1>6. ASSUME NEW u, InvalidateRoutesWithDst(u) PROVE Purged
  <2>1. CASE Purge(table).throws
    BY <1>6, <2>1 DEF InvalidateRoutesWithDst, AfterPurge, Done, Purged, table
  <2>2. CASE ~Purge(table).throws
    <3>1. table' = Invalidated(Purge(table).table, u)
      BY <1>6, <2>2 DEF InvalidateRoutesWithDst, AfterPurge, Done, table
    <3>. QED BY <3>1 DEF Purged, Invalidated
  <2>. QED BY <2>1, <2>2
<1>7. ASSUME NEW i \in Ifaces, DeleteAllRoutesFromInterface(i) PROVE Deleting
  BY <1>7 DEF DeleteAllRoutesFromInterface, Done, Deleting
<1>8. ASSUME Clear \/ Tick PROVE Deleting
  BY <1>8 DEF Clear, Tick, Done, Deleting
<1>. QED BY <1>1, <1>2, <1>3, <1>4, <1>5, <1>6, <1>7, <1>8 DEF Next

\* RoutingTable.java, Purge: whatever leaves the table without being deleted by its
\* caller was invalid before, for every order of the walk.
THEOREM PurgesOnlyInvalid == Spec => OnlyInvalidPurged
<1>. DEFINE Step == (/\ last'.op # Other
                     /\ last'.op \notin {<<"DeleteAllRoutesFromInterface", i>> : i \in Ifaces})
                    => \A k \in DOMAIN table \ DOMAIN table' : table[k].m_flag = "INVALID"
<1>1. ASSUME IInv, Next PROVE Step
  <2>1. CASE Deleting BY <2>1 DEF Deleting
  <2>2. CASE Purged
    <3>1. DOMAIN table \subseteq Addresses BY <1>1 DEF IInv, TypeOK
    <3>2. \A k \in DOMAIN table \ DOMAIN Purge(table).table : table[k].m_flag = "INVALID"
      BY <3>1, PurgeRemovesInvalid
    <3>. QED BY <2>2, <3>2 DEF Purged
  <2>. QED BY <1>1, <2>1, <2>2, StepDeletesOrPurges
<1>2. IInv /\ [Next]_vars => [Step]_vars BY <1>1
<1>. QED BY <1>2, TableInvariant, PTL DEF Spec, OnlyInvalidPurged

----------------------------------------------------------------------------
(* Broken routes *)

\* Whatever the loop of InvalidateRoutesWithDst meets, it leaves not valid.
LEMMA InvalidatedNotValid ==
  ASSUME NEW t, IsTable(t), NEW u
  PROVE  \A k \in DOMAIN Invalidated(t, u) \intersect u : Invalidated(t, u)[k].m_flag # "VALID"
<1>. SUFFICES ASSUME NEW k \in DOMAIN t, k \in u
              PROVE  Invalidated(t, u)[k].m_flag # "VALID"
  BY DEF Invalidated
<1>. DEFINE e == t[k]
<1>1. e \in Entry BY DEF IsTable
<1>. HIDE DEF e
<1>2. CASE e.m_flag = "VALID"
  <2>1. Invalidate(e) = [e EXCEPT !.m_flag = "INVALID", !.m_reqCount = 0,
                                  !.m_lifeTime = BadLinkLifetime + now]
    BY <1>2 DEF Invalidate
  <2>2. Invalidate(e).m_flag = "INVALID" BY <1>1, <2>1 DEF Entry
  <2>3. Invalidated(t, u)[k] = Invalidate(e) BY <1>2 DEF Invalidated, e
  <2>. QED BY <2>2, <2>3
<1>3. CASE e.m_flag # "VALID"
  BY <1>3 DEF Invalidated, e
<1>. QED BY <1>2, <1>3

\* The steps that set last to something else than a completed invalidation.
LEMMA OnlyInvalidationClaims ==
  ASSUME IInv, Next, NEW u \in SUBSET Addresses,
         last' = [op |-> <<"InvalidateRoutesWithDst", u>>, out |-> "ok"]
  PROVE  table' = Invalidated(Purge(table).table, u)
<1>. DEFINE op == <<"InvalidateRoutesWithDst", u>>
<1>0. op # Other /\ op # Purging /\ \A i : op # <<"DeleteAllRoutesFromInterface", i>>
  BY DEF Other, Purging
<1>1. \A o, out, t : Done(o, out, t) => o = op /\ out = "ok" BY DEF Done
<1>. HIDE DEF op
<1>2. \A dst, e, lt : ~AddRoute(dst, e, lt)
  BY <1>0, <1>1 DEF AddRoute, AfterPurge
<1>3. \A dst, e, lt : ~Update(dst, e, lt) BY <1>0, <1>1 DEF Update
<1>4. \A dst : ~DeleteRoute(dst) /\ ~LookupRoute(dst) /\ ~LookupValidRoute(dst)
  BY <1>0, <1>1 DEF DeleteRoute, LookupRoute, LookupValidRoute, AfterPurge
<1>5. ~GetListOfDestinationWithNextHop /\ ~PurgeCall /\ ~Clear
  BY <1>0, <1>1 DEF GetListOfDestinationWithNextHop, PurgeCall, Clear, AfterPurge
<1>6. \A dst, state : ~SetEntryState(dst, state) /\ ~MarkLinkAsUnidirectional(dst)
  BY <1>0, <1>1 DEF SetEntryState, MarkLinkAsUnidirectional
<1>7. \A i : ~DeleteAllRoutesFromInterface(i)
  BY <1>0, <1>1 DEF DeleteAllRoutesFromInterface
<1>8. ~Tick BY <1>0 DEF Tick, op
<1>9. PICK v \in SUBSET Addresses : InvalidateRoutesWithDst(v)
  BY <1>2, <1>3, <1>4, <1>5, <1>6, <1>7, <1>8 DEF Next
<1>10. ~Purge(table).throws BY <1>1, <1>9 DEF InvalidateRoutesWithDst, AfterPurge
<1>11. Done(<<"InvalidateRoutesWithDst", v>>, "ok", Invalidated(Purge(table).table, v))
  BY <1>9, <1>10 DEF InvalidateRoutesWithDst, AfterPurge
<1>12. v = u BY <1>1, <1>11 DEF op
<1>. QED BY <1>11, <1>12 DEF Done, table

\* RoutingTable.java, InvalidateRoutesWithDst: when it returns, none of the broken
\* destinations is valid.
THEOREM BrokenRoutesStayInvalid == Spec => []BrokenRoutesInvalid
<1>1. Init => BrokenRoutesInvalid
  BY DEF Init, BrokenRoutesInvalid, NoRoutes, table
<1>2. ASSUME IInv, BrokenRoutesInvalid, [Next]_vars PROVE BrokenRoutesInvalid'
  <2>1. CASE UNCHANGED vars BY <1>2, <2>1 DEF vars, BrokenRoutesInvalid, table
  <2>2. CASE Next
    <3>. SUFFICES ASSUME NEW u \in SUBSET Addresses,
                         last' = [op |-> <<"InvalidateRoutesWithDst", u>>, out |-> "ok"]
                  PROVE  \A k \in DOMAIN table' \intersect u : table'[k].m_flag # "VALID"
      BY DEF BrokenRoutesInvalid
    <3>1. table' = Invalidated(Purge(table).table, u)
      BY <1>2, <2>2, OnlyInvalidationClaims
    <3>2. IsTable(Purge(table).table) BY <1>2, CallPremises DEF Good
    <3>. QED BY <3>1, <3>2, InvalidatedNotValid
  <2>. QED BY <1>2, <2>1, <2>2
<1>. QED BY <1>1, <1>2, TableInvariant, PTL DEF Spec

=============================================================================
