------------------------------ MODULE RequestQueue ------------------------------
(* The AODV request queue (RequestQueue.java, QueueEntry.java): the packets    *)
(* that wait for a route.  The queue drops from the front when it is full and  *)
(* drops what waited too long, each drop reported by the error callback.       *)
(*                                                                             *)
(* Three things of the Java code matter.  The purge loops remove from the list *)
(* they walk (JavaCollections).  A Time is a mutable object: Time.add() of     *)
(* SetExpireTime adds the clock to the queue's own timeout and hands the same  *)
(* object to every entry, so the heap below maps Time objects to their values. *)
(* And Enqueue compares packet ids and destination addresses with ==: packets  *)
(* that were not built by Packet() carry no id at all, and two equal addresses *)
(* need not be one object.                                                     *)
EXTENDS JavaCollections, FiniteSets

CONSTANTS Packets,      \* Packet objects offered to the queue
          Uid,            \* Uid[p]: the id object of p, NoUid for null
          NoUid,
          Refs,           \* Ipv4Address objects found in the IP headers
          Addr,           \* Addr[r]: the address the object holds
          MaxLens,        \* values passed to SetMaxQueueLen, and the initial one
          Timeout,        \* RouteToQueueTimeout in ticks
          Epoch,          \* the clock at start: currentTimeMillis, far above Timeout
          MaxOffers,      \* bound: entries stamped by Enqueue
          MaxTicks,       \* bound: clock ticks
          MaxTimeouts     \* bound: calls of SetQueueTimeout

QueueAssumption ==
  /\ Addr \in [Refs -> {Addr[r] : r \in Refs}]
  /\ MaxLens \subseteq Nat /\ MaxLens # {}
  /\ Timeout \in Nat /\ Epoch \in Nat /\ Timeout < Epoch
  /\ MaxOffers \in Nat /\ MaxTicks \in Nat /\ MaxTimeouts \in Nat

VARIABLES m_queue,      \* entries, the oldest first
          heap,           \* values of the Time objects ever given as timeout
          m_queueTimeout, \* the Time object in force, a position of heap
          m_maxLen,
          now,
          errored,        \* per packet: calls of the error callback
          taken,          \* per packet: entries handed out by Dequeue
          accepted,       \* per packet: calls of Enqueue that returned true
          serial,         \* entries stamped so far, the age mark of the next
          lastTaken,      \* per address: age mark of the entry Dequeue took last
          last            \* how the last call ended

vars == <<m_queue, heap, m_queueTimeout, m_maxLen, now, errored, taken,
          accepted, serial, lastTaken, last>>

history == <<errored, taken, accepted, serial, lastTaken>>

Destinations == {Addr[r] : r \in Refs}

Entry == [pkt : Packets, ref : Refs, expire : 1..(MaxTimeouts + 1),
          mark : 1..MaxOffers]

Destination(e) == Addr[e.ref]

----------------------------------------------------------------------------
(* Removal of expired entries *)

\* GetExpireTime: what is left of the entry's Time object.
IsOutdated(e) == heap[e.expire] - now < 0

\* Mutant: the purge forgets the error callback.
ReportSilently(count, removed) == count

\* Drop: one call of the error callback for each removed entry.
Report(count, removed) ==
  [p \in Packets |->
     count[p] + Cardinality({i \in 1..Len(removed) : removed[i].pkt = p})]

\* Purge
Purge(list) == LinkedSweep(list, IsOutdated)

\* A call whose opening Purge threw: the caller sees the exception.
PurgeThrows ==
  /\ Purge(m_queue).throws
  /\ m_queue' = Purge(m_queue).list
  /\ errored' = Report(errored, Purge(m_queue).removed)
  /\ last' = "ConcurrentModification"

----------------------------------------------------------------------------
(* Operations *)

Init ==
  /\ m_queue = <<>>
  /\ heap = <<Timeout>>
  /\ m_queueTimeout = 1
  /\ m_maxLen \in MaxLens
  /\ now = Epoch
  /\ errored = [p \in Packets |-> 0]
  /\ taken = [p \in Packets |-> 0]
  /\ accepted = [p \in Packets |-> 0]
  /\ serial = 0
  /\ lastTaken = [a \in Destinations |-> 0]
  /\ last = "ok"

\* Enqueue, the loop: same id object and same address object.
Duplicate(list, p, r) ==
  \E i \in 1..Len(list) : Uid[list[i].pkt] = Uid[p] /\ list[i].ref = r

\* Enqueue: the limit is compared with ==.
IsFull(list) == Len(list) = m_maxLen

\* Enqueue: m_queue.add.
Add(list, e) == Append(list, e)

\* Enqueue of a packet p whose header holds the address object r.
Enqueue(p, r) ==
  LET pg    == Purge(m_queue)
      entry == [pkt |-> p, ref |-> r, expire |-> m_queueTimeout,
                mark |-> serial + 1]
      full  == IsFull(pg.list)
      Result(out) == last' = out
  IN  /\ serial < MaxOffers
      /\ \/ PurgeThrows /\ UNCHANGED <<heap, accepted, serial>>
         \/ /\ ~pg.throws /\ Duplicate(pg.list, p, r)
            /\ m_queue' = pg.list
            /\ errored' = Report(errored, pg.removed)
            /\ Result("false")
            /\ UNCHANGED <<heap, accepted, serial>>
         \/ /\ ~pg.throws /\ ~Duplicate(pg.list, p, r)
            /\ heap' = [heap EXCEPT ![m_queueTimeout] = @ + now]
            /\ serial' = serial + 1
            /\ IF full /\ pg.list = <<>>
                 THEN /\ m_queue' = pg.list
                      /\ errored' = Report(errored, pg.removed)
                      /\ Result("IndexOutOfBounds")
                      /\ UNCHANGED accepted
                 ELSE /\ m_queue' = Add(IF full THEN Tail(pg.list) ELSE pg.list, entry)
                      /\ errored' = Report(Report(errored, pg.removed),
                                           IF full THEN <<Head(pg.list)>> ELSE <<>>)
                      /\ accepted' = [accepted EXCEPT ![p] = @ + 1]
                      /\ Result("true")
      /\ UNCHANGED <<m_queueTimeout, m_maxLen, now, taken, lastTaken>>

\* Mutant: the last match is taken instead of the first.
EarliestLast(list, dst) ==
  LET ms == Matches(list, LAMBDA e : Destination(e) = dst)
  IN  IF ms = {} THEN 0 ELSE CHOOSE i \in ms : \A j \in ms : j <= i

\* Dequeue, the loop: the first entry with this destination.
Earliest(list, dst) == FirstMatch(list, LAMBDA e : Destination(e) = dst)

\* Dequeue: the loop returns right after the removal, so it cannot throw.  The
\* entry found is assigned to the parameter and does not reach the caller.
Dequeue(dst) ==
  LET pg == Purge(m_queue)
      i  == Earliest(pg.list, dst)
  IN  /\ \/ PurgeThrows /\ UNCHANGED <<taken, lastTaken>>
         \/ /\ ~pg.throws
            /\ errored' = Report(errored, pg.removed)
            /\ last' = IF i = 0 THEN "false" ELSE "true"
            /\ IF i = 0
                 THEN m_queue' = pg.list /\ UNCHANGED <<taken, lastTaken>>
                 ELSE /\ m_queue' = Without(pg.list, i)
                      /\ taken' = [taken EXCEPT ![pg.list[i].pkt] = @ + 1]
                      /\ lastTaken' = [lastTaken EXCEPT ![dst] = pg.list[i].mark]
      /\ UNCHANGED <<heap, m_queueTimeout, m_maxLen, now, accepted, serial>>

\* DropPacketWithDst: a second sweep that removes what it walks.
DropPacketWithDst(dst) ==
  LET pg == Purge(m_queue)
      sw == LinkedSweep(pg.list, LAMBDA e : Destination(e) = dst)
  IN  /\ \/ PurgeThrows
         \/ /\ ~pg.throws
            /\ m_queue' = sw.list
            /\ errored' = Report(Report(errored, pg.removed), sw.removed)
            /\ last' = IF sw.throws THEN "ConcurrentModification" ELSE "ok"
      /\ UNCHANGED <<heap, m_queueTimeout, m_maxLen, now, taken, accepted,
                     serial, lastTaken>>

\* GetSize purges before it counts.
GetSize ==
  LET pg == Purge(m_queue)
  IN  /\ m_queue' = pg.list
      /\ errored' = Report(errored, pg.removed)
      /\ last' = IF pg.throws THEN "ConcurrentModification" ELSE "ok"
      /\ UNCHANGED <<heap, m_queueTimeout, m_maxLen, now, taken, accepted,
                     serial, lastTaken>>

\* SetMaxQueueLen
SetMaxQueueLen(len) ==
  /\ m_maxLen' = len
  /\ last' = "ok"
  /\ UNCHANGED <<m_queue, heap, m_queueTimeout, now, history>>

\* SetQueueTimeout: the caller's Time object replaces the one in force, the
\* entries already queued keep theirs.
SetQueueTimeout ==
  /\ Len(heap) <= MaxTimeouts
  /\ heap' = Append(heap, Timeout)
  /\ m_queueTimeout' = Len(heap) + 1
  /\ last' = "ok"
  /\ UNCHANGED <<m_queue, m_maxLen, now, history>>

\* The clock.
Tick ==
  /\ now < Epoch + MaxTicks
  /\ now' = now + 1
  /\ last' = "ok"
  /\ UNCHANGED <<m_queue, heap, m_queueTimeout, m_maxLen, history>>

Next ==
  \/ \E p \in Packets, r \in Refs : Enqueue(p, r)
  \/ \E a \in Destinations : Dequeue(a)
  \/ \E a \in Destinations : DropPacketWithDst(a)
  \/ GetSize
  \/ \E len \in MaxLens : SetMaxQueueLen(len)
  \/ SetQueueTimeout
  \/ Tick

Spec == Init /\ [][Next]_vars

----------------------------------------------------------------------------
(* Properties *)

\* Every packet the queue accepted is still queued, was reported to the error
\* callback or was handed out by Dequeue, once for each time it was accepted,
\* also across calls that end in an exception half way through a purge.
EveryPacketAccounted ==
  \A p \in Packets :
    accepted[p] = errored[p] + taken[p]
                    + Cardinality({i \in 1..Len(m_queue) : m_queue[i].pkt = p})

\* Dequeue serves each destination in the order of arrival, whatever was purged,
\* dropped from the front or dropped by destination in between: nothing that
\* is still queued for a destination is older than what Dequeue took for it.
OldestFirst ==
  /\ \A i, j \in 1..Len(m_queue) : i < j => m_queue[i].mark < m_queue[j].mark
  /\ \A i \in 1..Len(m_queue) :
       lastTaken[Destination(m_queue[i])] < m_queue[i].mark

=============================================================================
