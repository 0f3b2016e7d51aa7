------------------------------ MODULE AodvRouting ------------------------------
(* The message and timer handlers of the AODV protocol (RoutingProtocol.java)  *)
(* of one node, over the routing table of RoutingTableOps.  A handler is one   *)
(* step: it runs on the caller's thread and leaves by an exception when one of *)
(* its calls throws, with everything stored so far in place.                   *)
(*                                                                             *)
(* The port sends nothing yet (SendTo and the reception of RREP and RERR are   *)
(* empty, m_socketAddresses is never filled), so a handler's effect is what it *)
(* does to the table, to the counters and to the lists of this node.  Ipv4 is  *)
(* an interface: the device and address of the receiving interface are found.  *)
(* The rate limits are RateLimit's, the expiry of request ids is IdCache's and *)
(* the expiry of neighbours is that of Neighbors.                              *)
(*                                                                             *)
(* Lifetimes need care.  Time.add stores the sum in its first argument when    *)
(* both have the same unit.  m_activeRouteTimeout and m_deletePeriod are in    *)
(* seconds and safe; m_pathDiscoveryTime is in milliseconds like the clock, so *)
(* every route request adds the clock to it.                                   *)
EXTENDS RoutingTableOps

CONSTANTS Refs,            \* Ipv4Address objects of senders
          Addr,              \* Addr[r]: the address in the object
          NoRef,             \* new Ipv4Address(), the next hop of a route in search
          RouteLife,         \* lifetimes given to routes, in ticks
          NetDiameter, TtlStart, TtlIncrement, TtlThreshold,
          SeqMod,            \* sequence numbers wrap at SeqMod (2^32 in the code)
          Ids,               \* request ids of other nodes
          MaxHops,           \* hop counts of received requests
          Epoch,             \* the clock at start, far above every lifetime
          EarlierRequests,   \* how many requests this node sent before, for other
                             \* addresses: the numbers considered
          MaxTicks,          \* bound: clock ticks
          MaxCalls           \* bound: handlers run and clock ticks

ASSUME AodvAssumption ==
  /\ IsFiniteSet(Addresses) /\ Addr \in [Refs -> Addresses] /\ NoRef \notin Refs
  /\ RouteLife \in Nat /\ Epoch \in Nat /\ MaxTicks \in Nat /\ EarlierRequests \subseteq Nat
  /\ RouteLife + MaxTicks < Epoch /\ BadLinkLifetime + MaxTicks < Epoch
  /\ TtlStart \in Nat /\ TtlIncrement \in Nat \ {0}
  /\ TtlThreshold \in Nat /\ NetDiameter \in Nat
  /\ TtlStart <= TtlThreshold /\ TtlThreshold < NetDiameter
  /\ SeqMod \in {2 * k : k \in 1..128} /\ MaxHops \in Nat /\ MaxCalls \in Nat

VARIABLES m_pathDiscoveryTime,
          m_seqNo,
          m_requestId,
          m_rreqIdCache,       \* requests seen: origin and id
          m_nb,                \* address objects in the neighbour list
          m_addressReqTimer,   \* per destination with a retry timer: the timer's future
          calls,
          last                 \* the last handler: its name, arguments and outcome

own == <<m_pathDiscoveryTime, m_seqNo, m_requestId, m_addressReqTimer>>
avars == <<m_ipv4AddressEntry, now, own, m_rreqIdCache, m_nb, calls, last>>

Seqs == 0..(SeqMod - 1)

----------------------------------------------------------------------------
(* Building blocks *)

\* Mutant: an unsigned comparison.
IsNewerPlain(a, b) == a > b

\* (int) a - (int) b > 0
IsNewer(a, b) == (a - b) % SeqMod \in 1..(SeqMod \div 2 - 1)

\* A table and whether the call that left it threw.
Result(t) == [table |-> t, throws |-> FALSE]
Then(r, Call(_)) == IF r.throws THEN r ELSE Call(r.table)

\* AddRoute purges, Update does not and ignores what is not in the table.
AddRoute(t, k, e) == Then(Purge(t), LAMBDA u : Result(Put(u, k, Stored(e))))
Update(t, k, e) == Result(IF k \in DOMAIN t THEN Put(t, k, Stored(e)) ELSE t)

\* n calls that look something up one after the other.
Lookups(t, n) ==
  LET f[i \in 0..n] == IF i = 0 THEN Result(t) ELSE Then(f[i - 1], Purge)
  IN  f[n]

\* m_lifeTime after it was read n times.
AfterReads(e, n) ==
  IF e.m_lifeTime < n * now THEN -1 ELSE e.m_lifeTime - n * now

\* RoutingTableEntry(dev, dst, vSeqNo, seqNo, iface, hops, nextHop, lifetime)
NewEntry(validSeqNo, seqNo, hops, nextHop, lifetime) ==
  [m_flag |-> "VALID", m_lifeTime |-> now + lifetime, m_reqCount |-> 0,
   m_hops |-> hops, m_seqNo |-> seqNo, m_validSeqNo |-> validSeqNo,
   nextHop |-> nextHop, m_blackListState |-> FALSE, m_precursorList |-> {}]

\* Time.MAX(lifetime, e.GetLifeTime())
Longest(e) == IF LifeLeft(e) > RouteLife THEN LifeLeft(e) ELSE RouteLife

\* SetLifeTime(Time.MAX(lifetime, GetLifeTime()))
Renewed(e) == [e EXCEPT !.m_lifeTime = now + Longest(e)]

\* UpdateRouteLifeTime
UpdateRouteLifeTime(t, k) ==
  Then(Purge(t), LAMBDA u :
    IF k \in DOMAIN u /\ u[k].m_flag = "VALID"
      THEN Update(u, k, Renewed([u[k] EXCEPT !.m_reqCount = 0])) ELSE Result(u))

\* The handler op ends with table r.table: outcome out, or an exception.
Ends(op, r, out) ==
  /\ calls' = calls + 1
  /\ m_ipv4AddressEntry' = r.table
  /\ last' = [op |-> op, out |-> IF r.throws THEN "exception" ELSE out]
  /\ UNCHANGED now

Other == <<"other">>

\* The address in a next hop; precursors are compared by address.
AddrOf(r) == IF r \in Refs THEN Addr[r] ELSE NoRef

\* m_nb.Update of an address object it does not know: the neighbour is added, the
\* purge that follows removes at most one that expired, and then throws.
OpenLink(r) == \E gone \in {{}} \union {{n} : n \in m_nb} : m_nb' = (m_nb \union {r}) \ gone

----------------------------------------------------------------------------
(* Route discovery *)

\* SendRequest: the TTL of the next request for a known destination.
NextTtl(e) ==
  LET wider == e.m_hops + TtlIncrement
  IN  IF e.m_flag # "IN_SEARCH"
        THEN IF wider < NetDiameter THEN wider ELSE NetDiameter
        ELSE IF wider > TtlThreshold THEN NetDiameter ELSE wider

\* SendRequest: requests at full diameter are counted.
Counted(e) == IF e.m_hops = NetDiameter THEN [e EXCEPT !.m_reqCount = @ + 1] ELSE e

\* SendRequest, the table.  SetLifeTime and the constructor add the clock to
\* m_pathDiscoveryTime and take the sum.
Searching(t, dst) ==
  Then(Purge(t), LAMBDA u :
    IF dst \in DOMAIN u
      THEN Update(u, dst, Counted(
             [u[dst] EXCEPT !.m_hops = NextTtl(u[dst]), !.m_flag = "IN_SEARCH",
                            !.m_lifeTime = m_pathDiscoveryTime + now]))
      ELSE AddRoute(u, dst, Counted(
             [NewEntry(FALSE, 0, TtlStart, NoRef, m_pathDiscoveryTime)
                EXCEPT !.m_flag = "IN_SEARCH"])))

\* ScheduleRreqRetry: Cancel() dereferences the future of the last Schedule() and
\* throws while there is none.
ScheduleRreqRetry(timers, dst) ==
  IF dst \in DOMAIN timers /\ timers[dst] # "null"
    THEN Put(timers, dst, "pending")
    ELSE Put(timers, dst, "null")

\* SendRequest below the rate limit.
SendRequestFrom(t, dst) ==
  LET r == Searching(t, dst)
  IN  /\ IF r.throws
           THEN UNCHANGED own
           ELSE /\ m_pathDiscoveryTime' = m_pathDiscoveryTime + now
                /\ m_seqNo' = (m_seqNo + 1) % SeqMod
                /\ m_requestId' = m_requestId + 1
                /\ m_addressReqTimer' = ScheduleRreqRetry(m_addressReqTimer, dst)
      /\ Ends(<<"SendRequest", dst>>, r,
              IF m_addressReqTimer'[dst] = "null" THEN "no retry" ELSE "ok")
      /\ UNCHANGED <<m_rreqIdCache, m_nb>>

SendRequest(dst) == SendRequestFrom(table, dst)

\* DeferredRouteOutput, for a packet the request queue accepted.
DeferredRouteOutput(dst) ==
  LET r == Purge(table)
  IN  IF ~r.throws /\ (dst \in DOMAIN r.table => r.table[dst].m_flag # "IN_SEARCH")
        THEN SendRequestFrom(r.table, dst)
        ELSE Ends(Other, r, "queued") /\ UNCHANGED <<own, m_rreqIdCache, m_nb>>

----------------------------------------------------------------------------
(* Received messages *)

\* RecvRequest, the reverse route to the originator.  The flag is left as it is.
ToOrigin(t, origin, src, seqNo, hop) ==
  Then(Purge(t), LAMBDA u :
    IF origin \notin DOMAIN u
      THEN AddRoute(u, origin, NewEntry(TRUE, seqNo, hop, src, RouteLife))
      ELSE Update(u, origin, Renewed(
             [u[origin] EXCEPT
                !.m_seqNo = IF u[origin].m_validSeqNo /\ ~IsNewer(seqNo, @) THEN @ ELSE seqNo,
                !.m_validSeqNo = TRUE, !.nextHop = src, !.m_hops = hop])))

\* Mutant: the flag is set and the next hop is left alone.
ToNeighborFlagOnly(t, src, seqNo) ==
  Then(Purge(t), LAMBDA u :
    IF Addr[src] \notin DOMAIN u
      THEN AddRoute(u, Addr[src], NewEntry(FALSE, seqNo, 1, src, RouteLife))
      ELSE Update(u, Addr[src],
             [u[Addr[src]] EXCEPT !.m_validSeqNo = FALSE, !.m_seqNo = seqNo,
                !.m_lifeTime = now + RouteLife, !.m_flag = "VALID", !.m_hops = 1]))

\* RecvRequest, the route to the neighbour it came from.
ToNeighbor(t, src, seqNo) ==
  Then(Purge(t), LAMBDA u :
    IF Addr[src] \notin DOMAIN u
      THEN AddRoute(u, Addr[src], NewEntry(FALSE, seqNo, 1, src, RouteLife))
      ELSE Update(u, Addr[src],
             [u[Addr[src]] EXCEPT !.m_validSeqNo = FALSE, !.m_seqNo = seqNo,
                !.m_lifeTime = now + RouteLife, !.m_flag = "VALID", !.m_hops = 1,
                !.nextHop = src]))

\* SendReplyByIntermediateNode.  toDst and toOrigin are copies that share their
\* lifetime with the table; t is the table after they were looked up.  A copy of
\* a route that a lookup invalidated meanwhile is stored as valid again.
SendReplyByIntermediateNode(t, dst, toDst, origin, src) ==
  LET ack      == toDst.m_hops = 1
      hop      == IF origin \in DOMAIN t THEN t[origin].nextHop ELSE src
      replied  == [toDst EXCEPT !.m_precursorList = @ \union {AddrOf(hop)},
                                !.m_lifeTime = AfterReads(toDst, IF ack THEN 3 ELSE 2)]
      reversed == [t[origin] EXCEPT !.m_precursorList = @ \union {AddrOf(toDst.nextHop)},
                                    !.m_lifeTime = AfterReads(t[origin], IF ack THEN 2 ELSE 1)]
  IN  Then(Then(Lookups(t, IF ack THEN 1 ELSE 0),
             LAMBDA u : Update(u, dst, replied)),
             LAMBDA u : IF origin \in DOMAIN u THEN Update(u, origin, reversed) ELSE Result(u))

\* RecvRequest after the neighbour list: answer for dst when a valid route with a
\* sequence number the request allows is known, unless it leads back to src.
Answer(t, origin, src, dst, allowed) ==
  LET r == Purge(t)
      u == r.table
  IN  IF r.throws \/ dst \notin DOMAIN u THEN [r |-> r, out |-> "rebroadcast"]
      ELSE IF u[dst].nextHop = src THEN [r |-> r, out |-> "dropped"]
      ELSE IF u[dst].m_validSeqNo /\ allowed /\ u[dst].m_flag = "VALID"
        THEN [r |-> Then(Purge(u), LAMBDA v :
                      SendReplyByIntermediateNode(v, dst, u[dst], origin, src)),
              out |-> "replied"]
        ELSE [r |-> r, out |-> "rebroadcast"]

\* RecvRequest of request id of origin for dst, from the neighbour with address
\* object src; allowed: the sequence number known here satisfies the request.
RecvRequest(src, origin, id, seqNo, hopCount, dst, allowed) ==
  LET op     == <<"RecvRequest", src, origin>>
      looked == Purge(table)
      ignore == Addr[src] \in DOMAIN looked.table
                  /\ looked.table[Addr[src]].m_blackListState
      stored == Then(ToOrigin(looked.table, origin, src, seqNo, hopCount + 1),
                  LAMBDA t : ToNeighbor(t, src, seqNo))
      answer == Answer(stored.table, origin, src, dst, allowed)
  IN  /\ UNCHANGED own
      /\ IF looked.throws \/ ignore \/ <<origin, id>> \in m_rreqIdCache
           THEN Ends(Other, looked, "ignored") /\ UNCHANGED <<m_rreqIdCache, m_nb>>
         ELSE /\ m_rreqIdCache' = m_rreqIdCache \union {<<origin, id>>}
              /\ IF stored.throws
                   THEN Ends(op, stored, "exception") /\ UNCHANGED m_nb
                 ELSE IF src \notin m_nb
                   THEN Ends(op, stored, "exception") /\ OpenLink(src)
                 ELSE Ends(op, answer.r, answer.out) /\ UNCHANGED m_nb

\* UpdateRouteToNeighbor, for every received message: the lifetime set on a copy
\* does not reach the table, reading it does.
UpdateRouteToNeighbor(sender) ==
  LET k == Addr[sender]
      r == Then(Purge(table), LAMBDA u :
             IF k \notin DOMAIN u
               THEN AddRoute(u, k, NewEntry(FALSE, 0, 1, sender, RouteLife))
             ELSE IF u[k].m_validSeqNo /\ u[k].m_hops = 1 /\ u[k].nextHop # NoRef
               THEN Result([u EXCEPT ![k].m_lifeTime = LifeLeft(u[k])])
             ELSE Update(u, k, NewEntry(FALSE, 0, 1, sender, Longest(u[k]))))
  IN  Ends(Other, r, "ok") /\ UNCHANGED <<own, m_rreqIdCache, m_nb>>

\* ProcessHello, hello messages not enabled: the list of neighbours is left alone.
ProcessHello(from, seqNo) ==
  LET k == Addr[from]
      r == Then(Purge(table), LAMBDA u :
             IF k \notin DOMAIN u
               THEN AddRoute(u, k, NewEntry(TRUE, seqNo, 1, from, RouteLife))
               ELSE Update(u, k, Renewed([u[k] EXCEPT !.m_seqNo = seqNo,
                      !.m_validSeqNo = TRUE, !.m_flag = "VALID", !.m_hops = 1,
                      !.nextHop = from])))
  IN  Ends(Other, r, "ok") /\ UNCHANGED <<own, m_rreqIdCache, m_nb>>

\* Mutant: the acknowledgement timer is cancelled without an exception.
RecvReplyAckStored(neighbor) ==
  LET r == Then(Purge(table), LAMBDA u :
             IF neighbor \in DOMAIN u
               THEN Update(u, neighbor, [u[neighbor] EXCEPT !.m_flag = "VALID"])
               ELSE Result(u))
  IN  Ends(Other, r, "ok") /\ UNCHANGED <<own, m_rreqIdCache, m_nb>>

\* RecvReplyAck: m_ackTimer is given a function and a delay, never scheduled, so
\* Cancel() throws before the flag is set.
RecvReplyAck(neighbor) ==
  LET r == Purge(table)
  IN  /\ Ends(Other, r, IF neighbor \in DOMAIN r.table THEN "exception" ELSE "ok")
      /\ UNCHANGED <<own, m_rreqIdCache, m_nb>>

----------------------------------------------------------------------------
(* Data packets, link failures, timers *)

\* Forwarding, the branch for a valid route: four lifetimes are renewed (a next hop
\* that is not in the table only costs a lookup) and the two next hops become
\* neighbours.
Forward(t, dst, origin) ==
  LET renewVia(u, r) == IF r \in Refs THEN UpdateRouteLifeTime(u, Addr[r]) ELSE Purge(u)
      gateway  == t[dst].nextHop
      looked   == Then(Then(Then(UpdateRouteLifeTime(t, origin),
                    LAMBDA u : UpdateRouteLifeTime(u, dst)),
                    LAMBDA u : renewVia(u, gateway)), Purge)
      back     == IF origin \in DOMAIN looked.table THEN looked.table[origin].nextHop ELSE NoRef
      r        == Then(looked, LAMBDA u : renewVia(u, back))
      unknown  == {gateway, back} \ m_nb
  IN  /\ Ends(<<"Forwarding", dst>>, r, IF unknown = {} THEN "forwarded" ELSE "exception")
      /\ IF r.throws \/ unknown = {} THEN UNCHANGED m_nb
         ELSE OpenLink(IF gateway \in unknown THEN gateway ELSE back)

\* Forwarding: a purge and a lookup, which purges again; without a valid route,
\* SendRerrWhenNoRouteToForward looks up the originator unless the rate limit of
\* error messages is reached.
Forwarding(dst, origin, limited) ==
  LET r == Lookups(table, 2)
  IN  /\ IF ~r.throws /\ dst \in DOMAIN r.table /\ r.table[dst].m_flag = "VALID"
           THEN Forward(r.table, dst, origin)
           ELSE /\ Ends(<<"Forwarding", dst>>, IF limited THEN r ELSE Then(r, Purge), "error")
                /\ UNCHANGED m_nb
      /\ UNCHANGED <<own, m_rreqIdCache>>

\* SendRerrWhenBreaksLinkToNextHop: the routes over the next hop object, a lookup
\* for each, SendRerrMessage, which looks up every precursor unless the rate limit
\* is reached, and the invalidation.
SendRerrWhenBreaksLinkToNextHop(hop, limited) ==
  LET found == Purge(table)
      list  == Purge(found.table)
      over  == {k \in DOMAIN list.table : list.table[k].nextHop = hop}
      precursors == UNION {list.table[k].m_precursorList :
                             k \in (over \union {Addr[hop]}) \intersect DOMAIN list.table}
      lookups == Cardinality(over) + IF limited THEN 0 ELSE Cardinality(precursors)
      seen  == Lookups(list.table, lookups + 1)
  IN  /\ IF found.throws \/ Addr[hop] \notin DOMAIN found.table
           THEN Ends(Other, found, "unknown")
         ELSE IF list.throws THEN Ends(Other, list, "exception")
         ELSE Ends(Other, Then(seen, LAMBDA u :
                            Result(Invalidated(u, over \union {Addr[hop]}))), "invalidated")
      /\ UNCHANGED <<own, m_rreqIdCache, m_nb>>

\* AckTimerExpire: MarkLinkAsUnidirectional
AckTimerExpire(neighbor) ==
  /\ Ends(Other,
       Result(IF neighbor \in DOMAIN table
                THEN [table EXCEPT ![neighbor].m_blackListState = TRUE,
                                   ![neighbor].m_reqCount = 0]
                ELSE table), "ok")
  /\ UNCHANGED <<own, m_rreqIdCache, m_nb>>

\* The clock.
Tick ==
  /\ now < Epoch + MaxTicks /\ now' = now + 1
  /\ calls' = calls + 1
  /\ last' = [op |-> Other, out |-> "ok"]
  /\ UNCHANGED <<m_ipv4AddressEntry, own, m_rreqIdCache, m_nb>>

----------------------------------------------------------------------------

\* The constructor, and requests for addresses outside of the model.
Init ==
  /\ m_ipv4AddressEntry = NoRoutes /\ now = Epoch
  /\ \E n \in EarlierRequests :
       /\ m_pathDiscoveryTime = RouteLife + n * Epoch
       /\ m_seqNo = n % SeqMod /\ m_requestId = n
  /\ m_rreqIdCache = {} /\ m_nb = {}
  /\ m_addressReqTimer = [k \in {} |-> 0] /\ calls = 0
  /\ last = [op |-> Other, out |-> "ok"]

\* A handler runs.  A request with hop count 0 comes from its originator.
Handler ==
  \/ \E dst \in Addresses : SendRequest(dst)
  \/ \E dst \in Addresses : DeferredRouteOutput(dst)
  \/ \E src \in Refs, origin, dst \in Addresses, id \in Ids, seqNo \in Seqs,
        hopCount \in 0..MaxHops, allowed \in BOOLEAN :
       /\ hopCount = 0 <=> origin = Addr[src]
       /\ RecvRequest(src, origin, id, seqNo, hopCount, dst, allowed)
  \/ \E sender \in Refs : UpdateRouteToNeighbor(sender)
  \/ \E from \in Refs, seqNo \in Seqs : ProcessHello(from, seqNo)
  \/ \E n \in Addresses : RecvReplyAck(n)
  \/ \E dst, origin \in Addresses, limited \in BOOLEAN : Forwarding(dst, origin, limited)
  \/ \E hop \in Refs, limited \in BOOLEAN : SendRerrWhenBreaksLinkToNextHop(hop, limited)
  \/ \E n \in Addresses : AckTimerExpire(n)

Next == calls < MaxCalls /\ (Handler \/ Tick)

Spec == Init /\ [][Next]_avars

----------------------------------------------------------------------------
(* Properties *)

\* A valid route has a next hop.  Entries are born without one when a search
\* starts, and several handlers, some by way of a copy, change flag and next hop
\* apart from each other.
ValidHasNextHop ==
  \A k \in DOMAIN table : table[k].m_flag = "VALID" => table[k].nextHop # NoRef

\* A route of one hop leads to the neighbour itself.  The hop count doubles as the
\* TTL of the ring search while a route is in search, and must not be taken for a
\* distance afterwards.
OneHopIsNeighbor ==
  \A k \in DOMAIN table :
    (table[k].m_flag # "IN_SEARCH" /\ table[k].m_hops = 1) 
      => table[k].nextHop # NoRef /\ Addr[table[k].nextHop] = k

\* a is behind b on the circle of sequence numbers.
IsOlder(a, b) == a # b /\ (b - a) % SeqMod < SeqMod \div 2

\* A request never takes the sequence number of a route back, across the wrap of
\* the number, unless the route is the one to the sending neighbour or was
\* invalid.
FreshestSeqKept ==
  [][ \A src \in Refs, origin \in Addresses :
        ( /\ last'.op = <<"RecvRequest", src, origin>>
          /\ origin # Addr[src] /\ origin \in DOMAIN table \intersect DOMAIN table'
          /\ table[origin].m_validSeqNo /\ table[origin].m_flag # "INVALID" )
          => /\ table'[origin].m_validSeqNo
             /\ ~IsOlder(table'[origin].m_seqNo, table[origin].m_seqNo) ]_avars

=============================================================================
