--------------------------- MODULE AodvRoutingProofs ---------------------------
(* The handlers of the AODV protocol, for every set of addresses and address    *)
(* objects, every lifetime, every width of the sequence numbers and every order *)
(* of the walk over the HashMap.                                                *)
(*                                                                              *)
(* A valid route has a next hop, and a route of one hop leads to the neighbour  *)
(* itself.  Neither is inductive: flag, hop count and next hop are set apart    *)
(* from each other, by way of copies, and a purge may invalidate a route in     *)
(* between.  What every entry keeps, also as an invalid one and as a copy, is   *)
(* Leads: outside of a search it has the next hop and the distance that were    *)
(* set together.  The tables that a handler passes from call to call are        *)
(* followed through every call, an exception included.                          *)
(*                                                                              *)
(* The freshest sequence number is kept: no call but the reverse route of a     *)
(* request touches the number of a route to a distant originator (SameSeq), and *)
(* the two purges before it cannot have taken the route out, because an entry   *)
(* is only removed by a later purge than the one that invalidated it.           *)
EXTENDS AodvRouting, FiniteSetTheorems, WellFoundedInduction, TLAPS

RouteEntry ==
  [m_flag : RouteFlags, m_lifeTime : Int, m_reqCount : Nat, m_hops : Nat, m_seqNo : Seqs,
   m_validSeqNo : BOOLEAN, nextHop : Refs \union {NoRef}, m_blackListState : BOOLEAN,
   m_precursorList : SUBSET (Addresses \union {NoRef})]

Leads(k, e) ==
  e.m_flag # "IN_SEARCH" => e.nextHop \in Refs /\ (e.m_hops = 1 => Addr[e.nextHop] = k)

GoodEntry(k, e) == e \in RouteEntry /\ Leads(k, e)

Good(t) == DOMAIN t \subseteq Addresses /\ \A k \in DOMAIN t : GoodEntry(k, t[k])

\* Everything beside the table.
TypeOK ==
  /\ now \in Epoch..(Epoch + MaxTicks)
  /\ m_pathDiscoveryTime \in Nat /\ m_seqNo \in Seqs /\ m_requestId \in Nat
  /\ m_rreqIdCache \subseteq Addresses \X Ids
  /\ m_nb \subseteq Refs \union {NoRef}
  /\ DOMAIN m_addressReqTimer \subseteq Addresses
  /\ \A k \in DOMAIN m_addressReqTimer : m_addressReqTimer[k] \in {"null", "pending"}
  /\ calls \in 0..MaxCalls

AInv == Good(table) /\ TypeOK

----------------------------------------------------------------------------
(* Constants *)

\* The half of the circle of sequence numbers.
LEMMA SeqModHalf ==
  /\ SeqMod \in Nat \ {0} /\ SeqMod \div 2 \in Nat \ {0} /\ SeqMod = 2 * (SeqMod \div 2)
<1>1. PICK h \in 1..128 : SeqMod = 2 * h BY AodvAssumption
<1>2. (2 * h) \div 2 = h OBVIOUS
<1>. QED BY <1>1, <1>2

\* The sequence numbers.
LEMMA SeqsFacts == Seqs \subseteq Nat /\ 0 \in Seqs /\ \A n \in Nat : n % SeqMod \in Seqs
BY SeqModHalf DEF Seqs

\* The remainder of a difference of two sequence numbers, without %.
LEMMA SeqDifference ==
  ASSUME NEW a \in Seqs, NEW b \in Seqs
  PROVE  (a - b) % SeqMod = IF a >= b THEN a - b ELSE a - b + SeqMod
BY SeqModHalf DEF Seqs

\* A number that is newer is not older, and a number is not older than itself.
LEMMA NewerIsNotOlder ==
  ASSUME NEW a \in Seqs, NEW b \in Seqs
  PROVE  (a = b \/ IsNewer(a, b)) => ~IsOlder(a, b)
<1>. DEFINE h == SeqMod \div 2
<1>1. h \in Nat \ {0} /\ SeqMod = 2 * h BY SeqModHalf
<1>2. /\ (a - b) % SeqMod = IF a >= b THEN a - b ELSE a - b + SeqMod
      /\ (b - a) % SeqMod = IF b >= a THEN b - a ELSE b - a + SeqMod
  BY SeqDifference
<1>3. a \in Nat /\ b \in Nat BY SeqsFacts
<1>4. /\ IsNewer(a, b) <=> (a - b) % SeqMod \in 1..(h - 1)
      /\ IsOlder(a, b) <=> a # b /\ (b - a) % SeqMod < h
  BY DEF IsNewer, IsOlder
<1>. HIDE DEF h
<1>. DEFINE x == (a - b) % SeqMod
            y == (b - a) % SeqMod
<1>5. /\ x = IF a >= b THEN a - b ELSE a - b + SeqMod
      /\ y = IF b >= a THEN b - a ELSE b - a + SeqMod
      /\ IsNewer(a, b) <=> x \in 1..(h - 1)
      /\ IsOlder(a, b) <=> a # b /\ y < h
  BY <1>2, <1>4
<1>. HIDE DEF x, y
<1>. QED BY <1>1, <1>3, <1>5

----------------------------------------------------------------------------
(* Entries *)

\* Reading a lifetime leaves an integer.
LEMMA LifeLeftInt ==
  ASSUME now \in Nat, NEW e \in RouteEntry PROVE LifeLeft(e) \in Int
BY DEF LifeLeft, RouteEntry

\* A change of lifetime, count, blacklist state, precursors and sequence number
\* keeps an entry good.
LEMMA SameRouteGood ==
  ASSUME NEW k, NEW e, GoodEntry(k, e), NEW f \in RouteEntry,
         f.m_flag = e.m_flag, f.nextHop = e.nextHop, f.m_hops = e.m_hops
  PROVE  GoodEntry(k, f)
BY DEF GoodEntry, Leads

\* Invalidation of a route that is not in search keeps it good.
LEMMA InvalidateGood ==
  ASSUME now \in Nat, NEW k, NEW e, GoodEntry(k, e), e.m_flag # "IN_SEARCH"
  PROVE  /\ GoodEntry(k, Invalidate(e))
         /\ Invalidate(e).m_seqNo = e.m_seqNo /\ Invalidate(e).m_validSeqNo = e.m_validSeqNo
<1>1. e \in RouteEntry BY DEF GoodEntry
<1>2. BadLinkLifetime + now \in Int BY RankAssumption
<1>3. CASE e.m_flag = "INVALID" BY <1>3 DEF Invalidate
<1>4. CASE e.m_flag # "INVALID"
  <2>. DEFINE f == [e EXCEPT !.m_flag = "INVALID", !.m_reqCount = 0,
                             !.m_lifeTime = BadLinkLifetime + now]
  <2>1. Invalidate(e) = f BY <1>4 DEF Invalidate
  <2>2. /\ f \in RouteEntry /\ f.nextHop = e.nextHop /\ f.m_hops = e.m_hops
        /\ f.m_seqNo = e.m_seqNo /\ f.m_validSeqNo = e.m_validSeqNo
    BY <1>1, <1>2 DEF RouteEntry, RouteFlags
  <2>. HIDE DEF f
  <2>. QED BY <2>1, <2>2 DEF GoodEntry, Leads
<1>. QED BY <1>3, <1>4

\* The walk of Purge keeps an entry good and leaves its sequence number alone.
LEMMA SweptGood ==
  ASSUME now \in Nat, NEW k, NEW e, GoodEntry(k, e)
  PROVE  /\ GoodEntry(k, Swept(e))
         /\ Swept(e).m_seqNo = e.m_seqNo /\ Swept(e).m_validSeqNo = e.m_validSeqNo
<1>1. e \in RouteEntry BY DEF GoodEntry
<1>2. LifeLeft(e) \in Int BY <1>1, LifeLeftInt
<1>. HIDE DEF LifeLeft
<1>3. CASE LifeLeft(e) < 0 /\ e.m_flag = "VALID"
  <2>1. Swept(e) = Invalidate(e) BY <1>3 DEF Swept
  <2>. QED BY <1>3, <2>1, InvalidateGood
<1>4. CASE ~(LifeLeft(e) < 0 /\ e.m_flag = "VALID")
  <2>. DEFINE f == [e EXCEPT !.m_lifeTime = LifeLeft(e)]
  <2>1. Swept(e) = f BY <1>4 DEF Swept
  <2>2. /\ f \in RouteEntry /\ f.m_flag = e.m_flag
        /\ f.nextHop = e.nextHop /\ f.m_hops = e.m_hops
        /\ f.m_seqNo = e.m_seqNo /\ f.m_validSeqNo = e.m_validSeqNo
    BY <1>1, <1>2 DEF RouteEntry
  <2>. HIDE DEF f
  <2>. QED BY <2>1, <2>2, SameRouteGood
<1>. QED BY <1>3, <1>4

\* What AddRoute and Update store of a good entry.
LEMMA StoredGood ==
  ASSUME NEW k, NEW e, GoodEntry(k, e)
  PROVE  /\ GoodEntry(k, Stored(e))
         /\ Stored(e).m_seqNo = e.m_seqNo /\ Stored(e).m_validSeqNo = e.m_validSeqNo
<1>1. e \in RouteEntry BY DEF GoodEntry
<1>. DEFINE f == [e EXCEPT !.m_reqCount = 0]
<1>2. /\ f \in RouteEntry /\ f.m_flag = e.m_flag
      /\ f.nextHop = e.nextHop /\ f.m_hops = e.m_hops
      /\ f.m_seqNo = e.m_seqNo /\ f.m_validSeqNo = e.m_validSeqNo
  BY <1>1 DEF RouteEntry
<1>3. Stored(e) = e \/ Stored(e) = f BY DEF Stored
<1>. HIDE DEF f
<1>. QED BY <1>2, <1>3, SameRouteGood

\* The entry that handlers make for a route of some hops over an address object.
LEMMA NewEntryType ==
  ASSUME now \in Nat, NEW valid \in BOOLEAN, NEW seqNo \in Seqs, NEW hops \in Nat,
         NEW r \in Refs \union {NoRef}, NEW lifetime \in Int
  PROVE  /\ NewEntry(valid, seqNo, hops, r, lifetime) \in RouteEntry
         /\ NewEntry(valid, seqNo, hops, r, lifetime).nextHop = r
         /\ NewEntry(valid, seqNo, hops, r, lifetime).m_hops = hops
         /\ NewEntry(valid, seqNo, hops, r, lifetime).m_seqNo = seqNo
BY DEF NewEntry, RouteEntry, RouteFlags

LEMMA NewEntryGood ==
  ASSUME now \in Nat, NEW valid \in BOOLEAN, NEW seqNo \in Seqs, NEW hops \in Nat,
         NEW r \in Refs, NEW lifetime \in Int, NEW k, hops = 1 => Addr[r] = k
  PROVE  GoodEntry(k, NewEntry(valid, seqNo, hops, r, lifetime))
BY NewEntryType DEF GoodEntry, Leads

\* Time.MAX(lifetime, GetLifeTime()) is an integer.
LEMMA LongestInt ==
  ASSUME now \in Nat, NEW e \in RouteEntry PROVE Longest(e) \in Int
<1>1. LifeLeft(e) \in Int BY LifeLeftInt
<1>2. RouteLife \in Int BY AodvAssumption
<1>. QED BY <1>1, <1>2 DEF Longest

\* SetLifeTime(Time.MAX(lifetime, GetLifeTime())) changes the lifetime alone.
LEMMA RenewedType ==
  ASSUME now \in Nat, NEW e \in RouteEntry
  PROVE  /\ Renewed(e) \in RouteEntry /\ Renewed(e).m_flag = e.m_flag
         /\ Renewed(e).nextHop = e.nextHop /\ Renewed(e).m_hops = e.m_hops
         /\ Renewed(e).m_seqNo = e.m_seqNo /\ Renewed(e).m_validSeqNo = e.m_validSeqNo
<1>. DEFINE l == now + Longest(e)
<1>1. l \in Int BY LongestInt
<1>2. Renewed(e) = [e EXCEPT !.m_lifeTime = l] BY DEF Renewed
<1>. HIDE DEF l
<1>. QED BY <1>1, <1>2 DEF RouteEntry

\* The lifetime of a copy after it was read once, twice or three times.
LEMMA AfterReadsInt ==
  ASSUME now \in Nat, NEW e \in RouteEntry, NEW n \in 1..3 PROVE AfterReads(e, n) \in Int
<1>1. e.m_lifeTime \in Int BY DEF RouteEntry
<1>2. n * now \in Int OBVIOUS
<1>. QED BY <1>1, <1>2 DEF AfterReads

----------------------------------------------------------------------------
(* Tables *)

\* What is left of t in u: no new key, and the sequence numbers as they were.
SameSeq(t, u) ==
  \A k \in DOMAIN u : /\ k \in DOMAIN t
                      /\ u[k].m_seqNo = t[k].m_seqNo
                      /\ u[k].m_validSeqNo = t[k].m_validSeqNo

\* A table passes a call or a series of calls well.
Fine(t, u) == Good(u) /\ SameSeq(t, u)

\* Two series in a row.
LEMMA FineTransitive ==
  ASSUME NEW t, NEW u, NEW v, Fine(t, u), Fine(u, v) PROVE Fine(t, v)
BY DEF Fine, SameSeq

LEMMA FineReflexive == ASSUME NEW t, Good(t) PROVE Fine(t, t)
BY DEF Fine, SameSeq

\* A purge, whether it ends or is cut short.
LEMMA PurgeFine ==
  ASSUME now \in Nat, NEW t, Good(t) PROVE Fine(t, Purge(t).table)
<1>1. DOMAIN t \subseteq Addresses /\ \A k \in DOMAIN t : GoodEntry(k, t[k])
  BY DEF Good
<1>2. \A k \in DOMAIN t : /\ GoodEntry(k, Swept(t[k]))
                          /\ Swept(t[k]).m_seqNo = t[k].m_seqNo
                          /\ Swept(t[k]).m_validSeqNo = t[k].m_validSeqNo
  BY <1>1, SweptGood
<1>3. CASE t = NoRoutes \/ Outdated(t) = {}
  <2>1. Purge(t).table = [k \in DOMAIN t |-> Swept(t[k])] BY <1>3 DEF Purge
  <2>. QED BY <1>1, <1>2, <2>1 DEF Good, Fine, SameSeq
<1>4. CASE ~(t = NoRoutes \/ Outdated(t) = {})
  <2>. DEFINE v == FirstOf(Outdated(t))
  <2>1. Purge(t).table = [k \in DOMAIN t \ {v} |->
                            IF Rank[k] < Rank[v] THEN Swept(t[k]) ELSE t[k]]
    BY <1>4 DEF Purge
  <2>. HIDE DEF v
  <2>. QED BY <1>1, <1>2, <2>1 DEF Good, Fine, SameSeq
<1>. QED BY <1>3, <1>4

\* Setting one key, with or without a purge before it.
LEMMA PutGood ==
  ASSUME NEW t, Good(t), NEW k \in Addresses, NEW e, GoodEntry(k, e)
  PROVE  Good(Put(t, k, e))
BY DEF Put, Good

LEMMA AddRouteGood ==
  ASSUME now \in Nat, NEW t, Good(t), NEW k \in Addresses, NEW e, GoodEntry(k, e)
  PROVE  Good(AddRoute(t, k, e).table)
<1>. DEFINE pg == Purge(t)
<1>1. Good(pg.table) BY PurgeFine DEF Fine
<1>2. AddRoute(t, k, e) =
        IF pg.throws THEN pg ELSE [table |-> Put(pg.table, k, Stored(e)), throws |-> FALSE]
  BY DEF AddRoute, Then, Result
<1>3. Good(Put(pg.table, k, Stored(e))) BY <1>1, PutGood, StoredGood
<1>. HIDE DEF pg
<1>. QED BY <1>1, <1>2, <1>3

LEMMA UpdateGood ==
  ASSUME NEW t, Good(t), NEW k, NEW e, k \in DOMAIN t => GoodEntry(k, e)
  PROVE  Good(Update(t, k, e).table)
BY PutGood, StoredGood DEF Update, Result, Good

\* An update that leaves the sequence number alone.
LEMMA UpdateFine ==
  ASSUME NEW t, Good(t), NEW k, NEW e,
         k \in DOMAIN t => /\ GoodEntry(k, e) /\ e.m_seqNo = t[k].m_seqNo
                           /\ e.m_validSeqNo = t[k].m_validSeqNo
  PROVE  Fine(t, Update(t, k, e).table)
<1>1. Good(Update(t, k, e).table) BY UpdateGood
<1>2. CASE k \in DOMAIN t
  <2>1. Update(t, k, e).table = [j \in DOMAIN t |-> IF j = k THEN Stored(e) ELSE t[j]]
    BY <1>2 DEF Update, Result, Put
  <2>2. Stored(e).m_seqNo = t[k].m_seqNo /\ Stored(e).m_validSeqNo = t[k].m_validSeqNo
    BY <1>2, StoredGood
  <2>. QED BY <1>1, <2>1, <2>2 DEF Fine, SameSeq
<1>3. CASE k \notin DOMAIN t
  <2>1. Update(t, k, e).table = t BY <1>3 DEF Update, Result
  <2>. QED BY <2>1, FineReflexive
<1>. QED BY <1>2, <1>3

\* The loop of InvalidateRoutesWithDst.
LEMMA InvalidatedGood ==
  ASSUME now \in Nat, NEW t, Good(t), NEW u PROVE Good(Invalidated(t, u))
<1>1. \A k \in DOMAIN t : t[k].m_flag = "VALID" => GoodEntry(k, Invalidate(t[k]))
  BY InvalidateGood DEF Good
<1>. QED BY <1>1 DEF Invalidated, Good

----------------------------------------------------------------------------
(* Series of lookups *)

\* f lists the results of the first n lookups.
Chain(t, n, f) == f = [i \in 0..n |-> IF i = 0 THEN Result(t) ELSE Then(f[i - 1], Purge)]

\* There is such a list: a shortest series without one could be continued from
\* the series that is one lookup shorter.
LEMMA ChainExists ==
  ASSUME NEW t, NEW n \in Nat PROVE \E f : Chain(t, n, f)
<1>. DEFINE bad == {i \in Nat : ~ \E f : Chain(t, i, f)}
<1>. SUFFICES ASSUME bad # {} PROVE FALSE OBVIOUS
<1>1. PICK m \in bad : \A j \in bad : ~(<<j, m>> \in OpToRel(<, Nat))
  BY NatLessThanWellFounded, WFMin
<1>2. CASE m = 0
  <2>1. Chain(t, 0, [i \in 0..0 |-> Result(t)]) BY DEF Chain
  <2>. QED BY <1>2, <2>1
<1>3. CASE m # 0
  <2>1. m - 1 \in Nat /\ <<m - 1, m>> \in OpToRel(<, Nat) BY <1>3 DEF OpToRel
  <2>2. PICK f : Chain(t, m - 1, f) BY <1>1, <2>1
  <2>. DEFINE g == [i \in 0..m |-> IF i = m THEN Then(f[m - 1], Purge) ELSE f[i]]
  <2>3. Chain(t, m, g)
    <3>1. \A i \in 0..(m - 1) : f[i] = IF i = 0 THEN Result(t) ELSE Then(f[i - 1], Purge)
      BY <2>2 DEF Chain
    <3>2. \A i \in 0..m : g[i] = IF i = 0 THEN Result(t) ELSE Then(g[i - 1], Purge)
      <4>. TAKE i \in 0..m
      <4>1. CASE i = m BY <1>3, <4>1
      <4>2. CASE i # m BY <3>1, <4>2
      <4>. QED BY <4>1, <4>2
    <3>. QED BY <3>2 DEF Chain
  <2>. QED BY <2>3
<1>. QED BY <1>2, <1>3

\* Lookups is the last of that list.
LEMMA LookupsChain ==
  ASSUME NEW t, NEW n \in Nat PROVE \E f : Chain(t, n, f) /\ Lookups(t, n) = f[n]
<1>1. \E f : Chain(t, n, f) BY ChainExists
<1>. DEFINE f == CHOOSE g : Chain(t, n, g)
<1>2. Chain(t, n, f) BY <1>1
<1>3. Lookups(t, n) = f[n] BY DEF Lookups, Chain
<1>. QED BY <1>2, <1>3

\* Any number of lookups keeps a table good: the first result that is not fine
\* would come from a fine one by a purge.
LEMMA LookupsFine ==
  ASSUME now \in Nat, NEW t, Good(t), NEW n \in Nat PROVE Fine(t, Lookups(t, n).table)
<1>1. PICK f : Chain(t, n, f) /\ Lookups(t, n) = f[n] BY LookupsChain
<1>2. \A i \in 0..n : f[i] = IF i = 0 THEN Result(t) ELSE Then(f[i - 1], Purge)
  BY <1>1 DEF Chain
<1>. DEFINE bad == {i \in 0..n : ~Fine(t, f[i].table)}
<1>3. ASSUME bad # {} PROVE FALSE
  <2>0. bad \subseteq Nat OBVIOUS
  <2>1. PICK m \in bad : \A j \in bad : ~(<<j, m>> \in OpToRel(<, Nat))
    BY <1>3, <2>0, NatLessThanWellFounded, WFMin
  <2>2. CASE m = 0
    <3>1. f[m].table = t BY <1>2, <2>2 DEF Result
    <3>. QED BY <2>1, <3>1, FineReflexive
  <2>3. CASE m # 0
    <3>1. m - 1 \in 0..n /\ <<m - 1, m>> \in OpToRel(<, Nat) BY <2>3 DEF OpToRel
    <3>2. Fine(t, f[m - 1].table) BY <2>1, <3>1
    <3>. DEFINE u == f[m - 1].table
    <3>3. f[m].table = u \/ f[m].table = Purge(u).table BY <1>2, <2>3 DEF Then
    <3>4. Fine(u, Purge(u).table) BY <3>2, PurgeFine DEF Fine
    <3>. HIDE DEF u
    <3>5. Fine(t, u) BY <3>2 DEF u
    <3>6. Fine(t, f[m].table) BY <3>3, <3>4, <3>5, FineTransitive
    <3>. QED BY <3>6
  <2>. QED BY <2>2, <2>3
<1>. QED BY <1>1, <1>3

----------------------------------------------------------------------------
(* The calls that handlers are made of *)

\* UpdateRouteLifeTime
LEMMA UpdateRouteLifeTimeGood ==
  ASSUME now \in Nat, NEW t, Good(t), NEW k PROVE Good(UpdateRouteLifeTime(t, k).table)
<1>. DEFINE pg == Purge(t)
            u == pg.table
<1>1. Good(u) BY PurgeFine DEF Fine
<1>. DEFINE f == [u[k] EXCEPT !.m_reqCount = 0]
<1>2. UpdateRouteLifeTime(t, k) =
        IF pg.throws THEN pg
        ELSE IF k \in DOMAIN u /\ u[k].m_flag = "VALID"
               THEN Update(u, k, Renewed(f)) ELSE Result(u)
  BY DEF UpdateRouteLifeTime, Then
<1>. HIDE DEF pg
<1>3. k \in DOMAIN u => GoodEntry(k, Renewed(f))
  <2>1. SUFFICES ASSUME k \in DOMAIN u PROVE GoodEntry(k, Renewed(f)) OBVIOUS
  <2>2. GoodEntry(k, u[k]) /\ u[k] \in RouteEntry BY <1>1, <2>1 DEF Good, GoodEntry
  <2>3. /\ f \in RouteEntry /\ f.m_flag = u[k].m_flag
        /\ f.nextHop = u[k].nextHop /\ f.m_hops = u[k].m_hops
    BY <2>2 DEF RouteEntry
  <2>. HIDE DEF f, u
  <2>4. GoodEntry(k, f) BY <2>2, <2>3, SameRouteGood
  <2>. QED BY <2>3, <2>4, RenewedType, SameRouteGood
<1>4. Good(Update(u, k, Renewed(f)).table) BY <1>1, <1>3, UpdateGood
<1>. HIDE DEF u, f
<1>. QED BY <1>1, <1>2, <1>4 DEF Result, u

\* SendRequest: a route in search may keep or lack a next hop.
LEMMA CountedGood ==
  ASSUME NEW k, NEW e \in RouteEntry, e.m_flag = "IN_SEARCH" PROVE GoodEntry(k, Counted(e))
<1>. DEFINE f == [e EXCEPT !.m_reqCount = @ + 1]
<1>1. f \in RouteEntry /\ f.m_flag = e.m_flag BY DEF RouteEntry
<1>2. Counted(e) = e \/ Counted(e) = f BY DEF Counted
<1>. HIDE DEF f
<1>. QED BY <1>1, <1>2 DEF GoodEntry, Leads

LEMMA SearchingGood ==
  ASSUME now \in Nat, m_pathDiscoveryTime \in Nat, NEW t, Good(t), NEW dst \in Addresses
  PROVE  Good(Searching(t, dst).table)
<1>. DEFINE pg == Purge(t)
            u == pg.table
            f == [u[dst] EXCEPT !.m_hops = NextTtl(u[dst]), !.m_flag = "IN_SEARCH",
                                !.m_lifeTime = m_pathDiscoveryTime + now]
            n == NewEntry(FALSE, 0, TtlStart, NoRef, m_pathDiscoveryTime)
            g == [n EXCEPT !.m_flag = "IN_SEARCH"]
<1>1. Good(u) BY PurgeFine DEF Fine
<1>2. Searching(t, dst) =
        IF pg.throws THEN pg
        ELSE IF dst \in DOMAIN u THEN Update(u, dst, Counted(f))
                                 ELSE AddRoute(u, dst, Counted(g))
  BY DEF Searching, Then
<1>. HIDE DEF pg
<1>3. dst \in DOMAIN u => GoodEntry(dst, Counted(f))
  <2>1. SUFFICES ASSUME dst \in DOMAIN u PROVE GoodEntry(dst, Counted(f)) OBVIOUS
  <2>. DEFINE e == u[dst]
  <2>2. e \in RouteEntry BY <1>1, <2>1 DEF Good, GoodEntry
  <2>. HIDE DEF u, e
  <2>3. NextTtl(e) \in Nat
    <3>1. e.m_hops \in Nat BY <2>2 DEF RouteEntry
    <3>. QED BY <3>1, AodvAssumption DEF NextTtl
  <2>4. m_pathDiscoveryTime + now \in Int OBVIOUS
  <2>. DEFINE ttl == NextTtl(e)
              life == m_pathDiscoveryTime + now
  <2>5. ttl \in Nat /\ life \in Int BY <2>3, <2>4
  <2>6. f = [e EXCEPT !.m_hops = ttl, !.m_flag = "IN_SEARCH", !.m_lifeTime = life] BY DEF e
  <2>. HIDE DEF ttl, life, f
  <2>7. f \in RouteEntry /\ f.m_flag = "IN_SEARCH"
    BY <2>2, <2>5, <2>6 DEF RouteEntry, RouteFlags
  <2>. QED BY <2>7, CountedGood
<1>4. GoodEntry(dst, Counted(g))
  <2>1. n \in RouteEntry
    <3>1. /\ 0 \in Seqs /\ TtlStart \in Nat /\ m_pathDiscoveryTime \in Int
          /\ FALSE \in BOOLEAN /\ NoRef \in Refs \union {NoRef}
      BY SeqsFacts, AodvAssumption
    <3>. QED BY <3>1, NewEntryType, Zenon
  <2>. HIDE DEF n
  <2>2. g \in RouteEntry /\ g.m_flag = "IN_SEARCH" BY <2>1 DEF RouteEntry, RouteFlags
  <2>. HIDE DEF g
  <2>. QED BY <2>2, CountedGood
<1>. HIDE DEF f, g
<1>5. Good(Update(u, dst, Counted(f)).table) BY <1>1, <1>3, UpdateGood
<1>6. Good(AddRoute(u, dst, Counted(g)).table) BY <1>1, <1>4, AddRouteGood
<1>. HIDE DEF u
<1>. QED BY <1>1, <1>2, <1>5, <1>6 DEF u

\* RecvRequest: the route to the neighbour that sent the request.
LEMMA ToNeighborGood ==
  ASSUME now \in Nat, NEW t, Good(t), NEW src \in Refs, NEW seqNo \in Seqs
  PROVE  /\ Good(ToNeighbor(t, src, seqNo).table)
         /\ \A k \in DOMAIN ToNeighbor(t, src, seqNo).table :
              k # Addr[src] =>
                /\ k \in DOMAIN t
                /\ ToNeighbor(t, src, seqNo).table[k].m_seqNo = t[k].m_seqNo
                /\ ToNeighbor(t, src, seqNo).table[k].m_validSeqNo = t[k].m_validSeqNo
<1>. DEFINE pg == Purge(t)
            u == pg.table
            a == Addr[src]
            f == [u[a] EXCEPT !.m_validSeqNo = FALSE, !.m_seqNo = seqNo,
                              !.m_lifeTime = now + RouteLife, !.m_flag = "VALID", !.m_hops = 1,
                              !.nextHop = src]
            n == NewEntry(FALSE, seqNo, 1, src, RouteLife)
            r == ToNeighbor(t, src, seqNo)
<1>1. Fine(t, u) /\ Good(u) BY PurgeFine DEF Fine
<1>2. r = IF pg.throws THEN pg
          ELSE IF a \notin DOMAIN u THEN AddRoute(u, a, n) ELSE Update(u, a, f)
  BY DEF ToNeighbor, Then
<1>3. a \in Addresses /\ RouteLife \in Nat BY AodvAssumption
<1>. HIDE DEF pg, r
<1>4. GoodEntry(a, n)
  <2>1. RouteLife \in Int /\ 1 \in Nat /\ FALSE \in BOOLEAN BY <1>3
  <2>. QED BY <2>1, NewEntryGood, Zenon
<1>5. a \in DOMAIN u => GoodEntry(a, f)
  <2>1. SUFFICES ASSUME a \in DOMAIN u PROVE GoodEntry(a, f) OBVIOUS
  <2>. DEFINE e == u[a]
              life == now + RouteLife
  <2>2. e \in RouteEntry BY <1>1, <2>1 DEF Good, GoodEntry
  <2>3. life \in Int BY <1>3
  <2>4. f = [e EXCEPT !.m_validSeqNo = FALSE, !.m_seqNo = seqNo,
                      !.m_lifeTime = life, !.m_flag = "VALID", !.m_hops = 1, !.nextHop = src]
    OBVIOUS
  <2>. HIDE DEF e, life, f, u, n
  <2>5. f \in RouteEntry /\ f.m_flag = "VALID" /\ f.nextHop = src
    BY <2>2, <2>3, <2>4 DEF RouteEntry, RouteFlags
  <2>. QED BY <2>5 DEF GoodEntry, Leads
<1>. HIDE DEF f, n
<1>6. Good(Update(u, a, f).table) BY <1>1, <1>5, UpdateGood
<1>7. Good(AddRoute(u, a, n).table) BY <1>1, <1>3, <1>4, AddRouteGood
<1>8. \A k \in DOMAIN AddRoute(u, a, n).table : k # a =>
        /\ k \in DOMAIN u /\ AddRoute(u, a, n).table[k].m_seqNo = u[k].m_seqNo
        /\ AddRoute(u, a, n).table[k].m_validSeqNo = u[k].m_validSeqNo
  <2>. DEFINE p == Purge(u)
  <2>1. Fine(u, p.table) BY <1>1, PurgeFine
  <2>2. AddRoute(u, a, n) =
          IF p.throws THEN p
          ELSE [table |-> [j \in DOMAIN p.table \union {a} |->
                             IF j = a THEN Stored(n) ELSE p.table[j]], throws |-> FALSE]
    BY DEF AddRoute, Then, Result, Put
  <2>. HIDE DEF p, u, a
  <2>. QED BY <2>1, <2>2 DEF Fine, SameSeq
<1>9. \A k \in DOMAIN Update(u, a, f).table : k # a =>
        k \in DOMAIN u /\ Update(u, a, f).table[k] = u[k]
  BY DEF Update, Result, Put
<1>. HIDE DEF u, a
<1>10. Good(r.table) BY <1>1, <1>2, <1>6, <1>7 DEF u
<1>11. \A k \in DOMAIN r.table : k # a =>
         /\ k \in DOMAIN u /\ r.table[k].m_seqNo = u[k].m_seqNo
         /\ r.table[k].m_validSeqNo = u[k].m_validSeqNo
  BY <1>2, <1>8, <1>9 DEF u
<1>. QED BY <1>1, <1>10, <1>11 DEF Fine, SameSeq, r, a

\* RecvRequest: the reverse route to the originator.  Where a route with a valid
\* sequence number is known, its number gets newer or stays.
LEMMA ToOriginGood ==
  ASSUME now \in Nat, NEW t, Good(t), NEW origin \in Addresses, NEW src \in Refs,
         NEW seqNo \in Seqs, NEW hop \in Nat, hop = 1 => Addr[src] = origin
  PROVE  LET u == Purge(t).table
             w == ToOrigin(t, origin, src, seqNo, hop).table
         IN  /\ Good(w)
             /\ Purge(t).throws => w = u
             /\ ~Purge(t).throws /\ origin \in DOMAIN u /\ u[origin].m_validSeqNo =>
                  /\ origin \in DOMAIN w /\ w[origin].m_validSeqNo
                  /\ \/ w[origin].m_seqNo = u[origin].m_seqNo
                     \/ w[origin].m_seqNo = seqNo /\ IsNewer(seqNo, u[origin].m_seqNo)
<1>. DEFINE pg == Purge(t)
            u == pg.table
            s == IF u[origin].m_validSeqNo /\ ~IsNewer(seqNo, u[origin].m_seqNo)
                   THEN u[origin].m_seqNo ELSE seqNo
            f == [u[origin] EXCEPT
                    !.m_seqNo = IF u[origin].m_validSeqNo /\ ~IsNewer(seqNo, @) THEN @ ELSE seqNo,
                    !.m_validSeqNo = TRUE, !.nextHop = src, !.m_hops = hop]
            n == NewEntry(TRUE, seqNo, hop, src, RouteLife)
            r == ToOrigin(t, origin, src, seqNo, hop)
<1>1. Good(u) BY PurgeFine DEF Fine
<1>2. r = IF pg.throws THEN pg
          ELSE IF origin \notin DOMAIN u THEN AddRoute(u, origin, n)
                                         ELSE Update(u, origin, Renewed(f))
  BY DEF ToOrigin, Then
<1>. HIDE DEF pg, r
<1>3. GoodEntry(origin, n)
  <2>1. RouteLife \in Int /\ TRUE \in BOOLEAN BY AodvAssumption
  <2>. QED BY <2>1, NewEntryGood, Zenon
<1>4. ASSUME origin \in DOMAIN u
      PROVE  /\ GoodEntry(origin, Renewed(f))
             /\ Renewed(f).m_seqNo = s /\ Renewed(f).m_validSeqNo = TRUE
  <2>. DEFINE e == u[origin]
  <2>1. e \in RouteEntry BY <1>1, <1>4 DEF Good, GoodEntry
  <2>2. s \in Seqs BY <2>1 DEF RouteEntry
  <2>3. f = [e EXCEPT !.m_seqNo = s, !.m_validSeqNo = TRUE, !.nextHop = src, !.m_hops = hop]
    BY <2>1 DEF RouteEntry
  <2>. HIDE DEF e, s, f, u, n
  <2>4. /\ f \in RouteEntry /\ f.nextHop = src /\ f.m_hops = hop
        /\ f.m_seqNo = s /\ f.m_validSeqNo = TRUE
    BY <2>1, <2>2, <2>3 DEF RouteEntry
  <2>5. GoodEntry(origin, f) BY <2>4 DEF GoodEntry, Leads
  <2>6. GoodEntry(origin, Renewed(f)) BY <2>4, <2>5, RenewedType, SameRouteGood
  <2>. QED BY <2>4, <2>6, RenewedType
<1>. DEFINE g == Renewed(f)
<1>5. Good(AddRoute(u, origin, n).table) BY <1>1, <1>3, AddRouteGood
<1>6. Good(Update(u, origin, g).table) BY <1>1, <1>4, UpdateGood
<1>7. origin \in DOMAIN u =>
        /\ origin \in DOMAIN Update(u, origin, g).table
        /\ Update(u, origin, g).table[origin].m_seqNo = s
        /\ Update(u, origin, g).table[origin].m_validSeqNo = TRUE
  <2>1. SUFFICES ASSUME origin \in DOMAIN u
                 PROVE  /\ origin \in DOMAIN Update(u, origin, g).table
                        /\ Update(u, origin, g).table[origin].m_seqNo = s
                        /\ Update(u, origin, g).table[origin].m_validSeqNo = TRUE
    OBVIOUS
  <2>2. GoodEntry(origin, g) /\ g.m_seqNo = s /\ g.m_validSeqNo = TRUE BY <1>4, <2>1
  <2>. HIDE DEF s, g, n, u
  <2>3. Update(u, origin, g).table
          = [j \in DOMAIN u \union {origin} |-> IF j = origin THEN Stored(g) ELSE u[j]]
    BY <2>1 DEF Update, Result, Put
  <2>4. Stored(g).m_seqNo = s /\ Stored(g).m_validSeqNo = TRUE BY <2>2, StoredGood
  <2>. QED BY <2>3, <2>4
<1>. HIDE DEF f, g, n
<1>8. /\ Good(r.table)
      /\ pg.throws => r.table = u
      /\ ~pg.throws /\ origin \in DOMAIN u =>
           origin \in DOMAIN r.table /\ r.table[origin].m_seqNo = s
             /\ r.table[origin].m_validSeqNo = TRUE
  <2>. HIDE DEF s
  <2>1. CASE pg.throws
    <3>1. r.table = u BY <1>2, <2>1
    <3>. QED BY <1>1, <2>1, <3>1
  <2>2. CASE ~pg.throws /\ origin \notin DOMAIN u
    <3>1. r = AddRoute(u, origin, n) BY <1>2, <2>2
    <3>. QED BY <1>5, <2>2, <3>1
  <2>3. CASE ~pg.throws /\ origin \in DOMAIN u
    <3>1. r = Update(u, origin, g) BY <1>2, <2>3 DEF g
    <3>. HIDE DEF u
    <3>. QED BY <1>6, <1>7, <2>3, <3>1
  <2>. QED BY <2>1, <2>2, <2>3
<1>9. Good(r.table) BY <1>8
<1>10. pg.throws => r.table = u BY <1>8
<1>11. ~pg.throws /\ origin \in DOMAIN u /\ u[origin].m_validSeqNo =>
         /\ origin \in DOMAIN r.table /\ r.table[origin].m_validSeqNo
         /\ \/ r.table[origin].m_seqNo = u[origin].m_seqNo
            \/ r.table[origin].m_seqNo = seqNo /\ IsNewer(seqNo, u[origin].m_seqNo)
  BY <1>8
<1>. QED BY <1>9, <1>10, <1>11 DEF r, pg

\* A precursor is an address or unknown.
LEMMA AddrOfType == \A r : AddrOf(r) \in Addresses \union {NoRef}
BY AodvAssumption DEF AddrOf

\* SendReplyByIntermediateNode, for a copy of a valid route.
LEMMA SendReplyFine ==
  ASSUME now \in Nat, NEW t, Good(t), NEW dst \in Addresses, NEW toDst,
         GoodEntry(dst, toDst),
         dst \in DOMAIN t => /\ toDst.m_seqNo = t[dst].m_seqNo
                             /\ toDst.m_validSeqNo = t[dst].m_validSeqNo,
         NEW origin \in Addresses, NEW src
  PROVE  Fine(t, SendReplyByIntermediateNode(t, dst, toDst, origin, src).table)
<1>. DEFINE n1 == IF toDst.m_hops = 1 THEN 1 ELSE 0
            n2 == IF toDst.m_hops = 1 THEN 2 ELSE 1
            n3 == IF toDst.m_hops = 1 THEN 3 ELSE 2
            hop == IF origin \in DOMAIN t THEN t[origin].nextHop ELSE src
            replied  == [toDst EXCEPT !.m_precursorList = @ \union {AddrOf(hop)},
                                      !.m_lifeTime = AfterReads(toDst, n3)]
            o == t[origin]
            reversed == [o EXCEPT !.m_precursorList = @ \union {AddrOf(toDst.nextHop)},
                                  !.m_lifeTime = AfterReads(o, n2)]
            looked == Lookups(t, n1)
            u == looked.table
            first == Update(u, dst, replied)
            v == first.table
            r == SendReplyByIntermediateNode(t, dst, toDst, origin, src)
<1>1. r = IF looked.throws THEN looked
          ELSE IF origin \in DOMAIN v THEN Update(v, origin, reversed) ELSE Result(v)
  BY DEF SendReplyByIntermediateNode, Then, Update, Result
<1>2. n1 \in Nat /\ n2 \in 1..3 /\ n3 \in 1..3 OBVIOUS
<1>. HIDE DEF r, n1, n2, n3, hop, looked
<1>3. Fine(t, u) /\ Good(u) BY <1>2, LookupsFine DEF Fine, looked
<1>4. GoodEntry(dst, replied) /\ replied.m_seqNo = toDst.m_seqNo
        /\ replied.m_validSeqNo = toDst.m_validSeqNo
  <2>. DEFINE l == AfterReads(toDst, n3)
              p == AddrOf(hop)
  <2>1. toDst \in RouteEntry BY DEF GoodEntry
  <2>2. l \in Int /\ p \in Addresses \union {NoRef} BY <1>2, <2>1, AfterReadsInt, AddrOfType
  <2>. HIDE DEF l, p
  <2>3. /\ replied \in RouteEntry /\ replied.m_flag = toDst.m_flag
        /\ replied.nextHop = toDst.nextHop /\ replied.m_hops = toDst.m_hops
        /\ replied.m_seqNo = toDst.m_seqNo /\ replied.m_validSeqNo = toDst.m_validSeqNo
    BY <2>1, <2>2 DEF RouteEntry, l, p
  <2>. HIDE DEF replied
  <2>. QED BY <2>3, SameRouteGood
<1>5. origin \in DOMAIN t =>
        /\ GoodEntry(origin, reversed) /\ reversed.m_seqNo = o.m_seqNo
        /\ reversed.m_validSeqNo = o.m_validSeqNo
  <2>. SUFFICES ASSUME origin \in DOMAIN t
                PROVE  /\ GoodEntry(origin, reversed) /\ reversed.m_seqNo = o.m_seqNo
                       /\ reversed.m_validSeqNo = o.m_validSeqNo
    OBVIOUS
  <2>. DEFINE l == AfterReads(o, n2)
              p == AddrOf(toDst.nextHop)
  <2>1. o \in RouteEntry /\ GoodEntry(origin, o) BY DEF GoodEntry, Good
  <2>. HIDE DEF o
  <2>2. l \in Int /\ p \in Addresses \union {NoRef} BY <1>2, <2>1, AfterReadsInt, AddrOfType
  <2>. HIDE DEF l, p
  <2>3. /\ reversed \in RouteEntry /\ reversed.m_flag = o.m_flag
        /\ reversed.nextHop = o.nextHop /\ reversed.m_hops = o.m_hops
        /\ reversed.m_seqNo = o.m_seqNo /\ reversed.m_validSeqNo = o.m_validSeqNo
    BY <2>1, <2>2 DEF RouteEntry, l, p
  <2>. HIDE DEF reversed
  <2>. QED BY <2>1, <2>3, SameRouteGood
<1>. HIDE DEF replied, reversed
<1>6. Fine(u, v)
  <2>1. dst \in DOMAIN u => /\ replied.m_seqNo = u[dst].m_seqNo
                            /\ replied.m_validSeqNo = u[dst].m_validSeqNo
    BY <1>3, <1>4 DEF Fine, SameSeq
  <2>. QED BY <1>3, <1>4, <2>1, UpdateFine
<1>. HIDE DEF first, u
<1>7. Fine(t, v) BY <1>3, <1>6, FineTransitive
<1>8. ASSUME origin \in DOMAIN v PROVE Fine(v, Update(v, origin, reversed).table)
  <2>1. /\ origin \in DOMAIN t /\ o.m_seqNo = v[origin].m_seqNo
        /\ o.m_validSeqNo = v[origin].m_validSeqNo
    BY <1>7, <1>8 DEF Fine, SameSeq
  <2>2. Good(v) BY <1>7 DEF Fine
  <2>. HIDE DEF v, o
  <2>. QED BY <1>5, <2>1, <2>2, UpdateFine
<1>9. CASE looked.throws BY <1>1, <1>3, <1>9 DEF u, r
<1>10. CASE ~looked.throws /\ origin \in DOMAIN v
  <2>1. r = Update(v, origin, reversed) BY <1>1, <1>10
  <2>2. Fine(v, r.table) BY <1>8, <1>10, <2>1
  <2>. HIDE DEF v
  <2>. QED BY <1>7, <2>2, FineTransitive DEF r
<1>11. CASE ~looked.throws /\ origin \notin DOMAIN v
  <2>1. r.table = v BY <1>1, <1>11 DEF Result
  <2>. QED BY <1>7, <2>1 DEF r
<1>. QED BY <1>9, <1>10, <1>11

\* RecvRequest after the neighbour list.
LEMMA AnswerFine ==
  ASSUME now \in Nat, NEW t, Good(t), NEW origin \in Addresses, NEW src,
         NEW dst \in Addresses, NEW allowed
  PROVE  Fine(t, Answer(t, origin, src, dst, allowed).r.table)
<1>. DEFINE r == Purge(t)
            u == r.table
            pg == Purge(u)
            v == pg.table
            s == SendReplyByIntermediateNode(v, dst, u[dst], origin, src)
            a == Answer(t, origin, src, dst, allowed)
<1>1. a.r = r \/ (dst \in DOMAIN u /\ u[dst].m_flag = "VALID" /\ a.r = IF pg.throws THEN pg ELSE s)
  BY DEF Answer, Then
<1>. HIDE DEF a, r
<1>2. Fine(t, u) /\ Good(u) BY PurgeFine DEF Fine, r
<1>. HIDE DEF u
<1>3. Fine(u, v) /\ Good(v) BY <1>2, PurgeFine DEF Fine
<1>. HIDE DEF pg
<1>4. ASSUME dst \in DOMAIN u, u[dst].m_flag = "VALID" PROVE Fine(v, s.table)
  <2>1. GoodEntry(dst, u[dst]) BY <1>2, <1>4 DEF Good
  <2>2. dst \in DOMAIN v => /\ u[dst].m_seqNo = v[dst].m_seqNo
                            /\ u[dst].m_validSeqNo = v[dst].m_validSeqNo
    BY <1>3 DEF Fine, SameSeq
  <2>. HIDE DEF v
  <2>. QED BY <1>3, <2>1, <2>2, SendReplyFine
<1>. HIDE DEF v, s
<1>5. CASE a.r = r BY <1>2, <1>5 DEF a, u
<1>6. CASE dst \in DOMAIN u /\ u[dst].m_flag = "VALID" /\ a.r = IF pg.throws THEN pg ELSE s
  <2>1. Fine(u, a.r.table) BY <1>3, <1>4, <1>6, FineTransitive DEF v
  <2>. QED BY <1>2, <2>1, FineTransitive DEF a
<1>. QED BY <1>1, <1>5, <1>6

----------------------------------------------------------------------------
(* The handlers *)

\* What a handler has to establish for the table and the counters it shares with
\* the others.
Kept == Good(table') /\ now' = now /\ calls' = calls + 1

\* A handler ends with a table.
LEMMA EndsKept ==
  ASSUME NEW op, NEW r, NEW out, Ends(op, r, out), Good(r.table) PROVE Kept
BY DEF Ends, Kept, table

\* SendRequest, for a known and for an unknown destination.
LEMMA SendRequestKept ==
  ASSUME TypeOK, now \in Nat, NEW t, Good(t), NEW dst \in Addresses, SendRequestFrom(t, dst)
  PROVE  /\ Kept /\ m_pathDiscoveryTime' \in Nat /\ m_seqNo' \in Seqs /\ m_requestId' \in Nat
         /\ DOMAIN m_addressReqTimer' \subseteq Addresses
         /\ \A k \in DOMAIN m_addressReqTimer' : m_addressReqTimer'[k] \in {"null", "pending"}
         /\ UNCHANGED <<m_rreqIdCache, m_nb>>
<1>. DEFINE r == Searching(t, dst)
<1>1. /\ m_pathDiscoveryTime \in Nat /\ m_seqNo \in Seqs /\ m_requestId \in Nat
      /\ DOMAIN m_addressReqTimer \subseteq Addresses
      /\ \A k \in DOMAIN m_addressReqTimer : m_addressReqTimer[k] \in {"null", "pending"}
  BY DEF TypeOK
<1>2. Good(r.table) BY <1>1, SearchingGood
<1>3. /\ IF r.throws
           THEN UNCHANGED own
           ELSE /\ m_pathDiscoveryTime' = m_pathDiscoveryTime + now
                /\ m_seqNo' = (m_seqNo + 1) % SeqMod
                /\ m_requestId' = m_requestId + 1
                /\ m_addressReqTimer' = ScheduleRreqRetry(m_addressReqTimer, dst)
      /\ UNCHANGED <<m_rreqIdCache, m_nb>>
      /\ \E out : Ends(<<"SendRequest", dst>>, r, out)
  BY DEF SendRequestFrom
<1>. HIDE DEF r
<1>4. Kept BY <1>2, <1>3, EndsKept
<1>5. CASE r.throws BY <1>1, <1>3, <1>4, <1>5 DEF own
<1>6. CASE ~r.throws
  <2>1. (m_seqNo + 1) % SeqMod \in Seqs BY <1>1, SeqsFacts
  <2>. DEFINE timers == ScheduleRreqRetry(m_addressReqTimer, dst)
  <2>2. DOMAIN timers \subseteq Addresses /\ \A k \in DOMAIN timers : timers[k] \in {"null", "pending"}
    BY <1>1 DEF ScheduleRreqRetry, Put
  <2>. HIDE DEF timers
  <2>3. m_addressReqTimer' = timers BY <1>3, <1>6 DEF timers
  <2>4. m_pathDiscoveryTime' \in Nat /\ m_seqNo' \in Seqs /\ m_requestId' \in Nat
    BY <1>1, <1>3, <1>6, <2>1
  <2>. QED BY <1>3, <1>4, <2>2, <2>3, <2>4
<1>. QED BY <1>5, <1>6

\* UpdateRouteToNeighbor: a copy, a new route, or a reading of the lifetime.
LEMMA UpdateRouteToNeighborKept ==
  ASSUME now \in Nat, Good(table), NEW sender \in Refs, UpdateRouteToNeighbor(sender)
  PROVE  Kept
<1>. DEFINE k == Addr[sender]
            pg == Purge(table)
            u == pg.table
            n == NewEntry(FALSE, 0, 1, sender, RouteLife)
            c == NewEntry(FALSE, 0, 1, sender, Longest(u[k]))
            read == [u EXCEPT ![k].m_lifeTime = LifeLeft(u[k])]
            r == Then(Purge(table), LAMBDA w :
                   IF k \notin DOMAIN w
                     THEN AddRoute(w, k, NewEntry(FALSE, 0, 1, sender, RouteLife))
                   ELSE IF w[k].m_validSeqNo /\ w[k].m_hops = 1 /\ w[k].nextHop # NoRef
                     THEN Result([w EXCEPT ![k].m_lifeTime = LifeLeft(w[k])])
                   ELSE Update(w, k, NewEntry(FALSE, 0, 1, sender, Longest(w[k]))))
<1>1. Ends(Other, r, "ok") BY DEF UpdateRouteToNeighbor
<1>2. r = pg \/ (k \notin DOMAIN u /\ r = AddRoute(u, k, n))
             \/ (k \in DOMAIN u /\ (r = Result(read) \/ r = Update(u, k, c)))
  BY DEF Then
<1>3. Good(u) BY PurgeFine DEF Fine
<1>4. k \in Addresses /\ RouteLife \in Int /\ 0 \in Seqs /\ 1 \in Nat /\ FALSE \in BOOLEAN
  BY AodvAssumption, SeqsFacts
<1>. HIDE DEF r, pg
<1>5. Good(AddRoute(u, k, n).table)
  <2>1. GoodEntry(k, n) BY <1>4, NewEntryGood, Zenon
  <2>. QED BY <1>3, <1>4, <2>1, AddRouteGood
<1>6. ASSUME k \in DOMAIN u PROVE Good(read) /\ Good(Update(u, k, c).table)
  <2>. DEFINE e == u[k]
              l == LifeLeft(e)
              f == [e EXCEPT !.m_lifeTime = l]
  <2>1. e \in RouteEntry /\ GoodEntry(k, e) BY <1>3, <1>6 DEF Good, GoodEntry
  <2>. HIDE DEF e
  <2>2. l \in Int BY <2>1, LifeLeftInt
  <2>3. GoodEntry(k, f)
    <3>. HIDE DEF l
    <3>1. /\ f \in RouteEntry /\ f.m_flag = e.m_flag
          /\ f.nextHop = e.nextHop /\ f.m_hops = e.m_hops
      BY <2>1, <2>2 DEF RouteEntry
    <3>. HIDE DEF f
    <3>. QED BY <2>1, <3>1, SameRouteGood
  <2>4. read = [j \in DOMAIN u |-> IF j = k THEN f ELSE u[j]] BY DEF e
  <2>. HIDE DEF f, l
  <2>5. Good(read)
    <3>. HIDE DEF read, u
    <3>. QED BY <1>3, <2>3, <2>4 DEF Good
  <2>6. GoodEntry(k, c)
    <3>1. Longest(u[k]) \in Int BY <2>1, LongestInt DEF e
    <3>. QED BY <1>4, <3>1, NewEntryGood, Zenon
  <2>. HIDE DEF c, u, read
  <2>. QED BY <1>3, <2>5, <2>6, UpdateGood
<1>. HIDE DEF n, c, read, u, k
<1>7. Good(r.table) BY <1>2, <1>3, <1>5, <1>6 DEF Result, u
<1>. QED BY <1>1, <1>7, EndsKept

\* ProcessHello: the sender is a neighbour.
LEMMA ProcessHelloKept ==
  ASSUME now \in Nat, Good(table), NEW from \in Refs, NEW seqNo \in Seqs,
         ProcessHello(from, seqNo)
  PROVE  Kept
<1>. DEFINE k == Addr[from]
            pg == Purge(table)
            u == pg.table
            n == NewEntry(TRUE, seqNo, 1, from, RouteLife)
            f == [u[k] EXCEPT !.m_seqNo = seqNo, !.m_validSeqNo = TRUE, !.m_flag = "VALID",
                              !.m_hops = 1, !.nextHop = from]
            r == Then(Purge(table), LAMBDA w :
                   IF k \notin DOMAIN w
                     THEN AddRoute(w, k, NewEntry(TRUE, seqNo, 1, from, RouteLife))
                     ELSE Update(w, k, Renewed([w[k] EXCEPT !.m_seqNo = seqNo,
                            !.m_validSeqNo = TRUE, !.m_flag = "VALID", !.m_hops = 1,
                            !.nextHop = from])))
<1>1. Ends(Other, r, "ok") BY DEF ProcessHello
<1>2. r = pg \/ (k \notin DOMAIN u /\ r = AddRoute(u, k, n))
             \/ (k \in DOMAIN u /\ r = Update(u, k, Renewed(f)))
  BY DEF Then
<1>3. Good(u) BY PurgeFine DEF Fine
<1>4. k \in Addresses /\ RouteLife \in Int /\ 1 \in Nat /\ TRUE \in BOOLEAN BY AodvAssumption
<1>. HIDE DEF r, pg
<1>5. Good(AddRoute(u, k, n).table)
  <2>1. GoodEntry(k, n) BY <1>4, NewEntryGood, Zenon
  <2>. QED BY <1>3, <1>4, <2>1, AddRouteGood
<1>6. ASSUME k \in DOMAIN u PROVE Good(Update(u, k, Renewed(f)).table)
  <2>. DEFINE e == u[k]
  <2>1. e \in RouteEntry BY <1>3, <1>6 DEF Good, GoodEntry
  <2>. HIDE DEF e
  <2>2. /\ f \in RouteEntry /\ f.nextHop = from /\ f.m_flag = "VALID"
    BY <2>1 DEF RouteEntry, RouteFlags, e
  <2>. HIDE DEF f
  <2>3. GoodEntry(k, f) BY <2>2 DEF GoodEntry, Leads
  <2>4. GoodEntry(k, Renewed(f)) BY <2>2, <2>3, RenewedType, SameRouteGood
  <2>. HIDE DEF u, k
  <2>. QED BY <1>3, <2>4, UpdateGood
<1>. HIDE DEF n, f, u, k
<1>7. Good(r.table) BY <1>2, <1>3, <1>5, <1>6 DEF u
<1>. QED BY <1>1, <1>7, EndsKept

\* A next hop is an address object or none.
LEMMA NextHopType ==
  ASSUME NEW t, Good(t), NEW k \in DOMAIN t PROVE t[k].nextHop \in Refs \union {NoRef}
BY DEF Good, GoodEntry, RouteEntry

\* The neighbour list after a link to an unknown neighbour was opened.
LEMMA OpenLinkType ==
  ASSUME m_nb \subseteq Refs \union {NoRef}, NEW r \in Refs \union {NoRef}, OpenLink(r)
  PROVE  m_nb' \subseteq Refs \union {NoRef}
BY DEF OpenLink

\* Forwarding over a valid route.
LEMMA ForwardKept ==
  ASSUME now \in Nat, NEW t, Good(t), m_nb \subseteq Refs \union {NoRef},
         NEW dst \in DOMAIN t, NEW origin, Forward(t, dst, origin)
  PROVE  Kept /\ m_nb' \subseteq Refs \union {NoRef}
<1>. DEFINE renewVia(u, r) == IF r \in Refs THEN UpdateRouteLifeTime(u, Addr[r]) ELSE Purge(u)
            gateway == t[dst].nextHop
            r1 == UpdateRouteLifeTime(t, origin)
            r2 == IF r1.throws THEN r1 ELSE UpdateRouteLifeTime(r1.table, dst)
            r3 == IF r2.throws THEN r2 ELSE renewVia(r2.table, gateway)
            looked == IF r3.throws THEN r3 ELSE Purge(r3.table)
            back == IF origin \in DOMAIN looked.table THEN looked.table[origin].nextHop ELSE NoRef
            r == IF looked.throws THEN looked ELSE renewVia(looked.table, back)
            unknown == {gateway, back} \ m_nb
<1>1. /\ \E out : Ends(<<"Forwarding", dst>>, r, out)
      /\ IF r.throws \/ unknown = {} THEN UNCHANGED m_nb
         ELSE OpenLink(IF gateway \in unknown THEN gateway ELSE back)
  BY Zenon DEF Forward, Then
<1>2. ASSUME NEW u, Good(u), NEW h PROVE Good(renewVia(u, h).table)
  <2>1. Good(Purge(u).table) BY <1>2, PurgeFine DEF Fine
  <2>2. \A k : Good(UpdateRouteLifeTime(u, k).table) BY <1>2, UpdateRouteLifeTimeGood
  <2>. QED BY <2>1, <2>2
<1>. HIDE DEF renewVia
<1>3. Good(r1.table) BY UpdateRouteLifeTimeGood
<1>. HIDE DEF r1
<1>4. Good(r2.table) BY <1>3, UpdateRouteLifeTimeGood
<1>. HIDE DEF r2, gateway
<1>5. Good(r3.table) BY <1>2, <1>4
<1>. HIDE DEF r3
<1>6. Good(looked.table) BY <1>5, PurgeFine DEF Fine
<1>. HIDE DEF looked
<1>7. gateway \in Refs \union {NoRef} /\ back \in Refs \union {NoRef}
  BY <1>6, NextHopType DEF gateway
<1>. HIDE DEF back
<1>8. Good(r.table) BY <1>2, <1>6
<1>. HIDE DEF r, unknown
<1>9. Kept BY <1>1, <1>8, EndsKept
<1>10. m_nb' \subseteq Refs \union {NoRef} BY <1>1, <1>7, OpenLinkType
<1>. QED BY <1>9, <1>10

LEMMA ForwardingKept ==
  ASSUME now \in Nat, Good(table), m_nb \subseteq Refs \union {NoRef},
         NEW dst, NEW origin, NEW limited, Forwarding(dst, origin, limited)
  PROVE  Kept /\ m_nb' \subseteq Refs \union {NoRef}
<1>. DEFINE r == Lookups(table, 2)
            e == IF limited THEN r ELSE Then(r, Purge)
<1>1. Good(r.table) BY LookupsFine DEF Fine
<1>2. Good(e.table)
  <2>1. Good(Purge(r.table).table) BY <1>1, PurgeFine DEF Fine
  <2>. HIDE DEF r
  <2>. QED BY <1>1, <2>1 DEF Then
<1>3. \/ dst \in DOMAIN r.table /\ Forward(r.table, dst, origin)
      \/ Ends(<<"Forwarding", dst>>, e, "error") /\ UNCHANGED m_nb
  BY DEF Forwarding
<1>. HIDE DEF r, e
<1>. QED BY <1>1, <1>2, <1>3, ForwardKept, EndsKept

\* SendRerrWhenBreaksLinkToNextHop: however many lookups it makes, which is as
\* many as there are routes over the link and precursors.
LEMMA BrokenLinkKept ==
  ASSUME now \in Nat, Good(table), NEW hop, NEW limited,
         SendRerrWhenBreaksLinkToNextHop(hop, limited)
  PROVE  Kept
<1>. DEFINE found == Purge(table)
            list  == Purge(found.table)
            over  == {k \in DOMAIN list.table : list.table[k].nextHop = hop}
            these == (over \union {Addr[hop]}) \intersect DOMAIN list.table
            precursors == UNION {list.table[k].m_precursorList : k \in these}
            lookups == Cardinality(over) + IF limited THEN 0 ELSE Cardinality(precursors)
            seen  == Lookups(list.table, lookups + 1)
            last3 == Then(seen, LAMBDA u : Result(Invalidated(u, over \union {Addr[hop]})))
<1>1. \/ \E out : Ends(Other, found, out)
      \/ \E out : Ends(Other, list, out)
      \/ \E out : Ends(Other, last3, out)
  BY DEF SendRerrWhenBreaksLinkToNextHop
<1>2. Good(found.table) BY PurgeFine DEF Fine
<1>. HIDE DEF found
<1>3. Good(list.table) BY <1>2, PurgeFine DEF Fine
<1>. HIDE DEF list
<1>4. lookups \in Nat
  <2>1. over \subseteq Addresses BY <1>3 DEF Good
  <2>2. precursors \subseteq Addresses \union {NoRef}
    BY <1>3 DEF Good, GoodEntry, RouteEntry
  <2>. HIDE DEF over, precursors
  <2>3. IsFiniteSet(Addresses) /\ IsFiniteSet(Addresses \union {NoRef})
    BY AodvAssumption, FS_AddElement
  <2>4. IsFiniteSet(over) /\ IsFiniteSet(precursors) BY <2>1, <2>2, <2>3, FS_Subset
  <2>5. Cardinality(over) \in Nat /\ Cardinality(precursors) \in Nat
    BY <2>4, FS_CardinalityType
  <2>. QED BY <2>5
<1>. HIDE DEF lookups, over
<1>5. Good(seen.table)
  <2>1. lookups + 1 \in Nat BY <1>4
  <2>. QED BY <1>3, <2>1, LookupsFine DEF Fine
<1>. HIDE DEF seen
<1>6. Good(last3.table)
  <2>1. Good(Invalidated(seen.table, over \union {Addr[hop]})) BY <1>5, InvalidatedGood
  <2>2. last3.table = seen.table
          \/ last3.table = Invalidated(seen.table, over \union {Addr[hop]})
    BY DEF Then, Result
  <2>. HIDE DEF last3
  <2>. QED BY <1>5, <2>1, <2>2
<1>. HIDE DEF last3
<1>. QED BY <1>1, <1>2, <1>3, <1>6, EndsKept

\* AckTimerExpire marks an entry.
LEMMA AckTimerExpireKept ==
  ASSUME Good(table), NEW neighbor, AckTimerExpire(neighbor) PROVE Kept
<1>. DEFINE e == table[neighbor]
            f == [e EXCEPT !.m_blackListState = TRUE, !.m_reqCount = 0]
            marked == [table EXCEPT ![neighbor].m_blackListState = TRUE,
                                    ![neighbor].m_reqCount = 0]
            r == Result(IF neighbor \in DOMAIN table THEN marked ELSE table)
<1>1. Ends(Other, r, "ok") BY DEF AckTimerExpire
<1>2. ASSUME neighbor \in DOMAIN table PROVE Good(marked)
  <2>1. marked = [k \in DOMAIN table |-> IF k = neighbor THEN f ELSE table[k]] OBVIOUS
  <2>2. GoodEntry(neighbor, e) /\ e \in RouteEntry BY <1>2 DEF Good, GoodEntry
  <2>. HIDE DEF e, marked
  <2>3. /\ f \in RouteEntry /\ f.m_flag = e.m_flag
        /\ f.nextHop = e.nextHop /\ f.m_hops = e.m_hops
    BY <2>2 DEF RouteEntry
  <2>. HIDE DEF f
  <2>4. GoodEntry(neighbor, f) BY <2>2, <2>3, SameRouteGood
  <2>. QED BY <2>1, <2>4 DEF Good
<1>. HIDE DEF marked
<1>3. Good(r.table) BY <1>2 DEF Result
<1>. HIDE DEF r
<1>. QED BY <1>1, <1>3, EndsKept

\* RecvRequest: the table after the two routes of a request, and its exits.
LEMMA RecvRequestTable ==
  ASSUME now \in Nat, NEW t, Good(t), NEW src \in Refs, NEW origin \in Addresses,
         NEW seqNo \in Seqs, NEW hopCount \in Nat, hopCount = 0 <=> origin = Addr[src]
  PROVE  Good(Then(ToOrigin(t, origin, src, seqNo, hopCount + 1),
                   LAMBDA u : ToNeighbor(u, src, seqNo)).table)
<1>. DEFINE hop == hopCount + 1
            w == ToOrigin(t, origin, src, seqNo, hop)
<1>1. hop \in Nat /\ (hop = 1 => Addr[src] = origin) OBVIOUS
<1>. HIDE DEF hop
<1>2. Good(w.table) BY <1>1, ToOriginGood
<1>3. Good(ToNeighbor(w.table, src, seqNo).table) BY <1>2, ToNeighborGood
<1>. HIDE DEF w
<1>4. Good((IF w.throws THEN w ELSE ToNeighbor(w.table, src, seqNo)).table) BY <1>2, <1>3
<1>. QED BY <1>4 DEF Then, w, hop

LEMMA RecvRequestKept ==
  ASSUME TypeOK, now \in Nat, Good(table), NEW src \in Refs, NEW origin \in Addresses,
         NEW id \in Ids, NEW seqNo \in Seqs, NEW hopCount \in Nat,
         hopCount = 0 <=> origin = Addr[src],
         NEW dst \in Addresses, NEW allowed,
         RecvRequest(src, origin, id, seqNo, hopCount, dst, allowed)
  PROVE  /\ Kept /\ UNCHANGED own
         /\ m_rreqIdCache' \subseteq Addresses \X Ids
         /\ m_nb' \subseteq Refs \union {NoRef}
<1>. DEFINE looked == Purge(table)
            stored == Then(ToOrigin(looked.table, origin, src, seqNo, hopCount + 1),
                        LAMBDA t : ToNeighbor(t, src, seqNo))
            answer == Answer(stored.table, origin, src, dst, allowed)
<1>1. /\ UNCHANGED own
      /\ \/ m_rreqIdCache' = m_rreqIdCache
         \/ m_rreqIdCache' = m_rreqIdCache \union {<<origin, id>>}
      /\ UNCHANGED m_nb \/ OpenLink(src)
      /\ \/ \E op, out : Ends(op, looked, out)
         \/ \E op, out : Ends(op, stored, out)
         \/ \E op, out : Ends(op, answer.r, out)
  BY Zenon DEF RecvRequest
<1>2. Good(looked.table) BY PurgeFine DEF Fine
<1>. HIDE DEF looked
<1>3. Good(stored.table) BY <1>2, RecvRequestTable
<1>. HIDE DEF stored
<1>4. Good(answer.r.table) BY <1>3, AnswerFine DEF Fine
<1>. HIDE DEF answer
<1>5. Kept BY <1>1, <1>2, <1>3, <1>4, EndsKept
<1>6. m_rreqIdCache' \subseteq Addresses \X Ids BY <1>1 DEF TypeOK
<1>7. m_nb' \subseteq Refs \union {NoRef} BY <1>1, OpenLinkType DEF TypeOK
<1>. QED BY <1>1, <1>5, <1>6, <1>7

----------------------------------------------------------------------------
(* The invariant *)

\* What the constructor leaves.
LEMMA InitInv == Init => AInv
<1>. SUFFICES ASSUME Init PROVE AInv OBVIOUS
<1>1. Good(table) BY DEF Init, Good, NoRoutes, table
<1>2. PICK n \in EarlierRequests : /\ m_pathDiscoveryTime = RouteLife + n * Epoch
                                   /\ m_seqNo = n % SeqMod /\ m_requestId = n
  BY DEF Init
<1>3. n \in Nat /\ RouteLife \in Nat /\ Epoch \in Nat /\ MaxTicks \in Nat /\ MaxCalls \in Nat
  BY AodvAssumption
<1>4. n * Epoch \in Nat BY <1>3
<1>5. m_pathDiscoveryTime \in Nat /\ m_seqNo \in Seqs /\ m_requestId \in Nat
  BY <1>2, <1>3, <1>4, SeqsFacts
<1>6. now = Epoch /\ calls = 0 /\ m_rreqIdCache = {} /\ m_nb = {}
        /\ m_addressReqTimer = [k \in {} |-> 0]
  BY DEF Init
<1>. QED BY <1>1, <1>3, <1>5, <1>6 DEF AInv, TypeOK

\* The premises of the lemmas about handlers.
LEMMA Premises ==
  ASSUME AInv
  PROVE  now \in Nat /\ Good(table) /\ TypeOK /\ m_nb \subseteq Refs \union {NoRef}
         /\ m_pathDiscoveryTime \in Nat
BY AodvAssumption DEF AInv, TypeOK

\* What a handler that leaves the lists and counters of this node alone keeps.
LEMMA KeptInv ==
  ASSUME AInv, calls < MaxCalls, Kept, UNCHANGED own,
         m_rreqIdCache' \subseteq Addresses \X Ids, m_nb' \subseteq Refs \union {NoRef}
  PROVE  AInv'
<1>1. calls + 1 \in 0..MaxCalls BY AodvAssumption DEF AInv, TypeOK
<1>. QED BY <1>1 DEF AInv, TypeOK, Kept, own

LEMMA SendRequestInv ==
  ASSUME AInv, calls < MaxCalls, NEW t, Good(t), NEW dst \in Addresses, SendRequestFrom(t, dst)
  PROVE  AInv'
<1>1. calls + 1 \in 0..MaxCalls BY AodvAssumption DEF AInv, TypeOK
<1>2. now \in Nat /\ TypeOK BY Premises
<1>3. /\ Kept /\ m_pathDiscoveryTime' \in Nat /\ m_seqNo' \in Seqs /\ m_requestId' \in Nat
      /\ DOMAIN m_addressReqTimer' \subseteq Addresses
      /\ \A k \in DOMAIN m_addressReqTimer' : m_addressReqTimer'[k] \in {"null", "pending"}
      /\ UNCHANGED <<m_rreqIdCache, m_nb>>
  BY <1>2, SendRequestKept
<1>. QED BY <1>1, <1>2, <1>3 DEF AInv, TypeOK, Kept

\* Every handler and every tick of the clock keeps the invariant.
LEMMA StepInv == AInv /\ [Next]_avars => AInv'
<1>. SUFFICES ASSUME AInv, [Next]_avars PROVE AInv' OBVIOUS
<1>1. /\ now \in Nat /\ Good(table) /\ TypeOK /\ m_nb \subseteq Refs \union {NoRef}
  BY Premises
<1>2. m_rreqIdCache \subseteq Addresses \X Ids BY <1>1 DEF TypeOK
<1>3. ASSUME Kept, calls < MaxCalls, UNCHANGED <<own, m_rreqIdCache, m_nb>> PROVE AInv'
  BY <1>1, <1>2, <1>3, KeptInv
<1>4. CASE UNCHANGED avars
  BY <1>4 DEF avars, AInv, TypeOK, own, table
<1>5. CASE calls < MaxCalls /\ Tick
  <2>1. now + 1 \in Epoch..(Epoch + MaxTicks)
    BY <1>1, <1>5, AodvAssumption DEF Tick, TypeOK
  <2>2. calls + 1 \in 0..MaxCalls BY <1>1, <1>5, AodvAssumption DEF TypeOK
  <2>. QED BY <1>1, <1>5, <2>1, <2>2 DEF Tick, AInv, TypeOK, own, table
<1>6. ASSUME calls < MaxCalls, NEW dst \in Addresses, SendRequest(dst) PROVE AInv'
  BY <1>1, <1>6, SendRequestInv DEF SendRequest
<1>7. ASSUME calls < MaxCalls, NEW dst \in Addresses, DeferredRouteOutput(dst) PROVE AInv'
  <2>. DEFINE r == Purge(table)
  <2>1. Good(r.table) BY <1>1, PurgeFine DEF Fine
  <2>2. \/ SendRequestFrom(r.table, dst)
        \/ Ends(Other, r, "queued") /\ UNCHANGED <<own, m_rreqIdCache, m_nb>>
    BY <1>7 DEF DeferredRouteOutput
  <2>. HIDE DEF r
  <2>3. CASE SendRequestFrom(r.table, dst) BY <1>7, <2>1, <2>3, SendRequestInv
  <2>4. CASE Ends(Other, r, "queued") /\ UNCHANGED <<own, m_rreqIdCache, m_nb>>
    BY <1>3, <1>7, <2>1, <2>4, EndsKept
  <2>. QED BY <2>2, <2>3, <2>4
<1>8. ASSUME calls < MaxCalls, NEW src \in Refs, NEW origin \in Addresses, NEW dst \in Addresses,
             NEW id \in Ids, NEW seqNo \in Seqs, NEW hopCount \in 0..MaxHops,
             NEW allowed \in BOOLEAN, hopCount = 0 <=> origin = Addr[src],
             RecvRequest(src, origin, id, seqNo, hopCount, dst, allowed)
      PROVE  AInv'
  <2>1. hopCount \in Nat BY AodvAssumption
  <2>2. /\ Kept /\ UNCHANGED own
        /\ m_rreqIdCache' \subseteq Addresses \X Ids /\ m_nb' \subseteq Refs \union {NoRef}
    BY <1>1, <1>8, <2>1, RecvRequestKept
  <2>. QED BY <1>8, <2>2, KeptInv
<1>9. ASSUME calls < MaxCalls, NEW sender \in Refs, UpdateRouteToNeighbor(sender) PROVE AInv'
  <2>1. Kept BY <1>1, <1>9, UpdateRouteToNeighborKept
  <2>. QED BY <1>3, <1>9, <2>1 DEF UpdateRouteToNeighbor
<1>10. ASSUME calls < MaxCalls, NEW from \in Refs, NEW seqNo \in Seqs, ProcessHello(from, seqNo)
       PROVE AInv'
  <2>1. Kept BY <1>1, <1>10, ProcessHelloKept
  <2>. QED BY <1>3, <1>10, <2>1 DEF ProcessHello
<1>11. ASSUME calls < MaxCalls, NEW n, RecvReplyAck(n) PROVE AInv'
  <2>1. Good(Purge(table).table) BY <1>1, PurgeFine DEF Fine
  <2>2. Kept BY <1>11, <2>1, EndsKept DEF RecvReplyAck
  <2>. QED BY <1>3, <1>11, <2>2 DEF RecvReplyAck
<1>12. ASSUME calls < MaxCalls, NEW dst, NEW origin, NEW limited, Forwarding(dst, origin, limited)
       PROVE AInv'
  <2>1. Kept /\ m_nb' \subseteq Refs \union {NoRef} BY <1>1, <1>12, ForwardingKept
  <2>. QED BY <1>2, <1>12, <2>1, KeptInv DEF Forwarding
<1>13. ASSUME calls < MaxCalls, NEW hop, NEW limited, SendRerrWhenBreaksLinkToNextHop(hop, limited)
       PROVE AInv'
  <2>1. Kept BY <1>1, <1>13, BrokenLinkKept
  <2>. QED BY <1>3, <1>13, <2>1 DEF SendRerrWhenBreaksLinkToNextHop
<1>14. ASSUME calls < MaxCalls, NEW n, AckTimerExpire(n) PROVE AInv'
  <2>1. Kept BY <1>1, <1>14, AckTimerExpireKept
  <2>. QED BY <1>3, <1>14, <2>1 DEF AckTimerExpire
<1>. QED
  BY <1>4, <1>5, <1>6, <1>7, <1>8, <1>9, <1>10, <1>11, <1>12, <1>13, <1>14 DEF Next, Handler

\* RoutingProtocol.java: the inductive invariant.  However handlers that exceptions
\* cut short follow each other, every entry is well formed and, outside of a
\* search, has the next hop and the distance that were set together.
THEOREM RoutingInvariant == Spec => []AInv
BY InitInv, StepInv, PTL DEF Spec

\* RoutingProtocol.java: a valid route has a next hop.
THEOREM ValidRoutesHaveNextHop == Spec => []ValidHasNextHop
<1>1. AInv => ValidHasNextHop
  BY AodvAssumption DEF AInv, Good, GoodEntry, Leads, ValidHasNextHop
<1>. QED BY <1>1, RoutingInvariant, PTL

\* RoutingProtocol.java: a route of one hop that is not in search leads to the
\* neighbour itself; the TTL of a search, kept in the same field, is never taken
\* for a distance.
THEOREM OneHopRoutesAreNeighbors == Spec => []OneHopIsNeighbor
<1>1. AInv => OneHopIsNeighbor
  BY AodvAssumption DEF AInv, Good, GoodEntry, Leads, OneHopIsNeighbor
<1>. QED BY <1>1, RoutingInvariant, PTL

----------------------------------------------------------------------------
(* The freshest sequence number *)

\* A walk that removes ends at a key it meant to remove: of the matches, one comes
\* first in the order of the HashMap.
LEMMA FirstOfMember ==
  ASSUME NEW keys, keys \subseteq Addresses, keys # {}
  PROVE  FirstOf(keys) \in keys
<1>. DEFINE ranks == {Rank[k] : k \in keys}
<1>1. ranks \subseteq Nat /\ ranks # {} BY RankAssumption
<1>. HIDE DEF ranks
<1>2. PICK r \in ranks : \A s \in ranks : ~(<<s, r>> \in OpToRel(<, Nat))
  BY <1>1, NatLessThanWellFounded, WFMin
<1>3. \A s \in ranks : r <= s
  <2>. SUFFICES ASSUME NEW s \in ranks, s < r PROVE FALSE BY <1>1
  <2>1. <<s, r>> \in OpToRel(<, Nat) BY <1>1 DEF OpToRel
  <2>. QED BY <1>2, <2>1
<1>4. PICK k \in keys : Rank[k] = r BY DEF ranks
<1>5. \A j \in keys : Rank[k] <= Rank[j] BY <1>3, <1>4 DEF ranks
<1>. QED BY <1>5 DEF FirstOf

\* A purge keeps what is not outdated.
LEMMA PurgeKeeps ==
  ASSUME NEW t, DOMAIN t \subseteq Addresses, NEW k \in DOMAIN t, k \notin Outdated(t)
  PROVE  k \in DOMAIN Purge(t).table
<1>1. CASE t = NoRoutes \/ Outdated(t) = {}
  <2>1. Purge(t).table = [j \in DOMAIN t |-> Swept(t[j])] BY <1>1 DEF Purge
  <2>. QED BY <2>1
<1>2. CASE ~(t = NoRoutes \/ Outdated(t) = {})
  <2>. DEFINE v == FirstOf(Outdated(t))
  <2>1. Outdated(t) \subseteq Addresses BY DEF Outdated
  <2>2. v \in Outdated(t) BY <1>2, <2>1, FirstOfMember
  <2>3. Purge(t).table = [j \in DOMAIN t \ {v} |->
                            IF Rank[j] < Rank[v] THEN Swept(t[j]) ELSE t[j]]
    BY <1>2 DEF Purge
  <2>. HIDE DEF v
  <2>4. DOMAIN Purge(t).table = DOMAIN t \ {v} BY <2>3
  <2>. QED BY <2>2, <2>4
<1>. QED BY <1>1, <1>2

\* A route that a purge invalidates has its delete period before it: the next
\* purge does not remove it.
LEMMA SweptIsNotOutdated ==
  ASSUME now \in Nat, NEW e \in RouteEntry, e.m_flag # "INVALID"
  PROVE  ~(LifeLeft(Swept(e)) < 0 /\ Swept(e).m_flag = "INVALID")
<1>1. CASE LifeLeft(e) < 0 /\ e.m_flag = "VALID"
  <2>. DEFINE life == BadLinkLifetime + now
  <2>1. Swept(e) = [e EXCEPT !.m_flag = "INVALID", !.m_reqCount = 0, !.m_lifeTime = life]
    BY <1>1 DEF Swept, Invalidate
  <2>2. life \in Nat /\ life >= now BY RankAssumption
  <2>. HIDE DEF life
  <2>3. Swept(e).m_lifeTime = life BY <2>1 DEF RouteEntry
  <2>. QED BY <2>2, <2>3 DEF LifeLeft
<1>2. CASE ~(LifeLeft(e) < 0 /\ e.m_flag = "VALID")
  <2>. DEFINE life == LifeLeft(e)
  <2>1. Swept(e) = [e EXCEPT !.m_lifeTime = life] BY <1>2 DEF Swept
  <2>. HIDE DEF life
  <2>2. Swept(e).m_flag = e.m_flag BY <2>1 DEF RouteEntry
  <2>. QED BY <2>2
<1>. QED BY <1>1, <1>2

\* A route in use outlasts two purges.
LEMMA InUseOutlastsTwoPurges ==
  ASSUME now \in Nat, NEW t, Good(t), NEW k \in DOMAIN t, t[k].m_flag # "INVALID"
  PROVE  /\ k \in DOMAIN Purge(t).table
         /\ k \in DOMAIN Purge(Purge(t).table).table
<1>. DEFINE u == Purge(t).table
<1>1. Good(u) BY PurgeFine DEF Fine
<1>2. k \notin Outdated(t) BY DEF Outdated
<1>3. k \in DOMAIN u BY <1>2, PurgeKeeps DEF Good
<1>4. u[k] = t[k] \/ u[k] = Swept(t[k])
  <2>1. CASE t = NoRoutes \/ Outdated(t) = {}
    <3>1. u = [j \in DOMAIN t |-> Swept(t[j])] BY <2>1 DEF Purge
    <3>. QED BY <3>1
  <2>2. CASE ~(t = NoRoutes \/ Outdated(t) = {})
    <3>. DEFINE v == FirstOf(Outdated(t))
    <3>1. u = [j \in DOMAIN t \ {v} |-> IF Rank[j] < Rank[v] THEN Swept(t[j]) ELSE t[j]]
      BY <2>2 DEF Purge
    <3>. HIDE DEF v, u
    <3>. QED BY <1>3, <3>1
  <2>. QED BY <2>1, <2>2
<1>. HIDE DEF u
<1>5. k \notin Outdated(u)
  <2>1. t[k] \in RouteEntry BY DEF Good, GoodEntry
  <2>2. ~(LifeLeft(Swept(t[k])) < 0 /\ Swept(t[k]).m_flag = "INVALID")
    BY <2>1, SweptIsNotOutdated
  <2>. QED BY <1>4, <2>2 DEF Outdated
<1>6. k \in DOMAIN Purge(u).table BY <1>1, <1>3, <1>5, PurgeKeeps DEF Good
<1>. QED BY <1>3, <1>6 DEF u

\* The number of a route in t2 against the number it had in t1.
Fresh(t1, t2, k) ==
  k \in DOMAIN t2 => t2[k].m_validSeqNo /\ ~IsOlder(t2[k].m_seqNo, t1[k].m_seqNo)

\* What follows without touching the number keeps it fresh.
LEMMA FreshThenFine ==
  ASSUME NEW t1, NEW t2, NEW t3, NEW k, Fresh(t1, t2, k), Fine(t2, t3) PROVE Fresh(t1, t3, k)
BY DEF Fresh, Fine, SameSeq

\* The two routes of a request leave the number of a distant originator fresh.
LEMMA TwoRoutesFresh ==
  ASSUME now \in Nat, NEW t, Good(t), NEW src \in Refs, NEW origin \in DOMAIN t,
         NEW seqNo \in Seqs, NEW hopCount \in Nat, hopCount = 0 <=> origin = Addr[src],
         origin # Addr[src], t[origin].m_validSeqNo, t[origin].m_flag # "INVALID"
  PROVE  Fresh(t, Then(ToOrigin(Purge(t).table, origin, src, seqNo, hopCount + 1),
                       LAMBDA u : ToNeighbor(u, src, seqNo)).table, origin)
<1>. DEFINE t1 == Purge(t).table
            pg == Purge(t1)
            hop == hopCount + 1
            w == ToOrigin(t1, origin, src, seqNo, hop)
            n == ToNeighbor(w.table, src, seqNo)
            r == IF w.throws THEN w ELSE n
<1>1. hop \in Nat /\ (hop = 1 => Addr[src] = origin) OBVIOUS
<1>. HIDE DEF hop
<1>2. origin \in DOMAIN t1 /\ origin \in DOMAIN pg.table BY InUseOutlastsTwoPurges
<1>3. Fine(t, t1) /\ Good(t1) BY PurgeFine DEF Fine
<1>4. origin \in Addresses BY DEF Good
<1>. HIDE DEF t1
<1>5. Fine(t1, pg.table) BY <1>3, PurgeFine
<1>6. Fine(t, pg.table) BY <1>3, <1>5, FineTransitive
<1>7. /\ pg.table[origin].m_seqNo = t[origin].m_seqNo
      /\ pg.table[origin].m_validSeqNo = t[origin].m_validSeqNo
  BY <1>2, <1>6 DEF Fine, SameSeq
<1>8. t[origin].m_seqNo \in Seqs BY DEF Good, GoodEntry, RouteEntry
<1>9. /\ Good(w.table)
      /\ pg.throws => w.table = pg.table
      /\ ~pg.throws /\ origin \in DOMAIN pg.table /\ pg.table[origin].m_validSeqNo =>
           /\ origin \in DOMAIN w.table /\ w.table[origin].m_validSeqNo
           /\ \/ w.table[origin].m_seqNo = pg.table[origin].m_seqNo
              \/ w.table[origin].m_seqNo = seqNo /\ IsNewer(seqNo, pg.table[origin].m_seqNo)
  BY <1>1, <1>3, <1>4, ToOriginGood
<1>. HIDE DEF pg, w
<1>10. Fresh(t, w.table, origin)
  <2>1. CASE pg.throws
    <3>1. w.table[origin].m_seqNo = t[origin].m_seqNo /\ w.table[origin].m_validSeqNo
      BY <1>7, <1>9, <2>1
    <3>. QED BY <1>8, <3>1, NewerIsNotOlder DEF Fresh
  <2>2. CASE ~pg.throws
    <3>1. /\ w.table[origin].m_validSeqNo
          /\ \/ w.table[origin].m_seqNo = t[origin].m_seqNo
             \/ w.table[origin].m_seqNo = seqNo /\ IsNewer(seqNo, t[origin].m_seqNo)
      BY <1>2, <1>7, <1>9, <2>2
    <3>. QED BY <1>8, <3>1, NewerIsNotOlder DEF Fresh
  <2>. QED BY <2>1, <2>2
<1>11. Fresh(t, n.table, origin)
  <2>1. \A k \in DOMAIN n.table : k # Addr[src] =>
           /\ k \in DOMAIN w.table
           /\ n.table[k].m_seqNo = w.table[k].m_seqNo
           /\ n.table[k].m_validSeqNo = w.table[k].m_validSeqNo
    BY <1>9, ToNeighborGood
  <2>. HIDE DEF n
  <2>. QED BY <1>10, <2>1 DEF Fresh
<1>12. Fresh(t, r.table, origin)
  <2>. HIDE DEF n
  <2>. QED BY <1>10, <1>11
<1>. QED BY <1>12 DEF Then, w, t1, hop

\* The names of the handlers tell them apart.
LEMMA OpsDiffer ==
  \A src, origin :
    /\ Other # <<"RecvRequest", src, origin>>
    /\ \A dst : <<"SendRequest", dst>> # <<"RecvRequest", src, origin>>
    /\ \A dst : <<"Forwarding", dst>> # <<"RecvRequest", src, origin>>
<1>. TAKE src, origin
<1>1. <<"RecvRequest", src, origin>>[1] = "RecvRequest" OBVIOUS
<1>2. Other[1] = "other" BY DEF Other
<1>3. \A dst : <<"SendRequest", dst>>[1] = "SendRequest" /\ <<"Forwarding", dst>>[1] = "Forwarding"
  OBVIOUS
<1>4. "other" # "RecvRequest" /\ "SendRequest" # "RecvRequest" /\ "Forwarding" # "RecvRequest"
  OBVIOUS
<1>5. Other # <<"RecvRequest", src, origin>> BY <1>1, <1>2, <1>4, Zenon
<1>6. ASSUME NEW dst
      PROVE  /\ <<"SendRequest", dst>> # <<"RecvRequest", src, origin>>
             /\ <<"Forwarding", dst>> # <<"RecvRequest", src, origin>>
  BY <1>1, <1>3, <1>4, Zenon
<1>. QED BY <1>5, <1>6

\* How the handlers end, for all but requests that are not ignored.
Elsewhere ==
  \/ last'.op = Other
  \/ \E dst : last'.op = <<"SendRequest", dst>> \/ last'.op = <<"Forwarding", dst>>

LEMMA EndsName == ASSUME NEW op, NEW r, NEW out, Ends(op, r, out) PROVE last'.op = op
BY DEF Ends

\* Only a request that is handled is recorded as one.
LEMMA RecordedRequest ==
  ASSUME Next
  PROVE  \/ Elsewhere
         \/ \E src \in Refs, origin, dst \in Addresses, id \in Ids, seqNo \in Seqs,
               hopCount \in 0..MaxHops, allowed \in BOOLEAN :
              /\ hopCount = 0 <=> origin = Addr[src]
              /\ RecvRequest(src, origin, id, seqNo, hopCount, dst, allowed)
<1>1. CASE Tick BY <1>1 DEF Tick, Elsewhere
<1>2. ASSUME NEW t, NEW dst, SendRequestFrom(t, dst) PROVE Elsewhere
  BY <1>2, EndsName DEF SendRequestFrom, Elsewhere
<1>3. ASSUME NEW dst, SendRequest(dst) PROVE Elsewhere BY <1>2, <1>3 DEF SendRequest
<1>4. ASSUME NEW dst, DeferredRouteOutput(dst) PROVE Elsewhere
  BY <1>2, <1>4, EndsName DEF DeferredRouteOutput, Elsewhere
<1>5. ASSUME NEW sender, UpdateRouteToNeighbor(sender) PROVE Elsewhere
  <2>1. \E r : Ends(Other, r, "ok") BY <1>5 DEF UpdateRouteToNeighbor
  <2>. QED BY <2>1, EndsName DEF Elsewhere
<1>6. ASSUME NEW from, NEW seqNo, ProcessHello(from, seqNo) PROVE Elsewhere
  <2>1. \E r : Ends(Other, r, "ok") BY <1>6 DEF ProcessHello
  <2>. QED BY <2>1, EndsName DEF Elsewhere
<1>7. ASSUME NEW n, RecvReplyAck(n) PROVE Elsewhere
  <2>1. \E r, out : Ends(Other, r, out) BY <1>7 DEF RecvReplyAck
  <2>. QED BY <2>1, EndsName DEF Elsewhere
<1>8. ASSUME NEW dst, NEW origin, NEW limited, Forwarding(dst, origin, limited) PROVE Elsewhere
  <2>1. ASSUME NEW t, Forward(t, dst, origin) PROVE \E r, out : Ends(<<"Forwarding", dst>>, r, out)
    BY <2>1, Zenon DEF Forward
  <2>2. \E r, out : Ends(<<"Forwarding", dst>>, r, out)
    BY <1>8, <2>1, Zenon DEF Forwarding
  <2>. QED BY <2>2, EndsName DEF Elsewhere
<1>9. ASSUME NEW hop, NEW limited, SendRerrWhenBreaksLinkToNextHop(hop, limited) PROVE Elsewhere
  <2>1. \E r, out : Ends(Other, r, out) BY <1>9, Zenon DEF SendRerrWhenBreaksLinkToNextHop
  <2>. QED BY <2>1, EndsName DEF Elsewhere
<1>10. ASSUME NEW n, AckTimerExpire(n) PROVE Elsewhere
  <2>1. \E r : Ends(Other, r, "ok") BY <1>10, Zenon DEF AckTimerExpire
  <2>. QED BY <2>1, EndsName DEF Elsewhere
<1>. HIDE DEF Elsewhere
<1>. QED BY <1>1, <1>3, <1>4, <1>5, <1>6, <1>7, <1>8, <1>9, <1>10 DEF Next, Handler

\* A request that is handled leaves one of three tables behind; one that is ignored
\* is not recorded.
LEMMA RequestFresh ==
  ASSUME now \in Nat, Good(table), NEW src \in Refs, NEW origin \in DOMAIN table,
         NEW id, NEW seqNo \in Seqs, NEW hopCount \in Nat, hopCount = 0 <=> origin = Addr[src],
         NEW dst \in Addresses, NEW allowed,
         RecvRequest(src, origin, id, seqNo, hopCount, dst, allowed), last'.op # Other,
         origin # Addr[src], table[origin].m_validSeqNo, table[origin].m_flag # "INVALID"
  PROVE  Fresh(table, table', origin)
<1>. DEFINE looked == Purge(table)
            stored == Then(ToOrigin(looked.table, origin, src, seqNo, hopCount + 1),
                        LAMBDA t : ToNeighbor(t, src, seqNo))
            answer == Answer(stored.table, origin, src, dst, allowed)
<1>1. \/ \E out : Ends(Other, looked, out)
      \/ \E op, out : Ends(op, stored, out)
      \/ \E op, out : Ends(op, answer.r, out)
  BY Zenon DEF RecvRequest
<1>2. table' = stored.table \/ table' = answer.r.table BY <1>1, EndsName DEF Ends, table
<1>3. Good(looked.table) BY PurgeFine DEF Fine
<1>4. Fresh(table, stored.table, origin) BY TwoRoutesFresh
<1>5. origin \in Addresses BY DEF Good
<1>. HIDE DEF looked
<1>6. Good(stored.table) BY <1>3, <1>5, RecvRequestTable
<1>. HIDE DEF stored
<1>7. Fine(stored.table, answer.r.table) BY <1>5, <1>6, AnswerFine
<1>. HIDE DEF answer
<1>8. Fresh(table, answer.r.table, origin) BY <1>4, <1>7, FreshThenFine
<1>. QED BY <1>2, <1>4, <1>8

\* RoutingProtocol.java, RecvRequest: no request takes the sequence number of a
\* known route back, across the wrap of the number and through the purges and the
\* exceptions of the handler.
THEOREM SequenceNumbersStayFresh == Spec => FreshestSeqKept
<1>. DEFINE F == \A src \in Refs, origin \in Addresses :
       ( /\ last'.op = <<"RecvRequest", src, origin>>
         /\ origin # Addr[src] /\ origin \in DOMAIN table \intersect DOMAIN table'
         /\ table[origin].m_validSeqNo /\ table[origin].m_flag # "INVALID" )
         => /\ table'[origin].m_validSeqNo
            /\ ~IsOlder(table'[origin].m_seqNo, table[origin].m_seqNo)
<1>1. ASSUME AInv, Next PROVE F
  <2>. SUFFICES ASSUME NEW src \in Refs, NEW origin \in Addresses,
                       last'.op = <<"RecvRequest", src, origin>>,
                       origin # Addr[src], origin \in DOMAIN table \intersect DOMAIN table',
                       table[origin].m_validSeqNo, table[origin].m_flag # "INVALID"
                PROVE  /\ table'[origin].m_validSeqNo
                       /\ ~IsOlder(table'[origin].m_seqNo, table[origin].m_seqNo)
    OBVIOUS
  <2>1. now \in Nat /\ Good(table) BY <1>1, Premises
  <2>2. ~Elsewhere /\ last'.op # Other BY OpsDiffer, Zenon DEF Elsewhere
  <2>3. PICK src2 \in Refs, origin2 \in Addresses, dst \in Addresses, id \in Ids, seqNo \in Seqs,
              hopCount \in 0..MaxHops, allowed \in BOOLEAN :
          /\ hopCount = 0 <=> origin2 = Addr[src2]
          /\ RecvRequest(src2, origin2, id, seqNo, hopCount, dst, allowed)
    BY <1>1, <2>2, RecordedRequest
  <2>4. src2 = src /\ origin2 = origin
    <3>1. \E r, out : Ends(Other, r, out) \/ Ends(<<"RecvRequest", src2, origin2>>, r, out)
      BY <2>3, Zenon DEF RecvRequest
    <3>2. last'.op = <<"RecvRequest", src2, origin2>> BY <2>2, <3>1, EndsName
    <3>3. <<"RecvRequest", src2, origin2>> = <<"RecvRequest", src, origin>> BY <3>2
    <3>. QED BY <3>3
  <2>5. hopCount \in Nat BY AodvAssumption
  <2>6. Fresh(table, table', origin) BY <2>1, <2>2, <2>3, <2>4, <2>5, RequestFresh
  <2>. QED BY <2>6 DEF Fresh
<1>2. AInv /\ [Next]_avars => [F]_avars BY <1>1
<1>. QED BY <1>2, RoutingInvariant, PTL DEF Spec, FreshestSeqKept

=============================================================================
