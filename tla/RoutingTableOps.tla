---------------------------- MODULE RoutingTableOps ----------------------------
(* The contents of the AODV routing table and the walks over it                *)
(* (RoutingTable.java, RoutingTableEntry.java), for the table on its own       *)
(* (RoutingTable) and for the protocol that uses it (AodvRouting).             *)
(*                                                                             *)
(* Two traits of the Java code shape the model.  GetLifeTime computes what is  *)
(* left with Time.sub, which stores the difference in its first argument:      *)
(* reading a lifetime replaces the deadline in the entry by the time left, so  *)
(* the next read subtracts the clock once more.  And Purge removes from the    *)
(* HashMap it walks: the iterator throws at the next key unless the removed    *)
(* key was the last of the walk.  Keys are walked in the order of their        *)
(* buckets, the constant Rank.                                                 *)
EXTENDS Integers, FiniteSets

CONSTANTS Addresses,       \* destinations
          Rank,              \* position of an address in a walk over the HashMap
          BadLinkLifetime    \* m_badLinkLifetime, in ticks

ASSUME RankAssumption ==
  /\ Rank \in [Addresses -> Nat]
  /\ \A a, b \in Addresses : Rank[a] = Rank[b] => a = b
  /\ BadLinkLifetime \in Nat

VARIABLES m_ipv4AddressEntry,  \* the table: a function on its destinations
          now                    \* System.currentTimeMillis, in ticks

table == m_ipv4AddressEntry

RouteFlags == {"VALID", "INVALID", "IN_SEARCH"}

----------------------------------------------------------------------------
(* One entry *)

\* Time.sub(m_lifeTime, Now): what GetLifeTime returns and leaves in m_lifeTime.
\* A lifetime below zero stays below zero whatever is subtracted: -1 stands for
\* all of them.
LifeLeft(e) == IF e.m_lifeTime < now THEN -1 ELSE e.m_lifeTime - now

\* Invalidate
Invalidate(e) ==
  IF e.m_flag = "INVALID" THEN e
  ELSE [e EXCEPT !.m_flag = "INVALID", !.m_reqCount = 0,
                 !.m_lifeTime = BadLinkLifetime + now]

\* One step of the walk of Purge, for an entry it does not remove.
Swept(e) ==
  IF LifeLeft(e) < 0 /\ e.m_flag = "VALID"
    THEN Invalidate(e)
    ELSE [e EXCEPT !.m_lifeTime = LifeLeft(e)]

\* Mutant: the count of requests is stored whatever the flag.
StoredAsIs(e) == e

\* AddRoute and Update: only a route in search keeps its count of requests.
Stored(e) == IF e.m_flag # "IN_SEARCH" THEN [e EXCEPT !.m_reqCount = 0] ELSE e

----------------------------------------------------------------------------
(* The walks over the HashMap *)

\* A walk that removes its matches ends at the first match: by an exception
\* when another key would follow.
FirstOf(keys) == CHOOSE k \in keys : \A j \in keys : Rank[k] <= Rank[j]
StopsEarly(t, k) == \E j \in DOMAIN t : Rank[k] < Rank[j]

\* Mutant: valid routes are removed like invalid ones.
OutdatedAny(t) == {k \in DOMAIN t : LifeLeft(t[k]) < 0 /\ t[k].m_flag # "IN_SEARCH"}

\* The entries Purge would remove.
Outdated(t) == {k \in DOMAIN t : LifeLeft(t[k]) < 0 /\ t[k].m_flag = "INVALID"}

\* An empty table.
NoRoutes == [k \in {} |-> 0]

\* Purge
Purge(t) ==
  IF t = NoRoutes \/ Outdated(t) = {}
    THEN [table |-> [k \in DOMAIN t |-> Swept(t[k])], throws |-> FALSE]
    ELSE LET v == FirstOf(Outdated(t))
         IN  [table  |-> [k \in DOMAIN t \ {v} |->
                            IF Rank[k] < Rank[v] THEN Swept(t[k]) ELSE t[k]],
              throws |-> StopsEarly(t, v)]

\* The table after one key was set or removed.
Put(t, k, e) == [j \in DOMAIN t \union {k} |-> IF j = k THEN e ELSE t[j]]
Remove(t, k) == [j \in DOMAIN t \ {k} |-> t[j]]

\* Mutant: valid routes are invalidated only if they lead to one destination.
InvalidatedFirst(t, unreachable) ==
  [k \in DOMAIN t |-> IF unreachable = {k} THEN Invalidate(t[k]) ELSE t[k]]

\* InvalidateRoutesWithDst, the loop: put() of a key already there does not
\* disturb the iterator.
Invalidated(t, unreachable) ==
  [k \in DOMAIN t |->
     IF k \in unreachable /\ t[k].m_flag = "VALID" THEN Invalidate(t[k]) ELSE t[k]]
=============================================================================
