-------------------------------- MODULE IdCache --------------------------------
(* The cache of recently seen ids (IdCache.java): the protocol keeps one for    *)
(* the route requests it has processed, keyed by origin and request id, and one *)
(* behind DuplicatePacketDetection, keyed by source and packet id.  Packets that *)
(* were not built by Packet() have no id and share the key of their source.      *)
EXTENDS JavaCollections

CONSTANTS Keys,           \* pairs of an address and an id
          LifeTimes,      \* values of m_lifetime, in ticks
          MaxTicks,       \* bound: the clock
          MaxLen          \* bound: length of the cache

CacheAssumption ==
  LifeTimes \subseteq Nat /\ LifeTimes # {} /\ MaxTicks \in Nat /\ MaxLen \in Nat

VARIABLES m_idCache,      \* records, the oldest first
          m_lifetime,
          now,
          recorded,         \* per key: when its last record expires, -1 if it has none
          last              \* the last call, its key and its answer

vars == <<m_idCache, m_lifetime, now, recorded, last>>

UniqueId == [key : Keys, m_expire : Nat]

\* Mutant: a record already counts as expired at its last tick.
IsExpiredEarly(u) == u.m_expire <= now

\* IsExpired
IsExpired(u) == u.m_expire < now

\* Purge
Purge == LinkedSweep(m_idCache, IsExpired)

\* What a call answers; none is the key of a call without one.
Answer(op, k, out) == last' = [op |-> op, key |-> k, out |-> out]

Init ==
  /\ m_idCache = <<>>
  /\ m_lifetime \in LifeTimes
  /\ now = 0
  /\ recorded = [k \in Keys |-> -1]
  /\ last = [op |-> "none", key |-> "none", out |-> "ok"]

\* IsDuplicate, the loop.
Known(list, k) == \E i \in 1..Len(list) : list[i].key = k

\* IsDuplicate, for request ids and for packet ids: record what is not there.
IsDuplicate(k) ==
  LET pg == Purge
  IN  \/ /\ pg.throws
         /\ m_idCache' = pg.list
         /\ Answer("IsDuplicate", k, "exception")
         /\ UNCHANGED <<m_lifetime, now, recorded>>
      \/ /\ ~pg.throws /\ Known(pg.list, k)
         /\ m_idCache' = pg.list
         /\ Answer("IsDuplicate", k, "true")
         /\ UNCHANGED <<m_lifetime, now, recorded>>
      \/ /\ ~pg.throws /\ ~Known(pg.list, k)
         /\ Len(pg.list) < MaxLen
         /\ m_idCache' = Append(pg.list, [key |-> k, m_expire |-> m_lifetime + now])
         /\ recorded' = [recorded EXCEPT ![k] = m_lifetime + now]
         /\ Answer("IsDuplicate", k, "false")
         /\ UNCHANGED <<m_lifetime, now>>

\* GetSize purges before it counts.
GetSize ==
  /\ m_idCache' = Purge.list
  /\ Answer("GetSize", "none", IF Purge.throws THEN "exception" ELSE "ok")
  /\ UNCHANGED <<m_lifetime, now, recorded>>

\* SetLifetime: for records added from now on.
SetLifetime(lt) ==
  /\ m_lifetime' = lt
  /\ Answer("SetLifetime", "none", "ok")
  /\ UNCHANGED <<m_idCache, now, recorded>>

Tick ==
  /\ now < MaxTicks
  /\ now' = now + 1
  /\ Answer("Tick", "none", "ok")
  /\ UNCHANGED <<m_idCache, m_lifetime, recorded>>

Next ==
  \/ \E k \in Keys : IsDuplicate(k)
  \/ GetSize
  \/ \E lt \in LifeTimes : SetLifetime(lt)
  \/ Tick

Spec == Init /\ [][Next]_vars

----------------------------------------------------------------------------
(* Properties *)

\* An id within its lifetime is in the cache, once, with the lifetime it was
\* recorded with: no purge, not even one that ended in an exception or was cut
\* short, loses a record a duplicate still has to be recognised by, and no
\* change of the lifetime extends or shortens it.
LiveIdsKnown ==
  \A k \in Keys :
    recorded[k] >= now =>
      \E i \in 1..Len(m_idCache) :
        /\ m_idCache[i] = [key |-> k, m_expire |-> recorded[k]]
        /\ \A j \in 1..Len(m_idCache) : m_idCache[j].key = k => j = i

=============================================================================
