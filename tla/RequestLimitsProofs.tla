--------------------------- MODULE RequestLimitsProofs ---------------------------
(***************************************************************************)
(* What holds route requests back, for every number of threads, every set  *)
(* of ids and lifetimes and both limits.                                   *)
(*                                                                         *)
(* The rate limit: no request is lost or doubled (NoRequestLost). Each     *)
(* step moves one thread into or out of SendRequest, or leaves the threads *)
(* there as they are, and changes one of the counters by the same amount.  *)
(* The counts of the protocol itself (m_rreqCount and its copies in tmp)   *)
(* may take any value, races included: what becomes of a request does not  *)
(* depend on them.                                                         *)
(*                                                                         *)
(* The id cache: an id within its lifetime is known (LiveIdsKnown). A      *)
(* record is appended only where none with its id is left, so an id has    *)
(* one record at most, and that record holds the expiry last given to the  *)
(* id; a purge, whether it ends or is cut short, removes one record at     *)
(* most, and one whose time is over.                                       *)
(***************************************************************************)
EXTENDS MCRequestLimits, Sequences, FiniteSetTheorems, WellFoundedInduction, TLAPS

-----------------------------------------------------------------------------
(* The rate limit.                                                         *)

InRequest == {"rreqCheck", "rreqRead", "rreqWrite"}

\* The threads that are inside SendRequest.
Requesting == {t \in Threads : pc[t] \in InRequest}

RequestsInv ==
    /\ pc \in [Threads -> InRequest \cup {"idle", "rerrRead", "rerrWrite"}]
    /\ requested \in Nat /\ originated \in Nat /\ failed \in Nat /\ deferred \in Nat
    /\ requested = originated + failed + deferred + Cardinality(Requesting)

-----------------------------------------------------------------------------

\* There are finitely many threads inside SendRequest.
LEMMA RequestingIsFinite == IsFiniteSet(Requesting) /\ Cardinality(Requesting) \in Nat
  <1>1. Requesting \in SUBSET Threads
    BY DEF Requesting
  <1>2. IsFiniteSet(Requesting)
    BY <1>1, FS_Subset, LimitAssumption
  <1>3. QED
    BY <1>2, FS_CardinalityType

\* A thread enters SendRequest.
LEMMA OneEnters ==
    ASSUME NEW t \in Threads, RequestsInv, pc[t] = "idle", pc' = [pc EXCEPT ![t] = "rreqCheck"]
    PROVE  Cardinality(Requesting)' = Cardinality(Requesting) + 1
  <1>1. Requesting' = Requesting \cup {t} /\ t \notin Requesting
    BY DEF Requesting, InRequest, RequestsInv
  <1>2. QED
    BY <1>1, RequestingIsFinite, FS_AddElement

\* A thread leaves SendRequest.
LEMMA OneLeaves ==
    ASSUME NEW t \in Threads, RequestsInv, pc[t] \in InRequest, pc' = [pc EXCEPT ![t] = "idle"]
    PROVE  Cardinality(Requesting)' = Cardinality(Requesting) - 1
  <1>1. Requesting' = Requesting \ {t} /\ t \in Requesting
    BY DEF Requesting, InRequest, RequestsInv
  <1>2. QED
    BY <1>1, RequestingIsFinite, FS_RemoveElement

\* A thread goes on inside SendRequest, or outside of it.
LEMMA NoneMoves ==
    ASSUME NEW t \in Threads, NEW at, RequestsInv, pc[t] \in InRequest <=> at \in InRequest,
           pc' = [pc EXCEPT ![t] = at]
    PROVE  Cardinality(Requesting)' = Cardinality(Requesting)
  <1>1. Requesting' = Requesting
    BY DEF Requesting, RequestsInv
  <1>2. QED
    BY <1>1

-----------------------------------------------------------------------------

LEMMA InitRequests == Init => RequestsInv
  <1> SUFFICES ASSUME Init PROVE RequestsInv
    OBVIOUS
  <1>1. Requesting = {}
    BY DEF Init, Requesting, InRequest
  <1>2. Cardinality(Requesting) = 0
    BY <1>1, FS_EmptySet
  <1>3. QED
    BY <1>2 DEF Init, RequestsInv

LEMMA NextRequests == RequestsInv /\ [Next]_vars => RequestsInv'
  <1> SUFFICES ASSUME RequestsInv, [Next]_vars PROVE RequestsInv'
    OBVIOUS
  <1>n. Cardinality(Requesting) \in Nat
    BY RequestingIsFinite
  <1>k. pc' = pc => Cardinality(Requesting)' = Cardinality(Requesting)
    BY DEF Requesting
  <1>1. CASE Start
    BY <1>1, <1>k DEF Start, RequestsInv
  <1>2. CASE RreqRateLimitTimerExpire
    BY <1>2, <1>k DEF RreqRateLimitTimerExpire, RequestsInv
  <1>3. ASSUME NEW t \in Threads, CallSendRequest(t) PROVE RequestsInv'
    <2>1. Cardinality(Requesting)' = Cardinality(Requesting) + 1
      BY <1>3, OneEnters DEF CallSendRequest
    <2>2. QED
      BY <1>3, <2>1, <1>n DEF CallSendRequest, RequestsInv, InRequest
  <1>4. ASSUME NEW t \in Threads, RunDeferred(t) PROVE RequestsInv'
    <2>1. Cardinality(Requesting)' = Cardinality(Requesting) + 1
      BY <1>4, OneEnters DEF RunDeferred
    <2>2. QED
      BY <1>4, <2>1, <1>n DEF RunDeferred, RequestsInv, InRequest
  <1>5. ASSUME NEW t \in Threads, RreqCheck(t) PROVE RequestsInv'
    <2>1. CASE AtLimit(m_rreqCount)
      <3>1. Cardinality(Requesting)' = Cardinality(Requesting) - 1
        BY <1>5, <2>1, OneLeaves DEF RreqCheck, InRequest
      <3>2. QED
        BY <1>5, <2>1, <3>1, <1>n DEF RreqCheck, Defer, RequestsInv, InRequest
    <2>2. CASE ~ AtLimit(m_rreqCount)
      <3>1. Cardinality(Requesting)' = Cardinality(Requesting)
        BY <1>5, <2>2, NoneMoves DEF RreqCheck, InRequest
      <3>2. QED
        BY <1>5, <2>2, <3>1 DEF RreqCheck, RequestsInv, InRequest
    <2>3. QED
      BY <2>1, <2>2
  <1>6. ASSUME NEW t \in Threads, RreqRead(t) PROVE RequestsInv'
    <2>1. Cardinality(Requesting)' = Cardinality(Requesting)
      BY <1>6, NoneMoves DEF RreqRead, InRequest
    <2>2. QED
      BY <1>6, <2>1 DEF RreqRead, RequestsInv, InRequest
  <1>7. ASSUME NEW t \in Threads, RreqWrite(t) PROVE RequestsInv'
    <2>1. Cardinality(Requesting)' = Cardinality(Requesting) - 1
      BY <1>7, OneLeaves DEF RreqWrite, InRequest
    <2>2. QED
      BY <1>7, <2>1, <1>n DEF RreqWrite, RequestsInv, InRequest
  <1>8. ASSUME NEW t \in Threads, CallSendRerrMessage(t) PROVE RequestsInv'
    <2>1. CASE pc' = pc
      BY <1>8, <2>1, <1>k DEF CallSendRerrMessage, RequestsInv
    <2>2. CASE pc' = [pc EXCEPT ![t] = "rerrRead"]
      <3>1. Cardinality(Requesting)' = Cardinality(Requesting)
        BY <1>8, <2>2, NoneMoves DEF CallSendRerrMessage, InRequest
      <3>2. QED
        BY <1>8, <2>2, <3>1 DEF CallSendRerrMessage, RequestsInv, InRequest
    <2>3. QED
      BY <1>8, <2>1, <2>2 DEF CallSendRerrMessage
  <1>9. ASSUME NEW t \in Threads, RerrRead(t) PROVE RequestsInv'
    <2>1. Cardinality(Requesting)' = Cardinality(Requesting)
      BY <1>9, NoneMoves DEF RerrRead, InRequest
    <2>2. QED
      BY <1>9, <2>1 DEF RerrRead, RequestsInv, InRequest
  <1>10. ASSUME NEW t \in Threads, RerrWrite(t) PROVE RequestsInv'
    <2>1. Cardinality(Requesting)' = Cardinality(Requesting)
      BY <1>10, NoneMoves DEF RerrWrite, InRequest
    <2>2. QED
      BY <1>10, <2>1 DEF RerrWrite, RequestsInv, InRequest
  <1>11. CASE UNCHANGED vars
    BY <1>11, <1>k DEF vars, RequestsInv
  <1>12. QED
    BY <1>1, <1>2, <1>3, <1>4, <1>5, <1>6, <1>7, <1>8, <1>9, <1>10, <1>11 DEF Next, Step

\* SendRequest and the task it schedules at the limit: for every number of
\* threads of the timer pool and every limit, each call of SendRequest was sent,
\* waits for a task of the pool, is being processed or ended in an exception.
THEOREM RequestsAreKept == Spec => []NoRequestLost
  <1>1. RequestsInv => NoRequestLost
    BY DEF RequestsInv, NoRequestLost, Requesting, InRequest
  <1>2. QED
    BY InitRequests, NextRequests, <1>1, PTL DEF Spec

-----------------------------------------------------------------------------
(* Lists, as a purge leaves them.                                          *)

\* A list with one element taken out.
LEMMA WithoutFields ==
    ASSUME NEW S, NEW s \in Seq(S), NEW i \in 1 .. Len(s)
    PROVE  /\ Ids!Without(s, i) \in Seq(S)
           /\ Len(Ids!Without(s, i)) = Len(s) - 1
           /\ \A j \in 1 .. Len(s) - 1 :
                 Ids!Without(s, i)[j] = IF j < i THEN s[j] ELSE s[j + 1]
  <1> DEFINE a == SubSeq(s, 1, i - 1)
             b == SubSeq(s, i + 1, Len(s))
  <1>1. /\ a \in Seq(S) /\ Len(a) = i - 1
        /\ \A j \in 1 .. i - 1 : a[j] = s[j]
    OBVIOUS
  <1>2. /\ b \in Seq(S) /\ Len(b) = Len(s) - i
        /\ \A j \in 1 .. Len(s) - i : b[j] = s[i + j]
    OBVIOUS
  <1>3. Ids!Without(s, i) = a \o b
    BY DEF Ids!Without
  <1> HIDE DEF a, b
  <1>4. a \o b \in Seq(S) /\ Len(a \o b) = Len(s) - 1
    <2>1. a \in Seq(S) /\ b \in Seq(S)
      BY <1>1, <1>2
    <2>2. a \o b \in Seq(S) /\ Len(a \o b) = Len(a) + Len(b)
      BY <2>1
    <2> QED
      BY <1>1, <1>2, <2>2
  <1>5. ASSUME NEW j \in 1 .. Len(s) - 1
        PROVE  (a \o b)[j] = IF j < i THEN s[j] ELSE s[j + 1]
    <2>1. CASE j < i
      <3>1. (a \o b)[j] = a[j]
        BY <1>1, <1>2, <2>1
      <3> QED
        BY <1>1, <2>1, <3>1
    <2>2. CASE ~ (j < i)
      <3>1. (a \o b)[j] = b[j - (i - 1)]
        BY <1>1, <1>2, <2>2
      <3>2. b[j - (i - 1)] = s[i + (j - (i - 1))] /\ i + (j - (i - 1)) = j + 1
        BY <1>2, <2>2
      <3> QED
        BY <2>2, <3>1, <3>2
    <2> QED
      BY <2>1, <2>2
  <1> QED
    BY <1>3, <1>4, <1>5

\* The first position of a set of them is one of them.
LEMMA FirstIsMember ==
    ASSUME NEW ms \in SUBSET Nat, ms # {}
    PROVE  (CHOOSE i \in ms : \A j \in ms : i <= j) \in ms
  <1>1. PICK i \in ms : \A j \in ms : ~ (<<j, i>> \in OpToRel(<, Nat))
    BY NatLessThanWellFounded, WFMin
  <1>2. \A j \in ms : i <= j
    <2> SUFFICES ASSUME NEW j \in ms, j < i PROVE FALSE
      OBVIOUS
    <2>1. <<j, i>> \in OpToRel(<, Nat)
      BY DEF OpToRel
    <2> QED
      BY <1>1, <2>1
  <1> QED
    BY <1>2

\* IdCache::Purge takes out nothing, or one record whose time is over.
LEMMA PurgeTakesExpired ==
    ASSUME m_idCache \in Seq(Ids!UniqueId)
    PROVE  \/ Ids!Purge.list = m_idCache
           \/ \E i \in 1 .. Len(m_idCache) :
                 /\ m_idCache[i].m_expire < now
                 /\ Ids!Purge.list = Ids!Without(m_idCache, i)
  <1> DEFINE ms == {i \in 1 .. Len(m_idCache) : Ids!IsExpired(m_idCache[i])}
             f  == CHOOSE i \in ms : \A j \in ms : i <= j
  <1>1. Ids!Purge.list =
           IF (IF ms = {} THEN 0 ELSE f) = 0
             THEN m_idCache
             ELSE Ids!Without(m_idCache, IF ms = {} THEN 0 ELSE f)
    BY DEF Ids!Purge, Ids!LinkedSweep, Ids!FirstMatch, Ids!Matches
  <1>2. CASE ms = {}
    BY <1>1, <1>2
  <1>3. CASE ms # {}
    <2>1. f \in ms
      <3>1. ms \in SUBSET Nat
        OBVIOUS
      <3> HIDE DEF ms
      <3> QED
        BY <1>3, <3>1, FirstIsMember
    <2>2. f \in 1 .. Len(m_idCache) /\ m_idCache[f].m_expire < now
      BY <2>1 DEF Ids!IsExpired
    <2> HIDE DEF ms, f
    <2> QED
      BY <1>1, <1>3, <2>2
  <1> QED
    BY <1>2, <1>3

-----------------------------------------------------------------------------
(* The id cache.                                                           *)

\* Every record holds the expiry its id was last given.
AsRecorded(list) ==
    \A i \in 1 .. Len(list) : list[i].m_expire = recorded[list[i].key]

\* An id has one record at most.
NoTwice(list) ==
    \A i, j \in 1 .. Len(list) : list[i].key = list[j].key => i = j

\* An id within its lifetime has a record.
LiveFound(list) ==
    \A k \in Keys : recorded[k] >= now => Ids!Known(list, k)

Good(list) ==
    list \in Seq(Ids!UniqueId) /\ AsRecorded(list) /\ NoTwice(list) /\ LiveFound(list)

IdsInv ==
    /\ m_lifetime \in Nat /\ now \in Nat
    /\ recorded \in [Keys -> Int]
    /\ Good(m_idCache)

\* The record of an id, by its fields.
LEMMA RecordFields ==
    ASSUME NEW list \in Seq(Ids!UniqueId), NEW i \in 1 .. Len(list)
    PROVE  /\ list[i].key \in Keys /\ list[i].m_expire \in Nat
           /\ list[i] = [key |-> list[i].key, m_expire |-> list[i].m_expire]
  <1>1. list[i] \in Ids!UniqueId
    OBVIOUS
  <1> QED
    BY <1>1 DEF Ids!UniqueId

\* A purge keeps the cache good.
LEMMA PurgeGood == ASSUME IdsInv PROVE Good(Ids!Purge.list)
  <1>1. m_idCache \in Seq(Ids!UniqueId) /\ Good(m_idCache)
    BY DEF IdsInv, Good
  <1>2. CASE Ids!Purge.list = m_idCache
    BY <1>1, <1>2
  <1>3. ASSUME NEW i \in 1 .. Len(m_idCache), m_idCache[i].m_expire < now,
               Ids!Purge.list = Ids!Without(m_idCache, i)
        PROVE  Good(Ids!Purge.list)
    <2> DEFINE l == Ids!Without(m_idCache, i)
    <2>1. /\ l \in Seq(Ids!UniqueId) /\ Len(l) = Len(m_idCache) - 1
          /\ \A j \in 1 .. Len(m_idCache) - 1 :
                l[j] = IF j < i THEN m_idCache[j] ELSE m_idCache[j + 1]
      BY <1>1, WithoutFields
    <2> HIDE DEF l
    <2>n. Len(m_idCache) \in Nat
      BY <1>1
    <2>2. AsRecorded(l)
      BY <1>1, <2>1, <2>n DEF Good, AsRecorded
    <2>3. NoTwice(l)
      BY <1>1, <2>1, <2>n DEF Good, NoTwice
    <2>4. ASSUME NEW k \in Keys, recorded[k] >= now
          PROVE  Ids!Known(l, k)
      <3>1. PICK j \in 1 .. Len(m_idCache) : m_idCache[j].key = k
        BY <1>1, <2>4 DEF Good, LiveFound, Ids!Known
      <3>2. m_idCache[j].m_expire = recorded[k] /\ recorded[k] \in Int
        BY <1>1, <3>1 DEF Good, AsRecorded, IdsInv
      <3>3. j # i
        BY <1>3, <2>4, <3>2 DEF IdsInv
      <3>4. CASE j < i
        BY <2>1, <2>n, <3>1, <3>4 DEF Ids!Known
      <3>5. CASE j > i
        <4>1. j - 1 \in 1 .. Len(m_idCache) - 1 /\ ~ (j - 1 < i) /\ (j - 1) + 1 = j
          BY <2>n, <3>5
        <4>2. l[j - 1] = m_idCache[j] /\ j - 1 \in 1 .. Len(l)
          BY <2>1, <4>1
        <4> QED
          BY <3>1, <4>2 DEF Ids!Known
      <3> QED
        BY <3>3, <3>4, <3>5
    <2> QED
      BY <1>3, <2>1, <2>2, <2>3, <2>4 DEF Good, LiveFound, l
  <1> QED
    BY <1>1, <1>2, <1>3, PurgeTakesExpired

LEMMA IdsInitInv == Ids!Init => IdsInv
  BY IdsAssumption DEF Ids!Init, Ids!CacheAssumption, IdsInv, Good, AsRecorded, NoTwice,
     LiveFound, Ids!Known

\* IsDuplicate of an id without a record appends one.
LEMMA RecordAdded ==
    ASSUME IdsInv, NEW k \in Keys, NEW list, Good(list), ~ Ids!Known(list, k),
           m_idCache' = Append(list, [key |-> k, m_expire |-> m_lifetime + now]),
           recorded' = [recorded EXCEPT ![k] = m_lifetime + now],
           UNCHANGED <<m_lifetime, now>>
    PROVE  IdsInv'
  <1> DEFINE x == [key |-> k, m_expire |-> m_lifetime + now]
             l == Append(list, x)
  <1>1. /\ m_lifetime + now \in Nat /\ recorded' \in [Keys -> Int]
        /\ recorded'[k] = m_lifetime + now
        /\ \A h \in Keys : h # k => recorded'[h] = recorded[h]
    BY DEF IdsInv
  <1>2. x \in Ids!UniqueId /\ x.key = k /\ x.m_expire = m_lifetime + now
    BY <1>1 DEF Ids!UniqueId
  <1>3. list \in Seq(Ids!UniqueId) /\ Len(list) \in Nat
    BY DEF Good
  <1> HIDE DEF x
  <1>4. /\ l \in Seq(Ids!UniqueId) /\ Len(l) = Len(list) + 1 /\ l[Len(list) + 1] = x
        /\ \A i \in 1 .. Len(list) : l[i] = list[i]
    BY <1>2, <1>3
  <1>5. m_idCache' = l
    BY DEF x
  <1> HIDE DEF l
  <1>6. \A i \in 1 .. Len(l) : i \in 1 .. Len(list) \/ i = Len(list) + 1
    BY <1>3, <1>4
  <1>7. \A i \in 1 .. Len(list) : list[i].key \in Keys /\ list[i].key # k
    BY <1>3, RecordFields DEF Ids!Known
  <1>8. ASSUME NEW i \in 1 .. Len(l)
        PROVE  l[i].m_expire = recorded'[l[i].key]
    <2>1. CASE i \in 1 .. Len(list)
      BY <1>1, <1>4, <1>7, <2>1 DEF Good, AsRecorded
    <2>2. CASE i = Len(list) + 1
      BY <1>1, <1>2, <1>4, <2>2
    <2> QED
      BY <1>6, <2>1, <2>2
  <1>9. NoTwice(l)
    <2> SUFFICES ASSUME NEW i \in 1 .. Len(l), NEW j \in 1 .. Len(l),
                        l[i].key = l[j].key
                 PROVE  i = j
      BY DEF NoTwice
    <2>1. CASE i \in 1 .. Len(list) /\ j \in 1 .. Len(list)
      BY <1>4, <2>1 DEF Good, NoTwice
    <2>2. CASE i = Len(list) + 1 \/ j = Len(list) + 1
      BY <1>2, <1>4, <1>6, <1>7, <2>2
    <2> QED
      BY <1>6, <2>1, <2>2
  <1>10. ASSUME NEW h \in Keys, recorded'[h] >= now
         PROVE  Ids!Known(l, h)
    <2>1. CASE h = k
      BY <1>2, <1>3, <1>4, <2>1 DEF Ids!Known
    <2>2. CASE h # k
      <3>1. PICK j \in 1 .. Len(list) : list[j].key = h
        BY <1>1, <1>10, <2>2 DEF Good, LiveFound, Ids!Known
      <3>2. j \in 1 .. Len(l) /\ l[j] = list[j]
        BY <1>3, <1>4
      <3> QED
        BY <3>1, <3>2 DEF Ids!Known
    <2> QED
      BY <2>1, <2>2
  <1>11. Good(m_idCache)'
    BY <1>4, <1>5, <1>8, <1>9, <1>10 DEF Good, AsRecorded, NoTwice, LiveFound, Ids!Known
  <1> QED
    BY <1>1, <1>11 DEF IdsInv

LEMMA IdsNextInv == IdsInv /\ [Ids!Next]_idVars => IdsInv'
  <1> SUFFICES ASSUME IdsInv, [Ids!Next]_idVars PROVE IdsInv'
    OBVIOUS
  \* A step that purges at most.
  <1>p. ASSUME m_idCache' = Ids!Purge.list, UNCHANGED <<m_lifetime, now, recorded>>
        PROVE  IdsInv'
    BY <1>p, PurgeGood DEF IdsInv, Good, AsRecorded, NoTwice, LiveFound, Ids!Known
  <1>1. ASSUME NEW k \in Keys, Ids!IsDuplicate(k) PROVE IdsInv'
    <2>1. CASE m_idCache' = Ids!Purge.list /\ UNCHANGED <<m_lifetime, now, recorded>>
      BY <1>p, <2>1
    <2>2. CASE /\ ~ Ids!Known(Ids!Purge.list, k)
               /\ m_idCache' = Append(Ids!Purge.list, [key |-> k, m_expire |-> m_lifetime + now])
               /\ recorded' = [recorded EXCEPT ![k] = m_lifetime + now]
               /\ UNCHANGED <<m_lifetime, now>>
      BY <2>2, PurgeGood, RecordAdded
    <2> QED
      BY <1>1, <2>1, <2>2 DEF Ids!IsDuplicate
  <1>2. CASE Ids!GetSize
    BY <1>2, <1>p DEF Ids!GetSize
  <1>3. ASSUME NEW lt \in LifeTimes, Ids!SetLifetime(lt) PROVE IdsInv'
    <2>1. lt \in Nat
      BY IdsAssumption DEF Ids!CacheAssumption
    <2> QED
      BY <1>3, <2>1 DEF Ids!SetLifetime, IdsInv, Good, AsRecorded, NoTwice, LiveFound, Ids!Known
  <1>4. CASE Ids!Tick
    <2>1. UNCHANGED <<m_idCache, m_lifetime, recorded>> /\ now' = now + 1
      BY <1>4 DEF Ids!Tick
    <2>2. \A k \in Keys : recorded[k] >= now + 1 => recorded[k] >= now
      BY DEF IdsInv
    <2> QED
      BY <2>1, <2>2 DEF IdsInv, Good, AsRecorded, NoTwice, LiveFound, Ids!Known
  <1>5. CASE UNCHANGED idVars
    BY <1>5 DEF idVars, IdsInv, Good, AsRecorded, NoTwice, LiveFound, Ids!Known
  <1> QED
    BY <1>1, <1>2, <1>3, <1>4, <1>5 DEF Ids!Next

\* IsDuplicate and Purge of IdCache: for every set of ids and every sequence of
\* calls and lifetimes, an id within its lifetime is in the cache, once and with
\* the expiry it was recorded with, also after a purge that threw.
THEOREM LiveIdsAreKnown == LimitsSpec => []LiveIdsKnown
  <1>1. LimitsInit => IdsInv
    BY IdsInitInv DEF LimitsInit
  <1>2. IdsInv /\ [LimitsNext]_<<which, vars, idVars>> => IdsInv'
    <2> SUFFICES ASSUME IdsInv, [LimitsNext]_<<which, vars, idVars>> PROVE IdsInv'
      OBVIOUS
    <2>1. [Ids!Next]_idVars
      BY DEF LimitsNext
    <2> QED
      BY <2>1, IdsNextInv
  <1>3. IdsInv => LiveIdsKnown
    <2> SUFFICES ASSUME IdsInv, NEW k \in Keys, recorded[k] >= now
                 PROVE  \E i \in 1 .. Len(m_idCache) :
                          /\ m_idCache[i] = [key |-> k, m_expire |-> recorded[k]]
                          /\ \A j \in 1 .. Len(m_idCache) : m_idCache[j].key = k => j = i
      BY DEF LiveIdsKnown, Ids!LiveIdsKnown
    <2>1. PICK i \in 1 .. Len(m_idCache) : m_idCache[i].key = k
      BY DEF IdsInv, Good, LiveFound, Ids!Known
    <2>2. m_idCache[i] = [key |-> k, m_expire |-> recorded[k]]
      BY <2>1, RecordFields DEF IdsInv, Good, AsRecorded
    <2> QED
      BY <2>1, <2>2 DEF IdsInv, Good, NoTwice
  <1> QED
    BY <1>1, <1>2, <1>3, PTL DEF LimitsSpec

=============================================================================
