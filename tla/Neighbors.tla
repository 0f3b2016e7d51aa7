-------------------------------- MODULE Neighbors --------------------------------
(* The AODV neighbour list (Neighbors.java): who was heard recently, closed by  *)
(* silence or by a transmission error of the link layer, with a callback to the *)
(* protocol for each closed link.                                               *)
(*                                                                              *)
(* Purge ends by restarting its timer, and Timer.Cancel() dereferences the      *)
(* future of the last Schedule(), which is null as long as nothing was          *)
(* scheduled.  The model keeps that future in res.                              *)
EXTENDS JavaCollections, FiniteSets

CONSTANTS Refs,           \* Ipv4Address objects, compared with ==
          Macs,             \* hardware addresses the ARP caches know
          NoMac,            \* new Mac48Address()
          LifeTime,         \* expiry given to Update, in ticks
          MaxTicks,         \* bound: the clock
          MaxCalls          \* bound: link failures reported per neighbour

NeighborsAssumption ==
  LifeTime \in Nat /\ MaxTicks \in Nat /\ MaxCalls \in Nat /\ NoMac \notin Macs

VARIABLES m_nb,             \* the neighbours, in the order they were heard first
          handler,            \* m_handleLinkFailure is set
          res,                \* the ScheduledFuture of m_ntimer: "null" or "pending"
          now,
          failures,           \* per neighbour: calls of the link failure callback
          removed,            \* per neighbour: removals while a handler was set
          last                \* the last call and how it ended

vars == <<m_nb, handler, res, now, failures, removed, last>>

Neighbor == [m_neighborAddress : Refs, m_hardwareAddress : Macs \union {NoMac},
             m_expireTime : Nat, close : BOOLEAN]

\* Mutant: a neighbour is closed one tick early.
CloseNeighborEarly(nb) == nb.m_expireTime <= now \/ nb.close

\* CloseNeighbor
CloseNeighbor(nb) == nb.m_expireTime < now \/ nb.close

Closed(list) == {list[i].m_neighborAddress : i \in Matches(list, CloseNeighbor)}

\* Update, the loop: the neighbour with this address object.
Find(list, r) == FirstMatch(list, LAMBDA nb : nb.m_neighborAddress = r)

\* Mutant: links closed by the link layer are not reported.
ReportedExpired(list) ==
  {list[i].m_neighborAddress : i \in Matches(list, LAMBDA nb : nb.m_expireTime < now)}

\* Purge, the first walk: every closed neighbour is reported.
Reported(list) == Closed(list)

\* Purge of a list that is not empty: report, remove, restart the timer.  The
\* second walk ends in an exception unless the removed neighbour was the last
\* but one; if it ends, Cancel() throws while there is no future.
Purge(op, list) ==
  LET sweep == ArraySweep(list, CloseNeighbor)
  IN  IF list = <<>>
        THEN m_nb' = list /\ last' = [op |-> op, out |-> "ok"] /\ UNCHANGED <<failures, removed, res>>
        ELSE /\ failures' = [r \in Refs |->
                  failures[r] + IF handler /\ r \in Reported(list) THEN 1 ELSE 0]
             /\ m_nb' = sweep.list
             /\ removed' = [r \in Refs |->
                  removed[r] + IF handler /\ Find(sweep.removed, r) # 0 THEN 1 ELSE 0]
             /\ IF sweep.throws
                  THEN last' = [op |-> op, out |-> "ConcurrentModification"] /\ UNCHANGED res
                  ELSE IF res = "null"
                    THEN last' = [op |-> op, out |-> "NullPointer"] /\ UNCHANGED res
                    ELSE last' = [op |-> op, out |-> "ok"] /\ res' = "pending"

Init ==
  /\ m_nb = <<>> /\ handler = FALSE /\ res = "null" /\ now = 0
  /\ failures = [r \in Refs |-> 0] /\ removed = [r \in Refs |-> 0]
  /\ last = [op |-> "none", out |-> "ok"]

Bounded == \A r \in Refs : failures[r] < MaxCalls

\* IsNeighbor and GetExpireTime: both purge first.  GetExpireTime also writes the
\* time left into the neighbour it finds, but no Purge of a list with a
\* neighbour in it returns.
IsNeighbor == Bounded /\ Purge("IsNeighbor", m_nb) /\ UNCHANGED <<handler, now>>

\* Time.MAX
Later(a, b) == IF a < b THEN b ELSE a

\* Update; mac is what LookupMacAddress finds, NoMac for nothing.
Update(r, mac) ==
  LET i == Find(m_nb, r)
  IN  /\ Bounded
      /\ IF i # 0
           THEN /\ m_nb' = [m_nb EXCEPT
                     ![i].m_expireTime = Later(LifeTime + now, m_nb[i].m_expireTime),
                     ![i].m_hardwareAddress = IF m_nb[i].m_hardwareAddress = NoMac
                                                THEN mac ELSE m_nb[i].m_hardwareAddress]
                /\ last' = [op |-> "Update", out |-> "ok"]
                /\ UNCHANGED <<failures, removed, res>>
           ELSE Purge("Update", Append(m_nb, [m_neighborAddress |-> r,
                  m_hardwareAddress |-> mac, m_expireTime |-> LifeTime + now,
                  close |-> FALSE]))
      /\ UNCHANGED <<handler, now>>

\* ProcessTxError: closes every neighbour behind this hardware address.
ProcessTxError(mac) ==
  /\ Bounded
  /\ Purge("ProcessTxError",
       [i \in 1..Len(m_nb) |->
          IF m_nb[i].m_hardwareAddress = mac
            THEN [m_nb[i] EXCEPT !.close = TRUE] ELSE m_nb[i]])
  /\ UNCHANGED <<handler, now>>

\* ScheduleTimer: Cancel() before the first Schedule().
ScheduleTimer ==
  /\ IF res = "null"
       THEN last' = [op |-> "ScheduleTimer", out |-> "NullPointer"] /\ UNCHANGED res
       ELSE last' = [op |-> "ScheduleTimer", out |-> "ok"] /\ res' = "pending"
  /\ UNCHANGED <<m_nb, handler, now, failures, removed>>

\* Clear
Clear ==
  /\ m_nb' = <<>>
  /\ last' = [op |-> "Clear", out |-> "ok"]
  /\ UNCHANGED <<handler, res, now, failures, removed>>

\* SetCallback
SetCallback ==
  /\ handler' = TRUE
  /\ last' = [op |-> "SetCallback", out |-> "ok"]
  /\ UNCHANGED <<m_nb, res, now, failures, removed>>

Tick ==
  /\ now < MaxTicks
  /\ now' = now + 1
  /\ last' = [op |-> "Tick", out |-> "ok"]
  /\ UNCHANGED <<m_nb, handler, res, failures, removed>>

Next ==
  \/ IsNeighbor
  \/ \E r \in Refs, mac \in Macs \union {NoMac} : Update(r, mac)
  \/ \E mac \in Macs : ProcessTxError(mac)
  \/ ScheduleTimer
  \/ Clear
  \/ SetCallback
  \/ Tick

Spec == Init /\ [][Next]_vars

----------------------------------------------------------------------------
(* Properties *)

\* Once the protocol has set its handler, no neighbour leaves the list without
\* the handler having been told of its failure, whichever walk was cut short.
NoSilentRemoval == \A r \in Refs : removed[r] <= failures[r]

\* A neighbour heard within its lifetime and not closed by the link layer is
\* never removed by a lookup or an update, nor reported.
LiveNeighborsKept ==
  [][ last'.op \in {"IsNeighbor", "Update"}
        => \A i \in 1..Len(m_nb) :
             (m_nb[i].m_expireTime >= now /\ ~m_nb[i].close)
               => /\ Find(m_nb', m_nb[i].m_neighborAddress) # 0
                  /\ failures'[m_nb[i].m_neighborAddress] = failures[m_nb[i].m_neighborAddress]
    ]_vars
=============================================================================
