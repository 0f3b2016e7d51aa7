------------------------------ MODULE RoutingTable ------------------------------
(* The AODV routing table under every sequence of calls of its public methods. *)
EXTENDS RoutingTableOps

CONSTANTS Ifaces,         \* Ipv4InterfaceAddress objects, compared with ==
          LifeTimes,        \* lifetimes given to new and updated routes, in ticks
          MaxCnt,           \* m_reqCount of a route still searched for
          Epoch,            \* the clock at start, above every lifetime
          MaxTicks          \* bound: clock ticks

ASSUME TableAssumption ==
  /\ LifeTimes \subseteq Nat /\ MaxCnt \in Nat /\ Epoch \in Nat /\ MaxTicks \in Nat
  /\ \A t \in LifeTimes \union {BadLinkLifetime} : t < Epoch

VARIABLES due,            \* per destination: the deadline its entry was given
          last              \* the last call and its outcome

vars == <<m_ipv4AddressEntry, now, due, last>>

Entry == [m_flag : RouteFlags, m_lifeTime : Int, m_reqCount : {0, MaxCnt},
          m_iface : Ifaces]

\* The calls the properties tell apart.
Purging == <<"purging">>
Other == <<"other">>

\* A call op ends with outcome out and leaves table t; an invalidation gives
\* the entry a new deadline.
Done(op, out, t) ==
  /\ m_ipv4AddressEntry' = t
  /\ last' = [op |-> op, out |-> out]
  /\ UNCHANGED now

Deadlines(t) ==
  [k \in Addresses |->
     IF k \in DOMAIN t /\ k \in DOMAIN table
        /\ t[k].m_flag = "INVALID" /\ table[k].m_flag # "INVALID"
       THEN now + BadLinkLifetime
       ELSE IF k \in DOMAIN t THEN due[k] ELSE 0]

\* A call that starts with Purge: after an exception nothing else happens.
AfterPurge(op, Rest(_)) ==
  LET pg == Purge(table)
  IN  IF pg.throws
        THEN Done(op, "exception", pg.table) /\ due' = Deadlines(pg.table)
        ELSE Rest(pg.table)

\* The constructor of RoutingTableEntry, and SetLifeTime on a copy.
NewEntry(flag, cnt, iface, lt) ==
  [m_flag |-> flag, m_lifeTime |-> now + lt, m_reqCount |-> cnt, m_iface |-> iface]

----------------------------------------------------------------------------
(* Operations *)

Init ==
  /\ m_ipv4AddressEntry = NoRoutes
  /\ now = Epoch
  /\ due = [k \in Addresses |-> 0]
  /\ last = [op |-> Other, out |-> "ok"]

\* AddRoute of an entry e that was given the lifetime lt.
AddRoute(dst, e, lt) ==
  AfterPurge(Purging, LAMBDA t :
    /\ Done(Purging, "true", Put(t, dst, Stored(e)))
    /\ due' = [Deadlines(t) EXCEPT ![dst] = now + lt])

\* DeleteRoute
DeleteRoute(dst) ==
  AfterPurge(Other, LAMBDA t :
    /\ Done(Other, IF dst \in DOMAIN t THEN "true" ELSE "false", Remove(t, dst))
    /\ due' = Deadlines(Remove(t, dst)))

\* LookupRoute: the caller gets a copy.
LookupRoute(dst) ==
  AfterPurge(Purging, LAMBDA t :
    /\ Done(Purging, IF dst \in DOMAIN t THEN "true" ELSE "false", t)
    /\ due' = Deadlines(t))

\* LookupValidRoute
LookupValidRoute(dst) ==
  AfterPurge(Purging, LAMBDA t :
    /\ Done(Purging, IF dst \in DOMAIN t /\ t[dst].m_flag = "VALID"
                       THEN "true" ELSE "false", t)
    /\ due' = Deadlines(t))

\* Update with a changed copy e whose SetLifeTime was called with lt.
Update(dst, e, lt) ==
  IF dst \in DOMAIN table
    THEN /\ Done(Other, "true", Put(table, dst, Stored(e)))
         /\ due' = [due EXCEPT ![dst] = now + lt]
    ELSE Done(Other, "false", table) /\ UNCHANGED due

\* SetEntryState
SetEntryState(dst, state) ==
  /\ IF dst \in DOMAIN table
       THEN Done(Other, "true",
                 [table EXCEPT ![dst].m_flag = state, ![dst].m_reqCount = 0])
       ELSE Done(Other, "false", table)
  /\ UNCHANGED due

\* GetListOfDestinationWithNextHop: only its Purge changes the table.
GetListOfDestinationWithNextHop ==
  AfterPurge(Purging, LAMBDA t : Done(Purging, "ok", t) /\ due' = Deadlines(t))

\* InvalidateRoutesWithDst
InvalidateRoutesWithDst(unreachable) ==
  LET op == <<"InvalidateRoutesWithDst", unreachable>>
  IN  AfterPurge(op, LAMBDA t :
        /\ Done(op, "ok", Invalidated(t, unreachable))
        /\ due' = Deadlines(Invalidated(t, unreachable)))

\* DeleteAllRoutesFromInterface: no Purge, and a removal inside the walk.
DeleteAllRoutesFromInterface(iface) ==
  LET op    == <<"DeleteAllRoutesFromInterface", iface>>
      found == {k \in DOMAIN table : table[k].m_iface = iface}
  IN  /\ IF found = {}
           THEN Done(op, "ok", table)
           ELSE Done(op, IF StopsEarly(table, FirstOf(found)) THEN "exception" ELSE "ok",
                     Remove(table, FirstOf(found)))
      /\ due' = Deadlines(table')

\* Clear
Clear == Done(Other, "ok", NoRoutes) /\ due' = [k \in Addresses |-> 0]

\* Purge, called on its own.
PurgeCall ==
  AfterPurge(Purging, LAMBDA t : Done(Purging, "ok", t) /\ due' = Deadlines(t))

\* MarkLinkAsUnidirectional: its blacklist fields are AodvRouting's.
MarkLinkAsUnidirectional(neighbor) ==
  /\ IF neighbor \in DOMAIN table
       THEN Done(Other, "true", [table EXCEPT ![neighbor].m_reqCount = 0])
       ELSE Done(Other, "false", table)
  /\ UNCHANGED due

\* The clock.
Tick ==
  /\ now < Epoch + MaxTicks
  /\ now' = now + 1
  /\ last' = [op |-> Other, out |-> "ok"]
  /\ UNCHANGED <<m_ipv4AddressEntry, due>>

Next ==
  \/ \E dst \in Addresses, flag \in {"VALID", "IN_SEARCH"}, cnt \in {0, MaxCnt},
        i \in Ifaces, lt \in LifeTimes :
       \/ AddRoute(dst, NewEntry(flag, cnt, i, lt), lt)
       \/ Update(dst, NewEntry(flag, cnt, i, lt), lt)
  \/ \E dst \in Addresses :
       \/ DeleteRoute(dst)
       \/ LookupRoute(dst)
       \/ LookupValidRoute(dst)
       \/ \E state \in RouteFlags : SetEntryState(dst, state)
       \/ MarkLinkAsUnidirectional(dst)
  \/ GetListOfDestinationWithNextHop
  \/ \E u \in SUBSET Addresses : InvalidateRoutesWithDst(u)
  \/ \E i \in Ifaces : DeleteAllRoutesFromInterface(i)
  \/ Clear
  \/ PurgeCall
  \/ Tick

Spec == Init /\ [][Next]_vars

----------------------------------------------------------------------------
(* Properties *)

\* The table and its entries have their types.
TypeOK ==
  /\ DOMAIN table \subseteq Addresses
  /\ \A k \in DOMAIN table : table[k] \in Entry
  /\ now \in Epoch..(Epoch + MaxTicks)
  /\ due \in [Addresses -> Nat]
  /\ last.out \in {"ok", "true", "false", "exception"}

\* Only a route still searched for counts requests.  The protocol gives up a
\* search when this count reaches RreqRetries; a count left behind by an earlier
\* search, through any chain of invalidation, update and removal, would end the
\* next search early.
CountOnlyInSearch ==
  \A k \in DOMAIN table : table[k].m_reqCount # 0 => table[k].m_flag = "IN_SEARCH"

\* InvalidateRoutesWithDst, when it returns, leaves none of the broken
\* destinations valid: a RERR that was sent for them told the truth.
BrokenRoutesInvalid ==
  \A u \in SUBSET Addresses :
    last = [op |-> <<"InvalidateRoutesWithDst", u>>, out |-> "ok"]
      => \A k \in DOMAIN table \intersect u : table[k].m_flag # "VALID"

\* No walk drops a route that was in use: whatever leaves the table without
\* being deleted by its caller was INVALID before, so a valid route always stays
\* for its delete period as an invalid one.
OnlyInvalidPurged ==
  [][ last'.op # Other /\ last'.op \notin {<<"DeleteAllRoutesFromInterface", i>> : i \in Ifaces}
        => \A k \in DOMAIN table \ DOMAIN table' : table[k].m_flag = "INVALID" ]_vars

----------------------------------------------------------------------------
(* What the documentation says and the code does not do *)

\* RoutingTable.java:237, "Delete all outdated entries and invalidate valid
\* entry if Lifetime is expired": no purge invalidates a route before the
\* deadline it was given.
ValidUntilDue ==
  [][ last' = [op |-> Purging, out |-> "ok"]
        => \A k \in DOMAIN table \intersect DOMAIN table' :
             (table[k].m_flag = "VALID" /\ table'[k].m_flag = "INVALID") => due[k] < now ]_vars

=============================================================================
