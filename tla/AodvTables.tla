------------------------------- MODULE AodvTables -------------------------------
(* The tables of an AODV node: routes, packets that wait for one, neighbours.   *)
(* They share no state, so each behaviour is one of one table.                  *)
EXTENDS RoutingTable

CONSTANTS Packets, Uid, NoUid, HeaderRefs, HeaderAddr, MaxLens, QueueTimeout, MaxOffers,
          QueueTicks, MaxTimeouts,
          NeighborRefs, Macs, NoMac, NeighborLifeTime, NeighborTicks, MaxCalls

VARIABLES which,
          m_queue, heap, m_queueTimeout, m_maxLen, qNow, errored, taken, accepted, serial,
          lastTaken, qLast,
          m_nb, handler, res, nbNow, failures, removed, nbLast

Queue == INSTANCE RequestQueue WITH
    Refs <- HeaderRefs, Addr <- HeaderAddr,
    Timeout <- QueueTimeout, MaxTicks <- QueueTicks, now <- qNow, last <- qLast

Nb == INSTANCE Neighbors WITH
    Refs <- NeighborRefs, LifeTime <- NeighborLifeTime, MaxTicks <- NeighborTicks,
    now <- nbNow, last <- nbLast

ASSUME TablesAssumption == Queue!QueueAssumption /\ Nb!NeighborsAssumption

queueVars == <<m_queue, heap, m_queueTimeout, m_maxLen, qNow, errored, taken, accepted,
               serial, lastTaken, qLast>>
nbVars    == <<m_nb, handler, res, nbNow, failures, removed, nbLast>>

TablesInit ==
    /\ which \in {"routes", "queue", "neighbors"}
    /\ Init /\ Queue!Init /\ Nb!Init
    \* a queue that is not looked at has no choices either
    /\ which # "queue" => m_maxLen = CHOOSE len \in MaxLens : TRUE

TablesNext ==
    /\ UNCHANGED which
    /\ \/ which = "routes" /\ Next /\ UNCHANGED <<queueVars, nbVars>>
       \/ which = "queue" /\ Queue!Next /\ UNCHANGED <<vars, nbVars>>
       \/ which = "neighbors" /\ Nb!Next /\ UNCHANGED <<vars, queueVars>>

TablesSpec == TablesInit /\ [][TablesNext]_<<which, vars, queueVars, nbVars>>

-----------------------------------------------------------------------------
\* RequestQueue: every packet is queued, reported or handed out, once.
EveryPacketAccounted == Queue!EveryPacketAccounted

\* RequestQueue: Dequeue serves each destination in the order of arrival.
OldestFirst == Queue!OldestFirst

\* Neighbors: no neighbour leaves the list without a call of the handler.
NoSilentRemoval == Nb!NoSilentRemoval

\* Neighbors: a neighbour that is alive is neither removed nor reported.
LiveNeighborsKept == Nb!LiveNeighborsKept
=============================================================================
