------------------------------ MODULE MCAodvTables ------------------------------
(* Three destinations for the routes. Two packets for the queue: p1 was built   *)
(* from a buffer and carries no id, p2 was built by Packet(); ra and rc are     *)
(* address objects of two addresses.                                            *)
EXTENDS AodvTables, MCRoutingTable

CONSTANTS p1, p2, u2, ra, rc, dstA, dstC

MCPackets == {p1, p2}
MCUid     == [p \in MCPackets |-> IF p = p2 THEN u2 ELSE NoUid]
MCRefs    == {ra, rc}
MCAddr    == [r \in MCRefs |-> IF r = rc THEN dstC ELSE dstA]
=============================================================================
