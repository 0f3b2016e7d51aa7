----------------------------- MODULE MCRoutingTable -----------------------------
(* Three destinations, walked in the order d1, d2, d3.                         *)
EXTENDS RoutingTable

CONSTANTS d1, d2, d3

MCAddresses == {d1, d2, d3}
MCRank == [a \in MCAddresses |-> CASE a = d1 -> 1 [] a = d2 -> 2 [] a = d3 -> 3]
=============================================================================
