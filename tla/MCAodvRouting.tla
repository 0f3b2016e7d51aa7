----------------------------- MODULE MCAodvRouting -----------------------------
(* Two addresses, each a neighbour, a destination and an originator.           *)
EXTENDS AodvRouting

CONSTANTS A, B, a1, b1

MCAddresses == {A, B}
MCRank == [a \in MCAddresses |-> IF a = A THEN 1 ELSE 2]
MCRefs == {a1, b1}
MCAddr == [r \in MCRefs |-> IF r = b1 THEN B ELSE A]
=============================================================================
