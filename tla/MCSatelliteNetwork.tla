------------------------- MODULE MCSatelliteNetwork -------------------------
(* SatelliteNetwork with the terminals that send named for TLC. *)
EXTENDS SatelliteNetwork

\* Both ends of the one inter-plane link.
TwoSenders == {R(<<0, 0>>), L(<<1, 0>>)}
=============================================================================
