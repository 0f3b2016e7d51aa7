---------------------------- MODULE Constellation ----------------------------
(***************************************************************************)
(* ConstellationHelper: the inter-plane laser links of a Walker            *)
(* constellation. LinkConfig builds them, LinkMaintenance runs every       *)
(* m_linkCheckInterval and breaks or restores the links of satellites that *)
(* crossed the latitude limit, and a packet sent on a temporary link       *)
(* breaks it at once when either end is above the limit (the disconnect    *)
(* callback that OpticalChannel::LatitudeCheck makes into the helper).     *)
(*                                                                         *)
(* The simulator runs one event at a time. The loops of LinkConfig and of  *)
(* LinkMaintenance are unrolled into one step per satellite, and no other  *)
(* action is enabled until the loop ends, so they stay atomic for          *)
(* everybody else.                                                         *)
(***************************************************************************)
EXTENDS Wiring

CONSTANTS
    LatLimit,   \* lat_limit; latitudes are abstracted to their order
    MaxLat      \* the highest latitude class

ASSUME LatitudeAssumption == LatLimit \in Nat /\ MaxLat \in Nat

VARIABLES
    w,          \* the wiring record of module Wiring
    lat,        \* latitude of every satellite
    phase,      \* the event being executed: "config", "scan" or "idle"
    cursor      \* satellite the loop is at; NULL outside the loops

vars == <<w, lat, phase, cursor>>

Phases == {"config", "scan", "idle"}

TypeOK ==
    /\ w \in WiringType
    /\ lat \in [Nodes -> 0 .. MaxLat]
    /\ phase \in Phases
    /\ cursor \in Nodes \cup {NULL}

Polar == {n \in Nodes : lat[n] > LatLimit}

\* The order of LinkConfig: planes 0 .. P-2 inside, slots outside.
AfterInConfig(n) ==
    CASE n[1] < P - 2                    -> <<n[1] + 1, n[2]>>
      [] n[1] >= P - 2 /\ n[2] < N - 1  -> <<0, n[2] + 1>>
      [] OTHER                           -> NULL

\* The order of LinkMaintenance: by node id.
AfterInScan(n) ==
    CASE n[2] < N - 1                    -> <<n[1], n[2] + 1>>
      [] n[2] = N - 1 /\ n[1] < P - 1   -> <<n[1] + 1, 0>>
      [] OTHER                           -> NULL

Start ==
    /\ w = RingWiring
    /\ phase = "config"
    /\ cursor = IF P > 1 THEN <<0, 0>> ELSE NULL

Init == Start /\ lat \in [Nodes -> 0 .. MaxLat]

\* One iteration of the temporary-link loop of LinkConfig.
LinkConfig ==
    /\ phase = "config"
    /\ cursor # NULL
    /\ w' = ConfigureCross(w, cursor, Polar)
    /\ cursor' = AfterInConfig(cursor)
    /\ UNCHANGED <<lat, phase>>

\* The last line of LinkConfig and of LinkMaintenance: the next pass is
\* scheduled and control returns to the simulator.
EndOfEvent ==
    /\ phase \in {"config", "scan"}
    /\ cursor = NULL
    /\ phase' = "idle"
    /\ UNCHANGED <<w, lat, cursor>>

\* The scheduled LinkMaintenance event fires.
LinkMaintenance ==
    /\ phase = "idle"
    /\ phase' = "scan"
    /\ cursor' = <<0, 0>>
    /\ UNCHANGED <<w, lat>>

Visiting == phase = "scan" /\ cursor # NULL

Advance == cursor' = AfterInScan(cursor) /\ UNCHANGED <<lat, phase>>

\* The satellite came above the limit since the last pass.
VisitEntering ==
    /\ Visiting
    /\ lat[cursor] > LatLimit /\ cursor \notin w.overPolar
    /\ w' = EnterPolar(w, cursor)
    /\ Advance

\* The satellite came below the limit since the last pass.
VisitLeaving ==
    /\ Visiting
    /\ lat[cursor] < LatLimit /\ cursor \in w.overPolar
    /\ w' = LeavePolar(w, cursor)
    /\ Advance

\* Nothing to do, also when the latitude equals the limit.
VisitUnchanged ==
    /\ Visiting
    /\ ~ (lat[cursor] > LatLimit /\ cursor \notin w.overPolar)
    /\ ~ (lat[cursor] < LatLimit /\ cursor \in w.overPolar)
    /\ UNCHANGED w
    /\ Advance

\* Mutant: only the first end is looked at.
OverLimitFirstEnd(c) == lat[w.devList[c][1][1]] > LatLimit

\* LatitudeCheck of a temporary channel with one end above the limit.
OverLimit(c) == \E d \in Ends(w, c) : lat[d[1]] > LatLimit

\* A packet is sent from terminal d and LatitudeCheck breaks the link.
SendBreaksLink(d) ==
    /\ phase = "idle"
    /\ w.channel[d] \in CrossChannels
    /\ OverLimit(w.channel[d])
    /\ LET c == w.channel[d]
       IN  w' = DisConnect(w, w.devList[c][1], w.devList[c][2], c)
    /\ UNCHANGED <<lat, phase, cursor>>

\* Time passes between two events and the satellites move, anywhere.
Move ==
    /\ phase = "idle"
    /\ lat' \in [Nodes -> 0 .. MaxLat] \ {lat}
    /\ UNCHANGED <<w, phase, cursor>>

Maintenance ==
    LinkMaintenance \/ VisitEntering \/ VisitLeaving \/ VisitUnchanged \/ EndOfEvent

\* After undefined behaviour nothing more is said about the program.
Undefined == w.ub /\ UNCHANGED vars

Next ==
    \/ ~ w.ub /\ LinkConfig
    \/ ~ w.ub /\ Maintenance
    \/ ~ w.ub /\ \E d \in Devices : SendBreaksLink(d)
    \/ ~ w.ub /\ Move
    \/ Undefined

Spec == Init /\ [][Next]_vars

-----------------------------------------------------------------------------
(* Properties that hold for every motion of the satellites.                *)

\* A terminal with a channel is one of its two ends, the other end is there
\* too and the channel is not in the pool: OpticalChannel::Send, LatitudeCheck
\* and GetDelay, which dereference both places of dev_list unchecked, and the
\* DisConnect calls of LinkMaintenance never meet a null terminal.
SendFindsBothEnds ==
    \A d \in Devices :
       w.channel[d] # NULL =>
          /\ w.linkUp[d]
          /\ d \in Ends(w, w.channel[d])
          /\ NULL \notin Ends(w, w.channel[d])
          /\ \A i \in 1 .. Len(w.unused) : w.unused[i] # w.channel[d]

\* unused_link never holds a channel twice and never one that still has a
\* terminal, so a Connect never puts two links on one channel.
PoolIsFree ==
    /\ \A i, j \in 1 .. Len(w.unused) : w.unused[i] = w.unused[j] => i = j
    /\ \A i \in 1 .. Len(w.unused) : Ends(w, w.unused[i]) = {NULL}

-----------------------------------------------------------------------------
(* Properties that depend on how the satellites move: see CleanLeave.      *)

\* Both ends of a channel in use regard it as theirs: no terminal serves two
\* channels at a time, and none is lost from the pool.
NoDoubleBooking ==
    \A c \in CrossChannels : \A d \in Ends(w, c) \ {NULL} : w.channel[d] = c

\* An inter-plane link joins the right terminal of a satellite to the left
\* terminal of the satellite in the same slot of the next plane, as LinkConfig
\* wires it: maintenance never cross-wires the constellation.
NeighbourWiring ==
    \A n \in Nodes :
       /\ w.channel[R(n)] # NULL =>
             HasRight(n) /\ GetAnother(w, w.channel[R(n)], R(n)) = L(RightOf(n))
       /\ w.channel[L(n)] # NULL =>
             HasLeft(n) /\ GetAnother(w, w.channel[L(n)], L(n)) = R(LeftOf(n))

LinkIsUp(n) == w.channel[R(n)] # NULL /\ w.channel[R(n)] = w.channel[L(RightOf(n))]

LinkIsDown(n) ==
    /\ w.channel[R(n)] = NULL /\ w.channel[L(RightOf(n))] = NULL
    /\ R(n) \in w.breakedR /\ L(RightOf(n)) \in w.breakedL

\* The record of broken terminals is exact: outside LinkConfig a link is up
\* with neither end recorded as broken, or down with both recorded, so that a
\* later pass finds it.
BreakedIsExact ==
    phase # "config" =>
       \A n \in {m \in Nodes : HasRight(m)} :
          \/ LinkIsDown(n)
          \/ LinkIsUp(n) /\ R(n) \notin w.breakedR /\ L(RightOf(n)) \notin w.breakedL

\* unused_link is never popped when it is empty.
PoolNeverExhausted == ~ w.ub

\* What VisitLeaving relies on: a neighbour that is not over the pole has no
\* other link down.
CleanLeave(n) ==
    /\ HasLeft(n) /\ LeftOf(n) \notin w.overPolar => L(LeftOf(n)) \notin w.breakedL
    /\ HasRight(n) /\ RightOf(n) \notin w.overPolar => R(RightOf(n)) \notin w.breakedR

\* The motion never makes LinkMaintenance find a satellite that left the polar
\* region while a neighbour below the limit still has its other link down: the
\* "leave" branch connects that terminal too.
Staggered ==
    Visiting /\ lat[cursor] < LatLimit /\ cursor \in w.overPolar => CleanLeave(cursor)

\* The constellation under a motion that keeps Staggered.
StaggeredSpec == Init /\ [][Staggered /\ Next]_vars

-----------------------------------------------------------------------------
(* The inductive invariant behind SendFindsBothEnds and PoolIsFree.        *)

\* LinkConfig has not come to satellite n yet.
Pending(n) == n[2] > cursor[2] \/ (n[2] = cursor[2] /\ n[1] >= cursor[1])

\* The links that LinkConfig has still to build are untouched.
PendingUntouched ==
    phase = "config" /\ cursor # NULL =>
       /\ HasRight(cursor)
       /\ \A n \in Nodes :
             HasRight(n) /\ Pending(n) =>
                /\ w.devList[Cross(n)] = <<NULL, NULL>>
                /\ w.channel[R(n)] = NULL /\ w.channel[L(RightOf(n))] = NULL
                /\ \A i \in 1 .. Len(w.unused) : w.unused[i] # Cross(n)

IInv ==
    /\ TypeOK
    /\ WiringSound(w)
    /\ PendingUntouched
    /\ phase = "idle" => cursor = NULL

=============================================================================
