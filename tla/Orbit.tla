-------------------------------- MODULE Orbit --------------------------------
(***************************************************************************)
(* The constellation of module Constellation with the satellites moving as *)
(* ConstellationHelper::Install places them: on circular orbits of one     *)
(* inclination, with the true anomaly advanced by 360/N degrees from slot  *)
(* to slot and by 360*F/T degrees from plane to plane. The orbit is cut    *)
(* into Ticks equal steps; Zone gives the latitude class of every step.    *)
(* LinkMaintenance runs every Interval steps.                              *)
(***************************************************************************)
EXTENDS Constellation

CONSTANTS
    F,          \* phasing factor (WalkerParams::F)
    Ticks,      \* steps of one orbital period
    Rising,     \* steps from the equator to the polar limit, a quarter's share
    Interval    \* m_linkCheckInterval in steps

ASSUME OrbitAssumption ==
    /\ F \in Nat /\ Ticks \in Nat \ {0} /\ Ticks % (P * N) = 0
    /\ Rising \in Nat /\ 2 * Rising <= Ticks \div 2
    /\ Interval \in Nat \ {0}

VARIABLES
    t,      \* orbital step of the wizard satellite
    due     \* steps until the scheduled LinkMaintenance

orbitVars == <<vars, t, due>>

\* Latitude of a true anomaly: it rises to the limit in Rising steps, stays
\* above it around the pole and comes back, in both hemispheres.
Zone(a) ==
    LET h == a % (Ticks \div 2)
    IN  CASE h < Rising \/ h > (Ticks \div 2) - Rising -> LatLimit - 1
          [] h = Rising \/ h = (Ticks \div 2) - Rising -> LatLimit
          [] OTHER                                     -> LatLimit + 1

\* Mutant: the planes are not phased by 360*F/T but by the slot spacing's half,
\* against the direction of flight.
AnomalyAgainstFlight(n, s) ==
    (s + ((Ticks - ((Ticks * F) \div (P * N))) * n[1]) + ((Ticks \div N) * n[2])) % Ticks

\* The element set of satellite n: m_allocateElement.f.
Anomaly(n, s) ==
    (s + (((Ticks * F) \div (P * N)) * n[1]) + ((Ticks \div N) * n[2])) % Ticks

LatAt(s) == [n \in Nodes |-> Zone(Anomaly(n, s))]

OrbitInit ==
    /\ t \in 0 .. Ticks - 1
    /\ due = Interval
    /\ Start
    /\ lat = LatAt(t)

Fly ==
    /\ phase = "idle" /\ due > 0
    /\ t' = (t + 1) % Ticks
    /\ due' = due - 1
    /\ lat' = LatAt(t')
    /\ UNCHANGED <<w, phase, cursor>>

\* The maintenance event fires when it is due and schedules the next one.
ScheduledMaintenance ==
    /\ phase = "idle" => due = 0
    /\ Maintenance
    /\ due' = IF phase' = "idle" THEN Interval ELSE due
    /\ UNCHANGED t

OrbitNext ==
    \/ Fly
    \/ LinkConfig /\ UNCHANGED <<t, due>>
    \/ ScheduledMaintenance
    \/ (\E d \in Devices : SendBreaksLink(d)) /\ UNCHANGED <<t, due>>

OrbitSpec == OrbitInit /\ [][~ w.ub /\ OrbitNext]_orbitVars

\* Right after a pass a link is up exactly when neither of its satellites is
\* recorded as over the pole: links broken by a send are all found again.
LinksFollowPolar ==
    phase = "idle" /\ due = Interval =>
       \A n \in {m \in Nodes : HasRight(m)} :
          LinkIsUp(n) <=> {n, RightOf(n)} \cap w.overPolar = {}

\* The moving constellation is one that module Constellation describes, and its
\* motion is staggered: positions change between events only, and no satellite
\* leaves the polar region next to one that still has its other link down.
ImplementsStaggered == StaggeredSpec

-----------------------------------------------------------------------------
(* When a motion is staggered: conditions on the constants. Between two     *)
(* passes a satellite keeps the record the last pass left; at the limit     *)
(* itself that may be either.                                               *)

NextPass(s) == (s + Interval) % Ticks

\* After a pass at step s satellite n may be recorded as over the pole, and it
\* may be not recorded.
MayBeOver(s, n) == LatAt(s)[n] >= LatLimit

MayBeClear(s, n) == LatAt(s)[n] <= LatLimit

\* The same for a satellite that the pass after it has visited.
MayBeOverNext(s, n) ==
    LatAt(NextPass(s))[n] > LatLimit \/ (LatAt(NextPass(s))[n] = LatLimit /\ MayBeOver(s, n))

MayBeClearNext(s, n) ==
    LatAt(NextPass(s))[n] < LatLimit \/ (LatAt(NextPass(s))[n] = LatLimit /\ MayBeClear(s, n))

\* A satellite that comes above the limit between two passes is still there when
\* the second one looks.
CrossingsAreSeen ==
    \A s \in 0 .. Ticks - 1, e \in 0 .. Interval - 1 : \A n \in Nodes :
       MayBeClear(s, n) /\ LatAt((s + e) % Ticks)[n] > LatLimit =>
          LatAt((s + e + 1) % Ticks)[n] > LatLimit

\* When the pass after step s finds that satellite n left the polar region, a
\* neighbour that is not recorded has its own other neighbour out of the region
\* as well. The pass visits the plane on the left before n, the one on the
\* right after it.
LeavesCleanly(s, n) ==
    /\ HasLeft(n) /\ HasLeft(LeftOf(n)) /\ MayBeClearNext(s, LeftOf(n)) =>
          ~ MayBeOverNext(s, LeftOf(LeftOf(n)))
    /\ HasRight(n) /\ HasRight(RightOf(n)) /\ MayBeClear(s, RightOf(n)) =>
          /\ ~ MayBeOver(s, RightOf(RightOf(n)))
          /\ \A m \in {RightOf(n), RightOf(RightOf(n))} : LatAt(NextPass(s))[m] <= LatLimit

PlanesLeaveInTurn ==
    \A s \in 0 .. Ticks - 1 : \A n \in Nodes :
       MayBeOver(s, n) /\ LatAt(NextPass(s))[n] < LatLimit => LeavesCleanly(s, n)

CheckedOften == CrossingsAreSeen /\ PlanesLeaveInTurn

\* Zone speaks of latitude classes that exist.
ThreeZones == LatLimit >= 1 /\ LatLimit < MaxLat

\* Figures that meet these conditions: a check for every step by which a plane
\* is ahead of the one before it, and a polar region and a low region that are
\* wide enough, the one for a phase or an interval and the other for two
\* phases and an interval.
PlanePhase == (Ticks * F) \div (P * N)

HalfOrbit == Ticks \div 2

CheckedInPhase ==
    /\ Ticks % 2 = 0
    /\ Interval <= PlanePhase
    /\ 2 * PlanePhase + Interval <= 2 * Rising
    /\ PlanePhase + 2 * Rising <= HalfOrbit
    /\ Interval + 2 * Rising < HalfOrbit

=============================================================================
