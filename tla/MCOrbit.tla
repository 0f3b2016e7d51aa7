------------------------------- MODULE MCOrbit -------------------------------
(* Orbit for constants that meet the conditions of its theorems.           *)
EXTENDS Orbit

\* The figures of the run are among those that PhaseChecksOften speaks of.
ASSUME FiguresAssumption == ThreeZones /\ CheckedInPhase

=============================================================================
