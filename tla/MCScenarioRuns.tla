---------------------------- MODULE MCScenarioRuns ----------------------------
(* A small instance of ScenarioRuns.tla.                                     *)
EXTENDS ScenarioRuns
CONSTANTS a, b

\* One of the scenarios is queued, the other of each of the modes.
SomeModes == {[s \in Scenarios |-> IF s = a THEN m ELSE "queued"] : m \in Modes}
=============================================================================
