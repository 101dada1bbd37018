------------------------ MODULE MCSafeDeviceCommands ------------------------
(* SafeDeviceCommands for TLC.                                               *)

EXTENDS SafeDeviceCommands, TLC

\* Operations and entities are interchangeable.
Symmetry == Permutations(Ops) \union Permutations(Entities)
=============================================================================
