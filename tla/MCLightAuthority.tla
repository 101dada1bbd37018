--------------------------- MODULE MCLightAuthority ---------------------------
(* A small instance of LightAuthority.tla: its runs are alike.               *)
EXTENDS LightAuthority, TLC

Symmetry == Permutations(Runs)
=============================================================================
