----------------------- MODULE MCVerifiedSafetyStore -----------------------
(* VerifiedSafetyStore for TLC: the bounds are given in the .cfg files.      *)

EXTENDS VerifiedSafetyStore

\* Which damages a run allows.
NotJson == {Corrupt}
WrongPayload == {Invalid}
AnyDamage == {Corrupt, Invalid}
=============================================================================
