-------------------------- MODULE MCDeviceActions --------------------------
(* DeviceActions for TLC.                                                    *)

EXTENDS DeviceActions, TLC

NoDamage == {}
AnyDamage == {Invalid, Corrupt}

\* Keys and fingerprints are opaque and requests have no identity but their own.
Symmetry == Permutations(Keys) \union Permutations(Fingerprints)
            \union Permutations(Requests)
=============================================================================
