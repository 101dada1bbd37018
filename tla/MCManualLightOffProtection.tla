--------------------- MODULE MCManualLightOffProtection ---------------------
(* ManualLightOffProtection for TLC: one profile, whose settings change its light,
   its scope and what releases it.                                           *)

EXTENDS ManualLightOffProtection

CONSTANTS l1, l2, s1, p1, none, first, second

Permuted == Permutations(Requests)

Policy(mode, source) == [mode |-> mode, manualFallback |-> FALSE, extend |-> TRUE,
                         source |-> source, release |-> TRUE]

OneProfile(lights, policy) == [p \in {p1} |-> [lights |-> lights, sensors |-> {s1},
                                               policy |-> policy]]

ThreeSettings == [doc \in {none, first, second} |->
    CASE doc = none   -> OneProfile({}, Policy("timer_only", FALSE))
      [] doc = first  -> OneProfile({l1}, Policy("timer_and_absence", FALSE))
      [] doc = second -> OneProfile({l2}, Policy("absence_only", FALSE))]
=============================================================================
