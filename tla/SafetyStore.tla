---------------------------- MODULE SafetyStore ----------------------------
(* What a verified safety store promises its client, without files: the
   abstract specification of VerifiedSafetyStore.tla.  Payloads are numbered
   in the order in which they are handed to the store.                       *)

EXTENDS Naturals

CONSTANTS MaxSaves,     \* how many saves are attempted
          MaxDamage     \* how many times a file is damaged from outside

VARIABLES attempted,    \* number of the last payload handed to the store
          committed,    \* number of the last payload acknowledged, 0 if none
          damage,       \* damages so far
          reply         \* answer of the last finished load

vars == <<attempted, committed, damage, reply>>

Replies == [kind : {"unasked", "none", "error"}, doc : {0}, flagged : BOOLEAN]
           \union [kind : {"value"}, doc : 1..MaxSaves, flagged : BOOLEAN]

Init ==
    /\ attempted = 0
    /\ committed = 0
    /\ damage = 0
    /\ reply = [kind |-> "unasked", doc |-> 0, flagged |-> FALSE]

Attempt ==
    /\ attempted < MaxSaves
    /\ attempted' = attempted + 1
    /\ UNCHANGED <<committed, damage, reply>>

\* Only the newest attempt can be acknowledged.
Acknowledge ==
    /\ committed' = attempted
    /\ UNCHANGED <<attempted, damage, reply>>

Damage ==
    /\ damage < MaxDamage
    /\ damage' = damage + 1
    /\ UNCHANGED <<attempted, committed, reply>>

\* An unflagged value is never older than the last acknowledged one; anything
\* else needs a damaged file, and an older value is always flagged.
Load ==
    /\ \/ \E doc \in 1..attempted, flagged \in BOOLEAN :
            /\ flagged \/ doc >= committed
            /\ flagged => damage > 0
            /\ reply' = [kind |-> "value", doc |-> doc, flagged |-> flagged]
       \/ \E flagged \in BOOLEAN :
            /\ committed = 0 \/ damage > 0
            /\ reply' = [kind |-> "none", doc |-> 0, flagged |-> flagged]
       \/ \E flagged \in BOOLEAN :
            /\ damage > 0
            /\ reply' = [kind |-> "error", doc |-> 0, flagged |-> flagged]
    /\ UNCHANGED <<attempted, committed, damage>>

Next == Attempt \/ Acknowledge \/ Damage \/ Load

Spec == Init /\ [][Next]_vars
=============================================================================
