--------------------------- MODULE LightAuthority ---------------------------
(* Who may switch a light: LightAutomationPriority (application/
   scenario_light_priority.py), the automatic light groups of ScenarioExecutor, the
   reconciler of delayed offs, the listener of manual switching and the actions of
   the app, around one authority lock.

   One light.  A hand may switch it at any time; each transition has its number
   (last_changed).  Its evidence is always fresh.  The obligations are those of
   LightSafetyObligations.tla, with their saves left out.                        *)

EXTENDS Naturals

CONSTANTS Runs,        \* runs of scenarios that light it, wait and switch it off
          Nothing, Free, User, Task,   \* the lock and its other holders
          MaxAttempts, \* MAX_LIGHT_SAFETY_RECONCILE_ATTEMPTS
          MaxRev, MaxGen, MaxFaults    \* transitions; records armed; failed saves, crashes

States == {"on", "off"}
Revs == 0..MaxRev

\* _owned_records and _manual_records of the light: one claim at most.
Claims == [kind : {"automation", "manual"}, rev : Revs]

\* The obligation of the light; "asleep" once it has a task.
Obligations == [gen : 1..MaxGen, rev : Revs, attempt : 0..MaxAttempts, asleep : BOOLEAN]

\* A run: the light and its claim when it planned, the receipt of its last light action
\* ("none" if that was skipped), the record it armed.  "confirmed" is an on that gives
\* the light to automation.
Phases == {"idle", "planned", "guarded", "lock_on", "claim_on", "send_on", "note_on",
           "note_delay", "arm", "lock_off", "check_off", "send_off", "note_off", "failed_off"}
Locked == {"claim_on", "send_on", "note_on", "check_off", "send_off", "note_off", "failed_off"}
RunStates == [pc : Phases, lit : States, rev : Revs, claim : Claims \union {Nothing},
              receipt : {"none", "sent", "failed", "confirmed"}, gen : 0..MaxGen,
              guarded : BOOLEAN]

\* A reconcile of the obligation that is under way.
Reconciles == {"lock", "send", "confirm", "relock"}

\* A direct action of the app, with the claim before it.
Calls == [to : States, before : Claims \union {Nothing}, chosen : BOOLEAN]

ASSUME AuthorityAssumption ==
    /\ Nothing \notin Claims \union Obligations \union Calls \union Reconciles
    /\ {Free, User, Task} \cap Runs = {} /\ Free # User /\ Free # Task /\ User # Task
    /\ MaxAttempts \in Nat \ {0} /\ MaxRev \in Nat /\ MaxGen \in Nat /\ MaxFaults \in Nat

VARIABLES lit, rev,    \* the light and the number of its last transition
          auth, saved, \* the claim in memory and in the store
          lock,        \* _authority_lock
          ob,          \* the obligation
          rec,         \* its reconcile: Nothing, or where it is
          run,
          handlers,    \* events of manual switching that are being handled
          user,        \* a direct action of the app: Nothing, or what it does
          up, gens, faults,
          \* observation only:
          chosen       \* the light is on, and a person has claimed that (but see NoteDelay)

world == <<lit, rev>>
claims == <<auth, saved>>
bounds == <<gens, faults>>
vars == <<world, claims, lock, ob, rec, run, handlers, user, up, bounds, chosen>>

Idle == [pc |-> "idle", lit |-> "off", rev |-> 0, claim |-> Nothing, receipt |-> "none",
         gen |-> 0, guarded |-> FALSE]

TypeOK ==
    /\ lit \in States /\ rev \in Revs
    /\ {auth, saved} \subseteq Claims \union {Nothing}
    /\ lock \in Runs \union {Free, User, Task}
    /\ ob \in Obligations \union {Nothing}
    /\ rec \in Reconciles \union {Nothing}
    /\ run \in [Runs -> RunStates]
    /\ handlers \subseteq [st : States, rev : Revs]
    /\ user \in Calls \union {Nothing}
    /\ up \in BOOLEAN
    /\ gens \in 0..MaxGen /\ faults \in 0..MaxFaults
    /\ chosen \in BOOLEAN

Init ==
    /\ lit = "off" /\ rev = 0
    /\ auth = Nothing /\ saved = Nothing
    /\ lock = Free
    /\ ob = Nothing /\ rec = Nothing
    /\ run = [r \in Runs |-> Idle]
    /\ handlers = {} /\ user = Nothing
    /\ up = TRUE
    /\ gens = 0 /\ faults = 0
    /\ chosen = FALSE

---------------------------------------------------------------------------
(* Claims and their saves.                                                   *)

Manual == auth # Nothing /\ auth.kind = "manual"

\* _is_owned: the light was not switched since automation's confirmed on.
Owned == auth # Nothing /\ auth.kind = "automation" /\ auth.rev = rev

\* _set_manual
ManualClaim == [kind |-> "manual", rev |-> rev]

\* Automation owns the light as it is now, on or off.
AutomationClaim == [kind |-> "automation", rev |-> rev]

Fault == faults < MaxFaults /\ faults' = faults + 1

\* _async_save_if_dirty
Save(claim) == auth' = claim /\ saved' = claim /\ UNCHANGED faults

\* The save raises: the claim stays in memory, to be saved with the next one.
SaveRaises(claim) == Fault /\ claim # saved /\ auth' = claim /\ UNCHANGED saved

---------------------------------------------------------------------------
(* The obligation.                                                           *)

\* async_cancel: the record goes, and its task with it, wherever it is.
Dropped == ob' = Nothing /\ rec' = Nothing

\* The lock after that, taken from its holder now.
LockAfter(holder) == IF holder = Task /\ rec # Nothing THEN Free ELSE holder

Current(gen) == ob # Nothing /\ ob.gen = gen

\* async_complete with the run's generation, or with none if it armed nothing.
Completed(gen) ==
    IF gen = 0 \/ Current(gen) THEN Dropped ELSE UNCHANGED <<ob, rec>>

\* async_retry: the record is due at once, unless its attempts are spent; an off that was
\* sent is the first of them.
Retried(gen, sent) ==
    IF ob # Nothing /\ (gen = 0 \/ Current(gen))
      THEN LET attempt == IF sent /\ ob.attempt < 1 THEN 1 ELSE ob.attempt
           IN  /\ rec' = Nothing
               /\ ob' = IF attempt >= MaxAttempts THEN Nothing
                        ELSE [ob EXCEPT !.attempt = attempt, !.asleep = TRUE]
      ELSE UNCHANGED <<ob, rec>>

---------------------------------------------------------------------------
(* A person.                                                                 *)

\* The hand on the switch; its event is handled while the entry is set up.
Switch(st) ==
    /\ lit # st /\ rev < MaxRev
    /\ lit' = st /\ rev' = rev + 1
    /\ handlers' = IF up THEN handlers \union {[st |-> st, rev |-> rev + 1]} ELSE handlers
    /\ chosen' = IF st = "off" THEN FALSE ELSE chosen
    /\ UNCHANGED <<claims, lock, ob, rec, run, user, up, bounds>>

\* async_handle of an off, which noted it in ManualLightOffProtection before it came to
\* the lock: _async_note_manual_off; a save that raises leaves the obligation.
HandlerOff(h) ==
    /\ h.st = "off" /\ lock = Free
    /\ handlers' = handlers \ {h}
    /\ \/ Save(Nothing) /\ Dropped
       \/ SaveRaises(Nothing) /\ UNCHANGED <<ob, rec>>
    /\ UNCHANGED <<world, lock, run, user, up, gens, chosen>>

\* _async_note_manual_on; a save that raises restores the claim that was there.
HandlerOn(h) ==
    /\ h.st = "on" /\ lock = Free
    /\ handlers' = handlers \ {h}
    /\ \/ Save(ManualClaim) /\ Dropped /\ chosen' = (lit = "on")
       \/ Fault /\ UNCHANGED <<claims, ob, rec, chosen>>
    /\ UNCHANGED <<world, lock, run, user, up, gens>>

\* async_execute_device_action of the app holds the lock from its claim to its receipt.
UserBegins(st) ==
    /\ up /\ user = Nothing /\ lock = Free
    /\ LET claim == IF st = "on" THEN ManualClaim ELSE Nothing
       IN  \/ /\ Save(claim)
              /\ user' = [to |-> st, before |-> auth, chosen |-> chosen]
              /\ lock' = User
              /\ IF st = "on" THEN Dropped ELSE UNCHANGED <<ob, rec>>
              /\ chosen' = (chosen \/ (st = "on" /\ lit = "on"))
           \/ /\ Fault /\ claim # saved
              /\ UNCHANGED <<claims, user, lock, ob, rec, chosen>>
    /\ UNCHANGED <<world, run, handlers, up, gens>>

\* The service is called; its transition is manual for the listener.
UserSends ==
    /\ user # Nothing
    /\ IF lit = user.to THEN UNCHANGED <<world, handlers>>
       ELSE /\ rev < MaxRev
            /\ lit' = user.to /\ rev' = rev + 1
            /\ handlers' = handlers \union {[st |-> user.to, rev |-> rev + 1]}
    /\ user' = Nothing /\ lock' = Free
    /\ chosen' = (user.to = "on")
    /\ UNCHANGED <<claims, ob, rec, run, up, bounds>>

\* Mutant of UserFails: the whole token is restored, not the claim in it.
UserFailsToken ==
    /\ user # Nothing
    /\ Save(user) \/ SaveRaises(user)
    /\ user' = Nothing /\ lock' = Free
    /\ UNCHANGED <<world, ob, rec, run, handlers, up, gens, chosen>>

\* The call raised: async_rollback_direct_action.  A handler that is cancelled instead
\* keeps its claim.
UserFails ==
    /\ user # Nothing
    /\ \/ /\ Save(user.before) \/ SaveRaises(user.before)
          /\ chosen' = (chosen /\ user.chosen)
       \/ UNCHANGED <<claims, faults, chosen>>
    /\ user' = Nothing /\ lock' = Free
    /\ UNCHANGED <<world, ob, rec, run, handlers, up, gens>>

\* async_release_manual_claims: the zone has been empty for long enough.
ReleaseManual ==
    /\ up /\ lock = Free /\ Manual
    /\ Save(Nothing) \/ SaveRaises(Nothing)
    /\ chosen' = FALSE
    /\ UNCHANGED <<world, lock, ob, rec, run, handlers, user, up, gens>>

---------------------------------------------------------------------------
(* A run of automation: a light group that switches on, a delay, one that switches
   off.                                                                      *)

Step(r, pc) == run' = [run EXCEPT ![r].pc = pc]

\* What the run knew when it planned is not needed any more.
StepOn(r, pc, receipt) ==
    run' = [run EXCEPT ![r] = [Idle EXCEPT !.pc = pc, !.receipt = receipt]]

\* A light action has its receipt.
StepWith(r, pc, receipt) == run' = [run EXCEPT ![r].pc = pc, ![r].receipt = receipt]

Ends(r) == run' = [run EXCEPT ![r] = Idle]

\* plan: a claim on a light that is off is stale; a light that is on and not
\* automation's guards the whole run.
Plan(r) ==
    /\ up /\ run[r].pc = "idle"
    /\ auth' = IF lit = "off" /\ Manual THEN Nothing ELSE auth
    /\ run' = [run EXCEPT ![r] = [pc |-> "planned", lit |-> lit, rev |-> rev,
                                  claim |-> auth', receipt |-> "none", gen |-> 0,
                                  guarded |-> lit = "on" /\ (Manual \/ ~Owned)]]
    /\ UNCHANGED <<world, saved, lock, ob, rec, handlers, user, up, bounds, chosen>>

\* Presence cancels the delayed off, without the lock.
Supersede(r) ==
    /\ run[r].pc = "planned"
    /\ Dropped
    /\ lock' = LockAfter(lock)
    /\ IF run[r].guarded THEN StepOn(r, "guarded", "none") ELSE Step(r, "lock_on")
    /\ UNCHANGED <<world, claims, handlers, user, up, bounds, chosen>>

\* note_results of a guarded run makes the claim durable.
Guard(r) ==
    /\ run[r].pc = "guarded" /\ lock = Free
    /\ Save(ManualClaim) \/ SaveRaises(ManualClaim)
    /\ Ends(r)
    /\ UNCHANGED <<world, lock, ob, rec, handlers, user, up, gens, chosen>>

\* acquire_light_group
AcquireOn(r) ==
    /\ run[r].pc = "lock_on" /\ lock = Free
    /\ lock' = r /\ Step(r, "claim_on")
    /\ UNCHANGED <<world, claims, ob, rec, handlers, user, up, bounds, chosen>>

\* A fresh on that nobody planned with is a person's.
Unexpected(r) == lit = "on" /\ ~Owned /\ (run[r].lit = "off" \/ run[r].rev # rev)

\* async_has_manual_claim
ClaimOn(r) ==
    /\ run[r].pc = "claim_on"
    /\ IF Manual /\ lit = "on" THEN Step(r, "note_on") /\ UNCHANGED <<claims, faults, lock>>
       ELSE IF Unexpected(r)
         THEN \/ Save(ManualClaim) /\ Step(r, "note_on") /\ UNCHANGED lock
              \/ SaveRaises(ManualClaim) /\ Ends(r) /\ lock' = Free
       ELSE IF Manual
         THEN \/ Save(Nothing) /\ Step(r, "send_on") /\ UNCHANGED lock
              \/ SaveRaises(Nothing) /\ Ends(r) /\ lock' = Free
       ELSE Step(r, "send_on") /\ UNCHANGED <<claims, faults, lock>>
    /\ UNCHANGED <<world, ob, rec, handlers, user, up, gens, chosen>>

\* The service; its transition carries the context of the command.  A lamp that does
\* not answer stays as it is, and a call that raises ends the run with its group.
SendOn(r) ==
    /\ run[r].pc = "send_on"
    /\ \/ /\ lit = "off" /\ rev < MaxRev
          /\ lit' = "on" /\ rev' = rev + 1
          /\ StepWith(r, "note_on", "sent")
       \/ UNCHANGED world /\ StepWith(r, "note_on", "sent")
       \/ UNCHANGED world /\ StepWith(r, "note_on", "failed")
    /\ UNCHANGED <<claims, lock, ob, rec, handlers, user, up, bounds, chosen>>

\* finalize_light_group: a claim that was there when the light was seen off is stale,
\* and a confirmed on becomes automation's.
NoteOn(r) ==
    /\ run[r].pc = "note_on"
    /\ \E confirmed \in BOOLEAN :
        /\ confirmed => run[r].receipt = "sent" /\ lit = "on"
        /\ LET ours  == confirmed /\ run[r].lit = "off"
               left  == IF run[r].lit = "off" /\ auth = run[r].claim THEN Nothing ELSE auth
               claim == IF ours /\ (left = Nothing \/ left.kind # "manual")
                          THEN AutomationClaim ELSE left
           IN  \/ /\ Save(claim)
                  /\ IF run[r].receipt = "failed" THEN Ends(r)
                     ELSE StepOn(r, "note_delay", IF ours THEN "confirmed" ELSE "none")
               \/ SaveRaises(claim) /\ Ends(r)
    /\ lock' = Free
    /\ UNCHANGED <<world, ob, rec, handlers, user, up, gens, chosen>>

\* Mutant of Retaken: a manual record does not keep automation from it.
RetakenRegardless(r) == IF run[r].receipt = "confirmed" THEN AutomationClaim ELSE auth

\* The claim after a confirmed on is noted again, on a light that may have been
\* switched since.
Retaken(r) == IF run[r].receipt = "confirmed" /\ ~Manual THEN AutomationClaim ELSE auth

\* note_results once more at the delay, with the lock taken again: only a manual record
\* keeps automation from owning the light as it is now, whoever switched it since the
\* group gave the lock back.  A person whose record is gone has not claimed it any more.
NoteDelay(r) ==
    /\ run[r].pc = "note_delay" /\ lock = Free
    /\ \/ Save(Retaken(r)) /\ Step(r, "arm")
       \/ SaveRaises(Retaken(r)) /\ Ends(r)
    /\ chosen' = (chosen /\ (run[r].receipt = "confirmed" => Manual))
    /\ UNCHANGED <<world, lock, ob, rec, handlers, user, up, gens>>

\* _async_arm_future_light_offs, without the lock; the guard of a special scenario may
\* be unsafe.
Arm(r) ==
    /\ run[r].pc = "arm"
    /\ \/ /\ Owned /\ gens < MaxGen
          /\ gens' = gens + 1
          /\ ob' = [gen |-> gens + 1, rev |-> rev, attempt |-> 0, asleep |-> FALSE]
          /\ rec' = Nothing /\ lock' = LockAfter(lock)
          /\ run' = [run EXCEPT ![r].pc = "lock_off", ![r].gen = gens + 1]
       \/ ~Owned /\ Step(r, "lock_off") /\ UNCHANGED <<gens, ob, rec, lock>>
       \/ Ends(r) /\ UNCHANGED <<gens, ob, rec, lock>>
    /\ UNCHANGED <<world, claims, handlers, user, up, faults, chosen>>

\* The delay is over.
AcquireOff(r) ==
    /\ run[r].pc = "lock_off" /\ lock = Free
    /\ lock' = r /\ Step(r, "check_off")
    /\ UNCHANGED <<world, claims, ob, rec, handlers, user, up, bounds, chosen>>

\* The record must be current and the light automation's; a light that is not ends
\* the obligation.  The group of a skipped off saves what is unsaved.
CheckOff(r) ==
    /\ run[r].pc = "check_off"
    /\ \/ /\ run[r].gen # 0 /\ ~Current(run[r].gen)
          /\ Save(auth) \/ SaveRaises(auth)
          /\ Ends(r) /\ lock' = Free /\ UNCHANGED <<ob, rec>>
       \/ /\ run[r].gen # 0 => Current(run[r].gen)
          /\ ~Owned
          /\ Completed(run[r].gen)
          /\ Save(auth) \/ SaveRaises(auth)
          /\ Ends(r) /\ lock' = Free
       \/ /\ run[r].gen # 0 => Current(run[r].gen)
          /\ Owned
          /\ Step(r, "send_off") /\ UNCHANGED <<claims, faults, lock, ob, rec>>
    /\ UNCHANGED <<world, handlers, user, up, gens, chosen>>

\* The light is switched off by automation.
SwitchedOff ==
    /\ lit = "on" /\ rev < MaxRev
    /\ lit' = "off" /\ rev' = rev + 1
    /\ chosen' = FALSE

\* before_dispatch looks at the record once more; a light that is off already may be
\* skipped before that.
SendOff(r) ==
    /\ run[r].pc = "send_off"
    /\ \/ /\ run[r].gen # 0 => Current(run[r].gen)
          /\ SwitchedOff \/ UNCHANGED <<world, chosen>>
          /\ StepWith(r, "note_off", "sent")
       \/ lit = "off" /\ UNCHANGED <<world, chosen>> /\ StepWith(r, "note_off", "none")
       \/ UNCHANGED <<world, chosen>> /\ Step(r, "failed_off")
    /\ UNCHANGED <<claims, lock, ob, rec, handlers, user, up, bounds>>

\* finalize_light_group: the obligation is resolved first; then an off that was sent
\* ends automation's claim, confirmed or not.
NoteOff(r) ==
    /\ run[r].pc = "note_off"
    /\ \/ (lit = "off" \/ run[r].receipt = "none") /\ Completed(run[r].gen)
       \/ run[r].receipt = "sent" /\ Retried(run[r].gen, TRUE)
    /\ LET claim == IF run[r].receipt = "none" \/ Manual THEN auth ELSE Nothing
       IN  Save(claim) \/ SaveRaises(claim)
    /\ Ends(r) /\ lock' = Free
    /\ UNCHANGED <<world, handlers, user, up, gens, chosen>>

\* An off that failed, before it was sent or after, is the run's last action: what it
\* switched on is noted a third time.
FailedOff(r) ==
    /\ run[r].pc = "failed_off"
    /\ \E sent \in BOOLEAN : Retried(run[r].gen, sent)
    /\ Save(Retaken(r)) \/ SaveRaises(Retaken(r))
    /\ Ends(r) /\ lock' = Free
    /\ UNCHANGED <<world, handlers, user, up, gens, chosen>>

\* Mutant of CancelRun: the lock is left to the run that is gone.
CancelRunHolding(r) ==
    /\ run[r].pc # "idle"
    /\ Ends(r)
    /\ UNCHANGED <<world, claims, lock, ob, rec, handlers, user, up, bounds, chosen>>

\* A newer run of its scenario cancels it (release_abandoned_group).
CancelRun(r) ==
    /\ run[r].pc # "idle"
    /\ Ends(r)
    /\ lock' = IF lock = r THEN Free ELSE lock
    /\ UNCHANGED <<world, claims, ob, rec, handlers, user, up, bounds, chosen>>

---------------------------------------------------------------------------
(* The reconciler: async_reconcile_light_obligation.                         *)

Wake ==
    /\ up /\ ob # Nothing /\ ob.asleep /\ rec = Nothing
    /\ ob.attempt < MaxAttempts
    /\ ob' = [ob EXCEPT !.attempt = @ + 1]
    /\ rec' = "lock"
    /\ UNCHANGED <<world, claims, lock, run, handlers, user, up, bounds, chosen>>

\* revalidate_before_dispatch
StillOwned == Owned /\ auth.rev = ob.rev

\* Refused: the obligation is invalidated.
Refused ==
    /\ Dropped
    /\ lock' = Free
    /\ UNCHANGED <<world, chosen>>

ReconcileLocks ==
    /\ rec = "lock" /\ lock = Free
    /\ IF StillOwned
         THEN rec' = "send" /\ lock' = Task /\ UNCHANGED <<world, ob, chosen>>
         ELSE Refused
    /\ UNCHANGED <<claims, run, handlers, user, up, bounds>>

ReconcileSends ==
    /\ rec = "send"
    /\ \/ /\ StillOwned
          /\ SwitchedOff \/ UNCHANGED <<world, chosen>>
          /\ rec' = "confirm" /\ UNCHANGED <<ob, lock>>
       \/ ~StillOwned /\ Refused
    /\ UNCHANGED <<claims, run, handlers, user, up, bounds>>

\* A confirmed off waits, with the lock, for async_clear_ownership, which takes the
\* same lock: nothing but its cancellation gets it further.  Otherwise the attempts
\* decide.
ReconcileConfirms ==
    /\ rec = "confirm"
    /\ \/ lit = "off" /\ rec' = "relock" /\ UNCHANGED <<ob, lock>>
       \/ /\ rec' = Nothing /\ lock' = Free
          /\ ob' = IF ob.attempt >= MaxAttempts THEN Nothing ELSE ob
    /\ UNCHANGED <<world, claims, run, handlers, user, up, bounds, chosen>>

---------------------------------------------------------------------------
(* The end of the process and the next set-up.                               *)

Stop ==
    /\ up /\ Fault
    /\ up' = FALSE
    /\ lock' = Free /\ rec' = Nothing /\ run' = [r \in Runs |-> Idle]
    /\ handlers' = {} /\ user' = Nothing
    /\ UNCHANGED <<world, claims, ob, gens, chosen>>

\* The claim of the store; start gives the obligation its task.
Start ==
    /\ ~up
    /\ up' = TRUE
    /\ auth' = saved
    /\ ob' = IF ob = Nothing THEN Nothing
             ELSE IF ob.attempt >= MaxAttempts THEN Nothing
             ELSE [ob EXCEPT !.asleep = TRUE]
    /\ UNCHANGED <<world, saved, lock, rec, run, handlers, user, bounds, chosen>>

Next ==
    \/ \E st \in States : Switch(st)
    \/ \E h \in handlers : HandlerOff(h)
    \/ \E h \in handlers : HandlerOn(h)
    \/ \E st \in States : UserBegins(st)
    \/ UserSends
    \/ UserFails
    \/ ReleaseManual
    \/ \E r \in Runs : Plan(r)
    \/ \E r \in Runs : Supersede(r)
    \/ \E r \in Runs : Guard(r)
    \/ \E r \in Runs : AcquireOn(r)
    \/ \E r \in Runs : ClaimOn(r)
    \/ \E r \in Runs : SendOn(r)
    \/ \E r \in Runs : NoteOn(r)
    \/ \E r \in Runs : NoteDelay(r)
    \/ \E r \in Runs : Arm(r)
    \/ \E r \in Runs : AcquireOff(r)
    \/ \E r \in Runs : CheckOff(r)
    \/ \E r \in Runs : SendOff(r)
    \/ \E r \in Runs : NoteOff(r)
    \/ \E r \in Runs : FailedOff(r)
    \/ \E r \in Runs : CancelRun(r)
    \/ Wake
    \/ ReconcileLocks
    \/ ReconcileSends
    \/ ReconcileConfirms
    \/ Stop
    \/ Start

Spec == Init /\ [][Next]_vars

\* Whoever holds the lock goes on, as the event loop and the bounded service calls
\* make it; a handler that waits gets its turn, as the lock is first come, first
\* served.
FairSpec ==
    /\ Spec
    /\ WF_vars(UserSends \/ UserFails)
    /\ \A r \in Runs : WF_vars(\/ ClaimOn(r) \/ SendOn(r) \/ NoteOn(r)
                               \/ CheckOff(r) \/ SendOff(r) \/ NoteOff(r) \/ FailedOff(r))
    /\ WF_vars(ReconcileSends \/ ReconcileConfirms)
    /\ \A st \in States, i \in Revs :
        SF_vars(\E h \in handlers : h.st = st /\ h.rev = i /\ (HandlerOff(h) \/ HandlerOn(h)))

---------------------------------------------------------------------------
(* Properties.                                                               *)

\* Automation never switches off a light that is on as a person has claimed it, by
\* its switch or in the app: not by a run's delayed off, not by a reconciliation, not
\* after a crash, whatever saves failed.  The exception is a light that automation
\* owned anew at the delay of a run (NoteDelay), when the record of the claim was lost
\* to a late off, to a plan that still saw the light off, or to a cancelled off.
ManualOnHolds ==
    [][(\E r \in Runs : SendOff(r)) \/ ReconcileSends => lit' = lit \/ ~chosen]_vars

\* The lock has a holder that will go on, or nobody has it: no end of a run, failed
\* save or cancelled task leaves it locked.  (In "relock" it is the reconciler's own.)
LockIsServed ==
    /\ lock \in Runs => run[lock].pc \in Locked
    /\ lock = User <=> user # Nothing
    /\ lock = Task <=> rec \in {"send", "confirm", "relock"}

\* "Serialize manual claims with each automatic lighting side effect" (authority_lock):
\* manual switching is always noted in the end.
Handled(st, i) == \A h \in handlers : h.st # st \/ h.rev # i
ManualClaimsServed ==
    \A st \in States, i \in Revs : ~Handled(st, i) ~> Handled(st, i)
=============================================================================
