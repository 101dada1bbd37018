-------------------------- MODULE IntercomRelease --------------------------
(* IntercomReleaseObligation (application/intercom_release_obligation.py) with
   the requests that open the door (DeviceActionView.post, ScenarioService), the
   relay they switch on, and its release.

   A request persists an unarmed record before anything else, arms it at the
   dispatch boundary, and then switches the relay on.  The task of an armed
   record sleeps until its deadline, switches the relay off and reads it back;
   only if that confirms the release is the record cleared, otherwise the task
   tries again.  The lock's sections are one action, but arming is two: shutdown
   does not take the lock.  Deadlines are abstracted to "some time later", and the
   wall clock to whether it is behind the armedAt of the record on disk.       *)

EXTENDS Naturals, FiniteSets

CONSTANTS Requests,      \* HTTP requests that open the door
          Nothing,       \* no record
          MaxObjects,    \* bound: set-ups of the config entry
          MaxUnloads,    \* bound: unloads while the process goes on
          MaxFailures,   \* bound: saves and relay calls that raise
          MaxDamage,     \* bound: files damaged from outside
          Absent, Invalid, Corrupt

Records == [by : Requests, armed : BOOLEAN]

Payloads == Records \union {Nothing}

INSTANCE SafetyDisk

ASSUME IntercomAssumption ==
    /\ Nothing \notin Records
    /\ MaxObjects \in Nat /\ MaxUnloads \in Nat
    /\ MaxFailures \in Nat /\ MaxDamage \in Nat
    /\ {Absent, Invalid, Corrupt} \cap Payloads = {}
    /\ Absent # Invalid /\ Absent # Corrupt /\ Invalid # Corrupt

Objects == 0..MaxObjects

VARIABLES disk,      \* the files of the obligation's store
          serving,   \* the config entry is set up
          latest,    \* number of the latest obligation object
          record,    \* _record of each object
          task,      \* where its _async_reconcile task is
          callback,  \* the objects whose _callback is set
          shutting,  \* the objects that were shut down
          relay,     \* the relay is on
          pc, owner, \* where each request is, and the object it works with
          behind,    \* the clock is behind the armedAt on disk
          unloads, failures, damage   \* counters of the bounds

objectVars == <<record, task, callback, shutting>>
entryVars == <<serving, latest, behind, unloads>>
vars == <<disk, entryVars, objectVars, relay, pc, owner, failures, damage>>

Points == {"idle", "prepared", "saving", "rollback", "cleanup", "armed", "done"}
TaskPoints == {"none", "sleep", "reading", "confirmed", "unconfirmed"}

TypeOK ==
    /\ disk \in Disks
    /\ serving \in BOOLEAN
    /\ latest \in Objects
    /\ record \in [Objects -> Payloads]
    /\ task \in [Objects -> TaskPoints]
    /\ callback \in SUBSET Objects
    /\ shutting \in SUBSET Objects
    /\ relay \in BOOLEAN
    /\ pc \in [Requests -> Points]
    /\ owner \in [Requests -> Objects]
    /\ behind \in BOOLEAN
    /\ unloads \in 0..MaxUnloads
    /\ failures \in 0..MaxFailures
    /\ damage \in 0..MaxDamage

Init ==
    /\ disk = NewDisk
    /\ serving = FALSE
    /\ latest = 0
    /\ record = [g \in Objects |-> Nothing]
    /\ task = [g \in Objects |-> "none"]
    /\ callback = {}
    /\ shutting = {}
    /\ relay = FALSE
    /\ pc = [r \in Requests |-> "idle"]
    /\ owner = [r \in Requests |-> 0]
    /\ behind = FALSE
    /\ unloads = 0
    /\ failures = 0
    /\ damage = 0

---------------------------------------------------------------------------
(* Saves, the lock and the timer.                                            *)

Free(g) == \A r \in Requests : owner[r] = g => pc[r] # "saving"

SaveOk(p) == disk' \in SaveAcks(disk, p) /\ UNCHANGED failures

Raises == failures < MaxFailures /\ failures' = failures + 1

SaveRaises(p) == disk' \in SaveFailures(disk, p) /\ Raises

\* The caller is cancelled while it saves.
SaveCut(p) == disk' \in SaveFailures(disk, p) /\ UNCHANGED failures

Unarmed(r) == [by |-> r, armed |-> FALSE]
Armed(r) == [by |-> r, armed |-> TRUE]

IsArmed(p) == p # Nothing /\ p.armed

Remember(g, p) == record' = [record EXCEPT ![g] = p]

Goto(r, point) == pc' = [pc EXCEPT ![r] = point]

TaskGoto(g, point) == task' = [task EXCEPT ![g] = point]

\* _schedule: a task needs a callback; an older task is cancelled.
Scheduled(g) == IF g \in callback THEN "sleep" ELSE task[g]

---------------------------------------------------------------------------
(* One request.                                                              *)

\* async_prepare: one record at a time.  A save that raises leaves none; one that
\* is cancelled with the HTTP handler leaves it in memory, and nobody cleans up.
Prepare(r) ==
    /\ serving
    /\ pc[r] = "idle"
    /\ Free(latest)
    /\ owner' = [owner EXCEPT ![r] = latest]
    /\ IF record[latest] # Nothing
         THEN Goto(r, "done") /\ UNCHANGED <<disk, record, failures>>
         ELSE \/ SaveOk(Unarmed(r)) /\ Remember(latest, Unarmed(r)) /\ Goto(r, "prepared")
              \/ SaveRaises(Unarmed(r)) /\ UNCHANGED record /\ Goto(r, "done")
              \/ SaveCut(Unarmed(r)) /\ Remember(latest, Unarmed(r)) /\ Goto(r, "done")
    /\ UNCHANGED <<entryVars, task, callback, shutting, relay, damage>>

\* A later step of the request fails before the dispatch boundary.
FailBeforeDispatch(r) ==
    /\ pc[r] = "prepared"
    /\ Goto(r, "cleanup")
    /\ UNCHANGED <<disk, entryVars, objectVars, relay, owner, failures, damage>>

\* async_arm, the before_dispatch of the executor: the record must still be the
\* unarmed one of this request, and its action still that of the intercom.
Arm(r) ==
    /\ pc[r] = "prepared"
    /\ Free(owner[r])
    /\ \/ /\ record[owner[r]] = Unarmed(r)
          /\ Remember(owner[r], Armed(r))
          /\ behind' = FALSE
          /\ Goto(r, "saving")
       \/ Goto(r, "rollback") /\ UNCHANGED <<record, behind>>
    /\ UNCHANGED <<disk, serving, latest, unloads, task, callback, shutting, relay,
                   owner, failures, damage>>

\* Mutant of Armed's save: the call is made although the deadline was not saved.
ArmBestEffort(r) ==
    LET g == owner[r] IN
    /\ pc[r] = "saving"
    /\ SaveOk(Armed(r)) \/ SaveRaises(Armed(r))
    /\ TaskGoto(g, Scheduled(g))
    /\ Goto(r, "armed")
    /\ UNCHANGED <<entryVars, record, callback, shutting, relay, owner, damage>>

\* The armed record is saved and its timer starts; or the save raises and the
\* record is unarmed again.
ArmSaved(r) ==
    LET g == owner[r] IN
    /\ pc[r] = "saving"
    /\ \/ /\ SaveOk(Armed(r))
          /\ TaskGoto(g, Scheduled(g))
          /\ Goto(r, "armed")
          /\ UNCHANGED record
       \/ /\ SaveRaises(Armed(r))
          /\ Remember(g, Unarmed(r))
          /\ Goto(r, "rollback")
          /\ UNCHANGED task
    /\ UNCHANGED <<entryVars, callback, shutting, relay, owner, damage>>

\* After the call, the record is left alone if it was accepted.
Called(r) == Goto(r, "cleanup") \/ Goto(r, "done")

\* The physical call; it may raise although the relay obeys.
SwitchOn(r) ==
    /\ pc[r] = "armed"
    /\ relay' = TRUE
    /\ Called(r)
    /\ UNCHANGED <<disk, entryVars, objectVars, owner, failures, damage>>

\* The call is not made, or has no effect; the record stays armed.
NoCall(r) ==
    /\ pc[r] = "armed"
    /\ Called(r)
    /\ UNCHANGED <<disk, entryVars, objectVars, relay, owner, failures, damage>>

\* Mutant of CleanUp: an armed record is cleared as well.
CleanUpArmed(r) ==
    LET g == owner[r] IN
    /\ pc[r] \in {"rollback", "cleanup"}
    /\ Free(g)
    /\ Goto(r, IF pc[r] = "rollback" THEN "cleanup" ELSE "done")
    /\ IF record[g] \notin {Unarmed(r), Armed(r)}
         THEN UNCHANGED <<disk, failures, record, task>>
         ELSE \/ SaveOk(Nothing) /\ Remember(g, Nothing) /\ TaskGoto(g, "none")
              \/ SaveRaises(Nothing) /\ UNCHANGED <<record, task>>
    /\ UNCHANGED <<entryVars, callback, shutting, relay, owner, damage>>

\* async_cancel of the unarmed record of this request: in the handler of a failed
\* arming, and in the lifecycle of a request that was not accepted.
CleanUp(r) ==
    LET g == owner[r] IN
    /\ pc[r] \in {"rollback", "cleanup"}
    /\ Free(g)
    /\ Goto(r, IF pc[r] = "rollback" THEN "cleanup" ELSE "done")
    /\ IF record[g] # Unarmed(r) THEN UNCHANGED <<disk, failures, record, task>>
         ELSE \/ SaveOk(Nothing) /\ Remember(g, Nothing) /\ TaskGoto(g, "none")
              \/ SaveRaises(Nothing) /\ UNCHANGED <<record, task>>
    /\ UNCHANGED <<entryVars, callback, shutting, relay, owner, damage>>

\* The HTTP handler is cancelled: CancelledError is not handled anywhere, and
\* what was changed in memory before the save stays changed.
Cancelled(r) ==
    LET g == owner[r] IN
    /\ pc[r] \notin {"idle", "armed", "done"}
    /\ Goto(r, "done")
    /\ \/ UNCHANGED <<disk, failures, record>>
       \/ pc[r] = "saving" /\ SaveCut(Armed(r)) /\ UNCHANGED record
       \/ /\ pc[r] \in {"rollback", "cleanup"} /\ Free(g) /\ record[g] = Unarmed(r)
          /\ SaveCut(Nothing) /\ Remember(g, Nothing)
    /\ UNCHANGED <<entryVars, task, callback, shutting, relay, owner, damage>>

---------------------------------------------------------------------------
(* The task of an armed record.                                              *)

\* The record's deadline has passed.  A shutdown moves it to now; otherwise the model
\* assumes that an armed request makes its call within the 15 s.
Due(g) ==
    /\ task[g] = "sleep"
    /\ g \in shutting \/ \A r \in Requests : owner[r] = g => pc[r] # "armed"

\* async_release_intercom_switch calls turn_off and then reads the state back ...
SwitchOff(g) ==
    /\ Due(g)
    /\ TaskGoto(g, "reading")
    /\ relay' = FALSE
    /\ UNCHANGED <<disk, entryVars, record, callback, shutting, pc, owner, failures,
                   damage>>

\* ... but the relay may not obey, or the call raises.
SwitchOffFails(g) ==
    /\ Due(g)
    /\ Raises
    /\ task' \in {[task EXCEPT ![g] = "reading"], [task EXCEPT ![g] = "unconfirmed"]}
    /\ UNCHANGED <<disk, entryVars, record, callback, shutting, relay, pc, owner, damage>>

\* Mutant of ReadBack: the call is taken for its effect.
ReadBackTrusting(g) ==
    /\ task[g] = "reading"
    /\ TaskGoto(g, "unconfirmed") \/ TaskGoto(g, "confirmed")
    /\ UNCHANGED <<disk, entryVars, record, callback, shutting, relay, pc, owner, failures,
                   damage>>

\* _read_back_device: the relay is off, by a state newer than the one before the
\* call.  A relay that is off may give no new state, and is not confirmed then.
ReadBack(g) ==
    /\ task[g] = "reading"
    /\ TaskGoto(g, "unconfirmed") \/ (~relay /\ TaskGoto(g, "confirmed"))
    /\ UNCHANGED <<disk, entryVars, record, callback, shutting, relay, pc, owner, failures,
                   damage>>

\* Mutant of Left: the record of the next attempt has no valid armedAt.
LeftUndated(g) ==
    IF task[g] = "confirmed" THEN Nothing ELSE [record[g] EXCEPT !.armed = Nothing]

\* The record that the task leaves.
Left(g) == IF task[g] = "confirmed" THEN Nothing ELSE record[g]

\* The save raises; or the store's validator refuses the record of the next attempt,
\* the deadline of which is more than 15 s after armedAt, before it is written.
LeftUnsaved(g) ==
    \/ SaveRaises(Left(g))
    \/ Left(g) # Nothing /\ UNCHANGED <<disk, failures>>

\* Mutant of Settle: the task ends with its attempt.
SettleOnce(g) ==
    /\ task[g] \in {"confirmed", "unconfirmed"}
    /\ Free(g)
    /\ IF ~IsArmed(record[g]) THEN UNCHANGED <<disk, failures, record, callback>>
         ELSE \/ SaveOk(Left(g)) /\ Remember(g, Left(g)) /\ UNCHANGED callback
              \/ LeftUnsaved(g) /\ UNCHANGED <<record, callback>>
    /\ TaskGoto(g, "none")
    /\ UNCHANGED <<entryVars, shutting, relay, pc, owner, damage>>

\* The record is cleared or gets a later deadline, unless it is no longer the one
\* the task began with; while there is one, the task tries again.
Settle(g) ==
    /\ task[g] \in {"confirmed", "unconfirmed"}
    /\ Free(g)
    /\ IF ~IsArmed(record[g])
         THEN TaskGoto(g, "none") /\ UNCHANGED <<disk, failures, record, callback>>
         ELSE \/ /\ SaveOk(Left(g))
                 /\ Remember(g, Left(g))
                 /\ TaskGoto(g, IF Left(g) = Nothing THEN "none" ELSE "sleep")
                 /\ callback' = IF Left(g) = Nothing /\ g \in shutting
                                THEN callback \ {g} ELSE callback
              \/ /\ LeftUnsaved(g)
                 /\ TaskGoto(g, "sleep")
                 /\ UNCHANGED <<record, callback>>
    /\ UNCHANGED <<entryVars, shutting, relay, pc, owner, damage>>

---------------------------------------------------------------------------
(* The config entry, the process, the relay and the files.                   *)

\* Mutant of Kept: an unarmed record is dropped, fall-back or not.
KeptForgetful(p, flagged) == IF IsArmed(p) THEN p ELSE Nothing

\* async_load: an unarmed record is dropped, unless the store fell back to an older
\* generation: then the relay may be on, and the record becomes armed.
Kept(p, flagged) ==
    IF p = Nothing THEN Nothing
    ELSE IF flagged THEN [p EXCEPT !.armed = TRUE]
    ELSE IF p.armed THEN p ELSE Nothing

\* An armed record gets a new deadline when it is loaded with a clock that is behind
\* its armedAt.  The validator refuses a deadline before armedAt, and the set-up
\* raises with nothing changed.
Refused(a, p) == behind /\ IsArmed(p) /\ ~a.flagged

\* The set-up loads a new object, saves a record that changes, and starts.
Setup ==
    /\ ~serving
    /\ latest < MaxObjects
    /\ \E a \in {x \in LoadAnswers(disk) : x.kind # "error"} :
         LET p == IF a.kind = "value" THEN a.doc ELSE Nothing
             kept == Kept(p, a.flagged)
             untouched == p = Nothing \/ (IsArmed(p) /\ ~a.flagged)
         IN  /\ ~Refused(a, p)
             /\ \/ /\ IF untouched THEN disk' = a.disk
                                  ELSE disk' \in SaveAcks(a.disk, kept)
                   /\ serving' = TRUE
                   /\ latest' = latest + 1
                   /\ Remember(latest + 1, kept)
                   /\ TaskGoto(latest + 1, IF kept = Nothing THEN "none" ELSE "sleep")
                   /\ callback' = callback \union {latest + 1}
                   /\ UNCHANGED failures
                \/ /\ ~untouched /\ disk' \in SaveFailures(a.disk, kept) /\ Raises
                   /\ UNCHANGED <<serving, latest, record, task, callback>>
    /\ UNCHANGED <<behind, unloads, shutting, relay, pc, owner, damage>>

\* The load raises, or is cut short.
SetupFails ==
    /\ ~serving
    /\ latest < MaxObjects
    /\ \/ \E a \in LoadAnswers(disk) : a.kind = "error" /\ disk' = a.disk
       \/ disk' \in LoadCuts(disk)
    /\ Raises
    /\ UNCHANGED <<entryVars, objectVars, relay, pc, owner, damage>>

\* Mutant of Unload: the task is cancelled, and that is all.
UnloadSilently ==
    LET g == latest IN
    /\ serving
    /\ unloads < MaxUnloads
    /\ unloads' = unloads + 1
    /\ serving' = FALSE
    /\ shutting' = shutting \union {g}
    /\ TaskGoto(g, "none")
    /\ UNCHANGED <<disk, callback, latest, behind, record, relay, pc, owner, failures,
                   damage>>

\* shutdown: the task is cancelled, perhaps while it saves; an armed record is
\* released at once by a new task, otherwise the callback is dropped.
Unload ==
    LET g == latest IN
    /\ serving
    /\ unloads < MaxUnloads
    /\ unloads' = unloads + 1
    /\ serving' = FALSE
    /\ shutting' = shutting \union {g}
    /\ \/ UNCHANGED disk
       \/ /\ task[g] \in {"confirmed", "unconfirmed"} /\ Free(g) /\ IsArmed(record[g])
          /\ disk' \in SaveFailures(disk, Left(g))
    /\ IF IsArmed(record[g]) /\ g \in callback
         THEN TaskGoto(g, "sleep") /\ UNCHANGED callback
         ELSE TaskGoto(g, "none") /\ callback' = callback \ {g}
    /\ UNCHANGED <<latest, behind, record, relay, pc, owner, failures, damage>>

\* What is being saved when the process stops.
InFlight ==
    {Unarmed(r) : r \in {x \in Requests : pc[x] = "idle" /\ serving
                                          /\ record[latest] = Nothing}}
    \union {Armed(r) : r \in {x \in Requests : pc[x] = "saving"}}
    \union {Nothing : r \in {x \in Requests : /\ pc[x] \in {"rollback", "cleanup"}
                                              /\ record[owner[x]] = Unarmed(x)}}
    \union {Left(g) : g \in {x \in Objects : /\ task[x] \in {"confirmed", "unconfirmed"}
                                             /\ IsArmed(record[x])}}

\* The process stops; while the bound allows it, a set-up can follow.
Crash ==
    /\ serving \/ \E g \in Objects : task[g] # "none"
    /\ latest < MaxObjects
    /\ serving' = FALSE
    /\ \/ UNCHANGED disk
       \/ \E p \in InFlight : disk' \in SaveFailures(disk, p)
    /\ record' = [g \in Objects |-> Nothing]
    /\ task' = [g \in Objects |-> "none"]
    /\ callback' = {} /\ shutting' = {}
    /\ pc' = [r \in Requests |-> IF pc[r] = "idle" THEN "idle" ELSE "done"]
    /\ UNCHANGED <<latest, behind, unloads, relay, owner, failures, damage>>

\* Somebody else switches the relay off, or it is a momentary one.
SwitchedOff ==
    /\ relay
    /\ relay' = FALSE
    /\ UNCHANGED <<disk, entryVars, record, task, callback, shutting, pc, owner, failures,
                   damage>>

\* The clock goes back behind the armedAt on disk, which matters to the next set-up;
\* that it catches up again is left out, for then nothing happened.
ClockGoesBack ==
    /\ ~serving /\ ~behind
    /\ Valid(disk.cur) /\ IsArmed(disk.cur)
    /\ behind' = TRUE
    /\ UNCHANGED <<disk, serving, latest, unloads, objectVars, relay, pc, owner, failures,
                   damage>>

DamageFile ==
    /\ damage < MaxDamage
    /\ damage' = damage + 1
    /\ \E file \in {"cur", "prev"}, kind \in {Invalid, Corrupt} :
         /\ Valid(disk[file])
         /\ disk' = [disk EXCEPT ![file] = kind]
    /\ UNCHANGED <<entryVars, objectVars, relay, pc, owner, failures>>

RequestStep(r) ==
    \/ Prepare(r) \/ FailBeforeDispatch(r) \/ Arm(r) \/ ArmSaved(r) \/ SwitchOn(r)
    \/ NoCall(r) \/ CleanUp(r) \/ Cancelled(r)

TaskStep(g) == SwitchOff(g) \/ SwitchOffFails(g) \/ ReadBack(g) \/ Settle(g)

Next ==
    \/ \E r \in Requests : RequestStep(r)
    \/ \E g \in Objects : TaskStep(g)
    \/ Setup \/ SetupFails \/ Unload \/ Crash \/ SwitchedOff
    \/ ClockGoesBack \/ DamageFile

Spec == Init /\ [][Next]_vars

\* Fairness: the event loop runs a task that can go on (its sleep, its relay call
\* and its read-back end), a save ends, and an entry is set up again in the end.
Fairness ==
    /\ \A g \in Objects : WF_vars(TaskStep(g))
    /\ \A r \in Requests : WF_vars(ArmSaved(r))
    /\ WF_vars(Setup)

FairSpec == Spec /\ Fairness

---------------------------------------------------------------------------
(* Properties.                                                               *)

\* As long as no file was damaged and the entry not unloaded, a relay that a request
\* switched on has its relay-off deadline on disk: no failed save, clean-up, retry or
\* read-back loses it.
RelayCovered ==
    relay /\ damage = 0 /\ unloads = 0 => Valid(disk.cur) /\ IsArmed(disk.cur)

\* While the entry is set up, a task of its object is on its way to switch off a
\* relay that is on, although the process restarted meanwhile and, perhaps, one
\* file was unreadable.
RelayGuarded ==
    relay /\ serving /\ damage <= 1 /\ unloads = 0 =>
       IsArmed(record[latest]) /\ task[latest] # "none"

\* "retain retries after unload": an object that was shut down with an armed record
\* keeps a task for it until the record is cleared, whatever raises.
RetriesRetained ==
    \A g \in shutting \cap callback : IsArmed(record[g]) => task[g] # "none"

\* A relay that is on is switched off in the end, if the entry is not unloaded and the
\* clock does not go back.
RelayReleased == (relay /\ unloads = 0) ~> (~relay \/ unloads > 0 \/ behind)
=============================================================================
