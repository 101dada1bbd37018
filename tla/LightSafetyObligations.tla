----------------------- MODULE LightSafetyObligations -----------------------
(* LightSafetyObligations (application/light_safety_obligations.py): the delayed
   offs that automation owes.  A run that will switch a target off after its delay
   arms a record first; the record is reconciled by a task when the run's own off
   failed, or when the entry is set up again.  At most two reconciliations may be
   made of one record.

   Every operation holds one lock over its saves, so that it is one action with
   its outcomes: acknowledged, raised or cancelled, cut by the end of the process.
   A task that waits for its deadline or for its turn is "asleep": it may go on at
   any later time.  The callback (ScenarioExecutor.async_reconcile_light_obligation)
   is made without the lock and answers what LightAuthority.tla shows.  The
   repair issues that the coordinator raises and clears are left out.                *)

EXTENDS Naturals, FiniteSets

CONSTANTS Targets, Scenarios, Nothing,
          Capacity,    \* MAX_LIGHT_SAFETY_OBLIGATIONS
          MaxAttempts, \* MAX_LIGHT_SAFETY_RECONCILE_ATTEMPTS
          MaxGen, MaxFaults,   \* records armed; failed saves, crashes, damaged files
          Absent, Invalid, Corrupt

Gens == 1..MaxGen

\* A record: generationId, attempt, scenarioId.  Deadlines, the evidence of its guards
\* and the ownership revision are the callback's business.
Records == [gen : Gens, attempt : 0..MaxAttempts, scenario : Scenarios]

\* The document: one record per target at most.
Payloads == [Targets -> Records \union {Nothing}]

\* _reconcile_outcome; "settled" is confirmed or invalidated: both end the record.
Outcomes == {"settled", "retry"}

Asleep(g) == [gen |-> g, at |-> "asleep"]
Calling(g) == [gen |-> g, at |-> "calling"]
Tasks == [gen : Gens, at : {"asleep", "calling"} \union Outcomes]

INSTANCE SafetyDisk

ASSUME ObligationsAssumption ==
    /\ Nothing \notin Records /\ Nothing \notin Tasks
    /\ MaxAttempts \in Nat \ {0} /\ MaxGen \in Nat /\ MaxFaults \in Nat
    /\ {Absent, Invalid, Corrupt} \cap Payloads = {}
    /\ Absent # Invalid /\ Absent # Corrupt /\ Invalid # Corrupt

VARIABLES disk,      \* the files of the store
          up,        \* "down", "loaded" (async_load is through), "started" (start is called)
          recs,      \* _records
          task,      \* _tasks: of each target, with what its callback answered
          faults,    \* counter of the bound
          \* observation only:
          gens,      \* records armed
          calls,     \* callbacks made for each record
          owed,      \* acknowledged records that nobody has begun to end
          ended,     \* records whose end was acknowledged
          adopted    \* records that a task has been given to

ghosts == <<gens, calls, owed, ended, adopted>>
vars == <<disk, up, recs, task, faults, ghosts>>

Empty == [t \in Targets |-> Nothing]
Held == {t \in Targets : recs[t] # Nothing}

\* A file that is there again after an older one was restored may hold any payload.
TypeOK ==
    /\ disk \in Disks
    /\ up \in {"down", "loaded", "started"}
    /\ recs \in Payloads
    /\ task \in [Targets -> Tasks \union {Nothing}]
    /\ faults \in 0..MaxFaults
    /\ gens \in 0..MaxGen
    /\ calls \in [Gens -> Nat]
    /\ {owed, ended, adopted} \subseteq SUBSET Gens

Init ==
    /\ disk = NewDisk
    /\ up = "down"
    /\ recs = Empty
    /\ task = Empty
    /\ faults = 0
    /\ gens = 0
    /\ calls = [g \in Gens |-> 0]
    /\ owed = {} /\ ended = {} /\ adopted = {}

---------------------------------------------------------------------------
(* One save of a document.                                                   *)

Fault == faults < MaxFaults /\ faults' = faults + 1

Acked(doc) == disk' \in SaveAcks(disk, doc) /\ recs' = doc /\ UNCHANGED <<up, faults>>

\* The save raised, or its caller was cancelled in it: the memory is as before.
Failed(doc) ==
    Fault /\ disk' \in SaveFailures(disk, doc) /\ UNCHANGED <<up, recs>>

Gone == up' = "down" /\ recs' = Empty /\ task' = Empty

\* The process ends in the save, or cancel_all cuts the task that makes it.
Dies(doc) == Fault /\ disk' \in SaveFailures(disk, doc) /\ Gone

Put(t, rec) == [recs EXCEPT ![t] = rec]
Without(ts) == [t \in Targets |-> IF t \in ts THEN Nothing ELSE recs[t]]

GensAt(ts) == {recs[t].gen : t \in ts \cap Held}

\* _cancel_task; a task inside its callback ends as well.
Untasked(ts) == [t \in Targets |-> IF t \in ts THEN Nothing ELSE task[t]]

\* Nobody calls the coordinator before it is started: the executor is made last.
Up == up = "started"

---------------------------------------------------------------------------
(* Calls of the executor's runs and of the manual listener.  A run that armed a
   record names it in its later calls: they change nothing if another one is current. *)

\* Mutant of Arm: the record is put in memory, and its save is not waited for.
ArmUnsaved(t, s) ==
    /\ Up /\ gens < MaxGen
    /\ LET doc == Put(t, [gen |-> gens + 1, attempt |-> 0, scenario |-> s])
       IN  disk' \in SaveFailures(disk, doc) /\ recs' = doc
    /\ owed' = (owed \ GensAt({t})) \union {gens + 1}
    /\ ended' = ended \union GensAt({t})
    /\ task' = Untasked({t})
    /\ gens' = gens + 1
    /\ UNCHANGED <<up, faults, calls, adopted>>

\* async_arm: a new record, in the place of an earlier one of the target.
Arm(t, s) ==
    /\ Up /\ gens < MaxGen
    /\ t \in Held \/ Cardinality(Held) < Capacity
    /\ gens' = gens + 1
    /\ LET g == gens + 1
           doc == Put(t, [gen |-> g, attempt |-> 0, scenario |-> s])
       IN  \/ /\ Acked(doc)
              /\ owed' = (owed \ GensAt({t})) \union {g}
              /\ ended' = ended \union GensAt({t})
              /\ task' = Untasked({t})
           \/ /\ Failed(doc) \/ Dies(doc)
              /\ owed' = owed \ GensAt({t})
              /\ up' # "down" => UNCHANGED task
              /\ UNCHANGED ended
    /\ UNCHANGED <<calls, adopted>>

\* async_complete of several targets at once is async_cancel_scenario.
Remove(ts) ==
    /\ Up
    /\ owed' = owed \ GensAt(ts)
    /\ \/ /\ Acked(Without(ts))
          /\ ended' = ended \union GensAt(ts)
          /\ task' = Untasked(ts)
       \/ /\ Failed(Without(ts)) \/ Dies(Without(ts))
          /\ up' # "down" => UNCHANGED task
          /\ UNCHANGED ended
    /\ UNCHANGED <<gens, calls, adopted>>

\* async_cancel: presence, a manual action, or a run's confirmed off.
Cancel(t) == t \in Held /\ Remove({t})

CancelScenario(s) ==
    LET ts == {t \in Held : recs[t].scenario = s} IN ts # {} /\ Remove(ts)

\* Mutant of Retry: a physical attempt of the run is added to those made, whose
\* budget it does not look at.
RetryUncounted(t, physical) ==
    /\ Up
    /\ recs[t] # Nothing
    /\ LET rec == [recs[t] EXCEPT !.attempt = IF physical THEN @ + 1 ELSE @]
       IN  /\ Acked(Put(t, rec))
           /\ task' = [task EXCEPT ![t] = Asleep(rec.gen)]
           /\ adopted' = adopted \union {rec.gen}
    /\ UNCHANGED <<gens, calls, owed, ended>>

\* async_retry: the off of a run failed, possibly after its service was called.
Retry(t, physical) ==
    /\ Up
    /\ recs[t] # Nothing
    /\ LET rec == [recs[t] EXCEPT !.attempt = IF physical /\ @ < 1 THEN 1 ELSE @]
           spent == rec.attempt >= MaxAttempts
           doc == Put(t, IF spent THEN Nothing ELSE rec)
       IN  /\ owed' = IF spent THEN owed \ {rec.gen} ELSE owed
           /\ \/ /\ Acked(doc)
                 /\ task' = [task EXCEPT ![t] = IF spent THEN Nothing ELSE Asleep(rec.gen)]
                 /\ ended' = IF spent THEN ended \union {rec.gen} ELSE ended
                 /\ adopted' = adopted \union {rec.gen}
              \/ /\ Failed(doc) \/ Dies(doc)
                 /\ up' # "down" => UNCHANGED task
                 /\ UNCHANGED <<ended, adopted>>
    /\ UNCHANGED <<gens, calls>>

---------------------------------------------------------------------------
(* _async_reconcile.                                                         *)

Live(t, at) ==
    /\ task[t] # Nothing /\ task[t].at = at
    /\ recs[t] # Nothing /\ recs[t].gen = task[t].gen

\* Mutant of Reserve: the attempt is counted in memory only.
ReserveUnsaved(t) ==
    /\ Live(t, "asleep")
    /\ recs[t].attempt < MaxAttempts
    /\ recs' = Put(t, [recs[t] EXCEPT !.attempt = @ + 1])
    /\ task' = [task EXCEPT ![t] = Calling(task[t].gen)]
    /\ calls' = [calls EXCEPT ![task[t].gen] = @ + 1]
    /\ owed' = IF recs[t].attempt + 1 >= MaxAttempts THEN owed \ {recs[t].gen} ELSE owed
    /\ UNCHANGED <<disk, up, faults, gens, ended, adopted>>

\* The attempt is reserved on the disk, then the callback is made.  A reservation
\* that raised is counted in memory and tried again, or given up.
Reserve(t) ==
    /\ Live(t, "asleep")
    /\ recs[t].attempt < MaxAttempts
    /\ LET rec == [recs[t] EXCEPT !.attempt = @ + 1]
           last == rec.attempt >= MaxAttempts
           doc == Put(t, rec)
       IN  /\ owed' = IF last THEN owed \ {rec.gen} ELSE owed
           /\ \/ /\ Acked(doc)
                 /\ task' = [task EXCEPT ![t] = Calling(rec.gen)]
                 /\ calls' = [calls EXCEPT ![rec.gen] = @ + 1]
              \/ /\ Fault
                 /\ disk' \in SaveFailures(disk, doc)
                 /\ recs' = IF last THEN Put(t, Nothing) ELSE doc
                 /\ task' = IF last THEN Untasked({t}) ELSE task
                 /\ UNCHANGED <<up, calls>>
              \/ Dies(doc) /\ UNCHANGED calls
    /\ UNCHANGED <<gens, ended, adopted>>

CallbackAnswers(t, outcome) ==
    /\ Live(t, "calling")
    /\ task' = [task EXCEPT ![t].at = outcome]
    /\ UNCHANGED <<disk, up, recs, faults, ghosts>>

\* Mutant of Decide: a transition that was not saved is not tried again.
DecideOnce(t, outcome) ==
    /\ Live(t, outcome)
    /\ LET rec == recs[t]
           over == outcome # "retry" \/ rec.attempt >= MaxAttempts
           doc == Put(t, IF over THEN Nothing ELSE rec)
       IN  /\ owed' = IF over THEN owed \ {rec.gen} ELSE owed
           /\ \/ /\ Acked(doc)
                 /\ task' = [task EXCEPT ![t] = IF over THEN Nothing ELSE Asleep(rec.gen)]
                 /\ ended' = IF over THEN ended \union {rec.gen} ELSE ended
              \/ /\ Failed(doc) /\ task' = Untasked({t}) /\ UNCHANGED ended
    /\ UNCHANGED <<gens, calls, adopted>>

\* What the callback answered is saved; an attempt after a save that raised starts
\* from the record as it stands, unless the budget is spent.
Decide(t, outcome) ==
    /\ Live(t, outcome)
    /\ LET rec == recs[t]
           last == rec.attempt >= MaxAttempts
           over == outcome # "retry" \/ last
           doc == Put(t, IF over THEN Nothing ELSE rec)
       IN  /\ owed' = IF over THEN owed \ {rec.gen} ELSE owed
           /\ \/ /\ Acked(doc)
                 /\ task' = [task EXCEPT ![t] = IF over THEN Nothing ELSE Asleep(rec.gen)]
                 /\ ended' = IF over THEN ended \union {rec.gen} ELSE ended
              \/ /\ Fault
                 /\ disk' \in SaveFailures(disk, doc)
                 /\ recs' = IF last THEN Put(t, Nothing) ELSE recs
                 /\ task' = [task EXCEPT ![t] = IF last THEN Nothing ELSE Asleep(rec.gen)]
                 /\ UNCHANGED <<up, ended>>
              \/ Dies(doc) /\ UNCHANGED ended
    /\ UNCHANGED <<gens, calls, adopted>>

---------------------------------------------------------------------------
(* Set-up and the end of the process.                                        *)

Spent(doc) == {t \in Targets : doc[t] # Nothing /\ doc[t].attempt >= MaxAttempts}

\* The records of a document that a set-up keeps.
Kept(doc) == [t \in Targets |-> IF t \in Spent(doc) THEN Nothing ELSE doc[t]]

\* Mutant of Load: a document restored from the N-1 copy is used like any other.
LoadRestored ==
    /\ up = "down"
    /\ \E a \in LoadAnswers(disk) :
        /\ disk' = IF a.kind = "value" THEN Saved(a.disk, Kept(a.doc)) ELSE a.disk
        /\ recs' = IF a.kind = "value" THEN Kept(a.doc) ELSE recs
        /\ up' = IF a.kind = "error" THEN up ELSE "loaded"
    /\ UNCHANGED <<task, faults, ghosts>>

\* async_load: a restored document gives its records up; a record
\* whose attempts are spent is dropped.  Each of these changes is saved.
Load ==
    /\ up = "down"
    /\ \E a \in LoadAnswers(disk) :
        LET doc == IF a.flagged THEN Empty ELSE Kept(a.doc)
            saves == a.flagged \/ Spent(a.doc) # {}
        IN  CASE a.kind = "error" ->
                    disk' = a.disk /\ UNCHANGED <<up, recs, faults>>
              [] a.kind = "none" ->
                    disk' = a.disk /\ up' = "loaded" /\ UNCHANGED <<recs, faults>>
              [] a.kind = "value" ->
                    \/ /\ disk' = IF saves THEN Saved(a.disk, doc) ELSE a.disk
                       /\ recs' = doc /\ up' = "loaded"
                       /\ UNCHANGED faults
                    \/ /\ saves /\ Fault
                       /\ disk' \in SaveFailures(a.disk, doc)
                       /\ UNCHANGED <<up, recs>>
    /\ UNCHANGED <<task, gens, calls, owed, ended, adopted>>

\* The load is cut by the end of the process or by the latch's own write.
LoadCut ==
    /\ up = "down" /\ Fault
    /\ disk' \in LoadCuts(disk) /\ disk' # disk
    /\ UNCHANGED <<up, recs, task, ghosts>>

\* start: every record of the loaded document gets its task.
Start ==
    /\ up = "loaded"
    /\ up' = "started"
    /\ task' = [t \in Targets |-> IF recs[t] = Nothing THEN Nothing ELSE Asleep(recs[t].gen)]
    /\ adopted' = adopted \union GensAt(Targets)
    /\ UNCHANGED <<disk, recs, faults, gens, calls, owed, ended>>

\* The entry is unloaded (its runs are cancelled, then cancel_all), or the process ends.
Stop == up # "down" /\ Gone /\ UNCHANGED <<disk, faults, ghosts>>

\* A file is damaged while the entry is down: what only it held is no longer owed.
DamageFile ==
    /\ up = "down" /\ Fault
    /\ \E bad \in {Invalid, Corrupt} :
        disk' \in {[disk EXCEPT !.cur = bad], [disk EXCEPT !.prev = bad]}
    /\ disk'.cur # disk.cur \/ Valid(disk.prev)
    /\ owed' = IF disk'.cur # disk.cur THEN {} ELSE owed
    /\ UNCHANGED <<up, recs, task, gens, calls, ended, adopted>>

Next ==
    \/ \E t \in Targets, s \in Scenarios : Arm(t, s)
    \/ \E t \in Targets : Cancel(t)
    \/ \E s \in Scenarios : CancelScenario(s)
    \/ \E t \in Targets, physical \in BOOLEAN : Retry(t, physical)
    \/ \E t \in Targets : Reserve(t)
    \/ \E t \in Targets, outcome \in Outcomes : CallbackAnswers(t, outcome)
    \/ \E t \in Targets, outcome \in Outcomes : Decide(t, outcome)
    \/ Load
    \/ LoadCut
    \/ Start
    \/ Stop
    \/ DamageFile

Spec == Init /\ [][Next]_vars

\* The event loop runs every task that is not waiting for its callback: the reserve
\* and the decision of a task come, unless something ends it.
FairSpec ==
    /\ Spec
    /\ \A t \in Targets :
        /\ WF_vars(Reserve(t))
        /\ WF_vars(\E outcome \in Outcomes : Decide(t, outcome))

---------------------------------------------------------------------------
(* Properties.                                                               *)

\* MAX_LIGHT_SAFETY_RECONCILE_ATTEMPTS: one record is reconciled twice at most, whatever
\* saves fail and however often the process ends.
BudgetKept == \A g \in Gens : calls[g] <= MaxAttempts

\* A record whose end was acknowledged (cancelled, completed, replaced or exhausted)
\* never comes back to memory: not from the disk, not from its N-1 copy.
EndedStaysEnded == \A t \in Held : recs[t].gen \notin ended

\* "a restart will schedule it" (async_arm): what was acknowledged and not begun to end
\* has its task after the next set-up, if the store never fell back to its N-1 copy.  No
\* failed call, on this target or another, no crash and no cancelled task takes an
\* acknowledged record away.
PromiseSurvives ==
    [][up = "loaded" /\ up' = "started" /\ ~disk.latch =>
         \A g \in owed : \E t \in Targets : task'[t] = Asleep(g)]_vars

\* A record that has a task is tried or ended: no failed save and no cancelled call
\* leaves it in memory with nobody to act on it.
Pending(g) == Up /\ g \in adopted /\ \E t \in Held : recs[t].gen = g
Tried(g) == \E t \in Targets : task[t] # Nothing /\ task[t].gen = g /\ task[t].at = "calling"
AdoptedIsTried == \A g \in Gens : Pending(g) ~> (Tried(g) \/ ~Pending(g))
=============================================================================
