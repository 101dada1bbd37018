# Hausman Hub: models, checks and proofs

Hausman Hub is a custom component of Home Assistant. Tablets and a panel command
the devices of a house through it, over HTTP, and it runs scenarios, climate
contours and lighting of its own. It is written for asyncio: one event loop, many
tasks, state in memory between two `await`s, and JSON files that must survive a
power cut. What is hard in it is not an algorithm but the order of steps: a
physical call cannot be taken back, the client may be gone, the file may not have
been written, the config entry may be reloaded while a command is under way.

This directory models the parts of the component that decide whether a physical
command may be sent, was sent, and may be sent again; whether a relay or a light that
was switched on is switched off again, and by whom; which runs of scenarios may be
under way together; and what a client learns of it. Paths below are relative to
`src/custom_components/hausman_hub/`.

## 1. The system

| part | state | operations | hard behaviour |
| --- | --- | --- | --- |
| Verified safety store (`verified_safety_storage.py`) | current file, `.previous` copy, `.recovery-required` latch, `recovered_previous` | `async_load`, `async_save` | write errors that Home Assistant's Store swallows, crashes between file operations, damaged files |
| Idempotency journal (`application/device_action_idempotency.py`) | records by key, at most 256, in memory and in a verified store | reserve, mark pending, mark dispatching, abandon, complete, lookup, load | retries of a key, restarts, fall-back to an older journal |
| Device action API (`device_action_api.py`) | one lifecycle per request, finalizer tasks | `post` of one action, `post` of a batch | deadlines that cancel journal calls, cancelled handlers, late results |
| Safe command lifecycle (`application/safe_device_command_lifecycle.py`) | records by operation, a handle per running command, process-wide leases, restart quarantine | load, start, response, revoke, watchdog, late receipt, close | a response budget that races the execution, overlap of two objects at a reload, tasks that resist cancellation |
| Entry set-up and unload (`__init__.py`) | services of the entry | `async_setup_entry`, `async_unload_entry` | order of closing, requests still under way |
| Intercom release (`application/intercom_release_obligation.py`) | one armed record with a deadline, a timer | load, prepare, arm, cancel, reconcile, shutdown | the relay must be released after a crash, a failed save, a reload |
| Light safety obligations (`application/light_safety_obligations.py`) | record and attempt counter per target, a task per record | load, arm, cancel, retry, reconcile, stop | an attempt is saved before it is made, across restarts; outcomes that come back late |
| Light priority (`application/scenario_light_priority.py`) and the lights of the executor (`application/scenario_executor.py`) | claim per light, one authority lock, the runs' light groups | listener of manual switching, on group, delayed off, reconciler, actions of the app | person and automation at one light; a lock taken in one callback and given back in another |
| Manual light-off protection (`application/manual_light_off_protection.py`) | frozen records, settings, receipts, evidence of sensors | manual events, decisions, sensor events, settings, release, load | promises that outlive sensors, settings, failed saves and restarts |
| Scenario service (`application/scenario_service.py`) | tasks, queues and nested runs of scenarios | start, queue, replace, cancel, close, stop, edit | cancellation at any await, nested runs, edits while running |
| Event stream (`application/event_stream.py`, `realtime_api.py`, `frontend/hausman-hub-pagination.js`) | replay, queue per subscriber, connection, cursor and memory of the client | publish, subscribe with resume, close; read, reconnect, refresh | full queues, gaps, a replay that overlaps what is under way |
| Scenario catalogue, control coordinator, schedules | definitions, controllers of managed scenarios | edit, arm, import | validation long before dispatch |
| Room lighting | desired states per room | supersede, apply | manual and automatic commands of one room |
| Climate contours, guards, ledgers | targets, cooldowns, a signed ledger with an external anchor | apply, guard, record, recover | ledger and anchor that disagree after a crash |
| Curtains, water safety, switches, away mode, tablet power | small windows and latches | sensor events, timers | an event during the call it caused |
| Operation journal | bounded journal, signed archive | append, export, clean up | a crash between export and clean-up |
| Settings, energy, voice, weather, panel, frontend, migrations | documents and projections | edits, reads | little |

How they interact: a request of the device action API reserves its key in the
journal (a call), the journal saves through its verified store (a call), a safe
action is then handed to the safe command lifecycle (a task of its own, awaited
within the response budget), which saves its record through another verified store
and calls back into the view (`before_dispatch`, the dispatch marker, the late
receipt). The executor makes the physical call between two callbacks. A request that
opens the intercom's door also prepares and arms the release obligation, whose own
task switches the relay off and which has a third verified store. Set-up makes a new
journal, lifecycle and obligation; unload closes the lifecycle, shuts the obligation
down, and does not wait for requests. Leases, completed operations and the epoch of
the lifecycle are globals of the process and outlive both objects.

A run of a scenario is started by a trigger, a controller, a schedule or another run.
Its light commands go in groups: the executor asks the light priority before the group,
which takes the authority lock, and tells it afterwards, which gives the lock back. A
command to wait and then switch off arms a light safety obligation first, whose own
task calls the executor's reconciler if the run cannot. The listener of manual
switching, the actions of the app and the reconciler take the same lock. The listener
also tells the manual light-off protection, and every automatic switching-on asks it.
Changes of any of these are published to the broker of the event stream; the panel
reads it and refreshes its snapshot at a gap.

What makes each modelled part correct:

* store: a load never answers less than was acknowledged, or says so;
* journal and API: a key is dispatched once, its record stays, a receipt can be
  replayed, an unused reservation does not block its key;
* safe commands: one execution per entity and at most 16 of them, "not sent" is
  true forever, one late receipt, no new command while a restart left an older one
  uncertain, every lease comes back;
* intercom release: a relay that may be on has an armed record on disk and a task
  that will switch it off, across crashes, failed saves and calls, and unloads;
* light obligations: a delayed off that was acknowledged is tried, at most twice, and
  never again once it is over;
* light priority: automation does not switch off what a person has claimed, and the
  authority lock comes back whatever ends its holder;
* manual light-off protection: automation does not switch on again what a person
  switched off, until the time or the absence that the settings promised;
* scenario runs: they exclude each other as their mode says, a closed or stopped
  service starts nothing, nobody waits for ever;
* event stream: the client handles every event once, or is told that it missed it.

The hazards, each at its line and with the properties aimed at it, are listed in
`PROJECT.json`.

## 2. The modules

```
SafetyStore            abstract: what a store promises its client
  ^ implemented by
VerifiedSafetyStore    one action per file operation          -> ...Proofs
  | its whole calls are exactly
SafetyDisk             operators: the disks a save or load may leave
  | used by
DangerousActionIdempotency   operators: the journal's calls
  ^ extended by
DeviceActions          requests + journal + store + entry     -> ...Proofs
SafeCommandPromise     abstract: what the owner of safe commands promises
  ^ implemented by
SafeDeviceCommands     commands + records + leases + entry (uses SafetyDisk)
                                                              -> ...Proofs

IntercomRelease        requests + obligation + relay + entry (uses SafetyDisk)
                                                              -> ...Proofs
LightSafetyObligations records + tasks (uses SafetyDisk)      -> ...Proofs
LightAuthority         runs + reconciler + listener + app around one light
ScenarioRuns           triggers + nested runs + registry + unload
                                                              -> ScenarioProofs (both)
ManualLightOffProtection   events + sensors + settings (uses SafetyDisk)
                                                              -> ...Proofs
EventStream            broker + connection + client           -> ...Proofs
```

`MC*.tla` extend these for TLC (symmetry sets, sets of damages, tables of settings)
where a run needs one; the others are checked as they are. The `.cfg` files give the
bounds. No module has a RECURSIVE operator. The names that `ScenarioRuns` shares with every
model (`RunsInit`, `RunsNext`, `RunsSpec`, `RunsTypeOK`) say whose they are, since
`ScenarioProofs` extends it together with `LightAuthority`.

### VerifiedSafetyStore

The client loads once, then saves one payload at a time under its own lock; the
n-th payload is the number n. `disk` is the three files, `pc` the point inside the
running call. `SaveBegin .. SaveVerify` and `LoadBegin .. LoadVerify` are the
awaited executor jobs of `async_save` (82-104) and `async_load` (44-80) in their
order; `SaveWrite` and `LoadRestore` have the outcome in which the Store swallowed
the write error, `SaveFails` is an exception or a cancellation at any point.
`Crash` stops the process anywhere; `DamageFile` makes a file unreadable JSON
(`Corrupt`, which the Store moves aside while loading) or a document the
validator refuses (`Invalid`). Damage happens between calls.

`SafetyDisk` is the view the other models have of a store: the set of disks that a
save may leave when it is acknowledged (`SaveAcks`) or not (`SaveFailures`), what a
load may answer and leave (`LoadAnswers`) and what a crashed load leaves
(`LoadCuts`). It is not assumed: `SavesAreAtomic` and `LoadsAreAtomic` are checked
and proved of the detailed module, so a journal call can be one action elsewhere.

### DangerousActionIdempotency and DeviceActions

A record is its fingerprint, state, phase and the request that reserved it, which
stands for the receipt, its bindings and the dispatch id. `Reserved`,
`MarkedPending`, `MarkedDispatching`, `Abandoned`, `Completed` are the copies that
the calls make; `MayReserve`, `MayMark`, ... their early exceptions; `Reloaded` is
the loop of `async_load` (61-115).

`DeviceActions` follows `DeviceActionView.post` (595-1438) and
`_DeviceActionLifecycle` (412-539). A request is at the journal call, the
preparation or the execution that `pc` names. Every journal call is one action,
as the journal's lock covers it, with the outcomes acknowledged, written but not
acknowledged, not written. `DeadlineExpires` is `_await_before_safe_deadline`
(109-146): the call is cancelled or ends all the same and a finalizer releases the
key later. `Dispatch` is the dispatch marker with the physical call. `Cancelled`
is a cancelled HTTP handler at any await. `mem[g]` is the records in memory of the
g-th journal object; a request goes on with the object it started with
(`owner`), as Python closures do, also after `Unload`. `Setup` is the load with
its save; `Crash` may cut a save short.

### SafeDeviceCommands

An operation is a command of one entity by one lifecycle object (`object`).
`Refuse`, `Admit` and `Intend` are `async_start` (312-397), which holds the lock
over its two saves; `Validate`, `Dispatch`, `Return`, `FinishRun` are `_async_run`
and `_async_finish` around the callbacks (535-637); `PersistMarker` the queued
marker task; `WatchdogFires` and `WatchdogPublishes` the watchdog (639-665);
`ResponseDone`, `ResponsePending`, `PendingAnswered`, `ResponseRevoke`,
`HttpCancelled`, `RevokeSaved` are `async_response` and `revoke` with what the
view does next (399-427, 667-683); `RunPublishes` is the late receipt (445-468);
`Close` and `KilledByClose` are `async_close` (470-513); `Load` is `async_load`
(281-310) of a new object, possibly before its predecessor is closed. `mem`,
`quarantine` and `lock` are per object; `leases` and `completed` are per process;
`latest` is the epoch that fences the saves of older objects. A clock of a few
ticks drives the expiry of records, watchdogs and quarantines. `pc` tells an execution
that a close cancelled (`killed`) from one that a crash cut short (`lost`).

### IntercomRelease

`record`, `task`, `callback` and `shutting` are `_record`, `_task`, `_callback` and
the shutdown flag of the g-th `IntercomReleaseObligation`
(`application/intercom_release_obligation.py`); `relay` is the physical relay. A
record is the request that made it and whether it is armed; its deadlines are
abstracted to "some time later". What the store's validator makes of them is not:
`LeftUnsaved` is a next attempt whose deadline it refuses, so that the retry goes on
in memory only, and `behind` with `Refused` is a clock that is behind `armedAt` at a
set-up, which the validator turns into a failed set-up. `Prepare`, `Arm` with
`ArmSaved`, and `CleanUp` are `async_prepare`, `async_arm` and `async_cancel` with
the place in `DeviceActionView.post` or the executor that calls them. Arming is two
actions, since `shutdown` does not take the lock and may come between them; the
other calls hold the lock over their whole body. `SwitchOn` and `NoCall` are the
physical call with its two effects. A task goes through `SwitchOff` (or
`SwitchOffFails`), `ReadBack` and `Settle`: the sleep and `turn_off` of
`async_release_intercom_switch`, the read-back that demands newer evidence, and the
record's removal or its next attempt (`_async_reconcile`). `Setup` is `async_load`
with `start`, `Unload` is `shutdown`, also while its task saves.

Two things are abstracted by choice. A relay that is off may or may not give
new evidence, so `ReadBack` may fail to confirm what is true, never confirm what
is false. And `Due` assumes that a request makes its call within the 15 s after it
armed: only locks of the light priority lie between the two.

### LightSafetyObligations

`recs` is `_records`, one record per target with its generation, its scenario and its
counter of attempts; `task` is its task, asleep until the deadline, in the callback, or
with the callback's outcome. `Arm`, `Cancel`, `CancelScenario` and `Retry` are the
public calls (`application/light_safety_obligations.py`), each over its lock and save;
`Reserve` counts an attempt and saves it before the callback; `CallbackAnswers` and
`Decide` are the callback's end and what becomes of the record. `Load`, `Start` and
`Stop` are the set-up and the unload. A save is acknowledged, raises, or is cut by a
crash. What the reconciler does to the light is any outcome here; deadlines are "some
time later".

### LightAuthority

One light, `lit`, with the number of its last transition, which is what
`last_changed` is compared for. `auth` and `saved` are the claim of the light in
memory and in the store of `LightAutomationPriority`; `lock` is `_authority_lock` with
its holder; `ob` and `rec` the obligation and its reconcile. A run goes through
`Plan` and `Guard` (the plan of the light group and its revision check), `AcquireOn`,
`ClaimOn`, `SendOn`, `NoteOn` (the group that switches on, up to `finalize_light_group`),
`NoteDelay` and `Arm` (at the delay: `note_results` once more, with the lock taken again,
then the record of the delayed off), and `AcquireOff`, `CheckOff`, `SendOff`, `NoteOff` or
`FailedOff` (the delayed off); `Supersede` drops the obligation of an older run, and
`CancelRun` ends a run anywhere. `receipt` is that of the run's last light action: a
confirmed on is noted by `NoteOn`, again by `NoteDelay`, and a third time by `FailedOff`.
`Wake`, `ReconcileLocks`, `ReconcileSends`, `ReconcileConfirms` are
`async_reconcile_light_obligation` (`application/scenario_executor.py`); the handlers of
manual switching and the two halves of an action of the app are the people's side. `Stop`
and `Start` are the unload, or a crash, and the set-up. `chosen` (history) says that the
light is on and that a person has claimed that; it ends when the light goes off, when the
person's claim is released, and when automation owns the light anew at a delay.

Left out: fades, power sources and departures, "reassert" claims, the expiry of claims
after 24 h, the saves of obligations (they are in `LightSafetyObligations`), the N-1
copy of the priority's store. Evidence of the light is always fresh, and a call that
raised has not switched it. Two claims of one kind made between the same two transitions
are one claim: the code tells them apart by the time in `confirmedAt`, which matters only
for the clearing of a stale one. A save of a claim that is in the store already is not
made to raise: the run that it would end can be cancelled there. Every run has a task of
its own, as single and restart scenarios do.

### ManualLightOffProtection

`mem` and `disk` are the document (settings, revision, records by key, receipts) in
memory and in the store; `sens` is the evidence of sensors that the object keeps,
`reported` the sensors' states in Home Assistant, `room` what they should see, and
`owed` (history) the acknowledged records that nothing has ended yet. `ManualOff` and `ManualOn` are the calls of the listener, `Decide` the
question of an automatic switching-on with the removals it makes, `Presence`,
`Untrusted`, `ReportsAgain` a sensor's event with its saves, `ReplaceSettings` and
`Release` the requests of the panel, `ArmDirect` the built-in direct profile, `Setup`,
`Coverage`, `MarkUnhealthy` and `Stop` the life of the object. A call that saves several
documents may raise, be cancelled or crash at each of them (`CutDisks`).

### ScenarioRuns

A trigger's call is a stack of frames: the run it started and the nested runs below it.
`Enter...`, `Skipped` and `QueueTurn` are `async_run_scenario`
(`application/scenario_service.py` 4958-5060) with the modes single, restart and
queued; `Nest`, `NoNest`, `Act`, `Record` a body of one nested call and one command;
`Caught`, `Leave` and `Throw...` what a `CancelledError` does where it comes up, in the
body, in the line of a queue or in a `finally`. `StopAll` is the unload, `Close`,
`ClosedDown` and `Open` the closing of scenarios for a migration, `Edit` a change of
the registry that its cycle check accepts. Left out: conditions, the limit of depth,
changes of mode, and the order in which `_run_lock` is given.

### EventStream

`published` and `oldest` bound the replay of the current broker; `queue` is the
subscriber's, `conn` the view's handler (`realtime_api.py`), `wire` what the connection
holds; `pending`, `busy`, `cursor` and `seen` are the client's queue, the message whose
handler runs, its last id and its memory of ids (`frontend/hausman-hub-pagination.js`).
`Publish`, `Close` and `Setup` are the broker; `Connect`, `Subscribe`, `WriteHello`,
`WriteGap`, `WriteNext` and `Heartbeat` a request; `Drop` and `Ended` the two ends of a
connection; `Read`, `Overflow` and `Pump` the client. `owed` (history) is what was
published to a client that relies on it and was neither handled nor covered by a gap. A
client that subscribes without a cursor relies on its first snapshot, and one whose
queue overflowed on the refresh that follows, so they are owed nothing from before. Left
out: the debounced invalidation of state changes, texts, and the panel's snapshots.

## 3. The runs

A configuration says `CHECK_DEADLOCK FALSE` where the bounds let the model stop: once
the operations, crashes, set-ups or events are used up, nothing is left to do.
`LightObligations`, `LightAuthority` and `LightsRelock` check for deadlocks: a light can
be switched, a process stopped and set up, without end. `ScenarioRuns` has `NobodyStuck`
for it.

| run | question | bounds |
| --- | --- | --- |
| `StorePromise` | does the store implement `SafetyStore`, fall back one save at most, and is `SafetyDisk` exact? | 4 saves, 3 crashes, 2 damages of either kind |
| `ActionsRestart` | is a key dispatched once, and once per journal object across an unload; are dispatch and receipt durable, replays faithful, and is nothing wedged? | 2 requests, 2 keys, 2 bodies, capacity 1, 3 set-ups, 1 damage, 1 unload |
| `ActionsReload` (violated) | is a key dispatched once over a reload? | 2 requests of one key, 1 unload |
| `SafeReload` | exclusion, promise and quarantine over two overlapping objects | 2 commands of one entity, capacity 2, 1 cancelled admission, 1 damage, 1 clock tick |
| `SafeLeases` | does every lease come back at the capacity? | 2 commands, 2 entities, capacity 1, 1 failed save |
| `IntercomCrash` | is a relay that is on covered on disk, guarded by a task, released in the end; are retries retained after an unload? | 2 requests, 2 set-ups, 1 failure, 1 damage, 1 unload |
| `ManualOff` | does a protection hold until what it promised, and is it on disk? | 2 lights, 1 sensor, 1 profile under 3 settings, the direct profile, 2 requests, 2 ticks, 1 fault |
| `LightObligations` | two attempts at most, none after the end, no promise forgotten, every task tried? | 2 targets, 1 scenario, 2 records, 3 faults |
| `LightAuthority` | does a person's claim hold, does the lock come back? | 2 runs, 4 transitions, 2 records, 1 fault |
| `LightsRelock` (violated) | is manual switching noted in the end? | 1 run, 3 transitions, 1 record |
| `ScenarioRuns` | do runs exclude each other, is a closed or stopped service quiet, is nobody stuck? | 3 triggers, 2 scenarios, limit of 1, 1 edit, 1 cut call |
| `EventStream` | does the client handle every event once, or learn that it missed it? | 4 events, queues of 1, replay of 3, 2 in the connection, 2 lost connections, 1 reload |

Why the bounds are enough for the question. Two requests are an original and its
retry, during its life, after it or after a restart, or two keys that compete for
the last place; the theorems of section 4 cover any number of them. A third set-up
loads what a second one already changed. Four saves give the current file, its N-1
copy, one lost write and one save after it; two damages make both copies unreadable.
Two commands of one entity are the two that could exclude each other. For the
quarantine a third one matters, whose record supersedes the first: it is too large for
TLC, and the theorem of section 4 has it. The clock matters where records or quarantines expire: one tick
ends an observation in `SafeReload`; leases do not depend on it, and `SafeLeases` has
none. Two requests at the intercom are the one whose record is armed and the one that
finds it there or comes after its clean-up; two set-ups are the crash or reload and
what follows it.

In `ManualOff` the profile holds no light, or the first one until a time and an
absence, or the second one until an absence, and a request changes from one to another;
two ticks let an interval and a
stable absence end one after the other, and a restart fall between them. Two records
of one target, or of two targets of one scenario, are all that an outcome that comes
back late can meet. Two runs at a light are the one that holds the lock and the one
that waits, or that planned before the first one's change; four transitions are
automation's on, an off and an on of a person in between, and the off that is due. One
fault is a save that raises or a crash; the theorems have any number of both. Three
triggers of a queue with a limit of one
are the running, the waiting and the refused one; two scenarios are a caller and its
callee, and one edit swaps them. In `EventStream` a replay of three with a queue of one
has identifiers that can be resumed from, that are known but too far back, and that are
forgotten.

Every passing property has a mutant in `PROJECT.json`: a plausible bug in the mapped
code that makes it fail under the same bounds.

Some properties carry a condition on purpose. `AtMostOnceDispatch`,
`DispatchIsDurable` and `ReceiptIsDurable` speak of an entry that was not unloaded
(the last two of undamaged files); `AtMostOnceAcrossReload` drops it and fails.
`NothingWedged` speaks of stores that never fell back: after a fall-back the code
keeps every unfinished record as uncertain, by design. `RestartQuarantine` speaks of
undamaged files, since the safe command store ignores its fall-backs, and of calls that
were under way when the process crashed (section 3, safe commands, says why). `RelayCovered`,
`RelayGuarded` and `RelayReleased` speak of an entry that was not unloaded, and
`RelayReleased` of a clock that did not go back; `RelayCovered` speaks of undamaged
files, `RelayGuarded` and `RelayReleased` allow the one damage after which the store
falls back. `PromiseSurvives` speaks of stores that never fell back.
`ProtectionHolds` excuses a record that another one of its profile replaced, a store
whose two copies are lost, and a sensor whose newer evidence was dropped while an older
one was kept. `RunsAlone` says nothing of the mode restart, in which the old run is
cancelled and may still be in its `finally`. `EventsArrive` owes nothing to a client
that subscribes without a cursor or whose queue overflowed: both take a snapshot.

### Fairness

Five runs use it. In `SafeDeviceCommands` (`SafeLeases`) `FairSpec` has weak fairness
of `Intend`, `Return` and `FinishRun` of each operation: the event loop resumes a
task whose await is over (`Intend`, `FinishRun`; the lock they wait for is given
back by tasks that are themselves resumed), and a device call ends, by its answer
or by the timeout of the call (`Return`). Nothing is assumed of clients, clocks,
watchdogs, closes or crashes. In `IntercomRelease` (`IntercomCrash`) it has weak
fairness of a task's next step (its sleep, its relay call and its read-back all have
an end), of the save of an arming, on which the task of the same record would wait,
and of `Setup`: after a crash Home Assistant starts again and sets the entry up. The
failing outcomes of these steps are bounded by `MaxFailures`, that is, failures do not
go on for ever; nothing is assumed of requests and unloads.

In `LightSafetyObligations` it is weak fairness of a task's own steps: its deadline
comes, its reserve is made, its decision is taken; the callback may take as long as it
likes, since `AdoptedIsTried` asks for its beginning only. In `LightAuthority`
(`LightsRelock`) whoever holds the authority lock goes on, as the event loop and the
bounded service calls make it, and a handler that waits for the lock gets it in its
turn (strong fairness), as asyncio's lock is first come, first served: with all that,
the handlers of the counterexample starve, because the holder of the lock waits for
itself. In `EventStream` both event loops go on, a connection that stays up
carries what it holds, handlers end, the client reconnects, and an entry that was
unloaded is set up again; connections may be lost and queues overflow at any time within
the bounds.

### Disagreements with the code's own words

Two runs are expected to be violated, and are listed with their quotes under `findings`.

* `ActionsReload`: after a reload the old entry's request goes on with its old
  journal object while the new object has released its reservation: one key, two
  physical calls.
* `LightsRelock`: a reconciliation of an owned light that was confirmed awaits
  `async_clear_ownership` while it holds the authority lock, and that method takes the
  same lock. The reconciler waits for itself, and from then on manual switching is not
  noted and no automatic light group starts.

The models also show the following, each with TLC when its condition above is dropped,
or by a behaviour of the run; none is kept as a run of its own.

* Store: a corrupt current file without a good N-1 copy fails one set-up; the failed
  load also moved the file aside, so the next set-up finds nothing and starts with an
  empty document.
* Safe commands: an admission cancelled by its deadline keeps the lease of its entity
  until the process ends, since `CancelledError` is not an `Exception`; the record
  expires 30 s after the admission and the watchdog fires 30 s after the start of the
  execution, so that its receipt is always too late; and the store ignores
  `recovered_previous`, so that after a fall-back a command that was sent is recorded as
  not dispatched and its entity is not quarantined. A call that a close cancelled counts
  as completed: the next object admits a command of the same entity, whose record
  supersedes the uncertain one, and after a crash within the window nothing quarantines
  the entity for the cancelled call any more (it takes three commands and three
  lifecycle objects).
* Intercom: an unload drops the callback of an obligation that is prepared but not
  armed; its request then arms and switches the relay on, while neither the old object
  nor the new one, which dropped the unarmed record, has a task for it. A record armed
  in the future of the present clock is meant to be released at once; its new deadline
  lies before `armedAt`, the store's own validator refuses it, and the set-up of the
  entry fails until the clock has caught up.
* Light obligations: the recovery latch is never removed, so that after one fall-back
  every later set-up drops all records; a record that was out of attempts is dropped at
  the load, and one whose transition failed with none left is dropped, without a report;
  a load of a restored document that fails after it saved the empty one forgets the
  records silently. A record whose run was cancelled has no task until the next set-up.
* Light priority, the second note: a run notes its confirmed on again at its delay
  (`scenario_executor.py` 1712-1723), when it has given the authority lock back, and only
  a manual record keeps automation from owning the light at its revision of that moment
  (`scenario_light_priority.py` 528-555). The record of a person's claim can be gone by
  then: a late off handler removes the claim of an on that came after the off
  (`manual_light_off_protection_events.py` 131-139); a plan that still sees the light off
  drops the claim of an on in the app that is about to be sent
  (`scenario_light_priority.py` 332-340); an off in the app drops it and is cancelled
  before its call. If the delayed off comes before the on handler has noted the light
  again, or if that handler's save raises, automation switches off what a person switched
  on. `ManualOnHolds` has this, and nothing else, as its exception, which is the last
  conjunct but one of `NoteDelay`; with `chosen' = chosen` there TLC shows the loss in a
  behaviour of 16 states without a fault.
* Light priority, retries: an unconfirmed delayed off puts its obligation up for an immediate
  retry (`scenario_executor.py` 4339-4345), then the end of the light group discards
  automation's ownership (`scenario_light_priority.py` 517-520), which the
  reconciliation demands (`scenario_executor.py` 2349): the retry does nothing.
* Manual light-off protection: a second manual off of a profile whose settings changed
  replaces the first record and its promise; evidence of a sensor outlives the record
  that wanted it, while newer events are dropped as long as the coverage is unhealthy; a
  settings request that is cancelled leaves its change in memory only, and its retry is
  answered as confirmed.
* Scenario runs: the limit of a queue counts its running run too, and not those who
  arrive between the lock's release and its next holder (the documents limit the
  waiting ones, `docs/scenario-safety.md` 12-14); with three edits during one run two
  scenarios can come to call each other, and both wait for ever in front of their
  queues, which the cycle check is behind (39-40 of the same document); a run that is
  cancelled in the `finally` in which it waits for `_run_lock` leaves its place in the
  queue taken.
* Event stream: after an overflow the cursor is meant to be gone, but the handler that
  was under way sets it again unless it was a hello or a gap; with no cursor, what is
  published between the refresh and the reconnection is seen at the next poll only. A
  gap that comes while a refresh is busy is ignored. `HandledOnce` needs at least that the
  client's memory (128) is larger than what may wait (32) and the replay (32) together:
  where heartbeats fill a smaller one, TLC finds an event handled twice.

## 4. The proofs

TLAPS checks them for every value of the constants that satisfies the
modules' assumptions: bounds are naturals, capacities and limits positive where the code
has them so, the markers of files and records are distinct from payloads, tasks and keys, and
the sets of keys, of scenarios, of lights and of profiles are finite, as anything in a
document is.

**VerifiedSafetyStoreProofs.** `KeepsPromise`, `SavesAreAtomic`, `LoadsAreAtomic`
and `FallsBackOneSave` of every behaviour. None is inductive: `IInv` adds what
each point of a call knows of the disk the call began with (`SaveProgress`,
`LoadProgress`), that a current file without a latch is no older than the last
acknowledged payload (`NothingOlder`), and that an undamaged disk has lost nothing
(`Undamaged`). The refinement then goes action by action: every file step maps to a
stutter or to one step of `SafetyStore`. `FallsBackOneSave` needs a second
invariant about the N-1 copy after at most one damage.

**DeviceActionsProofs.** Every property of `ActionsRestart`.

*Within one object:* `TypeOK` (with the capacity of every journal) and
`AtMostOncePerObject`. The invariant: between its reservation and its end a request
holds the record of its key in its journal object (`HoldersHold`); a request that
made its call still does, or the object went down with the process and no request
works with it (`DispatchesHeld`). The step lemma treats the twelve actions of a
request alike: each leaves disk and journals alone (`Quiet`) or hands one journal to
the store that differs from its predecessor in the request's own key (`Writing`).

*Over crashes and restarts:* `DispatchIsDurable` and `ReceiptIsDurable` of undamaged
files and without an unload, and `AtMostOnceDispatch` without an unload and with one
damaged file at most. The invariant adds that every request works with the latest object
(`Attended`), that what was given out as a receipt is in the current file and, while the
entry is set up, in memory (`ReceiptsKept`), and that a dispatch is past the boundary in
memory and `Secured` on disk (`Fenced`). Before any damage that means more than the
current file: the reservation is there one save before the boundary (`Foreseen`), so
that the N-1 copy has the key too (`Intact`). After a damage one copy with the key is
left, and a load that falls back takes every unfinished record for dispatched
(`Recoverable`): that loses the receipt, but not the key. Two damages can take both
copies. The condition on unloads is needed: `ActionsReload` shows the behaviour without
it.

*Replays and reservations:* `ReplayIsFaithful` and `NothingWedged` without a condition
beyond their own, over unloads, any number of damages and fall-backs. Every record in a
file or a journal object has an author (`Author`), a request with its key and body that
is past its reservation and was not answered from the journal itself; a record in memory
is completed by a request that is over, or was loaded, and a load leaves no reservation
behind (`Placed`). What a replay rests on then stays as it was (`Replayed`). That damage
does no harm here is because a damaged file loses records and never makes one.

**IntercomReleaseProofs.** Every safety property of `IntercomCrash`, for any number of
requests, failures and restarts: `TypeOK`; `RelayCovered` of undamaged files;
`RelayGuarded` with its one damage; and `RetriesRetained`. Neither of the middle two is
inductive: that a relay is covered at `SwitchOn` depends on the record saved at the
arming and on nobody having cleared it since. `IInv` adds that requests and tasks work
with the one object of the entry (`OneObject`), what each point of a request knows of the
record in memory (`RequestInv`), that a task works on an armed record and confirms only
what is true (`TaskInv`), and that from before the call until the relay is off the
record is `Secured` on disk and, while the entry is set up, armed in memory with a task
(`RelayInv`). As in the journal, `Secured` is two things: before a damage the current
file is armed and the N-1 copy has the unarmed record that was saved before it
(`Intact`); after one, the next load finds an armed record, or falls back to one, which
it arms (`Recoverable`). `IInv` holds as long as there was one damage at most and no
unload (`Quiet`).

`RetriesRetained` is about what `Quiet` excludes, objects that were shut down, and has an
invariant of its own: one that keeps its callback has a task for its armed record, and
no request is left that could arm one (`Retained`). The second half is what makes it
inductive: a request whose record was prepared before the shutdown arms only if the
record is still its own.

`RelayAttended` is the safety half of `RelayReleased`: while a relay is on, the next step
of its release waits for nothing, neither for the lock nor for a request that is about to
call; and while the entry is down, a load can answer, and whatever it answers the set-up
starts the release again. It needs that a call is made of a relay that is off (`Calm`):
the call before it was released, or its record would leave no place for another.

**LightSafetyObligationsProofs.** `TypeOK`, `BudgetKept`, `EndedStaysEnded` and
`PromiseSurvives` for any number of targets, records, failed saves, crashes and
damaged files. The strengthening says of memory (`SoundRecs`) and of a disk that never
fell back (`SoundDisk`) that each record has as many attempts counted as were made, was
armed, is not over, and belongs to one target; `Promise` says that what is owed is in
the current file and, while the object is set up, in memory. That the counter is
saved before the callback is what makes `SoundDisk` inductive over a crash.
`AdoptedAttended` is the safety half of `AdoptedIsTried`: a record that was given a task
and is still in memory has its own task, which does not wait with its attempts used up.
`Fit` says it of each target; that generations belong to one target (`SoundRecs`) is why
an operation on one does not adopt the record of another.

**ManualLightOffProtectionProofs.** `TypeOK`, `ProtectionHolds` and `ProtectionDurable`,
the whole of what `ManualOff` checks, for any lights, sensors, profiles, settings, times
and requests, and any number of failed saves, crashes and damaged files.
`ProtectionHolds` speaks of the moment of a switching-on and only remembers those that had
no excuse; the rest of the invariant says where a promise is until then. A coordinator that is set up and
healthy has the record of every promise that nothing excuses, and so has the current
file that no fall-back replaced (`Promised`); an undamaged store has neither latch nor
lost file (`Undamaged`); what the coordinator takes for absence was reported, is so in
the room, and is no older there, unless newer evidence was dropped (`Evident`); and no
record waits for longer than its interval from now (`Bounded`), which is what makes the
end of the time and the clock's own end agree. The removal of a record is then justified
by evidence of each of its sensors.

**ScenarioProofs, about ScenarioRuns.** `RunsTypeOK`, `RunsAlone`, `ClosedIsQuiet` and
`StopStartsNothing`, for any finite set of scenarios, any number of triggers, edits and
cancellations and any limit of the queues. The invariant: a frame that is not the last of
its call waits for a nested run, and no scenario repeats below the last frame (`Shape`),
which bounds the depth; a queue's line is exactly those whose last frame waits in it, in
any order (`Lines`), and its counter is no less than those who were counted (`Waiters`).
`RunsAlone` needs that a queued run in its body holds its queue's lock and is the only
one of its own stack (`QueuedAlone`: a recursive call does not come to its body), that
the run of a single scenario is the one its task names (`SingleAlone`), and that only
queued ones wait in line (`QueuedInLine`). `ClosedIsQuiet` and the unload need that
whoever is at work for a closed scenario is one of those that are waited for
(`ClosingInv`), and that after the unload whoever waits to come in is about to be
cancelled (`StopInv`).

`NobodyForgotten`, `OnlyCircles`, `EditedMeanwhile` and `ThreeEditsAtLeast` say of every
instance what `NobodyStuck` says of its run, with the guards of a call's next step
(`GoesOn`) in the place of ENABLED; on the instance of the run TLC finds the two to be the
same. `NobodyForgotten`: no lock and no place in a queue is left behind. A call that
cannot take its next step waits for the run lock, whose holder goes on, or in line: for
the holder of the queue, which is in the body of its run, or for the first in line, who
goes on. If then no call at all can go on (`Stuck`), each scenario whose queue is waited
for has a holder that waits in another one's: the holders' frames form a circle of calls
(`OnlyCircles`), as the frames of a stack call each other one after the other (`Chained`).
A circle is what the cycle check of an edit refuses, so that the frames are not all of
the definitions in force (`EditedMeanwhile`). How many edits that takes is counted by
`EditInv`: the registry begins without nested calls, so after one edit at most one call
is known, defined or in use, and after two at most two, which form no circle: the second
edit gave the same scenario another callee, or was checked together with the first. Hence
`ThreeEditsAtLeast`, for any number of scenarios; the three edits that do it are in
section 3.

**ScenarioProofs, about LightAuthority.** `TypeOK`, `LockIsServed` and `ManualOnHolds` for
any number of runs, transitions, failed saves and restarts. The strengthening: who is
between taking the lock and giving it back is its holder (`LockInv`); what a person
claimed is automation's neither in memory nor in the store (`ChosenInv`), also after the
rollback of an action of the app (`UserInv`); a run that is about to switch off, or to own
what it switched on, holds the lock and nobody has claimed the light since it looked
(`RunInv`). `ManualOnHolds` follows from the guard of `SendOff` and of the reconciler
with these. `NoteOn` and `FailedOff` claim the light for automation with the lock that
they have held since they last looked, so nobody has claimed it; `NoteDelay` takes the
lock anew and cannot know, which is why the property ends there a claim that left no
record (section 3). `LockIsServed` counts a reconciliation that waits for its own lock
as a holder: that it does not go on is what `LightsRelock` shows.

**EventStreamProofs.** `TypeOK`, and `NothingLost`, the safety half of `EventsArrive`: a
subscribed client for which nothing waits, neither in the broker's queue, nor in the
connection, nor in its own, is owed nothing. For any sizes of replay, queues and
connection, any number of lost connections and reloads. The invariant says that
whatever is owed is on its way (`OnItsWay`), and that each identifier that could
become the cursor, and that the current broker knows, has everything before it waiting
in the client or ahead of it (`BehindClient`, `BehindWire`, `BehindQueue`), so that the
replay after it has the rest; `Marks` and `Fresh` order the identifiers of one broker.

**SafeDeviceCommandsProofs.** `TypeOK`, `ExclusiveExecution`, `KeepsPromise` and
`RestartQuarantine`, the whole of what `SafeReload` checks, and `NoneStranded`, the safety
half of `EntityEventuallyFree`, for any number of commands,
entities, objects, crashes, cancelled admissions, failed saves and damaged files.
`TypeOK` needs that a generation counts commands that were admitted once (`Counted`);
exclusion, that an execution holds the lease of its entity from its admission on and that
there are no more leases than places (`LInv`), so that executions inject into leases. For
the refinement (`RInv`) an operation that was answered is over, sent or revoked, the
point of the request says whether the call was made, and a late receipt is due only of a
released command; then every step is one of `SafeCommandPromise` or a stutter. The
quarantine (`QInv`) needs that the record of each call that may still be made, is being
made or was lost in its window (`Owing`) is the newest of its entity, in the current
file and in the newest object, and that a lost one keeps its quarantine there
(`Covered`); that no task survives its process (`Gone`, `Down`) is what keeps it so.
`NoneStranded`: a lease belongs to an operation that is not over, and a registered handle
to an execution; each can go on, or waits for its object's lock, whose holder is an
admission between its two saves (`Worked`, `Locked`, `Handles`). The one exception is the
admission that its deadline cancelled (section 3, safe commands).

The inductive invariants of these modules were checked by TLC before they were proved.

**Only model-checked:**

* every liveness property (`EntityEventuallyFree`, `RelayReleased`, `AdoptedIsTried`,
  `EventsArrive`): that what can go on does go on is fairness. Their safety halves,
  that somebody can, are proved: `NoneStranded`, `RelayAttended`, `AdoptedAttended`,
  `NothingLost`;
* `NobodyStuck`: it speaks of ENABLED, which the prover does not know. With the guards
  spelled out instead it is `ThreeEditsAtLeast`;
* `HandledOnce`: sizes alone do not decide it. Each reconnection adds a hello to what the
  client remembers, and after a gap the cursor can come back to events before it, so that
  what lies between two copies of an event is bounded by the number of lost connections
  too. The run has two of them.

The two runs that are violated state what does not hold.

## 5. What is not modelled

In the modelled parts: the batch view and its own lifecycle; the climate mode write
of the view; texts, schemas and HTTP status codes; the pruning of the safe command
journal at 128 records and of `targetGenerations`; the late write of a save whose
executor thread outlives its cancellation; a crash in the middle of one file's
replacement (Home Assistant writes a temporary file and renames it); deadlines of the
intercom's record, and a call that comes more than 15 s after its arming. That the
intercom refuses every opening while a release stays unconfirmed, or after a
preparation was cancelled, is in the model but no property speaks of it: a door
that stays shut is the safe side, and no text of the repository promises more.

Of the lights: what section 2 says under each module; a light group of a nested run,
which runs in its caller's task (`PROJECT.json`, hazards); the scope "source" and
profiles without a sensor of the manual light-off protection, its limits of 128 records
and of request identifiers, and its import of old documents. Of scenarios: the edits
themselves, schedules, conditions, and drafts of the assistant. Of the event stream:
more than one client, as subscribers share nothing but the replay.

The other parts of the table in section 1 are not modelled yet, or, for read
models, documents and user interface, not worth modelling. `PROJECT.json` gives the
reason for each.

## 6. The plan

1. Done: store, journal and device actions, safe commands, intercom release, light
   obligations, light priority, manual light-off protection, scenario runs, event
   stream; proofs of every safety property of their runs, but the two of section 4.
2. Proofs: how many lost connections `HandledOnce` bears for given sizes.
3. Curtain protection: an automatic close at most once between two sunrises, none
   after a manual opening, over crashes and fall-backs, on the same `SafetyDisk`.
4. The operation ledger of the climate with its external anchor; the export and
   clean-up of the operation journal.
5. Composition of `ScenarioRuns` with `LightAuthority` for nested light groups; water
   safety, room lighting, the scenario control coordinator.

The order follows what a physical mistake costs: an action made twice, a relay left
on, a light left on, a lost event.
