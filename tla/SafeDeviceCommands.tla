------------------------- MODULE SafeDeviceCommands -------------------------
(* SafeDeviceCommandLifecycle (application/safe_device_command_lifecycle.py)
   with the part of DeviceActionView.post that starts a command, waits for it
   within the response budget and publishes its late receipt.

   A lifecycle object lives from the set-up of the config entry to its unload;
   its successor may be loaded before it is closed.  All of them share the
   leases, the completed operations and the epoch of their process.  Sections
   under the object's lock are one action; admission, which saves twice, is two
   actions that hold the lock.                                               *)

EXTENDS Naturals, FiniteSets

CONSTANTS Ops,            \* operations, each asked for at most once
          Entities,
          None,
          MaxActive,      \* MAX_ACTIVE_SAFE_COMMANDS
          Observation,    \* SAFE_OBSERVATION_SECONDS, in ticks
          MaxTime,        \* bound: ticks of the clock
          MaxObjects,     \* bound: lifecycle objects loaded
          MaxCancelled,   \* bound: admissions cancelled by their deadline
          MaxFailures,    \* bound: saves that raise
          MaxDamage,      \* bound: files damaged from outside
          Absent, Invalid, Corrupt

ActivePhases == {"prepared", "dispatch_intent", "observing"}
TerminalPhases == {"confirmed", "unconfirmed", "superseded", "dispatch_unknown",
                   "failed_before_dispatch"}

\* The persisted image; an operation without a record has phase "none", and
\* its record keeps its entity, generation and expiry.
Generations == 0..Cardinality(Ops)
Times == 0..(MaxTime + Observation)

Payloads ==
    [next : Generations,
     target : [Entities -> Generations],
     phase : [Ops -> ActivePhases \union TerminalPhases \union {"none"}],
     entity : [Ops -> Entities \union {None}],
     gen : [Ops -> Generations],
     expires : [Ops -> Times],
     late : [Ops -> BOOLEAN]]

EmptyPayload ==
    [next |-> 0,
     target |-> [e \in Entities |-> 0],
     phase |-> [o \in Ops |-> "none"],
     entity |-> [o \in Ops |-> None],
     gen |-> [o \in Ops |-> 0],
     expires |-> [o \in Ops |-> 0],
     late |-> [o \in Ops |-> FALSE]]

INSTANCE SafetyDisk

ASSUME CommandsAssumption ==
    /\ IsFiniteSet(Ops)
    /\ None \notin Entities \union Ops
    /\ MaxActive \in Nat /\ Observation \in Nat /\ MaxTime \in Nat
    /\ MaxObjects \in Nat /\ MaxCancelled \in Nat /\ MaxFailures \in Nat
    /\ MaxDamage \in Nat
    /\ {Absent, Invalid, Corrupt} \cap Payloads = {}
    /\ Absent # Invalid /\ Absent # Corrupt /\ Invalid # Corrupt

Objects == 0..MaxObjects

VARIABLES
    disk, now,
    latest,       \* the newest lifecycle object; its number is its epoch
    first,        \* the oldest object of the running process
    closed,       \* objects that were closed
    mem,          \* the image of each object in memory
    quarantine,   \* entity -> expiry of its restart quarantine, 0 if none
    lock,         \* the operation whose admission holds the object's lock
    leases,       \* process: entity -> operation that holds its lease
    completed,    \* process: operations whose lease was released
    pc, entity, object,
    expires,      \* expires_at_ms of the handle
    registered,   \* the handle is in _handles and _entities
    crossed, revoked, released, resolved,   \* flags of the handle
    outcome,      \* what execute_once returned
    marker,       \* the task that persists the dispatch marker is queued
    watchdog, wake,
    http, answer,
    published,    \* operations whose late receipt was published
    sent,         \* history: operations whose physical call was made
    cancelled, failures, damage   \* counters of the bounds

processVars == <<latest, first, closed, quarantine, lock, leases, completed>>
handleVars == <<registered, crossed, revoked, released, resolved, outcome, marker>>
operation == <<entity, object, expires>>
httpVars == <<http, answer>>
watchVars == <<watchdog, wake>>
counters == <<cancelled, failures, damage>>
vars == <<disk, now, processVars, mem, pc, operation, handleVars, watchVars,
          httpVars, published, sent, counters>>

Points == {"new", "admitting", "running", "validated", "called", "returned",
           "late", "ended", "leaked", "killed", "lost"}
Outcomes == {"none", "failed", "confirmed", "unconfirmed"}

TypeOK ==
    /\ disk \in Disks
    /\ now \in 0..MaxTime
    /\ latest \in Objects
    /\ first \in 1..MaxObjects + 1
    /\ closed \in SUBSET Objects
    /\ mem \in [Objects -> Payloads]
    /\ quarantine \in [Objects -> [Entities -> Times]]
    /\ lock \in [Objects -> Ops \union {None}]
    /\ leases \in [Entities -> Ops \union {None}]
    /\ completed \in SUBSET Ops
    /\ pc \in [Ops -> Points]
    /\ entity \in [Ops -> Entities \union {None}]
    /\ object \in [Ops -> Objects]
    /\ expires \in [Ops -> Times]
    /\ registered \in SUBSET Ops
    /\ crossed \in SUBSET Ops
    /\ revoked \in SUBSET Ops
    /\ released \in SUBSET Ops
    /\ resolved \in SUBSET Ops
    /\ outcome \in [Ops -> Outcomes]
    /\ marker \in SUBSET Ops
    /\ watchdog \in [Ops -> {"none", "sleeping", "callback"}]
    /\ wake \in [Ops -> Times]
    /\ http \in [Ops -> {"none", "waiting", "persisting", "revoking", "leaving",
                         "over"}]
    /\ answer \in [Ops -> {"none", "not_sent", "result", "pending", "unknown"}]
    /\ published \in SUBSET Ops
    /\ sent \in SUBSET Ops
    /\ cancelled \in 0..MaxCancelled
    /\ failures \in 0..MaxFailures
    /\ damage \in 0..MaxDamage

Init ==
    /\ disk = NewDisk
    /\ now = 0
    /\ latest = 0
    /\ first = 1
    /\ closed = {}
    /\ mem = [i \in Objects |-> EmptyPayload]
    /\ quarantine = [i \in Objects |-> [e \in Entities |-> 0]]
    /\ lock = [i \in Objects |-> None]
    /\ leases = [e \in Entities |-> None]
    /\ completed = {}
    /\ pc = [o \in Ops |-> "new"]
    /\ entity = [o \in Ops |-> None]
    /\ object = [o \in Ops |-> 0]
    /\ expires = [o \in Ops |-> 0]
    /\ registered = {} /\ crossed = {} /\ revoked = {} /\ released = {}
    /\ resolved = {} /\ marker = {} /\ published = {} /\ sent = {}
    /\ outcome = [o \in Ops |-> "none"]
    /\ watchdog = [o \in Ops |-> "none"]
    /\ wake = [o \in Ops |-> 0]
    /\ http = [o \in Ops |-> "none"]
    /\ answer = [o \in Ops |-> "none"]
    /\ cancelled = 0 /\ failures = 0 /\ damage = 0

---------------------------------------------------------------------------
(* _save_locked and the lease.                                               *)

Free(i) == lock[i] = None

\* The image p of object i is saved.
SaveOk(i, p) ==
    /\ i = latest
    /\ disk' \in SaveAcks(disk, p)
    /\ UNCHANGED failures

\* The save raises: the object is fenced by a newer epoch, or the store fails.
SaveRaises(i, p) ==
    IF i # latest THEN UNCHANGED <<disk, failures>>
    ELSE /\ failures < MaxFailures
         /\ failures' = failures + 1
         /\ disk' \in SaveFailures(disk, p)

\* The deadline of an admission cancels its save.
SaveCancelled(i, p) ==
    /\ cancelled < MaxCancelled
    /\ cancelled' = cancelled + 1
    /\ IF i = latest THEN disk' \in SaveFailures(disk, p) ELSE UNCHANGED disk

\* The saves of the sections that a close may precede: a closed object is fenced.
OpenSaveOk(i, p) == i \notin closed /\ SaveOk(i, p)

OpenSaveRaises(i, p) ==
    IF i \in closed THEN UNCHANGED <<disk, failures>> ELSE SaveRaises(i, p)

Phase(o) == mem[object[o]].phase[o]

WithPhase(o, phase) == [mem[object[o]] EXCEPT !.phase[o] = phase]

Remember(o, p) == mem' = [mem EXCEPT ![object[o]] = p]

\* _release_process_lease
ReleaseLease(o) ==
    IF entity[o] # None /\ leases[entity[o]] = o
      THEN /\ leases' = [leases EXCEPT ![entity[o]] = None]
           /\ completed' = completed \union {o}
      ELSE UNCHANGED <<leases, completed>>

\* Mutant of ReleaseHandle: the lease of the process is forgotten.
ReleaseOnlyHandle(o) ==
    /\ registered' = registered \ {o}
    /\ watchdog' = [watchdog EXCEPT ![o] = "none"]
    /\ wake' = [wake EXCEPT ![o] = 0]
    /\ UNCHANGED <<leases, completed>>

\* _release_handle
ReleaseHandle(o) ==
    /\ registered' = registered \ {o}
    /\ watchdog' = [watchdog EXCEPT ![o] = "none"]
    /\ wake' = [wake EXCEPT ![o] = 0]
    /\ ReleaseLease(o)

Goto(o, point) == pc' = [pc EXCEPT ![o] = point]

Alive(o) == pc[o] \in {"running", "validated", "called", "returned", "late"}

---------------------------------------------------------------------------
(* async_start                                                               *)

\* _prune_restart_quarantine, and the lifting of a quarantine whose operation
\* has ended in this process.
StillQuarantined(i, e) ==
    /\ quarantine[i][e] > now
    /\ LET unknown == {o \in Ops : /\ mem[i].entity[o] = e
                                   /\ mem[i].phase[o] = "dispatch_unknown"}
           lifted == \E o \in unknown :
                       /\ \A other \in unknown : mem[i].gen[other] <= mem[i].gen[o]
                       /\ o \in completed
       IN  ~(lifted /\ leases[e] = None)

Pruned(i, e) ==
    [x \in Entities |->
        IF x = e THEN IF StillQuarantined(i, e) THEN quarantine[i][e] ELSE 0
        ELSE IF quarantine[i][x] > now THEN quarantine[i][x] ELSE 0]

\* Mutant of Busy: only the object's own handles count.
BusyHere(i, e) ==
    \/ StillQuarantined(i, e)
    \/ \E o \in registered : object[o] = i /\ entity[o] = e

Busy(i, e) ==
    \/ StillQuarantined(i, e)
    \/ leases[e] # None
    \/ \E o \in registered : object[o] = i /\ entity[o] = e

\* Mutant of Admitted: the counter of generations runs ahead of the records.
AdmittedAhead(i, o, e) ==
    LET old == mem[i]
        generation == old.next + 1
        superseded(x) == /\ old.entity[x] = e
                         /\ old.gen[x] = old.target[e]
                         /\ old.phase[x] \in {"unconfirmed", "dispatch_unknown"}
    IN  [next |-> generation + 1,
         target |-> [old.target EXCEPT ![e] = generation],
         phase |-> [x \in Ops |-> IF x = o THEN "prepared"
                                  ELSE IF superseded(x) THEN "superseded"
                                  ELSE old.phase[x]],
         entity |-> [old.entity EXCEPT ![o] = e],
         gen |-> [old.gen EXCEPT ![o] = generation],
         expires |-> [old.expires EXCEPT ![o] = now + Observation],
         late |-> old.late]

\* The image with the new record, its predecessor superseded.
Admitted(i, o, e) ==
    LET old == mem[i]
        generation == old.next + 1
        superseded(x) == /\ old.entity[x] = e
                         /\ old.gen[x] = old.target[e]
                         /\ old.phase[x] \in {"unconfirmed", "dispatch_unknown"}
    IN  [next |-> generation,
         target |-> [old.target EXCEPT ![e] = generation],
         phase |-> [x \in Ops |-> IF x = o THEN "prepared"
                                  ELSE IF superseded(x) THEN "superseded"
                                  ELSE old.phase[x]],
         entity |-> [old.entity EXCEPT ![o] = e],
         gen |-> [old.gen EXCEPT ![o] = generation],
         expires |-> [old.expires EXCEPT ![o] = now + Observation],
         late |-> old.late]

\* The client, if it still waits, is told that nothing was sent.
NotAdmitted(o) ==
    /\ http' = [http EXCEPT ![o] = "over"]
    /\ answer' = [answer EXCEPT ![o] = IF http[o] = "none" THEN "not_sent" ELSE @]

\* The objects a request of the running process may hold.
Loadeds == first..latest

Full == Cardinality({x \in Entities : leases[x] # None}) >= MaxActive

\* The operation is refused: the object is closed, there are too many leases, or
\* the entity is busy.
Refuse(o) ==
    /\ pc[o] = "new"
    /\ \E e \in Entities, i \in Loadeds :
         /\ Free(i)
         /\ i \in closed \/ Full \/ Busy(i, e)
         /\ entity' = [entity EXCEPT ![o] = e]
         /\ object' = [object EXCEPT ![o] = i]
         /\ quarantine' = IF i \in closed \/ Full THEN quarantine
                          ELSE [quarantine EXCEPT ![i] = Pruned(i, e)]
    /\ Goto(o, "ended")
    /\ NotAdmitted(o)
    /\ UNCHANGED <<disk, now, latest, first, closed, lock, leases, completed, mem,
                   expires, handleVars, watchVars, published, sent, counters>>

\* The lease is taken and the record saved as "prepared"; a save that raises
\* gives the lease back, a cancelled one does not.
Admit(o) ==
    /\ pc[o] = "new"
    /\ ~Full
    /\ \E e \in Entities, i \in Loadeds :
         LET p == Admitted(i, o, e) IN
           /\ i \notin closed /\ Free(i) /\ ~Busy(i, e)
           /\ entity' = [entity EXCEPT ![o] = e]
           /\ object' = [object EXCEPT ![o] = i]
           /\ expires' = [expires EXCEPT ![o] = now + Observation]
           /\ quarantine' = [quarantine EXCEPT ![i] = Pruned(i, e)]
           /\ \/ /\ SaveOk(i, p)
                 /\ mem' = [mem EXCEPT ![i] = p]
                 /\ leases' = [leases EXCEPT ![e] = o]
                 /\ lock' = [lock EXCEPT ![i] = o]
                 /\ Goto(o, "admitting")
                 /\ UNCHANGED <<completed, httpVars, cancelled>>
              \/ /\ SaveRaises(i, p)
                 /\ mem' = [mem EXCEPT ![i] =
                              [p EXCEPT !.phase[o] = "failed_before_dispatch"]]
                 /\ completed' = completed \union {o}
                 /\ Goto(o, "ended")
                 /\ NotAdmitted(o)
                 /\ UNCHANGED <<leases, lock, cancelled>>
              \/ /\ SaveCancelled(i, p)
                 /\ mem' = [mem EXCEPT ![i] = p]
                 /\ leases' = [leases EXCEPT ![e] = o]
                 /\ Goto(o, "leaked")
                 /\ NotAdmitted(o)
                 /\ UNCHANGED <<completed, lock, failures>>
    /\ UNCHANGED <<now, latest, first, closed, handleVars, watchVars, published,
                   sent, damage>>

\* The intent is saved but the response budget is gone: the record is failed.
BudgetExhausted(i, p, failed) ==
    /\ i = latest
    /\ \/ disk' \in SaveAcks(Saved(disk, p), failed) /\ UNCHANGED failures
       \/ /\ failures < MaxFailures
          /\ failures' = failures + 1
          /\ disk' \in SaveFailures(Saved(disk, p), failed)

\* The record is saved as "dispatch_intent" and the execution starts; or the
\* save raises, or the response budget is exhausted, or the deadline cancels it.
Intend(o) ==
    LET i == object[o]
        p == WithPhase(o, "dispatch_intent")
        failed == WithPhase(o, "failed_before_dispatch")
    IN
    /\ pc[o] = "admitting"
    /\ lock' = [lock EXCEPT ![i] = None]
    /\ \/ /\ SaveOk(i, p)
          /\ Remember(o, p)
          /\ Goto(o, "running")
          /\ registered' = registered \union {o}
          /\ watchdog' = [watchdog EXCEPT ![o] = "sleeping"]
          /\ wake' = [wake EXCEPT ![o] = now + Observation]
          /\ http' = [http EXCEPT ![o] = IF @ = "none" THEN "waiting" ELSE @]
          /\ UNCHANGED <<answer, leases, completed, cancelled>>
       \/ /\ \/ SaveRaises(i, p)
             \/ BudgetExhausted(i, p, failed)
          /\ Remember(o, failed)
          /\ ReleaseLease(o)
          /\ Goto(o, "ended")
          /\ NotAdmitted(o)
          /\ UNCHANGED <<registered, watchVars, cancelled>>
       \/ /\ http[o] = "none"
          /\ SaveCancelled(i, p)
          /\ Remember(o, p)
          /\ Goto(o, "leaked")
          /\ NotAdmitted(o)
          /\ UNCHANGED <<registered, watchVars, leases, completed, failures>>
    /\ UNCHANGED <<now, latest, first, closed, quarantine, operation, crossed,
                   revoked, released, resolved, outcome, marker, published, sent,
                   damage>>

\* The client disconnects during the admission, which goes on without it.
ClientGone(o) ==
    /\ pc[o] = "admitting" /\ http[o] = "none"
    /\ http' = [http EXCEPT ![o] = "over"]
    /\ UNCHANGED <<disk, now, processVars, mem, pc, operation, handleVars, watchVars,
                   answer, published, sent, counters>>

---------------------------------------------------------------------------
(* The execution task: _async_run, _async_finish                             *)

\* before_dispatch: the authority of the handle is checked under the lock.
Validate(o) ==
    /\ pc[o] = "running"
    /\ Free(object[o])
    /\ object[o] \notin closed /\ o \notin revoked /\ o \in registered
    /\ Phase(o) = "dispatch_intent"
    /\ Goto(o, "validated")
    /\ UNCHANGED <<disk, now, processVars, mem, operation, handleVars, watchVars,
                   httpVars, published, sent, counters>>

\* Mutant of Dispatch: the marker does not look at the revocation.
DispatchRevoked(o) ==
    /\ pc[o] = "validated"
    /\ object[o] \notin closed /\ o \notin crossed
    /\ crossed' = crossed \union {o}
    /\ sent' = sent \union {o}
    /\ marker' = marker \union {o}
    /\ Goto(o, "called")
    /\ UNCHANGED <<disk, now, processVars, mem, operation, registered, revoked,
                   released, resolved, outcome, watchVars, httpVars, published,
                   counters>>

\* _mark_dispatch, immediately followed by the physical call.
Dispatch(o) ==
    /\ pc[o] = "validated"
    /\ o \notin revoked /\ object[o] \notin closed /\ o \notin crossed
    /\ crossed' = crossed \union {o}
    /\ sent' = sent \union {o}
    /\ marker' = marker \union {o}
    /\ Goto(o, "called")
    /\ UNCHANGED <<disk, now, processVars, mem, operation, registered, revoked,
                   released, resolved, outcome, watchVars, httpVars, published,
                   counters>>

\* _async_persist_dispatch; after a failed save the phase stays in memory.
PersistMarker(o) ==
    /\ o \in marker
    /\ Free(object[o])
    /\ marker' = marker \ {o}
    /\ IF object[o] \in closed \/ object[o] # latest \/ Phase(o) # "dispatch_intent"
         THEN UNCHANGED <<disk, mem, failures>>
         ELSE LET p == WithPhase(o, "observing") IN
                /\ Remember(o, p)
                /\ SaveOk(object[o], p) \/ SaveRaises(object[o], p)
    /\ UNCHANGED <<now, processVars, pc, operation, registered, crossed, revoked,
                   released, resolved, outcome, watchVars, httpVars, published, sent,
                   cancelled, damage>>

\* execute_once returns, raises (a refused validation or marker makes it raise),
\* or answers its cancellation.  Without a physical call it is a failure or the
\* confirmation that nothing was to be done.
Return(o) ==
    /\ pc[o] \in {"running", "validated", "called"}
    /\ \E result \in Outcomes \ {"none"} :
         /\ result # IF o \in crossed THEN "failed" ELSE "unconfirmed"
         /\ outcome' = [outcome EXCEPT ![o] = result]
    /\ Goto(o, "returned")
    /\ UNCHANGED <<disk, now, processVars, mem, operation, registered, crossed,
                   revoked, released, resolved, marker, watchVars, httpVars,
                   published, sent, counters>>

FinalPhase(o) ==
    IF o \in revoked /\ o \notin crossed THEN "failed_before_dispatch"
    ELSE IF outcome[o] = "confirmed" THEN "confirmed"
    ELSE IF o \in crossed THEN "unconfirmed"
    ELSE "failed_before_dispatch"

\* The result becomes the terminal phase unless there is one already; a late
\* receipt is due if that was saved and the client was answered "pending".
FinishRun(o) ==
    /\ pc[o] = "returned"
    /\ Free(object[o])
    /\ IF Phase(o) \in TerminalPhases \union {"none"}
         THEN /\ Goto(o, "ended")
              /\ UNCHANGED <<disk, mem, failures>>
         ELSE LET p == WithPhase(o, FinalPhase(o)) IN
                /\ Remember(o, p)
                /\ \/ /\ OpenSaveOk(object[o], p)
                      /\ Goto(o, IF o \in released THEN "late" ELSE "ended")
                   \/ /\ OpenSaveRaises(object[o], p)
                      /\ Goto(o, "ended")
    /\ ReleaseHandle(o)
    /\ UNCHANGED <<now, latest, first, closed, quarantine, lock, operation,
                   crossed, revoked, released, resolved, outcome, marker, httpVars,
                   published, sent, cancelled, damage>>

\* After a close the cancellation ends the task wherever it is.
KilledByClose(o) ==
    /\ Alive(o) /\ object[o] \in closed
    /\ Goto(o, "killed")
    /\ ReleaseHandle(o)
    /\ UNCHANGED <<disk, now, latest, first, closed, quarantine, lock, mem, operation,
                   crossed, revoked, released, resolved, outcome, marker,
                   httpVars, published, sent, counters>>

---------------------------------------------------------------------------
(* The watchdog and the late receipt.                                        *)

\* The observation window is over while the execution still runs.
WatchdogFires(o) ==
    /\ watchdog[o] = "sleeping"
    /\ now >= wake[o]
    /\ wake' = [wake EXCEPT ![o] = 0]
    /\ Free(object[o])
    /\ IF o \notin crossed \/ Phase(o) \notin ActivePhases
         THEN /\ watchdog' = [watchdog EXCEPT ![o] = "none"]
              /\ UNCHANGED <<disk, mem, failures>>
         ELSE LET p == WithPhase(o, "dispatch_unknown") IN
                /\ Remember(o, p)
                /\ \/ /\ OpenSaveOk(object[o], p)
                      /\ watchdog' = [watchdog EXCEPT ![o] =
                                        IF o \in released THEN "callback" ELSE "none"]
                   \/ /\ OpenSaveRaises(object[o], p)
                      /\ watchdog' = [watchdog EXCEPT ![o] = "none"]
    /\ UNCHANGED <<now, processVars, pc, operation, handleVars, httpVars, published,
                   sent, cancelled, damage>>

\* async_record_late_receipt: only of the current generation, in its window.
MayRecord(o) ==
    /\ object[o] \notin closed
    /\ o \notin published
    /\ Phase(o) # "none"
    /\ mem[object[o]].target[entity[o]] = mem[object[o]].gen[o]
    /\ now <= expires[o]

\* publish_late_safe_result, once the first answer is resolved: the receipt is
\* recorded and then published, or the journal or the record refuses it.
PublishLate(o) ==
    /\ o \in resolved
    /\ Free(object[o])
    /\ LET p == [mem[object[o]] EXCEPT !.late[o] = TRUE] IN
         \/ /\ MayRecord(o)
            /\ Remember(o, p)
            /\ \/ SaveOk(object[o], p) /\ published' = published \union {o}
               \/ SaveRaises(object[o], p) /\ UNCHANGED published
         \/ /\ ~MayRecord(o) \/ answer[o] # "pending"
            /\ UNCHANGED <<disk, mem, failures, published>>

RunPublishes(o) ==
    /\ pc[o] = "late"
    /\ PublishLate(o)
    /\ Goto(o, "ended")
    /\ UNCHANGED <<now, processVars, operation, handleVars, watchVars, httpVars,
                   sent, cancelled, damage>>

WatchdogPublishes(o) ==
    /\ watchdog[o] = "callback"
    /\ PublishLate(o)
    /\ watchdog' = [watchdog EXCEPT ![o] = "none"]
    /\ UNCHANGED <<now, processVars, pc, operation, handleVars, wake, httpVars,
                   sent, cancelled, damage>>

---------------------------------------------------------------------------
(* The HTTP request: async_response and what the view does with its answer.  *)

HttpStep(o, next) == http' = [http EXCEPT ![o] = next]
Answered(o, kind) == answer' = [answer EXCEPT ![o] = kind]

Resolve(o) == resolved' = resolved \union {o}

unresponsive == <<registered, crossed, outcome, marker>>

\* The task is done within the budget.
ResponseDone(o) ==
    /\ http[o] = "waiting"
    /\ pc[o] \in {"ended", "killed"}
    /\ HttpStep(o, "over")
    /\ IF pc[o] = "killed" THEN Resolve(o) /\ UNCHANGED answer
       ELSE /\ Resolve(o)
            /\ Answered(o, IF o \notin crossed /\ outcome[o] = "failed" THEN "not_sent"
                           ELSE "result")
    /\ UNCHANGED <<disk, now, processVars, mem, pc, operation, unresponsive,
                   revoked, released, watchVars, published, sent, counters>>

\* The budget is over and the command was sent: the client will be told that the
\* command is accepted, once that answer is in the journal.
ResponsePending(o) ==
    /\ http[o] = "waiting"
    /\ pc[o] \notin {"ended", "killed"} /\ o \in crossed
    /\ released' = released \union {o}
    /\ HttpStep(o, "persisting")
    /\ UNCHANGED <<disk, now, processVars, mem, pc, operation, unresponsive,
                   revoked, resolved, answer, watchVars, published, sent, counters>>

\* async_note_first_response_persisted, or async_note_http_abandoned when the
\* journal did not take the answer.
PendingAnswered(o) ==
    /\ http[o] = "persisting"
    /\ HttpStep(o, "over")
    /\ Resolve(o)
    /\ \E kind \in {"pending", "unknown"} : Answered(o, kind)
    /\ UNCHANGED <<disk, now, processVars, mem, pc, operation, unresponsive,
                   revoked, released, watchVars, published, sent, counters>>

\* The budget is over and nothing was sent: the authority is revoked at once ...
ResponseRevoke(o) ==
    /\ http[o] = "waiting"
    /\ pc[o] \notin {"ended", "killed"} /\ o \notin crossed
    /\ revoked' = revoked \union {o}
    /\ HttpStep(o, "revoking")
    /\ UNCHANGED <<disk, now, processVars, mem, pc, operation, unresponsive,
                   released, resolved, answer, watchVars, published, sent, counters>>

\* ... the client disconnects while it waits ...
HttpCancelled(o) ==
    /\ http[o] = "waiting"
    /\ IF o \in crossed
         THEN /\ released' = released \union {o}
              /\ Resolve(o)
              /\ HttpStep(o, "over")
              /\ UNCHANGED revoked
         ELSE /\ revoked' = revoked \union {o}
              /\ HttpStep(o, "leaving")
              /\ UNCHANGED <<released, resolved>>
    /\ UNCHANGED <<disk, now, processVars, mem, pc, operation, unresponsive,
                   answer, watchVars, published, sent, counters>>

\* ... and the record of a revoked command is failed; the save may raise.
RevokeSaved(o) ==
    /\ http[o] \in {"revoking", "leaving"}
    /\ Free(object[o])
    /\ IF Phase(o) \notin ActivePhases THEN UNCHANGED <<disk, mem, failures>>
       ELSE LET p == WithPhase(o, "failed_before_dispatch") IN
              /\ Remember(o, p)
              /\ OpenSaveOk(object[o], p) \/ OpenSaveRaises(object[o], p)
    /\ HttpStep(o, "over")
    /\ Resolve(o)
    /\ IF http[o] = "revoking" THEN Answered(o, "not_sent") ELSE UNCHANGED answer
    /\ UNCHANGED <<now, processVars, pc, operation, unresponsive, revoked,
                   released, watchVars, published, sent, cancelled, damage>>

---------------------------------------------------------------------------
(* Unload, set-up, crash, time and damage.                                   *)

\* async_close: what is not over becomes terminal by what is known of it, the
\* tasks are cancelled (KilledByClose, unless they resist), and so are the
\* watchdogs and the queued markers.
Close(i) ==
    /\ i \in Loadeds \ closed
    /\ Free(i)
    /\ closed' = closed \union {i}
    /\ LET open == {o \in registered : object[o] = i /\ mem[i].phase[o] \in ActivePhases}
           p == [mem[i] EXCEPT !.phase =
                   [o \in Ops |-> IF o \notin open THEN mem[i].phase[o]
                                  ELSE IF o \in crossed THEN "dispatch_unknown"
                                  ELSE "failed_before_dispatch"]]
           mine == {o \in Ops : object[o] = i}
       IN  /\ mem' = [mem EXCEPT ![i] = p]
           /\ SaveOk(i, p) \/ SaveRaises(i, p)
           /\ marker' = marker \ mine
           /\ watchdog' = [o \in Ops |-> IF o \in mine \intersect registered
                                         THEN "none" ELSE watchdog[o]]
    /\ UNCHANGED <<now, latest, first, quarantine, lock, leases, completed, pc, operation,
                   registered, crossed, revoked, released, resolved, outcome,
                   wake, httpVars, published, sent, cancelled, damage>>

\* Mutant of AfterLoad: an intent without its marker is taken for unsent.
AfterLoadTrusting(phase) ==
    IF phase \in {"prepared", "dispatch_intent"} THEN "failed_before_dispatch"
    ELSE IF phase = "observing" THEN "dispatch_unknown"
    ELSE phase

AfterLoad(phase) ==
    IF phase = "prepared" THEN "failed_before_dispatch"
    ELSE IF phase \in {"dispatch_intent", "observing"} THEN "dispatch_unknown"
    ELSE phase

LoadedImage(p) == [p EXCEPT !.phase = [o \in Ops |-> AfterLoad(p.phase[o])]]

\* The restart quarantine: the expiry of an uncertain operation of the entity.
\* Records are in the order of their generations, and the last one counts.
LoadedQuarantine(p) ==
    [e \in Entities |->
        LET uncertain == {o \in Ops : /\ p.entity[o] = e
                                      /\ p.phase[o] = "dispatch_unknown"
                                      /\ p.expires[o] > now}
        IN  IF uncertain = {} THEN 0
            ELSE LET last == CHOOSE o \in uncertain :
                               \A x \in uncertain : p.gen[x] <= p.gen[o]
                 IN  p.expires[last]]

\* async_load of a new object; its predecessor may not be closed yet.
Load ==
    /\ latest < MaxObjects
    /\ latest' = latest + 1
    /\ \E a \in LoadAnswers(disk) :
         /\ a.kind # "error"
         /\ disk' = a.disk
         /\ LET p == LoadedImage(IF a.kind = "value" THEN a.doc ELSE EmptyPayload) IN
              /\ mem' = [mem EXCEPT ![latest + 1] = p]
              /\ quarantine' = [quarantine EXCEPT ![latest + 1] = LoadedQuarantine(p)]
    /\ UNCHANGED <<now, first, closed, lock, leases, completed, pc, operation,
                   handleVars, watchVars, httpVars, published, sent, counters>>

\* The process stops: what lives in memory is gone.
Crash ==
    /\ first <= latest
    /\ first' = latest + 1
    /\ leases' = [e \in Entities |-> None]
    /\ completed' = {}
    /\ pc' = [o \in Ops |-> IF pc[o] \in {"new", "ended", "killed"} THEN pc[o]
                             ELSE "lost"]
    /\ mem' = [i \in Objects |-> EmptyPayload]
    /\ quarantine' = [i \in Objects |-> [e \in Entities |-> 0]]
    /\ lock' = [i \in Objects |-> None]
    /\ registered' = {} /\ revoked' = {} /\ released' = {} /\ resolved' = {}
    /\ marker' = {}
    /\ watchdog' = [o \in Ops |-> "none"]
    /\ wake' = [o \in Ops |-> 0]
    /\ http' = [o \in Ops |-> IF http[o] = "none" THEN "none" ELSE "over"]
    /\ UNCHANGED <<disk, now, latest, closed, operation, crossed, outcome, answer,
                   published, sent, counters>>

Tick ==
    /\ now < MaxTime
    /\ now' = now + 1
    /\ UNCHANGED <<disk, processVars, mem, pc, operation, handleVars, watchVars,
                   httpVars, published, sent, counters>>

\* A file is damaged while no process runs.
DamageFile ==
    /\ first > latest
    /\ damage < MaxDamage
    /\ damage' = damage + 1
    /\ \E file \in {"cur", "prev"} :
         /\ Valid(disk[file])
         /\ disk' = [disk EXCEPT ![file] = Invalid]
    /\ UNCHANGED <<now, processVars, mem, pc, operation, handleVars, watchVars,
                   httpVars, published, sent, cancelled, failures>>

Step(o) ==
    \/ Refuse(o) \/ Admit(o) \/ Intend(o) \/ ClientGone(o) \/ Validate(o) \/ Dispatch(o)
    \/ PersistMarker(o) \/ Return(o) \/ FinishRun(o) \/ KilledByClose(o)
    \/ WatchdogFires(o) \/ RunPublishes(o) \/ WatchdogPublishes(o)
    \/ ResponseDone(o) \/ ResponsePending(o) \/ PendingAnswered(o)
    \/ ResponseRevoke(o) \/ HttpCancelled(o) \/ RevokeSaved(o)

Next ==
    \/ \E o \in Ops : Step(o)
    \/ \E i \in Objects : Close(i)
    \/ Load \/ Crash \/ Tick \/ DamageFile

Spec == Init /\ [][Next]_vars

\* Fairness: the event loop runs every task that can go on, and a call to a
\* device ends, by its answer or by its own timeout.
Fairness ==
    \A o \in Ops : /\ WF_vars(Intend(o))
                   /\ WF_vars(Return(o))
                   /\ WF_vars(FinishRun(o))

FairSpec == Spec /\ Fairness

---------------------------------------------------------------------------
(* Properties.                                                               *)

Executing(o) == pc[o] \in {"running", "validated", "called", "returned"}

\* At no time do two executions own the same entity, and there are at most
\* MaxActive of them, although objects overlap during a reload and executions
\* may resist their cancellation.
ExclusiveExecution ==
    LET live == {o \in Ops : Executing(o)} IN
      /\ \A o, x \in live : entity[o] = entity[x] => o = x
      /\ Cardinality(live) <= MaxActive

\* The commands keep the abstract promise of SafeCommandPromise: the lease of an
\* entity is exclusive, only its holder sends, at most once; a client that was
\* told "not sent" is told the truth forever, whatever budget, revocation, close
\* or failed save led to that answer; and there is one late receipt at most.
Promise == INSTANCE SafeCommandPromise
             WITH active <- leases, receipts <- published

KeepsPromise == Promise!Spec

\* A new command is not admitted for an entity while, in the observation window of
\* an earlier one, a crash in the middle of its physical call left its fate unknown.
\* A call whose task ended before the crash, by its answer or by the cancellation of
\* a close, is not meant: its lease was given back and its record may be superseded.
UncertainBeforeRestart(x, e) ==
    /\ pc[x] = "lost"
    /\ x \in sent /\ outcome[x] = "none"
    /\ entity[x] = e
    /\ now < expires[x]

NewlyAdmitted(o) == pc[o] = "new" /\ pc'[o] = "admitting"

RestartQuarantine ==
    [][\A o \in Ops : NewlyAdmitted(o) /\ damage = 0 =>
         ~ \E x \in Ops : UncertainBeforeRestart(x, entity'[o])]_vars

\* The lease of an entity is given back in the end.
EntityEventuallyFree ==
    \A e \in Entities : leases[e] # None ~> leases[e] = None
=============================================================================
