---------------------- MODULE ManualLightOffProtection ----------------------
(* ManualLightOffProtectionCoordinator
   (application/manual_light_off_protection.py) with the events and requests
   that reach it: when a light was switched off by hand, automation may not
   switch it on again until the record of its protection is released.

   All calls hold one lock over their saves, so that a call is one action with
   its outcomes: acknowledged, raised, cut by the end of the process.
   The coordinator's document `mem` is its payload in the store.  Intervals are
   counted in ticks of a clock.  `room` is where people are, `reported` what Home
   Assistant knows of it, `sens` what the coordinator knows.                                          *)

EXTENDS Naturals, Sequences, FiniteSets, SequencesExt

CONSTANTS Lights, Sensors,
          Profiles,      \* light profiles, the built-in one excluded
          Settings,      \* settings documents
          Effective,     \* what they say of every profile, overrides resolved
          Default,       \* the one of them without any profile
          Direct,        \* the built-in profile of asynchronous direct offs
          DirectLights, DirectSensors,
          Whole,         \* scope "profile" of a key
          Requests,      \* request ids of clients
          Nothing,
          Interval, Stable, Fresh,   \* minimum interval, stable absence, age of evidence
          ReceiptCapacity,           \* MAX_IDEMPOTENCY_RECEIPTS
          ActiveCapacity,            \* MAX_ACTIVE_PROTECTIONS
          MaxTime, MaxRevision, MaxBorn,
          MaxFaults,   \* failed or cancelled saves, crashes, damaged files: bounds
          Absent, Invalid, Corrupt

Modes == {"timer_only", "absence_only", "timer_and_absence"}

\* The fields of ManualOffPolicy that decide something (domain/...).
Policies == [mode : Modes, manualFallback : BOOLEAN, extend : BOOLEAN,
             source : BOOLEAN, release : BOOLEAN]

\* A profile without lights is not configured (or its policy is not enabled).
EffectiveProfiles == [lights : SUBSET Lights, sensors : SUBSET Sensors,
                      policy : Policies]

DirectPolicy == [mode |-> "timer_and_absence", manualFallback |-> TRUE,
                 extend |-> TRUE, source |-> FALSE, release |-> FALSE]

Times == 0..(MaxTime + Interval)

\* _profile_key
Keys == ((Profiles \union {Direct}) \X {Whole}) \union (Profiles \X Lights)
DirectKey == <<Direct, Whole>>

\* A record with its frozen sensors; "born" numbers the records.  absenceSince and
\* the revision, which decide nothing in the coordinator, are left out.
Records == [lights : SUBSET Lights, sensors : SUBSET Sensors, policy : Policies,
            notBefore : Times, born : 1..MaxBorn]

\* Why a promise may be broken: its record was replaced by another one of its
\* profile, its store was lost, or older evidence stood while newer was dropped.
Excuses == {"none", "replaced", "lost", "stale"}

\* What an acknowledged record promises.
Promises == [lights : SUBSET Lights, sensors : SUBSET Sensors, policy : Policies,
             notBefore : Times, born : 1..MaxBorn, excuse : Excuses]

\* Receipts are kept of settings requests, whose fingerprint is the document itself;
\* that of a release or an arming repeats an answer and changes nothing.
Payloads == [settings : Settings, rev : 0..MaxRevision,
             prot : [Keys -> Records \union {Nothing}],
             receipts : Seq([req : Requests, doc : Settings])]

INSTANCE SafetyDisk

ASSUME ManualOffAssumption ==
    /\ Effective \in [Settings -> [Profiles -> EffectiveProfiles]]
    /\ Default \in Settings /\ \A p \in Profiles : Effective[Default][p].lights = {}
    /\ Direct \notin Profiles
    /\ DirectLights \subseteq Lights /\ DirectSensors \subseteq Sensors
    /\ Whole \notin Lights
    /\ {Interval, Stable, Fresh, ReceiptCapacity, ActiveCapacity} \subseteq Nat
    /\ {MaxTime, MaxRevision, MaxBorn, MaxFaults} \subseteq Nat
    /\ IsFiniteSet(Lights) /\ IsFiniteSet(Profiles)
    /\ Nothing \notin Records
    /\ {Absent, Invalid, Corrupt} \cap Payloads = {}
    /\ Absent # Invalid /\ Absent # Corrupt /\ Invalid # Corrupt

VARIABLES disk,       \* the files of the coordinator's store
          up,         \* the entry is set up
          mem,        \* _settings, _settings_revision, _protections, _receipts
          sens,       \* _sensor_states
          unhealthy,  \* _runtime_unhealthy
          covered,    \* _catalog_coverage_healthy
          now,        \* the clock
          room,       \* what each sensor should see, and since when
          reported,   \* its state in Home Assistant
          missed,     \* sensors of which evidence was dropped while an older one stood
          faults,     \* counter of the bound
          \* observation only:
          owed,       \* acknowledged records that nothing has ended yet
          born,       \* records made
          broken,     \* the excuses of the promises that automation broke
          damaged     \* a file was damaged

code == <<disk, up, mem, sens, unhealthy, covered>>
world == <<now, room, reported>>
kept == <<broken, damaged>>
vars == <<code, world, missed, faults, owed, born, kept>>

NewDoc == [settings |-> Default, rev |-> 0, prot |-> [k \in Keys |-> Nothing],
           receipts |-> <<>>]

Unknown == [st |-> "unknown", at |-> 0]
Evidence == [st : {"on", "off", "unknown"}, at : Times]

TypeOK ==
    /\ disk \in Disks
    /\ up \in BOOLEAN /\ unhealthy \in BOOLEAN /\ covered \in BOOLEAN
    /\ mem \in Payloads
    /\ Len(mem.receipts) <= ReceiptCapacity
    /\ sens \in [Sensors -> Evidence]
    /\ now \in 0..MaxTime
    /\ room \in [Sensors -> Evidence] /\ reported \in [Sensors -> Evidence]
    /\ missed \subseteq Sensors
    /\ faults \in 0..MaxFaults
    /\ born \in 0..MaxBorn
    /\ owed \subseteq Promises
    /\ broken \subseteq Excuses
    /\ damaged \in BOOLEAN

Init ==
    /\ disk = NewDisk
    /\ up = FALSE
    /\ mem = NewDoc
    /\ sens = [s \in Sensors |-> Unknown]
    /\ unhealthy = FALSE
    /\ covered = TRUE
    /\ now = 0
    /\ room = [s \in Sensors |-> [st |-> "on", at |-> 0]]
    /\ reported = room
    /\ missed = {}
    /\ faults = 0
    /\ owed = {} /\ born = 0 /\ broken = {}
    /\ damaged = FALSE

---------------------------------------------------------------------------
(* Saves.  A call that saves several documents one after the other hands over
   the sequence of them; the memory is as far as the save that failed.        *)

\* The disk after the first i of them.
After(docs, i) ==
    IF i = 0 THEN disk
    ELSE Saved(IF i = 1 THEN disk ELSE [disk EXCEPT !.cur = docs[i - 1]], docs[i])

CutDisks(docs, i) == SaveFailures(After(docs, i - 1), docs[i])

Fault == faults < MaxFaults /\ faults' = faults + 1

\* Mutant of Acked: the save is started and not waited for.
AckedUnsaved(docs, known) ==
    /\ disk' \in CutDisks(docs, Len(docs))
    /\ mem' = Last(docs) /\ sens' = known
    /\ UNCHANGED <<up, unhealthy, covered, faults>>

Acked(docs, known) ==
    /\ disk' = After(docs, Len(docs))
    /\ mem' = Last(docs) /\ sens' = known
    /\ UNCHANGED <<up, unhealthy, covered, faults>>

\* _save: whatever the store raised closes the coordinator.
Raised(docs, known) ==
    /\ Fault
    /\ \E i \in DOMAIN docs : disk' \in CutDisks(docs, i) /\ mem' = docs[i]
    /\ sens' = known
    /\ unhealthy' = TRUE
    /\ UNCHANGED <<up, covered>>

\* A cancellation is no Exception: the coordinator stays open.
Cancelled(docs, known) ==
    /\ Fault
    /\ disk' \in CutDisks(docs, 1)
    /\ mem' = docs[1] /\ sens' = known
    /\ UNCHANGED <<up, unhealthy, covered>>

Dead ==
    /\ up' = FALSE /\ mem' = NewDoc /\ unhealthy' = FALSE /\ covered' = TRUE
    /\ sens' = [s \in Sensors |-> Unknown]

Dies(docs) ==
    /\ Fault
    /\ \E i \in DOMAIN docs : disk' \in CutDisks(docs, i)
    /\ Dead

Fails(docs, known) == Raised(docs, known) \/ Dies(docs)

---------------------------------------------------------------------------
(* Records and what releases them.                                           *)

Held == {k \in Keys : mem.prot[k] # Nothing}

Covering(l) == {k \in Held : l \in mem.prot[k].lights}

Healthy == up /\ ~unhealthy /\ covered

\* All sensors have been off for the stable absence; without a sensor the timer
\* stands for it, if the policy allows that.
Absence(rec, known) ==
    IF rec.sensors = {} THEN ~rec.policy.manualFallback /\ now >= rec.notBefore
    ELSE \A s \in rec.sensors : known[s].st = "off" /\ now >= known[s].at + Stable

Due(rec, known) ==
    /\ rec.policy.mode # "absence_only" => now >= rec.notBefore
    /\ rec.policy.mode # "timer_only" => Absence(rec, known)

\* _may_release: every sensor must be known, by evidence no older than Fresh.
MayRelease(rec, known) ==
    /\ \A s \in rec.sensors : known[s].st # "unknown" /\ now <= known[s].at + Fresh
    /\ Due(rec, known)

\* What the promise of a record demands of the world itself.
Earned(rec) == Due(rec, room)

Without(doc, ks) == [doc EXCEPT !.prot = [k \in Keys |-> IF k \in ks THEN Nothing
                                                        ELSE doc.prot[k]]]

\* The documents after ending one record after the other, each with its save.
EndedOneByOne(ks) ==
    {[i \in DOMAIN order |-> Without(mem, {order[j] : j \in 1..i})] :
        order \in SetToSeqs(ks)}

Ended(ks) == {mem.prot[k] : k \in ks}

\* What is still owed once the records ks are gone for good.
Settle(ks) ==
    owed' = {pr \in owed : \A rec \in Ended(ks) : rec.born # pr.born}

---------------------------------------------------------------------------
(* Events: the listener and async_note_state_transition.                     *)

Profile(p) == Effective[mem.settings][p]

ProfileOf(l) == {p \in Profiles : l \in Profile(p).lights}

NewRecord(l, p, policy, lights) ==
    [lights |-> lights, sensors |-> Profile(p).sensors, policy |-> policy,
     notBefore |-> now + Interval, born |-> born + 1]

Extended(rec) == [rec EXCEPT !.notBefore = now + Interval]

\* The promises of the records that lose their place.
Replace(prs, replaced) ==
    {[pr EXCEPT !.excuse = IF pr.born \in replaced THEN "replaced" ELSE @] : pr \in prs}

\* The record is acknowledged; an earlier promise of it ends.
Noted(rec, replaced) ==
    owed' = Replace({pr \in owed : pr.born # rec.born}, replaced)
            \union {[lights |-> rec.lights, sensors |-> rec.sensors, policy |-> rec.policy,
                     notBefore |-> rec.notBefore, born |-> rec.born, excuse |-> "none"]}

\* _activate of a light that no record of its profile covers yet.  The key is the
\* profile's or the light's; a record that is there under it is replaced.
Activate(l, p) ==
    LET policy == Profile(p).policy
        k == <<p, IF policy.source THEN l ELSE Whole>>
        rec == NewRecord(l, p, policy, IF policy.source THEN {l} ELSE Profile(p).lights)
        doc == [mem EXCEPT !.prot[k] = rec]
        replaced == {r.born : r \in Ended({k} \cap Held)}
    IN  /\ \A j \in Covering(l) : j[1] # p
        /\ Cardinality(Held) < ActiveCapacity
        /\ born < MaxBorn
        /\ born' = born + 1
        /\ \/ Acked(<<doc>>, sens) /\ Noted(rec, replaced)
           \/ Fails(<<doc>>, sens) /\ owed' = Replace(owed, replaced)

\* _activate again: the record and its frozen policy decide.
Repeat(l, p) ==
    \E k \in Covering(l) :
        /\ k[1] = p
        /\ mem.prot[k].policy.extend
        /\ LET rec == Extended(mem.prot[k])
               doc == [mem EXCEPT !.prot[k] = rec]
           IN  \/ Acked(<<doc>>, sens) /\ Noted(rec, {})
               \/ Fails(<<doc>>, sens) /\ UNCHANGED owed
        /\ UNCHANGED born

\* There is no room for a record: nothing is evicted, the coordinator closes.
Overflow(l, p) ==
    /\ \A j \in Covering(l) : j[1] # p
    /\ Cardinality(Held) >= ActiveCapacity
    /\ unhealthy' = TRUE
    /\ UNCHANGED <<disk, up, mem, sens, covered, faults, owed, born>>

\* A fresh transition to off that no command of automation explains.
ManualOff(l) ==
    /\ Healthy
    /\ \E p \in ProfileOf(l) : Activate(l, p) \/ Overflow(l, p) \/ Repeat(l, p)
    /\ UNCHANGED <<world, missed, broken, damaged>>

\* A transition to on by hand ends every record of the light.
ManualOn(l) ==
    /\ Healthy
    /\ Covering(l) # {}
    /\ \E docs \in EndedOneByOne(Covering(l)) : Acked(docs, sens) \/ Fails(docs, sens)
    /\ Settle(Covering(l))
    /\ UNCHANGED <<world, missed, born, broken, damaged>>

\* Mutant of Observed: an untrusted state leaves what was known.
ObservedTrusting(s, known) == IF known.st = "unknown" THEN sens ELSE [sens EXCEPT ![s] = known]

\* trusted_presence_sensor_evidence: what is not trusted is unknown.
Observed(s, known) == [sens EXCEPT ![s] = known]

Tracking(s) == {k \in Held : s \in mem.prot[k].sensors}

\* Every record whose absenceSince the evidence changes is saved with it, one after
\* the other.
Remarks(s) == {[i \in 1..n |-> mem] : n \in 0..Cardinality(Tracking(s))}

\* The state event of a sensor.  Evidence of a sensor that no record tracks, or
\* that comes while the coordinator is closed, is dropped.
Notices(s, known) ==
    IF ~Healthy \/ Tracking(s) = {}
      THEN /\ missed' = IF sens[s] = Unknown THEN missed ELSE missed \union {s}
           /\ UNCHANGED <<code, faults>>
      ELSE /\ missed' = missed \ {s}
           /\ \E docs \in Remarks(s) :
                IF docs = <<>>
                  THEN /\ sens' = Observed(s, known)
                       /\ UNCHANGED <<disk, up, mem, unhealthy, covered, faults>>
                  ELSE Acked(docs, Observed(s, known)) \/ Fails(docs, Observed(s, known))

Reports(s, known) == reported' = [reported EXCEPT ![s] = known] /\ Notices(s, known)

\* People come or leave; the sensor tells it unless it is out of reach.
Presence(s) ==
    /\ now > room[s].at
    /\ LET known == [st |-> IF room[s].st = "on" THEN "off" ELSE "on", at |-> now]
       IN  /\ room' = [room EXCEPT ![s] = known]
           /\ \/ reported[s] # Unknown /\ Reports(s, known)
              \/ reported[s] = Unknown
                 /\ UNCHANGED <<reported, missed, code, faults>>
    /\ UNCHANGED <<now, owed, born, broken, damaged>>

\* The sensor becomes unavailable, restored or assumed.
Untrusted(s) ==
    /\ reported[s] # Unknown
    /\ Reports(s, Unknown)
    /\ UNCHANGED <<now, room, owed, born, broken, damaged>>

\* It reports again: the state is as old as the report.
ReportsAgain(s) ==
    /\ reported[s] = Unknown
    /\ Reports(s, [st |-> room[s].st, at |-> now])
    /\ UNCHANGED <<now, room, owed, born, broken, damaged>>

---------------------------------------------------------------------------
(* Automation asks: async_decide_entity under the executor's light group.    *)

\* The records that go, all of them or none.
Released(l) == IF \A k \in Covering(l) : MayRelease(mem.prot[k], sens)
                 THEN Covering(l) ELSE {}

\* Automation may switch l on; the promises that this breaks are noted.
Granted(l) == broken' = broken \union
    {IF pr.excuse = "none" /\ pr.sensors \intersect missed # {} THEN "stale" ELSE pr.excuse :
        pr \in {pr \in owed : l \in pr.lights /\ ~Earned(pr)}}

\* No record covers l, or all of them are due and their release is on disk.
Decide(l) ==
    /\ Healthy
    /\ LET ks == Released(l) IN
         \/ /\ Covering(l) = {}
            /\ Granted(l)
            /\ UNCHANGED <<code, faults, owed>>
         \/ /\ ks # {}
            /\ Settle(ks)
            /\ \/ Acked(<<Without(mem, ks)>>, sens) /\ Granted(l)
               \/ Fails(<<Without(mem, ks)>>, sens) /\ UNCHANGED broken
    /\ UNCHANGED <<world, missed, born, damaged>>

---------------------------------------------------------------------------
(* Requests.                                                                 *)

Answered(q) == {r \in Range(mem.receipts) : r.req = q}

\* Mutant of WithReceipt: nothing makes room.
WithReceiptAppended(doc, q) ==
    [doc EXCEPT !.receipts = Append(@, [req |-> q, doc |-> doc.settings])]

\* _persist_with_receipt: the oldest receipt makes room.
WithReceipt(doc, q) ==
    LET all == Append(doc.receipts, [req |-> q, doc |-> doc.settings])
    IN  [doc EXCEPT !.receipts = IF Len(all) > ReceiptCapacity THEN Tail(all) ELSE all]

Maximum(a, b) == IF a > b THEN a ELSE b

\* async_replace_settings by a client that knows the current revision.  A request
\* that was answered before gets its receipt again, without a save, and any other
\* document under its id is refused.
ReplaceSettings(q, doc) ==
    LET new == WithReceipt([mem EXCEPT !.settings = doc, !.rev = @ + 1], q)
    IN  /\ Healthy
        /\ IF Answered(q) # {}
             THEN /\ [req |-> q, doc |-> doc] \in Answered(q)
                  /\ UNCHANGED <<code, faults>>
             ELSE /\ mem.rev < MaxRevision
                  /\ Acked(<<new>>, sens) \/ Fails(<<new>>, sens) \/ Cancelled(<<new>>, sens)
        /\ UNCHANGED <<world, missed, owed, born, broken, damaged>>

\* async_release_profile and async_release of a client that knows the revision of
\* the record.
Release(p) ==
    \E k \in Held :
        LET new == Without(mem, {k})
        IN  /\ Healthy
            /\ k[1] = p
            /\ mem.prot[k].policy.release
            /\ Acked(<<new>>, sens) \/ Fails(<<new>>, sens) \/ Cancelled(<<new>>, sens)
            /\ Settle({k})
            /\ UNCHANGED <<world, missed, born, broken, damaged>>

\* async_arm_release_owned_direct_off: the record of the built-in profile is made,
\* or starts again.  Evidence is read from the states of its sensors; what is
\* known of any other sensor is dropped.
DirectRecord ==
    LET old == mem.prot[DirectKey]
    IN  IF old = Nothing
          THEN [lights |-> DirectLights, sensors |-> DirectSensors, policy |-> DirectPolicy,
                notBefore |-> now + Interval, born |-> born + 1]
          ELSE [old EXCEPT !.notBefore = Maximum(now + Interval, @)]

RestoredEvidence ==
    [s \in Sensors |->
        IF s \in DirectSensors /\ now <= reported[s].at + Fresh THEN reported[s]
        ELSE IF s \in DirectSensors \/ Tracking(s) # {} THEN Unknown
        ELSE sens[s]]

ArmDirect ==
    LET rec == DirectRecord
        new == [mem EXCEPT !.prot[DirectKey] = rec]
    IN  /\ Healthy
        /\ rec.born <= MaxBorn
        /\ born' = Maximum(born, rec.born)
        /\ \/ Acked(<<new>>, RestoredEvidence) /\ Noted(rec, {})
           \/ Fails(<<new>>, RestoredEvidence) /\ UNCHANGED owed
        /\ missed' = missed \ DirectSensors
        /\ UNCHANGED <<world, broken, damaged>>

---------------------------------------------------------------------------
(* Set-up, health and the world.                                             *)

\* async_load: an unreadable store or an older copy closes the coordinator; what
\* the sensors saw has to be seen again.
Opens(answer) ==
    /\ up' = TRUE
    /\ disk' = answer.disk
    /\ mem' = IF answer.kind = "value" THEN answer.doc ELSE NewDoc
    /\ unhealthy' = (answer.kind = "error" \/ answer.flagged)

\* A store of which no copy can be read is new at the second set-up.
Setup ==
    /\ ~up
    /\ \E answer \in LoadAnswers(disk) :
         /\ Opens(answer)
         /\ owed' = IF answer.kind = "none"
                      THEN {[pr EXCEPT !.excuse = "lost"] : pr \in owed} ELSE owed
    /\ sens' = [s \in Sensors |-> Unknown]
    /\ missed' = {}
    /\ UNCHANGED <<covered, world, faults, born, kept>>

\* set_catalog_coverage_healthy
Coverage ==
    /\ up
    /\ covered' = ~covered
    /\ UNCHANGED <<disk, up, mem, sens, unhealthy, world, missed, faults, owed, born, kept>>

\* The clean-up of another store failed after the protection was saved.
MarkUnhealthy ==
    /\ up /\ ~unhealthy
    /\ Fault
    /\ unhealthy' = TRUE
    /\ UNCHANGED <<disk, up, mem, sens, covered, world, missed, owed, born, kept>>

\* The process ends between two calls, or the entry is unloaded.
Stop ==
    /\ up
    /\ Dead
    /\ UNCHANGED <<disk, world, missed, faults, owed, born, kept>>

DamageFile ==
    /\ ~up
    /\ Fault
    /\ \E bad \in {Invalid, Corrupt} : disk' = [disk EXCEPT !.cur = bad]
    /\ damaged' = TRUE
    /\ UNCHANGED <<up, mem, sens, unhealthy, covered, world, missed, owed, born, broken>>

Tick ==
    /\ now < MaxTime
    /\ now' = now + 1
    /\ UNCHANGED <<code, room, reported, missed, faults, owed, born, kept>>

Event ==
    \/ \E l \in Lights : ManualOff(l) \/ ManualOn(l) \/ Decide(l)
    \/ \E s \in Sensors : Presence(s) \/ Untrusted(s) \/ ReportsAgain(s)

Call ==
    \/ \E q \in Requests, doc \in Settings : ReplaceSettings(q, doc)
    \/ \E p \in Profiles \union {Direct} : Release(p)
    \/ ArmDirect

Next ==
    \/ Event \/ Call
    \/ Setup \/ Coverage \/ MarkUnhealthy \/ Stop \/ DamageFile \/ Tick

Spec == Init /\ [][Next]_vars

---------------------------------------------------------------------------
(* Properties.                                                               *)

\* A light that was switched off by hand, and whose record was acknowledged, is not
\* handed back to automation before the frozen policy allows it and the room really
\* is as that demands: over extensions, overlapping records, failed saves, sensors
\* that drop out, restarts and fall-backs.  Excused are records that a new one of
\* their profile replaced after a change of settings, whose store was lost in both
\* copies, or for whose sensor older evidence stood while newer evidence was dropped
\* (no record tracked it, or the catalogue's gate was closed).
ProtectionHolds == "none" \notin broken

\* An acknowledged record is in the current file until something ends it: the next
\* process knows of it, whatever was saved or failed to be saved after it.
ProtectionDurable ==
    ~damaged => \A pr \in owed :
        \/ pr.excuse # "none"
        \/ /\ Valid(disk.cur)
           /\ \E k \in Keys : /\ disk.cur.prot[k] # Nothing
                              /\ disk.cur.prot[k].born = pr.born
                              /\ disk.cur.prot[k].notBefore >= pr.notBefore
=============================================================================
