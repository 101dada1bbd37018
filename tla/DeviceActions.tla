--------------------------- MODULE DeviceActions ---------------------------
(* Physical device actions over HTTP (DeviceActionView.post and
   _DeviceActionLifecycle in device_action_api.py) on top of the idempotency
   journal and its verified store.

   A request reserves its key, marks it pending, prepares, marks it
   dispatching, executes, and completes the record with its receipt; on a
   failure it abandons the reservation if no physical call was made.  Every
   journal call is one action, since the journal's lock covers it, with the
   outcomes of SafetyDisk: acknowledged, or not (and then written or not).
   A request of a safe action runs its journal calls under a deadline: on
   expiry the call is cancelled, the client gets a failure, and a finalizer
   releases the key once the cancelled call has settled.

   The process stops anywhere; the config entry may be unloaded while requests
   are under way, and they go on with the journal object they started with.   *)

EXTENDS DangerousActionIdempotency

CONSTANTS Absent, Invalid, Corrupt,
          DamageKinds,   \* which damages happen, a subset of {Invalid, Corrupt}
          MaxDamage,     \* bound: files damaged from outside
          MaxSetups,     \* bound: set-ups of the config entry
          MaxUnloads,    \* bound: unloads while the process goes on
          NoKey, NoFp

Payloads == Journals

INSTANCE SafetyDisk

ASSUME ActionsAssumption ==
    /\ MaxDamage \in Nat
    /\ MaxSetups \in Nat
    /\ MaxUnloads \in Nat
    /\ DamageKinds \subseteq {Invalid, Corrupt}
    /\ NoKey \notin Keys
    /\ NoFp \notin Fingerprints
    /\ {Absent, Invalid, Corrupt} \cap Payloads = {}
    /\ Absent # Invalid /\ Absent # Corrupt /\ Invalid # Corrupt

Instances == 0..MaxSetups

VARIABLES disk,      \* the files of the journal's store
          serving,   \* the config entry is set up
          latest,    \* number of the latest journal object
          mem,       \* its records in memory, and those of its predecessors
          setups, unloads, damage,   \* counters of the bounds
          pc,        \* where each request is
          key, fp,   \* its idempotency key and fingerprint
          bounded,   \* it is a safe action: its journal calls have a deadline
          owner,     \* the journal object it works with
          crossed,   \* dispatch_crossed of its lifecycle
          answer,    \* what its client was told
          source,    \* the request whose receipt it was answered with
          dispatched \* history: requests that made their physical call

requestVars == <<pc, key, fp, bounded, owner, crossed, answer, source, dispatched>>
entryVars == <<serving, latest, setups, unloads>>
vars == <<disk, mem, damage, entryVars, requestVars>>

CallPoints == {"reserve", "pending", "dispatching", "complete", "abandon",
               "late_reserve", "late_transition"}
Points == CallPoints \union {"idle", "prepare", "execute", "unattended", "done"}
AnswerKinds == {"none", "failed", "conflict", "in_progress", "replay", "receipt"}

TypeOK ==
    /\ disk \in Disks
    /\ serving \in BOOLEAN
    /\ latest \in Instances
    /\ mem \in [Instances -> Journals]
    /\ setups \in 0..MaxSetups
    /\ unloads \in 0..MaxUnloads
    /\ damage \in 0..MaxDamage
    /\ pc \in [Requests -> Points]
    /\ key \in [Requests -> Keys \union {NoKey}]
    /\ fp \in [Requests -> Fingerprints \union {NoFp}]
    /\ bounded \in [Requests -> BOOLEAN]
    /\ owner \in [Requests -> Instances]
    /\ crossed \in [Requests -> BOOLEAN]
    /\ answer \in [Requests -> AnswerKinds]
    /\ source \in [Requests -> Requests]
    /\ dispatched \in SUBSET Requests

Init ==
    /\ disk = NewDisk
    /\ serving = FALSE
    /\ latest = 0
    /\ mem = [g \in Instances |-> EmptyJournal]
    /\ setups = 0
    /\ unloads = 0
    /\ damage = 0
    /\ pc = [r \in Requests |-> "idle"]
    /\ key = [r \in Requests |-> NoKey]
    /\ fp = [r \in Requests |-> NoFp]
    /\ bounded = [r \in Requests |-> FALSE]
    /\ owner = [r \in Requests |-> 0]
    /\ crossed = [r \in Requests |-> FALSE]
    /\ answer = [r \in Requests |-> "none"]
    /\ source = [r \in Requests |-> r]
    /\ dispatched = {}

---------------------------------------------------------------------------
(* Journal calls.                                                            *)

Journal(r) == mem[owner[r]]

\* The guard of the call r is at, when it does not raise before its save.
CallAllowed(r) ==
    CASE pc[r] = "reserve"     -> MayReserve(Journal(r), key[r])
      [] pc[r] = "pending"     -> MayMark(Journal(r), key[r])
      [] pc[r] = "dispatching" -> MayMark(Journal(r), key[r])
      [] pc[r] = "complete"    -> MayComplete(Journal(r), key[r], r)
      [] pc[r] \in {"abandon", "late_reserve", "late_transition"} ->
                                  MayAbandon(Journal(r), key[r])
      [] OTHER -> FALSE

\* The journal that call hands to the store.
CallPayload(r) ==
    CASE pc[r] = "reserve"     -> Reserved(Journal(r), key[r], fp[r], r)
      [] pc[r] = "pending"     -> MarkedPending(Journal(r), key[r])
      [] pc[r] = "dispatching" -> MarkedDispatching(Journal(r), key[r])
      [] pc[r] = "complete"    -> Completed(Journal(r), key[r])
      [] OTHER                 -> Abandoned(Journal(r), key[r])

CallSucceeds(r) ==
    /\ CallAllowed(r)
    /\ disk' \in SaveAcks(disk, CallPayload(r))
    /\ mem' = [mem EXCEPT ![owner[r]] = CallPayload(r)]

\* The call raises before its save, or its save does, or it is cancelled.
CallFails(r) ==
    /\ IF CallAllowed(r) THEN disk' \in SaveFailures(disk, CallPayload(r))
       ELSE UNCHANGED disk
    /\ UNCHANGED mem

Goto(r, point) == pc' = [pc EXCEPT ![r] = point]

Finish(r, kind) ==
    /\ Goto(r, "done")
    /\ answer' = [answer EXCEPT ![r] = kind]

request == <<key, fp, bounded, owner>>

---------------------------------------------------------------------------
(* One request.                                                              *)

Arrive(r) ==
    /\ serving
    /\ pc[r] = "idle"
    /\ Goto(r, "reserve")
    /\ \E k \in Keys, f \in Fingerprints, b \in BOOLEAN :
         /\ key' = [key EXCEPT ![r] = k]
         /\ fp' = [fp EXCEPT ![r] = f]
         /\ bounded' = [bounded EXCEPT ![r] = b]
    /\ owner' = [owner EXCEPT ![r] = latest]
    /\ UNCHANGED <<disk, mem, damage, entryVars, crossed, answer, source, dispatched>>

\* The key is taken: the request is answered from the journal.
Taken(r) ==
    /\ pc[r] = "reserve"
    /\ Journal(r)[key[r]] # NoRecord
    /\ LET rec == Journal(r)[key[r]] IN
         /\ Finish(r, Existing(rec, fp[r]))
         /\ source' = [source EXCEPT ![r] =
                         IF Existing(rec, fp[r]) = "replay" THEN rec.by ELSE r]
    /\ UNCHANGED <<disk, mem, damage, entryVars, request, crossed, dispatched>>

\* reserve -> pending -> prepare, and dispatching -> execute
AfterCall == [reserve |-> "pending", pending |-> "prepare", dispatching |-> "execute"]

Advance(r) ==
    /\ pc[r] \in DOMAIN AfterCall
    /\ CallSucceeds(r)
    /\ Goto(r, AfterCall[pc[r]])
    /\ UNCHANGED <<damage, entryVars, request, crossed, answer, source, dispatched>>

\* A reservation that raises is answered at once; a later call that raises is
\* followed by async_failure.
AdvanceFails(r) ==
    /\ pc[r] \in DOMAIN AfterCall
    /\ Journal(r)[key[r]] = NoRecord \/ pc[r] # "reserve"
    /\ CallFails(r)
    /\ IF pc[r] = "reserve"
         THEN Finish(r, "failed")
         ELSE Goto(r, "abandon") /\ UNCHANGED answer
    /\ UNCHANGED <<damage, entryVars, request, crossed, source, dispatched>>

\* The deadline of a safe action passes in a journal call.  The call is
\* cancelled, or ends all the same; a finalizer then releases the key, and a
\* cancelled reservation has nothing to release.
DeadlineExpires(r) ==
    /\ bounded[r]
    /\ pc[r] \in DOMAIN AfterCall
    /\ Journal(r)[key[r]] = NoRecord \/ pc[r] # "reserve"
    /\ answer' = [answer EXCEPT ![r] = "failed"]
    /\ \/ /\ CallSucceeds(r)
          /\ Goto(r, IF pc[r] = "reserve" THEN "late_reserve" ELSE "late_transition")
       \/ /\ CallFails(r)
          /\ Goto(r, IF pc[r] = "reserve" THEN "done" ELSE "late_transition")
    /\ UNCHANGED <<damage, entryVars, request, crossed, source, dispatched>>

\* Mutant of Prepare: the execution starts before the boundary is persisted.
PrepareUnfenced(r) ==
    /\ pc[r] = "prepare"
    /\ Goto(r, "execute") \/ Goto(r, "abandon")
    /\ UNCHANGED <<disk, mem, damage, entryVars, request, crossed, answer,
                   source, dispatched>>

\* The intercom release is prepared, or there is nothing to prepare.
Prepare(r) ==
    /\ pc[r] = "prepare"
    /\ \/ Goto(r, "dispatching")
       \/ Goto(r, "abandon")
    /\ UNCHANGED <<disk, mem, damage, entryVars, request, crossed, answer,
                   source, dispatched>>

\* The dispatch marker runs immediately before the physical call.
Dispatch(r) ==
    /\ pc[r] \in {"execute", "unattended"}
    /\ ~crossed[r]
    /\ crossed' = [crossed EXCEPT ![r] = TRUE]
    /\ dispatched' = dispatched \union {r}
    /\ UNCHANGED <<disk, mem, damage, entryVars, pc, request, answer, source>>

\* The execution answers: an accepted result, or a failed one that did not
\* cross the boundary, is completed.
ExecuteAnswers(r) ==
    /\ pc[r] = "execute"
    /\ Goto(r, "complete")
    /\ UNCHANGED <<disk, mem, damage, entryVars, request, crossed, answer,
                   source, dispatched>>

\* It raises, or it crossed the boundary and is not accepted: async_failure,
\* which abandons the key only if the boundary was not crossed.
ExecuteFails(r) ==
    /\ pc[r] = "execute"
    /\ IF crossed[r] THEN Finish(r, "failed")
       ELSE Goto(r, "abandon") /\ UNCHANGED answer
    /\ UNCHANGED <<disk, mem, damage, entryVars, request, crossed, source, dispatched>>

\* Mutant of Complete: the receipt is given out although it was not saved.
CompleteBestEffort(r) ==
    /\ pc[r] = "complete"
    /\ CallSucceeds(r) \/ CallFails(r)
    /\ Finish(r, "receipt")
    /\ UNCHANGED <<damage, entryVars, request, crossed, source, dispatched>>

\* _DeviceActionLifecycle.async_complete
Complete(r) ==
    /\ pc[r] = "complete"
    /\ \/ /\ CallSucceeds(r)
          /\ Finish(r, "receipt")
       \/ /\ CallFails(r)
          /\ IF crossed[r] THEN Finish(r, "failed")
             ELSE Goto(r, "abandon") /\ UNCHANGED answer
    /\ UNCHANGED <<damage, entryVars, request, crossed, source, dispatched>>

\* async_failure and the finalizers; errors of theirs are swallowed.
Abandon(r) ==
    /\ pc[r] \in {"abandon", "late_reserve", "late_transition"}
    /\ CallSucceeds(r) \/ CallFails(r)
    /\ Finish(r, "failed")
    /\ UNCHANGED <<damage, entryVars, request, crossed, source, dispatched>>

\* The late result of a safe action whose client is gone, or was answered with a
\* failure after the physical call, completes its record.
CompleteLate(r) ==
    /\ bounded[r] /\ crossed[r]
    /\ pc[r] = "done" /\ answer[r] \in {"none", "failed"}
    /\ owner[r] = latest /\ serving
    /\ MayComplete(Journal(r), key[r], r)
    /\ Journal(r)[key[r]].state # "completed"
    /\ LET journal == Completed(Journal(r), key[r]) IN
         \/ /\ disk' \in SaveAcks(disk, journal)
            /\ mem' = [mem EXCEPT ![owner[r]] = journal]
         \/ /\ disk' \in SaveFailures(disk, journal)
            /\ UNCHANGED mem
    /\ UNCHANGED <<damage, entryVars, requestVars>>

\* The HTTP handler is cancelled.  The call it waits for is cancelled with it,
\* or, under a deadline, goes on by itself, as the execution of a safe action
\* does that is being admitted.  Nothing is cleaned up.
Cancelled(r) ==
    /\ pc[r] \in CallPoints \union {"prepare", "execute"}
    /\ pc[r] \notin {"late_reserve", "late_transition"}
    /\ pc[r] = "reserve" => Journal(r)[key[r]] = NoRecord
    /\ \/ pc[r] \in CallPoints /\ (CallSucceeds(r) \/ CallFails(r))
       \/ UNCHANGED <<disk, mem>>
    /\ \/ Goto(r, "done")
       \/ pc[r] = "execute" /\ bounded[r] /\ Goto(r, "unattended")
    /\ UNCHANGED <<damage, entryVars, request, crossed, answer, source, dispatched>>

---------------------------------------------------------------------------
(* The config entry, the process and the files.                              *)

\* The entry is set up with a new journal object that loads the store.
Setup ==
    /\ ~serving
    /\ setups < MaxSetups
    /\ setups' = setups + 1
    /\ \E a \in LoadAnswers(disk) :
         LET persisted == IF a.kind = "value" THEN a.doc ELSE EmptyJournal
             journal == LoadedJournal(persisted, a.flagged)
         IN  \/ /\ a.kind # "error"
                /\ disk' \in IF journal = persisted THEN {a.disk}
                             ELSE SaveAcks(a.disk, journal)
                /\ serving' = TRUE
                /\ latest' = latest + 1
                /\ mem' = [mem EXCEPT ![latest + 1] = journal]
             \/ /\ \/ a.kind = "error" /\ disk' = a.disk
                   \/ a.kind = "value" /\ journal # persisted
                      /\ disk' \in SaveFailures(a.disk, journal)
                /\ UNCHANGED <<serving, latest, mem>>
    /\ UNCHANGED <<damage, unloads, requestVars>>

\* The set-up is cut short while it loads.
SetupCut ==
    /\ ~serving
    /\ setups < MaxSetups
    /\ setups' = setups + 1
    /\ disk' \in LoadCuts(disk)
    /\ UNCHANGED <<mem, damage, serving, latest, unloads, requestVars>>

\* The entry is unloaded; requests under way are neither waited for nor fenced.
Unload ==
    /\ serving
    /\ unloads < MaxUnloads
    /\ unloads' = unloads + 1
    /\ serving' = FALSE
    /\ UNCHANGED <<disk, mem, damage, latest, setups, requestVars>>

\* The process stops, perhaps in the middle of a save; every request is gone.
Crash ==
    /\ serving \/ \E r \in Requests : pc[r] \notin {"idle", "done"}
    /\ serving' = FALSE
    /\ \/ UNCHANGED disk
       \/ \E r \in Requests :
            /\ pc[r] \in CallPoints /\ CallAllowed(r)
            /\ disk' \in SaveFailures(disk, CallPayload(r))
    /\ pc' = [r \in Requests |-> IF pc[r] = "idle" THEN "idle" ELSE "done"]
    /\ mem' = [g \in Instances |-> EmptyJournal]
    /\ UNCHANGED <<damage, latest, setups, unloads, request, crossed, answer,
                   source, dispatched>>

DamageFile ==
    /\ damage < MaxDamage
    /\ damage' = damage + 1
    /\ \E file \in {"cur", "prev"}, kind \in DamageKinds :
         /\ Valid(disk[file])
         /\ disk' = [disk EXCEPT ![file] = kind]
    /\ UNCHANGED <<mem, entryVars, requestVars>>

Next ==
    \/ \E r \in Requests :
         \/ Arrive(r) \/ Taken(r) \/ Advance(r) \/ AdvanceFails(r)
         \/ DeadlineExpires(r) \/ Prepare(r) \/ Dispatch(r) \/ ExecuteAnswers(r)
         \/ ExecuteFails(r) \/ Complete(r) \/ Abandon(r) \/ CompleteLate(r)
         \/ Cancelled(r)
    \/ Setup \/ SetupCut \/ Unload \/ Crash \/ DamageFile

Spec == Init /\ [][Next]_vars

---------------------------------------------------------------------------
(* Properties.                                                               *)

\* Two requests that carry the same idempotency key never both make their
\* physical call, whatever is retried, cancelled, timed out, restarted or lost, as
\* long as the entry is not unloaded under its requests.
AtMostOnceDispatch ==
    unloads = 0 => \A r, s \in dispatched : key[r] = key[s] => r = s

\* "never redispatch uncertain work": the same whether or not there was an unload.
AtMostOnceAcrossReload ==
    \A r, s \in dispatched : key[r] = key[s] => r = s

\* Within one journal object the promise also holds across an unload: requests
\* that go on after it are still told apart by the journal they started with.
AtMostOncePerObject ==
    \A r, s \in dispatched : key[r] = key[s] /\ owner[r] = owner[s] => r = s

\* Without a damaged file or an unload a physical call leaves its key taken on disk
\* for good, by the request that made it and past the dispatch boundary: no
\* clean-up, late finalizer, failed save or load ever releases it.
DispatchIsDurable ==
    damage = 0 /\ unloads = 0 =>
      \A r \in dispatched :
         /\ Valid(disk.cur)
         /\ disk.cur[key[r]] # NoRecord
         /\ disk.cur[key[r]].by = r
         /\ disk.cur[key[r]].phase # "not_started"

\* Under the same conditions a client that got a receipt can have it replayed: the
\* completed record of its request stays on disk.
ReceiptIsDurable ==
    damage = 0 /\ unloads = 0 =>
      \A r \in Requests : answer[r] = "receipt" =>
         /\ Valid(disk.cur)
         /\ disk.cur[key[r]] # NoRecord
         /\ disk.cur[key[r]].by = r
         /\ disk.cur[key[r]].state = "completed"

\* A replayed receipt is that of another request with the same key and body,
\* which got its own result; if both worked with one journal object, the other
\* request is over, and was not answered from the journal itself.
ReplayIsFaithful ==
    \A r \in Requests : answer[r] = "replay" =>
       LET s == source[r] IN
         /\ s # r
         /\ key[s] = key[r] /\ fp[s] = fp[r]
         /\ answer[s] \in {"none", "failed", "receipt"}
         /\ owner[s] = owner[r] => pc[s] = "done"

\* A reservation that never reached the boundary does not outlive its process:
\* in the journal of a set-up entry such a record belongs to a request that
\* arrived since, unless the store once fell back to its N-1 copy.
NothingWedged ==
    serving /\ ~disk.latch =>
      \A k \in Held(mem[latest]) :
         LET rec == mem[latest][k] IN
           Released(rec) => owner[rec.by] = latest
=============================================================================
