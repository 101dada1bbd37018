------------------------ MODULE VerifiedSafetyStore ------------------------
(* VerifiedSafetyStore of verified_safety_storage.py, one action per file
   operation: every one of them is awaited in an executor thread, so a crash,
   a cancellation or an error can fall between any two.

   The client is what the coordinators are: it loads once when the process (or
   the config entry) starts, and then makes one save at a time, under its own
   lock.  The payload of the n-th save is the number n.                      *)

EXTENDS Naturals

CONSTANTS MaxSaves,      \* bound: saves attempted
          MaxDamage,     \* bound: files damaged from outside
          MaxCrashes,    \* bound: crashes
          DamageKinds,   \* which damages happen, a subset of {Invalid, Corrupt}
          Absent, Invalid, Corrupt

Payloads == 1..MaxSaves

INSTANCE SafetyDisk

ASSUME StoreAssumption ==
    /\ MaxSaves \in Nat
    /\ MaxDamage \in Nat
    /\ MaxCrashes \in Nat
    /\ DamageKinds \subseteq {Invalid, Corrupt}
    /\ {Absent, Invalid, Corrupt} \cap Payloads = {}
    /\ Absent # Invalid /\ Absent # Corrupt /\ Invalid # Corrupt

VARIABLES disk,        \* the three files
          pc,          \* where the running call is
          current,     \* save: the current file as read before the backup
          existed,     \* load: whether the current file was there
          payload,     \* load: what the backend's load answered
          recovered,   \* recovered_previous of this store object
          attempted, committed, damage, reply,   \* see SafetyStore
          crashes,
          started,     \* history: the disk when the running call began
          superseded   \* history: the payload acknowledged before the last one

vars == <<disk, pc, current, existed, payload, recovered, attempted, committed,
          damage, reply, crashes, started, superseded>>

Abstract == INSTANCE SafetyStore

SavePoints == {"save_read", "save_backup", "save_write", "save_verify"}
LoadPoints == {"load_latch", "load_exists", "load_backend", "load_previous",
               "load_set_latch", "load_restore", "load_verify"}

TypeOK ==
    /\ disk \in Disks
    /\ pc \in {"down", "idle"} \union SavePoints \union LoadPoints
    /\ current \in Files
    /\ existed \in BOOLEAN
    /\ payload \in Files
    /\ recovered \in BOOLEAN
    /\ attempted \in 0..MaxSaves
    /\ committed \in 0..attempted
    /\ damage \in 0..MaxDamage
    /\ reply \in Abstract!Replies
    /\ crashes \in 0..MaxCrashes
    /\ started \in Disks
    /\ superseded \in 0..attempted

Init ==
    /\ disk = NewDisk
    /\ pc = "down"
    /\ current = Absent
    /\ existed = FALSE
    /\ payload = Absent
    /\ recovered = FALSE
    /\ attempted = 0
    /\ committed = 0
    /\ damage = 0
    /\ reply = [kind |-> "unasked", doc |-> 0, flagged |-> FALSE]
    /\ crashes = 0
    /\ started = NewDisk
    /\ superseded = 0

client == <<attempted, committed, reply, superseded>>
world == <<damage, crashes>>
locals == <<current, existed, payload, recovered>>

---------------------------------------------------------------------------
(* async_save                                                                *)

SaveBegin ==
    /\ pc = "idle"
    /\ attempted < MaxSaves
    /\ attempted' = attempted + 1
    /\ pc' = "save_read"
    /\ started' = disk
    /\ UNCHANGED <<disk, locals, committed, reply, superseded, world>>

\* Mutant of SaveRead: an N-1 copy that exists is not refreshed.
SaveReadOnce ==
    /\ pc = "save_read"
    /\ current' = disk.cur
    /\ pc' = IF Valid(disk.cur) /\ ~Valid(disk.prev) THEN "save_backup" ELSE "save_write"
    /\ UNCHANGED <<disk, existed, payload, recovered, client, world, started>>

SaveRead ==
    /\ pc = "save_read"
    /\ current' = disk.cur
    /\ pc' = IF Valid(disk.cur) THEN "save_backup" ELSE "save_write"
    /\ UNCHANGED <<disk, existed, payload, recovered, client, world, started>>

SaveBackup ==
    /\ pc = "save_backup"
    /\ disk' = [disk EXCEPT !.prev = current]
    /\ pc' = "save_write"
    /\ UNCHANGED <<locals, client, world, started>>

\* The backend's save: the write happens, or its error is swallowed.
SaveWrite ==
    /\ pc = "save_write"
    /\ \/ disk' = [disk EXCEPT !.cur = attempted]
       \/ UNCHANGED disk
    /\ pc' = "save_verify"
    /\ UNCHANGED <<locals, client, world, started>>

\* Mutant of SaveVerify: the write is believed without being read back.
SaveBelieved ==
    /\ pc = "save_verify"
    /\ committed' = attempted
    /\ superseded' = committed
    /\ pc' = "idle"
    /\ UNCHANGED <<disk, locals, attempted, reply, world, started>>

\* Read-back: anything but the payload raises, otherwise the save is acknowledged.
SaveVerify ==
    /\ pc = "save_verify"
    /\ IF disk.cur = attempted
         THEN /\ committed' = attempted
              /\ superseded' = committed
         ELSE UNCHANGED <<committed, superseded>>
    /\ pc' = "idle"
    /\ UNCHANGED <<disk, locals, attempted, reply, world, started>>

\* An error of a file operation, or the cancellation of the caller.
SaveFails ==
    /\ pc \in SavePoints
    /\ pc' = "idle"
    /\ UNCHANGED <<disk, locals, client, world, started>>

---------------------------------------------------------------------------
(* async_load                                                                *)

\* A new store object, made by the set-up of the entry.
LoadBegin ==
    /\ pc = "down"
    /\ recovered' = FALSE
    /\ pc' = "load_latch"
    /\ started' = disk
    /\ UNCHANGED <<disk, current, existed, payload, client, world>>

LoadLatch ==
    /\ pc = "load_latch"
    /\ recovered' = (recovered \/ disk.latch)
    /\ pc' = "load_exists"
    /\ UNCHANGED <<disk, current, existed, payload, client, world, started>>

LoadExists ==
    /\ pc = "load_exists"
    /\ existed' = (disk.cur # Absent)
    /\ pc' = "load_backend"
    /\ UNCHANGED <<disk, current, payload, recovered, client, world, started>>

Answers(kind, doc, flagged) ==
    reply' = [kind |-> kind, doc |-> doc, flagged |-> flagged]

\* Mutant of LoadBackend: whatever the backend loads is answered.
LoadUnvalidated ==
    /\ pc = "load_backend"
    /\ payload' = Loaded(disk.cur)
    /\ disk' = MovedAside(disk)
    /\ Answers("value", payload', recovered)
    /\ pc' = "idle"
    /\ UNCHANGED <<current, existed, recovered, attempted, committed,
                   superseded, world, started>>

LoadBackend ==
    /\ pc = "load_backend"
    /\ payload' = Loaded(disk.cur)
    /\ disk' = MovedAside(disk)
    /\ IF Valid(payload')
         THEN /\ Answers("value", payload', recovered)
              /\ pc' = "idle"
         ELSE /\ UNCHANGED reply
              /\ pc' = "load_previous"
    /\ UNCHANGED <<current, existed, recovered, attempted, committed,
                   superseded, world, started>>

\* Without a valid N-1 copy the load answers, and an error fails the set-up.
LoadPrevious ==
    /\ pc = "load_previous"
    /\ IF Valid(disk.prev)
         THEN /\ pc' = "load_set_latch"
              /\ UNCHANGED reply
       ELSE IF payload = Absent /\ ~existed
         THEN /\ pc' = "idle"
              /\ Answers("none", 0, recovered)
       ELSE /\ pc' = "down"
            /\ Answers("error", 0, recovered)
    /\ UNCHANGED <<disk, locals, attempted, committed, superseded, world, started>>

\* Mutant of LoadSetLatch: the fall-back leaves no latch behind.
LoadUnlatched ==
    /\ pc = "load_set_latch"
    /\ pc' = "load_restore"
    /\ UNCHANGED <<disk, locals, client, world, started>>

LoadSetLatch ==
    /\ pc = "load_set_latch"
    /\ disk' = [disk EXCEPT !.latch = TRUE]
    /\ pc' = "load_restore"
    /\ UNCHANGED <<locals, client, world, started>>

\* The backend's save of the N-1 payload, whose error is swallowed too.
LoadRestore ==
    /\ pc = "load_restore"
    /\ \/ disk' = [disk EXCEPT !.cur = disk.prev]
       \/ UNCHANGED disk
    /\ pc' = "load_verify"
    /\ UNCHANGED <<locals, client, world, started>>

\* Mutant of LoadVerify: the restored file is not read back.
LoadBelieved ==
    /\ pc = "load_verify"
    /\ recovered' = TRUE
    /\ pc' = "idle"
    /\ Answers("value", disk.prev, TRUE)
    /\ UNCHANGED <<disk, current, existed, payload, attempted, committed,
                   superseded, world, started>>

LoadVerify ==
    /\ pc = "load_verify"
    /\ IF disk.cur = disk.prev
         THEN /\ recovered' = TRUE
              /\ pc' = "idle"
              /\ Answers("value", disk.prev, TRUE)
         ELSE /\ UNCHANGED recovered
              /\ pc' = "down"
              /\ Answers("error", 0, recovered)
    /\ UNCHANGED <<disk, current, existed, payload, attempted, committed,
                   superseded, world, started>>

---------------------------------------------------------------------------
(* The world: the process stops anywhere, files are damaged between calls.   *)

Crash ==
    /\ pc # "down"
    /\ crashes < MaxCrashes
    /\ crashes' = crashes + 1
    /\ pc' = "down"
    /\ UNCHANGED <<disk, locals, client, damage, started>>

DamageFile ==
    /\ pc \in {"down", "idle"}
    /\ damage < MaxDamage
    /\ damage' = damage + 1
    /\ \E file \in {"cur", "prev"}, kind \in DamageKinds :
         /\ Valid(disk[file])
         /\ disk' = [disk EXCEPT ![file] = kind]
    /\ UNCHANGED <<pc, locals, client, crashes, started>>

Save == SaveBegin \/ SaveRead \/ SaveBackup \/ SaveWrite \/ SaveVerify \/ SaveFails

Load == LoadBegin \/ LoadLatch \/ LoadExists \/ LoadBackend \/ LoadPrevious
        \/ LoadSetLatch \/ LoadRestore \/ LoadVerify

Next == Save \/ Load \/ Crash \/ DamageFile

Spec == Init /\ [][Next]_vars

---------------------------------------------------------------------------
(* Properties.                                                               *)

\* The store keeps the abstract promise of SafetyStore: without damage every
\* load answers the last acknowledged payload or a newer attempted one, and an
\* older value or an error is only ever the consequence of a damaged file, the
\* older value being flagged recovered_previous, across crashes at any step.
KeepsPromise == Abstract!Spec

\* A load of a running process ends with an answer.
LoadReplies == pc \in LoadPoints /\ pc' = "idle"

\* With at most one damage, a load that falls back to the ".previous" copy goes
\* back one acknowledged payload at most: a failed or swallowed write in between
\* does not rotate the last good copy away.
FallsBackOneSave ==
    [][LoadReplies /\ damage <= 1 /\ reply'.kind = "value"
         => reply'.doc >= superseded]_vars

\* The clients' view of a whole call (SafetyDisk) is exact: what a finished,
\* failed or crashed save leaves is what SaveAcks and SaveFailures say.
SaveEnds == pc \in SavePoints /\ pc' \in {"idle", "down"}

SaveEffect ==
    disk' \in IF committed' # committed THEN SaveAcks(started, attempted)
              ELSE SaveFailures(started, attempted)

SavesAreAtomic == [][SaveEnds => SaveEffect]_vars

\* Likewise what a load that answers, or that a crash cuts short, leaves is what
\* LoadAnswers and LoadCuts say.
LoadEnds == pc \in LoadPoints /\ pc' \in {"idle", "down"}

LoadEffect ==
    IF crashes' # crashes THEN disk' \in LoadCuts(started)
    ELSE \E a \in LoadAnswers(started) :
           /\ a.disk = disk'
           /\ a.kind = reply'.kind
           /\ a.flagged = reply'.flagged
           /\ a.kind = "value" => a.doc = reply'.doc

LoadsAreAtomic == [][LoadEnds => LoadEffect]_vars
=============================================================================
