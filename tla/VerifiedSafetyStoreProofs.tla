---------------------- MODULE VerifiedSafetyStoreProofs ----------------------
(* Proofs about VerifiedSafetyStore, for every number of saves, damages and
   crashes: it implements SafetyStore, and SafetyDisk's view of a whole call is
   exact.  The inductive invariant says what each point of a call knows of the
   disk the call began with, and which payloads the files may hold.          *)

EXTENDS VerifiedSafetyStore, TLAPS

---------------------------------------------------------------------------
(* The inductive invariant.                                                  *)

SaveProgress ==
    /\ pc \in SavePoints => attempted >= 1
    /\ pc = "save_read" => disk = started
    /\ pc = "save_backup" => disk = started /\ current = disk.cur /\ Valid(current)
    /\ pc = "save_write" => disk = BackedUp(started)
    /\ pc = "save_verify" => disk \in {BackedUp(started), Saved(started, attempted)}

\* The points of a load that has chosen to fall back to the N-1 copy.
FallBackPoints == {"load_set_latch", "load_restore", "load_verify"}

LoadProgress ==
    /\ pc \in {"load_latch", "load_exists", "load_backend"} => disk = started
    /\ pc \in LoadPoints => (recovered <=> pc # "load_latch" /\ started.latch)
    /\ pc \in {"load_backend", "load_previous"} => (existed <=> started.cur # Absent)
    /\ pc \in {"load_previous", "load_set_latch"} => disk = MovedAside(started)
    /\ pc \in {"load_previous"} \union FallBackPoints => ~Valid(started.cur)
    /\ pc = "load_previous" => payload = Loaded(started.cur)
    /\ pc = "load_previous" /\ started.cur # Absent => damage > 0
    /\ pc \in FallBackPoints => Valid(started.prev) /\ damage > 0
    /\ pc = "load_restore" => disk = Latched(started)
    /\ pc = "load_verify" => disk \in {Latched(started), Restored(started)}

\* Files hold payloads that were attempted, and a current file without a latch
\* is not older than the last acknowledged payload.
NothingOlder ==
    /\ Valid(disk.cur) => disk.cur <= attempted
    /\ Valid(disk.prev) => disk.prev <= attempted
    /\ Valid(disk.cur) /\ ~disk.latch => disk.cur >= committed

\* Without damage nothing is unreadable, and an acknowledged payload is there.
Undamaged ==
    damage = 0 =>
      /\ ~disk.latch
      /\ disk.cur \in Payloads \union {Absent}
      /\ Valid(disk.prev) => Valid(disk.cur)
      /\ ~Valid(disk.cur) => committed = 0

IInv == TypeOK /\ SaveProgress /\ LoadProgress /\ NothingOlder /\ Undamaged

---------------------------------------------------------------------------
(* The invariant is inductive.                                               *)

LEMMA FilesFacts ==
    /\ Payloads = 1..MaxSaves
    /\ Absent \notin Payloads /\ Invalid \notin Payloads /\ Corrupt \notin Payloads
    /\ Absent # Invalid /\ Absent # Corrupt /\ Invalid # Corrupt
  BY StoreAssumption DEF Payloads

LEMMA RepliesHold ==
    ASSUME NEW flagged \in BOOLEAN
    PROVE  /\ \A kind \in {"unasked", "none", "error"} :
                [kind |-> kind, doc |-> 0, flagged |-> flagged] \in Abstract!Replies
           /\ \A doc \in 1..MaxSaves :
                [kind |-> "value", doc |-> doc, flagged |-> flagged] \in Abstract!Replies
  BY DEF Abstract!Replies

LEMMA InitIInv == Init => IInv
<1> SUFFICES ASSUME Init PROVE IInv
    OBVIOUS
<1>1. reply \in Abstract!Replies
  BY RepliesHold DEF Init
<1>2. TypeOK
  <2>1. disk \in Disks /\ started \in Disks /\ current \in Files /\ payload \in Files
    BY DEF Init, NewDisk, Disks, Files
  <2>2. /\ attempted \in 0..MaxSaves /\ committed \in 0..attempted
        /\ superseded \in 0..attempted
        /\ damage \in 0..MaxDamage /\ crashes \in 0..MaxCrashes
    BY StoreAssumption DEF Init
  <2>3. pc \in {"down"} /\ existed \in BOOLEAN /\ recovered \in BOOLEAN
    BY DEF Init
  <2> QED
    BY <1>1, <2>1, <2>2, <2>3 DEF TypeOK
<1>3. SaveProgress /\ LoadProgress
  BY DEF Init, SaveProgress, LoadProgress, SavePoints, LoadPoints, FallBackPoints
<1>4. NothingOlder /\ Undamaged
  BY FilesFacts DEF Init, NothingOlder, Undamaged, NewDisk, Valid
<1> QED
  BY <1>2, <1>3, <1>4 DEF IInv

LEMMA SaveBeginKeeps == ASSUME IInv, SaveBegin PROVE IInv'
<1> USE FilesFacts, StoreAssumption
    DEF IInv, SaveBegin, client, world, locals, Valid,
        SavePoints, LoadPoints, FallBackPoints
<1>1. TypeOK'
  BY DEF TypeOK
<1>2. (SaveProgress /\ LoadProgress)'
  BY DEF TypeOK, SaveProgress, LoadProgress
<1>3. (NothingOlder /\ Undamaged)'
  BY DEF TypeOK, NothingOlder, Undamaged
<1> QED
  BY <1>1, <1>2, <1>3

LEMMA SaveReadKeeps == ASSUME IInv, SaveRead PROVE IInv'
<1> USE FilesFacts, StoreAssumption
    DEF IInv, SaveRead, client, world, locals, Valid,
        SavePoints, LoadPoints, FallBackPoints
<1>1. TypeOK'
  BY DEF TypeOK, Disks
<1>2. (SaveProgress /\ LoadProgress)'
  BY DEF TypeOK, SaveProgress, LoadProgress, BackedUp
<1>3. (NothingOlder /\ Undamaged)'
  BY DEF TypeOK, NothingOlder, Undamaged
<1> QED
  BY <1>1, <1>2, <1>3

LEMMA SaveBackupKeeps == ASSUME IInv, SaveBackup PROVE IInv'
<1> USE FilesFacts, StoreAssumption
    DEF IInv, SaveBackup, client, world, locals, Valid,
        SavePoints, LoadPoints, FallBackPoints
<1>1. TypeOK'
  BY DEF TypeOK, Disks
<1>2. (SaveProgress /\ LoadProgress)'
  BY DEF TypeOK, Disks, SaveProgress, LoadProgress, BackedUp
<1>3. (NothingOlder /\ Undamaged)'
  BY DEF TypeOK, Disks, SaveProgress, NothingOlder, Undamaged
<1> QED
  BY <1>1, <1>2, <1>3

LEMMA SaveWriteKeeps == ASSUME IInv, SaveWrite PROVE IInv'
<1> USE FilesFacts, StoreAssumption
    DEF IInv, SaveWrite, client, world, locals, Valid,
        SavePoints, LoadPoints, FallBackPoints
<1>1. TypeOK'
  BY DEF TypeOK, Disks, Files, SaveProgress
<1>2. (SaveProgress /\ LoadProgress)'
  BY DEF TypeOK, Disks, SaveProgress, LoadProgress, BackedUp, Saved
<1>3. (NothingOlder /\ Undamaged)'
  BY DEF TypeOK, Disks, SaveProgress, NothingOlder, Undamaged
<1> QED
  BY <1>1, <1>2, <1>3

LEMMA SaveVerifyKeeps == ASSUME IInv, SaveVerify PROVE IInv'
<1> USE FilesFacts, StoreAssumption
    DEF IInv, SaveVerify, client, world, locals, Valid,
        SavePoints, LoadPoints, FallBackPoints
<1>1. TypeOK'
  BY DEF TypeOK
<1>2. (SaveProgress /\ LoadProgress)'
  BY DEF TypeOK, SaveProgress, LoadProgress
<1>3. (NothingOlder /\ Undamaged)'
  BY DEF TypeOK, SaveProgress, NothingOlder, Undamaged
<1> QED
  BY <1>1, <1>2, <1>3

LEMMA SaveFailsKeeps == ASSUME IInv, SaveFails PROVE IInv'
<1> USE FilesFacts, StoreAssumption
    DEF IInv, SaveFails, client, world, locals, Valid,
        SavePoints, LoadPoints, FallBackPoints
<1>1. TypeOK'
  BY DEF TypeOK
<1>2. (SaveProgress /\ LoadProgress)'
  BY DEF TypeOK, SaveProgress, LoadProgress
<1>3. (NothingOlder /\ Undamaged)'
  BY DEF TypeOK, NothingOlder, Undamaged
<1> QED
  BY <1>1, <1>2, <1>3

LEMMA LoadBeginKeeps == ASSUME IInv, LoadBegin PROVE IInv'
<1> USE FilesFacts, StoreAssumption
    DEF IInv, LoadBegin, client, world, locals, Valid,
        SavePoints, LoadPoints, FallBackPoints
<1>1. TypeOK'
  BY DEF TypeOK
<1>2. (SaveProgress /\ LoadProgress)'
  BY DEF TypeOK, SaveProgress, LoadProgress
<1>3. (NothingOlder /\ Undamaged)'
  BY DEF TypeOK, NothingOlder, Undamaged
<1> QED
  BY <1>1, <1>2, <1>3

LEMMA LoadLatchKeeps == ASSUME IInv, LoadLatch PROVE IInv'
<1> USE FilesFacts, StoreAssumption
    DEF IInv, LoadLatch, client, world, locals, Valid,
        SavePoints, LoadPoints, FallBackPoints
<1>1. TypeOK'
  BY DEF TypeOK, Disks
<1>2. (SaveProgress /\ LoadProgress)'
  BY DEF TypeOK, SaveProgress, LoadProgress
<1>3. (NothingOlder /\ Undamaged)'
  BY DEF TypeOK, NothingOlder, Undamaged
<1> QED
  BY <1>1, <1>2, <1>3

LEMMA LoadExistsKeeps == ASSUME IInv, LoadExists PROVE IInv'
<1> USE FilesFacts, StoreAssumption
    DEF IInv, LoadExists, client, world, locals, Valid,
        SavePoints, LoadPoints, FallBackPoints
<1>1. TypeOK'
  BY DEF TypeOK
<1>2. (SaveProgress /\ LoadProgress)'
  BY DEF TypeOK, SaveProgress, LoadProgress
<1>3. (NothingOlder /\ Undamaged)'
  BY DEF TypeOK, NothingOlder, Undamaged
<1> QED
  BY <1>1, <1>2, <1>3

LEMMA LoadBackendKeeps == ASSUME IInv, LoadBackend PROVE IInv'
<1> USE FilesFacts, StoreAssumption
    DEF IInv, LoadBackend, client, world, locals, Valid,
        SavePoints, LoadPoints, FallBackPoints, Answers
<1>1. reply' \in Abstract!Replies
  BY RepliesHold DEF TypeOK
<1>2. TypeOK'
  BY <1>1 DEF TypeOK, Disks, Files, MovedAside, Loaded
<1>3. (SaveProgress /\ LoadProgress)'
  BY DEF TypeOK, Disks, SaveProgress, LoadProgress, Undamaged, MovedAside,
         Loaded
<1>4. (NothingOlder /\ Undamaged)'
  BY DEF TypeOK, Disks, NothingOlder, Undamaged, MovedAside, Loaded
<1> QED
  BY <1>2, <1>3, <1>4

LEMMA LoadPreviousKeeps == ASSUME IInv, LoadPrevious PROVE IInv'
<1> USE FilesFacts, StoreAssumption
    DEF IInv, LoadPrevious, client, world, locals, Valid,
        SavePoints, LoadPoints, FallBackPoints, Answers
<1>1. reply' \in Abstract!Replies
  BY RepliesHold DEF TypeOK
<1>2. TypeOK'
  BY <1>1 DEF TypeOK
<1>3. (SaveProgress /\ LoadProgress)'
  BY DEF TypeOK, Disks, SaveProgress, LoadProgress, Undamaged, MovedAside, Loaded
<1>4. (NothingOlder /\ Undamaged)'
  BY DEF TypeOK, NothingOlder, Undamaged
<1> QED
  BY <1>2, <1>3, <1>4

LEMMA LoadSetLatchKeeps == ASSUME IInv, LoadSetLatch PROVE IInv'
<1> USE FilesFacts, StoreAssumption
    DEF IInv, LoadSetLatch, client, world, locals, Valid,
        SavePoints, LoadPoints, FallBackPoints
<1>1. TypeOK'
  BY DEF TypeOK, Disks
<1>2. (SaveProgress /\ LoadProgress)'
  BY DEF TypeOK, Disks, SaveProgress, LoadProgress, MovedAside, Latched
<1>3. (NothingOlder /\ Undamaged)'
  BY DEF TypeOK, Disks, LoadProgress, NothingOlder, Undamaged
<1> QED
  BY <1>1, <1>2, <1>3

LEMMA LoadRestoreKeeps == ASSUME IInv, LoadRestore PROVE IInv'
<1> USE FilesFacts, StoreAssumption
    DEF IInv, LoadRestore, client, world, locals, Valid,
        SavePoints, LoadPoints, FallBackPoints
<1>1. TypeOK'
  BY DEF TypeOK, Disks
<1>2. (SaveProgress /\ LoadProgress)'
  BY DEF TypeOK, Disks, SaveProgress, LoadProgress, Latched, MovedAside, Restored
<1>3. (NothingOlder /\ Undamaged)'
  BY DEF TypeOK, Disks, LoadProgress, NothingOlder, Undamaged, Latched, MovedAside
<1> QED
  BY <1>1, <1>2, <1>3

LEMMA LoadVerifyKeeps == ASSUME IInv, LoadVerify PROVE IInv'
<1> USE FilesFacts, StoreAssumption
    DEF IInv, LoadVerify, client, world, locals, Valid,
        SavePoints, LoadPoints, FallBackPoints, Answers
<1>1. disk.prev \in 1..MaxSaves
  BY DEF TypeOK, Disks, LoadProgress, Latched, Restored, MovedAside
<1>2. reply' \in Abstract!Replies
  BY <1>1, RepliesHold DEF TypeOK
<1>3. TypeOK'
  BY <1>2 DEF TypeOK
<1>4. (SaveProgress /\ LoadProgress)'
  BY DEF TypeOK, SaveProgress, LoadProgress
<1>5. (NothingOlder /\ Undamaged)'
  BY DEF TypeOK, NothingOlder, Undamaged
<1> QED
  BY <1>3, <1>4, <1>5

LEMMA CrashKeeps == ASSUME IInv, Crash PROVE IInv'
<1> USE FilesFacts, StoreAssumption
    DEF IInv, Crash, client, world, locals, Valid,
        SavePoints, LoadPoints, FallBackPoints
<1>1. TypeOK'
  BY DEF TypeOK
<1>2. (SaveProgress /\ LoadProgress)'
  BY DEF TypeOK, SaveProgress, LoadProgress
<1>3. (NothingOlder /\ Undamaged)'
  BY DEF TypeOK, NothingOlder, Undamaged
<1> QED
  BY <1>1, <1>2, <1>3

LEMMA DamageFileKeeps == ASSUME IInv, DamageFile PROVE IInv'
<1> USE FilesFacts, StoreAssumption
    DEF IInv, DamageFile, client, world, locals, Valid,
        SavePoints, LoadPoints, FallBackPoints
<1>1. TypeOK'
  BY DEF TypeOK, Disks, Files
<1>2. (SaveProgress /\ LoadProgress)'
  BY DEF TypeOK, SaveProgress, LoadProgress
<1>3. (NothingOlder /\ Undamaged)'
  BY DEF TypeOK, Disks, NothingOlder, Undamaged
<1> QED
  BY <1>1, <1>2, <1>3

LEMMA NextKeeps == IInv /\ [Next]_vars => IInv'
<1> SUFFICES ASSUME IInv, [Next]_vars PROVE IInv'
    OBVIOUS
<1>1. CASE UNCHANGED vars
  BY <1>1 DEF vars, IInv, TypeOK, SaveProgress, LoadProgress, NothingOlder, Undamaged
<1>2. CASE Next
  BY <1>2, SaveBeginKeeps, SaveReadKeeps, SaveBackupKeeps, SaveWriteKeeps,
     SaveVerifyKeeps, SaveFailsKeeps, LoadBeginKeeps, LoadLatchKeeps,
     LoadExistsKeeps, LoadBackendKeeps, LoadPreviousKeeps, LoadSetLatchKeeps,
     LoadRestoreKeeps, LoadVerifyKeeps, CrashKeeps, DamageFileKeeps
  DEF Next, Save, Load
<1> QED
  BY <1>1, <1>2

LEMMA Invariance == Spec => []IInv
  BY InitIInv, NextKeeps, PTL DEF Spec

\* Every variable keeps its type: files hold payloads that were handed to the
\* store, or are absent, refused or unreadable, in every state of a load or save.
THEOREM TypeCorrect == Spec => []TypeOK
  BY Invariance, PTL DEF IInv

---------------------------------------------------------------------------
(* The store implements SafetyStore.                                         *)

LEMMA InitMaps == Init => Abstract!Init
  BY DEF Init, Abstract!Init

\* The three kinds of answers that SafetyStore allows.
LEMMA AnswerMaps ==
    ASSUME NEW kind, NEW doc, NEW flagged \in BOOLEAN,
           Answers(kind, doc, flagged),
           UNCHANGED <<attempted, committed, damage>>,
           \/ /\ kind = "value" /\ doc \in 1..attempted
              /\ flagged \/ doc >= committed
              /\ flagged => damage > 0
           \/ kind = "none" /\ doc = 0 /\ (committed = 0 \/ damage > 0)
           \/ kind = "error" /\ doc = 0 /\ damage > 0
    PROVE  Abstract!Load
  BY Zenon DEF Abstract!Load, Answers

\* A load that answers answers what SafetyStore's load may.
LEMMA LoadBackendMaps ==
    ASSUME IInv, LoadBackend, reply' # reply PROVE Abstract!Load
<1> USE FilesFacts DEF IInv, LoadBackend, TypeOK, Disks, Valid
<1>1. /\ payload' = disk.cur /\ disk.cur \in 1..attempted
      /\ Answers("value", payload', recovered)
  BY DEF NothingOlder, Loaded
<1>2. recovered <=> disk.latch
  BY DEF LoadProgress, LoadPoints
<1>3. disk.latch => damage > 0
  BY DEF Undamaged
<1>4. ~disk.latch => disk.cur >= committed
  BY <1>1 DEF NothingOlder
<1>5. recovered \in BOOLEAN /\ UNCHANGED <<attempted, committed, damage>>
  BY DEF world
<1> HIDE DEF IInv, LoadBackend, TypeOK
<1> QED
  BY <1>1, <1>2, <1>3, <1>4, <1>5, AnswerMaps

LEMMA LoadPreviousMaps ==
    ASSUME IInv, LoadPrevious, reply' # reply PROVE Abstract!Load
<1>1. damage = 0 => payload = Absent /\ ~existed /\ committed = 0
  <2>1. /\ started.cur \notin Payloads /\ payload = Loaded(started.cur)
        /\ started.cur # Absent => damage > 0
        /\ existed <=> started.cur # Absent
        /\ disk.cur = Loaded(started.cur)
    BY DEF IInv, LoadPrevious, TypeOK, Disks, LoadProgress, Valid, MovedAside
  <2>2. damage = 0 => started.cur = Absent
    BY <2>1
  <2> QED
    BY <2>1, <2>2, FilesFacts DEF IInv, Undamaged, Loaded, Valid
<1>2. /\ recovered \in BOOLEAN /\ damage \in Nat
      /\ UNCHANGED <<attempted, committed, damage>>
  BY DEF IInv, LoadPrevious, TypeOK, world
<1>3. CASE payload = Absent /\ ~existed
  <2>1. Answers("none", 0, recovered)
    BY <1>3 DEF LoadPrevious
  <2> QED
    BY <1>1, <1>2, <2>1, AnswerMaps
<1>4. CASE ~(payload = Absent /\ ~existed)
  <2>1. Answers("error", 0, recovered)
    BY <1>4 DEF LoadPrevious
  <2> QED
    BY <1>1, <1>2, <1>4, <2>1, AnswerMaps
<1> QED
  BY <1>3, <1>4

LEMMA LoadVerifyMaps ==
    ASSUME IInv, LoadVerify PROVE Abstract!Load
<1>1. disk.prev \in 1..attempted /\ damage > 0
  <2>1. disk.prev \in Payloads /\ damage > 0
    BY DEF IInv, LoadVerify, TypeOK, Disks, Valid, LoadProgress,
       FallBackPoints, Latched, MovedAside, Restored
  <2> QED
    BY <2>1, FilesFacts DEF IInv, TypeOK, NothingOlder, Valid
<1>2. recovered \in BOOLEAN /\ UNCHANGED <<attempted, committed, damage>>
  BY DEF IInv, LoadVerify, TypeOK, world
<1>3. Answers("value", disk.prev, TRUE) \/ Answers("error", 0, recovered)
  BY DEF LoadVerify
<1> QED
  BY <1>1, <1>2, <1>3, AnswerMaps

LEMMA NextMaps == IInv /\ [Next]_vars => [Abstract!Next]_(Abstract!vars)
<1> SUFFICES ASSUME IInv, [Next]_vars PROVE [Abstract!Next]_(Abstract!vars)
    OBVIOUS
<1> USE DEF client, world, locals, Abstract!Next, Abstract!vars
<1>1. CASE UNCHANGED vars
  BY <1>1 DEF vars
<1>2. CASE SaveBegin
  BY <1>2 DEF SaveBegin, Abstract!Attempt
<1>3. CASE SaveVerify
  BY <1>3 DEF SaveVerify, Abstract!Acknowledge
<1>4. CASE DamageFile
  BY <1>4 DEF DamageFile, Abstract!Damage
<1>5. CASE LoadBackend \/ LoadPrevious \/ LoadVerify
  <2>1. CASE reply' = reply
    BY <1>5, <2>1 DEF LoadBackend, LoadPrevious, LoadVerify
  <2>2. CASE reply' # reply
    BY <1>5, <2>2, LoadBackendMaps, LoadPreviousMaps, LoadVerifyMaps
  <2> QED
    BY <2>1, <2>2
<1>6. CASE SaveRead \/ SaveBackup \/ SaveWrite \/ SaveFails
  BY <1>6 DEF SaveRead, SaveBackup, SaveWrite, SaveFails
<1>7. CASE LoadBegin \/ LoadLatch \/ LoadExists \/ LoadSetLatch \/ LoadRestore \/ Crash
  BY <1>7 DEF LoadBegin, LoadLatch, LoadExists, LoadSetLatch, LoadRestore, Crash
<1> QED
  BY <1>1, <1>2, <1>3, <1>4, <1>5, <1>6, <1>7 DEF Next, Save, Load

\* For any number of saves, damages and crashes, the file steps of a load and a
\* save implement the abstract store: an unflagged value is never older than the
\* last acknowledged one, and "none", an error or an older value need a damage.
THEOREM ImplementsSafetyStore == Spec => KeepsPromise
  BY Invariance, InitMaps, NextMaps, PTL DEF Spec, KeepsPromise, Abstract!Spec

---------------------------------------------------------------------------
(* SafetyDisk's view of a whole call is exact.                               *)

LEMMA SaveEffects == ASSUME IInv, [Next]_vars, SaveEnds PROVE SaveEffect
<1> USE DEF SavePoints, client, world, locals
<1>1. disk \in SaveFailures(started, attempted)
  BY DEF IInv, SaveEnds, SaveProgress, SaveFailures, BackedUp
<1>2. disk' = disk
  BY DEF SaveEnds, vars, Next, Save, Load, SaveBegin, SaveRead, SaveBackup, SaveWrite,
         SaveVerify, SaveFails, LoadBegin, LoadLatch, LoadExists, LoadBackend,
         LoadPrevious, LoadSetLatch, LoadRestore, LoadVerify, Crash, DamageFile
<1>3. CASE committed' # committed
  <2>1. pc = "save_verify" /\ disk.cur = attempted
    BY <1>3 DEF SaveEnds, vars, Next, Save, Load, SaveBegin, SaveRead, SaveBackup,
       SaveWrite, SaveVerify, SaveFails, LoadBegin, LoadLatch, LoadExists, LoadBackend,
       LoadPrevious, LoadSetLatch, LoadRestore, LoadVerify, Crash, DamageFile
  <2>2. disk = Saved(started, attempted)
    BY <2>1 DEF IInv, TypeOK, Disks, SaveProgress, Saved, BackedUp
  <2> QED
    BY <1>2, <1>3, <2>2 DEF SaveEffect, SaveAcks
<1> QED
  BY <1>1, <1>2, <1>3 DEF SaveEffect

\* Every save that ends leaves one of the disks its clients reckon with: the
\* saved one if it is acknowledged, and otherwise the old one, the old one with
\* its N-1 copy refreshed, or the saved one.
THEOREM SavesAtomic == Spec => SavesAreAtomic
<1>1. IInv /\ [Next]_vars => [SaveEnds => SaveEffect]_vars
  BY SaveEffects
<1> QED
  BY <1>1, Invariance, PTL DEF Spec, SavesAreAtomic

LEMMA CrashCuts ==
    ASSUME IInv, Crash, pc \in LoadPoints PROVE LoadEffect
<1>1. disk \in LoadCuts(started)
  BY DEF IInv, TypeOK, Disks, LoadProgress, LoadPoints, FallBackPoints, LoadCuts
<1>2. crashes' # crashes /\ disk' = disk
  BY DEF IInv, TypeOK, Crash
<1> QED
  BY <1>1, <1>2 DEF LoadEffect

\* An answer of the load is one of LoadAnswers.
LEMMA Answered ==
    ASSUME NEW kind, NEW doc, NEW flagged, Answers(kind, doc, flagged),
           Answer(kind, doc, flagged, disk') \in LoadAnswers(started)
             \/ (kind # "value" /\ Answer(kind, Absent, flagged, disk') \in LoadAnswers(started)),
           UNCHANGED crashes
    PROVE  LoadEffect
<1> USE DEF LoadEffect, Answers, Answer
<1>1. CASE Answer(kind, doc, flagged, disk') \in LoadAnswers(started)
  BY <1>1
<1>2. CASE kind # "value" /\ Answer(kind, Absent, flagged, disk') \in LoadAnswers(started)
  BY <1>2
<1> QED
  BY <1>1, <1>2

LEMMA BackendAnswers ==
    ASSUME IInv, LoadBackend, pc' = "idle" PROVE LoadEffect
<1> USE FilesFacts DEF IInv, LoadBackend, LoadProgress, TypeOK, Disks, Valid
<1>1. /\ disk = started /\ disk.cur \in Payloads /\ payload' = disk.cur
      /\ Answers("value", disk.cur, recovered)
      /\ disk' = disk /\ recovered = disk.latch /\ UNCHANGED crashes
  BY DEF Loaded, MovedAside, LoadPoints, world
<1> HIDE DEF IInv, LoadBackend
<1>2. Answer("value", disk.cur, recovered, disk') \in LoadAnswers(started)
  BY <1>1 DEF LoadAnswers
<1> QED
  BY <1>1, <1>2, Answered

LEMMA PreviousAnswers ==
    ASSUME IInv, LoadPrevious, pc' # "load_set_latch" PROVE LoadEffect
<1>1. /\ ~Valid(started.cur) /\ ~Valid(started.prev)
      /\ payload = Loaded(started.cur) /\ recovered = started.latch
      /\ existed <=> started.cur # Absent
      /\ disk' = MovedAside(started) /\ UNCHANGED crashes
  BY DEF IInv, LoadPrevious, LoadProgress, LoadPoints, TypeOK, Disks, MovedAside, world
<1>2. CASE payload = Absent /\ ~existed
  <2>1. Answers("none", 0, recovered)
    BY <1>1, <1>2 DEF LoadPrevious, IInv, LoadProgress, Valid, MovedAside, TypeOK, Disks
  <2>2. started.cur = Absent /\ disk' = started
    BY <1>1, <1>2 DEF MovedAside, Loaded, IInv, TypeOK, Disks
  <2>3. Answer("none", Absent, recovered, disk') \in LoadAnswers(started)
    BY <1>1, <2>2 DEF LoadAnswers
  <2> QED
    BY <1>1, <2>1, <2>3, Answered
<1>3. CASE ~(payload = Absent /\ ~existed)
  <2>1. Answers("error", 0, recovered)
    BY <1>1, <1>3 DEF LoadPrevious, IInv, LoadProgress, Valid, MovedAside, TypeOK, Disks
  <2>2. started.cur # Absent
    BY <1>1, <1>3 DEF Loaded
  <2>3. Answer("error", Absent, recovered, disk') \in LoadAnswers(started)
    BY <1>1, <2>2 DEF LoadAnswers
  <2> QED
    BY <1>1, <2>1, <2>3, Answered
<1> QED
  BY <1>2, <1>3

LEMMA VerifyAnswers ==
    ASSUME IInv, LoadVerify PROVE LoadEffect
<1>1. /\ ~Valid(started.cur) /\ Valid(started.prev)
      /\ disk \in {Latched(started), Restored(started)} /\ disk.prev = started.prev
      /\ recovered = started.latch
      /\ disk' = disk /\ UNCHANGED crashes
  BY DEF IInv, LoadVerify, LoadProgress, LoadPoints, FallBackPoints, TypeOK, Disks,
     Latched, Restored, MovedAside, world
<1>2. CASE disk.cur = disk.prev
  <2>1. Answers("value", started.prev, TRUE)
    BY <1>1, <1>2 DEF LoadVerify
  <2>2. disk = Restored(started)
    BY <1>1, <1>2 DEF Restored, Latched, MovedAside, IInv, TypeOK, Disks
  <2>3. Answer("value", started.prev, TRUE, disk') \in LoadAnswers(started)
    BY <1>1, <2>2 DEF LoadAnswers
  <2> QED
    BY <1>1, <2>1, <2>3, Answered
<1>3. CASE disk.cur # disk.prev
  <2>1. Answers("error", 0, recovered)
    BY <1>1, <1>3 DEF LoadVerify
  <2>2. disk = Latched(started)
    BY <1>1, <1>3 DEF Restored, Latched, MovedAside, IInv, TypeOK, Disks
  <2>3. Answer("error", Absent, recovered, disk') \in LoadAnswers(started)
    BY <1>1, <2>2 DEF LoadAnswers
  <2> QED
    BY <1>1, <2>1, <2>3, Answered
<1> QED
  BY <1>2, <1>3

\* Every load that answers, or that a crash cuts short, leaves one of the disks its
\* clients reckon with, and the answer is one of those that fit that disk.
THEOREM LoadsAtomic == Spec => LoadsAreAtomic
<1>1. IInv /\ [Next]_vars => [LoadEnds => LoadEffect]_vars
  <2> SUFFICES ASSUME IInv, Next, LoadEnds PROVE LoadEffect
    OBVIOUS
  <2>1. \/ Crash \/ LoadVerify
        \/ LoadBackend /\ pc' = "idle"
        \/ LoadPrevious /\ pc' # "load_set_latch"
    BY DEF LoadEnds, LoadPoints, SavePoints, Next, Save, Load, SaveBegin, SaveRead,
       SaveBackup, SaveWrite, SaveVerify, SaveFails, LoadBegin, LoadLatch, LoadExists,
       LoadBackend, LoadPrevious, LoadSetLatch, LoadRestore, DamageFile
  <2> QED
    BY <2>1, CrashCuts, BackendAnswers, PreviousAnswers, VerifyAnswers DEF LoadEnds
<1> QED
  BY <1>1, Invariance, PTL DEF Spec, LoadsAreAtomic

---------------------------------------------------------------------------
(* One damage costs one acknowledged payload at most.                        *)

\* While no more than one file was damaged, the file that the next load would
\* answer with holds the last but one acknowledged payload or a newer one; before
\* the damage so does the N-1 copy, and a save that rotates it even holds the
\* last acknowledged payload there until it is acknowledged itself.
OneBack ==
    /\ superseded <= committed
    /\ damage <= 1 =>
         /\ Valid(disk.cur) => disk.cur >= superseded
         /\ ~Valid(disk.cur) /\ Valid(disk.prev) => disk.prev >= superseded
    /\ damage = 0 /\ Valid(disk.prev) =>
         /\ disk.prev >= superseded
         /\ pc \in {"save_write", "save_verify"} => disk.prev >= committed

LEMMA OneBackKeeps == IInv /\ OneBack /\ [Next]_vars => OneBack'
<1> SUFFICES ASSUME IInv, OneBack, [Next]_vars PROVE OneBack'
    OBVIOUS
<1> USE FilesFacts DEF IInv, OneBack, TypeOK, Disks, Valid, client, world, locals
<1>1. CASE UNCHANGED vars
  BY <1>1 DEF vars
<1>2. CASE SaveBegin \/ SaveFails
  BY <1>2 DEF SaveBegin, SaveFails, SavePoints
<1>3. CASE SaveRead
  BY <1>3 DEF SaveRead, Undamaged
<1>4. CASE SaveBackup
  BY <1>4 DEF SaveBackup, SaveProgress, NothingOlder, Undamaged
<1>5. CASE SaveWrite
  BY <1>5 DEF SaveWrite, SaveProgress, SavePoints
<1>6. CASE SaveVerify
  BY <1>6 DEF SaveVerify, SaveProgress
<1>7. CASE LoadBegin \/ LoadLatch \/ LoadExists \/ LoadSetLatch
  BY <1>7 DEF LoadBegin, LoadLatch, LoadExists, LoadSetLatch
<1>8. CASE LoadBackend
  BY <1>8 DEF LoadBackend, MovedAside, Loaded
<1>9. CASE LoadPrevious \/ LoadVerify
  BY <1>9 DEF LoadPrevious, LoadVerify
<1>10. CASE LoadRestore
  BY <1>10 DEF LoadRestore, LoadProgress, FallBackPoints, Latched, MovedAside, Loaded
<1>11. CASE Crash
  BY <1>11 DEF Crash
<1>12. CASE DamageFile
  <2>1. PICK file \in {"cur", "prev"}, kind \in DamageKinds :
          disk' = [disk EXCEPT ![file] = kind]
    BY <1>12 DEF DamageFile
  <2>2. ~Valid(kind)
    BY StoreAssumption
  <2>3. CASE file = "cur"
    BY <1>12, <2>1, <2>2, <2>3 DEF DamageFile
  <2>4. CASE file = "prev"
    BY <1>12, <2>1, <2>2, <2>4 DEF DamageFile
  <2> QED
    BY <2>3, <2>4
<1> QED
  BY <1>1, <1>2, <1>3, <1>4, <1>5, <1>6, <1>7, <1>8, <1>9, <1>10, <1>11, <1>12
  DEF Next, Save, Load

LEMMA ReplyOneBack ==
    ASSUME IInv, OneBack, [Next]_vars, LoadReplies, damage <= 1, reply'.kind = "value"
    PROVE  reply'.doc >= superseded
<1>1. LoadBackend \/ LoadPrevious \/ LoadVerify
  BY DEF LoadReplies, LoadPoints, SavePoints, vars, Next, Save, Load, SaveBegin, SaveRead,
     SaveBackup, SaveWrite, SaveVerify, SaveFails, LoadBegin, LoadLatch, LoadExists,
     LoadSetLatch, LoadRestore, Crash, DamageFile
<1> USE FilesFacts DEF IInv, OneBack, TypeOK, Disks, Valid, Answers, LoadReplies
<1>2. CASE LoadBackend
  BY <1>2 DEF LoadBackend, Loaded
<1>3. CASE LoadPrevious
  BY <1>3 DEF LoadPrevious
<1>4. CASE LoadVerify
  <2>1. disk.prev \in Payloads
    BY <1>4 DEF LoadVerify, LoadProgress, FallBackPoints, Latched, Restored, MovedAside
  <2>2. disk.cur = disk.prev /\ reply'.doc = disk.prev
    BY <1>4 DEF LoadVerify
  <2> QED
    BY <2>1, <2>2
<1> QED
  BY <1>1, <1>2, <1>3, <1>4

\* A load that falls back after one damage answers the payload that was
\* acknowledged before the last one, or a newer one: neither failed nor swallowed
\* writes rotate it out of the N-1 copy.
THEOREM FallBackTheorem == Spec => FallsBackOneSave
<1>1. Init => OneBack
  BY FilesFacts DEF Init, OneBack, NewDisk, Valid
<1>2. IInv /\ OneBack /\ [Next]_vars =>
        [LoadReplies /\ damage <= 1 /\ reply'.kind = "value"
           => reply'.doc >= superseded]_vars
  BY ReplyOneBack
<1> QED
  BY <1>1, <1>2, OneBackKeeps, Invariance, PTL DEF Spec, FallsBackOneSave

=============================================================================
