----------------------- MODULE IntercomReleaseProofs -----------------------
(* For any number of requests, set-ups, crashes and failed saves: a relay that is
   on has its relay-off deadline on disk, and a task while the entry is set up, even
   after a file was damaged; and an object that was shut down with an armed record
   goes on until the record is cleared.                                       *)

EXTENDS IntercomRelease, TLAPS

\* Requests under way work with the object of the entry, and only it has a task.
OneObject ==
    /\ shutting = {}
    /\ serving => latest \in callback
    /\ \A r \in Requests : pc[r] \notin {"idle", "done"} => serving /\ owner[r] = latest
    /\ \A g \in Objects : task[g] # "none" => serving /\ g = latest

\* What the point of a request knows of the record.
RequestInv ==
    \A r \in Requests :
       /\ pc[r] = "prepared" => record[latest] = Unarmed(r)
       /\ pc[r] = "saving" => record[latest] = Armed(r) /\ task[latest] = "none"
       /\ pc[r] = "armed" => record[latest] = Armed(r) /\ task[latest] = "sleep"

\* A task works on an armed record, and has confirmed only what is true.
TaskInv ==
    /\ task[latest] # "none" => IsArmed(record[latest])
    /\ task[latest] = "confirmed" => ~relay

\* The files before any was damaged: an armed record, and a record to fall back to.
Intact(d) == d.cur \in Records /\ d.cur.armed /\ d.prev \in Records

\* The files after one was damaged: the next load finds an armed record, or one that
\* the fall-back arms.
Recoverable(d) ==
    \/ d.cur \in Records /\ (d.cur.armed \/ d.latch)
    \/ d.cur \notin Payloads /\ d.prev \in Records

Secured == IF damage = 0 THEN Intact(disk) ELSE Recoverable(disk)

\* The unarmed record is on disk before the armed one, and the armed one before the
\* call and until the relay is off again.
RelayInv ==
    /\ \A r \in Requests : damage = 0 /\ pc[r] \in {"prepared", "saving"} =>
                             disk.cur = Unarmed(r)
    /\ \A r \in Requests : pc[r] = "armed" => Secured
    /\ relay => Secured
    /\ relay /\ serving => IsArmed(record[latest]) /\ task[latest] # "none"

Quiet == damage <= 1 /\ unloads = 0

IInv == TypeOK /\ (Quiet => OneObject /\ RequestInv /\ TaskInv /\ RelayInv)

---------------------------------------------------------------------------
(* The files.                                                                *)

LEMMA RecordTypes ==
    ASSUME NEW r \in Requests
    PROVE  /\ Unarmed(r) \in Payloads /\ Unarmed(r) # Nothing /\ ~IsArmed(Unarmed(r))
           /\ Armed(r) \in Payloads /\ Armed(r) # Nothing /\ IsArmed(Armed(r))
           /\ Nothing \in Payloads /\ ~IsArmed(Nothing)
           /\ \A s \in Requests : /\ Armed(r) # Unarmed(s)
                                  /\ Armed(r) = Armed(s) => r = s
                                  /\ Unarmed(r) = Unarmed(s) => r = s
<1>1. Unarmed(r) \in Records /\ Armed(r) \in Records
  BY DEF Unarmed, Armed, Records
<1>2. Unarmed(r) # Nothing /\ Armed(r) # Nothing
  BY <1>1, IntercomAssumption
<1>3. ASSUME NEW s \in Requests
      PROVE  /\ Unarmed(s).by = s /\ ~Unarmed(s).armed
             /\ Armed(s).by = s /\ Armed(s).armed
  BY DEF Unarmed, Armed
<1>4. \A s \in Requests : /\ Armed(r) # Unarmed(s)
                          /\ Armed(r) = Armed(s) => r = s
                          /\ Unarmed(r) = Unarmed(s) => r = s
  BY <1>3
<1> QED
  BY <1>1, <1>2, <1>3, <1>4 DEF Payloads, IsArmed

\* Any save of p, acknowledged or not.
Saves(d, p) == SaveAcks(d, p) \union SaveFailures(d, p)

LEMMA SaveFacts ==
    ASSUME NEW d \in Disks, NEW p \in Payloads, NEW new \in Saves(d, p)
    PROVE  /\ new \in Disks
           /\ new.cur = d.cur \/ new.cur = p
           /\ new \in SaveAcks(d, p) => new.cur = p
  BY DEF Saves, SaveAcks, SaveFailures, Saved, BackedUp, Disks, Files, Valid

LEMMA LoadFacts ==
    ASSUME NEW d \in Disks
    PROVE  /\ \A a \in LoadAnswers(d) :
                /\ a.disk \in Disks /\ a.flagged \in BOOLEAN
                /\ a.kind = "value" => a.doc \in Payloads
                /\ Valid(d.cur) => a.kind = "value" /\ a.doc = d.cur /\ a.disk = d
                /\ a.kind = "error" => ~Valid(d.cur)
           /\ LoadCuts(d) \subseteq Disks
           /\ Valid(d.cur) => LoadCuts(d) = {d}
<1>1. /\ MovedAside(d) \in Disks /\ Latched(d) \in Disks /\ Restored(d) \in Disks
      /\ d.latch \in BOOLEAN
  BY DEF Latched, Restored, MovedAside, Loaded, Disks, Files
<1>2. LoadCuts(d) \subseteq Disks /\ (Valid(d.cur) => LoadCuts(d) = {d})
  BY <1>1 DEF LoadCuts
<1>3. ASSUME NEW a \in LoadAnswers(d)
      PROVE  /\ a.disk \in Disks /\ a.flagged \in BOOLEAN
             /\ a.kind = "value" => a.doc \in Payloads
             /\ Valid(d.cur) => a.kind = "value" /\ a.doc = d.cur /\ a.disk = d
             /\ a.kind = "error" => ~Valid(d.cur)
  <2>1. CASE Valid(d.cur)
    <3>1. a = Answer("value", d.cur, d.latch, d)
      BY <1>3, <2>1 DEF LoadAnswers
    <3> QED
      BY <1>1, <2>1, <3>1 DEF Answer, Valid
  <2>2. CASE ~Valid(d.cur) /\ Valid(d.prev)
    <3>1. \/ a = Answer("value", d.prev, TRUE, Restored(d))
          \/ a = Answer("error", Absent, d.latch, Latched(d))
      BY <1>3, <2>2 DEF LoadAnswers
    <3>2. CASE a = Answer("value", d.prev, TRUE, Restored(d))
      BY <1>1, <2>2, <3>2 DEF Answer, Valid
    <3>3. CASE a = Answer("error", Absent, d.latch, Latched(d))
      BY <1>1, <2>2, <3>3 DEF Answer
    <3> QED
      BY <3>1, <3>2, <3>3
  <2>3. CASE ~Valid(d.cur) /\ ~Valid(d.prev)
    <3>1. \/ a = Answer("none", Absent, d.latch, d)
          \/ a = Answer("error", Absent, d.latch, MovedAside(d))
      BY <1>3, <2>3 DEF LoadAnswers
    <3> QED
      BY <1>1, <2>3, <3>1 DEF Answer
  <2> QED
    BY <2>1, <2>2, <2>3
<1> QED
  BY <1>2, <1>3

\* A save of an armed record, whether it is acknowledged, raises or is cut short,
\* leaves files from which the record is found again.
LEMMA SaveSecures ==
    ASSUME NEW d \in Disks, NEW p \in Records, p.armed, NEW new \in Saves(d, p)
    PROVE  /\ Intact(d) => Intact(new)
           /\ Recoverable(d) => Recoverable(new)
<1>1. new = d \/ new = BackedUp(d) \/ new = Saved(d, p)
  BY DEF Saves, SaveAcks, SaveFailures
<1>2. CASE new = d
  BY <1>2
<1>3. CASE new = BackedUp(d)
  BY <1>3 DEF BackedUp, Valid, Disks, Intact, Recoverable, Payloads
<1>4. CASE new = Saved(d, p)
  BY <1>4 DEF Saved, BackedUp, Valid, Disks, Intact, Recoverable, Payloads
<1> QED
  BY <1>1, <1>2, <1>3, <1>4

\* The acknowledged arming of the record on disk.
LEMMA ArmingSecures ==
    ASSUME NEW d \in Disks, NEW r \in Requests, NEW new \in SaveAcks(d, Armed(r))
    PROVE  /\ Recoverable(new)
           /\ d.cur = Unarmed(r) => Intact(new)
<1>1. Armed(r) \in Records /\ Armed(r).armed /\ Unarmed(r) \in Records
  BY DEF Armed, Unarmed, Records
<1>2. new.cur = Armed(r) /\ (Valid(d.cur) => new.prev = d.cur)
  BY DEF SaveAcks, Saved, BackedUp, Disks
<1> QED
  BY <1>1, <1>2 DEF Intact, Recoverable, Valid, Payloads

\* Whatever a load does to the files, the next one finds the record; and a load that
\* answers gives a record that is armed or that the fall-back arms.
LEMMA LoadSecures ==
    ASSUME NEW d \in Disks, Intact(d) \/ Recoverable(d)
    PROVE  /\ \A a \in LoadAnswers(d) :
                /\ Intact(d) => Intact(a.disk)
                /\ Recoverable(d) => Recoverable(a.disk)
                /\ a.kind # "error" => /\ a.kind = "value" /\ a.doc \in Records
                                       /\ a.doc.armed \/ a.flagged
           /\ \A new \in LoadCuts(d) : /\ Intact(d) => Intact(new)
                                       /\ Recoverable(d) => Recoverable(new)
<1>1. CASE Valid(d.cur)
  <2>1. /\ LoadAnswers(d) = {Answer("value", d.cur, d.latch, d)} /\ LoadCuts(d) = {d}
        /\ d.cur \in Records /\ (d.cur.armed \/ d.latch)
    BY <1>1 DEF LoadAnswers, LoadCuts, Intact, Recoverable, Valid
  <2> QED
    BY <2>1 DEF Answer
<1>2. CASE ~Valid(d.cur)
  <2>1. d.prev \in Records /\ ~Intact(d) /\ Valid(d.prev)
    BY <1>2 DEF Intact, Recoverable, Valid, Payloads
  <2>2. Absent \notin Payloads
    BY IntercomAssumption
  <2>3. Recoverable(MovedAside(d)) /\ Recoverable(Latched(d)) /\ Recoverable(Restored(d))
    BY <1>2, <2>1, <2>2
    DEF Restored, Latched, MovedAside, Loaded, Recoverable, Disks, Valid
  <2>4. /\ LoadAnswers(d) = {Answer("value", d.prev, TRUE, Restored(d)),
                             Answer("error", Absent, d.latch, Latched(d))}
        /\ LoadCuts(d) = {d, MovedAside(d), Latched(d), Restored(d)}
    BY <1>2, <2>1 DEF LoadAnswers, LoadCuts
  <2> QED
    BY <2>1, <2>3, <2>4 DEF Answer
<1> QED
  BY <1>1, <1>2

LEMMA LeftType == ASSUME TypeOK, NEW g \in Objects PROVE Left(g) \in Payloads
  BY DEF Left, TypeOK, Payloads

LEMMA KeptFacts ==
    ASSUME NEW p \in Payloads, NEW flagged \in BOOLEAN
    PROVE  /\ Kept(p, flagged) \in Payloads
           /\ Kept(p, flagged) # Nothing => IsArmed(Kept(p, flagged))
           /\ IsArmed(p) => IsArmed(Kept(p, flagged))
  BY IntercomAssumption DEF Kept, IsArmed, Payloads, Records

LEMMA InFlightTypes == ASSUME TypeOK PROVE InFlight \subseteq Payloads
<1>1. \A r \in Requests : Unarmed(r) \in Payloads /\ Armed(r) \in Payloads
  BY RecordTypes
<1>2. Nothing \in Payloads
  BY DEF Payloads
<1> QED
  BY <1>1, <1>2, LeftType DEF InFlight

---------------------------------------------------------------------------
(* Types.                                                                    *)

LEMMA StepTypes == TypeOK /\ [Next]_vars => TypeOK'
<1> SUFFICES ASSUME TypeOK, [Next]_vars PROVE TypeOK'
    OBVIOUS
<1> DEFINE DiskOf(p) == disk' = disk \/ disk' \in Saves(disk, p)
<1>1. ASSUME NEW p \in Payloads, DiskOf(p) PROVE disk' \in Disks
  BY <1>1, SaveFacts DEF TypeOK
<1>2. /\ Nothing \in Payloads
      /\ \A r \in Requests : Unarmed(r) \in Payloads /\ Armed(r) \in Payloads
  BY RecordTypes DEF Payloads
<1> DEFINE Saving(p) == SaveOk(p) \/ SaveRaises(p) \/ SaveCut(p)
<1>3. ASSUME NEW p \in Payloads, Saving(p)
      PROVE  disk' \in Disks /\ failures' \in 0..MaxFailures
  <2>1. disk' \in Disks
    BY <1>1, <1>3 DEF SaveOk, SaveRaises, SaveCut, Saves
  <2>2. failures' = failures \/ Raises
    BY <1>3 DEF SaveOk, SaveRaises, SaveCut
  <2> QED
    BY <2>1, <2>2, IntercomAssumption DEF TypeOK, Raises
<1>4. CASE UNCHANGED vars
  BY <1>4 DEF vars, entryVars, objectVars, TypeOK
<1>5. ASSUME NEW r \in Requests, RequestStep(r) PROVE TypeOK'
  <2>1. /\ UNCHANGED <<serving, latest, unloads, callback, shutting, damage>>
        /\ behind' \in BOOLEAN
        /\ owner' \in [Requests -> Objects] /\ pc' \in [Requests -> Points]
        /\ relay' \in BOOLEAN
    BY <1>5 DEF RequestStep, Prepare, FailBeforeDispatch, Arm, ArmSaved, SwitchOn, NoCall,
       Called, CleanUp, Cancelled, Goto, Points, TypeOK, entryVars, objectVars
  <2>2. record' \in [Objects -> Payloads] /\ task' \in [Objects -> TaskPoints]
    BY <1>2, <1>5 DEF RequestStep, Prepare, FailBeforeDispatch, Arm, ArmSaved, SwitchOn,
       NoCall, CleanUp, Cancelled, Remember, TaskGoto, Scheduled, TaskPoints, TypeOK,
       objectVars
  <2>3. \/ UNCHANGED <<disk, failures>>
        \/ \E p \in Payloads : Saving(p)
    BY <1>2, <1>5 DEF RequestStep, Prepare, FailBeforeDispatch, Arm, ArmSaved, SwitchOn,
       NoCall, CleanUp, Cancelled
  <2>4. disk' \in Disks /\ failures' \in 0..MaxFailures
    BY <1>3, <2>3 DEF TypeOK
  <2> QED
    BY <2>1, <2>2, <2>4 DEF TypeOK
<1>6. ASSUME NEW g \in Objects, TaskStep(g) PROVE TypeOK'
  <2>1. /\ UNCHANGED <<serving, latest, behind, unloads, shutting, pc, owner, damage>>
        /\ callback' \in SUBSET Objects /\ relay' \in BOOLEAN
    BY <1>6 DEF TaskStep, SwitchOff, SwitchOffFails, ReadBack, Settle, TypeOK, entryVars
  <2>2. record' \in [Objects -> Payloads] /\ task' \in [Objects -> TaskPoints]
    BY <1>6, LeftType DEF TaskStep, SwitchOff, SwitchOffFails, ReadBack, Settle, Remember,
       TaskGoto, TaskPoints, TypeOK
  <2>3. \/ UNCHANGED disk /\ (UNCHANGED failures \/ Raises)
        \/ Saving(Left(g))
    BY <1>6 DEF TaskStep, SwitchOff, SwitchOffFails, ReadBack, Settle, LeftUnsaved
  <2>4. disk' \in Disks /\ failures' \in 0..MaxFailures
    BY <1>3, <2>3, LeftType, IntercomAssumption DEF TypeOK, Raises
  <2> QED
    BY <2>1, <2>2, <2>4 DEF TypeOK
<1>7. CASE Setup
  <2>1. PICK a \in {x \in LoadAnswers(disk) : x.kind # "error"} :
          LET p == IF a.kind = "value" THEN a.doc ELSE Nothing
              kept == Kept(p, a.flagged)
              untouched == p = Nothing \/ (IsArmed(p) /\ ~a.flagged)
          IN  \/ /\ IF untouched THEN disk' = a.disk
                               ELSE disk' \in SaveAcks(a.disk, kept)
                 /\ serving' = TRUE
                 /\ latest' = latest + 1
                 /\ Remember(latest + 1, kept)
                 /\ TaskGoto(latest + 1, IF kept = Nothing THEN "none" ELSE "sleep")
                 /\ callback' = callback \union {latest + 1}
                 /\ UNCHANGED failures
              \/ /\ ~untouched /\ disk' \in SaveFailures(a.disk, kept) /\ Raises
                 /\ UNCHANGED <<serving, latest, record, task, callback>>
    BY <1>7 DEF Setup
  <2> DEFINE p == IF a.kind = "value" THEN a.doc ELSE Nothing
             kept == Kept(p, a.flagged)
  <2>2. a.disk \in Disks /\ kept \in Payloads
    BY <1>2, LoadFacts, KeptFacts DEF TypeOK
  <2>3. disk' \in Disks
    BY <2>1, <2>2, SaveFacts DEF Saves
  <2>4. /\ latest + 1 \in Objects
        /\ UNCHANGED <<behind, unloads, shutting, relay, pc, owner, damage>>
    BY <1>7, IntercomAssumption DEF Setup, Objects, TypeOK
  <2>5. failures' \in 0..MaxFailures
    BY <2>1, IntercomAssumption DEF TypeOK, Raises
  <2>6. /\ serving' \in BOOLEAN /\ latest' \in Objects
        /\ callback' \in SUBSET Objects
        /\ record' \in [Objects -> Payloads] /\ task' \in [Objects -> TaskPoints]
    <3> DEFINE point == IF kept = Nothing THEN "none" ELSE "sleep"
    <3>1. point \in TaskPoints
      BY DEF TaskPoints
    <3>2. \/ /\ serving' = TRUE /\ latest' = latest + 1
             /\ callback' = callback \union {latest + 1}
             /\ record' = [record EXCEPT ![latest + 1] = kept]
             /\ task' = [task EXCEPT ![latest + 1] = point]
          \/ UNCHANGED <<serving, latest, record, task, callback>>
      BY <2>1 DEF Remember, TaskGoto
    <3> HIDE DEF kept, point
    <3>3. latest + 1 \in Objects /\ kept \in Payloads
      BY <2>2, <2>4
    <3>4. /\ [record EXCEPT ![latest + 1] = kept] \in [Objects -> Payloads]
          /\ [task EXCEPT ![latest + 1] = point] \in [Objects -> TaskPoints]
      BY <3>1, <3>3 DEF TypeOK
    <3> QED
      BY <3>2, <3>3, <3>4 DEF TypeOK
  <2> QED
    BY <2>3, <2>4, <2>5, <2>6 DEF TypeOK
<1>8. CASE SetupFails
  <2>1. disk' \in Disks
    BY <1>8, LoadFacts DEF SetupFails, TypeOK
  <2> QED
    BY <1>8, <2>1, IntercomAssumption
    DEF SetupFails, Raises, TypeOK, entryVars, objectVars
<1>9. CASE Unload
  <2>1. disk' \in Disks
    <3>1. Left(latest) \in Payloads
      BY LeftType DEF TypeOK
    <3>2. disk' = disk \/ disk' \in Saves(disk, Left(latest))
      BY <1>9 DEF Unload, Saves
    <3> QED
      BY <1>1, <3>1, <3>2
  <2>2. unloads' \in 0..MaxUnloads
    BY <1>9, IntercomAssumption DEF Unload, TypeOK
  <2> QED
    BY <1>9, <2>1, <2>2 DEF Unload, TaskGoto, TaskPoints, TypeOK
<1>10. CASE Crash
  <2>1. disk' \in Disks
    <3>1. disk' = disk \/ \E p \in InFlight : disk' \in Saves(disk, p)
      BY <1>10 DEF Crash, Saves
    <3> QED
      BY <1>1, <3>1, InFlightTypes DEF TypeOK
  <2> QED
    BY <1>2, <1>10, <2>1 DEF Crash, TaskPoints, Points, TypeOK
<1>11. CASE SwitchedOff
  BY <1>11 DEF SwitchedOff, TypeOK, entryVars
<1>12. CASE DamageFile
  <2>1. PICK file \in {"cur", "prev"}, kind \in {Invalid, Corrupt} :
          disk' = [disk EXCEPT ![file] = kind]
    BY <1>12 DEF DamageFile
  <2>2. disk' \in Disks
    BY <2>1 DEF TypeOK, Disks, Files
  <2> QED
    BY <1>12, <2>2, IntercomAssumption DEF DamageFile, TypeOK, entryVars, objectVars
<1>13. CASE ClockGoesBack
  BY <1>13 DEF ClockGoesBack, TypeOK, objectVars
<1> QED
  BY <1>4, <1>5, <1>6, <1>7, <1>8, <1>9, <1>10, <1>11, <1>12, <1>13 DEF Next
---------------------------------------------------------------------------
(* One request.                                                              *)

QuietInv == OneObject /\ RequestInv /\ TaskInv /\ RelayInv

\* What a save does to the current file.
LEMMA CurFacts ==
    ASSUME TypeOK, NEW p \in Payloads
    PROVE  /\ SaveOk(p) => disk'.cur = p
           /\ SaveRaises(p) \/ SaveCut(p) => disk'.cur \in {disk.cur, p}
           /\ Valid(p)
  BY SaveFacts DEF SaveOk, SaveRaises, SaveCut, Saves, TypeOK, Valid

\* The same of a save of an armed record, in the terms of the model's steps.
LEMMA StaysSecured ==
    ASSUME TypeOK, Secured, UNCHANGED damage, NEW p \in Records, p.armed,
           disk' = disk \/ disk' \in Saves(disk, p)
    PROVE  Secured'
  BY SaveSecures DEF Secured, TypeOK

\* Without a pending record the relay is off and nothing is under way for it.
LEMMA Unpending ==
    ASSUME QuietInv, TypeOK, serving, ~IsArmed(record[latest])
    PROVE  /\ ~relay /\ task[latest] = "none"
           /\ \A r \in Requests : pc[r] \notin {"saving", "armed"}
  BY RecordTypes DEF QuietInv, RequestInv, TaskInv, RelayInv

LEMMA PrepareQuiet ==
    ASSUME TypeOK, QuietInv, NEW r \in Requests, Prepare(r) PROVE QuietInv'
<1> USE DEF TypeOK
<1>1. /\ serving /\ pc[r] = "idle"
      /\ UNCHANGED <<serving, latest, unloads, task, callback, shutting, relay, damage>>
      /\ owner' = [owner EXCEPT ![r] = latest]
  BY DEF Prepare, entryVars
<1>2. CASE record[latest] # Nothing
  <2>1. pc' = [pc EXCEPT ![r] = "done"] /\ UNCHANGED <<disk, record>>
    BY <1>2 DEF Prepare, Goto
  <2>2. Secured' = Secured
    BY <1>1, <2>1 DEF Secured
  <2> QED
    BY <1>1, <2>1, <2>2 DEF QuietInv, OneObject, RequestInv, TaskInv, RelayInv
<1>3. CASE record[latest] = Nothing
  <2>1. /\ ~relay /\ task[latest] = "none"
        /\ \A s \in Requests : pc[s] \notin {"prepared", "saving", "armed"}
    BY <1>1, <1>3, Unpending, RecordTypes DEF IsArmed, QuietInv, RequestInv
  <2>2. /\ pc' \in {[pc EXCEPT ![r] = "prepared"], [pc EXCEPT ![r] = "done"]}
        /\ pc'[r] = "prepared" => record'[latest] = Unarmed(r)
    BY <1>3 DEF Prepare, Goto, Remember
  <2>3. pc'[r] = "prepared" => disk'.cur = Unarmed(r)
    <3>1. pc'[r] = "prepared" => SaveOk(Unarmed(r))
      BY <1>3 DEF Prepare, Goto
    <3> QED
      BY <3>1, CurFacts, RecordTypes
  <2> QED
    BY <1>1, <2>1, <2>2, <2>3 DEF QuietInv, OneObject, RequestInv, TaskInv, RelayInv
<1> QED
  BY <1>2, <1>3

\* A request under way works with the object of the entry, and others wait for it.
LEMMA UnderWay ==
    ASSUME QuietInv, NEW r \in Requests, pc[r] \notin {"idle", "done"}
    PROVE  /\ serving /\ owner[r] = latest
           /\ pc[r] \in {"prepared", "saving", "armed"} =>
                \A s \in Requests : pc[s] \in {"prepared", "saving", "armed"} => s = r
<1>1. serving /\ owner[r] = latest
  BY DEF QuietInv, OneObject
<1>2. ASSUME pc[r] \in {"prepared", "saving", "armed"}, NEW s \in Requests,
             pc[s] \in {"prepared", "saving", "armed"}
      PROVE  s = r
  BY <1>2, RecordTypes DEF QuietInv, RequestInv
<1> QED
  BY <1>1, <1>2

LEMMA ArmQuiet ==
    ASSUME TypeOK, QuietInv, NEW r \in Requests, Arm(r) PROVE QuietInv'
<1> USE DEF TypeOK
<1>1. /\ pc[r] = "prepared" /\ serving /\ owner[r] = latest /\ record[latest] = Unarmed(r)
      /\ UNCHANGED <<disk, serving, latest, unloads, task, callback, shutting, relay, owner,
                     damage>>
  BY UnderWay DEF Arm, entryVars, QuietInv, RequestInv
<1>2. /\ ~relay /\ task[latest] = "none"
      /\ \A s \in Requests : s # r => pc[s] \notin {"prepared", "saving", "armed"}
  BY <1>1, Unpending, UnderWay, RecordTypes
<1>3. \/ /\ record' = [record EXCEPT ![latest] = Armed(r)]
         /\ pc' = [pc EXCEPT ![r] = "saving"]
      \/ /\ record' = record
         /\ pc' = [pc EXCEPT ![r] = "rollback"]
  BY <1>1 DEF Arm, Remember, Goto
<1> QED
  BY <1>1, <1>2, <1>3 DEF QuietInv, OneObject, RequestInv, TaskInv, RelayInv

LEMMA ArmSavedQuiet ==
    ASSUME TypeOK, QuietInv, NEW r \in Requests, ArmSaved(r) PROVE QuietInv'
<1> USE DEF TypeOK
<1>1. /\ pc[r] = "saving" /\ serving /\ owner[r] = latest
      /\ record[latest] = Armed(r) /\ task[latest] = "none" /\ latest \in callback
      /\ UNCHANGED <<serving, latest, unloads, callback, shutting, relay, owner, damage>>
  BY UnderWay DEF ArmSaved, entryVars, QuietInv, RequestInv, OneObject
<1>2. /\ ~relay
      /\ \A s \in Requests : s # r => pc[s] \notin {"prepared", "saving", "armed"}
  BY <1>1, UnderWay DEF QuietInv, RelayInv
<1>3. CASE /\ SaveOk(Armed(r)) /\ TaskGoto(latest, Scheduled(latest)) /\ Goto(r, "armed")
           /\ UNCHANGED record
  <2>1. Secured'
    BY <1>1, <1>3, ArmingSecures DEF SaveOk, QuietInv, RelayInv, Secured
  <2>2. task' = [task EXCEPT ![latest] = "sleep"] /\ pc' = [pc EXCEPT ![r] = "armed"]
    BY <1>1, <1>3 DEF TaskGoto, Scheduled, Goto
  <2> QED
    BY <1>1, <1>2, <1>3, <2>1, <2>2, RecordTypes
    DEF QuietInv, OneObject, RequestInv, TaskInv, RelayInv
<1>4. CASE /\ Remember(latest, Unarmed(r)) /\ Goto(r, "rollback")
           /\ UNCHANGED task
  <2>1. /\ record' = [record EXCEPT ![latest] = Unarmed(r)]
        /\ pc' = [pc EXCEPT ![r] = "rollback"]
    BY <1>4 DEF Remember, Goto
  <2> QED
    BY <1>1, <1>2, <1>4, <2>1 DEF QuietInv, OneObject, RequestInv, TaskInv, RelayInv
<1> QED
  BY <1>1, <1>3, <1>4 DEF ArmSaved

LEMMA CallQuiet ==
    ASSUME TypeOK, QuietInv, NEW r \in Requests, SwitchOn(r) \/ NoCall(r) PROVE QuietInv'
<1> USE DEF TypeOK
<1>1. /\ pc[r] = "armed" /\ serving /\ owner[r] = latest
      /\ record[latest] = Armed(r) /\ task[latest] = "sleep" /\ Secured
      /\ pc' \in {[pc EXCEPT ![r] = "cleanup"], [pc EXCEPT ![r] = "done"]}
      /\ relay' \in {TRUE, relay}
      /\ UNCHANGED <<disk, serving, latest, unloads, record, task, callback, shutting, owner,
                     damage>>
  BY UnderWay DEF SwitchOn, NoCall, Called, Goto, entryVars, objectVars, QuietInv,
     RequestInv, RelayInv
<1>2. Secured'
  BY <1>1 DEF Secured
<1>3. IsArmed(record[latest])
  BY <1>1, RecordTypes
<1> QED
  BY <1>1, <1>2, <1>3 DEF QuietInv, OneObject, RequestInv, TaskInv, RelayInv

\* A request that clears its unarmed record, or leaves everything as it is.
LEMMA ClearingQuiet ==
    ASSUME TypeOK, QuietInv, NEW r \in Requests,
           pc[r] \notin {"idle", "prepared", "armed", "saving", "done"},
           UNCHANGED <<serving, latest, unloads, callback, shutting, relay, owner, damage>>,
           pc' \in {[pc EXCEPT ![r] = "cleanup"], [pc EXCEPT ![r] = "done"]},
           \/ UNCHANGED <<disk, record, task>>
           \/ /\ record[latest] = Unarmed(r)
              /\ record' \in {record, [record EXCEPT ![latest] = Nothing]}
              /\ task' \in {task, [task EXCEPT ![latest] = "none"]}
    PROVE  QuietInv'
<1> USE DEF TypeOK
<1>1. serving /\ owner[r] = latest
  BY UnderWay
<1>2. CASE UNCHANGED <<disk, record, task>>
  BY <1>1, <1>2 DEF QuietInv, OneObject, RequestInv, TaskInv, RelayInv, Secured
<1>3. CASE /\ record[latest] = Unarmed(r)
           /\ record' \in {record, [record EXCEPT ![latest] = Nothing]}
           /\ task' \in {task, [task EXCEPT ![latest] = "none"]}
  <2>1. /\ ~relay /\ task[latest] = "none"
        /\ \A s \in Requests : pc[s] \notin {"prepared", "saving", "armed"}
    BY <1>1, <1>3, Unpending, RecordTypes DEF QuietInv, RequestInv
  <2>2. task' = task
    BY <1>3, <2>1
  <2> QED
    BY <1>1, <2>1, <2>2 DEF QuietInv, OneObject, RequestInv, TaskInv, RelayInv
<1> QED
  BY <1>2, <1>3

LEMMA CleanUpQuiet ==
    ASSUME TypeOK, QuietInv, NEW r \in Requests, CleanUp(r) PROVE QuietInv'
<1>1. /\ pc[r] \in {"rollback", "cleanup"} /\ owner[r] = latest
      /\ UNCHANGED <<serving, latest, unloads, callback, shutting, relay, owner, damage>>
      /\ pc' \in {[pc EXCEPT ![r] = "cleanup"], [pc EXCEPT ![r] = "done"]}
  BY UnderWay DEF CleanUp, Goto, entryVars
<1>2. \/ UNCHANGED <<disk, record, task>>
      \/ /\ record[latest] = Unarmed(r)
         /\ record' \in {record, [record EXCEPT ![latest] = Nothing]}
         /\ task' \in {task, [task EXCEPT ![latest] = "none"]}
  BY <1>1 DEF CleanUp, Remember, TaskGoto
<1> QED
  BY <1>1, <1>2, ClearingQuiet

LEMMA CancelledQuiet ==
    ASSUME TypeOK, QuietInv, NEW r \in Requests, Cancelled(r) PROVE QuietInv'
<1>1. /\ pc[r] \notin {"idle", "armed", "done"} /\ owner[r] = latest
      /\ UNCHANGED <<serving, latest, unloads, task, callback, shutting, relay, owner,
                     damage>>
      /\ pc' = [pc EXCEPT ![r] = "done"]
  BY UnderWay DEF Cancelled, Goto, entryVars
<1>2. CASE UNCHANGED <<disk, record>>
  BY <1>1, <1>2 DEF QuietInv, OneObject, RequestInv, TaskInv, RelayInv, Secured, TypeOK
<1>3. CASE pc[r] = "saving" /\ SaveCut(Armed(r)) /\ UNCHANGED record
  <2>1. ~relay /\ \A s \in Requests : s # r => pc[s] \notin {"prepared", "saving", "armed"}
    BY <1>1, <1>3, UnderWay DEF QuietInv, RequestInv, RelayInv
  <2> QED
    BY <1>1, <1>3, <2>1 DEF QuietInv, OneObject, RequestInv, TaskInv, RelayInv, TypeOK
<1>4. CASE /\ pc[r] \in {"rollback", "cleanup"} /\ record[latest] = Unarmed(r)
           /\ Remember(latest, Nothing)
  BY <1>1, <1>4, ClearingQuiet DEF Remember
<1> QED
  BY <1>1, <1>2, <1>3, <1>4 DEF Cancelled

LEMMA RequestQuiet ==
    ASSUME TypeOK, QuietInv, NEW r \in Requests, RequestStep(r) PROVE QuietInv'
<1>1. CASE FailBeforeDispatch(r)
  BY <1>1, UnderWay DEF FailBeforeDispatch, Goto, entryVars, objectVars, QuietInv, OneObject,
     RequestInv, TaskInv, RelayInv, Secured, TypeOK
<1> QED
  BY <1>1, PrepareQuiet, ArmQuiet, ArmSavedQuiet, CallQuiet, CleanUpQuiet, CancelledQuiet
  DEF RequestStep

---------------------------------------------------------------------------
(* The task.                                                                 *)

\* A step of the task before it settles: it knows the record, and no call is due.
LEMMA ReleaseQuiet ==
    ASSUME TypeOK, QuietInv, NEW g \in Objects,
           SwitchOff(g) \/ SwitchOffFails(g) \/ ReadBack(g)
    PROVE  QuietInv'
<1> USE DEF TypeOK
<1>1. /\ task[g] \in {"sleep", "reading"}
      /\ UNCHANGED <<disk, serving, latest, unloads, record, callback, shutting, pc, owner,
                     damage>>
      /\ relay' \in {relay, FALSE}
      /\ \/ task' = [task EXCEPT ![g] = "reading"]
         \/ task' = [task EXCEPT ![g] = "unconfirmed"]
         \/ ~relay /\ task' = [task EXCEPT ![g] = "confirmed"]
  BY DEF SwitchOff, SwitchOffFails, ReadBack, Due, TaskGoto, entryVars
<1>2. serving /\ g = latest /\ IsArmed(record[latest])
  BY <1>1 DEF QuietInv, OneObject, TaskInv
<1>3. ASSUME NEW r \in Requests PROVE pc[r] \notin {"saving", "armed"}
  <2>1. CASE task[g] = "sleep"
    <3>1. Due(g)
      BY <2>1 DEF SwitchOff, SwitchOffFails, ReadBack
    <3> QED
      BY <1>2, <2>1, <3>1, UnderWay DEF Due, QuietInv, OneObject, RequestInv
  <2>2. CASE task[g] = "reading"
    BY <1>2, <2>2 DEF QuietInv, RequestInv
  <2> QED
    BY <1>1, <2>1, <2>2
<1>4. \A h \in Objects : h # latest => task'[h] = task[h]
  BY <1>1, <1>2
<1>5. task'[latest] # "none" /\ (task'[latest] = "confirmed" => ~relay)
  BY <1>1, <1>2
<1>6. relay' => relay
  BY <1>1
<1>7. OneObject'
  BY <1>1, <1>2, <1>4 DEF QuietInv, OneObject
<1>8. RequestInv'
  BY <1>1, <1>3 DEF QuietInv, RequestInv
<1>9. TaskInv'
  BY <1>1, <1>2, <1>5, <1>6 DEF TaskInv
<1>10. RelayInv'
  BY <1>1, <1>2, <1>5, <1>6 DEF QuietInv, RelayInv, Secured
<1> QED
  BY <1>7, <1>8, <1>9, <1>10 DEF QuietInv

LEMMA SettleQuiet ==
    ASSUME TypeOK, QuietInv, NEW g \in Objects, Settle(g) PROVE QuietInv'
<1> USE DEF TypeOK
<1>1. /\ task[g] \in {"confirmed", "unconfirmed"}
      /\ UNCHANGED <<serving, latest, unloads, shutting, relay, pc, owner, damage>>
  BY DEF Settle, entryVars
<1>2. serving /\ g = latest /\ IsArmed(record[latest]) /\ shutting = {}
  BY <1>1 DEF QuietInv, OneObject, TaskInv
<1>3. \A r \in Requests : pc[r] \notin {"prepared", "saving", "armed"}
  BY <1>1, <1>2, RecordTypes DEF QuietInv, RequestInv
<1>4. callback' = callback
  BY <1>2 DEF Settle
<1>5. Left(g) \in Payloads /\ record[latest] \in Payloads
  BY LeftType
<1>6. CASE task[g] = "confirmed"
  <2>1. ~relay
    BY <1>2, <1>6 DEF QuietInv, TaskInv
  <2>2. \/ /\ record' = [record EXCEPT ![g] = Nothing]
           /\ task' = [task EXCEPT ![g] = "none"]
        \/ record' = record /\ task' = [task EXCEPT ![g] = "sleep"]
    BY <1>2, <1>6 DEF Settle, Left, Remember, TaskGoto
  <2> QED
    BY <1>1, <1>2, <1>3, <1>4, <2>1, <2>2
    DEF QuietInv, OneObject, RequestInv, TaskInv, RelayInv
<1>7. CASE task[g] = "unconfirmed"
  <2>1. Left(g) = record[latest]
    BY <1>2, <1>7 DEF Left
  <2>2. record' = record /\ task' = [task EXCEPT ![g] = "sleep"]
    BY <1>2, <2>1 DEF Settle, LeftUnsaved, Remember, TaskGoto, IsArmed
  <2>3. SaveOk(record[latest]) \/ SaveRaises(record[latest]) \/ UNCHANGED disk
    BY <1>2, <2>1 DEF Settle, LeftUnsaved
  <2>4. relay => Secured'
    <3>1. record[latest] \in Records /\ record[latest].armed
      BY <1>2, <1>5 DEF IsArmed, Payloads
    <3>2. disk' = disk \/ disk' \in Saves(disk, record[latest])
      BY <2>3 DEF SaveOk, SaveRaises, Saves
    <3> QED
      BY <1>1, <3>1, <3>2, StaysSecured DEF QuietInv, RelayInv
  <2> QED
    <3>1. OneObject' /\ RequestInv' /\ TaskInv'
      BY <1>1, <1>2, <1>3, <1>4, <2>2 DEF QuietInv, OneObject, RequestInv, TaskInv
    <3>2. RelayInv'
      BY <1>1, <1>2, <1>3, <2>2, <2>4 DEF QuietInv, RelayInv
    <3> QED
      BY <3>1, <3>2 DEF QuietInv
<1> QED
  BY <1>1, <1>6, <1>7

---------------------------------------------------------------------------
(* The entry, the process and the relay.                                     *)

\* While the entry is not set up nothing is under way.
LEMMA Stopped ==
    ASSUME QuietInv, ~serving
    PROVE  /\ \A r \in Requests : pc[r] \in {"idle", "done"}
           /\ \A g \in Objects : task[g] = "none"
  BY DEF QuietInv, OneObject

LEMMA SetupQuiet ==
    ASSUME TypeOK, QuietInv, Setup PROVE QuietInv'
<1> USE DEF TypeOK
<1>1. PICK a \in {x \in LoadAnswers(disk) : x.kind # "error"} :
        LET p == IF a.kind = "value" THEN a.doc ELSE Nothing
            kept == Kept(p, a.flagged)
            untouched == p = Nothing \/ (IsArmed(p) /\ ~a.flagged)
        IN  \/ /\ IF untouched THEN disk' = a.disk
                             ELSE disk' \in SaveAcks(a.disk, kept)
               /\ serving' = TRUE
               /\ latest' = latest + 1
               /\ Remember(latest + 1, kept)
               /\ TaskGoto(latest + 1, IF kept = Nothing THEN "none" ELSE "sleep")
               /\ callback' = callback \union {latest + 1}
               /\ UNCHANGED failures
            \/ /\ ~untouched /\ disk' \in SaveFailures(a.disk, kept) /\ Raises
               /\ UNCHANGED <<serving, latest, record, task, callback>>
  BY DEF Setup
<1> DEFINE p == IF a.kind = "value" THEN a.doc ELSE Nothing
           kept == Kept(p, a.flagged)
           point == IF kept = Nothing THEN "none" ELSE "sleep"
<1>2. /\ ~serving /\ latest + 1 \in Objects
      /\ UNCHANGED <<unloads, shutting, relay, pc, owner, damage>>
      /\ \A r \in Requests : pc[r] \in {"idle", "done"}
      /\ \A g \in Objects : task[g] = "none"
  BY Stopped, IntercomAssumption DEF Setup, Objects
<1>3. /\ a.disk \in Disks /\ p \in Payloads /\ kept \in Payloads
      /\ kept # Nothing => IsArmed(kept)
      /\ IsArmed(p) => IsArmed(kept)
  BY LoadFacts, KeptFacts DEF Payloads
<1>4. ASSUME relay
      PROVE  /\ kept \in Records /\ kept.armed
             /\ IF damage = 0 THEN Intact(a.disk) ELSE Recoverable(a.disk)
  <2>1. Secured
    BY <1>4 DEF QuietInv, RelayInv
  <2>2. /\ p \in Records /\ (p.armed \/ a.flagged)
        /\ IF damage = 0 THEN Intact(a.disk) ELSE Recoverable(a.disk)
    BY <2>1, LoadSecures DEF Secured
  <2>3. kept \in Records /\ kept.armed
    BY <2>2, IntercomAssumption DEF Kept, Records
  <2> QED
    BY <2>2, <2>3
<1>5. \/ disk' = a.disk
      \/ disk' \in Saves(a.disk, kept)
  BY <1>1 DEF Saves
<1>6. relay => Secured'
  <2> SUFFICES ASSUME relay PROVE Secured'
    OBVIOUS
  <2>1. /\ kept \in Records /\ kept.armed
        /\ IF damage = 0 THEN Intact(a.disk) ELSE Recoverable(a.disk)
    BY <1>4
  <2> HIDE DEF kept
  <2>2. IF damage = 0 THEN Intact(disk') ELSE Recoverable(disk')
    BY <1>3, <1>5, <2>1, SaveSecures
  <2> QED
    BY <1>2, <2>2 DEF Secured
<1>7. \/ /\ serving' = TRUE /\ latest' = latest + 1
         /\ callback' = callback \union {latest + 1}
         /\ record' = [record EXCEPT ![latest + 1] = kept]
         /\ task' = [task EXCEPT ![latest + 1] = point]
      \/ UNCHANGED <<serving, latest, record, task, callback>>
  BY <1>1 DEF Remember, TaskGoto
<1>8. CASE /\ serving' = TRUE /\ latest' = latest + 1
           /\ callback' = callback \union {latest + 1}
           /\ record' = [record EXCEPT ![latest + 1] = kept]
           /\ task' = [task EXCEPT ![latest + 1] = point]
  <2>1. /\ record'[latest'] = kept /\ task'[latest'] = point
        /\ \A g \in Objects : g # latest' => task'[g] = "none"
    BY <1>2, <1>8
  <2>2. point = "none" <=> kept = Nothing
    OBVIOUS
  <2>3. point # "confirmed"
    OBVIOUS
  <2>4. IsArmed(kept) => kept # Nothing
    BY DEF IsArmed
  <2> HIDE DEF p, kept, point
  <2>5. OneObject'
    BY <1>2, <1>8, <2>1 DEF QuietInv, OneObject
  <2>6. RequestInv' /\ TaskInv'
    BY <1>2, <1>3, <2>1, <2>2, <2>3 DEF RequestInv, TaskInv
  <2>7. relay => IsArmed(kept) /\ point # "none"
    BY <1>4, <2>2, IntercomAssumption DEF IsArmed
  <2>8. RelayInv'
    BY <1>2, <1>6, <1>8, <2>1, <2>7 DEF RelayInv
  <2> QED
    BY <2>5, <2>6, <2>8 DEF QuietInv
<1>9. CASE UNCHANGED <<serving, latest, record, task, callback>>
  BY <1>2, <1>6, <1>9 DEF QuietInv, OneObject, RequestInv, TaskInv, RelayInv
<1> QED
  BY <1>7, <1>8, <1>9

LEMMA SetupFailsQuiet ==
    ASSUME TypeOK, QuietInv, SetupFails PROVE QuietInv'
<1>1. relay => Secured'
  BY LoadSecures DEF SetupFails, QuietInv, RelayInv, Secured, TypeOK
<1> QED
  BY <1>1, Stopped DEF SetupFails, entryVars, objectVars, QuietInv, OneObject, RequestInv,
     TaskInv, RelayInv, TypeOK

\* What a crash cuts short is no danger to the record of a relay that is on.
LEMMA CrashQuiet ==
    ASSUME TypeOK, QuietInv, Crash PROVE QuietInv'
<1> USE DEF TypeOK
<1>1. ASSUME relay, NEW p \in InFlight, disk' \in SaveFailures(disk, p)
      PROVE  Secured'
  <2>1. p \in Payloads
    BY <1>1, InFlightTypes
  <2>2. Secured /\ disk' \in Saves(disk, p) /\ UNCHANGED damage
    BY <1>1 DEF QuietInv, RelayInv, Saves, Crash
  <2>3. IsArmed(p)
    <3>1. ~ \E r \in Requests : pc[r] = "idle" /\ serving /\ record[latest] = Nothing
      BY <1>1 DEF QuietInv, RelayInv, IsArmed
    <3>2. ~ \E r \in Requests : pc[r] \in {"rollback", "cleanup"}
                                /\ record[owner[r]] = Unarmed(r)
      BY <1>1, UnderWay, RecordTypes DEF QuietInv, RelayInv
    <3>3. \A g \in Objects : task[g] \in {"confirmed", "unconfirmed"} /\ IsArmed(record[g]) =>
                             IsArmed(Left(g))
      BY <1>1 DEF QuietInv, OneObject, TaskInv, Left
    <3> QED
      BY <1>1, <3>1, <3>2, <3>3, RecordTypes DEF InFlight
  <2>4. p \in Records /\ p.armed
    BY <2>1, <2>3 DEF IsArmed, Payloads
  <2> QED
    BY <2>2, <2>4, StaysSecured
<1>2. relay => Secured'
  BY <1>1 DEF Crash, QuietInv, RelayInv, Secured
<1> QED
  BY <1>2 DEF Crash, QuietInv, OneObject, RequestInv, TaskInv, RelayInv

\* The first file that is damaged leaves the other one to find the record with.
LEMMA DamageQuiet ==
    ASSUME TypeOK, QuietInv, DamageFile, damage = 0 PROVE QuietInv'
<1>1. /\ damage' = 1
      /\ UNCHANGED <<serving, latest, unloads, record, task, callback, shutting, relay, pc,
                     owner>>
  BY DEF DamageFile, entryVars, objectVars
<1>2. Secured => Secured'
  <2>1. PICK file \in {"cur", "prev"}, kind \in {Invalid, Corrupt} :
          disk' = [disk EXCEPT ![file] = kind]
    BY DEF DamageFile
  <2>2. kind \notin Payloads
    BY IntercomAssumption
  <2>3. Intact(disk) => Recoverable(disk')
    BY <2>1, <2>2 DEF TypeOK, Disks, Intact, Recoverable
  <2> QED
    BY <1>1, <2>3 DEF Secured
<1> QED
  BY <1>1, <1>2 DEF QuietInv, OneObject, RequestInv, TaskInv, RelayInv

---------------------------------------------------------------------------
(* Objects that were shut down.                                              *)

\* Only past objects are shut down.  One that keeps its callback has a task for its
\* armed record, and no request will arm one: a request that prepared its record before
\* the shutdown would start a task in vain, for the record is no longer its own.
Retained ==
    /\ \A g \in shutting : g <= latest
    /\ serving => latest \notin shutting
    /\ \A g \in shutting \cap callback :
          /\ IsArmed(record[g]) => task[g] # "none"
          /\ \A r \in Requests : owner[r] = g /\ pc[r] = "prepared" => record[g] # Unarmed(r)

LEMMA RequestRetains ==
    ASSUME TypeOK, Retained, NEW r \in Requests, RequestStep(r) PROVE Retained'
<1> USE DEF TypeOK
<1>1. UNCHANGED <<serving, latest, callback, shutting>>
  BY DEF RequestStep, Prepare, FailBeforeDispatch, Arm, ArmSaved, SwitchOn, NoCall, CleanUp,
     Cancelled, entryVars, objectVars
<1> SUFFICES ASSUME NEW g \in shutting \cap callback
             PROVE  /\ IsArmed(record'[g]) => task'[g] # "none"
                    /\ \A s \in Requests : owner'[s] = g /\ pc'[s] = "prepared" =>
                                           record'[g] # Unarmed(s)
  BY <1>1 DEF Retained
<1>2. /\ IsArmed(record[g]) => task[g] # "none"
      /\ \A s \in Requests : owner[s] = g /\ pc[s] = "prepared" => record[g] # Unarmed(s)
      /\ g \in Objects
  BY DEF Retained
<1>3. CASE Prepare(r)
  <2>1. g # latest
    BY <1>3 DEF Prepare, Retained
  <2> QED
    BY <1>2, <1>3, <2>1 DEF Prepare, Remember, Goto
<1>4. CASE FailBeforeDispatch(r) \/ SwitchOn(r) \/ NoCall(r)
  BY <1>2, <1>4 DEF FailBeforeDispatch, SwitchOn, NoCall, Called, Goto, objectVars
<1>5. CASE Arm(r)
  <2>1. /\ record'[g] = record[g] /\ UNCHANGED <<task, owner>>
        /\ pc' \in {[pc EXCEPT ![r] = "saving"], [pc EXCEPT ![r] = "rollback"]}
    BY <1>2, <1>5 DEF Arm, Remember, Goto
  <2> QED
    BY <1>2, <2>1
<1>6. CASE ArmSaved(r)
  <2>1. /\ UNCHANGED owner
        /\ pc' \in {[pc EXCEPT ![r] = "armed"], [pc EXCEPT ![r] = "rollback"]}
        /\ \/ /\ task' = [task EXCEPT ![owner[r]] = Scheduled(owner[r])]
              /\ UNCHANGED record
           \/ /\ record' = [record EXCEPT ![owner[r]] = Unarmed(r)]
              /\ UNCHANGED task
    BY <1>6 DEF ArmSaved, Remember, TaskGoto, Goto
  <2>2. Scheduled(g) = "sleep"
    BY DEF Scheduled
  <2>3. ~IsArmed(Unarmed(r)) /\ \A s \in Requests : s # r => Unarmed(r) # Unarmed(s)
    BY RecordTypes
  <2> QED
    BY <1>2, <2>1, <2>2, <2>3
<1>7. CASE CleanUp(r) \/ Cancelled(r)
  <2>1. /\ UNCHANGED owner
        /\ pc' \in {[pc EXCEPT ![r] = "cleanup"], [pc EXCEPT ![r] = "done"]}
        /\ \/ UNCHANGED <<record, task>>
           \/ record' = [record EXCEPT ![owner[r]] = Nothing] /\ UNCHANGED task
           \/ /\ record' = [record EXCEPT ![owner[r]] = Nothing]
              /\ task' = [task EXCEPT ![owner[r]] = "none"]
    BY <1>7 DEF CleanUp, Cancelled, Remember, TaskGoto, Goto
  <2>2. ~IsArmed(Nothing) /\ \A s \in Requests : Nothing # Unarmed(s)
    BY RecordTypes
  <2> QED
    BY <1>2, <2>1, <2>2
<1> QED
  BY <1>3, <1>4, <1>5, <1>6, <1>7 DEF RequestStep

LEMMA TaskRetains ==
    ASSUME TypeOK, Retained, NEW h \in Objects, TaskStep(h) PROVE Retained'
<1> USE DEF TypeOK
<1>1. /\ UNCHANGED <<serving, latest, shutting, pc, owner>>
      /\ callback' \subseteq callback
  BY DEF TaskStep, SwitchOff, SwitchOffFails, ReadBack, Settle, entryVars
<1> SUFFICES ASSUME NEW g \in shutting \cap callback
             PROVE  /\ IsArmed(record'[g]) => task'[g] # "none"
                    /\ \A s \in Requests : owner[s] = g /\ pc[s] = "prepared" =>
                                           record'[g] # Unarmed(s)
  BY <1>1 DEF Retained
<1>2. /\ IsArmed(record[g]) => task[g] # "none"
      /\ \A s \in Requests : owner[s] = g /\ pc[s] = "prepared" => record[g] # Unarmed(s)
      /\ g \in Objects
  BY DEF Retained
<1>3. CASE SwitchOff(h) \/ SwitchOffFails(h) \/ ReadBack(h)
  <2>1. /\ UNCHANGED record
        /\ task' \in {[task EXCEPT ![h] = "reading"], [task EXCEPT ![h] = "unconfirmed"],
                      [task EXCEPT ![h] = "confirmed"]}
    BY <1>3 DEF SwitchOff, SwitchOffFails, ReadBack, TaskGoto
  <2> QED
    BY <1>2, <2>1
<1>4. CASE Settle(h)
  <2>1. \/ ~IsArmed(record[h]) /\ UNCHANGED record /\ task' = [task EXCEPT ![h] = "none"]
        \/ UNCHANGED record /\ task' = [task EXCEPT ![h] = "sleep"]
        \/ /\ record' = [record EXCEPT ![h] = Nothing]
           /\ task' = [task EXCEPT ![h] = "none"]
    BY <1>4 DEF Settle, Left, Remember, TaskGoto
  <2>2. ~IsArmed(Nothing) /\ \A s \in Requests : Nothing # Unarmed(s)
    BY RecordTypes DEF IsArmed
  <2> QED
    BY <1>2, <2>1, <2>2
<1> QED
  BY <1>3, <1>4 DEF TaskStep

\* A set-up makes a new object, which was not shut down.
LEMMA SetupRetains == ASSUME TypeOK, Retained, Setup PROVE Retained'
<1> USE DEF TypeOK
<1>1. PICK kept \in Payloads, point \in {"none", "sleep"} :
        \/ /\ serving' = TRUE /\ latest' = latest + 1
           /\ callback' = callback \union {latest + 1}
           /\ record' = [record EXCEPT ![latest + 1] = kept]
           /\ task' = [task EXCEPT ![latest + 1] = point]
        \/ UNCHANGED <<serving, latest, record, task, callback>>
  <2>1. \A a \in LoadAnswers(disk) :
          Kept(IF a.kind = "value" THEN a.doc ELSE Nothing, a.flagged) \in Payloads
    BY LoadFacts, KeptFacts DEF Payloads
  <2> QED
    BY <2>1 DEF Setup, Remember, TaskGoto
<1>2. UNCHANGED <<shutting, pc, owner>> /\ ~serving
  BY DEF Setup
<1>3. latest \in Nat /\ \A g \in shutting : g \in Nat /\ g <= latest
  BY IntercomAssumption DEF Objects, Retained
<1>4. \A g \in shutting : g # latest + 1
  BY <1>3
<1> QED
  BY <1>1, <1>2, <1>3, <1>4 DEF Retained

\* A shutdown starts a task for an armed record, or takes the callback away.
LEMMA UnloadRetains == ASSUME TypeOK, Retained, Unload PROVE Retained'
<1> USE DEF TypeOK
<1>1. /\ UNCHANGED <<latest, record, pc, owner>>
      /\ serving' = FALSE /\ shutting' = shutting \union {latest}
      /\ \/ /\ IsArmed(record[latest]) /\ UNCHANGED callback
            /\ task' = [task EXCEPT ![latest] = "sleep"]
         \/ /\ callback' = callback \ {latest}
            /\ task' = [task EXCEPT ![latest] = "none"]
  BY DEF Unload, TaskGoto
<1>2. latest <= latest
  BY IntercomAssumption DEF Objects
<1>3. IsArmed(record[latest]) => \A r \in Requests : record[latest] # Unarmed(r)
  BY RecordTypes
<1> QED
  BY <1>1, <1>2, <1>3 DEF Retained

LEMMA NextRetained == TypeOK /\ Retained /\ [Next]_vars => Retained'
<1> SUFFICES ASSUME TypeOK, Retained, [Next]_vars PROVE Retained'
    OBVIOUS
<1>1. CASE UNCHANGED vars
  BY <1>1 DEF vars, entryVars, objectVars, Retained
<1>2. CASE Crash
  BY <1>2 DEF Crash, Retained
<1>3. CASE SetupFails \/ SwitchedOff \/ ClockGoesBack \/ DamageFile
  BY <1>3 DEF SetupFails, SwitchedOff, ClockGoesBack, DamageFile, entryVars, objectVars,
     Retained
<1> QED
  BY <1>1, <1>2, <1>3, RequestRetains, TaskRetains, SetupRetains, UnloadRetains DEF Next

---------------------------------------------------------------------------
(* The theorems.                                                             *)

LEMMA NextIInv == IInv /\ [Next]_vars => IInv'
<1> SUFFICES ASSUME IInv, [Next]_vars, Quiet' PROVE QuietInv'
  BY StepTypes DEF IInv, QuietInv
<1>1. TypeOK /\ TypeOK'
  BY StepTypes DEF IInv
<1>2. CASE UNCHANGED vars
  BY <1>1, <1>2 DEF IInv, Quiet, QuietInv, OneObject, RequestInv, TaskInv, RelayInv, Secured,
     vars, entryVars, objectVars
<1>3. CASE Unload
  BY <1>1, <1>3, IntercomAssumption DEF Unload, Quiet, TypeOK
<1>4. CASE DamageFile
  <2>1. damage = 0 /\ Quiet
    BY <1>1, <1>4, IntercomAssumption DEF DamageFile, Quiet, TypeOK, entryVars
  <2> QED
    BY <1>1, <1>4, <2>1, DamageQuiet DEF IInv, QuietInv
<1>5. CASE Next /\ ~Unload /\ ~DamageFile
  <2>1. UNCHANGED <<unloads, damage>>
    BY <1>5 DEF Next, RequestStep, Prepare, FailBeforeDispatch, Arm, ArmSaved, SwitchOn,
       NoCall, CleanUp, Cancelled, TaskStep, SwitchOff, SwitchOffFails, ReadBack, Settle,
       Setup, SetupFails, Crash, SwitchedOff, ClockGoesBack, entryVars
  <2>2. QuietInv
    BY <2>1 DEF IInv, Quiet, QuietInv
  <2>3. CASE SwitchedOff \/ ClockGoesBack
    BY <1>1, <2>2, <2>3 DEF SwitchedOff, ClockGoesBack, entryVars, objectVars, QuietInv,
       OneObject, RequestInv, TaskInv, RelayInv, Secured
  <2> QED
    BY <1>1, <1>5, <2>2, <2>3, RequestQuiet, ReleaseQuiet, SettleQuiet, SetupQuiet,
       SetupFailsQuiet, CrashQuiet DEF Next, TaskStep
<1> QED
  BY <1>2, <1>3, <1>4, <1>5

LEMMA InitIInv == Init => IInv
<1> SUFFICES ASSUME Init PROVE IInv
    OBVIOUS
<1>1. 0 \in Objects /\ NewDisk \in Disks /\ Nothing \in Payloads
  BY IntercomAssumption DEF Objects, NewDisk, Disks, Files, Payloads
<1>2. TypeOK
  <2>1. /\ record \in [Objects -> Payloads] /\ task \in [Objects -> TaskPoints]
        /\ pc \in [Requests -> Points] /\ owner \in [Requests -> Objects]
    BY <1>1 DEF Init, TaskPoints, Points
  <2>2. unloads \in 0..MaxUnloads /\ failures \in 0..MaxFailures /\ damage \in 0..MaxDamage
    BY IntercomAssumption DEF Init
  <2> QED
    BY <1>1, <2>1, <2>2 DEF Init, TypeOK
<1>3. OneObject /\ RequestInv /\ TaskInv /\ RelayInv
  BY <1>1 DEF Init, OneObject, RequestInv, TaskInv, RelayInv
<1> QED
  BY <1>2, <1>3 DEF IInv

LEMMA Invariance == Spec => []IInv
  BY InitIInv, NextIInv, PTL DEF Spec

\* Every variable keeps its type, whatever is called, cancelled, unloaded or lost: a
\* record in memory and a valid file are records that the validator accepts.
THEOREM TypeCorrect == Spec => []TypeOK
  BY Invariance, PTL DEF IInv

\* A relay that a request switched on has its deadline on disk, for any number of
\* requests, set-ups, crashes and failures, as long as no file was damaged and the
\* entry not unloaded.
THEOREM Covered == Spec => []RelayCovered
<1>1. IInv => RelayCovered
  BY IntercomAssumption
  DEF IInv, Quiet, RelayInv, RelayCovered, Secured, Intact, Valid, IsArmed, Payloads
<1> QED
  BY <1>1, Invariance, PTL

\* While the entry is set up, a task of its object is on its way to switch off a relay
\* that is on, although the process restarted meanwhile and one file was damaged, as
\* long as the entry was not unloaded.
THEOREM Guarded == Spec => []RelayGuarded
<1>1. IInv => RelayGuarded
  BY DEF IInv, Quiet, RelayInv, RelayGuarded
<1> QED
  BY <1>1, Invariance, PTL

\* "Retain retries after unload": an object that was shut down with an armed record
\* keeps a task for it until the record is cleared, whatever is cancelled, raises or is
\* cut short meanwhile, and however often the entry is set up and unloaded.
THEOREM RetriesKept == Spec => []RetriesRetained
<1>1. Init => Retained
  BY DEF Init, Retained
<1>2. Spec => []Retained
  BY <1>1, NextRetained, TypeCorrect, PTL DEF Spec
<1>3. Retained => RetriesRetained
  BY DEF Retained, RetriesRetained
<1> QED
  BY <1>2, <1>3, PTL
---------------------------------------------------------------------------
(* Nobody forgets a release.                                                 *)

\* The task of object g can take its next step: its deadline is over and no request is
\* before its call, its read-back ends, or the lock is free for its outcome.
Advances(g) ==
    \/ Due(g)
    \/ task[g] = "reading"
    \/ task[g] \in {"confirmed", "unconfirmed"} /\ Free(g)

\* ... or waits for a request that saves its arming under the lock.
Attended(g) == Advances(g) \/ \E r \in Requests : owner[r] = g /\ pc[r] = "saving"

\* The record of a set-up whose load answers a.
Found(a) == Kept(IF a.kind = "value" THEN a.doc ELSE Nothing, a.flagged)

\* A relay that is on is released by a step that is not held up; or the entry is down,
\* a load can answer, and whatever it answers the set-up starts from an armed record.
RelayAttended ==
    relay /\ Quiet =>
        /\ serving => IsArmed(record[latest]) /\ Advances(latest)
        /\ ~serving =>
             LET answers == {a \in LoadAnswers(disk) : a.kind # "error"}
             IN  answers # {} /\ \A a \in answers : IsArmed(Found(a))

\* And so is the record of an object that was shut down.
RetriesAttended == \A g \in shutting \cap callback : IsArmed(record[g]) => Attended(g)

\* A call is made of a relay that is off: the one before it was released, or there
\* would still be its record, and no place for another one.
Calm == Quiet => \A r \in Requests : pc[r] = "armed" => ~relay

LEMMA RequestCalm ==
    ASSUME IInv, Quiet, Calm, NEW r \in Requests, RequestStep(r), Quiet'
    PROVE  Calm'
<1> USE DEF Calm
<1>1. pc \in [Requests -> Points] /\ TypeOK
  BY DEF IInv, TypeOK
<1>2. CASE ArmSaved(r)
  <2>1. UNCHANGED relay /\ pc[r] = "saving" /\ (Goto(r, "armed") \/ Goto(r, "rollback"))
    BY <1>2 DEF ArmSaved
  <2>2. serving /\ task[latest] = "none"
    BY <2>1 DEF IInv, OneObject, RequestInv
  <2>3. ~relay
    BY <2>2 DEF IInv, RelayInv
  <2> QED
    BY <2>1, <2>3
<1>3. CASE SwitchOn(r)
  <2>1. ASSUME NEW x \in Requests \ {r}
        PROVE  pc'[x] # "armed"
    <3>1. pc[r] = "armed" /\ pc'[x] = pc[x]
      BY <1>1, <1>3 DEF SwitchOn, Called, Goto
    <3>2. CASE pc[x] = "armed"
      <4>1. record[latest] = Armed(r) /\ record[latest] = Armed(x)
        BY <3>1, <3>2 DEF IInv, RequestInv
      <4> QED
        BY <4>1, RecordTypes
    <3> QED
      BY <3>1, <3>2
  <2>2. pc'[r] # "armed"
    BY <1>1, <1>3 DEF SwitchOn, Called, Goto
  <2> QED
    BY <2>1, <2>2
<1>4. CASE Prepare(r) \/ FailBeforeDispatch(r) \/ Arm(r) \/ NoCall(r) \/ CleanUp(r) \/ Cancelled(r)
  <2>1. UNCHANGED relay /\ \E point \in Points \ {"armed"} : Goto(r, point)
    BY <1>4 DEF Prepare, FailBeforeDispatch, Arm, NoCall, Called, CleanUp, Cancelled, Points
  <2>2. \A x \in Requests : pc'[x] = "armed" => pc[x] = "armed"
    BY <1>1, <2>1 DEF Goto
  <2> QED
    BY <2>1, <2>2
<1> QED
  BY <1>2, <1>3, <1>4 DEF RequestStep

LEMMA NextCalm == IInv /\ Calm /\ [Next]_vars => Calm'
<1> SUFFICES ASSUME IInv, Calm, [Next]_vars, Quiet' PROVE Calm'
    BY DEF Calm
<1>1. Quiet
  <2>1. damage \in Nat /\ unloads \in Nat
    BY DEF IInv, TypeOK
  <2>2. \/ UNCHANGED damage \/ damage' = damage + 1
    BY DEF Next, RequestStep, Prepare, FailBeforeDispatch, Arm, ArmSaved, SwitchOn,
       NoCall, CleanUp, Cancelled, TaskStep, SwitchOff, SwitchOffFails, ReadBack, Settle,
       Setup, SetupFails, Unload, Crash, SwitchedOff, ClockGoesBack, DamageFile, vars
  <2>3. \/ UNCHANGED unloads \/ unloads' = unloads + 1
    BY DEF Next, RequestStep, Prepare, FailBeforeDispatch, Arm, ArmSaved, SwitchOn,
       NoCall, CleanUp, Cancelled, TaskStep, SwitchOff, SwitchOffFails, ReadBack, Settle,
       Setup, SetupFails, Unload, Crash, SwitchedOff, ClockGoesBack, DamageFile, vars, entryVars
  <2> QED
    BY <2>1, <2>2, <2>3 DEF Quiet
<1>2. CASE \E r \in Requests : RequestStep(r)
  BY <1>1, <1>2, RequestCalm
<1>3. CASE (\E g \in Objects : TaskStep(g)) \/ Setup \/ SetupFails \/ Unload \/ SwitchedOff
           \/ ClockGoesBack \/ DamageFile \/ UNCHANGED vars
  <2>1. UNCHANGED pc /\ (relay' => relay)
    BY <1>3 DEF TaskStep, SwitchOff, SwitchOffFails, ReadBack, Settle, Setup, SetupFails,
       Unload, SwitchedOff, ClockGoesBack, DamageFile, vars
  <2> QED
    BY <1>1, <2>1 DEF Calm
<1>4. CASE Crash
  BY <1>4 DEF Crash, Calm
<1> QED
  BY <1>2, <1>3, <1>4 DEF Next

LEMMA ServedAttended ==
    ASSUME IInv, Calm, relay, Quiet, serving
    PROVE  IsArmed(record[latest]) /\ Advances(latest)
<1>1. IsArmed(record[latest]) /\ task[latest] # "none"
  BY DEF IInv, RelayInv
<1>2. task[latest] \in TaskPoints
  BY DEF IInv, TypeOK
<1>3. \A r \in Requests : pc[r] # "armed"
  BY DEF Calm
<1>4. Free(latest)
  BY <1>1 DEF IInv, RequestInv, Free
<1> QED
  BY <1>1, <1>2, <1>3, <1>4 DEF Advances, Due, TaskPoints

LEMMA DownAttended ==
    ASSUME IInv, relay, Quiet
    PROVE  LET answers == {a \in LoadAnswers(disk) : a.kind # "error"}
           IN  answers # {} /\ \A a \in answers : IsArmed(Found(a))
<1>1. disk \in Disks /\ (Intact(disk) \/ Recoverable(disk))
  BY DEF IInv, TypeOK, RelayInv, Secured
<1>2. \E a \in LoadAnswers(disk) : a.kind # "error"
  <2>1. Valid(disk.cur) \/ Valid(disk.prev)
    BY <1>1 DEF Intact, Recoverable, Valid, Payloads
  <2>2. CASE Valid(disk.cur)
    <3>1. Answer("value", disk.cur, disk.latch, disk) \in LoadAnswers(disk)
      BY <2>2 DEF LoadAnswers
    <3> QED
      BY <3>1 DEF Answer
  <2>3. CASE ~Valid(disk.cur)
    <3>1. Answer("value", disk.prev, TRUE, Restored(disk)) \in LoadAnswers(disk)
      BY <2>1, <2>3 DEF LoadAnswers
    <3> QED
      BY <3>1 DEF Answer
  <2> QED
    BY <2>2, <2>3
<1>3. ASSUME NEW a \in LoadAnswers(disk), a.kind # "error"
      PROVE  IsArmed(Found(a))
  <2>1. a.kind = "value" /\ a.doc \in Records /\ (a.doc.armed \/ a.flagged)
    BY <1>1, <1>3, LoadSecures
  <2>2. a.doc # Nothing /\ [a.doc EXCEPT !.armed = TRUE] \in Records
        /\ [a.doc EXCEPT !.armed = TRUE].armed
    BY <2>1, IntercomAssumption DEF Records
  <2> QED
    BY <2>1, <2>2, IntercomAssumption DEF Found, Kept, IsArmed
<1> QED
  BY <1>2, <1>3

\* The safety half of RelayReleased, for any number of requests, set-ups, crashes and
\* failures and with its one damaged file: while a relay is on, the task of its release
\* is not held up by a lock or a request, and in a set-up it is started again.
THEOREM NothingHoldsRelease == Spec => []RelayAttended
<1>1. Init => Calm
  BY DEF Init, Calm
<1>2. Spec => []Calm
  BY <1>1, NextCalm, Invariance, PTL DEF Spec
<1>3. IInv /\ Calm => RelayAttended
  BY ServedAttended, DownAttended DEF RelayAttended
<1> QED
  BY <1>2, <1>3, Invariance, PTL

\* The task that an object keeps after its shutdown can go on, at once or after the
\* arming that is being saved: its retries are made and not only kept.
THEOREM NothingHoldsRetries == Spec => []RetriesAttended
<1>1. TypeOK /\ RetriesRetained => RetriesAttended
  <2> SUFFICES ASSUME TypeOK, RetriesRetained, NEW g \in shutting \cap callback,
                      IsArmed(record[g])
               PROVE  Attended(g)
    BY DEF RetriesAttended
  <2>1. task[g] \in TaskPoints \ {"none"}
    BY DEF TypeOK, RetriesRetained
  <2> QED
    BY <2>1 DEF Attended, Advances, Due, Free, TaskPoints
<1> QED
  BY <1>1, TypeCorrect, RetriesKept, PTL
=============================================================================
