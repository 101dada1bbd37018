------------------------- MODULE DeviceActionsProofs -------------------------
(* Proofs about DeviceActions, for every number of keys, requests, set-ups,
   unloads and damages: within one journal object a key is dispatched at most
   once, a replay is faithful, and no unused reservation outlives its process;
   as long as no entry was unloaded under its requests and no file was damaged,
   dispatches and receipts are durable; and without an unload a key is
   dispatched at most once at all, even if one file was damaged.             *)

EXTENDS DeviceActions, FiniteSetTheorems, TLAPS

---------------------------------------------------------------------------
(* The inductive invariant.                                                  *)

\* The points at which a request holds the record of its key.
Holding == Points \ {"idle", "reserve", "done"}

\* The points between the reservation and the dispatch boundary.
Before == {"pending", "prepare", "dispatching"}

\* The points at which the dispatch boundary is in the journal.
Beyond == {"execute", "unattended", "complete"}

Over == {"idle", "done"}

\* The journal holds a record of the key of r, and it is r's.
HeldBy(journal, r) == journal[key[r]] # NoRecord /\ journal[key[r]].by = r

Durable(journal, r) == HeldBy(journal, r) /\ journal[key[r]].phase # "not_started"

Receipted(journal, r) == HeldBy(journal, r) /\ journal[key[r]].state = "completed"

Bookkeeping ==
    /\ latest <= setups
    /\ serving => latest >= 1
    /\ \A r \in Requests :
         /\ pc[r] # "idle" => key[r] \in Keys /\ fp[r] \in Fingerprints
                              /\ owner[r] \in 1..latest
         /\ crossed[r] <=> r \in dispatched
         /\ crossed[r] => pc[r] \in Beyond \union {"done"}
         /\ answer[r] = "receipt" => pc[r] = "done"

HoldersHold == \A r \in Requests : pc[r] \in Holding => HeldBy(mem[owner[r]], r)

\* Journal object g went down with its process: no request works with it.
Dead(g) ==
    /\ g <= latest
    /\ ~(serving /\ latest = g)
    /\ \A r \in Requests : pc[r] \notin Over => owner[r] # g

DispatchesHeld ==
    \A r \in dispatched : HeldBy(mem[owner[r]], r) \/ Dead(owner[r])

ObjectInv == Bookkeeping /\ HoldersHold /\ DispatchesHeld /\ AtMostOncePerObject

\* Without a damage the current file is there unless nothing was ever saved.
Undamaged ==
    damage = 0 =>
      /\ ~disk.latch
      /\ disk.cur \in Journals \union {Absent}
      /\ Valid(disk.prev) => Valid(disk.cur)

\* Without an unload every request under way works with the latest object.
Attended ==
    unloads = 0 =>
      \A r \in Requests : pc[r] \notin Over => serving /\ owner[r] = latest

\* The files before any was damaged, and after one was, when the key of r was dispatched:
\* in the latter the next load finds the key, and takes it for dispatched.
Intact(d, r) ==
    /\ Valid(d.cur) /\ Durable(d.cur, r)
    /\ Valid(d.prev) /\ HeldBy(d.prev, r)

Recoverable(d, r) ==
    \/ Valid(d.cur) /\ HeldBy(d.cur, r) /\ (d.latch \/ Durable(d.cur, r))
    \/ ~Valid(d.cur) /\ Valid(d.prev) /\ HeldBy(d.prev, r)

Secured(r) == IF damage = 0 THEN Intact(disk, r) ELSE Recoverable(disk, r)

\* The reservation is on disk before the boundary: it will be the older copy then.
Foreseen ==
    damage = 0 /\ unloads = 0 =>
      \A r \in Requests : pc[r] \in Before => Valid(disk.cur) /\ HeldBy(disk.cur, r)

Fenced ==
    damage <= 1 /\ unloads = 0 =>
      \A r \in Requests : r \in dispatched \/ pc[r] \in Beyond =>
         /\ Secured(r)
         /\ serving => Durable(mem[latest], r)

ReceiptsKept ==
    damage = 0 /\ unloads = 0 =>
      \A r \in Requests : answer[r] = "receipt" =>
         /\ Valid(disk.cur) /\ Receipted(disk.cur, r)
         /\ serving => Receipted(mem[latest], r)

DurableInv == Undamaged /\ Attended /\ Foreseen /\ Fenced /\ ReceiptsKept

IInv == TypeOK /\ ObjectInv /\ DurableInv

---------------------------------------------------------------------------
(* What the calls make of a journal.                                         *)

LEMMA HeldFinite ==
    ASSUME NEW journal
    PROVE  IsFiniteSet(Held(journal)) /\ Cardinality(Held(journal)) \in Nat
<1>1. Held(journal) \subseteq Keys
  BY DEF Held
<1> QED
  BY <1>1, FS_Subset, FS_CardinalityType, JournalAssumption

\* A journal that holds fewer keys, all with records, fits.
LEMMA FewerKeysFit ==
    ASSUME NEW journal \in Journals,
           NEW other \in [Keys -> Records \union {NoRecord}],
           Held(other) \subseteq Held(journal)
    PROVE  other \in Journals
<1>1. Cardinality(Held(other)) <= Cardinality(Held(journal))
  BY FS_Subset, HeldFinite
<1> QED
  BY <1>1, HeldFinite, JournalAssumption DEF Journals

LEMMA ReservedFits ==
    ASSUME NEW journal \in Journals, NEW k \in Keys, NEW f \in Fingerprints,
           NEW r \in Requests, MayReserve(journal, k)
    PROVE  Reserved(journal, k, f, r) \in Journals
<1> DEFINE new == Reserved(journal, k, f, r)
<1>1. [fp |-> f, state |-> "reserved", phase |-> "not_started", by |-> r] \in Records
  BY DEF Records, States, Phases, Consistent
<1>2. new \in [Keys -> Records \union {NoRecord}]
  BY <1>1 DEF Reserved, Journals
<1>3. Held(new) = Held(journal) \union {k} /\ k \notin Held(journal)
  BY <1>1, JournalAssumption DEF Held, Reserved, Journals, MayReserve
<1>4. Cardinality(Held(new)) = Cardinality(Held(journal)) + 1
  BY <1>3, FS_AddElement, HeldFinite
<1> QED
  BY <1>2, <1>4, HeldFinite, JournalAssumption DEF Journals, MayReserve

\* Marking and completing change a record that is there into another one.
LEMMA MarkedFits ==
    ASSUME NEW journal \in Journals, NEW k \in Keys, journal[k] # NoRecord
    PROVE  /\ MarkedPending(journal, k) \in Journals
           /\ MarkedDispatching(journal, k) \in Journals
           /\ Completed(journal, k) \in Journals
<1>1. journal \in [Keys -> Records \union {NoRecord}] /\ journal[k] \in Records
  BY DEF Journals
<1> DEFINE Rec(state, phase) == [journal[k] EXCEPT !.state = state, !.phase = phase]
<1>2. /\ Rec("pending", "not_started") \in Records
      /\ Rec("pending", "dispatching") \in Records
      /\ Rec("completed", "dispatched") \in Records
  BY <1>1 DEF Records, States, Phases, Consistent
<1>3. /\ MarkedPending(journal, k) = [journal EXCEPT ![k] = Rec("pending", "not_started")]
      /\ MarkedDispatching(journal, k) = [journal EXCEPT ![k] = Rec("pending", "dispatching")]
      /\ Completed(journal, k) = [journal EXCEPT ![k] = Rec("completed", "dispatched")]
  BY <1>1 DEF MarkedPending, MarkedDispatching, Completed
<1>4. ASSUME NEW rec \in Records PROVE [journal EXCEPT ![k] = rec] \in Journals
  BY <1>1, <1>4, FewerKeysFit DEF Held
<1> QED
  BY <1>2, <1>3, <1>4

LEMMA AbandonedFits ==
    ASSUME NEW journal \in Journals, NEW k \in Keys
    PROVE  Abandoned(journal, k) \in Journals
  BY FewerKeysFit DEF Abandoned, Held, Journals

LEMMA ReloadedType ==
    ASSUME NEW rec \in Records, NEW flagged \in BOOLEAN
    PROVE  /\ Reloaded(rec, flagged) \in Records \union {NoRecord}
           /\ Reloaded(rec, flagged) # NoRecord => Reloaded(rec, flagged).by = rec.by
           /\ rec.state = "completed" => Reloaded(rec, flagged) = rec
           /\ rec.phase # "not_started" =>
                Reloaded(rec, flagged) \in Records
                /\ Reloaded(rec, flagged).phase # "not_started"
  BY JournalAssumption DEF Reloaded, Released, Records, States, Phases, Consistent

LEMMA LoadedFits ==
    ASSUME NEW journal \in Journals, NEW flagged \in BOOLEAN
    PROVE  LoadedJournal(journal, flagged) \in Journals
<1>1. \A k \in Keys : journal[k] \in Records \union {NoRecord}
  BY DEF Journals
<1>2. Reloaded(NoRecord, flagged) = NoRecord
  BY DEF Reloaded
<1>3. LoadedJournal(journal, flagged) \in [Keys -> Records \union {NoRecord}]
  BY <1>1, <1>2, ReloadedType DEF LoadedJournal
<1>4. Held(LoadedJournal(journal, flagged)) \subseteq Held(journal)
  BY <1>2 DEF Held, LoadedJournal
<1> QED
  BY <1>3, <1>4, FewerKeysFit

LEMMA EmptyFits == EmptyJournal \in Journals
<1>1. Held(EmptyJournal) = {}
  BY DEF Held, EmptyJournal
<1> QED
  BY <1>1, FS_EmptySet, JournalAssumption DEF Journals, EmptyJournal

---------------------------------------------------------------------------
(* What saves and loads make of the disk.                                    *)

\* Any save of p, acknowledged or not.
Saves(d, p) == SaveAcks(d, p) \union SaveFailures(d, p)

LEMMA SaveFacts ==
    ASSUME NEW d \in Disks, NEW p \in Journals, NEW new \in Saves(d, p)
    PROVE  /\ new \in Disks
           /\ new.latch = d.latch
           /\ new.cur = d.cur \/ new.cur = p
           /\ Valid(new.prev) /\ ~Valid(d.prev) => Valid(d.cur)
           /\ new \in SaveAcks(d, p) => new.cur = p
  BY ActionsAssumption
  DEF Saves, SaveAcks, SaveFailures, Saved, BackedUp, Disks, Files, Valid, Payloads

\* A save keeps an undamaged disk undamaged.
LEMMA SaveUndamaged ==
    ASSUME NEW p \in Journals, TypeOK, Undamaged, disk' \in Saves(disk, p) \union {disk},
           damage' = damage
    PROVE  Undamaged'
<1>1. CASE disk' = disk
  BY <1>1 DEF Undamaged, Valid
<1>2. CASE disk' \in Saves(disk, p)
  BY <1>2, SaveFacts, ActionsAssumption DEF TypeOK, Undamaged, Valid, Payloads
<1> QED
  BY <1>1, <1>2

LEMMA LoadFacts ==
    ASSUME NEW d \in Disks
    PROVE  /\ \A a \in LoadAnswers(d) :
                /\ a.disk \in Disks /\ a.flagged \in BOOLEAN
                /\ a.kind = "value" => a.doc \in Journals
           /\ LoadCuts(d) \subseteq Disks
<1>1. /\ MovedAside(d) \in Disks /\ Latched(d) \in Disks /\ Restored(d) \in Disks
      /\ d.latch \in BOOLEAN
  BY DEF Latched, Restored, MovedAside, Loaded, Disks, Files
<1>2. LoadCuts(d) \subseteq Disks
  BY <1>1 DEF LoadCuts
<1>3. ASSUME NEW a \in LoadAnswers(d)
      PROVE  /\ a.disk \in Disks /\ a.flagged \in BOOLEAN
             /\ a.kind = "value" => a.doc \in Journals
  <2>1. CASE Valid(d.cur)
    <3>1. a = Answer("value", d.cur, d.latch, d)
      BY <1>3, <2>1 DEF LoadAnswers
    <3> QED
      BY <1>1, <2>1, <3>1 DEF Answer, Valid, Payloads
  <2>2. CASE ~Valid(d.cur) /\ Valid(d.prev)
    <3>1. \/ a = Answer("value", d.prev, TRUE, Restored(d))
          \/ a = Answer("error", Absent, d.latch, Latched(d))
      BY <1>3, <2>2 DEF LoadAnswers
    <3>2. CASE a = Answer("value", d.prev, TRUE, Restored(d))
      BY <1>1, <2>2, <3>2 DEF Answer, Valid, Payloads
    <3>3. CASE a = Answer("error", Absent, d.latch, Latched(d))
      BY <1>1, <3>3 DEF Answer
    <3> QED
      BY <3>1, <3>2, <3>3
  <2>3. CASE ~Valid(d.cur) /\ ~Valid(d.prev)
    <3>1. \/ a = Answer("none", Absent, d.latch, d)
          \/ a = Answer("error", Absent, d.latch, MovedAside(d))
      BY <1>3, <2>3 DEF LoadAnswers
    <3> QED
      BY <1>1, <3>1 DEF Answer
  <2> QED
    BY <2>1, <2>2, <2>3
<1> QED
  BY <1>2, <1>3

\* Without a damage a load answers the current file, unflagged, and changes nothing.
LEMMA LoadUndamaged ==
    ASSUME TypeOK, Undamaged, damage = 0
    PROVE  /\ \A a \in LoadAnswers(disk) :
                /\ a.disk = disk /\ ~a.flagged
                /\ Valid(disk.cur) => a.kind = "value" /\ a.doc = disk.cur
                /\ ~Valid(disk.cur) => a.kind = "none"
           /\ LoadCuts(disk) = {disk}
<1> USE ActionsAssumption
    DEF TypeOK, Undamaged, Disks, Files, Valid, Payloads
<1>1. CASE Valid(disk.cur)
  BY <1>1 DEF LoadAnswers, LoadCuts, Answer
<1>2. CASE ~Valid(disk.cur)
  <2>1. disk.cur = Absent /\ ~Valid(disk.prev)
    BY <1>2
  <2>2. MovedAside(disk) = disk
    BY <2>1 DEF MovedAside, Loaded
  <2> QED
    BY <1>2, <2>1, <2>2 DEF LoadAnswers, LoadCuts, Answer
<1> QED
  BY <1>1, <1>2

---------------------------------------------------------------------------
(* What a journal call leaves alone.                                         *)

Calls(r) == pc[r] \in CallPoints /\ (CallSucceeds(r) \/ CallFails(r))

LEMMA PayloadFits ==
    ASSUME TypeOK, Bookkeeping, NEW r \in Requests, CallAllowed(r)
    PROVE  CallPayload(r) \in Journals
<1>1. pc[r] # "idle"
  BY DEF CallAllowed
<1>2. key[r] \in Keys /\ fp[r] \in Fingerprints /\ Journal(r) \in Journals
  BY <1>1 DEF TypeOK, Bookkeeping, Journal
<1>3. CASE pc[r] = "reserve"
  BY <1>2, <1>3, ReservedFits DEF CallAllowed, CallPayload
<1>4. CASE pc[r] \in {"pending", "dispatching", "complete"}
  <2>1. Journal(r)[key[r]] # NoRecord
    BY <1>4 DEF CallAllowed, MayMark, MayComplete
  <2> QED
    BY <1>2, <1>4, <2>1, MarkedFits DEF CallPayload
<1>5. CASE pc[r] \in {"abandon", "late_reserve", "late_transition"}
  BY <1>2, <1>5, AbandonedFits DEF CallPayload
<1> QED
  BY <1>3, <1>4, <1>5 DEF CallAllowed

LEMMA CallTypes ==
    ASSUME TypeOK, Bookkeeping, NEW r \in Requests, CallSucceeds(r) \/ CallFails(r)
    PROVE  disk' \in Disks /\ mem' \in [Instances -> Journals]
<1>1. CASE CallSucceeds(r)
  BY <1>1, PayloadFits, SaveFacts DEF CallSucceeds, TypeOK, Saves
<1>2. CASE CallFails(r)
  BY <1>2, PayloadFits, SaveFacts DEF CallFails, TypeOK, Saves
<1> QED
  BY <1>1, <1>2

\* A call of r changes the record of its own key only, and no record that
\* another request holds.
LEMMA PayloadFrame ==
    ASSUME TypeOK, Bookkeeping, HoldersHold, NEW r \in Requests, CallAllowed(r),
           NEW s \in Requests \ {r}, key[s] \in Keys, HeldBy(Journal(r), s)
    PROVE  CallPayload(r)[key[s]] = Journal(r)[key[s]]
<1>1. pc[r] # "idle" /\ Journal(r) \in Journals
  BY DEF CallAllowed, TypeOK, Journal
<1>2. key[r] # key[s]
  <2>1. CASE pc[r] = "reserve"
    BY <2>1 DEF CallAllowed, MayReserve, HeldBy
  <2>2. CASE pc[r] \in Holding
    BY <2>2 DEF HoldersHold, HeldBy, Journal
  <2> QED
    BY <2>1, <2>2 DEF CallAllowed, Holding, Points, CallPoints
<1> QED
  BY <1>1, <1>2 DEF CallAllowed, CallPayload, Reserved, MarkedPending, MarkedDispatching,
     Completed, Abandoned, Journals

\* So does any journal that a call of r leaves in memory.
LEMMA CallFrame ==
    ASSUME TypeOK, Bookkeeping, HoldersHold, NEW r \in Requests,
           CallSucceeds(r) \/ CallFails(r),
           NEW s \in Requests \ {r}, key[s] \in Keys,
           NEW g \in Instances, HeldBy(mem[g], s)
    PROVE  mem'[g][key[s]] = mem[g][key[s]]
<1>1. CASE CallSucceeds(r) /\ g = owner[r]
  BY <1>1, PayloadFrame DEF CallSucceeds, TypeOK, Journal
<1>2. CASE CallSucceeds(r) /\ g # owner[r]
  BY <1>2 DEF CallSucceeds, TypeOK
<1>3. CASE CallFails(r)
  BY <1>3 DEF CallFails
<1> QED
  BY <1>1, <1>2, <1>3

---------------------------------------------------------------------------
(* The initial states.                                                       *)

LEMMA InitIInv == ASSUME Init PROVE IInv
<1>1. TypeOK
  <2>1. disk \in Disks
    BY DEF Init, NewDisk, Disks, Files
  <2>2. mem \in [Instances -> Journals]
    BY EmptyFits DEF Init
  <2>3. /\ pc \in [Requests -> Points] /\ answer \in [Requests -> AnswerKinds]
        /\ latest \in Instances /\ owner \in [Requests -> Instances]
        /\ setups \in 0..MaxSetups /\ unloads \in 0..MaxUnloads
        /\ damage \in 0..MaxDamage
    BY ActionsAssumption DEF Init, Points, CallPoints, AnswerKinds, Instances
  <2> QED
    BY <2>1, <2>2, <2>3 DEF TypeOK, Init
<1>2. ObjectInv
  BY ActionsAssumption
  DEF Init, ObjectInv, Bookkeeping, HoldersHold, DispatchesHeld, AtMostOncePerObject,
      Holding
<1>3. DurableInv
  BY ActionsAssumption
  DEF Init, DurableInv, Undamaged, Attended, Foreseen, Fenced, ReceiptsKept, Over, Before,
      Beyond, NewDisk, Valid, Payloads
<1> QED
  BY <1>1, <1>2, <1>3 DEF IInv

---------------------------------------------------------------------------
(* A step of one request, except its arrival: either it leaves disk and journals
   alone, or it hands one journal to the store.                              *)

StepOf(r) ==
    \/ Taken(r) \/ Advance(r) \/ AdvanceFails(r) \/ DeadlineExpires(r) \/ Prepare(r)
    \/ Dispatch(r) \/ ExecuteAnswers(r) \/ ExecuteFails(r) \/ Complete(r) \/ Abandon(r)
    \/ CompleteLate(r) \/ Cancelled(r)

Quiet(r) ==
    /\ disk' = disk /\ mem' = mem
    /\ pc'[r] \in Holding => pc[r] \in Holding
    /\ pc'[r] \in Before => pc[r] \in Before
    /\ pc'[r] \in Beyond => pc[r] \in Beyond
    /\ answer'[r] # "receipt"

Acknowledged(r, p) == disk' \in SaveAcks(disk, p) /\ mem' = [mem EXCEPT ![owner[r]] = p]

Writing(r, p) ==
    /\ p \in Journals
    /\ disk' \in Saves(disk, p) \union {disk}
    /\ mem' \in {mem, [mem EXCEPT ![owner[r]] = p]}
    /\ \A s \in Requests \ {r} :
         key[s] \in Keys /\ HeldBy(Journal(r), s) => p[key[s]] = Journal(r)[key[s]]
    /\ pc'[r] \in Holding => HeldBy(mem'[owner[r]], r)
    /\ r \in dispatched => Durable(p, r)
    /\ pc'[r] \in Before => HeldBy(p, r) /\ Acknowledged(r, p)
    /\ pc'[r] \in Beyond => pc[r] \in Before /\ Durable(p, r) /\ Acknowledged(r, p)
    /\ answer'[r] = "receipt" => Receipted(p, r) /\ Acknowledged(r, p)

LEMMA StepFrame ==
    ASSUME TypeOK, NEW r \in Requests, StepOf(r)
    PROVE  /\ UNCHANGED <<key, fp, bounded, owner, serving, latest, setups, unloads, damage>>
           /\ \A s \in Requests \ {r} :
                pc'[s] = pc[s] /\ answer'[s] = answer[s] /\ crossed'[s] = crossed[s]
           /\ dispatched' \ {r} = dispatched \ {r}
<1> USE DEF TypeOK, Goto, Finish, request, entryVars, requestVars
<1>1. CASE Taken(r) \/ Prepare(r) \/ Dispatch(r) \/ ExecuteAnswers(r) \/ ExecuteFails(r)
  BY <1>1 DEF Taken, Prepare, Dispatch, ExecuteAnswers, ExecuteFails
<1>2. CASE Advance(r) \/ AdvanceFails(r) \/ DeadlineExpires(r)
  BY <1>2 DEF Advance, AdvanceFails, DeadlineExpires
<1>3. CASE Complete(r) \/ Abandon(r) \/ CompleteLate(r) \/ Cancelled(r)
  BY <1>3 DEF Complete, Abandon, CompleteLate, Cancelled
<1> QED
  BY <1>1, <1>2, <1>3 DEF StepOf

LEMMA StepTypes ==
    ASSUME TypeOK, Bookkeeping, NEW r \in Requests, StepOf(r)
    PROVE  /\ pc' \in [Requests -> Points] /\ answer' \in [Requests -> AnswerKinds]
           /\ crossed' \in [Requests -> BOOLEAN] /\ dispatched' \in SUBSET Requests
           /\ source' \in [Requests -> Requests]
<1> USE DEF TypeOK, Goto, Finish, request, requestVars, Points, CallPoints, AnswerKinds
<1>1. CASE Taken(r)
  <2>1. Journal(r)[key[r]] \in Records
    BY <1>1 DEF Taken, Journal, Journals, Bookkeeping
  <2> QED
    BY <1>1, <2>1 DEF Taken, Existing, Records
<1>2. CASE Prepare(r) \/ Dispatch(r) \/ ExecuteAnswers(r) \/ ExecuteFails(r)
  BY <1>2 DEF Prepare, Dispatch, ExecuteAnswers, ExecuteFails
<1>3. CASE Advance(r) \/ AdvanceFails(r) \/ DeadlineExpires(r)
  BY <1>3 DEF Advance, AdvanceFails, DeadlineExpires, AfterCall
<1>4. CASE Complete(r) \/ Abandon(r) \/ CompleteLate(r) \/ Cancelled(r)
  BY <1>4 DEF Complete, Abandon, CompleteLate, Cancelled
<1> QED
  BY <1>1, <1>2, <1>3, <1>4 DEF StepOf

\* What a request that calls the journal knows of its payload.
LEMMA PayloadFacts ==
    ASSUME TypeOK, Bookkeeping, HoldersHold, NEW r \in Requests, CallAllowed(r)
    PROVE  LET p == CallPayload(r) IN
           /\ p \in Journals
           /\ \A s \in Requests \ {r} :
                key[s] \in Keys /\ HeldBy(Journal(r), s) => p[key[s]] = Journal(r)[key[s]]
           /\ pc[r] \notin {"abandon", "late_reserve", "late_transition"} => HeldBy(p, r)
           /\ pc[r] \in {"dispatching", "complete"} => Durable(p, r)
           /\ pc[r] = "complete" => Receipted(p, r)
<1> USE DEF HeldBy, Durable, Receipted
<1>1. CallPayload(r) \in Journals
  BY PayloadFits
<1>2. Journal(r) \in Journals /\ key[r] \in Keys
  BY DEF CallAllowed, TypeOK, Journal, Bookkeeping
<1>3. CASE pc[r] = "reserve"
  <2>1. CallPayload(r)[key[r]] = [fp |-> fp[r], state |-> "reserved",
                                  phase |-> "not_started", by |-> r]
    BY <1>2, <1>3 DEF CallPayload, Reserved, Journals
  <2>2. CallPayload(r)[key[r]] # NoRecord
    <3>1. fp[r] \in Fingerprints
      BY <1>3 DEF Bookkeeping
    <3> QED
      BY <2>1, <3>1, JournalAssumption DEF Records, States, Phases, Consistent
  <2> QED
    BY <1>1, <1>3, <2>1, <2>2, PayloadFrame
<1>4. CASE pc[r] \in {"pending", "dispatching", "complete"}
  <2>1. HeldBy(Journal(r), r) /\ Journal(r)[key[r]] \in Records
    BY <1>2, <1>4 DEF HoldersHold, Journal, Holding, Points, CallPoints, Journals
  <2>2. /\ CallPayload(r)[key[r]].by = r
        /\ pc[r] \in {"dispatching", "complete"} =>
             CallPayload(r)[key[r]].phase # "not_started"
        /\ pc[r] = "complete" => CallPayload(r)[key[r]].state = "completed"
    BY <1>2, <1>4, <2>1
    DEF CallPayload, MarkedPending, MarkedDispatching, Completed, Journals, Records
  <2>3. CallPayload(r)[key[r]] # NoRecord
    BY <1>1, <1>2, <1>4, <2>1, JournalAssumption
    DEF CallPayload, MarkedPending, MarkedDispatching, Completed, Journals, Records,
        States, Phases, Consistent
  <2> QED
    BY <1>1, <1>4, <2>2, <2>3, PayloadFrame
<1>5. CASE pc[r] \in {"abandon", "late_reserve", "late_transition"}
  BY <1>1, <1>5, PayloadFrame
<1> QED
  BY <1>3, <1>4, <1>5 DEF CallAllowed

\* A call that fails before its save changes nothing; any other one writes.
LEMMA CallWrites ==
    ASSUME TypeOK, Bookkeeping, HoldersHold, NEW r \in Requests,
           CallSucceeds(r) \/ CallFails(r), pc[r] \in CallPoints,
           pc'[r] \in Holding =>
             \/ pc[r] \in Holding /\ mem' = mem
             \/ HeldBy(CallPayload(r), r) /\ CallSucceeds(r),
           pc'[r] \in Before => HeldBy(CallPayload(r), r) /\ CallSucceeds(r),
           pc'[r] \in Beyond => pc[r] = "dispatching" /\ CallSucceeds(r),
           answer'[r] = "receipt" => pc[r] = "complete" /\ CallSucceeds(r)
    PROVE  Quiet(r) \/ \E p \in Journals : Writing(r, p)
<1>1. CASE ~CallAllowed(r)
  BY <1>1 DEF CallSucceeds, CallFails, Quiet, Before, Beyond, Holding, Points, CallPoints
<1>2. CASE CallAllowed(r)
  <2> DEFINE p == CallPayload(r)
  <2>1. /\ p \in Journals
        /\ \A s \in Requests \ {r} :
             key[s] \in Keys /\ HeldBy(Journal(r), s) => p[key[s]] = Journal(r)[key[s]]
        /\ pc[r] \in {"dispatching", "complete"} => Durable(p, r)
        /\ pc[r] = "complete" => Receipted(p, r)
    BY <1>2, PayloadFacts
  <2>2. disk' \in Saves(disk, p) \union {disk} /\ mem' \in {mem, [mem EXCEPT ![owner[r]] = p]}
    BY <1>2 DEF CallSucceeds, CallFails, Saves
  <2>3. CallSucceeds(r) => Acknowledged(r, p) /\ mem'[owner[r]] = p
    BY DEF CallSucceeds, Acknowledged, TypeOK
  <2>4. r \in dispatched => Durable(p, r)
    BY <2>1 DEF Bookkeeping, Beyond, CallPoints
  <2>5. pc'[r] \in Holding => HeldBy(mem'[owner[r]], r)
    BY <2>3 DEF HoldersHold
  <2>6. /\ pc'[r] \in Before => HeldBy(p, r)
        /\ pc'[r] \in Beyond => pc[r] \in Before
    BY DEF Before
  <2> HIDE DEF p
  <2>7. Writing(r, p)
    BY <2>1, <2>2, <2>3, <2>4, <2>5, <2>6 DEF Writing
  <2> QED
    BY <2>1, <2>7
<1> QED
  BY <1>1, <1>2

\* A call that raises, or is cancelled, and leads to a clean-up or the end.
LEMMA FailureWrites ==
    ASSUME TypeOK, Bookkeeping, HoldersHold, NEW r \in Requests,
           CallFails(r), pc[r] \in CallPoints, answer'[r] # "receipt",
           \/ pc'[r] = "done"
           \/ pc'[r] \in {"abandon", "late_transition"} /\ pc[r] # "reserve"
    PROVE  Quiet(r) \/ \E p \in Journals : Writing(r, p)
<1>1. pc'[r] \in Holding => pc[r] \in Holding /\ mem' = mem
  BY DEF CallFails, CallPoints, Holding, Points
<1>2. pc'[r] \notin Before /\ pc'[r] \notin Beyond
  BY DEF Before, Beyond
<1> QED
  BY <1>1, <1>2, CallWrites

LEMMA StepWrites ==
    ASSUME TypeOK, Bookkeeping, HoldersHold, NEW r \in Requests, StepOf(r)
    PROVE  Quiet(r) \/ \E p \in Journals : Writing(r, p)
<1> USE DEF TypeOK, Goto, Finish, request, requestVars
<1>1. CASE Taken(r)
  <2>1. Existing(Journal(r)[key[r]], fp[r]) # "receipt"
    BY DEF Existing
  <2> QED
    BY <1>1, <2>1 DEF Taken, Quiet, Holding, Before, Beyond
<1>2. CASE Prepare(r) \/ Dispatch(r) \/ ExecuteAnswers(r) \/ ExecuteFails(r)
  BY <1>2 DEF Prepare, Dispatch, ExecuteAnswers, ExecuteFails, Quiet, Holding, Points,
     CallPoints, Before, Beyond, Bookkeeping
<1>3. CASE Advance(r)
  <2>1. HeldBy(CallPayload(r), r)
    BY <1>3, PayloadFacts DEF Advance, AfterCall, CallSucceeds
  <2> QED
    BY <1>3, <2>1, CallWrites
    DEF Advance, AfterCall, CallPoints, Before, Beyond, Bookkeeping
<1>4. CASE AdvanceFails(r)
  <2>1. CallFails(r) /\ mem' = mem /\ pc[r] \in {"reserve", "pending", "dispatching"}
    BY <1>4 DEF AdvanceFails, CallFails, AfterCall
  <2>2. pc'[r] = IF pc[r] = "reserve" THEN "done" ELSE "abandon"
    BY <1>4 DEF AdvanceFails
  <2>3. answer'[r] # "receipt"
    BY <1>4, <2>1 DEF AdvanceFails, Bookkeeping
  <2> QED
    BY <2>1, <2>2, <2>3, FailureWrites DEF CallPoints
<1>5. CASE DeadlineExpires(r)
  <2>1. pc[r] \in {"reserve", "pending", "dispatching"} /\ answer'[r] = "failed"
    BY <1>5 DEF DeadlineExpires, AfterCall
  <2>2. CASE CallSucceeds(r) /\ pc'[r] \in {"late_reserve", "late_transition"}
    <3>1. HeldBy(CallPayload(r), r)
      BY <2>1, <2>2, PayloadFacts DEF CallSucceeds
    <3> QED
      BY <2>1, <2>2, <3>1, CallWrites DEF CallPoints, Before, Beyond
  <2>3. CASE CallFails(r) /\ pc'[r] = IF pc[r] = "reserve" THEN "done" ELSE "late_transition"
    BY <2>1, <2>3, FailureWrites DEF CallPoints
  <2> QED
    BY <1>5, <2>2, <2>3 DEF DeadlineExpires
<1>6. CASE Complete(r)
  <2>1. pc[r] = "complete" /\ answer[r] # "receipt"
    BY <1>6 DEF Complete, Bookkeeping
  <2>2. CASE CallSucceeds(r) /\ pc'[r] = "done"
    BY <2>1, <2>2, CallWrites DEF CallPoints, Holding, Before, Beyond
  <2>3. CASE CallFails(r) /\ pc'[r] \in {"done", "abandon"} /\ answer'[r] # "receipt"
    BY <2>1, <2>3, FailureWrites DEF CallPoints
  <2> QED
    BY <1>6, <2>1, <2>2, <2>3 DEF Complete
<1>7. CASE Abandon(r)
  BY <1>7, CallWrites DEF Abandon, CallPoints, Holding, Points, Before, Beyond
<1>8. CASE CompleteLate(r)
  <2> DEFINE p == Completed(Journal(r), key[r])
  <2>1. /\ Journal(r) \in Journals /\ key[r] \in Keys /\ HeldBy(Journal(r), r)
        /\ Journal(r)[key[r]] \in Records
    BY <1>8 DEF CompleteLate, Journal, Bookkeeping, MayComplete, HeldBy, Journals
  <2>2. p \in Journals
    BY <2>1, MarkedFits DEF HeldBy
  <2>3. Durable(p, r)
    <3>1. p[key[r]].by = r /\ p[key[r]].phase = "dispatched"
      BY <2>1 DEF Completed, Journals, Records, HeldBy
    <3>2. p[key[r]] # NoRecord
      BY <2>1, <2>2, JournalAssumption DEF Completed, Journals, Records, Consistent,
         States, Phases
    <3> QED
      BY <3>1, <3>2 DEF Durable, HeldBy
  <2>4. \A s \in Requests \ {r} :
          key[s] \in Keys /\ HeldBy(Journal(r), s) => p[key[s]] = Journal(r)[key[s]]
    BY <2>1 DEF HeldBy, Completed, Journals
  <2>5. disk' \in Saves(disk, p) \union {disk} /\ mem' \in {mem, [mem EXCEPT ![owner[r]] = p]}
    BY <1>8 DEF CompleteLate, Saves
  <2> HIDE DEF p
  <2>6. Writing(r, p)
    BY <1>8, <2>2, <2>3, <2>4, <2>5 DEF CompleteLate, Writing, Holding, Before, Beyond
  <2> QED
    BY <2>2, <2>6
<1>9. CASE Cancelled(r)
  <2>1. CASE pc[r] \in CallPoints /\ (CallSucceeds(r) \/ CallFails(r))
    BY <1>9, <2>1, CallWrites
    DEF Cancelled, CallPoints, Holding, Points, Before, Beyond, Bookkeeping
  <2>2. CASE UNCHANGED <<disk, mem>>
    BY <1>9, <2>2 DEF Cancelled, Quiet, Holding, Points, CallPoints, Before, Beyond, Bookkeeping
  <2> QED
    BY <1>9, <2>1, <2>2 DEF Cancelled
<1> QED
  BY <1>1, <1>2, <1>3, <1>4, <1>5, <1>6, <1>7, <1>8, <1>9 DEF StepOf

---------------------------------------------------------------------------
(* Steps of a request keep the object invariant.                             *)

\* The records that other requests hold stay.
LEMMA OthersKeep ==
    ASSUME TypeOK, Bookkeeping, NEW r \in Requests,
           Quiet(r) \/ \E p \in Journals : Writing(r, p),
           NEW s \in Requests \ {r}, key[s] \in Keys,
           NEW g \in Instances, HeldBy(mem[g], s)
    PROVE  mem'[g][key[s]] = mem[g][key[s]]
<1>1. CASE Quiet(r)
  BY <1>1 DEF Quiet
<1>2. ASSUME NEW p \in Journals, Writing(r, p)
      PROVE  mem'[g][key[s]] = mem[g][key[s]]
  <2>1. CASE mem' = mem
    BY <2>1
  <2>2. CASE mem' = [mem EXCEPT ![owner[r]] = p] /\ g = owner[r]
    BY <1>2, <2>2 DEF Writing, TypeOK, Journal
  <2>3. CASE mem' = [mem EXCEPT ![owner[r]] = p] /\ g # owner[r]
    BY <2>3 DEF TypeOK
  <2> QED
    BY <1>2, <2>1, <2>2, <2>3 DEF Writing
<1> QED
  BY <1>1, <1>2

LEMMA StepBookkeeping ==
    ASSUME TypeOK, Bookkeeping, HoldersHold, NEW r \in Requests, StepOf(r)
    PROVE  Bookkeeping'
<1> USE DEF TypeOK, Goto, Finish, request, entryVars, requestVars, Bookkeeping
<1>1. CASE Taken(r)
  <2>1. Existing(Journal(r)[key[r]], fp[r]) # "receipt"
    BY DEF Existing
  <2> QED
    BY <1>1, <2>1 DEF Taken, Beyond
<1>2. CASE Prepare(r) \/ Dispatch(r) \/ ExecuteAnswers(r) \/ ExecuteFails(r)
  BY <1>2 DEF Prepare, Dispatch, ExecuteAnswers, ExecuteFails, Beyond
<1>3. CASE Advance(r)
  BY <1>3 DEF Advance, AfterCall, Beyond
<1>4. CASE AdvanceFails(r)
  BY <1>4 DEF AdvanceFails, AfterCall, Beyond
<1>5. CASE DeadlineExpires(r)
  BY <1>5 DEF DeadlineExpires, AfterCall, Beyond
<1>6. CASE Complete(r) \/ Abandon(r)
  BY <1>6 DEF Complete, Abandon, Beyond
<1>7. CASE CompleteLate(r)
  BY <1>7 DEF CompleteLate
<1>8. CASE Cancelled(r)
  <2>1. /\ pc[r] \notin {"idle", "done"} /\ pc'[r] \in {"unattended", "done"}
        /\ \A s \in Requests \ {r} : pc'[s] = pc[s]
        /\ UNCHANGED <<key, fp, owner, latest, serving, setups, crossed, dispatched, answer>>
    BY <1>8 DEF Cancelled, CallPoints
  <2> QED
    BY <2>1 DEF Beyond
<1> QED
  BY <1>1, <1>2, <1>3, <1>4, <1>5, <1>6, <1>7, <1>8 DEF StepOf

\* What is dispatched anew is dispatched by the holder of its key.
LEMMA StepDispatches ==
    ASSUME TypeOK, Bookkeeping, HoldersHold, NEW r \in Requests, StepOf(r)
    PROVE  \/ dispatched' = dispatched
           \/ /\ dispatched' = dispatched \union {r}
              /\ pc[r] \in {"execute", "unattended"} /\ HeldBy(mem[owner[r]], r)
              /\ mem' = mem /\ pc' = pc
<1>1. CASE Dispatch(r)
  BY <1>1 DEF Dispatch, HoldersHold, Holding, Points
<1>2. CASE ~Dispatch(r)
  BY <1>2 DEF StepOf, Taken, Prepare, ExecuteAnswers, ExecuteFails, Advance, AdvanceFails,
     DeadlineExpires, Complete, Abandon, CompleteLate, Cancelled, requestVars
<1> QED
  BY <1>1, <1>2

LEMMA StepNotOver ==
    ASSUME NEW r \in Requests, StepOf(r), pc'[r] \notin Over PROVE pc[r] \notin Over
  BY DEF StepOf, Taken, Advance, AdvanceFails, DeadlineExpires, Prepare, Dispatch,
     ExecuteAnswers, ExecuteFails, Complete, Abandon, CompleteLate, Cancelled,
     AfterCall, CallPoints, Goto, Finish, requestVars, Over

LEMMA StepObject ==
    ASSUME TypeOK, ObjectInv, NEW r \in Requests, StepOf(r)
    PROVE  ObjectInv'
<1> USE DEF ObjectInv
<1>1. Bookkeeping'
  BY StepBookkeeping
<1>2. /\ UNCHANGED <<key, owner, serving, latest>>
      /\ \A s \in Requests \ {r} : pc'[s] = pc[s]
      /\ Quiet(r) \/ \E p \in Journals : Writing(r, p)
  BY StepFrame, StepWrites
<1>3. \A s \in Requests \ {r} :
        key[s] \in Keys /\ HeldBy(mem[owner[s]], s) => HeldBy(mem'[owner[s]], s)
  BY <1>2, OthersKeep DEF HeldBy, TypeOK
<1>4. HoldersHold'
  <2> SUFFICES ASSUME NEW s \in Requests, pc'[s] \in Holding
               PROVE  HeldBy(mem[owner[s]], s)'
    BY DEF HoldersHold
  <2>1. HeldBy(mem'[owner[s]], s)
    <3>1. CASE s # r
      BY <1>2, <1>3, <3>1 DEF HoldersHold, Bookkeeping, Holding
    <3>2. CASE s = r
      BY <1>2, <3>2 DEF Quiet, Writing, HoldersHold
    <3> QED
      BY <3>1, <3>2
  <2> QED
    BY <1>2, <2>1 DEF HeldBy
<1>5. \A g \in Instances : Dead(g) => Dead(g)'
  BY <1>2, StepNotOver DEF Dead
<1>6. DispatchesHeld'
  <2> SUFFICES ASSUME NEW s \in dispatched'
               PROVE  (HeldBy(mem[owner[s]], s) \/ Dead(owner[s]))'
    BY DEF DispatchesHeld
  <2>1. s \in Requests /\ owner'[s] = owner[s] /\ owner[s] \in Instances
    BY <1>2, StepTypes DEF TypeOK
  <2>2. CASE s \in dispatched /\ Dead(owner[s])
    BY <1>5, <2>1, <2>2
  <2>3. CASE s \in dispatched /\ HeldBy(mem[owner[s]], s)
    <3>1. key[s] \in Keys
      BY <2>1, <2>3 DEF Bookkeeping, Beyond
    <3>2. HeldBy(mem'[owner[s]], s)
      <4>1. CASE s # r
        BY <1>3, <2>1, <2>3, <3>1, <4>1
      <4>2. CASE s = r
        BY <1>2, <2>3, <4>2 DEF Quiet, Writing, Durable, TypeOK
      <4> QED
        BY <4>1, <4>2
    <3> QED
      BY <1>2, <3>2 DEF HeldBy
  <2>4. CASE s \notin dispatched
    BY <1>2, <2>4, StepDispatches DEF HeldBy
  <2> QED
    BY <2>2, <2>3, <2>4 DEF DispatchesHeld
<1>7. AtMostOncePerObject'
  <2>1. CASE dispatched' = dispatched
    BY <1>2, <2>1 DEF AtMostOncePerObject
  <2>2. CASE /\ dispatched' = dispatched \union {r}
             /\ pc[r] \in {"execute", "unattended"} /\ HeldBy(mem[owner[r]], r)
    <3>1. ASSUME NEW s \in dispatched, key[s] = key[r], owner[s] = owner[r] PROVE s = r
      BY <2>2, <3>1 DEF DispatchesHeld, Dead, Over, HeldBy
    <3> QED
      BY <1>2, <2>2, <3>1 DEF AtMostOncePerObject
  <2> QED
    BY <2>1, <2>2, StepDispatches
<1> QED
  BY <1>1, <1>4, <1>6, <1>7

---------------------------------------------------------------------------
(* So do arrivals and the steps of the entry, the process and the files.     *)

\* The entry alone changes: no request moves, and no journal in use does.
EntryStep ==
    /\ UNCHANGED <<pc, key, fp, owner, crossed, answer, dispatched>>
    /\ \/ UNCHANGED <<serving, latest, mem>> /\ setups' >= setups
       \/ serving' = FALSE /\ UNCHANGED <<latest, mem, setups>>
       \/ /\ serving' = TRUE /\ latest' = latest + 1 /\ setups' = setups + 1
          /\ \A g \in Instances \ {latest'} : mem'[g] = mem[g]

LEMMA DispatchedFacts ==
    ASSUME TypeOK, Bookkeeping, NEW r \in dispatched
    PROVE  r \in Requests /\ pc[r] # "idle" /\ key[r] \in Keys /\ owner[r] \in 1..latest
<1>1. r \in Requests /\ crossed[r]
  BY DEF TypeOK, Bookkeeping
<1>2. pc[r] # "idle"
  BY <1>1 DEF Bookkeeping, Beyond
<1> QED
  BY <1>1, <1>2 DEF Bookkeeping

LEMMA EntryObject ==
    ASSUME TypeOK, TypeOK', ObjectInv, EntryStep PROVE ObjectInv'
<1> USE DEF ObjectInv, EntryStep
<1>1. Bookkeeping'
  BY DEF Bookkeeping, TypeOK, Instances
<1>2. \A r \in Requests : pc[r] # "idle" => mem'[owner[r]] = mem[owner[r]]
  BY DEF Bookkeeping, TypeOK, Instances
<1>3. HoldersHold'
  BY <1>2 DEF HoldersHold, HeldBy, Holding
<1>4. \A g \in Instances : Dead(g) => Dead(g)'
  BY DEF Dead, TypeOK, Instances
<1>5. DispatchesHeld'
  <2> SUFFICES ASSUME NEW r \in dispatched
               PROVE  (HeldBy(mem[owner[r]], r) \/ Dead(owner[r]))'
    BY DEF DispatchesHeld
  <2>1. r \in Requests /\ pc[r] # "idle" /\ owner[r] \in Instances
    BY DEF TypeOK, Bookkeeping, Beyond
  <2> QED
    BY <1>2, <1>4, <2>1 DEF DispatchesHeld, HeldBy
<1>6. AtMostOncePerObject'
  BY DEF AtMostOncePerObject
<1> QED
  BY <1>1, <1>3, <1>5, <1>6

LEMMA ArriveObject ==
    ASSUME TypeOK, ObjectInv, NEW r \in Requests, Arrive(r) PROVE TypeOK' /\ ObjectInv'
<1> USE DEF ObjectInv
<1>1. /\ serving /\ pc[r] = "idle" /\ pc' = [pc EXCEPT ![r] = "reserve"]
      /\ owner' = [owner EXCEPT ![r] = latest]
      /\ \A s \in Requests \ {r} : key'[s] = key[s] /\ fp'[s] = fp[s]
      /\ key'[r] \in Keys /\ fp'[r] \in Fingerprints
      /\ UNCHANGED <<disk, mem, damage, entryVars, crossed, answer, source, dispatched>>
  BY DEF Arrive, Goto, TypeOK
<1>2. r \notin dispatched
  BY <1>1 DEF Bookkeeping, Beyond
<1>3. TypeOK'
  <2>1. /\ key' \in [Requests -> Keys \union {NoKey}]
        /\ fp' \in [Requests -> Fingerprints \union {NoFp}]
        /\ bounded' \in [Requests -> BOOLEAN]
    BY DEF Arrive, TypeOK
  <2>2. pc' \in [Requests -> Points] /\ owner' \in [Requests -> Instances]
    BY <1>1 DEF TypeOK, Points, CallPoints
  <2> QED
    BY <1>1, <2>1, <2>2 DEF TypeOK, entryVars
<1>4. Bookkeeping'
  BY <1>1 DEF Bookkeeping, TypeOK, Instances, Beyond, entryVars
<1>5. HoldersHold'
  BY <1>1 DEF HoldersHold, HeldBy, Holding, TypeOK
<1>6. \A g \in Instances : Dead(g) => Dead(g)'
  BY <1>1 DEF Dead, TypeOK, entryVars, Over
<1>7. \A s \in dispatched : s \in Requests /\ s # r /\ key'[s] = key[s] /\ owner'[s] = owner[s]
  BY <1>1, <1>2 DEF TypeOK
<1>8. DispatchesHeld'
  <2> SUFFICES ASSUME NEW s \in dispatched
               PROVE  (HeldBy(mem[owner[s]], s) \/ Dead(owner[s]))'
    BY <1>1 DEF DispatchesHeld
  <2> QED
    BY <1>1, <1>6, <1>7 DEF DispatchesHeld, HeldBy, TypeOK
<1>9. AtMostOncePerObject'
  BY <1>1, <1>7 DEF AtMostOncePerObject
<1> QED
  BY <1>3, <1>4, <1>5, <1>8, <1>9

LEMMA CrashObject ==
    ASSUME TypeOK, ObjectInv, Crash PROVE TypeOK' /\ ObjectInv'
<1> USE DEF ObjectInv
<1>1. /\ serving' = FALSE /\ mem' = [g \in Instances |-> EmptyJournal]
      /\ pc' = [r \in Requests |-> IF pc[r] = "idle" THEN "idle" ELSE "done"]
      /\ UNCHANGED <<damage, latest, setups, unloads, key, fp, bounded, owner, crossed,
                     answer, source, dispatched>>
  BY DEF Crash, request
<1>2. disk' \in Disks
  BY PayloadFits, SaveFacts DEF Crash, TypeOK, Saves
<1>3. TypeOK'
  BY <1>1, <1>2, EmptyFits DEF TypeOK, Points
<1>4. Bookkeeping'
  BY <1>1 DEF Bookkeeping, TypeOK, Beyond
<1>5. HoldersHold'
  BY <1>1 DEF HoldersHold, Holding
<1>6. DispatchesHeld'
  <2>1. \A r \in dispatched : r \in Requests /\ owner[r] <= latest
    BY DispatchedFacts DEF TypeOK, Instances
  <2>2. \A r \in Requests : pc'[r] \in Over
    BY <1>1 DEF Over
  <2> QED
    BY <1>1, <2>1, <2>2 DEF DispatchesHeld, Dead
<1>7. AtMostOncePerObject'
  BY <1>1 DEF AtMostOncePerObject
<1> QED
  BY <1>3, <1>4, <1>5, <1>6, <1>7

LEMMA SetupObject ==
    ASSUME TypeOK, ObjectInv, Setup PROVE TypeOK' /\ ObjectInv'
<1>1. /\ ~serving /\ setups' = setups + 1 /\ setups < MaxSetups
      /\ UNCHANGED <<damage, unloads, pc, key, fp, bounded, owner, crossed, answer,
                     source, dispatched>>
  BY DEF Setup, requestVars
<1>2. PICK a \in LoadAnswers(disk) :
        LET persisted == IF a.kind = "value" THEN a.doc ELSE EmptyJournal
            journal == LoadedJournal(persisted, a.flagged)
        IN  /\ disk' \in {a.disk} \union Saves(a.disk, journal)
            /\ \/ /\ serving' = TRUE /\ latest' = latest + 1
                  /\ mem' = [mem EXCEPT ![latest + 1] = journal]
               \/ UNCHANGED <<serving, latest, mem>>
  BY DEF Setup, Saves
<1> DEFINE persisted == IF a.kind = "value" THEN a.doc ELSE EmptyJournal
           journal == LoadedJournal(persisted, a.flagged)
<1>3. a.disk \in Disks /\ journal \in Journals
  BY LoadFacts, LoadedFits, EmptyFits DEF TypeOK
<1>4. disk' \in Disks
  BY <1>2, <1>3, SaveFacts
<1>5. latest + 1 \in Instances
  BY <1>1, ActionsAssumption DEF ObjectInv, Bookkeeping, TypeOK, Instances
<1> HIDE DEF journal, persisted
<1>6. TypeOK'
  <2>1. setups' \in 0..MaxSetups
    BY <1>1, ActionsAssumption DEF TypeOK
  <2>2. \/ serving' = TRUE /\ latest' = latest + 1 /\ mem' = [mem EXCEPT ![latest + 1] = journal]
        \/ UNCHANGED <<serving, latest, mem>>
    BY <1>2 DEF journal, persisted
  <2>3. mem \in [Instances -> Journals] /\ serving \in BOOLEAN /\ latest \in Instances
    BY DEF TypeOK
  <2>4. serving' \in BOOLEAN /\ latest' \in Instances /\ mem' \in [Instances -> Journals]
    BY <1>3, <1>5, <2>2, <2>3
  <2> QED
    BY <1>1, <1>4, <2>1, <2>4 DEF TypeOK
<1>7. EntryStep
  BY <1>1, <1>2, <1>5 DEF EntryStep, TypeOK
<1> QED
  BY <1>6, <1>7, EntryObject

LEMMA WorldObject ==
    ASSUME TypeOK, ObjectInv, SetupCut \/ Unload \/ DamageFile
    PROVE  TypeOK' /\ ObjectInv'
<1>1. TypeOK'
  <2>1. CASE SetupCut
    BY <2>1, LoadFacts, ActionsAssumption DEF SetupCut, requestVars, TypeOK
  <2>2. CASE Unload
    <3>1. unloads' \in 0..MaxUnloads
      BY <2>2, ActionsAssumption DEF Unload, TypeOK
    <3> QED
      BY <2>2, <3>1 DEF Unload, requestVars, TypeOK
  <2>3. CASE DamageFile
    <3>1. disk' \in Disks
      BY <2>3, ActionsAssumption DEF DamageFile, TypeOK, Disks, Files
    <3> QED
      BY <2>3, <3>1, ActionsAssumption DEF DamageFile, entryVars, requestVars, TypeOK
  <2> QED
    BY <2>1, <2>2, <2>3
<1>2. EntryStep
  BY DEF SetupCut, Unload, DamageFile, EntryStep, entryVars, requestVars, TypeOK
<1> QED
  BY <1>1, <1>2, EntryObject

LEMMA StepTypeOK ==
    ASSUME TypeOK, ObjectInv, NEW r \in Requests, StepOf(r) PROVE TypeOK'
<1> USE DEF ObjectInv
<1>1. disk' \in Disks /\ mem' \in [Instances -> Journals]
  <2>1. CASE Quiet(r)
    BY <2>1 DEF Quiet, TypeOK
  <2>2. ASSUME NEW p \in Journals, Writing(r, p)
        PROVE  disk' \in Disks /\ mem' \in [Instances -> Journals]
    BY <2>2, SaveFacts DEF Writing, TypeOK
  <2> QED
    BY <2>1, <2>2, StepWrites
<1> QED
  BY <1>1, StepFrame, StepTypes DEF TypeOK

LEMMA NextObject == TypeOK /\ ObjectInv /\ [Next]_vars => TypeOK' /\ ObjectInv'
<1> SUFFICES ASSUME TypeOK, ObjectInv, [Next]_vars PROVE TypeOK' /\ ObjectInv'
    OBVIOUS
<1>1. CASE UNCHANGED vars
  BY <1>1 DEF vars, entryVars, requestVars, TypeOK, ObjectInv, Bookkeeping, HoldersHold,
     DispatchesHeld, AtMostOncePerObject, HeldBy, Dead
<1>2. ASSUME NEW r \in Requests, Arrive(r) PROVE TypeOK' /\ ObjectInv'
  BY <1>2, ArriveObject
<1>3. ASSUME NEW r \in Requests, StepOf(r) PROVE TypeOK' /\ ObjectInv'
  BY <1>3, StepTypeOK, StepObject
<1>4. CASE Crash
  BY <1>4, CrashObject
<1>5. CASE Setup
  BY <1>5, SetupObject
<1>6. CASE SetupCut \/ Unload \/ DamageFile
  BY <1>6, WorldObject
<1> QED
  BY <1>1, <1>2, <1>3, <1>4, <1>5, <1>6 DEF Next, StepOf

LEMMA ObjectInvariance == Spec => [](TypeOK /\ ObjectInv)
<1>1. Init => TypeOK /\ ObjectInv
  BY InitIInv DEF IInv
<1> QED
  BY <1>1, NextObject, PTL DEF Spec

\* Every variable keeps its type: whatever is called, cancelled, loaded or lost,
\* every journal in memory and every valid file is one that the validator accepts,
\* within its capacity.
THEOREM TypeCorrect == Spec => []TypeOK
  BY ObjectInvariance, PTL

\* Requests that work with one journal object dispatch a key once, for any number
\* of requests, keys, set-ups and unloads and whatever happens to the files.
THEOREM OncePerObject == Spec => []AtMostOncePerObject
  BY ObjectInvariance, PTL DEF ObjectInv

---------------------------------------------------------------------------
(* Whose records there are: what a replay and a load find in the journal.    *)

\* The request that reserved a record of k: it is past its reservation, and was not
\* answered from the journal.
Author(rec, k) ==
    LET s == rec.by IN
    /\ key[s] = k /\ fp[s] = rec.fp
    /\ pc[s] \notin {"idle", "reserve"}
    /\ answer[s] \in {"none", "failed", "receipt"}

Authored(journal) == \A k \in Held(journal) : Author(journal[k], k)

\* A record in memory is completed by a request that is over, or was loaded; a load
\* leaves no reservation that never reached the boundary.
Placed(rec, g) ==
    /\ rec.state = "completed" /\ owner[rec.by] = g => pc[rec.by] = "done"
    /\ Released(rec) => owner[rec.by] = g

\* The journals on disk.
Docs(d) == {d.cur, d.prev} \intersect Journals

RecordsInv ==
    /\ \A r \in Requests : pc[r] \in {"idle", "reserve"} => answer[r] = "none"
    /\ \A journal \in Docs(disk) : Authored(journal)
    /\ \A g \in Instances : /\ Authored(mem[g])
                            /\ \A k \in Held(mem[g]) : Placed(mem[g][k], g)

\* What a replay rests on stays: the other request and its record do not change.
Replayed ==
    \A r \in Requests : answer[r] = "replay" =>
       LET s == source[r] IN
         /\ s # r /\ pc[r] = "done"
         /\ pc[s] \notin {"idle", "reserve"} /\ answer[s] \in {"none", "failed", "receipt"}
         /\ key[s] = key[r] /\ fp[s] = fp[r]
         /\ owner[s] = owner[r] => pc[s] = "done"

ReplayInv == RecordsInv /\ Replayed

LEMMA SaveDocs ==
    ASSUME NEW d \in Disks, NEW p \in Journals, NEW new \in Saves(d, p)
    PROVE  Docs(new) \subseteq Docs(d) \union {p}
  BY DEF Docs, Saves, SaveAcks, SaveFailures, Saved, BackedUp, Disks

LEMMA LoadDocs ==
    ASSUME NEW d \in Disks
    PROVE  /\ \A a \in LoadAnswers(d) : /\ Docs(a.disk) \subseteq Docs(d)
                                        /\ a.kind = "value" => a.doc \in Docs(d)
           /\ \A new \in LoadCuts(d) : Docs(new) \subseteq Docs(d)
<1>1. /\ Docs(MovedAside(d)) \subseteq Docs(d) /\ Docs(Latched(d)) \subseteq Docs(d)
      /\ Docs(Restored(d)) \subseteq Docs(d)
  BY ActionsAssumption DEF Docs, Restored, Latched, MovedAside, Loaded, Disks, Payloads
<1>2. CASE Valid(d.cur)
  BY <1>2 DEF LoadAnswers, LoadCuts, Answer, Valid, Payloads, Docs
<1>3. CASE ~Valid(d.cur) /\ Valid(d.prev)
  <2>1. /\ LoadAnswers(d) = {Answer("value", d.prev, TRUE, Restored(d)),
                             Answer("error", Absent, d.latch, Latched(d))}
        /\ LoadCuts(d) = {d, MovedAside(d), Latched(d), Restored(d)}
    BY <1>3 DEF LoadAnswers, LoadCuts
  <2>2. d.prev \in Docs(d)
    BY <1>3 DEF Docs, Valid, Payloads
  <2> QED
    BY <1>1, <2>1, <2>2 DEF Answer
<1>4. CASE ~Valid(d.cur) /\ ~Valid(d.prev)
  BY <1>1, <1>4 DEF LoadAnswers, LoadCuts, Answer
<1> QED
  BY <1>2, <1>3, <1>4

\* A load keeps the author of a record, and no reservation that was not used.
LEMMA ReloadedAuthor ==
    ASSUME NEW rec \in Records \union {NoRecord}, NEW flagged \in BOOLEAN,
           Reloaded(rec, flagged) # NoRecord
    PROVE  /\ rec # NoRecord
           /\ Reloaded(rec, flagged).by = rec.by /\ Reloaded(rec, flagged).fp = rec.fp
           /\ ~Released(Reloaded(rec, flagged))
  BY DEF Reloaded, Released, Records, States, Phases, Consistent

\* A call changes the record of its own key, and leaves there one of its own.
LEMMA PayloadRecords ==
    ASSUME TypeOK, Bookkeeping, HoldersHold, NEW r \in Requests, CallAllowed(r)
    PROVE  LET p == CallPayload(r) IN
           /\ \A k \in Keys \ {key[r]} : p[k] = Journal(r)[k]
           /\ p[key[r]] # NoRecord =>
                /\ p[key[r]].by = r
                /\ \/ pc[r] = "reserve" /\ p[key[r]].fp = fp[r]
                   \/ HeldBy(Journal(r), r) /\ p[key[r]].fp = Journal(r)[key[r]].fp
                /\ p[key[r]].state = "completed" => pc[r] = "complete"
<1>1. Journal(r) \in Journals /\ key[r] \in Keys
  BY DEF CallAllowed, TypeOK, Journal, Bookkeeping
<1>2. CASE pc[r] = "reserve"
  BY <1>1, <1>2 DEF CallPayload, Reserved, Journals
<1>3. CASE pc[r] \in {"pending", "dispatching", "complete"}
  <2>1. HeldBy(Journal(r), r) /\ Journal(r)[key[r]] \in Records
    BY <1>1, <1>3 DEF HoldersHold, Journal, Holding, Points, CallPoints, Journals, HeldBy
  <2> QED
    BY <1>1, <1>3, <2>1
    DEF CallPayload, MarkedPending, MarkedDispatching, Completed, Journals, Records, HeldBy
<1>4. CASE pc[r] \in {"abandon", "late_reserve", "late_transition"}
  BY <1>1, <1>4 DEF CallPayload, Abandoned, Journals
<1> QED
  BY <1>2, <1>3, <1>4 DEF CallAllowed

\* A journal that a step of r writes, seen record by record.
Entering(r, p) ==
    /\ p \in Journals
    /\ disk' \in Saves(disk, p) \union {disk}
    /\ mem' \in {mem, [mem EXCEPT ![owner[r]] = p]}
    /\ \A k \in Keys \ {key[r]} : p[k] = Journal(r)[k]
    /\ p[key[r]] # NoRecord =>
         /\ p[key[r]].by = r
         /\ \/ pc[r] = "reserve" /\ p[key[r]].fp = fp[r]
            \/ HeldBy(Journal(r), r) /\ p[key[r]].fp = Journal(r)[key[r]].fp
         /\ p[key[r]].state = "completed" /\ mem' # mem => pc'[r] = "done"

LEMMA CallEnters ==
    ASSUME TypeOK, Bookkeeping, HoldersHold, NEW r \in Requests,
           CallSucceeds(r) \/ CallFails(r),
           pc[r] = "complete" /\ mem' # mem => pc'[r] = "done"
    PROVE  UNCHANGED <<disk, mem>> \/ \E p \in Journals : Entering(r, p)
<1>1. CASE ~CallAllowed(r)
  BY <1>1 DEF CallSucceeds, CallFails
<1>2. CASE CallAllowed(r)
  <2> DEFINE p == CallPayload(r)
  <2>1. /\ p \in Journals
        /\ \A k \in Keys \ {key[r]} : p[k] = Journal(r)[k]
        /\ p[key[r]] # NoRecord =>
             /\ p[key[r]].by = r
             /\ \/ pc[r] = "reserve" /\ p[key[r]].fp = fp[r]
                \/ HeldBy(Journal(r), r) /\ p[key[r]].fp = Journal(r)[key[r]].fp
             /\ p[key[r]].state = "completed" => pc[r] = "complete"
    BY <1>2, PayloadFits, PayloadRecords
  <2>2. disk' \in Saves(disk, p) \union {disk} /\ mem' \in {mem, [mem EXCEPT ![owner[r]] = p]}
    BY <1>2 DEF CallSucceeds, CallFails, Saves
  <2> HIDE DEF p
  <2>3. Entering(r, p)
    BY <2>1, <2>2 DEF Entering
  <2> QED
    BY <2>1, <2>3
<1> QED
  BY <1>1, <1>2

LEMMA StepEnters ==
    ASSUME TypeOK, Bookkeeping, HoldersHold, NEW r \in Requests, StepOf(r)
    PROVE  UNCHANGED <<disk, mem>> \/ \E p \in Journals : Entering(r, p)
<1>1. CASE Taken(r) \/ Prepare(r) \/ Dispatch(r) \/ ExecuteAnswers(r) \/ ExecuteFails(r)
  BY <1>1 DEF Taken, Prepare, Dispatch, ExecuteAnswers, ExecuteFails
<1>2. CASE Advance(r) \/ AdvanceFails(r) \/ DeadlineExpires(r)
  BY <1>2, CallEnters DEF Advance, AdvanceFails, DeadlineExpires, AfterCall
<1>3. CASE Complete(r)
  <2>1. mem' # mem => pc'[r] = "done"
    BY <1>3 DEF Complete, Finish, Goto, TypeOK, CallFails
  <2> QED
    BY <1>3, <2>1, CallEnters DEF Complete
<1>4. CASE Abandon(r)
  BY <1>4, CallEnters DEF Abandon
<1>5. CASE CompleteLate(r)
  <2> DEFINE p == Completed(Journal(r), key[r])
  <2>1. /\ Journal(r) \in Journals /\ key[r] \in Keys /\ HeldBy(Journal(r), r)
        /\ Journal(r)[key[r]] \in Records /\ pc'[r] = "done"
    BY <1>5 DEF CompleteLate, Journal, Bookkeeping, MayComplete, HeldBy, Journals, TypeOK,
       requestVars
  <2>2. p \in Journals
    BY <2>1, MarkedFits DEF HeldBy
  <2>3. /\ \A k \in Keys \ {key[r]} : p[k] = Journal(r)[k]
        /\ p[key[r]].by = r /\ p[key[r]].fp = Journal(r)[key[r]].fp
    BY <2>1 DEF Completed, Journals, Records, HeldBy
  <2>4. disk' \in Saves(disk, p) \union {disk} /\ mem' \in {mem, [mem EXCEPT ![owner[r]] = p]}
    BY <1>5 DEF CompleteLate, Saves
  <2> HIDE DEF p
  <2>5. Entering(r, p)
    BY <2>1, <2>2, <2>3, <2>4 DEF Entering
  <2> QED
    BY <2>2, <2>5
<1>6. CASE Cancelled(r)
  <2>1. pc[r] # "execute" => pc'[r] = "done"
    BY <1>6 DEF Cancelled, Goto, TypeOK
  <2> QED
    BY <1>6, <2>1, CallEnters DEF Cancelled
<1> QED
  BY <1>1, <1>2, <1>3, <1>4, <1>5, <1>6 DEF StepOf

\* A step of a request leaves its reservation behind, and answers from the journal
\* only if the key was taken.
LEMMA StepAnswers ==
    ASSUME TypeOK, NEW r \in Requests, StepOf(r)
    PROVE  /\ pc'[r] \notin {"idle", "reserve"}
           /\ pc[r] = "done" => pc'[r] = "done"
           /\ \/ Taken(r)
              \/ answer'[r] \in {answer[r], "failed", "receipt"} /\ source' = source
           /\ pc[r] # "idle"
<1> USE DEF TypeOK, Goto, Finish, requestVars
<1>1. CASE Taken(r)
  BY <1>1 DEF Taken
<1>2. CASE Prepare(r) \/ Dispatch(r) \/ ExecuteAnswers(r) \/ ExecuteFails(r)
  BY <1>2 DEF Prepare, Dispatch, ExecuteAnswers, ExecuteFails
<1>3. CASE Advance(r) \/ AdvanceFails(r) \/ DeadlineExpires(r)
  BY <1>3 DEF Advance, AdvanceFails, DeadlineExpires, AfterCall
<1>4. CASE Complete(r) \/ Abandon(r)
  BY <1>4 DEF Complete, Abandon
<1>5. CASE CompleteLate(r)
  BY <1>5 DEF CompleteLate
<1>6. CASE Cancelled(r)
  BY <1>6 DEF Cancelled, CallPoints
<1> QED
  BY <1>1, <1>2, <1>3, <1>4, <1>5, <1>6 DEF StepOf

\* Authors stay authors, and what they completed stays over.
LEMMA StepAuthors ==
    ASSUME TypeOK, RecordsInv, NEW r \in Requests, StepOf(r)
    PROVE  /\ \A rec \in Records, k \in Keys : Author(rec, k) => Author(rec, k)'
           /\ \A rec \in Records, g \in Instances : Placed(rec, g) => Placed(rec, g)'
<1>1. /\ UNCHANGED <<key, fp, owner>>
      /\ \A s \in Requests \ {r} : pc'[s] = pc[s] /\ answer'[s] = answer[s]
  BY StepFrame
<1>2. /\ pc'[r] \notin {"idle", "reserve"} /\ (pc[r] = "done" => pc'[r] = "done")
      /\ pc[r] # "reserve" => answer'[r] \in {answer[r], "failed", "receipt"}
  BY StepAnswers DEF Taken
<1>3. \A rec \in Records : rec.by \in Requests
  BY DEF Records
<1> QED
  BY <1>1, <1>2, <1>3 DEF Author, Placed, Released

LEMMA StepRecords ==
    ASSUME TypeOK, ObjectInv, RecordsInv, NEW r \in Requests, StepOf(r) PROVE RecordsInv'
<1>1. /\ UNCHANGED <<key, fp, owner>>
      /\ \A s \in Requests \ {r} : pc'[s] = pc[s] /\ answer'[s] = answer[s]
  BY StepFrame
<1>2. pc'[r] \notin {"idle", "reserve"} /\ pc[r] # "idle"
  BY StepAnswers
<1>3. \A s \in Requests : pc'[s] \in {"idle", "reserve"} => answer'[s] = "none"
  BY <1>1, <1>2 DEF RecordsInv
<1>4. \A journal \in Journals : \A k \in Held(journal) : k \in Keys /\ journal[k] \in Records
  BY DEF Held, Journals
<1>5. \A journal \in Docs(disk), k \in Keys :
        k \in Held(journal) => journal[k] \in Records /\ Author(journal[k], k)'
  BY <1>4, StepAuthors DEF RecordsInv, Authored, Docs
<1>6. \A g \in Instances, k \in Keys :
        k \in Held(mem[g]) => /\ mem[g][k] \in Records
                             /\ \A rec \in Records : rec = mem[g][k] =>
                                  Author(rec, k)' /\ Placed(rec, g)'
  BY <1>4, StepAuthors DEF RecordsInv, Authored, TypeOK
<1>7. CASE UNCHANGED <<disk, mem>>
  <2>1. \A journal \in Docs(disk)' : Authored(journal)'
    BY <1>5, <1>7 DEF Authored, Docs, Held
  <2>2. \A g \in Instances : (Authored(mem[g]) /\ \A k \in Held(mem[g]) : Placed(mem[g][k], g))'
    BY <1>6, <1>7 DEF Authored, Held, Author, Placed
  <2> QED
    BY <1>3, <2>1, <2>2 DEF RecordsInv
<1>8. ASSUME NEW p \in Journals, Entering(r, p), ~UNCHANGED <<disk, mem>>
      PROVE  RecordsInv'
  <2>1. ~Taken(r) /\ owner[r] \in Instances /\ Journal(r) = mem[owner[r]]
    BY <1>8 DEF Taken, Journal, TypeOK
  <2>2. ASSUME NEW k \in Keys, k \in Held(p), k # key[r]
        PROVE  p[k] \in Records /\ Author(p[k], k)' /\ \A g \in Instances :
                 g = owner[r] => Placed(p[k], g)'
    <3>1. p[k] = mem[owner[r]][k] /\ k \in Held(mem[owner[r]])
      BY <1>8, <2>1, <2>2 DEF Entering, Held
    <3> QED
      BY <1>6, <2>1, <3>1
  <2>3. ASSUME key[r] \in Keys, key[r] \in Held(p)
        PROVE  \A rec \in Records : rec = p[key[r]] =>
                 /\ rec.by = r /\ key'[r] = key[r] /\ fp'[r] = rec.fp
                 /\ answer'[r] \in {"none", "failed", "receipt"}
                 /\ rec.state = "completed" /\ mem' # mem => pc'[r] = "done"
    <3>1. p[key[r]].by = r /\ (p[key[r]].state = "completed" /\ mem' # mem => pc'[r] = "done")
      BY <1>8, <2>3 DEF Entering, Held
    <3>2. \/ pc[r] = "reserve" /\ p[key[r]].fp = fp[r]
          \/ HeldBy(Journal(r), r) /\ p[key[r]].fp = Journal(r)[key[r]].fp
      BY <1>8, <2>3 DEF Entering, Held
    <3>3. HeldBy(Journal(r), r) => /\ Journal(r)[key[r]].fp = fp[r]
                                   /\ answer[r] \in {"none", "failed", "receipt"}
      BY <2>1, <2>3 DEF HeldBy, RecordsInv, Authored, Author, Held
    <3>4. pc[r] = "reserve" => answer[r] = "none"
      BY DEF RecordsInv
    <3>5. answer'[r] \in {answer[r], "failed", "receipt"}
      BY <2>1, StepAnswers
    <3> QED
      BY <1>1, <3>1, <3>2, <3>3, <3>4, <3>5
  <2>4. \A k \in Keys : k \in Held(p) => p[k] \in Records /\ Author(p[k], k)'
    BY <1>1, <1>2, <1>4, <2>2, <2>3 DEF Author
  <2>5. mem' # mem => \A g \in Instances, k \in Keys :
          g = owner[r] /\ k \in Held(p) => Placed(p[k], g)'
    BY <1>1, <1>4, <2>2, <2>3 DEF Placed
  <2>6. \A journal \in Docs(disk)' : Authored(journal)'
    <3>1. Docs(disk') \subseteq Docs(disk) \union {p}
      BY <1>8, SaveDocs DEF Entering, TypeOK
    <3> QED
      BY <1>5, <2>4, <3>1 DEF Authored, Docs, Held
  <2>7. \A g \in Instances : (Authored(mem[g]) /\ \A k \in Held(mem[g]) : Placed(mem[g][k], g))'
    <3> SUFFICES ASSUME NEW g \in Instances, NEW k \in Keys, k \in Held(mem'[g])
                 PROVE  (Author(mem[g][k], k) /\ Placed(mem[g][k], g))'
      BY DEF Authored, Held
    <3>1. CASE mem'[g] = mem[g]
      BY <1>6, <3>1 DEF Author, Placed
    <3>2. CASE mem'[g] # mem[g]
      <4>1. g = owner[r] /\ mem'[g] = p /\ mem' # mem
        BY <1>8, <3>2 DEF Entering, TypeOK
      <4> QED
        BY <2>4, <2>5, <4>1 DEF Author, Placed
    <3> QED
      BY <3>1, <3>2
  <2> QED
    BY <1>3, <2>6, <2>7 DEF RecordsInv
<1> QED
  BY <1>7, <1>8, StepEnters DEF ObjectInv

\* A replay is of a completed record, and what it rests on stays.
LEMMA StepReplays ==
    ASSUME TypeOK, ObjectInv, ReplayInv, NEW r \in Requests, StepOf(r) PROVE Replayed'
<1> USE DEF ReplayInv
<1>1. /\ UNCHANGED <<key, fp, owner>>
      /\ \A s \in Requests \ {r} : pc'[s] = pc[s] /\ answer'[s] = answer[s]
  BY StepFrame
<1>2. /\ pc'[r] \notin {"idle", "reserve"} /\ (pc[r] = "done" => pc'[r] = "done")
      /\ pc[r] # "reserve" => answer'[r] \in {answer[r], "failed", "receipt"}
  BY StepAnswers DEF Taken
<1>3. \A s \in Requests : s # r => source'[s] = source[s]
  BY StepAnswers DEF Taken, TypeOK
<1>4. \A s \in Requests :
        pc[s] \notin {"idle", "reserve"} /\ answer[s] \in {"none", "failed", "receipt"} =>
          /\ pc'[s] \notin {"idle", "reserve"}
          /\ answer'[s] \in {"none", "failed", "receipt"}
          /\ pc[s] = "done" => pc'[s] = "done"
  BY <1>1, <1>2
<1> SUFFICES ASSUME NEW q \in Requests, answer'[q] = "replay"
             PROVE  LET s == source'[q] IN
                    /\ s # q /\ pc'[q] = "done"
                    /\ pc'[s] \notin {"idle", "reserve"}
                    /\ answer'[s] \in {"none", "failed", "receipt"}
                    /\ key'[s] = key'[q] /\ fp'[s] = fp'[q]
                    /\ owner'[s] = owner'[q] => pc'[s] = "done"
  BY DEF Replayed
<1>5. CASE answer[q] = "replay" /\ ~(q = r /\ Taken(r))
  <2>1. source'[q] = source[q] /\ source[q] \in Requests
    BY <1>3, <1>5, StepAnswers DEF TypeOK
  <2>2. pc'[q] = "done"
    BY <1>1, <1>2, <1>5 DEF Replayed
  <2> QED
    BY <1>1, <1>4, <1>5, <2>1, <2>2 DEF Replayed
<1>6. CASE q = r /\ Taken(r)
  <2>1. PICK rec \in Records : rec = Journal(r)[key[r]]
    BY <1>6 DEF Taken, Journal, Journals, Bookkeeping, ObjectInv, TypeOK
  <2>2. /\ key[r] \in Keys /\ owner[r] \in Instances /\ pc[r] = "reserve"
        /\ key[r] \in Held(mem[owner[r]]) /\ rec = mem[owner[r]][key[r]]
    BY <1>6, <2>1 DEF Taken, Journal, Bookkeeping, ObjectInv, TypeOK, Held
  <2>3. /\ pc'[r] = "done" /\ answer'[r] = Existing(rec, fp[r])
        /\ source'[r] = IF Existing(rec, fp[r]) = "replay" THEN rec.by ELSE r
    BY <1>6, <2>1 DEF Taken, Finish, Goto, TypeOK
  <2>4. source'[r] = rec.by /\ rec.fp = fp[r] /\ rec.state = "completed"
    BY <1>6, <2>3 DEF Existing
  <2>5. Author(rec, key[r]) /\ Placed(rec, owner[r]) /\ rec.by \in Requests
    BY <2>2 DEF RecordsInv, Authored, Records
  <2> QED
    BY <1>1, <1>4, <1>6, <2>2, <2>3, <2>4, <2>5 DEF Author, Placed
<1>7. CASE answer[q] # "replay" /\ ~(q = r /\ Taken(r))
  BY <1>1, <1>7, StepAnswers
<1> QED
  BY <1>5, <1>6, <1>7

\* An arrival is of a request without a record, and not the source of a replay.
LEMMA ArriveReplays ==
    ASSUME TypeOK, ReplayInv, NEW r \in Requests, Arrive(r) PROVE ReplayInv'
<1> USE DEF ReplayInv
<1>1. /\ pc[r] = "idle" /\ pc' = [pc EXCEPT ![r] = "reserve"]
      /\ \A s \in Requests \ {r} : /\ key'[s] = key[s] /\ fp'[s] = fp[s]
                                   /\ owner'[s] = owner[s] /\ pc'[s] = pc[s]
      /\ UNCHANGED <<disk, mem, answer, source>>
  BY DEF Arrive, Goto, TypeOK
<1>2. answer[r] = "none" /\ \A s \in Requests : pc'[s] \in {"idle", "reserve"} =>
                                                  answer[s] = "none"
  BY <1>1 DEF RecordsInv, TypeOK
<1>3. \A rec \in Records, k \in Keys : Author(rec, k) => Author(rec, k)'
  BY <1>1 DEF Author, Records
<1>4. \A rec \in Records, k \in Keys, g \in Instances :
        Author(rec, k) /\ Placed(rec, g) => Placed(rec, g)'
  BY <1>1 DEF Author, Placed, Released, Records
<1>5. \A journal \in Journals : \A k \in Held(journal) : k \in Keys /\ journal[k] \in Records
  BY DEF Held, Journals
<1>6. \A journal \in Docs(disk)' : Authored(journal)'
  BY <1>1, <1>3, <1>5 DEF RecordsInv, Authored, Docs, Held
<1>7. \A g \in Instances : (Authored(mem[g]) /\ \A k \in Held(mem[g]) : Placed(mem[g][k], g))'
  <2> SUFFICES ASSUME NEW g \in Instances, NEW k \in Keys, k \in Held(mem[g])
               PROVE  (Author(mem[g][k], k) /\ Placed(mem[g][k], g))'
    BY <1>1 DEF Authored, Held
  <2>1. /\ Author(mem[g][k], k) /\ Placed(mem[g][k], g) /\ mem[g][k] \in Records
    BY <1>5 DEF RecordsInv, Authored, TypeOK
  <2>2. \A rec \in Records : rec = mem[g][k] => Author(rec, k)' /\ Placed(rec, g)'
    BY <1>3, <1>4, <2>1
  <2> QED
    BY <1>1, <2>1, <2>2 DEF Author, Placed
<1>8. RecordsInv'
  BY <1>1, <1>2, <1>6, <1>7 DEF RecordsInv
<1>9. Replayed'
  BY <1>1, <1>2 DEF Replayed, TypeOK
<1> QED
  BY <1>8, <1>9

\* Requests that go down with their process stay the authors of their records.
LEMMA AuthorsStay ==
    ASSUME UNCHANGED <<key, fp, owner, answer>>,
           \A s \in Requests : pc'[s] = pc[s] \/ (pc[s] # "idle" /\ pc'[s] = "done")
    PROVE  /\ \A rec \in Records, k \in Keys : Author(rec, k) => Author(rec, k)'
           /\ \A rec \in Records, g \in Instances : Placed(rec, g) => Placed(rec, g)'
  BY DEF Author, Placed, Released, Records

\* The world changes only what journals there are: on disk they become fewer, or that
\* of a call is added; in memory they are kept, lost, or loaded.
LEMMA WorldReplays ==
    ASSUME TypeOK, TypeOK', ObjectInv, ReplayInv,
           UNCHANGED <<key, fp, owner, answer, source>>,
           \A s \in Requests : pc'[s] = pc[s] \/ (pc[s] # "idle" /\ pc'[s] = "done"),
           \A journal \in Docs(disk)' : Authored(journal)',
           \A g \in Instances, k \in Keys : k \in Held(mem'[g]) =>
             Author(mem'[g][k], k) /\ Placed(mem'[g][k], g)
    PROVE  ReplayInv'
<1> USE DEF ReplayInv
<1>1. /\ \A rec \in Records, k \in Keys : Author(rec, k) => Author(rec, k)'
      /\ \A rec \in Records, g \in Instances : Placed(rec, g) => Placed(rec, g)'
  BY AuthorsStay
<1>2. \A journal \in Journals : \A k \in Held(journal) : k \in Keys /\ journal[k] \in Records
  BY DEF Held, Journals
<1>3. \A g \in Instances : (Authored(mem[g]) /\ \A k \in Held(mem[g]) : Placed(mem[g][k], g))'
  <2> SUFFICES ASSUME NEW g \in Instances, NEW k \in Keys, k \in Held(mem'[g])
               PROVE  (Author(mem[g][k], k) /\ Placed(mem[g][k], g))'
    BY DEF Authored, Held
  <2>1. /\ Author(mem'[g][k], k) /\ Placed(mem'[g][k], g) /\ mem'[g][k] \in Records
    BY <1>2 DEF TypeOK
  <2>2. \A rec \in Records : rec = mem'[g][k] => Author(rec, k)' /\ Placed(rec, g)'
    BY <1>1, <2>1
  <2> QED
    BY <2>1, <2>2 DEF Author, Placed
<1>4. RecordsInv'
  BY <1>3 DEF RecordsInv
<1>5. Replayed'
  BY DEF Replayed, TypeOK
<1> QED
  BY <1>4, <1>5

LEMMA CrashReplays ==
    ASSUME TypeOK, TypeOK', ObjectInv, ReplayInv, Crash PROVE ReplayInv'
<1> USE DEF ReplayInv, ObjectInv
<1>1. /\ UNCHANGED <<key, fp, owner, answer, source>>
      /\ mem' = [g \in Instances |-> EmptyJournal]
      /\ pc' = [r \in Requests |-> IF pc[r] = "idle" THEN "idle" ELSE "done"]
  BY DEF Crash, request
<1>2. \A g \in Instances, k \in Keys : k \notin Held(mem'[g])
  BY <1>1 DEF Held, EmptyJournal
<1>3. \A s \in Requests : pc'[s] = pc[s] \/ (pc[s] # "idle" /\ pc'[s] = "done")
  BY <1>1
<1>4. /\ \A journal \in Journals : \A k \in Held(journal) : k \in Keys /\ journal[k] \in Records
      /\ \A rec \in Records, k \in Keys : Author(rec, k) => Author(rec, k)'
  BY <1>1, <1>3, AuthorsStay DEF Held, Journals
<1>5. ASSUME NEW r \in Requests, CallAllowed(r), NEW p \in Journals, p = CallPayload(r)
      PROVE  Authored(p)'
  <2> SUFFICES ASSUME NEW k \in Keys, p[k] # NoRecord PROVE Author(p[k], k)'
    BY DEF Authored, Held
  <2>1. p[k] \in Records /\ Authored(Journal(r)) /\ Journal(r) \in Journals
    BY <1>4 DEF Held, Journal, RecordsInv, TypeOK
  <2>2. CASE k # key[r]
    <3>1. p[k] = Journal(r)[k]
      BY <1>5, <2>2, PayloadRecords
    <3> QED
      BY <1>4, <2>1, <3>1 DEF Authored, Held
  <2>3. CASE k = key[r] /\ pc[r] = "reserve" /\ p[k].fp = fp[r]
    <3>1. p[k].by = r /\ answer[r] = "none" /\ pc'[r] = "done"
      BY <1>1, <1>5, <2>3, PayloadRecords DEF RecordsInv
    <3> QED
      BY <1>1, <2>3, <3>1 DEF Author
  <2>4. CASE /\ k = key[r] /\ HeldBy(Journal(r), r)
             /\ p[k].fp = Journal(r)[key[r]].fp
    <3>1. p[k].by = r /\ Author(Journal(r)[k], k)
      BY <1>5, <2>1, <2>4, PayloadRecords DEF Authored, Held, HeldBy
    <3>2. Author(p[k], k)
      BY <2>4, <3>1 DEF Author, HeldBy
    <3> QED
      BY <1>4, <2>1, <3>2
  <2> QED
    BY <1>5, <2>2, <2>3, <2>4, PayloadRecords
<1>6. \A journal \in Docs(disk)' : Authored(journal)'
  <2>1. \A journal \in Docs(disk) : Authored(journal)'
    BY <1>4 DEF RecordsInv, Authored, Docs, Held
  <2>2. CASE disk' = disk
    BY <2>1, <2>2 DEF Docs
  <2>3. CASE disk' # disk
    <3>1. PICK r \in Requests :
            CallAllowed(r) /\ disk' \in SaveFailures(disk, CallPayload(r))
      BY <2>3 DEF Crash
    <3>2. PICK p \in Journals : p = CallPayload(r)
      BY <3>1, PayloadFits
    <3>3. Docs(disk') \subseteq Docs(disk) \union {p}
      BY <3>1, <3>2, SaveDocs DEF Saves, TypeOK
    <3> QED
      BY <1>5, <2>1, <3>1, <3>2, <3>3 DEF Docs
  <2> QED
    BY <2>2, <2>3
<1> QED
  BY <1>1, <1>2, <1>3, <1>6, WorldReplays

LEMMA SetupReplays ==
    ASSUME TypeOK, TypeOK', ObjectInv, ReplayInv, Setup PROVE ReplayInv'
<1> USE DEF ReplayInv, ObjectInv
<1>1. /\ UNCHANGED <<pc, key, fp, owner, answer, source>>
      /\ ~serving /\ setups < MaxSetups
  BY DEF Setup, requestVars
<1>2. PICK a \in LoadAnswers(disk) :
        LET persisted == IF a.kind = "value" THEN a.doc ELSE EmptyJournal
            journal == LoadedJournal(persisted, a.flagged)
        IN  /\ disk' \in {a.disk} \union Saves(a.disk, journal)
            /\ \/ mem' = [mem EXCEPT ![latest + 1] = journal]
               \/ mem' = mem
  BY DEF Setup, Saves
<1>3. PICK persisted \in Journals :
        persisted = IF a.kind = "value" THEN a.doc ELSE EmptyJournal
  BY LoadFacts, EmptyFits DEF TypeOK
<1>4. PICK journal \in Journals : journal = LoadedJournal(persisted, a.flagged)
  BY LoadFacts, LoadedFits DEF TypeOK
<1>5. a.disk \in Disks /\ a.flagged \in BOOLEAN /\ Docs(a.disk) \subseteq Docs(disk)
  BY LoadFacts, LoadDocs DEF TypeOK
<1>6. Authored(persisted)
  BY <1>3, LoadDocs DEF RecordsInv, Authored, Held, EmptyJournal, TypeOK
<1>7. \A k \in Keys : k \in Held(journal) =>
        /\ k \in Held(persisted) /\ persisted[k] \in Records
        /\ journal[k].by = persisted[k].by /\ journal[k].fp = persisted[k].fp
        /\ ~Released(journal[k])
  <2> SUFFICES ASSUME NEW k \in Keys, k \in Held(journal)
               PROVE  /\ k \in Held(persisted) /\ persisted[k] \in Records
                      /\ journal[k].by = persisted[k].by /\ journal[k].fp = persisted[k].fp
                      /\ ~Released(journal[k])
    OBVIOUS
  <2>1. journal[k] = Reloaded(persisted[k], a.flagged) /\ journal[k] # NoRecord
    BY <1>4 DEF LoadedJournal, Held
  <2>2. persisted[k] \in Records \union {NoRecord}
    BY DEF Journals
  <2> QED
    BY <1>5, <2>1, <2>2, ReloadedAuthor DEF Held
<1>8. \A k \in Keys : k \in Held(journal) => Author(journal[k], k)
  BY <1>6, <1>7 DEF Authored, Author
<1>9. \A journ \in Docs(disk)' : Authored(journ)'
  <2>1. Docs(disk') \subseteq Docs(disk) \union {journal}
    BY <1>2, <1>3, <1>4, <1>5, SaveDocs
  <2>2. \A journ \in Docs(disk) \union {journal} : Authored(journ)
    BY <1>8 DEF RecordsInv, Authored, Held
  <2> QED
    BY <1>1, <2>1, <2>2 DEF Authored, Author, Docs, Held
<1>10. ASSUME NEW g \in Instances, NEW k \in Keys, k \in Held(mem'[g])
       PROVE  Author(mem'[g][k], k) /\ Placed(mem'[g][k], g)
  <2>1. CASE mem'[g] = mem[g]
    BY <1>10, <2>1 DEF RecordsInv, Authored
  <2>2. CASE mem'[g] # mem[g]
    <3>1. g = latest + 1 /\ mem'[g] = journal
      BY <1>2, <1>3, <1>4, <2>2 DEF TypeOK
    <3>2. Author(journal[k], k) /\ ~Released(journal[k]) /\ journal[k].by \in Requests
      BY <1>7, <1>8, <1>10, <3>1 DEF Records
    <3>3. owner[journal[k].by] # g
      BY <3>1, <3>2 DEF Bookkeeping, Author, TypeOK, Instances
    <3> QED
      BY <3>1, <3>2, <3>3 DEF Placed
  <2> QED
    BY <2>1, <2>2
<1> QED
  BY <1>1, <1>9, <1>10, WorldReplays

LEMMA FilesReplay ==
    ASSUME TypeOK, TypeOK', ObjectInv, ReplayInv, SetupCut \/ Unload \/ DamageFile
    PROVE  ReplayInv'
<1> USE DEF ReplayInv
<1>1. UNCHANGED <<mem, pc, key, fp, owner, answer, source>>
  BY DEF SetupCut, Unload, DamageFile, entryVars, requestVars
<1>2. Docs(disk') \subseteq Docs(disk)
  <2>1. CASE SetupCut
    BY <2>1, LoadDocs DEF SetupCut, TypeOK
  <2>2. CASE Unload
    BY <2>2 DEF Unload
  <2>3. CASE DamageFile
    BY <2>3, ActionsAssumption DEF DamageFile, Docs, TypeOK, Disks, Payloads
  <2> QED
    BY <2>1, <2>2, <2>3
<1>3. \A journal \in Docs(disk)' : Authored(journal)'
  BY <1>1, <1>2 DEF RecordsInv, Authored, Author, Docs, Held
<1>4. \A g \in Instances, k \in Keys : k \in Held(mem'[g]) =>
        Author(mem'[g][k], k) /\ Placed(mem'[g][k], g)
  BY <1>1 DEF RecordsInv, Authored
<1> QED
  BY <1>1, <1>3, <1>4, WorldReplays

LEMMA NextReplays == TypeOK /\ ObjectInv /\ ReplayInv /\ [Next]_vars => ReplayInv'
<1> SUFFICES ASSUME TypeOK, ObjectInv, ReplayInv, [Next]_vars PROVE ReplayInv'
    OBVIOUS
<1>1. TypeOK' /\ ObjectInv'
  BY NextObject
<1>2. ASSUME UNCHANGED vars PROVE ReplayInv'
  BY <1>2 DEF vars, entryVars, requestVars, ReplayInv, RecordsInv, Replayed, Authored,
     Author, Placed, Docs, Held
<1>3. ASSUME NEW r \in Requests, Arrive(r) PROVE ReplayInv'
  BY <1>3, ArriveReplays
<1>4. ASSUME NEW r \in Requests, StepOf(r) PROVE ReplayInv'
  BY <1>4, StepRecords, StepReplays DEF ReplayInv
<1>5. ASSUME Crash PROVE ReplayInv'
  BY <1>1, <1>5, CrashReplays
<1>6. ASSUME Setup PROVE ReplayInv'
  BY <1>1, <1>6, SetupReplays
<1>7. ASSUME SetupCut \/ Unload \/ DamageFile PROVE ReplayInv'
  BY <1>1, <1>7, FilesReplay
<1> QED
  BY <1>2, <1>3, <1>4, <1>5, <1>6, <1>7 DEF Next, StepOf

LEMMA ReplayInvariance == Spec => []ReplayInv
<1>1. Init => ReplayInv
  BY ActionsAssumption DEF Init, ReplayInv, RecordsInv, Replayed, Authored, Docs, NewDisk,
     Held, EmptyJournal, Payloads
<1> QED
  BY <1>1, NextReplays, ObjectInvariance, PTL DEF Spec

\* A replayed receipt is that of another request with the same key and body, which got
\* its own result, and is over if both worked with one journal object: whatever is
\* retried, abandoned, damaged or loaded.
THEOREM ReplaysFaithful == Spec => []ReplayIsFaithful
<1>1. ReplayInv => ReplayIsFaithful
  BY DEF ReplayInv, Replayed, ReplayIsFaithful
<1> QED
  BY <1>1, ReplayInvariance, PTL

\* A reservation that never reached the boundary does not outlive its process: in the
\* journal of a set-up entry it belongs to a request that arrived since.
THEOREM ReservationsReleased == Spec => []NothingWedged
<1>1. TypeOK /\ ReplayInv => NothingWedged
  BY DEF ReplayInv, RecordsInv, Placed, NothingWedged, TypeOK
<1> QED
  BY <1>1, ReplayInvariance, ObjectInvariance, PTL

---------------------------------------------------------------------------
(* Durability: as long as no file was damaged and no entry was unloaded under its
   requests, a dispatch and a receipt stay on disk for good, so that a key is
   dispatched at most once, whatever crashes, restarts, time-outs, cancellations
   and failed saves happen.  The second half of that takes no harm from one damaged
   file: the reservation is in both copies before the dispatch, and a load that
   falls back takes every reservation for dispatched.                        *)

\* A save of a journal with the key of r, past the boundary.
LEMMA SaveSecures ==
    ASSUME NEW d \in Disks, NEW p \in Journals, NEW r \in Requests, Durable(p, r),
           NEW new \in Saves(d, p) \union {d}
    PROVE  /\ Intact(d, r) => Intact(new, r)
           /\ Recoverable(d, r) => Recoverable(new, r)
           /\ new \in SaveAcks(d, p) =>
                /\ Recoverable(new, r)
                /\ Valid(d.cur) /\ HeldBy(d.cur, r) => Intact(new, r)
<1> USE DEF Durable, Valid, Payloads
<1>1. new = d \/ new = BackedUp(d) \/ new = Saved(d, p)
  BY DEF Saves, SaveAcks, SaveFailures
<1>2. ASSUME new = d
      PROVE  /\ Intact(d, r) => Intact(new, r)
             /\ Recoverable(d, r) => Recoverable(new, r)
  BY <1>2
<1>3. /\ Intact(d, r) => Intact(BackedUp(d), r)
      /\ Recoverable(d, r) => Recoverable(BackedUp(d), r)
  BY DEF BackedUp, Disks, Intact, Recoverable
<1>4. Intact(Saved(d, p), r) \/ ~(Valid(d.cur) /\ HeldBy(d.cur, r))
  BY DEF Saved, BackedUp, Disks, Intact
<1>5. Recoverable(Saved(d, p), r)
  BY DEF Saved, BackedUp, Disks, Recoverable
<1>6. new \in SaveAcks(d, p) => new = Saved(d, p)
  BY DEF SaveAcks
<1>7. Intact(d, r) => Valid(d.cur) /\ HeldBy(d.cur, r)
  BY DEF Intact
<1>8. /\ new = d \/ new = BackedUp(d) => /\ Intact(d, r) => Intact(new, r)
                                         /\ Recoverable(d, r) => Recoverable(new, r)
  BY <1>2, <1>3
<1> HIDE DEF Durable, Valid
<1> QED
  BY <1>1, <1>4, <1>5, <1>6, <1>7, <1>8

\* Whatever a load does to the files, the next one finds the key; and a load that
\* answers gives a journal in which it is past the boundary.
LEMMA LoadSecures ==
    ASSUME NEW d \in Disks, NEW r \in Requests, key[r] \in Keys,
           Intact(d, r) \/ Recoverable(d, r)
    PROVE  /\ \A a \in LoadAnswers(d) :
                /\ Intact(d, r) => Intact(a.disk, r)
                /\ Recoverable(d, r) => Recoverable(a.disk, r)
                /\ a.kind # "error" =>
                     a.kind = "value" /\ Durable(LoadedJournal(a.doc, a.flagged), r)
           /\ \A new \in LoadCuts(d) : /\ Intact(d, r) => Intact(new, r)
                                       /\ Recoverable(d, r) => Recoverable(new, r)
<1>1. ASSUME NEW journal \in Journals, NEW flagged \in BOOLEAN, HeldBy(journal, r),
             flagged \/ Durable(journal, r)
      PROVE  Durable(LoadedJournal(journal, flagged), r)
  <2>1. /\ LoadedJournal(journal, flagged)[key[r]] = Reloaded(journal[key[r]], flagged)
        /\ journal[key[r]] \in Records /\ journal[key[r]].by = r
    BY <1>1 DEF LoadedJournal, HeldBy, Journals
  <2>2. /\ Reloaded(journal[key[r]], flagged) \in Records
        /\ Reloaded(journal[key[r]], flagged).phase # "not_started"
        /\ Reloaded(journal[key[r]], flagged).by = r
    BY <1>1, <2>1, JournalAssumption
    DEF Durable, Reloaded, Released, Records, States, Phases, Consistent
  <2> QED
    BY <2>1, <2>2, JournalAssumption DEF Durable, HeldBy
<1>2. CASE Valid(d.cur)
  <2>1. /\ LoadAnswers(d) = {Answer("value", d.cur, d.latch, d)} /\ LoadCuts(d) = {d}
        /\ HeldBy(d.cur, r) /\ (d.latch \/ Durable(d.cur, r))
        /\ d.cur \in Journals /\ d.latch \in BOOLEAN
    BY <1>2 DEF LoadAnswers, LoadCuts, Intact, Recoverable, Durable, Valid, Payloads, Disks
  <2>2. Durable(LoadedJournal(d.cur, d.latch), r)
    BY <1>1, <2>1
  <2> QED
    BY <2>1, <2>2 DEF Answer
<1>3. CASE ~Valid(d.cur)
  <2>1. /\ ~Intact(d, r) /\ Valid(d.prev) /\ HeldBy(d.prev, r)
        /\ d.prev \in Journals /\ Absent \notin Payloads
    BY <1>3, ActionsAssumption DEF Intact, Recoverable, Valid, Payloads
  <2>2. /\ Recoverable(MovedAside(d), r) /\ Recoverable(Latched(d), r)
        /\ Recoverable(Restored(d), r)
    BY <1>3, <2>1 DEF Restored, Latched, MovedAside, Loaded, Recoverable, Disks, Valid
  <2>3. Durable(LoadedJournal(d.prev, TRUE), r)
    BY <1>1, <2>1
  <2>4. /\ LoadAnswers(d) = {Answer("value", d.prev, TRUE, Restored(d)),
                             Answer("error", Absent, d.latch, Latched(d))}
        /\ LoadCuts(d) = {d, MovedAside(d), Latched(d), Restored(d)}
    BY <1>3, <2>1 DEF LoadAnswers, LoadCuts
  <2>5. ASSUME NEW a \in LoadAnswers(d)
        PROVE  /\ Recoverable(a.disk, r)
               /\ a.kind # "error" =>
                    a.kind = "value" /\ Durable(LoadedJournal(a.doc, a.flagged), r)
    <3>1. CASE a = Answer("value", d.prev, TRUE, Restored(d))
      <4>1. a.kind = "value" /\ a.doc = d.prev /\ a.flagged = TRUE
            /\ a.disk = Restored(d)
        BY <3>1 DEF Answer
      <4> QED
        BY <2>2, <2>3, <4>1
    <3>2. CASE a = Answer("error", Absent, d.latch, Latched(d))
      <4>1. a.kind = "error" /\ a.disk = Latched(d)
        BY <3>2 DEF Answer
      <4> QED
        BY <2>2, <4>1
    <3> QED
      BY <2>4, <3>1, <3>2
  <2>6. ASSUME NEW new \in LoadCuts(d)
        PROVE  Recoverable(d, r) => Recoverable(new, r)
    BY <2>2, <2>4, <2>6
  <2> QED
    BY <2>1, <2>5, <2>6
<1> QED
  BY <1>2, <1>3

LEMMA StepAttended ==
    ASSUME Attended, unloads = 0, NEW r \in Requests, StepOf(r)
    PROVE  serving /\ owner[r] = latest
<1>1. CASE CompleteLate(r)
  BY <1>1 DEF CompleteLate
<1>2. CASE ~CompleteLate(r)
  <2>1. pc[r] \notin Over
    BY <1>2 DEF StepOf, Taken, Advance, AdvanceFails, DeadlineExpires, Prepare, Dispatch,
       ExecuteAnswers, ExecuteFails, Complete, Abandon, Cancelled, AfterCall, CallPoints,
       Over
  <2> QED
    BY <2>1 DEF Attended
<1> QED
  BY <1>1, <1>2

\* A request that made its call, or may make it, has a key.
LEMMA HasKey ==
    ASSUME TypeOK, Bookkeeping, NEW r \in Requests,
           r \in dispatched \/ pc[r] \in Beyond \/ answer[r] = "receipt"
    PROVE  key[r] \in Keys
  BY DispatchedFacts DEF Bookkeeping, Beyond

\* Where a step of r leaves disk and journal, seen from the latest object.
LEMMA WritingLatest ==
    ASSUME TypeOK, NEW r \in Requests, owner[r] = latest, NEW p \in Journals,
           Writing(r, p), UNCHANGED latest
    PROVE  /\ disk'.cur \in {disk.cur, p}
           /\ mem'[latest'] \in {mem[latest], p}
           /\ Acknowledged(r, p) => disk'.cur = p /\ mem'[latest'] = p
           /\ Valid(p)
<1>1. disk'.cur \in {disk.cur, p}
  BY SaveFacts DEF Writing, TypeOK
<1>2. mem' = [mem EXCEPT ![owner[r]] = p] => mem'[latest'] = p
  BY DEF TypeOK
<1>3. disk' \in SaveAcks(disk, p) => disk'.cur = p
  BY SaveFacts DEF Saves, TypeOK
<1> QED
  BY <1>1, <1>2, <1>3 DEF Writing, Acknowledged, Valid, Payloads

LEMMA StepForeseen ==
    ASSUME TypeOK, ObjectInv, Attended, Foreseen, NEW r \in Requests, StepOf(r)
    PROVE  Foreseen'
<1>1. UNCHANGED <<key, owner, serving, latest, unloads, damage>>
  BY StepFrame
<1> SUFFICES ASSUME damage = 0, unloads = 0, NEW s \in Requests, pc'[s] \in Before
             PROVE  Valid(disk'.cur) /\ HeldBy(disk'.cur, s)
  BY <1>1 DEF Foreseen, HeldBy
<1>2. serving /\ owner[r] = latest /\ Journal(r) = mem[latest]
  BY StepAttended DEF Journal
<1>3. pc[s] \in Before => Valid(disk.cur) /\ HeldBy(disk.cur, s)
  BY DEF Foreseen
<1>4. s # r => pc[s] \in Before
  BY StepFrame
<1>5. CASE Quiet(r)
  BY <1>3, <1>4, <1>5 DEF Quiet
<1>6. ASSUME NEW p \in Journals, Writing(r, p)
      PROVE  Valid(disk'.cur) /\ HeldBy(disk'.cur, s)
  <2>1. /\ disk'.cur \in {disk.cur, p} /\ Valid(p)
        /\ Acknowledged(r, p) => disk'.cur = p
    BY <1>1, <1>2, <1>6, WritingLatest
  <2>2. CASE s = r
    BY <1>6, <2>1, <2>2 DEF Writing
  <2>3. CASE s # r
    <3>1. key[s] \in Keys /\ HeldBy(mem[latest], s)
      <4>1. pc[s] \in Holding /\ pc[s] \notin Over /\ pc[s] # "idle"
        BY <1>4, <2>3 DEF Before, Holding, Points, CallPoints, Over
      <4>2. owner[s] = latest
        BY <4>1 DEF Attended
      <4> QED
        BY <4>1, <4>2 DEF ObjectInv, HoldersHold, Bookkeeping
    <3>2. p[key[s]] = mem[latest][key[s]]
      BY <1>2, <1>6, <2>3, <3>1 DEF Writing
    <3> QED
      BY <1>3, <1>4, <2>1, <2>3, <3>1, <3>2 DEF HeldBy
  <2> QED
    BY <2>2, <2>3
<1> QED
  BY <1>5, <1>6, StepWrites DEF ObjectInv

LEMMA StepFenced ==
    ASSUME TypeOK, ObjectInv, Attended, Foreseen, Fenced, NEW r \in Requests, StepOf(r)
    PROVE  Fenced'
<1>1. UNCHANGED <<key, owner, serving, latest, unloads, damage>>
  BY StepFrame
<1> SUFFICES ASSUME damage <= 1, unloads = 0, NEW s \in Requests,
                    s \in dispatched' \/ pc'[s] \in Beyond
             PROVE  /\ IF damage = 0 THEN Intact(disk', s) ELSE Recoverable(disk', s)
                    /\ Durable(mem'[latest'], s)
  BY <1>1 DEF Fenced, Secured, Intact, Recoverable, Durable, HeldBy
<1>2. serving /\ owner[r] = latest /\ Journal(r) = mem[latest]
  BY StepAttended DEF Journal
<1> DEFINE Known == s \in dispatched \/ pc[s] \in Beyond
<1>3. Known => /\ key[s] \in Keys /\ Durable(mem[latest], s)
               /\ IF damage = 0 THEN Intact(disk, s) ELSE Recoverable(disk, s)
  BY <1>2, HasKey DEF Fenced, Secured, ObjectInv
<1>4. s # r => Known
  BY StepFrame
<1>5. s = r /\ ~Known => pc'[r] \in Beyond
  BY StepDispatches DEF ObjectInv, Beyond
<1>6. r \in dispatched' => r \in dispatched \/ pc'[r] \in Beyond
  BY StepDispatches DEF ObjectInv, Beyond
<1>7. CASE Quiet(r)
  <2>1. Known
    BY <1>4, <1>5, <1>7 DEF Quiet
  <2> QED
    BY <1>1, <1>3, <1>7, <2>1 DEF Quiet
<1>8. ASSUME NEW p \in Journals, Writing(r, p)
      PROVE  /\ IF damage = 0 THEN Intact(disk', s) ELSE Recoverable(disk', s)
             /\ Durable(mem'[latest'], s)
  <2>1. /\ disk \in Disks /\ disk' \in Saves(disk, p) \union {disk}
        /\ mem'[latest'] \in {mem[latest], p}
        /\ Acknowledged(r, p) => mem'[latest'] = p
    BY <1>1, <1>2, <1>8, WritingLatest DEF Writing, TypeOK
  <2>2. Durable(p, s)
    <3>1. CASE s # r
      <4>1. p[key[s]] = mem[latest][key[s]]
        BY <1>2, <1>3, <1>4, <1>8, <3>1 DEF Writing, Durable
      <4> QED
        BY <1>3, <1>4, <3>1, <4>1 DEF Durable, HeldBy
    <3>2. CASE s = r
      BY <1>6, <1>8, <3>2 DEF Writing
    <3> QED
      BY <3>1, <3>2
  <2>3. CASE Known
    BY <1>3, <2>1, <2>2, <2>3, SaveSecures
  <2>4. CASE ~Known
    <3>1. s = r /\ pc[r] \in Before /\ Acknowledged(r, p)
      BY <1>4, <1>5, <1>8, <2>4 DEF Writing
    <3>2. damage = 0 => Valid(disk.cur) /\ HeldBy(disk.cur, r)
      BY <3>1 DEF Foreseen
    <3>3. disk' \in SaveAcks(disk, p)
      BY <3>1 DEF Acknowledged
    <3> QED
      BY <2>1, <2>2, <3>1, <3>2, <3>3, SaveSecures
  <2> QED
    BY <2>3, <2>4
<1> QED
  BY <1>7, <1>8, StepWrites DEF ObjectInv

LEMMA StepReceipts ==
    ASSUME TypeOK, ObjectInv, Attended, ReceiptsKept, NEW r \in Requests, StepOf(r)
    PROVE  ReceiptsKept'
<1>1. UNCHANGED <<key, owner, serving, latest, unloads, damage>>
  BY StepFrame
<1> SUFFICES ASSUME damage = 0, unloads = 0, NEW s \in Requests, answer'[s] = "receipt"
             PROVE  /\ Valid(disk'.cur) /\ Receipted(disk'.cur, s)
                    /\ Receipted(mem'[latest'], s)
  BY <1>1 DEF ReceiptsKept, Receipted, HeldBy
<1>2. serving /\ owner[r] = latest /\ Journal(r) = mem[latest]
  BY StepAttended DEF Journal
<1>3. s # r => /\ key[s] \in Keys
               /\ Valid(disk.cur) /\ Receipted(disk.cur, s) /\ Receipted(mem[latest], s)
  BY <1>2, HasKey, StepFrame DEF ReceiptsKept, ObjectInv
<1>4. CASE Quiet(r)
  BY <1>1, <1>3, <1>4 DEF Quiet
<1>5. ASSUME NEW p \in Journals, Writing(r, p)
      PROVE  /\ Valid(disk'.cur) /\ Receipted(disk'.cur, s)
             /\ Receipted(mem'[latest'], s)
  <2>1. /\ disk'.cur \in {disk.cur, p} /\ mem'[latest'] \in {mem[latest], p}
        /\ Acknowledged(r, p) => disk'.cur = p /\ mem'[latest'] = p
        /\ Valid(p)
    BY <1>1, <1>2, <1>5, WritingLatest
  <2>2. CASE s # r
    <3>1. p[key[s]] = mem[latest][key[s]]
      BY <1>2, <1>3, <1>5, <2>2 DEF Writing, Receipted
    <3>2. Receipted(p, s)
      BY <1>3, <2>2, <3>1 DEF Receipted, HeldBy
    <3> QED
      BY <1>3, <2>1, <2>2, <3>2
  <2>3. CASE s = r
    BY <1>5, <2>1, <2>3 DEF Writing
  <2> QED
    BY <2>2, <2>3
<1> QED
  BY <1>4, <1>5, StepWrites DEF ObjectInv

LEMMA StepDurable ==
    ASSUME TypeOK, ObjectInv, DurableInv, NEW r \in Requests, StepOf(r)
    PROVE  DurableInv'
<1> USE DEF DurableInv
<1>1. Undamaged'
  <2>1. \E p \in Journals : disk' \in Saves(disk, p) \union {disk}
    BY StepWrites, EmptyFits DEF Quiet, Writing, ObjectInv
  <2> QED
    BY <2>1, StepFrame, SaveUndamaged
<1>2. Attended'
  <2> SUFFICES ASSUME unloads = 0, NEW s \in Requests, pc'[s] \notin Over
               PROVE  serving /\ owner[s] = latest
    BY StepFrame DEF Attended
  <2> QED
    BY StepFrame, StepNotOver DEF Attended
<1> QED
  BY <1>1, <1>2, StepForeseen, StepFenced, StepReceipts

---------------------------------------------------------------------------
(* Arrivals and the steps of the entry, the process and the files.           *)

LEMMA ArriveDurable ==
    ASSUME TypeOK, ObjectInv, DurableInv, NEW r \in Requests, Arrive(r)
    PROVE  DurableInv'
<1>1. /\ serving /\ pc[r] = "idle" /\ pc' = [pc EXCEPT ![r] = "reserve"]
      /\ owner' = [owner EXCEPT ![r] = latest]
      /\ \A s \in Requests \ {r} : key'[s] = key[s]
      /\ UNCHANGED <<disk, mem, damage, serving, latest, unloads, answer, dispatched>>
  BY DEF Arrive, Goto, TypeOK, entryVars
<1>2. /\ r \notin dispatched /\ pc'[r] \notin Before /\ pc'[r] \notin Beyond
      /\ answer[r] # "receipt"
  BY <1>1 DEF ObjectInv, Bookkeeping, Before, Beyond, TypeOK
<1>3. Undamaged'
  BY <1>1 DEF DurableInv, Undamaged, Valid
<1>4. Attended'
  BY <1>1 DEF DurableInv, Attended, TypeOK
<1>5. \A s \in Requests \ {r} : pc'[s] = pc[s]
  BY <1>1 DEF TypeOK
<1>6. Foreseen' /\ Fenced'
  BY <1>1, <1>2, <1>5 DEF DurableInv, Foreseen, Fenced, Secured, Intact, Recoverable,
     Durable, HeldBy, Valid
<1>7. ReceiptsKept'
  BY <1>1, <1>2 DEF DurableInv, ReceiptsKept, Receipted, HeldBy, Valid
<1> QED
  BY <1>3, <1>4, <1>6, <1>7 DEF DurableInv

\* What a crash leaves on disk: the current file, or that of a call under way.
LEMMA CrashFile ==
    ASSUME TypeOK, ObjectInv, Attended, unloads = 0, Crash, disk' # disk
    PROVE  \E q \in Requests :
             /\ pc[q] \in CallPoints /\ CallAllowed(q) /\ Journal(q) = mem[latest]
             /\ serving
             /\ disk'.cur \in {disk.cur, CallPayload(q)}
             /\ disk' \in Saves(disk, CallPayload(q))
<1>1. PICK q \in Requests : /\ pc[q] \in CallPoints /\ CallAllowed(q)
                            /\ disk' \in SaveFailures(disk, CallPayload(q))
  BY DEF Crash
<1>2. pc[q] \notin Over
  BY <1>1 DEF Over, CallPoints
<1>3. serving /\ Journal(q) = mem[latest]
  BY <1>2 DEF Attended, Journal
<1>4. CallPayload(q) \in Journals
  BY <1>1, PayloadFits DEF ObjectInv
<1>5. disk'.cur \in {disk.cur, CallPayload(q)}
  BY <1>1, <1>4, SaveFacts DEF Saves, TypeOK
<1> QED
  BY <1>1, <1>3, <1>5 DEF Saves

LEMMA CrashDurable ==
    ASSUME TypeOK, ObjectInv, DurableInv, Crash PROVE DurableInv'
<1>1. /\ serving' = FALSE
      /\ pc' = [r \in Requests |-> IF pc[r] = "idle" THEN "idle" ELSE "done"]
      /\ UNCHANGED <<damage, latest, unloads, key, owner, answer, dispatched>>
  BY DEF Crash, request
<1>2. Undamaged'
  <2>1. \E p \in Journals : disk' \in Saves(disk, p) \union {disk}
    BY PayloadFits, EmptyFits DEF Crash, Saves, ObjectInv
  <2> QED
    BY <1>1, <2>1, SaveUndamaged DEF DurableInv
<1>3. Attended'
  BY <1>1 DEF Attended, Over
<1>4. Fenced'
  <2> SUFFICES ASSUME damage <= 1, unloads = 0, NEW r \in dispatched
               PROVE  IF damage = 0 THEN Intact(disk', r) ELSE Recoverable(disk', r)
    BY <1>1 DEF Fenced, Secured, Intact, Recoverable, Durable, HeldBy, Beyond
  <2>1. r \in Requests /\ key[r] \in Keys
    BY DispatchedFacts DEF ObjectInv
  <2>2. /\ IF damage = 0 THEN Intact(disk, r) ELSE Recoverable(disk, r)
        /\ serving => Durable(mem[latest], r)
    BY <2>1 DEF DurableInv, Fenced, Secured
  <2>3. CASE disk' = disk
    BY <2>2, <2>3
  <2>4. CASE disk' # disk
    <3>1. PICK q \in Requests :
            /\ pc[q] \in CallPoints /\ CallAllowed(q) /\ Journal(q) = mem[latest]
            /\ serving
            /\ disk' \in Saves(disk, CallPayload(q))
      BY <2>4, CrashFile DEF DurableInv
    <3>2. Durable(CallPayload(q), r)
      <4>1. CASE q # r
        <5>1. HeldBy(Journal(q), r) /\ Durable(Journal(q), r)
          BY <2>2, <3>1 DEF Durable
        <5>2. CallPayload(q)[key[r]] = Journal(q)[key[r]]
          BY <2>1, <3>1, <4>1, <5>1, PayloadFrame DEF ObjectInv
        <5> QED
          BY <5>1, <5>2 DEF Durable, HeldBy
      <4>2. CASE q = r
        <5>1. pc[r] = "complete"
          BY <2>1, <3>1, <4>2 DEF ObjectInv, Bookkeeping, Beyond, CallPoints
        <5> QED
          BY <3>1, <4>2, <5>1, PayloadFacts DEF ObjectInv
      <4> QED
        BY <4>1, <4>2
    <3>3. CallPayload(q) \in Journals /\ disk \in Disks
      BY <3>1, PayloadFits DEF ObjectInv, TypeOK
    <3> QED
      BY <2>1, <2>2, <3>1, <3>2, <3>3, SaveSecures
  <2> QED
    BY <2>3, <2>4
<1>6. Foreseen'
  BY <1>1 DEF Foreseen, Before
<1>5. ReceiptsKept'
  <2> SUFFICES ASSUME damage = 0, unloads = 0, NEW r \in Requests, answer[r] = "receipt"
               PROVE  Valid(disk'.cur) /\ Receipted(disk'.cur, r)
    BY <1>1 DEF ReceiptsKept, Receipted, HeldBy
  <2>1. key[r] \in Keys /\ pc[r] = "done"
    BY HasKey DEF ObjectInv, Bookkeeping
  <2>2. /\ Valid(disk.cur) /\ Receipted(disk.cur, r)
        /\ serving => Receipted(mem[latest], r)
    BY DEF DurableInv, ReceiptsKept
  <2>3. CASE disk' = disk
    BY <2>2, <2>3
  <2>4. CASE disk' # disk
    <3>1. PICK q \in Requests :
            /\ pc[q] \in CallPoints /\ CallAllowed(q) /\ Journal(q) = mem[latest]
            /\ serving
            /\ disk'.cur \in {disk.cur, CallPayload(q)}
      BY <2>4, CrashFile DEF DurableInv
    <3>2. q # r
      BY <2>1, <3>1 DEF CallPoints
    <3>3. HeldBy(Journal(q), r) /\ Receipted(Journal(q), r)
      BY <2>2, <3>1 DEF Receipted
    <3>4. CallPayload(q)[key[r]] = Journal(q)[key[r]]
      BY <2>1, <3>1, <3>2, <3>3, PayloadFrame DEF ObjectInv
    <3>5. Receipted(CallPayload(q), r)
      BY <3>3, <3>4 DEF Receipted, HeldBy
    <3>6. Valid(CallPayload(q))
      BY <3>1, PayloadFits DEF ObjectInv, Valid, Payloads
    <3> QED
      BY <2>2, <3>1, <3>5, <3>6
  <2> QED
    BY <2>3, <2>4
<1> QED
  BY <1>2, <1>3, <1>4, <1>5, <1>6 DEF DurableInv

\* A load keeps what crossed the dispatch boundary, and every completed record.
LEMMA LoadKeeps ==
    ASSUME NEW journal \in Journals, NEW flagged \in BOOLEAN, NEW r \in Requests,
           key[r] \in Keys
    PROVE  /\ Durable(journal, r) => Durable(LoadedJournal(journal, flagged), r)
           /\ Receipted(journal, r) => Receipted(LoadedJournal(journal, flagged), r)
<1>1. LoadedJournal(journal, flagged)[key[r]] = Reloaded(journal[key[r]], flagged)
  BY DEF LoadedJournal
<1>2. HeldBy(journal, r) => journal[key[r]] \in Records
  BY DEF HeldBy, Journals
<1> QED
  BY <1>1, <1>2, ReloadedType, JournalAssumption DEF Durable, Receipted, HeldBy

LEMMA SetupDurable ==
    ASSUME TypeOK, ObjectInv, DurableInv, Setup PROVE DurableInv'
<1>1. /\ ~serving
      /\ UNCHANGED <<damage, unloads, pc, key, owner, answer, dispatched>>
  BY DEF Setup, requestVars
<1>2. Attended' /\ Foreseen'
  BY <1>1 DEF DurableInv, Attended, Foreseen, Before, Over
<1>3. PICK a \in LoadAnswers(disk) :
        LET persisted == IF a.kind = "value" THEN a.doc ELSE EmptyJournal
            journal == LoadedJournal(persisted, a.flagged)
        IN  /\ disk' \in {a.disk} \union Saves(a.disk, journal)
            /\ \/ /\ serving' = TRUE /\ latest' = latest + 1
                  /\ mem' = [mem EXCEPT ![latest + 1] = journal]
                  /\ a.kind # "error"
               \/ UNCHANGED <<serving, latest, mem>>
            /\ a.kind = "error" => disk' = a.disk
  BY DEF Setup, Saves
<1> DEFINE persisted == IF a.kind = "value" THEN a.doc ELSE EmptyJournal
           journal == LoadedJournal(persisted, a.flagged)
<1>4. /\ a.flagged \in BOOLEAN /\ a.disk \in Disks
      /\ persisted \in Journals
      /\ damage = 0 => a.disk = disk /\ (Valid(disk.cur) => persisted = disk.cur)
  BY LoadUndamaged, LoadFacts, EmptyFits DEF DurableInv, TypeOK
<1>5. journal \in Journals
  BY <1>4, LoadedFits
<1>6. serving' => mem'[latest'] = journal
  <2>1. latest + 1 \in Instances
    BY <1>1, ActionsAssumption DEF Setup, ObjectInv, Bookkeeping, TypeOK, Instances
  <2> QED
    BY <1>1, <1>3, <2>1 DEF TypeOK
<1>7. disk' \in Saves(a.disk, journal) \union {a.disk}
  BY <1>3
<1>8. Undamaged'
  <2> HIDE DEF journal, persisted
  <2> QED
    BY <1>1, <1>4, <1>5, <1>7, SaveUndamaged DEF DurableInv, Undamaged
<1>9. Fenced'
  <2> SUFFICES ASSUME damage <= 1, unloads = 0, NEW r \in Requests,
                      r \in dispatched \/ pc[r] \in Beyond
               PROVE  /\ IF damage = 0 THEN Intact(disk', r) ELSE Recoverable(disk', r)
                      /\ serving' => Durable(mem'[latest'], r)
    BY <1>1 DEF Fenced, Secured, Intact, Recoverable, Durable, HeldBy
  <2>1. /\ IF damage = 0 THEN Intact(disk, r) ELSE Recoverable(disk, r)
        /\ key[r] \in Keys
    BY HasKey DEF DurableInv, Fenced, Secured, ObjectInv
  <2>2. /\ IF damage = 0 THEN Intact(a.disk, r) ELSE Recoverable(a.disk, r)
        /\ a.kind # "error" => Durable(journal, r)
    BY <2>1, LoadSecures DEF TypeOK
  <2> HIDE DEF journal, persisted
  <2>3. CASE a.kind = "error"
    <3>1. disk' = a.disk /\ ~serving'
      BY <1>1, <1>3, <2>3
    <3> QED
      BY <2>2, <3>1
  <2>4. CASE a.kind # "error"
    BY <1>4, <1>5, <1>6, <1>7, <2>2, <2>4, SaveSecures
  <2> QED
    BY <2>3, <2>4
<1>10. ReceiptsKept'
  <2> SUFFICES ASSUME damage = 0, unloads = 0, NEW r \in Requests, answer[r] = "receipt"
               PROVE  /\ Valid(disk'.cur) /\ Receipted(disk'.cur, r)
                      /\ serving' => Receipted(mem'[latest'], r)
    BY <1>1 DEF ReceiptsKept, Receipted, HeldBy
  <2>1. Valid(disk.cur) /\ Receipted(disk.cur, r)
    BY DEF DurableInv, ReceiptsKept
  <2>2. Receipted(journal, r) /\ Valid(journal)
    BY <1>4, <1>5, <2>1, HasKey, LoadKeeps DEF ObjectInv, Valid, Payloads
  <2> HIDE DEF journal, persisted
  <2>3. disk'.cur \in {disk.cur, journal}
    BY <1>4, <1>5, <1>7, SaveFacts
  <2> QED
    BY <1>6, <2>1, <2>2, <2>3
<1> QED
  BY <1>2, <1>8, <1>9, <1>10 DEF DurableInv

LEMMA WorldDurable ==
    ASSUME TypeOK, ObjectInv, DurableInv, SetupCut \/ Unload \/ DamageFile
    PROVE  DurableInv'
<1> USE DEF DurableInv
<1>1. CASE SetupCut
  <2>1. /\ ~serving /\ disk' \in LoadCuts(disk)
        /\ UNCHANGED <<mem, damage, serving, latest, unloads, pc, key, owner, answer,
                       dispatched>>
    BY <1>1 DEF SetupCut, requestVars
  <2>2. damage = 0 => disk' = disk
    BY <2>1, LoadUndamaged
  <2>3. Fenced'
    <3> SUFFICES ASSUME damage <= 1, unloads = 0, NEW r \in Requests,
                        r \in dispatched \/ pc[r] \in Beyond
                 PROVE  IF damage = 0 THEN Intact(disk', r) ELSE Recoverable(disk', r)
      BY <2>1 DEF Fenced, Secured, Intact, Recoverable, Durable, HeldBy
    <3>1. /\ IF damage = 0 THEN Intact(disk, r) ELSE Recoverable(disk, r)
          /\ key[r] \in Keys
      BY HasKey DEF Fenced, Secured, ObjectInv
    <3> QED
      BY <2>1, <3>1, LoadSecures DEF TypeOK
  <2> QED
    BY <2>1, <2>2, <2>3 DEF Undamaged, Attended, Foreseen, ReceiptsKept, Receipted, HeldBy,
       Valid
<1>2. CASE Unload
  <2>1. unloads' # 0
    BY <1>2 DEF Unload, TypeOK
  <2> QED
    BY <1>2, <2>1 DEF Unload, Undamaged, Attended, Foreseen, Fenced, ReceiptsKept, Valid
<1>3. CASE DamageFile
  <2>1. /\ damage' = damage + 1 /\ damage \in Nat
        /\ UNCHANGED <<mem, serving, latest, unloads, pc, key, owner, answer, dispatched>>
    BY <1>3 DEF DamageFile, entryVars, requestVars, TypeOK
  <2>2. Fenced'
    <3> SUFFICES ASSUME damage = 0, unloads = 0, NEW r \in Requests,
                        r \in dispatched \/ pc[r] \in Beyond
                 PROVE  /\ Recoverable(disk', r)
                        /\ serving => Durable(mem[latest], r)
      BY <2>1 DEF Fenced, Secured, Recoverable, Durable, HeldBy
    <3>1. Intact(disk, r) /\ (serving => Durable(mem[latest], r))
      BY DEF Fenced, Secured
    <3>2. PICK file \in {"cur", "prev"}, kind \in DamageKinds :
            disk' = [disk EXCEPT ![file] = kind]
      BY <1>3 DEF DamageFile
    <3>3. kind \notin Payloads
      BY ActionsAssumption
    <3> QED
      BY <3>1, <3>2, <3>3 DEF Intact, Recoverable, Durable, Valid, TypeOK, Disks
  <2> QED
    BY <2>1, <2>2 DEF Undamaged, Attended, Foreseen, ReceiptsKept
<1> QED
  BY <1>1, <1>2, <1>3

---------------------------------------------------------------------------
(* The theorems.                                                             *)

LEMMA NextDurable == IInv /\ [Next]_vars => IInv'
<1> SUFFICES ASSUME TypeOK, ObjectInv, DurableInv, [Next]_vars PROVE IInv'
  BY DEF IInv
<1>1. TypeOK' /\ ObjectInv'
  BY NextObject
<1>2. ASSUME UNCHANGED vars PROVE DurableInv'
  BY <1>2 DEF vars, entryVars, requestVars, DurableInv, Undamaged, Attended, Foreseen,
     Fenced, Secured, Intact, Recoverable, ReceiptsKept, Durable, Receipted, HeldBy, Valid
<1>3. ASSUME NEW r \in Requests, Arrive(r) PROVE DurableInv'
  BY <1>3, ArriveDurable
<1>4. ASSUME NEW r \in Requests, StepOf(r) PROVE DurableInv'
  BY <1>4, StepDurable
<1>5. ASSUME Crash PROVE DurableInv'
  BY <1>5, CrashDurable
<1>6. ASSUME Setup PROVE DurableInv'
  BY <1>6, SetupDurable
<1>7. ASSUME SetupCut \/ Unload \/ DamageFile PROVE DurableInv'
  BY <1>7, WorldDurable
<1>8. DurableInv'
  BY <1>2, <1>3, <1>4, <1>5, <1>6, <1>7 DEF Next, StepOf
<1> QED
  BY <1>1, <1>8 DEF IInv

LEMMA Invariance == Spec => []IInv
  BY InitIInv, NextDurable, PTL DEF Spec

\* As long as no entry was unloaded under its requests and no file was damaged,
\* every physical call left its key taken on disk, by itself.
THEOREM DispatchesDurable == Spec => []DispatchIsDurable
<1>1. IInv => DispatchIsDurable
  BY DEF IInv, DurableInv, Fenced, Secured, Intact, Durable, HeldBy, DispatchIsDurable,
     TypeOK
<1> QED
  BY <1>1, Invariance, PTL

\* Under the same conditions a receipt that was given out stays on disk.
THEOREM ReceiptsDurable == Spec => []ReceiptIsDurable
<1>1. IInv => ReceiptIsDurable
  BY DEF IInv, DurableInv, ReceiptsKept, Receipted, HeldBy, ReceiptIsDurable
<1> QED
  BY <1>1, Invariance, PTL

\* Without an unload two requests with one idempotency key never both make their
\* physical call, over any number of crashes and restarts, even if one file was damaged.
THEOREM OnceUndisturbed == Spec => [](damage <= 1 => AtMostOnceDispatch)
<1>1. IInv => (damage <= 1 => AtMostOnceDispatch)
  <2> SUFFICES ASSUME IInv, unloads = 0, damage <= 1, NEW r \in dispatched,
                      NEW s \in dispatched, key[r] = key[s]
               PROVE  r = s
    BY DEF AtMostOnceDispatch
  <2>1. Secured(r) /\ Secured(s)
    BY DEF IInv, DurableInv, Fenced, TypeOK
  <2> QED
    BY <2>1 DEF Secured, Intact, Recoverable, Durable, HeldBy
<1> QED
  BY <1>1, Invariance, PTL
=============================================================================
