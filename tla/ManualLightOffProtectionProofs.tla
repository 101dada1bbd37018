-------------------- MODULE ManualLightOffProtectionProofs --------------------
(* The protection of a light that was switched off by hand holds and is durable: for
   any number of lights, profiles and sensors, any settings, policies and intervals,
   and any saves that fail, processes that die and files that are damaged.     *)

EXTENDS ManualLightOffProtection, TLAPS, FiniteSetTheorems

---------------------------------------------------------------------------
(* The inductive invariant.                                                  *)

\* No record waits for longer than the interval from now.
Bound(doc) ==
    /\ Len(doc.receipts) <= ReceiptCapacity
    /\ \A k \in Keys : doc.prot[k] # Nothing => doc.prot[k].notBefore <= now + Interval

Bounded ==
    /\ Bound(mem)
    /\ Valid(disk.cur) => Bound(disk.cur)
    /\ Valid(disk.prev) => Bound(disk.prev)

\* The document has the record of the promise.
Keeps(doc, pr) ==
    \E k \in Keys :
        /\ doc.prot[k] # Nothing
        /\ doc.prot[k].born = pr.born
        /\ doc.prot[k].lights = pr.lights
        /\ doc.prot[k].sensors = pr.sensors
        /\ doc.prot[k].policy = pr.policy
        /\ doc.prot[k].notBefore >= pr.notBefore

Owing == {pr \in owed : pr.excuse = "none"}

\* An open coordinator has the record of every promise, and so has the current file that
\* no fall-back replaced: failed saves leave the record of what is owed there.
Promised ==
    /\ \A pr \in owed : pr.notBefore <= now + Interval
    /\ up /\ disk.latch => unhealthy
    /\ up /\ ~unhealthy => \A pr \in Owing : Keeps(mem, pr)
    /\ ~disk.latch /\ Valid(disk.cur) => \A pr \in Owing : Keeps(disk.cur, pr)

Undamaged ==
    ~damaged =>
        /\ ~disk.latch /\ disk.cur \notin {Invalid, Corrupt}
        /\ Valid(disk.prev) => Valid(disk.cur)
        /\ Owing # {} => Valid(disk.cur)

\* What Home Assistant knows of a sensor is so, and what the coordinator knows is, unless
\* newer evidence was dropped.
Evident ==
    \A s \in Sensors :
        /\ room[s].at <= now
        /\ reported[s] = Unknown \/ (reported[s].st = room[s].st /\ room[s].at <= reported[s].at)
        /\ s \notin missed /\ sens[s].st = "off" =>
              reported[s] # Unknown /\ room[s].st = "off" /\ room[s].at <= sens[s].at

IInv == TypeOK /\ Bounded /\ Promised /\ Undamaged /\ Evident /\ ProtectionHolds

---------------------------------------------------------------------------
(* Documents and saves.                                                      *)

LEMMA Constants ==
    /\ Interval \in Nat /\ Stable \in Nat /\ Fresh \in Nat /\ ReceiptCapacity \in Nat
    /\ ActiveCapacity \in Nat /\ MaxTime \in Nat /\ MaxRevision \in Nat /\ MaxBorn \in Nat
    /\ MaxFaults \in Nat
    /\ Effective \in [Settings -> [Profiles -> EffectiveProfiles]]
    /\ Nothing \notin Records
    /\ Absent \notin Payloads /\ Invalid \notin Payloads /\ Corrupt \notin Payloads
    /\ Absent # Invalid /\ Absent # Corrupt /\ Invalid # Corrupt
  BY ManualOffAssumption

LEMMA KeysAreFinite == IsFiniteSet(Keys)
<1>1. IsFiniteSet(Profiles \union {Direct}) /\ IsFiniteSet({Whole})
  BY ManualOffAssumption, FS_AddElement, FS_EmptySet, FS_Singleton
<1>2. IsFiniteSet((Profiles \union {Direct}) \X {Whole}) /\ IsFiniteSet(Profiles \X Lights)
  BY <1>1, ManualOffAssumption, FS_Product
<1> QED
  BY <1>2, FS_Union DEF Keys

\* What a document is after a record was put into it, or records were taken out.
LEMMA PutFacts ==
    ASSUME NEW doc \in Payloads, NEW k \in Keys, NEW rec \in Records
    PROVE  LET new == [doc EXCEPT !.prot[k] = rec]
           IN  /\ new \in Payloads /\ new.receipts = doc.receipts
               /\ new.prot[k] = rec
               /\ \A j \in Keys \ {k} : new.prot[j] = doc.prot[j]
  BY DEF Payloads

LEMMA WithoutFacts ==
    ASSUME NEW doc \in Payloads, NEW ks
    PROVE  /\ Without(doc, ks) \in Payloads /\ Without(doc, ks).receipts = doc.receipts
           /\ \A k \in Keys : Without(doc, ks).prot[k] = IF k \in ks THEN Nothing ELSE doc.prot[k]
  BY DEF Payloads, Without

LEMMA PutBound ==
    ASSUME NEW doc \in Payloads, NEW k \in Keys, NEW rec \in Records, Bound(doc),
           rec.notBefore <= now + Interval
    PROVE  Bound([doc EXCEPT !.prot[k] = rec])
<1> DEFINE new == [doc EXCEPT !.prot[k] = rec]
<1>1. new.receipts = doc.receipts /\ new.prot[k] = rec
      /\ \A j \in Keys \ {k} : new.prot[j] = doc.prot[j]
  BY PutFacts
<1> HIDE DEF new
<1>2. Bound(new)
  BY <1>1 DEF Bound
<1> QED
  BY <1>2 DEF new

LEMMA WithoutBound ==
    ASSUME NEW doc \in Payloads, NEW ks, Bound(doc)
    PROVE  Bound(Without(doc, ks))
  BY WithoutFacts DEF Bound

\* A record under another key stays, and so does the new one.
LEMMA PutKeeps ==
    ASSUME NEW doc \in Payloads, NEW k \in Keys, NEW rec \in Records, NEW pr,
           \/ Keeps(doc, pr) /\ (doc.prot[k] = Nothing \/ doc.prot[k].born # pr.born)
           \/ /\ rec.born = pr.born /\ rec.lights = pr.lights /\ rec.sensors = pr.sensors
              /\ rec.policy = pr.policy /\ rec.notBefore >= pr.notBefore
    PROVE  Keeps([doc EXCEPT !.prot[k] = rec], pr)
<1> DEFINE new == [doc EXCEPT !.prot[k] = rec]
<1>1. new.prot[k] = rec /\ \A j \in Keys \ {k} : new.prot[j] = doc.prot[j]
  BY PutFacts
<1> HIDE DEF new
<1>2. CASE rec.born = pr.born /\ rec.lights = pr.lights /\ rec.sensors = pr.sensors
           /\ rec.policy = pr.policy /\ rec.notBefore >= pr.notBefore
  BY <1>1, <1>2, Constants DEF Keeps, new
<1>3. CASE Keeps(doc, pr) /\ (doc.prot[k] = Nothing \/ doc.prot[k].born # pr.born)
  <2>1. PICK j \in Keys : /\ doc.prot[j] # Nothing /\ doc.prot[j].born = pr.born
                          /\ doc.prot[j].lights = pr.lights /\ doc.prot[j].sensors = pr.sensors
                          /\ doc.prot[j].policy = pr.policy
                          /\ doc.prot[j].notBefore >= pr.notBefore
    BY <1>3 DEF Keeps
  <2>2. j # k
    BY <1>3, <2>1
  <2> QED
    BY <1>1, <2>1, <2>2 DEF Keeps, new
<1> QED
  BY <1>2, <1>3

LEMMA WithoutKeeps ==
    ASSUME NEW doc \in Payloads, NEW ks, NEW pr, Keeps(doc, pr),
           \A k \in ks \intersect Keys : doc.prot[k] = Nothing \/ doc.prot[k].born # pr.born
    PROVE  Keeps(Without(doc, ks), pr)
<1>1. PICK j \in Keys : /\ doc.prot[j] # Nothing /\ doc.prot[j].born = pr.born
                        /\ doc.prot[j].lights = pr.lights /\ doc.prot[j].sensors = pr.sensors
                        /\ doc.prot[j].policy = pr.policy
                        /\ doc.prot[j].notBefore >= pr.notBefore
  BY DEF Keeps
<1>2. Without(doc, ks).prot[j] = doc.prot[j]
  BY <1>1, WithoutFacts
<1> QED
  BY <1>1, <1>2 DEF Keeps

\* What is in the files after a save that was acknowledged, or failed at one of its
\* documents.
LEMMA SaveFacts ==
    ASSUME disk \in Disks, NEW docs \in Seq(Payloads), NEW n \in Nat \ {0}, n = Len(docs),
           NEW d, d = After(docs, n) \/ \E i \in 1..n : d \in CutDisks(docs, i)
    PROVE  /\ d \in Disks /\ d.latch = disk.latch
           /\ d.cur = disk.cur \/ \E i \in 1..n : d.cur = docs[i]
           /\ d.prev \in {disk.prev, disk.cur} \/ \E i \in 1..n : d.prev = docs[i]
           /\ Valid(disk.cur) => Valid(d.cur)
           /\ (Valid(disk.prev) => Valid(disk.cur)) => (Valid(d.prev) => Valid(d.cur))
           /\ d = After(docs, n) => d.cur = docs[n]
<1>1. \A i \in 1..n : docs[i] \in Payloads
  OBVIOUS
<1> DEFINE Before(i) == IF i = 1 THEN disk ELSE [disk EXCEPT !.cur = docs[i - 1]]
<1>2. ASSUME NEW i \in 1..n
      PROVE  LET b == Before(i) IN
             /\ b \in Disks /\ b.latch = disk.latch /\ b.prev = disk.prev
             /\ b.cur = disk.cur \/ \E j \in 1..n : b.cur = docs[j]
             /\ b.cur = disk.cur \/ Valid(b.cur)
  <2>1. CASE i = 1
    BY <2>1
  <2>2. CASE i # 1
    <3>1. i - 1 \in 1..n
      BY <2>2
    <3> QED
      BY <1>1, <2>2, <3>1 DEF Disks, Files, Valid
  <2> QED
    BY <2>1, <2>2
<1> DEFINE Fits(e) ==
           /\ e \in Disks /\ e.latch = disk.latch
           /\ e.cur = disk.cur \/ \E j \in 1..n : e.cur = docs[j]
           /\ e.prev \in {disk.prev, disk.cur} \/ \E j \in 1..n : e.prev = docs[j]
           /\ Valid(disk.cur) => Valid(e.cur)
           /\ (Valid(disk.prev) => Valid(disk.cur)) => (Valid(e.prev) => Valid(e.cur))
<1>3. ASSUME NEW i \in 1..n
      PROVE  LET e == Saved(Before(i), docs[i]) IN Fits(e) /\ e.cur = docs[i]
  <2>1. PICK b : b = Before(i)
    OBVIOUS
  <2>2. /\ b \in Disks /\ b.latch = disk.latch /\ b.prev = disk.prev
        /\ b.cur = disk.cur \/ \E j \in 1..n : b.cur = docs[j]
        /\ b.cur = disk.cur \/ Valid(b.cur)
    BY <1>2, <2>1
  <2> HIDE DEF Before
  <2>3. PICK e : e = Saved(b, docs[i])
    OBVIOUS
  <2>4. /\ e.cur = docs[i] /\ e.latch = b.latch /\ e \in Disks
        /\ e.prev = b.prev \/ e.prev = b.cur
    BY <1>1, <2>2, <2>3 DEF Saved, BackedUp, Disks, Files
  <2> QED
    BY <1>1, <2>1, <2>2, <2>3, <2>4 DEF Valid
<1>4. ASSUME NEW i \in 1..n
      PROVE  After(docs, i) = Saved(Before(i), docs[i])
  BY DEF After
<1>5. After(docs, 0) = disk
  BY DEF After
<1>6. Fits(disk)
  BY DEF Valid
<1>7. ASSUME NEW i \in 0..n
      PROVE  Fits(After(docs, i))
  <2> HIDE DEF Before, Fits
  <2>1. i = 0 \/ i \in 1..n
    OBVIOUS
  <2> QED
    BY <1>3, <1>4, <1>5, <1>6, <2>1
<1>8. ASSUME NEW i \in 1..n, NEW e \in CutDisks(docs, i)
      PROVE  Fits(e)
  <2>1. PICK a : a = After(docs, i - 1)
    OBVIOUS
  <2>2. i - 1 \in 0..n
    OBVIOUS
  <2>3. Fits(a)
    BY <1>7, <2>1, <2>2
  <2>4. e \in {a, BackedUp(a), Saved(a, docs[i])}
    BY <1>8, <2>1 DEF CutDisks, SaveFailures
  <2>5. CASE e = a
    BY <2>3, <2>5
  <2>6. CASE e = BackedUp(a)
    BY <2>3, <2>6 DEF BackedUp, Disks, Files, Valid
  <2>7. CASE e = Saved(a, docs[i])
    <3>1. /\ e.cur = docs[i] /\ e.latch = a.latch /\ e \in Disks
          /\ e.prev = a.prev \/ e.prev = a.cur
      BY <1>1, <2>3, <2>7 DEF Saved, BackedUp, Disks, Files
    <3> QED
      BY <1>1, <2>3, <3>1 DEF Valid
  <2> QED
    BY <2>4, <2>5, <2>6, <2>7
<1>9. d = After(docs, n) => d.cur = docs[n]
  <2>1. n \in 1..n
    OBVIOUS
  <2> HIDE DEF Before, Fits
  <2> QED
    BY <1>3, <1>4, <2>1
<1>10. Fits(d)
  <2> HIDE DEF Fits
  <2> QED
    BY <1>7, <1>8
<1> QED
  BY <1>9, <1>10

---------------------------------------------------------------------------
(* One call, with any of its outcomes.                                       *)

Outcomes(docs, known) ==
    Acked(docs, known) \/ Raised(docs, known) \/ Cancelled(docs, known) \/ Dies(docs)

\* The files that a call leaves.
LeftBy(docs, n) ==
    /\ disk' \in Disks /\ disk'.latch = disk.latch
    /\ disk'.cur = disk.cur \/ \E i \in 1..n : disk'.cur = docs[i]
    /\ disk'.prev \in {disk.prev, disk.cur} \/ \E i \in 1..n : disk'.prev = docs[i]
    /\ Valid(disk.cur) => Valid(disk'.cur)
    /\ (Valid(disk.prev) => Valid(disk.cur)) => (Valid(disk'.prev) => Valid(disk'.cur))

LEMMA CallFacts ==
    ASSUME TypeOK, NEW docs \in Seq(Payloads), NEW n \in Nat \ {0}, n = Len(docs), NEW known,
           Outcomes(docs, known)
    PROVE  /\ LeftBy(docs, n)
           /\ Acked(docs, known) => disk'.cur = docs[n]
           /\ \/ /\ UNCHANGED <<up, covered>> /\ sens' = known
                 /\ \E i \in 1..n : mem' = docs[i]
                 /\ unhealthy' \in {unhealthy, TRUE}
              \/ Dead
           /\ faults' \in 0..MaxFaults
<1>1. DOMAIN docs = 1..n /\ 1 \in 1..n /\ n \in 1..n /\ disk \in Disks /\ faults \in 0..MaxFaults
  BY DEF TypeOK
<1>2. \/ disk' = After(docs, n)
      \/ \E i \in 1..n : disk' \in CutDisks(docs, i)
  BY <1>1 DEF Outcomes, Acked, Raised, Cancelled, Dies
<1>3. LeftBy(docs, n) /\ (disk' = After(docs, n) => disk'.cur = docs[n])
  BY <1>1, <1>2, SaveFacts DEF LeftBy
<1>4. Acked(docs, known) => disk'.cur = docs[n]
  BY <1>3 DEF Acked
<1>5. faults' \in 0..MaxFaults
  BY <1>1, Constants DEF Outcomes, Acked, Raised, Cancelled, Dies, Fault
<1>6. \/ /\ UNCHANGED <<up, covered>> /\ sens' = known
         /\ \E i \in 1..n : mem' = docs[i]
         /\ unhealthy' \in {unhealthy, TRUE}
      \/ Dead
  <2>1. CASE Acked(docs, known)
    <3>1. mem' = docs[n]
      BY <2>1 DEF Acked, Last
    <3> QED
      BY <1>1, <2>1, <3>1 DEF Acked
  <2>2. CASE Raised(docs, known)
    BY <1>1, <2>2 DEF Raised
  <2>3. CASE Cancelled(docs, known)
    BY <1>1, <2>3 DEF Cancelled
  <2>4. CASE Dies(docs)
    BY <2>4 DEF Dies
  <2> QED
    BY <2>1, <2>2, <2>3, <2>4 DEF Outcomes
<1> QED
  BY <1>3, <1>4, <1>5, <1>6

LEMMA NewDocFacts ==
    /\ NewDoc \in Payloads /\ Len(NewDoc.receipts) = 0
    /\ \A k \in Keys : NewDoc.prot[k] = Nothing
<1>1. Default \in Settings /\ 0 \in 0..MaxRevision
  BY ManualOffAssumption, Constants
<1> QED
  BY <1>1 DEF NewDoc, Payloads

\* A dead process has forgotten everything.
LEMMA DeadFacts ==
    ASSUME TypeOK, Dead
    PROVE  /\ up' = FALSE /\ unhealthy' = FALSE /\ covered' = TRUE /\ mem' = NewDoc
           /\ mem' \in Payloads /\ Bound(mem)'
           /\ \A s \in Sensors : sens'[s] = Unknown
           /\ sens' \in [Sensors -> Evidence]
<1>1. Unknown \in Evidence
  BY Constants DEF Unknown, Evidence, Times
<1>2. Bound(mem)'
  BY NewDocFacts, Constants DEF Dead, Bound
<1> QED
  BY <1>1, <1>2, NewDocFacts DEF Dead

LEMMA CallTypes ==
    ASSUME TypeOK, Bounded, NEW docs \in Seq(Payloads), NEW n \in Nat \ {0}, n = Len(docs),
           NEW known \in [Sensors -> Evidence], Outcomes(docs, known),
           \A i \in 1..n : Bound(docs[i]), UNCHANGED now
    PROVE  /\ disk' \in Disks /\ mem' \in Payloads /\ Len(mem'.receipts) <= ReceiptCapacity
           /\ up' \in BOOLEAN /\ unhealthy' \in BOOLEAN /\ covered' \in BOOLEAN
           /\ sens' \in [Sensors -> Evidence] /\ faults' \in 0..MaxFaults
           /\ Bounded'
<1>1. \A i \in 1..n : docs[i] \in Payloads /\ Bound(docs[i])
  OBVIOUS
<1>2. LeftBy(docs, n) /\ faults' \in 0..MaxFaults
  BY CallFacts
<1>3. /\ mem' \in Payloads /\ Bound(mem)' /\ sens' \in [Sensors -> Evidence]
      /\ up' \in BOOLEAN /\ unhealthy' \in BOOLEAN /\ covered' \in BOOLEAN
  <2>1. CASE Dead
    BY <2>1, DeadFacts
  <2>2. CASE ~Dead
    <3>1. PICK i \in 1..n : mem' = docs[i]
      BY <2>2, CallFacts
    <3>2. Bound(mem)'
      BY <1>1, <3>1 DEF Bound
    <3> QED
      BY <1>1, <2>2, <3>1, <3>2, CallFacts DEF TypeOK
  <2> QED
    BY <2>1, <2>2
<1>4. (Valid(disk.cur) => Bound(disk.cur))' /\ (Valid(disk.prev) => Bound(disk.prev))'
  <2>1. \A d : Bound(d) => (\A k \in Keys : d.prot[k] # Nothing => d.prot[k].notBefore <= now' + Interval)
                          /\ Len(d.receipts) <= ReceiptCapacity
    BY DEF Bound
  <2>2. /\ Valid(disk.cur) => Bound(disk.cur)
        /\ Valid(disk.prev) => Bound(disk.prev)
    BY DEF Bounded
  <2>3. Valid(disk'.cur) => Bound(disk'.cur)
    BY <1>1, <1>2, <2>2 DEF LeftBy
  <2>4. Valid(disk'.prev) => Bound(disk'.prev)
    BY <1>1, <1>2, <2>2 DEF LeftBy
  <2> QED
    BY <2>1, <2>3, <2>4 DEF Bound, Valid
<1> QED
  BY <1>2, <1>3, <1>4 DEF LeftBy, Bounded, Bound

\* Every document of the call has the records of what is owed; what is owed anew is so
\* after the last one.
LEMMA CallPromised ==
    ASSUME TypeOK, Promised, Undamaged, NEW docs \in Seq(Payloads), NEW n \in Nat \ {0},
           n = Len(docs), NEW known, Outcomes(docs, known), UNCHANGED <<now, damaged>>,
           \A pr \in owed' : pr.notBefore <= now + Interval,
           \A pr \in Owing' : \A i \in 1..n : Keeps(docs[i], pr),
           Acked(docs, known) \/ Owing' \subseteq Owing
    PROVE  Promised' /\ Undamaged'
<1>1. \A i \in 1..n : docs[i] \in Payloads
  OBVIOUS
<1>2. LeftBy(docs, n) /\ n \in 1..n /\ (Acked(docs, known) => disk'.cur = docs[n])
  <2>1. n \in 1..n
    OBVIOUS
  <2> QED
    BY <2>1, CallFacts
<1>3. (up /\ disk.latch => unhealthy)'
  BY <1>2, CallFacts DEF Promised, LeftBy, Dead
<1>4. ASSUME up', ~unhealthy', NEW pr \in Owing'
      PROVE  Keeps(mem', pr)
  BY <1>4, CallFacts DEF Dead
<1>5. ASSUME ~disk'.latch, Valid(disk'.cur), NEW pr \in Owing'
      PROVE  Keeps(disk'.cur, pr)
  <2>1. CASE \E i \in 1..n : disk'.cur = docs[i]
    BY <1>5, <2>1
  <2>2. CASE disk'.cur = disk.cur /\ Owing' \subseteq Owing
    BY <1>2, <1>5, <2>2 DEF Promised, LeftBy
  <2> QED
    BY <1>2, <2>1, <2>2 DEF LeftBy
<1>6. Promised'
  BY <1>3, <1>4, <1>5 DEF Promised, Keeps, Valid
<1>7. Undamaged'
  <2> SUFFICES ASSUME ~damaged
               PROVE  /\ ~disk'.latch /\ disk'.cur \notin {Invalid, Corrupt}
                      /\ Valid(disk'.prev) => Valid(disk'.cur)
                      /\ Owing' # {} => Valid(disk'.cur)
    BY DEF Undamaged, Valid
  <2>1. /\ ~disk.latch /\ disk.cur \notin {Invalid, Corrupt}
        /\ Valid(disk.prev) => Valid(disk.cur)
        /\ Owing # {} => Valid(disk.cur)
    BY DEF Undamaged
  <2>2. ~disk'.latch /\ (Valid(disk'.prev) => Valid(disk'.cur))
    BY <1>2, <2>1 DEF LeftBy
  <2>3. disk'.cur \notin {Invalid, Corrupt}
    BY <1>1, <1>2, <2>1, Constants DEF LeftBy
  <2>4. Owing' # {} => Valid(disk'.cur)
    BY <1>1, <1>2, <2>1 DEF LeftBy, Valid
  <2> QED
    BY <2>2, <2>3, <2>4
<1> QED
  BY <1>6, <1>7

\* The evidence is the same, or forgotten.
LEMMA SameEvidence ==
    ASSUME Evident, UNCHANGED <<now, room, reported>>, missed \subseteq missed',
           \A s \in Sensors : sens'[s] \in {sens[s], Unknown}
    PROVE  Evident'
<1>1. Unknown.st # "off"
  BY DEF Unknown
<1> QED
  BY <1>1 DEF Evident

LEMMA CallEvidence ==
    ASSUME TypeOK, Evident, NEW docs \in Seq(Payloads), NEW n \in Nat \ {0}, n = Len(docs),
           Outcomes(docs, sens), UNCHANGED <<now, room, reported, missed>>
    PROVE  Evident'
  BY CallFacts, DeadFacts, SameEvidence

\* A call that leaves the evidence as it is.
LEMMA CallStep ==
    ASSUME IInv, NEW docs \in Seq(Payloads), NEW n \in Nat \ {0}, n = Len(docs),
           Outcomes(docs, sens), UNCHANGED <<world, missed, damaged>>,
           \A i \in 1..n : Bound(docs[i]),
           born' \in 0..MaxBorn, owed' \subseteq Promises, broken' \subseteq Excuses \ {"none"},
           \A pr \in owed' : pr.notBefore <= now + Interval,
           \A pr \in Owing' : \A i \in 1..n : Keeps(docs[i], pr),
           Acked(docs, sens) \/ Owing' \subseteq Owing
    PROVE  IInv'
<1> USE DEF IInv, world
<1>1. sens \in [Sensors -> Evidence]
  BY DEF TypeOK
<1>2. TypeOK' /\ Bounded'
  BY <1>1, CallTypes DEF TypeOK
<1>3. Promised' /\ Undamaged'
  BY CallPromised
<1>4. Evident'
  BY CallEvidence
<1>5. ProtectionHolds'
  BY DEF ProtectionHolds
<1> QED
  BY <1>2, <1>3, <1>4, <1>5

LEMMA OneDocument ==
    ASSUME NEW doc \in Payloads
    PROVE  <<doc>> \in Seq(Payloads) /\ Len(<<doc>>) = 1 /\ <<doc>>[1] = doc
  OBVIOUS

\* The same with a single document.
LEMMA CallOnce ==
    ASSUME IInv, NEW doc \in Payloads, Outcomes(<<doc>>, sens), UNCHANGED <<world, missed, damaged>>,
           Bound(doc), born' \in 0..MaxBorn, owed' \subseteq Promises,
           broken' \subseteq Excuses \ {"none"},
           \A pr \in owed' : pr.notBefore <= now + Interval,
           \A pr \in Owing' : Keeps(doc, pr),
           Acked(<<doc>>, sens) \/ Owing' \subseteq Owing
    PROVE  IInv'
<1> DEFINE docs == <<doc>>
<1>1. docs \in Seq(Payloads) /\ 1 = Len(docs) /\ docs[1] = doc /\ 1 \in Nat \ {0}
  BY OneDocument
<1>2. \A i \in 1..1 : docs[i] = doc
  BY <1>1
<1>3. Outcomes(docs, sens) /\ (Acked(docs, sens) \/ Owing' \subseteq Owing)
  OBVIOUS
<1> HIDE DEF docs
<1> QED
  BY <1>1, <1>2, <1>3, CallStep

LEMMA BrokenSo ==
    ASSUME IInv, UNCHANGED broken
    PROVE  broken' \subseteq Excuses \ {"none"}
  BY DEF IInv, TypeOK, ProtectionHolds

\* What an open coordinator keeps.
LEMMA OpenKeeps ==
    ASSUME IInv, Healthy
    PROVE  \A pr \in Owing : Keeps(mem, pr)
  BY DEF IInv, Promised, Healthy

LEMMA HeldRecords ==
    ASSUME TypeOK, NEW k \in Held
    PROVE  k \in Keys /\ mem.prot[k] \in Records
  BY DEF TypeOK, Held, Payloads

LEMMA FewerOwed ==
    ASSUME IInv, owed' \subseteq owed, UNCHANGED now
    PROVE  /\ owed' \subseteq Promises /\ Owing' \subseteq Owing
           /\ \A pr \in owed' : pr.notBefore <= now + Interval
  BY DEF IInv, TypeOK, Owing, Promised

\* What is still owed after some records have ended had none of them.
LEMMA SettleKeeps ==
    ASSUME IInv, Healthy, NEW ks \in SUBSET Held, Settle(ks), UNCHANGED now
    PROVE  /\ owed' \subseteq owed
           /\ \A some \in SUBSET ks, pr \in Owing' : Keeps(Without(mem, some), pr)
<1>1. owed' \subseteq owed /\ \A pr \in owed', k \in ks : mem.prot[k].born # pr.born
  BY DEF Settle, Ended
<1>2. mem \in Payloads
  BY DEF IInv, TypeOK
<1>3. ASSUME NEW some \in SUBSET ks, NEW pr \in Owing'
      PROVE  Keeps(Without(mem, some), pr)
  <2>1. pr \in Owing /\ pr \in owed'
    BY <1>1 DEF Owing
  <2>2. Keeps(mem, pr)
    BY <2>1, OpenKeeps
  <2> QED
    BY <1>1, <1>2, <2>1, <2>2, WithoutKeeps
<1> QED
  BY <1>1, <1>3

---------------------------------------------------------------------------
(* Manual offs and ons.                                                      *)

LEMMA NewRecordFacts ==
    ASSUME TypeOK, NEW p \in Profiles, NEW l \in Lights, born < MaxBorn,
           NEW lights, lights \in {{l}, Profile(p).lights}
    PROVE  LET rec == NewRecord(l, p, Profile(p).policy, lights)
           IN  /\ rec \in Records /\ rec.notBefore = now + Interval /\ rec.born = born + 1
               /\ rec.born \in 0..MaxBorn
<1>1. Profile(p) \in EffectiveProfiles
  BY Constants DEF TypeOK, Payloads, Profile
<1>2. now + Interval \in Times /\ born + 1 \in 1..MaxBorn
  BY Constants DEF TypeOK, Times
<1> QED
  BY <1>1, <1>2 DEF NewRecord, Records, EffectiveProfiles

\* The promises that lost their record are excused; the others are as they were.
LEMMA ReplaceFacts ==
    ASSUME NEW prs \in SUBSET Promises, NEW replaced, NEW pr \in Replace(prs, replaced)
    PROVE  /\ pr \in Promises
           /\ \E q \in prs : q.notBefore = pr.notBefore
           /\ pr.excuse = "none" => pr \in prs /\ pr.born \notin replaced
<1>1. PICK q \in prs : pr = [q EXCEPT !.excuse = IF q.born \in replaced THEN "replaced" ELSE @]
  BY DEF Replace
<1>2. q \in Promises
  OBVIOUS
<1>3. CASE q.born \in replaced
  <2>1. pr = [q EXCEPT !.excuse = "replaced"]
    BY <1>1, <1>3
  <2> QED
    BY <1>2, <2>1 DEF Promises, Excuses
<1>4. CASE q.born \notin replaced
  <2>1. pr = q
    BY <1>1, <1>2, <1>4 DEF Promises
  <2> QED
    BY <1>2, <1>4, <2>1
<1> QED
  BY <1>3, <1>4

\* A record is acknowledged: the new promise is the record's, and the others are what
\* they were.
PromiseOf(rec) ==
    [lights |-> rec.lights, sensors |-> rec.sensors, policy |-> rec.policy,
     notBefore |-> rec.notBefore, born |-> rec.born, excuse |-> "none"]

LEMMA NotedFacts ==
    ASSUME IInv, NEW rec \in Records, NEW replaced, Noted(rec, replaced), UNCHANGED now,
           rec.notBefore <= now + Interval
    PROVE  /\ owed' \subseteq Promises
           /\ \A pr \in owed' : pr.notBefore <= now + Interval
           /\ \A pr \in Owing' : \/ pr = PromiseOf(rec)
                                 \/ pr \in Owing /\ pr.born \notin replaced /\ pr.born # rec.born
<1> DEFINE others == {pr \in owed : pr.born # rec.born}
<1>1. others \in SUBSET Promises /\ \A q \in others : q.notBefore <= now + Interval /\ q \in owed
  BY DEF IInv, TypeOK, Promised
<1>2. PromiseOf(rec) \in Promises /\ PromiseOf(rec).notBefore = rec.notBefore
  BY DEF PromiseOf, Promises, Records, Excuses
<1>3. owed' = Replace(others, replaced) \union {PromiseOf(rec)}
  BY DEF Noted, PromiseOf
<1>4. \A q \in others : q.born # rec.born
  OBVIOUS
<1> HIDE DEF others
<1>5. ASSUME NEW pr \in owed', pr # PromiseOf(rec)
      PROVE  /\ pr \in Promises /\ pr.notBefore <= now + Interval
             /\ pr.excuse = "none" => pr \in Owing /\ pr.born \notin replaced /\ pr.born # rec.born
  <2>1. pr \in Replace(others, replaced)
    BY <1>3, <1>5
  <2> QED
    BY <1>1, <1>4, <2>1, ReplaceFacts DEF Owing
<1> QED
  BY <1>2, <1>5 DEF Owing

LEMMA ActivateStep ==
    ASSUME IInv, Healthy, NEW l \in Lights, NEW p \in ProfileOf(l), Activate(l, p),
           UNCHANGED <<world, missed, broken, damaged>>
    PROVE  IInv'
<1> DEFINE policy == Profile(p).policy
           lights == IF policy.source THEN {l} ELSE Profile(p).lights
           k == <<p, IF policy.source THEN l ELSE Whole>>
           rec == NewRecord(l, p, policy, lights)
           doc == [mem EXCEPT !.prot[k] = rec]
           replaced == {r.born : r \in Ended({k} \cap Held)}
<1>1. TypeOK /\ mem \in Payloads /\ p \in Profiles /\ k \in Keys /\ born < MaxBorn
  BY DEF IInv, TypeOK, ProfileOf, Keys, Activate
<1>2. rec \in Records /\ rec.notBefore = now + Interval /\ born + 1 \in 0..MaxBorn
  BY <1>1, NewRecordFacts
<1>3. born' = born + 1 /\ UNCHANGED <<now, damaged>>
  BY DEF Activate, world
<1>4. \/ Acked(<<doc>>, sens) /\ Noted(rec, replaced)
      \/ Fails(<<doc>>, sens) /\ owed' = Replace(owed, replaced)
  BY DEF Activate
<1>5. mem.prot[k] # Nothing => mem.prot[k].born \in replaced
  BY <1>1 DEF Ended, Held
<1> HIDE DEF k, rec, replaced
<1>6. doc \in Payloads /\ Bound(doc)
  <2>1. Bound(mem)
    BY DEF IInv, Bounded
  <2>2. rec.notBefore <= now + Interval
    BY <1>1, <1>2, Constants DEF TypeOK
  <2> QED
    BY <1>1, <1>2, <2>1, <2>2, PutFacts, PutBound
<1>7. ASSUME NEW pr \in Owing, pr.born \notin replaced
      PROVE  Keeps(doc, pr)
  <2>1. Keeps(mem, pr)
    BY OpenKeeps
  <2> QED
    BY <1>1, <1>2, <1>5, <1>7, <2>1, PutKeeps
<1> HIDE DEF doc
<1>8. CASE Acked(<<doc>>, sens) /\ Noted(rec, replaced)
  <2>1. /\ owed' \subseteq Promises
        /\ \A pr \in owed' : pr.notBefore <= now + Interval
        /\ \A pr \in Owing' : \/ pr = PromiseOf(rec)
                              \/ pr \in Owing /\ pr.born \notin replaced
    <3>1. rec.notBefore <= now + Interval
      BY <1>1, <1>2, Constants DEF TypeOK
    <3> QED
      BY <1>2, <1>3, <1>8, <3>1, NotedFacts
  <2>2. Keeps(doc, PromiseOf(rec))
    <3>1. rec.notBefore >= rec.notBefore
      BY <1>1, <1>2, Constants DEF TypeOK
    <3> QED
      BY <1>1, <1>2, <3>1, PutKeeps DEF PromiseOf, doc
  <2>3. \A pr \in Owing' : Keeps(doc, pr)
    BY <1>7, <2>1, <2>2
  <2> QED
    BY <1>2, <1>3, <1>6, <1>8, <2>1, <2>3, CallOnce, BrokenSo DEF Outcomes
<1>9. CASE Fails(<<doc>>, sens) /\ owed' = Replace(owed, replaced)
  <2>1. owed \in SUBSET Promises /\ \A q \in owed : q.notBefore <= now + Interval
    BY DEF IInv, TypeOK, Promised
  <2>2. \A pr \in owed' : /\ pr \in Promises /\ \E q \in owed : q.notBefore = pr.notBefore
                          /\ pr.excuse = "none" => pr \in owed /\ pr.born \notin replaced
    BY <1>9, <2>1, ReplaceFacts
  <2>3. owed' \subseteq Promises /\ \A pr \in owed' : pr.notBefore <= now + Interval
    BY <2>1, <2>2
  <2>4. Owing' \subseteq Owing /\ \A pr \in Owing' : pr.born \notin replaced
    BY <2>2 DEF Owing
  <2>5. \A pr \in Owing' : Keeps(doc, pr)
    BY <1>7, <2>4
  <2> QED
    BY <1>2, <1>3, <1>6, <1>9, <2>3, <2>4, <2>5, CallOnce, BrokenSo DEF Outcomes, Fails
<1> QED
  BY <1>4, <1>8, <1>9

\* A record that starts again, later than before, keeps what it had promised.
LEMMA ProlongKeeps ==
    ASSUME IInv, Healthy, NEW k \in Held, NEW rec \in Records,
           rec = [mem.prot[k] EXCEPT !.notBefore = rec.notBefore],
           rec.notBefore >= mem.prot[k].notBefore, NEW pr \in Owing
    PROVE  Keeps([mem EXCEPT !.prot[k] = rec], pr)
<1>1. mem \in Payloads /\ k \in Keys /\ mem.prot[k] \in Records
  BY HeldRecords DEF IInv, TypeOK
<1>2. rec.born = mem.prot[k].born /\ rec.lights = mem.prot[k].lights
      /\ rec.sensors = mem.prot[k].sensors /\ rec.policy = mem.prot[k].policy
  BY <1>1 DEF Records
<1>3. \A x \in Records \union Promises : x.notBefore \in Nat
  BY Constants DEF Records, Promises, Times
<1>4. Keeps(mem, pr) /\ pr \in Promises
  BY OpenKeeps DEF Owing, IInv, TypeOK
<1>5. PICK j \in Keys : /\ mem.prot[j] # Nothing /\ mem.prot[j].born = pr.born
                        /\ mem.prot[j].lights = pr.lights /\ mem.prot[j].sensors = pr.sensors
                        /\ mem.prot[j].policy = pr.policy
                        /\ mem.prot[j].notBefore >= pr.notBefore
  BY <1>4 DEF Keeps
<1>6. CASE j = k
  <2>1. rec.notBefore >= pr.notBefore
    BY <1>1, <1>3, <1>4, <1>5, <1>6
  <2> QED
    BY <1>1, <1>2, <1>5, <1>6, <2>1, PutKeeps
<1>7. CASE j # k
  BY <1>1, <1>5, <1>7, PutFacts DEF Keeps
<1> QED
  BY <1>6, <1>7

LEMMA ProlongStep ==
    ASSUME IInv, Healthy, NEW k \in Held, NEW rec \in Records,
           rec = [mem.prot[k] EXCEPT !.notBefore = rec.notBefore],
           rec.notBefore >= mem.prot[k].notBefore, rec.notBefore <= now + Interval,
           NEW doc, doc = [mem EXCEPT !.prot[k] = rec],
           Outcomes(<<doc>>, sens), \/ Acked(<<doc>>, sens) /\ Noted(rec, {})
                                    \/ UNCHANGED owed,
           UNCHANGED <<world, missed, born, broken, damaged>>
    PROVE  IInv'
<1>1. TypeOK /\ mem \in Payloads /\ k \in Keys /\ born' \in 0..MaxBorn
  BY HeldRecords DEF IInv, TypeOK
<1>2. doc \in Payloads /\ Bound(doc)
  BY <1>1, PutFacts, PutBound DEF IInv, Bounded
<1>3. \A x \in Records : x.notBefore \in Nat
  BY Constants DEF Records, Times
<1>4. \A pr \in Owing : Keeps(doc, pr)
  BY ProlongKeeps
<1>5. UNCHANGED <<now, damaged>>
  BY DEF world
<1>6. CASE Acked(<<doc>>, sens) /\ Noted(rec, {})
  <2>1. /\ owed' \subseteq Promises
        /\ \A pr \in owed' : pr.notBefore <= now + Interval
        /\ \A pr \in Owing' : pr = PromiseOf(rec) \/ pr \in Owing
    BY <1>5, <1>6, NotedFacts
  <2>2. Keeps(doc, PromiseOf(rec))
    <3>1. rec.notBefore >= rec.notBefore
      BY <1>3
    <3> QED
      BY <1>1, <3>1, PutKeeps DEF PromiseOf
  <2>3. \A pr \in Owing' : Keeps(doc, pr)
    BY <1>4, <2>1, <2>2
  <2> QED
    BY <1>1, <1>2, <1>5, <1>6, <2>1, <2>3, CallOnce, BrokenSo
<1>7. CASE UNCHANGED owed
  <2>1. owed' \subseteq Promises /\ Owing' = Owing /\ \A pr \in owed' : pr.notBefore <= now + Interval
    BY <1>5, <1>7, FewerOwed DEF Owing
  <2> QED
    BY <1>1, <1>2, <1>4, <1>5, <1>7, <2>1, CallOnce, BrokenSo
<1> QED
  BY <1>6, <1>7

LEMMA RepeatStep ==
    ASSUME IInv, Healthy, NEW l \in Lights, NEW p \in ProfileOf(l), Repeat(l, p),
           UNCHANGED <<world, missed, broken, damaged>>
    PROVE  IInv'
<1>1. PICK k \in Covering(l) :
          LET rec == Extended(mem.prot[k])
              doc == [mem EXCEPT !.prot[k] = rec]
          IN  /\ \/ Acked(<<doc>>, sens) /\ Noted(rec, {})
                 \/ Fails(<<doc>>, sens) /\ UNCHANGED owed
              /\ UNCHANGED born
  BY DEF Repeat
<1> DEFINE rec == Extended(mem.prot[k])
           doc == [mem EXCEPT !.prot[k] = rec]
<1>2. k \in Held /\ mem.prot[k] \in Records
  BY HeldRecords DEF Covering, IInv
<1>3. now + Interval \in Times /\ now \in Nat
  BY Constants DEF IInv, TypeOK, Times
<1>4. rec \in Records /\ rec.notBefore = now + Interval
      /\ rec = [mem.prot[k] EXCEPT !.notBefore = rec.notBefore]
  BY <1>2, <1>3 DEF Extended, Records
<1>5. mem.prot[k].notBefore <= now + Interval
  BY <1>2, HeldRecords DEF IInv, Bounded, Bound, Held
<1>6. rec.notBefore >= mem.prot[k].notBefore /\ rec.notBefore <= now + Interval
  BY <1>3, <1>4, <1>5, Constants
<1>7. Outcomes(<<doc>>, sens)
  BY <1>1 DEF Outcomes, Fails
<1> HIDE DEF rec
<1> QED
  BY <1>1, <1>2, <1>4, <1>6, <1>7, ProlongStep DEF rec

\* The coordinator only opens or closes.
LEMMA ClosesStep ==
    ASSUME IInv, UNCHANGED <<disk, up, mem, sens, world, missed, owed, born, damaged>>,
           unhealthy' \in {unhealthy, TRUE}, covered' \in BOOLEAN, faults' \in 0..MaxFaults,
           broken' \subseteq Excuses \ {"none"}
    PROVE  IInv'
<1> USE DEF IInv, world
<1>1. TypeOK'
  BY DEF TypeOK
<1>2. Bounded' /\ ProtectionHolds'
  BY DEF Bounded, Bound, ProtectionHolds, Valid
<1>3. Promised' /\ Undamaged'
  BY DEF Promised, Undamaged, Owing, Keeps, Valid
<1>4. Evident'
  BY DEF Evident
<1> QED
  BY <1>1, <1>2, <1>3, <1>4

LEMMA ManualOffStep ==
    ASSUME IInv, NEW l \in Lights, ManualOff(l)
    PROVE  IInv'
<1>1. PICK p \in ProfileOf(l) : Activate(l, p) \/ Overflow(l, p) \/ Repeat(l, p)
  BY DEF ManualOff
<1>2. Healthy /\ UNCHANGED <<world, missed, broken, damaged>>
  BY DEF ManualOff
<1>3. CASE Overflow(l, p)
  BY <1>2, <1>3, ClosesStep, BrokenSo DEF Overflow, IInv, TypeOK
<1> QED
  BY <1>1, <1>2, <1>3, ActivateStep, RepeatStep

\* The records of a light end one by one.
LEMMA OneByOneFacts ==
    ASSUME IInv, NEW ks \in SUBSET Held, ks # {}, NEW docs \in EndedOneByOne(ks)
    PROVE  /\ docs \in Seq(Payloads) /\ Len(docs) \in Nat \ {0}
           /\ \A i \in 1..Len(docs) : \E some \in SUBSET ks : docs[i] = Without(mem, some)
<1>1. IsFiniteSet(ks)
  BY KeysAreFinite, FS_Subset DEF Held
<1>2. PICK n \in Nat : n = Cardinality(ks)
  BY <1>1, FS_CardinalityType
<1>3. n # 0
  BY <1>1, <1>2, FS_EmptySet
<1>4. PICK order \in SetToSeqs(ks) :
          docs = [i \in DOMAIN order |-> Without(mem, {order[j] : j \in 1..i})]
  BY DEF EndedOneByOne
<1>5. DOMAIN order = 1..n /\ \A i \in 1..n : order[i] \in ks
  BY <1>2, <1>4 DEF SetToSeqs
<1>6. docs = [i \in 1..n |-> Without(mem, {order[j] : j \in 1..i})]
  BY <1>4, <1>5
<1>7. \A some : Without(mem, some) \in Payloads
  BY WithoutFacts DEF IInv, TypeOK
<1>8. docs \in Seq(Payloads) /\ Len(docs) = n
  BY <1>6, <1>7
<1>9. ASSUME NEW i \in 1..n
      PROVE  \E some \in SUBSET ks : docs[i] = Without(mem, some)
  <2> DEFINE some == {order[j] : j \in 1..i}
  <2>1. some \in SUBSET ks
    BY <1>5
  <2>2. docs[i] = Without(mem, some)
    BY <1>6
  <2> HIDE DEF some
  <2> QED
    BY <2>1, <2>2
<1> QED
  BY <1>3, <1>8, <1>9

LEMMA ManualOnStep ==
    ASSUME IInv, NEW l \in Lights, ManualOn(l)
    PROVE  IInv'
<1> DEFINE ks == Covering(l)
<1>1. PICK docs \in EndedOneByOne(ks) : Acked(docs, sens) \/ Fails(docs, sens)
  BY DEF ManualOn
<1>2. Healthy /\ ks # {} /\ Settle(ks) /\ UNCHANGED <<world, missed, born, broken, damaged>>
  BY DEF ManualOn
<1>3. ks \in SUBSET Held
  BY DEF Covering
<1> HIDE DEF ks
<1>4. PICK n \in Nat \ {0} : n = Len(docs)
  BY <1>2, <1>3, OneByOneFacts
<1>5. docs \in Seq(Payloads) /\ \A i \in 1..n : \E some \in SUBSET ks : docs[i] = Without(mem, some)
  BY <1>2, <1>3, <1>4, OneByOneFacts
<1>6. UNCHANGED <<now, damaged>>
  BY <1>2 DEF world
<1>7. owed' \subseteq owed /\ \A pr \in Owing', i \in 1..n : Keeps(docs[i], pr)
  BY <1>2, <1>3, <1>5, <1>6, SettleKeeps
<1>8. \A i \in 1..n : Bound(docs[i])
  BY <1>5, WithoutBound DEF IInv, TypeOK, Bounded
<1>9. Outcomes(docs, sens)
  BY <1>1 DEF Outcomes, Fails
<1>10. born' \in 0..MaxBorn
  BY <1>2 DEF IInv, TypeOK
<1> QED
  BY <1>2, <1>4, <1>5, <1>6, <1>7, <1>8, <1>9, <1>10, CallStep, FewerOwed, BrokenSo

---------------------------------------------------------------------------
(* Evidence.                                                                 *)

\* Evidence is saved with the records that it concerns, which stay as they are.
LEMMA RemarksFacts ==
    ASSUME IInv, NEW s, NEW docs \in Remarks(s), docs # <<>>
    PROVE  /\ docs \in Seq(Payloads) /\ Len(docs) \in Nat \ {0}
           /\ \A i \in 1..Len(docs) : docs[i] = mem
<1>1. IsFiniteSet(Tracking(s))
  BY KeysAreFinite, FS_Subset DEF Tracking, Held
<1>2. PICK n \in 0..Cardinality(Tracking(s)) : docs = [i \in 1..n |-> mem]
  BY DEF Remarks
<1>3. n \in Nat /\ mem \in Payloads
  BY <1>1, <1>2, FS_CardinalityType DEF IInv, TypeOK
<1>4. docs \in Seq(Payloads) /\ Len(docs) = n /\ \A i \in 1..n : docs[i] = mem
  BY <1>2, <1>3
<1>5. n # 0
  BY <1>4
<1> QED
  BY <1>3, <1>4, <1>5

\* What a report leaves when it is noticed.
LEMMA NoticedFacts ==
    ASSUME IInv, NEW s \in Sensors, NEW known \in Evidence, Notices(s, known),
           UNCHANGED <<now, owed, damaged>>
    PROVE  /\ disk' \in Disks /\ mem' \in Payloads /\ Len(mem'.receipts) <= ReceiptCapacity
           /\ up' \in BOOLEAN /\ unhealthy' \in BOOLEAN /\ covered' \in BOOLEAN
           /\ sens' \in [Sensors -> Evidence] /\ faults' \in 0..MaxFaults
           /\ Bounded' /\ Promised' /\ Undamaged' /\ missed' \subseteq Sensors
           /\ \A u \in Sensors \ {s} : /\ u \in missed' <=> u \in missed
                                       /\ sens'[u] \in {sens[u], Unknown}
           /\ \/ sens'[s] \in {known, Unknown}
              \/ s \in missed' /\ sens'[s] = sens[s]
<1> USE DEF IInv
<1>1. sens \in [Sensors -> Evidence] /\ missed \subseteq Sensors
  BY DEF TypeOK
<1>2. Observed(s, known) \in [Sensors -> Evidence]
      /\ Observed(s, known)[s] = known
      /\ \A u \in Sensors \ {s} : Observed(s, known)[u] = sens[u]
  BY <1>1 DEF Observed
<1>3. Owing' = Owing
  BY DEF Owing
<1>4. UNCHANGED <<disk, up, mem, unhealthy, covered, faults>> =>
         /\ Bounded' /\ Promised' /\ Undamaged'
         /\ disk' \in Disks /\ mem' \in Payloads /\ Len(mem'.receipts) <= ReceiptCapacity
         /\ up' \in BOOLEAN /\ unhealthy' \in BOOLEAN /\ covered' \in BOOLEAN
         /\ faults' \in 0..MaxFaults
  BY <1>3 DEF Bounded, Promised, Undamaged, Bound, Valid, Keeps, TypeOK
<1>5. CASE ~Healthy \/ Tracking(s) = {}
  <2>1. /\ UNCHANGED <<disk, up, mem, sens, unhealthy, covered, faults>>
        /\ missed' = IF sens[s] = Unknown THEN missed ELSE missed \union {s}
    BY <1>5 DEF Notices, code
  <2> QED
    BY <1>1, <1>4, <2>1
<1>6. CASE ~(~Healthy \/ Tracking(s) = {})
  <2>1. missed' = missed \ {s}
    BY <1>6 DEF Notices
  <2>2. PICK docs \in Remarks(s) :
           IF docs = <<>>
             THEN /\ sens' = Observed(s, known)
                  /\ UNCHANGED <<disk, up, mem, unhealthy, covered, faults>>
             ELSE Acked(docs, Observed(s, known)) \/ Fails(docs, Observed(s, known))
    BY <1>6 DEF Notices
  <2>3. CASE docs = <<>>
    BY <1>1, <1>2, <1>4, <2>1, <2>2, <2>3
  <2>4. CASE docs # <<>>
    <3>1. PICK n \in Nat \ {0} : n = Len(docs)
      BY <2>4, RemarksFacts
    <3>2. docs \in Seq(Payloads) /\ \A i \in 1..n : docs[i] = mem
      BY <2>4, <3>1, RemarksFacts
    <3>3. PICK new \in [Sensors -> Evidence] : new = Observed(s, known)
      BY <1>2
    <3>4. Outcomes(docs, new)
      BY <2>2, <2>4, <3>3 DEF Outcomes, Fails
    <3>5. \A i \in 1..n : Bound(docs[i])
      BY <3>2 DEF Bounded
    <3>6. /\ disk' \in Disks /\ mem' \in Payloads /\ Len(mem'.receipts) <= ReceiptCapacity
          /\ up' \in BOOLEAN /\ unhealthy' \in BOOLEAN /\ covered' \in BOOLEAN
          /\ sens' \in [Sensors -> Evidence] /\ faults' \in 0..MaxFaults
          /\ Bounded'
      BY <3>1, <3>2, <3>4, <3>5, CallTypes
    <3>7. Promised' /\ Undamaged'
      <4>1. \A pr \in owed' : pr.notBefore <= now + Interval
        BY DEF Promised
      <4>2. \A pr \in Owing' : \A i \in 1..n : Keeps(docs[i], pr)
        BY <1>3, <1>6, <3>2, OpenKeeps
      <4> QED
        BY <1>3, <3>1, <3>2, <3>4, <4>1, <4>2, CallPromised
    <3>8. sens' = new \/ \A u \in Sensors : sens'[u] = Unknown
      BY <3>1, <3>2, <3>4, CallFacts, DeadFacts
    <3> QED
      BY <1>1, <1>2, <2>1, <3>3, <3>6, <3>7, <3>8
  <2> QED
    BY <2>3, <2>4
<1> QED
  BY <1>5, <1>6

\* A report of what the sensor sees, or of nothing.
LEMMA ReportsStep ==
    ASSUME IInv, NEW s \in Sensors, NEW known \in Evidence, Notices(s, known),
           reported' = [reported EXCEPT ![s] = known],
           room' \in [Sensors -> Evidence], \A u \in Sensors \ {s} : room'[u] = room[u],
           \/ known = Unknown /\ room'[s] = room[s]
           \/ known # Unknown /\ known.st = room'[s].st,
           room'[s].at <= now, known = Unknown \/ room'[s].at <= known.at,
           UNCHANGED <<now, owed, born, broken, damaged>>
    PROVE  IInv'
<1> USE DEF IInv
<1>1. reported' \in [Sensors -> Evidence] /\ reported'[s] = known
      /\ \A u \in Sensors \ {s} : reported'[u] = reported[u]
  BY DEF TypeOK
<1>2. Unknown.st # "off"
  BY DEF Unknown
<1>3. TypeOK'
  BY <1>1, NoticedFacts DEF TypeOK
<1>4. Bounded' /\ Promised' /\ Undamaged' /\ ProtectionHolds'
  BY NoticedFacts DEF ProtectionHolds
<1>5. Evident'
  <2> SUFFICES ASSUME NEW u \in Sensors
               PROVE  /\ room'[u].at <= now
                      /\ reported'[u] = Unknown
                         \/ (reported'[u].st = room'[u].st /\ room'[u].at <= reported'[u].at)
                      /\ u \notin missed' /\ sens'[u].st = "off" =>
                            reported'[u] # Unknown /\ room'[u].st = "off" /\ room'[u].at <= sens'[u].at
    BY DEF Evident
  <2>1. CASE u = s
    <3>1. s \notin missed' /\ sens'[s].st = "off" => sens'[s] = known /\ known # Unknown
      BY <1>2, NoticedFacts
    <3> QED
      BY <1>1, <2>1, <3>1
  <2>2. CASE u # s
    <3>1. u \in missed' <=> u \in missed
      BY <2>2, NoticedFacts
    <3>2. sens'[u] \in {sens[u], Unknown}
      BY <2>2, NoticedFacts
    <3> QED
      BY <1>1, <1>2, <2>2, <3>1, <3>2 DEF Evident
  <2> QED
    BY <2>1, <2>2
<1> QED
  BY <1>3, <1>4, <1>5

LEMMA PresenceStep ==
    ASSUME IInv, NEW s \in Sensors, Presence(s)
    PROVE  IInv'
<1> DEFINE known == [st |-> IF room[s].st = "on" THEN "off" ELSE "on", at |-> now]
<1>1. /\ room' = [room EXCEPT ![s] = known]
      /\ \/ reported[s] # Unknown /\ Reports(s, known)
         \/ reported[s] = Unknown /\ UNCHANGED <<reported, missed, code, faults>>
      /\ UNCHANGED <<now, owed, born, broken, damaged>>
  BY DEF Presence
<1>2. TypeOK /\ now \in Times
  BY Constants DEF IInv, TypeOK, Times
<1>3. known \in Evidence /\ known # Unknown /\ known.at = now
  BY <1>2 DEF Evidence, Unknown
<1> HIDE DEF known
<1>4. /\ room' \in [Sensors -> Evidence] /\ room'[s] = known
      /\ \A u \in Sensors \ {s} : room'[u] = room[u]
  BY <1>1, <1>2, <1>3 DEF TypeOK
<1>5. room'[s].at <= now /\ room'[s].at <= known.at
  BY <1>2, <1>3, <1>4, Constants DEF TypeOK
<1>6. CASE Reports(s, known)
  BY <1>1, <1>3, <1>4, <1>5, <1>6, ReportsStep DEF Reports
<1>7. CASE reported[s] = Unknown /\ UNCHANGED <<reported, missed, code, faults>>
  <2>1. TypeOK' /\ Bounded' /\ ProtectionHolds'
    BY <1>1, <1>2, <1>4, <1>7 DEF IInv, TypeOK, code, Bounded, Bound, Valid, ProtectionHolds
  <2>2. Promised' /\ Undamaged'
    BY <1>1, <1>7 DEF IInv, code, Promised, Undamaged, Owing, Keeps, Valid
  <2>3. Evident'
    BY <1>1, <1>4, <1>5, <1>7 DEF IInv, code, Evident
  <2> QED
    BY <2>1, <2>2, <2>3 DEF IInv
<1> QED
  BY <1>1, <1>6, <1>7

LEMMA UntrustedStep ==
    ASSUME IInv, NEW s \in Sensors, Untrusted(s)
    PROVE  IInv'
<1>1. Reports(s, Unknown) /\ UNCHANGED <<now, room, owed, born, broken, damaged>>
  BY DEF Untrusted
<1>2. Unknown \in Evidence
  BY Constants DEF Unknown, Evidence, Times
<1>3. room' \in [Sensors -> Evidence] /\ room'[s].at <= now
  BY <1>1 DEF IInv, TypeOK, Evident
<1> QED
  BY <1>1, <1>2, <1>3, ReportsStep DEF Reports

LEMMA ReportsAgainStep ==
    ASSUME IInv, NEW s \in Sensors, ReportsAgain(s)
    PROVE  IInv'
<1>1. PICK known : known = [st |-> room[s].st, at |-> now]
  OBVIOUS
<1>2. Reports(s, known) /\ UNCHANGED <<now, room, owed, born, broken, damaged>>
  BY <1>1 DEF ReportsAgain
<1>3. now \in Times /\ room[s] \in Evidence
  BY Constants DEF IInv, TypeOK, Times
<1>4. known \in Evidence /\ known.st = room[s].st /\ known.at = now
  BY <1>1, <1>3 DEF Evidence
<1>5. room' \in [Sensors -> Evidence] /\ room' = room /\ room[s].at <= now
  BY <1>2 DEF IInv, TypeOK, Evident
<1> QED
  BY <1>2, <1>4, <1>5, ReportsStep DEF Reports

---------------------------------------------------------------------------
(* Automation asks.                                                          *)

\* What the coordinator finds due is so in the world, for a promise of the record whose
\* evidence is not stale.
LEMMA DueIsEarned ==
    ASSUME IInv, NEW pr \in Promises, NEW rec \in Records, Due(rec, sens),
           rec.sensors = pr.sensors, rec.policy = pr.policy, rec.notBefore >= pr.notBefore,
           pr.sensors \cap missed = {}
    PROVE  Earned(pr)
<1>1. now \in Nat /\ rec.notBefore \in Nat /\ pr.notBefore \in Nat /\ Stable \in Nat
  BY Constants DEF IInv, TypeOK, Records, Promises, Times
<1>2. now >= rec.notBefore => now >= pr.notBefore
  BY <1>1
<1>3. Absence(rec, sens) => Absence(pr, room)
  <2>1. CASE rec.sensors = {}
    BY <1>2, <2>1 DEF Absence
  <2>2. CASE rec.sensors # {}
    <3> SUFFICES ASSUME NEW s \in rec.sensors, sens[s].st = "off", now >= sens[s].at + Stable
                 PROVE  room[s].st = "off" /\ now >= room[s].at + Stable
      BY <2>2 DEF Absence
    <3>1. s \in Sensors /\ s \notin missed
      BY DEF Records
    <3>2. room[s].st = "off" /\ room[s].at <= sens[s].at
      BY <3>1 DEF IInv, Evident
    <3>3. room[s].at \in Nat /\ sens[s].at \in Nat
      BY <3>1, Constants DEF IInv, TypeOK, Evidence, Times
    <3> QED
      BY <1>1, <3>2, <3>3
  <2> QED
    BY <2>1, <2>2
<1> QED
  BY <1>2, <1>3 DEF Due, Earned

\* No promise is broken without an excuse when all records of the light are due.
LEMMA GrantedFacts ==
    ASSUME IInv, Healthy, NEW l \in Lights, Granted(l),
           \A k \in Covering(l) : MayRelease(mem.prot[k], sens)
    PROVE  broken' \subseteq Excuses \ {"none"}
<1> DEFINE Of(pr) == IF pr.excuse = "none" /\ pr.sensors \intersect missed # {}
                       THEN "stale" ELSE pr.excuse
<1>1. broken' = broken \union {Of(pr) : pr \in {pr \in owed : l \in pr.lights /\ ~Earned(pr)}}
  BY DEF Granted
<1>2. ASSUME NEW pr \in owed, l \in pr.lights, ~Earned(pr)
      PROVE  Of(pr) \in Excuses \ {"none"}
  <2>1. pr \in Promises
    BY DEF IInv, TypeOK
  <2>2. CASE pr.excuse # "none"
    BY <2>1, <2>2 DEF Promises
  <2>3. CASE pr.excuse = "none"
    <3>1. PICK k \in Keys : /\ mem.prot[k] # Nothing
                            /\ mem.prot[k].lights = pr.lights
                            /\ mem.prot[k].sensors = pr.sensors
                            /\ mem.prot[k].policy = pr.policy
                            /\ mem.prot[k].notBefore >= pr.notBefore
      BY <2>3, OpenKeeps DEF Owing, Keeps
    <3>2. k \in Covering(l) /\ k \in Held
      BY <1>2, <3>1 DEF Covering, Held
    <3>3. mem.prot[k] \in Records /\ Due(mem.prot[k], sens)
      BY <3>2, HeldRecords DEF IInv, MayRelease
    <3>4. pr.sensors \cap missed # {}
      BY <1>2, <2>1, <3>1, <3>3, DueIsEarned
    <3> QED
      BY <2>3, <3>4 DEF Excuses
  <2> QED
    BY <2>2, <2>3
<1> HIDE DEF Of
<1>3. broken \subseteq Excuses \ {"none"}
  BY DEF IInv, TypeOK, ProtectionHolds
<1> QED
  BY <1>1, <1>2, <1>3

LEMMA DecideStep ==
    ASSUME IInv, NEW l \in Lights, Decide(l)
    PROVE  IInv'
<1>1. PICK ks : ks = Released(l)
  OBVIOUS
<1>2. Healthy /\ UNCHANGED <<world, missed, born, damaged>>
  BY DEF Decide
<1>3. \/ Covering(l) = {} /\ Granted(l) /\ UNCHANGED <<code, faults, owed>>
      \/ /\ ks # {} /\ Settle(ks)
         /\ \/ Acked(<<Without(mem, ks)>>, sens) /\ Granted(l)
            \/ Fails(<<Without(mem, ks)>>, sens) /\ UNCHANGED broken
  BY <1>1 DEF Decide
<1>4. CASE Covering(l) = {} /\ Granted(l) /\ UNCHANGED <<code, faults, owed>>
  <2>1. broken' \subseteq Excuses \ {"none"}
    BY <1>2, <1>4, GrantedFacts
  <2> QED
    BY <1>2, <1>4, <2>1, ClosesStep DEF code, IInv, TypeOK
<1>5. CASE /\ ks # {} /\ Settle(ks)
           /\ \/ Acked(<<Without(mem, ks)>>, sens) /\ Granted(l)
              \/ Fails(<<Without(mem, ks)>>, sens) /\ UNCHANGED broken
  <2>1. ks = Covering(l) /\ \A k \in Covering(l) : MayRelease(mem.prot[k], sens)
    BY <1>1, <1>5 DEF Released
  <2>2. ks \in SUBSET Held
    BY <2>1 DEF Covering
  <2>3. PICK doc : doc = Without(mem, ks)
    OBVIOUS
  <2>4. UNCHANGED <<now, damaged>>
    BY <1>2 DEF world
  <2>5. doc \in Payloads /\ Bound(doc)
    BY <2>3, WithoutFacts, WithoutBound DEF IInv, TypeOK, Bounded
  <2>6. owed' \subseteq owed /\ \A pr \in Owing' : Keeps(doc, pr)
    BY <1>2, <1>5, <2>2, <2>3, <2>4, SettleKeeps
  <2>7. Outcomes(<<doc>>, sens)
    BY <1>5, <2>3 DEF Outcomes, Fails
  <2>8. broken' \subseteq Excuses \ {"none"}
    BY <1>2, <1>5, <2>1, GrantedFacts, BrokenSo
  <2>9. born' \in 0..MaxBorn
    BY <1>2 DEF IInv, TypeOK
  <2> QED
    BY <1>2, <2>4, <2>5, <2>6, <2>7, <2>8, <2>9, CallOnce, FewerOwed
<1> QED
  BY <1>3, <1>4, <1>5

---------------------------------------------------------------------------
(* Requests.                                                                 *)

\* The receipts stay within their capacity: the oldest one makes room.
LEMMA ReceiptFacts ==
    ASSUME NEW doc \in Payloads, NEW q \in Requests, Len(doc.receipts) <= ReceiptCapacity
    PROVE  /\ WithReceipt(doc, q) \in Payloads /\ WithReceipt(doc, q).prot = doc.prot
           /\ Len(WithReceipt(doc, q).receipts) <= ReceiptCapacity
<1> DEFINE Receipts == [req : Requests, doc : Settings]
           r == [req |-> q, doc |-> doc.settings]
           all == Append(doc.receipts, r)
           new == IF Len(all) > ReceiptCapacity THEN Tail(all) ELSE all
<1>1. doc.receipts \in Seq(Receipts) /\ r \in Receipts /\ doc.settings \in Settings
  BY DEF Payloads
<1>2. PICK n \in Nat : n = Len(doc.receipts)
  BY <1>1
<1> HIDE DEF r, Receipts
<1>3. all \in Seq(Receipts) /\ Len(all) = n + 1
  BY <1>1, <1>2
<1> HIDE DEF all
<1>4. all # <<>>
  BY <1>2, <1>3
<1>5. Tail(all) \in Seq(Receipts) /\ Len(Tail(all)) = n
  BY <1>2, <1>3, <1>4
<1>6. new \in Seq(Receipts) /\ Len(new) <= ReceiptCapacity
  BY <1>2, <1>3, <1>5, Constants
<1>7. WithReceipt(doc, q) = [doc EXCEPT !.receipts = new]
  BY DEF WithReceipt, all, r
<1> HIDE DEF new
<1> QED
  BY <1>6, <1>7 DEF Payloads, Receipts

LEMMA ReplaceSettingsStep ==
    ASSUME IInv, NEW q \in Requests, NEW doc \in Settings, ReplaceSettings(q, doc)
    PROVE  IInv'
<1> DEFINE set == [mem EXCEPT !.settings = doc, !.rev = @ + 1]
           new == WithReceipt(set, q)
<1>1. Healthy /\ UNCHANGED <<world, missed, owed, born, broken, damaged>>
  BY DEF ReplaceSettings
<1>2. \/ UNCHANGED <<code, faults>>
      \/ mem.rev < MaxRevision /\ Outcomes(<<new>>, sens)
  BY DEF ReplaceSettings, Outcomes, Fails
<1>3. CASE UNCHANGED <<code, faults>>
  BY <1>1, <1>3, ClosesStep, BrokenSo DEF code, IInv, TypeOK
<1>4. CASE mem.rev < MaxRevision /\ Outcomes(<<new>>, sens)
  <2>1. mem \in Payloads /\ Bound(mem)
    BY DEF IInv, TypeOK, Bounded
  <2>2. set \in Payloads /\ set.prot = mem.prot /\ set.receipts = mem.receipts
    <3>1. mem.rev + 1 \in 0..MaxRevision
      BY <1>4, <2>1, Constants DEF Payloads
    <3> QED
      BY <2>1, <3>1 DEF Payloads
  <2> HIDE DEF set
  <2>3. /\ new \in Payloads /\ new.prot = mem.prot
        /\ Len(new.receipts) <= ReceiptCapacity
    BY <2>1, <2>2, ReceiptFacts DEF Bound
  <2> HIDE DEF new
  <2>4. Bound(new)
    BY <2>1, <2>3 DEF Bound
  <2>5. Owing' = Owing /\ \A pr \in Owing : Keeps(new, pr)
    BY <1>1, <2>3, OpenKeeps DEF Owing, Keeps
  <2>6. UNCHANGED <<now, damaged>> /\ born' \in 0..MaxBorn
    BY <1>1 DEF world, IInv, TypeOK
  <2>7. owed' \subseteq Promises /\ \A pr \in owed' : pr.notBefore <= now + Interval
    BY <1>1, <2>6, FewerOwed
  <2> QED
    BY <1>1, <1>4, <2>3, <2>4, <2>5, <2>6, <2>7, CallOnce, BrokenSo
<1> QED
  BY <1>2, <1>3, <1>4

LEMMA ReleaseStep ==
    ASSUME IInv, NEW p, Release(p)
    PROVE  IInv'
<1>1. PICK k \in Held :
         /\ Healthy
         /\ \/ Acked(<<Without(mem, {k})>>, sens) \/ Fails(<<Without(mem, {k})>>, sens)
            \/ Cancelled(<<Without(mem, {k})>>, sens)
         /\ Settle({k})
         /\ UNCHANGED <<world, missed, born, broken, damaged>>
  BY DEF Release
<1>2. PICK doc : doc = Without(mem, {k})
  OBVIOUS
<1>3. UNCHANGED <<now, damaged>>
  BY <1>1 DEF world
<1>4. doc \in Payloads /\ Bound(doc)
  BY <1>2, WithoutFacts, WithoutBound DEF IInv, TypeOK, Bounded
<1>5. owed' \subseteq owed /\ \A pr \in Owing' : Keeps(doc, pr)
  BY <1>1, <1>2, <1>3, SettleKeeps
<1>6. Outcomes(<<doc>>, sens)
  BY <1>1, <1>2 DEF Outcomes, Fails
<1>7. born' \in 0..MaxBorn
  BY <1>1 DEF IInv, TypeOK
<1> QED
  BY <1>1, <1>3, <1>4, <1>5, <1>6, <1>7, CallOnce, FewerOwed, BrokenSo

\* The record of the direct offs, new or started again.
LEMMA DirectRecordFacts ==
    ASSUME IInv, NEW rec, rec = DirectRecord, rec.born <= MaxBorn
    PROVE  /\ DirectKey \in Keys /\ rec \in Records
           /\ rec.notBefore <= now + Interval
           /\ Maximum(born, rec.born) \in 0..MaxBorn
           /\ mem.prot[DirectKey] # Nothing =>
                 /\ mem.prot[DirectKey] \in Records
                 /\ rec = [mem.prot[DirectKey] EXCEPT !.notBefore = rec.notBefore]
                 /\ rec.notBefore >= mem.prot[DirectKey].notBefore
<1>1. DirectKey \in Keys /\ mem.prot[DirectKey] \in Records \union {Nothing}
  BY DEF DirectKey, Keys, IInv, TypeOK, Payloads
<1>2. now \in Nat /\ now + Interval \in Times /\ born \in 0..MaxBorn /\ born \in Nat
  BY Constants DEF IInv, TypeOK, Times
<1>3. CASE mem.prot[DirectKey] = Nothing
  <2>1. rec = [lights |-> DirectLights, sensors |-> DirectSensors, policy |-> DirectPolicy,
               notBefore |-> now + Interval, born |-> born + 1]
    BY <1>3 DEF DirectRecord
  <2>2. DirectLights \subseteq Lights /\ DirectSensors \subseteq Sensors /\ DirectPolicy \in Policies
    BY ManualOffAssumption DEF DirectPolicy, Policies, Modes
  <2>3. born + 1 \in 1..MaxBorn /\ rec.born = born + 1
    BY <1>2, <2>1, Constants
  <2>4. rec \in Records
    BY <1>2, <2>1, <2>2, <2>3 DEF Records
  <2>5. rec.notBefore <= now + Interval
    BY <1>2, <2>1, Constants
  <2> QED
    BY <1>1, <1>2, <1>3, <2>3, <2>4, <2>5, Constants DEF Maximum
<1>4. CASE mem.prot[DirectKey] # Nothing
  <2>1. PICK old \in Records : old = mem.prot[DirectKey]
    BY <1>1, <1>4
  <2>2. rec = [old EXCEPT !.notBefore = Maximum(now + Interval, @)]
    BY <1>4, <2>1 DEF DirectRecord
  <2>3. old.notBefore \in Times /\ old.notBefore \in Nat /\ old.notBefore <= now + Interval
    BY <1>1, <1>4, <2>1, Constants DEF Records, Times, IInv, Bounded, Bound
  <2>4. Maximum(now + Interval, old.notBefore) = now + Interval
    BY <1>2, <2>3, Constants DEF Maximum
  <2>5. rec \in Records /\ rec.notBefore = now + Interval /\ rec.born = old.born
        /\ rec = [old EXCEPT !.notBefore = now + Interval]
    BY <1>2, <2>2, <2>4 DEF Records
  <2>6. rec.born \in 1..MaxBorn
    BY <2>5 DEF Records
  <2> QED
    BY <1>1, <1>2, <2>1, <2>3, <2>5, <2>6, Constants DEF Maximum
<1> QED
  BY <1>1, <1>3, <1>4

\* The evidence that is read again is that of the direct sensors.
LEMMA RestoredFacts ==
    ASSUME IInv
    PROVE  /\ RestoredEvidence \in [Sensors -> Evidence]
           /\ \A s \in Sensors :
                 RestoredEvidence[s] \in IF s \in DirectSensors THEN {reported[s], Unknown}
                                                                ELSE {sens[s], Unknown}
<1>1. Unknown \in Evidence
  BY Constants DEF Unknown, Evidence, Times
<1> QED
  BY <1>1 DEF IInv, TypeOK, RestoredEvidence

LEMMA ArmDirectStep ==
    ASSUME IInv, ArmDirect
    PROVE  IInv'
<1> DEFINE doc == [mem EXCEPT !.prot[DirectKey] = DirectRecord]
<1>1. PICK rec : rec = DirectRecord
  OBVIOUS
<1>2. PICK known : known = RestoredEvidence
  OBVIOUS
<1>3. /\ Healthy /\ rec.born <= MaxBorn /\ born' = Maximum(born, rec.born)
      /\ \/ Acked(<<doc>>, known) /\ Noted(rec, {})
         \/ Fails(<<doc>>, known) /\ UNCHANGED owed
      /\ missed' = missed \ DirectSensors
      /\ UNCHANGED <<now, room, reported, broken, damaged>>
  BY <1>1, <1>2 DEF ArmDirect, world
<1>4. /\ TypeOK /\ Bounded /\ Promised /\ Undamaged /\ Evident /\ ProtectionHolds
      /\ mem \in Payloads /\ Bound(mem)
  BY DEF IInv, TypeOK, Bounded
<1>5. /\ DirectKey \in Keys /\ rec \in Records /\ rec.notBefore <= now + Interval
      /\ born' \in 0..MaxBorn
      /\ mem.prot[DirectKey] # Nothing =>
            /\ mem.prot[DirectKey] \in Records
            /\ rec = [mem.prot[DirectKey] EXCEPT !.notBefore = rec.notBefore]
            /\ rec.notBefore >= mem.prot[DirectKey].notBefore
  BY <1>1, <1>3, DirectRecordFacts
<1>6. doc = [mem EXCEPT !.prot[DirectKey] = rec]
  BY <1>1
<1> HIDE DEF doc
<1>7. doc \in Payloads /\ Bound(doc)
  BY <1>4, <1>5, <1>6, PutFacts, PutBound
<1>8. \A pr \in Owing : Keeps(doc, pr)
  <2>1. CASE mem.prot[DirectKey] = Nothing
    BY <1>3, <1>4, <1>5, <1>6, <2>1, OpenKeeps, PutKeeps
  <2>2. CASE mem.prot[DirectKey] # Nothing
    <3>1. DirectKey \in Held
      BY <1>5, <2>2 DEF Held
    <3> QED
      BY <1>3, <1>5, <1>6, <2>2, <3>1, ProlongKeeps
  <2> QED
    BY <2>1, <2>2
<1>9. /\ owed' \subseteq Promises /\ \A pr \in owed' : pr.notBefore <= now + Interval
      /\ \A pr \in Owing' : Keeps(doc, pr)
      /\ Acked(<<doc>>, known) \/ Owing' \subseteq Owing
  <2>1. CASE Acked(<<doc>>, known) /\ Noted(rec, {})
    <3>1. /\ owed' \subseteq Promises /\ \A pr \in owed' : pr.notBefore <= now + Interval
          /\ \A pr \in Owing' : pr = PromiseOf(rec) \/ pr \in Owing
      BY <1>3, <1>5, <2>1, NotedFacts
    <3>2. rec.notBefore >= rec.notBefore
      BY <1>5, Constants DEF Records, Times
    <3>3. Keeps(doc, PromiseOf(rec))
      BY <1>4, <1>5, <1>6, <3>2, PutKeeps DEF PromiseOf
    <3> QED
      BY <1>8, <2>1, <3>1, <3>3
  <2>2. CASE UNCHANGED owed
    <3>1. owed' \subseteq Promises /\ \A pr \in owed' : pr.notBefore <= now + Interval
      BY <1>3, <2>2, FewerOwed
    <3>2. Owing' = Owing
      BY <2>2 DEF Owing
    <3> QED
      BY <1>8, <3>1, <3>2
  <2> QED
    BY <1>3, <2>1, <2>2
<1>10. known \in [Sensors -> Evidence]
       /\ \A s \in Sensors : known[s] \in IF s \in DirectSensors THEN {reported[s], Unknown}
                                                                ELSE {sens[s], Unknown}
  BY <1>2, RestoredFacts
<1>11. Outcomes(<<doc>>, known)
  BY <1>3 DEF Outcomes, Fails
<1>12. PICK docs : docs = <<doc>>
  OBVIOUS
<1>13. docs \in Seq(Payloads) /\ 1 = Len(docs) /\ \A i \in 1..1 : docs[i] = doc
  BY <1>7, <1>12, OneDocument
<1>14. 1 \in Nat \ {0} /\ Outcomes(docs, known) /\ (\A i \in 1..1 : Bound(docs[i]))
       /\ (\A pr \in Owing' : \A i \in 1..1 : Keeps(docs[i], pr))
       /\ (Acked(docs, known) \/ Owing' \subseteq Owing)
  BY <1>7, <1>9, <1>11, <1>12, <1>13
<1>15. /\ disk' \in Disks /\ mem' \in Payloads /\ Len(mem'.receipts) <= ReceiptCapacity
       /\ up' \in BOOLEAN /\ unhealthy' \in BOOLEAN /\ covered' \in BOOLEAN
       /\ sens' \in [Sensors -> Evidence] /\ faults' \in 0..MaxFaults
       /\ Bounded'
  BY <1>3, <1>4, <1>10, <1>13, <1>14, CallTypes
<1>16. TypeOK'
  BY <1>3, <1>4, <1>5, <1>9, <1>15 DEF TypeOK
<1>17. Promised' /\ Undamaged'
  BY <1>3, <1>4, <1>9, <1>13, <1>14, CallPromised
<1>18. Evident'
  <2>1. sens' = known \/ \A s \in Sensors : sens'[s] = Unknown
    BY <1>4, <1>13, <1>14, CallFacts, DeadFacts
  <2>2. Unknown.st # "off"
    BY DEF Unknown
  <2> SUFFICES ASSUME NEW s \in Sensors
               PROVE  /\ room[s].at <= now
                      /\ reported[s] = Unknown
                         \/ (reported[s].st = room[s].st /\ room[s].at <= reported[s].at)
                      /\ s \notin missed' /\ sens'[s].st = "off" =>
                            reported[s] # Unknown /\ room[s].st = "off" /\ room[s].at <= sens'[s].at
    BY <1>3 DEF Evident
  <2>3. CASE s \in DirectSensors
    BY <1>4, <1>10, <2>1, <2>2, <2>3 DEF Evident
  <2>4. CASE s \notin DirectSensors
    BY <1>3, <1>4, <1>10, <2>1, <2>2, <2>4 DEF Evident
  <2> QED
    BY <2>3, <2>4
<1>19. ProtectionHolds'
  BY <1>3, <1>4 DEF ProtectionHolds
<1> QED
  BY <1>15, <1>16, <1>17, <1>18, <1>19 DEF IInv

---------------------------------------------------------------------------
(* Set-up, health and the world.                                             *)

\* The answers of a load: the current file, a fall-back that latches, a new store, or an
\* error.
LEMMA LoadFacts ==
    ASSUME disk \in Disks, NEW answer \in LoadAnswers(disk)
    PROVE  /\ answer.disk \in Disks
           /\ \/ /\ Valid(disk.cur) /\ answer.kind = "value" /\ answer.doc = disk.cur
                 /\ answer.flagged = disk.latch /\ answer.disk = disk
              \/ /\ ~Valid(disk.cur) /\ Valid(disk.prev)
                 /\ \/ answer.kind = "value" /\ answer.doc = disk.prev /\ answer.flagged = TRUE
                    \/ answer.kind = "error"
                 /\ answer.disk.cur \in {disk.prev} \/ ~Valid(answer.disk.cur)
                 /\ answer.disk.prev = disk.prev /\ answer.disk.latch = TRUE
              \/ /\ disk.cur = Absent /\ answer.kind = "none"
                 /\ answer.flagged = disk.latch /\ answer.disk = disk
              \/ /\ disk.cur \in {Invalid, Corrupt} /\ ~Valid(disk.prev) /\ answer.kind = "error"
                 /\ ~Valid(answer.disk.cur) /\ answer.disk.prev = disk.prev
                 /\ answer.disk.latch = disk.latch
<1>1. disk.cur \in Files /\ disk.prev \in Files /\ disk.latch \in BOOLEAN
  BY DEF Disks
<1>2. Loaded(disk.cur) \in Files /\ (~Valid(disk.cur) => ~Valid(Loaded(disk.cur)))
  BY <1>1, Constants DEF Loaded, Files, Valid
<1>3. /\ MovedAside(disk) \in Disks /\ MovedAside(disk).cur = Loaded(disk.cur)
      /\ MovedAside(disk).prev = disk.prev /\ MovedAside(disk).latch = disk.latch
  BY <1>1, <1>2 DEF MovedAside, Disks
<1>4. /\ Latched(disk) \in Disks /\ Latched(disk).cur = Loaded(disk.cur)
      /\ Latched(disk).prev = disk.prev /\ Latched(disk).latch = TRUE
  BY <1>3 DEF Latched, Disks
<1>5. /\ Restored(disk) \in Disks /\ Restored(disk).cur = disk.prev
      /\ Restored(disk).prev = disk.prev /\ Restored(disk).latch = TRUE
  BY <1>1, <1>4 DEF Restored, Disks
<1>6. CASE Valid(disk.cur)
  <2>1. answer = Answer("value", disk.cur, disk.latch, disk)
    BY <1>6 DEF LoadAnswers
  <2> QED
    BY <1>6, <2>1 DEF Answer
<1>7. CASE ~Valid(disk.cur) /\ Valid(disk.prev)
  <2>1. answer \in {Answer("value", disk.prev, TRUE, Restored(disk)),
                    Answer("error", Absent, disk.latch, Latched(disk))}
    BY <1>7 DEF LoadAnswers
  <2>2. CASE answer = Answer("value", disk.prev, TRUE, Restored(disk))
    BY <1>5, <1>7, <2>2 DEF Answer
  <2>3. CASE answer = Answer("error", Absent, disk.latch, Latched(disk))
    BY <1>2, <1>4, <1>7, <2>3 DEF Answer
  <2> QED
    BY <2>1, <2>2, <2>3
<1>8. CASE ~Valid(disk.cur) /\ ~Valid(disk.prev) /\ disk.cur = Absent
  <2>1. answer = Answer("none", Absent, disk.latch, disk)
    BY <1>8 DEF LoadAnswers
  <2> QED
    BY <1>8, <2>1 DEF Answer
<1>9. CASE ~Valid(disk.cur) /\ ~Valid(disk.prev) /\ disk.cur # Absent
  <2>1. answer = Answer("error", Absent, disk.latch, MovedAside(disk))
    BY <1>9 DEF LoadAnswers
  <2>2. disk.cur \in {Invalid, Corrupt}
    BY <1>1, <1>9 DEF Files, Valid
  <2> QED
    BY <1>2, <1>3, <1>9, <2>1, <2>2 DEF Answer
<1> QED
  BY <1>6, <1>7, <1>8, <1>9

\* The promises of a store that is lost are all excused.
LEMMA LostFacts ==
    ASSUME NEW prs \in SUBSET Promises, NEW pr \in {[q EXCEPT !.excuse = "lost"] : q \in prs}
    PROVE  /\ pr \in Promises /\ pr.excuse = "lost"
           /\ \E q \in prs : q.notBefore = pr.notBefore
  BY DEF Promises, Excuses

LEMMA SetupStep ==
    ASSUME IInv, Setup
    PROVE  IInv'
<1>1. PICK answer \in LoadAnswers(disk) :
         /\ Opens(answer)
         /\ owed' = IF answer.kind = "none"
                      THEN {[pr EXCEPT !.excuse = "lost"] : pr \in owed} ELSE owed
  BY DEF Setup
<1>2. /\ ~up /\ sens' = [s \in Sensors |-> Unknown] /\ missed' = {}
      /\ UNCHANGED <<covered, now, room, reported, faults, born, broken, damaged>>
  BY DEF Setup, world, kept
<1>3. /\ up' = TRUE /\ disk' = answer.disk
      /\ mem' = IF answer.kind = "value" THEN answer.doc ELSE NewDoc
      /\ unhealthy' = (answer.kind = "error" \/ answer.flagged)
  BY <1>1 DEF Opens
<1>4. TypeOK /\ Bounded /\ Promised /\ Undamaged /\ Evident /\ ProtectionHolds /\ disk \in Disks
  BY DEF IInv, TypeOK
<1>5. disk' \in Disks /\ disk.latch \in BOOLEAN
  BY <1>1, <1>3, <1>4, LoadFacts DEF Disks
<1>6. Unknown \in Evidence /\ Unknown.st # "off"
  BY Constants DEF Unknown, Evidence, Times
<1>7. Bound(NewDoc)
  BY NewDocFacts, Constants DEF Bound
<1>8. owed' \subseteq Promises /\ \A pr \in owed' : pr.notBefore <= now + Interval
  <2>1. owed \in SUBSET Promises /\ \A pr \in owed : pr.notBefore <= now + Interval
    BY <1>4 DEF TypeOK, Promised
  <2> QED
    BY <1>1, <2>1, LostFacts
<1>9. answer.kind # "none" => Owing' = Owing
  BY <1>1 DEF Owing
<1>10. answer.kind = "none" => Owing' = {}
  <2>1. owed \in SUBSET Promises
    BY <1>4 DEF TypeOK
  <2> QED
    BY <1>1, <2>1, LostFacts DEF Owing
<1>11. Evident'
  BY <1>2, <1>4, <1>6 DEF Evident
<1>12. ProtectionHolds'
  BY <1>2, <1>4 DEF ProtectionHolds
\* What the disk, the memory and the promises are is shown for each kind of answer.
<1> DEFINE Kept == /\ mem' \in Payloads /\ Bound(mem)' /\ unhealthy' \in BOOLEAN
                   /\ Bounded' /\ Promised' /\ Undamaged'
<1>13. ASSUME /\ Valid(disk.cur) /\ answer.kind = "value" /\ answer.doc = disk.cur
              /\ answer.flagged = disk.latch /\ answer.disk = disk
       PROVE  Kept
  <2>1. disk' = disk /\ mem' = disk.cur /\ unhealthy' = disk.latch /\ Owing' = Owing
    BY <1>3, <1>5, <1>9, <1>13
  <2>2. mem' \in Payloads /\ Bound(mem)' /\ Bounded'
    BY <1>2, <1>4, <1>13, <2>1 DEF Valid, Bounded, Bound
  <2>3. Promised'
    BY <1>2, <1>4, <1>8, <1>13, <2>1 DEF Promised, Valid, Keeps
  <2>4. Undamaged'
    BY <1>2, <1>4, <2>1 DEF Undamaged, Valid
  <2> QED
    BY <1>5, <2>1, <2>2, <2>3, <2>4
<1>14. ASSUME /\ ~Valid(disk.cur) /\ Valid(disk.prev)
              /\ \/ answer.kind = "value" /\ answer.doc = disk.prev /\ answer.flagged = TRUE
                 \/ answer.kind = "error"
              /\ answer.disk.cur \in {disk.prev} \/ ~Valid(answer.disk.cur)
              /\ answer.disk.prev = disk.prev /\ answer.disk.latch = TRUE
       PROVE  Kept
  <2>1. /\ disk'.latch = TRUE /\ disk'.prev = disk.prev
        /\ disk'.cur = disk.prev \/ ~Valid(disk'.cur)
        /\ mem' \in {disk.prev, NewDoc} /\ unhealthy' = TRUE
    BY <1>3, <1>14
  <2>2. damaged
    BY <1>4, <1>14 DEF Undamaged
  <2>3. mem' \in Payloads /\ Bound(mem)' /\ Bounded'
    BY <1>2, <1>4, <1>7, <1>14, <2>1, NewDocFacts DEF Valid, Bounded, Bound
  <2>4. Promised' /\ Undamaged'
    BY <1>2, <1>8, <2>1, <2>2 DEF Promised, Undamaged
  <2> QED
    BY <2>1, <2>3, <2>4
<1>15. ASSUME /\ disk.cur = Absent /\ answer.kind = "none"
              /\ answer.flagged = disk.latch /\ answer.disk = disk
       PROVE  Kept
  <2>1. disk' = disk /\ mem' = NewDoc /\ unhealthy' = disk.latch /\ Owing' = {}
    BY <1>3, <1>5, <1>10, <1>15
  <2>2. mem' \in Payloads /\ Bound(mem)' /\ Bounded'
    BY <1>2, <1>4, <1>7, <2>1, NewDocFacts DEF Valid, Bounded, Bound
  <2>3. Promised'
    BY <1>2, <1>8, <2>1 DEF Promised
  <2>4. Undamaged'
    BY <1>2, <1>4, <2>1 DEF Undamaged, Valid
  <2> QED
    BY <1>5, <2>1, <2>2, <2>3, <2>4
<1>16. ASSUME /\ disk.cur \in {Invalid, Corrupt} /\ ~Valid(disk.prev) /\ answer.kind = "error"
              /\ ~Valid(answer.disk.cur) /\ answer.disk.prev = disk.prev
              /\ answer.disk.latch = disk.latch
       PROVE  Kept
  <2>1. /\ disk'.latch = disk.latch /\ disk'.prev = disk.prev /\ ~Valid(disk'.cur)
        /\ mem' = NewDoc /\ unhealthy' = TRUE
    BY <1>3, <1>16
  <2>2. damaged
    BY <1>4, <1>16 DEF Undamaged
  <2>3. mem' \in Payloads /\ Bound(mem)' /\ Bounded'
    BY <1>2, <1>4, <1>7, <1>16, <2>1, NewDocFacts DEF Valid, Bounded, Bound
  <2>4. Promised' /\ Undamaged'
    BY <1>2, <1>8, <2>1, <2>2 DEF Promised, Undamaged
  <2> QED
    BY <2>1, <2>3, <2>4
<1>17. Kept
  <2> HIDE DEF Kept
  <2> QED
    BY <1>4, <1>13, <1>14, <1>15, <1>16, LoadFacts
<1>18. TypeOK'
  BY <1>2, <1>3, <1>4, <1>5, <1>6, <1>8, <1>17 DEF TypeOK, Bound
<1> QED
  BY <1>11, <1>12, <1>17, <1>18 DEF IInv

LEMMA CoverageStep ==
    ASSUME IInv, Coverage
    PROVE  IInv'
<1>1. faults' \in 0..MaxFaults /\ unhealthy' = unhealthy /\ covered' = ~covered
  BY DEF Coverage, IInv, TypeOK
<1> QED
  BY <1>1, ClosesStep, BrokenSo DEF Coverage, kept

LEMMA MarkUnhealthyStep ==
    ASSUME IInv, MarkUnhealthy
    PROVE  IInv'
<1>1. faults' \in 0..MaxFaults /\ covered' \in BOOLEAN
  BY Constants DEF MarkUnhealthy, Fault, IInv, TypeOK
<1> QED
  BY <1>1, ClosesStep, BrokenSo DEF MarkUnhealthy, kept

LEMMA StopStep ==
    ASSUME IInv, Stop
    PROVE  IInv'
<1> USE DEF IInv
<1>1. Dead /\ UNCHANGED <<disk, now, room, reported, missed, faults, owed, born, broken, damaged>>
  BY DEF Stop, world, kept
<1>2. TypeOK' /\ Bounded'
  <2>1. up' \in BOOLEAN /\ unhealthy' \in BOOLEAN /\ covered' \in BOOLEAN /\ mem' \in Payloads
        /\ Bound(mem)' /\ sens' \in [Sensors -> Evidence]
    BY <1>1, DeadFacts
  <2>2. Len(mem'.receipts) <= ReceiptCapacity
    BY <2>1 DEF Bound
  <2> QED
    BY <1>1, <2>1, <2>2 DEF TypeOK, Bounded, Bound, Valid
<1>3. Promised' /\ Undamaged'
  BY <1>1 DEF Dead, Promised, Undamaged, Owing, Keeps, Valid
<1>4. Evident'
  BY <1>1, DeadFacts, SameEvidence
<1> QED
  BY <1>1, <1>2, <1>3, <1>4 DEF ProtectionHolds

LEMMA DamageFileStep ==
    ASSUME IInv, DamageFile
    PROVE  IInv'
<1> USE DEF IInv
<1>1. /\ ~up /\ damaged' = TRUE
      /\ UNCHANGED <<up, mem, sens, unhealthy, covered, now, room, reported, missed, owed, born,
                     broken>>
  BY DEF DamageFile, world
<1>2. disk' \in Disks /\ disk'.cur \in {Invalid, Corrupt} /\ disk'.prev = disk.prev
      /\ disk'.latch = disk.latch
  BY DEF DamageFile, TypeOK, Disks, Files
<1>3. ~Valid(disk'.cur)
  BY <1>2, Constants DEF Valid
<1>4. faults' \in 0..MaxFaults
  BY Constants DEF DamageFile, Fault, TypeOK
<1>5. TypeOK' /\ Bounded'
  BY <1>1, <1>2, <1>3, <1>4 DEF TypeOK, Bounded, Bound, Valid
<1>6. Promised' /\ Undamaged'
  BY <1>1, <1>2, <1>3 DEF Promised, Undamaged, Valid
<1>7. Evident'
  BY <1>1 DEF Evident
<1> QED
  BY <1>1, <1>5, <1>6, <1>7 DEF ProtectionHolds

LEMMA TickStep ==
    ASSUME IInv, Tick
    PROVE  IInv'
<1> USE DEF IInv
<1>1. now < MaxTime /\ now' = now + 1
      /\ UNCHANGED <<disk, up, mem, sens, unhealthy, covered, room, reported, missed, faults,
                     owed, born, broken, damaged>>
  BY DEF Tick, code, kept
<1>2. now \in Nat /\ now' \in 0..MaxTime
  BY <1>1, Constants DEF TypeOK
<1>3. \A n \in Nat : n <= now + Interval => n <= now' + Interval
  BY <1>1, <1>2, Constants
<1>4. ASSUME NEW doc \in Payloads, Bound(doc)
      PROVE  /\ Len(doc.receipts) <= ReceiptCapacity
             /\ \A k \in Keys : doc.prot[k] # Nothing => doc.prot[k].notBefore <= now' + Interval
  <2>1. \A k \in Keys : doc.prot[k] # Nothing => doc.prot[k].notBefore \in Nat
    BY Constants DEF Payloads, Records, Times
  <2> QED
    BY <1>3, <1>4, <2>1 DEF Bound
<1>5. TypeOK'
  BY <1>1, <1>2 DEF TypeOK
<1>6. Bounded'
  BY <1>1, <1>4 DEF Bounded, Bound, TypeOK, Valid
<1>7. Promised'
  <2>1. \A pr \in owed : pr.notBefore \in Nat
    BY Constants DEF TypeOK, Promises, Times
  <2>2. \A pr \in owed' : pr.notBefore <= now' + Interval
    BY <1>1, <1>3, <2>1 DEF Promised
  <2> QED
    BY <1>1, <2>2 DEF Promised, Owing, Keeps, Valid
<1>8. Undamaged' /\ ProtectionHolds'
  BY <1>1 DEF Undamaged, Owing, Valid, ProtectionHolds
<1>9. Evident'
  <2>1. \A s \in Sensors : room[s].at \in Nat
    BY Constants DEF TypeOK, Evidence, Times
  <2>2. \A s \in Sensors : room[s].at <= now'
    BY <1>1, <1>2, <2>1 DEF Evident
  <2> QED
    BY <1>1, <2>2 DEF Evident
<1> QED
  BY <1>5, <1>6, <1>7, <1>8, <1>9

---------------------------------------------------------------------------
(* The theorems.                                                             *)

LEMMA InitHolds == Init => IInv
<1> SUFFICES ASSUME Init
             PROVE  IInv
  OBVIOUS
<1>1. Unknown \in Evidence /\ Unknown.st # "off"
  BY Constants DEF Unknown, Evidence, Times
<1>2. NewDisk \in Disks /\ ~Valid(NewDisk.cur) /\ ~Valid(NewDisk.prev) /\ ~NewDisk.latch
      /\ NewDisk.cur = Absent
  BY Constants DEF NewDisk, Disks, Files, Valid
<1>3. [st |-> "on", at |-> 0] \in Evidence
  BY Constants DEF Evidence, Times
<1>4. TypeOK /\ Bounded
  <2>1. sens \in [Sensors -> Evidence] /\ room \in [Sensors -> Evidence]
        /\ reported \in [Sensors -> Evidence]
    BY <1>1, <1>3 DEF Init
  <2>2. TypeOK
    <3>1. mem \in Payloads /\ Len(mem.receipts) <= ReceiptCapacity
      BY NewDocFacts, Constants DEF Init
    <3>2. 0 \in 0..MaxTime /\ 0 \in 0..MaxFaults /\ 0 \in 0..MaxBorn
      BY Constants
    <3> QED
      BY <1>2, <2>1, <3>1, <3>2 DEF Init, TypeOK
  <2>3. Bounded
    BY <1>2, NewDocFacts, Constants DEF Init, Bounded, Bound
  <2> QED
    BY <2>2, <2>3
<1>5. Promised /\ Undamaged /\ ProtectionHolds
  BY <1>2, Constants DEF Init, Promised, Undamaged, ProtectionHolds, Owing
<1>6. Evident
  BY <1>1 DEF Init, Evident
<1> QED
  BY <1>4, <1>5, <1>6 DEF IInv

LEMMA StutterStep ==
    ASSUME IInv, UNCHANGED vars
    PROVE  IInv'
<1>1. faults' \in 0..MaxFaults /\ covered' \in BOOLEAN
  BY DEF IInv, TypeOK, vars, code
<1> QED
  BY <1>1, ClosesStep, BrokenSo DEF vars, code, kept

LEMMA NextStep == IInv /\ [Next]_vars => IInv'
<1> SUFFICES ASSUME IInv, [Next]_vars
             PROVE  IInv'
  OBVIOUS
<1>1. ASSUME NEW l \in Lights, ManualOff(l) \/ ManualOn(l) \/ Decide(l)
      PROVE  IInv'
  BY <1>1, ManualOffStep, ManualOnStep, DecideStep
<1>2. ASSUME NEW s \in Sensors, Presence(s) \/ Untrusted(s) \/ ReportsAgain(s)
      PROVE  IInv'
  BY <1>2, PresenceStep, UntrustedStep, ReportsAgainStep
<1>3. CASE Call
  BY <1>3, ReplaceSettingsStep, ReleaseStep, ArmDirectStep DEF Call
<1>4. CASE Setup \/ Coverage \/ MarkUnhealthy \/ Stop \/ DamageFile \/ Tick
  BY <1>4, SetupStep, CoverageStep, MarkUnhealthyStep, StopStep, DamageFileStep, TickStep
<1>5. CASE UNCHANGED vars
  BY <1>5, StutterStep
<1> QED
  BY <1>1, <1>2, <1>3, <1>4, <1>5 DEF Next, Event

LEMMA Invariance == Spec => []IInv
  BY InitHolds, NextStep, PTL DEF Spec

\* The documents, the evidence and the promises have their shapes, the receipts stay within
\* their capacity, whatever the settings are and whatever fails.
THEOREM TypeCorrect == Spec => []TypeOK
<1>1. IInv => TypeOK
  BY DEF IInv
<1> QED
  BY <1>1, Invariance, PTL

\* async_decide_entity never hands a light back that was switched off by hand before the
\* frozen policy of every acknowledged record allows it and the room really is as that
\* demands, unless the promise has one of the named excuses.
THEOREM OffHolds == Spec => []ProtectionHolds
<1>1. IInv => ProtectionHolds
  BY DEF IInv
<1> QED
  BY <1>1, Invariance, PTL

\* As long as no file was damaged, every acknowledged record that nothing has ended is in the
\* current file of the store, not earlier than it was acknowledged.
THEOREM OffDurable == Spec => []ProtectionDurable
<1>1. IInv => ProtectionDurable
  <2> SUFFICES ASSUME IInv, ~damaged, NEW pr \in owed, pr.excuse = "none"
               PROVE  /\ Valid(disk.cur)
                      /\ \E k \in Keys : /\ disk.cur.prot[k] # Nothing
                                         /\ disk.cur.prot[k].born = pr.born
                                         /\ disk.cur.prot[k].notBefore >= pr.notBefore
    BY DEF ProtectionDurable
  <2>1. pr \in Owing /\ ~disk.latch /\ Valid(disk.cur)
    BY DEF IInv, Undamaged, Owing
  <2>2. Keeps(disk.cur, pr)
    BY <2>1 DEF IInv, Promised
  <2> QED
    BY <2>1, <2>2 DEF Keeps
<1> QED
  BY <1>1, Invariance, PTL
=============================================================================
