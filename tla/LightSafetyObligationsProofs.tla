-------------------- MODULE LightSafetyObligationsProofs --------------------
(* A record of a delayed off is reconciled MaxAttempts times at most, does not come
   back once its end was acknowledged, and is scheduled again by the next set-up if
   it was acknowledged and the store never fell back: for any number of targets,
   records, failed saves, crashes and damaged files.                            *)

EXTENDS LightSafetyObligations, TLAPS

\* What holds of every record of a document that may be used: its attempts count its
\* callbacks, it was armed, it is not over, and no other target has it.
Sound(doc, cs, n, e) ==
    \A t \in Targets : doc[t] # Nothing =>
        /\ cs[doc[t].gen] <= doc[t].attempt
        /\ doc[t].gen <= n
        /\ doc[t].gen \notin e
        /\ \A u \in Targets : doc[u] # Nothing /\ doc[u].gen = doc[t].gen => u = t

Ghosts ==
    /\ \A g \in ended \union owed : g <= gens
    /\ \A g \in Gens : g > gens => calls[g] = 0

SoundRecs == Sound(recs, calls, gens, ended)

\* Once the store fell back its documents are not used, until they are overwritten.
SoundDisk == ~disk.latch /\ Valid(disk.cur) => Sound(disk.cur, calls, gens, ended)

DownEmpty == up = "down" => recs = Empty

\* The document has the record, with an attempt left.
Holds(doc, g) ==
    \E t \in Targets : doc[t] # Nothing /\ doc[t].gen = g /\ doc[t].attempt < MaxAttempts

Promise ==
    ~disk.latch => \A g \in owed : /\ Valid(disk.cur) /\ Holds(disk.cur, g)
                                   /\ up # "down" => Holds(recs, g)

IInv == TypeOK /\ Ghosts /\ BudgetKept /\ SoundRecs /\ SoundDisk /\ DownEmpty /\ Promise

---------------------------------------------------------------------------
(* The files.                                                                *)

\* Any save of p, acknowledged or not.
Saves(d, p) == SaveAcks(d, p) \union SaveFailures(d, p)

LEMMA SaveFacts ==
    ASSUME NEW d \in Disks, NEW p \in Payloads, NEW new \in Saves(d, p)
    PROVE  /\ new \in Disks
           /\ new.latch = d.latch
           /\ new.cur = d.cur \/ new.cur = p
           /\ new \in SaveAcks(d, p) => new.cur = p
  BY DEF Saves, SaveAcks, SaveFailures, Saved, BackedUp, Disks, Files, Valid

LEMMA LoadFacts ==
    ASSUME NEW d \in Disks, NEW a \in LoadAnswers(d)
    PROVE  /\ a.disk \in Disks /\ a.flagged \in BOOLEAN
           /\ a.kind \in {"value", "none", "error"}
           /\ a.kind = "value" => a.doc \in Payloads
           /\ a.kind = "value" /\ ~a.flagged => ~d.latch /\ Valid(d.cur) /\ a.doc = d.cur /\ a.disk = d
           /\ a.kind = "value" /\ a.flagged => a.disk.latch
           /\ a.kind # "value" => ~Valid(d.cur) /\ ~Valid(a.disk.cur)
           /\ d.latch => a.disk.latch
<1>1. /\ MovedAside(d) \in Disks /\ Latched(d) \in Disks /\ Restored(d) \in Disks
      /\ Latched(d).latch /\ Restored(d).latch /\ MovedAside(d).latch = d.latch
      /\ MovedAside(d).cur = Loaded(d.cur) /\ Latched(d).cur = Loaded(d.cur)
      /\ d.latch \in BOOLEAN
  BY DEF Latched, Restored, MovedAside, Loaded, Disks, Files
<1>0. ~Valid(d.cur) => ~Valid(Loaded(d.cur))
  BY ObligationsAssumption DEF Loaded, Valid
<1>2. CASE Valid(d.cur)
  <2>1. a = Answer("value", d.cur, d.latch, d)
    BY <1>2 DEF LoadAnswers
  <2> QED
    BY <1>1, <1>2, <2>1 DEF Answer, Valid
<1>3. CASE ~Valid(d.cur) /\ Valid(d.prev)
  <2>1. \/ a = Answer("value", d.prev, TRUE, Restored(d))
        \/ a = Answer("error", Absent, d.latch, Latched(d))
    BY <1>3 DEF LoadAnswers
  <2>2. CASE a = Answer("value", d.prev, TRUE, Restored(d))
    BY <1>1, <1>3, <2>2 DEF Answer, Valid
  <2>3. CASE a = Answer("error", Absent, d.latch, Latched(d))
    BY <1>0, <1>1, <1>3, <2>3 DEF Answer
  <2> QED
    BY <2>1, <2>2, <2>3
<1>4. CASE ~Valid(d.cur) /\ ~Valid(d.prev)
  <2>1. \/ a = Answer("none", Absent, d.latch, d)
        \/ a = Answer("error", Absent, d.latch, MovedAside(d))
    BY <1>4 DEF LoadAnswers
  <2>2. CASE a = Answer("none", Absent, d.latch, d)
    BY <1>1, <1>4, <2>2 DEF Answer
  <2>3. CASE a = Answer("error", Absent, d.latch, MovedAside(d))
    BY <1>0, <1>1, <1>4, <2>3 DEF Answer
  <2> QED
    BY <2>1, <2>2, <2>3
<1> QED
  BY <1>2, <1>3, <1>4

LEMMA LoadCutFacts ==
    ASSUME NEW d \in Disks, NEW new \in LoadCuts(d)
    PROVE  /\ new \in Disks
           /\ new = d \/ (~Valid(d.cur) /\ (new.latch \/ ~Valid(new.cur)))
           /\ d.latch => new.latch
<1>1. /\ MovedAside(d) \in Disks /\ Latched(d) \in Disks /\ Restored(d) \in Disks
      /\ Latched(d).latch /\ Restored(d).latch /\ MovedAside(d).latch = d.latch
      /\ MovedAside(d).cur = Loaded(d.cur)
  BY DEF Latched, Restored, MovedAside, Loaded, Disks, Files
<1>2. ~Valid(d.cur) => ~Valid(Loaded(d.cur))
  BY ObligationsAssumption DEF Loaded, Valid
<1>3. CASE Valid(d.cur)
  BY <1>3 DEF LoadCuts
<1>4. CASE ~Valid(d.cur)
  <2>1. new \in {d, MovedAside(d), Latched(d), Restored(d)}
    BY <1>4 DEF LoadCuts
  <2> QED
    BY <1>1, <1>2, <1>4, <2>1
<1> QED
  BY <1>3, <1>4

---------------------------------------------------------------------------
(* Documents.                                                                *)

LEMMA EmptyFacts ==
    /\ Empty \in Payloads
    /\ \A cs, n, e : Sound(Empty, cs, n, e)
  BY DEF Empty, Payloads, Sound

\* A document that keeps some records of a sound one is sound.
LEMMA SoundPart ==
    ASSUME NEW doc, NEW new, NEW cs, NEW n, NEW e,
           Sound(doc, cs, n, e), \A t \in Targets : new[t] \in {doc[t], Nothing}
    PROVE  Sound(new, cs, n, e)
  BY DEF Sound

LEMMA SoundLater ==
    ASSUME NEW doc \in Payloads, NEW cs, NEW n \in Nat, NEW m \in Nat, NEW e,
           Sound(doc, cs, n, e), n <= m
    PROVE  Sound(doc, cs, m, e)
<1> SUFFICES ASSUME NEW t \in Targets, doc[t] # Nothing PROVE doc[t].gen <= m
  BY DEF Sound
<1>1. doc[t].gen \in Nat /\ doc[t].gen <= n
  BY DEF Payloads, Records, Gens, Sound
<1> QED
  BY <1>1

\* What one save of a document does to the files, if the document is sound and has
\* what is still owed.
LEMMA SaveStep ==
    ASSUME IInv, up # "down", NEW doc \in Payloads, disk' \in Saves(disk, doc),
           gens' \in Nat, gens <= gens',
           Sound(doc, calls', gens', ended'),
           disk' \in SaveAcks(disk, doc) \/ (calls' = calls /\ ended' = ended /\ owed' \subseteq owed),
           ~disk.latch => \A g \in owed' : Holds(doc, g),
           ~disk.latch /\ up' # "down" => \A g \in owed' : Holds(recs', g)
    PROVE  SoundDisk' /\ Promise'
<1>1. /\ disk' \in Disks /\ disk'.latch = disk.latch
      /\ disk'.cur = disk.cur \/ disk'.cur = doc
      /\ disk' \in SaveAcks(disk, doc) => disk'.cur = doc
  BY SaveFacts DEF IInv, TypeOK
<1>2. CASE disk'.cur = doc
  <2>1. SoundDisk'
    BY <1>2 DEF SoundDisk
  <2>2. Promise'
    BY <1>1, <1>2 DEF Promise, Valid
  <2> QED
    BY <2>1, <2>2
<1>3. CASE disk' \notin SaveAcks(disk, doc) /\ disk'.cur = disk.cur
  <2>1. SoundDisk'
    <3> SUFFICES ASSUME ~disk.latch, disk.cur \in Payloads
                 PROVE Sound(disk.cur, calls, gens', ended)
      BY <1>1, <1>3 DEF SoundDisk, Valid
    <3>1. Sound(disk.cur, calls, gens, ended)
      BY DEF IInv, SoundDisk, Valid
    <3> QED
      BY <3>1, SoundLater DEF IInv, TypeOK
  <2>2. Promise'
    BY <1>1, <1>3 DEF IInv, Promise
  <2> QED
    BY <2>1, <2>2
<1> QED
  BY <1>1, <1>2, <1>3

LEMMA OutcomeFacts ==
    ASSUME TypeOK, NEW doc \in Payloads, Acked(doc) \/ Failed(doc) \/ Dies(doc)
    PROVE  /\ disk' \in Saves(disk, doc) /\ disk' \in Disks
           /\ up' \in {"down", "loaded", "started"} /\ recs' \in Payloads
           /\ faults' \in 0..MaxFaults
           /\ Acked(doc) => disk' \in SaveAcks(disk, doc) /\ recs' = doc /\ up' = up
           /\ Failed(doc) => recs' = recs /\ up' = up
           /\ Dies(doc) => up' = "down" /\ recs' = Empty /\ task' = Empty
<1>1. /\ Acked(doc) => disk' \in SaveAcks(disk, doc) /\ recs' = doc /\ up' = up /\ faults' = faults
      /\ Failed(doc) => disk' \in SaveFailures(disk, doc) /\ recs' = recs /\ up' = up /\ Fault
      /\ Dies(doc) => /\ disk' \in SaveFailures(disk, doc) /\ Fault
                      /\ up' = "down" /\ recs' = Empty /\ task' = Empty
  BY DEF Acked, Failed, Dies, Gone
<1>2. Fault => faults' \in 0..MaxFaults
  BY ObligationsAssumption DEF Fault, TypeOK
<1>3. disk' \in Saves(disk, doc)
  BY <1>1 DEF Saves
<1>4. disk' \in Disks
  BY <1>3, SaveFacts DEF TypeOK
<1> QED
  BY <1>1, <1>2, <1>3, <1>4, EmptyFacts DEF TypeOK

LEMMA UntaskedType ==
    ASSUME TypeOK, NEW ts PROVE Untasked(ts) \in [Targets -> Tasks \union {Nothing}]
  BY DEF Untasked, TypeOK

LEMMA EmptyTask == Empty \in [Targets -> Tasks \union {Nothing}]
  BY DEF Empty

LEMMA TaskTypes ==
    ASSUME NEW g \in Gens PROVE Asleep(g) \in Tasks /\ Calling(g) \in Tasks
  BY DEF Asleep, Calling, Tasks

\* The records of memory, whose generations are those that GensAt collects.
LEMMA RecordFacts ==
    ASSUME IInv, NEW t \in Targets, recs[t] # Nothing
    PROVE  /\ recs[t] \in Records /\ recs[t].gen \in Gens /\ recs[t].attempt \in 0..MaxAttempts
           /\ recs[t].gen <= gens /\ recs[t].gen \notin ended
           /\ calls[recs[t].gen] <= recs[t].attempt
           /\ \A u \in Targets : recs[u] # Nothing /\ recs[u].gen = recs[t].gen => u = t
           /\ GensAt({t}) = {recs[t].gen}
<1>1. recs[t] \in Records
  BY DEF IInv, TypeOK, Payloads
<1>2. GensAt({t}) = {recs[t].gen}
  BY DEF GensAt, Held
<1> QED
  BY <1>1, <1>2 DEF Records, IInv, SoundRecs, Sound

LEMMA GensAtFacts ==
    ASSUME IInv, NEW ts \in SUBSET Targets
    PROVE  /\ GensAt(ts) \subseteq Gens
           /\ \A g \in GensAt(ts) : g <= gens
           /\ \A u \in Targets \ ts : recs[u] # Nothing => recs[u].gen \notin GensAt(ts)
  BY RecordFacts DEF GensAt, Held

\* Memory with one record replaced by a later state of itself, or taken away.
LEMMA PutFacts ==
    ASSUME IInv, NEW t \in Targets, recs[t] # Nothing,
           NEW new \in Records \union {Nothing},
           new # Nothing => new.gen = recs[t].gen /\ recs[t].attempt <= new.attempt
    PROVE  /\ Put(t, new) \in Payloads
           /\ Sound(Put(t, new), calls, gens, ended)
           /\ new = Nothing => Sound(Put(t, new), calls, gens, ended \union {recs[t].gen})
           /\ new # Nothing /\ recs[t].attempt + 1 <= new.attempt
                => Sound(Put(t, new), [calls EXCEPT ![recs[t].gen] = @ + 1], gens, ended)
           /\ ~disk.latch /\ up # "down" =>
                \A g \in owed :
                   g # recs[t].gen \/ (new # Nothing /\ new.attempt < MaxAttempts)
                     => Holds(Put(t, new), g)
<1> DEFINE doc == Put(t, new)
           more == [calls EXCEPT ![recs[t].gen] = @ + 1]
<1>1. recs \in [Targets -> Records \union {Nothing}] /\ calls \in [Gens -> Nat]
  BY DEF IInv, TypeOK, Payloads
<1>2. doc \in Payloads /\ doc[t] = new /\ \A u \in Targets \ {t} : doc[u] = recs[u]
  BY <1>1 DEF Put, Payloads
<1>3. \A u \in Targets : recs[u] # Nothing =>
        /\ recs[u].gen \in Gens /\ recs[u].gen <= gens /\ recs[u].gen \notin ended
        /\ calls[recs[u].gen] <= recs[u].attempt /\ recs[u].attempt \in Nat
        /\ \A v \in Targets : recs[v] # Nothing /\ recs[v].gen = recs[u].gen => v = u
  <2> SUFFICES ASSUME NEW u \in Targets, recs[u] # Nothing
               PROVE  /\ recs[u].gen \in Gens /\ recs[u].gen <= gens /\ recs[u].gen \notin ended
                      /\ calls[recs[u].gen] <= recs[u].attempt /\ recs[u].attempt \in Nat
                      /\ \A v \in Targets : recs[v] # Nothing /\ recs[v].gen = recs[u].gen => v = u
    OBVIOUS
  <2>1. recs[u].attempt \in 0..MaxAttempts
    BY RecordFacts
  <2>2. recs[u].attempt \in Nat
    BY <2>1, ObligationsAssumption
  <2> QED
    BY <2>2, RecordFacts
<1>4. new # Nothing => new.attempt \in Nat
  BY DEF Records
<1>5. Sound(doc, calls, gens, ended)
  <2> SUFFICES ASSUME NEW u \in Targets, doc[u] # Nothing
               PROVE  /\ calls[doc[u].gen] <= doc[u].attempt
                      /\ doc[u].gen <= gens /\ doc[u].gen \notin ended
                      /\ \A v \in Targets : doc[v] # Nothing /\ doc[v].gen = doc[u].gen => v = u
    BY DEF Sound
  <2>1. CASE u = t
    <3>1. calls[recs[t].gen] \in Nat /\ recs[t].attempt \in Nat
      BY <1>1, <1>3
    <3> QED
      BY <1>2, <1>3, <1>4, <2>1, <3>1
  <2>2. CASE u # t
    BY <1>2, <1>3, <2>2
  <2> QED
    BY <2>1, <2>2
<1>6. new = Nothing => Sound(doc, calls, gens, ended \union {recs[t].gen})
  BY <1>2, <1>3 DEF Sound
<1>7. ASSUME new # Nothing, recs[t].attempt + 1 <= new.attempt
      PROVE  Sound(doc, more, gens, ended)
  <2> SUFFICES ASSUME NEW u \in Targets, doc[u] # Nothing
               PROVE  more[doc[u].gen] <= doc[u].attempt
    BY <1>5 DEF Sound
  <2>1. CASE u = t
    <3>1. calls[recs[t].gen] \in Nat /\ recs[t].attempt \in Nat /\ recs[t].gen \in Gens
      BY <1>1, <1>3
    <3>2. more[recs[t].gen] = calls[recs[t].gen] + 1
      BY <1>1, <3>1
    <3> QED
      BY <1>2, <1>3, <1>4, <1>7, <2>1, <3>1, <3>2
  <2>2. CASE u # t
    <3>1. recs[u] # Nothing /\ recs[u].gen # recs[t].gen /\ recs[u].gen \in Gens
      BY <1>2, <1>3, <2>2
    <3> QED
      BY <1>1, <1>2, <1>3, <2>2, <3>1
  <2> QED
    BY <2>1, <2>2
<1>8. ASSUME ~disk.latch, up # "down", NEW g \in owed,
             g # recs[t].gen \/ (new # Nothing /\ new.attempt < MaxAttempts)
      PROVE  Holds(doc, g)
  <2>1. PICK u \in Targets : recs[u] # Nothing /\ recs[u].gen = g /\ recs[u].attempt < MaxAttempts
    BY <1>8 DEF IInv, Promise, Holds
  <2> QED
    BY <1>2, <1>8, <2>1 DEF Holds
<1> QED
  BY <1>2, <1>5, <1>6, <1>7, <1>8

---------------------------------------------------------------------------
(* Init and the steps.                                                       *)

LEMMA InitIInv == Init => IInv
<1> SUFFICES ASSUME Init PROVE IInv
  OBVIOUS
<1>1. TypeOK
  BY EmptyFacts, ObligationsAssumption DEF Init, TypeOK, NewDisk, Disks, Files, Empty, Tasks
<1>2. Ghosts /\ BudgetKept /\ DownEmpty /\ Promise
  BY ObligationsAssumption DEF Init, Ghosts, BudgetKept, DownEmpty, Promise
<1>3. SoundRecs
  BY EmptyFacts DEF Init, SoundRecs
<1>4. SoundDisk
  BY ObligationsAssumption DEF Init, SoundDisk, NewDisk, Valid
<1> QED
  BY <1>1, <1>2, <1>3, <1>4 DEF IInv

LEMMA ArmStep ==
    ASSUME IInv, NEW t \in Targets, NEW s \in Scenarios, Arm(t, s) PROVE IInv'
<1> DEFINE g == gens + 1
           rec == [gen |-> g, attempt |-> 0, scenario |-> s]
           doc == Put(t, rec)
<1>1. /\ up = "started" /\ gens < MaxGen /\ gens' = g
      /\ UNCHANGED <<calls, adopted>>
      /\ \/ /\ Acked(doc)
            /\ owed' = (owed \ GensAt({t})) \union {g}
            /\ ended' = ended \union GensAt({t})
            /\ task' = Untasked({t})
         \/ /\ Failed(doc) \/ Dies(doc)
            /\ owed' = owed \ GensAt({t})
            /\ up' # "down" => UNCHANGED task
            /\ ended' = ended
  BY DEF Arm, Up
<1>2. /\ gens \in Nat /\ g \in Gens /\ g \in 0..MaxGen /\ gens <= g /\ ~(g <= gens)
      /\ TypeOK /\ calls \in [Gens -> Nat] /\ recs \in [Targets -> Records \union {Nothing}]
      /\ ended \subseteq Gens /\ owed \subseteq Gens /\ adopted \subseteq Gens
  BY <1>1, ObligationsAssumption DEF IInv, TypeOK, Gens, Payloads
<1>3. rec \in Records /\ rec # Nothing /\ rec.gen = g /\ rec.attempt = 0
  BY <1>2, ObligationsAssumption DEF Records
<1>4. doc \in Payloads /\ doc[t] = rec /\ \A u \in Targets \ {t} : doc[u] = recs[u]
  BY <1>2, <1>3 DEF Put, Payloads
<1>5. /\ GensAt({t}) \subseteq Gens
      /\ \A h \in GensAt({t}) : h <= gens
      /\ \A u \in Targets \ {t} : recs[u] # Nothing => recs[u].gen \notin GensAt({t})
  BY GensAtFacts
<1>20. \A h \in GensAt({t}) \union ended \union owed : h \in Nat /\ h <= gens
  <2> SUFFICES ASSUME NEW h \in GensAt({t}) \union ended \union owed PROVE h \in Nat /\ h <= gens
    OBVIOUS
  <2>1. h \in Gens
    BY <1>2, <1>5
  <2>2. h <= gens
    BY <1>5 DEF IInv, Ghosts
  <2> QED
    BY <2>1, <2>2 DEF Gens
<1>6. calls[g] = 0
  BY <1>2 DEF IInv, Ghosts
<1>7. \A u \in Targets : recs[u] # Nothing =>
         /\ recs[u].gen \in Gens /\ recs[u].gen <= gens /\ recs[u].gen \notin ended
         /\ calls[recs[u].gen] <= recs[u].attempt
         /\ \A v \in Targets : recs[v] # Nothing /\ recs[v].gen = recs[u].gen => v = u
  <2> SUFFICES ASSUME NEW u \in Targets, recs[u] # Nothing
               PROVE  /\ recs[u].gen \in Gens /\ recs[u].gen <= gens /\ recs[u].gen \notin ended
                      /\ calls[recs[u].gen] <= recs[u].attempt
                      /\ \A v \in Targets : recs[v] # Nothing /\ recs[v].gen = recs[u].gen => v = u
    OBVIOUS
  <2> QED
    BY RecordFacts
<1>8. Sound(doc, calls, g, ended \union GensAt({t}))
  <2> SUFFICES ASSUME NEW u \in Targets, doc[u] # Nothing
               PROVE  /\ calls[doc[u].gen] <= doc[u].attempt
                      /\ doc[u].gen <= g /\ doc[u].gen \notin ended \union GensAt({t})
                      /\ \A v \in Targets : doc[v] # Nothing /\ doc[v].gen = doc[u].gen => v = u
    BY DEF Sound
  <2>1. CASE u = t
    <3>1. doc[u] = rec /\ g \notin ended \union GensAt({t})
      BY <1>2, <1>4, <1>20, <2>1
    <3>2. ASSUME NEW v \in Targets, doc[v] # Nothing, doc[v].gen = g PROVE v = t
      <4>1. CASE v # t
        BY <1>2, <1>4, <1>7, <3>2, <4>1
      <4> QED
        BY <4>1
    <3>3. 0 <= 0 /\ g <= g
      BY <1>2
    <3> QED
      BY <1>3, <1>6, <2>1, <3>1, <3>2, <3>3
  <2>2. CASE u # t
    <3>1. doc[u] = recs[u] /\ recs[u] # Nothing
      BY <1>4, <2>2
    <3>2. recs[u].gen \in Nat /\ recs[u].gen <= gens
      BY <1>7, <3>1 DEF Gens
    <3>3. recs[u].gen # g /\ recs[u].gen <= g
      BY <1>2, <3>2
    <3>4. calls[recs[u].gen] <= recs[u].attempt
      BY <1>7, <3>1
    <3>5. recs[u].gen \notin ended \union GensAt({t})
      BY <1>5, <1>7, <2>2, <3>1
    <3>6. ASSUME NEW v \in Targets, doc[v] # Nothing, doc[v].gen = doc[u].gen PROVE v = u
      <4>1. v # t
        BY <1>3, <1>4, <3>1, <3>3, <3>6
      <4> QED
        BY <1>4, <1>7, <3>1, <3>6, <4>1
    <3> QED
      BY <3>1, <3>3, <3>4, <3>5, <3>6
  <2> QED
    BY <2>1, <2>2
<1>9. Sound(doc, calls, g, ended)
  BY <1>8 DEF Sound
<1>10. ASSUME ~disk.latch, NEW h \in owed \ GensAt({t}) PROVE Holds(doc, h) /\ Holds(recs, h)
  <2>1. PICK u \in Targets : recs[u] # Nothing /\ recs[u].gen = h /\ recs[u].attempt < MaxAttempts
    BY <1>1, <1>10 DEF IInv, Promise, Holds
  <2>2. u # t
    BY <1>10, <2>1 DEF GensAt, Held
  <2> QED
    BY <1>4, <2>1, <2>2 DEF Holds
<1>11. Holds(doc, g)
  BY <1>3, <1>4, ObligationsAssumption DEF Holds
<1>12. /\ disk' \in Saves(disk, doc) /\ disk' \in Disks
       /\ up' \in {"down", "loaded", "started"} /\ recs' \in Payloads
       /\ faults' \in 0..MaxFaults
       /\ Acked(doc) => disk' \in SaveAcks(disk, doc) /\ recs' = doc /\ up' = up
       /\ Failed(doc) => recs' = recs /\ up' = up
       /\ Dies(doc) => up' = "down" /\ recs' = Empty /\ task' = Empty
  BY <1>1, <1>2, <1>4, OutcomeFacts
<1>13. TypeOK'
  <2>1. task' \in [Targets -> Tasks \union {Nothing}]
    BY <1>1, <1>2, <1>12, UntaskedType, EmptyTask DEF TypeOK
  <2>2. {owed', ended', adopted'} \subseteq SUBSET Gens
    BY <1>1, <1>2, <1>5 DEF TypeOK
  <2> QED
    BY <1>1, <1>2, <1>12, <2>1, <2>2 DEF TypeOK
<1>14. Ghosts'
  <2>1. \A h \in ended' \union owed' : h <= g
    <3> SUFFICES ASSUME NEW h \in ended' \union owed' PROVE h <= g
      OBVIOUS
    <3>1. h = g \/ (h \in Nat /\ h <= gens)
      <4>1. h = g \/ h \in GensAt({t}) \union ended \union owed
        BY <1>1
      <4> QED
        BY <1>20, <4>1
    <3> QED
      BY <1>2, <3>1
  <2>2. \A h \in Gens : h > g => calls[h] = 0
    BY <1>2 DEF IInv, Ghosts, Gens
  <2> QED
    BY <1>1, <2>1, <2>2 DEF Ghosts
<1>15. BudgetKept'
  BY <1>1 DEF IInv, BudgetKept
<1>16. Sound(recs, calls, g, ended)
  BY <1>2, SoundLater DEF IInv, TypeOK, SoundRecs
<1>17. SoundRecs'
  BY <1>1, <1>8, <1>12, <1>16, EmptyFacts DEF SoundRecs
<1>18. SoundDisk' /\ Promise'
  <2>1. CASE Acked(doc) /\ owed' = (owed \ GensAt({t})) \union {g} /\ ended' = ended \union GensAt({t})
    <3>1. Sound(doc, calls', gens', ended')
      BY <1>1, <1>8, <2>1
    <3>2. ~disk.latch => \A h \in owed' : Holds(doc, h)
      BY <1>10, <1>11, <2>1
    <3>3. up # "down" /\ recs' = doc /\ disk' \in SaveAcks(disk, doc) /\ gens' \in Nat /\ gens <= gens'
      BY <1>1, <1>2, <1>12, <2>1 DEF Gens
    <3> QED
      BY <1>4, <1>12, <3>1, <3>2, <3>3, SaveStep
  <2>2. CASE (Failed(doc) \/ Dies(doc)) /\ owed' = owed \ GensAt({t}) /\ ended' = ended
    <3>1. Sound(doc, calls', gens', ended')
      BY <1>1, <1>9, <2>2
    <3>2. ~disk.latch => \A h \in owed' : Holds(doc, h) /\ Holds(recs, h)
      BY <1>10, <2>2
    <3>3. up # "down" /\ gens' \in Nat /\ gens <= gens' /\ calls' = calls /\ owed' \subseteq owed
      BY <1>1, <1>2, <2>2 DEF Gens
    <3>4. ~disk.latch /\ up' # "down" => \A h \in owed' : Holds(recs', h)
      BY <1>12, <2>2, <3>2
    <3> QED
      BY <1>4, <1>12, <2>2, <3>1, <3>2, <3>3, <3>4, SaveStep
  <2> QED
    BY <1>1, <2>1, <2>2
<1>19. DownEmpty'
  BY <1>1, <1>12 DEF DownEmpty
<1> QED
  BY <1>13, <1>14, <1>15, <1>17, <1>18, <1>19 DEF IInv

LEMMA WithoutFacts ==
    ASSUME IInv, NEW ts \in SUBSET Targets
    PROVE  /\ Without(ts) \in Payloads
           /\ Sound(Without(ts), calls, gens, ended)
           /\ Sound(Without(ts), calls, gens, ended \union GensAt(ts))
           /\ ~disk.latch /\ up # "down" =>
                \A g \in owed \ GensAt(ts) : Holds(Without(ts), g) /\ Holds(recs, g)
<1>1. recs \in [Targets -> Records \union {Nothing}]
  BY DEF IInv, TypeOK, Payloads
<1>2. /\ Without(ts) \in Payloads
      /\ \A u \in ts : Without(ts)[u] = Nothing
      /\ \A u \in Targets \ ts : Without(ts)[u] = recs[u]
  BY <1>1 DEF Without, Payloads
<1>3. Sound(Without(ts), calls, gens, ended)
  BY <1>2, SoundPart DEF IInv, SoundRecs
<1>4. Sound(Without(ts), calls, gens, ended \union GensAt(ts))
  BY <1>2, <1>3, GensAtFacts DEF Sound
<1>5. ASSUME ~disk.latch, up # "down", NEW g \in owed \ GensAt(ts)
      PROVE  Holds(Without(ts), g) /\ Holds(recs, g)
  <2>1. PICK u \in Targets : recs[u] # Nothing /\ recs[u].gen = g /\ recs[u].attempt < MaxAttempts
    BY <1>5 DEF IInv, Promise, Holds
  <2>2. u \notin ts
    BY <1>5, <2>1 DEF GensAt, Held
  <2> QED
    BY <1>2, <2>1, <2>2 DEF Holds
<1> QED
  BY <1>2, <1>3, <1>4, <1>5

LEMMA RemoveStep ==
    ASSUME IInv, NEW ts \in SUBSET Targets, Remove(ts) PROVE IInv'
<1> DEFINE doc == Without(ts)
<1>1. /\ up = "started"
      /\ UNCHANGED <<gens, calls, adopted>>
      /\ owed' = owed \ GensAt(ts)
      /\ \/ /\ Acked(doc)
            /\ ended' = ended \union GensAt(ts)
            /\ task' = Untasked(ts)
         \/ /\ Failed(doc) \/ Dies(doc)
            /\ up' # "down" => UNCHANGED task
            /\ ended' = ended
  BY DEF Remove, Up
<1>2. /\ gens \in Nat /\ gens \in 0..MaxGen /\ TypeOK /\ calls \in [Gens -> Nat]
      /\ ended \subseteq Gens /\ owed \subseteq Gens /\ adopted \subseteq Gens
  BY DEF IInv, TypeOK, Gens
<1>3. /\ doc \in Payloads
      /\ Sound(doc, calls, gens, ended) /\ Sound(doc, calls, gens, ended \union GensAt(ts))
      /\ ~disk.latch => \A g \in owed \ GensAt(ts) : Holds(doc, g) /\ Holds(recs, g)
  BY <1>1, WithoutFacts
<1>4. /\ GensAt(ts) \subseteq Gens
      /\ \A g \in GensAt(ts) : g <= gens
  BY GensAtFacts
<1>5. /\ disk' \in Saves(disk, doc) /\ disk' \in Disks
      /\ up' \in {"down", "loaded", "started"} /\ recs' \in Payloads
      /\ faults' \in 0..MaxFaults
      /\ Acked(doc) => disk' \in SaveAcks(disk, doc) /\ recs' = doc /\ up' = up
      /\ Failed(doc) => recs' = recs /\ up' = up
      /\ Dies(doc) => up' = "down" /\ recs' = Empty /\ task' = Empty
  BY <1>1, <1>2, <1>3, OutcomeFacts
<1>6. TypeOK'
  <2>1. task' \in [Targets -> Tasks \union {Nothing}]
    BY <1>1, <1>2, <1>5, UntaskedType, EmptyTask DEF TypeOK
  <2>2. {owed', ended', adopted'} \subseteq SUBSET Gens
    BY <1>1, <1>2, <1>4
  <2> QED
    BY <1>1, <1>2, <1>5, <2>1, <2>2 DEF TypeOK
<1>7. Ghosts' /\ BudgetKept'
  BY <1>1, <1>4 DEF IInv, Ghosts, BudgetKept
<1>8. SoundRecs'
  BY <1>1, <1>3, <1>5, EmptyFacts DEF IInv, SoundRecs
<1>9. SoundDisk' /\ Promise'
  <2>1. gens' \in Nat /\ gens <= gens' /\ up # "down" /\ calls' = calls /\ owed' \subseteq owed
    BY <1>1, <1>2
  <2>2. Sound(doc, calls', gens', ended')
    BY <1>1, <1>3
  <2>3. ~disk.latch => \A g \in owed' : Holds(doc, g) /\ Holds(recs, g)
    BY <1>1, <1>3
  <2>4. ~disk.latch /\ up' # "down" => \A g \in owed' : Holds(recs', g)
    BY <1>1, <1>5, <2>3
  <2>5. disk' \in SaveAcks(disk, doc) \/ (calls' = calls /\ ended' = ended /\ owed' \subseteq owed)
    BY <1>1, <1>5, <2>1
  <2> QED
    BY <1>3, <1>5, <2>1, <2>2, <2>3, <2>4, <2>5, SaveStep
<1>10. DownEmpty'
  BY <1>1, <1>5 DEF DownEmpty
<1> QED
  BY <1>6, <1>7, <1>8, <1>9, <1>10 DEF IInv

\* Retry, Reserve and Decide: the record of one target goes on or goes away.
LEMMA ProgressStep ==
    ASSUME IInv, up # "down", NEW t \in Targets, recs[t] # Nothing,
           NEW new \in Records \union {Nothing},
           new # Nothing => new.gen = recs[t].gen /\ recs[t].attempt <= new.attempt,
           gens' = gens,
           owed' = IF new = Nothing \/ new.attempt >= MaxAttempts THEN owed \ {recs[t].gen} ELSE owed,
           \/ /\ Acked(Put(t, new))
              /\ \/ calls' = calls
                 \/ /\ new # Nothing /\ recs[t].attempt + 1 <= new.attempt
                    /\ calls' = [calls EXCEPT ![recs[t].gen] = @ + 1]
              /\ ended' = IF new = Nothing THEN ended \union {recs[t].gen} ELSE ended
           \/ /\ \/ Dies(Put(t, new))
                 \/ /\ disk' \in SaveFailures(disk, Put(t, new)) /\ up' = up
                    /\ \/ recs' \in {recs, Put(t, new)}
                       \/ /\ recs' = Put(t, Nothing)
                          /\ new = Nothing \/ new.attempt >= MaxAttempts
              /\ calls' = calls /\ ended' = ended
    PROVE  /\ Ghosts' /\ BudgetKept' /\ SoundRecs' /\ SoundDisk' /\ DownEmpty' /\ Promise'
<1> DEFINE doc == Put(t, new)
           more == [calls EXCEPT ![recs[t].gen] = @ + 1]
<1>1. /\ doc \in Payloads
      /\ Sound(doc, calls, gens, ended)
      /\ new = Nothing => Sound(doc, calls, gens, ended \union {recs[t].gen})
      /\ new # Nothing /\ recs[t].attempt + 1 <= new.attempt => Sound(doc, more, gens, ended)
      /\ ~disk.latch => \A g \in owed :
            g # recs[t].gen \/ (new # Nothing /\ new.attempt < MaxAttempts) => Holds(doc, g)
  BY PutFacts
<1>2. /\ gens \in Nat /\ TypeOK /\ calls \in [Gens -> Nat] /\ MaxAttempts \in Nat
  BY ObligationsAssumption DEF IInv, TypeOK
<1>3. /\ recs[t].gen \in Gens /\ recs[t].gen <= gens /\ recs[t].attempt \in Nat
      /\ calls[recs[t].gen] <= recs[t].attempt
  <2>1. /\ recs[t].gen \in Gens /\ recs[t].gen <= gens /\ recs[t].attempt \in 0..MaxAttempts
        /\ calls[recs[t].gen] <= recs[t].attempt
    BY RecordFacts
  <2> QED
    BY <1>2, <2>1
<1>4. new # Nothing => new.attempt \in Nat /\ new.attempt <= MaxAttempts
  BY ObligationsAssumption DEF Records
<1>14. /\ Sound(Put(t, Nothing), calls, gens, ended)
       /\ ~disk.latch => \A g \in owed \ {recs[t].gen} : Holds(Put(t, Nothing), g)
  BY PutFacts
<1>5. /\ disk' \in Saves(disk, doc)
      /\ \/ Acked(doc) /\ disk' \in SaveAcks(disk, doc) /\ recs' = doc /\ up' = up
         \/ up' = "down" /\ recs' = Empty /\ calls' = calls /\ ended' = ended
         \/ recs' \in {recs, doc} /\ up' = up /\ calls' = calls /\ ended' = ended
         \/ /\ recs' = Put(t, Nothing) /\ up' = up /\ calls' = calls /\ ended' = ended
            /\ new = Nothing \/ new.attempt >= MaxAttempts
  <2>1. CASE Acked(doc)
    BY <1>1, <1>2, <2>1, OutcomeFacts
  <2>2. CASE Dies(doc) /\ calls' = calls /\ ended' = ended
    BY <1>1, <1>2, <2>2, OutcomeFacts
  <2>3. CASE /\ disk' \in SaveFailures(disk, doc) /\ up' = up /\ calls' = calls /\ ended' = ended
             /\ \/ recs' \in {recs, doc}
                \/ recs' = Put(t, Nothing) /\ (new = Nothing \/ new.attempt >= MaxAttempts)
    BY <2>3 DEF Saves
  <2> QED
    BY <2>1, <2>2, <2>3
<1>6. owed' \subseteq owed /\ \A g \in owed' : g # recs[t].gen \/ (new # Nothing /\ new.attempt < MaxAttempts)
  BY <1>2, <1>4
<1>7. Sound(doc, calls', gens', ended')
  BY <1>1
<1>8. /\ ended' \subseteq ended \union {recs[t].gen}
      /\ calls' = calls \/ (calls' = more /\ new # Nothing /\ recs[t].attempt + 1 <= new.attempt)
  OBVIOUS
<1>9. Ghosts'
  <2>1. \A g \in ended' \union owed' : g <= gens
    BY <1>3, <1>6, <1>8 DEF IInv, Ghosts
  <2>2. \A g \in Gens : g > gens => calls'[g] = 0
    <3> SUFFICES ASSUME NEW g \in Gens, g > gens PROVE calls'[g] = 0
      OBVIOUS
    <3>1. calls[g] = 0 /\ g # recs[t].gen
      BY <1>2, <1>3 DEF IInv, Ghosts, Gens
    <3> QED
      BY <1>2, <1>8, <3>1
  <2> QED
    BY <2>1, <2>2 DEF Ghosts
<1>10. BudgetKept'
  <2> SUFFICES ASSUME NEW g \in Gens PROVE calls'[g] <= MaxAttempts
    BY DEF BudgetKept
  <2>1. calls[g] <= MaxAttempts /\ calls[g] \in Nat
    BY <1>2 DEF IInv, BudgetKept
  <2>2. CASE calls' = calls
    BY <2>1, <2>2
  <2>3. CASE calls' = more /\ new # Nothing /\ recs[t].attempt + 1 <= new.attempt
    <3>1. CASE g = recs[t].gen
      BY <1>2, <1>3, <1>4, <2>1, <2>3, <3>1
    <3>2. CASE g # recs[t].gen
      BY <1>2, <2>1, <2>3, <3>2
    <3> QED
      BY <3>1, <3>2
  <2> QED
    BY <1>8, <2>2, <2>3
<1>11. SoundRecs'
  BY <1>5, <1>7, <1>14, EmptyFacts DEF IInv, SoundRecs
<1>12. SoundDisk' /\ Promise'
  <2>1. gens' \in Nat /\ gens <= gens'
    BY <1>2
  <2>2. ~disk.latch => \A g \in owed' : Holds(doc, g) /\ Holds(recs, g)
    BY <1>1, <1>6 DEF IInv, Promise
  <2>3. ~disk.latch /\ up' # "down" => \A g \in owed' : Holds(recs', g)
    <3>1. new = Nothing \/ new.attempt >= MaxAttempts => owed' = owed \ {recs[t].gen}
      OBVIOUS
    <3> QED
      BY <1>5, <1>14, <2>2, <3>1
  <2>4. disk' \in SaveAcks(disk, doc) \/ (calls' = calls /\ ended' = ended /\ owed' \subseteq owed)
    BY <1>5, <1>6
  <2> QED
    BY <1>1, <1>5, <1>7, <2>1, <2>2, <2>3, <2>4, SaveStep
<1>13. DownEmpty'
  BY <1>5 DEF DownEmpty
<1> QED
  BY <1>9, <1>10, <1>11, <1>12, <1>13

LEMMA CancelStep ==
    ASSUME IInv, NEW t \in Targets, Cancel(t) PROVE IInv'
  BY RemoveStep DEF Cancel

LEMMA CancelScenarioStep ==
    ASSUME IInv, NEW s \in Scenarios, CancelScenario(s) PROVE IInv'
<1> DEFINE ts == {t \in Held : recs[t].scenario = s}
<1>1. ts \in SUBSET Targets
  BY DEF Held
<1> QED
  BY <1>1, RemoveStep DEF CancelScenario

\* What every progress of one record's target shares of TypeOK'.
LEMMA ProgressTypes ==
    ASSUME IInv, NEW doc \in Payloads,
           Acked(doc) \/ Failed(doc) \/ Dies(doc)
             \/ (Fault /\ disk' \in SaveFailures(disk, doc) /\ up' = up /\ recs' \in Payloads),
           gens' = gens, calls' \in [Gens -> Nat],
           task' \in [Targets -> Tasks \union {Nothing}],
           owed' \subseteq owed, ended' \subseteq Gens, adopted' \subseteq Gens
    PROVE  TypeOK'
<1>1. TypeOK /\ owed \subseteq Gens
  BY DEF IInv, TypeOK
<1>2. /\ disk' \in Disks /\ up' \in {"down", "loaded", "started"} /\ recs' \in Payloads
      /\ faults' \in 0..MaxFaults
  <2>1. CASE Acked(doc) \/ Failed(doc) \/ Dies(doc)
    BY <1>1, <2>1, OutcomeFacts
  <2>2. CASE Fault /\ disk' \in SaveFailures(disk, doc) /\ up' = up /\ recs' \in Payloads
    <3>1. disk' \in Saves(disk, doc)
      BY <2>2 DEF Saves
    <3>2. faults' \in 0..MaxFaults
      BY <1>1, <2>2, ObligationsAssumption DEF Fault, TypeOK
    <3> QED
      BY <1>1, <2>2, <3>1, <3>2, SaveFacts DEF TypeOK
  <2> QED
    BY <2>1, <2>2
<1> QED
  BY <1>1, <1>2 DEF TypeOK

LEMMA RetryStep ==
    ASSUME IInv, NEW t \in Targets, NEW physical \in BOOLEAN, Retry(t, physical) PROVE IInv'
<1> DEFINE rec == [recs[t] EXCEPT !.attempt = IF physical /\ @ < 1 THEN 1 ELSE @]
           spent == rec.attempt >= MaxAttempts
           new == IF spent THEN Nothing ELSE rec
           doc == Put(t, new)
<1>1. /\ up = "started" /\ recs[t] # Nothing
      /\ gens' = gens /\ calls' = calls
      /\ owed' = IF spent THEN owed \ {rec.gen} ELSE owed
      /\ \/ /\ Acked(doc)
            /\ task' = [task EXCEPT ![t] = IF spent THEN Nothing ELSE Asleep(rec.gen)]
            /\ ended' = IF spent THEN ended \union {rec.gen} ELSE ended
            /\ adopted' = adopted \union {rec.gen}
         \/ /\ Failed(doc) \/ Dies(doc)
            /\ up' # "down" => task' = task
            /\ ended' = ended /\ adopted' = adopted
  BY DEF Retry, Up
<1>2. /\ recs[t] \in Records /\ recs[t].attempt \in 0..MaxAttempts /\ recs[t].gen \in Gens
      /\ MaxAttempts \in Nat \ {0}
  BY <1>1, RecordFacts, ObligationsAssumption
<1>3. /\ rec \in Records /\ rec.gen = recs[t].gen /\ recs[t].attempt <= rec.attempt
  BY <1>2 DEF Records
<1>4. rec # Nothing
  BY <1>3, ObligationsAssumption
<1>5. /\ new \in Records \union {Nothing}
      /\ new # Nothing => new.gen = recs[t].gen /\ recs[t].attempt <= new.attempt
      /\ spent <=> (new = Nothing \/ new.attempt >= MaxAttempts)
      /\ spent <=> new = Nothing
  BY <1>3, <1>4
<1>6. doc \in Payloads
  BY <1>1, <1>5, PutFacts
<1>7. TypeOK'
  <2>1. /\ task \in [Targets -> Tasks \union {Nothing}] /\ calls \in [Gens -> Nat]
        /\ owed \subseteq Gens /\ ended \subseteq Gens /\ adopted \subseteq Gens
    BY DEF IInv, TypeOK
  <2>2. Dies(doc) => task' = Empty
    BY DEF Dies, Gone
  <2>3. Failed(doc) => up' # "down"
    BY <1>1 DEF Failed
  <2>4. task' \in [Targets -> Tasks \union {Nothing}]
    BY <1>1, <1>2, <1>3, <2>1, <2>2, <2>3, TaskTypes, EmptyTask
  <2>5. owed' \subseteq owed /\ ended' \subseteq Gens /\ adopted' \subseteq Gens
    BY <1>1, <1>2, <1>3, <2>1
  <2> QED
    BY <1>1, <1>6, <2>1, <2>4, <2>5, ProgressTypes
<1>8. /\ Ghosts' /\ BudgetKept' /\ SoundRecs' /\ SoundDisk' /\ DownEmpty' /\ Promise'
  <2>1. owed' = IF new = Nothing \/ new.attempt >= MaxAttempts THEN owed \ {recs[t].gen} ELSE owed
    BY <1>1, <1>3, <1>5
  <2>2. CASE Acked(doc) /\ ended' = IF spent THEN ended \union {rec.gen} ELSE ended
    <3>1. ended' = IF new = Nothing THEN ended \union {recs[t].gen} ELSE ended
      BY <1>3, <1>5, <2>2
    <3> QED
      BY <1>1, <1>5, <2>1, <2>2, <3>1, ProgressStep
  <2>3. CASE (Failed(doc) \/ Dies(doc)) /\ ended' = ended
    <3>1. Failed(doc) => disk' \in SaveFailures(disk, doc) /\ up' = up /\ recs' \in {recs, doc}
      BY DEF Failed
    <3> QED
      BY <1>1, <1>5, <2>1, <2>3, <3>1, ProgressStep
  <2> QED
    BY <1>1, <2>2, <2>3
<1> QED
  BY <1>7, <1>8 DEF IInv

LEMMA ReserveStep ==
    ASSUME IInv, NEW t \in Targets, Reserve(t) PROVE IInv'
<1> DEFINE rec == [recs[t] EXCEPT !.attempt = @ + 1]
           last == rec.attempt >= MaxAttempts
           doc == Put(t, rec)
<1>1. /\ recs[t] # Nothing /\ recs[t].attempt < MaxAttempts
      /\ gens' = gens /\ ended' = ended /\ adopted' = adopted
      /\ owed' = IF last THEN owed \ {rec.gen} ELSE owed
      /\ \/ /\ Acked(doc)
            /\ task' = [task EXCEPT ![t] = Calling(rec.gen)]
            /\ calls' = [calls EXCEPT ![rec.gen] = @ + 1]
         \/ /\ Fault
            /\ disk' \in SaveFailures(disk, doc)
            /\ recs' = IF last THEN Put(t, Nothing) ELSE doc
            /\ task' = IF last THEN Untasked({t}) ELSE task
            /\ up' = up /\ calls' = calls
         \/ Dies(doc) /\ calls' = calls
  BY DEF Reserve, Live
<1>2. /\ recs[t] \in Records /\ recs[t].attempt \in 0..MaxAttempts /\ recs[t].gen \in Gens
      /\ MaxAttempts \in Nat \ {0}
  BY <1>1, RecordFacts, ObligationsAssumption
<1>3. /\ rec \in Records /\ rec.gen = recs[t].gen /\ rec.attempt = recs[t].attempt + 1
      /\ recs[t].attempt <= rec.attempt
  BY <1>1, <1>2 DEF Records
<1>4. rec # Nothing
  BY <1>3, ObligationsAssumption
<1>5. up # "down"
  BY <1>1 DEF IInv, DownEmpty, Empty
<1>6. doc \in Payloads /\ Put(t, Nothing) \in Payloads
  BY <1>1, <1>3, PutFacts
<1>7. TypeOK'
  <2>1. /\ task \in [Targets -> Tasks \union {Nothing}] /\ calls \in [Gens -> Nat]
        /\ owed \subseteq Gens /\ ended \subseteq Gens /\ adopted \subseteq Gens /\ TypeOK
    BY DEF IInv, TypeOK
  <2>2. Dies(doc) => task' = Empty
    BY DEF Dies, Gone
  <2>3. task' \in [Targets -> Tasks \union {Nothing}]
    <3>1. Calling(rec.gen) \in Tasks
      BY <1>2, <1>3, TaskTypes
    <3> QED
      BY <1>1, <2>1, <2>2, <3>1, UntaskedType, EmptyTask
  <2>4. calls' \in [Gens -> Nat]
    BY <1>1, <1>2, <1>3, <2>1
  <2>5. owed' \subseteq owed
    BY <1>1
  <2> QED
    BY <1>1, <1>6, <2>1, <2>3, <2>4, <2>5, ProgressTypes
<1>8. /\ Ghosts' /\ BudgetKept' /\ SoundRecs' /\ SoundDisk' /\ DownEmpty' /\ Promise'
  <2>1. owed' = IF rec = Nothing \/ rec.attempt >= MaxAttempts THEN owed \ {recs[t].gen} ELSE owed
    BY <1>1, <1>3, <1>4
  <2>2. /\ rec \in Records \union {Nothing}
        /\ rec # Nothing => rec.gen = recs[t].gen /\ recs[t].attempt <= rec.attempt
        /\ recs[t].attempt + 1 <= rec.attempt
    BY <1>2, <1>3
  <2>3. CASE Acked(doc) /\ calls' = [calls EXCEPT ![rec.gen] = @ + 1]
    <3>1. /\ calls' = [calls EXCEPT ![recs[t].gen] = @ + 1]
          /\ ended' = IF rec = Nothing THEN ended \union {recs[t].gen} ELSE ended
      BY <1>1, <1>3, <1>4, <2>3
    <3> QED
      BY <1>1, <1>4, <1>5, <2>1, <2>2, <2>3, <3>1, ProgressStep
  <2>4. CASE /\ disk' \in SaveFailures(disk, doc) /\ up' = up /\ calls' = calls
             /\ recs' = IF last THEN Put(t, Nothing) ELSE doc
    <3>1. recs' \in {recs, doc} \/ (recs' = Put(t, Nothing) /\ (rec = Nothing \/ rec.attempt >= MaxAttempts))
      BY <2>4
    <3> QED
      BY <1>1, <1>5, <2>1, <2>2, <2>4, <3>1, ProgressStep
  <2>5. CASE Dies(doc) /\ calls' = calls
    BY <1>1, <1>5, <2>1, <2>2, <2>5, ProgressStep
  <2> QED
    BY <1>1, <2>3, <2>4, <2>5
<1> QED
  BY <1>7, <1>8 DEF IInv

LEMMA DecideStep ==
    ASSUME IInv, NEW t \in Targets, NEW outcome \in Outcomes, Decide(t, outcome) PROVE IInv'
<1> DEFINE rec == recs[t]
           last == rec.attempt >= MaxAttempts
           over == outcome # "retry" \/ last
           new == IF over THEN Nothing ELSE rec
           doc == Put(t, new)
<1>1. /\ recs[t] # Nothing
      /\ gens' = gens /\ calls' = calls /\ adopted' = adopted
      /\ owed' = IF over THEN owed \ {rec.gen} ELSE owed
      /\ \/ /\ Acked(doc)
            /\ task' = [task EXCEPT ![t] = IF over THEN Nothing ELSE Asleep(rec.gen)]
            /\ ended' = IF over THEN ended \union {rec.gen} ELSE ended
         \/ /\ Fault
            /\ disk' \in SaveFailures(disk, doc)
            /\ recs' = IF last THEN Put(t, Nothing) ELSE recs
            /\ task' = [task EXCEPT ![t] = IF last THEN Nothing ELSE Asleep(rec.gen)]
            /\ up' = up /\ ended' = ended
         \/ Dies(doc) /\ ended' = ended
  BY DEF Decide, Live
<1>2. /\ rec \in Records /\ rec.attempt \in 0..MaxAttempts /\ rec.gen \in Gens
      /\ MaxAttempts \in Nat
  BY <1>1, RecordFacts, ObligationsAssumption
<1>3. /\ new \in Records \union {Nothing}
      /\ new # Nothing => new.gen = recs[t].gen /\ recs[t].attempt <= new.attempt
      /\ over <=> (new = Nothing \/ new.attempt >= MaxAttempts)
      /\ over <=> new = Nothing
  BY <1>1, <1>2
<1>4. up # "down"
  BY <1>1 DEF IInv, DownEmpty, Empty
<1>5. doc \in Payloads /\ Put(t, Nothing) \in Payloads
  BY <1>1, <1>3, PutFacts
<1>6. TypeOK'
  <2>1. /\ task \in [Targets -> Tasks \union {Nothing}] /\ calls \in [Gens -> Nat] /\ recs \in Payloads
        /\ owed \subseteq Gens /\ ended \subseteq Gens /\ adopted \subseteq Gens
    BY DEF IInv, TypeOK
  <2>2. Dies(doc) => task' = Empty
    BY DEF Dies, Gone
  <2>3. task' \in [Targets -> Tasks \union {Nothing}]
    <3>1. Asleep(rec.gen) \in Tasks
      BY <1>2, TaskTypes
    <3> QED
      BY <1>1, <2>1, <2>2, <3>1, EmptyTask
  <2>4. owed' \subseteq owed /\ ended' \subseteq Gens
    BY <1>1, <1>2, <2>1
  <2> QED
    BY <1>1, <1>5, <2>1, <2>3, <2>4, ProgressTypes
<1>7. /\ Ghosts' /\ BudgetKept' /\ SoundRecs' /\ SoundDisk' /\ DownEmpty' /\ Promise'
  <2>1. owed' = IF new = Nothing \/ new.attempt >= MaxAttempts THEN owed \ {recs[t].gen} ELSE owed
    BY <1>1, <1>3
  <2>2. CASE Acked(doc) /\ ended' = IF over THEN ended \union {rec.gen} ELSE ended
    <3>1. ended' = IF new = Nothing THEN ended \union {recs[t].gen} ELSE ended
      BY <1>3, <2>2
    <3> QED
      BY <1>1, <1>3, <1>4, <2>1, <2>2, <3>1, ProgressStep
  <2>3. CASE /\ disk' \in SaveFailures(disk, doc) /\ up' = up /\ ended' = ended
             /\ recs' = IF last THEN Put(t, Nothing) ELSE recs
    <3>1. recs' \in {recs, doc} \/ (recs' = Put(t, Nothing) /\ (new = Nothing \/ new.attempt >= MaxAttempts))
      BY <2>3
    <3> QED
      BY <1>1, <1>3, <1>4, <2>1, <2>3, <3>1, ProgressStep
  <2>4. CASE Dies(doc) /\ ended' = ended
    BY <1>1, <1>3, <1>4, <2>1, <2>4, ProgressStep
  <2> QED
    BY <1>1, <2>2, <2>3, <2>4
<1> QED
  BY <1>6, <1>7 DEF IInv

LEMMA CallbackAnswersStep ==
    ASSUME IInv, NEW t \in Targets, NEW outcome \in Outcomes, CallbackAnswers(t, outcome)
    PROVE  IInv'
<1>1. /\ disk' = disk /\ up' = up /\ recs' = recs /\ faults' = faults
      /\ gens' = gens /\ calls' = calls /\ owed' = owed /\ ended' = ended /\ adopted' = adopted
      /\ task' = [task EXCEPT ![t].at = outcome] /\ task[t] # Nothing
  BY DEF CallbackAnswers, Live, ghosts
<1>2. task[t] \in Tasks /\ task \in [Targets -> Tasks \union {Nothing}]
  BY <1>1 DEF IInv, TypeOK
<1>3. [task[t] EXCEPT !.at = outcome] \in Tasks
  BY <1>2 DEF Tasks, Outcomes
<1>4. task' \in [Targets -> Tasks \union {Nothing}]
  BY <1>1, <1>2, <1>3
<1>5. TypeOK'
  BY <1>1, <1>4 DEF IInv, TypeOK
<1> QED
  BY <1>1, <1>5 DEF IInv, Ghosts, BudgetKept, SoundRecs, SoundDisk, DownEmpty, Promise

LEMMA KeptFacts ==
    ASSUME NEW doc \in Payloads
    PROVE  /\ Kept(doc) \in Payloads
           /\ \A cs, n, e : Sound(doc, cs, n, e) => Sound(Kept(doc), cs, n, e)
           /\ \A g : Holds(doc, g) => Holds(Kept(doc), g)
<1>1. doc \in [Targets -> Records \union {Nothing}]
  BY DEF Payloads
<1>2. /\ Kept(doc) \in Payloads
      /\ \A t \in Targets : Kept(doc)[t] \in {doc[t], Nothing}
  BY <1>1 DEF Kept, Payloads
<1>3. \A cs, n, e : Sound(doc, cs, n, e) => Sound(Kept(doc), cs, n, e)
  BY <1>2, SoundPart
<1>4. ASSUME NEW g, Holds(doc, g) PROVE Holds(Kept(doc), g)
  <2>1. PICK t \in Targets : doc[t] # Nothing /\ doc[t].gen = g /\ doc[t].attempt < MaxAttempts
    BY <1>4 DEF Holds
  <2>2. doc[t].attempt \in Nat /\ MaxAttempts \in Nat
    BY <1>1, <2>1, ObligationsAssumption DEF Records
  <2>3. t \notin Spent(doc)
    BY <2>1, <2>2 DEF Spent
  <2>4. Kept(doc)[t] = doc[t]
    BY <2>3 DEF Kept
  <2> QED
    BY <2>1, <2>4 DEF Holds
<1> QED
  BY <1>2, <1>3, <1>4

\* A set-up's document is sound, whatever the files are.
LEMMA LoadStep == ASSUME IInv, Load PROVE IInv'
<1> PICK a \in LoadAnswers(disk) :
      LET doc == IF a.flagged THEN Empty ELSE Kept(a.doc)
          saves == a.flagged \/ Spent(a.doc) # {}
      IN  CASE a.kind = "error" ->
                  disk' = a.disk /\ UNCHANGED <<up, recs, faults>>
            [] a.kind = "none" ->
                  disk' = a.disk /\ up' = "loaded" /\ UNCHANGED <<recs, faults>>
            [] a.kind = "value" ->
                  \/ /\ disk' = IF saves THEN Saved(a.disk, doc) ELSE a.disk
                     /\ recs' = doc /\ up' = "loaded"
                     /\ UNCHANGED faults
                  \/ /\ saves /\ Fault
                     /\ disk' \in SaveFailures(a.disk, doc)
                     /\ UNCHANGED <<up, recs>>
  BY DEF Load
<1> DEFINE doc == IF a.flagged THEN Empty ELSE Kept(a.doc)
           saves == a.flagged \/ Spent(a.doc) # {}
<1>1. /\ up = "down" /\ recs = Empty
      /\ task' = task /\ gens' = gens /\ calls' = calls
      /\ owed' = owed /\ ended' = ended /\ adopted' = adopted
  BY DEF Load, IInv, DownEmpty
<1>2. /\ disk \in Disks /\ TypeOK
  BY DEF IInv, TypeOK
<1>3. /\ a.disk \in Disks /\ a.flagged \in BOOLEAN
      /\ a.kind \in {"value", "none", "error"}
      /\ a.kind = "value" => a.doc \in Payloads
      /\ a.kind = "value" /\ ~a.flagged => ~disk.latch /\ Valid(disk.cur) /\ a.doc = disk.cur /\ a.disk = disk
      /\ a.kind = "value" /\ a.flagged => a.disk.latch
      /\ a.kind # "value" => ~Valid(disk.cur) /\ ~Valid(a.disk.cur)
      /\ disk.latch => a.disk.latch
  BY <1>2, LoadFacts
<1>4. Ghosts' /\ BudgetKept'
  BY <1>1 DEF IInv, Ghosts, BudgetKept
<1>5. CASE a.kind # "value"
  <2>1. disk' = a.disk /\ up' \in {"down", "loaded"} /\ recs' = recs /\ faults' = faults
    BY <1>1, <1>3, <1>5
  <2>2. TypeOK'
    BY <1>1, <1>2, <1>3, <2>1 DEF TypeOK
  <2>3. SoundRecs' /\ DownEmpty'
    BY <1>1, <2>1 DEF IInv, SoundRecs, DownEmpty
  <2>4. SoundDisk'
    BY <1>3, <1>5, <2>1 DEF SoundDisk
  <2>5. Promise'
    <3> SUFFICES ASSUME ~disk.latch, NEW g \in owed PROVE FALSE
      BY <1>1, <1>3, <2>1 DEF Promise
    <3> QED
      BY <1>3, <1>5 DEF IInv, Promise
  <2> QED
    BY <1>4, <2>2, <2>3, <2>4, <2>5 DEF IInv
<1>6. CASE a.kind = "value"
  <2>1. \/ /\ disk' = IF saves THEN Saved(a.disk, doc) ELSE a.disk
           /\ recs' = doc /\ up' = "loaded" /\ faults' = faults
        \/ /\ saves /\ Fault
           /\ disk' \in SaveFailures(a.disk, doc)
           /\ up' = up /\ recs' = recs
    BY <1>6
  <2>2. doc \in Payloads
    BY <1>3, <1>6, EmptyFacts, KeptFacts
  <2>3. disk' \in Saves(a.disk, doc)
    BY <2>1 DEF Saves, SaveAcks, SaveFailures
  <2>4. disk' \in Disks /\ disk'.latch = a.disk.latch /\ (disk'.cur = a.disk.cur \/ disk'.cur = doc)
    BY <1>3, <2>2, <2>3, SaveFacts
  <2>5. ~disk'.latch => /\ ~a.flagged /\ ~disk.latch /\ Valid(disk.cur) /\ a.disk = disk
                        /\ doc = Kept(disk.cur)
    BY <1>3, <1>6, <2>4
  <2>6. Sound(doc, calls, gens, ended)
    <3>1. CASE a.flagged
      BY <3>1, EmptyFacts
    <3>2. CASE ~a.flagged
      <4>1. Sound(disk.cur, calls, gens, ended)
        BY <1>3, <1>6, <3>2 DEF IInv, SoundDisk
      <4> QED
        BY <1>3, <1>6, <3>2, <4>1, KeptFacts
    <3> QED
      BY <3>1, <3>2
  <2>7. TypeOK'
    <3>1. faults' \in 0..MaxFaults
      BY <1>2, <2>1, ObligationsAssumption DEF Fault, TypeOK
    <3> QED
      BY <1>1, <1>2, <2>1, <2>2, <2>4, <3>1 DEF TypeOK
  <2>8. SoundRecs' /\ DownEmpty'
    BY <1>1, <2>1, <2>6 DEF IInv, SoundRecs, DownEmpty
  <2>9. SoundDisk'
    <3> SUFFICES ASSUME ~disk'.latch PROVE Sound(disk'.cur, calls, gens, ended)
      BY <1>1 DEF SoundDisk
    <3> QED
      BY <2>4, <2>5, <2>6 DEF IInv, SoundDisk
  <2>10. Promise'
    <3> SUFFICES ASSUME ~disk'.latch, NEW g \in owed
                 PROVE  /\ Valid(disk'.cur) /\ Holds(disk'.cur, g)
                        /\ up' # "down" => Holds(recs', g)
      BY <1>1 DEF Promise
    <3>1. Holds(disk.cur, g) /\ disk.cur \in Payloads
      BY <2>5 DEF IInv, Promise, Valid
    <3>2. Holds(doc, g)
      BY <2>5, <3>1, KeptFacts
    <3> QED
      BY <1>1, <2>1, <2>2, <2>4, <2>5, <3>1, <3>2 DEF Valid
  <2> QED
    BY <1>4, <2>7, <2>8, <2>9, <2>10 DEF IInv
<1> QED
  BY <1>5, <1>6

LEMMA LoadCutStep == ASSUME IInv, LoadCut PROVE IInv'
<1>1. /\ up' = up /\ recs' = recs /\ task' = task /\ gens' = gens /\ calls' = calls
      /\ owed' = owed /\ ended' = ended /\ adopted' = adopted
      /\ Fault /\ disk' \in LoadCuts(disk) /\ disk' # disk
  BY DEF LoadCut, ghosts
<1>2. disk \in Disks /\ TypeOK
  BY DEF IInv, TypeOK
<1>3. /\ disk' \in Disks /\ ~Valid(disk.cur) /\ (disk'.latch \/ ~Valid(disk'.cur))
      /\ disk.latch => disk'.latch
  BY <1>1, <1>2, LoadCutFacts
<1>4. TypeOK'
  <2>1. faults' \in 0..MaxFaults
    BY <1>1, <1>2, ObligationsAssumption DEF Fault, TypeOK
  <2> QED
    BY <1>1, <1>2, <1>3, <2>1 DEF TypeOK
<1>5. Ghosts' /\ BudgetKept' /\ SoundRecs' /\ DownEmpty'
  BY <1>1 DEF IInv, Ghosts, BudgetKept, SoundRecs, DownEmpty
<1>6. SoundDisk'
  BY <1>3 DEF SoundDisk
<1>7. Promise'
  <2> SUFFICES ASSUME ~disk.latch, NEW g \in owed PROVE FALSE
    BY <1>1, <1>3 DEF Promise
  <2> QED
    BY <1>3 DEF IInv, Promise
<1> QED
  BY <1>4, <1>5, <1>6, <1>7 DEF IInv

LEMMA StartStep == ASSUME IInv, Start PROVE IInv'
<1>1. /\ up = "loaded" /\ up' = "started"
      /\ task' = [t \in Targets |-> IF recs[t] = Nothing THEN Nothing ELSE Asleep(recs[t].gen)]
      /\ adopted' = adopted \union GensAt(Targets)
      /\ disk' = disk /\ recs' = recs /\ faults' = faults /\ gens' = gens /\ calls' = calls
      /\ owed' = owed /\ ended' = ended
  BY DEF Start
<1>2. task' \in [Targets -> Tasks \union {Nothing}]
  BY <1>1, RecordFacts, TaskTypes
<1>3. adopted' \subseteq Gens
  BY <1>1, GensAtFacts DEF IInv, TypeOK
<1>4. TypeOK'
  BY <1>1, <1>2, <1>3 DEF IInv, TypeOK
<1> QED
  BY <1>1, <1>4 DEF IInv, Ghosts, BudgetKept, SoundRecs, SoundDisk, DownEmpty, Promise

LEMMA StopStep == ASSUME IInv, Stop PROVE IInv'
<1>1. /\ up' = "down" /\ recs' = Empty /\ task' = Empty
      /\ disk' = disk /\ faults' = faults /\ gens' = gens /\ calls' = calls
      /\ owed' = owed /\ ended' = ended /\ adopted' = adopted
  BY DEF Stop, Gone, ghosts
<1>2. TypeOK'
  BY <1>1, EmptyFacts, EmptyTask DEF IInv, TypeOK
<1> QED
  BY <1>1, <1>2, EmptyFacts
     DEF IInv, Ghosts, BudgetKept, SoundRecs, SoundDisk, DownEmpty, Promise

LEMMA DamageFileStep == ASSUME IInv, DamageFile PROVE IInv'
<1>1. /\ up = "down" /\ Fault
      /\ up' = up /\ recs' = recs /\ task' = task /\ gens' = gens /\ calls' = calls
      /\ ended' = ended /\ adopted' = adopted
      /\ owed' = IF disk'.cur # disk.cur THEN {} ELSE owed
  BY DEF DamageFile
<1>2. PICK bad \in {Invalid, Corrupt} :
        disk' \in {[disk EXCEPT !.cur = bad], [disk EXCEPT !.prev = bad]}
  BY DEF DamageFile
<1>3. disk \in Disks /\ TypeOK /\ ~Valid(bad) /\ bad \in Files
  BY <1>2, ObligationsAssumption DEF IInv, TypeOK, Valid, Files
<1>4. /\ disk' \in Disks /\ disk'.latch = disk.latch
      /\ disk'.cur = disk.cur \/ ~Valid(disk'.cur)
  BY <1>2, <1>3 DEF Disks
<1>5. TypeOK'
  <2>1. faults' \in 0..MaxFaults
    BY <1>1, <1>3, ObligationsAssumption DEF Fault, TypeOK
  <2> QED
    BY <1>1, <1>3, <1>4, <2>1 DEF TypeOK
<1>6. Ghosts' /\ BudgetKept' /\ SoundRecs' /\ DownEmpty'
  BY <1>1 DEF IInv, Ghosts, BudgetKept, SoundRecs, DownEmpty
<1>7. SoundDisk' /\ Promise'
  BY <1>1, <1>4 DEF IInv, SoundDisk, Promise
<1> QED
  BY <1>5, <1>6, <1>7 DEF IInv

LEMMA NextStep == IInv /\ [Next]_vars => IInv'
<1> SUFFICES ASSUME IInv, [Next]_vars PROVE IInv'
  OBVIOUS
<1>1. CASE Next
  BY <1>1, ArmStep, CancelStep, CancelScenarioStep, RetryStep, ReserveStep, CallbackAnswersStep,
     DecideStep, LoadStep, LoadCutStep, StartStep, StopStep, DamageFileStep
     DEF Next
<1>2. CASE UNCHANGED vars
  BY <1>2 DEF vars, ghosts, IInv, TypeOK, Ghosts, BudgetKept, SoundRecs, SoundDisk, DownEmpty,
     Promise
<1> QED
  BY <1>1, <1>2

LEMMA Inductive == Spec => []IInv
<1>1. Init => IInv
  BY InitIInv
<1>2. IInv /\ [Next]_vars => IInv'
  BY NextStep
<1> QED
  BY <1>1, <1>2, PTL DEF Spec

---------------------------------------------------------------------------
(* The theorems.                                                             *)

\* Memory, files and tasks hold what they are made for.
THEOREM Types == Spec => []TypeOK
<1>1. IInv => TypeOK
  BY DEF IInv
<1> QED
  BY <1>1, Inductive, PTL

\* A record is reconciled MaxAttempts times at most, over all failed saves, crashes,
\* restarts and damaged files.
THEOREM Budget == Spec => []BudgetKept
<1>1. IInv => BudgetKept
  BY DEF IInv
<1> QED
  BY <1>1, Inductive, PTL

\* What was cancelled, completed, replaced or exhausted, and acknowledged, never comes
\* back to memory.
THEOREM Ended == Spec => []EndedStaysEnded
<1>1. IInv => EndedStaysEnded
  BY DEF IInv, SoundRecs, Sound, EndedStaysEnded, Held
<1> QED
  BY <1>1, Inductive, PTL

\* Unless the store fell back, every record that was acknowledged and that nobody began
\* to end has a task after a set-up.
THEOREM Survives == Spec => PromiseSurvives
<1> DEFINE Rescheduled == up = "loaded" /\ up' = "started" /\ ~disk.latch =>
                            \A g \in owed : \E t \in Targets : task'[t] = Asleep(g)
<1>1. IInv /\ [Next]_vars => [Rescheduled]_vars
  <2> SUFFICES ASSUME IInv, Next, up = "loaded", up' = "started", ~disk.latch, NEW g \in owed
               PROVE  \E t \in Targets : task'[t] = Asleep(g)
    BY DEF vars
  <2>1. PICK t \in Targets : recs[t] # Nothing /\ recs[t].gen = g
    BY DEF IInv, Promise, Holds
  <2>2. Start
    <3>1. ~Up
      BY DEF Up
    <3>2. up # "down"
      OBVIOUS
    <3>3. up' # up
      OBVIOUS
    <3>4. \A doc : ~Acked(doc) /\ ~Failed(doc) /\ ~Dies(doc)
      BY <3>3 DEF Acked, Failed, Dies, Gone
    <3>5. /\ \A u \in Targets, s \in Scenarios : ~Arm(u, s)
          /\ \A u \in Targets : ~Cancel(u)
          /\ \A s \in Scenarios : ~CancelScenario(s)
      BY <3>1 DEF Arm, Cancel, CancelScenario, Remove
    <3>6. \A u \in Targets, physical \in BOOLEAN : ~Retry(u, physical)
      BY <3>1 DEF Retry
    <3>7. \A u \in Targets : ~Reserve(u)
      BY <3>3, <3>4 DEF Reserve
    <3>8. \A u \in Targets, outcome \in Outcomes : ~CallbackAnswers(u, outcome) /\ ~Decide(u, outcome)
      BY <3>3, <3>4 DEF CallbackAnswers, Decide
    <3>9. ~Load /\ ~LoadCut /\ ~DamageFile /\ ~Stop
      BY <3>2, <3>3 DEF Load, LoadCut, DamageFile, Stop, Gone
    <3> QED
      BY <3>5, <3>6, <3>7, <3>8, <3>9 DEF Next
  <2>3. task'[t] = Asleep(g)
    BY <2>1, <2>2 DEF Start
  <2> QED
    BY <2>3
<1> QED
  BY <1>1, Inductive, PTL DEF Spec, PromiseSurvives
---------------------------------------------------------------------------
(* Nobody forgets a record.                                                  *)

\* The task of target t works on its record and can go on: an attempt is left if it
\* waits for its time; otherwise the callback answers, or its answer is saved.
Advances(t) ==
    /\ task[t] # Nothing /\ task[t].gen = recs[t].gen
    /\ task[t].at = "asleep" => recs[t].attempt < MaxAttempts

AdoptedAttended == Up => \A t \in Held : recs[t].gen \in adopted => Advances(t)

\* Record r and task k of one target: the task is the record's, has an attempt left
\* while it waits, and is there if the record was adopted.
Fit(r, k, a) ==
    /\ k # Nothing => r # Nothing /\ k.gen = r.gen
    /\ k # Nothing /\ k.at = "asleep" => r.attempt < MaxAttempts
    /\ r # Nothing /\ r.gen \in a => k # Nothing

\* A loaded record has an attempt left for the task that the start gives it.
Tasked ==
    /\ \A g \in adopted : g <= gens
    /\ up = "started" => \A t \in Targets : Fit(recs[t], task[t], adopted)
    /\ up # "started" => task = Empty
    /\ up = "loaded" => \A t \in Held : recs[t].attempt < MaxAttempts

TaskedInv == IInv /\ Tasked

\* The operations of the started coordinator: what they leave of each target.
LEMMA TaskedStays ==
    ASSUME up' = "started", \A g \in adopted' : g <= gens',
           \A u \in Targets : Fit(recs'[u], task'[u], adopted')
    PROVE  Tasked'
  BY DEF Tasked

LEMMA TaskedGone ==
    ASSUME Gone, \A g \in adopted' : g <= gens'
    PROVE  Tasked'
  BY DEF Tasked, Gone

\* What an operation on target t does to record and task of the others: nothing.
LEMMA OthersFit ==
    ASSUME TaskedInv, up = "started", NEW t \in Targets, NEW u \in Targets \ {t}, NEW a,
           a = adopted \/ (recs[t] # Nothing /\ a = adopted \union {recs[t].gen})
                       \/ a = adopted \union {gens + 1}
    PROVE  Fit(recs[u], task[u], a)
<1>1. Fit(recs[u], task[u], adopted)
  BY DEF TaskedInv, Tasked
<1>2. recs[u] # Nothing => recs[u].gen <= gens /\ recs[u].gen \in Gens
  BY RecordFacts DEF TaskedInv
<1>3. recs[u] # Nothing => recs[u].gen # gens + 1
  <2>1. gens \in Nat
    BY DEF TaskedInv, IInv, TypeOK, Gens
  <2> QED
    BY <1>2, <2>1 DEF Gens
<1>4. recs[t] # Nothing /\ recs[u] # Nothing => recs[u].gen # recs[t].gen
  BY RecordFacts DEF TaskedInv
<1> QED
  BY <1>1, <1>3, <1>4 DEF Fit

\* An operation on one target.
LEMMA OneTasked ==
    ASSUME TaskedInv, up = "started", up' = "started", NEW t \in Targets,
           NEW r, recs' = Put(t, r), NEW k, task' = [task EXCEPT ![t] = k],
           adopted' = adopted \/ (recs[t] # Nothing /\ adopted' = adopted \union {recs[t].gen}),
           Fit(r, k, adopted'), gens' = gens \/ gens' = gens + 1
    PROVE  Tasked'
<1>1. /\ recs \in [Targets -> Records \union {Nothing}] /\ gens \in Nat
      /\ task \in [Targets -> Tasks \union {Nothing}] /\ adopted \subseteq Gens
  BY DEF TaskedInv, IInv, TypeOK, Payloads, Gens
<1>2. \A g \in adopted' : g <= gens'
  <2>1. recs[t] # Nothing => recs[t].gen \in Gens /\ recs[t].gen <= gens
    BY RecordFacts DEF TaskedInv
  <2>2. \A g \in adopted' : g \in Gens /\ g <= gens
    BY <1>1, <2>1 DEF TaskedInv, Tasked
  <2> QED
    BY <1>1, <2>2 DEF Gens
<1>3. recs'[t] = r /\ task'[t] = k
  BY <1>1 DEF Put
<1>4. \A u \in Targets \ {t} : recs'[u] = recs[u] /\ task'[u] = task[u]
  BY <1>1 DEF Put
<1>5. \A u \in Targets \ {t} : Fit(recs[u], task[u], adopted')
  BY OthersFit
<1>6. \A u \in Targets : Fit(recs'[u], task'[u], adopted')
  BY <1>3, <1>4, <1>5
<1> QED
  BY <1>2, <1>6, TaskedStays

\* One that fails leaves the memory, or ends it.
LEMMA FailedTasked ==
    ASSUME TaskedInv, up = "started", NEW doc, Failed(doc) \/ Dies(doc),
           up' # "down" => UNCHANGED task, UNCHANGED <<adopted, gens>> \/
           (UNCHANGED adopted /\ gens' = gens + 1)
    PROVE  Tasked'
<1>1. \A g \in adopted' : g <= gens'
  <2>1. adopted \subseteq Gens /\ gens \in Nat
    BY DEF TaskedInv, IInv, TypeOK, Gens
  <2>2. \A g \in adopted : g <= gens
    BY DEF TaskedInv, Tasked
  <2>3. \A g \in adopted : g <= gens + 1
    BY <2>1, <2>2 DEF Gens
  <2>4. adopted' = adopted /\ (gens' = gens \/ gens' = gens + 1)
    OBVIOUS
  <2> QED
    BY <2>2, <2>3, <2>4
<1>2. CASE Dies(doc)
  BY <1>1, <1>2, TaskedGone DEF Dies
<1>3. CASE Failed(doc)
  BY <1>1, <1>3, TaskedStays DEF TaskedInv, Tasked, Failed
<1> QED
  BY <1>2, <1>3

LEMMA TaskFacts ==
    ASSUME TaskedInv, NEW t \in Targets
    PROVE  /\ gens \in Nat /\ MaxAttempts \in Nat \ {0}
           /\ Untasked({t}) = [task EXCEPT ![t] = Nothing]
           /\ task = [task EXCEPT ![t] = task[t]] /\ recs = Put(t, recs[t])
           /\ recs[t] # Nothing =>
                recs[t] \in Records /\ recs[t].attempt \in Nat /\ recs[t].gen \in Gens
<1>1. /\ recs \in [Targets -> Records \union {Nothing}]
      /\ task \in [Targets -> Tasks \union {Nothing}] /\ gens \in Nat
  BY DEF TaskedInv, IInv, TypeOK, Payloads, Gens
<1>2. recs[t] # Nothing =>
        recs[t] \in Records /\ recs[t].attempt \in Nat /\ recs[t].gen \in Gens
  <2> SUFFICES ASSUME recs[t] # Nothing
               PROVE  recs[t] \in Records /\ recs[t].attempt \in Nat /\ recs[t].gen \in Gens
    OBVIOUS
  <2>1. recs[t] \in Records /\ recs[t].attempt \in 0..MaxAttempts /\ recs[t].gen \in Gens
    BY RecordFacts DEF TaskedInv
  <2> QED
    BY <2>1, ObligationsAssumption
<1> QED
  BY <1>1, <1>2, ObligationsAssumption DEF Untasked, Put

LEMMA ArmTasked ==
    ASSUME TaskedInv, NEW t \in Targets, NEW s \in Scenarios, Arm(t, s) PROVE Tasked'
<1> DEFINE rec == [gen |-> gens + 1, attempt |-> 0, scenario |-> s]
           doc == Put(t, rec)
<1>1. /\ up = "started" /\ gens' = gens + 1 /\ UNCHANGED adopted
      /\ \/ Acked(doc) /\ task' = Untasked({t})
         \/ (Failed(doc) \/ Dies(doc)) /\ (up' # "down" => UNCHANGED task)
  BY DEF Arm, Up
<1>2. gens \in Nat /\ Untasked({t}) = [task EXCEPT ![t] = Nothing]
  BY TaskFacts
<1>3. CASE Acked(doc) /\ task' = Untasked({t})
  <2>1. gens + 1 \notin adopted
    BY <1>2 DEF TaskedInv, Tasked
  <2>2. Fit(rec, Nothing, adopted')
    BY <1>1, <2>1 DEF Fit
  <2>3. recs' = Put(t, rec) /\ up' = "started"
    BY <1>1, <1>3 DEF Acked
  <2> HIDE DEF rec
  <2> QED
    BY <1>1, <1>2, <1>3, <2>2, <2>3, OneTasked
<1>4. CASE (Failed(doc) \/ Dies(doc)) /\ (up' # "down" => UNCHANGED task)
  BY <1>1, <1>4, FailedTasked
<1> QED
  BY <1>1, <1>3, <1>4

LEMMA RemoveTasked ==
    ASSUME TaskedInv, NEW ts \in SUBSET Targets, Remove(ts) PROVE Tasked'
<1>1. /\ up = "started" /\ UNCHANGED <<gens, adopted>>
      /\ \/ Acked(Without(ts)) /\ task' = Untasked(ts)
         \/ (Failed(Without(ts)) \/ Dies(Without(ts))) /\ (up' # "down" => UNCHANGED task)
  BY DEF Remove, Up
<1>2. CASE Acked(Without(ts)) /\ task' = Untasked(ts)
  <2>1. recs' = Without(ts) /\ up' = "started"
    BY <1>1, <1>2 DEF Acked
  <2>2. ASSUME NEW u \in Targets PROVE Fit(recs'[u], task'[u], adopted')
    <3>1. CASE u \in ts
      BY <1>2, <2>1, <3>1 DEF Without, Untasked, Fit
    <3>2. CASE u \notin ts
      <4>1. recs'[u] = recs[u] /\ task'[u] = task[u]
        BY <1>2, <2>1, <3>2 DEF Without, Untasked
      <4> QED
        BY <1>1, <4>1 DEF TaskedInv, Tasked
    <3> QED
      BY <3>1, <3>2
  <2>3. \A g \in adopted' : g <= gens'
    BY <1>1 DEF TaskedInv, Tasked
  <2> QED
    BY <2>1, <2>2, <2>3, TaskedStays
<1>3. CASE (Failed(Without(ts)) \/ Dies(Without(ts))) /\ (up' # "down" => UNCHANGED task)
  BY <1>1, <1>3, FailedTasked
<1> QED
  BY <1>1, <1>2, <1>3

LEMMA RetryTasked ==
    ASSUME TaskedInv, NEW t \in Targets, NEW physical \in BOOLEAN, Retry(t, physical)
    PROVE  Tasked'
<1> DEFINE rec == [recs[t] EXCEPT !.attempt = IF physical /\ @ < 1 THEN 1 ELSE @]
           spent == rec.attempt >= MaxAttempts
           left == IF spent THEN Nothing ELSE rec
           next == IF spent THEN Nothing ELSE Asleep(rec.gen)
           doc == Put(t, left)
<1>1. /\ up = "started" /\ recs[t] # Nothing /\ UNCHANGED gens
      /\ \/ /\ Acked(doc) /\ task' = [task EXCEPT ![t] = next]
            /\ adopted' = adopted \union {rec.gen}
         \/ /\ Failed(doc) \/ Dies(doc)
            /\ up' # "down" => UNCHANGED task
            /\ UNCHANGED adopted
  BY DEF Retry, Up
<1>2. CASE /\ Acked(doc) /\ task' = [task EXCEPT ![t] = next]
           /\ adopted' = adopted \union {rec.gen}
  <2>1. recs[t] \in Records /\ recs[t].attempt \in Nat /\ gens \in Nat /\ MaxAttempts \in Nat
    BY <1>1, TaskFacts
  <2>2. rec \in Records /\ rec.gen = recs[t].gen /\ rec.attempt \in Nat
    BY <2>1, ObligationsAssumption DEF Records
  <2>3. rec # Nothing /\ Asleep(rec.gen).gen = rec.gen /\ Asleep(rec.gen) # Nothing
    <3>1. Asleep(rec.gen) \in Tasks
      BY <1>1, <2>2, TaskFacts, TaskTypes
    <3> QED
      BY <2>2, <3>1, ObligationsAssumption DEF Asleep
  <2>4. Fit(left, next, adopted')
    BY <2>1, <2>2, <2>3 DEF Fit
  <2>5. recs' = Put(t, left) /\ up' = "started"
    BY <1>1, <1>2 DEF Acked
  <2> HIDE DEF rec, left, next
  <2> QED
    BY <1>1, <1>2, <2>1, <2>2, <2>4, <2>5, OneTasked
<1>3. CASE /\ Failed(doc) \/ Dies(doc)
           /\ up' # "down" => UNCHANGED task
           /\ UNCHANGED adopted
  BY <1>1, <1>3, FailedTasked
<1> QED
  BY <1>1, <1>2, <1>3

LEMMA ReserveTasked ==
    ASSUME TaskedInv, NEW t \in Targets, Reserve(t) PROVE Tasked'
<1> DEFINE rec == [recs[t] EXCEPT !.attempt = @ + 1]
           last == rec.attempt >= MaxAttempts
           left == IF last THEN Nothing ELSE rec
           next == IF last THEN Nothing ELSE task[t]
           doc == Put(t, rec)
<1>1. /\ task[t] # Nothing /\ task[t].at = "asleep"
      /\ recs[t] # Nothing /\ recs[t].gen = task[t].gen /\ UNCHANGED <<gens, adopted>>
      /\ recs[t].attempt < MaxAttempts
      /\ \/ Acked(doc) /\ task' = [task EXCEPT ![t] = Calling(rec.gen)]
         \/ /\ recs' = IF last THEN Put(t, Nothing) ELSE doc
            /\ task' = IF last THEN Untasked({t}) ELSE task
            /\ UNCHANGED up
         \/ Dies(doc)
  BY DEF Reserve, Live
<1>2. up = "started"
  BY <1>1 DEF TaskedInv, Tasked, Empty
<1>3. /\ recs[t] \in Records /\ recs[t].attempt \in Nat /\ gens \in Nat /\ MaxAttempts \in Nat
      /\ Untasked({t}) = [task EXCEPT ![t] = Nothing] /\ task = [task EXCEPT ![t] = task[t]]
  BY <1>1, TaskFacts
<1>4. rec.gen = recs[t].gen /\ rec.attempt \in Nat
  BY <1>3 DEF Records
<1>4a. rec \in Records /\ rec # Nothing
  BY <1>1, <1>3, ObligationsAssumption DEF Records
<1>5. Fit(recs[t], task[t], adopted)
  BY <1>2 DEF TaskedInv, Tasked
<1>6. CASE Acked(doc) /\ task' = [task EXCEPT ![t] = Calling(rec.gen)]
  <2>1. Calling(rec.gen).gen = rec.gen /\ Calling(rec.gen).at = "calling"
    BY DEF Calling
  <2>2. Calling(rec.gen) # Nothing /\ rec # Nothing
    <3>1. recs[t].gen \in Gens
      BY <1>1, TaskFacts
    <3> QED
      BY <1>4, <1>4a, <3>1, TaskTypes, ObligationsAssumption
  <2>3. Fit(rec, Calling(rec.gen), adopted')
    BY <1>1, <2>1, <2>2 DEF Fit
  <2>4. recs' = Put(t, rec) /\ up' = "started"
    BY <1>2, <1>6 DEF Acked
  <2> HIDE DEF rec
  <2> QED
    BY <1>1, <1>2, <1>3, <1>6, <2>3, <2>4, OneTasked
<1>7. CASE /\ recs' = IF last THEN Put(t, Nothing) ELSE doc
           /\ task' = IF last THEN Untasked({t}) ELSE task
           /\ UNCHANGED up
  <2>1. recs' = Put(t, left) /\ task' = [task EXCEPT ![t] = next] /\ up' = "started"
    BY <1>2, <1>3, <1>7
  <2>2. Fit(left, next, adopted')
    BY <1>1, <1>3, <1>4, <1>5, <1>4a DEF Fit
  <2> HIDE DEF left, next
  <2> QED
    BY <1>1, <1>2, <1>3, <2>1, <2>2, OneTasked
<1>8. CASE Dies(doc)
  BY <1>1, <1>2, <1>8, FailedTasked DEF Dies, Gone
<1> QED
  BY <1>1, <1>6, <1>7, <1>8

LEMMA CallbackAnswersTasked ==
    ASSUME TaskedInv, NEW t \in Targets, NEW outcome \in Outcomes, CallbackAnswers(t, outcome)
    PROVE  Tasked'
<1> DEFINE next == [task[t] EXCEPT !.at = outcome]
<1>1. /\ task[t] # Nothing /\ recs[t] # Nothing /\ recs[t].gen = task[t].gen
      /\ task' = [task EXCEPT ![t] = next]
      /\ UNCHANGED <<recs, up, gens, adopted>>
  BY DEF CallbackAnswers, Live, ghosts
<1>2. up = "started"
  BY <1>1 DEF TaskedInv, Tasked, Empty
<1>3. task[t] \in Tasks /\ recs = Put(t, recs[t]) /\ gens \in Nat
  BY <1>1, TaskFacts DEF TaskedInv, IInv, TypeOK
<1>4. next \in Tasks /\ next.gen = task[t].gen /\ next.at = outcome /\ outcome # "asleep"
  BY <1>3 DEF Tasks, Outcomes
<1>5. Fit(recs[t], next, adopted')
  BY <1>1, <1>4, ObligationsAssumption DEF Fit
<1> HIDE DEF next
<1> QED
  BY <1>1, <1>2, <1>3, <1>5, OneTasked

LEMMA DecideTasked ==
    ASSUME TaskedInv, NEW t \in Targets, NEW outcome \in Outcomes, Decide(t, outcome)
    PROVE  Tasked'
<1> DEFINE rec == recs[t]
           last == rec.attempt >= MaxAttempts
           over == outcome # "retry" \/ last
           left == IF over THEN Nothing ELSE rec
           next == IF over THEN Nothing ELSE Asleep(rec.gen)
           kept == IF last THEN Nothing ELSE rec
           again == IF last THEN Nothing ELSE Asleep(rec.gen)
           doc == Put(t, left)
<1>1. /\ task[t] # Nothing /\ recs[t] # Nothing /\ UNCHANGED <<gens, adopted>>
      /\ \/ Acked(doc) /\ task' = [task EXCEPT ![t] = next]
         \/ /\ recs' = IF last THEN Put(t, Nothing) ELSE recs
            /\ task' = [task EXCEPT ![t] = again]
            /\ UNCHANGED up
         \/ Dies(doc)
  BY DEF Decide, Live
<1>2. up = "started"
  BY <1>1 DEF TaskedInv, Tasked, Empty
<1>3. /\ recs[t] \in Records /\ recs[t].attempt \in Nat /\ gens \in Nat /\ MaxAttempts \in Nat
      /\ recs = Put(t, recs[t]) /\ recs[t].gen \in Gens
  BY <1>1, TaskFacts
<1>4. Asleep(rec.gen).gen = rec.gen /\ Asleep(rec.gen) # Nothing
  <2>1. Asleep(rec.gen) \in Tasks
    BY <1>3, TaskTypes
  <2> QED
    BY <2>1, ObligationsAssumption DEF Asleep
<1>5. Fit(left, next, adopted') /\ Fit(kept, again, adopted')
  BY <1>1, <1>3, <1>4 DEF Fit
<1>6. CASE Acked(doc) /\ task' = [task EXCEPT ![t] = next]
  <2>1. recs' = Put(t, left) /\ up' = "started"
    BY <1>2, <1>6 DEF Acked
  <2> HIDE DEF left, next
  <2> QED
    BY <1>1, <1>2, <1>3, <1>5, <1>6, <2>1, OneTasked
<1>7. CASE /\ recs' = IF last THEN Put(t, Nothing) ELSE recs
           /\ task' = [task EXCEPT ![t] = again]
           /\ UNCHANGED up
  <2>1. recs' = Put(t, kept) /\ up' = "started"
    BY <1>2, <1>3, <1>7
  <2> HIDE DEF kept, again
  <2> QED
    BY <1>1, <1>2, <1>3, <1>5, <1>7, <2>1, OneTasked
<1>8. CASE Dies(doc)
  BY <1>1, <1>2, <1>8, FailedTasked DEF Dies, Gone
<1> QED
  BY <1>1, <1>6, <1>7, <1>8

\* A set-up reads a document without tasks, whose records have an attempt left.
LEMMA LoadTasked == ASSUME TaskedInv, Load PROVE Tasked'
<1>1. PICK a \in LoadAnswers(disk) :
        LET doc == IF a.flagged THEN Empty ELSE Kept(a.doc)
        IN  \/ up' = up /\ recs' = recs
            \/ up' = "loaded" /\ recs' = recs
            \/ a.kind = "value" /\ up' = "loaded" /\ recs' = doc
  <2>1. PICK a \in LoadAnswers(disk) :
          LET doc == IF a.flagged THEN Empty ELSE Kept(a.doc)
              saves == a.flagged \/ Spent(a.doc) # {}
          IN  CASE a.kind = "error" ->
                      disk' = a.disk /\ UNCHANGED <<up, recs, faults>>
                [] a.kind = "none" ->
                      disk' = a.disk /\ up' = "loaded" /\ UNCHANGED <<recs, faults>>
                [] a.kind = "value" ->
                      \/ /\ disk' = IF saves THEN Saved(a.disk, doc) ELSE a.disk
                         /\ recs' = doc /\ up' = "loaded"
                         /\ UNCHANGED faults
                      \/ /\ saves /\ Fault
                         /\ disk' \in SaveFailures(a.disk, doc)
                         /\ UNCHANGED <<up, recs>>
    BY DEF Load
  <2>2. a.kind \in {"value", "none", "error"}
    BY LoadFacts DEF TaskedInv, IInv, TypeOK
  <2> QED
    BY <2>1, <2>2
<1>2. up = "down" /\ UNCHANGED <<task, gens, adopted>>
  BY DEF Load
<1>3. recs = Empty /\ task = Empty
  BY <1>2 DEF TaskedInv, Tasked, IInv, DownEmpty
<1>4. a.kind = "value" /\ ~a.flagged => \A t \in Targets : Kept(a.doc)[t] # Nothing =>
        Kept(a.doc)[t].attempt < MaxAttempts
  <2>1. a.kind = "value" => a.doc \in [Targets -> Records \union {Nothing}]
    BY LoadFacts DEF TaskedInv, IInv, TypeOK, Payloads
  <2> QED
    BY <2>1, ObligationsAssumption DEF Kept, Spent, Records
<1>5. \A t \in Held' : up' = "loaded" => recs'[t].attempt < MaxAttempts
  BY <1>1, <1>2, <1>3, <1>4 DEF Held, Empty
<1>6. up' # "started"
  BY <1>1, <1>2
<1> QED
  BY <1>2, <1>3, <1>5, <1>6 DEF TaskedInv, Tasked

LEMMA StartTasked == ASSUME TaskedInv, Start PROVE Tasked'
<1>1. /\ up = "loaded" /\ up' = "started" /\ recs' = recs /\ gens' = gens
      /\ task' = [t \in Targets |-> IF recs[t] = Nothing THEN Nothing ELSE Asleep(recs[t].gen)]
      /\ adopted' = adopted \union GensAt(Targets)
  BY DEF Start
<1>2. \A g \in adopted' : g <= gens'
  BY <1>1, GensAtFacts DEF TaskedInv, Tasked
<1>3. ASSUME NEW t \in Targets PROVE Fit(recs'[t], task'[t], adopted')
  <2>1. CASE recs[t] = Nothing
    BY <1>1, <2>1 DEF Fit
  <2>2. CASE recs[t] # Nothing
    <3>1. recs[t].attempt < MaxAttempts
      BY <1>1, <2>2 DEF TaskedInv, Tasked, Held
    <3>2. Asleep(recs[t].gen) # Nothing
      BY <2>2, TaskFacts, TaskTypes, ObligationsAssumption
    <3> QED
      BY <1>1, <2>2, <3>1, <3>2 DEF Fit, Asleep
  <2> QED
    BY <2>1, <2>2
<1> QED
  BY <1>1, <1>2, <1>3, TaskedStays

LEMMA NextTasked == TaskedInv /\ [Next]_vars => TaskedInv'
<1> SUFFICES ASSUME TaskedInv, [Next]_vars PROVE Tasked'
  BY NextStep DEF TaskedInv
<1>1. CASE Stop
  BY <1>1, TaskedGone DEF Stop, ghosts, TaskedInv, Tasked
<1>2. CASE LoadCut \/ DamageFile \/ UNCHANGED vars
  BY <1>2 DEF LoadCut, DamageFile, vars, ghosts, TaskedInv, Tasked, Held
<1>3. CASE \E t \in Targets : Cancel(t)
  <2>1. PICK t \in Targets : Remove({t})
    BY <1>3 DEF Cancel
  <2> QED
    BY <2>1, RemoveTasked
<1>4. CASE \E s \in Scenarios : CancelScenario(s)
  <2>1. PICK ts \in SUBSET Targets : Remove(ts)
    BY <1>4 DEF CancelScenario, Held
  <2> QED
    BY <2>1, RemoveTasked
<1> QED
  BY <1>1, <1>2, <1>3, <1>4, ArmTasked, RetryTasked, ReserveTasked, CallbackAnswersTasked,
     DecideTasked, LoadTasked, StartTasked DEF Next

\* The safety half of AdoptedIsTried, for any number of targets, records, failed saves,
\* crashes and damaged files: a record that was given a task and is still in memory has
\* its own task, and that task can go on.  None waits with its attempts used up, and
\* none was lost to a replaced record or a save that raised.
THEOREM AdoptedTasked == Spec => []AdoptedAttended
<1>1. Init => TaskedInv
  <2>1. Init => Tasked
    BY DEF Init, Tasked
  <2> QED
    BY <2>1, InitIInv DEF TaskedInv
<1>2. TaskedInv /\ [Next]_vars => TaskedInv'
  BY NextTasked
<1>3. TaskedInv => AdoptedAttended
  BY DEF TaskedInv, Tasked, Fit, AdoptedAttended, Advances, Up, Held
<1> QED
  BY <1>1, <1>2, <1>3, PTL DEF Spec
=============================================================================
