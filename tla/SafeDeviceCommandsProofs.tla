---------------------- MODULE SafeDeviceCommandsProofs ----------------------
(* Executions of safe commands exclude each other, the commands keep the
   promise of SafeCommandPromise, and a call that a crash cut short keeps its
   entity quarantined: for any number of operations, entities, lifecycle
   objects, crashes, cancelled admissions, failed saves and damaged files.      *)

EXTENDS SafeDeviceCommands, TLAPS, FiniteSetTheorems, WellFoundedInduction

Used == {o \in Ops : pc[o] # "new"}

\* A generation is an operation that was admitted once.
Fits(p) == p.next <= Cardinality(Used)

Counted ==
    /\ \A i \in Objects : Fits(mem[i])
    /\ \A file \in {disk.cur, disk.prev} : Valid(file) => Fits(file)

TInv == TypeOK /\ Counted

---------------------------------------------------------------------------
(* Constants, sets and images.                                               *)

LEMMA Numbers ==
    /\ IsFiniteSet(Ops) /\ Cardinality(Ops) \in Nat
    /\ MaxActive \in Nat /\ Observation \in Nat /\ MaxTime \in Nat /\ MaxObjects \in Nat
    /\ MaxCancelled \in Nat /\ MaxFailures \in Nat /\ MaxDamage \in Nat
    /\ None \notin Entities /\ None \notin Ops
    /\ Absent \notin Payloads /\ Invalid \notin Payloads /\ Corrupt \notin Payloads
  BY CommandsAssumption, FS_CardinalityType

LEMMA UsedFacts ==
    /\ IsFiniteSet(Used) /\ Cardinality(Used) \in Generations
    /\ Cardinality(Used) \in Nat
<1>1. Used \subseteq Ops
  BY DEF Used
<1>2. IsFiniteSet(Used) /\ Cardinality(Used) <= Cardinality(Ops)
  BY <1>1, Numbers, FS_Subset
<1> QED
  BY <1>2, Numbers, FS_CardinalityType DEF Generations

\* A point of an operation does not go back to "new".
LEMMA UsedStays ==
    ASSUME \A o \in Ops : pc[o] # "new" => pc'[o] # "new"
    PROVE  /\ Cardinality(Used') \in Generations
           /\ Cardinality(Used) <= Cardinality(Used')
<1>1. Used \subseteq Used' /\ Used' \subseteq Ops
  BY DEF Used
<1>2. IsFiniteSet(Used') /\ Cardinality(Used') <= Cardinality(Ops)
  BY <1>1, Numbers, FS_Subset
<1> QED
  BY <1>1, <1>2, Numbers, FS_Subset, FS_CardinalityType DEF Generations

\* The admission of a new operation leaves place for its generation.
LEMMA UsedGrows ==
    ASSUME NEW o \in Ops, TypeOK, pc[o] = "new", NEW point \in Points \ {"new"}, Goto(o, point)
    PROVE  Cardinality(Used') = Cardinality(Used) + 1
<1>1. Used' = Used \union {o} /\ o \notin Used
  BY DEF Used, Goto, TypeOK
<1> QED
  BY <1>1, UsedFacts, FS_AddElement

LEMMA FitsMonotone ==
    ASSUME NEW p \in Payloads, Fits(p), Cardinality(Used) <= Cardinality(Used'),
           Cardinality(Used') \in Generations
    PROVE  p.next <= Cardinality(Used')
<1>1. p.next \in Nat
  BY Numbers DEF Payloads, Generations
<1> QED
  BY <1>1, UsedFacts, Numbers DEF Fits, Generations

---------------------------------------------------------------------------
(* Images and files.                                                         *)

LEMMA EmptyFits == EmptyPayload \in Payloads /\ EmptyPayload.next = 0
  BY Numbers DEF EmptyPayload, Payloads, Generations, Times, ActivePhases, TerminalPhases

LEMMA PhaseFits ==
    ASSUME NEW p \in Payloads, NEW o \in Ops,
           NEW phase \in ActivePhases \union TerminalPhases \union {"none"}
    PROVE  /\ [p EXCEPT !.phase[o] = phase] \in Payloads
           /\ [p EXCEPT !.phase[o] = phase].next = p.next
  BY DEF Payloads

LEMMA PhasesFit ==
    ASSUME NEW p \in Payloads,
           NEW phases \in [Ops -> ActivePhases \union TerminalPhases \union {"none"}]
    PROVE  /\ [p EXCEPT !.phase = phases] \in Payloads
           /\ [p EXCEPT !.phase = phases].next = p.next
  BY DEF Payloads

LEMMA LateFits ==
    ASSUME NEW p \in Payloads, NEW o \in Ops
    PROVE  /\ [p EXCEPT !.late[o] = TRUE] \in Payloads
           /\ [p EXCEPT !.late[o] = TRUE].next = p.next
  BY DEF Payloads

LEMMA AdmittedFits ==
    ASSUME TypeOK, NEW i \in Objects, NEW o \in Ops, NEW e \in Entities,
           mem[i].next + 1 \in Generations
    PROVE  Admitted(i, o, e) \in Payloads /\ Admitted(i, o, e).next = mem[i].next + 1
<1>1. mem[i] \in Payloads /\ now + Observation \in Times
  BY Numbers DEF TypeOK, Times
<1> QED
  BY <1>1 DEF Admitted, Payloads, ActivePhases, TerminalPhases

\* What a call writes into the files comes from what it saved, or from them.
Written(ps) ==
    /\ disk' \in Disks
    /\ disk'.cur \in {disk.cur, disk.prev, Absent, Invalid} \union ps
    /\ disk'.prev \in {disk.cur, disk.prev, Absent, Invalid} \union ps

LEMMA SaveFacts ==
    ASSUME disk \in Disks, NEW p \in Payloads,
           disk' \in {disk} \union SaveAcks(disk, p) \union SaveFailures(disk, p)
    PROVE  Written({p})
  BY DEF Written, SaveAcks, SaveFailures, Saved, BackedUp, Disks, Files, Valid

LEMMA TwoSavesFacts ==
    ASSUME disk \in Disks, NEW p \in Payloads, NEW q \in Payloads,
           disk' \in SaveAcks(Saved(disk, p), q) \union SaveFailures(Saved(disk, p), q)
    PROVE  Written({p, q})
  BY DEF Written, SaveAcks, SaveFailures, Saved, BackedUp, Disks, Files, Valid

\* The images in memory and on disk stay payloads with generations that were given.
LEMMA Images ==
    ASSUME TInv, NEW ps \in SUBSET Payloads, \A p \in ps : p.next <= Cardinality(Used'),
           \A o \in Ops : pc[o] # "new" => pc'[o] # "new",
           Written(ps), mem' \in [Objects -> Payloads],
           \A i \in Objects : mem'[i] \in ps \union {mem[i]}
    PROVE  Counted'
<1>1. Cardinality(Used) <= Cardinality(Used') /\ Cardinality(Used') \in Generations
  BY UsedStays
<1>2. \A i \in Objects : Fits(mem[i])' 
  <2>1. \A i \in Objects : mem'[i] \in ps \/ (mem'[i] = mem[i] /\ mem[i] \in Payloads /\ Fits(mem[i]))
    BY DEF TInv, TypeOK, Counted
  <2>2. \A i \in Objects : mem'[i].next <= Cardinality(Used')
    BY <1>1, <2>1, FitsMonotone
  <2> QED
    BY <2>2 DEF Fits
<1>3. \A file \in {disk'.cur, disk'.prev} : file \in Payloads => file.next <= Cardinality(Used')
  <2>1. ASSUME NEW file \in {disk'.cur, disk'.prev}, file \in Payloads
        PROVE  file \in ps \/ Fits(file)
    BY <2>1, Numbers DEF Written, TInv, Counted, Valid
  <2> QED
    BY <1>1, <2>1, FitsMonotone
<1> QED
  BY <1>2, <1>3 DEF Counted, Fits, Valid

---------------------------------------------------------------------------
(* The type invariant.  Data is the part of it about images and files, Control
   the rest; each action has a lemma for both.                                *)

Data ==
    /\ disk \in Disks
    /\ mem \in [Objects -> Payloads]
    /\ Counted

\* No operation becomes new again.
Onward == \A o \in Ops : pc[o] # "new" => pc'[o] # "new"

LEMMA QuietData ==
    ASSUME TInv, Onward, UNCHANGED <<disk, mem>>
    PROVE  Data'
<1>1. Written({}) /\ mem' \in [Objects -> Payloads] /\ disk' \in Disks
  BY DEF Written, TInv, TypeOK
<1>2. \A i \in Objects : mem'[i] \in {} \union {mem[i]}
  OBVIOUS
<1>3. Counted'
  BY <1>1, <1>2, Images DEF Onward
<1> QED
  BY <1>1, <1>3 DEF Data

LEMMA SavedData ==
    ASSUME TInv, Onward, NEW i \in Objects, NEW p \in Payloads, NEW q \in Payloads,
           p.next <= Cardinality(Used'), q.next <= Cardinality(Used'),
           Written({p, q}), mem' = [mem EXCEPT ![i] = q]
    PROVE  Data'
<1>1. mem' \in [Objects -> Payloads] /\ disk' \in Disks
  BY DEF Written, TInv, TypeOK
<1>2. \A x \in Objects : mem'[x] \in {p, q} \union {mem[x]}
  BY DEF TInv, TypeOK
<1>3. Counted'
  BY <1>1, <1>2, Images DEF Onward
<1> QED
  BY <1>1, <1>3 DEF Data

\* An image that keeps the generations of an object stays within them.
LEMMA SameGeneration ==
    ASSUME TInv, Onward, NEW i \in Objects, NEW p, p.next = mem[i].next
    PROVE  p.next <= Cardinality(Used')
<1>1. mem[i] \in Payloads /\ Fits(mem[i])
  BY DEF TInv, TypeOK, Counted
<1>2. Cardinality(Used) <= Cardinality(Used') /\ Cardinality(Used') \in Generations
  BY UsedStays DEF Onward
<1> QED
  BY <1>1, <1>2, FitsMonotone

\* What the ways to save leave in the files and in the counter of failures.
Attempt(i, p) == SaveOk(i, p) \/ SaveRaises(i, p)
OpenAttempt(i, p) == OpenSaveOk(i, p) \/ OpenSaveRaises(i, p)

LEMMA WrittenMore ==
    ASSUME NEW p, NEW q, Written({p})
    PROVE  Written({p, q})
  BY DEF Written

LEMMA Attempts ==
    ASSUME TypeOK, NEW i, NEW p \in Payloads, Attempt(i, p) \/ OpenAttempt(i, p)
    PROVE  Written({p}) /\ failures' \in 0..MaxFailures
<1>1. disk' \in {disk} \union SaveAcks(disk, p) \union SaveFailures(disk, p)
  BY DEF Attempt, OpenAttempt, OpenSaveOk, OpenSaveRaises, SaveOk, SaveRaises
<1>2. disk \in Disks /\ failures \in 0..MaxFailures
  BY DEF TypeOK
<1>3. Written({p})
  BY <1>1, <1>2, SaveFacts
<1>4. failures' \in 0..MaxFailures
  BY <1>2, Numbers DEF Attempt, OpenAttempt, OpenSaveOk, OpenSaveRaises, SaveOk, SaveRaises
<1> QED
  BY <1>3, <1>4

LEMMA CancelledAttempts ==
    ASSUME TypeOK, NEW i, NEW p \in Payloads, SaveCancelled(i, p)
    PROVE  Written({p}) /\ cancelled' \in 0..MaxCancelled
<1>1. disk' \in {disk} \union SaveAcks(disk, p) \union SaveFailures(disk, p)
  BY DEF SaveCancelled
<1>2. disk \in Disks /\ cancelled \in 0..MaxCancelled
  BY DEF TypeOK
<1>3. Written({p})
  BY <1>1, <1>2, SaveFacts
<1> QED
  BY <1>2, <1>3, Numbers DEF SaveCancelled

LEMMA BudgetAttempts ==
    ASSUME TypeOK, NEW i, NEW p \in Payloads, NEW q \in Payloads, BudgetExhausted(i, p, q)
    PROVE  Written({p, q}) /\ failures' \in 0..MaxFailures
<1>1. disk' \in SaveAcks(Saved(disk, p), q) \union SaveFailures(Saved(disk, p), q)
  BY DEF BudgetExhausted
<1>2. disk \in Disks /\ failures \in 0..MaxFailures
  BY DEF TypeOK
<1>3. Written({p, q})
  BY <1>1, <1>2, TwoSavesFacts
<1> QED
  BY <1>2, <1>3, Numbers DEF BudgetExhausted

\* A new phase of an operation's record, saved or not.
LEMMA PhaseData ==
    ASSUME TInv, Onward, NEW o \in Ops,
           NEW phase \in ActivePhases \union TerminalPhases \union {"none"},
           Attempt(object[o], WithPhase(o, phase)) \/ OpenAttempt(object[o], WithPhase(o, phase)),
           Remember(o, WithPhase(o, phase))
    PROVE  Data' /\ failures' \in 0..MaxFailures
<1> DEFINE i == object[o]
           p == WithPhase(o, phase)
<1>1. i \in Objects /\ mem[i] \in Payloads
  BY DEF TInv, TypeOK
<1>2. p \in Payloads /\ p.next = mem[i].next
  BY <1>1, PhaseFits DEF WithPhase
<1>3. p.next <= Cardinality(Used')
  BY <1>1, <1>2, SameGeneration
<1>4. Written({p, p}) /\ failures' \in 0..MaxFailures
  BY <1>2, Attempts, WrittenMore DEF TInv
<1>5. mem' = [mem EXCEPT ![i] = p]
  BY DEF Remember
<1> QED
  BY <1>1, <1>2, <1>3, <1>4, <1>5, SavedData

\* The other conjuncts of TypeOK.
ProcessTypes ==
    /\ now \in 0..MaxTime
    /\ latest \in Objects
    /\ first \in 1..MaxObjects + 1
    /\ closed \in SUBSET Objects
    /\ quarantine \in [Objects -> [Entities -> Times]]
    /\ lock \in [Objects -> Ops \union {None}]
    /\ leases \in [Entities -> Ops \union {None}]
    /\ completed \in SUBSET Ops

OperationTypes ==
    /\ pc \in [Ops -> Points]
    /\ entity \in [Ops -> Entities \union {None}]
    /\ object \in [Ops -> Objects]
    /\ expires \in [Ops -> Times]
    /\ registered \in SUBSET Ops
    /\ crossed \in SUBSET Ops
    /\ revoked \in SUBSET Ops
    /\ released \in SUBSET Ops
    /\ resolved \in SUBSET Ops
    /\ outcome \in [Ops -> Outcomes]
    /\ marker \in SUBSET Ops

RequestTypes ==
    /\ watchdog \in [Ops -> {"none", "sleeping", "callback"}]
    /\ wake \in [Ops -> Times]
    /\ http \in [Ops -> {"none", "waiting", "persisting", "revoking", "leaving",
                         "over"}]
    /\ answer \in [Ops -> {"none", "not_sent", "result", "pending", "unknown"}]
    /\ published \in SUBSET Ops
    /\ sent \in SUBSET Ops
    /\ cancelled \in 0..MaxCancelled
    /\ failures \in 0..MaxFailures
    /\ damage \in 0..MaxDamage

Control == ProcessTypes /\ OperationTypes /\ RequestTypes

LEMMA Parts == TInv <=> Data /\ Control
  BY DEF TInv, TypeOK, Data, Control, ProcessTypes, OperationTypes, RequestTypes

LEMMA PartsNext == TInv' <=> Data' /\ Control'
  BY DEF TInv, TypeOK, Data, Control, ProcessTypes, OperationTypes, RequestTypes

LEMMA Releases ==
    ASSUME Control, NEW o \in Ops, ReleaseHandle(o)
    PROVE  /\ leases' \in [Entities -> Ops \union {None}] /\ completed' \in SUBSET Ops
           /\ registered' \in SUBSET Ops
           /\ watchdog' \in [Ops -> {"none", "sleeping", "callback"}]
           /\ wake' \in [Ops -> Times]
<1>1. 0 \in Times
  BY Numbers DEF Times
<1> QED
  BY <1>1 DEF Control, ProcessTypes, OperationTypes, RequestTypes, ReleaseHandle, ReleaseLease

LEMMA PrunedType ==
    ASSUME Control, NEW i \in Objects, NEW e
    PROVE  Pruned(i, e) \in [Entities -> Times]
<1>1. 0 \in Times /\ quarantine[i] \in [Entities -> Times]
  BY Numbers DEF Times, Control, ProcessTypes
<1> QED
  BY <1>1 DEF Pruned

LEMMA RefuseTypes ==
    ASSUME TInv, NEW o \in Ops, Refuse(o)
    PROVE  TInv'
<1> USE Parts
<1>1. Onward /\ UNCHANGED <<disk, mem>>
  BY DEF Refuse, Goto, Onward, Control, OperationTypes, Points
<1>2. PICK e \in Entities, i \in Loadeds :
        /\ entity' = [entity EXCEPT ![o] = e]
        /\ object' = [object EXCEPT ![o] = i]
        /\ quarantine' = IF i \in closed \/ Full THEN quarantine
                         ELSE [quarantine EXCEPT ![i] = Pruned(i, e)]
  BY DEF Refuse
<1>3. i \in Objects
  BY Numbers DEF Loadeds, Objects, Control, ProcessTypes
<1>4. quarantine' \in [Objects -> [Entities -> Times]]
  BY <1>2, <1>3, PrunedType DEF Control, ProcessTypes
<1>5. ProcessTypes'
  BY <1>4 DEF Refuse, Control, ProcessTypes
<1>6. OperationTypes'
  BY <1>2, <1>3 DEF Refuse, Control, OperationTypes, Goto, Points, handleVars
<1>7. RequestTypes'
  BY DEF Refuse, Control, RequestTypes, NotAdmitted, watchVars, counters
<1> QED
  BY <1>1, <1>5, <1>6, <1>7, QuietData, PartsNext DEF Control

\* What an admission that saves has in common.
LEMMA AdmitTypes ==
    ASSUME TInv, NEW o \in Ops, Admit(o)
    PROVE  TInv'
<1> USE Parts
<1>1. PICK e \in Entities, i \in Loadeds :
        /\ entity' = [entity EXCEPT ![o] = e]
        /\ object' = [object EXCEPT ![o] = i]
        /\ expires' = [expires EXCEPT ![o] = now + Observation]
        /\ quarantine' = [quarantine EXCEPT ![i] = Pruned(i, e)]
        /\ \/ /\ SaveOk(i, Admitted(i, o, e))
              /\ mem' = [mem EXCEPT ![i] = Admitted(i, o, e)]
              /\ leases' = [leases EXCEPT ![e] = o]
              /\ lock' = [lock EXCEPT ![i] = o]
              /\ Goto(o, "admitting")
              /\ UNCHANGED <<completed, httpVars, cancelled>>
           \/ /\ SaveRaises(i, Admitted(i, o, e))
              /\ mem' = [mem EXCEPT ![i] = [Admitted(i, o, e) EXCEPT
                                              !.phase[o] = "failed_before_dispatch"]]
              /\ completed' = completed \union {o}
              /\ Goto(o, "ended")
              /\ NotAdmitted(o)
              /\ UNCHANGED <<leases, lock, cancelled>>
           \/ /\ SaveCancelled(i, Admitted(i, o, e))
              /\ mem' = [mem EXCEPT ![i] = Admitted(i, o, e)]
              /\ leases' = [leases EXCEPT ![e] = o]
              /\ Goto(o, "leaked")
              /\ NotAdmitted(o)
              /\ UNCHANGED <<completed, lock, failures>>
  BY DEF Admit
<1> DEFINE p == Admitted(i, o, e)
           q == [p EXCEPT !.phase[o] = "failed_before_dispatch"]
<1>2. i \in Objects /\ now + Observation \in Times
  BY Numbers DEF Loadeds, Objects, Control, ProcessTypes, Times
<1>3. PICK point \in Points \ {"new"} : Goto(o, point)
  BY <1>1 DEF Points
<1>4. Onward /\ Cardinality(Used') = Cardinality(Used) + 1
  <2>1. pc[o] = "new" /\ pc \in [Ops -> Points]
    BY DEF Admit, Control, OperationTypes
  <2>2. Onward
    BY <1>3, <2>1 DEF Goto, Onward
  <2> QED
    BY <1>3, <2>1, <2>2, UsedGrows DEF TInv
<1>5. p \in Payloads /\ p.next = mem[i].next + 1
  <2>1. mem[i] \in Payloads /\ Fits(mem[i])
    BY <1>2 DEF TInv, TypeOK, Counted
  <2>2. Cardinality(Used') \in Generations
    BY <1>4, UsedStays DEF Onward
  <2>3. mem[i].next + 1 \in Generations
    <3>1. mem[i].next \in Nat
      BY <2>1, Numbers DEF Payloads, Generations
    <3> QED
      BY <2>1, <2>2, <3>1, <1>4, UsedFacts, Numbers DEF Fits, Generations
  <2> QED
    BY <1>2, <2>3, AdmittedFits DEF TInv
<1>6. p.next <= Cardinality(Used')
  <2>1. mem[i].next \in Nat /\ mem[i].next <= Cardinality(Used)
    BY <1>2, Numbers DEF TInv, TypeOK, Counted, Payloads, Generations, Fits
  <2> QED
    BY <1>4, <1>5, <2>1, UsedFacts
<1>7. q \in Payloads /\ q.next = p.next
  BY <1>5, PhaseFits DEF TerminalPhases
<1>8. Written({p}) /\ failures' \in 0..MaxFailures /\ cancelled' \in 0..MaxCancelled
  <2>1. CASE SaveCancelled(i, p) /\ UNCHANGED failures
    BY <1>5, <2>1, CancelledAttempts DEF TInv, Control, RequestTypes
  <2>2. CASE (SaveOk(i, p) \/ SaveRaises(i, p)) /\ UNCHANGED cancelled
    BY <1>5, <2>2, Attempts DEF Attempt, TInv, Control, RequestTypes
  <2> QED
    BY <1>1, <2>1, <2>2
<1>9. Data'
  <2>1. Written({p, q}) /\ Written({p, p})
    BY <1>8, WrittenMore
  <2>2. CASE mem' = [mem EXCEPT ![i] = p]
    BY <1>2, <1>4, <1>5, <1>6, <2>1, <2>2, SavedData
  <2>3. CASE mem' = [mem EXCEPT ![i] = q]
    <3> HIDE DEF p, q
    <3> QED
      BY <1>2, <1>4, <1>5, <1>6, <1>7, <2>1, <2>3, SavedData
  <2> QED
    BY <1>1, <2>2, <2>3
<1> HIDE DEF p, q
<1>10. quarantine' \in [Objects -> [Entities -> Times]]
  BY <1>1, <1>2, PrunedType DEF Control, ProcessTypes
<1>11. leases' \in [Entities -> Ops \union {None}] /\ lock' \in [Objects -> Ops \union {None}]
       /\ completed' \in SUBSET Ops
  BY <1>1, <1>2 DEF Control, ProcessTypes
<1>12. ProcessTypes'
  BY <1>10, <1>11 DEF Admit, Control, ProcessTypes
<1>13. OperationTypes'
  BY <1>1, <1>2, <1>3 DEF Admit, Control, OperationTypes, Goto, handleVars
<1>14. http' \in [Ops -> {"none", "waiting", "persisting", "revoking", "leaving", "over"}]
       /\ answer' \in [Ops -> {"none", "not_sent", "result", "pending", "unknown"}]
  BY <1>1 DEF Control, RequestTypes, NotAdmitted, httpVars
<1>15. RequestTypes'
  BY <1>8, <1>14 DEF Admit, Control, RequestTypes, watchVars
<1> QED
  BY <1>9, <1>12, <1>13, <1>15, PartsNext DEF Control

LEMMA IntendTypes ==
    ASSUME TInv, NEW o \in Ops, Intend(o)
    PROVE  TInv'
<1> USE Parts
<1> DEFINE i == object[o]
           p == WithPhase(o, "dispatch_intent")
           failed == WithPhase(o, "failed_before_dispatch")
<1>1. i \in Objects /\ mem[i] \in Payloads
  BY DEF TInv, TypeOK
<1>2. Onward
  BY DEF Intend, Goto, Onward, Control, OperationTypes, Points
<1>3. /\ p \in Payloads /\ p.next = mem[i].next
      /\ failed \in Payloads /\ failed.next = mem[i].next
  BY <1>1, PhaseFits DEF WithPhase, ActivePhases, TerminalPhases
<1>4. p.next <= Cardinality(Used') /\ failed.next <= Cardinality(Used')
  BY <1>1, <1>2, <1>3, SameGeneration
<1>5. /\ mem' = [mem EXCEPT ![i] = p] \/ mem' = [mem EXCEPT ![i] = failed]
      /\ \/ SaveOk(i, p) /\ UNCHANGED cancelled
         \/ SaveRaises(i, p) /\ UNCHANGED cancelled
         \/ BudgetExhausted(i, p, failed) /\ UNCHANGED cancelled
         \/ SaveCancelled(i, p) /\ UNCHANGED failures
  BY DEF Intend, Remember
<1> HIDE DEF p, failed
<1>6. Written({p, failed}) /\ failures' \in 0..MaxFailures /\ cancelled' \in 0..MaxCancelled
  <2>1. CASE (SaveOk(i, p) \/ SaveRaises(i, p)) /\ UNCHANGED cancelled
    BY <1>3, <2>1, Attempts, WrittenMore DEF Attempt, TInv, Control, RequestTypes
  <2>2. CASE BudgetExhausted(i, p, failed) /\ UNCHANGED cancelled
    BY <1>3, <2>2, BudgetAttempts DEF TInv, Control, RequestTypes
  <2>3. CASE SaveCancelled(i, p) /\ UNCHANGED failures
    BY <1>3, <2>3, CancelledAttempts, WrittenMore DEF TInv, Control, RequestTypes
  <2> QED
    BY <1>5, <2>1, <2>2, <2>3
<1>7. Data'
  <2>1. {p, failed} = {failed, p}
    OBVIOUS
  <2> QED
    BY <1>1, <1>2, <1>3, <1>4, <1>5, <1>6, <2>1, SavedData
<1>8. leases' \in [Entities -> Ops \union {None}] /\ completed' \in SUBSET Ops
  BY DEF Intend, ReleaseLease, Control, ProcessTypes
<1>9. ProcessTypes'
  BY <1>1, <1>8 DEF Intend, Control, ProcessTypes
<1>10. OperationTypes'
  BY DEF Intend, Goto, Control, OperationTypes, Points, operation, Outcomes
<1>11. /\ watchdog' \in [Ops -> {"none", "sleeping", "callback"}]
       /\ wake' \in [Ops -> Times]
  <2>1. now + Observation \in Times
    BY Numbers DEF Times, Control, ProcessTypes
  <2> QED
    BY <2>1 DEF Intend, Control, RequestTypes, watchVars
<1>12. /\ http' \in [Ops -> {"none", "waiting", "persisting", "revoking", "leaving", "over"}]
       /\ answer' \in [Ops -> {"none", "not_sent", "result", "pending", "unknown"}]
  BY DEF Intend, Control, RequestTypes, NotAdmitted
<1>13. RequestTypes'
  BY <1>6, <1>11, <1>12 DEF Intend, Control, RequestTypes
<1> QED
  BY <1>7, <1>9, <1>10, <1>13, PartsNext DEF Control

\* The steps of the execution and of the request that save nothing.
LEMMA ClientGoneTypes ==
    ASSUME TInv, NEW o \in Ops, ClientGone(o)
    PROVE  TInv'
<1> USE Parts
<1>1. Data'
  BY QuietData DEF ClientGone, Onward
<1>2. ProcessTypes' /\ OperationTypes'
  BY DEF ClientGone, Control, ProcessTypes, OperationTypes, processVars, operation, handleVars
<1>3. RequestTypes'
  BY DEF ClientGone, Control, RequestTypes, watchVars, counters
<1> QED
  BY <1>1, <1>2, <1>3, PartsNext DEF Control

LEMMA ValidateTypes ==
    ASSUME TInv, NEW o \in Ops, Validate(o)
    PROVE  TInv'
<1> USE Parts
<1>1. Data'
  BY QuietData DEF Validate, Goto, Onward, Control, OperationTypes
<1>2. ProcessTypes' /\ RequestTypes'
  BY DEF Validate, Control, ProcessTypes, RequestTypes, processVars, httpVars, watchVars, counters
<1>3. OperationTypes'
  BY DEF Validate, Goto, Control, OperationTypes, Points, operation, handleVars
<1> QED
  BY <1>1, <1>2, <1>3, PartsNext DEF Control

LEMMA DispatchTypes ==
    ASSUME TInv, NEW o \in Ops, Dispatch(o)
    PROVE  TInv'
<1> USE Parts
<1>1. Data'
  BY QuietData DEF Dispatch, Goto, Onward, Control, OperationTypes
<1>2. ProcessTypes' /\ RequestTypes'
  BY DEF Dispatch, Control, ProcessTypes, RequestTypes, processVars, httpVars, watchVars, counters
<1>3. OperationTypes'
  BY DEF Dispatch, Goto, Control, OperationTypes, Points, operation
<1> QED
  BY <1>1, <1>2, <1>3, PartsNext DEF Control

LEMMA PersistMarkerTypes ==
    ASSUME TInv, NEW o \in Ops, PersistMarker(o)
    PROVE  TInv'
<1> USE Parts
<1>1. Onward
  BY DEF PersistMarker, Onward
<1>2. Data' /\ failures' \in 0..MaxFailures
  <2>1. CASE UNCHANGED <<disk, mem, failures>>
    BY <1>1, <2>1, QuietData DEF Control, RequestTypes
  <2>2. CASE /\ Remember(o, WithPhase(o, "observing"))
             /\ Attempt(object[o], WithPhase(o, "observing"))
    BY <1>1, <2>2, PhaseData DEF ActivePhases
  <2> QED
    BY <2>1, <2>2 DEF PersistMarker, Attempt
<1>3. ProcessTypes'
  BY DEF PersistMarker, Control, ProcessTypes, processVars
<1>4. OperationTypes'
  BY DEF PersistMarker, Control, OperationTypes, operation
<1>5. RequestTypes'
  BY <1>2 DEF PersistMarker, Control, RequestTypes, watchVars, httpVars
<1> QED
  BY <1>2, <1>3, <1>4, <1>5, PartsNext DEF Control

LEMMA ReturnTypes ==
    ASSUME TInv, NEW o \in Ops, Return(o)
    PROVE  TInv'
<1> USE Parts
<1>1. Data'
  BY QuietData DEF Return, Goto, Onward, Control, OperationTypes
<1>2. ProcessTypes' /\ RequestTypes'
  BY DEF Return, Control, ProcessTypes, RequestTypes, processVars, httpVars, watchVars, counters
<1>3. OperationTypes'
  BY DEF Return, Goto, Control, OperationTypes, Points, operation
<1> QED
  BY <1>1, <1>2, <1>3, PartsNext DEF Control

LEMMA FinishRunTypes ==
    ASSUME TInv, NEW o \in Ops, FinishRun(o)
    PROVE  TInv'
<1> USE Parts
<1>1. PICK point \in {"late", "ended"} : Goto(o, point)
  BY DEF FinishRun
<1>2. Onward
  BY <1>1 DEF Goto, Onward, Control, OperationTypes
<1>3. Data' /\ failures' \in 0..MaxFailures
  <2>1. CASE UNCHANGED <<disk, mem, failures>>
    BY <1>2, <2>1, QuietData DEF Control, RequestTypes
  <2>2. CASE /\ Remember(o, WithPhase(o, FinalPhase(o)))
             /\ OpenAttempt(object[o], WithPhase(o, FinalPhase(o)))
    <3>1. FinalPhase(o) \in ActivePhases \union TerminalPhases \union {"none"}
      BY DEF FinalPhase, TerminalPhases
    <3> QED
      BY <1>2, <2>2, <3>1, PhaseData
  <2> QED
    BY <2>1, <2>2 DEF FinishRun, OpenAttempt
<1>4. ReleaseHandle(o)
  BY DEF FinishRun
<1>5. ProcessTypes'
  BY <1>4, Releases DEF FinishRun, Control, ProcessTypes
<1>6. OperationTypes'
  BY <1>1, <1>4, Releases DEF FinishRun, Goto, Control, OperationTypes, Points, operation
<1>7. RequestTypes'
  BY <1>3, <1>4, Releases DEF FinishRun, Control, RequestTypes, httpVars
<1> QED
  BY <1>3, <1>5, <1>6, <1>7, PartsNext DEF Control

LEMMA KilledByCloseTypes ==
    ASSUME TInv, NEW o \in Ops, KilledByClose(o)
    PROVE  TInv'
<1> USE Parts
<1>1. Data'
  BY QuietData DEF KilledByClose, Goto, Onward, Control, OperationTypes
<1>2. ReleaseHandle(o)
  BY DEF KilledByClose
<1>3. ProcessTypes'
  BY <1>2, Releases DEF KilledByClose, Control, ProcessTypes
<1>4. OperationTypes'
  BY <1>2, Releases DEF KilledByClose, Goto, Control, OperationTypes, Points, operation
<1>5. RequestTypes'
  BY <1>2, Releases DEF KilledByClose, Control, RequestTypes, httpVars, counters
<1> QED
  BY <1>1, <1>3, <1>4, <1>5, PartsNext DEF Control

LEMMA WatchdogFiresTypes ==
    ASSUME TInv, NEW o \in Ops, WatchdogFires(o)
    PROVE  TInv'
<1> USE Parts
<1>1. Onward
  BY DEF WatchdogFires, Onward
<1>2. Data' /\ failures' \in 0..MaxFailures
  <2>1. CASE UNCHANGED <<disk, mem, failures>>
    BY <1>1, <2>1, QuietData DEF Control, RequestTypes
  <2>2. CASE /\ Remember(o, WithPhase(o, "dispatch_unknown"))
             /\ OpenAttempt(object[o], WithPhase(o, "dispatch_unknown"))
    BY <1>1, <2>2, PhaseData DEF TerminalPhases
  <2> QED
    BY <2>1, <2>2 DEF WatchdogFires, OpenAttempt
<1>3. ProcessTypes'
  BY DEF WatchdogFires, Control, ProcessTypes, processVars
<1>4. OperationTypes'
  BY DEF WatchdogFires, Control, OperationTypes, operation, handleVars
<1>5. /\ watchdog' \in [Ops -> {"none", "sleeping", "callback"}]
      /\ wake' \in [Ops -> Times]
  <2>1. 0 \in Times
    BY Numbers DEF Times
  <2> QED
    BY <2>1 DEF WatchdogFires, Control, RequestTypes
<1>6. RequestTypes'
  BY <1>2, <1>5 DEF WatchdogFires, Control, RequestTypes, httpVars
<1> QED
  BY <1>2, <1>3, <1>4, <1>6, PartsNext DEF Control

LEMMA PublishData ==
    ASSUME TInv, Onward, NEW o \in Ops, PublishLate(o)
    PROVE  Data' /\ failures' \in 0..MaxFailures /\ published' \in SUBSET Ops
<1> USE Parts
<1> DEFINE i == object[o]
           p == [mem[object[o]] EXCEPT !.late[o] = TRUE]
<1>1. i \in Objects /\ mem[i] \in Payloads
  BY DEF TInv, TypeOK
<1>2. p \in Payloads /\ p.next = mem[i].next
  BY <1>1, LateFits
<1>3. p.next <= Cardinality(Used')
  BY <1>1, <1>2, SameGeneration
<1>4. published' \in SUBSET Ops
  BY DEF PublishLate, Control, RequestTypes
<1>5. CASE UNCHANGED <<disk, mem, failures>>
  BY <1>4, <1>5, QuietData DEF Control, RequestTypes
<1>6. CASE Remember(o, p) /\ Attempt(i, p)
  <2>1. mem' = [mem EXCEPT ![i] = p]
    BY <1>6 DEF Remember
  <2> HIDE DEF p
  <2>2. Written({p, p}) /\ failures' \in 0..MaxFailures
    BY <1>2, <1>6, Attempts, WrittenMore DEF TInv
  <2> QED
    BY <1>1, <1>2, <1>3, <1>4, <2>1, <2>2, SavedData
<1> QED
  BY <1>5, <1>6 DEF PublishLate, Attempt

LEMMA RunPublishesTypes ==
    ASSUME TInv, NEW o \in Ops, RunPublishes(o)
    PROVE  TInv'
<1> USE Parts
<1>1. Data' /\ failures' \in 0..MaxFailures /\ published' \in SUBSET Ops
  BY PublishData DEF RunPublishes, Goto, Onward, Control, OperationTypes
<1>2. ProcessTypes'
  BY DEF RunPublishes, Control, ProcessTypes, processVars
<1>3. OperationTypes'
  BY DEF RunPublishes, Goto, Control, OperationTypes, Points, operation, handleVars
<1>4. RequestTypes'
  BY <1>1 DEF RunPublishes, Control, RequestTypes, httpVars, watchVars
<1> QED
  BY <1>1, <1>2, <1>3, <1>4, PartsNext DEF Control

LEMMA WatchdogPublishesTypes ==
    ASSUME TInv, NEW o \in Ops, WatchdogPublishes(o)
    PROVE  TInv'
<1> USE Parts
<1>1. Data' /\ failures' \in 0..MaxFailures /\ published' \in SUBSET Ops
  BY PublishData DEF WatchdogPublishes, Onward
<1>2. ProcessTypes'
  BY DEF WatchdogPublishes, Control, ProcessTypes, processVars
<1>3. OperationTypes'
  BY DEF WatchdogPublishes, Control, OperationTypes, operation, handleVars
<1>4. RequestTypes'
  BY <1>1 DEF WatchdogPublishes, Control, RequestTypes, httpVars
<1> QED
  BY <1>1, <1>2, <1>3, <1>4, PartsNext DEF Control

\* The steps of the request that save nothing.
Unsaved(o) ==
    ResponseDone(o) \/ ResponsePending(o) \/ PendingAnswered(o) \/ ResponseRevoke(o)
    \/ HttpCancelled(o)

LEMMA UnsavedTypes ==
    ASSUME TInv, NEW o \in Ops, Unsaved(o)
    PROVE  TInv'
<1> USE Parts
<1>1. UNCHANGED <<disk, now, processVars, mem, pc, operation, unresponsive, watchVars,
                  published, sent, counters>>
  BY DEF Unsaved, ResponseDone, ResponsePending, PendingAnswered, ResponseRevoke, HttpCancelled
<1>2. Data'
  BY <1>1, QuietData DEF Onward
<1>3. revoked' \in SUBSET Ops /\ released' \in SUBSET Ops /\ resolved' \in SUBSET Ops
  BY DEF Unsaved, ResponseDone, ResponsePending, PendingAnswered, ResponseRevoke, HttpCancelled,
         Resolve, Control, OperationTypes
<1>4. /\ http' \in [Ops -> {"none", "waiting", "persisting", "revoking", "leaving", "over"}]
      /\ answer' \in [Ops -> {"none", "not_sent", "result", "pending", "unknown"}]
  BY DEF Unsaved, ResponseDone, ResponsePending, PendingAnswered, ResponseRevoke, HttpCancelled,
         HttpStep, Answered, Control, RequestTypes
<1>5. ProcessTypes'
  BY <1>1 DEF Control, ProcessTypes, processVars
<1>6. OperationTypes'
  BY <1>1, <1>3 DEF Control, OperationTypes, operation, unresponsive
<1>7. RequestTypes'
  BY <1>1, <1>4 DEF Control, RequestTypes, watchVars, counters
<1> QED
  BY <1>2, <1>5, <1>6, <1>7, PartsNext DEF Control

LEMMA RevokeSavedTypes ==
    ASSUME TInv, NEW o \in Ops, RevokeSaved(o)
    PROVE  TInv'
<1> USE Parts
<1>1. Onward
  BY DEF RevokeSaved, Onward
<1>2. Data' /\ failures' \in 0..MaxFailures
  <2>1. CASE UNCHANGED <<disk, mem, failures>>
    BY <1>1, <2>1, QuietData DEF Control, RequestTypes
  <2>2. CASE /\ Remember(o, WithPhase(o, "failed_before_dispatch"))
             /\ OpenAttempt(object[o], WithPhase(o, "failed_before_dispatch"))
    BY <1>1, <2>2, PhaseData DEF TerminalPhases
  <2> QED
    BY <2>1, <2>2 DEF RevokeSaved, OpenAttempt
<1>3. ProcessTypes'
  BY DEF RevokeSaved, Control, ProcessTypes, processVars
<1>4. OperationTypes'
  BY DEF RevokeSaved, Resolve, Control, OperationTypes, operation, unresponsive
<1>5. RequestTypes'
  BY <1>2 DEF RevokeSaved, HttpStep, Answered, Control, RequestTypes, watchVars
<1> QED
  BY <1>2, <1>3, <1>4, <1>5, PartsNext DEF Control

---------------------------------------------------------------------------
(* Close, load, crash, time and damage.                                      *)

\* A non-empty set of records has a newest one.
LEMMA Newest ==
    ASSUME NEW U \in SUBSET Ops, U # {}, NEW gen \in [Ops -> Generations]
    PROVE  \E o \in U : \A x \in U : gen[x] <= gen[o]
<1> DEFINE older == {Cardinality(Ops) - gen[o] : o \in U}
<1>1. older \subseteq Nat /\ older # {}
  BY Numbers DEF Generations
<1>2. PICK n \in older : \A m \in older : ~ (<<m, n>> \in OpToRel(<, Nat))
  BY <1>1, WFMin, NatLessThanWellFounded
<1>3. \A m \in older : ~ (m < n)
  BY <1>1, <1>2 DEF OpToRel
<1>4. PICK o \in U : n = Cardinality(Ops) - gen[o]
  OBVIOUS
<1>5. ASSUME NEW x \in U
      PROVE  gen[x] <= gen[o]
  <2>1. ~ (Cardinality(Ops) - gen[x] < Cardinality(Ops) - gen[o])
    BY <1>3, <1>4
  <2> QED
    BY <2>1, Numbers DEF Generations
<1> QED
  BY <1>5

LEMMA QuarantineType ==
    ASSUME NEW p \in Payloads
    PROVE  LoadedQuarantine(p) \in [Entities -> Times]
<1> SUFFICES ASSUME NEW e \in Entities
             PROVE  LoadedQuarantine(p)[e] \in Times
  BY DEF LoadedQuarantine
<1> DEFINE uncertain == {o \in Ops : /\ p.entity[o] = e
                                     /\ p.phase[o] = "dispatch_unknown"
                                     /\ p.expires[o] > now}
           last == CHOOSE o \in uncertain : \A x \in uncertain : p.gen[x] <= p.gen[o]
<1>1. p.gen \in [Ops -> Generations] /\ p.expires \in [Ops -> Times] /\ 0 \in Times
  BY Numbers DEF Payloads, Times
<1>2. LoadedQuarantine(p)[e] = IF uncertain = {} THEN 0 ELSE p.expires[last]
  BY DEF LoadedQuarantine
<1>3. uncertain \subseteq Ops
  OBVIOUS
<1> HIDE DEF uncertain
<1>4. uncertain # {} => last \in Ops
  BY <1>1, <1>3, Newest
<1> QED
  BY <1>1, <1>2, <1>4

LEMMA CloseTypes ==
    ASSUME TInv, NEW i \in Objects, Close(i)
    PROVE  TInv'
<1> USE Parts
<1> DEFINE open == {o \in registered : object[o] = i /\ mem[i].phase[o] \in ActivePhases}
           phases == [o \in Ops |-> IF o \notin open THEN mem[i].phase[o]
                                    ELSE IF o \in crossed THEN "dispatch_unknown"
                                    ELSE "failed_before_dispatch"]
           p == [mem[i] EXCEPT !.phase = phases]
           mine == {o \in Ops : object[o] = i}
<1>1. /\ mem' = [mem EXCEPT ![i] = p]
      /\ Attempt(i, p)
      /\ marker' = marker \ mine
      /\ watchdog' = [o \in Ops |-> IF o \in mine \intersect registered
                                    THEN "none" ELSE watchdog[o]]
  BY DEF Close, Attempt
<1>2. mem[i] \in Payloads
  BY DEF TInv, TypeOK
<1>3. phases \in [Ops -> ActivePhases \union TerminalPhases \union {"none"}]
  BY <1>2 DEF Payloads, TerminalPhases
<1>4. p \in Payloads /\ p.next = mem[i].next
  <2> HIDE DEF phases
  <2> QED
    BY <1>2, <1>3, PhasesFit
<1>5. marker' \in SUBSET Ops /\ watchdog' \in [Ops -> {"none", "sleeping", "callback"}]
  BY <1>1 DEF Control, OperationTypes, RequestTypes
<1> HIDE DEF p
<1>6. Onward
  BY DEF Close, Onward
<1>7. p.next <= Cardinality(Used')
  BY <1>4, <1>6, SameGeneration
<1>8. Written({p, p}) /\ failures' \in 0..MaxFailures
  BY <1>1, <1>4, Attempts, WrittenMore DEF TInv
<1>9. Data'
  BY <1>1, <1>4, <1>6, <1>7, <1>8, SavedData
<1>10. ProcessTypes'
  BY DEF Close, Control, ProcessTypes
<1>11. OperationTypes'
  BY <1>5 DEF Close, Control, OperationTypes, operation
<1>12. RequestTypes'
  BY <1>5, <1>8 DEF Close, Control, RequestTypes, httpVars
<1> QED
  BY <1>9, <1>10, <1>11, <1>12, PartsNext DEF Control

\* A load answers with one of the two files, and leaves the files it found.
LEMMA LoadFacts ==
    ASSUME disk \in Disks, NEW a \in LoadAnswers(disk), a.kind # "error"
    PROVE  /\ a.disk \in Disks
           /\ a.disk.cur \in {disk.cur, disk.prev, Absent, Invalid}
           /\ a.disk.prev \in {disk.cur, disk.prev, Absent, Invalid}
           /\ a.kind = "value" => a.doc \in {disk.cur, disk.prev} /\ Valid(a.doc)
<1>1. CASE Valid(disk.cur)
  BY <1>1 DEF LoadAnswers, Answer
<1>2. CASE ~Valid(disk.cur) /\ Valid(disk.prev)
  <2>1. a.kind = "value" /\ a.doc = disk.prev /\ a.disk = Restored(disk)
    BY <1>2 DEF LoadAnswers, Answer
  <2>2. Restored(disk) \in Disks /\ Restored(disk).cur = disk.prev
    BY DEF Restored, Latched, MovedAside, Loaded, Disks, Files
  <2>3. Restored(disk).prev = disk.prev
    BY DEF Restored, Latched, MovedAside, Disks
  <2> QED
    BY <1>2, <2>1, <2>2, <2>3
<1>3. CASE ~Valid(disk.cur) /\ ~Valid(disk.prev)
  BY <1>3 DEF LoadAnswers, Answer
<1> QED
  BY <1>1, <1>2, <1>3

LEMMA LoadedFits ==
    ASSUME NEW p \in Payloads
    PROVE  LoadedImage(p) \in Payloads /\ LoadedImage(p).next = p.next
<1>1. [o \in Ops |-> AfterLoad(p.phase[o])]
        \in [Ops -> ActivePhases \union TerminalPhases \union {"none"}]
  BY DEF Payloads, AfterLoad, TerminalPhases
<1> QED
  BY <1>1, PhasesFit DEF LoadedImage

LEMMA LoadTypes ==
    ASSUME TInv, Load
    PROVE  TInv'
<1> USE Parts
<1>1. PICK a \in LoadAnswers(disk) :
        /\ a.kind # "error"
        /\ disk' = a.disk
        /\ LET p == LoadedImage(IF a.kind = "value" THEN a.doc ELSE EmptyPayload) IN
             /\ mem' = [mem EXCEPT ![latest + 1] = p]
             /\ quarantine' = [quarantine EXCEPT ![latest + 1] = LoadedQuarantine(p)]
  BY DEF Load
<1> DEFINE q == IF a.kind = "value" THEN a.doc ELSE EmptyPayload
           p == LoadedImage(q)
<1>2. latest + 1 \in Objects
  BY Numbers DEF Load, Control, ProcessTypes, Objects
<1>3. Onward
  BY DEF Load, Onward
<1>4. /\ a.disk \in Disks
      /\ a.disk.cur \in {disk.cur, disk.prev, Absent, Invalid}
      /\ a.disk.prev \in {disk.cur, disk.prev, Absent, Invalid}
      /\ a.kind = "value" => a.doc \in {disk.cur, disk.prev} /\ Valid(a.doc)
  BY <1>1, LoadFacts DEF Data
<1>5. q \in Payloads /\ q.next <= Cardinality(Used')
  <2>1. CASE a.kind = "value"
    <3>1. q \in Payloads /\ Fits(q)
      BY <1>4, <2>1 DEF Valid, Data, Counted
    <3> QED
      BY <1>3, <3>1, UsedStays, FitsMonotone DEF Onward
  <2>2. CASE a.kind # "value"
    <3>1. Cardinality(Used') \in Generations
      BY <1>3, UsedStays DEF Onward
    <3> QED
      BY <2>2, <3>1, EmptyFits, Numbers DEF Generations
  <2> QED
    BY <2>1, <2>2
<1> HIDE DEF q
<1>6. p \in Payloads /\ p.next <= Cardinality(Used')
  BY <1>5, LoadedFits
<1>7. mem' = [mem EXCEPT ![latest + 1] = p] /\ LoadedQuarantine(p) \in [Entities -> Times]
      /\ quarantine' = [quarantine EXCEPT ![latest + 1] = LoadedQuarantine(p)]
  BY <1>1, <1>6, QuarantineType DEF q
<1> HIDE DEF p
<1>8. Written({p, p})
  BY <1>1, <1>4 DEF Written
<1>9. Data'
  BY <1>2, <1>3, <1>6, <1>7, <1>8, SavedData
<1>10. quarantine' \in [Objects -> [Entities -> Times]]
  BY <1>2, <1>7 DEF Control, ProcessTypes
<1>11. ProcessTypes'
  BY <1>2, <1>10 DEF Load, Control, ProcessTypes
<1>12. OperationTypes'
  BY DEF Load, Control, OperationTypes, operation, handleVars
<1>13. RequestTypes'
  BY DEF Load, Control, RequestTypes, watchVars, httpVars, counters
<1> QED
  BY <1>9, <1>11, <1>12, <1>13, PartsNext DEF Control

LEMMA CrashTypes ==
    ASSUME TInv, Crash
    PROVE  TInv'
<1> USE Parts
<1>1. Onward /\ disk' = disk
  BY DEF Crash, Onward, Control, OperationTypes
<1>2. mem' = [i \in Objects |-> EmptyPayload] /\ EmptyPayload \in Payloads
  BY EmptyFits DEF Crash
<1>3. Counted'
  <2>1. Cardinality(Used') \in Generations
    BY <1>1, UsedStays DEF Onward
  <2>2. EmptyPayload.next <= Cardinality(Used')
    BY <2>1, EmptyFits, Numbers DEF Generations
  <2>3. Written({EmptyPayload})
    BY <1>1 DEF Written, TInv, TypeOK
  <2>4. mem' \in [Objects -> Payloads] /\ \A i \in Objects : mem'[i] \in {EmptyPayload} \union {mem[i]}
    BY <1>2
  <2> HIDE DEF TInv
  <2> QED
    BY <1>1, <1>2, <2>2, <2>3, <2>4, Images DEF Onward
<1>4. Data'
  BY <1>1, <1>2, <1>3 DEF Data
<1>5. 0 \in Times /\ latest + 1 \in 1..MaxObjects + 1
  BY Numbers DEF Times, Control, ProcessTypes, Objects
<1>6. ProcessTypes'
  BY <1>5 DEF Crash, Control, ProcessTypes
<1>7. OperationTypes'
  BY DEF Crash, Control, OperationTypes, Points, operation
<1>8. RequestTypes'
  BY <1>5 DEF Crash, Control, RequestTypes, counters
<1> QED
  BY <1>4, <1>6, <1>7, <1>8, PartsNext DEF Control

LEMMA TickTypes ==
    ASSUME TInv, Tick
    PROVE  TInv'
<1> USE Parts
<1>1. Data'
  BY QuietData DEF Tick, Onward
<1>2. ProcessTypes'
  BY Numbers DEF Tick, Control, ProcessTypes, processVars
<1>3. OperationTypes' /\ RequestTypes'
  BY DEF Tick, Control, OperationTypes, RequestTypes, operation, handleVars, watchVars, httpVars,
         counters
<1> QED
  BY <1>1, <1>2, <1>3, PartsNext DEF Control

LEMMA DamageFileTypes ==
    ASSUME TInv, DamageFile
    PROVE  TInv'
<1> USE Parts
<1>1. Written({}) /\ UNCHANGED <<mem, pc>>
  <2>1. PICK file \in {"cur", "prev"} : disk' = [disk EXCEPT ![file] = Invalid]
    BY DEF DamageFile
  <2>2. disk \in Disks
    BY DEF Data
  <2> QED
    BY <2>1, <2>2 DEF DamageFile, Written, Disks, Files
<1>2. Onward /\ mem' \in [Objects -> Payloads]
  BY <1>1 DEF Onward, Data
<1>3. Counted'
  BY <1>1, <1>2, Images DEF Onward
<1>4. Data'
  BY <1>1, <1>2, <1>3 DEF Data, Written
<1>5. ProcessTypes'
  BY DEF DamageFile, Control, ProcessTypes, processVars
<1>6. OperationTypes'
  BY DEF DamageFile, Control, OperationTypes, operation, handleVars
<1>7. RequestTypes'
  BY Numbers DEF DamageFile, Control, RequestTypes, watchVars, httpVars
<1> QED
  BY <1>4, <1>5, <1>6, <1>7, PartsNext DEF Control

LEMMA InitTypes == Init => TInv
<1> SUFFICES ASSUME Init PROVE TInv
  OBVIOUS
<1>1. EmptyPayload \in Payloads /\ EmptyPayload.next = 0 /\ 0 \in Times
  BY EmptyFits, Numbers DEF Times
<1>2. Data
  BY <1>1, UsedFacts, Numbers
     DEF Init, Data, Counted, Fits, NewDisk, Disks, Files, Valid
<1>3. ProcessTypes
  BY <1>1, Numbers DEF Init, ProcessTypes, Objects
<1>4. OperationTypes
  BY <1>1, Numbers DEF Init, OperationTypes, Points, Outcomes, Objects
<1>5. RequestTypes
  BY <1>1, Numbers DEF Init, RequestTypes
<1> QED
  BY <1>2, <1>3, <1>4, <1>5, Parts DEF Control

LEMMA NextTypes == TInv /\ [Next]_vars => TInv'
<1> SUFFICES ASSUME TInv, [Next]_vars PROVE TInv'
  OBVIOUS
<1>1. ASSUME NEW o \in Ops, Step(o) PROVE TInv'
  BY <1>1, RefuseTypes, AdmitTypes, IntendTypes, ClientGoneTypes, ValidateTypes, DispatchTypes,
     PersistMarkerTypes, ReturnTypes, FinishRunTypes, KilledByCloseTypes, WatchdogFiresTypes,
     RunPublishesTypes, WatchdogPublishesTypes, UnsavedTypes, RevokeSavedTypes
     DEF Step, Unsaved
<1>2. CASE UNCHANGED vars
  <2> USE <1>2, Parts
  <2>1. Data'
    BY QuietData DEF Onward, vars
  <2>2. ProcessTypes' /\ OperationTypes'
    BY DEF Control, ProcessTypes, OperationTypes, vars, processVars, operation, handleVars
  <2>3. RequestTypes'
    BY DEF Control, RequestTypes, vars, watchVars, httpVars, counters
  <2> QED
    BY <2>1, <2>2, <2>3, PartsNext DEF Control
<1> QED
  BY <1>1, <1>2, CloseTypes, LoadTypes, CrashTypes, TickTypes, DamageFileTypes DEF Next

\* Every variable keeps its type and every generation was given to an operation,
\* through any sequence of the lifecycle's steps.
THEOREM TypeCorrect == Spec => []TypeOK
<1>1. Spec => []TInv
  BY InitTypes, NextTypes, PTL DEF Spec
<1>2. TInv => TypeOK
  BY DEF TInv
<1> QED
  BY <1>1, <1>2, PTL

---------------------------------------------------------------------------
(* Leases and answers.                                                       *)

Holding == {"admitting", "running", "validated", "called", "returned"}

\* An execution holds the lease of its entity from its admission on.
Leased == {e \in Entities : leases[e] # None}

HoldsLease ==
    \A o \in Ops : pc[o] \in Holding => entity[o] \in Entities /\ leases[entity[o]] = o

FewLeases == IsFiniteSet(Leased) /\ Cardinality(Leased) <= MaxActive

LInv == HoldsLease /\ FewLeases

\* What was sent is what crossed its marker.
SentCrossed == sent = crossed

\* An operation that was not yet admitted, or did not yet start, was not answered.
Unstarted ==
    \A o \in Ops :
        /\ pc[o] = "new" => http[o] = "none"
        /\ pc[o] = "admitting" => http[o] \in {"none", "over"}
        /\ pc[o] \in {"new", "admitting"} => answer[o] = "none" /\ o \notin crossed

\* An operation that was answered does not send any more.
AnsweredOver ==
    \A o \in Ops : answer[o] # "none" =>
        pc[o] \in {"ended", "killed", "leaked", "lost"} \/ o \in crossed \/ o \in revoked

\* The request knows whether its command was sent.
Requests ==
    \A o \in Ops :
        /\ http[o] # "over" => answer[o] = "none"
        /\ http[o] = "persisting" => o \in crossed
        /\ http[o] \in {"revoking", "leaving"} => o \in revoked /\ o \notin crossed

\* A late receipt is due only of a command that was sent and whose client does not
\* get its result.
LateReceipts ==
    \A o \in Ops :
        /\ pc[o] = "late" \/ watchdog[o] = "callback" => o \in released
        /\ o \in released => /\ o \in crossed
                             /\ answer[o] \in {"none", "pending", "unknown"}
                             /\ http[o] \in {"persisting", "over"}

RInv == SentCrossed /\ Unstarted /\ AnsweredOver /\ Requests /\ LateReceipts

IInv == TInv /\ LInv /\ RInv

\* A step that leaves the leases alone and starts no execution.
LEMMA LeasesStay ==
    ASSUME LInv, UNCHANGED leases,
           \A o \in Ops : pc'[o] \in Holding => pc[o] \in Holding /\ entity'[o] = entity[o]
    PROVE  LInv'
<1>1. HoldsLease'
  BY DEF LInv, HoldsLease
<1>2. Leased' = Leased
  BY DEF Leased
<1>3. FewLeases'
  BY <1>2 DEF LInv, FewLeases
<1> QED
  BY <1>1, <1>3 DEF LInv

\* The execution of an operation ends and gives its lease back.
LEMMA LeaseGiven ==
    ASSUME TInv, LInv, NEW o \in Ops, ReleaseLease(o), UNCHANGED entity,
           NEW point \in Points \ Holding, Goto(o, point)
    PROVE  LInv'
<1> USE Parts DEF Control, ProcessTypes, OperationTypes
<1>1. ASSUME NEW x \in Ops, pc'[x] \in Holding
      PROVE  entity'[x] \in Entities /\ leases'[entity'[x]] = x
  <2>1. x # o /\ pc[x] \in Holding
    BY <1>1 DEF Goto
  <2>2. entity[x] \in Entities /\ leases[entity[x]] = x
    BY <2>1 DEF LInv, HoldsLease
  <2> QED
    BY <2>1, <2>2 DEF ReleaseLease
<1>2. HoldsLease'
  BY <1>1 DEF HoldsLease
<1>3. Leased' \subseteq Leased
  BY DEF Leased, ReleaseLease
<1>4. IsFiniteSet(Leased') /\ Cardinality(Leased') <= Cardinality(Leased)
  BY <1>3, FS_Subset DEF LInv, FewLeases
<1>5. FewLeases'
  BY <1>4, Numbers, FS_CardinalityType DEF LInv, FewLeases
<1> QED
  BY <1>2, <1>5 DEF LInv

LEMMA LeaseTaken ==
    ASSUME TInv, LInv, NEW o \in Ops, NEW e \in Entities, pc[o] = "new",
           ~Full, leases[e] = None, leases' = [leases EXCEPT ![e] = o],
           entity' = [entity EXCEPT ![o] = e], NEW point \in Points, Goto(o, point)
    PROVE  LInv'
<1> USE Parts DEF Control, ProcessTypes, OperationTypes
<1>1. ASSUME NEW x \in Ops, pc'[x] \in Holding
      PROVE  entity'[x] \in Entities /\ leases'[entity'[x]] = x
  <2>1. CASE x = o
    BY <2>1
  <2>2. CASE x # o
    <3>1. pc[x] \in Holding /\ entity'[x] = entity[x]
      BY <1>1, <2>2 DEF Goto
    <3>2. entity[x] \in Entities /\ leases[entity[x]] = x
      BY <3>1 DEF LInv, HoldsLease
    <3> QED
      BY <3>1, <3>2, Numbers
  <2> QED
    BY <2>1, <2>2
<1>2. HoldsLease'
  BY <1>1 DEF HoldsLease
<1>3. Leased' = Leased \union {e} /\ e \notin Leased
  BY Numbers DEF Leased
<1>4. IsFiniteSet(Leased') /\ Cardinality(Leased') = Cardinality(Leased) + 1
  BY <1>3, FS_AddElement DEF LInv, FewLeases
<1>5. Cardinality(Leased) < MaxActive
  BY Numbers, FS_CardinalityType DEF Full, Leased, LInv, FewLeases
<1>6. FewLeases'
  BY <1>4, <1>5, Numbers, FS_CardinalityType DEF LInv, FewLeases
<1> QED
  BY <1>2, <1>6 DEF LInv

LEMMA NotBusy ==
    ASSUME NEW i, NEW e, ~Busy(i, e)
    PROVE  leases[e] = None
  BY DEF Busy

LEMMA AdmitLeases ==
    ASSUME TInv, LInv, NEW o \in Ops, Admit(o)
    PROVE  LInv'
<1> USE Parts DEF Control, ProcessTypes, OperationTypes
<1>1. PICK e \in Entities, i \in Loadeds :
        /\ ~Busy(i, e)
        /\ entity' = [entity EXCEPT ![o] = e]
        /\ \/ leases' = [leases EXCEPT ![e] = o] /\ (Goto(o, "admitting") \/ Goto(o, "leaked"))
           \/ UNCHANGED leases /\ Goto(o, "ended")
  BY DEF Admit
<1>2. leases[e] = None /\ pc[o] = "new" /\ ~Full
  BY <1>1, NotBusy DEF Admit
<1>3. CASE leases' = [leases EXCEPT ![e] = o] /\ (Goto(o, "admitting") \/ Goto(o, "leaked"))
  BY <1>1, <1>2, <1>3, LeaseTaken DEF Points
<1>4. CASE UNCHANGED leases /\ Goto(o, "ended")
  <2>1. \A x \in Ops : pc'[x] \in Holding => pc[x] \in Holding /\ entity'[x] = entity[x]
    BY <1>1, <1>4 DEF Goto, Holding
  <2> QED
    BY <1>4, <2>1, LeasesStay
<1> QED
  BY <1>1, <1>3, <1>4

LEMMA IntendLeases ==
    ASSUME TInv, LInv, NEW o \in Ops, Intend(o)
    PROVE  LInv'
<1> USE Parts DEF Control, OperationTypes
<1>1. /\ UNCHANGED entity /\ pc[o] = "admitting"
      /\ \/ UNCHANGED leases /\ (Goto(o, "running") \/ Goto(o, "leaked"))
         \/ ReleaseLease(o) /\ Goto(o, "ended")
  BY DEF Intend, operation
<1>2. CASE UNCHANGED leases /\ (Goto(o, "running") \/ Goto(o, "leaked"))
  <2>1. \A x \in Ops : pc'[x] \in Holding => pc[x] \in Holding /\ entity'[x] = entity[x]
    BY <1>1, <1>2 DEF Goto, Holding
  <2> QED
    BY <1>2, <2>1, LeasesStay
<1>3. CASE ReleaseLease(o) /\ Goto(o, "ended")
  BY <1>1, <1>3, LeaseGiven DEF Points, Holding
<1> QED
  BY <1>1, <1>2, <1>3

LEMMA StepLeases ==
    ASSUME TInv, LInv, NEW o \in Ops, Step(o)
    PROVE  LInv'
<1> USE Parts DEF Control, OperationTypes
<1>1. CASE Refuse(o)
  <2>1. PICK e \in Entities : entity' = [entity EXCEPT ![o] = e]
    BY <1>1 DEF Refuse
  <2>2. \A x \in Ops : pc'[x] \in Holding => pc[x] \in Holding /\ entity'[x] = entity[x]
    BY <1>1, <2>1 DEF Refuse, Goto, Holding
  <2> QED
    BY <1>1, <2>2, LeasesStay DEF Refuse
<1>2. CASE Validate(o) \/ Dispatch(o) \/ Return(o) \/ RunPublishes(o)
  <2>1. UNCHANGED <<leases, entity>>
    BY <1>2 DEF Validate, Dispatch, Return, RunPublishes, processVars, operation
  <2>2. \/ pc[o] \in Holding /\ pc' = [pc EXCEPT ![o] = pc'[o]]
        \/ pc' = [pc EXCEPT ![o] = "ended"]
    BY <1>2 DEF Validate, Dispatch, Return, RunPublishes, Goto, Holding
  <2>3. \A x \in Ops : pc'[x] \in Holding => pc[x] \in Holding
    BY <2>2 DEF Holding
  <2> QED
    BY <2>1, <2>3, LeasesStay
<1>3. CASE FinishRun(o) \/ KilledByClose(o)
  <2>1. ReleaseLease(o) /\ UNCHANGED entity
    BY <1>3 DEF FinishRun, KilledByClose, ReleaseHandle, operation
  <2>2. PICK point \in {"late", "ended", "killed"} : Goto(o, point)
    BY <1>3 DEF FinishRun, KilledByClose
  <2> QED
    BY <2>1, <2>2, LeaseGiven DEF Points, Holding
<1>4. CASE ClientGone(o) \/ PersistMarker(o) \/ WatchdogFires(o) \/ WatchdogPublishes(o)
           \/ Unsaved(o) \/ RevokeSaved(o)
  <2>1. UNCHANGED <<leases, entity, pc>>
    BY <1>4 DEF ClientGone, PersistMarker, WatchdogFires, WatchdogPublishes, Unsaved, RevokeSaved,
         ResponseDone, ResponsePending, PendingAnswered, ResponseRevoke, HttpCancelled,
         processVars, operation
  <2> QED
    BY <2>1, LeasesStay
<1> QED
  BY <1>1, <1>2, <1>3, <1>4, AdmitLeases, IntendLeases DEF Step, Unsaved

LEMMA NextLeases ==
    ASSUME TInv, LInv, [Next]_vars
    PROVE  LInv'
<1>1. CASE (\E i \in Objects : Close(i)) \/ Load \/ Tick \/ DamageFile \/ UNCHANGED vars
  <2>1. UNCHANGED <<leases, entity, pc>>
    BY <1>1 DEF Close, Load, Tick, DamageFile, vars, processVars, operation
  <2> QED
    BY <2>1, LeasesStay
<1>2. CASE Crash
  <2>1. Leased' = {}
    BY <1>2 DEF Crash, Leased
  <2>2. FewLeases'
    BY <2>1, FS_EmptySet, Numbers DEF FewLeases
  <2>3. HoldsLease'
    BY <1>2 DEF Crash, HoldsLease, Holding
  <2> QED
    BY <2>2, <2>3 DEF LInv
<1> QED
  BY <1>1, <1>2, StepLeases DEF Next

LEMMA InitLeases == Init => LInv
<1> SUFFICES ASSUME Init PROVE LInv
  OBVIOUS
<1>1. Leased = {}
  BY DEF Init, Leased
<1>2. FewLeases
  BY <1>1, FS_EmptySet, Numbers DEF FewLeases
<1>3. HoldsLease
  BY DEF Init, HoldsLease, Holding
<1> QED
  BY <1>2, <1>3 DEF LInv

LEMMA LeasesExclude ==
    ASSUME TInv, LInv
    PROVE  ExclusiveExecution
<1> DEFINE live == {o \in Ops : Executing(o)}
           owner == [o \in live |-> entity[o]]
<1>1. \A o \in live : entity[o] \in Entities /\ leases[entity[o]] = o
  BY DEF Executing, LInv, HoldsLease, Holding
<1>2. \A o, x \in live : entity[o] = entity[x] => o = x
  BY <1>1
<1>3. \A o \in live : entity[o] \in Leased
  BY <1>1, Numbers DEF Leased
<1>4. owner \in Injection(live, Leased)
  <2> HIDE DEF live
  <2> QED
    BY <1>2, <1>3 DEF Injection, IsInjective
<1>5. IsFiniteSet(live) /\ Cardinality(live) <= Cardinality(Leased)
  BY <1>4, FS_Injection DEF LInv, FewLeases
<1>6. Cardinality(live) <= MaxActive
  BY <1>5, Numbers, FS_CardinalityType DEF LInv, FewLeases
<1> QED
  BY <1>2, <1>6 DEF ExclusiveExecution

\* Executions never share an entity and are never more than MaxActive, for any
\* number of lifecycle objects that overlap, tasks that resist their cancellation,
\* cancelled admissions, failed saves and crashes.
THEOREM ExecutionExclusive == Spec => []ExclusiveExecution
<1>1. Init => TInv /\ LInv
  BY InitTypes, InitLeases
<1>2. TInv /\ LInv /\ [Next]_vars => (TInv /\ LInv)'
  BY NextTypes, NextLeases
<1>3. TInv /\ LInv => ExclusiveExecution
  BY LeasesExclude
<1> QED
  BY <1>1, <1>2, <1>3, PTL DEF Spec

---------------------------------------------------------------------------
(* Nothing is stranded.                                                      *)

\* An operation of the lock or of the execution that can take its next step: its
\* second save ends, execute_once returns, or the lock of its object is free.
Advances(o) ==
    \/ pc[o] \in {"admitting", "running", "validated", "called"}
    \/ pc[o] = "returned" /\ Free(object[o])

\* ... or waits for a lock whose holder can.
Attended(o) == Advances(o) \/ \E x \in Ops : lock[object[o]] = x /\ Advances(x)

\* A lease is its operation's, which is not over; an admission that its deadline
\* cancelled keeps it ("leaked"), as the code does.  A registered handle, which
\* makes its entity busy for its object, is that of an execution.
NoneStranded ==
    /\ \A e \in Entities : leases[e] # None =>
         /\ entity[leases[e]] = e
         /\ pc[leases[e]] = "leaked" \/ Attended(leases[e])
    /\ \A o \in registered : Attended(o)

\* Who holds a lease, who holds a lock, whose handle is registered.
LeaseHolder(o, e) == entity[o] = e /\ pc[o] \in Holding \union {"leaked"}

Worked == \A e \in Entities : leases[e] # None => LeaseHolder(leases[e], e)

Locked ==
    \A i \in Objects : lock[i] # None => pc[lock[i]] = "admitting" /\ object[lock[i]] = i

Handles == \A o \in registered : pc[o] \in Holding \ {"admitting"}

WInv == Worked /\ Locked /\ Handles

\* A step that leaves the leases alone and ends no execution.
LEMMA WorkedStays ==
    ASSUME TInv, Worked, UNCHANGED leases,
           \A o \in Ops : pc[o] \in Holding \union {"leaked"} =>
               pc'[o] \in Holding \union {"leaked"} /\ entity'[o] = entity[o]
    PROVE  Worked'
<1>1. leases \in [Entities -> Ops \union {None}]
  BY Parts DEF Control, ProcessTypes
<1> QED
  BY <1>1 DEF Worked, LeaseHolder

\* An operation that gives its lease back may be over.
LEMMA WorkedReleased ==
    ASSUME TInv, Worked, NEW o \in Ops, ReleaseLease(o), UNCHANGED entity,
           NEW point, Goto(o, point)
    PROVE  Worked'
<1> USE Parts DEF Control, ProcessTypes, OperationTypes
<1>1. leases \in [Entities -> Ops \union {None}] /\ pc \in [Ops -> Points]
  OBVIOUS
<1>2. ASSUME NEW e \in Entities, leases'[e] # None
      PROVE  LeaseHolder(leases[e], e)'
  <2>1. leases'[e] = leases[e] /\ LeaseHolder(leases[e], e)
    BY <1>1, <1>2 DEF ReleaseLease, Worked
  <2>2. leases[e] # o
    BY <1>1, <1>2, <2>1, Numbers DEF ReleaseLease, LeaseHolder
  <2>3. pc'[leases[e]] = pc[leases[e]]
    <3>1. leases[e] \in Ops \ {o}
      BY <1>1, <1>2, <2>1, <2>2
    <3> QED
      BY <1>1, <3>1 DEF Goto
  <2> QED
    BY <2>1, <2>3 DEF LeaseHolder
<1> QED
  BY <1>2 DEF Worked

LEMMA AdmitWorked ==
    ASSUME TInv, Worked, NEW o \in Ops, Admit(o)
    PROVE  Worked'
<1> USE Parts DEF Control, ProcessTypes, OperationTypes
<1>1. PICK e \in Entities, i \in Loadeds :
        /\ entity' = [entity EXCEPT ![o] = e]
        /\ \/ leases' = [leases EXCEPT ![e] = o] /\ (Goto(o, "admitting") \/ Goto(o, "leaked"))
           \/ UNCHANGED leases /\ Goto(o, "ended")
  BY DEF Admit
<1>2. /\ pc[o] = "new" /\ leases \in [Entities -> Ops \union {None}] /\ pc \in [Ops -> Points]
      /\ entity \in [Ops -> Entities \union {None}]
  BY DEF Admit
<1>3. \A x \in Ops : pc[x] \in Holding \union {"leaked"} =>
          pc'[x] = pc[x] /\ entity'[x] = entity[x]
  BY <1>1, <1>2 DEF Goto, Holding
<1>4. CASE UNCHANGED leases
  BY <1>3, <1>4, WorkedStays
<1>5. CASE leases' = [leases EXCEPT ![e] = o] /\ (Goto(o, "admitting") \/ Goto(o, "leaked"))
  <2>1. LeaseHolder(o, e)'
    BY <1>1, <1>2, <1>5 DEF Goto, LeaseHolder, Holding
  <2>2. ASSUME NEW y \in Entities \ {e}, leases'[y] # None
        PROVE  LeaseHolder(leases[y], y)'
    <3>1. leases'[y] = leases[y] /\ leases[y] \in Ops
      BY <1>2, <1>5, <2>2
    <3> QED
      BY <1>3, <2>2, <3>1 DEF Worked, LeaseHolder
  <2> QED
    BY <1>2, <1>5, <2>1, <2>2 DEF Worked
<1> QED
  BY <1>1, <1>4, <1>5

LEMMA StepWorked ==
    ASSUME TInv, Worked, NEW o \in Ops, Step(o)
    PROVE  Worked'
<1> USE Parts DEF Control, OperationTypes
<1>1. CASE Refuse(o)
  <2>1. PICK e \in Entities : entity' = [entity EXCEPT ![o] = e]
    BY <1>1 DEF Refuse
  <2>2. pc[o] = "new" /\ UNCHANGED leases /\ Goto(o, "ended")
    BY <1>1 DEF Refuse
  <2>3. \A x \in Ops : pc[x] \in Holding \union {"leaked"} =>
            pc'[x] \in Holding \union {"leaked"} /\ entity'[x] = entity[x]
    BY <2>1, <2>2 DEF Goto, Holding
  <2> QED
    BY <2>2, <2>3, WorkedStays
<1>2. CASE Intend(o)
  <2>1. /\ UNCHANGED entity /\ pc[o] = "admitting"
        /\ \/ UNCHANGED leases /\ (Goto(o, "running") \/ Goto(o, "leaked"))
           \/ ReleaseLease(o) /\ Goto(o, "ended")
    BY <1>2 DEF Intend, operation
  <2>2. CASE UNCHANGED leases /\ (Goto(o, "running") \/ Goto(o, "leaked"))
    <3>1. \A x \in Ops : pc[x] \in Holding \union {"leaked"} =>
              pc'[x] \in Holding \union {"leaked"} /\ entity'[x] = entity[x]
      BY <2>1, <2>2 DEF Goto, Holding
    <3> QED
      BY <2>2, <3>1, WorkedStays
  <2> QED
    BY <2>1, <2>2, WorkedReleased
<1>3. CASE Validate(o) \/ Dispatch(o) \/ Return(o) \/ RunPublishes(o)
  <2>1. UNCHANGED <<leases, entity>>
    BY <1>3 DEF Validate, Dispatch, Return, RunPublishes, processVars, operation
  <2>2. \/ \E point \in Holding : Goto(o, point)
        \/ pc[o] = "late" /\ Goto(o, "ended")
    BY <1>3 DEF Validate, Dispatch, Return, RunPublishes, Holding
  <2>3. \A x \in Ops : pc[x] \in Holding \union {"leaked"} => pc'[x] \in Holding \union {"leaked"}
    BY <2>2 DEF Goto, Holding
  <2> QED
    BY <2>1, <2>3, WorkedStays
<1>4. CASE FinishRun(o) \/ KilledByClose(o)
  <2>1. ReleaseLease(o) /\ UNCHANGED entity
    BY <1>4 DEF FinishRun, KilledByClose, ReleaseHandle, operation
  <2>2. PICK point \in {"late", "ended", "killed"} : Goto(o, point)
    BY <1>4 DEF FinishRun, KilledByClose
  <2> QED
    BY <2>1, <2>2, WorkedReleased
<1>5. CASE ClientGone(o) \/ PersistMarker(o) \/ WatchdogFires(o) \/ WatchdogPublishes(o)
           \/ Unsaved(o) \/ RevokeSaved(o)
  <2>1. UNCHANGED <<leases, entity, pc>>
    BY <1>5 DEF ClientGone, PersistMarker, WatchdogFires, WatchdogPublishes, Unsaved, RevokeSaved,
         ResponseDone, ResponsePending, PendingAnswered, ResponseRevoke, HttpCancelled,
         processVars, operation
  <2> QED
    BY <2>1, WorkedStays
<1> QED
  BY <1>1, <1>2, <1>3, <1>4, <1>5, AdmitWorked DEF Step, Unsaved

\* The lock is taken by an admission that is between its saves, and given back with
\* the second one; nothing else moves an operation to "admitting" or away from it.
LEMMA StepLocked ==
    ASSUME TInv, Locked, NEW o \in Ops, Step(o)
    PROVE  Locked'
<1> USE Parts DEF Control, ProcessTypes, OperationTypes
<1>1. /\ lock \in [Objects -> Ops \union {None}] /\ pc \in [Ops -> Points]
      /\ object \in [Ops -> Objects] /\ None \notin Ops
  BY Numbers
<1>2. CASE Refuse(o) \/ Admit(o)
  <2>1. PICK i \in Loadeds :
          /\ object' = [object EXCEPT ![o] = i]
          /\ pc[o] = "new"
          /\ \/ lock' = [lock EXCEPT ![i] = o] /\ Goto(o, "admitting")
             \/ UNCHANGED lock /\ \E point \in Points : Goto(o, point)
    BY <1>2 DEF Refuse, Admit, Points
  <2>2. \A x \in Ops \ {o} : pc'[x] = pc[x] /\ object'[x] = object[x]
    BY <1>1, <2>1 DEF Goto
  <2>3. \A j \in Objects : lock[j] # o
    BY <1>1, <2>1 DEF Locked
  <2> QED
    BY <1>1, <2>1, <2>2, <2>3 DEF Locked, Goto
<1>3. CASE Intend(o)
  <2>1. /\ lock' = [lock EXCEPT ![object[o]] = None] /\ UNCHANGED object
        /\ \E point \in Points : Goto(o, point)
    BY <1>3 DEF Intend, operation, Points
  <2>2. \A x \in Ops \ {o} : pc'[x] = pc[x]
    BY <1>1, <2>1 DEF Goto
  <2>3. \A j \in Objects : lock'[j] # None => lock'[j] = lock[j] /\ lock[j] \in Ops \ {o}
    BY <1>1, <2>1 DEF Locked
  <2> QED
    BY <2>1, <2>2, <2>3 DEF Locked
<1>4. CASE Validate(o) \/ Dispatch(o) \/ Return(o) \/ RunPublishes(o) \/ FinishRun(o)
           \/ KilledByClose(o)
  <2>1. UNCHANGED <<lock, object>> /\ pc[o] # "admitting" /\ \E point \in Points : Goto(o, point)
    BY <1>4 DEF Validate, Dispatch, Return, RunPublishes, FinishRun, KilledByClose, Alive,
       processVars, operation, Points
  <2>2. \A x \in Ops : pc[x] = "admitting" => pc'[x] = "admitting"
    BY <1>1, <2>1 DEF Goto
  <2> QED
    BY <1>1, <2>1, <2>2 DEF Locked
<1>5. CASE ClientGone(o) \/ PersistMarker(o) \/ WatchdogFires(o) \/ WatchdogPublishes(o)
           \/ Unsaved(o) \/ RevokeSaved(o)
  <2>1. UNCHANGED <<lock, object, pc>>
    BY <1>5 DEF ClientGone, PersistMarker, WatchdogFires, WatchdogPublishes, Unsaved, RevokeSaved,
         ResponseDone, ResponsePending, PendingAnswered, ResponseRevoke, HttpCancelled,
         processVars, operation
  <2> QED
    BY <2>1 DEF Locked
<1> QED
  BY <1>2, <1>3, <1>4, <1>5 DEF Step, Unsaved

LEMMA StepHandles ==
    ASSUME TInv, Handles, NEW o \in Ops, Step(o)
    PROVE  Handles'
<1> USE Parts DEF Control, OperationTypes
<1>1. pc \in [Ops -> Points] /\ registered \subseteq Ops
  OBVIOUS
<1>2. CASE Refuse(o) \/ Admit(o)
  <2>1. UNCHANGED registered /\ pc[o] = "new" /\ \E point \in Points : Goto(o, point)
    BY <1>2 DEF Refuse, Admit, handleVars, Points
  <2> QED
    BY <1>1, <2>1 DEF Handles, Goto, Holding
<1>3. CASE Intend(o)
  <2>1. /\ pc[o] = "admitting"
        /\ \/ registered' = registered \union {o} /\ Goto(o, "running")
           \/ UNCHANGED registered /\ \E point \in Points : Goto(o, point)
    BY <1>3 DEF Intend, Points
  <2> QED
    BY <1>1, <2>1 DEF Handles, Goto, Holding
<1>4. CASE Validate(o) \/ Dispatch(o) \/ Return(o) \/ RunPublishes(o)
  <2>1. UNCHANGED registered
    BY <1>4 DEF Validate, Dispatch, Return, RunPublishes, handleVars
  <2>2. \/ \E point \in Holding \ {"admitting"} : Goto(o, point)
        \/ pc[o] = "late" /\ Goto(o, "ended")
    BY <1>4 DEF Validate, Dispatch, Return, RunPublishes, Holding
  <2> QED
    BY <1>1, <2>1, <2>2 DEF Handles, Goto, Holding
<1>5. CASE FinishRun(o) \/ KilledByClose(o)
  <2>1. registered' = registered \ {o} /\ \E point \in Points : Goto(o, point)
    BY <1>5 DEF FinishRun, KilledByClose, ReleaseHandle, Points
  <2> QED
    BY <1>1, <2>1 DEF Handles, Goto
<1>6. CASE ClientGone(o) \/ PersistMarker(o) \/ WatchdogFires(o) \/ WatchdogPublishes(o)
           \/ Unsaved(o) \/ RevokeSaved(o)
  <2>1. UNCHANGED <<registered, pc>>
    BY <1>6 DEF ClientGone, PersistMarker, WatchdogFires, WatchdogPublishes, Unsaved, RevokeSaved,
         ResponseDone, ResponsePending, PendingAnswered, ResponseRevoke, HttpCancelled,
         handleVars, unresponsive
  <2> QED
    BY <2>1 DEF Handles
<1> QED
  BY <1>2, <1>3, <1>4, <1>5, <1>6 DEF Step, Unsaved

LEMMA NextWorked ==
    ASSUME TInv, WInv, [Next]_vars
    PROVE  WInv'
<1>1. CASE (\E i \in Objects : Close(i)) \/ Load \/ Tick \/ DamageFile \/ UNCHANGED vars
  <2>1. UNCHANGED <<leases, entity, object, lock, registered, pc>>
    BY <1>1 DEF Close, Load, Tick, DamageFile, vars, processVars, operation, handleVars
  <2> QED
    BY <2>1 DEF WInv, Worked, LeaseHolder, Locked, Handles
<1>2. CASE Crash
  BY <1>2 DEF Crash, WInv, Worked, Locked, Handles
<1> QED
  BY <1>1, <1>2, StepWorked, StepLocked, StepHandles DEF Next, WInv

\* A finished execution waits for nothing but an admission that is being saved.
LEMMA HoldersAttended ==
    ASSUME TInv, WInv, NEW o \in Ops, pc[o] \in Holding
    PROVE  Attended(o)
<1>1. object[o] \in Objects /\ lock[object[o]] \in Ops \union {None}
  BY Parts DEF Control, ProcessTypes, OperationTypes
<1>2. CASE Free(object[o])
  BY <1>2 DEF Holding, Attended, Advances
<1>3. CASE ~Free(object[o])
  <2>1. lock[object[o]] \in Ops /\ pc[lock[object[o]]] = "admitting"
    BY <1>1, <1>3 DEF Free, WInv, Locked
  <2> QED
    BY <2>1 DEF Attended, Advances
<1> QED
  BY <1>2, <1>3

\* The safety half of EntityEventuallyFree, for any number of commands, objects,
\* crashes, failed saves and cancelled admissions: whoever holds an entity's lease, or
\* keeps it busy with a handle, is an operation that can go on, or that waits for the
\* lock of its object while its holder can go on.  Only an admission that its deadline
\* cancelled in one of its two saves keeps a lease that nobody is left to give back.
THEOREM LeasesAttended == Spec => []NoneStranded
<1>1. Init => TInv /\ WInv
  <2>1. Init => WInv
    BY DEF Init, WInv, Worked, Locked, Handles
  <2> QED
    BY <2>1, InitTypes
<1>2. TInv /\ WInv /\ [Next]_vars => (TInv /\ WInv)'
  BY NextTypes, NextWorked
<1>3. TInv /\ WInv => NoneStranded
  <2> SUFFICES ASSUME TInv, WInv PROVE NoneStranded
    OBVIOUS
  <2>1. leases \in [Entities -> Ops \union {None}] /\ registered \subseteq Ops
    BY Parts DEF Control, ProcessTypes, OperationTypes
  <2>2. \A e \in Entities : leases[e] # None =>
          /\ entity[leases[e]] = e
          /\ pc[leases[e]] = "leaked" \/ Attended(leases[e])
    BY <2>1, HoldersAttended DEF WInv, Worked, LeaseHolder
  <2>3. \A o \in registered : Attended(o)
    BY <2>1, HoldersAttended DEF WInv, Handles
  <2> QED
    BY <2>2, <2>3 DEF NoneStranded
<1> QED
  BY <1>1, <1>2, <1>3, PTL DEF Spec

---------------------------------------------------------------------------
(* Answers and the promise.                                                  *)

\* The ways of an operation after its admission that tell its client nothing.
Moves(o) ==
    \/ pc'[o] = pc[o]
    \/ /\ pc[o] \notin {"new", "admitting", "ended", "killed", "leaked", "lost"}
       /\ pc'[o] \notin {"new", "admitting"}
       /\ pc'[o] = "late" => o \in released

LEMMA AnswersStay ==
    ASSUME RInv, UNCHANGED <<http, answer, crossed, revoked, released, sent>>,
           \A o \in Ops : Moves(o),
           \A o \in Ops : watchdog'[o] = "callback" => watchdog[o] = "callback" \/ o \in released
    PROVE  RInv'
<1>1. SentCrossed'
  BY DEF RInv, SentCrossed
<1>2. Unstarted'
  BY DEF RInv, Unstarted, Moves
<1>3. AnsweredOver'
  BY DEF RInv, AnsweredOver, Moves
<1>4. Requests'
  BY DEF RInv, Requests
<1>5. LateReceipts'
  BY DEF RInv, LateReceipts, Moves
<1> QED
  BY <1>1, <1>2, <1>3, <1>4, <1>5 DEF RInv

\* The shapes the proofs about answers look at.
Shapes ==
    /\ pc \in [Ops -> Points]
    /\ watchdog \in [Ops -> {"none", "sleeping", "callback"}]
    /\ http \in [Ops -> {"none", "waiting", "persisting", "revoking", "leaving", "over"}]
    /\ answer \in [Ops -> {"none", "not_sent", "result", "pending", "unknown"}]

LEMMA ShapesHold == TInv => Shapes
  BY Parts DEF Control, OperationTypes, RequestTypes, Shapes

LEMMA RefuseAnswers ==
    ASSUME Shapes, RInv, NEW o \in Ops, Refuse(o) \/ Admit(o)
    PROVE  RInv'
<1>1. /\ pc[o] = "new"
      /\ UNCHANGED <<crossed, revoked, released, sent, watchdog>>
      /\ \/ /\ Goto(o, "ended") \/ Goto(o, "leaked")
            /\ NotAdmitted(o)
         \/ Goto(o, "admitting") /\ UNCHANGED <<http, answer>>
  BY DEF Refuse, Admit, handleVars, watchVars, httpVars
<1> USE DEF Shapes, Goto, NotAdmitted, RInv
<1>2. SentCrossed'
  BY <1>1 DEF SentCrossed
<1>3. Unstarted'
  BY <1>1 DEF Unstarted
<1>4. AnsweredOver'
  BY <1>1 DEF AnsweredOver
<1>5. Requests'
  BY <1>1 DEF Requests
<1>6. LateReceipts'
  BY <1>1 DEF LateReceipts, Unstarted
<1> QED
  BY <1>2, <1>3, <1>4, <1>5, <1>6

LEMMA IntendAnswers ==
    ASSUME Shapes, RInv, NEW o \in Ops, Intend(o)
    PROVE  RInv'
<1>1. /\ pc[o] = "admitting"
      /\ UNCHANGED <<crossed, revoked, released, sent>>
      /\ \/ /\ Goto(o, "running")
            /\ http' = [http EXCEPT ![o] = IF @ = "none" THEN "waiting" ELSE @]
            /\ UNCHANGED answer
            /\ watchdog' = [watchdog EXCEPT ![o] = "sleeping"]
         \/ /\ Goto(o, "ended") \/ Goto(o, "leaked")
            /\ NotAdmitted(o)
            /\ UNCHANGED watchdog
  BY DEF Intend, watchVars
<1> USE DEF Shapes, Goto, NotAdmitted, RInv
<1>2. SentCrossed'
  BY <1>1 DEF SentCrossed
<1>3. Unstarted'
  BY <1>1 DEF Unstarted
<1>4. AnsweredOver'
  BY <1>1 DEF AnsweredOver, Unstarted
<1>5. Requests'
  BY <1>1 DEF Requests, Unstarted
<1>6. LateReceipts'
  BY <1>1 DEF LateReceipts, Unstarted
<1> QED
  BY <1>2, <1>3, <1>4, <1>5, <1>6

LEMMA ClientGoneAnswers ==
    ASSUME Shapes, RInv, NEW o \in Ops, ClientGone(o)
    PROVE  RInv'
<1>1. /\ pc[o] = "admitting" /\ http' = [http EXCEPT ![o] = "over"]
      /\ UNCHANGED <<crossed, revoked, released, sent, answer, watchdog, pc>>
  BY DEF ClientGone, handleVars, watchVars
<1> USE DEF Shapes, RInv
<1>2. SentCrossed'
  BY <1>1 DEF SentCrossed
<1>3. Unstarted'
  BY <1>1 DEF Unstarted
<1>4. AnsweredOver'
  BY <1>1 DEF AnsweredOver
<1>5. Requests'
  BY <1>1 DEF Requests
<1>6. LateReceipts'
  BY <1>1 DEF LateReceipts
<1> QED
  BY <1>2, <1>3, <1>4, <1>5, <1>6

LEMMA DispatchAnswers ==
    ASSUME Shapes, RInv, NEW o \in Ops, Dispatch(o)
    PROVE  RInv'
<1>1. /\ pc[o] = "validated" /\ o \notin revoked
      /\ Goto(o, "called")
      /\ crossed' = crossed \union {o} /\ sent' = sent \union {o}
      /\ UNCHANGED <<revoked, released, answer, http, watchdog>>
  BY DEF Dispatch, httpVars, watchVars
<1> USE DEF Shapes, Goto, RInv
<1>2. SentCrossed'
  BY <1>1 DEF SentCrossed
<1>3. Unstarted'
  BY <1>1 DEF Unstarted
<1>4. AnsweredOver'
  BY <1>1 DEF AnsweredOver
<1>5. Requests'
  BY <1>1 DEF Requests
<1>6. LateReceipts'
  BY <1>1 DEF LateReceipts
<1> QED
  BY <1>2, <1>3, <1>4, <1>5, <1>6

\* What a step of the request changes, and when.
LEMMA RequestChanges ==
    ASSUME NEW o \in Ops, Unsaved(o) \/ RevokeSaved(o)
    PROVE  /\ UNCHANGED <<crossed, sent, watchdog, pc>>
           /\ \/ /\ http[o] = "waiting" /\ pc[o] \in {"ended", "killed"}
                 /\ HttpStep(o, "over")
                 /\ UNCHANGED <<revoked, released>>
                 /\ \/ UNCHANGED answer
                    \/ \E kind \in {"not_sent", "result"} : Answered(o, kind)
              \/ /\ http[o] = "waiting" /\ o \in crossed
                 /\ released' = released \union {o}
                 /\ HttpStep(o, "persisting") \/ HttpStep(o, "over")
                 /\ UNCHANGED <<revoked, answer>>
              \/ /\ http[o] = "persisting"
                 /\ HttpStep(o, "over")
                 /\ \E kind \in {"pending", "unknown"} : Answered(o, kind)
                 /\ UNCHANGED <<revoked, released>>
              \/ /\ http[o] = "waiting" /\ o \notin crossed
                 /\ revoked' = revoked \union {o}
                 /\ HttpStep(o, "revoking") \/ HttpStep(o, "leaving")
                 /\ UNCHANGED <<released, answer>>
              \/ /\ http[o] \in {"revoking", "leaving"}
                 /\ HttpStep(o, "over")
                 /\ Answered(o, "not_sent") \/ UNCHANGED answer
                 /\ UNCHANGED <<revoked, released>>
<1>1. CASE ResponseDone(o)
  BY <1>1 DEF ResponseDone, unresponsive, watchVars
<1>2. CASE ResponsePending(o)
  BY <1>2 DEF ResponsePending, unresponsive, watchVars
<1>3. CASE PendingAnswered(o)
  BY <1>3 DEF PendingAnswered, unresponsive, watchVars
<1>4. CASE ResponseRevoke(o)
  BY <1>4 DEF ResponseRevoke, unresponsive, watchVars
<1>5. CASE HttpCancelled(o)
  BY <1>5 DEF HttpCancelled, unresponsive, watchVars
<1>6. CASE RevokeSaved(o)
  BY <1>6 DEF RevokeSaved, unresponsive, watchVars
<1> QED
  BY <1>1, <1>2, <1>3, <1>4, <1>5, <1>6 DEF Unsaved

LEMMA RequestAnswers ==
    ASSUME Shapes, RInv, NEW o \in Ops, Unsaved(o) \/ RevokeSaved(o)
    PROVE  RInv'
<1> USE RequestChanges DEF Shapes, RInv, HttpStep, Answered
<1>1. SentCrossed'
  BY DEF SentCrossed
<1>2. Unstarted'
  BY DEF Unstarted
<1>3. AnsweredOver'
  BY DEF AnsweredOver, Requests
<1>4. Requests'
  BY DEF Requests
<1>5. LateReceipts'
  BY DEF LateReceipts, Requests
<1> QED
  BY <1>1, <1>2, <1>3, <1>4, <1>5

LEMMA CrashAnswers ==
    ASSUME Shapes, RInv, Crash
    PROVE  RInv'
<1>1. /\ pc' = [o \in Ops |-> IF pc[o] \in {"new", "ended", "killed"} THEN pc[o]
                             ELSE "lost"]
      /\ released' = {}
      /\ watchdog' = [o \in Ops |-> "none"]
      /\ http' = [o \in Ops |-> IF http[o] = "none" THEN "none" ELSE "over"]
      /\ UNCHANGED <<crossed, answer, sent>>
  BY DEF Crash
<1> USE DEF Shapes, RInv
<1>2. SentCrossed'
  BY <1>1 DEF SentCrossed
<1>3. Unstarted'
  BY <1>1 DEF Unstarted
<1>4. AnsweredOver'
  BY <1>1 DEF AnsweredOver, Unstarted
<1>5. Requests'
  BY <1>1 DEF Requests
<1>6. LateReceipts'
  BY <1>1 DEF LateReceipts
<1> QED
  BY <1>2, <1>3, <1>4, <1>5, <1>6

\* The steps that are silent for the promise but for a lease that is given back or a
\* late receipt.
Silent ==
    \/ \E o \in Ops : \/ Validate(o) \/ PersistMarker(o) \/ Return(o) \/ FinishRun(o)
                      \/ KilledByClose(o) \/ WatchdogFires(o) \/ RunPublishes(o)
                      \/ WatchdogPublishes(o)
    \/ \E i \in Objects : Close(i)
    \/ Load \/ Tick \/ DamageFile \/ UNCHANGED vars

LEMMA SilentRun ==
    ASSUME Shapes, NEW o \in Ops, Validate(o) \/ Return(o) \/ FinishRun(o) \/ KilledByClose(o)
    PROVE  /\ UNCHANGED <<http, answer, crossed, revoked, released, sent>>
           /\ \A x \in Ops : Moves(x)
           /\ \A x \in Ops : watchdog'[x] = "callback" => watchdog[x] = "callback"
<1>1. UNCHANGED <<http, answer, crossed, revoked, released, sent>>
  BY DEF Validate, Return, FinishRun, KilledByClose, httpVars, handleVars
<1>2. /\ pc[o] \notin {"new", "admitting", "ended", "killed", "leaked", "lost"}
      /\ \E point \in {"validated", "returned", "late", "ended", "killed"} :
           Goto(o, point) /\ (point = "late" => o \in released)
  BY DEF Validate, Return, FinishRun, KilledByClose, Alive
<1>3. \A x \in Ops : Moves(x)
  BY <1>2 DEF Shapes, Goto, Moves
<1>4. UNCHANGED watchdog \/ watchdog' = [watchdog EXCEPT ![o] = "none"]
  BY DEF Validate, Return, FinishRun, KilledByClose, ReleaseHandle, watchVars
<1> QED
  BY <1>1, <1>3, <1>4 DEF Shapes

LEMMA SilentAnswers ==
    ASSUME Shapes, RInv, Silent
    PROVE  RInv'
<1>1. ASSUME NEW o \in Ops, Validate(o) \/ Return(o) \/ FinishRun(o) \/ KilledByClose(o)
      PROVE  RInv'
  BY <1>1, SilentRun, AnswersStay
<1>2. ASSUME NEW o \in Ops, PersistMarker(o) \/ WatchdogFires(o) \/ WatchdogPublishes(o)
      PROVE  RInv'
  <2>1. UNCHANGED <<http, answer, crossed, revoked, released, sent, pc>>
    BY <1>2 DEF PersistMarker, WatchdogFires, WatchdogPublishes, httpVars, handleVars
  <2>2. \A x \in Ops : watchdog'[x] = "callback" => watchdog[x] = "callback" \/ x \in released
    BY <1>2 DEF PersistMarker, WatchdogFires, WatchdogPublishes, watchVars, Shapes
  <2> QED
    BY <2>1, <2>2, AnswersStay DEF Moves
<1>3. ASSUME NEW o \in Ops, RunPublishes(o)
      PROVE  RInv'
  <2>1. UNCHANGED <<http, answer, crossed, revoked, released, sent, watchdog>>
    BY <1>3 DEF RunPublishes, httpVars, handleVars, watchVars
  <2>2. \A x \in Ops : Moves(x)
    BY <1>3 DEF RunPublishes, Goto, Shapes, Moves
  <2> QED
    BY <2>1, <2>2, AnswersStay
<1>4. CASE (\E i \in Objects : Close(i)) \/ Load \/ Tick \/ DamageFile \/ UNCHANGED vars
  <2>1. UNCHANGED <<http, answer, crossed, revoked, released, sent, pc>>
    BY <1>4 DEF Close, Load, Tick, DamageFile, vars, httpVars, handleVars
  <2>2. \A x \in Ops : watchdog'[x] = "callback" => watchdog[x] = "callback"
    BY <1>4 DEF Close, Load, Tick, DamageFile, vars, watchVars, Shapes
  <2> QED
    BY <2>1, <2>2, AnswersStay DEF Moves
<1> QED
  BY <1>1, <1>2, <1>3, <1>4 DEF Silent

\* Every step is one of those above.
LEMMA Steps ==
    ASSUME [Next]_vars
    PROVE  \/ Silent
           \/ Crash
           \/ \E o \in Ops : \/ Refuse(o) \/ Admit(o) \/ Intend(o) \/ ClientGone(o)
                             \/ Dispatch(o) \/ Unsaved(o) \/ RevokeSaved(o)
<1>1. ASSUME NEW o \in Ops, Step(o)
      PROVE  \/ Silent
             \/ \/ Refuse(o) \/ Admit(o) \/ Intend(o) \/ ClientGone(o)
                \/ Dispatch(o) \/ Unsaved(o) \/ RevokeSaved(o)
  BY <1>1 DEF Step, Silent, Unsaved
<1> QED
  BY <1>1 DEF Next, Silent

LEMMA NextAnswers ==
    ASSUME TInv, RInv, [Next]_vars
    PROVE  RInv'
  BY Steps, ShapesHold, SilentAnswers, CrashAnswers, RefuseAnswers, IntendAnswers,
     ClientGoneAnswers, DispatchAnswers, RequestAnswers

LEMMA InitAnswers == Init => RInv
  BY DEF Init, RInv, SentCrossed, Unstarted, AnsweredOver, Requests, LateReceipts

---------------------------------------------------------------------------
(* The steps of the promise.                                                 *)

LEMMA SilentPromise ==
    ASSUME TInv, RInv, Silent
    PROVE  [Promise!Next]_Promise!vars
<1> USE ShapesHold
<1>1. ASSUME NEW o \in Ops, FinishRun(o) \/ KilledByClose(o)
      PROVE  [Promise!Next]_Promise!vars
  <2>1. UNCHANGED <<answer, sent, published>> /\ ReleaseLease(o)
    BY <1>1 DEF FinishRun, KilledByClose, ReleaseHandle, httpVars
  <2>2. entity[o] \in Entities \union {None}
    BY DEF TInv, TypeOK
  <2> QED
    BY <2>1, <2>2 DEF ReleaseLease, Promise!Next, Promise!Release, Promise!vars
<1>2. ASSUME NEW o \in Ops, RunPublishes(o) \/ WatchdogPublishes(o)
      PROVE  [Promise!Next]_Promise!vars
  <2>1. UNCHANGED <<leases, sent, answer>> /\ PublishLate(o)
    BY <1>2 DEF RunPublishes, WatchdogPublishes, processVars, httpVars
  <2>2. o \in sent /\ answer[o] \in {"none", "pending", "unknown"}
    BY <1>2 DEF RunPublishes, WatchdogPublishes, RInv, LateReceipts, SentCrossed
  <2>3. UNCHANGED published \/ (o \notin published /\ published' = published \union {o})
    BY <2>1 DEF PublishLate, MayRecord
  <2> QED
    BY <2>1, <2>2, <2>3 DEF Promise!Next, Promise!Receipt, Promise!vars
<1>3. ASSUME \/ \E o \in Ops : Validate(o) \/ PersistMarker(o) \/ Return(o) \/ WatchdogFires(o)
             \/ \E i \in Objects : Close(i)
             \/ Load \/ Tick \/ DamageFile \/ UNCHANGED vars
      PROVE  [Promise!Next]_Promise!vars
  <2>1. UNCHANGED <<leases, answer, sent, published>>
    BY <1>3 DEF Validate, PersistMarker, Return, WatchdogFires, Close, Load, Tick, DamageFile, vars,
       processVars, httpVars
  <2> QED
    BY <2>1 DEF Promise!vars
<1> QED
  BY <1>1, <1>2, <1>3 DEF Silent

LEMMA AdmitPromise ==
    ASSUME TInv, RInv, NEW o \in Ops, Refuse(o) \/ Admit(o)
    PROVE  [Promise!Next]_Promise!vars
<1>1. Shapes /\ pc[o] = "new" /\ UNCHANGED <<sent, published>>
  BY ShapesHold DEF Refuse, Admit
<1>2. answer[o] = "none" /\ http[o] = "none" /\ o \notin sent
  BY <1>1 DEF RInv, Unstarted, SentCrossed
<1>3. CASE UNCHANGED leases /\ NotAdmitted(o)
  <2>1. answer' = [answer EXCEPT ![o] = "not_sent"]
    BY <1>2, <1>3 DEF NotAdmitted
  <2>2. Promise!Tell(o)
    BY <1>1, <1>2, <1>3, <2>1 DEF Promise!Tell
  <2> QED
    BY <2>2 DEF Promise!Next
<1>4. ASSUME NEW e \in Entities, leases[e] = None, leases' = [leases EXCEPT ![e] = o],
             UNCHANGED answer \/ NotAdmitted(o)
      PROVE  [Promise!Next]_Promise!vars
  <2>1. UNCHANGED answer \/ answer' = [answer EXCEPT ![o] = "not_sent"]
    BY <1>2, <1>4 DEF NotAdmitted
  <2>2. Promise!Take(o, e)
    BY <1>1, <1>4, <2>1 DEF Promise!Take
  <2> QED
    BY <2>2 DEF Promise!Next
<1>5. CASE Refuse(o)
  BY <1>3, <1>5 DEF Refuse
<1>6. CASE Admit(o)
  <2>1. PICK e \in Entities, i \in Loadeds :
          /\ ~Busy(i, e)
          /\ \/ leases' = [leases EXCEPT ![e] = o] /\ (UNCHANGED httpVars \/ NotAdmitted(o))
             \/ UNCHANGED leases /\ NotAdmitted(o)
    BY <1>6 DEF Admit
  <2>2. leases[e] = None
    BY <2>1, NotBusy
  <2> QED
    BY <1>3, <1>4, <2>1, <2>2 DEF httpVars
<1> QED
  BY <1>5, <1>6

LEMMA IntendPromise ==
    ASSUME TInv, LInv, RInv, NEW o \in Ops, Intend(o)
    PROVE  [Promise!Next]_Promise!vars
<1>1. Shapes /\ pc[o] = "admitting" /\ UNCHANGED <<sent, published>>
  BY ShapesHold DEF Intend
<1>2. answer[o] = "none" /\ o \notin sent /\ entity[o] \in Entities /\ leases[entity[o]] = o
  BY <1>1 DEF RInv, Unstarted, SentCrossed, LInv, HoldsLease, Holding
<1>3. \/ UNCHANGED <<leases, answer>>
      \/ NotAdmitted(o) /\ (UNCHANGED leases \/ leases' = [leases EXCEPT ![entity[o]] = None])
  BY DEF Intend, ReleaseLease
<1>4. UNCHANGED answer \/ answer' = [answer EXCEPT ![o] = "not_sent"]
  BY <1>1, <1>3 DEF NotAdmitted, Shapes
<1>5. CASE UNCHANGED <<leases, answer>>
  BY <1>1, <1>5 DEF Promise!vars
<1>6. CASE UNCHANGED answer /\ leases' = [leases EXCEPT ![entity[o]] = None]
  BY <1>1, <1>2, <1>6 DEF Promise!Next, Promise!Release
<1>7. CASE answer' = [answer EXCEPT ![o] = "not_sent"]
           /\ (UNCHANGED leases \/ leases' = [leases EXCEPT ![entity[o]] = None])
  <2>1. Promise!Tell(o)
    BY <1>1, <1>2, <1>7 DEF Promise!Tell
  <2> QED
    BY <2>1 DEF Promise!Next
<1> QED
  BY <1>3, <1>4, <1>5, <1>6, <1>7

LEMMA DispatchPromise ==
    ASSUME TInv, LInv, RInv, NEW o \in Ops, Dispatch(o)
    PROVE  [Promise!Next]_Promise!vars
<1>1. /\ pc[o] = "validated" /\ o \notin revoked /\ o \notin crossed
      /\ sent' = sent \union {o} /\ UNCHANGED <<leases, answer, published>>
  BY DEF Dispatch, processVars, httpVars
<1>2. answer[o] = "none" /\ o \notin sent /\ entity[o] \in Entities /\ leases[entity[o]] = o
  BY <1>1 DEF RInv, AnsweredOver, SentCrossed, LInv, HoldsLease, Holding
<1>3. Promise!Send(o)
  BY <1>1, <1>2 DEF Promise!Send
<1> QED
  BY <1>3 DEF Promise!Next

LEMMA RequestPromise ==
    ASSUME TInv, RInv, NEW o \in Ops, Unsaved(o) \/ RevokeSaved(o)
    PROVE  [Promise!Next]_Promise!vars
<1>1. UNCHANGED <<leases, sent, published>>
  BY DEF Unsaved, ResponseDone, ResponsePending, PendingAnswered, ResponseRevoke, HttpCancelled,
     RevokeSaved, processVars
<1>2. CASE UNCHANGED answer
  BY <1>1, <1>2 DEF Promise!vars
<1>3. CASE answer' # answer
  <2>1. /\ http[o] \in {"waiting", "persisting", "revoking"}
        /\ \E kind \in {"not_sent", "result", "pending", "unknown"} :
             /\ answer' = [answer EXCEPT ![o] = kind]
             /\ kind = "not_sent" => o \notin crossed
             /\ kind \in {"pending", "unknown"} => http[o] = "persisting"
    <3>1. CASE ResponseDone(o)
      BY <1>3, <3>1 DEF ResponseDone, Answered
    <3>2. CASE PendingAnswered(o)
      BY <1>3, <3>2 DEF PendingAnswered, Answered
    <3>3. CASE RevokeSaved(o)
      BY <1>3, <3>3 DEF RevokeSaved, Answered, RInv, Requests
    <3>4. CASE ResponsePending(o) \/ ResponseRevoke(o) \/ HttpCancelled(o)
      BY <1>3, <3>4 DEF ResponsePending, ResponseRevoke, HttpCancelled
    <3> QED
      BY <3>1, <3>2, <3>3, <3>4 DEF Unsaved
  <2>2. answer[o] = "none" /\ (http[o] = "persisting" => o \in crossed)
    BY <2>1 DEF RInv, Requests
  <2>3. Promise!Tell(o)
    BY <1>1, <2>1, <2>2 DEF Promise!Tell, RInv, SentCrossed
  <2> QED
    BY <2>3 DEF Promise!Next
<1> QED
  BY <1>2, <1>3

LEMMA NextPromise ==
    ASSUME TInv, LInv, RInv, [Next]_vars
    PROVE  [Promise!Next]_Promise!vars
<1>1. CASE Crash
  BY <1>1 DEF Crash, Promise!Next, Promise!Restart
<1>2. ASSUME NEW o \in Ops, ClientGone(o)
      PROVE  [Promise!Next]_Promise!vars
  BY <1>2 DEF ClientGone, processVars, Promise!vars
<1> QED
  BY <1>1, <1>2, Steps, SilentPromise, AdmitPromise, IntendPromise, DispatchPromise, RequestPromise

\* The lifecycle implements SafeCommandPromise: only the holder of an entity's lease
\* sends, once and never after its client was told "not sent"; every client is told
\* one thing, the truth about sending; and a late receipt is published once at most.
THEOREM PromiseKept == Spec => KeepsPromise
<1>1. Init => IInv
  BY InitTypes, InitLeases, InitAnswers DEF IInv
<1>2. IInv /\ [Next]_vars => IInv'
  BY NextTypes, NextLeases, NextAnswers DEF IInv
<1>3. IInv /\ [Next]_vars => [Promise!Next]_Promise!vars
  BY NextPromise DEF IInv
<1>4. Init => Promise!Init
  BY DEF Init, Promise!Init
<1> QED
  BY <1>1, <1>2, <1>3, <1>4, PTL DEF Spec, KeepsPromise, Promise!Spec

---------------------------------------------------------------------------
(* The quarantine after a crash.                                             *)

\* The generations of an image's records were taken from its counter.
Bounded(p) == \A y \in Ops : p.gen[y] <= p.next

GenBound ==
    /\ \A i \in Objects : Bounded(mem[i])
    /\ \A file \in {disk.cur, disk.prev} : Valid(file) => Bounded(file)

ObjectOrder == first <= latest + 1 /\ \A o \in Ops : object[o] <= latest

\* Without a process nothing goes on.
Down ==
    first > latest =>
        /\ marker = {}
        /\ \A o \in Ops : /\ pc[o] \in {"new", "ended", "killed", "lost"}
                          /\ watchdog[o] = "none"
                          /\ http[o] \in {"none", "over"}

\* How far an operation is, and whether its call was made and answered.
Stages ==
    /\ marker \subseteq crossed
    /\ \A o \in Ops :
         /\ pc[o] \in {"new", "admitting", "running", "validated", "leaked"} => o \notin crossed
         /\ pc[o] = "called" => o \in crossed
         /\ pc[o] \in {"returned", "late"} => outcome[o] # "none"
         /\ pc[o] # "new" => entity[o] \in Entities

\* No task of an earlier process is left.
Gone ==
    \A o \in Ops : pc[o] = "lost" =>
        /\ o \notin marker \union registered \union completed
        /\ watchdog[o] = "none"
        /\ http[o] \in {"none", "over"}

\* The record of an operation, the newest of its entity.
Recorded(p, x) ==
    /\ p.entity[x] = entity[x]
    /\ p.expires[x] = expires[x]
    /\ \A y \in Ops \ {x} : p.entity[y] = entity[x] => p.gen[y] < p.gen[x]

AdmittedRecord ==
    \A o \in Ops : pc[o] = "admitting" /\ object[o] = latest => Recorded(mem[latest], o)

\* The record says that its call may have been made.
Known(p, x) ==
    /\ Recorded(p, x)
    /\ p.phase[x] \in {"dispatch_intent", "observing", "dispatch_unknown"}

\* The call may be made, is being made, or was lost in its observation window.
Owing(x) ==
    \/ pc[x] \in {"running", "validated"} /\ x \notin revoked /\ object[x] \notin closed
    \/ pc[x] = "called"
    \/ pc[x] = "lost" /\ x \in sent /\ outcome[x] = "none" /\ now < expires[x]

Quarantined(x) ==
    /\ mem[latest].phase[x] = "dispatch_unknown"
    /\ quarantine[latest][entity[x]] = expires[x]

Covered ==
    damage = 0 => \A x \in Ops : Owing(x) =>
        /\ Valid(disk.cur) /\ Known(disk.cur, x)
        /\ first <= latest => Known(mem[latest], x)
        /\ pc[x] = "lost" /\ first <= latest => Quarantined(x)

QInv ==
    /\ GenBound /\ ObjectOrder /\ Down /\ Stages /\ Gone /\ AdmittedRecord /\ Covered

\* A process runs whenever an operation makes a step.
LEMMA Awake ==
    ASSUME TInv, Down, Stages, NEW o \in Ops, Step(o)
    PROVE  first <= latest
<1>2. first \in Nat /\ latest \in Nat
  BY Parts, Numbers DEF Control, ProcessTypes, Objects
<1>1. CASE Refuse(o) \/ Admit(o)
  <2>1. PICK i \in Loadeds : TRUE
    BY <1>1 DEF Refuse, Admit
  <2> QED
    BY <1>2, <2>1 DEF Loadeds
<1>3. CASE Intend(o) \/ ClientGone(o) \/ Validate(o) \/ Dispatch(o) \/ Return(o) \/ FinishRun(o)
           \/ KilledByClose(o) \/ RunPublishes(o)
  BY <1>2, <1>3 DEF Down, Intend, ClientGone, Validate, Dispatch, Return, FinishRun, KilledByClose,
     Alive, RunPublishes
<1>4. CASE PersistMarker(o) \/ WatchdogFires(o) \/ WatchdogPublishes(o)
  BY <1>2, <1>4 DEF Down, PersistMarker, WatchdogFires, WatchdogPublishes
<1>5. CASE Unsaved(o) \/ RevokeSaved(o)
  BY <1>2, <1>5, RequestChanges DEF Down
<1> QED
  BY <1>1, <1>3, <1>4, <1>5 DEF Step, Unsaved

LEMMA StepStages ==
    ASSUME TInv, Stages, NEW o \in Ops, Step(o)
    PROVE  Stages'
<1> USE ShapesHold DEF Stages, Shapes, Goto
<1>1. outcome \in [Ops -> Outcomes] /\ entity \in [Ops -> Entities \union {None}]
  BY DEF TInv, TypeOK
<1>2. CASE Refuse(o) \/ Admit(o)
  BY <1>1, <1>2 DEF Refuse, Admit, handleVars
<1>3. CASE Intend(o)
  BY <1>3 DEF Intend, operation
<1>4. CASE ClientGone(o) \/ Unsaved(o) \/ RevokeSaved(o)
  <2>1. UNCHANGED <<marker, crossed, pc, outcome, entity>>
    BY <1>4 DEF ClientGone, handleVars, Unsaved, ResponseDone, ResponsePending, PendingAnswered,
       ResponseRevoke, HttpCancelled, RevokeSaved, unresponsive, operation
  <2> QED
    BY <2>1
<1>5. CASE PersistMarker(o) \/ WatchdogFires(o) \/ WatchdogPublishes(o)
  <2>1. marker' \subseteq marker /\ UNCHANGED <<crossed, pc, outcome, entity>>
    BY <1>5 DEF PersistMarker, WatchdogFires, WatchdogPublishes, handleVars, operation
  <2> QED
    BY <2>1
<1>6. CASE Validate(o) \/ Dispatch(o)
  BY <1>6 DEF Validate, Dispatch, handleVars, operation
<1>7. CASE Return(o)
  BY <1>1, <1>7 DEF Return, operation
<1>8. CASE FinishRun(o) \/ KilledByClose(o) \/ RunPublishes(o)
  <2>1. UNCHANGED <<marker, crossed, outcome, entity>>
    BY <1>8 DEF FinishRun, KilledByClose, RunPublishes, handleVars, operation
  <2>2. pc[o] # "new" /\ (Goto(o, "ended") \/ Goto(o, "killed") \/ (Goto(o, "late") /\ pc[o] = "returned"))
    BY <1>8 DEF FinishRun, KilledByClose, Alive, RunPublishes
  <2> QED
    BY <2>1, <2>2
<1> QED
  BY <1>2, <1>3, <1>4, <1>5, <1>6, <1>7, <1>8 DEF Step, Unsaved

LEMMA StepGone ==
    ASSUME TInv, Gone, NEW o \in Ops, Step(o)
    PROVE  Gone'
<1> USE ShapesHold DEF Gone, Shapes, Goto
<1>1. CASE Refuse(o) \/ Admit(o)
  BY <1>1 DEF Refuse, Admit, handleVars, NotAdmitted, watchVars, httpVars
<1>2. CASE Intend(o)
  BY <1>2 DEF Intend, ReleaseLease, NotAdmitted, watchVars
<1>3. CASE ClientGone(o)
  BY <1>3 DEF ClientGone, processVars, handleVars, watchVars
<1>4. CASE Validate(o) \/ Dispatch(o) \/ Return(o) \/ RunPublishes(o)
  BY <1>4 DEF Validate, Dispatch, Return, RunPublishes, processVars, handleVars, watchVars, httpVars
<1>5. CASE FinishRun(o) \/ KilledByClose(o)
  BY <1>5 DEF FinishRun, KilledByClose, ReleaseHandle, ReleaseLease, Alive, httpVars
<1>6. CASE PersistMarker(o) \/ WatchdogFires(o) \/ WatchdogPublishes(o)
  BY <1>6 DEF PersistMarker, WatchdogFires, WatchdogPublishes, processVars, handleVars, watchVars,
     httpVars
<1>7. CASE Unsaved(o) \/ RevokeSaved(o)
  <2>1. UNCHANGED <<marker, registered, completed, watchdog, pc>>
    BY <1>7 DEF Unsaved, ResponseDone, ResponsePending, PendingAnswered,
       ResponseRevoke, HttpCancelled, RevokeSaved, unresponsive, processVars, watchVars
  <2>2. \A x \in Ops : pc[x] = "lost" => http'[x] = http[x]
    BY <1>7, RequestChanges DEF HttpStep
  <2> QED
    BY <2>1, <2>2
<1> QED
  BY <1>1, <1>2, <1>3, <1>4, <1>5, <1>6, <1>7 DEF Step, Unsaved

---------------------------------------------------------------------------
(* Records that a step writes.                                               *)

\* The image q of object i is in memory, and in the files if i is the newest object
\* and its save, whatever it answered, was written.
InFiles(i, ps) ==
    \/ disk' = disk
    \/ /\ i = latest
       /\ disk'.cur \in {disk.cur} \union ps
       /\ disk'.prev \in {disk.cur, disk.prev} \union ps

Writes(i, q) == mem' = [mem EXCEPT ![i] = q] /\ InFiles(i, {q})

LEMMA WhereWritten ==
    ASSUME disk \in Disks, NEW i, NEW p, NEW q,
           \/ Attempt(i, p) \/ OpenAttempt(i, p) \/ SaveCancelled(i, p)
           \/ BudgetExhausted(i, p, q)
    PROVE  InFiles(i, {p, q}) /\ (~BudgetExhausted(i, p, q) => InFiles(i, {p}))
<1> USE DEF InFiles, Disks
<1>1. CASE BudgetExhausted(i, p, q)
  <2>1. i = latest /\ disk' \in SaveAcks(Saved(disk, p), q) \union SaveFailures(Saved(disk, p), q)
    BY <1>1 DEF BudgetExhausted
  <2>2. disk'.cur \in {p, q} /\ disk'.prev \in {disk.cur, disk.prev, p}
    BY <2>1 DEF SaveAcks, SaveFailures, Saved, BackedUp
  <2> QED
    BY <1>1, <2>1, <2>2
<1>2. CASE Attempt(i, p) \/ OpenAttempt(i, p) \/ SaveCancelled(i, p)
  <2>1. disk' = disk \/ (i = latest /\ disk' \in SaveAcks(disk, p) \union SaveFailures(disk, p))
    BY <1>2 DEF Attempt, OpenAttempt, OpenSaveOk, OpenSaveRaises, SaveOk, SaveRaises, SaveCancelled
  <2>2. CASE disk' = disk
    BY <2>2
  <2>3. CASE i = latest /\ disk' \in SaveAcks(disk, p) \union SaveFailures(disk, p)
    <3>1. disk'.cur \in {disk.cur, p} /\ disk'.prev \in {disk.cur, disk.prev}
      BY <2>3 DEF SaveAcks, SaveFailures, Saved, BackedUp
    <3> QED
      BY <2>3, <3>1
  <2> QED
    BY <2>1, <2>2, <2>3
<1> QED
  BY <1>1, <1>2

\* The same records with other phases: no record of a call that is owed loses it.
Rewrites(p, q) ==
    /\ q \in Payloads
    /\ q.next = p.next /\ q.entity = p.entity /\ q.gen = p.gen /\ q.expires = p.expires
    /\ \A x \in Ops : Owing(x)' =>
         \/ q.phase[x] = p.phase[x]
         \/ pc[x] # "lost" /\ q.phase[x] \in {"observing", "dispatch_unknown"}

LEMMA PhaseRewrites ==
    ASSUME NEW p \in Payloads, NEW o \in Ops,
           NEW phase \in ActivePhases \union TerminalPhases \union {"none"},
           Owing(o)' => pc[o] # "lost" /\ phase \in {"observing", "dispatch_unknown"}
    PROVE  Rewrites(p, [p EXCEPT !.phase[o] = phase])
<1> DEFINE q == [p EXCEPT !.phase[o] = phase]
<1>1. q \in Payloads /\ q.next = p.next
  BY PhaseFits
<1>2. q.entity = p.entity /\ q.gen = p.gen /\ q.expires = p.expires
      /\ q.phase[o] = phase /\ \A x \in Ops \ {o} : q.phase[x] = p.phase[x]
  BY DEF Payloads
<1> HIDE DEF q
<1>3. \A x \in Ops : Owing(x)' => \/ q.phase[x] = p.phase[x]
                                  \/ pc[x] # "lost" /\ q.phase[x] \in {"observing", "dispatch_unknown"}
  BY <1>2
<1>4. Rewrites(p, q)
  BY <1>1, <1>2, <1>3 DEF Rewrites
<1> QED
  BY <1>4 DEF q

LEMMA RewrittenKnown ==
    ASSUME NEW p, NEW q, NEW x \in Ops, Known(p, x), Rewrites(p, q), Owing(x)'
    PROVE  /\ Known(q, x)
           /\ pc[x] = "lost" => q.phase[x] = p.phase[x]
  BY DEF Known, Recorded, Rewrites

LEMMA Finite == TInv => first \in Nat /\ latest \in Objects /\ damage \in Nat
  BY Parts, Numbers DEF Control, ProcessTypes, RequestTypes

\* A step that changes phases, or nothing, of the records.
Rewriting ==
    /\ UNCHANGED <<first, latest, quarantine, entity, expires, object>>
    /\ damage' = 0 => damage = 0
    /\ \/ UNCHANGED <<disk, mem>>
       \/ /\ first <= latest
          /\ \E i \in Objects, q \in Payloads : Writes(i, q) /\ Rewrites(mem[i], q)
    /\ \A x \in Ops : Owing(x)' => Owing(x) /\ (pc'[x] = "lost" => pc[x] = "lost")
    /\ \A x \in Ops : pc'[x] = "admitting" => pc[x] = "admitting"

LEMMA RewritingCovers ==
    ASSUME TInv, GenBound, AdmittedRecord, Covered, Rewriting
    PROVE  GenBound' /\ AdmittedRecord' /\ Covered'
<1> USE Finite
<1>1. CASE UNCHANGED <<disk, mem>>
  <2>1. GenBound'
    BY <1>1 DEF GenBound, Bounded
  <2>2. AdmittedRecord'
    BY <1>1 DEF AdmittedRecord, Recorded, Rewriting
  <2>3. Covered'
    BY <1>1 DEF Covered, Known, Recorded, Quarantined, Rewriting
  <2> QED
    BY <2>1, <2>2, <2>3
<1>2. ASSUME first <= latest, NEW i \in Objects, NEW q \in Payloads, Writes(i, q), Rewrites(mem[i], q)
      PROVE  GenBound' /\ AdmittedRecord' /\ Covered'
  <2>1. mem \in [Objects -> Payloads] /\ disk \in Disks
    BY DEF TInv, TypeOK
  <2>2. Bounded(q) /\ q.gen = mem[i].gen /\ q.entity = mem[i].entity /\ q.expires = mem[i].expires
    BY <1>2 DEF Rewrites, GenBound, Bounded
  <2>3. GenBound'
    <3>1. \A x \in Objects : Bounded(mem'[x])
      BY <1>2, <2>1, <2>2 DEF Writes, GenBound
    <3>2. disk'.cur \in {disk.cur, disk.prev, q} /\ disk'.prev \in {disk.cur, disk.prev, q}
      BY <1>2 DEF Writes, InFiles
    <3>3. \A file \in {disk'.cur, disk'.prev} : Valid(file) => Bounded(file)
      BY <2>2, <3>2 DEF GenBound
    <3> QED
      BY <3>1, <3>3 DEF GenBound, Bounded
  <2>4. AdmittedRecord'
    <3>1. mem'[latest].gen = mem[latest].gen /\ mem'[latest].entity = mem[latest].entity
          /\ mem'[latest].expires = mem[latest].expires
      BY <1>2, <2>1, <2>2 DEF Writes
    <3> QED
      BY <3>1 DEF AdmittedRecord, Recorded, Rewriting
  <2>5. ASSUME damage' = 0, NEW x \in Ops, Owing(x)'
        PROVE  /\ Valid(disk'.cur) /\ Known(disk.cur, x)'
               /\ Known(mem[latest], x)'
               /\ pc'[x] = "lost" => Quarantined(x)'
    <3>1. /\ Valid(disk.cur) /\ Known(disk.cur, x) /\ Known(mem[latest], x)
          /\ pc'[x] = "lost" => pc[x] = "lost" /\ Quarantined(x)
          /\ entity'[x] = entity[x] /\ expires'[x] = expires[x]
      BY <1>2, <2>5 DEF Covered, Rewriting
    <3>2. i = latest => Known(q, x) /\ (pc[x] = "lost" => q.phase[x] = mem[latest].phase[x])
      BY <1>2, <2>5, <3>1, RewrittenKnown
    <3>3. mem'[latest] = IF i = latest THEN q ELSE mem[latest]
      BY <1>2, <2>1 DEF Writes
    <3>4. disk'.cur = disk.cur \/ (i = latest /\ disk'.cur = q)
      BY <1>2 DEF Writes, InFiles
    <3>5. Valid(disk'.cur)
      BY <1>2, <3>1, <3>4 DEF Valid
    <3>6. Known(disk.cur, x)' /\ Known(mem[latest], x)'
      BY <3>1, <3>2, <3>3, <3>4 DEF Known, Recorded, Rewriting
    <3>7. pc'[x] = "lost" => Quarantined(x)'
      BY <3>1, <3>2, <3>3 DEF Quarantined, Rewriting
    <3> QED
      BY <3>5, <3>6, <3>7
  <2>6. Covered'
    BY <2>5 DEF Covered
  <2> QED
    BY <2>3, <2>4, <2>6
<1> QED
  BY <1>1, <1>2 DEF Rewriting

LEMMA QuietRewriting ==
    ASSUME TInv, NEW o \in Ops,
           ClientGone(o) \/ Validate(o) \/ Dispatch(o) \/ Return(o) \/ KilledByClose(o) \/ Unsaved(o)
    PROVE  Rewriting
<1> USE ShapesHold DEF Shapes, Goto
<1>1. CASE ClientGone(o) \/ Unsaved(o)
  <2>1. UNCHANGED <<disk, mem, first, latest, quarantine, entity, expires, object, damage, pc, now,
                    closed, sent, outcome>>
    BY <1>1 DEF ClientGone, Unsaved, ResponseDone, ResponsePending, PendingAnswered, ResponseRevoke,
       HttpCancelled, processVars, operation, counters, handleVars, unresponsive
  <2>2. revoked \subseteq revoked'
    BY <1>1 DEF ClientGone, Unsaved, ResponseDone, ResponsePending, PendingAnswered, ResponseRevoke,
       HttpCancelled, handleVars
  <2> QED
    BY <2>1, <2>2 DEF Rewriting, Owing
<1>2. CASE Validate(o) \/ Dispatch(o) \/ Return(o) \/ KilledByClose(o)
  <2>1. UNCHANGED <<disk, mem, first, latest, quarantine, entity, expires, object, damage, now,
                    closed, revoked>>
    BY <1>2 DEF Validate, Dispatch, Return, KilledByClose, processVars, operation, counters, handleVars
  <2>2. \A x \in Ops : Owing(x)' => Owing(x) /\ (pc'[x] = "lost" => pc[x] = "lost")
    <3>1. CASE Validate(o)
      BY <2>1, <3>1 DEF Validate, Owing, handleVars
    <3>2. CASE Dispatch(o)
      BY <2>1, <3>2 DEF Dispatch, Owing
    <3>3. CASE Return(o)
      BY <2>1, <3>3 DEF Return, Owing
    <3>4. CASE KilledByClose(o)
      BY <2>1, <3>4 DEF KilledByClose, Owing
    <3> QED
      BY <1>2, <3>1, <3>2, <3>3, <3>4
  <2>3. \A x \in Ops : pc'[x] = "admitting" => pc[x] = "admitting"
    BY <1>2 DEF Validate, Dispatch, Return, KilledByClose
  <2> QED
    BY <2>1, <2>2, <2>3 DEF Rewriting
<1> QED
  BY <1>1, <1>2

\* A step that saves the phase of one operation.
LEMMA PhaseWrites ==
    ASSUME TInv, NEW o \in Ops,
           NEW phase \in ActivePhases \union TerminalPhases \union {"none"},
           Attempt(object[o], WithPhase(o, phase)) \/ OpenAttempt(object[o], WithPhase(o, phase)),
           Remember(o, WithPhase(o, phase)),
           Owing(o)' => pc[o] # "lost" /\ phase \in {"observing", "dispatch_unknown"}
    PROVE  \E i \in Objects, q \in Payloads : Writes(i, q) /\ Rewrites(mem[i], q)
<1> DEFINE i == object[o]
           q == WithPhase(o, phase)
<1>1. i \in Objects /\ mem[i] \in Payloads /\ disk \in Disks
  BY DEF TInv, TypeOK
<1>2. q \in Payloads
  BY <1>1, PhaseFits DEF WithPhase
<1>3. Rewrites(mem[i], q)
  BY <1>1, PhaseRewrites DEF WithPhase
<1>4. mem' = [mem EXCEPT ![i] = q]
  BY DEF Remember
<1> HIDE DEF i, q
<1>5. Attempt(i, q) \/ OpenAttempt(i, q)
  BY DEF i, q
<1>6. InFiles(i, {q, q})
  BY <1>1, <1>5, WhereWritten
<1>7. Writes(i, q)
  <2>1. {q, q} = {q}
    OBVIOUS
  <2> QED
    BY <1>4, <1>6, <2>1 DEF Writes
<1> QED
  BY <1>1, <1>2, <1>3, <1>7

LEMMA LateWrites ==
    ASSUME TInv, NEW o \in Ops, PublishLate(o)
    PROVE  \/ UNCHANGED <<disk, mem>>
           \/ \E i \in Objects, q \in Payloads : Writes(i, q) /\ Rewrites(mem[i], q)
<1> DEFINE i == object[o]
           q == [mem[object[o]] EXCEPT !.late[o] = TRUE]
<1>1. i \in Objects /\ mem[i] \in Payloads /\ disk \in Disks
  BY DEF TInv, TypeOK
<1>2. q \in Payloads
  BY <1>1, LateFits
<1>3. Rewrites(mem[i], q)
  BY <1>1, <1>2 DEF Rewrites, Payloads
<1>4. CASE Remember(o, q) /\ Attempt(i, q)
  <2>1. mem' = [mem EXCEPT ![i] = q]
    BY <1>4 DEF Remember
  <2> HIDE DEF q
  <2>2. InFiles(i, {q, q}) /\ {q, q} = {q}
    BY <1>1, <1>4, WhereWritten
  <2>3. Writes(i, q)
    BY <2>1, <2>2 DEF Writes
  <2> QED
    BY <1>1, <1>2, <1>3, <2>3
<1> QED
  BY <1>4 DEF PublishLate, Attempt

LEMMA SavingRewriting ==
    ASSUME TInv, RInv, QInv, NEW o \in Ops,
           PersistMarker(o) \/ FinishRun(o) \/ WatchdogFires(o) \/ RunPublishes(o)
             \/ WatchdogPublishes(o) \/ RevokeSaved(o)
    PROVE  Rewriting
<1> USE ShapesHold DEF Shapes, Goto
<1>1. first <= latest
  BY Awake DEF QInv, Step
<1>2. UNCHANGED <<first, latest, quarantine, entity, expires, object, damage, now, closed, sent,
                  revoked, outcome>>
  BY DEF PersistMarker, FinishRun, WatchdogFires, RunPublishes, WatchdogPublishes, RevokeSaved,
     processVars, operation, handleVars, unresponsive
<1>3. UNCHANGED pc \/ pc' = [pc EXCEPT ![o] = "ended"] \/ pc' = [pc EXCEPT ![o] = "late"]
  BY DEF PersistMarker, FinishRun, WatchdogFires, RunPublishes, WatchdogPublishes, RevokeSaved
<1>4. \A x \in Ops : Owing(x)' => Owing(x) /\ (pc'[x] = "lost" => pc[x] = "lost")
  BY <1>2, <1>3 DEF Owing
<1>5. \A x \in Ops : pc'[x] = "admitting" => pc[x] = "admitting"
  BY <1>3
<1>6. \/ UNCHANGED <<disk, mem>>
      \/ \E i \in Objects, q \in Payloads : Writes(i, q) /\ Rewrites(mem[i], q)
  <2>1. CASE PersistMarker(o)
    <3>1. pc[o] # "lost"
      BY <2>1 DEF PersistMarker, QInv, Gone
    <3>2. CASE /\ Remember(o, WithPhase(o, "observing"))
               /\ Attempt(object[o], WithPhase(o, "observing"))
      BY <3>1, <3>2, PhaseWrites DEF ActivePhases
    <3> QED
      BY <2>1, <3>2 DEF PersistMarker, Attempt
  <2>2. CASE FinishRun(o)
    <3>1. ~ Owing(o)'
      BY <2>2 DEF FinishRun, Owing
    <3>2. FinalPhase(o) \in ActivePhases \union TerminalPhases \union {"none"}
      BY DEF FinalPhase, TerminalPhases
    <3>3. CASE /\ Remember(o, WithPhase(o, FinalPhase(o)))
               /\ OpenAttempt(object[o], WithPhase(o, FinalPhase(o)))
      BY <3>1, <3>2, <3>3, PhaseWrites
    <3> QED
      BY <2>2, <3>3 DEF FinishRun, OpenAttempt
  <2>3. CASE WatchdogFires(o)
    <3>1. pc[o] # "lost"
      BY <2>3 DEF WatchdogFires, QInv, Gone
    <3>2. CASE /\ Remember(o, WithPhase(o, "dispatch_unknown"))
               /\ OpenAttempt(object[o], WithPhase(o, "dispatch_unknown"))
      BY <3>1, <3>2, PhaseWrites DEF TerminalPhases
    <3> QED
      BY <2>3, <3>2 DEF WatchdogFires, OpenAttempt
  <2>4. CASE RunPublishes(o) \/ WatchdogPublishes(o)
    BY <2>4, LateWrites DEF RunPublishes, WatchdogPublishes
  <2>5. CASE RevokeSaved(o)
    <3>1. o \in revoked /\ o \notin crossed /\ pc[o] # "lost" /\ pc[o] # "called"
      BY <2>5 DEF RevokeSaved, RInv, Requests, QInv, Gone, Stages
    <3>2. ~ Owing(o)'
      BY <1>2, <2>5, <3>1 DEF RevokeSaved, Owing
    <3>3. CASE /\ Remember(o, WithPhase(o, "failed_before_dispatch"))
               /\ OpenAttempt(object[o], WithPhase(o, "failed_before_dispatch"))
      BY <3>2, <3>3, PhaseWrites DEF TerminalPhases
    <3> QED
      BY <2>5, <3>3 DEF RevokeSaved, OpenAttempt
  <2> QED
    BY <2>1, <2>2, <2>3, <2>4, <2>5
<1> QED
  BY <1>1, <1>2, <1>4, <1>5, <1>6 DEF Rewriting

LEMMA CloseRewriting ==
    ASSUME TInv, QInv, NEW i \in Objects, Close(i)
    PROVE  Rewriting
<1> DEFINE open == {o \in registered : object[o] = i /\ mem[i].phase[o] \in ActivePhases}
           phases == [o \in Ops |-> IF o \notin open THEN mem[i].phase[o]
                                    ELSE IF o \in crossed THEN "dispatch_unknown"
                                    ELSE "failed_before_dispatch"]
           q == [mem[i] EXCEPT !.phase = phases]
<1>1. mem[i] \in Payloads /\ disk \in Disks
  BY DEF TInv, TypeOK
<1>2. mem' = [mem EXCEPT ![i] = q] /\ Attempt(i, q)
  BY DEF Close, Attempt
<1>3. /\ UNCHANGED <<first, latest, quarantine, entity, expires, object, damage, now, sent,
                     revoked, outcome, pc>>
      /\ closed' = closed \union {i} /\ i \in first..latest
  BY DEF Close, operation, Loadeds
<1>4. \A x \in Ops : Owing(x)' => Owing(x) /\ (pc'[x] = "lost" => pc[x] = "lost")
  BY <1>3 DEF Owing
<1>5. phases \in [Ops -> ActivePhases \union TerminalPhases \union {"none"}]
  BY <1>1 DEF Payloads, TerminalPhases
<1>6. q \in Payloads /\ q.next = mem[i].next
  <2> HIDE DEF phases
  <2> QED
    BY <1>1, <1>5, PhasesFit
<1>7. q.entity = mem[i].entity /\ q.gen = mem[i].gen /\ q.expires = mem[i].expires
      /\ q.phase = phases
  <2> HIDE DEF phases
  <2> QED
    BY <1>1 DEF Payloads
<1>8. ASSUME NEW x \in Ops, Owing(x)'
      PROVE  \/ q.phase[x] = mem[i].phase[x]
             \/ pc[x] # "lost" /\ q.phase[x] \in {"observing", "dispatch_unknown"}
  <2>1. CASE x \notin open
    BY <1>7, <2>1
  <2>2. CASE x \in open
    <3>1. object[x] \in closed' /\ pc[x] # "lost" /\ x \in registered
      BY <1>3, <2>2 DEF QInv, Gone
    <3>2. x \in crossed
      BY <1>3, <1>8, <3>1 DEF Owing, QInv, Stages
    <3> QED
      BY <1>7, <2>2, <3>1, <3>2
  <2> QED
    BY <2>1, <2>2
<1> HIDE DEF q
<1>9. Rewrites(mem[i], q)
  BY <1>6, <1>7, <1>8 DEF Rewrites
<1>10. Writes(i, q)
  <2>1. InFiles(i, {q, q}) /\ {q, q} = {q}
    BY <1>1, <1>2, WhereWritten
  <2> QED
    BY <1>2, <2>1 DEF Writes
<1>11. first <= latest
  BY <1>3, Finite, Numbers DEF Objects
<1> QED
  BY <1>3, <1>4, <1>6, <1>9, <1>10, <1>11 DEF Rewriting

---------------------------------------------------------------------------
(* The steps that admit, begin, load, crash and damage.                      *)

CoveredOne(x) ==
    /\ Valid(disk.cur) /\ Known(disk.cur, x)
    /\ first <= latest => Known(mem[latest], x)
    /\ pc[x] = "lost" /\ first <= latest => Quarantined(x)

LEMMA BoundsKept ==
    ASSUME TInv, GenBound, NEW i \in Objects, NEW ps, \A p \in ps : Bounded(p),
           NEW q, Bounded(q), mem' = [mem EXCEPT ![i] = q], InFiles(i, ps)
    PROVE  GenBound'
<1>1. \A x \in Objects : Bounded(mem'[x])
  BY DEF GenBound, TInv, TypeOK
<1>2. disk'.cur \in {disk.cur, disk.prev} \union ps /\ disk'.prev \in {disk.cur, disk.prev} \union ps
  BY DEF InFiles
<1>3. \A file \in {disk'.cur, disk'.prev} : Valid(file) => Bounded(file)
  BY <1>2 DEF GenBound
<1> QED
  BY <1>1, <1>3 DEF GenBound, Bounded

\* An operation that the step is not about keeps its record.
LEMMA CoverKept ==
    ASSUME TInv, NEW x \in Ops, CoveredOne(x), first <= latest, UNCHANGED <<first, latest>>,
           entity'[x] = entity[x], expires'[x] = expires[x],
           pc'[x] = "lost" => pc[x] = "lost",
           NEW i \in Objects, NEW ps \in SUBSET Payloads, NEW q \in Payloads,
           mem' = [mem EXCEPT ![i] = q], InFiles(i, ps),
           i = latest => \A p \in ps \union {q} :
                           /\ Known(p, x)
                           /\ pc[x] = "lost" => p.phase[x] = mem[latest].phase[x],
           pc[x] = "lost" => quarantine'[latest][entity[x]] = quarantine[latest][entity[x]]
    PROVE  CoveredOne(x)'
<1>1. mem'[latest] = IF i = latest THEN q ELSE mem[latest]
  BY DEF TInv, TypeOK
<1>2. disk'.cur = disk.cur \/ (i = latest /\ disk'.cur \in ps)
  BY DEF InFiles
<1>3. Valid(disk'.cur)
  BY <1>2 DEF CoveredOne, Valid
<1>4. Known(disk'.cur, x) /\ Known(mem'[latest], x)
  BY <1>1, <1>2 DEF CoveredOne
<1>5. Known(disk.cur, x)' /\ Known(mem[latest], x)'
  BY <1>4 DEF Known, Recorded
<1>6. pc'[x] = "lost" => Quarantined(x)'
  BY <1>1 DEF Quarantined, CoveredOne
<1> QED
  BY <1>3, <1>5, <1>6 DEF CoveredOne

\* The quarantine of a lost call is neither lifted nor pruned in its window.
LEMMA QuarantineHolds ==
    ASSUME TInv, Gone, NEW x \in Ops, pc[x] = "lost", now < expires[x],
           Known(mem[latest], x), Quarantined(x), entity[x] \in Entities
    PROVE  /\ StillQuarantined(latest, entity[x])
           /\ \A e : Pruned(latest, e)[entity[x]] = quarantine[latest][entity[x]]
<1>1. x \notin completed
  BY DEF Gone
<1>2. mem[latest].gen \in [Ops -> Nat]
  BY Finite, Numbers DEF TInv, TypeOK, Payloads, Generations
<1>3. now \in Nat /\ expires[x] \in Nat
  BY Numbers DEF TInv, TypeOK, Times
<1>4. quarantine[latest][entity[x]] > now
  BY <1>3 DEF Quarantined
<1>5. ~ \E o \in {o \in Ops : /\ mem[latest].entity[o] = entity[x]
                              /\ mem[latest].phase[o] = "dispatch_unknown"} :
          /\ \A other \in {o2 \in Ops : /\ mem[latest].entity[o2] = entity[x]
                                        /\ mem[latest].phase[o2] = "dispatch_unknown"} :
               mem[latest].gen[other] <= mem[latest].gen[o]
          /\ o \in completed
  BY <1>1, <1>2 DEF Known, Recorded, Quarantined
<1>6. StillQuarantined(latest, entity[x])
  BY <1>4, <1>5 DEF StillQuarantined
<1> QED
  BY <1>4, <1>6 DEF Pruned

LEMMA OwingEntity ==
    ASSUME TInv, LInv, Covered, damage = 0, NEW x \in Ops, Owing(x)
    PROVE  CoveredOne(x) /\ pc[x] # "new" /\ pc[x] # "admitting"
  BY DEF Covered, CoveredOne, Owing

\* An operation that holds a lease, or is quarantined, keeps others off its entity.
LEMMA OwingBusy ==
    ASSUME TInv, LInv, Gone, Covered, damage = 0, first <= latest, NEW x \in Ops, Owing(x),
           NEW e \in Entities, NEW i, ~Busy(i, e), entity[x] = e
    PROVE  i # latest
<1>1. CoveredOne(x)
  BY OwingEntity
<1>2. CASE pc[x] = "lost"
  BY <1>1, <1>2, QuarantineHolds DEF CoveredOne, Owing, Busy
<1>3. CASE pc[x] # "lost"
  <2>1. leases[e] = x
    BY <1>3 DEF Owing, LInv, HoldsLease, Holding
  <2> QED
    BY <2>1, Numbers DEF Busy
<1> QED
  BY <1>2, <1>3

LEMMA RefuseCovers ==
    ASSUME TInv, LInv, QInv, NEW o \in Ops, Refuse(o)
    PROVE  GenBound' /\ AdmittedRecord' /\ Covered' /\ ObjectOrder'
<1> USE Finite
<1>1. PICK e \in Entities, i \in first..latest :
        /\ entity' = [entity EXCEPT ![o] = e]
        /\ object' = [object EXCEPT ![o] = i]
        /\ quarantine' = IF i \in closed \/ Full THEN quarantine
                         ELSE [quarantine EXCEPT ![i] = Pruned(i, e)]
  BY DEF Refuse, Loadeds
<1>2. /\ pc[o] = "new" /\ pc' = [pc EXCEPT ![o] = "ended"]
      /\ UNCHANGED <<disk, mem, first, latest, now, closed, expires, completed, revoked, sent, outcome,
                     damage>>
  BY DEF Refuse, Goto, handleVars, counters
<1>3. i \in Objects /\ i <= latest /\ first <= latest /\ latest \in Nat
  BY <1>1, Numbers DEF Objects
<1>4. pc \in [Ops -> Points] /\ entity \in [Ops -> Entities \union {None}]
      /\ object \in [Ops -> Objects] /\ quarantine \in [Objects -> [Entities -> Times]]
  BY DEF TInv, TypeOK
<1>5. GenBound'
  BY <1>2 DEF QInv, GenBound, Bounded
<1>6. ObjectOrder'
  BY <1>1, <1>2, <1>3, <1>4 DEF QInv, ObjectOrder
<1>7. AdmittedRecord'
  BY <1>1, <1>2, <1>4 DEF QInv, AdmittedRecord, Recorded
<1>8. ASSUME damage' = 0, NEW x \in Ops, Owing(x)'
      PROVE  CoveredOne(x)'
  <2>1. x # o /\ Owing(x) /\ entity'[x] = entity[x] /\ object'[x] = object[x] /\ pc'[x] = pc[x]
    BY <1>1, <1>2, <1>4, <1>8 DEF Owing
  <2>2. CoveredOne(x)
    BY <1>2, <1>8, <2>1, OwingEntity DEF QInv
  <2>3. Known(disk.cur, x)' /\ Known(mem[latest], x)'
    BY <1>2, <1>3, <2>1, <2>2 DEF CoveredOne, Known, Recorded
  <2>4. pc'[x] = "lost" => Quarantined(x)'
    <3>1. SUFFICES ASSUME pc[x] = "lost"
                   PROVE  quarantine'[latest][entity[x]] = quarantine[latest][entity[x]]
      BY <1>2, <1>3, <2>1, <2>2 DEF CoveredOne, Quarantined
    <3>2. entity[x] \in Entities
      BY <3>1 DEF QInv, Stages
    <3>3. Pruned(latest, e)[entity[x]] = quarantine[latest][entity[x]]
      BY <1>3, <2>1, <2>2, <3>1, <3>2, QuarantineHolds DEF QInv, CoveredOne, Owing
    <3> QED
      BY <1>1, <1>4, <3>3
  <2> QED
    BY <1>2, <2>2, <2>3, <2>4 DEF CoveredOne
<1>9. Covered'
  BY <1>8 DEF Covered, CoveredOne
<1> QED
  BY <1>5, <1>6, <1>7, <1>9

\* An admission keeps the records of the other entities.
LEMMA AdmittedKeeps ==
    ASSUME TInv, GenBound, NEW i \in Objects, NEW o \in Ops, NEW e \in Entities,
           NEW x \in Ops, x # o, entity[x] # e, Recorded(mem[i], x)
    PROVE  /\ Recorded(Admitted(i, o, e), x)
           /\ Admitted(i, o, e).phase[x] = mem[i].phase[x]
<1>1. mem[i] \in Payloads
  BY DEF TInv, TypeOK
<1>2. Admitted(i, o, e).phase[x] = mem[i].phase[x]
  BY <1>1 DEF Admitted, Recorded, Payloads
<1>3. /\ Admitted(i, o, e).entity = [mem[i].entity EXCEPT ![o] = e]
      /\ Admitted(i, o, e).gen = [mem[i].gen EXCEPT ![o] = mem[i].next + 1]
      /\ Admitted(i, o, e).expires = [mem[i].expires EXCEPT ![o] = now + Observation]
  BY DEF Admitted
<1>4. Recorded(Admitted(i, o, e), x)
  BY <1>1, <1>3 DEF Recorded, Payloads
<1> QED
  BY <1>2, <1>4

LEMMA AdmittedNewest ==
    ASSUME TInv, GenBound, NEW i \in Objects, NEW o \in Ops, NEW e \in Entities
    PROVE  /\ Bounded(Admitted(i, o, e))
           /\ Admitted(i, o, e).entity[o] = e
           /\ Admitted(i, o, e).expires[o] = now + Observation
           /\ \A y \in Ops \ {o} : Admitted(i, o, e).gen[y] < Admitted(i, o, e).gen[o]
<1>1. mem[i] \in Payloads /\ Bounded(mem[i])
  BY DEF TInv, TypeOK, GenBound
<1>2. /\ Admitted(i, o, e).entity = [mem[i].entity EXCEPT ![o] = e]
      /\ Admitted(i, o, e).gen = [mem[i].gen EXCEPT ![o] = mem[i].next + 1]
      /\ Admitted(i, o, e).expires = [mem[i].expires EXCEPT ![o] = now + Observation]
      /\ Admitted(i, o, e).next = mem[i].next + 1
  BY DEF Admitted
<1>3. mem[i].next \in Nat /\ \A y \in Ops : mem[i].gen[y] \in Nat /\ mem[i].gen[y] <= mem[i].next
  BY <1>1, Numbers DEF Payloads, Generations, Bounded
<1>4. mem[i].gen \in [Ops -> Generations] /\ mem[i].entity \in [Ops -> Entities \union {None}]
      /\ mem[i].expires \in [Ops -> Times]
  BY <1>1 DEF Payloads
<1>5. Bounded(Admitted(i, o, e))
  BY <1>2, <1>3, <1>4 DEF Bounded
<1> QED
  BY <1>2, <1>3, <1>4, <1>5

LEMMA AdmitCovers ==
    ASSUME TInv, LInv, QInv, NEW o \in Ops, Admit(o)
    PROVE  GenBound' /\ AdmittedRecord' /\ Covered' /\ ObjectOrder'
<1> USE Finite
<1>1. PICK e \in Entities, i \in first..latest :
        /\ ~Busy(i, e)
        /\ entity' = [entity EXCEPT ![o] = e]
        /\ object' = [object EXCEPT ![o] = i]
        /\ expires' = [expires EXCEPT ![o] = now + Observation]
        /\ quarantine' = [quarantine EXCEPT ![i] = Pruned(i, e)]
        /\ \/ /\ SaveOk(i, Admitted(i, o, e))
              /\ mem' = [mem EXCEPT ![i] = Admitted(i, o, e)]
              /\ Goto(o, "admitting")
           \/ /\ SaveRaises(i, Admitted(i, o, e))
              /\ mem' = [mem EXCEPT ![i] = [Admitted(i, o, e) EXCEPT
                                              !.phase[o] = "failed_before_dispatch"]]
              /\ Goto(o, "ended")
           \/ /\ SaveCancelled(i, Admitted(i, o, e))
              /\ mem' = [mem EXCEPT ![i] = Admitted(i, o, e)]
              /\ Goto(o, "leaked")
  BY DEF Admit, Loadeds
<1> DEFINE p == Admitted(i, o, e)
           failed == [p EXCEPT !.phase[o] = "failed_before_dispatch"]
<1>2. /\ pc[o] = "new"
      /\ UNCHANGED <<first, latest, now, closed, revoked, sent, outcome, damage>>
  BY DEF Admit, handleVars
<1>3. i \in Objects /\ i <= latest /\ first <= latest /\ latest \in Nat
  BY <1>1, Numbers DEF Objects
<1>4. pc \in [Ops -> Points] /\ entity \in [Ops -> Entities \union {None}] /\ disk \in Disks
      /\ object \in [Ops -> Objects] /\ quarantine \in [Objects -> [Entities -> Times]]
      /\ expires \in [Ops -> Times] /\ mem \in [Objects -> Payloads]
  BY DEF TInv, TypeOK
<1>5. PICK point \in {"admitting", "ended", "leaked"} :
        /\ pc' = [pc EXCEPT ![o] = point]
        /\ point = "admitting" => mem' = [mem EXCEPT ![i] = p] /\ i = latest
  BY <1>1 DEF Goto, SaveOk
<1>6. p \in Payloads /\ failed \in Payloads
  <2>3. \A x \in Ops : pc[x] # "new" => pc'[x] # "new"
    BY <1>4, <1>5
  <2>4. Cardinality(Used') = Cardinality(Used) + 1
    BY <1>2, <1>5, UsedGrows DEF TInv, Goto, Points
  <2>5. Cardinality(Used') \in Generations
    BY <2>3, UsedStays
  <2>6. mem[i] \in Payloads /\ Fits(mem[i])
    BY <1>3, <1>4 DEF TInv, Counted
  <2>7. mem[i].next + 1 \in Generations
    <3>1. mem[i].next \in Nat
      BY <2>6, Numbers DEF Payloads, Generations
    <3> QED
      BY <2>4, <2>5, <2>6, <3>1, UsedFacts, Numbers DEF Fits, Generations
  <2>8. p \in Payloads
    BY <1>3, <2>7, AdmittedFits DEF TInv
  <2> QED
    BY <2>8, PhaseFits DEF TerminalPhases
<1>7. /\ failed.entity = p.entity /\ failed.gen = p.gen /\ failed.expires = p.expires
      /\ failed.next = p.next /\ \A x \in Ops \ {o} : failed.phase[x] = p.phase[x]
  BY <1>6 DEF Payloads
<1>8. /\ Bounded(p) /\ p.entity[o] = e /\ p.expires[o] = now + Observation
      /\ \A y \in Ops \ {o} : p.gen[y] < p.gen[o]
  BY <1>3, AdmittedNewest DEF QInv
<1>9. PICK q \in {p, failed} : mem' = [mem EXCEPT ![i] = q]
  BY <1>1
<1>10. InFiles(i, {p})
  <2>1. {p, p} = {p}
    OBVIOUS
  <2> HIDE DEF p
  <2>2. SaveOk(i, p) \/ SaveRaises(i, p) \/ SaveCancelled(i, p)
    BY <1>1 DEF p
  <2> QED
    BY <1>4, <2>1, <2>2, WhereWritten DEF Attempt
<1>11. \A x \in Ops : x # o /\ entity[x] # e /\ Recorded(mem[i], x) =>
         Recorded(p, x) /\ p.phase[x] = mem[i].phase[x]
  BY <1>3, AdmittedKeeps DEF QInv
<1> HIDE DEF p, failed
<1>12. GenBound'
  <2>1. Bounded(q)
    BY <1>7, <1>8, <1>9 DEF Bounded
  <2> QED
    BY <1>3, <1>8, <1>9, <1>10, <2>1, BoundsKept DEF QInv
<1>13. ObjectOrder'
  BY <1>1, <1>2, <1>3, <1>4 DEF QInv, ObjectOrder
<1>14. AdmittedRecord'
  <2> SUFFICES ASSUME NEW x \in Ops, pc'[x] = "admitting", object'[x] = latest
               PROVE  Recorded(mem[latest], x)'
    BY <1>2 DEF AdmittedRecord
  <2>1. CASE x = o
    <3>1. mem'[latest] = p /\ entity'[x] = e /\ expires'[x] = now + Observation
      BY <1>1, <1>3, <1>4, <1>5, <2>1
    <3> QED
      BY <1>2, <1>8, <2>1, <3>1 DEF Recorded
  <2>2. CASE x # o
    <3>1. pc[x] = "admitting" /\ object[x] = latest /\ entity'[x] = entity[x] /\ expires'[x] = expires[x]
      BY <1>1, <1>4, <1>5, <2>2
    <3>2. Recorded(mem[latest], x)
      BY <3>1 DEF QInv, AdmittedRecord
    <3>3. entity[x] # e
      BY <1>1, <3>1, Numbers DEF LInv, HoldsLease, Holding, Busy
    <3>4. i = latest => Recorded(p, x)
      BY <1>11, <2>2, <3>2, <3>3
    <3>5. i = latest => Recorded(q, x)
      BY <1>7, <1>9, <3>4 DEF Recorded
    <3>6. mem'[latest] = IF i = latest THEN q ELSE mem[latest]
      BY <1>4, <1>9
    <3>7. Recorded(mem'[latest], x)
      BY <3>2, <3>5, <3>6
    <3> QED
      BY <1>2, <3>1, <3>7 DEF Recorded
  <2> QED
    BY <2>1, <2>2
<1>15. ASSUME damage' = 0, NEW x \in Ops, Owing(x)'
       PROVE  CoveredOne(x)'
  <2>1. x # o /\ Owing(x) /\ entity'[x] = entity[x] /\ expires'[x] = expires[x] /\ pc'[x] = pc[x]
    <3>1. x # o
      BY <1>4, <1>5, <1>15 DEF Owing
    <3> QED
      BY <1>1, <1>2, <1>4, <1>5, <1>15, <3>1 DEF Owing
  <2>2. CoveredOne(x) /\ entity[x] \in Entities
    BY <1>2, <1>15, <2>1, OwingEntity DEF QInv, Stages
  <2>3. i = latest => entity[x] # e
    BY <1>1, <1>2, <1>3, <1>15, <2>1, OwingBusy DEF QInv
  <2>4. i = latest => Known(p, x) /\ p.phase[x] = mem[latest].phase[x]
    BY <1>3, <1>11, <2>1, <2>2, <2>3 DEF CoveredOne, Known
  <2>5. i = latest => Known(q, x) /\ q.phase[x] = mem[latest].phase[x]
    BY <1>7, <1>9, <2>1, <2>4 DEF Known, Recorded
  <2>6. pc[x] = "lost" => quarantine'[latest][entity[x]] = quarantine[latest][entity[x]]
    <3> SUFFICES ASSUME pc[x] = "lost"
                 PROVE  quarantine'[latest][entity[x]] = quarantine[latest][entity[x]]
      OBVIOUS
    <3>1. Pruned(latest, e)[entity[x]] = quarantine[latest][entity[x]]
      BY <1>3, <2>1, <2>2, QuarantineHolds DEF QInv, CoveredOne, Owing
    <3> QED
      BY <1>1, <1>4, <3>1
  <2>7. q \in Payloads /\ {p} \in SUBSET Payloads
    BY <1>6, <1>9
  <2>8. i = latest => \A r \in {p} \union {q} :
                        Known(r, x) /\ (pc[x] = "lost" => r.phase[x] = mem[latest].phase[x])
    BY <2>4, <2>5
  <2> QED
    BY <1>2, <1>3, <1>9, <1>10, <2>1, <2>2, <2>6, <2>7, <2>8, CoverKept
<1>16. Covered'
  BY <1>15 DEF Covered, CoveredOne
<1> QED
  BY <1>12, <1>13, <1>14, <1>16

LEMMA IntendCovers ==
    ASSUME TInv, LInv, QInv, NEW o \in Ops, Intend(o)
    PROVE  GenBound' /\ AdmittedRecord' /\ Covered' /\ ObjectOrder'
<1> USE Finite
<1> DEFINE i == object[o]
           p == WithPhase(o, "dispatch_intent")
           failed == WithPhase(o, "failed_before_dispatch")
<1>1. /\ pc[o] = "admitting"
      /\ UNCHANGED <<first, latest, now, closed, quarantine, entity, object, expires, revoked, sent,
                     outcome, damage>>
  BY DEF Intend, operation
<1>2. i \in Objects /\ mem \in [Objects -> Payloads] /\ disk \in Disks /\ pc \in [Ops -> Points]
  BY DEF TInv, TypeOK
<1>3. first <= latest
  BY Awake DEF QInv, Step
<1>4. \/ SaveOk(i, p) /\ mem' = [mem EXCEPT ![i] = p] /\ Goto(o, "running")
      \/ /\ SaveRaises(i, p) \/ BudgetExhausted(i, p, failed)
         /\ mem' = [mem EXCEPT ![i] = failed]
         /\ Goto(o, "ended")
      \/ SaveCancelled(i, p) /\ mem' = [mem EXCEPT ![i] = p] /\ Goto(o, "leaked")
  BY DEF Intend, Remember
<1>5. /\ p \in Payloads /\ p.next = mem[i].next
      /\ failed \in Payloads /\ failed.next = mem[i].next
  BY <1>2, PhaseFits DEF WithPhase, ActivePhases, TerminalPhases
<1>6. /\ p.entity = mem[i].entity /\ p.gen = mem[i].gen /\ p.expires = mem[i].expires
      /\ p.phase[o] = "dispatch_intent" /\ \A x \in Ops \ {o} : p.phase[x] = mem[i].phase[x]
      /\ failed.entity = mem[i].entity /\ failed.gen = mem[i].gen
      /\ failed.expires = mem[i].expires
      /\ \A x \in Ops \ {o} : failed.phase[x] = mem[i].phase[x]
  BY <1>2 DEF WithPhase, Payloads
<1> HIDE DEF p, failed
<1>7. InFiles(i, {p, failed}) /\ \E q \in {p, failed} : mem' = [mem EXCEPT ![i] = q]
  BY <1>2, <1>4, WhereWritten DEF Attempt
<1>8. PICK q \in {p, failed} : mem' = [mem EXCEPT ![i] = q]
  BY <1>7
<1>9. GenBound'
  <2>1. Bounded(mem[i])
    BY <1>2 DEF QInv, GenBound
  <2>2. Bounded(p) /\ Bounded(failed)
    BY <1>5, <1>6, <2>1 DEF Bounded
  <2> QED
    BY <1>2, <1>7, <1>8, <2>2, BoundsKept DEF QInv
<1>10. ObjectOrder'
  BY <1>1 DEF QInv, ObjectOrder
<1>11. AdmittedRecord'
  <2>1. mem'[latest].gen = mem[latest].gen /\ mem'[latest].entity = mem[latest].entity
        /\ mem'[latest].expires = mem[latest].expires
    BY <1>2, <1>6, <1>8
  <2>2. \A x \in Ops : pc'[x] = "admitting" => pc[x] = "admitting"
    BY <1>2, <1>4 DEF Goto
  <2> QED
    BY <1>1, <2>1, <2>2 DEF QInv, AdmittedRecord, Recorded
<1>12. ASSUME damage' = 0, NEW x \in Ops, Owing(x)', x # o
       PROVE  CoveredOne(x)'
  <2>1. Owing(x) /\ pc'[x] = pc[x]
    BY <1>1, <1>2, <1>4, <1>12 DEF Owing, Goto
  <2>2. CoveredOne(x)
    BY <1>1, <1>12, <2>1, OwingEntity
       DEF QInv
  <2>3. i = latest => \A r \in {p, failed} \union {q} :
                        Known(r, x) /\ (pc[x] = "lost" => r.phase[x] = mem[latest].phase[x])
    BY <1>3, <1>6, <1>12, <2>2 DEF CoveredOne, Known, Recorded
  <2>4. {p, failed} \in SUBSET Payloads /\ q \in Payloads
    BY <1>5
  <2> QED
    BY <1>1, <1>2, <1>3, <1>7, <1>8, <2>1, <2>2, <2>3, <2>4, CoverKept
<1>13. ASSUME damage' = 0, Owing(o)'
       PROVE  CoveredOne(o)'
  <2>1. SaveOk(i, p) /\ mem' = [mem EXCEPT ![i] = p] /\ pc'[o] = "running"
    BY <1>2, <1>4, <1>13 DEF Owing, Goto
  <2>2. i = latest /\ disk'.cur = p
    <3>1. i = latest /\ disk' = Saved(disk, p)
      BY <2>1 DEF SaveOk, SaveAcks
    <3> QED
      BY <1>2, <3>1 DEF Saved, BackedUp, Disks
  <2>3. Recorded(mem[latest], o)
    BY <1>1, <2>2 DEF QInv, AdmittedRecord
  <2>4. Known(p, o)
    BY <1>6, <2>2, <2>3 DEF Known, Recorded
  <2>5. mem'[latest] = p
    BY <1>2, <2>1, <2>2
  <2>6. Known(disk.cur, o)' /\ Known(mem[latest], o)'
    BY <1>1, <2>2, <2>4, <2>5 DEF Known, Recorded
  <2> QED
    BY <1>5, <2>1, <2>2, <2>6 DEF CoveredOne, Valid
<1>14. Covered'
  BY <1>12, <1>13 DEF Covered, CoveredOne
<1> QED
  BY <1>9, <1>10, <1>11, <1>14

LEMMA LoadCovers ==
    ASSUME TInv, LInv, QInv, Load
    PROVE  QInv'
<1> USE Finite
<1>1. PICK a \in LoadAnswers(disk) :
        /\ a.kind # "error"
        /\ disk' = a.disk
        /\ LET p == LoadedImage(IF a.kind = "value" THEN a.doc ELSE EmptyPayload) IN
             /\ mem' = [mem EXCEPT ![latest + 1] = p]
             /\ quarantine' = [quarantine EXCEPT ![latest + 1] = LoadedQuarantine(p)]
  BY DEF Load
<1> DEFINE q == IF a.kind = "value" THEN a.doc ELSE EmptyPayload
           p == LoadedImage(q)
<1>2. /\ latest < MaxObjects /\ latest' = latest + 1
      /\ UNCHANGED <<first, now, closed, entity, object, expires, revoked, sent, outcome, damage, pc,
                     marker, registered, completed, crossed, watchdog, http>>
  BY DEF Load, operation, handleVars, watchVars, httpVars, counters
<1>3. latest \in Nat /\ latest + 1 \in Objects /\ mem \in [Objects -> Payloads] /\ disk \in Disks
      /\ quarantine \in [Objects -> [Entities -> Times]] /\ object \in [Ops -> Objects]
      /\ MaxObjects \in Nat
  BY <1>2, Numbers DEF TInv, TypeOK, Objects
<1>4. /\ a.disk.cur \in {disk.cur, disk.prev, Absent, Invalid}
      /\ a.disk.prev \in {disk.cur, disk.prev, Absent, Invalid}
      /\ a.kind = "value" => a.doc \in {disk.cur, disk.prev} /\ Valid(a.doc)
  BY <1>1, <1>3, LoadFacts
<1>5. q \in Payloads /\ Bounded(q)
  <2>1. CASE a.kind = "value"
    BY <1>4, <2>1 DEF Valid, QInv, GenBound
  <2>2. CASE a.kind # "value"
    BY <2>2, EmptyFits DEF EmptyPayload, Bounded
  <2> QED
    BY <2>1, <2>2
<1> HIDE DEF q
<1>6. /\ p \in Payloads /\ p.gen = q.gen /\ p.entity = q.entity /\ p.expires = q.expires
      /\ p.next = q.next /\ \A x \in Ops : p.phase[x] = AfterLoad(q.phase[x])
  BY <1>5, LoadedFits DEF LoadedImage, Payloads
<1>7. mem' = [mem EXCEPT ![latest + 1] = p]
      /\ quarantine' = [quarantine EXCEPT ![latest + 1] = LoadedQuarantine(p)]
  BY <1>1 DEF q
<1> HIDE DEF p
<1>8. GenBound'
  <2>1. Bounded(p)
    BY <1>5, <1>6 DEF Bounded
  <2>2. \A x \in Objects : Bounded(mem'[x])
    BY <1>3, <1>7, <2>1 DEF QInv, GenBound
  <2>3. \A file \in {disk'.cur, disk'.prev} : Valid(file) => Bounded(file)
    BY <1>1, <1>4, Numbers DEF QInv, GenBound, Valid
  <2> QED
    BY <2>2, <2>3 DEF GenBound, Bounded
<1>9. ObjectOrder'
  BY <1>2, <1>3 DEF QInv, ObjectOrder, Objects
<1>10. Down' /\ Stages' /\ Gone'
  <2>1. first <= latest'
    BY <1>2, <1>3 DEF QInv, ObjectOrder
  <2>2. Down'
    BY <1>2, <1>3, <2>1 DEF Down
  <2>3. Stages'
    BY <1>2 DEF QInv, Stages
  <2>4. Gone'
    BY <1>2 DEF QInv, Gone
  <2> QED
    BY <2>2, <2>3, <2>4
<1>11. AdmittedRecord'
  BY <1>2, <1>3 DEF QInv, ObjectOrder, AdmittedRecord, Objects
<1>12. ASSUME damage' = 0, NEW x \in Ops, Owing(x)'
       PROVE  CoveredOne(x)'
  <2>1. Owing(x) /\ damage = 0
    BY <1>2, <1>12 DEF Owing
  <2>2. CoveredOne(x)
    BY <2>1, OwingEntity DEF QInv
  <2>3. a.kind = "value" /\ a.doc = disk.cur /\ a.disk = disk
    BY <2>2 DEF CoveredOne, LoadAnswers, Answer
  <2>4. q = disk.cur /\ disk' = disk
    BY <1>1, <2>3 DEF q
  <2>5. Known(p, x) /\ p.phase[x] = "dispatch_unknown"
    BY <1>6, <2>2, <2>4 DEF CoveredOne, Known, Recorded, AfterLoad
  <2>6. mem'[latest'] = p
    BY <1>2, <1>3, <1>7
  <2>7. Known(disk.cur, x)' /\ Known(mem[latest], x)'
    BY <1>2, <2>2, <2>4, <2>5, <2>6 DEF CoveredOne, Known, Recorded
  <2>8. ASSUME pc[x] = "lost"
        PROVE  quarantine'[latest'][entity[x]] = expires[x]
    <3>1. entity[x] \in Entities /\ now < expires[x] /\ now \in Nat /\ expires[x] \in Nat
      BY <2>1, <2>8, Numbers DEF QInv, Stages, Owing, TInv, TypeOK, Times
    <3> DEFINE uncertain == {o \in Ops : /\ p.entity[o] = entity[x]
                                         /\ p.phase[o] = "dispatch_unknown"
                                         /\ p.expires[o] > now}
               last == CHOOSE o \in uncertain : \A y \in uncertain : p.gen[y] <= p.gen[o]
    <3>2. \A y \in Ops : p.gen[y] \in Nat
      BY <1>6, Numbers DEF Payloads, Generations
    <3>3. x \in uncertain /\ \A y \in uncertain \ {x} : p.gen[y] < p.gen[x]
      BY <2>5, <3>1 DEF Known, Recorded
    <3>4. uncertain \subseteq Ops
      OBVIOUS
    <3>5. LoadedQuarantine(p)[entity[x]] = IF uncertain = {} THEN 0 ELSE p.expires[last]
      BY <3>1 DEF LoadedQuarantine
    <3> HIDE DEF uncertain
    <3>6. \A o \in uncertain : (\A y \in uncertain : p.gen[y] <= p.gen[o]) <=> o = x
      BY <3>2, <3>3, <3>4
    <3>7. last = x
      BY <3>3, <3>6
    <3>8. LoadedQuarantine(p)[entity[x]] = expires[x]
      BY <2>5, <3>3, <3>5, <3>7 DEF Known, Recorded
    <3> QED
      BY <1>2, <1>3, <1>7, <3>8
  <2>9. pc'[x] = "lost" => Quarantined(x)'
    BY <1>2, <2>5, <2>6, <2>8 DEF Quarantined
  <2> QED
    BY <2>2, <2>4, <2>7, <2>9 DEF CoveredOne
<1>13. Covered'
  BY <1>12 DEF Covered, CoveredOne
<1> QED
  BY <1>8, <1>9, <1>10, <1>11, <1>13 DEF QInv

LEMMA CrashCovers ==
    ASSUME TInv, RInv, LInv, QInv, Crash
    PROVE  QInv'
<1> USE Finite
<1>1. /\ first <= latest /\ first' = latest + 1 /\ completed' = {} /\ registered' = {} /\ marker' = {}
      /\ pc' = [o \in Ops |-> IF pc[o] \in {"new", "ended", "killed"} THEN pc[o] ELSE "lost"]
      /\ mem' = [i \in Objects |-> EmptyPayload]
      /\ watchdog' = [o \in Ops |-> "none"]
      /\ http' = [o \in Ops |-> IF http[o] = "none" THEN "none" ELSE "over"]
      /\ UNCHANGED <<disk, now, latest, entity, object, expires, crossed, outcome, sent, damage>>
  BY DEF Crash, operation, counters
<1>2. latest \in Nat /\ pc \in [Ops -> Points]
  BY Numbers DEF Objects, TInv, TypeOK
<1>3. GenBound'
  <2>1. Bounded(EmptyPayload)
    BY DEF Bounded, EmptyPayload
  <2> QED
    BY <1>1, <2>1 DEF QInv, GenBound, Bounded
<1>4. ObjectOrder' /\ Down' /\ Gone' /\ AdmittedRecord'
  BY <1>1, <1>2 DEF QInv, ObjectOrder, Down, Gone, AdmittedRecord
<1>5. Stages'
  BY <1>1 DEF QInv, Stages
<1>6. ASSUME damage' = 0, NEW x \in Ops, Owing(x)'
      PROVE  CoveredOne(x)'
  <2>1. pc'[x] = "lost" /\ x \in sent /\ outcome[x] = "none" /\ now < expires[x]
    BY <1>1, <1>6 DEF Owing
  <2>2. pc[x] = "lost" \/ pc[x] = "called"
    BY <1>1, <1>2, <2>1 DEF QInv, Stages, RInv, SentCrossed, Points
  <2>3. CoveredOne(x)
    BY <1>1, <1>6, <2>1, <2>2, OwingEntity DEF Owing, QInv
  <2>4. ~ (first' <= latest')
    BY <1>1, <1>2
  <2> QED
    BY <1>1, <2>3, <2>4 DEF CoveredOne, Known, Recorded
<1>7. Covered'
  BY <1>6 DEF Covered, CoveredOne
<1> QED
  BY <1>3, <1>4, <1>5, <1>7 DEF QInv

LEMMA DamageCovers ==
    ASSUME TInv, QInv, DamageFile
    PROVE  QInv'
<1> USE Finite
<1>1. PICK damaged \in {"cur", "prev"} : disk' = [disk EXCEPT ![damaged] = Invalid]
  BY DEF DamageFile
<1>2. UNCHANGED <<now, processVars, mem, pc, operation, handleVars, watchVars, httpVars, sent>>
      /\ damage' = damage + 1 /\ disk \in Disks
  BY DEF DamageFile, TInv, TypeOK
<1>3. disk'.cur \in {disk.cur, Invalid} /\ disk'.prev \in {disk.prev, Invalid}
  BY <1>1, <1>2 DEF Disks
<1>4. GenBound'
  <2>1. \A file \in {disk'.cur, disk'.prev} : Valid(file) => Bounded(file)
    BY <1>3, Numbers DEF QInv, GenBound, Valid
  <2> QED
    BY <1>2, <2>1 DEF QInv, GenBound, Bounded
<1>5. ObjectOrder' /\ Down' /\ Gone' /\ AdmittedRecord' /\ Stages'
  BY <1>2 DEF QInv, ObjectOrder, Down, Gone, AdmittedRecord, Stages, Recorded, processVars,
     operation, handleVars, watchVars, httpVars
<1>6. Covered'
  BY <1>2 DEF Covered
<1> QED
  BY <1>4, <1>5, <1>6 DEF QInv

LEMMA StepCovers ==
    ASSUME TInv, LInv, RInv, QInv, NEW o \in Ops, Step(o)
    PROVE  QInv'
<1>1. Stages' /\ Gone'
  BY StepStages, StepGone DEF QInv
<1>2. Down'
  <2>1. first <= latest
    BY Awake DEF QInv
  <2>2. UNCHANGED <<first, latest>>
    BY DEF Step, Refuse, Admit, Intend, ClientGone, Validate, Dispatch, PersistMarker, Return,
       FinishRun, KilledByClose, WatchdogFires, RunPublishes, WatchdogPublishes, ResponseDone,
       ResponsePending, PendingAnswered, ResponseRevoke, HttpCancelled, RevokeSaved, processVars
  <2>3. first \in Nat /\ latest \in Nat
    BY Finite, Numbers DEF Objects
  <2> QED
    BY <2>1, <2>2, <2>3 DEF Down
<1>3. CASE Refuse(o)
  BY <1>1, <1>2, <1>3, RefuseCovers DEF QInv
<1>4. CASE Admit(o)
  BY <1>1, <1>2, <1>4, AdmitCovers DEF QInv
<1>5. CASE Intend(o)
  BY <1>1, <1>2, <1>5, IntendCovers DEF QInv
<1>6. CASE Rewriting
  <2>1. ObjectOrder'
    BY <1>6 DEF Rewriting, QInv, ObjectOrder
  <2> QED
    BY <1>1, <1>2, <1>6, <2>1, RewritingCovers DEF QInv
<1> QED
  BY <1>3, <1>4, <1>5, <1>6, QuietRewriting, SavingRewriting DEF Step, Unsaved

LEMMA NextCovers ==
    ASSUME TInv, LInv, RInv, QInv, [Next]_vars
    PROVE  QInv'
<1>1. CASE (\E i \in Objects : Close(i)) \/ Tick \/ UNCHANGED vars
  <2>1. Rewriting
    <3>1. CASE Tick
      <4>1. now' = now + 1 /\ now \in Nat /\ expires \in [Ops -> Nat]
        BY <3>1, Numbers DEF Tick, TInv, TypeOK, Times
      <4> QED
        BY <3>1, <4>1 DEF Tick, Rewriting, Owing, processVars, operation, handleVars, counters
    <3>2. CASE UNCHANGED vars
      BY <3>2 DEF vars, Rewriting, Owing, processVars, operation, handleVars, counters
    <3> QED
      BY <1>1, <3>1, <3>2, CloseRewriting
  <2>2. GenBound' /\ AdmittedRecord' /\ Covered' /\ ObjectOrder'
    BY <2>1, RewritingCovers DEF QInv, Rewriting, ObjectOrder
  <2>3. UNCHANGED <<first, latest, pc, entity, http, registered, completed, crossed, outcome>>
        /\ marker' \subseteq marker
        /\ \A o \in Ops : watchdog'[o] = watchdog[o] \/ watchdog'[o] = "none"
    BY <1>1 DEF Close, Tick, vars, processVars, operation, handleVars, httpVars, watchVars
  <2>4. Down' /\ Stages' /\ Gone'
    BY <2>3 DEF QInv, Down, Stages, Gone
  <2> QED
    BY <2>2, <2>4 DEF QInv
<1> QED
  BY <1>1, StepCovers, LoadCovers, CrashCovers, DamageCovers DEF Next

LEMMA InitCovers == Init => QInv
<1> SUFFICES ASSUME Init PROVE QInv
  OBVIOUS
<1>1. GenBound
  BY Numbers DEF Init, GenBound, Bounded, EmptyPayload, NewDisk, Valid
<1>2. ObjectOrder /\ Down /\ Stages /\ Gone /\ AdmittedRecord /\ Covered
  BY DEF Init, ObjectOrder, Down, Stages, Gone, AdmittedRecord, Covered, Owing
<1> QED
  BY <1>1, <1>2 DEF QInv

LEMMA AdmissionClear ==
    ASSUME TInv, LInv, RInv, QInv, [Next]_vars, damage = 0, NEW o \in Ops, NewlyAdmitted(o),
           NEW x \in Ops
    PROVE  ~ UncertainBeforeRestart(x, entity'[o])
<1> SUFFICES ASSUME UncertainBeforeRestart(x, entity'[o]) PROVE FALSE
  OBVIOUS
<1> USE ShapesHold DEF Shapes
<1>1. Admit(o)
  <2>1. pc'[o] # pc[o] /\ pc[o] = "new" /\ pc'[o] = "admitting"
    BY DEF NewlyAdmitted
  <2>2. ASSUME NEW y \in Ops, Step(y), ~ Admit(y) PROVE FALSE
    <3>1. pc' = pc \/ \E point \in Points \ {"admitting"} : Goto(y, point)
      BY <2>2 DEF Step, Refuse, Intend, ClientGone, Validate, Dispatch, PersistMarker, Return,
         FinishRun, KilledByClose, WatchdogFires, RunPublishes, WatchdogPublishes, ResponseDone,
         ResponsePending, PendingAnswered, ResponseRevoke, HttpCancelled, RevokeSaved, Points
    <3> QED
      BY <2>1, <3>1 DEF Goto
  <2>3. ASSUME NEW y \in Ops, Admit(y) PROVE y = o
    <3>1. \E point \in Points : Goto(y, point)
      BY <2>3 DEF Admit, Points
    <3> QED
      BY <2>1, <3>1 DEF Goto
  <2>4. ~ ((\E i \in Objects : Close(i)) \/ Load \/ Crash \/ Tick \/ DamageFile \/ UNCHANGED vars)
    BY <2>1 DEF Close, Load, Crash, Tick, DamageFile, vars
  <2> QED
    BY <2>2, <2>3, <2>4 DEF Next
<1>2. PICK e \in Entities, i \in first..latest :
        /\ ~Busy(i, e) /\ entity' = [entity EXCEPT ![o] = e]
        /\ Goto(o, "admitting") => SaveOk(i, Admitted(i, o, e))
        /\ Goto(o, "admitting") \/ Goto(o, "ended") \/ Goto(o, "leaked")
  <2>1. ~ (Goto(o, "admitting") /\ (Goto(o, "ended") \/ Goto(o, "leaked")))
    BY DEF Goto
  <2> QED
    BY <1>1, <2>1 DEF Admit, Loadeds
<1>3. i = latest
  BY <1>2 DEF NewlyAdmitted, Goto, SaveOk
<1>4. entity'[o] = e
  BY <1>2 DEF TInv, TypeOK
<1>5. Owing(x) /\ entity[x] = e
  BY <1>4 DEF UncertainBeforeRestart, Owing
<1>6. first <= latest
  BY <1>2, Finite, Numbers DEF Objects
<1> QED
  BY <1>2, <1>3, <1>5, <1>6, OwingBusy DEF QInv

\* While no file was damaged, a crash in the middle of a physical call keeps its entity
\* shut for the rest of the observation window, over any number of further commands,
\* reloads and crashes.
THEOREM QuarantineKept == Spec => RestartQuarantine
<1> DEFINE Kept == \A o \in Ops : NewlyAdmitted(o) /\ damage = 0 =>
                     ~ \E x \in Ops : UncertainBeforeRestart(x, entity'[o])
<1>1. Init => IInv /\ QInv
  BY InitTypes, InitLeases, InitAnswers, InitCovers DEF IInv
<1>2. IInv /\ QInv /\ [Next]_vars => (IInv /\ QInv)'
  BY NextTypes, NextLeases, NextAnswers, NextCovers DEF IInv
<1>3. IInv /\ QInv /\ [Next]_vars => [Kept]_vars
  BY AdmissionClear DEF IInv
<1> QED
  BY <1>1, <1>2, <1>3, PTL DEF Spec, RestartQuarantine
=============================================================================
