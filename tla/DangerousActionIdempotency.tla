--------------------- MODULE DangerousActionIdempotency ---------------------
(* The durable journal of dangerous physical actions
   (application/device_action_idempotency.py): its records, what one call does
   to the whole journal, and what a load makes of a persisted journal.

   The calls run under the journal's lock and give the store a modified copy;
   the journal in memory becomes that copy only if the save was acknowledged.
   The receipt, the bindings and the dispatch id of a record stand for the
   request that reserved it ("by"): a receipt is accepted for its own bindings
   only, and its requestId is unique to the request.                          *)

EXTENDS Naturals, FiniteSets

CONSTANTS Keys,          \* idempotency keys
          Fingerprints,  \* canonical fingerprints of request bodies
          Requests,      \* HTTP requests
          Capacity,      \* MAX_DANGEROUS_IDEMPOTENCY_RECORDS
          NoRecord       \* the key is not in the journal

States == {"reserved", "pending", "dispatch_unknown", "completed"}
Phases == {"not_started", "dispatching", "dispatched"}

\* _validated_record: the state and phase of a record that may be persisted.
Consistent(state, phase) ==
    /\ state = "completed" => phase = "dispatched"
    /\ state = "reserved" => phase = "not_started"
    /\ state = "dispatch_unknown" => phase # "not_started"

Records == {rec \in [fp : Fingerprints, state : States, phase : Phases,
                     by : Requests] : Consistent(rec.state, rec.phase)}

ASSUME JournalAssumption ==
    /\ Capacity \in Nat
    /\ IsFiniteSet(Keys)
    /\ NoRecord \notin Records

Held(journal) == {k \in Keys : journal[k] # NoRecord}

\* valid_device_action_idempotency_payload
Journals == {journal \in [Keys -> Records \union {NoRecord}] :
                Cardinality(Held(journal)) <= Capacity}

EmptyJournal == [k \in Keys |-> NoRecord]

---------------------------------------------------------------------------
(* What a call makes of the journal, and when it raises instead.             *)

\* Mutant of MayReserve: a key that is taken is reserved again.
MayReserveAnyway(journal, k) ==
    Cardinality(Held(journal) \union {k}) <= Capacity

MayReserve(journal, k) ==
    /\ journal[k] = NoRecord
    /\ Cardinality(Held(journal)) < Capacity

Reserved(journal, k, fp, r) ==
    [journal EXCEPT ![k] = [fp |-> fp, state |-> "reserved",
                            phase |-> "not_started", by |-> r]]

\* async_mark_pending, async_mark_dispatching: any record of the key will do.
MayMark(journal, k) == journal[k] # NoRecord

MarkedPending(journal, k) ==
    [journal EXCEPT ![k].state = "pending", ![k].phase = "not_started"]

\* Mutant of MarkedDispatching: the record stays "reserved".
MarkedHalf(journal, k) == [journal EXCEPT ![k].state = "reserved",
                                          ![k].phase = "dispatching"]

MarkedDispatching(journal, k) ==
    [journal EXCEPT ![k].state = "pending", ![k].phase = "dispatching"]

\* async_abandon_pre_dispatch
MayAbandon(journal, k) ==
    /\ journal[k] # NoRecord
    /\ journal[k].phase # "dispatched"

Abandoned(journal, k) == [journal EXCEPT ![k] = NoRecord]

\* async_complete: the receipt of r must fit the bindings of the record.
MayComplete(journal, k, r) ==
    /\ journal[k] # NoRecord
    /\ journal[k].by = r

Completed(journal, k) ==
    [journal EXCEPT ![k].state = "completed", ![k].phase = "dispatched"]

\* Mutant of Existing: the fingerprint is not compared.
ExistingByKey(rec, fp) ==
    IF rec.state = "completed" THEN "replay" ELSE "in_progress"

\* _existing_result: what a request is told of a key that is taken.
Existing(rec, fp) ==
    IF rec.fp # fp THEN "conflict"
    ELSE IF rec.state = "completed" THEN "replay"
    ELSE "in_progress"

---------------------------------------------------------------------------
(* async_load: a record that never reached the dispatch boundary is released,
   one that may have crossed it becomes dispatch_unknown; if the store fell
   back to its N-1 copy every unfinished record does.                        *)

Released(rec) == rec.state \in {"reserved", "pending"} /\ rec.phase = "not_started"

\* Mutants of Reloaded: a fall-back is treated as the current journal; unused
\* reservations are kept.
ReloadedUnflagged(rec, flagged) ==
    IF rec = NoRecord \/ Released(rec) THEN NoRecord
    ELSE IF rec.state = "pending" THEN [rec EXCEPT !.state = "dispatch_unknown"]
    ELSE rec

ReloadedKept(rec, flagged) ==
    IF rec # NoRecord /\ rec.state = "pending" /\ ~Released(rec)
      THEN [rec EXCEPT !.state = "dispatch_unknown"] ELSE rec

Reloaded(rec, flagged) ==
    IF rec = NoRecord THEN NoRecord
    ELSE IF flagged /\ rec.state # "completed"
      THEN [rec EXCEPT !.state = "dispatch_unknown", !.phase = "dispatching"]
    ELSE IF Released(rec) THEN NoRecord
    ELSE IF rec.state = "pending" THEN [rec EXCEPT !.state = "dispatch_unknown"]
    ELSE rec

LoadedJournal(journal, flagged) == [k \in Keys |-> Reloaded(journal[k], flagged)]
=============================================================================
