----------------------------- MODULE SafetyDisk -----------------------------
(* The files of one VerifiedSafetyStore (verified_safety_storage.py) and what
   one whole load or save leaves in them: the view the coordinators that keep
   their journal in such a store have of it.  VerifiedSafetyStore.tla models
   the single steps of the same calls and checks that this view is exact.

   A file holds a payload the validator accepts, or it is
     Absent  : there is no file,
     Invalid : JSON whose payload the validator refuses (it stays in place),
     Corrupt : not JSON (Home Assistant's Store moves it aside when it loads
               the current file and then answers None).                      *)

CONSTANTS Payloads,     \* payloads the validator accepts
          Absent, Invalid, Corrupt

Files == Payloads \union {Absent, Invalid, Corrupt}

\* The current file, its N-1 copy (".previous") and whether the latch file
\* ".recovery-required" exists.
Disks == [cur : Files, prev : Files, latch : BOOLEAN]

NewDisk == [cur |-> Absent, prev |-> Absent, latch |-> FALSE]

Valid(file) == file \in Payloads

---------------------------------------------------------------------------
(* Saving: the readable current file is kept as N-1, then the new payload
   replaces it.  Home Assistant's Store swallows a write error, so the write
   may not happen; only what is read back counts.                            *)

BackedUp(d) == IF Valid(d.cur) THEN [d EXCEPT !.prev = d.cur] ELSE d

Saved(d, p) == [BackedUp(d) EXCEPT !.cur = p]

\* The disks an acknowledged save may leave.  A swallowed write is still
\* acknowledged when the file already held this very payload: the disk is then
\* the same as if it had been written.
SaveAcks(d, p) == {Saved(d, p)}

\* The disks a save may leave that raised, was cancelled or was cut by a crash.
SaveFailures(d, p) == {d, BackedUp(d), Saved(d, p)}

---------------------------------------------------------------------------
(* Loading.                                                                  *)

\* Home Assistant's Store moves a file that is not JSON aside (external).
Loaded(file) == IF file = Corrupt THEN Absent ELSE file

MovedAside(d) == [d EXCEPT !.cur = Loaded(d.cur)]

Latched(d) == [MovedAside(d) EXCEPT !.latch = TRUE]

Restored(d) == [Latched(d) EXCEPT !.cur = d.prev]

Answer(kind, doc, flagged, disk) ==
    [kind |-> kind, doc |-> doc, flagged |-> flagged, disk |-> disk]

\* What a load that runs to its end may answer: "value" with a payload, "none"
\* (a new, empty store) or "error"; flagged is recovered_previous, disk what the
\* load leaves.
LoadAnswers(d) ==
    IF Valid(d.cur)
      THEN {Answer("value", d.cur, d.latch, d)}
    ELSE IF Valid(d.prev)
      THEN {Answer("value", d.prev, TRUE, Restored(d)),
            Answer("error", Absent, d.latch, Latched(d))}
    ELSE IF d.cur = Absent
      THEN {Answer("none", Absent, d.latch, d)}
    ELSE {Answer("error", Absent, d.latch, MovedAside(d))}

\* The disks a load leaves that a crash cut short, or whose latch write raised.
LoadCuts(d) ==
    IF Valid(d.cur)
      THEN {d}
    ELSE IF Valid(d.prev)
      THEN {d, MovedAside(d), Latched(d), Restored(d)}
    ELSE {d, MovedAside(d)}
=============================================================================
