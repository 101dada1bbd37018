----------------------------- MODULE ScenarioRuns -----------------------------
(* The runs of scenarios: ScenarioService.async_run_scenario (application/
   scenario_service.py), the nested calls of ScenarioExecutor.async_execute, the
   cancellations that triggers, newer runs, the migration and the unload of the entry
   make, and edits of the registry in between.

   A trigger's call is a stack of frames: the run it started and the nested runs
   below it, of which the last one acts.  Whichever task of a stack is cancelled, the
   CancelledError comes up where its last frame waits: a task that awaits another
   passes its cancellation on.  A body is one nested call, if the scenario has one,
   then one command to a device.                                                 *)

EXTENDS Naturals, FiniteSets, SequencesExt

CONSTANTS Scenarios,
          Triggers,    \* calls from outside: each is made once
          Null,
          QueueLimit,  \* queueLimit of every scenario
          InitialModes,       \* execution modes of the scenarios
          MaxEdits, MaxCuts   \* edits of the registry; calls cancelled by their triggers

\* ScenarioExecutionMode
Modes == {"single", "restart", "queued"}

\* A run: its trigger and its depth.  A frame nests once, so it has its name for good.
Depth == 1..Cardinality(Scenarios) + 1
RunIds == Triggers \X Depth

ASSUME RunsAssumption ==
    /\ IsFiniteSet(Scenarios)
    /\ Null \notin Scenarios \union Triggers \union RunIds
    /\ InitialModes \subseteq [Scenarios -> Modes]
    /\ QueueLimit \in Nat \ {0} /\ MaxEdits \in Nat /\ MaxCuts \in Nat

\* The scenario that each scenario calls.
Plans == [Scenarios -> Scenarios \union {Null}]

\* _validate_no_cycles: there are no scenarios each of which calls one of them, which is
\* to say that, in a finite registry, none comes to itself.
Acyclic(plan) == \A circle \in (SUBSET Scenarios) \ {{}} : \E s \in circle : plan[s] \notin circle

\* A frame: the scenario with the definition it was read with; counted is queued, the
\* flag of its finally; raises is what its finally ends with.
Bodies == {"body", "nested", "act", "record"}
Frames == [s : Scenarios, calls : Scenarios \union {Null}, counted : BOOLEAN,
           pc : {"enter", "skip", "queue", "caught", "leave"} \union Bodies, raises : BOOLEAN]

VARIABLES mode, plan,  \* the registry
          stack,       \* the frames of each trigger's call
          hit,         \* calls with a CancelledError on its way to their last frame
          made,        \* triggers that made their call
          runLock,     \* _run_lock, when it is held over a save of the journal
          runTask,     \* _run_tasks: the latest run in a task of its own
          holder, line,    \* _queue_locks: the owner and who waits
          waiters,     \* _queue_waiters
          blocked,     \* _managed_switch_blocked_runs
          closing,     \* runs that the migration waits for
          closed,      \* it found them all ended
          stopping,    \* _stopping
          edits, cuts

registry == <<mode, plan>>
queues == <<holder, line, waiters>>
gates == <<blocked, closing, closed, stopping>>
runsBounds == <<edits, cuts>>
runsVars == <<registry, stack, hit, made, runLock, runTask, queues, gates, runsBounds>>

RunsTypeOK ==
    /\ mode \in [Scenarios -> Modes] /\ plan \in Plans /\ Acyclic(plan)
    /\ \A t \in Triggers : Len(stack[t]) \in 0..Cardinality(Depth) /\ Range(stack[t]) \subseteq Frames
    /\ hit \subseteq {t \in Triggers : stack[t] # <<>>}
    /\ made \subseteq Triggers
    /\ runLock \in Triggers \union {Null}
    /\ runTask \in [Scenarios -> RunIds \union {Null}]
    /\ holder \in [Scenarios -> Triggers \union {Null}]
    /\ \A s \in Scenarios : Range(line[s]) \subseteq Triggers /\ IsInjective(line[s])
    /\ waiters \in [Scenarios -> 0..QueueLimit]
    /\ blocked \subseteq Scenarios /\ closing \subseteq RunIds
    /\ closed \in BOOLEAN /\ stopping \in BOOLEAN
    /\ edits \in 0..MaxEdits /\ cuts \in 0..MaxCuts

RunsInit ==
    /\ mode \in InitialModes
    /\ plan = [s \in Scenarios |-> Null]
    /\ stack = [t \in Triggers |-> <<>>]
    /\ hit = {} /\ made = {}
    /\ runLock = Null
    /\ runTask = [s \in Scenarios |-> Null]
    /\ holder = [s \in Scenarios |-> Null]
    /\ line = [s \in Scenarios |-> <<>>]
    /\ waiters = [s \in Scenarios |-> 0]
    /\ blocked = {} /\ closing = {} /\ closed = FALSE /\ stopping = FALSE
    /\ edits = 0 /\ cuts = 0

---------------------------------------------------------------------------
(* Stacks.                                                                   *)

Running(t) == stack[t] # <<>>
Top(t) == Last(stack[t])
Me(t) == <<t, Len(stack[t])>>

\* The last frame of t goes on: it is at pc, and nothing is thrown at it.
At(t, pc) == Running(t) /\ Top(t).pc = pc /\ t \notin hit

NewFrame(s) ==
    [s |-> s, calls |-> plan[s], counted |-> FALSE, pc |-> "enter", raises |-> FALSE]

Goes(t, pc) == stack' = [stack EXCEPT ![t][Len(stack[t])].pc = pc]

Leaves(t, raises) ==
    stack' = [stack EXCEPT ![t][Len(stack[t])].pc = "leave", ![t][Len(stack[t])].raises = raises]

\* The frame is over, and the one above it goes on at pc.
Returns(t, pc) ==
    LET rest == Front(stack[t])
    IN  stack' = [stack EXCEPT ![t] = IF rest = <<>> THEN <<>>
                                      ELSE [rest EXCEPT ![Len(rest)].pc = pc]]

\* A result, a skipped one too, is a completed step of the caller's run.
Answers(t) == Returns(t, "act") /\ UNCHANGED hit

\* An error is a failed step, which ends the caller's run.
Fails(t) == Returns(t, "record") /\ UNCHANGED hit

\* CancelledError is not caught between the frames.
Raises(t) ==
    /\ Returns(t, "act")
    /\ hit' = IF Len(stack[t]) > 1 THEN hit \union {t} ELSE hit \ {t}

\* A run's body is not over.
Alive(id) ==
    id # Null /\ Len(stack[id[1]]) >= id[2] /\ stack[id[1]][id[2]].pc \in Bodies

\* Mutant of Busy: a run that is being cancelled is taken for one that is over.
BusyUnlessCancelled(s) == Alive(runTask[s]) /\ runTask[s][1] \notin hit

\* previous is not done.
Busy(s) == Alive(runTask[s])

---------------------------------------------------------------------------
(* async_run_scenario.                                                       *)

Admitted(s) == ~stopping /\ s \notin blocked

Trigger(t, s) ==
    /\ t \notin made
    /\ Admitted(s)
    /\ made' = made \union {t}
    /\ stack' = [stack EXCEPT ![t] = <<NewFrame(s)>>]
    /\ UNCHANGED <<registry, hit, runLock, runTask, queues, gates, runsBounds>>

\* Mutant of EnterQueued: one more run than the limit is counted.
EnterQueuedOneMore(t) ==
    /\ At(t, "enter") /\ runLock = Null
    /\ LET s == Top(t).s IN
        /\ s \notin blocked /\ mode[s] = "queued"
        /\ IF holder[s] # Null /\ waiters[s] > QueueLimit
             THEN Goes(t, "skip") /\ runLock' = t /\ UNCHANGED queues
             ELSE IF holder[s] = Null /\ line[s] = <<>>
               THEN Goes(t, "body") /\ holder' = [holder EXCEPT ![s] = t]
                    /\ UNCHANGED <<line, waiters, runLock>>
             ELSE /\ stack' = [stack EXCEPT ![t][Len(stack[t])].pc = "queue",
                                            ![t][Len(stack[t])].counted = holder[s] # Null]
                  /\ line' = [line EXCEPT ![s] = Append(@, t)]
                  /\ waiters' = [waiters EXCEPT ![s] = IF holder[s] # Null THEN @ + 1 ELSE @]
                  /\ UNCHANGED <<holder, runLock>>
    /\ UNCHANGED <<registry, hit, made, runTask, gates, runsBounds>>

\* A queued run takes its queue's lock, or waits for it in line: counted, if the lock
\* is held now, and refused, if enough are counted.  That the scenario was closed in the
\* meantime is refused as well, but does not happen: closing cancels whoever is here.
EnterQueued(t) ==
    /\ At(t, "enter") /\ runLock = Null
    /\ LET s == Top(t).s IN
        /\ s \notin blocked /\ mode[s] = "queued"
        /\ IF holder[s] # Null /\ waiters[s] >= QueueLimit
             THEN Goes(t, "skip") /\ runLock' = t /\ UNCHANGED queues
             ELSE IF holder[s] = Null /\ line[s] = <<>>
               THEN Goes(t, "body") /\ holder' = [holder EXCEPT ![s] = t]
                    /\ UNCHANGED <<line, waiters, runLock>>
             ELSE /\ stack' = [stack EXCEPT ![t][Len(stack[t])].pc = "queue",
                                            ![t][Len(stack[t])].counted = holder[s] # Null]
                  /\ line' = [line EXCEPT ![s] = Append(@, t)]
                  /\ waiters' = [waiters EXCEPT ![s] = IF holder[s] # Null THEN @ + 1 ELSE @]
                  /\ UNCHANGED <<holder, runLock>>
    /\ UNCHANGED <<registry, hit, made, runTask, gates, runsBounds>>

\* A run of mode single is skipped while the previous one is not over; one of mode
\* restart cancels it and starts.
EnterTask(t) ==
    /\ At(t, "enter") /\ runLock = Null
    /\ LET s == Top(t).s IN
        /\ s \notin blocked /\ mode[s] # "queued"
        /\ IF mode[s] = "single" /\ Busy(s)
             THEN Goes(t, "skip") /\ runLock' = t /\ UNCHANGED <<runTask, hit>>
             ELSE /\ Goes(t, "body")
                  /\ runTask' = [runTask EXCEPT ![s] = Me(t)]
                  /\ hit' = IF Busy(s) THEN hit \union {runTask[s][1]} ELSE hit
                  /\ UNCHANGED runLock
    /\ UNCHANGED <<registry, made, queues, gates, runsBounds>>

\* The skipped result is in the journal.
Skipped(t) ==
    /\ At(t, "skip")
    /\ runLock' = Null
    /\ Answers(t)
    /\ UNCHANGED <<registry, made, runTask, queues, gates, runsBounds>>

QueueTurn(t) ==
    /\ At(t, "queue")
    /\ LET s == Top(t).s IN
        /\ holder[s] = Null /\ Head(line[s]) = t
        /\ holder' = [holder EXCEPT ![s] = t]
        /\ line' = [line EXCEPT ![s] = Tail(@)]
    /\ Goes(t, "body")
    /\ UNCHANGED <<registry, hit, made, runLock, runTask, waiters, gates, runsBounds>>

---------------------------------------------------------------------------
(* execute.                                                                  *)

\* visited_scenarios
Recursive(t) == \E i \in 1..Len(stack[t]) - 1 : stack[t][i].s = Top(t).s

\* A run_scenario action; a call that is not admitted is a failed step.
Nest(t) ==
    /\ At(t, "body") /\ ~Recursive(t) /\ Top(t).calls # Null
    /\ IF Admitted(Top(t).calls)
         THEN stack' = [stack EXCEPT ![t] = Append([@ EXCEPT ![Len(@)].pc = "nested"],
                                                   NewFrame(Top(t).calls))]
         ELSE Goes(t, "record")
    /\ UNCHANGED <<registry, hit, made, runLock, runTask, queues, gates, runsBounds>>

\* A plan without nested calls goes on to its command; a recursive one is failed.
NoNest(t) ==
    /\ At(t, "body") /\ (Recursive(t) \/ Top(t).calls = Null)
    /\ Goes(t, IF Recursive(t) THEN "record" ELSE "act")
    /\ UNCHANGED <<registry, hit, made, runLock, runTask, queues, gates, runsBounds>>

\* The body of a queued run ends, and its lock is free for the next in line.
Unlocked(s) == holder' = [holder EXCEPT ![s] = Null]

EndsBody(t) ==
    LET f == Top(t) IN
    /\ IF mode[f.s] = "queued" /\ ~f.counted THEN Answers(t)
       ELSE Leaves(t, FALSE) /\ UNCHANGED hit
    /\ IF mode[f.s] = "queued" THEN Unlocked(f.s) ELSE UNCHANGED holder
    /\ UNCHANGED <<registry, made, runLock, runTask, line, waiters, gates, runsBounds>>

\* A command is sent to a device, and the result is in the journal.
Act(t) == At(t, "act") /\ EndsBody(t)

\* The result of a run that failed before its command is in the journal.
Record(t) == At(t, "record") /\ EndsBody(t)

\* except CancelledError: a run that was replaced answers "cancelled" instead.
Caught(t) ==
    /\ At(t, "caught") /\ runLock = Null
    /\ Leaves(t, runTask[Top(t).s] = Me(t))
    /\ UNCHANGED <<registry, hit, made, runLock, runTask, queues, gates, runsBounds>>

\* finally
Leave(t) ==
    /\ At(t, "leave") /\ runLock = Null
    /\ LET f == Top(t) IN
        /\ IF f.raises THEN Raises(t) ELSE Answers(t)
        /\ waiters' = IF f.counted THEN [waiters EXCEPT ![f.s] = @ - 1] ELSE waiters
        /\ runTask' = IF runTask[f.s] = Me(t) THEN [runTask EXCEPT ![f.s] = Null] ELSE runTask
    /\ UNCHANGED <<registry, made, runLock, holder, line, gates, runsBounds>>

---------------------------------------------------------------------------
(* Cancellation.                                                             *)

\* A queued frame that is thrown out: its finally counts it off, if it was counted.
ThrownOut(t) ==
    IF Top(t).counted THEN Leaves(t, TRUE) /\ hit' = hit \ {t} ELSE Raises(t)

\* Where t waits.
Place(t) == CHOOSE i \in DOMAIN line[Top(t).s] : line[Top(t).s][i] = t

\* CancelledError where the frame waits to come in: in line, it leaves it.
ThrowWaiting(t) ==
    /\ t \in hit /\ Top(t).pc \in {"enter", "skip", "queue"}
    /\ runLock' = IF Top(t).pc = "skip" THEN Null ELSE runLock
    /\ line' = IF Top(t).pc = "queue"
                 THEN [line EXCEPT ![Top(t).s] = RemoveAt(@, Place(t))]
                 ELSE line
    /\ ThrownOut(t)
    /\ UNCHANGED <<registry, made, runTask, holder, waiters, gates, runsBounds>>

\* Mutant of ThrowBody: the lock of the queue is not given back.
ThrowBodyHolding(t) ==
    /\ t \in hit /\ Top(t).pc \in Bodies
    /\ IF mode[Top(t).s] = "queued" THEN ThrownOut(t)
       ELSE Goes(t, "caught") /\ hit' = hit \ {t}
    /\ UNCHANGED <<registry, made, runLock, runTask, queues, gates, runsBounds>>

\* In the body: a queued run gives its lock back; the task of another one ends, and
\* the frame that awaited it catches what it raised.
ThrowBody(t) ==
    /\ t \in hit /\ Top(t).pc \in Bodies
    /\ IF mode[Top(t).s] = "queued"
         THEN ThrownOut(t) /\ Unlocked(Top(t).s)
         ELSE Goes(t, "caught") /\ hit' = hit \ {t} /\ UNCHANGED holder
    /\ UNCHANGED <<registry, made, runLock, runTask, line, waiters, gates, runsBounds>>

\* In the except clause the finally is still to come; in the finally itself, what it
\* was to take back is left as it is.
ThrowFinal(t) ==
    /\ t \in hit /\ Top(t).pc \in {"caught", "leave"}
    /\ IF Top(t).pc = "caught" THEN Leaves(t, TRUE) /\ hit' = hit \ {t} ELSE Raises(t)
    /\ UNCHANGED <<registry, made, runLock, runTask, queues, gates, runsBounds>>

\* A trigger ends its own call: its state does not match any more.
Cut(t) ==
    /\ cuts < MaxCuts /\ cuts' = cuts + 1
    /\ Running(t) /\ t \notin hit
    /\ hit' = hit \union {t}
    /\ UNCHANGED <<registry, stack, made, runLock, runTask, queues, gates, edits>>

\* Mutant of Cancellable: only the tasks of _run_tasks.
CancellableTasks == {t \in Triggers : \E s \in Scenarios : Busy(s) /\ runTask[s][1] = t}

\* _active_run_calls and _run_tasks
Cancellable == {t \in Triggers : Running(t)}

\* cancel_running_scenarios
StopAll ==
    /\ ~stopping
    /\ stopping' = TRUE
    /\ hit' = hit \union Cancellable
    /\ UNCHANGED <<registry, stack, made, runLock, runTask, queues, blocked, closing, closed, runsBounds>>

\* Mutant of RunsOf: only the tasks of _run_tasks.
TasksOf(s) == IF Busy(s) THEN {runTask[s]} ELSE {}

\* Every call of the scenario: _active_run_scenarios and _run_tasks.
RunsOf(s) == {id \in RunIds : Len(stack[id[1]]) >= id[2] /\ stack[id[1]][id[2]].s = s}

\* _async_close_managed_switch_execution: the scenario is closed, its runs are cancelled
\* and waited for.
Close(s) ==
    /\ runLock = Null /\ blocked = {}
    /\ blocked' = {s}
    /\ closing' = RunsOf(s)
    /\ hit' = hit \union {id[1] : id \in RunsOf(s)}
    /\ UNCHANGED <<registry, stack, made, runLock, runTask, queues, closed, stopping, runsBounds>>

ClosedDown ==
    /\ blocked # {} /\ ~closed
    /\ \A id \in closing : Len(stack[id[1]]) < id[2]
    /\ closed' = TRUE /\ closing' = {}
    /\ UNCHANGED <<registry, stack, hit, made, runLock, runTask, queues, blocked, stopping, runsBounds>>

\* async_open_managed_switch_execution
Open ==
    /\ closed /\ runLock = Null
    /\ blocked' = {} /\ closed' = FALSE
    /\ UNCHANGED <<registry, stack, hit, made, runLock, runTask, queues, closing, stopping, runsBounds>>

\* async_update_scenario: another nested call, unless it closes a cycle.
Edit(s, callee) ==
    /\ edits < MaxEdits /\ edits' = edits + 1
    /\ ~stopping /\ plan[s] # callee
    /\ plan' = [plan EXCEPT ![s] = callee]
    /\ Acyclic(plan')
    /\ UNCHANGED <<mode, stack, hit, made, runLock, runTask, queues, gates, cuts>>

RunsNext ==
    \/ \E t \in Triggers, s \in Scenarios : Trigger(t, s)
    \/ \E t \in Triggers : EnterQueued(t)
    \/ \E t \in Triggers : EnterTask(t)
    \/ \E t \in Triggers : Skipped(t)
    \/ \E t \in Triggers : QueueTurn(t)
    \/ \E t \in Triggers : Nest(t)
    \/ \E t \in Triggers : NoNest(t)
    \/ \E t \in Triggers : Act(t)
    \/ \E t \in Triggers : Record(t)
    \/ \E t \in Triggers : Caught(t)
    \/ \E t \in Triggers : Leave(t)
    \/ \E t \in Triggers : ThrowWaiting(t)
    \/ \E t \in Triggers : ThrowBody(t)
    \/ \E t \in Triggers : ThrowFinal(t)
    \/ \E t \in Triggers : Cut(t)
    \/ StopAll
    \/ \E s \in Scenarios : Close(s)
    \/ ClosedDown
    \/ Open
    \/ \E s \in Scenarios, callee \in Scenarios \union {Null} : Edit(s, callee)

RunsSpec == RunsInit /\ [][RunsNext]_runsVars

\* What the event loop, the devices and the journal do without being asked.
Steps(t) ==
    \/ EnterQueued(t) \/ EnterTask(t) \/ Skipped(t) \/ QueueTurn(t)
    \/ Nest(t) \/ NoNest(t) \/ Act(t) \/ Record(t) \/ Caught(t) \/ Leave(t)
    \/ ThrowWaiting(t) \/ ThrowBody(t) \/ ThrowFinal(t)

---------------------------------------------------------------------------
(* Properties.                                                               *)

LiveRuns(s) == {id \in RunIds : Alive(id) /\ stack[id[1]][id[2]].s = s}

\* Two runs of a scenario of mode single or queued are never under way at once: not
\* while the first is being cancelled, not when a wait in line is cut.
RunsAlone == \A s \in Scenarios : mode[s] # "restart" => Cardinality(LiveRuns(s)) <= 1

\* When the migration has closed a scenario and its wait is over, no run of it is under
\* way, and none starts: not one that waited in line, not one nested in another.
ClosedIsQuiet == closed => \A s \in blocked : LiveRuns(s) = {}

\* "reload cancels running and waiting queue without replay": after the unload no run
\* starts its body any more.
StopStartsNothing == [][stopping => \A s \in Scenarios : LiveRuns(s)' \subseteq LiveRuns(s)]_runsVars

\* While a call is not over some call can go on, whatever was cancelled as it waited or
\* ran: no lock and no place in a queue is left behind, and no runs wait for each other.
\* A call has a bounded number of steps, so that every call ends.
NobodyStuck == (\E t \in Triggers : Running(t)) => \E t \in Triggers : ENABLED Steps(t)
=============================================================================
