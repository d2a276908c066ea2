-------------------------- MODULE ProductExecution --------------------------
(***************************************************************************)
(* The product boundary around one agent run: product/execution.py         *)
(* ExecutionService with the catalog it records executions and deliveries  *)
(* in, the run files the worker leaves, the client that starts and polls,  *)
(* the graceful shutdown, and the loss and restart of the process.         *)
(*                                                                         *)
(* Three threads meet here.  A request thread runs start() or get(), the   *)
(* single pool thread runs _run_worker(), and _finished() runs as the done *)
(* callback of the future: in the pool thread, or inside start() when the  *)
(* future is done before the callback is registered.  They share one RLock.*)
(* start() and _finished() hold it over several steps of theirs, which are *)
(* actions of their own here since the worker moves, and the process can   *)
(* die, between any two of them.                                           *)
(***************************************************************************)
EXTENDS Naturals, FiniteSets

CONSTANTS
    Execs,      \* the identifiers ExecutionRecord draws, each used once
    NoExec,     \* None, for _active_execution_id and for an idle thread
    MaxBoots,   \* bound: processes started after the first one
    MaxFaults   \* bound: catalog writes and submissions that fail

ASSUME NoExecAssumption == NoExec \notin Execs
ASSUME BoundAssumption == MaxBoots \in Nat /\ MaxFaults \in Nat

VARIABLES
    \* On disk: survives the process.
    record,     \* catalog status of each execution, "absent" before add_execution
    deliveries, \* number of delivery records of each execution in the catalog
    runFile,    \* what run.json of the execution says
    report,     \* whether the final report of the execution is written
    \* In the memory of the process.
    proc,       \* "up", "closing" (_shutdown set), "closed" (shutdown returned), "down"
    active,     \* _active_execution_id
    snap,       \* _snapshots: "none", or the status the snapshot carries
    work,       \* the future of the execution and the worker behind it
    starting,   \* the execution a request thread is starting, holding the lock
    finishing,  \* the execution _finished runs for, holding the lock
    finishStep, \* how far _finished has come
    \* What was observed, and the bounds.
    answer,     \* the last status get() returned for the execution
    faulted,    \* executions whose submission or whose end could not be recorded
    boots,
    faults

diskVars    == <<record, deliveries, runFile, report>>
runVars     == <<runFile, report>>
catalogVars == <<record, deliveries>>
threadVars  == <<starting, finishing, finishStep>>
obsVars     == <<answer, faulted, boots, faults>>
vars == <<record, deliveries, runFile, report, proc, active, snap, work,
          starting, finishing, finishStep, answer, faulted, boots, faults>>

-----------------------------------------------------------------------------
\* The statuses a finished execution may carry.
EndStatuses == {"SUCCEEDED", "FAILED", "BLOCKED", "LIMIT_REACHED", "INTERRUPTED"}

\* The ends run.json may record.  "passed" is COMPLETED with every persisted
\* fact evaluate_pass and the completion gate ask for, "open" is COMPLETED
\* without one of them.
RunEnds == {"passed", "open", "BLOCKED", "LIMIT_REACHED", "ABORTED", "FAILED"}

\* "active" is a run state that is not terminal; "torn" is a file whose write
\* was cut short, which no reader can parse.
RunFiles == {"none", "active", "torn"} \cup RunEnds

\* A future: not submitted, waiting, running, its result or exception set and
\* the callback outstanding, and the callback over.
Outcomes   == {"returned", "raised"}
WorkStates == {"none", "queued", "running", "settled"} \cup Outcomes

\* "dispatch_failed" is the FAILED snapshot of start() that is not terminal.
SnapStates == {"none", "RUNNING", "dispatch_failed"} \cup EndStatuses

\* Nobody is inside start() or _finished().
LockFree == starting = NoExec /\ finishing = NoExec

\* The work of e is submitted and its callback is not over.
Live(e) == work[e] \in {"queued", "running"} \cup Outcomes

\* The product status the persisted state and report of a run stand for.
StatusOf ==
    [f \in RunFiles |->
        CASE f = "passed"                     -> "SUCCEEDED"
          [] f \in {"BLOCKED", "LIMIT_REACHED"} -> f
          [] f = "ABORTED"                    -> "INTERRUPTED"
          [] OTHER                            -> "FAILED"]

\* A reconciliation that trusts the run state alone.
FaultyVerdict(e) == StatusOf[runFile[e]]

\* The status _finished records: FAILED for an exception or for evidence that
\* cannot be read, otherwise what the persisted run files stand for.
Verdict(e) ==
    IF work[e] = "returned" /\ report[e] THEN StatusOf[runFile[e]] ELSE "FAILED"

-----------------------------------------------------------------------------
Init ==
    /\ record = [e \in Execs |-> "absent"]
    /\ deliveries = [e \in Execs |-> 0]
    /\ runFile = [e \in Execs |-> "none"]
    /\ report = [e \in Execs |-> FALSE]
    /\ proc = "up"
    /\ active = NoExec
    /\ snap = [e \in Execs |-> "none"]
    /\ work = [e \in Execs |-> "none"]
    /\ starting = NoExec
    /\ finishing = NoExec
    /\ finishStep = "idle"
    /\ answer = [e \in Execs |-> "none"]
    /\ faulted = {}
    /\ boots = 0
    /\ faults = 0

-----------------------------------------------------------------------------
(* start(), in the thread of the request.                                  *)

\* A start that does not look at the slot.
FaultyStartPersist(e) ==
    /\ proc = "up"
    /\ LockFree
    /\ record[e] = "absent"
    /\ record' = [record EXCEPT ![e] = "RUNNING"]
    /\ starting' = e
    /\ UNCHANGED <<deliveries, runVars, proc, active, snap, work, finishing,
                   finishStep, obsVars>>

\* start() up to add_execution.  A refused request (shutdown, capacity, task,
\* preflight, catalog write) raises before anything is stored and releases
\* the lock: it changes nothing.
StartPersist(e) ==
    /\ proc = "up"
    /\ LockFree
    /\ active = NoExec
    /\ record[e] = "absent"
    /\ record' = [record EXCEPT ![e] = "RUNNING"]
    /\ starting' = e
    /\ UNCHANGED <<deliveries, runVars, proc, active, snap, work, finishing,
                   finishStep, obsVars>>

StartSubmit(e) ==
    /\ starting = e
    /\ work[e] = "none"
    /\ snap' = [snap EXCEPT ![e] = "RUNNING"]
    /\ active' = e
    /\ work' = [work EXCEPT ![e] = "queued"]
    /\ UNCHANGED <<diskVars, proc, threadVars, obsVars>>

\* submit() raises before it accepts the work.
StartDispatchFails(e) ==
    /\ starting = e
    /\ work[e] = "none"
    /\ faults < MaxFaults
    /\ snap' = [snap EXCEPT ![e] = "dispatch_failed"]
    /\ starting' = NoExec
    /\ faulted' = faulted \cup {e}
    /\ faults' = faults + 1
    /\ UNCHANGED <<diskVars, proc, active, work, finishing, finishStep, answer,
                   boots>>

\* add_done_callback: a future that is done already runs the callback here and
\* now, in this thread, which owns the lock and keeps it.
StartReturn(e) ==
    /\ starting = e
    /\ work[e] # "none"
    /\ starting' = NoExec
    /\ IF work[e] \in Outcomes
       THEN finishing' = e /\ finishStep' = "reconciled"
       ELSE UNCHANGED <<finishing, finishStep>>
    /\ UNCHANGED <<diskVars, proc, active, snap, work, obsVars>>

-----------------------------------------------------------------------------
(* _run_worker(), in the pool thread, and the run behind it.               *)

\* The pool has one thread: it takes the next work when it has no other,
\* neither running nor in its callback.
WorkerBegin(e) ==
    /\ work[e] = "queued"
    /\ \A other \in Execs \ {e} : work[other] \notin {"running"} \cup Outcomes
    /\ work' = [work EXCEPT ![e] = "running"]
    /\ UNCHANGED <<diskVars, proc, active, snap, threadVars, obsVars>>

\* The run directory is claimed and run.json written for the first time.
RunClaims(e) ==
    /\ work[e] = "running"
    /\ runFile[e] = "none"
    /\ runFile' = [runFile EXCEPT ![e] = "active"]
    /\ UNCHANGED <<catalogVars, report, proc, active, snap, work, threadVars,
                   obsVars>>

\* The engine ends the run, by any of its ends, and writes run.json.
RunEnd(e, end) ==
    /\ work[e] = "running"
    /\ runFile[e] = "active"
    /\ runFile' = [runFile EXCEPT ![e] = end]
    /\ UNCHANGED <<catalogVars, report, proc, active, snap, work, threadVars,
                   obsVars>>

\* The engine writes the final report of an ended run.
RunReport(e) ==
    /\ work[e] = "running"
    /\ runFile[e] \in RunEnds
    /\ report' = [report EXCEPT ![e] = TRUE]
    /\ UNCHANGED <<catalogVars, runFile, proc, active, snap, work, threadVars,
                   obsVars>>

\* The worker returns: with run.json and the report rewritten once more, or
\* without a report when the inspection of the project blocked the run, whose
\* blocked state is not written.
WorkerReturn(e) ==
    /\ work[e] = "running"
    /\ report[e] \/ runFile[e] = "active"
    /\ work' = [work EXCEPT ![e] = "returned"]
    /\ UNCHANGED <<diskVars, proc, active, snap, threadVars, obsVars>>

\* A write of the run directory is cut short: run.json and the report are
\* written in place.
MayTear(e) ==
    \/ UNCHANGED runVars
    \/ /\ runFile[e] # "none"
       /\ runFile' = [runFile EXCEPT ![e] = "torn"]
       /\ UNCHANGED report
    \/ /\ report[e]
       /\ report' = [report EXCEPT ![e] = FALSE]
       /\ UNCHANGED runFile

\* The worker raises: the claim of the run or of the budget is refused, a
\* write fails, or the budget cannot be closed after a run that ended.
WorkerRaise(e) ==
    /\ work[e] = "running"
    /\ MayTear(e)
    /\ work' = [work EXCEPT ![e] = "raised"]
    /\ UNCHANGED <<catalogVars, proc, active, snap, threadVars, obsVars>>

-----------------------------------------------------------------------------
(* _finished(), the callback of the future.                                *)

\* A callback lost to the exception of the future.
FaultyFinishBegin(e) ==
    /\ LockFree
    /\ work[e] = "returned"
    /\ finishing' = e
    /\ finishStep' = "reconciled"
    /\ UNCHANGED <<diskVars, proc, active, snap, work, starting, obsVars>>

\* A shutdown that waits for the pool with the lock held keeps it from here.
BlockedFinishBegin(e) ==
    /\ proc # "closing"
    /\ LockFree
    /\ work[e] \in Outcomes
    /\ finishing' = e
    /\ finishStep' = "reconciled"
    /\ UNCHANGED <<diskVars, proc, active, snap, work, starting, obsVars>>

\* The callback takes the lock and reads the result and the run files, which
\* nobody writes any more: Verdict(e) stays what it is now until it is over.
FinishBegin(e) ==
    /\ LockFree
    /\ work[e] \in Outcomes
    /\ finishing' = e
    /\ finishStep' = "reconciled"
    /\ UNCHANGED <<diskVars, proc, active, snap, work, starting, obsVars>>

\* The finally block: the future is forgotten and the slot given back.
FreeSlot(e) ==
    /\ work' = [work EXCEPT ![e] = "settled"]
    /\ active' = IF active = e THEN NoExec ELSE active
    /\ finishing' = NoExec
    /\ finishStep' = "idle"

FinishPersist(e) ==
    /\ finishing = e
    /\ finishStep = "reconciled"
    /\ record' = [record EXCEPT ![e] = Verdict(e)]
    /\ finishStep' = "persisted"
    /\ UNCHANGED <<deliveries, runVars, proc, active, snap, work, starting,
                   finishing, obsVars>>

\* A callback that tells clients of an end it could not record.
PublishingFinishPersistFails(e) ==
    /\ finishing = e
    /\ finishStep = "reconciled"
    /\ faults < MaxFaults
    /\ faults' = faults + 1
    /\ faulted' = faulted \cup {e}
    /\ snap' = [snap EXCEPT ![e] = "FAILED"]
    /\ FreeSlot(e)
    /\ UNCHANGED <<diskVars, proc, starting, answer, boots>>

\* update_execution fails.  The except branch gives a snapshot only to an
\* execution without one, and start() has given one to every execution.
FinishPersistFails(e) ==
    /\ finishing = e
    /\ finishStep = "reconciled"
    /\ faults < MaxFaults
    /\ faults' = faults + 1
    /\ faulted' = faulted \cup {e}
    /\ FreeSlot(e)
    /\ UNCHANGED <<diskVars, proc, snap, starting, answer, boots>>

\* DeliveryService.create for a recorded success: refused when the evidence or
\* the artifact is not current, when the digest does not match or when the
\* catalog cannot be written, and the refusal is swallowed.
FinishDeliver(e) ==
    /\ finishing = e
    /\ finishStep = "persisted"
    /\ Verdict(e) = "SUCCEEDED"
    /\ finishStep' = "delivered"
    /\ \/ /\ deliveries[e] = 0
          /\ runFile[e] = "passed"
          /\ report[e]
          /\ deliveries' = [deliveries EXCEPT ![e] = 1]
       \/ UNCHANGED deliveries
    /\ UNCHANGED <<record, runVars, proc, active, snap, work, starting,
                   finishing, obsVars>>

FinishPublish(e) ==
    /\ finishing = e
    /\ finishStep = IF Verdict(e) = "SUCCEEDED" THEN "delivered" ELSE "persisted"
    /\ snap' = [snap EXCEPT ![e] = Verdict(e)]
    /\ FreeSlot(e)
    /\ UNCHANGED <<diskVars, proc, starting, obsVars>>

-----------------------------------------------------------------------------
(* get(), in the thread of a request.                                      *)

\* A terminal snapshot is the answer; a running one may be refined by the run
\* files but stays RUNNING, since a terminal projection is discarded; without
\* a snapshot the catalog answers, and a record that is not closed is
\* INTERRUPTED with reason UNKNOWN.
Answer(e) ==
    IF snap[e] # "none" THEN snap[e]
    ELSE IF record[e] = "RUNNING" THEN "UNKNOWN"
    ELSE record[e]

Get(e) ==
    /\ proc # "down"
    /\ LockFree
    /\ record[e] # "absent"
    /\ answer' = [answer EXCEPT ![e] = Answer(e)]
    /\ UNCHANGED <<diskVars, proc, active, snap, work, threadVars, faulted,
                   boots, faults>>

-----------------------------------------------------------------------------
(* The process.                                                            *)

\* shutdown() sets the flag under the lock and lets it go.
ShutdownBegin ==
    /\ proc = "up"
    /\ LockFree
    /\ proc' = "closing"
    /\ UNCHANGED <<diskVars, active, snap, work, threadVars, obsVars>>

\* executor.shutdown(wait=True) returns when the queue is empty and the pool
\* thread, whose callbacks run in it, has ended.
ShutdownReturn ==
    /\ proc = "closing"
    /\ \A e \in Execs : ~Live(e)
    /\ proc' = "closed"
    /\ UNCHANGED <<diskVars, active, snap, work, threadVars, obsVars>>

\* The memory of the process is gone, with the lock and every thread.
ForgetMemory ==
    /\ proc' = "down"
    /\ active' = NoExec
    /\ snap' = [e \in Execs |-> "none"]
    /\ work' = [e \in Execs |-> "none"]
    /\ starting' = NoExec
    /\ finishing' = NoExec
    /\ finishStep' = "idle"

Exit ==
    /\ proc = "closed"
    /\ ForgetMemory
    /\ UNCHANGED <<diskVars, obsVars>>

\* The process is killed, possibly in the middle of a write of the run.
Crash ==
    /\ proc \in {"up", "closing"}
    /\ ForgetMemory
    /\ \/ UNCHANGED runVars
       \/ \E e \in Execs : work[e] = "running" /\ MayTear(e)
    /\ UNCHANGED <<catalogVars, obsVars>>

\* A new process reads the catalog; no execution is resumed.
Restart ==
    /\ proc = "down"
    /\ boots < MaxBoots
    /\ boots' = boots + 1
    /\ proc' = "up"
    /\ UNCHANGED <<diskVars, active, snap, work, threadVars, answer, faulted,
                   faults>>

-----------------------------------------------------------------------------
StartStep(e)  == StartSubmit(e) \/ StartDispatchFails(e) \/ StartReturn(e)

WorkerStep(e) ==
    \/ WorkerBegin(e)
    \/ RunClaims(e)
    \/ \E end \in RunEnds : RunEnd(e, end)
    \/ RunReport(e)
    \/ WorkerReturn(e)
    \/ WorkerRaise(e)

FinishStep(e) ==
    \/ FinishBegin(e)
    \/ FinishPersist(e)
    \/ FinishPersistFails(e)
    \/ FinishDeliver(e)
    \/ FinishPublish(e)

Next ==
    \/ \E e \in Execs : \/ StartPersist(e)
                        \/ StartStep(e)
                        \/ WorkerStep(e)
                        \/ FinishStep(e)
                        \/ Get(e)
    \/ ShutdownBegin
    \/ ShutdownReturn
    \/ Exit
    \/ Crash
    \/ Restart

Spec == Init /\ [][Next]_vars

\* A thread inside start(), the pool thread, the callback and a waiting
\* shutdown go on by themselves; clients, shutdowns, crashes and restarts come
\* or do not.  That a run ends is Terminates of AgentRun; that the callback
\* gets the lock needs no more than weak fairness, since while work is live
\* every other start() is refused at once and get() is a single step.
Fairness ==
    /\ \A e \in Execs : /\ WF_vars(StartStep(e))
                        /\ WF_vars(WorkerStep(e))
                        /\ WF_vars(FinishStep(e))
    /\ WF_vars(ShutdownReturn)

FairSpec == Spec /\ Fairness

-----------------------------------------------------------------------------
(* Properties.                                                             *)

TypeOK ==
    /\ record \in [Execs -> {"absent", "RUNNING"} \cup EndStatuses]
    /\ deliveries \in [Execs -> Nat]
    /\ runFile \in [Execs -> RunFiles]
    /\ report \in [Execs -> BOOLEAN]
    /\ proc \in {"up", "closing", "closed", "down"}
    /\ active \in Execs \cup {NoExec}
    /\ snap \in [Execs -> SnapStates]
    /\ work \in [Execs -> WorkStates]
    /\ starting \in Execs \cup {NoExec}
    /\ finishing \in Execs \cup {NoExec}
    /\ finishStep \in {"idle", "reconciled", "persisted", "delivered"}
    /\ answer \in [Execs -> SnapStates \cup {"UNKNOWN"}]
    /\ faulted \subseteq Execs
    /\ boots \in Nat
    /\ faults \in Nat

\* The capacity slot is held exactly while the work of its execution is
\* submitted and its callback is not over: no second execution waits in the
\* pool behind it, and no error path leaves it taken.
SlotIsHeldByLiveWork == \A e \in Execs : Live(e) <=> active = e

\* An execution the catalog calls SUCCEEDED has a run.json that says the run
\* completed with all its evidence, and a report, in this process and in every
\* later one: no crash, torn write or error of the worker comes between.
RecordedSuccessIsBacked ==
    \A e \in Execs :
        record[e] = "SUCCEEDED" => runFile[e] = "passed" /\ report[e]

\* A delivery exists only for an execution whose success is recorded, and an
\* execution has at most one.
DeliveredIsRecordedSuccess ==
    \A e \in Execs :
        /\ deliveries[e] > 0 => record[e] = "SUCCEEDED"
        /\ deliveries[e] <= 1

\* A terminal answer of get() is the recorded one: it was in the catalog before
\* a client could see it, so that a restart cannot take it back.
AnswerIsRecorded ==
    \A e \in Execs : answer[e] \in EndStatuses => record[e] = answer[e]

\* INTERRUPTED with reason UNKNOWN is told only of an execution nothing works
\* on: its process is gone, and no thread of this one runs or starts it.
UnknownIsGone ==
    \A e \in Execs :
        answer[e] = "UNKNOWN" => ~Live(e) /\ starting # e /\ record[e] = "RUNNING"

\* A graceful shutdown strands nothing: when it has returned, every execution
\* this process started is recorded as ended, unless a write or a submission
\* failed for it.
ShutdownStrandsNothing ==
    proc = "closed" =>
        \A e \in Execs :
            snap[e] # "none" => record[e] \in EndStatuses \/ e \in faulted

\* A client never sees an execution come back: an answer that it ended, or
\* that it was interrupted, is the last one it gets.
AnswersOnlyAdvance ==
    [][\A e \in Execs :
        answer[e] \in EndStatuses \cup {"UNKNOWN"} => answer'[e] = answer[e]]_vars

\* The slot as a client of the catalog sees it: taken from the moment the
\* record is opened, which is before _active_execution_id is assigned.
Registry ==
    INSTANCE ExecutionRegistry
        WITH slot <- IF starting # NoExec THEN starting ELSE active

\* The service implements the registry: records are opened by the execution
\* that takes the only slot, closed once, by its holder, and never changed.
FollowsRegistry == Registry!Spec

\* Every submitted execution is recorded as ended, unless a write fails for it
\* or the process is lost: its run ends and its callback is run, whichever
\* thread runs it.
EveryEndIsRecorded ==
    \A e \in Execs :
        Live(e) ~> record[e] \in EndStatuses \/ e \in faulted \/ proc = "down"

\* A graceful shutdown returns: the callback it waits for can get the lock.
ShutdownReturns == proc = "closing" ~> proc # "closing"

-----------------------------------------------------------------------------
(* The inductive invariant behind the safety properties.                   *)

\* _finished has recorded the end of e and still holds the lock.
Recorded(e) == finishing = e /\ finishStep \in {"persisted", "delivered"}

\* The two holders of the lock exclude each other; a start that has not
\* submitted its work finds the slot free; a callback runs for a done future.
LockDiscipline ==
    /\ starting # NoExec =>
           /\ finishing = NoExec
           /\ record[starting] = "RUNNING"
           /\ work[starting] # "settled"
           /\ work[starting] = "none" => active = NoExec /\ snap[starting] = "none"
    /\ finishing # NoExec => work[finishing] \in Outcomes
    /\ finishStep = "idle" <=> finishing = NoExec

\* No start is under way once the shutdown flag is set, and nothing is live
\* once the shutdown has returned.
ShutdownDiscipline ==
    /\ proc # "up" => starting = NoExec
    /\ proc = "closed" => \A e \in Execs : ~Live(e)

\* Live work has a running snapshot, and a running snapshot an open record as
\* long as the callback has not recorded the end.
OpenUntilRecorded ==
    \A e \in Execs :
        /\ Live(e) => snap[e] = "RUNNING"
        /\ snap[e] \in {"RUNNING", "dispatch_failed"} /\ ~Recorded(e) =>
               record[e] = "RUNNING"
        /\ Recorded(e) => record[e] = Verdict(e)

\* What memory and clients know of an execution is in the catalog.
KnownIsRecorded ==
    \A e \in Execs :
        /\ record[e] = "absent" =>
               snap[e] = "none" /\ work[e] = "none" /\ answer[e] = "none"
        /\ snap[e] \in EndStatuses => record[e] = snap[e]
        /\ snap[e] # "none" =>
               Live(e) \/ record[e] \in EndStatuses \/ e \in faulted
        /\ answer[e] = "UNKNOWN" => snap[e] = "none"

IInv ==
    /\ TypeOK
    /\ LockDiscipline
    /\ ShutdownDiscipline
    /\ SlotIsHeldByLiveWork
    /\ OpenUntilRecorded
    /\ KnownIsRecorded
    /\ RecordedSuccessIsBacked
    /\ DeliveredIsRecordedSuccess
    /\ AnswerIsRecorded
    /\ UnknownIsGone

-----------------------------------------------------------------------------
(* What the documents and the code say, and the program does not do.       *)

\* The v0.9 RFC keeps INTERRUPTED / UNKNOWN for an execution whose run is not
\* terminal: after a restart a terminal run is reconstructed normally.
RestartReconstructsTerminalRuns ==
    \A e \in Execs : answer[e] = "UNKNOWN" => runFile[e] \notin RunEnds

\* The except branch of _finished means to leave a terminal snapshot behind
\* when the end cannot be recorded: an execution whose callback is over is not
\* RUNNING.
SettledIsNotRunning ==
    \A e \in Execs : work[e] = "settled" => snap[e] # "RUNNING"

=============================================================================
