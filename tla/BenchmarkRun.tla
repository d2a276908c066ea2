----------------------------- MODULE BenchmarkRun -----------------------------
(* A benchmark batch (benchmark/runner.py, scheduler.py): a schedule of       *)
(* attempts, each executed through the agent under the economic guard and     *)
(* recorded in schedule.json; execution_state.json says where the batch is.   *)
(* A process can die anywhere, and a new one resumes from the three files.    *)
(* EconomicLedger has the guard in detail: here its state is the attempt in   *)
(* progress and what became of each dispatch.                                 *)
EXTENDS Integers, Sequences, FiniteSets

SE == INSTANCE SequencesExt

CONSTANTS
    Cells,          \* task and configuration pairs
    Target,         \* target_valid_repetitions
    MaxAttempts,    \* max_attempts_per_cell
    Reservation,    \* max_agent_steps: logical requests an attempt may use
    SessionCap,     \* logical_session_cap
    Preserve,       \* preserve_workspaces
    MaxDispatches, MaxSessions,   \* bounds
    None

ASSUME BenchmarkConstants ==
    /\ IsFiniteSet(Cells)
    /\ Target \in Nat \ {0} /\ MaxAttempts \in Nat /\ MaxAttempts >= Target
    /\ Reservation \in Nat \ {0} /\ SessionCap \in Nat \ {0}
    /\ Preserve \in BOOLEAN

VARIABLES
    schedule, savedSchedule,  \* BenchmarkSchedule in the process and in schedule.json
    state,                    \* execution_state.json
    economy,                  \* economic-state.json, which memory follows
    pc, attempt,              \* where _drive_batch is, and on which attempt
    fresh,                    \* resume mode, recovery not looked at yet
    recovering,               \* the request in hand is a reissue
    turns, used,              \* logical requests of the attempt and of the session
    workspaces,               \* workspaces on disk
    sessions

process == <<schedule, pc, attempt, fresh, recovering, turns, used>>
files == <<savedSchedule, state, economy, workspaces>>
vars == <<process, files, sessions>>

(* INVALID is treated as BLOCKED is.                                          *)
Statuses == {"COMPLETED", "BLOCKED"}
Attempt(c, r, n) == [cell |-> c, rep |-> r, nth |-> n]
AllAttempts == [cell: Cells, rep: 0..(Target - 1), nth: 1..MaxAttempts]
ASSUME NoneIsNoAttempt == None \notin AllAttempts

-----------------------------------------------------------------------------
(* The scheduler.  A schedule is its list of attempts and, by cell, the runs  *)
(* recorded so far.                                                           *)
Planned(s, c) == {i \in DOMAIN s.attempts : s.attempts[i].cell = c}
Runs(s, c) == {i \in DOMAIN s.runs : s.runs[i].attempt.cell = c}
Completed(s, c) == {i \in Runs(s, c) : s.runs[i].status = "COMPLETED"}
(* The classifier gives a COMPLETED run PASS or FAIL: every one is valid.     *)
Complete(s, c) == Cardinality(Completed(s, c)) >= Target
Exhausted(s, c) == ~Complete(s, c) /\ Cardinality(Planned(s, c)) >= MaxAttempts
Unresolved(s, c) == {r \in 0..(Target - 1) :
                       \A i \in Completed(s, c) : s.runs[i].attempt.rep # r}
NeedsReplacement(s, c) == Unresolved(s, c) # {} /\ ~Complete(s, c) /\ ~Exhausted(s, c)

(* next_replacement: the first unresolved repetition, after all the others.   *)
NextReplacement(s, c) ==
    LET r == CHOOSE x \in Unresolved(s, c) : \A y \in Unresolved(s, c) : x <= y
    IN  IF NeedsReplacement(s, c)
        THEN [s EXCEPT !.attempts = Append(@, Attempt(c, r, Cardinality(Planned(s, c)) + 1))]
        ELSE s

(* A run that is not valid gets a replacement, if the cell may have one.      *)
FaultyRecord(s, a, status) ==
    [s EXCEPT !.runs = Append(@, [attempt |-> a, status |-> status])]
Record(s, a, status) ==
    LET done == [s EXCEPT !.runs = Append(@, [attempt |-> a, status |-> status])]
    IN  IF status = "COMPLETED" THEN done ELSE NextReplacement(done, a.cell)

Done(s) == {s.runs[i].attempt : i \in DOMAIN s.runs}
Pending(s) == {i \in DOMAIN s.attempts : s.attempts[i] \notin Done(s)}
NextPending(s) ==
    IF Pending(s) = {} THEN None
    ELSE s.attempts[CHOOSE i \in Pending(s) : \A j \in Pending(s) : i <= j]

(* create_initial_schedule: the first attempts, repetition by repetition, the *)
(* cells of each in an order that hashes decide.                              *)
FirstAttempts == {Attempt(c, r, r + 1) : c \in Cells, r \in 0..(Target - 1)}
InitialSchedules ==
    {[attempts |-> s, runs |-> <<>>] :
       s \in {t \in [1..Cardinality(FirstAttempts) -> FirstAttempts] :
                \A i, j \in DOMAIN t : i < j => t[i] # t[j] /\ t[i].rep <= t[j].rep}}

-----------------------------------------------------------------------------
(* What the guard remembers: dispatches are RESERVED, STARTED, ANSWERED or    *)
(* MISSING (response missing, money written off); of is the one it reissues.  *)
Dispatch(a, of) == [attempt |-> a, state |-> "RESERVED", of |-> of]
Last == Len(economy.dispatches)
OpenMoney(e, a) == \E i \in DOMAIN e.dispatches :
    e.dispatches[i].attempt = a /\ e.dispatches[i].state \in {"RESERVED", "STARTED"}
(* _pending_recovery_record.                                                  *)
LostOf(e, a) == {i \in DOMAIN e.dispatches :
                   e.dispatches[i].attempt = a /\ e.dispatches[i].state = "MISSING"}
Children(e, i) == {j \in DOMAIN e.dispatches : e.dispatches[j].of = i}

Init ==
    /\ schedule \in InitialSchedules /\ savedSchedule = schedule
    /\ state = [status |-> "RUNNING", next |-> NextPending(schedule)]
    /\ economy = [active |-> None, recon |-> "CLEAR", dispatches |-> <<>>]
    /\ pc = "loop" /\ attempt = None /\ fresh = FALSE /\ recovering = FALSE
    /\ turns = 0 /\ used = 0 /\ workspaces = {} /\ sessions = 1

-----------------------------------------------------------------------------
(* The session ends: paused, completed, or by an exception that is raised     *)
(* again once the state is written.  Its memory is gone.                      *)
Ended ==
    /\ pc' = "stopped" /\ attempt' = None /\ fresh' = FALSE /\ recovering' = FALSE
    /\ turns' = 0 /\ used' = 0 /\ schedule' = savedSchedule' /\ UNCHANGED sessions
Stop(status) ==
    /\ state' = [status |-> status, next |-> NextPending(schedule)]
    /\ savedSchedule' = schedule
    /\ Ended

CompleteBatch ==
    /\ pc = "loop" /\ NextPending(schedule) = None
    /\ Stop("COMPLETED")
    /\ UNCHANGED <<economy, workspaces>>
LogicalBudgetPause ==
    /\ pc = "loop" /\ NextPending(schedule) # None
    /\ SessionCap - used < Reservation
    /\ Stop("BUDGET_PAUSED")
    /\ UNCHANGED <<economy, workspaces>>

(* guard.begin_attempt: the attempt may be active already.                    *)
BeginAttempt ==
    /\ pc = "loop" /\ NextPending(schedule) # None
    /\ SessionCap - used >= Reservation
    /\ economy.active \in {None, NextPending(schedule)}
    /\ attempt' = NextPending(schedule) /\ pc' = "begun"
    /\ economy' = IF economy.active = attempt' THEN economy
                  ELSE [economy EXCEPT !.active = attempt', !.recon = "CLEAR"]
    /\ UNCHANGED <<schedule, fresh, recovering, turns, used, savedSchedule, state,
                   workspaces, sessions>>

(* In the first iteration of a resumed session: more than one lost dispatch   *)
(* raises, a lost one is recovered; otherwise the attempt is executed, which  *)
(* raises when its workspace is still there.                                  *)
RaiseOnTwoLost ==
    /\ pc = "begun" /\ fresh /\ Cardinality(LostOf(economy, attempt)) > 1
    /\ Stop("RUNNING")
    /\ UNCHANGED <<economy, workspaces>>
Recover ==
    /\ pc = "begun" /\ fresh /\ Cardinality(LostOf(economy, attempt)) = 1
    /\ \/ (* reissue *)
          /\ Last < MaxDispatches
          /\ economy' = [economy EXCEPT !.dispatches = Append(@, Dispatch(attempt,
                           CHOOSE i \in LostOf(economy, attempt) : TRUE))]
          /\ pc' = "reserved" /\ recovering' = TRUE
          /\ UNCHANGED <<schedule, attempt, fresh, turns, used, savedSchedule, state, sessions>>
       \/ (* the budget refuses it *)
          Stop("BUDGET_PAUSED") /\ UNCHANGED economy
    /\ UNCHANGED workspaces
NothingLost == fresh => LostOf(economy, attempt) = {}
(* _drive_batch would pause if uncertain money had no lost dispatch of this    *)
(* attempt; the ledgers that this program writes never look so.               *)
FaultyMayExecute == TRUE
MayExecute == NothingLost /\ (fresh => economy.recon = "CLEAR")
FaultyPrepareWorkspace ==
    /\ pc = "begun" /\ MayExecute
    /\ attempt \notin workspaces
    /\ workspaces' = workspaces \cup {attempt}
    /\ pc' = "running" /\ turns' = 0 /\ fresh' = FALSE
    /\ UNCHANGED <<schedule, attempt, recovering, used, savedSchedule, state, economy, sessions>>
PrepareWorkspace ==
    /\ pc = "begun" /\ MayExecute
    /\ \/ /\ attempt \notin workspaces
          /\ workspaces' = workspaces \cup {attempt}
          /\ pc' = "running" /\ turns' = 0 /\ fresh' = FALSE
          /\ UNCHANGED <<schedule, attempt, recovering, used, savedSchedule, state, sessions>>
       \/ attempt \in workspaces /\ Stop("RUNNING") /\ UNCHANGED workspaces
    /\ UNCHANGED economy

-----------------------------------------------------------------------------
(* executor.execute: the agent's requests, each reserved, started, and then   *)
(* answered or lost.                                                          *)
AtDispatch(from, to, next) ==
    /\ pc = from /\ pc' = next
    /\ economy' = [economy EXCEPT !.dispatches[Last].state = to]
    /\ UNCHANGED <<schedule, attempt, fresh, recovering, used, savedSchedule, state,
                   workspaces, sessions>>
Reserve ==
    /\ pc = "running" /\ turns < Reservation /\ Last < MaxDispatches
    /\ economy' = [economy EXCEPT !.dispatches = Append(@, Dispatch(attempt, 0))]
    /\ pc' = "reserved" /\ turns' = turns + 1
    /\ UNCHANGED <<schedule, attempt, fresh, recovering, used, savedSchedule, state,
                   workspaces, sessions>>
Start == AtDispatch("reserved", "STARTED", "inflight") /\ UNCHANGED turns
Answer ==
    /\ ~recovering
    /\ AtDispatch("inflight", "ANSWERED", "running") /\ UNCHANGED turns

(* cleanup in the executor's finally clause.                                  *)
Cleaned == IF Preserve THEN workspaces ELSE workspaces \ {attempt}

(* The guard latches: the result carries a provider error, or recovery gives  *)
(* up.  A reissue that is answered pauses too, because the executor cannot    *)
(* continue from an answer.                                                   *)
Lose ==
    /\ pc = "inflight"
    /\ economy' = [economy EXCEPT !.dispatches[Last].state = "MISSING",
                                  !.recon = "UNCERTAIN_CONSUMED"]
    /\ Stop("BUDGET_PAUSED")
    /\ workspaces' = IF recovering THEN workspaces ELSE Cleaned
AnswerReissue ==
    /\ pc = "inflight" /\ recovering
    /\ economy' = [economy EXCEPT !.dispatches[Last].state = "ANSWERED", !.recon = "CLEAR"]
    /\ Stop("BUDGET_PAUSED")
    /\ UNCHANGED workspaces

(* The session stops while the agent runs, and the attempt stays the next one: *)
(* the budget refuses a request, the provider limits the rate, or the executor *)
(* raises.                                                                     *)
StopsRunning(status) ==
    /\ pc = "running"
    /\ Stop(status)
    /\ workspaces' = Cleaned
    /\ UNCHANGED economy
EconomicPause == StopsRunning("BUDGET_PAUSED")
RateLimitPause == StopsRunning("RATE_LIMIT_PAUSED")
ExecutorRaises == StopsRunning("RUNNING")

(* A result.  end_attempt refuses while money is reserved (an exception, which *)
(* ExecutorRaises covers); then the run and its replacement are recorded in memory. *)
FinishFrom(stages, status, ended) ==
    /\ pc \in stages
    /\ economy' = ended
    /\ schedule' = Record(schedule, attempt, status)
    /\ used' = used + turns /\ pc' = "ended"
    /\ workspaces' = Cleaned
    /\ UNCHANGED <<attempt, fresh, recovering, turns, savedSchedule, state, sessions>>
FaultyFinishEarly(status) ==
    ~recovering /\ FinishFrom({"running", "inflight"}, status, [economy EXCEPT !.active = None])
Finish(status) ==
    /\ ~OpenMoney(economy, attempt)
    /\ FinishFrom({"running"}, status, [economy EXCEPT !.active = None])

(* Two files, one after the other.                                            *)
WriteSchedule ==
    /\ pc = "ended" /\ pc' = "written"
    /\ savedSchedule' = schedule
    /\ UNCHANGED <<schedule, attempt, fresh, recovering, turns, used, state, economy,
                   workspaces, sessions>>
WriteState ==
    /\ pc = "written" /\ pc' = "loop"
    /\ state' = [status |-> "RUNNING", next |-> NextPending(schedule)]
    /\ UNCHANGED <<schedule, attempt, fresh, recovering, turns, used, savedSchedule,
                   economy, workspaces, sessions>>
-----------------------------------------------------------------------------
Crash ==
    /\ pc # "stopped"
    /\ UNCHANGED files
    /\ Ended

(* What a resumption checks before it changes anything: one reissue for a      *)
(* dispatch (reconstruct_execution), evidence for any uncertainty              *)
(* (_restore_economic_state), and a state that names the next attempt of the   *)
(* schedule (_validate_resume_state).                                          *)
OneChildEach == \A i \in DOMAIN economy.dispatches : Cardinality(Children(economy, i)) <= 1
EvidenceForUncertain ==
    economy.recon # "CLEAR" =>
      \E i \in DOMAIN economy.dispatches : economy.dispatches[i].state = "MISSING"
StateMatchesSchedule ==
    NextPending(savedSchedule) # None => state.next = NextPending(savedSchedule)
Loaded == savedSchedule
Resume ==
    /\ pc = "stopped" /\ state.status # "COMPLETED"
    /\ sessions < MaxSessions /\ sessions' = sessions + 1
    /\ OneChildEach /\ EvidenceForUncertain /\ StateMatchesSchedule
    /\ schedule' = Loaded
    /\ state' = [status |-> "RUNNING", next |-> NextPending(Loaded)]
    /\ pc' = "loop" /\ attempt' = None /\ fresh' = TRUE /\ recovering' = FALSE
    /\ turns' = 0 /\ used' = 0
    /\ UNCHANGED <<savedSchedule, economy, workspaces>>

DriveBatch ==
    \/ CompleteBatch \/ LogicalBudgetPause \/ BeginAttempt
    \/ RaiseOnTwoLost \/ Recover \/ PrepareWorkspace
    \/ Reserve \/ Start \/ Answer \/ Lose \/ AnswerReissue
    \/ EconomicPause \/ RateLimitPause \/ ExecutorRaises
    \/ \E status \in Statuses : Finish(status)
    \/ WriteSchedule \/ WriteState
Next == DriveBatch \/ Crash \/ Resume

(* A process that lives goes on: the runner waits for nothing but the        *)
(* executor, which its own limits end.                                        *)
Spec == Init /\ [][Next]_vars /\ WF_vars(DriveBatch)
-----------------------------------------------------------------------------
(* Properties.                                                                *)

Schedules == [attempts: Seq(AllAttempts), runs: Seq([attempt: AllAttempts, status: Statuses])]
TypeOK ==
    /\ schedule \in Schedules /\ savedSchedule \in Schedules
    /\ state \in [status: {"RUNNING", "BUDGET_PAUSED", "RATE_LIMIT_PAUSED", "COMPLETED"},
                  next: AllAttempts \cup {None}]
    /\ economy.active \in AllAttempts \cup {None}
    /\ economy.recon \in {"CLEAR", "UNCERTAIN_CONSUMED"}
    /\ attempt \in AllAttempts \cup {None} /\ workspaces \subseteq AllAttempts
    /\ {fresh, recovering} \subseteq BOOLEAN /\ {turns, used, sessions} \subseteq Nat

(* A batch that says COMPLETED has decided every cell: its valid repetitions  *)
(* are there or its attempts are used up; no BLOCKED run was left without a   *)
(* replacement.                                                               *)
CompletedIsDecided ==
    state.status = "COMPLETED" =>
      \A c \in Cells : Complete(savedSchedule, c) \/ Exhausted(savedSchedule, c)

(* Crashes and resumptions neither record an attempt twice nor plan more than *)
(* a cell's attempts, whose numbers are distinct.                             *)
RecordedOnce ==
    \A s \in {schedule, savedSchedule} :
      /\ \A i, j \in DOMAIN s.runs : s.runs[i].attempt = s.runs[j].attempt => i = j
      /\ \A i, j \in DOMAIN s.attempts :
           i # j => [cell |-> s.attempts[i].cell, nth |-> s.attempts[i].nth]
                    # [cell |-> s.attempts[j].cell, nth |-> s.attempts[j].nth]
      /\ \A c \in Cells : Cardinality(Planned(s, c)) <= MaxAttempts

(* The file's history only grows: completed runs and replacements survive     *)
(* every pause, crash and resumption.                                         *)
HistoryGrows ==
    [][/\ SE!IsPrefix(savedSchedule.runs, savedSchedule'.runs)
       /\ SE!IsPrefix(savedSchedule.attempts, savedSchedule'.attempts)]_vars

(* A recorded attempt has no money open: a request whose outcome is unknown   *)
(* keeps its attempt from being recorded.                                     *)
RecordedIsSettled ==
    \A i \in DOMAIN schedule.runs : ~OpenMoney(economy, schedule.runs[i].attempt)

(* While an answer is lost and its money uncertain, no request goes out but   *)
(* its reissue, and no other attempt begins.                                  *)
UncertainBlocksOthers ==
    [][economy.recon # "CLEAR" =>
         /\ economy'.active = economy.active
         /\ Len(economy'.dispatches) > Last => economy'.dispatches[Last + 1].of # 0]_vars

(* The active attempt of the ledger is the next one of the schedule, so that  *)
(* begin_attempt after any crash never meets another attempt.                 *)
ActiveIsNext ==
    economy.active # None /\ pc \in {"stopped", "loop"} =>
      economy.active = NextPending(savedSchedule)

(* What schedule.json says of each attempt.  It, the attempt in the ledger and *)
(* the status in execution_state.json are written one after the other, with    *)
(* crashes in between, and are together a batch as BenchmarkBatch describes it.*)
Outcome(s) == [a \in AllAttempts |->
    IF a \in Done(s) THEN s.runs[CHOOSE i \in DOMAIN s.runs : s.runs[i].attempt = a].status
    ELSE IF \E i \in DOMAIN s.attempts : s.attempts[i] = a THEN "planned" ELSE "unplanned"]
Batch ==
    INSTANCE BenchmarkBatch
    WITH outcome <- Outcome(savedSchedule), active <- economy.active,
         complete <- (state.status = "COMPLETED")
FollowsBatch == Batch!Spec

(* The recovery RFC: one recovery reissue per logical attempt.  In the code a  *)
(* reissue that was answered leaves the dispatch it recovers as it was, and    *)
(* the next resumption reissues it again.                                      *)
OneReissue ==
    \A a \in AllAttempts :
      Cardinality({i \in DOMAIN economy.dispatches :
                     economy.dispatches[i].attempt = a /\ economy.dispatches[i].of # 0
                     /\ economy.dispatches[i].state # "RESERVED"}) <= 1

(* The recovery design: when a process stops after a dispatch was started,     *)
(* startup reconstructs it as response missing and uncertain, and resumption   *)
(* goes through recovery.  In the code it stays started.                       *)
StartupReconstructs ==
    fresh => \A i \in DOMAIN economy.dispatches :
               economy.dispatches[i].of = 0 => economy.dispatches[i].state # "STARTED"

(* Every session ends: with a completed batch, a pause or an exception.       *)
SessionsEnd == []<>(pc = "stopped")
=============================================================================
