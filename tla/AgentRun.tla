------------------------------ MODULE AgentRun ------------------------------
(***************************************************************************)
(* One run of the agent: runtime/engine.py AgentRuntime.run, started by    *)
(* runtime/controller.py RunController.run.  The loop asks a model provider *)
(* for the next turn, executes the tool calls of the turn, and decides by  *)
(* itself when to validate, build, repair and stop.  The model, the tools, *)
(* the build, the validators and the artifact check are the environment:   *)
(* each may answer anything its type allows.                               *)
(*                                                                         *)
(* Definitions named Faulty... are seeded faults: the code as it would be  *)
(* after a plausible mistake.  No action uses them; replacing the operator *)
(* they stand before must break the property they are listed with.         *)
(*                                                                         *)
(* pc is the engine's place: "loop" between two iterations, "tools" while  *)
(* a turn's calls are executed, "finish" / "report" / "done" at the end,   *)
(* "crashed" when the process died.  The calls of a turn are revealed one  *)
(* at a time, which allows exactly the batches the provider may return.    *)
(***************************************************************************)
EXTENDS Integers, FiniteSets

CONSTANTS
    MaxSteps, MaxTools, MaxBuilds,    \* ExecutionLimits
    FocusedStep, ActionOnlyStep, StallStep, \* _FOCUSED_ACTION_STEP ...
    BatchBound,                       \* bound: tool calls per provider turn
    HasPrebuild, HasFunctional,       \* which validators the run is given
    Paths, SourcePaths,               \* files; those under src/main/java/
    InitialTargets,                   \* possible pending_mutation_targets
    ToolVariants,                     \* outputs that tell two results apart
    BuildSignatures,                  \* distinguishable build failures
    PreSignatures, FuncSignatures     \* validation failures, by stage

RoleSource == "role:source"

ASSUME LimitsAssumption ==
    MaxSteps \in Nat \ {0} /\ MaxTools \in Nat \ {0} /\ MaxBuilds \in Nat \ {0}
ASSUME StepsAssumption ==
    /\ FocusedStep \in Nat \ {0} /\ ActionOnlyStep \in Nat /\ StallStep \in Nat
    /\ FocusedStep < ActionOnlyStep /\ ActionOnlyStep < StallStep
ASSUME DomainAssumption ==
    /\ BatchBound \in Nat
    /\ HasPrebuild \in BOOLEAN /\ HasFunctional \in BOOLEAN
    /\ SourcePaths \subseteq Paths
    /\ InitialTargets \subseteq SUBSET (Paths \cup {RoleSource})
    /\ "none" \notin BuildSignatures \cup PreSignatures \cup FuncSignatures

VARIABLES
    phase,          \* run_state.state
    reason,         \* run_state.termination_reason
    pc,             \* place in AgentRuntime.run
    cont,           \* editing_continuation_available
    calls, seen,    \* the current turn: calls answered, kinds of result
    steps, tools, builds, requests,   \* the counters of RunState
    insp, gateViol, recov,            \* _LoopTelemetry consecutive counts
    repairPending,                    \* validation_repair_pending
    lastTool, lastBuild,              \* last_tool_/last_failure_signature
    pending, completed,               \* mutation targets
    valSig, valRepeat,                \* last_validation_signature, repeats
    repairSig, ineffective,           \* last_repair_failure_signature, mark
    disk, report,   \* state in run.json; whether final-report.json exists
    current,        \* history: facts established about the present source
    funcSig, funcCount  \* history: consecutive equal functional failures

turn        == <<calls, seen>>
limitVars   == <<steps, tools, builds, requests>>
pressure    == <<insp, gateViol, recov>>
targetVars  == <<pending, completed>>
stallVars   == <<valSig, valRepeat, repairSig, ineffective>>
historyVars == <<funcSig, funcCount>>
\* What the steps that end a run, and those that weigh a turn, leave alone.
loopVars    == <<cont, turn, limitVars, pressure, repairPending, lastTool,
                 lastBuild, targetVars, stallVars>>
weighedVars == <<turn, limitVars, lastTool, lastBuild, targetVars, stallVars,
                 report, current, historyVars>>
vars == <<phase, reason, pc, cont, turn, limitVars, pressure, repairPending,
          lastTool, lastBuild, targetVars, stallVars, disk, report, current,
          historyVars>>

Lifecycle == INSTANCE RunLifecycle WITH state <- phase

TERMINAL_STATUSES == Lifecycle!TERMINAL_STATUSES
RunStatus == Lifecycle!RunStatus

None == "none"

\* core/terminal_reasons.py, and the reasons that are not agent failures.
TOOL_REJECTED            == "tool rejected"
REPEATED_RECOVERABLE     == "repeated recoverable tool rejection"
REPEATED_BUILD_FAILURE   == "repeated build failure"
DIAGNOSIS_NO_CORRECTION  == "diagnosis produced no correction"
REPEATED_SEMANTIC        == "repeated semantic validation failure"
REPEATED_NO_OP           == "repeated no-op tool calls"
EXPLORATION_STALLED      == "exploration stalled"
PENDING_BLOCK_BUILD      == "pending mutation targets block build"
REPAIR_NO_MUTATION       == "semantic repair produced no mutation"
REPEATED_UNRESOLVED      == "repeated unresolved mutation targets"
REPEATED_GATE            == "repeated action gate violation"

AgentReasons ==
    {TOOL_REJECTED, REPEATED_RECOVERABLE, REPEATED_BUILD_FAILURE,
     DIAGNOSIS_NO_CORRECTION, REPEATED_SEMANTIC, REPEATED_NO_OP,
     EXPLORATION_STALLED, PENDING_BLOCK_BUILD, REPAIR_NO_MUTATION,
     REPEATED_UNRESOLVED, REPEATED_GATE}
OtherReasons ==
    {"completed", "inspection", "blocked", "limit", "error", "artifact"}

\* search_text is offered exactly when list_directory is, and stands for it.
InspectionTools == {"read_file", "list_directory"}
BroadInspectionTools == {"list_directory"}
TargetTools     == {"write_file", "create_file"}
MutationTools   == TargetTools \cup {"delete_file"}
ToolNames       == InspectionTools \cup MutationTools

Facts == {"prebuild", "build", "artifact", "functional", "rejected"}

\* What one turn's results may include beside plain observations.
Kinds == {"changed", "gate", "exists", "fatal", "no effect"}

ControlTypes ==
    /\ phase \in RunStatus
    /\ reason \in AgentReasons \cup OtherReasons \cup {None}
    /\ pc \in {"loop", "tools", "finish", "report", "done", "crashed"}
    /\ cont \in BOOLEAN /\ repairPending \in BOOLEAN
    /\ disk \in RunStatus /\ report \in BOOLEAN

CounterTypes ==
    /\ steps \in 0..MaxSteps /\ tools \in 0..MaxTools
    /\ builds \in 0..MaxBuilds /\ requests \in 0..MaxSteps
    /\ insp \in 0..StallStep /\ gateViol \in 0..2 /\ recov \in 0..2

ResultTypes ==
    /\ calls \in 0..BatchBound /\ seen \subseteq Kinds
    /\ lastTool \in (ToolNames \X ToolVariants \X BOOLEAN) \cup {<<>>}
    /\ lastBuild \in BuildSignatures \cup {None}
    /\ pending \subseteq Paths \cup {RoleSource}
    /\ completed \subseteq Paths \cup {RoleSource}

ValidationTypes ==
    /\ valSig \in PreSignatures \cup FuncSignatures \cup {None}
    /\ valRepeat \in 0..2
    /\ repairSig \in PreSignatures \cup FuncSignatures \cup {None}
    /\ ineffective \in BOOLEAN
    /\ current \subseteq Facts
    /\ funcSig \in FuncSignatures \cup {None} /\ funcCount \in Nat

TypeOK == ControlTypes /\ CounterTypes /\ ResultTypes /\ ValidationTypes

-----------------------------------------------------------------------------
(* Shared steps of the handlers. *)

Active == phase \notin TERMINAL_STATUSES

LimitHit == steps >= MaxSteps \/ tools >= MaxTools \/ builds >= MaxBuilds

\* The run ends: the loop is left and _finish is next.
Stop(status, why) == phase' = status /\ reason' = why /\ pc' = "finish"

\* The handler ends with _persist_state: run.json now holds the new state.
Persist == disk' = phase'

Stay == UNCHANGED <<phase, reason>> /\ pc' = "loop"
Move(next) == phase' = next /\ UNCHANGED reason /\ pc' = "loop"

\* EDITING asks the provider for another turn.
FaultyAskAgain == UNCHANGED cont
AskAgain == cont' = TRUE

\* Required files that no change has touched yet.
Unresolved == pending # {}

\* RunState.reset_validation_stall.
ResetStall == valSig' = None /\ valRepeat' = 0 /\ ineffective' = FALSE

\* How many repetitions of one failure are final.
FaultyFinalRepeat(repeat) == repeat > 2
FinalRepeat(repeat) == repeat >= 2

\* Tools offered at the current inspection streak (_action_gate_state and
\* _tool_specs); ACTION_REQUIRED changes only the wording of the request.
OfferedTools ==
    IF insp >= ActionOnlyStep THEN ToolNames \ InspectionTools
    ELSE IF insp >= FocusedStep THEN ToolNames \ BroadInspectionTools
    ELSE ToolNames

ResetActionPressure == insp' = 0 /\ gateViol' = 0 /\ recov' = 0

Init ==
    /\ phase = "INITIALIZING" /\ reason = None /\ pc = "loop" /\ cont = FALSE
    /\ calls = 0 /\ seen = {}
    /\ steps = 0 /\ tools = 0 /\ builds = 0 /\ requests = 0
    /\ insp = 0 /\ gateViol = 0 /\ recov = 0
    /\ repairPending = FALSE
    /\ lastTool = <<>> /\ lastBuild = None
    /\ pending \in InitialTargets /\ completed = {}
    /\ valSig = None /\ valRepeat = 0 /\ repairSig = None /\ ineffective = FALSE
    /\ disk = "INITIALIZING" /\ report = FALSE
    /\ current = {} /\ funcSig = None /\ funcCount = 0

-----------------------------------------------------------------------------
(* Start: the controller opens the run, the engine looks at the snapshot.  *)

BeginInspection ==
    /\ phase = "INITIALIZING" /\ pc = "loop"
    /\ Move("INSPECTING") /\ Persist
    /\ UNCHANGED <<loopVars, report, current, historyVars>>

InspectProject ==
    /\ phase = "INSPECTING" /\ pc = "loop"
    /\ \/ Move("PLANNING")
       \/ Stop("BLOCKED", "inspection")
       \/ Stop("FAILED", "inspection")
    /\ UNCHANGED <<loopVars, disk, report, current, historyVars>>

\* One iteration of the loop may begin: the run is live and within limits.
Iterating == pc = "loop" /\ Active /\ phase \notin {"INITIALIZING", "INSPECTING"}

\* _check_limits at the head of an iteration raises LimitReachedError.
LimitStop ==
    /\ Iterating /\ LimitHit
    /\ Stop("LIMIT_REACHED", "limit")
    /\ UNCHANGED <<loopVars, disk, report, current, historyVars>>

\* A validator, a tool, the storage or the context raises: "internal error".
InternalError ==
    /\ \/ Iterating /\ ~LimitHit
       \/ pc = "tools"
    /\ Stop("FAILED", "error")
    /\ UNCHANGED <<loopVars, disk, report, current, historyVars>>

-----------------------------------------------------------------------------
(* A provider turn. *)

CallProvider ==
    /\ Iterating /\ ~LimitHit
    /\ \/ phase \in {"PLANNING", "DIAGNOSING", "CORRECTING"}
       \/ phase = "EDITING" /\ cont
    /\ cont' = FALSE
    /\ requests' = requests + 1
    /\ calls' = 0 /\ seen' = {}
    /\ disk' = phase
    /\ \/ /\ steps' = steps + 1
          /\ pc' = "tools" /\ UNCHANGED <<phase, reason>>
       \/ /\ Stop("FAILED", "error")       \* ProviderError
          /\ UNCHANGED steps
    /\ UNCHANGED <<tools, builds, pressure, repairPending, lastTool,
                   lastBuild, targetVars, stallVars,
                   report, current, historyVars>>

\* A call may only be executed within the limits, which every call re-checks.
MayExecute == pc = "tools" /\ calls < BatchBound

LimitInTurn ==
    /\ MayExecute /\ LimitHit
    /\ Stop("LIMIT_REACHED", "limit")
    /\ UNCHANGED <<loopVars, disk, report, current, historyVars>>

\* The call names a tool that was not offered, one the gate withholds or one
\* that does not exist: an error result, and nothing is executed.
GateViolation ==
    /\ MayExecute /\ ~LimitHit
    /\ calls' = calls + 1 /\ seen' = seen \cup {"gate"}
    /\ UNCHANGED <<phase, reason, pc, cont, limitVars, pressure,
                   repairPending, lastTool, lastBuild, targetVars, stallVars,
                   disk, report, current, historyVars>>

\* The target a written path completes (record_completed_mutation_target).
MatchingTarget(p) ==
    IF p \in pending THEN {p}
    ELSE IF p \in SourcePaths THEN pending \cap {RoleSource}
    ELSE {}

\* A tool changed a file.  Nothing known of the old source holds any more.
ExecuteChange ==
    /\ MayExecute /\ ~LimitHit
    /\ \E t \in MutationTools, p \in Paths :
          LET done == IF t \in TargetTools THEN MatchingTarget(p) ELSE {}
          IN /\ pending' = pending \ done
             /\ completed' = completed \cup done
    /\ calls' = calls + 1 /\ seen' = seen \cup {"changed"}
    /\ tools' = tools + 1
    /\ current' = {}
    /\ lastTool' = <<>>
    /\ IF repairPending
       THEN UNCHANGED <<valSig, valRepeat, ineffective>>
       ELSE ResetStall
    /\ disk' = phase
    /\ UNCHANGED <<phase, reason, pc, cont, steps, builds, requests, pressure,
                   repairPending, lastBuild, repairSig, report, historyVars>>

\* create_file on an existing path: the one rejection a run may recover from,
\* and the one result _observe_progress does not compare with the last.
ExecuteExists ==
    /\ MayExecute /\ ~LimitHit
    /\ calls' = calls + 1 /\ seen' = seen \cup {"exists"}
    /\ tools' = tools + 1
    /\ disk' = phase
    /\ UNCHANGED <<phase, reason, pc, cont, steps, builds, requests, pressure,
                   repairPending, lastTool, lastBuild, targetVars, stallVars,
                   report, current, historyVars>>

\* Any other result: an observation, an unchanged write, an error, or a
\* rejection that is fatal for the turn.  A write that fails half way is an
\* error too, although the file is no longer what it was.  The same result
\* twice in a row, with no change in between, ends the run (_observe_progress).
ExecuteOther ==
    /\ MayExecute /\ ~LimitHit
    /\ \E t \in OfferedTools, v \in ToolVariants, rejected, torn \in BOOLEAN :
          /\ torn => t = "write_file" /\ ~rejected
          /\ seen' = seen \cup (IF rejected THEN {"fatal"}
                                ELSE IF t \in InspectionTools THEN {}
                                ELSE {"no effect"})
          /\ lastTool' = <<t, v, rejected>>
          /\ current' = IF torn THEN {} ELSE current
    /\ calls' = calls + 1
    /\ tools' = tools + 1
    /\ disk' = phase
    /\ IF lastTool' = lastTool
       THEN Stop("FAILED",
                 IF repairPending THEN REPAIR_NO_MUTATION ELSE REPEATED_NO_OP)
       ELSE UNCHANGED <<phase, reason, pc>>
    /\ UNCHANGED <<cont, steps, builds, requests, pressure, repairPending,
                   lastBuild, targetVars, stallVars, report, historyVars>>

-----------------------------------------------------------------------------
(* The turn is over: the engine weighs it and moves on.                    *)

\* _record_action_telemetry: the three streaks after this turn.
InspectionTurn == calls > 0 /\ seen = {}

InspAfter  == IF "changed" \in seen THEN 0 ELSE IF InspectionTurn THEN insp + 1 ELSE insp
GateAfter  ==
    IF "changed" \in seen THEN 0 ELSE IF "gate" \in seen THEN gateViol + 1 ELSE gateViol
RecovAfter == IF "changed" \in seen THEN 0 ELSE recov

PressureAfter == insp' = InspAfter /\ gateViol' = GateAfter /\ recov' = RecovAfter

FaultyRepairMutated == calls > 0
RepairMutated == "changed" \in seen

\* The early returns that follow a turn, in the order the code tests them.
Verdict ==
    IF "fatal" \in seen THEN "rejected"
    ELSE IF GateAfter >= 2 \/ InspAfter >= StallStep THEN "stalled"
    ELSE IF repairPending /\ calls = 0 THEN "no repair"
    ELSE IF calls = 0 /\ Unresolved /\ phase \in {"PLANNING", "EDITING"}
         THEN "unresolved targets"
    ELSE IF "gate" \in seen /\ "changed" \notin seen THEN "gate violation"
    ELSE IF "exists" \in seen /\ "changed" \notin seen THEN "file exists"
    ELSE IF phase = "PLANNING" /\ InspectionTurn THEN "inspection"
    ELSE "advance"

EndTurn(verdict) == pc = "tools" /\ Verdict = verdict

TurnRejected ==
    /\ EndTurn("rejected")
    /\ Stop("FAILED", TOOL_REJECTED)
    /\ UNCHANGED <<loopVars, disk, report, current, historyVars>>

TurnStalled ==
    /\ EndTurn("stalled")
    /\ PressureAfter
    /\ Stop("FAILED", IF GateAfter >= 2 THEN REPEATED_GATE
                      ELSE IF repairPending THEN REPAIR_NO_MUTATION
                      ELSE EXPLORATION_STALLED)
    /\ Persist
    /\ UNCHANGED <<cont, repairPending, weighedVars>>

TurnNoRepair ==
    /\ EndTurn("no repair")
    /\ PressureAfter
    /\ Stop("FAILED", REPAIR_NO_MUTATION) /\ Persist
    /\ UNCHANGED <<cont, repairPending, weighedVars>>

\* The model ended its turn while required files are still untouched.
TurnUnresolvedTargets ==
    /\ EndTurn("unresolved targets")
    /\ gateViol' = gateViol + 1 /\ UNCHANGED <<insp, recov>>
    /\ \/ gateViol + 1 >= 2 /\ Stop("FAILED", REPEATED_UNRESOLVED) /\ UNCHANGED disk
       \/ gateViol + 1 < 2 /\ Stay /\ Persist
    /\ UNCHANGED <<cont, repairPending, weighedVars>>

\* EDITING calls the provider again only when told so.
FaultyContinueEditing == cont' = (phase = "EDITING" /\ Unresolved)
ContinueEditing == cont' = (phase = "EDITING" /\ (Unresolved \/ repairPending))

TurnGateViolation ==
    /\ EndTurn("gate violation")
    /\ PressureAfter /\ ContinueEditing
    /\ Stay /\ Persist
    /\ UNCHANGED <<repairPending, weighedVars>>

TurnFileExists ==
    /\ EndTurn("file exists")
    /\ insp' = InspAfter /\ gateViol' = GateAfter /\ recov' = recov + 1
    /\ \/ recov + 1 >= 2 /\ Stop("FAILED", REPEATED_RECOVERABLE)
          /\ UNCHANGED <<cont, disk>>
       \/ recov + 1 < 2 /\ Stay /\ ContinueEditing /\ Persist
    /\ UNCHANGED <<repairPending, weighedVars>>

TurnInspection ==
    /\ EndTurn("inspection")
    /\ PressureAfter
    /\ Stay /\ Persist
    /\ UNCHANGED <<cont, repairPending, weighedVars>>

PlanningDone ==
    /\ EndTurn("advance") /\ phase = "PLANNING"
    /\ PressureAfter
    /\ Move("EDITING") /\ Persist
    /\ cont' = Unresolved
    /\ UNCHANGED <<repairPending, weighedVars>>

FaultyDiagnosisDone ==
    /\ EndTurn("advance") /\ phase = "DIAGNOSING"
    /\ ResetActionPressure
    /\ calls > 0 /\ Move("BUILDING")
    /\ Persist
    /\ UNCHANGED <<cont, repairPending, weighedVars>>
DiagnosisDone ==
    /\ EndTurn("advance") /\ phase = "DIAGNOSING"
    /\ ResetActionPressure
    /\ \/ calls > 0 /\ Move("CORRECTING")
       \/ calls = 0 /\ Stop("FAILED", DIAGNOSIS_NO_CORRECTION)
    /\ Persist
    /\ UNCHANGED <<cont, repairPending, weighedVars>>

\* A correction after a failed build goes straight back to the build; a repair
\* after a failed validation goes through EDITING, and so is validated again.
FaultyCorrectionDone ==
    /\ EndTurn("advance") /\ phase = "CORRECTING"
    /\ PressureAfter
    /\ repairPending' = FALSE
    /\ Move("BUILDING") /\ Persist
    /\ UNCHANGED <<cont, weighedVars>>
CorrectionDone ==
    /\ EndTurn("advance") /\ phase = "CORRECTING"
    /\ PressureAfter
    /\ \/ /\ repairPending /\ RepairMutated
          /\ repairPending' = FALSE
          /\ Move("EDITING") /\ UNCHANGED cont
       \/ /\ repairPending /\ ~RepairMutated
          /\ Move("EDITING") /\ AskAgain /\ UNCHANGED repairPending
       \/ /\ ~repairPending
          /\ Move("BUILDING") /\ UNCHANGED <<cont, repairPending>>
    /\ Persist
    /\ UNCHANGED weighedVars

\* The turn in EDITING left work to do: ask the provider again.
EditingContinues ==
    /\ EndTurn("advance") /\ phase = "EDITING"
    /\ PressureAfter
    /\ AskAgain
    /\ \/ /\ repairPending /\ ~RepairMutated
          /\ UNCHANGED repairPending
       \/ /\ repairPending => RepairMutated
          /\ Unresolved
          /\ repairPending' = FALSE
    /\ Stay /\ Persist
    /\ UNCHANGED weighedVars

-----------------------------------------------------------------------------
(* Validation before the build. *)

\* record_validation_result and the repeat rules that follow a repairable
\* failure with signature s; the third equal failure in a row is final.
RepairableFailure(s) ==
    LET repeat == IF s = valSig THEN valRepeat + 1 ELSE 0
    IN /\ valSig' = s /\ valRepeat' = repeat
       /\ current' = current \cup {"rejected"}
       /\ IF FinalRepeat(repeat)
          THEN /\ Stop("FAILED", REPEATED_SEMANTIC)
               /\ UNCHANGED <<repairSig, ineffective>>
          ELSE /\ Move("CORRECTING")
               /\ IF repeat >= 1
                  THEN ineffective' = TRUE /\ UNCHANGED repairSig
                  ELSE ineffective' = FALSE /\ repairSig' = s
       /\ Persist

\* _run_prebuild_validation, entered with the streaks i, g, r and with no
\* repair outstanding.
Prebuild(i, g, r) ==
    /\ \/ /\ Move("BUILDING") /\ Persist
          /\ IF HasPrebuild
             THEN /\ ResetStall
                  /\ current' = current \cup {"prebuild"}
             ELSE UNCHANGED <<valSig, valRepeat, ineffective, current>>
          /\ insp' = i /\ gateViol' = g /\ recov' = r
          /\ repairPending' = FALSE /\ UNCHANGED <<repairSig, historyVars>>
       \/ /\ HasPrebuild
          /\ Stop("BLOCKED", "blocked") /\ Persist
          /\ insp' = i /\ gateViol' = g /\ recov' = r
          /\ repairPending' = FALSE /\ UNCHANGED <<stallVars, current,
                                                   historyVars>>
       \/ /\ HasPrebuild
          /\ \E s \in PreSignatures : RepairableFailure(s)
          /\ IF phase' = "CORRECTING"
             THEN repairPending' = TRUE /\ ResetActionPressure
             ELSE /\ repairPending' = FALSE
                  /\ insp' = i /\ gateViol' = g /\ recov' = r
          /\ funcSig' = None /\ funcCount' = 0

\* EDITING with nothing left to do, reached from a provider turn ...
EditingDone ==
    /\ EndTurn("advance") /\ phase = "EDITING"
    /\ repairPending => RepairMutated
    /\ ~Unresolved
    /\ Prebuild(InspAfter, GateAfter, RecovAfter)
    /\ UNCHANGED <<cont, turn, limitVars, lastTool, lastBuild, targetVars,
                   report>>

\* ... and from the head of the loop, when no turn was asked for.  The branch
\* for a repair still outstanding here is dead: see OutstandingRepairHasATurn.
EnterEditing ==
    /\ Iterating /\ ~LimitHit
    /\ phase = "EDITING" /\ ~cont /\ ~repairPending
    /\ \/ /\ Unresolved
          /\ AskAgain
          /\ Stay /\ Persist
          /\ UNCHANGED <<pressure, repairPending, stallVars, current,
                         historyVars>>
       \/ /\ ~Unresolved
          /\ Prebuild(insp, gateViol, recov)
          /\ UNCHANGED cont
    /\ UNCHANGED <<turn, limitVars, lastTool, lastBuild, targetVars, report>>

-----------------------------------------------------------------------------
(* Build, artifact, functional validation, report.                         *)

\* Progress seen by _record_action_telemetry after a successful build.  The
\* refusal over pending targets is dead: see TargetsResolvedBeforeBuild.
BuildSucceeds ==
    /\ Iterating /\ ~LimitHit /\ phase = "BUILDING"
    /\ builds' = builds + 1
    /\ lastBuild' = None
    /\ ResetActionPressure
    /\ current' = (current \ {"artifact", "functional"}) \cup {"build"}
    /\ Move("VALIDATING_ARTIFACT") /\ Persist
    /\ UNCHANGED <<cont, turn, steps, tools, requests, repairPending,
                   lastTool, targetVars, stallVars, report, historyVars>>

\* The same failure twice running ends the run, and so does the last attempt.
BuildFails ==
    /\ Iterating /\ ~LimitHit /\ phase = "BUILDING"
    /\ builds' = builds + 1
    /\ \E s \in BuildSignatures :
          /\ lastBuild' = s
          /\ \/ /\ s = lastBuild
                /\ Stop("FAILED", REPEATED_BUILD_FAILURE)
                /\ Persist /\ UNCHANGED pressure
             \/ /\ s # lastBuild /\ builds' >= MaxBuilds
                /\ Stop("LIMIT_REACHED", "limit")
                /\ UNCHANGED <<pressure, disk>>
             \/ /\ s # lastBuild /\ builds' < MaxBuilds
                /\ Move("DIAGNOSING")
                /\ Persist /\ ResetActionPressure
    /\ current' = current \ {"build", "artifact", "functional"}
    /\ funcSig' = None /\ funcCount' = 0
    /\ UNCHANGED <<cont, turn, steps, tools, requests, repairPending,
                   lastTool, targetVars, stallVars, report>>

\* The runner counts the attempt, then cannot carry it out.
BuildRaises ==
    /\ Iterating /\ ~LimitHit /\ phase = "BUILDING"
    /\ builds' = builds + 1
    /\ Stop("FAILED", "error")
    /\ UNCHANGED <<cont, turn, steps, tools, requests, pressure,
                   repairPending, lastTool, lastBuild, targetVars, stallVars,
                   disk, report, current, historyVars>>

FaultyAfterArtifact == "REPORTING"
AfterArtifact == IF HasFunctional THEN "VALIDATING_FUNCTIONAL" ELSE "REPORTING"

ValidateArtifact ==
    /\ Iterating /\ ~LimitHit /\ phase = "VALIDATING_ARTIFACT"
    /\ \/ /\ Move(AfterArtifact)
          /\ current' = current \cup {"artifact"}
          /\ Persist
       \/ /\ Stop("FAILED", "artifact")
          /\ UNCHANGED <<disk, current>>
    /\ UNCHANGED <<loopVars, report, historyVars>>

\* _run_functional_validation: the first staged result that does not pass decides.
ValidateFunctional ==
    /\ Iterating /\ ~LimitHit /\ phase = "VALIDATING_FUNCTIONAL"
    /\ \/ /\ ResetStall
          /\ current' = current \cup {"functional"}
          /\ Move("REPORTING") /\ Persist
          /\ UNCHANGED <<pressure, repairPending, repairSig, historyVars>>
       \/ /\ Stop("BLOCKED", "blocked") /\ Persist
          /\ UNCHANGED <<pressure, repairPending, stallVars, current,
                         historyVars>>
       \/ \E s \in FuncSignatures :
             /\ RepairableFailure(s)
             /\ funcSig' = s
             /\ funcCount' = IF s = funcSig THEN funcCount + 1 ELSE 0
             /\ IF phase' = "CORRECTING"
                THEN repairPending' = TRUE /\ ResetActionPressure
                ELSE UNCHANGED <<pressure, repairPending>>
    /\ UNCHANGED <<cont, turn, limitVars, lastTool, lastBuild, targetVars,
                   report>>

Report ==
    /\ Iterating /\ ~LimitHit /\ phase = "REPORTING"
    /\ Stop("COMPLETED", "completed")
    /\ UNCHANGED <<loopVars, disk, report, current, historyVars>>

-----------------------------------------------------------------------------
(* _finish: run.json, then final-report.json; the process may die before.  *)

FaultySaveRunState ==
    /\ pc = "finish"
    /\ pc' = "report"
    /\ UNCHANGED <<phase, reason, loopVars, disk, report, current, historyVars>>
SaveRunState ==
    /\ pc = "finish"
    /\ disk' = phase /\ pc' = "report"
    /\ UNCHANGED <<phase, reason, loopVars, report, current, historyVars>>

WriteReport ==
    /\ pc = "report"
    /\ report' = TRUE /\ pc' = "done"
    /\ UNCHANGED <<phase, reason, loopVars, disk, current, historyVars>>

Crash ==
    /\ pc \notin {"done", "crashed"}
    /\ pc' = "crashed"
    /\ UNCHANGED <<phase, reason, loopVars, disk, report, current, historyVars>>

Start   == BeginInspection \/ InspectProject
Execute == GateViolation \/ ExecuteChange \/ ExecuteExists \/ ExecuteOther
Weigh ==
    \/ TurnRejected \/ TurnStalled \/ TurnNoRepair \/ TurnUnresolvedTargets
    \/ TurnGateViolation \/ TurnFileExists \/ TurnInspection
    \/ PlanningDone \/ DiagnosisDone \/ CorrectionDone
    \/ EditingContinues \/ EditingDone
Deliver ==
    \/ EnterEditing \/ BuildSucceeds \/ BuildFails \/ BuildRaises
    \/ ValidateArtifact \/ ValidateFunctional \/ Report
Limits == LimitStop \/ LimitInTurn
Finish == SaveRunState \/ WriteReport

Work == Start \/ CallProvider \/ Execute \/ Weigh \/ Deliver \/ Limits \/ Finish

Next == Work \/ InternalError \/ Crash

Spec == Init /\ [][Next]_vars

\* The loop is sequential code whose calls return: a provider request, a tool,
\* a build and a validator each end in an answer, an error or a timeout.
\* Nothing is assumed of exceptions and crashes, which need never happen.
FairSpec == Spec /\ WF_vars(Work)

-----------------------------------------------------------------------------
(* Properties. *)

\* A run is COMPLETED only when the last build, the artifact check and, when
\* there is one, the functional validation all passed on the source as it now
\* is, and every required file was changed (engine.py: BUILDING to REPORTING).
CompletedIsEvidenced ==
    phase = "COMPLETED" =>
        /\ {"build", "artifact"} \subseteq current
        /\ HasFunctional => "functional" \in current
        /\ pending = {}

\* Source a validator has rejected is never built again as it stands: whatever
\* turns a repair takes, the file must change before the next build.
RejectedSourceIsNotBuilt ==
    phase \in {"BUILDING", "VALIDATING_ARTIFACT", "VALIDATING_FUNCTIONAL",
               "REPORTING", "COMPLETED"} => "rejected" \notin current

\* The pre-build validation is bypassed in one case only: the correction of a
\* build that has just failed (CORRECTING goes straight to BUILDING).
PrebuildBypassFollowsFailedBuild ==
    phase = "BUILDING" /\ HasPrebuild /\ "prebuild" \notin current =>
        lastBuild # None

\* No build starts while a required file is untouched: the guard at the head of
\* BUILDING, which ends the run, is never the thing that stops one.
TargetsResolvedBeforeBuild ==
    phase \in {"BUILDING", "DIAGNOSING", "VALIDATING_ARTIFACT",
               "VALIDATING_FUNCTIONAL", "REPORTING"} => pending = {}

\* The engine never fails a repair for want of a mutation without having asked
\* for one: EDITING is entered with a repair outstanding only with a turn due.
OutstandingRepairHasATurn ==
    phase = "EDITING" /\ pc = "loop" /\ repairPending => cont

\* When a repair is marked ineffective, the attempt the feedback names is the
\* one made for the failure now repeated (record_ineffective_repair).
IneffectiveMarkNamesItsAttempt == ineffective => repairSig = valSig

\* The action gate takes the inspection tools away one step before exploring
\* would stall the run, so the stall at _ACTION_STALL_STEP is unreachable.
ExplorationIsGatedBeforeStall == insp < StallStep /\ reason # EXPLORATION_STALLED

\* A final report only ever describes the state run.json holds, and a final
\* state in run.json is the state the run ended in.
ReportAgreesWithRunState ==
    /\ report => disk \in TERMINAL_STATUSES
    /\ disk \in TERMINAL_STATUSES => disk = phase

\* The third equal functional failure in a row ends the run (the rule of
\* record_validation_result and _run_functional_validation).
RepeatedFunctionalFailureIsTerminal == funcCount >= 2 => phase = "FAILED"

\* The engine, which assigns terminal states directly, still never leaves the
\* table of transitions, nor a terminal state.
FollowsLifecycle == Lifecycle!Spec

\* Every run ends, or its process dies: no sequence of answers keeps it going.
Terminates == <>(pc \in {"done", "crashed"})

\* What the documents say and the code does not do; each is refuted by a run.

\* M3 design: a stale PRE_BUILD PASS cannot authorize later completion.
CompletedPrebuildIsCurrent ==
    phase = "COMPLETED" /\ HasPrebuild => "prebuild" \in current

\* RFC v0.1 sections 5.2 and 14: only a failed build meets the attempt limit.
SuccessfulBuildIsValidated ==
    phase = "LIMIT_REACHED" /\ "build" \in current /\ "artifact" \notin current =>
        steps >= MaxSteps \/ tools >= MaxTools

\* RFC v0.1 sections 5.2 and 19: COMPLETED only with the final report persisted.
CompletedOnDiskHasReport == disk = "COMPLETED" => report

-----------------------------------------------------------------------------
(* The inductive invariant: what makes the properties above survive a step. *)

\* Where the engine is, given the state of the run, and conversely.
PlacesFit ==
    /\ pc \in {"loop", "tools"} => Active
    /\ pc \in {"finish", "report", "done"} => ~Active
    /\ pc = "tools" => phase \in {"PLANNING", "DIAGNOSING", "CORRECTING", "EDITING"}

\* Between two decisions every streak is below the value that ends the run,
\* and a turn made of inspections was offered inspection tools.
StreaksBelowLimits ==
    /\ pc \in {"loop", "tools"} =>
          requests = steps /\ gateViol <= 1 /\ recov <= 1 /\ valRepeat <= 1
    /\ insp <= ActionOnlyStep
    /\ pc = "tools" /\ InspectionTurn => insp < ActionOnlyStep

\* The facts each late state rests on.
EvidenceFits ==
    /\ phase \in {"VALIDATING_ARTIFACT", "VALIDATING_FUNCTIONAL", "REPORTING",
                  "COMPLETED"} => "build" \in current
    /\ phase \in {"VALIDATING_FUNCTIONAL", "REPORTING", "COMPLETED"} =>
          "artifact" \in current
    /\ HasFunctional /\ phase \in {"REPORTING", "COMPLETED"} =>
          "functional" \in current

\* Past the first build decision no required file is left.
TargetsFit ==
    phase \in {"BUILDING", "DIAGNOSING", "CORRECTING", "VALIDATING_ARTIFACT",
               "VALIDATING_FUNCTIONAL", "REPORTING", "COMPLETED"} => pending = {}

\* Rejected source has a repair outstanding, which this turn has not begun.
RejectionFits ==
    /\ repairPending =>
          phase \in {"CORRECTING", "EDITING"} \cup Lifecycle!NON_SUCCESS_TERMINAL_STATUSES
    /\ "rejected" \in current /\ phase \notin Lifecycle!NON_SUCCESS_TERMINAL_STATUSES =>
          repairPending /\ (pc = "tools" => "changed" \notin seen)

\* A diagnosis, or a correction that repairs no validation, follows a failure.
DiagnosisFits ==
    phase = "DIAGNOSING" \/ (phase = "CORRECTING" /\ ~repairPending) =>
        lastBuild # None

\* A remembered failure is the one the last repair attempt was made for.
MarkFits == (valSig # None => repairSig = valSig) /\ (ineffective => valSig # None)

\* Once the run state is saved for good, it is the state the run ended in.
SavedStateFits == pc \in {"report", "done"} => disk = phase

\* Another turn is asked for in EDITING only, and asking spends the request.
ContinuationFits == Active /\ cont => phase = "EDITING" /\ pc # "tools"

\* Without a pre-build validation, what the engine remembers of a repeating
\* functional failure never falls behind what has really happened: no turn
\* that could reset it comes between the repair and the next validation.
RepeatFits ==
    ~HasPrebuild =>
        /\ funcCount <= 1 \/ phase = "FAILED"
        /\ funcSig # None =>
              /\ pending = {}
              /\ phase \notin {"INITIALIZING", "INSPECTING", "PLANNING", "DIAGNOSING"}
              /\ phase = "CORRECTING" => repairPending
              /\ phase = "EDITING" => repairPending \/ (pc # "tools" /\ ~cont)
              /\ phase \in {"CORRECTING", "EDITING", "BUILDING",
                            "VALIDATING_ARTIFACT", "VALIDATING_FUNCTIONAL"} =>
                    valSig = funcSig /\ funcCount <= valRepeat

IInv ==
    /\ TypeOK /\ PlacesFit /\ StreaksBelowLimits /\ EvidenceFits /\ TargetsFit
    /\ RejectionFits /\ DiagnosisFits /\ MarkFits /\ SavedStateFits
    /\ PrebuildBypassFollowsFailedBuild /\ OutstandingRepairHasATurn
    /\ ReportAgreesWithRunState /\ ContinuationFits
    /\ reason # EXPLORATION_STALLED

=============================================================================
