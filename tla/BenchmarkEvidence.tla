--------------------------- MODULE BenchmarkEvidence ---------------------------
(* What a benchmark makes of an agent's run (benchmark/executor.py,           *)
(* functional.py, acceptance.py, collector.py, classifier.py, aggregator.py): *)
(* the run leaves events and counters, builds, an artifact and a Minecraft    *)
(* result; they are collected, cross-checked and classified, and the verdict  *)
(* enters its cell of the comparison.  The agent and Minecraft are the        *)
(* environment's; how the run ends is constrained as the engine does.         *)
EXTENDS Naturals, Sequences, FiniteSets, SequencesExt, FiniteSetsExt

CONSTANTS
    MaxTurns,   \* bound: model turns of a run
    MaxCalls,   \* bound: tool calls of a run
    MaxBuilds,  \* bound: builds of a run
    MaxRuns,    \* bound: runs of the cell
    MaxCost,    \* bound: what a response may cost
    Budget,     \* the ceiling of the economic ledger the runs are charged to
    TargetValid, \* runs that must count for the cell to be complete
    LocalIds    \* TRUE: ids are made by the provider's client from the call

ASSUME BoundsAssumption ==
    /\ {MaxTurns, MaxCalls, MaxBuilds, MaxRuns, MaxCost, Budget, TargetValid} \subseteq Nat \ {0}
    /\ LocalIds \in BOOLEAN

VARIABLES
    task,       \* what the task requires, and what its acceptance is like
    run,        \* the run as the engine counts it
    log,        \* its events: models called, usage answered, tools
    minecraft,  \* the result the classifier will see, and the build it judged
    verdict,    \* the classification, or None
    cell,       \* the cell's runs: a sequence of verdicts
    ledger,     \* the economic ledger: spent, held for requests without an
                \* answer, and spent by the attempt under way
    begun       \* the ledger as it was when the run began (no guard reads it)

vars == <<task, run, log, minecraft, verdict, cell, ledger, begun>>
money == <<ledger, begun>>

None == "none"
Evidence == {"build", "artifact", "minecraft", "change"}
Results == {"PASS", "FAIL", "TARGET_CRASH", "CRASH", "TIMEOUT", "INFRA_ERROR"}
Broken == {"TARGET_CRASH", "CRASH", "TIMEOUT", "INFRA_ERROR"}
Verdicts == {"PASS", "FAIL", "BLOCKED", "INVALID"}

(* The acceptance metadata of a task: one that can be shown to the agent as a *)
(* public contract, one that cannot and stays with the executor, and one with *)
(* an extra observation that is no Minecraft spec, which cannot be shown      *)
(* either (build_public_validation_contract).                                 *)
Acceptances == {"public", "legacy", "malformed"}

(* What an artifact has at the place of a required resource: what is asked    *)
(* for, something else, nothing that can be read, or the JSON value null, on  *)
(* which no assertion is evaluated (evaluate_required_resources).             *)
Contents == {"right", "wrong", "unreadable", "null"}
Accepted(content) == content \in {"right", "null"}

(* How a run ends: its status with the reason's kind.                         *)
Endings == {"completed", "limit", "provider_error", "agent_failure",
            "blocked", "failed"}

NoRun == [ending |-> None, requests |-> 0, calls |-> 0, attempts |-> 0,
          builds |-> << >>, artifact |-> None, content |-> None, made |-> 0,
          unchecked |-> FALSE, validated |-> FALSE,
          changed |-> FALSE, contaminated |-> FALSE]
NoLog == [models |-> 0, usages |-> << >>, tools |-> << >>]
NoResult == [status |-> None, judged |-> 0]

(* The ledger outlives the runs; only the attempt's sum begins anew with one. *)
NewLedger == [accumulated |-> 0, uncertain |-> 0, attempt |-> 0]
Remaining(l) == Budget - l.accumulated - l.uncertain
Charged(cost, held) ==
    [accumulated |-> ledger.accumulated + cost, uncertain |-> ledger.uncertain + held,
     attempt |-> ledger.attempt + cost]

(* The engine has the functional validator, and asks the model for nothing    *)
(* between an artifact found valid and its validation.                        *)
Gated == task.acceptance = "public" /\ task.required \cap {"artifact", "minecraft"} # {}
Running == run.ending = None /\ Len(cell) < MaxRuns
Acting == Running /\ ~run.unchecked
LastBuild(outcome) == run.builds # << >> /\ Last(run.builds) = outcome

Init ==
    /\ task \in [required : SUBSET Evidence, acceptance : Acceptances]
    /\ run = NoRun /\ log = NoLog /\ minecraft = NoResult
    /\ verdict = None /\ cell = << >>
    /\ ledger = NewLedger /\ begun = NewLedger

-----------------------------------------------------------------------------
(* The run.                                                                   *)

(* A model turn: the request is counted, its cost charged to the ledger, and  *)
(* the response logged with its usage: what it cost, and what account_response *)
(* says of the ledger afterwards, the budget that remains of all and what the *)
(* attempt has spent.  (Its two totals that are mere texts are left out.)     *)
Turn(cost) ==
    /\ Acting /\ run.requests < MaxTurns /\ cost <= Remaining(ledger)
    /\ run' = [run EXCEPT !.requests = @ + 1]
    /\ ledger' = Charged(cost, 0)
    /\ log' = [log EXCEPT !.models = @ + 1, !.usages = Append(@,
           [derived |-> cost, remaining |-> Remaining(ledger'), attempt |-> ledger'.attempt])]
    /\ UNCHANGED <<task, minecraft, verdict, cell, begun>>

(* A request without a usable response ends the run, and no usage is logged:  *)
(* it was refused or not answered, its money is held because nobody knows, or *)
(* it was charged and the response could not be read or recorded.             *)
Broke == {"provider_error", "failed"}
ProviderFails(ending, billed, held) ==
    /\ Acting /\ run.requests < MaxTurns /\ ending \in Broke
    /\ 0 \in {billed, held} /\ billed + held <= Remaining(ledger)
    /\ run' = [run EXCEPT !.requests = @ + 1, !.ending = ending]
    /\ ledger' = Charged(billed, held)
    /\ log' = [log EXCEPT !.models = @ + 1]
    /\ UNCHANGED <<task, minecraft, verdict, cell, begun>>

(* A call's id: the provider's, or one made of its place, name and arguments, *)
(* the same for a call that is made again in a later response.                *)
CallId(n) == IF LocalIds THEN 1 ELSE n

(* A tool call is counted once and logged twice, as requested and as executed *)
(* or rejected; it may have changed a file.                                   *)
ToolCall(changes) ==
    /\ Acting /\ run.requests > 0 /\ run.calls < MaxCalls
    /\ run' = [run EXCEPT !.calls = @ + 1, !.changed = @ \/ changes]
    /\ log' = [log EXCEPT !.tools = @ \o <<CallId(run.calls + 1), CallId(run.calls + 1)>>]
    /\ UNCHANGED <<task, minecraft, verdict, cell, money>>

(* A build; the artifact of one that succeeds is checked, one found invalid   *)
(* ends the run, and the last one found stays the run's artifact.  A build    *)
(* that cannot be started is counted and leaves no result.                    *)
CanBuild == Acting /\ run.attempts < MaxBuilds
BuildFails ==
    /\ CanBuild
    /\ run' = [run EXCEPT !.attempts = @ + 1, !.builds = Append(@, FALSE)]
    /\ UNCHANGED <<task, log, minecraft, verdict, cell, money>>
BuildRaises ==
    /\ CanBuild
    /\ run' = [run EXCEPT !.attempts = @ + 1, !.ending = "failed"]
    /\ UNCHANGED <<task, log, minecraft, verdict, cell, money>>
BuildSucceeds(valid, content) ==
    /\ CanBuild
    /\ run' = [run EXCEPT
           !.attempts = @ + 1, !.builds = Append(@, TRUE), !.made = run.attempts + 1,
           !.artifact = IF valid THEN "VALID" ELSE "INVALID",
           !.content = content,
           !.unchecked = valid /\ Gated,
           !.ending = IF ~valid THEN "failed" ELSE IF Gated THEN @ ELSE "completed"]
    /\ UNCHANGED <<task, log, minecraft, verdict, cell, money>>

(* BenchmarkFunctionalValidator.validate, for a public contract: what it knew *)
(* of Minecraft is forgotten, an artifact without the resources required is   *)
(* to be repaired, and Minecraft's answer may complete or block the run.      *)
Forgotten == NoResult
ResourcesFail ==
    /\ Running /\ run.unchecked /\ ~Accepted(run.content)
    /\ run' = [run EXCEPT !.unchecked = FALSE, !.validated = TRUE]
    /\ minecraft' = Forgotten
    /\ UNCHANGED <<task, log, verdict, cell, money>>
Validate(result) ==
    /\ Running /\ run.unchecked /\ Accepted(run.content)
    /\ (result = None) = ("minecraft" \notin task.required)
    /\ run' = [run EXCEPT
           !.unchecked = FALSE, !.validated = TRUE,
           !.ending = IF result = "PASS" THEN "completed"
                      ELSE IF result \in {"FAIL", "TARGET_CRASH"} THEN None
                      ELSE "blocked"]
    /\ minecraft' = IF result = None THEN NoResult
                    ELSE [status |-> result, judged |-> run.made]
    /\ UNCHANGED <<task, log, verdict, cell, money>>
ValidateRaises ==
    /\ Running /\ run.unchecked /\ Accepted(run.content) /\ "minecraft" \in task.required
    /\ run' = [run EXCEPT !.unchecked = FALSE, !.ending = "failed"]
    /\ minecraft' = Forgotten
    /\ UNCHANGED <<task, log, verdict, cell, money>>

(* A limit, which is met anywhere, the agent's failure or an internal error.  *)
End(ending) ==
    /\ Running
    /\ ending = "limit" \/ ~run.unchecked
    /\ run' = [run EXCEPT !.ending = ending]
    /\ UNCHANGED <<task, log, minecraft, verdict, cell, money>>

(* Something writes to the fixture the workspace was copied from.             *)
Contaminate ==
    /\ Running /\ ~run.contaminated
    /\ run' = [run EXCEPT !.contaminated = TRUE]
    /\ UNCHANGED <<task, log, minecraft, verdict, cell, money>>

-----------------------------------------------------------------------------
(* After the run.                                                             *)

(* _combined_minecraft_result: a jar without the required resources fails,    *)
(* unless Minecraft itself did not get as far as an answer.                   *)
FaultyCombined(result) == result
Combined(result) ==
    IF result \notin Broken /\ ~Accepted(run.content) THEN "FAIL" ELSE result

(* _maybe_run_minecraft after the run, when the run had no such validation.   *)
NeedsMinecraft == run.ending # None /\ verdict = None /\ ~run.validated
                  /\ minecraft = NoResult
                  /\ "minecraft" \in task.required /\ run.artifact # None
Answers == IF task.acceptance = "malformed" THEN {"INFRA_ERROR"} ELSE Results
RunMinecraft(result) ==
    /\ NeedsMinecraft
    /\ result \in Answers
    /\ minecraft' = [status |-> Combined(result), judged |-> run.made]
    /\ UNCHANGED <<task, run, log, verdict, cell, money>>

(* _logical_tool_calls: the ids that appear in tool events, each once.        *)
LogicalCalls(tools) == Cardinality(Range(tools))

(* The sum of what a list of usages says under a key.                         *)
SumOf(usages, k) ==
    LET Sum[n \in 0..Len(usages)] == IF n = 0 THEN 0 ELSE Sum[n - 1] + usages[n][k]
    IN  Sum[Len(usages)]

(* _aggregate_usage: what is cumulative is the last one's, the rest summed.   *)
(* What the attempt has spent is not among the keys that are cumulative.      *)
FaultyCumulative == {}
Cumulative == {"remaining"}
Usage(usages) ==
    [k \in {"derived", "remaining", "attempt"} |->
        IF usages = << >> THEN 0
        ELSE IF k \in Cumulative THEN Last(usages)[k] ELSE SumOf(usages, k)]

(* collect: what the evidence says against itself, and what is missing.       *)
Missing ==
    \/ "build" \in task.required /\ run.builds = << >>
    \/ "artifact" \in task.required /\ run.artifact = None
    \/ "minecraft" \in task.required /\ minecraft = NoResult
Inconsistent ==
    \/ log.tools # << >> /\ LogicalCalls(log.tools) # run.calls
    \/ run.builds # << >> /\ Len(run.builds) # run.attempts
    \/ log.models # run.requests
    \/ Missing

(* classify, in its order: the ending first.  A crash is the agent's only when its mod did it.  *)
FaultyAgentsResults == {"FAIL", "TARGET_CRASH", "CRASH"}
AgentsResults == {"FAIL", "TARGET_CRASH"}
EndsThatDecide == {"provider_error", "limit", "agent_failure"}
ByEnding == IF run.ending = "agent_failure" THEN "FAIL" ELSE "BLOCKED"
Classified ==
    IF run.ending \in EndsThatDecide THEN ByEnding
    ELSE IF Inconsistent THEN "INVALID"
    ELSE IF "build" \in task.required /\ LastBuild(FALSE) THEN "FAIL"
    ELSE IF "artifact" \in task.required /\ run.artifact # "VALID" THEN "FAIL"
    ELSE IF "minecraft" \in task.required /\ minecraft.status \in AgentsResults THEN "FAIL"
    ELSE IF "minecraft" \in task.required /\ minecraft.status # "PASS" THEN "BLOCKED"
    ELSE IF "change" \in task.required /\ ~run.changed THEN "FAIL"
    ELSE "PASS"

(* execute: a fixture that is no longer what it was overrides everything.     *)
Classify ==
    /\ run.ending # None /\ verdict = None /\ ~NeedsMinecraft
    /\ verdict' = IF run.contaminated THEN "INVALID" ELSE Classified
    /\ UNCHANGED <<task, run, log, minecraft, cell, money>>

(* _persist and the cell the aggregator puts the run in.  Runs of other cells *)
(* are charged to the ledger before the next one begins an attempt.           *)
Record(other) ==
    /\ verdict # None /\ Len(cell) < MaxRuns /\ other <= Remaining(ledger)
    /\ cell' = Append(cell, verdict)
    /\ run' = NoRun /\ log' = NoLog /\ minecraft' = NoResult /\ verdict' = None
    /\ ledger' = [Charged(other, 0) EXCEPT !.attempt = 0]
    /\ begun' = ledger'
    /\ UNCHANGED task

(* to_cell: the counts and the rate of the comparison.                        *)
Count(runs, verdicts) == Cardinality({i \in DOMAIN runs : runs[i] \in verdicts})
FaultyRate(runs) == [passed |-> Count(runs, {"PASS"}), valid |-> Len(runs)]
Rate(runs) == [passed |-> Count(runs, {"PASS"}), valid |-> Count(runs, {"PASS", "FAIL"})]

ComparisonStatus(runs) ==
    IF Rate(runs).valid >= TargetValid THEN "COMPLETE" ELSE "INCOMPLETE"

Next ==
    \/ \E c \in 1..MaxCost : Turn(c)
    \/ \E b \in BOOLEAN : ToolCall(b)
    \/ \E e \in Broke, b, h \in 0..MaxCost : ProviderFails(e, b, h)
    \/ BuildFails
    \/ BuildRaises
    \/ \E v \in BOOLEAN, c \in Contents : BuildSucceeds(v, c)
    \/ ResourcesFail
    \/ \E r \in Results \cup {None} : Validate(r)
    \/ ValidateRaises
    \/ \E e \in {"limit", "agent_failure", "failed"} : End(e)
    \/ Contaminate
    \/ \E r \in Results : RunMinecraft(r)
    \/ Classify
    \/ \E c \in 0..MaxCost : Record(c)

Spec == Init /\ [][Next]_vars

-----------------------------------------------------------------------------
TypeOK ==
    /\ task \in [required : SUBSET Evidence, acceptance : Acceptances]
    /\ run.ending \in Endings \cup {None}
    /\ run.requests \in 0..MaxTurns /\ run.calls \in 0..MaxCalls
    /\ run.attempts \in 0..MaxBuilds /\ Len(run.builds) <= run.attempts
    /\ minecraft.status \in Results \cup {None}
    /\ verdict \in Verdicts \cup {None}
    /\ cell \in BoundedSeq(Verdicts, MaxRuns)
    /\ {ledger, begun} \subseteq [accumulated : Nat, uncertain : Nat, attempt : Nat]

(* A PASS has all its evidence, of the artifact the run ended with: a last    *)
(* build that succeeded, an artifact found valid, a Minecraft run of this     *)
(* artifact that passed and resources that are in it, a change, and a fixture *)
(* nobody touched (classify, _combined_minecraft_result, execute).            *)
PassHasEvidence ==
    verdict = "PASS" =>
        /\ "build" \in task.required => LastBuild(TRUE)
        /\ "artifact" \in task.required => run.artifact = "VALID"
        /\ "minecraft" \in task.required =>
              minecraft = [status |-> "PASS", judged |-> run.made]
              /\ Accepted(run.content)
        /\ "change" \in task.required => run.changed
        /\ ~run.contaminated

(* The agent is never blamed for what it did not do: a FAIL is neither a      *)
(* provider's or a limit's end nor a harness that crashed, timed out or was   *)
(* not there (classify).                                                      *)
FailIsTheAgents ==
    verdict = "FAIL" =>
        /\ run.ending \notin {"provider_error", "limit"}
        /\ ~run.contaminated
        /\ \/ run.ending = "agent_failure"
           \/ LastBuild(FALSE)
           \/ run.artifact # "VALID"
           \/ minecraft.status \in {"FAIL", "TARGET_CRASH"}
           \/ "change" \in task.required /\ ~run.changed

(* A Minecraft result that is classified is one of the valid artifact that    *)
(* the report names, also when an earlier artifact had been run and the       *)
(* validation of this one failed or raised                                    *)
(* (BenchmarkFunctionalValidator.validate).                                   *)
JudgedIsReported ==
    verdict # None /\ run.ending # "limit" /\ run.artifact = "VALID"
    /\ minecraft # NoResult => minecraft.judged = run.made

(* A run whose evidence is complete and whose fixture is untouched counts: it *)
(* is not INVALID unless it broke off on an internal error (collect).         *)
HonestRunIsValid ==
    verdict = "INVALID" => run.contaminated \/ Missing \/ run.ending = "failed"

(* What a run is said to have cost agrees with the ledger, which many runs    *)
(* share: with the budget said to remain it makes up what remained before the *)
(* run, and it is what the ledger was charged, but for a last response that   *)
(* was charged and never logged (_aggregate_usage, account_response).         *)
UsageAddsUp ==
    LET cost == Usage(log.usages).derived
    IN  verdict # None =>
            /\ log.usages # << >> =>
                  cost + Usage(log.usages).remaining = Remaining(begun)
            /\ begun.accumulated + cost <= ledger.accumulated
            /\ run.ending \notin Broke => begun.accumulated + cost = ledger.accumulated

(* What the comment in _aggregate_usage says of cumulative snapshots, of the  *)
(* attempt's: they are not counted twice.                                     *)
SnapshotsAreNotSummed ==
    verdict # None =>
        Usage(log.usages).attempt = Usage(log.usages).derived

(* A run that was blocked or is invalid moves no rate of the comparison, and  *)
(* it does not complete the cell (to_cell, _comparison_status).               *)
BlockedMovesNoRate ==
    [][Len(cell') > Len(cell) /\ Last(cell') \in {"BLOCKED", "INVALID"} =>
        /\ Rate(cell') = Rate(cell)
        /\ ComparisonStatus(cell') = ComparisonStatus(cell)]_vars
===============================================================================
