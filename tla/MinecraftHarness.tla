--------------------------- MODULE MinecraftHarness ---------------------------
(* The runtime check of a mod (minecraft/runner.py): a Minecraft server is    *)
(* started once for each observation, a harness mod inside it writes what it  *)
(* saw to harness-result.json, the server ends or is killed at its deadline,  *)
(* and the runner classifies what is left on disk.  Three callers judge the   *)
(* results: the product's validator, the benchmark's and the persistence      *)
(* scenario, whose two processes must see the same world.                     *)
(* The server and the harness mod are processes of their own: any behaviour   *)
(* of theirs is admitted, lies excepted (a result says what its process saw). *)
EXTENDS Integers, Sequences, FiniteSets

SE == INSTANCE SequencesExt

CONSTANTS
    Jobs,            \* the callers considered: product, benchmark, persistence
    Observations,    \* observation requests of the validation
    MaxValidations   \* bound: runtime validations of one agent run

ASSUME HarnessConstants ==
    /\ Jobs \subseteq {"product", "benchmark", "persistence"} /\ Jobs # {}
    /\ Observations \in Nat \ {0} /\ MaxValidations \in Nat

VARIABLES
    job,          \* which caller
    validations,  \* validations started so far
    step, pc,     \* which observation (or persistence phase), and where it is
    process,      \* the server: exit code zero or not, deadline passed
    evidence,     \* by step: what the evidence directory holds
    world,        \* the persistence world: its directory, saved to disk
    lifecycle,    \* lifecycle.json of phase 1
    results,      \* results of the steps done
    verdict       \* of the caller

vars == <<job, validations, step, pc, process, evidence, world, lifecycle, results, verdict>>

Steps == IF job = "persistence" THEN 1..2 ELSE 1..Observations

(* What a harness result says: the functional answer, whether the target was  *)
(* the right one and the server came up and down, and whether it names an     *)
(* observation.  Any other text in the answer is "odd".                       *)
Answers == {"pass", "fail", "blocked", "odd"}
Outcomes == [answer: Answers, sane: BOOLEAN, observed: BOOLEAN]
Malformed == [answer |-> "malformed", sane |-> FALSE, observed |-> FALSE]
Absent == [answer |-> "absent", sane |-> FALSE, observed |-> FALSE]
(* latest.log: no startup failure of the target, one with a cause the code    *)
(* knows (Item id not set, ...), one without.                                 *)
Logs == {"clean", "known", "unknown"}
(* "mine": written by the process of this step, not by an earlier one.        *)
NoEvidence == [result |-> Absent, mine |-> FALSE, log |-> "clean", logMine |-> FALSE]
NoProcess == [exit |-> 0, late |-> FALSE]
Undecided == "none"

(* The product names its evidence with a fresh id, a persistence scenario     *)
(* with its own; the benchmark keeps one id for a whole agent run, and no     *)
(* step of the runner removes what a directory holds.                         *)
Fresh(n) == job # "benchmark" \/ n = 1   \* the n-th validation

-----------------------------------------------------------------------------
(* _classify_runtime: what a finished process and its evidence amount to.     *)
Unusable(e) == e.result # Absent /\ ~e.result.sane
StartupFailure(e) == e.result = Absent /\ e.log # "clean"
FaultyClassify(p, e) ==
    IF e.result.sane /\ e.result.answer = "pass" THEN "PASS"
    ELSE IF p.late THEN "TIMEOUT" ELSE "INFRA_ERROR"
Classify(p, e) ==
    CASE p.late                                      -> "TIMEOUT"
      [] ~p.late /\ StartupFailure(e)                -> "CRASH"
      [] ~p.late /\ e.result = Absent /\ e.log = "clean" ->
            IF p.exit # 0 THEN "CRASH" ELSE "INFRA_ERROR"
      [] ~p.late /\ Unusable(e)                      -> "INFRA_ERROR"
      [] ~p.late /\ e.result # Absent /\ ~Unusable(e) /\ p.exit # 0 -> "CRASH"
      [] OTHER ->
            CASE e.result.answer = "pass" -> "PASS"
              [] e.result.answer = "fail" -> "FAIL"
              [] OTHER                    -> "INFRA_ERROR"

(* An observation whose answer is no observation status is a ValueError.      *)
ConclusionRaises(p, e) ==
    ~p.late /\ e.result.observed /\ e.result.answer = "odd"

(* A step's result; "blame" is the startup failure it carries, "earned" and   *)
(* "due" say whether the process of this very step justifies PASS or FAIL.    *)
Concluded(p, e) ==
    [status   |-> Classify(p, e),
     observed |-> ~p.late /\ e.result.observed,
     blame    |-> IF ~p.late /\ StartupFailure(e) THEN e.log ELSE "clean",
     earned   |-> e.mine /\ e.result.answer = "pass" /\ e.result.sane
                    /\ p = NoProcess,
     due      |-> \/ e.mine /\ e.result.answer = "fail"
                  \/ e.logMine /\ e.log # "clean"]
NotRun == [status |-> "INFRA_ERROR", observed |-> FALSE, blame |-> "clean",
           earned |-> FALSE, due |-> FALSE]

(* _run_observation_requests, _combined_minecraft_result: the first result    *)
(* that is no answer decides, else any FAIL; the evidence kept is the first's.*)
Infra == {"CRASH", "TIMEOUT", "INFRA_ERROR"}
Stati(rs) == {rs[i].status : i \in DOMAIN rs}
Aggregate(rs) ==
    IF Stati(rs) \cap Infra # {}
    THEN rs[SE!SelectInSeq(rs, LAMBDA r : r.status \in Infra)].status
    ELSE IF "FAIL" \in Stati(rs) THEN "FAIL" ELSE "PASS"

(* FabricRuntimeOrchestrator._validate_observations.                          *)
FaultyProductVerdict(rs) ==
    CASE Aggregate(rs) = "CRASH" -> "REPAIRABLE_FAIL"
      [] Aggregate(rs) \in Infra -> "BLOCKED"
      [] OTHER -> IF Aggregate(rs) = "FAIL" THEN "REPAIRABLE_FAIL" ELSE "PASS"
ProductVerdict(rs) ==
    CASE Aggregate(rs) \in Infra ->
            IF Aggregate(rs) = "CRASH" /\ rs[1].blame # "clean"
            THEN "REPAIRABLE_FAIL" ELSE "BLOCKED"
      [] Aggregate(rs) \notin Infra /\ \E i \in DOMAIN rs : ~rs[i].observed -> "INVALID"
      [] OTHER -> IF Aggregate(rs) = "FAIL" THEN "REPAIRABLE_FAIL" ELSE "PASS"

(* BenchmarkFunctionalValidator._validate_runtime: only a known cause can be  *)
(* repaired.                                                                  *)
BenchmarkVerdict(rs) ==
    CASE Aggregate(rs) = "PASS"                       -> "PASS"
      [] Aggregate(rs) \in {"INFRA_ERROR", "TIMEOUT"} -> "BLOCKED"
      [] Aggregate(rs) = "CRASH" ->
            IF rs[1].blame = "known" THEN "REPAIRABLE_FAIL" ELSE "BLOCKED"
      [] OTHER                                        -> "REPAIRABLE_FAIL"

(* run_persistence.                                                           *)
FaultyPhaseOneDone(rs) == Len(rs) = 1 /\ rs[1].status = "PASS" /\ world # "absent"
PhaseOneDone(rs) == /\ Len(rs) = 1 /\ rs[1].status = "PASS"
                    /\ lifecycle = {"saved", "unloaded"} /\ world = "saved"
PersistenceVerdict(rs) ==
    IF Len(rs) = 2 THEN IF rs[2].status = "PASS" THEN "PASS" ELSE "FAIL"
    ELSE IF rs[1].status = "PASS" /\ lifecycle = {"saved", "unloaded"} /\ world = "created"
         THEN "INVALID" ELSE "BLOCKED"

-----------------------------------------------------------------------------
Init ==
    /\ job \in Jobs
    /\ validations = 0 /\ step = 1 /\ pc = "idle"
    /\ process = NoProcess
    /\ evidence = [s \in 1..(Observations + 1) |-> NoEvidence]
    /\ world = "absent" /\ lifecycle = {}
    /\ results = <<>> /\ verdict = Undecided

(* A validation of the current jar: the run's first, or one after a repair.   *)
(* The evidence of an earlier one is not of this one's processes.             *)
StartValidation ==
    /\ pc = "idle" /\ validations < MaxValidations
    /\ validations = 0 \/ verdict = "REPAIRABLE_FAIL"
    /\ validations' = validations + 1
    /\ step' = 1 /\ pc' = "ready" /\ results' = <<>> /\ verdict' = Undecided
    /\ process' = NoProcess
    /\ evidence' = [s \in DOMAIN evidence |->
                       IF Fresh(validations + 1) THEN NoEvidence
                       ELSE [evidence[s] EXCEPT !.mine = FALSE, !.logMine = FALSE]]
    /\ UNCHANGED <<job, world, lifecycle>>

(* prepare_run: the platform, the jar and its manifest are accepted, the      *)
(* directories exist, spec.json and target.json are written.                  *)
Prepare ==
    /\ pc = "ready" /\ pc' = "prepared"
    /\ UNCHANGED <<job, validations, step, process, evidence, world, lifecycle, results, verdict>>

EndWith(v) == verdict' = v /\ pc' = "idle"

(* A refused platform or target, a missing wrapper: the benchmark turns the   *)
(* exception into an INFRA_ERROR result, the product's run sees it raised.    *)
(* Anything but those two exceptions escapes from the benchmark as well.      *)
PreflightRaises ==
    /\ pc \in {"ready", "prepared"}
    /\ EndWith("RAISED") \/ (job = "benchmark" /\ EndWith("BLOCKED"))
    /\ UNCHANGED <<job, validations, step, process, evidence, world, lifecycle, results>>

StepDone(r) == results' = Append(results, r) /\ pc' = "judging"

(* No harness root, or a runtime mod that does not check.                     *)
PreflightFails ==
    /\ pc = "prepared" /\ StepDone(NotRun)
    /\ UNCHANGED <<job, validations, step, process, evidence, world, lifecycle, verdict>>

(* _run_command: Popen in a process group of its own.                         *)
Launch ==
    /\ pc = "prepared" /\ pc' = "running" /\ process' = NoProcess
    /\ UNCHANGED <<job, validations, step, evidence, world, lifecycle, results, verdict>>

Alive == pc \in {"running", "killed"}

HarnessWrites ==
    /\ Alive /\ ~evidence[step].mine
    /\ \E o \in Outcomes \cup {Malformed} :
          evidence' = [evidence EXCEPT ![step].result = o, ![step].mine = TRUE]
    /\ UNCHANGED <<job, validations, step, pc, process, world, lifecycle, results, verdict>>

(* The runner copies the log of its run directory beside the result.          *)
ServerLogs ==
    /\ Alive /\ ~evidence[step].logMine
    /\ \E l \in Logs : evidence' = [evidence EXCEPT ![step].log = l, ![step].logMine = TRUE]
    /\ UNCHANGED <<job, validations, step, pc, process, world, lifecycle, results, verdict>>

(* Phase 1 creates and saves the world and says so; phase 2 only reopens it.  *)
WorldStep ==
    /\ Alive /\ job = "persistence" /\ step = 1
    /\ \/ world = "absent" /\ world' = "created" /\ UNCHANGED lifecycle
       \/ world = "created" /\ world' = "saved" /\ UNCHANGED lifecycle
       \/ world = "saved" /\ UNCHANGED world
            /\ lifecycle' = lifecycle \cup (IF lifecycle = {} THEN {"saved"} ELSE {"unloaded"})
    /\ UNCHANGED <<job, validations, step, pc, process, evidence, results, verdict>>

ProcessExits ==
    /\ pc = "running" /\ pc' = "exited"
    /\ \E code \in {0, 1} : process' = [process EXCEPT !.exit = code]
    /\ UNCHANGED <<job, validations, step, evidence, world, lifecycle, results, verdict>>

(* communicate(timeout) raises, the group is killed; what the server did      *)
(* before the signal reached it stays on disk.                                *)
Timeout ==
    /\ pc = "running" /\ pc' = "killed" /\ process' = [process EXCEPT !.late = TRUE]
    /\ UNCHANGED <<job, validations, step, evidence, world, lifecycle, results, verdict>>
FaultyReap ==
    /\ pc = "killed" /\ evidence[step].mine /\ pc' = "exited" /\ process' = [process EXCEPT !.exit = 1]
    /\ UNCHANGED <<job, validations, step, evidence, world, lifecycle, results, verdict>>
Reap ==
    /\ pc = "killed" /\ pc' = "exited" /\ process' = [process EXCEPT !.exit = 1]
    /\ UNCHANGED <<job, validations, step, evidence, world, lifecycle, results, verdict>>

ConcludeRaises ==
    /\ pc = "exited" /\ ConclusionRaises(process, evidence[step])
    /\ EndWith("RAISED")
    /\ UNCHANGED <<job, validations, step, process, evidence, world, lifecycle, results>>
Conclude ==
    /\ pc = "exited" /\ ~ConclusionRaises(process, evidence[step])
    /\ StepDone(Concluded(process, evidence[step]))
    /\ UNCHANGED <<job, validations, step, process, evidence, world, lifecycle, verdict>>

(* Every observation is made, whatever became of the ones before; phase 2     *)
(* needs a phase 1 that passed and a world that was saved.                    *)
Continue ==
    /\ pc = "judging" /\ Len(results) < Cardinality(Steps)
    /\ job = "persistence" => PhaseOneDone(results)
    /\ step' = step + 1 /\ pc' = "ready"
    /\ UNCHANGED <<job, validations, process, evidence, world, lifecycle, results, verdict>>

Judge ==
    /\ pc = "judging"
    /\ IF job = "persistence" THEN Len(results) = 2 \/ ~PhaseOneDone(results)
                              ELSE Len(results) = Observations
    /\ EndWith(CASE job = "product"     -> ProductVerdict(results)
                 [] job = "benchmark"   -> BenchmarkVerdict(results)
                 [] job = "persistence" -> PersistenceVerdict(results))
    /\ UNCHANGED <<job, validations, step, process, evidence, world, lifecycle, results>>

RunnerStep == \/ Prepare \/ PreflightRaises \/ PreflightFails \/ Launch \/ Reap
              \/ ConcludeRaises \/ Conclude \/ Continue \/ Judge
Next == \/ StartValidation \/ RunnerStep \/ HarnessWrites \/ ServerLogs \/ WorldStep
        \/ ProcessExits \/ Timeout

(* The runner goes on, and a server that does not end meets its deadline.     *)
Spec == Init /\ [][Next]_vars /\ WF_vars(RunnerStep) /\ WF_vars(ProcessExits \/ Timeout)

-----------------------------------------------------------------------------
TypeOK ==
    /\ pc \in {"idle", "ready", "prepared", "running", "killed", "exited", "judging"}
    /\ step \in Steps /\ Len(results) <= Cardinality(Steps)
    /\ \A s \in DOMAIN evidence : evidence[s].result \in Outcomes \cup {Malformed, Absent}

(* "negative cases cannot produce false PASS": where evidence is fresh, each  *)
(* observation of a PASS was answered so by a server of this validation that  *)
(* found the target, came down by itself, in time and with exit code 0.       *)
PassIsEarned ==
    verdict = "PASS" /\ Fresh(validations) =>
        Len(results) = Cardinality(Steps) /\ \A i \in DOMAIN results : results[i].earned

(* A verdict that sends the agent to repair the mod rests on a failed answer  *)
(* or on a startup failure of the mod in this validation, never on what the   *)
(* machine, Gradle or the deadline did.                                       *)
RepairIsDue ==
    verdict = "REPAIRABLE_FAIL" /\ Fresh(validations) => \E i \in DOMAIN results : results[i].due

(* The second server is started on a world the first one, gone by then, had   *)
(* saved and let go.                                                          *)
ReopenFollowsSave ==
    [][job = "persistence" /\ pc' = "running" /\ step = 2 =>
         world = "saved" /\ "unloaded" \in lifecycle /\ results[1].earned]_vars

(* A validation ends, with a verdict or an exception.                         *)
ValidationEnds == pc # "idle" ~> pc = "idle"

(* "malformed/missing harness result -> INFRA_ERROR or appropriate non-PASS": *)
(* a PASS of one process that wrote nothing.                                  *)
MissingResultIsNotPass ==
    verdict = "PASS" => \A i \in DOMAIN results : results[i].earned

(* "save or phase-2 infrastructure failures remain BLOCKED".                  *)
MismatchIsObserved ==
    verdict = "FAIL" => results[2].status \notin Infra

-----------------------------------------------------------------------------
(* The inductive invariant of the proofs.                                     *)
Said == [answer : Answers \cup {"malformed", "absent"}, sane : BOOLEAN, observed : BOOLEAN]
Evidence == [result : Said, mine : BOOLEAN, log : Logs, logMine : BOOLEAN]
Processes == [exit : {0, 1}, late : BOOLEAN]
Results == [status : {"PASS", "FAIL"} \cup Infra, observed : BOOLEAN, blame : Logs,
            earned : BOOLEAN, due : BOOLEAN]

Types ==
    /\ job \in Jobs /\ validations \in Nat
    /\ pc \in {"idle", "ready", "prepared", "running", "killed", "exited", "judging"}
    /\ step \in Steps
    /\ process \in Processes
    /\ evidence \in [1..(Observations + 1) -> Evidence]
    /\ \A s \in DOMAIN evidence : evidence[s].result \in Outcomes \cup {Malformed, Absent}
    /\ results \in Seq(Results)

(* A step at a time: as many results as steps behind, or one more.            *)
ResultsCounted ==
    /\ pc = "judging" => Len(results) = step
    /\ pc \notin {"idle", "judging"} => Len(results) = step - 1
    /\ Len(results) <= Cardinality(Steps)

(* Where evidence is fresh, what a directory holds was written by the step's  *)
(* own process.                                                               *)
Owned(e) == (e.result # Absent => e.mine) /\ (e.log # "clean" => e.logMine)
EvidenceIsOwn == Fresh(validations) => \A s \in DOMAIN evidence : Owned(evidence[s])

(* So a result says only what its own process justifies.                      *)
Justified(r) ==
    /\ r.status = "PASS" => r.earned
    /\ r.status = "FAIL" => r.due
    /\ r.blame # "clean" => r.due
ResultsAreJustified == Fresh(validations) => \A i \in DOMAIN results : Justified(results[i])

UndecidedWhileRunning == pc # "idle" => verdict = Undecided

SecondPhase ==
    job = "persistence" /\ step = 2 =>
        /\ world = "saved" /\ lifecycle = {"saved", "unloaded"}
        /\ Len(results) >= 1 /\ results[1].status = "PASS"

IInv ==
    /\ Types /\ ResultsCounted /\ EvidenceIsOwn /\ ResultsAreJustified
    /\ UndecidedWhileRunning /\ SecondPhase /\ PassIsEarned /\ RepairIsDue
===============================================================================
