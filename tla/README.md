# PD-Agent: a formal model

PD-Agent is a Python program that lets a language model edit a Fabric (Minecraft)
mod, builds it, validates it, repairs it and reports.  This directory holds TLA+
models of the parts of it whose correctness depends on the order of events, the
TLC configurations that check them on small instances, and proofs checked by
TLAPS that hold for every instance.  Paths below are relative to
`src/src/pd_agent/` unless they start with `docs/` or `scripts/`.

## The system

| component | state it keeps | operations | talks to |
|---|---|---|---|
| agent runtime loop, `runtime/engine.py` | `RunState`, `_LoopTelemetry`, the continuation flag | one provider turn, its tool calls, validation, build, artifact check, finish | provider, tools, build runner, validators, storage |
| run state, `core/state.py` | state, counters, mutation targets, repeat counters | `transition_to`, `record_*`, `limit_violations` | engine, storage, completion gate |
| run controller, `runtime/controller.py` | none between runs | claims the run directory, inspects, runs the engine | engine, storage |
| tools, `tools/` | the workspace on disk | read, list, search, write, create, delete | engine |
| build runner, `build/` | a Gradle process | one attempt with a time limit | engine |
| validators, `validation/prebuild.py`, `validation/runtime.py`, `artifacts/` | none | verdict on a workspace, an artifact, a running game | engine, Minecraft harness |
| completion and currentness, `validation/completion.py`, `core/currentness.py` | identities in `RunState`, the progress ledger | decide whether evidence is current and complete | product, delivery |
| semantic repair, `runtime/repair.py` | failure facts | reconcile failures with later passes | engine |
| reporting, `reporting/` | `run.json`, `events.jsonl`, `final-report.*` | overwrite, append | engine, product readers |
| product execution, `product/execution.py` | one active slot, snapshots, futures | start, get, list, shutdown, worker, completion callback | web threads, catalog, controller, delivery |
| product catalog, `product/catalog.py` | records in memory and in one file | copy, validate, replace atomically, swap | every product service |
| delivery, `product/delivery.py` | delivery records | create once per execution, resolve | catalog, storage, completion |
| evidence projection, `product/evidence.py` | none | project files of a live run | web |
| budget ledger, `experimental/luna_budget.py` | reservations, dispatch records, totals, ownership | begin, reserve, dispatch, settle, release, reconcile | OpenAI provider, product worker, benchmark |
| providers, `providers/` | retry state of a call | execute, recover, reissue once | engine, ledger |
| benchmark, `benchmark/` | schedule, execution state, records, cells | schedule, execute, replace, resume, collect, classify, compare | controller, ledger, Minecraft harness |
| Minecraft harness, `minecraft/` | a server process, its evidence directory, a world | prepare, start, wait, kill, classify, reopen | validators, benchmark |
| brain and context, `brain/`, `context/` | packs on disk, retrievals and traces of a run | materialize, load, retrieve, select, assemble, trace | engine, product, storage |
| Fabric planning, `fabric/` | none | compose capabilities, evaluate completion | product |
| web, CLI, frontend, scripts | sessions | HTTP handlers, commands | product, benchmark |

What is hard here: the loop is sequential, but what it must do next depends on
flags set many turns earlier, and each of some thirty early returns has to leave
them right; evidence (a build, a validation, an artifact, an excerpt of a file)
silently goes stale when a file changes; the product service runs a worker thread,
a completion callback and any number of web threads over one lock and one file;
money is reserved before a request is sent, and after a crash nobody knows whether
it was; a batch of paid attempts is resumed from three files written one after the
other; a server process may crash, hang or answer just when its deadline passes, and
what it left on disk is all its judge ever sees; files are rewritten in place while
other processes read them.

What makes each correct:

* loop: completion only on current evidence; no way around a validator but the one
  intended; every repair is asked for and every stalled run ends; limits are
  neither passed nor missed.
* tools: what the model was shown is what the file holds; the run state and the log
  agree on what changed; a refused call leaves no trace.
* lifecycle: every assignment of a state is a transition of the table.
* storage: a final report agrees with the run state on disk.
* completion: a complete run rests on a build, a jar and a passed validation of one
  and the same source, and every failure it had is resolved by a later pass.
* product execution: one execution at a time, the slot always freed, every
  execution eventually terminal, the catalog and the snapshot agree, a restart
  never shows a dead execution as running.
* delivery: one per execution, and only of a current artifact that was tested.
* knowledge: all of it from one verified pack of the run's environment; the current
  failure is served before the rest; what a request carried can be told from disk.
* ledger: totals within the ceilings whatever happens; a reservation is released
  only when the request was provably not sent; a crash loses no money.
* benchmark: each attempt is recorded once over restarts, never with money open;
  nobody is blamed for a failure of the infrastructure; a cell never gets more
  attempts than it may have.
* Minecraft harness: a PASS was earned by a server of this very validation; a world
  is reopened only after it was saved; every validation ends.

## Modules

| module | models | status |
|---|---|---|
| `RunLifecycle` | the abstract specification of a run: `VALID_TRANSITIONS` | implemented by `AgentRun` |
| `AgentRun` | `AgentRuntime.run` and everything it calls that changes the run | checked, proved |
| `AgentRunProofs` | its theorems | proved |
| `MCAgentRun` | instances for TLC | |
| `WorkspaceTools` | the tools over the files of a project, and what the engine keeps of their results | checked, proved |
| `ExecutionRegistry` | the abstract specification of the product: one slot, records opened and closed once | implemented by `ProductExecution` |
| `ProductExecution` | `ExecutionService` with the catalog, the worker, the delivery, clients, shutdown, crash and restart | checked, proved |
| `ProductExecutionProofs` | its theorems | proved |
| `MCProductExecution` | instances for TLC | |
| `Completion` | currentness, failures and their reconciliation, the completion gate, delivery | checked, proved |
| `CompletionProofs` | its theorems | proved |
| `MoneyLedger` | the abstract specification of the money: entries opened, spent, written off and given back, and what the provider billed | implemented by `EconomicLedger` |
| `EconomicLedger` | the economic state and its file, the guard, the provider's turn and recovery | checked, proved |
| `EconomicLedgerProofs` | its theorems | proved |
| `BenchmarkBatch` | the abstract specification of a batch: one attempt's money at a time, one result for each, replacements, completion | implemented by `BenchmarkRun` |
| `BenchmarkRun` | a batch: schedule, replacements, pauses, crash and resumption | checked, proved |
| `BenchmarkRunProofs` | its theorems | proved |
| `BenchmarkEvidence` | one benchmark execution from its run to its place in the comparison | checked, proved |
| `BenchmarkEvidenceProofs` | its theorems | proved |
| `Knowledge` | packs, retrieval, selection and the context of a turn, and its traces | checked, proved |
| `MCKnowledge` | instances for TLC | |
| `TurnProofs` | the theorems of `WorkspaceTools` and of `Knowledge`: what a turn is told | proved |
| `MinecraftHarness` | server processes, their results and the verdicts of three callers | checked, proved |
| `ObservationRequests` | the way of an observation request to a server's command line | checked, proved |
| `MinecraftHarnessProofs` | the theorems of `MinecraftHarness` and `ObservationRequests` | proved |

How they fit: `AgentRun` is one run; `ProductExecution` sees of it when it writes what,
`Completion` what its builds and validations are evidence for, `WorkspaceTools` what
its tool calls do to files, `MinecraftHarness` and `ObservationRequests` what its
functional validator does.  `BenchmarkRun` is many runs under the guard of
`EconomicLedger`; `BenchmarkEvidence` says what becomes of their results.  `Knowledge`
is what the provider of a run is told, and what is kept of it.  Each takes of its neighbours what it depends on, as nondeterministic
choices over what the neighbour's own module allows.

### AgentRun

`pc` is the place in `AgentRuntime.run`; `phase` is `run_state.state`.  One
iteration of the loop in a phase without a provider turn is one action
(`BuildSucceeds`, `ValidateArtifact`, `EnterEditing` ...).  A provider turn is
`CallProvider`, then one action per tool call (`ExecuteChange`, `ExecuteExists`,
`ExecuteOther`, `GateViolation`), then one action that weighs the turn: `Verdict`
is the cascade of early returns after the turn, in its order, and the actions
`Turn...`, `...Done`, `EditingContinues` are its branches.  Revealing the calls of
a turn one at a time is equivalent to fixing the batch in the response, because
nothing between two calls depends on the calls to come.

Two branches of the code can never be taken, and a theorem says so in place of
each: the failure of a repair at the head of EDITING (`OutstandingRepairHasATurn`)
and the refusal of BUILDING over pending targets (`TargetsResolvedBeforeBuild`).

Not in the program, but recorded beside it: `current`, the facts established
about the source as it now is (any change empties it), and `funcSig`, `funcCount`,
the true run of equal functional failures.  No guard reads them.

Abstracted: a tool result is its kind and a variant (two results of the same
variant have the same signature); a failure is its signature; files are model
values, some of them under `src/main/java/`.  `search_text` is not distinguished
from `list_directory`: the gate treats them alike.  Any exception but those of the
provider and of the limits is `InternalError`; a crash is the process dying
between two steps.

### WorkspaceTools

One action per tool (`ReadFile`, `WriteFile`, `CreateFile`, `DeleteFile`,
`ListDirectory`, `SearchText`) with the whole of the executor's work around it: the
validation, the change on disk, the two appends to the log, the retained excerpts,
the changed and the pending files.  A text is its size and its line ends, so that the
limits on output, excerpts and their total can be met, and a file read and compared
differs from the one given by more than its bytes.  Faults are an append that fails
(`RequestUnlogged`, or inside the change) and a write that tears (`WriteTears`);
`UserEdits` is someone else.  `untold` and `refused` are history: what the agent has
not been told, and whether a call of the turn was rejected.

A failing append is taken to write nothing; a torn line would make every later
`read_events` raise.  Resolution of paths is abstracted to names inside the project;
what decides is whether a name is protected or in a folder that does not exist yet.

### ProductExecution

Three threads meet in `product/execution.py`: a request runs `start()` or `get()`,
the pool thread runs `_run_worker()`, and `_finished()` runs as the done callback,
in the pool thread or, when the work is over before the callback is registered,
inside `start()` itself, which owns the lock already (`StartReturn`).

| state | in the code |
|---|---|
| `record`, `deliveries` | `executions` and `deliveries` of the catalog file |
| `runFile`, `report` | `run.json` and `final-report.json` of the run directory |
| `active`, `snap`, `work` | `_active_execution_id`, `_snapshots`, `_futures` with the state of the future |
| `starting`, `finishing`, `finishStep` | who holds `_lock` over several steps, and where |
| `proc` | the process and its `_shutdown` flag |
| `answer`, `faulted` | what clients were told; which executions met a failed write or submission. No guard reads them. |

The lock is implicit: `LockFree` is a guard of every action that would take it.
`start()` and `_finished()` are split at every point where the disk or the worker
can be observed: `StartPersist`, `StartSubmit`, `StartReturn`; `FinishBegin`,
`FinishPersist`, `FinishDeliver`, `FinishPublish`.  `get()` and setting the shutdown
flag are single steps under the lock.  A `start()` that is refused (shutdown,
capacity, preflight, a failed catalog write) changes nothing and is no action.

The run itself is `RunClaims`, `RunEnd`, `RunReport`, `WorkerReturn`, by its writes;
what happens between them is `AgentRun`.  `passed` stands for a `run.json` for which
`evaluate_pass` and the completion gate say yes.  A write of the run directory can be
cut short, by an exception or by the death of the process (`MayTear`); writes of the
catalog are atomic (a temporary file and `os.replace`), so they happen or fail.

The thread pool is external code, modelled by its contract: one thread, a queue, a
callback that runs in the thread that completes the future, a `shutdown(wait=True)`
that returns when that thread has ended.  A failed `submit` is assumed to have queued
nothing, as `start()` assumes.  One caller of `shutdown()` is modelled, the lifespan of
the web application; a second one would return at once.

### Completion

A source revision is a number and a jar the source it was compiled from: a build is
taken to be a function of its source.  `builds`, `revision`, `artifact` and `runtimes`
are the identities of the run state, `satisfied` and `failures` the progress ledger.
`Build`/`Built` are split because the source is hashed after Gradle returns
(`engine.py:954`): with `MidBuildEdits` someone may write in between.  `UserEdits` and
`UserBuilds` are the owner of the workspace; a jar is rebuilt by someone else only
after the run has ended.  `Observe` walks the observations of a runtime requirement,
`Evaluate` is `CompletionGate`, `Record` and `Deliver` the product's callback.  The
contracts are those of the three kinds of task the product resolves, taken by running
its resolver: their data (which requirement names which validation) is what decides.

Abstracted: a crash or a timeout of the harness fails every observation; a `REUSED`
runtime attempt is never made by the code and left out.

### EconomicLedger

`mem` is `LunaEconomicState`, `disk` its file; each operation changes memory and then
persists (`Persist`), and a persist that fails leaves memory ahead, sets the latch
`abort` and ends the request: only `mark_dispatch_started` and the changes of a ceiling
roll memory back.  `at` is where `OpenAIProvider.execute` is: a turn, a dispatch
prepared, reserved, started, sent, answered or failed.  `charged`, `bill` and `sent` are
history: what the provider has really charged, in all and for each entry, and which
requests crossed the boundary.  A request costs at most its reserved worst case; the provider may charge
for one whose answer is lost.  Recovery reissues a lost request past the latch.
`Crash` loads the file, when the store accepts it.

`MoneyLedger` is what the file promises whoever reads it, without requests, turns,
memory, faults or crashes: each write moves the money of at most one entry, by one of
five moves (`Reserve`, `Account`, `WriteOff`, `Release`, `Forget`), within the ceiling;
an entry is billed once, after it was reserved and within its reservation; it is
spent as it was billed, and given back only unbilled.  The refinement mapping reads
`book` from `disk` (`Book`), and `bill` is itself.  A persist is a `Write`, sending is
`Send`, and what happens in memory alone is a stutter.  The property is
`FollowsLedger`.  Memory may be ahead when a persist has failed; that what the next one
writes is still a single move is what the proof shows.

Abstracted: amounts are natural numbers in units; a refusal's two persists of which
the second subsumes the first are one; the retry ordinal is always 0, for with a guard
a failed request is never retried in place.  The migration of old state files is left
out.

### BenchmarkRun

`schedule` is the process's, `savedSchedule` `schedule.json`, `state`
`execution_state.json`, `economy` the part of the ledger a batch depends on: the
attempt in progress, whether its money is uncertain, and the state of each dispatch.
`DriveBatch` is the loop of `_drive_batch` by its writes; `Crash` can come between any
two, `Resume` reads the three files.  Pauses for a rate limit, the budget and the
session's cap end a session like a crash does, but say so in the state file.

`BenchmarkBatch` is what the three files promise together, without processes, dispatches
or sessions.  The refinement mapping reads the outcome of every attempt from
`savedSchedule` (`Outcome`), the attempt whose money is held from `economy` and
completion from `state`: `BeginAttempt` is `Begin`, `Finish` is `Settle` (it touches the
ledger's file alone), `WriteSchedule` is `Conclude`, `CompleteBatch` is `Complete`, and
everything else, crashes and resumptions included, is a stutter.  The property is
`FollowsBatch`.

### BenchmarkEvidence

A run of the agent leaves its counters (`run`), its events (`log`) and a Minecraft
result; one run at a time is produced by the environment as the engine can end
it, validated against its artifact, collected, classified and recorded in its cell.
`minecraft.judged` says which artifact the result is of.  Identities of calls are
made by the model's service or, with `LocalIds`, by the client from the call.

`ledger` is the economic ledger as far as a usage tells of it: what was charged over
all attempts, what is held of requests nobody knows the outcome of, and what the attempt in progress
was charged, which is the only one that starts anew with a run.  `begun` is the ledger
when the run began.  A `Turn` charges it and logs what `account_response` puts into
the usage of the response: the cost of this response, the budget that remains of all
(`remaining_budget_usd`) and the attempt's total; two more totals in it are texts the
collector does not add up, and `accumulated_cost_usd`, the ledger's total, is in the metadata of
the provider only, so neither is modelled.  `ProviderFails` may charge or hold money
that no usage tells of.  `Record` leaves the ledger to the next run after runs of other cells have
charged it (`other`).  Only the provider that has a ledger puts money into a usage.

### Knowledge

`store` holds the packs on disk: they are materialized, superseded at another path,
and damaged behind the program's back (`Materialize`, `Supersede`, `Damage`).  A
process starts with one frozen pack, which is read once, or with live sources
(`StartWithPack`, `StartWithService`); `held` are the live sources whose documents are
in memory.  `host` is the program: the product, or a benchmark, which has at most one
source.  A run started by `cli.py` alone has none, as one with an empty service.
`Prepare` is the product's retrieval for the needs of a task, offline and from all sources;
`Execute` the benchmark's, through `MinecraftBrain`, from its one source, which may fetch
its documents and fail to (`k`) or be told to stay offline.  `Fail` is the retrieval for
a validation failure, in the product whether the Brain is on or off, in a benchmark when it is on; `Build` assembles the context of the
next turn (`Get`: selection under the byte budget; `Others`: the items of the run;
`Bundle`: a walk over the items by priority, then by source and place, each whole, cut or
dropped for what is left of the limit), and `PersistTraces`, `PersistState` and `Send`
are what `_call_provider` then does, with a crash possible after each.  The traces are
stored in either program; the references to them are kept in the progress ledger
(`engine.py:655`), and the run state `RunController.run` makes for a benchmark has none
(`controller.py:58`): `TracedBeforeSent` asks for the stored trace of all runs, for the reference
of the product's.  `current`,
the needs of the last failure, is recorded beside the program; no guard reads it.

Abstracted: a text is a value compared for equality or a number of bytes; a need is its
name, kind and query, and the deriver that names it is an input (`PreCode`,
`Failures`): a task's needs are not urgent and a failure's are, as the two derivers
mark them, and `KnowledgeAssumption` says no more of them.  The text of a ranked
retrieval is an item with a size, without the label that counts it (`Dump`).  `UNKNOWN` compatibility is one with `INCOMPATIBLE`, since every derived
need is version sensitive.  Statuses and errors of sources are left out: a source that
fails contributes nothing, as one that finds nothing.  A live source answers with all
that matches, where the Yarn source keeps the five best by a score (`yarn.py:504`).
The cache a benchmark run gives its `MinecraftBrain` is new and only repeats answers of the same
run.

### MinecraftHarness

The runner's steps (`RunnerStep`: prepare, launch, read, classify, judge) and the
server's (`HarnessWrites`, `ServerLogs`, `WorldStep`, `ProcessExits`, `Timeout`)
interleave.  `evidence` is the directory by observation, and says of each file whether
this process wrote it: the benchmark keeps one directory for a whole run
(`Fresh`).  The server and the mod inside it are external: any behaviour of theirs is
admitted, but that a result says what its process saw.

### ObservationRequests

A requirement's observation requests, with each field usual, other, bad or absent,
on the three ways they take to the server's properties: a list, a single request,
parameters given outright.  `Declare` is the contract's validation, `LaunchNext` the
runner's per process, `AggregateResults` the combination of what came back.

## Runs

The thresholds 5, 7 and 8 of the action gate are scaled to 1, 2 and 3: only their
order matters to the code.

| run | instance | shows |
|---|---|---|
| `agent_full` | both validators, 8 steps, 5 calls, 4 builds, turns of 2 calls, 2 build failures, 2 files, required files or none | completion rests on current evidence, rejected or unfinished source is not built, every repair is asked for |
| `agent_repeat` | no pre-build validator, two functional failures, two result variants, 7 steps, 6 builds | the repeat rule, saved states, refinement of `RunLifecycle`, termination under fairness |
| `product_service` | two executions, one failed write or submission, one restart | records, answers, refinement of `ExecutionRegistry`; executions and shutdowns end |
| `ledger` | two attempts, two prices, two ceilings each, two requests and turns, one failed persist, one crash, reissues | no money is hidden or passes a ceiling, no sent request is forgotten or released, the file follows the abstract ledger |
| `benchmark_batch` | two cells of two repetitions and three attempts, one request per attempt, two per session, three sessions, two dispatches | the files follow the abstract batch; nothing is recorded with money open, or goes out past an uncertain outcome; sessions end |
| `minecraft_jobs` | the three callers, two observations or phases | PASS and repair are earned, a world is reopened after it was saved, every validation ends |
| `evidence_runs` | two runs of up to two turns, calls and builds on one ledger of three units, every task and ending | who passes, who is blamed, what moves a rate, what a run cost |
| `knowledge_turns` | five records of three families, two contradicting each other; two paths, two writes, two environments of packs and of tasks; two failures, two turns; the product and a benchmark | what a turn is told comes from an undamaged, compatible, pinned pack; failures come first; what was sent is on record |
| `observation_requests` | all nine types, lists of two requests, one odd field | what reaches the command line has been checked and is what was asked |
| `completion` | three contracts, three sources, three builds | what completion, a resolved failure and a delivered jar stand for |
| `completion_repair` | one contract, two sources and builds | the divergence listed as finding |
| `workspace_tools` | three files (one protected, one in a folder), two sizes around the limits, three calls, two turns, one fault | excerpts are current, log and run state agree, refusals leave no trace |

Why the bounds are enough:

* agent: the longest chain a safety property needs is three validation failures with
  a repair each (two turns each, one change each), which 7 steps and 6 builds allow;
  every streak ends at two or three, which 8 steps allow more than once; two
  signatures suffice to tell "the same failure" from "another".
* product: two executions are what the slot, the queue and the lock can tell apart:
  the second is refused, admitted after the first, or lost with it.  A restart
  finds what the first process left, and after a fault the interesting question is
  whether the next execution is unharmed.
* ledger: a request and its reissue, or two requests of one or of two attempts, are
  all that share a total; one fault and one crash put memory ahead of the file and
  then lose it, and the prices and ceilings make a second request affordable or not.
  The invariant was also checked by hand with three requests and turns and two faults,
  and the proofs do without bounds.
* benchmark: two cells tell the schedule's order from a cell's; three attempts make
  one replacement and then exhaustion; three sessions let a resumed batch be
  interrupted again.
* harness: two steps are one whose evidence an earlier one may have left, and one
  after it; the second phase of the persistence scenario exists only then.
* evidence: the second run is what rates and cells can go wrong with; two turns and
  builds are the least in which a sum or a stale result can; a ledger of three units has
  room for a first run, another's and part of a second.
* tools: three calls are a read, a change and what follows; sizes 1 and 4 lie on both
  sides of the limits on output, excerpt and total, which is met by two excerpts.
* knowledge: two writes are a pack and its damage, supersession or replacement; two
  failures are a current and a stale one; the sizes make the budget, the cap on items
  and the limit of the context each bind in some turn.
* completion: three builds are one that fails, one that passes its build and fails its
  validation, and one that passes.

Every action fires in these runs.  All but `knowledge_turns`, in
which a process can always start again, really stop, so deadlock is not checked there.

Further configurations, run by hand (`tlc -config X.cfg M`): `*_more.cfg` check the
type invariants, the inductive invariants of the proofs and properties too shallow or
too close to another for a run of their own (`M` is the `...Proofs` module for
`Completion`, `BenchmarkRun` and `BenchmarkEvidence`, and `TurnProofs` for
`WorkspaceTools`, which state their invariant there; `ObservationRequests_asked.cfg`
checks the invariant `RequestIInv` beside its divergence, with `-continue`); `MCAgentRun_ends.cfg` checks termination with
the pre-build validator alone, and `MCAgentRun_repeat_more.cfg` the invariant of the
repeat rule.  The configurations of the section Divergences end in a counterexample.

### Fairness

`FairSpec` of `AgentRun` assumes weak fairness of the whole of `Work`: the engine is
one sequential thread, and each call it makes returns (the provider, build and test
processes have time limits).  Exceptions and crashes carry no fairness: they need
not happen.

`FairSpec` of `ProductExecution` assumes weak fairness of a thread inside `start()`, of
the pool thread, of the callback and of a waiting shutdown.  That a run ends is
`Terminates` of `AgentRun`.  That the callback gets the lock needs no more than weak
fairness: while work is live every other `start()` is refused at once and `get()` is a
single step, so nobody keeps the lock.  Clients, shutdowns, crashes and restarts come
or do not.

`BenchmarkRun` assumes weak fairness of `DriveBatch`, one sequential loop in which
each execution ends by the limits of its run; sessions need not be resumed.
`MinecraftHarness` assumes it of the runner and of "the server ends or its deadline
passes": `communicate(timeout=...)` returns by then.  That the pipes of a killed
process tree close is part of this assumption.

## Divergences

Places where the code and its documents or comments disagree; each has a
configuration whose counterexample is the scenario; a `..._divergences.cfg` lists several, and TLC stops
at the first it meets: take it out of the list to see the next.  The first is listed as a
finding, with a run of its own; the others are reproduced by hand.

| configuration, property | the code | the document |
|---|---|---|
| `Completion_block.cfg`, `FinishedIsComplete` (run `completion_repair`) | a failed build is recorded as a failure that nothing in the productive path resolves (`validation/runtime.py:258`, `runtime/repair.py:112`): a run that repaired it, built and passed is INCOMPLETE | the v0.8 design: "mutation, rebuild PASS, and old failure RESOLVED" |
| `Completion_items.cfg`, `FinishedIsComplete` | a contract of two items or of an item with a recipe is never complete: its criterion "source change" matches no requirement | the same |
| `Completion_edits.cfg`, `HandedOutIsTested` | the source is hashed after the build (`runtime/engine.py:954`): an edit while Gradle runs is taken for what was built | currentness, same design |
| `MCAgentRun_divergences.cfg`, `CompletedPrebuildIsCurrent` | a correction after a failed build goes to BUILDING past the pre-build validation (`engine.py:400`) | the M3 design: "A stale PRE_BUILD PASS cannot authorize later completion" |
| `MCAgentRun_divergences.cfg`, `RepeatedFunctionalFailureIsTerminal` | a pre-build pass clears the memory of the functional failure being repaired (`engine.py:1060`); without a pre-build validator the rule holds, and is proved | the F9 RFC: two repetitions are final |
| `MCAgentRun_divergences.cfg`, `SuccessfulBuildIsValidated` | the limit test is `>=` and comes before the artifact check (`core/state.py:301`): the last allowed build cannot succeed | the v0.1 RFC: exit code 0 leads to VALIDATING_ARTIFACT |
| `MCAgentRun_divergences.cfg`, `CompletedOnDiskHasReport` | `COMPLETED` is on disk before the report (`engine.py:942`) | the v0.1 RFC: "`REPORTING → COMPLETED`: informe persistido" |
| `MCProductExecution_divergences.cfg`, `RestartReconstructsTerminalRuns` | a run that had ended is answered INTERRUPTED / UNKNOWN (`product/execution.py:165`); `_status_from_runtime` has no caller | the v0.9 RFC: "server restart + terminal run: reconstruct normally" |
| `MCProductExecution_divergences.cfg`, `SettledIsNotRunning` | an execution whose end cannot be recorded shows RUNNING for ever (`product/execution.py:279`): the branch for it tests for a missing snapshot, and `start()` has always stored one | the v0.9 RFC: "runtime exception: safe infrastructure/terminal projection" |
| `EconomicLedger_reserved.cfg`, `ReservedIsOpenEntries` | a reissue that was reserved and whose start could not be persisted reserves the same key again: `before_request` overwrites the entry and adds its cost once more (`experimental/luna_budget.py:1019`, `:1030`), and money stays reserved that no entry accounts for; spending is never understated | the economic recovery note lists "active reserved totals": totals of the reservations that are active |
| `BenchmarkRun_divergences.cfg`, `OneReissue` | an answered reissue leaves the original response-missing, and the next resumption reissues it again (`benchmark/runner.py:511`) | the recovery RFC: "one recovery reissue per logical attempt" |
| `BenchmarkRun_divergences.cfg`, `StartupReconstructs` | a dispatch started when the process died stays started, and the attempt is executed again (`benchmark/runner.py:317`) | the recovery design: "startup must reconstruct" |
| `MinecraftHarness_divergences.cfg`, `MissingResultIsNotPass` | the benchmark's validations of one run share an evidence directory (`benchmark/executor.py:573`): a server that wrote nothing is judged by an earlier result | the harness document: a missing result is INFRA_ERROR or non-PASS |
| `MinecraftHarness_divergences.cfg`, `MismatchIsObserved` | every phase 2 that is not PASS is FAIL, a timeout included (`minecraft/runner.py:943`) | the v0.6 RFC: phase-2 infrastructure failures remain BLOCKED |
| `MCKnowledge_divergences.cfg`, `InjectedIsDelivered` | a trace marks every selected record INJECTED: the ones past `max_items`, and those the bundle cut or dropped afterwards (`context/knowledge.py:504`, `:641`, `context/models.py:205`) | the v0.7 design, section 16: "A record becomes INJECTED only when its content is actually delivered" |
| `MCKnowledge_divergences.cfg`, `ConflictsAreExcluded` | the external source skips plain retrievals but not ranked ones: their text, contradictions included, is an item of the lowest priority (`context/sources.py:130`) | the v0.7 design, section 15: contradictions are "surfaced as degraded/blocked knowledge for that need rather than injected as unqualified truth" |
| `MCKnowledge_divergences.cfg`, `CurrentFailureFirst` | retrievals for failures are ordered before the others, but among each other by age, so the first failure's come first and the current one's may find no budget (`context/knowledge.py:614`) | the comment above: "A current failure is more actionable than stale or generic context" |
| `MCKnowledge_divergences.cfg`, `OffInjectsNothing` | the source for repairs is given to the engine whether the Brain is on or off (`fabric/orchestration.py:164`; a benchmark does not, `benchmark/executor.py:593`) | the v0.7 design, section 22: with Brain OFF "no external Brain knowledge is injected" |
| `MCKnowledge_divergences.cfg`, `KnowledgeFitsBudget` | an item is admitted by an estimate that leaves out part of its header (`context/knowledge.py:87`, `:666`), so the last one may pass the budget | the comment in `get`: "Keep the single global budget" |
| `BenchmarkEvidence_divergences.cfg`, `SnapshotsAreNotSummed` | the snapshots of the attempt in the usage of each response (`attempt_accumulated_usd`, `attempt_remaining_usd`, `experimental/luna_budget.py:1278`) are not among the five keys taken to be cumulative, and are summed (`benchmark/collector.py:95`) | the comment above them |
| `BenchmarkEvidence_divergences.cfg`, `HonestRunIsValid` | two equal calls of a client that makes its ids from the call have one id, and an honest run is INVALID | holds with the ids of a service |
| `ObservationRequests_asked.cfg`, `AskedIsObserved` | a single request of a type the contract does not profile is launched without its selector (`minecraft/runner.py`, the single-request path) | selectors are validated against the primitive |

### Seen, and not a property

Read in the code while modelling it, where a model would only restate the line:

* `run.json` is rewritten in place; a reader, or a crash, meets a torn file.  Readers
  treat it as unreadable (`MayTear`).
* The catalog is read once per process and written whole: two processes on one product
  root overwrite each other.  The product runs one.
* A text read and compared has its line ends translated: writing a file with `\r\n`
  reports a change each time, of the same bytes.
* A change whose log append fails is answered as an error, although it is on disk.
* Calls after a rejected one of the same turn are executed; deleting a required file
  does not make it pending again; excerpts are dropped in the order of their paths.
* `RECIPE_MATCH` requests are accepted by the contract and refused by the runner.  A
  request in the middle of a list can raise after servers were started.  Several
  observations never write an aggregate `result.json`.
* `killpg` is followed by a second `communicate()` without a limit of time.
* Only two types of exception of a functional validator are infrastructure.
* A null resource in an artifact skips the assertions about it (`Accepted`).
* A batch that dies between `schedule.json` and `execution_state.json` is refused on
  resumption when the next attempt differs (`RESUME_DRIFT`).
* A study's `schedule.json` is never rewritten, and a resumed study keeps its paused
  status.

## Proofs

`AgentRunProofs` proves `Spec => []IInv` for all values of the constants that
satisfy the three named assumptions, and from it each property in the table.

| theorem | property |
|---|---|
| `InvariantHolds` | `IInv` |
| `TypesHold` | `TypeOK` |
| `CompletionIsEvidenced` | `CompletedIsEvidenced` |
| `RejectedSourceStaysUnbuilt` | `RejectedSourceIsNotBuilt` |
| `PrebuildBypassIsJustified` | `PrebuildBypassFollowsFailedBuild` |
| `BuildsWaitForTargets` | `TargetsResolvedBeforeBuild` |
| `OutstandingRepairsAreAsked` | `OutstandingRepairHasATurn` |
| `IneffectiveMarksAreRight` | `IneffectiveMarkNamesItsAttempt` |
| `GateForestallsStall` | `ExplorationIsGatedBeforeStall` |
| `ReportsAgree` | `ReportAgreesWithRunState` |
| `RepeatedFailureEndsRun` | `RepeatedFunctionalFailureIsTerminal`, for runs without a pre-build validator |
| `EngineFollowsLifecycle` | `FollowsLifecycle`, the refinement |

The argument.  None of the properties is inductive.  `CompletedIsEvidenced` needs
`EvidenceFits`: each late phase carries the facts the earlier ones established, and
no provider turn, hence no change, can come in between (`PlacesFit`).
`RejectedSourceIsNotBuilt` needs `RejectionFits`: rejected source has a repair
outstanding, and in a turn that is being executed no change has been made yet.
`PrebuildBypassFollowsFailedBuild` needs `DiagnosisFits`: a diagnosis remembers the
failure that caused it.  `ExplorationIsGatedBeforeStall` needs `StreaksBelowLimits`,
which also bounds every counter.  `IInv` is the conjunction; one lemma per part
shows that every action preserves it.  `RepeatFits` is a second inductive
invariant, over `IInv`, for runs without a pre-build validator.  TLC agrees with both
on small instances (`MCAgentRun_more.cfg`, `MCAgentRun_repeat_more.cfg`).

`ProductExecutionProofs` proves `Spec => []IInv` for any set of executions and any
number of restarts and faults, from the two named assumptions of `ProductExecution`.

| theorem | property |
|---|---|
| `InvariantHolds` | `IInv` |
| `TypesHold` | `TypeOK` |
| `SlotIsExact` | `SlotIsHeldByLiveWork` |
| `SuccessIsBacked` | `RecordedSuccessIsBacked` |
| `DeliveriesAreSuccesses` | `DeliveredIsRecordedSuccess` |
| `AnswersAreRecorded` | `AnswerIsRecorded` |
| `UnknownMeansGone` | `UnknownIsGone` |
| `ShutdownIsClean` | `ShutdownStrandsNothing` |
| `AnswersAreFinal` | `AnswersOnlyAdvance` |
| `ServiceImplementsRegistry` | `FollowsRegistry`, the refinement |

The argument.  `LockDiscipline` says that the two multi-step holders of the lock
exclude each other and where each can be; with it, work that is live is the work in
the slot (`SlotIsHeldByLiveWork`).  `OpenUntilRecorded` ties the three copies of an
execution's status together: live work has a running snapshot, a running snapshot an
open record until the callback has written it, and what the callback has written is
still the verdict on run files that nobody writes any more.  `KnownIsRecorded` adds
that memory and clients never know more than the catalog; `ShutdownDiscipline` that
no start is under way once the flag is set.  Each part is preserved given the others,
by one lemma per part; the refinement and `AnswersOnlyAdvance` use the invariant for
their steps.  TLC agrees on two executions (`MCProductExecution_more.cfg`).

`EconomicLedgerProofs` proves `Spec => []IInv` for any prices, ceilings, attempts and any
number of requests, turns, failed persists and crashes, from the two assumptions of
`EconomicLedger` (`LedgerConstants`, `NoneIsNoKey`).

| theorem | property |
|---|---|
| `InvariantHolds` | `IInv` |
| `TypesHold` | `TypeOK`: no total becomes negative |
| `ChargesCovered` | `ChargesAreCovered` |
| `SentDurable` | `SentIsDurable` |
| `ReleasedUnsent` | `ReleasedWasNotSent` |
| `LedgerIsImplemented` | `FollowsLedger`, the refinement |
| `EntriesFollow` | `EntriesFollowRFC` |

The argument.  `Sound` says four things of one copy of the economic state, and holds of
memory and of the file each by itself, because a crash puts the file in the place of
memory at any moment.  The file is only ever replaced by memory, so what is shown is that
memory stays sound.  That charges stay covered when money is released needs `MoneyFits`:
as long as nothing is written off, a reservation whose dispatch was only committed is not
needed to cover any charge; and that reconciliation finds this dispatch by the key of the
pending entry needs keys to be unique (`DispatchesFit`).  They are while nothing is
written off: a fresh turn has a fresh key (`TurnFits`, lemma `FreshKey`), and only a
reissue, which needs money written off, can repeat one.  `RequestFits` ties the place in
`execute` to the dispatch, the pending entry and the money; `FileFits` says that the
file lags behind memory by one move of the abstract ledger at most, which while an entry
is pending is its reservation, so that writing memory out later is still one move.
The steps of the refinement are then those of the file (`FileIsMemoryOrKept`) and the
sending of a request (`BillIsSent`).  TLC agrees (`EconomicLedger_more.cfg`).

`CompletionProofs` proves `Spec => []IInv` for any number of builds and sources and any
set of contracts, from `CompletionConstants`.

| theorem | property |
|---|---|
| `InvariantHolds` | `IInv` |
| `TypesHold` | `TypeOK` |
| `CompletionIsProved` | `CompleteIsProved`, with nobody editing during a build |
| `ResolutionHasPass` | `ResolvedHasPass`, edits during a build or not |
| `DeliveryIsTested` | `HandedOutIsTested`, with nobody editing during a build |
| `HonestRunCompletes` | `HonestBlockCompletes` |

The argument.  Facts are collected at different times, and the gate compares what they
say.  `JarFits` follows the jar from the build to the end of its validation, in which
nobody builds; `ArtifactFits` makes an artifact the jar of a build that succeeded.  So
what is being observed is what the last build made of the revision (`ObservedFits`), and
a pass, which is the last thing a run observes, remains a pass of the last build
(`PassIsLast`).  `FailuresFit` says that a failure is of an earlier build than the one
being validated, and that only one that names all the validation's requirements is ever
resolved: a resolution therefore has a pass of a later build behind it.  `~MidBuildEdits`
is an assumption of the two theorems that need it, and not of the model: with such edits
both properties are false (Divergences).

`BenchmarkRunProofs` proves `Spec => []IInv` for any finite set of cells and any
repetitions, attempts, caps, sessions and dispatches, from `BenchmarkConstants` and
`NoneIsNoAttempt`.

| theorem | property |
|---|---|
| `InvariantHolds` | `IInv` |
| `TypesHold` | `TypeOK` |
| `AttemptsAreRecordedOnce` | `RecordedOnce` |
| `RecordedAttemptsAreSettled` | `RecordedIsSettled` |
| `CompletedBatchIsDecided` | `CompletedIsDecided` |
| `ActiveAttemptIsNext` | `ActiveIsNext` |
| `UncertaintyBlocksOthers` | `UncertainBlocksOthers` |
| `HistoryOnlyGrows` | `HistoryGrows` |
| `BatchIsImplemented` | `FollowsBatch`, the refinement |

The argument.  `Sound` holds of the schedule in memory and of the one on disk: attempts
of a cell are numbered up to their count, every run is of a planned attempt, and a cell
that may still have attempts has as many completed and pending ones as it needs
(`Supplied`; without it a batch could end undecided).  `SavedFits` says that the file lags
by one recorded run at most, and only between the end of an attempt and the write.
What makes recovery right is `ActiveIsNext`, which a crash anywhere must keep: the
attempt the ledger holds is the next one of the schedule that is read back.  Once it is
recorded nothing is active (`WorkFits`), so no money of a recorded attempt is open.
`UncertainFits` is where a session can be while money is uncertain: stopped, resuming, or
reissuing.  The refinement adds no invariant.  `OutcomesCounted` shows by two bijections
that counting places of the schedule, as the code does, is counting attempts, as the
abstract batch does; `OutcomeRecorded` that recording a run changes one outcome, and two
when a replacement is planned; and `BatchCompletes` needs `ActiveIsNext` again: no money
can be held when nothing is pending.

`MinecraftHarnessProofs` proves `Spec => []IInv` for any set of the three callers, any
number of observations and validations and any behaviour of the server, from
`HarnessConstants`.

| theorem | property |
|---|---|
| `InvariantHolds` | `IInv` |
| `TypesHold` | `TypeOK` |
| `APassIsEarned` | `PassIsEarned` |
| `ARepairIsDue` | `RepairIsDue` |
| `LaunchesAreChecked` | `LaunchedIsChecked`, of `ObservationRequests` |
| `SelectorsAreLookedAt` | `SelectorIsLookedAt`, of `ObservationRequests` |
| `WorldIsSavedBeforeItIsReopened` | `ReopenFollowsSave` |

The argument.  Where evidence is fresh, each file of a directory was written by the
process of its own step (`EvidenceIsOwn`), hence each result says only what its process
justifies (`ResultsAreJustified`); the verdict is an aggregate of the results, of which
there is one for each step done (`ResultsCounted`), and is undecided until all are in.
Which result an aggregate is taken from is a least index: the lemma `LeastNat` finds it.
`SecondPhase` is the state of the world the second server meets.

The two theorems about observation requests hold for lists of any length, from
`RequestConstants`.  `RequestIInv` says that what is in a list was accepted when it was
declared (`ListAccepted`) and which servers it has by then (`ServersFit`); a server's
command line is then what its own request says.

`TurnProofs` is about what a provider turn is told.  For `WorkspaceTools` it proves
`Spec => []IInv` for any number of paths, turns, calls and
faults, any sizes and limits, from `ToolConstants`.

| theorem | property |
|---|---|
| `InvariantHolds` | `IInv` |
| `ShownIsCurrent` | `EvidenceIsCurrent` |
| `ShownStaysBounded` | `ShownIsBounded` |
| `ChangesAreLogged` | `ChangedIsLogged` |
| `RefusalsTouchNothing` | `RefusedTouchesNothing` |

The argument.  Each tool's call and answer are characterised once (`Answered`): no change
without success, none by a reading tool.  What is left of the excerpts is then shown to
be of unchanged files; that the trimming loop leaves at most the limit needs that
there is one excerpt of a file and that excerpts are taken out oldest first.

For `Knowledge` it proves `KnowledgeSpec => []KnowledgeIInv` for any finite set of
records, any environments, needs, failures, sources and budgets, any damage to the
store and any number of runs and crashes, from `KnowledgeAssumption`.

| theorem | property |
|---|---|
| `KnowledgeInvariantHolds` | `KnowledgeIInv` |
| `KnowledgeIsGenuine` | `KnowledgeIsOfThePack` |
| `SentIsTraced` | `TracedBeforeSent` |
| `FailuresComeFirst` | `FailureKnowledgeIsUndisturbed` |

The argument.  The pack in memory is verified and published, and nothing changes it
while the directory it came from is damaged or replaced (`PacksFit`).  Every item of a
retrieval is `Genuine` for the environment of its run, from there through selection to
the context (`RetrievalsFit`, `ContextFits`).  `ContextFits` also says that the traces
of a context cover all it gives; `LedgerFits` and `SentFits` follow them to the files
(`Backed`): stored traces stay, the product's run state only gains references while it
is ahead of what was sent, and a crash, which loses memory, loses no reference that a
request already sent relies on.
What the code computes by loops are recursive functions; that they are defined for every
input (`WalkExists`, `ServingExists`, `FlattenIn`), and what they return (`SelectIn`,
`GetFits`), is induction over data done by hand, with a least counterexample
(`LeastNat`) each time.

`FailuresComeFirst` compares two contexts of different lengths, the one that was built and
the one without the retrievals made for the task.  Failures are served first, in rounds, so that the
rounds over both begin alike (`UrgentFirst`, `RoundsFill`, `GetGrows`): what is given for
failures is the same, and the task's only follow it.  The task's retrievals leave no dump (`DumpsKeep`), so
that one context begins as the other and ends in the task's items, which every item of a
failure precedes (`Prolongs`).  The walk that fits items into the limit takes the same ones,
cut at the same byte, until no item of a failure is left (`BundleKeeps`,
`NothingMore`).  Nothing is assumed of how large an item or a
budget is.

`BenchmarkEvidenceProofs` proves `Spec => []IInv` for runs of any length and cells of any
size, from `BoundsAssumption`.

| theorem | property |
|---|---|
| `InvariantHolds` | `IInv` |
| `TypesHold` | `TypeOK` |
| `APassHasEvidence` | `PassHasEvidence` |
| `AFailIsTheAgents` | `FailIsTheAgents` |
| `WhatIsJudgedIsReported` | `JudgedIsReported` |
| `HonestRunsCount` | `HonestRunIsValid`, with call ids of a service |
| `CostsAddUp` | `UsageAddsUp` |
| `BlockedCountsForNothing` | `BlockedMovesNoRate` |

The argument.  `LogFits` and `BuildsFit` say how far the engine's counters and its events
agree; `MinecraftFits` that a result is of the last valid artifact but while that one
waits for its own.  `VerdictFits` then reduces each property to the classifier's cascade,
which reads nothing that changes afterwards.  `CostsAddUp` relates the sum of a list of
any length to the ledger: every usage logged leaves the attempt its own cost on top of
the last one's, and the budget what remained when the run began without the attempt's
part (`UsagesFit`); the ledger grew by the attempt, and the attempt by what was logged
until the run broke off (`LedgerFits`); no more than the ceiling is ever spent or held
(`MoneyTypes`).  The sum is a recursive function, its existence and how it
grows with the list are shown by a least counterexample (`LeastNat`).  The proof corrected the model: the cascade
had been a `CASE` with overlapping guards, whose value TLA+ leaves open and TLC takes to
be the first; it is a nested `IF` now, in the order of the code.

Left to TLC:

* all liveness (`Terminates`, `EveryEndIsRecorded`, `ShutdownReturns`, `SessionsEnd`,
    `ValidationEnds`): liveness under fairness is outside what the prover can do here;
* the violations.

Every invariant and every action property that a passing run checks is a theorem.

## Not modelled

* Benchmark pacing: a clock and a window of request times; it delays a request and
  changes nothing else.
* Fabric capability metadata and templates, project inspection, the resolver of the
  environment and the index of packs, dataset and release scripts: functions of data
  without interleaving.
* The study of two providers and the script that drives it: the benchmark's batch, with
  its cells, pauses and resumptions, on a smaller scale.
* The inside of the pre-build, Fabric and artifact validators: inspection of files;
  the models take their verdicts.
* The Gradle process: the same shape as the server process of `MinecraftHarness`,
  whose deadline and kill are modelled; its result is in `AgentRun`, its jar in
  `Completion`.
* Web handlers, command line, configuration, frontend: calls of the services modelled,
  and user interface.
* The repair orchestrators of `runtime/repair.py` and parts of `core/contracts.py`
  that only tests call.

## Plan

1. `WorkspaceTools` composed with the turn of `AgentRun`, so that what an excerpt says and
   what the gate asks for are one turn's.
2. An execution whose end could not be recorded (`product/execution.py:279`), as a
   property of its clients once the code gives it a terminal answer.
