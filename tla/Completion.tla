------------------------------- MODULE Completion -------------------------------
(* Currentness, failure facts and the completion gate (core/currentness.py,   *)
(* core/progress.py, validation/completion.py and runtime.py,                 *)
(* runtime/repair.py, fabric/orchestration.py) over the builds and runtime    *)
(* validations of one product run, and the delivery they entitle to           *)
(* (product/delivery.py).  The run's control is module AgentRun; here it is   *)
(* kept as far as it writes these facts.  The workspace is the user's too: a  *)
(* source may be edited, and a jar rebuilt, by someone else.                  *)
(* A source revision is a number; a jar is the source it was compiled from.   *)
EXTENDS Naturals, Sequences, FiniteSets, SequencesExt

CONSTANTS
    Contracts,     \* kinds of contract considered
    MaxSource,     \* bound: sources the workspace may hold
    MaxBuilds,     \* max_build_attempts
    MidBuildEdits  \* may someone edit the source while Gradle runs?

Kinds == {"block", "items", "recipe"}
ASSUME CompletionConstants ==
    Contracts \subseteq Kinds /\ Contracts # {} /\ MaxSource \in Nat \ {0}
        /\ MaxBuilds \in Nat \ {0} /\ MidBuildEdits \in BOOLEAN

VARIABLES
    contract, \* [kind, build]: build the requirement ids of its builds, in order
    source,   \* what the workspace holds
    jar,      \* what the build directory holds, 0 none
    touched,  \* has anyone but the agent written to the workspace?
    pc, run,  \* where the run is, and its RunStatus when ended
    changed,  \* has the agent written anything (changed_files)?
    repair,   \* a runtime failure awaits a mutation
    compiled, \* what the running build has read
    builds,   \* build_identities
    revision, \* source_revision of the run state, 0 none
    class,    \* classification of the artifact
    artifact, \* artifact_identity: the jar, its build and source; None
    runtimes, \* runtime_identities
    satisfied,             \* the requirements of the TaskProgressLedger,
    failures,              \* and its facts: each of its own id and status, never removed
    verdict, product,      \* of the gate, and of the product execution
    delivery               \* the jar of the delivery record, 0 none

ledger    == <<satisfied, failures>>
workspace == <<source, jar, touched>>
facts     == <<builds, revision, class, artifact, runtimes>>
outcome   == <<verdict, product, delivery>>
vars == <<contract, workspace, pc, run, changed, repair, compiled, facts, ledger, outcome>>

Sources == 1..MaxSource
None == [jar |-> 0, build |-> 0, source |-> 0]

-----------------------------------------------------------------------------
(* The contracts of the product's resolver: a block with its item, assets and *)
(* recipe; two items; an item with a recipe.  Build validations follow the    *)
(* order of the plan, an order of hashes, and observations the item ids'.     *)
BuildOrders(kind) ==
    CASE kind = "block"  -> {<<"source">>}
      [] kind = "items"  -> {<<"item1", "item2">>, <<"item2", "item1">>}
      [] kind = "recipe" -> {<<"item1">>}
RuntimeIds ==
    CASE contract.kind = "block"  -> <<"registration">>
      [] contract.kind = "items"  -> <<"item1", "item2">>
      [] contract.kind = "recipe" -> <<"item1", "recipe">>
ArtifactIds ==
    CASE contract.kind = "block"  -> {"resources"}
      [] contract.kind = "items"  -> {}
      [] contract.kind = "recipe" -> {"recipe"}
SourceIds == ToSet(contract.build)   \* described with the word "source"
Requirements == SourceIds \cup ToSet(RuntimeIds) \cup ArtifactIds
Validations == {"build", "runtime"} \cup IF ArtifactIds = {} THEN {} ELSE {"artifact"}

(* Each observation's requirements, as a failure of it names them: those of a *)
(* block are declared with the validation's own id, which no failure keeps.   *)
Observations == 1..2
FailureIds(failed) ==
    IF contract.kind = "block" THEN <<>>
    ELSE IF failed = Observations THEN RuntimeIds
    ELSE <<RuntimeIds[CHOOSE o \in failed : TRUE]>>

(* What each completion criterion is matched with: the requirement whose      *)
(* description holds its words, or else the validation of its name.           *)
Criteria == {"source change", "build", "artifact"}
                \cup IF contract.kind = "block" THEN {"minecraft"} ELSE {}
CriterionRequirement(k) ==
    IF contract.kind # "block" THEN {}
    ELSE CASE k = "source change" -> {"source"}
           [] k = "artifact"      -> {"resources"}
           [] OTHER               -> {}
CriterionValidation(k) == (IF k = "minecraft" THEN {"runtime"} ELSE {k}) \cap Validations

-----------------------------------------------------------------------------
(* BuildAttemptIdentity.is_current and ArtifactIdentity.is_current, of the    *)
(* build that produced the artifact.                                          *)
BuildIsCurrent(b, s) == b.success /\ b.source = s
ArtifactIsCurrent(s) ==
    /\ artifact # None /\ artifact.source = s
    /\ BuildIsCurrent(builds[artifact.build], s)

BuildState ==
    IF \E i \in DOMAIN builds : BuildIsCurrent(builds[i], revision) THEN "pass"
    ELSE IF builds # <<>> THEN "stale" ELSE "missing"
ArtifactState ==
    IF artifact = None THEN "missing"
    ELSE IF ~ArtifactIsCurrent(revision) THEN "stale"
    ELSE IF class = "VALID" THEN "pass" ELSE "blocked"
RuntimeState ==
    IF artifact = None THEN "missing"
    ELSE IF ~ArtifactIsCurrent(revision) THEN "stale"
    ELSE IF \E i \in DOMAIN runtimes : runtimes[i].jar = artifact.jar /\ runtimes[i].status = "PASS"
    THEN "pass"
    ELSE IF runtimes # <<>> THEN "stale" ELSE "missing"
ValidationState(v) ==
    CASE v = "build" -> BuildState [] v = "artifact" -> ArtifactState [] v = "runtime" -> RuntimeState

(* The last fact of a failure says whether it is active; one that names no    *)
(* requirement blocks whatever the contract asks.                             *)
Resolved(id) == \E f \in failures : f.id = id /\ f.status = "RESOLVED"
FaultyActiveFailures == {f \in failures : ~Resolved(f.id) /\ f.ids # <<>>}
ActiveFailures ==
    {f \in failures : ~Resolved(f.id) /\ (f.ids = <<>> \/ ToSet(f.ids) \cap Requirements # {})}

Met(k, done) ==
    IF CriterionRequirement(k) # {} THEN CriterionRequirement(k) \subseteq done
    ELSE \E v \in CriterionValidation(k) : ValidationState(v) = "pass"

(* CompletionGate.evaluate.                                                   *)
Gate(done) ==
    IF \E v \in Validations : ValidationState(v) = "blocked" THEN "BLOCKED"
    ELSE IF /\ ActiveFailures = {}
            /\ Requirements \subseteq done
            /\ \A v \in Validations : ValidationState(v) = "pass"
            /\ \A k \in Criteria : Met(k, done)
    THEN "COMPLETE" ELSE "INCOMPLETE"

-----------------------------------------------------------------------------
Init ==
    /\ \E kind \in Contracts : \E ids \in BuildOrders(kind) :
          contract = [kind |-> kind, build |-> ids]
    /\ source = 1 /\ jar = 0 /\ touched = FALSE
    /\ pc = "editing" /\ run = "RUNNING" /\ changed = FALSE /\ repair = FALSE /\ compiled = 0
    /\ builds = <<>> /\ revision = 0 /\ class = "none" /\ artifact = None /\ runtimes = <<>>
    /\ satisfied = {} /\ failures = {}
    /\ verdict = "none" /\ product = "none" /\ delivery = 0

(* A tool call of the agent, while it may edit.                               *)
AgentEdits ==
    /\ pc = "editing"
    /\ source' \in Sources \ {source}
    /\ changed' = TRUE /\ repair' = FALSE
    /\ UNCHANGED <<contract, jar, touched, pc, run, compiled, facts, ledger, outcome>>

(* Someone else's edit, at any time, and build, once the run is over.         *)
UserEdits ==
    /\ pc = "building" => MidBuildEdits
    /\ source' \in Sources \ {source} /\ touched' = TRUE
    /\ UNCHANGED <<contract, jar, pc, run, changed, repair, compiled, facts, ledger, outcome>>
UserBuilds ==
    /\ pc \in {"recorded", "delivered"} /\ jar # source
    /\ jar' = source /\ touched' = TRUE
    /\ UNCHANGED <<contract, source, pc, run, changed, repair, compiled, facts, ledger, outcome>>

(* EDITING to BUILDING: a repair that changed nothing does not get there.     *)
Build ==
    /\ pc = "editing" /\ changed /\ ~repair /\ Len(builds) < MaxBuilds
    /\ pc' = "building" /\ compiled' = source
    /\ UNCHANGED <<contract, workspace, run, changed, repair, facts, ledger, outcome>>

End(status) == pc' = "ended" /\ run' = status

(* The fact that a failure is active: the nth of its kind, met by a build.    *)
Active(by, nth, build, ids) ==
    [id |-> [by |-> by, nth |-> nth, build |-> build], status |-> "ACTIVE", ids |-> ids]

(* _record_build_identity reads the source after Gradle has ended, and        *)
(* _normalize_productive_build_failure records a failed attempt as active.    *)
Built ==
    /\ pc = "building"
    /\ revision' = source
    /\ \E success \in BOOLEAN :
          /\ builds' = Append(builds, [source |-> source, success |-> success])
          /\ IF success
             THEN pc' = "artifact" /\ jar' = compiled /\ UNCHANGED <<run, failures>>
             ELSE /\ failures' = failures \cup
                        {Active("build", Len(builds) + 1, Len(builds) + 1, contract.build)}
                  /\ IF Len(builds) + 1 < MaxBuilds THEN pc' = "editing" /\ UNCHANGED run
                                                    ELSE End("LIMIT_REACHED")
                  /\ UNCHANGED jar
    /\ compiled' = 0
    /\ UNCHANGED <<contract, source, touched, changed, repair, class, artifact, runtimes,
                   satisfied, outcome>>

(* VALIDATING_ARTIFACT, with _record_artifact_identity for a valid one.       *)
ValidateArtifact ==
    /\ pc = "artifact"
    /\ \/ /\ class' = "VALID" /\ pc' = "runtime"
          /\ artifact' = [jar |-> jar, build |-> Len(builds), source |-> revision]
          /\ UNCHANGED run
       \/ /\ class' = "INVALID" /\ End("FAILED") /\ UNCHANGED artifact
    /\ UNCHANGED <<contract, workspace, changed, repair, compiled, builds, revision, runtimes,
                   ledger, outcome>>

(* ProductiveMinecraftFunctionalValidator.validate publishes the artifact for *)
(* the source as it is now; the orchestrator refuses one the last build does  *)
(* not make current, as the validator does when a dependency is missing.      *)
ValidateRuntime ==
    /\ pc = "runtime"
    /\ revision' = source
    /\ artifact' = [jar |-> jar, build |-> Len(builds), source |-> source]
    /\ \/ BuildIsCurrent(Last(builds), source) /\ pc' = "observing" /\ UNCHANGED run
       \/ End("BLOCKED")
    /\ UNCHANGED <<contract, workspace, changed, repair, compiled, builds, class, runtimes,
                   ledger, outcome>>

(* FailureReconciler.reconcile_runtime for every active failure: its ids must *)
(* be the ones of the validation, in order.                                   *)
Resolves(f) == f.status = "ACTIVE" /\ f.ids = RuntimeIds
Reconciled ==
    failures \cup {[f EXCEPT !.status = "RESOLVED"] : f \in {g \in failures : Resolves(g)}}

RuntimeFailure(ids) == Active("runtime", Len(runtimes) + 1, artifact.build, ids)
Observed(status) ==
    runtimes' = Append(runtimes, [jar |-> artifact.jar, build |-> artifact.build,
                                  status |-> status])

(* _validate_observations, with what the run does of its answer: an invalid   *)
(* one goes on to reporting.                                                  *)
Pass ==
    /\ Observed("PASS")
    /\ satisfied' = satisfied \cup ToSet(RuntimeIds)
    /\ failures' = Reconciled
    /\ pc' = "reporting" /\ UNCHANGED <<run, repair>>
FaultyFail(status, ids) ==
    /\ Observed(status) /\ failures' = Reconciled \cup {RuntimeFailure(ids)} /\ UNCHANGED satisfied
    /\ pc' = "editing" /\ repair' = TRUE /\ UNCHANGED run
Fail(status, ids) ==
    /\ Observed(status) /\ failures' = failures \cup {RuntimeFailure(ids)} /\ UNCHANGED satisfied
    /\ CASE status = "REPAIRABLE_FAIL" -> pc' = "editing" /\ repair' = TRUE /\ UNCHANGED run
         [] status = "BLOCKED"         -> End("BLOCKED") /\ UNCHANGED repair
         [] status = "INVALID"         -> pc' = "reporting" /\ UNCHANGED <<run, repair>>
Observe ==
    /\ pc = "observing"
    /\ \/ Pass
       \/ \E failed \in (SUBSET Observations) \ {{}}, status \in {"REPAIRABLE_FAIL", "BLOCKED", "INVALID"} :
             Fail(status, FailureIds(failed))
       \/ /\ Observed("INVALID") /\ pc' = "reporting"     \* answers of other observations
          /\ UNCHANGED <<run, repair, ledger>>
    /\ UNCHANGED <<contract, workspace, changed, compiled, builds, revision, class, artifact, outcome>>

(* The other ends of a run, which AgentRun has in detail, and REPORTING.      *)
GiveUp ==
    /\ pc = "editing" /\ \E status \in {"FAILED", "LIMIT_REACHED", "BLOCKED"} : End(status)
    /\ UNCHANGED <<contract, workspace, changed, repair, compiled, facts, ledger, outcome>>
Report ==
    /\ pc = "reporting" /\ End("COMPLETED")
    /\ UNCHANGED <<contract, workspace, changed, repair, compiled, facts, ledger, outcome>>

(* _reconcile_requirement_progress: what the current build and artifact, the  *)
(* changed files and a passed validation satisfy; the files a block's         *)
(* artifact requirement names count for themselves.                           *)
Progress(files) ==
    LET current == revision # 0 /\ revision = source
        built   == current /\ \E i \in DOMAIN builds : BuildIsCurrent(builds[i], source)
        valid   == built /\ class = "VALID" /\ ArtifactIsCurrent(source)
        passed  == \E i \in DOMAIN runtimes : runtimes[i].status = "PASS"
    IN  (IF built \/ (current /\ changed) THEN SourceIds ELSE {})
            \cup (IF valid \/ files THEN ArtifactIds ELSE {})
            \cup (IF passed THEN ToSet(RuntimeIds) ELSE {})
Evaluate ==
    /\ pc = "ended" /\ pc' = "judged"
    /\ \E files \in IF contract.kind = "block" THEN BOOLEAN ELSE {FALSE} :
          satisfied' = satisfied \cup Progress(files)
    /\ verdict' = Gate(satisfied')
    /\ UNCHANGED <<contract, workspace, run, changed, repair, compiled, facts, failures,
                   product, delivery>>

(* ExecutionService: a success needs the run's evidence and the gate.         *)
Passed == run = "COMPLETED" /\ class = "VALID" /\ Last(builds).success
Record ==
    /\ pc = "judged" /\ pc' = "recorded"
    /\ product' = IF run # "COMPLETED" THEN run
                  ELSE IF Passed /\ Gate(satisfied) = "COMPLETE" THEN "SUCCEEDED" ELSE "FAILED"
    /\ UNCHANGED <<contract, workspace, run, changed, repair, compiled, facts, ledger,
                   verdict, delivery>>

(* _validated_artifact, when a delivery is created and whenever it is asked   *)
(* for: the source and the digest are computed again.                         *)
FaultyDeliverable == Passed /\ Gate(satisfied) = "COMPLETE" /\ ArtifactIsCurrent(revision)
Deliverable ==
    /\ Passed /\ Gate(satisfied) = "COMPLETE"
    /\ ArtifactIsCurrent(source) /\ artifact.jar = jar
Deliver ==
    /\ pc = "recorded" /\ product = "SUCCEEDED" /\ pc' = "delivered"
    /\ delivery' = IF Deliverable THEN artifact.jar ELSE 0
    /\ UNCHANGED <<contract, workspace, run, changed, repair, compiled, facts, ledger,
                   verdict, product>>
Next ==
    \/ AgentEdits \/ UserEdits \/ UserBuilds \/ Build \/ Built \/ ValidateArtifact
    \/ ValidateRuntime \/ Observe \/ GiveUp \/ Report \/ Evaluate \/ Record \/ Deliver
Spec == Init /\ [][Next]_vars

-----------------------------------------------------------------------------
TypeOK ==
    /\ contract.kind \in Contracts /\ contract.build \in BuildOrders(contract.kind)
    /\ source \in Sources /\ jar \in {0} \cup Sources /\ compiled \in {0} \cup Sources
    /\ pc \in {"editing", "building", "artifact", "runtime", "observing", "reporting", "ended",
               "judged", "recorded", "delivered"}
    /\ Len(builds) <= MaxBuilds /\ revision \in {0} \cup Sources
    /\ satisfied \subseteq Requirements
    /\ verdict \in {"none", "COMPLETE", "INCOMPLETE", "BLOCKED"}

(* A complete run has built the source its facts speak of, and its last jar,  *)
(* made of that source, has passed the validation; every failure it ever had, *)
(* of a build or of the validation, named or not, is resolved.                *)
CompleteIsProved ==
    verdict = "COMPLETE" =>
        /\ run = "COMPLETED" /\ Last(builds) = [source |-> revision, success |-> TRUE]
        /\ artifact = [jar |-> revision, build |-> Len(builds), source |-> revision]
        /\ Last(runtimes) = [jar |-> revision, build |-> Len(builds), status |-> "PASS"]
        /\ \A f \in failures : Resolved(f.id)

(* What a delivery hands out, at whatever time it is asked for, is the jar of *)
(* the source the workspace holds then, and that very jar has passed.         *)
HandedOutIsTested ==
    delivery # 0 /\ Deliverable =>
        /\ jar = source
        /\ \E i \in DOMAIN runtimes : runtimes[i].jar = jar /\ runtimes[i].status = "PASS"

(* A failure is resolved by a later pass, of a later build, of a validation   *)
(* that answers for all the failure names.                                    *)
ResolvedHasPass ==
    \A f \in failures : f.status = "RESOLVED" =>
        /\ f.ids # <<>> /\ ToSet(f.ids) \subseteq ToSet(RuntimeIds)
        /\ \E k \in DOMAIN runtimes :
              runtimes[k].status = "PASS" /\ runtimes[k].build > f.id.build

(* A block's run that nobody disturbed, nothing failed in and the validation  *)
(* passed is complete: the gate asks for nothing the path does not provide.   *)
Finished == verdict # "none" /\ run = "COMPLETED" /\ ~touched /\ Last(runtimes).status = "PASS"
HonestBlockCompletes ==
    Finished /\ contract.kind = "block" /\ failures = {} => verdict = "COMPLETE"

(* "resolves the old failure, and passes CompletionGate": a run that repaired *)
(* what failed and passed its validation is complete.                         *)
FinishedIsComplete == Finished => verdict = "COMPLETE"
================================================================================
