---------------------------- MODULE CompletionProofs ----------------------------
(* What a complete run, a resolved failure and a delivered jar stand for, for *)
(* every number of builds and of sources.                                     *)
EXTENDS Completion, TLAPS

Pcs == {"editing", "building", "artifact", "runtime", "observing", "reporting", "ended",
        "judged", "recorded", "delivered"}
Statuses == {"PASS", "REPAIRABLE_FAIL", "BLOCKED", "INVALID"}
BuildRec   == [source : Sources, success : BOOLEAN]
RuntimeRec == [jar : {0} \cup Sources, build : Nat, status : Statuses]
FactIds == {<<>>, contract.build, RuntimeIds} \cup {<<RuntimeIds[o]>> : o \in DOMAIN RuntimeIds}
Fact == [id : [by : {"build", "runtime"}, nth : Nat, build : Nat],
         status : {"ACTIVE", "RESOLVED"}, ids : FactIds]

(* The types of every variable; TypeOK follows.                               *)
Types ==
    /\ contract \in [kind : Contracts, build : UNION {BuildOrders(k) : k \in Kinds}]
    /\ contract.build \in BuildOrders(contract.kind)
    /\ source \in Sources /\ jar \in {0} \cup Sources /\ touched \in BOOLEAN
    /\ pc \in Pcs
    /\ run \in {"RUNNING", "COMPLETED", "FAILED", "LIMIT_REACHED", "BLOCKED"}
    /\ changed \in BOOLEAN /\ repair \in BOOLEAN /\ compiled \in {0} \cup Sources
    /\ builds \in Seq(BuildRec) /\ Len(builds) <= MaxBuilds
    /\ revision \in {0} \cup Sources /\ class \in {"none", "VALID", "INVALID"}
    /\ artifact \in [jar : {0} \cup Sources, build : Nat, source : {0} \cup Sources]
    /\ runtimes \in Seq(RuntimeRec)
    /\ satisfied \subseteq Requirements /\ failures \subseteq Fact
    /\ verdict \in {"none", "COMPLETE", "INCOMPLETE", "BLOCKED"}

(* An artifact is the jar of a build that succeeded.                          *)
ArtifactFits ==
    artifact # None =>
        /\ artifact.build \in DOMAIN builds /\ builds[artifact.build].success
        /\ ~MidBuildEdits => artifact.jar = builds[artifact.build].source

(* From a build to the end of its validation nobody builds: the jar is still  *)
(* the one of the last build.                                                 *)
Validating == {"artifact", "runtime", "observing"}
JarFits ==
    /\ pc = "building" => Len(builds) < MaxBuilds /\ compiled \in Sources
    /\ pc = "building" /\ ~MidBuildEdits => compiled = source
    /\ pc \in Validating =>
          /\ builds # <<>> /\ Last(builds).success
          /\ ~MidBuildEdits => jar = Last(builds).source
    /\ pc \in {"runtime", "observing"} => class = "VALID"

(* What the validation observes is what the last build made of the revision.  *)
Current ==
    /\ builds # <<>> /\ Last(builds) = [source |-> revision, success |-> TRUE]
    /\ artifact.build = Len(builds) /\ artifact.source = revision
    /\ class = "VALID" /\ (~touched => source = revision)
ObservedFits == pc = "observing" => Current

(* A pass is the last thing a run observes: it reports, and what it passed is *)
(* still the artifact of the last build.                                      *)
PassIsLast ==
    \A k \in DOMAIN runtimes : runtimes[k].status = "PASS" =>
        /\ k = Len(runtimes) /\ Current
        /\ runtimes[k].jar = artifact.jar /\ runtimes[k].build = Len(builds)
        /\ pc \in {"reporting", "ended", "judged", "recorded", "delivered"}
        /\ pc # "reporting" => run = "COMPLETED"
RunFits ==
    /\ run = "COMPLETED" => pc \in {"ended", "judged", "recorded", "delivered"}
    /\ pc = "reporting" \/ run = "COMPLETED" => runtimes # <<>>

(* A failure is of a build that was made; while a build is validated, of one  *)
(* before it.  Only a fact that names all the validation's requirements is    *)
(* ever resolved.                                                             *)
FailuresFit ==
    \A f \in failures :
        /\ f.id.build <= Len(builds)
        /\ pc \in Validating => f.id.build < Len(builds)
        /\ f.status = "RESOLVED" => f.ids = RuntimeIds
VerdictFits == verdict # "none" => pc \in {"judged", "recorded", "delivered"}

IInv ==
    /\ Types /\ ArtifactFits /\ JarFits /\ ObservedFits /\ PassIsLast /\ RunFits /\ FailuresFit
    /\ ResolvedHasPass /\ VerdictFits
    /\ ~MidBuildEdits => CompleteIsProved
    /\ HonestBlockCompletes

-----------------------------------------------------------------------------
(* The requirement ids of a contract do not change, and every fact that names *)
(* any names one of them.                                                     *)
LEMMA SameContract ==
  ASSUME contract' = contract
  PROVE  /\ RuntimeIds' = RuntimeIds /\ ArtifactIds' = ArtifactIds /\ SourceIds' = SourceIds
         /\ Requirements' = Requirements /\ FactIds' = FactIds /\ Fact' = Fact
         /\ Validations' = Validations
<1>1. RuntimeIds' = RuntimeIds
  BY DEF RuntimeIds
<1>2. ArtifactIds' = ArtifactIds
  BY DEF ArtifactIds
<1>3. SourceIds' = SourceIds
  BY DEF SourceIds
<1>4. Requirements' = Requirements /\ FactIds' = FactIds
  BY <1>1, <1>2, <1>3 DEF Requirements, FactIds
<1>. QED
  BY <1>1, <1>2, <1>3, <1>4 DEF Fact, Validations

LEMMA ContractFacts ==
  ASSUME Types
  PROVE  /\ RuntimeIds # <<>> /\ DOMAIN RuntimeIds \subseteq Observations
         /\ ToSet(RuntimeIds) \subseteq Requirements
         /\ \A ids \in FactIds : ids # <<>> => ToSet(ids) \cap Requirements # {}
<1>1. contract.kind \in Kinds /\ contract.build \in BuildOrders(contract.kind)
  BY CompletionConstants DEF Types
<1>2. /\ RuntimeIds \in {<<"registration">>, <<"item1", "item2">>, <<"item1", "recipe">>}
      /\ contract.build \in {<<"source">>, <<"item1", "item2">>, <<"item2", "item1">>, <<"item1">>}
  BY <1>1 DEF RuntimeIds, BuildOrders, Kinds
<1>3. DOMAIN RuntimeIds \subseteq Observations /\ RuntimeIds # <<>> /\ 1 \in DOMAIN RuntimeIds
  BY <1>2 DEF Observations
<1>4. \A o \in DOMAIN RuntimeIds : ToSet(<<RuntimeIds[o]>>) \cap ToSet(RuntimeIds) # {}
  <2>. TAKE o \in DOMAIN RuntimeIds
  <2>1. RuntimeIds[o] \in ToSet(RuntimeIds)
    BY DEF ToSet
  <2>2. 1 \in DOMAIN <<RuntimeIds[o]>> /\ <<RuntimeIds[o]>>[1] = RuntimeIds[o]
    OBVIOUS
  <2>3. RuntimeIds[o] \in ToSet(<<RuntimeIds[o]>>)
    BY <2>2 DEF ToSet
  <2>. QED
    BY <2>1, <2>3
<1>5. ToSet(contract.build) \cap SourceIds # {}
  <2>1. 1 \in DOMAIN contract.build
    BY <1>2
  <2>2. contract.build[1] \in ToSet(contract.build)
    BY <2>1 DEF ToSet
  <2>. QED
    BY <2>2 DEF SourceIds
<1>6. RuntimeIds[1] \in ToSet(RuntimeIds)
  BY <1>3 DEF ToSet
<1>. QED
  BY <1>3, <1>4, <1>5, <1>6 DEF FactIds, Requirements

(* What a failure is recorded with is a fact of the contract.                 *)
LEMMA FailureIdsAreFacts ==
  ASSUME Types, NEW failed \in (SUBSET Observations) \ {{}}
  PROVE  FailureIds(failed) \in FactIds
<1>1. CASE contract.kind = "block" \/ failed = Observations
  BY <1>1 DEF FailureIds, FactIds
<1>2. CASE contract.kind # "block" /\ failed # Observations
  <2>1. contract.kind \in Kinds
    BY CompletionConstants DEF Types
  <2>2. DOMAIN RuntimeIds = Observations
    BY <1>2, <2>1 DEF RuntimeIds, Kinds, Observations
  <2>3. (CHOOSE o \in failed : TRUE) \in Observations
    OBVIOUS
  <2>. QED
    BY <1>2, <2>2, <2>3 DEF FailureIds, FactIds
<1>. QED
  BY <1>1, <1>2

-----------------------------------------------------------------------------
(* Init and the steps that leave the facts of builds and validations alone.   *)
LEMMA InitIInv ==
  ASSUME Init
  PROVE  IInv
<1>0. PICK kind \in Contracts : \E ids \in BuildOrders(kind) : contract = [kind |-> kind, build |-> ids]
  BY DEF Init
<1>1. PICK ids \in BuildOrders(kind) : contract = [kind |-> kind, build |-> ids]
  BY <1>0
<1>2. kind \in Kinds
  BY CompletionConstants
<1>3. 1 \in Sources
  BY CompletionConstants DEF Sources
<1>4. /\ source \in Sources /\ jar = 0 /\ touched = FALSE
      /\ pc = "editing" /\ run = "RUNNING" /\ changed = FALSE /\ repair = FALSE /\ compiled = 0
      /\ builds = <<>> /\ revision = 0 /\ class = "none" /\ artifact = None /\ runtimes = <<>>
      /\ satisfied = {} /\ failures = {} /\ verdict = "none"
  BY <1>3 DEF Init
<1>5. Types
  <2>1. /\ contract \in [kind : Contracts, build : UNION {BuildOrders(k) : k \in Kinds}]
        /\ contract.build \in BuildOrders(contract.kind)
    BY <1>1, <1>2
  <2>2. builds \in Seq(BuildRec) /\ runtimes \in Seq(RuntimeRec) /\ Len(builds) <= MaxBuilds
    BY <1>4, CompletionConstants
  <2>3. artifact \in [jar : {0} \cup Sources, build : Nat, source : {0} \cup Sources]
    BY <1>4 DEF None
  <2>. QED
    BY <1>4, <2>1, <2>2, <2>3 DEF Types, Pcs
<1>6. ArtifactFits /\ JarFits /\ ObservedFits
  BY <1>4 DEF ArtifactFits, JarFits, ObservedFits, Validating
<1>7. PassIsLast /\ RunFits /\ FailuresFit /\ ResolvedHasPass /\ VerdictFits
  BY <1>4 DEF PassIsLast, RunFits, FailuresFit, ResolvedHasPass, VerdictFits
<1>8. CompleteIsProved /\ HonestBlockCompletes
  BY <1>4 DEF CompleteIsProved, HonestBlockCompletes, Finished
<1>. QED
  BY <1>5, <1>6, <1>7, <1>8 DEF IInv

(* Before the gate there is no verdict; what the facts say is kept by every   *)
(* step that leaves them.                                                     *)
LEMMA NoVerdict ==
  ASSUME IInv, pc \notin {"judged", "recorded", "delivered"}, UNCHANGED verdict
  PROVE  VerdictFits' /\ CompleteIsProved' /\ HonestBlockCompletes'
<1>1. verdict' = "none"
  BY DEF IInv, Types, VerdictFits
<1>. QED
  BY <1>1 DEF VerdictFits, CompleteIsProved, HonestBlockCompletes, Finished

LEMMA KeptFacts ==
  ASSUME IInv, UNCHANGED <<contract, facts, failures>>
  PROVE  ArtifactFits' /\ ResolvedHasPass'
<1>1. RuntimeIds' = RuntimeIds
  BY SameContract
<1>2. ArtifactFits'
  BY DEF IInv, ArtifactFits, facts
<1>3. ResolvedHasPass'
  BY <1>1 DEF IInv, ResolvedHasPass, facts
<1>. QED
  BY <1>2, <1>3

LEMMA AgentEditsStep ==
  ASSUME IInv, AgentEdits
  PROVE  IInv'
<1>. USE DEF IInv, AgentEdits, workspace, facts, ledger, outcome
<1>1. Types'
  <2>1. /\ UNCHANGED <<contract, jar, touched, pc, run, compiled, builds, revision, class>>
        /\ UNCHANGED <<artifact, runtimes, satisfied, failures, verdict>>
        /\ source' \in Sources /\ changed' = TRUE /\ repair' = FALSE
    OBVIOUS
  <2>. QED
    BY <2>1, SameContract DEF Types
<1>2. ArtifactFits' /\ ResolvedHasPass'
  BY KeptFacts
<1>3. JarFits' /\ ObservedFits' /\ RunFits'
  BY DEF JarFits, ObservedFits, Validating, RunFits
<1>4. PassIsLast'
  BY DEF PassIsLast
<1>5. FailuresFit'
  BY SameContract DEF FailuresFit, Validating
<1>. QED
  BY <1>1, <1>2, <1>3, <1>4, <1>5, NoVerdict

(* An edit of the user: only what an undisturbed workspace promises changes.  *)
LEMMA UserEditsStep ==
  ASSUME IInv, UserEdits
  PROVE  IInv'
<1>. USE DEF IInv, UserEdits, facts, ledger, outcome
<1>1. Types'
  BY SameContract DEF Types
<1>2. ArtifactFits' /\ ResolvedHasPass'
  BY KeptFacts
<1>3. JarFits' /\ RunFits' /\ VerdictFits'
  BY DEF JarFits, Validating, RunFits, VerdictFits
<1>4. Current => Current'
  BY DEF Current
<1>5. ObservedFits' /\ PassIsLast'
  BY <1>4 DEF ObservedFits, PassIsLast
<1>6. FailuresFit'
  BY SameContract DEF FailuresFit, Validating
<1>7. ~MidBuildEdits => CompleteIsProved'
  BY DEF CompleteIsProved, Resolved
<1>8. HonestBlockCompletes'
  BY DEF HonestBlockCompletes, Finished
<1>. QED
  BY <1>1, <1>2, <1>3, <1>5, <1>6, <1>7, <1>8

LEMMA UserBuildsStep ==
  ASSUME IInv, UserBuilds
  PROVE  IInv'
<1>. USE DEF IInv, UserBuilds, facts, ledger, outcome
<1>1. Types'
  BY SameContract DEF Types
<1>2. ArtifactFits' /\ ResolvedHasPass'
  BY KeptFacts
<1>3. JarFits' /\ RunFits' /\ VerdictFits'
  BY DEF JarFits, Validating, RunFits, VerdictFits
<1>4. Current => Current'
  BY DEF Current
<1>5. ObservedFits' /\ PassIsLast'
  BY <1>4 DEF ObservedFits, PassIsLast
<1>6. FailuresFit'
  BY SameContract DEF FailuresFit, Validating
<1>7. ~MidBuildEdits => CompleteIsProved'
  BY DEF CompleteIsProved, Resolved
<1>8. HonestBlockCompletes'
  BY DEF HonestBlockCompletes, Finished
<1>. QED
  BY <1>1, <1>2, <1>3, <1>5, <1>6, <1>7, <1>8

LEMMA BuildStep ==
  ASSUME IInv, Build
  PROVE  IInv'
<1>. USE DEF IInv, Build, workspace, facts, ledger, outcome
<1>1. Types'
  BY SameContract DEF Types, Pcs
<1>2. ArtifactFits' /\ ResolvedHasPass'
  BY KeptFacts
<1>3. JarFits' /\ ObservedFits' /\ RunFits'
  BY DEF JarFits, ObservedFits, Validating, RunFits, Types
<1>4. PassIsLast'
  BY DEF PassIsLast
<1>5. FailuresFit'
  BY SameContract DEF FailuresFit, Validating
<1>. QED
  BY <1>1, <1>2, <1>3, <1>4, <1>5, NoVerdict

LEMMA GiveUpStep ==
  ASSUME IInv, GiveUp
  PROVE  IInv'
<1>. USE DEF IInv, GiveUp, End, workspace, facts, ledger, outcome
<1>1. Types'
  BY SameContract DEF Types, Pcs
<1>2. ArtifactFits' /\ ResolvedHasPass'
  BY KeptFacts
<1>3. JarFits' /\ ObservedFits' /\ RunFits'
  BY DEF JarFits, ObservedFits, Validating, RunFits
<1>4. PassIsLast'
  BY DEF PassIsLast
<1>5. FailuresFit'
  BY SameContract DEF FailuresFit, Validating
<1>. QED
  BY <1>1, <1>2, <1>3, <1>4, <1>5, NoVerdict

LEMMA ReportStep ==
  ASSUME IInv, Report
  PROVE  IInv'
<1>. USE DEF IInv, Report, End, workspace, facts, ledger, outcome
<1>1. Types'
  BY SameContract DEF Types, Pcs
<1>2. ArtifactFits' /\ ResolvedHasPass'
  BY KeptFacts
<1>3. JarFits' /\ ObservedFits' /\ RunFits'
  BY DEF JarFits, ObservedFits, Validating, RunFits
<1>4. PassIsLast'
  BY DEF PassIsLast, Current
<1>5. FailuresFit'
  BY SameContract DEF FailuresFit, Validating
<1>. QED
  BY <1>1, <1>2, <1>3, <1>4, <1>5, NoVerdict

(* What is recorded and delivered changes nothing the invariant speaks of but *)
(* the run's progress.                                                        *)
LEMMA RecordedStep ==
  ASSUME IInv, Record \/ Deliver
  PROVE  IInv'
<1>. USE DEF IInv, workspace, facts, ledger
<1>1. /\ UNCHANGED <<contract, workspace, run, changed, repair, compiled, facts, ledger, verdict>>
      /\ pc \in {"judged", "recorded"} /\ pc' \in {"recorded", "delivered"}
  BY DEF Record, Deliver
<1>2. Types'
  BY <1>1, SameContract DEF Types, Pcs
<1>3. ArtifactFits' /\ ResolvedHasPass'
  BY <1>1, KeptFacts
<1>4. JarFits' /\ ObservedFits' /\ RunFits' /\ VerdictFits'
  BY <1>1 DEF JarFits, ObservedFits, Validating, RunFits, VerdictFits
<1>5. PassIsLast'
  BY <1>1 DEF PassIsLast, Current
<1>6. FailuresFit'
  BY <1>1, SameContract DEF FailuresFit, Validating
<1>7. ~MidBuildEdits => CompleteIsProved'
  BY <1>1 DEF CompleteIsProved, Resolved
<1>8. HonestBlockCompletes'
  BY <1>1 DEF HonestBlockCompletes, Finished
<1>. QED
  BY <1>2, <1>3, <1>4, <1>5, <1>6, <1>7, <1>8

-----------------------------------------------------------------------------
(* The gate.  A jar that passed is the one of the current artifact, so the    *)
(* gate is complete only on the last observation of the last build.           *)
LEMMA GateComplete ==
  ASSUME IInv, NEW done, Gate(done) = "COMPLETE"
  PROVE  /\ Current
         /\ runtimes # <<>>
         /\ Last(runtimes) = [jar |-> artifact.jar, build |-> Len(builds), status |-> "PASS"]
         /\ artifact = [jar |-> artifact.jar, build |-> Len(builds), source |-> revision]
         /\ pc # "reporting" => run = "COMPLETED"
         /\ \A f \in failures : Resolved(f.id)
<1>1. RuntimeState = "pass" /\ ActiveFailures = {}
  BY DEF Gate, Validations, ValidationState
<1>2. PICK k \in DOMAIN runtimes : runtimes[k].jar = artifact.jar /\ runtimes[k].status = "PASS"
  BY <1>1 DEF RuntimeState
<1>3. /\ k = Len(runtimes) /\ Current /\ runtimes[k].build = Len(builds)
      /\ pc # "reporting" => run = "COMPLETED"
  BY <1>2 DEF IInv, PassIsLast
<1>4. runtimes # <<>> /\ Last(runtimes) = runtimes[k] /\ runtimes[k] \in RuntimeRec
  BY <1>3 DEF IInv, Types, Last
<1>5. Last(runtimes) = [jar |-> artifact.jar, build |-> Len(builds), status |-> "PASS"]
  BY <1>2, <1>3, <1>4 DEF RuntimeRec
<1>6. artifact = [jar |-> artifact.jar, build |-> Len(builds), source |-> revision]
  BY <1>3 DEF IInv, Types, Current
<1>7. ASSUME NEW f \in failures
      PROVE  Resolved(f.id)
  <2>1. ~(f.ids = <<>> \/ ToSet(f.ids) \cap Requirements # {}) \/ Resolved(f.id)
    BY <1>1 DEF ActiveFailures
  <2>2. f.ids \in FactIds
    BY DEF IInv, Types, Fact
  <2>. QED
    BY <2>1, <2>2, ContractFacts DEF IInv
<1>. QED
  BY <1>3, <1>4, <1>5, <1>6, <1>7

(* An undisturbed run of a block that passed has every requirement, criterion *)
(* and validation the gate asks for.                                          *)
LEMMA HonestGate ==
  ASSUME IInv, pc = "ended", run = "COMPLETED", ~touched, Last(runtimes).status = "PASS",
         contract.kind = "block", failures = {}, NEW files \in BOOLEAN
  PROVE  Gate(satisfied \cup Progress(files)) = "COMPLETE"
<1>. DEFINE done == satisfied \cup Progress(files)
<1>1. Len(runtimes) \in DOMAIN runtimes /\ runtimes[Len(runtimes)].status = "PASS"
  BY DEF IInv, Types, RunFits, Last
<1>2. /\ Current /\ source = revision
      /\ runtimes[Len(runtimes)].jar = artifact.jar
  BY <1>1 DEF IInv, PassIsLast, Current
<1>3. /\ Len(builds) \in DOMAIN builds /\ builds[Len(builds)] = Last(builds)
      /\ revision \in Sources /\ revision # 0
  BY <1>2 DEF IInv, Types, Current, Last, BuildRec, Sources
<1>4. BuildIsCurrent(builds[Len(builds)], revision)
  BY <1>2, <1>3 DEF Current, BuildIsCurrent
<1>5. artifact # None /\ ArtifactIsCurrent(revision)
  BY <1>2, <1>3, <1>4 DEF Current, ArtifactIsCurrent, None
<1>6. BuildState = "pass" /\ ArtifactState = "pass" /\ RuntimeState = "pass"
  BY <1>1, <1>2, <1>3, <1>4, <1>5 DEF BuildState, ArtifactState, RuntimeState, Current
<1>7. SourceIds \cup ArtifactIds \cup ToSet(RuntimeIds) \subseteq done
  BY <1>1, <1>2, <1>3, <1>4, <1>5 DEF Progress, Current
<1>8. contract.build = <<"source">> /\ SourceIds = {"source"}
  BY DEF IInv, Types, BuildOrders, SourceIds, ToSet
<1>9. ArtifactIds = {"resources"}
  BY DEF ArtifactIds
<1>10. Requirements \subseteq done
  BY <1>7 DEF Requirements
<1>11. ASSUME NEW k \in Criteria
       PROVE  Met(k, done)
  <2>1. CASE k \in {"source change", "artifact"}
    BY <2>1, <1>7, <1>8, <1>9 DEF Met, CriterionRequirement
  <2>2. CASE k = "build"
    BY <2>2, <1>6 DEF Met, CriterionRequirement, CriterionValidation, Validations, ValidationState
  <2>3. CASE k = "minecraft"
    BY <2>3, <1>6 DEF Met, CriterionRequirement, CriterionValidation, Validations, ValidationState
  <2>. QED
    BY <2>1, <2>2, <2>3 DEF Criteria
<1>12. \A v \in Validations : ValidationState(v) = "pass"
  BY <1>6 DEF Validations, ValidationState
<1>13. ActiveFailures = {}
  BY DEF ActiveFailures
<1>. HIDE DEF done
<1>14. Gate(done) = "COMPLETE"
  BY <1>10, <1>11, <1>12, <1>13 DEF Gate
<1>. QED
  BY <1>14 DEF done

LEMMA EvaluateStep ==
  ASSUME IInv, Evaluate
  PROVE  IInv'
<1>0. /\ pc = "ended" /\ pc' = "judged"
      /\ UNCHANGED <<contract, source, jar, touched, run, changed, repair, compiled>>
      /\ UNCHANGED <<builds, revision, class, artifact, runtimes, failures>>
  BY DEF Evaluate, workspace, facts
<1>1. PICK files \in BOOLEAN : satisfied' = satisfied \cup Progress(files)
  BY DEF Evaluate
<1>2. verdict' = Gate(satisfied')
  BY DEF Evaluate
<1>3. Types'
  <2>1. satisfied' \subseteq Requirements
    BY <1>1 DEF Progress, Requirements, IInv, Types
  <2>2. verdict' \in {"none", "COMPLETE", "INCOMPLETE", "BLOCKED"}
    BY <1>2 DEF Gate
  <2>. QED
    BY <1>0, <2>1, <2>2, SameContract DEF IInv, Types, Pcs
<1>4. ArtifactFits' /\ ResolvedHasPass'
  BY <1>0, KeptFacts DEF facts
<1>5. JarFits' /\ ObservedFits' /\ RunFits' /\ VerdictFits'
  BY <1>0 DEF IInv, JarFits, ObservedFits, Validating, RunFits, VerdictFits
<1>6. Current => Current'
  BY <1>0 DEF Current
<1>7. PassIsLast'
  BY <1>0, <1>6 DEF IInv, PassIsLast
<1>8. FailuresFit'
  BY <1>0, SameContract DEF IInv, FailuresFit, Validating
<1>9. ~MidBuildEdits => CompleteIsProved'
  <2>. SUFFICES ASSUME ~MidBuildEdits, Gate(satisfied') = "COMPLETE"
                PROVE  CompleteIsProved'
    BY <1>2 DEF CompleteIsProved
  <2>1. /\ Current /\ run = "COMPLETED"
        /\ Last(runtimes) = [jar |-> artifact.jar, build |-> Len(builds), status |-> "PASS"]
        /\ artifact = [jar |-> artifact.jar, build |-> Len(builds), source |-> revision]
        /\ \A f \in failures : Resolved(f.id)
    BY <1>0, GateComplete
  <2>2. artifact # None /\ artifact.build = Len(builds) /\ builds[Len(builds)] = Last(builds)
    BY <2>1 DEF IInv, Types, Current, None, Last
  <2>3. artifact.jar = revision
    BY <2>1, <2>2 DEF IInv, ArtifactFits, Current
  <2>4. \A f \in failures' : Resolved(f.id)'
    BY <1>0, <2>1 DEF Resolved
  <2>. QED
    BY <1>0, <2>1, <2>3, <2>4 DEF CompleteIsProved, Current
<1>10. HonestBlockCompletes'
  <2>. SUFFICES ASSUME Finished', contract'.kind = "block", failures' = {}
                PROVE  verdict' = "COMPLETE"
    BY DEF HonestBlockCompletes
  <2>1. run = "COMPLETED" /\ ~touched /\ Last(runtimes).status = "PASS" /\ contract.kind = "block"
        /\ failures = {}
    BY <1>0 DEF Finished
  <2>. QED
    BY <1>0, <1>1, <1>2, <2>1, HonestGate
<1>. QED
  BY <1>3, <1>4, <1>5, <1>7, <1>8, <1>9, <1>10 DEF IInv

-----------------------------------------------------------------------------
(* A build: the jar is of what Gradle read, which is the source when nobody   *)
(* edits meanwhile; a failure is of the attempt just counted.                 *)
LEMMA BuiltStep ==
  ASSUME IInv, Built
  PROVE  IInv'
<1>1. PICK success \in BOOLEAN :
         /\ builds' = Append(builds, [source |-> source, success |-> success])
         /\ success => pc' = "artifact" /\ jar' = compiled /\ UNCHANGED <<run, failures>>
         /\ ~success =>
              /\ failures' = failures \cup
                     {Active("build", Len(builds) + 1, Len(builds) + 1, contract.build)}
              /\ pc' \in {"editing", "ended"} /\ run' \in {run, "LIMIT_REACHED"}
              /\ UNCHANGED jar
  BY DEF Built, End
<1>2. /\ pc = "building" /\ revision' = source /\ compiled' = 0
      /\ UNCHANGED <<contract, source, touched, changed, repair, class, artifact, runtimes,
                     satisfied, verdict>>
  BY DEF Built, outcome
<1>. DEFINE b == [source |-> source, success |-> success]
<1>3. /\ b \in BuildRec /\ builds \in Seq(BuildRec) /\ Len(builds) \in Nat
      /\ Len(builds) + 1 <= MaxBuilds
  BY <1>2, CompletionConstants DEF IInv, Types, JarFits, BuildRec
<1>4. /\ builds' \in Seq(BuildRec) /\ Len(builds') = Len(builds) + 1
      /\ builds'[Len(builds')] = b /\ Last(builds') = b /\ builds' # <<>>
      /\ \A i \in DOMAIN builds : i \in DOMAIN builds' /\ builds'[i] = builds[i]
  BY <1>1, <1>3 DEF Last
<1>. DEFINE f == Active("build", Len(builds) + 1, Len(builds) + 1, contract.build)
<1>5. /\ f \in Fact /\ f.id.build = Len(builds')
      /\ f.status = "ACTIVE"
  BY <1>3, <1>4 DEF Active, Fact, FactIds
<1>6. /\ failures' \subseteq failures \cup {f}
      /\ success => failures' = failures
  BY <1>1
<1>. HIDE DEF f, b
<1>7. Types'
  <2>1. failures' \subseteq Fact'
    BY <1>2, <1>5, <1>6, SameContract DEF IInv, Types
  <2>2. /\ pc' \in Pcs /\ jar' \in {0} \cup Sources
        /\ run' \in {"RUNNING", "COMPLETED", "FAILED", "LIMIT_REACHED", "BLOCKED"}
    BY <1>1 DEF IInv, Types, Pcs
  <2>3. builds' \in Seq(BuildRec) /\ Len(builds') <= MaxBuilds
    BY <1>3, <1>4
  <2>4. Requirements' = Requirements
    BY <1>2, SameContract
  <2>. QED
    BY <1>2, <2>1, <2>2, <2>3, <2>4 DEF IInv, Types
<1>8. \A k \in DOMAIN runtimes : runtimes[k].status # "PASS"
  BY <1>2 DEF IInv, PassIsLast
<1>9. ArtifactFits' /\ ObservedFits' /\ PassIsLast'
  BY <1>1, <1>2, <1>4, <1>8 DEF IInv, ArtifactFits, ObservedFits, PassIsLast
<1>10. JarFits'
  BY <1>1, <1>2, <1>4 DEF b, IInv, JarFits, Validating
<1>11. RunFits'
  BY <1>1, <1>2 DEF IInv, RunFits
<1>12. FailuresFit'
  <2>1. RuntimeIds' = RuntimeIds
    BY <1>2, SameContract
  <2>2. \A g \in failures : g.id.build <= Len(builds) /\ g.id.build \in Nat
    BY DEF IInv, Types, Fact, FailuresFit
  <2>3. \A g \in failures : g.id.build < Len(builds')
    BY <1>3, <1>4, <2>2
  <2>4. \A g \in failures' : g.id.build <= Len(builds')
    BY <1>4, <1>3, <1>5, <1>6, <2>3, <2>2
  <2>5. pc' \in Validating => success
    BY <1>1 DEF Validating
  <2>6. \A g \in failures' : g.status = "RESOLVED" => g.ids = RuntimeIds
    BY <1>5, <1>6 DEF IInv, FailuresFit
  <2>. QED
    BY <1>6, <2>1, <2>3, <2>4, <2>5, <2>6 DEF FailuresFit
<1>13. ResolvedHasPass'
  <2>1. RuntimeIds' = RuntimeIds
    BY <1>2, SameContract
  <2>. QED
    BY <1>2, <1>5, <1>6, <2>1 DEF IInv, ResolvedHasPass
<1>14. VerdictFits' /\ CompleteIsProved' /\ HonestBlockCompletes'
  BY <1>2, NoVerdict
<1>. QED
  BY <1>7, <1>9, <1>10, <1>11, <1>12, <1>13, <1>14 DEF IInv

LEMMA ValidateArtifactStep ==
  ASSUME IInv, ValidateArtifact
  PROVE  IInv'
<1>1. /\ pc = "artifact"
      /\ UNCHANGED <<contract, source, jar, touched, changed, repair, compiled, builds, revision>>
      /\ UNCHANGED <<runtimes, satisfied, failures, verdict>>
  BY DEF ValidateArtifact, workspace, ledger, outcome
<1>2. \/ /\ class' = "VALID" /\ pc' = "runtime" /\ UNCHANGED run
         /\ artifact' = [jar |-> jar, build |-> Len(builds), source |-> revision]
      \/ class' = "INVALID" /\ pc' = "ended" /\ run' = "FAILED" /\ UNCHANGED artifact
  BY DEF ValidateArtifact, End
<1>3. /\ Len(builds) \in DOMAIN builds /\ builds[Len(builds)] = Last(builds)
      /\ Last(builds).success /\ (~MidBuildEdits => jar = Last(builds).source)
  BY <1>1 DEF IInv, Types, JarFits, Validating, Last
<1>4. Types'
  <2>1. artifact' \in [jar : {0} \cup Sources, build : Nat, source : {0} \cup Sources]
    BY <1>2 DEF IInv, Types
  <2>2. pc' \in Pcs /\ class' \in {"none", "VALID", "INVALID"}
        /\ run' \in {"RUNNING", "COMPLETED", "FAILED", "LIMIT_REACHED", "BLOCKED"}
    BY <1>2 DEF IInv, Types, Pcs
  <2>. QED
    BY <1>1, <2>1, <2>2, SameContract DEF IInv, Types
<1>5. \A k \in DOMAIN runtimes : runtimes[k].status # "PASS"
  BY <1>1 DEF IInv, PassIsLast
<1>6. ArtifactFits'
  BY <1>1, <1>2, <1>3 DEF IInv, ArtifactFits
<1>7. JarFits' /\ ObservedFits' /\ RunFits'
  BY <1>1, <1>2 DEF IInv, JarFits, ObservedFits, RunFits, Validating
<1>8. PassIsLast'
  BY <1>1, <1>5 DEF PassIsLast
<1>9. RuntimeIds' = RuntimeIds
  BY <1>1, SameContract
<1>10. FailuresFit' /\ ResolvedHasPass'
  BY <1>1, <1>9 DEF IInv, FailuresFit, ResolvedHasPass, Validating
<1>11. VerdictFits' /\ CompleteIsProved' /\ HonestBlockCompletes'
  BY <1>1, NoVerdict
<1>. QED
  BY <1>4, <1>6, <1>7, <1>8, <1>10, <1>11 DEF IInv

(* The validation publishes the artifact for the source as it is now, and     *)
(* observes it only if the last build made it.                                *)
LEMMA ValidateRuntimeStep ==
  ASSUME IInv, ValidateRuntime
  PROVE  IInv'
<1>1. /\ pc = "runtime" /\ revision' = source
      /\ artifact' = [jar |-> jar, build |-> Len(builds), source |-> source]
      /\ UNCHANGED <<contract, source, jar, touched, changed, repair, compiled, builds, class>>
      /\ UNCHANGED <<runtimes, satisfied, failures, verdict>>
  BY DEF ValidateRuntime, workspace, ledger, outcome
<1>2. \/ Last(builds).source = source /\ pc' = "observing" /\ UNCHANGED run
      \/ pc' = "ended" /\ run' = "BLOCKED"
  BY DEF ValidateRuntime, End, BuildIsCurrent
<1>3. /\ builds # <<>> /\ Len(builds) \in DOMAIN builds /\ builds[Len(builds)] = Last(builds)
      /\ Last(builds).success /\ (~MidBuildEdits => jar = Last(builds).source)
      /\ Last(builds) \in BuildRec /\ class = "VALID"
  BY <1>1 DEF IInv, Types, JarFits, Validating, Last
<1>4. Types'
  <2>1. artifact' \in [jar : {0} \cup Sources, build : Nat, source : {0} \cup Sources]
    BY <1>1 DEF IInv, Types
  <2>2. pc' \in Pcs /\ run' \in {"RUNNING", "COMPLETED", "FAILED", "LIMIT_REACHED", "BLOCKED"}
    BY <1>2 DEF IInv, Types, Pcs
  <2>3. Requirements' = Requirements /\ Fact' = Fact
    BY <1>1, SameContract
  <2>. QED
    BY <1>1, <2>1, <2>2, <2>3 DEF IInv, Types
<1>5. \A k \in DOMAIN runtimes : runtimes[k].status # "PASS"
  BY <1>1 DEF IInv, PassIsLast
<1>6. ArtifactFits'
  BY <1>1, <1>3 DEF ArtifactFits
<1>7. ObservedFits'
  <2>. SUFFICES ASSUME Last(builds).source = source, pc' = "observing"
                PROVE  Current'
    BY <1>2 DEF ObservedFits
  <2>1. Last(builds) = [source |-> source, success |-> TRUE]
    BY <1>3 DEF BuildRec
  <2>. QED
    BY <1>1, <1>3, <2>1 DEF Current
<1>8. JarFits' /\ RunFits'
  BY <1>1, <1>2 DEF IInv, JarFits, RunFits, Validating
<1>9. PassIsLast'
  BY <1>1, <1>5 DEF PassIsLast
<1>10. RuntimeIds' = RuntimeIds
  BY <1>1, SameContract
<1>11. FailuresFit' /\ ResolvedHasPass'
  BY <1>1, <1>10 DEF IInv, FailuresFit, ResolvedHasPass, Validating
<1>12. VerdictFits' /\ CompleteIsProved' /\ HonestBlockCompletes'
  BY <1>1, NoVerdict
<1>. QED
  BY <1>4, <1>6, <1>7, <1>8, <1>9, <1>11, <1>12 DEF IInv

(* The answer of the validation.  A pass resolves failures of earlier builds  *)
(* only, for nothing has failed since the last one was built.                 *)
LEMMA ObserveStep ==
  ASSUME IInv, Observe
  PROVE  IInv'
<1>1. /\ pc = "observing"
      /\ UNCHANGED <<contract, source, jar, touched, changed, compiled, builds, revision>>
      /\ UNCHANGED <<class, artifact, verdict>>
  BY DEF Observe, workspace, outcome
<1>2. PICK status \in Statuses :
         /\ Observed(status)
         /\ repair' \in BOOLEAN
         /\ satisfied' \subseteq satisfied \cup ToSet(RuntimeIds)
         /\ \/ status = "PASS" /\ failures' = Reconciled /\ pc' = "reporting" /\ UNCHANGED run
            \/ /\ status # "PASS"
               /\ \/ \E ids \in FactIds : failures' = failures \cup {RuntimeFailure(ids)}
                  \/ UNCHANGED failures
               /\ \/ pc' \in {"editing", "reporting"} /\ UNCHANGED run
                  \/ pc' = "ended" /\ run' = "BLOCKED"
  <2>1. CASE Pass
    BY <2>1 DEF Pass, Statuses, IInv, Types
  <2>2. CASE \E failed \in (SUBSET Observations) \ {{}},
                status \in {"REPAIRABLE_FAIL", "BLOCKED", "INVALID"} :
                   Fail(status, FailureIds(failed))
    <3>1. PICK failed \in (SUBSET Observations) \ {{}},
               status \in {"REPAIRABLE_FAIL", "BLOCKED", "INVALID"} :
                  Fail(status, FailureIds(failed))
      BY <2>2
    <3>2. FailureIds(failed) \in FactIds
      BY FailureIdsAreFacts DEF IInv
    <3>. QED
      BY <3>1, <3>2 DEF Fail, End, Statuses, IInv, Types
  <2>3. CASE /\ Observed("INVALID") /\ pc' = "reporting"
             /\ UNCHANGED <<run, repair, ledger>>
    BY <2>3 DEF ledger, Statuses, IInv, Types
  <2>. QED
    BY <2>1, <2>2, <2>3 DEF Observe
<1>. DEFINE r == [jar |-> artifact.jar, build |-> artifact.build, status |-> status]
<1>3. /\ Current /\ artifact.build = Len(builds) /\ Len(builds) \in Nat
      /\ \A k \in DOMAIN runtimes : runtimes[k].status # "PASS"
  BY <1>1 DEF IInv, Types, ObservedFits, PassIsLast, Current
<1>4. r \in RuntimeRec /\ runtimes \in Seq(RuntimeRec)
  BY DEF RuntimeRec, IInv, Types
<1>5. /\ runtimes' \in Seq(RuntimeRec) /\ Len(runtimes') = Len(runtimes) + 1
      /\ Len(runtimes') \in DOMAIN runtimes' /\ runtimes'[Len(runtimes')] = r /\ runtimes' # <<>>
      /\ \A k \in DOMAIN runtimes : k \in DOMAIN runtimes' /\ runtimes'[k] = runtimes[k]
      /\ \A k \in DOMAIN runtimes' : k \in DOMAIN runtimes \/ k = Len(runtimes')
  BY <1>2, <1>4 DEF Observed
<1>6. RuntimeIds' = RuntimeIds /\ Requirements' = Requirements /\ Fact' = Fact
  BY <1>1, SameContract
<1>7. ASSUME NEW ids \in FactIds
      PROVE  /\ RuntimeFailure(ids) \in Fact
             /\ RuntimeFailure(ids).id.build = Len(builds)
             /\ RuntimeFailure(ids).status = "ACTIVE"
  <2>1. Len(runtimes) + 1 \in Nat /\ artifact.build \in Nat
    BY <1>3, <1>4
  <2>. QED
    BY <1>3, <2>1 DEF RuntimeFailure, Active, Fact
<1>8. /\ failures \subseteq Fact
      /\ \A f \in failures : /\ f.id.build \in Nat /\ f.id.build < Len(builds)
                             /\ f.status # "RESOLVED"
  <2>1. failures \subseteq Fact
    BY DEF IInv, Types
  <2>2. ASSUME NEW f \in failures
        PROVE  f.id.build < Len(builds) /\ f.status # "RESOLVED"
    BY <1>1, <1>3 DEF IInv, FailuresFit, Validating, ResolvedHasPass
  <2>. QED
    BY <2>1, <2>2 DEF Fact
<1>9. /\ failures' \subseteq Fact
      /\ \A f \in failures' :
            /\ f.id.build \in Nat /\ f.id.build <= Len(builds)
            /\ f.status = "RESOLVED" =>
                  status = "PASS" /\ f.ids = RuntimeIds /\ f.id.build < Len(builds)
  <2>1. CASE status = "PASS"
    <3>1. failures' = failures \cup
              {[f EXCEPT !.status = "RESOLVED"] : f \in {g \in failures : Resolves(g)}}
      BY <1>2, <2>1 DEF Reconciled
    <3>2. ASSUME NEW g \in failures, Resolves(g)
          PROVE  /\ [g EXCEPT !.status = "RESOLVED"] \in Fact
                 /\ [g EXCEPT !.status = "RESOLVED"].ids = RuntimeIds
                 /\ [g EXCEPT !.status = "RESOLVED"].id = g.id
      BY <1>8, <3>2 DEF Fact, Resolves
    <3>3. ASSUME NEW f \in failures', f \notin failures
          PROVE  \E g \in failures : Resolves(g) /\ f = [g EXCEPT !.status = "RESOLVED"]
      BY <3>1, <3>3
    <3>4. ASSUME NEW f \in failures'
          PROVE  /\ f \in Fact /\ f.id.build \in Nat /\ f.id.build < Len(builds)
                 /\ f.status = "RESOLVED" => f.ids = RuntimeIds
      <4>1. CASE f \in failures
        BY <1>8, <4>1
      <4>2. CASE f \notin failures
        <5>1. PICK g \in failures : Resolves(g) /\ f = [g EXCEPT !.status = "RESOLVED"]
          BY <3>3, <4>2
        <5>. QED
          BY <1>8, <3>2, <5>1
      <4>. QED
        BY <4>1, <4>2
    <3>. QED
      BY <1>3, <2>1, <3>4
  <2>2. CASE status # "PASS"
    BY <1>2, <1>3, <1>7, <1>8, <2>2
  <2>. QED
    BY <2>1, <2>2
<1>. HIDE DEF r
<1>10. Types'
  <2>1. /\ pc' \in Pcs
        /\ run' \in {"RUNNING", "COMPLETED", "FAILED", "LIMIT_REACHED", "BLOCKED"}
    BY <1>2 DEF IInv, Types, Pcs
  <2>2. satisfied' \subseteq Requirements
    BY <1>2 DEF IInv, Types, Requirements
  <2>. QED
    BY <1>1, <1>2, <1>5, <1>6, <1>9, <2>1, <2>2 DEF IInv, Types
<1>11. ArtifactFits'
  BY <1>1 DEF IInv, ArtifactFits
<1>12. JarFits' /\ ObservedFits'
  BY <1>2 DEF JarFits, ObservedFits, Validating
<1>13. RunFits'
  BY <1>1, <1>2, <1>5 DEF IInv, RunFits
<1>14. PassIsLast'
  <2>1. Current'
    BY <1>1, <1>3 DEF Current
  <2>2. ASSUME NEW k \in DOMAIN runtimes', runtimes'[k].status = "PASS"
        PROVE  k = Len(runtimes') /\ status = "PASS"
    BY <1>3, <1>5, <2>2 DEF r
  <2>3. runtimes'[Len(runtimes')].jar = artifact.jar
        /\ runtimes'[Len(runtimes')].build = Len(builds)
    BY <1>3, <1>5 DEF r
  <2>. QED
    BY <1>1, <1>2, <2>1, <2>2, <2>3 DEF PassIsLast
<1>15. FailuresFit'
  BY <1>1, <1>2, <1>6, <1>9 DEF FailuresFit, Validating
<1>16. ResolvedHasPass'
  <2>. SUFFICES ASSUME NEW f \in failures', f.status = "RESOLVED"
                PROVE  /\ f.ids # <<>> /\ ToSet(f.ids) \subseteq ToSet(RuntimeIds)
                       /\ \E k \in DOMAIN runtimes' :
                            runtimes'[k].status = "PASS" /\ runtimes'[k].build > f.id.build
    BY <1>6 DEF ResolvedHasPass
  <2>1. f.ids = RuntimeIds /\ RuntimeIds # <<>>
    BY <1>9, ContractFacts DEF IInv
  <2>2. runtimes'[Len(runtimes')].status = "PASS" /\ runtimes'[Len(runtimes')].build > f.id.build
    BY <1>3, <1>5, <1>9 DEF r
  <2>. QED
    BY <1>5, <2>1, <2>2
<1>17. VerdictFits' /\ CompleteIsProved' /\ HonestBlockCompletes'
  BY <1>1, NoVerdict
<1>. QED
  BY <1>10, <1>11, <1>12, <1>13, <1>14, <1>15, <1>16, <1>17 DEF IInv

-----------------------------------------------------------------------------
LEMMA StutterStep ==
  ASSUME IInv, UNCHANGED vars
  PROVE  IInv'
<1>. USE DEF vars, workspace, facts, ledger, outcome
<1>1. Types'
  BY SameContract DEF IInv, Types
<1>2. ArtifactFits' /\ ResolvedHasPass'
  BY KeptFacts
<1>3. JarFits' /\ ObservedFits' /\ RunFits' /\ VerdictFits'
  BY DEF IInv, JarFits, ObservedFits, Current, RunFits, VerdictFits
<1>4. PassIsLast'
  BY DEF IInv, PassIsLast, Current
<1>5. FailuresFit'
  BY SameContract DEF IInv, FailuresFit
<1>6. ~MidBuildEdits => CompleteIsProved'
  BY DEF IInv, CompleteIsProved, Resolved
<1>7. HonestBlockCompletes'
  BY DEF IInv, HonestBlockCompletes, Finished
<1>. QED
  BY <1>1, <1>2, <1>3, <1>4, <1>5, <1>6, <1>7 DEF IInv

LEMMA NextStep ==
  ASSUME IInv, [Next]_vars
  PROVE  IInv'
BY AgentEditsStep, UserEditsStep, UserBuildsStep, BuildStep, BuiltStep, ValidateArtifactStep,
   ValidateRuntimeStep, ObserveStep, GiveUpStep, ReportStep, EvaluateStep, RecordedStep,
   StutterStep DEF Next

(* The invariant of the currentness facts, for every contract, every number   *)
(* of builds and of sources, and whoever edits the workspace.                 *)
THEOREM InvariantHolds == Spec => []IInv
<1>1. Init => IInv
  BY InitIInv
<1>2. IInv /\ [Next]_vars => IInv'
  BY NextStep
<1>. QED
  BY <1>1, <1>2, PTL DEF Spec

(* Every variable stays within its type.                                      *)
THEOREM TypesHold == Spec => []TypeOK
<1>1. IInv => TypeOK
  BY DEF IInv, Types, TypeOK, Pcs
<1>. QED
  BY <1>1, InvariantHolds, PTL

(* A run the gate calls complete ended with the build of its revision and a   *)
(* pass of the jar of that build, and every failure it had is resolved, when  *)
(* nobody edits the source while Gradle reads it.                             *)
THEOREM CompletionIsProved ==
  ASSUME ~MidBuildEdits
  PROVE  Spec => []CompleteIsProved
<1>1. IInv => CompleteIsProved
  BY DEF IInv
<1>. QED
  BY <1>1, InvariantHolds, PTL

(* A resolved failure has a later pass behind it that answers for all of its  *)
(* requirements, even where the source changes under a running build.         *)
THEOREM ResolutionHasPass == Spec => []ResolvedHasPass
<1>1. IInv => ResolvedHasPass
  BY DEF IInv
<1>. QED
  BY <1>1, InvariantHolds, PTL

(* A delivery hands out the jar of the source the workspace holds, which is   *)
(* the jar that passed, when nobody edits the source while Gradle reads it.   *)
THEOREM DeliveryIsTested ==
  ASSUME ~MidBuildEdits
  PROVE  Spec => []HandedOutIsTested
<1>1. ASSUME IInv
      PROVE  HandedOutIsTested
  <2>. SUFFICES ASSUME Deliverable
                PROVE  /\ jar = source
                       /\ \E i \in DOMAIN runtimes :
                             runtimes[i].jar = jar /\ runtimes[i].status = "PASS"
    BY DEF HandedOutIsTested
  <2>1. /\ Gate(satisfied) = "COMPLETE" /\ ArtifactIsCurrent(source) /\ artifact.jar = jar
    BY DEF Deliverable
  <2>2. /\ artifact # None /\ builds[artifact.build].source = source
    BY <2>1 DEF ArtifactIsCurrent, BuildIsCurrent
  <2>3. jar = source
    BY <1>1, <2>1, <2>2 DEF IInv, ArtifactFits
  <2>4. runtimes # <<>> /\ Last(runtimes).jar = jar /\ Last(runtimes).status = "PASS"
    BY <1>1, <2>1, GateComplete
  <2>5. Len(runtimes) \in DOMAIN runtimes /\ runtimes[Len(runtimes)] = Last(runtimes)
    BY <1>1, <2>4 DEF IInv, Types, Last
  <2>. QED
    BY <2>3, <2>4, <2>5
<1>. QED
  BY <1>1, InvariantHolds, PTL

(* The run of a block that nobody disturbed, in which nothing failed and      *)
(* whose validation passed is complete.                                       *)
THEOREM HonestRunCompletes == Spec => []HonestBlockCompletes
<1>1. IInv => HonestBlockCompletes
  BY DEF IInv
<1>. QED
  BY <1>1, InvariantHolds, PTL
================================================================================
