------------------------ MODULE MinecraftHarnessProofs ------------------------
(* What the callers of the runtime check conclude, for every number of        *)
(* observations and validations and whatever the server does; and what the    *)
(* servers of a list of requests, of any length, are started with.            *)
EXTENDS MinecraftHarness, ObservationRequests, FiniteSetTheorems, WellFoundedInduction, TLAPS

-----------------------------------------------------------------------------
(* The least element of a set of numbers: of the intervals from zero to each, *)
(* one is minimal under inclusion.                                            *)
LEMMA LeastNat ==
  ASSUME NEW S \in SUBSET Nat, S # {}
  PROVE  \E x \in S : \A y \in S : x <= y
<1>. DEFINE T == {0..n : n \in S}
            R == StrictSubsetOrdering(Nat)
<1>1. T \subseteq FiniteSubsetsOf(Nat) /\ T # {}
  <2>1. ASSUME NEW n \in S
        PROVE  0..n \in FiniteSubsetsOf(Nat)
    <3>1. IsFiniteSet(0..n)
      BY FS_Interval
    <3>. QED
      BY <3>1 DEF FiniteSubsetsOf
  <2>. QED
    BY <2>1
<1>2. IsWellFoundedOn(R, FiniteSubsetsOf(Nat))
  BY FS_StrictSubsetOrderingWellFounded
<1>. HIDE DEF R, T
<1>3. \E x \in T : \A y \in T : <<y, x>> \notin R
  BY <1>1, <1>2, WFMin
<1>. USE DEF T
<1>4. PICK n \in S : \A y \in T : <<y, 0..n>> \notin R
  BY <1>3
<1>5. ASSUME NEW m \in S, ~(n <= m)
      PROVE  FALSE
  <2>1. m \in Nat /\ n \in Nat /\ m < n
    BY <1>5
  <2>2. 0..m \subseteq 0..n /\ n \in 0..n /\ n \notin 0..m
    BY <2>1
  <2>3. 0..m \in SUBSET Nat /\ 0..n \in SUBSET Nat /\ 0..m # 0..n
    BY <2>1, <2>2
  <2>4. <<0..m, 0..n>> \in R
    BY <2>2, <2>3 DEF R, StrictSubsetOrdering
  <2>. QED
    BY <1>4, <2>4
<1>. QED
  BY <1>5

(* _classify_runtime: a well-formed result, and one that its own process      *)
(* justifies when the evidence is its own.                                    *)
LEMMA ConcludedFacts ==
  ASSUME NEW p \in Processes, NEW e \in Evidence
  PROVE  /\ Concluded(p, e) \in Results
         /\ Owned(e) => Justified(Concluded(p, e))
<1>1. Classify(p, e) \in {"PASS", "FAIL"} \cup Infra
  BY DEF Classify, Infra
<1>2. Classify(p, e) \in {"PASS", "FAIL"} => e.result # Absent
  BY DEF Classify, StartupFailure, Absent
<1>3. Classify(p, e) = "PASS" => ~p.late /\ p.exit = 0 /\ e.result.sane /\ e.result.answer = "pass"
  <2>. SUFFICES ASSUME Classify(p, e) = "PASS"
                PROVE  ~p.late /\ p.exit = 0 /\ e.result.sane /\ e.result.answer = "pass"
    OBVIOUS
  <2>1. ~p.late /\ e.result # Absent /\ ~Unusable(e) /\ p.exit = 0 /\ e.result.answer = "pass"
    BY <1>2 DEF Classify, StartupFailure, Processes
  <2>. QED
    BY <2>1 DEF Unusable
<1>4. Classify(p, e) = "FAIL" => e.result.answer = "fail"
  BY <1>2 DEF Classify
<1>5. ~p.late /\ p.exit = 0 => p = NoProcess
  BY DEF Processes, NoProcess
<1>6. Concluded(p, e) \in Results
  BY <1>1 DEF Concluded, Results, Evidence, Said, Logs, Processes
<1>7. ASSUME Owned(e)
      PROVE  Justified(Concluded(p, e))
  <2>. DEFINE r == Concluded(p, e)
  <2>1. /\ r.status = Classify(p, e)
        /\ r.earned = (e.mine /\ e.result.answer = "pass" /\ e.result.sane /\ p = NoProcess)
        /\ r.due = (\/ e.mine /\ e.result.answer = "fail"
                    \/ e.logMine /\ e.log # "clean")
        /\ r.blame \in {e.log, "clean"}
    BY DEF Concluded
  <2>. HIDE DEF r
  <2>2. r.status = "PASS" => r.earned
    BY <1>2, <1>3, <1>5, <1>7, <2>1 DEF Owned
  <2>3. r.status = "FAIL" => r.due
    BY <1>2, <1>4, <1>7, <2>1 DEF Owned
  <2>4. r.blame # "clean" => r.due
    BY <1>7, <2>1 DEF Owned
  <2>. QED
    BY <2>2, <2>3, <2>4 DEF Justified, r
<1>. QED
  BY <1>6, <1>7

(* _combined_minecraft_result: a result that is no answer decides, else a     *)
(* failed one.                                                                *)
LEMMA AggregateFacts ==
  ASSUME NEW rs \in Seq(Results)
  PROVE  /\ Aggregate(rs) \in {"PASS", "FAIL"} \cup Infra
         /\ Aggregate(rs) = "PASS" => \A i \in DOMAIN rs : rs[i].status = "PASS"
         /\ Aggregate(rs) = "FAIL" => \E i \in DOMAIN rs : rs[i].status = "FAIL"
<1>1. ASSUME NEW i \in DOMAIN rs
      PROVE  rs[i].status \in {"PASS", "FAIL"} \cup Infra
  <2>1. rs[i] \in Results
    OBVIOUS
  <2>. QED
    BY <2>1 DEF Results
<1>2. CASE Stati(rs) \cap Infra # {}
  <2>. DEFINE I == {i \in 1..Len(rs) : rs[i].status \in Infra}
  <2>1. I \in SUBSET Nat /\ I # {}
    BY <1>2 DEF Stati
  <2>2. \E x \in I : \A y \in I : x <= y
    BY <2>1, LeastNat
  <2>3. SE!Min(I) \in I
    BY <2>2 DEF SE!Min
  <2>4. SE!SelectInSeq(rs, LAMBDA r : r.status \in Infra) = SE!Min(I)
    BY <2>1 DEF SE!SelectInSeq
  <2>5. Aggregate(rs) \in Infra
    BY <1>2, <2>3, <2>4 DEF Aggregate
  <2>. QED
    BY <2>5 DEF Infra
<1>3. CASE Stati(rs) \cap Infra = {}
  BY <1>1, <1>3 DEF Aggregate, Stati, Infra
<1>. QED
  BY <1>2, <1>3

-----------------------------------------------------------------------------
LEMMA UpToCounts ==
  ASSUME NEW n \in Nat
  PROVE  IsFiniteSet(1..n) /\ Cardinality(1..n) = n
BY FS_Interval

(* The steps of a caller.                                                     *)
LEMMA StepsFacts ==
  ASSUME job \in Jobs
  PROVE  /\ IsFiniteSet(Steps)
         /\ \/ job = "persistence" /\ Steps = 1..2 /\ Cardinality(Steps) = 2
            \/ job # "persistence" /\ Steps = 1..Observations /\ Cardinality(Steps) = Observations
         /\ Steps \subseteq 1..(Observations + 1)
<1>1. Observations \in Nat /\ Observations >= 1
  BY HarnessConstants
<1>2. IsFiniteSet(1..2) /\ Cardinality(1..2) = 2
  <2>1. 2 \in Nat
    OBVIOUS
  <2>. QED
    BY <2>1, UpToCounts
<1>3. IsFiniteSet(1..Observations) /\ Cardinality(1..Observations) = Observations
  BY <1>1, UpToCounts
<1>. QED
  BY <1>1, <1>2, <1>3 DEF Steps

LEMMA InitIInv == Init => IInv
<1>. SUFFICES ASSUME Init
              PROVE  IInv
  OBVIOUS
<1>1. /\ job \in Jobs /\ validations = 0 /\ step = 1 /\ pc = "idle" /\ process = NoProcess
      /\ evidence = [s \in 1..(Observations + 1) |-> NoEvidence]
      /\ results = <<>> /\ verdict = Undecided
  BY DEF Init
<1>2. NoEvidence \in Evidence /\ NoEvidence.result = Absent /\ Owned(NoEvidence)
  BY DEF NoEvidence, Evidence, Absent, Said, Logs, Owned
<1>3. 1 \in Steps /\ Cardinality(Steps) \in Nat
  BY <1>1, StepsFacts, HarnessConstants
<1>4. Types
  BY <1>1, <1>2, <1>3 DEF Types, Processes, NoProcess
<1>5. ResultsCounted /\ EvidenceIsOwn /\ ResultsAreJustified
  BY <1>1, <1>2, <1>3 DEF ResultsCounted, EvidenceIsOwn, ResultsAreJustified
<1>6. UndecidedWhileRunning /\ SecondPhase /\ PassIsEarned /\ RepairIsDue
  BY <1>1 DEF UndecidedWhileRunning, SecondPhase, PassIsEarned, RepairIsDue, Undecided
<1>. QED
  BY <1>4, <1>5, <1>6 DEF IInv

LEMMA StartValidationStep ==
  ASSUME IInv, StartValidation
  PROVE  IInv'
<1>1. /\ validations' = validations + 1 /\ step' = 1 /\ pc' = "ready" /\ results' = <<>>
      /\ verdict' = Undecided /\ process' = NoProcess /\ job' = job
  BY DEF StartValidation
<1>2. /\ job \in Jobs /\ validations \in Nat
      /\ evidence \in [1..(Observations + 1) -> Evidence]
      /\ \A s \in DOMAIN evidence : evidence[s].result \in Outcomes \cup {Malformed, Absent}
  BY DEF IInv, Types
<1>3. NoEvidence \in Evidence /\ NoEvidence.result = Absent /\ Owned(NoEvidence)
  BY DEF NoEvidence, Evidence, Absent, Said, Logs, Owned
<1>4. 1 \in Steps' /\ Cardinality(Steps') \in Nat
  <2>1. Steps' = Steps
    BY <1>1 DEF Steps
  <2>. QED
    BY <1>2, <2>1, StepsFacts, HarnessConstants
<1>5. /\ evidence' \in [1..(Observations + 1) -> Evidence]
      /\ \A s \in DOMAIN evidence' : evidence'[s].result \in Outcomes \cup {Malformed, Absent}
      /\ EvidenceIsOwn'
  <2>1. CASE Fresh(validations + 1)
    <3>1. evidence' = [s \in 1..(Observations + 1) |-> NoEvidence]
      BY <1>2, <2>1 DEF StartValidation
    <3>. QED
      BY <1>3, <3>1 DEF EvidenceIsOwn
  <2>2. CASE ~Fresh(validations + 1)
    <3>1. evidence' = [s \in 1..(Observations + 1) |->
                          [evidence[s] EXCEPT !.mine = FALSE, !.logMine = FALSE]]
      BY <1>2, <2>2 DEF StartValidation
    <3>2. ASSUME NEW s \in 1..(Observations + 1)
          PROVE  /\ [evidence[s] EXCEPT !.mine = FALSE, !.logMine = FALSE] \in Evidence
                 /\ [evidence[s] EXCEPT !.mine = FALSE, !.logMine = FALSE].result
                       = evidence[s].result
      <4>1. evidence[s] \in Evidence
        BY <1>2
      <4>. QED
        BY <4>1 DEF Evidence
    <3>3. ~Fresh(validations)'
      BY <1>1, <2>2 DEF Fresh
    <3>. QED
      BY <1>2, <3>1, <3>2, <3>3 DEF EvidenceIsOwn
  <2>. QED
    BY <2>1, <2>2
<1>6. Types'
  BY <1>1, <1>2, <1>4, <1>5 DEF Types, Processes, NoProcess
<1>7. ResultsCounted' /\ ResultsAreJustified'
  BY <1>1, <1>4 DEF ResultsCounted, ResultsAreJustified
<1>8. UndecidedWhileRunning' /\ SecondPhase' /\ PassIsEarned' /\ RepairIsDue'
  BY <1>1 DEF UndecidedWhileRunning, SecondPhase, PassIsEarned, RepairIsDue, Undecided
<1>. QED
  BY <1>5, <1>6, <1>7, <1>8 DEF IInv

(* A step of the runner or of the server that records no result.              *)
LEMMA WorkStep ==
  ASSUME IInv, pc # "idle", pc # "judging",
         pc' \in {"prepared", "running", "killed", "exited"}, process' \in Processes,
         UNCHANGED <<job, validations, step, results, verdict>>,
         evidence' \in [1..(Observations + 1) -> Evidence],
         \A s \in DOMAIN evidence' : evidence'[s].result \in Outcomes \cup {Malformed, Absent},
         EvidenceIsOwn',
         job = "persistence" /\ step = 2 => UNCHANGED <<world, lifecycle>>
  PROVE  IInv'
<1>1. Types'
  BY DEF IInv, Types, Steps
<1>2. ResultsCounted' /\ ResultsAreJustified'
  BY DEF IInv, Types, ResultsCounted, ResultsAreJustified, Steps, Fresh
<1>3. UndecidedWhileRunning' /\ SecondPhase'
  BY DEF IInv, UndecidedWhileRunning, SecondPhase
<1>4. PassIsEarned' /\ RepairIsDue'
  BY DEF IInv, UndecidedWhileRunning, PassIsEarned, RepairIsDue, Undecided
<1>. QED
  BY <1>1, <1>2, <1>3, <1>4 DEF IInv

LEMMA RunnerWorks ==
  ASSUME IInv, Prepare \/ Launch \/ Reap \/ ProcessExits \/ Timeout
  PROVE  IInv'
<1>1. /\ UNCHANGED <<job, validations, step, evidence, world, lifecycle, results, verdict>>
      /\ pc \in {"ready", "prepared", "running", "killed"}
      /\ pc' \in {"prepared", "running", "killed", "exited"}
  BY DEF Prepare, Launch, Reap, ProcessExits, Timeout
<1>2. process' \in Processes
  <2>1. process \in Processes
    BY DEF IInv, Types
  <2>2. CASE Prepare
    BY <2>1, <2>2 DEF Prepare
  <2>3. CASE Launch
    BY <2>3 DEF Launch, Processes, NoProcess
  <2>4. CASE Reap \/ ProcessExits
    <3>1. PICK code \in {0, 1} : process' = [process EXCEPT !.exit = code]
      BY <2>4 DEF Reap, ProcessExits
    <3>. QED
      BY <2>1, <3>1 DEF Processes
  <2>5. CASE Timeout
    BY <2>1, <2>5 DEF Timeout, Processes
  <2>. QED
    BY <2>2, <2>3, <2>4, <2>5
<1>3. EvidenceIsOwn'
  BY <1>1 DEF IInv, EvidenceIsOwn, Fresh
<1>. QED
  BY <1>1, <1>2, <1>3, WorkStep DEF IInv, Types

(* The server's result and its log are the step's own.                        *)
LEMMA ServerWrites ==
  ASSUME IInv, HarnessWrites \/ ServerLogs
  PROVE  IInv'
<1>1. /\ UNCHANGED <<job, validations, step, pc, process, world, lifecycle, results, verdict>>
      /\ pc \in {"running", "killed"}
  BY DEF HarnessWrites, ServerLogs, Alive
<1>2. step \in 1..(Observations + 1) /\ evidence[step] \in Evidence
  BY StepsFacts DEF IInv, Types
<1>3. PICK e \in Evidence :
         /\ evidence' = [evidence EXCEPT ![step] = e]
         /\ e.result \in Outcomes \cup {Malformed, Absent}
         /\ Owned(evidence[step]) => Owned(e)
  <2>1. CASE HarnessWrites
    <3>1. PICK o \in Outcomes \cup {Malformed} :
             evidence' = [evidence EXCEPT ![step].result = o, ![step].mine = TRUE]
      BY <2>1 DEF HarnessWrites
    <3>. DEFINE e == [evidence[step] EXCEPT !.result = o, !.mine = TRUE]
    <3>2. evidence' = [evidence EXCEPT ![step] = e]
      BY <1>2, <3>1 DEF IInv, Types
    <3>3. o \in Said
      <4>1. CASE o \in Outcomes
        BY <4>1 DEF Outcomes, Said
      <4>2. CASE o = Malformed
        BY <4>2 DEF Malformed, Said
      <4>. QED
        BY <4>1, <4>2
    <3>4. e \in Evidence /\ e.result = o /\ e.mine /\ e.log = evidence[step].log
          /\ e.logMine = evidence[step].logMine
      BY <1>2, <3>3 DEF Evidence
    <3>. QED
      BY <3>2, <3>4 DEF Owned
  <2>2. CASE ServerLogs
    <3>1. PICK l \in Logs :
             evidence' = [evidence EXCEPT ![step].log = l, ![step].logMine = TRUE]
      BY <2>2 DEF ServerLogs
    <3>. DEFINE e == [evidence[step] EXCEPT !.log = l, !.logMine = TRUE]
    <3>2. evidence' = [evidence EXCEPT ![step] = e]
      BY <1>2, <3>1 DEF IInv, Types
    <3>3. e \in Evidence /\ e.log = l /\ e.logMine /\ e.result = evidence[step].result
          /\ e.mine = evidence[step].mine
      BY <1>2 DEF Evidence
    <3>. QED
      BY <1>2, <3>2, <3>3 DEF Owned, IInv, Types
  <2>. QED
    BY <2>1, <2>2
<1>4. /\ evidence' \in [1..(Observations + 1) -> Evidence]
      /\ \A s \in DOMAIN evidence' : evidence'[s].result \in Outcomes \cup {Malformed, Absent}
  BY <1>2, <1>3 DEF IInv, Types
<1>5. EvidenceIsOwn'
  BY <1>1, <1>2, <1>3 DEF IInv, Types, EvidenceIsOwn, Fresh
<1>. QED
  BY <1>1, <1>4, <1>5, WorkStep DEF IInv, Types

LEMMA WorldStepStep ==
  ASSUME IInv, WorldStep
  PROVE  IInv'
<1>1. /\ UNCHANGED <<job, validations, step, pc, process, evidence, results, verdict>>
      /\ pc \in {"running", "killed"} /\ step = 1
  BY DEF WorldStep, Alive
<1>2. EvidenceIsOwn'
  BY <1>1 DEF IInv, EvidenceIsOwn, Fresh
<1>. QED
  BY <1>1, <1>2, WorkStep DEF IInv, Types

(* A step ends with a result of its own, or none because nothing ran.         *)
LEMMA StepDoneStep ==
  ASSUME IInv, pc \in {"prepared", "exited"},
         NEW r \in Results, Fresh(validations) => Justified(r), StepDone(r),
         UNCHANGED <<job, validations, step, process, evidence, world, lifecycle, verdict>>
  PROVE  IInv'
<1>1. results' = Append(results, r) /\ pc' = "judging" /\ results \in Seq(Results)
  BY DEF StepDone, IInv, Types
<1>2. /\ results' \in Seq(Results) /\ Len(results') = Len(results) + 1 /\ Len(results) \in Nat
      /\ DOMAIN results = 1..Len(results) /\ DOMAIN results' = 1..(Len(results) + 1)
      /\ \A i \in 1..Len(results) : results'[i] = results[i]
      /\ results'[Len(results) + 1] = r
  BY <1>1
<1>3. Len(results) = step - 1 /\ step \in 1..Cardinality(Steps) /\ Cardinality(Steps) \in Nat
  BY StepsFacts, HarnessConstants DEF IInv, Types, ResultsCounted
<1>4. Types'
  BY <1>1, <1>2 DEF IInv, Types, Steps
<1>5. ResultsCounted'
  <2>1. Steps' = Steps
    BY DEF Steps
  <2>. QED
    BY <1>1, <1>2, <1>3, <2>1 DEF ResultsCounted
<1>6. ResultsAreJustified'
  <2>1. ASSUME Fresh(validations), NEW i \in 1..(Len(results) + 1)
        PROVE  Justified(results'[i])
    <3>1. CASE i = Len(results) + 1
      BY <1>2, <2>1, <3>1
    <3>2. CASE i \in 1..Len(results)
      BY <1>2, <2>1, <3>2 DEF IInv, ResultsAreJustified
    <3>. QED
      BY <1>2, <2>1, <3>1, <3>2
  <2>. QED
    BY <1>2, <2>1 DEF ResultsAreJustified, Fresh
<1>7. EvidenceIsOwn'
  BY DEF IInv, EvidenceIsOwn, Fresh
<1>8. UndecidedWhileRunning' /\ PassIsEarned' /\ RepairIsDue'
  BY DEF IInv, UndecidedWhileRunning, PassIsEarned, RepairIsDue, Undecided
<1>9. SecondPhase'
  BY <1>2 DEF IInv, SecondPhase
<1>. QED
  BY <1>4, <1>5, <1>6, <1>7, <1>8, <1>9 DEF IInv

LEMMA ConcludeStep ==
  ASSUME IInv, PreflightFails \/ Conclude
  PROVE  IInv'
<1>1. CASE PreflightFails
  <2>1. NotRun \in Results /\ Justified(NotRun)
    BY DEF NotRun, Results, Justified, Infra, Logs
  <2>2. /\ pc = "prepared" /\ StepDone(NotRun)
        /\ UNCHANGED <<job, validations, step, process, evidence, world, lifecycle, verdict>>
    BY <1>1 DEF PreflightFails
  <2>. QED
    BY <2>1, <2>2, StepDoneStep
<1>2. CASE Conclude
  <2>1. step \in 1..(Observations + 1) /\ evidence[step] \in Evidence /\ process \in Processes
    BY StepsFacts DEF IInv, Types
  <2>2. Fresh(validations) => Owned(evidence[step])
    BY <2>1 DEF IInv, Types, EvidenceIsOwn
  <2>. DEFINE r == Concluded(process, evidence[step])
  <2>3. r \in Results /\ (Fresh(validations) => Justified(r))
    BY <2>1, <2>2, ConcludedFacts
  <2>4. /\ pc = "exited" /\ StepDone(r)
        /\ UNCHANGED <<job, validations, step, process, evidence, world, lifecycle, verdict>>
    BY <1>2 DEF Conclude
  <2>. HIDE DEF r
  <2>. QED
    BY <2>3, <2>4, StepDoneStep
<1>. QED
  BY <1>1, <1>2

LEMMA ContinueStep ==
  ASSUME IInv, Continue
  PROVE  IInv'
<1>1. /\ pc = "judging" /\ Len(results) < Cardinality(Steps) /\ step' = step + 1 /\ pc' = "ready"
      /\ job = "persistence" => PhaseOneDone(results)
      /\ UNCHANGED <<job, validations, process, evidence, world, lifecycle, results, verdict>>
  BY DEF Continue
<1>2. Len(results) = step /\ step \in 1..Cardinality(Steps) /\ Cardinality(Steps) \in Nat
      /\ Steps = 1..Cardinality(Steps)
  <2>1. Steps = 1..Cardinality(Steps) /\ Cardinality(Steps) \in Nat
    <3>1. job \in Jobs
      BY DEF IInv, Types
    <3>2. \/ Steps = 1..2 /\ Cardinality(Steps) = 2
          \/ Steps = 1..Observations /\ Cardinality(Steps) = Observations
      BY <3>1, StepsFacts
    <3>3. CASE Steps = 1..2 /\ Cardinality(Steps) = 2
      BY <3>3
    <3>4. CASE Steps = 1..Observations /\ Cardinality(Steps) = Observations
      BY <3>4, HarnessConstants
    <3>. QED
      BY <3>2, <3>3, <3>4
  <2>. QED
    BY <1>1, <2>1 DEF IInv, Types, ResultsCounted
<1>3. Steps' = Steps
  BY <1>1 DEF Steps
<1>4. Types'
  <2>1. step' \in Steps
    BY <1>1, <1>2
  <2>. QED
    BY <1>1, <1>3, <2>1 DEF IInv, Types
<1>5. ResultsCounted'
  BY <1>1, <1>2, <1>3 DEF ResultsCounted
<1>6. EvidenceIsOwn' /\ ResultsAreJustified'
  BY <1>1 DEF IInv, EvidenceIsOwn, ResultsAreJustified, Fresh
<1>7. UndecidedWhileRunning' /\ PassIsEarned' /\ RepairIsDue'
  BY <1>1 DEF IInv, UndecidedWhileRunning, PassIsEarned, RepairIsDue, Undecided
<1>8. SecondPhase'
  BY <1>1, <1>2 DEF SecondPhase, PhaseOneDone
<1>. QED
  BY <1>4, <1>5, <1>6, <1>7, <1>8 DEF IInv

(* A verdict that ends the validation: the exceptions' claim nothing.         *)
LEMMA EndStep ==
  ASSUME IInv, pc # "idle", NEW v, EndWith(v),
         UNCHANGED <<job, validations, step, process, evidence, world, lifecycle, results>>,
         v = "PASS" /\ Fresh(validations) =>
            Len(results) = Cardinality(Steps) /\ \A i \in DOMAIN results : results[i].earned,
         v = "REPAIRABLE_FAIL" /\ Fresh(validations) => \E i \in DOMAIN results : results[i].due
  PROVE  IInv'
<1>1. verdict' = v /\ pc' = "idle"
  BY DEF EndWith
<1>2. Types' /\ ResultsCounted'
  BY <1>1 DEF IInv, Types, ResultsCounted, Steps
<1>3. EvidenceIsOwn' /\ ResultsAreJustified' /\ UndecidedWhileRunning' /\ SecondPhase'
  BY <1>1 DEF IInv, EvidenceIsOwn, ResultsAreJustified, Fresh, UndecidedWhileRunning, SecondPhase
<1>4. PassIsEarned' /\ RepairIsDue'
  BY <1>1 DEF PassIsEarned, RepairIsDue, Fresh, Steps
<1>. QED
  BY <1>2, <1>3, <1>4 DEF IInv

LEMMA RaiseStep ==
  ASSUME IInv, PreflightRaises \/ ConcludeRaises
  PROVE  IInv'
<1>1. PICK v \in {"RAISED", "BLOCKED"} :
         /\ pc # "idle" /\ EndWith(v)
         /\ UNCHANGED <<job, validations, step, process, evidence, world, lifecycle, results>>
  BY DEF PreflightRaises, ConcludeRaises
<1>. QED
  BY <1>1, EndStep

LEMMA JudgeStep ==
  ASSUME IInv, Judge
  PROVE  IInv'
<1>. DEFINE v == CASE job = "product"     -> ProductVerdict(results)
                   [] job = "benchmark"   -> BenchmarkVerdict(results)
                   [] job = "persistence" -> PersistenceVerdict(results)
<1>1. /\ pc = "judging" /\ EndWith(v)
      /\ UNCHANGED <<job, validations, step, process, evidence, world, lifecycle, results>>
      /\ IF job = "persistence" THEN Len(results) = 2 \/ ~PhaseOneDone(results)
                                ELSE Len(results) = Observations
  BY DEF Judge
<1>2. /\ results \in Seq(Results) /\ job \in {"product", "benchmark", "persistence"}
      /\ Len(results) = step /\ step >= 1 /\ step \in Nat
  BY <1>1, StepsFacts, HarnessConstants DEF IInv, Types, ResultsCounted
<1>3. 1 \in DOMAIN results /\ DOMAIN results = 1..Len(results)
  BY <1>2
<1>4. /\ Aggregate(results) \in {"PASS", "FAIL"} \cup Infra
      /\ Aggregate(results) = "PASS" => \A i \in DOMAIN results : results[i].status = "PASS"
      /\ Aggregate(results) = "FAIL" => \E i \in DOMAIN results : results[i].status = "FAIL"
  BY <1>2, AggregateFacts
<1>5. ASSUME Fresh(validations)
      PROVE  \A i \in DOMAIN results : Justified(results[i])
  BY <1>5 DEF IInv, ResultsAreJustified
<1>6. ASSUME v = "PASS", Fresh(validations)
      PROVE  Len(results) = Cardinality(Steps) /\ \A i \in DOMAIN results : results[i].earned
  <2>1. CASE job = "product"
    <3>1. Aggregate(results) = "PASS"
      BY <1>4, <1>6, <2>1 DEF ProductVerdict, Infra
    <3>. QED
      BY <1>1, <1>4, <1>5, <1>6, <2>1, <3>1, StepsFacts DEF Justified, IInv, Types
  <2>2. CASE job = "benchmark"
    <3>1. Aggregate(results) = "PASS"
      BY <1>4, <1>6, <2>2 DEF BenchmarkVerdict, Infra
    <3>. QED
      BY <1>1, <1>4, <1>5, <1>6, <2>2, <3>1, StepsFacts DEF Justified, IInv, Types
  <2>3. CASE job = "persistence"
    <3>1. Len(results) = 2 /\ results[2].status = "PASS"
      BY <1>6, <2>3 DEF PersistenceVerdict
    <3>2. results[1].status = "PASS"
      BY <1>2, <2>3, <3>1 DEF IInv, SecondPhase
    <3>3. Cardinality(Steps) = 2
      BY <2>3, StepsFacts DEF IInv, Types
    <3>. QED
      BY <1>3, <1>5, <1>6, <3>1, <3>2, <3>3 DEF Justified
  <2>. QED
    BY <1>2, <2>1, <2>2, <2>3
<1>7. ASSUME v = "REPAIRABLE_FAIL", Fresh(validations)
      PROVE  \E i \in DOMAIN results : results[i].due
  <2>1. CASE results[1].blame # "clean"
    BY <1>3, <1>5, <1>7, <2>1 DEF Justified
  <2>2. CASE Aggregate(results) = "FAIL"
    BY <1>4, <1>5, <1>7, <2>2 DEF Justified
  <2>3. job # "persistence"
    BY <1>7 DEF PersistenceVerdict
  <2>4. results[1].blame # "clean" \/ Aggregate(results) = "FAIL"
    BY <1>2, <1>4, <1>7, <2>3 DEF ProductVerdict, BenchmarkVerdict, Infra
  <2>. QED
    BY <2>1, <2>2, <2>4
<1>. HIDE DEF v
<1>. QED
  BY <1>1, <1>6, <1>7, EndStep

LEMMA StutterStep ==
  ASSUME IInv, UNCHANGED vars
  PROVE  IInv'
<1>1. Types' /\ ResultsCounted'
  BY DEF vars, IInv, Types, ResultsCounted, Steps
<1>2. EvidenceIsOwn' /\ ResultsAreJustified' /\ UndecidedWhileRunning' /\ SecondPhase'
  BY DEF vars, IInv, EvidenceIsOwn, ResultsAreJustified, UndecidedWhileRunning, SecondPhase, Fresh
<1>3. PassIsEarned' /\ RepairIsDue'
  BY DEF vars, IInv, PassIsEarned, RepairIsDue, Fresh, Steps
<1>. QED
  BY <1>1, <1>2, <1>3 DEF IInv

-----------------------------------------------------------------------------
(* Every step keeps the invariant.                                            *)
THEOREM InvariantHolds == Spec => []IInv
<1>1. ASSUME IInv, [Next]_vars
      PROVE  IInv'
  BY <1>1, StartValidationStep, RunnerWorks, ServerWrites, WorldStepStep, ConcludeStep,
     ContinueStep, RaiseStep, JudgeStep, StutterStep DEF Next, RunnerStep
<1>. QED
  BY <1>1, InitIInv, PTL DEF Spec

(* Each validation has its steps, one result at most of each, and evidence is *)
(* a result that says what its process saw, a malformed one or none.          *)
THEOREM TypesHold == Spec => []TypeOK
<1>1. IInv => TypeOK
  BY DEF IInv, Types, ResultsCounted, TypeOK
<1>. QED
  BY <1>1, InvariantHolds, PTL

(* Where evidence is fresh, each observation of a PASS was answered so by a   *)
(* server of this validation that came down by itself, in time and with zero. *)
THEOREM APassIsEarned == Spec => []PassIsEarned
<1>1. IInv => PassIsEarned
  BY DEF IInv
<1>. QED
  BY <1>1, InvariantHolds, PTL

(* A repair of the mod is asked for a failed answer or a startup failure of   *)
(* this validation, never for what the machine or the deadline did.           *)
THEOREM ARepairIsDue == Spec => []RepairIsDue
<1>1. IInv => RepairIsDue
  BY DEF IInv
<1>. QED
  BY <1>1, InvariantHolds, PTL

(* The second server of a persistence scenario runs on the world that the     *)
(* first one, which passed, had saved and unloaded.                           *)
THEOREM WorldIsSavedBeforeItIsReopened == Spec => ReopenFollowsSave
<1>1. IInv => (job = "persistence" /\ step = 2 =>
                  world = "saved" /\ "unloaded" \in lifecycle /\ results[1].earned)
  <2>. SUFFICES ASSUME IInv, job = "persistence", step = 2
                PROVE  world = "saved" /\ "unloaded" \in lifecycle /\ results[1].earned
    OBVIOUS
  <2>1. /\ world = "saved" /\ lifecycle = {"saved", "unloaded"}
        /\ Len(results) >= 1 /\ results[1].status = "PASS"
    BY DEF IInv, SecondPhase
  <2>2. 1 \in DOMAIN results
    BY <2>1 DEF IInv, Types
  <2>3. Justified(results[1])
    BY <2>2 DEF IInv, ResultsAreJustified, Fresh
  <2>. QED
    BY <2>1, <2>3 DEF Justified
<1>2. IInv => [job = "persistence" /\ pc' = "running" /\ step = 2 =>
                  world = "saved" /\ "unloaded" \in lifecycle /\ results[1].earned]_vars
  BY <1>1
<1>. QED
  BY <1>2, InvariantHolds, PTL DEF ReopenFollowsSave

-----------------------------------------------------------------------------
(* The observation requests of a requirement, for lists of every length.      *)

LEMMA RequestsAreWellFormed ==
  ASSUME NEW way, NEW r \in Requests(way)
  PROVE  WellFormed(r)
<1>1. PICK t \in RequestTypes :
         r \in [type : {t}, sel : [Selector(t) -> Values], par : [Fields(t) -> Values]]
  BY DEF Requests
<1>2. r.type = t /\ r.sel \in [Selector(t) -> Values] /\ r.par \in [Fields(t) -> Values]
  BY <1>1
<1>. QED
  BY <1>2, RequestConstants DEF WellFormed

LEMMA RequestInitFits == RequestInit => RequestIInv
<1>. SUFFICES ASSUME RequestInit
              PROVE  RequestIInv
  OBVIOUS
<1>1. PICK n \in Nat \ {0} : requests \in [1..n -> Requests(path)] /\ (path = "explicit" => n = 1)
  BY RequestConstants DEF RequestInit
<1>2. Len(requests) = n /\ DOMAIN requests = 1..n /\ \A i \in 1..n : WellFormed(requests[i])
  BY <1>1, RequestsAreWellFormed
<1>3. ListAccepted /\ ServersFit
  BY <1>1, <1>2 DEF RequestInit, ListAccepted, ServersFit
<1>. QED
  BY <1>1, <1>2, <1>3 DEF RequestInit, RequestIInv

(* The next server is the one of the next request, which has been checked.    *)
LEMMA LaunchNextStep ==
  ASSUME RequestIInv, LaunchNext
  PROVE  RequestIInv'
<1>. DEFINE new == Server(Current)
<1>1. /\ servers' = Append(servers, new) /\ UNCHANGED <<path, requests, stage, outcome>>
      /\ Len(servers) < Len(requests) /\ Runs(Current) /\ stage = "ready"
  BY DEF LaunchNext
<1>2. /\ \A i \in 1..Len(requests) : Server(requests[i])' = Server(requests[i])
      /\ \A i \in 1..Len(requests) : Runs(requests[i])' = Runs(requests[i])
      /\ \A i \in 1..Len(requests) : Accepted(requests[i])' = Accepted(requests[i])
  BY <1>1 DEF Server, Runs, Accepted, Params
<1>3. Len(requests) \in Nat
  BY DEF RequestIInv
<1>. DEFINE All == {Server(requests[i]) : i \in {j \in 1..Len(requests) : Runs(requests[j])}}
<1>4. servers \in Seq(All) /\ Len(servers) \in Nat
  BY DEF RequestIInv, ServersFit
<1>5. /\ Len(servers) + 1 \in 1..Len(requests) /\ new = Server(requests[Len(servers) + 1])
      /\ Runs(requests[Len(servers) + 1]) /\ new \in All
  BY <1>1, <1>3, <1>4 DEF Current
<1>6. All' = All
  BY <1>1, <1>2
<1>7. \A i \in 1..Len(servers) : servers[i] = Server(requests[i]) /\ Runs(requests[i])
  BY DEF RequestIInv, ServersFit
<1>. HIDE DEF new, All
<1>8. /\ servers' \in Seq(All) /\ Len(servers') = Len(servers) + 1
      /\ \A i \in 1..Len(servers) : servers'[i] = servers[i]
      /\ servers'[Len(servers) + 1] = new
  BY <1>1, <1>4, <1>5
<1>9. \A i \in 1..Len(servers') : servers'[i] = Server(requests[i]) /\ Runs(requests[i])
  BY <1>4, <1>5, <1>7, <1>8
<1>10. ServersFit'
  <2>1. servers' \in Seq(All')
    BY <1>6, <1>8
  <2>2. ASSUME NEW i \in 1..Len(servers')
        PROVE  servers'[i] = Server(requests[i])' /\ Runs(requests[i])'
    <3>1. i \in 1..Len(requests)
      BY <1>3, <1>4, <1>5, <1>8
    <3>. QED
      BY <1>2, <1>9, <3>1
  <2>3. Len(servers') <= Len(requests')
    BY <1>1, <1>3, <1>4, <1>8
  <2>. QED
    BY <2>1, <2>2, <2>3 DEF ServersFit, All
<1>11. ListAccepted'
  BY <1>1, <1>2 DEF RequestIInv, ListAccepted
<1>. QED
  BY <1>1, <1>10, <1>11 DEF RequestIInv

LEMMA RequestStep ==
  ASSUME RequestIInv, [RequestNext]_requestVars
  PROVE  RequestIInv'
<1>1. CASE LaunchNext
  BY <1>1, LaunchNextStep
<1>2. CASE ~LaunchNext
  <2>1. UNCHANGED <<path, requests, servers>>
    BY <1>2 DEF RequestNext, requestVars, Declare, Raise, AggregateResults
  <2>2. ServersFit'
    BY <2>1 DEF RequestIInv, ServersFit, Server, Runs, Params
  <2>3. ListAccepted'
    <3>1. stage' = "declared" => stage = "declared"
      BY <1>2 DEF RequestNext, requestVars, Declare, Raise, AggregateResults, End
    <3>2. ASSUME path = "requests", stage' = "ready" \/ servers # <<>>
          PROVE  \A i \in 1..Len(requests) : Accepted(requests[i])
      <4>1. CASE stage = "ready" \/ servers # <<>>
        BY <3>2, <4>1 DEF RequestIInv, ListAccepted
      <4>2. CASE stage # "ready" /\ servers = <<>>
        <5>1. Declare
          BY <1>2, <3>2, <4>2 DEF RequestNext, requestVars, Raise, AggregateResults, End
        <5>2. DOMAIN requests = 1..Len(requests)
          BY DEF RequestIInv
        <5>. QED
          BY <3>2, <4>2, <5>1, <5>2 DEF Declare, End
      <4>. QED
        BY <4>1, <4>2
    <3>. QED
      BY <2>1, <3>1, <3>2 DEF ListAccepted, RequestIInv, Accepted
  <2>. QED
    BY <2>1, <2>2, <2>3 DEF RequestIInv, WellFormed
<1>. QED
  BY <1>1, <1>2

THEOREM RequestInvariantHolds == RequestSpec => []RequestIInv
BY RequestInitFits, RequestStep, PTL DEF RequestSpec

(* No server of any list is started with a value its profile does not take.   *)
THEOREM LaunchesAreChecked == RequestSpec => []LaunchedIsChecked
<1>1. RequestIInv => LaunchedIsChecked
  <2>. SUFFICES ASSUME RequestIInv, NEW i \in DOMAIN servers,
                       servers[i].type # "REGISTRY_ENTRY_PRESENT"
                PROVE  ProfileAccepts(servers[i].type, servers[i].args)
    BY DEF LaunchedIsChecked
  <2>1. i \in 1..Len(servers)
    BY DEF RequestIInv, ServersFit
  <2>2. servers[i] = Server(requests[i]) /\ Runs(requests[i])
    BY <2>1 DEF RequestIInv, ServersFit
  <2>3. servers[i].type = requests[i].type /\ servers[i].args = Server(requests[i]).args
    BY <2>2 DEF Server
  <2>. QED
    BY <2>2, <2>3 DEF Runs, Launchable
<1>. QED
  BY <1>1, RequestInvariantHolds, PTL

(* In a list, and for the profiled types, a server looks at what the selector *)
(* of its request names.                                                      *)
THEOREM SelectorsAreLookedAt == RequestSpec => []SelectorIsLookedAt
<1>1. RequestIInv => SelectorIsLookedAt
  <2>. SUFFICES ASSUME RequestIInv, path = "requests", NEW i \in DOMAIN servers,
                       Len(requests) > 1 \/ requests[i].type \in Profiled,
                       NEW f \in Selector(requests[i].type)
                PROVE  servers[i].args[f] = requests[i].sel[f]
    BY DEF SelectorIsLookedAt
  <2>. DEFINE r == requests[i]
  <2>1. i \in 1..Len(servers) /\ Len(servers) \in Nat /\ Len(requests) \in Nat
        /\ Len(servers) <= Len(requests)
    BY DEF RequestIInv, ServersFit
  <2>2. servers[i] = Server(r) /\ Runs(r) /\ i \in 1..Len(requests) /\ servers # <<>>
    BY <2>1 DEF RequestIInv, ServersFit, r
  <2>3. WellFormed(r)
    BY <2>2 DEF RequestIInv, r
  <2>4. Accepted(r)
    BY <2>2 DEF RequestIInv, ListAccepted
  <2>. HIDE DEF r
  <2>5. r.type \in SelectorTypes /\ Fields(r.type) = Selector(r.type)
    BY <2>2 DEF Runs, SelectorTypes, Profiled, Fields, Parameters, r
  <2>6. f \in Fields(r.type)
    BY <2>5 DEF r
  <2>7. r.type \in Profiled => \A g \in Fields(r.type) : r.sel[g] # "absent" /\ r.par[g] = "absent"
    BY <2>3, <2>4 DEF Accepted, ProfileAccepts, WellFormed
  <2>8. Params(r)[f] = r.sel[f]
    <3>1. CASE Len(requests) = 1
      <4>1. Params(r) = Effective(r) /\ r.type \in Profiled
        BY <3>1 DEF Params, r
      <4>. QED
        BY <2>5, <2>6, <2>7, <4>1 DEF Effective
    <3>2. CASE Len(requests) # 1
      BY <3>2 DEF Params, ChildParams
    <3>. QED
      BY <3>1, <3>2
  <2>9. servers[i].args = Properties(r.type, Params(r))
    BY <2>2 DEF Server
  <2>10. Params(r)[f] # "absent" \/ r.type = "REGISTRY_ENTRY_PRESENT"
    BY <2>5, <2>6, <2>7, <2>8 DEF SelectorTypes
  <2>. QED
    BY <2>6, <2>8, <2>9, <2>10 DEF Properties, r
<1>. QED
  BY <1>1, RequestInvariantHolds, PTL
===============================================================================
