--------------------------- MODULE AgentRunProofs ---------------------------
(***************************************************************************)
(* Theorems of AgentRun, for every value of its constants.                 *)
(*                                                                         *)
(* The safety properties follow from one inductive invariant, IInv of      *)
(* AgentRun.  Each of its parts has a lemma that every step preserves it,  *)
(* with a step of the proof per action; a part's lemma assumes only the    *)
(* parts it leans on.  The refinement of RunLifecycle is a step lemma of   *)
(* the same form.                                                          *)
(***************************************************************************)
EXTENDS AgentRun, TLAPS

-----------------------------------------------------------------------------
(* What holds of a turn when it is weighed. *)

\* What weighing a turn makes of the three streaks (_record_action_telemetry):
\* one step of the turn cannot pass a bound.
LEMMA WeighedStreaks ==
  ASSUME TypeOK, StreaksBelowLimits, pc = "tools"
  PROVE  /\ InspAfter \in 0..ActionOnlyStep
         /\ GateAfter \in 0..2
         /\ RecovAfter \in 0..1
 BY StepsAssumption
    DEF TypeOK, CounterTypes, StreaksBelowLimits, InspAfter, GateAfter,
        RecovAfter

\* A turn that is neither rejected nor stalled leaves at most one gate
\* violation counted.
LEMMA CalmVerdict ==
  ASSUME TypeOK, StreaksBelowLimits, pc = "tools",
         Verdict \notin {"rejected", "stalled"}
  PROVE  GateAfter \in 0..1
<1>1. GateAfter \in 0..2
  BY WeighedStreaks
<1>2. ~(GateAfter >= 2)
  BY DEF Verdict
<1>. QED
  BY <1>1, <1>2

\* The turn that leaves required files untouched counts as a violation, and a
\* second one ends the run.
LEMMA UnresolvedTurnStreaks ==
  ASSUME CounterTypes, StreaksBelowLimits, TurnUnresolvedTargets
  PROVE  /\ insp' = insp /\ recov' \in 0..1
         /\ pc' = "loop" => gateViol' \in 0..1
<1>1. /\ pc = "tools"
      /\ insp' = insp
      /\ recov' = recov
      /\ gateViol' = gateViol + 1
  BY DEF TurnUnresolvedTargets, EndTurn
<1>2. pc' = "loop" => gateViol + 1 < 2
  BY DEF TurnUnresolvedTargets, Stop, Stay
<1>. QED
  BY <1>1, <1>2 DEF CounterTypes, StreaksBelowLimits

\* The recoverable rejection is counted apart from the other streaks, and the
\* second one ends the run.
LEMMA FileExistsStreaks ==
  ASSUME CounterTypes, StreaksBelowLimits, TurnFileExists
  PROVE  /\ insp' = InspAfter /\ gateViol' = GateAfter
         /\ pc' = "loop" => recov' \in 0..1
<1>1. /\ pc = "tools"
      /\ insp' = InspAfter
      /\ gateViol' = GateAfter
      /\ recov' = recov + 1
  BY DEF TurnFileExists, EndTurn
<1>2. pc' = "loop" => recov + 1 < 2
  BY DEF TurnFileExists, Stop, Stay
<1>. QED
  BY <1>1, <1>2 DEF CounterTypes, StreaksBelowLimits

\* While every result of the turn is an observation, inspection tools were
\* offered, so the streak is below _ACTION_ONLY_STEP.
LEMMA ObservedWithinGate ==
  ASSUME CounterTypes, StreaksBelowLimits, ExecuteOther
  PROVE  pc' = "tools" /\ seen' = {} => insp < ActionOnlyStep
<1>. SUFFICES ASSUME pc' = "tools", seen' = {} PROVE insp < ActionOnlyStep
  OBVIOUS
<1>1. PICK t \in OfferedTools : \E rejected \in BOOLEAN :
         seen' = seen \cup (IF rejected THEN {"fatal"}
                            ELSE IF t \in InspectionTools THEN {}
                            ELSE {"no effect"})
  BY Zenon DEF ExecuteOther
<1>2. t \in InspectionTools
  BY <1>1
<1>3. insp >= ActionOnlyStep => t \notin InspectionTools
  BY DEF OfferedTools
<1>4. insp \in Int /\ ActionOnlyStep \in Int
  BY StepsAssumption DEF CounterTypes
<1>. QED
  BY <1>2, <1>3, <1>4

-----------------------------------------------------------------------------
(* Type correctness, one group of variables at a time. *)

\* Every handler assigns a known state, reason and place.
LEMMA ControlTypesStep ==
  ASSUME ControlTypes, [Next]_vars
  PROVE  ControlTypes'
<1>. USE DEF ControlTypes, AgentReasons, OtherReasons, Persist, AskAgain,
      ContinueEditing, Unresolved, Stop, Move, Stay, EndTurn, Iterating,
      MayExecute, vars, loopVars, weighedVars, turn, limitVars, pressure,
      targetVars, stallVars, historyVars, TERMINAL_STATUSES,
      Lifecycle!TERMINAL_STATUSES, Lifecycle!NON_SUCCESS_TERMINAL_STATUSES,
      RunStatus, Lifecycle!RunStatus, Lifecycle!ACTIVE_STATUSES
<1>1. CASE BeginInspection          BY <1>1 DEF BeginInspection
<1>2. CASE InspectProject           BY <1>2 DEF InspectProject
<1>3. CASE CallProvider             BY <1>3 DEF CallProvider
<1>4. CASE GateViolation            BY <1>4 DEF GateViolation
<1>5. CASE ExecuteChange            BY <1>5 DEF ExecuteChange
<1>6. CASE ExecuteExists            BY <1>6 DEF ExecuteExists
<1>7. CASE ExecuteOther
  <2>1. UNCHANGED <<cont, repairPending, report>> /\ disk' = phase
    BY <1>7 DEF ExecuteOther
  <2>2. \/ UNCHANGED <<phase, reason, pc>>
        \/ /\ phase' = "FAILED" /\ pc' = "finish"
           /\ reason' \in {REPAIR_NO_MUTATION, REPEATED_NO_OP}
    BY <1>7 DEF ExecuteOther
  <2>3. reason' \in AgentReasons \cup OtherReasons \cup {None}
    BY <2>2
  <2>4. phase' \in RunStatus /\ pc' \in {"tools", "finish", pc}
    BY <2>2
  <2>. QED
    BY <2>1, <2>3, <2>4
<1>8. CASE TurnRejected             BY <1>8 DEF TurnRejected
<1>9. CASE TurnStalled              BY <1>9 DEF TurnStalled
<1>10. CASE TurnNoRepair            BY <1>10 DEF TurnNoRepair
<1>11. CASE TurnUnresolvedTargets   BY ZenonT(20), <1>11 DEF TurnUnresolvedTargets
<1>12. CASE TurnGateViolation       BY <1>12 DEF TurnGateViolation
<1>13. CASE TurnFileExists          BY ZenonT(20), <1>13 DEF TurnFileExists
<1>14. CASE TurnInspection          BY <1>14 DEF TurnInspection
<1>15. CASE PlanningDone            BY <1>15 DEF PlanningDone
<1>16. CASE DiagnosisDone           BY <1>16 DEF DiagnosisDone
<1>17. CASE CorrectionDone          BY <1>17 DEF CorrectionDone
<1>18. CASE EditingContinues        BY <1>18 DEF EditingContinues
<1>19. CASE EditingDone
  BY <1>19 DEF EditingDone, Prebuild, RepairableFailure
<1>20. CASE EnterEditing
  BY <1>20 DEF EnterEditing, Prebuild, RepairableFailure
<1>21. CASE BuildSucceeds           BY <1>21 DEF BuildSucceeds
<1>22. CASE BuildFails              BY <1>22 DEF BuildFails
<1>23. CASE BuildRaises             BY <1>23 DEF BuildRaises
<1>24. CASE ValidateArtifact
  BY <1>24 DEF ValidateArtifact, AfterArtifact
<1>25. CASE ValidateFunctional
  BY <1>25 DEF ValidateFunctional, RepairableFailure
<1>26. CASE Report                  BY <1>26 DEF Report
<1>27. CASE LimitStop               BY <1>27 DEF LimitStop
<1>28. CASE LimitInTurn             BY <1>28 DEF LimitInTurn
<1>29. CASE SaveRunState            BY <1>29 DEF SaveRunState
<1>30. CASE WriteReport             BY <1>30 DEF WriteReport
<1>31. CASE InternalError           BY <1>31 DEF InternalError
<1>32. CASE Crash                   BY <1>32 DEF Crash
<1>33. CASE UNCHANGED vars
  BY <1>33
<1>. QED
  BY <1>1, <1>2, <1>3, <1>4, <1>5, <1>6, <1>7, <1>8, <1>9, <1>10, <1>11,
     <1>12, <1>13, <1>14, <1>15, <1>16, <1>17, <1>18, <1>19, <1>20, <1>21,
     <1>22, <1>23, <1>24, <1>25, <1>26, <1>27, <1>28, <1>29, <1>30, <1>31,
     <1>32, <1>33
     DEF Next, Work, Start, Execute, Weigh, Deliver, Limits, Finish

\* No counter passes the limit it is tested against (limit_violations).
LEMMA CounterTypesStep ==
  ASSUME TypeOK, StreaksBelowLimits, [Next]_vars
  PROVE  CounterTypes'
<1>. USE DEF TypeOK, CounterTypes, StreaksBelowLimits, PressureAfter,
      ResetActionPressure, LimitHit, MayExecute, Iterating, vars, loopVars,
      weighedVars, turn, limitVars, pressure, targetVars, stallVars,
      historyVars
<1>1. CASE BeginInspection
  BY <1>1, LimitsAssumption, StepsAssumption DEF BeginInspection
<1>2. CASE InspectProject
  BY <1>2, LimitsAssumption, StepsAssumption DEF InspectProject
<1>3. CASE CallProvider
  BY <1>3, LimitsAssumption, StepsAssumption DEF CallProvider
<1>4. CASE GateViolation
  BY <1>4, LimitsAssumption, StepsAssumption DEF GateViolation
<1>5. CASE ExecuteChange
  BY <1>5, LimitsAssumption, StepsAssumption DEF ExecuteChange
<1>6. CASE ExecuteExists
  BY <1>6, LimitsAssumption, StepsAssumption DEF ExecuteExists
<1>7. CASE ExecuteOther
  <2>1. UNCHANGED <<steps, builds, requests, pressure>> /\ tools' = tools + 1
    BY <1>7 DEF ExecuteOther
  <2>2. ~(tools >= MaxTools)
    BY <1>7 DEF ExecuteOther
  <2>. QED
    BY <2>1, <2>2, LimitsAssumption
<1>8. CASE TurnRejected
  BY <1>8, LimitsAssumption, StepsAssumption DEF TurnRejected
<1>9. CASE TurnStalled
  <2>1. /\ pc = "tools"
        /\ UNCHANGED limitVars
        /\ insp' = InspAfter
        /\ gateViol' = GateAfter
        /\ recov' = RecovAfter
    BY <1>9 DEF TurnStalled, EndTurn
  <2>2. InspAfter \in 0..StallStep /\ GateAfter \in 0..2 /\ RecovAfter \in 0..2
    BY <2>1, WeighedStreaks, StepsAssumption
  <2>. QED
    BY <2>1, <2>2
<1>10. CASE TurnNoRepair
  <2>1. /\ pc = "tools"
        /\ UNCHANGED limitVars
        /\ insp' = InspAfter
        /\ gateViol' = GateAfter
        /\ recov' = RecovAfter
    BY <1>10 DEF TurnNoRepair, EndTurn
  <2>2. InspAfter \in 0..StallStep /\ GateAfter \in 0..2 /\ RecovAfter \in 0..2
    BY <2>1, WeighedStreaks, StepsAssumption
  <2>. QED
    BY <2>1, <2>2
<1>11. CASE TurnUnresolvedTargets
  <2>1. /\ pc = "tools"
        /\ UNCHANGED <<limitVars, insp, recov>>
        /\ gateViol' = gateViol + 1
    BY <1>11 DEF TurnUnresolvedTargets, EndTurn
  <2>. QED
    BY <2>1
<1>12. CASE TurnGateViolation
  <2>1. /\ pc = "tools"
        /\ UNCHANGED limitVars
        /\ insp' = InspAfter
        /\ gateViol' = GateAfter
        /\ recov' = RecovAfter
    BY <1>12 DEF TurnGateViolation, EndTurn
  <2>2. InspAfter \in 0..StallStep /\ GateAfter \in 0..2 /\ RecovAfter \in 0..2
    BY <2>1, WeighedStreaks, StepsAssumption
  <2>. QED
    BY <2>1, <2>2
<1>13. CASE TurnFileExists
  <2>1. /\ pc = "tools"
        /\ UNCHANGED limitVars
        /\ insp' = InspAfter
        /\ gateViol' = GateAfter
        /\ recov' = recov + 1
    BY <1>13 DEF TurnFileExists, EndTurn
  <2>2. InspAfter \in 0..StallStep /\ GateAfter \in 0..2 /\ recov + 1 \in 0..2
    BY <2>1, WeighedStreaks, StepsAssumption
  <2>. QED
    BY <2>1, <2>2
<1>14. CASE TurnInspection
  <2>1. /\ pc = "tools"
        /\ UNCHANGED limitVars
        /\ insp' = InspAfter
        /\ gateViol' = GateAfter
        /\ recov' = RecovAfter
    BY <1>14 DEF TurnInspection, EndTurn
  <2>2. InspAfter \in 0..StallStep /\ GateAfter \in 0..2 /\ RecovAfter \in 0..2
    BY <2>1, WeighedStreaks, StepsAssumption
  <2>. QED
    BY <2>1, <2>2
<1>15. CASE PlanningDone
  <2>1. /\ pc = "tools"
        /\ UNCHANGED limitVars
        /\ insp' = InspAfter
        /\ gateViol' = GateAfter
        /\ recov' = RecovAfter
    BY <1>15 DEF PlanningDone, EndTurn
  <2>2. InspAfter \in 0..StallStep /\ GateAfter \in 0..2 /\ RecovAfter \in 0..2
    BY <2>1, WeighedStreaks, StepsAssumption
  <2>. QED
    BY <2>1, <2>2
<1>16. CASE DiagnosisDone
  BY <1>16, LimitsAssumption, StepsAssumption DEF DiagnosisDone
<1>17. CASE CorrectionDone
  <2>1. /\ pc = "tools"
        /\ UNCHANGED limitVars
        /\ insp' = InspAfter
        /\ gateViol' = GateAfter
        /\ recov' = RecovAfter
    BY <1>17 DEF CorrectionDone, EndTurn
  <2>2. InspAfter \in 0..StallStep /\ GateAfter \in 0..2 /\ RecovAfter \in 0..2
    BY <2>1, WeighedStreaks, StepsAssumption
  <2>. QED
    BY <2>1, <2>2
<1>18. CASE EditingContinues
  <2>1. /\ pc = "tools"
        /\ UNCHANGED limitVars
        /\ insp' = InspAfter
        /\ gateViol' = GateAfter
        /\ recov' = RecovAfter
    BY <1>18 DEF EditingContinues, EndTurn
  <2>2. InspAfter \in 0..StallStep /\ GateAfter \in 0..2 /\ RecovAfter \in 0..2
    BY <2>1, WeighedStreaks, StepsAssumption
  <2>. QED
    BY <2>1, <2>2
<1>19. CASE EditingDone
  <2>1. pc = "tools"
    BY <1>19 DEF EditingDone, EndTurn
  <2>. QED
    BY <1>19, <2>1, WeighedStreaks, StepsAssumption DEF EditingDone, Prebuild
<1>20. CASE EnterEditing
  BY <1>20, StepsAssumption DEF EnterEditing, Prebuild
<1>21. CASE BuildSucceeds
  BY <1>21, LimitsAssumption, StepsAssumption DEF BuildSucceeds
<1>22. CASE BuildFails
  BY <1>22, LimitsAssumption, StepsAssumption DEF BuildFails
<1>23. CASE BuildRaises
  BY <1>23, LimitsAssumption, StepsAssumption DEF BuildRaises
<1>24. CASE ValidateArtifact
  BY <1>24, LimitsAssumption, StepsAssumption DEF ValidateArtifact
<1>25. CASE ValidateFunctional
  BY <1>25, LimitsAssumption, StepsAssumption DEF ValidateFunctional
<1>26. CASE Report
  BY <1>26, LimitsAssumption, StepsAssumption DEF Report
<1>27. CASE LimitStop
  BY <1>27, LimitsAssumption, StepsAssumption DEF LimitStop
<1>28. CASE LimitInTurn
  BY <1>28, LimitsAssumption, StepsAssumption DEF LimitInTurn
<1>29. CASE SaveRunState
  BY <1>29, LimitsAssumption, StepsAssumption DEF SaveRunState
<1>30. CASE WriteReport
  BY <1>30, LimitsAssumption, StepsAssumption DEF WriteReport
<1>31. CASE InternalError
  BY <1>31, LimitsAssumption, StepsAssumption DEF InternalError
<1>32. CASE Crash
  BY <1>32, LimitsAssumption, StepsAssumption DEF Crash
<1>33. CASE UNCHANGED vars
  BY <1>33
<1>. QED
  BY <1>1, <1>2, <1>3, <1>4, <1>5, <1>6, <1>7, <1>8, <1>9, <1>10, <1>11,
     <1>12, <1>13, <1>14, <1>15, <1>16, <1>17, <1>18, <1>19, <1>20, <1>21,
     <1>22, <1>23, <1>24, <1>25, <1>26, <1>27, <1>28, <1>29, <1>30, <1>31,
     <1>32, <1>33
     DEF Next, Work, Start, Execute, Weigh, Deliver, Limits, Finish

\* A turn keeps its results, signatures and mutation targets in range.
LEMMA ResultTypesStep ==
  ASSUME ResultTypes, CounterTypes, [Next]_vars
  PROVE  ResultTypes'
<1>. USE DEF ResultTypes, vars, loopVars, weighedVars, turn, limitVars,
      pressure, targetVars, stallVars, historyVars
<1>1. CASE BeginInspection          BY <1>1 DEF BeginInspection
<1>2. CASE InspectProject           BY <1>2 DEF InspectProject
<1>3. CASE CallProvider             BY <1>3, DomainAssumption DEF CallProvider
<1>4. CASE GateViolation
  <2>1. calls' \in 0..BatchBound
    BY <1>4, DomainAssumption DEF GateViolation, MayExecute
  <2>2. seen' \subseteq Kinds
    BY <1>4 DEF GateViolation, Kinds
  <2>. QED
    BY <1>4, <2>1, <2>2 DEF GateViolation
<1>5. CASE ExecuteChange
  <2>1. calls' \in 0..BatchBound
    BY <1>5, DomainAssumption DEF ExecuteChange, MayExecute
  <2>2. seen' \subseteq Kinds /\ lastTool' = <<>> /\ lastBuild' = lastBuild
    BY <1>5 DEF ExecuteChange, Kinds
  <2>3. pending' \subseteq pending
    BY <1>5 DEF ExecuteChange
  <2>4. completed' \subseteq Paths \cup {RoleSource}
    BY <1>5 DEF ExecuteChange, MatchingTarget
  <2>. QED
    BY <2>1, <2>2, <2>3, <2>4
<1>6. CASE ExecuteExists
  <2>1. calls' \in 0..BatchBound
    BY <1>6, DomainAssumption DEF ExecuteExists, MayExecute
  <2>2. seen' \subseteq Kinds
    BY <1>6 DEF ExecuteExists, Kinds
  <2>. QED
    BY <1>6, <2>1, <2>2 DEF ExecuteExists
<1>7. CASE ExecuteOther
  <2>1. calls < BatchBound /\ calls' = calls + 1
    BY <1>7 DEF ExecuteOther, MayExecute
  <2>2. calls' \in 0..BatchBound
    BY <2>1, DomainAssumption
  <2>3. seen' \subseteq Kinds
    BY <1>7 DEF ExecuteOther, Kinds
  <2>4. PICK t \in OfferedTools, v \in ToolVariants, rejected \in BOOLEAN :
           lastTool' = <<t, v, rejected>>
    BY <1>7, Zenon DEF ExecuteOther
  <2>5. t \in ToolNames
    BY DEF OfferedTools
  <2>6. lastTool' \in (ToolNames \X ToolVariants \X BOOLEAN) \cup {<<>>}
    BY <2>4, <2>5
  <2>. QED
    BY <1>7, <2>2, <2>3, <2>6 DEF ExecuteOther
<1>8. CASE TurnRejected             BY <1>8 DEF TurnRejected
<1>9. CASE TurnStalled              BY <1>9 DEF TurnStalled
<1>10. CASE TurnNoRepair            BY <1>10 DEF TurnNoRepair
<1>11. CASE TurnUnresolvedTargets   BY <1>11 DEF TurnUnresolvedTargets
<1>12. CASE TurnGateViolation       BY <1>12 DEF TurnGateViolation
<1>13. CASE TurnFileExists          BY <1>13 DEF TurnFileExists
<1>14. CASE TurnInspection          BY <1>14 DEF TurnInspection
<1>15. CASE PlanningDone            BY <1>15 DEF PlanningDone
<1>16. CASE DiagnosisDone           BY <1>16 DEF DiagnosisDone
<1>17. CASE CorrectionDone          BY <1>17 DEF CorrectionDone
<1>18. CASE EditingContinues        BY <1>18 DEF EditingContinues
<1>19. CASE EditingDone             BY <1>19 DEF EditingDone
<1>20. CASE EnterEditing            BY <1>20 DEF EnterEditing
<1>21. CASE BuildSucceeds           BY <1>21 DEF BuildSucceeds
<1>22. CASE BuildFails              BY <1>22 DEF BuildFails
<1>23. CASE BuildRaises             BY <1>23 DEF BuildRaises
<1>24. CASE ValidateArtifact        BY <1>24 DEF ValidateArtifact
<1>25. CASE ValidateFunctional      BY <1>25 DEF ValidateFunctional
<1>26. CASE Report                  BY <1>26 DEF Report
<1>27. CASE LimitStop               BY <1>27 DEF LimitStop
<1>28. CASE LimitInTurn             BY <1>28 DEF LimitInTurn
<1>29. CASE SaveRunState            BY <1>29 DEF SaveRunState
<1>30. CASE WriteReport             BY <1>30 DEF WriteReport
<1>31. CASE InternalError           BY <1>31 DEF InternalError
<1>32. CASE Crash                   BY <1>32 DEF Crash
<1>33. CASE UNCHANGED vars
  BY <1>33
<1>. QED
  BY <1>1, <1>2, <1>3, <1>4, <1>5, <1>6, <1>7, <1>8, <1>9, <1>10, <1>11,
     <1>12, <1>13, <1>14, <1>15, <1>16, <1>17, <1>18, <1>19, <1>20, <1>21,
     <1>22, <1>23, <1>24, <1>25, <1>26, <1>27, <1>28, <1>29, <1>30, <1>31,
     <1>32, <1>33
     DEF Next, Work, Start, Execute, Weigh, Deliver, Limits, Finish

\* Recording a repairable failure keeps the repeat count within 2: the third
\* equal failure is the last.
LEMMA RepairableFailureTypes ==
  ASSUME ValidationTypes, valRepeat \in 0..1,
         NEW s \in PreSignatures \cup FuncSignatures,
         RepairableFailure(s)
  PROVE  /\ valSig' \in PreSignatures \cup FuncSignatures \cup {None}
         /\ valRepeat' \in 0..2
         /\ repairSig' \in PreSignatures \cup FuncSignatures \cup {None}
         /\ ineffective' \in BOOLEAN
         /\ current' \subseteq Facts
<1>1. valSig' = s /\ current' = current \cup {"rejected"}
  BY DEF RepairableFailure
<1>2. valRepeat' \in {valRepeat + 1, 0}
  BY DEF RepairableFailure
<1>3. /\ repairSig' \in {s, repairSig}
      /\ ineffective' \in {TRUE, FALSE, ineffective}
  BY DEF RepairableFailure
<1>4. valRepeat' \in 0..2
  BY <1>2
<1>5. current' \subseteq Facts
  BY <1>1 DEF ValidationTypes, Facts
<1>6. ineffective' \in BOOLEAN
  BY <1>3 DEF ValidationTypes
<1>7. repairSig' \in PreSignatures \cup FuncSignatures \cup {None}
  BY <1>3 DEF ValidationTypes
<1>. QED
  BY <1>1, <1>4, <1>5, <1>6, <1>7

\* Forgetting the last failure (reset_validation_stall) keeps its types.
LEMMA StallResetTypes ==
  ASSUME ValidationTypes, ResetStall
  PROVE  /\ valSig' \in PreSignatures \cup FuncSignatures \cup {None}
         /\ valRepeat' \in 0..2
         /\ ineffective' \in BOOLEAN
<1>1. ineffective' \in BOOLEAN
  BY DEF ResetStall
<1>2. valSig' = None /\ valRepeat' = 0
  BY DEF ResetStall
<1>. QED
  BY <1>1, <1>2

\* All three outcomes of the pre-build validation keep the types.
LEMMA PrebuildTypes ==
  ASSUME ValidationTypes, valRepeat \in 0..1, NEW i, NEW g, NEW r, Prebuild(i,
         g, r)
  PROVE  ValidationTypes'
<1>1. CASE ResetStall /\ current' = current \cup {"prebuild"}
           /\ UNCHANGED <<repairSig, historyVars>>
  <2>1. current' \subseteq Facts
    BY <1>1 DEF ValidationTypes, Facts
  <2>. QED
    BY <1>1, <2>1, StallResetTypes DEF ValidationTypes, historyVars
<1>4. CASE UNCHANGED <<valSig, valRepeat, ineffective, current, repairSig, historyVars>>
  BY <1>4 DEF ValidationTypes, historyVars
<1>2. CASE UNCHANGED <<stallVars, current, historyVars>>
  BY <1>2 DEF ValidationTypes, stallVars, historyVars
<1>3. ASSUME NEW s \in PreSignatures, RepairableFailure(s), funcSig' = None,
             funcCount' = 0
      PROVE  ValidationTypes'
  BY <1>3, RepairableFailureTypes DEF ValidationTypes
<1>. QED
  BY <1>1, <1>2, <1>3, <1>4 DEF Prebuild

\* The memory of validation failures keeps its types.
LEMMA ValidationTypesStep ==
  ASSUME ValidationTypes, PlacesFit, StreaksBelowLimits, [Next]_vars
  PROVE  ValidationTypes'
<1>. USE DEF ValidationTypes, vars, loopVars, weighedVars, turn, limitVars,
      pressure, targetVars, stallVars, historyVars
<1>1. CASE BeginInspection          BY <1>1 DEF BeginInspection
<1>2. CASE InspectProject           BY <1>2 DEF InspectProject
<1>3. CASE CallProvider             BY <1>3 DEF CallProvider
<1>4. CASE GateViolation            BY <1>4 DEF GateViolation
<1>5. CASE ExecuteChange
  <2>1. current' = {} /\ UNCHANGED <<repairSig, historyVars>>
    BY <1>5 DEF ExecuteChange
  <2>2. CASE UNCHANGED <<valSig, valRepeat, ineffective>>
    BY <2>1, <2>2
  <2>3. CASE ResetStall
    BY <2>1, <2>3, StallResetTypes
  <2>. QED
    BY <1>5, <2>2, <2>3 DEF ExecuteChange
<1>6. CASE ExecuteExists            BY <1>6 DEF ExecuteExists
<1>7. CASE ExecuteOther
  <2>1. current' \subseteq current
    BY <1>7 DEF ExecuteOther
  <2>. QED
    BY <1>7, <2>1 DEF ExecuteOther
<1>8. CASE TurnRejected             BY <1>8 DEF TurnRejected
<1>9. CASE TurnStalled              BY <1>9 DEF TurnStalled
<1>10. CASE TurnNoRepair            BY <1>10 DEF TurnNoRepair
<1>11. CASE TurnUnresolvedTargets   BY <1>11 DEF TurnUnresolvedTargets
<1>12. CASE TurnGateViolation       BY <1>12 DEF TurnGateViolation
<1>13. CASE TurnFileExists          BY <1>13 DEF TurnFileExists
<1>14. CASE TurnInspection          BY <1>14 DEF TurnInspection
<1>15. CASE PlanningDone            BY <1>15 DEF PlanningDone
<1>16. CASE DiagnosisDone           BY <1>16 DEF DiagnosisDone
<1>17. CASE CorrectionDone          BY <1>17 DEF CorrectionDone
<1>18. CASE EditingContinues        BY <1>18 DEF EditingContinues
<1>19. CASE EditingDone
  <2>1. valRepeat \in 0..1
    BY <1>19 DEF EditingDone, EndTurn, StreaksBelowLimits
  <2>2. Prebuild(InspAfter, GateAfter, RecovAfter)
    BY <1>19 DEF EditingDone
  <2>. QED
    BY <2>1, <2>2, PrebuildTypes
<1>20. CASE EnterEditing
  <2>1. CASE Unresolved
    BY <1>20, <2>1 DEF EnterEditing
  <2>2. CASE ~Unresolved
    <3>1. valRepeat \in 0..1
      BY <1>20 DEF EnterEditing, Iterating, StreaksBelowLimits
    <3>2. Prebuild(insp, gateViol, recov)
      BY <1>20, <2>2 DEF EnterEditing
    <3>. QED
      BY <3>1, <3>2, PrebuildTypes
  <2>. QED
    BY <2>1, <2>2
<1>21. CASE BuildSucceeds           BY <1>21 DEF BuildSucceeds, Facts
<1>22. CASE BuildFails
  <2>1. /\ UNCHANGED stallVars
        /\ current' \subseteq current
        /\ funcSig' = None
        /\ funcCount' = 0
    BY <1>22 DEF BuildFails
  <2>. QED
    BY <2>1
<1>23. CASE BuildRaises             BY <1>23 DEF BuildRaises
<1>24. CASE ValidateArtifact        BY <1>24 DEF ValidateArtifact, Facts
<1>25. CASE ValidateFunctional
  <2>1. CASE /\ ResetStall
             /\ current' = current \cup {"functional"}
             /\ UNCHANGED <<repairSig, historyVars>>
    <3>1. current' \subseteq Facts
      BY <2>1 DEF Facts
    <3>. QED
      BY <2>1, <3>1, StallResetTypes
  <2>2. CASE UNCHANGED <<stallVars, current, historyVars>>
    BY <2>2
  <2>3. ASSUME NEW s \in FuncSignatures, RepairableFailure(s), funcSig' = s,
               funcCount' = IF s = funcSig THEN funcCount + 1 ELSE 0
        PROVE  ValidationTypes'
    <3>1. valRepeat \in 0..1
      BY <1>25 DEF ValidateFunctional, Iterating, StreaksBelowLimits
    <3>2. funcSig' \in FuncSignatures \cup {None} /\ funcCount' \in Nat
      BY <2>3
    <3>. QED
      BY <2>3, <3>1, <3>2, RepairableFailureTypes
  <2>. QED
    BY <1>25, <2>1, <2>2, <2>3 DEF ValidateFunctional
<1>26. CASE Report                  BY <1>26 DEF Report
<1>27. CASE LimitStop               BY <1>27 DEF LimitStop
<1>28. CASE LimitInTurn             BY <1>28 DEF LimitInTurn
<1>29. CASE SaveRunState            BY <1>29 DEF SaveRunState
<1>30. CASE WriteReport             BY <1>30 DEF WriteReport
<1>31. CASE InternalError           BY <1>31 DEF InternalError
<1>32. CASE Crash                   BY <1>32 DEF Crash
<1>33. CASE UNCHANGED vars
  BY <1>33
<1>. QED
  BY <1>1, <1>2, <1>3, <1>4, <1>5, <1>6, <1>7, <1>8, <1>9, <1>10, <1>11,
     <1>12, <1>13, <1>14, <1>15, <1>16, <1>17, <1>18, <1>19, <1>20, <1>21,
     <1>22, <1>23, <1>24, <1>25, <1>26, <1>27, <1>28, <1>29, <1>30, <1>31,
     <1>32, <1>33
     DEF Next, Work, Start, Execute, Weigh, Deliver, Limits, Finish

-----------------------------------------------------------------------------
(* The parts of the inductive invariant, one step per action. *)

\* The engine's place and the state of the run stay in agreement.
LEMMA PlacesFitStep ==
  ASSUME PlacesFit, [Next]_vars
  PROVE  PlacesFit'
<1>. USE DEF PlacesFit, Active, Stop, Move, Stay, EndTurn, Iterating,
      MayExecute, vars, loopVars, weighedVars, turn, limitVars, pressure,
      targetVars, stallVars, historyVars, TERMINAL_STATUSES,
      Lifecycle!TERMINAL_STATUSES, Lifecycle!NON_SUCCESS_TERMINAL_STATUSES,
      RunStatus, Lifecycle!RunStatus, Lifecycle!ACTIVE_STATUSES
<1>1. CASE BeginInspection          BY <1>1 DEF BeginInspection
<1>2. CASE InspectProject           BY <1>2 DEF InspectProject
<1>3. CASE CallProvider             BY <1>3 DEF CallProvider
<1>4. CASE GateViolation            BY <1>4 DEF GateViolation
<1>5. CASE ExecuteChange            BY <1>5 DEF ExecuteChange
<1>6. CASE ExecuteExists            BY <1>6 DEF ExecuteExists
<1>7. CASE ExecuteOther             BY <1>7 DEF ExecuteOther
<1>8. CASE TurnRejected             BY <1>8 DEF TurnRejected
<1>9. CASE TurnStalled              BY <1>9 DEF TurnStalled
<1>10. CASE TurnNoRepair            BY <1>10 DEF TurnNoRepair
<1>11. CASE TurnUnresolvedTargets   BY <1>11 DEF TurnUnresolvedTargets
<1>12. CASE TurnGateViolation       BY <1>12 DEF TurnGateViolation
<1>13. CASE TurnFileExists          BY <1>13 DEF TurnFileExists
<1>14. CASE TurnInspection          BY <1>14 DEF TurnInspection
<1>15. CASE PlanningDone            BY <1>15 DEF PlanningDone
<1>16. CASE DiagnosisDone           BY <1>16 DEF DiagnosisDone
<1>17. CASE CorrectionDone          BY <1>17 DEF CorrectionDone
<1>18. CASE EditingContinues        BY <1>18 DEF EditingContinues
<1>19. CASE EditingDone
  BY <1>19 DEF EditingDone, Prebuild, RepairableFailure
<1>20. CASE EnterEditing
  BY <1>20 DEF EnterEditing, Prebuild, RepairableFailure
<1>21. CASE BuildSucceeds           BY <1>21 DEF BuildSucceeds
<1>22. CASE BuildFails              BY <1>22 DEF BuildFails
<1>23. CASE BuildRaises             BY <1>23 DEF BuildRaises
<1>24. CASE ValidateArtifact
  BY <1>24 DEF ValidateArtifact, AfterArtifact
<1>25. CASE ValidateFunctional
  BY <1>25 DEF ValidateFunctional, RepairableFailure
<1>26. CASE Report                  BY <1>26 DEF Report
<1>27. CASE LimitStop               BY <1>27 DEF LimitStop
<1>28. CASE LimitInTurn             BY <1>28 DEF LimitInTurn
<1>29. CASE SaveRunState            BY <1>29 DEF SaveRunState
<1>30. CASE WriteReport             BY <1>30 DEF WriteReport
<1>31. CASE InternalError           BY <1>31 DEF InternalError
<1>32. CASE Crash                   BY <1>32 DEF Crash
<1>33. CASE UNCHANGED vars
  BY <1>33
<1>. QED
  BY <1>1, <1>2, <1>3, <1>4, <1>5, <1>6, <1>7, <1>8, <1>9, <1>10, <1>11,
     <1>12, <1>13, <1>14, <1>15, <1>16, <1>17, <1>18, <1>19, <1>20, <1>21,
     <1>22, <1>23, <1>24, <1>25, <1>26, <1>27, <1>28, <1>29, <1>30, <1>31,
     <1>32, <1>33
     DEF Next, Work, Start, Execute, Weigh, Deliver, Limits, Finish

\* Between two decisions every streak stays below its limit.
LEMMA StreaksBelowLimitsStep ==
  ASSUME TypeOK, PlacesFit, StreaksBelowLimits, [Next]_vars
  PROVE  StreaksBelowLimits'
<1>. USE DEF StreaksBelowLimits, TypeOK, CounterTypes, ValidationTypes,
      EndTurn, Stop, Move, Stay, PressureAfter, ResetActionPressure,
      InspectionTurn, vars, loopVars, weighedVars, turn, limitVars, pressure,
      targetVars, stallVars, historyVars
<1>1. CASE BeginInspection
  BY <1>1, StepsAssumption
     DEF BeginInspection, Stop, Move, Stay, Persist, Iterating, MayExecute
<1>2. CASE InspectProject
  BY <1>2, StepsAssumption
     DEF InspectProject, Stop, Move, Stay, Persist, Iterating, MayExecute
<1>3. CASE CallProvider
  BY <1>3, StepsAssumption
     DEF CallProvider, Stop, Move, Stay, Persist, Iterating, MayExecute
<1>4. CASE GateViolation
  BY <1>4, StepsAssumption
     DEF GateViolation, Stop, Move, Stay, Persist, Iterating, MayExecute
<1>5. CASE ExecuteChange
  BY <1>5 DEF ExecuteChange, MayExecute, ResetStall
<1>6. CASE ExecuteExists
  BY <1>6, StepsAssumption
     DEF ExecuteExists, Stop, Move, Stay, Persist, Iterating, MayExecute
<1>7. CASE ExecuteOther
  <2>1. /\ pc = "tools"
        /\ UNCHANGED <<requests, steps, insp, gateViol, recov, valRepeat>>
        /\ pc' \in {"tools", "finish"}
    BY <1>7 DEF ExecuteOther, MayExecute, Stop
  <2>. QED
    BY <1>7, <2>1, ObservedWithinGate
<1>8. CASE TurnRejected
  BY <1>8, StepsAssumption
     DEF TurnRejected, Stop, Move, Stay, Persist, Iterating, MayExecute
<1>9. CASE TurnStalled
  <2>1. pc = "tools" /\ pc' = "finish" /\ insp' = InspAfter
    BY <1>9 DEF TurnStalled, EndTurn, Stop
  <2>. QED
    BY <2>1, WeighedStreaks, StepsAssumption
<1>10. CASE TurnNoRepair
  <2>1. pc = "tools" /\ pc' # "tools" /\ GateAfter \in 0..1
    BY <1>10, CalmVerdict DEF TurnNoRepair, EndTurn, Stay, Stop, Move
  <2>2. InspAfter \in 0..ActionOnlyStep /\ RecovAfter \in 0..1
    BY <2>1, WeighedStreaks
  <2>3. requests' = requests /\ steps' = steps /\ valRepeat' = valRepeat
    BY <1>10 DEF TurnNoRepair
  <2>4. /\ insp' \in 0..ActionOnlyStep
        /\ (pc' = "loop" => gateViol' \in 0..1 /\ recov' \in 0..1)
    BY <1>10, <2>1, <2>2, StepsAssumption DEF TurnNoRepair, Stay, Stop, Move
  <2>. QED
    BY <2>1, <2>3, <2>4, StepsAssumption
<1>11. CASE TurnUnresolvedTargets
  <2>1. pc = "tools" /\ pc' \in {"loop", "finish"}
    BY <1>11 DEF TurnUnresolvedTargets
  <2>2. requests' = requests /\ steps' = steps /\ valRepeat' = valRepeat
    BY <1>11 DEF TurnUnresolvedTargets
  <2>. QED
    BY <1>11, <2>1, <2>2, UnresolvedTurnStreaks, StepsAssumption
<1>12. CASE TurnGateViolation
  <2>1. pc = "tools" /\ pc' # "tools" /\ GateAfter \in 0..1
    BY <1>12, CalmVerdict DEF TurnGateViolation, EndTurn, Stay, Stop, Move
  <2>2. InspAfter \in 0..ActionOnlyStep /\ RecovAfter \in 0..1
    BY <2>1, WeighedStreaks
  <2>3. requests' = requests /\ steps' = steps /\ valRepeat' = valRepeat
    BY <1>12 DEF TurnGateViolation
  <2>4. /\ insp' \in 0..ActionOnlyStep
        /\ (pc' = "loop" => gateViol' \in 0..1 /\ recov' \in 0..1)
    BY <1>12, <2>1, <2>2, StepsAssumption
       DEF TurnGateViolation, Stay, Stop, Move
  <2>. QED
    BY <2>1, <2>3, <2>4, StepsAssumption
<1>13. CASE TurnFileExists
  <2>1. pc = "tools" /\ pc' \in {"loop", "finish"} /\ GateAfter \in 0..1
    BY <1>13, CalmVerdict DEF TurnFileExists
  <2>2. requests' = requests /\ steps' = steps /\ valRepeat' = valRepeat
    BY <1>13 DEF TurnFileExists
  <2>. QED
    BY <1>13, <2>1, <2>2, FileExistsStreaks, WeighedStreaks, StepsAssumption
<1>14. CASE TurnInspection
  <2>1. pc = "tools" /\ pc' # "tools" /\ GateAfter \in 0..1
    BY <1>14, CalmVerdict DEF TurnInspection, EndTurn, Stay, Stop, Move
  <2>2. InspAfter \in 0..ActionOnlyStep /\ RecovAfter \in 0..1
    BY <2>1, WeighedStreaks
  <2>3. requests' = requests /\ steps' = steps /\ valRepeat' = valRepeat
    BY <1>14 DEF TurnInspection
  <2>4. /\ insp' \in 0..ActionOnlyStep
        /\ (pc' = "loop" => gateViol' \in 0..1 /\ recov' \in 0..1)
    BY <1>14, <2>1, <2>2, StepsAssumption DEF TurnInspection, Stay, Stop, Move
  <2>. QED
    BY <2>1, <2>3, <2>4, StepsAssumption
<1>15. CASE PlanningDone
  <2>1. pc = "tools" /\ pc' # "tools" /\ GateAfter \in 0..1
    BY <1>15, CalmVerdict DEF PlanningDone, EndTurn, Stay, Stop, Move
  <2>2. InspAfter \in 0..ActionOnlyStep /\ RecovAfter \in 0..1
    BY <2>1, WeighedStreaks
  <2>3. requests' = requests /\ steps' = steps /\ valRepeat' = valRepeat
    BY <1>15 DEF PlanningDone
  <2>4. /\ insp' \in 0..ActionOnlyStep
        /\ (pc' = "loop" => gateViol' \in 0..1 /\ recov' \in 0..1)
    BY <1>15, <2>1, <2>2, StepsAssumption DEF PlanningDone, Stay, Stop, Move
  <2>. QED
    BY <2>1, <2>3, <2>4, StepsAssumption
<1>16. CASE DiagnosisDone
  <2>1. pc = "tools" /\ pc' # "tools" /\ GateAfter \in 0..1
    BY <1>16, CalmVerdict DEF DiagnosisDone, EndTurn, Stay, Stop, Move
  <2>2. InspAfter \in 0..ActionOnlyStep /\ RecovAfter \in 0..1
    BY <2>1, WeighedStreaks
  <2>3. requests' = requests /\ steps' = steps /\ valRepeat' = valRepeat
    BY <1>16 DEF DiagnosisDone
  <2>4. /\ insp' \in 0..ActionOnlyStep
        /\ (pc' = "loop" => gateViol' \in 0..1 /\ recov' \in 0..1)
    BY <1>16, <2>1, <2>2, StepsAssumption DEF DiagnosisDone, Stay, Stop, Move
  <2>. QED
    BY <2>1, <2>3, <2>4, StepsAssumption
<1>17. CASE CorrectionDone
  <2>1. pc = "tools" /\ pc' # "tools" /\ GateAfter \in 0..1
    BY <1>17, CalmVerdict DEF CorrectionDone, EndTurn, Stay, Stop, Move
  <2>2. InspAfter \in 0..ActionOnlyStep /\ RecovAfter \in 0..1
    BY <2>1, WeighedStreaks
  <2>3. requests' = requests /\ steps' = steps /\ valRepeat' = valRepeat
    BY <1>17 DEF CorrectionDone
  <2>4. /\ insp' \in 0..ActionOnlyStep
        /\ (pc' = "loop" => gateViol' \in 0..1 /\ recov' \in 0..1)
    BY <1>17, <2>1, <2>2, StepsAssumption DEF CorrectionDone, Stay, Stop, Move
  <2>. QED
    BY <2>1, <2>3, <2>4, StepsAssumption
<1>18. CASE EditingContinues
  <2>1. pc = "tools" /\ pc' # "tools" /\ GateAfter \in 0..1
    BY <1>18, CalmVerdict DEF EditingContinues, EndTurn, Stay, Stop, Move
  <2>2. InspAfter \in 0..ActionOnlyStep /\ RecovAfter \in 0..1
    BY <2>1, WeighedStreaks
  <2>3. requests' = requests /\ steps' = steps /\ valRepeat' = valRepeat
    BY <1>18 DEF EditingContinues
  <2>4. /\ insp' \in 0..ActionOnlyStep
        /\ (pc' = "loop" => gateViol' \in 0..1 /\ recov' \in 0..1)
    BY <1>18, <2>1, <2>2, StepsAssumption
       DEF EditingContinues, Stay, Stop, Move
  <2>. QED
    BY <2>1, <2>3, <2>4, StepsAssumption
<1>19. CASE EditingDone
  <2>1. pc = "tools" /\ GateAfter \in 0..1
    BY <1>19, CalmVerdict DEF EditingDone, EndTurn
  <2>2. InspAfter \in 0..ActionOnlyStep /\ RecovAfter \in 0..1
    BY <2>1, WeighedStreaks
  <2>3. pc' \in {"loop", "finish"} /\ requests' = requests /\ steps' = steps
    BY <1>19 DEF EditingDone, Prebuild, RepairableFailure, Stop, Move, Stay
  <2>4. pc' = "loop" => valRepeat' <= 1
    BY <1>19, <2>1
       DEF EditingDone, Prebuild, RepairableFailure, FinalRepeat, ResetStall,
           Stop, Move, Stay
  <2>5. insp' \in 0..ActionOnlyStep /\ gateViol' <= 1 /\ recov' <= 1
    BY <1>19, <2>1, <2>2, StepsAssumption DEF EditingDone, Prebuild
  <2>. QED
    BY <2>1, <2>3, <2>4, <2>5, StepsAssumption
<1>20. CASE EnterEditing
  <2>1. pc = "loop"
    BY <1>20 DEF EnterEditing, Iterating
  <2>2. insp \in 0..ActionOnlyStep /\ gateViol \in 0..1 /\ recov \in 0..1
    BY <2>1, StepsAssumption
  <2>3. pc' \in {"loop", "finish"} /\ requests' = requests /\ steps' = steps
    BY <1>20 DEF EnterEditing, Prebuild, RepairableFailure, Stop, Move, Stay
  <2>4. pc' = "loop" => valRepeat' <= 1
    BY <1>20, <2>1
       DEF EnterEditing, Prebuild, RepairableFailure, FinalRepeat, ResetStall,
           Stop, Move, Stay
  <2>5. insp' \in 0..ActionOnlyStep /\ gateViol' <= 1 /\ recov' <= 1
    BY <1>20, <2>1, <2>2, StepsAssumption DEF EnterEditing, Prebuild
  <2>. QED
    BY <2>1, <2>3, <2>4, <2>5, StepsAssumption
<1>21. CASE BuildSucceeds
  BY <1>21, StepsAssumption
     DEF BuildSucceeds, Stop, Move, Stay, Persist, Iterating, MayExecute
<1>22. CASE BuildFails
  BY <1>22, StepsAssumption
     DEF BuildFails, Stop, Move, Stay, Persist, Iterating, MayExecute
<1>23. CASE BuildRaises
  BY <1>23, StepsAssumption
     DEF BuildRaises, Stop, Move, Stay, Persist, Iterating, MayExecute
<1>24. CASE ValidateArtifact
  BY <1>24, StepsAssumption
     DEF ValidateArtifact, Stop, Move, Stay, Persist, Iterating, MayExecute
<1>25. CASE ValidateFunctional
  <2>1. pc = "loop"
    BY <1>25 DEF ValidateFunctional, Iterating
  <2>2. pc' \in {"loop", "finish"} /\ requests' = requests /\ steps' = steps
    BY <1>25 DEF ValidateFunctional, RepairableFailure, Stop, Move
  <2>3. pc' = "loop" => valRepeat' <= 1
    BY <1>25, <2>1
       DEF ValidateFunctional, RepairableFailure, FinalRepeat, ResetStall,
           Stop, Move
  <2>4. /\ insp' \in 0..ActionOnlyStep
        /\ (pc' = "loop" => gateViol' <= 1 /\ recov' <= 1)
    BY <1>25, <2>1, StepsAssumption DEF ValidateFunctional, Stop, Move
  <2>. QED
    BY <2>1, <2>2, <2>3, <2>4, StepsAssumption
<1>26. CASE Report
  BY <1>26, StepsAssumption
     DEF Report, Stop, Move, Stay, Persist, Iterating, MayExecute
<1>27. CASE LimitStop
  BY <1>27, StepsAssumption
     DEF LimitStop, Stop, Move, Stay, Persist, Iterating, MayExecute
<1>28. CASE LimitInTurn
  BY <1>28, StepsAssumption
     DEF LimitInTurn, Stop, Move, Stay, Persist, Iterating, MayExecute
<1>29. CASE SaveRunState
  BY <1>29, StepsAssumption
     DEF SaveRunState, Stop, Move, Stay, Persist, Iterating, MayExecute
<1>30. CASE WriteReport
  BY <1>30, StepsAssumption
     DEF WriteReport, Stop, Move, Stay, Persist, Iterating, MayExecute
<1>31. CASE InternalError
  BY <1>31, StepsAssumption
     DEF InternalError, Stop, Move, Stay, Persist, Iterating, MayExecute
<1>32. CASE Crash
  BY <1>32, StepsAssumption
     DEF Crash, Stop, Move, Stay, Persist, Iterating, MayExecute
<1>33. CASE UNCHANGED vars
  BY <1>33
<1>. QED
  BY <1>1, <1>2, <1>3, <1>4, <1>5, <1>6, <1>7, <1>8, <1>9, <1>10, <1>11,
     <1>12, <1>13, <1>14, <1>15, <1>16, <1>17, <1>18, <1>19, <1>20, <1>21,
     <1>22, <1>23, <1>24, <1>25, <1>26, <1>27, <1>28, <1>29, <1>30, <1>31,
     <1>32, <1>33
     DEF Next, Work, Start, Execute, Weigh, Deliver, Limits, Finish

\* A late state is entered only with the facts it rests on, and every loss of
\* those facts leaves it.
LEMMA EvidenceFitsStep ==
  ASSUME PlacesFit, EvidenceFits, [Next]_vars
  PROVE  EvidenceFits'
<1>. USE DEF PlacesFit, EvidenceFits, Stop, Move, Stay, EndTurn, Iterating,
      MayExecute, vars, loopVars, weighedVars, turn, limitVars, pressure,
      targetVars, stallVars, historyVars
<1>1. CASE BeginInspection          BY <1>1 DEF BeginInspection
<1>2. CASE InspectProject           BY <1>2 DEF InspectProject
<1>3. CASE CallProvider             BY <1>3 DEF CallProvider
<1>4. CASE GateViolation            BY <1>4 DEF GateViolation
<1>5. CASE ExecuteChange            BY <1>5 DEF ExecuteChange
<1>6. CASE ExecuteExists            BY <1>6 DEF ExecuteExists
<1>7. CASE ExecuteOther             BY <1>7 DEF ExecuteOther
<1>8. CASE TurnRejected             BY <1>8 DEF TurnRejected
<1>9. CASE TurnStalled              BY <1>9 DEF TurnStalled
<1>10. CASE TurnNoRepair            BY <1>10 DEF TurnNoRepair
<1>11. CASE TurnUnresolvedTargets   BY <1>11 DEF TurnUnresolvedTargets
<1>12. CASE TurnGateViolation       BY <1>12 DEF TurnGateViolation
<1>13. CASE TurnFileExists          BY <1>13 DEF TurnFileExists
<1>14. CASE TurnInspection          BY <1>14 DEF TurnInspection
<1>15. CASE PlanningDone            BY <1>15 DEF PlanningDone
<1>16. CASE DiagnosisDone           BY <1>16 DEF DiagnosisDone
<1>17. CASE CorrectionDone          BY <1>17 DEF CorrectionDone
<1>18. CASE EditingContinues        BY <1>18 DEF EditingContinues
<1>19. CASE EditingDone
  BY <1>19 DEF EditingDone, Prebuild, RepairableFailure
<1>20. CASE EnterEditing
  BY <1>20 DEF EnterEditing, Prebuild, RepairableFailure
<1>21. CASE BuildSucceeds           BY <1>21 DEF BuildSucceeds
<1>22. CASE BuildFails              BY <1>22 DEF BuildFails
<1>23. CASE BuildRaises             BY <1>23 DEF BuildRaises
<1>24. CASE ValidateArtifact
  BY <1>24 DEF ValidateArtifact, AfterArtifact
<1>25. CASE ValidateFunctional
  BY <1>25 DEF ValidateFunctional, RepairableFailure
<1>26. CASE Report                  BY <1>26 DEF Report
<1>27. CASE LimitStop               BY <1>27 DEF LimitStop
<1>28. CASE LimitInTurn             BY <1>28 DEF LimitInTurn
<1>29. CASE SaveRunState            BY <1>29 DEF SaveRunState
<1>30. CASE WriteReport             BY <1>30 DEF WriteReport
<1>31. CASE InternalError           BY <1>31 DEF InternalError
<1>32. CASE Crash                   BY <1>32 DEF Crash
<1>33. CASE UNCHANGED vars
  BY <1>33
<1>. QED
  BY <1>1, <1>2, <1>3, <1>4, <1>5, <1>6, <1>7, <1>8, <1>9, <1>10, <1>11,
     <1>12, <1>13, <1>14, <1>15, <1>16, <1>17, <1>18, <1>19, <1>20, <1>21,
     <1>22, <1>23, <1>24, <1>25, <1>26, <1>27, <1>28, <1>29, <1>30, <1>31,
     <1>32, <1>33
     DEF Next, Work, Start, Execute, Weigh, Deliver, Limits, Finish

\* No required file comes back once the first build was decided.
LEMMA TargetsFitStep ==
  ASSUME PlacesFit, TargetsFit, [Next]_vars
  PROVE  TargetsFit'
<1>. USE DEF PlacesFit, TargetsFit, Unresolved, Stop, Move, Stay, EndTurn,
      Iterating, MayExecute, vars, loopVars, weighedVars, turn, limitVars,
      pressure, targetVars, stallVars, historyVars
<1>1. CASE BeginInspection          BY <1>1 DEF BeginInspection
<1>2. CASE InspectProject           BY <1>2 DEF InspectProject
<1>3. CASE CallProvider             BY <1>3 DEF CallProvider
<1>4. CASE GateViolation            BY <1>4 DEF GateViolation
<1>5. CASE ExecuteChange            BY <1>5 DEF ExecuteChange
<1>6. CASE ExecuteExists            BY <1>6 DEF ExecuteExists
<1>7. CASE ExecuteOther             BY <1>7 DEF ExecuteOther
<1>8. CASE TurnRejected             BY <1>8 DEF TurnRejected
<1>9. CASE TurnStalled              BY <1>9 DEF TurnStalled
<1>10. CASE TurnNoRepair            BY <1>10 DEF TurnNoRepair
<1>11. CASE TurnUnresolvedTargets   BY <1>11 DEF TurnUnresolvedTargets
<1>12. CASE TurnGateViolation       BY <1>12 DEF TurnGateViolation
<1>13. CASE TurnFileExists          BY <1>13 DEF TurnFileExists
<1>14. CASE TurnInspection          BY <1>14 DEF TurnInspection
<1>15. CASE PlanningDone            BY <1>15 DEF PlanningDone
<1>16. CASE DiagnosisDone           BY <1>16 DEF DiagnosisDone
<1>17. CASE CorrectionDone          BY <1>17 DEF CorrectionDone
<1>18. CASE EditingContinues        BY <1>18 DEF EditingContinues
<1>19. CASE EditingDone
  BY <1>19 DEF EditingDone, Prebuild, RepairableFailure
<1>20. CASE EnterEditing
  BY <1>20 DEF EnterEditing, Prebuild, RepairableFailure
<1>21. CASE BuildSucceeds           BY <1>21 DEF BuildSucceeds
<1>22. CASE BuildFails              BY <1>22 DEF BuildFails
<1>23. CASE BuildRaises             BY <1>23 DEF BuildRaises
<1>24. CASE ValidateArtifact
  BY <1>24 DEF ValidateArtifact, AfterArtifact
<1>25. CASE ValidateFunctional
  BY <1>25 DEF ValidateFunctional, RepairableFailure
<1>26. CASE Report                  BY <1>26 DEF Report
<1>27. CASE LimitStop               BY <1>27 DEF LimitStop
<1>28. CASE LimitInTurn             BY <1>28 DEF LimitInTurn
<1>29. CASE SaveRunState            BY <1>29 DEF SaveRunState
<1>30. CASE WriteReport             BY <1>30 DEF WriteReport
<1>31. CASE InternalError           BY <1>31 DEF InternalError
<1>32. CASE Crash                   BY <1>32 DEF Crash
<1>33. CASE UNCHANGED vars
  BY <1>33
<1>. QED
  BY <1>1, <1>2, <1>3, <1>4, <1>5, <1>6, <1>7, <1>8, <1>9, <1>10, <1>11,
     <1>12, <1>13, <1>14, <1>15, <1>16, <1>17, <1>18, <1>19, <1>20, <1>21,
     <1>22, <1>23, <1>24, <1>25, <1>26, <1>27, <1>28, <1>29, <1>30, <1>31,
     <1>32, <1>33
     DEF Next, Work, Start, Execute, Weigh, Deliver, Limits, Finish

\* Rejected source keeps a repair outstanding until a file changes.
LEMMA RejectionFitsStep ==
  ASSUME ControlTypes, PlacesFit, RejectionFits, OutstandingRepairHasATurn,
         [Next]_vars
  PROVE  RejectionFits'
<1>. USE DEF RejectionFits, PlacesFit, OutstandingRepairHasATurn,
      RepairMutated, Stop, Move, Stay, EndTurn, Iterating, MayExecute, vars,
      loopVars, weighedVars, turn, limitVars, pressure, targetVars, stallVars,
      historyVars, TERMINAL_STATUSES, Lifecycle!TERMINAL_STATUSES,
      Lifecycle!NON_SUCCESS_TERMINAL_STATUSES, RunStatus, Lifecycle!RunStatus,
      Lifecycle!ACTIVE_STATUSES
<1>1. CASE BeginInspection          BY <1>1 DEF BeginInspection
<1>2. CASE InspectProject           BY <1>2 DEF InspectProject
<1>3. CASE CallProvider             BY <1>3 DEF CallProvider
<1>4. CASE GateViolation            BY <1>4 DEF GateViolation
<1>5. CASE ExecuteChange            BY <1>5 DEF ExecuteChange
<1>6. CASE ExecuteExists            BY <1>6 DEF ExecuteExists
<1>7. CASE ExecuteOther             BY <1>7 DEF ExecuteOther
<1>8. CASE TurnRejected             BY <1>8 DEF TurnRejected
<1>9. CASE TurnStalled              BY <1>9 DEF TurnStalled
<1>10. CASE TurnNoRepair            BY <1>10 DEF TurnNoRepair
<1>11. CASE TurnUnresolvedTargets   BY <1>11 DEF TurnUnresolvedTargets
<1>12. CASE TurnGateViolation       BY <1>12 DEF TurnGateViolation
<1>13. CASE TurnFileExists          BY <1>13 DEF TurnFileExists
<1>14. CASE TurnInspection          BY <1>14 DEF TurnInspection
<1>15. CASE PlanningDone            BY <1>15 DEF PlanningDone
<1>16. CASE DiagnosisDone           BY <1>16 DEF DiagnosisDone
<1>17. CASE CorrectionDone          BY <1>17 DEF CorrectionDone
<1>18. CASE EditingContinues        BY <1>18 DEF EditingContinues
<1>19. CASE EditingDone
  BY <1>19 DEF EditingDone, Prebuild, RepairableFailure
<1>20. CASE EnterEditing
  BY <1>20 DEF EnterEditing, Prebuild, RepairableFailure
<1>21. CASE BuildSucceeds           BY <1>21 DEF BuildSucceeds
<1>22. CASE BuildFails              BY <1>22 DEF BuildFails
<1>23. CASE BuildRaises             BY <1>23 DEF BuildRaises
<1>24. CASE ValidateArtifact
  BY <1>24 DEF ValidateArtifact, AfterArtifact
<1>25. CASE ValidateFunctional
  BY <1>25 DEF ValidateFunctional, RepairableFailure
<1>26. CASE Report                  BY <1>26 DEF Report
<1>27. CASE LimitStop               BY <1>27 DEF LimitStop
<1>28. CASE LimitInTurn             BY <1>28 DEF LimitInTurn
<1>29. CASE SaveRunState            BY <1>29 DEF SaveRunState
<1>30. CASE WriteReport             BY <1>30 DEF WriteReport
<1>31. CASE InternalError           BY <1>31 DEF InternalError
<1>32. CASE Crash                   BY <1>32 DEF Crash
<1>33. CASE UNCHANGED vars
  BY <1>33
<1>. QED
  BY <1>1, <1>2, <1>3, <1>4, <1>5, <1>6, <1>7, <1>8, <1>9, <1>10, <1>11,
     <1>12, <1>13, <1>14, <1>15, <1>16, <1>17, <1>18, <1>19, <1>20, <1>21,
     <1>22, <1>23, <1>24, <1>25, <1>26, <1>27, <1>28, <1>29, <1>30, <1>31,
     <1>32, <1>33
     DEF Next, Work, Start, Execute, Weigh, Deliver, Limits, Finish

\* Only a failed build leads to DIAGNOSING, and from there to a correction
\* that repairs no validation.
LEMMA DiagnosisFitsStep ==
  ASSUME PlacesFit, DiagnosisFits, RejectionFits, [Next]_vars
  PROVE  DiagnosisFits'
<1>. USE DEF DiagnosisFits, RejectionFits, PlacesFit, Stop, Move, Stay,
      EndTurn, Iterating, MayExecute, vars, loopVars, weighedVars, turn,
      limitVars, pressure, targetVars, stallVars, historyVars
<1>1. CASE BeginInspection          BY <1>1 DEF BeginInspection
<1>2. CASE InspectProject           BY <1>2 DEF InspectProject
<1>3. CASE CallProvider             BY <1>3 DEF CallProvider
<1>4. CASE GateViolation            BY <1>4 DEF GateViolation
<1>5. CASE ExecuteChange            BY <1>5 DEF ExecuteChange
<1>6. CASE ExecuteExists            BY <1>6 DEF ExecuteExists
<1>7. CASE ExecuteOther             BY <1>7 DEF ExecuteOther
<1>8. CASE TurnRejected             BY <1>8 DEF TurnRejected
<1>9. CASE TurnStalled              BY <1>9 DEF TurnStalled
<1>10. CASE TurnNoRepair            BY <1>10 DEF TurnNoRepair
<1>11. CASE TurnUnresolvedTargets   BY <1>11 DEF TurnUnresolvedTargets
<1>12. CASE TurnGateViolation       BY <1>12 DEF TurnGateViolation
<1>13. CASE TurnFileExists          BY <1>13 DEF TurnFileExists
<1>14. CASE TurnInspection          BY <1>14 DEF TurnInspection
<1>15. CASE PlanningDone            BY <1>15 DEF PlanningDone
<1>16. CASE DiagnosisDone           BY <1>16 DEF DiagnosisDone
<1>17. CASE CorrectionDone          BY <1>17 DEF CorrectionDone
<1>18. CASE EditingContinues        BY <1>18 DEF EditingContinues
<1>19. CASE EditingDone
  BY <1>19 DEF EditingDone, Prebuild, RepairableFailure
<1>20. CASE EnterEditing
  BY <1>20 DEF EnterEditing, Prebuild, RepairableFailure
<1>21. CASE BuildSucceeds           BY <1>21 DEF BuildSucceeds
<1>22. CASE BuildFails
  BY <1>22, DomainAssumption DEF BuildFails, None
<1>23. CASE BuildRaises             BY <1>23 DEF BuildRaises
<1>24. CASE ValidateArtifact
  BY <1>24 DEF ValidateArtifact, AfterArtifact
<1>25. CASE ValidateFunctional
  BY <1>25 DEF ValidateFunctional, RepairableFailure
<1>26. CASE Report                  BY <1>26 DEF Report
<1>27. CASE LimitStop               BY <1>27 DEF LimitStop
<1>28. CASE LimitInTurn             BY <1>28 DEF LimitInTurn
<1>29. CASE SaveRunState            BY <1>29 DEF SaveRunState
<1>30. CASE WriteReport             BY <1>30 DEF WriteReport
<1>31. CASE InternalError           BY <1>31 DEF InternalError
<1>32. CASE Crash                   BY <1>32 DEF Crash
<1>33. CASE UNCHANGED vars
  BY <1>33
<1>. QED
  BY <1>1, <1>2, <1>3, <1>4, <1>5, <1>6, <1>7, <1>8, <1>9, <1>10, <1>11,
     <1>12, <1>13, <1>14, <1>15, <1>16, <1>17, <1>18, <1>19, <1>20, <1>21,
     <1>22, <1>23, <1>24, <1>25, <1>26, <1>27, <1>28, <1>29, <1>30, <1>31,
     <1>32, <1>33
     DEF Next, Work, Start, Execute, Weigh, Deliver, Limits, Finish

\* Recording a failure names the attempt that the next feedback is about: a
\* new failure replaces the attempt, a repeated one keeps it.
LEMMA RepairableFailureMark ==
  ASSUME MarkFits, NEW s, s # None, RepairableFailure(s)
  PROVE  MarkFits'
<1>. DEFINE repeat == IF s = valSig THEN valRepeat + 1 ELSE 0
<1>1. valSig' = s
  BY DEF RepairableFailure
<1>2. CASE s = valSig
  <2>1. repairSig = s
    BY <1>2 DEF MarkFits
  <2>2. repairSig' \in {s, repairSig}
    BY DEF RepairableFailure
  <2>. QED
    BY <1>1, <2>1, <2>2 DEF MarkFits
<1>3. CASE s # valSig
  <2>1. repeat = 0
    BY <1>3
  <2>2. repairSig' = s /\ ineffective' = FALSE
    BY <2>1 DEF RepairableFailure, FinalRepeat
  <2>. QED
    BY <1>1, <2>2 DEF MarkFits
<1>. QED
  BY <1>2, <1>3

\* So do all three outcomes of the pre-build validation.
LEMMA PrebuildMark ==
  ASSUME MarkFits, NEW i, NEW g, NEW r, Prebuild(i, g, r)
  PROVE  MarkFits'
<1>1. CASE ResetStall               BY <1>1 DEF ResetStall, MarkFits
<1>2. CASE UNCHANGED <<valSig, ineffective, repairSig>>
  BY <1>2 DEF MarkFits
<1>3. ASSUME NEW s \in PreSignatures, RepairableFailure(s)
      PROVE  MarkFits'
  <2>1. s # None
    BY DomainAssumption DEF None
  <2>. QED
    BY <1>3, <2>1, RepairableFailureMark
<1>. QED
  BY <1>1, <1>2, <1>3 DEF Prebuild, stallVars

\* The remembered failure and the remembered attempt stay the same one.
LEMMA MarkFitsStep ==
  ASSUME MarkFits, [Next]_vars
  PROVE  MarkFits'
<1>. USE DEF MarkFits, ResetStall, Stop, Move, Stay, EndTurn, Iterating,
      MayExecute, vars, loopVars, weighedVars, turn, limitVars, pressure,
      targetVars, stallVars, historyVars
<1>1. CASE BeginInspection          BY <1>1 DEF BeginInspection
<1>2. CASE InspectProject           BY <1>2 DEF InspectProject
<1>3. CASE CallProvider             BY <1>3 DEF CallProvider
<1>4. CASE GateViolation            BY <1>4 DEF GateViolation
<1>5. CASE ExecuteChange            BY <1>5 DEF ExecuteChange
<1>6. CASE ExecuteExists            BY <1>6 DEF ExecuteExists
<1>7. CASE ExecuteOther             BY <1>7 DEF ExecuteOther
<1>8. CASE TurnRejected             BY <1>8 DEF TurnRejected
<1>9. CASE TurnStalled              BY <1>9 DEF TurnStalled
<1>10. CASE TurnNoRepair            BY <1>10 DEF TurnNoRepair
<1>11. CASE TurnUnresolvedTargets   BY <1>11 DEF TurnUnresolvedTargets
<1>12. CASE TurnGateViolation       BY <1>12 DEF TurnGateViolation
<1>13. CASE TurnFileExists          BY <1>13 DEF TurnFileExists
<1>14. CASE TurnInspection          BY <1>14 DEF TurnInspection
<1>15. CASE PlanningDone            BY <1>15 DEF PlanningDone
<1>16. CASE DiagnosisDone           BY <1>16 DEF DiagnosisDone
<1>17. CASE CorrectionDone          BY <1>17 DEF CorrectionDone
<1>18. CASE EditingContinues        BY <1>18 DEF EditingContinues
<1>19. CASE EditingDone             BY <1>19, PrebuildMark DEF EditingDone
<1>20. CASE EnterEditing
  <2>1. UNCHANGED stallVars \/ Prebuild(insp, gateViol, recov)
    BY <1>20 DEF EnterEditing
  <2>. QED
    BY <2>1, PrebuildMark
<1>21. CASE BuildSucceeds           BY <1>21 DEF BuildSucceeds
<1>22. CASE BuildFails              BY <1>22 DEF BuildFails
<1>23. CASE BuildRaises             BY <1>23 DEF BuildRaises
<1>24. CASE ValidateArtifact        BY <1>24 DEF ValidateArtifact
<1>25. CASE ValidateFunctional
  <2>1. CASE ResetStall
    BY <2>1
  <2>2. CASE UNCHANGED stallVars
    BY <2>2
  <2>3. ASSUME NEW s \in FuncSignatures, RepairableFailure(s)
        PROVE  MarkFits'
    <3>1. s # None
      BY DomainAssumption DEF None
    <3>. QED
      BY <2>3, <3>1, RepairableFailureMark
  <2>. QED
    BY <1>25, <2>1, <2>2, <2>3 DEF ValidateFunctional
<1>26. CASE Report                  BY <1>26 DEF Report
<1>27. CASE LimitStop               BY <1>27 DEF LimitStop
<1>28. CASE LimitInTurn             BY <1>28 DEF LimitInTurn
<1>29. CASE SaveRunState            BY <1>29 DEF SaveRunState
<1>30. CASE WriteReport             BY <1>30 DEF WriteReport
<1>31. CASE InternalError           BY <1>31 DEF InternalError
<1>32. CASE Crash                   BY <1>32 DEF Crash
<1>33. CASE UNCHANGED vars
  BY <1>33
<1>. QED
  BY <1>1, <1>2, <1>3, <1>4, <1>5, <1>6, <1>7, <1>8, <1>9, <1>10, <1>11,
     <1>12, <1>13, <1>14, <1>15, <1>16, <1>17, <1>18, <1>19, <1>20, <1>21,
     <1>22, <1>23, <1>24, <1>25, <1>26, <1>27, <1>28, <1>29, <1>30, <1>31,
     <1>32, <1>33
     DEF Next, Work, Start, Execute, Weigh, Deliver, Limits, Finish

\* After run.json is saved by _finish nothing moves the run.
LEMMA SavedStateFitsStep ==
  ASSUME SavedStateFits, [Next]_vars
  PROVE  SavedStateFits'
<1>. USE DEF SavedStateFits, Active, Stop, Move, Stay, EndTurn, Iterating,
      MayExecute, vars, loopVars, weighedVars, turn, limitVars, pressure,
      targetVars, stallVars, historyVars
<1>1. CASE BeginInspection          BY <1>1 DEF BeginInspection
<1>2. CASE InspectProject           BY <1>2 DEF InspectProject
<1>3. CASE CallProvider             BY <1>3 DEF CallProvider
<1>4. CASE GateViolation            BY <1>4 DEF GateViolation
<1>5. CASE ExecuteChange            BY <1>5 DEF ExecuteChange
<1>6. CASE ExecuteExists            BY <1>6 DEF ExecuteExists
<1>7. CASE ExecuteOther             BY <1>7 DEF ExecuteOther
<1>8. CASE TurnRejected             BY <1>8 DEF TurnRejected
<1>9. CASE TurnStalled              BY <1>9 DEF TurnStalled
<1>10. CASE TurnNoRepair            BY <1>10 DEF TurnNoRepair
<1>11. CASE TurnUnresolvedTargets   BY <1>11 DEF TurnUnresolvedTargets
<1>12. CASE TurnGateViolation       BY <1>12 DEF TurnGateViolation
<1>13. CASE TurnFileExists          BY <1>13 DEF TurnFileExists
<1>14. CASE TurnInspection          BY <1>14 DEF TurnInspection
<1>15. CASE PlanningDone            BY <1>15 DEF PlanningDone
<1>16. CASE DiagnosisDone           BY <1>16 DEF DiagnosisDone
<1>17. CASE CorrectionDone          BY <1>17 DEF CorrectionDone
<1>18. CASE EditingContinues        BY <1>18 DEF EditingContinues
<1>19. CASE EditingDone
  BY <1>19 DEF EditingDone, Prebuild, RepairableFailure
<1>20. CASE EnterEditing
  BY <1>20 DEF EnterEditing, Prebuild, RepairableFailure
<1>21. CASE BuildSucceeds           BY <1>21 DEF BuildSucceeds
<1>22. CASE BuildFails              BY <1>22 DEF BuildFails
<1>23. CASE BuildRaises             BY <1>23 DEF BuildRaises
<1>24. CASE ValidateArtifact
  BY <1>24 DEF ValidateArtifact, AfterArtifact
<1>25. CASE ValidateFunctional
  BY <1>25 DEF ValidateFunctional, RepairableFailure
<1>26. CASE Report                  BY <1>26 DEF Report
<1>27. CASE LimitStop               BY <1>27 DEF LimitStop
<1>28. CASE LimitInTurn             BY <1>28 DEF LimitInTurn
<1>29. CASE SaveRunState            BY <1>29 DEF SaveRunState
<1>30. CASE WriteReport             BY <1>30 DEF WriteReport
<1>31. CASE InternalError           BY <1>31 DEF InternalError
<1>32. CASE Crash                   BY <1>32 DEF Crash
<1>33. CASE UNCHANGED vars
  BY <1>33
<1>. QED
  BY <1>1, <1>2, <1>3, <1>4, <1>5, <1>6, <1>7, <1>8, <1>9, <1>10, <1>11,
     <1>12, <1>13, <1>14, <1>15, <1>16, <1>17, <1>18, <1>19, <1>20, <1>21,
     <1>22, <1>23, <1>24, <1>25, <1>26, <1>27, <1>28, <1>29, <1>30, <1>31,
     <1>32, <1>33
     DEF Next, Work, Start, Execute, Weigh, Deliver, Limits, Finish

\* BUILDING is entered with a pre-build pass or after a failed build.
LEMMA PrebuildBypassStep ==
  ASSUME PlacesFit, DiagnosisFits, PrebuildBypassFollowsFailedBuild,
         [Next]_vars
  PROVE  PrebuildBypassFollowsFailedBuild'
<1>. USE DEF PrebuildBypassFollowsFailedBuild, PlacesFit, DiagnosisFits, Stop,
      Move, Stay, EndTurn, Iterating, MayExecute, vars, loopVars, weighedVars,
      turn, limitVars, pressure, targetVars, stallVars, historyVars
<1>1. CASE BeginInspection          BY <1>1 DEF BeginInspection
<1>2. CASE InspectProject           BY <1>2 DEF InspectProject
<1>3. CASE CallProvider             BY <1>3 DEF CallProvider
<1>4. CASE GateViolation            BY <1>4 DEF GateViolation
<1>5. CASE ExecuteChange            BY <1>5 DEF ExecuteChange
<1>6. CASE ExecuteExists            BY <1>6 DEF ExecuteExists
<1>7. CASE ExecuteOther             BY <1>7 DEF ExecuteOther
<1>8. CASE TurnRejected             BY <1>8 DEF TurnRejected
<1>9. CASE TurnStalled              BY <1>9 DEF TurnStalled
<1>10. CASE TurnNoRepair            BY <1>10 DEF TurnNoRepair
<1>11. CASE TurnUnresolvedTargets   BY <1>11 DEF TurnUnresolvedTargets
<1>12. CASE TurnGateViolation       BY <1>12 DEF TurnGateViolation
<1>13. CASE TurnFileExists          BY <1>13 DEF TurnFileExists
<1>14. CASE TurnInspection          BY <1>14 DEF TurnInspection
<1>15. CASE PlanningDone            BY <1>15 DEF PlanningDone
<1>16. CASE DiagnosisDone           BY <1>16 DEF DiagnosisDone
<1>17. CASE CorrectionDone          BY <1>17 DEF CorrectionDone
<1>18. CASE EditingContinues        BY <1>18 DEF EditingContinues
<1>19. CASE EditingDone
  BY <1>19 DEF EditingDone, Prebuild, RepairableFailure
<1>20. CASE EnterEditing
  BY <1>20 DEF EnterEditing, Prebuild, RepairableFailure
<1>21. CASE BuildSucceeds           BY <1>21 DEF BuildSucceeds
<1>22. CASE BuildFails              BY <1>22 DEF BuildFails
<1>23. CASE BuildRaises             BY <1>23 DEF BuildRaises
<1>24. CASE ValidateArtifact
  BY <1>24 DEF ValidateArtifact, AfterArtifact
<1>25. CASE ValidateFunctional
  BY <1>25 DEF ValidateFunctional, RepairableFailure
<1>26. CASE Report                  BY <1>26 DEF Report
<1>27. CASE LimitStop               BY <1>27 DEF LimitStop
<1>28. CASE LimitInTurn             BY <1>28 DEF LimitInTurn
<1>29. CASE SaveRunState            BY <1>29 DEF SaveRunState
<1>30. CASE WriteReport             BY <1>30 DEF WriteReport
<1>31. CASE InternalError           BY <1>31 DEF InternalError
<1>32. CASE Crash                   BY <1>32 DEF Crash
<1>33. CASE UNCHANGED vars
  BY <1>33
<1>. QED
  BY <1>1, <1>2, <1>3, <1>4, <1>5, <1>6, <1>7, <1>8, <1>9, <1>10, <1>11,
     <1>12, <1>13, <1>14, <1>15, <1>16, <1>17, <1>18, <1>19, <1>20, <1>21,
     <1>22, <1>23, <1>24, <1>25, <1>26, <1>27, <1>28, <1>29, <1>30, <1>31,
     <1>32, <1>33
     DEF Next, Work, Start, Execute, Weigh, Deliver, Limits, Finish

\* EDITING holds an outstanding repair only with a turn due.
LEMMA OutstandingRepairStep ==
  ASSUME PlacesFit, RejectionFits, OutstandingRepairHasATurn, [Next]_vars
  PROVE  OutstandingRepairHasATurn'
<1>. USE DEF OutstandingRepairHasATurn, RejectionFits, PlacesFit, AskAgain,
      ContinueEditing, Stop, Move, Stay, EndTurn, Iterating, MayExecute, vars,
      loopVars, weighedVars, turn, limitVars, pressure, targetVars, stallVars,
      historyVars, TERMINAL_STATUSES, Lifecycle!TERMINAL_STATUSES,
      Lifecycle!NON_SUCCESS_TERMINAL_STATUSES, RunStatus, Lifecycle!RunStatus,
      Lifecycle!ACTIVE_STATUSES
<1>1. CASE BeginInspection          BY <1>1 DEF BeginInspection
<1>2. CASE InspectProject           BY <1>2 DEF InspectProject
<1>3. CASE CallProvider             BY <1>3 DEF CallProvider
<1>4. CASE GateViolation            BY <1>4 DEF GateViolation
<1>5. CASE ExecuteChange            BY <1>5 DEF ExecuteChange
<1>6. CASE ExecuteExists            BY <1>6 DEF ExecuteExists
<1>7. CASE ExecuteOther             BY <1>7 DEF ExecuteOther
<1>8. CASE TurnRejected             BY <1>8 DEF TurnRejected
<1>9. CASE TurnStalled              BY <1>9 DEF TurnStalled
<1>10. CASE TurnNoRepair            BY <1>10 DEF TurnNoRepair
<1>11. CASE TurnUnresolvedTargets   BY <1>11 DEF TurnUnresolvedTargets, Verdict
<1>12. CASE TurnGateViolation       BY <1>12 DEF TurnGateViolation
<1>13. CASE TurnFileExists          BY <1>13 DEF TurnFileExists
<1>14. CASE TurnInspection          BY <1>14 DEF TurnInspection, Verdict
<1>15. CASE PlanningDone            BY <1>15 DEF PlanningDone
<1>16. CASE DiagnosisDone           BY <1>16 DEF DiagnosisDone
<1>17. CASE CorrectionDone          BY <1>17 DEF CorrectionDone
<1>18. CASE EditingContinues        BY <1>18 DEF EditingContinues
<1>19. CASE EditingDone
  BY <1>19 DEF EditingDone, Prebuild, RepairableFailure
<1>20. CASE EnterEditing
  BY <1>20 DEF EnterEditing, Prebuild, RepairableFailure
<1>21. CASE BuildSucceeds           BY <1>21 DEF BuildSucceeds
<1>22. CASE BuildFails              BY <1>22 DEF BuildFails
<1>23. CASE BuildRaises             BY <1>23 DEF BuildRaises
<1>24. CASE ValidateArtifact
  BY <1>24 DEF ValidateArtifact, AfterArtifact
<1>25. CASE ValidateFunctional
  BY <1>25 DEF ValidateFunctional, RepairableFailure
<1>26. CASE Report                  BY <1>26 DEF Report
<1>27. CASE LimitStop               BY <1>27 DEF LimitStop
<1>28. CASE LimitInTurn             BY <1>28 DEF LimitInTurn
<1>29. CASE SaveRunState            BY <1>29 DEF SaveRunState
<1>30. CASE WriteReport             BY <1>30 DEF WriteReport
<1>31. CASE InternalError           BY <1>31 DEF InternalError
<1>32. CASE Crash                   BY <1>32 DEF Crash
<1>33. CASE UNCHANGED vars
  BY <1>33
<1>. QED
  BY <1>1, <1>2, <1>3, <1>4, <1>5, <1>6, <1>7, <1>8, <1>9, <1>10, <1>11,
     <1>12, <1>13, <1>14, <1>15, <1>16, <1>17, <1>18, <1>19, <1>20, <1>21,
     <1>22, <1>23, <1>24, <1>25, <1>26, <1>27, <1>28, <1>29, <1>30, <1>31,
     <1>32, <1>33
     DEF Next, Work, Start, Execute, Weigh, Deliver, Limits, Finish

\* A terminal state reaches run.json only from _finish or from the handler
\* that ends the run, and the report only after run.json.
LEMMA ReportAgreesStep ==
  ASSUME PlacesFit, SavedStateFits, ReportAgreesWithRunState, [Next]_vars
  PROVE  ReportAgreesWithRunState'
<1>. USE DEF ReportAgreesWithRunState, SavedStateFits, PlacesFit, Persist,
      Active, Stop, Move, Stay, EndTurn, Iterating, MayExecute, vars,
      loopVars, weighedVars, turn, limitVars, pressure, targetVars, stallVars,
      historyVars, TERMINAL_STATUSES, Lifecycle!TERMINAL_STATUSES,
      Lifecycle!NON_SUCCESS_TERMINAL_STATUSES, RunStatus, Lifecycle!RunStatus,
      Lifecycle!ACTIVE_STATUSES
<1>1. CASE BeginInspection          BY <1>1 DEF BeginInspection
<1>2. CASE InspectProject           BY <1>2 DEF InspectProject
<1>3. CASE CallProvider             BY <1>3 DEF CallProvider
<1>4. CASE GateViolation            BY <1>4 DEF GateViolation
<1>5. CASE ExecuteChange            BY <1>5 DEF ExecuteChange
<1>6. CASE ExecuteExists            BY <1>6 DEF ExecuteExists
<1>7. CASE ExecuteOther             BY <1>7 DEF ExecuteOther
<1>8. CASE TurnRejected             BY <1>8 DEF TurnRejected
<1>9. CASE TurnStalled              BY <1>9 DEF TurnStalled
<1>10. CASE TurnNoRepair            BY <1>10 DEF TurnNoRepair
<1>11. CASE TurnUnresolvedTargets   BY <1>11 DEF TurnUnresolvedTargets
<1>12. CASE TurnGateViolation       BY <1>12 DEF TurnGateViolation
<1>13. CASE TurnFileExists          BY <1>13 DEF TurnFileExists
<1>14. CASE TurnInspection          BY <1>14 DEF TurnInspection
<1>15. CASE PlanningDone            BY <1>15 DEF PlanningDone
<1>16. CASE DiagnosisDone           BY <1>16 DEF DiagnosisDone
<1>17. CASE CorrectionDone          BY <1>17 DEF CorrectionDone
<1>18. CASE EditingContinues        BY <1>18 DEF EditingContinues
<1>19. CASE EditingDone
  BY <1>19 DEF EditingDone, Prebuild, RepairableFailure
<1>20. CASE EnterEditing
  BY <1>20 DEF EnterEditing, Prebuild, RepairableFailure
<1>21. CASE BuildSucceeds           BY <1>21 DEF BuildSucceeds
<1>22. CASE BuildFails              BY <1>22 DEF BuildFails
<1>23. CASE BuildRaises             BY <1>23 DEF BuildRaises
<1>24. CASE ValidateArtifact
  BY <1>24 DEF ValidateArtifact, AfterArtifact
<1>25. CASE ValidateFunctional
  BY <1>25 DEF ValidateFunctional, RepairableFailure
<1>26. CASE Report                  BY <1>26 DEF Report
<1>27. CASE LimitStop               BY <1>27 DEF LimitStop
<1>28. CASE LimitInTurn             BY <1>28 DEF LimitInTurn
<1>29. CASE SaveRunState            BY <1>29 DEF SaveRunState
<1>30. CASE WriteReport             BY <1>30 DEF WriteReport
<1>31. CASE InternalError           BY <1>31 DEF InternalError
<1>32. CASE Crash                   BY <1>32 DEF Crash
<1>33. CASE UNCHANGED vars
  BY <1>33
<1>. QED
  BY <1>1, <1>2, <1>3, <1>4, <1>5, <1>6, <1>7, <1>8, <1>9, <1>10, <1>11,
     <1>12, <1>13, <1>14, <1>15, <1>16, <1>17, <1>18, <1>19, <1>20, <1>21,
     <1>22, <1>23, <1>24, <1>25, <1>26, <1>27, <1>28, <1>29, <1>30, <1>31,
     <1>32, <1>33
     DEF Next, Work, Start, Execute, Weigh, Deliver, Limits, Finish

\* A request for another turn is made in EDITING and spent by the turn.
LEMMA ContinuationFitsStep ==
  ASSUME PlacesFit, ContinuationFits, [Next]_vars
  PROVE  ContinuationFits'
<1>. USE DEF ContinuationFits, PlacesFit, Active, AskAgain, ContinueEditing,
      Stop, Move, Stay, EndTurn, Iterating, MayExecute, vars, loopVars,
      weighedVars, turn, limitVars, pressure, targetVars, stallVars,
      historyVars, TERMINAL_STATUSES, Lifecycle!TERMINAL_STATUSES,
      Lifecycle!NON_SUCCESS_TERMINAL_STATUSES, RunStatus, Lifecycle!RunStatus,
      Lifecycle!ACTIVE_STATUSES
<1>1. CASE BeginInspection          BY <1>1 DEF BeginInspection
<1>2. CASE InspectProject           BY <1>2 DEF InspectProject
<1>3. CASE CallProvider             BY <1>3 DEF CallProvider
<1>4. CASE GateViolation            BY <1>4 DEF GateViolation
<1>5. CASE ExecuteChange            BY <1>5 DEF ExecuteChange
<1>6. CASE ExecuteExists            BY <1>6 DEF ExecuteExists
<1>7. CASE ExecuteOther             BY <1>7 DEF ExecuteOther
<1>8. CASE TurnRejected             BY <1>8 DEF TurnRejected
<1>9. CASE TurnStalled              BY <1>9 DEF TurnStalled
<1>10. CASE TurnNoRepair            BY <1>10 DEF TurnNoRepair
<1>11. CASE TurnUnresolvedTargets   BY <1>11 DEF TurnUnresolvedTargets
<1>12. CASE TurnGateViolation       BY <1>12 DEF TurnGateViolation
<1>13. CASE TurnFileExists          BY <1>13 DEF TurnFileExists
<1>14. CASE TurnInspection          BY <1>14 DEF TurnInspection
<1>15. CASE PlanningDone            BY <1>15 DEF PlanningDone, Unresolved
<1>16. CASE DiagnosisDone           BY <1>16 DEF DiagnosisDone
<1>17. CASE CorrectionDone          BY <1>17 DEF CorrectionDone
<1>18. CASE EditingContinues        BY <1>18 DEF EditingContinues
<1>19. CASE EditingDone
  BY <1>19 DEF EditingDone, Prebuild, RepairableFailure
<1>20. CASE EnterEditing
  BY <1>20 DEF EnterEditing, Prebuild, RepairableFailure
<1>21. CASE BuildSucceeds           BY <1>21 DEF BuildSucceeds
<1>22. CASE BuildFails              BY <1>22 DEF BuildFails
<1>23. CASE BuildRaises             BY <1>23 DEF BuildRaises
<1>24. CASE ValidateArtifact
  BY <1>24 DEF ValidateArtifact, AfterArtifact
<1>25. CASE ValidateFunctional
  BY <1>25 DEF ValidateFunctional, RepairableFailure
<1>26. CASE Report                  BY <1>26 DEF Report
<1>27. CASE LimitStop               BY <1>27 DEF LimitStop
<1>28. CASE LimitInTurn             BY <1>28 DEF LimitInTurn
<1>29. CASE SaveRunState            BY <1>29 DEF SaveRunState
<1>30. CASE WriteReport             BY <1>30 DEF WriteReport
<1>31. CASE InternalError           BY <1>31 DEF InternalError
<1>32. CASE Crash                   BY <1>32 DEF Crash
<1>33. CASE UNCHANGED vars
  BY <1>33
<1>. QED
  BY <1>1, <1>2, <1>3, <1>4, <1>5, <1>6, <1>7, <1>8, <1>9, <1>10, <1>11,
     <1>12, <1>13, <1>14, <1>15, <1>16, <1>17, <1>18, <1>19, <1>20, <1>21,
     <1>22, <1>23, <1>24, <1>25, <1>26, <1>27, <1>28, <1>29, <1>30, <1>31,
     <1>32, <1>33
     DEF Next, Work, Start, Execute, Weigh, Deliver, Limits, Finish

\* A stalled turn is stalled by gate violations or by a repair that did not
\* change anything, never by exploring.
LEMMA NeverStalledStep ==
  ASSUME TypeOK, StreaksBelowLimits, reason # EXPLORATION_STALLED, [Next]_vars
  PROVE  (reason # EXPLORATION_STALLED)'
<1>. USE DEF Stop, Move, Stay, vars, loopVars, weighedVars, turn, limitVars,
      pressure, targetVars, stallVars, historyVars
<1>1. CASE BeginInspection
  BY <1>1
     DEF BeginInspection, TOOL_REJECTED, REPEATED_RECOVERABLE,
         REPEATED_BUILD_FAILURE, DIAGNOSIS_NO_CORRECTION, REPEATED_SEMANTIC,
         REPEATED_NO_OP, EXPLORATION_STALLED, PENDING_BLOCK_BUILD,
         REPAIR_NO_MUTATION, REPEATED_UNRESOLVED, REPEATED_GATE
<1>2. CASE InspectProject
  BY <1>2
     DEF InspectProject, TOOL_REJECTED, REPEATED_RECOVERABLE,
         REPEATED_BUILD_FAILURE, DIAGNOSIS_NO_CORRECTION, REPEATED_SEMANTIC,
         REPEATED_NO_OP, EXPLORATION_STALLED, PENDING_BLOCK_BUILD,
         REPAIR_NO_MUTATION, REPEATED_UNRESOLVED, REPEATED_GATE
<1>3. CASE CallProvider
  BY <1>3
     DEF CallProvider, TOOL_REJECTED, REPEATED_RECOVERABLE,
         REPEATED_BUILD_FAILURE, DIAGNOSIS_NO_CORRECTION, REPEATED_SEMANTIC,
         REPEATED_NO_OP, EXPLORATION_STALLED, PENDING_BLOCK_BUILD,
         REPAIR_NO_MUTATION, REPEATED_UNRESOLVED, REPEATED_GATE
<1>4. CASE GateViolation
  BY <1>4
     DEF GateViolation, TOOL_REJECTED, REPEATED_RECOVERABLE,
         REPEATED_BUILD_FAILURE, DIAGNOSIS_NO_CORRECTION, REPEATED_SEMANTIC,
         REPEATED_NO_OP, EXPLORATION_STALLED, PENDING_BLOCK_BUILD,
         REPAIR_NO_MUTATION, REPEATED_UNRESOLVED, REPEATED_GATE
<1>5. CASE ExecuteChange
  BY <1>5
     DEF ExecuteChange, TOOL_REJECTED, REPEATED_RECOVERABLE,
         REPEATED_BUILD_FAILURE, DIAGNOSIS_NO_CORRECTION, REPEATED_SEMANTIC,
         REPEATED_NO_OP, EXPLORATION_STALLED, PENDING_BLOCK_BUILD,
         REPAIR_NO_MUTATION, REPEATED_UNRESOLVED, REPEATED_GATE
<1>6. CASE ExecuteExists
  BY <1>6
     DEF ExecuteExists, TOOL_REJECTED, REPEATED_RECOVERABLE,
         REPEATED_BUILD_FAILURE, DIAGNOSIS_NO_CORRECTION, REPEATED_SEMANTIC,
         REPEATED_NO_OP, EXPLORATION_STALLED, PENDING_BLOCK_BUILD,
         REPAIR_NO_MUTATION, REPEATED_UNRESOLVED, REPEATED_GATE
<1>7. CASE ExecuteOther
  BY <1>7
     DEF ExecuteOther, TOOL_REJECTED, REPEATED_RECOVERABLE,
         REPEATED_BUILD_FAILURE, DIAGNOSIS_NO_CORRECTION, REPEATED_SEMANTIC,
         REPEATED_NO_OP, EXPLORATION_STALLED, PENDING_BLOCK_BUILD,
         REPAIR_NO_MUTATION, REPEATED_UNRESOLVED, REPEATED_GATE
<1>8. CASE TurnRejected
  BY <1>8
     DEF TurnRejected, TOOL_REJECTED, REPEATED_RECOVERABLE,
         REPEATED_BUILD_FAILURE, DIAGNOSIS_NO_CORRECTION, REPEATED_SEMANTIC,
         REPEATED_NO_OP, EXPLORATION_STALLED, PENDING_BLOCK_BUILD,
         REPAIR_NO_MUTATION, REPEATED_UNRESOLVED, REPEATED_GATE
<1>9. CASE TurnStalled
  <2>1. pc = "tools" /\ Verdict = "stalled"
    BY <1>9 DEF TurnStalled, EndTurn
  <2>2. ~(InspAfter >= StallStep)
    BY <2>1, WeighedStreaks, StepsAssumption
  <2>3. GateAfter >= 2
    BY <2>1, <2>2 DEF Verdict
  <2>. QED
    BY <1>9, <2>3 DEF TurnStalled, REPEATED_GATE, EXPLORATION_STALLED
<1>10. CASE TurnNoRepair
  BY <1>10
     DEF TurnNoRepair, TOOL_REJECTED, REPEATED_RECOVERABLE,
         REPEATED_BUILD_FAILURE, DIAGNOSIS_NO_CORRECTION, REPEATED_SEMANTIC,
         REPEATED_NO_OP, EXPLORATION_STALLED, PENDING_BLOCK_BUILD,
         REPAIR_NO_MUTATION, REPEATED_UNRESOLVED, REPEATED_GATE
<1>11. CASE TurnUnresolvedTargets
  BY <1>11
     DEF TurnUnresolvedTargets, TOOL_REJECTED, REPEATED_RECOVERABLE,
         REPEATED_BUILD_FAILURE, DIAGNOSIS_NO_CORRECTION, REPEATED_SEMANTIC,
         REPEATED_NO_OP, EXPLORATION_STALLED, PENDING_BLOCK_BUILD,
         REPAIR_NO_MUTATION, REPEATED_UNRESOLVED, REPEATED_GATE
<1>12. CASE TurnGateViolation
  BY <1>12
     DEF TurnGateViolation, TOOL_REJECTED, REPEATED_RECOVERABLE,
         REPEATED_BUILD_FAILURE, DIAGNOSIS_NO_CORRECTION, REPEATED_SEMANTIC,
         REPEATED_NO_OP, EXPLORATION_STALLED, PENDING_BLOCK_BUILD,
         REPAIR_NO_MUTATION, REPEATED_UNRESOLVED, REPEATED_GATE
<1>13. CASE TurnFileExists
  BY <1>13
     DEF TurnFileExists, TOOL_REJECTED, REPEATED_RECOVERABLE,
         REPEATED_BUILD_FAILURE, DIAGNOSIS_NO_CORRECTION, REPEATED_SEMANTIC,
         REPEATED_NO_OP, EXPLORATION_STALLED, PENDING_BLOCK_BUILD,
         REPAIR_NO_MUTATION, REPEATED_UNRESOLVED, REPEATED_GATE
<1>14. CASE TurnInspection
  BY <1>14
     DEF TurnInspection, TOOL_REJECTED, REPEATED_RECOVERABLE,
         REPEATED_BUILD_FAILURE, DIAGNOSIS_NO_CORRECTION, REPEATED_SEMANTIC,
         REPEATED_NO_OP, EXPLORATION_STALLED, PENDING_BLOCK_BUILD,
         REPAIR_NO_MUTATION, REPEATED_UNRESOLVED, REPEATED_GATE
<1>15. CASE PlanningDone
  BY <1>15
     DEF PlanningDone, TOOL_REJECTED, REPEATED_RECOVERABLE,
         REPEATED_BUILD_FAILURE, DIAGNOSIS_NO_CORRECTION, REPEATED_SEMANTIC,
         REPEATED_NO_OP, EXPLORATION_STALLED, PENDING_BLOCK_BUILD,
         REPAIR_NO_MUTATION, REPEATED_UNRESOLVED, REPEATED_GATE
<1>16. CASE DiagnosisDone
  BY <1>16
     DEF DiagnosisDone, TOOL_REJECTED, REPEATED_RECOVERABLE,
         REPEATED_BUILD_FAILURE, DIAGNOSIS_NO_CORRECTION, REPEATED_SEMANTIC,
         REPEATED_NO_OP, EXPLORATION_STALLED, PENDING_BLOCK_BUILD,
         REPAIR_NO_MUTATION, REPEATED_UNRESOLVED, REPEATED_GATE
<1>17. CASE CorrectionDone
  BY <1>17
     DEF CorrectionDone, TOOL_REJECTED, REPEATED_RECOVERABLE,
         REPEATED_BUILD_FAILURE, DIAGNOSIS_NO_CORRECTION, REPEATED_SEMANTIC,
         REPEATED_NO_OP, EXPLORATION_STALLED, PENDING_BLOCK_BUILD,
         REPAIR_NO_MUTATION, REPEATED_UNRESOLVED, REPEATED_GATE
<1>18. CASE EditingContinues
  BY <1>18
     DEF EditingContinues, TOOL_REJECTED, REPEATED_RECOVERABLE,
         REPEATED_BUILD_FAILURE, DIAGNOSIS_NO_CORRECTION, REPEATED_SEMANTIC,
         REPEATED_NO_OP, EXPLORATION_STALLED, PENDING_BLOCK_BUILD,
         REPAIR_NO_MUTATION, REPEATED_UNRESOLVED, REPEATED_GATE
<1>19. CASE EditingDone
  BY <1>19
     DEF EditingDone, Prebuild, RepairableFailure, REPEATED_SEMANTIC,
         EXPLORATION_STALLED
<1>20. CASE EnterEditing
  BY <1>20
     DEF EnterEditing, Prebuild, RepairableFailure, REPEATED_SEMANTIC,
         EXPLORATION_STALLED
<1>21. CASE BuildSucceeds
  BY <1>21
     DEF BuildSucceeds, TOOL_REJECTED, REPEATED_RECOVERABLE,
         REPEATED_BUILD_FAILURE, DIAGNOSIS_NO_CORRECTION, REPEATED_SEMANTIC,
         REPEATED_NO_OP, EXPLORATION_STALLED, PENDING_BLOCK_BUILD,
         REPAIR_NO_MUTATION, REPEATED_UNRESOLVED, REPEATED_GATE
<1>22. CASE BuildFails
  BY <1>22
     DEF BuildFails, TOOL_REJECTED, REPEATED_RECOVERABLE,
         REPEATED_BUILD_FAILURE, DIAGNOSIS_NO_CORRECTION, REPEATED_SEMANTIC,
         REPEATED_NO_OP, EXPLORATION_STALLED, PENDING_BLOCK_BUILD,
         REPAIR_NO_MUTATION, REPEATED_UNRESOLVED, REPEATED_GATE
<1>23. CASE BuildRaises
  BY <1>23
     DEF BuildRaises, TOOL_REJECTED, REPEATED_RECOVERABLE,
         REPEATED_BUILD_FAILURE, DIAGNOSIS_NO_CORRECTION, REPEATED_SEMANTIC,
         REPEATED_NO_OP, EXPLORATION_STALLED, PENDING_BLOCK_BUILD,
         REPAIR_NO_MUTATION, REPEATED_UNRESOLVED, REPEATED_GATE
<1>24. CASE ValidateArtifact
  BY <1>24
     DEF ValidateArtifact, AfterArtifact, REPEATED_SEMANTIC,
         EXPLORATION_STALLED
<1>25. CASE ValidateFunctional
  BY <1>25
     DEF ValidateFunctional, RepairableFailure, REPEATED_SEMANTIC,
         EXPLORATION_STALLED
<1>26. CASE Report
  BY <1>26
     DEF Report, TOOL_REJECTED, REPEATED_RECOVERABLE, REPEATED_BUILD_FAILURE,
         DIAGNOSIS_NO_CORRECTION, REPEATED_SEMANTIC, REPEATED_NO_OP,
         EXPLORATION_STALLED, PENDING_BLOCK_BUILD, REPAIR_NO_MUTATION,
         REPEATED_UNRESOLVED, REPEATED_GATE
<1>27. CASE LimitStop
  BY <1>27
     DEF LimitStop, TOOL_REJECTED, REPEATED_RECOVERABLE,
         REPEATED_BUILD_FAILURE, DIAGNOSIS_NO_CORRECTION, REPEATED_SEMANTIC,
         REPEATED_NO_OP, EXPLORATION_STALLED, PENDING_BLOCK_BUILD,
         REPAIR_NO_MUTATION, REPEATED_UNRESOLVED, REPEATED_GATE
<1>28. CASE LimitInTurn
  BY <1>28
     DEF LimitInTurn, TOOL_REJECTED, REPEATED_RECOVERABLE,
         REPEATED_BUILD_FAILURE, DIAGNOSIS_NO_CORRECTION, REPEATED_SEMANTIC,
         REPEATED_NO_OP, EXPLORATION_STALLED, PENDING_BLOCK_BUILD,
         REPAIR_NO_MUTATION, REPEATED_UNRESOLVED, REPEATED_GATE
<1>29. CASE SaveRunState
  BY <1>29
     DEF SaveRunState, TOOL_REJECTED, REPEATED_RECOVERABLE,
         REPEATED_BUILD_FAILURE, DIAGNOSIS_NO_CORRECTION, REPEATED_SEMANTIC,
         REPEATED_NO_OP, EXPLORATION_STALLED, PENDING_BLOCK_BUILD,
         REPAIR_NO_MUTATION, REPEATED_UNRESOLVED, REPEATED_GATE
<1>30. CASE WriteReport
  BY <1>30
     DEF WriteReport, TOOL_REJECTED, REPEATED_RECOVERABLE,
         REPEATED_BUILD_FAILURE, DIAGNOSIS_NO_CORRECTION, REPEATED_SEMANTIC,
         REPEATED_NO_OP, EXPLORATION_STALLED, PENDING_BLOCK_BUILD,
         REPAIR_NO_MUTATION, REPEATED_UNRESOLVED, REPEATED_GATE
<1>31. CASE InternalError
  BY <1>31
     DEF InternalError, TOOL_REJECTED, REPEATED_RECOVERABLE,
         REPEATED_BUILD_FAILURE, DIAGNOSIS_NO_CORRECTION, REPEATED_SEMANTIC,
         REPEATED_NO_OP, EXPLORATION_STALLED, PENDING_BLOCK_BUILD,
         REPAIR_NO_MUTATION, REPEATED_UNRESOLVED, REPEATED_GATE
<1>32. CASE Crash
  BY <1>32
     DEF Crash, TOOL_REJECTED, REPEATED_RECOVERABLE, REPEATED_BUILD_FAILURE,
         DIAGNOSIS_NO_CORRECTION, REPEATED_SEMANTIC, REPEATED_NO_OP,
         EXPLORATION_STALLED, PENDING_BLOCK_BUILD, REPAIR_NO_MUTATION,
         REPEATED_UNRESOLVED, REPEATED_GATE
<1>33. CASE UNCHANGED vars
  BY <1>33
<1>. QED
  BY <1>1, <1>2, <1>3, <1>4, <1>5, <1>6, <1>7, <1>8, <1>9, <1>10, <1>11,
     <1>12, <1>13, <1>14, <1>15, <1>16, <1>17, <1>18, <1>19, <1>20, <1>21,
     <1>22, <1>23, <1>24, <1>25, <1>26, <1>27, <1>28, <1>29, <1>30, <1>31,
     <1>32, <1>33
     DEF Next, Work, Start, Execute, Weigh, Deliver, Limits, Finish

-----------------------------------------------------------------------------
(* The invariant and what follows from it. *)

\* A fresh run satisfies the invariant.
LEMMA InitIInv == Init => IInv
<1>. SUFFICES ASSUME Init PROVE IInv
  OBVIOUS
<1>. USE DEF Init
<1>1. ControlTypes
  BY DEF ControlTypes, RunStatus, Lifecycle!RunStatus,
         Lifecycle!ACTIVE_STATUSES
<1>2. CounterTypes
  BY LimitsAssumption, StepsAssumption DEF CounterTypes
<1>3. ResultTypes
  BY DomainAssumption DEF ResultTypes, None
<1>4. ValidationTypes
  <2>1. ineffective \in BOOLEAN
    OBVIOUS
  <2>2. valRepeat \in 0..2 /\ funcCount \in Nat /\ current \subseteq Facts
    OBVIOUS
  <2>. QED
    BY <2>1, <2>2 DEF ValidationTypes
<1>5. /\ PlacesFit
      /\ SavedStateFits
      /\ ReportAgreesWithRunState
      /\ OutstandingRepairHasATurn
  BY DEF PlacesFit, SavedStateFits, ReportAgreesWithRunState,
         OutstandingRepairHasATurn, Active, TERMINAL_STATUSES,
         Lifecycle!TERMINAL_STATUSES
<1>6. StreaksBelowLimits
  BY StepsAssumption DEF StreaksBelowLimits, InspectionTurn
<1>7. /\ EvidenceFits
      /\ TargetsFit
      /\ RejectionFits
      /\ DiagnosisFits
      /\ ContinuationFits
  BY DEF EvidenceFits, TargetsFit, RejectionFits, DiagnosisFits,
         ContinuationFits
<1>8. MarkFits /\ PrebuildBypassFollowsFailedBuild
  BY DEF MarkFits, PrebuildBypassFollowsFailedBuild
<1>9. reason # EXPLORATION_STALLED
  BY DEF None, EXPLORATION_STALLED
<1>. QED
  BY <1>1, <1>2, <1>3, <1>4, <1>5, <1>6, <1>7, <1>8, <1>9 DEF IInv, TypeOK

\* Every step preserves every part.
LEMMA StepIInv == IInv /\ [Next]_vars => IInv'
<1>. SUFFICES ASSUME IInv, [Next]_vars PROVE IInv'
  OBVIOUS
<1>. USE DEF IInv, TypeOK
<1>1. ControlTypes'
  BY ControlTypesStep
<1>2. CounterTypes'
  BY CounterTypesStep
<1>3. ResultTypes'
  BY ResultTypesStep
<1>4. ValidationTypes'
  BY ValidationTypesStep
<1>5. PlacesFit'
  BY PlacesFitStep
<1>6. StreaksBelowLimits'
  BY StreaksBelowLimitsStep
<1>7. EvidenceFits'
  BY EvidenceFitsStep
<1>8. TargetsFit'
  BY TargetsFitStep
<1>9. RejectionFits'
  BY RejectionFitsStep
<1>10. DiagnosisFits'
  BY DiagnosisFitsStep
<1>11. MarkFits'
  BY MarkFitsStep
<1>12. SavedStateFits'
  BY SavedStateFitsStep
<1>13. PrebuildBypassFollowsFailedBuild'
  BY PrebuildBypassStep
<1>14. OutstandingRepairHasATurn'
  BY OutstandingRepairStep
<1>15. ReportAgreesWithRunState'
  BY ReportAgreesStep
<1>16. ContinuationFits'
  BY ContinuationFitsStep
<1>17. (reason # EXPLORATION_STALLED)'
  BY NeverStalledStep
<1>. QED
  BY <1>1, <1>2, <1>3, <1>4, <1>5, <1>6, <1>7, <1>8, <1>9, <1>10, <1>11,
        <1>12, <1>13, <1>14, <1>15, <1>16, <1>17

\* The inductive invariant holds of every reachable state, for every value of
\* the limits, thresholds, files and failure signatures.
THEOREM InvariantHolds == Spec => []IInv
<1>1. Init => IInv
  BY InitIInv
<1>2. IInv /\ [Next]_vars => IInv'
  BY StepIInv
<1>. QED
  BY <1>1, <1>2, PTL DEF Spec

\* Every variable keeps its type; in particular the counters of RunState never
\* pass ExecutionLimits, nor the streaks the values the engine stops at.
THEOREM TypesHold == Spec => []TypeOK
<1>1. IInv => TypeOK
  BY DEF IInv, TypeOK
<1>. QED
  BY <1>1, InvariantHolds, PTL

\* COMPLETED is only ever reached with a build, an artifact check and, when
\* there is one, a functional validation of the source as it now is, and with
\* no required file untouched.
THEOREM CompletionIsEvidenced == Spec => []CompletedIsEvidenced
<1>1. IInv => CompletedIsEvidenced
  BY DEF IInv, CompletedIsEvidenced, EvidenceFits, TargetsFit
<1>. QED
  BY <1>1, InvariantHolds, PTL

\* Source that a validator rejected is not built again until it changes.
THEOREM RejectedSourceStaysUnbuilt == Spec => []RejectedSourceIsNotBuilt
<1>1. IInv => RejectedSourceIsNotBuilt
  BY DEF IInv, RejectedSourceIsNotBuilt, RejectionFits,
         Lifecycle!NON_SUCCESS_TERMINAL_STATUSES, Lifecycle!TERMINAL_STATUSES
<1>. QED
  BY <1>1, InvariantHolds, PTL

\* The pre-build validation is bypassed only to rebuild after a failed build.
THEOREM PrebuildBypassIsJustified == Spec => []PrebuildBypassFollowsFailedBuild
<1>1. IInv => PrebuildBypassFollowsFailedBuild
  BY DEF IInv, PrebuildBypassFollowsFailedBuild
<1>. QED
  BY <1>1, InvariantHolds, PTL

\* No build starts while a required file is untouched, so the check at the
\* head of BUILDING never fires.
THEOREM BuildsWaitForTargets == Spec => []TargetsResolvedBeforeBuild
<1>1. IInv => TargetsResolvedBeforeBuild
  BY DEF IInv, TargetsResolvedBeforeBuild, TargetsFit
<1>. QED
  BY <1>1, InvariantHolds, PTL

\* A repair is never failed for want of a change that was not asked for.
THEOREM OutstandingRepairsAreAsked == Spec => []OutstandingRepairHasATurn
<1>1. IInv => OutstandingRepairHasATurn
  BY DEF IInv, OutstandingRepairHasATurn
<1>. QED
  BY <1>1, InvariantHolds, PTL

\* The attempt the feedback calls ineffective is the one made for the failure
\* that is repeated.
THEOREM IneffectiveMarksAreRight == Spec => []IneffectiveMarkNamesItsAttempt
<1>1. IInv => IneffectiveMarkNamesItsAttempt
  BY DEF IInv, IneffectiveMarkNamesItsAttempt, MarkFits
<1>. QED
  BY <1>1, InvariantHolds, PTL

\* The action gate forestalls the exploration stall: the streak never reaches
\* _ACTION_STALL_STEP, whatever the three thresholds are.
THEOREM GateForestallsStall == Spec => []ExplorationIsGatedBeforeStall
<1>1. IInv => ExplorationIsGatedBeforeStall
  BY StepsAssumption
     DEF IInv, TypeOK, CounterTypes, StreaksBelowLimits,
         ExplorationIsGatedBeforeStall
<1>. QED
  BY <1>1, InvariantHolds, PTL

\* A final report describes the terminal state run.json holds, across a crash
\* at any point.
THEOREM ReportsAgree == Spec => []ReportAgreesWithRunState
<1>1. IInv => ReportAgreesWithRunState
  BY DEF IInv, ReportAgreesWithRunState
<1>. QED
  BY <1>1, InvariantHolds, PTL

-----------------------------------------------------------------------------
(* Repeated functional failures. *)

\* One more functional failure: the engine's count keeps up with the true one,
\* so the third in a row is final.
LEMMA RepeatCount ==
  ASSUME NEW s, ~HasPrebuild, RepeatFits, StreaksBelowLimits, ValidationTypes,
         phase = "VALIDATING_FUNCTIONAL", pc = "loop",
         RepairableFailure(s), funcSig' = s,
         funcCount' = IF s = funcSig THEN funcCount + 1 ELSE 0, s # None
  PROVE  /\ /\ valSig' = funcSig'
         /\ funcCount' <= valRepeat'
         /\ funcCount' \in Nat
         /\ \/ phase' = "FAILED"
            \/ phase' = "CORRECTING" /\ funcCount' <= 1
<1>1. valSig' = s /\ valRepeat' = IF s = valSig THEN valRepeat + 1 ELSE 0
  BY DEF RepairableFailure
<1>2. IF valRepeat' >= 2 THEN phase' = "FAILED" ELSE phase' = "CORRECTING"
  BY <1>1 DEF RepairableFailure, FinalRepeat, Stop, Move
<1>3. s = funcSig => valSig = funcSig /\ funcCount <= valRepeat
  BY DEF RepeatFits
<1>4. valRepeat \in 0..2 /\ funcCount \in Nat
  BY DEF ValidationTypes
<1>5. valRepeat' \in Nat /\ funcCount' \in Nat /\ funcCount' <= valRepeat'
  BY <1>1, <1>3, <1>4
<1>. QED
  BY <1>1, <1>2, <1>5

\* Without a pre-build validation nothing between a repair and the next
\* functional validation resets the engine's count.
LEMMA RepeatFitsStep ==
  ASSUME ~HasPrebuild, IInv, RepeatFits, [Next]_vars
  PROVE  RepeatFits'
<1>. USE DEF RepeatFits, IInv, TypeOK, ValidationTypes, TargetsFit,
      ContinuationFits, Active, Stop, Move, Stay, EndTurn, Iterating,
      MayExecute, vars, loopVars, weighedVars, turn, limitVars, pressure,
      targetVars, stallVars, historyVars
<1>1. CASE BeginInspection          BY <1>1 DEF BeginInspection
<1>2. CASE InspectProject           BY <1>2 DEF InspectProject
<1>3. CASE CallProvider             BY <1>3 DEF CallProvider
<1>4. CASE GateViolation            BY <1>4 DEF GateViolation
<1>5. CASE ExecuteChange
  <2>1. pc = "tools" /\ pending' \subseteq pending
    BY <1>5 DEF ExecuteChange
  <2>2. UNCHANGED <<phase, pc, cont, repairPending, historyVars>>
    BY <1>5 DEF ExecuteChange
  <2>3. repairPending => UNCHANGED <<valSig, valRepeat>>
    BY <1>5 DEF ExecuteChange
  <2>. QED
    BY <2>1, <2>2, <2>3 DEF PlacesFit
<1>6. CASE ExecuteExists            BY <1>6 DEF ExecuteExists
<1>7. CASE ExecuteOther             BY <1>7 DEF ExecuteOther
<1>8. CASE TurnRejected             BY <1>8 DEF TurnRejected
<1>9. CASE TurnStalled              BY <1>9 DEF TurnStalled
<1>10. CASE TurnNoRepair            BY <1>10 DEF TurnNoRepair
<1>11. CASE TurnUnresolvedTargets   BY <1>11 DEF TurnUnresolvedTargets
<1>12. CASE TurnGateViolation       BY <1>12 DEF TurnGateViolation
<1>13. CASE TurnFileExists          BY <1>13 DEF TurnFileExists
<1>14. CASE TurnInspection          BY <1>14 DEF TurnInspection
<1>15. CASE PlanningDone            BY <1>15 DEF PlanningDone
<1>16. CASE DiagnosisDone           BY <1>16 DEF DiagnosisDone
<1>17. CASE CorrectionDone          BY <1>17 DEF CorrectionDone, PlacesFit
<1>18. CASE EditingContinues        BY <1>18 DEF EditingContinues, Unresolved
<1>19. CASE EditingDone
  <2>1. phase = "EDITING" /\ pc = "tools"
    BY <1>19 DEF EditingDone
  <2>2. CASE funcSig' = None /\ funcCount' = 0
    BY <2>2
  <2>3. CASE /\ phase' = "BUILDING"
             /\ UNCHANGED <<valSig, valRepeat, historyVars>>
    BY <1>19, <2>1, <2>3 DEF EditingDone
  <2>. QED
    BY <1>19, <2>2, <2>3 DEF EditingDone, Prebuild
<1>20. CASE EnterEditing
  <2>1. phase = "EDITING" /\ pc = "loop"
    BY <1>20 DEF EnterEditing
  <2>2. CASE Unresolved
    BY <1>20, <2>1, <2>2 DEF EnterEditing, Unresolved, AskAgain
  <2>3. CASE /\ ~Unresolved
             /\ phase' = "BUILDING"
             /\ UNCHANGED <<valSig, valRepeat, historyVars>>
    BY <1>20, <2>1, <2>3 DEF EnterEditing
  <2>. QED
    BY <1>20, <2>2, <2>3 DEF EnterEditing, Prebuild
<1>21. CASE BuildSucceeds           BY <1>21 DEF BuildSucceeds
<1>22. CASE BuildFails              BY <1>22 DEF BuildFails
<1>23. CASE BuildRaises             BY <1>23 DEF BuildRaises
<1>24. CASE ValidateArtifact
  BY <1>24 DEF ValidateArtifact, AfterArtifact
<1>25. CASE ValidateFunctional
  <2>1. phase = "VALIDATING_FUNCTIONAL" /\ pc = "loop"
    BY <1>25 DEF ValidateFunctional
  <2>2. CASE phase' \in {"REPORTING", "BLOCKED"} /\ UNCHANGED historyVars
    BY <1>25, <2>1, <2>2 DEF ValidateFunctional
  <2>3. ASSUME NEW s \in FuncSignatures, RepairableFailure(s), funcSig' = s,
               funcCount' = IF s = funcSig THEN funcCount + 1 ELSE 0,
               phase' = "CORRECTING" => repairPending' = TRUE
        PROVE  RepeatFits'
    <3>1. s # None
      BY DomainAssumption DEF None
    <3>2. UNCHANGED pending
      BY <1>25 DEF ValidateFunctional
    <3>. QED
      BY <2>1, <2>3, <3>1, <3>2, RepeatCount
  <2>. QED
    BY <1>25, <2>2, <2>3 DEF ValidateFunctional
<1>26. CASE Report                  BY <1>26 DEF Report
<1>27. CASE LimitStop
  BY <1>27
     DEF LimitStop, PlacesFit, TERMINAL_STATUSES, Lifecycle!TERMINAL_STATUSES
<1>28. CASE LimitInTurn
  BY <1>28
     DEF LimitInTurn, PlacesFit, TERMINAL_STATUSES,
         Lifecycle!TERMINAL_STATUSES
<1>29. CASE SaveRunState            BY <1>29 DEF SaveRunState
<1>30. CASE WriteReport             BY <1>30 DEF WriteReport
<1>31. CASE InternalError           BY <1>31 DEF InternalError
<1>32. CASE Crash                   BY <1>32 DEF Crash
<1>33. CASE UNCHANGED vars
  BY <1>33
<1>. QED
  BY <1>1, <1>2, <1>3, <1>4, <1>5, <1>6, <1>7, <1>8, <1>9, <1>10, <1>11,
     <1>12, <1>13, <1>14, <1>15, <1>16, <1>17, <1>18, <1>19, <1>20, <1>21,
     <1>22, <1>23, <1>24, <1>25, <1>26, <1>27, <1>28, <1>29, <1>30, <1>31,
     <1>32, <1>33
     DEF Next, Work, Start, Execute, Weigh, Deliver, Limits, Finish

\* Without a pre-build validation the third equal functional failure in a row
\* ends the run, however long the run is. With one, the pass of each pre-build
\* validation resets the count, and the property is false.
THEOREM RepeatedFailureEndsRun ==
  ASSUME ~HasPrebuild
  PROVE  Spec => []RepeatedFunctionalFailureIsTerminal
<1>1. Init => RepeatFits
  BY DEF Init, RepeatFits
<1>2. IInv /\ RepeatFits /\ [Next]_vars => RepeatFits'
  BY RepeatFitsStep
<1>3. IInv /\ RepeatFits => RepeatedFunctionalFailureIsTerminal
  BY DEF IInv, TypeOK, ValidationTypes, RepeatFits,
         RepeatedFunctionalFailureIsTerminal
<1>. QED
  BY <1>1, <1>2, <1>3, InvariantHolds, PTL DEF Spec

-----------------------------------------------------------------------------
(* The engine implements the life cycle. *)

\* The rows of VALID_TRANSITIONS that the engine uses.
LEMMA OnwardValues ==
  /\ "INSPECTING" \in Lifecycle!VALID_TRANSITIONS("INITIALIZING")
  /\ "PLANNING" \in Lifecycle!VALID_TRANSITIONS("INSPECTING")
  /\ "EDITING" \in Lifecycle!VALID_TRANSITIONS("PLANNING")
  /\ {"BUILDING", "CORRECTING"} \subseteq Lifecycle!VALID_TRANSITIONS("EDITING")
  /\ {"VALIDATING_ARTIFACT", "DIAGNOSING"} \subseteq Lifecycle!VALID_TRANSITIONS("BUILDING")
  /\ "CORRECTING" \in Lifecycle!VALID_TRANSITIONS("DIAGNOSING")
  /\ {"EDITING", "BUILDING"} \subseteq Lifecycle!VALID_TRANSITIONS("CORRECTING")
  /\ {"VALIDATING_FUNCTIONAL", "REPORTING"} \subseteq Lifecycle!VALID_TRANSITIONS("VALIDATING_ARTIFACT")
  /\ {"REPORTING", "CORRECTING"} \subseteq Lifecycle!VALID_TRANSITIONS("VALIDATING_FUNCTIONAL")
  /\ "COMPLETED" \in Lifecycle!VALID_TRANSITIONS("REPORTING")
  /\ \A s : {"FAILED", "BLOCKED", "LIMIT_REACHED"} \subseteq Lifecycle!VALID_TRANSITIONS(s)
BY DEF Lifecycle!VALID_TRANSITIONS, Lifecycle!Onward,
       Lifecycle!ACTIVE_STATUSES, Lifecycle!NON_SUCCESS_TERMINAL_STATUSES,
       Lifecycle!TERMINAL_STATUSES

\* Every step of the engine, the direct assignments of terminal states
\* included, is a transition of the table or none at all.
LEMMA StepFollowsLifecycle ==
  ASSUME ControlTypes, PlacesFit, [Next]_vars
  PROVE  [Lifecycle!Next]_phase
<1>. USE DEF Lifecycle!Next, ControlTypes, PlacesFit, Active, RunStatus,
      TERMINAL_STATUSES, Lifecycle!RunStatus, Stop, Move, Stay, EndTurn,
      Iterating, MayExecute, vars, loopVars, weighedVars, turn, limitVars,
      pressure, targetVars, stallVars, historyVars
<1>1. CASE BeginInspection          BY <1>1, OnwardValues DEF BeginInspection
<1>2. CASE InspectProject           BY <1>2, OnwardValues DEF InspectProject
<1>3. CASE CallProvider             BY <1>3, OnwardValues DEF CallProvider
<1>4. CASE GateViolation            BY <1>4 DEF GateViolation
<1>5. CASE ExecuteChange            BY <1>5 DEF ExecuteChange
<1>6. CASE ExecuteExists            BY <1>6 DEF ExecuteExists
<1>7. CASE ExecuteOther             BY <1>7, OnwardValues DEF ExecuteOther
<1>8. CASE TurnRejected             BY <1>8, OnwardValues DEF TurnRejected
<1>9. CASE TurnStalled              BY <1>9, OnwardValues DEF TurnStalled
<1>10. CASE TurnNoRepair            BY <1>10, OnwardValues DEF TurnNoRepair
<1>11. CASE TurnUnresolvedTargets
  BY <1>11, OnwardValues DEF TurnUnresolvedTargets
<1>12. CASE TurnGateViolation       BY <1>12 DEF TurnGateViolation
<1>13. CASE TurnFileExists          BY <1>13, OnwardValues DEF TurnFileExists
<1>14. CASE TurnInspection          BY <1>14 DEF TurnInspection
<1>15. CASE PlanningDone            BY <1>15, OnwardValues DEF PlanningDone
<1>16. CASE DiagnosisDone           BY <1>16, OnwardValues DEF DiagnosisDone
<1>17. CASE CorrectionDone          BY <1>17, OnwardValues DEF CorrectionDone
<1>18. CASE EditingContinues        BY <1>18 DEF EditingContinues
<1>19. CASE EditingDone
  BY <1>19, OnwardValues DEF EditingDone, Prebuild, RepairableFailure
<1>20. CASE EnterEditing
  BY <1>20, OnwardValues DEF EnterEditing, Prebuild, RepairableFailure
<1>21. CASE BuildSucceeds           BY <1>21, OnwardValues DEF BuildSucceeds
<1>22. CASE BuildFails              BY <1>22, OnwardValues DEF BuildFails
<1>23. CASE BuildRaises             BY <1>23, OnwardValues DEF BuildRaises
<1>24. CASE ValidateArtifact
  BY <1>24, OnwardValues DEF ValidateArtifact, AfterArtifact
<1>25. CASE ValidateFunctional
  BY <1>25, OnwardValues DEF ValidateFunctional, RepairableFailure
<1>26. CASE Report                  BY <1>26, OnwardValues DEF Report
<1>27. CASE LimitStop               BY <1>27, OnwardValues DEF LimitStop
<1>28. CASE LimitInTurn             BY <1>28, OnwardValues DEF LimitInTurn
<1>29. CASE SaveRunState            BY <1>29 DEF SaveRunState
<1>30. CASE WriteReport             BY <1>30 DEF WriteReport
<1>31. CASE InternalError           BY <1>31, OnwardValues DEF InternalError
<1>32. CASE Crash                   BY <1>32 DEF Crash
<1>33. CASE UNCHANGED vars
  BY <1>33
<1>. QED
  BY <1>1, <1>2, <1>3, <1>4, <1>5, <1>6, <1>7, <1>8, <1>9, <1>10, <1>11,
     <1>12, <1>13, <1>14, <1>15, <1>16, <1>17, <1>18, <1>19, <1>20, <1>21,
     <1>22, <1>23, <1>24, <1>25, <1>26, <1>27, <1>28, <1>29, <1>30, <1>31,
     <1>32, <1>33
     DEF Next, Work, Start, Execute, Weigh, Deliver, Limits, Finish

\* The engine implements RunLifecycle: its states follow VALID_TRANSITIONS and
\* a terminal state is never left.
THEOREM EngineFollowsLifecycle == Spec => FollowsLifecycle
<1>1. Init => Lifecycle!Init
  BY DEF Init, Lifecycle!Init
<1>2. IInv /\ [Next]_vars => [Lifecycle!Next]_phase
  BY StepFollowsLifecycle DEF IInv, TypeOK
<1>. QED
  BY <1>1, <1>2, InvariantHolds, PTL DEF Spec, FollowsLifecycle, Lifecycle!Spec

=============================================================================
