----------------------- MODULE ProductExecutionProofs -----------------------
(***************************************************************************)
(* Theorems of ProductExecution, for every set of executions and every     *)
(* number of restarts and faults.  One inductive invariant, IInv, carries  *)
(* the safety properties; each of its parts has a lemma that every step    *)
(* preserves it, which assumes only the parts it leans on.  The steps that *)
(* leave the variables of a part alone are taken together.                 *)
(***************************************************************************)
EXTENDS ProductExecution, TLAPS

-----------------------------------------------------------------------------
(* What reconciliation returns. *)

\* Run files stand for end statuses, and only a passed run for SUCCEEDED.
LEMMA StatusOfIsEnd ==
  \A f \in RunFiles : /\ StatusOf[f] \in EndStatuses
                      /\ StatusOf[f] = "SUCCEEDED" => f = "passed"
BY DEF StatusOf, RunFiles, RunEnds, EndStatuses

\* The verdict of _finished is an end status, and it is SUCCEEDED only for a
\* worker that returned and left a passed run and its report.
LEMMA VerdictIsEnd ==
  ASSUME TypeOK, NEW e \in Execs
  PROVE  /\ Verdict(e) \in EndStatuses
         /\ Verdict(e) = "SUCCEEDED" =>
                work[e] = "returned" /\ report[e] /\ runFile[e] = "passed"
BY StatusOfIsEnd DEF Verdict, TypeOK, EndStatuses

-----------------------------------------------------------------------------
(* Every step preserves every part of the invariant. *)

\* Types: the status recorded and published is a verdict.
LEMMA TypeOKStep ==
  ASSUME TypeOK, [Next]_vars
  PROVE  TypeOK'
<1>. USE DEF vars, diskVars, runVars, catalogVars, threadVars, obsVars, TypeOK,
      RunFiles, SnapStates, WorkStates, Outcomes
<1>1. ASSUME NEW e \in Execs, StartPersist(e)
      PROVE  TypeOK'
  BY <1>1 DEF StartPersist
<1>2. ASSUME NEW e \in Execs, StartSubmit(e)
      PROVE  TypeOK'
  BY <1>2 DEF StartSubmit
<1>3. ASSUME NEW e \in Execs, StartDispatchFails(e)
      PROVE  TypeOK'
  BY <1>3 DEF StartDispatchFails
<1>4. ASSUME NEW e \in Execs, StartReturn(e)
      PROVE  TypeOK'
  BY <1>4 DEF StartReturn
<1>5. ASSUME NEW e \in Execs, WorkerBegin(e)
      PROVE  TypeOK'
  BY <1>5 DEF WorkerBegin
<1>6. ASSUME NEW e \in Execs, RunClaims(e)
      PROVE  TypeOK'
  BY <1>6 DEF RunClaims
<1>7. ASSUME NEW e \in Execs, NEW end \in RunEnds, RunEnd(e, end)
      PROVE  TypeOK'
  BY <1>7 DEF RunEnd
<1>8. ASSUME NEW e \in Execs, RunReport(e)
      PROVE  TypeOK'
  BY <1>8 DEF RunReport
<1>9. ASSUME NEW e \in Execs, WorkerReturn(e)
      PROVE  TypeOK'
  BY <1>9 DEF WorkerReturn
<1>10. ASSUME NEW e \in Execs, WorkerRaise(e)
      PROVE  TypeOK'
  BY <1>10 DEF WorkerRaise, MayTear
<1>11. ASSUME NEW e \in Execs, FinishBegin(e)
      PROVE  TypeOK'
  BY <1>11 DEF FinishBegin
<1>12. ASSUME NEW e \in Execs, FinishPersist(e)
      PROVE  TypeOK'
  BY <1>12, VerdictIsEnd DEF FinishPersist, Verdict
<1>13. ASSUME NEW e \in Execs, FinishPersistFails(e)
      PROVE  TypeOK'
  BY <1>13 DEF FinishPersistFails, FreeSlot
<1>14. ASSUME NEW e \in Execs, FinishDeliver(e)
      PROVE  TypeOK'
  BY <1>14 DEF FinishDeliver
<1>15. ASSUME NEW e \in Execs, FinishPublish(e)
      PROVE  TypeOK'
  BY <1>15, VerdictIsEnd DEF FinishPublish, FreeSlot
<1>16. ASSUME NEW e \in Execs, Get(e)
      PROVE  TypeOK'
  BY <1>16 DEF Get, Answer
<1>17. CASE ShutdownBegin
  BY <1>17 DEF ShutdownBegin
<1>18. CASE ShutdownReturn
  BY <1>18 DEF ShutdownReturn
<1>19. CASE Exit
  BY <1>19 DEF Exit, ForgetMemory
<1>20. CASE Crash
  BY <1>20 DEF Crash, ForgetMemory, MayTear
<1>21. CASE Restart
  BY <1>21 DEF Restart
<1>22. CASE UNCHANGED vars
  BY <1>22
<1>. QED
  BY <1>1, <1>2, <1>3, <1>4, <1>5, <1>6, <1>7, <1>8, <1>9, <1>10, <1>11,
     <1>12, <1>13, <1>14, <1>15, <1>16, <1>17, <1>18, <1>19, <1>20, <1>21,
     <1>22
     DEF Next, StartStep, WorkerStep, FinishStep

\* The holders of the lock: start() gives it up or hands it to the callback it
\* runs itself, and the callback gives it up with its last step.
LEMMA LockDisciplineStep ==
  ASSUME TypeOK, LockDiscipline, KnownIsRecorded, SlotIsHeldByLiveWork,
         [Next]_vars
  PROVE  LockDiscipline'
<1>. USE DEF vars, diskVars, runVars, catalogVars, threadVars, obsVars, TypeOK,
      LockDiscipline, Outcomes, LockFree, SlotIsHeldByLiveWork, Live
<1>1. ASSUME NEW e \in Execs, StartPersist(e)
      PROVE  LockDiscipline'
  BY <1>1, NoExecAssumption DEF StartPersist, KnownIsRecorded
<1>2. ASSUME NEW e \in Execs, StartSubmit(e)
      PROVE  LockDiscipline'
  BY <1>2 DEF StartSubmit
<1>3. ASSUME NEW e \in Execs, StartDispatchFails(e)
      PROVE  LockDiscipline'
  BY <1>3 DEF StartDispatchFails
<1>4. ASSUME NEW e \in Execs, StartReturn(e)
      PROVE  LockDiscipline'
  BY <1>4, NoExecAssumption DEF StartReturn
<1>5. ASSUME NEW e \in Execs, WorkerBegin(e)
      PROVE  LockDiscipline'
  BY <1>5 DEF WorkerBegin
<1>6. ASSUME NEW e \in Execs, WorkerReturn(e)
      PROVE  LockDiscipline'
  BY <1>6 DEF WorkerReturn
<1>7. ASSUME NEW e \in Execs, WorkerRaise(e)
      PROVE  LockDiscipline'
  BY <1>7 DEF WorkerRaise, MayTear
<1>8. ASSUME NEW e \in Execs, FinishBegin(e)
      PROVE  LockDiscipline'
  BY <1>8, NoExecAssumption DEF FinishBegin
<1>9. ASSUME NEW e \in Execs, FinishPersist(e)
      PROVE  LockDiscipline'
  BY <1>9 DEF FinishPersist
<1>10. ASSUME NEW e \in Execs, FinishPersistFails(e)
      PROVE  LockDiscipline'
  BY <1>10 DEF FinishPersistFails, FreeSlot
<1>11. ASSUME NEW e \in Execs, FinishDeliver(e)
      PROVE  LockDiscipline'
  BY <1>11 DEF FinishDeliver
<1>12. ASSUME NEW e \in Execs, FinishPublish(e)
      PROVE  LockDiscipline'
  BY <1>12 DEF FinishPublish, FreeSlot
<1>13. CASE Exit
  BY <1>13 DEF Exit, ForgetMemory
<1>14. CASE Crash
  BY <1>14 DEF Crash, ForgetMemory, MayTear
<1>15. ASSUME NEW e \in Execs,
             \/ RunClaims(e)
             \/ (\E end \in RunEnds : RunEnd(e, end))
             \/ RunReport(e)
             \/ Get(e)
      PROVE  LockDiscipline'
  BY <1>15 DEF RunClaims, RunEnd, RunReport, Get
<1>16. CASE ShutdownBegin \/ ShutdownReturn \/ Restart \/ UNCHANGED vars
  BY <1>16 DEF ShutdownBegin, ShutdownReturn, Restart
<1>. QED
  BY <1>1, <1>2, <1>3, <1>4, <1>5, <1>6, <1>7, <1>8, <1>9, <1>10, <1>11,
     <1>12, <1>13, <1>14, <1>15, <1>16
     DEF Next, StartStep, WorkerStep, FinishStep

\* The shutdown flag is set when no start() is inside the lock.
LEMMA ShutdownDisciplineStep ==
  ASSUME TypeOK, LockDiscipline, ShutdownDiscipline, [Next]_vars
  PROVE  ShutdownDiscipline'
<1>. USE DEF vars, diskVars, runVars, catalogVars, threadVars, obsVars, TypeOK,
      LockDiscipline, ShutdownDiscipline, Outcomes, LockFree, Live
<1>1. ASSUME NEW e \in Execs, StartPersist(e)
      PROVE  ShutdownDiscipline'
  BY <1>1 DEF StartPersist
<1>2. ASSUME NEW e \in Execs, StartSubmit(e)
      PROVE  ShutdownDiscipline'
  BY <1>2, NoExecAssumption DEF StartSubmit
<1>3. ASSUME NEW e \in Execs, StartDispatchFails(e)
      PROVE  ShutdownDiscipline'
  BY <1>3 DEF StartDispatchFails
<1>4. ASSUME NEW e \in Execs, StartReturn(e)
      PROVE  ShutdownDiscipline'
  BY <1>4 DEF StartReturn
<1>5. ASSUME NEW e \in Execs, WorkerBegin(e)
      PROVE  ShutdownDiscipline'
  BY <1>5 DEF WorkerBegin
<1>6. ASSUME NEW e \in Execs, WorkerReturn(e)
      PROVE  ShutdownDiscipline'
  BY <1>6 DEF WorkerReturn
<1>7. ASSUME NEW e \in Execs, WorkerRaise(e)
      PROVE  ShutdownDiscipline'
  BY <1>7 DEF WorkerRaise, MayTear
<1>8. ASSUME NEW e \in Execs, FinishPersistFails(e)
      PROVE  ShutdownDiscipline'
  BY <1>8 DEF FinishPersistFails, FreeSlot
<1>9. ASSUME NEW e \in Execs, FinishPublish(e)
      PROVE  ShutdownDiscipline'
  BY <1>9 DEF FinishPublish, FreeSlot
<1>10. CASE ShutdownBegin
  BY <1>10 DEF ShutdownBegin
<1>11. CASE ShutdownReturn
  BY <1>11 DEF ShutdownReturn
<1>12. CASE Exit
  BY <1>12 DEF Exit, ForgetMemory
<1>13. CASE Crash
  BY <1>13 DEF Crash, ForgetMemory, MayTear
<1>14. CASE Restart
  BY <1>14 DEF Restart
<1>15. ASSUME NEW e \in Execs,
             \/ RunClaims(e)
             \/ (\E end \in RunEnds : RunEnd(e, end))
             \/ RunReport(e)
             \/ FinishBegin(e)
             \/ FinishPersist(e)
             \/ FinishDeliver(e)
             \/ Get(e)
      PROVE  ShutdownDiscipline'
  BY <1>15 DEF RunClaims, RunEnd, RunReport, FinishBegin, FinishPersist, FinishDeliver,
      Get
<1>16. CASE UNCHANGED vars
  BY <1>16
<1>. QED
  BY <1>1, <1>2, <1>3, <1>4, <1>5, <1>6, <1>7, <1>8, <1>9, <1>10, <1>11,
     <1>12, <1>13, <1>14, <1>15, <1>16
     DEF Next, StartStep, WorkerStep, FinishStep

\* The slot is taken with the submission and freed with the last step of the
\* callback, whether the end was recorded or not.
LEMMA SlotStep ==
  ASSUME TypeOK, LockDiscipline, SlotIsHeldByLiveWork, [Next]_vars
  PROVE  SlotIsHeldByLiveWork'
<1>. USE DEF vars, diskVars, runVars, catalogVars, threadVars, obsVars, TypeOK,
      LockDiscipline, SlotIsHeldByLiveWork, Outcomes, LockFree, Live
<1>1. ASSUME NEW e \in Execs, StartSubmit(e)
      PROVE  SlotIsHeldByLiveWork'
  BY <1>1, NoExecAssumption DEF StartSubmit
<1>2. ASSUME NEW e \in Execs, WorkerBegin(e)
      PROVE  SlotIsHeldByLiveWork'
  BY <1>2 DEF WorkerBegin
<1>3. ASSUME NEW e \in Execs, WorkerReturn(e)
      PROVE  SlotIsHeldByLiveWork'
  BY <1>3 DEF WorkerReturn
<1>4. ASSUME NEW e \in Execs, WorkerRaise(e)
      PROVE  SlotIsHeldByLiveWork'
  BY <1>4 DEF WorkerRaise, MayTear
<1>5. ASSUME NEW e \in Execs, FinishPersistFails(e)
      PROVE  SlotIsHeldByLiveWork'
  BY <1>5, NoExecAssumption DEF FinishPersistFails, FreeSlot
<1>6. ASSUME NEW e \in Execs, FinishPublish(e)
      PROVE  SlotIsHeldByLiveWork'
  BY <1>6, NoExecAssumption DEF FinishPublish, FreeSlot
<1>7. CASE Exit
  BY <1>7, NoExecAssumption DEF Exit, ForgetMemory
<1>8. CASE Crash
  BY <1>8, NoExecAssumption DEF Crash, ForgetMemory, MayTear
<1>9. ASSUME NEW e \in Execs,
             \/ StartPersist(e)
             \/ StartDispatchFails(e)
             \/ StartReturn(e)
             \/ RunClaims(e)
             \/ (\E end \in RunEnds : RunEnd(e, end))
             \/ RunReport(e)
             \/ FinishBegin(e)
             \/ FinishPersist(e)
             \/ FinishDeliver(e)
             \/ Get(e)
      PROVE  SlotIsHeldByLiveWork'
  BY <1>9 DEF StartPersist, StartDispatchFails, StartReturn, RunClaims, RunEnd,
      RunReport, FinishBegin, FinishPersist, FinishDeliver, Get
<1>10. CASE ShutdownBegin \/ ShutdownReturn \/ Restart \/ UNCHANGED vars
  BY <1>10 DEF ShutdownBegin, ShutdownReturn, Restart
<1>. QED
  BY <1>1, <1>2, <1>3, <1>4, <1>5, <1>6, <1>7, <1>8, <1>9, <1>10
     DEF Next, StartStep, WorkerStep, FinishStep

\* Nothing but the callback closes the record of live work, and the run files
\* it read do not change under it.
LEMMA OpenStep ==
  ASSUME TypeOK, LockDiscipline, OpenUntilRecorded, KnownIsRecorded,
         [Next]_vars
  PROVE  OpenUntilRecorded'
<1>. USE DEF vars, diskVars, runVars, catalogVars, threadVars, obsVars, TypeOK,
      LockDiscipline, OpenUntilRecorded, KnownIsRecorded, Outcomes, LockFree,
      Live, Recorded, Verdict
<1>1. ASSUME NEW e \in Execs, StartPersist(e)
      PROVE  OpenUntilRecorded'
  BY <1>1 DEF StartPersist
<1>2. ASSUME NEW e \in Execs, StartSubmit(e)
      PROVE  OpenUntilRecorded'
  BY <1>2, NoExecAssumption DEF StartSubmit
<1>3. ASSUME NEW e \in Execs, StartDispatchFails(e)
      PROVE  OpenUntilRecorded'
  BY <1>3, NoExecAssumption DEF StartDispatchFails
<1>4. ASSUME NEW e \in Execs, StartReturn(e)
      PROVE  OpenUntilRecorded'
  BY <1>4, NoExecAssumption DEF StartReturn
<1>5. ASSUME NEW e \in Execs, WorkerBegin(e)
      PROVE  OpenUntilRecorded'
  BY <1>5 DEF WorkerBegin
<1>6. ASSUME NEW e \in Execs, RunClaims(e)
      PROVE  OpenUntilRecorded'
  BY <1>6 DEF RunClaims
<1>7. ASSUME NEW e \in Execs, NEW end \in RunEnds, RunEnd(e, end)
      PROVE  OpenUntilRecorded'
  BY <1>7 DEF RunEnd
<1>8. ASSUME NEW e \in Execs, RunReport(e)
      PROVE  OpenUntilRecorded'
  BY <1>8 DEF RunReport
<1>9. ASSUME NEW e \in Execs, WorkerReturn(e)
      PROVE  OpenUntilRecorded'
  BY <1>9 DEF WorkerReturn
<1>10. ASSUME NEW e \in Execs, WorkerRaise(e)
      PROVE  OpenUntilRecorded'
  BY <1>10 DEF WorkerRaise, MayTear
<1>11. ASSUME NEW e \in Execs, FinishBegin(e)
      PROVE  OpenUntilRecorded'
  BY <1>11 DEF FinishBegin
<1>12. ASSUME NEW e \in Execs, FinishPersist(e)
      PROVE  OpenUntilRecorded'
  BY <1>12 DEF FinishPersist
<1>13. ASSUME NEW e \in Execs, FinishPersistFails(e)
      PROVE  OpenUntilRecorded'
  BY <1>13 DEF FinishPersistFails, FreeSlot
<1>14. ASSUME NEW e \in Execs, FinishDeliver(e)
      PROVE  OpenUntilRecorded'
  BY <1>14 DEF FinishDeliver
<1>15. ASSUME NEW e \in Execs, FinishPublish(e)
      PROVE  OpenUntilRecorded'
  BY <1>15, VerdictIsEnd DEF FinishPublish, FreeSlot, EndStatuses
<1>16. CASE Exit
  BY <1>16 DEF Exit, ForgetMemory
<1>17. CASE Crash
  BY <1>17 DEF Crash, ForgetMemory, MayTear
<1>18. ASSUME NEW e \in Execs,
             \/ Get(e)
      PROVE  OpenUntilRecorded'
  BY <1>18 DEF Get
<1>19. CASE ShutdownBegin \/ ShutdownReturn \/ Restart \/ UNCHANGED vars
  BY <1>19 DEF ShutdownBegin, ShutdownReturn, Restart
<1>. QED
  BY <1>1, <1>2, <1>3, <1>4, <1>5, <1>6, <1>7, <1>8, <1>9, <1>10, <1>11,
     <1>12, <1>13, <1>14, <1>15, <1>16, <1>17, <1>18, <1>19
     DEF Next, StartStep, WorkerStep, FinishStep

\* A terminal snapshot is published after its record, and an answer repeats
\* the snapshot or the record.
LEMMA KnownStep ==
  ASSUME TypeOK, LockDiscipline, OpenUntilRecorded, KnownIsRecorded,
         UnknownIsGone, [Next]_vars
  PROVE  KnownIsRecorded'
<1>. USE DEF vars, diskVars, runVars, catalogVars, threadVars, obsVars, TypeOK,
      LockDiscipline, OpenUntilRecorded, KnownIsRecorded, Outcomes, LockFree,
      Live, Recorded, UnknownIsGone, EndStatuses
<1>1. ASSUME NEW e \in Execs, StartPersist(e)
      PROVE  KnownIsRecorded'
  BY <1>1 DEF StartPersist
<1>2. ASSUME NEW e \in Execs, StartSubmit(e)
      PROVE  KnownIsRecorded'
  BY <1>2, NoExecAssumption DEF StartSubmit
<1>3. ASSUME NEW e \in Execs, StartDispatchFails(e)
      PROVE  KnownIsRecorded'
  BY <1>3, NoExecAssumption DEF StartDispatchFails
<1>4. ASSUME NEW e \in Execs, WorkerBegin(e)
      PROVE  KnownIsRecorded'
  BY <1>4 DEF WorkerBegin
<1>5. ASSUME NEW e \in Execs, WorkerReturn(e)
      PROVE  KnownIsRecorded'
  BY <1>5 DEF WorkerReturn
<1>6. ASSUME NEW e \in Execs, WorkerRaise(e)
      PROVE  KnownIsRecorded'
  BY <1>6 DEF WorkerRaise, MayTear
<1>7. ASSUME NEW e \in Execs, FinishPersist(e)
      PROVE  KnownIsRecorded'
  BY <1>7, VerdictIsEnd DEF FinishPersist
<1>8. ASSUME NEW e \in Execs, FinishPersistFails(e)
      PROVE  KnownIsRecorded'
  BY <1>8 DEF FinishPersistFails, FreeSlot
<1>9. ASSUME NEW e \in Execs, FinishPublish(e)
      PROVE  KnownIsRecorded'
  BY <1>9, VerdictIsEnd DEF FinishPublish, FreeSlot
<1>10. ASSUME NEW e \in Execs, Get(e)
      PROVE  KnownIsRecorded'
  BY <1>10, NoExecAssumption DEF Get, Answer, SnapStates
<1>11. CASE Exit
  BY <1>11 DEF Exit, ForgetMemory
<1>12. CASE Crash
  BY <1>12 DEF Crash, ForgetMemory, MayTear
<1>13. ASSUME NEW e \in Execs,
             \/ StartReturn(e)
             \/ RunClaims(e)
             \/ (\E end \in RunEnds : RunEnd(e, end))
             \/ RunReport(e)
             \/ FinishBegin(e)
             \/ FinishDeliver(e)
      PROVE  KnownIsRecorded'
  BY <1>13 DEF StartReturn, RunClaims, RunEnd, RunReport, FinishBegin, FinishDeliver
<1>14. CASE ShutdownBegin \/ ShutdownReturn \/ Restart \/ UNCHANGED vars
  BY <1>14 DEF ShutdownBegin, ShutdownReturn, Restart
<1>. QED
  BY <1>1, <1>2, <1>3, <1>4, <1>5, <1>6, <1>7, <1>8, <1>9, <1>10, <1>11,
     <1>12, <1>13, <1>14
     DEF Next, StartStep, WorkerStep, FinishStep

\* The run files behind a recorded success are not written again: only a
\* running worker writes them, and the record of its execution is open.
LEMMA BackedStep ==
  ASSUME TypeOK, LockDiscipline, OpenUntilRecorded, RecordedSuccessIsBacked,
         [Next]_vars
  PROVE  RecordedSuccessIsBacked'
<1>. USE DEF vars, diskVars, runVars, catalogVars, threadVars, obsVars, TypeOK,
      LockDiscipline, OpenUntilRecorded, RecordedSuccessIsBacked, Outcomes,
      Live, Recorded
<1>1. ASSUME NEW e \in Execs, StartPersist(e)
      PROVE  RecordedSuccessIsBacked'
  BY <1>1 DEF StartPersist
<1>2. ASSUME NEW e \in Execs, RunClaims(e)
      PROVE  RecordedSuccessIsBacked'
  BY <1>2 DEF RunClaims
<1>3. ASSUME NEW e \in Execs, NEW end \in RunEnds, RunEnd(e, end)
      PROVE  RecordedSuccessIsBacked'
  BY <1>3 DEF RunEnd
<1>4. ASSUME NEW e \in Execs, RunReport(e)
      PROVE  RecordedSuccessIsBacked'
  BY <1>4 DEF RunReport
<1>5. ASSUME NEW e \in Execs, WorkerRaise(e)
      PROVE  RecordedSuccessIsBacked'
  BY <1>5 DEF WorkerRaise, MayTear
<1>6. ASSUME NEW e \in Execs, FinishPersist(e)
      PROVE  RecordedSuccessIsBacked'
  BY <1>6, VerdictIsEnd DEF FinishPersist
<1>7. CASE Crash
  BY <1>7 DEF Crash, ForgetMemory, MayTear
<1>8. ASSUME NEW e \in Execs,
             \/ StartSubmit(e)
             \/ StartDispatchFails(e)
             \/ StartReturn(e)
             \/ WorkerBegin(e)
             \/ WorkerReturn(e)
             \/ FinishBegin(e)
             \/ FinishPersistFails(e)
             \/ FinishDeliver(e)
             \/ FinishPublish(e)
             \/ Get(e)
      PROVE  RecordedSuccessIsBacked'
  BY <1>8 DEF StartSubmit, StartDispatchFails, StartReturn, WorkerBegin, WorkerReturn,
      FinishBegin, FinishPersistFails, FinishDeliver, FinishPublish, Get,
      FreeSlot
<1>9. CASE ShutdownBegin \/ ShutdownReturn \/ Exit \/ Restart \/ UNCHANGED vars
  BY <1>9 DEF ShutdownBegin, ShutdownReturn, Exit, Restart
<1>. QED
  BY <1>1, <1>2, <1>3, <1>4, <1>5, <1>6, <1>7, <1>8, <1>9
     DEF Next, StartStep, WorkerStep, FinishStep

\* A delivery is created between the record and the snapshot of a success.
LEMMA DeliveredStep ==
  ASSUME TypeOK, LockDiscipline, OpenUntilRecorded,
         DeliveredIsRecordedSuccess, [Next]_vars
  PROVE  DeliveredIsRecordedSuccess'
<1>. USE DEF vars, diskVars, runVars, catalogVars, threadVars, obsVars, TypeOK,
      LockDiscipline, OpenUntilRecorded, DeliveredIsRecordedSuccess, Outcomes,
      Live, Recorded
<1>1. ASSUME NEW e \in Execs, StartPersist(e)
      PROVE  DeliveredIsRecordedSuccess'
  BY <1>1 DEF StartPersist
<1>2. ASSUME NEW e \in Execs, FinishPersist(e)
      PROVE  DeliveredIsRecordedSuccess'
  BY <1>2, VerdictIsEnd DEF FinishPersist
<1>3. ASSUME NEW e \in Execs, FinishDeliver(e)
      PROVE  DeliveredIsRecordedSuccess'
  BY <1>3 DEF FinishDeliver
<1>4. ASSUME NEW e \in Execs,
             \/ StartSubmit(e)
             \/ StartDispatchFails(e)
             \/ StartReturn(e)
             \/ WorkerBegin(e)
             \/ RunClaims(e)
             \/ (\E end \in RunEnds : RunEnd(e, end))
             \/ RunReport(e)
             \/ WorkerReturn(e)
             \/ WorkerRaise(e)
             \/ FinishBegin(e)
             \/ FinishPersistFails(e)
             \/ FinishPublish(e)
             \/ Get(e)
      PROVE  DeliveredIsRecordedSuccess'
  BY <1>4 DEF StartSubmit, StartDispatchFails, StartReturn, WorkerBegin, RunClaims,
      RunEnd, RunReport, WorkerReturn, WorkerRaise, FinishBegin,
      FinishPersistFails, FinishPublish, Get, FreeSlot, MayTear
<1>5. CASE ShutdownBegin \/ ShutdownReturn \/ Exit \/ Crash \/ Restart \/ UNCHANGED vars
  BY <1>5 DEF ShutdownBegin, ShutdownReturn, Exit, Crash, Restart
<1>. QED
  BY <1>1, <1>2, <1>3, <1>4, <1>5
     DEF Next, StartStep, WorkerStep, FinishStep

\* The answer get() gives is recorded, and a closed record is not changed.
LEMMA AnswerStep ==
  ASSUME TypeOK, LockDiscipline, OpenUntilRecorded, KnownIsRecorded,
         AnswerIsRecorded, [Next]_vars
  PROVE  AnswerIsRecorded'
<1>. USE DEF vars, diskVars, runVars, catalogVars, threadVars, obsVars, TypeOK,
      LockDiscipline, OpenUntilRecorded, KnownIsRecorded, AnswerIsRecorded,
      Outcomes, Live, Recorded, EndStatuses
<1>1. ASSUME NEW e \in Execs, StartPersist(e)
      PROVE  AnswerIsRecorded'
  BY <1>1 DEF StartPersist
<1>2. ASSUME NEW e \in Execs, FinishPersist(e)
      PROVE  AnswerIsRecorded'
  BY <1>2 DEF FinishPersist
<1>3. ASSUME NEW e \in Execs, Get(e)
      PROVE  AnswerIsRecorded'
  BY <1>3 DEF Get, Answer
<1>4. ASSUME NEW e \in Execs,
             \/ StartSubmit(e)
             \/ StartDispatchFails(e)
             \/ StartReturn(e)
             \/ WorkerBegin(e)
             \/ RunClaims(e)
             \/ (\E end \in RunEnds : RunEnd(e, end))
             \/ RunReport(e)
             \/ WorkerReturn(e)
             \/ WorkerRaise(e)
             \/ FinishBegin(e)
             \/ FinishPersistFails(e)
             \/ FinishDeliver(e)
             \/ FinishPublish(e)
      PROVE  AnswerIsRecorded'
  BY <1>4 DEF StartSubmit, StartDispatchFails, StartReturn, WorkerBegin, RunClaims,
      RunEnd, RunReport, WorkerReturn, WorkerRaise, FinishBegin,
      FinishPersistFails, FinishDeliver, FinishPublish, FreeSlot, MayTear
<1>5. CASE ShutdownBegin \/ ShutdownReturn \/ Exit \/ Crash \/ Restart \/ UNCHANGED vars
  BY <1>5 DEF ShutdownBegin, ShutdownReturn, Exit, Crash, Restart
<1>. QED
  BY <1>1, <1>2, <1>3, <1>4, <1>5
     DEF Next, StartStep, WorkerStep, FinishStep

\* An execution that has no snapshot in this process, and whose record is open
\* while nobody holds the lock, was started by an earlier one.
LEMMA UnknownStep ==
  ASSUME TypeOK, LockDiscipline, OpenUntilRecorded, KnownIsRecorded,
         UnknownIsGone, [Next]_vars
  PROVE  UnknownIsGone'
<1>. USE DEF vars, diskVars, runVars, catalogVars, threadVars, obsVars, TypeOK,
      LockDiscipline, OpenUntilRecorded, KnownIsRecorded, UnknownIsGone,
      Outcomes, Live, Recorded, EndStatuses, LockFree, SnapStates
<1>1. ASSUME NEW e \in Execs, StartPersist(e)
      PROVE  UnknownIsGone'
  BY <1>1 DEF StartPersist
<1>2. ASSUME NEW e \in Execs, StartSubmit(e)
      PROVE  UnknownIsGone'
  BY <1>2 DEF StartSubmit
<1>3. ASSUME NEW e \in Execs, StartDispatchFails(e)
      PROVE  UnknownIsGone'
  BY <1>3, NoExecAssumption DEF StartDispatchFails
<1>4. ASSUME NEW e \in Execs, StartReturn(e)
      PROVE  UnknownIsGone'
  BY <1>4, NoExecAssumption DEF StartReturn
<1>5. ASSUME NEW e \in Execs, WorkerBegin(e)
      PROVE  UnknownIsGone'
  BY <1>5 DEF WorkerBegin
<1>6. ASSUME NEW e \in Execs, WorkerReturn(e)
      PROVE  UnknownIsGone'
  BY <1>6 DEF WorkerReturn
<1>7. ASSUME NEW e \in Execs, WorkerRaise(e)
      PROVE  UnknownIsGone'
  BY <1>7 DEF WorkerRaise, MayTear
<1>8. ASSUME NEW e \in Execs, FinishPersist(e)
      PROVE  UnknownIsGone'
  BY <1>8 DEF FinishPersist
<1>9. ASSUME NEW e \in Execs, FinishPersistFails(e)
      PROVE  UnknownIsGone'
  BY <1>9 DEF FinishPersistFails, FreeSlot
<1>10. ASSUME NEW e \in Execs, FinishPublish(e)
      PROVE  UnknownIsGone'
  BY <1>10 DEF FinishPublish, FreeSlot
<1>11. ASSUME NEW e \in Execs, Get(e)
      PROVE  UnknownIsGone'
  BY <1>11, NoExecAssumption DEF Get, Answer
<1>12. CASE Exit
  BY <1>12, NoExecAssumption DEF Exit, ForgetMemory
<1>13. CASE Crash
  BY <1>13, NoExecAssumption DEF Crash, ForgetMemory, MayTear
<1>14. ASSUME NEW e \in Execs,
             \/ RunClaims(e)
             \/ (\E end \in RunEnds : RunEnd(e, end))
             \/ RunReport(e)
             \/ FinishBegin(e)
             \/ FinishDeliver(e)
      PROVE  UnknownIsGone'
  BY <1>14 DEF RunClaims, RunEnd, RunReport, FinishBegin, FinishDeliver
<1>15. CASE ShutdownBegin \/ ShutdownReturn \/ Restart \/ UNCHANGED vars
  BY <1>15 DEF ShutdownBegin, ShutdownReturn, Restart
<1>. QED
  BY <1>1, <1>2, <1>3, <1>4, <1>5, <1>6, <1>7, <1>8, <1>9, <1>10, <1>11,
     <1>12, <1>13, <1>14, <1>15
     DEF Next, StartStep, WorkerStep, FinishStep
-----------------------------------------------------------------------------
(* The safety properties. *)

LEMMA InitIInv == Init => IInv
<1>. SUFFICES ASSUME Init PROVE IInv
  OBVIOUS
<1>. USE NoExecAssumption DEF Init
<1>1. TypeOK
  BY DEF TypeOK, RunFiles, SnapStates, WorkStates
<1>2. LockDiscipline /\ ShutdownDiscipline /\ SlotIsHeldByLiveWork
  BY DEF LockDiscipline, ShutdownDiscipline, SlotIsHeldByLiveWork, Live,
         Outcomes
<1>3. OpenUntilRecorded /\ KnownIsRecorded
  BY DEF OpenUntilRecorded, KnownIsRecorded, Live, Outcomes, Recorded,
         EndStatuses
<1>4. /\ RecordedSuccessIsBacked
      /\ DeliveredIsRecordedSuccess
      /\ AnswerIsRecorded
      /\ UnknownIsGone
  BY DEF RecordedSuccessIsBacked, DeliveredIsRecordedSuccess,
         AnswerIsRecorded, UnknownIsGone, EndStatuses
<1>. QED
  BY <1>1, <1>2, <1>3, <1>4 DEF IInv

LEMMA StepIInv == IInv /\ [Next]_vars => IInv'
<1>. SUFFICES ASSUME IInv, [Next]_vars PROVE IInv'
  OBVIOUS
<1>1. /\ TypeOK' /\ LockDiscipline' /\ ShutdownDiscipline'
      /\ SlotIsHeldByLiveWork'
  BY TypeOKStep, LockDisciplineStep, ShutdownDisciplineStep, SlotStep DEF IInv
<1>2. /\ OpenUntilRecorded' /\ KnownIsRecorded'
      /\ RecordedSuccessIsBacked' /\ DeliveredIsRecordedSuccess'
  BY OpenStep, KnownStep, BackedStep, DeliveredStep DEF IInv
<1>3. AnswerIsRecorded' /\ UnknownIsGone'
  BY AnswerStep, UnknownStep DEF IInv
<1>. QED
  BY <1>1, <1>2, <1>3 DEF IInv

\* The inductive invariant of the execution service.
THEOREM InvariantHolds == Spec => []IInv
<1>1. Init => IInv
  BY InitIInv
<1>2. IInv /\ [Next]_vars => IInv'
  BY StepIInv
<1>. QED
  BY <1>1, <1>2, PTL DEF Spec

\* Every variable keeps its type: a record is never a status that no finished
\* execution may carry, whatever the run files say.
THEOREM TypesHold == Spec => []TypeOK
<1>1. IInv => TypeOK
  BY DEF IInv
<1>. QED
  BY <1>1, InvariantHolds, PTL

\* The capacity slot of ExecutionService is held exactly by live work: nothing
\* queues behind an execution, and no error path keeps the slot.
THEOREM SlotIsExact == Spec => []SlotIsHeldByLiveWork
<1>1. IInv => SlotIsHeldByLiveWork
  BY DEF IInv
<1>. QED
  BY <1>1, InvariantHolds, PTL

\* A success in the catalog is backed by the run files, in every later process.
THEOREM SuccessIsBacked == Spec => []RecordedSuccessIsBacked
<1>1. IInv => RecordedSuccessIsBacked
  BY DEF IInv
<1>. QED
  BY <1>1, InvariantHolds, PTL

\* Only a recorded success is delivered, and only once.
THEOREM DeliveriesAreSuccesses == Spec => []DeliveredIsRecordedSuccess
<1>1. IInv => DeliveredIsRecordedSuccess
  BY DEF IInv
<1>. QED
  BY <1>1, InvariantHolds, PTL

\* A terminal answer was in the catalog before a client saw it.
THEOREM AnswersAreRecorded == Spec => []AnswerIsRecorded
<1>1. IInv => AnswerIsRecorded
  BY DEF IInv
<1>. QED
  BY <1>1, InvariantHolds, PTL

\* INTERRUPTED / UNKNOWN is not told of work that goes on.
THEOREM UnknownMeansGone == Spec => []UnknownIsGone
<1>1. IInv => UnknownIsGone
  BY DEF IInv
<1>. QED
  BY <1>1, InvariantHolds, PTL

\* When a graceful shutdown has returned, the executions of the process are
\* recorded as ended, those with a failed write or submission apart.
THEOREM ShutdownIsClean == Spec => []ShutdownStrandsNothing
<1>1. IInv => ShutdownStrandsNothing
  BY DEF IInv, ShutdownStrandsNothing, ShutdownDiscipline, KnownIsRecorded
<1>. QED
  BY <1>1, InvariantHolds, PTL

\* The answer that an execution ended, or was interrupted, is final.
THEOREM AnswersAreFinal == Spec => AnswersOnlyAdvance
<1>. DEFINE Final(e) ==
       answer[e] \in EndStatuses \cup {"UNKNOWN"} => answer'[e] = answer[e]
<1>1. ASSUME IInv, [Next]_vars
      PROVE  \A e \in Execs : Final(e)
  <2>. SUFFICES ASSUME NEW e \in Execs PROVE Final(e)
    OBVIOUS
  <2>1. ASSUME NEW x \in Execs, Get(x)
        PROVE  Final(e)
    <3>. SUFFICES ASSUME answer[e] \in EndStatuses \cup {"UNKNOWN"}
                  PROVE  answer'[e] = answer[e]
      OBVIOUS
    <3>1. answer' = [answer EXCEPT ![x] = Answer(x)] /\ LockFree
      BY <2>1 DEF Get
    <3>2. CASE x # e
      BY <1>1, <3>1, <3>2 DEF IInv, TypeOK
    <3>3. CASE x = e
      <4>1. answer'[e] = Answer(e)
        BY <1>1, <3>1, <3>3 DEF IInv, TypeOK
      <4>2. ~Recorded(e)
        BY <3>1, NoExecAssumption DEF LockFree, Recorded
      <4>3. snap[e] \in SnapStates
        BY <1>1 DEF IInv, TypeOK
      <4>4. CASE answer[e] \in EndStatuses
        BY <1>1, <4>1, <4>2, <4>3, <4>4
           DEF Answer, IInv, OpenUntilRecorded, KnownIsRecorded,
               AnswerIsRecorded, EndStatuses, SnapStates
      <4>5. CASE answer[e] = "UNKNOWN"
        BY <1>1, <4>1, <4>5 DEF Answer, IInv, KnownIsRecorded, UnknownIsGone
      <4>. QED
        BY <4>4, <4>5
    <3>. QED
      BY <3>2, <3>3
  <2>2. CASE ~\E x \in Execs : Get(x)
    <3>1. answer' = answer
      BY <1>1, <2>2
         DEF Next, StartStep, WorkerStep, FinishStep, vars, obsVars,
             StartPersist, StartSubmit, StartDispatchFails, StartReturn,
             WorkerBegin, RunClaims, RunEnd, RunReport, WorkerReturn,
             WorkerRaise, FinishBegin, FinishPersist, FinishPersistFails,
             FinishDeliver, FinishPublish, ShutdownBegin, ShutdownReturn,
             Exit, Crash, Restart
    <3>. QED
      BY <3>1
  <2>. QED
    BY <2>1, <2>2
<1>2. IInv /\ [Next]_vars =>
        [\A e \in Execs :
           answer[e] \in EndStatuses \cup {"UNKNOWN"} =>
               answer'[e] = answer[e]]_vars
  BY <1>1
<1>. QED
  BY <1>2, InvariantHolds, PTL DEF Spec, AnswersOnlyAdvance

-----------------------------------------------------------------------------
(* The service implements the registry. *)

LEMMA RegistryInit == Init => Registry!Init
BY DEF Init, Registry!Init

LEMMA RegistryStep ==
  ASSUME IInv, [Next]_vars
  PROVE  [Registry!Next]_(Registry!vars)
<1>. DEFINE slot == IF starting # NoExec THEN starting ELSE active
<1>. USE NoExecAssumption
     DEF Registry!vars, Registry!Next, vars, diskVars, runVars, catalogVars,
         threadVars, obsVars
\* start() opens the record and takes the slot.
<1>1. ASSUME NEW e \in Execs, StartPersist(e)
      PROVE  Registry!Open(e)
  BY <1>1 DEF StartPersist, LockFree, Registry!Open
<1>2. ASSUME NEW e \in Execs, StartSubmit(e)
      PROVE  UNCHANGED <<record, slot>>
  BY <1>2 DEF StartSubmit
<1>3. ASSUME NEW e \in Execs, StartDispatchFails(e)
      PROVE  Registry!Release
  BY <1>3 DEF StartDispatchFails, Registry!Release, IInv, LockDiscipline
<1>4. ASSUME NEW e \in Execs, StartReturn(e)
      PROVE  UNCHANGED <<record, slot>>
  <2>1. active = e
    BY <1>4 DEF StartReturn, IInv, TypeOK, WorkStates, LockDiscipline,
                SlotIsHeldByLiveWork, Live
  <2>. QED
    BY <1>4, <2>1 DEF StartReturn
\* The callback closes the record and then gives the slot back.
<1>5. ASSUME NEW e \in Execs, finishing = e
      PROVE  starting = NoExec /\ active = e
  BY <1>5 DEF IInv, LockDiscipline, SlotIsHeldByLiveWork, Live
<1>6. ASSUME NEW e \in Execs, FinishPersist(e)
      PROVE  \E status \in EndStatuses : Registry!Close(e, status)
  <2>1. starting = NoExec /\ active = e
    BY <1>5, <1>6 DEF FinishPersist
  <2>2. record[e] = "RUNNING"
    BY <1>6, <2>1 DEF FinishPersist, IInv, OpenUntilRecorded, Recorded,
                      SlotIsHeldByLiveWork
  <2>3. Verdict(e) \in EndStatuses
    BY VerdictIsEnd DEF IInv
  <2>4. Registry!Close(e, Verdict(e))
    BY <1>6, <2>1, <2>2 DEF FinishPersist, Registry!Close
  <2>. QED
    BY <2>3, <2>4
<1>7. ASSUME NEW e \in Execs, FinishPersistFails(e) \/ FinishPublish(e)
      PROVE  Registry!Release
  <2>1. starting = NoExec /\ active = e
    BY <1>5, <1>7 DEF FinishPersistFails, FinishPublish
  <2>. QED
    BY <1>7, <2>1
       DEF FinishPersistFails, FinishPublish, FreeSlot, Registry!Release
\* The loss of the process gives the slot back, if it was taken.
<1>8. CASE Exit \/ Crash
  <2>1. record' = record /\ slot' = NoExec
    BY <1>8 DEF Exit, Crash, ForgetMemory
  <2>2. CASE slot = NoExec
    BY <2>1, <2>2
  <2>3. CASE slot # NoExec
    BY <2>1, <2>3 DEF Registry!Release
  <2>. QED
    BY <2>2, <2>3
\* The other steps touch neither.
<1>9. ASSUME NEW e \in Execs,
             WorkerStep(e) \/ FinishBegin(e) \/ FinishDeliver(e) \/ Get(e)
      PROVE  UNCHANGED <<record, slot>>
  BY <1>9 DEF WorkerStep, WorkerBegin, RunClaims, RunEnd, RunReport,
              WorkerReturn, WorkerRaise, FinishBegin, FinishDeliver, Get
<1>10. CASE ShutdownBegin \/ ShutdownReturn \/ Restart \/ UNCHANGED vars
  BY <1>10 DEF ShutdownBegin, ShutdownReturn, Restart
<1>. QED
  BY <1>1, <1>2, <1>3, <1>4, <1>6, <1>7, <1>8, <1>9, <1>10
     DEF Next, StartStep, FinishStep, Registry!EndStatuses, EndStatuses

\* The execution service refines the registry: one slot, records opened by the
\* execution that takes it and closed once, by its holder.
THEOREM ServiceImplementsRegistry == Spec => FollowsRegistry
<1>1. Init => Registry!Init
  BY RegistryInit
<1>2. IInv /\ [Next]_vars => [Registry!Next]_(Registry!vars)
  BY RegistryStep
<1>. QED
  BY <1>1, <1>2, InvariantHolds, PTL DEF Spec, FollowsRegistry, Registry!Spec

=============================================================================
