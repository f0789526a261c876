---------------------------- MODULE EngineProofs ----------------------------
(***************************************************************************)
(* Theorems about Engine, for every set of deployments and of ports.       *)
(***************************************************************************)
EXTENDS Engine, TLAPS

-----------------------------------------------------------------------------
(* Records: what the methods of `Deployment` preserve *)

\* Deployment::new makes a well-formed record.
LEMMA NewRecordType == NewRecord \in Record
BY DEF NewRecord, Record, Status, Step, StepStatus, CutoverState, RecoveryState,
       Interruption

\* A status change and the skipping of its pending steps keep the record
\* well formed (transition).
LEMMA TransitionType ==
    ASSUME NEW r \in Record, NEW to \in Status
    PROVE  Transition(r, to) \in Record
BY DEF Transition, Record, StepStatus

\* So do the step changes (start_step, finish_step).
LEMMA StepType ==
    ASSUME NEW r \in Record, NEW s \in Step, NEW ok \in BOOLEAN
    PROVE  StartStep(r, s) \in Record /\ FinishStep(r, s, ok) \in Record
BY DEF StartStep, FinishStep, Record, StepStatus

\* So do the cutover's changes (begin_cutover and its siblings).
LEMMA CutoverType ==
    ASSUME NEW r \in Record
    PROVE  /\ BeginCutover(r) \in Record
           /\ CutoverNotRequired(r) \in Record
           /\ ConfirmCutover(r) \in Record
           /\ FailCutover(r) \in Record
BY DEF BeginCutover, CutoverNotRequired, ConfirmCutover, FailCutover,
       EndInterruption, Record, CutoverState, Interruption

\* And the recovery's (start_recovery, finish_recovery,
\* begin_explicit_recovery).
LEMMA RecoveryType ==
    ASSUME NEW r \in Record, NEW o \in RecoveryState
    PROVE  /\ StartRecovery(r) \in Record
           /\ FinishRecovery(r, o) \in Record
           /\ BeginExplicitRecovery(r) \in Record
<1>1. StartRecovery(r) \in Record /\ FinishRecovery(r, o) \in Record
  BY DEF StartRecovery, FinishRecovery, EndInterruption, Record, RecoveryState,
         Interruption
<1>2. BeginExplicitRecovery(r) \in Record
  <2> DEFINE f == [FailCutover(r) EXCEPT
                     !.steps = [r.steps EXCEPT !["Recovery"] = "Running"]]
  <2>1. f \in Record
    BY CutoverType DEF Record, StepStatus, Step
  <2>2. BeginExplicitRecovery(r) = StartRecovery(f)
    BY DEF BeginExplicitRecovery
  <2> QED BY <2>1, <2>2 DEF StartRecovery, Record, RecoveryState
<1> QED BY <1>1, <1>2

\* Closing a restoration that died part-way keeps the record well formed.
LEMMA CloseType ==
    ASSUME NEW x \in Record
    PROVE  CloseUnfinishedRecovery(x) \in Record
<1> DEFINE rec == IF x.recovery = "InProgress" THEN "RestoreFailed" ELSE x.recovery
           sts == [x.steps EXCEPT !["Recovery"] =
                     IF x.steps["Recovery"] = "Running" THEN "Interrupted"
                     ELSE x.steps["Recovery"]]
<1>1. rec \in RecoveryState
  BY DEF Record, RecoveryState
<1>2. sts \in [Step -> StepStatus]
  BY DEF Record, Step, StepStatus
<1>3. CloseUnfinishedRecovery(x) = [x EXCEPT !.recovery = rec, !.steps = sts]
  BY DEF CloseUnfinishedRecovery
<1> HIDE DEF rec, sts
<1> QED BY <1>1, <1>2, <1>3 DEF Record

\* Startup recovery keeps every record well formed (recover_on_start).
LEMMA RecoverOnStartType ==
    ASSUME NEW r \in Record
    PROVE  RecoverOnStart(r) \in Record
<1>2. InterruptSteps(r) \in Record
  BY DEF InterruptSteps, Record, StepStatus
<1>3. Transition(CloseUnfinishedRecovery(InterruptSteps(r)), "Interrupted") \in Record
  BY <1>2, CloseType, TransitionType DEF Status
<1> QED BY <1>3, CloseType DEF RecoverOnStart

-----------------------------------------------------------------------------
(* Type correctness *)

\* A run that saves a well-formed record and goes on, leaving the runtime, the
\* ledger and the rest of the process alone, keeps the types (Run::save).
LEMMA SaveType ==
    ASSUME TypeOK, pc # "idle", NEW r \in Record, Save(r), pc' \in Pc,
           UNCHANGED <<cur, prev, outcome, entry, lease, runtime, history>>
    PROVE  TypeOK'
BY DEF TypeOK, Save, runtime, history

\* The same for the save of a terminal status (end_cancelled, succeed).
LEMMA EndRunType ==
    ASSUME TypeOK, pc # "idle", NEW r \in Record, NEW s \in Status, EndRun(r, s)
    PROVE  /\ mem' \in Record /\ disk' \in [Dep -> Record]
           /\ pc' = "finish" /\ pc' \in Pc
<1>1. Transition(r, s) \in Record
  BY TransitionType
<1> QED BY <1>1 DEF EndRun, Save, Goto, TypeOK, Pc

\* A process that ends leaves no record in memory behind (finish, a crash).
LEMMA LeaveType ==
    ASSUME Leave, TypeOK
    PROVE  /\ mem' \in Record /\ cur' \in Dep \union {NoDep}
           /\ prev' \in Prev \union {NoPrev} /\ pc' \in Pc
           /\ pc' = "idle" /\ outcome' \in RecoveryState
<1>1. NoRecord \in Record
  BY NewRecordType DEF NoRecord, Record, Status
<1> QED BY <1>1 DEF Leave, Pc, RecoveryState

\* A failure after the cutover began is saved as a well-formed record
\* (fail_after_cutover).
LEMMA FailAfterCutoverType ==
    ASSUME TypeOK, NEW step \in Step, NEW next \in Pc, FailAfterCutover(step, next)
    PROVE  mem' \in Record /\ disk' \in [Dep -> Record] /\ pc' = next
<1> DEFINE f1 == FinishStep(mem, step, FALSE)
           f2 == [f1 EXCEPT !.failure = step]
           f3 == FailCutover(f2)
           f4 == StartStep(f3, "Recovery")
<1>1. f1 \in Record
  BY StepType DEF TypeOK
<1>2. f2 \in Record
  BY <1>1 DEF Record
<1>3. f3 \in Record
  BY <1>2, CutoverType
<1>4. f4 \in Record
  BY <1>3, StepType DEF Step
<1>5. StartRecovery(f4) \in Record
  BY <1>4, RecoveryType DEF RecoveryState
<1>6. Save(StartRecovery(f4)) /\ Goto(next)
  BY DEF FailAfterCutover
<1> QED BY <1>5, <1>6 DEF Save, Goto, TypeOK

\* And so is the failure of a new release (NewReleaseFailed, GiveUp).
LEMMA NewReleaseFailedType ==
    ASSUME TypeOK, pc # "idle", NewReleaseFailed
    PROVE  /\ mem' \in Record /\ disk' \in [Dep -> Record]
           /\ pc' \in {"blockers", "finish"}
<1>1. CASE FailAfterCutover("Cutover", "blockers")
  BY <1>1, FailAfterCutoverType DEF Step, Pc
<1>2. CASE EndRun([FinishStep(mem, "Cutover", FALSE) EXCEPT !.failure = "Cutover"], "Failed")
  <2>1. FinishStep(mem, "Cutover", FALSE) \in Record
    BY StepType DEF TypeOK, Step
  <2>2. [FinishStep(mem, "Cutover", FALSE) EXCEPT !.failure = "Cutover"] \in Record
    BY <2>1 DEF Record, Step
  <2> QED BY <1>2, <2>2, EndRunType DEF Status
<1> QED BY <1>1, <1>2 DEF NewReleaseFailed

\* A creation that fails ends a new release or a restoration (GiveUp).
LEMMA GiveUpType ==
    ASSUME TypeOK, pc # "idle", GiveUp
    PROVE  /\ mem' \in Record /\ disk' \in [Dep -> Record]
           /\ pc' \in {"blockers", "finish", "record"}
           /\ outcome' \in RecoveryState
BY NewReleaseFailedType DEF GiveUp, Ends, Goto, TypeOK, RecoveryState

\* The pin of the previous release is a port or none.
LEMMA PrevPinType == TypeOK => PrevPin \in Port \union {NoPort}
BY DEF TypeOK, PrevPin, Prev, NoPrev, Record

\* Reconciliation leaves the ledger and the runtime in their states, whether
\* the runtime can be listed or not (reconcile).
LEMMA CleanupType ==
    ASSUME TypeOK, NEW d, NEW end, Reconciled(d, end) \/ ReconcileUnlisted(d, end)
    PROVE  /\ cont' \in [Container -> ContState]
           /\ entry' \in [Container -> EntryState]
           /\ lease' \in [Dep -> SUBSET Port]
<1>1. ASSUME NEW c \in Container PROVE Resolved(c) \in EntryState
  BY DEF TypeOK, Resolved, EntryState
<1>2. ASSUME NEW c \in Container PROVE Failing(c, end) \in EntryState
  BY DEF TypeOK, Failing, EntryState
<1>3. ASSUME NEW c \in Container, NEW r \in Removal(c)
      PROVE  r[1] \in EntryState /\ r[2] \in ContState
  BY DEF TypeOK, Removal, EntryState, ContState, Settled
<1> DEFINE m == Main(d)
           k == Restored(d)
<1>4. m \in Container <=> k \in Container
  BY DEF Main, Restored, Container
<1>5. CASE Reconciled(d, end)
  <2>1. PICK r \in (IF end = "NotSucceeded" THEN Removal(m) ELSE {<<Resolved(m), cont[m]>>}),
             s \in {entry[k], Resolved(k)} :
              /\ entry' = [entry EXCEPT ![m] = r[1], ![k] = s]
              /\ cont' = [cont EXCEPT ![m] = r[2]]
              /\ lease' = lease \/ lease' = [lease EXCEPT ![d] = {}]
    BY <1>5 DEF Reconciled
  <2>2. m \in Container => r[1] \in EntryState /\ r[2] \in ContState
    BY <2>1, <1>1, <1>3 DEF TypeOK
  <2>3. k \in Container => s \in EntryState
    BY <2>1, <1>1 DEF TypeOK
  <2> HIDE DEF m, k
  <2> QED BY <2>1, <2>2, <2>3, <1>4 DEF TypeOK
<1>6. CASE ReconcileUnlisted(d, end)
  <2>1. PICK r \in {entry[m], Failing(m, end)}, s \in {entry[k], Failing(k, end)} :
              entry' = [entry EXCEPT ![m] = r, ![k] = s]
    BY <1>6 DEF ReconcileUnlisted
  <2>2. /\ lease' = lease \/ lease' = [lease EXCEPT ![d] = {}]
        /\ cont' = cont
    BY <1>6 DEF ReconcileUnlisted
  <2>3. /\ m \in Container => r \in EntryState
        /\ k \in Container => s \in EntryState
    BY <2>1, <1>2 DEF TypeOK
  <2> HIDE DEF m, k
  <2> QED BY <2>1, <2>2, <2>3 DEF TypeOK
<1> QED BY <1>5, <1>6

\* Every step of a run keeps the types: one case per action of the engine.
LEMMA EngineStepType == TypeOK /\ EngineStep => TypeOK'
<1> SUFFICES ASSUME TypeOK, EngineStep PROVE TypeOK'
  OBVIOUS
<1> USE DEF Goto
<1>0. pc \in Pc /\ mem \in Record /\ outcome \in RecoveryState
  BY DEF TypeOK
<1>1. CASE Begin
  BY <1>1, SaveType, TransitionType DEF Begin, Pc, Status, TypeOK
<1>2. CASE Cancel
  BY <1>2, <1>0, EndRunType DEF Cancel, TypeOK, Status, PreSteps, runtime, history
<1>3. CASE Confirm
  BY <1>3 DEF Confirm, TypeOK, Pc, journal, runtime, history
<1>4. CASE NotConfirmed
  BY <1>4, <1>0, EndRunType DEF NotConfirmed, TypeOK, Status, runtime, history
<1>5. ASSUME NEW s \in PreSteps, PreStart(s) PROVE TypeOK'
  <2>1. StartStep(mem, s) \in Record
    BY <1>0, StepType DEF PreSteps, Step
  <2>2. ExecOf(s) \in Pc
    BY DEF ExecOf, PreSteps, Pc
  <2> QED BY <1>5, <2>1, <2>2, SaveType DEF PreStart, PreSteps
<1>6. ASSUME NEW s \in PreSteps, PrePass(s) PROVE TypeOK'
  <2>1. FinishStep(mem, s, TRUE) \in Record
    BY <1>0, StepType DEF PreSteps, Step
  <2>2. [FinishStep(mem, s, TRUE) EXCEPT !.release = @ \/ s = "Build"] \in Record
    BY <2>1 DEF Record
  <2>3. AfterPre(s) \in Pc /\ ExecOf(s) # "idle"
    BY DEF AfterPre, ExecOf, PreSteps, Pc
  <2> QED BY <1>6, <2>2, <2>3, SaveType DEF PrePass
<1>7. ASSUME NEW s \in PreSteps, PreFail(s) PROVE TypeOK'
  <2>1. FinishStep(mem, s, FALSE) \in Record
    BY <1>0, StepType DEF PreSteps, Step
  <2>2. [FinishStep(mem, s, FALSE) EXCEPT !.failure = s] \in Record
    BY <2>1 DEF Record, PreSteps, Step
  <2>3. ExecOf(s) # "idle"
    BY DEF ExecOf, PreSteps
  <2> QED BY <1>7, <2>2, <2>3, EndRunType DEF PreFail, TypeOK, Status, runtime, history
<1>8. CASE PlanLease
  BY <1>8 DEF PlanLease, TypeOK, Free, Record, Pc, runtime, history
<1>9. CASE PlanFail
  <2>1. [mem EXCEPT !.failure = "Cutover", !.pinned = NoPort] \in Record
    BY <1>0 DEF Record, Step
  <2> QED BY <1>9, <2>1, EndRunType DEF PlanFail, TypeOK, Status, runtime, history
<1>10. CASE Pin
  BY <1>10, <1>0, SaveType DEF Pin, Pc
<1>11. CASE BeginReplace
  <2> DEFINE b == [BeginCutover(mem) EXCEPT !.replaces = prev.rel]
  <2>1. BeginCutover(mem) \in Record
    BY <1>0, CutoverType
  <2>2. b \in Record
    BY <1>11, <2>1 DEF Record, BeginReplace, TypeOK, Prev
  <2>3. StartStep(b, "Cutover") \in Record
    BY <2>2, StepType DEF Step
  <2> QED BY <1>11, <2>3, SaveType DEF BeginReplace, Pc
<1>12. CASE BeginFirst
  <2>1. StartStep(CutoverNotRequired(mem), "Cutover") \in Record
    BY <1>0, CutoverType, StepType DEF Step
  <2> QED BY <1>12, <2>1, SaveType DEF BeginFirst, Pc
<1>13. CASE StopCurrent
  BY <1>13 DEF StopCurrent, Stopped, TypeOK, Pc, ContState, journal
<1>14. CASE StopFail
  <2>1. mem' \in Record /\ disk' \in [Dep -> Record] /\ pc' = "blockers"
    BY <1>14, FailAfterCutoverType DEF StopFail, Step, Pc
  <2> QED BY <1>14, <2>1 DEF StopFail, Stopped, TypeOK, Pc, ContState
<1>15. CASE CreateRefused
  BY <1>15, GiveUpType DEF CreateRefused, TypeOK, Pc, runtime, history
<1>16. CASE Intend
  BY <1>16 DEF Intend, TypeOK, EntryState, Pc, runtime, history
<1>17. ASSUME Made, pc = "creating"
       PROVE  cont' \in [Container -> ContState] /\ port' \in [Container -> Port \union {NoPort}]
  BY <1>17, PrevPinType DEF Made, TargetPorts, TypeOK, ContState
<1>18. CASE Make
  BY <1>18, <1>17 DEF Make, TypeOK, Pc, journal, history
<1>19. CASE MakeFail
  BY <1>19, <1>17, GiveUpType DEF MakeFail, TypeOK, Pc, runtime, history
<1>20. CASE Receipt
  BY <1>20 DEF Receipt, TypeOK, EntryState, Pc, runtime, history
<1>21. CASE Start
  BY <1>21 DEF Start, TypeOK, ContState, Pc, journal, history
<1>22. CASE StartFail
  BY <1>22, NewReleaseFailedType DEF StartFail, TypeOK, ContState, Pc, history
<1>23. CASE Collide
  BY <1>23 DEF Collide, TypeOK, ContState, EntryState, Pc, history
<1>24. CASE DiscardFail
  BY <1>24, NewReleaseFailedType DEF DiscardFail, TypeOK, EntryState, Pc, runtime, history
<1>25. CASE GiveBack
  BY <1>25 DEF GiveBack, TypeOK, Pc, runtime, history
<1>26. CASE Reallocate
  BY <1>26 DEF Reallocate, Free, TypeOK, Pc, runtime, history
<1>27. CASE ReallocateFail
  BY <1>27, NewReleaseFailedType DEF ReallocateFail, TypeOK, Pc, runtime, history
<1>28. ASSUME pc # "idle" PROVE Repinned \in Record
  BY <1>28, <1>0 DEF Repinned, TypeOK, Record, Container, Main
<1>29. CASE Repin
  BY <1>29, <1>28, SaveType DEF Repin, Pc
<1>30. CASE FinalCheckStart
  <2>1. ASSUME NEW r \in Record
        PROVE  StartStep(FinishStep(r, "Cutover", TRUE), "FinalCheck") \in Record
    BY StepType DEF Step
  <2> QED BY <1>30, <1>0, <1>28, <2>1, SaveType DEF FinalCheckStart, Pc
<1>31. CASE FinalCheckPass
  <2> DEFINE checked == FinishStep(mem, "FinalCheck", TRUE)
  <2>1. checked \in Record /\ ConfirmCutover(checked) \in Record
    BY <1>0, StepType, CutoverType DEF Step
  <2>2. EndRun(checked, "Succeeded") \/ EndRun(ConfirmCutover(checked), "Succeeded")
    BY <1>31 DEF FinalCheckPass
  <2> QED BY <1>31, <2>1, <2>2, EndRunType DEF FinalCheckPass, TypeOK, Status, runtime, history
<1>32. CASE FinalCheckFail
  <2>1. FinishStep(mem, "FinalCheck", FALSE) \in Record
    BY <1>0, StepType DEF Step
  <2>2. [FinishStep(mem, "FinalCheck", FALSE) EXCEPT !.failure = "FinalCheck"] \in Record
    BY <2>1 DEF Record, Step
  <2>3. /\ mem' \in Record /\ disk' \in [Dep -> Record]
        /\ pc' \in {"stop_failed_new", "stop_failed_first"}
    BY <1>32, <2>2, FailAfterCutoverType DEF FinalCheckFail, Step, Pc, TypeOK
  <2> QED BY <1>32, <2>3 DEF FinalCheckFail, TypeOK, Pc, runtime, history
<1>33. StopNew => cont' \in [Container -> ContState]
  BY DEF StopNew, TypeOK, ContState
<1>34. CASE StopFailedFirst
  BY <1>34, <1>0, <1>33, EndRunType DEF StopFailedFirst, TypeOK, Status, history
<1>35. CASE StopFailedNew
  BY <1>35, <1>33 DEF StopFailedNew, TypeOK, Pc, journal, history
<1>36. CASE RestoreNotAttempted
  BY <1>36 DEF RestoreNotAttempted, Ends, TypeOK, Pc, RecoveryState, journal, runtime, history
<1>37. CASE RestoreGoesOn
  BY <1>37 DEF RestoreGoesOn, TypeOK, Pc, journal, runtime, history
<1>38. CASE RestoreRefused
  BY <1>38 DEF RestoreRefused, Ends, TypeOK, Pc, RecoveryState, journal, runtime
<1>39. CASE RestoreLease
  BY <1>39, PrevPinType DEF RestoreLease, TypeOK, Pc, runtime
<1>40. CASE RestoreStart
  BY <1>40 DEF RestoreStart, Ends, TypeOK, Pc, ContState, RecoveryState,
               ServiceRestored, journal, history
<1>41. CASE RestoreStartFail
  BY <1>41 DEF RestoreStartFail, Ends, TypeOK, Pc, ContState, RecoveryState,
               journal, history
<1>42. CASE RecordRecovery
  <2> DEFINE closed == FinishStep(FinishRecovery(mem, outcome), "Recovery",
                                  outcome \in ServiceRestored)
  <2>1. FinishRecovery(mem, outcome) \in Record
    BY <1>0, RecoveryType
  <2>2. closed \in Record
    BY <2>1 DEF FinishStep, Record, Step, StepStatus
  <2>3. CASE mem.status = "Running" /\ EndRun(closed, "Failed") /\ UNCHANGED <<cur, prev, outcome>>
    BY <1>42, <2>2, <2>3, EndRunType DEF RecordRecovery, TypeOK, Status, runtime, history
  <2>4. CASE mem.status = "Interrupted" /\ disk' = [disk EXCEPT ![cur] = closed] /\ Leave
    <3>1. disk' \in [Dep -> Record]
      BY <2>2, <2>4 DEF TypeOK
    <3> QED BY <1>42, <2>4, <3>1, LeaveType DEF RecordRecovery, TypeOK, runtime, history
  <2> QED BY <1>42, <2>3, <2>4 DEF RecordRecovery
<1>43. CASE PrecheckBlocks
  BY <1>43, LeaveType DEF PrecheckBlocks, TypeOK, journal, runtime, history
<1>44. CASE PrecheckPasses
  BY <1>44, <1>0, RecoveryType, SaveType DEF PrecheckPasses, Pc
<1>45. CASE Finish
  BY <1>45, LeaveType, CleanupType DEF Finish, TypeOK, history
<1> QED
  BY <1>1, <1>2, <1>3, <1>4, <1>5, <1>6, <1>7, <1>8, <1>9, <1>10, <1>11, <1>12,
     <1>13, <1>14, <1>15, <1>16, <1>18, <1>19, <1>20, <1>21, <1>22, <1>23, <1>24,
     <1>25, <1>26, <1>27, <1>29, <1>30, <1>31, <1>32, <1>34, <1>35, <1>36, <1>37,
     <1>38, <1>39, <1>40, <1>41, <1>42, <1>43, <1>44, <1>45 DEF EngineStep

\* A container that may be serving serves a recorded release
\* (serving_release).
LEMMA CandidateType ==
    ASSUME TypeOK, NEW c \in Candidates
    PROVE  c \in Container /\ ReleaseOf(c) \in Dep
<1>1. CASE \E d \in Used : c = Main(d)
  BY <1>1 DEF Main, Container, ReleaseOf, Used
<1>2. CASE \E d \in Used : c = Restored(d) /\ disk[d].replaces # NoDep
  <2>1. PICK d \in Dep : c = Restored(d) /\ disk[d].replaces # NoDep
    BY <1>2 DEF Used
  <2>2. ReleaseOf(c) = disk[d].replaces /\ c \in Container
    BY <2>1 DEF Restored, ReleaseOf, Container
  <2>3. disk[d].replaces \in Dep \union {NoDep}
    BY DEF TypeOK, Record
  <2> QED BY <2>1, <2>2, <2>3
<1> QED BY <1>1, <1>2 DEF Candidates

\* So do the commands, a crash and a container that exits.
LEMMA CommandType ==
    TypeOK /\ (Command \/ Crash \/ \E c \in Container : Exit(c)) => TypeOK'
<1> SUFFICES ASSUME TypeOK, Command \/ Crash \/ \E c \in Container : Exit(c) PROVE TypeOK'
  OBVIOUS
<1> USE DEF Goto
<1>0. Transition(NewRecord, "Queued") \in Record
  BY NewRecordType, TransitionType DEF Status
<1>1. ASSUME NEW d \in Dep, Deploy(d) PROVE TypeOK'
  BY <1>0, <1>1 DEF Deploy, TypeOK, Pc, journal, runtime, history
<1>2. ASSUME NEW d \in Dep, Replace(d) PROVE TypeOK'
  <2>1. PICK c \in Container : IsServing(c) /\ prev' = [rel |-> ReleaseOf(c), owner |-> c]
    BY <1>2 DEF Replace
  <2>2. ReleaseOf(c) \in Dep
    BY <2>1, CandidateType DEF IsServing, Newest
  <2>3. prev' \in Prev
    BY <2>1, <2>2 DEF Prev
  <2> QED BY <1>0, <1>2, <2>3 DEF Replace, TypeOK, Pc, journal, runtime, history
<1>3. ASSUME NEW d \in Dep, ExplicitRestore(d) PROVE TypeOK'
  <2>1. prev' \in Prev
    BY <1>3 DEF ExplicitRestore, Prev, Main, Container, Used
  <2> QED BY <1>3, <2>1 DEF ExplicitRestore, TypeOK, Pc, journal, runtime, history
<1>4. ASSUME NEW d \in Dep, Reconcile(d) PROVE TypeOK'
  BY <1>4, CleanupType DEF Reconcile, TypeOK, process, history
<1>5. CASE Recover
  BY <1>5, RecoverOnStartType DEF Recover, TypeOK, process, runtime, history
<1>6. CASE Crash
  BY <1>6, LeaveType DEF Crash, TypeOK, journal, runtime, history
<1>7. ASSUME NEW c \in Container, Exit(c) PROVE TypeOK'
  BY <1>7 DEF Exit, TypeOK, ContState, journal, process, history
<1> QED BY <1>1, <1>2, <1>3, <1>4, <1>5, <1>6, <1>7 DEF Command

\* Every record the engine saves is well formed, and the ledger and the runtime
\* stay within their states, in every reachable state.
THEOREM TypeCorrect == Spec => []TypeOK
<1>1. Init => TypeOK
  <2>1. NoRecord \in Record
    BY NewRecordType DEF NoRecord, Record, Status
  <2> QED BY <2>1 DEF Init, TypeOK, Pc, RecoveryState, ContState, EntryState
<1>2. TypeOK /\ [Next]_vars => TypeOK'
  <2>1. TypeOK /\ UNCHANGED vars => TypeOK'
    BY DEF TypeOK, vars
  <2> QED BY <2>1, EngineStepType, CommandType DEF Next
<1> QED BY <1>1, <1>2, PTL DEF Spec

-----------------------------------------------------------------------------
(* At most one restoration *)

\* Only the recovery's own methods change the recovery of a record.
LEMMA RecoveryKept ==
    ASSUME NEW r \in Record, NEW to, NEW s
    PROVE  /\ Transition(r, to).recovery = r.recovery
           /\ StartStep(r, s).recovery = r.recovery
           /\ FinishStep(r, s, TRUE).recovery = r.recovery
           /\ FinishStep(r, s, FALSE).recovery = r.recovery
           /\ BeginCutover(r).recovery = r.recovery
           /\ CutoverNotRequired(r).recovery = r.recovery
           /\ ConfirmCutover(r).recovery = r.recovery
           /\ FailCutover(r).recovery = r.recovery
BY DEF Transition, StartStep, FinishStep, BeginCutover, CutoverNotRequired,
       ConfirmCutover, FailCutover, Record

\* Where no restoration is about to be made or recorded.
Elsewhere == Pc \ {"stop_failed_new", "blockers", "restore", "record"}

\* A save that leaves the recovery alone keeps the invariant (Run::save).
LEMMA SaveAttempt ==
    ASSUME TypeOK, AttemptInv, pc # "idle", NEW r, r.recovery = mem.recovery,
           Save(r), pc' \in Elsewhere, UNCHANGED <<cur, attempts>>
    PROVE  AttemptInv'
BY DEF TypeOK, AttemptInv, Save, Elsewhere

\* So does the save of a terminal status (end_cancelled, succeed).
LEMMA EndRunAttempt ==
    ASSUME TypeOK, AttemptInv, pc # "idle", NEW r \in Record, NEW s,
           r.recovery = mem.recovery, EndRun(r, s), UNCHANGED <<cur, attempts>>
    PROVE  AttemptInv'
<1>1. Transition(r, s).recovery = mem.recovery
  BY RecoveryKept
<1> QED BY <1>1, SaveAttempt DEF EndRun, Goto, Elsewhere, Pc

\* And a step that touches neither the record nor the journal's.
LEMMA IdleAttempt ==
    ASSUME TypeOK, AttemptInv, pc # "idle", pc' \in Elsewhere,
           UNCHANGED <<disk, mem, cur, attempts>>
    PROVE  AttemptInv'
BY DEF TypeOK, AttemptInv, Elsewhere

\* A failure after the cutover began finds no earlier attempt
\* (fail_after_cutover through start_recovery).
LEMMA FailAfterCutoverAttempt ==
    ASSUME TypeOK, AttemptInv, pc # "idle", NEW step \in Step,
           NEW next \in {"blockers", "stop_failed_new"},
           FailAfterCutover(step, next), UNCHANGED <<cur, attempts>>
    PROVE  AttemptInv'
<1> DEFINE f2 == [FinishStep(mem, step, FALSE) EXCEPT !.failure = step]
           f3 == FailCutover(f2)
           f5 == StartRecovery(StartStep(f3, "Recovery"))
<1>1. f2 \in Record /\ f2.recovery = mem.recovery
  <2>1. FinishStep(mem, step, FALSE) \in Record
    BY StepType DEF TypeOK
  <2> QED BY <2>1, RecoveryKept DEF Record, TypeOK
<1>2. f3 \in Record /\ f3.recovery = mem.recovery
  BY <1>1, CutoverType, RecoveryKept
<1>3. mem.recovery = "None"
  BY <1>2 DEF FailAfterCutover, StartRecoveryOK
<1>4. f5.recovery = "InProgress"
  <2>1. StartStep(f3, "Recovery") \in Record
    BY <1>2, StepType DEF Step
  <2> QED BY <2>1 DEF StartRecovery, Record
<1>5. mem' = f5 /\ disk' = [disk EXCEPT ![cur] = f5] /\ pc' = next
  BY DEF FailAfterCutover, Save, Goto
<1> HIDE DEF f5
<1> QED BY <1>3, <1>4, <1>5 DEF AttemptInv, TypeOK

\* The failure of a new release (NewReleaseFailed), and of a creation (GiveUp).
LEMMA GiveUpAttempt ==
    ASSUME TypeOK, AttemptInv, pc # "idle", UNCHANGED <<cur, attempts>>
    PROVE  /\ NewReleaseFailed => AttemptInv'
           /\ GiveUp => AttemptInv'
<1>1. NewReleaseFailed => AttemptInv'
  <2> DEFINE f == [FinishStep(mem, "Cutover", FALSE) EXCEPT !.failure = "Cutover"]
  <2>1. FinishStep(mem, "Cutover", FALSE) \in Record
    BY StepType DEF TypeOK, Step
  <2>2. f \in Record /\ f.recovery = mem.recovery
    BY <2>1, RecoveryKept DEF Record, Step, TypeOK
  <2> QED BY <2>2, EndRunAttempt, FailAfterCutoverAttempt DEF NewReleaseFailed, Step
<1>2. Restoring /\ Ends("RestoreFailed") /\ UNCHANGED <<mem, disk>> => AttemptInv'
  BY DEF Ends, Goto, AttemptInv, TypeOK
<1> QED BY <1>1, <1>2 DEF GiveUp

\* Every step of a run keeps it: one case per action of the engine.
LEMMA EngineStepAttempt == TypeOK /\ AttemptInv /\ EngineStep => AttemptInv'
<1> SUFFICES ASSUME TypeOK, AttemptInv, EngineStep PROVE AttemptInv'
  OBVIOUS
<1> USE DEF Goto
<1>0. mem \in Record /\ outcome \in RecoveryState
  BY DEF TypeOK
<1>1. CASE Begin
  BY <1>0, <1>1, SaveAttempt, RecoveryKept DEF Begin, Elsewhere, Pc, history
<1>2. CASE Cancel
  BY <1>0, <1>2, EndRunAttempt DEF Cancel, PreSteps, history
<1>3. CASE Confirm
  BY <1>3, IdleAttempt DEF Confirm, Elsewhere, Pc, journal, history
<1>4. CASE NotConfirmed
  BY <1>0, <1>4, EndRunAttempt DEF NotConfirmed, history
<1>5. ASSUME NEW s \in PreSteps, PreStart(s) PROVE AttemptInv'
  <2>1. ExecOf(s) \in Elsewhere
    BY DEF ExecOf, PreSteps, Elsewhere, Pc
  <2> QED BY <1>0, <1>5, <2>1, SaveAttempt, RecoveryKept DEF PreStart, PreSteps, history
<1>6. ASSUME NEW s \in PreSteps, PrePass(s) PROVE AttemptInv'
  <2> DEFINE f == [FinishStep(mem, s, TRUE) EXCEPT !.release = @ \/ s = "Build"]
  <2>1. FinishStep(mem, s, TRUE) \in Record
    BY <1>0, StepType DEF PreSteps, Step
  <2>2. f.recovery = mem.recovery
    BY <1>0, <2>1, RecoveryKept DEF Record
  <2>3. AfterPre(s) \in Elsewhere /\ ExecOf(s) # "idle"
    BY DEF AfterPre, ExecOf, PreSteps, Elsewhere, Pc
  <2> QED BY <1>6, <2>2, <2>3, SaveAttempt DEF PrePass, history
<1>7. ASSUME NEW s \in PreSteps, PreFail(s) PROVE AttemptInv'
  <2> DEFINE f == [FinishStep(mem, s, FALSE) EXCEPT !.failure = s]
  <2>1. FinishStep(mem, s, FALSE) \in Record
    BY <1>0, StepType DEF PreSteps, Step
  <2>2. f \in Record /\ f.recovery = mem.recovery
    BY <1>0, <2>1, RecoveryKept DEF Record, PreSteps, Step
  <2>3. ExecOf(s) # "idle"
    BY DEF ExecOf, PreSteps
  <2> QED BY <1>7, <2>2, <2>3, EndRunAttempt DEF PreFail, history
<1>8. CASE PlanLease
  BY <1>0, <1>8 DEF PlanLease, TypeOK, AttemptInv, Record, history
<1>9. CASE PlanFail
  <2> DEFINE f == [mem EXCEPT !.failure = "Cutover", !.pinned = NoPort]
  <2>1. f \in Record /\ f.recovery = mem.recovery
    BY <1>0 DEF Record, Step
  <2> QED BY <1>9, <2>1, EndRunAttempt DEF PlanFail, history
<1>10. CASE Pin
  BY <1>10, SaveAttempt DEF Pin, Elsewhere, Pc, history
<1>11. CASE BeginReplace
  <2> DEFINE b == [BeginCutover(mem) EXCEPT !.replaces = prev.rel]
  <2>1. BeginCutover(mem) \in Record /\ BeginCutover(mem).recovery = mem.recovery
    BY <1>0, CutoverType, RecoveryKept
  <2>2. b \in Record /\ b.recovery = mem.recovery
    BY <1>11, <2>1 DEF Record, BeginReplace, TypeOK, Prev
  <2>3. StartStep(b, "Cutover").recovery = mem.recovery
    BY <2>2, RecoveryKept
  <2> QED BY <1>11, <2>3, SaveAttempt DEF BeginReplace, Elsewhere, Pc, history
<1>12. CASE BeginFirst
  <2>0. CutoverNotRequired(mem) \in Record /\ CutoverNotRequired(mem).recovery = mem.recovery
    BY <1>0, CutoverType DEF CutoverNotRequired, Record
  <2>1. StartStep(CutoverNotRequired(mem), "Cutover").recovery = mem.recovery
    BY <2>0, RecoveryKept
  <2> QED BY <1>12, <2>1, SaveAttempt DEF BeginFirst, Elsewhere, Pc, history
<1>13. CASE StopCurrent
  BY <1>13, IdleAttempt DEF StopCurrent, Elsewhere, Pc, journal
<1>14. CASE StopFail
  BY <1>14, FailAfterCutoverAttempt DEF StopFail, Step
<1>15. CASE CreateRefused
  BY <1>15, GiveUpAttempt DEF CreateRefused, history
<1>16. CASE Intend
  BY <1>16, IdleAttempt DEF Intend, Elsewhere, Pc, history
<1>17. CASE Make
  BY <1>17, IdleAttempt DEF Make, Elsewhere, Pc, journal, history
<1>18. CASE MakeFail
  BY <1>18, GiveUpAttempt DEF MakeFail, history
<1>19. CASE Receipt
  BY <1>19, IdleAttempt DEF Receipt, Elsewhere, Pc, history
<1>20. CASE Start
  BY <1>20, IdleAttempt DEF Start, Elsewhere, Pc, journal, history
<1>21. CASE StartFail \/ DiscardFail \/ ReallocateFail
  BY <1>21, GiveUpAttempt DEF StartFail, DiscardFail, ReallocateFail, history
<1>22. CASE Collide \/ GiveBack \/ Reallocate
  BY <1>22, IdleAttempt DEF Collide, GiveBack, Reallocate, Elsewhere, Pc, history
<1>23. Repinned.recovery = mem.recovery /\ (pc # "idle" => Repinned \in Record)
  BY <1>0 DEF Repinned, Record, TypeOK, Container, Main
<1>24. CASE Repin
  BY <1>24, <1>23, SaveAttempt DEF Repin, Elsewhere, Pc, history
<1>25. CASE FinalCheckStart
  <2>1. ASSUME NEW r \in Record
        PROVE  StartStep(FinishStep(r, "Cutover", TRUE), "FinalCheck").recovery = r.recovery
    <3>1. FinishStep(r, "Cutover", TRUE) \in Record
      BY StepType DEF Step
    <3>2. FinishStep(r, "Cutover", TRUE).recovery = r.recovery
      BY DEF FinishStep, Record
    <3> QED BY <3>1, <3>2, RecoveryKept
  <2> QED BY <1>0, <1>25, <1>23, <2>1, SaveAttempt DEF FinalCheckStart, Elsewhere, Pc, history
<1>26. CASE FinalCheckPass
  <2> DEFINE checked == FinishStep(mem, "FinalCheck", TRUE)
  <2>0. checked \in Record /\ checked.recovery = mem.recovery
    <3>1. checked \in Record
      BY <1>0, StepType DEF Step
    <3> QED BY <1>0, <3>1 DEF FinishStep, Record
  <2>1. ConfirmCutover(checked) \in Record /\ ConfirmCutover(checked).recovery = mem.recovery
    <3> HIDE DEF checked
    <3>1. ConfirmCutover(checked) \in Record
      BY <2>0, CutoverType
    <3> QED BY <2>0, <3>1 DEF ConfirmCutover, Record
  <2>2. EndRun(checked, "Succeeded") \/ EndRun(ConfirmCutover(checked), "Succeeded")
    BY <1>26 DEF FinalCheckPass
  <2> QED BY <1>26, <2>0, <2>1, <2>2, EndRunAttempt DEF FinalCheckPass, history
<1>27. CASE FinalCheckFail
  <2> DEFINE f == [FinishStep(mem, "FinalCheck", FALSE) EXCEPT !.failure = "FinalCheck"]
  <2>1. FinishStep(mem, "FinalCheck", FALSE) \in Record
    BY <1>0, StepType DEF Step
  <2>2. f.recovery = mem.recovery
    BY <1>0, <2>1, RecoveryKept DEF Record
  <2>3. CASE FailAfterCutover("FinalCheck", "stop_failed_new")
    BY <1>27, <2>3, FailAfterCutoverAttempt DEF FinalCheckFail, Step, history
  <2>4. CASE mem' = f /\ pc' = "stop_failed_first" /\ UNCHANGED disk
    BY <1>27, <2>2, <2>4 DEF FinalCheckFail, AttemptInv, TypeOK, history
  <2> QED BY <1>27, <2>3, <2>4 DEF FinalCheckFail
<1>28. CASE StopFailedFirst
  BY <1>0, <1>28, EndRunAttempt DEF StopFailedFirst, history
<1>29. CASE StopFailedNew \/ RestoreGoesOn
  BY <1>29 DEF StopFailedNew, RestoreGoesOn, AttemptInv, TypeOK, journal, history
<1>30. CASE RestoreNotAttempted
  BY <1>30 DEF RestoreNotAttempted, Ends, AttemptInv, TypeOK, journal, history
<1>31. CASE RestoreRefused
  BY <1>31 DEF RestoreRefused, Ends, AttemptInv, TypeOK, journal
<1>32. CASE RestoreLease
  BY <1>32 DEF RestoreLease, AttemptInv, TypeOK
<1>33. CASE RestoreStart \/ RestoreStartFail
  BY <1>33 DEF RestoreStart, RestoreStartFail, Ends, AttemptInv, TypeOK,
               ServiceRestored, journal, history
<1>34. CASE RecordRecovery
  <2> DEFINE f == FinishRecovery(mem, outcome)
             closed == FinishStep(f, "Recovery", outcome \in ServiceRestored)
  <2>1. f \in Record /\ f.recovery = outcome
    BY <1>0, RecoveryType DEF FinishRecovery, Record
  <2>2. closed \in Record /\ closed.recovery = outcome
    BY <2>1 DEF FinishStep, Record, Step, StepStatus
  <2>3. outcome # "None"
    BY <1>34 DEF RecordRecovery, AttemptInv
  <2>4. CASE mem.status = "Running" /\ EndRun(closed, "Failed") /\ UNCHANGED <<cur, prev, outcome>>
    <3>1. Transition(closed, "Failed").recovery = outcome
      BY <2>2, RecoveryKept
    <3>2. /\ mem' = Transition(closed, "Failed") /\ pc' = "finish"
          /\ disk' = [disk EXCEPT ![cur] = Transition(closed, "Failed")]
      BY <2>4 DEF EndRun, Save
    <3> HIDE DEF closed
    <3> QED BY <1>34, <2>3, <2>4, <3>1, <3>2 DEF RecordRecovery, AttemptInv, TypeOK, history
  <2>5. CASE mem.status = "Interrupted" /\ disk' = [disk EXCEPT ![cur] = closed] /\ Leave
    <3> HIDE DEF closed
    <3> QED BY <1>34, <2>2, <2>3, <2>5 DEF RecordRecovery, Leave, AttemptInv, TypeOK, history
  <2> QED BY <1>34, <2>4, <2>5 DEF RecordRecovery
<1>35. CASE PrecheckBlocks \/ Finish
  BY <1>35 DEF PrecheckBlocks, Finish, Leave, AttemptInv, TypeOK, journal, history
<1>36. CASE PrecheckPasses
  <2> DEFINE x == [FailCutover(mem) EXCEPT
                     !.steps = [mem.steps EXCEPT !["Recovery"] = "Running"]]
  <2>1. mem.recovery = "None"
    BY <1>36 DEF PrecheckPasses, CanRecoverExplicitly
  <2>2. BeginExplicitRecovery(mem).recovery = "InProgress"
    <3>1. x \in Record
      BY <1>0, CutoverType DEF Record, Step, StepStatus
    <3>2. BeginExplicitRecovery(mem) = StartRecovery(x)
      BY DEF BeginExplicitRecovery
    <3> QED BY <3>1, <3>2 DEF StartRecovery, Record
  <2>3. attempts[cur] = 0
    BY <1>36, <2>1 DEF PrecheckPasses, AttemptInv, TypeOK
  <2> QED BY <1>36, <2>2, <2>3 DEF PrecheckPasses, Save, AttemptInv, TypeOK, history
<1> QED
  BY <1>1, <1>2, <1>3, <1>4, <1>5, <1>6, <1>7, <1>8, <1>9, <1>10, <1>11, <1>12,
     <1>13, <1>14, <1>15, <1>16, <1>17, <1>18, <1>19, <1>20, <1>21, <1>22, <1>24,
     <1>25, <1>26, <1>27, <1>28, <1>29, <1>30, <1>31, <1>32, <1>33, <1>34, <1>35,
     <1>36 DEF EngineStep

\* So do the commands, a crash and a container that exits.
LEMMA CommandAttempt ==
    TypeOK /\ AttemptInv /\ (Command \/ Crash \/ \E c \in Container : Exit(c)) => AttemptInv'
<1> SUFFICES ASSUME TypeOK, AttemptInv, Command \/ Crash \/ \E c \in Container : Exit(c)
             PROVE  AttemptInv'
  OBVIOUS
<1> USE DEF Goto
<1>1. ASSUME NEW d \in Dep, Deploy(d) \/ Replace(d) PROVE AttemptInv'
  <2>1. disk[d].recovery = "None" /\ Transition(NewRecord, "Queued").recovery = "None"
    BY <1>1, NewRecordType, RecoveryKept
       DEF Deploy, Replace, IsNext, Used, NoRecord, NewRecord
  <2> QED BY <1>1, <2>1 DEF Deploy, Replace, AttemptInv, TypeOK, journal, history
<1>2. ASSUME NEW d \in Dep, ExplicitRestore(d) PROVE AttemptInv'
  BY <1>2 DEF ExplicitRestore, AttemptInv, TypeOK, journal, history
<1>3. ASSUME NEW d \in Dep, Reconcile(d) PROVE AttemptInv'
  BY <1>3 DEF Reconcile, AttemptInv, process, history
<1>4. CASE Recover
  <2>1. ASSUME NEW r \in Record, r.recovery # "None" PROVE RecoverOnStart(r).recovery # "None"
    <3>1. ASSUME NEW x \in Record, x.recovery # "None"
          PROVE  CloseUnfinishedRecovery(x).recovery # "None"
      BY <3>1 DEF CloseUnfinishedRecovery, Record
    <3>2. InterruptSteps(r) \in Record /\ InterruptSteps(r).recovery = r.recovery
      BY DEF InterruptSteps, Record, StepStatus
    <3>3. /\ CloseUnfinishedRecovery(InterruptSteps(r)) \in Record
          /\ CloseUnfinishedRecovery(InterruptSteps(r)).recovery # "None"
      BY <2>1, <3>1, <3>2, CloseType
    <3>4. Transition(CloseUnfinishedRecovery(InterruptSteps(r)), "Interrupted").recovery # "None"
      BY <3>3, RecoveryKept
    <3> QED BY <2>1, <3>1, <3>4 DEF RecoverOnStart
  <2> QED BY <1>4, <2>1 DEF Recover, AttemptInv, TypeOK, process, history
<1>5. CASE Crash
  BY <1>5 DEF Crash, Leave, AttemptInv, journal, history
<1>6. ASSUME NEW c \in Container, Exit(c) PROVE AttemptInv'
  BY <1>6 DEF Exit, AttemptInv, journal, process, history
<1> QED BY <1>1, <1>2, <1>3, <1>4, <1>5, <1>6 DEF Command

\* What a crash cannot separate: the process and the journal agree on the attempt.
LEMMA AttemptsRight == Spec => []AttemptInv
<1>1. Init => AttemptInv
  BY DEF Init, AttemptInv
<1>2. TypeOK /\ AttemptInv /\ [Next]_vars => AttemptInv'
  <2>1. AttemptInv /\ UNCHANGED vars => AttemptInv'
    BY DEF AttemptInv, vars
  <2> QED BY <2>1, EngineStepAttempt, CommandAttempt DEF Next
<1> QED BY <1>1, <1>2, TypeCorrect, PTL DEF Spec

\* A deployment's restoration is made at most once, and never before it is on
\* disk, for any number of deployments, crashes and restarts.
THEOREM AtMostOneRestoration == Spec => []OneAttempt
<1>1. AttemptInv => OneAttempt
  <2> SUFFICES ASSUME AttemptInv, NEW d \in Dep
               PROVE  attempts[d] <= 1 /\ (attempts[d] = 1 => disk[d].recovery # "None")
    BY DEF OneAttempt
  <2>1. CASE attempts[d] = 0
    BY <2>1
  <2>2. CASE attempts[d] = 1 /\ disk[d].recovery # "None"
    BY <2>2
  <2> QED BY <2>1, <2>2 DEF AttemptInv
<1> QED BY <1>1, AttemptsRight, PTL

-----------------------------------------------------------------------------
(* What serves, and what the records say of it *)

Succeeded(d) == disk[d].status = "Succeeded"
Doubtful(d) == ApplicationMayBeDown(disk[d])
Up(c) == cont[c] \in {"running", "dead"}
Crossed == {"Begun", "Confirmed", "Failed"}

\* A deployment that succeeded has a release, a container on record with the
\* port that is pinned, and the lease on that port.
SucceededRight(d) ==
    Succeeded(d) =>
        /\ disk[d].release /\ disk[d].cutover \notin {"Begun", "Failed"}
        /\ entry[Main(d)] = "created"
        /\ disk[d].pinned = port[Main(d)] /\ port[Main(d)] \in lease[d]

\* What a deployment replaces is an earlier one that succeeded, and it is on
\* record from the moment the cutover begins.
ReplacesRight(d) ==
    /\ disk[d].replaces # NoDep => disk[d].replaces < d /\ Succeeded(disk[d].replaces)
    /\ disk[d].cutover \in Crossed => disk[d].replaces # NoDep

\* A restoration follows a failed cutover.  Its container is on record when its
\* success is, and has the port the replaced release is pinned to.
RestoredRight(d) ==
    LET c == Restored(d) IN
    /\ disk[d].recovery # "None" => disk[d].cutover = "Failed"
    /\ disk[d].recovery \in ServiceRestored => entry[c] = "created"
    /\ entry[c] # "failed" /\ (entry[c] = "created" => cont[c] # "absent")
    /\ cont[c] # "absent" => /\ disk[d].recovery # "None"
                             /\ port[c] = disk[disk[d].replaces].pinned

\* Deployments are made in order.
OrderRight(d) ==
    /\ disk[d] = NoRecord \/ disk[d].status # "Superseded"
    /\ d \in Used => \A e \in Dep : e < d => e \in Used

RecordsInv ==
    \A d \in Dep : SucceededRight(d) /\ ReplacesRight(d) /\ RestoredRight(d) /\ OrderRight(d)

\* The points of a run at which the new release has been built, has its port,
\* and has the port its record pins.
BuiltPc == {"PreliminaryCheck", "exec_PreliminaryCheck", "confirm", "plan", "pin", "cutover",
            "stop", "start", "release", "reallocate", "repin", "check", "final"}
StartedPc == {"start", "repin", "check", "final"}
Creation == {"create", "creating", "receipt"}
RestorePc == {"stop_failed_new", "blockers", "restore", "restore_start", "record"}

\* The running process agrees with the journal about what matters to others, and
\* works on the last deployment.
RunAgrees ==
    /\ mem.cutover = disk[cur].cutover /\ mem.recovery = disk[cur].recovery
    /\ mem.replaces = disk[cur].replaces /\ mem.status # "Superseded"
    /\ pc # "begin" => mem.status = disk[cur].status
    /\ pc = "begin" => disk[cur] = NoRecord /\ \A e \in Dep : e < cur => e \in Used
    /\ pc # "finish" => mem.status # "Succeeded" /\ mem.recovery \notin ServiceRestored
    /\ \A e \in Dep : e > cur => disk[e] = NoRecord

\* The release being replaced, and the container that serves it.
RunReplaces ==
    /\ prev # NoPrev => prev.rel < cur /\ prev.owner[1] < cur /\ Succeeded(prev.rel)
    /\ mem.cutover \in Crossed => prev # NoPrev /\ mem.replaces = prev.rel
    /\ pc = "stop" => mem.cutover = "Begun"

\* The container of the new release.
RunStarts ==
    /\ pc \in BuiltPc \/ (pc \in Creation /\ ~Restoring) => mem.release
    /\ pc \in StartedPc \/ (pc = "receipt" /\ ~Restoring) => port[Main(cur)] \in lease[cur]
    /\ pc \in StartedPc => entry[Main(cur)] = "created"
    /\ pc \in {"check", "final"} => mem.pinned = port[Main(cur)]

\* The container of the restoration.
RunRestores ==
    /\ pc \in RestorePc => Restoring
    /\ pc = "receipt" /\ Restoring => cont[Restored(cur)] # "absent"
    /\ pc = "restore_start" => entry[Restored(cur)] = "created"
    /\ pc = "record" /\ outcome \in ServiceRestored =>
          entry[Restored(cur)] = "created" /\ Up(Restored(cur))

RunInv == pc # "idle" => RunAgrees /\ RunReplaces /\ RunStarts /\ RunRestores

\* A container the records may call serving is up, unless a later deployment has
\* taken its place or has put that in doubt.
UpInv ==
    \A c \in Candidates :
        \/ Up(c)
        \/ \E d \in Dep : d > c[1] /\ (Doubtful(d) \/ \E o \in Candidates : o[1] = d)

ServingInv == RecordsInv /\ RunInv /\ UpInv

\* Only the last deployment may be in doubt, and while it is, nothing else runs.
DoubtInv ==
    \A d \in Dep : Doubtful(d) => /\ \A e \in Dep : e > d => disk[e] = NoRecord
                                  /\ pc # "idle" => cur = d

\* Something serves if anything may, and while a replacement is not confirmed or
\* restored, it is what is being replaced.
ServedInv ==
    /\ Candidates # {} => Newest(Candidates) # {}
    /\ \A d \in Dep : Doubtful(d) =>
          Candidates # {} /\ \A c \in Newest(Candidates) : ReleaseOf(c) = disk[d].replaces
    /\ pc \notin {"idle", "finish"} =>
          IF prev = NoPrev THEN Candidates = {}
          ELSE Candidates # {} /\ \A c \in Newest(Candidates) : ReleaseOf(c) = prev.rel

PromiseInv == ServingInv /\ DoubtInv /\ ServedInv

-----------------------------------------------------------------------------
(* Records and containers *)

\* The fields the rest of the engine reads.
SameFields(x, r) ==
    /\ x.status = r.status /\ x.cutover = r.cutover /\ x.recovery = r.recovery
    /\ x.replaces = r.replaces /\ x.release = r.release /\ x.pinned = r.pinned

\* A step that starts or finishes changes none of them.
LEMMA StepFields ==
    ASSUME NEW r \in Record, NEW s, NEW ok
    PROVE  SameFields(StartStep(r, s), r) /\ SameFields(FinishStep(r, s, ok), r)
BY DEF StartStep, FinishStep, Record, SameFields

\* A transition changes the status only.
LEMMA TransitionFields ==
    ASSUME NEW r \in Record, NEW to
    PROVE  LET x == Transition(r, to) IN
              /\ x.status = to /\ x.cutover = r.cutover /\ x.recovery = r.recovery
              /\ x.replaces = r.replaces /\ x.release = r.release /\ x.pinned = r.pinned
BY DEF Transition, Record

\* The record of a deployment that has not begun.
LEMMA NoRecordFields ==
    /\ NoRecord \in Record /\ NoRecord.status = "Superseded" /\ NoRecord.recovery = "None"
    /\ NoRecord.cutover = "NotStarted" /\ NoRecord.replaces = NoDep /\ ~NoRecord.release
<1>1. NoRecord \in Record
  BY NewRecordType DEF NoRecord, Record, Status
<1> QED BY <1>1 DEF NoRecord, NewRecord

\* Containers are told apart by their deployment and their kind.
LEMMA Distinct ==
    /\ \A d : Main(d)[1] = d /\ Restored(d)[1] = d
    /\ \A d, e : Main(d) # Restored(e)
    /\ \A d, e : Main(d) = Main(e) => d = e
    /\ \A d, e : Restored(d) = Restored(e) => d = e
    /\ \A d \in Dep : Main(d) \in Container /\ Restored(d) \in Container
    /\ \A c \in Container : c[1] \in Dep /\ (c = Main(c[1]) \/ c = Restored(c[1]))
BY DEF Main, Restored, Container

\* No deployment is the absent one.
LEMMA NoPrevFacts ==
    /\ NoDep \notin Dep /\ NoPrev.rel = NoDep
    /\ TypeOK => (prev = NoPrev <=> prev.rel = NoDep)
    /\ TypeOK /\ prev # NoPrev => prev.rel \in Dep /\ prev.owner \in Container
<1>1. NoDep \notin Dep
  BY DepAssumption
<1> QED BY <1>1 DEF NoPrev, Prev, TypeOK

\* A record in doubt is one whose cutover began and was not confirmed, and whose
\* release was not restored.
LEMMA DoubtFields ==
    ASSUME NEW r, r.recovery # "None" => r.cutover = "Failed"
    PROVE  /\ ApplicationMayBeDown(r) => r.cutover \in Crossed
           /\ ApplicationMayBeDown(r) <=> /\ r.cutover \in {"Begun", "Failed"}
                                          /\ r.recovery \notin ServiceRestored
BY DEF ApplicationMayBeDown, Crossed, ServiceRestored

\* Under the invariant the containers the records may call serving are exactly
\* those of the deployments that succeeded and of the restorations that worked.
CandidatesAre ==
    \A c : c \in Candidates <=>
        \E d \in Dep : \/ Succeeded(d) /\ c = Main(d)
                       \/ disk[d].recovery \in ServiceRestored /\ c = Restored(d)

LEMMA WhoServes == TypeOK /\ RecordsInv => CandidatesAre
<1> SUFFICES ASSUME TypeOK, RecordsInv PROVE CandidatesAre
  OBVIOUS
<1>1. ASSUME NEW d \in Dep, Succeeded(d) \/ disk[d].recovery \in ServiceRestored
      PROVE  d \in Used
  BY <1>1, NoRecordFields DEF Used, Succeeded, ServiceRestored
<1>2. ASSUME NEW d \in Dep, Succeeded(d)
      PROVE  disk[d].release /\ Live(Main(d))
  BY <1>2 DEF RecordsInv, SucceededRight, Live
<1>3. ASSUME NEW d \in Dep, disk[d].recovery \in ServiceRestored
      PROVE  disk[d].replaces # NoDep /\ Live(Restored(d))
  BY <1>3 DEF RecordsInv, RestoredRight, ReplacesRight, ServiceRestored, Crossed, Live
<1>4. \A d \in Used : d \in Dep
  BY DEF Used
<1> QED BY <1>1, <1>2, <1>3, <1>4 DEF CandidatesAre, Candidates, Succeeded

\* So each is a container of a deployment, and serves a release.
LEMMA ServesWhat ==
    ASSUME TypeOK, RecordsInv, NEW c \in Candidates
    PROVE  /\ c \in Container /\ c[1] \in Dep
           /\ \/ c = Main(c[1]) /\ Succeeded(c[1]) /\ ReleaseOf(c) = c[1]
              \/ /\ c = Restored(c[1]) /\ disk[c[1]].recovery \in ServiceRestored
                 /\ ReleaseOf(c) = disk[c[1]].replaces
           /\ ReleaseOf(c) \in Dep /\ Succeeded(ReleaseOf(c)) /\ ReleaseOf(c) <= c[1]
<1>1. PICK d \in Dep : \/ Succeeded(d) /\ c = Main(d)
                       \/ disk[d].recovery \in ServiceRestored /\ c = Restored(d)
  BY WhoServes DEF CandidatesAre
<1>2. c \in Container /\ c[1] = d
  BY <1>1, Distinct
<1>3. CASE Succeeded(d) /\ c = Main(d)
  <2>1. ReleaseOf(c) = d /\ d <= d
    BY <1>3, DepAssumption DEF ReleaseOf, Main
  <2> QED BY <1>2, <1>3, <2>1
<1>4. CASE disk[d].recovery \in ServiceRestored /\ c = Restored(d)
  <2>1. ReleaseOf(c) = disk[d].replaces
    BY <1>4 DEF ReleaseOf, Restored
  <2>2. disk[d].replaces # NoDep
    BY <1>4 DEF RecordsInv, RestoredRight, ReplacesRight, ServiceRestored, Crossed
  <2>3. disk[d].replaces \in Dep /\ disk[d].replaces < d /\ Succeeded(disk[d].replaces)
    BY <2>2 DEF RecordsInv, ReplacesRight, TypeOK, Record
  <2>4. disk[d].replaces <= d
    <3>1. disk[d].replaces \in Nat /\ d \in Nat
      BY <2>3, DepAssumption
    <3> QED BY <2>3, <3>1
  <2> QED BY <1>2, <1>4, <2>1, <2>3, <2>4
<1> QED BY <1>1, <1>3, <1>4

\* A container of a deployment that serves belongs to one on record, and what is
\* newest is one container.
LEMMA OneNewest ==
    ASSUME TypeOK, RecordsInv, NEW c \in Newest(Candidates), NEW o \in Newest(Candidates)
    PROVE  c = o /\ c[1] \in Used
<1>1. c \in Candidates /\ o \in Candidates /\ c[1] <= o[1] /\ o[1] <= c[1]
  BY DEF Newest
<1>2. c[1] \in Dep /\ o[1] \in Dep
  BY <1>1, ServesWhat
<1>3. c[1] = o[1]
  <2>1. c[1] \in Nat /\ o[1] \in Nat
    BY <1>2, DepAssumption
  <2> QED BY <1>1, <2>1
<1>4. ASSUME NEW d \in Dep, Succeeded(d) PROVE disk[d].recovery \notin ServiceRestored
  BY <1>4 DEF RecordsInv, SucceededRight, RestoredRight, ServiceRestored
<1>5. c = o
  BY <1>1, <1>2, <1>3, <1>4, ServesWhat
<1>6. c[1] \in Used
  BY <1>1, <1>2, ServesWhat, NoRecordFields DEF Used, Succeeded, ServiceRestored
<1> QED BY <1>5, <1>6

\* What the owner is told: the newest candidate serves, and the phase is that of the
\* one deployment in doubt.
ServedIs ==
    /\ Candidates = {} => Served = NoDep
    /\ \A c \in Newest(Candidates) : Served = ReleaseOf(c)

LEMMA ServedRight == TypeOK /\ RecordsInv => ServedIs
<1> SUFFICES ASSUME TypeOK, RecordsInv PROVE ServedIs
  OBVIOUS
<1>1. Candidates = {} => Served = NoDep
  BY DEF Served
<1>2. ASSUME NEW c \in Newest(Candidates) PROVE Served = ReleaseOf(c)
  <2> DEFINE o == CHOOSE x \in Newest(Candidates) : TRUE
  <2>1. o \in Newest(Candidates)
    BY <1>2
  <2>2. Candidates # {}
    BY <1>2 DEF Newest
  <2>3. Served = ReleaseOf(o)
    BY <2>2 DEF Served
  <2> HIDE DEF o
  <2>4. o = c
    BY <1>2, <2>1, OneNewest
  <2> QED BY <2>3, <2>4
<1> QED BY <1>1, <1>2 DEF ServedIs

PhaseIs ==
    /\ (\A d \in Dep : ~Doubtful(d)) => Phase = "steady"
    /\ \A d \in Dep : Doubtful(d) =>
          Phase = IF disk[d].cutover = "Begun" THEN "switching"
                  ELSE IF disk[d].recovery = "InProgress" THEN "restoring" ELSE "lost"

LEMMA PhaseRight == TypeOK /\ RecordsInv /\ DoubtInv => PhaseIs
<1> SUFFICES ASSUME TypeOK, RecordsInv, DoubtInv PROVE PhaseIs
  OBVIOUS
<1>1. ASSUME NEW d \in Dep
      PROVE  /\ disk[d].cutover = "Begun" => d \in Used /\ Doubtful(d)
             /\ disk[d].recovery = "InProgress" =>
                   d \in Used /\ Doubtful(d) /\ disk[d].cutover = "Failed"
             /\ Doubtful(d) => d \in Used
  BY NoRecordFields
     DEF RecordsInv, RestoredRight, Used, Doubtful, ApplicationMayBeDown, ServiceRestored
<1>2. \A d \in Used : d \in Dep
  BY DEF Used
<1>3. (\A d \in Dep : ~Doubtful(d)) => Phase = "steady"
  BY <1>1, <1>2 DEF Phase, MayBeDown, Doubtful
<1>4. ASSUME NEW d \in Dep, Doubtful(d)
      PROVE  Phase = IF disk[d].cutover = "Begun" THEN "switching"
                     ELSE IF disk[d].recovery = "InProgress" THEN "restoring" ELSE "lost"
  <2>1. ASSUME NEW e \in Dep, Doubtful(e) PROVE e = d
    <3>1. disk[e] # NoRecord /\ disk[d] # NoRecord
      BY <1>1, <1>4, <2>1 DEF Used
    <3>2. ~(e > d) /\ ~(d > e)
      BY <1>4, <2>1, <3>1 DEF DoubtInv
    <3>3. e \in Nat /\ d \in Nat
      BY DepAssumption
    <3> QED BY <3>2, <3>3
  <2>2. (\E e \in Used : disk[e].cutover = "Begun") <=> disk[d].cutover = "Begun"
    BY <1>1, <1>2, <2>1
  <2>3. (\E e \in Used : disk[e].recovery = "InProgress") <=> disk[d].recovery = "InProgress"
    BY <1>1, <1>2, <2>1
  <2>4. MayBeDown # {}
    BY <1>1, <1>4 DEF MayBeDown, Doubtful
  <2> QED BY <2>2, <2>3, <2>4 DEF Phase
<1> QED BY <1>3, <1>4 DEF PhaseIs

\* Both hold where the invariant does.
LEMMA OwnerIs == TypeOK /\ PromiseInv => ServedIs /\ PhaseIs
BY ServedRight, PhaseRight DEF PromiseInv, ServingInv

\* A step is right when it keeps the invariant and is one the owner was promised.
OwnerStep == [Owner!Next]_<<Served, Phase>>
Promised == PromiseInv' /\ OwnerStep

\* Served is the same while the candidates and their releases are.
LEMMA ServedKept ==
    ASSUME TypeOK, PromiseInv, TypeOK', PromiseInv', Candidates' = Candidates,
           \A c \in Candidates : ReleaseOf(c)' = ReleaseOf(c)
    PROVE  Served' = Served
<1>1. ServedIs /\ ServedIs'
  BY OwnerIs, PTL
<1>2. CASE Candidates = {}
  BY <1>1, <1>2 DEF ServedIs
<1>3. CASE Candidates # {}
  <2>1. PICK c \in Newest(Candidates) : TRUE
    BY <1>3 DEF PromiseInv, ServedInv
  <2>2. c \in Newest(Candidates)' /\ c \in Candidates
    BY <2>1 DEF Newest
  <2> QED BY <1>1, <2>1, <2>2 DEF ServedIs
<1> QED BY <1>2, <1>3

\* So a step that changes no record is one the owner does not see.
LEMMA NothingSeen ==
    ASSUME TypeOK, PromiseInv, TypeOK', PromiseInv', UNCHANGED disk, Candidates' = Candidates
    PROVE  OwnerStep
<1>1. \A c : ReleaseOf(c)' = ReleaseOf(c)
  BY DEF ReleaseOf
<1>2. Served' = Served
  BY <1>1, ServedKept
<1>3. Phase' = Phase
  BY DEF Phase, Used, MayBeDown
<1> QED BY <1>2, <1>3 DEF OwnerStep

-----------------------------------------------------------------------------
(* Steps that change nothing about what serves *)

\* A step of the run of deployment k that leaves it neither succeeded nor
\* restored: it touches what belongs to k, and of the rest only the container
\* being replaced, once the journal says that k puts it in doubt.
Unserving(k) ==
    /\ pc' # "idle" => cur' = cur /\ prev' = prev
    /\ \A e \in Dep : e # k => disk'[e] = disk[e] /\ lease'[e] = lease[e]
    /\ \A c \in Container : c[1] # k => entry'[c] = entry[c] /\ port'[c] = port[c]
    /\ \A c \in Container : c[1] # k =>
          \/ cont'[c] = cont[c]
          \/ /\ c = prev.owner /\ ApplicationMayBeDown(disk'[k])
             /\ cont[c] # "absent" /\ cont'[c] # "absent"
    /\ disk'[k].status \notin {"Succeeded", "Superseded"}
    /\ disk'[k].recovery \notin ServiceRestored
    /\ Doubtful(k) => ApplicationMayBeDown(disk'[k])
    /\ disk'[k].replaces \in {disk[k].replaces, prev.rel}
    /\ disk'[k].cutover \in Crossed => prev # NoPrev /\ disk'[k].replaces = prev.rel
    /\ disk'[k].recovery # "None" => disk'[k].cutover = "Failed"
    /\ LET c == Restored(k) IN
          /\ entry'[c] # "failed" /\ (entry'[c] = "created" => cont'[c] # "absent")
          /\ cont'[c] # "absent" => /\ disk'[k].recovery # "None"
                                    /\ port'[c] = disk[disk'[k].replaces].pinned

\* The deployment being run has not succeeded and has restored nothing, and its
\* containers are not among those that serve.
LEMMA RunFacts ==
    ASSUME TypeOK, PromiseInv, pc \notin {"idle", "finish"}
    PROVE  /\ cur \in Dep /\ RunAgrees /\ RunReplaces /\ RunStarts /\ RunRestores
           /\ ~Succeeded(cur) /\ disk[cur].recovery \notin ServiceRestored
           /\ \A c \in Candidates : c[1] # cur
<1>1. cur \in Dep /\ RunAgrees /\ RunReplaces /\ RunStarts /\ RunRestores
  BY DEF TypeOK, PromiseInv, ServingInv, RunInv
<1>2. ~Succeeded(cur) /\ disk[cur].recovery \notin ServiceRestored
  BY <1>1, NoRecordFields DEF RunAgrees, Succeeded, ServiceRestored
<1>3. \A c \in Candidates : c[1] # cur
  BY <1>2, ServesWhat DEF PromiseInv, ServingInv
<1> QED BY <1>1, <1>2, <1>3

\* Such a step keeps the records right.
LEMMA UnservingRecords ==
    ASSUME TypeOK, PromiseInv, pc \notin {"idle", "finish"}, TypeOK',
           NEW k \in Dep, k = cur, Unserving(k)
    PROVE  RecordsInv'
<1>1. RecordsInv /\ RunAgrees /\ RunReplaces
  BY RunFacts DEF PromiseInv, ServingInv
<1>2. /\ ~Succeeded(k) /\ ~Succeeded(k)' /\ disk[k].recovery \notin ServiceRestored
      /\ \A e \in Dep : e # k => disk'[e] = disk[e] /\ lease'[e] = lease[e]
  BY RunFacts DEF Unserving, Succeeded
<1>3. \A e \in Dep : Succeeded(e) => e # k /\ disk'[e] = disk[e] /\ Succeeded(e)'
  BY <1>2 DEF Succeeded
<1>4. ASSUME NEW d \in Dep PROVE SucceededRight(d)'
  BY <1>1, <1>2, Distinct DEF RecordsInv, SucceededRight, Succeeded, Unserving
<1>5. prev.rel # NoDep => prev.rel < k /\ Succeeded(prev.rel) /\ prev.rel \in Dep
  BY <1>1, NoPrevFacts DEF RunReplaces
<1>6. ASSUME NEW d \in Dep
      PROVE  disk'[d].replaces # NoDep =>
                /\ disk'[d].replaces \in Dep /\ disk'[d].replaces < d
                /\ Succeeded(disk'[d].replaces)
  <2>1. disk'[d].replaces \in Dep \union {NoDep}
    BY DEF TypeOK, Record
  <2>2. CASE d # k
    BY <1>1, <1>2, <2>1, <2>2 DEF RecordsInv, ReplacesRight
  <2>3. CASE d = k
    BY <1>1, <1>5, <2>1, <2>3 DEF RecordsInv, ReplacesRight, Unserving
  <2> QED BY <2>2, <2>3
<1>7. ASSUME NEW d \in Dep PROVE ReplacesRight(d)'
  <2>1. disk'[d].replaces # NoDep => disk'[d].replaces < d /\ disk'[disk'[d].replaces].status = "Succeeded"
    BY <1>3, <1>6 DEF Succeeded
  <2>2. disk'[d].cutover \in Crossed => disk'[d].replaces # NoDep
    <3>1. CASE d # k
      BY <1>1, <1>2, <3>1 DEF RecordsInv, ReplacesRight
    <3>2. CASE d = k
      BY <3>2, NoPrevFacts DEF Unserving
    <3> QED BY <3>1, <3>2
  <2> QED BY <2>1, <2>2 DEF ReplacesRight, Succeeded
<1>8. ASSUME NEW d \in Dep PROVE RestoredRight(d)'
  <2> DEFINE c == Restored(d)
  <2>0. c \in Container /\ c[1] = d
    BY Distinct
  <2>1. CASE d = k
    <3>1. disk'[k].recovery # "None" => disk'[k].replaces # NoDep
      BY NoPrevFacts DEF Unserving, Crossed
    <3>2. disk'[k].replaces # NoDep => disk'[disk'[k].replaces] = disk[disk'[k].replaces]
      BY <1>3, <1>6
    <3> QED BY <2>1, <3>1, <3>2 DEF RestoredRight, Unserving
  <2>2. CASE d # k
    <3>1. RestoredRight(d) /\ ReplacesRight(d) /\ disk'[d] = disk[d]
      BY <1>1, <1>2, <2>2 DEF RecordsInv
    <3>2. \A x \in Container : x[1] # k => entry'[x] = entry[x] /\ port'[x] = port[x]
      BY DEF Unserving
    <3>3. ASSUME NEW x \in Container, x[1] # k
          PROVE  cont'[x] = cont[x] \/ (cont[x] # "absent" /\ cont'[x] # "absent")
      BY <3>3 DEF Unserving
    <3>4. disk[d].recovery # "None" => disk'[disk[d].replaces] = disk[disk[d].replaces]
      BY <1>3, <1>6, <3>1 DEF RestoredRight, ReplacesRight, Crossed
    <3>5. /\ entry'[c] = entry[c] /\ port'[c] = port[c]
          /\ (cont'[c] = cont[c] \/ (cont[c] # "absent" /\ cont'[c] # "absent"))
      BY <2>0, <2>2, <3>2, <3>3
    <3> QED BY <3>1, <3>4, <3>5 DEF RestoredRight
  <2> QED BY <2>1, <2>2
<1>9. \A e \in Dep : /\ e \in Used => e \in Used'
                     /\ e # k => (e \in Used <=> e \in Used')
  <2>1. disk'[k] # NoRecord
    BY NoRecordFields DEF Unserving
  <2> QED BY <1>2, <2>1 DEF Used
<1>10. ASSUME NEW d \in Dep PROVE OrderRight(d)'
  <2>1. CASE d = k
    <3>1. \A e \in Dep : e < k => e \in Used
      <4>1. CASE pc = "begin"
        BY <1>1, <4>1 DEF RunAgrees
      <4>2. CASE pc # "begin"
        BY <1>1, <4>2, NoRecordFields DEF RunAgrees, RecordsInv, OrderRight, Used
      <4> QED BY <4>1, <4>2
    <3> QED BY <1>9, <2>1, <3>1 DEF OrderRight, Unserving
  <2>2. CASE d # k
    BY <1>1, <1>2, <1>9, <2>2 DEF RecordsInv, OrderRight
  <2> QED BY <2>1, <2>2
<1> QED BY <1>4, <1>7, <1>8, <1>10 DEF RecordsInv

\* What serves is what served, and serves the same release.
LEMMA UnservingCandidates ==
    ASSUME TypeOK, PromiseInv, pc \notin {"idle", "finish"}, TypeOK',
           NEW k \in Dep, k = cur, Unserving(k)
    PROVE  /\ Candidates' = Candidates
           /\ \A c \in Candidates : c[1] # k /\ ReleaseOf(c)' = ReleaseOf(c)
<1>1. RecordsInv /\ RecordsInv'
  BY UnservingRecords DEF PromiseInv, ServingInv
<1>2. CandidatesAre'
  BY <1>1, WhoServes, PTL
<1>3. \A d \in Dep : /\ disk'[d].status = "Succeeded" <=> Succeeded(d)
                     /\ disk'[d].recovery \in ServiceRestored <=> disk[d].recovery \in ServiceRestored
  BY RunFacts DEF Unserving, Succeeded
<1>4. \A c : c \in Candidates' <=> c \in Candidates
  BY <1>1, <1>2, <1>3, WhoServes DEF CandidatesAre, Succeeded
<1>5. ASSUME NEW c \in Candidates PROVE c[1] # k /\ ReleaseOf(c)' = ReleaseOf(c)
  BY <1>1, RunFacts, ServesWhat DEF ReleaseOf, Unserving
<1> QED BY <1>4, <1>5

\* So whatever served is up, or in doubt as before.
LEMMA UnservingUp ==
    ASSUME TypeOK, PromiseInv, pc \notin {"idle", "finish"}, TypeOK',
           NEW k \in Dep, k = cur, Unserving(k)
    PROVE  UpInv'
<1>1. /\ Candidates' = Candidates
      /\ \A c \in Candidates : c[1] # k /\ c \in Container
  BY UnservingCandidates, ServesWhat DEF PromiseInv, ServingInv
<1>2. RunReplaces /\ UpInv
  BY RunFacts DEF PromiseInv, ServingInv
<1>3. \A d \in Dep : Doubtful(d) => ApplicationMayBeDown(disk'[d])
  BY DEF Unserving, Doubtful
<1>4. ASSUME NEW c \in Candidates
      PROVE  \/ cont'[c] \in {"running", "dead"}
             \/ \E d \in Dep : d > c[1] /\ (ApplicationMayBeDown(disk'[d])
                                              \/ \E o \in Candidates : o[1] = d)
  <2>1. CASE cont'[c] = cont[c]
    BY <1>2, <1>3, <2>1 DEF UpInv, Up
  <2>2. CASE cont'[c] # cont[c]
    <3>1. c = prev.owner /\ ApplicationMayBeDown(disk'[k]) /\ cont'[c] # "absent"
      BY <1>1, <2>2 DEF Unserving
    <3>2. CASE prev = NoPrev
      <4>1. c[1] = NoDep /\ c[1] \in Dep
        BY <1>1, <3>1, <3>2, Distinct DEF NoPrev
      <4> QED BY <4>1, NoPrevFacts
    <3>3. CASE prev # NoPrev
      <4>1. prev.owner[1] < k
        BY <1>2, <3>3 DEF RunReplaces
      <4>2. k > c[1]
        BY <3>1, <4>1
      <4> QED BY <3>1, <4>2
    <3> QED BY <3>2, <3>3
  <2> QED BY <2>1, <2>2
<1> QED BY <1>1, <1>4 DEF UpInv, Up, Doubtful

\* Nothing else comes into doubt, and the promise to the replaced release stands.
LEMMA UnservingPromise ==
    ASSUME TypeOK, PromiseInv, pc \notin {"idle", "finish"}, TypeOK',
           NEW k \in Dep, k = cur, Unserving(k)
    PROVE  DoubtInv' /\ ServedInv'
<1>1. /\ Candidates' = Candidates
      /\ \A c \in Candidates : c[1] # k /\ ReleaseOf(c)' = ReleaseOf(c)
  BY UnservingCandidates
<1>2. /\ RunAgrees /\ RunReplaces /\ DoubtInv /\ ServedInv
      /\ pc' # "idle" => cur' = cur /\ prev' = prev
      /\ \A e \in Dep : e # k => disk'[e] = disk[e]
  BY RunFacts DEF PromiseInv, ServingInv, Unserving
<1>3. \A e \in Dep : e > k => disk'[e] = NoRecord /\ disk[e] = NoRecord
  BY <1>2, DepAssumption DEF RunAgrees
<1>4. ASSUME NEW d \in Dep, ApplicationMayBeDown(disk'[d])
      PROVE  d = k /\ disk'[k].cutover \in Crossed
  <2>1. CASE d = k
    BY <2>1, <1>4, DoubtFields DEF Unserving
  <2>2. CASE d # k
    BY <2>2, <1>2, <1>4 DEF DoubtInv, Doubtful
  <2> QED BY <2>1, <2>2
<1>5. DoubtInv'
  BY <1>2, <1>3, <1>4 DEF DoubtInv, Doubtful
<1>6. IF prev = NoPrev THEN Candidates = {}
      ELSE Candidates # {} /\ \A c \in Newest(Candidates) : ReleaseOf(c) = prev.rel
  BY <1>2 DEF ServedInv
<1>7. \A c \in Newest(Candidates) : c \in Candidates
  BY DEF Newest
<1>8. ASSUME NEW d \in Dep, ApplicationMayBeDown(disk'[d])
      PROVE  Candidates # {} /\ \A c \in Newest(Candidates) : ReleaseOf(c)' = disk'[d].replaces
  <2>1. prev # NoPrev /\ disk'[d].replaces = prev.rel
    BY <1>4, <1>8 DEF Unserving
  <2> QED BY <1>1, <1>6, <1>7, <2>1
<1>9. Newest(Candidates)' = Newest(Candidates)
  BY <1>1 DEF Newest
<1>10. Candidates # {} => Newest(Candidates) # {}
  BY <1>2 DEF ServedInv
<1>11. (/\ Candidates # {} => Newest(Candidates) # {}
        /\ \A d \in Dep : Doubtful(d) =>
              Candidates # {} /\ \A c \in Newest(Candidates) : ReleaseOf(c) = disk[d].replaces)'
  BY <1>1, <1>8, <1>9, <1>10 DEF Doubtful
<1>12. pc' # "idle" =>
         (IF prev = NoPrev THEN Candidates = {}
          ELSE Candidates # {} /\ \A c \in Newest(Candidates) : ReleaseOf(c) = prev.rel)'
  BY <1>1, <1>2, <1>6, <1>7, <1>9
<1>13. ServedInv'
  BY <1>11, <1>12 DEF ServedInv
<1> QED BY <1>5, <1>13

\* A step of a run is right when it is one of these and leaves the run right.
LEMMA UnservingKeepsInv ==
    ASSUME TypeOK, PromiseInv, pc \notin {"idle", "finish"}, TypeOK',
           NEW k \in Dep, k = cur, Unserving(k), RunInv'
    PROVE  PromiseInv' /\ Served' = Served
<1>1. PromiseInv'
  BY UnservingRecords, UnservingUp, UnservingPromise DEF PromiseInv, ServingInv
<1>2. Served' = Served
  BY <1>1, UnservingCandidates, ServedKept
<1> QED BY <1>1, <1>2

-----------------------------------------------------------------------------
(* The steps of a run *)

\* What a save may do to the fields that matter to others: nothing, fail the
\* cutover and begin its restoration, begin it, or find that none is required.
CutoverStep(r) ==
    /\ r.status \notin {"Succeeded", "Superseded"}
    /\ \/ r.cutover = mem.cutover /\ r.recovery = mem.recovery /\ r.replaces = mem.replaces
       \/ /\ mem.cutover = "Begun" /\ mem.recovery = "None"
          /\ r.cutover = "Failed" /\ r.recovery = "InProgress" /\ r.replaces = mem.replaces
       \/ /\ mem.cutover = "NotStarted" /\ prev # NoPrev
          /\ r.cutover = "Begun" /\ r.recovery = mem.recovery /\ r.replaces = prev.rel
       \/ /\ mem.cutover = "NotStarted"
          /\ r.cutover = "NotRequired" /\ r.recovery = mem.recovery /\ r.replaces = mem.replaces

\* What belongs to other deployments is left alone, except the container being
\* replaced once its cutover has begun.
OthersKept(k) ==
    /\ cur' = cur /\ prev' = prev
    /\ \A e \in Dep : e # k => lease'[e] = lease[e]
    /\ \A c \in Container : c[1] # k =>
          /\ entry'[c] = entry[c] /\ port'[c] = port[c]
          /\ \/ cont'[c] = cont[c]
             \/ /\ c = prev.owner /\ mem.cutover = "Begun"
                /\ cont[c] # "absent" /\ cont'[c] # "absent"

RestoredKept(k) ==
    LET c == Restored(k)
    IN entry'[c] = entry[c] /\ port'[c] = port[c] /\ cont'[c] = cont[c]

\* The container of a restoration as the step leaves it.
RestoredFits(k) ==
    LET c == Restored(k) IN
    /\ entry'[c] # "failed" /\ (entry'[c] = "created" => cont'[c] # "absent")
    /\ cont'[c] # "absent" => /\ mem'.recovery # "None"
                              /\ port'[c] = disk[mem'.replaces].pinned

Saved(k) == disk' = [disk EXCEPT ![k] = mem']
NotSaved == /\ disk' = disk /\ pc # "begin" /\ mem'.status = mem.status
            /\ mem'.cutover = mem.cutover /\ mem'.recovery = mem.recovery
            /\ mem'.replaces = mem.replaces

LEMMA StepKeepsInv ==
    ASSUME TypeOK, PromiseInv, pc \notin {"idle", "finish"}, TypeOK',
           NEW k \in Dep, k = cur,
           OthersKept(k), RestoredKept(k) \/ RestoredFits(k),
           Saved(k) \/ NotSaved, CutoverStep(mem'),
           pc' \notin {"idle", "begin"}, pc' = "stop" => mem'.cutover = "Begun",
           RunStarts', RunRestores'
    PROVE  Promised
<1>1. /\ RunAgrees /\ RunReplaces /\ RestoredRight(k)
      /\ disk[k].recovery \notin ServiceRestored
  BY RunFacts DEF PromiseInv, ServingInv, RecordsInv
<1>2. /\ \A e \in Dep : e # k => disk'[e] = disk[e]
      /\ disk'[k].cutover = mem'.cutover /\ disk'[k].recovery = mem'.recovery
      /\ disk'[k].replaces = mem'.replaces /\ disk'[k].status = mem'.status
  <2>1. CASE Saved(k)
    BY <2>1 DEF Saved, TypeOK
  <2>2. CASE NotSaved
    BY <1>1, <2>2 DEF NotSaved, RunAgrees
  <2> QED BY <2>1, <2>2
<1>3. /\ mem.cutover = disk[k].cutover /\ mem.recovery = disk[k].recovery
      /\ mem.replaces = disk[k].replaces
      /\ mem.cutover \in Crossed => prev # NoPrev /\ mem.replaces = prev.rel
      /\ mem.recovery # "None" => mem.cutover = "Failed"
  BY <1>1 DEF RunAgrees, RunReplaces, RestoredRight
<1>4. /\ disk'[k].status \notin {"Succeeded", "Superseded"}
      /\ disk'[k].recovery \notin ServiceRestored
      /\ disk'[k].replaces \in {disk[k].replaces, prev.rel}
      /\ disk'[k].recovery # "None" => disk'[k].cutover = "Failed"
  BY <1>1, <1>2, <1>3 DEF CutoverStep, ServiceRestored
<1>5. disk'[k].cutover \in Crossed => prev # NoPrev /\ disk'[k].replaces = prev.rel
  BY <1>2, <1>3 DEF CutoverStep, Crossed
<1>6. /\ Doubtful(k) => ApplicationMayBeDown(disk'[k])
      /\ mem.cutover = "Begun" => ApplicationMayBeDown(disk'[k])
  BY <1>2, <1>3 DEF CutoverStep, Doubtful, ApplicationMayBeDown, ServiceRestored
<1>7. LET c == Restored(k) IN
         /\ entry'[c] # "failed" /\ (entry'[c] = "created" => cont'[c] # "absent")
         /\ cont'[c] # "absent" => /\ disk'[k].recovery # "None"
                                   /\ port'[c] = disk[disk'[k].replaces].pinned
  <2>1. CASE RestoredFits(k)
    BY <1>2, <2>1 DEF RestoredFits
  <2>2. CASE RestoredKept(k)
    BY <1>1, <1>2, <1>3, <2>2 DEF RestoredKept, RestoredRight, CutoverStep
  <2> QED BY <2>1, <2>2
<1>8. Unserving(k)
  BY <1>2, <1>4, <1>5, <1>6, <1>7 DEF Unserving, OthersKept
<1>9. RunAgrees'
  <2>1. mem'.status = disk'[k].status /\ mem'.status \notin {"Succeeded", "Superseded"}
    BY <1>2, <1>4
  <2>2. \A e \in Dep : e > k => disk'[e] = NoRecord
    BY <1>1, <1>2, DepAssumption DEF RunAgrees
  <2> QED BY <1>2, <1>4, <2>1, <2>2 DEF RunAgrees, OthersKept
<1>10. RunReplaces'
  <2>1. prev # NoPrev => prev.rel \in Dep /\ prev.rel # k
    BY <1>1, NoPrevFacts, DepAssumption DEF RunReplaces
  <2>2. prev # NoPrev => prev.rel < k /\ prev.owner[1] < k /\ disk'[prev.rel].status = "Succeeded"
    BY <1>1, <1>2, <2>1 DEF RunReplaces, Succeeded
  <2>3. mem'.cutover \in Crossed => prev # NoPrev /\ mem'.replaces = prev.rel
    BY <1>2, <1>5
  <2> QED BY <2>2, <2>3 DEF RunReplaces, OthersKept, Succeeded
<1>11. RunInv'
  BY <1>9, <1>10 DEF RunInv
<1>12. PromiseInv' /\ Served' = Served
  BY <1>8, <1>11, UnservingKeepsInv
<1>13. OwnerStep
  <2>1. /\ ServedIs /\ PhaseIs /\ PhaseIs'
        /\ \A d \in Dep : d # k => ~Doubtful(d) /\ ~Doubtful(d)'
    <3>1. cur' = k
      BY DEF OthersKept
    <3>2. ServedIs /\ PhaseIs /\ PhaseIs'
      BY <1>12, OwnerIs, PTL
    <3>3. DoubtInv /\ DoubtInv'
      BY <1>12 DEF PromiseInv
    <3> QED BY <3>1, <3>2, <3>3 DEF DoubtInv
  <2>2. CASE disk'[k].cutover = disk[k].cutover /\ disk'[k].recovery = disk[k].recovery
    <3>1. Doubtful(k)' <=> Doubtful(k)
      BY <2>2 DEF Doubtful, ApplicationMayBeDown
    <3>2. Phase' = Phase
      BY <2>1, <2>2, <3>1 DEF PhaseIs
    <3> QED BY <1>12, <3>2 DEF OwnerStep
  <2>3. CASE /\ disk[k].cutover = "Begun" /\ disk'[k].cutover = "Failed"
             /\ disk'[k].recovery = "InProgress"
    <3>1. Doubtful(k) /\ Doubtful(k)'
      BY <2>3 DEF Doubtful, ApplicationMayBeDown, ServiceRestored
    <3>2. Phase = "switching" /\ Phase' = "restoring"
      BY <2>1, <2>3, <3>1 DEF PhaseIs
    <3> QED BY <1>12, <3>2 DEF OwnerStep, Owner!Next, Owner!BeginRestore
  <2>4. CASE disk[k].cutover = "NotStarted" /\ disk'[k].cutover = "Begun" /\ prev # NoPrev
    <3>1. ~Doubtful(k) /\ Doubtful(k)'
      BY <2>4 DEF Doubtful, ApplicationMayBeDown
    <3>2. Phase = "steady" /\ Phase' = "switching"
      BY <2>1, <2>4, <3>1 DEF PhaseIs
    <3>3. PICK c \in Newest(Candidates) : Served = ReleaseOf(c)
      BY <2>1, <2>4 DEF PromiseInv, ServedInv, ServedIs
    <3>4. Served # NoDep
      <4>1. c \in Candidates
        BY <3>3 DEF Newest
      <4> QED BY <3>3, <4>1, ServesWhat, NoPrevFacts DEF PromiseInv, ServingInv
    <3> QED BY <1>12, <3>2, <3>4 DEF OwnerStep, Owner!Next, Owner!BeginSwitch
  <2>5. CASE disk[k].cutover = "NotStarted" /\ disk'[k].cutover = "NotRequired"
    <3>1. ~Doubtful(k) /\ ~Doubtful(k)'
      BY <2>5 DEF Doubtful, ApplicationMayBeDown
    <3>2. Phase = "steady" /\ Phase' = "steady"
      BY <2>1, <3>1 DEF PhaseIs
    <3> QED BY <1>12, <3>2 DEF OwnerStep
  <2> QED BY <1>2, <1>3, <2>2, <2>3, <2>4, <2>5 DEF CutoverStep
<1> QED BY <1>12, <1>13 DEF Promised

\* The fields after a failed cutover (fail_after_cutover).
LEMMA FailFields ==
    ASSUME TypeOK, pc # "idle", NEW step \in Step, NEW next, FailAfterCutover(step, next)
    PROVE  /\ mem.cutover = "Begun" /\ mem.recovery = "None"
           /\ mem'.status = mem.status /\ mem'.replaces = mem.replaces
           /\ mem'.release = mem.release /\ mem'.pinned = mem.pinned
           /\ mem'.cutover = "Failed" /\ mem'.recovery = "InProgress"
           /\ Saved(cur) /\ pc' = next
<1> DEFINE f1 == FinishStep(mem, step, FALSE)
           f2 == [f1 EXCEPT !.failure = step]
           f3 == FailCutover(f2)
           f4 == StartStep(f3, "Recovery")
           f5 == StartRecovery(f4)
           Same(x) == /\ x.status = mem.status /\ x.replaces = mem.replaces
                      /\ x.release = mem.release /\ x.pinned = mem.pinned
<1>1. /\ FailCutoverOK(mem) /\ StartRecoveryOK(f3)
      /\ mem' = f5 /\ disk' = [disk EXCEPT ![cur] = f5] /\ pc' = next
  BY DEF FailAfterCutover, Save, Goto
<1>2. f1 \in Record /\ Same(f1) /\ f1.recovery = mem.recovery
  BY StepType DEF TypeOK, FinishStep, Record
<1>3. f2 \in Record /\ Same(f2) /\ f2.recovery = mem.recovery
  <2> HIDE DEF f1
  <2> QED BY <1>2 DEF Record
<1>4. f3 \in Record /\ Same(f3) /\ f3.recovery = mem.recovery /\ f3.cutover = "Failed"
  <2> HIDE DEF f2
  <2>1. f3 \in Record
    BY <1>3, CutoverType
  <2> QED BY <1>3, <2>1 DEF FailCutover, Record
<1>5. f4 \in Record /\ Same(f4) /\ f4.cutover = "Failed"
  <2> HIDE DEF f3
  <2>1. f4 \in Record
    BY <1>4, StepType DEF Step
  <2> QED BY <1>4, <2>1 DEF StartStep, Record
<1>6. Same(f5) /\ f5.cutover = "Failed" /\ f5.recovery = "InProgress"
  <2> HIDE DEF f4
  <2>1. f5 = [f4 EXCEPT !.recovery = "InProgress"]
    BY DEF StartRecovery
  <2> QED BY <1>5, <2>1 DEF Record
<1>7. mem.cutover = "Begun" /\ mem.recovery = "None"
  BY <1>1, <1>4 DEF FailCutoverOK, StartRecoveryOK
<1> HIDE DEF f5
<1> QED BY <1>1, <1>6, <1>7 DEF Saved

\* The fields after the end of a run (end_cancelled, fail_run, succeed).
LEMMA EndFields ==
    ASSUME NEW r \in Record, NEW s \in Status, EndRun(r, s)
    PROVE  /\ mem'.status = s /\ mem'.cutover = r.cutover /\ mem'.recovery = r.recovery
           /\ mem'.replaces = r.replaces /\ mem'.release = r.release
           /\ mem'.pinned = r.pinned /\ Saved(cur) /\ pc' = "finish"
<1>1. mem' = Transition(r, s) /\ disk' = [disk EXCEPT ![cur] = mem'] /\ pc' = "finish"
  BY DEF EndRun, Save, Goto
<1> QED BY <1>1, TransitionFields DEF Saved

\* A step that touches only the deployment's own serving container.
LEMMA MainOnly ==
    ASSUME TypeOK, NEW k \in Dep, cur' = cur, prev' = prev,
           entry' = entry \/ (\E x : entry' = [entry EXCEPT ![Main(k)] = x]),
           port' = port \/ (\E x : port' = [port EXCEPT ![Main(k)] = x]),
           cont' = cont \/ (\E x : cont' = [cont EXCEPT ![Main(k)] = x]),
           lease' = lease \/ (\E x : lease' = [lease EXCEPT ![k] = x])
    PROVE  OthersKept(k) /\ RestoredKept(k)
<1>1. \A c \in Container : c # Main(k) =>
         entry'[c] = entry[c] /\ port'[c] = port[c] /\ cont'[c] = cont[c]
  BY DEF TypeOK
<1>2. \A e \in Dep : e # k => lease'[e] = lease[e]
  BY DEF TypeOK
<1>3. /\ Restored(k) \in Container /\ Restored(k) # Main(k)
      /\ \A c \in Container : c[1] # k => c # Main(k)
  BY Distinct
<1> QED BY <1>1, <1>2, <1>3 DEF OthersKept, RestoredKept

\* What is restored is what the run replaces (restore_phase, recover_cutover).
LEMMA RestoringFacts ==
    ASSUME TypeOK, PromiseInv, pc \notin {"idle", "finish"}, Restoring
    PROVE  /\ mem.cutover = "Failed" /\ prev # NoPrev /\ prev.rel \in Dep
           /\ mem.replaces = prev.rel /\ PrevPin = disk[mem.replaces].pinned
           /\ mem.status \notin {"Succeeded", "Superseded"}
<1>1. cur \in Dep /\ RunAgrees /\ RunReplaces /\ RestoredRight(cur)
  BY RunFacts DEF PromiseInv, ServingInv, RecordsInv
<1>2. mem.cutover = "Failed"
  BY <1>1 DEF RunAgrees, RestoredRight, Restoring
<1>3. prev # NoPrev /\ mem.replaces = prev.rel
  BY <1>1, <1>2 DEF RunReplaces, Crossed
<1>4. prev.rel \in Dep /\ PrevPin = disk[mem.replaces].pinned
  BY <1>3, NoPrevFacts DEF PrevPin
<1> QED BY <1>1, <1>2, <1>3, <1>4 DEF RunAgrees

\* The end of a run that did not succeed.
LEMMA EndKeepsInv ==
    ASSUME TypeOK, PromiseInv, pc \notin {"idle", "finish"}, TypeOK',
           NEW k \in Dep, k = cur, OthersKept(k), RestoredKept(k),
           NEW r \in Record, NEW s \in {"Failed", "Cancelled"}, EndRun(r, s),
           r.cutover = mem.cutover, r.recovery = mem.recovery, r.replaces = mem.replaces
    PROVE  Promised
<1>1. /\ mem'.status = s /\ mem'.cutover = mem.cutover /\ mem'.recovery = mem.recovery
      /\ mem'.replaces = mem.replaces /\ Saved(k) /\ pc' = "finish"
  <2>1. s \in Status
    BY DEF Status
  <2> QED BY <2>1, EndFields
<1>2. CutoverStep(mem')
  BY <1>1 DEF CutoverStep
<1>3. RunStarts' /\ RunRestores'
  BY <1>1 DEF RunStarts, RunRestores, BuiltPc, StartedPc, Creation, RestorePc
<1> QED BY <1>1, <1>2, <1>3, StepKeepsInv

\* A failure after the cutover began.
LEMMA FailKeepsInv ==
    ASSUME TypeOK, PromiseInv, pc \notin {"idle", "finish"}, TypeOK',
           NEW k \in Dep, k = cur, OthersKept(k), RestoredKept(k),
           NEW step \in Step, NEW next \in {"blockers", "stop_failed_new"},
           FailAfterCutover(step, next)
    PROVE  Promised
<1>1. /\ mem.cutover = "Begun" /\ mem.recovery = "None"
      /\ mem'.status = mem.status /\ mem'.replaces = mem.replaces
      /\ mem'.cutover = "Failed" /\ mem'.recovery = "InProgress"
      /\ Saved(k) /\ pc' = next
  BY FailFields
<1>2. CutoverStep(mem')
  BY <1>1, RunFacts DEF CutoverStep, RunAgrees
<1>3. RunStarts' /\ RunRestores'
  BY <1>1 DEF RunStarts, RunRestores, BuiltPc, StartedPc, Creation, RestorePc, Restoring
<1> QED BY <1>1, <1>2, <1>3, StepKeepsInv

\* The failure of a new release (NewReleaseFailed).
LEMMA NewFailedKeepsInv ==
    ASSUME TypeOK, PromiseInv, pc \notin {"idle", "finish"}, TypeOK',
           NEW k \in Dep, k = cur, OthersKept(k), RestoredKept(k), NewReleaseFailed
    PROVE  Promised
<1>1. CASE FailAfterCutover("Cutover", "blockers")
  BY <1>1, FailKeepsInv DEF Step
<1>2. CASE EndRun([FinishStep(mem, "Cutover", FALSE) EXCEPT !.failure = "Cutover"], "Failed")
  <2> DEFINE f == FinishStep(mem, "Cutover", FALSE)
             r == [f EXCEPT !.failure = "Cutover"]
  <2>1. f \in Record /\ f.cutover = mem.cutover /\ f.recovery = mem.recovery
          /\ f.replaces = mem.replaces
    BY StepType DEF TypeOK, FinishStep, Record, Step
  <2>2. r \in Record /\ r.cutover = mem.cutover /\ r.recovery = mem.recovery
          /\ r.replaces = mem.replaces
    <3> HIDE DEF f
    <3> QED BY <2>1 DEF Record, Step
  <2>3. EndRun(r, "Failed")
    BY <1>2
  <2> HIDE DEF r
  <2> QED BY <2>2, <2>3, EndKeepsInv
<1> QED BY <1>1, <1>2 DEF NewReleaseFailed

\* Giving up: the new release failed, or the restoration did.
LEMMA GiveUpKeepsInv ==
    ASSUME TypeOK, PromiseInv, pc \notin {"idle", "finish", "begin"}, TypeOK',
           NEW k \in Dep, k = cur, OthersKept(k), GiveUp,
           ~Restoring => RestoredKept(k),
           Restoring /\ mem' = mem => RestoredKept(k) \/ RestoredFits(k)
    PROVE  Promised
<1>1. CASE ~Restoring /\ NewReleaseFailed
  BY <1>1, NewFailedKeepsInv
<1>2. CASE Restoring /\ Ends("RestoreFailed") /\ UNCHANGED <<mem, disk>>
  <2>1. NotSaved /\ CutoverStep(mem')
    BY <1>2, RestoringFacts DEF NotSaved, CutoverStep
  <2>2. pc' = "record" /\ outcome' = "RestoreFailed"
    BY <1>2 DEF Ends, Goto
  <2>3. RunStarts' /\ RunRestores'
    BY <1>2, <2>2 DEF RunStarts, RunRestores, BuiltPc, StartedPc, Creation, RestorePc,
                      Restoring, ServiceRestored
  <2> QED BY <1>2, <2>1, <2>2, <2>3, StepKeepsInv
<1> QED BY <1>1, <1>2 DEF GiveUp

\* What the runtime holds after a container was made (create_container).
LEMMA MadeFacts ==
    ASSUME TypeOK, PromiseInv, pc = "creating", Made, NEW k \in Dep, k = cur,
           UNCHANGED <<cur, prev, entry, lease>>
    PROVE  /\ OthersKept(k)
           /\ ~Restoring => RestoredKept(k) /\ port'[Main(k)] \in lease[k]
           /\ Restoring => /\ cont'[Restored(k)] = "created"
                           /\ mem' = mem => RestoredFits(k)
<1>1. CASE ~Restoring
  <2>1. PICK p \in lease[k] : /\ cont' = [cont EXCEPT ![Main(k)] = "created"]
                              /\ port' = [port EXCEPT ![Main(k)] = p]
    BY <1>1 DEF Made, TargetPorts, Target
  <2>2. OthersKept(k) /\ RestoredKept(k)
    BY <2>1, MainOnly
  <2>3. port'[Main(k)] = p
    BY <2>1, Distinct DEF TypeOK
  <2> QED BY <1>1, <2>1, <2>2, <2>3
<1>2. CASE Restoring
  <2> DEFINE c == Restored(k)
  <2>0. c \in Container /\ c[1] = k
    BY Distinct
  <2>1. /\ cont' = [cont EXCEPT ![c] = "created"]
        /\ port' = [port EXCEPT ![c] = PrevPin]
    BY <1>2 DEF Made, TargetPorts, Target
  <2> HIDE DEF c
  <2>2. /\ cont'[c] = "created" /\ port'[c] = PrevPin
        /\ \A x \in Container : x # c => cont'[x] = cont[x] /\ port'[x] = port[x]
    BY <2>0, <2>1 DEF TypeOK
  <2>3. OthersKept(k)
    BY <2>0, <2>2 DEF OthersKept
  <2>4. entry[c] # "failed"
    BY DEF PromiseInv, ServingInv, RecordsInv, RestoredRight, c
  <2>5. mem' = mem => RestoredFits(k)
    BY <1>2, <2>2, <2>4, RestoringFacts DEF RestoredFits, Restoring, c
  <2> QED BY <1>2, <2>2, <2>3, <2>5 DEF c
<1> QED BY <1>1, <1>2

\* A save that changes no field that matters to others, and touches nothing else.
LEMMA SaveKeepsInv ==
    ASSUME TypeOK, PromiseInv, pc \notin {"idle", "finish"}, TypeOK',
           UNCHANGED <<cur, prev, entry, lease, runtime>>, NEW r, Save(r),
           r.cutover = mem.cutover, r.recovery = mem.recovery, r.replaces = mem.replaces,
           r.status \notin {"Succeeded", "Superseded"},
           pc' \notin {"idle", "begin", "stop"}, RunStarts', RunRestores'
    PROVE  Promised
<1>1. PICK k \in Dep : k = cur
  BY RunFacts
<1>2. OthersKept(k) /\ RestoredKept(k)
  BY <1>1, MainOnly DEF runtime
<1>3. Saved(k) /\ CutoverStep(mem')
  BY <1>1 DEF Save, Saved, CutoverStep
<1> QED BY <1>1, <1>2, <1>3, StepKeepsInv

\* What is known of a run that may go on.
LEMMA RunStatus ==
    ASSUME TypeOK, PromiseInv, pc \notin {"idle", "finish"}
    PROVE  /\ mem \in Record /\ cur \in Dep /\ mem.status \notin {"Succeeded", "Superseded"}
           /\ mem.recovery \notin ServiceRestored
BY RunFacts DEF RunAgrees, TypeOK

\* Begin, the preparation steps, their failures, and the cancel requests.
LEMMA PreparationKeepsInv ==
    ASSUME TypeOK, PromiseInv, TypeOK',
           \/ Begin \/ Cancel \/ Confirm \/ NotConfirmed
           \/ \E s \in PreSteps : PreStart(s) \/ PrePass(s) \/ PreFail(s)
    PROVE  Promised
<1> USE DEF Goto
<1>0. pc \notin {"idle", "finish"}
  BY DEF Begin, Cancel, Confirm, NotConfirmed, PreStart, PrePass, PreFail, PreSteps, ExecOf
<1>1. /\ mem \in Record /\ cur \in Dep /\ mem.status \notin {"Succeeded", "Superseded"}
      /\ RunStarts /\ RunRestores
  BY <1>0, RunStatus, RunFacts
<1>2. ASSUME UNCHANGED <<cur, prev, entry, lease, runtime>>
      PROVE  OthersKept(cur) /\ RestoredKept(cur)
  <2>1. PICK k \in Dep : k = cur
    BY <1>1
  <2> QED BY <1>2, <2>1, MainOnly DEF runtime
<1>3. CASE Begin
  <2>1. LET x == Transition(mem, "Running") IN
           /\ x.status = "Running" /\ x.cutover = mem.cutover
           /\ x.recovery = mem.recovery /\ x.replaces = mem.replaces
    BY <1>1, TransitionFields
  <2>2. RunStarts' /\ RunRestores'
    BY <1>3 DEF Begin, RunStarts, RunRestores, BuiltPc, StartedPc, Creation, RestorePc
  <2> QED BY <1>0, <1>3, <2>1, <2>2, SaveKeepsInv DEF Begin
<1>4. CASE Cancel \/ NotConfirmed
  <2>1. EndRun(mem, "Cancelled") /\ UNCHANGED <<cur, prev, entry, lease, runtime>>
    BY <1>4 DEF Cancel, NotConfirmed
  <2> QED BY <1>0, <1>1, <1>2, <2>1, EndKeepsInv
<1>5. CASE Confirm
  <2>1. PICK k \in Dep : k = cur
    BY <1>1
  <2>2. NotSaved /\ CutoverStep(mem') /\ OthersKept(cur) /\ RestoredKept(cur)
    BY <1>1, <1>2, <1>5 DEF Confirm, NotSaved, CutoverStep, journal
  <2>3. RunStarts' /\ RunRestores'
    BY <1>1, <1>5 DEF Confirm, RunStarts, RunRestores, BuiltPc, StartedPc, Creation, RestorePc
  <2>4. pc' = "plan"
    BY <1>5 DEF Confirm
  <2> QED BY <1>0, <2>1, <2>2, <2>3, <2>4, StepKeepsInv
<1>6. ASSUME NEW s \in PreSteps, PreStart(s) PROVE Promised
  <2>1. \A x \in {StartStep(mem, s)} :
           /\ x.status = mem.status /\ x.cutover = mem.cutover /\ x.release = mem.release
           /\ x.recovery = mem.recovery /\ x.replaces = mem.replaces
    BY <1>1, StepFields DEF SameFields
  <2>2. pc' = ExecOf(s) /\ pc = s /\ mem' = StartStep(mem, s)
    BY <1>6 DEF PreStart, Save
  <2>3. /\ ExecOf(s) \in BuiltPc => s \in BuiltPc
        /\ ExecOf(s) \notin StartedPc \union Creation \union RestorePc \union {"idle", "begin", "stop"}
    BY DEF PreSteps, ExecOf, BuiltPc, StartedPc, Creation, RestorePc
  <2>4. RunStarts' /\ RunRestores'
    BY <1>1, <2>1, <2>2, <2>3
       DEF RunStarts, RunRestores, StartedPc, Creation, RestorePc
  <2> QED BY <1>0, <1>1, <1>6, <2>1, <2>2, <2>3, <2>4, SaveKeepsInv DEF PreStart
<1>7. ASSUME NEW s \in PreSteps, PrePass(s) PROVE Promised
  <2> DEFINE f == FinishStep(mem, s, TRUE)
             r == [f EXCEPT !.release = @ \/ s = "Build"]
  <2>1. /\ f \in Record
        /\ f.status = mem.status /\ f.cutover = mem.cutover /\ f.release = mem.release
        /\ f.recovery = mem.recovery /\ f.replaces = mem.replaces
    <3>1. s \in Step
      BY DEF PreSteps, Step
    <3>2. f \in Record
      BY <1>1, <3>1, StepType
    <3>3. SameFields(f, mem)
      BY <1>1, StepFields
    <3> QED BY <3>2, <3>3 DEF SameFields
  <2>2. /\ r.status = mem.status /\ r.cutover = mem.cutover
        /\ r.recovery = mem.recovery /\ r.replaces = mem.replaces
        /\ (mem.release \/ s = "Build") => r.release
    <3> HIDE DEF f
    <3> QED BY <2>1 DEF Record
  <2>3. pc' = AfterPre(s) /\ pc = ExecOf(s) /\ mem' = r /\ Save(r)
    BY <1>7 DEF PrePass, Save
  <2>4. /\ AfterPre(s) \in BuiltPc => s = "Build" \/ ExecOf(s) \in BuiltPc
        /\ AfterPre(s) \notin StartedPc \union Creation \union RestorePc \union {"idle", "begin", "stop"}
    BY DEF PreSteps, ExecOf, AfterPre, BuiltPc, StartedPc, Creation, RestorePc
  <2> HIDE DEF r
  <2>5. RunStarts' /\ RunRestores'
    BY <1>1, <2>2, <2>3, <2>4
       DEF RunStarts, RunRestores, StartedPc, Creation, RestorePc
  <2> QED BY <1>0, <1>1, <1>7, <2>2, <2>3, <2>4, <2>5, SaveKeepsInv DEF PrePass
<1>8. ASSUME NEW s \in PreSteps, PreFail(s) PROVE Promised
  <2> DEFINE f == FinishStep(mem, s, FALSE)
             r == [f EXCEPT !.failure = s]
  <2>1. /\ f \in Record /\ f.cutover = mem.cutover
        /\ f.recovery = mem.recovery /\ f.replaces = mem.replaces
    <3>1. s \in Step
      BY DEF PreSteps, Step
    <3>2. f \in Record
      BY <1>1, <3>1, StepType
    <3>3. SameFields(f, mem)
      BY <1>1, StepFields
    <3> QED BY <3>2, <3>3 DEF SameFields
  <2>2. /\ r \in Record /\ r.cutover = mem.cutover
        /\ r.recovery = mem.recovery /\ r.replaces = mem.replaces
    <3> HIDE DEF f
    <3> QED BY <2>1 DEF Record, PreSteps, Step
  <2>3. EndRun(r, "Failed") /\ UNCHANGED <<cur, prev, entry, lease, runtime>>
    BY <1>8 DEF PreFail
  <2> HIDE DEF r
  <2> QED BY <1>0, <1>1, <1>2, <2>2, <2>3, EndKeepsInv
<1> QED BY <1>3, <1>4, <1>5, <1>6, <1>7, <1>8

\* The cutover begins: what is planned is leased and pinned, and the journal says
\* what is about to be stopped before it is stopped.
LEMMA CutoverKeepsInv ==
    ASSUME TypeOK, PromiseInv, TypeOK',
           PlanLease \/ PlanFail \/ Pin \/ BeginReplace \/ BeginFirst \/ StopCurrent \/ StopFail
    PROVE  Promised
<1> USE DEF Goto
<1>0. pc \in {"plan", "pin", "cutover", "stop"}
  BY DEF PlanLease, PlanFail, Pin, BeginReplace, BeginFirst, StopCurrent, StopFail
<1>1. /\ mem \in Record /\ cur \in Dep /\ mem.status \notin {"Succeeded", "Superseded"}
      /\ mem.recovery \notin ServiceRestored
      /\ RunAgrees /\ RunReplaces /\ RunStarts /\ RunRestores
  BY <1>0, RunStatus, RunFacts
<1>2. PICK k \in Dep : k = cur
  BY <1>1
<1>3. ASSUME UNCHANGED <<cur, prev, entry, lease, runtime>>
      PROVE  OthersKept(k) /\ RestoredKept(k)
  BY <1>2, <1>3, MainOnly DEF runtime
<1>4. mem.release
  BY <1>0, <1>1 DEF RunStarts, BuiltPc
<1>5. CASE PlanLease
  <2>1. PICK p \in Free : lease' = [lease EXCEPT ![cur] = @ \union {p}] /\ mem' = [mem EXCEPT !.pinned = p]
    BY <1>5 DEF PlanLease
  <2>2. UNCHANGED <<disk, cur, prev, entry, runtime>> /\ pc' = "pin" /\ pc = "plan"
    BY <1>5 DEF PlanLease
  <2>3. /\ mem'.status = mem.status /\ mem'.cutover = mem.cutover /\ mem'.release = mem.release
        /\ mem'.recovery = mem.recovery /\ mem'.replaces = mem.replaces
    BY <1>1, <2>1 DEF Record
  <2>4. NotSaved /\ CutoverStep(mem')
    BY <1>1, <2>2, <2>3 DEF NotSaved, CutoverStep
  <2>5. OthersKept(k) /\ RestoredKept(k)
    BY <1>2, <2>1, <2>2, MainOnly DEF runtime
  <2>6. RunStarts' /\ RunRestores'
    BY <1>4, <2>2, <2>3 DEF RunStarts, RunRestores, BuiltPc, StartedPc, Creation, RestorePc
  <2> QED BY <1>0, <1>2, <2>2, <2>4, <2>5, <2>6, StepKeepsInv
<1>6. CASE PlanFail
  <2> DEFINE r == [mem EXCEPT !.failure = "Cutover", !.pinned = NoPort]
  <2>1. /\ r \in Record /\ r.cutover = mem.cutover
        /\ r.recovery = mem.recovery /\ r.replaces = mem.replaces
    BY <1>1 DEF Record, Step
  <2>2. EndRun(r, "Failed") /\ UNCHANGED <<cur, prev, entry, lease, runtime>>
    BY <1>6 DEF PlanFail
  <2> HIDE DEF r
  <2> QED BY <1>0, <1>2, <1>3, <2>1, <2>2, EndKeepsInv
<1>7. CASE Pin
  <2>1. RunStarts' /\ RunRestores'
    BY <1>4, <1>7 DEF Pin, Save, RunStarts, RunRestores, BuiltPc, StartedPc, Creation, RestorePc
  <2> QED BY <1>0, <1>1, <1>7, <2>1, SaveKeepsInv DEF Pin
<1>8. CASE BeginReplace \/ BeginFirst
  <2> DEFINE x == IF BeginReplace THEN [BeginCutover(mem) EXCEPT !.replaces = prev.rel]
                  ELSE CutoverNotRequired(mem)
  <2>1. /\ x \in Record /\ x.status = mem.status /\ x.recovery = mem.recovery
        /\ x.release = mem.release
        /\ BeginReplace => x.cutover = "Begun" /\ x.replaces = prev.rel
        /\ ~BeginReplace => x.cutover = "NotRequired" /\ x.replaces = mem.replaces
    <3>1. CASE BeginReplace
      <4>1. BeginCutover(mem) \in Record /\ prev.rel \in Dep
        BY <1>1, <3>1, CutoverType, NoPrevFacts DEF BeginReplace
      <4>2. /\ BeginCutover(mem).status = mem.status /\ BeginCutover(mem).recovery = mem.recovery
            /\ BeginCutover(mem).release = mem.release /\ BeginCutover(mem).cutover = "Begun"
        BY <1>1 DEF BeginCutover, Record
      <4>3. x = [BeginCutover(mem) EXCEPT !.replaces = prev.rel]
        BY <3>1
      <4> HIDE DEF x
      <4> QED BY <3>1, <4>1, <4>2, <4>3 DEF Record
    <3>2. CASE ~BeginReplace
      BY <1>1, <3>2, CutoverType DEF CutoverNotRequired, Record
    <3> QED BY <3>1, <3>2
  <2>2. /\ Save(StartStep(x, "Cutover")) /\ UNCHANGED <<cur, prev, entry, lease, runtime>>
        /\ mem.cutover = "NotStarted" /\ (BeginReplace => prev # NoPrev)
        /\ pc' = IF BeginReplace THEN "stop" ELSE "create"
    BY <1>8 DEF BeginReplace, BeginFirst, BeginCutoverOK, CutoverNotRequiredOK
  <2> HIDE DEF x
  <2>3. SameFields(mem', x) /\ Saved(k)
    BY <1>2, <2>1, <2>2, StepFields DEF Save, Saved
  <2>4. CutoverStep(mem')
    BY <1>1, <2>1, <2>2, <2>3 DEF CutoverStep, SameFields
  <2>5. mem.recovery = "None"
    BY <1>1, <1>2, <2>2 DEF RunAgrees, PromiseInv, ServingInv, RecordsInv, RestoredRight
  <2>6. RunStarts' /\ RunRestores' /\ (pc' = "stop" => mem'.cutover = "Begun")
    BY <1>4, <2>1, <2>2, <2>3
       DEF SameFields, RunStarts, RunRestores, BuiltPc, StartedPc, Creation, RestorePc
  <2> QED BY <1>0, <1>2, <1>3, <2>2, <2>3, <2>4, <2>6, StepKeepsInv
<1>9. ASSUME Stopped \/ UNCHANGED cont, pc = "stop",
             UNCHANGED <<cur, prev, entry, lease, port>>
      PROVE  OthersKept(k) /\ RestoredKept(k)
  <2>1. mem.cutover = "Begun" /\ prev # NoPrev
    BY <1>1, <1>9 DEF RunReplaces, Crossed
  <2>2. prev.owner \in Container /\ prev.owner[1] < k
    BY <1>1, <1>2, <2>1, NoPrevFacts DEF RunReplaces
  <2>3. prev.owner[1] # k
    BY <2>2, Distinct, DepAssumption
  <2>4. \A c \in Container : \/ cont'[c] = cont[c]
                             \/ c = prev.owner /\ cont[c] # "absent" /\ cont'[c] # "absent"
    BY <1>9, <2>2 DEF Stopped, TypeOK
  <2>5. Restored(k) \in Container /\ Restored(k) # prev.owner
    BY <2>3, Distinct
  <2> QED BY <1>9, <2>1, <2>4, <2>5 DEF OthersKept, RestoredKept
<1>10. CASE StopCurrent
  <2>1. /\ UNCHANGED <<disk, mem>> /\ pc = "stop" /\ pc' = "create"
        /\ OthersKept(k) /\ RestoredKept(k)
    BY <1>9, <1>10 DEF StopCurrent, journal
  <2>2. NotSaved /\ CutoverStep(mem')
    BY <1>1, <2>1 DEF NotSaved, CutoverStep
  <2>3. RunStarts' /\ RunRestores'
    BY <1>4, <2>1 DEF RunStarts, RunRestores, BuiltPc, StartedPc, Creation, RestorePc
  <2> QED BY <1>0, <1>2, <2>1, <2>2, <2>3, StepKeepsInv
<1>11. CASE StopFail
  <2>1. OthersKept(k) /\ RestoredKept(k)
    BY <1>9, <1>11 DEF StopFail
  <2> QED BY <1>0, <1>2, <1>11, <2>1, FailKeepsInv DEF StopFail, Step
<1> QED BY <1>5, <1>6, <1>7, <1>8, <1>10, <1>11

\* A container is created, for the new release or for the restoration.
LEMMA CreationKeepsInv ==
    ASSUME TypeOK, PromiseInv, TypeOK',
           CreateRefused \/ Intend \/ Make \/ MakeFail \/ Receipt
    PROVE  Promised
<1> USE DEF Goto
<1>0. pc \in Creation
  BY DEF CreateRefused, Intend, Make, MakeFail, Receipt, Creation
<1>1. /\ mem \in Record /\ cur \in Dep /\ mem.status \notin {"Succeeded", "Superseded"}
      /\ RunAgrees /\ RunStarts /\ RunRestores /\ pc \notin {"idle", "finish", "begin"}
  BY <1>0, RunStatus, RunFacts DEF Creation
<1>2. PICK k \in Dep : k = cur
  BY <1>1
<1>3. ~Restoring => mem.release
  BY <1>0, <1>1 DEF RunStarts
<1>4. mem' = mem /\ disk' = disk => NotSaved /\ CutoverStep(mem')
  BY <1>1 DEF NotSaved, CutoverStep
<1>5. CASE CreateRefused
  <2>1. OthersKept(k) /\ RestoredKept(k)
    BY <1>2, <1>5, MainOnly DEF CreateRefused, runtime
  <2> QED BY <1>1, <1>2, <1>5, <2>1, GiveUpKeepsInv DEF CreateRefused
<1>6. CASE Intend \/ Receipt
  <2> DEFINE s == IF Intend THEN "intended" ELSE "created"
             c == Restored(k)
  <2>1. /\ entry' = [entry EXCEPT ![Target] = s] /\ UNCHANGED <<mem, cur, prev, disk, lease, runtime>>
        /\ pc' = IF Intend THEN "creating" ELSE IF Restoring THEN "restore_start" ELSE "start"
        /\ ~Intend => pc = "receipt"
    <3>1. CASE Intend
      BY <3>1 DEF Intend
    <3>2. CASE ~Intend /\ Receipt
      BY <3>2 DEF Receipt
    <3> QED BY <1>6, <3>1, <3>2
  <2>2. CASE ~Restoring
    <3>1. OthersKept(k) /\ RestoredKept(k)
      BY <1>2, <2>1, <2>2, MainOnly DEF Target, runtime
    <3>2. entry'[Main(k)] = s
      BY <1>2, <2>1, <2>2, Distinct DEF Target, TypeOK
    <3>3. pc = "receipt" => port[Main(k)] \in lease[k]
      BY <1>1, <1>2, <2>2 DEF RunStarts
    <3>4. RunStarts' /\ RunRestores'
      BY <1>2, <1>3, <2>1, <2>2, <3>2, <3>3
         DEF RunStarts, RunRestores, BuiltPc, StartedPc, Creation, RestorePc, Restoring, runtime
    <3> QED BY <1>1, <1>2, <1>4, <2>1, <3>1, <3>4, StepKeepsInv
  <2>3. CASE Restoring
    <3>0. c \in Container /\ c[1] = k
      BY Distinct
    <3>1. /\ entry'[c] = s /\ \A x \in Container : x # c => entry'[x] = entry[x]
      BY <1>2, <2>1, <2>3, <3>0 DEF Target, TypeOK
    <3>2. OthersKept(k)
      BY <2>1, <3>0, <3>1 DEF OthersKept, runtime
    <3>3. ~Intend => cont[c] # "absent"
      BY <1>1, <1>2, <2>1, <2>3 DEF RunRestores
    <3>4. cont[c] # "absent" => port[c] = disk[mem.replaces].pinned
      BY <1>1, <1>2 DEF PromiseInv, ServingInv, RecordsInv, RestoredRight, RunAgrees
    <3>5. RestoredFits(k)
      BY <2>1, <2>3, <3>1, <3>3, <3>4 DEF RestoredFits, Restoring, runtime
    <3>6. RunStarts' /\ RunRestores'
      BY <1>2, <2>1, <2>3, <3>1
         DEF RunStarts, RunRestores, BuiltPc, StartedPc, Creation, RestorePc, Restoring, runtime
    <3> QED BY <1>1, <1>2, <1>4, <2>1, <3>2, <3>5, <3>6, StepKeepsInv
  <2> QED BY <2>2, <2>3
<1>7. CASE Make
  <2>1. /\ pc = "creating" /\ Made /\ UNCHANGED <<mem, cur, prev, disk, entry, lease>>
        /\ pc' = "receipt"
    BY <1>7 DEF Make, journal
  <2>2. /\ OthersKept(k)
        /\ ~Restoring => RestoredKept(k) /\ port'[Main(k)] \in lease[k]
        /\ Restoring => cont'[Restored(k)] = "created" /\ RestoredFits(k)
    BY <1>2, <2>1, MadeFacts
  <2>3. RunStarts' /\ RunRestores'
    BY <1>2, <1>3, <2>1, <2>2
       DEF RunStarts, RunRestores, BuiltPc, StartedPc, Creation, RestorePc, Restoring
  <2> QED BY <1>1, <1>2, <1>4, <2>1, <2>2, <2>3, StepKeepsInv
<1>8. CASE MakeFail
  <2>1. /\ pc = "creating" /\ GiveUp /\ UNCHANGED <<cur, prev, entry, lease>>
        /\ Made \/ UNCHANGED runtime
    BY <1>8 DEF MakeFail
  <2>2. CASE UNCHANGED runtime
    <3>1. OthersKept(k) /\ RestoredKept(k)
      BY <1>2, <2>1, <2>2, MainOnly DEF runtime
    <3> QED BY <1>1, <1>2, <2>1, <3>1, GiveUpKeepsInv
  <2>3. CASE Made
    <3>1. /\ OthersKept(k) /\ (~Restoring => RestoredKept(k))
          /\ Restoring /\ mem' = mem => RestoredFits(k)
      BY <1>2, <2>1, <2>3, MadeFacts
    <3> QED BY <1>1, <1>2, <2>1, <3>1, GiveUpKeepsInv
  <2> QED BY <2>1, <2>2, <2>3
<1> QED BY <1>5, <1>6, <1>7, <1>8

\* The new release is started, or another port is tried for it.
LEMMA StartKeepsInv ==
    ASSUME TypeOK, PromiseInv, TypeOK',
           \/ Start \/ StartFail \/ Collide \/ DiscardFail
           \/ GiveBack \/ Reallocate \/ ReallocateFail
    PROVE  Promised
<1> USE DEF Goto
<1>0. pc \in {"start", "release", "reallocate"}
  BY DEF Start, StartFail, Collide, DiscardFail, GiveBack, Reallocate, ReallocateFail
<1>1. /\ mem \in Record /\ cur \in Dep /\ mem.status \notin {"Succeeded", "Superseded"}
      /\ RunAgrees /\ RunStarts /\ RunRestores /\ mem.release
      /\ pc \notin {"idle", "finish", "begin"}
  <2>1. pc \notin {"idle", "finish", "begin"} /\ pc \in BuiltPc
    BY <1>0 DEF BuiltPc
  <2>2. RunStarts
    BY <2>1, RunFacts
  <2> QED BY <2>1, <2>2, RunStatus, RunFacts DEF RunStarts
<1>2. PICK k \in Dep : k = cur
  BY <1>1
<1>3. mem' = mem /\ disk' = disk => NotSaved /\ CutoverStep(mem')
  BY <1>1 DEF NotSaved, CutoverStep
<1>4. OthersKept(k) /\ RestoredKept(k)
  <2>1. /\ UNCHANGED <<cur, prev, port>>
        /\ \/ entry' = entry \/ (\E x : entry' = [entry EXCEPT ![Main(k)] = x])
        /\ \/ cont' = cont \/ (\E x : cont' = [cont EXCEPT ![Main(k)] = x])
        /\ \/ lease' = lease \/ (\E x : lease' = [lease EXCEPT ![k] = x])
    <3>1. CASE Start
      BY <1>2, <3>1 DEF Start, journal
    <3>2. CASE StartFail
      BY <1>2, <3>2 DEF StartFail
    <3>3. CASE Collide
      BY <1>2, <3>3 DEF Collide
    <3>4. CASE DiscardFail
      BY <1>2, <3>4 DEF DiscardFail, runtime
    <3>5. CASE GiveBack
      BY <1>2, <3>5 DEF GiveBack, runtime
    <3>6. CASE Reallocate
      BY <1>2, <3>6 DEF Reallocate, runtime
    <3>7. CASE ReallocateFail
      BY <1>2, <3>7 DEF ReallocateFail, runtime
    <3> QED BY <3>1, <3>2, <3>3, <3>4, <3>5, <3>6, <3>7
  <2> QED BY <2>1, MainOnly
<1>5. CASE StartFail \/ DiscardFail \/ ReallocateFail
  BY <1>1, <1>2, <1>4, <1>5, NewFailedKeepsInv DEF StartFail, DiscardFail, ReallocateFail
<1>6. CASE Start
  <2>1. /\ UNCHANGED <<mem, cur, disk, entry, lease, port>> /\ pc = "start" /\ pc' = "repin"
    BY <1>6 DEF Start, journal
  <2>2. RunStarts' /\ RunRestores'
    BY <1>1, <2>1 DEF RunStarts, RunRestores, BuiltPc, StartedPc, Creation, RestorePc
  <2> QED BY <1>1, <1>2, <1>3, <1>4, <2>1, <2>2, StepKeepsInv
<1>7. CASE Collide \/ GiveBack \/ Reallocate
  <2>1. /\ UNCHANGED <<mem, disk>> /\ pc' \in {"release", "reallocate", "create"}
    BY <1>7 DEF Collide, GiveBack, Reallocate
  <2>2. RunStarts' /\ RunRestores'
    BY <1>1, <2>1 DEF RunStarts, RunRestores, BuiltPc, StartedPc, Creation, RestorePc
  <2> QED BY <1>1, <1>2, <1>3, <1>4, <2>1, <2>2, StepKeepsInv
<1> QED BY <1>5, <1>6, <1>7

\* Its pin is corrected and its final check made; success is a case of its own.
LEMMA CheckKeepsInv ==
    ASSUME TypeOK, PromiseInv, TypeOK',
           Repin \/ FinalCheckStart \/ FinalCheckFail \/ StopFailedFirst \/ StopFailedNew
    PROVE  Promised
<1> USE DEF Goto
<1>0. pc \in {"repin", "check", "final", "stop_failed_first", "stop_failed_new"}
  BY DEF Repin, FinalCheckStart, FinalCheckFail, StopFailedFirst, StopFailedNew
<1>1. /\ mem \in Record /\ cur \in Dep /\ mem.status \notin {"Succeeded", "Superseded"}
      /\ RunAgrees /\ RunStarts /\ RunRestores
  BY <1>0, RunStatus, RunFacts
<1>2. PICK k \in Dep : k = cur
  BY <1>1
<1>3. pc \in StartedPc => mem.release /\ port[Main(k)] \in lease[k] /\ entry[Main(k)] = "created"
  BY <1>1, <1>2 DEF RunStarts, BuiltPc, StartedPc
<1>4. Repinned \in Record
      /\ Repinned.pinned = port[Main(k)] /\ Repinned.status = mem.status
      /\ Repinned.cutover = mem.cutover /\ Repinned.recovery = mem.recovery
      /\ Repinned.replaces = mem.replaces /\ Repinned.release = mem.release
  <2>1. port[Main(k)] \in Port \union {NoPort}
    BY Distinct DEF TypeOK
  <2> QED BY <1>1, <1>2, <2>1 DEF Repinned, Record
<1>5. CASE Repin
  <2>1. Save(Repinned) /\ pc = "repin" /\ pc' = "check" /\ UNCHANGED <<cur, prev, entry, lease, runtime>>
    BY <1>5 DEF Repin
  <2>2. RunStarts' /\ RunRestores'
    BY <1>2, <1>3, <1>4, <2>1
       DEF Save, RunStarts, RunRestores, BuiltPc, StartedPc, Creation, RestorePc, runtime
  <2> QED BY <1>0, <1>1, <1>4, <2>1, <2>2, SaveKeepsInv
<1>6. CASE FinalCheckStart
  <2>1. PICK r \in {mem, Repinned} :
           /\ Save(StartStep(FinishStep(r, "Cutover", TRUE), "FinalCheck"))
           /\ pc \in StartedPc /\ (pc = "check" => r = mem) /\ (pc # "check" => r = Repinned)
    BY <1>6 DEF FinalCheckStart, StartedPc
  <2>2. pc' = "final" /\ UNCHANGED <<cur, prev, entry, lease, runtime>> /\ pc \in {"check", "repin"}
    BY <1>6 DEF FinalCheckStart
  <2>4. r \in Record /\ r.pinned = port[Main(k)] /\ r.status = mem.status
          /\ r.cutover = mem.cutover /\ r.recovery = mem.recovery
          /\ r.replaces = mem.replaces /\ r.release = mem.release
    BY <1>1, <1>2, <1>4, <2>1 DEF RunStarts
  <2>5. SameFields(mem', r)
    <3> DEFINE f == FinishStep(r, "Cutover", TRUE)
    <3>1. f \in Record /\ SameFields(f, r)
      BY <2>4, StepType, StepFields DEF Step
    <3>2. mem' = StartStep(f, "FinalCheck")
      BY <2>1 DEF Save
    <3> HIDE DEF f
    <3>3. SameFields(mem', f)
      BY <3>1, <3>2, StepFields
    <3> QED BY <3>1, <3>3 DEF SameFields
  <2>6. RunStarts' /\ RunRestores'
    BY <1>2, <1>3, <2>1, <2>2, <2>4, <2>5
       DEF SameFields, RunStarts, RunRestores, BuiltPc, StartedPc, Creation, RestorePc, runtime
  <2>7. Save(mem') /\ CutoverStep(mem') /\ Saved(k)
    BY <1>1, <1>2, <2>1, <2>4, <2>5 DEF Save, Saved, SameFields, CutoverStep
  <2>8. OthersKept(k) /\ RestoredKept(k)
    BY <1>2, <2>2, MainOnly DEF runtime
  <2> QED BY <1>0, <1>2, <2>2, <2>6, <2>7, <2>8, StepKeepsInv
<1>7. CASE FinalCheckFail
  <2> DEFINE f == FinishStep(mem, "FinalCheck", FALSE)
             r == [f EXCEPT !.failure = "FinalCheck"]
  <2>0. OthersKept(k) /\ RestoredKept(k)
    BY <1>2, <1>7, MainOnly DEF FinalCheckFail, runtime
  <2>1. CASE FailAfterCutover("FinalCheck", "stop_failed_new")
    BY <1>0, <1>2, <2>0, <2>1, FailKeepsInv DEF Step
  <2>2. CASE mem' = r /\ pc' = "stop_failed_first" /\ UNCHANGED disk
    <3>1. f \in Record /\ SameFields(f, mem)
      BY <1>1, StepType, StepFields DEF Step
    <3>2. SameFields(r, mem)
      <4> HIDE DEF f
      <4> QED BY <3>1 DEF Record, SameFields
    <3>3. NotSaved /\ CutoverStep(mem')
      BY <1>0, <1>1, <2>2, <3>2 DEF NotSaved, CutoverStep, SameFields
    <3>4. RunStarts' /\ RunRestores'
      BY <2>2 DEF RunStarts, RunRestores, BuiltPc, StartedPc, Creation, RestorePc
    <3> QED BY <1>0, <1>2, <2>0, <2>2, <3>3, <3>4, StepKeepsInv
  <2> QED BY <1>7, <2>1, <2>2 DEF FinalCheckFail
<1>8. StopNew => cont' = cont \/ \E x : cont' = [cont EXCEPT ![Main(k)] = x]
  BY <1>2 DEF StopNew
<1>9. CASE StopFailedFirst
  <2>1. OthersKept(k) /\ RestoredKept(k)
    BY <1>2, <1>8, <1>9, MainOnly DEF StopFailedFirst
  <2> QED BY <1>0, <1>1, <1>2, <1>9, <2>1, EndKeepsInv DEF StopFailedFirst
<1>10. CASE StopFailedNew
  <2>1. OthersKept(k) /\ RestoredKept(k)
    BY <1>2, <1>8, <1>10, MainOnly DEF StopFailedNew, journal
  <2>2. UNCHANGED <<mem, disk>> /\ pc = "stop_failed_new" /\ pc' = "blockers"
    BY <1>10 DEF StopFailedNew, journal
  <2>3. NotSaved /\ CutoverStep(mem')
    BY <1>1, <2>2 DEF NotSaved, CutoverStep
  <2>4. RunStarts' /\ RunRestores'
    BY <1>1, <2>2 DEF RunStarts, RunRestores, BuiltPc, StartedPc, Creation, RestorePc, Restoring
  <2> QED BY <1>0, <1>2, <2>1, <2>2, <2>3, <2>4, StepKeepsInv
<1> QED BY <1>5, <1>6, <1>7, <1>9, <1>10

\* The restoration, up to the outcome about to be recorded.
LEMMA RestorationKeepsInv ==
    ASSUME TypeOK, PromiseInv, TypeOK',
           \/ RestoreNotAttempted \/ RestoreGoesOn \/ RestoreRefused \/ RestoreLease
           \/ RestoreStart \/ RestoreStartFail \/ PrecheckPasses
    PROVE  Promised
<1> USE DEF Goto
<1>0. pc \in {"blockers", "restore", "restore_start", "precheck"}
  BY DEF RestoreNotAttempted, RestoreGoesOn, RestoreRefused, RestoreLease, RestoreStart,
         RestoreStartFail, PrecheckPasses
<1>1. /\ mem \in Record /\ cur \in Dep /\ mem.status \notin {"Succeeded", "Superseded"}
      /\ RunAgrees /\ RunStarts /\ RunRestores
  BY <1>0, RunStatus, RunFacts
<1>2. PICK k \in Dep : k = cur
  BY <1>1
<1>3. mem' = mem /\ disk' = disk => NotSaved /\ CutoverStep(mem')
  BY <1>0, <1>1 DEF NotSaved, CutoverStep
<1>4. pc \in RestorePc => Restoring
  BY <1>1 DEF RunRestores
<1>5. CASE RestoreNotAttempted \/ RestoreGoesOn \/ RestoreRefused
  <2>1. /\ UNCHANGED <<mem, disk, cur, prev, entry, lease, runtime>> /\ pc \in RestorePc
        /\ pc' \in {"record", "restore"}
        /\ pc' = "record" => outcome' \notin ServiceRestored
    BY <1>5 DEF RestoreNotAttempted, RestoreGoesOn, RestoreRefused, Ends, journal,
                RestorePc, ServiceRestored
  <2>2. OthersKept(k) /\ RestoredKept(k)
    BY <1>2, <2>1, MainOnly DEF runtime
  <2>3. RunStarts' /\ RunRestores'
    BY <1>4, <2>1 DEF RunStarts, RunRestores, BuiltPc, StartedPc, Creation, RestorePc, Restoring
  <2> QED BY <1>0, <1>2, <1>3, <2>1, <2>2, <2>3, StepKeepsInv
<1>6. CASE RestoreLease
  <2>1. /\ UNCHANGED <<mem, disk, cur, prev, entry, runtime>> /\ pc \in RestorePc /\ pc' = "create"
        /\ lease' = lease \/ (\E x : lease' = [lease EXCEPT ![k] = x])
    BY <1>2, <1>6 DEF RestoreLease, RestorePc
  <2>2. OthersKept(k) /\ RestoredKept(k)
    BY <1>2, <2>1, MainOnly DEF runtime
  <2>3. RunStarts' /\ RunRestores'
    BY <1>4, <2>1 DEF RunStarts, RunRestores, BuiltPc, StartedPc, Creation, RestorePc, Restoring
  <2> QED BY <1>0, <1>2, <1>3, <2>1, <2>2, <2>3, StepKeepsInv
<1>7. CASE RestoreStart \/ RestoreStartFail
  <2> DEFINE c == Restored(k)
  <2>0. c \in Container /\ c[1] = k
    BY Distinct
  <2>1. /\ UNCHANGED <<mem, disk, cur, prev, entry, lease, port>>
        /\ pc = "restore_start" /\ pc' = "record"
        /\ cont' \in {cont, [cont EXCEPT ![c] = "running"]}
        /\ outcome' \in ServiceRestored => cont' = [cont EXCEPT ![c] = "running"]
    BY <1>2, <1>7 DEF RestoreStart, RestoreStartFail, Ends, journal, ServiceRestored
  <2>2. Restoring /\ entry[c] = "created" /\ RestoredRight(k)
    BY <1>1, <1>2, <2>1 DEF RunRestores, RestorePc, PromiseInv, ServingInv, RecordsInv
  <2> HIDE DEF c
  <2>3. /\ \A x \in Container : x # c => cont'[x] = cont[x]
        /\ cont'[c] \in {cont[c], "running"}
        /\ outcome' \in ServiceRestored => cont'[c] = "running"
    BY <2>0, <2>1 DEF TypeOK
  <2>4. OthersKept(k)
    BY <2>0, <2>1, <2>3 DEF OthersKept
  <2>5. /\ cont[c] # "absent" /\ port[c] = disk[disk[k].replaces].pinned
        /\ mem.replaces = disk[k].replaces
    BY <1>1, <1>2, <2>2 DEF RestoredRight, RunAgrees, c
  <2>6. RestoredFits(k)
    BY <2>1, <2>2, <2>3, <2>5 DEF RestoredFits, Restoring, c
  <2>7. RunStarts' /\ RunRestores'
    BY <1>2, <2>1, <2>2, <2>3
       DEF RunStarts, RunRestores, BuiltPc, StartedPc, Creation, RestorePc, Restoring, Up, c
  <2> QED BY <1>0, <1>2, <1>3, <2>1, <2>4, <2>6, <2>7, StepKeepsInv
<1>8. CASE PrecheckPasses
  <2> DEFINE f == FailCutover(mem)
             x == [f EXCEPT !.steps = [mem.steps EXCEPT !["Recovery"] = "Running"]]
  <2>1. /\ mem.cutover = "Begun" /\ mem.recovery = "None" /\ Save(StartRecovery(x))
        /\ pc' = "blockers" /\ UNCHANGED <<cur, prev, entry, lease, runtime>>
    BY <1>8 DEF PrecheckPasses, CanRecoverExplicitly, BeginExplicitRecovery
  <2>2. /\ f \in Record /\ f.status = mem.status /\ f.replaces = mem.replaces
        /\ f.cutover = "Failed"
    BY <1>1, CutoverType DEF FailCutover, Record
  <2>3. /\ x \in Record /\ x.status = mem.status /\ x.replaces = mem.replaces
        /\ x.cutover = "Failed"
    <3> HIDE DEF f
    <3> QED BY <1>1, <2>2 DEF Record, Step, StepStatus
  <2> HIDE DEF x
  <2>4. /\ mem'.status = mem.status /\ mem'.replaces = mem.replaces
        /\ mem'.cutover = "Failed" /\ mem'.recovery = "InProgress" /\ Saved(k)
    <3>1. mem' = [x EXCEPT !.recovery = "InProgress"] /\ Saved(k)
      BY <1>2, <2>1 DEF Save, StartRecovery, Saved
    <3> QED BY <2>3, <3>1 DEF Record
  <2>5. CutoverStep(mem')
    BY <1>1, <2>1, <2>4 DEF CutoverStep
  <2>6. OthersKept(k) /\ RestoredKept(k)
    BY <1>2, <2>1, MainOnly DEF runtime
  <2>7. RunStarts' /\ RunRestores'
    BY <2>1, <2>4 DEF RunStarts, RunRestores, BuiltPc, StartedPc, Creation, RestorePc, Restoring
  <2> QED BY <1>0, <1>2, <2>1, <2>4, <2>5, <2>6, <2>7, StepKeepsInv
<1> QED BY <1>5, <1>6, <1>7, <1>8

-----------------------------------------------------------------------------
(* The steps that change what serves *)

\* Deployment k succeeds or its restoration works, with container c: a new
\* candidate, newer than all others, and nothing is in doubt any more.
LEMMA NewCandidate ==
    ASSUME TypeOK, PromiseInv, pc \notin {"idle", "finish"}, TypeOK',
           NEW k \in Dep, k = cur, NEW c \in {Main(k), Restored(k)},
           UNCHANGED <<entry, lease, runtime>>, disk' = [disk EXCEPT ![k] = disk'[k]],
           \/ /\ c = Main(k) /\ disk'[k].status = "Succeeded"
              /\ disk'[k].recovery \notin ServiceRestored
           \/ /\ c = Restored(k) /\ disk'[k].status # "Succeeded"
              /\ disk'[k].recovery \in ServiceRestored,
           ~ApplicationMayBeDown(disk'[k]), Up(c), RecordsInv'
    PROVE  /\ Candidates' = Candidates \union {c} /\ c \notin Candidates
           /\ Newest(Candidates)' = {c}
           /\ UpInv' /\ \A d \in Dep : ~Doubtful(d)'
<1>1. /\ RunAgrees /\ ~Succeeded(k) /\ disk[k].recovery \notin ServiceRestored
      /\ \A o \in Candidates : o[1] # k
      /\ RecordsInv /\ UpInv /\ DoubtInv
  BY RunFacts DEF PromiseInv, ServingInv
<1>2. \A e \in Dep : e # k => disk'[e] = disk[e]
  BY DEF TypeOK
<1>3. CandidatesAre /\ CandidatesAre'
  BY <1>1, WhoServes, PTL
<1>4. \A o : o \in Candidates' <=> o \in Candidates \/ o = c
  <2>1. \A d \in Dep : d # k => /\ Succeeded(d)' <=> Succeeded(d)
                               /\ disk'[d].recovery = disk[d].recovery
    BY <1>2 DEF Succeeded
  <2> QED BY <1>1, <1>3, <2>1 DEF CandidatesAre, Succeeded
<1>5. c[1] = k /\ c \notin Candidates
  BY <1>1, Distinct
<1>6. \A o \in Candidates : o[1] \in Dep /\ o[1] < k
  <2> SUFFICES ASSUME NEW o \in Candidates PROVE o[1] \in Dep /\ o[1] < k
    OBVIOUS
  <2>1. o[1] \in Dep /\ (Succeeded(o[1]) \/ disk[o[1]].recovery \in ServiceRestored)
    BY <1>1, ServesWhat
  <2>2. disk[o[1]] # NoRecord
    BY <2>1, NoRecordFields DEF Succeeded, ServiceRestored
  <2>3. ~(o[1] > k) /\ o[1] # k
    BY <1>1, <2>1, <2>2 DEF RunAgrees
  <2> QED BY <2>1, <2>3, DepAssumption
<1>7. \A d \in Dep : ~Doubtful(d)'
  <2> SUFFICES ASSUME NEW d \in Dep, Doubtful(d)' PROVE FALSE
    OBVIOUS
  <2>1. CASE d = k
    BY <2>1 DEF Doubtful
  <2>2. CASE d # k
    BY <1>1, <1>2, <2>2 DEF Doubtful, DoubtInv
  <2> QED BY <2>1, <2>2
<1>8. UpInv'
  <2>1. ASSUME NEW o \in Candidates'
        PROVE  Up(o)' \/ \E d \in Dep : d > o[1] /\ \E p \in Candidates' : p[1] = d
    <3>1. CASE o = c
      BY <3>1 DEF Up, runtime
    <3>2. CASE o # c
      <4>1. o[1] < k /\ o[1] \in Nat /\ k \in Nat
        BY <1>4, <1>6, <2>1, <3>2, DepAssumption
      <4>2. k > o[1]
        BY <4>1
      <4> QED BY <1>4, <1>5, <4>2
    <3> QED BY <3>1, <3>2
  <2> QED BY <2>1 DEF UpInv
<1>9. Newest(Candidates)' = {c}
  <2>0. k \in Nat /\ \A o \in Candidates : o[1] \in Nat
    BY <1>6, DepAssumption
  <2>3. \A o \in Candidates : o[1] <= k /\ ~(k <= o[1])
    BY <1>6, <2>0
  <2>1. \A o \in Candidates' : o[1] <= k
    <3>1. k <= k
      BY <2>0
    <3> QED BY <1>4, <1>5, <2>3, <3>1
  <2>2. \A o \in Candidates' : o # c => ~(k <= o[1])
    BY <1>4, <2>3
  <2> QED BY <1>4, <1>5, <2>1, <2>2 DEF Newest
<1> QED BY <1>4, <1>5, <1>7, <1>8, <1>9

\* A save of deployment k that touches nothing else keeps the records right when it
\* leaves k's own record right.
LEMMA OthersRight ==
    ASSUME TypeOK, RecordsInv, UNCHANGED <<entry, lease, runtime>>,
           NEW k \in Dep, k \in Used, ~Succeeded(k), disk' = [disk EXCEPT ![k] = disk'[k]],
           disk'[k].status # "Superseded",
           SucceededRight(k)', disk'[k].replaces = disk[k].replaces,
           disk'[k].cutover \in Crossed => disk[k].replaces # NoDep,
           LET c == Restored(k) IN
              /\ disk'[k].recovery # "None" => disk'[k].cutover = "Failed"
              /\ disk'[k].recovery \in ServiceRestored => entry[c] = "created"
              /\ disk[k].recovery # "None" => disk'[k].recovery # "None"
    PROVE  RecordsInv'
<1>1. \A e \in Dep : e # k => disk'[e] = disk[e]
  BY DEF TypeOK
<1>2. \A d \in Dep : disk[d].replaces # NoDep =>
         /\ disk[d].replaces \in Dep /\ disk[d].replaces < d /\ Succeeded(disk[d].replaces)
         /\ disk[d].replaces # k /\ disk'[disk[d].replaces] = disk[disk[d].replaces]
  <2> SUFFICES ASSUME NEW d \in Dep, disk[d].replaces # NoDep
               PROVE  /\ disk[d].replaces \in Dep /\ disk[d].replaces < d
                      /\ Succeeded(disk[d].replaces)
    BY <1>1
  <2> QED BY DEF RecordsInv, ReplacesRight, TypeOK, Record
<1>3. \A d \in Dep : disk'[d].replaces = disk[d].replaces
  BY <1>1
<1>4. ASSUME NEW d \in Dep PROVE SucceededRight(d)'
  <2>1. CASE d # k
    BY <1>1, <2>1 DEF RecordsInv, SucceededRight, Succeeded, runtime
  <2> QED BY <2>1
<1>5. ASSUME NEW d \in Dep PROVE ReplacesRight(d)'
  <2>1. disk'[d].cutover \in Crossed => disk[d].replaces # NoDep
    BY <1>1 DEF RecordsInv, ReplacesRight
  <2> QED BY <1>2, <1>3, <2>1 DEF ReplacesRight, Succeeded
<1>6. ASSUME NEW d \in Dep PROVE RestoredRight(d)'
  <2>1. RestoredRight(d) /\ ReplacesRight(d)
    BY DEF RecordsInv
  <2>2. disk[d].recovery # "None" => disk'[disk'[d].replaces] = disk[disk[d].replaces]
    BY <1>2, <1>3, <2>1 DEF RestoredRight, ReplacesRight, Crossed
  <2> QED BY <1>1, <2>1, <2>2 DEF RestoredRight, runtime
<1>7. disk'[k] # NoRecord
  BY NoRecordFields
<1>8. Used' = Used
  BY <1>1, <1>7 DEF Used
<1>9. ASSUME NEW d \in Dep PROVE OrderRight(d)'
  BY <1>1, <1>8 DEF RecordsInv, OrderRight
<1> QED BY <1>4, <1>5, <1>6, <1>9 DEF RecordsInv

\* The release passes its final check: it succeeds, and serves.
LEMMA SuccessKeepsInv ==
    ASSUME TypeOK, PromiseInv, FinalCheckPass, TypeOK'
    PROVE  Promised
<1>1. /\ pc = "final" /\ mem \in Record /\ cur \in Dep /\ RecordsInv
      /\ RunAgrees /\ RunReplaces /\ RunStarts /\ cont[Main(cur)] = "running"
      /\ UNCHANGED <<cur, prev, entry, lease, runtime>>
  <2>1. pc = "final"
    BY DEF FinalCheckPass
  <2> QED BY <2>1, RunStatus, RunFacts DEF FinalCheckPass, PromiseInv, ServingInv
<1>2. PICK k \in Dep : k = cur
  BY <1>1
<1> DEFINE checked == FinishStep(mem, "FinalCheck", TRUE)
           confirmed == ConfirmCutover(checked)
<1>3. checked \in Record /\ SameFields(checked, mem)
  BY <1>1, StepType, StepFields DEF Step
<1>4. /\ confirmed \in Record /\ confirmed.recovery = mem.recovery
      /\ confirmed.replaces = mem.replaces /\ confirmed.release = mem.release
      /\ confirmed.pinned = mem.pinned /\ confirmed.cutover = "Confirmed"
  <2> HIDE DEF checked
  <2>1. confirmed \in Record
    BY <1>3, CutoverType
  <2> QED BY <1>3, <2>1 DEF ConfirmCutover, Record, SameFields
<1>5. mem.recovery # "None" => mem.cutover = "Failed"
  BY <1>1, <1>2 DEF RecordsInv, RestoredRight, RunAgrees
<1>6. PICK r \in Record : /\ EndRun(r, "Succeeded")
                          /\ r.recovery = mem.recovery /\ r.replaces = mem.replaces
                          /\ r.release = mem.release /\ r.pinned = mem.pinned
                          /\ r.cutover \notin {"Begun", "Failed"} /\ mem.recovery = "None"
                          /\ r.cutover \in Crossed => prev # NoPrev /\ mem.replaces = prev.rel
  <2>1. CASE prev = NoPrev /\ EndRun(checked, "Succeeded")
    BY <1>1, <1>3, <1>5, <2>1 DEF SameFields, RunReplaces, Crossed
  <2>2. CASE prev # NoPrev /\ ConfirmCutoverOK(checked) /\ EndRun(confirmed, "Succeeded")
    <3>1. mem.cutover = "Begun"
      BY <1>3, <2>2 DEF SameFields, ConfirmCutoverOK
    <3> HIDE DEF confirmed
    <3> QED BY <1>1, <1>4, <1>5, <2>2, <3>1 DEF RunReplaces, Crossed
  <2> QED BY <2>1, <2>2 DEF FinalCheckPass
<1>7. /\ mem'.status = "Succeeded" /\ mem'.cutover = r.cutover /\ mem'.recovery = "None"
      /\ mem'.replaces = mem.replaces /\ mem'.release /\ mem'.pinned = port[Main(k)]
      /\ disk' = [disk EXCEPT ![k] = mem'] /\ disk'[k] = mem' /\ pc' = "finish"
  <2>1. mem.release /\ mem.pinned = port[Main(k)]
    BY <1>1, <1>2 DEF RunStarts, BuiltPc
  <2>2. /\ mem'.status = "Succeeded" /\ mem'.cutover = r.cutover /\ mem'.recovery = r.recovery
        /\ mem'.replaces = r.replaces /\ mem'.release = r.release
        /\ mem'.pinned = r.pinned /\ Saved(k) /\ pc' = "finish"
    BY <1>2, <1>6, EndFields DEF Status
  <2> QED BY <1>6, <2>1, <2>2 DEF Saved, TypeOK
<1>8. k \in Used /\ ~Succeeded(k) /\ mem.replaces = disk[k].replaces /\ mem.recovery = disk[k].recovery
  BY <1>1, <1>2, NoRecordFields DEF RunAgrees, Used, Succeeded
<1>9. entry[Main(k)] = "created" /\ port[Main(k)] \in lease[k]
  BY <1>1, <1>2 DEF RunStarts, StartedPc
<1>10. RecordsInv'
  <2>1. SucceededRight(k)'
    BY <1>1, <1>6, <1>7, <1>9 DEF SucceededRight, runtime
  <2>2. mem'.cutover \in Crossed => mem.replaces # NoDep
    BY <1>6, <1>7, NoPrevFacts
  <2> QED BY <1>1, <1>6, <1>7, <1>8, <2>1, <2>2, OthersRight DEF ServiceRestored
<1>11. /\ Newest(Candidates)' = {Main(k)} /\ UpInv' /\ \A d \in Dep : ~Doubtful(d)'
       /\ Candidates' = Candidates \union {Main(k)}
  <2>1. ~ApplicationMayBeDown(disk'[k]) /\ Up(Main(k))
    BY <1>1, <1>2, <1>6, <1>7 DEF ApplicationMayBeDown, Up
  <2>2. disk' = [disk EXCEPT ![k] = disk'[k]]
    BY <1>7
  <2>3. disk'[k].status = "Succeeded" /\ disk'[k].recovery \notin ServiceRestored
    BY <1>7 DEF ServiceRestored
  <2> QED BY <1>1, <1>2, <1>10, <2>1, <2>2, <2>3, NewCandidate
<1>12. RunInv'
  <2>1. RunAgrees'
    BY <1>1, <1>2, <1>7, DepAssumption DEF RunAgrees, TypeOK
  <2>2. RunReplaces'
    <3>1. prev # NoPrev => prev.rel \in Dep /\ prev.rel # k
      BY <1>1, <1>2, NoPrevFacts, DepAssumption DEF RunReplaces
    <3> QED BY <1>1, <1>2, <1>6, <1>7, <3>1 DEF RunReplaces, Succeeded, TypeOK
  <2>3. RunStarts' /\ RunRestores'
    BY <1>7 DEF RunStarts, RunRestores, BuiltPc, StartedPc, Creation, RestorePc
  <2> QED BY <2>1, <2>2, <2>3 DEF RunInv
<1>13. PromiseInv'
  <2>1. DoubtInv' /\ ServedInv'
    BY <1>7, <1>11 DEF DoubtInv, ServedInv
  <2> QED BY <1>10, <1>11, <1>12, <2>1 DEF PromiseInv, ServingInv
<1>14. OwnerStep
  <2>1. ServedIs /\ ServedIs' /\ PhaseIs /\ PhaseIs'
    BY <1>13, OwnerIs, PTL
  <2>2. Served' = k /\ Phase' = "steady"
    <3>1. Served' = ReleaseOf(Main(k))'
      BY <1>11, <2>1 DEF ServedIs
    <3> QED BY <1>11, <2>1, <3>1 DEF ReleaseOf, Main, PhaseIs
  <2>3. ServedInv /\ \A d \in Dep : Doubtful(d) => d = k
    BY <1>1, <1>2 DEF PromiseInv, DoubtInv
  <2>4. CASE prev = NoPrev
    <3>1. Served = NoDep
      BY <1>1, <2>1, <2>3, <2>4 DEF ServedInv, ServedIs
    <3>2. ~Doubtful(k)
      BY <1>1, <1>2, <2>4 DEF Doubtful, ApplicationMayBeDown, RunReplaces, RunAgrees, Crossed
    <3>3. Phase = "steady"
      BY <2>1, <2>3, <3>2 DEF PhaseIs
    <3> QED BY <2>2, <3>1, <3>3 DEF OwnerStep, Owner!Next, Owner!FirstRelease
  <2>5. CASE prev # NoPrev
    <3>1. Served = prev.rel
      <4>1. PICK c \in Newest(Candidates) : ReleaseOf(c) = prev.rel
        BY <1>1, <2>3, <2>5 DEF ServedInv
      <4> QED BY <2>1, <4>1 DEF ServedIs
    <3>2. prev.rel # k
      BY <1>1, <1>2, <2>5, NoPrevFacts, DepAssumption DEF RunReplaces
    <3>3. disk[k].cutover = "Begun"
      <4>1. checked.cutover = "Begun"
        BY <2>5 DEF FinalCheckPass, ConfirmCutoverOK
      <4> QED BY <1>1, <1>2, <1>3, <4>1 DEF SameFields, RunAgrees
    <3>4. Phase = "switching"
      BY <2>1, <3>3 DEF PhaseIs, Doubtful, ApplicationMayBeDown
    <3> QED BY <2>2, <3>1, <3>2, <3>4 DEF OwnerStep, Owner!Next, Owner!Switch
  <2> QED BY <2>4, <2>5
<1> QED BY <1>13, <1>14 DEF Promised

\* The outcome of the restoration is recorded: a release that is back serves again,
\* and one that is not stays in doubt.
LEMMA OutcomeKeepsInv ==
    ASSUME TypeOK, AttemptInv, PromiseInv, RecordRecovery, TypeOK'
    PROVE  Promised
<1>1. /\ pc = "record" /\ mem \in Record /\ cur \in Dep /\ RecordsInv
      /\ RunAgrees /\ RunReplaces /\ RunRestores
      /\ mem.recovery = "InProgress" /\ outcome \in RecoveryState /\ outcome # "InProgress"
      /\ UNCHANGED <<entry, lease, runtime>>
  <2>1. pc = "record"
    BY DEF RecordRecovery
  <2> QED BY <2>1, RunStatus, RunFacts
      DEF RecordRecovery, FinishRecoveryOK, PromiseInv, ServingInv, TypeOK
<1>2. PICK k \in Dep : k = cur
  BY <1>1
<1>3. /\ mem.cutover = "Failed" /\ prev # NoPrev /\ mem.replaces = prev.rel
      /\ mem.status \notin {"Succeeded", "Superseded"}
  BY <1>1, RestoringFacts DEF Restoring
<1> DEFINE f == FinishRecovery(mem, outcome)
           closed == FinishStep(f, "Recovery", outcome \in ServiceRestored)
<1>4. /\ f \in Record /\ f.status = mem.status /\ f.cutover = mem.cutover
      /\ f.replaces = mem.replaces /\ f.recovery = outcome
  <2>1. f \in Record
    BY <1>1, RecoveryType
  <2> QED BY <1>1, <2>1 DEF FinishRecovery, Record
<1>5. closed \in Record /\ SameFields(closed, f)
  <2> HIDE DEF f
  <2>1. (outcome \in ServiceRestored) \in BOOLEAN /\ "Recovery" \in Step
    BY DEF Step
  <2>2. closed \in Record
    BY <1>4, <2>1, StepType
  <2>3. SameFields(closed, f)
    BY <1>4, StepFields
  <2> QED BY <2>2, <2>3
<1> HIDE DEF f, closed
<1>6. PICK r \in Record : /\ r.cutover = "Failed" /\ r.recovery = outcome
                          /\ r.replaces = mem.replaces
                          /\ r.status \notin {"Succeeded", "Superseded"}
                          /\ disk' = [disk EXCEPT ![k] = r]
                          /\ \/ pc' = "finish" /\ mem' = r /\ UNCHANGED <<cur, prev>>
                             \/ pc' = "idle"
  <2>1. CASE mem.status = "Running" /\ EndRun(closed, "Failed") /\ UNCHANGED <<cur, prev>>
    <3>1. /\ mem'.status = "Failed" /\ mem'.cutover = closed.cutover
          /\ mem'.recovery = closed.recovery /\ mem'.replaces = closed.replaces
          /\ Saved(k) /\ pc' = "finish"
      BY <1>2, <1>5, <2>1, EndFields DEF Status
    <3>2. mem' \in Record
      BY DEF TypeOK
    <3> QED BY <3>2, <1>3, <1>4, <1>5, <2>1, <3>1 DEF Saved, SameFields
  <2>2. CASE disk' = [disk EXCEPT ![cur] = closed] /\ Leave
    <3> QED BY <1>2, <1>3, <1>4, <1>5, <2>2 DEF SameFields, Leave
  <2> QED BY <2>1, <2>2 DEF RecordRecovery, f, closed
<1>7. /\ disk'[k] = r /\ disk' = [disk EXCEPT ![k] = disk'[k]]
      /\ \A e \in Dep : e # k => disk'[e] = disk[e]
      /\ k \in Used /\ ~Succeeded(k) /\ mem.replaces = disk[k].replaces
      /\ disk[k].replaces # NoDep
  <2>1. disk'[k] = r /\ \A e \in Dep : e # k => disk'[e] = disk[e]
    BY <1>6 DEF TypeOK
  <2>2. k \in Used /\ ~Succeeded(k) /\ mem.replaces = disk[k].replaces
    BY <1>1, <1>2, NoRecordFields DEF RunAgrees, Used, Succeeded
  <2> QED BY <1>3, <1>6, <2>1, <2>2, NoPrevFacts
<1>8. RunInv'
  <2>1. CASE pc' = "idle"
    BY <2>1 DEF RunInv
  <2>2. CASE pc' = "finish" /\ mem' = r /\ UNCHANGED <<cur, prev>>
    <3>1. RunAgrees'
      BY <1>1, <1>2, <1>6, <1>7, <2>2, DepAssumption DEF RunAgrees
    <3>2. RunReplaces'
      <4>1. prev.rel \in Dep /\ prev.rel # k
        BY <1>1, <1>2, <1>3, NoPrevFacts, DepAssumption DEF RunReplaces
      <4> QED BY <1>1, <1>2, <1>3, <1>6, <1>7, <2>2, <4>1 DEF RunReplaces, Succeeded
    <3>3. RunStarts' /\ RunRestores'
      BY <2>2 DEF RunStarts, RunRestores, BuiltPc, StartedPc, Creation, RestorePc
    <3> QED BY <3>1, <3>2, <3>3 DEF RunInv
  <2> QED BY <1>6, <2>1, <2>2
<1>0. /\ ServedIs /\ Served = prev.rel /\ Phase = "restoring"
      /\ \A d \in Dep : Doubtful(d) => d = k
  <2>1. ServedIs /\ PhaseIs /\ ServedInv /\ DoubtInv
    BY OwnerIs DEF PromiseInv
  <2>2. PICK c \in Newest(Candidates) : ReleaseOf(c) = prev.rel
    BY <1>1, <1>3, <2>1 DEF ServedInv
  <2>3. Doubtful(k) /\ disk[k].cutover = "Failed" /\ disk[k].recovery = "InProgress"
    BY <1>1, <1>2, <1>3 DEF RunAgrees, Doubtful, ApplicationMayBeDown, ServiceRestored
  <2> QED BY <1>1, <1>2, <2>1, <2>2, <2>3 DEF ServedIs, PhaseIs, DoubtInv
<1>9. CASE outcome \in ServiceRestored
  <2>1. entry[Restored(k)] = "created" /\ Up(Restored(k))
    BY <1>1, <1>2, <1>9 DEF RunRestores
  <2>2. RecordsInv'
    <3>1. SucceededRight(k)'
      BY <1>6, <1>7 DEF SucceededRight, Succeeded
    <3>2. disk'[k].recovery # "None"
      BY <1>6, <1>7, <1>9 DEF ServiceRestored
    <3> QED BY <1>1, <1>6, <1>7, <2>1, <3>1, <3>2, OthersRight
  <2>3. /\ Newest(Candidates)' = {Restored(k)} /\ UpInv' /\ \A d \in Dep : ~Doubtful(d)'
        /\ Candidates' = Candidates \union {Restored(k)}
    <3>1. ~ApplicationMayBeDown(disk'[k])
      BY <1>6, <1>7, <1>9 DEF ApplicationMayBeDown
    <3>2. disk'[k].status # "Succeeded" /\ disk'[k].recovery \in ServiceRestored
      BY <1>6, <1>7, <1>9
    <3> QED BY <1>1, <1>2, <1>7, <2>1, <2>2, <3>1, <3>2, NewCandidate
  <2>4. PromiseInv'
    <3>1. DoubtInv' /\ ServedInv'
      BY <1>6, <2>3 DEF DoubtInv, ServedInv
    <3> QED BY <1>8, <2>2, <2>3, <3>1 DEF PromiseInv, ServingInv
  <2>5. ServedIs' /\ PhaseIs'
    BY <2>4, OwnerIs, PTL
  <2>6. Served' = prev.rel
    <3>1. ReleaseOf(Restored(k))' = disk'[k].replaces
      BY DEF ReleaseOf, Restored
    <3> QED BY <1>3, <1>6, <1>7, <2>3, <2>5, <3>1 DEF ServedIs
  <2>7. Phase' = "steady"
    BY <2>3, <2>5 DEF PhaseIs
  <2> QED BY <1>0, <2>4, <2>6, <2>7 DEF Promised, OwnerStep, Owner!Next, Owner!Restore
<1>10. CASE outcome \notin ServiceRestored
  <2>1. RestoredRight(k)
    BY <1>1 DEF RecordsInv
  <2>2. outcome # "None"
    BY <1>1 DEF AttemptInv
  <2>3. Unserving(k)
    <3>1. ApplicationMayBeDown(disk'[k])
      BY <1>6, <1>7, <1>10 DEF ApplicationMayBeDown
    <3>2. disk'[k].cutover \in Crossed => prev # NoPrev /\ disk'[k].replaces = prev.rel
      BY <1>3, <1>6, <1>7
    <3>3. LET c == Restored(k) IN
             /\ entry'[c] # "failed" /\ (entry'[c] = "created" => cont'[c] # "absent")
             /\ cont'[c] # "absent" => /\ disk'[k].recovery # "None"
                                       /\ port'[c] = disk[disk'[k].replaces].pinned
      BY <1>1, <1>6, <1>7, <2>1, <2>2 DEF RestoredRight, runtime
    <3> QED BY <1>1, <1>6, <1>7, <1>10, <3>1, <3>2, <3>3 DEF Unserving, runtime
  <2>4. PromiseInv' /\ Served' = Served
    BY <1>1, <1>2, <1>8, <2>3, UnservingKeepsInv
  <2>5. PhaseIs'
    BY <2>4, OwnerIs, PTL
  <2>6. Phase' = "lost"
    <3>1. Doubtful(k)' /\ disk'[k].cutover = "Failed" /\ disk'[k].recovery # "InProgress"
      BY <1>1, <1>6, <1>7, <1>10 DEF Doubtful, ApplicationMayBeDown
    <3> QED BY <2>5, <3>1 DEF PhaseIs
  <2> QED BY <1>0, <2>4, <2>6 DEF Promised, OwnerStep, Owner!Next, Owner!Restore
<1> QED BY <1>9, <1>10

-----------------------------------------------------------------------------
(* Cleanup, crashes, exits *)

\* A step at the end of a run, or outside one, that changes no record, and of the
\* rest nothing that the records may call serving.
LEMMA IdleKeepsInv ==
    ASSUME TypeOK, PromiseInv, TypeOK', UNCHANGED <<disk, port>>, pc' = "idle",
           \A d \in Dep : Succeeded(d) =>
              /\ entry'[Main(d)] = entry[Main(d)] /\ lease'[d] = lease[d]
              /\ Up(Main(d)) => Up(Main(d))',
           \A d \in Dep : LET c == Restored(d) IN
              /\ entry[c] = "created" => entry'[c] = "created"
              /\ entry'[c] # "failed"
              /\ entry'[c] = "created" => cont'[c] # "absent"
              /\ cont[c] = "absent" <=> cont'[c] = "absent"
              /\ Up(c) => Up(c)'
    PROVE  Promised
<1>1. RecordsInv /\ UpInv /\ DoubtInv /\ ServedInv
  BY DEF PromiseInv, ServingInv
<1>2. RecordsInv'
  <2>1. ASSUME NEW d \in Dep PROVE SucceededRight(d)'
    BY <1>1 DEF RecordsInv, SucceededRight, Succeeded
  <2>2. ASSUME NEW d \in Dep PROVE ReplacesRight(d)' /\ OrderRight(d)'
    BY <1>1 DEF RecordsInv, ReplacesRight, OrderRight, Succeeded, Used
  <2>3. ASSUME NEW d \in Dep PROVE RestoredRight(d)'
    BY <1>1 DEF RecordsInv, RestoredRight
  <2> QED BY <2>1, <2>2, <2>3 DEF RecordsInv
<1>3. Candidates' = Candidates
  <2>1. CandidatesAre /\ (CandidatesAre)'
    BY <1>1, <1>2, WhoServes, PTL
  <2>2. \A c : c \in Candidates' <=> c \in Candidates
    BY <2>1 DEF CandidatesAre, Succeeded
  <2> QED BY <2>2
<1>4. \A c \in Candidates : (Up(c) => Up(c)') /\ ReleaseOf(c)' = ReleaseOf(c)
  BY <1>1, WhoServes DEF CandidatesAre, ReleaseOf
<1>5. UpInv'
  BY <1>1, <1>3, <1>4 DEF UpInv, Doubtful
<1>6. DoubtInv'
  BY <1>1 DEF DoubtInv, Doubtful
<1>7. ServedInv'
  <2>1. Newest(Candidates)' = Newest(Candidates) /\ \A c \in Newest(Candidates) : c \in Candidates
    BY <1>3 DEF Newest
  <2> QED BY <1>1, <1>3, <1>4, <2>1 DEF ServedInv, Doubtful
<1>8. RunInv'
  BY DEF RunInv
<1>9. PromiseInv'
  BY <1>2, <1>5, <1>6, <1>7, <1>8 DEF PromiseInv, ServingInv
<1> QED BY <1>3, <1>9, NothingSeen DEF Promised

\* The process leaves, and touches nothing (Crash, PrecheckBlocks).
LEMMA LeaveKeepsInv ==
    ASSUME TypeOK, PromiseInv, UNCHANGED <<journal, runtime>>, pc' = "idle", TypeOK'
    PROVE  Promised
<1>1. RecordsInv
  BY DEF PromiseInv, ServingInv
<1> QED BY <1>1, IdleKeepsInv DEF journal, runtime, RecordsInv, RestoredRight, Up

\* Reconciliation of a deployment takes nothing from one that succeeded, nor a
\* restored container from any.
LEMMA CleanupKeepsInv ==
    ASSUME TypeOK, PromiseInv, NEW k \in Dep, NEW end, TypeOK',
           Succeeded(k) => end # "NotSucceeded",
           Reconciled(k, end) \/ ReconcileUnlisted(k, end),
           UNCHANGED <<disk, port>>, pc' = "idle"
    PROVE  Promised
<1>1. RecordsInv
  BY DEF PromiseInv, ServingInv
<1>2. Main(k) \in Container /\ Restored(k) \in Container /\ Main(k) # Restored(k)
  BY Distinct
<1>3. /\ \A c \in Container : c # Main(k) => cont'[c] = cont[c]
      /\ \A c \in Container : c \notin {Main(k), Restored(k)} => entry'[c] = entry[c]
      /\ \A d \in Dep : d # k => lease'[d] = lease[d]
      /\ end # "NotSucceeded" => lease' = lease
  BY <1>2 DEF Reconciled, ReconcileUnlisted, TypeOK
<1>4. Succeeded(k) => /\ entry'[Main(k)] = entry[Main(k)] /\ cont'[Main(k)] = cont[Main(k)]
                      /\ lease'[k] = lease[k]
  <2> SUFFICES ASSUME Succeeded(k)
               PROVE  entry'[Main(k)] = entry[Main(k)] /\ cont'[Main(k)] = cont[Main(k)]
    BY <1>3
  <2>1. entry[Main(k)] = "created" /\ end # "NotSucceeded"
    BY <1>1 DEF RecordsInv, SucceededRight
  <2>2. Resolved(Main(k)) = entry[Main(k)] /\ Failing(Main(k), end) = entry[Main(k)]
    BY <2>1 DEF Resolved, Failing
  <2> QED BY <1>2, <2>1, <2>2 DEF Reconciled, ReconcileUnlisted, TypeOK
<1>5. LET c == Restored(k) IN
         /\ entry[c] = "created" => entry'[c] = "created"
         /\ entry'[c] # "failed"
         /\ entry'[c] = "created" => cont[c] # "absent"
  <2> DEFINE c == Restored(k)
  <2>1. entry[c] # "failed" /\ (entry[c] = "created" => cont[c] # "absent")
    BY <1>1 DEF RecordsInv, RestoredRight
  <2>2. c[2] # "main"
    BY DEF Restored
  <2>3. entry'[c] \in {entry[c], Resolved(c), Failing(c, end)}
    BY <1>2 DEF Reconciled, ReconcileUnlisted, TypeOK
  <2>4. Resolved(c) \in {entry[c], "released", "created"} /\ Failing(c, end) \in {entry[c], "lost"}
    BY <2>2 DEF Resolved, Failing
  <2>5. /\ entry[c] = "created" => Resolved(c) = "created" /\ Failing(c, end) = "created"
        /\ Resolved(c) = "created" => entry[c] = "created" \/ cont[c] # "absent"
    BY <2>2 DEF Resolved, Failing
  <2> HIDE DEF c
  <2>6. /\ entry[c] = "created" => entry'[c] = "created"
        /\ entry'[c] # "failed"
        /\ entry'[c] = "created" => cont[c] # "absent"
    BY <2>1, <2>3, <2>4, <2>5
  <2> QED BY <2>6 DEF c
<1>6. ASSUME NEW d \in Dep, Succeeded(d)
      PROVE  /\ entry'[Main(d)] = entry[Main(d)] /\ lease'[d] = lease[d]
             /\ cont'[Main(d)] = cont[Main(d)]
  BY <1>3, <1>4, <1>6, Distinct
<1>7. ASSUME NEW d \in Dep
      PROVE  LET c == Restored(d) IN
                /\ entry[c] = "created" => entry'[c] = "created"
                /\ entry'[c] # "failed"
                /\ entry'[c] = "created" => cont'[c] # "absent"
                /\ cont'[c] = cont[c]
  <2>1. Restored(d) \in Container /\ Restored(d) # Main(k)
    BY Distinct
  <2>2. cont'[Restored(d)] = cont[Restored(d)]
    BY <1>3, <2>1
  <2>3. CASE d = k
    BY <1>5, <2>2, <2>3
  <2>4. CASE d # k
    <3>1. entry'[Restored(d)] = entry[Restored(d)]
      BY <1>3, <2>1, <2>4, Distinct
    <3> QED BY <1>1, <2>2, <3>1 DEF RecordsInv, RestoredRight
  <2> QED BY <2>3, <2>4
<1>8. \A d \in Dep : Succeeded(d) => /\ entry'[Main(d)] = entry[Main(d)]
                                    /\ lease'[d] = lease[d] /\ (Up(Main(d)) => Up(Main(d))')
  BY <1>6 DEF Up
<1>9. \A d \in Dep : LET c == Restored(d) IN
         /\ entry[c] = "created" => entry'[c] = "created"
         /\ entry'[c] # "failed"
         /\ entry'[c] = "created" => cont'[c] # "absent"
         /\ cont[c] = "absent" <=> cont'[c] = "absent"
         /\ Up(c) => Up(c)'
  BY <1>7 DEF Up
<1> QED BY <1>8, <1>9, IdleKeepsInv

\* A container that exits by itself was left up.
LEMMA ExitKeepsInv ==
    ASSUME TypeOK, PromiseInv, NEW x \in Container, Exit(x), TypeOK'
    PROVE  Promised
<1>1. /\ UNCHANGED <<disk, mem, cur, prev, pc, outcome, port, entry, lease>>
      /\ \A c \in Container : Up(c) <=> Up(c)'
      /\ \A c \in Container : cont[c] = "absent" <=> cont'[c] = "absent"
  BY DEF Exit, Up, TypeOK, journal, process
<1>2. \A d \in Dep : Main(d) \in Container /\ Restored(d) \in Container
  BY Distinct
<1>3. CASE pc = "idle"
  <2>1. RecordsInv
    BY DEF PromiseInv, ServingInv
  <2>2. \A d \in Dep : LET c == Restored(d) IN
           /\ entry'[c] = entry[c] /\ entry[c] # "failed"
           /\ entry[c] = "created" => cont'[c] # "absent"
    BY <1>1, <1>2, <2>1 DEF RecordsInv, RestoredRight
  <2> QED BY <1>1, <1>2, <1>3, <2>2, IdleKeepsInv
<1>4. CASE pc # "idle"
  <2>1. RecordsInv /\ RunInv /\ UpInv /\ DoubtInv /\ ServedInv
    BY DEF PromiseInv, ServingInv
  <2>2. RecordsInv'
    <3>1. ASSUME NEW d \in Dep PROVE RestoredRight(d)'
      BY <1>1, <1>2, <2>1 DEF RecordsInv, RestoredRight
    <3> QED BY <1>1, <2>1, <3>1
        DEF RecordsInv, SucceededRight, ReplacesRight, OrderRight, Succeeded, Used
  <2>3. RunInv'
    <3>1. cur \in Dep /\ RunAgrees /\ RunReplaces /\ RunStarts /\ RunRestores
      BY <1>4, <2>1 DEF RunInv, TypeOK
    <3>2. RunAgrees' /\ RunReplaces' /\ RunStarts'
      BY <1>1, <3>1 DEF RunAgrees, RunReplaces, RunStarts, Restoring, Succeeded, Used
    <3>3. RunRestores'
      BY <1>1, <1>2, <3>1 DEF RunRestores, Restoring
    <3> QED BY <3>2, <3>3 DEF RunInv
  <2>4. Candidates' = Candidates /\ \A c : ReleaseOf(c)' = ReleaseOf(c)
    BY <1>1 DEF Candidates, Used, Live, ReleaseOf
  <2>5. UpInv'
    BY <1>1, <2>1, <2>4, ServesWhat DEF UpInv, Doubtful
  <2>6. DoubtInv'
    BY <1>1, <2>1 DEF DoubtInv, Doubtful
  <2>7. ServedInv'
    <3>1. Newest(Candidates)' = Newest(Candidates)
      BY <2>4 DEF Newest
    <3> QED BY <1>1, <2>1, <2>4, <3>1 DEF ServedInv, Doubtful
  <2>8. PromiseInv'
    BY <2>2, <2>3, <2>5, <2>6, <2>7 DEF PromiseInv, ServingInv
  <2> QED BY <1>1, <2>4, <2>8, NothingSeen DEF Promised
<1> QED BY <1>3, <1>4

\* The cleanup at the end of a run, and `reconcile --apply`.
LEMMA FinishKeepsInv ==
    ASSUME TypeOK, PromiseInv, TypeOK', Finish \/ \E d \in Dep : Reconcile(d)
    PROVE  Promised
<1>1. CASE Finish
  <2>1. pc = "finish" /\ cur \in Dep /\ RunAgrees /\ pc' = "idle"
    BY <1>1 DEF Finish, Leave, TypeOK, PromiseInv, ServingInv, RunInv
  <2>2. PICK k \in Dep : k = cur
    BY <2>1
  <2>3. Succeeded(k) => CleanupEnd(mem) # "NotSucceeded"
    BY <2>1, <2>2 DEF RunAgrees, Succeeded, CleanupEnd, EndState
  <2>4. /\ Reconciled(k, CleanupEnd(mem)) \/ ReconcileUnlisted(k, CleanupEnd(mem))
        /\ UNCHANGED <<disk, port>>
    BY <1>1, <2>2 DEF Finish
  <2> QED BY <2>1, <2>3, <2>4, CleanupKeepsInv
<1>2. ASSUME NEW d \in Dep, Reconcile(d) PROVE Promised
  <2>1. Succeeded(d) => EndState(disk[d]) # "NotSucceeded"
    BY DEF Succeeded, EndState
  <2>2. /\ Reconciled(d, EndState(disk[d])) \/ ReconcileUnlisted(d, EndState(disk[d]))
        /\ UNCHANGED <<disk, port>> /\ pc' = "idle"
    BY <1>2 DEF Reconcile, process
  <2> QED BY <2>1, <2>2, CleanupKeepsInv
<1> QED BY <1>1, <1>2

-----------------------------------------------------------------------------
(* Starting a run *)

\* The next deployment comes after every one on record.
LEMMA NextIsLast ==
    ASSUME TypeOK, RecordsInv, NEW d \in Dep, IsNext(d)
    PROVE  /\ disk[d] = NoRecord
           /\ \A e \in Dep : e > d => disk[e] = NoRecord
           /\ \A e \in Used : e < d
<1>1. disk[d] = NoRecord
  BY DEF IsNext, Used
<1>2. ASSUME NEW e \in Dep, e > d PROVE disk[e] = NoRecord
  <2>1. d < e
    BY <1>2, DepAssumption
  <2>2. e \in Used => d \in Used
    BY <2>1 DEF RecordsInv, OrderRight
  <2> QED BY <2>2 DEF IsNext, Used
<1>3. ASSUME NEW e \in Used PROVE e < d
  <2>1. e \in Dep /\ disk[e] # NoRecord
    BY DEF Used
  <2>2. e \in Nat /\ d \in Nat
    BY <2>1, DepAssumption
  <2> QED BY <1>1, <1>2, <2>1, <2>2
<1> QED BY <1>1, <1>2, <1>3

\* Nothing changes but the process: what serves is as before.
LEMMA BeginKeepsInv ==
    ASSUME TypeOK, PromiseInv, UNCHANGED <<journal, runtime>>, TypeOK',
           pc' \notin {"idle", "finish"}, RunInv',
           \A d \in Dep : Doubtful(d) => cur' = d,
           IF prev' = NoPrev THEN Candidates = {}
           ELSE Candidates # {} /\ \A c \in Newest(Candidates) : ReleaseOf(c) = prev'.rel
    PROVE  Promised
<1>1. RecordsInv /\ UpInv /\ DoubtInv /\ ServedInv
  BY DEF PromiseInv, ServingInv
<1>2. UNCHANGED <<disk, entry, lease, cont, port>>
  BY DEF journal, runtime
<1>3. /\ Candidates' = Candidates /\ Newest(Candidates)' = Newest(Candidates)
      /\ \A c : ReleaseOf(c)' = ReleaseOf(c)
  BY <1>2 DEF Candidates, Newest, Used, Live, ReleaseOf
<1>4. RecordsInv'
  BY <1>1, <1>2 DEF RecordsInv, SucceededRight, ReplacesRight, RestoredRight, OrderRight,
                    Succeeded, Used
<1>5. UpInv'
  BY <1>1, <1>2, <1>3 DEF UpInv, Up, Doubtful
<1>6. DoubtInv'
  BY <1>1, <1>2 DEF DoubtInv, Doubtful
<1>7. ServedInv'
  BY <1>1, <1>2, <1>3 DEF ServedInv, Doubtful
<1>8. PromiseInv'
  BY <1>4, <1>5, <1>6, <1>7 DEF PromiseInv, ServingInv
<1> QED BY <1>2, <1>3, <1>8, NothingSeen DEF Promised

\* A new deployment comes last, and nothing is in doubt when it starts.
LEMMA NewRunKeepsInv ==
    ASSUME TypeOK, PromiseInv, TypeOK', NEW d \in Dep, Deploy(d) \/ Replace(d)
    PROVE  Promised
<1>1. /\ RecordsInv /\ ServedInv
      /\ IsNext(d) /\ cur' = d /\ mem' = Transition(NewRecord, "Queued") /\ pc' = "begin"
      /\ UNCHANGED <<journal, runtime>>
  BY DEF Deploy, Replace, Goto, PromiseInv, ServingInv
<1>2. /\ mem'.status = "Queued" /\ mem'.cutover = "NotStarted" /\ mem'.recovery = "None"
      /\ mem'.replaces = NoDep
  BY <1>1, NewRecordType, TransitionFields DEF NewRecord
<1>3. /\ disk[d] = NoRecord
      /\ \A e \in Dep : e > d => disk[e] = NoRecord
      /\ \A e \in Used : e < d
  BY <1>1, NextIsLast
<1>4. RunAgrees'
  BY <1>1, <1>2, <1>3, NoRecordFields
     DEF RunAgrees, IsNext, Used, journal, ServiceRestored
<1>5. RunStarts' /\ RunRestores'
  BY <1>1 DEF RunStarts, RunRestores, BuiltPc, StartedPc, Creation, RestorePc
<1>6. ASSUME NEW x \in Dep, Doubtful(x) PROVE x \in MayBeDown /\ Candidates # {}
  <2>1. x \in Used
    BY <1>6, NoRecordFields DEF Used, Doubtful, ApplicationMayBeDown
  <2> QED BY <1>1, <1>6, <2>1 DEF MayBeDown, Doubtful, ServedInv
<1>7. CASE Deploy(d)
  <2>1. Candidates = {}
    <3>1. \A c : c \in Candidates => c \in Container /\ entry[c] \in {"created", "failed"}
      BY Distinct DEF Candidates, Live, Used
    <3>2. \A c \in Container : entry[c] \in {"none", "released"}
      BY <1>7 DEF Deploy, Settled
    <3> QED BY <3>1, <3>2
  <2>2. prev' = NoPrev
    BY <1>7 DEF Deploy
  <2>3. RunReplaces'
    BY <1>1, <1>2, <2>2 DEF RunReplaces, Crossed
  <2> QED BY <1>1, <1>4, <1>5, <1>6, <2>1, <2>2, <2>3, BeginKeepsInv DEF RunInv
<1>8. CASE Replace(d)
  <2>1. PICK c \in Newest(Candidates) : prev' = [rel |-> ReleaseOf(c), owner |-> c]
    BY <1>8 DEF Replace, IsServing
  <2>2. \A x \in Dep : ~Doubtful(x)
    BY <1>6, <1>8 DEF Replace
  <2>3. /\ c \in Candidates /\ c[1] \in Dep /\ c[1] < d
        /\ ReleaseOf(c) \in Dep /\ Succeeded(ReleaseOf(c)) /\ ReleaseOf(c) <= c[1]
    <3>1. c \in Candidates /\ c[1] \in Used
      BY <1>1, OneNewest DEF Newest
    <3> QED BY <1>1, <1>3, <3>1, ServesWhat
  <2>4. ReleaseOf(c) < d
    <3>1. ReleaseOf(c) \in Nat /\ c[1] \in Nat /\ d \in Nat
      BY <2>3, DepAssumption
    <3> QED BY <2>3, <3>1
  <2>5. prev'.rel = ReleaseOf(c) /\ prev'.owner = c
    BY <2>1
  <2>6. RunReplaces'
    <3>1. prev'.rel < d /\ prev'.owner[1] < d /\ disk'[prev'.rel].status = "Succeeded"
      BY <1>1, <2>3, <2>4, <2>5 DEF Succeeded, journal
    <3> QED BY <1>1, <1>2, <3>1 DEF RunReplaces, Crossed, Succeeded
  <2>7. prev' # NoPrev
    BY <2>3, <2>5, NoPrevFacts
  <2>8. Candidates # {} /\ \A o \in Newest(Candidates) : ReleaseOf(o) = prev'.rel
    BY <1>1, <2>3, <2>5, OneNewest
  <2> QED BY <1>1, <1>4, <1>5, <2>2, <2>6, <2>7, <2>8, BeginKeepsInv DEF RunInv
<1> QED BY <1>7, <1>8

\* An explicit restoration works on the deployment that is in doubt, the last one.
LEMMA ExplicitKeepsInv ==
    ASSUME TypeOK, PromiseInv, TypeOK', NEW d \in Dep, ExplicitRestore(d)
    PROVE  Promised
<1>1. /\ RecordsInv /\ ServedInv /\ DoubtInv
      /\ d \in Used /\ disk[d].status = "Interrupted" /\ disk[d].cutover = "Begun"
      /\ disk[d].recovery = "None" /\ cur' = d /\ mem' = disk[d] /\ pc' = "precheck"
      /\ prev' = [rel |-> disk[d].replaces, owner |-> Main(disk[d].replaces)]
      /\ UNCHANGED <<journal, runtime>>
  BY DEF ExplicitRestore, CanRecoverExplicitly, Goto, PromiseInv, ServingInv
<1>2. Doubtful(d)
  BY <1>1 DEF Doubtful, ApplicationMayBeDown
<1>3. \A e \in Dep : e > d => disk[e] = NoRecord
  BY <1>1, <1>2 DEF DoubtInv
<1>4. ASSUME NEW x \in Dep, Doubtful(x) PROVE x = d
  <2>1. disk[x] # NoRecord /\ disk[d] # NoRecord
    BY <1>2, <1>4, NoRecordFields DEF Doubtful, ApplicationMayBeDown
  <2>2. ~(x > d) /\ ~(d > x)
    BY <1>1, <1>3, <1>4, <2>1 DEF DoubtInv
  <2> QED BY <2>2, DepAssumption
<1>5. /\ disk[d].replaces \in Dep /\ disk[d].replaces < d /\ Succeeded(disk[d].replaces)
      /\ prev'.rel = disk[d].replaces /\ prev'.owner[1] = disk[d].replaces
  <2>1. disk[d].replaces \in Dep \union {NoDep}
    BY DEF TypeOK, Record
  <2> QED BY <1>1, <2>1, Distinct DEF RecordsInv, ReplacesRight, Crossed
<1>6. prev' # NoPrev
  BY <1>5, NoPrevFacts
<1>7. RunAgrees'
  BY <1>1, <1>3 DEF RunAgrees, journal, ServiceRestored
<1>8. RunReplaces'
  BY <1>1, <1>5, <1>6 DEF RunReplaces, Succeeded, journal
<1>9. RunStarts' /\ RunRestores'
  BY <1>1 DEF RunStarts, RunRestores, BuiltPc, StartedPc, Creation, RestorePc
<1>10. Candidates # {} /\ \A c \in Newest(Candidates) : ReleaseOf(c) = prev'.rel
  BY <1>1, <1>2, <1>5 DEF ServedInv
<1> QED BY <1>1, <1>4, <1>6, <1>7, <1>8, <1>9, <1>10, BeginKeepsInv DEF RunInv

-----------------------------------------------------------------------------
(* Startup recovery *)

\* Startup recovery closes a record and leaves what others read of it alone, but
\* for a restoration in progress, which failed.
LEMMA RecoverFields ==
    ASSUME NEW r \in Record
    PROVE  LET x == RecoverOnStart(r) IN
              /\ x.status = "Succeeded" <=> r.status = "Succeeded"
              /\ r.status # "Superseded" => x.status # "Superseded"
              /\ x.cutover = r.cutover /\ x.replaces = r.replaces
              /\ x.release = r.release /\ x.pinned = r.pinned
              /\ \/ x.recovery = r.recovery
                 \/ r.recovery = "InProgress" /\ x.recovery = "RestoreFailed"
<1> DEFINE i == InterruptSteps(r)
           a == CloseUnfinishedRecovery(r)
           b == CloseUnfinishedRecovery(i)
           Kept(x) == /\ x.cutover = r.cutover /\ x.replaces = r.replaces
                      /\ x.release = r.release /\ x.pinned = r.pinned
                      /\ \/ x.recovery = r.recovery
                         \/ r.recovery = "InProgress" /\ x.recovery = "RestoreFailed"
<1>1. i \in Record /\ Kept(i) /\ i.status = r.status /\ i.recovery = r.recovery
  BY DEF InterruptSteps, Record, StepStatus
<1>2. a \in Record /\ Kept(a) /\ a.status = r.status
  <2>1. a \in Record
    BY CloseType
  <2> QED BY <2>1 DEF CloseUnfinishedRecovery, Record
<1>3. b \in Record /\ Kept(b) /\ b.status = r.status
  <2> HIDE DEF i
  <2>1. b \in Record
    BY <1>1, CloseType
  <2> QED BY <1>1, <2>1 DEF CloseUnfinishedRecovery, Record
<1>4. \A x \in {Transition(b, "Interrupted")} : Kept(x) /\ x.status = "Interrupted"
  <2> HIDE DEF b
  <2> QED BY <1>3, TransitionFields
<1>5. RecoverOnStart(r) = IF r.status = "Interrupted" THEN a
                          ELSE IF r.status \in Terminal THEN r ELSE Transition(b, "Interrupted")
  BY DEF RecoverOnStart
<1>6. r.status \notin Terminal => r.status \notin {"Succeeded", "Superseded"}
  BY DEF Terminal, Status
<1> HIDE DEF a, b
<1> QED BY <1>2, <1>4, <1>5, <1>6

LEMMA RecoverKeepsInv ==
    ASSUME TypeOK, PromiseInv, Recover, TypeOK'
    PROVE  Promised
<1>1. /\ RecordsInv /\ UpInv /\ DoubtInv /\ ServedInv
      /\ pc' = "idle" /\ UNCHANGED <<entry, lease, cont, port>>
  BY DEF PromiseInv, ServingInv, Recover, process, runtime
<1>2. ASSUME NEW d \in Dep
      PROVE  /\ Succeeded(d)' <=> Succeeded(d)
             /\ disk[d] = NoRecord => disk'[d] = NoRecord
             /\ disk[d] = NoRecord \/ disk[d].status # "Superseded" =>
                   disk'[d] = NoRecord \/ disk'[d].status # "Superseded"
             /\ disk[d].status # "Superseded" => disk'[d].status # "Superseded"
             /\ disk'[d].cutover = disk[d].cutover /\ disk'[d].replaces = disk[d].replaces
             /\ disk'[d].release = disk[d].release /\ disk'[d].pinned = disk[d].pinned
             /\ \/ disk'[d].recovery = disk[d].recovery
                \/ disk[d].recovery = "InProgress" /\ disk'[d].recovery = "RestoreFailed"
  <2>1. disk'[d] = IF d \in Used THEN RecoverOnStart(disk[d]) ELSE disk[d]
    BY DEF Recover
  <2>2. disk[d] \in Record
    BY DEF TypeOK
  <2> QED BY <2>1, <2>2, RecoverFields DEF Used, Succeeded
<1>3. \A d \in Dep : /\ disk'[d].recovery = "None" <=> disk[d].recovery = "None"
                     /\ disk'[d].recovery \in ServiceRestored <=> disk[d].recovery \in ServiceRestored
  BY <1>2 DEF ServiceRestored
<1>4. \A d \in Dep : d \in Used <=> d \in Used'
  <2> SUFFICES ASSUME NEW d \in Dep, d \in Used PROVE d \in Used'
    BY <1>2 DEF Used
  <2>1. disk'[d].status # "Superseded"
    BY <1>1, <1>2 DEF RecordsInv, OrderRight, Used
  <2> QED BY <2>1, NoRecordFields DEF Used
<1>5. RecordsInv'
  <2>1. ASSUME NEW d \in Dep PROVE SucceededRight(d)' /\ OrderRight(d)'
    BY <1>1, <1>2, <1>4 DEF RecordsInv, SucceededRight, OrderRight, Succeeded
  <2>2. ASSUME NEW d \in Dep, disk[d].replaces # NoDep PROVE disk[d].replaces \in Dep
    BY <2>2 DEF TypeOK, Record
  <2>3. ASSUME NEW d \in Dep PROVE ReplacesRight(d)'
    BY <1>1, <1>2, <2>2 DEF RecordsInv, ReplacesRight, Succeeded
  <2>4. ASSUME NEW d \in Dep PROVE RestoredRight(d)'
    <3>1. disk[d].recovery # "None" => disk[d].replaces # NoDep
      BY <1>1 DEF RecordsInv, RestoredRight, ReplacesRight, Crossed
    <3>2. RestoredRight(d)
      BY <1>1 DEF RecordsInv
    <3>3. disk[d].recovery # "None" => disk'[disk'[d].replaces].pinned = disk[disk[d].replaces].pinned
      BY <1>2, <2>2, <3>1
    <3> QED BY <1>1, <1>2, <1>3, <3>2, <3>3 DEF RestoredRight
  <2> QED BY <2>1, <2>3, <2>4 DEF RecordsInv
<1>6. Candidates' = Candidates
  <2>1. CandidatesAre /\ (CandidatesAre)'
    BY <1>1, <1>5, WhoServes, PTL
  <2>2. \A c : c \in Candidates' <=> c \in Candidates
    BY <1>2, <1>3, <2>1 DEF CandidatesAre, Succeeded
  <2> QED BY <2>2
<1>7. \A d \in Dep : Doubtful(d)' <=> Doubtful(d)
  BY <1>2, <1>3 DEF Doubtful, ApplicationMayBeDown
<1>8. \A c \in Candidates : ReleaseOf(c)' = ReleaseOf(c) /\ (Up(c)' <=> Up(c)) /\ c[1] \in Dep
  BY <1>1, <1>2, ServesWhat DEF ReleaseOf, Up
<1>9. UpInv'
  <2>1. ASSUME NEW c \in Candidates
        PROVE  Up(c)' \/ \E d \in Dep : d > c[1] /\ (Doubtful(d)' \/ \E o \in Candidates : o[1] = d)
    BY <1>1, <1>7, <1>8 DEF UpInv
  <2> QED BY <1>6, <2>1 DEF UpInv
<1>10. DoubtInv'
  BY <1>1, <1>2, <1>7 DEF DoubtInv
<1>11. ServedInv'
  <2>1. Newest(Candidates)' = Newest(Candidates) /\ \A c \in Newest(Candidates) : c \in Candidates
    BY <1>6 DEF Newest
  <2>2. \A d \in Dep : Doubtful(d)' =>
          Candidates # {} /\ \A c \in Newest(Candidates) : ReleaseOf(c)' = disk'[d].replaces
    BY <1>1, <1>2, <1>7, <1>8, <2>1 DEF ServedInv
  <2> QED BY <1>1, <1>6, <2>1, <2>2 DEF ServedInv
<1>12. RunInv'
  BY <1>1 DEF RunInv
<1>13. PromiseInv'
  BY <1>5, <1>9, <1>10, <1>11, <1>12 DEF PromiseInv, ServingInv
<1>14. Served' = Served
  BY <1>6, <1>8, <1>13, ServedKept
<1>15. Phase' = Phase \/ (Phase = "restoring" /\ Phase' = "lost")
  <2>1. PhaseIs /\ PhaseIs'
    BY <1>13, OwnerIs, PTL
  <2>2. CASE \A d \in Dep : ~Doubtful(d)
    BY <1>7, <2>1, <2>2 DEF PhaseIs
  <2>3. ASSUME NEW d \in Dep, Doubtful(d)
        PROVE  Phase' = Phase \/ (Phase = "restoring" /\ Phase' = "lost")
    <3>1. Doubtful(d)' /\ disk'[d].cutover = disk[d].cutover
      BY <1>2, <1>7, <2>3
    <3>2. disk[d].recovery # "None" => disk[d].cutover = "Failed"
      BY <1>1 DEF RecordsInv, RestoredRight
    <3> QED BY <1>2, <2>1, <2>3, <3>1, <3>2 DEF PhaseIs
  <2> QED BY <2>2, <2>3
<1> QED BY <1>13, <1>14, <1>15 DEF Promised, OwnerStep, Owner!Next, Owner!Restore

-----------------------------------------------------------------------------
(* The theorems *)

\* The invariant holds at first, and every step keeps it and the promise.
LEMMA PromiseInit == Init => PromiseInv /\ Owner!Init
<1> SUFFICES ASSUME Init PROVE PromiseInv /\ Owner!Init
  OBVIOUS
<1>1. \A d \in Dep : disk[d] = NoRecord /\ entry[Restored(d)] = "none" /\ cont[Restored(d)] = "absent"
  BY Distinct DEF Init
<1>2. Used = {} /\ Candidates = {}
  BY <1>1 DEF Used, Candidates
<1>3. RecordsInv
  BY <1>1, <1>2, NoRecordFields
     DEF RecordsInv, SucceededRight, ReplacesRight, RestoredRight, OrderRight, Succeeded,
         Crossed, ServiceRestored
<1>4. \A d \in Dep : ~Doubtful(d)
  BY <1>1, NoRecordFields DEF Doubtful, ApplicationMayBeDown
<1>5. PromiseInv
  BY <1>2, <1>3, <1>4
     DEF PromiseInv, ServingInv, RunInv, UpInv, DoubtInv, ServedInv, Init
<1>6. Served = NoDep /\ Phase = "steady"
  BY <1>2 DEF Served, Phase, MayBeDown
<1> QED BY <1>5, <1>6 DEF Owner!Init

\* (Each step is one of the cases above.)
LEMMA PromiseStep ==
    TypeOK /\ AttemptInv /\ PromiseInv /\ TypeOK' /\ [Next]_vars => Promised
<1> SUFFICES ASSUME TypeOK, AttemptInv, PromiseInv, TypeOK', [Next]_vars PROVE Promised
  OBVIOUS
<1>1. CASE EngineStep
  <2>1. CASE \/ Begin \/ Cancel \/ Confirm \/ NotConfirmed
             \/ \E s \in PreSteps : PreStart(s) \/ PrePass(s) \/ PreFail(s)
    BY <2>1, PreparationKeepsInv
  <2>2. CASE PlanLease \/ PlanFail \/ Pin \/ BeginReplace \/ BeginFirst \/ StopCurrent \/ StopFail
    BY <2>2, CutoverKeepsInv
  <2>3. CASE CreateRefused \/ Intend \/ Make \/ MakeFail \/ Receipt
    BY <2>3, CreationKeepsInv
  <2>4. CASE \/ Start \/ StartFail \/ Collide \/ DiscardFail
             \/ GiveBack \/ Reallocate \/ ReallocateFail
    BY <2>4, StartKeepsInv
  <2>5. CASE Repin \/ FinalCheckStart \/ FinalCheckFail \/ StopFailedFirst \/ StopFailedNew
    BY <2>5, CheckKeepsInv
  <2>6. CASE \/ RestoreNotAttempted \/ RestoreGoesOn \/ RestoreRefused \/ RestoreLease
             \/ RestoreStart \/ RestoreStartFail \/ PrecheckPasses
    BY <2>6, RestorationKeepsInv
  <2>7. CASE FinalCheckPass
    BY <2>7, SuccessKeepsInv
  <2>8. CASE RecordRecovery
    BY <2>8, OutcomeKeepsInv
  <2>9. CASE PrecheckBlocks
    BY <2>9, LeaveKeepsInv DEF PrecheckBlocks, Leave
  <2>10. CASE Finish
    BY <2>10, FinishKeepsInv
  <2> QED BY <1>1, <2>1, <2>2, <2>3, <2>4, <2>5, <2>6, <2>7, <2>8, <2>9, <2>10
          DEF EngineStep
<1>2. CASE Command
  BY <1>2, NewRunKeepsInv, ExplicitKeepsInv, FinishKeepsInv, RecoverKeepsInv DEF Command
<1>3. CASE Crash
  BY <1>3, LeaveKeepsInv DEF Crash, Leave
<1>4. CASE \E c \in Container : Exit(c)
  BY <1>4, ExitKeepsInv
<1>5. CASE UNCHANGED vars
  <2>1. PromiseInv'
    <3>1. UNCHANGED <<disk, mem, cur, prev, pc, outcome, cont, port, entry, lease>>
      BY <1>5 DEF vars
    <3>2. RecordsInv'
      BY <3>1 DEF PromiseInv, ServingInv, RecordsInv, SucceededRight, ReplacesRight,
                  RestoredRight, OrderRight, Succeeded, Used
    <3>3. RunInv'
      BY <3>1 DEF PromiseInv, ServingInv, RunInv, RunAgrees, RunReplaces, RunStarts,
                  RunRestores, Restoring, Succeeded, Used, Up
    <3>4. Candidates' = Candidates /\ \A c : ReleaseOf(c)' = ReleaseOf(c)
      BY <3>1 DEF Candidates, Used, Live, ReleaseOf
    <3>5. Newest(Candidates)' = Newest(Candidates)
      BY <3>4 DEF Newest
    <3>6. UpInv'
      BY <3>1, <3>4 DEF PromiseInv, ServingInv, UpInv, Doubtful, Up
    <3>7. DoubtInv'
      BY <3>1 DEF PromiseInv, DoubtInv, Doubtful
    <3>8. ServedInv'
      BY <3>1, <3>4, <3>5 DEF PromiseInv, ServedInv, Doubtful
    <3> QED BY <3>2, <3>3, <3>6, <3>7, <3>8 DEF PromiseInv, ServingInv
  <2>2. Candidates' = Candidates /\ UNCHANGED disk
    BY <1>5 DEF vars, Candidates, Used, Live
  <2> QED BY <2>1, <2>2, NothingSeen DEF Promised
<1> QED BY <1>1, <1>2, <1>3, <1>4, <1>5 DEF Next

\* So the invariant holds throughout.
LEMMA PromiseInvariant == Spec => []PromiseInv
<1>1. TypeOK /\ AttemptInv /\ PromiseInv /\ TypeOK' /\ [Next]_vars => PromiseInv'
  BY PromiseStep DEF Promised
<1> QED BY <1>1, PromiseInit, TypeCorrect, AttemptsRight, PTL DEF Spec

\* Whatever failed, was retried, restored or cleaned up before, once nothing is
\* unfinished and no cutover is unconfirmed, the release the records call serving
\* was left running.
THEOREM ServingReleaseIsUp == Spec => []ServingIsUp
<1>1. TypeOK /\ PromiseInv => ServingIsUp
  <2> SUFFICES ASSUME TypeOK, PromiseInv, MayBeDown = {}, NEW c \in Newest(Candidates)
               PROVE  Up(c)
    BY DEF ServingIsUp, IsServing, Up
  <2>1. c \in Candidates /\ \A o \in Candidates : o[1] <= c[1]
    BY DEF Newest
  <2>2. c[1] \in Dep /\ \A o \in Candidates : o[1] \in Dep
    BY <2>1, ServesWhat DEF PromiseInv, ServingInv
  <2>3. \A d \in Dep : ~Doubtful(d)
    BY NoRecordFields DEF MayBeDown, Used, Doubtful, ApplicationMayBeDown
  <2>4. \A o \in Candidates : ~(o[1] > c[1])
    <3> SUFFICES ASSUME NEW o \in Candidates PROVE ~(o[1] > c[1])
      OBVIOUS
    <3>1. o[1] <= c[1] /\ o[1] \in Nat /\ c[1] \in Nat
      BY <2>1, <2>2, DepAssumption
    <3> QED BY <3>1
  <2> QED BY <2>1, <2>3, <2>4 DEF PromiseInv, ServingInv, UpInv
<1> QED BY <1>1, TypeCorrect, PromiseInvariant, PTL

\* The pin that a later restoration would use is the port of the container that
\* serves, and whoever may hold the lease on it does.
THEOREM PinIsServed == Spec => []PinServes
<1>1. TypeOK /\ PromiseInv => PinServes
  <2> SUFFICES ASSUME TypeOK, RecordsInv, NEW c \in Candidates
               PROVE  LET r == ReleaseOf(c) IN
                         /\ disk[r].pinned = port[c]
                         /\ port[c] \in lease[r] \union lease[c[1]]
    BY DEF PinServes, IsServing, Newest, PromiseInv, ServingInv
  <2>1. c[1] \in Dep /\ ReleaseOf(c) \in Dep /\ Succeeded(ReleaseOf(c))
    BY ServesWhat
  <2>2. CASE c = Main(c[1]) /\ ReleaseOf(c) = c[1]
    BY <2>1, <2>2 DEF RecordsInv, SucceededRight
  <2>3. CASE c = Restored(c[1]) /\ disk[c[1]].recovery \in ServiceRestored
             /\ ReleaseOf(c) = disk[c[1]].replaces
    <3>1. disk[ReleaseOf(c)].pinned = port[c]
      BY <2>1, <2>3 DEF RecordsInv, RestoredRight
    <3> QED BY <2>1, <2>3, <3>1 DEF RecordsInv, SucceededRight
  <2> QED BY <2>2, <2>3, ServesWhat
<1> QED BY <1>1, TypeCorrect, PromiseInvariant, PTL

\* The engine implements the promise to the owner, step by step: the served release
\* changes only by a first deployment or a confirmed cutover, and one that is not
\* confirmed is restored at most once, to what served before.
THEOREM PromiseKept == Spec => Promise
<1>1. TypeOK /\ AttemptInv /\ PromiseInv /\ TypeOK' /\ [Next]_vars
         => [Owner!Next]_<<Served, Phase>>
  BY PromiseStep DEF Promised, OwnerStep
<1> QED BY <1>1, PromiseInit, TypeCorrect, AttemptsRight, PromiseInvariant, PTL
        DEF Spec, Promise, Owner!Spec
=============================================================================
