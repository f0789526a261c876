-------------------------- MODULE DeploymentRecord --------------------------
(***************************************************************************)
(* The durable record of one deployment and its transition rules           *)
(* (deploy/src/state.rs).  Everything here is plain data: an operator      *)
(* named like a method of `Deployment` gives the record the method leaves  *)
(* behind, and the operator with the suffix OK is the condition under      *)
(* which the method returns Ok.  Times, notes and messages are left out.   *)
(*                                                                         *)
(* A release is named by the deployment that built it, and a pinned        *)
(* configuration is abstracted to the host port it pins: that is the part  *)
(* of it the restoration compares with the runtime.                        *)
(***************************************************************************)
EXTENDS Naturals

CONSTANTS
    Dep,       \* deployment ids, in the order they are created
    Port,      \* host ports the application may be published on
    NoDep,     \* `None` where a release or a deployment is optional
    NoPort     \* `None` where a pinned configuration is optional

ASSUME DepAssumption  == Dep \subseteq Nat /\ NoDep \notin Dep
ASSUME PortAssumption == NoPort \notin Port

Status == {"Requested", "Queued", "Running", "Succeeded", "Failed",
           "Cancelled", "Interrupted", "Superseded"}

Terminal == Status \ {"Requested", "Queued", "Running"}

Step == {"Source", "Build", "PreliminaryCheck", "Cutover", "FinalCheck",
         "Recovery"}

StepStatus == {"Pending", "Running", "Succeeded", "Failed", "Skipped",
               "Interrupted"}

CutoverState == {"NotStarted", "NotRequired", "Begun", "Confirmed", "Failed"}

\* `Option<Recovery>`: the outcome of the one restoration attempt.
RecoveryState == {"None", "InProgress", "Restored", "RestoredUnverified",
                  "RestoreFailed", "NotAttempted"}

\* The outcomes after which a release is running again.
ServiceRestored == {"Restored", "RestoredUnverified"}

Interruption == {"None", "Open", "Ended"}

Record == [status       : Status,
           steps        : [Step -> StepStatus],
           cutover      : CutoverState,
           failure      : Step \union {"None"},
           recovery     : RecoveryState,
           interruption : Interruption,
           release      : BOOLEAN,
           pinned       : Port \union {NoPort},
           replaces     : Dep \union {NoDep}]

\* Deployment::new
NewRecord == [status       |-> "Requested",
              steps        |-> [s \in Step |-> "Pending"],
              cutover      |-> "NotStarted",
              failure      |-> "None",
              recovery     |-> "None",
              interruption |-> "None",
              release      |-> FALSE,
              pinned       |-> NoPort,
              replaces     |-> NoDep]

-----------------------------------------------------------------------------
(* Statuses *)

\* The complete transition relation; every pair not listed is rejected.
CanTransitionTo(from, to) ==
    \/ from = "Requested" /\ to \in {"Queued", "Cancelled", "Interrupted"}
    \/ from = "Queued" /\ to \in {"Running", "Superseded", "Cancelled", "Interrupted"}
    \/ from = "Running" /\ to \in {"Succeeded", "Failed", "Cancelled", "Interrupted"}

TransitionOK(r, to) == CanTransitionTo(r.status, to)

\* Entering a terminal status skips the steps that are still pending.
Transition(r, to) ==
    [r EXCEPT !.status = to,
              !.steps = IF to \in Terminal
                        THEN [s \in Step |-> IF r.steps[s] = "Pending"
                                             THEN "Skipped" ELSE r.steps[s]]
                        ELSE r.steps]

-----------------------------------------------------------------------------
(* Steps *)

StartStepOK(r, s) == r.steps[s] = "Pending"
StartStep(r, s) == [r EXCEPT !.steps = [r.steps EXCEPT ![s] = "Running"]]

FinishStepOK(r, s) == r.steps[s] = "Running"
FinishStep(r, s, ok) ==
    [r EXCEPT !.steps = [r.steps EXCEPT ![s] = IF ok THEN "Succeeded" ELSE "Failed"]]

-----------------------------------------------------------------------------
(* Cutover and recovery *)

BeginCutoverOK(r) == r.cutover = "NotStarted"
BeginCutover(r) == [r EXCEPT !.cutover = "Begun", !.interruption = "Open"]

CutoverNotRequiredOK(r) == r.cutover = "NotStarted"
CutoverNotRequired(r) == [r EXCEPT !.cutover = "NotRequired"]

EndInterruption(r) == IF r.interruption = "None" THEN "None" ELSE "Ended"

ConfirmCutoverOK(r) == r.cutover = "Begun"
ConfirmCutover(r) ==
    [r EXCEPT !.cutover = "Confirmed", !.interruption = EndInterruption(r)]

FailCutoverOK(r) == r.cutover = "Begun"
FailCutover(r) == [r EXCEPT !.cutover = "Failed"]

\* (on a record whose cutover has just been failed)
StartRecoveryOK(r) == r.cutover = "Failed" /\ r.recovery = "None"
StartRecovery(r) == [r EXCEPT !.recovery = "InProgress"]

FinishRecoveryOK(r, outcome) == r.recovery = "InProgress" /\ outcome # "InProgress"
FinishRecovery(r, outcome) ==
    [r EXCEPT !.recovery = outcome,
              !.interruption = IF outcome \in ServiceRestored
                               THEN EndInterruption(r) ELSE @]

\* (mutant) a recorded attempt does not forbid another
CanRecoverAgain(r) ==
    r.status = "Interrupted" /\ r.cutover \in {"Begun", "Failed"}

\* The explicit restoration may still be made: an interrupted deployment
\* whose cutover began and which has no recorded attempt.
CanRecoverExplicitly(r) ==
    /\ r.status = "Interrupted"
    /\ r.cutover = "Begun"
    /\ r.recovery = "None"
    /\ r.steps["Recovery"] = "Skipped"

BeginExplicitRecovery(r) ==
    StartRecovery([FailCutover(r) EXCEPT
                     !.steps = [r.steps EXCEPT !["Recovery"] = "Running"]])

\* (mutant) a failed restoration is forgotten
MayBeDownOnlyBegun(r) == r.cutover = "Begun"

\* Could the application be down because of this deployment?
ApplicationMayBeDown(r) ==
    \/ r.cutover = "Begun"
    \/ r.cutover = "Failed" /\ r.recovery \notin ServiceRestored

-----------------------------------------------------------------------------
(* Startup recovery of one record: recover_on_start's loop body. *)

CloseUnfinishedRecovery(r) ==
    [r EXCEPT !.recovery = IF @ = "InProgress" THEN "RestoreFailed" ELSE @,
              !.steps = [r.steps EXCEPT
                           !["Recovery"] = IF @ = "Running" THEN "Interrupted" ELSE @]]

InterruptSteps(r) ==
    [r EXCEPT !.steps = [s \in Step |-> IF r.steps[s] = "Running"
                                        THEN "Interrupted" ELSE r.steps[s]]]

\* (mutant) a restoration that died part-way is not closed
RecoverOnlyUnfinished(r) ==
    IF r.status \in Terminal THEN r
    ELSE Transition(CloseUnfinishedRecovery(InterruptSteps(r)), "Interrupted")

RecoverOnStart(r) ==
    IF r.status = "Interrupted" THEN CloseUnfinishedRecovery(r)
    ELSE IF r.status \in Terminal THEN r
    ELSE Transition(CloseUnfinishedRecovery(InterruptSteps(r)), "Interrupted")

\* EndState of a deployment (engine.rs end_state): `None` while it may run.
EndState(r) ==
    IF r.status = "Succeeded" THEN "Succeeded"
    ELSE IF r.status \in Terminal THEN "NotSucceeded" ELSE "None"
=============================================================================
