------------------------------- MODULE Engine -------------------------------
(***************************************************************************)
(* The deployment engine (deploy/src/engine.rs) driving one application:   *)
(* first deployments, replacements, the bounded restoration after a failed *)
(* cutover, the explicit restoration of an interrupted one, startup        *)
(* recovery and reconciliation, over the Docker backend                    *)
(* (deploy-docker/src/backend.rs).                                         *)
(*                                                                         *)
(* `disk` is what the journal holds, `mem` the record the running process  *)
(* works on.  A step of the engine ends where it saves or where it touches *)
(* the runtime, so a crash (or a journal write that fails, which aborts    *)
(* the run) can fall between any two effects.  At most one process runs:   *)
(* every writer holds the journal's exclusive lock.                        *)
(*                                                                         *)
(* What the ledger says about serving containers and application ports is  *)
(* kept as `entry` and `lease`; images, the preliminary container and its  *)
(* test port belong to the outcome of the preparation steps.               *)
(***************************************************************************)
EXTENDS DeploymentRecord, FiniteSets

VARIABLES
    disk,      \* the journal: the last snapshot of each deployment
    mem,       \* the record held by the running process
    cur,       \* the deployment being run
    prev,      \* the release being replaced and the container that serves it
    pc,        \* where the run is
    outcome,   \* the restoration outcome about to be recorded
    cont,      \* the runtime: state of each container
    port,      \* the runtime: host port each container was created with
    entry,     \* the ledger: state of each container's entry
    lease,     \* the ledger: application ports each deployment holds
    attempts   \* history: restorations begun on behalf of each deployment

journal == <<disk, entry, lease>>
runtime == <<cont, port>>
process == <<mem, cur, prev, pc, outcome>>
history == attempts
vars == <<disk, mem, cur, prev, pc, outcome, cont, port, entry, lease, attempts>>

NoRecord == [NewRecord EXCEPT !.status = "Superseded"]   \* never persisted by the engine

\* A deployment's own serving container, and the one a restoration creates.
Container == Dep \X {"main", "restored"}
Main(d) == <<d, "main">>
Restored(d) == <<d, "restored">>

\* "stopped": Harpoon stopped it; "dead": it exited by itself.
ContState == {"absent", "created", "running", "stopped", "dead"}
\* "intended": no receipt yet; "failed", "lost": a failed cleanup of an entry
\* with, and without, a receipt.
EntryState == {"none", "intended", "created", "failed", "lost", "released"}
Settled == {"none", "released"}
PreSteps == {"Source", "Build", "PreliminaryCheck"}
Pc == {"idle", "begin", "Source", "Build", "PreliminaryCheck",
       "exec_Source", "exec_Build", "exec_PreliminaryCheck",
       "confirm", "plan", "pin", "cutover", "stop", "create", "creating",
       "receipt", "start", "release", "reallocate", "repin", "check", "final",
       "stop_failed_first", "stop_failed_new", "precheck", "blockers",
       "restore", "restore_start", "record", "finish"}

Prev == [rel : Dep, owner : Container]
NoPrev == [rel |-> NoDep, owner |-> <<NoDep, "main">>]

-----------------------------------------------------------------------------
(* What the records and the ledger say *)

Used == {d \in Dep : disk[d] # NoRecord}
\* Ids are handed out in order.
IsNext(d) == d \notin Used /\ \A e \in Dep : e < d => e \in Used

Unfinished == {d \in Used : disk[d].status \notin Terminal}
MayBeDown == {d \in Used : ApplicationMayBeDown(disk[d])}

Live(c) == entry[c] \in {"created", "failed"}

\* Entries that make any further operation unsafe until reconciled.
Unresolved ==
    \/ \E c \in Container : entry[c] \in {"intended", "failed", "lost"}
    \/ \E d \in Used : EndState(disk[d]) = "NotSucceeded"
                       /\ (entry[Main(d)] = "created" \/ lease[d] # {})

\* (mutant) any ended deployment's container may be serving
CandidatesEnded ==
    {Main(d) : d \in {e \in Used : disk[e].status \in Terminal /\ Live(Main(e))}}
    \union
    {Restored(d) : d \in {e \in Used : /\ disk[e].recovery \in ServiceRestored
                                       /\ Live(Restored(e))}}

\* The containers that may be serving: of a succeeded deployment, or of a
\* restoration that brought a release back.  The newest one serves.
Candidates ==
    {Main(d) : d \in {e \in Used : /\ disk[e].status = "Succeeded"
                                   /\ disk[e].release
                                   /\ Live(Main(e))}}
    \union
    {Restored(d) : d \in {e \in Used : /\ disk[e].recovery \in ServiceRestored
                                       /\ disk[e].replaces # NoDep
                                       /\ Live(Restored(e))}}

Newest(C) == {c \in C : \A o \in C : o[1] <= c[1]}
IsServing(c) == c \in Newest(Candidates)

ReleaseOf(c) == IF c[2] = "main" THEN c[1] ELSE disk[c[1]].replaces

\* The configuration of the release being replaced, as pinned on disk.
PrevPin == IF prev.rel = NoDep THEN NoPort ELSE disk[prev.rel].pinned

Leased == UNION {lease[d] : d \in Dep}
PortBusy(p) == \E c \in Container : cont[c] = "running" /\ port[c] = p
Free == {p \in Port : p \notin Leased /\ ~PortBusy(p)}

-----------------------------------------------------------------------------
(* The process: saving, going on, dying *)

Save(r) == mem' = r /\ disk' = [disk EXCEPT ![cur] = r]
Goto(l) == pc' = l

\* A terminal status is saved; what is left is the cleanup.
EndRun(r, status) == Save(Transition(r, status)) /\ Goto("finish")

Leave == /\ pc' = "idle" /\ mem' = NoRecord /\ cur' = NoDep
         /\ prev' = NoPrev /\ outcome' = "None"

Init ==
    /\ disk = [d \in Dep |-> NoRecord]
    /\ mem = NoRecord /\ cur = NoDep /\ prev = NoPrev
    /\ pc = "idle" /\ outcome = "None"
    /\ cont = [c \in Container |-> "absent"]
    /\ port = [c \in Container |-> NoPort]
    /\ entry = [c \in Container |-> "none"]
    /\ lease = [d \in Dep |-> {}]
    /\ attempts = [d \in Dep |-> 0]

\* The process dies, or a journal write fails and aborts the run.
Crash == pc # "idle" /\ Leave /\ UNCHANGED <<journal, runtime, history>>

-----------------------------------------------------------------------------
(* Starting a run (deploy-cli: deploy, replace) *)

\* First deployment: refused while anything is unfinished or unresolved, or
\* any container of the application is recorded.
Deploy(d) ==
    /\ pc = "idle" /\ IsNext(d)
    /\ Unfinished = {} /\ ~Unresolved
    /\ \A c \in Container : entry[c] \in Settled
    /\ cur' = d /\ mem' = Transition(NewRecord, "Queued") /\ prev' = NoPrev
    /\ Goto("begin")
    /\ UNCHANGED <<journal, runtime, history, outcome>>

\* Replacement of the serving release: also refused while any cutover is
\* unconfirmed.
Replace(d) ==
    /\ pc = "idle" /\ IsNext(d)
    /\ Unfinished = {} /\ ~Unresolved /\ MayBeDown = {}
    /\ \E c \in Container :
          /\ IsServing(c)
          /\ prev' = [rel |-> ReleaseOf(c), owner |-> c]
    /\ cur' = d /\ mem' = Transition(NewRecord, "Queued")
    /\ Goto("begin")
    /\ UNCHANGED <<journal, runtime, history, outcome>>

Begin ==
    /\ pc = "begin" /\ TransitionOK(mem, "Running")
    /\ Save(Transition(mem, "Running")) /\ Goto("Source")
    /\ UNCHANGED <<cur, prev, outcome, entry, lease, runtime, history>>

-----------------------------------------------------------------------------
(* Preparation: nothing that serves is touched *)

ExecOf(s) == CASE s = "Source" -> "exec_Source"
               [] s = "Build" -> "exec_Build"
               [] s = "PreliminaryCheck" -> "exec_PreliminaryCheck"

AfterPre(s) == CASE s = "Source" -> "Build"
                 [] s = "Build" -> "PreliminaryCheck"
                 [] s = "PreliminaryCheck" -> "confirm"

\* Each step, and the cutover, first looks at the cancel request.
Cancel ==
    /\ pc \in PreSteps \union {"confirm"}
    /\ TransitionOK(mem, "Cancelled")
    /\ EndRun(mem, "Cancelled")
    /\ UNCHANGED <<cur, prev, outcome, entry, lease, runtime, history>>

PreStart(s) ==
    /\ pc = s /\ StartStepOK(mem, s)
    /\ Save(StartStep(mem, s)) /\ Goto(ExecOf(s))
    /\ UNCHANGED <<cur, prev, outcome, entry, lease, runtime, history>>

PrePass(s) ==
    /\ pc = ExecOf(s) /\ FinishStepOK(mem, s)
    /\ Save([FinishStep(mem, s, TRUE) EXCEPT !.release = @ \/ s = "Build"])
    /\ Goto(AfterPre(s))
    /\ UNCHANGED <<cur, prev, outcome, entry, lease, runtime, history>>

\* The step failed, ran past its budget, or (preliminary check) left
\* something that could not be removed.
PreFail(s) ==
    /\ pc = ExecOf(s) /\ FinishStepOK(mem, s) /\ TransitionOK(mem, "Failed")
    /\ EndRun([FinishStep(mem, s, FALSE) EXCEPT !.failure = s], "Failed")
    /\ UNCHANGED <<cur, prev, outcome, entry, lease, runtime, history>>

\* A replacement needs a backend that can cut over and the confirmation of
\* its plan.  Otherwise the run ends Cancelled with the candidate prepared.
Confirm ==
    /\ pc = "confirm" /\ Goto("plan")
    /\ UNCHANGED <<mem, cur, prev, outcome, journal, runtime, history>>

NotConfirmed ==
    /\ pc = "confirm" /\ prev # NoPrev /\ TransitionOK(mem, "Cancelled")
    /\ EndRun(mem, "Cancelled")
    /\ UNCHANGED <<cur, prev, outcome, entry, lease, runtime, history>>

-----------------------------------------------------------------------------
(* The cutover *)

\* plan_release leases a port the ledger and the runtime know to be free.
PlanLease ==
    /\ pc = "plan"
    /\ \E p \in Free : /\ lease' = [lease EXCEPT ![cur] = @ \union {p}]
                       /\ mem' = [mem EXCEPT !.pinned = p]
    /\ Goto("pin")
    /\ UNCHANGED <<cur, prev, outcome, disk, entry, runtime, history>>

\* It failed, or its answer came too late: nothing was stopped.
PlanFail ==
    /\ pc \in {"plan", "pin"} /\ TransitionOK(mem, "Failed")
    /\ EndRun([mem EXCEPT !.failure = "Cutover", !.pinned = NoPort], "Failed")
    /\ UNCHANGED <<cur, prev, outcome, entry, lease, runtime, history>>

Pin ==
    /\ pc = "pin" /\ Save(mem) /\ Goto("cutover")
    /\ UNCHANGED <<cur, prev, outcome, entry, lease, runtime, history>>

\* The journal says what is about to be stopped before it is stopped.
BeginReplace ==
    /\ pc = "cutover" /\ prev # NoPrev
    /\ BeginCutoverOK(mem) /\ StartStepOK(mem, "Cutover")
    /\ Save(StartStep([BeginCutover(mem) EXCEPT !.replaces = prev.rel], "Cutover"))
    /\ Goto("stop")
    /\ UNCHANGED <<cur, prev, outcome, entry, lease, runtime, history>>

BeginFirst ==
    /\ pc = "cutover" /\ prev = NoPrev
    /\ CutoverNotRequiredOK(mem) /\ StartStepOK(mem, "Cutover")
    /\ Save(StartStep(CutoverNotRequired(mem), "Cutover"))
    /\ Goto("create")
    /\ UNCHANGED <<cur, prev, outcome, entry, lease, runtime, history>>

\* stop_current stops exactly the container that serves, if it runs.
Stopped ==
    /\ Live(prev.owner) /\ cont[prev.owner] = "running"
    /\ cont' = [cont EXCEPT ![prev.owner] = "stopped"]

StopCurrent ==
    /\ pc = "stop" /\ Stopped /\ Goto("create")
    /\ UNCHANGED <<mem, cur, prev, outcome, journal, port, attempts>>

\* (mutant) the recovery step is not started
FailWithoutStep(step, next) ==
    LET failed == FailCutover([FinishStep(mem, step, FALSE) EXCEPT !.failure = step])
    IN /\ FinishStepOK(mem, step) /\ FailCutoverOK(mem)
       /\ Save(StartRecovery(failed))
       /\ Goto(next)

\* fail_after_cutover: the failure and the recovery are on disk before the
\* recovery starts.
FailAfterCutover(step, next) ==
    LET failed == FailCutover([FinishStep(mem, step, FALSE) EXCEPT !.failure = step])
    IN /\ FinishStepOK(mem, step) /\ FailCutoverOK(mem)
       /\ StartStepOK(mem, "Recovery") /\ StartRecoveryOK(failed)
       /\ Save(StartRecovery(StartStep(failed, "Recovery")))
       /\ Goto(next)

\* It was not running or could not be stopped, or it was stopped and the
\* answer was lost or late.
StopFail ==
    /\ pc = "stop" /\ FailAfterCutover("Cutover", "blockers")
    /\ Stopped \/ UNCHANGED cont
    /\ UNCHANGED <<cur, prev, outcome, entry, lease, port, attempts>>

\* start_new could not start the new release.
NewReleaseFailed ==
    \/ prev # NoPrev /\ FailAfterCutover("Cutover", "blockers")
    \/ /\ prev = NoPrev /\ FinishStepOK(mem, "Cutover") /\ TransitionOK(mem, "Failed")
       /\ EndRun([FinishStep(mem, "Cutover", FALSE) EXCEPT !.failure = "Cutover"], "Failed")

\* create_container serves both the new release and the restored one.
Restoring == mem.recovery = "InProgress"
Target == IF Restoring THEN Restored(cur) ELSE Main(cur)
TargetPorts == IF Restoring THEN {PrevPin} ELSE lease[cur]

\* Restoration ends here with this outcome, still to be recorded.
Ends(o) == outcome' = o /\ Goto("record")

GiveUp ==
    \/ ~Restoring /\ NewReleaseFailed /\ UNCHANGED outcome
    \/ Restoring /\ Ends("RestoreFailed") /\ UNCHANGED <<mem, disk>>

\* The image, its volumes, the environment and the secrets are checked before
\* anything is recorded.
CreateRefused ==
    /\ pc = "create" /\ GiveUp
    /\ UNCHANGED <<cur, prev, entry, lease, runtime, history>>

Intend ==
    /\ pc = "create"
    /\ entry' = [entry EXCEPT ![Target] = "intended"]
    /\ Goto("creating")
    /\ UNCHANGED <<mem, cur, prev, outcome, disk, lease, runtime, history>>

Made == \E p \in TargetPorts :
            /\ cont' = [cont EXCEPT ![Target] = "created"]
            /\ port' = [port EXCEPT ![Target] = p]

Make ==
    /\ pc = "creating" /\ Made /\ Goto("receipt")
    /\ UNCHANGED <<mem, cur, prev, outcome, journal, history>>

\* It was not created, or it was and the answer was lost.
MakeFail ==
    /\ pc = "creating" /\ GiveUp
    /\ Made \/ UNCHANGED runtime
    /\ UNCHANGED <<cur, prev, entry, lease, history>>

Receipt ==
    /\ pc = "receipt"
    /\ entry' = [entry EXCEPT ![Target] = "created"]
    /\ Goto(IF Restoring THEN "restore_start" ELSE "start")
    /\ UNCHANGED <<mem, cur, prev, outcome, disk, lease, runtime, history>>

Start ==
    /\ pc = "start" /\ ~PortBusy(port[Main(cur)])
    /\ cont' = [cont EXCEPT ![Main(cur)] = "running"]
    /\ Goto("repin")
    /\ UNCHANGED <<mem, cur, prev, outcome, journal, port, history>>

\* The start failed, or it worked and could not be confirmed in time.
StartFail ==
    /\ pc = "start" /\ NewReleaseFailed
    /\ \/ UNCHANGED cont
       \/ /\ ~PortBusy(port[Main(cur)])
          /\ \E s \in {"running", "dead"} : cont' = [cont EXCEPT ![Main(cur)] = s]
    /\ UNCHANGED <<cur, prev, outcome, entry, lease, port, history>>

\* The port was taken meanwhile: once, the container is removed, its lease
\* given back, and another port tried.  (The second container has a name of
\* its own; here it takes the place of the first.)
Collide ==
    /\ pc = "start" /\ port[Main(cur)] = mem.pinned
    /\ entry' = [entry EXCEPT ![Main(cur)] = "released"]
    /\ cont' = [cont EXCEPT ![Main(cur)] = "absent"]
    /\ Goto("release")
    /\ UNCHANGED <<mem, cur, prev, outcome, disk, lease, port, history>>

DiscardFail ==
    /\ pc = "start" /\ port[Main(cur)] = mem.pinned /\ NewReleaseFailed
    /\ entry' = [entry EXCEPT ![Main(cur)] = "failed"]
    /\ UNCHANGED <<cur, prev, outcome, lease, runtime, history>>

GiveBack ==
    /\ pc = "release"
    /\ lease' = [lease EXCEPT ![cur] = @ \ {mem.pinned}]
    /\ Goto("reallocate")
    /\ UNCHANGED <<mem, cur, prev, outcome, disk, entry, runtime, history>>

Reallocate ==
    /\ pc = "reallocate"
    /\ \E p \in Free \ {mem.pinned} : lease' = [lease EXCEPT ![cur] = @ \union {p}]
    /\ Goto("create")
    /\ UNCHANGED <<mem, cur, prev, outcome, disk, entry, runtime, history>>

ReallocateFail ==
    /\ pc = "reallocate" /\ NewReleaseFailed
    /\ UNCHANGED <<cur, prev, outcome, entry, lease, runtime, history>>

\* (mutant) the pin is not corrected
KeepPlannedPin == mem

\* The pin is corrected to the port the release really has.
Repinned == [mem EXCEPT !.pinned = port[Main(cur)]]

Repin ==
    /\ pc = "repin" /\ prev # NoPrev
    /\ Save(Repinned) /\ Goto("check")
    /\ UNCHANGED <<cur, prev, outcome, entry, lease, runtime, history>>

\* A first deployment saves the corrected pin with the step.
FinalCheckStart ==
    /\ FinishStepOK(mem, "Cutover") /\ StartStepOK(mem, "FinalCheck")
    /\ LET Checking(r) == StartStep(FinishStep(r, "Cutover", TRUE), "FinalCheck")
       IN \/ pc = "check" /\ Save(Checking(mem))
          \/ pc = "repin" /\ prev = NoPrev /\ Save(Checking(Repinned))
    /\ Goto("final")
    /\ UNCHANGED <<cur, prev, outcome, entry, lease, runtime, history>>

\* Only a running release passes its final check.
FinalCheckPass ==
    /\ pc = "final" /\ cont[Main(cur)] = "running"
    /\ FinishStepOK(mem, "FinalCheck") /\ TransitionOK(mem, "Succeeded")
    /\ LET checked == FinishStep(mem, "FinalCheck", TRUE)
       IN \/ prev = NoPrev /\ EndRun(checked, "Succeeded")
          \/ prev # NoPrev /\ ConfirmCutoverOK(checked)
                           /\ EndRun(ConfirmCutover(checked), "Succeeded")
    /\ UNCHANGED <<cur, prev, outcome, entry, lease, runtime, history>>

FinalCheckFail ==
    /\ pc = "final"
    /\ \/ prev # NoPrev /\ FailAfterCutover("FinalCheck", "stop_failed_new")
       \/ /\ prev = NoPrev /\ FinishStepOK(mem, "FinalCheck")
          /\ mem' = [FinishStep(mem, "FinalCheck", FALSE) EXCEPT !.failure = "FinalCheck"]
          /\ Goto("stop_failed_first") /\ UNCHANGED disk
    /\ UNCHANGED <<cur, prev, outcome, entry, lease, runtime, history>>

\* Best effort: stopping the failed release may itself fail.
StopNew ==
    \/ UNCHANGED cont
    \/ /\ cont[Main(cur)] = "running"
       /\ cont' = [cont EXCEPT ![Main(cur)] = "stopped"]

StopFailedFirst ==
    /\ pc = "stop_failed_first" /\ TransitionOK(mem, "Failed")
    /\ StopNew /\ EndRun(mem, "Failed")
    /\ UNCHANGED <<cur, prev, outcome, entry, lease, port, history>>

StopFailedNew ==
    /\ pc = "stop_failed_new" /\ StopNew /\ Goto("blockers")
    /\ UNCHANGED <<mem, cur, prev, outcome, journal, port, history>>

-----------------------------------------------------------------------------
(* The bounded restoration *)

\* Containers the precheck does not count against the previous release.
Own == {c \in Container : c[1] = prev.rel \/ c = prev.owner}

Blocked == \E c \in Container \ Own : cont[c] = "running" /\ port[c] = PrevPin

\* restore_phase, before anything is created: no pinned configuration, a
\* running container on the port, or a secret that cannot be resolved.
RestoreNotAttempted ==
    /\ pc = "blockers"
    /\ Ends("NotAttempted")
    /\ UNCHANGED <<mem, cur, prev, journal, runtime, history>>

\* Nothing was found in the way, or the check itself failed (a warning).
RestoreGoesOn ==
    /\ pc = "blockers" /\ PrevPin # NoPort
    /\ Goto("restore")
    /\ UNCHANGED <<mem, cur, prev, outcome, journal, runtime, history>>

\* The image is gone, Docker cannot be reached, the pin is not the port the
\* serving container was created with, the call failed or timed out.
RestoreRefused ==
    /\ pc = "restore"
    /\ attempts' = [attempts EXCEPT ![cur] = @ + 1]
    /\ \E o \in {"NotAttempted", "RestoreFailed"} : Ends(o)
    /\ UNCHANGED <<mem, cur, prev, journal, runtime>>

\* Who may hold the lease on the pinned port.
LeaseOwners == {prev.rel, prev.owner[1]}
LeasedByPrevious == UNION {lease[d] : d \in LeaseOwners}

\* The pinned port is used on the previous release's lease, or on a lease of
\* its own when nobody holds it.
RestoreLease ==
    /\ pc = "restore" /\ PrevPin # NoPort
    /\ LeasedByPrevious # {} => PrevPin \in LeasedByPrevious
    /\ PrevPin \notin UNION {lease[d] : d \in Dep \ LeaseOwners}
    /\ attempts' = [attempts EXCEPT ![cur] = @ + 1]
    /\ lease' = IF PrevPin \in LeasedByPrevious THEN lease
                ELSE [lease EXCEPT ![cur] = @ \union {PrevPin}]
    /\ Goto("create")
    /\ UNCHANGED <<mem, cur, prev, outcome, disk, entry, runtime>>

\* Started: healthy within the budget, or started and not verified.
RestoreStart ==
    /\ pc = "restore_start" /\ ~PortBusy(PrevPin)
    /\ cont' = [cont EXCEPT ![Restored(cur)] = "running"]
    /\ \E o \in ServiceRestored : Ends(o)
    /\ UNCHANGED <<mem, cur, prev, journal, port, history>>

\* The start failed, or its answer was lost.
RestoreStartFail ==
    /\ pc = "restore_start"
    /\ \/ UNCHANGED cont
       \/ ~PortBusy(PrevPin) /\ cont' = [cont EXCEPT ![Restored(cur)] = "running"]
    /\ Ends("RestoreFailed")
    /\ UNCHANGED <<mem, cur, prev, journal, port, history>>

\* The outcome is recorded.  A failed run ends Failed; an explicit
\* restoration leaves its deployment Interrupted and cleans nothing.
RecordRecovery ==
    LET closed == FinishStep(FinishRecovery(mem, outcome), "Recovery",
                             outcome \in ServiceRestored)
    IN /\ pc = "record"
       /\ FinishRecoveryOK(mem, outcome) /\ FinishStepOK(mem, "Recovery")
       /\ \/ /\ mem.status = "Running" /\ EndRun(closed, "Failed")
             /\ UNCHANGED <<cur, prev, outcome>>
          \/ /\ mem.status = "Interrupted"
             /\ disk' = [disk EXCEPT ![cur] = closed] /\ Leave
       /\ UNCHANGED <<entry, lease, runtime, history>>

-----------------------------------------------------------------------------
(* Explicit restoration of an interrupted cutover (recover_cutover) *)

ExplicitRestore(d) ==
    /\ pc = "idle" /\ d \in Used
    /\ CanRecoverExplicitly(disk[d]) /\ disk[d].replaces \in Used
    /\ cur' = d /\ mem' = disk[d]
    /\ prev' = [rel |-> disk[d].replaces, owner |-> Main(disk[d].replaces)]
    /\ Goto("precheck")
    /\ UNCHANGED <<journal, runtime, history, outcome>>

\* An occupied port, or a check that failed, ends it with nothing recorded.
PrecheckBlocks ==
    /\ pc = "precheck" /\ PrevPin # NoPort
    /\ Leave
    /\ UNCHANGED <<journal, runtime, history>>

PrecheckPasses ==
    /\ pc = "precheck" /\ ~Blocked
    /\ CanRecoverExplicitly(mem)
    /\ Save(BeginExplicitRecovery(mem)) /\ Goto("blockers")
    /\ UNCHANGED <<cur, prev, outcome, entry, lease, runtime, history>>

-----------------------------------------------------------------------------
(* Startup recovery and cleanup *)

\* `recover`: every unfinished record is closed.  At most one ever needs it,
\* as `deploy` refuses while one does, so the snapshots written are one.
Recover ==
    /\ pc = "idle"
    /\ \E d \in Used : RecoverOnStart(disk[d]) # disk[d]
    /\ disk' = [d \in Dep |-> IF d \in Used THEN RecoverOnStart(disk[d]) ELSE disk[d]]
    /\ UNCHANGED <<process, entry, lease, runtime, history>>

\* A failed cleanup of an entry without a receipt cannot be given one: the
\* ledger refuses it and the reconciliation stops there.
Unreceiptable(c) == entry[c] = "lost" /\ cont[c] # "absent"

\* An entry that only has to be resolved: found, it is adopted; otherwise it
\* is settled as absent.
Resolved(c) == CASE entry[c] \in {"intended", "lost"} /\ cont[c] = "absent" -> "released"
                 [] entry[c] = "intended" /\ cont[c] # "absent" -> "created"
                 [] OTHER -> entry[c]

\* A failed deployment's own container is removed, or the removal fails
\* (possibly after the container was stopped), or its result is not recorded.
Removal(c) ==
    LET receipted == IF entry[c] = "intended" THEN "created" ELSE entry[c]
    IN IF entry[c] \in Settled THEN {<<entry[c], cont[c]>>}
       ELSE IF cont[c] = "absent" THEN {<<"released", "absent">>}
       ELSE {<<"released", "absent">>, <<"failed", cont[c]>>,
             <<receipted, cont[c]>>, <<receipted, "absent">>}
            \union (IF cont[c] = "running"
                    THEN {<<"failed", "stopped">>, <<receipted, "stopped">>} ELSE {})

\* reconcile for one ended deployment.  Leases go after its containers, and a
\* record the ledger refuses ends the reconciliation before any lease; the
\* process may also die after any of the three.
Reconciled(d, end) ==
    /\ ~Unreceiptable(Main(d))
    /\ \E r \in IF end = "NotSucceeded" THEN Removal(Main(d))
                ELSE {<<Resolved(Main(d)), cont[Main(d)]>>},
          s \in {entry[Restored(d)], Resolved(Restored(d))} :
          /\ entry' = [entry EXCEPT ![Main(d)] = r[1], ![Restored(d)] = s]
          /\ cont' = [cont EXCEPT ![Main(d)] = r[2]]
          /\ \/ UNCHANGED lease
             \/ /\ end = "NotSucceeded" /\ r[1] \in Settled
                /\ \A c \in Container : ~Unreceiptable(c)
                /\ lease' = [lease EXCEPT ![d] = {}]

\* The runtime cannot be listed: what would have been cleaned or resolved is
\* recorded as a failed cleanup, and the leases are released.
Failing(c, end) ==
    CASE entry[c] \in {"intended", "lost"} -> "lost"
      [] entry[c] = "created" /\ c[2] = "main" /\ end = "NotSucceeded" -> "failed"
      [] OTHER -> entry[c]

ReconcileUnlisted(d, end) ==
    /\ \E r \in {entry[Main(d)], Failing(Main(d), end)},
          s \in {entry[Restored(d)], Failing(Restored(d), end)} :
          entry' = [entry EXCEPT ![Main(d)] = r, ![Restored(d)] = s]
    /\ \/ UNCHANGED lease
       \/ end = "NotSucceeded" /\ lease' = [lease EXCEPT ![d] = {}]
    /\ UNCHANGED cont

\* The end state the run's own cleanup uses.
CleanupEnd(r) ==
    IF r.cutover = "Failed" /\ EndState(r) = "NotSucceeded"
    THEN "FailedCutover" ELSE EndState(r)

Finish ==
    /\ pc = "finish"
    /\ Reconciled(cur, CleanupEnd(mem)) \/ ReconcileUnlisted(cur, CleanupEnd(mem))
    /\ Leave
    /\ UNCHANGED <<disk, port, history>>

\* `reconcile --apply`, one deployment at a time in the ledger's order; refused
\* while one is unfinished.
Reconcile(d) ==
    /\ pc = "idle" /\ d \in Used /\ Unfinished = {}
    /\ \/ /\ \A c \in Container : Unreceiptable(c) => c[1] >= d
          /\ Reconciled(d, EndState(disk[d]))
       \/ ReconcileUnlisted(d, EndState(disk[d]))
    /\ UNCHANGED <<disk, process, port, history>>

\* A container may exit by itself at any time.
Exit(c) ==
    /\ cont[c] = "running"
    /\ cont' = [cont EXCEPT ![c] = "dead"]
    /\ UNCHANGED <<journal, process, port, history>>

-----------------------------------------------------------------------------
EngineStep ==
    \/ Begin \/ Cancel \/ Confirm \/ NotConfirmed
    \/ \E s \in PreSteps : PreStart(s) \/ PrePass(s) \/ PreFail(s)
    \/ PlanLease \/ PlanFail \/ Pin \/ BeginReplace \/ BeginFirst
    \/ StopCurrent \/ StopFail
    \/ CreateRefused \/ Intend \/ Make \/ MakeFail \/ Receipt
    \/ Start \/ StartFail \/ Collide \/ DiscardFail
    \/ GiveBack \/ Reallocate \/ ReallocateFail
    \/ Repin \/ FinalCheckStart \/ FinalCheckPass \/ FinalCheckFail
    \/ StopFailedFirst \/ StopFailedNew
    \/ RestoreNotAttempted \/ RestoreGoesOn \/ RestoreRefused
    \/ RestoreLease \/ RestoreStart \/ RestoreStartFail \/ RecordRecovery
    \/ PrecheckBlocks \/ PrecheckPasses \/ Finish

Command ==
    \/ \E d \in Dep : Deploy(d) \/ Replace(d) \/ ExplicitRestore(d) \/ Reconcile(d)
    \/ Recover

Next == EngineStep \/ Command \/ Crash \/ \E c \in Container : Exit(c)

Spec == Init /\ [][Next]_vars

-----------------------------------------------------------------------------
(* Type correctness *)

\* Every variable has its type: what the engine saves is a well-formed record
\* and the ledger and the runtime stay within their states.
TypeOK ==
    /\ disk \in [Dep -> Record] /\ mem \in Record
    /\ cur \in Dep \union {NoDep} /\ prev \in Prev \union {NoPrev}
    /\ pc \in Pc /\ outcome \in RecoveryState
    /\ pc # "idle" => cur \in Dep
    /\ cont \in [Container -> ContState]
    /\ port \in [Container -> Port \union {NoPort}]
    /\ entry \in [Container -> EntryState]
    /\ lease \in [Dep -> SUBSET Port]
    /\ attempts \in [Dep -> Nat]

-----------------------------------------------------------------------------
(* Safety *)

\* A restoration is made at most once per deployment, whatever crashes fall
\* between the failed run, `recover` and `restore`, and never before the
\* attempt is on disk (start_recovery, begin_explicit_recovery).
OneAttempt ==
    \A d \in Dep : /\ attempts[d] <= 1
                   /\ attempts[d] = 1 => disk[d].recovery # "None"

\* OneAttempt made inductive: the process never works on a record whose
\* recovery is behind the journal's, and no attempt has been made where one is
\* about to be.
AttemptInv ==
    /\ \A d \in Dep : \/ attempts[d] = 0
                      \/ attempts[d] = 1 /\ disk[d].recovery # "None"
    /\ pc # "idle" => mem.recovery = disk[cur].recovery
    /\ pc \in {"stop_failed_new", "blockers", "restore"} =>
          attempts[cur] = 0 /\ mem.recovery = "InProgress"
    /\ pc = "record" => outcome \notin {"None", "InProgress"}

\* When nothing is unfinished and no cutover is unconfirmed, the release the
\* records call serving was left running: it runs, or it exited by itself
\* (serving_release against what the engine did to the runtime).
ServingIsUp ==
    (pc = "idle" /\ Unfinished = {} /\ MayBeDown = {}) =>
        \A c \in Container : IsServing(c) => cont[c] \in {"running", "dead"}

\* What a later replacement would restore is what serves: the pin of the
\* serving release is the port of the serving container, and the lease on it
\* is held by a deployment restore_inner accepts as its owner.
PinServes ==
    \A c \in Container : IsServing(c) =>
        LET r == ReleaseOf(c) IN
        /\ disk[r].pinned = port[c]
        /\ port[c] \in lease[r] \union lease[c[1]]

-----------------------------------------------------------------------------
(* What the owner of the application is promised *)

\* The release the records name as serving (serving_release).
Served == LET C == Candidates
          IN IF C = {} THEN NoDep ELSE ReleaseOf(CHOOSE c \in Newest(C) : TRUE)

Phase == IF \E d \in Used : disk[d].cutover = "Begun" THEN "switching"
         ELSE IF \E d \in Used : disk[d].recovery = "InProgress" THEN "restoring"
         ELSE IF MayBeDown # {} THEN "lost"
         ELSE "steady"

Owner == INSTANCE Availability WITH
             Release <- Dep, NoRelease <- NoDep, served <- Served, phase <- Phase

\* The engine, with its crashes, restarts and cleanups, implements the promise:
\* the served release changes only by a first deployment or a confirmed
\* cutover, and an unconfirmed one is restored at most once, to what served
\* before (run_deployment_confirmed, recover_cutover, serving_release).
Promise == Owner!Spec

-----------------------------------------------------------------------------
(* Liveness *)

\* The running process keeps taking steps until it ends or dies.
FairSpec == Spec /\ WF_vars(EngineStep)

\* And whoever finds an unfinished record eventually runs `recover`.
RecoveredSpec == FairSpec /\ WF_vars(Recover)

\* Every run ends: no step order, failure or collision makes the engine ask
\* for a transition its own record refuses, and the retries are bounded.  And
\* a restoration that began is eventually settled, whenever the process dies:
\* it is never left "in progress" (close_unfinished_recovery).
RunsSettle ==
    /\ pc # "idle" ~> pc = "idle"
    /\ \A d \in Dep : disk[d].recovery = "InProgress" ~> disk[d].recovery # "InProgress"
=============================================================================
