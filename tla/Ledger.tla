------------------------------- MODULE Ledger -------------------------------
(***************************************************************************)
(* The resource ledger (deploy/src/ledger.rs) and everything that writes   *)
(* it: the running engine (StepIo), the cleanup at the end of a run and    *)
(* the removal of the preliminary container (engine.rs), and the commands  *)
(* `recover`, `reconcile --apply` and `cleanup-image --apply`.             *)
(*                                                                         *)
(* An entry is named by its deployment and a key.  What Docker holds under *)
(* that identity is kept apart: `obj` is Harpoon's own object, `squat`     *)
(* says that somebody else's object has the name.  Users may remove or     *)
(* rename an object and take a name at any time; the process may die       *)
(* between any two effects.                                                *)
(***************************************************************************)
EXTENDS Naturals

CONSTANTS
    Dep,        \* deployments, in the order they run
    Key,        \* the resources of a deployment that this instance has
    ListFails   \* whether listing the runtime may fail

\* The image, the preliminary container, the serving container, the one a
\* restoration creates, the test port and the application port.
AllKeys == {"image", "pre", "main", "restored", "test", "port"}

ASSUME LedgerAssumption == Dep \subseteq Nat \ {0} /\ Key \subseteq AllKeys /\ ListFails \in BOOLEAN

Leases == {"test", "port"}
Containers == {"pre", "main", "restored"}

Disposition(k) == IF k \in {"image", "restored"} THEN "Retain"
                  ELSE IF k \in {"pre", "test"} THEN "RemoveAlways"
                  ELSE "RemoveOnFailure"

Entry == Dep \X Key
Objects == {e \in Entry : e[2] \notin Leases}

VARIABLES
    entries,   \* the ledger
    status,    \* the deployments
    obj,       \* Harpoon's own object: "none", "named" or "renamed"
    squat,     \* the entries whose name somebody else's object has
    run,       \* the deployment the running engine works on
    work,      \* actions planned and not yet begun
    task,      \* the action being carried out, and its next step
    removed    \* history: objects removed by Harpoon

vars == <<entries, status, obj, squat, run, work, task, removed>>
runtime == <<obj, squat, removed>>

EntryState == {"none", "Intended", "Created", "Released", "CleanupFailed",
               "CleanupConflict", "Refused"}
LedgerEntry == [state : EntryState, id : BOOLEAN, outstanding : BOOLEAN]
NoEntry == [state |-> "none", id |-> FALSE, outstanding |-> FALSE]
Status == {"new", "running", "Succeeded", "NotSucceeded"}
NoDep == 0
Outcome == {"Released", "CleanupFailed", "CleanupConflict", "Refused"}
\* "Settle": the outcome needs nothing of Docker.  "ReleaseLease": a lease
\* that waits for the deployment's containers.
Do == {"Adopt", "Remove", "RemoveImage", "Settle", "ReleaseLease"}
Stage == {"receipt", "attempt", "call", "result"}
Task == [e : Entry, do : Do, adopt : BOOLEAN, at : Stage, outcome : Outcome \union {"none"}]
NoTask == [e |-> <<NoDep, "none">>, do |-> "none", adopt |-> FALSE, at |-> "none", outcome |-> "none"]

-----------------------------------------------------------------------------
(* Ledger::apply *)

IsReleased(x) == x.state = "Released"
NeedsAttention(x) ==
    x.outstanding \/ x.state \in {"CleanupFailed", "CleanupConflict", "Refused"}

IntentOK(e) == entries[e].state = "none"
Intent(e) == [state |-> "Intended", id |-> FALSE, outstanding |-> FALSE]

\* The ids of this model are one per object, so a second receipt is a replay.
ReceiptOK(e) == \/ entries[e].state = "Intended" /\ ~entries[e].id
                \/ entries[e].id
Receipt(e) == IF entries[e].id THEN entries[e]
              ELSE [entries[e] EXCEPT !.id = TRUE, !.state = "Created"]

AttemptOK(e) == entries[e].state \notin {"none", "Released", "Refused"}
Attempt(e) == [entries[e] EXCEPT !.outstanding = TRUE]

ResultOK(e, outcome) ==
    /\ entries[e].outstanding
    /\ outcome = "CleanupConflict" => e[2] = "image" /\ entries[e].id
\* (mutant) a failed cleanup is not recorded as such
ResultIgnoresFailure(e, outcome) ==
    [entries[e] EXCEPT !.outstanding = FALSE,
                       !.state = IF outcome = "CleanupFailed" THEN @ ELSE outcome]
Result(e, outcome) == [entries[e] EXCEPT !.outstanding = FALSE, !.state = outcome]

-----------------------------------------------------------------------------
(* plan *)

ShouldClean(k, end) ==
    \/ Disposition(k) = "RemoveAlways"
    \/ Disposition(k) = "RemoveOnFailure" /\ end = "NotSucceeded"

EndState(d) == IF status[d] \in {"Succeeded", "NotSucceeded"} THEN status[d] ELSE "None"

NeedsDecision(e, end) ==
    /\ entries[e].state \notin {"none", "Released", "Refused"}
    /\ ShouldClean(e[2], end) \/ ~entries[e].id

NewTask(e, do, adopt) ==
    [e |-> e, do |-> do, adopt |-> adopt, outcome |-> "none",
     at |-> IF adopt THEN "receipt" ELSE "attempt"]
Settle(e, outcome) ==
    [e |-> e, do |-> "Settle", adopt |-> FALSE, outcome |-> outcome, at |-> "attempt"]

\* (mutant) an object is looked for by its recorded id only
FoundById(e) == entries[e].id /\ obj[e] # "none"

\* Found in a listing: by the recorded id, or by name where there is none.
FoundOurs(e) == IF entries[e].id THEN obj[e] # "none" ELSE obj[e] = "named"
FoundForeign(e) == ~entries[e].id /\ e \in squat

PlanObject(e, end) ==
    IF FoundOurs(e)
    THEN IF ShouldClean(e[2], end) THEN NewTask(e, "Remove", ~entries[e].id)
         ELSE NewTask(e, "Adopt", TRUE)
    ELSE Settle(e, IF FoundForeign(e) THEN "Refused" ELSE "Released")

Plan(e, end) == IF e[2] \in Leases THEN [Settle(e, "Released") EXCEPT !.do = "ReleaseLease"]
                ELSE PlanObject(e, end)

\* The runtime could not be listed: objects fail, leases are released.
PlanUnlisted(e) == Settle(e, IF e[2] \in Leases THEN "Released" ELSE "CleanupFailed")

\* A labelled object that no entry names is reported once its deployment has
\* ended, and never touched.
Unaccounted(e) ==
    entries[e].state = "none" \/ (~entries[e].id /\ obj[e] = "renamed")

-----------------------------------------------------------------------------
(* What the commands ask of the ledger (deploy-cli: unresolved) *)

\* The one failed cleanup that does not block: a retained image whose removal
\* was refused, of a deployment of which everything else is released.
Deferred(e) ==
    /\ e[2] = "image" /\ entries[e].id /\ ~entries[e].outstanding
    /\ entries[e].state = "CleanupConflict" /\ EndState(e[1]) = "NotSucceeded"
    /\ \A o \in Entry : o[1] = e[1] /\ o # e => entries[o].state \in {"none", "Released"}

Kept(e) == \/ Disposition(e[2]) = "Retain"
           \/ Disposition(e[2]) = "RemoveOnFailure" /\ EndState(e[1]) = "Succeeded"

Unresolved ==
    \E e \in Entry :
       \/ NeedsAttention(entries[e]) /\ ~Deferred(e)
       \/ entries[e].state = "Intended"
       \/ entries[e].state = "Created" /\ ~Kept(e)

Unfinished == {d \in Dep : status[d] = "running"}

-----------------------------------------------------------------------------
(* The running engine *)

Idle == run = NoDep /\ work = {} /\ task = NoTask

Init ==
    /\ entries = [e \in Entry |-> NoEntry]
    /\ status = [d \in Dep |-> "new"]
    /\ obj = [e \in Objects |-> "none"]
    /\ squat = {} /\ removed = {}
    /\ run = NoDep /\ work = {} /\ task = NoTask

StartRun(d) ==
    /\ Idle /\ status[d] = "new" /\ \A c \in Dep : c < d => status[c] # "new"
    /\ Unfinished = {} /\ ~Unresolved
    /\ status' = [status EXCEPT ![d] = "running"] /\ run' = d
    /\ UNCHANGED <<entries, runtime, work, task>>

\* A run creates its resources in order, and the preliminary container and
\* its port are gone before the cutover.
Earlier(k) == CASE k = "image" -> {}
                [] k = "test" -> {"image"}
                [] k = "pre" -> {"image", "test"}
                [] k = "port" -> {"image", "test", "pre"}
                [] OTHER -> {"image", "test", "pre", "port"}

Ready(d, k) ==
    \A j \in Earlier(k) \intersect Key :
        entries[<<d, j>>].state = IF Disposition(j) = "RemoveAlways" /\ k \notin {"test", "pre"}
                                  THEN "Released" ELSE "Created"

Between == run # NoDep /\ work = {} /\ task = NoTask

IntendResource(e) ==
    /\ Between /\ run = e[1] /\ Ready(run, e[2]) /\ IntentOK(e)
    /\ entries' = [entries EXCEPT ![e] = Intent(e)]
    /\ UNCHANGED <<status, runtime, run, work, task>>

\* Docker makes the object; the answer may be lost.
Create(e) ==
    /\ Between /\ run = e[1] /\ e \in Objects
    /\ entries[e].state = "Intended" /\ obj[e] = "none" /\ e \notin squat
    /\ obj' = [obj EXCEPT ![e] = "named"]
    /\ UNCHANGED <<entries, status, squat, removed, run, work, task>>

\* A lease has no object: its receipt follows its intent.
ReceiveId(e) ==
    /\ Between /\ run = e[1] /\ entries[e].state = "Intended"
    /\ e \in Objects => obj[e] # "none"
    /\ entries' = [entries EXCEPT ![e] = Receipt(e)]
    /\ UNCHANGED <<status, runtime, run, work, task>>

\* release_preliminary: once, what the check created is removed as if the
\* deployment had succeeded, the lease without waiting.
ReleasePreliminary ==
    LET T == {e \in Entry : /\ e[1] = run /\ Disposition(e[2]) = "RemoveAlways"
                            /\ NeedsDecision(e, "Succeeded")}
    IN /\ Between /\ T # {} /\ \A e \in T : ~NeedsAttention(entries[e])
       /\ \/ work' = {IF e \in Objects THEN PlanObject(e, "Succeeded") ELSE PlanUnlisted(e) : e \in T}
          \/ ListFails /\ work' = {PlanUnlisted(e) : e \in T}
       /\ UNCHANGED <<entries, status, runtime, run, task>>

\* reconcile: list the runtime, plan for the ended deployments.
Decide(ended) ==
    LET T == {e \in Entry : e[1] \in DOMAIN ended /\ NeedsDecision(e, ended[e[1]])}
    IN \/ work' = {Plan(e, ended[e[1]]) : e \in T}
       \/ ListFails /\ work' = {PlanUnlisted(e) : e \in T}

Complete == \A k \in Key : entries[<<run, k>>].state =
               CASE Disposition(k) = "RemoveAlways" -> "Released"
                 [] k = "restored" -> "none"
                 [] OTHER -> "Created"

\* The run ends; its own cleanup follows.  After a failed cutover the failed
\* candidate is left to `reconcile`.
EndRun(end) ==
    /\ Between
    /\ end = "Succeeded" => Complete
    /\ end = "FailedCutover" => Ready(run, "main")
    /\ status' = [status EXCEPT ![run] = IF end = "Succeeded" THEN end ELSE "NotSucceeded"]
    /\ Decide([d \in {run} |-> end])
    /\ run' = NoDep
    /\ UNCHANGED <<entries, runtime, task>>

\* The process dies, or a journal write fails and ends it.
Crash ==
    /\ ~Idle
    /\ run' = NoDep /\ work' = {} /\ task' = NoTask
    /\ UNCHANGED <<entries, status, runtime>>

-----------------------------------------------------------------------------
(* The commands *)

\* `recover` marks what the dead process left.
Recover ==
    /\ Idle /\ Unfinished # {}
    /\ status' = [d \in Dep |-> IF status[d] = "running" THEN "NotSucceeded" ELSE status[d]]
    /\ UNCHANGED <<entries, runtime, run, work, task>>

Reconcile ==
    /\ Idle /\ Unfinished = {}
    /\ Decide([d \in {c \in Dep : EndState(c) # "None"} |-> EndState(d)])
    /\ UNCHANGED <<entries, status, runtime, run, task>>

\* `cleanup-image`: the retained image of one deployment that did not succeed,
\* once everything else of it is released and nothing else refers to it.
CleanupImage(e) ==
    /\ Idle /\ e[2] = "image" /\ entries[e].id
    /\ entries[e].state \notin {"Released", "Refused"}
    /\ EndState(e[1]) = "NotSucceeded"
    /\ \A o \in Entry : o[1] = e[1] /\ o # e => entries[o].state \in {"none", "Released"}
    /\ obj[e] # "renamed"
    /\ work' = {NewTask(e, "RemoveImage", FALSE)}
    /\ UNCHANGED <<entries, status, runtime, run, task>>

-----------------------------------------------------------------------------
(* execute_actions: one record or one call to Docker per step *)

Waiting(t) == t.do = "ReleaseLease"

\* A container a restoration made serves on the previous release's lease.
ContainersSettled(d) ==
    \A k \in (Containers \ {"restored"}) \intersect Key :
        entries[<<d, k>>].state \in {"none", "Released"}

PickTask ==
    /\ task = NoTask
    /\ \E t \in work :
          /\ Waiting(t) => \A o \in work : Waiting(o)
          /\ work' = work \ {t}
          /\ task' = IF Waiting(t) /\ ~ContainersSettled(t.e[1]) THEN NoTask ELSE t
    /\ UNCHANGED <<entries, status, runtime, run>>

\* A record the ledger refuses ends the process.
Write(ok, entry, next) ==
    \/ ok /\ entries' = [entries EXCEPT ![task.e] = entry] /\ task' = next /\ UNCHANGED <<run, work>>
    \/ ~ok /\ run' = NoDep /\ work' = {} /\ task' = NoTask /\ UNCHANGED entries

WriteReceipt ==
    /\ task.at = "receipt"
    /\ Write(ReceiptOK(task.e), Receipt(task.e),
             IF task.do = "Adopt" THEN NoTask ELSE [task EXCEPT !.at = "attempt"])
    /\ UNCHANGED <<status, runtime>>

WriteAttempt ==
    /\ task.at = "attempt"
    /\ Write(AttemptOK(task.e), Attempt(task.e),
             [task EXCEPT !.at = IF task.outcome = "none" THEN "call" ELSE "result"])
    /\ UNCHANGED <<status, runtime>>

WriteResult ==
    /\ task.at = "result"
    /\ Write(ResultOK(task.e, task.outcome), Result(task.e, task.outcome), NoTask)
    /\ UNCHANGED <<status, runtime>>

\* An image with another tag, a digest or a container is not exclusively
\* Harpoon's: a conflict, and so is one that Docker itself keeps.
RetainedImageAnswers(e) ==
    IF obj[e] = "renamed" THEN {"CleanupConflict"} ELSE {"Released", "CleanupConflict"}

\* remove_resource re-reads the object by its id: a container that has
\* another name now is refused; an image is only compared by id and labels.
Answers(e) ==
    CASE obj[e] = "none" -> {"Released"}
      [] obj[e] = "renamed" /\ e[2] \in Containers -> {"Refused"}
      [] task.do = "RemoveImage" -> RetainedImageAnswers(e)
      [] OTHER -> {"Released"}

\* The call may also fail, before or after it took effect.
Call ==
    /\ task.at = "call"
    /\ \E o \in Answers(task.e) \union {"CleanupFailed"} :
          /\ task' = [task EXCEPT !.at = "result", !.outcome = o]
          /\ \/ /\ obj[task.e] # "none" /\ "Released" \in Answers(task.e)
                /\ o \in {"Released", "CleanupFailed"}
                /\ obj' = [obj EXCEPT ![task.e] = "none"]
                /\ removed' = removed \union {task.e}
             \/ /\ o = "Released" => obj[task.e] = "none"
                /\ UNCHANGED <<obj, removed>>
    /\ UNCHANGED <<entries, status, squat, run, work>>

-----------------------------------------------------------------------------
(* Users of the same Docker *)

UserRemoves(e) ==
    /\ obj[e] # "none" /\ obj' = [obj EXCEPT ![e] = "none"]
    /\ UNCHANGED <<entries, status, squat, run, work, task, removed>>

UserRenames(e) ==
    /\ obj[e] = "named" /\ obj' = [obj EXCEPT ![e] = "renamed"]
    /\ UNCHANGED <<entries, status, squat, run, work, task, removed>>

UserTakesName(e) ==
    /\ obj[e] # "named" /\ e \notin squat /\ squat' = squat \union {e}
    /\ UNCHANGED <<entries, status, obj, run, work, task, removed>>

Next ==
    \/ \E d \in Dep : StartRun(d)
    \/ \E e \in Entry : IntendResource(e) \/ Create(e) \/ ReceiveId(e) \/ CleanupImage(e)
    \/ ReleasePreliminary
    \/ \E end \in {"Succeeded", "NotSucceeded", "FailedCutover"} : EndRun(end)
    \/ Crash \/ Recover \/ Reconcile
    \/ PickTask \/ WriteReceipt \/ WriteAttempt \/ WriteResult \/ Call
    \/ \E e \in Objects : UserRemoves(e) \/ UserRenames(e) \/ UserTakesName(e)

Spec == Init /\ [][Next]_vars

-----------------------------------------------------------------------------
(* Type correctness *)

\* Every variable has its type, and an entry is one the ledger can reach: only
\* a receipt gives an id, and no attempt is outstanding on a settled entry.
TypeOK ==
    /\ entries \in [Entry -> LedgerEntry]
    /\ \A e \in Entry :
          /\ entries[e].id => entries[e].state \notin {"none", "Intended"}
          /\ entries[e].outstanding => entries[e].state \notin {"none", "Released", "Refused"}
    /\ status \in [Dep -> Status]
    /\ obj \in [Objects -> {"none", "named", "renamed"}]
    /\ squat \subseteq Objects /\ removed \subseteq Objects
    /\ run \in Dep \union {NoDep}
    /\ work \subseteq Task /\ task \in Task \union {NoTask}

-----------------------------------------------------------------------------
(* Safety *)

\* An object Harpoon created is never lost sight of: as long as it exists, an
\* entry that is not settled answers for it, or every later listing reports it
\* as unaccounted for (StepIo::intend before create, plan's adoption by name).
\* One that Harpoon removed is on record: its removal is settled, or the attempt
\* is still outstanding or failed, whatever crash followed the call
\* (execute_actions brackets every removal).
Accounted ==
    /\ TypeOK
    /\ \A e \in Objects : obj[e] # "none" =>
          /\ entries[e].state # "none"
          /\ IsReleased(entries[e]) => Unaccounted(e)
    /\ \A e \in removed : entries[e].outstanding \/ entries[e].state \in Outcome

-----------------------------------------------------------------------------
(* Action properties *)

\* A cleanup that failed, was refused or was interrupted is never silently
\* dropped: only a recorded release ends it (Entry::needs_attention).
NeverDropped ==
    [][\A e \in Entry : NeedsAttention(entries[e]) /\ ~NeedsAttention(entries'[e])
          => IsReleased(entries'[e])]_vars

=============================================================================
