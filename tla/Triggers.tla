------------------------------ MODULE Triggers ------------------------------
(***************************************************************************)
(* Git registrations, polling, webhooks, CI triggers and the source        *)
(* executor (deploy-cli/src/git_cmds.rs, deploy/src/git.rs) on top of the  *)
(* control records, for one application and one repository name.           *)
(*                                                                         *)
(* Two executors, `watch` and `git-run`, and a developer's `replace` or    *)
(* `rollback` share one journal.  Opening it for writing takes a lock      *)
(* that nobody waits for: a command that finds it taken gives up.  Reads   *)
(* take no lock, so what a process read may be stale when it writes, and a *)
(* process may die between any two writes.                                 *)
(***************************************************************************)
EXTENDS Control

CONSTANTS
    Executor,     \* the processes that run: "watch", "run", "user"
    MaxVersion,   \* bound: registrations and edits of the name
    MaxRetired,   \* bound: removals of the registration
    MaxCrash      \* bound: processes that die

ASSUME TriggersAssumption ==
    /\ Executor \subseteq {"watch", "run", "user"}
    /\ MaxVersion \in Nat \ {0}   \* Init registers version 1
    /\ MaxRetired \in Nat /\ MaxCrash \in Nat

VARIABLES
    repo,      \* the registration: version (its time), source, whether live
    retired,   \* how often it was removed: the incarnation
    seen,      \* the last observation: registration version and commit
    sources,   \* the source records: deployment, version, commit, event
    remote,    \* what each source's branch points to
    channel,   \* pushes the listener accepted and nobody took in yet
    lock,      \* who holds the journal's writer lock
    proc,      \* the processes
    crashes

git == <<repo, retired, seen, sources>>
vars == <<control, git, remote, channel, lock, proc, crashes>>

Free == "free"
MaxBuffered == 1   \* bound: pushes waiting in memory
Pc == {"off", "poll", "observed", "noting", "drain", "loop", "decided", "fetched",
       "sourced", "deploying", "ran", "unrun"}
Registration == [ver : 0..MaxVersion, url : Url, live : BOOLEAN]
SourceRec == [dep : Dep, ver : 1..MaxVersion, url : Url, rev : Commit, ev : Nat]
Push == [id : DeliveryId, rev : Commit, url : Url]
NoSeen == [ver |-> 0, rev |-> "none"]
\* What a process remembers between its steps: whether this is its first
\* pass, the registration and branch head it read, the event it decided to
\* execute with the ones that gives up, and the deployment it runs.
Process == [pc : Pc, first : BOOLEAN, reg : Registration, head : Commit \union {"none"},
            ev : Nat, sup : SUBSET Nat, dep : Dep \union {NoDep}]
Off == [pc |-> "off", first |-> FALSE, reg |-> [ver |-> 0, url |-> CHOOSE u \in Url : TRUE, live |-> FALSE],
        head |-> "none", ev |-> NoEvent, sup |-> {}, dep |-> NoDep]

\* The values of the variables.
TypeOK ==
    /\ ControlType
    /\ repo \in Registration /\ retired \in 0..MaxRetired
    /\ seen = NoSeen \/ seen \in [ver : 1..MaxVersion, rev : Commit]
    /\ sources \subseteq SourceRec
    /\ remote \in [Url -> Commit]
    /\ channel \in Seq(Push)
    /\ lock \in Executor \union {Free}
    /\ proc \in [Executor -> Process]
    /\ crashes \in 0..MaxCrash

Init ==
    /\ ControlInit
    /\ repo = [ver |-> 1, url |-> CHOOSE u \in Url : TRUE, live |-> TRUE]
    /\ retired = 0 /\ seen = NoSeen /\ sources = {}
    /\ remote \in [Url -> Commit]
    /\ channel = <<>> /\ lock = Free
    /\ proc = [p \in Executor |-> Off]
    /\ crashes = 0

Goto(p, pc) == proc' = [proc EXCEPT ![p].pc = pc]
Exit(p) == proc' = [proc EXCEPT ![p] = Off]

\* Deployment ids are random, so fresh: neither recorded nor reserved.
FreshDep == {d \in Dep : deps[d].st = "none" /\ \A s \in sources : s.dep # d}
TakeId(S) == CHOOSE d \in S : \A x \in S : d <= x

-----------------------------------------------------------------------------
(* Registrations: repo-add, repo-update, repo-remove *)

\* GitState::apply: an observation, a source and a removal name a repository
\* that is registered, or replay refuses the record.
Registered == repo.live

\* Replacing a live registration checks no held event; claiming a removed
\* application again does.
MayClaim == Registered \/ NoneWaiting

RepoAdd(u) ==
    /\ lock = Free /\ repo.ver < MaxVersion
    /\ MayClaim
    /\ repo' = [ver |-> repo.ver + 1, url |-> u, live |-> TRUE]
    /\ UNCHANGED <<control, retired, seen, sources, remote, channel, lock, proc, crashes>>

RepoUpdate(u) ==
    /\ lock = Free /\ repo.live /\ repo.ver < MaxVersion
    /\ u # repo.url => NoneWaiting
    /\ repo' = [repo EXCEPT !.ver = @ + 1, !.url = u]
    /\ UNCHANGED <<control, retired, seen, sources, remote, channel, lock, proc, crashes>>

RepoRemove ==
    /\ lock = Free /\ Registered /\ NoneWaiting /\ retired < MaxRetired
    /\ repo' = [repo EXCEPT !.live = FALSE]
    /\ retired' = retired + 1
    /\ seen' = NoSeen
    /\ UNCHANGED <<control, sources, remote, channel, lock, proc, crashes>>

-----------------------------------------------------------------------------
(* Where events come from *)

\* Somebody pushes to a source.
RemotePush(u, c) ==
    /\ remote[u] # c
    /\ remote' = [remote EXCEPT ![u] = c]
    /\ UNCHANGED <<control, git, channel, lock, proc, crashes>>

\* The listener of a running `watch` answers 202 for a verified push and
\* hands it over in memory.
WebhookArrives(d) ==
    /\ "watch" \in Executor /\ proc["watch"].pc # "off"
    /\ repo.live /\ Len(channel) < MaxBuffered
    /\ channel' = Append(channel, [id |-> <<"given", d>>, rev |-> remote[repo.url], url |-> repo.url])
    /\ UNCHANGED <<control, git, remote, lock, proc, crashes>>

\* git-trigger: a CI job names the revision and its own delivery id.
GitTrigger(d, c, t) ==
    /\ lock = Free /\ repo.live
    /\ events' = QueueEvent(<<"given", d>>, "ci", c, t, repo.url)
    /\ events' # events
    /\ UNCHANGED <<deps, pauses, cleared, execs, readable, git, remote, channel, lock, proc, crashes>>

\* resume --dismiss, --newest, --revision.
Resume ==
    /\ lock = Free
    /\ ResumeDismiss \/ ResumeNewest \/ \E c \in Commit : ResumeRevision(c)
    /\ UNCHANGED <<git, remote, channel, lock, proc, crashes>>

-----------------------------------------------------------------------------
(* `watch`: poll, then take in pushes and run the queue *)

StartWatch(p) ==
    /\ p = "watch" /\ proc[p].pc = "off" /\ repo.live
    /\ proc' = [proc EXCEPT ![p].pc = "poll", ![p].first = TRUE]
    /\ UNCHANGED <<control, git, remote, channel, lock, crashes>>

StartRun(p) ==
    /\ p = "run" /\ proc[p].pc = "off"
    /\ Goto(p, "drain")
    /\ UNCHANGED <<control, git, remote, channel, lock, crashes>>

\* ls-remote, without the lock; it may fail, and a removed registration is
\* not polled.
PollRead(p) ==
    /\ proc[p].pc = "poll"
    /\ \/ /\ repo.live
          /\ proc' = [proc EXCEPT ![p].pc = "observed", ![p].reg = repo, ![p].head = remote[repo.url]]
       \/ Goto(p, "drain")
    /\ UNCHANGED <<control, git, remote, channel, lock, crashes>>

\* Mutant: what was read is used without looking at the registration again.
SameRegistrationUnchecked(p) == proc[p].reg = proc[p].reg
\* Whether the registration is still the one the process read.
SameRegistration(p) == repo = proc[p].reg
\* An observation of an earlier registration is no baseline for this one.
Baseline == IF seen.ver = repo.ver THEN seen.rev ELSE "none"
PollDelivery(c) == <<"poll", retired, c>>
PollSource(p) == IF proc[p].first THEN "poll-late" ELSE "poll"
Moved(p) == Baseline \notin {"none", proc[p].head}

\* Under the lock: queue the move, if the branch moved.
PollQueue(p, t) ==
    LET id == PollDelivery(proc[p].head) IN
    /\ proc[p].pc = "observed"
    /\ IF \/ lock # Free \/ ~SameRegistration(p) \/ Baseline = proc[p].head
          \/ Moved(p) /\ Ingress(id, PollSource(p), proc[p].head) = "conflict"
       THEN /\ Goto(p, "drain")
            /\ UNCHANGED <<events, lock>>
       ELSE /\ Goto(p, "noting")
            /\ lock' = p
            /\ events' = IF Moved(p)
                         THEN QueueEvent(id, PollSource(p), proc[p].head, t, repo.url)
                         ELSE events
    /\ UNCHANGED <<deps, pauses, cleared, execs, readable, git, remote, channel, crashes>>

\* Then record the observation.
PollNote(p) ==
    /\ proc[p].pc = "noting"
    /\ seen' = [ver |-> proc[p].reg.ver, rev |-> proc[p].head]
    /\ readable' = (readable /\ Registered)
    /\ lock' = Free /\ Goto(p, "drain")
    /\ UNCHANGED <<events, deps, pauses, cleared, execs, repo, retired, sources, remote, channel, crashes>>

\* A push taken from the channel; finding the lock taken ends the process.
AcceptWebhook(p, t) ==
    LET m == Head(channel) IN
    /\ p = "watch" /\ proc[p].pc = "drain" /\ channel # <<>>
    /\ IF lock # Free THEN /\ Exit(p) /\ channel' = <<>> /\ UNCHANGED events
       ELSE /\ channel' = Tail(channel)
            /\ events' = IF repo.live
                         THEN QueueEvent(m.id, "webhook", m.rev, t, m.url) ELSE events
            /\ UNCHANGED proc
    /\ UNCHANGED <<deps, pauses, cleared, execs, readable, git, remote, lock, crashes>>

\* drain_all reads the registrations once for all the passes that follow.
DrainEnter(p) ==
    /\ proc[p].pc = "drain"
    /\ p = "watch" => channel = <<>>
    /\ proc' = [proc EXCEPT ![p].pc = "loop", ![p].reg = repo]
    /\ UNCHANGED <<control, git, remote, channel, lock, crashes>>

\* Nothing to execute: `git-run` ends, `watch` waits for the next pass.
DrainDone(p) ==
    /\ proc[p].pc = "loop"
    /\ NextExecution = {} \/ ~proc[p].reg.live
    /\ IF p = "run" THEN Exit(p)
       ELSE \E pc \in {"poll", "drain"} :
              proc' = [proc EXCEPT ![p] = [Off EXCEPT !.pc = pc]]
    /\ UNCHANGED <<control, git, remote, channel, lock, crashes>>

-----------------------------------------------------------------------------
(* drain_app and run_source: execute one event *)

\* Decide from what is read now, without the lock.
Decide(p) ==
    /\ proc[p].pc = "loop" /\ proc[p].reg.live
    /\ \E n \in NextExecution :
          proc' = [proc EXCEPT ![p].pc = "decided", ![p].ev = n[1], ![p].sup = n[2]]
    /\ UNCHANGED <<control, git, remote, channel, lock, crashes>>

\* Fetching the commit takes no lock and may fail.
Checkout(p) ==
    /\ proc[p].pc = "decided"
    /\ \E pc \in {"fetched", "unrun"} : Goto(p, pc)
    /\ UNCHANGED <<control, git, remote, channel, lock, crashes>>

\* The source is durable before anything is built, and only for the very
\* registration the commit was fetched with.
RecordSource(p) ==
    /\ proc[p].pc = "fetched"
    /\ IF lock # Free \/ ~SameRegistration(p) \/ FreshDep = {}
       THEN Goto(p, "unrun") /\ UNCHANGED <<sources, readable>>
       ELSE LET d == TakeId(FreshDep) IN
            /\ sources' = sources \union
                 {[dep |-> d, ver |-> proc[p].reg.ver, url |-> proc[p].reg.url,
                   rev |-> events[proc[p].ev].rev, ev |-> proc[p].ev]}
            /\ readable' = (readable /\ Registered)
            /\ proc' = [proc EXCEPT ![p].pc = "sourced", ![p].dep = d]
    /\ UNCHANGED <<events, deps, pauses, cleared, execs, repo, retired, seen, remote, channel, lock, crashes>>

\* `deploy` and `replace` refuse while a deployment is unfinished or the
\* application may be down (and for reasons outside this model).
MayBeDown(x) == x.cut = "begun" \/ (x.cut = "failed" /\ ~x.restored)
\* Mutant: an unfinished deployment of a dead process blocks nothing.
BlockedByDownOnly == \E d \in Dep : deps[d].st # "running" /\ MayBeDown(deps[d])
Blocked == \E d \in Dep : deps[d].st = "running" \/ MayBeDown(deps[d])
Serving == \E d \in Dep : deps[d].st = "succeeded"

StartDeployment(p) ==
    /\ proc[p].pc = "sourced"
    /\ \/ /\ lock = Free /\ ~Blocked
          /\ lock' = p /\ Goto(p, "deploying")
          /\ deps' = [deps EXCEPT ![proc[p].dep] =
                        [NoDeployment EXCEPT !.st = "running", !.ev = proc[p].ev]]
       \/ Goto(p, "unrun") /\ UNCHANGED <<lock, deps>>
    /\ UNCHANGED <<events, pauses, cleared, execs, readable, git, remote, channel, crashes>>

\* A developer's own `deploy`, `replace` or `rollback`.
UserDeployment(p, rb) ==
    /\ p = "user" /\ proc[p].pc = "off"
    /\ lock = Free /\ ~Blocked /\ (rb => Serving)
    /\ FreshDep # {}
    /\ lock' = p
    /\ proc' = [proc EXCEPT ![p].pc = "deploying", ![p].dep = TakeId(FreshDep)]
    /\ deps' = [deps EXCEPT ![TakeId(FreshDep)] = [NoDeployment EXCEPT !.st = "running", !.rb = rb]]
    /\ UNCHANGED <<events, pauses, cleared, execs, readable, git, remote, channel, crashes>>

BeginCutover(p, t) ==
    LET d == proc[p].dep IN
    /\ proc[p].pc = "deploying" /\ deps[d].cut = "none" /\ Serving
    /\ deps' = [deps EXCEPT ![d].cut = "begun", ![d].began = t]
    /\ UNCHANGED <<events, pauses, cleared, execs, readable, git, remote, channel, lock, proc, crashes>>

\* The run ends, its pauses are recorded and the lock is released.  A first
\* deployment and a failure before the cutover need no cutover.
EndDeployment(p, t) ==
    LET d == proc[p].dep
        x == deps[d]
        Ended(st, cut) == [x EXCEPT !.st = st, !.cut = cut, !.ended = t]
        outcomes ==
            IF x.cut = "begun"
            THEN {Ended("succeeded", "confirmed"), Ended("failed", "failed"),
                  [Ended("failed", "failed") EXCEPT !.restored = TRUE]}
            ELSE {Ended("failed", "none")} \union
                 (IF Serving THEN {} ELSE {Ended("succeeded", "none")})
    IN
    /\ proc[p].pc = "deploying"
    /\ \E o \in outcomes : deps' = [deps EXCEPT ![d] = o]
    /\ pauses' = SyncPauses(deps')
    /\ lock' = Free
    /\ IF p = "user" THEN Exit(p) ELSE Goto(p, "ran")
    /\ UNCHANGED <<events, cleared, execs, readable, git, remote, channel, crashes>>

\* Mutant: what happened to the event is never recorded.
RecordExecForgotten(p) ==
    /\ proc[p].pc \in {"ran", "unrun"}
    /\ IF lock = Free
       THEN proc' = [proc EXCEPT ![p] = [Off EXCEPT !.pc = "loop", !.reg = proc[p].reg]]
       ELSE Exit(p)
    /\ UNCHANGED <<control, git, remote, channel, lock, crashes>>

\* Record what happened to the event.  A taken lock or a refused record ends
\* the process and leaves the event as it is.
RecordExec(p) ==
    LET x == [ev |-> proc[p].ev, sup |-> proc[p].sup,
              dep |-> IF proc[p].pc = "ran" THEN proc[p].dep ELSE NoDep] IN
    /\ proc[p].pc \in {"ran", "unrun"}
    /\ IF lock = Free /\ ExecOK(x)
       THEN /\ events' = ApplyExec(x)
            /\ execs' = execs \union {x}
            /\ proc' = [proc EXCEPT ![p] = [Off EXCEPT !.pc = "loop", !.reg = proc[p].reg]]
            /\ UNCHANGED channel
       ELSE /\ Exit(p)
            /\ channel' = IF p = "watch" THEN <<>> ELSE channel
            /\ UNCHANGED <<events, execs>>
    /\ UNCHANGED <<deps, pauses, cleared, readable, git, remote, lock, crashes>>

-----------------------------------------------------------------------------
(* Failures and their repair *)

\* A process dies: the lock goes with it, and so do the buffered pushes.
Crash(p) ==
    /\ proc[p].pc # "off" /\ crashes < MaxCrash
    /\ crashes' = crashes + 1
    /\ Exit(p)
    /\ lock' = IF lock = p THEN Free ELSE lock
    /\ channel' = IF p = "watch" THEN <<>> ELSE channel
    /\ UNCHANGED <<control, git, remote>>

\* `recover` marks the unfinished deployment interrupted.
Recover ==
    /\ lock = Free
    /\ \E d \in Dep :
          /\ deps[d].st = "running"
          /\ deps' = [deps EXCEPT ![d].st = "interrupted"]
    /\ pauses' = SyncPauses(deps')
    /\ UNCHANGED <<events, cleared, execs, readable, git, remote, channel, lock, proc, crashes>>

\* `restore`: the one explicit attempt after an interrupted cutover.
Restore(t) ==
    /\ lock = Free
    /\ ~\E d \in Dep : deps[d].st = "running"
    /\ \E d \in Dep, ok \in BOOLEAN :
          /\ deps[d].st = "interrupted" /\ deps[d].cut = "begun"
          /\ deps' = [deps EXCEPT ![d].cut = "failed", ![d].ended = t, ![d].restored = ok]
    /\ pauses' = SyncPauses(deps')
    /\ UNCHANGED <<events, cleared, execs, readable, git, remote, channel, lock, proc, crashes>>

-----------------------------------------------------------------------------

ProcessStep(p) ==
    \/ PollRead(p) \/ (\E t \in Time : PollQueue(p, t)) \/ PollNote(p)
    \/ (\E t \in Time : AcceptWebhook(p, t))
    \/ DrainEnter(p) \/ DrainDone(p) \/ Decide(p) \/ Checkout(p) \/ RecordSource(p)
    \/ StartDeployment(p)
    \/ (\E t \in Time : BeginCutover(p, t) \/ EndDeployment(p, t))
    \/ RecordExec(p)

Environment ==
    \/ \E u \in Url : RepoAdd(u) \/ RepoUpdate(u)
    \/ RepoRemove
    \/ \E u \in Url, c \in Commit : RemotePush(u, c)
    \/ \E d \in Delivery : WebhookArrives(d)
    \/ \E d \in Delivery, c \in Commit, t \in Time : GitTrigger(d, c, t)
    \/ Resume
    \/ \E p \in Executor : StartWatch(p) \/ StartRun(p) \/ Crash(p)
    \/ \E p \in Executor, rb \in BOOLEAN : UserDeployment(p, rb)
    \/ Recover
    \/ \E t \in Time : Restore(t)

Next == Environment \/ \E p \in Executor : ProcessStep(p)
Spec == Init /\ [][Next]_vars
\* A running process keeps taking its next step until it ends or dies, and
\* pushes do not arrive without end: the loop that takes them in empties the
\* channel again and again, so `watch` gets past it.
FairSpec == /\ Spec
            /\ \A p \in Executor : WF_vars(ProcessStep(p)) /\ SF_vars(DrainEnter(p))

-----------------------------------------------------------------------------
(* Properties *)

\* The journal can be replayed: no record of a registration, observation,
\* source, event, decision, execution or pause was appended that the replay
\* of GitState::apply, ControlState::apply or check_against refuses, whatever
\* was removed, interrupted or restored between a read and the write; and what
\* the replay gives has its types.
Readable == TypeOK /\ readable /\ CheckAgainst

\* One deployment runs for an application at a time (D4), also when an
\* executor died in the middle of one and another process goes on.
OneRunning == Cardinality({d \in Dep : deps[d].st = "running"}) <= 1

\* Newest wins: an event given up for a newer one was received no later than
\* the one that superseded it, and that one was chosen or consumed.
NewestWins ==
    \A i \in DOMAIN events :
        events[i].why = "newer_selected" =>
            /\ events[events[i].by].at >= events[i].at
            /\ events[events[i].by].st # "held"

\* Events are only ever appended, and a settled one keeps its status for
\* good, whichever of executor and developer decides first.
SettledForever ==
    [][/\ Len(events') >= Len(events)
       /\ \A i \in DOMAIN events :
            \/ events'[i] = events[i]
            \/ events[i].st = "held"
            \/ events[i].st = "selected" /\ events'[i].st \in {"executed", "failed", "dismissed"}]_vars

\* While `watch` runs, a held event of an unpaused application is decided.
HeldServed ==
    \A i \in 1..Cardinality(Delivery) :
        (i \in HeldEvents /\ ~IsPaused /\ proc["watch"].pc # "off")
            ~> (i \notin HeldEvents \/ IsPaused \/ proc["watch"].pc = "off")

-----------------------------------------------------------------------------
(* Claims of the documentation that the code does not keep *)

\* While an application is paused no queued push is deployed unless the
\* developer selected it (requirements, D5).  The executor checks the pause
\* before it fetches, not when the deployment starts.
PausedNotDeployed ==
    [][\A d \in Dep :
          (deps[d].st = "none" /\ deps'[d].ev # NoEvent)
              => ~IsPaused \/ events[deps'[d].ev].st = "selected"]_vars

=============================================================================
