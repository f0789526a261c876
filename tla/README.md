# A TLA+ model of Harpoon

Harpoon runs Docker in a virtual machine on macOS and, on top of it, deploys
applications to that Docker: it builds a release, checks it, cuts over to it,
restores the previous one when that fails, and follows Git repositories. A
desktop application shows and operates all of it. This directory holds TLA+
specifications of the parts of it that keep state across failures, processes,
threads and time, the TLC configurations that check them, and proofs that TLAPS
checks. `PROJECT.json` maps every definition to the lines it models.

- [The system](#the-system)
- [The modules](#the-modules)
- [What is checked](#what-is-checked)
- [Where code and documentation disagree](#where-code-and-documentation-disagree)
- [What is proved](#what-is-proved)
- [What is left out](#what-is-left-out)
- [Plan](#plan)

## The system

| Part | State it keeps | Operations | Interacts with |
| --- | --- | --- | --- |
| deployment record (`deploy/src/state.rs`) | status, steps, cutover, recovery, pin, interruption of one deployment | `transition`, `start_step`/`finish_step`, `begin_cutover`, `confirm_cutover`, `begin_recovery`, `finish_recovery`, `recover_on_start` | every save of the engine is one snapshot of it |
| deployment engine (`deploy/src/engine.rs`) | the record in memory and the position of the run | `run_deployment_confirmed`, `recover_cutover`, `cleanup`, `reconcile` | journal, ledger, Docker backend |
| ownership ledger (`deploy/src/ledger.rs`) | one entry per image, container, port lease | `intend`, `receipt`, `attempt`, `result`; `plan`, `execute_actions` | written before and after every effect on Docker |
| Docker backend (`deploy-docker/src`) | containers, images, ports, the private copy of a source | source, build, preliminary and final container, `stop_current`, `restore`, `remove_resource` | shared with other users of the same Docker |
| serving release (`deploy/src/serving.rs`, `rollback.rs`) | none: derived | `serving_release`, `retained_releases` | records and ledger |
| ports and health (`deploy/src/ports.rs`, `health.rs`, `probe.rs`, `attribution.rs`) | leases; the locals of a check | `allocate`, `health`, the proofs that an answer is the container's own | listeners, mappings, the guest |
| configuration and secrets (`deploy/src/config.rs`, `secrets.rs`, `deploy-keychain`) | definitions by scope, versions in the Keychain, snapshots, pins | set, unset, rotate, resolve, pin | journal, Keychain, restorations |
| CLI (`deploy-cli/src/commands.rs`) | none between commands | deploy, replace, rollback, restore, recover, reconcile, resume, cleanup-image, teardown | opens the journal under a lock nobody waits for |
| control records (`deploy/src/control.rs`) | pauses, events, decisions, exec records of an application | `queue_event`, `next_execution`, `apply_exec`, `apply_resume`, `sync_pauses` | replayed and re-validated on every opening |
| Git registrations and executor (`deploy-cli/src/git_cmds.rs`, `deploy/src/git.rs`) | registrations, observations, source records | repo-add/update/remove, poll, webhook, git-trigger, git-run, watch | control records, CLI's replace, a remote |
| journal (`deploy-journal/src`) | the append-only file, its lock; the SQLite store; backups | open, append, import, mark interrupted, read without the lock, remove a registration | everything above |
| Harpoon runtime (`harpoon/Sources/main.swift`, `VMManager.swift`, `Bridges.swift`) | flags, timers and the VM of one engine process | start, readiness, shutdown, unexpected stop | commands, by files and signals |
| lifecycle commands (`HarpoonLifecycleCLI.swift`, `HarpoonRuntimeState.swift`) | `runtime.pid`, `runtime.json`, the stop file, two locks | start, stop, restart, status | the engine process |
| port forwarding (`PortForwardManager.swift`) | forwards per published port, relays in flight | sync, reconcile, relay start and stop | Docker's listing, the guest |
| desktop: router (`app_router.rs`, `deploy/src/route.rs`) | the table of routes, open connections | accept, look up, dial, pipe | the records, the applications' ports |
| desktop: shells (`shell.rs`) | sessions, children, descriptors | open, write, resize, close | the operating system's ids |
| desktop: workers (`runtime_refresh.rs`, `resource_sampler.rs`, `bootstrap.rs`) | a slot per kind of worker | start, stop, wake | the window's calls |
| desktop: operations (`deploy_api.rs`) | attached runtimes, in memory and in a file | attach, remove, plan, confirm, run | the CLI, the runtime's state files |
| desktop: commands (`compose_import.rs`, `broadcast.rs`, `main.rs`) | a child and a deadline | preview and launch, broadcast, short reads | child processes |

What is hard, and what correct means:

- **Crashes between effects** (engine, ledger, journal, teardown). A process
  may die between a record and the call it announces. The disk must say enough
  before each call that the next process can finish or undo it: nothing that
  was made is lost sight of, a restoration is made once, an acknowledged record
  stays.
- **Partial failure** (engine, backend). Stop, start, check, stop again and
  restore can each fail or time out after the old release is gone. The records
  must always name the release that serves, or admit that it may be down.
- **Derived truth** (serving release, pauses, routes). None is stored. A
  sequence of replacements, restorations, rollbacks and teardowns must not make
  the derivation wrong, and a replay must accept what was written.
- **Decisions that outlive their reason** (executor, operations, router, health
  check). Something is read, then time passes, then it is acted on.
- **Identity** (health check, shells, runtime). A port, a process id, a
  descriptor or a path may belong to somebody else by the time it is used.
- **Others** (Docker, the developer). Objects are removed, renamed and created
  by others between a listing and a removal.
- **Waiting** (workers, shells, commands, `stop`). Every wait must end,
  whatever the other side does.

`PROJECT.json` lists these as hazards, each at its line, with the properties
that would catch it going wrong.

## The modules

| Module | Models | Uses |
| --- | --- | --- |
| `DeploymentRecord` | `state.rs`: a record and every method on it, as operators (`X` the record after, `XOK` the condition under which it returns `Ok`) | |
| `Engine` | the engine for one application over Docker: first deployments, replacements, restoration, explicit restoration, recovery, reconciliation, crashes | `DeploymentRecord`, `Availability` |
| `Availability` | what the owner of an application is promised: which release serves and whether that is in doubt | |
| `Ledger` | the ledger, the cleanup at the end of a run, the preliminary release, `recover`, `reconcile`, `cleanup-image`, other users of Docker | |
| `Control` | pauses, events and decisions, and what replay accepts, as operators and state | |
| `Triggers` | registrations, polling, webhooks, triggers and executors | `Control` |
| `Runtime` | engine processes, their VM, the lifecycle commands, and the files, signals and locks between them | |
| `DurableLog` | what a journal promises: acknowledged records stay, in order | |
| `Journal` | the append-only file: header, lock, append, sync, truncation, torn tails, replay | |
| `Store` | the SQLite store, the import of a file journal, reads without the lock, the backup before the first removal | `Journal`, `DurableLog` |
| `Configuration` | definitions, secrets, snapshots, pins, and what a deployment, restoration or rollback is given | |
| `Build` | source confinement, the private copy, secrets, Buildx, image id and tag | |
| `Ports` | the search for a free port, in the widths of the code | |
| `Readiness` | starting a container on a leased port and deciding that it answers | `Ports` |
| `Foundations` | `Store`, `Configuration`, `Build` and `Readiness` side by side | |
| `Router` | the application router of the desktop and the routes it serves by | |
| `Shell` | interactive container shells | |
| `Workers` | the refresher, the sampler and the bootstrap worker | |
| `Operations` | attached runtimes and confirmed operations | |
| `Commands` | children run against a time limit, and the Compose launch | |
| `Releases` | which container serves over many deployments, what a rollback or restoration brings back, and the teardown | |
| `Forwards` | the forward of a published port, with its relay in the guest | |
| `Desktop` | the seven modules above side by side | |
| `EngineProofs`, `LedgerProofs`, `TriggersProofs`, `RuntimeProofs`, `FoundationsProofs`, `ReadinessProofs`, `ReleasesProofs`, `DesktopProofs` | theorems | TLAPS |
| `MCEngine`, `MCLedger`, `MCTriggers`, `MCRuntime`, `MCFoundations`, `MCDesktop` | the instances TLC checks | |

`Foundations` and `Desktop` compose modules that share no variable: each of
the parts has what it needs of the others (records, Docker, the host) as its
own changing surroundings, which is more than the others can really do. A
behaviour of the whole interleaves one of each, so it is enough to let one part
move and keep the others where they began: the rigid variable `part` says which
one moves. An invariant that spoke of two parts would need the product; none
does.

### Engine

`disk` is the journal's last snapshot of each deployment, `mem` the record the
process works on, `pc` the place in `run_deployment_confirmed`, `recover_cutover`
or `cleanup`. `cont` and `port` are Docker's containers and the ports they were
created with; `entry` and `lease` what the ledger says of them. `attempts` is a
history variable that only properties read. One action is the code between two
effects, an effect being a save or a call: so `Crash`, which forgets the process
and leaves `disk`, ledger and Docker, may fall wherever it matters. A journal
write that fails aborts the run and is the same step. The writer lock is the
guard `pc = "idle"` of the commands.

Abstractions: one application; a pinned configuration is the host port it pins;
images, the preliminary container and the test port are part of the outcome of
the preparation steps (they are in `Ledger`); deployments are ordered by
position where the code compares wall-clock times (`Releases` has the times);
after a port collision the second container takes the first one's place;
`reconcile` treats one deployment at a time.

### Ledger

An entry is named by deployment and key. `obj` is Harpoon's own object, `squat`
says that somebody else's object has its name. A cleanup is a set of planned
tasks (`work`) and the one in hand (`task`), and each record and each call is a
step. `ListFails` says whether Docker may refuse to be listed: the two answers
lead to different code. A call that is executed after its caller has listed
Docker again is not modelled.

### Control and Triggers

The journal is the sequence of events, the deployments, pauses, decisions and
registrations it contains; `readable` is the conjunction of what the replay of
each appended record answers. A process (`watch`, `git-run`, a developer) is
where it stands in `drain_app`, `poll_repo`, `run_source` or a command, with what
it read before. Opening the journal for writing is taking a lock that is not
waited for.

Abstractions: one application and one repository name; the version of a
registration stands for its time; `sync_pauses` is part of the step that makes it
necessary, as it is under the same lock; the bound of sixteen passes over the
queue is dropped; a manual `git-deploy`'s source record is left out; `ingest`, which
nothing in the CLI calls, is not modelled.

### Runtime

An engine is a process that goes through `spawned` (before its lock), `setup`,
`deaf` (signals ignored, handlers not yet installed), `armed`, `up` (in its run
loop) and `dead`. In the run loop one handler runs at a time, as on the main
queue: `SignalEvent`, `StopPoll`, `BootTimeout`, `ReadyPoll`, `UnexpectedStop`, and the
completion and the timer of a shutdown. The VM and the guest act in between. A
command is a position (`cmd.pc`) in `handleStart` or `handleStop`, which `restart`
runs one after the other under the same lifecycle lock. `flock` is `harpoon.lock`;
since `isLockHeld` asks by taking it, anybody who needs it may find it taken at any
time (`probed`).

Abstractions: process identifiers are never reused; the log is the two lines a
command looks for; arguments and disk are accepted or refused; a process that
ended has lost everything but its exit and the state its VM had.

### Journal and Store

`file` is what any process reads now; `durable` is the set of contents that a
power loss may leave: a write adds to it, a successful sync leaves one. The
writer `w` is a position in an opening, an append or a repair, so it may die or
fail between a write and its sync, and between a failed sync and the truncation
after it. A line is what replay tells apart: the header, a snapshot of a
deployment, a registration's removal, another record, or damage; the file holds
deployments and ledger entries only, the rest needs the store. `sql` is the SQLite file, whose
transactions are atomic and durable (that is SQLite's part); `Log` is what a
replay would return now, from whichever store counts, and is what implements
`DurableLog`. A reader without the lock (`reader`) looks at the two stores one
after the other, and may see half of a write.

### Configuration

The journal of the model is the sequence of definitions, snapshots and pins;
`items` are the Keychain's, shared by all runtimes of the user, so another
runtime may save a version in between. A save is the put, the record, and the
removal of the put when the record failed, each of which may fail or be the
last step of the process. A deployment resolves, snapshots and pins; what a
deployment, a restoration or a rollback really ran with is the history `runs`.
Values are version numbers.

### Build

The project's folder holds a Dockerfile and a folder with one file, each of
which may become a link at any moment. The steps look, list, open without
following a link, compare and copy as `confine.rs` and `snapshot.rs` do; Buildx is
a process of its own that outlives a crash. Ignore rules, size limits and disk
space are a check that may fail.

Every removal is best effort, as in the code: the sweep at the opening of the
store and before a build (`Swept`), the drop of a build's own secrets (`Cleared`)
and the removal of its copy (`EndBuild`) may each leave something behind, and
the build goes on. The history `refused` has the builds whose secrets stayed
because the latest removal of them failed. So `SecretsSwept` does not say that secrets
are always gone: it says that they stay for no other reason than the death of
their build's process, until the next command that writes, or an error of their
own removal.

### Ports and Readiness

`Allocate` walks the range as `allocate` does, with the 32-bit sum cut to 16 bits
before the remainder. In `Readiness` every question asked of Docker, `lsof`, the
guest or the port is a step, and the surroundings (`world`) may change between
any two of them. `chk` are the locals of `health` and of the proof: the marker,
the baseline, the path from this host to the container. An answer is a class
(healthy, foreign, refused).

### Router, Shell, Workers, Operations, Commands

Each is the state of one Rust module, with a step between any two acquisitions
of its locks and any two calls to the operating system. `Router`: the table's age
in ticks of the 250 ms gap, connections through head, dial and pipe. `Shell`:
who owns each process id and descriptor, so that a recycled one is visible.
`Workers`: a worker is named by the call that spawned it; a call is a position in
`start` or `stop`. `Operations`: the state files, the process and the sockets of
the Harpoon runtime may differ and change between any two reads. `Commands`: six
flows (a Compose launch, a broadcast, a short read, two kinds of Git command, a
build) that differ in when they drain the pipe, whom they kill and whom they
wait for. The launch takes the ports' warnings from the reading of the files
that gave it the fingerprint, and the containers from Docker after that.
`remove` of an attached runtime writes the list and lifts the guard in two steps.

### Releases

A deployment is one step here, since `Engine` has its inside; over four of them
with rollbacks and restorations the module computes `serving_release` from
`since_ms` as the code does, with a clock that may be set back. A teardown is
taken apart: every record and call is a step, the attempt at a lease and its
result among them.

Other users of Docker stop, alter and remove containers (`UserChanges`), within a
bound; and anybody starts a stopped one again (`UserStarts`), as often as wanted,
since the desktop has a button for it (`main.rs:666`, `main.rs:694`) and nothing
else brings a container back after a restart of the VM. `loose` is a history of
the containers that were last started on a port whose lease was gone, or which
a teardown had just found unmapped: see `RunningIsLeased` and the observations
below.

### Forwards

One published port. `published` is where Docker has it bound, `listing` the
listing in flight, `forward` the route of the listener, `closing` a withdrawn
listener that its cancel handler has not closed yet. A command to start or stop
the relay is in a slot of `guest` and runs in two steps there, kill and listen,
concurrently with others. `orderly` says of the guest whether it runs a start
only after the stops sent before it.

Abstractions: one container at a time publishes the port; the guest's address
is known; a relay does not die by itself; `stopAll`, which comes with the end of
the process, is left out.

## What is checked

Each run is a `.cfg`. The bounds are the smallest ones at which the cases the
properties are about happen; every property is also shown to fail when a
plausible bug is put into the code it is about (`mutants` in `PROJECT.json`).

| Run | Bounds | Shows |
| --- | --- | --- |
| `engine` | 2 deployments, 3 ports | Every failure, crash, cancellation and command: a restoration is made once and on record (`OneAttempt`); every run ends and no restoration stays in progress (`RunsSettle`). |
| `engine_twice` | 3 deployments, 2 ports (symmetric) | A replaced, restored or moved release is replaced again: the records name a release that is up (`ServingIsUp`), its pin is the port it serves on (`PinServes`), and the engine implements `Availability` (`Promise`). |
| `ledger` | 1 deployment, all six resources | No object is lost sight of and removals are on record (`Accounted`), failed cleanups are not dropped (`NeverDropped`). |
| `triggers` | 2 deliveries, 2 clock readings, `git-run` and a developer, 1 crash | The newest event wins even with a clock set back (`NewestWins`). |
| `triggers_poll` | 2 commits, 2 sources, 2 versions, 1 removal | `watch` polls while the registration is edited, moved, removed and claimed again: the journal can always be replayed (`Readable`). |
| `triggers_two` | 1 delivery, `watch` and `git-run`, 1 crash | One deployment runs at a time (`OneRunning`), settled events stay settled (`SettledForever`), a held event is decided while `watch` lives (`HeldServed`). |
| `runtime` | 2 engines, 1 in the foreground, 1 kill or interruption | One machine has the disk (`OneMachine`), a clean exit means a stopped VM and a stop file ends what it was made for (`CleanExit`), a SIGTERM ends the engine even when the VM never answers (`StopHonoured`), commands end (`CommandEnds`). |
| `foundations` | store: 1 deployment, 3 records, 1 power loss, 2 backups | `Replayable`, `ReadsAcknowledged`, `BackedUp`, and the file, its import and SQLite together implement `DurableLog` (`DurableSpec`). |
| | configuration: 3 deployments, 2 variables at 2 levels, limits of 2 and 1 entries, 2 saves, 2 definitions | The journal can be replayed and pins decoded (`PinsReadable`), what a record names is in the Keychain (`NamedIsThere`), a release always runs with the values it was first given (`SameValues`). |
| | build: 2 deployments, 3 Dockerfiles of which one needs another base, 2 changes of the folder, 1 of the images; any removal may fail | What runs was built from what was checked (`RunsWhatWasChecked`); secrets on disk are those of a build that is running or died, or those whose removal was tried and failed (`SecretsSwept`). |
| | readiness: 3 ports at 39998-40000, 2 successes needed of 3 attempts, 2 changes | A check that passed is about its own container (`Attributed`); leases are the nearest free ports (`PortPromised`). |
| `desktop` | 2 shells over 2 ids and 2 descriptors; 2 calls, 1 poll; 2 ticks, 1 unit of output, 2 edits; 2 loopback addresses, 2 commands, 2 surprises | No signal or write reaches a stranger (`NoStrayReference`), a closed shell ends (`ClosedShellEnds`), calls return (`CallsReturn`), what is launched was reviewed (`LaunchedAsReviewed`), commands answer (`CommandsAnswer`), a forward follows what is published (`ForwardsSettle`). |
| `desktop_requests` | 3 applications of which 2 claim one name, 2 connections of which 1 open, 3 moves; 3 calls; 2 runtimes of which one holds the desktop's own store; 4 deployments, 4 ports, 1 teardown, 1 meddling, any number of containers started again | `RouteIsRecent`, `RefreshUnderControl`, `DockerAsConfirmed`, `RememberedIsGuarded`, `OnlyTheRelease`, `RunningIsLeased`, `RecordsNameServed`. |

Why these bounds: two deployments are enough for one to replace another and
fail at every place; three for the result to be replaced again, which is where a
wrong derivation of the serving release would show; four for a rollback's
container to be replaced, restored and torn down. Three ports let a collision
move a release while the old port is still leased; the range at its upper end
makes the search wrap. Two engines are enough to compete for a lock or to
inherit a file. Two ids and two descriptors let one be recycled while the other
is in use; three calls let two overlap a third that is joining. Two changes of
the surroundings are enough to break the health check's proof in principle (a
listener that comes and goes), which is why `Attributed` says what one change can
do. Two changes of the folder let it be replaced by a link and put back while it
is being copied; three at the same places are covered by the theorem
`CheckedImageRuns` only. The state spaces have from fifty thousand (`desktop`) to some millions of
states.

**Deadlock** is checked in the three runs of `Triggers`, whose processes may
always try again. Elsewhere the system may rest: when the bounded ids are used
up there is nothing left to do. `RunsSettle`, `CommandEnds`, `CallsReturn` and
`ClosedShellEnds` say what deadlock checking would say of a run, a command, a
call or a shell.

**Fairness.** `Engine`: a process keeps taking steps until it ends or dies (a
straight-line program; calls have time limits), and, for the second half of
`RunsSettle`, somebody runs `recover`. `Triggers`: each process keeps going, and
`watch` does not take in pushes without end before it drains (strong fairness of
entering the drain: the loop polls and drains after each intake, but a push may
always be there first). `Runtime`: a command keeps going (every wait in it has a
limit), an engine in its run loop handles a pending signal, and the shutdown's
timer fires; nothing is assumed of the VM or the guest. `Desktop`: each thread
runs when it can; a shell's threads, which wait for a lock that is free again
and again, get it (strong fairness: the standard library's mutex promises no
order, but nobody holds it in a loop); the clock runs; children owe nothing. The
timer of the forwards goes off and the guest runs what reaches it; its failures
are counted among the surprises, which are bounded, so that it works in the end.

## Where code and documentation disagree

Two runs check a sentence of the repository and find it violated.

| Run | Claim | What happens |
| --- | --- | --- |
| `paused_deployed` | "After a rollback, automatic promotion of newer pushes for that application is **paused**" (`docs/deployment-control-plane-requirements.md:404`) | The pause is looked at before the fetch and not again. |
| `restored_pin` | `Serving::config` is "the configuration this container actually serves with" (`deploy/src/serving.rs:41`) | For a rollback's container that was restored after a failed replacement it is the configuration, and so the port, of the release's first deployment. |

Seen in the models, without a run of their own:

Deployments and ledger
- `engine.rs:1524` says that the one restoration is "not spent on a conflict the
  developer can clear". The precheck skips the previous release's own
  containers, so when a process died between saving the cutover and stopping
  the release, `restore` records its attempt although that release still holds
  the port.
- An entry without a receipt whose cleanup failed because Docker could not be
  listed can never be receipted (`ledger.rs:403` against `engine.rs:787`), though a
  failed cleanup "may be retried" (`deploy/tests/b1_units.rs:130`).
- `engine.rs:734` says that a lease follows its containers; when the listing
  fails the leases of the plan are released at once (`engine.rs:782`).
- After the teardown of the serving release the records name an older, stopped
  container as serving (`commands.rs:3161`).
- A restored container may run on the port of the rollback it restored. If it is
  stopped, and the rollback torn down, Docker maps the port no more and the
  lease is given up (`commands.rs:3422`) though the container is still on record. Started
  again it runs on a port that the ledger does not hold, and that the next
  allocation avoids only while it runs. `RunningIsLeased` excepts a container started in
  such a state (`loose`), and TLC finds the state if it does not.

Git and control
- A delivery whose deployment is made but whose consuming record is not yet
  written (another opening of the journal, `git_cmds.rs:1373`) is deployed again
  after a crash; `docs/deployment-control-plane-requirements.md:245` says that
  duplicate deliveries do not duplicate deployments.
- `repo-add` on a registered name has no guard against pending work
  (`git_cmds.rs:224`), unlike `repo-update` ("nothing recorded under the old
  registration is replayed against the new one", `git_cmds.rs:536`).
- `git_cmds.rs:1528` expects a repeated poll to be recognised as a duplicate;
  under another source name it is refused as a conflict (`control.rs:905`).
- A branch that returns to an earlier commit has the delivery id of an event
  that is already settled and is dropped (`git.rs:432`).

Configuration and build
- With a simulated runtime a set may resolve to 256 variables while a pin holds
  64, so a pin may be written that cannot be decoded; the guard at `config.rs:646`
  is for real runtimes, and `PinsReadable` is checked for them.
- `--build-arg K` also removes a runtime value of the same name; a save is
  refused after nine versions that other runtimes saved, since the Keychain
  service is one for all of them.
- A folder replaced by a link between being looked at and being listed is
  followed, against "never from something a link led to" (`snapshot.rs:10-16`);
  a Dockerfile replaced by a link after the confinement is compared through the
  link. `RunsWhatWasChecked` excepts these cases explicitly, and says what holds
  of the others: a link inside the folder that is put there between the look and
  the opening is refused, so what is copied is the file that was looked at.
- A command that reads without the lock falls back to the file journal as long
  as the store holds no deployment and no ledger entry (`sqlite.rs:413`). If a file
  journal exists it does not return configuration, Git or control records that
  were acknowledged before the first deployment; `ReadsAcknowledged` speaks of
  deployments.
- `ctx-*` and `iid-*` that a crash leaves are not swept.
- Secrets that could not be removed stay on disk for the next sweep; only `status`
  mentions them (`commands.rs:600`). "Holding the writer lock means no build is
  running" (`store.rs:200`) is not so after a kill: Buildx has a group of its own and
  goes on, and the sweep takes its secrets.

Readiness and routing
- The proof by the path rests on the two successes in a row that
  `HealthSpec::first_test` asks for (`health.rs:44`). If one were enough, a single
  response of another machine, to which the guest's address passes before the
  guest is asked, would pass the check: TLC shows it for `Need = 1`.
- Two changes of the surroundings at the right moments let a health check pass
  on another process's answers when the container carries no marker.
- A foreign process on a recorded port is served under the application's name,
  against "never as someone else's page" (`app_router.rs:12-13`).

Desktop and runtime
- The sampler has no lock around its calls: two samplers may run for a while
  (`docs/roadmap.md:365`). A bootstrap whose handle is dropped loops without
  waiting until its timeout; the exit of the application does not stop it.
- A write to a shell that reads nothing holds the lock of all sessions; a shell
  whose reader thread could not be started is not reaped after `close_all`.
- `run_command_bounded` reads only after the exit, so a verbose child always
  times out; a Compose launch that times out kills only the CLI, whose plugin
  goes on and keeps the pipes.
- `add` registers a runtime before it may refuse it; a runtime inside or above
  the desktop's own store blocks the desktop's own operations; the comment that
  the pid file "is written by the same process" (`deploy_api.rs:1475`) does not
  hold for `start` (`HarpoonLifecycleCLI.swift:229`).
- `docs/lifecycle.md` says that `harpoon status` never mutates running state. It
  holds the engines' lock for a moment: a starting engine that meets it exits
  with `HARPOON_ALREADY_RUNNING`, and a `restart` that meets it after its stop does
  not start again.
- A `start` interrupted between spawning its child and writing `runtime.pid` leaves
  an engine that no `stop` finds.
- A stop of a relay that the guest runs after the start of its successor leaves
  a listener without a relay until the port is published elsewhere: "a listener
  without one would accept and then reset" (`PortForwardManager.swift:271`).
  `ForwardsSettle` promises the relay only for an orderly guest. A relay that dies
  by itself is not restarted either.

## What is proved

TLAPS proves the following for every value of the constants, where TLC checks
small instances. Each argument has the same shape: the property is not inductive,
so an invariant is stated that says in addition what the code relies on (tried
with TLC on a small instance before it was proved; it is not part of the runs),
and the proof shows that it holds at first, that each action keeps it (one lemma
per action or group of actions), and that it implies the property. Nothing is
assumed but the constants' `ASSUME`s and the two hypotheses named below.

**Engine** (`EngineProofs`). `NoDep` is no deployment, `NoPort` no port; deployments
are natural numbers. Lemmas show that every operator of `DeploymentRecord` maps
records to records, and which fields it changes.
- `TypeCorrect`: `Spec => []TypeOK`.
- `AtMostOneRestoration`: `OneAttempt` speaks of `disk` and the history `attempts`
  alone: a process whose `mem` were behind the journal could begin a second
  restoration. `AttemptInv` adds that the process's record agrees with the
  journal's on the recovery, and that where a restoration is about to be made
  none has been and it is already on record as in progress.
- `ServingReleaseIsUp` and `PinIsServed`: `ServingIsUp` and `PinServes` are about
  moments of rest. `ServingInv` says what holds inside a run: how the records fit
  together (`RecordsInv`), what the run's record and the objects it has made have
  to do with each other at each place (`RunInv`), and that a container that may be
  called serving is up, or a later deployment has taken its place or has put it
  in doubt (`UpInv`).
- `PromiseKept`: `Spec => Promise`, the refinement of `Availability`. `PromiseInv` adds
  that only the last deployment may be in doubt, and that nothing else runs while
  it is (`DoubtInv`), and that what serves then is what is being replaced
  (`ServedInv`). Each step of the engine is mapped to a step of the promise.

**Ledger** (`LedgerProofs`). `ObjectsStayAccounted` and `AttentionNeverDropped`.
`Accounted` alone does not say that the cleanup in hand was planned from an entry
that still is as it was; `LedgerInv` adds that for each task (`TasksRight`), with at
most one task for an entry.

**Triggers** (`TriggersProofs`). `JournalIsReadable`, `OneDeploymentRuns`,
`NewestAlwaysWins`, and the action property `SettledIsForever`. A process acts on
what it read before it had the lock. `TriggersInv` says at each of its places what
of that still holds: which event it decided for and that it is still held, that
its deployment's id is nobody else's, that the one running deployment is its
own or interrupted (`ProcessesRight`), and that an event given up for a newer one
names an event that was received no earlier (`SupersededRight`).

**Runtime** (`RuntimeProofs`), for any number of engines, foreground engines, kills
and interrupted commands.
- `RuntimeTyped` and `OneMachineAtATime`: nothing in `OneMachine` keeps a second
  engine from entering its run loop. `LockInv` adds that exactly the process past
  its lock holds it and that one before it has no machine; that a command about
  a process has one is needed for the signals it sends.
- `CleanEnd`: `EndInv` adds to `LockInv` where a shutdown stands (what the flags,
  the timers and the machine may be at each place, `CleanRight`), and that the
  stop file, while it exists, is that of a stop which the named engine was asked
  for (`StopRight`), since a new engine removes it before its run loop.

**Configuration** (`FoundationsProofs`). `PartsMove` shows that a step of `Foundations`
is a step, or none, of each part, so that an invariant is proved of its part.
`PinsStayReadable`, `NamedSecretsExist` and `ReleasesKeepTheirValues` rest on
`ConfigInv`: every secret on record was saved with one value and is still in the
Keychain; a saving process that may take its item out again is the only one to
know it; what a deployment prepared still is what its snapshot and pin will say.
`PinsStayReadable` has the hypothesis `~Simulated`: the guard at `config.rs:646` is
for Docker runtimes, and without it the property fails (see above). `Resolve` is
written as what is chosen for each name, the fold of the code over its levels
having the same result.

**Store** (`FoundationsProofs`), for any number of deployments, records, power losses
and backups.
- `LogIsReplayable`: `Replays` looks at the records, not at who will add the next.
  `StoreInv` adds that a writer's view of the log is what the log shows (`Shows`), at
  each place where it may still write, and that everything a power loss may leave
  is what the file begins with (`FileRight`). So a record is only added where the
  replay accepts it (`MayWriteFits`, `ReplaysAppend`); and whoever is past a failed
  write or sync, and may not know what the file holds, writes no more.
- `ReadersSeeAcknowledged`: `ReaderRight` adds that a reader which has turned to the
  file finds there each deployment record of the rows that it must return, since
  the file is taken over whole, and before anything else is recorded
  (`ImportRight`). `UpgradeIsBackedUp`: `RemovalRight` follows the backup in hand, whose
  number no other has.
- `LogIsDurable`: `FoundationsSpec => DurableSpec`, the refinement of `DurableLog`.
  `AckedRight` adds that what a power loss may leave has at least the acknowledged
  records; the file's name is durable before anything is written into it
  (`WriterRight`). Each step is mapped to a step of the promise, the import to an
  acknowledgement of what it took over.

**Build** (`FoundationsProofs`). `CheckedImageRuns` and `SecretsStaySwept`. `BuildInv`
follows one build through its steps: what it has confined, listed, opened and
copied so far (`StepRight`), whose secrets are on disk (`SecretsSwept` itself), and for each
Buildx, which may outlive its deployment, what it works on and made (`ImageRight`).

**Ports and readiness** (`ReadinessProofs`).
- `AllocateKeepsPromise`: for every range of 16-bit ports shorter than 32768
  (`PortRangeAssumption`; the code's two have 1000 and 100 ports) and any occupied
  ports, the search returns the free port nearest after the hint, around the end
  of the range, and gives up only when every port is taken. `WalkTurns` shows
  that the sum that is cut to 16 bits gives the same port as one that is not,
  `WalkDistance` that the walk meets every port once.
- `EveryLeasePromised`: `Spec => []PortPromised`; the inductive form adds that a
  container is only started on a port.
- `PassedIsAttributed`: `Need >= 2 => (Spec => []Attributed)`, for any number of
  attempts. The hypothesis is the code's own (above), and the theorem is false
  without it. `AttrInv` adds where the path stood when each response came: what
  was observed that is the container's own while nothing has changed; at most one
  response of a stranger if the path is as it was (`Sound`), because the next
  question finds the change (`HeardRight`); and how much of the proof has been
  given when a response waits for it (`PlaceRight`, `WaitingRight`).

**Desktop** (`DesktopProofs`, `ReleasesProofs`). `PartsStep` is what `PartsMove` is above.
- `RoutesStayRecent`: `RouteIsRecent`. It speaks of connections only; `RouterInv`
  adds that what a table says was right at most the table's age ago unless its
  read failed, and that what the records say now is right now.
- `ShellsStayApart`: `NoStrayReference`. `ShellInv` adds that a registered session
  has a reader that has not unregistered it, and that the reader of a shell that
  is written to has not got past that, so it is not closing the descriptor.
  Assumed (`ShellAssumption`): "free" and "other" are no shells, `Nil` no id.
- `RefreshStaysUnderControl`: `RefreshUnderControl`. `WorkersInv` adds what the
  lifecycle lock gives: one call at a time past its first step, and an empty slot
  from taking the old worker to putting the new one.
- `DockerChangesAsConfirmed`: `DockerAsConfirmed`. `OpInv` adds that at each step of
  the way to the spawn the arguments so far are justified by what was seen.
- `GuardHasNoGap`: `RememberedIsGuarded`. `GuardInv` has the two places between the
  list and the guard at which a call can be interrupted: a folder that is to be
  listed is guarded already, one that is to lose its guard is not listed any more.
- `LaunchIsReviewed`: `LaunchedAsReviewed`. `LaunchInv` adds that past the second look
  the project is as seen or was edited since, and that past the count of containers
  it was seen as reviewed.
- `TeardownKeepsOthers` and `RunningStaysLeased`: `OnlyTheRelease` and `RunningIsLeased`.
  `RelInv` adds how records, containers, ledger and leases fit together
  (`Consistent`), where a teardown is on its way (`TeardownInv`), and that no
  container but the `loose` ones runs on a port which the teardown found unmapped
  (`KeepsLeases`): from there on its leases may go.
- `ServedStaysNamed`: `RecordsNameServed`. `ServedInv` adds that the container put
  into service last is the newest of those that may be served.

Only model-checked: liveness and everything under fairness (`RunsSettle`,
`HeldServed`, `StopHonoured`, `CommandEnds`, `ClosedShellEnds`, `CallsReturn`,
`CommandsAnswer`, `ForwardsSettle`), which the prover cannot do. Every other
property of a passing run is a theorem.

## What is left out

- `history`, `status`, listing and all output; parsing of arguments, Dockerfiles,
  HTTP, JSON and Compose files beyond what it decides; validation of names.
- The import of an image, networks and the capture of logs in the Docker backend.
- Git credentials and their destinations; the webhook's HTTP and signature.
- Balloon and management bridges as byte streams, disk provisioning, the guest,
  the guest's synchronisation before a stop, reuse of the runtime's process ids.
- `deploy/src/queue.rs`, which only its tests use.
- The desktop's web interface, which renders snapshots.
- A call to Docker that takes effect after its caller has listed it again: the
  code has no defence that a property could state.

## Plan

What would come next, in order of importance:

1. `Configuration` and `Build` with two runtimes acting at once, where now the
   other one is part of the surroundings.
2. The import of an image, which adopts what it did not create.
3. The product of `Router` with `Releases`, for a cutover seen through the router.
