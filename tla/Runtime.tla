------------------------------ MODULE Runtime ------------------------------
(***************************************************************************)
(* The Harpoon runtime: the process that owns the virtual machine          *)
(* (harpoon/Sources/main.swift, VMManager, BridgeSet) and the `start`,     *)
(* `stop` and `restart` commands that manage it through files, signals and *)
(* two locks (HarpoonLifecycleCLI, HarpoonRuntimeState).                   *)
(*                                                                         *)
(* Handlers of one engine run one at a time on its main queue; the VM, the *)
(* guest, the timers and the commands go on meanwhile.  Commands exclude   *)
(* each other by the lifecycle lock.  A foreground `harpoon run` starts an *)
(* engine without any command and without metadata.  Whoever asks whether *)
(* the engines' lock is held takes it for a moment (isLockHeld), so that   *)
(* at any time it can look held to the others: `probed` below.             *)
(***************************************************************************)
EXTENDS Naturals, FiniteSets

CONSTANTS
    MaxPid,          \* bound: engine processes, in the order they are started
    MaxForeground,   \* bound: foreground engines
    MaxFault         \* bound: engines killed and commands interrupted half-way

ASSUME RuntimeAssumption ==
    /\ MaxPid \in Nat /\ MaxForeground \in Nat /\ MaxFault \in Nat

VARIABLES
    eng,       \* the engine processes
    flock,     \* who holds harpoon.lock
    sock,      \* who bound the Docker socket's path
    pidFile,   \* runtime.pid
    meta,      \* runtime.json: the engine it names and whether it has a failure
    stopFile,  \* whether the stop file exists
    log,       \* harpoon.log: whose it is and what it says
    cmd,       \* the command that holds the lifecycle lock
    kills, aborts

files == <<pidFile, meta, stopFile>>
vars == <<eng, flock, sock, files, log, cmd, kills, aborts>>

Pid == 1..MaxPid
NoPid == 0
\* Where a process is: before its lock, before it ignores signals, ignoring
\* them, listening to them, in its run loop, gone.
At == {"none", "spawned", "setup", "deaf", "armed", "up", "dead"}
Vm == {"none", "starting", "running", "stopping", "stopped", "error"}
Serial == {"none", "ready", "failed"}
Engine == [at : At, fg : BOOLEAN, vm : Vm, serial : Serial,
           polled : BOOLEAN,      \* readyPollCancelled
           down : BOOLEAN,        \* shuttingDown, and the readiness poll cancelled
           code : {0, 6},         \* the failure code of the shutdown
           term : BOOLEAN,        \* SIGTERM is pending
           lost : BOOLEAN,        \* an unexpected stop is queued
           bridges : BOOLEAN,     \* the bridges listen
           asked : BOOLEAN,       \* history: a stop was sent to it
           stray : BOOLEAN,       \* history: runtime.pid named it and the stop file ended it unasked
           clean : BOOLEAN]       \* it exited with 0
NewEngine == [at |-> "none", fg |-> FALSE, vm |-> "none", serial |-> "none",
              polled |-> FALSE, down |-> FALSE, code |-> 0, term |-> FALSE,
              lost |-> FALSE, bridges |-> FALSE, asked |-> FALSE, stray |-> FALSE,
              clean |-> FALSE]
NoMeta == [pid |-> NoPid, failed |-> FALSE]
CmdPc == {"none", "stop", "kill", "file", "gone", "clean",
          "check", "spawn", "json", "pid", "wait", "expire"}
NoCmd == [pc |-> "none", pid |-> NoPid, restart |-> FALSE]

Alive(p) == p # NoPid /\ eng[p].at \notin {"none", "dead"}
HasMachine(p) == Alive(p) /\ eng[p].vm \in {"starting", "running", "stopping"}
LockHeld(probed) == flock # NoPid \/ probed
Live(p) == p # NoPid /\ eng[p].at = "up" /\ eng[p].bridges

Init ==
    /\ eng = [p \in Pid |-> NewEngine]
    /\ flock = NoPid /\ sock = NoPid
    /\ pidFile = NoPid /\ meta = NoMeta /\ stopFile = FALSE
    /\ log = [of |-> NoPid, marks |-> {}]
    /\ cmd = NoCmd
    /\ kills = 0 /\ aborts = 0

-----------------------------------------------------------------------------
(* One engine *)

\* The process goes on as r.  Its lock ends with it; a socket it bound is
\* removed when its bridges stop, if the host can tell that it is the same.
Becomes(p, r) ==
    /\ eng' = [eng EXCEPT ![p] = r]
    /\ flock' = IF r.at = "dead" /\ flock = p THEN NoPid ELSE flock
    /\ sock' \in IF sock = p /\ eng[p].bridges /\ ~r.bridges THEN {NoPid, sock} ELSE {sock}

\* The process ended: what it knew is gone.
Exited(e, code) == [NewEngine EXCEPT !.at = "dead", !.fg = e.fg, !.vm = e.vm, !.stray = e.stray,
                                     !.clean = (code = 0)]
Says(p, mark) == log' = IF log.of = p THEN [log EXCEPT !.marks = @ \union {mark}] ELSE log
\* recordRuntimeFailure: into whatever metadata there is.
Failure == meta' = IF meta.pid = NoPid THEN meta ELSE [meta EXCEPT !.failed = TRUE]

\* Mutant: an engine that finds the lock taken goes on.
TakeLockAnyway(p) ==
    /\ eng[p].at = "spawned"
    /\ eng' = [eng EXCEPT ![p].at = "setup"]
    /\ flock' = IF flock = NoPid THEN p ELSE flock
    /\ UNCHANGED <<sock, files, log, cmd, kills, aborts>>

TakeLock(p) ==
    /\ eng[p].at = "spawned"
    /\ \/ /\ ~LockHeld(FALSE)
          /\ eng' = [eng EXCEPT ![p].at = "setup"]
          /\ flock' = p /\ UNCHANGED log
       \/ /\ \E probed \in BOOLEAN : LockHeld(probed)
          /\ eng' = [eng EXCEPT ![p] = Exited(@, 10)]
          /\ Says(p, "ALREADY_RUNNING") /\ UNCHANGED flock
    /\ UNCHANGED <<sock, files, cmd, kills, aborts>>

\* Validation and buildVM, then the signals are ignored.
BuildVM(p) ==
    /\ eng[p].at = "setup"
    /\ \/ Becomes(p, [eng[p] EXCEPT !.at = "deaf"])
       \/ Becomes(p, Exited(eng[p], 5))
    /\ UNCHANGED <<files, log, cmd, kills, aborts>>

\* The signal sources are installed.
Listen(p) ==
    /\ eng[p].at = "deaf"
    /\ Becomes(p, [eng[p] EXCEPT !.at = "armed"])
    /\ UNCHANGED <<files, log, cmd, kills, aborts>>

\* The stop file is removed, the timers and the VM are started.
EnterRunLoop(p) ==
    /\ eng[p].at = "armed"
    /\ Becomes(p, [eng[p] EXCEPT !.at = "up", !.vm = "starting"])
    /\ stopFile' = FALSE
    /\ UNCHANGED <<pidFile, meta, log, cmd, kills, aborts>>

\* initiateShutdown: once.  A VM that runs is asked to stop; one that cannot
\* be stopped and is not stopped ends the process with a failure.
Shut(e, code) ==
    LET s == [e EXCEPT !.down = TRUE, !.bridges = FALSE, !.code = code]
    IN IF e.down THEN e
       ELSE CASE s.vm = "running" -> [s EXCEPT !.vm = "stopping"]
              [] s.vm = "stopped" -> Exited(s, code)
              [] OTHER -> Exited(s, IF code = 0 THEN 8 ELSE code)

\* Mutant: the way out after eight seconds reports what the shutdown began as.
StopUnconfirmedAsBegun(p) ==
    /\ eng[p].at = "up" /\ eng[p].down /\ eng[p].vm = "stopping"
    /\ Becomes(p, Exited(eng[p], eng[p].code))
    /\ UNCHANGED <<files, log, cmd, kills, aborts>>

\* Mutant: the way out is only there for failures.
StopUnconfirmedAfterFailure(p) ==
    /\ eng[p].at = "up" /\ eng[p].down /\ eng[p].vm = "stopping" /\ eng[p].code # 0
    /\ Becomes(p, Exited(eng[p], eng[p].code))
    /\ UNCHANGED <<files, log, cmd, kills, aborts>>

\* vm.stop failed, ended in another state, or took more than eight seconds.
StopUnconfirmed(p) ==
    /\ eng[p].at = "up" /\ eng[p].down /\ eng[p].vm = "stopping"
    /\ Becomes(p, Exited(eng[p], IF eng[p].code = 0 THEN 8 ELSE eng[p].code))
    /\ UNCHANGED <<files, log, cmd, kills, aborts>>

StopConfirmed(p) ==
    /\ eng[p].at = "up" /\ eng[p].down /\ eng[p].vm = "stopping"
    /\ Becomes(p, Exited([eng[p] EXCEPT !.vm = "stopped"], eng[p].code))
    /\ UNCHANGED <<files, log, cmd, kills, aborts>>

SignalEvent(p) ==
    /\ eng[p].at = "up" /\ eng[p].term
    /\ Becomes(p, [Shut(eng[p], 0) EXCEPT !.term = FALSE])
    /\ UNCHANGED <<files, log, cmd, kills, aborts>>

StopPoll(p) ==
    /\ eng[p].at = "up" /\ stopFile
    /\ stopFile' = FALSE
    /\ LET unasked == ~eng[p].down /\ ~eng[p].asked /\ pidFile = p
       IN Becomes(p, [Shut(eng[p], 0) EXCEPT !.stray = @ \/ unasked])
    /\ UNCHANGED <<pidFile, meta, log, cmd, kills, aborts>>

\* Not guarded by shuttingDown.
BootTimeout(p) ==
    /\ eng[p].at = "up" /\ ~eng[p].polled
    /\ Becomes(p, Shut([eng[p] EXCEPT !.polled = TRUE], 6))
    /\ UNCHANGED <<files, log, cmd, kills, aborts>>

\* startUnixBridge fails, with or without a recorded failure, leaving the path
\* as it was, removed or bound.
BridgesFail(p) ==
    /\ sock' \in {sock, NoPid, p}
    /\ \/ Failure /\ UNCHANGED log
       \/ UNCHANGED meta /\ (UNCHANGED log \/ Says(p, "ALREADY_RUNNING"))

\* The guest reported Docker: start the bridges.  A socket nobody answers on is
\* replaced.
ReadyPoll(p) ==
    LET ready == [eng[p] EXCEPT !.polled = TRUE]
        fail == Shut(ready, 0)
    IN
    /\ eng[p].at = "up" /\ ~eng[p].down /\ ~eng[p].polled /\ eng[p].serial = "ready"
    /\ \/ /\ ~Live(sock)
          /\ eng' = [eng EXCEPT ![p] = [ready EXCEPT !.bridges = TRUE]]
          /\ sock' = p /\ Says(p, "RUNNING")
          /\ UNCHANGED <<flock, meta>>
       \/ /\ eng' = [eng EXCEPT ![p] = fail]
          /\ flock' = IF fail.at = "dead" THEN NoPid ELSE flock
          /\ BridgesFail(p)
    /\ UNCHANGED <<pidFile, stopFile, cmd, kills, aborts>>

\* The guest reported that Docker failed.
ReadyPollFailed(p) ==
    /\ eng[p].at = "up" /\ ~eng[p].down /\ ~eng[p].polled /\ eng[p].serial = "failed"
    /\ Becomes(p, Shut([eng[p] EXCEPT !.polled = TRUE], 0))
    /\ Failure
    /\ UNCHANGED <<pidFile, stopFile, log, cmd, kills, aborts>>

\* The completion of vm.start; its failure ends the process at once.
VmStarts(p) ==
    /\ eng[p].at = "up" /\ eng[p].vm = "starting"
    /\ \/ Becomes(p, [eng[p] EXCEPT !.vm = "running"]) /\ UNCHANGED meta
       \/ Becomes(p, Exited(eng[p], 7)) /\ Failure
    /\ UNCHANGED <<pidFile, stopFile, log, cmd, kills, aborts>>

\* The VM stops by itself, in order or with an error: the delegate queues a
\* handler unless an explicit stop is in progress.
VmStops(p) ==
    /\ eng[p].at = "up" /\ eng[p].vm = "running"
    /\ \E v \in {"stopped", "error"} : Becomes(p, [eng[p] EXCEPT !.vm = v, !.lost = ~eng[p].down])
    /\ UNCHANGED <<files, log, cmd, kills, aborts>>

UnexpectedStop(p) ==
    /\ eng[p].at = "up" /\ eng[p].lost
    /\ IF eng[p].down THEN Becomes(p, [eng[p] EXCEPT !.lost = FALSE]) /\ UNCHANGED meta
       ELSE Becomes(p, Exited([eng[p] EXCEPT !.lost = FALSE], 9)) /\ Failure
    /\ UNCHANGED <<pidFile, stopFile, log, cmd, kills, aborts>>

GuestSays(p, word) ==
    /\ eng[p].at = "up" /\ eng[p].vm = "running" /\ eng[p].serial = "none"
    /\ Becomes(p, [eng[p] EXCEPT !.serial = word])
    /\ UNCHANGED <<files, log, cmd, kills, aborts>>

\* Killed from outside: the socket's path stays.
Killed(p) ==
    /\ Alive(p) /\ kills + aborts < MaxFault
    /\ eng' = [eng EXCEPT ![p] = Exited(@, 9)]
    /\ flock' = IF flock = p THEN NoPid ELSE flock
    /\ kills' = kills + 1
    /\ UNCHANGED <<sock, files, log, cmd, aborts>>

-----------------------------------------------------------------------------
(* Commands *)

\* SIGTERM ends a process that has not yet chosen to ignore it, and is lost
\* on one that ignores it and does not listen yet.
Terminated(e) == CASE e.at \in {"spawned", "setup"} -> Exited(e, 8)
                   [] e.at \in {"armed", "up"} -> [e EXCEPT !.term = TRUE]
                   [] OTHER -> e

NextPid(p) == eng[p].at = "none" /\ \A q \in Pid : q < p => eng[q].at # "none"
End == cmd' = NoCmd
GoOn(pc) == cmd' = [cmd EXCEPT !.pc = pc]
Forget == pidFile' = NoPid /\ meta' = NoMeta
Same == UNCHANGED <<sock, kills, aborts>>

Invoke(pc, restart) ==
    /\ cmd = NoCmd
    /\ cmd' = [pc |-> pc, pid |-> NoPid, restart |-> restart]
    /\ UNCHANGED <<eng, flock, files, log>> /\ Same

\* handleStart: refused while the lock is held or the named process lives;
\* what a dead one left is removed.
StartCheck ==
    /\ cmd.pc = "check"
    /\ \E probed \in BOOLEAN :
       IF LockHeld(probed) \/ Alive(pidFile) THEN End /\ UNCHANGED files
       ELSE /\ GoOn("spawn")
            /\ IF pidFile # NoPid THEN Forget /\ UNCHANGED stopFile ELSE UNCHANGED files
    /\ UNCHANGED <<eng, flock, log>> /\ Same

\* Arguments or the disk are refused; nothing is spawned.
StartRefused ==
    /\ cmd.pc = "spawn" /\ End
    /\ UNCHANGED <<eng, flock, files, log>> /\ Same

Spawn(p) ==
    /\ cmd.pc = "spawn" /\ NextPid(p)
    /\ eng' = [eng EXCEPT ![p].at = "spawned"]
    /\ log' = [of |-> p, marks |-> {}]
    /\ cmd' = [cmd EXCEPT !.pc = "json", !.pid = p]
    /\ UNCHANGED <<flock, files>> /\ Same

WriteJson ==
    /\ cmd.pc = "json" /\ GoOn("pid")
    /\ meta' = [pid |-> cmd.pid, failed |-> FALSE]
    /\ UNCHANGED <<eng, flock, pidFile, stopFile, log>> /\ Same

WritePid ==
    /\ cmd.pc = "pid" /\ GoOn("wait")
    /\ pidFile' = cmd.pid
    /\ UNCHANGED <<eng, flock, meta, stopFile, log>> /\ Same

Ready == "RUNNING" \in log.marks /\ sock # NoPid

\* The child died: its metadata stays only if it recorded why.
StartFailed ==
    /\ cmd.pc = "wait" /\ ~Alive(cmd.pid) /\ End
    /\ pidFile' = NoPid /\ meta' = IF meta.failed THEN meta ELSE NoMeta
    /\ UNCHANGED <<eng, flock, stopFile, log>> /\ Same

StartSucceeded ==
    /\ cmd.pc = "wait" /\ Ready /\ End
    /\ UNCHANGED <<eng, flock, files, log>> /\ Same

\* The log says that another engine runs, although the child was seen alive:
\* it is told to end.
StartSuperseded ==
    /\ cmd.pc = "wait" /\ ~Ready /\ "ALREADY_RUNNING" \in log.marks /\ End
    /\ Forget
    /\ Becomes(cmd.pid, Terminated(eng[cmd.pid]))
    /\ UNCHANGED <<stopFile, log, kills, aborts>>

\* No readiness within sixty seconds: the child is asked to end.
StartTimeout ==
    /\ cmd.pc = "wait" /\ GoOn("expire")
    /\ Becomes(cmd.pid, Terminated(eng[cmd.pid]))
    /\ UNCHANGED <<files, log, kills, aborts>>

StartExpired ==
    /\ cmd.pc = "expire" /\ End
    /\ IF Alive(cmd.pid) THEN UNCHANGED files ELSE Forget /\ UNCHANGED stopFile
    /\ UNCHANGED <<eng, flock, log>> /\ Same

\* handleStop succeeded: `restart` goes on with its start.
Stopped == cmd' = IF cmd.restart THEN [cmd EXCEPT !.pc = "check", !.pid = NoPid] ELSE NoCmd

StopCheck ==
    /\ cmd.pc = "stop"
    /\ \/ /\ pidFile = NoPid
          /\ \E probed \in BOOLEAN : IF LockHeld(probed) \/ sock # NoPid THEN End ELSE Stopped
          /\ UNCHANGED files
       \/ /\ pidFile # NoPid /\ ~Alive(pidFile)
          /\ Stopped /\ Forget /\ UNCHANGED stopFile
       \/ /\ Alive(pidFile)
          /\ cmd' = [cmd EXCEPT !.pc = "kill", !.pid = pidFile]
          /\ UNCHANGED files
    /\ UNCHANGED <<eng, flock, log>> /\ Same

\* After the guest's sync.
StopSignal ==
    /\ cmd.pc = "kill" /\ GoOn("file")
    /\ LET e == Terminated(eng[cmd.pid]) IN Becomes(cmd.pid, [e EXCEPT !.asked = e.at # "dead"])
    /\ UNCHANGED <<files, log, kills, aborts>>

StopFile ==
    /\ cmd.pc = "file" /\ GoOn("gone")
    /\ stopFile' = TRUE
    /\ UNCHANGED <<eng, flock, pidFile, meta, log>> /\ Same

\* Mutant: waits until the process is gone.
StopWaitForever ==
    /\ cmd.pc = "gone" /\ ~Alive(cmd.pid) /\ GoOn("clean")
    /\ UNCHANGED <<eng, flock, files, log>> /\ Same

\* For ten seconds; a process that is still there is left alone, with the
\* files.
StopWait ==
    /\ cmd.pc = "gone"
    /\ IF Alive(cmd.pid) THEN End ELSE GoOn("clean")
    /\ UNCHANGED <<eng, flock, files, log>> /\ Same

StopClean ==
    /\ cmd.pc = "clean" /\ Stopped
    /\ Forget /\ stopFile' = FALSE
    /\ UNCHANGED <<eng, flock, log>> /\ Same

-----------------------------------------------------------------------------
(* Around them *)

Foreground(p) ==
    /\ NextPid(p) /\ Cardinality({q \in Pid : eng[q].fg}) < MaxForeground
    /\ eng' = [eng EXCEPT ![p].at = "spawned", ![p].fg = TRUE]
    /\ UNCHANGED <<flock, files, log, cmd>> /\ Same

\* A command is interrupted; the lifecycle lock ends with it.
Abort ==
    /\ cmd # NoCmd /\ kills + aborts < MaxFault /\ End
    /\ aborts' = aborts + 1
    /\ UNCHANGED <<eng, flock, sock, files, log, kills>>

-----------------------------------------------------------------------------

MainQueue(p) ==
    \/ TakeLock(p) \/ BuildVM(p) \/ Listen(p) \/ EnterRunLoop(p)
    \/ SignalEvent(p) \/ StopPoll(p) \/ BootTimeout(p) \/ ReadyPoll(p) \/ ReadyPollFailed(p)
    \/ UnexpectedStop(p) \/ StopConfirmed(p) \/ StopUnconfirmed(p)
Machine(p) == VmStarts(p) \/ VmStops(p) \/ \E w \in {"ready", "failed"} : GuestSays(p, w)
CommandStep ==
    \/ StartCheck \/ StartRefused \/ (\E p \in Pid : Spawn(p)) \/ WriteJson \/ WritePid
    \/ StartFailed \/ StartSucceeded \/ StartSuperseded \/ StartTimeout \/ StartExpired
    \/ StopCheck \/ StopSignal \/ StopFile \/ StopWait \/ StopClean

Next ==
    \/ \E p \in Pid : MainQueue(p) \/ Machine(p) \/ Killed(p) \/ Foreground(p)
    \/ Invoke("check", FALSE) \/ Invoke("stop", FALSE) \/ Invoke("stop", TRUE)
    \/ CommandStep \/ Abort

Spec == Init /\ [][Next]_vars
\* A command keeps going until it ends, an engine handles a pending signal,
\* and the shutdown's timer fires.
FairSpec == /\ Spec /\ WF_vars(CommandStep)
            /\ \A p \in Pid : /\ WF_vars(EnterRunLoop(p)) /\ WF_vars(SignalEvent(p))
                              /\ WF_vars(StopUnconfirmed(p))

-----------------------------------------------------------------------------
(* Properties *)

\* Every variable has its type, and the lock is held by a process that lives.
TypeOK ==
    /\ eng \in [Pid -> Engine]
    /\ flock \in Pid \union {NoPid} /\ (flock # NoPid => Alive(flock))
    /\ sock \in Pid \union {NoPid} /\ pidFile \in Pid \union {NoPid}
    /\ meta \in [pid : Pid \union {NoPid}, failed : BOOLEAN]
    /\ stopFile \in BOOLEAN
    /\ log \in [of : Pid \union {NoPid},
                marks : SUBSET {"RUNNING", "ALREADY_RUNNING"}]
    /\ cmd \in [pc : CmdPc, pid : Pid \union {NoPid}, restart : BOOLEAN]
    /\ kills \in 0..MaxFault /\ aborts \in 0..MaxFault

\* One virtual machine at a time has the disk, whether its engine was started
\* by `start`, by `restart` or in the foreground.
OneMachine == \A p, q \in Pid : HasMachine(p) /\ HasMachine(q) => p = q

\* An engine that reports a clean end left its virtual machine stopped,
\* whichever of the completion, the timer and the VM's own end came first; and
\* the stop file ends an engine that runtime.pid names only if a stop was asked
\* for it, also when an earlier stop timed out or was interrupted and left the
\* file (main.swift removes it on the way up).
CleanExit ==
    \A p \in Pid : ~eng[p].stray /\ (eng[p].clean => eng[p].vm = "stopped")

\* A SIGTERM that reaches an engine that listens ends it, also when the VM
\* never answers.
StopHonoured ==
    \A p \in Pid : (eng[p].term /\ Alive(p)) ~> eng[p].at = "dead"

\* A command ends, whatever the engine does.
CommandEnds == cmd # NoCmd ~> cmd = NoCmd
=============================================================================
