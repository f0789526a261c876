--------------------------- MODULE RuntimeProofs ---------------------------
(***************************************************************************)
(* Theorems about Runtime: its state is well typed and one virtual machine *)
(* at a time has the disk, for any number of engine processes, foreground  *)
(* engines, kills and interrupted commands.                                *)
(*                                                                         *)
(* The invariant that carries both says what the lock is for: exactly the  *)
(* process that is past its lock holds it, and one that has not come that  *)
(* far has no machine.                                                     *)
(***************************************************************************)
EXTENDS Runtime, TLAPS

\* A process that is past its lock and not gone.
Past(e) == e.at \in {"setup", "deaf", "armed", "up"}
\* The parts of a command that are about one process.
Named == {"kill", "file", "gone", "clean", "json", "pid", "wait", "expire"}

\* The inductive invariant.
LockInv ==
    /\ TypeOK
    /\ cmd.pc \in Named => cmd.pid \in Pid
    /\ \A p \in Pid : /\ flock = p <=> Past(eng[p])
                      /\ eng[p].at \in {"none", "spawned"} => eng[p].vm = "none"

\* What the rest of the state keeps when an action is about one engine.
RestTyped ==
    /\ sock \in Pid \union {NoPid} /\ pidFile \in Pid \union {NoPid}
    /\ meta \in [pid : Pid \union {NoPid}, failed : BOOLEAN]
    /\ stopFile \in BOOLEAN
    /\ log \in [of : Pid \union {NoPid}, marks : SUBSET {"RUNNING", "ALREADY_RUNNING"}]
    /\ cmd \in [pc : CmdPc, pid : Pid \union {NoPid}, restart : BOOLEAN]
    /\ kills \in 0..MaxFault /\ aborts \in 0..MaxFault
    /\ cmd.pc \in Named => cmd.pid \in Pid

-----------------------------------------------------------------------------
(* The records *)

\* An engine that ended is one, and is dead (exit in main.swift).
LEMMA ExitedFact ==
    ASSUME NEW e \in Engine, NEW code
    PROVE  Exited(e, code) \in Engine /\ Exited(e, code).at = "dead" /\ Exited(e, code).bridges = FALSE
<1>1. PICK c \in BOOLEAN : c = (code = 0)
  OBVIOUS
<1>2. e.fg \in BOOLEAN /\ e.vm \in Vm /\ e.stray \in BOOLEAN
  BY DEF Engine
<1> DEFINE d == [NewEngine EXCEPT !.at = "dead", !.fg = e.fg, !.vm = e.vm, !.stray = e.stray,
                                  !.clean = c]
<1>5. NewEngine \in Engine /\ NewEngine.bridges = FALSE
  BY DEF NewEngine, Engine, At, Vm, Serial
<1>3. d \in Engine /\ d.at = "dead" /\ d.bridges = FALSE
  BY <1>2, <1>5 DEF Engine, At
<1>4. Exited(e, code) = d
  BY <1>1 DEF Exited
<1> QED BY <1>3, <1>4

\* initiateShutdown leaves the engine in its run loop or ends it.
LEMMA ShutFact ==
    ASSUME NEW e \in Engine, e.at = "up", NEW code \in {0, 6}
    PROVE  Shut(e, code) \in Engine /\ Shut(e, code).at \in {"up", "dead"}
<1> DEFINE s == [e EXCEPT !.down = TRUE, !.bridges = FALSE, !.code = code]
<1>1. s \in Engine /\ s.at = "up" /\ s.vm = e.vm
  BY DEF Engine
<1>2. [s EXCEPT !.vm = "stopping"] \in Engine /\ [s EXCEPT !.vm = "stopping"].at = "up"
  BY <1>1 DEF Engine, Vm
<1>3. \A c : Exited(s, c) \in Engine /\ Exited(s, c).at = "dead"
  BY <1>1, ExitedFact
<1>4. Shut(e, code) = IF e.down THEN e
        ELSE CASE s.vm = "running" -> [s EXCEPT !.vm = "stopping"]
               [] s.vm = "stopped" -> Exited(s, code)
               [] OTHER -> Exited(s, IF code = 0 THEN 8 ELSE code)
  BY DEF Shut
<1> HIDE DEF s
<1>5. CASE e.down
  BY <1>4, <1>5
<1>6. CASE ~e.down /\ s.vm = "running"
  BY <1>2, <1>4, <1>6
<1>7. CASE ~e.down /\ s.vm = "stopped"
  BY <1>3, <1>4, <1>7
<1>8. CASE ~e.down /\ s.vm # "running" /\ s.vm # "stopped"
  BY <1>3, <1>4, <1>8
<1> QED BY <1>5, <1>6, <1>7, <1>8

\* A SIGTERM changes no process into one that is past its lock.
LEMMA TerminatedFact ==
    ASSUME NEW e \in Engine
    PROVE  /\ Terminated(e) \in Engine
           /\ Terminated(e).at = e.at \/ Terminated(e).at = "dead"
           /\ Terminated(e).at \in {"none", "spawned"} => Terminated(e).vm = e.vm
<1>1. Exited(e, 8) \in Engine /\ Exited(e, 8).at = "dead"
  BY ExitedFact
<1>2. [e EXCEPT !.term = TRUE] \in Engine /\ [e EXCEPT !.term = TRUE].at = e.at
  BY DEF Engine
<1>3. CASE e.at \in {"spawned", "setup"}
  BY <1>1, <1>3 DEF Terminated
<1>4. CASE e.at \in {"armed", "up"}
  BY <1>2, <1>4 DEF Terminated
<1>5. CASE e.at \notin {"spawned", "setup", "armed", "up"}
  BY <1>5 DEF Terminated
<1> QED BY <1>3, <1>4, <1>5

-----------------------------------------------------------------------------
(* Steps *)

\* What LockInv gives every action.
LEMMA LockInvRest == LockInv => RestTyped
BY DEF LockInv, RestTyped, TypeOK

\* An engine is replaced by a record that is past its lock only if it was, or
\* is dead; the lock of a dead one is given back.
LEMMA EngineChange ==
    ASSUME LockInv, RestTyped', NEW p \in Pid, NEW r \in Engine,
           eng' = [eng EXCEPT ![p] = r],
           flock' = IF r.at = "dead" /\ flock = p THEN NoPid ELSE flock,
           r.at = "dead" \/ (Past(r) <=> Past(eng[p])),
           r.at \in {"none", "spawned"} => r.vm = "none"
    PROVE  LockInv'
<1>1. eng' \in [Pid -> Engine] /\ eng'[p] = r /\ \A q \in Pid \ {p} : eng'[q] = eng[q]
  BY DEF LockInv, TypeOK
<1>2. p # NoPid /\ NoPid \notin Pid
  BY DEF Pid, NoPid
<1>3. \A q \in Pid : flock' = q <=> Past(eng'[q])
  <2> TAKE q \in Pid
  <2>1. CASE q = p /\ r.at = "dead"
    BY <1>1, <1>2, <2>1 DEF Past
  <2>2. CASE q = p /\ r.at # "dead"
    BY <1>1, <2>2 DEF LockInv
  <2>3. CASE q # p
    <3>1. eng'[q] = eng[q] /\ (flock = q <=> Past(eng[q]))
      BY <1>1, <2>3 DEF LockInv
    <3>2. flock' = q <=> flock = q
      BY <1>2, <2>3
    <3> QED BY <3>1, <3>2
  <2> QED BY <2>1, <2>2, <2>3
<1>4. \A q \in Pid : eng'[q].at \in {"none", "spawned"} => eng'[q].vm = "none"
  BY <1>1 DEF LockInv
<1>5. flock' \in Pid \union {NoPid}
  BY DEF LockInv, TypeOK
<1>6. flock' # NoPid => Alive(flock)'
  BY <1>2, <1>3, <1>5 DEF Alive, Past
<1> QED BY <1>1, <1>3, <1>4, <1>5, <1>6 DEF LockInv, TypeOK, RestTyped

\* No engine changes.
LEMMA NoEngineChange ==
    ASSUME LockInv, RestTyped', UNCHANGED <<eng, flock>>
    PROVE  LockInv'
BY DEF LockInv, TypeOK, RestTyped, Alive

\* The handlers go through Becomes.
LEMMA BecomesStep ==
    ASSUME LockInv, NEW p \in Pid, NEW r \in Engine, Becomes(p, r),
           (pidFile \in Pid \union {NoPid} /\ stopFile \in BOOLEAN)',
           (meta \in [pid : Pid \union {NoPid}, failed : BOOLEAN])',
           UNCHANGED <<log, kills, aborts>>,
           (cmd \in [pc : CmdPc, pid : Pid \union {NoPid}, restart : BOOLEAN])',
           (cmd.pc \in Named => cmd.pid \in Pid)',
           r.at = "dead" \/ (Past(r) <=> Past(eng[p])),
           r.at \in {"none", "spawned"} => r.vm = "none"
    PROVE  LockInv'
<1>1. RestTyped
  BY LockInvRest
<1>2. sock' \in Pid \union {NoPid}
  BY <1>1 DEF Becomes, RestTyped
<1>3. RestTyped'
  BY <1>1, <1>2 DEF RestTyped
<1> QED BY <1>3, EngineChange DEF Becomes

\* recordRuntimeFailure keeps the metadata's type.
LEMMA FailureFact ==
    ASSUME RestTyped, UNCHANGED meta \/ Failure
    PROVE  (meta \in [pid : Pid \union {NoPid}, failed : BOOLEAN])'
BY DEF RestTyped, Failure

\* A handler of an engine that is past its lock, and keeps it or ends.
LEMMA HandlerStep ==
    ASSUME LockInv, NEW p \in Pid, NEW r \in Engine, Past(eng[p]), Past(r) \/ r.at = "dead",
           Becomes(p, r), UNCHANGED meta \/ Failure,
           stopFile' \in {stopFile, FALSE}, UNCHANGED <<pidFile, log, cmd, kills, aborts>>
    PROVE  LockInv'
<1>1. RestTyped
  BY LockInvRest
<1>2. (meta \in [pid : Pid \union {NoPid}, failed : BOOLEAN])'
  BY <1>1, FailureFact
<1>3. r.at \notin {"none", "spawned"}
  BY DEF Past
<1> QED BY <1>1, <1>2, <1>3, BecomesStep DEF RestTyped

\* The engine's own steps that go through Becomes (main.swift, VMManager).
LEMMA HandlersKeepInv ==
    ASSUME LockInv, NEW p \in Pid,
           \/ BuildVM(p) \/ Listen(p) \/ EnterRunLoop(p)
           \/ SignalEvent(p) \/ StopPoll(p) \/ BootTimeout(p) \/ ReadyPollFailed(p)
           \/ UnexpectedStop(p) \/ StopConfirmed(p) \/ StopUnconfirmed(p)
           \/ Machine(p)
    PROVE  LockInv'
<1>1. eng[p] \in Engine
  BY DEF LockInv, TypeOK
<1>2. \A e \in Engine : \A c : Exited(e, c) \in Engine /\ Exited(e, c).at = "dead"
  BY ExitedFact
<1>3. \A e \in Engine : \A c \in {0, 6} :
         e.at = "up" => Shut(e, c) \in Engine /\ Shut(e, c).at \in {"up", "dead"}
  BY ShutFact
<1>4. ASSUME BuildVM(p) PROVE LockInv'
  <2>1. Past(eng[p]) /\ UNCHANGED <<files, log, cmd, kills, aborts>>
    BY <1>4 DEF BuildVM, Past
  <2>2. CASE Becomes(p, [eng[p] EXCEPT !.at = "deaf"])
    <3>1. [eng[p] EXCEPT !.at = "deaf"] \in Engine /\ Past([eng[p] EXCEPT !.at = "deaf"])
      BY <1>1 DEF Engine, At, Past
    <3> QED BY <2>1, <2>2, <3>1, HandlerStep DEF files
  <2>3. CASE Becomes(p, Exited(eng[p], 5))
    BY <1>1, <1>2, <2>1, <2>3, HandlerStep DEF files
  <2> QED BY <1>4, <2>2, <2>3 DEF BuildVM
<1>5. ASSUME Listen(p) PROVE LockInv'
  <2>1. [eng[p] EXCEPT !.at = "armed"] \in Engine /\ Past([eng[p] EXCEPT !.at = "armed"])
    BY <1>1 DEF Engine, At, Past
  <2>2. Past(eng[p])
    BY <1>5 DEF Listen, Past
  <2> QED BY <1>5, <2>1, <2>2, HandlerStep DEF Listen, files
<1>6. ASSUME EnterRunLoop(p) PROVE LockInv'
  <2> DEFINE r == [eng[p] EXCEPT !.at = "up", !.vm = "starting"]
  <2>1. r \in Engine /\ Past(r)
    BY <1>1 DEF Engine, At, Vm, Past
  <2>2. Past(eng[p])
    BY <1>6 DEF EnterRunLoop, Past
  <2> QED BY <1>6, <2>1, <2>2, HandlerStep DEF EnterRunLoop
<1>7. ASSUME SignalEvent(p) PROVE LockInv'
  <2> DEFINE s == Shut(eng[p], 0)
  <2>1. s \in Engine /\ s.at \in {"up", "dead"} /\ Past(eng[p])
    BY <1>1, <1>3, <1>7 DEF SignalEvent, Past
  <2> HIDE DEF s
  <2>2. [s EXCEPT !.term = FALSE] \in Engine /\ [s EXCEPT !.term = FALSE].at = s.at
    BY <2>1 DEF Engine
  <2>3. Becomes(p, [s EXCEPT !.term = FALSE]) /\ UNCHANGED <<files, log, cmd, kills, aborts>>
    BY <1>7 DEF SignalEvent, s
  <2> QED BY <2>1, <2>2, <2>3, HandlerStep DEF Past, files
<1>8. ASSUME StopPoll(p) PROVE LockInv'
  <2> DEFINE s == Shut(eng[p], 0)
             x == ~eng[p].down /\ ~eng[p].asked /\ pidFile = p
             r == [s EXCEPT !.stray = @ \/ x]
  <2>1. s \in Engine /\ s.at \in {"up", "dead"} /\ Past(eng[p])
    BY <1>1, <1>3, <1>8 DEF StopPoll, Past
  <2>2. Becomes(p, r) /\ stopFile' = FALSE /\ UNCHANGED <<pidFile, meta, log, cmd, kills, aborts>>
    BY <1>8 DEF StopPoll
  <2> HIDE DEF s, x
  <2>3. r \in Engine /\ r.at = s.at
    BY <2>1 DEF Engine
  <2> QED BY <2>1, <2>2, <2>3, HandlerStep DEF Past
<1>9. ASSUME BootTimeout(p) PROVE LockInv'
  <2> DEFINE b == [eng[p] EXCEPT !.polled = TRUE]
  <2>1. b \in Engine /\ b.at = "up" /\ Past(eng[p])
    BY <1>1, <1>9 DEF BootTimeout, Engine, Past
  <2>2. Becomes(p, Shut(b, 6)) /\ UNCHANGED <<files, log, cmd, kills, aborts>>
    BY <1>9 DEF BootTimeout
  <2> HIDE DEF b
  <2> QED BY <1>3, <2>1, <2>2, HandlerStep DEF Past, files
<1>10. ASSUME ReadyPollFailed(p) PROVE LockInv'
  <2> DEFINE b == [eng[p] EXCEPT !.polled = TRUE]
  <2>1. b \in Engine /\ b.at = "up" /\ Past(eng[p])
    BY <1>1, <1>10 DEF ReadyPollFailed, Engine, Past
  <2>2. Becomes(p, Shut(b, 0)) /\ Failure /\ UNCHANGED <<pidFile, stopFile, log, cmd, kills, aborts>>
    BY <1>10 DEF ReadyPollFailed
  <2> HIDE DEF b
  <2> QED BY <1>3, <2>1, <2>2, HandlerStep DEF Past
<1>11. ASSUME UnexpectedStop(p) PROVE LockInv'
  <2> DEFINE b == [eng[p] EXCEPT !.lost = FALSE]
  <2>1. b \in Engine /\ b.at = "up" /\ Past(eng[p]) /\ Past(b)
    BY <1>1, <1>11 DEF UnexpectedStop, Engine, Past
  <2>2. UNCHANGED <<pidFile, stopFile, log, cmd, kills, aborts>>
    BY <1>11 DEF UnexpectedStop
  <2>3. ASSUME Becomes(p, b), UNCHANGED meta PROVE LockInv'
    BY <2>1, <2>2, <2>3, HandlerStep
  <2>4. ASSUME Becomes(p, Exited(b, 9)), Failure PROVE LockInv'
    BY <1>1, <1>2, <2>1, <2>2, <2>4, HandlerStep
  <2> QED BY <1>11, <2>3, <2>4 DEF UnexpectedStop
<1>12. ASSUME StopConfirmed(p) PROVE LockInv'
  <2> DEFINE b == [eng[p] EXCEPT !.vm = "stopped"]
  <2>1. b \in Engine /\ Past(eng[p])
    BY <1>1, <1>12 DEF StopConfirmed, Engine, Past, Vm
  <2>2. Becomes(p, Exited(b, eng[p].code)) /\ UNCHANGED <<files, log, cmd, kills, aborts>>
    BY <1>12 DEF StopConfirmed
  <2> HIDE DEF b
  <2> QED BY <1>2, <2>1, <2>2, HandlerStep DEF files
<1>13. ASSUME StopUnconfirmed(p) PROVE LockInv'
  <2>1. Past(eng[p])
    BY <1>13 DEF StopUnconfirmed, Past
  <2> QED BY <1>1, <1>2, <1>13, <2>1, HandlerStep DEF StopUnconfirmed, files
<1>14. ASSUME VmStarts(p) PROVE LockInv'
  <2> DEFINE b == [eng[p] EXCEPT !.vm = "running"]
  <2>1. b \in Engine /\ Past(b) /\ Past(eng[p])
    BY <1>1, <1>14 DEF VmStarts, Engine, Past, Vm
  <2>2. UNCHANGED <<pidFile, stopFile, log, cmd, kills, aborts>>
    BY <1>14 DEF VmStarts
  <2>3. ASSUME Becomes(p, b), UNCHANGED meta PROVE LockInv'
    BY <2>1, <2>2, <2>3, HandlerStep
  <2>4. ASSUME Becomes(p, Exited(eng[p], 7)), Failure PROVE LockInv'
    BY <1>1, <1>2, <2>1, <2>2, <2>4, HandlerStep
  <2> QED BY <1>14, <2>3, <2>4 DEF VmStarts
<1>15. ASSUME VmStops(p) PROVE LockInv'
  <2>1. PICK v \in {"stopped", "error"} : Becomes(p, [eng[p] EXCEPT !.vm = v, !.lost = ~eng[p].down])
    BY <1>15 DEF VmStops
  <2> DEFINE b == [eng[p] EXCEPT !.vm = v, !.lost = ~eng[p].down]
  <2>2. Past(eng[p]) /\ v \in Vm
    BY <1>15 DEF VmStops, Past, Vm
  <2>3. b \in Engine /\ b.at = eng[p].at
    BY <1>1, <2>2 DEF Engine
  <2> HIDE DEF b
  <2>4. Becomes(p, b) /\ UNCHANGED <<files, log, cmd, kills, aborts>>
    BY <1>15, <2>1 DEF VmStops, b
  <2> QED BY <2>2, <2>3, <2>4, HandlerStep DEF Past, files
<1>16. ASSUME NEW w \in {"ready", "failed"}, GuestSays(p, w) PROVE LockInv'
  <2>1. [eng[p] EXCEPT !.serial = w] \in Engine /\ Past([eng[p] EXCEPT !.serial = w]) /\ Past(eng[p])
    BY <1>1, <1>16 DEF GuestSays, Engine, Past, Serial
  <2> QED BY <1>16, <2>1, HandlerStep DEF GuestSays, files
<1> QED
  BY <1>4, <1>5, <1>6, <1>7, <1>8, <1>9, <1>10, <1>11, <1>12, <1>13, <1>14, <1>15, <1>16 DEF Machine

\* The lock is taken only when nobody holds it.
LEMMA TakeLockKeepsInv ==
    ASSUME LockInv, NEW p \in Pid, TakeLock(p)
    PROVE  LockInv'
<1>1. eng[p] \in Engine /\ eng \in [Pid -> Engine] /\ RestTyped /\ ~Past(eng[p])
  BY LockInvRest DEF LockInv, TypeOK, TakeLock, Past
<1>2. p # NoPid /\ NoPid \notin Pid
  BY DEF Pid, NoPid
<1>3. ASSUME ~LockHeld(FALSE), eng' = [eng EXCEPT ![p].at = "setup"], flock' = p, UNCHANGED log
      PROVE  LockInv'
  <2>1. eng' = [eng EXCEPT ![p] = [eng[p] EXCEPT !.at = "setup"]]
    BY <1>1, <1>3
  <2> DEFINE r == [eng[p] EXCEPT !.at = "setup"]
  <2>2. r \in Engine /\ r.at = "setup"
    BY <1>1 DEF Engine, At
  <2> HIDE DEF r
  <2>3. eng' \in [Pid -> Engine] /\ eng'[p] = r /\ \A q \in Pid \ {p} : eng'[q] = eng[q]
    BY <1>1, <2>1, <2>2 DEF r
  <2>4. \A q \in Pid : ~Past(eng[q])
    BY <1>2, <1>3 DEF LockInv, LockHeld
  <2>5. \A q \in Pid : flock' = q <=> Past(eng'[q])
    BY <1>3, <2>2, <2>3, <2>4 DEF Past
  <2>6. \A q \in Pid : eng'[q].at \in {"none", "spawned"} => eng'[q].vm = "none"
    BY <2>2, <2>3 DEF LockInv
  <2>7. flock' \in Pid /\ Alive(flock)'
    BY <1>2, <1>3, <2>2, <2>3 DEF Alive
  <2>8. RestTyped'
    BY <1>1, <1>3 DEF TakeLock, RestTyped, files
  <2> QED BY <2>3, <2>5, <2>6, <2>7, <2>8 DEF LockInv, TypeOK, RestTyped
<1>4. ASSUME eng' = [eng EXCEPT ![p] = Exited(@, 10)], Says(p, "ALREADY_RUNNING"), UNCHANGED flock
      PROVE  LockInv'
  <2>1. Exited(eng[p], 10) \in Engine /\ Exited(eng[p], 10).at = "dead"
    BY <1>1, ExitedFact
  <2>2. eng' = [eng EXCEPT ![p] = Exited(eng[p], 10)]
    BY <1>4
  <2>3. flock # p
    BY <1>1 DEF LockInv
  <2>4. RestTyped'
    BY <1>1, <1>4 DEF TakeLock, RestTyped, files, Says
  <2> QED BY <1>4, <2>1, <2>2, <2>3, <2>4, EngineChange
<1> QED BY <1>3, <1>4 DEF TakeLock

\* Readiness starts the bridges or shuts the engine down.
LEMMA ReadyPollKeepsInv ==
    ASSUME LockInv, NEW p \in Pid, ReadyPoll(p)
    PROVE  LockInv'
<1> DEFINE ready == [eng[p] EXCEPT !.polled = TRUE]
           good == [ready EXCEPT !.bridges = TRUE]
           fail == Shut(ready, 0)
<1>1. eng[p] \in Engine /\ RestTyped /\ eng[p].at = "up"
  BY LockInvRest DEF LockInv, TypeOK, ReadyPoll
<1>2. ready \in Engine /\ ready.at = "up" /\ good \in Engine /\ good.at = "up"
  BY <1>1 DEF Engine
<1>3. fail \in Engine /\ fail.at \in {"up", "dead"}
  BY <1>2, ShutFact
<1>4. flock = p /\ UNCHANGED <<pidFile, stopFile, cmd, kills, aborts>>
  BY <1>1 DEF LockInv, Past, ReadyPoll
<1> HIDE DEF ready
<1>5. ASSUME eng' = [eng EXCEPT ![p] = good], sock' = p, Says(p, "RUNNING"), UNCHANGED <<flock, meta>>
      PROVE  LockInv'
  <2>1. RestTyped'
    BY <1>1, <1>4, <1>5 DEF RestTyped, Says
  <2> HIDE DEF good
  <2> QED BY <1>1, <1>2, <1>5, <2>1, EngineChange DEF Past
<1>6. ASSUME eng' = [eng EXCEPT ![p] = fail], flock' = IF fail.at = "dead" THEN NoPid ELSE flock,
             sock' \in {sock, NoPid, p}, UNCHANGED meta \/ Failure,
             UNCHANGED log \/ Says(p, "ALREADY_RUNNING")
      PROVE  LockInv'
  <2>1. (meta \in [pid : Pid \union {NoPid}, failed : BOOLEAN])'
    BY <1>1, <1>6, FailureFact
  <2>2. (log \in [of : Pid \union {NoPid}, marks : SUBSET {"RUNNING", "ALREADY_RUNNING"}])'
    BY <1>1, <1>6 DEF RestTyped, Says
  <2>3. RestTyped'
    BY <1>1, <1>4, <1>6, <2>1, <2>2 DEF RestTyped
  <2> HIDE DEF fail
  <2> QED BY <1>1, <1>3, <1>4, <1>6, <2>3, EngineChange DEF Past
<1> QED BY <1>5, <1>6 DEF ReadyPoll, BridgesFail, ready

\* A killed engine gives its lock back; a new one has neither lock nor machine.
LEMMA OutsideKeepsInv ==
    ASSUME LockInv, NEW p \in Pid, Killed(p) \/ Foreground(p) \/ Spawn(p)
    PROVE  LockInv'
<1>1. eng[p] \in Engine /\ RestTyped /\ eng \in [Pid -> Engine]
  BY LockInvRest DEF LockInv, TypeOK
<1>2. ASSUME Killed(p) PROVE LockInv'
  <2>1. Exited(eng[p], 9) \in Engine /\ Exited(eng[p], 9).at = "dead"
    BY <1>1, ExitedFact
  <2>2. eng' = [eng EXCEPT ![p] = Exited(eng[p], 9)]
    BY <1>2 DEF Killed
  <2>3. kills' \in 0..MaxFault
    BY <1>1, <1>2, RuntimeAssumption DEF Killed, RestTyped
  <2>4. RestTyped'
    BY <1>1, <1>2, <2>3 DEF Killed, RestTyped, files
  <2> QED BY <1>2, <2>1, <2>2, <2>4, EngineChange DEF Killed
<1>3. ASSUME Foreground(p) PROVE LockInv'
  <2> DEFINE r == [eng[p] EXCEPT !.at = "spawned", !.fg = TRUE]
  <2>1. r \in Engine /\ r.at = "spawned" /\ r.vm = eng[p].vm
    BY <1>1 DEF Engine, At
  <2>2. eng' = [eng EXCEPT ![p] = r] /\ eng[p].at = "none"
    BY <1>1, <1>3 DEF Foreground, NextPid
  <2>3. RestTyped'
    BY <1>1, <1>3 DEF Foreground, RestTyped, files, Same
  <2>4. eng[p].vm = "none" /\ UNCHANGED flock
    BY <1>3, <2>2 DEF LockInv, Foreground
  <2> HIDE DEF r
  <2> QED BY <2>1, <2>2, <2>3, <2>4, EngineChange DEF Past
<1>4. ASSUME Spawn(p) PROVE LockInv'
  <2> DEFINE r == [eng[p] EXCEPT !.at = "spawned"]
  <2>1. r \in Engine /\ r.at = "spawned" /\ r.vm = eng[p].vm
    BY <1>1 DEF Engine, At
  <2>2. eng' = [eng EXCEPT ![p] = r] /\ eng[p].at = "none"
    BY <1>1, <1>4 DEF Spawn, NextPid
  <2>3. cmd' \in [pc : CmdPc, pid : Pid \union {NoPid}, restart : BOOLEAN] /\ cmd'.pid \in Pid
    BY <1>1, <1>4 DEF Spawn, RestTyped, CmdPc
  <2>4. RestTyped'
    BY <1>1, <1>4, <2>3 DEF Spawn, RestTyped, files, Same
  <2>5. eng[p].vm = "none" /\ UNCHANGED flock
    BY <1>4, <2>2 DEF LockInv, Spawn
  <2> HIDE DEF r
  <2> QED BY <2>1, <2>2, <2>4, <2>5, EngineChange DEF Past
<1> QED BY <1>2, <1>3, <1>4

\* What the pieces of a command write is well typed.
LEMMA CommandPieces ==
    ASSUME RestTyped
    PROVE  /\ NoCmd \in [pc : CmdPc, pid : Pid \union {NoPid}, restart : BOOLEAN]
           /\ NoCmd.pc \notin Named
           /\ NoMeta \in [pid : Pid \union {NoPid}, failed : BOOLEAN]
           /\ \A pc \in CmdPc :
                 LET c == [cmd EXCEPT !.pc = pc]
                 IN /\ c \in [pc : CmdPc, pid : Pid \union {NoPid}, restart : BOOLEAN]
                    /\ c.pc = pc /\ c.pid = cmd.pid
           /\ \A pc \in CmdPc : \A q \in Pid \union {NoPid} :
                 LET c == [cmd EXCEPT !.pc = pc, !.pid = q]
                 IN /\ c \in [pc : CmdPc, pid : Pid \union {NoPid}, restart : BOOLEAN]
                    /\ c.pc = pc /\ c.pid = q
BY DEF RestTyped, NoCmd, NoMeta, CmdPc, Named

\* The steps of a command that touch no engine.
LEMMA FilesKeepInv ==
    ASSUME LockInv,
           \/ Invoke("check", FALSE) \/ Invoke("stop", FALSE) \/ Invoke("stop", TRUE)
           \/ StartCheck \/ StartRefused \/ WriteJson \/ WritePid \/ StartFailed
           \/ StartSucceeded \/ StartExpired \/ StopCheck \/ StopFile \/ StopWait \/ StopClean
           \/ Abort
    PROVE  LockInv'
<1>1. RestTyped
  BY LockInvRest
<1> DEFINE CmdTyped(c) == /\ c \in [pc : CmdPc, pid : Pid \union {NoPid}, restart : BOOLEAN]
                          /\ c.pc \in Named => c.pid \in Pid
           FilesTyped == /\ pidFile' \in Pid \union {NoPid} /\ stopFile' \in BOOLEAN
                         /\ meta' \in [pid : Pid \union {NoPid}, failed : BOOLEAN]
<1>2. CmdTyped(NoCmd)
  BY <1>1, CommandPieces
<1>3. \A pc \in CmdPc : pc \notin Named => CmdTyped([cmd EXCEPT !.pc = pc])
  BY <1>1, CommandPieces
<1>4. \A pc \in Named \intersect CmdPc : cmd.pid \in Pid => CmdTyped([cmd EXCEPT !.pc = pc])
  BY <1>1, CommandPieces
<1>5. CmdTyped([cmd EXCEPT !.pc = "check", !.pid = NoPid])
  BY <1>1 DEF RestTyped, CmdPc, Named
<1>6. \A q \in Pid : CmdTyped([cmd EXCEPT !.pc = "kill", !.pid = q])
  BY <1>1 DEF RestTyped, CmdPc, Named
<1>7. Stopped => CmdTyped(cmd')
  BY <1>2, <1>5 DEF Stopped
<1>8. UNCHANGED files \/ (Forget /\ stopFile' \in BOOLEAN) => FilesTyped
  BY <1>1, CommandPieces DEF RestTyped, files, Forget
<1>9. ASSUME CmdTyped(cmd'), FilesTyped, UNCHANGED <<eng, flock, sock, log, kills>>,
             aborts' \in 0..MaxFault
      PROVE  LockInv'
  <2>1. RestTyped'
    BY <1>1, <1>9 DEF RestTyped
  <2> QED BY <1>9, <2>1, NoEngineChange
<1>10. stopFile \in BOOLEAN /\ aborts \in 0..MaxFault
  BY <1>1 DEF RestTyped
<1>11. cmd.pc \in Named => cmd.pid \in Pid
  BY <1>1 DEF RestTyped
<1>20. ASSUME NEW pc \in {"check", "stop"}, NEW b \in BOOLEAN, Invoke(pc, b) PROVE LockInv'
  <2>1. CmdTyped(cmd')
    BY <1>20 DEF Invoke, CmdPc, Named
  <2> HIDE DEF CmdTyped, FilesTyped
  <2> QED BY <1>8, <1>9, <1>10, <1>20, <2>1 DEF Invoke, Same
<1>21. ASSUME StartCheck PROVE LockInv'
  <2>1. CmdTyped(cmd')
    BY <1>2, <1>3, <1>21 DEF StartCheck, End, GoOn, CmdPc, Named
  <2>2. FilesTyped
    BY <1>8, <1>10, <1>21 DEF StartCheck
  <2> HIDE DEF CmdTyped, FilesTyped
  <2> QED BY <1>9, <1>10, <1>21, <2>1, <2>2 DEF StartCheck, Same
<1>22. ASSUME StartRefused PROVE LockInv'
  <2> HIDE DEF CmdTyped, FilesTyped
  <2> QED BY <1>2, <1>8, <1>9, <1>10, <1>22 DEF StartRefused, End, Same
<1>23. ASSUME WriteJson PROVE LockInv'
  <2>1. cmd.pid \in Pid
    BY <1>11, <1>23 DEF WriteJson, Named
  <2>2. CmdTyped(cmd')
    BY <1>4, <1>23, <2>1 DEF WriteJson, GoOn, CmdPc, Named
  <2>3. FilesTyped
    BY <1>1, <1>23, <2>1 DEF WriteJson, RestTyped
  <2> HIDE DEF CmdTyped, FilesTyped
  <2> QED BY <1>9, <1>10, <1>23, <2>2, <2>3 DEF WriteJson, Same
<1>24. ASSUME WritePid PROVE LockInv'
  <2>1. cmd.pid \in Pid
    BY <1>11, <1>24 DEF WritePid, Named
  <2>2. CmdTyped(cmd')
    BY <1>4, <1>24, <2>1 DEF WritePid, GoOn, CmdPc, Named
  <2>3. FilesTyped
    BY <1>1, <1>24, <2>1 DEF WritePid, RestTyped
  <2> HIDE DEF CmdTyped, FilesTyped
  <2> QED BY <1>9, <1>10, <1>24, <2>2, <2>3 DEF WritePid, Same
<1>25. ASSUME StartFailed PROVE LockInv'
  <2>1. FilesTyped
    BY <1>1, <1>25, CommandPieces DEF StartFailed, RestTyped
  <2> HIDE DEF CmdTyped, FilesTyped
  <2> QED BY <1>2, <1>9, <1>10, <1>25, <2>1 DEF StartFailed, End, Same
<1>26. ASSUME StartSucceeded PROVE LockInv'
  <2> HIDE DEF CmdTyped, FilesTyped
  <2> QED BY <1>2, <1>8, <1>9, <1>10, <1>26 DEF StartSucceeded, End, Same
<1>27. ASSUME StartExpired PROVE LockInv'
  <2>1. FilesTyped
    BY <1>8, <1>10, <1>27 DEF StartExpired
  <2> HIDE DEF CmdTyped, FilesTyped
  <2> QED BY <1>2, <1>9, <1>10, <1>27, <2>1 DEF StartExpired, End, Same
<1>28. ASSUME StopCheck PROVE LockInv'
  <2>1. Alive(pidFile) => pidFile \in Pid
    BY <1>1 DEF RestTyped, Alive
  <2>2. CmdTyped(cmd')
    BY <1>2, <1>6, <1>7, <1>28, <2>1 DEF StopCheck, End
  <2>3. FilesTyped
    BY <1>8, <1>10, <1>28 DEF StopCheck
  <2> HIDE DEF CmdTyped, FilesTyped
  <2> QED BY <1>9, <1>10, <1>28, <2>2, <2>3 DEF StopCheck, Same
<1>29. ASSUME StopFile PROVE LockInv'
  <2>1. CmdTyped(cmd')
    BY <1>4, <1>11, <1>29 DEF StopFile, GoOn, CmdPc, Named
  <2>2. FilesTyped
    BY <1>1, <1>29 DEF StopFile, RestTyped
  <2> HIDE DEF CmdTyped, FilesTyped
  <2> QED BY <1>9, <1>10, <1>29, <2>1, <2>2 DEF StopFile, Same
<1>30. ASSUME StopWait PROVE LockInv'
  <2>1. CmdTyped(cmd')
    BY <1>2, <1>4, <1>11, <1>30 DEF StopWait, End, GoOn, CmdPc, Named
  <2> HIDE DEF CmdTyped, FilesTyped
  <2> QED BY <1>8, <1>9, <1>10, <1>30, <2>1 DEF StopWait, Same
<1>31. ASSUME StopClean PROVE LockInv'
  <2> HIDE DEF CmdTyped, FilesTyped
  <2> QED BY <1>7, <1>8, <1>9, <1>10, <1>31 DEF StopClean, Same
<1>32. ASSUME Abort PROVE LockInv'
  <2>1. aborts' \in 0..MaxFault
    BY <1>1, <1>32, RuntimeAssumption DEF Abort, RestTyped
  <2> HIDE DEF CmdTyped, FilesTyped
  <2> QED BY <1>2, <1>8, <1>9, <1>32, <2>1 DEF Abort, End
<1> QED
  BY <1>20, <1>21, <1>22, <1>23, <1>24, <1>25, <1>26, <1>27, <1>28, <1>29, <1>30, <1>31, <1>32

\* The steps of a command that signal an engine.
LEMMA SignalsKeepInv ==
    ASSUME LockInv, StartSuperseded \/ StartTimeout \/ StopSignal
    PROVE  LockInv'
<1> DEFINE p == cmd.pid
           e == Terminated(eng[p])
<1>1. RestTyped /\ p \in Pid
  BY LockInvRest DEF RestTyped, Named, StartSuperseded, StartTimeout, StopSignal
<1>2. eng[p] \in Engine
  BY <1>1 DEF LockInv, TypeOK
<1>3. /\ e \in Engine /\ (e.at = eng[p].at \/ e.at = "dead")
      /\ e.at \in {"none", "spawned"} => e.vm = eng[p].vm
  BY <1>2, TerminatedFact
<1>4. e.at \in {"none", "spawned"} => e.vm = "none"
  BY <1>1, <1>3 DEF LockInv
<1> HIDE DEF p, e
<1>5. e.at = "dead" \/ (Past(e) <=> Past(eng[p]))
  BY <1>3 DEF Past
<1>6. ASSUME StartSuperseded PROVE LockInv'
  <2>1. cmd' = NoCmd /\ Forget /\ Becomes(p, e) /\ UNCHANGED <<stopFile, log, kills, aborts>>
    BY <1>6 DEF StartSuperseded, End, p, e
  <2> QED BY <1>1, <1>3, <1>4, <1>5, <2>1, BecomesStep, CommandPieces DEF RestTyped, Forget
<1>7. ASSUME StartTimeout PROVE LockInv'
  <2>1. cmd' = [cmd EXCEPT !.pc = "expire"] /\ Becomes(p, e) /\ UNCHANGED <<files, log, kills, aborts>>
    BY <1>7 DEF StartTimeout, GoOn, p, e
  <2>2. cmd' \in [pc : CmdPc, pid : Pid \union {NoPid}, restart : BOOLEAN] /\ cmd'.pid \in Pid
    BY <1>1, <2>1, CommandPieces DEF CmdPc, p
  <2> QED BY <1>1, <1>3, <1>4, <1>5, <2>1, <2>2, BecomesStep DEF RestTyped, files
<1>8. ASSUME StopSignal PROVE LockInv'
  <2> DEFINE r == [e EXCEPT !.asked = e.at # "dead"]
  <2>1. /\ cmd' = [cmd EXCEPT !.pc = "file"] /\ Becomes(p, r)
        /\ UNCHANGED <<files, log, kills, aborts>>
    BY <1>8 DEF StopSignal, GoOn, p, e
  <2>2. cmd' \in [pc : CmdPc, pid : Pid \union {NoPid}, restart : BOOLEAN] /\ cmd'.pid \in Pid
    BY <1>1, <2>1, CommandPieces DEF CmdPc, p
  <2>3. r \in Engine /\ r.at = e.at /\ r.vm = e.vm
    BY <1>3 DEF Engine
  <2> HIDE DEF r
  <2> QED BY <1>1, <1>3, <1>4, <1>5, <2>1, <2>2, <2>3, BecomesStep DEF RestTyped, files, Past
<1> QED BY <1>6, <1>7, <1>8

-----------------------------------------------------------------------------
(* Theorems *)

\* The invariant holds at the start and every step keeps it: a process past
\* harpoon.lock (main.swift) is the one that holds it.
THEOREM LockIsHeld == Spec => []LockInv
<1>1. Init => LockInv
  <2> SUFFICES ASSUME Init PROVE LockInv
    OBVIOUS
  <2>1. NewEngine \in Engine /\ NewEngine.at = "none" /\ NewEngine.vm = "none"
    BY DEF NewEngine, Engine, At, Vm, Serial
  <2>2. eng \in [Pid -> Engine] /\ \A p \in Pid : eng[p].at = "none" /\ eng[p].vm = "none"
    BY <2>1 DEF Init
  <2>3. NoPid \notin Pid
    BY DEF Pid, NoPid
  <2>4. \A p \in Pid : flock = p <=> Past(eng[p])
    BY <2>2, <2>3 DEF Init, Past
  <2>5. NoCmd \in [pc : CmdPc, pid : Pid \union {NoPid}, restart : BOOLEAN] /\ NoCmd.pc = "none"
    BY DEF NoCmd, CmdPc
  <2>6. NoMeta \in [pid : Pid \union {NoPid}, failed : BOOLEAN]
    BY DEF NoMeta
  <2>7. kills \in 0..MaxFault /\ aborts \in 0..MaxFault
    BY RuntimeAssumption DEF Init
  <2>8. log \in [of : Pid \union {NoPid}, marks : SUBSET {"RUNNING", "ALREADY_RUNNING"}]
    BY DEF Init
  <2>9. TypeOK
    BY <2>2, <2>5, <2>6, <2>7, <2>8 DEF Init, TypeOK
  <2> QED BY <2>2, <2>4, <2>5, <2>9 DEF Init, LockInv, Named
<1>2. LockInv /\ [Next]_vars => LockInv'
  <2> SUFFICES ASSUME LockInv, [Next]_vars PROVE LockInv'
    OBVIOUS
  <2>1. CASE UNCHANGED vars
    <3>1. RestTyped'
      BY <2>1, LockInvRest DEF vars, files, RestTyped
    <3> QED BY <2>1, <3>1, NoEngineChange DEF vars
  <2>2. ASSUME NEW p \in Pid, MainQueue(p) \/ Machine(p) \/ Killed(p) \/ Foreground(p) PROVE LockInv'
    BY <2>2, HandlersKeepInv, TakeLockKeepsInv, ReadyPollKeepsInv, OutsideKeepsInv DEF MainQueue
  <2>3. ASSUME Invoke("check", FALSE) \/ Invoke("stop", FALSE) \/ Invoke("stop", TRUE) \/ Abort
        PROVE  LockInv'
    BY <2>3, FilesKeepInv
  <2>4. ASSUME CommandStep PROVE LockInv'
    BY <2>4, FilesKeepInv, SignalsKeepInv, OutsideKeepsInv DEF CommandStep
  <2> QED BY <2>1, <2>2, <2>3, <2>4 DEF Next
<1> QED BY <1>1, <1>2, PTL DEF Spec

\* The runtime's state is well typed, and harpoon.lock is held by a process
\* that lives.
THEOREM RuntimeTyped == Spec => []TypeOK
<1>1. LockInv => TypeOK
  BY DEF LockInv
<1> QED BY <1>1, LockIsHeld, PTL

\* One virtual machine at a time has the disk, however many engines are
\* started by commands or in the foreground, killed or interrupted (the lock
\* main.swift takes before it builds the machine).
THEOREM OneMachineAtATime == Spec => []OneMachine
<1>1. LockInv => OneMachine
  <2> SUFFICES ASSUME LockInv, NEW p \in Pid, NEW q \in Pid, HasMachine(p), HasMachine(q)
               PROVE  p = q
    BY DEF OneMachine
  <2>1. ASSUME NEW x \in Pid, HasMachine(x) PROVE flock = x
    <3>1. eng[x] \in Engine /\ (flock = x <=> Past(eng[x]))
      BY DEF LockInv, TypeOK
    <3>2. eng[x].at \in At /\ eng[x].at \notin {"none", "spawned", "dead"}
      BY <2>1, <3>1 DEF LockInv, HasMachine, Alive, Engine
    <3> QED BY <3>1, <3>2 DEF Past, At
  <2> QED BY <2>1
<1> QED BY <1>1, LockIsHeld, PTL

-----------------------------------------------------------------------------
(* The end of an engine *)

\* What an engine's record says of its end: no stop was taken for its own, and
\* a clean exit is one with the virtual machine stopped.
CleanRight(e) == ~e.stray /\ (e.clean => e.at = "dead" /\ e.vm = "stopped")

\* The stop file, while it exists, is of a stop that the engine runtime.pid
\* names was asked for: it is written by the command that has signalled that
\* engine, and whoever comes up later removes it first.
StopRight ==
    /\ cmd.pc \in {"json", "pid"} /\ eng[cmd.pid].at = "up" => ~stopFile
    /\ pidFile # NoPid /\ eng[pidFile].at = "up" /\ stopFile => eng[pidFile].asked
    /\ cmd.pc \in {"kill", "file"} => cmd.pid = pidFile /\ eng[cmd.pid].at # "none"
    /\ cmd.pc = "file" /\ eng[cmd.pid].at # "dead" => eng[cmd.pid].asked

EndInv == StopRight /\ \A p \in Pid : CleanRight(eng[p])

\* How an engine's record may go on, except when it enters its run loop.
Follows(e, r) ==
    /\ CleanRight(r)
    /\ e.at # "none" => r.at # "none"
    /\ r.at # "dead" => e.at # "dead" /\ (e.asked => r.asked)
    /\ r.at = "up" => e.at = "up"

\* exit in main.swift: what a record keeps of the one that ended.
LEMMA ExitedKeeps ==
    ASSUME NEW e \in Engine, NEW code, code # 0 \/ e.vm = "stopped", CleanRight(e)
    PROVE  CleanRight(Exited(e, code)) /\ Exited(e, code).at = "dead"
<1>1. PICK c \in BOOLEAN : c = (code = 0)
  OBVIOUS
<1>2. e.fg \in BOOLEAN /\ e.vm \in Vm /\ e.stray \in BOOLEAN
  BY DEF Engine
<1>3. NewEngine \in Engine
  BY DEF NewEngine, Engine, At, Vm, Serial
<1> DEFINE d == [NewEngine EXCEPT !.at = "dead", !.fg = e.fg, !.vm = e.vm, !.stray = e.stray,
                                  !.clean = c]
<1>4. d.at = "dead" /\ d.vm = e.vm /\ d.stray = e.stray /\ d.clean = c
  BY <1>2, <1>3 DEF Engine
<1>5. Exited(e, code) = d
  BY <1>1 DEF Exited
<1> HIDE DEF d
<1> QED BY <1>1, <1>4, <1>5 DEF CleanRight

\* The engine that ends follows the one that runs.
LEMMA ExitedFollows ==
    ASSUME NEW e \in Engine, NEW code, code # 0 \/ e.vm = "stopped", CleanRight(e)
    PROVE  Follows(e, Exited(e, code))
BY ExitedKeeps DEF Follows

LEMMA FollowsTwice ==
    ASSUME NEW e, NEW f, NEW g, Follows(e, f), Follows(f, g)
    PROVE  Follows(e, g)
BY DEF Follows

LEMMA FollowsItself ==
    ASSUME NEW e, CleanRight(e)
    PROVE  Follows(e, e)
BY DEF Follows

\* initiateShutdown: only a machine that has stopped lets the process exit
\* with 0.
LEMMA ShutFollows ==
    ASSUME NEW e \in Engine, e.at = "up", NEW code \in {0, 6}, CleanRight(e)
    PROVE  Follows(e, Shut(e, code))
<1> DEFINE s == [e EXCEPT !.down = TRUE, !.bridges = FALSE, !.code = code]
           t == [s EXCEPT !.vm = "stopping"]
<1>1. /\ s \in Engine /\ s.at = "up" /\ s.vm = e.vm /\ s.stray = e.stray
      /\ s.clean = e.clean /\ s.asked = e.asked
  BY DEF Engine
<1>2. CleanRight(s) /\ ~e.clean /\ Follows(e, s)
  BY <1>1 DEF CleanRight, Follows
<1>4. Shut(e, code) = IF e.down THEN e
        ELSE CASE s.vm = "running" -> t
               [] s.vm = "stopped" -> Exited(s, code)
               [] OTHER -> Exited(s, IF code = 0 THEN 8 ELSE code)
  BY DEF Shut
<1>3. t.at = "up" /\ t.stray = s.stray /\ t.clean = s.clean /\ t.asked = s.asked
  BY <1>1 DEF Engine
<1> HIDE DEF s, t
<1>5. CASE e.down
  BY <1>4, <1>5, FollowsItself
<1>6. CASE ~e.down /\ s.vm = "running"
  <2>1. Shut(e, code) = t
    BY <1>4, <1>6
  <2> QED BY <1>1, <1>2, <1>3, <2>1 DEF CleanRight, Follows
<1>7. CASE ~e.down /\ s.vm = "stopped"
  <2>1. Shut(e, code) = Exited(s, code)
    BY <1>4, <1>7
  <2>2. Follows(s, Exited(s, code))
    BY <1>1, <1>2, <1>7, ExitedFollows
  <2> QED BY <1>2, <2>1, <2>2, FollowsTwice
<1>8. CASE ~e.down /\ s.vm # "running" /\ s.vm # "stopped"
  <2> DEFINE c == IF code = 0 THEN 8 ELSE code
  <2>1. Shut(e, code) = Exited(s, c) /\ c # 0
    BY <1>4, <1>8
  <2> HIDE DEF c
  <2>2. Follows(s, Exited(s, c))
    BY <1>1, <1>2, <2>1, ExitedFollows
  <2> QED BY <1>2, <2>1, <2>2, FollowsTwice
<1> QED BY <1>5, <1>6, <1>7, <1>8

\* A SIGTERM.
LEMMA TerminatedFollows ==
    ASSUME NEW e \in Engine, CleanRight(e)
    PROVE  Follows(e, Terminated(e))
<1>1. Follows(e, Exited(e, 8))
  BY ExitedFollows
<1>2. PICK d : d = [e EXCEPT !.term = TRUE]
  OBVIOUS
<1>3. d.at = e.at /\ d.stray = e.stray /\ d.clean = e.clean /\ d.vm = e.vm /\ d.asked = e.asked
  BY <1>2 DEF Engine
<1>4. Follows(e, d)
  BY <1>3 DEF Follows, CleanRight
<1>5. CASE e.at \in {"spawned", "setup"}
  BY <1>1, <1>5 DEF Terminated
<1>6. CASE e.at \in {"armed", "up"}
  BY <1>2, <1>4, <1>6 DEF Terminated
<1>7. CASE e.at \notin {"spawned", "setup", "armed", "up"}
  BY <1>7, FollowsItself DEF Terminated
<1> QED BY <1>5, <1>6, <1>7

\* An engine goes on; neither the commands nor runtime.pid do, and nobody
\* writes the stop file.
LEMMA EngineEnds ==
    ASSUME LockInv, EndInv, NEW p \in Pid, NEW r, eng' = [eng EXCEPT ![p] = r],
           Follows(eng[p], r), stopFile' => stopFile, UNCHANGED <<pidFile, cmd>>
    PROVE  EndInv'
<1>1. eng'[p] = r /\ \A q \in Pid \ {p} : eng'[q] = eng[q]
  BY DEF LockInv, TypeOK
<1>2. \A q \in Pid : Follows(eng[q], eng'[q])
  BY <1>1, FollowsItself DEF EndInv
<1>3. \A q \in Pid : CleanRight(eng'[q])
  BY <1>2 DEF Follows
<1>4. cmd.pc \in Named => cmd.pid \in Pid
  BY DEF LockInv
<1>5. pidFile # NoPid => pidFile \in Pid
  BY DEF LockInv, TypeOK
<1>6. StopRight'
  BY <1>2, <1>4, <1>5 DEF EndInv, StopRight, Follows, Named
<1> QED BY <1>3, <1>6 DEF EndInv

\* A command goes on; no engine does.
LEMMA CommandEndsRight ==
    ASSUME LockInv, EndInv, UNCHANGED eng, StopRight'
    PROVE  EndInv'
BY DEF EndInv

\* A part of an engine's record that says nothing of its end.
LEMMA PlainFollows ==
    ASSUME NEW e \in Engine, CleanRight(e), NEW r, r.at = e.at, r.at # "dead",
           r.stray = e.stray, r.clean = e.clean, r.asked = e.asked
    PROVE  Follows(e, r)
BY DEF Follows, CleanRight

\* The engine's own steps up to its run loop.
LEMMA ComingUpEnds ==
    ASSUME LockInv, EndInv, NEW p \in Pid,
           TakeLock(p) \/ BuildVM(p) \/ Listen(p) \/ EnterRunLoop(p)
    PROVE  EndInv'
<1>1. eng[p] \in Engine /\ eng \in [Pid -> Engine] /\ CleanRight(eng[p])
  BY DEF LockInv, TypeOK, EndInv
<1>2. CASE TakeLock(p)
  <2>1. PICK d : d = [eng[p] EXCEPT !.at = "setup"]
    OBVIOUS
  <2>2. Follows(eng[p], d)
    <3>1. d.at = "setup" /\ d.stray = eng[p].stray /\ d.clean = eng[p].clean /\ d.asked = eng[p].asked
      BY <1>1, <2>1 DEF Engine
    <3> QED BY <1>1, <1>2, <3>1 DEF Follows, CleanRight, TakeLock
  <2>3. Follows(eng[p], Exited(eng[p], 10))
    BY <1>1, ExitedFollows
  <2>4. UNCHANGED <<pidFile, cmd, stopFile>>
    BY <1>2 DEF TakeLock, files
  <2>5. eng' = [eng EXCEPT ![p] = d] \/ eng' = [eng EXCEPT ![p] = Exited(eng[p], 10)]
    BY <1>1, <1>2, <2>1 DEF TakeLock
  <2> QED BY <2>2, <2>3, <2>4, <2>5, EngineEnds
<1>3. CASE BuildVM(p)
  <2>1. PICK d : d = [eng[p] EXCEPT !.at = "deaf"]
    OBVIOUS
  <2>2. Follows(eng[p], d)
    <3>1. d.at = "deaf" /\ d.stray = eng[p].stray /\ d.clean = eng[p].clean /\ d.asked = eng[p].asked
      BY <1>1, <2>1 DEF Engine
    <3> QED BY <1>1, <1>3, <3>1 DEF Follows, CleanRight, BuildVM
  <2>3. Follows(eng[p], Exited(eng[p], 5))
    BY <1>1, ExitedFollows
  <2>4. UNCHANGED <<pidFile, cmd, stopFile>>
    BY <1>3 DEF BuildVM, files
  <2>5. eng' = [eng EXCEPT ![p] = d] \/ eng' = [eng EXCEPT ![p] = Exited(eng[p], 5)]
    BY <1>3, <2>1 DEF BuildVM, Becomes
  <2> QED BY <2>2, <2>3, <2>4, <2>5, EngineEnds
<1>4. CASE Listen(p)
  <2>1. PICK d : d = [eng[p] EXCEPT !.at = "armed"]
    OBVIOUS
  <2>2. Follows(eng[p], d)
    <3>1. d.at = "armed" /\ d.stray = eng[p].stray /\ d.clean = eng[p].clean /\ d.asked = eng[p].asked
      BY <1>1, <2>1 DEF Engine
    <3> QED BY <1>1, <1>4, <3>1 DEF Follows, CleanRight, Listen
  <2> QED BY <1>4, <2>1, <2>2, EngineEnds DEF Listen, Becomes, files
<1>5. CASE EnterRunLoop(p)
  <2>1. PICK d : d = [eng[p] EXCEPT !.at = "up", !.vm = "starting"]
    OBVIOUS
  <2>2. /\ d.at = "up" /\ d.stray = eng[p].stray /\ d.clean = eng[p].clean
        /\ d.asked = eng[p].asked /\ eng[p].at = "armed"
    BY <1>1, <1>5, <2>1 DEF Engine, EnterRunLoop
  <2>3. eng'[p] = d /\ \A q \in Pid \ {p} : eng'[q] = eng[q]
    BY <1>1, <1>5, <2>1 DEF EnterRunLoop, Becomes
  <2>4. ~stopFile' /\ UNCHANGED <<pidFile, cmd>>
    BY <1>5 DEF EnterRunLoop
  <2>5. CleanRight(d)
    BY <1>1, <2>2 DEF CleanRight
  <2>6. \A q \in Pid : CleanRight(eng'[q])
    BY <2>3, <2>5 DEF EndInv
  <2>7. cmd.pc \in {"kill", "file"} => cmd.pid \in Pid
    BY DEF LockInv, Named
  <2>8. StopRight'
    BY <2>2, <2>3, <2>4, <2>7 DEF EndInv, StopRight
  <2> QED BY <2>6, <2>8 DEF EndInv
<1> QED BY <1>2, <1>3, <1>4, <1>5

\* What ends an engine from its run loop.
LEMMA ShutdownEnds ==
    ASSUME LockInv, EndInv, NEW p \in Pid,
           SignalEvent(p) \/ StopPoll(p) \/ BootTimeout(p) \/ ReadyPoll(p) \/ ReadyPollFailed(p)
    PROVE  EndInv'
<1>1. /\ eng[p] \in Engine /\ eng \in [Pid -> Engine] /\ CleanRight(eng[p])
      /\ eng[p].at = "up" /\ eng[p].clean = FALSE
  BY DEF LockInv, TypeOK, EndInv, CleanRight, Engine,
         SignalEvent, StopPoll, BootTimeout, ReadyPoll, ReadyPollFailed
<1>2. CASE SignalEvent(p)
  <2>1. PICK s : s = Shut(eng[p], 0)
    OBVIOUS
  <2>2. s \in Engine /\ Follows(eng[p], s)
    BY <1>1, <2>1, ShutFact, ShutFollows
  <2>3. PICK d : d = [s EXCEPT !.term = FALSE]
    OBVIOUS
  <2>4. d.at = s.at /\ d.stray = s.stray /\ d.clean = s.clean /\ d.vm = s.vm /\ d.asked = s.asked
    BY <2>2, <2>3 DEF Engine
  <2>5. Follows(eng[p], d)
    BY <2>2, <2>4 DEF Follows, CleanRight
  <2> QED BY <1>2, <2>1, <2>3, <2>5, EngineEnds DEF SignalEvent, Becomes, files
<1>3. CASE StopPoll(p)
  <2>1. PICK s : s = Shut(eng[p], 0)
    OBVIOUS
  <2>2. s \in Engine /\ Follows(eng[p], s)
    BY <1>1, <2>1, ShutFact, ShutFollows
  <2>3. ~(~eng[p].down /\ ~eng[p].asked /\ pidFile = p)
    BY <1>1, <1>3 DEF EndInv, StopRight, StopPoll, Pid, NoPid
  <2>4. PICK x : x = (~eng[p].down /\ ~eng[p].asked /\ pidFile = p)
    OBVIOUS
  <2>5. PICK d : d = [s EXCEPT !.stray = s.stray \/ x]
    OBVIOUS
  <2>6. d.at = s.at /\ d.clean = s.clean /\ d.vm = s.vm /\ d.asked = s.asked /\ ~d.stray
    BY <2>2, <2>3, <2>4, <2>5 DEF Engine, Follows, CleanRight
  <2>7. Follows(eng[p], d)
    BY <2>2, <2>6 DEF Follows, CleanRight
  <2>8. eng' = [eng EXCEPT ![p] = d] /\ ~stopFile' /\ UNCHANGED <<pidFile, cmd>>
    BY <1>3, <2>1, <2>4, <2>5 DEF StopPoll, Becomes
  <2> QED BY <2>7, <2>8, EngineEnds
<1>4. PICK b : b = [eng[p] EXCEPT !.polled = TRUE]
  OBVIOUS
<1>5. /\ b \in Engine /\ b.at = "up" /\ b.stray = eng[p].stray /\ b.clean = eng[p].clean
      /\ b.vm = eng[p].vm /\ b.asked = eng[p].asked
  BY <1>1, <1>4 DEF Engine
<1>6. CleanRight(b) /\ Follows(eng[p], b)
  BY <1>1, <1>5 DEF CleanRight, Follows
<1>7. \A code \in {0, 6} : Follows(eng[p], Shut(b, code))
  BY <1>5, <1>6, ShutFollows, FollowsTwice
<1>8. CASE BootTimeout(p)
  BY <1>4, <1>7, <1>8, EngineEnds DEF BootTimeout, Becomes, files
<1>9. CASE ReadyPollFailed(p)
  BY <1>4, <1>7, <1>9, EngineEnds DEF ReadyPollFailed, Becomes
<1>10. CASE ReadyPoll(p)
  <2>1. PICK d : d = [b EXCEPT !.bridges = TRUE]
    OBVIOUS
  <2>2. d.at = "up" /\ d.stray = b.stray /\ d.clean = b.clean /\ d.vm = b.vm /\ d.asked = b.asked
    BY <1>5, <2>1 DEF Engine
  <2>3. Follows(eng[p], d)
    BY <1>1, <1>5, <1>6, <2>2 DEF Follows, CleanRight
  <2>4. eng' = [eng EXCEPT ![p] = d] \/ eng' = [eng EXCEPT ![p] = Shut(b, 0)]
    BY <1>4, <1>10, <2>1 DEF ReadyPoll
  <2> QED BY <1>7, <1>10, <2>3, <2>4, EngineEnds DEF ReadyPoll
<1> QED BY <1>2, <1>3, <1>8, <1>9, <1>10

\* The machine's own events, and what is left of a shutdown.
LEMMA MachineEnds ==
    ASSUME LockInv, EndInv, NEW p \in Pid,
           UnexpectedStop(p) \/ StopConfirmed(p) \/ StopUnconfirmed(p) \/ Machine(p) \/ Killed(p)
    PROVE  EndInv'
<1>1. /\ eng[p] \in Engine /\ eng \in [Pid -> Engine] /\ CleanRight(eng[p])
      /\ eng[p].at # "dead"
  BY DEF LockInv, TypeOK, EndInv, UnexpectedStop, StopConfirmed, StopUnconfirmed, Machine,
         VmStarts, VmStops, GuestSays, Killed, Alive
<1>2. \A c : c # 0 => Follows(eng[p], Exited(eng[p], c))
  BY <1>1, ExitedFollows
<1>3. CASE UnexpectedStop(p)
  <2>1. PICK d : d = [eng[p] EXCEPT !.lost = FALSE]
    OBVIOUS
  <2>2. /\ d \in Engine /\ d.at = eng[p].at /\ d.stray = eng[p].stray
        /\ d.clean = eng[p].clean /\ d.vm = eng[p].vm /\ d.asked = eng[p].asked
    BY <1>1, <2>1 DEF Engine
  <2>3. CleanRight(d) /\ Follows(eng[p], d)
    BY <1>1, <2>2, PlainFollows DEF Follows
  <2>4. Follows(eng[p], Exited(d, 9))
    BY <2>2, <2>3, ExitedFollows, FollowsTwice
  <2>5. eng' = [eng EXCEPT ![p] = d] \/ eng' = [eng EXCEPT ![p] = Exited(d, 9)]
    BY <1>3, <2>1 DEF UnexpectedStop, Becomes
  <2> QED BY <1>3, <2>3, <2>4, <2>5, EngineEnds DEF UnexpectedStop
<1>4. CASE StopConfirmed(p)
  <2>1. PICK d : d = [eng[p] EXCEPT !.vm = "stopped"]
    OBVIOUS
  <2>2. /\ d \in Engine /\ d.at = eng[p].at /\ d.stray = eng[p].stray
        /\ d.clean = eng[p].clean /\ d.vm = "stopped" /\ d.asked = eng[p].asked
    BY <1>1, <2>1 DEF Engine, Vm
  <2>3. CleanRight(d) /\ Follows(eng[p], d)
    BY <1>1, <2>2, PlainFollows DEF Follows
  <2>4. Follows(eng[p], Exited(d, eng[p].code))
    BY <2>2, <2>3, ExitedFollows, FollowsTwice
  <2> QED BY <1>4, <2>1, <2>4, EngineEnds DEF StopConfirmed, Becomes, files
<1>5. CASE StopUnconfirmed(p)
  <2>1. PICK c : c = IF eng[p].code = 0 THEN 8 ELSE eng[p].code
    OBVIOUS
  <2>2. Follows(eng[p], Exited(eng[p], c))
    BY <1>2, <2>1
  <2> QED BY <1>5, <2>1, <2>2, EngineEnds DEF StopUnconfirmed, Becomes, files
<1>6. CASE Killed(p)
  <2>1. PICK d : d = Exited(eng[p], 9)
    OBVIOUS
  <2>2. Follows(eng[p], d)
    BY <1>2, <2>1
  <2>3. eng' = [eng EXCEPT ![p] = d] /\ UNCHANGED <<pidFile, stopFile, cmd>>
    BY <1>6, <2>1 DEF Killed, files
  <2> QED BY <2>2, <2>3, EngineEnds
<1>7. CASE VmStarts(p)
  <2>1. PICK d : d = [eng[p] EXCEPT !.vm = "running"]
    OBVIOUS
  <2>2. d.at = eng[p].at /\ d.stray = eng[p].stray /\ d.clean = eng[p].clean /\ d.asked = eng[p].asked
    BY <1>1, <2>1 DEF Engine
  <2>3. Follows(eng[p], d)
    BY <1>1, <2>2, PlainFollows
  <2>4. eng' = [eng EXCEPT ![p] = d] \/ eng' = [eng EXCEPT ![p] = Exited(eng[p], 7)]
    BY <1>7, <2>1 DEF VmStarts, Becomes
  <2> QED BY <1>2, <1>7, <2>3, <2>4, EngineEnds DEF VmStarts
<1>8. CASE VmStops(p)
  <2>1. PICK v \in {"stopped", "error"} : Becomes(p, [eng[p] EXCEPT !.vm = v, !.lost = ~eng[p].down])
    BY <1>8 DEF VmStops
  <2>2. PICK d : d = [eng[p] EXCEPT !.vm = v, !.lost = ~eng[p].down]
    OBVIOUS
  <2>3. d.at = eng[p].at /\ d.stray = eng[p].stray /\ d.clean = eng[p].clean /\ d.asked = eng[p].asked
    BY <1>1, <2>2 DEF Engine
  <2>4. Follows(eng[p], d)
    BY <1>1, <2>3, PlainFollows
  <2> QED BY <1>8, <2>1, <2>2, <2>4, EngineEnds DEF VmStops, Becomes, files
<1>9. ASSUME NEW w, GuestSays(p, w) PROVE EndInv'
  <2>1. PICK d : d = [eng[p] EXCEPT !.serial = w]
    OBVIOUS
  <2>2. d.at = eng[p].at /\ d.stray = eng[p].stray /\ d.clean = eng[p].clean /\ d.asked = eng[p].asked
    BY <1>1, <2>1 DEF Engine
  <2>3. Follows(eng[p], d)
    BY <1>1, <2>2, PlainFollows
  <2> QED BY <1>9, <2>1, <2>3, EngineEnds DEF GuestSays, Becomes, files
<1> QED BY <1>3, <1>4, <1>5, <1>6, <1>7, <1>8, <1>9 DEF Machine

\* A new engine was asked for nothing yet.
LEMMA NewEngineEnds ==
    ASSUME LockInv, EndInv, NEW p \in Pid, Spawn(p) \/ Foreground(p)
    PROVE  EndInv'
<1>1. /\ eng[p] \in Engine /\ eng \in [Pid -> Engine] /\ CleanRight(eng[p])
      /\ eng[p].at = "none"
  BY DEF LockInv, TypeOK, EndInv, Spawn, Foreground, NextPid
<1>2. CASE Spawn(p)
  <2>1. PICK d : d = [eng[p] EXCEPT !.at = "spawned"]
    OBVIOUS
  <2>2. /\ d.at = "spawned" /\ d.stray = eng[p].stray /\ d.clean = eng[p].clean
    BY <1>1, <2>1 DEF Engine
  <2>3. eng'[p] = d /\ \A q \in Pid \ {p} : eng'[q] = eng[q]
    BY <1>1, <1>2, <2>1 DEF Spawn
  <2>4. CleanRight(d)
    BY <1>1, <2>2 DEF CleanRight
  <2>5. \A q \in Pid : CleanRight(eng'[q])
    BY <2>3, <2>4 DEF EndInv
  <2>6. /\ cmd'.pc = "json" /\ cmd'.pid = p /\ UNCHANGED <<pidFile, stopFile>>
    BY <1>2 DEF Spawn, files, LockInv, TypeOK
  <2>7. pidFile # NoPid => pidFile \in Pid
    BY DEF LockInv, TypeOK
  <2>8. StopRight'
    BY <2>2, <2>3, <2>6, <2>7 DEF EndInv, StopRight
  <2> QED BY <2>5, <2>8 DEF EndInv
<1>3. CASE Foreground(p)
  <2>1. PICK d : d = [eng[p] EXCEPT !.at = "spawned", !.fg = TRUE]
    OBVIOUS
  <2>2. d.at = "spawned" /\ d.stray = eng[p].stray /\ d.clean = eng[p].clean /\ d.asked = eng[p].asked
    BY <1>1, <2>1 DEF Engine
  <2>3. Follows(eng[p], d)
    BY <1>1, <2>2 DEF Follows, CleanRight
  <2>4. eng' = [eng EXCEPT ![p] = d]
    BY <1>1, <1>3, <2>1 DEF Foreground
  <2> QED BY <1>3, <2>3, <2>4, EngineEnds DEF Foreground, files
<1> QED BY <1>2, <1>3

\* What a command's steps to its end, or to a start, leave of a stop.
LEMMA QuietCommand ==
    ASSUME LockInv, EndInv, UNCHANGED eng, stopFile' => stopFile,
           pidFile' \in {pidFile, NoPid},
           cmd'.pc \notin {"json", "pid", "kill", "file"}
    PROVE  EndInv'
<1>1. StopRight'
  BY DEF EndInv, StopRight
<1> QED BY <1>1, CommandEndsRight

\* The steps of a command that touch no engine.
LEMMA FilesEnd ==
    ASSUME LockInv, EndInv,
           \/ Invoke("check", FALSE) \/ Invoke("stop", FALSE) \/ Invoke("stop", TRUE)
           \/ StartCheck \/ StartRefused \/ WriteJson \/ WritePid \/ StartFailed
           \/ StartSucceeded \/ StartExpired \/ StopCheck \/ StopFile \/ StopWait \/ StopClean
           \/ Abort
    PROVE  EndInv'
<1>1. cmd \in [pc : CmdPc, pid : Pid \union {NoPid}, restart : BOOLEAN]
  BY DEF LockInv, TypeOK
<1>2. NoCmd.pc = "none"
  BY DEF NoCmd
<1>3. \A pc : [cmd EXCEPT !.pc = pc].pc = pc /\ [cmd EXCEPT !.pc = pc].pid = cmd.pid
  BY <1>1
<1>4. Stopped => cmd'.pc \in {"none", "check"}
  BY <1>1, <1>2 DEF Stopped
<1>5. ASSUME Invoke("check", FALSE) \/ Invoke("stop", FALSE) \/ Invoke("stop", TRUE) PROVE EndInv'
  <2>1. cmd'.pc \in {"check", "stop"} /\ UNCHANGED <<eng, pidFile, stopFile>>
    BY <1>5 DEF Invoke, files
  <2> QED BY <2>1, QuietCommand
<1>6. ASSUME StartCheck PROVE EndInv'
  <2>1. cmd'.pc \in {"none", "spawn"} /\ UNCHANGED <<eng, stopFile>> /\ pidFile' \in {pidFile, NoPid}
    BY <1>2, <1>3, <1>6 DEF StartCheck, End, GoOn, Forget, files
  <2> QED BY <2>1, QuietCommand
<1>7. ASSUME StartRefused \/ StartFailed \/ StartSucceeded \/ StartExpired \/ Abort PROVE EndInv'
  <2>1. cmd'.pc = "none" /\ UNCHANGED <<eng, stopFile>> /\ pidFile' \in {pidFile, NoPid}
    BY <1>2, <1>7 DEF StartRefused, StartFailed, StartSucceeded, StartExpired, Abort, End, Forget, files
  <2> QED BY <2>1, QuietCommand
<1>8. ASSUME StopWait PROVE EndInv'
  <2>1. cmd'.pc \in {"none", "clean"} /\ UNCHANGED <<eng, stopFile, pidFile>>
    BY <1>2, <1>3, <1>8 DEF StopWait, End, GoOn, files
  <2> QED BY <2>1, QuietCommand
<1>9. ASSUME StopClean PROVE EndInv'
  <2>1. cmd'.pc \in {"none", "check"} /\ UNCHANGED eng /\ ~stopFile' /\ pidFile' = NoPid
    BY <1>4, <1>9 DEF StopClean, Forget
  <2> QED BY <2>1, QuietCommand
<1>10. ASSUME WriteJson PROVE EndInv'
  <2>1. cmd'.pc = "pid" /\ cmd'.pid = cmd.pid /\ cmd.pc = "json" /\ UNCHANGED <<eng, pidFile, stopFile>>
    BY <1>3, <1>10 DEF WriteJson, GoOn
  <2>2. StopRight'
    BY <2>1 DEF EndInv, StopRight
  <2> QED BY <2>1, <2>2, CommandEndsRight
<1>11. ASSUME WritePid PROVE EndInv'
  <2>1. cmd'.pc = "wait" /\ cmd.pc = "pid" /\ pidFile' = cmd.pid /\ UNCHANGED <<eng, stopFile>>
    BY <1>3, <1>11 DEF WritePid, GoOn
  <2>2. StopRight'
    BY <2>1 DEF EndInv, StopRight
  <2> QED BY <2>1, <2>2, CommandEndsRight
<1>12. ASSUME StopCheck PROVE EndInv'
  <2>1. CASE Alive(pidFile) /\ cmd' = [cmd EXCEPT !.pc = "kill", !.pid = pidFile] /\ UNCHANGED files
    <3>1. cmd'.pc = "kill" /\ cmd'.pid = pidFile /\ UNCHANGED <<eng, pidFile, stopFile>>
      BY <1>1, <1>12, <2>1 DEF StopCheck, files
    <3>2. StopRight'
      BY <2>1, <3>1 DEF EndInv, StopRight, Alive
    <3> QED BY <3>1, <3>2, CommandEndsRight
  <2>2. CASE ~(Alive(pidFile) /\ cmd' = [cmd EXCEPT !.pc = "kill", !.pid = pidFile] /\ UNCHANGED files)
    <3>1. cmd'.pc \in {"none", "check"} /\ UNCHANGED <<eng, stopFile>> /\ pidFile' \in {pidFile, NoPid}
      BY <1>2, <1>4, <1>12, <2>2 DEF StopCheck, End, Forget, files
    <3> QED BY <3>1, QuietCommand
  <2> QED BY <2>1, <2>2
<1>13. ASSUME StopFile PROVE EndInv'
  <2>1. cmd'.pc = "gone" /\ cmd.pc = "file" /\ UNCHANGED <<eng, pidFile>>
    BY <1>3, <1>13 DEF StopFile, GoOn
  <2>2. StopRight'
    BY <2>1 DEF EndInv, StopRight
  <2> QED BY <2>1, <2>2, CommandEndsRight
<1> QED BY <1>5, <1>6, <1>7, <1>8, <1>9, <1>10, <1>11, <1>12, <1>13

\* The steps of a command that signal an engine: `stop` writes the file only
\* after it has signalled the engine that runtime.pid names.
LEMMA SignalsEnd ==
    ASSUME LockInv, EndInv, StartSuperseded \/ StartTimeout \/ StopSignal
    PROVE  EndInv'
<1>1. PICK p : p = cmd.pid
  OBVIOUS
<1>2. PICK e : e = Terminated(eng[p])
  OBVIOUS
<1>3. p \in Pid /\ cmd \in [pc : CmdPc, pid : Pid \union {NoPid}, restart : BOOLEAN]
  BY <1>1 DEF LockInv, TypeOK, Named, StartSuperseded, StartTimeout, StopSignal
<1>4. /\ eng[p] \in Engine /\ eng \in [Pid -> Engine] /\ CleanRight(eng[p])
      /\ pidFile # NoPid => pidFile \in Pid
  BY <1>3 DEF LockInv, TypeOK, EndInv
<1>5. e \in Engine /\ Follows(eng[p], e)
  BY <1>2, <1>4, TerminatedFact, TerminatedFollows
<1>6. NoCmd.pc = "none"
  BY DEF NoCmd
<1>7. \A pc : [cmd EXCEPT !.pc = pc].pc = pc /\ [cmd EXCEPT !.pc = pc].pid = cmd.pid
  BY <1>3
<1>8. ASSUME NEW r, Follows(eng[p], r), eng' = [eng EXCEPT ![p] = r]
      PROVE  /\ \A q \in Pid : Follows(eng[q], eng'[q]) /\ CleanRight(eng'[q])
             /\ eng'[p] = r
  <2>1. eng'[p] = r /\ \A q \in Pid \ {p} : eng'[q] = eng[q]
    BY <1>3, <1>4, <1>8
  <2>2. \A q \in Pid : Follows(eng[q], eng'[q])
    BY <1>8, <2>1, FollowsItself DEF EndInv
  <2> QED BY <2>1, <2>2 DEF Follows
<1>9. ASSUME StartSuperseded \/ StartTimeout PROVE EndInv'
  <2>1. eng' = [eng EXCEPT ![p] = e]
    BY <1>1, <1>2, <1>9 DEF StartSuperseded, StartTimeout, Becomes
  <2>2. /\ cmd'.pc \in {"none", "expire"} /\ pidFile' \in {pidFile, NoPid} /\ UNCHANGED stopFile
    BY <1>6, <1>7, <1>9 DEF StartSuperseded, StartTimeout, End, GoOn, Forget, files
  <2>3. \A q \in Pid : Follows(eng[q], eng'[q]) /\ CleanRight(eng'[q])
    BY <1>5, <1>8, <2>1
  <2>4. StopRight'
    BY <1>4, <2>2, <2>3 DEF EndInv, StopRight, Follows
  <2> QED BY <2>3, <2>4 DEF EndInv
<1>10. ASSUME StopSignal PROVE EndInv'
  <2>1. PICK a \in BOOLEAN : a = (e.at # "dead")
    OBVIOUS
  <2>2. PICK r : r = [e EXCEPT !.asked = a]
    OBVIOUS
  <2>3. /\ r.at = e.at /\ r.stray = e.stray /\ r.clean = e.clean /\ r.vm = e.vm /\ r.asked = a
    BY <1>5, <2>2 DEF Engine
  <2>4. Follows(eng[p], r)
    BY <1>5, <2>1, <2>3 DEF Follows, CleanRight
  <2>5. eng' = [eng EXCEPT ![p] = r]
    BY <1>1, <1>2, <1>10, <2>1, <2>2 DEF StopSignal, Becomes
  <2>6. /\ \A q \in Pid : Follows(eng[q], eng'[q]) /\ CleanRight(eng'[q])
        /\ eng'[p] = r
    BY <1>8, <2>4, <2>5
  <2>7. /\ cmd'.pc = "file" /\ cmd'.pid = p /\ cmd.pc = "kill" /\ UNCHANGED <<pidFile, stopFile>>
    BY <1>1, <1>7, <1>10 DEF StopSignal, GoOn, files
  <2>8. p = pidFile /\ eng[p].at # "none"
    BY <1>1, <2>7 DEF EndInv, StopRight
  <2>9. StopRight'
    BY <1>3, <1>4, <2>1, <2>3, <2>6, <2>7, <2>8 DEF EndInv, StopRight, Follows
  <2> QED BY <2>6, <2>9 DEF EndInv
<1> QED BY <1>9, <1>10

\* An engine that exits with 0 left its virtual machine stopped, and no engine
\* that runtime.pid names is ended by a stop file it was not asked for: for any
\* number of engines, kills and interrupted commands.
THEOREM CleanEnd == Spec => []CleanExit
<1>1. Init => EndInv
  <2> SUFFICES ASSUME Init PROVE EndInv
    OBVIOUS
  <2>1. NewEngine.stray = FALSE /\ NewEngine.clean = FALSE
    BY DEF NewEngine
  <2>2. \A p \in Pid : CleanRight(eng[p])
    BY <2>1 DEF Init, CleanRight
  <2>3. cmd.pc = "none" /\ pidFile = NoPid
    BY DEF Init, NoCmd
  <2> QED BY <2>2, <2>3 DEF EndInv, StopRight
<1>2. LockInv /\ EndInv /\ [Next]_vars => EndInv'
  <2> SUFFICES ASSUME LockInv, EndInv, [Next]_vars PROVE EndInv'
    OBVIOUS
  <2>1. CASE UNCHANGED vars
    BY <2>1 DEF vars, files, EndInv, StopRight, CleanRight
  <2>2. ASSUME NEW p \in Pid, MainQueue(p) \/ Machine(p) \/ Killed(p) \/ Foreground(p) PROVE EndInv'
    BY <2>2, ComingUpEnds, ShutdownEnds, MachineEnds, NewEngineEnds DEF MainQueue
  <2>3. ASSUME Invoke("check", FALSE) \/ Invoke("stop", FALSE) \/ Invoke("stop", TRUE) \/ Abort
        PROVE  EndInv'
    BY <2>3, FilesEnd
  <2>4. ASSUME CommandStep PROVE EndInv'
    BY <2>4, FilesEnd, SignalsEnd, NewEngineEnds DEF CommandStep
  <2> QED BY <2>1, <2>2, <2>3, <2>4 DEF Next
<1>3. EndInv => CleanExit
  BY DEF EndInv, CleanRight, CleanExit
<1> QED BY <1>1, <1>2, <1>3, LockIsHeld, PTL DEF Spec
=============================================================================
