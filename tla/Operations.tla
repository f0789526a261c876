------------------------------ MODULE Operations ------------------------------
(***************************************************************************)
(* What the desktop lets a person do with deployments (deploy_api.rs): the *)
(* list of runtimes attached read-only, and the operations that are handed *)
(* to the deploy CLI as arguments after the person confirmed them.         *)
(*                                                                         *)
(* External calls run one at a time (EXTERNAL_LOCK), operations too (OPS), *)
(* but the two kinds overlap, the process may end at any point, and the    *)
(* Harpoon runtime and its state files change between any two reads.       *)
(***************************************************************************)
EXTENDS Integers, FiniteSets

CONSTANTS Roots,     \* runtime folders elsewhere on this Mac
          Overlaps,  \* those inside or above the desktop's own store
          MaxListed, \* MAX_ATTACHED
          MaxOps,    \* bound on operations
          MaxTurns   \* bound on changes of the surroundings

ASSUME OperationsAssumption == Overlaps \subseteq Roots /\ MaxListed \in Nat

VARIABLES list,     \* external-runtimes.json: the paths in it
          attached, \* ATTACHED: the folders the guard covers, in memory
          restored, \* restore() ran in this process
          ext,      \* the external call in progress
          harpoon,  \* the Harpoon runtime: its state files, its process, its sockets
          gate,     \* the Gate of the build
          op,       \* the operation in progress, what the engine did for it, and
                    \* whether its runtime process was seen running
          turns     \* changes of the surroundings so far

opVars == <<list, attached, restored, ext, harpoon, gate, op, turns>>

-----------------------------------------------------------------------------
NoExt == [call |-> "none", root |-> "-", pc |-> "idle"]
NoOp == [kind |-> "none", live |-> FALSE, cutover |-> FALSE, pc |-> "idle",
         pid |-> 0, seen |-> FALSE, args |-> {}, changed |-> FALSE, stopped |-> FALSE,
         n |-> 0]

(* DeployOp, by what the desktop and the engine tell apart: the others     *)
(* (registrations, configuration, polling, recover, resume) change records *)
(* and secrets only (`needs_runtime`).                                     *)
DockerOps == {"deploy", "run-queue", "rollback", "restore"}
Ops == DockerOps \union {"records"}

(* Gate::shipping, the acceptance binary's, and one with Docker closed. *)
Gates == { [deploy |-> TRUE, replace |-> TRUE, triggered |-> FALSE],
           [deploy |-> TRUE, replace |-> TRUE, triggered |-> TRUE],
           [deploy |-> FALSE, replace |-> FALSE, triggered |-> FALSE] }

(* Harpoon off; up; crashed; started again but not yet published. *)
Off == [json |-> 0, pidfile |-> 0, process |-> 0, sockets |-> FALSE]
Up == [json |-> 1, pidfile |-> 1, process |-> 1, sockets |-> TRUE]
Earlier == { Off, Up, [Up EXCEPT !.process = 0], [Up EXCEPT !.pidfile = 2, !.process = 2] }

OperationsInit ==
    /\ list = {}
    /\ attached = {} /\ restored = FALSE
    /\ ext = NoExt
    /\ harpoon \in Earlier
    /\ gate \in Gates
    /\ op = NoOp /\ turns = 0

-----------------------------------------------------------------------------
(* The list of attached runtimes.  While the file cannot be read every     *)
(* call returns the error and leaves the file as it is.                    *)

ExtCall(c, r) ==
    /\ ext = NoExt
    /\ ext' = [call |-> c, root |-> r, pc |-> "begun"]
    /\ UNCHANGED <<list, attached, restored, harpoon, gate, op, turns>>

(* `restore`: every remembered path is registered before it is looked at.  *)
Restore ==
    /\ ext.call = "restore"
    /\ attached' = attached \union list
    /\ restored' = TRUE
    /\ ext' = NoExt
    /\ UNCHANGED <<list, harpoon, gate, op, turns>>

(* `attach`: a folder with a journal that is not the own store is           *)
(* registered; the list is only written afterwards.                        *)
Attach ==
    /\ ext.call = "add" /\ ext.pc = "begun"
    /\ \/ /\ attached' = attached \union {ext.root}
          /\ ext' = [ext EXCEPT !.pc = "attached"]
       \/ ext' = NoExt /\ UNCHANGED attached   \* missing, a link, or no journal in it
    /\ UNCHANGED <<list, restored, harpoon, gate, op, turns>>

(* `write` replaces the file in one rename, or fails and leaves it.        *)
Listed(paths) == list' = paths

(* Already there, full, written, or not written: the folder that `attach`  *)
(* registered stays registered in each case.                               *)
Add ==
    /\ ext.pc = "attached"
    /\ \/ /\ ext.root \in list \/ Cardinality(list) >= MaxListed
          /\ UNCHANGED list
       \/ /\ ext.root \notin list /\ Cardinality(list) < MaxListed
          /\ Listed(list \union {ext.root}) \/ UNCHANGED list
    /\ ext' = NoExt
    /\ UNCHANGED <<attached, restored, harpoon, gate, op, turns>>

(* (mutant) The guard is lifted before the list is written. *)
RemoveUnguarded ==
    /\ ext.call = "remove" /\ ext.pc = "begun"
    /\ ext' = NoExt
    /\ attached' = attached \ {ext.root}
    /\ Listed(list \ {ext.root}) \/ UNCHANGED list
    /\ UNCHANGED <<restored, harpoon, gate, op, turns>>

(* `remove`: only for a reference that was there and is gone from the file *)
(* is the guard lifted, afterwards.                                        *)
Remove ==
    /\ ext.call = "remove" /\ ext.pc = "begun"
    /\ \/ /\ ext.root \in list
          /\ Listed(list \ {ext.root})
          /\ ext' = [ext EXCEPT !.pc = "written"]
       \/ ext' = NoExt /\ UNCHANGED list
    /\ UNCHANGED <<attached, restored, harpoon, gate, op, turns>>

(* `unregister_attached`. *)
Lifted ==
    /\ ext.pc = "written"
    /\ attached' = attached \ {ext.root}
    /\ ext' = NoExt
    /\ UNCHANGED <<list, restored, harpoon, gate, op, turns>>

-----------------------------------------------------------------------------
(* An operation.                                                           *)

(* `build_args`: a cutover is confirmed only for a deployment, and only    *)
(* with the confirmation to change Docker.                                 *)
Confirmed(k, live, cutover) == cutover => live /\ k = "deploy"

(* `run_op_with`: refused when the own store is attached, or inside or     *)
(* above an attached folder; then the store is prepared and the arguments  *)
(* planned.                                                                *)
Begin(k, live, cutover) ==
    /\ op.pc = "idle" /\ op.n < MaxOps
    /\ op' = IF attached \intersect Overlaps # {} \/ ~Confirmed(k, live, cutover)
             THEN [NoOp EXCEPT !.n = op.n + 1]
             ELSE [NoOp EXCEPT !.n = op.n + 1, !.kind = k, !.live = live, !.cutover = cutover,
                               !.pc = IF k \in DockerOps THEN "json" ELSE "run"]
    /\ UNCHANGED <<list, attached, restored, ext, harpoon, gate, turns>>

(* `gate_open_for`; the engine's own gates are EngineGate below. *)
GateOpenFor(k) == CASE k \in {"deploy", "run-queue"} -> gate.deploy
                    [] k \in {"rollback", "restore"} -> gate.replace
                    [] OTHER -> TRUE

(* Without the runtime's coordinates the operation is refused here when    *)
(* its gate is open, else it is left to the engine to refuse at its gate.  *)
NotFound == op' = IF GateOpenFor(op.kind) THEN [NoOp EXCEPT !.n = op.n]
                  ELSE [op EXCEPT !.pc = "run", !.pid = 0, !.seen = FALSE]

(* `discover_runtime`, one read after the other: runtime.json, the process *)
(* file, the process, the sockets and the bundled Buildx.                  *)
ReadJson ==
    /\ op.pc = "json"
    /\ IF harpoon.json = 0 THEN NotFound
       ELSE op' = [op EXCEPT !.pc = "pidfile", !.pid = harpoon.json]
    /\ UNCHANGED <<list, attached, restored, ext, harpoon, gate, turns>>

ReadPidfile ==
    /\ op.pc = "pidfile"
    /\ IF harpoon.pidfile # op.pid THEN NotFound ELSE op' = [op EXCEPT !.pc = "process"]
    /\ UNCHANGED <<list, attached, restored, ext, harpoon, gate, turns>>

AskProcess ==
    /\ op.pc = "process"
    /\ IF harpoon.process # op.pid THEN NotFound
       ELSE op' = [op EXCEPT !.pc = "sockets", !.seen = harpoon.process = op.pid]
    /\ UNCHANGED <<list, attached, restored, ext, harpoon, gate, turns>>

(* (mutant) The opt-in goes with the coordinates. *)
ArgsImplicit(o) == {"coordinates", "authorize"} \union (IF o.cutover THEN {"cutover"} ELSE {})

(* The only place where the opt-in is added. *)
Args(o) == {"coordinates"} \union (IF o.live THEN {"authorize"} ELSE {})
                           \union (IF o.cutover THEN {"cutover"} ELSE {})

AskSockets ==
    /\ op.pc = "sockets"
    /\ IF ~harpoon.sockets THEN NotFound
       ELSE op' = [op EXCEPT !.pc = "run", !.args = Args(op)]
    /\ UNCHANGED <<list, attached, restored, ext, harpoon, gate, turns>>

(* The engine (external here; Engine, Ledger and Triggers model it): its   *)
(* gates, its own demand for the opt-in, and what it then may change.  A   *)
(* deployment may find a release that is serving, which it then stops only *)
(* when the cutover is confirmed; a rollback and a restoration carry their *)
(* own confirmation (`plan`).                                              *)
EngineGate(k) == CASE k = "deploy" -> gate.deploy
                   [] k = "run-queue" -> gate.triggered
                   [] k \in {"rollback", "restore"} -> gate.replace
                   [] OTHER -> TRUE

Run ==
    /\ op.pc = "run"
    /\ \E serving, ok \in BOOLEAN :
         LET acts == /\ op.kind \in DockerOps /\ EngineGate(op.kind)
                     /\ {"coordinates", "authorize"} \subseteq op.args
             stops == acts /\ serving /\ (op.kind = "deploy" => gate.replace /\ "cutover" \in op.args)
         IN  op' = [op EXCEPT !.pc = IF acts => ok THEN "ended" ELSE "failed",
                              !.changed = acts, !.stopped = stops]
    /\ UNCHANGED <<list, attached, restored, ext, harpoon, gate, turns>>

Answer ==
    /\ op.pc \in {"ended", "failed"}
    /\ op' = [NoOp EXCEPT !.n = op.n]
    /\ UNCHANGED <<list, attached, restored, ext, harpoon, gate, turns>>

-----------------------------------------------------------------------------
(* The surroundings (external): the desktop is restarted, and Harpoon's    *)
(* runtime starts, publishes itself, dies and is cleaned up.               *)
Turn == turns < MaxTurns /\ turns' = turns + 1

Relaunch ==
    /\ Turn
    /\ attached' = {} /\ restored' = FALSE /\ ext' = NoExt
    /\ op' = [NoOp EXCEPT !.n = op.n]
    /\ UNCHANGED <<list, harpoon, gate>>

HarpoonChanges ==
    /\ Turn
    /\ \/ \E p \in 1 .. 2 : harpoon.process = 0   \* a start; ids may be used again
            /\ harpoon' = [harpoon EXCEPT !.process = p, !.pidfile = p]
       \/ /\ harpoon.process # 0
          /\ harpoon' = [harpoon EXCEPT !.json = harpoon.process, !.sockets = TRUE]
       \/ /\ harpoon.process # 0   \* a crash leaves everything behind
          /\ harpoon' = [harpoon EXCEPT !.process = 0]
       \/ /\ harpoon.process # 0   \* a stop removes its files
          /\ harpoon' = Off
    /\ UNCHANGED <<list, attached, restored, ext, gate, op>>

OperationsNext ==
    \/ \E c \in {"add", "remove"}, r \in Roots : ExtCall(c, r)
    \/ ExtCall("restore", "-")
    \/ Restore \/ Attach \/ Add \/ Remove \/ Lifted
    \/ \E k \in Ops, live, cutover \in BOOLEAN : Begin(k, live, cutover)
    \/ ReadJson \/ ReadPidfile \/ AskProcess \/ AskSockets \/ Run \/ Answer
    \/ Relaunch \/ HarpoonChanges

-----------------------------------------------------------------------------
(* Properties.                                                             *)

(* Docker is changed only by an operation that the person confirmed, whose *)
(* gate is open and whose runtime process was seen running while the       *)
(* operation ran; and a deployment stops the serving release only with the *)
(* second confirmation (build_args, discover_runtime, plan, and the        *)
(* engine's `authorized`).                                                 *)
DockerAsConfirmed ==
    /\ op.changed => op.live /\ EngineGate(op.kind) /\ op.seen
    /\ op.stopped /\ op.kind = "deploy" => op.cutover

(* Once the list was restored in this process, every runtime remembered in *)
(* it is covered by the guard, at every moment of every later call: a      *)
(* failed write, a removal or a vanished folder opens no gap (restore,     *)
(* attach before write, remove after it).                                  *)
RememberedIsGuarded == restored => list \subseteq attached
=============================================================================
