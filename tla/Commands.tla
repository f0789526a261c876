------------------------------- MODULE Commands -------------------------------
(***************************************************************************)
(* Commands that are run with a time limit: the launch of a Compose        *)
(* project after its preview (compose_import.rs), a shell command sent to  *)
(* selected containers (broadcast.rs), the short reads of main.rs, the     *)
(* checkout of a revision (deploy-git/runner.rs) and the build of an image *)
(* (deploy-docker/buildx_run.rs).                                          *)
(*                                                                         *)
(* Each has its own way of waiting for the child: the short reads look at  *)
(* the output only after the exit, the others drain it meanwhile; Compose  *)
(* and the short reads kill only the child, the others its process group;  *)
(* the build does not wait for who else holds the pipe, the others do.     *)
(* Compose is a plugin, a process of its own that outlives a killed CLI;   *)
(* Git has helpers for a fetch, Buildx may have children of its own.       *)
(***************************************************************************)
EXTENDS Integers

CONSTANTS Budget,  \* the time limit in ticks
          PipeSize, \* output that a pipe holds
          MaxEdits \* bound on the changes of the project

ASSUME CommandsAssumption == /\ Budget \in Nat \ {0} /\ PipeSize \in Nat \ {0}
                             /\ MaxEdits \in Nat

VARIABLES flow,    \* "launch", "broadcast", "read", "revision", "commit" or "build"
          step,    \* where the call is in it
          child,   \* the process, its plugin or helper, what is in the pipe
          left,    \* ticks until the deadline
          project, \* the Compose project as it is, and as the launch saw it
          edits    \* changes of the project so far

cmdVars == <<flow, step, child, left, project, edits>>

NoChild == [main |-> "none", plugin |-> "none", pipe |-> 0, full |-> FALSE]
NotSeen == -1

(* The first step of each flow; a branch or a tag is a revision that has   *)
(* to be resolved, a commit is its own name.                               *)
FirstStep == [launch |-> "context", broadcast |-> "inspect", read |-> "read",
              revision |-> "init", commit |-> "init", build |-> "build"]

(* `now`: the version of the files; `reviewed`: the preview's fingerprint; *)
(* `seen`: the fingerprint of the second look; `used`: what `up` read;     *)
(* `since`: changed after the second look; `stack`: containers with the    *)
(* project's label; `ports`: only bindings that Harpoon forwards; `warned`: *)
(* the second look showed others.                                          *)
CommandsInit ==
    /\ flow \in DOMAIN FirstStep
    /\ step = FirstStep[flow]
    /\ child = NoChild
    /\ left = Budget
    /\ project \in [now : {0}, reviewed : {0}, seen : {NotSeen}, used : {NotSeen},
                    since : {FALSE}, stack : BOOLEAN, ports : BOOLEAN, warned : {FALSE}]
    /\ edits = 0

-----------------------------------------------------------------------------
(* The child.                                                              *)

Compose == flow = "launch" /\ step \in {"config", "up"}
Git == flow \in {"revision", "commit"}
Fetches == step \in {"fetch", "fetch heads"}
Helped == Compose \/ Fetches \/ flow = "build"
OwnGroup == Git \/ flow \in {"broadcast", "build"}
Drains == Compose \/ OwnGroup
\* a build takes what arrives within a moment of the exit and waits for nobody
WaitsForPipe == flow # "build"
HasChild == child.main # "none"
Concluded(answer) ==
    /\ step' = answer
    /\ child' = NoChild
    /\ UNCHANGED <<flow, left, project, edits>>

(* A step whose child is not there yet starts it; the limit starts anew,   *)
(* except that the broadcast's two children share one.                     *)
Steps == {"context", "config", "count", "context again", "up", "inspect", "exec", "read",
          "init", "fetch", "resolve", "fetch heads", "present", "checkout", "head", "build"}

Start ==
    /\ step \in Steps /\ ~HasChild
    /\ child' = [NoChild EXCEPT !.main = "runs", !.plugin = IF Helped THEN "runs" ELSE "none"]
    /\ left' = IF step = "exec" THEN left ELSE Budget
    /\ project' = IF step = "up" THEN [project EXCEPT !.used = project.now] ELSE project
    /\ UNCHANGED <<flow, step, edits>>

(* It writes until the pipe is full; then it waits, for whoever reads.     *)
Writes ==
    /\ child.main = "runs" /\ ~child.full
    /\ child' = IF child.pipe = PipeSize THEN [child EXCEPT !.full = TRUE]
                ELSE [child EXCEPT !.pipe = @ + 1]
    /\ UNCHANGED <<flow, step, left, project, edits>>

Drain ==
    /\ Drains /\ child.pipe > 0
    /\ child' = [child EXCEPT !.pipe = 0, !.full = FALSE]
    /\ UNCHANGED <<flow, step, left, project, edits>>

PluginExits ==
    /\ child.plugin = "runs" /\ ~child.full
    /\ child' = [child EXCEPT !.plugin = "none"]
    /\ UNCHANGED <<flow, step, left, project, edits>>

(* It ends after its plugin or helper; Buildx may leave a child behind. *)
Exits ==
    /\ child.main = "runs" /\ (child.plugin = "none" \/ ~WaitsForPipe) /\ ~child.full
    /\ child' = [child EXCEPT !.main = "exited"]
    /\ UNCHANGED <<flow, step, left, project, edits>>

TimePasses ==
    /\ child.main = "runs" /\ left > 0
    /\ left' = left - 1
    /\ UNCHANGED <<flow, step, child, project, edits>>

-----------------------------------------------------------------------------
(* The runners: run_command_bounded, run_compose_bounded, run_bounded, run *)
(* (of deploy-git) and run_build.                                          *)

(* (mutant) The time limit is not looked at. *)
TimeUpNever ==
    /\ child.main = "killed"
    /\ UNCHANGED cmdVars

KilledChild(how) ==
    /\ child' = [child EXCEPT !.main = how, !.plugin = IF OwnGroup THEN "none" ELSE @]
    /\ UNCHANGED <<flow, step, left, project, edits>>

(* The deadline: the child is killed, with its group where it has one; the *)
(* short read returns at once, the others still wait for their readers,    *)
(* that is for everybody who holds the pipe.                               *)
TimeUp ==
    /\ child.main = "runs" /\ left = 0
    /\ IF Drains THEN KilledChild("killed") ELSE Concluded("timed out")

(* What a fetch brings is measured while it arrives. *)
TooLarge ==
    /\ Fetches /\ child.main = "runs" /\ left > 0
    /\ KilledChild("too large")

PipeClosed == WaitsForPipe => child.plugin = "none" /\ (Drains => child.pipe = 0)

TimedOut ==
    /\ child.main \in {"killed", "too large"} /\ PipeClosed
    /\ Concluded(IF child.main = "killed" THEN "timed out" ELSE "too large")

(* What follows a child that ended.  Any step may fail: the context points *)
(* elsewhere, the configuration is invalid, the container is gone or not   *)
(* running, the command returns an error, the tree is too large.           *)
CheckoutStep == CASE step = "init" -> "fetch"
                  [] step = "fetch" /\ flow = "revision" -> "resolve"
                  [] step = "fetch heads" -> "present"
                  [] step \in {"fetch", "resolve", "present"} -> "checkout"
                  [] step = "checkout" -> "head"
                  [] OTHER -> "succeeded"

NextStep == CASE step = "context" -> "config"
              [] step = "config" -> "count"
              [] step = "count" -> "context again"
              [] step = "context again" -> "up"
              [] step = "inspect" -> "exec"
              [] Git -> CheckoutStep
              [] OTHER -> "succeeded"

(* (mutant) The fingerprint is not compared. *)
MayGoOnUnreviewed ==
    step = "count" => ~project.stack /\ ~project.warned

(* `config_value` and `preview_services`: the fingerprint and the warnings *)
(* are those of one reading of the files.                                  *)
SeenNow == [project EXCEPT !.seen = project.now, !.since = FALSE, !.warned = ~project.ports]

(* The second preview must show what was reviewed, no container of the     *)
(* project, and only bindings that Harpoon forwards.                       *)
MayGoOn ==
    step = "count" => project.seen = project.reviewed /\ ~project.stack /\ ~project.warned

Ended ==
    /\ child.main = "exited" /\ PipeClosed
    /\ \/ Concluded("failed")
       \* a server that does not serve a commit by its id: every branch, then
       \/ flow = "commit" /\ step = "fetch" /\ Concluded("fetch heads")
       \/ /\ step' = IF MayGoOn THEN NextStep ELSE "refused"
          /\ child' = NoChild
          /\ project' = IF step = "config" THEN SeenNow ELSE project
          /\ UNCHANGED <<flow, left, edits>>

(* The project meanwhile (external): its files are edited, its ports with  *)
(* them; other commands create or remove its containers.                   *)
Edited ==
    /\ flow = "launch" /\ edits < MaxEdits /\ step \in Steps
    /\ edits' = edits + 1
    /\ \/ \E p \in BOOLEAN : project' =
             [project EXCEPT !.now = edits + 1, !.ports = p, !.since = step # "context"]
       \/ project' = [project EXCEPT !.stack = ~@]
    /\ UNCHANGED <<flow, step, child, left>>

CommandsNext ==
    \/ Start \/ Writes \/ Drain \/ PluginExits \/ Exits \/ TimePasses
    \/ TimeUp \/ TooLarge \/ TimedOut \/ Ended \/ Edited

-----------------------------------------------------------------------------
(* Properties.                                                             *)

(* What is brought up is what the person reviewed, or was edited after the *)
(* launch looked a second time; and it looked (launch_compose_project).    *)
LaunchedAsReviewed ==
    project.used # NotSeen => /\ project.seen = project.reviewed
                              /\ project.used # project.reviewed => project.since

(* A command that was started ends, however much its child writes and     *)
(* whether or not it ends by itself - unless a Compose plugin survives its *)
(* CLI, or a helper its Git, and never ends, for which they wait           *)
(* (run_bounded, run_command_bounded, run_compose_bounded, run, run_build). *)
CommandsAnswer ==
    \/ <>[](child.plugin = "runs")
    \/ HasChild ~> (step \notin Steps)
=============================================================================
