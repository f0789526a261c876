------------------------------ MODULE Readiness ------------------------------
(***************************************************************************)
(* Starting a container on a leased port and deciding that it answers: the *)
(* steps start_new, preliminary_check and final_check of the Docker        *)
(* backend, the health loop (deploy/src/health.rs), the probe with its     *)
(* marker and its baseline (probe.rs), the proof of the path from this     *)
(* host to the container (attribution.rs), the check of the host listener  *)
(* (forwarder.rs) and the allocation of ports (Ports).                     *)
(*                                                                         *)
(* Every question asked of Docker, of lsof, of the guest or of the port is *)
(* a step, and between any two of them the surroundings may change: a      *)
(* foreign listener comes or goes, the forwarder binds or loses the port,  *)
(* the container restarts or exits, the address the forwarder dials passes *)
(* to or from another machine.                                             *)
(***************************************************************************)
EXTENDS Ports, Sequences, SequencesExt

CONSTANTS Need,        \* HealthSpec.consecutive_ok
          MaxAttempts, \* attempts that fit before startup_deadline_ms
          MaxEvents    \* bound on the changes of the surroundings

ASSUME ReadinessAssumption ==
    Need \in Nat /\ MaxAttempts \in Nat \ {0} /\ MaxEvents \in Nat

VARIABLES kind,   \* "preliminary" or "final": the step that is running
          given,  \* what does not change during it (see Givens)
          world,  \* the surroundings
          events, \* how often they changed
          lease,  \* the port, whether it is the replacement, the last look
          chk,    \* the locals of health(), ContainerProbe and PathGate
          pc      \* the next question, or the outcome

vars == <<kind, given, world, events, lease, chk, pc>>

(* `echo`: the application echoes its marker.  `proof`: a path proof is    *)
(* configured (the engine published a discovered address).  `route`: what  *)
(* Docker's mapping implies.  `flaw`: at most one thing that is wrong from *)
(* the start.                                                              *)
Flaws == {"none", "mapping", "image", "sockets", "facts"}
Givens == [echo : BOOLEAN, proof : BOOLEAN, route : {"address", "relay"},
           flaw : Flaws]

(* `lo` and `any`: who listens on 127.0.0.1 and on the wildcard; `vm`: the *)
(* machine at the forwarder's address is the engine's VM; `run`: how often *)
(* the container was started, 0 before; `up`: whether it runs.             *)
Worlds == [lo : {"none", "forwarder", "foreign"}, any : {"none", "foreign"},
           vm : BOOLEAN, run : 0 .. MaxEvents + 1, up : BOOLEAN]

(* Both are settled when the container starts.  A deployment publishes on  *)
(* the guest's wildcard; only a check with a proof tells the routes apart. *)
NotYet == [echo |-> FALSE, proof |-> FALSE, route |-> "address", flaw |-> "none"]
Before == [lo |-> "none", any |-> "none", vm |-> TRUE, run |-> 0, up |-> FALSE]
GivensAtStart == { g \in Givens : g.proof \/ g.route = "address" }
WorldsAtStart == { w \in Worlds : w.run = 1 /\ w.up }

NoBase == 0
Idle == [n |-> 0, obs |-> <<>>, run |-> 0, base |-> NoBase, changed |-> FALSE,
         used |-> FALSE, proven |-> FALSE, closing |-> FALSE,
         hiccup |-> FALSE, verdict |-> "none"]
NoLook == [s \in Sources |-> {}]
Unleased == [port |-> NoPort, hint |-> NoPort, first |-> NoPort,
             look |-> NoLook]

Outcomes == {"passed_marker", "passed_path", "failed", "refused", "changed",
             "no_port"}

Init ==
    /\ kind \in {"preliminary", "final"}
    /\ given = NotYet
    /\ world = Before
    /\ events = 0
    /\ lease = Unleased
    /\ chk = Idle
    /\ pc = "allocate"

-----------------------------------------------------------------------------
(* The port.  Each look at the occupancy sees its own state of the host    *)
(* and of Docker: nothing holds them still between the look and the start. *)
Looks == { [s \in Sources |-> { p \in Range16 : f[p] = s }] :
             f \in [Range16 -> Sources \cup {"free"}] }

Leased(look, hint, first, p) ==
    /\ lease' = [port |-> p, hint |-> hint, first |-> first, look |-> look]
    /\ pc' = IF p = NoPort THEN "no_port" ELSE "start"

AllocatePort ==
    /\ pc = "allocate"
    /\ \E look \in Looks :
          Leased(look, NoPort, NoPort, Allocate(look, NoPort, {}))
    /\ UNCHANGED <<kind, given, world, events, chk>>

(* One replacement after a collision, and only where the release starts.   *)
MayReplace == kind = "final" /\ lease.first = NoPort

(* The container is created and started.  A port that Docker reports busy  *)
(* ends the preliminary check; the final start drops the container, gives  *)
(* the lease back and takes one other port, and fails at the second        *)
(* collision.                                                              *)
StartContainer ==
    /\ pc = "start"
    /\ \/ /\ given' \in GivensAtStart
          /\ world' \in WorldsAtStart
          /\ pc' = "mapping"
          /\ lease' = [Unleased EXCEPT !.first = lease.first]
       \/ /\ pc' = "failed"
          /\ UNCHANGED <<given, world, lease>>
       \/ /\ MayReplace
          /\ \E look \in Looks :
                Leased(look, lease.port + 1, lease.port,
                       Reallocate(look, lease.port))
          /\ UNCHANGED <<given, world>>
    /\ UNCHANGED <<kind, events, chk>>

-----------------------------------------------------------------------------
(* What Docker reports of the container.  Only a container that is the     *)
(* same one, started once, can be compared: ContainerBaseline::of is None  *)
(* when Docker does not report its image or its start.                     *)
Baseline == IF given.flaw = "facts" THEN NoBase ELSE world.run
Differs(base) == base # NoBase /\ base # world.run
MappingRight == given.flaw # "mapping"

(* inspect by id: the container is up, it is not, or Docker does not       *)
(* answer.                                                                 *)
Inspects == {"up", "down", "error"}
Inspected(i) == i = "error" \/ (i = "up") = world.up
Hiccup(i) == [chk EXCEPT !.hiccup = @ \/ i = "error"]

(* health(), before: a running container must publish exactly the lease.   *)
MappingBefore ==
    /\ pc = "mapping"
    /\ \E i \in Inspects :
          /\ Inspected(i)
          /\ chk' = Hiccup(i)
          /\ pc' = IF i = "error" THEN "failed"
                   ELSE IF i = "up" /\ ~MappingRight THEN "refused"
                   ELSE "attempt"
    /\ UNCHANGED <<kind, given, world, events, lease>>

(* A response that may count: who gave it, and in which run of the         *)
(* container.  Nothing is an attempt that did not count.                   *)
Response(by) == [by |-> by, run |-> world.run]
Nothing == [by |-> "nobody", run |-> 0]

(* The loop of run_health after one attempt, with the response or Nothing. *)
(* A failure ends the run of successes; the deadline is met when no other  *)
(* attempt fits.                                                           *)
RunAfter(run, ok) == IF ok THEN run + 1 ELSE 0

Count(c, by) ==
    LET run == RunAfter(c.run, by # Nothing)
        n == c.n + 1
        verdict == IF Need > 0 /\ run >= Need THEN "healthy"
                   ELSE IF n >= MaxAttempts THEN "not_healthy" ELSE "none"
    IN  [c EXCEPT !.n = n, !.run = run, !.verdict = verdict,
                  !.obs = Append(@, by)]

(* CheckEvidence::validate: the verdict re-derived from the observations.  *)
Trailing(obs) ==
    CHOOSE k \in 0 .. Len(obs) :
        /\ \A i \in Len(obs) - k + 1 .. Len(obs) : obs[i] # Nothing
        /\ k = Len(obs) \/ obs[Len(obs) - k] = Nothing
Validates(c) ==
    /\ c.verdict = "healthy"
    /\ Need > 0
    /\ Len(c.obs) > 0
    /\ Trailing(c.obs) >= Need
    /\ c.run = Trailing(c.obs)

(* Where health() goes with the evidence so far.                           *)
After(c) ==
    IF c.verdict = "none" THEN "attempt"
    ELSE IF c.changed THEN "changed"
    ELSE IF Validates(c) THEN "inspect_after"
    ELSE "failed"
Settle(c, by) == LET d == Count(c, by) IN chk' = d /\ pc' = After(d)

(* ContainerProbe::attempt, the question to Docker.  An exit ends the      *)
(* check; a container that changed makes this and every later attempt      *)
(* fail; an error of Docker's is a failed attempt.                         *)
AttemptInspect ==
    /\ pc = "attempt"
    /\ \E i \in Inspects :
          /\ Inspected(i)
          /\ LET c == Hiccup(i) IN
             CASE i = "down" ->
                    /\ chk' = [c EXCEPT !.verdict = "exited"]
                    /\ pc' = IF c.changed THEN "changed" ELSE "failed"
               [] i = "error" -> Settle(c, Nothing)
               [] i = "up" /\ given.proof /\ Differs(c.base) ->
                    Settle([c EXCEPT !.changed = TRUE], Nothing)
               [] OTHER ->
                    /\ chk' = IF given.proof /\ c.base = NoBase
                              THEN [c EXCEPT !.base = Baseline] ELSE c
                    /\ pc' = "request"
    /\ UNCHANGED <<kind, given, world, events, lease>>

(* Who a connection to 127.0.0.1:port reaches.  The specific listener has  *)
(* precedence over the wildcard.  A forwarder that is not the process of   *)
(* this engine's sockets reaches another engine's VM; one that dials an    *)
(* address reaches the machine that has it; the relay goes over vsock, to  *)
(* the VM alone.                                                           *)
ReachedBy ==
    CASE world.lo = "foreign" -> "foreign"
      [] world.lo = "none" -> IF world.any = "foreign" THEN "foreign" ELSE "nobody"
      [] OTHER ->
            IF given.flaw = "sockets" \/ (given.route = "address" /\ ~world.vm)
            THEN "other"
            ELSE IF world.up THEN "ours" ELSE "nobody"

(* Our application echoes its own marker or none; a listener that is not   *)
(* ours carries none, or that of another container.                        *)
Marks(by) ==
    IF by = "ours" THEN {IF given.echo THEN "mine" ELSE "none"}
    ELSE {"none", "stale"}

(* get_marked and get_expecting: what one response counts for.  "gate":    *)
(* only when the path is proven.                                           *)
Judge(mark) ==
    CASE mark = "mine" -> "counts"
      [] mark = "none" /\ given.proof /\ chk.base # NoBase -> "gate"
      [] OTHER -> "fails"

(* One request with one deadline for the whole exchange: there is a        *)
(* response only when somebody is there and answers in time with a         *)
(* complete head.  `ok`: it did, and with a 2xx status.                    *)
Answered(ok) == ReachedBy # "nobody" /\ ok

(* The request of an attempt, and what becomes of its response.            *)
AttemptRequest ==
    /\ pc = "request"
    /\ \E mark \in Marks(ReachedBy), ok \in BOOLEAN :
          CASE ~Answered(ok) \/ Judge(mark) = "fails" ->
                  Settle(chk, Nothing)
            [] Answered(ok) /\ Judge(mark) = "counts" ->
                  Settle(chk, Response(ReachedBy))
            [] Answered(ok) /\ Judge(mark) = "gate" /\ chk.proven ->
                  Settle([chk EXCEPT !.used = TRUE],
                         Response(ReachedBy))
            [] OTHER ->
                  \* the response is kept while its path is proven
                  /\ chk' = [chk EXCEPT !.obs = Append(@, Response(ReachedBy))]
                  /\ pc' = "prove_mapping"
    /\ UNCHANGED <<kind, given, world, events, lease>>

-----------------------------------------------------------------------------
(* PathGate: prove_now asks Docker, lsof twice and the guest, in this      *)
(* order.  It runs for the first response that needs it and again, with    *)
(* `closing`, when the check has passed.                                   *)
Unproven(c) ==
    IF c.closing THEN chk' = c /\ pc' = "refused"
    ELSE Settle([c EXCEPT !.obs = Front(@)], Nothing)

(* Docker, lsof or the management channel does not answer, in time or with *)
(* anything but one well-formed reply: nothing is proven.                  *)
Unanswered == Unproven([chk EXCEPT !.hiccup = TRUE])

ProofStep(here, holds, next) ==
    /\ pc = here
    /\ \/ holds /\ pc' = next /\ chk' = chk
       \/ ~holds /\ Unproven(chk)
       \/ Unanswered
    /\ UNCHANGED <<kind, given, world, events, lease>>

(* verify_forwarder: exactly one listener, on 127.0.0.1, the forwarder's.  *)
ListenerIsForwarder == world.lo = "forwarder" /\ world.any = "none"

(* (mutant) The owner of the sockets is not asked for.                     *)
SocketsTrusted == TRUE

(* The Docker and the management socket are that process's.                *)
SocketsOwned == given.flaw # "sockets"

(* challenge_address and relay_present: the challenge went to the VM over  *)
(* vsock, so only the VM can answer it at the address.                     *)
PathReachesGuest == given.route = "relay" \/ world.vm

ProveMapping ==
    ProofStep("prove_mapping", world.up /\ MappingRight, "prove_listener")
ProveListener == ProofStep("prove_listener", ListenerIsForwarder, "prove_sockets")
ProveSockets == ProofStep("prove_sockets", SocketsOwned, "prove_guest")
ProveGuest ==
    \/ chk.closing /\ ProofStep("prove_guest", PathReachesGuest, "listener_after")
    \/ /\ ~chk.closing /\ pc = "prove_guest"
       /\ \/ /\ PathReachesGuest
             /\ Settle([chk EXCEPT !.obs = Front(@), !.proven = TRUE,
                                   !.used = TRUE], Last(chk.obs))
          \/ ~PathReachesGuest /\ Unproven(chk)
          \/ Unanswered
       /\ UNCHANGED <<kind, given, world, events, lease>>

(* created_images, by the container's name: the image it was created from. *)
ImageIsCreated == given.flaw # "image"

(* health(), after: the mapping again and, when an unmarked response       *)
(* counted, the same run of the same container from the created image,     *)
(* then the path once more.                                                *)
InspectAfter ==
    /\ pc = "inspect_after"
    /\ \E i \in Inspects :
          /\ Inspected(i)
          /\ LET right == /\ i = "up" /\ MappingRight
                          /\ chk.used => /\ ~Differs(chk.base)
                                         /\ ImageIsCreated
             IN  /\ chk' = [Hiccup(i) EXCEPT !.closing = TRUE]
                 /\ pc' = CASE i = "error" -> "failed"
                            [] i # "error" /\ ~right -> "refused"
                            [] OTHER -> IF chk.used THEN "prove_mapping"
                                        ELSE "listener_after"
    /\ UNCHANGED <<kind, given, world, events, lease>>

(* The host listener, last; then the evidence gets its label.              *)
ListenerAfter ==
    /\ pc = "listener_after"
    /\ \/ /\ pc' = IF ~ListenerIsForwarder THEN "refused"
                   ELSE IF chk.used THEN "passed_path" ELSE "passed_marker"
          /\ UNCHANGED chk
       \/ Unanswered
    /\ UNCHANGED <<kind, given, world, events, lease>>

-----------------------------------------------------------------------------
(* Changes of the surroundings, from the container's start to the outcome. *)
Change(w) ==
    /\ events < MaxEvents
    /\ world.run > 0 /\ pc \notin Outcomes
    /\ world' = w
    /\ events' = events + 1
    /\ UNCHANGED <<kind, given, lease, chk, pc>>

ForwarderBinds == world.lo = "none" /\ Change([world EXCEPT !.lo = "forwarder"])
ForeignBinds ==
    \/ world.lo = "none" /\ Change([world EXCEPT !.lo = "foreign"])
    \/ world.any = "none" /\ Change([world EXCEPT !.any = "foreign"])
ListenerLeaves ==
    \/ world.lo # "none" /\ Change([world EXCEPT !.lo = "none"])
    \/ world.any # "none" /\ Change([world EXCEPT !.any = "none"])
AddressMoves == Change([world EXCEPT !.vm = ~@])
ContainerRestarts == Change([world EXCEPT !.run = @ + 1, !.up = TRUE])
ContainerExits == world.up /\ Change([world EXCEPT !.up = FALSE])

Ask ==
    \/ AllocatePort \/ StartContainer \/ MappingBefore \/ AttemptInspect
    \/ AttemptRequest \/ ProveMapping \/ ProveListener \/ ProveSockets
    \/ ProveGuest \/ InspectAfter \/ ListenerAfter

Surroundings ==
    \/ ForwarderBinds \/ ForeignBinds \/ ListenerLeaves \/ AddressMoves
    \/ ContainerRestarts \/ ContainerExits

Next == Ask \/ Surroundings

Spec == Init /\ [][Next]_vars

-----------------------------------------------------------------------------
Counted == Len(chk.obs) - chk.run + 1 .. Len(chk.obs)

(* A check that passed is about the container it started.  With the marker *)
(* every response that counted was the container's own.  By the path, all  *)
(* of them were when nothing changed on the way, and one change of the     *)
(* surroundings, wherever it falls between two questions, is not enough    *)
(* for a check in which no response was the container's, where two         *)
(* successes in a row are required, as in the code (health.rs:44).         *)
Attributed ==
    /\ pc = "passed_marker" => \A i \in Counted : chk.obs[i].by = "ours"
    /\ pc = "passed_path" /\ events = 0 => \A i \in Counted : chk.obs[i].by = "ours"
    /\ pc = "passed_path" /\ events = 1 => \E i \in Counted : chk.obs[i].by = "ours"

(* The port is the nearest free one from the hint by every source of the   *)
(* look, the contested port is never taken again, and the search gives up  *)
(* only when every other port of the range is taken (ports.rs).            *)
PortPromised ==
    pc \in {"start", "no_port"} =>
        Promised(lease.look, lease.hint,
                 IF lease.first = NoPort THEN {} ELSE {lease.first}, lease.port)
=============================================================================
