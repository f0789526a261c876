------------------------------- MODULE Releases -------------------------------
(***************************************************************************)
(* The releases of one application over many deployments: which container  *)
(* the records call serving (deploy/src/serving.rs), which earlier release *)
(* a rollback may bring back (rollback.rs), what a restoration after a     *)
(* failed cutover recreates (deploy-docker backend.rs), and the teardown   *)
(* of one release (deploy-cli commands.rs).                                *)
(*                                                                         *)
(* A deployment is one step here: the module Engine has its inside.  A     *)
(* teardown is taken apart: every record and every call is a step, and the *)
(* process may die between any two.  A release is named by the deployment  *)
(* that built it.                                                          *)
(***************************************************************************)
EXTENDS Integers, FiniteSets

CONSTANTS Deps,       \* deployments, numbered in the order they are created
          HostPorts,  \* the range that ports are leased from
          MaxTeardowns, \* bound on the teardowns begun
          MaxMeddling \* bound on what users and the clock do

ASSUME ReleasesAssumption == Deps \subseteq Nat \ {0} /\ HostPorts \subseteq Nat \ {0}
                             /\ MaxTeardowns \in Nat /\ MaxMeddling \in Nat

Conts == Deps \X {"main", "restored"}
ImageOf(d) == <<d, "image">>
Resources == Conts \union { ImageOf(d) : d \in Deps }
NoRelease == 0

VARIABLES
    deps,    \* the deployments
    entry,   \* the ledger: the state of each container's and image's entry
    leases,  \* the ledger: <<deployment, port, state>>, until released
    docker,  \* per container: its state, port and release; per image: whether it is there
    clock,   \* the wall clock, and whether it was ever set back
    td,      \* the teardown in progress
    meddled, \* what users and the clock did so far
    served,  \* history: the container put into service last
    removed, \* history: the containers each teardown removed
    loose    \* history: the containers that a person last started on a port without a lease

relVars == <<deps, entry, leases, docker, clock, td, meddled, served, removed, loose>>

NewDep == [status |-> "none", rollbackTo |-> NoRelease, replaces |-> NoRelease,
           recovery |-> "none", pinned |-> [port |-> 0, of |-> NoRelease], since |-> 0]
NoContainer == [is |-> "none", port |-> 0, of |-> NoRelease]
NoTeardown == [dep |-> 0, phase |-> "none", todo |-> {}, cur |-> <<0, "main">>,
               act |-> "none", result |-> "none", unmapped |-> {}, begun |-> 0]

ReleasesInit ==
    /\ deps = [d \in Deps |-> NewDep]
    /\ entry = [r \in Resources |-> "none"]
    /\ leases = {}
    /\ docker = [r \in Resources |-> NoContainer]
    /\ clock = [now |-> 1, back |-> FALSE]
    /\ td = NoTeardown
    /\ meddled = 0 /\ served = <<0, "main">> /\ removed = {} /\ loose = {}

-----------------------------------------------------------------------------
(* What the records say.                                                   *)

\* Recovery::service_restored
ServiceReturned(d) == deps[d].recovery \in {"Restored", "RestoredUnverified"}
Succeeded(d) == deps[d].status = "Succeeded"
LiveEntry(r) == entry[r] \notin {"none", "Released"}

\* (mutant) a rollback counts from the day its release was built
SinceOfRelease(c) ==
    IF c[2] = "main" /\ deps[c[1]].rollbackTo # NoRelease
    THEN deps[deps[c[1]].rollbackTo].since ELSE deps[c[1]].since
Since(c) == deps[c[1]].since

\* The containers that may be serving; the latest since, then the greatest
\* owner, serves.
MayServe == { c \in Conts : /\ LiveEntry(c)
                            /\ IF c[2] = "main" THEN Succeeded(c[1])
                               ELSE ServiceReturned(c[1]) /\ deps[c[1]].replaces # NoRelease }
ServesAfter(c, o) == Since(c) > Since(o) \/ (Since(c) = Since(o) /\ c[1] > o[1])
IsServed(c) == c \in MayServe /\ \A o \in MayServe \ {c} : ServesAfter(c, o)

ReleaseServed(c) ==
    IF c[2] = "restored" THEN deps[c[1]].replaces
    ELSE IF deps[c[1]].rollbackTo # NoRelease THEN deps[c[1]].rollbackTo ELSE c[1]

\* Serving.config: of the deployment itself, but of the release's deployment
\* after a restoration.
ConfigOf(c) == IF c[2] = "restored" THEN deps[ReleaseServed(c)].pinned ELSE deps[c[1]].pinned

\* retained_releases: the ones a rollback may go to while c serves.
Target(t, c) ==
    /\ Succeeded(t) /\ deps[t].rollbackTo = NoRelease
    /\ t # ReleaseServed(c) /\ deps[t].since < deps[ReleaseServed(c)].since
    /\ LiveEntry(ImageOf(t))

\* operation_blockers
MayBeDown(d) == deps[d].status = "Failed" /\ deps[d].replaces # NoRelease /\ ~ServiceReturned(d)
Blocked == \/ \E r \in Resources : entry[r] \in {"Failed", "Refused", "Attempted"}
           \/ \E l \in leases : l[3] = "attempted"
           \/ \E d \in Deps : MayBeDown(d)

-----------------------------------------------------------------------------
(* Deployments, as their runs leave them.                                  *)

IsRunning(c) == docker[c].is = "running"
MappedBy(cs) == { docker[c].port : c \in { c \in cs : IsRunning(c) } }
Mapped == MappedBy(Conts)
PortLeased(p) == \E l \in leases : l[2] = p
FreePorts == HostPorts \ (Mapped \union { l[2] : l \in leases })
NewPort(p) == p \in FreePorts /\ \A q \in FreePorts : p <= q

\* The journal's lock is free and the deployment is the next one.
Runs(d) ==
    /\ td.phase = "none" /\ deps[d].status = "none"
    /\ \A e \in Deps : e < d => deps[e].status # "none"
    /\ ~Blocked /\ FreePorts # {}
    /\ clock' = [clock EXCEPT !.now = @ + 1]
    /\ UNCHANGED <<td, meddled, removed, loose>>

\* What `d` makes: the image unless it is a rollback to `t`, and the container.
Made(d, t) == IF t = NoRelease THEN {<<d, "main">>, ImageOf(d)} ELSE {<<d, "main">>}
Of(d, t) == IF t = NoRelease THEN d ELSE t

Serves(d, t, port, stopped, replaces) ==
    /\ deps' = [deps EXCEPT ![d] = [NewDep EXCEPT !.status = "Succeeded", !.rollbackTo = t,
                   !.replaces = replaces, !.since = clock.now,
                   !.pinned = [port |-> port, of |-> Of(d, t)]]]
    /\ entry' = [r \in Resources |-> IF r \in Made(d, t) THEN "Created" ELSE entry[r]]
    /\ leases' = leases \union {<<d, port, "held">>}
    /\ docker' = [r \in Resources |->
                     IF r \in Made(d, t)
                     THEN [is |-> IF r \in Conts THEN "running" ELSE "there",
                           port |-> port, of |-> Of(d, t)]
                     ELSE IF r \in stopped THEN [docker[r] EXCEPT !.is = "exited"] ELSE docker[r]]
    /\ served' = <<d, "main">>

\* A first deployment: no container of the application is on record.
First(d) ==
    /\ Runs(d)
    /\ \A c \in Conts : ~LiveEntry(c)
    /\ \E p \in HostPorts : NewPort(p) /\ Serves(d, NoRelease, p, {}, NoRelease)

\* `replace`, or `rollback` to the release t.  What serves is stopped first;
\* a rollback needs the target's image.
Prepared(d, t, c) ==
    /\ Runs(d) /\ IsServed(c)
    /\ t # NoRelease => Target(t, c) /\ docker[ImageOf(t)].is # "none"

CutOver(d, t, c) ==
    /\ Prepared(d, t, c) /\ IsRunning(c)
    /\ \E p \in HostPorts : NewPort(p) /\ Serves(d, t, p, {c}, ReleaseServed(c))

\* restore_inner, of what c served: the pin is used only where Docker, if it
\* answers, and the leases agree with it.
Holders(c) == {ReleaseServed(c), c[1]}
HeldBefore(c) == { l[2] : l \in { l \in leases : l[1] \in Holders(c) } }
PinTrusted(c, answers) ==
    /\ answers /\ docker[c].is # "none" => docker[c].port = ConfigOf(c).port
    /\ HeldBefore(c) = {} \/ ConfigOf(c).port \in HeldBefore(c)
HeldByOther(c) == \E l \in leases : l[2] = ConfigOf(c).port /\ l[1] \notin Holders(c)

Restoration(c, answers) ==
    IF docker[ImageOf(ReleaseServed(c))].is = "none" \/ ~PinTrusted(c, answers)
    THEN {"NotAttempted"}
    ELSE IF HeldByOther(c) THEN {"RestoreFailed"}
    ELSE {"RestoreFailed"} \union
         (IF ConfigOf(c).port \in MappedBy(Conts \ {c}) THEN {}
          ELSE {"Restored", "RestoredUnverified"})

\* The cutover failed: what served is stopped, or was not running; the
\* candidate is gone, and one restoration is made from the pin.
NotCutOver(d, t, c) ==
    /\ Prepared(d, t, c)
    /\ \E answers \in BOOLEAN : \E outcome \in Restoration(c, answers) :
         LET back == outcome \in {"Restored", "RestoredUnverified"}
             port == ConfigOf(c).port
             made == (Made(d, t) \ Conts) \union (IF back THEN {<<d, "restored">>} ELSE {})
         IN  /\ deps' = [deps EXCEPT ![d] = [NewDep EXCEPT !.status = "Failed", !.rollbackTo = t,
                            !.replaces = ReleaseServed(c), !.recovery = outcome,
                            !.since = clock.now]]
             /\ entry' = [r \in Resources |-> IF r = <<d, "main">> THEN "Released"
                             ELSE IF r \in made THEN "Created" ELSE entry[r]]
             /\ leases' = IF back /\ ~PortLeased(port)
                          THEN leases \union {<<d, port, "held">>} ELSE leases
             /\ docker' = [r \in Resources |->
                  IF r \in made
                  THEN [is |-> IF r \in Conts THEN "running" ELSE "there", port |-> port,
                        of |-> IF r \in Conts THEN ReleaseServed(c) ELSE d]
                  ELSE IF r = c /\ IsRunning(c) THEN [docker[r] EXCEPT !.is = "exited"] ELSE docker[r]]
             /\ served' = IF back THEN <<d, "restored">> ELSE served

-----------------------------------------------------------------------------
(* The teardown of the release d.                                          *)

\* (mutant) every container of a deployment that replaced the release
ContainersReplacing(d) ==
    { c \in Conts : entry[c] # "none" /\ \/ c[1] = d
                                         \/ deps[c[1]].replaces = d }

\* containers_of_release: its own, those of rollbacks to it, and those that a
\* restoration made for it.
ContainersOf(d) ==
    { c \in Conts : entry[c] # "none" /\
        \/ c[1] = d
        \/ deps[c[1]].rollbackTo = d /\ Succeeded(c[1])
        \/ deps[c[1]].replaces = d /\ c[2] = "restored" /\ ServiceReturned(c[1]) }
LeasesOf(d) == { l \in leases : \/ l[1] = d
                                \/ deps[l[1]].rollbackTo = d /\ Succeeded(l[1]) }
OpenOf(d) == { r \in ContainersOf(d) \union {ImageOf(d)} : LiveEntry(r) }
ContainersGone(d) == \A c \in ContainersOf(d) : ~LiveEntry(c)

\* locate: by the recorded id, and then by name and labels.
Located(r) == CASE docker[r].is = "none" -> "MarkAbsent"
                [] docker[r].is = "altered" -> "Refuse"
                [] OTHER -> "Remove"

Unchanged == UNCHANGED <<deps, clock, meddled, served, loose>>
TeardownOver == td' = [NoTeardown EXCEPT !.begun = td.begun]
TearGoes(phase) == td' = [td EXCEPT !.phase = phase, !.act = "none"]

\* Refused unless the deployment succeeded and nothing of it was refused before.
\* Docker is listed once for the containers.
Teardown(d) ==
    /\ td.phase = "none" /\ td.begun < MaxTeardowns /\ Succeeded(d)
    /\ OpenOf(d) # {} \/ LeasesOf(d) # {}
    /\ \A r \in OpenOf(d) : entry[r] # "Refused"
    /\ td' = [NoTeardown EXCEPT !.dep = d, !.phase = "containers", !.begun = td.begun + 1,
                !.todo = { <<c, Located(c)>> : c \in OpenOf(d) \intersect Conts }]
    /\ UNCHANGED <<entry, leases, docker, removed>> /\ Unchanged

\* execute_actions for one resource: the attempt, the call, the result.
Attempt(r, act) ==
    /\ entry' = [entry EXCEPT ![r] = "Attempted"]
    /\ td' = [td EXCEPT !.cur = r, !.act = act, !.todo = td.todo \ {<<r, act>>},
                        !.result = "none"]
    /\ UNCHANGED <<leases, docker, removed>> /\ Unchanged

TearContainer ==
    /\ td.phase = "containers" /\ td.act = "none"
    /\ \E x \in td.todo : Attempt(x[1], x[2])

\* The object is looked at again by its id; a container that runs is stopped
\* before it is removed.  An image in use is refused by Docker.
TearCall ==
    /\ td.act # "none" /\ td.result = "none"
    /\ LET r == td.cur
           now == IF td.act = "Remove" THEN Located(r) ELSE td.act
       IN  \/ /\ now # "Remove"
              /\ td' = [td EXCEPT !.result = IF now = "Refuse" THEN "Refused" ELSE "Released"]
              /\ UNCHANGED <<docker, removed>>
           \/ /\ now = "Remove" /\ docker[r].is # "shared"
              /\ docker' = [docker EXCEPT ![r].is = "none"]
              /\ removed' = IF r \in Conts THEN removed \union {<<r, docker[r].of, td.dep>>}
                            ELSE removed
              /\ \E result \in {"Released", "Failed"} : td' = [td EXCEPT !.result = result]
           \/ /\ now = "Remove"
              /\ docker' = [docker EXCEPT ![r].is = IF @ = "running" THEN "exited" ELSE @]
              /\ td' = [td EXCEPT !.result = "Failed"]
              /\ UNCHANGED removed
    /\ UNCHANGED <<entry, leases>> /\ Unchanged

\* The first container that does not come out clean ends the phase.
TearResult ==
    /\ td.result # "none"
    /\ entry' = [entry EXCEPT ![td.cur] = td.result]
    /\ td' = [td EXCEPT !.act = "none", !.result = "none",
                        !.todo = IF td.result = "Released" THEN td.todo ELSE {}]
    /\ UNCHANGED <<leases, docker, removed>> /\ Unchanged

\* Image and leases are left alone while a container is there.
AfterContainers ==
    /\ td.phase = "containers" /\ td.act = "none" /\ td.todo = {}
    /\ IF ContainersGone(td.dep) THEN TearGoes("image") ELSE TeardownOver
    /\ UNCHANGED <<entry, leases, docker, removed>> /\ Unchanged

\* A fresh listing; an image that a container still uses is kept.
TearImage ==
    /\ td.phase = "image" /\ td.act = "none"
    /\ LET i == ImageOf(td.dep)
       IN  /\ LiveEntry(i) /\ entry[i] \notin {"Failed", "Refused"} /\ docker[i].is # "shared"
           /\ Attempt(i, Located(i))

TearImageDone ==
    /\ td.phase = "image" /\ td.act = "none"
    /\ LET i == ImageOf(td.dep)
       IN  ~LiveEntry(i) \/ entry[i] \in {"Failed", "Refused"} \/ docker[i].is = "shared"
    /\ TearGoes("leases")
    /\ UNCHANGED <<entry, leases, docker, removed>> /\ Unchanged

\* (mutant) Docker's mappings are not asked for
TearPortsUnasked ==
    /\ td.phase = "leases"
    /\ td' = [td EXCEPT !.phase = "release", !.unmapped = { l[2] : l \in LeasesOf(td.dep) }]
    /\ UNCHANGED <<entry, leases, docker, removed>> /\ Unchanged

\* Docker is asked once for the ports it maps; the leases of the others go.
TearPorts ==
    /\ td.phase = "leases"
    /\ td' = [td EXCEPT !.phase = "release",
                        !.unmapped = { l[2] : l \in LeasesOf(td.dep) } \ Mapped]
    /\ UNCHANGED <<entry, leases, docker, removed>> /\ Unchanged

\* The attempt at a lease and its result are two records (execute_actions).
TearLease ==
    /\ td.phase = "release"
    /\ \E l \in LeasesOf(td.dep) :
          /\ l[2] \in td.unmapped
          /\ leases' = (leases \ {l}) \union
                       (IF l[3] = "held" THEN {<<l[1], l[2], "attempted">>} ELSE {})
    /\ UNCHANGED <<entry, docker, td, removed>> /\ Unchanged

\* All is done, or the process dies, a listing fails, or a journal write does.
TeardownEnds ==
    /\ td.phase # "none"
    /\ TeardownOver
    /\ UNCHANGED <<entry, leases, docker, removed>> /\ Unchanged

-----------------------------------------------------------------------------
(* Users of the same Docker, and the clock (external).                     *)
Meddles == meddled < MaxMeddling /\ meddled' = meddled + 1

UserChanges(r) ==
    /\ Meddles
    /\ \E is \in IF r \in Conts THEN {"exited", "altered", "none"} ELSE {"shared", "none"} :
          /\ docker[r].is \in IF is = "exited" THEN {"running"}
                              ELSE {"running", "exited", "there"}
          /\ docker' = [docker EXCEPT ![r].is = is]
    /\ UNCHANGED <<deps, entry, leases, clock, td, served, removed, loose>>

\* A stopped container is started again, in Docker or from the desktop
\* (start_container, restart_container), where Docker has its port free.
UserStarts(c) ==
    /\ docker[c].is = "exited" /\ docker[c].port \notin Mapped
    /\ docker' = [docker EXCEPT ![c].is = "running"]
    /\ loose' = IF PortLeased(docker[c].port) /\ docker[c].port \notin td.unmapped
                THEN loose \ {c} ELSE loose \union {c}
    /\ UNCHANGED <<deps, entry, leases, clock, td, meddled, served, removed>>

SetBack ==
    /\ Meddles
    /\ clock' = [now |-> 0, back |-> TRUE]
    /\ UNCHANGED <<deps, entry, leases, docker, td, served, removed, loose>>

ReleasesNext ==
    \/ \E d \in Deps :
         \/ First(d) \/ Teardown(d)
         \/ \E t \in Deps \union {NoRelease}, c \in Conts : CutOver(d, t, c) \/ NotCutOver(d, t, c)
    \/ TearContainer \/ TearCall \/ TearResult \/ AfterContainers
    \/ TearImage \/ TearImageDone \/ TearPorts \/ TearLease \/ TeardownEnds
    \/ \E r \in Resources : UserChanges(r)
    \/ \E c \in Conts : UserStarts(c)
    \/ SetBack

-----------------------------------------------------------------------------
(* Properties.                                                             *)

\* A teardown removes only containers that ran the release it was asked to
\* dismantle, or that the named deployment made itself - never the container
\* of a release that replaced it, whatever died or failed before
\* (containers_of_release, locate).
OnlyTheRelease ==
    \A x \in removed : x[2] = x[3] \/ x[1][1] = x[3]

\* A container that runs is on a port that the ledger still holds, so no other
\* deployment is given it - also when the rollback on whose port a restoration
\* runs is torn down, and when a person stops a container and starts it again.
\* Excepted is only one that a person started when the lease of its port was
\* gone, or a teardown had found the port unmapped and was giving it up (phase 3
\* of teardown, the leases restore_inner relies on).
RunningIsLeased ==
    \A c \in Conts \ loose : IsRunning(c) => PortLeased(docker[c].port)

\* The records name the container that was put into service last, by a
\* deployment, a rollback or a restoration - unless it was torn down, or the
\* clock was set back between (serving_release).
RecordsNameServed ==
    served[1] # 0 /\ LiveEntry(served) /\ ~clock.back => IsServed(served)

\* Serving.config is "the configuration this container actually serves with".
ServesAsConfigured ==
    \A c \in Conts : IsServed(c) /\ docker[c].is # "none" => docker[c].port = ConfigOf(c).port
=============================================================================
