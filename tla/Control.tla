------------------------------ MODULE Control ------------------------------
(***************************************************************************)
(* Durable pauses, queued events and resume decisions of one application   *)
(* (deploy/src/control.rs).  The records live in the deployment journal    *)
(* and replay applies the same rules as the writers: `readable` is the     *)
(* conjunction of what ControlState::apply, GitState::apply and            *)
(* check_against answer for every record that was appended.                *)
(*                                                                         *)
(* A deployment is reduced to what a pause is derived from: its status,    *)
(* its cutover with the times of the record, and whether it is a rollback. *)
(***************************************************************************)
EXTENDS Naturals, Sequences, FiniteSets

CONSTANTS
    Commit,      \* revisions
    Delivery,    \* delivery ids chosen outside Harpoon (CI jobs, providers)
    Url,         \* sources a repository name can be registered for
    Time,        \* the wall clock's readings; it may be set back
    MaxDep       \* bound: deployment ids

ASSUME ControlAssumption ==
    /\ Time \subseteq Nat \ {0}
    /\ Url \subseteq Nat \ {0} /\ Url # {}
    /\ MaxDep \in Nat

VARIABLES
    events,     \* the event records, in the order they were appended
    deps,       \* the deployment records, by id
    pauses,     \* the pause records
    cleared,    \* deployments whose pause a resume record cleared
    execs,      \* the exec records
    readable    \* whether every appended record is accepted by replay

control == <<events, deps, pauses, cleared, execs, readable>>

Dep == 1..MaxDep
NoDep == 0
NoEvent == 0
Status == {"held", "selected", "dismissed", "superseded", "executed", "failed"}
\* Poll deliveries name the commit and the registration's incarnation.
DeliveryId == ({"poll"} \X Nat \X Commit) \union ({"given"} \X Delivery)
Source == {"poll", "poll-late", "ci", "webhook"}
\* `by` is the event that superseded this one and `why` says how; `url` is
\* the source its revision was seen at (history, not a field of the code).
Event == [id : DeliveryId, src : Source, rev : Commit, at : Time,
          st : Status, by : Nat, why : {"none", "newer_selected", "not_chosen"},
          url : Url]
DepStatus == {"none", "running", "succeeded", "failed", "interrupted"}
Cutover == {"none", "begun", "confirmed", "failed"}
Deployment == [st : DepStatus, cut : Cutover, rb : BOOLEAN, ev : Nat,
               began : Time \union {0}, ended : Time \union {0}, restored : BOOLEAN]
NoDeployment == [st |-> "none", cut |-> "none", rb |-> FALSE, ev |-> NoEvent,
                 began |-> 0, ended |-> 0, restored |-> FALSE]
PauseKind == {"failed_cutover", "interrupted_cutover", "rollback"}
PauseRec == [origin : Dep, kind : PauseKind, at : Time]
ExecRec == [ev : Nat \ {0}, dep : Dep \union {NoDep}, sup : SUBSET Nat]

ControlType ==
    /\ events \in Seq(Event)
    /\ deps \in [Dep -> Deployment]
    /\ pauses \subseteq PauseRec
    /\ cleared \subseteq Dep
    /\ execs \subseteq ExecRec
    /\ readable \in BOOLEAN

ControlInit ==
    /\ events = <<>> /\ deps = [d \in Dep |-> NoDeployment]
    /\ pauses = {} /\ cleared = {} /\ execs = {} /\ readable = TRUE

-----------------------------------------------------------------------------
(* Pauses: derived from the deployment records *)

PauseCandidates(ds) ==
    {d \in Dep : \/ ds[d].cut \in {"begun", "failed"}
                 \/ ds[d].rb /\ ds[d].st = "succeeded"}

CandidateKind(x) == IF x.cut = "begun" THEN "interrupted_cutover"
                    ELSE IF x.cut = "failed" THEN "failed_cutover"
                    ELSE "rollback"
CandidateAt(x) == IF x.cut = "begun" THEN x.began ELSE x.ended

ActivePauses == PauseCandidates(deps) \ cleared
IsPaused == ActivePauses # {}

\* The pause records a writer adds for the deployments ds.
SyncPauses(ds) ==
    pauses \union
      {[origin |-> d, kind |-> CandidateKind(ds[d]), at |-> CandidateAt(ds[d])] :
         d \in {c \in PauseCandidates(ds) : \A p \in pauses : p.origin # c}}

\* check_against: what replay demands of the pauses, executions and
\* clearances once every deployment record has been read.
PauseFits(p, ds) ==
    /\ p.origin \in PauseCandidates(ds)
    /\ LET x == ds[p.origin] IN
       \/ p.kind = CandidateKind(x) /\ p.at = CandidateAt(x)
       \/ /\ p.kind = "interrupted_cutover" /\ CandidateKind(x) = "failed_cutover"
          /\ p.at = x.began
CheckAgainst ==
    /\ \A p \in pauses : PauseFits(p, deps)
    /\ \A p, q \in pauses : p.origin = q.origin => p = q
    /\ \A x \in execs : x.dep # NoDep => deps[x.dep].st # "none"
    /\ cleared \subseteq PauseCandidates(deps)

-----------------------------------------------------------------------------
(* Events *)

WithStatus(s) == {i \in DOMAIN events : events[i].st = s}
HeldEvents == WithStatus("held")
Pending == WithStatus("selected")
NoneWaiting == HeldEvents \union Pending = {}

\* Latest received, then latest recorded.
Later(i, j) == \/ events[i].at > events[j].at
               \/ events[i].at = events[j].at /\ i >= j
\* Mutant: the event recorded last, whatever its arrival time.
NewestRecorded(S) == CHOOSE i \in S : \A j \in S : i >= j
NewestOf(S) == CHOOSE i \in S : \A j \in S : Later(i, j)

\* queue_event: idempotent on the delivery id; the arrival time may differ.
Ingress(id, src, rev) ==
    LET known == {i \in DOMAIN events : events[i].id = id} IN
    IF known = {} THEN "held"
    ELSE IF \A i \in known : events[i].src = src /\ events[i].rev = rev
         THEN "duplicate" ELSE "conflict"
QueueEvent(id, src, rev, at, url) ==
    IF Ingress(id, src, rev) = "held"
    THEN Append(events, [id |-> id, src |-> src, rev |-> rev, at |-> at, st |-> "held",
                         by |-> NoEvent, why |-> "none", url |-> url])
    ELSE events

\* next_execution: a selection first, then the newest unless paused.
NextExecution ==
    IF Pending # {} THEN {<<CHOOSE i \in Pending : TRUE, {}>>}
    ELSE IF IsPaused \/ HeldEvents = {} THEN {}
    ELSE {<<NewestOf(HeldEvents), HeldEvents \ {NewestOf(HeldEvents)}>>}

\* Mutant: an execution is accepted whatever happened to its event meanwhile.
ExecOKAnyStatus(x) == x.ev \in DOMAIN events
\* apply_exec.
ExecOK(x) ==
    /\ x.ev \in HeldEvents \union Pending
    /\ x.sup \subseteq HeldEvents \ {x.ev}
    /\ \A j \in x.sup : events[j].at <= events[x.ev].at
ApplyExec(x) ==
    [i \in DOMAIN events |->
        IF i = x.ev THEN [events[i] EXCEPT !.st = IF x.dep = NoDep THEN "failed" ELSE "executed"]
        ELSE IF i \in x.sup
             THEN [events[i] EXCEPT !.st = "superseded", !.by = x.ev, !.why = "newer_selected"]
        ELSE events[i]]

-----------------------------------------------------------------------------
(* Resume decisions *)

\* apply_resume: replay refuses a second selection and a decision that
\* leaves a held event unaccounted for.
ResumeOK(r) ==
    /\ r.choice = "dismiss" => /\ Pending \subseteq r.dismissed /\ r.sup = {}
                               /\ r.dismissed \subseteq HeldEvents \union Pending
    /\ r.choice # "dismiss" => /\ r.dismissed = {} /\ r.cleared = {} /\ Pending = {}
                               /\ r.sel \in HeldEvents
                               /\ r.sup \subseteq HeldEvents \ {r.sel}
    /\ HeldEvents \subseteq r.dismissed \union r.sup \union {r.sel}
ApplyResume(r) ==
    [i \in DOMAIN events |->
        IF i \in r.dismissed THEN [events[i] EXCEPT !.st = "dismissed"]
        ELSE IF i = r.sel THEN [events[i] EXCEPT !.st = "selected"]
        ELSE IF i \in r.sup
             THEN [events[i] EXCEPT !.st = "superseded", !.by = r.sel,
                     !.why = IF r.choice = "newest" THEN "newer_selected" ELSE "not_chosen"]
        ELSE events[i]]
WriteResume(r) ==
    /\ readable' = (readable /\ ResumeOK(r))
    /\ events' = ApplyResume(r)
    /\ cleared' = cleared \union r.cleared

ResumeDismiss ==
    /\ IsPaused \/ ~NoneWaiting
    /\ WriteResume([choice |-> "dismiss", sel |-> NoEvent, sup |-> {},
                    dismissed |-> HeldEvents \union Pending, cleared |-> ActivePauses])
    /\ pauses' = SyncPauses(deps)
    /\ UNCHANGED <<deps, execs>>

ResumeSelect(choice, sel) ==
    WriteResume([choice |-> choice, sel |-> sel, sup |-> HeldEvents \ {sel},
                 dismissed |-> {}, cleared |-> {}])

ResumeNewest ==
    /\ Pending = {} /\ HeldEvents # {}
    /\ ResumeSelect("newest", NewestOf(HeldEvents))
    /\ UNCHANGED <<deps, execs, pauses>>

ResumeRevision(rev) ==
    LET matching == {i \in HeldEvents : events[i].rev = rev} IN
    /\ Pending = {} /\ matching # {}
    /\ ResumeSelect("revision", NewestOf(matching))
    /\ UNCHANGED <<deps, execs, pauses>>
=============================================================================
