--------------------------- MODULE TriggersProofs ---------------------------
(***************************************************************************)
(* Theorems about Triggers, and about the pauses, events and decisions of  *)
(* Control it is built from, for every set of commits, sources, deliveries *)
(* and times, and every bound.                                             *)
(***************************************************************************)
EXTENDS Triggers, FiniteSetTheorems, SequenceTheorems, TLAPS

-----------------------------------------------------------------------------
(* The inductive invariant *)

Running(d) == deps[d].st = "running"

\* What each process can rely on where it is, whatever the others did since.
\* Under the lock it relies on the registration and on the deployment it runs;
\* without it only on what never changes back, and on the id it reserved.
ProcessRight(p) ==
    LET me == proc[p] IN
    /\ me.pc = "observed" => me.reg.live /\ me.head \in Commit
    /\ me.pc = "noting" => /\ lock = p /\ me.reg = repo /\ repo.live
                           /\ me.head \in Commit
    /\ me.pc \in {"decided", "fetched"} => me.reg.live /\ me.ev \in DOMAIN events
    /\ me.pc = "sourced" => /\ me.dep \in Dep /\ deps[me.dep].st = "none"
                            /\ \E s \in sources : s.dep = me.dep
    /\ me.pc = "deploying" => /\ lock = p /\ me.dep \in Dep /\ Running(me.dep)
                              /\ me.dep \notin cleared
                              /\ \A z \in pauses : z.origin # me.dep
    /\ me.pc = "ran" => me.dep \in Dep /\ deps[me.dep].st # "none"

\* A reserved deployment id is reserved for one process.
IdsApart ==
    \A p, q \in Executor :
        proc[p].pc = "sourced" /\ proc[q].pc = "sourced" /\ proc[p].dep = proc[q].dep => p = q

\* A deployment nobody started has no cutover, a pause finds the time it is
\* recorded with, and at most one deployment is running.
DepRight(x) ==
    /\ x.st = "none" => x.cut = "none"
    /\ x.cut = "begun" => x.began \in Time
    /\ x.cut = "failed" \/ x.st = "succeeded" => x.ended \in Time
OneRuns == \A d, e \in Dep : Running(d) /\ Running(e) => d = e

\* Who superseded an event is an event that was received no earlier and is decided.
SupersededRight ==
    \A i \in DOMAIN events : events[i].why = "newer_selected" =>
        /\ events[i].by \in DOMAIN events
        /\ events[events[i].by].at >= events[i].at
        /\ events[events[i].by].st # "held"

ProcessesRight == (\A p \in Executor : ProcessRight(p)) /\ IdsApart
TriggersInv ==
    /\ Readable /\ repo.ver >= 1
    /\ \A d \in Dep : DepRight(deps[d])
    /\ OneRuns /\ SupersededRight /\ ProcessesRight

-----------------------------------------------------------------------------
(* Events *)

\* The events as a function on the positions they were recorded at.
LEMMA EventsFunction ==
    ASSUME ControlType
    PROVE  /\ Len(events) \in Nat /\ DOMAIN events = 1..Len(events)
           /\ events \in [1..Len(events) -> Event]
           /\ \A i \in DOMAIN events : i \in Nat \ {0} /\ events[i] \in Event /\ events[i].at \in Nat
           /\ HeldEvents \subseteq DOMAIN events /\ Pending \subseteq DOMAIN events
           /\ HeldEvents \intersect Pending = {}
<1>1. Len(events) \in Nat /\ DOMAIN events = 1..Len(events) /\ events \in [1..Len(events) -> Event]
  BY LenProperties DEF ControlType
<1>2. ASSUME NEW i \in DOMAIN events
      PROVE  i \in Nat \ {0} /\ events[i] \in Event /\ events[i].at \in Nat
  <2>1. i \in Nat \ {0} /\ events[i] \in Event
    BY <1>1, <1>2
  <2>2. events[i].at \in Time
    BY <2>1 DEF Event
  <2> QED BY <2>1, <2>2, ControlAssumption
<1>3. HeldEvents \subseteq DOMAIN events /\ Pending \subseteq DOMAIN events /\ HeldEvents \intersect Pending = {}
  BY DEF HeldEvents, Pending, WithStatus
<1> QED BY <1>1, <1>2, <1>3

\* Rewriting the records of events in place gives events.
LEMMA RewrittenEvents ==
    ASSUME ControlType, NEW f \in [DOMAIN events -> Event]
    PROVE  f \in Seq(Event) /\ Len(f) = Len(events) /\ DOMAIN f = DOMAIN events
<1>1. Len(events) \in Nat /\ DOMAIN events = 1..Len(events)
  BY EventsFunction
<1>2. f \in Seq(Event)
  BY <1>1, SeqDef
<1>3. Len(f) \in Nat /\ DOMAIN f = 1..Len(f)
  BY <1>2, LenProperties
<1>4. 1..Len(f) = 1..Len(events)
  BY <1>1, <1>3
<1>5. Len(f) = Len(events)
  BY <1>1, <1>3, <1>4
<1> QED BY <1>1, <1>2, <1>3, <1>5

\* Among some events there is a newest one: latest received, then latest
\* recorded (newest_held).
LEMMA NewestIs ==
    ASSUME ControlType, NEW S, S \subseteq DOMAIN events, S # {}
    PROVE  /\ NewestOf(S) \in S
           /\ \A j \in S : events[NewestOf(S)].at >= events[j].at
<1> DEFINE After(i) == {j \in S : ~Later(i, j)}
           R == StrictSubsetOrdering(S)
           F == FiniteSubsetsOf(S)
           T == {After(i) : i \in S}
<1>1. \A i \in S : i \in Nat /\ events[i].at \in Nat
  BY EventsFunction
<1>2. IsFiniteSet(S)
  <2>1. IsFiniteSet(1..Len(events))
    BY EventsFunction, FS_Interval
  <2> QED BY <2>1, EventsFunction, FS_Subset
<1>3. IsWellFoundedOn(R, F)
  BY FS_StrictSubsetOrderingWellFounded
<1>4. T \subseteq F
  <2>1. ASSUME NEW i \in S PROVE After(i) \in F
    <3>1. After(i) \in SUBSET S
      OBVIOUS
    <3>2. IsFiniteSet(After(i))
      BY <1>2, <3>1, FS_Subset
    <3> QED BY <3>1, <3>2 DEF FiniteSubsetsOf
  <2> QED BY <2>1
<1>5. T # {}
  OBVIOUS
<1>6. PICK x \in T : \A y \in T : <<y, x>> \notin R
  BY <1>3, <1>4, <1>5, WFMin
<1>7. PICK i \in S : x = After(i)
  BY <1>6
<1>8. \A j \in S : Later(i, j)
  <2> SUFFICES ASSUME NEW j \in S, ~Later(i, j) PROVE FALSE
    OBVIOUS
  <2>1. j \in After(i) /\ j \notin After(j)
    BY <1>1 DEF Later
  <2>2. After(j) \subseteq After(i)
    <3> SUFFICES ASSUME NEW k \in S, ~Later(j, k) PROVE ~Later(i, k)
      OBVIOUS
    <3>1. i \in Nat /\ j \in Nat /\ k \in Nat /\ events[i].at \in Nat /\ events[j].at \in Nat /\ events[k].at \in Nat
      BY <1>1
    <3> QED BY <3>1 DEF Later
  <2>3. After(j) \in T
    OBVIOUS
  <2>4. After(j) \in SUBSET S /\ After(i) \in SUBSET S /\ After(j) # After(i)
    BY <2>1
  <2>5. <<After(j), After(i)>> \in R
    BY <2>2, <2>4 DEF StrictSubsetOrdering
  <2> QED BY <1>6, <1>7, <2>3, <2>5
<1>9. NewestOf(S) \in S /\ \A j \in S : Later(NewestOf(S), j)
  BY <1>8 DEF NewestOf
<1>10. ASSUME NEW j \in S PROVE events[NewestOf(S)].at >= events[j].at
  <2>1. Later(NewestOf(S), j) /\ events[NewestOf(S)].at \in Nat /\ events[j].at \in Nat
    BY <1>1, <1>9
  <2> QED BY <2>1 DEF Later
<1> QED BY <1>9, <1>10

\* The smallest of some deployment ids is one of them.
LEMMA TakeIdIs ==
    ASSUME NEW S, S \subseteq Dep, S # {}
    PROVE  TakeId(S) \in S
<1>1. \A d \in S : d \in Nat
  BY ControlAssumption DEF Dep
<1> DEFINE R == StrictSubsetOrdering(Dep)
           F == FiniteSubsetsOf(Dep)
           Under(i) == {j \in S : j < i}
           T == {Under(i) : i \in S}
<1>2. IsFiniteSet(Dep)
  BY FS_Interval, ControlAssumption DEF Dep
<1>3. IsWellFoundedOn(R, F)
  BY FS_StrictSubsetOrderingWellFounded
<1>4. T \subseteq F
  <2>1. ASSUME NEW i \in S PROVE Under(i) \in F
    <3>1. Under(i) \in SUBSET Dep
      OBVIOUS
    <3>2. IsFiniteSet(Under(i))
      BY <1>2, <3>1, FS_Subset
    <3> QED BY <3>1, <3>2 DEF FiniteSubsetsOf
  <2> QED BY <2>1
<1>5. PICK x \in T : \A y \in T : <<y, x>> \notin R
  <2>1. T # {}
    OBVIOUS
  <2> QED BY <1>3, <1>4, <2>1, WFMin
<1>6. PICK i \in S : x = Under(i)
  BY <1>5
<1>7. \A j \in S : i <= j
  <2> SUFFICES ASSUME NEW j \in S, ~(i <= j) PROVE FALSE
    OBVIOUS
  <2>1. j \in Under(i) /\ j \notin Under(j) /\ Under(j) \subseteq Under(i)
    BY <1>1
  <2>2. <<Under(j), Under(i)>> \in R
    BY <2>1 DEF StrictSubsetOrdering
  <2>3. Under(j) \in T
    OBVIOUS
  <2> QED BY <1>5, <1>6, <2>2, <2>3
<1> QED BY <1>7 DEF TakeId

\* What any step does to the events: one may be appended, waiting and not
\* superseded; of those recorded, only a waiting or selected one changes, never
\* back to waiting; and one that a newer event supersedes was received no later.
EventsGrow ==
    /\ events' \in Seq(Event)
    /\ Len(events') >= Len(events)
    /\ \A i \in DOMAIN events :
          /\ events'[i].at = events[i].at
          /\ \/ events'[i] = events[i]
             \/ events[i].st = "held"
             \/ events[i].st = "selected" /\ events'[i].st \in {"executed", "failed", "dismissed"}
          /\ events[i].st # "held" => events'[i].st # "held"
          /\ events'[i].why = "newer_selected" =>
                \/ events[i].why = "newer_selected" /\ events'[i].by = events[i].by
                \/ /\ events'[i].by \in DOMAIN events
                   /\ events[events'[i].by].at >= events[i].at
                   /\ events'[events'[i].by].st # "held"
    /\ \A i \in DOMAIN events' \ DOMAIN events : events'[i].why = "none"

\* The positions of the events stay positions of events.
LEMMA PositionsStay ==
    ASSUME ControlType, EventsGrow
    PROVE  DOMAIN events \subseteq DOMAIN events' /\ Len(events') \in Nat
<1>1. Len(events) \in Nat /\ DOMAIN events = 1..Len(events)
  BY EventsFunction
<1>2. Len(events') \in Nat /\ DOMAIN events' = 1..Len(events')
  BY LenProperties DEF EventsGrow
<1>3. Len(events') >= Len(events)
  BY DEF EventsGrow
<1> QED BY <1>1, <1>2, <1>3

\* Nothing happens to the events.
LEMMA EventsStay ==
    ASSUME ControlType, UNCHANGED events
    PROVE  EventsGrow
BY EventsFunction DEF EventsGrow, ControlType

\* An event is queued, or nothing is appended (ControlState::queue_event).
LEMMA QueueGrows ==
    ASSUME ControlType, NEW id \in DeliveryId, NEW src \in Source, NEW c \in Commit,
           NEW t \in Time, NEW u \in Url, events' = QueueEvent(id, src, c, t, u)
    PROVE  EventsGrow
<1> DEFINE e == [id |-> id, src |-> src, rev |-> c, at |-> t, st |-> "held",
                 by |-> NoEvent, why |-> "none", url |-> u]
<1>1. CASE events' = events
  BY <1>1, EventsStay
<1>2. CASE events' = Append(events, e)
  <2>1. e \in Event
    BY DEF Event, Status, NoEvent
  <2>2. e.why = "none"
    OBVIOUS
  <2> HIDE DEF e
  <2>3. /\ events' \in Seq(Event) /\ Len(events') = Len(events) + 1
        /\ \A i \in 1..Len(events) : events'[i] = events[i]
        /\ events'[Len(events) + 1] = e
    BY <1>2, <2>1, AppendProperties DEF ControlType
  <2>4. Len(events) \in Nat /\ DOMAIN events = 1..Len(events)
    BY EventsFunction
  <2>5. DOMAIN events' = 1..(Len(events) + 1)
    BY <2>3, LenProperties
  <2>6. \A i \in DOMAIN events' \ DOMAIN events : events'[i].why = "none"
    <3>1. \A i \in DOMAIN events' \ DOMAIN events : i = Len(events) + 1
      BY <2>4, <2>5
    <3> QED BY <3>1, <2>2, <2>3
  <2>7. \A i \in DOMAIN events : events'[i] = events[i]
    BY <2>3, <2>4
  <2>8. Len(events') >= Len(events)
    BY <2>3, <2>4
  <2> QED BY <2>3, <2>6, <2>7, <2>8 DEF EventsGrow
<1> QED BY <1>1, <1>2 DEF QueueEvent

\* An execution record that is accepted consumes a waiting or selected event,
\* and gives up only waiting ones received no later (apply_exec).
LEMMA ExecGrows ==
    ASSUME ControlType, NEW x, ExecOK(x), events' = ApplyExec(x)
    PROVE  EventsGrow /\ x.ev \in DOMAIN events /\ x.sup \in SUBSET Nat
<1>1. /\ x.ev \in DOMAIN events /\ x.ev \in Nat /\ x.sup \subseteq DOMAIN events /\ x.ev \notin x.sup
      /\ x.sup \in SUBSET Nat
  BY EventsFunction DEF ExecOK
<1>2. \A i \in DOMAIN events : events[i] \in Event
  BY EventsFunction
<1>3. ASSUME NEW i \in DOMAIN events
      PROVE  /\ [events[i] EXCEPT !.st = "failed"] \in Event
             /\ [events[i] EXCEPT !.st = "executed"] \in Event
             /\ [events[i] EXCEPT !.st = "superseded", !.by = x.ev, !.why = "newer_selected"] \in Event
  BY <1>1, <1>2, <1>3 DEF Event, Status
<1>4. events' \in [DOMAIN events -> Event]
  BY <1>2, <1>3 DEF ApplyExec
<1>5. events' \in Seq(Event) /\ Len(events') = Len(events) /\ DOMAIN events' = DOMAIN events
  BY <1>4, RewrittenEvents
<1>6. Len(events') >= Len(events)
  BY <1>5, EventsFunction
<1>7. /\ events'[x.ev].st \in {"failed", "executed"} /\ events'[x.ev].at = events[x.ev].at
      /\ events'[x.ev].why = events[x.ev].why /\ events'[x.ev].by = events[x.ev].by
  BY <1>1, <1>2 DEF ApplyExec, Event
<1>8. ASSUME NEW i \in x.sup
      PROVE  /\ events'[i].st = "superseded" /\ events'[i].at = events[i].at
             /\ events'[i].by = x.ev /\ events[i].st = "held"
             /\ events[x.ev].at >= events[i].at
  <2>1. events[i].st = "held" /\ events[i].at <= events[x.ev].at
    BY <1>8 DEF ExecOK, HeldEvents, WithStatus
  <2>2. events'[i] = [events[i] EXCEPT !.st = "superseded", !.by = x.ev, !.why = "newer_selected"]
    BY <1>1, <1>8 DEF ApplyExec
  <2>3. events'[i].st = "superseded" /\ events'[i].at = events[i].at /\ events'[i].by = x.ev
    BY <1>1, <1>2, <1>8, <2>2 DEF Event
  <2>4. events[i].at \in Nat /\ events[x.ev].at \in Nat
    BY <1>1, <1>8, EventsFunction
  <2> QED BY <2>1, <2>3, <2>4
<1>9. \A i \in DOMAIN events : i # x.ev /\ i \notin x.sup => events'[i] = events[i]
  BY DEF ApplyExec
<1>10. events[x.ev].st \in {"held", "selected"}
  BY DEF ExecOK, HeldEvents, Pending, WithStatus
<1>11. ASSUME NEW i \in DOMAIN events
       PROVE  /\ events'[i].at = events[i].at
              /\ \/ events'[i] = events[i]
                 \/ events[i].st = "held"
                 \/ events[i].st = "selected" /\ events'[i].st \in {"executed", "failed", "dismissed"}
              /\ events[i].st # "held" => events'[i].st # "held"
              /\ events'[i].why = "newer_selected" =>
                    \/ events[i].why = "newer_selected" /\ events'[i].by = events[i].by
                    \/ /\ events'[i].by \in DOMAIN events
                       /\ events[events'[i].by].at >= events[i].at
                       /\ events'[events'[i].by].st # "held"
  <2>1. CASE i = x.ev
    BY <2>1, <1>7, <1>10
  <2>2. CASE i \in x.sup
    BY <2>2, <1>8, <1>1, <1>7
  <2>3. CASE i # x.ev /\ i \notin x.sup
    BY <2>3, <1>9
  <2> QED BY <2>1, <2>2, <2>3
<1> QED BY <1>1, <1>5, <1>6, <1>11 DEF EventsGrow

\* A decision that replay accepts dismisses waiting or selected events, or
\* selects one and gives up the others; a newest one was received last
\* (apply_resume).
LEMMA ResumeGrows ==
    ASSUME ControlType, NEW r, ResumeOK(r), events' = ApplyResume(r),
           r.choice = "dismiss" => r.sel = NoEvent,
           r.choice = "newest" => \A j \in r.sup : events[r.sel].at >= events[j].at
    PROVE  EventsGrow
<1> DEFINE Why == IF r.choice = "newest" THEN "newer_selected" ELSE "not_chosen"
<1>1. /\ r.sup \subseteq DOMAIN events /\ \A i \in r.sup : events[i].st = "held"
      /\ r.dismissed \subseteq DOMAIN events /\ \A i \in r.dismissed : events[i].st \in {"held", "selected"}
  <2>1. r.sup \subseteq HeldEvents /\ r.dismissed \subseteq HeldEvents \union Pending
    BY DEF ResumeOK
  <2> QED BY <2>1, EventsFunction DEF HeldEvents, Pending, WithStatus
<1>2. /\ \A i \in DOMAIN events : events[i] \in Event /\ i \in Nat \ {0}
  BY EventsFunction
<1>3. r.choice # "dismiss" => /\ r.sel \in DOMAIN events /\ events[r.sel].st = "held" /\ r.sel \in Nat
                              /\ r.dismissed = {} /\ r.sel \notin r.sup
  BY <1>2, EventsFunction DEF ResumeOK, HeldEvents, WithStatus
<1>4. r.choice = "dismiss" => r.sel \notin DOMAIN events /\ r.sup = {}
  BY <1>2 DEF ResumeOK, NoEvent
<1>5. ASSUME NEW i \in DOMAIN events
      PROVE  /\ [events[i] EXCEPT !.st = "dismissed"] \in Event
             /\ [events[i] EXCEPT !.st = "selected"] \in Event
             /\ r.sel \in Nat => [events[i] EXCEPT !.st = "superseded", !.by = r.sel, !.why = Why] \in Event
  BY <1>2, <1>5 DEF Event, Status
<1>6. events' \in [DOMAIN events -> Event]
  BY <1>1, <1>2, <1>3, <1>4, <1>5 DEF ApplyResume
<1>7. events' \in Seq(Event) /\ Len(events') = Len(events) /\ DOMAIN events' = DOMAIN events
  BY <1>6, RewrittenEvents
<1>8. Len(events') >= Len(events)
  BY <1>7, EventsFunction
<1>9. ASSUME NEW i \in r.dismissed
      PROVE  /\ events'[i].st = "dismissed" /\ events'[i].at = events[i].at
             /\ events'[i].why = events[i].why /\ events'[i].by = events[i].by
  <2>1. events'[i] = [events[i] EXCEPT !.st = "dismissed"]
    BY <1>1, <1>9 DEF ApplyResume
  <2> QED BY <1>1, <1>2, <1>9, <2>1 DEF Event
<1>10. ASSUME r.sel \in DOMAIN events
       PROVE  /\ r.choice # "dismiss"
              /\ events'[r.sel].st = "selected" /\ events'[r.sel].at = events[r.sel].at
              /\ events'[r.sel].why = events[r.sel].why /\ events'[r.sel].by = events[r.sel].by
  <2>1. events'[r.sel] = [events[r.sel] EXCEPT !.st = "selected"]
    BY <1>3, <1>4, <1>10 DEF ApplyResume
  <2> QED BY <1>2, <1>4, <1>10, <2>1 DEF Event
<1>11. ASSUME NEW i \in r.sup
       PROVE  /\ r.sel \in DOMAIN events
              /\ events'[i].st = "superseded" /\ events'[i].at = events[i].at
              /\ events'[i].by = r.sel
              /\ events'[i].why = "newer_selected" => r.choice = "newest"
  <2>1. r.choice # "dismiss" /\ r.sel \in DOMAIN events /\ i # r.sel /\ i \notin r.dismissed
    BY <1>3, <1>4, <1>11
  <2>2. events'[i] = [events[i] EXCEPT !.st = "superseded", !.by = r.sel, !.why = Why]
    BY <1>1, <1>11, <2>1 DEF ApplyResume
  <2> QED BY <1>1, <1>2, <1>11, <2>1, <2>2 DEF Event
<1>12. \A i \in DOMAIN events : i # r.sel /\ i \notin r.sup /\ i \notin r.dismissed => events'[i] = events[i]
  BY DEF ApplyResume
<1>13. ASSUME NEW i \in DOMAIN events
       PROVE  /\ events'[i].at = events[i].at
              /\ \/ events'[i] = events[i]
                 \/ events[i].st = "held"
                 \/ events[i].st = "selected" /\ events'[i].st \in {"executed", "failed", "dismissed"}
              /\ events[i].st # "held" => events'[i].st # "held"
              /\ events'[i].why = "newer_selected" =>
                    \/ events[i].why = "newer_selected" /\ events'[i].by = events[i].by
                    \/ /\ events'[i].by \in DOMAIN events
                       /\ events[events'[i].by].at >= events[i].at
                       /\ events'[events'[i].by].st # "held"
  <2>1. CASE i \in r.dismissed
    BY <2>1, <1>1, <1>9
  <2>2. CASE i = r.sel
    BY <2>2, <1>3, <1>10
  <2>3. CASE i \in r.sup
    BY <2>3, <1>1, <1>10, <1>11
  <2>4. CASE i # r.sel /\ i \notin r.sup /\ i \notin r.dismissed
    BY <2>4, <1>12
  <2> QED BY <2>1, <2>2, <2>3, <2>4
<1> QED BY <1>7, <1>8, <1>13 DEF EventsGrow

-----------------------------------------------------------------------------
(* Pauses *)

\* The control records without the events: typed, and accepted by replay.
RecordsRight ==
    /\ deps \in [Dep -> Deployment] /\ pauses \subseteq PauseRec
    /\ cleared \subseteq Dep /\ execs \subseteq ExecRec
    /\ CheckAgainst
    /\ \A d \in Dep : DepRight(deps[d])

\* The pauses a writer adds fit the deployments they are derived from, and
\* leave one pause for each (sync_pauses).
LEMMA SyncFits ==
    ASSUME NEW ds \in [Dep -> Deployment], \A d \in Dep : DepRight(ds[d]),
           pauses \subseteq PauseRec, \A z \in pauses : PauseFits(z, ds),
           \A y, z \in pauses : y.origin = z.origin => y = z
    PROVE  /\ SyncPauses(ds) \subseteq PauseRec
           /\ \A z \in SyncPauses(ds) : PauseFits(z, ds)
           /\ \A y, z \in SyncPauses(ds) : y.origin = z.origin => y = z
<1> DEFINE Rec(d) == [origin |-> d, kind |-> CandidateKind(ds[d]), at |-> CandidateAt(ds[d])]
           New == {c \in PauseCandidates(ds) : \A z \in pauses : z.origin # c}
<1>1. SyncPauses(ds) = pauses \union {Rec(d) : d \in New}
  BY DEF SyncPauses
<1>2. ASSUME NEW d \in New
      PROVE  Rec(d) \in PauseRec /\ PauseFits(Rec(d), ds) /\ Rec(d).origin = d
  <2>1. d \in Dep /\ ds[d] \in Deployment /\ DepRight(ds[d])
    BY DEF PauseCandidates
  <2>2. \/ ds[d].cut = "begun" \/ ds[d].cut = "failed"
        \/ ds[d].cut # "begun" /\ ds[d].st = "succeeded"
    BY DEF PauseCandidates
  <2>3. CandidateAt(ds[d]) \in Time
    BY <2>1, <2>2 DEF CandidateAt, DepRight
  <2>4. CandidateKind(ds[d]) \in PauseKind
    BY DEF CandidateKind, PauseKind
  <2>5. Rec(d) \in PauseRec
    BY <2>1, <2>3, <2>4 DEF PauseRec
  <2>6. PauseFits(Rec(d), ds)
    BY DEF PauseFits
  <2> QED BY <2>5, <2>6
<1>3. \A d \in New, z \in pauses : z.origin # Rec(d).origin
  OBVIOUS
<1> HIDE DEF Rec, New
<1>4. \A z \in {Rec(d) : d \in New} : z \in PauseRec /\ PauseFits(z, ds)
  BY <1>2
<1>5. \A y, z \in {Rec(d) : d \in New} : y.origin = z.origin => y = z
  BY <1>2
<1>6. \A y \in {Rec(d) : d \in New}, z \in pauses : z.origin # y.origin
  BY <1>3
<1> QED BY <1>1, <1>4, <1>5, <1>6

\* Whether a deployment record may become x: either nobody paused for it yet,
\* or what its pause was derived from stays on record (check_against).
MayBecome(d, x) ==
    \/ d \notin cleared /\ \A z \in pauses : z.origin # d
    \/ /\ \/ x.cut = deps[d].cut /\ x.ended = deps[d].ended
          \/ deps[d].cut = "begun" /\ x.cut = "failed"
       /\ x.rb = deps[d].rb /\ x.began = deps[d].began
       /\ deps[d].st = "succeeded" => x.st = "succeeded"

\* Such a change, with or without the pauses it calls for, keeps the records.
LEMMA RecordChanges ==
    ASSUME RecordsRight, NEW d \in Dep, NEW x \in Deployment, DepRight(x), x.st # "none",
           MayBecome(d, x), deps' = [deps EXCEPT ![d] = x],
           pauses' = pauses \/ pauses' = SyncPauses(deps'), UNCHANGED <<cleared, execs>>
    PROVE  RecordsRight'
<1> USE DEF RecordsRight
<1>1. /\ deps' \in [Dep -> Deployment] /\ deps'[d] = x
      /\ \A e \in Dep \ {d} : deps'[e] = deps[e]
  OBVIOUS
<1>2. \A e \in Dep : DepRight(deps'[e])
  BY <1>1
<1>3. ASSUME NEW z \in pauses PROVE PauseFits(z, deps')
  <2>1. PauseFits(z, deps) /\ z.origin \in Dep
    BY DEF CheckAgainst, PauseRec
  <2>2. CASE z.origin # d
    <3>1. deps'[z.origin] = deps[z.origin]
      BY <1>1, <2>1, <2>2
    <3> QED BY <2>1, <3>1 DEF PauseFits, PauseCandidates
  <2>3. CASE z.origin = d
    <3>1. /\ \/ x.cut = deps[d].cut /\ x.ended = deps[d].ended
             \/ deps[d].cut = "begun" /\ x.cut = "failed"
          /\ x.rb = deps[d].rb /\ x.began = deps[d].began
          /\ deps[d].st = "succeeded" => x.st = "succeeded"
      BY <2>3 DEF MayBecome
    <3> QED BY <1>1, <2>1, <2>3, <3>1 DEF PauseFits, PauseCandidates, CandidateKind, CandidateAt
  <2> QED BY <2>2, <2>3
<1>4. cleared \subseteq PauseCandidates(deps')
  <2> SUFFICES ASSUME NEW e \in cleared PROVE e \in PauseCandidates(deps')
    OBVIOUS
  <2>1. e \in Dep /\ e \in PauseCandidates(deps)
    BY DEF CheckAgainst
  <2>2. CASE e # d
    BY <1>1, <2>1, <2>2 DEF PauseCandidates
  <2>3. CASE e = d
    BY <1>1, <2>1, <2>3 DEF PauseCandidates, MayBecome
  <2> QED BY <2>2, <2>3
<1>5. \A r \in execs : r.dep # NoDep => deps'[r.dep].st # "none"
  <2> SUFFICES ASSUME NEW r \in execs, r.dep # NoDep PROVE deps'[r.dep].st # "none"
    OBVIOUS
  <2>1. r.dep \in Dep /\ deps[r.dep].st # "none"
    BY DEF CheckAgainst, ExecRec
  <2> QED BY <1>1, <2>1
<1>6. /\ pauses' \subseteq PauseRec /\ \A z \in pauses' : PauseFits(z, deps')
      /\ \A y, z \in pauses' : y.origin = z.origin => y = z
  <2>1. CASE pauses' = pauses
    BY <1>3, <2>1 DEF CheckAgainst
  <2>2. CASE pauses' = SyncPauses(deps')
    <3>1. \A y, z \in pauses : y.origin = z.origin => y = z
      BY DEF CheckAgainst
    <3> QED BY <1>1, <1>2, <1>3, <2>2, <3>1, SyncFits
  <2> QED BY <2>1, <2>2
<1>7. CheckAgainst'
  BY <1>4, <1>5, <1>6 DEF CheckAgainst
<1> QED BY <1>1, <1>2, <1>6, <1>7

\* Nothing happens to these records.
LEMMA RecordsStay ==
    ASSUME RecordsRight, UNCHANGED <<deps, pauses, cleared, execs>>
    PROVE  RecordsRight'
BY DEF RecordsRight, CheckAgainst, PauseFits, PauseCandidates

\* No deployment that nobody started has a pause or a cleared one.
LEMMA NotPaused ==
    ASSUME RecordsRight, NEW d \in Dep, deps[d].st = "none"
    PROVE  d \notin cleared /\ \A z \in pauses : z.origin # d
<1>1. d \notin PauseCandidates(deps)
  BY DEF RecordsRight, DepRight, PauseCandidates
<1> QED BY <1>1 DEF RecordsRight, CheckAgainst, PauseFits

\* A decision of the developer is one replay accepts, whatever was queued since,
\* and clears only pauses there are (resume --dismiss, --newest, --revision).
LEMMA ResumeKeeps ==
    ASSUME ControlType, RecordsRight,
           ResumeDismiss \/ ResumeNewest \/ \E c \in Commit : ResumeRevision(c)
    PROVE  EventsGrow /\ RecordsRight' /\ readable' = readable /\ UNCHANGED deps
<1>0. HeldEvents \subseteq DOMAIN events /\ HeldEvents \intersect Pending = {}
  BY EventsFunction
<1>1. CASE ResumeDismiss
  <2> DEFINE r == [choice |-> "dismiss", sel |-> NoEvent, sup |-> {},
                   dismissed |-> HeldEvents \union Pending, cleared |-> ActivePauses]
  <2>1. /\ r.choice = "dismiss" /\ r.sel = NoEvent /\ r.sup = {}
        /\ r.dismissed = HeldEvents \union Pending /\ r.cleared = ActivePauses
    OBVIOUS
  <2>2. WriteResume(r) /\ pauses' = SyncPauses(deps) /\ UNCHANGED <<deps, execs>>
    BY <1>1 DEF ResumeDismiss
  <2> HIDE DEF r
  <2>3. ResumeOK(r)
    BY <2>1 DEF ResumeOK
  <2>4. EventsGrow
    BY <2>1, <2>2, <2>3, ResumeGrows DEF WriteResume
  <2>5. readable' = readable
    BY <2>2, <2>3 DEF WriteResume, ControlType
  <2>6. cleared' = cleared \union ActivePauses
    BY <2>1, <2>2 DEF WriteResume
  <2>7. cleared' \subseteq PauseCandidates(deps) /\ cleared' \subseteq Dep
    BY <2>6 DEF ActivePauses, PauseCandidates, RecordsRight, CheckAgainst
  <2>8. /\ SyncPauses(deps) \subseteq PauseRec
        /\ \A z \in SyncPauses(deps) : PauseFits(z, deps)
        /\ \A y, z \in SyncPauses(deps) : y.origin = z.origin => y = z
    BY SyncFits DEF RecordsRight, CheckAgainst
  <2>9. RecordsRight'
    BY <2>2, <2>7, <2>8 DEF RecordsRight, CheckAgainst, PauseFits, PauseCandidates
  <2> QED BY <2>2, <2>4, <2>5, <2>9
<1>2. ASSUME NEW choice \in {"newest", "revision"}, NEW sel \in HeldEvents, Pending = {},
             ResumeSelect(choice, sel), UNCHANGED <<deps, execs, pauses>>,
             choice = "newest" => \A j \in HeldEvents : events[sel].at >= events[j].at
      PROVE  EventsGrow /\ RecordsRight' /\ readable' = readable /\ UNCHANGED deps
  <2> DEFINE r == [choice |-> choice, sel |-> sel, sup |-> HeldEvents \ {sel},
                   dismissed |-> {}, cleared |-> {}]
  <2>1. /\ r.choice = choice /\ r.sel = sel /\ r.sup = HeldEvents \ {sel}
        /\ r.dismissed = {} /\ r.cleared = {}
    OBVIOUS
  <2>2. WriteResume(r)
    BY <1>2 DEF ResumeSelect
  <2> HIDE DEF r
  <2>3. ResumeOK(r)
    BY <1>2, <2>1 DEF ResumeOK
  <2>4. EventsGrow
    BY <1>2, <2>1, <2>2, <2>3, ResumeGrows DEF WriteResume
  <2>5. readable' = readable /\ cleared' = cleared
    BY <2>1, <2>2, <2>3 DEF WriteResume, ControlType
  <2>6. RecordsRight'
    BY <1>2, <2>5, RecordsStay
  <2> QED BY <1>2, <2>4, <2>5, <2>6
<1>3. CASE ResumeNewest
  <2>1. NewestOf(HeldEvents) \in HeldEvents /\ \A j \in HeldEvents : events[NewestOf(HeldEvents)].at >= events[j].at
    BY <1>0, <1>3, NewestIs DEF ResumeNewest
  <2> QED BY <1>2, <1>3, <2>1 DEF ResumeNewest
<1>4. ASSUME NEW c \in Commit, ResumeRevision(c)
      PROVE  EventsGrow /\ RecordsRight' /\ readable' = readable /\ UNCHANGED deps
  <2> DEFINE S == {i \in HeldEvents : events[i].rev = c}
  <2>1. S \subseteq DOMAIN events /\ S # {} /\ Pending = {}
    BY <1>0, <1>4 DEF ResumeRevision
  <2>2. NewestOf(S) \in HeldEvents
    <3> HIDE DEF S
    <3>1. NewestOf(S) \in S
      BY <2>1, NewestIs
    <3> QED BY <3>1 DEF S
  <2>3. ResumeSelect("revision", NewestOf(S)) /\ UNCHANGED <<deps, execs, pauses>>
    BY <1>4 DEF ResumeRevision
  <2> QED BY <1>2, <2>1, <2>2, <2>3
<1> QED BY <1>1, <1>3, <1>4

-----------------------------------------------------------------------------
(* What a step must preserve *)

\* The values of the variables that are not control records.
RestRight ==
    /\ repo \in Registration /\ repo.ver >= 1 /\ retired \in 0..MaxRetired
    /\ seen = NoSeen \/ seen \in [ver : 1..MaxVersion, rev : Commit]
    /\ sources \subseteq SourceRec
    /\ remote \in [Url -> Commit]
    /\ channel \in Seq(Push)
    /\ lock \in Executor \union {Free}
    /\ proc \in [Executor -> Process]
    /\ crashes \in 0..MaxCrash

\* The invariant, by what a step can disturb: the events, the other control
\* records, the rest of the state, and what the processes rely on.
InvParts ==
    /\ events \in Seq(Event) /\ SupersededRight
    /\ RecordsRight /\ OneRuns /\ readable = TRUE
    /\ RestRight
    /\ ProcessesRight

LEMMA InvIsParts == TriggersInv <=> InvParts
BY DEF TriggersInv, InvParts, Readable, TypeOK, ControlType, RestRight, RecordsRight

LEMMA PartsAreControl ==
    ASSUME InvParts
    PROVE  ControlType
BY DEF InvParts, ControlType, RecordsRight

\* The lock is not held by a process while it is free.
LEMMA FreeIsNobody == Free \notin Executor
BY TriggersAssumption DEF Free

\* What the events do in a step keeps the superseded ones right.
LEMMA SupersededStays ==
    ASSUME ControlType, SupersededRight, EventsGrow
    PROVE  SupersededRight'
<1> SUFFICES ASSUME NEW i \in DOMAIN events', events'[i].why = "newer_selected"
             PROVE  /\ events'[i].by \in DOMAIN events'
                    /\ events'[events'[i].by].at >= events'[i].at
                    /\ events'[events'[i].by].st # "held"
  BY DEF SupersededRight
<1>1. DOMAIN events \subseteq DOMAIN events'
  BY PositionsStay
<1>2. i \in DOMAIN events
  BY DEF EventsGrow
<1>3. events'[i].at = events[i].at
  BY <1>2 DEF EventsGrow
<1>4. CASE events[i].why = "newer_selected" /\ events'[i].by = events[i].by
  <2>1. /\ events[i].by \in DOMAIN events /\ events[events[i].by].at >= events[i].at
        /\ events[events[i].by].st # "held"
    BY <1>2, <1>4 DEF SupersededRight
  <2>2. events'[events[i].by].at = events[events[i].by].at /\ events'[events[i].by].st # "held"
    BY <2>1 DEF EventsGrow
  <2> QED BY <1>1, <1>3, <1>4, <2>1, <2>2
<1>5. CASE /\ events'[i].by \in DOMAIN events
           /\ events[events'[i].by].at >= events[i].at
           /\ events'[events'[i].by].st # "held"
  <2>1. events'[events'[i].by].at = events[events'[i].by].at
    BY <1>5 DEF EventsGrow
  <2> QED BY <1>1, <1>3, <1>5, <2>1
<1> QED BY <1>2, <1>4, <1>5 DEF EventsGrow

\* A step that leaves the control records alone keeps them right.
LEMMA ControlStays ==
    ASSUME InvParts, UNCHANGED control
    PROVE  EventsGrow /\ RecordsRight' /\ OneRuns' /\ readable' = TRUE /\ UNCHANGED deps
<1>1. EventsGrow
  BY PartsAreControl, EventsStay DEF control
<1>2. RecordsRight'
  BY RecordsStay DEF control, InvParts
<1>3. OneRuns'
  BY DEF control, InvParts, OneRuns, Running
<1> QED BY <1>1, <1>2, <1>3 DEF control, InvParts

\* A deployment that was started stays so.
Started == \A d \in Dep : deps[d].st # "none" => deps'[d].st # "none"

\* What a step leaves to a process that does not take it: its own state, what
\* the lock protects while it holds it, and the id it reserved.
Undisturbed(q) ==
    /\ proc'[q] = proc[q]
    /\ lock = q => UNCHANGED <<lock, repo, deps, pauses, cleared>>
    /\ proc[q].pc = "sourced" => deps'[proc[q].dep].st = "none"

LEMMA UndisturbedRight ==
    ASSUME InvParts, EventsGrow, sources \subseteq sources', Started,
           NEW q \in Executor, Undisturbed(q)
    PROVE  ProcessRight(q)'
<1>1. ProcessRight(q) /\ DOMAIN events \subseteq DOMAIN events'
  BY PartsAreControl, PositionsStay DEF InvParts, ProcessesRight
<1>2. proc'[q] = proc[q]
  BY DEF Undisturbed
<1>3. CASE proc[q].pc = "noting"
  BY <1>1, <1>2, <1>3 DEF ProcessRight, Undisturbed
<1>4. CASE proc[q].pc = "deploying"
  BY <1>1, <1>2, <1>4 DEF ProcessRight, Undisturbed, Running
<1>5. CASE proc[q].pc = "sourced"
  BY <1>1, <1>2, <1>5 DEF ProcessRight, Undisturbed
<1>6. CASE proc[q].pc \in {"decided", "fetched"}
  BY <1>1, <1>2, <1>6 DEF ProcessRight
<1>7. CASE proc[q].pc \notin {"noting", "deploying", "sourced", "decided", "fetched"}
  BY <1>1, <1>2, <1>7 DEF ProcessRight, Started
<1> QED BY <1>3, <1>4, <1>5, <1>6, <1>7

\* One process moves, to where it reserved no deployment id.
LEMMA OneMoves ==
    ASSUME InvParts, EventsGrow, sources \subseteq sources', Started,
           NEW p \in Executor, ProcessRight(p)', proc'[p].pc # "sourced",
           \A q \in Executor \ {p} : Undisturbed(q)
    PROVE  ProcessesRight'
<1>1. \A q \in Executor : ProcessRight(q)'
  BY UndisturbedRight
<1>2. \A q \in Executor \ {p} : proc'[q] = proc[q]
  BY DEF Undisturbed
<1>3. IdsApart'
  BY <1>2 DEF IdsApart, InvParts, ProcessesRight
<1> QED BY <1>1, <1>3 DEF ProcessesRight

\* No process moves.
LEMMA NoneMoves ==
    ASSUME InvParts, EventsGrow, sources \subseteq sources', Started,
           \A q \in Executor : Undisturbed(q)
    PROVE  ProcessesRight'
<1>1. \A q \in Executor : ProcessRight(q)' /\ proc'[q] = proc[q]
  BY UndisturbedRight DEF Undisturbed
<1>2. IdsApart'
  BY <1>1 DEF IdsApart, InvParts, ProcessesRight
<1> QED BY <1>1, <1>2 DEF ProcessesRight

\* A step under the free lock, or one that leaves alone what the lock protects,
\* disturbs no other process.
LEMMA LockProtects ==
    ASSUME InvParts, NEW q \in Executor, proc'[q] = proc[q],
           lock # q \/ UNCHANGED <<lock, repo, deps, pauses, cleared>>,
           UNCHANGED deps
    PROVE  Undisturbed(q)
BY DEF Undisturbed, InvParts, ProcessesRight, ProcessRight

\* A record of a process at another place.
LEMMA ProcessFields ==
    ASSUME NEW me \in Process, NEW pc \in Pc
    PROVE  /\ [me EXCEPT !.pc = pc] \in Process
           /\ [me EXCEPT !.pc = pc].pc = pc
           /\ [me EXCEPT !.pc = pc].first = me.first
           /\ [me EXCEPT !.pc = pc].reg = me.reg
           /\ [me EXCEPT !.pc = pc].head = me.head
           /\ [me EXCEPT !.pc = pc].ev = me.ev
           /\ [me EXCEPT !.pc = pc].sup = me.sup
           /\ [me EXCEPT !.pc = pc].dep = me.dep
BY DEF Process

\* What a step that only moves a process to another place does (Goto).
LEMMA GotoFacts ==
    ASSUME InvParts, NEW p \in Executor, NEW pc \in Pc, Goto(p, pc)
    PROVE  /\ proc' \in [Executor -> Process]
           /\ proc'[p].pc = pc /\ proc'[p].first = proc[p].first
           /\ proc'[p].reg = proc[p].reg /\ proc'[p].head = proc[p].head
           /\ proc'[p].ev = proc[p].ev /\ proc'[p].dep = proc[p].dep
           /\ \A q \in Executor \ {p} : proc'[q] = proc[q]
<1>1. proc[p] \in Process /\ proc \in [Executor -> Process]
  BY DEF InvParts, RestRight
<1>2. proc' = [proc EXCEPT ![p] = [proc[p] EXCEPT !.pc = pc]]
  BY DEF Goto
<1> DEFINE r == [proc[p] EXCEPT !.pc = pc]
<1>3. /\ r \in Process /\ r.pc = pc /\ r.first = proc[p].first /\ r.reg = proc[p].reg
      /\ r.head = proc[p].head /\ r.ev = proc[p].ev /\ r.dep = proc[p].dep
  BY <1>1, ProcessFields
<1> HIDE DEF r
<1>4. proc' \in [Executor -> Process] /\ proc'[p] = r /\ \A q \in Executor \ {p} : proc'[q] = proc[q]
  BY <1>1, <1>2, <1>3 DEF r
<1> QED BY <1>3, <1>4

\* A process that is given a new record.
LEMMA BecomeFacts ==
    ASSUME InvParts, NEW p \in Executor, NEW r \in Process, proc' = [proc EXCEPT ![p] = r]
    PROVE  /\ proc' \in [Executor -> Process] /\ proc'[p] = r
           /\ \A q \in Executor \ {p} : proc'[q] = proc[q]
BY DEF InvParts, RestRight

\* A process that has ended.
LEMMA OffIs == Off \in Process /\ Off.pc = "off"
<1>1. (CHOOSE u \in Url : TRUE) \in Url
  BY ControlAssumption
<1>2. [ver |-> 0, url |-> CHOOSE u \in Url : TRUE, live |-> FALSE] \in Registration
  BY <1>1, TriggersAssumption DEF Registration
<1> QED BY <1>2 DEF Off, Process, Pc, NoEvent, NoDep

\* A process at a place where it relies on nothing is right.
LEMMA NothingToRelyOn ==
    ASSUME NEW p, proc[p].pc \in {"off", "poll", "drain", "loop", "unrun"}
    PROVE  ProcessRight(p)
BY DEF ProcessRight

\* Exit leaves such a process.
LEMMA ExitFacts ==
    ASSUME InvParts, NEW p \in Executor, Exit(p)
    PROVE  /\ proc' \in [Executor -> Process] /\ proc'[p].pc = "off" /\ ProcessRight(p)'
           /\ \A q \in Executor \ {p} : proc'[q] = proc[q]
<1>1. /\ proc' \in [Executor -> Process] /\ proc'[p] = Off
      /\ \A q \in Executor \ {p} : proc'[q] = proc[q]
  BY BecomeFacts, OffIs DEF Exit
<1>2. proc'[p].pc = "off"
  BY <1>1, OffIs
<1>3. ProcessRight(p)'
  BY <1>2 DEF ProcessRight
<1> QED BY <1>1, <1>2, <1>3

\* A step of one process that touches neither control records nor registrations
\* nor the lock.
LEMMA PrivateStep ==
    ASSUME InvParts, NEW p \in Executor, proc' \in [Executor -> Process],
           \A q \in Executor \ {p} : proc'[q] = proc[q],
           ProcessRight(p)', proc'[p].pc # "sourced",
           UNCHANGED <<control, git, remote, lock, crashes>>, channel' \in Seq(Push)
    PROVE  InvParts' /\ EventsGrow
<1>1. EventsGrow /\ RecordsRight' /\ OneRuns' /\ readable' = TRUE /\ UNCHANGED deps
  BY ControlStays
<1>2. events' \in Seq(Event) /\ SupersededRight'
  BY <1>1, SupersededStays, PartsAreControl DEF EventsGrow, InvParts
<1>3. RestRight'
  BY DEF InvParts, RestRight, git
<1>4. \A q \in Executor \ {p} : Undisturbed(q)
  BY LockProtects DEF control, git
<1>5. ProcessesRight'
  BY <1>1, <1>4, OneMoves DEF Started, git
<1> QED BY <1>1, <1>2, <1>3, <1>5 DEF InvParts

-----------------------------------------------------------------------------
(* The steps that only move a process *)

LEMMA ProcessIs ==
    ASSUME InvParts, NEW p \in Executor
    PROVE  /\ proc[p] \in Process /\ proc[p].reg \in Registration /\ ProcessRight(p)
           /\ channel \in Seq(Push) /\ repo \in Registration
<1>1. proc[p] \in Process /\ ProcessRight(p) /\ channel \in Seq(Push) /\ repo \in Registration
  BY DEF InvParts, RestRight, ProcessesRight
<1> QED BY <1>1 DEF Process

\* `watch` starts with its first pass.
LEMMA StartWatchKeeps ==
    ASSUME InvParts, NEW p \in Executor, StartWatch(p)
    PROVE  InvParts' /\ EventsGrow
<1> DEFINE r == [proc[p] EXCEPT !.pc = "poll", !.first = TRUE]
<1>1. r \in Process /\ r.pc = "poll"
  BY ProcessIs DEF Process, Pc
<1>2. proc' = [proc EXCEPT ![p] = r]
  BY DEF StartWatch
<1> HIDE DEF r
<1>3. /\ proc' \in [Executor -> Process] /\ proc'[p].pc = "poll"
      /\ \A q \in Executor \ {p} : proc'[q] = proc[q]
  BY <1>1, <1>2, BecomeFacts
<1>4. ProcessRight(p)'
  BY <1>3 DEF ProcessRight
<1> QED BY <1>3, <1>4, PrivateStep, ProcessIs DEF StartWatch

\* A process that goes to a place where it relies on nothing.
LEMMA IdleStep ==
    ASSUME InvParts, NEW p \in Executor, NEW pc \in {"off", "poll", "drain", "loop", "unrun"},
           Goto(p, pc), UNCHANGED <<control, git, remote, channel, lock, crashes>>
    PROVE  InvParts' /\ EventsGrow
<1>1. pc \in Pc
  BY DEF Pc
<1>2. /\ proc' \in [Executor -> Process] /\ proc'[p].pc = pc
      /\ \A q \in Executor \ {p} : proc'[q] = proc[q]
  BY <1>1, GotoFacts
<1>3. ProcessRight(p)'
  BY <1>2 DEF ProcessRight
<1> QED BY <1>2, <1>3, PrivateStep, ProcessIs

\* `git-run` starts to execute the queue.
LEMMA StartRunKeeps ==
    ASSUME InvParts, NEW p \in Executor, StartRun(p)
    PROVE  InvParts' /\ EventsGrow
BY IdleStep DEF StartRun

\* The branch is read, without the lock.
LEMMA PollReadKeeps ==
    ASSUME InvParts, NEW p \in Executor, PollRead(p)
    PROVE  InvParts' /\ EventsGrow
<1>1. CASE Goto(p, "drain")
  BY <1>1, IdleStep DEF PollRead
<1>2. CASE /\ repo.live
           /\ proc' = [proc EXCEPT ![p].pc = "observed", ![p].reg = repo, ![p].head = remote[repo.url]]
  <2> DEFINE r == [proc[p] EXCEPT !.pc = "observed", !.reg = repo, !.head = remote[repo.url]]
  <2>1. repo.url \in Url /\ remote[repo.url] \in Commit
    BY DEF InvParts, RestRight, Registration
  <2>2. r \in Process /\ r.pc = "observed" /\ r.reg = repo /\ r.head \in Commit
    BY <2>1, ProcessIs DEF Process, Pc
  <2>3. proc' = [proc EXCEPT ![p] = r]
    BY <1>2
  <2> HIDE DEF r
  <2>4. proc' \in [Executor -> Process] /\ proc'[p] = r /\ \A q \in Executor \ {p} : proc'[q] = proc[q]
    BY <2>2, <2>3, BecomeFacts
  <2>5. ProcessRight(p)'
    BY <1>2, <2>2, <2>4 DEF ProcessRight
  <2> QED BY <2>2, <2>4, <2>5, PrivateStep, ProcessIs DEF PollRead
<1> QED BY <1>1, <1>2 DEF PollRead

\* The registrations are read once for the passes that follow.
LEMMA DrainEnterKeeps ==
    ASSUME InvParts, NEW p \in Executor, DrainEnter(p)
    PROVE  InvParts' /\ EventsGrow
<1> DEFINE r == [proc[p] EXCEPT !.pc = "loop", !.reg = repo]
<1>1. r \in Process /\ r.pc = "loop"
  BY ProcessIs DEF Process, Pc
<1>2. proc' = [proc EXCEPT ![p] = r]
  BY DEF DrainEnter
<1> HIDE DEF r
<1>3. /\ proc' \in [Executor -> Process] /\ proc'[p].pc = "loop"
      /\ \A q \in Executor \ {p} : proc'[q] = proc[q]
  BY <1>1, <1>2, BecomeFacts
<1>4. ProcessRight(p)'
  BY <1>3 DEF ProcessRight
<1> QED BY <1>3, <1>4, PrivateStep, ProcessIs DEF DrainEnter

\* There is nothing to execute.
LEMMA DrainDoneKeeps ==
    ASSUME InvParts, NEW p \in Executor, DrainDone(p)
    PROVE  InvParts' /\ EventsGrow
<1>1. CASE Exit(p)
  BY <1>1, ExitFacts, PrivateStep, ProcessIs DEF DrainDone
<1>2. ASSUME NEW pc \in {"poll", "drain"}, proc' = [proc EXCEPT ![p] = [Off EXCEPT !.pc = pc]]
      PROVE  InvParts' /\ EventsGrow
  <2> DEFINE r == [Off EXCEPT !.pc = pc]
  <2>1. pc \in Pc
    BY DEF Pc
  <2>2. r \in Process /\ r.pc = pc
    BY <2>1, OffIs, ProcessFields
  <2>3. proc' = [proc EXCEPT ![p] = r]
    BY <1>2
  <2> HIDE DEF r
  <2>4. /\ proc' \in [Executor -> Process] /\ proc'[p].pc = pc
        /\ \A q \in Executor \ {p} : proc'[q] = proc[q]
    BY <2>2, <2>3, BecomeFacts
  <2>5. ProcessRight(p)'
    BY <2>4 DEF ProcessRight
  <2> QED BY <2>4, <2>5, PrivateStep, ProcessIs DEF DrainDone
<1> QED BY <1>1, <1>2 DEF DrainDone

\* An event to execute is an event, and the ones it gives up are too.
LEMMA NextIsEvent ==
    ASSUME ControlType, NEW n \in NextExecution
    PROVE  n[1] \in DOMAIN events /\ n[1] \in Nat /\ n[2] \in SUBSET Nat
<1>1. /\ HeldEvents \subseteq DOMAIN events /\ Pending \subseteq DOMAIN events
      /\ \A i \in DOMAIN events : i \in Nat
  BY EventsFunction
<1>2. CASE Pending # {}
  <2>1. n[1] \in Pending /\ n[2] = {}
    BY <1>2 DEF NextExecution
  <2> QED BY <1>1, <2>1
<1>3. CASE Pending = {}
  <2>1. HeldEvents # {} /\ n = <<NewestOf(HeldEvents), HeldEvents \ {NewestOf(HeldEvents)}>>
    BY <1>3 DEF NextExecution
  <2>2. NewestOf(HeldEvents) \in HeldEvents
    BY <1>1, <2>1, NewestIs
  <2>3. n[1] = NewestOf(HeldEvents) /\ n[2] = HeldEvents \ {NewestOf(HeldEvents)}
    BY <2>1
  <2> QED BY <1>1, <2>2, <2>3
<1> QED BY <1>2, <1>3

\* The event to execute is decided from what is read now.
LEMMA DecideKeeps ==
    ASSUME InvParts, NEW p \in Executor, Decide(p)
    PROVE  InvParts' /\ EventsGrow
<1>1. PICK n \in NextExecution :
          proc' = [proc EXCEPT ![p].pc = "decided", ![p].ev = n[1], ![p].sup = n[2]]
  BY DEF Decide
<1>2. n[1] \in DOMAIN events /\ n[1] \in Nat /\ n[2] \in SUBSET Nat
  BY NextIsEvent, PartsAreControl
<1> DEFINE r == [proc[p] EXCEPT !.pc = "decided", !.ev = n[1], !.sup = n[2]]
<1>3. r \in Process /\ r.pc = "decided" /\ r.ev = n[1] /\ r.reg = proc[p].reg
  BY <1>2, ProcessIs DEF Process, Pc
<1>4. proc' = [proc EXCEPT ![p] = r]
  BY <1>1
<1> HIDE DEF r
<1>5. proc' \in [Executor -> Process] /\ proc'[p] = r /\ \A q \in Executor \ {p} : proc'[q] = proc[q]
  BY <1>3, <1>4, BecomeFacts
<1>6. events' = events /\ proc[p].reg.live
  BY DEF Decide, control
<1>7. ProcessRight(p)'
  BY <1>2, <1>3, <1>5, <1>6 DEF ProcessRight
<1> QED BY <1>3, <1>5, <1>7, PrivateStep, ProcessIs DEF Decide

\* The commit is fetched, or not.
LEMMA CheckoutKeeps ==
    ASSUME InvParts, NEW p \in Executor, Checkout(p)
    PROVE  InvParts' /\ EventsGrow
<1>1. CASE Goto(p, "unrun")
  BY <1>1, IdleStep DEF Checkout
<1>2. CASE Goto(p, "fetched")
  <2>1. /\ proc' \in [Executor -> Process] /\ proc'[p].pc = "fetched"
        /\ proc'[p].reg = proc[p].reg /\ proc'[p].ev = proc[p].ev
        /\ \A q \in Executor \ {p} : proc'[q] = proc[q]
    BY <1>2, GotoFacts DEF Pc
  <2>2. proc[p].reg.live /\ proc[p].ev \in DOMAIN events
    BY ProcessIs DEF ProcessRight, Checkout
  <2>3. events' = events
    BY DEF Checkout, control
  <2>4. ProcessRight(p)'
    BY <2>1, <2>2, <2>3 DEF ProcessRight
  <2> QED BY <2>1, <2>4, PrivateStep, ProcessIs DEF Checkout
<1> QED BY <1>1, <1>2 DEF Checkout

-----------------------------------------------------------------------------
(* The steps of registrations, pushes and decisions *)

\* The lock is free, and no process moves: whatever is written is written
\* between two steps of everybody.
LEMMA BetweenSteps ==
    ASSUME InvParts, EventsGrow, RecordsRight', OneRuns', readable' = TRUE, RestRight',
           lock = Free, UNCHANGED <<proc, deps>>, sources \subseteq sources'
    PROVE  InvParts' /\ EventsGrow
<1>1. \A q \in Executor : Undisturbed(q)
  BY FreeIsNobody, LockProtects
<1>2. ProcessesRight'
  BY <1>1, NoneMoves DEF Started
<1>3. SupersededRight' /\ events' \in Seq(Event)
  BY SupersededStays, PartsAreControl DEF InvParts, EventsGrow
<1> QED BY <1>2, <1>3 DEF InvParts

\* A registration is added, edited or removed while nobody holds the lock.
LEMMA RegistrationKeeps ==
    ASSUME InvParts, (\E u \in Url : RepoAdd(u) \/ RepoUpdate(u)) \/ RepoRemove
    PROVE  InvParts' /\ EventsGrow
<1>1. repo \in Registration /\ repo.ver \in Nat /\ repo.ver >= 1 /\ retired \in 0..MaxRetired
      /\ MaxVersion \in Nat /\ MaxRetired \in Nat
  BY TriggersAssumption DEF InvParts, RestRight, Registration
<1>2. /\ repo' \in Registration /\ repo'.ver >= 1 /\ retired' \in 0..MaxRetired
      /\ seen' = NoSeen \/ seen' = seen
  <2>1. ASSUME NEW u \in Url, RepoAdd(u)
        PROVE  repo' \in Registration /\ repo'.ver >= 1 /\ UNCHANGED <<retired, seen>>
    BY <1>1, <2>1 DEF RepoAdd, Registration
  <2>2. ASSUME NEW u \in Url, RepoUpdate(u)
        PROVE  repo' \in Registration /\ repo'.ver >= 1 /\ UNCHANGED <<retired, seen>>
    <3>1. repo' = [repo EXCEPT !.ver = repo.ver + 1, !.url = u] /\ repo.ver < MaxVersion
      BY <2>2 DEF RepoUpdate
    <3>2. repo.ver + 1 \in 0..MaxVersion /\ repo.ver + 1 >= 1
      BY <1>1, <3>1
    <3>3. repo' \in Registration
      BY <1>1, <3>1, <3>2 DEF Registration
    <3>4. repo'.ver = repo.ver + 1
      BY <1>1, <3>1 DEF Registration
    <3> QED BY <2>2, <3>2, <3>3, <3>4 DEF RepoUpdate
  <2>3. CASE RepoRemove
    <3>1. repo' = [repo EXCEPT !.live = FALSE] /\ retired' = retired + 1 /\ retired < MaxRetired
      BY <2>3 DEF RepoRemove
    <3>2. repo' \in Registration
      BY <1>1, <3>1 DEF Registration
    <3>3. repo'.ver = repo.ver
      BY <1>1, <3>1 DEF Registration
    <3>4. retired' \in 0..MaxRetired
      BY <1>1, <3>1
    <3> QED BY <1>1, <2>3, <3>2, <3>3, <3>4 DEF RepoRemove
  <2> QED BY <1>1, <2>1, <2>2, <2>3
<1>3. /\ UNCHANGED <<control, sources, remote, channel, lock, proc, crashes>> /\ lock = Free
  BY DEF RepoAdd, RepoUpdate, RepoRemove
<1>4. RestRight'
  BY <1>2, <1>3 DEF InvParts, RestRight
<1> QED BY <1>3, <1>4, ControlStays, BetweenSteps

\* A push is accepted, or only made: neither is recorded yet.
LEMMA PushKeeps ==
    ASSUME InvParts,
           \/ \E u \in Url, c \in Commit : RemotePush(u, c)
           \/ \E d \in Delivery : WebhookArrives(d)
    PROVE  InvParts' /\ EventsGrow
<1>1. UNCHANGED <<control, git, lock, proc, crashes>>
  BY DEF RemotePush, WebhookArrives
<1>2. remote' \in [Url -> Commit] /\ channel' \in Seq(Push)
  <2>1. ASSUME NEW u \in Url, NEW c \in Commit, RemotePush(u, c)
        PROVE  remote' \in [Url -> Commit] /\ channel' \in Seq(Push)
    BY <2>1 DEF RemotePush, InvParts, RestRight
  <2>2. ASSUME NEW d \in Delivery, WebhookArrives(d)
        PROVE  remote' \in [Url -> Commit] /\ channel' \in Seq(Push)
    <3>1. repo.url \in Url /\ remote[repo.url] \in Commit /\ channel \in Seq(Push) /\ remote' \in [Url -> Commit]
      BY <2>2 DEF WebhookArrives, InvParts, RestRight, Registration
    <3>2. <<"given", d>> \in DeliveryId
      BY DEF DeliveryId
    <3>3. [id |-> <<"given", d>>, rev |-> remote[repo.url], url |-> repo.url] \in Push
      BY <3>1, <3>2 DEF Push
    <3> QED BY <2>2, <3>1, <3>3, AppendProperties DEF WebhookArrives
  <2> QED BY <2>1, <2>2
<1>3. EventsGrow /\ RecordsRight' /\ OneRuns' /\ readable' = TRUE /\ UNCHANGED deps
  BY <1>1, ControlStays
<1>4. RestRight'
  BY <1>1, <1>2 DEF InvParts, RestRight, git
<1>5. \A q \in Executor : Undisturbed(q)
  BY <1>1, LockProtects DEF control, git
<1>6. ProcessesRight'
  BY <1>1, <1>3, <1>5, NoneMoves DEF Started, git
<1>7. SupersededRight' /\ events' \in Seq(Event)
  BY <1>3, SupersededStays, PartsAreControl DEF InvParts, EventsGrow
<1> QED BY <1>3, <1>4, <1>6, <1>7 DEF InvParts

\* A CI job queues an event.
LEMMA GitTriggerKeeps ==
    ASSUME InvParts, NEW d \in Delivery, NEW c \in Commit, NEW t \in Time, GitTrigger(d, c, t)
    PROVE  InvParts' /\ EventsGrow
<1>1. repo.url \in Url
  BY DEF InvParts, RestRight, Registration
<1>2. <<"given", d>> \in DeliveryId /\ "ci" \in Source
  BY DEF DeliveryId, Source
<1>3. EventsGrow
  BY <1>1, <1>2, QueueGrows, PartsAreControl DEF GitTrigger
<1>4. RecordsRight' /\ OneRuns' /\ readable' = TRUE
  BY RecordsStay DEF GitTrigger, InvParts, OneRuns, Running
<1>5. RestRight'
  BY DEF GitTrigger, InvParts, RestRight, git
<1> QED BY <1>3, <1>4, <1>5, BetweenSteps DEF GitTrigger, git

\* The developer decides what is done with the queue.
LEMMA DecisionKeeps ==
    ASSUME InvParts, Resume
    PROVE  InvParts' /\ EventsGrow
<1>1. EventsGrow /\ RecordsRight' /\ readable' = readable /\ UNCHANGED deps
  BY ResumeKeeps, PartsAreControl DEF Resume, InvParts
<1>2. OneRuns' /\ readable' = TRUE
  BY <1>1 DEF InvParts, OneRuns, Running
<1>3. RestRight'
  BY DEF Resume, InvParts, RestRight, git
<1> QED BY <1>1, <1>2, <1>3, BetweenSteps DEF Resume, git

-----------------------------------------------------------------------------
(* The steps that use the lock or what it protects *)

\* What is left to show of a step once its parts are known.
LEMMA FromParts ==
    ASSUME InvParts, EventsGrow, RecordsRight', OneRuns', readable' = TRUE, RestRight', ProcessesRight'
    PROVE  InvParts' /\ EventsGrow
<1>1. SupersededRight' /\ events' \in Seq(Event)
  BY SupersededStays, PartsAreControl DEF InvParts, EventsGrow
<1> QED BY <1>1 DEF InvParts

\* A process dies: the lock and the buffered pushes go with it.
LEMMA CrashKeeps ==
    ASSUME InvParts, NEW p \in Executor, Crash(p)
    PROVE  InvParts' /\ EventsGrow
<1>1. /\ proc' \in [Executor -> Process] /\ proc'[p].pc = "off" /\ ProcessRight(p)'
      /\ \A q \in Executor \ {p} : proc'[q] = proc[q]
  BY ExitFacts DEF Crash
<1>2. EventsGrow /\ RecordsRight' /\ OneRuns' /\ readable' = TRUE /\ UNCHANGED deps
  BY ControlStays DEF Crash
<1>3. ASSUME NEW q \in Executor \ {p} PROVE Undisturbed(q)
  <2>1. lock = q => lock' = lock
    BY FreeIsNobody DEF Crash
  <2> QED BY <1>1, <2>1, LockProtects DEF Crash, control, git
<1>4. ProcessesRight'
  BY <1>1, <1>2, <1>3, OneMoves DEF Started, Crash, git
<1>5. channel' \in Seq(Push)
  BY EmptySeq DEF Crash, InvParts, RestRight
<1>6. crashes' \in 0..MaxCrash
  BY TriggersAssumption DEF Crash, InvParts, RestRight
<1>7. lock' \in Executor \union {Free}
  BY DEF Crash, InvParts, RestRight
<1>8. RestRight'
  BY <1>1, <1>5, <1>6, <1>7 DEF InvParts, RestRight, git, Crash
<1> QED BY <1>2, <1>4, <1>8, FromParts

\* The branch moved: under the lock the event is queued, for the registration
\* that was read.
LEMMA PollQueueKeeps ==
    ASSUME InvParts, NEW p \in Executor, NEW t \in Time, PollQueue(p, t)
    PROVE  InvParts' /\ EventsGrow
<1> DEFINE id == PollDelivery(proc[p].head)
<1>1. CASE Goto(p, "drain") /\ UNCHANGED <<events, lock>>
  BY <1>1, IdleStep DEF PollQueue, control
<1>2. CASE /\ lock = Free /\ SameRegistration(p) /\ Goto(p, "noting") /\ lock' = p
           /\ events' = QueueEvent(id, PollSource(p), proc[p].head, t, repo.url) \/ events' = events
  <2>1. proc[p].reg.live /\ proc[p].head \in Commit /\ repo = proc[p].reg
    BY <1>2, ProcessIs DEF PollQueue, ProcessRight, SameRegistration
  <2>2. repo.url \in Url /\ retired \in Nat
    BY TriggersAssumption DEF InvParts, RestRight, Registration
  <2>3. id \in DeliveryId /\ PollSource(p) \in Source
    BY <2>1, <2>2 DEF PollDelivery, DeliveryId, PollSource, Source
  <2> HIDE DEF id
  <2>4. EventsGrow
    BY <1>2, <2>1, <2>2, <2>3, QueueGrows, EventsStay, PartsAreControl
  <2>5. UNCHANGED <<deps, pauses, cleared, execs, readable, git, remote, channel, crashes>>
    BY DEF PollQueue
  <2>6. RecordsRight' /\ OneRuns' /\ readable' = TRUE
    BY <2>5, RecordsStay DEF InvParts, OneRuns, Running
  <2>7. /\ proc' \in [Executor -> Process] /\ proc'[p].pc = "noting"
        /\ proc'[p].reg = proc[p].reg /\ proc'[p].head = proc[p].head
        /\ \A q \in Executor \ {p} : proc'[q] = proc[q]
    BY <1>2, GotoFacts DEF Pc
  <2>8. RestRight'
    BY <1>2, <2>5, <2>7 DEF InvParts, RestRight, git
  <2>9. ProcessRight(p)'
    BY <1>2, <2>1, <2>5, <2>7 DEF ProcessRight, git
  <2>10. \A q \in Executor \ {p} : Undisturbed(q)
    BY <1>2, <2>5, <2>7, FreeIsNobody, LockProtects
  <2>11. ProcessesRight'
    BY <2>4, <2>5, <2>7, <2>9, <2>10, OneMoves DEF Started, git
  <2> QED BY <2>4, <2>6, <2>8, <2>11, FromParts
<1> QED BY <1>1, <1>2 DEF PollQueue

\* The observation is recorded for a registration that is still there.
LEMMA PollNoteKeeps ==
    ASSUME InvParts, NEW p \in Executor, PollNote(p)
    PROVE  InvParts' /\ EventsGrow
<1>1. lock = p /\ proc[p].reg = repo /\ repo.live /\ proc[p].head \in Commit
  BY ProcessIs DEF PollNote, ProcessRight
<1>2. UNCHANGED <<events, deps, pauses, cleared, execs, repo, retired, sources, remote, channel, crashes>>
  BY DEF PollNote
<1>3. EventsGrow
  BY <1>2, EventsStay, PartsAreControl
<1>4. RecordsRight' /\ OneRuns'
  BY <1>2, RecordsStay DEF InvParts, OneRuns, Running
<1>5. readable' = TRUE
  BY <1>1 DEF PollNote, Registered, InvParts
<1>6. /\ proc' \in [Executor -> Process] /\ proc'[p].pc = "drain"
      /\ \A q \in Executor \ {p} : proc'[q] = proc[q]
  BY GotoFacts DEF PollNote, Pc
<1>7. seen' \in [ver : 1..MaxVersion, rev : Commit]
  <2>1. repo.ver \in 1..MaxVersion
    BY TriggersAssumption DEF InvParts, RestRight, Registration
  <2> QED BY <1>1, <2>1 DEF PollNote
<1>8. RestRight'
  BY <1>2, <1>6, <1>7 DEF PollNote, InvParts, RestRight
<1>9. ProcessRight(p)'
  BY <1>6 DEF ProcessRight
<1>10. \A q \in Executor \ {p} : Undisturbed(q)
  BY <1>1, <1>2, <1>6, LockProtects
<1>11. ProcessesRight'
  BY <1>2, <1>3, <1>6, <1>9, <1>10, OneMoves DEF Started
<1> QED BY <1>3, <1>4, <1>5, <1>8, <1>11, FromParts

\* A push is taken in, or the lock is taken and the process ends.
LEMMA AcceptWebhookKeeps ==
    ASSUME InvParts, NEW p \in Executor, NEW t \in Time, AcceptWebhook(p, t)
    PROVE  InvParts' /\ EventsGrow
<1>1. CASE Exit(p) /\ channel' = <<>> /\ UNCHANGED events
  <2>1. channel' \in Seq(Push)
    BY <1>1, EmptySeq
  <2> QED BY <1>1, <2>1, ExitFacts, PrivateStep DEF AcceptWebhook, control
<1>2. CASE /\ lock = Free /\ channel' = Tail(channel) /\ UNCHANGED proc
           /\ \/ events' = QueueEvent(Head(channel).id, "webhook", Head(channel).rev, t, Head(channel).url)
              \/ events' = events
  <2>1. channel \in Seq(Push) /\ channel # <<>>
    BY DEF AcceptWebhook, InvParts, RestRight
  <2>2. Head(channel) \in Push /\ Tail(channel) \in Seq(Push)
    BY <2>1, HeadTailProperties
  <2>3. Head(channel).id \in DeliveryId /\ Head(channel).rev \in Commit /\ Head(channel).url \in Url
    BY <2>2 DEF Push
  <2>4. "webhook" \in Source
    BY DEF Source
  <2>5. EventsGrow
    BY <1>2, <2>3, <2>4, QueueGrows, EventsStay, PartsAreControl
  <2>6. UNCHANGED <<deps, pauses, cleared, execs, readable, git, remote, lock, crashes>>
    BY DEF AcceptWebhook
  <2>7. RecordsRight' /\ OneRuns' /\ readable' = TRUE
    BY <2>6, RecordsStay DEF InvParts, OneRuns, Running
  <2>8. RestRight'
    BY <1>2, <2>2, <2>6 DEF InvParts, RestRight, git
  <2> QED BY <1>2, <2>5, <2>6, <2>7, <2>8, BetweenSteps DEF git
<1> QED BY <1>1, <1>2 DEF AcceptWebhook

\* The source is recorded for the registration it was fetched with, under a
\* deployment id that nobody else uses.
LEMMA RecordSourceKeeps ==
    ASSUME InvParts, NEW p \in Executor, RecordSource(p)
    PROVE  InvParts' /\ EventsGrow
<1> DEFINE d == TakeId(FreshDep)
           s == [dep |-> d, ver |-> proc[p].reg.ver, url |-> proc[p].reg.url,
                 rev |-> events[proc[p].ev].rev, ev |-> proc[p].ev]
           r == [proc[p] EXCEPT !.pc = "sourced", !.dep = d]
<1>1. CASE Goto(p, "unrun") /\ UNCHANGED <<sources, readable>>
  BY <1>1, IdleStep DEF RecordSource, control, git
<1>2. CASE /\ lock = Free /\ SameRegistration(p) /\ FreshDep # {}
           /\ sources' = sources \union {s} /\ readable' = (readable /\ Registered)
           /\ proc' = [proc EXCEPT ![p].pc = "sourced", ![p].dep = d]
  <2>1. proc[p].reg.live /\ proc[p].ev \in DOMAIN events /\ repo = proc[p].reg
    BY <1>2, ProcessIs DEF RecordSource, ProcessRight, SameRegistration
  <2>2. d \in FreshDep
    BY <1>2, TakeIdIs DEF FreshDep
  <2>3. d \in Dep /\ deps[d].st = "none" /\ \A z \in sources : z.dep # d
    BY <2>2 DEF FreshDep
  <2> HIDE DEF d
  <2>4. s \in SourceRec
    <3>1. repo.ver \in 1..MaxVersion /\ repo.url \in Url
      BY TriggersAssumption DEF InvParts, RestRight, Registration
    <3>2. events[proc[p].ev].rev \in Commit /\ proc[p].ev \in Nat
      BY <2>1, EventsFunction, PartsAreControl DEF Event
    <3> QED BY <2>1, <2>3, <3>1, <3>2 DEF SourceRec
  <2>5. s.dep = d
    OBVIOUS
  <2> HIDE DEF s
  <2>6. UNCHANGED <<events, deps, pauses, cleared, execs, repo, retired, seen, remote, channel, lock, crashes>>
    BY DEF RecordSource
  <2>7. EventsGrow /\ RecordsRight' /\ OneRuns' /\ readable' = TRUE
    BY <1>2, <2>1, <2>6, EventsStay, PartsAreControl, RecordsStay DEF InvParts, OneRuns, Running, Registered
  <2>8. r \in Process /\ r.pc = "sourced" /\ r.dep = d
    BY <2>3, ProcessIs DEF Process, Pc
  <2>9. proc' = [proc EXCEPT ![p] = r]
    BY <1>2
  <2> HIDE DEF r
  <2>10. proc' \in [Executor -> Process] /\ proc'[p] = r /\ \A q \in Executor \ {p} : proc'[q] = proc[q]
    BY <2>8, <2>9, BecomeFacts
  <2>11. RestRight'
    BY <1>2, <2>4, <2>6, <2>10 DEF InvParts, RestRight
  <2>12. ProcessRight(p)'
    BY <1>2, <2>3, <2>5, <2>6, <2>8, <2>10 DEF ProcessRight
  <2>13. \A q \in Executor \ {p} : Undisturbed(q)
    BY <2>6, <2>10, LockProtects
  <2>14. \A q \in Executor \ {p} : ProcessRight(q)'
    BY <1>2, <2>6, <2>7, <2>13, UndisturbedRight DEF Started
  <2>15. ASSUME NEW q \in Executor \ {p}, proc[q].pc = "sourced" PROVE proc[q].dep # d
    BY <2>3, <2>15, ProcessIs DEF ProcessRight
  <2>16. IdsApart'
    <3> SUFFICES ASSUME NEW a \in Executor, NEW b \in Executor, proc'[a].pc = "sourced",
                        proc'[b].pc = "sourced", proc'[a].dep = proc'[b].dep
                 PROVE  a = b
      BY DEF IdsApart
    <3>1. CASE a = p
      BY <3>1, <2>8, <2>10, <2>15
    <3>2. CASE b = p
      BY <3>2, <2>8, <2>10, <2>15
    <3>3. CASE a # p /\ b # p
      BY <3>3, <2>10 DEF InvParts, ProcessesRight, IdsApart
    <3> QED BY <3>1, <3>2, <3>3
  <2>17. ProcessesRight'
    BY <2>12, <2>14, <2>16 DEF ProcessesRight
  <2> QED BY <2>7, <2>11, <2>17, FromParts
<1> QED BY <1>1, <1>2 DEF RecordSource

-----------------------------------------------------------------------------
(* The steps of deployments *)

\* A deployment record changes: what that does to the control records.
LEMMA DeploymentChanges ==
    ASSUME InvParts, NEW d \in Dep, NEW x \in Deployment, DepRight(x), x.st # "none",
           MayBecome(d, x), deps' = [deps EXCEPT ![d] = x],
           pauses' = pauses \/ pauses' = SyncPauses(deps'),
           UNCHANGED <<events, cleared, execs, readable>>,
           x.st = "running" => deps[d].st = "running" \/ \A e \in Dep : deps[e].st # "running"
    PROVE  /\ EventsGrow /\ RecordsRight' /\ OneRuns' /\ readable' = TRUE /\ Started
           /\ deps'[d] = x /\ \A e \in Dep \ {d} : deps'[e] = deps[e]
<1>1. EventsGrow /\ RecordsRight' /\ readable' = TRUE
  BY EventsStay, PartsAreControl, RecordChanges DEF InvParts
<1>2. deps'[d] = x /\ \A e \in Dep \ {d} : deps'[e] = deps[e]
  BY DEF InvParts, RecordsRight
<1>3. Started
  BY <1>2 DEF Started
<1>4. OneRuns'
  <2> SUFFICES ASSUME NEW a \in Dep, NEW b \in Dep, deps'[a].st = "running", deps'[b].st = "running"
               PROVE  a = b
    BY DEF OneRuns, Running
  <2> QED BY <1>2 DEF InvParts, OneRuns, Running
<1> QED BY <1>1, <1>2, <1>3, <1>4

\* The developer marks or restores a deployment while nobody holds the lock:
\* no process reserved it.
LEMMA RepairKeeps ==
    ASSUME InvParts, NEW d \in Dep, NEW x \in Deployment, DepRight(x), x.st # "none",
           MayBecome(d, x), deps' = [deps EXCEPT ![d] = x], pauses' = SyncPauses(deps'),
           UNCHANGED <<events, cleared, execs, readable>>,
           deps[d].st # "none", x.st # "running", lock = Free,
           UNCHANGED <<git, remote, channel, lock, proc, crashes>>
    PROVE  InvParts' /\ EventsGrow
<1>1. /\ EventsGrow /\ RecordsRight' /\ OneRuns' /\ readable' = TRUE /\ Started
      /\ deps'[d] = x /\ \A e \in Dep \ {d} : deps'[e] = deps[e]
  BY DeploymentChanges
<1>2. RestRight'
  BY DEF InvParts, RestRight, git
<1>3. ASSUME NEW q \in Executor PROVE Undisturbed(q)
  <2>1. proc[q].pc = "sourced" => proc[q].dep \in Dep /\ deps[proc[q].dep].st = "none"
    BY ProcessIs DEF ProcessRight
  <2> QED BY <1>1, <2>1, FreeIsNobody DEF Undisturbed
<1>4. ProcessesRight'
  BY <1>1, <1>3, NoneMoves DEF git
<1> QED BY <1>1, <1>2, <1>4, FromParts

\* An unfinished deployment is marked interrupted.
LEMMA RecoverKeeps ==
    ASSUME InvParts, Recover
    PROVE  InvParts' /\ EventsGrow
<1>1. PICK d \in Dep : /\ deps[d].st = "running"
                       /\ deps' = [deps EXCEPT ![d].st = "interrupted"]
  BY DEF Recover
<1>2. deps[d] \in Deployment /\ DepRight(deps[d])
  BY DEF InvParts, RecordsRight
<1> DEFINE x == [deps[d] EXCEPT !.st = "interrupted"]
<1>3. /\ x \in Deployment /\ x.st = "interrupted" /\ x.cut = deps[d].cut /\ x.ended = deps[d].ended
      /\ x.rb = deps[d].rb /\ x.began = deps[d].began
  BY <1>2 DEF Deployment, DepStatus
<1>4. deps' = [deps EXCEPT ![d] = x]
  BY <1>1
<1> HIDE DEF x
<1>5. DepRight(x)
  BY <1>1, <1>2, <1>3 DEF DepRight
<1>6. MayBecome(d, x)
  BY <1>1, <1>3 DEF MayBecome
<1> QED BY <1>1, <1>3, <1>4, <1>5, <1>6, RepairKeeps DEF Recover

\* The one explicit attempt to restore what an interrupted cutover replaced.
LEMMA RestoreKeeps ==
    ASSUME InvParts, NEW t \in Time, Restore(t)
    PROVE  InvParts' /\ EventsGrow
<1>1. PICK d \in Dep, ok \in BOOLEAN :
          /\ deps[d].st = "interrupted" /\ deps[d].cut = "begun"
          /\ deps' = [deps EXCEPT ![d].cut = "failed", ![d].ended = t, ![d].restored = ok]
  BY DEF Restore
<1>2. deps[d] \in Deployment /\ DepRight(deps[d])
  BY DEF InvParts, RecordsRight
<1> DEFINE x == [deps[d] EXCEPT !.cut = "failed", !.ended = t, !.restored = ok]
<1>3. /\ x \in Deployment /\ x.st = deps[d].st /\ x.cut = "failed" /\ x.ended = t
      /\ x.rb = deps[d].rb /\ x.began = deps[d].began
  BY <1>2 DEF Deployment, Cutover
<1>4. deps' = [deps EXCEPT ![d] = x]
  BY <1>1
<1> HIDE DEF x
<1>5. DepRight(x)
  BY <1>1, <1>2, <1>3 DEF DepRight
<1>6. MayBecome(d, x)
  BY <1>1, <1>3 DEF MayBecome
<1> QED BY <1>1, <1>3, <1>4, <1>5, <1>6, RepairKeeps DEF Restore

\* A deployment starts under the lock, with an id that nobody else reserved,
\* when no other deployment is unfinished.
LEMMA DeploymentStarts ==
    ASSUME InvParts, NEW p \in Executor, NEW d \in Dep, NEW x \in Deployment,
           x.st = "running", x.cut = "none", deps[d].st = "none",
           \A q \in Executor \ {p} : proc[q].pc = "sourced" => proc[q].dep # d,
           lock = Free, ~Blocked, lock' = p, deps' = [deps EXCEPT ![d] = x],
           proc' \in [Executor -> Process], proc'[p].pc = "deploying", proc'[p].dep = d,
           \A q \in Executor \ {p} : proc'[q] = proc[q],
           UNCHANGED <<events, pauses, cleared, execs, readable, git, remote, channel, crashes>>
    PROVE  InvParts' /\ EventsGrow
<1>1. d \notin cleared /\ \A z \in pauses : z.origin # d
  BY NotPaused DEF InvParts
<1>2. MayBecome(d, x) /\ DepRight(x)
  BY <1>1 DEF MayBecome, DepRight
<1>3. \A e \in Dep : deps[e].st # "running"
  BY DEF Blocked
<1>4. /\ EventsGrow /\ RecordsRight' /\ OneRuns' /\ readable' = TRUE /\ Started
      /\ deps'[d] = x /\ \A e \in Dep \ {d} : deps'[e] = deps[e]
  BY <1>2, <1>3, DeploymentChanges
<1>5. RestRight'
  BY DEF InvParts, RestRight, git
<1>6. ProcessRight(p)'
  BY <1>1, <1>4 DEF ProcessRight, Running
<1>7. ASSUME NEW q \in Executor \ {p} PROVE Undisturbed(q)
  <2>1. proc[q].pc = "sourced" => proc[q].dep \in Dep /\ deps[proc[q].dep].st = "none"
    BY ProcessIs DEF ProcessRight
  <2> QED BY <1>4, <2>1, FreeIsNobody DEF Undisturbed
<1>8. ProcessesRight'
  BY <1>4, <1>6, <1>7, OneMoves DEF git
<1> QED BY <1>4, <1>5, <1>8, FromParts

\* The executor deploys the event it decided on.
LEMMA StartDeploymentKeeps ==
    ASSUME InvParts, NEW p \in Executor, StartDeployment(p)
    PROVE  InvParts' /\ EventsGrow
<1>1. CASE Goto(p, "unrun") /\ UNCHANGED <<lock, deps>>
  BY <1>1, IdleStep DEF StartDeployment, control
<1>2. CASE /\ lock = Free /\ ~Blocked /\ lock' = p /\ Goto(p, "deploying")
           /\ deps' = [deps EXCEPT ![proc[p].dep] =
                         [NoDeployment EXCEPT !.st = "running", !.ev = proc[p].ev]]
  <2> DEFINE x == [NoDeployment EXCEPT !.st = "running", !.ev = proc[p].ev]
  <2>1. proc[p].dep \in Dep /\ deps[proc[p].dep].st = "none" /\ proc[p].pc = "sourced"
    BY ProcessIs DEF StartDeployment, ProcessRight
  <2>2. proc[p].ev \in Nat
    BY ProcessIs DEF Process
  <2>3. x \in Deployment /\ x.st = "running" /\ x.cut = "none"
    BY <2>2 DEF Deployment, NoDeployment, DepStatus, Cutover, NoEvent
  <2>4. deps' = [deps EXCEPT ![proc[p].dep] = x]
    BY <1>2
  <2> HIDE DEF x
  <2>5. /\ proc' \in [Executor -> Process] /\ proc'[p].pc = "deploying" /\ proc'[p].dep = proc[p].dep
        /\ \A q \in Executor \ {p} : proc'[q] = proc[q]
    BY <1>2, GotoFacts DEF Pc
  <2>6. \A q \in Executor \ {p} : proc[q].pc = "sourced" => proc[q].dep # proc[p].dep
    BY <2>1 DEF InvParts, ProcessesRight, IdsApart
  <2>7. PICK d \in Dep : d = proc[p].dep
    BY <2>1
  <2>8. UNCHANGED <<events, pauses, cleared, execs, readable, git, remote, channel, crashes>>
    BY DEF StartDeployment
  <2>9. lock = Free /\ ~Blocked /\ lock' = p
    BY <1>2
  <2> QED BY <2>1, <2>3, <2>4, <2>5, <2>6, <2>7, <2>8, <2>9, DeploymentStarts
<1> QED BY <1>1, <1>2 DEF StartDeployment

\* The developer deploys, replaces or rolls back.
LEMMA UserDeploymentKeeps ==
    ASSUME InvParts, NEW p \in Executor, NEW rb \in BOOLEAN, UserDeployment(p, rb)
    PROVE  InvParts' /\ EventsGrow
<1> DEFINE d == TakeId(FreshDep)
           x == [NoDeployment EXCEPT !.st = "running", !.rb = rb]
           r == [proc[p] EXCEPT !.pc = "deploying", !.dep = d]
<1>1. d \in FreshDep
  BY TakeIdIs DEF UserDeployment, FreshDep
<1>2. d \in Dep /\ deps[d].st = "none" /\ \A z \in sources : z.dep # d
  BY <1>1 DEF FreshDep
<1>3. proc' = [proc EXCEPT ![p] = r] /\ deps' = [deps EXCEPT ![d] = x]
  BY DEF UserDeployment
<1> HIDE DEF d
<1>4. x \in Deployment /\ x.st = "running" /\ x.cut = "none"
  BY DEF Deployment, NoDeployment, DepStatus, Cutover, NoEvent
<1>5. r \in Process /\ r.pc = "deploying" /\ r.dep = d
  BY <1>2, ProcessIs DEF Process, Pc
<1> HIDE DEF x, r
<1>6. /\ proc' \in [Executor -> Process] /\ proc'[p] = r
      /\ \A q \in Executor \ {p} : proc'[q] = proc[q]
  BY <1>3, <1>5, BecomeFacts
<1>7. ASSUME NEW q \in Executor, proc[q].pc = "sourced" PROVE proc[q].dep # d
  BY <1>2, <1>7, ProcessIs DEF ProcessRight
<1>8. /\ lock = Free /\ ~Blocked /\ lock' = p
      /\ UNCHANGED <<events, pauses, cleared, execs, readable, git, remote, channel, crashes>>
  BY DEF UserDeployment
<1>9. proc'[p].pc = "deploying" /\ proc'[p].dep = d
  BY <1>5, <1>6
<1> QED BY <1>2, <1>3, <1>4, <1>6, <1>7, <1>8, <1>9, DeploymentStarts

\* What a process that deploys relies on.
LEMMA Deploying ==
    ASSUME InvParts, NEW p \in Executor, proc[p].pc = "deploying"
    PROVE  /\ lock = p /\ proc[p].dep \in Dep /\ deps[proc[p].dep].st = "running"
           /\ proc[p].dep \notin cleared /\ \A z \in pauses : z.origin # proc[p].dep
           /\ deps[proc[p].dep] \in Deployment /\ DepRight(deps[proc[p].dep])
<1>1. ProcessRight(p)
  BY ProcessIs
<1>2. proc[p].dep \in Dep /\ deps[proc[p].dep].st = "running"
  BY <1>1 DEF ProcessRight, Running
<1> QED BY <1>1, <1>2 DEF ProcessRight, InvParts, RecordsRight

\* The cutover begins, under the lock.
LEMMA BeginCutoverKeeps ==
    ASSUME InvParts, NEW p \in Executor, NEW t \in Time, BeginCutover(p, t)
    PROVE  InvParts' /\ EventsGrow
<1>1. PICK d \in Dep : d = proc[p].dep
  BY Deploying DEF BeginCutover
<1>2. /\ lock = p /\ deps[d].st = "running" /\ deps[d].cut = "none"
      /\ d \notin cleared /\ \A z \in pauses : z.origin # d
      /\ deps[d] \in Deployment /\ DepRight(deps[d])
  BY <1>1, Deploying DEF BeginCutover
<1> DEFINE x == [deps[d] EXCEPT !.cut = "begun", !.began = t]
<1>3. x \in Deployment /\ x.st = "running" /\ x.cut = "begun" /\ x.began = t
  BY <1>2 DEF Deployment, Cutover
<1>4. deps' = [deps EXCEPT ![d] = x]
  BY <1>1 DEF BeginCutover
<1> HIDE DEF x
<1>5. DepRight(x) /\ MayBecome(d, x)
  BY <1>2, <1>3 DEF DepRight, MayBecome
<1>6. UNCHANGED <<events, pauses, cleared, execs, readable, git, remote, channel, lock, proc, crashes>>
  BY DEF BeginCutover
<1>7. /\ EventsGrow /\ RecordsRight' /\ OneRuns' /\ readable' = TRUE /\ Started
      /\ deps'[d] = x /\ \A e \in Dep \ {d} : deps'[e] = deps[e]
  BY <1>2, <1>3, <1>4, <1>5, <1>6, DeploymentChanges
<1>8. RestRight'
  BY <1>6 DEF InvParts, RestRight, git
<1>9. ProcessRight(p)'
  BY <1>1, <1>2, <1>3, <1>6, <1>7 DEF ProcessRight, Running, BeginCutover
<1>10. ASSUME NEW q \in Executor \ {p} PROVE Undisturbed(q)
  <2>1. proc[q].pc = "sourced" => proc[q].dep \in Dep /\ deps[proc[q].dep].st = "none"
    BY ProcessIs DEF ProcessRight
  <2> QED BY <1>2, <1>6, <1>7, <2>1 DEF Undisturbed
<1>11. ProcessesRight'
  BY <1>6, <1>7, <1>9, <1>10, OneMoves DEF git, BeginCutover
<1> QED BY <1>7, <1>8, <1>11, FromParts

\* The deployment ends, its pause is recorded and the lock is released.
LEMMA EndDeploymentKeeps ==
    ASSUME InvParts, NEW p \in Executor, NEW t \in Time, EndDeployment(p, t)
    PROVE  InvParts' /\ EventsGrow
<1>1. PICK d \in Dep : d = proc[p].dep
  BY Deploying DEF EndDeployment
<1>2. /\ lock = p /\ deps[d].st = "running"
      /\ d \notin cleared /\ \A z \in pauses : z.origin # d
      /\ deps[d] \in Deployment /\ DepRight(deps[d])
  BY <1>1, Deploying DEF EndDeployment
<1> DEFINE Ended(st, cut) == [deps[d] EXCEPT !.st = st, !.cut = cut, !.ended = t]
<1>3. PICK st \in {"succeeded", "failed"}, cut \in {"confirmed", "failed", "none"}, ok \in BOOLEAN :
          \/ deps' = [deps EXCEPT ![d] = Ended(st, cut)]
          \/ deps' = [deps EXCEPT ![d] = [Ended(st, cut) EXCEPT !.restored = ok]]
  BY <1>1 DEF EndDeployment
<1>4. ASSUME NEW x \in Deployment, x.st \in {"succeeded", "failed"},
             x.cut \in {"confirmed", "failed", "none"}, x.ended = t, deps' = [deps EXCEPT ![d] = x]
      PROVE  InvParts' /\ EventsGrow
  <2>1. DepRight(x) /\ MayBecome(d, x)
    BY <1>2, <1>4 DEF DepRight, MayBecome
  <2>2. /\ UNCHANGED <<events, cleared, execs, readable, git, remote, channel, crashes>>
        /\ pauses' = SyncPauses(deps') /\ lock' = Free
    BY DEF EndDeployment
  <2>3. /\ EventsGrow /\ RecordsRight' /\ OneRuns' /\ readable' = TRUE /\ Started
        /\ deps'[d] = x /\ \A e \in Dep \ {d} : deps'[e] = deps[e]
    BY <1>4, <2>1, <2>2, DeploymentChanges
  <2>4. /\ proc' \in [Executor -> Process] /\ proc'[p].pc # "sourced" /\ ProcessRight(p)'
        /\ \A q \in Executor \ {p} : proc'[q] = proc[q]
    <3>1. CASE Exit(p)
      <4>1. "off" # "sourced"
        OBVIOUS
      <4> QED BY <3>1, <4>1, ExitFacts
    <3>2. CASE Goto(p, "ran")
      <4>1. /\ proc' \in [Executor -> Process] /\ proc'[p].pc = "ran" /\ proc'[p].dep = d
            /\ \A q \in Executor \ {p} : proc'[q] = proc[q]
        BY <1>1, <3>2, GotoFacts DEF Pc
      <4>2. ProcessRight(p)'
        BY <1>4, <2>3, <4>1 DEF ProcessRight
      <4> QED BY <4>1, <4>2
    <3> QED BY <3>1, <3>2 DEF EndDeployment
  <2>5. RestRight'
    BY <2>2, <2>4 DEF InvParts, RestRight, git
  <2>6. ASSUME NEW q \in Executor \ {p} PROVE Undisturbed(q)
    <3>1. proc[q].pc = "sourced" => proc[q].dep \in Dep /\ deps[proc[q].dep].st = "none"
      BY ProcessIs DEF ProcessRight
    <3> QED BY <1>2, <2>3, <2>4, <3>1 DEF Undisturbed
  <2>7. ProcessesRight'
    BY <2>2, <2>3, <2>4, <2>6, OneMoves DEF git
  <2> QED BY <2>3, <2>5, <2>7, FromParts
<1>5. /\ Ended(st, cut) \in Deployment /\ Ended(st, cut).st = st /\ Ended(st, cut).cut = cut
      /\ Ended(st, cut).ended = t
  BY <1>2 DEF Deployment, DepStatus, Cutover
<1>6. PICK y \in Deployment : y = Ended(st, cut)
  BY <1>5
<1>7. CASE deps' = [deps EXCEPT ![d] = Ended(st, cut)]
  BY <1>4, <1>5, <1>7
<1>8. CASE deps' = [deps EXCEPT ![d] = [Ended(st, cut) EXCEPT !.restored = ok]]
  <2> HIDE DEF Ended
  <2> DEFINE z == [y EXCEPT !.restored = ok]
  <2>1. z \in Deployment /\ z.st = y.st /\ z.cut = y.cut /\ z.ended = y.ended
    BY DEF Deployment
  <2>2. deps' = [deps EXCEPT ![d] = z]
    BY <1>6, <1>8
  <2> HIDE DEF z
  <2> QED BY <1>4, <1>5, <1>6, <2>1, <2>2
<1> QED BY <1>3, <1>7, <1>8

\* What happened to the event is recorded, if replay accepts it.
LEMMA RecordExecKeeps ==
    ASSUME InvParts, NEW p \in Executor, RecordExec(p)
    PROVE  InvParts' /\ EventsGrow
<1> DEFINE x == [ev |-> proc[p].ev, sup |-> proc[p].sup,
                 dep |-> IF proc[p].pc = "ran" THEN proc[p].dep ELSE NoDep]
           r == [Off EXCEPT !.pc = "loop", !.reg = proc[p].reg]
<1>1. CASE /\ Exit(p) /\ channel' = (IF p = "watch" THEN <<>> ELSE channel)
           /\ UNCHANGED <<events, execs>>
  <2>1. channel' \in Seq(Push)
    BY <1>1, EmptySeq, ProcessIs
  <2> QED BY <1>1, <2>1, ExitFacts, PrivateStep DEF RecordExec, control
<1>2. CASE /\ lock = Free /\ ExecOK(x) /\ events' = ApplyExec(x) /\ execs' = execs \union {x}
           /\ proc' = [proc EXCEPT ![p] = r] /\ UNCHANGED channel
  <2>1. EventsGrow /\ x.ev \in DOMAIN events /\ x.sup \in SUBSET Nat
    BY <1>2, ExecGrows, PartsAreControl
  <2>2. x.ev \in Nat \ {0}
    BY <2>1, EventsFunction, PartsAreControl
  <2>3. x.dep \in Dep \union {NoDep} /\ (x.dep # NoDep => deps[x.dep].st # "none")
    BY ProcessIs DEF ProcessRight
  <2>4. x \in ExecRec
    BY <2>1, <2>2, <2>3 DEF ExecRec
  <2> HIDE DEF x
  <2>5. UNCHANGED <<deps, pauses, cleared, readable, git, remote, lock, crashes>>
    BY DEF RecordExec
  <2>6. RecordsRight'
    <3>1. CheckAgainst'
      BY <1>2, <2>3, <2>5 DEF InvParts, RecordsRight, CheckAgainst, PauseFits, PauseCandidates
    <3> QED BY <1>2, <2>4, <2>5, <3>1 DEF InvParts, RecordsRight
  <2>7. OneRuns' /\ readable' = TRUE
    BY <2>5 DEF InvParts, OneRuns, Running
  <2>8. r \in Process /\ r.pc = "loop"
    BY OffIs, ProcessIs DEF Process, Pc
  <2> HIDE DEF r
  <2>9. proc' \in [Executor -> Process] /\ proc'[p] = r /\ \A q \in Executor \ {p} : proc'[q] = proc[q]
    BY <1>2, <2>8, BecomeFacts
  <2>10. RestRight'
    BY <1>2, <2>5, <2>9 DEF InvParts, RestRight, git
  <2>11. ProcessRight(p)'
    BY <2>8, <2>9 DEF ProcessRight
  <2>12. \A q \in Executor \ {p} : Undisturbed(q)
    BY <1>2, <2>5, <2>9, FreeIsNobody, LockProtects
  <2>13. ProcessesRight'
    BY <2>1, <2>5, <2>8, <2>9, <2>11, <2>12, OneMoves DEF Started, git
  <2> QED BY <2>1, <2>6, <2>7, <2>10, <2>13, FromParts
<1> QED BY <1>1, <1>2 DEF RecordExec

-----------------------------------------------------------------------------
(* The theorems *)

LEMMA InvHolds == Init => InvParts
<1> SUFFICES ASSUME Init PROVE InvParts
  OBVIOUS
<1>1. /\ events = <<>> /\ deps = [d \in Dep |-> NoDeployment]
      /\ pauses = {} /\ cleared = {} /\ execs = {} /\ readable = TRUE
  BY DEF Init, ControlInit
<1>2. events \in Seq(Event) /\ DOMAIN events = {}
  <2>1. events \in Seq(Event) /\ Len(events) = 0
    BY <1>1, EmptySeq
  <2>2. DOMAIN events = 1..0
    BY <2>1, LenProperties
  <2> QED BY <2>1, <2>2
<1>3. SupersededRight
  BY <1>2 DEF SupersededRight
<1>4. NoDeployment \in Deployment /\ DepRight(NoDeployment) /\ NoDeployment.st = "none"
  BY DEF NoDeployment, Deployment, DepStatus, Cutover, NoEvent, DepRight
<1>5. RecordsRight /\ OneRuns
  BY <1>1, <1>4 DEF RecordsRight, CheckAgainst, OneRuns, Running
<1>6. RestRight
  <2>1. (CHOOSE u \in Url : TRUE) \in Url
    BY ControlAssumption
  <2>2. repo \in Registration /\ repo.ver >= 1
    BY <2>1, TriggersAssumption DEF Init, Registration
  <2>3. channel \in Seq(Push)
    BY EmptySeq DEF Init
  <2>4. proc \in [Executor -> Process]
    BY OffIs DEF Init
  <2>5. retired \in 0..MaxRetired /\ crashes \in 0..MaxCrash
    BY TriggersAssumption DEF Init
  <2> QED BY <2>2, <2>3, <2>4, <2>5 DEF Init, RestRight
<1>7. ProcessesRight
  BY OffIs DEF Init, ProcessesRight, ProcessRight, IdsApart
<1> QED BY <1>1, <1>2, <1>3, <1>5, <1>6, <1>7 DEF InvParts

\* Every step keeps the invariant, and only adds to the events or settles one.
LEMMA StepKeeps ==
    ASSUME InvParts, [Next]_vars
    PROVE  InvParts' /\ EventsGrow
<1>1. CASE UNCHANGED vars
  <2>1. UNCHANGED <<control, git, remote, channel, lock, proc, crashes>>
    BY <1>1 DEF vars
  <2>2. EventsGrow /\ RecordsRight' /\ OneRuns' /\ readable' = TRUE /\ UNCHANGED deps
    BY <2>1, ControlStays
  <2>3. RestRight'
    BY <2>1 DEF InvParts, RestRight, git
  <2>4. \A q \in Executor : Undisturbed(q)
    BY <2>1, LockProtects DEF control, git
  <2>5. ProcessesRight'
    BY <2>1, <2>2, <2>4, NoneMoves DEF Started, git
  <2> QED BY <2>2, <2>3, <2>5, FromParts
<1>2. CASE Environment
  <2>1. ASSUME NEW p \in Executor, StartWatch(p) \/ StartRun(p) \/ Crash(p) PROVE InvParts' /\ EventsGrow
    BY <2>1, StartWatchKeeps, StartRunKeeps, CrashKeeps
  <2>2. ASSUME NEW p \in Executor, NEW rb \in BOOLEAN, UserDeployment(p, rb) PROVE InvParts' /\ EventsGrow
    BY <2>2, UserDeploymentKeeps
  <2>3. ASSUME NEW t \in Time, Restore(t) PROVE InvParts' /\ EventsGrow
    BY <2>3, RestoreKeeps
  <2>4. ASSUME NEW d \in Delivery, NEW c \in Commit, NEW t \in Time, GitTrigger(d, c, t)
        PROVE  InvParts' /\ EventsGrow
    BY <2>4, GitTriggerKeeps
  <2> QED BY <1>2, <2>1, <2>2, <2>3, <2>4, RegistrationKeeps, PushKeeps, DecisionKeeps, RecoverKeeps
          DEF Environment
<1>3. ASSUME NEW p \in Executor, ProcessStep(p) PROVE InvParts' /\ EventsGrow
  <2>1. ASSUME NEW t \in Time,
               PollQueue(p, t) \/ AcceptWebhook(p, t) \/ BeginCutover(p, t) \/ EndDeployment(p, t)
        PROVE  InvParts' /\ EventsGrow
    BY <2>1, PollQueueKeeps, AcceptWebhookKeeps, BeginCutoverKeeps, EndDeploymentKeeps
  <2> QED BY <1>3, <2>1, PollReadKeeps, PollNoteKeeps, DrainEnterKeeps, DrainDoneKeeps, DecideKeeps,
             CheckoutKeeps, RecordSourceKeeps, StartDeploymentKeeps, RecordExecKeeps DEF ProcessStep
<1> QED BY <1>1, <1>2, <1>3 DEF Next

\* The invariant is one: it holds initially and every step of an executor, the
\* developer, a provider or a crash keeps it.
LEMMA TriggersInvariant == Spec => []InvParts
<1>1. InvParts /\ [Next]_vars => InvParts'
  BY StepKeeps
<1> QED BY InvHolds, <1>1, PTL DEF Spec

\* The journal can always be replayed: whatever is removed, interrupted, restored
\* or decided between a read and the write that follows it, no writer appends a
\* record that ControlState::apply, GitState::apply or check_against refuses.
THEOREM JournalIsReadable == Spec => []Readable
<1>1. InvParts => Readable
  BY InvIsParts DEF TriggersInv
<1> QED BY <1>1, TriggersInvariant, PTL

\* One deployment runs for an application at a time (D4): `deploy` and `replace`
\* refuse while one is unfinished, under the lock, so also after an executor
\* died in the middle of one and another process goes on.
THEOREM OneDeploymentRuns == Spec => []OneRunning
<1>1. InvParts => OneRunning
  <2> SUFFICES ASSUME InvParts PROVE OneRunning
    OBVIOUS
  <2> DEFINE R == {d \in Dep : deps[d].st = "running"}
  <2>1. \A d, e \in R : d = e
    BY DEF InvParts, OneRuns, Running
  <2> SUFFICES Cardinality(R) <= 1
    BY DEF OneRunning
  <2> HIDE DEF R
  <2>2. CASE R = {}
    BY <2>2, FS_EmptySet
  <2>3. CASE R # {}
    <3>1. PICK d \in R : TRUE
      BY <2>3
    <3>2. R = {d}
      BY <2>1, <3>1
    <3>3. Cardinality({d}) = 1
      BY FS_Singleton
    <3> QED BY <3>2, <3>3
  <2> QED BY <2>2, <2>3
<1> QED BY <1>1, TriggersInvariant, PTL

\* Newest wins: an event is superseded only by one received no earlier, which is
\* itself selected or settled, although the executor decides from a read without
\* the lock and the clock may be set back (next_execution, apply_exec).
THEOREM NewestAlwaysWins == Spec => []NewestWins
<1>1. InvParts => NewestWins
  BY DEF InvParts, SupersededRight, NewestWins
<1> QED BY <1>1, TriggersInvariant, PTL

\* Events are only appended, and a settled one keeps its status for good
\* (queue_event, apply_exec, apply_resume).
THEOREM SettledIsForever == Spec => SettledForever
<1>1. InvParts /\ [Next]_vars =>
         [/\ Len(events') >= Len(events)
          /\ \A i \in DOMAIN events :
               \/ events'[i] = events[i]
               \/ events[i].st = "held"
               \/ events[i].st = "selected" /\ events'[i].st \in {"executed", "failed", "dismissed"}]_vars
  BY StepKeeps DEF EventsGrow
<1> QED BY <1>1, TriggersInvariant, PTL DEF SettledForever, Spec

=============================================================================
