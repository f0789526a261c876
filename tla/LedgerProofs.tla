---------------------------- MODULE LedgerProofs ----------------------------
(***************************************************************************)
(* Theorems about Ledger, for every set of deployments and of resources.   *)
(***************************************************************************)
EXTENDS Ledger, TLAPS

-----------------------------------------------------------------------------
(* The inductive invariant *)

\* What a task needs to be right whenever it is carried out: only an object is
\* looked at in Docker, an outcome is known where it is recorded, the attempt is
\* on record before Docker is called, and an object that was planned to be
\* recorded as released is gone, or was never identified and has another name.
TaskRight(t) ==
    /\ t.at \in {"receipt", "call"} => t.outcome = "none"
    /\ t.outcome = "none" => t.e \in Objects /\ t.at # "result"
    /\ t.at \in {"call", "result"} => entries[t.e].outstanding
    /\ t.e \in Objects /\ t.outcome = "Released" =>
          obj[t.e] = "none" \/ (~entries[t.e].id /\ obj[t.e] = "renamed")

\* No two tasks are about the same entry, so that a record written for one does
\* not change what another was planned on.
OneTaskEach ==
    /\ \A t, u \in work : t.e = u.e => t = u
    /\ \A t \in work : t.e # task.e

TasksRight ==
    /\ \A t \in work : TaskRight(t) /\ t.at \in {"receipt", "attempt"}
    /\ task # NoTask => TaskRight(task)
    /\ OneTaskEach

LedgerInv == Accounted /\ TasksRight

-----------------------------------------------------------------------------
(* Types *)

\* An entry is well formed: what TypeOK says of each.
Formed(x) ==
    /\ x \in LedgerEntry
    /\ x.id => x.state \notin {"none", "Intended"}
    /\ x.outstanding => x.state \notin {"none", "Released", "Refused"}

\* Everything the proofs use of the instance: no deployment is "none running",
\* so that no task of an entry is the absent one.
LEMMA NoTaskIsNone ==
    /\ NoDep \notin Dep
    /\ NoTask.e \notin Entry /\ NoTask.at = "none" /\ NoTask \notin Task
    /\ Objects \subseteq Entry
<1>1. NoDep \notin Dep
  BY LedgerAssumption DEF NoDep
<1>2. NoTask.e \notin Entry
  BY <1>1 DEF NoTask, Entry
<1>3. NoTask.at = "none" /\ NoTask \notin Task
  BY DEF NoTask, Task, Stage
<1> QED BY <1>1, <1>2, <1>3 DEF Objects

\* Every record the ledger accepts leaves a well-formed entry (Ledger::apply).
LEMMA EntryType ==
    ASSUME TypeOK, NEW e \in Entry
    PROVE  /\ Formed(entries[e])
           /\ Formed(NoEntry) /\ Formed(Intent(e))
           /\ ReceiptOK(e) => Formed(Receipt(e))
           /\ AttemptOK(e) => Formed(Attempt(e))
           /\ \A o \in Outcome : ResultOK(e, o) => Formed(Result(e, o))
<1>1. Formed(entries[e])
  BY DEF TypeOK, Formed
<1>2. Formed(NoEntry) /\ Formed(Intent(e))
  BY DEF Formed, NoEntry, Intent, LedgerEntry, EntryState
<1>3. ASSUME ReceiptOK(e) PROVE Formed(Receipt(e))
  BY <1>1, <1>3 DEF ReceiptOK, Receipt, Formed, LedgerEntry, EntryState
<1>4. ASSUME AttemptOK(e) PROVE Formed(Attempt(e))
  BY <1>1, <1>4 DEF AttemptOK, Attempt, Formed, LedgerEntry
<1>5. ASSUME NEW o \in Outcome, ResultOK(e, o) PROVE Formed(Result(e, o))
  BY <1>1, <1>5 DEF ResultOK, Result, Formed, LedgerEntry, EntryState, Outcome
<1> QED BY <1>1, <1>2, <1>3, <1>4, <1>5

\* Whatever is planned for an entry is a task about that entry, and right in
\* the state it was planned in (plan, plan_without_inventory).
LEMMA PlannedRight ==
    ASSUME TypeOK, NEW e \in Entry, NEW end
    PROVE  /\ \A t \in {Plan(e, end), PlanUnlisted(e)} :
                 t \in Task /\ t.e = e /\ t.at \in {"receipt", "attempt"} /\ TaskRight(t)
           /\ e \in Objects =>
                 \A t \in {PlanObject(e, end)} :
                 t \in Task /\ t.e = e /\ t.at \in {"receipt", "attempt"} /\ TaskRight(t)
<1> DEFINE Fit(t) == t \in Task /\ t.e = e /\ t.at \in {"receipt", "attempt"} /\ TaskRight(t)
<1>1. e \in Objects <=> e[2] \notin Leases
  BY DEF Objects
<1>2. ASSUME NEW do \in Do, NEW adopt \in BOOLEAN, e \in Objects PROVE Fit(NewTask(e, do, adopt))
  BY <1>2 DEF NewTask, Task, Stage, TaskRight
<1>3. ASSUME NEW o \in Outcome,
             e \in Objects /\ o = "Released" =>
                 obj[e] = "none" \/ (~entries[e].id /\ obj[e] = "renamed")
      PROVE  Fit(Settle(e, o))
  BY <1>3 DEF Settle, Task, Stage, TaskRight, Do, Outcome
<1>4. ASSUME e \in Objects PROVE Fit(PlanObject(e, end))
  <2>1. CASE FoundOurs(e)
    <3>1. PlanObject(e, end) \in {NewTask(e, "Remove", ~entries[e].id), NewTask(e, "Adopt", TRUE)}
      BY <2>1 DEF PlanObject
    <3>2. (~entries[e].id) \in BOOLEAN
      BY DEF TypeOK, LedgerEntry
    <3> QED BY <3>1, <3>2, <1>2, <1>4 DEF Do
  <2>2. CASE ~FoundOurs(e)
    <3>1. PlanObject(e, end) \in {Settle(e, "Refused"), Settle(e, "Released")}
      BY <2>2 DEF PlanObject
    <3>2. obj[e] = "none" \/ (~entries[e].id /\ obj[e] = "renamed")
      BY <2>2, <1>4 DEF FoundOurs, TypeOK
    <3>3. {"Refused", "Released"} \subseteq Outcome
      BY DEF Outcome
    <3> QED BY <3>1, <3>2, <3>3, <1>3
  <2> QED BY <2>1, <2>2
<1>5. Fit(PlanUnlisted(e))
  BY <1>1, <1>3 DEF PlanUnlisted, Outcome
<1>6. Fit(Plan(e, end))
  <2>1. CASE e[2] \in Leases
    <3>1. Fit([Settle(e, "Released") EXCEPT !.do = "ReleaseLease"])
      BY <1>1, <2>1 DEF Settle, Task, Stage, TaskRight, Do, Outcome
    <3> QED BY <3>1, <2>1 DEF Plan
  <2>2. CASE e[2] \notin Leases
    BY <2>2, <1>1, <1>4 DEF Plan
  <2> QED BY <2>1, <2>2
<1> QED BY <1>4, <1>5, <1>6

-----------------------------------------------------------------------------
(* The steps *)

\* A record the ledger accepts changes one entry (Ledger::append).
LEMMA EntriesType ==
    ASSUME TypeOK, NEW e \in Entry, NEW x, Formed(x), entries' = [entries EXCEPT ![e] = x]
    PROVE  /\ entries' \in [Entry -> LedgerEntry]
           /\ \A f \in Entry : Formed(entries'[f])
BY DEF TypeOK, Formed

\* The two halves of Accounted that relate the ledger to the runtime.
ObjectsAnswered ==
    \A e \in Objects : obj[e] # "none" =>
        /\ entries[e].state # "none"
        /\ IsReleased(entries[e]) => Unaccounted(e)

RemovalsOnRecord == \A e \in removed : entries[e].outstanding \/ entries[e].state \in Outcome

\* A step that leaves the ledger and the runtime alone keeps every task right.
LEMMA RightStays ==
    ASSUME UNCHANGED <<entries, obj>>
    PROVE  /\ \A t : TaskRight(t) => TaskRight(t)'
           /\ ObjectsAnswered => ObjectsAnswered'
BY DEF TaskRight, ObjectsAnswered, Unaccounted

\* A plan with one task for each of some entries (reconcile, cleanup_preliminary).
LEMMA PlanKeepsInv ==
    ASSUME LedgerInv, task = NoTask, UNCHANGED <<entries, runtime, task>>,
           run' \in Dep \union {NoDep}, status' \in [Dep -> Status],
           \A t \in work' : t \in Task /\ t.at \in {"receipt", "attempt"} /\ TaskRight(t),
           \A t, u \in work' : t.e = u.e => t = u
    PROVE  LedgerInv'
<1>1. TypeOK'
  BY DEF LedgerInv, Accounted, TypeOK, runtime
<1>2. ObjectsAnswered' /\ RemovalsOnRecord'
  BY RightStays DEF LedgerInv, Accounted, ObjectsAnswered, RemovalsOnRecord, runtime
<1>3. \A t \in work' : TaskRight(t)'
  BY RightStays DEF runtime
<1>4. \A t \in work' : t.e # task'.e
  BY NoTaskIsNone DEF Task
<1> QED BY <1>1, <1>2, <1>3, <1>4 DEF LedgerInv, Accounted, ObjectsAnswered, RemovalsOnRecord,
                                     TasksRight, OneTaskEach

\* A step between two tasks: nothing is planned, so only the ledger, the
\* deployments and the objects matter.
LEMMA BetweenKeepsInv ==
    ASSUME LedgerInv, work = {}, task = NoTask, UNCHANGED <<work, task>>,
           TypeOK', ObjectsAnswered', RemovalsOnRecord'
    PROVE  LedgerInv'
BY DEF LedgerInv, Accounted, ObjectsAnswered, RemovalsOnRecord, TasksRight, OneTaskEach

\* A new deployment or the end of one found dead (StartRun, Recover).
LEMMA StatusKeepsInv ==
    ASSUME LedgerInv, Idle, UNCHANGED <<entries, runtime, work, task>>,
           run' \in Dep \union {NoDep}, status' \in [Dep -> Status]
    PROVE  LedgerInv'
<1>1. TypeOK'
  BY DEF LedgerInv, Accounted, TypeOK, runtime
<1>2. ObjectsAnswered' /\ RemovalsOnRecord'
  BY RightStays DEF LedgerInv, Accounted, ObjectsAnswered, RemovalsOnRecord, runtime
<1> QED BY <1>1, <1>2, BetweenKeepsInv DEF Idle

\* An intent or a receipt of the running engine (StepIo::intend, StepIo::receipt).
LEMMA RecordKeepsInv ==
    ASSUME LedgerInv, NEW e \in Entry, IntendResource(e) \/ ReceiveId(e)
    PROVE  LedgerInv'
<1>1. TypeOK /\ ObjectsAnswered /\ RemovalsOnRecord
  BY DEF LedgerInv, Accounted, ObjectsAnswered, RemovalsOnRecord
<1>2. /\ Between /\ UNCHANGED <<status, runtime, run, work, task>>
      /\ \/ entries' = [entries EXCEPT ![e] = Intent(e)] /\ entries[e].state = "none"
         \/ entries' = [entries EXCEPT ![e] = Receipt(e)] /\ entries[e].state = "Intended"
  BY DEF IntendResource, ReceiveId, IntentOK
<1>3. entries[e].state = "Intended" => ReceiptOK(e)
  BY <1>1, EntryType DEF ReceiptOK, Formed
<1>4. /\ entries' \in [Entry -> LedgerEntry]
      /\ \A f \in Entry : Formed(entries'[f])
  BY <1>1, <1>2, <1>3, EntryType, EntriesType
<1>5. TypeOK'
  BY <1>1, <1>2, <1>4 DEF TypeOK, runtime, Formed
<1>6. entries'[e].state \in {"Intended", "Created"} /\ entries'[e].outstanding = entries[e].outstanding
  <2>1. Formed(entries[e])
    BY <1>1, EntryType
  <2>2. CASE entries' = [entries EXCEPT ![e] = Intent(e)] /\ entries[e].state = "none"
    <3>1. entries'[e] = Intent(e)
      BY <1>1, <2>2 DEF TypeOK
    <3>2. entries[e].outstanding = FALSE
      BY <2>1, <2>2 DEF Formed, LedgerEntry
    <3>3. Intent(e).state = "Intended" /\ Intent(e).outstanding = FALSE
      BY DEF Intent
    <3> QED BY <3>1, <3>2, <3>3
  <2>3. CASE entries' = [entries EXCEPT ![e] = Receipt(e)] /\ entries[e].state = "Intended"
    <3>1. entries'[e] = Receipt(e)
      BY <1>1, <2>3 DEF TypeOK
    <3> QED BY <2>1, <2>3, <3>1 DEF Receipt, Formed, LedgerEntry
  <2> QED BY <1>2, <2>2, <2>3
<1>7. \A f \in Entry : f # e => entries'[f] = entries[f]
  BY <1>1, <1>2 DEF TypeOK
<1>8. ObjectsAnswered'
  BY <1>1, <1>2, <1>6, <1>7, NoTaskIsNone DEF ObjectsAnswered, Unaccounted, IsReleased, runtime
<1>9. RemovalsOnRecord'
  BY <1>1, <1>2, <1>6, <1>7, NoTaskIsNone DEF RemovalsOnRecord, TypeOK, runtime, Outcome
<1> QED BY <1>2, <1>5, <1>8, <1>9, BetweenKeepsInv DEF Between

\* Docker makes an object only where an intent names it.
LEMMA CreateKeepsInv ==
    ASSUME LedgerInv, NEW e \in Entry, Create(e)
    PROVE  LedgerInv'
<1>1. TypeOK /\ ObjectsAnswered /\ RemovalsOnRecord
  BY DEF LedgerInv, Accounted, ObjectsAnswered, RemovalsOnRecord
<1>2. /\ Between /\ e \in Objects /\ entries[e].state = "Intended"
      /\ obj' = [obj EXCEPT ![e] = "named"]
      /\ UNCHANGED <<entries, status, squat, removed, run, work, task>>
  BY DEF Create
<1>3. TypeOK'
  BY <1>1, <1>2 DEF TypeOK
<1>4. ObjectsAnswered'
  BY <1>1, <1>2 DEF ObjectsAnswered, Unaccounted, TypeOK, IsReleased
<1>5. RemovalsOnRecord'
  BY <1>1, <1>2 DEF RemovalsOnRecord
<1> QED BY <1>2, <1>3, <1>4, <1>5, BetweenKeepsInv DEF Between

\* release_preliminary plans one task for each of its resources.
LEMMA ReleasePreliminaryKeepsInv ==
    ASSUME LedgerInv, ReleasePreliminary
    PROVE  LedgerInv'
<1> DEFINE T == {e \in Entry : /\ e[1] = run /\ Disposition(e[2]) = "RemoveAlways"
                               /\ NeedsDecision(e, "Succeeded")}
           P(e) == IF e \in Objects THEN PlanObject(e, "Succeeded") ELSE PlanUnlisted(e)
<1>1. TypeOK
  BY DEF LedgerInv, Accounted
<1>2. /\ Between
      /\ \/ work' = {P(e) : e \in T}
         \/ work' = {PlanUnlisted(e) : e \in T}
      /\ UNCHANGED <<entries, status, runtime, run, task>>
  BY DEF ReleasePreliminary
<1>3. \A e \in T : \A t \in {P(e), PlanUnlisted(e)} :
         t \in Task /\ t.e = e /\ t.at \in {"receipt", "attempt"} /\ TaskRight(t)
  BY <1>1, PlannedRight
<1>4. \A t \in work' : t \in Task /\ t.at \in {"receipt", "attempt"} /\ TaskRight(t)
  BY <1>2, <1>3
<1>5. \A t, u \in work' : t.e = u.e => t = u
  <2> HIDE DEF T, P
  <2> QED BY <1>2, <1>3
<1>6. run' \in Dep \union {NoDep} /\ status' \in [Dep -> Status] /\ task = NoTask
  BY <1>1, <1>2 DEF TypeOK, Between
<1> HIDE DEF T, P
<1> QED BY <1>2, <1>4, <1>5, <1>6, PlanKeepsInv

\* So does reconcile, and the cleanup at the end of a run.
LEMMA DecidePlans ==
    ASSUME TypeOK, NEW ended, Decide(ended)
    PROVE  /\ \A t \in work' : t \in Task /\ t.at \in {"receipt", "attempt"} /\ TaskRight(t)
           /\ \A t, u \in work' : t.e = u.e => t = u
<1> DEFINE T == {e \in Entry : e[1] \in DOMAIN ended /\ NeedsDecision(e, ended[e[1]])}
           P(e) == Plan(e, ended[e[1]])
<1>1. \/ work' = {P(e) : e \in T}
      \/ work' = {PlanUnlisted(e) : e \in T}
  BY DEF Decide
<1>2. \A e \in T : \A t \in {P(e), PlanUnlisted(e)} :
         t \in Task /\ t.e = e /\ t.at \in {"receipt", "attempt"} /\ TaskRight(t)
  BY PlannedRight
<1> HIDE DEF T, P
<1> QED BY <1>1, <1>2

LEMMA EndRunKeepsInv ==
    ASSUME LedgerInv, NEW end, EndRun(end)
    PROVE  LedgerInv'
<1>1. TypeOK /\ task = NoTask /\ run \in Dep
  BY DEF EndRun, LedgerInv, Accounted, Between, TypeOK
<1>2. status' \in [Dep -> Status] /\ run' \in Dep \union {NoDep}
  BY <1>1 DEF EndRun, TypeOK, Status
<1>3. PICK ended : Decide(ended)
  BY DEF EndRun
<1> QED BY <1>1, <1>2, <1>3, DecidePlans, PlanKeepsInv DEF EndRun

LEMMA ReconcileKeepsInv ==
    ASSUME LedgerInv, Reconcile
    PROVE  LedgerInv'
<1>1. TypeOK /\ task = NoTask
  BY DEF Reconcile, LedgerInv, Accounted, Idle
<1>2. status' \in [Dep -> Status] /\ run' \in Dep \union {NoDep}
  BY <1>1 DEF Reconcile, TypeOK
<1>3. PICK ended : Decide(ended)
  BY DEF Reconcile
<1> QED BY <1>1, <1>2, <1>3, DecidePlans, PlanKeepsInv DEF Reconcile

\* cleanup-image plans the removal of one image.
LEMMA CleanupImageKeepsInv ==
    ASSUME LedgerInv, NEW e \in Entry, CleanupImage(e)
    PROVE  LedgerInv'
<1>1. TypeOK /\ task = NoTask
  BY DEF CleanupImage, LedgerInv, Accounted, Idle
<1>2. e \in Objects
  BY DEF CleanupImage, Objects, Leases
<1>3. LET t == NewTask(e, "RemoveImage", FALSE)
      IN  t \in Task /\ t.at \in {"receipt", "attempt"} /\ TaskRight(t)
  BY <1>2 DEF NewTask, Task, Stage, TaskRight, Do
<1>4. work' = {NewTask(e, "RemoveImage", FALSE)} /\ UNCHANGED <<entries, status, runtime, run, task>>
  BY DEF CleanupImage
<1>5. run' \in Dep \union {NoDep} /\ status' \in [Dep -> Status]
  BY <1>1, <1>4 DEF TypeOK
<1> HIDE DEF LedgerInv
<1> QED BY <1>1, <1>3, <1>4, <1>5, PlanKeepsInv

\* The process dies: what it planned is gone, what it recorded is not.
LEMMA EndOfProcessKeepsInv ==
    ASSUME LedgerInv, run' = NoDep, work' = {}, task' = NoTask,
           UNCHANGED <<entries, status, runtime>>
    PROVE  LedgerInv'
<1>1. TypeOK'
  BY DEF LedgerInv, Accounted, TypeOK, runtime
<1>2. ObjectsAnswered' /\ RemovalsOnRecord'
  BY RightStays DEF LedgerInv, Accounted, ObjectsAnswered, RemovalsOnRecord, runtime
<1> QED BY <1>1, <1>2 DEF LedgerInv, Accounted, ObjectsAnswered, RemovalsOnRecord,
                          TasksRight, OneTaskEach

\* A task is taken, or put off because its containers are not settled.
LEMMA PickTaskKeepsInv ==
    ASSUME LedgerInv, PickTask
    PROVE  LedgerInv'
<1>1. TypeOK /\ task = NoTask /\ UNCHANGED <<entries, status, runtime, run>>
  BY DEF LedgerInv, Accounted, PickTask
<1>2. PICK t \in work : work' = work \ {t} /\ task' \in {t, NoTask}
  BY DEF PickTask
<1>3. t \in Task /\ TaskRight(t) /\ \A u \in work : u.e = t.e => u = t
  BY <1>1 DEF LedgerInv, TasksRight, OneTaskEach, TypeOK
<1>4. TypeOK'
  BY <1>1, <1>2, <1>3 DEF TypeOK, runtime
<1>5. ObjectsAnswered' /\ RemovalsOnRecord'
  BY <1>1, RightStays DEF LedgerInv, Accounted, ObjectsAnswered, RemovalsOnRecord, runtime
<1>6. \A u \in work' : TaskRight(u)' /\ u.at \in {"receipt", "attempt"}
  BY <1>1, <1>2, RightStays DEF LedgerInv, TasksRight, runtime
<1>7. (task # NoTask => TaskRight(task))'
  BY <1>1, <1>2, <1>3 DEF TaskRight, runtime
<1>8. OneTaskEach'
  <2>1. \A u, v \in work' : u.e = v.e => u = v
    BY <1>2 DEF LedgerInv, TasksRight, OneTaskEach
  <2>2. \A u \in work' : u.e \in Entry
    BY <1>1, <1>2 DEF TypeOK, Task
  <2> QED BY <2>1, <2>2, <1>2, <1>3, NoTaskIsNone DEF OneTaskEach
<1> QED BY <1>4, <1>5, <1>6, <1>7, <1>8 DEF LedgerInv, Accounted, ObjectsAnswered,
                                            RemovalsOnRecord, TasksRight

\* What holds of the task being carried out.
LEMMA TaskFacts ==
    ASSUME LedgerInv, task.at \in Stage
    PROVE  /\ TypeOK /\ task \in Task /\ task.e \in Entry /\ TaskRight(task)
           /\ \A t \in work : t.e # task.e
BY NoTaskIsNone DEF LedgerInv, Accounted, TypeOK, Stage, TasksRight, OneTaskEach, Task

\* The tasks that wait are as right as before when a record about another entry
\* is written or another object is touched.
LEMMA OthersStayRight ==
    ASSUME LedgerInv, task.at \in Stage, UNCHANGED work,
           \A e \in Entry : e # task.e => entries'[e] = entries[e],
           \A e \in Objects : e # task.e => obj'[e] = obj[e]
    PROVE  \A t \in work' : TaskRight(t)' /\ t.at \in {"receipt", "attempt"} /\ t.e # task.e
<1> SUFFICES ASSUME NEW t \in work
             PROVE  TaskRight(t)' /\ t.at \in {"receipt", "attempt"} /\ t.e # task.e
  OBVIOUS
<1>1. TaskRight(t) /\ t.at \in {"receipt", "attempt"} /\ t.e # task.e /\ t.e \in Entry
  BY TaskFacts DEF LedgerInv, TasksRight, TypeOK, Task
<1> QED BY <1>1 DEF TaskRight

\* A record of the task: an accepted one changes the task's entry only; a
\* refused one ends the process (Write).
LEMMA WriteKeepsInv ==
    ASSUME LedgerInv, task.at \in Stage,
           NEW x, Formed(x), NEW next \in Task \union {NoTask},
           entries' = [entries EXCEPT ![task.e] = x], task' = next,
           UNCHANGED <<run, work, status, runtime>>,
           next # NoTask => next.e = task.e /\ TaskRight(next)',
           x.outstanding \/ x.state \in Outcome \/ (x.outstanding = entries[task.e].outstanding
                                                      /\ entries[task.e].state \notin Outcome),
           x.state # "none",
           task.e \in Objects /\ obj[task.e] # "none" /\ IsReleased(x)
               => ~x.id /\ obj[task.e] = "renamed"
    PROVE  LedgerInv'
<1>1. TypeOK /\ task.e \in Entry /\ ObjectsAnswered /\ RemovalsOnRecord
  BY TaskFacts DEF LedgerInv, Accounted, ObjectsAnswered, RemovalsOnRecord
<1>2. /\ entries' \in [Entry -> LedgerEntry]
      /\ \A f \in Entry : Formed(entries'[f])
  BY <1>1, EntriesType
<1>3. TypeOK'
  BY <1>1, <1>2 DEF TypeOK, Formed, runtime
<1>4. entries'[task.e] = x /\ \A f \in Entry : f # task.e => entries'[f] = entries[f]
  BY <1>1 DEF TypeOK
<1>5. ObjectsAnswered'
  BY <1>1, <1>4, NoTaskIsNone DEF ObjectsAnswered, Unaccounted, IsReleased, runtime
<1>6. RemovalsOnRecord'
  BY <1>1, <1>4, NoTaskIsNone DEF RemovalsOnRecord, runtime, TypeOK
<1>7. \A t \in work' : TaskRight(t)' /\ t.at \in {"receipt", "attempt"} /\ t.e # task.e
  BY <1>4, OthersStayRight DEF runtime
<1>8. OneTaskEach'
  <2>1. \A t \in work' : t.e \in Entry
    BY <1>3 DEF TypeOK, Task
  <2> QED BY <2>1, <1>7, NoTaskIsNone DEF OneTaskEach, LedgerInv, TasksRight
<1> QED BY <1>3, <1>5, <1>6, <1>7, <1>8 DEF LedgerInv, Accounted, ObjectsAnswered,
                                            RemovalsOnRecord, TasksRight

LEMMA WriteReceiptKeepsInv ==
    ASSUME LedgerInv, WriteReceipt
    PROVE  LedgerInv'
<1> DEFINE next == IF task.do = "Adopt" THEN NoTask ELSE [task EXCEPT !.at = "attempt"]
<1>1. task.at \in Stage
  BY DEF WriteReceipt, Stage
<1>2. TypeOK /\ task \in Task /\ task.e \in Entry /\ TaskRight(task)
  BY <1>1, TaskFacts
<1>3. Write(ReceiptOK(task.e), Receipt(task.e), next) /\ UNCHANGED <<status, runtime>>
  BY DEF WriteReceipt
<1>4. CASE ~ReceiptOK(task.e)
  BY <1>3, <1>4, EndOfProcessKeepsInv DEF Write
<1>5. CASE ReceiptOK(task.e)
  <2> DEFINE x == Receipt(task.e)
  <2>0. PICK n : n = next
    OBVIOUS
  <2>1. Formed(x) /\ Formed(entries[task.e])
    BY <1>2, <1>5, EntryType
  <2>2. /\ entries' = [entries EXCEPT ![task.e] = x] /\ task' = n
        /\ UNCHANGED <<run, work, status, runtime>>
    BY <1>3, <1>5, <2>0 DEF Write
  <2>3. \/ x = entries[task.e] /\ x.id
        \/ /\ x.state = "Created" /\ x.outstanding = entries[task.e].outstanding
           /\ entries[task.e].state = "Intended"
    BY <1>2, <1>5, <2>1 DEF ReceiptOK, Receipt, Formed, LedgerEntry
  <2>4. n \in Task \union {NoTask}
    BY <1>2, <2>0 DEF Task, Stage
  <2>5. ASSUME n # NoTask PROVE n.e = task.e /\ TaskRight(n)'
    <3>1. n = [task EXCEPT !.at = "attempt"]
      BY <2>0, <2>5
    <3>2. n.at = "attempt" /\ n.e = task.e /\ n.outcome = "none"
      BY <3>1, <1>2 DEF Task, TaskRight, WriteReceipt
    <3> HIDE DEF next
    <3> QED BY <3>2, <1>2 DEF TaskRight, WriteReceipt
  <2>6. x.outstanding \/ x.state \in Outcome \/ (x.outstanding = entries[task.e].outstanding
                                                   /\ entries[task.e].state \notin Outcome)
    BY <2>3 DEF Outcome
  <2>7. x.state # "none"
    BY <2>1, <2>3 DEF Formed
  <2>8. task.e \in Objects /\ obj[task.e] # "none" /\ IsReleased(x)
           => ~x.id /\ obj[task.e] = "renamed"
    BY <2>3 DEF LedgerInv, Accounted, Unaccounted, IsReleased
  <2> HIDE DEF x, next
  <2> QED BY <1>1, <2>1, <2>2, <2>4, <2>5, <2>6, <2>7, <2>8, WriteKeepsInv
<1> QED BY <1>4, <1>5

LEMMA WriteAttemptKeepsInv ==
    ASSUME LedgerInv, WriteAttempt
    PROVE  LedgerInv'
<1> DEFINE next == [task EXCEPT !.at = IF task.outcome = "none" THEN "call" ELSE "result"]
<1>1. task.at \in Stage
  BY DEF WriteAttempt, Stage
<1>2. TypeOK /\ task \in Task /\ task.e \in Entry /\ TaskRight(task)
  BY <1>1, TaskFacts
<1>3. Write(AttemptOK(task.e), Attempt(task.e), next) /\ UNCHANGED <<status, runtime>>
  BY DEF WriteAttempt
<1>4. CASE ~AttemptOK(task.e)
  BY <1>3, <1>4, EndOfProcessKeepsInv DEF Write
<1>5. CASE AttemptOK(task.e)
  <2> DEFINE x == Attempt(task.e)
  <2>0. PICK n : n = next
    OBVIOUS
  <2>1. Formed(x) /\ Formed(entries[task.e])
    BY <1>2, <1>5, EntryType
  <2>2. /\ entries' = [entries EXCEPT ![task.e] = x] /\ task' = n
        /\ UNCHANGED <<run, work, status, runtime>>
    BY <1>3, <1>5, <2>0 DEF Write
  <2>3. x.outstanding /\ x.state = entries[task.e].state /\ x.id = entries[task.e].id
    BY <2>1 DEF Attempt, Formed, LedgerEntry
  <2>4. n \in Task /\ n.at = (IF task.outcome = "none" THEN "call" ELSE "result")
          /\ n.e = task.e /\ n.outcome = task.outcome
    BY <1>2, <2>0 DEF Task, Stage
  <2>5. entries'[task.e] = x /\ UNCHANGED obj
    BY <1>2, <2>2 DEF TypeOK, runtime
  <2>6. TaskRight(n)'
    <3> HIDE DEF next, x
    <3> QED BY <2>3, <2>4, <2>5, <1>2 DEF TaskRight
  <2>7. x.state \notin {"none", "Released"}
    BY <2>3, <1>5 DEF AttemptOK
  <2> HIDE DEF x, next
  <2> QED BY <1>1, <2>1, <2>2, <2>3, <2>4, <2>6, <2>7, WriteKeepsInv DEF IsReleased
<1> QED BY <1>4, <1>5

LEMMA WriteResultKeepsInv ==
    ASSUME LedgerInv, WriteResult
    PROVE  LedgerInv'
<1>1. task.at \in Stage
  BY DEF WriteResult, Stage
<1>2. TypeOK /\ task \in Task /\ task.e \in Entry /\ TaskRight(task)
  BY <1>1, TaskFacts
<1>3. Write(ResultOK(task.e, task.outcome), Result(task.e, task.outcome), NoTask)
        /\ UNCHANGED <<status, runtime>>
  BY DEF WriteResult
<1>4. CASE ~ResultOK(task.e, task.outcome)
  BY <1>3, <1>4, EndOfProcessKeepsInv DEF Write
<1>5. CASE ResultOK(task.e, task.outcome)
  <2> DEFINE x == Result(task.e, task.outcome)
  <2>1. task.outcome \in Outcome
    BY <1>2 DEF TaskRight, WriteResult, Task
  <2>2. Formed(x) /\ Formed(entries[task.e])
    BY <1>2, <1>5, <2>1, EntryType
  <2>3. /\ entries' = [entries EXCEPT ![task.e] = x] /\ task' = NoTask
        /\ UNCHANGED <<run, work, status, runtime>>
    BY <1>3, <1>5 DEF Write
  <2>4. x.state = task.outcome /\ x.id = entries[task.e].id
    BY <2>2 DEF Result, Formed, LedgerEntry
  <2>5. task.e \in Objects /\ obj[task.e] # "none" /\ IsReleased(x)
           => ~x.id /\ obj[task.e] = "renamed"
    BY <2>4, <1>2 DEF TaskRight, IsReleased
  <2>6. x.state \in Outcome /\ x.state # "none"
    BY <2>1, <2>4 DEF Outcome
  <2> HIDE DEF x
  <2> QED BY <1>1, <2>2, <2>3, <2>5, <2>6, WriteKeepsInv
<1> QED BY <1>4, <1>5

\* Docker is asked only after the attempt is on record, and an object that is
\* answered to be released is gone.
LEMMA CallKeepsInv ==
    ASSUME LedgerInv, Call
    PROVE  LedgerInv'
<1>1. task.at \in Stage
  BY DEF Call, Stage
<1>2. /\ TypeOK /\ task \in Task /\ task.e \in Entry /\ TaskRight(task)
      /\ \A t \in work : t.e # task.e
      /\ ObjectsAnswered /\ RemovalsOnRecord
  BY <1>1, TaskFacts DEF LedgerInv, Accounted, ObjectsAnswered, RemovalsOnRecord
<1>3. task.e \in Objects /\ entries[task.e].outstanding
  BY <1>2 DEF TaskRight, Call
<1>4. PICK o \in Outcome :
          /\ task' = [task EXCEPT !.at = "result", !.outcome = o]
          /\ \/ /\ obj' = [obj EXCEPT ![task.e] = "none"]
                /\ removed' = removed \union {task.e}
             \/ /\ o = "Released" => obj[task.e] = "none"
                /\ UNCHANGED <<obj, removed>>
  BY DEF Call, Answers, RetainedImageAnswers, Outcome
<1>5. UNCHANGED <<entries, status, squat, run, work>>
  BY DEF Call
<1>6. task' \in Task /\ task'.e = task.e /\ task'.at = "result" /\ task'.outcome = o
  BY <1>2, <1>4 DEF Task, Stage
<1>7. /\ obj' \in [Objects -> {"none", "named", "renamed"}]
      /\ removed' \subseteq removed \union {task.e} /\ removed' \subseteq Objects
      /\ obj'[task.e] \in {"none", obj[task.e]}
      /\ o = "Released" => obj'[task.e] = "none"
      /\ \A e \in Objects : e # task.e => obj'[e] = obj[e]
  BY <1>2, <1>3, <1>4 DEF TypeOK
<1>8. TypeOK'
  BY <1>2, <1>5, <1>6, <1>7 DEF TypeOK
<1>9. ObjectsAnswered'
  BY <1>2, <1>5, <1>7 DEF ObjectsAnswered, Unaccounted
<1>10. RemovalsOnRecord'
  BY <1>2, <1>3, <1>5, <1>7 DEF RemovalsOnRecord
<1>11. \A t \in work' : TaskRight(t)' /\ t.at \in {"receipt", "attempt"} /\ t.e # task.e
  BY <1>1, <1>5, <1>7, OthersStayRight
<1>12. TaskRight(task)'
  BY <1>3, <1>5, <1>6, <1>7 DEF TaskRight, Outcome
<1>13. OneTaskEach'
  BY <1>5, <1>6, <1>11 DEF OneTaskEach, LedgerInv, TasksRight
<1> QED BY <1>8, <1>9, <1>10, <1>11, <1>12, <1>13
        DEF LedgerInv, Accounted, ObjectsAnswered, RemovalsOnRecord, TasksRight

\* Users take objects and names away; they never bring an object back.
LEMMA UsersKeepInv ==
    ASSUME LedgerInv, NEW e \in Objects, UserRemoves(e) \/ UserRenames(e) \/ UserTakesName(e)
    PROVE  LedgerInv'
<1>1. TypeOK /\ ObjectsAnswered /\ RemovalsOnRecord /\ TasksRight
  BY DEF LedgerInv, Accounted, ObjectsAnswered, RemovalsOnRecord
<1>2. /\ UNCHANGED <<entries, status, run, work, task, removed>>
      /\ squat' \subseteq squat \union {e}
      /\ obj' \in [Objects -> {"none", "named", "renamed"}]
      /\ \A f \in Objects : \/ obj'[f] = obj[f]
                            \/ obj'[f] = "none"
                            \/ obj[f] = "named" /\ obj'[f] = "renamed"
  BY <1>1 DEF UserRemoves, UserRenames, UserTakesName, TypeOK
<1>3. TypeOK'
  BY <1>1, <1>2 DEF TypeOK
<1>4. ObjectsAnswered' /\ RemovalsOnRecord'
  BY <1>1, <1>2 DEF ObjectsAnswered, RemovalsOnRecord, Unaccounted
<1>5. \A t : TaskRight(t) => TaskRight(t)'
  BY <1>2 DEF TaskRight
<1>6. TasksRight'
  BY <1>1, <1>2, <1>5 DEF TasksRight, OneTaskEach, TaskRight
<1> QED BY <1>3, <1>4, <1>6 DEF LedgerInv, Accounted, ObjectsAnswered, RemovalsOnRecord

-----------------------------------------------------------------------------
(* The theorems *)

\* LedgerInv holds initially and every step keeps it.
LEMMA LedgerInductive ==
    /\ Init => LedgerInv
    /\ LedgerInv /\ [Next]_vars => LedgerInv'
<1>1. ASSUME Init PROVE LedgerInv
  <2>1. TypeOK
    BY <1>1, NoTaskIsNone DEF Init, TypeOK, NoEntry, LedgerEntry, EntryState, Status
  <2> QED BY <1>1, <2>1 DEF Init, LedgerInv, Accounted, TasksRight, OneTaskEach
<1>2. ASSUME LedgerInv, [Next]_vars PROVE LedgerInv'
  <2> USE <1>2
  <2>1. CASE UNCHANGED vars
    <3>1. /\ UNCHANGED <<entries, status, obj, squat, run, work, task, removed>>
      BY <2>1 DEF vars
    <3>2. TypeOK' /\ ObjectsAnswered' /\ RemovalsOnRecord'
      BY <3>1 DEF LedgerInv, Accounted, TypeOK, ObjectsAnswered, RemovalsOnRecord, Unaccounted
    <3>3. TasksRight'
      BY <3>1 DEF LedgerInv, TasksRight, OneTaskEach, TaskRight
    <3> QED BY <3>2, <3>3 DEF LedgerInv, Accounted, ObjectsAnswered, RemovalsOnRecord
  <2>2. ASSUME NEW d \in Dep, StartRun(d) PROVE LedgerInv'
    <3>1. status' \in [Dep -> Status] /\ run' \in Dep \union {NoDep}
      BY <2>2 DEF StartRun, LedgerInv, Accounted, TypeOK, Status
    <3> QED BY <2>2, <3>1, StatusKeepsInv DEF StartRun
  <2>3. CASE Recover
    <3>1. status' \in [Dep -> Status] /\ run' \in Dep \union {NoDep}
      BY <2>3 DEF Recover, LedgerInv, Accounted, TypeOK, Status
    <3> QED BY <2>3, <3>1, StatusKeepsInv DEF Recover
  <2>4. CASE Crash
    BY <2>4, EndOfProcessKeepsInv DEF Crash
  <2> QED BY <2>1, <2>2, <2>3, <2>4, RecordKeepsInv, CreateKeepsInv, CleanupImageKeepsInv,
             ReleasePreliminaryKeepsInv, EndRunKeepsInv, ReconcileKeepsInv, PickTaskKeepsInv,
             WriteReceiptKeepsInv, WriteAttemptKeepsInv, WriteResultKeepsInv, CallKeepsInv,
             UsersKeepInv DEF Next
<1> QED BY <1>1, <1>2

\* An object Harpoon created is answered for by an entry that is not settled, or
\* reported by every listing as unaccounted for, and one it removed is on record,
\* for every number of runs, crashes and cleanups, and whatever users do to the
\* same Docker meanwhile (StepIo::intend before create, plan, execute_actions).
THEOREM ObjectsStayAccounted == Spec => []Accounted
<1>1. LedgerInv => Accounted
  BY DEF LedgerInv
<1> QED BY <1>1, LedgerInductive, PTL DEF Spec

\* Of the records, only a released result takes the need for attention away
\* (Ledger::apply).
LEMMA RecordsKeepAttention ==
    ASSUME TypeOK, NEW e \in Entry
    PROVE  /\ IntentOK(e) => ~NeedsAttention(entries[e])
           /\ NeedsAttention(entries[e]) /\ ReceiptOK(e) => NeedsAttention(Receipt(e))
           /\ NeedsAttention(Attempt(e))
           /\ \A o \in Outcome : NeedsAttention(Result(e, o)) \/ IsReleased(Result(e, o))
<1>1. Formed(entries[e])
  BY EntryType
<1>2. IntentOK(e) => ~NeedsAttention(entries[e])
  BY <1>1 DEF IntentOK, NeedsAttention, Formed
<1>3. NeedsAttention(entries[e]) /\ ReceiptOK(e) => NeedsAttention(Receipt(e))
  BY <1>1 DEF ReceiptOK, Receipt, NeedsAttention, Formed, LedgerEntry
<1>4. NeedsAttention(Attempt(e))
  BY <1>1 DEF Attempt, NeedsAttention, Formed, LedgerEntry
<1>5. \A o \in Outcome : NeedsAttention(Result(e, o)) \/ IsReleased(Result(e, o))
  BY <1>1 DEF Result, NeedsAttention, IsReleased, Formed, LedgerEntry, Outcome
<1> QED BY <1>2, <1>3, <1>4, <1>5

\* A cleanup that failed, was refused or was interrupted stays visible until a
\* release is on record, whatever process carries it on and however often it is
\* tried again (Entry::needs_attention, execute_actions).
THEOREM AttentionNeverDropped == Spec => NeverDropped
<1> DEFINE Dropped(e) == /\ NeedsAttention(entries[e]) /\ ~NeedsAttention(entries'[e])
                         /\ ~IsReleased(entries'[e])
<1>1. ASSUME LedgerInv, [Next]_vars, NEW e \in Entry, Dropped(e) PROVE FALSE
  <2> USE <1>1
  <2>1. TypeOK /\ entries'[e] # entries[e]
    BY DEF LedgerInv, Accounted
  <2>2. ASSUME NEW f \in Entry, NEW x, entries' = [entries EXCEPT ![f] = x]
        PROVE  f = e /\ entries'[e] = x
    BY <2>1, <2>2 DEF TypeOK
  <2>3. ASSUME NEW f \in Entry, IntendResource(f) PROVE FALSE
    <3>1. f = e
      BY <2>2, <2>3 DEF IntendResource
    <3> QED BY <2>1, <2>3, <3>1, RecordsKeepAttention DEF IntendResource
  <2>4. ASSUME NEW f \in Entry, ReceiveId(f) PROVE FALSE
    <3>1. f = e /\ entries'[e] = Receipt(e)
      BY <2>2, <2>4 DEF ReceiveId
    <3>2. ReceiptOK(e)
      BY <2>1, <2>4, <3>1, EntryType DEF ReceiveId, ReceiptOK, Formed
    <3> QED BY <2>1, <3>1, <3>2, RecordsKeepAttention
  <2>5. CASE WriteReceipt
    <3>1. task.e \in Entry
      BY <2>5, TaskFacts DEF WriteReceipt, Stage
    <3>2. ReceiptOK(task.e) /\ entries' = [entries EXCEPT ![task.e] = Receipt(task.e)]
      BY <2>1, <2>5 DEF WriteReceipt, Write
    <3>3. task.e = e /\ entries'[e] = Receipt(e)
      BY <2>2, <3>1, <3>2
    <3> QED BY <2>1, <3>2, <3>3, RecordsKeepAttention
  <2>6. CASE WriteAttempt
    <3>1. task.e \in Entry
      BY <2>6, TaskFacts DEF WriteAttempt, Stage
    <3>2. entries' = [entries EXCEPT ![task.e] = Attempt(task.e)]
      BY <2>1, <2>6 DEF WriteAttempt, Write
    <3>3. task.e = e /\ entries'[e] = Attempt(e)
      BY <2>2, <3>1, <3>2
    <3> QED BY <2>1, <3>2, <3>3, RecordsKeepAttention
  <2>7. CASE WriteResult
    <3>1. task \in Task /\ TaskRight(task)
      BY <2>7, TaskFacts DEF WriteResult, Stage
    <3>2. task.e \in Entry /\ task.outcome \in Outcome
      BY <2>7, <3>1 DEF WriteResult, TaskRight, Task
    <3>3. entries' = [entries EXCEPT ![task.e] = Result(task.e, task.outcome)]
      BY <2>1, <2>7 DEF WriteResult, Write
    <3>4. task.e = e /\ entries'[e] = Result(e, task.outcome)
      BY <2>2, <3>2, <3>3
    <3> QED BY <2>1, <3>2, <3>4, RecordsKeepAttention
  <2> QED BY <2>1, <2>3, <2>4, <2>5, <2>6, <2>7
          DEF Next, vars, StartRun, Create, CleanupImage, ReleasePreliminary, EndRun, Crash,
              Recover, Reconcile, PickTask, Call, UserRemoves, UserRenames, UserTakesName
<1>2. LedgerInv /\ [Next]_vars
        => [\A e \in Entry : NeedsAttention(entries[e]) /\ ~NeedsAttention(entries'[e])
               => IsReleased(entries'[e])]_vars
  BY <1>1
<1> QED BY <1>2, LedgerInductive, PTL DEF Spec, NeverDropped

=============================================================================
