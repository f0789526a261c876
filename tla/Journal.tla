------------------------------- MODULE Journal -------------------------------
(***************************************************************************)
(* The append-only file journal (deploy-journal/src/lib.rs) and what a     *)
(* replay makes of it (deploy/src/journal_format.rs).                      *)
(*                                                                         *)
(* `file` is what any process reads now; `durable` holds every content a   *)
(* power loss may leave.  A write adds to it, a successful sync leaves the *)
(* current content only.  One process writes: the lock is the kernel's and *)
(* goes with the process.                                                  *)
(***************************************************************************)
EXTENDS Naturals, Sequences, SequencesExt

CONSTANTS
    LogDep,       \* deployments
    MaxLines,  \* bound: records of the log
    MaxLost    \* bound: power losses

ASSUME JournalAssumption == LogDep \subseteq Nat \ {0} /\ MaxLines \in Nat /\ MaxLost \in Nat

VARIABLES
    file,      \* the file as read now
    durable,   \* the contents a power loss may leave
    w,         \* the process that holds the lock
    acked,     \* history: acknowledged records of the log
    lost       \* bound: power losses so far

-----------------------------------------------------------------------------
(* Records and their replay *)

NoRun == 0
\* "Recovering", "Recovered": interrupted, with a restoration attached.
Status == {"Running", "Ended", "Interrupted", "Recovering", "Recovered"}
Terminal == Status \ {"Running"}
Snapshot(d, s) == [kind |-> "snapshot", d |-> d, status |-> s]
Other(kind) == [kind |-> kind, d |-> NoRun, status |-> "-"]
\* "other": a configuration, Git, control or step log record.
Line == {Snapshot(d, s) : d \in LogDep, s \in Status} \union {Other("other"), Other("gitdrop")}
Header == Other("header")
\* Bytes that end in a newline and fail their checksum.
Damaged == Other("damaged")

IsSnapshot(l) == l.kind = "snapshot"
\* recovery_attached: the one change a terminal deployment may receive.
RecoveryAttached(old, new) ==
    old \in {"Interrupted", "Recovering"} /\ new \in {"Recovering", "Recovered"}

\* A later snapshot of the same deployment with none between them.
Follows(lines, i, j) ==
    /\ i < j /\ IsSnapshot(lines[i]) /\ IsSnapshot(lines[j]) /\ lines[i].d = lines[j].d
    /\ \A k \in (i + 1)..(j - 1) : lines[k].d # lines[i].d

DecodeLine(l) == l # Damaged
Replays(lines) ==
    /\ \A i \in DOMAIN lines : DecodeLine(lines[i])
    /\ \A i, j \in DOMAIN lines :
          Follows(lines, i, j) /\ lines[i].status \in Terminal /\ lines[i] # lines[j]
             => RecoveryAttached(lines[i].status, lines[j].status)

\* The latest snapshot of each deployment.
Replay(lines) ==
    [d \in LogDep |-> LET I == {i \in DOMAIN lines : IsSnapshot(lines[i]) /\ lines[i].d = d}
                   IN  IF I = {} THEN "none" ELSE lines[Max(I)].status]

\* recover_on_start: what an opening that recovers makes of a deployment.
RecoverOnStart(s) == CASE s = "Running" -> "Interrupted"
                       [] s = "Recovering" -> "Recovered"
                       [] OTHER -> s
Unmarked(view) == {d \in LogDep : RecoverOnStart(view[d]) # view[d]}

-----------------------------------------------------------------------------
(* The file *)

Absent == [exists |-> FALSE, header |-> FALSE, lines |-> <<>>, torn |-> FALSE]
Empty == [Absent EXCEPT !.exists = TRUE]
Torn(f) == [f EXCEPT !.torn = TRUE]
CutOff(f) == [f EXCEPT !.torn = FALSE]

Added(f, l) == IF l = Header THEN [f EXCEPT !.header = TRUE, !.torn = FALSE]
               ELSE [f EXCEPT !.lines = Append(@, l), !.torn = FALSE]

\* An unsynced change of the file may reach the disk in whole, in part, or not.
Written(f) == file' = f /\ durable' = durable \union {f, Torn(f)}
\* A sync makes the content durable, not the file's name.
Synced(f) == file' = f /\ durable' = {f} \union (durable \intersect {Absent})

Phase == {"closed", "cut", "dir", "write", "sync", "ready", "broken"}
NoLine == Other("none")
Closed == [at |-> "closed", view |-> [d \in LogDep |-> "none"], run |-> NoRun,
           line |-> NoLine, mark |-> FALSE, glued |-> FALSE]

JournalInit ==
    /\ file = Absent /\ durable = {Absent}
    /\ w = Closed /\ acked = 0 /\ lost = 0

Exit == w.at # "closed" /\ w' = Closed /\ UNCHANGED <<file, durable, acked, lost>>

-----------------------------------------------------------------------------
(* Opening *)

\* After the file is readable: mark what was interrupted, or serve.
Write(l) == [w EXCEPT !.at = "write", !.line = l, !.glued = file.torn]
AfterOpen(f) == IF f.torn THEN "cut" ELSE IF ~f.header THEN "dir" ELSE "ready"

\* `open_recovered` has something to mark only if the replay found it.
Opened(h, at, lines) ==
    [h EXCEPT !.at = at, !.view = Replay(lines), !.mark = @ /\ Unmarked(Replay(lines)) # {}]

Open ==
    /\ w.at = "closed"
    /\ LET f == IF file.exists THEN file ELSE Empty
       IN /\ Replays(f.lines)
          /\ \E mark \in BOOLEAN :
                w' = Opened([Closed EXCEPT !.mark = mark], AfterOpen(f), f.lines)
          /\ file' = f /\ durable' = IF file.exists THEN durable ELSE durable \union {f}
    /\ UNCHANGED <<acked, lost>>

\* Truncate and sync; either may fail, and opening fails with it.
CutTail ==
    /\ w.at = "cut"
    /\ \/ Synced(CutOff(file)) /\ w' = [w EXCEPT !.at = AfterOpen(CutOff(file))]
       \/ Written(CutOff(file)) /\ w' = Closed
       \/ UNCHANGED <<file, durable>> /\ w' = Closed
    /\ UNCHANGED <<acked, lost>>

\* (mutant) the name is not made durable
NoSyncDir ==
    /\ w.at = "dir" /\ w' = Write(Header)
    /\ UNCHANGED <<file, durable, acked, lost>>

\* The name becomes durable before anything is written into the file.
SyncDir ==
    /\ w.at = "dir"
    /\ \/ durable' = durable \ {Absent} /\ w' = Write(Header)
       \/ w' = Closed /\ UNCHANGED durable
    /\ UNCHANGED <<file, acked, lost>>

-----------------------------------------------------------------------------
(* Appending a line: write_all, then sync *)

\* What the engine may save next: a run begins when nothing is unfinished,
\* and a restoration after an interruption.
NextLines(v, run) ==
    IF run # NoRun
    THEN {Snapshot(run, IF v[run] = "Running" THEN "Ended" ELSE "Recovered")}
    ELSE {Snapshot(d, "Running") : d \in {d \in LogDep : v[d] = "none" /\ Unmarked(v) = {}}}
         \union {Snapshot(d, "Recovering") : d \in {d \in LogDep : v[d] = "Interrupted"}}

MarkLines(v) == {Snapshot(d, RecoverOnStart(v[d])) : d \in Unmarked(v)}

Persist ==
    /\ w.at = "ready" /\ Len(file.lines) < MaxLines
    /\ \E l \in IF w.mark THEN MarkLines(w.view) ELSE NextLines(w.view, w.run) : w' = Write(l)
    /\ UNCHANGED <<file, durable, acked, lost>>

\* write_all may take several writes.
AppendPart ==
    /\ w.at = "write" /\ ~file.torn
    /\ Written(Torn(file)) /\ UNCHANGED <<w, acked, lost>>

AppendAll ==
    /\ w.at = "write"
    /\ Written(Added(file, IF w.glued THEN Damaged ELSE w.line))
    /\ w' = [w EXCEPT !.at = "sync"] /\ UNCHANGED <<acked, lost>>

\* (mutant) the handle stays usable after a failed append
AppendFailsGoesOn ==
    /\ w.at = "write"
    /\ \/ Synced(CutOff(file)) \/ Written(CutOff(file)) \/ UNCHANGED <<file, durable>>
    /\ w' = [w EXCEPT !.at = IF w.line = Header THEN "broken" ELSE "ready"]
    /\ UNCHANGED <<acked, lost>>

\* Cut back to the last whole record if possible; the handle is done for.
AppendFails ==
    /\ w.at = "write"
    /\ \/ Synced(CutOff(file)) \/ Written(CutOff(file)) \/ UNCHANGED <<file, durable>>
    /\ w' = [w EXCEPT !.at = "broken"]
    /\ UNCHANGED <<acked, lost>>

\* What the process knows once a line is acknowledged.  Marking is over when
\* nothing is left to mark.
Applied(l) ==
    LET v == IF IsSnapshot(l) THEN [w.view EXCEPT ![l.d] = l.status] ELSE w.view
    IN  [w EXCEPT !.at = "ready", !.line = NoLine, !.view = v, !.mark = @ /\ Unmarked(v) # {},
                  !.run = IF IsSnapshot(l) /\ ~w.mark
                          THEN IF l.status \in {"Running", "Recovering"} THEN l.d ELSE NoRun
                          ELSE @]

\* A sync is never retried: a failed one leaves the handle unusable.
SyncLine ==
    /\ w.at = "sync"
    /\ \/ Synced(file) /\ w' = Applied(w.line) /\ acked' = Len(file.lines)
       \/ w' = [w EXCEPT !.at = "broken"] /\ UNCHANGED <<file, durable, acked>>
    /\ UNCHANGED lost

PowerLoss ==
    /\ lost < MaxLost /\ lost' = lost + 1
    /\ \E f \in durable : file' = f /\ durable' = {f}
    /\ w' = Closed /\ UNCHANGED acked

FileNext ==
    \/ Open \/ CutTail \/ SyncDir \/ Persist
    \/ AppendPart \/ AppendAll \/ AppendFails \/ SyncLine
=============================================================================
