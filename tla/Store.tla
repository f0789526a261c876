-------------------------------- MODULE Store --------------------------------
(***************************************************************************)
(* The permanent store (deploy-journal/src/sqlite.rs, deploy-cli/src/      *)
(* store.rs): the journal's records in a SQLite table, the one-time import *)
(* of a file journal, readers that take no lock, and the backup made       *)
(* before the first removal of a registration (journal_upgrade.rs).        *)
(*                                                                         *)
(* SQLite is external: a transaction commits whole and durably, or not at  *)
(* all.  No process of a build that still writes the file runs once this   *)
(* build has opened the store.                                             *)
(***************************************************************************)
EXTENDS Journal

CONSTANTS MaxBackups   \* bound: backups attempted

ASSUME StoreAssumption == MaxBackups \in Nat

VARIABLES
    sql,       \* the SQLite file
    backups,   \* the backups directory
    tries,     \* bound: backups attempted
    reader     \* a command that reads without the lock

filevars == <<file, durable, acked, lost>>
sqlvars == <<sql, backups, tries>>
storeVars == <<file, durable, w, acked, lost, sql, backups, tries, reader>>

\* schema 0: a file without tables.
NoSql == [exists |-> FALSE, schema |-> 0, rows |-> <<>>]

\* The records the directory holds, whichever store they are in.
Log == IF sql.rows # <<>> THEN sql.rows ELSE file.lines

\* Neither a deployment nor a ledger entry is stored.
NoDeployments(rows) == \A i \in DOMAIN rows : ~IsSnapshot(rows[i])

\* known: how many records were acknowledged when the read began; missed: the
\* kinds of those that the last read did not return.
NoRead == [at |-> "idle", known |-> 0, missed |-> {}]

StoreInit == JournalInit /\ sql = NoSql /\ backups = {} /\ tries = 0 /\ reader = NoRead

-----------------------------------------------------------------------------
(* Opening for writing: the lock, the file, the tables, the import *)

OpenStore ==
    /\ w.at = "closed"
    /\ \E mark \in BOOLEAN : w' = [Closed EXCEPT !.at = "migrate", !.mark = mark]
    /\ sql' = [sql EXCEPT !.exists = TRUE]
    /\ UNCHANGED <<filevars, backups, tries, reader>>

Migrate ==
    /\ w.at = "migrate"
    /\ \/ /\ sql' = [sql EXCEPT !.schema = IF @ = 0 THEN 1 ELSE @]
          /\ w' = [w EXCEPT !.at = "restore"]
       \/ w' = Closed /\ UNCHANGED sql
    /\ UNCHANGED <<filevars, backups, tries, reader>>

\* One transaction; the file stays as it is.
ImportLegacy ==
    /\ w.at = "import"
    /\ \/ /\ sql' = [sql EXCEPT !.rows = @ \o file.lines]
          /\ w' = Opened(w, "sqlready", sql'.rows)
          /\ acked' = Len(sql'.rows)
       \/ w' = Closed /\ UNCHANGED <<sql, acked>>
    /\ UNCHANGED <<file, durable, lost, backups, tries, reader>>

RestoreBackup ==
    /\ w.at = "restore" /\ Replays(sql.rows)
    /\ w' = IF NoDeployments(sql.rows) /\ file.exists
            THEN [w EXCEPT !.at = "import"]
            ELSE Opened(w, "sqlready", sql.rows)
    /\ UNCHANGED <<filevars, sqlvars, reader>>

-----------------------------------------------------------------------------
(* Writing: one transaction for each record *)

SqlReady == w.at = "sqlready" /\ Len(sql.rows) < MaxLines

Insert ==
    /\ SqlReady
    /\ \E l \in (IF w.mark THEN MarkLines(w.view)
                 ELSE NextLines(w.view, w.run) \union {Other("other")}) :
          \/ /\ sql' = [sql EXCEPT !.rows = Append(@, l)] /\ acked' = Len(sql'.rows)
             /\ w' = [Applied(l) EXCEPT !.at = "sqlready"]
          \* the commit fails, or the process dies in it and the record stays
          \/ w' = Closed /\ UNCHANGED <<sql, acked>>
          \/ /\ w' = Closed /\ sql' = [sql EXCEPT !.rows = Append(@, l)]
             /\ UNCHANGED acked
    /\ UNCHANGED <<file, durable, lost, backups, tries, reader>>

-----------------------------------------------------------------------------
(* repo-remove: the first removal stamps schema 2, after a proved backup *)

REMOVAL_SCHEMA == 2
Registered(rows) ==
    \E i \in DOMAIN rows : /\ rows[i].kind = "other"
                           /\ \A j \in DOMAIN rows : j > i => rows[j].kind # "gitdrop"

\* (mutant) a journal with a backup file is not backed up again
BackupOnce == IF sql.schema < REMOVAL_SCHEMA /\ backups = {} THEN "copy" ELSE "drop"
NextOfRemove == IF sql.schema < REMOVAL_SCHEMA THEN "copy" ELSE "drop"

RemoveBegin ==
    /\ SqlReady /\ ~w.mark /\ w.run = NoRun /\ Registered(sql.rows)
    /\ tries < MaxBackups /\ tries' = tries + 1
    /\ w' = [w EXCEPT !.at = NextOfRemove]
    /\ UNCHANGED <<filevars, sql, backups, reader>>

\* VACUUM INTO a new name.  Every failure removes what was made.
BackupInto ==
    /\ w.at = "copy"
    /\ \/ /\ backups' = backups \union {[id |-> tries, rows |-> sql.rows, side |-> FALSE]}
          /\ w' = [w EXCEPT !.at = "prove"]
       \* the process dies in the copy: part of the records is there
       \/ /\ sql.rows # <<>>
          /\ backups' = backups \union {[id |-> tries, rows |-> Front(sql.rows), side |-> FALSE]}
          /\ w' = Closed
       \/ w' = Closed /\ UNCHANGED backups
    /\ UNCHANGED <<filevars, sql, tries, reader>>

\* The copy must hold the journal's records, without a removal, and replay.
Proved(b) == /\ b.rows = sql.rows /\ Replays(b.rows)
             /\ \A i \in DOMAIN b.rows : b.rows[i].kind # "gitdrop"

\* The digest beside the backup is written last.
Prove ==
    /\ w.at = "prove"
    /\ \E b \in backups :
          /\ b.id = tries
          /\ \/ /\ Proved(b)
                /\ backups' = (backups \ {b}) \union {[b EXCEPT !.side = TRUE]}
                /\ w' = [w EXCEPT !.at = "drop"]
             \/ backups' = backups \ {b} /\ w' = Closed
    /\ UNCHANGED <<filevars, sql, tries, reader>>

\* The stamp and the removal are one transaction.
RemoveRegistration ==
    /\ w.at = "drop"
    /\ \/ /\ sql' = [sql EXCEPT !.schema = REMOVAL_SCHEMA, !.rows = Append(@, Other("gitdrop"))]
          /\ acked' = Len(sql'.rows) /\ w' = [w EXCEPT !.at = "sqlready"]
       \/ w' = Closed /\ UNCHANGED <<sql, acked>>
    /\ UNCHANGED <<file, durable, lost, backups, tries, reader>>

-----------------------------------------------------------------------------
(* Reading without the lock *)

\* (mutant) a store that exists is never doubted
FallBackNever(rows) == FALSE
FallBack(rows) == NoDeployments(rows) /\ file.exists

Read(lines) ==
    [NoRead EXCEPT !.missed = {l.kind : l \in ToSet(SubSeq(Log, 1, reader.known)) \ ToSet(lines)}]

ReadBegin ==
    /\ reader.at = "idle" /\ (sql.exists \/ file.exists)
    /\ reader' = [NoRead EXCEPT !.at = IF sql.exists THEN "store" ELSE "file", !.known = acked]
    /\ UNCHANGED <<filevars, w, sqlvars>>

\* The tables may not be there yet: the command ends with an error.
ReadStore ==
    /\ reader.at = "store"
    /\ reader' = IF sql.schema = 0 THEN NoRead
                 ELSE IF FallBack(sql.rows) THEN [reader EXCEPT !.at = "file"]
                 ELSE Read(sql.rows)
    /\ UNCHANGED <<filevars, w, sqlvars>>

\* A torn tail is ignored; the file may have gone in a power loss.
ReadFile ==
    /\ reader.at = "file"
    /\ reader' = IF file.exists THEN Read(file.lines) ELSE NoRead
    /\ UNCHANGED <<filevars, w, sqlvars>>

-----------------------------------------------------------------------------

StoreExit == Exit /\ UNCHANGED <<sqlvars, reader>>
StorePowerLoss == PowerLoss /\ reader' = NoRead /\ UNCHANGED sqlvars

Legacy == ~sql.exists /\ FileNext /\ UNCHANGED <<sqlvars, reader>>

StoreNext ==
    \/ Legacy \/ StoreExit \/ StorePowerLoss
    \/ OpenStore \/ Migrate \/ RestoreBackup \/ ImportLegacy \/ Insert
    \/ RemoveBegin \/ BackupInto \/ Prove \/ RemoveRegistration
    \/ ReadBegin \/ ReadStore \/ ReadFile

-----------------------------------------------------------------------------
(* Properties *)

\* Whatever a crash, a failed write, a failed sync or a power loss left, and
\* whatever was repaired after it, the next opening can replay: no record is
\* damaged and no deployment changes after its end (journal_format.rs: recover,
\* replay; lib.rs: open_with, append_line).
Replayable ==
    /\ Replays(sql.rows)
    /\ \A f \in durable \union {file} : Replays(f.lines)

\* A command that reads without the lock returns every deployment record that
\* was acknowledged before it began, through a torn write, the import and an
\* opening half done (sqlite.rs: read_only; lib.rs: read_only).
ReadsAcknowledged == "snapshot" \notin reader.missed

\* Once the journal is one that older builds cannot read, a backup with its
\* digest holds exactly the records from before the first removal
\* (journal_upgrade.rs: backup_before_schema2; sqlite.rs: remove_registration).
BackedUp ==
    sql.schema = REMOVAL_SCHEMA =>
       \E b \in backups : /\ b.side /\ Len(b.rows) < Len(sql.rows)
                          /\ IsPrefix(b.rows, sql.rows)
                          /\ sql.rows[Len(b.rows) + 1].kind = "gitdrop"

\* The file journal, the import and the store together keep the promise of a
\* durable log: nothing acknowledged is lost or reordered, by crashes, failed
\* syncs, power losses or the change of store.
Durable == INSTANCE DurableLog WITH log <- Log
DurableSpec == Durable!Spec
=============================================================================
