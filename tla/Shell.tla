--------------------------------- MODULE Shell ---------------------------------
(***************************************************************************)
(* Interactive container shells of the desktop (shell.rs): a forked Docker *)
(* CLI behind a pseudo-terminal, a reader thread that reaps it, and the    *)
(* window's write, resize and close calls.                                 *)
(*                                                                         *)
(* Process ids and file descriptors are the operating system's: a reaped   *)
(* child's id and a closed descriptor's number are handed out again, to    *)
(* the next shell or to somebody else.  The two locks of the code are the  *)
(* map of sessions (held during a whole write, which may block) and the    *)
(* cell of the child's id (held for one kill or one waitpid).              *)
(***************************************************************************)
EXTENDS Integers, FiniteSets

CONSTANTS Shells, \* session ids; each is opened at most once
          Pids,   \* process ids
          Fds     \* file descriptors

Nil == 0

ASSUME ShellAssumption == Nil \notin Pids /\ Shells \cap {"none", "free", "other"} = {}

VARIABLES pids,     \* who has each process id: a shell, "other" or "free"
          fds,      \* who has each descriptor: a shell, "other" or "free"
          proc,     \* per shell: how far its child is
          cell,     \* ChildPid: the child's id until it is reaped, else Nil
          sessions, \* ShellManager.sessions: registered shell -> master_fd
          reader,   \* per shell: the reader thread
          writer,   \* who is inside write(), holding the lock of the map
          closer,   \* per shell: close() and its delayed kill
          exits     \* per shell: exit events sent

shellVars == <<pids, fds, proc, cell, sessions, reader, writer, closer, exits>>

NoWriter == [shell |-> "none", fd |-> Nil]
Unlocked == writer = NoWriter

(* A child that runs reads its terminal; one that "ignores" does not, nor  *)
(* does it die of SIGTERM; one that has "hung up" closed its terminal but  *)
(* lives on.                                                               *)
Alive == {"running", "ignores", "hungup"}

ShellInit ==
    /\ pids = [p \in Pids |-> "free"]
    /\ fds = [f \in Fds |-> "free"]
    /\ proc = [s \in Shells |-> "none"]
    /\ cell = [s \in Shells |-> Nil]
    /\ sessions = [s \in {} |-> Nil]
    /\ reader = [s \in Shells |-> "none"]
    /\ writer = NoWriter
    /\ closer = [s \in Shells |-> "none"]
    /\ exits = [s \in Shells |-> 0]

-----------------------------------------------------------------------------
(* kill(2) and waitpid(2) under the lock of the cell.                      *)

Killed(s, signal) ==
    IF \/ cell[s] = Nil \/ proc[s] \notin Alive
       \/ signal = "term" /\ proc[s] = "ignores"
    THEN proc ELSE [proc EXCEPT ![s] = "zombie"]

(* (mutant) The id is kept when the child is reaped. *)
ReapedKept(s) ==
    /\ proc' = [proc EXCEPT ![s] = "reaped"]
    /\ pids' = [pids EXCEPT ![cell[s]] = "free"]
    /\ UNCHANGED cell

Reaped(s) ==
    /\ proc' = [proc EXCEPT ![s] = "reaped"]
    /\ pids' = [pids EXCEPT ![cell[s]] = "free"]
    /\ cell' = [cell EXCEPT ![s] = Nil]

-----------------------------------------------------------------------------
(* `open`: fork and register under the lock; the session's id is new and    *)
(* not yet known to the window.                                            *)
Open(s, p, f) ==
    /\ proc[s] = "none" /\ pids[p] = "free" /\ fds[f] = "free"
    /\ Unlocked
    /\ pids' = [pids EXCEPT ![p] = s]
    /\ fds' = [fds EXCEPT ![f] = s]
    /\ proc' = [proc EXCEPT ![s] = "running"]
    /\ cell' = [cell EXCEPT ![s] = p]
    /\ sessions' = [t \in DOMAIN sessions \union {s} |-> IF t = s THEN f ELSE sessions[t]]
    /\ reader' = [reader EXCEPT ![s] = "starting"]
    /\ UNCHANGED <<writer, closer, exits>>

Freed(s) == [f \in Fds |-> IF fds[f] = s THEN "free" ELSE fds[f]]
Unregister(s) == [t \in DOMAIN sessions \ {s} |-> sessions[t]]

ReaderStarts(s) ==
    /\ reader[s] = "starting"
    /\ reader' = [reader EXCEPT ![s] = "reading"]
    /\ UNCHANGED <<pids, fds, proc, cell, sessions, writer, closer, exits>>

(* The reader's thread cannot be started: the child is killed and reaped   *)
(* and its descriptor closed - unless close_all has taken the session      *)
(* meanwhile, who leaves that to the reader that does not exist.           *)
NoReader(s) ==
    /\ reader[s] = "starting"
    /\ Unlocked
    /\ reader' = [reader EXCEPT ![s] = "none"]
    /\ \/ /\ s \in DOMAIN sessions
          /\ sessions' = Unregister(s)
          /\ Reaped(s)
          /\ fds' = Freed(s)
       \/ /\ s \notin DOMAIN sessions
          /\ UNCHANGED <<pids, fds, proc, cell, sessions>>
    /\ UNCHANGED <<writer, closer, exits>>

(* The read fails or reports the end once the child's side is closed.      *)
ReaderEnds(s) ==
    /\ reader[s] = "reading" /\ proc[s] \in {"hungup", "zombie"}
    /\ reader' = [reader EXCEPT ![s] = "ended"]
    /\ UNCHANGED <<pids, fds, proc, cell, sessions, writer, closer, exits>>

(* Unregistered before the descriptor is closed; waits for the map's lock. *)
ReaderUnregisters(s) ==
    /\ reader[s] = "ended"
    /\ Unlocked
    /\ sessions' = Unregister(s)
    /\ reader' = [reader EXCEPT ![s] = "reaping"]
    /\ UNCHANGED <<pids, fds, proc, cell, writer, closer, exits>>

(* The poll of waitpid that finds the child dead. *)
ReaderReaps(s) ==
    /\ reader[s] = "reaping" /\ proc[s] = "zombie"
    /\ Reaped(s)
    /\ reader' = [reader EXCEPT ![s] = "closing"]
    /\ UNCHANGED <<fds, sessions, writer, closer, exits>>

ReaderCloses(s) ==
    /\ reader[s] = "closing"
    /\ fds' = Freed(s)
    /\ exits' = [exits EXCEPT ![s] = @ + 1]
    /\ reader' = [reader EXCEPT ![s] = "done"]
    /\ UNCHANGED <<pids, proc, cell, sessions, writer, closer>>

-----------------------------------------------------------------------------
(* The window's calls.  `write` and `resize` find the session under the    *)
(* lock of the map; a write keeps it until every byte is taken.            *)
Write(s) ==
    /\ s \in DOMAIN sessions /\ Unlocked
    /\ reader[s] # "starting"
    /\ writer' = [shell |-> s, fd |-> sessions[s]]
    /\ UNCHANGED <<pids, fds, proc, cell, sessions, reader, closer, exits>>

(* The terminal takes the bytes, or the write fails because the child is   *)
(* gone.  While the child reads nothing the call blocks.                   *)
Written ==
    /\ ~Unlocked
    /\ proc[writer.shell] # "ignores"
    /\ writer' = NoWriter
    /\ UNCHANGED <<pids, fds, proc, cell, sessions, reader, closer, exits>>

(* `close`, which waits for the lock of the map. *)
AskClose(s) ==
    /\ reader[s] \notin {"none", "starting"}
    /\ closer[s] = "none"
    /\ closer' = [closer EXCEPT ![s] = "asked"]
    /\ UNCHANGED <<pids, fds, proc, cell, sessions, reader, writer, exits>>

(* Removed from the map, or not found there. *)
Close(s) ==
    /\ closer[s] = "asked" /\ Unlocked
    /\ sessions' = Unregister(s)
    /\ closer' = [closer EXCEPT ![s] = IF s \in DOMAIN sessions THEN "removed" ELSE "unknown"]
    /\ UNCHANGED <<pids, fds, proc, cell, reader, writer, exits>>

(* SIGTERM, and a thread that sends SIGKILL after the grace period; nobody *)
(* notices when that thread cannot be started.                             *)
Terminate(s) ==
    /\ closer[s] = "removed"
    /\ proc' = Killed(s, "term")
    /\ \E next \in {"grace", "alone"} : closer' = [closer EXCEPT ![s] = next]
    /\ UNCHANGED <<pids, fds, cell, sessions, reader, writer, exits>>

(* (mutant) No second signal after the grace period. *)
KillNothing(s) ==
    /\ closer[s] = "grace"
    /\ closer' = [closer EXCEPT ![s] = "killed"]
    /\ UNCHANGED <<pids, fds, proc, cell, sessions, reader, writer, exits>>

Kill(s) ==
    /\ closer[s] = "grace"
    /\ proc' = Killed(s, "kill")
    /\ closer' = [closer EXCEPT ![s] = "killed"]
    /\ UNCHANGED <<pids, fds, cell, sessions, reader, writer, exits>>

(* `close_all`, at exit and when the manager is dropped. *)
CloseAll ==
    /\ sessions # <<>> /\ Unlocked
    /\ sessions' = <<>>
    /\ proc' = [s \in Shells |-> IF s \in DOMAIN sessions THEN Killed(s, "kill")[s]
                                 ELSE proc[s]]
    /\ closer' = [s \in Shells |-> IF s \in DOMAIN sessions THEN "killed" ELSE closer[s]]
    /\ UNCHANGED <<pids, fds, cell, reader, writer, exits>>

-----------------------------------------------------------------------------
(* The child and the rest of the system (external).                        *)
ChildChanges(s) ==
    /\ \/ proc[s] = "running" /\ proc' = [proc EXCEPT ![s] = "ignores"]
       \/ proc[s] = "running" /\ proc' = [proc EXCEPT ![s] = "hungup"]
       \/ proc[s] \in Alive /\ proc' = [proc EXCEPT ![s] = "zombie"]
    /\ UNCHANGED <<pids, fds, cell, sessions, reader, writer, closer, exits>>

Reuse ==
    /\ \/ \E p \in Pids : pids[p] = "free" /\ pids' = [pids EXCEPT ![p] = "other"]
                          /\ UNCHANGED fds
       \/ \E f \in Fds : fds[f] = "free" /\ fds' = [fds EXCEPT ![f] = "other"]
                         /\ UNCHANGED pids
    /\ UNCHANGED <<proc, cell, sessions, reader, writer, closer, exits>>

(* What the reader's thread of a shell does next, and the window's close.  *)
ReaderActs(s) == ReaderEnds(s) \/ ReaderUnregisters(s) \/ ReaderReaps(s) \/ ReaderCloses(s)
CloseActs(s) == Close(s) \/ Terminate(s) \/ Kill(s)

ShellNext ==
    \/ \E s \in Shells :
         \/ \E p \in Pids, f \in Fds : Open(s, p, f)
         \/ ReaderStarts(s) \/ NoReader(s)
         \/ ReaderEnds(s) \/ ReaderUnregisters(s) \/ ReaderReaps(s) \/ ReaderCloses(s)
         \/ Write(s) \/ AskClose(s) \/ Close(s) \/ Terminate(s) \/ Kill(s)
         \/ ChildChanges(s)
    \/ Written \/ CloseAll \/ Reuse

-----------------------------------------------------------------------------
(* Properties.                                                             *)

(* "A recycled pid can never be signalled", and a write or a resize never  *)
(* reaches a descriptor's next owner: whatever a thread may still signal   *)
(* or write to belongs to its own session (ChildPid, read_session, write). *)
NoStrayReference ==
    /\ \A s \in Shells : cell[s] # Nil => pids[cell[s]] = s
    /\ \A s \in DOMAIN sessions : fds[sessions[s]] = s
    /\ ~Unlocked => fds[writer.fd] = writer.shell

(* A shell that the window closes ends: its child is reaped, its           *)
(* descriptor freed and the exit event sent, whatever the child does with  *)
(* SIGTERM - unless the forced kill could not be scheduled, or a write to  *)
(* a shell that reads nothing keeps the lock of the map for ever (close,   *)
(* reap, read_session, write).                                             *)
ClosedShellEnds ==
    \/ <>[](~Unlocked /\ proc[writer.shell] = "ignores")
    \/ \A s \in Shells :
          (closer[s] = "asked") ~> (exits[s] = 1 \/ closer[s] \in {"alone", "unknown"})
=============================================================================
