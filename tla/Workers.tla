-------------------------------- MODULE Workers --------------------------------
(***************************************************************************)
(* The background workers of the desktop: runtime_refresh.rs,              *)
(* resource_sampler.rs and bootstrap.rs.  Each keeps at most one worker in *)
(* a slot; `start` stops the one that is there, spawns a thread and puts   *)
(* it into the slot, `stop` takes it out, raises its flag, wakes it and    *)
(* joins it.  The window's calls run on threads of a pool, so two of them  *)
(* overlap; only runtime_refresh has a lock around the whole of a call.    *)
(***************************************************************************)
EXTENDS Integers, FiniteSets

CONSTANTS Calls,   \* calls of the window, each start or stop
          MaxPolls \* polls of a bootstrap that fit into TIMEOUT

ASSUME WorkersAssumption == Calls \subseteq Nat \ {0} /\ MaxPolls \in Nat \ {0}

Kinds == {"refresh", "sampler", "bootstrap"}
NoOne == 0

(* A worker is named by the call that spawned it. *)
VARIABLES kind,      \* which of the three
          lifecycle, \* the call that holds lifecycle_state, or NoOne (refresh)
          slot,      \* worker_state: the worker in it, or NoOne
          calls,     \* per call: what it does, how far it is, whom it joins
          threads,   \* per worker: its thread
          told       \* per worker: what it reported to the window

workerVars == <<kind, lifecycle, slot, calls, threads, told>>

NoThreadYet == [pc |-> "none", flag |-> FALSE, wake |-> FALSE, polls |-> 0]
Live(w) == threads[w].pc \notin {"none", "ended"}

WorkersInit ==
    /\ kind \in Kinds
    /\ lifecycle = NoOne
    /\ slot = NoOne
    /\ calls \in [Calls -> [op : {"start", "stop"}, pc : {"todo"}, victim : {NoOne}]]
    /\ threads = [w \in Calls |-> NoThreadYet]
    /\ told = [w \in Calls |-> {}]

-----------------------------------------------------------------------------
(* (mutant) No call waits for another, of any kind. *)
EnterAtOnce(c) ==
    /\ calls[c].pc = "todo"
    /\ calls' = [calls EXCEPT ![c].pc = "take"]
    /\ UNCHANGED <<kind, lifecycle, slot, threads, told>>

Enter(c) ==
    /\ calls[c].pc = "todo"
    /\ kind = "refresh" => lifecycle = NoOne
    /\ lifecycle' = IF kind = "refresh" THEN c ELSE NoOne
    /\ calls' = [calls EXCEPT ![c].pc = "take"]
    /\ UNCHANGED <<kind, slot, threads, told>>

Returned(c, cs) ==
    /\ calls' = [cs EXCEPT ![c].pc = "done"]
    /\ lifecycle' = IF lifecycle = c THEN NoOne ELSE lifecycle

(* `stop`: the slot is emptied under its lock, the flag raised, the sleep  *)
(* interrupted (the sampler has no channel: it sleeps its second out).     *)
Take(c) ==
    /\ calls[c].pc = "take"
    /\ slot' = NoOne
    /\ calls' = [calls EXCEPT ![c] = [@ EXCEPT !.pc = "join", !.victim = slot]]
    /\ threads' = IF slot = NoOne THEN threads
                  ELSE [threads EXCEPT ![slot] =
                          [@ EXCEPT !.flag = TRUE, !.wake = kind # "sampler"]]
    /\ UNCHANGED <<kind, lifecycle, told>>

(* The join, after which `stop` returns and `start` goes on. *)
Joined(c) ==
    /\ calls[c].pc = "join"
    /\ calls[c].victim # NoOne => ~Live(calls[c].victim)
    /\ IF calls[c].op = "stop" THEN Returned(c, calls)
       ELSE calls' = [calls EXCEPT ![c].pc = "spawn"] /\ UNCHANGED lifecycle
    /\ UNCHANGED <<kind, slot, threads, told>>

Spawn(c) ==
    /\ calls[c].pc = "spawn"
    /\ \/ /\ threads' = [threads EXCEPT ![c].pc = IF kind = "refresh" THEN "sleep" ELSE "first"]
          /\ calls' = [calls EXCEPT ![c].pc = "put"]
          /\ UNCHANGED lifecycle
       \/ Returned(c, calls) /\ UNCHANGED threads   \* no thread: the error is returned
    /\ UNCHANGED <<kind, slot, told>>

(* Whatever is in the slot is dropped, which detaches its thread. *)
Put(c) ==
    /\ calls[c].pc = "put"
    /\ slot' = c
    /\ Returned(c, calls)
    /\ UNCHANGED <<kind, threads, told>>

-----------------------------------------------------------------------------
Goes(w, pc) == threads' = [threads EXCEPT ![w].pc = pc]
Tells(w, what) == told' = [told EXCEPT ![w] = @ \union {what}]

(* The refresh worker: sleep, read, look at the flag again, and publish    *)
(* under the lock of the slot while it is the worker in it.                *)
RefreshWakes(w) ==
    /\ kind = "refresh" /\ threads[w].pc = "sleep"
    /\ Goes(w, IF threads[w].flag \/ threads[w].wake THEN "ended" ELSE "read")
    /\ UNCHANGED <<kind, lifecycle, slot, calls, told>>

RefreshReads(w) ==
    /\ kind = "refresh" /\ threads[w].pc = "read"
    /\ Goes(w, IF threads[w].flag THEN "ended" ELSE "publish")
    /\ UNCHANGED <<kind, lifecycle, slot, calls, told>>

RefreshPublishes(w) ==
    /\ kind = "refresh" /\ threads[w].pc = "publish"
    /\ IF slot = w THEN Tells(w, "current") ELSE UNCHANGED told
    /\ Goes(w, "sleep")
    /\ UNCHANGED <<kind, lifecycle, slot, calls>>

(* The sampler: one sample, published every second time, then a second of  *)
(* sleep; the flag is looked at between the rounds.                        *)
Samples(w) ==
    /\ kind = "sampler" /\ threads[w].pc = "first"
    /\ IF threads[w].flag THEN Goes(w, "ended") /\ UNCHANGED told
       ELSE Goes(w, "sleep") /\ Tells(w, "sample")
    /\ UNCHANGED <<kind, lifecycle, slot, calls>>

SamplerSleeps(w) ==
    /\ kind = "sampler" /\ threads[w].pc = "sleep"
    /\ Goes(w, "first")
    /\ UNCHANGED <<kind, lifecycle, slot, calls, told>>

(* The bootstrap: a first status, `harpoon start` when it is stopped or    *)
(* stale, then a poll until Docker answers, the runtime reports a failure, *)
(* the status cannot be read, the time is up, or it is told to stop.       *)
Completes(w, ok) == Goes(w, "ended") /\ Tells(w, IF ok THEN "ready" ELSE "failed")

FirstStatus(w) ==
    /\ kind = "bootstrap" /\ threads[w].pc = "first"
    /\ \/ Completes(w, FALSE)   \* unreadable, or failed
       \/ \E next \in {"starting", "poll"} : Goes(w, next) /\ UNCHANGED told
    /\ UNCHANGED <<kind, lifecycle, slot, calls>>

StartsHarpoon(w) ==
    /\ kind = "bootstrap" /\ threads[w].pc = "starting"
    /\ Completes(w, FALSE) \/ (Goes(w, "poll") /\ UNCHANGED told)
    /\ UNCHANGED <<kind, lifecycle, slot, calls>>

(* (mutant) The poll does not look at the clock. *)
PollsForEver(w) ==
    /\ kind = "bootstrap" /\ threads[w].pc = "poll"
    /\ IF threads[w].flag THEN Goes(w, "ended") /\ UNCHANGED told
       ELSE \/ \E ok \in BOOLEAN : Completes(w, ok)
            \/ Goes(w, "sleep") /\ UNCHANGED told
    /\ UNCHANGED <<kind, lifecycle, slot, calls>>

Polls(w) ==
    /\ kind = "bootstrap" /\ threads[w].pc = "poll"
    /\ IF threads[w].flag THEN Goes(w, "ended") /\ UNCHANGED told
       ELSE IF threads[w].polls >= MaxPolls THEN Completes(w, FALSE)
       ELSE \/ \E ok \in BOOLEAN : Completes(w, ok)
            \/ /\ threads' = [threads EXCEPT ![w].pc = "sleep", ![w].polls = @ + 1]
               /\ UNCHANGED told
    /\ UNCHANGED <<kind, lifecycle, slot, calls>>

BootstrapWakes(w) ==
    /\ kind = "bootstrap" /\ threads[w].pc = "sleep"
    /\ Goes(w, IF threads[w].wake THEN "ended" ELSE "poll")
    /\ UNCHANGED <<kind, lifecycle, slot, calls, told>>

Works(w) ==
    \/ RefreshWakes(w) \/ RefreshReads(w) \/ RefreshPublishes(w)
    \/ Samples(w) \/ SamplerSleeps(w)
    \/ FirstStatus(w) \/ StartsHarpoon(w) \/ Polls(w) \/ BootstrapWakes(w)

Proceeds(c) == Enter(c) \/ Take(c) \/ Joined(c) \/ Spawn(c) \/ Put(c)

WorkersNext ==
    \E c \in Calls :
        \/ Enter(c) \/ Take(c) \/ Joined(c) \/ Spawn(c) \/ Put(c)
        \/ RefreshWakes(c) \/ RefreshReads(c) \/ RefreshPublishes(c)
        \/ Samples(c) \/ SamplerSleeps(c)
        \/ FirstStatus(c) \/ StartsHarpoon(c) \/ Polls(c) \/ BootstrapWakes(c)

-----------------------------------------------------------------------------
(* Properties.                                                             *)

(* A worker that nobody will ever stop: not in the slot, not on its way    *)
(* into it, and not being joined.                                          *)
Orphans == { w \in Calls : Live(w) /\ slot # w /\ calls[w].pc # "put"
                           /\ \A c \in Calls : calls[c].pc = "join" => calls[c].victim # w }

(* However the window's calls overlap, no refresh worker is orphaned: one  *)
(* that runs is in the slot, or about to be put there, or being joined     *)
(* (start, stop: the lifecycle lock held around both).                     *)
RefreshUnderControl == kind = "refresh" => Orphans = {}

(* Every call of the window returns: a worker told to stop ends, even in   *)
(* the middle of a read, of a publication or of a start of the runtime; and *)
(* a bootstrap ends by itself (stop_locked, stop, TIMEOUT).                *)
CallsReturn ==
    \A c \in Calls : /\ (calls[c].pc = "take") ~> (calls[c].pc = "done")
                     /\ (kind = "bootstrap" /\ Live(c)) ~> ~Live(c)

=============================================================================
