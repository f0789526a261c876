-------------------------------- MODULE Forwards -------------------------------
(***************************************************************************)
(* The forward of one published port, from the host's loopback into the    *)
(* guest (src/harpoon/Sources/PortForwardManager.swift).  Every ten        *)
(* seconds, and after every request that changes a container, `sync` lists *)
(* the containers and `reconcile` makes the listeners those it asks for.  *)
(* A port published on the guest's address is forwarded at once; one on a  *)
(* loopback address of the guest needs a relay inside it first, started    *)
(* and stopped by commands that the guest runs each in a process of its    *)
(* own.  All of it happens on the main queue; what is slow - the listing,  *)
(* the commands, the closing of a listener - answers on it later.          *)
(* Ports do not disturb each other, so one is enough.  The guest's address *)
(* is known, for nothing is asked for before it is; and stopAll, which     *)
(* ends the forwards with the process, has not been called.                *)
(***************************************************************************)
EXTENDS Naturals

CONSTANTS Loopbacks,      \* loopback addresses of the guest
          Slots,          \* the commands that may be in the guest at once
          MaxSurprises    \* bound: changes of the surroundings, failures, late answers

Nowhere == "nowhere"
Address == "address"
Routes == Loopbacks \union {Address, Nowhere}

NoCommand == [op |-> "none"]
RelayStart(ip) == [op |-> "start", ip |-> ip, at |-> "sent", awaited |-> TRUE]
RelayStop == [op |-> "stop"]

VARIABLES
    published,  \* where Docker has the port bound now: nowhere if no running container has it
    listing,    \* the listing in flight: none, asked for, or what the guest answered
    forward,    \* the route of the forward of the port
    closing,    \* a removed forward's listener is not closed yet
    foreign,    \* another process of the host has the port
    pending,    \* pendingRelays holds the port
    guest,      \* the commands in the guest
    relay,      \* the address that the relay of the port connects to
    orderly,    \* the guest runs a start only after the stops sent before it, and answers in time
    surprises   \* those still to come

forwardVars == <<published, listing, forward, closing, foreign, pending, guest, relay,
                 orderly, surprises>>

ForwardsInit ==
    /\ published \in Routes /\ listing = "none"
    /\ forward = Nowhere /\ closing = FALSE /\ foreign \in BOOLEAN
    /\ pending = FALSE /\ guest = [s \in Slots |-> NoCommand] /\ relay = Nowhere
    /\ orderly \in BOOLEAN /\ surprises = MaxSurprises

(* A command to the guest, whose process is a slot here.                    *)
Sent(g, command) == [g EXCEPT ![CHOOSE s \in Slots : g[s] = NoCommand] = command]

(* sync, for the timer and for every scheduled call of it: one listing at  *)
(* a time.  Bound: it is not called while every slot is taken.             *)
Sync ==
    /\ listing = "none"
    /\ \E s \in Slots : guest[s] = NoCommand
    /\ listing' = "asked"
    /\ UNCHANGED <<published, forward, closing, foreign, pending, guest, relay, orderly,
                   surprises>>

(* The guest answers with what is published at that moment.                *)
Lists ==
    /\ listing = "asked" /\ listing' = published
    /\ UNCHANGED <<published, forward, closing, foreign, pending, guest, relay, orderly,
                   surprises>>

(* No connection, no answer in three seconds, or one that cannot be read.  *)
ListsNothing ==
    /\ listing = "asked" /\ listing' = "none"
    /\ surprises > 0 /\ surprises' = surprises - 1
    /\ UNCHANGED <<published, forward, closing, foreign, pending, guest, relay, orderly>>

(* addForward: whether the listener can be bound.  The listener of a       *)
(* forward removed just before is closed by its cancel handler, later.     *)
Binds(closes) == ~foreign /\ ~closes

(* (mutant) Only a port that is no longer published is withdrawn. *)
OutdatedByPort(wanted) == forward # Nowhere /\ wanted = Nowhere

(* A forward whose port is published elsewhere now, or not any more.       *)
Outdated(wanted) == forward # Nowhere /\ forward # wanted

(* reconcile: an outdated forward is withdrawn, and its relay stopped      *)
(* unless another loopback address takes the relay over; then what is      *)
(* wanted and not there is added, a loopback address by way of a relay.    *)
Reconcile ==
    LET wanted == listing
        closes == closing \/ Outdated(wanted)
        kept   == IF Outdated(wanted) THEN Nowhere ELSE forward
        stops  == Outdated(wanted) /\ forward \in Loopbacks /\ wanted \notin Loopbacks
        starts == kept = Nowhere /\ wanted \in Loopbacks /\ ~pending
    IN  /\ listing \in Routes /\ listing' = "none"
        /\ closing' = closes
        /\ forward' = IF kept = Nowhere /\ wanted = Address /\ Binds(closes)
                      THEN Address ELSE kept
        /\ pending' = (pending \/ starts)
        /\ guest' = CASE stops -> Sent(guest, RelayStop)
                      [] starts -> Sent(guest, RelayStart(wanted))
                      [] OTHER -> guest
        /\ UNCHANGED <<published, foreign, relay, orderly, surprises>>

(* The cancel handler of a withdrawn forward's source.                     *)
Closed ==
    /\ closing /\ closing' = FALSE
    /\ UNCHANGED <<published, listing, forward, foreign, pending, guest, relay, orderly,
                   surprises>>

(* The completion of startRelay: the listener comes after the relay, and   *)
(* where it cannot be had the relay is stopped again.                      *)
RelayAnswered(s) ==
    LET command == guest[s]
        adds == command.at = "up" /\ forward = Nowhere
    IN  /\ pending' = FALSE
        /\ forward' = IF adds /\ Binds(closing) THEN command.ip ELSE forward
        /\ guest' = [guest EXCEPT ![s] = IF adds /\ ~Binds(closing) THEN RelayStop ELSE NoCommand]

Hears(s) ==
    /\ guest[s] # NoCommand /\ guest[s].op = "start" /\ guest[s].at \in {"up", "failed"}
    /\ IF guest[s].awaited
       THEN RelayAnswered(s)
       ELSE /\ guest' = [guest EXCEPT ![s] = NoCommand]
            /\ UNCHANGED <<pending, forward>>
    /\ UNCHANGED <<published, listing, closing, foreign, relay, orderly, surprises>>

(* guestExec waits five seconds; the guest does not stop what it began.    *)
GivesUp(s) ==
    /\ ~orderly /\ surprises > 0 /\ surprises' = surprises - 1
    /\ guest[s] # NoCommand /\ guest[s].op = "start" /\ guest[s].awaited
    /\ guest' = [guest EXCEPT ![s].awaited = FALSE]
    /\ pending' = FALSE
    /\ UNCHANGED <<published, listing, forward, closing, foreign, relay, orderly>>

--------------------------------------------------------------------------------
(* The guest.                                                              *)

(* startScript: whatever relays the port is killed ...                     *)
Clears(s) ==
    /\ guest[s] # NoCommand /\ guest[s].op = "start" /\ guest[s].at = "sent"
    /\ orderly => \A t \in Slots : guest[t] # RelayStop
    /\ guest' = [guest EXCEPT ![s].at = "cleared"]
    /\ relay' = Nowhere
    /\ UNCHANGED <<published, listing, forward, closing, foreign, pending, orderly,
                   surprises>>

(* ... and another begins to, if it can: the script answers for any relay  *)
(* of the port that it finds.                                              *)
Relays(s) ==
    /\ guest[s] # NoCommand /\ guest[s].op = "start" /\ guest[s].at = "cleared"
    /\ guest' = [guest EXCEPT ![s].at = "up"]
    /\ relay' = IF relay = Nowhere THEN guest[s].ip ELSE relay
    /\ UNCHANGED <<published, listing, forward, closing, foreign, pending, orderly,
                   surprises>>

(* The guest cannot be reached, or socat cannot listen.                    *)
Fails(s) ==
    /\ guest[s] # NoCommand /\ guest[s].op = "start"
    /\ \/ guest[s].at = "sent"
       \/ guest[s].at = "cleared" /\ relay = Nowhere
    /\ surprises > 0 /\ surprises' = surprises - 1
    /\ guest' = [guest EXCEPT ![s].at = "failed"]
    /\ UNCHANGED <<published, listing, forward, closing, foreign, pending, relay, orderly>>

(* stopScript; the command is lost when the guest cannot be reached.       *)
Stops(s) ==
    /\ guest[s] = RelayStop
    /\ guest' = [guest EXCEPT ![s] = NoCommand]
    /\ \/ relay' = Nowhere /\ UNCHANGED surprises
       \/ UNCHANGED relay /\ surprises > 0 /\ surprises' = surprises - 1
    /\ UNCHANGED <<published, listing, forward, closing, foreign, pending, orderly>>

(* Containers start and stop, and other processes take and leave the port. *)
Published ==
    /\ surprises > 0 /\ surprises' = surprises - 1
    /\ \/ published' \in Routes \ {published} /\ UNCHANGED foreign
       \/ foreign' = ~foreign /\ (foreign' => forward = Nowhere /\ ~closing) /\ UNCHANGED published
    /\ UNCHANGED <<listing, forward, closing, pending, guest, relay, orderly>>

(* The main queue and the guest, and what happens to them.                 *)
Listens == Sync \/ Lists \/ Reconcile
Commanded(s) == Hears(s) \/ Clears(s) \/ Relays(s) \/ Stops(s)

ForwardsNext ==
    \/ Listens \/ Closed \/ ListsNothing \/ Published
    \/ \E s \in Slots : Commanded(s) \/ GivesUp(s) \/ Fails(s)

--------------------------------------------------------------------------------
\* When the surroundings come to rest and the guest works again, the port does
\* too, whatever was in flight: its forward leads where the port is published,
\* or another process has the port (sync, reconcile, the completions of
\* startRelay).  And in a guest that runs a start after the stops that were sent
\* before it, a forward to a loopback address has its relay: it does not accept
\* and then reset.
ForwardsSettle ==
    <>[](/\ forward = published \/ foreign
         /\ orderly /\ forward \in Loopbacks => relay = forward)
================================================================================
