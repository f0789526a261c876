-------------------------------- MODULE Router --------------------------------
(***************************************************************************)
(* The application router of the desktop (app_router.rs): it accepts       *)
(* connections on a loopback port, reads the request head, finds the       *)
(* serving release's host port for the Host header in a table built from   *)
(* the durable records (deploy/src/route.rs), and pipes bytes both ways.   *)
(*                                                                         *)
(* Around it the records and the ports change: applications are            *)
(* registered, a cutover moves a serving port, containers start and stop,  *)
(* foreign processes bind ports, and time passes.  A tick is the forced    *)
(* refresh gap (250 ms), so the table lives for TTL = 4 ticks in the code. *)
(***************************************************************************)
EXTENDS Integers, FiniteSets

CONSTANTS Apps,     \* application ids
          HostOf,   \* hostname(app): the label is a part of the id, so two may clash
          AppPorts, \* host ports that applications are given
          OwnPort,  \* the port the router listens on
          Conns,    \* connections, each used once
          MaxOpen,  \* MAX_CONNECTIONS
          TTL,      \* TABLE_TTL in ticks
          MaxMoves  \* bound on the changes of the surroundings

ASSUME RouterAssumption == MaxOpen \in Nat /\ TTL \in Nat \ {0} /\ MaxMoves \in Nat

Hosts == { HostOf[a] : a \in Apps }
Gap == 1
NoPort == 0
NoConn == [pc |-> "none", host |-> "-", port |-> NoPort, tried |-> NoPort,
           lag |-> 0, blind |-> FALSE, reply |-> "none"]

VARIABLES records, \* [apps registered -> serving port or NoPort]
          bound,   \* who listens on each port: an application, "foreign" or "nobody"
          table,   \* State.table: its age in ticks and the routes; `blind`: the last read failed
          open,    \* State.open
          conn,    \* one record per connection
          right,   \* for each host and port, ticks since the records routed it there
          moves    \* changes of the surroundings so far

routerVars == <<records, bound, table, open, conn, right, moves>>

-----------------------------------------------------------------------------
(* The table, from the records.                                            *)

None == [kind |-> "none", port |-> NoPort]

(* A name that two applications claim is routed to neither; the port is    *)
(* filtered to the leased ranges and to the unprivileged ports.            *)
Routable(p) == p \in AppPorts /\ p >= 1024

RouteOf(r, h) ==
    LET claims == { a \in DOMAIN r : HostOf[a] = h }
    IN  IF claims = {} THEN None
        ELSE IF Cardinality(claims) > 1 THEN [kind |-> "conflict", port |-> NoPort]
        ELSE LET a == CHOOSE a \in claims : TRUE
             IN  IF Routable(r[a]) THEN [kind |-> "serving", port |-> r[a]]
                 ELSE [kind |-> "idle", port |-> NoPort]

TableOf(r) == [h \in Hosts |-> RouteOf(r, h)]

(* `resolve`: only exact hostnames have an entry. *)
Resolve(routes, h) == IF h \in Hosts THEN routes[h] ELSE None

(* (mutant) A forced refresh only: the table never expires by itself. *)
ExpiresForced(age, force) == force /\ age >= Gap
Expires(age, force) == age >= TTL \/ (force /\ age >= Gap)

(* `State.table(force)`: `ok` says whether the read succeeds, if there is one. *)
Looked(force, ok) ==
    IF ~Expires(table.age, force) THEN table
    ELSE [age |-> 0,
          routes |-> IF ok THEN TableOf(records) ELSE table.routes,
          blind |-> ~ok]

-----------------------------------------------------------------------------
(* The hosts and ports that the records pair at this moment. *)
Paired(r) == { hp \in Hosts \X AppPorts :
                 RouteOf(r, hp[1]) = [kind |-> "serving", port |-> hp[2]] }

(* At its start the router finds releases that serve, or are stopped.      *)
RouterInit ==
    /\ records \in [{ a \in Apps : \A b \in Apps : HostOf[b] = HostOf[a] => b = a }
                      -> AppPorts \union {NoPort}]
    /\ \A a, b \in DOMAIN records : a # b /\ records[a] = records[b] => records[a] = NoPort
    /\ bound \in [AppPorts \union {OwnPort} -> Apps \union {"router", "nobody"}]
    /\ \A p \in DOMAIN bound :
          bound[p] \in IF p = OwnPort THEN {"router"}
                       ELSE {"nobody"} \union { a \in DOMAIN records : records[a] = p }
    /\ \E ok \in BOOLEAN :   \* `refresh().unwrap_or_default()`
          table = [age |-> 0, blind |-> ~ok,
                   routes |-> IF ok THEN TableOf(records) ELSE [h \in Hosts |-> None]]
    /\ open = 0
    /\ conn = [c \in Conns |-> NoConn]
    /\ right = [h \in Hosts |-> [p \in AppPorts |-> IF <<h, p>> \in Paired(records) THEN 0 ELSE TTL]]
    /\ moves = 0

(* The accept loop adds first and compares what was there. *)
Accept(c) ==
    /\ conn[c].pc = "none"
    /\ IF open >= MaxOpen
       THEN /\ conn' = [conn EXCEPT ![c] = [@ EXCEPT !.pc = "over", !.reply = "503"]]
            /\ UNCHANGED open
       ELSE /\ conn' = [conn EXCEPT ![c].pc = "head"]
            /\ open' = open + 1
    /\ UNCHANGED <<records, bound, table, right, moves>>

(* The thread cannot be started: the slot is given back, the connection dropped. *)
NoThread(c) ==
    /\ conn[c].pc = "head"
    /\ conn' = [conn EXCEPT ![c] = [@ EXCEPT !.pc = "over", !.reply = "closed"]]
    /\ open' = open - 1
    /\ UNCHANGED <<records, bound, table, right, moves>>

(* Every return of `serve` ends the thread, which gives its slot back. *)
Over(c, why) ==
    /\ conn' = [conn EXCEPT ![c] = [@ EXCEPT !.pc = "over", !.reply = why]]
    /\ open' = open - 1

(* The head did not arrive in time, was too long or was cut off; or it     *)
(* names no host, or more than one.                                        *)
BadHead(c) ==
    /\ conn[c].pc = "head"
    /\ \E why \in {"closed", "400"} : Over(c, why)
    /\ UNCHANGED <<records, bound, table, right, moves>>

(* What the loop of `serve` does with the route of the host: an answer, or *)
(* a port to dial.                                                         *)
Reply(r) == CASE r.kind = "none" -> "404"
              [] r.kind = "conflict" -> "409"
              [] r.kind = "idle" -> "503"
              [] r.kind = "serving" /\ r.port = OwnPort -> "503"
              [] OTHER -> "dial"

Follow(c, h, t, tried) ==
    LET r == Resolve(t.routes, h)
    IN  IF Reply(r) # "dial" THEN Over(c, Reply(r))
        ELSE /\ conn' = [conn EXCEPT ![c] =
                   [@ EXCEPT !.pc = "dial", !.host = h, !.port = r.port,
                             !.tried = tried, !.lag = right[h][r.port],
                             !.blind = t.blind]]
             /\ UNCHANGED open

Request(c) ==
    /\ conn[c].pc = "head"
    /\ \E h \in Hosts \union {"elsewhere"}, ok \in BOOLEAN :
          /\ table' = Looked(FALSE, ok)
          /\ Follow(c, h, table', NoPort)
    /\ UNCHANGED <<records, bound, right, moves>>

(* Whoever listens on the port gets the connection: nothing in `connect`   *)
(* tells the release from another listener.                                *)
Dialled(c) ==
    /\ conn[c].pc = "dial"
    /\ bound[conn[c].port] # "nobody"
    /\ conn' = [conn EXCEPT ![c] = [@ EXCEPT !.pc = "piping",
                                             !.reply = bound[conn[c].port]]]
    /\ UNCHANGED <<records, bound, table, open, right, moves>>

(* Nobody listens, or the dial takes more than two seconds.  Once, the     *)
(* table is looked at again; the same port again is final.                 *)
Refused(c) ==
    /\ conn[c].pc = "dial"
    /\ IF conn[c].tried # NoPort
       THEN Over(c, "503") /\ UNCHANGED table
       ELSE \E ok \in BOOLEAN :
              /\ table' = Looked(TRUE, ok)
              /\ LET r == Resolve(table'.routes, conn[c].host)
                 IN  IF r.kind = "serving" /\ r.port = conn[c].port
                     THEN Over(c, "503")
                     ELSE Follow(c, conn[c].host, table', conn[c].port)
    /\ UNCHANGED <<records, bound, right, moves>>

(* Both copies end; there is no time limit on them. *)
Hangup(c) ==
    /\ conn[c].pc = "piping"
    /\ Over(c, conn[c].reply)
    /\ UNCHANGED <<records, bound, table, right, moves>>

-----------------------------------------------------------------------------
(* The surroundings, each in one step: what the deployment engine records  *)
(* (Engine and Releases have its inside), what the desktop stops, other    *)
(* processes that listen, and the clock.                                   *)

Leased(p) == \E a \in DOMAIN records : records[a] = p

Record(r) ==
    /\ moves < MaxMoves
    /\ records' = r
    /\ right' = [h \in Hosts |-> [p \in AppPorts |->
                   IF <<h, p>> \in Paired(records) \union Paired(r) THEN 0 ELSE right[h][p]]]
    /\ moves' = moves + 1
    /\ UNCHANGED <<table, open, conn>>

Register(a) ==
    /\ a \notin DOMAIN records
    /\ Record([b \in DOMAIN records \union {a} |-> IF b = a THEN NoPort ELSE records[b]])
    /\ UNCHANGED bound

(* A deployment starts its container on a port of its own and is recorded  *)
(* as serving; the replaced container is stopped first.                    *)
Cutover(a, p) ==
    /\ a \in DOMAIN records
    /\ ~Leased(p) /\ bound[p] = "nobody"
    /\ Record([records EXCEPT ![a] = p])
    /\ bound' = [q \in DOMAIN bound |-> IF q = p THEN a
                                        ELSE IF bound[q] = a THEN "nobody" ELSE bound[q]]

Stopped(a) ==
    /\ moves < MaxMoves
    /\ \E p \in AppPorts : bound[p] = a /\ bound' = [bound EXCEPT ![p] = "nobody"]
    /\ moves' = moves + 1
    /\ UNCHANGED <<records, table, open, conn, right>>

Foreign(p) ==
    /\ moves < MaxMoves
    /\ bound[p] = "nobody"
    /\ bound' = [bound EXCEPT ![p] = "foreign"]
    /\ moves' = moves + 1
    /\ UNCHANGED <<records, table, open, conn, right>>

Least(x, y) == IF x < y THEN x ELSE y

Tick ==
    /\ table' = [table EXCEPT !.age = Least(@ + 1, TTL)]
    /\ right' = [h \in Hosts |-> [p \in AppPorts |->
                   IF <<h, p>> \in Paired(records) THEN 0 ELSE Least(right[h][p] + 1, TTL)]]
    /\ <<table', right'>> # <<table, right>>
    /\ UNCHANGED <<records, bound, open, conn, moves>>

RouterNext ==
    \/ \E c \in Conns : Accept(c) \/ NoThread(c) \/ BadHead(c) \/ Request(c)
                        \/ Dialled(c) \/ Refused(c) \/ Hangup(c)
    \/ \E a \in Apps : Register(a) \/ Stopped(a) \/ \E p \in AppPorts : Cutover(a, p)
    \/ \E p \in AppPorts : Foreign(p)
    \/ Tick

-----------------------------------------------------------------------------
(* Properties.                                                             *)

(* A connection is forwarded to a port only if the records routed its host *)
(* there less than the table's lifetime before the route was taken - unless *)
(* the last attempt to read the records failed, after which the router     *)
(* keeps what it knew (State::table, serve).                               *)
RouteIsRecent ==
    \A c \in Conns : conn[c].pc \in {"dial", "piping"} /\ ~conn[c].blind
                       => conn[c].lag < TTL

=============================================================================
