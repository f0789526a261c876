----------------------------- MODULE DesktopProofs -----------------------------
(***************************************************************************)
(* Invariants of the desktop's parts and of the application router, for    *)
(* any number of shells, ids, calls, runtimes, applications and            *)
(* connections, and any lifetime of the router's table.                    *)
(***************************************************************************)
EXTENDS Desktop, ReleasesProofs, TLAPS

-----------------------------------------------------------------------------
(* The application router: the age of what it forwards by.                 *)

Owners == Apps \union {"router", "nobody", "foreign"}

KnownRoutes == [kind : {"none", "conflict", "idle"}, port : {NoPort}]
            \union [kind : {"serving"}, port : AppPorts]

ConnStates == [pc : {"none", "head", "dial", "piping", "over"},
               host : Hosts \union {"-", "elsewhere"},
               port : AppPorts \union {NoPort}, tried : AppPorts \union {NoPort},
               lag : Nat, blind : BOOLEAN,
               reply : Owners \union {"none", "closed", "400", "404", "409", "503"}]

RouterTyped ==
    /\ bound \in [AppPorts \union {OwnPort} -> Owners]
    /\ right \in [Hosts -> [AppPorts -> Nat]]
    /\ table \in [age : Nat, routes : [Hosts -> KnownRoutes], blind : BOOLEAN]
    /\ conn \in [Conns -> ConnStates]
    /\ \A c \in Conns : conn[c].pc \in {"dial", "piping"} => conn[c].port \in AppPorts

(* What the records say now is right now, and what a table says was right  *)
(* when it was read, unless that read failed.                              *)
RightNow == \A h \in Hosts, p \in AppPorts : <<h, p>> \in Paired(records) => right[h][p] = 0

NotOlder(t) ==
    ~t.blind => \A h \in Hosts : t.routes[h].kind = "serving" =>
                   right[h][t.routes[h].port] <= t.age

RouterInv == RouterTyped /\ RightNow /\ NotOlder(table) /\ RouteIsRecent

(* The entry of a host in a table just built from the records.             *)
LEMMA RouteTyped ==
  ASSUME NEW r, NEW h \in Hosts
  PROVE  /\ RouteOf(r, h) \in KnownRoutes
         /\ RouteOf(r, h).kind = "serving" => /\ RouteOf(r, h).port \in AppPorts
                                              /\ <<h, RouteOf(r, h).port>> \in Paired(r)
<1>1. RouteOf(r, h) \in KnownRoutes
  BY DEF RouteOf, KnownRoutes, Routable, None, NoPort
<1>2. ASSUME RouteOf(r, h).kind = "serving"
      PROVE  /\ RouteOf(r, h).port \in AppPorts
             /\ RouteOf(r, h) = [kind |-> "serving", port |-> RouteOf(r, h).port]
  BY <1>1, <1>2 DEF KnownRoutes
<1> QED
  BY <1>1, <1>2 DEF Paired

(* The router's first read, or the empty table of a first read that fails. *)
LEMMA RouterStarts == RouterInit => RouterInv
<1> SUFFICES ASSUME RouterInit PROVE RouterInv
  OBVIOUS
<1>1. right \in [Hosts -> [AppPorts -> Nat]] /\ RightNow
  BY RouterAssumption DEF RouterInit, RightNow
<1>2. conn \in [Conns -> ConnStates] /\ \A c \in Conns : conn[c].pc = "none"
  <2>1. NoConn \in ConnStates
    BY DEF NoConn, ConnStates
  <2> QED
    BY <2>1 DEF RouterInit, NoConn
<1>3. bound \in [AppPorts \union {OwnPort} -> Owners]
  BY DEF RouterInit, Owners
<1>4. PICK ok \in BOOLEAN :
        table = [age |-> 0, blind |-> ~ok,
                 routes |-> IF ok THEN TableOf(records) ELSE [h \in Hosts |-> None]]
  BY DEF RouterInit
<1>5. TableOf(records) \in [Hosts -> KnownRoutes] /\ [h \in Hosts |-> None] \in [Hosts -> KnownRoutes]
  BY RouteTyped DEF TableOf, None, KnownRoutes
<1>6. table \in [age : Nat, routes : [Hosts -> KnownRoutes], blind : BOOLEAN]
  BY <1>4, <1>5
<1>7. NotOlder(table)
  <2>1. ASSUME ok, NEW h \in Hosts, TableOf(records)[h].kind = "serving"
        PROVE  right[h][TableOf(records)[h].port] = 0
    BY <1>1, <2>1, RouteTyped DEF TableOf, RightNow
  <2>2. ASSUME ~table.blind, NEW h \in Hosts, table.routes[h].kind = "serving"
        PROVE  right[h][table.routes[h].port] <= table.age
    <3>1. ok /\ table.routes = TableOf(records) /\ table.age = 0
      BY <1>4, <2>2
    <3>2. right[h][table.routes[h].port] = 0
      BY <2>1, <2>2, <3>1
    <3> QED
      BY <3>1, <3>2
  <2> QED
    BY <2>2 DEF NotOlder
<1> QED
  BY <1>1, <1>2, <1>3, <1>6, <1>7 DEF RouterInv, RouterTyped, RouteIsRecent

(* What a look at the table gives is no older than its age, which is less  *)
(* than its lifetime.                                                      *)
LEMMA LookedIsRecent ==
  ASSUME RouterInv, NEW force \in BOOLEAN, NEW ok \in BOOLEAN
  PROVE  /\ Looked(force, ok) \in [age : Nat, routes : [Hosts -> KnownRoutes], blind : BOOLEAN]
         /\ NotOlder(Looked(force, ok))
         /\ Looked(force, ok).age < TTL
<1>1. CASE ~Expires(table.age, force)
  <2>1. table.age \in Nat
    BY DEF RouterInv, RouterTyped
  <2>2. table.age < TTL
    BY <1>1, <2>1, RouterAssumption DEF Expires
  <2> QED
    BY <1>1, <2>2 DEF Looked, RouterInv, RouterTyped
<1>2. CASE Expires(table.age, force)
  <2> DEFINE t == [age |-> 0, routes |-> IF ok THEN TableOf(records) ELSE table.routes,
                   blind |-> ~ok]
  <2>1. Looked(force, ok) = t
    BY <1>2 DEF Looked
  <2>2. TableOf(records) \in [Hosts -> KnownRoutes] /\ table.routes \in [Hosts -> KnownRoutes]
    BY RouteTyped DEF TableOf, RouterInv, RouterTyped
  <2>3. t \in [age : Nat, routes : [Hosts -> KnownRoutes], blind : BOOLEAN]
    BY <2>2
  <2>4. ASSUME ok, NEW h \in Hosts, TableOf(records)[h].kind = "serving"
        PROVE  right[h][TableOf(records)[h].port] = 0
    BY <2>4, RouteTyped DEF TableOf, RouterInv, RightNow
  <2>5. NotOlder(t)
    <3>1. ASSUME ~t.blind, NEW h \in Hosts, t.routes[h].kind = "serving"
          PROVE  right[h][t.routes[h].port] <= t.age
      <4>1. ok /\ t.routes = TableOf(records) /\ t.age = 0
        BY <3>1
      <4>2. right[h][t.routes[h].port] = 0
        BY <2>4, <3>1, <4>1
      <4> QED
        BY <4>1, <4>2
    <3> HIDE DEF t
    <3> QED
      BY <3>1 DEF NotOlder
  <2>6. t.age < TTL
    BY RouterAssumption
  <2> QED
    BY <2>1, <2>3, <2>5, <2>6
<1> QED
  BY <1>1, <1>2

(* A connection moves to a state that is as recent.                        *)
LEMMA ConnMoves ==
  ASSUME RouterInv, NEW c \in Conns, NEW k \in ConnStates, conn' = [conn EXCEPT ![c] = k],
         k.pc \in {"dial", "piping"} => k.port \in AppPorts /\ (~k.blind => k.lag < TTL)
  PROVE  /\ conn' \in [Conns -> ConnStates] /\ RouteIsRecent'
         /\ \A d \in Conns : conn'[d].pc \in {"dial", "piping"} => conn'[d].port \in AppPorts
  BY DEF RouterInv, RouterTyped, RouteIsRecent

(* In particular, a connection that is over is forwarded nowhere.          *)
LEMMA OverMoves ==
  ASSUME RouterInv, NEW c \in Conns,
         NEW why \in Owners \union {"none", "closed", "400", "404", "409", "503"},
         conn' = [conn EXCEPT ![c] = [conn[c] EXCEPT !.pc = "over", !.reply = why]]
  PROVE  /\ conn' \in [Conns -> ConnStates] /\ RouteIsRecent'
         /\ \A d \in Conns : conn'[d].pc \in {"dial", "piping"} => conn'[d].port \in AppPorts
<1> DEFINE k == [conn[c] EXCEPT !.pc = "over", !.reply = why]
<1>1. conn[c] \in ConnStates
  BY DEF RouterInv, RouterTyped
<1>2. k \in ConnStates /\ k.pc = "over"
  BY <1>1 DEF ConnStates
<1> HIDE DEF k
<1>3. conn' = [conn EXCEPT ![c] = k]
  BY DEF k
<1> QED
  BY <1>2, <1>3, ConnMoves

(* The route of a look that is recent, when it is followed.                *)
LEMMA FollowMoves ==
  ASSUME RouterInv, NEW c \in Conns, NEW h \in Hosts \union {"-", "elsewhere"},
         NEW t \in [age : Nat, routes : [Hosts -> KnownRoutes], blind : BOOLEAN],
         NotOlder(t), t.age < TTL, NEW tried \in AppPorts \union {NoPort},
         Follow(c, h, t, tried)
  PROVE  /\ conn' \in [Conns -> ConnStates] /\ RouteIsRecent'
         /\ \A d \in Conns : conn'[d].pc \in {"dial", "piping"} => conn'[d].port \in AppPorts
<1> DEFINE r == Resolve(t.routes, h)
<1>1. r \in KnownRoutes /\ (r.kind = "serving" => h \in Hosts /\ r = t.routes[h])
  BY DEF Resolve, KnownRoutes, None
<1>2. CASE Reply(r) # "dial"
  <2>1. Reply(r) \in {"none", "closed", "400", "404", "409", "503"}
    BY <1>1, <1>2 DEF Reply, KnownRoutes
  <2>2. conn' = [conn EXCEPT ![c] = [conn[c] EXCEPT !.pc = "over", !.reply = Reply(r)]]
    BY <1>2 DEF Follow, Over
  <2> HIDE DEF r
  <2> QED
    BY <2>1, <2>2, OverMoves
<1>3. CASE Reply(r) = "dial"
  <2> DEFINE k == [conn[c] EXCEPT !.pc = "dial", !.host = h, !.port = r.port, !.tried = tried,
                                  !.lag = right[h][r.port], !.blind = t.blind]
  <2>1. h \in Hosts /\ r = t.routes[h] /\ r.kind = "serving" /\ r.port \in AppPorts
    BY <1>1, <1>3 DEF Reply, KnownRoutes
  <2>2. right[h][r.port] \in Nat
    BY <2>1 DEF RouterInv, RouterTyped
  <2>3. ~t.blind => right[h][r.port] < TTL
    <3>1. t.age \in Nat
      OBVIOUS
    <3>2. ~t.blind => right[h][r.port] <= t.age
      BY <2>1 DEF NotOlder
    <3> QED
      BY <2>2, <3>1, <3>2, RouterAssumption
  <2>4. conn' = [conn EXCEPT ![c] = k]
    BY <1>3 DEF Follow
  <2>5. conn[c] \in ConnStates /\ t.blind \in BOOLEAN
    BY DEF RouterInv, RouterTyped
  <2> HIDE DEF r
  <2>6. /\ k \in ConnStates /\ k.pc = "dial" /\ k.port = r.port
        /\ k.lag = right[h][r.port] /\ k.blind = t.blind
    BY <2>1, <2>2, <2>5 DEF ConnStates
  <2> HIDE DEF k
  <2> QED
    BY <2>1, <2>3, <2>4, <2>6, ConnMoves
<1> QED
  BY <1>2, <1>3

(* Of the surroundings, only the records and the clock matter.             *)
LEMMA RecordKeeps ==
  ASSUME RouterInv, NEW r, Record(r)
  PROVE  right' \in [Hosts -> [AppPorts -> Nat]] /\ RightNow' /\ NotOlder(table)'
         /\ UNCHANGED <<table, conn>>
<1>1. /\ records' = r /\ UNCHANGED <<table, conn>>
      /\ right' = [h \in Hosts |-> [p \in AppPorts |->
                     IF <<h, p>> \in Paired(records) \union Paired(r) THEN 0 ELSE right[h][p]]]
  BY DEF Record
<1>2. right' \in [Hosts -> [AppPorts -> Nat]]
  BY <1>1 DEF RouterInv, RouterTyped
<1>3. RightNow'
  <2>1. Paired(records)' = Paired(r)
    BY <1>1 DEF Paired
  <2> QED
    BY <1>1, <2>1 DEF RightNow
<1>4. NotOlder(table)'
  <2>1. ASSUME ~table.blind, NEW h \in Hosts, table.routes[h].kind = "serving"
        PROVE  right'[h][table.routes[h].port] <= table.age
    <3>1. table.routes[h].port \in AppPorts /\ table.age \in Nat
      BY <2>1 DEF RouterInv, RouterTyped, KnownRoutes
    <3>2. right'[h][table.routes[h].port] \in {0, right[h][table.routes[h].port]}
      BY <1>1, <3>1
    <3>3. right[h][table.routes[h].port] <= table.age
      BY <2>1 DEF RouterInv, NotOlder
    <3> QED
      BY <3>1, <3>2, <3>3
  <2> QED
    BY <1>1, <2>1 DEF NotOlder
<1> QED
  BY <1>1, <1>2, <1>3, <1>4

(* Time makes the table and the routes it was built from older alike.      *)
LEMMA TickKeeps ==
  ASSUME RouterInv, Tick
  PROVE  RouterInv'
<1>1. /\ table' = [table EXCEPT !.age = Least(table.age + 1, TTL)]
      /\ right' = [h \in Hosts |-> [p \in AppPorts |->
                     IF <<h, p>> \in Paired(records) THEN 0 ELSE Least(right[h][p] + 1, TTL)]]
      /\ UNCHANGED <<records, bound, conn>>
  BY DEF Tick
<1>2. \A x \in Nat : Least(x + 1, TTL) \in Nat
  BY RouterAssumption DEF Least
<1>3. \A x, y \in Nat : x <= y => Least(x + 1, TTL) <= Least(y + 1, TTL)
  BY RouterAssumption DEF Least
<1>4. right' \in [Hosts -> [AppPorts -> Nat]]
  BY <1>1, <1>2 DEF RouterInv, RouterTyped
<1>5. /\ table' \in [age : Nat, routes : [Hosts -> KnownRoutes], blind : BOOLEAN]
      /\ table'.age = Least(table.age + 1, TTL) /\ table'.routes = table.routes
      /\ table'.blind = table.blind /\ table.age \in Nat
  <2>1. table \in [age : Nat, routes : [Hosts -> KnownRoutes], blind : BOOLEAN] /\ table.age \in Nat
    BY DEF RouterInv, RouterTyped
  <2>2. Least(table.age + 1, TTL) \in Nat
    BY <1>2, <2>1
  <2> QED
    BY <1>1, <2>1, <2>2
<1>6. RightNow'
  <2>1. Paired(records)' = Paired(records)
    BY <1>1 DEF Paired
  <2> QED
    BY <1>1, <2>1 DEF RightNow
<1>7. NotOlder(table)'
  <2>1. ASSUME ~table.blind, NEW h \in Hosts, table.routes[h].kind = "serving"
        PROVE  right'[h][table.routes[h].port] <= table'.age
    <3> DEFINE p == table.routes[h].port
    <3>1. p \in AppPorts /\ right[h][p] \in Nat
      BY <2>1 DEF RouterInv, RouterTyped, KnownRoutes
    <3>2. right[h][p] <= table.age
      BY <2>1 DEF RouterInv, NotOlder
    <3> HIDE DEF p
    <3>3. right'[h][p] = 0 \/ right'[h][p] = Least(right[h][p] + 1, TTL)
      BY <1>1, <3>1
    <3>4. Least(right[h][p] + 1, TTL) <= table'.age /\ table'.age \in Nat
      BY <1>2, <1>3, <1>5, <3>1, <3>2
    <3>5. right'[h][p] <= table'.age
      BY <3>3, <3>4
    <3> QED
      BY <3>5 DEF p
  <2> QED
    BY <1>5, <2>1 DEF NotOlder
<1> QED
  BY <1>1, <1>4, <1>5, <1>6, <1>7 DEF RouterInv, RouterTyped, RouteIsRecent

(* Every step of the router and of its surroundings keeps the invariant.   *)
LEMMA RouterKeeps ==
  ASSUME RouterInv, [RouterNext]_routerVars
  PROVE  RouterInv'
<1> DEFINE ConnsKeep ==
      /\ conn' \in [Conns -> ConnStates] /\ RouteIsRecent'
      /\ \A d \in Conns : conn'[d].pc \in {"dial", "piping"} => conn'[d].port \in AppPorts
<1>1. ASSUME ConnsKeep, UNCHANGED <<records, bound, right>>,
             table' \in [age : Nat, routes : [Hosts -> KnownRoutes], blind : BOOLEAN],
             NotOlder(table')
      PROVE  RouterInv'
  <2>1. RightNow'
    BY <1>1 DEF RouterInv, RightNow, Paired
  <2>2. NotOlder(table)'
    BY <1>1 DEF NotOlder
  <2> QED
    BY <1>1, <2>1, <2>2 DEF RouterInv, RouterTyped
<1>2. ASSUME ConnsKeep, UNCHANGED <<records, bound, right, table>>
      PROVE  RouterInv'
  <2> HIDE DEF ConnsKeep
  <2> QED
    BY <1>1, <1>2 DEF RouterInv, RouterTyped, NotOlder
<1>3. ASSUME UNCHANGED <<conn, table>>, bound' \in [AppPorts \union {OwnPort} -> Owners],
             right' \in [Hosts -> [AppPorts -> Nat]], RightNow', NotOlder(table)'
      PROVE  RouterInv'
  BY <1>3 DEF RouterInv, RouterTyped, RouteIsRecent
<1>4. ASSUME NEW c \in Conns PROVE conn[c] \in ConnStates
  BY DEF RouterInv, RouterTyped
<1>5. ASSUME NEW c \in Conns, Accept(c) PROVE RouterInv'
  <2>1. CASE open >= MaxOpen
    <3>1. conn' = [conn EXCEPT ![c] = [conn[c] EXCEPT !.pc = "over", !.reply = "503"]]
      BY <1>5, <2>1 DEF Accept
    <3>2. ConnsKeep
      BY <3>1, OverMoves
    <3> QED
      BY <1>2, <1>5, <3>2 DEF Accept
  <2>2. CASE ~(open >= MaxOpen)
    <3> DEFINE k == [conn[c] EXCEPT !.pc = "head"]
    <3>1. conn' = [conn EXCEPT ![c] = k]
      BY <1>5, <2>2 DEF Accept
    <3>2. k \in ConnStates /\ k.pc = "head"
      BY <1>4 DEF ConnStates
    <3> HIDE DEF k
    <3>3. ConnsKeep
      BY <3>1, <3>2, ConnMoves
    <3> QED
      BY <1>2, <1>5, <3>3 DEF Accept
  <2> QED
    BY <2>1, <2>2
<1>6. ASSUME NEW c \in Conns, NoThread(c) \/ BadHead(c) PROVE RouterInv'
  <2>1. PICK why \in {"closed", "400"} :
          conn' = [conn EXCEPT ![c] = [conn[c] EXCEPT !.pc = "over", !.reply = why]]
    BY <1>6 DEF NoThread, BadHead, Over
  <2>2. ConnsKeep
    BY <2>1, OverMoves
  <2> QED
    BY <1>2, <1>6, <2>2 DEF NoThread, BadHead
<1>7. ASSUME NEW c \in Conns, Request(c) PROVE RouterInv'
  <2>1. PICK h \in Hosts \union {"elsewhere"}, ok \in BOOLEAN :
          table' = Looked(FALSE, ok) /\ Follow(c, h, table', NoPort)
    BY <1>7 DEF Request
  <2>2. /\ table' \in [age : Nat, routes : [Hosts -> KnownRoutes], blind : BOOLEAN]
        /\ NotOlder(table') /\ table'.age < TTL
    BY <2>1, LookedIsRecent
  <2>3. ConnsKeep
    BY <2>1, <2>2, FollowMoves
  <2> QED
    BY <1>1, <1>7, <2>2, <2>3 DEF Request
<1>8. ASSUME NEW c \in Conns, Dialled(c) PROVE RouterInv'
  <2> DEFINE k == [conn[c] EXCEPT !.pc = "piping", !.reply = bound[conn[c].port]]
  <2>1. conn[c].pc = "dial" /\ conn' = [conn EXCEPT ![c] = k]
    BY <1>8 DEF Dialled
  <2>2. conn[c].port \in AppPorts /\ bound[conn[c].port] \in Owners
        /\ (~conn[c].blind => conn[c].lag < TTL)
    BY <2>1 DEF RouterInv, RouterTyped, RouteIsRecent
  <2>3. /\ k \in ConnStates /\ k.port = conn[c].port /\ k.blind = conn[c].blind
        /\ k.lag = conn[c].lag
    BY <1>4, <2>2 DEF ConnStates
  <2> HIDE DEF k
  <2>4. ConnsKeep
    BY <2>1, <2>2, <2>3, ConnMoves
  <2> QED
    BY <1>2, <1>8, <2>4 DEF Dialled
<1>9. ASSUME NEW c \in Conns, Refused(c) PROVE RouterInv'
  <2>1. ASSUME Over(c, "503") PROVE ConnsKeep
    BY <2>1, OverMoves DEF Over
  <2>2. CASE conn[c].tried # NoPort
    BY <1>2, <1>9, <2>1, <2>2 DEF Refused
  <2>3. CASE conn[c].tried = NoPort
    <3>1. PICK ok \in BOOLEAN :
            /\ table' = Looked(TRUE, ok)
            /\ Over(c, "503") \/ Follow(c, conn[c].host, table', conn[c].port)
      BY <1>9, <2>3 DEF Refused
    <3>2. /\ table' \in [age : Nat, routes : [Hosts -> KnownRoutes], blind : BOOLEAN]
          /\ NotOlder(table') /\ table'.age < TTL
      BY <3>1, LookedIsRecent
    <3>3. conn[c].host \in Hosts \union {"-", "elsewhere"}
          /\ conn[c].port \in AppPorts \union {NoPort}
      BY <1>4 DEF ConnStates
    <3>4. ASSUME Follow(c, conn[c].host, table', conn[c].port) PROVE ConnsKeep
      BY <3>2, <3>3, <3>4, FollowMoves
    <3>5. ConnsKeep
      BY <2>1, <3>1, <3>4
    <3> QED
      BY <1>1, <1>9, <3>2, <3>5 DEF Refused
  <2> QED
    BY <2>2, <2>3
<1>10. ASSUME NEW c \in Conns, Hangup(c) PROVE RouterInv'
  <2>1. conn[c].reply \in Owners \union {"none", "closed", "400", "404", "409", "503"}
    BY <1>4 DEF ConnStates
  <2>2. ConnsKeep
    BY <1>10, <2>1, OverMoves DEF Hangup, Over
  <2> QED
    BY <1>2, <1>10, <2>2 DEF Hangup
<1>11. ASSUME NEW a \in Apps, Register(a) PROVE RouterInv'
  <2>1. /\ right' \in [Hosts -> [AppPorts -> Nat]] /\ RightNow' /\ NotOlder(table)'
        /\ UNCHANGED <<table, conn>>
    BY <1>11, RecordKeeps DEF Register
  <2> QED
    BY <1>3, <1>11, <2>1 DEF Register, RouterInv, RouterTyped
<1>12. ASSUME NEW a \in Apps, NEW p \in AppPorts, Cutover(a, p) PROVE RouterInv'
  <2>1. /\ right' \in [Hosts -> [AppPorts -> Nat]] /\ RightNow' /\ NotOlder(table)'
        /\ UNCHANGED <<table, conn>>
    BY <1>12, RecordKeeps DEF Cutover
  <2>2. bound' \in [AppPorts \union {OwnPort} -> Owners]
    BY <1>12 DEF Cutover, Owners, RouterInv, RouterTyped
  <2> QED
    BY <1>3, <2>1, <2>2
<1>13. ASSUME NEW a \in Apps, Stopped(a) PROVE RouterInv'
  <2>1. bound' \in [AppPorts \union {OwnPort} -> Owners]
    BY <1>13 DEF Stopped, Owners, RouterInv, RouterTyped
  <2>2. UNCHANGED <<conn, table, right, records>>
    BY <1>13 DEF Stopped
  <2> QED
    BY <1>3, <2>1, <2>2 DEF RouterInv, RouterTyped, RightNow, NotOlder, Paired
<1>14. ASSUME NEW p \in AppPorts, Foreign(p) PROVE RouterInv'
  <2>1. bound' \in [AppPorts \union {OwnPort} -> Owners]
    BY <1>14 DEF Foreign, Owners, RouterInv, RouterTyped
  <2>2. UNCHANGED <<conn, table, right, records>>
    BY <1>14 DEF Foreign
  <2> QED
    BY <1>3, <2>1, <2>2 DEF RouterInv, RouterTyped, RightNow, NotOlder, Paired
<1>15. CASE UNCHANGED routerVars
  BY <1>15 DEF routerVars, RouterInv, RouterTyped, RouteIsRecent, RightNow, NotOlder, Paired
<1> QED
  BY <1>5, <1>6, <1>7, <1>8, <1>9, <1>10, <1>11, <1>12, <1>13, <1>14, <1>15, TickKeeps
     DEF RouterNext

-----------------------------------------------------------------------------
(* Shells.                                                                 *)

ShellTyped ==
    /\ pids \in [Pids -> Shells \union {"free", "other"}]
    /\ fds \in [Fds -> Shells \union {"free", "other"}]
    /\ proc \in [Shells -> {"none", "running", "ignores", "hungup", "zombie", "reaped"}]
    /\ cell \in [Shells -> Pids \union {Nil}]
    /\ DOMAIN sessions \subseteq Shells /\ \A s \in DOMAIN sessions : sessions[s] \in Fds
    /\ reader \in [Shells -> {"none", "starting", "reading", "ended", "reaping", "closing",
                              "done"}]
    /\ writer \in {NoWriter} \union [shell : Shells, fd : Fds]

(* The inductive form: a registered session has a reader that has not      *)
(* unregistered it, and that cannot get past a write in progress.          *)
ShellInv ==
    /\ ShellTyped /\ NoStrayReference
    /\ \A s \in DOMAIN sessions : reader[s] \in {"starting", "reading", "ended"}
    /\ ~Unlocked => reader[writer.shell] \in {"reading", "ended"}

(* At the start there is no shell.                                         *)
LEMMA ShellStarts == ShellInit => ShellInv
  BY ShellAssumption
  DEF ShellInit, ShellInv, ShellTyped, NoStrayReference, Unlocked, NoWriter, Nil

(* A reaped child's id is freed and forgotten in one step.                 *)
LEMMA ReapedForgets ==
  ASSUME ShellInv, NEW s \in Shells, Reaped(s)
  PROVE  /\ pids' \in [Pids -> Shells \union {"free", "other"}]
         /\ proc' \in [Shells -> {"none", "running", "ignores", "hungup", "zombie", "reaped"}]
         /\ cell' \in [Shells -> Pids \union {Nil}]
         /\ \A t \in Shells : cell'[t] # Nil => pids'[cell'[t]] = t
<1>1. /\ pids' \in [Pids -> Shells \union {"free", "other"}]
      /\ proc' \in [Shells -> {"none", "running", "ignores", "hungup", "zombie", "reaped"}]
      /\ cell' \in [Shells -> Pids \union {Nil}]
  BY DEF ShellInv, ShellTyped, Reaped
<1>2. ASSUME NEW t \in Shells, cell'[t] # Nil
      PROVE  pids'[cell'[t]] = t
  <2>1. t # s /\ cell'[t] = cell[t]
    BY <1>2 DEF ShellInv, ShellTyped, Reaped
  <2>2. cell[t] \in Pids /\ pids[cell[t]] = t
    BY <1>2, <2>1 DEF ShellInv, ShellTyped, NoStrayReference
  <2>3. cell[t] # cell[s]
    BY <2>1, <2>2, <1>2 DEF ShellInv, NoStrayReference
  <2> QED
    BY <2>1, <2>2, <2>3 DEF ShellInv, ShellTyped, Reaped
<1> QED
  BY <1>1, <1>2

(* Closing a shell's descriptor leaves every other shell's alone.          *)
LEMMA FreedSpares ==
  ASSUME ShellInv, NEW s \in Shells, fds' = Freed(s)
  PROVE  /\ fds' \in [Fds -> Shells \union {"free", "other"}]
         /\ \A t \in DOMAIN sessions \ {s} : fds'[sessions[t]] = t
         /\ ~Unlocked /\ writer.shell # s => fds'[writer.fd] = writer.shell
<1>1. fds' = [f \in Fds |-> IF fds[f] = s THEN "free" ELSE fds[f]]
  BY DEF Freed
<1>2. writer.fd \in Fds \/ Unlocked
  BY DEF ShellInv, ShellTyped, Unlocked
<1>3. fds' \in [Fds -> Shells \union {"free", "other"}]
  BY <1>1 DEF ShellInv, ShellTyped
<1>4. ASSUME NEW t \in DOMAIN sessions \ {s}
      PROVE  fds'[sessions[t]] = t
  <2>1. sessions[t] \in Fds /\ fds[sessions[t]] = t
    BY DEF ShellInv, ShellTyped, NoStrayReference
  <2> QED
    BY <1>1, <2>1
<1>5. ASSUME ~Unlocked, writer.shell # s
      PROVE  fds'[writer.fd] = writer.shell
  <2>1. writer.fd \in Fds /\ fds[writer.fd] = writer.shell
    BY <1>2, <1>5 DEF ShellInv, NoStrayReference
  <2> QED
    BY <1>1, <1>5, <2>1
<1> QED
  BY <1>3, <1>4, <1>5

(* Every step of a shell, of its reader and of the window keeps it.        *)
LEMMA ShellKeeps ==
  ASSUME ShellInv, [ShellNext]_shellVars
  PROVE  ShellInv'
<1>1. ASSUME NEW s \in Shells, NEW p \in Pids, NEW f \in Fds, Open(s, p, f)
      PROVE  ShellInv'
  <2>1. ShellTyped'
    BY <1>1 DEF ShellInv, ShellTyped, Open
  <2>2. NoStrayReference'
    <3>1. \A t \in Shells : cell'[t] # Nil => pids'[cell'[t]] = t
      BY <1>1, ShellAssumption DEF ShellInv, ShellTyped, NoStrayReference, Open
    <3>2. \A t \in DOMAIN sessions' : fds'[sessions'[t]] = t
      BY <1>1, ShellAssumption DEF ShellInv, ShellTyped, NoStrayReference, Open
    <3>3. (~Unlocked)' => fds'[writer'.fd] = writer'.shell
      BY <1>1 DEF Open, Unlocked
    <3> QED
      BY <3>1, <3>2, <3>3 DEF NoStrayReference
  <2> QED
    BY <2>1, <2>2, <1>1 DEF ShellInv, ShellTyped, Open, Unlocked
<1>2. ASSUME NEW s \in Shells, ReaderStarts(s) \/ ReaderEnds(s) \/ AskClose(s)
      PROVE  ShellInv'
  BY <1>2 DEF ShellInv, ShellTyped, NoStrayReference, Unlocked, ReaderStarts, ReaderEnds, AskClose
<1>3. ASSUME NEW s \in Shells, NoReader(s)
      PROVE  ShellInv'
  <2>1. CASE s \in DOMAIN sessions
    <3>1. sessions' = Unregister(s) /\ Reaped(s) /\ fds' = Freed(s)
      BY <1>3, <2>1 DEF NoReader
    <3>2. writer' = writer /\ Unlocked /\ reader' = [reader EXCEPT ![s] = "none"]
      BY <1>3 DEF NoReader
    <3> HIDE DEF Nil
    <3> QED
      BY <3>1, <3>2, ReapedForgets, FreedSpares
      DEF ShellInv, ShellTyped, NoStrayReference, Unlocked, Unregister
  <2>2. CASE s \notin DOMAIN sessions
    BY <1>3, <2>2 DEF NoReader, ShellInv, ShellTyped, NoStrayReference, Unlocked
  <2> QED
    BY <2>1, <2>2
<1>4. ASSUME NEW s \in Shells, ReaderUnregisters(s)
      PROVE  ShellInv'
  BY <1>4 DEF ShellInv, ShellTyped, NoStrayReference, Unlocked, ReaderUnregisters, Unregister
<1>5. ASSUME NEW s \in Shells, ReaderReaps(s)
      PROVE  ShellInv'
  <2>1. Reaped(s) /\ reader[s] = "reaping" /\ reader' = [reader EXCEPT ![s] = "closing"]
        /\ UNCHANGED <<fds, sessions, writer>>
    BY <1>5 DEF ReaderReaps
  <2> QED
    BY <2>1, ReapedForgets DEF ShellInv, ShellTyped, NoStrayReference, Unlocked
<1>6. ASSUME NEW s \in Shells, ReaderCloses(s)
      PROVE  ShellInv'
  <2>1. fds' = Freed(s) /\ reader[s] = "closing" /\ reader' = [reader EXCEPT ![s] = "done"]
        /\ UNCHANGED <<pids, proc, cell, sessions, writer>>
    BY <1>6 DEF ReaderCloses
  <2>2. s \notin DOMAIN sessions /\ (~Unlocked => writer.shell # s)
    BY <2>1 DEF ShellInv
  <2> QED
    BY <2>1, <2>2, FreedSpares DEF ShellInv, ShellTyped, NoStrayReference, Unlocked
<1>7. ASSUME NEW s \in Shells, Write(s)
      PROVE  ShellInv'
  <2>1. /\ s \in DOMAIN sessions /\ reader[s] # "starting"
        /\ writer' = [shell |-> s, fd |-> sessions[s]]
        /\ UNCHANGED <<pids, fds, proc, cell, sessions, reader>>
    BY <1>7 DEF Write
  <2>2. writer'.shell = s /\ writer'.fd = sessions[s] /\ writer' \in [shell : Shells, fd : Fds]
    BY <2>1 DEF ShellInv, ShellTyped
  <2> QED
    BY <2>1, <2>2 DEF ShellInv, ShellTyped, NoStrayReference, Unlocked
<1>8. ASSUME NEW s \in Shells, Close(s)
      PROVE  ShellInv'
  BY <1>8 DEF ShellInv, ShellTyped, NoStrayReference, Unlocked, Close, Unregister
<1>9. ASSUME NEW s \in Shells, Terminate(s) \/ Kill(s) \/ ChildChanges(s)
      PROVE  ShellInv'
  <2>1. proc' \in [Shells -> {"none", "running", "ignores", "hungup", "zombie", "reaped"}]
    BY <1>9 DEF ShellInv, ShellTyped, Terminate, Kill, ChildChanges, Killed
  <2>2. UNCHANGED <<pids, fds, cell, sessions, reader, writer>>
    BY <1>9 DEF Terminate, Kill, ChildChanges
  <2> QED
    BY <2>1, <2>2 DEF ShellInv, ShellTyped, NoStrayReference, Unlocked
<1>10. ASSUME Written
       PROVE  ShellInv'
  BY <1>10 DEF ShellInv, ShellTyped, NoStrayReference, Unlocked, Written
<1>11. ASSUME CloseAll
       PROVE  ShellInv'
  <2>1. proc' \in [Shells -> {"none", "running", "ignores", "hungup", "zombie", "reaped"}]
    BY <1>11 DEF ShellInv, ShellTyped, CloseAll, Killed
  <2>2. DOMAIN sessions' = {}
    BY <1>11 DEF CloseAll
  <2>3. UNCHANGED <<pids, fds, cell, reader, writer>>
    BY <1>11 DEF CloseAll
  <2> QED
    BY <2>1, <2>2, <2>3 DEF ShellInv, ShellTyped, NoStrayReference, Unlocked
<1>12. ASSUME Reuse
       PROVE  ShellInv'
  <2>1. CASE \E p \in Pids : pids[p] = "free" /\ pids' = [pids EXCEPT ![p] = "other"]
                             /\ UNCHANGED fds
    BY <1>12, <2>1, ShellAssumption
    DEF ShellInv, ShellTyped, NoStrayReference, Unlocked, Reuse
  <2>2. CASE \E f \in Fds : fds[f] = "free" /\ fds' = [fds EXCEPT ![f] = "other"]
                            /\ UNCHANGED pids
    <3>1. PICK f \in Fds : fds[f] = "free" /\ fds' = [fds EXCEPT ![f] = "other"]
                           /\ UNCHANGED pids
      BY <2>2
    <3>2. UNCHANGED <<proc, cell, sessions, reader, writer>>
      BY <1>12 DEF Reuse
    <3>3. \A t \in DOMAIN sessions : sessions[t] # f
      BY <3>1, ShellAssumption DEF ShellInv, ShellTyped, NoStrayReference
    <3>4. ~Unlocked => writer.fd # f
      BY <3>1, ShellAssumption DEF ShellInv, ShellTyped, NoStrayReference, Unlocked
    <3> QED
      BY <3>1, <3>2, <3>3, <3>4 DEF ShellInv, ShellTyped, NoStrayReference, Unlocked
  <2> QED
    BY <1>12, <2>1, <2>2 DEF Reuse
<1>13. ASSUME UNCHANGED shellVars
       PROVE  ShellInv'
  BY <1>13 DEF ShellInv, ShellTyped, NoStrayReference, Unlocked, shellVars
<1> QED
  BY <1>1, <1>2, <1>3, <1>4, <1>5, <1>6, <1>7, <1>8, <1>9, <1>10, <1>11, <1>12, <1>13
  DEF ShellNext
-----------------------------------------------------------------------------
(* Background workers.                                                     *)

ThreadStates == [pc : {"none", "sleep", "read", "publish", "first", "starting", "poll", "ended"},
                 flag : BOOLEAN, wake : BOOLEAN, polls : Nat]

CallStates == [op : {"start", "stop"},
               pc : {"todo", "take", "join", "spawn", "put", "done"},
               victim : Calls \union {NoOne}]

WorkersTyped ==
    /\ kind \in Kinds
    /\ slot \in Calls \union {NoOne}
    /\ calls \in [Calls -> CallStates]
    /\ threads \in [Calls -> ThreadStates]

(* The inductive form: of the calls between their first step and their     *)
(* last, the one that holds the lifecycle lock is the only one; the worker *)
(* it spawns does not run before; and once it has taken the worker out of  *)
(* the slot, the slot is empty until it puts its own there.                *)
WorkersInv ==
    /\ WorkersTyped
    /\ kind = "refresh" =>
         /\ \A c \in Calls : calls[c].pc \in {"take", "join", "spawn", "put"} => lifecycle = c
         /\ \A c \in Calls : calls[c].pc \in {"join", "spawn", "put"} => slot = NoOne
         /\ \A w \in Calls : Live(w) => \/ slot = w \/ calls[w].pc = "put"
                                        \/ \E c \in Calls : calls[c].pc = "join" /\ calls[c].victim = w

(* At the start no worker is in the slot.                                  *)
LEMMA WorkersStart == WorkersInit => WorkersInv
  BY DEF WorkersInit, WorkersInv, WorkersTyped, CallStates, ThreadStates, NoThreadYet, Live, Kinds, NoOne

(* What a worker's own thread does ends no call and starts no worker.      *)
LEMMA WorkKeeps ==
  ASSUME WorkersInv, NEW w \in Calls, Works(w)
  PROVE  WorkersInv'
<1>1. UNCHANGED <<kind, lifecycle, slot, calls>>
  BY DEF Works, RefreshWakes, RefreshReads, RefreshPublishes, Samples, SamplerSleeps,
         FirstStatus, StartsHarpoon, Polls, BootstrapWakes
<1>2. threads' \in [Calls -> ThreadStates]
  <2>1. ASSUME NEW pc \in {"sleep", "read", "publish", "first", "starting", "poll", "ended"},
               Goes(w, pc)
        PROVE  threads' \in [Calls -> ThreadStates]
    BY <2>1 DEF Goes, WorkersInv, WorkersTyped, CallStates, ThreadStates
  <2>2. CASE Polls(w)
    <3>1. CASE threads' = [threads EXCEPT ![w].pc = "sleep", ![w].polls = @ + 1]
      <4>1. threads[w] \in ThreadStates /\ threads[w].polls + 1 \in Nat
        BY DEF WorkersInv, WorkersTyped, ThreadStates
      <4> QED
        BY <3>1, <4>1 DEF WorkersInv, WorkersTyped, ThreadStates
    <3> QED
      BY <2>1, <2>2, <3>1 DEF Polls, Completes
  <2> QED
    BY <2>1, <2>2 DEF Works, RefreshWakes, RefreshReads, RefreshPublishes, Samples, SamplerSleeps,
         FirstStatus, StartsHarpoon, BootstrapWakes, Completes
<1>3. \A v \in Calls : v # w => threads'[v] = threads[v]
  BY DEF Works, RefreshWakes, RefreshReads, RefreshPublishes, Samples, SamplerSleeps,
         FirstStatus, StartsHarpoon, Polls, BootstrapWakes, Completes, Goes, WorkersInv, WorkersTyped, CallStates, ThreadStates
<1>4. threads[w].pc \notin {"none", "ended"}
  BY DEF Works, RefreshWakes, RefreshReads, RefreshPublishes, Samples, SamplerSleeps,
         FirstStatus, StartsHarpoon, Polls, BootstrapWakes
<1> QED
  BY <1>1, <1>2, <1>3, <1>4 DEF WorkersInv, WorkersTyped, Live

(* Every step of a call keeps the invariant.                               *)
LEMMA WorkersKeep ==
  ASSUME WorkersInv, [WorkersNext]_workerVars
  PROVE  WorkersInv'
<1>1. ASSUME NEW c \in Calls, Enter(c)
      PROVE  WorkersInv'
  <2>1. \A d \in Calls : calls'[d].pc = (IF d = c THEN "take" ELSE calls[d].pc)
                         /\ calls'[d].victim = calls[d].victim
    BY <1>1 DEF Enter, WorkersInv, WorkersTyped, CallStates, ThreadStates
  <2>2. WorkersTyped'
    BY <1>1 DEF Enter, WorkersInv, WorkersTyped, CallStates, ThreadStates
  <2>3. ASSUME kind = "refresh"
        PROVE  lifecycle = NoOne /\ lifecycle' = c
               /\ \A d \in Calls : calls[d].pc \notin {"take", "join", "spawn", "put"}
    BY <1>1, <2>3, WorkersAssumption DEF Enter, WorkersInv, NoOne
  <2>4. UNCHANGED <<kind, slot, threads>> /\ calls[c].pc = "todo"
    BY <1>1 DEF Enter
  <2> QED
    BY <2>1, <2>2, <2>3, <2>4 DEF WorkersInv, Live
<1>2. ASSUME NEW c \in Calls, Take(c)
      PROVE  WorkersInv'
  <2>1. \A d \in Calls : /\ calls'[d].pc = (IF d = c THEN "join" ELSE calls[d].pc)
                         /\ calls'[d].victim = (IF d = c THEN slot ELSE calls[d].victim)
    BY <1>2 DEF Take, WorkersInv, WorkersTyped, CallStates, ThreadStates
  <2>2. /\ \A w \in Calls : threads'[w].pc = threads[w].pc
        /\ threads' \in [Calls -> ThreadStates]
    <3>1. CASE slot = NoOne
      BY <1>2, <3>1 DEF Take, WorkersInv, WorkersTyped
    <3>2. CASE slot # NoOne
      <4> DEFINE t == [threads[slot] EXCEPT !.flag = TRUE, !.wake = kind # "sampler"]
      <4>1. slot \in Calls /\ threads' = [threads EXCEPT ![slot] = t]
        BY <1>2, <3>2 DEF Take, WorkersInv, WorkersTyped
      <4>2. t \in ThreadStates /\ t.pc = threads[slot].pc
        <5>1. threads[slot] \in ThreadStates
          BY <4>1 DEF WorkersInv, WorkersTyped
        <5> QED
          BY <5>1 DEF ThreadStates
      <4> HIDE DEF t
      <4> QED
        BY <4>1, <4>2 DEF WorkersInv, WorkersTyped
    <3> QED
      BY <3>1, <3>2
  <2>3. WorkersTyped'
    <3> DEFINE k == [calls[c] EXCEPT !.pc = "join", !.victim = slot]
    <3>1. calls' = [calls EXCEPT ![c] = k]
      BY <1>2 DEF Take
    <3>2. k \in CallStates
      <4>1. calls[c] \in CallStates /\ slot \in Calls \union {NoOne}
        BY DEF WorkersInv, WorkersTyped
      <4> QED
        BY <4>1 DEF CallStates
    <3> HIDE DEF k
    <3>3. calls' \in [Calls -> CallStates]
      BY <3>1, <3>2 DEF WorkersInv, WorkersTyped
    <3> QED
      BY <1>2, <2>2, <3>3 DEF Take, WorkersInv, WorkersTyped
  <2>4. slot' = NoOne /\ UNCHANGED <<kind, lifecycle>> /\ calls[c].pc = "take"
    BY <1>2 DEF Take
  <2> QED
    BY <2>1, <2>2, <2>3, <2>4 DEF WorkersInv, Live
<1>3. ASSUME NEW c \in Calls, Joined(c)
      PROVE  WorkersInv'
  <2>1. PICK next \in {"done", "spawn"} : calls' = [calls EXCEPT ![c].pc = next]
        /\ (next = "spawn" => lifecycle' = lifecycle)
        /\ lifecycle' \in {lifecycle, IF lifecycle = c THEN NoOne ELSE lifecycle}
    BY <1>3 DEF Joined, Returned
  <2>2. \A d \in Calls : calls'[d].pc = (IF d = c THEN next ELSE calls[d].pc)
                         /\ calls'[d].victim = calls[d].victim
    BY <2>1 DEF WorkersInv, WorkersTyped, CallStates, ThreadStates
  <2>3. WorkersTyped'
    BY <1>3, <2>1 DEF Joined, WorkersInv, WorkersTyped, CallStates, ThreadStates
  <2>4. UNCHANGED <<kind, slot, threads>> /\ calls[c].pc = "join"
        /\ (calls[c].victim # NoOne => ~Live(calls[c].victim))
    BY <1>3 DEF Joined
  <2>5. ASSUME kind = "refresh"
        PROVE  \A d \in Calls : d # c => calls[d].pc \notin {"take", "join", "spawn", "put"}
    BY <2>4, <2>5 DEF WorkersInv
  <2>6. \A w \in Calls : Live(w) => calls[c].victim # w
    BY <2>4, WorkersAssumption DEF NoOne
  <2> QED
    BY <2>1, <2>2, <2>3, <2>4, <2>5, <2>6 DEF WorkersInv, Live
<1>4. ASSUME NEW c \in Calls, Spawn(c)
      PROVE  WorkersInv'
  <2>1. PICK next \in {"done", "put"} : calls' = [calls EXCEPT ![c].pc = next]
        /\ (next = "put" => lifecycle' = lifecycle)
        /\ (next = "done" => threads' = threads)
    BY <1>4 DEF Spawn, Returned
  <2>2. \A d \in Calls : calls'[d].pc = (IF d = c THEN next ELSE calls[d].pc)
                         /\ calls'[d].victim = calls[d].victim
    BY <2>1 DEF WorkersInv, WorkersTyped, CallStates, ThreadStates
  <2>3. /\ threads' \in [Calls -> ThreadStates]
        /\ \A w \in Calls : w # c => threads'[w] = threads[w]
    <3>1. \/ threads' = threads
          \/ \E pc \in {"sleep", "first"} : threads' = [threads EXCEPT ![c].pc = pc]
      BY <1>4 DEF Spawn
    <3> QED
      BY <3>1 DEF WorkersInv, WorkersTyped, ThreadStates
  <2>4. WorkersTyped'
    <3>1. calls' \in [Calls -> CallStates]
      BY <2>1 DEF WorkersInv, WorkersTyped, CallStates
    <3> QED
      BY <1>4, <2>3, <3>1 DEF Spawn, WorkersInv, WorkersTyped
  <2>5. UNCHANGED <<kind, slot>> /\ calls[c].pc = "spawn"
    BY <1>4 DEF Spawn
  <2>6. ASSUME kind = "refresh"
        PROVE  \A d \in Calls : d # c => calls[d].pc \notin {"take", "join", "spawn", "put"}
    BY <2>5, <2>6 DEF WorkersInv
  <2> QED
    BY <2>1, <2>2, <2>3, <2>4, <2>5, <2>6 DEF WorkersInv, Live
<1>5. ASSUME NEW c \in Calls, Put(c)
      PROVE  WorkersInv'
  <2>1. \A d \in Calls : calls'[d].pc = (IF d = c THEN "done" ELSE calls[d].pc)
                         /\ calls'[d].victim = calls[d].victim
    BY <1>5 DEF Put, Returned, WorkersInv, WorkersTyped, CallStates, ThreadStates
  <2>2. WorkersTyped'
    BY <1>5 DEF Put, Returned, WorkersInv, WorkersTyped, CallStates, ThreadStates
  <2>3. UNCHANGED <<kind, threads>> /\ calls[c].pc = "put" /\ slot' = c
    BY <1>5 DEF Put
  <2>4. ASSUME kind = "refresh"
        PROVE  /\ slot = NoOne
               /\ \A d \in Calls : d # c => calls[d].pc \notin {"take", "join", "spawn", "put"}
    BY <2>3, <2>4 DEF WorkersInv
  <2> QED
    BY <2>1, <2>2, <2>3, <2>4, WorkersAssumption DEF WorkersInv, Live, NoOne
<1>6. ASSUME UNCHANGED workerVars
      PROVE  WorkersInv'
  BY <1>6 DEF WorkersInv, WorkersTyped, Live, workerVars
<1> QED
  BY <1>1, <1>2, <1>3, <1>4, <1>5, <1>6, WorkKeeps DEF WorkersNext, Works

(* A worker that runs outside the slot is being joined or put there.       *)
LEMMA NoneOrphaned == WorkersInv => RefreshUnderControl
  BY DEF WorkersInv, RefreshUnderControl, Orphans
-----------------------------------------------------------------------------
(* Operations on deployments.                                              *)

OpStates == [kind : Ops \union {"none"}, live : BOOLEAN, cutover : BOOLEAN,
             pc : {"idle", "json", "pidfile", "process", "sockets", "run", "ended", "failed"},
             pid : Nat, seen : BOOLEAN,
             args : SUBSET {"coordinates", "authorize", "cutover"},
             changed : BOOLEAN, stopped : BOOLEAN, n : Nat]

HarpoonStates == [json : Nat, pidfile : Nat, process : Nat, sockets : BOOLEAN]

(* The inductive form: an argument stands for what the person confirmed,   *)
(* and the opt-in also for a runtime that was seen running; until they are *)
(* built there are none, and nothing has been changed.                     *)
ArgsJustified(o) ==
    /\ o.pc \in {"json", "pidfile", "process", "sockets"} => o.args = {}
    /\ o.pc \notin {"ended", "failed"} => ~o.changed /\ ~o.stopped
    /\ o.pc = "sockets" => o.seen
    /\ "authorize" \in o.args => o.live /\ o.seen
    /\ "cutover" \in o.args => o.cutover

OpInv == op \in OpStates /\ harpoon \in HarpoonStates /\ ArgsJustified(op) /\ DockerAsConfirmed

(* At the start nothing is asked of Docker.                                *)
LEMMA OpStarts == OperationsInit => OpInv
<1> SUFFICES ASSUME OperationsInit PROVE OpInv
  OBVIOUS
<1>1. op \in OpStates /\ ArgsJustified(op) /\ DockerAsConfirmed
  BY DEF OperationsInit, OpStates, NoOp, ArgsJustified, DockerAsConfirmed
<1>2. harpoon \in HarpoonStates
  <2>1. Off \in HarpoonStates /\ Up \in HarpoonStates
    BY DEF HarpoonStates, Off, Up
  <2>2. [Up EXCEPT !.process = 0] \in HarpoonStates
    BY <2>1 DEF HarpoonStates
  <2>3. [Up EXCEPT !.pidfile = 2, !.process = 2] \in HarpoonStates
    BY <2>1 DEF HarpoonStates
  <2> QED
    BY <2>1, <2>2, <2>3 DEF OperationsInit, Earlier
<1> QED
  BY <1>1, <1>2 DEF OpInv

(* An operation that is over, or was never begun, justifies anything.      *)
LEMMA NoOpJustified ==
  ASSUME OpInv, op' = [NoOp EXCEPT !.n = op.n]
  PROVE  op' \in OpStates /\ ArgsJustified(op') /\ DockerAsConfirmed'
<1>1. op.n \in Nat
  BY DEF OpInv, OpStates
<1>2. NoOp \in OpStates
  BY DEF NoOp, OpStates
<1>3. op' \in OpStates
  BY <1>1, <1>2 DEF OpStates
<1>4. /\ op'.pc = "idle" /\ op'.args = {} /\ ~op'.changed /\ ~op'.stopped
  BY <1>2 DEF NoOp
<1> QED
  BY <1>3, <1>4 DEF ArgsJustified, DockerAsConfirmed

(* The refusal for a runtime that is not found keeps the arguments empty.  *)
LEMMA NotFoundJustified ==
  ASSUME OpInv, op.pc \in {"json", "pidfile", "process", "sockets"}, NotFound
  PROVE  op' \in OpStates /\ ArgsJustified(op') /\ DockerAsConfirmed'
<1>1. CASE op' = [NoOp EXCEPT !.n = op.n]
  BY <1>1, NoOpJustified
<1>2. CASE op' = [op EXCEPT !.pc = "run", !.pid = 0, !.seen = FALSE]
  <2>1. op' \in OpStates
    <3>1. op \in OpStates
      BY DEF OpInv
    <3> QED
      BY <1>2, <3>1 DEF OpStates
  <2>2. /\ op'.pc = "run" /\ op'.args = op.args /\ op'.changed = op.changed
        /\ op'.stopped = op.stopped
    BY <1>2 DEF OpInv, OpStates
  <2> QED
    BY <2>1, <2>2 DEF OpInv, ArgsJustified, DockerAsConfirmed
<1> QED
  BY <1>1, <1>2 DEF NotFound
(* A step of the discovery that finds what it looks for keeps the          *)
(* arguments empty.                                                        *)
LEMMA DiscoveryJustified ==
  ASSUME OpInv, op.pc \in {"json", "pidfile", "process"},
         NEW pc \in {"pidfile", "process", "sockets"}, NEW pid \in Nat, NEW seen \in BOOLEAN,
         op' = [op EXCEPT !.pc = pc, !.pid = pid, !.seen = seen],
         pc = "sockets" => seen
  PROVE  op' \in OpStates /\ ArgsJustified(op') /\ DockerAsConfirmed'
<1>1. op \in OpStates
  BY DEF OpInv
<1>2. op' \in OpStates
  BY <1>1 DEF OpStates
<1>3. /\ op'.pc = pc /\ op'.seen = seen /\ op'.args = op.args
      /\ op'.changed = op.changed /\ op'.stopped = op.stopped
  BY <1>1 DEF OpStates
<1> QED
  BY <1>2, <1>3 DEF OpInv, ArgsJustified, DockerAsConfirmed

(* Every step of an operation keeps it.                                    *)
LEMMA OpKeeps ==
  ASSUME OpInv, [OperationsNext]_opVars
  PROVE  OpInv'
<1> USE DEF OpInv
<1>1. op \in OpStates /\ op.pc \in {"idle", "json", "pidfile", "process", "sockets", "run",
                                    "ended", "failed"}
  BY DEF OpStates
<1>2. ASSUME NEW k \in Ops, NEW live \in BOOLEAN, NEW cutover \in BOOLEAN,
             Begin(k, live, cutover)
      PROVE  OpInv'
  <2>1. CASE op' = [NoOp EXCEPT !.n = op.n + 1]
    <3>1. op' \in OpStates
      <4>1. op.n + 1 \in Nat /\ NoOp \in OpStates
        BY <1>1 DEF NoOp, OpStates
      <4> QED
        BY <2>1, <4>1 DEF OpStates
    <3>2. /\ op'.pc = "idle" /\ op'.args = {} /\ ~op'.changed /\ ~op'.stopped
      BY <2>1 DEF NoOp
    <3> QED
      BY <1>2, <3>1, <3>2 DEF Begin, ArgsJustified, DockerAsConfirmed
  <2>2. CASE op' = [NoOp EXCEPT !.n = op.n + 1, !.kind = k, !.live = live, !.cutover = cutover,
                                !.pc = IF k \in DockerOps THEN "json" ELSE "run"]
    <3>1. op.n + 1 \in Nat /\ NoOp \in OpStates
      BY <1>1 DEF NoOp, OpStates
    <3>2. op' \in OpStates
      BY <2>2, <3>1 DEF OpStates
    <3>3. op'.pc \in {"json", "run"} /\ op'.args = {} /\ ~op'.changed /\ ~op'.stopped
      BY <2>2 DEF NoOp
    <3> QED
      BY <1>2, <3>2, <3>3 DEF Begin, ArgsJustified, DockerAsConfirmed
  <2> QED
    BY <1>2, <2>1, <2>2 DEF Begin
<1>3. ASSUME ReadJson
      PROVE  OpInv'
  <2>1. CASE NotFound
    BY <1>3, <2>1, NotFoundJustified DEF ReadJson
  <2>2. CASE op' = [op EXCEPT !.pc = "pidfile", !.pid = harpoon.json]
    <3>1. op' = [op EXCEPT !.pc = "pidfile", !.pid = harpoon.json, !.seen = op.seen]
      BY <1>1, <2>2 DEF OpStates
    <3>2. harpoon.json \in Nat /\ op.seen \in BOOLEAN
      BY <1>1 DEF OpStates, HarpoonStates
    <3> QED
      BY <1>3, <3>1, <3>2, DiscoveryJustified DEF ReadJson
  <2> QED
    BY <1>3, <2>1, <2>2 DEF ReadJson
<1>4. ASSUME ReadPidfile
      PROVE  OpInv'
  <2>1. CASE NotFound
    BY <1>4, <2>1, NotFoundJustified DEF ReadPidfile
  <2>2. CASE op' = [op EXCEPT !.pc = "process"]
    <3>1. op' = [op EXCEPT !.pc = "process", !.pid = op.pid, !.seen = op.seen]
      BY <1>1, <2>2 DEF OpStates
    <3>2. op.pid \in Nat /\ op.seen \in BOOLEAN
      BY <1>1 DEF OpStates
    <3> QED
      BY <1>4, <3>1, <3>2, DiscoveryJustified DEF ReadPidfile
  <2> QED
    BY <1>4, <2>1, <2>2 DEF ReadPidfile
<1>5. ASSUME AskProcess
      PROVE  OpInv'
  <2>1. CASE NotFound
    BY <1>5, <2>1, NotFoundJustified DEF AskProcess
  <2>2. CASE harpoon.process = op.pid
             /\ op' = [op EXCEPT !.pc = "sockets", !.seen = harpoon.process = op.pid]
    <3>1. op' = [op EXCEPT !.pc = "sockets", !.pid = op.pid, !.seen = TRUE]
      BY <1>1, <2>2 DEF OpStates
    <3>2. op.pid \in Nat
      BY <1>1 DEF OpStates
    <3> QED
      BY <1>5, <3>1, <3>2, DiscoveryJustified DEF AskProcess
  <2> QED
    BY <1>5, <2>1, <2>2 DEF AskProcess
<1>6. ASSUME AskSockets
      PROVE  OpInv'
  <2>1. CASE NotFound
    BY <1>6, <2>1, NotFoundJustified DEF AskSockets
  <2>2. CASE op' = [op EXCEPT !.pc = "run", !.args = Args(op)]
    <3>1. Args(op) \in SUBSET {"coordinates", "authorize", "cutover"}
      BY DEF Args
    <3>2. op' \in OpStates
      BY <1>1, <2>2, <3>1 DEF OpStates
    <3>3. /\ op'.pc = "run" /\ op'.args = Args(op) /\ op'.seen = op.seen
          /\ op'.live = op.live /\ op'.cutover = op.cutover
          /\ op'.changed = op.changed /\ op'.stopped = op.stopped
      BY <1>1, <2>2 DEF OpStates
    <3>4. op.seen /\ ~op.changed /\ ~op.stopped
      BY <1>6 DEF AskSockets, ArgsJustified
    <3>5. "authorize" \in Args(op) => op.live
      BY DEF Args
    <3>6. "cutover" \in Args(op) => op.cutover
      BY DEF Args
    <3>7. UNCHANGED harpoon
      BY <1>6 DEF AskSockets
    <3> QED
      BY <3>2, <3>3, <3>4, <3>5, <3>6, <3>7 DEF ArgsJustified, DockerAsConfirmed
  <2> QED
    BY <1>6, <2>1, <2>2 DEF AskSockets
<1>7. ASSUME Run
      PROVE  OpInv'
  <2>1. PICK serving \in BOOLEAN, ok \in BOOLEAN :
          LET acts == /\ op.kind \in DockerOps /\ EngineGate(op.kind)
                      /\ {"coordinates", "authorize"} \subseteq op.args
              stops == acts /\ serving
                       /\ (op.kind = "deploy" => gate.replace /\ "cutover" \in op.args)
          IN  op' = [op EXCEPT !.pc = IF acts => ok THEN "ended" ELSE "failed",
                               !.changed = acts, !.stopped = stops]
    BY <1>7 DEF Run
  <2> DEFINE acts == /\ op.kind \in DockerOps /\ EngineGate(op.kind)
                     /\ {"coordinates", "authorize"} \subseteq op.args
             stops == acts /\ serving
                      /\ (op.kind = "deploy" => gate.replace /\ "cutover" \in op.args)
             pc == IF acts => ok THEN "ended" ELSE "failed"
  <2>2. op' = [op EXCEPT !.pc = pc, !.changed = acts, !.stopped = stops]
    BY <2>1
  <2>3. acts \in BOOLEAN /\ stops \in BOOLEAN /\ pc \in {"ended", "failed"}
    OBVIOUS
  <2>4. acts => op.live /\ op.seen /\ EngineGate(op.kind)
    BY DEF ArgsJustified
  <2>5. stops /\ op.kind = "deploy" => op.cutover
    BY DEF ArgsJustified
  <2> HIDE DEF acts, stops, pc
  <2>6. op' \in OpStates
    BY <1>1, <2>2, <2>3 DEF OpStates
  <2>7. /\ op'.pc = pc /\ op'.changed = acts /\ op'.stopped = stops
        /\ op'.args = op.args /\ op'.seen = op.seen /\ op'.kind = op.kind
        /\ op'.live = op.live /\ op'.cutover = op.cutover
    BY <1>1, <2>2 DEF OpStates
  <2>8. UNCHANGED <<harpoon, gate>>
    BY <1>7 DEF Run
  <2>9. EngineGate(op.kind)' = EngineGate(op.kind)
    BY <2>7, <2>8 DEF EngineGate
  <2> QED
    BY <2>3, <2>4, <2>5, <2>6, <2>7, <2>8, <2>9 DEF ArgsJustified, DockerAsConfirmed
<1>8. ASSUME Answer \/ Relaunch
      PROVE  OpInv'
  BY <1>8, NoOpJustified DEF Answer, Relaunch
<1>9. ASSUME HarpoonChanges
      PROVE  OpInv'
  <2>1. harpoon' \in HarpoonStates
    <3>1. CASE \E p \in 1 .. 2 : harpoon' = [harpoon EXCEPT !.process = p, !.pidfile = p]
      <4>1. PICK p \in 1 .. 2 : harpoon' = [harpoon EXCEPT !.process = p, !.pidfile = p]
        BY <3>1
      <4>2. p \in Nat
        OBVIOUS
      <4> QED
        BY <4>1, <4>2 DEF HarpoonStates
    <3>2. CASE harpoon' = [harpoon EXCEPT !.json = harpoon.process, !.sockets = TRUE]
      <4>1. harpoon.process \in Nat
        BY DEF HarpoonStates
      <4> QED
        BY <3>2, <4>1 DEF HarpoonStates
    <3>3. CASE harpoon' = [harpoon EXCEPT !.process = 0] \/ harpoon' = Off
      <4>1. Off \in HarpoonStates
        BY DEF HarpoonStates, Off
      <4>2. [harpoon EXCEPT !.process = 0] \in HarpoonStates
        BY DEF HarpoonStates
      <4> QED
        BY <3>3, <4>1, <4>2
    <3> QED
      BY <1>9, <3>1, <3>2, <3>3 DEF HarpoonChanges
  <2>2. UNCHANGED <<op, gate>>
    BY <1>9 DEF HarpoonChanges
  <2> QED
    BY <2>1, <2>2 DEF DockerAsConfirmed, ArgsJustified, EngineGate
<1>10. ASSUME UNCHANGED <<harpoon, op, gate>>
       PROVE  OpInv'
  BY <1>10 DEF DockerAsConfirmed, ArgsJustified, EngineGate
<1>11. (\E c \in {"add", "remove"}, r \in Roots : ExtCall(c, r)) \/ ExtCall("restore", "-")
       \/ Restore \/ Attach \/ Add \/ Remove \/ Lifted \/ UNCHANGED opVars
         => UNCHANGED <<harpoon, op, gate>>
  BY DEF ExtCall, Restore, Attach, Add, Remove, Lifted, opVars
<1> QED
  BY <1>2, <1>3, <1>4, <1>5, <1>6, <1>7, <1>8, <1>9, <1>10, <1>11 DEF OperationsNext

-----------------------------------------------------------------------------
(* The list of attached runtimes.                                          *)

(* The inductive form: a folder is registered before it is listed, and its *)
(* registration is lifted once it is not listed any more.                  *)
GuardInv ==
    /\ ext \in [call : {"none", "add", "remove", "restore"}, root : Roots \union {"-"},
               pc : {"idle", "begun", "attached", "written"}]
    /\ RememberedIsGuarded
    /\ ext.pc = "attached" => ext.root \in attached
    /\ ext.pc = "written" => ext.root \notin list

(* At the start the list is not restored.                                  *)
LEMMA GuardStarts == OperationsInit => GuardInv
  BY DEF OperationsInit, GuardInv, RememberedIsGuarded, NoExt

(* The guard is attached before the list is written, and removed after.    *)
LEMMA GuardKeeps ==
  ASSUME GuardInv, [OperationsNext]_opVars
  PROVE  GuardInv'
<1> USE DEF GuardInv, RememberedIsGuarded
<1>1. ASSUME NEW c \in {"add", "remove", "restore"}, NEW r \in Roots \union {"-"}, ExtCall(c, r)
      PROVE  GuardInv'
  BY <1>1 DEF ExtCall
<1>2. ASSUME Restore
      PROVE  GuardInv'
  BY <1>2 DEF Restore, NoExt
<1>3. ASSUME Attach
      PROVE  GuardInv'
  BY <1>3 DEF Attach, NoExt
<1>4. ASSUME Add
      PROVE  GuardInv'
  BY <1>4 DEF Add, Listed, NoExt
<1>5. ASSUME Remove
      PROVE  GuardInv'
  BY <1>5 DEF Remove, Listed, NoExt
<1>6. ASSUME Relaunch
      PROVE  GuardInv'
  BY <1>6 DEF Relaunch, NoExt
<1>7. ASSUME UNCHANGED <<list, attached, restored, ext>>
      PROVE  GuardInv'
  BY <1>7
<1>8. (\E k \in Ops, live, cutover \in BOOLEAN : Begin(k, live, cutover)) \/ ReadJson
      \/ ReadPidfile \/ AskProcess \/ AskSockets \/ Run \/ Answer \/ HarpoonChanges
      \/ UNCHANGED opVars
        => UNCHANGED <<list, attached, restored, ext>>
  BY DEF Begin, ReadJson, ReadPidfile, AskProcess, AskSockets, Run, Answer, HarpoonChanges,
         opVars
<1>9. ASSUME Lifted
      PROVE  GuardInv'
  BY <1>9 DEF Lifted, NoExt
<1> QED
  BY <1>1, <1>2, <1>3, <1>4, <1>5, <1>6, <1>7, <1>8, <1>9 DEF OperationsNext

-----------------------------------------------------------------------------
(* The launch of a Compose project.                                        *)

Answers == {"succeeded", "failed", "refused", "timed out", "too large"}

ProjectStates == [now : Nat, reviewed : Nat, seen : Int, used : Int, since : BOOLEAN,
                  stack : BOOLEAN, ports : BOOLEAN, warned : BOOLEAN]

(* The inductive form: from the second look on, what differs from what was *)
(* seen was edited since; past the count it is what was reviewed; and      *)
(* nothing is brought up before the last step.                             *)
LaunchInv ==
    /\ step \in Steps \union Answers
    /\ project \in ProjectStates
    /\ edits \in Nat
    /\ step \in {"count", "context again", "up"} /\ project.now # project.seen => project.since
    /\ step \in {"context again", "up"} => project.seen = project.reviewed
    /\ project.used # NotSeen => step \in {"up"} \union Answers
    /\ LaunchedAsReviewed

(* At the start nothing is looked at or brought up.                        *)
LEMMA LaunchStarts == CommandsInit => LaunchInv
<1> SUFFICES ASSUME CommandsInit PROVE LaunchInv
  OBVIOUS
<1>1. step \in {"context", "inspect", "read", "init", "build"}
  BY DEF CommandsInit, FirstStep
<1>2. /\ project \in ProjectStates
      /\ project.used = NotSeen /\ edits = 0
  <2>1. NotSeen \in Int /\ 0 \in Nat
    BY DEF NotSeen
  <2>2. project \in [now : {0}, reviewed : {0}, seen : {NotSeen}, used : {NotSeen},
                     since : {FALSE}, stack : BOOLEAN, ports : BOOLEAN, warned : {FALSE}]
         /\ edits = 0
    BY DEF CommandsInit
  <2> QED
    BY <2>1, <2>2 DEF ProjectStates
<1> QED
  BY <1>1, <1>2 DEF LaunchInv, Steps, LaunchedAsReviewed

(* The steps of a launch come in one order, and the other flows take none  *)
(* of them.                                                                *)
LEMMA StepsInOrder ==
  /\ NextStep \in Steps \union Answers
  /\ NextStep = "count" => step = "config"
  /\ NextStep = "context again" => step = "count"
  /\ NextStep = "up" => step = "context again"
  /\ step \in {"up"} \union Answers => NextStep = "succeeded"
<1>1. CheckoutStep \in {"fetch", "resolve", "present", "checkout", "head", "succeeded"}
  BY DEF CheckoutStep
<1>2. step \in {"up"} \union Answers => CheckoutStep = "succeeded"
  BY DEF CheckoutStep, Answers
<1>3. NextStep \in {"config", "count", "context again", "up", "exec", "succeeded", CheckoutStep}
  BY DEF NextStep
<1>4. step \in {"up"} \union Answers => NextStep \in {"succeeded", CheckoutStep}
  BY DEF NextStep, Answers
<1>5. /\ NextStep = "count" => step = "config"
      /\ NextStep = "context again" => step = "count"
      /\ NextStep = "up" => step = "context again"
  BY <1>1 DEF NextStep
<1> QED
  BY <1>1, <1>2, <1>3, <1>4, <1>5 DEF Steps, Answers

(* Every step of a plugin command, and every edit, keeps it.               *)
LEMMA LaunchKeeps ==
  ASSUME LaunchInv, [CommandsNext]_cmdVars
  PROVE  LaunchInv'
<1>1. project \in ProjectStates /\ edits \in Nat
  BY DEF LaunchInv
<1>2. \A answer \in Answers : answer \notin Steps
  BY DEF Answers, Steps
<1>3. ASSUME UNCHANGED <<step, project, edits>>
      PROVE  LaunchInv'
  BY <1>3 DEF LaunchInv, LaunchedAsReviewed
<1>4. ASSUME NEW answer \in Answers, Concluded(answer)
      PROVE  LaunchInv'
  <2>1. step' = answer /\ UNCHANGED <<project, edits>>
    BY <1>4 DEF Concluded
  <2>2. answer \notin {"count", "context again", "up"}
    BY DEF Answers
  <2> QED
    BY <2>1, <2>2 DEF LaunchInv, LaunchedAsReviewed
<1>5. ASSUME Start
      PROVE  LaunchInv'
  <2>1. CASE step = "up"
    <3>1. project' = [project EXCEPT !.used = project.now] /\ UNCHANGED <<step, edits>>
      BY <1>5, <2>1 DEF Start
    <3>2. /\ project' \in ProjectStates
          /\ project'.now = project.now /\ project'.seen = project.seen
          /\ project'.reviewed = project.reviewed /\ project'.since = project.since
          /\ project'.used = project.now
      BY <1>1, <3>1 DEF ProjectStates
    <3> QED
      BY <2>1, <3>1, <3>2 DEF LaunchInv, LaunchedAsReviewed
  <2>2. CASE step # "up"
    BY <1>3, <1>5, <2>2 DEF Start
  <2> QED
    BY <2>1, <2>2
<1>6. ASSUME Ended
      PROVE  LaunchInv'
  <2>1. CASE Concluded("failed")
    BY <1>4, <2>1 DEF Answers
  <2>2. CASE step = "fetch" /\ Concluded("fetch heads")
    <3>1. step' = "fetch heads" /\ UNCHANGED <<project, edits>>
      BY <2>2 DEF Concluded
    <3>2. project.used = NotSeen
      BY <2>2 DEF LaunchInv, Answers
    <3> QED
      BY <1>1, <3>1, <3>2 DEF LaunchInv, Steps, LaunchedAsReviewed
  <2>3. CASE /\ step' = IF MayGoOn THEN NextStep ELSE "refused"
             /\ project' = IF step = "config" THEN SeenNow ELSE project
             /\ UNCHANGED edits
    <3>1. /\ project' \in ProjectStates
          /\ project'.now = project.now /\ project'.used = project.used
          /\ project'.reviewed = project.reviewed
          /\ IF step = "config" THEN project'.seen = project.now /\ project'.since = FALSE
             ELSE project'.seen = project.seen /\ project'.since = project.since
      <4>1. project.now \in Int
        BY <1>1 DEF ProjectStates
      <4>2. CASE step = "config"
        <5>1. project' = [project EXCEPT !.seen = project.now, !.since = FALSE,
                                         !.warned = ~project.ports]
          BY <2>3, <4>2 DEF SeenNow
        <5> QED
          BY <1>1, <4>1, <4>2, <5>1 DEF ProjectStates
      <4>3. CASE step # "config"
        <5>1. project' = project
          BY <2>3, <4>3
        <5> QED
          BY <1>1, <4>3, <5>1
      <4> QED
        BY <4>2, <4>3
    <3>2. step' \in Steps \union Answers
      BY <2>3, StepsInOrder DEF Answers
    <3>3. step' \in {"count", "context again", "up"} => MayGoOn /\ step' = NextStep
      BY <2>3
    <3>4. step \in {"up"} \union Answers => step' \in Answers
      BY <2>3, StepsInOrder DEF Answers
    <3>5. project'.used # NotSeen => /\ step \in {"up"} \union Answers /\ step # "config"
                                     /\ step' \in Answers
      BY <3>1, <3>4 DEF LaunchInv, Answers
    <3>6. LaunchedAsReviewed'
      BY <3>1, <3>5 DEF LaunchInv, LaunchedAsReviewed
    <3>7. step' \in {"count", "context again", "up"} /\ project'.now # project'.seen
            => project'.since
      BY <3>1, <3>3, StepsInOrder DEF LaunchInv
    <3>8. step' \in {"context again", "up"} => project'.seen = project'.reviewed
      <4>1. CASE step' = "context again"
        BY <3>1, <3>3, <4>1, StepsInOrder DEF MayGoOn
      <4>2. CASE step' = "up"
        BY <3>1, <3>3, <4>2, StepsInOrder DEF LaunchInv
      <4> QED
        BY <4>1, <4>2
    <3>9. edits' \in Nat
      BY <1>1, <2>3
    <3> QED
      BY <3>1, <3>2, <3>5, <3>6, <3>7, <3>8, <3>9 DEF LaunchInv
  <2> QED
    BY <1>6, <2>1, <2>2, <2>3 DEF Ended
<1>7. ASSUME Edited
      PROVE  LaunchInv'
  <2>1. step \in Steps /\ UNCHANGED step /\ edits' = edits + 1
    BY <1>7 DEF Edited
  <2>2. edits' \in Nat
    BY <1>1, <2>1
  <2>3. CASE \E p \in BOOLEAN : project' =
               [project EXCEPT !.now = edits + 1, !.ports = p, !.since = step # "context"]
    <3>1. PICK p \in BOOLEAN : project' =
               [project EXCEPT !.now = edits + 1, !.ports = p, !.since = step # "context"]
      BY <2>3
    <3>2. /\ project' \in ProjectStates
          /\ project'.used = project.used /\ project'.seen = project.seen
          /\ project'.reviewed = project.reviewed /\ project'.since = (step # "context")
      <4>1. edits + 1 \in Nat /\ (step # "context") \in BOOLEAN
        BY <1>1
      <4> QED
        BY <1>1, <3>1, <4>1 DEF ProjectStates
    <3>3. step \in {"up"} \union Answers => step # "context"
      BY DEF Answers
    <3> QED
      BY <1>1, <2>1, <2>2, <3>2, <3>3 DEF LaunchInv, LaunchedAsReviewed
  <2>4. CASE project' = [project EXCEPT !.stack = ~project.stack]
    <3>1. /\ project' \in ProjectStates
          /\ project'.used = project.used /\ project'.seen = project.seen
          /\ project'.now = project.now
          /\ project'.reviewed = project.reviewed /\ project'.since = project.since
      BY <1>1, <2>4 DEF ProjectStates
    <3> QED
      BY <1>1, <2>1, <2>2, <3>1 DEF LaunchInv, LaunchedAsReviewed
  <2> QED
    BY <1>7, <2>3, <2>4 DEF Edited
<1>8. Writes \/ Drain \/ PluginExits \/ Exits \/ TimePasses \/ TooLarge \/ UNCHANGED cmdVars
        => UNCHANGED <<step, project, edits>>
  BY DEF Writes, Drain, PluginExits, Exits, TimePasses, TooLarge, KilledChild, cmdVars
<1>9. TimeUp \/ TimedOut
        => UNCHANGED <<step, project, edits>> \/ \E answer \in Answers : Concluded(answer)
  BY DEF TimeUp, TimedOut, KilledChild, Answers
<1> QED
  BY <1>3, <1>4, <1>5, <1>6, <1>7, <1>8, <1>9 DEF CommandsNext
-----------------------------------------------------------------------------
(* The parts together: each moves by its own steps, or stays as it is.     *)
LEMMA PartsStart ==
  DesktopInit => /\ RouterInit /\ ShellInit /\ WorkersInit /\ OperationsInit /\ CommandsInit
                 /\ ReleasesInit
  BY DEF DesktopInit

(* A step of the desktop is a step, or none, of each part.                 *)
LEMMA PartsStep ==
  [DesktopNext]_desktopVars =>
    /\ [ShellNext]_shellVars /\ [WorkersNext]_workerVars /\ [OperationsNext]_opVars
    /\ [CommandsNext]_cmdVars /\ [ReleasesNext]_relVars /\ [RouterNext]_routerVars
<1> USE DEF DesktopNext, desktopVars
<1>1. [DesktopNext]_desktopVars => [ShellNext]_shellVars
  OBVIOUS
<1>2. [DesktopNext]_desktopVars => [WorkersNext]_workerVars
  OBVIOUS
<1>3. [DesktopNext]_desktopVars => [OperationsNext]_opVars
  OBVIOUS
<1>4. [DesktopNext]_desktopVars => [CommandsNext]_cmdVars
  OBVIOUS
<1>5. [DesktopNext]_desktopVars => [ReleasesNext]_relVars
  OBVIOUS
<1>6. [DesktopNext]_desktopVars => [RouterNext]_routerVars
  OBVIOUS
<1> QED
  BY <1>1, <1>2, <1>3, <1>4, <1>5, <1>6

(* A route that is followed was right less than the table's lifetime ago,  *)
(* unless the last read of the records failed (app_router.rs: State::table *)
(* and serve).                                                             *)
THEOREM RoutesStayRecent == DesktopSpec => []RouteIsRecent
<1>1. DesktopInit => RouterInv
  BY PartsStart, RouterStarts
<1>2. RouterInv /\ [DesktopNext]_desktopVars => RouterInv'
  BY PartsStep, RouterKeeps
<1>3. RouterInv => RouteIsRecent
  BY DEF RouterInv
<1> QED
  BY <1>1, <1>2, <1>3, PTL DEF DesktopSpec

(* However the threads of a shell and the window's calls interleave, no    *)
(* signal reaches a recycled process id and no write or resize a           *)
(* descriptor that is somebody else's (shell.rs: ChildPid, read_session).  *)
THEOREM ShellsStayApart == DesktopSpec => []NoStrayReference
<1>1. DesktopInit => ShellInv
  BY PartsStart, ShellStarts
<1>2. ShellInv /\ [DesktopNext]_desktopVars => ShellInv'
  BY PartsStep, ShellKeeps
<1>3. ShellInv => NoStrayReference
  BY DEF ShellInv
<1> QED
  BY <1>1, <1>2, <1>3, PTL DEF DesktopSpec

(* However the window's starts and stops overlap, every refresh worker     *)
(* that runs can be stopped (runtime_refresh.rs: the lifecycle lock).      *)
THEOREM RefreshStaysUnderControl == DesktopSpec => []RefreshUnderControl
<1>1. DesktopInit => WorkersInv
  BY PartsStart, WorkersStart
<1>2. WorkersInv /\ [DesktopNext]_desktopVars => WorkersInv'
  BY PartsStep, WorkersKeep
<1> QED
  BY <1>1, <1>2, NoneOrphaned, PTL DEF DesktopSpec

(* Docker is changed only as the person confirmed, at an open gate and for *)
(* a runtime seen running (deploy_api.rs: build_args, discover_runtime).   *)
THEOREM DockerChangesAsConfirmed == DesktopSpec => []DockerAsConfirmed
<1>1. DesktopInit => OpInv
  BY PartsStart, OpStarts
<1>2. OpInv /\ [DesktopNext]_desktopVars => OpInv'
  BY PartsStep, OpKeeps
<1>3. OpInv => DockerAsConfirmed
  BY DEF OpInv
<1> QED
  BY <1>1, <1>2, <1>3, PTL DEF DesktopSpec

(* After the restoration of the list, every runtime remembered in it is    *)
(* guarded (deploy_api.rs: restore, attach before write, remove after it). *)
THEOREM GuardHasNoGap == DesktopSpec => []RememberedIsGuarded
<1>1. DesktopInit => GuardInv
  BY PartsStart, GuardStarts
<1>2. GuardInv /\ [DesktopNext]_desktopVars => GuardInv'
  BY PartsStep, GuardKeeps
<1>3. GuardInv => RememberedIsGuarded
  BY DEF GuardInv
<1> QED
  BY <1>1, <1>2, <1>3, PTL DEF DesktopSpec

(* What Compose brings up is what the person reviewed, or was edited after *)
(* the launch looked again (compose_import.rs: launch_compose_project).    *)
THEOREM LaunchIsReviewed == DesktopSpec => []LaunchedAsReviewed
<1>1. DesktopInit => LaunchInv
  BY PartsStart, LaunchStarts
<1>2. LaunchInv /\ [DesktopNext]_desktopVars => LaunchInv'
  BY PartsStep, LaunchKeeps
<1>3. LaunchInv => LaunchedAsReviewed
  BY DEF LaunchInv
<1> QED
  BY <1>1, <1>2, <1>3, PTL DEF DesktopSpec

(* A teardown removes only containers of its release, and a container that *)
(* runs is on a leased port (commands.rs: containers_of_release, teardown; *)
(* backend.rs: restore_inner).                                             *)
LEMMA ReleasesStayConsistent == DesktopSpec => []RelInv
<1>1. DesktopInit => RelInv
  BY PartsStart, ReleasesStart
<1>2. RelInv /\ [DesktopNext]_desktopVars => RelInv'
  BY PartsStep, ReleasesKeep
<1> QED
  BY <1>1, <1>2, PTL DEF DesktopSpec

(* A teardown removes only containers that ran its release or that its own *)
(* deployment made (commands.rs: containers_of_release, locate).           *)
THEOREM TeardownKeepsOthers == DesktopSpec => []OnlyTheRelease
<1>1. RelInv => OnlyTheRelease
  BY DEF RelInv
<1> QED
  BY <1>1, ReleasesStayConsistent, PTL

(* A container that runs is on a port that the ledger still holds          *)
(* (commands.rs: the third phase of teardown; backend.rs: restore_inner).  *)
THEOREM RunningStaysLeased == DesktopSpec => []RunningIsLeased
<1>1. RelInv => RunningIsLeased
  BY DEF RelInv
<1> QED
  BY <1>1, ReleasesStayConsistent, PTL

(* The records name the container put into service last, unless it was     *)
(* torn down or the clock was set back (serving.rs: serving_release).      *)
THEOREM ServedStaysNamed == DesktopSpec => []RecordsNameServed
<1>1. DesktopInit => RelInv /\ ServedInv
  BY PartsStart, ReleasesStart, ServedStarts
<1>2. RelInv /\ ServedInv /\ [DesktopNext]_desktopVars => (RelInv /\ ServedInv)'
  BY PartsStep, ReleasesKeep, ServedKeeps
<1> QED
  BY <1>1, <1>2, ServedIsNamed, PTL DEF DesktopSpec
=============================================================================
