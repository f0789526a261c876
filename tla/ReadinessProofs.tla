----------------------------- MODULE ReadinessProofs ---------------------------
(* The search for a port keeps its promise in every range the code can     *)
(* have, not only in the small one of the model checker's instance.        *)
EXTENDS Readiness, NaturalsInduction, WellFoundedInduction,
        SequenceTheorems, TLAPS

(* The offset of the hint is within the range.                             *)
LEMMA FirstInRange == \A hint : FirstOf(hint) \in Range16
  BY PortRangeAssumption DEF FirstOf, Range16

(* One turn of the walk: before the end of the range it counts up, after   *)
(* it it starts again; the cut to 16 bits and the remainder do no more.    *)
LEMMA WalkTurns ==
  ASSUME NEW first \in Range16, NEW i \in 0 .. Size - 1
  PROVE  Walk(first, i) = IF first + i <= RangeEnd THEN first + i
                          ELSE first + i - Size
<1> DEFINE k == (first - RangeStart) + i
<1>1. k \in Nat /\ k < 65536 /\ Size \in Nat /\ Size > 0 /\ k < 2 * Size
  BY PortRangeAssumption DEF Range16, Size
<1>2. k % 65536 = k
  BY <1>1
<1>3. CASE k < Size
  <2>1. k % Size = k
    BY <1>1, <1>3, Z3
  <2> QED
    BY <1>1, <1>2, <1>3, <2>1, PortRangeAssumption DEF Walk, Range16, Size
<1>4. CASE k >= Size
  <2>1. k % Size = k - Size
    BY <1>1, <1>4, Z3
  <2> QED
    BY <1>1, <1>2, <1>4, <2>1, PortRangeAssumption DEF Walk, Range16, Size
<1> QED
  BY <1>1, <1>3, <1>4

(* The walk visits a port at its cyclic distance from the first one, and   *)
(* the port at a step is at that distance.                                 *)
LEMMA WalkDistance ==
  ASSUME NEW first \in Range16
  PROVE  /\ \A p \in Range16 : /\ Distance(first, p) \in 0 .. Size - 1
                               /\ Walk(first, Distance(first, p)) = p
         /\ \A i \in 0 .. Size - 1 : /\ Walk(first, i) \in Range16
                                     /\ Distance(first, Walk(first, i)) = i
<1>1. ASSUME NEW p \in Range16
      PROVE  /\ Distance(first, p) \in 0 .. Size - 1
             /\ Walk(first, Distance(first, p)) = p
  <2>1. Distance(first, p) \in 0 .. Size - 1
    BY PortRangeAssumption DEF Distance, Range16, Size
  <2>2. Walk(first, Distance(first, p)) =
          IF first + Distance(first, p) <= RangeEnd
          THEN first + Distance(first, p)
          ELSE first + Distance(first, p) - Size
    BY <2>1, WalkTurns
  <2> QED
    BY <2>1, <2>2, PortRangeAssumption DEF Distance, Range16, Size
<1>2. ASSUME NEW i \in 0 .. Size - 1
      PROVE  Walk(first, i) \in Range16 /\ Distance(first, Walk(first, i)) = i
  <2>1. Walk(first, i) = IF first + i <= RangeEnd THEN first + i
                         ELSE first + i - Size
    BY WalkTurns
  <2> QED
    BY <2>1, PortRangeAssumption DEF Distance, Range16, Size
<1> QED
  BY <1>1, <1>2

(* A set of steps of the walk that is not empty has a least one.           *)
LEMMA LeastStep ==
  ASSUME NEW n \in Nat, NEW S \in SUBSET (0 .. n), S # {}
  PROVE  \E i \in S : \A j \in S : i <= j
<1> DEFINE R == OpToRel(<, Nat)
<1>1. S \subseteq Nat
  OBVIOUS
<1>2. IsWellFoundedOn(R, Nat)
  BY NatLessThanWellFounded
<1>3. \A a, b \in Nat : a < b => <<a, b>> \in R
  BY Zenon DEF OpToRel
<1> HIDE DEF R
<1>4. PICK i \in S : \A j \in S : ~(<<j, i>> \in R)
  BY <1>1, <1>2, WFMin
<1>5. \A j \in S : ~(j < i)
  BY <1>1, <1>3, <1>4
<1> QED
  BY <1>1, <1>5

(* allocate returns the free port nearest to the hint, and gives up only   *)
(* when every port of the range is taken or excluded, for every range of   *)
(* 16-bit ports (ports.rs:131).                                            *)
THEOREM AllocateKeepsPromise ==
  ASSUME NEW occ, NEW hint, NEW exclude
  PROVE  Promised(occ, hint, exclude, Allocate(occ, hint, exclude))
<1> DEFINE first == FirstOf(hint)
           free(p) == ~Taken(occ, p) /\ p \notin exclude
           hits == { i \in 0 .. Size - 1 : free(Walk(first, i)) }
           least == CHOOSE i \in hits : \A j \in hits : i <= j
<1>0. first \in Range16
  BY FirstInRange
<1>1. \A p \in Range16 : free(p) => Distance(first, p) \in hits
  BY <1>0, WalkDistance
<1>2. NoPort \notin Range16
  BY PortRangeAssumption DEF NoPort, Range16
<1>3. Allocate(occ, hint, exclude) = IF hits = {} THEN NoPort ELSE Walk(first, least)
  BY DEF Allocate
<1>4. CASE hits = {}
  <2>1. \A p \in Range16 : ~free(p)
    BY <1>1, <1>4
  <2> QED
    BY <1>3, <1>4, <2>1 DEF Promised
<1>5. CASE hits # {}
  <2>1. Size - 1 \in Nat /\ hits \in SUBSET (0 .. Size - 1)
    BY PortRangeAssumption DEF Size
  <2>2. \E i \in hits : \A j \in hits : i <= j
    BY <1>5, <2>1, LeastStep
  <2>3. least \in hits /\ \A j \in hits : least <= j
    BY <2>2
  <2> DEFINE got == Walk(first, least)
  <2>4. /\ got \in Range16 /\ free(got) /\ Distance(first, got) = least
    BY <1>0, <2>3, WalkDistance
  <2>5. \A p \in Range16 : free(p) => Distance(first, got) <= Distance(first, p)
    BY <1>1, <2>3, <2>4
  <2>6. got # NoPort
    BY <1>2, <2>4
  <2> QED
    BY <1>3, <1>5, <2>4, <2>5, <2>6 DEF Promised
<1> QED
  BY <1>4, <1>5

-----------------------------------------------------------------------------
(* The steps after the start never come back to the choice of a port.      *)
Later == {"mapping", "attempt", "request", "prove_mapping", "prove_listener",
          "prove_sockets", "prove_guest", "inspect_after", "listener_after",
          "passed_marker", "passed_path", "failed", "refused", "changed"}

LEMMA AfterIsLater == \A c : After(c) \in Later
  BY DEF After, Later

LEMMA SettleIsLater ==
  ASSUME NEW c, NEW by, Settle(c, by)
  PROVE  pc' \in Later
  BY AfterIsLater DEF Settle

LEMMA UnprovenIsLater ==
  ASSUME NEW c, Unproven(c)
  PROVE  pc' \in Later
  BY SettleIsLater DEF Unproven, Later

(* The inductive form: a container is only started on a port.              *)
PortInv == PortPromised /\ (pc = "start" => lease.port # NoPort)

LEMMA LaterKeeps == pc' \in Later => PortInv'
  BY DEF PortInv, PortPromised, Later

LEMMA LeasedKeeps ==
  ASSUME NEW look, NEW hint, NEW first, NEW p,
         Leased(look, hint, first, p),
         Promised(look, hint, IF first = NoPort THEN {} ELSE {first}, p)
  PROVE  PortInv'
<1>1. /\ lease'.look = look /\ lease'.hint = hint
      /\ lease'.first = first /\ lease'.port = p
  BY DEF Leased
<1> QED
  BY <1>1 DEF PortInv, PortPromised, Leased

(* Every lease of a start and of its one replacement is the nearest free   *)
(* port of the look it was taken from, and a start gives up for want of a  *)
(* port only when there is none: for every range of 16-bit ports.          *)
THEOREM EveryLeasePromised == Spec => []PortPromised
<1>1. Init => PortInv
  BY DEF Init, PortInv, PortPromised
<1>2. PortInv /\ [Next]_vars => PortInv'
  <2> SUFFICES ASSUME PortInv, [Next]_vars PROVE PortInv'
    OBVIOUS
  <2>1. CASE AllocatePort
    <3>1. PICK look \in Looks :
            Leased(look, NoPort, NoPort, Allocate(look, NoPort, {}))
      BY <2>1 DEF AllocatePort
    <3>2. Promised(look, NoPort, {}, Allocate(look, NoPort, {}))
      BY AllocateKeepsPromise
    <3> QED
      BY <3>1, <3>2, LeasedKeeps
  <2>2. CASE StartContainer
    <3>1. CASE pc' \in Later
      BY <3>1, LaterKeeps
    <3>2. CASE pc' \notin Later
      <4>1. MayReplace /\ \E look \in Looks :
              Leased(look, lease.port + 1, lease.port,
                     Reallocate(look, lease.port))
        BY <2>2, <3>2 DEF StartContainer, Later
      <4>2. PICK look \in Looks :
              Leased(look, lease.port + 1, lease.port,
                     Reallocate(look, lease.port))
        BY <4>1
      <4>3. Promised(look, lease.port + 1, {lease.port},
                     Reallocate(look, lease.port))
        BY AllocateKeepsPromise DEF Reallocate
      <4>4. lease.port # NoPort
        BY <2>2 DEF PortInv, StartContainer
      <4> QED
        BY <4>2, <4>3, <4>4, LeasedKeeps
    <3> QED
      BY <3>1, <3>2
  <2>3. CASE MappingBefore
    BY <2>3, LaterKeeps DEF MappingBefore, Later
  <2>4. CASE AttemptInspect
    <3>1. pc' \in Later
      BY <2>4, SettleIsLater DEF AttemptInspect, Later
    <3> QED
      BY <3>1, LaterKeeps
  <2>5. CASE AttemptRequest
    <3>1. pc' \in Later
      BY <2>5, SettleIsLater DEF AttemptRequest, Later
    <3> QED
      BY <3>1, LaterKeeps
  <2>6. CASE ProveMapping \/ ProveListener \/ ProveSockets \/ ProveGuest
    <3>1. pc' \in Later
      BY <2>6, SettleIsLater, UnprovenIsLater
         DEF ProveMapping, ProveListener, ProveSockets, ProveGuest, ProofStep,
             Unanswered, Later
    <3> QED
      BY <3>1, LaterKeeps
  <2>7. CASE InspectAfter \/ ListenerAfter
    <3>1. pc' \in Later
      BY <2>7, UnprovenIsLater DEF InspectAfter, ListenerAfter, Unanswered, Later
    <3> QED
      BY <3>1, LaterKeeps
  <2>8. CASE Surroundings
    <3>1. UNCHANGED <<lease, pc>>
      BY <2>8 DEF Surroundings, ForwarderBinds, ForeignBinds, ListenerLeaves,
                  AddressMoves, ContainerRestarts, ContainerExits, Change
    <3> QED
      BY <3>1 DEF PortInv, PortPromised
  <2>9. CASE UNCHANGED vars
    BY <2>9 DEF vars, PortInv, PortPromised
  <2> QED
    BY <2>1, <2>2, <2>3, <2>4, <2>5, <2>6, <2>7, <2>8, <2>9 DEF Next, Ask
<1>3. PortInv => PortPromised
  BY DEF PortInv
<1> QED
  BY <1>1, <1>2, <1>3, PTL DEF Spec
-----------------------------------------------------------------------------
(* Who a check that passed heard.  A response that waits for its proof is  *)
(* the last of the observations and is settled later.                      *)
Proving == {"prove_mapping", "prove_listener", "prove_sockets", "prove_guest"}
Waiting == pc \in Proving /\ ~chk.closing
Settled == IF Waiting THEN Len(chk.obs) - 1 ELSE Len(chk.obs)

(* All that has to hold of the surroundings for the path to be the one to  *)
(* the container.                                                          *)
Sound == ListenerIsForwarder /\ SocketsOwned /\ PathReachesGuest

Stranger(i) == chk.obs[i] # Nothing /\ chk.obs[i].by # "ours"

Persons == {"foreign", "nobody", "other", "ours"}
Resp == [by : Persons, run : Nat]
Chks == [n : Nat, obs : Seq(Resp), run : Nat, base : Nat, changed : BOOLEAN,
         used : BOOLEAN, proven : BOOLEAN, closing : BOOLEAN,
         hiccup : BOOLEAN,
         verdict : {"none", "healthy", "not_healthy", "exited"}]
AnyWorlds == [lo : {"none", "forwarder", "foreign"}, any : {"none", "foreign"},
              vm : BOOLEAN, run : Nat, up : BOOLEAN]

ChkTyped ==
    /\ chk \in Chks /\ given \in Givens /\ world \in AnyWorlds /\ events \in Nat
    /\ pc \in {"allocate", "start"} \union Later \union {"no_port"}

(* The successes that count are the last settled observations.             *)
CountRight ==
    /\ Settled \in Nat /\ chk.run <= Settled
    /\ \A i \in Settled - chk.run + 1 .. Settled : chk.obs[i] # Nothing

(* What the place of the check says of its flags.                          *)
PlaceRight ==
    /\ pc \in {"allocate", "start", "no_port", "mapping"} =>
          chk.obs = <<>> /\ ~chk.used
    /\ chk.proven = chk.used
    /\ pc \in {"allocate", "start", "no_port", "mapping", "attempt", "request",
               "inspect_after"} => ~chk.closing
    /\ pc \in Proving => chk.closing = chk.used
    /\ pc \in {"inspect_after", "listener_after", "passed_marker", "passed_path"}
          => chk.run >= Need
    /\ pc \in Proving /\ chk.closing => chk.run >= Need
    /\ pc \in {"listener_after", "passed_marker", "passed_path"} => chk.closing
    /\ pc = "passed_path" => chk.used
    /\ pc = "passed_marker" => ~chk.used

(* What a proof has found, when nothing has changed since.                 *)
FoundRight ==
    /\ pc \in {"prove_sockets", "prove_guest"} => ListenerIsForwarder
    /\ pc = "prove_guest" => SocketsOwned

(* Without the path, only the container's own marker counts.  Before any   *)
(* change, everybody heard is who would be heard now, and a proven path is *)
(* the right one.  After one change, more than one stranger is heard only  *)
(* where the path is wrong now, and then the closing proof does not pass.  *)
HeardRight ==
    /\ ~chk.used => \A i \in 1 .. Settled : ~Stranger(i)
    /\ events = 0 =>
          /\ \A i \in 1 .. Len(chk.obs) :
                chk.obs[i] # Nothing =>
                   chk.obs[i].by = ReachedBy /\ ReachedBy # "nobody"
          /\ FoundRight
          /\ chk.used => Sound
    /\ events = 1 /\ chk.used =>
          \/ \A i \in 1 .. Len(chk.obs) : ~Stranger(i)
          \/ /\ Sound
             /\ \A i, j \in 1 .. Len(chk.obs) :
                   Stranger(i) /\ Stranger(j) => i = j
          \/ /\ ~Sound /\ FoundRight
             /\ pc \notin {"listener_after", "passed_path"}

(* A response that waits for its proof is one.                             *)
WaitingRight == Waiting => chk.obs # <<>>

AttrInv == ChkTyped /\ CountRight /\ PlaceRight /\ WaitingRight
           /\ HeardRight

(* The sequence without its last element, and that element.                *)
LEMMA FrontAndLast ==
  ASSUME NEW S, NEW s \in Seq(S), s # <<>>
  PROVE  /\ Front(s) \in Seq(S) /\ Len(Front(s)) = Len(s) - 1
         /\ \A i \in 1 .. Len(s) - 1 : Front(s)[i] = s[i]
         /\ Last(s) \in S /\ Last(s) = s[Len(s)] /\ Len(s) \in Nat \ {0}
<1>1. Len(s) \in Nat /\ Len(s) # 0
  OBVIOUS
<1>2. Len(s) - 1 \in 0 .. Len(s) /\ 1 \in 1 .. Len(s) + 1
  BY <1>1
<1>3. /\ SubSeq(s, 1, Len(s) - 1) \in Seq(S)
      /\ Len(SubSeq(s, 1, Len(s) - 1)) =
           IF 1 <= Len(s) - 1 THEN Len(s) - 1 - 1 + 1 ELSE 0
      /\ \A i \in 1 .. Len(s) - 1 - 1 + 1 :
            SubSeq(s, 1, Len(s) - 1)[i] = s[1 + i - 1]
  BY <1>2, SubSeqProperties
<1>4. \A i \in 1 .. Len(s) - 1 : i \in 1 .. Len(s) - 1 - 1 + 1 /\ 1 + i - 1 = i
  BY <1>1
<1>5. Front(s) = SubSeq(s, 1, Len(s) - 1)
  BY DEF Front
<1>6. Last(s) = s[Len(s)]
  BY DEF Last
<1>7. Last(s) \in S
  BY <1>1, <1>6
<1>8. \A i \in 1 .. Len(s) - 1 : SubSeq(s, 1, Len(s) - 1)[i] = s[i]
  BY <1>3, <1>4
<1>9. Len(SubSeq(s, 1, Len(s) - 1)) = Len(s) - 1
  <2> DEFINE q == SubSeq(s, 1, Len(s) - 1)
  <2>1. Len(q) = IF 1 <= Len(s) - 1 THEN Len(s) - 1 - 1 + 1 ELSE 0
    BY <1>3
  <2> HIDE DEF q
  <2>2. PICK n, m : n = Len(s) /\ m = Len(q)
    BY <1>1
  <2>3. Len(q) = Len(s) - 1
    BY <1>1, <2>1, <2>2, SMT
  <2> QED
    BY <2>3 DEF q
<1> QED
  BY <1>1, <1>3, <1>5, <1>6, <1>7, <1>8, <1>9, Zenon

(* Whoever answers on a path that is sound is the container.               *)
LEMMA SoundReachesOurs == Sound => ReachedBy \in {"ours", "nobody"}
  BY DEF Sound, ListenerIsForwarder, SocketsOwned, PathReachesGuest, ReachedBy

LEMMA ReachedIsPerson == ReachedBy \in Persons
  BY DEF ReachedBy, Persons

(* What the loop does with one attempt.                                    *)
LEMMA CountGives ==
  ASSUME NEW c \in Chks, NEW by \in Resp
  PROVE  /\ Count(c, by) \in Chks
         /\ Count(c, by).obs = Append(c.obs, by)
         /\ Count(c, by).used = c.used /\ Count(c, by).proven = c.proven
         /\ Count(c, by).closing = c.closing
         /\ Count(c, by).changed = c.changed
         /\ Count(c, by).run = IF by # Nothing THEN c.run + 1 ELSE 0
<1> DEFINE run == IF by # Nothing THEN c.run + 1 ELSE 0
           v == IF Need > 0 /\ run >= Need THEN "healthy"
                ELSE IF c.n + 1 >= MaxAttempts THEN "not_healthy" ELSE "none"
<1>1. /\ c.run \in Nat /\ c.n \in Nat /\ c.obs \in Seq(Resp)
      /\ DOMAIN c = {"n", "obs", "run", "base", "changed", "used", "proven",
                     "closing", "hiccup", "verdict"}
  BY DEF Chks
<1>2. run \in Nat /\ v \in {"none", "healthy", "not_healthy", "exited"}
  BY <1>1
<1>3. Append(c.obs, by) \in Seq(Resp) /\ c.n + 1 \in Nat
  BY <1>1
<1>4. Count(c, by) = [c EXCEPT !.n = c.n + 1, !.run = run, !.verdict = v,
                               !.obs = Append(c.obs, by)]
  BY DEF Count, RunAfter
<1> HIDE DEF run, v
<1>5. [c EXCEPT !.n = c.n + 1, !.run = run, !.verdict = v,
                !.obs = Append(c.obs, by)] \in Chks
  BY <1>2, <1>3 DEF Chks
<1>6. run = IF by # Nothing THEN c.run + 1 ELSE 0
  BY DEF run
<1> QED
  BY <1>1, <1>4, <1>5, <1>6

LEMMA SameSurroundings ==
  ASSUME UNCHANGED <<given, world>>
  PROVE  /\ ReachedBy' = ReachedBy /\ (Sound' <=> Sound)
         /\ (ListenerIsForwarder' <=> ListenerIsForwarder)
         /\ (SocketsOwned' <=> SocketsOwned)
         /\ (PathReachesGuest' <=> PathReachesGuest)
  BY DEF ReachedBy, Sound, ListenerIsForwarder, SocketsOwned, PathReachesGuest

(* An attempt that is settled with the response `by`, or Nothing, `c` being *)
(* what the attempt left of the check without its waiting response.        *)
LEMMA SettleKeeps ==
  ASSUME AttrInv, NEW c \in Chks, NEW by \in Resp, Settle(c, by),
         UNCHANGED <<given, world, events>>,
         Len(c.obs) = Settled, c.run = chk.run,
         \A i \in 1 .. Settled : c.obs[i] = chk.obs[i],
         ~c.closing, c.proven = c.used, chk.used => c.used,
         ~c.used /\ by # Nothing => by.by = "ours",
         events = 0 \/ chk.used =>
            (by # Nothing => by.by = ReachedBy /\ ReachedBy # "nobody"),
         events = 0 /\ c.used => Sound
  PROVE  AttrInv'
<1> USE DEF AttrInv
<1>1. chk' = Count(c, by) /\ pc' = After(chk')
  BY DEF Settle
<1>2. pc' \in {"attempt", "changed", "inspect_after", "failed"}
  BY <1>1 DEF After
<1>3. /\ chk' \in Chks /\ chk'.obs = Append(c.obs, by)
      /\ chk'.used = c.used /\ chk'.proven = c.used /\ chk'.closing = FALSE
      /\ chk'.run = IF by # Nothing THEN c.run + 1 ELSE 0
  <2>1. c.closing = FALSE
    BY DEF Chks
  <2> QED
    BY <1>1, <2>1, CountGives
<1>4. pc' = "inspect_after" => chk'.run >= Need
  BY <1>1 DEF After, Validates
<1>5. c.obs \in Seq(Resp) /\ chk.obs \in Seq(Resp) /\ chk.run \in Nat /\ Settled \in Nat
  BY DEF Chks, ChkTyped, CountRight
<1>6. ~Waiting'
  BY <1>2 DEF Waiting, Proving
<1>7. Settled' = Settled + 1 /\ Len(chk'.obs) = Settled + 1
  BY <1>3, <1>5, <1>6 DEF Settled
<1>8. /\ \A i \in 1 .. Settled : chk'.obs[i] = chk.obs[i]
      /\ chk'.obs[Settled + 1] = by
  BY <1>3, <1>5
<1>9. \A i \in 1 .. Settled + 1 : i \in 1 .. Settled \/ i = Settled + 1
  BY <1>5
<1>10. ReachedBy' = ReachedBy /\ (Sound' <=> Sound)
  BY SameSurroundings
<1>11. ChkTyped'
  BY <1>2, <1>3 DEF ChkTyped, Later
<1>12. CountRight'
  <2>1. CASE by = Nothing
    BY <1>3, <1>5, <1>7, <2>1 DEF CountRight
  <2>2. CASE by # Nothing
    <3>1. chk'.run = chk.run + 1 /\ chk.run <= Settled
      BY <1>3, <2>2 DEF CountRight
    <3>2. ASSUME NEW i \in Settled + 1 - chk'.run + 1 .. Settled + 1
          PROVE  chk'.obs[i] # Nothing
      <4>1. CASE i = Settled + 1
        BY <1>8, <2>2, <4>1
      <4>2. CASE i # Settled + 1
        <5>1. i \in Settled - chk.run + 1 .. Settled /\ i \in 1 .. Settled
          BY <1>5, <3>1, <4>2
        <5> QED
          BY <1>8, <5>1 DEF CountRight
      <4> QED
        BY <4>1, <4>2
    <3> QED
      BY <1>5, <1>7, <3>1, <3>2 DEF CountRight
  <2> QED
    BY <2>1, <2>2
<1>13. PlaceRight'
  BY <1>2, <1>3, <1>4 DEF PlaceRight, Proving
<1>14. WaitingRight'
  BY <1>6 DEF WaitingRight
<1>15. chk.used => Settled = Len(chk.obs)
  BY DEF PlaceRight, Settled, Waiting
<1>16. \A i \in 1 .. Settled : Stranger(i)' <=> Stranger(i)
  <2> SUFFICES ASSUME NEW i \in 1 .. Settled PROVE Stranger(i)' <=> Stranger(i)
    OBVIOUS
  <2>1. chk'.obs[i] = chk.obs[i]
    BY <1>8
  <2> QED
    BY <2>1 DEF Stranger
<1>0. PICK last : last = Settled + 1
  OBVIOUS
<1>17. /\ by = Nothing \/ by.by = "ours" => ~Stranger(last)'
       /\ by.by # "ours" /\ by # Nothing => Stranger(last)'
  BY <1>0, <1>8 DEF Stranger
<1>18. HeardRight'
  <2>1. ~chk'.used => \A i \in 1 .. Settled' : ~Stranger(i)'
    <3> SUFFICES ASSUME ~chk'.used, NEW i \in 1 .. Settled + 1
                 PROVE  ~Stranger(i)'
      BY <1>7
    <3>1. ~chk.used /\ ~c.used
      BY <1>3
    <3>2. CASE i \in 1 .. Settled
      BY <1>16, <3>1, <3>2 DEF HeardRight
    <3>3. CASE i = Settled + 1
      BY <1>0, <1>17, <3>1, <3>3
    <3> QED
      BY <1>9, <3>2, <3>3
  <2>2. FoundRight'
    BY <1>2 DEF FoundRight
  <2>3. ASSUME events = 0
        PROVE  /\ \A i \in 1 .. Len(chk'.obs) : chk'.obs[i] # Nothing =>
                     chk'.obs[i].by = ReachedBy /\ ReachedBy # "nobody"
               /\ chk'.used => Sound
    <3>1. \A i \in 1 .. Settled : i \in 1 .. Len(chk.obs)
      BY <1>5 DEF Settled
    <3> QED
      BY <1>3, <1>7, <1>8, <1>9, <2>3, <3>1 DEF HeardRight
  <2>4. ASSUME events = 1, chk'.used
        PROVE  \/ \A i \in 1 .. Len(chk'.obs) : ~Stranger(i)'
               \/ /\ Sound
                  /\ \A i, j \in 1 .. Len(chk'.obs) :
                        Stranger(i)' /\ Stranger(j)' => i = j
               \/ ~Sound
    <3> SUFFICES ASSUME Sound
                 PROVE  \A i, j \in 1 .. Settled + 1 :
                           Stranger(i)' /\ Stranger(j)' => i = j
      BY <1>7
    <3>1. CASE chk.used
      <4>1. ~Stranger(last)'
        BY <1>17, <3>1, SoundReachesOurs
      <4>2. \A i, j \in 1 .. Settled : Stranger(i) /\ Stranger(j) => i = j
        BY <1>15, <2>4, <3>1 DEF HeardRight
      <4>3. \A i \in 1 .. Settled + 1 : Stranger(i)' =>
               i \in 1 .. Settled /\ Stranger(i)
        BY <1>0, <1>9, <1>16, <4>1
      <4> QED
        BY <4>2, <4>3
    <3>2. CASE ~chk.used
      <4>1. \A i \in 1 .. Settled : ~Stranger(i)'
        BY <1>16, <3>2 DEF HeardRight
      <4> QED
        BY <1>0, <1>9, <4>1
    <3> QED
      BY <3>1, <3>2
  <2>5. pc' \notin {"listener_after", "passed_path"}
    BY <1>2
  <2> QED
    BY <1>10, <2>1, <2>2, <2>3, <2>4, <2>5 DEF HeardRight
<1> QED
  BY <1>11, <1>12, <1>13, <1>14, <1>18

(* A step that hears nobody.                                               *)
LEMMA MoveKeeps ==
  ASSUME AttrInv, UNCHANGED <<given, world, events>>,
         chk' \in Chks, chk'.obs = chk.obs, chk'.run = chk.run,
         chk'.used = chk.used,
         pc' \in {"allocate", "start", "no_port"} \union Later,
         Waiting' <=> Waiting, PlaceRight',
         FoundRight => FoundRight',
         /\ FoundRight /\ ~Sound /\ chk.used
         /\ pc \notin {"listener_after", "passed_path"}
         => pc' \notin {"listener_after", "passed_path"}
  PROVE  AttrInv'
<1> USE DEF AttrInv
<1>1. Settled' = Settled
  BY DEF Settled
<1>2. \A i : Stranger(i)' <=> Stranger(i)
  BY DEF Stranger
<1>3. ReachedBy' = ReachedBy /\ (Sound' <=> Sound)
  BY SameSurroundings
<1>4. ChkTyped'
  BY DEF ChkTyped
<1>5. CountRight'
  BY <1>1 DEF CountRight
<1>6. WaitingRight'
  BY DEF WaitingRight
<1>7. HeardRight'
  <2>1. ~chk'.used => \A i \in 1 .. Settled' : ~Stranger(i)'
    BY <1>1, <1>2 DEF HeardRight
  <2>2. ASSUME events = 0
        PROVE  /\ \A i \in 1 .. Len(chk'.obs) : chk'.obs[i] # Nothing =>
                     chk'.obs[i].by = ReachedBy /\ ReachedBy # "nobody"
               /\ FoundRight'
               /\ chk'.used => Sound
    BY <2>2 DEF HeardRight
  <2>3. ASSUME events = 1, chk'.used
        PROVE  \/ \A i \in 1 .. Len(chk'.obs) : ~Stranger(i)'
               \/ /\ Sound
                  /\ \A i, j \in 1 .. Len(chk'.obs) :
                        Stranger(i)' /\ Stranger(j)' => i = j
               \/ /\ ~Sound /\ FoundRight'
                  /\ pc' \notin {"listener_after", "passed_path"}
    BY <1>2, <2>3 DEF HeardRight
  <2> QED
    BY <1>3, <2>1, <2>2, <2>3 DEF HeardRight
<1> QED
  BY <1>4, <1>5, <1>6, <1>7

(* A proof that fails: the waiting response is settled as a failure, and a *)
(* closing proof refuses the check.                                        *)
LEMMA UnprovenKeeps ==
  ASSUME AttrInv, pc \in Proving, NEW c \in Chks, Unproven(c),
         UNCHANGED <<given, world, events>>,
         c.obs = chk.obs, c.run = chk.run, c.used = chk.used,
         c.proven = chk.proven, c.closing = chk.closing
  PROVE  AttrInv'
<1>1. CASE c.closing
  <2>1. chk' = c /\ pc' = "refused" /\ chk.closing /\ ~Waiting
    BY <1>1 DEF Unproven, Waiting
  <2>2. ~Waiting' /\ FoundRight'
    BY <2>1 DEF Waiting, Proving, FoundRight
  <2>3. PlaceRight'
    BY <2>1 DEF AttrInv, PlaceRight, Proving
  <2> QED
    BY <2>1, <2>2, <2>3, MoveKeeps DEF Later
<1>2. CASE ~c.closing
  <2>1. PICK d : d = [c EXCEPT !.obs = Front(c.obs)]
    OBVIOUS
  <2>2. Settle(d, Nothing)
    BY <1>2, <2>1 DEF Unproven
  <2>3. chk.obs \in Seq(Resp) /\ chk.obs # <<>> /\ Settled = Len(chk.obs) - 1
    BY <1>2 DEF AttrInv, ChkTyped, Chks, WaitingRight, Waiting, Settled
  <2>4. /\ Front(c.obs) \in Seq(Resp) /\ Len(Front(c.obs)) = Settled
        /\ \A i \in 1 .. Settled : Front(c.obs)[i] = chk.obs[i]
    BY <2>3, FrontAndLast
  <2>5. /\ d \in Chks /\ d.obs = Front(c.obs) /\ d.run = chk.run
        /\ d.used = chk.used /\ d.proven = chk.proven /\ ~d.closing
    BY <1>2, <2>1, <2>4 DEF Chks
  <2>6. Nothing \in Resp
    BY DEF Nothing, Resp, Persons
  <2>7. d.proven = d.used /\ (events = 0 /\ d.used => Sound)
    BY <2>5 DEF AttrInv, PlaceRight, HeardRight
  <2> QED
    BY <2>2, <2>4, <2>5, <2>6, <2>7, SettleKeeps
<1> QED
  BY <1>1, <1>2

LEMMA UnansweredKeeps ==
  ASSUME AttrInv, pc \in Proving, Unanswered, UNCHANGED <<given, world, events>>
  PROVE  AttrInv'
<1>1. PICK c : c = [chk EXCEPT !.hiccup = TRUE]
  OBVIOUS
<1>2. Unproven(c)
  BY <1>1 DEF Unanswered
<1>3. chk \in Chks
  BY DEF AttrInv, ChkTyped
<1>4. /\ c \in Chks /\ c.obs = chk.obs /\ c.run = chk.run
      /\ c.used = chk.used /\ c.proven = chk.proven /\ c.closing = chk.closing
  BY <1>1, <1>3 DEF Chks
<1> QED
  BY <1>2, <1>4, UnprovenKeeps

(* One step of a proof, of a waiting response or closing.                  *)
LEMMA ProofStepKeeps ==
  ASSUME AttrInv, NEW here \in Proving, NEW holds,
         NEW next \in Proving \union {"listener_after"},
         ProofStep(here, holds, next),
         next = "listener_after" => chk.closing,
         holds /\ FoundRight /\ next = "prove_sockets" => ListenerIsForwarder,
         holds /\ FoundRight /\ next = "prove_guest" => ListenerIsForwarder /\ SocketsOwned,
         holds /\ FoundRight /\ next = "listener_after" => Sound
  PROVE  AttrInv'
<1>1. pc = here /\ UNCHANGED <<given, world, events>>
  BY DEF ProofStep
<1>2. CASE holds /\ pc' = next /\ chk' = chk
  <2>1. Waiting' <=> Waiting
    BY <1>1, <1>2 DEF Waiting, Proving
  <2>2. PlaceRight'
    BY <1>1, <1>2 DEF AttrInv, PlaceRight, Proving
  <2>3. FoundRight => FoundRight'
    BY <1>1, <1>2, SameSurroundings DEF FoundRight, Proving
  <2>4. chk' \in Chks /\ pc' \in Later
    BY <1>2 DEF AttrInv, ChkTyped, Later, Proving
  <2>5. FoundRight /\ ~Sound => pc' \notin {"listener_after", "passed_path"}
    BY <1>2 DEF Proving
  <2> QED
    BY <1>1, <1>2, <2>1, <2>2, <2>3, <2>4, <2>5, MoveKeeps
<1>3. CASE Unproven(chk)
  BY <1>1, <1>3, UnprovenKeeps DEF AttrInv, ChkTyped
<1>4. CASE Unanswered
  BY <1>1, <1>4, UnansweredKeeps
<1> QED
  BY <1>2, <1>3, <1>4 DEF ProofStep

(* The container starts, with nobody heard yet; or there is none.          *)
LEMMA StartKeeps ==
  ASSUME AttrInv, AllocatePort \/ StartContainer
  PROVE  AttrInv'
<1> USE DEF AttrInv
<1>1. /\ pc \in {"allocate", "start"} /\ chk' = chk /\ events' = events
      /\ pc' \in {"start", "no_port", "mapping", "failed"}
      /\ given' \in Givens /\ world' \in AnyWorlds
  <2>1. WorldsAtStart \subseteq AnyWorlds /\ GivensAtStart \subseteq Givens
    BY DEF WorldsAtStart, GivensAtStart, Worlds, AnyWorlds
  <2>2. CASE AllocatePort
    BY <2>2 DEF AllocatePort, Leased, ChkTyped
  <2>3. CASE StartContainer
    BY <2>1, <2>3 DEF StartContainer, Leased, ChkTyped
  <2> QED
    BY <2>2, <2>3
<1>2. chk.obs = <<>> /\ ~chk.used /\ Len(chk.obs) = 0
  BY <1>1 DEF PlaceRight
<1>3. ~Waiting /\ ~Waiting'
  BY <1>1 DEF Waiting, Proving
<1>4. Settled = 0 /\ Settled' = 0
  BY <1>1, <1>2, <1>3 DEF Settled
<1>5. ChkTyped'
  BY <1>1 DEF ChkTyped, Later
<1>6. CountRight'
  BY <1>1, <1>4 DEF CountRight
<1>7. PlaceRight'
  BY <1>1 DEF PlaceRight, Proving
<1>8. WaitingRight'
  BY <1>3 DEF WaitingRight
<1>9. HeardRight'
  BY <1>1, <1>2, <1>4 DEF HeardRight, FoundRight
<1> QED
  BY <1>5, <1>6, <1>7, <1>8, <1>9

LEMMA HiccupIsChk ==
  ASSUME AttrInv, NEW i
  PROVE  /\ Hiccup(i) \in Chks /\ Hiccup(i).obs = chk.obs
         /\ Hiccup(i).run = chk.run /\ Hiccup(i).used = chk.used
         /\ Hiccup(i).proven = chk.proven /\ Hiccup(i).closing = chk.closing
         /\ Hiccup(i).base = chk.base /\ Hiccup(i).changed = chk.changed
<1>1. PICK b \in BOOLEAN : b = (chk.hiccup \/ i = "error")
  OBVIOUS
<1>2. Hiccup(i) = [chk EXCEPT !.hiccup = b]
  BY <1>1 DEF Hiccup
<1>3. chk \in Chks
  BY DEF AttrInv, ChkTyped
<1>4. [chk EXCEPT !.hiccup = b] \in Chks
  BY <1>1, <1>3 DEF Chks
<1> QED
  BY <1>2, <1>3, <1>4 DEF Chks

LEMMA MappingKeeps ==
  ASSUME AttrInv, MappingBefore
  PROVE  AttrInv'
<1>1. PICK i : chk' = Hiccup(i)
  BY DEF MappingBefore
<1>2. /\ pc = "mapping" /\ pc' \in {"failed", "refused", "attempt"}
      /\ UNCHANGED <<given, world, events>>
  BY DEF MappingBefore
<1>3. /\ chk' \in Chks /\ chk'.obs = chk.obs /\ chk'.run = chk.run
      /\ chk'.used = chk.used /\ chk'.proven = chk.proven
      /\ chk'.closing = chk.closing
  BY <1>1, HiccupIsChk
<1>4. ~Waiting /\ ~Waiting' /\ FoundRight'
  BY <1>2 DEF Waiting, Proving, FoundRight
<1>5. PlaceRight'
  BY <1>2, <1>3 DEF AttrInv, PlaceRight, Proving
<1> QED
  BY <1>2, <1>3, <1>4, <1>5, MoveKeeps DEF Later

(* Who settles from the place of an attempt has heard nobody before.       *)
LEMMA NothingIsResp == Nothing \in Resp
  BY DEF Nothing, Resp, Persons

LEMMA AttemptKeeps ==
  ASSUME AttrInv, pc \in {"attempt", "request"}, NEW c \in Chks,
         NEW by \in Resp, Settle(c, by), UNCHANGED <<given, world, events>>,
         c.obs = chk.obs, c.run = chk.run, ~c.closing,
         c.proven = c.used, chk.used => c.used,
         ~c.used /\ by # Nothing => by.by = "ours",
         by # Nothing => by.by = ReachedBy /\ ReachedBy # "nobody",
         events = 0 /\ c.used => Sound
  PROVE  AttrInv'
<1>1. Settled = Len(chk.obs)
  BY DEF Settled, Waiting, Proving
<1> QED
  BY <1>1, SettleKeeps

LEMMA InspectKeeps ==
  ASSUME AttrInv, AttemptInspect
  PROVE  AttrInv'
<1>1. PICK i \in Inspects :
         LET c == Hiccup(i) IN
             CASE i = "down" ->
                    /\ chk' = [c EXCEPT !.verdict = "exited"]
                    /\ pc' = IF c.changed THEN "changed" ELSE "failed"
               [] i = "error" -> Settle(c, Nothing)
               [] i = "up" /\ given.proof /\ Differs(c.base) ->
                    Settle([c EXCEPT !.changed = TRUE], Nothing)
               [] OTHER ->
                    /\ chk' = IF given.proof /\ c.base = NoBase
                              THEN [c EXCEPT !.base = Baseline] ELSE c
                    /\ pc' = "request"
  BY DEF AttemptInspect
<1>2. pc = "attempt" /\ UNCHANGED <<given, world, events>>
  BY DEF AttemptInspect
<1>3. PICK c : c = Hiccup(i)
  OBVIOUS
<1>4. /\ c \in Chks /\ c.obs = chk.obs /\ c.run = chk.run
      /\ c.used = chk.used /\ c.proven = chk.proven /\ c.closing = chk.closing
  BY <1>3, HiccupIsChk
<1>5. chk.closing = FALSE /\ chk.proven = chk.used
  BY <1>2 DEF AttrInv, PlaceRight, ChkTyped, Chks
<1>6. events = 0 /\ chk.used => Sound
  BY DEF AttrInv, HeardRight
<1>7. ~Waiting
  BY <1>2 DEF Waiting, Proving
<1>8. CASE i = "down"
  <2>1. chk' = [c EXCEPT !.verdict = "exited"] /\ pc' \in {"changed", "failed"}
    BY <1>1, <1>3, <1>8
  <2>2. /\ chk' \in Chks /\ chk'.obs = c.obs /\ chk'.run = c.run
        /\ chk'.used = c.used /\ chk'.proven = c.proven
    BY <1>4, <2>1 DEF Chks
  <2>3. ~Waiting' /\ FoundRight' /\ PlaceRight'
    BY <1>4, <1>5, <2>1, <2>2 DEF Waiting, Proving, FoundRight, PlaceRight
  <2> QED
    BY <1>2, <1>4, <1>7, <2>1, <2>2, <2>3, MoveKeeps DEF Later
<1>9. CASE i = "error"
  <2>1. Settle(c, Nothing)
    BY <1>1, <1>3, <1>9
  <2> QED
    BY <1>2, <1>4, <1>5, <1>6, <2>1, NothingIsResp, AttemptKeeps
<1>10. CASE i = "up" /\ given.proof /\ Differs(c.base)
  <2>1. PICK d : d = [c EXCEPT !.changed = TRUE]
    OBVIOUS
  <2>2. Settle(d, Nothing)
    BY <1>1, <1>3, <1>10, <2>1
  <2>3. /\ d \in Chks /\ d.obs = c.obs /\ d.run = c.run
        /\ d.used = c.used /\ d.proven = c.proven /\ d.closing = c.closing
    BY <1>4, <2>1 DEF Chks
  <2> QED
    BY <1>2, <1>4, <1>5, <1>6, <2>2, <2>3, NothingIsResp, AttemptKeeps
<1>11. CASE i = "up" /\ ~(given.proof /\ Differs(c.base))
  <2>1. /\ chk' = IF given.proof /\ c.base = NoBase
                  THEN [c EXCEPT !.base = Baseline] ELSE c
        /\ pc' = "request"
    BY <1>1, <1>3, <1>11
  <2>2. Baseline \in Nat
    BY DEF Baseline, NoBase, AttrInv, ChkTyped, AnyWorlds
  <2>3. /\ chk' \in Chks /\ chk'.obs = c.obs /\ chk'.run = c.run
        /\ chk'.used = c.used /\ chk'.proven = c.proven
        /\ chk'.closing = c.closing
    BY <1>4, <2>1, <2>2 DEF Chks
  <2>4. ~Waiting' /\ FoundRight' /\ PlaceRight'
    BY <1>4, <1>5, <2>1, <2>3 DEF Waiting, Proving, FoundRight, PlaceRight
  <2> QED
    BY <1>2, <1>4, <1>7, <2>1, <2>3, <2>4, MoveKeeps DEF Later
<1> QED
  BY <1>8, <1>9, <1>10, <1>11 DEF Inspects

(* Only the container's own application answers with its marker.           *)
LEMMA MarkerIsOurs ==
  ASSUME NEW mark \in Marks(ReachedBy)
  PROVE  /\ Judge(mark) \in {"counts", "gate", "fails"}
         /\ Judge(mark) = "counts" => ReachedBy = "ours"
  BY DEF Marks, Judge

LEMMA RequestKeeps ==
  ASSUME AttrInv, AttemptRequest
  PROVE  AttrInv'
<1>1. PICK mark \in Marks(ReachedBy), ok \in BOOLEAN :
          CASE ~Answered(ok) \/ Judge(mark) = "fails" ->
                  Settle(chk, Nothing)
            [] Answered(ok) /\ Judge(mark) = "counts" ->
                  Settle(chk, Response(ReachedBy))
            [] Answered(ok) /\ Judge(mark) = "gate" /\ chk.proven ->
                  Settle([chk EXCEPT !.used = TRUE],
                         Response(ReachedBy))
            [] OTHER ->
                  /\ chk' = [chk EXCEPT !.obs = Append(@, Response(ReachedBy))]
                  /\ pc' = "prove_mapping"
  BY DEF AttemptRequest
<1>2. pc = "request" /\ UNCHANGED <<given, world, events>>
  BY DEF AttemptRequest
<1>3. chk \in Chks /\ ~chk.closing /\ chk.closing = FALSE /\ chk.proven = chk.used
  BY <1>2 DEF AttrInv, PlaceRight, ChkTyped, Chks
<1>4. events = 0 /\ chk.used => Sound
  BY DEF AttrInv, HeardRight
<1>5. PICK resp : resp = Response(ReachedBy)
  OBVIOUS
<1>6. resp \in Resp /\ resp.by = ReachedBy
  BY <1>5, ReachedIsPerson DEF Response, Resp, AttrInv, ChkTyped, AnyWorlds
<1>7. Answered(ok) => ReachedBy # "nobody"
  BY DEF Answered
<1>8. CASE ~Answered(ok) \/ Judge(mark) = "fails"
  <2>1. Settle(chk, Nothing)
    BY <1>1, <1>8
  <2> QED
    BY <1>2, <1>3, <1>4, <2>1, NothingIsResp, AttemptKeeps
<1>9. CASE Answered(ok) /\ Judge(mark) = "counts"
  <2>1. Settle(chk, resp)
    BY <1>1, <1>5, <1>9
  <2>2. resp.by = "ours"
    BY <1>6, <1>9, MarkerIsOurs
  <2> QED
    BY <1>2, <1>3, <1>4, <1>6, <1>7, <1>9, <2>1, <2>2, AttemptKeeps
<1>10. CASE Answered(ok) /\ Judge(mark) = "gate" /\ chk.proven
  <2>1. [chk EXCEPT !.used = TRUE] = chk
    BY <1>3, <1>10 DEF Chks
  <2>2. Settle([chk EXCEPT !.used = TRUE], Response(ReachedBy))
    BY <1>1, <1>10
  <2>3. Settle(chk, resp)
    BY <1>5, <2>1, <2>2
  <2> QED
    BY <1>2, <1>3, <1>4, <1>6, <1>7, <1>10, <2>3, AttemptKeeps
<1>11. CASE Answered(ok) /\ Judge(mark) = "gate" /\ ~chk.proven
  <2>1. /\ chk' = [chk EXCEPT !.obs = Append(chk.obs, resp)]
        /\ pc' = "prove_mapping"
    BY <1>1, <1>5, <1>11
  <2>2. chk.obs \in Seq(Resp)
    BY <1>3 DEF Chks
  <2>0. Append(chk.obs, resp) \in Seq(Resp)
    BY <1>6, <2>2
  <2>3. PICK obs : obs = Append(chk.obs, resp) /\ obs \in Seq(Resp)
    BY <2>0
  <2>4. chk' = [chk EXCEPT !.obs = obs]
    BY <2>1, <2>3
  <2>5. /\ chk' \in Chks /\ chk'.obs = obs /\ chk'.run = chk.run
        /\ chk'.used = chk.used /\ chk'.proven = chk.proven
        /\ chk'.closing = chk.closing
    BY <1>3, <2>3, <2>4 DEF Chks
  <2>6. /\ Len(obs) = Len(chk.obs) + 1 /\ Len(chk.obs) \in Nat
        /\ \A j \in 1 .. Len(chk.obs) : obs[j] = chk.obs[j]
        /\ obs[Len(chk.obs) + 1] = resp /\ obs # <<>>
    BY <1>6, <2>2, <2>3
  <2>7. ~Waiting /\ Waiting' /\ ~chk.used
    BY <1>2, <1>3, <1>11, <2>1, <2>5 DEF Waiting, Proving
  <2>8. Settled = Len(chk.obs) /\ Settled' = Len(chk.obs)
    BY <2>5, <2>6, <2>7 DEF Settled
  <2>9. ChkTyped'
    BY <1>2, <2>1, <2>5 DEF AttrInv, ChkTyped, Later
  <2>10. CountRight'
    <3>1. \A j \in Settled - chk.run + 1 .. Settled : j \in 1 .. Settled
      BY <1>3, <2>6, <2>8 DEF AttrInv, CountRight, Chks
    <3> QED
      BY <2>5, <2>6, <2>8, <3>1 DEF AttrInv, CountRight
  <2>11. PlaceRight'
    <3>1. chk.used = FALSE /\ chk.closing = FALSE
      BY <1>3, <2>7 DEF Chks
    <3>2. chk'.used = FALSE /\ chk'.closing = FALSE /\ chk'.proven = FALSE
      BY <1>3, <2>5, <3>1
    <3> QED
      BY <2>1, <3>2 DEF PlaceRight, Proving
  <2>12. WaitingRight'
    BY <2>5, <2>6 DEF WaitingRight
  <2>13. \A j \in 1 .. Len(chk.obs) : Stranger(j)' <=> Stranger(j)
    <3> SUFFICES ASSUME NEW j \in 1 .. Len(chk.obs)
                 PROVE  Stranger(j)' <=> Stranger(j)
      OBVIOUS
    <3>1. chk'.obs[j] = chk.obs[j]
      BY <2>5, <2>6
    <3> QED
      BY <3>1 DEF Stranger
  <2>14. HeardRight'
    <3>1. \A j \in 1 .. Settled' : ~Stranger(j)'
      BY <2>7, <2>8, <2>13 DEF AttrInv, HeardRight
    <3>2. ReachedBy' = ReachedBy
      BY <1>2, SameSurroundings
    <3>3. ASSUME events = 0, NEW j \in 1 .. Len(obs)
          PROVE  obs[j] # Nothing => obs[j].by = ReachedBy /\ ReachedBy # "nobody"
      <4>1. j \in 1 .. Len(chk.obs) \/ j = Len(chk.obs) + 1
        BY <2>6
      <4> QED
        BY <1>6, <1>7, <1>11, <2>6, <3>3, <4>1 DEF AttrInv, HeardRight
    <3>4. FoundRight'
      BY <2>1 DEF FoundRight
    <3> QED
      BY <1>2, <2>5, <2>7, <3>1, <3>2, <3>3, <3>4 DEF HeardRight
  <2> QED
    BY <2>9, <2>10, <2>11, <2>12, <2>14 DEF AttrInv
<1> QED
  BY <1>8, <1>9, <1>10, <1>11, MarkerIsOurs

(* The steps of a proof.                                                   *)
LEMMA ProveKeeps ==
  ASSUME AttrInv, ProveMapping \/ ProveListener \/ ProveSockets
  PROVE  AttrInv'
<1>1. CASE ProveMapping
  <2>1. PICK h \in BOOLEAN : h <=> (world.up /\ MappingRight)
    OBVIOUS
  <2>2. ProofStep("prove_mapping", h, "prove_listener")
    BY <1>1, <2>1 DEF ProveMapping, ProofStep
  <2> QED
    BY <2>2, ProofStepKeeps DEF Proving
<1>2. CASE ProveListener
  <2>1. PICK h \in BOOLEAN : h <=> ListenerIsForwarder
    OBVIOUS
  <2>2. ProofStep("prove_listener", h, "prove_sockets")
    BY <1>2, <2>1 DEF ProveListener, ProofStep
  <2> QED
    BY <2>1, <2>2, ProofStepKeeps DEF Proving
<1>3. CASE ProveSockets
  <2>1. PICK h \in BOOLEAN : h <=> SocketsOwned
    OBVIOUS
  <2>2. ProofStep("prove_sockets", h, "prove_guest")
    BY <1>3, <2>1 DEF ProveSockets, ProofStep
  <2>3. pc = "prove_sockets"
    BY <2>2 DEF ProofStep
  <2> QED
    BY <2>1, <2>2, <2>3, ProofStepKeeps DEF Proving, FoundRight
<1> QED
  BY <1>1, <1>2, <1>3

LEMMA ProveGuestKeeps ==
  ASSUME AttrInv, ProveGuest
  PROVE  AttrInv'
<1>1. pc = "prove_guest" /\ UNCHANGED <<given, world, events>>
  BY DEF ProveGuest, ProofStep
<1>2. CASE chk.closing /\ ProofStep("prove_guest", PathReachesGuest, "listener_after")
  <2>1. PICK h \in BOOLEAN : h <=> PathReachesGuest
    OBVIOUS
  <2>2. ProofStep("prove_guest", h, "listener_after")
    BY <1>2, <2>1 DEF ProofStep
  <2>3. h /\ FoundRight => Sound
    BY <1>1, <2>1 DEF FoundRight, Sound
  <2> QED
    BY <1>2, <2>2, <2>3, ProofStepKeeps DEF Proving
<1>3. CASE /\ ~chk.closing /\ PathReachesGuest
           /\ Settle([chk EXCEPT !.obs = Front(@), !.proven = TRUE,
                                 !.used = TRUE], Last(chk.obs))
  <2>1. PICK d : d = [chk EXCEPT !.obs = Front(chk.obs), !.proven = TRUE,
                                 !.used = TRUE]
    OBVIOUS
  <2>2. Settle(d, Last(chk.obs))
    BY <1>3, <2>1
  <2>3. chk \in Chks /\ chk.obs \in Seq(Resp) /\ Waiting /\ chk.obs # <<>>
    BY <1>1, <1>3 DEF AttrInv, ChkTyped, Chks, WaitingRight, Waiting, Proving
  <2>4. Settled = Len(chk.obs) - 1
    BY <2>3 DEF Settled
  <2>5. /\ Front(chk.obs) \in Seq(Resp) /\ Len(Front(chk.obs)) = Settled
        /\ \A i \in 1 .. Settled : Front(chk.obs)[i] = chk.obs[i]
        /\ Last(chk.obs) \in Resp /\ Last(chk.obs) = chk.obs[Len(chk.obs)]
        /\ Len(chk.obs) \in 1 .. Len(chk.obs)
    <3>1. /\ Front(chk.obs) \in Seq(Resp)
          /\ Len(Front(chk.obs)) = Len(chk.obs) - 1
          /\ \A i \in 1 .. Len(chk.obs) - 1 : Front(chk.obs)[i] = chk.obs[i]
          /\ Last(chk.obs) \in Resp /\ Last(chk.obs) = chk.obs[Len(chk.obs)]
          /\ Len(chk.obs) \in Nat \ {0}
      BY <2>3, FrontAndLast
    <3> QED
      BY <2>4, <3>1
  <2>6. /\ d \in Chks /\ d.obs = Front(chk.obs) /\ d.run = chk.run
        /\ d.used = TRUE /\ d.proven = TRUE /\ ~d.closing
    BY <1>3, <2>1, <2>3, <2>5 DEF Chks
  <2>7. ~chk.used
    BY <1>1, <1>3 DEF AttrInv, PlaceRight, Proving
  <2>8. events = 0 /\ Last(chk.obs) # Nothing =>
          Last(chk.obs).by = ReachedBy /\ ReachedBy # "nobody"
    BY <2>5 DEF AttrInv, HeardRight
  <2>9. events = 0 => Sound
    BY <1>1, <1>3 DEF AttrInv, HeardRight, FoundRight, Sound
  <2> QED
    BY <1>1, <2>2, <2>5, <2>6, <2>7, <2>8, <2>9, SettleKeeps
<1>4. CASE Unproven(chk)
  BY <1>1, <1>4, UnprovenKeeps DEF AttrInv, ChkTyped, Proving
<1>5. CASE Unanswered
  BY <1>1, <1>5, UnansweredKeeps DEF Proving
<1> QED
  BY <1>2, <1>3, <1>4, <1>5 DEF ProveGuest

LEMMA InspectAfterKeeps ==
  ASSUME AttrInv, InspectAfter
  PROVE  AttrInv'
<1>1. PICK i : /\ chk' = [Hiccup(i) EXCEPT !.closing = TRUE]
               /\ \/ pc' \in {"failed", "refused"}
                  \/ pc' = IF chk.used THEN "prove_mapping" ELSE "listener_after"
  BY DEF InspectAfter
<1>2. pc = "inspect_after" /\ UNCHANGED <<given, world, events>>
  BY DEF InspectAfter
<1>3. PICK c : c = Hiccup(i)
  OBVIOUS
<1>4. /\ c \in Chks /\ c.obs = chk.obs /\ c.run = chk.run
      /\ c.used = chk.used /\ c.proven = chk.proven
  BY <1>3, HiccupIsChk
<1>5. /\ chk' \in Chks /\ chk'.obs = chk.obs /\ chk'.run = chk.run
      /\ chk'.used = chk.used /\ chk'.proven = chk.proven
      /\ chk'.closing = TRUE
  BY <1>1, <1>3, <1>4 DEF Chks
<1>6. ~Waiting /\ ~Waiting'
  BY <1>2, <1>5 DEF Waiting, Proving
<1>7. FoundRight' /\ (chk.used => pc' \notin {"listener_after", "passed_path"})
  BY <1>1 DEF FoundRight
<1>8. chk.used \in BOOLEAN
  BY DEF AttrInv, ChkTyped, Chks
<1>9. PlaceRight'
  <2>1. /\ pc' \in {"failed", "refused", "prove_mapping", "listener_after"}
        /\ pc' = "prove_mapping" => chk.used
    BY <1>1
  <2>2. chk.proven = chk.used /\ chk.run >= Need
    BY <1>2 DEF AttrInv, PlaceRight
  <2> QED
    BY <1>5, <1>8, <2>1, <2>2 DEF PlaceRight, Proving
<1>10. pc' \in Later
  BY <1>1 DEF Later
<1> QED
  BY <1>2, <1>5, <1>6, <1>7, <1>9, <1>10, MoveKeeps

LEMMA ListenerAfterKeeps ==
  ASSUME AttrInv, ListenerAfter
  PROVE  AttrInv'
<1>1. pc = "listener_after" /\ UNCHANGED <<given, world, events>>
  BY DEF ListenerAfter
<1>2. chk.closing /\ ~Waiting
  BY <1>1 DEF AttrInv, PlaceRight, Waiting
<1>3. chk \in Chks /\ chk.proven = chk.used /\ chk.run >= Need
  BY <1>1 DEF AttrInv, ChkTyped, PlaceRight
<1>4. /\ \/ /\ pc' = IF ~ListenerIsForwarder THEN "refused"
                     ELSE IF chk.used THEN "passed_path" ELSE "passed_marker"
            /\ chk' = chk
         \/ chk' = [chk EXCEPT !.hiccup = TRUE] /\ pc' = "refused"
  <2>1. [chk EXCEPT !.hiccup = TRUE].closing
    BY <1>2, <1>3 DEF Chks
  <2> QED
    BY <2>1 DEF ListenerAfter, Unanswered, Unproven
<1>5. /\ chk' \in Chks /\ chk'.obs = chk.obs /\ chk'.run = chk.run
      /\ chk'.used = chk.used /\ chk'.proven = chk.proven
      /\ chk'.closing = chk.closing
  BY <1>3, <1>4 DEF Chks
<1>6. /\ pc' \in {"refused", "passed_path", "passed_marker"}
      /\ pc' = "passed_path" => chk.used
      /\ pc' = "passed_marker" => ~chk.used
  BY <1>4
<1>7. ~Waiting' /\ FoundRight' /\ pc' \in Later
  BY <1>6 DEF Waiting, Proving, FoundRight, Later
<1>8. PlaceRight'
  BY <1>2, <1>3, <1>5, <1>6 DEF PlaceRight, Proving
<1> QED
  BY <1>1, <1>2, <1>5, <1>7, <1>8, MoveKeeps

(* The first change comes upon a check of which all that was heard is the  *)
(* container's own, or whose path is not proven yet.                       *)
LEMMA ChangeKeeps ==
  ASSUME AttrInv, Surroundings
  PROVE  AttrInv'
<1>1. UNCHANGED <<given, chk, pc>> /\ events' = events + 1
  BY DEF Surroundings, ForwarderBinds, ForeignBinds, ListenerLeaves,
         AddressMoves, ContainerRestarts, ContainerExits, Change
<1>2. world' \in AnyWorlds
  <2>1. world \in AnyWorlds
    BY DEF AttrInv, ChkTyped
  <2>2. \/ \E x \in {"none", "forwarder", "foreign"} : world' = [world EXCEPT !.lo = x]
        \/ \E x \in {"none", "foreign"} : world' = [world EXCEPT !.any = x]
        \/ \E x \in BOOLEAN : world' = [world EXCEPT !.vm = x]
        \/ world' = [world EXCEPT !.run = @ + 1, !.up = TRUE]
        \/ world' = [world EXCEPT !.up = FALSE]
    <3>1. CASE AddressMoves
      BY <3>1 DEF AddressMoves, Change
    <3>2. CASE ContainerRestarts \/ ContainerExits
      BY <3>2 DEF ContainerRestarts, ContainerExits, Change
    <3>3. CASE ForwarderBinds \/ ForeignBinds \/ ListenerLeaves
      BY <3>3 DEF ForwarderBinds, ForeignBinds, ListenerLeaves, Change
    <3> QED
      BY <3>1, <3>2, <3>3 DEF Surroundings
  <2>3. \A w \in AnyWorlds : w.run + 1 \in Nat
    BY DEF AnyWorlds
  <2>4. \A w \in AnyWorlds :
          /\ \A x \in {"none", "forwarder", "foreign"} :
                [w EXCEPT !.lo = x] \in AnyWorlds
          /\ \A x \in {"none", "foreign"} : [w EXCEPT !.any = x] \in AnyWorlds
          /\ \A x \in BOOLEAN : [w EXCEPT !.vm = x] \in AnyWorlds
          /\ [w EXCEPT !.up = FALSE] \in AnyWorlds
          /\ \A n \in Nat : [w EXCEPT !.run = n, !.up = TRUE] \in AnyWorlds
    BY DEF AnyWorlds
  <2> QED
    BY <2>1, <2>2, <2>3, <2>4
<1>3. events \in Nat
  BY DEF AttrInv, ChkTyped
<1>4. Settled' = Settled /\ (Waiting' <=> Waiting)
  BY <1>1 DEF Settled, Waiting
<1>5. \A i : Stranger(i)' <=> Stranger(i)
  BY <1>1 DEF Stranger
<1>6. ChkTyped'
  BY <1>1, <1>2, <1>3 DEF AttrInv, ChkTyped
<1>7. CountRight' /\ PlaceRight' /\ WaitingRight'
  BY <1>1, <1>4 DEF AttrInv, CountRight, PlaceRight, WaitingRight
<1>8. HeardRight'
  <2>1. ~chk'.used => \A i \in 1 .. Settled' : ~Stranger(i)'
    BY <1>1, <1>4, <1>5 DEF AttrInv, HeardRight
  <2>2. events' # 0 /\ (events' = 1 => events = 0)
    BY <1>1, <1>3
  <2>3. events = 0 /\ chk.used => \A i \in 1 .. Len(chk.obs) : ~Stranger(i)
    BY SoundReachesOurs DEF AttrInv, HeardRight, Stranger
  <2> QED
    BY <1>1, <1>5, <2>1, <2>2, <2>3 DEF HeardRight
<1> QED
  BY <1>6, <1>7, <1>8 DEF AttrInv

(* With two successes in a row required, as the code always does, a check  *)
(* that passed is about the container it started.                          *)
LEMMA HeardIsAttributed ==
  ASSUME AttrInv, Need >= 2
  PROVE  Attributed
<1>1. /\ chk.run \in Nat /\ chk.run <= Settled /\ Settled \in Nat
      /\ \A i \in Settled - chk.run + 1 .. Settled : chk.obs[i] # Nothing
  BY DEF AttrInv, CountRight, ChkTyped, Chks
<1>2. ASSUME pc = "passed_marker" \/ pc = "passed_path"
      PROVE  /\ Settled = Len(chk.obs) /\ chk.run >= 2
             /\ Counted \subseteq 1 .. Len(chk.obs)
             /\ Len(chk.obs) \in Counted /\ Len(chk.obs) - 1 \in Counted
             /\ \A i \in Counted : ~Stranger(i) => chk.obs[i].by = "ours"
  <2>1. Settled = Len(chk.obs)
    BY <1>2 DEF Settled, Waiting, Proving
  <2>2. chk.run >= 2
    BY <1>1, <1>2, ReadinessAssumption DEF AttrInv, PlaceRight
  <2>3. Counted = Settled - chk.run + 1 .. Settled
    BY <2>1 DEF Counted
  <2>4. /\ Counted \subseteq 1 .. Settled
        /\ Settled \in Counted /\ Settled - 1 \in Counted
    BY <1>1, <2>2, <2>3
  <2>5. \A i \in Counted : ~Stranger(i) => chk.obs[i].by = "ours"
    BY <1>1, <2>3 DEF Stranger
  <2> QED
    BY <2>1, <2>2, <2>4, <2>5
<1>3. ASSUME pc = "passed_marker"
      PROVE  \A i \in Counted : chk.obs[i].by = "ours"
  <2>1. \A i \in 1 .. Settled : ~Stranger(i)
    BY <1>3 DEF AttrInv, PlaceRight, HeardRight
  <2> QED
    BY <1>2, <1>3, <2>1
<1>4. ASSUME pc = "passed_path", events = 0
      PROVE  \A i \in Counted : chk.obs[i].by = "ours"
  <2>1. Sound /\ ReachedBy \in {"ours", "nobody"}
    BY <1>4, SoundReachesOurs DEF AttrInv, PlaceRight, HeardRight
  <2>2. \A i \in 1 .. Len(chk.obs) : ~Stranger(i)
    BY <1>4, <2>1 DEF AttrInv, HeardRight, Stranger
  <2> QED
    BY <1>2, <1>4, <2>2
<1>5. ASSUME pc = "passed_path", events = 1
      PROVE  \E i \in Counted : chk.obs[i].by = "ours"
  <2>1. \A i, j \in 1 .. Len(chk.obs) : Stranger(i) /\ Stranger(j) => i = j
    BY <1>5 DEF AttrInv, PlaceRight, HeardRight
  <2>2. Len(chk.obs) # Len(chk.obs) - 1
    BY <1>1, <1>2, <1>5
  <2>3. ~Stranger(Len(chk.obs)) \/ ~Stranger(Len(chk.obs) - 1)
    BY <1>2, <1>5, <2>1, <2>2
  <2> QED
    BY <1>2, <1>5, <2>3
<1> QED
  BY <1>3, <1>4, <1>5 DEF Attributed

(* A check that passed is about the container that was started, and not    *)
(* about a listener that answered in its place: for any number of attempts *)
(* and of changes of the surroundings.                                     *)
THEOREM PassedIsAttributed == Need >= 2 => (Spec => []Attributed)
<1>1. Init => AttrInv
  <2> SUFFICES ASSUME Init PROVE AttrInv
    OBVIOUS
  <2>1. pc = "allocate" /\ chk = Idle /\ events = 0
    BY DEF Init
  <2>2. Idle \in Chks /\ Idle.obs = <<>> /\ Len(Idle.obs) = 0 /\ Idle.run = 0
        /\ Idle.used = FALSE /\ Idle.proven = FALSE /\ Idle.closing = FALSE
    BY DEF Idle, Chks, NoBase
  <2>3. given \in Givens /\ world \in AnyWorlds
    BY DEF Init, NotYet, Before, Givens, Flaws, AnyWorlds
  <2>4. ~Waiting /\ Settled = 0
    BY <2>1, <2>2 DEF Waiting, Proving, Settled
  <2>5. /\ chk \in Chks /\ chk.obs = <<>> /\ chk.run = 0
        /\ chk.used = FALSE /\ chk.proven = FALSE /\ chk.closing = FALSE
    BY <2>1, <2>2
  <2>7. ChkTyped
    BY <2>1, <2>3, <2>5 DEF ChkTyped
  <2>8. CountRight
    BY <2>4, <2>5 DEF CountRight
  <2>9. PlaceRight
    BY <2>1, <2>5 DEF PlaceRight, Proving
  <2>10. WaitingRight
    BY <2>4 DEF WaitingRight
  <2>6. HeardRight
    BY <2>1, <2>2, <2>4 DEF HeardRight, FoundRight
  <2> QED
    BY <2>6, <2>7, <2>8, <2>9, <2>10 DEF AttrInv
<1>2. AttrInv /\ [Next]_vars => AttrInv'
  <2> SUFFICES ASSUME AttrInv, [Next]_vars PROVE AttrInv'
    OBVIOUS
  <2>1. CASE UNCHANGED vars
    <3>1. UNCHANGED <<given, world, events, chk, pc>>
      BY <2>1 DEF vars
    <3>2. ChkTyped' /\ CountRight' /\ PlaceRight' /\ WaitingRight'
      BY <3>1 DEF AttrInv, ChkTyped, CountRight, PlaceRight, WaitingRight,
                  Settled, Waiting
    <3>3. /\ pc' \in {"allocate", "start", "no_port"} \union Later
          /\ chk' \in Chks /\ (Waiting' <=> Waiting)
          /\ (FoundRight => FoundRight')
      BY <3>1, SameSurroundings DEF AttrInv, ChkTyped, Waiting, FoundRight
    <3> QED
      BY <3>1, <3>2, <3>3, MoveKeeps
  <2>2. CASE AllocatePort \/ StartContainer
    BY <2>2, StartKeeps
  <2>3. CASE MappingBefore
    BY <2>3, MappingKeeps
  <2>4. CASE AttemptInspect
    BY <2>4, InspectKeeps
  <2>5. CASE AttemptRequest
    BY <2>5, RequestKeeps
  <2>6. CASE ProveMapping \/ ProveListener \/ ProveSockets
    BY <2>6, ProveKeeps
  <2>7. CASE ProveGuest
    BY <2>7, ProveGuestKeeps
  <2>8. CASE InspectAfter
    BY <2>8, InspectAfterKeeps
  <2>9. CASE ListenerAfter
    BY <2>9, ListenerAfterKeeps
  <2>10. CASE Surroundings
    BY <2>10, ChangeKeeps
  <2> QED
    BY <2>1, <2>2, <2>3, <2>4, <2>5, <2>6, <2>7, <2>8, <2>9, <2>10 DEF Next, Ask
<1>3. Need >= 2 /\ AttrInv => Attributed
  BY HeardIsAttributed
<1> SUFFICES ASSUME Need >= 2 PROVE Spec => []Attributed
  OBVIOUS
<1>4. AttrInv => Attributed
  BY <1>3
<1> QED
  BY <1>1, <1>2, <1>4, PTL DEF Spec
=============================================================================
