---------------------------- MODULE ReleasesProofs ----------------------------
(***************************************************************************)
(* Invariants of the releases of an application, for any number of         *)
(* deployments and ports: which containers a teardown may remove, that     *)
(* every running container is on a leased port, and that the records name  *)
(* the container that was put into service last.                           *)
(***************************************************************************)
EXTENDS Releases, TLAPS

Recoveries == {"none", "NotAttempted", "RestoreFailed", "Restored", "RestoredUnverified"}
EntryStates == {"none", "Created", "Attempted", "Released", "Failed", "Refused"}
Acts == {"MarkAbsent", "Refuse", "Remove"}

DepRecords == [status : {"none", "Succeeded", "Failed"}, rollbackTo : Deps \union {0},
               replaces : Deps \union {0},
               recovery : Recoveries, pinned : [port : Nat, of : Nat], since : Nat]
DockerStates == [is : {"none", "running", "exited", "there", "altered", "shared"},
                 port : Nat, of : Nat]
Teardowns == [dep : Nat, phase : {"none", "containers", "image", "leases", "release"},
              todo : SUBSET (Resources \X Acts), cur : Resources \union {<<0, "main">>},
              act : Acts \union {"none"}, result : {"none", "Released", "Failed", "Refused"},
              unmapped : SUBSET Nat, begun : Nat]
Leases == Deps \X Nat \X {"held", "attempted"}

RelTyped ==
    /\ deps \in [Deps -> DepRecords]
    /\ entry \in [Resources -> EntryStates]
    /\ leases \subseteq Leases
    /\ docker \in [Resources -> DockerStates]
    /\ clock \in [now : Nat, back : BOOLEAN]
    /\ td \in Teardowns

(* What the records and Docker say of one container.                       *)
Consistent(c) ==
    /\ entry[c] = "none" => docker[c].is = "none"
    /\ docker[c].is # "none" => docker[c].of = ReleaseServed(c)
    /\ deps[c[1]].status = "none" => entry[c] = "none"
    /\ c[2] = "restored" /\ entry[c] # "none" => deps[c[1]].status = "Failed"

(* What a teardown in progress still means to do was of its release when   *)
(* it looked, and no deployment runs meanwhile.                            *)
TeardownInv ==
    /\ td.phase = "none" => td.todo = {} /\ td.act = "none" /\ td.unmapped = {}
    /\ td.phase # "none" => td.dep \in Deps
    /\ \A x \in td.todo : x[1] \in ContainersOf(td.dep)
    /\ td.result # "none" => td.act # "none"
    /\ td.act # "none" => /\ td.cur \in Resources /\ entry[td.cur] # "none"
                          /\ td.cur \in ContainersOf(td.dep) \/ td.cur \notin Conts

(* The ports that a teardown gives up are not those of containers that run. *)
KeepsLeases == \A c \in Conts \ loose : IsRunning(c) => docker[c].port \notin td.unmapped

RelInv ==
    /\ RelTyped
    /\ \A c \in Conts : Consistent(c)
    /\ TeardownInv
    /\ OnlyTheRelease
    /\ RunningIsLeased
    /\ KeepsLeases

-----------------------------------------------------------------------------
(* A container is named by its deployment and the engine that made it.     *)
LEMMA ResourceFacts ==
  /\ \A c \in Conts : c[1] \in Deps /\ c[2] \in {"main", "restored"} /\ c = <<c[1], c[2]>>
  /\ \A d \in Deps : ImageOf(d) \notin Conts /\ ImageOf(d) \in Resources
  /\ \A d \in Deps : <<d, "main">> \in Conts /\ <<d, "restored">> \in Conts
  /\ Conts \subseteq Resources
  /\ \A d \in Deps : d \in Nat /\ d # 0
  BY ReleasesAssumption DEF Conts, Resources, ImageOf

(* The records that nothing has happened to are typed.                     *)
LEMMA NewRecords ==
  /\ NewDep \in DepRecords
  /\ NoContainer \in DockerStates
  /\ NoTeardown \in Teardowns
<1>1. NewDep \in DepRecords
  BY DEF NewDep, DepRecords, Recoveries, NoRelease
<1>2. NoContainer \in DockerStates
  BY DEF NoContainer, DockerStates, NoRelease
<1>3. NoTeardown \in Teardowns
  BY DEF NoTeardown, Teardowns
<1> QED
  BY <1>1, <1>2, <1>3

(* At the start there is no release.                                       *)
LEMMA ReleasesStart == ReleasesInit => RelInv
<1> SUFFICES ASSUME ReleasesInit PROVE RelInv
  OBVIOUS
<1>1. RelTyped
  BY NewRecords DEF ReleasesInit, RelTyped, EntryStates
<1>2. \A c \in Conts : Consistent(c)
  BY ResourceFacts DEF ReleasesInit, Consistent, NoContainer, NewDep
<1>3. TeardownInv
  BY DEF ReleasesInit, TeardownInv, NoTeardown
<1>4. OnlyTheRelease
  BY DEF ReleasesInit, OnlyTheRelease
<1>5. RunningIsLeased /\ KeepsLeases
  BY ResourceFacts DEF ReleasesInit, RunningIsLeased, KeepsLeases, IsRunning, NoContainer
<1> QED
  BY <1>1, <1>2, <1>3, <1>4, <1>5 DEF RelInv
-----------------------------------------------------------------------------
(* A deployment that puts a container into service.                        *)
LEMMA ServesKeeps ==
  ASSUME RelInv, NEW d \in Deps, NEW t \in Deps \union {NoRelease}, NEW port \in HostPorts,
         NEW stopped \in SUBSET Conts, NEW replaces \in Deps \union {NoRelease},
         Runs(d), Serves(d, t, port, stopped, replaces),
         \A c \in stopped : IsRunning(c)
  PROVE  RelInv'
<1> DEFINE main == <<d, "main">>
           new == [NewDep EXCEPT !.status = "Succeeded", !.rollbackTo = t, !.replaces = replaces,
                     !.since = clock.now, !.pinned = [port |-> port, of |-> Of(d, t)]]
           was(r) == IF r \in stopped THEN [docker[r] EXCEPT !.is = "exited"] ELSE docker[r]
<1>1. /\ main \in Conts /\ d \in Nat /\ d # 0 /\ t \in Nat /\ port \in Nat
      /\ Made(d, t) \subseteq Resources /\ Made(d, t) \intersect Conts = {main}
      /\ Of(d, t) \in Nat /\ clock.now \in Nat
  <2>1. clock.now \in Nat
    BY DEF RelInv, RelTyped
  <2>2. port \in Nat /\ t \in Nat
    BY ReleasesAssumption DEF NoRelease
  <2> QED
    BY <2>1, <2>2, ResourceFacts DEF Made, Of, NoRelease
<1>2. /\ new.status = "Succeeded" /\ new.rollbackTo = t /\ new.replaces = replaces
      /\ new.recovery = "none" /\ new.since = clock.now /\ new \in DepRecords
  BY <1>1, NewRecords DEF NewDep, DepRecords, Recoveries, NoRelease
<1>3. /\ deps' = [deps EXCEPT ![d] = new]
      /\ entry' = [r \in Resources |-> IF r \in Made(d, t) THEN "Created" ELSE entry[r]]
      /\ docker' = [r \in Resources |->
                      IF r \in Made(d, t)
                      THEN [is |-> IF r \in Conts THEN "running" ELSE "there",
                            port |-> port, of |-> Of(d, t)]
                      ELSE was(r)]
      /\ leases' = leases \union {<<d, port, "held">>}
      /\ clock' = [clock EXCEPT !.now = clock.now + 1]
      /\ td.phase = "none" /\ deps[d].status = "none" /\ UNCHANGED <<td, removed, loose>>
  BY DEF Serves, Runs
<1> HIDE DEF new
<1>4. \A r \in Resources : /\ was(r) \in DockerStates /\ was(r).of = docker[r].of
                           /\ was(r).port = docker[r].port
                           /\ was(r).is = (IF r \in stopped THEN "exited" ELSE docker[r].is)
  <2>1. \A r \in Resources : docker[r] \in DockerStates
    BY DEF RelInv, RelTyped
  <2> QED
    BY <2>1 DEF DockerStates
<1> HIDE DEF was
<1>5. RelTyped'
  <2>1. deps' \in [Deps -> DepRecords]
    BY <1>2, <1>3 DEF RelInv, RelTyped
  <2>2. entry' \in [Resources -> EntryStates]
    BY <1>3 DEF RelInv, RelTyped, EntryStates
  <2>3. docker' \in [Resources -> DockerStates]
    <3>1. \A b \in {"running", "there"} : [is |-> b, port |-> port, of |-> Of(d, t)] \in DockerStates
      BY <1>1 DEF DockerStates
    <3> QED
      BY <1>3, <1>4, <3>1
  <2>4. clock' \in [now : Nat, back : BOOLEAN] /\ td' \in Teardowns
    BY <1>3 DEF RelInv, RelTyped
  <2>5. leases' \subseteq Leases
    BY <1>1, <1>3 DEF RelInv, RelTyped, Leases
  <2> QED
    BY <2>1, <2>2, <2>3, <2>4, <2>5 DEF RelTyped
<1>6. ASSUME NEW c \in Conts, c # main
      PROVE  /\ entry'[c] = entry[c]
             /\ docker'[c].of = docker[c].of /\ docker'[c].port = docker[c].port
             /\ docker'[c].is = (IF c \in stopped THEN "exited" ELSE docker[c].is)
  <2>1. c \in Resources /\ c \notin Made(d, t)
    BY <1>1, <1>6, ResourceFacts
  <2> QED
    BY <1>3, <1>4, <2>1
<1>7. /\ entry'[main] = "Created" /\ docker'[main].of = Of(d, t)
      /\ docker'[main].port = port
  <2>1. main \in Made(d, t) /\ main \in Resources
    BY <1>1
  <2> QED
    BY <1>3, <2>1
<1>8. \A c \in Conts : c[1] = d => entry[c] = "none" /\ docker[c].is = "none" /\ c \notin stopped
  BY <1>3 DEF RelInv, Consistent, IsRunning
<1>9. deps'[d] = new /\ \A e \in Deps : e # d => deps'[e] = deps[e]
  BY <1>3 DEF RelInv, RelTyped
<1>10. \A c \in Conts : Consistent(c)'
  <2>1. ASSUME NEW c \in Conts, c[1] # d
        PROVE  Consistent(c)'
    <3>1. c # main /\ c[1] \in Deps /\ ReleaseServed(c)' = ReleaseServed(c)
      BY <1>9, <2>1, ResourceFacts DEF ReleaseServed
    <3>2. c \in stopped => docker[c].is # "none"
      BY DEF IsRunning
    <3> QED
      BY <1>6, <1>9, <2>1, <3>1, <3>2 DEF RelInv, Consistent
  <2>2. Consistent(main)'
    <3>1. ReleaseServed(main)' = Of(d, t)
      BY <1>1, <1>2, <1>9 DEF ReleaseServed, Of
    <3> QED
      BY <1>2, <1>7, <1>9, <3>1 DEF Consistent
  <2>3. ASSUME NEW c \in Conts, c[1] = d, c # main
        PROVE  Consistent(c)'
    BY <1>6, <1>8, <2>3 DEF Consistent
  <2> QED
    BY <2>1, <2>2, <2>3
<1>11. RunningIsLeased' /\ KeepsLeases'
  <2>1. ASSUME NEW c \in Conts \ loose, c # main, IsRunning(c)'
        PROVE  \E l \in leases' : l[2] = docker'[c].port
    <3>1. IsRunning(c)
      BY <1>6, <2>1 DEF IsRunning
    <3>2. PICK l \in leases : l[2] = docker[c].port
      BY <2>1, <3>1 DEF RelInv, RunningIsLeased, PortLeased
    <3> QED
      BY <1>3, <1>6, <2>1, <3>2
  <2>2. \E l \in leases' : l[2] = docker'[main].port
    <3>1. <<d, port, "held">> \in leases' /\ <<d, port, "held">>[2] = port
      BY <1>3
    <3> QED
      BY <1>7, <3>1
  <2>3. td'.unmapped = {}
    BY <1>3 DEF RelInv, TeardownInv
  <2> QED
    BY <1>3, <2>1, <2>2, <2>3 DEF RunningIsLeased, KeepsLeases, PortLeased
<1>12. TeardownInv' /\ OnlyTheRelease'
  BY <1>3 DEF RelInv, TeardownInv, OnlyTheRelease
<1> QED
  BY <1>5, <1>10, <1>11, <1>12 DEF RelInv

(* A deployment that failed, as it is recorded.                            *)
FailedOf(t, old, outcome) ==
    [NewDep EXCEPT !.status = "Failed", !.rollbackTo = t, !.replaces = ReleaseServed(old),
                   !.recovery = outcome, !.since = clock.now]

(* What is recorded of a deployment whose cutover failed.                  *)
LEMMA FailedRecord ==
  ASSUME RelInv, NEW d \in Deps, NEW t \in Deps \union {NoRelease}, NEW old \in Conts,
         Prepared(d, t, old), NEW outcome \in Recoveries
  PROVE  /\ FailedOf(t, old, outcome).status = "Failed"
         /\ FailedOf(t, old, outcome).rollbackTo = t
         /\ FailedOf(t, old, outcome).replaces = ReleaseServed(old)
         /\ FailedOf(t, old, outcome).recovery = outcome
         /\ FailedOf(t, old, outcome).since = clock.now
         /\ FailedOf(t, old, outcome) \in DepRecords
         /\ ReleaseServed(old) \in Deps /\ ConfigOf(old).port \in Nat
<1>1. /\ old[1] \in Deps /\ old[2] \in {"main", "restored"}
      /\ \A e \in Deps : deps[e] \in DepRecords
  BY ResourceFacts DEF RelInv, RelTyped
<1>2. old[2] = "restored" => deps[old[1]].replaces # NoRelease
  BY <1>1 DEF Prepared, IsServed, MayServe
<1>3. ReleaseServed(old) \in Deps
  BY <1>1, <1>2 DEF ReleaseServed, DepRecords, NoRelease
<1>4. ConfigOf(old) \in [port : Nat, of : Nat]
  BY <1>1, <1>3 DEF ConfigOf, DepRecords
<1>5. clock.now \in Nat
  BY DEF RelInv, RelTyped
<1> QED
  BY <1>3, <1>4, <1>5, NewRecords DEF FailedOf, NewDep, DepRecords, NoRelease

(* A restoration ends in an outcome that is recorded.                      *)
LEMMA OutcomeIsOne ==
  ASSUME NEW c, NEW answers
  PROVE  Restoration(c, answers) \subseteq Recoveries
  BY DEF Restoration, Recoveries

(* A deployment whose cutover failed, with or without the restoration.     *)
LEMMA NotCutOverKeeps ==
  ASSUME RelInv, NEW d \in Deps, NEW t \in Deps \union {NoRelease}, NEW old \in Conts,
         NotCutOver(d, t, old)
  PROVE  RelInv'
<1>1. PICK outcome \in Restoration(old, TRUE) \union Restoration(old, FALSE) :
         LET back == outcome \in {"Restored", "RestoredUnverified"}
             port == ConfigOf(old).port
             made == (Made(d, t) \ Conts) \union (IF back THEN {<<d, "restored">>} ELSE {})
         IN  /\ deps' = [deps EXCEPT ![d] = [NewDep EXCEPT !.status = "Failed", !.rollbackTo = t,
                            !.replaces = ReleaseServed(old), !.recovery = outcome,
                            !.since = clock.now]]
             /\ entry' = [r \in Resources |-> IF r = <<d, "main">> THEN "Released"
                             ELSE IF r \in made THEN "Created" ELSE entry[r]]
             /\ leases' = IF back /\ ~PortLeased(port)
                          THEN leases \union {<<d, port, "held">>} ELSE leases
             /\ docker' = [r \in Resources |->
                  IF r \in made
                  THEN [is |-> IF r \in Conts THEN "running" ELSE "there", port |-> port,
                        of |-> IF r \in Conts THEN ReleaseServed(old) ELSE d]
                  ELSE IF r = old /\ IsRunning(old) THEN [docker[r] EXCEPT !.is = "exited"]
                  ELSE docker[r]]
             /\ served' = IF back THEN <<d, "restored">> ELSE served
  BY DEF NotCutOver
<1> DEFINE back == outcome \in {"Restored", "RestoredUnverified"}
           port == ConfigOf(old).port
           rel == ReleaseServed(old)
           restored == <<d, "restored">>
           made == (Made(d, t) \ Conts) \union (IF back THEN {restored} ELSE {})
           new == FailedOf(t, old, outcome)
           was(r) == IF r = old /\ IsRunning(old) THEN [docker[r] EXCEPT !.is = "exited"]
                     ELSE docker[r]
<1>2. /\ deps' = [deps EXCEPT ![d] = new]
      /\ entry' = [r \in Resources |-> IF r = <<d, "main">> THEN "Released"
                      ELSE IF r \in made THEN "Created" ELSE entry[r]]
      /\ leases' = IF back /\ ~PortLeased(port)
                   THEN leases \union {<<d, port, "held">>} ELSE leases
      /\ docker' = [r \in Resources |->
           IF r \in made
           THEN [is |-> IF r \in Conts THEN "running" ELSE "there", port |-> port,
                 of |-> IF r \in Conts THEN rel ELSE d]
           ELSE was(r)]
  BY <1>1 DEF FailedOf
<1>3. /\ clock' = [clock EXCEPT !.now = clock.now + 1]
      /\ td.phase = "none" /\ deps[d].status = "none" /\ UNCHANGED <<td, removed, loose>>
  BY DEF NotCutOver, Prepared, Runs
<1>4. outcome \in Recoveries /\ Prepared(d, t, old)
  BY OutcomeIsOne DEF NotCutOver
<1>5. /\ new.status = "Failed" /\ new.rollbackTo = t /\ new.replaces = rel
      /\ new.recovery = outcome /\ new.since = clock.now /\ new \in DepRecords
      /\ rel \in Deps /\ port \in Nat
  BY <1>4, FailedRecord
<1>6. /\ <<d, "main">> \notin made /\ made \subseteq Resources
      /\ made \intersect Conts = (IF back THEN {restored} ELSE {})
  BY ResourceFacts DEF Made
<1> HIDE DEF new
<1>7. \A r \in Resources :
        /\ was(r) \in DockerStates /\ was(r).of = docker[r].of
        /\ was(r).port = docker[r].port
        /\ was(r).is = (IF r = old /\ IsRunning(old) THEN "exited" ELSE docker[r].is)
  <2>1. \A r \in Resources : docker[r] \in DockerStates
    BY DEF RelInv, RelTyped
  <2> QED
    BY <2>1 DEF DockerStates
<1> HIDE DEF was
<1>8. RelTyped'
  <2>1. deps' \in [Deps -> DepRecords]
    BY <1>2, <1>5 DEF RelInv, RelTyped
  <2>2. entry' \in [Resources -> EntryStates]
    BY <1>2 DEF RelInv, RelTyped, EntryStates
  <2>3. docker' \in [Resources -> DockerStates]
    <3>1. \A b \in {"running", "there"}, o \in {rel, d} :
             [is |-> b, port |-> port, of |-> o] \in DockerStates
      BY <1>5, ResourceFacts DEF DockerStates
    <3> HIDE DEF made, rel, port
    <3> QED
      BY <1>2, <1>7, <3>1
  <2>4. clock' \in [now : Nat, back : BOOLEAN] /\ td' \in Teardowns
    BY <1>3 DEF RelInv, RelTyped
  <2>5. leases' \subseteq Leases
    <3>1. <<d, port, "held">> \in Leases
      BY <1>5 DEF Leases
    <3> HIDE DEF port, back
    <3> QED
      BY <1>2, <3>1 DEF RelInv, RelTyped
  <2> QED
    BY <2>1, <2>2, <2>3, <2>4, <2>5 DEF RelTyped
<1>9. ASSUME NEW c \in Conts, c \notin made
      PROVE  /\ entry'[c] = (IF c = <<d, "main">> THEN "Released" ELSE entry[c])
             /\ docker'[c].of = docker[c].of /\ docker'[c].port = docker[c].port
             /\ docker'[c].is = (IF c = old /\ IsRunning(old) THEN "exited" ELSE docker[c].is)
  BY <1>2, <1>7, <1>9, ResourceFacts
<1>10. back => /\ entry'[restored] = "Created" /\ docker'[restored].of = rel
               /\ docker'[restored].port = port
  <2>1. restored \in Conts /\ restored \in Resources /\ restored # <<d, "main">>
    BY ResourceFacts
  <2> QED
    BY <1>2, <2>1
<1>11. \A c \in Conts : c[1] = d => entry[c] = "none" /\ docker[c].is = "none" /\ ~IsRunning(c)
  BY <1>3 DEF RelInv, Consistent, IsRunning
<1>12. deps'[d] = new /\ \A e \in Deps : e # d => deps'[e] = deps[e]
  BY <1>2 DEF RelInv, RelTyped
<1> HIDE DEF made
<1>13. \A c \in Conts : Consistent(c)'
  <2>1. ASSUME NEW c \in Conts, c[1] # d
        PROVE  Consistent(c)'
    <3>1. c \notin made /\ c # <<d, "main">> /\ c[1] \in Deps
          /\ ReleaseServed(c)' = ReleaseServed(c)
      BY <1>6, <1>12, <2>1, ResourceFacts DEF ReleaseServed
    <3>2. c = old /\ IsRunning(old) => docker[c].is # "none"
      BY DEF IsRunning
    <3> QED
      BY <1>9, <1>12, <2>1, <3>1, <3>2 DEF RelInv, Consistent
  <2>2. ASSUME NEW c \in Conts, c[1] = d, c \notin made
        PROVE  Consistent(c)'
    <3>1. docker'[c].is = "none" /\ entry'[c] \in {"none", "Released"}
          /\ (c[2] = "restored" => entry'[c] = "none")
      BY <1>9, <1>11, <2>2, ResourceFacts
    <3> QED
      BY <1>5, <1>12, <2>2, <3>1 DEF Consistent
  <2>3. ASSUME back
        PROVE  Consistent(restored)'
    <3>1. ReleaseServed(restored)' = rel
      BY <1>5, <1>12 DEF ReleaseServed
    <3> QED
      BY <1>5, <1>10, <1>12, <2>3, <3>1 DEF Consistent
  <2> QED
    BY <1>6, <2>1, <2>2, <2>3
<1>14. RunningIsLeased' /\ KeepsLeases'
  <2>1. leases \subseteq leases' /\ (back => \E l \in leases' : l[2] = port)
    <3>1. <<d, port, "held">>[2] = port
      OBVIOUS
    <3> QED
      BY <1>2, <3>1 DEF PortLeased
  <2>2. ASSUME NEW c \in Conts \ loose, c \notin made, IsRunning(c)'
        PROVE  \E l \in leases' : l[2] = docker'[c].port
    <3>1. IsRunning(c)
      BY <1>9, <2>2 DEF IsRunning
    <3>2. PICK l \in leases : l[2] = docker[c].port
      BY <2>2, <3>1 DEF RelInv, RunningIsLeased, PortLeased
    <3> QED
      BY <1>9, <2>1, <2>2, <3>2
  <2>3. ASSUME NEW c \in Conts, c \in made
        PROVE  \E l \in leases' : l[2] = docker'[c].port
    <3>1. back /\ c = restored
      BY <1>6, <2>3
    <3> QED
      BY <1>10, <2>1, <3>1
  <2>4. td'.unmapped = {}
    BY <1>3 DEF RelInv, TeardownInv
  <2> QED
    BY <1>3, <2>2, <2>3, <2>4 DEF RunningIsLeased, KeepsLeases, PortLeased
<1>15. TeardownInv' /\ OnlyTheRelease'
  BY <1>3 DEF RelInv, TeardownInv, OnlyTheRelease
<1> QED
  BY <1>8, <1>13, <1>14, <1>15 DEF RelInv
-----------------------------------------------------------------------------
(* Teardowns.                                                              *)

(* While a teardown goes on only the entries of resources change, and none *)
(* comes into being or disappears: what is of a release stays the same.    *)
LEMMA SameRelease ==
  ASSUME UNCHANGED deps, NEW d,
         \A c \in Conts : entry'[c] = "none" <=> entry[c] = "none"
  PROVE  ContainersOf(d)' = ContainersOf(d)
  BY DEF ContainersOf, Succeeded, ServiceReturned

(* Of a container of a release that is there, Docker knows that release -  *)
(* or it is one that the named deployment made itself.                     *)
LEMMA OfTheRelease ==
  ASSUME RelInv, NEW d \in Deps, NEW c \in ContainersOf(d), docker[c].is # "none"
  PROVE  docker[c].of = d \/ c[1] = d
<1>1. c \in Conts /\ entry[c] # "none" /\ Consistent(c) /\ d # NoRelease
  BY ResourceFacts DEF ContainersOf, RelInv, NoRelease
<1>2. docker[c].of = ReleaseServed(c)
  BY <1>1 DEF Consistent
<1>3. CASE deps[c[1]].rollbackTo = d /\ Succeeded(c[1])
  <2>1. c[2] # "restored"
    BY <1>1, <1>3 DEF Consistent, Succeeded
  <2> QED
    BY <1>1, <1>2, <1>3, <2>1 DEF ReleaseServed
<1>4. CASE deps[c[1]].replaces = d /\ c[2] = "restored"
  BY <1>2, <1>4 DEF ReleaseServed
<1> QED
  BY <1>3, <1>4 DEF ContainersOf

(* The teardown under way, if any.                                         *)
LEMMA TeardownTyped ==
  ASSUME RelInv
  PROVE  /\ td.dep \in Nat /\ td.begun \in Nat /\ td.todo \in SUBSET (Resources \X Acts)
         /\ td.cur \in Resources \union {<<0, "main">>} /\ td.act \in Acts \union {"none"}
         /\ td.phase \in {"none", "containers", "image", "leases", "release"}
         /\ td.unmapped \in SUBSET Nat
  BY DEF RelInv, RelTyped, Teardowns

(* A step that only moves the teardown on, or ends it.                     *)
LEMMA PhaseKeeps ==
  ASSUME RelInv, UNCHANGED <<deps, entry, leases, docker, clock, removed, loose>>,
         \/ TeardownOver
         \/ td.phase # "none" /\ td.act = "none" /\ (TearGoes("image") \/ TearGoes("leases"))
  PROVE  RelInv'
<1>1. /\ td' \in Teardowns /\ (td'.phase = "none" => td'.todo = {}) /\ td'.act = "none"
      /\ td'.result = "none" /\ (td'.phase = "none" => td'.unmapped = {})
      /\ td'.unmapped \in {{}, td.unmapped}
      /\ td'.todo \subseteq td.todo
      /\ td'.phase # "none" => td'.dep = td.dep /\ td.phase # "none"
  <2>1. CASE TeardownOver
    <3>1. td.begun \in Nat /\ td' = [NoTeardown EXCEPT !.begun = td.begun]
      BY <2>1, TeardownTyped DEF TeardownOver
    <3>2. td' \in Teardowns
      BY <3>1, NewRecords DEF Teardowns
    <3>3. td'.phase = "none" /\ td'.todo = {} /\ td'.act = "none" /\ td'.result = "none"
          /\ td'.unmapped = {}
      BY <3>1 DEF NoTeardown
    <3> QED
      BY <3>2, <3>3
  <2>2. ASSUME NEW p \in {"image", "leases"}, td.phase # "none", td.act = "none", TearGoes(p)
        PROVE  /\ td' \in Teardowns /\ td'.phase = p /\ td'.act = "none"
               /\ td'.result = "none"
               /\ td'.todo = td.todo /\ td'.dep = td.dep /\ td'.unmapped = td.unmapped
    <3>1. td \in Teardowns /\ td' = [td EXCEPT !.phase = p, !.act = "none"]
      BY <2>2 DEF RelInv, RelTyped, TearGoes
    <3>2. td.result = "none"
      BY <2>2 DEF RelInv, TeardownInv
    <3> QED
      BY <3>1, <3>2 DEF Teardowns
  <2> QED
    BY <2>1, <2>2
<1>2. RelTyped'
  BY <1>1 DEF RelInv, RelTyped
<1>3. \A c \in Conts : Consistent(c)'
  BY DEF RelInv, Consistent, ReleaseServed
<1>4. TeardownInv'
  <2>1. \A d : ContainersOf(d)' = ContainersOf(d)
    BY SameRelease
  <2> QED
    BY <1>1, <2>1 DEF RelInv, TeardownInv
<1>5. OnlyTheRelease' /\ RunningIsLeased' /\ KeepsLeases'
  BY <1>1 DEF RelInv, OnlyTheRelease, RunningIsLeased, KeepsLeases, PortLeased, IsRunning
<1> QED
  BY <1>2, <1>3, <1>4, <1>5 DEF RelInv

(* The ports that Docker does not map are those of no container that runs. *)
LEMMA PortsKeep ==
  ASSUME RelInv, TearPorts
  PROVE  RelInv'
<1> DEFINE ports == { l[2] : l \in LeasesOf(td.dep) } \ Mapped
<1>1. /\ td' = [td EXCEPT !.phase = "release", !.unmapped = ports]
      /\ td.phase = "leases" /\ td \in Teardowns
      /\ UNCHANGED <<deps, entry, leases, docker, clock, removed, loose>>
  BY DEF TearPorts, Unchanged, RelInv, RelTyped
<1>2. ports \in SUBSET Nat
  BY DEF LeasesOf, RelInv, RelTyped, Leases
<1>3. \A c \in Conts : IsRunning(c) => docker[c].port \notin ports
  BY DEF Mapped, MappedBy
<1> HIDE DEF ports
<1>4. /\ td' \in Teardowns /\ td'.phase = "release" /\ td'.unmapped = ports /\ td'.dep = td.dep
      /\ td'.todo = td.todo /\ td'.cur = td.cur /\ td'.act = td.act /\ td'.result = td.result
  BY <1>1, <1>2 DEF Teardowns
<1>5. RelTyped'
  BY <1>1, <1>4 DEF RelInv, RelTyped
<1>6. TeardownInv'
  <2>1. \A d : ContainersOf(d)' = ContainersOf(d)
    BY <1>1, SameRelease
  <2> QED
    BY <1>1, <1>4, <2>1 DEF RelInv, TeardownInv
<1>7. (\A c \in Conts : Consistent(c)') /\ OnlyTheRelease' /\ RunningIsLeased' /\ KeepsLeases'
  BY <1>1, <1>3, <1>4
  DEF RelInv, Consistent, ReleaseServed, OnlyTheRelease, RunningIsLeased, KeepsLeases, PortLeased,
      IsRunning
<1> QED
  BY <1>5, <1>6, <1>7 DEF RelInv

(* Only leases of such ports go.                                           *)
LEMMA LeaseKeeps ==
  ASSUME RelInv, TearLease
  PROVE  RelInv'
<1>1. PICK l \in LeasesOf(td.dep) :
        /\ l[2] \in td.unmapped
        /\ leases' = (leases \ {l}) \union
                     (IF l[3] = "held" THEN {<<l[1], l[2], "attempted">>} ELSE {})
  BY DEF TearLease
<1>2. UNCHANGED <<deps, entry, docker, td, clock, removed, loose>>
  BY DEF TearLease, Unchanged
<1>3. leases' \subseteq Leases
  <2>1. l \in Leases /\ leases \subseteq Leases
    BY DEF LeasesOf, RelInv, RelTyped
  <2>2. <<l[1], l[2], "attempted">> \in Leases
    BY <2>1 DEF Leases
  <2> QED
    BY <1>1, <2>1, <2>2
<1>4. ASSUME NEW c \in Conts \ loose, IsRunning(c)
      PROVE  PortLeased(docker[c].port)'
  <2>1. PICK k \in leases : k[2] = docker[c].port
    BY <1>4 DEF RelInv, RunningIsLeased, PortLeased
  <2>2. k # l
    BY <1>1, <1>4, <2>1 DEF RelInv, KeepsLeases
  <2> QED
    BY <1>1, <1>2, <2>1, <2>2 DEF PortLeased
<1>5. RunningIsLeased' /\ KeepsLeases'
  BY <1>2, <1>4 DEF RelInv, RunningIsLeased, KeepsLeases, PortLeased, IsRunning
<1>6. RelTyped' /\ OnlyTheRelease' /\ \A c \in Conts : Consistent(c)'
  BY <1>2, <1>3 DEF RelInv, RelTyped, OnlyTheRelease, Consistent, ReleaseServed
<1>7. TeardownInv'
  <2>1. \A d : ContainersOf(d)' = ContainersOf(d)
    BY <1>2, SameRelease
  <2> QED
    BY <1>2, <2>1 DEF RelInv, TeardownInv
<1> QED
  BY <1>5, <1>6, <1>7 DEF RelInv

(* The attempt at one resource of the release.                             *)
LEMMA AttemptKeeps ==
  ASSUME RelInv, NEW r \in Resources, NEW act \in Acts, Attempt(r, act), td.phase # "none",
         r \in ContainersOf(td.dep) \/ r \notin Conts, entry[r] # "none"
  PROVE  RelInv'
<1>1. /\ entry' = [entry EXCEPT ![r] = "Attempted"]
      /\ td' = [td EXCEPT !.cur = r, !.act = act, !.todo = td.todo \ {<<r, act>>},
                          !.result = "none"]
      /\ UNCHANGED <<leases, docker, removed, deps, clock, loose>>
  BY DEF Attempt, Unchanged
<1>2. \A c \in Conts : entry'[c] = (IF c = r THEN "Attempted" ELSE entry[c])
  BY <1>1, ResourceFacts DEF RelInv, RelTyped
<1>3. td \in Teardowns /\ td.todo \ {<<r, act>>} \in SUBSET (Resources \X Acts)
  BY TeardownTyped DEF RelInv, RelTyped
<1>4. /\ td' \in Teardowns /\ td'.phase = td.phase /\ td'.dep = td.dep
      /\ td'.todo \subseteq td.todo /\ td'.cur = r /\ td'.act = act /\ td'.result = "none"
      /\ td'.unmapped = td.unmapped
  BY <1>1, <1>3 DEF Teardowns
<1>5. RelTyped'
  BY <1>1, <1>4 DEF RelInv, RelTyped, EntryStates
<1>6. \A c \in Conts : Consistent(c)'
  BY <1>1, <1>2 DEF RelInv, Consistent, ReleaseServed
<1>7. TeardownInv'
  <2>1. \A d : ContainersOf(d)' = ContainersOf(d)
    BY <1>1, <1>2, SameRelease
  <2>2. entry'[r] = "Attempted"
    BY <1>1 DEF RelInv, RelTyped
  <2> QED
    BY <1>4, <2>1, <2>2 DEF RelInv, TeardownInv, Acts
<1>8. OnlyTheRelease' /\ RunningIsLeased' /\ KeepsLeases'
  BY <1>1, <1>4 DEF RelInv, OnlyTheRelease, RunningIsLeased, KeepsLeases, PortLeased, IsRunning
<1> QED
  BY <1>5, <1>6, <1>7, <1>8 DEF RelInv

(* What Docker has of a resource may go, stop running or be altered; a     *)
(* container that is not there does not come back.                         *)
LEMMA DockerShrinks ==
  ASSUME RelInv, NEW r \in Resources,
         NEW is \in {"exited", "altered", "none", "shared", docker[r].is},
         docker' = [docker EXCEPT ![r].is = is], UNCHANGED <<deps, entry, leases, loose>>,
         td'.unmapped = td.unmapped, r \in Conts /\ docker[r].is = "none" => is = "none"
  PROVE  /\ docker' \in [Resources -> DockerStates]
         /\ \A c \in Conts : Consistent(c)'
         /\ RunningIsLeased' /\ KeepsLeases'
<1>1. docker \in [Resources -> DockerStates] /\ docker[r].is \in
        {"none", "running", "exited", "there", "altered", "shared"}
  BY DEF RelInv, RelTyped, DockerStates
<1>2. docker' \in [Resources -> DockerStates]
  BY <1>1 DEF DockerStates
<1>3. \A c \in Conts : /\ docker'[c].of = docker[c].of /\ docker'[c].port = docker[c].port
                       /\ docker'[c].is = (IF c = r THEN is ELSE docker[c].is)
  BY <1>1, ResourceFacts DEF DockerStates
<1>4. \A c \in Conts : Consistent(c)'
  BY <1>3 DEF RelInv, Consistent, ReleaseServed
<1>5. RunningIsLeased' /\ KeepsLeases'
  BY <1>3 DEF RelInv, RunningIsLeased, KeepsLeases, PortLeased, IsRunning
<1> QED
  BY <1>2, <1>4, <1>5

(* A call to Docker removes at most what the plan names, as it is found.   *)
LEMMA TearCallKeeps ==
  ASSUME RelInv, TearCall
  PROVE  RelInv'
<1> DEFINE r == td.cur
           now == IF td.act = "Remove" THEN Located(r) ELSE td.act
<1>1. /\ UNCHANGED <<entry, leases, deps, clock, loose>> /\ td.act # "none"
      /\ td.phase # "none" /\ r \in Resources /\ td \in Teardowns
      /\ docker[r] \in DockerStates
  BY DEF TearCall, Unchanged, RelInv, TeardownInv, RelTyped
<1>2. ASSUME NEW result \in {"Released", "Failed", "Refused"},
             td' = [td EXCEPT !.result = result]
      PROVE  td' \in Teardowns /\ TeardownInv' /\ td'.unmapped = td.unmapped
  <2>1. /\ td' \in Teardowns /\ td'.phase = td.phase /\ td'.dep = td.dep
        /\ td'.todo = td.todo /\ td'.cur = td.cur /\ td'.act = td.act
        /\ td'.unmapped = td.unmapped
    BY <1>1, <1>2 DEF Teardowns
  <2>2. \A d : ContainersOf(d)' = ContainersOf(d)
    BY <1>1, SameRelease
  <2> QED
    BY <1>1, <2>1, <2>2 DEF RelInv, TeardownInv
<1>3. ASSUME NEW is \in {"exited", "none", docker[r].is},
             docker' = [docker EXCEPT ![r].is = is], td'.unmapped = td.unmapped,
             r \in Conts /\ docker[r].is = "none" => is = "none"
      PROVE  /\ docker' \in [Resources -> DockerStates]
             /\ \A c \in Conts : Consistent(c)'
             /\ RunningIsLeased' /\ KeepsLeases'
  BY <1>1, <1>3, DockerShrinks
<1>4. CASE /\ td' = [td EXCEPT !.result = IF now = "Refuse" THEN "Refused" ELSE "Released"]
           /\ UNCHANGED <<docker, removed>>
  <2>1. td' \in Teardowns /\ TeardownInv' /\ td'.unmapped = td.unmapped
    <3>1. (IF now = "Refuse" THEN "Refused" ELSE "Released") \in {"Released", "Failed", "Refused"}
      OBVIOUS
    <3> HIDE DEF now
    <3> QED
      BY <1>2, <1>4, <3>1
  <2> QED
    BY <1>1, <1>4, <2>1
    DEF RelInv, RelTyped, Consistent, ReleaseServed, OnlyTheRelease, RunningIsLeased, KeepsLeases,
        PortLeased, IsRunning
<1>5. CASE /\ now = "Remove"
           /\ docker' = [docker EXCEPT ![r].is = "none"]
           /\ removed' = IF r \in Conts THEN removed \union {<<r, docker[r].of, td.dep>>}
                         ELSE removed
           /\ \E result \in {"Released", "Failed"} : td' = [td EXCEPT !.result = result]
  <2>1. td' \in Teardowns /\ TeardownInv' /\ td'.unmapped = td.unmapped
    BY <1>2, <1>5
  <2>2. r \in Conts => docker[r].of = td.dep \/ r[1] = td.dep
    <3>1. docker[r].is # "none"
      BY <1>5 DEF Located
    <3> QED
      BY <1>1, <3>1, OfTheRelease DEF RelInv, TeardownInv
  <2>3. OnlyTheRelease'
    <3>1. ASSUME NEW x \in removed'
          PROVE  x[2] = x[3] \/ x[1][1] = x[3]
      <4>1. CASE x \in removed
        BY <4>1 DEF RelInv, OnlyTheRelease
      <4>2. CASE r \in Conts /\ x = <<r, docker[r].of, td.dep>>
        BY <2>2, <4>2
      <4> QED
        BY <1>5, <3>1, <4>1, <4>2
    <3> QED
      BY <3>1 DEF OnlyTheRelease
  <2>4. docker' \in [Resources -> DockerStates] /\ RunningIsLeased' /\ KeepsLeases'
        /\ \A c \in Conts : Consistent(c)'
    BY <1>3, <1>5, <2>1
  <2> QED
    BY <1>1, <2>1, <2>3, <2>4 DEF RelInv, RelTyped
<1>6. CASE /\ docker' = [docker EXCEPT ![r].is = IF docker[r].is = "running" THEN "exited"
                                                ELSE docker[r].is]
           /\ td' = [td EXCEPT !.result = "Failed"]
           /\ UNCHANGED removed
  <2>1. td' \in Teardowns /\ TeardownInv' /\ td'.unmapped = td.unmapped
    BY <1>2, <1>6
  <2>2. docker' \in [Resources -> DockerStates] /\ RunningIsLeased' /\ KeepsLeases'
        /\ \A c \in Conts : Consistent(c)'
    <3> DEFINE is == IF docker[r].is = "running" THEN "exited" ELSE docker[r].is
    <3>1. is \in {"exited", "none", docker[r].is} /\ (docker[r].is = "none" => is = "none")
      OBVIOUS
    <3>2. docker' = [docker EXCEPT ![r].is = is]
      BY <1>6
    <3> HIDE DEF is
    <3> QED
      BY <1>3, <2>1, <3>1, <3>2
  <2> QED
    BY <1>1, <1>6, <2>1, <2>2 DEF RelInv, RelTyped, OnlyTheRelease
<1> QED
  BY <1>4, <1>5, <1>6 DEF TearCall

(* The ledger takes the answer; the lease goes after the container.        *)
LEMMA TearResultKeeps ==
  ASSUME RelInv, TearResult
  PROVE  RelInv'
<1>1. /\ entry' = [entry EXCEPT ![td.cur] = td.result]
      /\ td' = [td EXCEPT !.act = "none", !.result = "none",
                          !.todo = IF td.result = "Released" THEN td.todo ELSE {}]
      /\ td.result \in {"Released", "Failed", "Refused"}
      /\ td \in Teardowns /\ td.todo \in SUBSET (Resources \X Acts)
      /\ UNCHANGED <<deps, clock, leases, docker, removed, loose>>
  BY DEF TearResult, Unchanged, RelInv, RelTyped, Teardowns
<1>2. td.cur \in Resources /\ entry[td.cur] # "none" /\ td.phase # "none"
  BY <1>1 DEF RelInv, TeardownInv
<1>3. \A r \in Resources : entry'[r] = (IF r = td.cur THEN td.result ELSE entry[r])
  BY <1>1 DEF RelInv, RelTyped
<1>4. /\ td' \in Teardowns /\ td'.phase = td.phase /\ td'.dep = td.dep
      /\ td'.todo \subseteq td.todo /\ td'.act = "none" /\ td'.result = "none"
      /\ td'.unmapped = td.unmapped
  BY <1>1 DEF Teardowns
<1>5. RelTyped'
  BY <1>1, <1>4 DEF RelInv, RelTyped, EntryStates
<1>6. \A c \in Conts : Consistent(c)'
  BY <1>1, <1>2, <1>3, ResourceFacts DEF RelInv, Consistent, ReleaseServed
<1>7. TeardownInv'
  <2>1. \A d : ContainersOf(d)' = ContainersOf(d)
    BY <1>1, <1>2, <1>3, ResourceFacts, SameRelease
  <2> QED
    BY <1>2, <1>4, <2>1 DEF RelInv, TeardownInv
<1>8. OnlyTheRelease' /\ RunningIsLeased' /\ KeepsLeases'
  BY <1>1, <1>4 DEF RelInv, OnlyTheRelease, RunningIsLeased, KeepsLeases, PortLeased, IsRunning
<1> QED
  BY <1>5, <1>6, <1>7, <1>8 DEF RelInv

(* The first look of a teardown.                                           *)
LEMMA TeardownKeeps ==
  ASSUME RelInv, NEW d \in Deps, Teardown(d)
  PROVE  RelInv'
<1> DEFINE todo == { <<c, Located(c)>> : c \in OpenOf(d) \intersect Conts }
<1>1. /\ td' = [NoTeardown EXCEPT !.dep = d, !.phase = "containers", !.begun = td.begun + 1,
                                  !.todo = todo]
      /\ UNCHANGED <<entry, leases, docker, removed, deps, clock, loose>>
  BY DEF Teardown, Unchanged
<1>2. \A x \in todo : x \in Resources \X Acts /\ x[1] \in ContainersOf(d)
  <2>1. ASSUME NEW c \in OpenOf(d) \intersect Conts
        PROVE  /\ <<c, Located(c)>> \in Resources \X Acts
               /\ <<c, Located(c)>>[1] \in ContainersOf(d)
    <3>1. c \in ContainersOf(d) /\ c \in Resources
      BY ResourceFacts DEF OpenOf
    <3>2. Located(c) \in Acts
      BY DEF Located, Acts
    <3> QED
      BY <3>1, <3>2
  <2> QED
    BY <2>1
<1>3. td.begun + 1 \in Nat /\ d \in Nat /\ todo \in SUBSET (Resources \X Acts)
  BY <1>2, TeardownTyped, ResourceFacts
<1> HIDE DEF todo
<1>4. /\ td' \in Teardowns /\ td'.dep = d /\ td'.phase = "containers" /\ td'.todo = todo
      /\ td'.act = "none" /\ td'.result = "none" /\ td'.unmapped = {}
  <2>1. td' = [dep |-> d, phase |-> "containers", todo |-> todo, cur |-> <<0, "main">>,
               act |-> "none", result |-> "none", unmapped |-> {}, begun |-> td.begun + 1]
    BY <1>1 DEF NoTeardown
  <2> QED
    BY <1>3, <2>1 DEF Teardowns
<1>5. \A e : ContainersOf(e)' = ContainersOf(e)
  BY <1>1, SameRelease
<1>6. RelTyped' /\ TeardownInv'
  BY <1>1, <1>2, <1>4, <1>5 DEF RelInv, RelTyped, TeardownInv
<1> QED
  BY <1>1, <1>4, <1>6
  DEF RelInv, Consistent, ReleaseServed, OnlyTheRelease, RunningIsLeased, KeepsLeases, PortLeased,
      IsRunning

(* A container that is started again has its lease, or is noted.           *)
LEMMA StartKeeps ==
  ASSUME RelInv, NEW c \in Conts, UserStarts(c)
  PROVE  RelInv'
<1>1. /\ docker[c].is = "exited" /\ docker' = [docker EXCEPT ![c].is = "running"]
      /\ loose' = IF PortLeased(docker[c].port) /\ docker[c].port \notin td.unmapped
                  THEN loose \ {c} ELSE loose \union {c}
      /\ UNCHANGED <<deps, entry, leases, clock, td, removed>>
  BY DEF UserStarts
<1>2. docker \in [Resources -> DockerStates] /\ c \in Resources
  BY ResourceFacts DEF RelInv, RelTyped
<1>3. docker' \in [Resources -> DockerStates]
  BY <1>1, <1>2 DEF DockerStates
<1>4. \A o \in Conts : /\ docker'[o].of = docker[o].of /\ docker'[o].port = docker[o].port
                       /\ docker'[o].is = (IF o = c THEN "running" ELSE docker[o].is)
  BY <1>1, <1>2, ResourceFacts DEF DockerStates
<1>5. RelTyped' /\ OnlyTheRelease'
  BY <1>1, <1>3 DEF RelInv, RelTyped, OnlyTheRelease
<1>6. \A o \in Conts : Consistent(o)'
  BY <1>1, <1>4 DEF RelInv, Consistent, ReleaseServed
<1>7. TeardownInv'
  <2>1. \A d : ContainersOf(d)' = ContainersOf(d)
    BY <1>1, SameRelease
  <2> QED
    BY <1>1, <2>1 DEF RelInv, TeardownInv
<1>8. ASSUME NEW o \in Conts \ loose', IsRunning(o)'
      PROVE  PortLeased(docker[o].port) /\ docker[o].port \notin td.unmapped
  <2>1. CASE o = c
    BY <1>1, <1>8, <2>1
  <2>2. CASE o # c
    <3>1. o \notin loose /\ IsRunning(o)
      BY <1>1, <1>4, <1>8, <2>2 DEF IsRunning
    <3> QED
      BY <3>1 DEF RelInv, RunningIsLeased, KeepsLeases
  <2> QED
    BY <2>1, <2>2
<1>9. RunningIsLeased' /\ KeepsLeases'
  <2>1. \A o \in Conts : PortLeased(docker[o].port) => PortLeased(docker[o].port)'
    BY <1>1, <1>4 DEF PortLeased
  <2> QED
    BY <1>1, <1>4, <1>8, <2>1 DEF RunningIsLeased, KeepsLeases
<1> QED
  BY <1>5, <1>6, <1>7, <1>9 DEF RelInv

(* Every step of the releases and of their teardown keeps it.              *)
LEMMA ReleasesKeep ==
  ASSUME RelInv, [ReleasesNext]_relVars
  PROVE  RelInv'
<1>1. ASSUME NEW d \in Deps, First(d)
      PROVE  RelInv'
  <2>1. PICK p \in HostPorts : Serves(d, NoRelease, p, {}, NoRelease)
    BY <1>1 DEF First
  <2> QED
    BY <1>1, <2>1, ServesKeeps DEF First
<1>2. ASSUME NEW d \in Deps, NEW t \in Deps \union {NoRelease}, NEW c \in Conts, CutOver(d, t, c)
      PROVE  RelInv'
  <2>1. PICK p \in HostPorts : Serves(d, t, p, {c}, ReleaseServed(c))
    BY <1>2 DEF CutOver
  <2>2. ReleaseServed(c) \in Deps \union {NoRelease}
    BY ResourceFacts DEF RelInv, RelTyped, ReleaseServed, DepRecords, NoRelease
  <2>3. Runs(d) /\ {c} \in SUBSET Conts /\ \A o \in {c} : IsRunning(o)
    BY <1>2 DEF CutOver, Prepared
  <2> QED
    BY <2>1, <2>2, <2>3, ServesKeeps
<1>3. ASSUME TearContainer
      PROVE  RelInv'
  <2>1. PICK x \in td.todo : Attempt(x[1], x[2])
    BY <1>3 DEF TearContainer
  <2>2. x[1] \in Resources /\ x[2] \in Acts /\ x[1] \in ContainersOf(td.dep)
    BY TeardownTyped DEF RelInv, TeardownInv
  <2>3. entry[x[1]] # "none"
    BY <2>2 DEF ContainersOf
  <2> QED
    BY <1>3, <2>1, <2>2, <2>3, AttemptKeeps DEF TearContainer
<1>4. ASSUME TearImage
      PROVE  RelInv'
  <2> DEFINE i == ImageOf(td.dep)
  <2>1. /\ td.phase # "none" /\ entry[i] # "none" /\ Attempt(i, Located(i))
    BY <1>4 DEF TearImage, LiveEntry
  <2>2. i \in Resources /\ i \notin Conts
    BY <2>1, ResourceFacts DEF RelInv, TeardownInv
  <2>3. Located(i) \in Acts
    BY DEF Located, Acts
  <2> QED
    BY <2>1, <2>2, <2>3, AttemptKeeps
<1>5. AfterContainers \/ TearImageDone \/ TeardownEnds => RelInv'
  BY PhaseKeeps DEF AfterContainers, TearImageDone, TeardownEnds, Unchanged
<1>6. ASSUME NEW c \in Conts, UserStarts(c)
      PROVE  RelInv'
  BY <1>6, StartKeeps
<1>7. ASSUME NEW r \in Resources, UserChanges(r)
      PROVE  RelInv'
  <2>1. PICK is \in {"exited", "altered", "none", "shared"} :
          /\ docker[r].is \in {"running", "exited", "there"}
          /\ docker' = [docker EXCEPT ![r].is = is]
    BY <1>7 DEF UserChanges
  <2>2. UNCHANGED <<deps, entry, leases, clock, td, removed, loose>>
    BY <1>7 DEF UserChanges
  <2>3. /\ docker' \in [Resources -> DockerStates]
        /\ \A c \in Conts : Consistent(c)'
        /\ RunningIsLeased' /\ KeepsLeases'
    BY <2>1, <2>2, DockerShrinks
  <2>4. \A d : ContainersOf(d)' = ContainersOf(d)
    BY <2>2, SameRelease
  <2> QED
    BY <2>2, <2>3, <2>4 DEF RelInv, RelTyped, TeardownInv, OnlyTheRelease
<1>8. ASSUME UNCHANGED <<deps, entry, leases, docker, td, removed, loose>>,
             clock' = clock \/ clock' = [now |-> 0, back |-> TRUE]
      PROVE  RelInv'
  <2>1. \A d : ContainersOf(d)' = ContainersOf(d)
    BY <1>8, SameRelease
  <2>2. RelTyped'
    <3>1. [now |-> 0, back |-> TRUE] \in [now : Nat, back : BOOLEAN]
      OBVIOUS
    <3> QED
      BY <1>8, <3>1 DEF RelInv, RelTyped
  <2> QED
    BY <1>8, <2>1, <2>2
    DEF RelInv, TeardownInv, Consistent, ReleaseServed, OnlyTheRelease, RunningIsLeased,
        KeepsLeases, PortLeased, IsRunning
<1>9. SetBack \/ UNCHANGED relVars => RelInv'
  BY <1>8 DEF SetBack, relVars
<1> QED
  BY <1>1, <1>2, <1>3, <1>4, <1>5, <1>6, <1>7, <1>9, NotCutOverKeeps, TeardownKeeps,
     TearCallKeeps, TearResultKeeps, PortsKeep, LeaseKeeps
  DEF ReleasesNext
-----------------------------------------------------------------------------
(* Which container serves.                                                 *)

(* What its deployment's record says, whatever the ledger's entry does.    *)
MayBeServed(c) == IF c[2] = "main" THEN Succeeded(c[1])
                  ELSE ServiceReturned(c[1]) /\ deps[c[1]].replaces # NoRelease

(* The inductive form: while the clock only goes forward, deployments are  *)
(* dated before now, and the container served last after all the others    *)
(* whose records allow it.                                                 *)
ServedInv ==
    /\ \A d \in Deps : ServiceReturned(d) => deps[d].status = "Failed"
    /\ served[1] # 0 => served \in Conts
    /\ ~clock.back => \A d \in Deps : deps[d].status # "none" => deps[d].since < clock.now
    /\ ~clock.back /\ served[1] # 0 =>
         /\ MayBeServed(served)
         /\ \A o \in Conts \ {served} : MayBeServed(o) => Since(o) < Since(served)

(* At the start nothing is served.                                         *)
LEMMA ServedStarts == ReleasesInit => ServedInv
<1> SUFFICES ASSUME ReleasesInit PROVE ServedInv
  OBVIOUS
<1>1. \A d \in Deps : deps[d].status = "none" /\ deps[d].recovery = "none"
  BY DEF ReleasesInit, NewDep
<1>2. served[1] = 0
  BY DEF ReleasesInit
<1> QED
  BY <1>1, <1>2 DEF ServedInv, ServiceReturned

(* The deployment d has just put the container c into service.             *)
LEMMA NewestServes ==
  ASSUME RelInv, ServedInv, NEW d \in Deps, NEW new \in DepRecords, NEW c \in Conts,
         Runs(d), deps' = [deps EXCEPT ![d] = new], new.since = clock.now,
         new.status # "none", new.recovery \in {"Restored", "RestoredUnverified"} =>
                                new.status = "Failed",
         c[1] = d, served' = c, MayBeServed(c)',
         \A o \in Conts \ {c} : o[1] = d => ~MayBeServed(o)'
  PROVE  ServedInv'
<1>1. /\ deps'[d] = new /\ \A e \in Deps : e # d => deps'[e] = deps[e]
      /\ clock'.back = clock.back /\ clock'.now = clock.now + 1 /\ clock.now \in Nat
  BY DEF Runs, RelInv, RelTyped
<1>2. \A e \in Deps : deps[e].since \in Nat
  BY DEF RelInv, RelTyped, DepRecords
<1>3. \A e \in Deps : ServiceReturned(e)' => deps'[e].status = "Failed"
  BY <1>1 DEF ServedInv, ServiceReturned
<1>4. ASSUME ~clock'.back
      PROVE  \A e \in Deps : deps'[e].status # "none" => deps'[e].since < clock'.now
  BY <1>1, <1>2, <1>4 DEF ServedInv
<1>5. ASSUME ~clock'.back, NEW o \in Conts \ {c}, MayBeServed(o)'
      PROVE  Since(o)' < Since(c)'
  <2>1. o[1] # d /\ o[1] \in Deps
    BY <1>5, ResourceFacts
  <2>2. MayBeServed(o)
    BY <1>1, <1>5, <2>1 DEF MayBeServed, Succeeded, ServiceReturned
  <2>3. deps[o[1]].status # "none"
    BY <2>1, <2>2 DEF MayBeServed, Succeeded, ServedInv
  <2>4. deps[o[1]].since < clock.now
    BY <1>1, <1>5, <2>1, <2>3 DEF ServedInv
  <2> QED
    BY <1>1, <2>1, <2>4 DEF Since
<1> QED
  BY <1>3, <1>4, <1>5 DEF ServedInv

(* Every cutover, restoration, teardown and tick of the clock keeps it.    *)
LEMMA ServedKeeps ==
  ASSUME RelInv, ServedInv, [ReleasesNext]_relVars
  PROVE  ServedInv'
<1>1. ASSUME NEW d \in Deps, NEW t \in Deps \union {NoRelease}, NEW port \in HostPorts,
             NEW stopped, NEW replaces \in Deps \union {NoRelease},
             Runs(d), Serves(d, t, port, stopped, replaces)
      PROVE  ServedInv'
  <2> DEFINE new == [NewDep EXCEPT !.status = "Succeeded", !.rollbackTo = t, !.replaces = replaces,
                       !.since = clock.now, !.pinned = [port |-> port, of |-> Of(d, t)]]
  <2>1. deps' = [deps EXCEPT ![d] = new] /\ served' = <<d, "main">>
    BY <1>1 DEF Serves
  <2>2. new \in DepRecords /\ new.status = "Succeeded" /\ new.recovery = "none"
        /\ new.since = clock.now
    <3>1. clock.now \in Nat /\ port \in Nat /\ Of(d, t) \in Nat
      BY ReleasesAssumption, ResourceFacts DEF RelInv, RelTyped, Of, NoRelease
    <3> QED
      BY <3>1, NewRecords DEF NewDep, DepRecords, NoRelease
  <2> HIDE DEF new
  <2>3. deps'[d] = new
    BY <2>1 DEF RelInv, RelTyped
  <2>4. MayBeServed(<<d, "main">>)'
    BY <2>2, <2>3 DEF MayBeServed, Succeeded
  <2>5. \A o \in Conts \ {<<d, "main">>} : o[1] = d => ~MayBeServed(o)'
    BY <2>2, <2>3, ResourceFacts DEF MayBeServed, ServiceReturned
  <2> QED
    BY <1>1, <2>1, <2>2, <2>4, <2>5, NewestServes, ResourceFacts
<1>2. ASSUME NEW d \in Deps, NEW t \in Deps \union {NoRelease}, NEW old \in Conts,
             NotCutOver(d, t, old)
      PROVE  ServedInv'
  <2>1. PICK outcome \in Restoration(old, TRUE) \union Restoration(old, FALSE) :
          /\ deps' = [deps EXCEPT ![d] = [NewDep EXCEPT !.status = "Failed", !.rollbackTo = t,
                        !.replaces = ReleaseServed(old), !.recovery = outcome,
                        !.since = clock.now]]
          /\ served' = IF outcome \in {"Restored", "RestoredUnverified"} THEN <<d, "restored">>
                       ELSE served
    BY <1>2 DEF NotCutOver
  <2> DEFINE new == FailedOf(t, old, outcome)
  <2>2. Prepared(d, t, old) /\ Runs(d) /\ outcome \in Recoveries
    BY <1>2, OutcomeIsOne DEF NotCutOver, Prepared
  <2>3. /\ new.status = "Failed" /\ new.replaces = ReleaseServed(old)
        /\ new.recovery = outcome /\ new.since = clock.now /\ new \in DepRecords
        /\ ReleaseServed(old) \in Deps
    BY <1>2, <2>2, FailedRecord
  <2>4. deps' = [deps EXCEPT ![d] = new]
    BY <2>1 DEF FailedOf
  <2> HIDE DEF new
  <2>5. deps'[d] = new /\ \A e \in Deps : e # d => deps'[e] = deps[e]
    BY <2>4 DEF RelInv, RelTyped
  <2>6. ~MayBeServed(<<d, "main">>)'
    BY <2>3, <2>5 DEF MayBeServed, Succeeded
  <2>7. CASE outcome \in {"Restored", "RestoredUnverified"}
    <3>1. MayBeServed(<<d, "restored">>)'
      BY <2>3, <2>5, <2>7, ResourceFacts DEF MayBeServed, ServiceReturned, NoRelease
    <3>2. \A o \in Conts \ {<<d, "restored">>} : o[1] = d => ~MayBeServed(o)'
      BY <2>6, ResourceFacts
    <3> QED
      BY <2>1, <2>2, <2>3, <2>4, <2>7, <3>1, <3>2, NewestServes, ResourceFacts
  <2>8. CASE outcome \notin {"Restored", "RestoredUnverified"}
    <3>1. served' = served /\ clock'.back = clock.back /\ clock'.now = clock.now + 1
          /\ clock.now \in Nat /\ \A e \in Deps : deps[e].since \in Nat
      BY <2>1, <2>2, <2>8 DEF Runs, RelInv, RelTyped, DepRecords
    <3>2. \A o \in Conts : o[1] = d => ~MayBeServed(o)' /\ ~MayBeServed(o)
      <4>1. deps[d].status = "none" /\ ~ServiceReturned(d)
        BY <2>2 DEF Runs, ServedInv
      <4>2. ~ServiceReturned(d)'
        BY <2>3, <2>5, <2>8 DEF ServiceReturned
      <4> QED
        BY <2>3, <2>5, <4>1, <4>2 DEF MayBeServed, Succeeded
    <3>3. \A o \in Conts : o[1] # d => /\ MayBeServed(o)' = MayBeServed(o)
                                      /\ Since(o)' = Since(o)
      BY <2>5, ResourceFacts DEF MayBeServed, Succeeded, ServiceReturned, Since
    <3>4. \A e \in Deps : ServiceReturned(e)' => deps'[e].status = "Failed"
      BY <2>3, <2>5 DEF ServedInv, ServiceReturned
    <3>5. ASSUME ~clock'.back
          PROVE  \A e \in Deps : deps'[e].status # "none" => deps'[e].since < clock'.now
      BY <2>3, <2>5, <3>1, <3>5 DEF ServedInv
    <3>6. ASSUME ~clock'.back, served'[1] # 0
          PROVE  /\ MayBeServed(served)'
                 /\ \A o \in Conts \ {served} : MayBeServed(o)' => Since(o)' < Since(served)'
      <4>1. MayBeServed(served) /\ served \in Conts
        BY <3>1, <3>6 DEF ServedInv
      <4>2. served[1] # d
        BY <3>2, <4>1
      <4> QED
        BY <3>1, <3>2, <3>3, <3>6, <4>1, <4>2 DEF ServedInv
    <3> QED
      BY <3>1, <3>4, <3>5, <3>6 DEF ServedInv
  <2> QED
    BY <2>7, <2>8
<1>3. ASSUME UNCHANGED <<deps, served>>,
             clock' = clock \/ clock' = [now |-> 0, back |-> TRUE]
      PROVE  ServedInv'
  BY <1>3 DEF ServedInv, MayBeServed, Succeeded, ServiceReturned, Since
<1>4. /\ (\E d \in Deps : Teardown(d)) \/ TearContainer \/ TearCall \/ TearResult
          \/ AfterContainers \/ TearImage \/ TearImageDone \/ TearPorts \/ TearLease \/ TeardownEnds
          \/ (\E r \in Resources : UserChanges(r)) \/ (\E c \in Conts : UserStarts(c)) \/ UNCHANGED relVars
            => UNCHANGED <<deps, served, clock>>
      /\ SetBack => UNCHANGED <<deps, served>> /\ clock' = [now |-> 0, back |-> TRUE]
  BY DEF Teardown, TearContainer, TearCall, TearResult, AfterContainers, TearImage,
         TearImageDone, TearPorts, TearLease, TeardownEnds, UserChanges, UserStarts, Attempt, Unchanged, SetBack,
         relVars
<1>5. ASSUME NEW d \in Deps, First(d)
      PROVE  ServedInv'
  <2>1. PICK p \in HostPorts : Serves(d, NoRelease, p, {}, NoRelease)
    BY <1>5 DEF First
  <2> QED
    BY <1>1, <1>5, <2>1 DEF First
<1>6. ASSUME NEW d \in Deps, NEW t \in Deps \union {NoRelease}, NEW c \in Conts, CutOver(d, t, c)
      PROVE  ServedInv'
  <2>1. PICK p \in HostPorts : Serves(d, t, p, {c}, ReleaseServed(c))
    BY <1>6 DEF CutOver
  <2>2. ReleaseServed(c) \in Deps \union {NoRelease} /\ Runs(d)
    BY <1>6, ResourceFacts
    DEF RelInv, RelTyped, ReleaseServed, DepRecords, NoRelease, CutOver, Prepared
  <2> QED
    BY <1>1, <2>1, <2>2
<1> QED
  BY <1>2, <1>3, <1>4, <1>5, <1>6 DEF ReleasesNext

(* While the clock only goes forward the container served last is the one  *)
(* that the records name.                                                  *)
LEMMA ServedIsNamed == RelInv /\ ServedInv => RecordsNameServed
<1> SUFFICES ASSUME RelInv, ServedInv, served[1] # 0, LiveEntry(served), ~clock.back
             PROVE  IsServed(served)
  BY DEF RecordsNameServed
<1>1. served \in MayServe
  BY DEF ServedInv, MayServe, MayBeServed
<1>2. ASSUME NEW o \in MayServe \ {served}
      PROVE  ServesAfter(served, o)
  <2>1. o \in Conts /\ MayBeServed(o)
    BY DEF MayServe, MayBeServed
  <2>2. Since(o) < Since(served)
    BY <2>1 DEF ServedInv
  <2>3. Since(o) \in Nat /\ Since(served) \in Nat
    BY <1>1, <2>1, ResourceFacts DEF MayServe, Since, RelInv, RelTyped, DepRecords
  <2> QED
    BY <2>2, <2>3 DEF ServesAfter
<1> QED
  BY <1>1, <1>2 DEF IsServed
=============================================================================
