-------------------------------- MODULE Ports --------------------------------
(***************************************************************************)
(* The leases of host ports (deploy/src/ports.rs).  A port is taken when a *)
(* process of the host listens on it, a container of Docker (running or    *)
(* stopped) maps it, or the ledger has it leased; each of the three is     *)
(* only part of the answer.  The search walks the range from a hint and    *)
(* wraps at its end.  The code does that walk with a 32-bit sum that is    *)
(* cut to 16 bits before the remainder is taken.                           *)
(***************************************************************************)
EXTENDS Integers

CONSTANTS RangeStart, RangeEnd   \* PortRange: start and (inclusive) end

ASSUME PortRangeAssumption ==
    /\ RangeStart \in Nat /\ RangeEnd \in Nat
    /\ RangeStart <= RangeEnd /\ RangeEnd < 65536
    /\ RangeEnd - RangeStart < 32768

Range16 == RangeStart .. RangeEnd
Size == RangeEnd - RangeStart + 1
NoPort == 65536                  \* Err(Exhausted): no 16-bit port

(* The sources of Occupancy, in the order taken() asks them.               *)
Sources == {"listener", "mapping", "lease"}
Taken(occ, p) == \E s \in Sources : p \in occ[s]

(* A hint outside the range is the start of the range.                     *)
FirstOf(hint) == IF hint \in Range16 THEN hint ELSE RangeStart

(* (mutant) The walk does not wrap.                                        *)
WalkClamped(first, i) ==
    IF first + i > RangeEnd THEN RangeEnd ELSE first + i

(* The i-th port of the walk.                                              *)
Walk(first, i) == RangeStart + ((((first - RangeStart) + i) % 65536) % Size)


(* allocate: the first port of the walk that is neither taken nor          *)
(* excluded.                                                               *)
Allocate(occ, hint, exclude) ==
    LET first == FirstOf(hint)
        ok(i) == LET p == Walk(first, i) IN ~Taken(occ, p) /\ p \notin exclude
        hits == { i \in 0 .. Size - 1 : ok(i) }
    IN  IF hits = {} THEN NoPort
        ELSE Walk(first, CHOOSE i \in hits : \A j \in hits : i <= j)

(* reallocate_after_collision: the walk goes on after the contested port,  *)
(* which is never taken again.  (Its caller asks once.)                    *)
Reallocate(occ, prev) == Allocate(occ, prev + 1, {prev})

-----------------------------------------------------------------------------
(* What allocate promises, without the walk: the free port at the least    *)
(* cyclic distance from the hint, and none only if there is no free port.  *)
Distance(first, p) == IF p >= first THEN p - first ELSE p - first + Size
Promised(occ, hint, exclude, got) ==
    LET free == { p \in Range16 : ~Taken(occ, p) /\ p \notin exclude }
    IN  IF got = NoPort THEN free = {}
        ELSE /\ got \in free
             /\ \A p \in free :
                   Distance(FirstOf(hint), got) <= Distance(FirstOf(hint), p)
=============================================================================
