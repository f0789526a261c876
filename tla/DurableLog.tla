----------------------------- MODULE DurableLog -----------------------------
(***************************************************************************)
(* What a journal promises whoever acts on its answers: records are kept   *)
(* in the order they were written, and one that was acknowledged is never  *)
(* lost.  A record whose write was not acknowledged may turn up or not.    *)
(***************************************************************************)
EXTENDS Naturals, Sequences

CONSTANT Line

VARIABLES
    log,     \* the records a replay would return now
    acked    \* how many of them have been acknowledged

Init == log = <<>> /\ acked = 0

Write(r) == log' = Append(log, r) /\ UNCHANGED acked
Acknowledge == acked' = Len(log) /\ UNCHANGED log
Commit(r) == log' = Append(log, r) /\ acked' = Len(log')
Lose == \E n \in acked..Len(log) : log' = SubSeq(log, 1, n) /\ UNCHANGED acked

Next == Acknowledge \/ Lose \/ \E r \in Line : Write(r) \/ Commit(r)

Spec == Init /\ [][Next]_<<log, acked>>
=============================================================================
