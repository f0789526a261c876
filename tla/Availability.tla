---------------------------- MODULE Availability ----------------------------
(***************************************************************************)
(* What the deployment engine promises the owner of one application: which *)
(* release serves, and whether a cutover has put that in doubt.  Engine    *)
(* implements it (Engine!Promise).                                         *)
(*                                                                         *)
(* The served release changes in two ways only: a first deployment, and a  *)
(* cutover that was confirmed.  A cutover that is not confirmed is         *)
(* restored at most once, and a restoration brings back the release that   *)
(* served before it or is lost; nothing in the engine resolves a lost one. *)
(***************************************************************************)
CONSTANTS Release, NoRelease

VARIABLES
    served,    \* the release the records say serves
    phase      \* "steady", "switching", "restoring" or "lost"

FirstRelease ==
    /\ phase = "steady" /\ served = NoRelease
    /\ served' \in Release /\ UNCHANGED phase

BeginSwitch ==
    /\ phase = "steady" /\ served # NoRelease
    /\ phase' = "switching" /\ UNCHANGED served

\* The new release was confirmed.
Switch ==
    /\ phase = "switching" /\ phase' = "steady"
    /\ served' \in Release \ {served}

BeginRestore ==
    /\ phase = "switching"
    /\ phase' = "restoring" /\ UNCHANGED served

Restore ==
    /\ phase = "restoring"
    /\ phase' \in {"steady", "lost"} /\ UNCHANGED served

Init == served = NoRelease /\ phase = "steady"

Next == FirstRelease \/ BeginSwitch \/ Switch \/ BeginRestore \/ Restore

Spec == Init /\ [][Next]_<<served, phase>>
=============================================================================
