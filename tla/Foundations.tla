------------------------------ MODULE Foundations ------------------------------
(***************************************************************************)
(* What a deployment rests on besides its engine: the store that its       *)
(* records are kept in (Store), the configuration and the secrets that its *)
(* containers are given (Configuration), the image that they are made from *)
(* (Build), and the port and the check of the container that is started    *)
(* (Readiness).  Each has a state of its own: the store does not look into *)
(* what a record says, the image is built before a value is looked up, the *)
(* values are written into the container before a port is looked for, and  *)
(* a check asks only Docker and the host.  A behaviour of the four         *)
(* interleaves one of each, so one may be looked at at a time: `part` says *)
(* which.                                                                  *)
(***************************************************************************)
EXTENDS Store, Configuration, Build, Readiness

VARIABLE part

foundationVars == <<part, storeVars, configVars, buildVars, vars>>

FoundationsInit ==
    /\ part \in {"store", "configuration", "build", "readiness"}
    /\ StoreInit /\ ConfigInit /\ BuildInit /\ Init
    \* a part that does not move begins in one state only
    /\ part # "readiness" => kind = "final"

FoundationsNext ==
    /\ UNCHANGED part
    /\ \/ part = "store" /\ StoreNext /\ UNCHANGED <<configVars, buildVars, vars>>
       \/ part = "configuration" /\ ConfigNext /\ UNCHANGED <<storeVars, buildVars, vars>>
       \/ part = "build" /\ BuildNext /\ UNCHANGED <<storeVars, configVars, vars>>
       \/ part = "readiness" /\ Next /\ UNCHANGED <<storeVars, configVars, buildVars>>

FoundationsSpec == FoundationsInit /\ [][FoundationsNext]_foundationVars
=============================================================================
