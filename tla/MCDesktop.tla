------------------------------- MODULE MCDesktop -------------------------------
(***************************************************************************)
(* The desktop for TLC: three applications of which two claim one name,    *)
(* two ports, two connections of which one may be open, two shells over    *)
(* two process ids and two descriptors, three calls per worker, two        *)
(* runtimes of which one holds the desktop's own store.                    *)
(***************************************************************************)
EXTENDS Desktop

(* hostname: the application's id up to its suffix. *)
MCHostOf == [a \in Apps |-> IF a = "bravo" THEN "bravo" ELSE "alpha"]
=============================================================================
