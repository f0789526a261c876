----------------------------- MODULE MCTriggers -----------------------------
(* Small instances of Triggers for TLC. *)
EXTENDS Triggers
=============================================================================
