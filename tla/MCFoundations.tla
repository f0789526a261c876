----------------------------- MODULE MCFoundations -----------------------------
(***************************************************************************)
(* For TLC: a store of one deployment and three records; three deployments *)
(* with two variables at two levels, each given other options on the       *)
(* command line; two builds, and three Dockerfiles of which one needs      *)
(* another base; a range of three ports at its end.                        *)
(***************************************************************************)
EXTENDS Foundations

At(level, env) == [level |-> level, env |-> env]
MCScope == {At("global", None), At("app", "prod")}
MCGiven == [d \in Dep |-> CASE d = 1 -> [cli |-> {}, args |-> {}]
                            [] d = 2 -> [cli |-> {"B"}, args |-> {}]
                            [] OTHER -> [cli |-> {}, args |-> {"A"}]]
MCRequires == [t \in Texts |-> IF t = "rebased" THEN {"other"} ELSE {"base"}]
MCFlags == {{"build", "runtime"}}
=============================================================================
