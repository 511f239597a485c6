---------------------------- MODULE MCScheduler ----------------------------
(* Two processes share the work of one instance that meets every kind of   *)
(* wait.                                                                   *)
EXTENDS Scheduler, TLC

CONSTANTS i1, s1, s2

MCPlan == i1 :> <<"effect", "race", "timer", "timer">>
MCDue == [x \in Ids |-> x[2]]
=============================================================================
