-------------------------- MODULE MCCaseWorkflow --------------------------
(* Instances of CaseWorkflow for TLC.  Cases share no row before money      *)
(* moves, so one of them shows every interleaving of its own handlers.      *)
EXTENDS CaseWorkflow
=============================================================================
