---------------------------- MODULE MCPriorityGate ----------------------------
(* Five tasks, two slots, two priority classes: enough for a stale heap     *)
(* entry in front of a live one, for ties, and for a hand-off to a task     *)
(* that is cancelled before it resumes.                                     *)
EXTENDS PriorityGate, TLC

CONSTANTS t1, t2, t3, t4, t5

MCTasks == {t1, t2, t3, t4, t5}
MCPriority == (t1 :> 1) @@ (t2 :> 1) @@ (t3 :> 1) @@ (t4 :> 2) @@ (t5 :> 2)
==============================================================================
