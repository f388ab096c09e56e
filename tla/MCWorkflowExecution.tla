------------------------- MODULE MCWorkflowExecution -------------------------
(* Small instances of WorkflowExecution for TLC. *)
EXTENDS WorkflowExecution, TLC

(* The ids of executions, of n8n and of handler slots are interchangeable. *)
ExecSymmetry == Permutations(N8nId) \cup Permutations(Execution) \cup Permutations(XCall)
===============================================================================
