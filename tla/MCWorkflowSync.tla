---------------------------- MODULE MCWorkflowSync ----------------------------
(* Small instances of WorkflowSync for TLC. *)
EXTENDS WorkflowSync, TLC

(* Ids of n8n, definitions and handler slots are interchangeable. *)
SyncSymmetry == Permutations(N8nId) \cup Permutations(Call) \cup Permutations(Def)
===============================================================================
