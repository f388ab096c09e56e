---------------------------- MODULE MCQueueJobs ----------------------------
(* A small instance of QueueJobs for TLC. *)
EXTENDS QueueJobs
=============================================================================
