-------------------------- MODULE MCQueueSchedules --------------------------
(* Small instances of QueueSchedules for TLC. *)
EXTENDS QueueSchedules

\* All the schedules have the name of one type.
OneType == [s \in Schedules |-> "report"]
=============================================================================
