---------------------------- MODULE ExecutionStatus ----------------------------
(***************************************************************************)
(* What an execution of the workflow-service promises about its status,    *)
(* stated without handlers, n8n or mapping rows.  An execution starts      *)
(* PENDING.  Whoever may still write its status is a WRITER: the           *)
(* background chain of executeWorkflow / retryExecution, or a cancellation *)
(* that was accepted while the execution was active.  Each writer writes   *)
(* at most once and then leaves; a status without writers is final.        *)
(***************************************************************************)
CONSTANTS Execution,  \* execution ids
          Canceller,  \* cancellations that can be in flight at once
          Chain       \* the writer that carries n8n's outcome, no Canceller

VARIABLES exStatus,   \* the status column, "none" before the row exists
          writers     \* who may still write it

statusVars == <<exStatus, writers>>

Active   == {"PENDING", "RUNNING"}
Terminal == {"COMPLETED", "FAILED", "CANCELLED"}

StatusTypeOK ==
  /\ exStatus \in [Execution -> {"none"} \cup Active \cup Terminal]
  /\ writers \in [Execution -> SUBSET (Canceller \cup {Chain})]

StatusInit ==
  /\ exStatus = [e \in Execution |-> "none"]
  /\ writers = [e \in Execution |-> {}]

Start(e) ==
  /\ exStatus[e] = "none"
  /\ exStatus' = [exStatus EXCEPT ![e] = "PENDING"]
  /\ writers' = [writers EXCEPT ![e] = {Chain}]

AcceptCancel(e, c) ==
  /\ exStatus[e] \in Active
  /\ c \notin writers[e]
  /\ writers' = [writers EXCEPT ![e] = @ \cup {c}]
  /\ UNCHANGED exStatus

Write(e, x) ==
  /\ x \in writers[e]
  /\ \E s \in IF x = Chain THEN {"COMPLETED", "FAILED"} ELSE {"CANCELLED"} :
       exStatus' = [exStatus EXCEPT ![e] = s]
  /\ writers' = [writers EXCEPT ![e] = @ \ {x}]

(* The process dies and takes every writer with it. *)
LoseWriters ==
  /\ writers' = [e \in Execution |-> {}]
  /\ UNCHANGED exStatus

StatusNext ==
  \/ \E e \in Execution : Start(e)
  \/ \E e \in Execution, c \in Canceller : AcceptCancel(e, c)
  \/ \E e \in Execution, x \in Canceller \cup {Chain} : Write(e, x)
  \/ LoseWriters

StatusSpec == StatusInit /\ [][StatusNext]_statusVars
===============================================================================
