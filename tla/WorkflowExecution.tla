-------------------------- MODULE WorkflowExecution --------------------------
(***************************************************************************)
(* workflow-service: ExecutionService, the half of N8nService that runs a  *)
(* workflow in n8n, and the composition of both with WorkflowSync, whose   *)
(* deleteWorkflow counts the active executions.                            *)
(*                                                                         *)
(* executeWorkflow and retryExecution create a PENDING row and then start, *)
(* without awaiting it, a promise chain                                    *)
(*     n8nService.executeWorkflow(..).then(complete).catch(error)          *)
(* that outlives the request.  "chain" is where that chain has got to for  *)
(* each execution; "xcall" are the request handlers in flight.             *)
(***************************************************************************)
EXTENDS WorkflowSync

CONSTANTS Execution,   \* execution ids
          XCall        \* concurrent execute / cancel / retry handlers

ASSUME ExecAssumption == None \notin Execution \cup XCall

VARIABLES exStatus,    \* execution.status, "none" before the row is created
          exWf,        \* execution.workflowId
          exN8n,       \* metadata.n8n_execution_id: the execution whose n8n
                       \*   run it identifies, or None
          retryOf,     \* triggeredBy: the execution it retries, or None
          run,         \* n8n: the state of the run posted for the execution
          chain,       \* the background chain of the execution
          xcall        \* the handlers in flight

execVars == <<exStatus, exWf, exN8n, retryOf, run, chain, xcall>>
vars     == <<syncVars, execVars>>

Active   == {"PENDING", "RUNNING"}
Terminal == {"COMPLETED", "FAILED", "CANCELLED"}

ChainStep == {"none", "map", "post", "reply", "store", "complete", "fail",
              "settled", "lost"}
InProgress == {"map", "post", "reply", "store", "complete", "fail"}
RunState == {"none", "running", "ended", "stopped"}
XStep == {"idle", "create", "stopLookup", "stop", "cancel", "recreate"}

XFrame == [pc : XStep, wf : Workflow \cup {None}, ex : Execution \cup {None},
           n8n : Execution \cup {None}]
XIdle == [pc |-> "idle", wf |-> None, ex |-> None, n8n |-> None]

ExecTypeOK ==
  /\ exStatus \in [Execution -> {"none"} \cup Active \cup Terminal]
  /\ exWf \in [Execution -> Workflow \cup {None}]
  /\ exN8n \in [Execution -> Execution \cup {None}]
  /\ retryOf \in [Execution -> Execution \cup {None}]
  /\ run \in [Execution -> RunState]
  /\ chain \in [Execution -> [pc : ChainStep, id : N8nId \cup {None}]]
  /\ xcall \in [XCall -> XFrame]

ExecInit ==
  /\ exStatus = [e \in Execution |-> "none"]
  /\ exWf = [e \in Execution |-> None]
  /\ exN8n = [e \in Execution |-> None]
  /\ retryOf = [e \in Execution |-> None]
  /\ run = [e \in Execution |-> "none"]
  /\ chain = [e \in Execution |-> [pc |-> "none", id |-> None]]
  /\ xcall = [x \in XCall |-> XIdle]

XGoto(x, step)     == xcall' = [xcall EXCEPT ![x].pc = step]
XReturn(x)         == xcall' = [xcall EXCEPT ![x] = XIdle]
ChainGoto(e, step) == chain' = [chain EXCEPT ![e].pc = step]

(* The count of deleteWorkflow. *)
HasActive(w) == \E e \in Execution : exWf[e] = w /\ exStatus[e] \in Active

-------------------------------------------------------------------------------
(***************************************************************************)
(* Requests                                                                *)
(***************************************************************************)

(* A new row, and its chain started: it runs up to the mapping query. *)
CreateExecution(e, w, parent, metadata) ==
  /\ exStatus[e] = "none"
  /\ exStatus' = [exStatus EXCEPT ![e] = "PENDING"]
  /\ exWf' = [exWf EXCEPT ![e] = w]
  /\ exN8n' = [exN8n EXCEPT ![e] = metadata]
  /\ retryOf' = [retryOf EXCEPT ![e] = parent]
  /\ ChainGoto(e, "map")
  /\ UNCHANGED run

ExecuteCheck(x, w) ==
  /\ xcall[x].pc = "idle"
  /\ status[w] = "ACTIVE"
  /\ xcall' = [xcall EXCEPT ![x] =
                 [pc |-> "create", wf |-> w, ex |-> None, n8n |-> None]]
  /\ UNCHANGED <<syncVars, exStatus, exWf, exN8n, retryOf, run, chain>>

ExecuteCreate(x, e) ==
  /\ xcall[x].pc = "create"
  /\ CreateExecution(e, xcall[x].wf, None, None)
  /\ XReturn(x)
  /\ UNCHANGED syncVars

(* retryExecution reads the row and its metadata, not the workflow's status. *)
RetryCheck(x, e) ==
  /\ xcall[x].pc = "idle"
  /\ exStatus[e] \in {"FAILED", "CANCELLED"}
  /\ xcall' = [xcall EXCEPT ![x] =
                 [pc |-> "recreate", wf |-> exWf[e], ex |-> e, n8n |-> exN8n[e]]]
  /\ UNCHANGED <<syncVars, exStatus, exWf, exN8n, retryOf, run, chain>>

(* Mutant: retries in the row of the original. *)
RetryInPlace(x, e) ==
  /\ xcall[x].pc = "recreate" /\ e = xcall[x].ex
  /\ exStatus' = [exStatus EXCEPT ![e] = "PENDING"]
  /\ ChainGoto(e, "map")
  /\ XReturn(x)
  /\ UNCHANGED <<syncVars, exWf, exN8n, retryOf, run>>

(* ...(originalExecution.metadata) copies the n8n id of the original run. *)
RetryCreate(x, e) ==
  /\ xcall[x].pc = "recreate"
  /\ CreateExecution(e, xcall[x].wf, xcall[x].ex, xcall[x].n8n)
  /\ XReturn(x)
  /\ UNCHANGED syncVars

(* Mutant: no test of the status. *)
CancelAnything(x, e) ==
  /\ xcall[x].pc = "idle"
  /\ exStatus[e] # "none"
  /\ xcall' = [xcall EXCEPT ![x] =
                 [pc |-> "stopLookup", wf |-> None, ex |-> e, n8n |-> None]]
  /\ UNCHANGED <<syncVars, exStatus, exWf, exN8n, retryOf, run, chain>>

CancelCheck(x, e) ==
  /\ xcall[x].pc = "idle"
  /\ exStatus[e] \in Active
  /\ xcall' = [xcall EXCEPT ![x] =
                 [pc |-> "stopLookup", wf |-> None, ex |-> e, n8n |-> None]]
  /\ UNCHANGED <<syncVars, exStatus, exWf, exN8n, retryOf, run, chain>>

(* Mutant: the stop request is not awaited. *)
CancelLookupNoAwait(x) ==
  /\ xcall[x].pc = "stopLookup"
  /\ xcall' = [xcall EXCEPT ![x].pc = "cancel", ![x].n8n = exN8n[xcall[x].ex]]
  /\ UNCHANGED <<syncVars, exStatus, exWf, exN8n, retryOf, run, chain>>

(* n8nService.cancelExecution reads the row again for the n8n id and returns *)
(* at once, with nothing stopped, when there is none.                       *)
CancelLookup(x) ==
  LET n8n == exN8n[xcall[x].ex] IN
  /\ xcall[x].pc = "stopLookup"
  /\ \/ /\ n8n # None
        /\ xcall' = [xcall EXCEPT ![x] =
                       [pc |-> "stop", wf |-> None, ex |-> @.ex, n8n |-> n8n]]
     \/ /\ n8n = None
        /\ XGoto(x, "cancel")
  /\ UNCHANGED <<syncVars, exStatus, exWf, exN8n, retryOf, run, chain>>

(* The stop request; its failure, and the 404 of a run that is over, are     *)
(* swallowed.                                                               *)
CancelStop(x) ==
  LET e == xcall[x].n8n IN
  /\ xcall[x].pc = "stop"
  /\ XGoto(x, "cancel")
  /\ \/ /\ run[e] = "running"
        /\ run' = [run EXCEPT ![e] = "stopped"]
     \/ /\ run[e] # "running" \/ Faults
        /\ UNCHANGED run
  /\ UNCHANGED <<syncVars, exStatus, exWf, exN8n, retryOf, chain>>

(* Mutant: the spelling payment-service uses. *)
CancelWriteMisspelt(x) ==
  /\ xcall[x].pc = "cancel"
  /\ exStatus' = [exStatus EXCEPT ![xcall[x].ex] = "CANCELED"]
  /\ XReturn(x)
  /\ UNCHANGED <<syncVars, exWf, exN8n, retryOf, run, chain>>

(* CANCELLED is written whatever the status has become meanwhile.  The task  *)
(* rows updated next do not exist: no code creates a TaskExecution.         *)
CancelWrite(x) ==
  /\ xcall[x].pc = "cancel"
  /\ exStatus' = [exStatus EXCEPT ![xcall[x].ex] = "CANCELLED"]
  /\ XReturn(x)
  /\ UNCHANGED <<syncVars, exWf, exN8n, retryOf, run, chain>>

-------------------------------------------------------------------------------
(***************************************************************************)
(* The background chain                                                    *)
(***************************************************************************)
ChainMap(e) ==
  LET w == exWf[e] IN
  /\ chain[e].pc = "map"
  /\ \/ /\ Linked(w)
        /\ chain' = [chain EXCEPT ![e] = [pc |-> "post", id |-> mapping[w].id]]
     \/ /\ ~Linked(w)
        /\ ChainGoto(e, "fail")
  /\ UNCHANGED <<syncVars, exStatus, exWf, exN8n, retryOf, run, xcall>>

(* n8n accepts the POST and starts a run. *)
ChainPost(e) ==
  /\ chain[e].pc = "post"
  /\ Exists(chain[e].id)
  /\ run' = [run EXCEPT ![e] = "running"]
  /\ chain' = [chain EXCEPT ![e] = [pc |-> "reply", id |-> None]]
  /\ UNCHANGED <<syncVars, exStatus, exWf, exN8n, retryOf, xcall>>

(* Mutant: a failed POST is taken for an answer. *)
ChainPostSwallowed(e) ==
  /\ chain[e].pc = "post"
  /\ ~Exists(chain[e].id) \/ Faults
  /\ ChainGoto(e, "complete")
  /\ UNCHANGED <<syncVars, exStatus, exWf, exN8n, retryOf, run, xcall>>

ChainPostFails(e) ==
  /\ chain[e].pc = "post"
  /\ ~Exists(chain[e].id) \/ Faults
  /\ ChainGoto(e, "fail")
  /\ UNCHANGED <<syncVars, exStatus, exWf, exN8n, retryOf, run, xcall>>

(* The reply may come before or after the run is over, or be lost. *)
ChainReply(e) ==
  /\ chain[e].pc = "reply"
  /\ ChainGoto(e, "store")
  /\ UNCHANGED <<syncVars, exStatus, exWf, exN8n, retryOf, run, xcall>>

ChainReplyLost(e) ==
  /\ chain[e].pc = "reply"
  /\ Faults
  /\ ChainGoto(e, "fail")
  /\ UNCHANGED <<syncVars, exStatus, exWf, exN8n, retryOf, run, xcall>>

(* The metadata column is replaced by { n8n_execution_id }. *)
ChainStore(e) ==
  /\ chain[e].pc = "store"
  /\ exN8n' = [exN8n EXCEPT ![e] = e]
  /\ ChainGoto(e, "complete")
  /\ UNCHANGED <<syncVars, exStatus, exWf, retryOf, run, xcall>>

(* handleExecutionComplete; if its update throws, the catch of the chain     *)
(* records a failure.                                                       *)
ChainComplete(e) ==
  /\ chain[e].pc = "complete"
  /\ exStatus' = [exStatus EXCEPT ![e] = "COMPLETED"]
  /\ ChainGoto(e, "settled")
  /\ UNCHANGED <<syncVars, exWf, exN8n, retryOf, run, xcall>>

ChainCompleteFails(e) ==
  /\ chain[e].pc \in {"store", "complete"}
  /\ Faults
  /\ ChainGoto(e, "fail")
  /\ UNCHANGED <<syncVars, exStatus, exWf, exN8n, retryOf, run, xcall>>

(* Mutant: the error is only logged. *)
ChainFailOnlyLogs(e) ==
  /\ chain[e].pc = "fail"
  /\ ChainGoto(e, "settled")
  /\ UNCHANGED <<syncVars, exStatus, exWf, exN8n, retryOf, run, xcall>>

(* handleExecutionError *)
ChainFail(e) ==
  /\ chain[e].pc = "fail"
  /\ exStatus' = [exStatus EXCEPT ![e] = "FAILED"]
  /\ ChainGoto(e, "settled")
  /\ UNCHANGED <<syncVars, exWf, exN8n, retryOf, run, xcall>>

(* n8n finishes a run by itself. *)
RunEnds(e) ==
  /\ run[e] = "running"
  /\ run' = [run EXCEPT ![e] = "ended"]
  /\ UNCHANGED <<syncVars, exStatus, exWf, exN8n, retryOf, chain, xcall>>

(***************************************************************************)
(* The process dies (a rejection of handleExecutionError is unhandled and  *)
(* ends it too): handlers and chains are gone, rows and n8n remain.        *)
(* Nothing at start-up resumes the executions that were PENDING.           *)
(***************************************************************************)
Crash ==
  /\ CrashCalls
  /\ chain' = [e \in Execution |->
                 IF chain[e].pc \in InProgress THEN [pc |-> "lost", id |-> None]
                                               ELSE chain[e]]
  /\ xcall' = [x \in XCall |-> XIdle]
  /\ UNCHANGED <<exStatus, exWf, exN8n, retryOf, run>>

-------------------------------------------------------------------------------
Init == SyncInit /\ ExecInit

Request(x) ==
  \/ \E w \in Workflow : ExecuteCheck(x, w)
  \/ \E e \in Execution : \/ ExecuteCreate(x, e) \/ RetryCheck(x, e)
                          \/ RetryCreate(x, e)   \/ CancelCheck(x, e)
  \/ CancelLookup(x) \/ CancelStop(x) \/ CancelWrite(x)

ChainAdvances(e) ==
  \/ ChainMap(e) \/ ChainPost(e) \/ ChainPostFails(e)
  \/ ChainReply(e) \/ ChainReplyLost(e) \/ ChainStore(e)
  \/ ChainComplete(e) \/ ChainCompleteFails(e) \/ ChainFail(e)

Next ==
  \/ SyncStep /\ UNCHANGED execVars
  \/ \E c \in Call : DeleteCount(c, HasActive(call[c].wf)) /\ UNCHANGED execVars
  \/ \E x \in XCall : Request(x)
  \/ \E e \in Execution : ChainAdvances(e) \/ RunEnds(e)
  \/ Crash

Spec == Init /\ [][Next]_vars

(* The event loop runs every continuation that is ready, and n8n answers a   *)
(* request or the connection breaks; no request of a client is owed.         *)
FairSpec == Spec /\ \A e \in Execution : WF_vars(ChainAdvances(e))

-------------------------------------------------------------------------------
(***************************************************************************)
(* Properties                                                              *)
(***************************************************************************)
TypeOK == SyncTypeOK /\ ExecTypeOK

(* An execution is PENDING or RUNNING only while its chain is on its way to  *)
(* write an outcome, or because a crash lost the chain; and a chain that has *)
(* settled leaves a terminal status behind, whoever wrote it last.          *)
ActiveIsOwned ==
  \A e \in Execution :
    /\ exStatus[e] \in Active => chain[e].pc \in InProgress \cup {"lost"}
    /\ chain[e].pc = "settled" => exStatus[e] \in Terminal

(* COMPLETED is recorded only for an execution that n8n ran, and the row     *)
(* then carries the id of that very run.                                    *)
CompletedRan ==
  \A e \in Execution :
    exStatus[e] = "COMPLETED" => run[e] # "none" /\ exN8n[e] = e

(* The n8n id in the metadata of a row, copied from retry to retry, always   *)
(* identifies a run of the row's own workflow: a cancellation may stop the   *)
(* run of another execution but never that of another workflow.             *)
StopsOwnWorkflow ==
  \A x \in XCall : xcall[x].pc = "stop" => exWf[xcall[x].n8n] = exWf[xcall[x].ex]

(* When no request fails, a cancellation that found the id of its own run    *)
(* writes CANCELLED only after that run has stopped.                        *)
StoppedBeforeCancelled ==
  \A x \in XCall : xcall[x].pc = "cancel" /\ xcall[x].n8n = xcall[x].ex
                    => run[xcall[x].ex] \in {"ended", "stopped"}

CancelPending(e) == {x \in XCall : /\ xcall[x].pc \in {"stopLookup", "stop", "cancel"}
                                   /\ xcall[x].ex = e}

(* A status that no chain and no accepted cancellation is about to write     *)
(* never changes again.                                                     *)
FinalWhenUnowned ==
  [][\A e \in Execution :
       /\ exStatus[e] # "none"
       /\ chain[e].pc \notin InProgress
       /\ CancelPending(e) = {}
       => exStatus'[e] = exStatus[e]]_vars

(* The promise of ExecutionStatus, with the chain and the accepted           *)
(* cancellations as the writers of an execution.                            *)
Writers == [e \in Execution |->
              CancelPending(e) \cup (IF chain[e].pc \in InProgress THEN {None} ELSE {})]

Promise == INSTANCE ExecutionStatus
             WITH Canceller <- XCall, Chain <- None, writers <- Writers

ImplementsStatus == Promise!StatusSpec

(* Without crashes every execution that starts comes to an end.             *)
EventuallyTerminal ==
  \A e \in Execution : exStatus[e] = "PENDING" ~> exStatus[e] \in Terminal

(* "Can only cancel running or pending executions".                         *)
CancelsOnlyActive ==
  [][\A e \in Execution : exStatus[e] \notin Active /\ exStatus[e] # "CANCELLED"
                           => exStatus'[e] # "CANCELLED"]_vars

(* "Cannot delete workflow with active executions".                         *)
ArchivedHasNoActive == \A w \in Workflow : status[w] = "ARCHIVED" => ~HasActive(w)
===============================================================================
