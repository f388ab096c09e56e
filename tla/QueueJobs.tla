----------------------------- MODULE QueueJobs -----------------------------
(***************************************************************************)
(* The jobs of the queue service: the job in the broker (Bull, kept in     *)
(* Redis), the row that describes it in Postgres, the workers that run it  *)
(* and the event handlers that write the row when an attempt ends.         *)
(*                                                                         *)
(* The broker numbers the jobs of each queue from 1; the row's id is that  *)
(* number and is unique over all queues.  Only the processor of the        *)
(* default queue has event handlers, and the broker does not wait for      *)
(* them.  Every await of createJob, removeJob, the processors and the      *)
(* handlers is a step of its own, but for the job events table, which is   *)
(* left out: it is appended to and no code decides by it.  A call comes    *)
(* through the REST controller, or through the gRPC controller, which      *)
(* tells every stream of job events what it did; of these events the model *)
(* keeps the cancellations.                                                *)
(***************************************************************************)
EXTENDS Naturals

CONSTANTS Queues, Default, Callers,
          MaxId,         \* bound: jobs added per queue
          MaxAttempts,   \* attempts of a job before it fails for good
          MaxFaults      \* bound: crashes and failing statements of Postgres

ASSUME QueueAssumption ==
  /\ Default \in Queues
  /\ MaxId \in Nat /\ MaxAttempts \in Nat \ {0} /\ MaxFaults \in Nat

VARIABLES
  jobs,       \* jobs[<<q, i>>]: broker state and failed attempts of job i of q
  last,       \* the number the broker gave last in each queue
  rows,       \* the job table
  calls,      \* the API calls under way
  workers,    \* what the worker of an active job does
  handlers,   \* event handlers under way: the status each will write
  paused,     \* the broker's pause flag of each queue
  streamed,   \* jobs whose cancellation the streams of job events were told
  faults      \* crashes and failed statements so far

vars == <<jobs, last, rows, calls, workers, handlers, paused, streamed, faults>>
broker == <<jobs, last, workers>>

Ids  == 1..MaxId
Keys == Queues \X Ids

NoRow    == [none |-> "no row"]
Idle     == [op |-> "idle"]
JobState == {"none", "waiting", "delayed", "active", "failed", "done", "removed"}
Gone     == {"done", "removed"}  \* a completed job is removed at once

Row     == [queue: Queues, status: {"waiting", "active", "completed", "failed"}, deleted: BOOLEAN]
Call    == [op: {"row", "mark"}, key: Keys]
Handler == [key: {Default} \X Ids, writes: {"completed", "failed"}]

TypeOK ==
  /\ jobs \in [Keys -> [state: JobState, made: 0..MaxAttempts]]
  /\ last \in [Queues -> 0..MaxId]
  /\ rows \in [Ids -> Row \cup {NoRow}]
  /\ calls \in [Callers -> Call \cup {Idle}]
  /\ workers \in [Keys -> {"idle", "start", "body"}]
  /\ handlers \subseteq Handler
  /\ paused \in [Queues -> BOOLEAN]
  /\ streamed \subseteq Keys
  /\ faults \in 0..MaxFaults

Init ==
  /\ jobs = [k \in Keys |-> [state |-> "none", made |-> 0]]
  /\ last = [q \in Queues |-> 0]
  /\ rows = [i \in Ids |-> NoRow]
  /\ calls = [c \in Callers |-> Idle]
  /\ workers = [k \in Keys |-> "idle"]
  /\ handlers = {}
  /\ paused = [q \in Queues |-> FALSE]
  /\ streamed = {}
  /\ faults = 0

-----------------------------------------------------------------------------
(* JobRepository.                                                          *)

\* update: throws when there is no such row, and writes the row's status
\* whatever queue its job is in and whether it is deleted.
CanUpdate(i) == rows[i] # NoRow
UpdateStatus(i, s) == rows' = [rows EXCEPT ![i] = [@ EXCEPT !.status = s]]

\* create: refused when the id is taken, by a job of any queue.
CreateRow(k) ==
  IF rows[k[2]] = NoRow
  THEN rows' = [rows EXCEPT ![k[2]] = [queue |-> k[1], status |-> "waiting", deleted |-> FALSE]]
  ELSE UNCHANGED rows

\* delete: the row is marked; without a row it throws.
DeleteRow(i) ==
  IF rows[i] # NoRow
  THEN rows' = [rows EXCEPT ![i] = [@ EXCEPT !.deleted = TRUE]]
  ELSE UNCHANGED rows

-----------------------------------------------------------------------------
(* QueueService and QueueGrpcController.                                   *)

Fault   == faults < MaxFaults /\ faults' = faults + 1
NoFault == UNCHANGED faults

SetState(k, s) == jobs' = [jobs EXCEPT ![k] = [@ EXCEPT !.state = s]]
SetCall(c, call) == calls' = [calls EXCEPT ![c] = call]

\* createJob: the job is in the broker first; a delay keeps it from the workers.
CreateJob(c, q, s) ==
  /\ calls[c] = Idle /\ last[q] < MaxId
  /\ last' = [last EXCEPT ![q] = @ + 1]
  /\ SetState(<<q, last[q] + 1>>, s)
  /\ SetCall(c, [op |-> "row", key |-> <<q, last[q] + 1>>])
  /\ UNCHANGED <<rows, workers, handlers, paused, streamed, faults>>

\* emitJobEvent: every stream is told, whatever queue and tenant it is of.
EmitJobEvent(k) == streamed' = streamed \cup {k}

(* Mutant: that the broker refuses to remove a job is caught and logged.   *)
RemoveAnything(c, k) ==
  /\ calls[c] = Idle /\ k[2] <= last[k[1]]
  /\ IF jobs[k].state \in {"waiting", "delayed", "failed"}
     THEN SetState(k, "removed") ELSE UNCHANGED jobs
  /\ SetCall(c, [op |-> "mark", key |-> k])
  /\ UNCHANGED <<last, rows, workers, handlers, paused, streamed, faults>>

\* removeJob: the broker refuses to remove a job a worker holds; for a job it
\* does not have any more there is nothing to do.
RemoveJob(c, k) ==
  /\ calls[c] = Idle /\ k[2] <= last[k[1]]
  /\ \/ /\ jobs[k].state \in {"waiting", "delayed", "failed"}
        /\ SetState(k, "removed") /\ SetCall(c, [op |-> "mark", key |-> k])
        /\ UNCHANGED streamed
     \/ jobs[k].state \in Gone /\ EmitJobEvent(k) /\ UNCHANGED <<jobs, calls>>
  /\ UNCHANGED <<last, rows, workers, handlers, paused, faults>>

\* The statement after the broker's answer, or its failure; cancelJob tells
\* the streams when it succeeds.
WriteRow(c) ==
  /\ calls[c] # Idle
  /\ SetCall(c, Idle)
  /\ LET k == calls[c].key
     IN \/ calls[c].op = "row" /\ CreateRow(k) /\ NoFault /\ UNCHANGED streamed
        \/ /\ calls[c].op = "mark" /\ DeleteRow(k[2]) /\ NoFault
           /\ \/ UNCHANGED streamed
              \/ rows[k[2]] # NoRow /\ EmitJobEvent(k)
        \/ Fault /\ UNCHANGED <<rows, streamed>>
  /\ UNCHANGED <<broker, handlers, paused>>

\* job.retry: a failed job waits again, with the attempts it has made.
RetryJob(k) ==
  /\ jobs[k].state = "failed" /\ SetState(k, "waiting")
  /\ UNCHANGED <<last, rows, calls, workers, handlers, paused, streamed, faults>>

\* job.promote, or the end of the delay.
PromoteJob(k) ==
  /\ jobs[k].state = "delayed" /\ SetState(k, "waiting")
  /\ UNCHANGED <<last, rows, calls, workers, handlers, paused, streamed, faults>>

RemoveAll(q, states) ==
  /\ \E i \in Ids : jobs[<<q, i>>].state \in states
  /\ jobs' = [k \in Keys |-> IF k[1] = q /\ jobs[k].state \in states
                             THEN [jobs[k] EXCEPT !.state = "removed"] ELSE jobs[k]]
  /\ UNCHANGED <<last, rows, calls, workers, handlers, paused, streamed, faults>>

\* queue.clean(grace, 'failed') and queue.drain: the rows are not told.
CleanQueue(q) == RemoveAll(q, {"failed"})
DrainQueue(q) == RemoveAll(q, {"waiting", "delayed"})

SetPaused(q, flag) ==
  /\ paused' = [paused EXCEPT ![q] = flag]
  /\ UNCHANGED <<broker, rows, calls, handlers, streamed, faults>>
PauseQueue(q) == ~paused[q] /\ SetPaused(q, TRUE)
ResumeQueue(q) == paused[q] /\ SetPaused(q, FALSE)

-----------------------------------------------------------------------------
(* The processors.                                                         *)

(* Mutant: every processor has the handlers of the default one. *)
EmitForAll(k, s) == handlers' = handlers \cup {[key |-> k, writes |-> s]}

\* The handlers of the default queue begin when an attempt ends.
Emit(k, s) ==
  handlers' = IF k[1] = Default THEN handlers \cup {[key |-> k, writes |-> s]} ELSE handlers

\* The broker gives a waiting job to a worker.
TakeJob(k) ==
  /\ jobs[k].state = "waiting" /\ ~paused[k[1]]
  /\ SetState(k, "active")
  /\ workers' = [workers EXCEPT ![k] = "start"]
  /\ UNCHANGED <<last, rows, calls, handlers, paused, streamed, faults>>

\* process(): the row is marked active, then the work is done.
Process(k) ==
  /\ workers[k] = "start" /\ CanUpdate(k[2])
  /\ UpdateStatus(k[2], "active")
  /\ workers' = [workers EXCEPT ![k] = "body"]
  /\ UNCHANGED <<jobs, last, calls, handlers, paused, streamed, faults>>

\* process() returns: the broker completes the job and removes it.
Finish(k) ==
  /\ workers[k] = "body"
  /\ SetState(k, "done")
  /\ workers' = [workers EXCEPT ![k] = "idle"]
  /\ Emit(k, "completed")
  /\ UNCHANGED <<last, rows, calls, paused, streamed, faults>>

(* Mutant: a failed attempt is not counted. *)
ThrowsUncounted(k) ==
  /\ workers[k] = "start" /\ ~CanUpdate(k[2])
  /\ SetState(k, "waiting")
  /\ workers' = [workers EXCEPT ![k] = "idle"]
  /\ Emit(k, "failed")
  /\ UNCHANGED <<last, rows, calls, paused, streamed, faults>>

\* process() throws, for want of a row or of a database: the broker retries at
\* once until the attempts are spent, and a retried job gets one more.
ProcessThrows(k) ==
  /\ \/ workers[k] = "start" /\ ~CanUpdate(k[2]) /\ NoFault
     \/ workers[k] # "idle" /\ Fault
  /\ jobs' = [jobs EXCEPT ![k] =
       IF @.made + 1 < MaxAttempts THEN [state |-> "waiting", made |-> @.made + 1]
                                   ELSE [state |-> "failed", made |-> MaxAttempts]]
  /\ workers' = [workers EXCEPT ![k] = "idle"]
  /\ Emit(k, "failed")
  /\ UNCHANGED <<last, rows, calls, paused, streamed>>

\* onCompleted and onFailed: without a row, or without Postgres, they throw.
WriteOutcome(h) ==
  /\ h \in handlers
  /\ handlers' = handlers \ {h}
  /\ \/ CanUpdate(h.key[2]) /\ UpdateStatus(h.key[2], h.writes) /\ NoFault
     \/ ~CanUpdate(h.key[2]) /\ UNCHANGED rows /\ NoFault
     \/ Fault /\ UNCHANGED rows
  /\ UNCHANGED <<broker, calls, paused, streamed>>

\* The process dies: its calls and handlers are lost, and the broker finds
\* the jobs it held stalled and gives them out again.
Crash ==
  /\ Fault
  /\ calls' = [c \in Callers |-> Idle]
  /\ handlers' = {}
  /\ workers' = [k \in Keys |-> "idle"]
  /\ jobs' = [k \in Keys |-> IF jobs[k].state = "active"
                             THEN [jobs[k] EXCEPT !.state = "waiting"] ELSE jobs[k]]
  /\ UNCHANGED <<last, rows, paused, streamed>>

\* QueueMonitorService.cleanupOldJobs: old completed rows go, others never do.
CleanupOldJobs(i) ==
  /\ rows[i] # NoRow /\ rows[i].status = "completed"
  /\ rows' = [rows EXCEPT ![i] = NoRow]
  /\ UNCHANGED <<broker, calls, handlers, paused, streamed, faults>>

-----------------------------------------------------------------------------
CallStep(c) ==
  \/ \E q \in Queues, s \in {"waiting", "delayed"} : CreateJob(c, q, s)
  \/ \E k \in Keys : RemoveJob(c, k)
  \/ WriteRow(c)

JobStep(k) ==
  \/ RetryJob(k) \/ PromoteJob(k) \/ TakeJob(k) \/ Process(k) \/ Finish(k) \/ ProcessThrows(k)

QueueStep(q) == CleanQueue(q) \/ DrainQueue(q) \/ PauseQueue(q) \/ ResumeQueue(q)

Next ==
  \/ \E c \in Callers : CallStep(c)
  \/ \E k \in Keys : JobStep(k)
  \/ \E h \in handlers : WriteOutcome(h)
  \/ \E q \in Queues : QueueStep(q)
  \/ \E i \in Ids : CleanupOldJobs(i)
  \/ Crash

\* Delays end and the broker serves a queue that is not paused; nobody has to
\* call the API, and the handlers and the clean-up may stay away.
Fairness ==
  \A k \in Keys : /\ WF_vars(PromoteJob(k)) /\ SF_vars(TakeJob(k))
                  /\ WF_vars(Process(k) \/ ProcessThrows(k)) /\ WF_vars(Finish(k))

Spec     == Init /\ [][Next]_vars
FairSpec == Spec /\ Fairness

-----------------------------------------------------------------------------
(* A row says completed only when the job of that number in the default    *)
(* queue has run to its end: onCompleted runs for no other queue, so the   *)
(* ids that collide lead to rows that stay active, never to a false        *)
(* success, whatever is lost, retried, removed or crashes in between.      *)
CompletedHasRun ==
  \A i \in Ids :
    (rows[i] # NoRow /\ rows[i].status = "completed") => jobs[<<Default, i>>].state = "done"

(* A job that the streams were told is cancelled never runs again: the     *)
(* event comes after the broker removed it, and no retry, crash or stalled *)
(* worker brings it back.                                                  *)
CancelledIsGone == \A k \in streamed : jobs[k].state \in Gone

(* Every job of a queue that is not paused for ever comes to an end: it    *)
(* is done, removed, or failed with its attempts spent; a crash of the     *)
(* process only delays that.                                               *)
EveryJobEnds ==
  \A k \in Keys : []<>(~paused[k[1]]) =>
    ((jobs[k].state \in {"waiting", "delayed", "active"})
       ~> (jobs[k].state \in Gone \cup {"failed"}))
=============================================================================
