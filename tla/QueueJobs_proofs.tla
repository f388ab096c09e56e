--------------------------- MODULE QueueJobs_proofs ---------------------------
(***************************************************************************)
(* Proofs about QueueJobs.  A number the broker gives is new, a worker     *)
(* holds only an active job, and a job that is gone never comes back; so   *)
(* what was true when a handler or a caller began is true when it writes.  *)
(***************************************************************************)
EXTENDS QueueJobs, TLAPS

JobRec == [state: JobState, made: 0..MaxAttempts]

NumberIsNew    == \A q \in Queues, i \in Ids : i > last[q] => jobs[<<q, i>>].state = "none"
WorkerHoldsIt  == \A k \in Keys : workers[k] # "idle" => jobs[k].state = "active"
HandlerWasDone == \A h \in handlers : h.writes = "completed" => jobs[h.key].state = "done"
MarkIsGone     == \A c \in Callers : (calls[c] # Idle /\ calls[c].op = "mark")
                                        => jobs[calls[c].key].state \in Gone

JobsInv == /\ TypeOK /\ NumberIsNew /\ WorkerHoldsIt /\ HandlerWasDone /\ MarkIsGone
           /\ CompletedHasRun /\ CancelledIsGone

-----------------------------------------------------------------------------
(* Broker states only move on: a new job has a new number, and a job that  *)
(* is done or removed stays so.                                            *)
GoneStays == \A k \in Keys : /\ jobs[k].state = "done" => jobs'[k].state = "done"
                             /\ jobs[k].state \in Gone => jobs'[k].state \in Gone

(* What must be shown of a step for what was known of the rows, the calls, *)
(* the handlers and the streams to stay true.                              *)
LEMMA Preserved ==
  ASSUME JobsInv, TypeOK', NumberIsNew', WorkerHoldsIt', GoneStays,
         \A h \in handlers' : h \in handlers \/ (h.writes = "completed" => jobs'[h.key].state = "done"),
         \A c \in Callers : \/ calls'[c] = calls[c]
                            \/ calls'[c] = Idle
                            \/ calls'[c].op = "row"
                            \/ jobs'[calls'[c].key].state \in Gone,
         \A i \in Ids : \/ rows'[i] = rows[i]
                        \/ rows'[i] = NoRow
                        \/ rows'[i].status # "completed"
                        \/ jobs'[<<Default, i>>].state = "done"
                        \/ rows[i] # NoRow /\ rows[i].status = rows'[i].status,
         \A k \in streamed' : k \in streamed \/ jobs'[k].state \in Gone
  PROVE  JobsInv'
<1>1. HandlerWasDone'
  <2> SUFFICES ASSUME NEW h \in handlers', h.writes = "completed" PROVE jobs'[h.key].state = "done"
    BY DEF HandlerWasDone
  <2>1. h.key \in Keys
    BY QueueAssumption DEF TypeOK, Handler, Keys
  <2> QED
    BY <2>1 DEF JobsInv, HandlerWasDone, GoneStays
<1>2. MarkIsGone'
  <2> SUFFICES ASSUME NEW c \in Callers, calls'[c] # Idle, calls'[c].op = "mark"
               PROVE  jobs'[calls'[c].key].state \in Gone
    BY DEF MarkIsGone
  <2>1. calls'[c].key \in Keys
    BY DEF TypeOK, Call
  <2> QED
    BY <2>1 DEF JobsInv, MarkIsGone, GoneStays
<1>3. CompletedHasRun'
  <2> SUFFICES ASSUME NEW i \in Ids, rows'[i] # NoRow, rows'[i].status = "completed"
               PROVE  jobs'[<<Default, i>>].state = "done"
    BY DEF CompletedHasRun
  <2>1. <<Default, i>> \in Keys
    BY QueueAssumption DEF Keys
  <2> QED
    BY <2>1 DEF JobsInv, CompletedHasRun, GoneStays
<1>4. CancelledIsGone'
  BY DEF JobsInv, TypeOK, CancelledIsGone, GoneStays
<1> QED
  BY <1>1, <1>2, <1>3, <1>4 DEF JobsInv

(* A step that changes the state of one job from s to another.             *)
LEMMA OneState ==
  ASSUME JobsInv, NEW k \in Keys, NEW j \in JobRec, jobs' = [jobs EXCEPT ![k] = j],
         jobs[k].state \notin Gone \/ j.state = jobs[k].state
  PROVE  /\ jobs' \in [Keys -> JobRec]
         /\ jobs'[k] = j /\ \A x \in Keys : x # k => jobs'[x] = jobs[x]
         /\ GoneStays
<1>1. jobs \in [Keys -> JobRec]
  BY DEF JobsInv, TypeOK, JobRec
<1>2. jobs' \in [Keys -> JobRec] /\ jobs'[k] = j /\ \A x \in Keys : x # k => jobs'[x] = jobs[x]
  BY <1>1
<1> QED
  BY <1>2 DEF GoneStays, Gone

LEMMA RecOf ==
  ASSUME JobsInv, NEW k \in Keys, NEW s \in JobState
  PROVE  /\ [jobs[k] EXCEPT !.state = s] \in JobRec
         /\ [jobs[k] EXCEPT !.state = s].state = s
  BY DEF JobsInv, TypeOK, JobRec

(* A job that exists has a number the broker has given.                    *)
LEMMA Given ==
  ASSUME JobsInv, NEW k \in Keys, NEW q \in Queues, NEW i \in Ids,
         jobs[k].state # "none", i > last[q]
  PROVE  <<q, i>> # k
  BY DEF JobsInv, NumberIsNew

-----------------------------------------------------------------------------
(* An API step or a broker step that only changes the state of the job k   *)
(* that no worker holds.                                                   *)
LEMMA BrokerStep ==
  ASSUME JobsInv, NEW k \in Keys, NEW s \in JobState, SetState(k, s),
         jobs[k].state \in {"waiting", "delayed", "failed"},
         UNCHANGED <<last, rows, workers, handlers, paused, streamed, faults>>,
         calls' \in [Callers -> Call \cup {Idle}],
         \A c \in Callers : calls'[c] = calls[c] \/ (calls'[c].key = k /\ s \in Gone)
  PROVE  JobsInv'
<1>1. jobs' = [jobs EXCEPT ![k] = [jobs[k] EXCEPT !.state = s]]
  BY DEF SetState
<1>2. /\ jobs' \in [Keys -> JobRec] /\ jobs'[k].state = s
      /\ \A x \in Keys : x # k => jobs'[x] = jobs[x]
      /\ GoneStays
  BY <1>1, RecOf, OneState DEF Gone
<1>3. TypeOK'
  BY <1>2 DEF JobsInv, TypeOK, JobRec
<1>4. NumberIsNew'
  BY <1>2, Given DEF JobsInv, NumberIsNew, Keys
<1>5. WorkerHoldsIt'
  BY <1>2 DEF JobsInv, WorkerHoldsIt
<1> QED
  BY <1>2, <1>3, <1>4, <1>5, Preserved

LEMMA CreateStep ==
  ASSUME JobsInv, NEW c \in Callers, NEW q \in Queues, NEW s \in {"waiting", "delayed"},
         CreateJob(c, q, s)
  PROVE  JobsInv'
<1> DEFINE n == last[q] + 1
           k == <<q, n>>
<1>1. n \in Ids /\ k \in Keys /\ last[q] \in 0..MaxId
  BY QueueAssumption DEF CreateJob, JobsInv, TypeOK, Ids, Keys
<1>2. jobs[k].state = "none"
  BY <1>1, QueueAssumption DEF JobsInv, NumberIsNew, Ids
<1>3. jobs' = [jobs EXCEPT ![k] = [jobs[k] EXCEPT !.state = s]]
  BY DEF CreateJob, SetState
<1>4. calls' = [calls EXCEPT ![c] = [op |-> "row", key |-> k]] /\ last' = [last EXCEPT ![q] = n]
      /\ UNCHANGED <<rows, workers, handlers, paused, streamed, faults>>
  BY DEF CreateJob, SetCall
<1> HIDE DEF k
<1>5. /\ jobs' \in [Keys -> JobRec] /\ jobs'[k].state = s
      /\ \A x \in Keys : x # k => jobs'[x] = jobs[x]
      /\ GoneStays
  <2>1. s \in JobState
    BY DEF JobState
  <2>2. [jobs[k] EXCEPT !.state = s] \in JobRec /\ [jobs[k] EXCEPT !.state = s].state = s
    BY <1>1, <2>1, RecOf
  <2>3. jobs[k].state \notin Gone
    BY <1>2 DEF Gone
  <2> QED
    BY <1>1, <1>3, <2>2, <2>3, OneState
<1>6. /\ calls' \in [Callers -> Call \cup {Idle}]
      /\ \A x \in Callers : calls'[x] = calls[x] \/ calls'[x].op = "row"
  BY <1>1, <1>4 DEF JobsInv, TypeOK, Call
<1>7. last' \in [Queues -> 0..MaxId]
  BY <1>1, <1>4, QueueAssumption DEF JobsInv, TypeOK, Ids
<1>8. TypeOK'
  BY <1>4, <1>5, <1>6, <1>7 DEF JobsInv, TypeOK, JobRec
<1>9. NumberIsNew'
  <2> SUFFICES ASSUME NEW p \in Queues, NEW i \in Ids, i > last'[p] PROVE jobs'[<<p, i>>].state = "none"
    BY DEF NumberIsNew
  <2>1. i > last[p] /\ (p = q => i # n)
    BY <1>1, <1>4, QueueAssumption DEF JobsInv, TypeOK, Ids
  <2>2. <<p, i>> # k /\ <<p, i>> \in Keys
    BY <2>1 DEF k, Keys
  <2> QED
    BY <1>5, <2>1, <2>2 DEF JobsInv, NumberIsNew
<1>10. WorkerHoldsIt'
  BY <1>2, <1>4, <1>5 DEF JobsInv, WorkerHoldsIt
<1> QED
  BY <1>4, <1>5, <1>6, <1>8, <1>9, <1>10, Preserved

-----------------------------------------------------------------------------
(* The steps of a worker that holds the job k.                             *)
LEMMA WorkerStep ==
  ASSUME JobsInv, NEW k \in Keys, NEW j \in JobRec, NEW w \in {"idle", "start", "body"},
         jobs' = [jobs EXCEPT ![k] = j], workers' = [workers EXCEPT ![k] = w],
         jobs[k].state \notin Gone, jobs[k].state # "none", w # "idle" => j.state = "active",
         UNCHANGED <<last, calls, paused, streamed>>, faults' \in 0..MaxFaults,
         rows' \in [Ids -> Row \cup {NoRow}],
         \A i \in Ids : rows'[i] = rows[i] \/ rows'[i].status # "completed",
         \/ handlers' = handlers
         \/ Emit(k, "failed")
         \/ Emit(k, "completed") /\ j.state = "done"
  PROVE  JobsInv'
<1>1. /\ jobs' \in [Keys -> JobRec] /\ jobs'[k] = j
      /\ \A x \in Keys : x # k => jobs'[x] = jobs[x]
      /\ GoneStays
  BY OneState
<1>2. /\ handlers' \subseteq Handler
      /\ \A h \in handlers' : h \in handlers \/ (h.writes = "completed" => jobs'[h.key].state = "done")
  <2>1. PICK h : /\ handlers' = handlers \/ (handlers' = handlers \cup {h} /\ h.key = k /\ k[1] = Default)
                 /\ h = [key |-> k, writes |-> "failed"] \/ (h = [key |-> k, writes |-> "completed"] /\ j.state = "done")
    <3>1. CASE handlers' = handlers
      <4> WITNESS [key |-> k, writes |-> "failed"]
      <4> QED
        BY <3>1
    <3>2. CASE Emit(k, "failed")
      <4> WITNESS [key |-> k, writes |-> "failed"]
      <4> QED
        BY <3>2 DEF Emit
    <3>3. CASE Emit(k, "completed") /\ j.state = "done"
      <4> WITNESS [key |-> k, writes |-> "completed"]
      <4> QED
        BY <3>3 DEF Emit
    <3> QED
      BY <3>1, <3>2, <3>3
  <2>2. k[1] = Default => h \in Handler
    BY <2>1 DEF Handler, Keys
  <2>3. handlers' \subseteq Handler
    BY <2>1, <2>2 DEF JobsInv, TypeOK
  <2>4. h.writes = "completed" => jobs'[k].state = "done"
    BY <1>1, <2>1
  <2> QED
    BY <2>1, <2>3, <2>4
<1>3. workers' \in [Keys -> {"idle", "start", "body"}] /\ workers'[k] = w
      /\ \A x \in Keys : x # k => workers'[x] = workers[x]
  BY DEF JobsInv, TypeOK
<1>4. TypeOK'
  BY <1>1, <1>2, <1>3 DEF JobsInv, TypeOK, JobRec
<1>5. NumberIsNew'
  BY <1>1, Given DEF JobsInv, NumberIsNew, Keys
<1>6. WorkerHoldsIt'
  BY <1>1, <1>3 DEF JobsInv, WorkerHoldsIt
<1> QED
  BY <1>1, <1>2, <1>4, <1>5, <1>6, Preserved

(* The steps that leave the broker and its workers alone.                  *)
LEMMA RowStep ==
  ASSUME JobsInv, UNCHANGED broker, TypeOK',
         handlers' \subseteq handlers,
         \A c \in Callers : calls'[c] = calls[c] \/ calls'[c] = Idle,
         \A i \in Ids : \/ rows'[i] = rows[i]
                        \/ rows'[i] = NoRow
                        \/ rows'[i].status # "completed"
                        \/ jobs[<<Default, i>>].state = "done"
                        \/ rows[i] # NoRow /\ rows[i].status = rows'[i].status,
         \A k \in streamed' : k \in streamed \/ jobs[k].state \in Gone
  PROVE  JobsInv'
<1>1. NumberIsNew' /\ WorkerHoldsIt' /\ GoneStays
  BY DEF JobsInv, NumberIsNew, WorkerHoldsIt, GoneStays, broker
<1> QED
  BY <1>1, Preserved DEF broker

-----------------------------------------------------------------------------
LEMMA RemoveStep ==
  ASSUME JobsInv, NEW c \in Callers, NEW k \in Keys, RemoveJob(c, k)
  PROVE  JobsInv'
<1>1. CASE /\ jobs[k].state \in {"waiting", "delayed", "failed"}
           /\ SetState(k, "removed") /\ SetCall(c, [op |-> "mark", key |-> k])
           /\ UNCHANGED streamed
  <2>1. [op |-> "mark", key |-> k] \in Call /\ "removed" \in JobState /\ "removed" \in Gone
    BY DEF Call, JobState, Gone
  <2>2. /\ calls' \in [Callers -> Call \cup {Idle}]
        /\ \A x \in Callers : calls'[x] = calls[x] \/ calls'[x].key = k
    BY <1>1, <2>1 DEF SetCall, JobsInv, TypeOK
  <2> QED
    BY <1>1, <2>1, <2>2, BrokerStep DEF RemoveJob
<1>2. CASE jobs[k].state \in Gone /\ EmitJobEvent(k) /\ UNCHANGED <<jobs, calls>>
  <2>1. UNCHANGED <<broker, rows, calls, handlers, paused, faults>> /\ streamed' = streamed \cup {k}
    BY <1>2 DEF RemoveJob, EmitJobEvent, broker
  <2>2. TypeOK'
    BY <2>1 DEF JobsInv, TypeOK, broker
  <2> QED
    BY <1>2, <2>1, <2>2, RowStep
<1> QED
  BY <1>1, <1>2 DEF RemoveJob

(* CreateRow and DeleteRow write no status of their own but "waiting".     *)
LEMMA WriteStep ==
  ASSUME JobsInv, NEW c \in Callers, WriteRow(c)
  PROVE  JobsInv'
<1> DEFINE k == calls[c].key
<1>1. k \in Keys /\ k[1] \in Queues /\ k[2] \in Ids
  BY DEF WriteRow, JobsInv, TypeOK, Call, Keys
<1>2. UNCHANGED <<broker, handlers, paused>> /\ calls' = [calls EXCEPT ![c] = Idle]
  BY DEF WriteRow, SetCall
<1>3. /\ calls' \in [Callers -> Call \cup {Idle}]
      /\ \A x \in Callers : calls'[x] = calls[x] \/ calls'[x] = Idle
  BY <1>2 DEF JobsInv, TypeOK
<1>4. /\ rows' \in [Ids -> Row \cup {NoRow}]
      /\ \A i \in Ids : \/ rows'[i] = rows[i]
                        \/ rows'[i].status # "completed"
                        \/ rows[i] # NoRow /\ rows[i].status = rows'[i].status
  <2>1. CASE UNCHANGED rows
    BY <2>1 DEF JobsInv, TypeOK
  <2>2. CASE rows' = [rows EXCEPT ![k[2]] = [queue |-> k[1], status |-> "waiting", deleted |-> FALSE]]
    <3>1. [queue |-> k[1], status |-> "waiting", deleted |-> FALSE] \in Row
      BY <1>1 DEF Row
    <3> QED
      BY <1>1, <2>2, <3>1 DEF JobsInv, TypeOK
  <2>3. CASE /\ rows[k[2]] # NoRow
             /\ rows' = [rows EXCEPT ![k[2]] = [rows[k[2]] EXCEPT !.deleted = TRUE]]
    <3>1. rows[k[2]] \in Row
      BY <1>1, <2>3 DEF JobsInv, TypeOK
    <3>2. /\ [rows[k[2]] EXCEPT !.deleted = TRUE] \in Row
          /\ [rows[k[2]] EXCEPT !.deleted = TRUE].status = rows[k[2]].status
      BY <3>1 DEF Row
    <3> QED
      BY <1>1, <2>3, <3>2 DEF JobsInv, TypeOK
  <2>4. CASE CreateRow(k)
    BY <2>1, <2>2, <2>4 DEF CreateRow
  <2>5. CASE DeleteRow(k[2])
    BY <2>1, <2>3, <2>5 DEF DeleteRow
  <2> QED
    BY <2>1, <2>4, <2>5 DEF WriteRow
<1>5. faults' \in 0..MaxFaults
  BY QueueAssumption DEF WriteRow, NoFault, Fault, JobsInv, TypeOK
<1>6. streamed' = streamed \/ (streamed' = streamed \cup {k} /\ jobs[k].state \in Gone)
  BY DEF WriteRow, EmitJobEvent, JobsInv, MarkIsGone
<1>7. streamed' \subseteq Keys /\ \A x \in streamed' : x \in streamed \/ jobs[x].state \in Gone
  BY <1>1, <1>6 DEF JobsInv, TypeOK
<1>8. TypeOK'
  BY <1>2, <1>3, <1>4, <1>5, <1>7 DEF JobsInv, TypeOK, broker
<1> QED
  BY <1>2, <1>3, <1>4, <1>7, <1>8, RowStep

(* CleanQueue and DrainQueue: no worker holds what they remove.            *)
LEMMA RemoveAllStep ==
  ASSUME JobsInv, NEW q \in Queues, CleanQueue(q) \/ DrainQueue(q)
  PROVE  JobsInv'
<1>1. UNCHANGED <<last, rows, calls, workers, handlers, paused, streamed, faults>>
  BY DEF CleanQueue, DrainQueue, RemoveAll
<1>2. /\ jobs' \in [Keys -> JobRec]
      /\ \A k \in Keys : \/ jobs'[k] = jobs[k]
                         \/ jobs[k].state \in {"waiting", "delayed", "failed"} /\ jobs'[k].state = "removed"
  <2>1. PICK S : /\ S = {"failed"} \/ S = {"waiting", "delayed"}
                 /\ jobs' = [k \in Keys |-> IF k[1] = q /\ jobs[k].state \in S
                                            THEN [jobs[k] EXCEPT !.state = "removed"] ELSE jobs[k]]
    BY DEF CleanQueue, DrainQueue, RemoveAll
  <2>2. \A k \in Keys : jobs[k] \in JobRec /\ [jobs[k] EXCEPT !.state = "removed"] \in JobRec
                        /\ [jobs[k] EXCEPT !.state = "removed"].state = "removed"
    BY RecOf DEF JobState, JobsInv, TypeOK, JobRec
  <2>3. \A k \in Keys : jobs'[k] = (IF k[1] = q /\ jobs[k].state \in S
                                    THEN [jobs[k] EXCEPT !.state = "removed"] ELSE jobs[k])
    BY <2>1
  <2>4. jobs' \in [Keys -> JobRec]
    BY <2>1, <2>2
  <2>5. S \subseteq {"waiting", "delayed", "failed"}
    BY <2>1
  <2>6. ASSUME NEW k \in Keys
        PROVE  \/ jobs'[k] = jobs[k]
               \/ jobs[k].state \in {"waiting", "delayed", "failed"} /\ jobs'[k].state = "removed"
    <3>1. CASE k[1] = q /\ jobs[k].state \in S
      <4>1. jobs'[k] = [jobs[k] EXCEPT !.state = "removed"]
        BY <2>3, <3>1
      <4>2. jobs[k].state \in {"waiting", "delayed", "failed"}
        BY <2>5, <3>1
      <4> QED
        BY <2>2, <4>1, <4>2
    <3>2. CASE ~(k[1] = q /\ jobs[k].state \in S)
      BY <2>3, <3>2
    <3> QED
      BY <3>1, <3>2
  <2>7. \A k \in Keys : \/ jobs'[k] = jobs[k]
                        \/ jobs[k].state \in {"waiting", "delayed", "failed"} /\ jobs'[k].state = "removed"
    BY <2>6, Zenon
  <2> QED
    BY <2>4, <2>7, Zenon
<1>3. GoneStays
  BY <1>2 DEF GoneStays, Gone
<1>4. TypeOK'
  BY <1>1, <1>2 DEF JobsInv, TypeOK, JobRec
<1>5. NumberIsNew'
  BY <1>1, <1>2 DEF JobsInv, NumberIsNew, Keys
<1>6. WorkerHoldsIt'
  BY <1>1, <1>2 DEF JobsInv, WorkerHoldsIt
<1> QED
  BY <1>1, <1>3, <1>4, <1>5, <1>6, Preserved

LEMMA CrashStep == JobsInv /\ Crash => JobsInv'
<1> SUFFICES ASSUME JobsInv, Crash PROVE JobsInv'
  OBVIOUS
<1>1. /\ UNCHANGED <<last, rows, paused, streamed>> /\ handlers' = {}
      /\ calls' = [c \in Callers |-> Idle] /\ workers' = [k \in Keys |-> "idle"]
      /\ faults' \in 0..MaxFaults
  BY QueueAssumption DEF Crash, Fault, JobsInv, TypeOK
<1>2. /\ jobs' \in [Keys -> JobRec]
      /\ \A k \in Keys : jobs'[k] = jobs[k] \/ jobs[k].state = "active"
  <2>1. \A k \in Keys : jobs[k] \in JobRec /\ [jobs[k] EXCEPT !.state = "waiting"] \in JobRec
    BY RecOf DEF JobState, JobsInv, TypeOK, JobRec
  <2>2. jobs' = [k \in Keys |-> IF jobs[k].state = "active"
                               THEN [jobs[k] EXCEPT !.state = "waiting"] ELSE jobs[k]]
    BY DEF Crash
  <2> QED
    BY <2>1, <2>2
<1>3. GoneStays
  BY <1>2 DEF GoneStays, Gone
<1>4. TypeOK'
  BY <1>1, <1>2 DEF JobsInv, TypeOK, JobRec
<1>5. NumberIsNew' /\ WorkerHoldsIt'
  BY <1>1, <1>2 DEF JobsInv, NumberIsNew, WorkerHoldsIt, Keys
<1> QED
  BY <1>1, <1>3, <1>4, <1>5, Preserved

-----------------------------------------------------------------------------
LEMMA TakeStep ==
  ASSUME JobsInv, NEW k \in Keys, TakeJob(k)
  PROVE  JobsInv'
<1> DEFINE j == [jobs[k] EXCEPT !.state = "active"]
<1>1. j \in JobRec /\ j.state = "active"
  BY RecOf DEF JobState
<1>2. jobs' = [jobs EXCEPT ![k] = j] /\ jobs[k].state = "waiting"
      /\ workers' = [workers EXCEPT ![k] = "start"]
      /\ UNCHANGED <<last, rows, calls, handlers, paused, streamed, faults>>
  BY DEF TakeJob, SetState
<1> HIDE DEF j
<1>3. faults' \in 0..MaxFaults /\ rows' \in [Ids -> Row \cup {NoRow}]
  BY <1>2 DEF JobsInv, TypeOK
<1> QED
  BY <1>1, <1>2, <1>3, WorkerStep DEF Gone

LEMMA FinishStep ==
  ASSUME JobsInv, NEW k \in Keys, Finish(k)
  PROVE  JobsInv'
<1> DEFINE j == [jobs[k] EXCEPT !.state = "done"]
<1>1. j \in JobRec /\ j.state = "done"
  BY RecOf DEF JobState
<1>2. jobs' = [jobs EXCEPT ![k] = j] /\ workers' = [workers EXCEPT ![k] = "idle"]
      /\ UNCHANGED <<last, rows, calls, paused, streamed, faults>> /\ Emit(k, "completed")
  BY DEF Finish, SetState
<1>3. jobs[k].state = "active"
  BY DEF Finish, JobsInv, WorkerHoldsIt
<1> HIDE DEF j
<1>4. faults' \in 0..MaxFaults /\ rows' \in [Ids -> Row \cup {NoRow}]
  BY <1>2 DEF JobsInv, TypeOK
<1> QED
  BY <1>1, <1>2, <1>3, <1>4, WorkerStep DEF Gone

LEMMA ProcessStep ==
  ASSUME JobsInv, NEW k \in Keys, Process(k)
  PROVE  JobsInv'
<1>1. /\ rows[k[2]] # NoRow /\ rows' = [rows EXCEPT ![k[2]] = [rows[k[2]] EXCEPT !.status = "active"]]
      /\ workers' = [workers EXCEPT ![k] = "body"]
      /\ UNCHANGED <<jobs, last, calls, handlers, paused, streamed, faults>>
  BY DEF Process, CanUpdate, UpdateStatus
<1>2. jobs[k] \in JobRec /\ jobs[k].state = "active" /\ jobs' = [jobs EXCEPT ![k] = jobs[k]]
  BY <1>1 DEF Process, JobsInv, TypeOK, JobRec, WorkerHoldsIt
<1>3. k[2] \in Ids /\ rows[k[2]] \in Row
  BY <1>1 DEF JobsInv, TypeOK, Keys
<1>4. [rows[k[2]] EXCEPT !.status = "active"] \in Row /\ [rows[k[2]] EXCEPT !.status = "active"].status = "active"
  BY <1>3 DEF Row
<1>5. /\ rows' \in [Ids -> Row \cup {NoRow}]
      /\ \A i \in Ids : rows'[i] = rows[i] \/ rows'[i].status # "completed"
  BY <1>1, <1>3, <1>4 DEF JobsInv, TypeOK
<1>6. faults' \in 0..MaxFaults
  BY <1>1 DEF JobsInv, TypeOK
<1> QED
  BY <1>1, <1>2, <1>5, <1>6, WorkerStep DEF Gone

LEMMA ThrowStep ==
  ASSUME JobsInv, NEW k \in Keys, ProcessThrows(k)
  PROVE  JobsInv'
<1> DEFINE j == IF jobs[k].made + 1 < MaxAttempts
                THEN [state |-> "waiting", made |-> jobs[k].made + 1]
                ELSE [state |-> "failed", made |-> MaxAttempts]
<1>1. jobs[k].made \in 0..MaxAttempts /\ jobs[k].state = "active"
  BY DEF ProcessThrows, JobsInv, TypeOK, WorkerHoldsIt
<1>2. j \in JobRec
  BY <1>1, QueueAssumption DEF JobRec, JobState
<1>3. jobs' = [jobs EXCEPT ![k] = j] /\ workers' = [workers EXCEPT ![k] = "idle"]
      /\ UNCHANGED <<last, rows, calls, paused, streamed>> /\ Emit(k, "failed")
  BY DEF ProcessThrows
<1> HIDE DEF j
<1>4. faults' \in 0..MaxFaults /\ rows' \in [Ids -> Row \cup {NoRow}]
  BY <1>3, QueueAssumption DEF ProcessThrows, Fault, NoFault, JobsInv, TypeOK
<1> QED
  BY <1>1, <1>2, <1>3, <1>4, WorkerStep DEF Gone

(* A handler writes what was true when it began, and that is still true.   *)
LEMMA OutcomeStep ==
  ASSUME JobsInv, NEW h \in handlers, WriteOutcome(h)
  PROVE  JobsInv'
<1>1. h \in Handler /\ h.key[1] = Default /\ h.key[2] \in Ids /\ h.key = <<Default, h.key[2]>>
  BY DEF JobsInv, TypeOK, Handler
<1>2. UNCHANGED <<broker, calls, paused, streamed>> /\ handlers' = handlers \ {h}
  BY DEF WriteOutcome
<1>3. \/ UNCHANGED rows
      \/ /\ rows[h.key[2]] # NoRow
         /\ rows' = [rows EXCEPT ![h.key[2]] = [rows[h.key[2]] EXCEPT !.status = h.writes]]
  BY DEF WriteOutcome, CanUpdate, UpdateStatus
<1>4. h.writes = "completed" => jobs[<<Default, h.key[2]>>].state = "done"
  BY <1>1 DEF JobsInv, HandlerWasDone
<1>5. /\ rows' \in [Ids -> Row \cup {NoRow}]
      /\ \A i \in Ids : \/ rows'[i] = rows[i]
                        \/ i = h.key[2] /\ rows'[i].status = h.writes
  <2>1. CASE UNCHANGED rows
    BY <2>1 DEF JobsInv, TypeOK
  <2>2. CASE /\ rows[h.key[2]] # NoRow
             /\ rows' = [rows EXCEPT ![h.key[2]] = [rows[h.key[2]] EXCEPT !.status = h.writes]]
    <3>1. rows[h.key[2]] \in Row /\ h.writes \in {"completed", "failed"}
      BY <1>1, <2>2 DEF JobsInv, TypeOK, Handler
    <3>2. /\ [rows[h.key[2]] EXCEPT !.status = h.writes] \in Row
          /\ [rows[h.key[2]] EXCEPT !.status = h.writes].status = h.writes
      BY <3>1 DEF Row
    <3> QED
      BY <1>1, <2>2, <3>2 DEF JobsInv, TypeOK
  <2> QED
    BY <1>3, <2>1, <2>2
<1>6. faults' \in 0..MaxFaults
  BY QueueAssumption DEF WriteOutcome, NoFault, Fault, JobsInv, TypeOK
<1>7. TypeOK'
  BY <1>2, <1>5, <1>6 DEF JobsInv, TypeOK, broker
<1>8. h.writes \in {"completed", "failed"}
  BY <1>1 DEF Handler
<1> QED
  BY <1>2, <1>4, <1>5, <1>7, <1>8, RowStep

-----------------------------------------------------------------------------
LEMMA InitInv == Init => JobsInv
<1> SUFFICES ASSUME Init PROVE JobsInv
  OBVIOUS
<1>1. TypeOK
  BY QueueAssumption DEF Init, TypeOK, JobState
<1>2. /\ NumberIsNew /\ WorkerHoldsIt /\ HandlerWasDone /\ MarkIsGone
      /\ CompletedHasRun /\ CancelledIsGone
  BY DEF Init, NumberIsNew, WorkerHoldsIt, HandlerWasDone, MarkIsGone, CompletedHasRun,
         CancelledIsGone, Keys
<1> QED
  BY <1>1, <1>2 DEF JobsInv

LEMMA StepInv == JobsInv /\ [Next]_vars => JobsInv'
<1> SUFFICES ASSUME JobsInv, [Next]_vars PROVE JobsInv'
  OBVIOUS
<1>0. calls \in [Callers -> Call \cup {Idle}]
  BY DEF JobsInv, TypeOK
<1>1. CASE UNCHANGED vars
  <2>1. TypeOK'
    BY <1>1 DEF vars, JobsInv, TypeOK
  <2> QED
    BY <1>1, <2>1, RowStep DEF vars, broker
<1>2. CASE \E c \in Callers : CallStep(c)
  BY <1>2, CreateStep, RemoveStep, WriteStep DEF CallStep
<1>3. CASE \E k \in Keys : RetryJob(k)
  BY <1>0, <1>3, BrokerStep DEF RetryJob, JobState
<1>4. CASE \E k \in Keys : PromoteJob(k)
  BY <1>0, <1>4, BrokerStep DEF PromoteJob, JobState
<1>5. CASE \E k \in Keys : TakeJob(k) \/ Process(k) \/ Finish(k) \/ ProcessThrows(k)
  BY <1>5, TakeStep, ProcessStep, FinishStep, ThrowStep
<1>6. CASE \E h \in handlers : WriteOutcome(h)
  BY <1>6, OutcomeStep
<1>7. CASE \E q \in Queues : CleanQueue(q) \/ DrainQueue(q)
  BY <1>7, RemoveAllStep
<1>8. CASE \E q \in Queues, flag \in BOOLEAN : SetPaused(q, flag)
  <2>1. TypeOK'
    BY <1>8, ZenonT(30) DEF SetPaused, JobsInv, TypeOK, broker
  <2> QED
    BY <1>8, <2>1, RowStep DEF SetPaused
<1>9. CASE \E i \in Ids : CleanupOldJobs(i)
  <2>1. /\ UNCHANGED <<broker, calls, handlers, paused, streamed, faults>>
        /\ rows' \in [Ids -> Row \cup {NoRow}]
        /\ \A i \in Ids : rows'[i] = rows[i] \/ rows'[i] = NoRow
    BY <1>9 DEF CleanupOldJobs, JobsInv, TypeOK
  <2>2. TypeOK'
    BY <2>1 DEF JobsInv, TypeOK, broker
  <2> QED
    BY <2>1, <2>2, RowStep
<1>10. CASE Crash
  BY <1>10, CrashStep
<1>11. ASSUME NEW q \in Queues, PauseQueue(q) \/ ResumeQueue(q)
       PROVE  \E flag \in BOOLEAN : SetPaused(q, flag)
  BY <1>11 DEF PauseQueue, ResumeQueue
<1> QED
  BY <1>1, <1>2, <1>3, <1>4, <1>5, <1>6, <1>7, <1>8, <1>9, <1>10, <1>11
     DEF Next, JobStep, QueueStep

(* Every reachable state of the jobs is well typed.                        *)
THEOREM JobsTyped == Spec => []TypeOK
<1>1. JobsInv => TypeOK
  BY DEF JobsInv
<1> QED
  BY <1>1, InitInv, StepInv, PTL DEF Spec

(* Whatever ids collide and whatever is lost, retried or removed, the row  *)
(* of a job says completed only if onCompleted wrote it after the job of   *)
(* the default queue ran to its end.                                       *)
THEOREM RowsTellNoFalseSuccess == Spec => []CompletedHasRun
<1>1. JobsInv => CompletedHasRun
  BY DEF JobsInv
<1> QED
  BY <1>1, InitInv, StepInv, PTL DEF Spec

(* A job whose cancellation emitJobEvent told the streams is out of the    *)
(* broker for good.                                                        *)
THEOREM CancelledStaysGone == Spec => []CancelledIsGone
<1>1. JobsInv => CancelledIsGone
  BY DEF JobsInv
<1> QED
  BY <1>1, InitInv, StepInv, PTL DEF Spec
=============================================================================
