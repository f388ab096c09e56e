----------------------------- MODULE QueueHealth -----------------------------
(***************************************************************************)
(* What the queue service says of one queue: QueueMonitorService,          *)
(* QueueService.getQueueStatus and QueueHealthIndicator ask the broker how *)
(* many jobs are in each of its lists, with one request for each list,     *)
(* while the jobs move between the lists.  Requests that are sent at once  *)
(* are answered one by one as well, in their order.                        *)
(*                                                                         *)
(* The broker (Bull) is external: a job is in one list at a time, and      *)
(* pausing a queue moves all that wait to the list "paused".               *)
(***************************************************************************)
EXTENDS Naturals, FiniteSets, Sequences

CONSTANTS Jobs, Readers,
          FailedLimit, WaitingLimit,     \* above these a queue is unhealthy
          FailedConcern, WaitingConcern  \* above these it is degraded

HealthAssumption ==
  /\ IsFiniteSet(Jobs)
  /\ {FailedLimit, WaitingLimit, FailedConcern, WaitingConcern} \subseteq Nat

VARIABLES
  jobs,      \* the list of each job, or "none"
  paused,    \* the broker's flag
  row,       \* isPaused in the queue's row, or "none"
  readers,   \* requests under way: kind, replies to come, and the replies
  moved      \* history: jobs that moved since each reader began

vars == <<jobs, paused, row, readers, moved>>

Lists == {"waiting", "active", "completed", "failed", "delayed", "paused"}
Idle  == [kind |-> "idle"]
NoReplies == [l \in Lists |-> 0]

Requests ==
  [checkQueueHealth |-> <<"isPaused", "waiting", "active", "failed", "upsert">>,
   isHealthy        |-> <<"isPaused", "failed", "waiting">>,
   getQueueStatus   |-> <<"waiting", "active", "completed", "failed", "delayed", "paused">>,
   getQueueHealth   |-> <<"waiting", "active", "completed", "failed", "delayed", "paused", "isPaused">>]

TypeOK ==
  /\ jobs \in [Jobs -> Lists \cup {"none"}]
  /\ paused \in BOOLEAN /\ row \in {"none", "yes", "no"}
  /\ \A r \in Readers : readers[r] # Idle =>
       /\ readers[r].kind \in DOMAIN Requests
       /\ readers[r].left \in Seq(Lists \cup {"isPaused", "upsert"})
       /\ readers[r].replies \in [Lists -> 0..Cardinality(Jobs)]
       /\ readers[r].isPaused \in BOOLEAN
  /\ moved \in [Readers -> SUBSET Jobs]

Init ==
  /\ jobs = [j \in Jobs |-> "none"] /\ paused = FALSE /\ row = "none"
  /\ readers = [r \in Readers |-> Idle]
  /\ moved = [r \in Readers |-> {}]

-----------------------------------------------------------------------------
(* The broker.                                                             *)

In(l)    == {j \in Jobs : jobs[j] = l}
Move(S, l) == /\ jobs' = [j \in Jobs |-> IF j \in S THEN l ELSE jobs[j]]
              /\ moved' = [r \in Readers |-> moved[r] \cup S]
Waits == IF paused THEN "paused" ELSE "waiting"

Moves == {<<"none", "delayed">>, <<"waiting", "active">>, <<"active", "failed">>,
          <<"active", "none">>, <<"failed", "none">>}
         \cup {<<l, Waits>> : l \in {"none", "delayed", "failed"}}
MoveJob(j) ==
  /\ \E m \in Moves : jobs[j] = m[1] /\ Move({j}, m[2])
  /\ UNCHANGED <<paused, row, readers>>

PauseQueue ==
  ~paused /\ paused' = TRUE /\ Move(In("waiting"), "paused") /\ UNCHANGED <<row, readers>>
ResumeQueue ==
  paused /\ paused' = FALSE /\ Move(In("paused"), "waiting") /\ UNCHANGED <<row, readers>>

-----------------------------------------------------------------------------
(* The readers.                                                            *)

Begin(r, kind) ==
  /\ readers[r] = Idle
  /\ readers' = [readers EXCEPT ![r] =
       [kind |-> kind, left |-> Requests[kind], replies |-> NoReplies, isPaused |-> FALSE]]
  /\ moved' = [moved EXCEPT ![r] = {}]
  /\ UNCHANGED <<jobs, paused, row>>

CheckQueueHealth(r) == Begin(r, "checkQueueHealth")
IsHealthy(r)        == Begin(r, "isHealthy")
GetQueueStatus(r)   == Begin(r, "getQueueStatus")
GetQueueHealth(r)   == Begin(r, "getQueueHealth")

Awaits(r, l) == readers[r] # Idle /\ readers[r].left # <<>> /\ Head(readers[r].left) = l
Reply(r, l) ==
  /\ Awaits(r, l)
  /\ readers' = IF l = "isPaused"
                THEN [readers EXCEPT ![r].left = Tail(@), ![r].isPaused = paused]
                ELSE [readers EXCEPT ![r].left = Tail(@), ![r].replies[l] = Cardinality(In(l))]
  /\ UNCHANGED <<jobs, paused, row, moved>>

\* The last step of checkQueueHealth writes the row; createQueue leaves the
\* flag of a row that is there.
UpsertRow(r) ==
  /\ Awaits(r, "upsert")
  /\ row' = IF readers[r].isPaused THEN "yes" ELSE "no"
  /\ readers' = [readers EXCEPT ![r] = Idle]
  /\ UNCHANGED <<jobs, paused, moved>>
CreateQueue == row' = (IF row = "none" THEN "no" ELSE row) /\ UNCHANGED <<jobs, paused, readers, moved>>

Answered(r) == readers[r] # Idle /\ readers[r].left = <<>>
\* The answer, or the catch of a request that failed.
Done(r) ==
  /\ readers[r] # Idle
  /\ readers' = [readers EXCEPT ![r] = Idle]
  /\ UNCHANGED <<jobs, paused, row, moved>>

Next ==
  \/ \E j \in Jobs : MoveJob(j)
  \/ PauseQueue \/ ResumeQueue \/ CreateQueue
  \/ \E r \in Readers :
       \/ CheckQueueHealth(r) \/ IsHealthy(r) \/ GetQueueStatus(r) \/ GetQueueHealth(r)
       \/ UpsertRow(r) \/ Done(r)
       \/ \E l \in Lists \cup {"isPaused"} : Reply(r, l)

Spec == Init /\ [][Next]_vars

-----------------------------------------------------------------------------
CalculateHealthScore(n) ==
  CASE n["failed"] > FailedLimit \/ n["waiting"] > WaitingLimit -> "unhealthy"
    [] n["failed"] <= FailedLimit /\ n["waiting"] <= WaitingLimit
       /\ (n["failed"] > FailedConcern \/ n["waiting"] > WaitingConcern) -> "degraded"
    [] OTHER -> "healthy"
\* isHealthy throws with these, checkQueueHealth warns of them.
Errors(n) == {l \in {"failed", "waiting"} :
                n[l] > IF l = "failed" THEN FailedLimit ELSE WaitingLimit}
(* Mutant: what is paused is not counted.                                  *)
TotalUnpaused(n) == n["waiting"] + n["active"] + n["completed"] + n["failed"] + n["delayed"]
Total(n) == n["waiting"] + n["active"] + n["completed"] + n["failed"] + n["delayed"] + n["paused"]

(* A status counts every job that stayed where it was exactly once, and    *)
(* one that moved at most once per list (a pause between two replies       *)
(* counts the whole backlog twice, or not at all); while nothing moves,    *)
(* all of the readers agree on whether the queue is unhealthy.             *)
StatusAddsUp ==
  \A r \in Readers : Answered(r) =>
    LET n == readers[r].replies
        still == Cardinality({j \in Jobs \ moved[r] : jobs[j] # "none"})
        now == [l \in Lists |-> Cardinality(In(l))]
    IN /\ readers[r].kind = "getQueueStatus" =>
            /\ still <= Total(n)
            /\ Total(n) <= still + Cardinality(Lists) * Cardinality(moved[r])
       /\ readers[r].kind # "getQueueStatus" /\ moved[r] = {} =>
            ((Errors(n) # {}) <=> (CalculateHealthScore(now) = "unhealthy"))
=============================================================================
