--------------------------- MODULE QueueSchedules ---------------------------
(***************************************************************************)
(* The scheduled jobs of the queue service.  Every replica looks each      *)
(* minute for schedules whose nextRunAt has passed, creates a job for each *)
(* and then moves nextRunAt; cron does not wait for the last look to end.  *)
(* At start-up the schedules are registered again with the broker.         *)
(*                                                                         *)
(* A repeatable job of the broker has no row in the job table but for the  *)
(* one createJob inserts at start-up, and every processor begins by        *)
(* updating that row and throws without it: only that first instance does  *)
(* any work, and it is all the model keeps of the repeatable jobs.         *)
(*                                                                         *)
(* The unit of time is a minute; Slot, Hour and Day are small stand-ins    *)
(* for 5, 60 and 1440 of them.                                             *)
(***************************************************************************)
EXTENDS Naturals, FiniteSets

CONSTANTS Schedules, Ticks, Boots,
          Type,           \* the job type of each schedule
          Slot, Hour, Day,
          MaxTime,        \* bound on the clock
          MaxJobs,        \* bound on the jobs of a schedule that wait in the broker
          MaxFaults       \* bound on failing statements and crashes

ASSUME ScheduleAssumption ==
  /\ Slot \in Nat \ {0} /\ Hour \in Nat \ {0} /\ Day \in Nat \ {0}
  /\ MaxTime \in Nat /\ MaxJobs \in Nat /\ MaxFaults \in Nat
  /\ IsFiniteSet(Ticks) /\ IsFiniteSet(Boots)

VARIABLES
  now,     \* the clock
  rows,    \* the scheduledJob table: state and nextRunAt
  due,     \* due[t]: what the look t found and has not handled, with its nextRunAt
  fired,   \* fired[t]: the schedule whose job the look t created and not yet moved
  boot,    \* boot[b]: what a starting replica has still to register
  jobs,    \* jobs of a schedule that wait in the broker
  first,   \* schedules whose first repeatable instance waits in the broker
  cancels, \* cancellations that have marked the row and not reached the broker
  past,    \* history: the last nextRunAt of a schedule that a look moved on from
  faults

vars == <<now, rows, due, fired, boot, jobs, first, cancels, past, faults>>
table == <<rows, past>>
looks == <<due, fired>>
work  == <<jobs, first>>

Patterns == {"hourly", "daily", "five minutes", "other"}
Queues   == {"scheduled-task", "default"}
Times == 0..(MaxTime + Hour + Day + Slot)
Row   == [state: {"none", "active", "cancelled", "deleted"},
          queue: Queues, pattern: Patterns, next: Times]

TypeOK ==
  /\ now \in 0..MaxTime
  /\ rows \in [Schedules -> Row]
  /\ due \in [Ticks -> SUBSET (Schedules \X Times)]
  /\ fired \in [Ticks -> {<<>>} \cup (Schedules \X Times)]
  /\ boot \in [Boots -> SUBSET Schedules]
  /\ jobs \in [Schedules -> 0..MaxJobs]
  /\ first \subseteq Schedules
  /\ cancels \subseteq Schedules
  /\ past \in [Schedules -> Times]
  /\ faults \in 0..MaxFaults

Init ==
  /\ now = 0
  /\ rows = [s \in Schedules |-> [state |-> "none", queue |-> "default", pattern |-> "other", next |-> 0]]
  /\ due = [t \in Ticks |-> {}]
  /\ fired = [t \in Ticks |-> <<>>]
  /\ boot = [b \in Boots |-> {}]
  /\ jobs = [s \in Schedules |-> 0]
  /\ first = {} /\ cancels = {}
  /\ past = [s \in Schedules |-> 0]
  /\ faults = 0

Active == {s \in Schedules : rows[s].state = "active"}
HasRow(s) == rows[s].state \in {"active", "cancelled"}
Fault  == faults < MaxFaults /\ faults' = faults + 1
SetNext(s, t) == rows' = [rows EXCEPT ![s] = [@ EXCEPT !.next = t]]

Tick ==
  /\ now < MaxTime
  /\ now' = now + 1
  /\ UNCHANGED <<table, looks, boot, work, cancels, faults>>

-----------------------------------------------------------------------------
(* QueueService.                                                           *)

\* The service's own calculateNextRun, whatever the pattern.
HourFromNow == now + Hour

\* scheduleJob: the row, then a repeatable job that does nothing (see above).
ScheduleJob(s, q, p) ==
  /\ rows[s].state = "none"
  /\ rows' = [rows EXCEPT ![s] = [state |-> "active", queue |-> q, pattern |-> p, next |-> HourFromNow]]
  /\ UNCHANGED <<now, past, looks, boot, work, cancels, faults>>

\* cancelScheduledJob: the row first ...
CancelMark(s) ==
  /\ HasRow(s)
  /\ rows' = [rows EXCEPT ![s] = [@ EXCEPT !.state = "cancelled"]]
  /\ cancels' = cancels \cup {s}
  /\ UNCHANGED <<now, past, looks, boot, work, faults>>

\* ... then every repeatable job with the name of its type.
CancelRemove(s) ==
  /\ s \in cancels
  /\ cancels' = cancels \ {s}
  /\ first' = {x \in first : Type[x] # Type[s]}
  /\ UNCHANGED <<now, table, looks, boot, jobs, faults>>

-----------------------------------------------------------------------------
(* QueueSchedulerService.                                                  *)

(* Mutant: the hour is rounded up as the minute is. *)
NextRunRounded(pattern, t) ==
  IF pattern = "hourly" THEN ((t + Hour - 1) \div Hour) * Hour ELSE t + Hour

\* calculateNextRun: the minute of "five minutes" is rounded up, so that a
\* minute that is a multiple of the slot is its own next run.
CalculateNextRun(pattern, t) ==
  CASE pattern = "hourly"       -> (t \div Hour + 1) * Hour
    [] pattern = "daily"        -> (t \div Day + 1) * Day
    [] pattern = "five minutes" -> ((t + Slot - 1) \div Slot) * Slot
    [] OTHER                    -> t + Hour

(* Mutant: cancelled schedules are found too. *)
LookAtAll(t) ==
  /\ due[t] = {} /\ fired[t] = <<>>
  /\ due' = [due EXCEPT ![t] =
       {<<s, rows[s].next>> : s \in {x \in Schedules : HasRow(x) /\ rows[x].next <= now}}]
  /\ UNCHANGED <<now, table, fired, boot, work, cancels, faults>>

(* Mutant: only what is due this very minute is found. *)
LookAtMinute(t) ==
  /\ due[t] = {} /\ fired[t] = <<>>
  /\ due' = [due EXCEPT ![t] =
       {<<s, rows[s].next>> : s \in {x \in Active : rows[x].next = now}}]
  /\ UNCHANGED <<now, table, fired, boot, work, cancels, faults>>

\* checkScheduledJobs: a look finds what is overdue.
Look(t) ==
  /\ due[t] = {} /\ fired[t] = <<>>
  /\ due' = [due EXCEPT ![t] = {<<s, rows[s].next>> : s \in {x \in Active : rows[x].next <= now}}]
  /\ UNCHANGED <<now, table, fired, boot, work, cancels, faults>>

\* A job is created for the next schedule of the list.
CreateOverdue(t) ==
  /\ fired[t] = <<>>
  /\ \E d \in due[t] :
       /\ jobs[d[1]] < MaxJobs
       /\ jobs' = [jobs EXCEPT ![d[1]] = @ + 1]
       /\ due' = [due EXCEPT ![t] = @ \ {d}]
       /\ fired' = [fired EXCEPT ![t] = d]
  /\ UNCHANGED <<now, table, boot, first, cancels, faults>>

\* Its nextRunAt is moved; a row that is gone ends the look.
MoveNext(t) ==
  /\ fired[t] # <<>>
  /\ fired' = [fired EXCEPT ![t] = <<>>]
  /\ LET s == fired[t][1] IN
     IF HasRow(s)
     THEN /\ SetNext(s, CalculateNextRun(rows[s].pattern, now))
          /\ past' = [past EXCEPT ![s] = IF @ < fired[t][2] THEN fired[t][2] ELSE @]
          /\ UNCHANGED due
     ELSE due' = [due EXCEPT ![t] = {}] /\ UNCHANGED table
  /\ UNCHANGED <<now, boot, work, cancels, faults>>

\* A statement of the look fails: what it had still to do waits for the next.
LookFails(t) ==
  /\ Fault /\ (due[t] # {} \/ fired[t] # <<>>)
  /\ due' = [due EXCEPT ![t] = {}]
  /\ fired' = [fired EXCEPT ![t] = <<>>]
  /\ UNCHANGED <<now, table, boot, work, cancels>>

\* onModuleInit: a replica starts and reads the active schedules.
RestoreRead(b) ==
  /\ boot[b] = {} /\ Fault
  /\ boot' = [boot EXCEPT ![b] = Active]
  /\ UNCHANGED <<now, table, looks, work, cancels>>

\* createJob with a pattern: the first instance of the repeatable job waits
\* with its row; or it fails, and those behind it are not registered.
Restore(b) ==
  /\ \E s \in boot[b] :
       \/ first' = first \cup {s} /\ boot' = [boot EXCEPT ![b] = @ \ {s}]
       \/ boot' = [boot EXCEPT ![b] = {}] /\ UNCHANGED first
  /\ UNCHANGED <<now, table, looks, jobs, cancels, faults>>

\* cleanupInactiveScheduledJobs.
CleanupInactive(s) ==
  /\ rows[s].state = "cancelled"
  /\ rows' = [rows EXCEPT ![s] = [@ EXCEPT !.state = "deleted"]]
  /\ UNCHANGED <<now, past, looks, boot, work, cancels, faults>>

-----------------------------------------------------------------------------
(* ScheduledTaskQueueProcessor, and the processors of the other queues.    *)

\* A waiting job of s runs: in the scheduled-task queue it moves nextRunAt an
\* hour on, whatever the pattern; without the row it throws.
RunJob(s) ==
  /\ \/ jobs[s] > 0 /\ jobs' = [jobs EXCEPT ![s] = @ - 1] /\ UNCHANGED first
     \/ s \in first /\ first' = first \ {s} /\ UNCHANGED jobs
  /\ IF HasRow(s) /\ rows[s].queue = "scheduled-task" THEN SetNext(s, HourFromNow) ELSE UNCHANGED rows
  /\ UNCHANGED <<now, past, looks, boot, cancels, faults>>

\* The caller's process dies between the two steps of a cancellation.
CancelFails(s) ==
  /\ Fault /\ s \in cancels
  /\ cancels' = cancels \ {s}
  /\ UNCHANGED <<now, table, looks, boot, work>>

-----------------------------------------------------------------------------
Next ==
  \/ Tick
  \/ \E s \in Schedules : \/ \E q \in Queues, p \in Patterns : ScheduleJob(s, q, p)
                          \/ CancelMark(s) \/ CancelRemove(s) \/ CancelFails(s)
                          \/ CleanupInactive(s) \/ RunJob(s)
  \/ \E t \in Ticks : Look(t) \/ CreateOverdue(t) \/ MoveNext(t) \/ LookFails(t)
  \/ \E b \in Boots : RestoreRead(b) \/ Restore(b)

\* Time passes.  Cron calls the look of a replica again and again and what it awaits
\* returns; workers take the jobs that wait, and a start-up goes on.
Fairness ==
  /\ WF_vars(Tick)
  /\ \A t \in Ticks : WF_vars(Look(t)) /\ WF_vars(CreateOverdue(t)) /\ WF_vars(MoveNext(t))
  /\ \A s \in Schedules : WF_vars(RunJob(s))
  /\ \A b \in Boots : WF_vars(Restore(b))

Spec     == Init /\ [][Next]_vars
FairSpec == Spec /\ Fairness

-----------------------------------------------------------------------------
(* The next run of a schedule is later than any a look has moved on from,  *)
(* so that none is found again, whatever the looks of other replicas and   *)
(* the processor write in between: only looks that found it before the     *)
(* move run it twice.  But for the pattern every five minutes, whose next  *)
(* run may be this very minute.                                            *)
DueOnce ==
  \A s \in Active : rows[s].pattern # "five minutes" => rows[s].next > past[s]

(* A schedule that is overdue does not stay so: a look creates its job and *)
(* moves it on, or it is cancelled; looks and cancellations that die on    *)
(* the way only delay that.                                                *)
OverdueIsHandled ==
  \A s \in Schedules : (s \in Active /\ rows[s].next <= now)
                         ~> ~(s \in Active /\ rows[s].next <= now)

\* The runs of s that are still to come: jobs that wait, and the looks and
\* start-ups that hold s in their list.
Coming(s) ==
  jobs[s] + Cardinality({t \in Ticks : \E d \in due[t] : d[1] = s})
          + Cardinality({b \in Boots : s \in boot[b]}) + (IF s \in first THEN 1 ELSE 0)

(* A cancelled schedule only drains: the looks and the start-ups that had  *)
(* read it may still create its jobs, and nothing adds to what is to come, *)
(* neither a new look, nor a restart, nor the processor that moves its     *)
(* nextRunAt after the cancellation.                                       *)
CancelledOnlyDrains ==
  [][\A s \in Schedules : rows[s].state \in {"cancelled", "deleted"}
       => Coming(s)' <= Coming(s)]_vars
=============================================================================
