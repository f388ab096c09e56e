---------------------------- MODULE QueueReports ----------------------------
(***************************************************************************)
(* The job metrics of the queue service: getJobMetrics counts the rows of  *)
(* one queue in a period, one statement after another and some at once,    *)
(* while jobs run and change the rows it counts.  Processing times are     *)
(* left out.  The unit of time is half an hour.                            *)
(***************************************************************************)
EXTENDS Naturals, FiniteSets

CONSTANTS Jobs, Tenants,
          Anyone,    \* the tenant of a request that names none
          MaxTime

ReportAssumption == IsFiniteSet(Jobs) /\ MaxTime \in Nat \ {0} /\ Anyone \notin Tenants

VARIABLES now,
  rows,      \* the job table: [tenant, at, status], or NoRow
  deleted,   \* rows that are marked deleted
  report,    \* the report under way: what was asked, and what was counted
  changed    \* history: jobs whose row changed since the report began

vars == <<now, rows, deleted, report, changed>>
table == <<rows, deleted>>

NoRow    == [status |-> "none"]
NoReport == [on |-> FALSE]
Row == [tenant: Tenants, at: 0..MaxTime, status: {"waiting", "active", "completed", "failed"}]
Count == 0..Cardinality(Jobs)
NotYet == Cardinality(Jobs) + 1   \* a statement that was not run yet

TypeOK ==
  /\ now \in 0..MaxTime
  /\ rows \in [Jobs -> Row \cup {NoRow}] /\ deleted \subseteq Jobs
  /\ changed \subseteq Jobs
  /\ report # NoReport =>
       /\ report.from \in 0..MaxTime /\ report.to \in 0..MaxTime
       /\ report.tenant \in Tenants \cup {Anyone}
       /\ report.total \in Count \cup {NotYet} /\ report.completed \in Count \cup {NotYet}
       /\ report.failed \in Count \cup {NotYet} /\ report.typed \in Count \cup {NotYet}
       /\ \A hour \in DOMAIN report.hours : report.hours[hour] \in Count \cup {NotYet}

Init ==
  /\ now = 1   \* within an hour: a period may begin before its jobs
  /\ rows = [j \in Jobs |-> NoRow] /\ deleted = {}
  /\ report = NoReport /\ changed = {}

-----------------------------------------------------------------------------
(* The jobs, as QueueJobs writes their rows, and the time.                 *)

Change(j) ==
  /\ changed' = IF report = NoReport THEN {} ELSE changed \cup {j}
  /\ UNCHANGED <<now, report>>
CreateRow(j) ==
  /\ rows[j] = NoRow
  /\ \E t \in Tenants :
       rows' = [rows EXCEPT ![j] = [tenant |-> t, at |-> now, status |-> "waiting"]]
  /\ Change(j) /\ UNCHANGED deleted
Moves == {<<"waiting", "active">>, <<"active", "completed">>, <<"active", "failed">>, <<"failed", "active">>}
WriteStatus(j) ==
  /\ rows[j] # NoRow
  /\ \E m \in Moves : /\ rows[j].status = m[1]
                      /\ rows' = [rows EXCEPT ![j] = [@ EXCEPT !.status = m[2]]]
  /\ Change(j) /\ UNCHANGED deleted
DeleteRow(j) ==
  /\ rows[j] # NoRow /\ j \notin deleted /\ deleted' = deleted \cup {j}
  /\ Change(j) /\ UNCHANGED rows
Tick == now < MaxTime /\ now' = now + 1 /\ UNCHANGED <<table, report, changed>>

-----------------------------------------------------------------------------
(* JobRepository.getMetrics: three counts at once, then the types.         *)

Where == {j \in Jobs \ deleted : rows[j] # NoRow /\ report.from <= rows[j].at /\ rows[j].at <= report.to
                                 /\ report.tenant \in {Anyone, rows[j].tenant}}
With(status) == {j \in Where : rows[j].status = status}

Hour(t) == t \div 2
(* Mutant: the hours end before the end of the period.                     *)
HoursBefore(from, to) == {h \in Hour(from)..Hour(to) : 2 * h < to}
\* getHourlyMetrics: full hours, from the one the period begins in.
Hours(from, to) == Hour(from)..Hour(to)

\* QueueGrpcController passes on what it was asked.
GetJobMetrics(from, to, t) ==
  /\ report = NoReport /\ from <= to
  /\ report' = [on |-> TRUE, from |-> from, to |-> to, tenant |-> t,
                total |-> NotYet, completed |-> NotYet, failed |-> NotYet,
                typed |-> NotYet,   \* those of every type together
                hours |-> [h \in Hours(from, to) |-> NotYet]]
  /\ changed' = {}
  /\ UNCHANGED <<now, table>>

Counted == NotYet \notin {report.total, report.completed, report.failed}
Grouped == report.typed # NotYet

CountStatement ==
  /\ report # NoReport
  /\ \/ report.total = NotYet /\ report' = [report EXCEPT !.total = Cardinality(Where)]
     \/ report.completed = NotYet /\ report' = [report EXCEPT !.completed = Cardinality(With("completed"))]
     \/ report.failed = NotYet /\ report' = [report EXCEPT !.failed = Cardinality(With("failed"))]
  /\ UNCHANGED <<now, table, changed>>

GroupByType ==
  /\ report # NoReport /\ Counted /\ ~Grouped
  /\ report' = [report EXCEPT !.typed = Cardinality(Where)]
  /\ UNCHANGED <<now, table, changed>>

\* QueueService.getHourlyMetrics: one statement per hour, in any order.  They
\* count deleted rows too, and a request without a tenant counts none.
JobsInHour(h) == {j \in Jobs : rows[j] # NoRow /\ rows[j].tenant = report.tenant
                               /\ Hour(rows[j].at) = h /\ rows[j].status = "completed"}
CountHour(h) ==
  /\ report # NoReport /\ Counted /\ Grouped
  /\ h \in DOMAIN report.hours /\ report.hours[h] = NotYet
  /\ report' = [report EXCEPT !.hours = [@ EXCEPT ![h] = Cardinality(JobsInHour(h))]]
  /\ UNCHANGED <<now, table, changed>>

Answered == report # NoReport /\ Counted /\ Grouped
            /\ \A h \in DOMAIN report.hours : report.hours[h] # NotYet
Answer == Answered /\ report' = NoReport /\ changed' = {} /\ UNCHANGED <<now, table>>

Next ==
  \/ \E j \in Jobs : CreateRow(j) \/ WriteStatus(j) \/ DeleteRow(j)
  \/ Tick
  \/ \E from \in 0..MaxTime, to \in 0..MaxTime, t \in Tenants \cup {Anyone} : GetJobMetrics(from, to, t)
  \/ CountStatement \/ GroupByType \/ Answer
  \/ \E h \in Hour(0)..Hour(MaxTime) : CountHour(h)

Spec == Init /\ [][Next]_vars

-----------------------------------------------------------------------------
\* What the hours add up to: a pair for each job that was counted in an hour.
InHours == UNION {{h} \X (1..report.hours[h]) : h \in DOMAIN report.hours}

(* The numbers of a report disagree by no more than the jobs that changed  *)
(* while it was made: those that ended are among all of them (a job that   *)
(* is retried may be counted as failed and as completed, and then be       *)
(* deleted; a successRate over 100 is only that), the types add up to all  *)
(* of them, and, for a tenant, every completed one is in one of the hours. *)
ReportAddsUp ==
  Answered =>
    LET slack == Cardinality(changed)
    IN /\ report.completed + report.failed <= report.total + 2 * slack
       /\ report.typed <= report.total + slack /\ report.total <= report.typed + slack
       /\ report.tenant # Anyone =>
            report.completed <= slack + Cardinality(InHours)
=============================================================================
