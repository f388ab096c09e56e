------------------------ MODULE QueueSchedules_proofs ------------------------
(***************************************************************************)
(* Proofs about QueueSchedules.  That no run is due twice rests on two     *)
(* facts about time: what a look has found, and what it moved on from, is  *)
(* never later than now, and every next run that is computed is.           *)
(***************************************************************************)
EXTENDS QueueSchedules, TLAPS, FiniteSetTheorems

FoundIsPast ==
  \A t \in Ticks : /\ \A d \in due[t] : d[2] <= now
                   /\ fired[t] # <<>> => fired[t][2] <= now
PastIsPast == \A s \in Schedules : past[s] <= now

ScheduleInv == TypeOK /\ FoundIsPast /\ PastIsPast /\ DueOnce

-----------------------------------------------------------------------------
(* A rounding of t to a multiple of h differs from t by less than h.       *)
LEMMA Rounding ==
  ASSUME NEW t \in Nat, NEW h \in Nat \ {0}
  PROVE  /\ t \div h \in Nat
         /\ (t \div h) * h \in Nat
         /\ (t \div h) * h <= t
         /\ t < (t \div h) * h + h
<1>1. t \div h \in Nat
  OBVIOUS
<1>2. (t \div h) * h <= t
  OBVIOUS
<1>3. t < (t \div h) * h + h
  OBVIOUS
<1> QED
  BY <1>1, <1>2, <1>3

(* calculateNextRun of the scheduler is in the future for every pattern    *)
(* but "five minutes", and no further than a day or so.                    *)
LEMMA NextRun ==
  ASSUME NEW t \in 0..MaxTime, NEW p \in Patterns
  PROVE  /\ CalculateNextRun(p, t) \in Times
         /\ p # "five minutes" => CalculateNextRun(p, t) > t
<1> USE ScheduleAssumption
<1>0. t \in Nat /\ t <= MaxTime
  OBVIOUS
<1>1. CASE p = "hourly"
  <2>1. (t \div Hour) * Hour \in Nat /\ (t \div Hour) * Hour <= t /\ t < (t \div Hour) * Hour + Hour
        /\ t \div Hour \in Nat
    BY <1>0, Rounding
  <2>2. (t \div Hour + 1) * Hour = (t \div Hour) * Hour + Hour
    BY <2>1
  <2> QED
    BY <1>0, <1>1, <2>1, <2>2 DEF CalculateNextRun, Times
<1>2. CASE p = "daily"
  <2>1. (t \div Day) * Day \in Nat /\ (t \div Day) * Day <= t /\ t < (t \div Day) * Day + Day
        /\ t \div Day \in Nat
    BY <1>0, Rounding
  <2>2. (t \div Day + 1) * Day = (t \div Day) * Day + Day
    BY <2>1
  <2> QED
    BY <1>0, <1>2, <2>1, <2>2 DEF CalculateNextRun, Times
<1>3. CASE p = "five minutes"
  <2> DEFINE u == t + Slot - 1
  <2>1. u \in Nat /\ u <= MaxTime + Slot
    BY <1>0
  <2>2. (u \div Slot) * Slot \in Nat /\ (u \div Slot) * Slot <= u
    BY <2>1, Rounding
  <2>3. (u \div Slot) * Slot \in Times
    BY <2>1, <2>2 DEF Times
  <2> QED
    BY <1>3, <2>3 DEF CalculateNextRun
<1>4. CASE p = "other"
  BY <1>0, <1>4 DEF CalculateNextRun, Times
<1> QED
  BY <1>1, <1>2, <1>3, <1>4 DEF Patterns

(* For the provers, which lose the numbers among functions and records.    *)
LEMMA Later ==
  ASSUME NEW a \in Nat, NEW b \in Nat, NEW c \in Nat, a <= b, c > b
  PROVE  c > a
  OBVIOUS

LEMMA TimesAreNumbers == \A a \in Times : a \in Nat
  BY ScheduleAssumption DEF Times

(* A next run an hour from now is in the future too.                       *)
LEMMA HourIsAhead ==
  ASSUME now \in 0..MaxTime
  PROVE  HourFromNow \in Times /\ HourFromNow > now /\ now \in Times
  BY ScheduleAssumption DEF HourFromNow, Times

LEMMA RowOf ==
  ASSUME TypeOK, NEW s \in Schedules, NEW n \in Times
  PROVE  /\ [rows EXCEPT ![s] = [@ EXCEPT !.next = n]] \in [Schedules -> Row]
         /\ rows[s] \in Row /\ rows[s].pattern \in Patterns
         /\ \A x \in Schedules : rows[x] \in Row
  BY DEF TypeOK, Row

-----------------------------------------------------------------------------
LEMMA InitInv == Init => ScheduleInv
<1> SUFFICES ASSUME Init PROVE ScheduleInv
  OBVIOUS
<1> USE ScheduleAssumption
<1>1. TypeOK
  BY DEF Init, TypeOK, Row, Times, Patterns, Queues
<1>2. FoundIsPast /\ PastIsPast
  BY DEF Init, FoundIsPast, PastIsPast
<1>3. DueOnce
  BY DEF Init, DueOnce, Active
<1> QED
  BY <1>1, <1>2, <1>3 DEF ScheduleInv

-----------------------------------------------------------------------------
(* The steps that move a next run: nothing that is due any more is ahead.  *)
LEMMA ScheduleStep ==
  ASSUME ScheduleInv, NEW s \in Schedules, NEW q \in Queues, NEW p \in Patterns, ScheduleJob(s, q, p)
  PROVE  ScheduleInv'
<1>1. [state |-> "active", queue |-> q, pattern |-> p, next |-> HourFromNow] \in Row
  BY HourIsAhead DEF Row, ScheduleInv, TypeOK
<1>2. TypeOK'
  BY <1>1 DEF ScheduleInv, TypeOK, ScheduleJob, looks, work
<1>3. FoundIsPast' /\ PastIsPast'
  BY DEF ScheduleInv, FoundIsPast, PastIsPast, ScheduleJob, looks
<1>4. DueOnce'
  <2> SUFFICES ASSUME NEW x \in Schedules, rows'[x].state = "active", rows'[x].pattern # "five minutes"
               PROVE  rows'[x].next > past'[x]
    BY DEF DueOnce, Active
  <2>1. CASE x = s
    <3>1. rows'[x].next = HourFromNow
      BY <2>1 DEF ScheduleInv, TypeOK, ScheduleJob
    <3>2. past'[x] \in Times /\ now \in 0..MaxTime
      BY DEF ScheduleInv, TypeOK, ScheduleJob
    <3>3. past'[x] <= now
      BY DEF ScheduleInv, PastIsPast, ScheduleJob
    <3>4. past'[x] \in Nat /\ now \in Nat /\ HourFromNow \in Nat /\ HourFromNow > now
      BY <3>2, HourIsAhead, TimesAreNumbers
    <3>5. HourFromNow > past'[x]
      BY <3>3, <3>4, Later
    <3> QED
      BY <3>1, <3>5
  <2>2. CASE x # s
    BY <2>2 DEF ScheduleInv, TypeOK, DueOnce, Active, ScheduleJob
  <2> QED
    BY <2>1, <2>2
<1> QED
  BY <1>2, <1>3, <1>4 DEF ScheduleInv

LEMMA RunStep ==
  ASSUME ScheduleInv, NEW s \in Schedules, RunJob(s)
  PROVE  ScheduleInv'
<1>1. rows' = [rows EXCEPT ![s] = [@ EXCEPT !.next = HourFromNow]] \/ rows' = rows
  BY DEF RunJob, SetNext
<1>2. rows' \in [Schedules -> Row]
  BY <1>1, HourIsAhead, RowOf DEF ScheduleInv, TypeOK
<1>3. jobs' \in [Schedules -> 0..MaxJobs] /\ first' \subseteq Schedules
  BY ScheduleAssumption DEF RunJob, ScheduleInv, TypeOK
<1>4. TypeOK'
  BY <1>2, <1>3 DEF ScheduleInv, TypeOK, RunJob, looks
<1>5. FoundIsPast' /\ PastIsPast'
  BY DEF ScheduleInv, FoundIsPast, PastIsPast, RunJob, looks
<1>6. DueOnce'
  <2> SUFFICES ASSUME NEW x \in Schedules, rows'[x].state = "active", rows'[x].pattern # "five minutes"
               PROVE  rows'[x].next > past'[x]
    BY DEF DueOnce, Active
  <2>1. past' = past /\ past[x] \in Times /\ now \in 0..MaxTime /\ rows[x] \in Row
    BY DEF RunJob, ScheduleInv, TypeOK
  <2>2. CASE rows'[x].next = HourFromNow
    <3>1. past[x] <= now
      BY DEF ScheduleInv, PastIsPast
    <3>2. past[x] \in Nat /\ now \in Nat /\ HourFromNow \in Nat /\ HourFromNow > now
      BY <2>1, HourIsAhead, TimesAreNumbers
    <3>3. HourFromNow > past[x]
      BY <3>1, <3>2, Later
    <3> QED
      BY <2>1, <2>2, <3>3
  <2>3. CASE rows'[x] = rows[x]
    BY <2>1, <2>3 DEF ScheduleInv, DueOnce, Active
  <2>4. rows'[x] = rows[x] \/ rows'[x].next = HourFromNow
    <3>1. CASE rows' = rows
      BY <3>1
    <3>2. CASE rows' = [rows EXCEPT ![s] = [@ EXCEPT !.next = HourFromNow]]
      BY <2>1, <3>2 DEF ScheduleInv, TypeOK, Row
    <3> QED
      BY <1>1, <3>1, <3>2
  <2> QED
    BY <2>2, <2>3, <2>4
<1> QED
  BY <1>4, <1>5, <1>6 DEF ScheduleInv

LEMMA MoveStep ==
  ASSUME ScheduleInv, NEW t \in Ticks, MoveNext(t)
  PROVE  ScheduleInv'
<1> DEFINE s == fired[t][1]
           n == fired[t][2]
<1>0. now \in Nat
  BY DEF ScheduleInv, TypeOK
<1>1. s \in Schedules /\ n \in Times /\ n <= now
  BY DEF MoveNext, ScheduleInv, TypeOK, FoundIsPast
<1>2. /\ fired' = [fired EXCEPT ![t] = <<>>] /\ fired' \in [Ticks -> {<<>>} \cup (Schedules \X Times)]
      /\ UNCHANGED <<now, boot, work, cancels, faults>>
  BY DEF MoveNext, ScheduleInv, TypeOK
<1> HIDE DEF s, n
<1>3. CASE ~HasRow(s)
  <2>1. due' = [due EXCEPT ![t] = {}] /\ UNCHANGED <<rows, past>>
    BY <1>3 DEF MoveNext, table, s
  <2>2. TypeOK'
    BY <1>2, <2>1 DEF ScheduleInv, TypeOK, work
  <2>3. FoundIsPast' /\ PastIsPast' /\ DueOnce'
    BY <1>2, <2>1 DEF ScheduleInv, TypeOK, FoundIsPast, PastIsPast, DueOnce, Active
  <2> QED
    BY <2>2, <2>3 DEF ScheduleInv
<1>4. CASE HasRow(s)
  <2> DEFINE next == CalculateNextRun(rows[s].pattern, now)
  <2>1. /\ rows' = [rows EXCEPT ![s] = [@ EXCEPT !.next = next]]
        /\ past' = [past EXCEPT ![s] = IF @ < n THEN n ELSE @]
        /\ due' = due
    BY <1>4 DEF MoveNext, SetNext, s, n
  <2>2. next \in Times /\ (rows[s].pattern # "five minutes" => next > now)
    BY <1>1, NextRun DEF ScheduleInv, TypeOK, Row
  <2> HIDE DEF next
  <2>3. rows' \in [Schedules -> Row]
    BY <1>1, <2>1, <2>2, RowOf DEF ScheduleInv
  <2>4. past' \in [Schedules -> Times] /\ \A x \in Schedules : past'[x] <= now /\ past'[x] \in Times
    BY <1>1, <2>1 DEF ScheduleInv, TypeOK, PastIsPast
  <2>5. TypeOK'
    BY <1>2, <2>1, <2>3, <2>4 DEF ScheduleInv, TypeOK, work
  <2>6. FoundIsPast' /\ PastIsPast'
    BY <1>2, <2>1, <2>4 DEF ScheduleInv, TypeOK, FoundIsPast, PastIsPast
  <2>7. DueOnce'
    <3> SUFFICES ASSUME NEW x \in Schedules, rows'[x].state = "active", rows'[x].pattern # "five minutes"
                 PROVE  rows'[x].next > past'[x]
      BY DEF DueOnce, Active
    <3>1. CASE x = s
      <4>1. rows'[x].next = next /\ rows'[x].pattern = rows[s].pattern
        <5>1. rows[s] \in Row /\ rows'[s] = [rows[s] EXCEPT !.next = next]
          BY <1>1, <2>1 DEF ScheduleInv, TypeOK
        <5> QED
          BY <3>1, <5>1 DEF Row
      <4>2. now \in Nat /\ next \in Nat /\ past'[x] \in Nat
        <5>1. past'[x] \in Times
          BY <2>4
        <5> QED
          BY <1>0, <2>2, <5>1, TimesAreNumbers
      <4>3. past'[x] <= now /\ next > now
        BY <2>2, <2>4, <3>1, <4>1
      <4>4. next > past'[x]
        BY <4>2, <4>3, Later
      <4> QED
        BY <4>1, <4>4
    <3>2. CASE x # s
      BY <1>1, <2>1, <3>2 DEF ScheduleInv, TypeOK, DueOnce, Active
    <3> QED
      BY <3>1, <3>2
  <2> QED
    BY <2>5, <2>6, <2>7 DEF ScheduleInv
<1> QED
  BY <1>3, <1>4

-----------------------------------------------------------------------------
(* No other step writes a next run, what was moved on from, or an older    *)
(* finding.                                                                *)
LEMMA LookStep ==
  ASSUME ScheduleInv, NEW t \in Ticks, Look(t)
  PROVE  ScheduleInv'
<1>1. UNCHANGED <<now, rows, past, fired, boot, jobs, first, cancels, faults>>
  BY DEF Look, table, work
<1>2. PICK D : /\ D = {<<s, rows[s].next>> : s \in {x \in Active : rows[x].next <= now}}
               /\ due' = [due EXCEPT ![t] = D]
  BY DEF Look
<1>3. D \in SUBSET (Schedules \X Times) /\ \A d \in D : d[2] <= now
  BY <1>2 DEF Active, ScheduleInv, TypeOK, Row
<1>4. due' \in [Ticks -> SUBSET (Schedules \X Times)]
  BY <1>2, <1>3 DEF ScheduleInv, TypeOK
<1>5. TypeOK'
  BY <1>1, <1>4 DEF ScheduleInv, TypeOK
<1>6. FoundIsPast'
  BY <1>1, <1>2, <1>3 DEF ScheduleInv, TypeOK, FoundIsPast
<1>7. PastIsPast' /\ DueOnce'
  BY <1>1 DEF ScheduleInv, PastIsPast, DueOnce, Active
<1> QED
  BY <1>5, <1>6, <1>7 DEF ScheduleInv

LEMMA CreateStep ==
  ASSUME ScheduleInv, NEW t \in Ticks, CreateOverdue(t)
  PROVE  ScheduleInv'
<1>1. PICK d \in due[t] : /\ jobs[d[1]] < MaxJobs
                          /\ jobs' = [jobs EXCEPT ![d[1]] = @ + 1]
                          /\ due' = [due EXCEPT ![t] = @ \ {d}]
                          /\ fired' = [fired EXCEPT ![t] = d]
  BY DEF CreateOverdue
<1>2. UNCHANGED <<now, rows, past, boot, first, cancels, faults>>
  BY DEF CreateOverdue, table
<1>3. d \in Schedules \X Times /\ d[1] \in Schedules /\ d[2] <= now
  BY <1>1 DEF ScheduleInv, TypeOK, FoundIsPast
<1>4. jobs' \in [Schedules -> 0..MaxJobs]
  BY <1>1, <1>3, ScheduleAssumption DEF ScheduleInv, TypeOK
<1>5. TypeOK'
  BY <1>1, <1>2, <1>3, <1>4 DEF ScheduleInv, TypeOK
<1>6. FoundIsPast'
  BY <1>1, <1>2, <1>3 DEF ScheduleInv, TypeOK, FoundIsPast
<1>7. PastIsPast' /\ DueOnce'
  BY <1>2 DEF ScheduleInv, PastIsPast, DueOnce, Active
<1> QED
  BY <1>5, <1>6, <1>7 DEF ScheduleInv

LEMMA TickStep == ScheduleInv /\ Tick => ScheduleInv'
<1> SUFFICES ASSUME ScheduleInv, Tick PROVE ScheduleInv'
  OBVIOUS
<1>1. /\ now' = now + 1 /\ now' \in 0..MaxTime /\ now \in Nat
      /\ UNCHANGED <<rows, past, due, fired, boot, jobs, first, cancels, faults>>
  BY ScheduleAssumption DEF ScheduleInv, TypeOK, Tick, table, looks, work
<1>2. TypeOK'
  BY <1>1 DEF ScheduleInv, TypeOK
<1>3. \A a \in Times : a <= now => a <= now'
  BY <1>1, TimesAreNumbers
<1>4. FoundIsPast'
  BY <1>1, <1>3 DEF ScheduleInv, TypeOK, FoundIsPast
<1>5. PastIsPast' /\ DueOnce'
  BY <1>1, <1>3 DEF ScheduleInv, TypeOK, PastIsPast, DueOnce, Active
<1> QED
  BY <1>2, <1>4, <1>5 DEF ScheduleInv

(* A step that ends a schedule, or a look, takes away and adds nothing.    *)
LEMMA EndStep ==
  ASSUME ScheduleInv, NEW s \in Schedules, NEW v \in {"cancelled", "deleted"},
         rows' = [rows EXCEPT ![s] = [@ EXCEPT !.state = v]],
         cancels' \subseteq Schedules,
         UNCHANGED <<now, past, due, fired, boot, jobs, first, faults>>
  PROVE  ScheduleInv'
<1>1. [rows[s] EXCEPT !.state = v] \in Row
  BY DEF ScheduleInv, TypeOK, Row
<1>2. TypeOK'
  BY <1>1 DEF ScheduleInv, TypeOK
<1>3. FoundIsPast' /\ PastIsPast'
  BY DEF ScheduleInv, FoundIsPast, PastIsPast
<1>4. DueOnce'
  <2> SUFFICES ASSUME NEW x \in Schedules, rows'[x].state = "active", rows'[x].pattern # "five minutes"
               PROVE  rows'[x].next > past'[x]
    BY DEF DueOnce, Active
  <2>1. x # s /\ rows'[x] = rows[x]
    BY DEF ScheduleInv, TypeOK, Row
  <2> QED
    BY <2>1 DEF ScheduleInv, DueOnce, Active
<1> QED
  BY <1>2, <1>3, <1>4 DEF ScheduleInv

LEMMA DropStep ==
  ASSUME ScheduleInv, NEW t \in Ticks, LookFails(t)
  PROVE  ScheduleInv'
<1>1. /\ UNCHANGED <<now, rows, past, boot, jobs, first, cancels>> /\ faults' \in 0..MaxFaults
      /\ due' = [due EXCEPT ![t] = {}] /\ fired' = [fired EXCEPT ![t] = <<>>]
  BY ScheduleAssumption DEF ScheduleInv, TypeOK, LookFails, Fault, table, work
<1>2. TypeOK'
  BY <1>1 DEF ScheduleInv, TypeOK
<1>3. FoundIsPast' /\ PastIsPast' /\ DueOnce'
  BY <1>1 DEF ScheduleInv, TypeOK, FoundIsPast, PastIsPast, DueOnce, Active
<1> QED
  BY <1>2, <1>3 DEF ScheduleInv

(* The steps that leave the clock, the rows and the looks alone.           *)
LEMMA QuietStep ==
  ASSUME ScheduleInv, UNCHANGED <<now, rows, past, due, fired, jobs>>,
         boot' \in [Boots -> SUBSET Schedules], first' \subseteq Schedules,
         cancels' \subseteq Schedules, faults' \in 0..MaxFaults
  PROVE  ScheduleInv'
  BY DEF ScheduleInv, TypeOK, FoundIsPast, PastIsPast, DueOnce, Active

LEMMA StepInv == ScheduleInv /\ [Next]_vars => ScheduleInv'
<1> SUFFICES ASSUME ScheduleInv, [Next]_vars PROVE ScheduleInv'
  OBVIOUS
<1>0. TypeOK
  BY DEF ScheduleInv
<1>1. CASE UNCHANGED vars
  BY <1>1, <1>0, QuietStep DEF vars, TypeOK
<1>2. CASE Tick
  BY <1>2, TickStep
<1>3. CASE \E s \in Schedules, q \in Queues, p \in Patterns : ScheduleJob(s, q, p)
  BY <1>3, ScheduleStep
<1>4. CASE \E s \in Schedules : CancelMark(s)
  BY <1>4, <1>0, EndStep DEF CancelMark, TypeOK, looks, work
<1>5. CASE \E s \in Schedules : CleanupInactive(s)
  BY <1>5, <1>0, EndStep DEF CleanupInactive, TypeOK, looks, work
<1>6. CASE \E s \in Schedules : CancelRemove(s)
  BY <1>6, <1>0, QuietStep DEF CancelRemove, TypeOK, table, looks
<1>7. CASE \E s \in Schedules : CancelFails(s)
  <2>1. faults' \in 0..MaxFaults
    BY <1>7, <1>0, ScheduleAssumption DEF CancelFails, Fault, TypeOK
  <2> QED
    BY <1>7, <1>0, <2>1, QuietStep DEF CancelFails, TypeOK, table, looks, work
<1>8. CASE \E s \in Schedules : RunJob(s)
  BY <1>8, RunStep
<1>9. CASE \E t \in Ticks : Look(t) \/ CreateOverdue(t) \/ MoveNext(t) \/ LookFails(t)
  BY <1>9, LookStep, CreateStep, MoveStep, DropStep
<1>10. CASE \E b \in Boots : RestoreRead(b)
  <2>1. faults' \in 0..MaxFaults
    BY <1>10, <1>0, ScheduleAssumption DEF RestoreRead, Fault, TypeOK
  <2>2. boot' \in [Boots -> SUBSET Schedules]
    BY <1>10, <1>0 DEF RestoreRead, TypeOK, Active
  <2> QED
    BY <1>10, <1>0, <2>1, <2>2, QuietStep DEF RestoreRead, TypeOK, table, looks, work
<1>11. CASE \E b \in Boots : Restore(b)
  <2>1. boot' \in [Boots -> SUBSET Schedules] /\ first' \subseteq Schedules
    BY <1>11, <1>0 DEF Restore, TypeOK
  <2> QED
    BY <1>11, <1>0, <2>1, QuietStep DEF Restore, TypeOK, table, looks
<1> QED
  BY <1>1, <1>2, <1>3, <1>4, <1>5, <1>6, <1>7, <1>8, <1>9, <1>10, <1>11 DEF Next

(* Every reachable state of the schedules is well typed.                   *)
THEOREM SchedulesTyped == Spec => []TypeOK
<1>1. ScheduleInv => TypeOK
  BY DEF ScheduleInv
<1> QED
  BY <1>1, InitInv, StepInv, PTL DEF Spec

(* However the looks of the replicas, the processor, cancellations and     *)
(* restarts interleave, the next run of an active schedule is later than   *)
(* every run a look has moved on from: checkScheduledJobs never finds the  *)
(* same run again once it has been moved.                                  *)
THEOREM NoRunIsDueTwice == Spec => []DueOnce
<1>1. ScheduleInv => DueOnce
  BY DEF ScheduleInv
<1> QED
  BY <1>1, InitInv, StepInv, PTL DEF Spec

-----------------------------------------------------------------------------
(* What is still to come of a cancelled schedule.  The looks and the       *)
(* start-ups that hold it are counted; a look holds it once.               *)
Looking(s)  == {t \in Ticks : \E d \in due[t] : d[1] = s}
Starting(s) == {b \in Boots : s \in boot[b]}
OnceFound   == \A t \in Ticks : \A d, e \in due[t] : d[1] = e[1] => d = e

(* A look finds each row once, and then only removes what it found.        *)
LEMMA OnceInit == Init => OnceFound
  BY DEF Init, OnceFound

LEMMA OnceStep == TypeOK /\ OnceFound /\ [Next]_vars => OnceFound'
<1> SUFFICES ASSUME TypeOK, OnceFound, [Next]_vars PROVE OnceFound'
  OBVIOUS
<1>1. \A t \in Ticks : Look(t) => OnceFound'
  BY DEF Look, TypeOK, OnceFound
<1>2. ASSUME NEW t \in Ticks, CreateOverdue(t) \/ MoveNext(t) \/ LookFails(t)
      PROVE  OnceFound'
  <2>1. \/ \E d \in due[t] : due' = [due EXCEPT ![t] = @ \ {d}]
        \/ due' = [due EXCEPT ![t] = {}] \/ due' = due
    BY <1>2 DEF CreateOverdue, MoveNext, LookFails
  <2>2. \A k \in Ticks : due'[k] \subseteq due[k]
    BY <2>1 DEF TypeOK
  <2> QED
    BY <2>2 DEF OnceFound
<1>3. (\A t \in Ticks : ~(Look(t) \/ CreateOverdue(t) \/ MoveNext(t) \/ LookFails(t))) => due' = due
  BY DEF Next, vars, looks, Tick, ScheduleJob, CancelMark, CancelRemove, CancelFails,
         CleanupInactive, RunJob, RestoreRead, Restore
<1> QED
  BY <1>1, <1>2, <1>3 DEF OnceFound

(* The ways in which what is to come of s changes: nothing is added, a     *)
(* look makes a job of what it found, or a start-up registers s.           *)
Less(s) ==
  /\ jobs'[s] <= jobs[s] /\ Looking(s)' \subseteq Looking(s)
  /\ Starting(s)' \subseteq Starting(s) /\ (s \in first' => s \in first)
Creates(s) ==
  /\ jobs'[s] <= jobs[s] + 1 /\ \E t \in Looking(s) : Looking(s)' \subseteq Looking(s) \ {t}
  /\ Starting(s)' \subseteq Starting(s) /\ (s \in first' => s \in first)
Registers(s) ==
  /\ jobs'[s] <= jobs[s] /\ Looking(s)' \subseteq Looking(s)
  /\ \E b \in Starting(s) : Starting(s)' \subseteq Starting(s) \ {b}

(* A part of a finite set is no larger, and smaller if a member is missing. *)
LEMMA PartIsSmaller ==
  ASSUME NEW S, IsFiniteSet(S), NEW T \in SUBSET S
  PROVE  /\ Cardinality(S) \in Nat /\ Cardinality(T) \in Nat /\ Cardinality(T) <= Cardinality(S)
         /\ \A x \in S : T \subseteq S \ {x} => Cardinality(T) + 1 <= Cardinality(S)
<1>1. Cardinality(S) \in Nat /\ IsFiniteSet(T) /\ Cardinality(T) <= Cardinality(S)
  BY FS_CardinalityType, FS_Subset
<1>2. Cardinality(T) \in Nat
  BY <1>1, FS_CardinalityType
<1>3. ASSUME NEW x \in S, T \subseteq S \ {x} PROVE Cardinality(T) + 1 <= Cardinality(S)
  <2>1. IsFiniteSet(S \ {x}) /\ Cardinality(S \ {x}) = Cardinality(S) - 1
    BY FS_RemoveElement
  <2>2. Cardinality(T) <= Cardinality(S \ {x})
    BY <1>3, <2>1, FS_Subset
  <2> QED
    BY <1>1, <1>2, <2>1, <2>2
<1> QED
  BY <1>1, <1>2, <1>3

(* None of the three ways makes what is to come more.                      *)
LEMMA NothingIsAdded ==
  ASSUME TypeOK, TypeOK', NEW s \in Schedules, Less(s) \/ Creates(s) \/ Registers(s)
  PROVE  Coming(s)' <= Coming(s)
<1> DEFINE L  == Cardinality(Looking(s))
           L2 == Cardinality(Looking(s)')
           B  == Cardinality(Starting(s))
           B2 == Cardinality(Starting(s)')
<1>1. IsFiniteSet(Looking(s)) /\ IsFiniteSet(Starting(s))
  BY ScheduleAssumption, FS_Subset DEF Looking, Starting
<1>2. Looking(s)' \subseteq Looking(s) /\ Starting(s)' \subseteq Starting(s)
  BY DEF Less, Creates, Registers
<1>3. L \in Nat /\ L2 \in Nat /\ L2 <= L /\ B \in Nat /\ B2 \in Nat /\ B2 <= B
  BY <1>1, <1>2, PartIsSmaller
<1>4. jobs[s] \in Nat /\ jobs'[s] \in Nat
  BY ScheduleAssumption DEF TypeOK
<1>5. /\ Coming(s) = jobs[s] + L + B + (IF s \in first THEN 1 ELSE 0)
      /\ Coming(s)' = jobs'[s] + L2 + B2 + (IF s \in first' THEN 1 ELSE 0)
  BY DEF Coming, Looking, Starting
<1>6. Creates(s) => L2 + 1 <= L
  BY <1>1, <1>2, PartIsSmaller DEF Creates
<1>7. Registers(s) => B2 + 1 <= B
  BY <1>1, <1>2, PartIsSmaller DEF Registers
<1> HIDE DEF L, L2, B, B2
<1>8. CASE Less(s)
  BY <1>3, <1>4, <1>5, <1>8 DEF Less
<1>9. CASE Creates(s)
  BY <1>3, <1>4, <1>5, <1>6, <1>9 DEF Creates
<1>10. CASE Registers(s)
  BY <1>3, <1>4, <1>5, <1>7, <1>10 DEF Registers
<1> QED
  BY <1>8, <1>9, <1>10

(* Every step is one of the three for a schedule that was cancelled.       *)
LEMMA CancelledStep ==
  ASSUME TypeOK, OnceFound, [Next]_vars, NEW s \in Schedules, rows[s].state \in {"cancelled", "deleted"}
  PROVE  Less(s) \/ Creates(s) \/ Registers(s)
<1>0. /\ jobs \in [Schedules -> 0..MaxJobs] /\ jobs[s] \in Nat
      /\ due \in [Ticks -> SUBSET (Schedules \X Times)] /\ boot \in [Boots -> SUBSET Schedules]
      /\ s \notin Active
  BY ScheduleAssumption DEF TypeOK, Active
<1>1. CASE UNCHANGED vars
  BY <1>0, <1>1 DEF vars, Less, Looking, Starting
<1>2. CASE Tick
  BY <1>0, <1>2 DEF Tick, looks, work, Less, Looking, Starting
<1>3. ASSUME NEW x \in Schedules,
             \/ \E q \in Queues, p \in Patterns : ScheduleJob(x, q, p)
             \/ CancelMark(x) \/ CancelRemove(x) \/ CancelFails(x) \/ CleanupInactive(x)
      PROVE  Less(s)
  <2>1. UNCHANGED <<jobs, due, boot>> /\ first' \subseteq first
    BY <1>3 DEF ScheduleJob, CancelMark, CancelRemove, CancelFails, CleanupInactive, looks, work
  <2> QED
    BY <1>0, <2>1 DEF Less, Looking, Starting
<1>4. ASSUME NEW x \in Schedules, RunJob(x)
      PROVE  Less(s)
  <2>1. UNCHANGED <<due, boot>> /\ first' \subseteq first
    BY <1>4 DEF RunJob, looks
  <2>2. jobs' = jobs \/ (jobs[x] > 0 /\ jobs' = [jobs EXCEPT ![x] = jobs[x] - 1])
    BY <1>4 DEF RunJob
  <2>3. jobs[x] \in Nat
    BY ScheduleAssumption DEF TypeOK
  <2>4. jobs'[s] <= jobs[s]
    BY <1>0, <2>2, <2>3
  <2> QED
    BY <2>1, <2>4 DEF Less, Looking, Starting
<1>5. ASSUME NEW t \in Ticks, Look(t)
      PROVE  Less(s)
  <2>1. UNCHANGED <<jobs, first, boot>> /\ \A k \in Ticks : (\E d \in due'[k] : d[1] = s) => k # t /\ due'[k] = due[k]
    BY <1>0, <1>5 DEF Look, work
  <2> QED
    BY <1>0, <2>1 DEF Less, Looking, Starting
<1>6. ASSUME NEW t \in Ticks, CreateOverdue(t)
      PROVE  Less(s) \/ Creates(s)
  <2>1. PICK d \in due[t] : jobs' = [jobs EXCEPT ![d[1]] = @ + 1] /\ due' = [due EXCEPT ![t] = @ \ {d}]
    BY <1>6 DEF CreateOverdue
  <2>2. UNCHANGED <<first, boot>> /\ Starting(s)' = Starting(s) /\ Looking(s)' \subseteq Looking(s)
    BY <1>0, <1>6, <2>1 DEF CreateOverdue, Starting, Looking
  <2>3. CASE d[1] = s
    <3>1. jobs'[s] = jobs[s] + 1
      BY <1>0, <2>1, <2>3
    <3>2. t \in Looking(s) /\ t \notin Looking(s)'
      BY <1>0, <2>1, <2>3 DEF Looking, OnceFound
    <3> QED
      BY <1>0, <2>2, <3>1, <3>2 DEF Creates
  <2>4. CASE d[1] # s
    <3>1. jobs'[s] = jobs[s]
      BY <1>0, <2>1, <2>4
    <3> QED
      BY <1>0, <2>2, <3>1 DEF Less
  <2> QED
    BY <2>3, <2>4
<1>7. ASSUME NEW t \in Ticks, MoveNext(t) \/ LookFails(t)
      PROVE  Less(s)
  <2>1. UNCHANGED <<jobs, first, boot>> /\ \A k \in Ticks : due'[k] \subseteq due[k]
    BY <1>0, <1>7 DEF MoveNext, LookFails, work
  <2> QED
    BY <1>0, <2>1 DEF Less, Looking, Starting
<1>8. ASSUME NEW b \in Boots, RestoreRead(b)
      PROVE  Less(s)
  <2>1. UNCHANGED <<jobs, first, due>> /\ \A k \in Boots : s \in boot'[k] => s \in boot[k]
    BY <1>0, <1>8 DEF RestoreRead, looks, work
  <2> QED
    BY <1>0, <2>1 DEF Less, Looking, Starting
<1>9. ASSUME NEW b \in Boots, Restore(b)
      PROVE  Less(s) \/ Registers(s)
  <2>1. UNCHANGED <<jobs, due>> /\ Looking(s)' = Looking(s)
    BY <1>9 DEF Restore, looks, Looking
  <2>2. PICK x \in boot[b] : \/ first' = first \cup {x} /\ boot' = [boot EXCEPT ![b] = @ \ {x}]
                             \/ boot' = [boot EXCEPT ![b] = {}] /\ first' = first
    BY <1>9 DEF Restore
  <2>3. Starting(s)' \subseteq Starting(s)
    BY <1>0, <2>2 DEF Starting
  <2>4. CASE s \in first' => s \in first
    BY <1>0, <2>1, <2>3, <2>4 DEF Less
  <2>5. CASE ~(s \in first' => s \in first)
    <3>1. x = s /\ boot' = [boot EXCEPT ![b] = @ \ {s}]
      BY <2>2, <2>5
    <3>2. b \in Starting(s) /\ b \notin Starting(s)'
      BY <1>0, <2>2, <3>1 DEF Starting
    <3> QED
      BY <1>0, <2>1, <2>3, <3>2 DEF Registers
  <2> QED
    BY <2>4, <2>5
<1> QED
  BY <1>1, <1>2, <1>3, <1>4, <1>5, <1>6, <1>7, <1>8, <1>9 DEF Next

(* Nothing adds to the runs that are still to come of a schedule that was  *)
(* cancelled: no look that had not found it, no restart, and not the       *)
(* processor that moves its nextRunAt after the cancellation.              *)
THEOREM CancelledDrains == Spec => CancelledOnlyDrains
<1> DEFINE Inv == ScheduleInv /\ OnceFound
<1>1. Init => Inv
  BY InitInv, OnceInit
<1>2. Inv /\ [Next]_vars => Inv'
  BY StepInv, OnceStep DEF ScheduleInv
<1>3. Inv /\ Inv' /\ [Next]_vars =>
        [\A s \in Schedules : rows[s].state \in {"cancelled", "deleted"} => Coming(s)' <= Coming(s)]_vars
  BY CancelledStep, NothingIsAdded DEF ScheduleInv
<1> QED
  BY <1>1, <1>2, <1>3, PTL DEF Spec, CancelledOnlyDrains
=============================================================================
