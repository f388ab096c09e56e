CONSTANTS
  Schedules = {s1}
  Ticks = {t1, t2}
  Boots = {b1}
  Type <- OneType
  Slot = 2
  Hour = 4
  Day = 8
  MaxTime = 9
  MaxJobs = 1
  MaxFaults = 1
SPECIFICATION FairSpec
INVARIANTS DueOnce
PROPERTIES  CancelledOnlyDrains
CHECK_DEADLOCK FALSE
