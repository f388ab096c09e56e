CONSTANTS
  Default = default
  Queues = {default, email}
  Callers = {c1, c2}
  MaxId = 1
  MaxAttempts = 2
  MaxFaults = 1
SPECIFICATION FairSpec
  
PROPERTIES EveryJobEnds
CHECK_DEADLOCK FALSE
