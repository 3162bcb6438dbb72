CONSTANTS
  Runners = {w1, w2}
  NoRunner = none
  Callers = {}
  TTL = 1  Period = 0
  Legacy = FALSE
  MaxTasks = 2  MaxTime = 4  Horizon = 1  MaxCrashes = 1  MaxFaults = 1
SPECIFICATION FairSpec
INVARIANTS RunningIsLocked
PROPERTY RunsEnd PendingStarts
