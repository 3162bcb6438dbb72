CONSTANTS
  Runners = {w1, w2}
  NoRunner = none
  Callers = {c1}
  TTL = 1  Period = 1
  Legacy = TRUE
  MaxTasks = 2  MaxTime = 3  Horizon = 3  MaxCrashes = 0  MaxFaults = 1
SPECIFICATION Spec
INVARIANTS TypeOK ExecutedOnce OneActive
PROPERTY FinishedIsFinal
