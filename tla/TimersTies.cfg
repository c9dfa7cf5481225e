SPECIFICATION TimersSpec
CONSTANTS
  Funcs = {1, 2}
  PerSecond = 1
  MaxSeconds = 4
  MaxTimers = 3
  MaxNow = 4
  Ties = TRUE
CHECK_DEADLOCK FALSE
PROPERTIES WaitReturns
