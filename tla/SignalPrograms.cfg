SPECIFICATION FamilySpec
CONSTANTS
  MaxRaised = 3
  MaxTyped = 2
  Funcs = {1, 2}
  PerSecond = 3
  MaxSeconds = 3
  MaxTimers = 3
  MaxNow = 5
  Ties = FALSE
CHECK_DEADLOCK FALSE
INVARIANTS JumpTargetLive MainMask HandlersKeepState SetIsSchedule
PROPERTIES WaitsEnd
