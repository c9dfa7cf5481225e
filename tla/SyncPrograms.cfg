SPECIFICATION PSpec
CONSTANTS
  Procs = {"parent", "child", "child2"}
  Root = "parent"
  MaxTells = 8
  Loops = 2
  Chars = 3
  Programs <- All
INVARIANT OutputNotInterleaved
PROPERTIES RunsToCompletion HandshakeAlternates DeadlockBroken
CHECK_DEADLOCK FALSE
