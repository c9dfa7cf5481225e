SPECIFICATION DaemonSpec
CONSTANTS
  Daemons = {"d1", "d2", "d3"}
  Kind <- OneOfEach
  MaxHups = 2
  Inherited = {0, 1, 2, 5}
  RlimMax = 8
INVARIANTS SingleDaemon
PROPERTIES Rereads HupKillsOnlyBeforeMask
CHECK_DEADLOCK FALSE
