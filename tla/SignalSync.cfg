SPECIFICATION Spec
CONSTANTS
  Procs = {parent, child}
  Root = parent
  MaxTells = 2
INVARIANTS NoLostWakeup NoSpuriousWait NoKillInProtocol DoneRestores
CHECK_DEADLOCK FALSE
