SPECIFICATION Spec
CONSTANTS
  MaxLines = 3
  PipeMax = 2
  MaxFaults = 2
CHECK_DEADLOCK FALSE
INVARIANTS PipesKeepData ChildrenReaped
PROPERTIES ProcessesEnd
