\* The four workers of 11/9, the five messages of 11/10.
SPECIFICATION Spec
CONSTANTS
  NUM_THREADS = 4
  Count = 5
  Shapes <- MCShapes
  Values = {0, 1, 2}
INVARIANTS QueuesKeepAll NoLostWakeup SortCorrect ThreadsKeepRules
PROPERTIES FindAnswers EveryProgramEnds
