SPECIFICATION UptimeSpec
CONSTANTS
  Clients = {"c1", "c2", "c3"}
  Output <- MCOutput
  MaxLost = 1
  MaxErrors = 1
INVARIANTS AnswersRight
PROPERTIES ClientEnds
CHECK_DEADLOCK FALSE
