\* The relay: two queues of one message, which may be empty, short, of the
\* maximum size or too long.
SPECIFICATION SocketSpec
CONSTANTS
  Clients = {"c1", "c2"}
  Files = {"f"}
  Others = {"0", ""}
  Numerals = {"0"}
  MaxWords = 2
  OpenMax = 3
  MaxFailures = 1
  MaxLines = 2
  Queues = {q1, q2}
  MAXMSZ = 2
  MaxMsg = 1
  SocketMax = 1
  MaxSent = 2
  MaxErrors = 1
INVARIANTS NothingLost
PROPERTIES ImplementsOpen DiesOnlyAnswering Answered
CHECK_DEADLOCK FALSE
