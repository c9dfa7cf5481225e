SPECIFICATION FileSpec
CONSTANTS
  InFiles <- MCInFiles
  BSZ = 2
  QUEUE_DEPTH = 3
  Sources <- MCSources
  BUFF_SIZE = 2
  COPYINCR = 2
  MAXLINE = 4
  BUFSIZ = 2
  MaxChanges = 2
  Trees <- MCTrees
  MaxMoves = 1
INVARIANTS UringSafe CopiesRight WalkCounts
PROPERTIES ImplementsRot13 SeqImplementsRot13 FilesEnd
CHECK_DEADLOCK FALSE
