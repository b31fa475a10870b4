CONSTANTS
  Threads = {t1, t2}
  Conns = {c1, c2}
  NoSock = NoSock
  First = t1
  Second = t2
  FirstConn = c1
  SecondConn = c2
  Vocabulary <- MCVocabulary
  MaxCommands = 3
  MaxBlocks = 1
  MaxStarts = 2
  Ticks = 1
SPECIFICATION MCSpec
INVARIANTS
  DescriptorsAccounted
  StoreAnswersAreTrue
  ActivityIsTrue
PROPERTIES
  ServerWindsDown
\* A server that is stopped, or whose clients are silent, really stands still.
CHECK_DEADLOCK FALSE
