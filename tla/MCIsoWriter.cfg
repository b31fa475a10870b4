CONSTANTS
  QueueSize = 16
  WriteAsync = WriteAsync
  Other = Other
  Funcs = {WriteAsync, Other}
  NULL = NULL
  SplitLba = 11
  BlockMax = 2
  SectorBytes = 160
  RecordMax = 75
  TableLba = 1
  DirLba = 6
  MaxPaths = 8
  MaxExtent = 12
  BigFile = 11
  PieceMax = 8
  Folders <- MCFolders
  Written <- MCWritten
SPECIFICATION Spec
INVARIANTS
  PartsInOrder
  ReturnIsSound
  RoundTrip
  PositionsAreTrue
PROPERTIES
  HandOverWorks
\* makeps3iso returns and the event thread waits for the next caller.
CHECK_DEADLOCK FALSE
