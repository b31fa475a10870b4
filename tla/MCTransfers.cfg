CONSTANTS
  QueueSize = 16
  Funcs = {"my_func_async"}
  NULL = NULL
  Plans <- MCPlans
  Packages <- MCPackages
  Games = 2
  CardBlocks = 2
  MaxCrashes = 2
  MaxSaves = 2
\* when the last task is over nothing is left to do
CHECK_DEADLOCK FALSE
SPECIFICATION Spec
INVARIANTS
  FilesAreSound
  TheSaveSurvives
PROPERTIES
  TasksEnd
