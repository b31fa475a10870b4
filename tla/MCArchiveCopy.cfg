CONSTANTS
  QueueSize = 16
  Funcs = {"my_func_async"}
  NULL = NULL
  Jobs <- MCJobs
  MaxJobs = 2
\* when the last job is over nothing is left to do
CHECK_DEADLOCK FALSE
SPECIFICATION Spec
INVARIANTS
  CopiesAreSound
  DeletedIsCopied
PROPERTIES
  JobEnds
