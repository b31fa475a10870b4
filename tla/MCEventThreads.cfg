CONSTANTS
  QueueSize = 2
  Funcs = {f, g}
  NULL = NULL
  MaxSends = 4
SPECIFICATION ClientSpec
PROPERTIES
  WaitCoversTheRunningFunc
  NobodyWaitsForEver
  ImplementsJobService
\* The program really stops: after event_threads_finish no thread is left,
\* and a finish whose exit event was refused blocks in sysThreadJoin.
CHECK_DEADLOCK FALSE
