CONSTANTS
  Chunk = 65536
  Sizes <- MCSizes
SPECIFICATION Spec
INVARIANTS
  CopyIsInOrder
  ReturnIsSound
PROPERTIES
  ReturnsUnlessShortTail
\* copy_async returns.
CHECK_DEADLOCK FALSE
