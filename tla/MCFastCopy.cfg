CONSTANTS
  MaxFiles = 2
  Buf = 3
  Part = 6
  Big = 7
  Dirs <- MCDirs
SPECIFICATION Spec
INVARIANTS
  CopiesAreTrue
  ResourcesAccounted
PROPERTIES
  EndsAndIsQuiet
\* my_game_copy returns.
CHECK_DEADLOCK FALSE
