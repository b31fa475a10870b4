CONSTANTS
  Capacity = 4
  Library <- MCLibrary
  Cells = 2
  MaxActs = 5
SPECIFICATION ListsSpec
INVARIANTS
  ListIsTrue
  FavouritesAreKept
PROPERTIES
  ListIsOrdered
