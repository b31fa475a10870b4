CONSTANTS
  QueueSize = 16
  Funcs = {"get_games_2", "get_pict"}
  NULL = NULL
  Capacity = 8
  W = 2
  H = 1
  Shelf <- MCShelf
  FavouriteIds = {2}
  MaxInputs = 3
\* after the paranoid exit the program is over
CHECK_DEADLOCK FALSE
SPECIFICATION GridSpec
INVARIANTS
  TheLoaderKeepsUp
  ThePlayersGame
PROPERTIES
  ListedFavouritesStay
