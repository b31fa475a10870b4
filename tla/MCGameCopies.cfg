CONSTANTS
  Games = {"BLES", "psx"}
  Psx = {"psx"}
  BigGames = {"BLES"}
  Usb = {"usb"}
  Inserted = {"BLES"}
  MaxTasks = 4
SPECIFICATION GcSpec
INVARIANTS
  UnmarkedIsWhole
  NoGameIsLost
  ChangedIsReadAgain
\* after the last task nothing is left to do
CHECK_DEADLOCK FALSE
