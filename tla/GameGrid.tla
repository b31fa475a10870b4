------------------------------ MODULE GameGrid ------------------------------
(***************************************************************************)
(* source/main.c, the grid of games: the main loop, which refreshes the    *)
(* list, places the cursor and draws; the pad handlers gui_control and     *)
(* draw_options; the disc callbacks, which run inside the flip that ends a *)
(* frame; and the loader get_games_2, which fills the cells' icons on the  *)
(* event thread from the same variables.                                   *)
(*                                                                         *)
(* gui_mode is 0, 2 or 5 (the grid), mode_homebrew GAMEBASE_MODE and       *)
(* noBDVD 0 (the disc is listed); the list of a set of devices is sorted   *)
(* with sort_mode 0. The favourites have as many slots as the grid cells.  *)
(* A launch ends the program and is left out, as are the screens that only *)
(* draw or edit settings. Cells and positions count from 0.                *)
(***************************************************************************)
EXTENDS EventThreads, GameList

CONSTANTS
  W, H,          \* scr_grid_w, scr_grid_h
  Shelf,         \* what each device holds: [{"hdd", "usb", "bdvd"} -> sets of files]
  FavouriteIds,  \* the ids the favourites may start with
  MaxInputs      \* bound on pad keys and on devices and discs coming and going

Insert == 65536          \* mode_favourites while a game waits for its cell,
Swap == 131072           \* and while a cell waits for another
G == W * H               \* scr_grid_games
Cells == 0 .. G - 1
Devices == {"hdd", "usb", "bdvd"}
Outside == -1            \* what an index past either end of the list reads
get_games_2 == "get_games_2"
get_pict == "get_pict"

ASSUME GameGridAssumption ==
  /\ W \in Nat \ {0} /\ H \in Nat \ {0} /\ MaxInputs \in Nat
  /\ Funcs = {get_games_2, get_pict}
  /\ Shelf \in [Devices -> SUBSET [id : Nat \ {0}, kind : {"folder"}]]
  /\ \A d \in Devices : IsFiniteSet(Shelf[d])
  /\ \A f, g \in Shelf["bdvd"] : f = g
  /\ Cardinality(Shelf["hdd"]) + Cardinality(Shelf["usb"]) + Cardinality(Shelf["bdvd"]) <= Capacity
  /\ Capacity <= Swap - Insert
  /\ FavouriteIds \subseteq Nat \ {0}

VARIABLES
  plugged, shelf,        \* the devices that are there, what they hold
  fdevices, forcedevices,
  directories, listing,  \* the list; it is being rewritten
  currentdir, select_px, select_py, currentgamedir,
  menu_screen,
  mode_favourites, havefavourites, favourites,
  last_game,             \* last_game_id, _flag and _favourites, if any
  icons,                 \* Png_offset: 0, or the game of the picture
  int_currentdir, break_get_games,
  job,                   \* get_games_2 at work
  gui, then,             \* where the main loop is; what follows get_games
  drawn,                 \* the screen and the selected cell of this frame
  inputs,                \* how much of MaxInputs is used
  raced, stale,          \* history: see IconsAreTheGames
  chosen, acted, inserted, \* history: see ActsOnTheChosen
  wanted                 \* history: see CursorFollowsTheGame

devs == <<plugged, shelf, fdevices, forcedevices>>
list == <<directories, listing>>
cursor == <<currentdir, select_px, select_py, currentgamedir>>
screen == <<menu_screen>>
favs == <<mode_favourites, havefavourites, favourites>>
loader == <<icons, int_currentdir, break_get_games, job>>
history == <<raced, stale, chosen, acted, inserted, wanted>>
gridVars == <<evVars, devs, list, cursor, screen, favs, last_game, loader, gui, then,
          drawn, inputs, history>>

Entry == [id : Nat \ {0}, dev : Devices, kind : {"folder"}]
NotLoading == [at |-> "idle", fav |-> FALSE, pass |-> 0, cell |-> 0, game |-> 0]
Selected == select_px + select_py * W

GgTypeOK ==
  /\ EvTypeOK
  /\ plugged \subseteq Devices /\ fdevices \subseteq Devices /\ forcedevices \subseteq Devices
  /\ directories \in Seq(Entry) /\ listing \in BOOLEAN
  /\ select_px \in 0 .. W - 1 /\ select_py \in 0 .. H - 1
  /\ menu_screen \in {0, 1, 2}
  /\ mode_favourites \in {0, 1} \cup {Insert + n : n \in 0 .. Capacity - 1} \cup {Swap + c : c \in Cells}
  /\ favourites \in [Cells -> [id : Nat, index : -1 .. Capacity]]
  /\ icons \in [Cells -> Nat \cup {Outside}]
  /\ job.at \in {"idle", "cell", "icon", "load"} /\ job.cell \in 0 .. G /\ job.pass \in 0 .. 3
  /\ gui \in {"turn", "listing", "favs", "relisted", "wait", "lower", "dir", "send", "frame", "flip",
              "waitpict", "asked", "exit"}
  /\ drawn \in [screen : {0, 1, 2}, cell : Cells]

(* The list made from nothing, sorted.                                     *)
ListOf(devices, held) ==
  LET Held(d) == IF d \in devices THEN EntriesOf(held[d], d, {"folder"}) ELSE <<>>
  IN  sort_entries(Held("hdd") \o Held("usb") \o Held("bdvd"))

(* get_currentdir: the position cell i stands for.                         *)
get_currentdir(i) == IF mode_favourites # 0 THEN favourites[i].index ELSE currentdir + i

(* directories[n], whatever n is.                                          *)
IdAt(n) == IF n \in 0 .. Len(directories) - 1 THEN directories[n + 1].id ELSE Outside
InList(n) == n \in 0 .. Len(directories) - 1

GridInit ==
  /\ EvStarted
  /\ plugged \in {{"hdd"}, {"hdd", "usb"}} /\ shelf = Shelf /\ fdevices = {} /\ forcedevices = {}
  /\ directories = <<>> /\ listing = FALSE
  /\ currentdir = 0 /\ select_px = 0 /\ select_py = 0 /\ currentgamedir = 0
  /\ menu_screen = 0
  /\ favourites \in [Cells -> {[id |-> i, index |-> -1] : i \in FavouriteIds \cup {0}}]
  /\ \A c, d \in Cells : favourites[c].id = favourites[d].id => c = d \/ favourites[c].id = 0
  /\ mode_favourites = 1 /\ havefavourites = FALSE
  /\ last_game = NULL
  /\ icons = [c \in Cells |-> 0] /\ int_currentdir = 0 /\ break_get_games = 0 /\ job = NotLoading
  /\ gui = "turn" /\ then = "turn" /\ drawn = [screen |-> 0, cell |-> 0]
  /\ inputs = 0
  /\ raced = FALSE /\ stale = FALSE
  /\ chosen = NULL /\ acted = NULL /\ inserted = FALSE /\ wanted = NULL

-----------------------------------------------------------------------------
(* The loader, on the event thread.                                        *)
Return_get_games == job' = NotLoading /\ Return

StartLoader ==
  /\ wpc = "run" /\ event.func = get_games_2 /\ job.at = "idle"
  /\ int_currentdir' = IF InList(int_currentdir) THEN int_currentdir ELSE 0
  /\ job' = [NotLoading EXCEPT !.at = "cell", !.fav = (mode_favourites # 0)]
  /\ UNCHANGED <<evVars, icons, break_get_games>>

(* The entry the cell is made from, looked up anew each time it is needed. *)
CellEntry == IF job.fav THEN favourites[job.cell].index ELSE int_currentdir + job.cell
CellIsEmpty == ~InList(CellEntry) \/ (job.fav /\ favourites[job.cell].id = 0)

(* Three passes: the hard disk, then neither disk nor disc, then the disc. *)
PassOf(e) == IF e.dev = "hdd" THEN 0 ELSE IF e.dev = "bdvd" THEN 2 ELSE 1

NextCell ==
  job' = IF job.cell < G - 1 THEN [job EXCEPT !.at = "cell", !.cell = @ + 1]
         ELSE [job EXCEPT !.at = "cell", !.pass = @ + 1, !.cell = 0]

LoaderEnds ==
  /\ wpc = "run" /\ job.at = "cell" /\ (job.pass = 3 \/ break_get_games = 1)
  /\ Return_get_games
  /\ UNCHANGED <<icons, int_currentdir, break_get_games>>

SkipCell ==
  IF CellIsEmpty THEN icons' = [icons EXCEPT ![job.cell] = 0] /\ NextCell
  ELSE /\ UNCHANGED icons
       /\ IF icons[job.cell] # 0 \/ PassOf(directories[CellEntry + 1]) # job.pass THEN NextCell
          ELSE job' = [job EXCEPT !.at = "icon"]

LoaderCell ==
  /\ wpc = "run" /\ job.at = "cell" /\ job.pass < 3 /\ break_get_games = 0
  /\ SkipCell
  /\ UNCHANGED <<evVars, int_currentdir, break_get_games>>

(* get_icon: from a list that is being rewritten it can read any entry.    *)
LoaderIcon ==
  /\ wpc = "run" /\ job.at = "icon"
  /\ \E id \in IF listing THEN {e.id : e \in ToSet(directories)} \cup {Outside} ELSE {IdAt(CellEntry)} :
       job' = [job EXCEPT !.at = "load", !.game = id]
  /\ UNCHANGED <<evVars, icons, int_currentdir, break_get_games>>

LoaderLoad ==
  /\ wpc = "run" /\ job.at = "load"
  /\ icons' = [icons EXCEPT ![job.cell] = job.game]
  /\ NextCell
  /\ UNCHANGED <<evVars, int_currentdir, break_get_games>>

(* get_pict loads the picture behind the options, which is no cell's.      *)
PictureLoaded ==
  /\ event.func = get_pict /\ Return
  /\ UNCHANGED loader

Worker ==
  /\ \/ (Receive \/ Dispatch \/ Clear) /\ UNCHANGED loader
     \/ StartLoader \/ LoaderEnds \/ LoaderCell \/ LoaderIcon \/ LoaderLoad \/ PictureLoaded
  /\ UNCHANGED <<devs, list, cursor, screen, favs, last_game, gui, then, drawn, inputs, history>>

-----------------------------------------------------------------------------
(* get_games, entered from anywhere in the main loop, which goes on at t.  *)
GetGames(t) == break_get_games' = 1 /\ gui' = "wait" /\ then' = t
GoTo(place) == gui' = place /\ UNCHANGED <<break_get_games, then>>

Step(from, to) ==
  /\ gui = from /\ gui' = to
  /\ UNCHANGED <<devs, list, cursor, screen, favs, last_game, job, then, drawn, inputs,
                 chosen, acted, inserted, wanted>>

GetGamesWaits ==
  /\ Step("wait", "lower") /\ wait_returns
  /\ UNCHANGED <<evVars, icons, int_currentdir, break_get_games, raced, stale>>

GetGamesLowers ==
  /\ Step("lower", "dir") /\ break_get_games' = 0
  /\ UNCHANGED <<evVars, icons, int_currentdir, raced, stale>>

GetGamesPlaces ==
  /\ Step("dir", "send") /\ int_currentdir' = currentdir
  /\ UNCHANGED <<evVars, icons, break_get_games, raced, stale>>

SendsKeepingThePictures ==     \* mutant
  /\ gui = "send" /\ gui' = then /\ then' = "turn"
  /\ UNCHANGED icons
  /\ event_thread_send(Call(get_games_2))
  /\ raced' = (wpc = "run" /\ event.func = get_games_2) /\ stale' = ~CanSend
  /\ UNCHANGED <<devs, list, cursor, screen, favs, last_game, int_currentdir, break_get_games, job,
                 drawn, inputs, chosen, acted, inserted, wanted>>

GetGamesSends ==
  /\ gui = "send" /\ gui' = then /\ then' = "turn"
  /\ icons' = [c \in Cells |-> 0]
  /\ event_thread_send(Call(get_games_2))
  /\ raced' = (wpc = "run" /\ event.func = get_games_2) /\ stale' = ~CanSend
  /\ UNCHANGED <<devs, list, cursor, screen, favs, last_game, int_currentdir, break_get_games, job,
                 drawn, inputs, chosen, acted, inserted, wanted>>

-----------------------------------------------------------------------------
(* The top of the main loop: every 64th turn looks at the devices, and one *)
(* that has a reason to. Only what changed is listed again.                *)
Turn(scans) ==
  /\ gui = "turn"
  /\ scans \/ (forcedevices = {} /\ fdevices # {})
  /\ IF scans /\ (fdevices # plugged \/ forcedevices # {})
     THEN /\ GoTo("listing") /\ listing' = TRUE /\ currentdir' = 0
          /\ fdevices' = plugged /\ forcedevices' = {}
     ELSE GoTo("frame") /\ UNCHANGED <<fdevices, forcedevices, listing, currentdir>>
  /\ UNCHANGED <<evVars, plugged, shelf, directories, select_px, select_py, currentgamedir, screen,
                 favs, last_game, icons, int_currentdir, job, drawn, inputs, history>>

Listed ==
  /\ gui = "listing" /\ GoTo("favs")
  /\ directories' = ListOf(fdevices, shelf) /\ listing' = FALSE
  /\ favourites' = [c \in Cells |-> [favourites[c] EXCEPT !.index = -1]]
  /\ UNCHANGED <<evVars, devs, cursor, screen, mode_favourites, havefavourites, last_game, icons,
                 int_currentdir, job, drawn, inputs, history>>

FavouritesUpdated ==
  /\ gui = "favs"
  /\ favourites' = UpdateFavourites(favourites, directories)
  /\ havefavourites' = SomeFavourite(favourites')
  /\ mode_favourites' = IF havefavourites' THEN mode_favourites ELSE 0
  /\ GetGames("relisted")
  /\ UNCHANGED <<evVars, devs, list, cursor, screen, last_game, icons, int_currentdir, job, drawn,
                 inputs, history>>

(* locate_last_game. No game is in two cells of the favourites.            *)
CursorAt(dir, cell) ==
  /\ currentdir' = dir
  /\ select_px' = cell % W /\ select_py' = cell \div W

FavouriteCells ==
  {c \in Cells : /\ InList(favourites[c].index) /\ favourites[c].id # 0
                 /\ IdAt(favourites[c].index) = last_game.id}

LocateAmongFavourites(c) ==
  /\ CursorAt(0, c) /\ currentgamedir' = favourites[c].index
  /\ mode_favourites' = 1
  /\ GoTo("frame")

LocateInList(pos) ==
  /\ mode_favourites' = 0
  /\ CursorAt((pos \div G) * G, pos % G)
  /\ currentgamedir' = pos
  /\ GetGames("frame")

NotLocated ==
  /\ mode_favourites' = IF mode_favourites # 0 THEN 1 ELSE 0
  /\ GoTo("frame") /\ UNCHANGED cursor

locate_last_game ==
  LET pos == IF last_game = NULL THEN -1 ELSE LastGamePosition(directories, last_game)
  IN  IF last_game = NULL \/ directories = <<>> THEN NotLocated /\ UNCHANGED last_game
      ELSE /\ last_game' = NULL
           /\ IF mode_favourites # 0 /\ last_game.fav /\ FavouriteCells # {}
              THEN \E c \in FavouriteCells : LocateAmongFavourites(c)
              ELSE IF pos >= 0 THEN LocateInList(pos) ELSE NotLocated

OptionsStayOpen ==     \* mutant
  /\ gui = "relisted" /\ locate_last_game
  /\ wanted' = IF last_game # NULL /\ SameGame(directories, last_game) # {} THEN last_game ELSE NULL
  /\ UNCHANGED <<evVars, devs, list, screen, havefavourites, favourites, icons, int_currentdir, job,
                 drawn, inputs, raced, stale, chosen, acted, inserted>>
Relisted ==
  /\ gui = "relisted" /\ locate_last_game
  /\ menu_screen' = 0
  /\ wanted' = IF last_game # NULL /\ SameGame(directories, last_game) # {} THEN last_game ELSE NULL
  /\ UNCHANGED <<evVars, devs, list, havefavourites, favourites, icons, int_currentdir, job, drawn,
                 inputs, raced, stale, chosen, acted, inserted>>

-----------------------------------------------------------------------------
(* The frame: the paranoid checks, the drawing, which gives up on a cell   *)
(* with a picture and no favourite, and the flip, after which the pad is   *)
(* read.                                                                   *)
Paranoid ==
  \/ \E c \in Cells : favourites[c].index >= 0 /\ (favourites[c].id = 0 \/ ~InList(favourites[c].index))
  \/ menu_screen = 0 /\ mode_favourites # 0 /\ \E c \in Cells : icons[c] # 0 /\ favourites[c].index < 0

Frame ==
  /\ gui = "frame"
  /\ GoTo(IF Paranoid THEN "exit" ELSE "flip")
  /\ currentdir' = IF InList(currentdir) THEN currentdir ELSE 0
  /\ currentgamedir' = IF InList(currentgamedir) THEN currentgamedir ELSE 0
  /\ drawn' = [screen |-> menu_screen, cell |-> Selected]
  /\ wanted' = NULL
  /\ UNCHANGED <<evVars, devs, list, select_px, select_py, screen, favs, last_game, icons,
                 int_currentdir, job, inputs, raced, stale, chosen, acted, inserted>>

(* The callbacks, in any flip. A disc that is no game starts them too.     *)
DiscInsertCallback ==
  /\ gui \in {"flip", "asked"} /\ "bdvd" \notin plugged
  /\ \E game \in BOOLEAN : plugged' = IF game THEN plugged \cup {"bdvd"} ELSE plugged
  /\ mode_favourites' = 0
  /\ menu_screen' = 0
  /\ select_px' = 0 /\ select_py' = 0 /\ currentgamedir' = 0 /\ currentdir' = 0
  /\ inserted' = TRUE /\ stale' = TRUE
  /\ UNCHANGED <<evVars, shelf, fdevices, forcedevices, list, havefavourites, favourites, last_game,
                 loader, gui, then, drawn, raced, chosen, acted, wanted>>

(* Only the next scan sees it, so that it may as well happen here.         *)
DevicesChange ==
  /\ gui \in {"flip", "asked"}
  /\ \/ plugged' = plugged \ {"bdvd"}
     \/ plugged' = plugged \cup {"usb"}
     \/ plugged' = plugged \ {"usb"}
  /\ plugged' # plugged
  /\ UNCHANGED <<evVars, shelf, fdevices, forcedevices, list, cursor, screen, favs, last_game, loader,
                 gui, then, drawn, history>>

Plug == inputs < MaxInputs /\ inputs' = inputs + 1 /\ (DiscInsertCallback \/ DevicesChange)

-----------------------------------------------------------------------------
(* gui_control, one key at a time. SetLast is set_last_game.               *)
LastAt(n, mode) ==
  IF ~InList(n) THEN last_game
  ELSE LET e == directories[n + 1]
       IN  [id |-> e.id, dev |-> e.dev, kind |-> e.kind, fav |-> mode # 0]

SetLast(mode) ==
  IF mode >= Insert THEN UNCHANGED <<currentgamedir, last_game>>
  ELSE /\ currentgamedir' = get_currentdir(Selected)
       /\ last_game' = LastAt(get_currentdir(Selected), mode)

GuiRest == UNCHANGED <<evVars, plugged, shelf, icons, int_currentdir, job, drawn, raced, stale, wanted>>
NoDevice == UNCHANGED <<fdevices, forcedevices, list>>
NoChoice == UNCHANGED <<chosen, acted, inserted>>
OnTheGrid == chosen' = NULL /\ acted' = NULL /\ inserted' = FALSE
Stay == UNCHANGED <<currentdir, select_px, select_py>>

NoKey ==
  /\ SetLast(mode_favourites) /\ GoTo("turn")
  /\ Stay /\ NoDevice /\ OnTheGrid /\ UNCHANGED <<screen, favs>>

Triangle(l2) ==
  /\ mode_favourites # 0
  /\ IF l2 THEN mode_favourites' = Swap + Selected /\ UNCHANGED <<currentgamedir, last_game>>
     ELSE mode_favourites >= Insert /\ mode_favourites' = 1 /\ SetLast(1)
  /\ GoTo("turn")
  /\ Stay /\ NoDevice /\ OnTheGrid /\ UNCHANGED <<screen, havefavourites, favourites>>

(* CROSS with a game or a cell waiting.                                    *)
SwapCells(c, d) == [favourites EXCEPT ![c] = favourites[d], ![d] = favourites[c]]
InsertAtCell(c, n) == AddFavourites(DeleteFavouritesIfExits(favourites, IdAt(n)), c, directories, n)

Cross ==
  /\ mode_favourites >= Insert
  /\ IF mode_favourites >= Swap
     THEN favourites' = SwapCells(Selected, mode_favourites - Swap) /\ UNCHANGED havefavourites
     ELSE favourites' = InsertAtCell(Selected, mode_favourites - Insert) /\ havefavourites' = TRUE
  /\ mode_favourites' = 1
  /\ GetGames("turn")
  /\ Stay /\ NoDevice /\ OnTheGrid /\ UNCHANGED <<currentgamedir, last_game, screen>>

(* A page back or on: the pages of the list in a ring, the favourites      *)
(* between its end and its beginning.                                      *)
RoundUp(n) == ((n + G - 1) \div G) * G
Turned(mode, dir) == mode_favourites' = mode /\ currentdir' = dir /\ GetGames("turn")
IfFavourites == IF havefavourites THEN 1 ELSE 0

PageBack ==
  \/ mode_favourites >= Insert /\ GoTo("turn") /\ UNCHANGED <<mode_favourites, currentdir>>
  \/ mode_favourites = 1 /\ Turned(0, currentdir)
  \/ mode_favourites = 0 /\ IF currentdir >= G THEN Turned(0, currentdir - G)
                            ELSE Turned(IfFavourites, RoundUp(Len(directories)) - G)

PageOn ==
  \/ mode_favourites >= Insert /\ GoTo("turn") /\ UNCHANGED <<mode_favourites, currentdir>>
  \/ mode_favourites = 1 /\ Turned(0, currentdir)
  \/ mode_favourites = 0 /\ IF currentdir < RoundUp(Len(directories)) - G THEN Turned(0, currentdir + G)
                            ELSE Turned(IfFavourites, 0)

SamePage == GoTo("turn") /\ UNCHANGED <<mode_favourites, currentdir>>

(* UP, DOWN, LEFT, RIGHT leave the page over its edge; L1 and R1 turn it.  *)
Move(dx, dy) ==
  LET x == select_px + dx
      y == select_py + dy
  IN  /\ select_px' = x % W /\ select_py' = y % H
      /\ IF x < 0 \/ y < 0 THEN PageBack ELSE IF x >= W \/ y >= H THEN PageOn ELSE SamePage

Navigate ==
  /\ SetLast(mode_favourites)
  /\ \/ \E d \in {<<0, -1>>, <<0, 1>>, <<-1, 0>>, <<1, 0>>} : Move(d[1], d[2])
     \/ (PageBack \/ PageOn) /\ UNCHANGED <<select_px, select_py>>
  /\ NoDevice /\ OnTheGrid /\ UNCHANGED <<screen, havefavourites, favourites>>

(* L2 + START: the archive manager, and the list from nothing after it.    *)
ListReset ==
  /\ last_game' = IF mode_favourites >= Insert THEN last_game
                  ELSE LastAt(get_currentdir(Selected), mode_favourites)
  /\ directories' = <<>> /\ fdevices' = {} /\ forcedevices' = {}
  /\ currentdir' = 0 /\ currentgamedir' = 0 /\ select_px' = 0 /\ select_py' = 0
  /\ menu_screen' = 0
  /\ GoTo("turn")
  /\ OnTheGrid /\ UNCHANGED <<listing, favs>>

(* SELECT on a favourite without a picture takes it for a missing one.     *)
WhateverItsPicture(c) == TRUE     \* mutant
WithoutPicture(c) == icons[c] = 0

SelectMissing ==
  /\ WithoutPicture(Selected) /\ mode_favourites = 1 /\ favourites[Selected].id # 0
  /\ SetLast(1)
  /\ favourites' = DeleteFavouritesIfExits(favourites, favourites[Selected].id)
  /\ havefavourites' = SomeFavourite(favourites')
  /\ mode_favourites' = IF havefavourites' THEN 1 ELSE 0
  /\ GetGames("turn")
  /\ Stay /\ NoDevice /\ OnTheGrid /\ UNCHANGED menu_screen

(* SELECT on a cell with a picture: wait for the loader, then show the     *)
(* options of the game.                                                    *)
SelectWaits ==
  /\ icons[Selected] # 0
  /\ SetLast(mode_favourites)
  /\ GoTo("waitpict")
  /\ Stay /\ NoDevice /\ OnTheGrid /\ UNCHANGED <<menu_screen, favs>>

SelectOpens ==
  /\ gui = "waitpict" /\ wait_returns
  /\ int_currentdir' = currentdir
  /\ event_thread_send(Call(get_pict))
  /\ LET n == get_currentdir(Selected)
     IN  /\ currentgamedir' = n
         /\ IF InList(n)
            THEN menu_screen' = 1 /\ chosen' = directories[n + 1] /\ acted' = NULL /\ inserted' = FALSE
            ELSE UNCHANGED <<menu_screen, chosen, acted, inserted>>
  /\ GoTo("turn")
  /\ Stay /\ NoDevice
  /\ UNCHANGED <<plugged, shelf, favs, last_game, icons, job, drawn, inputs, raced,
                 stale, wanted>>

GuiControl ==
  /\ gui = "flip" /\ drawn.screen = 0
  /\ \/ NoKey \/ (\E l2 \in BOOLEAN : Triangle(l2)) \/ Cross \/ Navigate \/ ListReset
     \/ SelectMissing \/ SelectWaits
  /\ GuiRest

-----------------------------------------------------------------------------
TheGame == directories[currentgamedir + 1]

(* draw_options, which acts on entry currentgamedir. select_option is left *)
(* out: a key here is the moves to an option and the CROSS on it. A disc   *)
(* that goes in puts it back on option 0, the configuration, and a disc    *)
(* has neither option 2 nor 6.                                             *)
Reached(option) == option = 0 \/ (menu_screen = 1 /\ ~(IsDisc(TheGame) /\ option \in {2, 6}))

NoMove == UNCHANGED <<cursor, mode_favourites, havefavourites, favourites>>
ActOn == acted' = TheGame /\ UNCHANGED <<chosen, inserted>>
CloseOptions == menu_screen' = 0

ShowConfig ==
  /\ menu_screen' = 2 /\ GoTo("turn")
  /\ ActOn /\ NoMove /\ NoDevice /\ UNCHANGED shelf

BackToGrid ==
  /\ CloseOptions /\ GoTo("turn")
  /\ NoMove /\ NoDevice /\ NoChoice /\ UNCHANGED shelf

(* test_ftp_working asks first when a transfer is under way.               *)
AskFtp ==
  /\ Reached(2) /\ GoTo("asked")
  /\ NoMove /\ NoDevice /\ NoChoice /\ UNCHANGED <<screen, shelf>>

Refused ==
  /\ gui = "asked" /\ GoTo("turn")
  /\ NoMove /\ NoDevice /\ NoChoice /\ UNCHANGED <<screen, shelf>>

(* delete_game(currentgamedir), which leaves a disc alone; whether the     *)
(* user confirms or not, the device is scanned again.                      *)
Gone(confirmed) ==
  IF confirmed THEN /\ shelf' = [shelf EXCEPT ![TheGame.dev] =
                                   @ \ {[id |-> TheGame.id, kind |-> TheGame.kind]}]
                    /\ ActOn
  ELSE NoChoice /\ UNCHANGED shelf

Delete(confirmed) ==
  /\ icons[drawn.cell] # 0
  /\ IF IsDisc(TheGame) THEN NoDevice /\ NoChoice /\ UNCHANGED shelf
     ELSE /\ Gone(confirmed) /\ forcedevices' = {TheGame.dev} /\ UNCHANGED <<fdevices, list>>
  /\ currentgamedir' = 0 /\ currentdir' = 0 /\ select_px' = 0 /\ select_py' = 0
  /\ CloseOptions /\ GoTo("turn")
  /\ UNCHANGED favs

ToggleFavourite ==
  /\ Reached(6)
  /\ IF TestFavouritesExits(favourites, TheGame.id)
     THEN /\ favourites' = DeleteFavouritesIfExits(favourites, TheGame.id)
          /\ havefavourites' = SomeFavourite(favourites')
          /\ IF mode_favourites # 0 /\ ~havefavourites' THEN mode_favourites' = 0 /\ CloseOptions
             ELSE UNCHANGED <<mode_favourites, screen>>
     ELSE /\ mode_favourites' = Insert + currentgamedir /\ CloseOptions
          /\ UNCHANGED <<favourites, havefavourites>>
  /\ GetGames("turn")
  /\ ActOn /\ NoDevice /\ UNCHANGED <<cursor, shelf>>

DrawOptions ==
  /\ gui = "flip" /\ drawn.screen = 1
  /\ \/ ShowConfig \/ BackToGrid \/ AskFtp \/ ToggleFavourite
     \/ Reached(2) /\ \E confirmed \in BOOLEAN : Delete(confirmed)

OptionsAnswered == gui = "asked" /\ (Refused \/ \E confirmed \in BOOLEAN : Delete(confirmed))

(* draw_configs: the configuration is saved under the title of the game.   *)
SaveConfig == menu_screen = 2 /\ ActOn /\ UNCHANGED screen
LeaveConfig == menu_screen' = 1 /\ NoChoice

DrawConfigs ==
  /\ gui = "flip" /\ drawn.screen = 2
  /\ (SaveConfig \/ LeaveConfig)
  /\ GoTo("turn")
  /\ NoMove /\ NoDevice /\ UNCHANGED shelf

OptionsRest == UNCHANGED <<evVars, plugged, last_game, icons, int_currentdir, job, drawn, raced,
                           stale, wanted>>

(* A frame without a key; the grid still notes the game under the cursor.  *)
NoPad ==
  /\ gui = "flip" /\ drawn.screen # 0 /\ GoTo("turn")
  /\ NoMove /\ NoDevice /\ NoChoice /\ UNCHANGED <<screen, shelf>> /\ OptionsRest

Idles == ((gui = "flip" /\ drawn.screen = 0 /\ NoKey /\ GuiRest) \/ NoPad) /\ UNCHANGED inputs

Key ==
  /\ inputs < MaxInputs /\ inputs' = inputs + 1
  /\ \/ GuiControl
     \/ (DrawOptions \/ DrawConfigs \/ OptionsAnswered) /\ OptionsRest

MainLoop ==
  \/ GetGamesWaits \/ GetGamesLowers \/ GetGamesPlaces \/ GetGamesSends
  \/ (\E scans \in BOOLEAN : Turn(scans)) \/ Listed \/ FavouritesUpdated \/ Relisted
  \/ Frame \/ Idles \/ SelectOpens

GridNext == MainLoop \/ Key \/ Worker \/ Plug

GridFairness == WF_gridVars(MainLoop) /\ WF_gridVars(Worker)

GridSpec == GridInit /\ [][GridNext]_gridVars /\ GridFairness

-----------------------------------------------------------------------------
LoaderQuiet == evQ = <<>> /\ wpc = "receive"
PictureOf(c) ==
  IF InList(get_currentdir(c)) /\ ~(mode_favourites # 0 /\ favourites[c].id = 0)
  THEN IdAt(get_currentdir(c)) ELSE 0

(* The main loop never takes its own state for corrupted and leaves: the   *)
(* paranoid checks of main.c:3215 and draw_gui1's exit at 3823 never fire, *)
(* wherever a disc, a device or a key comes in.                            *)
NoParanoidExit == gui # "exit"

(* Once the loader has nothing left to do, each cell drawn shows the game  *)
(* that choosing the cell acts on, and no picture when there is none.      *)
(* raced: the last get_games found the loader at work in spite of its wait;*)
(* stale: its event was lost to a full queue, or a disc that was no game   *)
(* moved the cursor without a get_games since.                             *)
IconsAreTheGames ==
  gui \in {"frame", "flip"} /\ LoaderQuiet /\ ~raced /\ ~stale
    => \A c \in Cells : icons[c] = PictureOf(c)

(* The wait of get_games (main.c:794), though it can be too short, is      *)
(* enough for both: the counters it protects and the pictures it resets.   *)
TheLoaderKeepsUp == GgTypeOK /\ NoParanoidExit /\ IconsAreTheGames

(* What the options and configuration screens do, they do to the game they *)
(* were opened for, however the list changed meanwhile, unless a disc went *)
(* in since (main.c:1659 moves currentgamedir inside the flip).            *)
ActsOnTheChosen == acted # NULL /\ ~inserted => acted = chosen

(* After the list was made anew the cursor is on the game it was on before,*)
(* if the list still has it.                                               *)
CursorFollowsTheGame ==
  gui = "frame" /\ wanted # NULL => IdAt(get_currentdir(Selected)) = wanted.id

(* The list changes under the cursor and under every screen; the player's  *)
(* game stays the one that is shown and acted on.                          *)
ThePlayersGame == ActsOnTheChosen /\ CursorFollowsTheGame

(* SELECT drops a favourite of the list only while its picture has not     *)
(* been loaded yet (main.c:5611 cannot tell that from a missing game).     *)
ListedFavouritesStay ==
  [][\A c \in Cells :
       /\ gui = "flip" /\ drawn.screen = 0 /\ mode_favourites = 1
       /\ InList(favourites[c].index) /\ ~TestFavouritesExits(favourites', favourites[c].id)
       => ~LoaderQuiet \/ raced \/ stale]_gridVars
=============================================================================
