----------------------------- MODULE GameLists ------------------------------
(***************************************************************************)
(* source/main.c, the list of games kept up to date: the part of the main  *)
(* loop that refreshes it when a device comes or goes, the keys that       *)
(* change what it shows, and the favourites of the three modes in memory   *)
(* and on the disk. One thread; the cursor and the icons are GameGrid's.   *)
(*                                                                         *)
(* The USB devices are one, and so are the NTFS volumes, whose delayed     *)
(* mounting is not split from their plugging in. The configurations in     *)
(* which the disc is listed (noBDVD = 0) and in which images are (Cobra,   *)
(* noBDVD = 2) exclude each other: cobra tells which one runs.             *)
(***************************************************************************)
EXTENDS GameList

CONSTANTS
  Library,     \* what each device may hold: [Devices -> sets of [id, kind]]
  Cells,       \* scr_grid_games
  MaxActs      \* bound on keys, deletions and devices coming and going

Devices == {"hdd", "usb", "bdvd", "ntfs"}
Kinds == {"ps3", "ps2", "psx", "folder", "homebrew", "film"}
Modes == {GAMEBASE_MODE, HOMEBREW_MODE, FILM_MODE}
Slots == 0 .. Cells - 1

ASSUME GameListsAssumption ==
  /\ Cells \in Nat \ {0} /\ MaxActs \in Nat
  /\ Library \in [Devices -> SUBSET [id : Nat \ {0}, kind : Kinds]]
  /\ \A d \in Devices : IsFiniteSet(Library[d])

VARIABLES
  cobra,               \* use_cobra && noBDVD == 2
  disk,                \* what each device holds
  plugged,             \* the devices that are there
  fdevices, fdevices_old, forcedevices,
  old_ntfs_ports,      \* the NTFS volumes were mounted when last listed
  directories, mode_homebrew, game_list_category, sort_mode,
  mode_favourites, havefavourites,
  favourites,          \* those of the mode on the screen
  kept,                \* favourites_gamebase, _homebrew and _films
  saved,               \* the ids in favourites.bin, favourites2.bin and 3, or Cut
  unsaved,             \* history: the modes whose last write failed
  cramped,             \* history: since it was last emptied, the list was full
  acts                 \* how many of MaxActs are used

hardware == <<cobra, disk, plugged>>
scanning == <<fdevices, fdevices_old, forcedevices, old_ntfs_ports>>
favs == <<mode_favourites, havefavourites, favourites, kept, saved, unsaved>>
modes == <<mode_homebrew, game_list_category, sort_mode>>
listsVars == <<hardware, scanning, directories, modes, favs, cramped, acts>>

Favourites == [Slots -> [id : Nat, index : Int]]
Ids(f) == [s \in Slots |-> f[s].id]
Cut == <<>>            \* a file that LoadFavourites finds too short
NoFavourites == [s \in Slots |-> NoFavourite]

ListsTypeOK ==
  /\ cobra \in BOOLEAN
  /\ \A d \in Devices : disk[d] \subseteq Library[d]
  /\ plugged \subseteq Devices /\ "hdd" \in plugged
  /\ fdevices \subseteq Devices \ {"ntfs"} /\ fdevices_old \subseteq Devices \ {"ntfs"}
  /\ forcedevices \subseteq Devices
  /\ old_ntfs_ports \in BOOLEAN
  /\ directories \in Seq([id : Nat, dev : Devices, kind : Kinds])
  /\ mode_homebrew \in Modes
  /\ game_list_category \in 0 .. 2 /\ sort_mode \in 0 .. 2
  /\ mode_favourites \in BOOLEAN /\ havefavourites \in BOOLEAN
  /\ favourites \in Favourites
  /\ kept \in [Modes -> Favourites]
  /\ saved \in [Modes -> [Slots -> Nat] \cup {Cut}]
  /\ unsaved \subseteq Modes
  /\ cramped \in BOOLEAN

(* The devices this configuration lists besides the hard disk and USB.     *)
Extra == IF cobra THEN {"ntfs"} ELSE {"bdvd"}

ListsInit ==
  /\ cobra \in BOOLEAN
  /\ disk = Library
  /\ plugged = {"hdd"}
  /\ fdevices = {} /\ fdevices_old = {} /\ forcedevices = {} /\ old_ntfs_ports = FALSE
  /\ directories = <<>>
  /\ mode_homebrew = GAMEBASE_MODE /\ game_list_category = 0 /\ sort_mode = 0
  /\ mode_favourites = TRUE /\ havefavourites = FALSE
  /\ favourites = NoFavourites
  /\ kept = [m \in Modes |-> NoFavourites]
  /\ saved = [m \in Modes |-> [s \in Slots |-> 0]] /\ unsaved = {}
  /\ cramped = FALSE /\ acts = 0

-----------------------------------------------------------------------------
(* One turn of the main loop, as steps on sc: the list, what was seen of   *)
(* the devices, what is still forced, and the two flags found_game_insert  *)
(* and found_game_remove.                                                  *)
Sort(list) == sort_entries2(list, sort_mode, mode_homebrew)

Stat(sc, dev) == [sc EXCEPT !.now = IF dev \in plugged THEN @ \cup {dev} ELSE @ \ {dev}]
ToRefresh(sc, dev) == sc.now # sc.old \/ dev \in sc.force
Seen(sc, dev) == [sc EXCEPT !.force = @ \ {dev}, !.old = (@ \ {dev}) \cup (sc.now \cap {dev})]


(* Neither homebrew mode lists homebrew of the hard disk, only its films.  *)
NewList(sc, dev) ==
  CASE dev \in sc.now /\ dev = "hdd" /\ mode_homebrew # GAMEBASE_MODE /\ cobra ->
         fill_iso(delete_entries(sc.list, dev), EntriesOf(disk[dev], dev, {"film"}))
    [] dev \in sc.now /\ (mode_homebrew = GAMEBASE_MODE \/ dev # "hdd") ->
         fill_entries_from_device(sc.list, dev, disk[dev],
           IF mode_homebrew = GAMEBASE_MODE THEN GAMEBASE_MODE ELSE HOMEBREW_MODE,
           mode_homebrew, game_list_category, cobra)
    [] OTHER -> delete_entries(sc.list, dev)

Installed(sc, list) == [sc EXCEPT !.list = list, !.full = @ \/ Len(list) >= Capacity]

RefreshDevice(sc, dev) ==
  IF ToRefresh(sc, dev)
  THEN Seen([Installed(sc, Sort(NewList(sc, dev))) EXCEPT !.insert = TRUE], dev)
  ELSE sc

(* The disc is one entry more; in a full list it takes the last place.     *)
TheDisc == CHOOSE f \in disk["bdvd"] : TRUE
WithDisc(list) ==
  Append(SubSeq(list, 1, Min({Len(list), Capacity - 1})),
         [id |-> TheDisc.id, dev |-> "bdvd", kind |-> TheDisc.kind])

RefreshDisc(sc) ==
  IF ToRefresh(sc, "bdvd")
  THEN Seen([Installed(sc, Sort(IF "bdvd" \in sc.now /\ mode_homebrew = GAMEBASE_MODE /\ ~cobra
                                THEN WithDisc(sc.list) ELSE delete_entries(sc.list, "bdvd")))
               EXCEPT !.insert = TRUE], "bdvd")
  ELSE Seen(sc, "bdvd")

ScanDevices(sc) ==
  RefreshDisc(Stat(RefreshDevice(Stat(RefreshDevice(Stat(sc, "hdd"), "hdd"), "usb"), "usb"), "bdvd"))

(* The NTFS volumes, in every turn. Nothing forces them: forcedevices was  *)
(* cleared by the scan. A list that only lost entries is not sorted again. *)
NtfsKinds ==
  IF mode_homebrew # GAMEBASE_MODE THEN {"film"}
  ELSE IF game_list_category = 2 THEN {} ELSE {"ps3"}
NtfsPsx == mode_homebrew = GAMEBASE_MODE /\ game_list_category # 1

RefreshNtfs(sc) ==
  LET mounted == "ntfs" \in plugged
      left == delete_entries(sc.list, "ntfs")
      filled == fill_iso(left, EntriesOf(disk["ntfs"], "ntfs", NtfsKinds))
      all == IF NtfsPsx THEN fill_psx(filled, EntriesOf(disk["ntfs"], "ntfs", {"psx"})) ELSE filled
  IN  IF ~cobra \/ (old_ntfs_ports = mounted /\ fdevices # {}) THEN sc
      ELSE [Installed(sc, IF mounted THEN Sort(all) ELSE IF sc.insert THEN Sort(left) ELSE left)
              EXCEPT !.insert = @ \/ mounted, !.remove = Len(left) < Len(sc.list)]

ScanStart == [list |-> directories, now |-> fdevices, old |-> fdevices_old,
              force |-> forcedevices, insert |-> FALSE, remove |-> FALSE, full |-> cramped]

(* The list changed: UpdateFavourites, and no favourites mode without any. *)
Relisted(list) ==
  /\ favourites' = UpdateFavourites(favourites, list)
  /\ havefavourites' = SomeFavourite(favourites')
  /\ mode_favourites' = (mode_favourites /\ havefavourites')

(* Every 64th turn scans the devices, and every one that has a reason to.  *)
Turn(scans) ==
  /\ scans \/ (forcedevices = {} /\ fdevices # {})
  /\ LET sc == RefreshNtfs(IF scans THEN ScanDevices(ScanStart) ELSE ScanStart)
     IN  /\ directories' = sc.list
         /\ fdevices' = sc.now /\ fdevices_old' = sc.old /\ forcedevices' = sc.force
         /\ cramped' = sc.full
         /\ IF sc.insert \/ sc.remove THEN Relisted(sc.list)
            ELSE UNCHANGED <<favourites, havefavourites, mode_favourites>>
  /\ old_ntfs_ports' = (cobra /\ "ntfs" \in plugged)
  /\ UNCHANGED <<hardware, modes, kept, saved, unsaved>>

-----------------------------------------------------------------------------
(* Keys are read after the scan that the turn begins with.                 *)
Scanned == fdevices # {} /\ forcedevices = {}

(* A device comes or goes, or a disc: the list learns of it in a scan.     *)
PlugIn(dev) ==
  /\ dev \notin plugged /\ dev \in {"usb"} \cup Extra
  /\ plugged' = plugged \cup {dev}
  /\ IF dev = "bdvd" THEN \E d \in Library[dev] : disk' = [disk EXCEPT ![dev] = {d}]
     ELSE UNCHANGED disk
  /\ UNCHANGED <<cobra, scanning, directories, modes, favs, cramped>>

PullOut(dev) ==
  /\ dev \in plugged \ {"hdd"}
  /\ plugged' = plugged \ {dev}
  /\ UNCHANGED <<cobra, disk, scanning, directories, modes, favs, cramped>>

(* delete_game, from the options of a folder or of a PSX game: its device  *)
(* is scanned again; a game on NTFS has none of the eleven device bits and *)
(* gets that of the disc.                                                  *)
DeleteGame(n) ==
  /\ n \in DOMAIN directories /\ ~IsDisc(directories[n]) /\ Scanned
  /\ directories[n].kind \in {"folder", "homebrew", "psx"}
  /\ LET e == directories[n]
     IN  /\ e.dev \in plugged
         /\ disk' = [disk EXCEPT ![e.dev] = @ \ {[id |-> e.id, kind |-> e.kind]}]
         /\ forcedevices' = {IF e.dev = "ntfs" THEN "bdvd" ELSE e.dev}
  /\ UNCHANGED <<cobra, plugged, fdevices, fdevices_old, old_ntfs_ports, directories, modes, favs,
                 cramped>>

-----------------------------------------------------------------------------
SortModeAfter(mode) == (mode + 1) % 3

(* DOWN in the cover slides: sort_mode, or back from the favourites.       *)
NextSort ==
  /\ IF mode_favourites
     THEN /\ mode_favourites' = FALSE
          /\ UNCHANGED <<sort_mode, directories, favourites, havefavourites>>
     ELSE /\ sort_mode' = SortModeAfter(sort_mode)
          /\ directories' = sort_entries2(directories, sort_mode', mode_homebrew)
          /\ favourites' = UpdateFavourites(favourites, directories')
          /\ havefavourites' = SomeFavourite(favourites')
          /\ UNCHANGED mode_favourites
  /\ UNCHANGED <<hardware, scanning, mode_homebrew, game_list_category, kept, saved, unsaved, cramped>>

(* What both mode keys do to the list: everything is scanned again.        *)
ListReset ==
  /\ directories' = <<>> /\ cramped' = FALSE
  /\ fdevices' = {} /\ fdevices_old' = {} /\ forcedevices' = {}
  /\ UNCHANGED <<hardware, old_ntfs_ports, sort_mode>>

(* SetFavourites and GetFavourites: the films are read where they should   *)
(* be written, so changes to them last until the mode is left.             *)
SetAndGet(mode) ==
  /\ mode_homebrew' = mode
  /\ kept' = IF mode_homebrew = FILM_MODE THEN kept ELSE [kept EXCEPT ![mode_homebrew] = favourites]
  /\ favourites' = kept[mode]
  /\ UNCHANGED <<saved, unsaved, havefavourites>>

KeepMode == UNCHANGED <<mode_homebrew, favourites, kept, saved, unsaved, havefavourites>>

R3 ==
  /\ ListReset
  /\ CASE game_list_category = 0 /\ mode_homebrew = GAMEBASE_MODE ->
            SetAndGet(HOMEBREW_MODE) /\ mode_favourites' = TRUE /\ UNCHANGED game_list_category
       [] mode_homebrew # GAMEBASE_MODE ->
            /\ SetAndGet(IF mode_homebrew = HOMEBREW_MODE THEN FILM_MODE ELSE GAMEBASE_MODE)
            /\ game_list_category' = 1 /\ mode_favourites' = FALSE
       [] OTHER ->
            /\ KeepMode
            /\ game_list_category' = (game_list_category + 1) % 3
            /\ mode_favourites' = (game_list_category' = 0)

L3 ==
  /\ ListReset
  /\ CASE game_list_category = 1 /\ mode_homebrew = GAMEBASE_MODE ->
            SetAndGet(FILM_MODE) /\ mode_favourites' = TRUE /\ UNCHANGED game_list_category
       [] mode_homebrew # GAMEBASE_MODE ->
            /\ SetAndGet(IF mode_homebrew = HOMEBREW_MODE THEN GAMEBASE_MODE ELSE HOMEBREW_MODE)
            /\ game_list_category' = 0 /\ mode_favourites' = TRUE
       [] OTHER ->
            /\ KeepMode
            /\ game_list_category' = (game_list_category + 2) % 3
            /\ mode_favourites' = FALSE

-----------------------------------------------------------------------------
(* SaveFavourites: the films have no file of their own to go to. Nobody    *)
(* looks at what SaveFile returns: the file is not opened, or is cut short.*)
SaveFavourites ==
  IF mode_homebrew = FILM_MODE THEN UNCHANGED <<kept, saved, unsaved>>
  ELSE /\ kept' = [kept EXCEPT ![mode_homebrew] = favourites']
       /\ \/ /\ saved' = [saved EXCEPT ![mode_homebrew] = Ids(favourites')]
             /\ unsaved' = unsaved \ {mode_homebrew}
          \/ /\ saved' \in {saved, [saved EXCEPT ![mode_homebrew] = Cut]}
             /\ unsaved' = unsaved \cup {mode_homebrew}

Changed == UNCHANGED <<hardware, scanning, directories, modes, cramped>>

(* The options put the game n, not a disc, in the cell s that is chosen    *)
(* next. (A scan between the two calls the insertion off: GameGrid.)       *)
InsertTwice(s, n) ==     \* mutant
  /\ n \in 0 .. Len(directories) - 1 /\ ~IsDisc(directories[n + 1])
  /\ favourites' = AddFavourites(favourites, s, directories, n)
  /\ havefavourites' = TRUE /\ mode_favourites' = TRUE
  /\ SaveFavourites /\ Changed
InsertFavourite(s, n) ==
  /\ n \in 0 .. Len(directories) - 1 /\ ~IsDisc(directories[n + 1])
  /\ ~TestFavouritesExits(favourites, directories[n + 1].id)
  /\ favourites' = AddFavourites(DeleteFavouritesIfExits(favourites, directories[n + 1].id),
                                 s, directories, n)
  /\ havefavourites' = TRUE /\ mode_favourites' = TRUE
  /\ SaveFavourites /\ Changed

SwapFavourites(s, t) ==
  /\ mode_favourites
  /\ favourites' = [favourites EXCEPT ![s] = favourites[t], ![t] = favourites[s]]
  /\ SaveFavourites /\ Changed /\ UNCHANGED <<havefavourites, mode_favourites>>

(* From the options of a game that is a favourite, and SELECT on the cell  *)
(* of a favourite that is not in the list.                                 *)
RemoveFavourite(id) ==
  /\ id # 0 /\ TestFavouritesExits(favourites, id)
  /\ \/ \E n \in DOMAIN directories : directories[n].id = id
     \/ mode_favourites
  /\ favourites' = DeleteFavouritesIfExits(favourites, id)
  /\ havefavourites' = SomeFavourite(favourites')
  /\ mode_favourites' = (mode_favourites /\ havefavourites')
  /\ SaveFavourites /\ Changed

Keys ==
  /\ Scanned
  /\ \/ NextSort \/ R3 \/ L3
     \/ \E s \in Slots, n \in 0 .. Len(directories) - 1 : InsertFavourite(s, n)
     \/ \E s, t \in Slots : s < t /\ SwapFavourites(s, t)
     \/ \E s \in Slots : RemoveFavourite(favourites[s].id)

Act ==
  /\ acts < MaxActs /\ acts' = acts + 1
  /\ \/ \E dev \in Devices : PlugIn(dev) \/ PullOut(dev)
     \/ \E n \in DOMAIN directories : DeleteGame(n)
     \/ Keys

ListsNext ==
  \/ \E scans \in BOOLEAN : Turn(scans) /\ UNCHANGED acts
  \/ Act

ListsSpec == ListsInit /\ [][ListsNext]_listsVars

-----------------------------------------------------------------------------
(* The list has heard of every device.                                     *)
UpToDate ==
  /\ forcedevices = {} /\ fdevices # {}
  /\ fdevices = plugged \ {"ntfs"}
  /\ old_ntfs_ports = (cobra /\ "ntfs" \in plugged)

(* What the mode and the category show of each device.                     *)
Games == {"folder"} \cup (IF cobra THEN {"ps3"} ELSE {})
ShownKinds(dev) ==
  CASE mode_homebrew = GAMEBASE_MODE ->
         (IF game_list_category # 2 THEN IF dev = "ntfs" THEN {"ps3"} ELSE Games ELSE {})
           \cup (IF game_list_category # 1 THEN {"psx"} ELSE {})
           \cup (IF game_list_category # 1 /\ cobra /\ dev = "hdd" THEN {"ps2"} ELSE {})
    [] OTHER -> (IF cobra THEN {"film"} ELSE {})
                  \cup (IF mode_homebrew = HOMEBREW_MODE /\ dev = "usb" THEN {"homebrew"} ELSE {})

Expected ==
  UNION {{[id |-> f.id, dev |-> dev, kind |-> f.kind] : f \in {g \in disk[dev] : g.kind \in ShownKinds(dev)}}
           : dev \in (plugged \cap {"hdd", "usb", "ntfs"}) \ (IF cobra THEN {} ELSE {"ntfs"})}
ExpectDisc == "bdvd" \in plugged /\ mode_homebrew = GAMEBASE_MODE

(* Refreshing one device at a time, the list (utils.c fill_entries_from_   *)
(* device, delete_entries; main.c 2855-3160) holds exactly what a list     *)
(* made from nothing would, each entry once, except that a deleted PSX     *)
(* game of an NTFS volume stays (delete_game cannot force that device) and *)
(* that a disc exchanged for another between two scans keeps its entry. An *)
(* entry that once found no room is not missed here.                       *)
ListShowsTheDevices ==
  UpToDate /\ ~cramped =>
    LET listed == ToSet(directories)
    IN  /\ Expected \subseteq listed
        /\ \A e \in listed \ Expected : IsDisc(e) \/ (IsNtfs(e) /\ e.kind = "psx")
        /\ Cardinality({e \in listed : IsDisc(e)}) = (IF ExpectDisc THEN 1 ELSE 0)
        /\ Len(directories) = Cardinality(listed)

(* Only the PSX folders are listed without looking at the limit first, one *)
(* for each device: past its end the array is never written more than once *)
(* per device with such a game.                                            *)
OverrunOnlyByPsx ==
  Len(directories) - Capacity
    <= Cardinality({directories[n].dev : n \in {k \in DOMAIN directories : IsPsx(directories[k])}})

(* What fill_entries_from_device and delete_entries keep in the array: the *)
(* games of the devices, and no more than it can hold but for PSX games.   *)
ListIsTrue == ListsTypeOK /\ ListShowsTheDevices /\ OverrunOnlyByPsx

(* Any list the code installs is in the order the user asked for, the disc *)
(* first, with two exceptions: with PSX games apart, the disc is exchanged *)
(* for the first entry and back out, which can leave it and the new first  *)
(* entry anywhere; and the list an NTFS volume has left, whose holes were  *)
(* filled from the end, is not sorted (main.c 3157).                       *)
Group(e, order, mode) ==
  IF mode # GAMEBASE_MODE THEN IF IsFilm(e) THEN 1 ELSE 0
  ELSE IF order = 1 THEN IF IsPsx(e) THEN 1 ELSE 0
  ELSE IF order = 2 THEN IF IsPsx(e) THEN 0 ELSE 1
  ELSE 0
Ordered(list, order, mode) ==
  LET discs == {n \in DOMAIN list : IsDisc(list[n])}
      odd == IF discs # {} /\ order # 0 THEN {1} ELSE {}
  IN  /\ \A n, m \in DOMAIN list \ (discs \cup odd) : n < m =>
           LET gn == Group(list[n], order, mode)
               gm == Group(list[m], order, mode)
           IN  gn < gm \/ (gn = gm /\ list[n].id <= list[m].id)
      /\ order = 0 => discs \subseteq {1}
NtfsLeft == old_ntfs_ports /\ "ntfs" \notin plugged
ListIsOrdered ==
  [][directories' # directories /\ ~NtfsLeft => Ordered(directories', sort_mode', mode_homebrew')]_listsVars

(* Whatever comes, goes, is sorted or changes mode, a favourite with an    *)
(* index is the game it was made of, no game is a favourite twice, and     *)
(* the favourites of the games and of the homebrew are on the disk as they *)
(* are in memory, unless their last write failed, which nobody looks at.   *)
(* (Those of the films never get there.)                                   *)
FavouritesAreKept ==
  /\ fdevices # {} => \A s \in Slots : favourites[s].index >= 0 =>
       /\ favourites[s].index < Len(directories)
       /\ directories[favourites[s].index + 1].id = favourites[s].id
  /\ \A s, t \in Slots : favourites[s].id = favourites[t].id /\ favourites[s].id # 0 => s = t
  /\ \A m \in {GAMEBASE_MODE, HOMEBREW_MODE} \ unsaved :
       saved[m] = Ids(IF mode_homebrew = m THEN favourites ELSE kept[m])
=============================================================================
