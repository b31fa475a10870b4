------------------------------ MODULE GameList ------------------------------
(***************************************************************************)
(* source/utils.c, the lists of games: how a list is filled from a device, *)
(* emptied of it and sorted, and how a favourite and the last game are     *)
(* found in it. Everything here is a function of its arguments.            *)
(*                                                                         *)
(* An entry of directories[] is [id, dev, kind]: id stands for title_id    *)
(* and for title (two copies of a game have both in common) and its order  *)
(* is that of strcasecmp on titles; dev is the device bit of flags, kind   *)
(* the bits that tell a folder, an image and a film apart. Positions count *)
(* from 0 as in the code, entry n of a list being list[n + 1].             *)
(***************************************************************************)
EXTENDS Integers, SequencesExt

CONSTANT Capacity     \* MAX_DIRECTORIES

ASSUME CapacityAssumption == Capacity \in Nat \ {0}

Lesser(a, b) == IF a < b THEN a ELSE b
Greater(a, b) == IF a > b THEN a ELSE b

GAMEBASE_MODE == 0
HOMEBREW_MODE == 2
FILM_MODE == 3

IsDisc(e) == e.dev = "bdvd"                  \* D_FLAG_BDVD
IsHdd(e) == e.dev = "hdd"                    \* D_FLAG_HDD0
IsNtfs(e) == e.dev = "ntfs"                  \* D_FLAG_NTFS
IsPsx(e) == e.kind \in {"psx", "ps2"}        \* D_FLAG_PSX_ISO, a bit PS2 has too
IsFilm(e) == e.kind = "film"                 \* D_FLAG_HOMEB_MKV

(* flags & GAMELIST_FILTER as a number.                                    *)
DeviceFlag(e) == [hdd |-> 1, usb |-> 2, bdvd |-> 2048, ntfs |-> 32768][e.dev]

-----------------------------------------------------------------------------
(* Sorting: every entry n is exchanged with each later entry that MustSwap *)
(* says should precede it. mode 1: PSX after the others; 2: PSX before.    *)
Exchange(list, n, m) == [list EXCEPT ![n] = list[m], ![m] = list[n]]

ByTitle(a, b) == a.id > b.id /\ ~IsDisc(a) /\ ~IsDisc(b)
DiscFirst(b, first) == IsDisc(b) /\ first
FilmsLast(a, b) == (IsFilm(a) /\ ~IsFilm(b)) \/ (IsFilm(a) = IsFilm(b) /\ a.id > b.id)
PsxApart(a, b, mode) ==
  \/ IsPsx(a) # IsPsx(b) /\ IsPsx(a) = (mode = 1)
  \/ IsPsx(a) = IsPsx(b) /\ ByTitle(a, b)

SwapByTitleOnly(a, b, first, mode, mode_homebrew) == a.id > b.id     \* mutant
MustSwap(a, b, first, mode, mode_homebrew) ==
  IF mode_homebrew # GAMEBASE_MODE THEN FilmsLast(a, b)
  ELSE DiscFirst(b, first) \/ IF mode \in {1, 2} THEN PsxApart(a, b, mode) ELSE ByTitle(a, b)

(* Entry n against the k after it, k from 0 on.                            *)
Passes(list, n, mode, mode_homebrew) ==
  LET pass[k \in 0 .. Len(list) - n] ==
        IF k = 0 THEN list
        ELSE LET l == pass[k - 1]
             IN  IF MustSwap(l[n], l[n + k], n = 1, mode, mode_homebrew) THEN Exchange(l, n, n + k) ELSE l
  IN  pass
SettleEntry(list, n, mode, mode_homebrew) == Passes(list, n, mode, mode_homebrew)[Len(list) - n]

(* The list with its first n entries settled.                              *)
Settling(list, mode, mode_homebrew) ==
  LET settled[n \in 0 .. Len(list)] ==
        IF n = 0 THEN list ELSE SettleEntry(settled[n - 1], n, mode, mode_homebrew)
  IN  settled

sort_entries2(list, mode, mode_homebrew) == Settling(list, mode, mode_homebrew)[Len(list)]
sort_entries(list) == sort_entries2(list, 0, GAMEBASE_MODE)

-----------------------------------------------------------------------------
(* delete_entries: an entry of the device is overwritten with the last     *)
(* one, which is then looked at in its new place. Each look is one step:   *)
(* entry n, of what is left of the list, is kept or dropped.               *)
KeepEntry(look) == [look EXCEPT !.n = @ + 1]
DropLast(list) == SubSeq(list, 1, Len(list) - 1)
DropWhatIsLast(look) == [look EXCEPT !.list = DropLast(@)]     \* mutant
DropEntry(look) == [look EXCEPT !.list = DropLast([@ EXCEPT ![look.n] = look.list[Len(look.list)]])]

Looks(list, dev) ==
  LET look[k \in 0 .. Len(list)] ==
        IF k = 0 THEN [list |-> list, n |-> 1]
        ELSE LET l == look[k - 1] IN IF l.list[l.n].dev = dev THEN DropEntry(l) ELSE KeepEntry(l)
  IN  look
delete_entries(list, dev) == Looks(list, dev)[Len(list)].list

(* Entries on their way into the list: the files of kind k on the device.  *)
EntriesOf(files, dev, kinds) ==
  LET found == SetToSeq({f \in files : f.kind \in kinds})
  IN  [i \in DOMAIN found |-> [id |-> found[i].id, dev |-> dev, kind |-> found[i].kind]]

(* fill_iso_entries_from_device looks at the limit before it writes.       *)
fill_iso(list, new) ==
  list \o SubSeq(new, 1, Lesser(Len(new), Capacity - Len(list)))

(* The PSX folders, there and in fill_psx_iso_entries_from_device, are     *)
(* written first and counted against the limit afterwards.                 *)
fill_psx(list, new) ==
  list \o SubSeq(new, 1, Lesser(Len(new), Greater(1, Capacity - Len(list))))

(* fill_entries_from_device, for the games (sel = GAMEBASE_MODE) or the    *)
(* homebrew folders and films of a device that holds files. category 1     *)
(* shows PS3 games only, 2 retro games only; images are listed with Cobra. *)
fill_entries_from_device(list, dev, files, sel, mode_homebrew, category, cobra) ==
  LET From(kinds) == EntriesOf(files, dev, kinds)
      If(shown, kinds) == IF shown THEN From(kinds) ELSE <<>>
      game == sel = GAMEBASE_MODE
      l0 == delete_entries(list, dev)
      l1 == fill_iso(l0, If(game /\ cobra /\ category # 2, {"ps3"}))
      l2 == fill_iso(l1, If(game /\ cobra /\ category # 1 /\ dev = "hdd", {"ps2"}))
      l3 == fill_iso(l2, If(~game /\ cobra, {"film"}))
      l4 == fill_psx(l3, If(game /\ category # 1, {"psx"}))
  IN  IF Len(l0) >= Capacity THEN l0
      ELSE IF \/ Len(l4) >= Capacity
              \/ game /\ category = 2
              \/ mode_homebrew > HOMEBREW_MODE
      THEN l4
      ELSE fill_iso(l4, From(IF game THEN {"folder"} ELSE {"homebrew"}))

-----------------------------------------------------------------------------
(* A favourite is [id, index]; id 0 is an empty slot, index -1 a favourite *)
(* that is not in the list.                                                *)
NoFavourite == [id |-> 0, index |-> -1]

(* UpdateFavourites for one slot. Entry n replaces the one found before    *)
(* (b) when it is on an earlier device or on NTFS, or on the hard disk if  *)
(* b is on NTFS.                                                           *)
Replaces(e, b) ==
  \/ ~IsNtfs(b) /\ (DeviceFlag(b) > DeviceFlag(e) \/ IsNtfs(e))
  \/ IsNtfs(b) /\ IsHdd(e)


FindingFavourite(fav, list) ==
  LET found[n \in 0 .. Len(list)] ==
        IF n = 0 THEN -1
        ELSE LET b == found[n - 1]
             IN  IF fav.id # 0 /\ list[n].id = fav.id /\ (b = -1 \/ Replaces(list[n], list[b + 1]))
                 THEN n - 1 ELSE b
  IN  found
IndexOfFavourite(fav, list) == FindingFavourite(fav, list)[Len(list)]

UpdateFavourites(favourites, list) ==
  [s \in DOMAIN favourites |->
     [id |-> favourites[s].id, index |-> IndexOfFavourite(favourites[s], list)]]

SomeFavourite(favourites) == \E s \in DOMAIN favourites : favourites[s].index >= 0

TestFavouritesExits(favourites, id) == \E s \in DOMAIN favourites : favourites[s].id = id

DeleteFavouritesIfExits(favourites, id) ==
  [s \in DOMAIN favourites |-> IF favourites[s].id = id THEN NoFavourite ELSE favourites[s]]

AddFavourites(favourites, s, list, n) ==
  [favourites EXCEPT ![s] = [id |-> list[n + 1].id, index |-> n]]

-----------------------------------------------------------------------------
(* locate_last_game over a list of entries: the copy with all the flags of *)
(* the last game at once, else the last copy on the hard disk, else a copy *)
(* on NTFS, else any.                                                      *)
PrefersTo(e, b) == IsHdd(e) \/ (~IsHdd(b) /\ (IsNtfs(e) \/ ~IsNtfs(b)))

SameGame(list, last) == {n \in DOMAIN list : list[n].id = last.id}
HasFlagsOf(e, last) ==
  e.dev = last.dev /\ (\/ e.kind = last.kind \/ last.kind = "folder"
                       \/ last.kind \in {"ps3", "psx"} /\ e.kind = "ps2")
SameCopy(list, last) == {n \in SameGame(list, last) : HasFlagsOf(list[n], last)}

FindingLastGame(list, last) ==
  LET found[n \in 0 .. Len(list)] ==
        IF n = 0 THEN -1
        ELSE LET b == found[n - 1]
             IN  IF list[n].id = last.id /\ (b = -1 \/ PrefersTo(list[n], list[b + 1]))
                 THEN n - 1 ELSE b
  IN  found
LastGamePosition(list, last) ==
  IF SameCopy(list, last) # {} THEN Min(SameCopy(list, last)) - 1
  ELSE FindingLastGame(list, last)[Len(list)]

=============================================================================
